-------------------------- MODULE MCArtifactCache --------------------------
\* Small instances of ArtifactCache for TLC.
EXTENDS ArtifactCache, TLC

CONSTANTS d1, d2

\* Two directories that are not rewritten: everything that drops an entry.
Dropping == [dirs |-> {d1, d2}, weights |-> {2, 3}, happens |-> {"expire", "invalidate"}]

\* One directory whose loads fail, invalidated meanwhile.
Failing == [dirs |-> {d1}, weights |-> {1, 3}, happens |-> {"fail", "invalidate"}]

\* One directory rewritten in place under callers that also want indexes.
Rewriting == [dirs |-> {d1}, weights |-> {1}, happens |-> {"rewrite", "index"}]

DropOrRewrite == {Dropping, Failing, Rewriting}
RewriteOnly == {Rewriting}

\* Callers are interchangeable.
Symmetry == Permutations(Callers)

=============================================================================
