---------------------------- MODULE MCLadybugStore ----------------------------
\* A small instance of LadybugStore for TLC.
EXTENDS LadybugStore, TLC

\* Replacement loads are interchangeable, and so are readers.
Symmetry == Permutations(Attempts) \cup Permutations(Readers)

=============================================================================
