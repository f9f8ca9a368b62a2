-------------------------- MODULE MCPublishPipeline ---------------------------
\* A small instance of PublishPipeline for TLC.
EXTENDS PublishPipeline, TLC

\* Publishers, and epochs that nobody has drawn, are interchangeable.
Symmetry == Permutations(Publishers) \union Permutations(Epochs)

=============================================================================
