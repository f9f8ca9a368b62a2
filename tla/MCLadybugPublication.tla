------------------------ MODULE MCLadybugPublication -------------------------
\* Small instances of LadybugPublication for TLC.  No symmetry: the run checks
\* liveness too.
EXTENDS LadybugPublication, TLC

=============================================================================
