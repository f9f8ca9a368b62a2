---------------------------- MODULE MCWikiBundle ----------------------------
\* Two features, one of two classes and one of a class that a commit may add; three
\* runs.  Two requests at a time between a full run in place and the second commit,
\* one while a second run works, and none while the third does.
EXTENDS WikiBundle, TLC

FeaturesOfClasses == [f \in Classes |-> IF f <= 2 THEN "A" ELSE "B"]

SmallStart == Present(1) = {1, 2}

SmallInstance ==
  LET idle == run.step = "idle"
      fullRun == LastCommit = 1 /\ bundles[1] # Nothing /\ bundles[1].since = 0 /\ ~bundles[1].staged
      most == IF runs = MaxWikiRuns THEN (IF idle THEN 1 ELSE 0)
              ELSE IF idle /\ runs = 1 /\ fullRun THEN 2 ELSE 1
  IN  \A r \in WikiReaders : r > most => reader[r] = IdleReader
=============================================================================
