----------------------- MODULE LadybugPublicationProofs ----------------------
(***************************************************************************)
(* The files keep what the atomic store promises, for any number of        *)
(* publishers and epochs, with a process that dies, a call that fails or a *)
(* machine that loses power between any two system calls.                  *)
(***************************************************************************)
EXTENDS LadybugPublication, TLAPS

-----------------------------------------------------------------------------
(* The invariant *)

Locking == {"fence_read", "fence_written", "checked", "creating", "written", "recorded",
            "committed"}
Starting == {"idle", "pointed", "read"}
Winning == {"checked", "creating", "written", "recorded"}
Loading == {"loading", "loaded"} \cup Winning

\* The lock is held exactly in the steps between taking and closing it.
LockHeld == \A p \in Publishers : lock = p <=> pub[p].pc \in Locking

\* A token is on the disk before it is used, and so is ahead of every pointer a
\* power loss may leave.
FenceAhead ==
  pointerDisk.token <= pointer.token /\ pointer.token <= fenceDisk /\ fenceDisk <= fence

TokenInOrder(s) ==
  /\ s.pc \in Starting <=> s.token = 0
  /\ s.pc = "fence_read" => s.token = fence + 1
  /\ s.pc # "fence_read" => s.token <= fence
  /\ s.pc \notin {"fence_read", "fence_written"} => s.token <= fenceDisk

\* A pointer, also the one on the disk, is of an epoch that was committed.
InHistory(c) ==
  IF c.epoch = None THEN c.token = 0 ELSE c.token # 0 /\ committedBy[c.epoch] = c.token

RecordsWhole ==
  /\ InHistory(pointer) /\ InHistory(pointerDisk)
  /\ \A e \in Epochs : committedBy[e] # 0 =>
       e \in used /\ record[e] = "whole" /\ recordDisk[e] = "whole"

\* Nothing has come before a publisher in this state that would refuse its CAS.
\* (The fence may have passed it: the CAS may have failed to read FENCE.)
Unbeaten(s) == s.token > pointer.token /\ s.expected = pointer.epoch

\* What holds for a publisher in state s.  One that has checked under the lock
\* still wins when it renames CURRENT.
Standing(s) ==
  /\ s.pc = "pointed" => s.expected \in Epochs /\ committedBy[s.expected] # 0
  /\ s.pc \in Loading => s.epoch \in used /\ committedBy[s.epoch] = 0
  /\ s.pc \in Loading \ {"loading"} => s.epoch \in loaded
  /\ s.pc \in Winning => Unbeaten(s)
  /\ s.pc \in {"written", "recorded"} =>
       record[s.epoch] = "whole" /\ previous[s.epoch] = s.expected
  /\ s.pc = "recorded" => recordDisk[s.epoch] = "whole"
  /\ s.pc = "committed" => pointer.epoch = s.epoch /\ pointer.token = s.token
  /\ s.pc = "published" =>
       s.epoch \in Epochs /\ committedBy[s.epoch] = s.token /\ s.token <= pointerDisk.token

EpochsOwned == \A p, q \in Publishers :
  pub[p].pc \in Loading /\ pub[q].pc \in Loading /\ pub[p].epoch = pub[q].epoch => p = q

FilesInd ==
  /\ TypeOK /\ TokensUnique /\ LockHeld /\ FenceAhead /\ RecordsWhole /\ EpochsOwned
  /\ \A p \in Publishers : TokenInOrder(pub[p]) /\ Standing(pub[p])

-----------------------------------------------------------------------------
(* Steps of a publisher *)

USE FenceAssumption, EpochAssumption, PublisherAssumption

LEMMA PublisherTypes ==
  ASSUME TypeOK, NEW p \in Publishers
  PROVE  /\ pub[p] \in PublisherState /\ pub[p].pc \in Phases
         /\ pub[p].expected \in EpochOrNone /\ pub[p].epoch \in EpochOrNone
         /\ pub[p].token \in 0..MaxFence
BY DEF TypeOK, PublisherState

LEMMA IdleType == Idle \in PublisherState
BY DEF Idle, PublisherState, Phases, EpochOrNone

LEMMA TypeStep == FilesInd /\ [Next]_vars => TypeOK'
<1> SUFFICES ASSUME TypeOK, \A p \in Publishers : Standing(pub[p]), [Next]_vars PROVE TypeOK'
  BY DEF FilesInd
<1> USE IdleType DEF TypeOK
<1>1. ASSUME NEW p \in Publishers, NEW x \in PublisherState, NEW pc \in Phases, NEW tok \in 0..MaxFence,
             NEW e \in EpochOrNone
      PROVE  /\ [x EXCEPT !.pc = pc] \in PublisherState
             /\ [x EXCEPT !.pc = pc, !.expected = e] \in PublisherState
             /\ [x EXCEPT !.pc = pc, !.token = tok] \in PublisherState
             /\ [x EXCEPT !.pc = pc, !.epoch = e] \in PublisherState
  BY DEF PublisherState
<1>2. ASSUME NEW p \in Publishers, NEW a, NEW b, Transition(p, a, b), b \in Phases
      PROVE  pub' \in [Publishers -> PublisherState]
  <2>1. [pub[p] EXCEPT !.pc = b] \in PublisherState
    BY <1>2 DEF PublisherState
  <2> QED BY <1>2, <2>1 DEF Transition
<1>3. ASSUME NEW p \in Publishers, Leave(p)
      PROVE  /\ pub' \in [Publishers -> PublisherState] /\ lock' \in Publishers \union {None}
  BY <1>3 DEF Leave
<1>4. pointer.epoch \in EpochOrNone
  BY DEF Pointer
<1>5. ASSUME NEW p \in Publishers, StartRead(p) PROVE TypeOK'
  <2> DEFINE pc == IF pointer.epoch = None THEN "read" ELSE "pointed"
  <2>1. pc \in Phases
    BY DEF Phases
  <2>2. [pub[p] EXCEPT !.pc = pc, !.expected = pointer.epoch] \in PublisherState
    BY <1>4, <2>1 DEF PublisherState
  <2> QED BY <1>5, <2>2 DEF StartRead, files
<1>6. ASSUME NEW p \in Publishers, ReadRecord(p) PROVE TypeOK'
  BY <1>2, <1>6 DEF ReadRecord, files, Phases
<1>7. ASSUME NEW p \in Publishers, LockAndReadFence(p) PROVE TypeOK'
  <2>1. fence + 1 \in 0..MaxFence
    BY <1>7 DEF LockAndReadFence
  <2>2. [pub[p] EXCEPT !.pc = "fence_read", !.token = fence + 1] \in PublisherState
    BY <2>1 DEF Phases, PublisherState
  <2> QED BY <1>7, <2>2 DEF LockAndReadFence, files
<1>8. ASSUME NEW p \in Publishers, FenceExhausted(p) \/ CasRefused(p) \/ Finish(p) \/ Abort(p) PROVE TypeOK'
  BY <1>3, <1>8 DEF FenceExhausted, CasRefused, Finish, Abort, files
<1>9. ASSUME NEW p \in Publishers, WriteFence(p) PROVE TypeOK'
  BY <1>2, <1>9, PublisherTypes DEF WriteFence, Phases
<1>10. ASSUME NEW p \in Publishers, SyncFence(p) \/ SyncPointer(p) PROVE TypeOK'
  BY <1>2, <1>10 DEF SyncFence, SyncPointer, SyncDirectory, Phases
<1>11. ASSUME NEW p \in Publishers, BeginLoad(p) PROVE TypeOK'
  <2>1. PICK e \in Epochs \ used :
         /\ used' = used \union {e}
         /\ pub' = [pub EXCEPT ![p] = [@ EXCEPT !.pc = "loading", !.epoch = e]]
    BY <1>11 DEF BeginLoad
  <2>2. [pub[p] EXCEPT !.pc = "loading", !.epoch = e] \in PublisherState
    BY <1>1 DEF Phases, EpochOrNone
  <2> QED BY <1>11, <2>1, <2>2 DEF BeginLoad, files
<1>12. ASSUME NEW p \in Publishers, FinishLoad(p) PROVE TypeOK'
  <2>1. pub[p].pc = "loading" /\ pub[p].epoch \in Epochs
    BY <1>12 DEF FinishLoad, Transition, Standing, Loading
  <2> QED BY <1>2, <1>12, <2>1 DEF FinishLoad, files, Phases
<1>13. ASSUME NEW p \in Publishers, LockAndCheck(p) PROVE TypeOK'
  BY <1>2, <1>13 DEF LockAndCheck, files, Phases
<1>14. ASSUME NEW p \in Publishers, CreateRecord(p) PROVE TypeOK'
  BY <1>2, <1>14 DEF CreateRecord, Phases, FileState
<1>15. ASSUME NEW p \in Publishers, WriteRecord(p) PROVE TypeOK'
  BY <1>2, <1>15, PublisherTypes DEF WriteRecord, Phases, FileState
<1>16. ASSUME NEW p \in Publishers, SyncRecord(p) PROVE TypeOK'
  BY <1>2, <1>16 DEF SyncRecord, SyncDirectory, Phases, FileState
<1>17. ASSUME NEW p \in Publishers, RenamePointer(p) PROVE TypeOK'
  BY <1>2, <1>17, PublisherTypes DEF RenamePointer, Phases, Pointer
<1>18. CASE PowerLoss
  <2>1. /\ pointer' \in Pointer /\ pointerDisk' \in Pointer
        /\ fence' \in 0..MaxFence /\ fenceDisk' \in 0..MaxFence
        /\ committedBy' \in [Epochs -> 0..MaxFence]
    BY <1>18 DEF PowerLoss
  <2> QED BY <1>18, <2>1 DEF PowerLoss
<1>19. CASE UNCHANGED vars
  BY <1>19 DEF vars, files
<1> QED BY <1>5, <1>6, <1>7, <1>8, <1>9, <1>10, <1>11, <1>12, <1>13, <1>14, <1>15, <1>16, <1>17,
           <1>18, <1>19 DEF Next

\* What a step that moves p to state t has to show.
LEMMA OneMoves ==
  ASSUME FilesInd, TypeOK', NEW p \in Publishers, NEW t \in PublisherState,
         pub' = [pub EXCEPT ![p] = t],
         lock' = p <=> t.pc \in Locking, \A q \in Publishers \ {p} : lock' = q <=> lock = q,
         FenceAhead', RecordsWhole', TokenInOrder(t)', Standing(t)',
         \A q \in Publishers \ {p} : TokenInOrder(pub[q])' /\ Standing(pub[q])',
         t.token # 0 => \A q \in Publishers \ {p} : pub[q].token # t.token,
         t.pc \in Loading =>
           \A q \in Publishers \ {p} : pub[q].pc \in Loading => pub[q].epoch # t.epoch
  PROVE  FilesInd'
<1>1. pub'[p] = t /\ \A q \in Publishers \ {p} : pub'[q] = pub[q]
  BY DEF FilesInd, TypeOK
<1>2. TokensUnique'
  BY <1>1 DEF FilesInd, TokensUnique, TokenHolders
<1>3. LockHeld'
  BY <1>1 DEF FilesInd, LockHeld
<1>4. EpochsOwned'
  BY <1>1 DEF FilesInd, EpochsOwned
<1>5. \A q \in Publishers : TokenInOrder(pub[q])' /\ Standing(pub[q])'
  BY <1>1
<1> QED BY <1>2, <1>3, <1>4, <1>5 DEF FilesInd

\* Steps that touch no file.
LEMMA QuietMove ==
  ASSUME FilesInd, TypeOK', NEW p \in Publishers, NEW t \in PublisherState,
         pub' = [pub EXCEPT ![p] = t], UNCHANGED <<files, used, loaded, committedBy>>,
         lock' = p <=> t.pc \in Locking, \A q \in Publishers \ {p} : lock' = q <=> lock = q,
         TokenInOrder(t), Standing(t),
         t.token # 0 => \A q \in Publishers \ {p} : pub[q].token # t.token,
         t.pc \in Loading =>
           \A q \in Publishers \ {p} : pub[q].pc \in Loading => pub[q].epoch # t.epoch
  PROVE  FilesInd'
<1>1. UNCHANGED <<fence, fenceDisk, pointer, pointerDisk, record, recordDisk, previous, used,
                  loaded, committedBy>>
  BY DEF files
<1>2. \A s : (TokenInOrder(s)' <=> TokenInOrder(s)) /\ (Standing(s)' <=> Standing(s))
  BY <1>1 DEF TokenInOrder, Standing, Unbeaten
<1>3. FenceAhead' /\ RecordsWhole'
  BY <1>1 DEF FilesInd, FenceAhead, RecordsWhole, InHistory
<1>4. \A q \in Publishers \ {p} : TokenInOrder(pub[q])' /\ Standing(pub[q])'
  <2> TAKE q \in Publishers \ {p}
  <2>1. pub'[q] = pub[q]
    BY DEF FilesInd, TypeOK
  <2> QED BY <1>2, <2>1 DEF FilesInd
<1> QED BY <1>2, <1>3, <1>4, OneMoves

LEMMA LeaveStep ==
  ASSUME FilesInd, TypeOK', NEW p \in Publishers, Leave(p),
         UNCHANGED <<files, used, loaded, committedBy>>
  PROVE  FilesInd'
<1>1. Idle.pc = "idle" /\ Idle.token = 0
  BY DEF Idle
<1>2. lock' # p /\ \A q \in Publishers \ {p} : lock' = q <=> lock = q
  BY DEF Leave
<1>3. Standing(Idle)
  BY <1>1 DEF Standing, Loading, Winning
<1>4. TokenInOrder(Idle)
  BY <1>1 DEF TokenInOrder, Starting, FilesInd, TypeOK
<1> QED BY <1>1, <1>2, <1>3, <1>4, IdleType, QuietMove DEF Leave, Locking, Loading, Winning

LEMMA QuietStep ==
  ASSUME FilesInd, TypeOK', NEW p \in Publishers,
         StartRead(p) \/ ReadRecord(p) \/ LockAndReadFence(p) \/ LockAndCheck(p)
  PROVE  FilesInd'
<1> DEFINE s == pub[p]
<1>1. /\ s \in PublisherState /\ TokenInOrder(s) /\ Standing(s)
      /\ s.token \in Nat /\ fence \in Nat
      /\ UNCHANGED <<files, used, loaded, committedBy>>
  BY PublisherTypes DEF FilesInd, StartRead, ReadRecord, LockAndReadFence, LockAndCheck, TypeOK
<1>2. \A q \in Publishers : (lock = q <=> pub[q].pc \in Locking)
  BY DEF FilesInd, LockHeld
<1>3. CASE StartRead(p)
  <2> DEFINE t == [s EXCEPT !.pc = IF pointer.epoch = None THEN "read" ELSE "pointed",
                            !.expected = pointer.epoch]
  <2>1. s.pc = "idle" /\ pub' = [pub EXCEPT ![p] = t] /\ lock' = lock
    BY <1>3 DEF StartRead
  <2>2. pointer.epoch \in EpochOrNone
    BY DEF FilesInd, TypeOK, Pointer
  <2>3. /\ t \in PublisherState /\ t.token = s.token /\ t.expected = pointer.epoch
        /\ t.pc = IF pointer.epoch = None THEN "read" ELSE "pointed"
    BY <1>1, <2>2 DEF PublisherState, Phases
  <2> HIDE DEF t
  <2>4. s.token = 0 /\ TokenInOrder(t)
    BY <1>1, <2>1, <2>3 DEF TokenInOrder, Starting
  <2>5. Standing(t)
    BY <2>2, <2>3 DEF Standing, Loading, Winning, FilesInd, RecordsWhole, InHistory, EpochOrNone
  <2>6. t.pc \notin Locking /\ t.pc \notin Loading /\ lock # p
    BY <1>2, <2>1, <2>3 DEF Locking, Loading, Winning
  <2> QED BY <1>1, <2>1, <2>3, <2>4, <2>5, <2>6, QuietMove
<1>4. CASE ReadRecord(p)
  <2> DEFINE t == [s EXCEPT !.pc = "read"]
  <2>1. s.pc = "pointed" /\ pub' = [pub EXCEPT ![p] = t] /\ lock' = lock
    BY <1>4 DEF ReadRecord, Transition
  <2>2. t \in PublisherState /\ t.token = s.token /\ t.pc = "read"
    BY <1>1 DEF PublisherState, Phases
  <2> HIDE DEF t
  <2>3. s.token = 0 /\ TokenInOrder(t)
    BY <1>1, <2>1, <2>2 DEF TokenInOrder, Starting
  <2>4. Standing(t) /\ t.pc \notin Locking /\ t.pc \notin Loading /\ lock # p
    BY <1>2, <2>1, <2>2 DEF Standing, Locking, Loading, Winning
  <2> QED BY <1>1, <2>1, <2>2, <2>3, <2>4, QuietMove
<1>5. CASE LockAndReadFence(p)
  <2> DEFINE t == [s EXCEPT !.pc = "fence_read", !.token = fence + 1]
  <2>1. /\ s.pc = "read" /\ pub' = [pub EXCEPT ![p] = t] /\ lock' = p /\ lock = None
        /\ fence + 1 \in 0..MaxFence
    BY <1>1, <1>5 DEF LockAndReadFence
  <2>2. t \in PublisherState /\ t.token = fence + 1 /\ t.pc = "fence_read"
    BY <1>1, <2>1 DEF PublisherState, Phases
  <2> HIDE DEF t
  <2>3. TokenInOrder(t) /\ Standing(t) /\ t.pc \in Locking /\ t.pc \notin Loading
    BY <1>1, <2>2 DEF TokenInOrder, Starting, Standing, Locking, Loading, Winning
  <2>4. ASSUME NEW q \in Publishers \ {p} PROVE pub[q].token # t.token
    <3>1. pub[q].pc # "fence_read" /\ TokenInOrder(pub[q]) /\ pub[q].token \in Nat
      BY <1>2, <2>1, PublisherTypes DEF Locking, FilesInd
    <3> QED BY <1>1, <2>2, <3>1 DEF TokenInOrder
  <2> QED BY <1>1, <2>1, <2>2, <2>3, <2>4, QuietMove
<1>6. CASE LockAndCheck(p)
  <2> DEFINE t == [s EXCEPT !.pc = "checked"]
  <2>1. /\ s.pc = "loaded" /\ pub' = [pub EXCEPT ![p] = t] /\ lock' = p /\ lock = None
        /\ ~(s.token <= pointer.token) /\ s.expected = pointer.epoch
    BY <1>6 DEF LockAndCheck, Transition, Wins, Stale
  <2>2. /\ t \in PublisherState /\ t.token = s.token /\ t.expected = s.expected
        /\ t.epoch = s.epoch /\ t.pc = "checked"
    BY <1>1 DEF PublisherState, Phases
  <2> HIDE DEF t
  <2>3. TokenInOrder(t) /\ t.pc \in Locking /\ s.pc \in Loading /\ t.pc \in Loading
    BY <1>1, <2>1, <2>2 DEF TokenInOrder, Starting, Locking, Loading, Winning
  <2>4. Unbeaten(t)
    <3>1. pointer.token \in Nat
      BY DEF FilesInd, TypeOK, Pointer
    <3> QED BY <1>1, <2>1, <2>2, <3>1 DEF Unbeaten
  <2>5. Standing(t)
    BY <1>1, <2>1, <2>2, <2>4 DEF Standing, Loading, Winning
  <2>6. t.token # 0 => \A q \in Publishers \ {p} : pub[q].token # t.token
    BY <2>2 DEF FilesInd, TokensUnique, TokenHolders
  <2>7. \A q \in Publishers \ {p} : pub[q].pc \in Loading => pub[q].epoch # t.epoch
    BY <2>2, <2>3 DEF FilesInd, EpochsOwned
  <2> QED BY <1>1, <2>1, <2>2, <2>3, <2>5, <2>6, <2>7, QuietMove
<1> QED BY <1>3, <1>4, <1>5, <1>6

LEMMA NaturalTokens ==
  ASSUME TypeOK
  PROVE  /\ fence \in Nat /\ fenceDisk \in Nat /\ pointer.token \in Nat /\ pointerDisk.token \in Nat
         /\ pointer.epoch \in EpochOrNone /\ pointerDisk.epoch \in EpochOrNone
         /\ \A q \in Publishers : pub[q].token \in Nat
BY PublisherTypes DEF TypeOK, Pointer

\* A publisher that holds the lock is alone under it.
LEMMA AloneUnderLock ==
  ASSUME FilesInd, NEW p \in Publishers, pub[p].pc \in Locking
  PROVE  lock = p /\ \A q \in Publishers \ {p} : pub[q].pc \notin Locking
BY DEF FilesInd, LockHeld

\* A step of p that keeps its token and its epoch.
LEMMA SameTokenAndEpoch ==
  ASSUME FilesInd, TypeOK', NEW p \in Publishers, NEW t \in PublisherState,
         pub' = [pub EXCEPT ![p] = t], t.token = pub[p].token, t.epoch = pub[p].epoch,
         t.pc \in Loading => pub[p].pc \in Loading,
         pub[p].pc \in Locking, IF t.pc \in Locking THEN lock' = lock ELSE lock' = None,
         FenceAhead', RecordsWhole', TokenInOrder(t)', Standing(t)',
         \A q \in Publishers \ {p} : TokenInOrder(pub[q])' /\ Standing(pub[q])'
  PROVE  FilesInd'
<1>1. lock = p /\ lock' = p <=> t.pc \in Locking
  BY AloneUnderLock
<1>2. \A q \in Publishers \ {p} : lock' = q <=> lock = q
  BY AloneUnderLock
<1>3. t.token # 0 => \A q \in Publishers \ {p} : pub[q].token # t.token
  BY DEF FilesInd, TokensUnique, TokenHolders
<1>4. t.pc \in Loading => \A q \in Publishers \ {p} : pub[q].pc \in Loading => pub[q].epoch # t.epoch
  BY DEF FilesInd, EpochsOwned
<1> QED BY <1>1, <1>2, <1>3, <1>4, OneMoves, AloneUnderLock

\* Syncing the directory breaks nothing that holds of a publisher.
LEMMA SyncKeeps ==
  ASSUME FilesInd, TypeOK', SyncDirectory, UNCHANGED <<record, previous, used, loaded, committedBy>>,
         \A e \in Epochs : recordDisk'[e] = recordDisk[e] \/ recordDisk'[e] = "whole"
  PROVE  /\ FenceAhead' /\ RecordsWhole'
         /\ \A s \in PublisherState : TokenInOrder(s) /\ Standing(s) => TokenInOrder(s)' /\ Standing(s)'
<1>1. /\ fenceDisk' = fence /\ pointerDisk' = pointer /\ fence' = fence /\ pointer' = pointer
      /\ fenceDisk <= fence /\ pointerDisk.token <= pointer.token /\ pointer.token <= fence
  BY NaturalTokens DEF SyncDirectory, FilesInd, FenceAhead
<1>2. FenceAhead'
  BY <1>1, NaturalTokens DEF FenceAhead, FilesInd
<1>3. RecordsWhole'
  BY <1>1 DEF FilesInd, RecordsWhole, InHistory
<1>4. ASSUME NEW s \in PublisherState, TokenInOrder(s), Standing(s)
      PROVE  TokenInOrder(s)' /\ Standing(s)'
  <2>1. s.token \in Nat
    BY DEF PublisherState
  <2>2. TokenInOrder(s)'
    BY <1>1, <1>4, <2>1, NaturalTokens DEF TokenInOrder, FilesInd
  <2>3. s.pc = "recorded" => s.epoch \in Epochs
    BY <1>4 DEF Standing, Loading, Winning, FilesInd, TypeOK
  <2>4. s.pc = "published" => s.token <= pointerDisk'.token
    BY <1>1, <1>4, <2>1, NaturalTokens DEF Standing, FilesInd
  <2> QED BY <1>1, <1>4, <2>2, <2>3, <2>4 DEF Standing, Unbeaten
<1> QED BY <1>2, <1>3, <1>4

LEMMA FenceStep ==
  ASSUME FilesInd, TypeOK', NEW p \in Publishers, WriteFence(p) \/ SyncFence(p) \/ SyncPointer(p)
  PROVE  FilesInd'
<1>0. PICK s : s = pub[p]
  OBVIOUS
<1>1. /\ s \in PublisherState /\ TokenInOrder(s) /\ Standing(s) /\ TypeOK /\ FenceAhead
      /\ s.token \in Nat
  BY <1>0, PublisherTypes DEF FilesInd
<1>2. s.pc \in Locking
  BY <1>0 DEF WriteFence, SyncFence, SyncPointer, Transition, Locking
<1>3. \A q \in Publishers \ {p} : pub[q].pc \notin Locking /\ TokenInOrder(pub[q]) /\ Standing(pub[q])
                                  /\ pub[q] \in PublisherState /\ pub[q].token \in Nat /\ pub'[q] = pub[q]
  BY <1>0, <1>1, <1>2, AloneUnderLock, PublisherTypes, NaturalTokens
     DEF FilesInd, WriteFence, SyncFence, SyncPointer, Transition, TypeOK
<1>4. CASE WriteFence(p)
  <2>0. PICK t : t = [s EXCEPT !.pc = "fence_written"]
    OBVIOUS
  <2>1. /\ s.pc = "fence_read" /\ pub' = [pub EXCEPT ![p] = t] /\ fence' = s.token
        /\ UNCHANGED <<fenceDisk, pointer, pointerDisk, record, recordDisk, previous, lock, used,
                       loaded, committedBy>>
    BY <1>0, <1>4, <2>0 DEF WriteFence, Transition
  <2>2. t \in PublisherState /\ t.token = s.token /\ t.epoch = s.epoch /\ t.pc = "fence_written"
    BY <1>1, <2>0 DEF PublisherState, Phases
  <2>3. fence' = fence + 1
    BY <1>1, <2>1 DEF TokenInOrder
  <2>4. FenceAhead' /\ RecordsWhole'
    BY <1>1, <2>1, <2>3, NaturalTokens DEF FenceAhead, RecordsWhole, InHistory, FilesInd
  <2>5. TokenInOrder(t)'
    BY <1>1, <2>1, <2>2, <2>3, NaturalTokens DEF TokenInOrder, Starting
  <2>6. Standing(t)' /\ t.pc \in Locking /\ t.pc \notin Loading
    BY <2>2 DEF Standing, Loading, Winning, Locking
  <2>7. ASSUME NEW q \in Publishers \ {p} PROVE TokenInOrder(pub[q])' /\ Standing(pub[q])'
    <3>1. TokenInOrder(pub[q])'
      BY <1>1, <1>3, <2>1, <2>3, NaturalTokens DEF TokenInOrder, Locking
    <3>2. Standing(pub[q])'
      BY <1>3, <2>1 DEF Standing, Locking, Winning
    <3> QED BY <3>1, <3>2
  <2> QED BY <1>0, <1>2, <2>1, <2>2, <2>4, <2>5, <2>6, <2>7, SameTokenAndEpoch
<1>5. CASE SyncFence(p)
  <2>0. PICK t : t = [s EXCEPT !.pc = "allocated"]
    OBVIOUS
  <2>1. /\ s.pc = "fence_written" /\ pub' = [pub EXCEPT ![p] = t] /\ lock' = None
        /\ SyncDirectory /\ UNCHANGED <<record, recordDisk, previous, used, loaded, committedBy>>
    BY <1>0, <1>5, <2>0 DEF SyncFence, Transition
  <2>2. t \in PublisherState /\ t.token = s.token /\ t.epoch = s.epoch /\ t.pc = "allocated"
    BY <1>1, <2>0 DEF PublisherState, Phases
  <2>3. FenceAhead' /\ RecordsWhole' /\ TokenInOrder(s)'
    BY <1>1, <2>1, SyncKeeps
  <2>4. TokenInOrder(t)'
    BY <1>1, <2>1, <2>2, NaturalTokens DEF TokenInOrder, Starting, SyncDirectory
  <2>5. Standing(t)' /\ t.pc \notin Locking /\ t.pc \notin Loading
    BY <2>2 DEF Standing, Loading, Winning, Locking
  <2>6. \A q \in Publishers \ {p} : TokenInOrder(pub[q])' /\ Standing(pub[q])'
    BY <1>3, <2>1, SyncKeeps
  <2> QED BY <1>0, <1>2, <2>1, <2>2, <2>3, <2>4, <2>5, <2>6, SameTokenAndEpoch
<1>6. CASE SyncPointer(p)
  <2>0. PICK t : t = [s EXCEPT !.pc = "published"]
    OBVIOUS
  <2>1. /\ s.pc = "committed" /\ pub' = [pub EXCEPT ![p] = t] /\ lock' = None
        /\ SyncDirectory /\ UNCHANGED <<record, recordDisk, previous, used, loaded, committedBy>>
    BY <1>0, <1>6, <2>0 DEF SyncPointer, Transition
  <2>2. t \in PublisherState /\ t.token = s.token /\ t.epoch = s.epoch /\ t.pc = "published"
    BY <1>1, <2>0 DEF PublisherState, Phases
  <2>3. FenceAhead' /\ RecordsWhole' /\ TokenInOrder(s)'
    BY <1>1, <2>1, SyncKeeps
  <2>4. TokenInOrder(t)'
    BY <1>1, <2>1, <2>2, <2>3, NaturalTokens DEF TokenInOrder, Starting, SyncDirectory
  <2>5. s.epoch \in Epochs /\ committedBy[s.epoch] = s.token /\ s.token = pointer.token
    BY <1>1, <2>1, NaturalTokens DEF Standing, FilesInd, RecordsWhole, InHistory, TokenInOrder,
                                     Starting, EpochOrNone
  <2>6. Standing(t)' /\ t.pc \notin Locking /\ t.pc \notin Loading
    BY <1>1, <2>1, <2>2, <2>5 DEF Standing, Loading, Winning, Locking, SyncDirectory
  <2>7. \A q \in Publishers \ {p} : TokenInOrder(pub[q])' /\ Standing(pub[q])'
    BY <1>3, <2>1, SyncKeeps
  <2> QED BY <1>0, <1>2, <2>1, <2>2, <2>3, <2>4, <2>6, <2>7, SameTokenAndEpoch
<1> QED BY <1>4, <1>5, <1>6

LEMMA LoadStep ==
  ASSUME FilesInd, TypeOK', NEW p \in Publishers, BeginLoad(p) \/ FinishLoad(p)
  PROVE  FilesInd'
<1>0. PICK s : s = pub[p]
  OBVIOUS
<1>1. s \in PublisherState /\ TokenInOrder(s) /\ Standing(s) /\ TypeOK /\ s.token \in Nat
  BY <1>0, NaturalTokens, PublisherTypes DEF FilesInd
<1>2. UNCHANGED <<fence, fenceDisk, pointer, pointerDisk, record, recordDisk, previous, lock,
                  committedBy>>
  BY DEF BeginLoad, FinishLoad, files
<1>3. used \subseteq used' /\ loaded \subseteq loaded'
  BY DEF BeginLoad, FinishLoad, files
<1>4. ASSUME NEW x, TokenInOrder(x), Standing(x) PROVE TokenInOrder(x)' /\ Standing(x)'
  BY <1>2, <1>3, <1>4 DEF TokenInOrder, Standing, Unbeaten
<1>5. FenceAhead' /\ RecordsWhole'
  BY <1>1, <1>2, <1>3 DEF FilesInd, FenceAhead, RecordsWhole, InHistory
<1>6. \A q \in Publishers \ {p} : TokenInOrder(pub[q])' /\ Standing(pub[q])'
  <2> TAKE q \in Publishers \ {p}
  <2>1. pub'[q] = pub[q]
    BY DEF FilesInd, TypeOK, BeginLoad, FinishLoad, Transition
  <2>2. PICK x : x = pub[q] /\ TokenInOrder(x) /\ Standing(x)
    BY DEF FilesInd
  <2>3. TokenInOrder(x)' /\ Standing(x)' /\ x = pub'[q]
    BY <1>4, <2>1, <2>2
  <2> QED BY <2>3 DEF TokenInOrder, Standing, Unbeaten
<1>7. s.token # 0 => \A q \in Publishers \ {p} : pub[q].token # s.token
  BY <1>0 DEF FilesInd, TokensUnique, TokenHolders
<1>8. s.pc \notin Locking => lock # p
  BY <1>0 DEF FilesInd, LockHeld
<1>9. CASE BeginLoad(p)
  <2>1. PICK e \in Epochs \ used :
          used' = used \union {e} /\ pub' = [pub EXCEPT ![p] = [s EXCEPT !.pc = "loading", !.epoch = e]]
    BY <1>0, <1>9 DEF BeginLoad
  <2>2. PICK t : t = [s EXCEPT !.pc = "loading", !.epoch = e]
    OBVIOUS
  <2>3. s.pc = "allocated" /\ pub' = [pub EXCEPT ![p] = t] /\ lock' = lock
    BY <1>0, <1>9, <2>1, <2>2 DEF BeginLoad
  <2>4. t \in PublisherState /\ t.token = s.token /\ t.pc = "loading" /\ t.epoch = e
    BY <1>1, <2>2 DEF PublisherState, Phases, EpochOrNone
  <2>5. TokenInOrder(t)'
    BY <1>1, <1>2, <2>3, <2>4, NaturalTokens DEF TokenInOrder, Starting
  <2>6. committedBy[e] = 0
    BY DEF FilesInd, RecordsWhole
  <2>7. Standing(t)'
    BY <1>1, <1>2, <2>1, <2>4, <2>6 DEF Standing, Loading, Winning
  <2>8. t.pc \notin Locking /\ s.pc \notin Locking
    BY <2>3, <2>4 DEF Locking
  <2>9. \A q \in Publishers \ {p} : pub[q].pc \in Loading => pub[q].epoch # t.epoch
    BY <2>4 DEF FilesInd, Standing
  <2> QED BY <1>0, <1>5, <1>6, <1>7, <1>8, <2>3, <2>4, <2>5, <2>7, <2>8, <2>9, OneMoves
<1>10. CASE FinishLoad(p)
  <2>0. PICK t : t = [s EXCEPT !.pc = "loaded"]
    OBVIOUS
  <2>1. /\ s.pc = "loading" /\ pub' = [pub EXCEPT ![p] = t] /\ lock' = lock
        /\ loaded' = loaded \union {s.epoch} /\ used' = used
    BY <1>0, <1>10, <2>0 DEF FinishLoad, Transition
  <2>2. t \in PublisherState /\ t.token = s.token /\ t.pc = "loaded" /\ t.epoch = s.epoch
    BY <1>1, <2>0 DEF PublisherState, Phases
  <2>3. TokenInOrder(t)'
    BY <1>1, <1>2, <2>1, <2>2 DEF TokenInOrder, Starting
  <2>4. Standing(t)' /\ s.pc \in Loading
    BY <1>1, <1>2, <2>1, <2>2 DEF Standing, Loading, Winning
  <2>5. t.pc \notin Locking /\ s.pc \notin Locking
    BY <2>1, <2>2 DEF Locking
  <2>6. \A q \in Publishers \ {p} : pub[q].pc \in Loading => pub[q].epoch # t.epoch
    BY <1>0, <2>2, <2>4 DEF FilesInd, EpochsOwned
  <2> QED BY <1>0, <1>5, <1>6, <1>7, <1>8, <2>1, <2>2, <2>3, <2>4, <2>5, <2>6, OneMoves
<1> QED BY <1>9, <1>10

\* The record of an epoch nobody has committed is written under the lock.
LEMMA RecordStep ==
  ASSUME FilesInd, TypeOK', NEW p \in Publishers,
         CreateRecord(p) \/ WriteRecord(p) \/ SyncRecord(p)
  PROVE  FilesInd'
<1>0. PICK s : s = pub[p]
  OBVIOUS
<1>1. /\ s \in PublisherState /\ TokenInOrder(s) /\ Standing(s) /\ TypeOK
      /\ UNCHANGED <<fence, pointer, lock, used, loaded, committedBy>>
  BY <1>0, PublisherTypes DEF FilesInd, CreateRecord, WriteRecord, SyncRecord, SyncDirectory
<1>2. s.pc \in Locking /\ s.pc \in Winning /\ s.pc \in Loading
  BY <1>0 DEF CreateRecord, WriteRecord, SyncRecord, Transition, Locking, Winning, Loading
<1>3. \A q \in Publishers \ {p} : /\ pub[q].pc \notin Locking /\ TokenInOrder(pub[q]) /\ Standing(pub[q])
                                  /\ pub[q] \in PublisherState /\ pub'[q] = pub[q]
  BY <1>0, <1>2, AloneUnderLock, PublisherTypes
     DEF FilesInd, CreateRecord, WriteRecord, SyncRecord, Transition, TypeOK
<1>4. s.epoch \in Epochs /\ committedBy[s.epoch] = 0 /\ s.epoch \in loaded /\ s.epoch \in used
      /\ Unbeaten(s)
  BY <1>1, <1>2 DEF Standing, Winning, Loading, TypeOK
<1>5. CASE CreateRecord(p) \/ WriteRecord(p)
  <2>0. PICK t : t = IF CreateRecord(p) THEN [s EXCEPT !.pc = "creating"] ELSE [s EXCEPT !.pc = "written"]
    OBVIOUS
  <2>1. /\ pub' = [pub EXCEPT ![p] = t] /\ UNCHANGED <<fenceDisk, pointerDisk, recordDisk>>
        /\ record' = [record EXCEPT ![s.epoch] = IF CreateRecord(p) THEN "partial" ELSE "whole"]
        /\ CreateRecord(p) \/ previous' = [previous EXCEPT ![s.epoch] = s.expected]
    BY <1>0, <1>5, <2>0 DEF CreateRecord, WriteRecord, Transition
  <2>2. /\ t \in PublisherState /\ t.token = s.token /\ t.epoch = s.epoch /\ t.expected = s.expected
        /\ t.pc = IF CreateRecord(p) THEN "creating" ELSE "written"
    BY <1>1, <2>0 DEF PublisherState, Phases
  <2>3. FenceAhead' /\ RecordsWhole'
    BY <1>1, <1>4, <2>1 DEF FilesInd, FenceAhead, RecordsWhole, InHistory, TypeOK
  <2>4. TokenInOrder(t)'
    BY <1>1, <1>2, <2>1, <2>2 DEF TokenInOrder, Starting, Winning
  <2>5. Standing(t)'
    BY <1>1, <1>4, <2>1, <2>2 DEF Standing, Loading, Winning, Unbeaten, TypeOK
  <2>6. t.pc \in Locking
    BY <2>2 DEF Locking
  <2>7. \A q \in Publishers \ {p} : TokenInOrder(pub[q])' /\ Standing(pub[q])'
    BY <1>1, <1>3, <2>1 DEF TokenInOrder, Standing, Winning, Locking
  <2> QED BY <1>0, <1>1, <1>2, <2>1, <2>2, <2>3, <2>4, <2>5, <2>6, <2>7, SameTokenAndEpoch
<1>6. CASE SyncRecord(p)
  <2>0. PICK t : t = [s EXCEPT !.pc = "recorded"]
    OBVIOUS
  <2>1. /\ pub' = [pub EXCEPT ![p] = t] /\ s.pc = "written" /\ SyncDirectory /\ UNCHANGED <<record, previous>>
        /\ recordDisk' = [recordDisk EXCEPT ![s.epoch] = "whole"]
    BY <1>0, <1>6, <2>0 DEF SyncRecord, Transition
  <2>2. /\ t \in PublisherState /\ t.token = s.token /\ t.epoch = s.epoch /\ t.expected = s.expected
        /\ t.pc = "recorded"
    BY <1>1, <2>0 DEF PublisherState, Phases
  <2>3. \A e \in Epochs : recordDisk'[e] = recordDisk[e] \/ recordDisk'[e] = "whole"
    BY <1>1, <2>1 DEF TypeOK
  <2>4. /\ FenceAhead' /\ RecordsWhole'
        /\ \A x \in PublisherState : TokenInOrder(x) /\ Standing(x) => TokenInOrder(x)' /\ Standing(x)'
    BY <1>1, <2>1, <2>3, SyncKeeps
  <2>5. TokenInOrder(s)' /\ Standing(s)'
    BY <1>1, <2>4
  <2>6. TokenInOrder(t)'
    BY <2>1, <2>2, <2>5 DEF TokenInOrder, Starting
  <2>7. Standing(t)'
    BY <1>1, <1>4, <2>1, <2>2, <2>5 DEF Standing, Loading, Winning, Unbeaten, TypeOK
  <2>8. t.pc \in Locking
    BY <2>2 DEF Locking
  <2>9. \A q \in Publishers \ {p} : TokenInOrder(pub[q])' /\ Standing(pub[q])'
    BY <1>3, <2>4
  <2> QED BY <1>0, <1>1, <1>2, <2>1, <2>2, <2>4, <2>6, <2>7, <2>8, <2>9, SameTokenAndEpoch
<1> QED BY <1>5, <1>6

\* The commit.
LEMMA CommitStep ==
  ASSUME FilesInd, TypeOK', NEW p \in Publishers, RenamePointer(p)
  PROVE  FilesInd'
<1>0. PICK s : s = pub[p]
  OBVIOUS
<1>1. /\ s \in PublisherState /\ TokenInOrder(s) /\ Standing(s) /\ TypeOK /\ s.token \in Nat
      /\ s.pc = "recorded"
      /\ UNCHANGED <<fence, fenceDisk, pointerDisk, record, recordDisk, previous, lock, used, loaded>>
  BY <1>0, PublisherTypes DEF FilesInd, RenamePointer, Transition
<1>2. s.pc \in Locking /\ s.pc \in Winning /\ s.pc \in Loading
  BY <1>1 DEF Locking, Winning, Loading
<1>3. \A q \in Publishers \ {p} : /\ pub[q].pc \notin Locking /\ TokenInOrder(pub[q]) /\ Standing(pub[q])
                                  /\ pub[q] \in PublisherState /\ pub'[q] = pub[q]
  BY <1>0, <1>2, AloneUnderLock, PublisherTypes DEF FilesInd, RenamePointer, Transition, TypeOK
<1>4. /\ s.epoch \in Epochs /\ committedBy[s.epoch] = 0 /\ s.epoch \in used /\ Unbeaten(s)
      /\ record[s.epoch] = "whole" /\ recordDisk[s.epoch] = "whole"
  BY <1>1, <1>2 DEF Standing, Winning, Loading, TypeOK
<1>5. s.token # 0 /\ s.token <= fenceDisk
  BY <1>1 DEF TokenInOrder, Starting
<1>6. PICK t : t = [s EXCEPT !.pc = "committed"]
  OBVIOUS
<1>7. /\ pub' = [pub EXCEPT ![p] = t]
      /\ pointer' = [epoch |-> s.epoch, token |-> s.token]
      /\ committedBy' = [committedBy EXCEPT ![s.epoch] = s.token]
  BY <1>0, <1>6 DEF RenamePointer, Transition
<1>8. t \in PublisherState /\ t.token = s.token /\ t.epoch = s.epoch /\ t.pc = "committed"
  BY <1>1, <1>6 DEF PublisherState, Phases
<1>9. \A e \in Epochs : committedBy'[e] = IF e = s.epoch THEN s.token ELSE committedBy[e]
  BY <1>1, <1>4, <1>7 DEF TypeOK
<1>10. pointerDisk.epoch # s.epoch
  BY <1>4 DEF FilesInd, RecordsWhole, InHistory
<1>11. FenceAhead'
  BY <1>1, <1>4, <1>5, <1>7, NaturalTokens DEF FilesInd, FenceAhead, Unbeaten
<1>12. RecordsWhole'
  BY <1>1, <1>4, <1>5, <1>7, <1>9, <1>10, NaturalTokens DEF FilesInd, RecordsWhole, InHistory, EpochOrNone
<1>13. TokenInOrder(t)' /\ t.pc \in Locking /\ t.pc \notin Loading
  BY <1>1, <1>8 DEF TokenInOrder, Starting, Locking, Loading, Winning
<1>14. Standing(t)'
  BY <1>7, <1>8 DEF Standing, Loading, Winning
<1>15. ASSUME NEW q \in Publishers \ {p} PROVE TokenInOrder(pub[q])' /\ Standing(pub[q])'
  <2>1. PICK x : x = pub[q]
    OBVIOUS
  <2>2. TokenInOrder(x)'
    BY <1>1, <1>3, <2>1 DEF TokenInOrder
  <2>3. x.pc \in Loading => x.epoch # s.epoch /\ x.epoch \in Epochs
    BY <1>0, <1>2, <1>3, <2>1 DEF FilesInd, EpochsOwned, Standing, TypeOK
  <2>4. x.pc = "published" => x.epoch # s.epoch
    BY <1>3, <1>4, <2>1 DEF Standing, TokenInOrder, Starting
  <2>5. Standing(x)'
    BY <1>1, <1>3, <1>5, <1>9, <2>1, <2>3, <2>4 DEF Standing, Winning, Loading, Locking
  <2> QED BY <1>3, <2>1, <2>2, <2>5
<1> QED BY <1>0, <1>1, <1>2, <1>7, <1>8, <1>11, <1>12, <1>13, <1>14, <1>15, SameTokenAndEpoch

-----------------------------------------------------------------------------
(* A power loss *)

LEMMA AllIdle ==
  ASSUME TypeOK', pub' = [p \in Publishers |-> Idle], lock' = None
  PROVE  /\ (TokensUnique /\ LockHeld /\ EpochsOwned)'
         /\ \A p \in Publishers : TokenInOrder(pub[p])' /\ Standing(pub[p])'
<1>1. Idle.pc = "idle" /\ Idle.token = 0
  BY DEF Idle
<1>2. \A p \in Publishers : pub'[p] = Idle
  OBVIOUS
<1>3. (TokensUnique /\ LockHeld /\ EpochsOwned)'
  BY <1>1, <1>2 DEF TokensUnique, TokenHolders, LockHeld, Locking, EpochsOwned, Loading, Winning
<1>4. fence' \in Nat /\ fenceDisk' \in Nat
  BY DEF TypeOK
<1>5. \A p \in Publishers : TokenInOrder(pub[p])'
  BY <1>1, <1>2, <1>4 DEF TokenInOrder, Starting
<1>6. \A p \in Publishers : Standing(pub[p])'
  BY <1>1, <1>2 DEF Standing, Loading, Winning
<1> QED BY <1>3, <1>5, <1>6

LEMMA PowerStep ==
  ASSUME FilesInd, TypeOK', PowerLoss
  PROVE  FilesInd'
<1>1. PICK c \in {pointer, pointerDisk} :
        /\ pointer' = c /\ pointerDisk' = c
        /\ committedBy' = [e \in Epochs |-> IF committedBy[e] <= c.token THEN committedBy[e] ELSE 0]
  BY DEF PowerLoss
<1>2. PICK f \in {fence, fenceDisk} : fence' = f /\ fenceDisk' = f
  BY DEF PowerLoss
<1>3. /\ c.token \in Nat /\ c.epoch \in EpochOrNone /\ f \in Nat /\ c.token <= f /\ InHistory(c)
  BY NaturalTokens DEF FilesInd, FenceAhead, RecordsWhole
<1>4. FenceAhead'
  BY <1>1, <1>2, <1>3 DEF FenceAhead
<1>5. InHistory(c)'
  BY <1>1, <1>3 DEF InHistory, EpochOrNone
<1>6. ASSUME NEW e \in Epochs, committedBy'[e] # 0
      PROVE  e \in used' /\ record'[e] = "whole" /\ recordDisk'[e] = "whole"
  <2>1. committedBy[e] # 0
    BY <1>1, <1>6
  <2>2. e \in used /\ record[e] = "whole" /\ recordDisk[e] = "whole"
    BY <2>1 DEF FilesInd, RecordsWhole
  <2> QED BY <2>2 DEF PowerLoss
<1>7. RecordsWhole'
  BY <1>1, <1>5, <1>6 DEF RecordsWhole, InHistory
<1>8. pub' = [p \in Publishers |-> Idle] /\ lock' = None
  BY DEF PowerLoss
<1> QED BY <1>4, <1>7, <1>8, AllIdle DEF FilesInd

-----------------------------------------------------------------------------
(* The invariant holds *)

LEMMA FilesStart == Init => FilesInd
<1> SUFFICES ASSUME Init PROVE FilesInd
  OBVIOUS
<1>1. TypeOK
  BY IdleType DEF Init, TypeOK, NoPointer, Pointer, EpochOrNone, FileState
<1>2. FenceAhead /\ RecordsWhole
  BY DEF Init, FenceAhead, RecordsWhole, InHistory, NoPointer
<1>3. Idle.pc = "idle" /\ Idle.token = 0
  BY DEF Idle
<1>4. \A p \in Publishers : pub[p] = Idle
  BY DEF Init
<1>5. TokensUnique /\ LockHeld /\ EpochsOwned
  BY <1>3, <1>4 DEF Init, TokensUnique, TokenHolders, LockHeld, Locking, EpochsOwned, Loading, Winning
<1>6. \A p \in Publishers : TokenInOrder(pub[p])
  <2>1. fence = 0 /\ fenceDisk = 0 /\ 0 \in Nat
    BY DEF Init
  <2>2. \A p \in Publishers : pub[p].pc = "idle" /\ pub[p].token = 0
    BY <1>3, <1>4
  <2>3. 0 <= fence /\ 0 <= fenceDisk
    BY <2>1
  <2> QED BY <2>2, <2>3, <1>4, <2>1 DEF TokenInOrder, Starting
<1>7. \A p \in Publishers : Standing(pub[p])
  BY <1>3, <1>4 DEF Standing, Loading, Winning
<1> QED BY <1>1, <1>2, <1>5, <1>6, <1>7 DEF FilesInd

LEMMA StutterKeeps ==
  ASSUME FilesInd, TypeOK', UNCHANGED vars
  PROVE  FilesInd'
<1>1. UNCHANGED <<fence, fenceDisk, pointer, pointerDisk, record, recordDisk, previous, lock, used,
                  loaded, committedBy, pub>>
  BY DEF vars, files
<1>2. (TokensUnique /\ LockHeld /\ FenceAhead /\ RecordsWhole /\ EpochsOwned)'
  BY <1>1 DEF FilesInd, TokensUnique, TokenHolders, LockHeld, FenceAhead, RecordsWhole, InHistory,
              EpochsOwned
<1>3. \A p \in Publishers : TokenInOrder(pub[p])'
  BY <1>1 DEF FilesInd, TokenInOrder
<1>4. \A p \in Publishers : Standing(pub[p])'
  BY <1>1 DEF FilesInd, Standing, Unbeaten
<1> QED BY <1>2, <1>3, <1>4 DEF FilesInd

LEMMA FilesStep == FilesInd /\ [Next]_vars => FilesInd'
<1> SUFFICES ASSUME FilesInd, [Next]_vars PROVE FilesInd'
  OBVIOUS
<1>0. TypeOK'
  BY TypeStep
<1>1. ASSUME NEW p \in Publishers,
             StartRead(p) \/ ReadRecord(p) \/ LockAndReadFence(p) \/ LockAndCheck(p)
      PROVE  FilesInd'
  BY <1>0, <1>1, QuietStep
<1>2. ASSUME NEW p \in Publishers, WriteFence(p) \/ SyncFence(p) \/ SyncPointer(p)
      PROVE  FilesInd'
  BY <1>0, <1>2, FenceStep
<1>3. ASSUME NEW p \in Publishers, BeginLoad(p) \/ FinishLoad(p) PROVE FilesInd'
  BY <1>0, <1>3, LoadStep
<1>4. ASSUME NEW p \in Publishers, CreateRecord(p) \/ WriteRecord(p) \/ SyncRecord(p)
      PROVE  FilesInd'
  BY <1>0, <1>4, RecordStep
<1>5. ASSUME NEW p \in Publishers, RenamePointer(p) PROVE FilesInd'
  BY <1>0, <1>5, CommitStep
<1>6. ASSUME NEW p \in Publishers, FenceExhausted(p) \/ CasRefused(p) \/ Finish(p) \/ Abort(p)
      PROVE  FilesInd'
  BY <1>0, <1>6, LeaveStep DEF FenceExhausted, CasRefused, Finish, Abort
<1>7. CASE PowerLoss
  BY <1>0, <1>7, PowerStep
<1>8. CASE UNCHANGED vars
  BY <1>0, <1>8, StutterKeeps
<1> QED BY <1>1, <1>2, <1>3, <1>4, <1>5, <1>6, <1>7, <1>8 DEF Next

LEMMA FilesAlways == Spec => []FilesInd
BY FilesStart, FilesStep, PTL DEF Spec

\* Tokens are never shared and a publication that was answered is on the disk,
\* record and pointer: what publish_complete_graph relies on, whatever fails.
THEOREM FilesCorrect == Spec => []FilesInv
<1>1. FilesInd => FilesInv
  <2> SUFFICES ASSUME FilesInd PROVE PublishedIsDurable
    BY DEF FilesInd, FilesInv
  <2> SUFFICES ASSUME NEW p \in Publishers, pub[p].pc = "published"
               PROVE  /\ committedBy[pub[p].epoch] = pub[p].token
                      /\ pub[p].token <= pointerDisk.token
                      /\ recordDisk[pub[p].epoch] = "whole"
    BY DEF PublishedIsDurable
  <2>1. Standing(pub[p]) /\ TokenInOrder(pub[p])
    BY DEF FilesInd
  <2>2. /\ pub[p].epoch \in Epochs /\ committedBy[pub[p].epoch] = pub[p].token
        /\ pub[p].token <= pointerDisk.token /\ pub[p].token # 0
    BY <2>1 DEF Standing, TokenInOrder, Starting
  <2> QED BY <2>2 DEF FilesInd, RecordsWhole
<1> QED BY <1>1, FilesAlways, PTL

\* Whoever reads CURRENT finds the record it names, at once, after a power loss,
\* or after other publishers have replaced CURRENT meanwhile.
THEOREM ReadersServed == Spec => []ReadersFindRecords
<1>1. FilesInd => ReadersFindRecords
  <2> SUFFICES ASSUME FilesInd PROVE ReadersFindRecords
    OBVIOUS
  <2>1. /\ pointer.epoch # None => record[pointer.epoch] = "whole"
        /\ pointerDisk.epoch # None => recordDisk[pointerDisk.epoch] = "whole"
    BY NaturalTokens DEF FilesInd, RecordsWhole, InHistory, EpochOrNone
  <2>2. ASSUME NEW p \in Publishers, pub[p].pc = "pointed"
        PROVE  record[pub[p].expected] = "whole"
    <3>1. pub[p].expected \in Epochs /\ committedBy[pub[p].expected] # 0
      BY <2>2 DEF FilesInd, Standing
    <3> QED BY <3>1 DEF FilesInd, RecordsWhole
  <2> QED BY <2>1, <2>2 DEF ReadersFindRecords
<1> QED BY <1>1, FilesAlways, PTL

\* CURRENT moves forward only to a graph whose load ended and which no power
\* loss has touched since.
THEOREM CompleteGraphsPublished == Spec => OnlyCompleteGraphsPublished
<1>1. FilesInd /\ [Next]_vars => [pointer'.token > pointer.token => pointer'.epoch \in loaded]_vars
  <2> SUFFICES ASSUME FilesInd, Next, pointer'.token > pointer.token
               PROVE  pointer'.epoch \in loaded
    BY DEF vars, files
  <2>0. pointer.token \in Nat /\ pointerDisk.token <= pointer.token /\ pointerDisk.token \in Nat
    BY NaturalTokens DEF FilesInd, FenceAhead
  <2>1. CASE PowerLoss
    BY <2>0, <2>1 DEF PowerLoss
  <2>2. CASE \E p \in Publishers : RenamePointer(p)
    <3>1. PICK p \in Publishers : RenamePointer(p)
      BY <2>2
    <3>2. pub[p].pc = "recorded" /\ pointer'.epoch = pub[p].epoch
      BY <3>1 DEF RenamePointer, Transition
    <3> QED BY <3>2 DEF FilesInd, Standing, Loading, Winning
  <2>3. CASE ~PowerLoss /\ ~ \E p \in Publishers : RenamePointer(p)
    <3>1. pointer' = pointer
      BY <2>3 DEF Next, files, SyncDirectory, StartRead, ReadRecord, LockAndReadFence, FenceExhausted,
                  WriteFence, SyncFence, BeginLoad, FinishLoad, CasRefused, LockAndCheck, CreateRecord,
                  WriteRecord, SyncRecord, SyncPointer, Finish, Abort
    <3> QED BY <2>0, <3>1
  <2> QED BY <2>1, <2>2, <2>3
<1> QED BY <1>1, FilesAlways, PTL DEF Spec, OnlyCompleteGraphsPublished

-----------------------------------------------------------------------------
(* The files implement the atomic store *)

\* What the atomic store's variables stand for here.
Shown == [p \in Publishers |-> PortState(pub[p])]
Recorded == [e \in Epochs |-> IF committedBy[e] # 0 THEN previous[e] ELSE None]
HiddenToken(s) == IF s.pc = "fence_read" THEN 0 ELSE s.token

LEMMA ShownPhase ==
  /\ \A pc \in {"pointed", "fence_read", "read"} : PortPhase(pc) = "read"
  /\ \A pc \in {"fence_written", "allocated"} : PortPhase(pc) = "allocated"
  /\ \A pc \in Winning \cup {"loaded"} : PortPhase(pc) = "loaded"
  /\ \A pc \in {"idle", "loading", "committed", "published"} : PortPhase(pc) = pc
BY DEF PortPhase, Winning

LEMMA ShownState ==
  ASSUME NEW s \in PublisherState
  PROVE  /\ PortState(s) = [pc |-> PortPhase(s.pc), expected |-> s.expected,
                            token |-> HiddenToken(s), epoch |-> s.epoch]
         /\ PortState(s) \in PublisherState
<1>1. PortState(s) = [pc |-> PortPhase(s.pc), expected |-> s.expected,
                      token |-> HiddenToken(s), epoch |-> s.epoch]
  <2>1. PICK x, y : x = PortPhase(s.pc) /\ y = HiddenToken(s)
    OBVIOUS
  <2>2. PortState(s) = [s EXCEPT !.pc = x, !.token = y]
    BY <2>1, Zenon DEF PortState, HiddenToken
  <2>3. PICK u : u = [s EXCEPT !.pc = x]
    OBVIOUS
  <2>4. u = [pc |-> x, expected |-> s.expected, token |-> s.token, epoch |-> s.epoch]
    BY <2>3 DEF PublisherState
  <2>5. [u EXCEPT !.token = y] = [pc |-> x, expected |-> s.expected, token |-> y, epoch |-> s.epoch]
    BY <2>4
  <2> QED BY <2>1, <2>2, <2>3, <2>5, Zenon
<1>2. s.pc \in Phases /\ s.expected \in EpochOrNone /\ s.token \in 0..MaxFence /\ s.epoch \in EpochOrNone
  BY DEF PublisherState
<1>3. PortPhase(s.pc) \in Phases
  BY <1>2, ShownPhase DEF Phases, Winning
<1>4. HiddenToken(s) \in 0..MaxFence
  BY <1>2 DEF HiddenToken
<1> QED BY <1>1, <1>2, <1>3, <1>4 DEF PublisherState

LEMMA IdleShown == PortState(Idle) = Idle
BY IdleType, ShownState, ShownPhase DEF HiddenToken, Idle

LEMMA ShownNow ==
  ASSUME NEW p \in Publishers
  PROVE  Shown[p] = PortState(pub[p])
BY DEF Shown

\* What a step that moves p to state t looks like from outside.
LEMMA ShownStep ==
  ASSUME TypeOK, NEW p \in Publishers, NEW t, pub' = [pub EXCEPT ![p] = t]
  PROVE  Shown[p] = PortState(pub[p]) /\ Shown' = [Shown EXCEPT ![p] = PortState(t)]
BY DEF Shown, TypeOK

LEMMA ShownStutter ==
  ASSUME TypeOK, NEW p \in Publishers, NEW t \in PublisherState, pub' = [pub EXCEPT ![p] = t],
         PortPhase(t.pc) = PortPhase(pub[p].pc), HiddenToken(t) = HiddenToken(pub[p]),
         t.expected = pub[p].expected, t.epoch = pub[p].epoch
  PROVE  Shown' = Shown
<1>1. PortState(t) = PortState(pub[p])
  BY ShownState, PublisherTypes
<1>2. Shown' = [Shown EXCEPT ![p] = Shown[p]]
  BY <1>1, ShownStep
<1> QED BY <1>2 DEF Shown

LEMMA ShownTransition ==
  ASSUME TypeOK, NEW p \in Publishers, NEW t \in PublisherState, pub' = [pub EXCEPT ![p] = t],
         HiddenToken(t) = HiddenToken(pub[p]), t.expected = pub[p].expected, t.epoch = pub[p].epoch
  PROVE  Shown' = [Shown EXCEPT ![p] = [Shown[p] EXCEPT !.pc = PortPhase(t.pc)]]
<1>1. PICK s : s = pub[p] /\ s \in PublisherState
  BY PublisherTypes
<1>2. PICK w : w = Shown[p]
  OBVIOUS
<1>3. /\ w \in PublisherState
      /\ w = [pc |-> PortPhase(s.pc), expected |-> s.expected, token |-> HiddenToken(s), epoch |-> s.epoch]
  BY <1>1, <1>2, ShownState, ShownStep
<1>4. [w EXCEPT !.pc = PortPhase(t.pc)]
        = [pc |-> PortPhase(t.pc), expected |-> s.expected, token |-> HiddenToken(s), epoch |-> s.epoch]
  BY <1>3
<1>5. PortState(t)
        = [pc |-> PortPhase(t.pc), expected |-> s.expected, token |-> HiddenToken(s), epoch |-> s.epoch]
  BY <1>1, ShownState
<1>6. PICK z : z = PortState(t) /\ z = [w EXCEPT !.pc = PortPhase(t.pc)]
  BY <1>4, <1>5
<1>7. Shown' = [Shown EXCEPT ![p] = PortState(t)]
  BY ShownStep
<1> QED BY <1>2, <1>6, <1>7, Zenon

LEMMA PortStart == Init => Port!PortInit
<1> SUFFICES ASSUME Init PROVE Port!PortInit
  OBVIOUS
<1>1. Shown = [p \in Publishers |-> Idle] /\ Recorded = [e \in Epochs |-> None]
  BY IdleShown DEF Init, Shown, Recorded
<1> QED BY <1>1 DEF Init, Port!PortInit, Port!NoPointer, NoPointer, Port!Idle, Idle, Shown, Recorded

LEMMA ReadAsPort ==
  ASSUME FilesInd, NEW p \in Publishers, StartRead(p)
  PROVE  Port!ReadCurrent(p)
<1>0. PICK s, t : s = pub[p] /\ t = [s EXCEPT !.pc = IF pointer.epoch = None THEN "read" ELSE "pointed",
                                              !.expected = pointer.epoch]
  OBVIOUS
<1>1. /\ TypeOK /\ s \in PublisherState /\ s.pc = "idle" /\ pub' = [pub EXCEPT ![p] = t]
      /\ UNCHANGED <<fence, pointer, pointerDisk, previous, used, loaded, committedBy>>
  BY <1>0, PublisherTypes DEF FilesInd, StartRead, files
<1>2. /\ t \in PublisherState /\ t.token = s.token /\ t.expected = pointer.epoch /\ t.epoch = s.epoch
      /\ t.pc \in {"read", "pointed"}
  BY <1>0, <1>1, NaturalTokens DEF PublisherState, Phases
<1>3. PICK w : w = Shown[p]
  OBVIOUS
<1>4. w = [pc |-> "idle", expected |-> s.expected, token |-> s.token, epoch |-> s.epoch]
  <2>1. Shown[p] = PortState(s)
    BY <1>0, ShownNow, Zenon
  <2> QED BY <1>1, <1>3, <2>1, ShownState, ShownPhase DEF HiddenToken
<1>5. PortState(t) = [pc |-> "read", expected |-> pointer.epoch, token |-> s.token, epoch |-> s.epoch]
  BY <1>2, ShownState, ShownPhase DEF HiddenToken
<1>6. PICK u : u = [w EXCEPT !.pc = "read"]
  OBVIOUS
<1>7. u = [pc |-> "read", expected |-> s.expected, token |-> s.token, epoch |-> s.epoch]
  BY <1>4, <1>6
<1>8. PICK v : v = [u EXCEPT !.expected = pointer.epoch]
  OBVIOUS
<1>9. v = PortState(t)
  BY <1>5, <1>7, <1>8
<1>10. Shown' = [Shown EXCEPT ![p] = v]
  BY <1>0, <1>1, <1>9, ShownStep
<1>11. Shown' = [Shown EXCEPT ![p] = [Shown[p] EXCEPT !.pc = "read", !.expected = pointer.epoch]]
  BY <1>3, <1>6, <1>8, <1>10, Zenon
<1>12. Recorded' = Recorded
  BY <1>1 DEF Recorded
<1>13. Shown[p].pc = "idle"
  BY <1>3, <1>4
<1> QED BY <1>1, <1>11, <1>12, <1>13, Zenon DEF Port!ReadCurrent, Shown, Recorded

LEMMA AllocateAsPort ==
  ASSUME FilesInd, NEW p \in Publishers, WriteFence(p)
  PROVE  Port!AllocateToken(p)
<1>0. PICK s, t : s = pub[p] /\ t = [s EXCEPT !.pc = "fence_written"]
  OBVIOUS
<1>1. /\ TypeOK /\ s \in PublisherState /\ s.pc = "fence_read" /\ pub' = [pub EXCEPT ![p] = t]
      /\ UNCHANGED <<pointer, pointerDisk, previous, used, loaded, committedBy>>
      /\ fence' = s.token /\ TokenInOrder(s)
  BY <1>0, PublisherTypes DEF FilesInd, WriteFence, Transition, files
<1>2. fence' = fence + 1 /\ s.token = fence + 1 /\ fence < MaxFence
  <2>1. s.token = fence + 1 /\ s.token \in 0..MaxFence
    BY <1>1 DEF TokenInOrder, PublisherState
  <2> QED BY <1>1, <2>1, NaturalTokens
<1>3. /\ t \in PublisherState /\ t.token = s.token /\ t.expected = s.expected /\ t.epoch = s.epoch
      /\ t.pc = "fence_written"
  BY <1>0, <1>1 DEF PublisherState, Phases
<1>4. PICK w : w = Shown[p]
  OBVIOUS
<1>5. w = [pc |-> "read", expected |-> s.expected, token |-> 0, epoch |-> s.epoch]
  <2>1. Shown[p] = PortState(s)
    BY <1>0, ShownNow, Zenon
  <2> QED BY <1>1, <1>4, <2>1, ShownState, ShownPhase DEF HiddenToken
<1>6. PortState(t) = [pc |-> "allocated", expected |-> s.expected, token |-> fence + 1, epoch |-> s.epoch]
  BY <1>2, <1>3, ShownState, ShownPhase DEF HiddenToken
<1>7. PICK u : u = [w EXCEPT !.pc = "allocated"]
  OBVIOUS
<1>8. u = [pc |-> "allocated", expected |-> s.expected, token |-> 0, epoch |-> s.epoch]
  BY <1>5, <1>7
<1>9. PICK v : v = [u EXCEPT !.token = fence + 1]
  OBVIOUS
<1>10. v = PortState(t)
  BY <1>6, <1>8, <1>9
<1>11. Shown' = [Shown EXCEPT ![p] = v]
  BY <1>0, <1>1, <1>10, ShownStep
<1>12. Shown' = [Shown EXCEPT ![p] = [Shown[p] EXCEPT !.pc = "allocated", !.token = fence + 1]]
  BY <1>4, <1>7, <1>9, <1>11, Zenon
<1>13. Recorded' = Recorded
  BY <1>1 DEF Recorded
<1>14. Shown[p].pc = "read"
  BY <1>4, <1>5
<1> QED BY <1>1, <1>2, <1>12, <1>13, <1>14, Zenon DEF Port!AllocateToken, Shown, Recorded

LEMMA LoadAsPort ==
  ASSUME FilesInd, NEW p \in Publishers, BeginLoad(p)
  PROVE  Port!BeginLoad(p)
<1>0. PICK s : s = pub[p]
  OBVIOUS
<1>1. PICK e \in Epochs \ used :
        used' = used \union {e} /\ pub' = [pub EXCEPT ![p] = [s EXCEPT !.pc = "loading", !.epoch = e]]
  BY <1>0 DEF BeginLoad
<1>2. PICK t : t = [s EXCEPT !.pc = "loading", !.epoch = e]
  OBVIOUS
<1>3. /\ TypeOK /\ s \in PublisherState /\ s.pc = "allocated"
      /\ UNCHANGED <<fence, pointer, pointerDisk, previous, loaded, committedBy>>
  BY <1>0, PublisherTypes DEF FilesInd, BeginLoad, files
<1>4. /\ t \in PublisherState /\ t.token = s.token /\ t.expected = s.expected /\ t.epoch = e
      /\ t.pc = "loading"
  BY <1>2, <1>3 DEF PublisherState, Phases, EpochOrNone
<1>5. PICK w : w = Shown[p]
  OBVIOUS
<1>6. w = [pc |-> "allocated", expected |-> s.expected, token |-> s.token, epoch |-> s.epoch]
  <2>1. Shown[p] = PortState(s)
    BY <1>0, ShownNow, Zenon
  <2> QED BY <1>3, <1>5, <2>1, ShownState, ShownPhase DEF HiddenToken
<1>7. PortState(t) = [pc |-> "loading", expected |-> s.expected, token |-> s.token, epoch |-> e]
  BY <1>4, ShownState, ShownPhase DEF HiddenToken
<1>8. PICK u : u = [w EXCEPT !.pc = "loading"]
  OBVIOUS
<1>9. u = [pc |-> "loading", expected |-> s.expected, token |-> s.token, epoch |-> s.epoch]
  BY <1>6, <1>8
<1>10. PICK v : v = [u EXCEPT !.epoch = e]
  OBVIOUS
<1>11. v = PortState(t)
  BY <1>7, <1>9, <1>10
<1>12. pub' = [pub EXCEPT ![p] = t]
  BY <1>1, <1>2, Zenon
<1>13. Shown' = [Shown EXCEPT ![p] = v]
  BY <1>3, <1>11, <1>12, ShownStep
<1>14. Shown' = [Shown EXCEPT ![p] = [Shown[p] EXCEPT !.pc = "loading", !.epoch = e]]
  BY <1>5, <1>8, <1>10, <1>13, Zenon
<1>15. Recorded' = Recorded
  BY <1>3 DEF Recorded
<1>16. Shown[p].pc = "allocated"
  BY <1>5, <1>6
<1> QED BY <1>1, <1>3, <1>14, <1>15, <1>16, Zenon DEF Port!BeginLoad, Shown, Recorded

LEMMA FinishAsPort ==
  ASSUME FilesInd, NEW p \in Publishers, FinishLoad(p)
  PROVE  Port!FinishLoad(p)
<1>0. PICK s, t : s = pub[p] /\ t = [s EXCEPT !.pc = "loaded"]
  OBVIOUS
<1>1. /\ TypeOK /\ s \in PublisherState /\ s.pc = "loading" /\ pub' = [pub EXCEPT ![p] = t]
      /\ loaded' = loaded \union {s.epoch}
      /\ UNCHANGED <<fence, pointer, pointerDisk, previous, used, committedBy>>
  BY <1>0, PublisherTypes DEF FilesInd, FinishLoad, Transition, files
<1>2. /\ t \in PublisherState /\ t.token = s.token /\ t.expected = s.expected /\ t.epoch = s.epoch
      /\ t.pc = "loaded"
  BY <1>0, <1>1 DEF PublisherState, Phases
<1>3. Shown[p] = PortState(s) /\ Shown[p].pc = "loading" /\ Shown[p].epoch = s.epoch
  BY <1>0, <1>1, ShownNow, ShownState, ShownPhase
<1>4. Shown' = [Shown EXCEPT ![p] = [Shown[p] EXCEPT !.pc = "loaded"]]
  <2>1. PortPhase(t.pc) = "loaded" /\ HiddenToken(t) = HiddenToken(s)
    BY <1>1, <1>2, ShownPhase DEF HiddenToken
  <2>2. Shown' = [Shown EXCEPT ![p] = [Shown[p] EXCEPT !.pc = PortPhase(t.pc)]]
    BY <1>0, <1>1, <1>2, <2>1, ShownTransition
  <2> QED BY <2>1, <2>2, Zenon
<1>5. Recorded' = Recorded
  BY <1>1 DEF Recorded
<1> QED BY <1>1, <1>3, <1>4, <1>5, Zenon DEF Port!FinishLoad, Shown, Recorded

LEMMA LeaveAsPort ==
  ASSUME FilesInd, NEW p \in Publishers,
         FenceExhausted(p) \/ CasRefused(p) \/ Finish(p) \/ Abort(p)
  PROVE  Port!CasRefused(p) \/ Port!Finish(p) \/ Port!Abort(p)
<1>0. PICK s : s = pub[p]
  OBVIOUS
<1>1. /\ TypeOK /\ s \in PublisherState /\ TokenInOrder(s) /\ pub' = [pub EXCEPT ![p] = Idle]
      /\ UNCHANGED <<fence, pointer, pointerDisk, previous, used, loaded, committedBy>>
  BY <1>0, PublisherTypes DEF FilesInd, FenceExhausted, CasRefused, Finish, Abort, Leave, files
<1>2. Shown' = [Shown EXCEPT ![p] = Port!Idle]
  <2>1. Shown' = [Shown EXCEPT ![p] = PortState(Idle)]
    BY <1>1, ShownStep
  <2> QED BY <2>1, IdleShown DEF Idle, Port!Idle
<1>3. Recorded' = Recorded
  BY <1>1 DEF Recorded
<1>4. /\ Shown[p].pc = PortPhase(s.pc) /\ Shown[p].token = HiddenToken(s)
      /\ Shown[p].expected = s.expected
  BY <1>0, <1>1, ShownNow, ShownState
<1>5. CASE CasRefused(p)
  <2>1. PICK f \in FenceSeen : s.pc = "loaded" /\ (Stale(p, f) \/ Conflict(p, f))
    BY <1>0, <1>5 DEF CasRefused
  <2>2. Shown[p].pc = "loaded" /\ Shown[p].token = pub[p].token /\ Shown[p].expected = pub[p].expected
    BY <1>0, <1>4, <2>1, ShownPhase DEF HiddenToken
  <2>3. f \in Port!FenceSeen /\ (Port!Stale(p, f) \/ Port!Conflict(p, f))
    BY <2>1, <2>2 DEF Stale, Conflict, FenceSeen, Port!Stale, Port!Conflict, Port!FenceSeen, Shown
  <2> QED BY <1>1, <1>2, <1>3, <2>2, <2>3, Zenon DEF Port!CasRefused, Shown, Recorded
<1>6. CASE Finish(p)
  <2>1. Shown[p].pc = "published"
    BY <1>0, <1>4, <1>6, ShownPhase DEF Finish
  <2> QED BY <1>1, <1>2, <1>3, <2>1, Zenon DEF Port!Finish, Shown, Recorded
<1>7. CASE FenceExhausted(p) \/ Abort(p)
  <2>1. s.pc \in Phases \ {"idle", "published"}
    BY <1>0, <1>1, <1>7 DEF FenceExhausted, Abort, PublisherState
  <2>2. Shown[p].pc \notin {"idle", "published"}
    BY <1>4, <2>1, ShownPhase DEF Phases, Winning
  <2> QED BY <1>1, <1>2, <1>3, <2>2, Zenon DEF Port!Abort, Shown, Recorded
<1> QED BY <1>5, <1>6, <1>7

LEMMA CommitAsPort ==
  ASSUME FilesInd, NEW p \in Publishers, RenamePointer(p)
  PROVE  Port!CasPublish(p)
<1>0. PICK s, t : s = pub[p] /\ t = [s EXCEPT !.pc = "committed"]
  OBVIOUS
<1>1. /\ TypeOK /\ s \in PublisherState /\ s.pc = "recorded" /\ pub' = [pub EXCEPT ![p] = t]
      /\ TokenInOrder(s) /\ Standing(s)
      /\ pointer' = [epoch |-> s.epoch, token |-> s.token]
      /\ committedBy' = [committedBy EXCEPT ![s.epoch] = s.token]
      /\ UNCHANGED <<fence, pointerDisk, previous, used, loaded>>
  BY <1>0, PublisherTypes DEF FilesInd, RenamePointer, Transition
<1>2. /\ t \in PublisherState /\ t.token = s.token /\ t.expected = s.expected /\ t.epoch = s.epoch
      /\ t.pc = "committed"
  BY <1>0, <1>1 DEF PublisherState, Phases
<1>3. /\ s.epoch \in Epochs /\ committedBy[s.epoch] = 0 /\ previous[s.epoch] = s.expected /\ Unbeaten(s)
      /\ s.token # 0 /\ s.token \in Nat
  BY <1>1, NaturalTokens, PublisherTypes, <1>0
     DEF Standing, Loading, Winning, TypeOK, TokenInOrder, Starting
<1>4. /\ Shown[p].pc = "loaded" /\ Shown[p].epoch = s.epoch /\ Shown[p].token = s.token
      /\ Shown[p].expected = s.expected
  <2>1. Shown[p] = PortState(s)
    BY <1>0, ShownNow, Zenon
  <2>2. PortPhase(s.pc) = "loaded" /\ HiddenToken(s) = s.token
    BY <1>1, ShownPhase DEF HiddenToken, Winning
  <2> QED BY <1>1, <2>1, <2>2, ShownState
<1>5. Shown' = [Shown EXCEPT ![p] = [Shown[p] EXCEPT !.pc = "committed"]]
  <2>1. PortPhase(t.pc) = "committed" /\ HiddenToken(t) = HiddenToken(s)
    BY <1>1, <1>2, ShownPhase DEF HiddenToken
  <2>2. Shown' = [Shown EXCEPT ![p] = [Shown[p] EXCEPT !.pc = PortPhase(t.pc)]]
    BY <1>0, <1>1, <1>2, <2>1, ShownTransition
  <2> QED BY <2>1, <2>2, Zenon
<1>6. Recorded' = [Recorded EXCEPT ![s.epoch] = s.expected]
  <2>1. \A e \in Epochs : committedBy'[e] = IF e = s.epoch THEN s.token ELSE committedBy[e]
    BY <1>1, <1>3 DEF TypeOK
  <2> QED BY <1>1, <1>3, <2>1 DEF Recorded
<1>7. ~(s.token < 0 \/ s.token <= pointer.token) /\ s.expected = pointer.epoch
  BY <1>3, NaturalTokens, <1>1 DEF Unbeaten
<1>8. 0 \in Port!FenceSeen /\ Port!Wins(p, 0)
  BY <1>4, <1>7 DEF Port!Wins, Port!Stale, Port!FenceSeen, Shown
<1>9. /\ pointer' = [epoch |-> Shown[p].epoch, token |-> Shown[p].token]
      /\ Recorded' = [Recorded EXCEPT ![Shown[p].epoch] = Shown[p].expected]
      /\ committedBy' = [committedBy EXCEPT ![Shown[p].epoch] = Shown[p].token]
  BY <1>1, <1>4, <1>6
<1> QED BY <1>1, <1>4, <1>5, <1>8, <1>9, Zenon DEF Port!CasPublish, Shown, Recorded

\* A step that only files and locks show.
LEMMA HiddenStep ==
  ASSUME FilesInd, NEW p \in Publishers, NEW t,
         pub' = [pub EXCEPT ![p] = t], t \in PublisherState,
         \/ t = [pub[p] EXCEPT !.pc = "read"] /\ pub[p].pc = "pointed"
         \/ t = [pub[p] EXCEPT !.pc = "allocated"] /\ pub[p].pc = "fence_written"
         \/ \E pc \in Winning : t = [pub[p] EXCEPT !.pc = pc] /\ pub[p].pc \in Winning \cup {"loaded"}
  PROVE  Shown' = Shown
<1>1. PICK s : s = pub[p] /\ s \in PublisherState /\ TypeOK
  BY PublisherTypes DEF FilesInd
<1>2. /\ t.expected = s.expected /\ t.epoch = s.epoch /\ t.token = s.token
      /\ PortPhase(t.pc) = PortPhase(s.pc)
      /\ s.pc # "fence_read" /\ t.pc # "fence_read"
  BY <1>1, ShownPhase DEF PublisherState, Winning
<1> QED BY <1>1, <1>2, ShownStutter DEF HiddenToken

LEMMA QuietAsPort ==
  ASSUME FilesInd, NEW p \in Publishers,
         ReadRecord(p) \/ LockAndReadFence(p) \/ LockAndCheck(p) \/ CreateRecord(p) \/ WriteRecord(p)
  PROVE  UNCHANGED <<pointer, pointerDisk, fence, Recorded, committedBy, used, loaded, Shown>>
<1>0. PICK s : s = pub[p]
  OBVIOUS
<1>1. /\ TypeOK /\ s \in PublisherState /\ TokenInOrder(s) /\ Standing(s)
      /\ UNCHANGED <<fence, pointer, pointerDisk, used, loaded, committedBy>>
  BY <1>0, PublisherTypes DEF FilesInd, ReadRecord, LockAndReadFence, LockAndCheck, CreateRecord,
                              WriteRecord, files
<1>2. Recorded' = Recorded
  <2>1. CASE UNCHANGED previous
    BY <1>1, <2>1 DEF Recorded
  <2>2. CASE WriteRecord(p)
    <3>1. committedBy[s.epoch] = 0 /\ previous' = [previous EXCEPT ![s.epoch] = s.expected]
      BY <1>0, <1>1, <2>2 DEF WriteRecord, Transition, Standing, Loading, Winning
    <3> QED BY <1>1, <3>1 DEF Recorded, TypeOK
  <2> QED BY <2>1, <2>2 DEF ReadRecord, LockAndReadFence, LockAndCheck, CreateRecord, files
<1>3. Shown' = Shown
  <2>1. CASE LockAndReadFence(p)
    <3>1. PICK t : t = [s EXCEPT !.pc = "fence_read", !.token = fence + 1]
      OBVIOUS
    <3>2. s.pc = "read" /\ pub' = [pub EXCEPT ![p] = t] /\ fence + 1 \in 0..MaxFence
      BY <1>0, <1>1, <2>1, <3>1, NaturalTokens DEF LockAndReadFence
    <3>3. /\ t \in PublisherState /\ t.pc = "fence_read" /\ t.expected = s.expected
          /\ t.epoch = s.epoch
      BY <1>1, <3>1, <3>2 DEF PublisherState, Phases
    <3>4. s.token = 0
      BY <1>1, <3>2 DEF TokenInOrder, Starting
    <3>5. HiddenToken(t) = 0 /\ HiddenToken(s) = 0 /\ PortPhase(t.pc) = PortPhase(s.pc)
      BY <3>2, <3>3, <3>4, ShownPhase DEF HiddenToken
    <3> QED BY <1>0, <1>1, <3>2, <3>3, <3>5, ShownStutter
  <2>2. CASE ReadRecord(p)
    <3>1. s.pc = "pointed" /\ pub' = [pub EXCEPT ![p] = [s EXCEPT !.pc = "read"]]
      BY <1>0, <2>2 DEF ReadRecord, Transition
    <3>2. [s EXCEPT !.pc = "read"] \in PublisherState
      BY <1>1 DEF PublisherState, Phases
    <3> QED BY <1>0, <3>1, <3>2, HiddenStep
  <2>3. CASE LockAndCheck(p) \/ CreateRecord(p) \/ WriteRecord(p)
    <3>1. PICK pc \in Winning : /\ pub' = [pub EXCEPT ![p] = [s EXCEPT !.pc = pc]]
                               /\ s.pc \in Winning \cup {"loaded"}
      BY <1>0, <2>3 DEF LockAndCheck, CreateRecord, WriteRecord, Transition, Winning
    <3>2. [s EXCEPT !.pc = pc] \in PublisherState
      BY <1>1 DEF PublisherState, Phases, Winning
    <3> QED BY <1>0, <3>1, <3>2, HiddenStep
  <2> QED BY <2>1, <2>2, <2>3
<1> QED BY <1>1, <1>2, <1>3

LEMMA SyncAsPort ==
  ASSUME FilesInd, NEW p \in Publishers, SyncFence(p) \/ SyncRecord(p)
  PROVE  Port!Settle \/ UNCHANGED Port!portVars
<1>0. PICK s : s = pub[p]
  OBVIOUS
<1>1. /\ TypeOK /\ s \in PublisherState /\ pointerDisk' = pointer
      /\ UNCHANGED <<fence, pointer, previous, used, loaded, committedBy>>
  BY <1>0, PublisherTypes DEF FilesInd, SyncFence, SyncRecord, SyncDirectory
<1>2. Recorded' = Recorded
  BY <1>1 DEF Recorded
<1>3. Shown' = Shown
  <2>1. CASE SyncFence(p)
    <3>1. s.pc = "fence_written" /\ pub' = [pub EXCEPT ![p] = [s EXCEPT !.pc = "allocated"]]
      BY <1>0, <2>1 DEF SyncFence, Transition
    <3>2. [s EXCEPT !.pc = "allocated"] \in PublisherState
      BY <1>1 DEF PublisherState, Phases
    <3> QED BY <1>0, <3>1, <3>2, HiddenStep
  <2>2. CASE SyncRecord(p)
    <3>1. s.pc \in Winning /\ pub' = [pub EXCEPT ![p] = [s EXCEPT !.pc = "recorded"]]
      BY <1>0, <2>2 DEF SyncRecord, Transition, Winning
    <3>2. [s EXCEPT !.pc = "recorded"] \in PublisherState /\ "recorded" \in Winning
      BY <1>1 DEF PublisherState, Phases, Winning
    <3> QED BY <1>0, <3>1, <3>2, HiddenStep
  <2> QED BY <2>1, <2>2
<1>4. CASE pointerDisk = pointer
  BY <1>1, <1>2, <1>3, <1>4 DEF Port!portVars, Shown, Recorded
<1>5. CASE pointerDisk # pointer
  BY <1>1, <1>2, <1>3, <1>5, Zenon DEF Port!Settle, Shown, Recorded
<1> QED BY <1>4, <1>5

LEMMA ReplyAsPort ==
  ASSUME FilesInd, NEW p \in Publishers, SyncPointer(p)
  PROVE  Port!Reply(p)
<1>0. PICK s, t : s = pub[p] /\ t = [s EXCEPT !.pc = "published"]
  OBVIOUS
<1>1. /\ TypeOK /\ s \in PublisherState /\ s.pc = "committed" /\ pub' = [pub EXCEPT ![p] = t]
      /\ pointerDisk' = pointer /\ UNCHANGED <<fence, pointer, previous, used, loaded, committedBy>>
  BY <1>0, PublisherTypes DEF FilesInd, SyncPointer, SyncDirectory, Transition
<1>2. /\ t \in PublisherState /\ t.token = s.token /\ t.expected = s.expected /\ t.epoch = s.epoch
      /\ t.pc = "published"
  BY <1>0, <1>1 DEF PublisherState, Phases
<1>3. Shown[p].pc = "committed"
  BY <1>0, <1>1, ShownNow, ShownState, ShownPhase
<1>4. Shown' = [Shown EXCEPT ![p] = [Shown[p] EXCEPT !.pc = "published"]]
  <2>1. PortPhase(t.pc) = "published" /\ HiddenToken(t) = HiddenToken(s)
    BY <1>1, <1>2, ShownPhase DEF HiddenToken
  <2>2. Shown' = [Shown EXCEPT ![p] = [Shown[p] EXCEPT !.pc = PortPhase(t.pc)]]
    BY <1>0, <1>1, <1>2, <2>1, ShownTransition
  <2> QED BY <2>1, <2>2, Zenon
<1>5. Recorded' = Recorded
  BY <1>1 DEF Recorded
<1> QED BY <1>1, <1>3, <1>4, <1>5, Zenon DEF Port!Reply, Shown, Recorded

LEMMA PowerAsPort ==
  ASSUME FilesInd, PowerLoss
  PROVE  Port!PowerLoss
<1>1. PICK c \in {pointer, pointerDisk} :
        /\ pointer' = c /\ pointerDisk' = c
        /\ committedBy' = [e \in Epochs |-> IF committedBy[e] <= c.token THEN committedBy[e] ELSE 0]
  BY DEF PowerLoss
<1>2. fence' \in c.token..fence
  BY NaturalTokens DEF PowerLoss, FilesInd, FenceAhead
<1>3. Recorded' = [e \in Epochs |-> IF committedBy[e] <= c.token THEN Recorded[e] ELSE None]
  BY <1>1 DEF PowerLoss, Recorded
<1>4. Shown' = [p \in Publishers |-> Port!Idle]
  BY IdleShown DEF PowerLoss, Shown, Idle, Port!Idle
<1>5. PowerFailures /\ loaded' \in SUBSET loaded /\ used' = used
  BY DEF PowerLoss
<1> QED BY <1>1, <1>2, <1>3, <1>4, <1>5, Zenon DEF Port!PowerLoss, Shown, Recorded

LEMMA StepAsPort == FilesInd /\ [Next]_vars => [Port!PortNext]_(Port!portVars)
<1> SUFFICES ASSUME FilesInd, [Next]_vars PROVE [Port!PortNext]_(Port!portVars)
  OBVIOUS
<1>1. ASSUME NEW p \in Publishers,
             \/ StartRead(p) \/ WriteFence(p) \/ BeginLoad(p) \/ FinishLoad(p)
             \/ RenamePointer(p) \/ SyncPointer(p)
      PROVE  Port!PortNext
  BY <1>1, ReadAsPort, AllocateAsPort, LoadAsPort, FinishAsPort, CommitAsPort, ReplyAsPort DEF Port!PortNext
<1>2. ASSUME NEW p \in Publishers, FenceExhausted(p) \/ CasRefused(p) \/ Finish(p) \/ Abort(p)
      PROVE  Port!PortNext
  BY <1>2, LeaveAsPort DEF Port!PortNext
<1>3. ASSUME NEW p \in Publishers, SyncFence(p) \/ SyncRecord(p)
      PROVE  [Port!PortNext]_(Port!portVars)
  BY <1>3, SyncAsPort DEF Port!PortNext
<1>4. ASSUME NEW p \in Publishers,
             \/ ReadRecord(p) \/ LockAndReadFence(p) \/ LockAndCheck(p)
             \/ CreateRecord(p) \/ WriteRecord(p)
      PROVE  UNCHANGED Port!portVars
  BY <1>4, QuietAsPort DEF Port!portVars, Shown, Recorded
<1>5. CASE PowerLoss
  BY <1>5, PowerAsPort DEF Port!PortNext
<1>6. CASE UNCHANGED vars
  BY <1>6 DEF vars, files, Port!portVars
<1> QED BY <1>1, <1>2, <1>3, <1>4, <1>5, <1>6 DEF Next

\* With any number of publishers, epochs and failures, the files of one
\* repository look like the atomic store: no interleaving of renames, syncs and
\* crashes shows what a single compare-and-swap could not have done.
THEOREM FilesImplementPort == Spec => ImplementsPort
BY PortStart, StepAsPort, FilesAlways, PTL DEF Spec, ImplementsPort, Port!PortSpec
=============================================================================
