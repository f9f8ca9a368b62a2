------------------------- MODULE LadybugPublication --------------------------
(***************************************************************************)
(* publish_complete_graph over LadybugPublicationStore: the publication    *)
(* records of one repository kept as files of one directory.               *)
(*                                                                         *)
(*   FENCE         the last allocated fencing token, replaced by rename    *)
(*   <epoch>.json  one immutable record per epoch, created and written     *)
(*   CURRENT       the pointer [epoch, token], replaced by rename          *)
(*   .lock         a file lock held across a token allocation and a CAS    *)
(*                                                                         *)
(* A rename or a creation is visible at once and durable when its          *)
(* directory is synced; a process dies, a system call fails or the machine *)
(* loses power between any two of the steps below.  `current` (StartRead,  *)
(* ReadRecord) takes no lock.                                              *)
(***************************************************************************)
EXTENDS Naturals

CONSTANTS
  Publishers,     \* engine processes publishing this repository
  Epochs,         \* the random 256-bit epoch identities
  None,           \* no epoch, and the lock when nobody holds it
  MaxFence,       \* the largest fencing token (u64::MAX)
  PowerFailures   \* TRUE when the machine may lose power

ASSUME EpochAssumption == None \notin Epochs
ASSUME PublisherAssumption == None \notin Publishers
ASSUME FenceAssumption == MaxFence \in Nat
ASSUME PowerAssumption == PowerFailures \in BOOLEAN

VARIABLES
  fence, fenceDisk,      \* FENCE as processes see it, and on the disk
  pointer, pointerDisk,  \* CURRENT as processes see it, and on the disk
  record, recordDisk,    \* the epoch records: "absent", "partial", "whole"
  previous,      \* previous_epoch written in an epoch record
  lock,          \* holder of the file lock, or None
  used,          \* epochs allocated so far
  loaded,        \* epochs whose physical graph is completely loaded
  committedBy,   \* history: the token that committed each epoch, 0 if none did
  pub            \* local state of every publisher

files == <<fence, fenceDisk, pointer, pointerDisk, record, recordDisk, previous>>
vars == <<files, lock, used, loaded, committedBy, pub>>

Phases == {"idle", "pointed", "read",
           "fence_read", "fence_written", "allocated",
           "loading", "loaded",
           "checked", "creating", "written", "recorded", "committed",
           "published"}

EpochOrNone == Epochs \union {None}
Pointer     == [epoch: EpochOrNone, token: 0..MaxFence]
NoPointer   == [epoch |-> None, token |-> 0]
FileState   == {"absent", "partial", "whole"}

PublisherState ==
  [pc: Phases, expected: EpochOrNone, token: 0..MaxFence, epoch: EpochOrNone]
Idle == [pc |-> "idle", expected |-> None, token |-> 0, epoch |-> None]

TypeOK ==
  /\ fence \in 0..MaxFence /\ fenceDisk \in 0..MaxFence
  /\ pointer \in Pointer /\ pointerDisk \in Pointer
  /\ record \in [Epochs -> FileState] /\ recordDisk \in [Epochs -> FileState]
  /\ previous \in [Epochs -> EpochOrNone]
  /\ lock \in Publishers \union {None}
  /\ used \subseteq Epochs
  /\ loaded \subseteq Epochs
  /\ committedBy \in [Epochs -> 0..MaxFence]
  /\ pub \in [Publishers -> PublisherState]

Init ==
  /\ fence = 0 /\ fenceDisk = 0
  /\ pointer = NoPointer /\ pointerDisk = NoPointer
  /\ record = [e \in Epochs |-> "absent"]
  /\ recordDisk = [e \in Epochs |-> "absent"]
  /\ previous = [e \in Epochs |-> None]
  /\ lock = None
  /\ used = {}
  /\ loaded = {}
  /\ committedBy = [e \in Epochs |-> 0]
  /\ pub = [p \in Publishers |-> Idle]

Transition(p, from, to) ==
  /\ pub[p].pc = from
  /\ pub' = [pub EXCEPT ![p].pc = to]

\* Mutant: the lock file is not closed.
LeaveLocked(p) ==
  /\ pub' = [pub EXCEPT ![p] = Idle]
  /\ UNCHANGED lock

\* Publisher p returns an error or finishes; closing .lock releases it.
Leave(p) ==
  /\ pub' = [pub EXCEPT ![p] = Idle]
  /\ lock' = IF lock = p THEN None ELSE lock

-----------------------------------------------------------------------------
(* The current record: the pointer, then the record it names, no lock.     *)

StartRead(p) ==
  /\ pub[p].pc = "idle"
  /\ pub' = [pub EXCEPT ![p] =
               [@ EXCEPT !.pc = IF pointer.epoch = None THEN "read"
                                                        ELSE "pointed",
                         !.expected = pointer.epoch]]
  /\ UNCHANGED <<files, lock, used, loaded, committedBy>>

\* A missing or unreadable record is an error (Abort).
ReadRecord(p) ==
  /\ Transition(p, "pointed", "read")
  /\ record[pub[p].expected] = "whole"
  /\ UNCHANGED <<files, lock, used, loaded, committedBy>>

-----------------------------------------------------------------------------
(* allocate_fencing_token                                                  *)

\* Mutant: FENCE is read outside the lock.
LockAndReadFenceUnlocked(p) ==
  /\ pub[p].pc = "read"
  /\ fence < MaxFence
  /\ lock' = p
  /\ pub' = [pub EXCEPT ![p] = [@ EXCEPT !.pc = "fence_read",
                                        !.token = fence + 1]]
  /\ UNCHANGED <<files, used, loaded, committedBy>>

LockAndReadFence(p) ==
  /\ lock = None
  /\ pub[p].pc = "read"
  /\ fence < MaxFence
  /\ lock' = p
  /\ pub' = [pub EXCEPT ![p] = [@ EXCEPT !.pc = "fence_read",
                                        !.token = fence + 1]]
  /\ UNCHANGED <<files, used, loaded, committedBy>>

\* checked_add fails: "publication fence exhausted".
FenceExhausted(p) ==
  /\ lock = None
  /\ pub[p].pc = "read"
  /\ fence = MaxFence
  /\ Leave(p)
  /\ UNCHANGED <<files, used, loaded, committedBy>>

WriteFence(p) ==
  /\ Transition(p, "fence_read", "fence_written")
  /\ fence' = pub[p].token
  /\ UNCHANGED <<fenceDisk, pointer, pointerDisk, record, recordDisk, previous,
                 lock, used, loaded, committedBy>>

\* Renames done earlier in the directory reach the disk with this one.
SyncDirectory ==
  /\ fenceDisk' = fence
  /\ pointerDisk' = pointer
  /\ UNCHANGED <<fence, pointer>>

SyncFence(p) ==
  /\ Transition(p, "fence_written", "allocated")
  /\ SyncDirectory
  /\ lock' = None
  /\ UNCHANGED <<record, recordDisk, previous, used, loaded, committedBy>>

-----------------------------------------------------------------------------
(* The coordinator: a fresh epoch, a fresh physical graph, then the CAS.   *)

BeginLoad(p) ==
  /\ pub[p].pc = "allocated"
  /\ \E e \in Epochs \ used :
       /\ used' = used \union {e}
       /\ pub' = [pub EXCEPT ![p] = [@ EXCEPT !.pc = "loading", !.epoch = e]]
  /\ UNCHANGED <<files, lock, loaded, committedBy>>

\* Mutant: the load is taken for complete when it is not.
FinishLoadEarly(p) ==
  /\ Transition(p, "loading", "loaded")
  /\ UNCHANGED <<files, lock, used, loaded, committedBy>>

FinishLoad(p) ==
  /\ Transition(p, "loading", "loaded")
  /\ loaded' = loaded \union {pub[p].epoch}
  /\ UNCHANGED <<files, lock, used, committedBy>>

-----------------------------------------------------------------------------
(* compare_and_swap                                                        *)


\* What the CAS takes the allocated fence to be.  Here, unlike in an allocation,
\* a FENCE that cannot be read or parsed is no error but counts as 0.
FenceSeen == {fence, 0}

Stale(p, f)    == pub[p].token < f \/ pub[p].token <= pointer.token
Conflict(p, f) == ~Stale(p, f) /\ pub[p].expected # pointer.epoch
Wins(p, f)     == ~Stale(p, f) /\ pub[p].expected = pointer.epoch

\* Stale token or lost race: the lock is taken, nothing is written, and the
\* coordinator bails out.
CasRefused(p) ==
  /\ lock = None
  /\ pub[p].pc = "loaded"
  /\ \E f \in FenceSeen : Stale(p, f) \/ Conflict(p, f)
  /\ Leave(p)
  /\ UNCHANGED <<files, used, loaded, committedBy>>

\* Mutant: the checks are made without waiting for the lock.
LockAndCheckUnlocked(p) ==
  /\ \E f \in FenceSeen : Wins(p, f)
  /\ Transition(p, "loaded", "checked")
  /\ lock' = p
  /\ UNCHANGED <<files, used, loaded, committedBy>>

LockAndCheck(p) ==
  /\ lock = None
  /\ \E f \in FenceSeen : Wins(p, f)
  /\ Transition(p, "loaded", "checked")
  /\ lock' = p
  /\ UNCHANGED <<files, used, loaded, committedBy>>

\* create_new: with a fresh epoch the file cannot exist.
CreateRecord(p) ==
  /\ Transition(p, "checked", "creating")
  /\ record[pub[p].epoch] = "absent"
  /\ record' = [record EXCEPT ![pub[p].epoch] = "partial"]
  /\ UNCHANGED <<fence, fenceDisk, pointer, pointerDisk, recordDisk, previous,
                 lock, used, loaded, committedBy>>

WriteRecord(p) ==
  /\ Transition(p, "creating", "written")
  /\ record' = [record EXCEPT ![pub[p].epoch] = "whole"]
  /\ previous' = [previous EXCEPT ![pub[p].epoch] = pub[p].expected]
  /\ UNCHANGED <<fence, fenceDisk, pointer, pointerDisk, recordDisk,
                 lock, used, loaded, committedBy>>

\* Mutant: the record is not synced before CURRENT names it.
SyncRecordNot(p) ==
  /\ Transition(p, "written", "recorded")
  /\ UNCHANGED <<files, lock, used, loaded, committedBy>>

\* The record's contents and its directory entry, before CURRENT names it.
SyncRecord(p) ==
  /\ Transition(p, "written", "recorded")
  /\ SyncDirectory
  /\ recordDisk' = [recordDisk EXCEPT ![pub[p].epoch] = "whole"]
  /\ UNCHANGED <<record, previous, lock, used, loaded, committedBy>>

RenamePointer(p) ==
  /\ Transition(p, "recorded", "committed")
  /\ pointer' = [epoch |-> pub[p].epoch, token |-> pub[p].token]
  /\ committedBy' = [committedBy EXCEPT ![pub[p].epoch] = pub[p].token]
  /\ UNCHANGED <<fence, fenceDisk, pointerDisk, record, recordDisk, previous,
                 lock, used, loaded>>

SyncPointer(p) ==
  /\ Transition(p, "committed", "published")
  /\ SyncDirectory
  /\ lock' = None
  /\ UNCHANGED <<record, recordDisk, previous, used, loaded, committedBy>>

Finish(p) ==
  /\ pub[p].pc = "published"
  /\ Leave(p)
  /\ UNCHANGED <<files, used, loaded, committedBy>>

-----------------------------------------------------------------------------
(* Failures                                                                *)

\* A failed load or system call (all but the reading of FENCE by a CAS), or the
\* death of the process.
Abort(p) ==
  /\ pub[p].pc \notin {"idle", "published"}
  /\ Leave(p)
  /\ UNCHANGED <<files, used, loaded, committedBy>>

\* Every process dies and the directory holds, file by file, what was synced
\* or what was not yet.  A record whose contents were not synced may come
\* back in any state, and nothing synced the physical graphs.
PowerLoss ==
  /\ PowerFailures
  /\ \E c \in {pointer, pointerDisk} :
       /\ pointer' = c
       /\ pointerDisk' = c
       /\ committedBy' =
            [e \in Epochs |-> IF committedBy[e] <= c.token THEN committedBy[e]
                                                           ELSE 0]
  /\ \E f \in {fence, fenceDisk} : fence' = f /\ fenceDisk' = f
  /\ record' \in [Epochs -> FileState]
  /\ \A e \in Epochs :
       record[e] = recordDisk[e] => record'[e] = record[e]
  /\ recordDisk' = record'
  /\ loaded' \in SUBSET loaded
  /\ lock' = None
  /\ pub' = [p \in Publishers |-> Idle]
  /\ UNCHANGED <<previous, used>>

Next ==
  \/ \E p \in Publishers :
       \/ StartRead(p) \/ ReadRecord(p)
       \/ LockAndReadFence(p) \/ FenceExhausted(p) \/ WriteFence(p)
       \/ SyncFence(p)
       \/ BeginLoad(p) \/ FinishLoad(p)
       \/ CasRefused(p) \/ LockAndCheck(p)
       \/ CreateRecord(p) \/ WriteRecord(p) \/ SyncRecord(p)
       \/ RenamePointer(p) \/ SyncPointer(p) \/ Finish(p)
       \/ Abort(p)
  \/ PowerLoss

Spec == Init /\ [][Next]_vars

-----------------------------------------------------------------------------
(* Safety                                                                  *)

Committed == {e \in Epochs : committedBy[e] # 0}
TokenHolders == {p \in Publishers : pub[p].token # 0}

\* Readers always succeed.  CURRENT never names a record that is missing or cut
\* short, not even after a power loss ("CURRENT references missing epoch" is
\* never returned), and a reader between its two lock-free steps finds the
\* record it is after, whatever publishers did meanwhile.
ReadersFindRecords ==
  /\ pointer.epoch # None => record[pointer.epoch] = "whole"
  /\ pointerDisk.epoch # None => recordDisk[pointerDisk.epoch] = "whole"
  /\ \A p \in Publishers :
       pub[p].pc = "pointed" => record[pub[p].expected] = "whole"

\* Two publishers never work under the same fencing token.
TokensUnique ==
  \A p, q \in TokenHolders :
    pub[p].token = pub[q].token => p = q

\* compare_and_swap returned Published: the publication survives any crash.
PublishedIsDurable ==
  \A p \in Publishers : pub[p].pc = "published" =>
    /\ committedBy[pub[p].epoch] = pub[p].token
    /\ pub[p].token <= pointerDisk.token
    /\ recordDisk[pub[p].epoch] = "whole"

FilesInv == TypeOK /\ TokensUnique /\ PublishedIsDurable

\* CURRENT only ever moves forward to a graph that was loaded completely and
\* that no power loss has touched since.
OnlyCompleteGraphsPublished ==
  [][pointer'.token > pointer.token => pointer'.epoch \in loaded]_vars

-----------------------------------------------------------------------------
(* The files implement the atomic store.                                   *)

\* The phase of the atomic store's publisher a file-level phase stands for.
PortPhase(pc) ==
  CASE pc \in {"pointed", "fence_read"} -> "read"
    [] pc = "fence_written" -> "allocated"
    [] pc \in {"checked", "creating", "written", "recorded"} -> "loaded"
    [] OTHER -> pc

PortState(s) ==
  [s EXCEPT !.pc = PortPhase(s.pc),
            !.token = IF s.pc = "fence_read" THEN 0 ELSE s.token]

\* A superseded token that the unread FENCE lets through is a step of the port.
Port == INSTANCE PublicationPort WITH
  FenceFailures <- TRUE,
  current  <- pointer,
  durable  <- pointerDisk,
  previous <- [e \in Epochs |-> IF committedBy[e] # 0 THEN previous[e]
                                                     ELSE None],
  pub      <- [p \in Publishers |-> PortState(pub[p])]

\* Seen from outside, allocations and compare-and-swaps are single steps: what
\* PublicationPort promises (one chain, nothing committed from an outdated record
\* or behind the pointer's token) holds of the files.
ImplementsPort == Port!PortSpec

-----------------------------------------------------------------------------
(* Liveness.  A publisher that neither fails nor loses its machine goes on *)
(* (the code between two steps is straight-line), and the kernel grants a  *)
(* released file lock to the processes waiting for it.                     *)

Proceed(p) ==
  \/ ReadRecord(p) \/ WriteFence(p) \/ SyncFence(p)
  \/ BeginLoad(p) \/ FinishLoad(p)
  \/ CreateRecord(p) \/ WriteRecord(p) \/ SyncRecord(p)
  \/ RenamePointer(p) \/ SyncPointer(p) \/ Finish(p)
Lock(p) ==
  LockAndReadFence(p) \/ FenceExhausted(p) \/ CasRefused(p) \/ LockAndCheck(p)

FairSpec ==
  Spec /\ \A p \in Publishers : WF_vars(Proceed(p)) /\ SF_vars(Lock(p))

\* Every attempt to publish ends, whoever crashed while holding the lock.
AttemptsEnd ==
  \A p \in Publishers : (pub[p].pc # "idle") ~> (pub[p].pc = "idle")

=============================================================================
