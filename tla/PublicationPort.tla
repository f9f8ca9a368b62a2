--------------------------- MODULE PublicationPort ---------------------------
(***************************************************************************)
(* What a publisher of one repository's graph may rely on: the coordinator *)
(* publish_complete_graph (cih-engine) over a GraphPublicationStore whose  *)
(* operations are atomic.  The commit is the compare-and-swap script of    *)
(* the Falkor adapter, which Redis runs as one step; a store that keeps    *)
(* its records in files must look like this one (LadybugPublication).      *)
(*                                                                         *)
(* An epoch names a publication record, and the physical graph key is      *)
(* derived from the epoch, so `loaded` is the set of epochs whose physical *)
(* graph is complete.                                                      *)
(***************************************************************************)
EXTENDS Naturals

CONSTANTS
  Publishers,     \* engine processes publishing this repository
  Epochs,         \* the random 256-bit epoch identities
  None,           \* no epoch: the repository was never published
  MaxFence,       \* the largest fencing token (u64::MAX)
  PowerFailures,  \* TRUE when the machine may lose power
  FenceFailures   \* TRUE when a CAS takes an allocated fence that it cannot read
                  \* for 0 (Ladybug); Falkor's script reads it or fails

ASSUME EpochAssumption == None \notin Epochs
ASSUME FenceAssumption == MaxFence \in Nat
ASSUME PowerAssumption == PowerFailures \in BOOLEAN
ASSUME FenceFailuresAssumption == FenceFailures \in BOOLEAN

VARIABLES
  current,      \* authoritative pointer: the selected epoch and its token
  durable,      \* the pointer a restart after a power loss may fall back to
  fence,        \* last allocated fencing token
  previous,     \* previous_epoch inside each committed record
  committedBy,  \* history: the token that committed each epoch, 0 if none did
  used,         \* epochs allocated so far
  loaded,       \* epochs whose physical graph is completely loaded
  pub           \* local state of every publisher

portVars == <<current, durable, fence, previous, committedBy, used, loaded, pub>>

Phases == {"idle", "read", "allocated", "loading", "loaded", "committed",
           "published"}

EpochOrNone == Epochs \union {None}
Pointer     == [epoch: EpochOrNone, token: 0..MaxFence]
NoPointer   == [epoch |-> None, token |-> 0]

PublisherState ==
  [pc: Phases, expected: EpochOrNone, token: 0..MaxFence, epoch: EpochOrNone]
Idle == [pc |-> "idle", expected |-> None, token |-> 0, epoch |-> None]

Committed == {e \in Epochs : committedBy[e] # 0}

PortTypeOK ==
  /\ current \in Pointer
  /\ durable \in Pointer
  /\ fence \in 0..MaxFence
  /\ previous \in [Epochs -> EpochOrNone]
  /\ committedBy \in [Epochs -> 0..MaxFence]
  /\ used \subseteq Epochs
  /\ loaded \subseteq Epochs
  /\ pub \in [Publishers -> PublisherState]

PortInit ==
  /\ current = NoPointer
  /\ durable = NoPointer
  /\ fence = 0
  /\ previous = [e \in Epochs |-> None]
  /\ committedBy = [e \in Epochs |-> 0]
  /\ used = {}
  /\ loaded = {}
  /\ pub = [p \in Publishers |-> Idle]

-----------------------------------------------------------------------------

\* The coordinator reads the current record and remembers its epoch.
ReadCurrent(p) ==
  /\ pub[p].pc = "idle"
  /\ pub' = [pub EXCEPT ![p] = [@ EXCEPT !.pc = "read",
                                        !.expected = current.epoch]]
  /\ UNCHANGED <<current, durable, fence, previous, committedBy, used, loaded>>

\* A fresh token supersedes every token allocated before it.
AllocateToken(p) ==
  /\ pub[p].pc = "read"
  /\ fence < MaxFence
  /\ fence' = fence + 1
  /\ pub' = [pub EXCEPT ![p] = [@ EXCEPT !.pc = "allocated",
                                        !.token = fence + 1]]
  /\ UNCHANGED <<current, durable, previous, committedBy, used, loaded>>

\* A fresh epoch and physical graph key; the replacement load starts.
BeginLoad(p) ==
  /\ pub[p].pc = "allocated"
  /\ \E e \in Epochs \ used :
       /\ used' = used \union {e}
       /\ pub' = [pub EXCEPT ![p] = [@ EXCEPT !.pc = "loading", !.epoch = e]]
  /\ UNCHANGED <<current, durable, fence, previous, committedBy, loaded>>

\* Every artifact set is in the physical graph and the graph is in place.
FinishLoad(p) ==
  /\ pub[p].pc = "loading"
  /\ loaded' = loaded \union {pub[p].epoch}
  /\ pub' = [pub EXCEPT ![p].pc = "loaded"]
  /\ UNCHANGED <<current, durable, fence, previous, committedBy, used>>

\* What the CAS takes the allocated fence to be.
FenceSeen == IF FenceFailures THEN {fence, 0} ELSE {fence}

\* The order of the checks in the script: the fence, then the expected epoch.
Stale(p, f)    == pub[p].token < f \/ pub[p].token <= current.token
Conflict(p, f) == ~Stale(p, f) /\ pub[p].expected # current.epoch
WinsByToken(p, f) == ~Stale(p, f)  \* mutant: the expected epoch is not compared
Wins(p, f)     == ~Stale(p, f) /\ pub[p].expected = current.epoch

\* The CAS is refused; the coordinator bails out.
CasRefused(p) ==
  /\ pub[p].pc = "loaded"
  /\ \E f \in FenceSeen : Stale(p, f) \/ Conflict(p, f)
  /\ pub' = [pub EXCEPT ![p] = Idle]
  /\ UNCHANGED <<current, durable, fence, previous, committedBy, used, loaded>>

\* The record and the pointer change together.
CasPublish(p) ==
  /\ pub[p].pc = "loaded"
  /\ \E f \in FenceSeen : Wins(p, f)
  /\ current' = [epoch |-> pub[p].epoch, token |-> pub[p].token]
  /\ previous' = [previous EXCEPT ![pub[p].epoch] = pub[p].expected]
  /\ committedBy' = [committedBy EXCEPT ![pub[p].epoch] = pub[p].token]
  /\ pub' = [pub EXCEPT ![p].pc = "committed"]
  /\ UNCHANGED <<durable, fence, used, loaded>>

\* The publisher learns that it published: from here on nothing may undo it.
Reply(p) ==
  /\ pub[p].pc = "committed"
  /\ durable' = current
  /\ pub' = [pub EXCEPT ![p].pc = "published"]
  /\ UNCHANGED <<current, fence, previous, committedBy, used, loaded>>

Finish(p) ==
  /\ pub[p].pc = "published"
  /\ pub' = [pub EXCEPT ![p] = Idle]
  /\ UNCHANGED <<current, durable, fence, previous, committedBy, used, loaded>>

\* A failed load, an error of the store or the death of the process, also
\* between the commit and its reply.
Abort(p) ==
  /\ pub[p].pc \notin {"idle", "published"}
  /\ pub' = [pub EXCEPT ![p] = Idle]
  /\ UNCHANGED <<current, durable, fence, previous, committedBy, used, loaded>>

\* The store makes its state durable on its own account.
Settle ==
  /\ durable # current
  /\ durable' = current
  /\ UNCHANGED <<current, fence, previous, committedBy, used, loaded, pub>>

\* Every process dies.  A commit nobody was told of may be undone, a token
\* nobody used may be forgotten, and nothing is promised of the physical
\* graphs.
PowerLoss ==
  /\ PowerFailures
  /\ \E c \in {current, durable} :
       /\ current' = c
       /\ durable' = c
       /\ fence' \in c.token..fence
       /\ committedBy' =
            [e \in Epochs |-> IF committedBy[e] <= c.token THEN committedBy[e]
                                                           ELSE 0]
       /\ previous' = [e \in Epochs |-> IF committedBy[e] <= c.token
                                        THEN previous[e] ELSE None]
  /\ loaded' \in SUBSET loaded
  /\ pub' = [p \in Publishers |-> Idle]
  /\ UNCHANGED used

PortNext ==
  \/ \E p \in Publishers :
       \/ ReadCurrent(p) \/ AllocateToken(p) \/ BeginLoad(p) \/ FinishLoad(p)
       \/ CasRefused(p) \/ CasPublish(p) \/ Reply(p) \/ Finish(p) \/ Abort(p)
  \/ Settle
  \/ PowerLoss

PortSpec == PortInit /\ [][PortNext]_portVars

-----------------------------------------------------------------------------

\* The committed records form one chain: previous_epoch of a record is the
\* record committed immediately before it, and tokens grow along the chain.
\* No publication is lost, none forks off an older one (trait documentation,
\* cih-graph-store publication.rs).
LinearHistory ==
  /\ \A d \in Committed :
       \/ previous[d] = None
       \/ previous[d] \in Committed /\ committedBy[previous[d]] < committedBy[d]
  /\ \A d, e \in Committed :
       committedBy[e] < committedBy[d] =>
         /\ previous[d] \in Committed
         /\ committedBy[e] <= committedBy[previous[d]]
  /\ \A d, e \in Committed : committedBy[d] = committedBy[e] => d = e

\* The pointer names the last record of the chain.
CurrentIsHead ==
  /\ \A e \in Committed : committedBy[e] <= current.token
  /\ IF current.epoch = None THEN current.token = 0
     ELSE /\ current.token # 0
          /\ committedBy[current.epoch] = current.token

\* However publishers race, fail, lose power or miss the fence, what they
\* committed is one chain and the pointer is at its head.
OneChain == LinearHistory /\ CurrentIsHead

=============================================================================
