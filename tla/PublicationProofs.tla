-------------------------- MODULE PublicationProofs --------------------------
(***************************************************************************)
(* The history of the atomic store is one chain, for any number of         *)
(* publishers and epochs and any crash or power loss; and the runs that    *)
(* publish through it keep the artifacts, the registry and the requests in *)
(* step with it, for any number of runs, requests and versions.            *)
(***************************************************************************)
EXTENDS PublishPipeline, TLAPS

USE EpochAssumption, FenceAssumption, PowerAssumption, FenceFailuresAssumption, BoundAssumption

Loading == {"loading", "loaded"}

\* An epoch belongs to the one publisher that allocated it until it is
\* committed, and never was committed before.
EpochsOwned ==
  /\ Committed \subseteq used
  /\ \A p \in Publishers : pub[p].pc \in Loading =>
       pub[p].epoch \in used /\ committedBy[pub[p].epoch] = 0
  /\ \A p, q \in Publishers :
       pub[p].pc \in Loading /\ pub[q].pc \in Loading
         /\ pub[p].epoch = pub[q].epoch => p = q

\* The durable pointer is a pointer of the chain, and no token is ahead of
\* the fence.
DurableInChain ==
  /\ current.token <= fence
  /\ durable.token <= current.token
  /\ IF durable.epoch = None THEN durable.token = 0
     ELSE durable.token # 0 /\ committedBy[durable.epoch] = durable.token

\* Nobody holds a token the fence has not reached.
TokensBehindFence == \A p \in Publishers : pub[p].token <= fence

Ind == /\ PortTypeOK /\ EpochsOwned /\ DurableInChain /\ TokensBehindFence
       /\ LinearHistory /\ CurrentIsHead

-----------------------------------------------------------------------------
(* Type correctness of a step.                                             *)

LEMMA IdleType == Idle \in PublisherState
  BY DEF Idle, PublisherState, Phases, EpochOrNone

LEMMA TypeStep ==
  ASSUME PortTypeOK, EpochsOwned, [PortNext]_portVars
  PROVE  PortTypeOK'
<1> USE DEF PortTypeOK, PublisherState, Phases, EpochOrNone, Pointer
<1>1. ASSUME NEW p \in Publishers, ReadCurrent(p) PROVE PortTypeOK'
  <2>1. [pub[p] EXCEPT !.pc = "read", !.expected = current.epoch] \in PublisherState
    OBVIOUS
  <2>2. pub' = [pub EXCEPT ![p] = [pub[p] EXCEPT !.pc = "read", !.expected = current.epoch]]
    BY <1>1 DEF ReadCurrent
  <2>3. pub' \in [Publishers -> PublisherState]
    BY <2>1, <2>2
  <2> QED BY <1>1, <2>3 DEF ReadCurrent
<1>2. ASSUME NEW p \in Publishers, AllocateToken(p) PROVE PortTypeOK'
  <2>1. fence + 1 \in 0..MaxFence
    BY <1>2 DEF AllocateToken
  <2>2. [pub[p] EXCEPT !.pc = "allocated", !.token = fence + 1]
          \in PublisherState
    BY <2>1
  <2>3. pub' = [pub EXCEPT ![p] = [pub[p] EXCEPT !.pc = "allocated", !.token = fence + 1]]
    BY <1>2 DEF AllocateToken
  <2>4. pub' \in [Publishers -> PublisherState]
    BY <2>2, <2>3
  <2> QED BY <1>2, <2>1, <2>4 DEF AllocateToken
<1>3. ASSUME NEW p \in Publishers, BeginLoad(p) PROVE PortTypeOK'
  <2>1. PICK e \in Epochs \ used :
          /\ used' = used \union {e}
          /\ pub' = [pub EXCEPT ![p] = [@ EXCEPT !.pc = "loading",
                                                 !.epoch = e]]
    BY <1>3 DEF BeginLoad
  <2>2. [pub[p] EXCEPT !.pc = "loading", !.epoch = e] \in PublisherState
    OBVIOUS
  <2> QED BY <1>3, <2>1, <2>2 DEF BeginLoad
<1>4. ASSUME NEW p \in Publishers, FinishLoad(p) PROVE PortTypeOK'
  BY <1>4 DEF FinishLoad, EpochsOwned, Loading
<1>5. ASSUME NEW p \in Publishers, CasRefused(p) PROVE PortTypeOK'
  BY <1>5, IdleType DEF CasRefused
<1>6. ASSUME NEW p \in Publishers, CasPublish(p) PROVE PortTypeOK'
  <2>1. [pub[p] EXCEPT !.pc = "committed"] \in PublisherState
    OBVIOUS
  <2>2. pub' \in [Publishers -> PublisherState]
    BY <1>6, <2>1 DEF CasPublish
  <2>3. current' \in Pointer /\ previous' \in [Epochs -> EpochOrNone]
        /\ committedBy' \in [Epochs -> 0..MaxFence]
    BY <1>6 DEF CasPublish
  <2> QED BY <1>6, <2>2, <2>3 DEF CasPublish
<1>7. ASSUME NEW p \in Publishers, Reply(p) PROVE PortTypeOK'
  BY <1>7 DEF Reply
<1>8. ASSUME NEW p \in Publishers, Finish(p) PROVE PortTypeOK'
  BY <1>8, IdleType DEF Finish
<1>9. ASSUME NEW p \in Publishers, Abort(p) PROVE PortTypeOK'
  BY <1>9, IdleType DEF Abort
<1>10. CASE Settle
  BY <1>10 DEF Settle
<1>11. CASE PowerLoss
  BY <1>11, IdleType DEF PowerLoss
<1>12. CASE UNCHANGED portVars
  BY <1>12 DEF portVars
<1> QED
  BY <1>1, <1>2, <1>3, <1>4, <1>5, <1>6, <1>7, <1>8, <1>9, <1>10, <1>11,
     <1>12 DEF PortNext

-----------------------------------------------------------------------------
(* A commit extends the chain at its head.                                 *)

LEMMA CommitExtendsChain ==
  ASSUME Ind, NEW p \in Publishers, CasPublish(p)
  PROVE  LinearHistory' /\ CurrentIsHead' /\ DurableInChain'
<1> DEFINE e == pub[p].epoch
           t == pub[p].token
<1>1. e \in Epochs /\ committedBy[e] = 0 /\ t \in Nat /\ current.token < t
      /\ t <= MaxFence /\ t <= fence
  <2>1. pub[p].pc = "loaded" /\ ~(t <= current.token)
    BY DEF CasPublish, Wins, Stale
  <2>2. pub[p] \in PublisherState /\ t \in 0..MaxFence
    BY DEF Ind, PortTypeOK, PublisherState
  <2>3. e \in used /\ used \subseteq Epochs /\ committedBy[e] = 0
    BY <2>1 DEF Ind, PortTypeOK, EpochsOwned, Loading
  <2>4. current.token \in Nat /\ fence \in Nat /\ current.token <= fence
    BY DEF Ind, PortTypeOK, Pointer, DurableInChain
  <2>5. pub[p].token <= fence
    BY DEF Ind, TokensBehindFence
  <2> QED BY <2>1, <2>2, <2>3, <2>4, <2>5
<1>2. /\ committedBy' = [committedBy EXCEPT ![e] = t]
      /\ previous' = [previous EXCEPT ![e] = current.epoch]
      /\ current' = [epoch |-> e, token |-> t]
      /\ UNCHANGED <<durable, fence>>
  BY DEF CasPublish, Wins
<1>3. Committed' = Committed \union {e}
  <2>1. t # 0
    <3>1. current.token \in Nat
      BY DEF Ind, PortTypeOK, Pointer
    <3> QED BY <1>1, <3>1
  <2>2. \A d \in Epochs : committedBy'[d] = IF d = e THEN t ELSE committedBy[d]
    BY <1>1, <1>2 DEF Ind, PortTypeOK
  <2> QED BY <1>1, <2>1, <2>2 DEF Committed
<1>4. /\ \A d \in Committed : /\ d \in Epochs /\ d # e
                              /\ committedBy'[d] = committedBy[d]
                              /\ previous'[d] = previous[d]
                              /\ committedBy[d] \in Nat
                              /\ committedBy[d] <= current.token
      /\ committedBy'[e] = t /\ previous'[e] = current.epoch
  BY <1>1, <1>2 DEF Committed, Ind, PortTypeOK, CurrentIsHead
<1>5. \/ current.epoch = None /\ current.token = 0
      \/ current.epoch \in Committed /\ committedBy[current.epoch] = current.token
  BY DEF Ind, PortTypeOK, CurrentIsHead, Pointer, EpochOrNone, Committed
<1>6. current.token \in Nat
  BY DEF Ind, PortTypeOK, Pointer
<1>7. CurrentIsHead'
  BY <1>1, <1>2, <1>3, <1>4, <1>6 DEF CurrentIsHead
<1>8. DurableInChain'
  BY <1>1, <1>2, <1>6 DEF DurableInChain, Ind, PortTypeOK, Pointer, EpochOrNone
<1>9. ASSUME NEW d \in Committed'
      PROVE  \/ previous'[d] = None
             \/ previous'[d] \in Committed'
                /\ committedBy'[previous'[d]] < committedBy'[d]
  <2>1. CASE d = e
    BY <1>1, <1>3, <1>4, <1>5, <2>1
  <2>2. CASE d \in Committed
    BY <1>3, <1>4, <2>2 DEF Ind, LinearHistory
  <2> QED BY <1>3, <2>1, <2>2
<1>10. ASSUME NEW d \in Committed', NEW c \in Committed',
              committedBy'[c] < committedBy'[d]
       PROVE  previous'[d] \in Committed'
              /\ committedBy'[c] <= committedBy'[previous'[d]]
  <2>1. CASE d = e /\ c = e
    BY <1>1, <1>4, <1>10, <2>1
  <2>2. CASE d = e /\ c \in Committed
    <3>1. committedBy[c] # 0
      BY <2>2 DEF Committed
    <3>2. current.epoch \in Committed
      BY <1>4, <1>5, <1>6, <2>2, <3>1
    <3> QED BY <1>3, <1>4, <1>5, <2>2, <3>2
  <2>3. CASE d \in Committed /\ c = e
    BY <1>1, <1>4, <1>6, <1>10, <2>3
  <2>4. CASE d \in Committed /\ c \in Committed
    BY <1>3, <1>4, <1>10, <2>4 DEF Ind, LinearHistory
  <2> QED BY <1>3, <2>1, <2>2, <2>3, <2>4
<1>11. ASSUME NEW d \in Committed', NEW c \in Committed',
              committedBy'[d] = committedBy'[c]
       PROVE  d = c
  BY <1>1, <1>3, <1>4, <1>6, <1>11 DEF Ind, LinearHistory
<1> QED BY <1>7, <1>8, <1>9, <1>10, <1>11 DEF LinearHistory

-----------------------------------------------------------------------------
(* A power loss cuts the chain at the durable pointer or leaves it alone.  *)

LEMMA PowerLossCutsChain ==
  ASSUME Ind, PowerLoss
  PROVE  LinearHistory' /\ CurrentIsHead' /\ DurableInChain' /\ EpochsOwned'
<1>1. PICK c \in {current, durable} :
        /\ current' = c
        /\ durable' = c
        /\ fence' \in c.token..fence
        /\ committedBy' =
             [e \in Epochs |-> IF committedBy[e] <= c.token
                               THEN committedBy[e] ELSE 0]
        /\ previous' = [e \in Epochs |-> IF committedBy[e] <= c.token
                                         THEN previous[e] ELSE None]
  BY DEF PowerLoss
<1>2. /\ c \in Pointer /\ c.token \in Nat /\ c.epoch \in EpochOrNone
      /\ IF c.epoch = None THEN c.token = 0
         ELSE c.token # 0 /\ committedBy[c.epoch] = c.token
  BY <1>1 DEF Ind, PortTypeOK, CurrentIsHead, DurableInChain, Pointer
<1>3. \A d \in Epochs : committedBy[d] \in Nat
  BY DEF Ind, PortTypeOK
<1>4. \A d \in Epochs : d \in Committed' <=>
                        d \in Committed /\ committedBy[d] <= c.token
  BY <1>1, <1>2, <1>3 DEF Committed
<1>5. \A d \in Committed' : /\ d \in Epochs /\ d \in Committed
                            /\ committedBy'[d] = committedBy[d]
                            /\ committedBy[d] <= c.token
                            /\ previous'[d] = previous[d]
  BY <1>1, <1>4 DEF Committed
<1>6. CurrentIsHead'
  BY <1>1, <1>2, <1>3, <1>5 DEF CurrentIsHead, EpochOrNone
<1>7. DurableInChain'
  BY <1>1, <1>2, <1>3 DEF DurableInChain, EpochOrNone, Ind, PortTypeOK
<1>8. EpochsOwned'
  <2>1. used' = used /\ \A p \in Publishers : pub'[p].pc = "idle"
    BY DEF PowerLoss, Idle
  <2> QED BY <1>5, <2>1 DEF EpochsOwned, Ind, Loading
<1>9. ASSUME NEW d \in Committed'
      PROVE  \/ previous'[d] = None
             \/ previous'[d] \in Committed'
                /\ committedBy'[previous'[d]] < committedBy'[d]
  <2>1. CASE previous[d] = None
    BY <1>5, <2>1
  <2>2. CASE previous[d] \in Committed /\ committedBy[previous[d]] < committedBy[d]
    <3>1. previous[d] \in Epochs /\ committedBy[previous[d]] <= c.token
      BY <1>2, <1>3, <1>5, <2>2 DEF Committed
    <3>2. previous[d] \in Committed'
      BY <1>4, <2>2, <3>1
    <3> QED BY <1>5, <2>2, <3>2
  <2> QED BY <1>5, <2>1, <2>2 DEF Ind, LinearHistory
<1>10. ASSUME NEW d \in Committed', NEW e \in Committed',
              committedBy'[e] < committedBy'[d]
       PROVE  previous'[d] \in Committed'
              /\ committedBy'[e] <= committedBy'[previous'[d]]
  <2>1. /\ previous[d] \in Committed
        /\ committedBy[e] <= committedBy[previous[d]]
    BY <1>5, <1>10 DEF Ind, LinearHistory
  <2>2. previous'[d] \in Committed' /\ previous'[d] = previous[d]
    BY <1>5, <1>9, <2>1 DEF Committed
  <2> QED BY <1>5, <2>1, <2>2
<1>11. ASSUME NEW d \in Committed', NEW e \in Committed',
              committedBy'[d] = committedBy'[e]
       PROVE  d = e
  BY <1>5, <1>11 DEF Ind, LinearHistory
<1> QED BY <1>6, <1>7, <1>8, <1>9, <1>10, <1>11 DEF LinearHistory

-----------------------------------------------------------------------------

LEMMA OwnedStep ==
  ASSUME Ind, NEW p \in Publishers,
         \/ ReadCurrent(p) \/ AllocateToken(p) \/ BeginLoad(p) \/ FinishLoad(p)
         \/ CasRefused(p) \/ CasPublish(p) \/ Reply(p) \/ Finish(p) \/ Abort(p)
  PROVE  EpochsOwned'
<1> USE DEF Ind, PortTypeOK, EpochsOwned, Loading, Committed, PublisherState
<1>1. CASE ReadCurrent(p)
  BY <1>1 DEF ReadCurrent
<1>2. CASE AllocateToken(p)
  BY <1>2 DEF AllocateToken
<1>3. CASE BeginLoad(p)
  <2>1. PICK e \in Epochs \ used :
          /\ used' = used \union {e}
          /\ pub' = [pub EXCEPT ![p] = [@ EXCEPT !.pc = "loading",
                                                 !.epoch = e]]
    BY <1>3 DEF BeginLoad
  <2>2. committedBy' = committedBy /\ committedBy[e] = 0
    BY <1>3, <2>1 DEF BeginLoad
  <2>3. /\ pub'[p].pc = "loading" /\ pub'[p].epoch = e
        /\ \A q \in Publishers \ {p} : pub'[q] = pub[q]
    BY <2>1
  <2> QED BY <2>1, <2>2, <2>3
<1>4. CASE FinishLoad(p)
  BY <1>4 DEF FinishLoad
<1>5. CASE CasRefused(p)
  BY <1>5 DEF CasRefused, Idle
<1>6. CASE CasPublish(p)
  <2>1. /\ pub'[p].pc = "committed"
        /\ \A q \in Publishers \ {p} : pub'[q] = pub[q]
        /\ used' = used
        /\ \A e \in Epochs \ {pub[p].epoch} : committedBy'[e] = committedBy[e]
    BY <1>6 DEF CasPublish
  <2>2. pub[p].epoch \in used
    BY <1>6 DEF CasPublish
  <2> QED BY <1>6, <2>1, <2>2 DEF CasPublish
<1>7. CASE Reply(p)
  BY <1>7 DEF Reply
<1>8. CASE Finish(p)
  BY <1>8 DEF Finish, Idle
<1>9. CASE Abort(p)
  BY <1>9 DEF Abort, Idle
<1> QED BY <1>1, <1>2, <1>3, <1>4, <1>5, <1>6, <1>7, <1>8, <1>9

LEMMA TokensStep ==
  ASSUME Ind, [PortNext]_portVars
  PROVE  TokensBehindFence'
<1> USE DEF TokensBehindFence, Ind, PortTypeOK, PublisherState
<1>1. ASSUME NEW p \in Publishers, ReadCurrent(p) PROVE TokensBehindFence'
  BY <1>1 DEF ReadCurrent
<1>2. ASSUME NEW p \in Publishers, AllocateToken(p) PROVE TokensBehindFence'
  <2>1. /\ fence' = fence + 1 /\ fence \in Nat
        /\ pub'[p].token = fence + 1
        /\ \A q \in Publishers \ {p} : pub'[q] = pub[q]
    BY <1>2 DEF AllocateToken
  <2> QED BY <2>1
<1>3. ASSUME NEW p \in Publishers, BeginLoad(p) PROVE TokensBehindFence'
  BY <1>3 DEF BeginLoad
<1>4. ASSUME NEW p \in Publishers, FinishLoad(p) PROVE TokensBehindFence'
  BY <1>4 DEF FinishLoad
<1>5. ASSUME NEW p \in Publishers,
             CasRefused(p) \/ Finish(p) \/ Abort(p) PROVE TokensBehindFence'
  BY <1>5 DEF CasRefused, Finish, Abort, Idle
<1>6. ASSUME NEW p \in Publishers,
             CasPublish(p) \/ Reply(p) PROVE TokensBehindFence'
  BY <1>6 DEF CasPublish, Reply
<1>7. CASE Settle
  BY <1>7 DEF Settle
<1>8. CASE PowerLoss
  <2>1. fence' \in Nat
    <3>1. \A c \in {current, durable} : c.token \in Nat
      BY DEF Pointer
    <3> QED BY <1>8, <3>1 DEF PowerLoss
  <2>2. \A p \in Publishers : pub'[p].token = 0
    BY <1>8 DEF PowerLoss, Idle
  <2> QED BY <2>1, <2>2
<1>9. CASE UNCHANGED portVars
  BY <1>9 DEF portVars
<1> QED
  BY <1>1, <1>2, <1>3, <1>4, <1>5, <1>6, <1>7, <1>8, <1>9 DEF PortNext

LEMMA InitInd == PortInit => Ind
  BY IdleType DEF PortInit, Ind, PortTypeOK, EpochsOwned, DurableInChain, LinearHistory,
     TokensBehindFence,
     CurrentIsHead, Committed, NoPointer, Pointer, EpochOrNone, Idle, Loading

LEMMA NextInd == Ind /\ [PortNext]_portVars => Ind'
<1> SUFFICES ASSUME Ind, [PortNext]_portVars PROVE Ind'
  OBVIOUS
<1>1. PortTypeOK' /\ TokensBehindFence'
  BY TypeStep, TokensStep DEF Ind
<1>2. ASSUME NEW p \in Publishers, CasPublish(p) PROVE Ind'
  BY <1>1, <1>2, CommitExtendsChain, OwnedStep DEF Ind
<1>3. CASE PowerLoss
  BY <1>1, <1>3, PowerLossCutsChain DEF Ind
<1>4. ASSUME NEW p \in Publishers,
             \/ ReadCurrent(p) \/ AllocateToken(p) \/ BeginLoad(p)
             \/ FinishLoad(p) \/ CasRefused(p) \/ Reply(p) \/ Finish(p)
             \/ Abort(p)
      PROVE  Ind'
  <2>1. UNCHANGED <<current, previous, committedBy>>
    BY <1>4 DEF ReadCurrent, AllocateToken, BeginLoad, FinishLoad, CasRefused,
                Reply, Finish, Abort
  <2>2. LinearHistory' /\ CurrentIsHead'
    BY <2>1 DEF Ind, LinearHistory, CurrentIsHead, Committed
  <2>3. /\ fence' = fence \/ fence' = fence + 1
        /\ durable' = durable \/ durable' = current
    BY <1>4 DEF ReadCurrent, AllocateToken, BeginLoad, FinishLoad, CasRefused,
                Reply, Finish, Abort
  <2>4. DurableInChain'
    BY <2>1, <2>3 DEF Ind, DurableInChain, CurrentIsHead, PortTypeOK, Pointer
  <2>5. EpochsOwned'
    BY <1>4, OwnedStep
  <2> QED BY <1>1, <2>2, <2>4, <2>5 DEF Ind
<1>5. CASE Settle
  BY <1>1, <1>5 DEF Settle, Ind, EpochsOwned, DurableInChain, LinearHistory,
                    CurrentIsHead, Committed, PortTypeOK, Pointer
<1>6. CASE UNCHANGED portVars
  BY <1>1, <1>6 DEF portVars, Ind, EpochsOwned, DurableInChain, LinearHistory,
                    CurrentIsHead, Committed
<1> QED BY <1>2, <1>3, <1>4, <1>5, <1>6 DEF PortNext

LEMMA IndInvariant == PortSpec => []Ind
  BY InitInd, NextInd, PTL DEF PortSpec

\* Type correctness of the atomic store.
THEOREM PortTypeCorrect == PortSpec => []PortTypeOK
<1>1. Ind => PortTypeOK
  BY DEF Ind
<1> QED BY <1>1, IndInvariant, PTL

\* Published epochs form one chain, each record naming the one committed
\* immediately before it, and the pointer is at the head of the chain.
THEOREM PortOneChain == PortSpec => []OneChain
<1>1. Ind => OneChain
  BY DEF Ind, OneChain
<1> QED BY <1>1, IndInvariant, PTL

-----------------------------------------------------------------------------
(* The runs over one repository                                            *)

\* Whose run is under way; whose graph is loaded; whose is published.
Active(p) == ~At(p, "idle")
Filled(p) == pub[p].pc \in {"loaded", "committed", "published"}
Told(p)   == pub[p].pc \in {"committed", "published"}

\* A publisher publishes in the steps of its run that do.
Steps ==
  \A p \in Publishers :
    /\ pub[p].pc # "idle" <=> run[p].step \in {"publishing", "registered"}
    /\ run[p].step = "registered" => pub[p].pc = "published"
    /\ Active(p) => run[p].base # 0

\* Graphs have content once loaded, and what is published, registered or seen
\* by a request was committed.
Contents ==
  /\ \A p \in Publishers :
       /\ Filled(p) => pub[p].epoch \in Epochs /\ content[pub[p].epoch] # 0
       /\ Told(p) => committedBy[pub[p].epoch] # 0
  /\ \A r \in Readers :
       /\ request[r].epoch # None => committedBy[request[r].epoch] # 0
       /\ request[r].step # "none" => registry.epoch # None

\* A run that is alone keeps its version, and publishes it.
RunAlone(p) ==
  /\ Active(p) => OnDisk(run[p].base)
  /\ Filled(p) => content[pub[p].epoch] = run[p].base
  /\ Told(p) => current.epoch = pub[p].epoch
  /\ At(p, "registered") /\ run[p].kind = "analyze" => registry.artifacts_dir = run[p].base

Alone ==
  OneAtATime =>
    /\ \A p, q \in Publishers : Active(p) /\ Active(q) => p = q
    /\ \A p \in Publishers : RunAlone(p)

\* What is not completely written is being written.
Whole ==
  OneAtATime /\ "death" \notin mishaps =>
    /\ truncated = {}
    /\ \A v \in partial : \E p \in Publishers : At(p, "emitting") /\ run[p].base = v

\* Between the commit and the registration the registry is behind; before the
\* commit the newest artifacts are ahead of both.
Committing(p) == At(p, "publishing") /\ Told(p)
Ahead(p)      == Active(p) /\ ~Told(p)

InStep ==
  Undisturbed =>
    /\ (\A p \in Publishers : ~Committing(p)) =>
         /\ registry.epoch = current.epoch
         /\ registry.epoch # None => content[current.epoch] = registry.latest
    /\ \A p \in Publishers : Active(p) => newest = run[p].base
    /\ NoRunUnderWay /\ registry.epoch # None => registry.latest = newest
    /\ (\A p \in Publishers : ~Ahead(p)) =>
         \A r \in Readers :
           request[r].step = "done" /\ request[r].epoch = current.epoch =>
             request[r].corpus = content[current.epoch]

PipelineInd ==
  /\ TypeOK /\ Steps /\ Contents /\ Alone /\ Whole /\ InStep /\ PublishedArtifactsKept

-----------------------------------------------------------------------------
(* Every step of a run is a step of the store, or none                     *)

LEMMA RunsPublish == [Next]_vars => [PortNext]_portVars
<1> SUFFICES ASSUME [Next]_vars PROVE [PortNext]_portVars
  OBVIOUS
<1>1. ASSUME NEW p \in Publishers,
             \/ StartAnalyze(p) \/ FinishEmit(p) \/ ReuseArtifacts(p) \/ StartDiscover(p)
             \/ SkipLoad(p) \/ Register(p)
      PROVE  UNCHANGED portVars
  BY <1>1 DEF StartAnalyze, FinishEmit, ReuseArtifacts, StartDiscover, SkipLoad, Register
<1>2. ASSUME NEW p \in Publishers, StartPublish(p) \/ LoadGraph(p) \/ Publish(p) PROVE PortNext
  BY <1>2 DEF StartPublish, LoadGraph, Publish, PortNext
<1>3. ASSUME NEW p \in Publishers, PublishFails(p) \/ RegisterFails(p) \/ Prune(p) PROVE PortNext
  BY <1>3 DEF PublishFails, RegisterFails, Prune, PortNext
<1>4. ASSUME NEW p \in Publishers, Die(p) PROVE PortNext \/ UNCHANGED portVars
  BY <1>4 DEF Die, PortNext
<1>5. ASSUME NEW r \in Readers, ResolveGraph(r) \/ ResolveCorpus(r) \/ Answer(r)
      PROVE  UNCHANGED portVars
  BY <1>5 DEF ResolveGraph, ResolveCorpus, Answer
<1>6. UNCHANGED vars => UNCHANGED portVars
  BY DEF vars
<1> QED BY <1>1, <1>2, <1>3, <1>4, <1>5, <1>6 DEF Next

LEMMA PipelineIsPort == Spec => PortSpec
<1>1. Init => PortInit
  BY DEF Init
<1> QED BY <1>1, RunsPublish, PTL DEF Spec, PortSpec

\* What the steps of a publication do to the publisher's state, and to no other's.
Moved(p, from, to) ==
  /\ pub[p].pc = from /\ pub'[p].pc = to
  /\ \A q \in Publishers : q # p => pub'[q] = pub[q]
Kept == current' = current /\ committedBy' = committedBy

LEMMA Moves ==
  ASSUME PortTypeOK, NEW p \in Publishers
  PROVE  /\ ReadCurrent(p) => Moved(p, "idle", "read") /\ Kept
         /\ AllocateToken(p) => Moved(p, "read", "allocated") /\ Kept
         /\ BeginLoad(p) => Moved(p, "allocated", "loading") /\ Kept
         /\ FinishLoad(p) => Moved(p, "loading", "loaded") /\ Kept /\ pub'[p].epoch = pub[p].epoch
         /\ Reply(p) => Moved(p, "committed", "published") /\ Kept /\ pub'[p].epoch = pub[p].epoch
         /\ CasRefused(p) => Moved(p, "loaded", "idle") /\ Kept
         /\ Finish(p) => Moved(p, "published", "idle") /\ Kept
         /\ Abort(p) => /\ Moved(p, pub[p].pc, "idle") /\ Kept
                        /\ pub[p].pc \notin {"idle", "published"}
<1> USE DEF PortTypeOK, PublisherState, Moved, Kept
<1>2. ReadCurrent(p) => Moved(p, "idle", "read") /\ Kept
  BY DEF ReadCurrent
<1>3. AllocateToken(p) => Moved(p, "read", "allocated") /\ Kept
  BY DEF AllocateToken
<1>4. BeginLoad(p) => Moved(p, "allocated", "loading") /\ Kept
  BY DEF BeginLoad
<1>5. FinishLoad(p) => Moved(p, "loading", "loaded") /\ Kept /\ pub'[p].epoch = pub[p].epoch
  BY DEF FinishLoad
<1>6. Reply(p) => Moved(p, "committed", "published") /\ Kept /\ pub'[p].epoch = pub[p].epoch
  BY DEF Reply
<1>7. CasRefused(p) => Moved(p, "loaded", "idle") /\ Kept
  BY DEF CasRefused, Idle
<1>8. Finish(p) => Moved(p, "published", "idle") /\ Kept
  BY DEF Finish, Idle
<1>9. Abort(p) => /\ Moved(p, pub[p].pc, "idle") /\ Kept /\ pub[p].pc \notin {"idle", "published"}
  BY DEF Abort, Idle
<1> QED BY <1>2, <1>3, <1>4, <1>5, <1>6, <1>7, <1>8, <1>9

\* The commit makes a fresh epoch the current one.
LEMMA CommitMoves ==
  ASSUME Ind, NEW p \in Publishers, CasPublish(p)
  PROVE  /\ Moved(p, "loaded", "committed") /\ pub'[p].epoch = pub[p].epoch
         /\ pub[p].epoch \in Epochs /\ committedBy[pub[p].epoch] = 0
         /\ current'.epoch = pub[p].epoch /\ committedBy'[pub[p].epoch] # 0
         /\ \A e \in Epochs : e # pub[p].epoch => committedBy'[e] = committedBy[e]
<1>1. pub[p].epoch \in Epochs /\ committedBy[pub[p].epoch] = 0
  BY DEF CasPublish, Ind, PortTypeOK, EpochsOwned, Loading
<1>2. pub[p].token \in Nat /\ current.token \in Nat /\ current.token < pub[p].token
  BY DEF CasPublish, Wins, Stale, Ind, PortTypeOK, PublisherState, Pointer
<1>3. committedBy' = [committedBy EXCEPT ![pub[p].epoch] = pub[p].token] /\ current'.epoch = pub[p].epoch
  BY DEF CasPublish
<1>4. Moved(p, "loaded", "committed") /\ pub'[p].epoch = pub[p].epoch
  BY DEF CasPublish, Ind, PortTypeOK, PublisherState, Moved
<1> QED BY <1>1, <1>2, <1>3, <1>4 DEF Ind, PortTypeOK

-----------------------------------------------------------------------------
(* Types                                                                   *)

RunStates ==
  [step : {"idle", "emitting", "emitted", "publishing", "registered"},
   kind : {"analyze", "discover"}, base : 0..MaxVersions]

LEMMA StartTypes ==
  ASSUME TypeOK, NEW p \in Publishers, NEW kind \in {"analyze", "discover"},
         NEW step \in {"emitting", "emitted"}, NEW base \in Versions, Start(p, kind, step, base)
  PROVE  /\ run' \in [Publishers -> RunStates] /\ mishaps' \subseteq {"overlap", "unpublished", "death"}
         /\ run'[p].step = step /\ run'[p].kind = kind /\ run'[p].base = base
         /\ \A q \in Publishers : q # p => run'[q] = run[q]
BY DEF TypeOK, Start, RunStates, Versions

LEMMA EndTypes ==
  ASSUME TypeOK, NEW p \in Publishers, NEW how \in SUBSET {"unpublished", "death"}, End(p, how)
  PROVE  /\ run' \in [Publishers -> RunStates] /\ mishaps' \subseteq {"overlap", "unpublished", "death"}
         /\ run'[p].step = "idle" /\ mishaps' = mishaps \union how
         /\ \A q \in Publishers : q # p => run'[q] = run[q]
BY DEF TypeOK, End, IdleRun, RunStates

LEMMA GoTypes ==
  ASSUME TypeOK, NEW p \in Publishers, NEW step \in {"emitted", "publishing", "registered"}, Go(p, step)
  PROVE  /\ run' \in [Publishers -> RunStates]
         /\ run'[p].step = step /\ run'[p].kind = run[p].kind /\ run'[p].base = run[p].base
         /\ \A q \in Publishers : q # p => run'[q] = run[q]
BY DEF TypeOK, Go, RunStates

\* The conjuncts of TypeOK other than the store's.
RunsTypeOK ==
  /\ present \subseteq Versions
  /\ IF present = {} THEN newest = 0 ELSE newest \in present
  /\ partial \subseteq Versions /\ emitted \in 0..MaxVersions /\ hashed \in BOOLEAN
  /\ content \in [Epochs -> 0..MaxVersions] /\ truncated \subseteq Epochs
  /\ registry \in [artifacts_dir : 0..MaxVersions, latest : 0..MaxVersions, epoch : EpochOrNone]
  /\ run \in [Publishers -> RunStates]
  /\ request \in [Readers -> [step : {"none", "graph", "done"}, epoch : EpochOrNone, corpus : 0..MaxVersions]]
  /\ mishaps \subseteq {"overlap", "unpublished", "death"}

LEMMA TypeOKIs == TypeOK <=> PortTypeOK /\ RunsTypeOK
BY DEF TypeOK, RunsTypeOK, RunStates

LEMMA RegisteredType ==
  ASSUME TypeOK, NEW p \in Publishers
  PROVE  /\ Registered(p) \in [artifacts_dir : 0..MaxVersions, latest : 0..MaxVersions, epoch : EpochOrNone]
         /\ Registered(p).epoch = pub[p].epoch /\ Registered(p).latest = run[p].base
         /\ Registered(p).artifacts_dir = IF run[p].kind = "analyze" THEN run[p].base ELSE registry.artifacts_dir
<1>1. run[p].base \in 0..MaxVersions /\ pub[p].epoch \in EpochOrNone
  BY DEF TypeOK, PortTypeOK, PublisherState
<1>2. CASE run[p].kind = "analyze"
  BY <1>1, <1>2 DEF Registered
<1>3. CASE run[p].kind # "analyze"
  <2>1. PICK b, e : b = run[p].base /\ e = pub[p].epoch
    OBVIOUS
  <2>2. PICK f : f = [registry EXCEPT !.latest = b]
    OBVIOUS
  <2>3. /\ f \in [artifacts_dir : 0..MaxVersions, latest : 0..MaxVersions, epoch : EpochOrNone]
        /\ f.latest = b /\ f.artifacts_dir = registry.artifacts_dir
    BY <1>1, <2>1, <2>2 DEF TypeOK
  <2>4. PICK g : g = [f EXCEPT !.epoch = e]
    OBVIOUS
  <2>5. /\ g \in [artifacts_dir : 0..MaxVersions, latest : 0..MaxVersions, epoch : EpochOrNone]
        /\ g.latest = b /\ g.artifacts_dir = registry.artifacts_dir /\ g.epoch = e
    BY <1>1, <2>1, <2>3, <2>4
  <2>6. Registered(p) = g
    BY <1>3, <2>1, <2>2, <2>4, Zenon DEF Registered
  <2> QED BY <1>3, <2>1, <2>5, <2>6
<1> QED BY <1>2, <1>3

LEMMA RunsTypeStep ==
  ASSUME TypeOK, Ind, Steps, [Next]_vars
  PROVE  RunsTypeOK'
<1> RunsTypeOK
  BY TypeOKIs
<1> USE DEF RunsTypeOK
<1>0. \A p \in Publishers : run[p].base \in 0..MaxVersions /\ (Active(p) => run[p].base \in Versions)
  BY DEF RunStates, Steps, Versions
<1>1. ASSUME NEW p \in Publishers, StartAnalyze(p) PROVE RunsTypeOK'
  <2>1. PICK v \in present \union ({emitted + 1} \cap Versions) :
          /\ present' = present \union {v} /\ newest' = v
          /\ partial' = partial \union {v}
          /\ emitted' = IF v > emitted THEN v ELSE emitted
          /\ Start(p, "analyze", "emitting", v)
    BY <1>1 DEF StartAnalyze
  <2>2. v \in Versions /\ v \in 0..MaxVersions
    BY <2>1 DEF Versions
  <2> QED BY <1>1, <2>1, <2>2, StartTypes DEF StartAnalyze, graphs
<1>2. ASSUME NEW p \in Publishers, FinishEmit(p) PROVE RunsTypeOK'
  BY <1>2, GoTypes DEF FinishEmit, graphs
<1>3. ASSUME NEW p \in Publishers, ReuseArtifacts(p) \/ StartDiscover(p) PROVE RunsTypeOK'
  <2>1. newest \in Versions
    BY <1>3 DEF ReuseArtifacts, StartDiscover, LatestFound
  <2>2. PICK kind \in {"analyze", "discover"} : Start(p, kind, "emitted", newest)
    BY <1>3 DEF ReuseArtifacts, StartDiscover
  <2> QED BY <1>3, <2>1, <2>2, StartTypes DEF ReuseArtifacts, StartDiscover, disk, graphs
<1>4. ASSUME NEW p \in Publishers, SkipLoad(p) \/ PublishFails(p) \/ RegisterFails(p) \/ Die(p) PROVE RunsTypeOK'
  <2>1. PICK how \in SUBSET {"unpublished", "death"} : End(p, how)
    BY <1>4 DEF SkipLoad, PublishFails, RegisterFails, Die
  <2> QED BY <1>4, <2>1, EndTypes DEF SkipLoad, PublishFails, RegisterFails, Die, disk, graphs
<1>5. ASSUME NEW p \in Publishers, StartPublish(p) PROVE RunsTypeOK'
  BY <1>5, GoTypes DEF StartPublish, disk, graphs
<1>6. ASSUME NEW p \in Publishers, LoadGraph(p) PROVE RunsTypeOK'
  <2>1. pub[p].epoch \in Epochs
    BY <1>6 DEF LoadGraph, FinishLoad, Ind, PortTypeOK, EpochsOwned, Loading
  <2>2. /\ content' = [content EXCEPT ![pub[p].epoch] = run[p].base]
        /\ truncated' \in {truncated, truncated \union {pub[p].epoch}}
    BY <1>6 DEF LoadGraph
  <2> QED BY <1>0, <1>6, <2>1, <2>2 DEF LoadGraph, disk
<1>7. ASSUME NEW p \in Publishers, Publish(p) PROVE RunsTypeOK'
  BY <1>7 DEF Publish, disk, graphs
<1>8. ASSUME NEW p \in Publishers, Register(p) PROVE RunsTypeOK'
  BY <1>8, GoTypes, RegisteredType DEF Register, disk, graphs
<1>9. ASSUME NEW p \in Publishers, Prune(p) PROVE RunsTypeOK'
  <2>1. End(p, {})
    BY <1>9 DEF Prune
  <2>2. /\ present' \subseteq Versions
        /\ IF present' = {} THEN newest' = 0 ELSE newest' \in present'
    <3>1. CASE KeepOnly(run[p].base)
      BY <3>1 DEF KeepOnly, OnDisk
    <3>2. CASE UNCHANGED <<present, newest>>
      BY <3>2
    <3> QED BY <1>9, <3>1, <3>2 DEF Prune
  <2> QED BY <1>9, <2>1, <2>2, EndTypes DEF Prune, graphs
<1>10. ASSUME NEW r \in Readers, ResolveGraph(r) PROVE RunsTypeOK'
  <2>1. current.epoch \in EpochOrNone
    BY DEF TypeOK, PortTypeOK, Pointer
  <2> QED BY <1>10, <2>1 DEF ResolveGraph, disk, graphs
<1>11. ASSUME NEW r \in Readers, ResolveCorpus(r) PROVE RunsTypeOK'
  <2>1. newest \in 0..MaxVersions
    BY <1>11 DEF ResolveCorpus, LatestFound, Versions
  <2> QED BY <1>11, <2>1 DEF ResolveCorpus, disk, graphs
<1>12. ASSUME NEW r \in Readers, Answer(r) PROVE RunsTypeOK'
  BY <1>12 DEF Answer, NoRequest, EpochOrNone, disk, graphs
<1>13. CASE UNCHANGED vars
  BY <1>13 DEF vars, disk, graphs
<1> QED BY <1>1, <1>2, <1>3, <1>4, <1>5, <1>6, <1>7, <1>8, <1>9, <1>10, <1>11, <1>12, <1>13 DEF Next

-----------------------------------------------------------------------------
(* Steps and contents                                                      *)

\* What each kind of step of the run of p does to its step and to the store.
Began(p, step) ==
  /\ run[p].step = "idle" /\ run'[p].step = step /\ run'[p].base \in Versions /\ UNCHANGED portVars

LEMMA StartMoves ==
  ASSUME TypeOK, NEW p \in Publishers, StartAnalyze(p) \/ ReuseArtifacts(p) \/ StartDiscover(p)
  PROVE  /\ Began(p, "emitting") \/ Began(p, "emitted")
         /\ \A q \in Publishers : q # p => run'[q] = run[q]
         /\ UNCHANGED <<content, truncated, registry, request>>
         /\ newest' = run'[p].base /\ newest' \in present' /\ present \subseteq present'
         /\ mishaps' = IF \A q \in Publishers : At(q, "idle") THEN mishaps ELSE mishaps \union {"overlap"}
         /\ \/ partial' = partial
            \/ run'[p].step = "emitting" /\ partial' = partial \union {run'[p].base}
<1> RunsTypeOK
  BY TypeOKIs
<1>1. CASE StartAnalyze(p)
  <2>1. PICK v \in present \union ({emitted + 1} \cap Versions) :
          /\ present' = present \union {v} /\ newest' = v
          /\ partial' = partial \union {v}
          /\ Start(p, "analyze", "emitting", v)
    BY <1>1 DEF StartAnalyze
  <2>2. v \in Versions
    BY <2>1 DEF RunsTypeOK
  <2> QED BY <1>1, <2>1, <2>2, StartTypes DEF StartAnalyze, Start, Began, At, graphs
<1>2. CASE ReuseArtifacts(p) \/ StartDiscover(p)
  <2>1. PICK kind \in {"analyze", "discover"} : Start(p, kind, "emitted", newest)
    BY <1>2 DEF ReuseArtifacts, StartDiscover
  <2>2. newest \in Versions /\ newest \in present
    BY <1>2 DEF ReuseArtifacts, StartDiscover, LatestFound, RunsTypeOK
  <2> QED BY <1>2, <2>1, <2>2, StartTypes DEF ReuseArtifacts, StartDiscover, Start, Began, At, disk, graphs
<1> QED BY <1>1, <1>2

LEMMA EndMoves ==
  ASSUME TypeOK, Steps, NEW p \in Publishers, SkipLoad(p) \/ PublishFails(p) \/ RegisterFails(p) \/ Die(p)
  PROVE  /\ run'[p].step = "idle" /\ pub'[p].pc = "idle" /\ Kept
         /\ \A q \in Publishers : q # p => run'[q] = run[q] /\ pub'[q] = pub[q]
         /\ UNCHANGED <<disk, graphs, registry, request>>
         /\ mishaps' = mishaps \union {"unpublished"} \/ mishaps' = mishaps \union {"death"}
         /\ run[p].step = "emitting" => mishaps' = mishaps \union {"death"}
<1> PortTypeOK
  BY TypeOKIs
<1>1. CASE SkipLoad(p)
  <2>1. pub[p].pc = "idle" /\ pub' = pub
    BY <1>1 DEF SkipLoad, At, Steps, portVars
  <2> QED BY <1>1, <2>1, EndTypes DEF SkipLoad, At, Kept, portVars
<1>2. CASE PublishFails(p)
  <2>1. CasRefused(p) \/ Abort(p)
    BY <1>2 DEF PublishFails
  <2> QED BY <1>2, <2>1, EndTypes, Moves DEF PublishFails, At, Moved
<1>3. CASE RegisterFails(p)
  BY <1>3, EndTypes, Moves DEF RegisterFails, At, Moved
<1>4. CASE Die(p)
  <2>1. CASE pub[p].pc = "idle"
    BY <1>4, <2>1, EndTypes DEF Die, Kept, portVars
  <2>2. CASE Abort(p) \/ Finish(p)
    BY <1>4, <2>2, EndTypes, Moves DEF Die, Moved
  <2> QED BY <1>4, <2>1, <2>2 DEF Die
<1> QED BY <1>1, <1>2, <1>3, <1>4

LEMMA PruneMoves ==
  ASSUME TypeOK, NEW p \in Publishers, Prune(p)
  PROVE  /\ run[p].step = "registered" /\ run'[p].step = "idle"
         /\ Moved(p, "published", "idle") /\ Kept
         /\ \A q \in Publishers : q # p => run'[q] = run[q]
         /\ UNCHANGED <<partial, content, truncated, registry, request, mishaps>>
         /\ \/ KeepOnly(run[p].base) /\ run[p].kind = "analyze"
            \/ UNCHANGED <<present, newest>> /\ run[p].kind # "analyze"
<1>1. PortTypeOK /\ End(p, {}) /\ {} \in SUBSET {"unpublished", "death"}
  BY TypeOKIs DEF Prune
<1>2. mishaps' = mishaps
  BY <1>1, EndTypes
<1> QED BY <1>1, <1>2, EndTypes, Moves DEF Prune, At, graphs

LEMMA FinishEmitMoves ==
  ASSUME TypeOK, NEW p \in Publishers, FinishEmit(p)
  PROVE  /\ run[p].step = "emitting" /\ run'[p].step = "emitted" /\ run'[p].base = run[p].base
         /\ run'[p].kind = run[p].kind /\ \A q \in Publishers : q # p => run'[q] = run[q]
         /\ partial' = partial \ {run[p].base}
         /\ UNCHANGED <<portVars, present, newest, graphs, registry, request, mishaps>>
BY GoTypes DEF FinishEmit, At

LEMMA StartPublishMoves ==
  ASSUME TypeOK, NEW p \in Publishers, StartPublish(p)
  PROVE  /\ run[p].step = "emitted" /\ run'[p].step = "publishing" /\ run'[p].base = run[p].base
         /\ run'[p].kind = run[p].kind /\ \A q \in Publishers : q # p => run'[q] = run[q]
         /\ Moved(p, "idle", "read") /\ Kept
         /\ UNCHANGED <<disk, graphs, registry, request, mishaps>>
BY GoTypes, Moves, TypeOKIs DEF StartPublish, At

LEMMA LoadGraphMoves ==
  ASSUME TypeOK, Ind, NEW p \in Publishers, LoadGraph(p)
  PROVE  /\ run[p].step = "publishing" /\ run' = run /\ OnDisk(run[p].base)
         /\ Moved(p, "loading", "loaded") /\ Kept /\ pub'[p].epoch = pub[p].epoch
         /\ pub[p].epoch \in Epochs /\ committedBy[pub[p].epoch] = 0
         /\ content'[pub[p].epoch] = run[p].base
         /\ \A e \in Epochs : e # pub[p].epoch => content'[e] = content[e]
         /\ run[p].base \notin partial => truncated' = truncated
         /\ UNCHANGED <<disk, registry, request, mishaps>>
<1>1. pub[p].epoch \in Epochs /\ committedBy[pub[p].epoch] = 0
  BY DEF LoadGraph, FinishLoad, Ind, PortTypeOK, EpochsOwned, Loading
<1>2. content' = [content EXCEPT ![pub[p].epoch] = run[p].base] /\ content \in [Epochs -> 0..MaxVersions]
  BY DEF LoadGraph, TypeOK
<1>3. FinishLoad(p)
  BY DEF LoadGraph
<1> QED BY <1>1, <1>2, <1>3, Moves, TypeOKIs DEF LoadGraph, At

LEMMA PublishMoves ==
  ASSUME TypeOK, NEW p \in Publishers, Publish(p)
  PROVE  /\ run[p].step = "publishing"
         /\ UNCHANGED <<disk, graphs, registry, run, request, mishaps>>
         /\ \/ CasPublish(p)
            \/ Kept /\ (Moved(p, "read", "allocated") \/ Moved(p, "allocated", "loading"))
            \/ Kept /\ Moved(p, "committed", "published") /\ pub'[p].epoch = pub[p].epoch
BY Moves, TypeOKIs DEF Publish, At

LEMMA RegisterMoves ==
  ASSUME TypeOK, NEW p \in Publishers, Register(p)
  PROVE  /\ run[p].step = "publishing" /\ run'[p].step = "registered" /\ run'[p].base = run[p].base
         /\ run'[p].kind = run[p].kind /\ \A q \in Publishers : q # p => run'[q] = run[q]
         /\ pub[p].pc = "published" /\ registry' = Registered(p)
         /\ UNCHANGED <<portVars, disk, graphs, request, mishaps>>
BY GoTypes DEF Register, At

\* Requests.
LEMMA RequestMoves ==
  ASSUME TypeOK, NEW r \in Readers, ResolveGraph(r) \/ ResolveCorpus(r) \/ Answer(r)
  PROVE  /\ UNCHANGED <<portVars, disk, graphs, registry, run, mishaps>>
         /\ \A s \in Readers : s # r => request'[s] = request[s]
         /\ \/ /\ registry.epoch # None /\ request'[r].step = "graph" /\ request'[r].epoch = current.epoch
            \/ /\ request[r].step = "graph" /\ request'[r].step = "done"
               /\ request'[r].epoch = request[r].epoch /\ request'[r].corpus = newest
            \/ request'[r].step = "none" /\ request'[r].epoch = None
<1>1. request \in [Readers -> [step : {"none", "graph", "done"}, epoch : EpochOrNone, corpus : 0..MaxVersions]]
  BY DEF TypeOK
<1>2. CASE ResolveGraph(r)
  BY <1>1, <1>2 DEF ResolveGraph
<1>3. CASE ResolveCorpus(r)
  BY <1>1, <1>3 DEF ResolveCorpus
<1>4. CASE Answer(r)
  BY <1>1, <1>4 DEF Answer, NoRequest
<1> QED BY <1>2, <1>3, <1>4

\* The steps of Next, in the groups of these lemmas.
LEMMA Kinds ==
  ASSUME [Next]_vars
  PROVE  \/ \E p \in Publishers :
              \/ StartAnalyze(p) \/ ReuseArtifacts(p) \/ StartDiscover(p)
              \/ FinishEmit(p) \/ StartPublish(p) \/ LoadGraph(p) \/ Publish(p) \/ Register(p) \/ Prune(p)
              \/ SkipLoad(p) \/ PublishFails(p) \/ RegisterFails(p) \/ Die(p)
         \/ \E r \in Readers : ResolveGraph(r) \/ ResolveCorpus(r) \/ Answer(r)
         \/ UNCHANGED vars
BY DEF Next

LEMMA StepsStep ==
  ASSUME TypeOK, Ind, Steps, [Next]_vars
  PROVE  Steps'
<1> USE DEF Active, At
<1>1. ASSUME NEW p \in Publishers, StartAnalyze(p) \/ ReuseArtifacts(p) \/ StartDiscover(p) PROVE Steps'
  BY <1>1, StartMoves DEF Steps, Began, Versions, portVars
<1>2. ASSUME NEW p \in Publishers, SkipLoad(p) \/ PublishFails(p) \/ RegisterFails(p) \/ Die(p) PROVE Steps'
  BY <1>2, EndMoves DEF Steps
<1>3. ASSUME NEW p \in Publishers, Prune(p) PROVE Steps'
  BY <1>3, PruneMoves DEF Steps, Moved
<1>4. ASSUME NEW p \in Publishers, FinishEmit(p) PROVE Steps'
  BY <1>4, FinishEmitMoves DEF Steps, portVars
<1>5. ASSUME NEW p \in Publishers, StartPublish(p) PROVE Steps'
  BY <1>5, StartPublishMoves DEF Steps, Moved
<1>6. ASSUME NEW p \in Publishers, LoadGraph(p) PROVE Steps'
  BY <1>6, LoadGraphMoves DEF Steps, Moved
<1>7. ASSUME NEW p \in Publishers, Publish(p) PROVE Steps'
  BY <1>7, PublishMoves, CommitMoves DEF Steps, Moved
<1>8. ASSUME NEW p \in Publishers, Register(p) PROVE Steps'
  BY <1>8, RegisterMoves DEF Steps, portVars
<1>9. ASSUME NEW r \in Readers, ResolveGraph(r) \/ ResolveCorpus(r) \/ Answer(r) PROVE Steps'
  BY <1>9, RequestMoves DEF Steps, portVars
<1>10. CASE UNCHANGED vars
  BY <1>10 DEF vars, portVars, Steps
<1> QED BY <1>1, <1>2, <1>3, <1>4, <1>5, <1>6, <1>7, <1>8, <1>9, <1>10, Kinds

LEMMA ContentsStep ==
  ASSUME TypeOK, Ind, Steps, Contents, [Next]_vars
  PROVE  Contents'
<1> USE DEF Filled, Told
<1>0. \A r \in Readers : request[r].epoch \in EpochOrNone
  BY DEF TypeOK
<1>1. ASSUME NEW p \in Publishers, StartAnalyze(p) \/ ReuseArtifacts(p) \/ StartDiscover(p) PROVE Contents'
  BY <1>1, StartMoves DEF Contents, Began, portVars
<1>2. ASSUME NEW p \in Publishers, SkipLoad(p) \/ PublishFails(p) \/ RegisterFails(p) \/ Die(p) PROVE Contents'
  BY <1>2, EndMoves DEF Contents, Kept, graphs
<1>3. ASSUME NEW p \in Publishers, Prune(p) PROVE Contents'
  BY <1>3, PruneMoves DEF Contents, Moved, Kept
<1>4. ASSUME NEW p \in Publishers, FinishEmit(p) PROVE Contents'
  BY <1>4, FinishEmitMoves DEF Contents, portVars, graphs
<1>5. ASSUME NEW p \in Publishers, StartPublish(p) PROVE Contents'
  BY <1>5, StartPublishMoves DEF Contents, Moved, Kept, graphs
<1>6. ASSUME NEW p \in Publishers, LoadGraph(p) PROVE Contents'
  <2>1. run[p].base # 0
    BY <1>6, LoadGraphMoves DEF Steps, Active, At
  <2>2. /\ Moved(p, "loading", "loaded") /\ Kept /\ pub'[p].epoch = pub[p].epoch /\ pub[p].epoch \in Epochs
        /\ content'[pub[p].epoch] # 0 /\ \A e \in Epochs : e # pub[p].epoch => content'[e] = content[e]
        /\ registry' = registry /\ request' = request
    BY <1>6, <2>1, LoadGraphMoves
  <2>3. \A q \in Publishers : pub'[q].pc \in {"loaded", "committed", "published"} =>
           pub'[q].epoch \in Epochs /\ content'[pub'[q].epoch] # 0
    BY <2>2 DEF Contents, Moved
  <2>4. \A q \in Publishers : pub'[q].pc \in {"committed", "published"} => committedBy'[pub'[q].epoch] # 0
    BY <2>2 DEF Contents, Moved, Kept
  <2> QED BY <2>2, <2>3, <2>4 DEF Contents, Kept
<1>7. ASSUME NEW p \in Publishers, Publish(p) PROVE Contents'
  <2>1. CASE CasPublish(p)
    <3>1. /\ Moved(p, "loaded", "committed") /\ pub'[p].epoch = pub[p].epoch /\ pub[p].epoch \in Epochs
          /\ committedBy'[pub[p].epoch] # 0
          /\ \A e \in Epochs : e # pub[p].epoch => committedBy'[e] = committedBy[e]
          /\ UNCHANGED <<content, registry, request>>
      BY <1>7, <2>1, CommitMoves, PublishMoves DEF graphs
    <3>2. \A q \in Publishers : pub'[q].pc \in {"loaded", "committed", "published"} =>
             pub'[q].epoch \in Epochs /\ content'[pub'[q].epoch] # 0
      BY <3>1 DEF Contents, Moved
    <3>3. \A q \in Publishers : pub'[q].pc \in {"committed", "published"} => committedBy'[pub'[q].epoch] # 0
      BY <3>1 DEF Contents, Moved
    <3>4. \A r \in Readers : request[r].epoch # None => committedBy'[request[r].epoch] # 0
      BY <1>0, <3>1 DEF Contents, EpochOrNone
    <3> QED BY <3>1, <3>2, <3>3, <3>4 DEF Contents
  <2>2. CASE Kept /\ (Moved(p, "read", "allocated") \/ Moved(p, "allocated", "loading"))
    BY <1>7, <2>2, PublishMoves DEF Contents, Moved, Kept, graphs
  <2>3. CASE Kept /\ Moved(p, "committed", "published") /\ pub'[p].epoch = pub[p].epoch
    BY <1>7, <2>3, PublishMoves DEF Contents, Moved, Kept, graphs
  <2> QED BY <1>7, <2>1, <2>2, <2>3, PublishMoves
<1>8. ASSUME NEW p \in Publishers, Register(p) PROVE Contents'
  <2>1. pub[p].epoch \in Epochs
    BY <1>8, RegisterMoves DEF Contents
  <2>2. registry'.epoch # None
    BY <1>8, <2>1, RegisterMoves, RegisteredType
  <2> QED BY <1>8, <2>2, RegisterMoves DEF Contents, portVars, graphs
<1>9. ASSUME NEW r \in Readers, ResolveGraph(r) \/ ResolveCorpus(r) \/ Answer(r) PROVE Contents'
  <2>1. current.epoch # None => committedBy[current.epoch] # 0
    BY DEF Ind, CurrentIsHead
  <2> QED BY <1>9, <2>1, RequestMoves DEF Contents, portVars, graphs
<1>10. CASE UNCHANGED vars
  BY <1>10 DEF vars, portVars, graphs, Contents
<1> QED BY <1>1, <1>2, <1>3, <1>4, <1>5, <1>6, <1>7, <1>8, <1>9, <1>10, Kinds

-----------------------------------------------------------------------------
(* A run that is alone                                                     *)

\* The published graph and the registered version stay on disk.
Stays ==
  /\ current.epoch # None => OnDisk(content[current.epoch])
  /\ registry.artifacts_dir # 0 => OnDisk(registry.artifacts_dir)

LEMMA AloneStep ==
  ASSUME TypeOK, Ind, Steps, Contents, Alone, PublishedArtifactsKept, [Next]_vars
  PROVE  Alone' /\ PublishedArtifactsKept'
<1> USE DEF Filled, Told, Active, At
<1> SUFFICES ASSUME OneAtATime'
             PROVE  /\ (\A p, q \in Publishers : Active(p) /\ Active(q) => p = q)'
                    /\ (\A p \in Publishers : RunAlone(p))' /\ Stays'
  BY DEF Alone, PublishedArtifactsKept, Stays
<1> DEFINE One == \A p, q \in Publishers : Active(p) /\ Active(q) => p = q
           All == \A p \in Publishers : RunAlone(p)
<1>0. ASSUME OneAtATime PROVE One /\ All /\ Stays
  BY <1>0 DEF Alone, PublishedArtifactsKept, Stays
<1>h. current.epoch \in EpochOrNone /\ (current.epoch # None => committedBy[current.epoch] # 0)
  BY DEF Ind, CurrentIsHead, PortTypeOK, Pointer
<1>1. ASSUME NEW p \in Publishers, StartAnalyze(p) \/ ReuseArtifacts(p) \/ StartDiscover(p)
      PROVE  One' /\ All' /\ Stays'
  <2>1. /\ Began(p, "emitting") \/ Began(p, "emitted")
        /\ \A q \in Publishers : q # p => run'[q] = run[q]
        /\ UNCHANGED <<content, registry>> /\ newest' = run'[p].base /\ newest' \in present'
        /\ present \subseteq present'
        /\ mishaps' = IF \A q \in Publishers : At(q, "idle") THEN mishaps ELSE mishaps \union {"overlap"}
    BY <1>1, StartMoves
  <2>2. OneAtATime /\ \A q \in Publishers : At(q, "idle")
    BY <2>1 DEF OneAtATime
  <2>3. One'
    BY <2>1, <2>2
  <2>4. \A q \in Publishers : pub'[q].pc = "idle"
    BY <2>1, <2>2 DEF Steps, Began, portVars
  <2>5. All'
    BY <2>1, <2>2, <2>4 DEF RunAlone, OnDisk, Began
  <2>6. Stays'
    BY <1>0, <2>1, <2>2 DEF Stays, OnDisk, Began, portVars
  <2> QED BY <2>3, <2>5, <2>6
<1>2. ASSUME NEW p \in Publishers, SkipLoad(p) \/ PublishFails(p) \/ RegisterFails(p) \/ Die(p)
      PROVE  One' /\ All' /\ Stays'
  <2>1. OneAtATime
    BY <1>2, EndMoves DEF OneAtATime
  <2> QED BY <1>0, <1>2, <2>1, EndMoves DEF RunAlone, Stays, OnDisk, Kept, disk, graphs
<1>3. ASSUME NEW p \in Publishers, Prune(p) PROVE One' /\ All' /\ Stays'
  <2>1. OneAtATime
    BY <1>3, PruneMoves DEF OneAtATime
  <2>2. \A q \in Publishers : q # p => ~Active(q) /\ pub[q].pc = "idle"
    BY <1>0, <1>3, <2>1, PruneMoves DEF Steps
  <2>3. One' /\ All'
    BY <1>3, <2>2, PruneMoves DEF RunAlone, Moved
  <2>4. /\ OnDisk(run[p].base) /\ current.epoch = pub[p].epoch /\ content[pub[p].epoch] = run[p].base
        /\ run[p].kind = "analyze" => registry.artifacts_dir = run[p].base
    BY <1>0, <1>3, <2>1, PruneMoves DEF RunAlone, Moved
  <2>5. Stays'
    BY <1>0, <1>3, <2>1, <2>4, PruneMoves DEF Stays, OnDisk, KeepOnly, Kept
  <2> QED BY <2>3, <2>5
<1>4. ASSUME NEW p \in Publishers, FinishEmit(p) PROVE One' /\ All' /\ Stays'
  BY <1>0, <1>4, FinishEmitMoves DEF RunAlone, Stays, OnDisk, portVars, graphs, OneAtATime
<1>5. ASSUME NEW p \in Publishers, StartPublish(p) PROVE One' /\ All' /\ Stays'
  BY <1>0, <1>5, StartPublishMoves DEF RunAlone, Stays, OnDisk, disk, graphs, Kept, Moved, OneAtATime
<1>6. ASSUME NEW p \in Publishers, LoadGraph(p) PROVE One' /\ All' /\ Stays'
  <2>1. OneAtATime
    BY <1>6, LoadGraphMoves DEF OneAtATime
  <2>2. \A q \in Publishers : q # p => ~Active(q) /\ pub[q].pc = "idle"
    BY <1>0, <1>6, <2>1, LoadGraphMoves DEF Steps
  <2>3. /\ run' = run /\ Moved(p, "loading", "loaded") /\ Kept /\ pub'[p].epoch = pub[p].epoch
        /\ content'[pub[p].epoch] = run[p].base /\ registry' = registry /\ present' = present
        /\ \A e \in Epochs : e # pub[p].epoch => content'[e] = content[e]
        /\ committedBy[pub[p].epoch] = 0 /\ run[p].step = "publishing"
    BY <1>6, LoadGraphMoves DEF disk
  <2>4. One' /\ All'
    BY <1>0, <2>1, <2>2, <2>3 DEF RunAlone, Moved, OnDisk
  <2>5. current.epoch # None => content'[current.epoch] = content[current.epoch]
    BY <1>h, <2>3 DEF EpochOrNone
  <2>6. Stays'
    BY <1>0, <2>1, <2>3, <2>5 DEF Stays, OnDisk, Kept
  <2> QED BY <2>4, <2>6
<1>7. ASSUME NEW p \in Publishers, Publish(p) PROVE One' /\ All' /\ Stays'
  <2>1. OneAtATime /\ UNCHANGED <<disk, graphs, registry, run>> /\ run[p].step = "publishing"
    BY <1>7, PublishMoves DEF OneAtATime
  <2>2. \A q \in Publishers : q # p => ~Active(q) /\ pub[q].pc = "idle"
    BY <1>0, <2>1 DEF Steps
  <2>3. One'
    BY <1>0, <2>1
  <2>4. CASE CasPublish(p)
    <3>1. /\ Moved(p, "loaded", "committed") /\ pub'[p].epoch = pub[p].epoch
          /\ current'.epoch = pub[p].epoch
      BY <2>4, CommitMoves
    <3>2. OnDisk(run[p].base) /\ content[pub[p].epoch] = run[p].base
      BY <1>0, <2>1, <3>1 DEF RunAlone, Moved
    <3>3. All'
      BY <2>1, <2>2, <3>1, <3>2 DEF RunAlone, Moved, OnDisk, disk, graphs
    <3>4. Stays'
      BY <1>0, <2>1, <3>1, <3>2 DEF Stays, OnDisk, disk, graphs
    <3> QED BY <2>3, <3>3, <3>4
  <2>5. CASE Kept /\ (Moved(p, "read", "allocated") \/ Moved(p, "allocated", "loading"))
    BY <1>0, <2>1, <2>3, <2>5 DEF RunAlone, Stays, OnDisk, Moved, Kept, disk, graphs
  <2>6. CASE Kept /\ Moved(p, "committed", "published") /\ pub'[p].epoch = pub[p].epoch
    BY <1>0, <2>1, <2>3, <2>6 DEF RunAlone, Stays, OnDisk, Moved, Kept, disk, graphs
  <2> QED BY <1>7, <2>4, <2>5, <2>6, PublishMoves
<1>8. ASSUME NEW p \in Publishers, Register(p) PROVE One' /\ All' /\ Stays'
  <2>1. OneAtATime
    BY <1>8, RegisterMoves DEF OneAtATime
  <2>2. registry'.artifacts_dir = IF run[p].kind = "analyze" THEN run[p].base ELSE registry.artifacts_dir
    BY <1>8, RegisterMoves, RegisteredType
  <2>3. \A q \in Publishers : q # p => ~Active(q) /\ pub[q].pc = "idle"
    BY <1>0, <1>8, <2>1, RegisterMoves DEF Steps
  <2>4. RunAlone(p) /\ One
    BY <1>0, <2>1
  <2>5. One' /\ All'
    BY <1>8, <2>2, <2>3, <2>4, RegisterMoves DEF RunAlone, OnDisk, portVars, disk, graphs
  <2>6. Stays'
    BY <1>0, <1>8, <2>1, <2>2, <2>4, RegisterMoves DEF Stays, RunAlone, OnDisk, portVars, disk, graphs
  <2> QED BY <2>5, <2>6
<1>9. ASSUME NEW r \in Readers, ResolveGraph(r) \/ ResolveCorpus(r) \/ Answer(r) PROVE One' /\ All' /\ Stays'
  BY <1>0, <1>9, RequestMoves DEF RunAlone, Stays, OnDisk, OneAtATime, portVars, disk, graphs
<1>10. CASE UNCHANGED vars
  BY <1>0, <1>10 DEF vars, RunAlone, Stays, OnDisk, OneAtATime, portVars, disk, graphs
<1> QED BY <1>1, <1>2, <1>3, <1>4, <1>5, <1>6, <1>7, <1>8, <1>9, <1>10, Kinds

-----------------------------------------------------------------------------
(* Whole artifacts                                                         *)

LEMMA WholeStep ==
  ASSUME TypeOK, Ind, Steps, Alone, Whole, [Next]_vars
  PROVE  Whole'
<1> USE DEF Active, At
<1> SUFFICES ASSUME OneAtATime', "death" \notin mishaps'
             PROVE  truncated' = {} /\ \A v \in partial' : \E p \in Publishers : At(p, "emitting")' /\ run'[p].base = v
  BY DEF Whole
<1> DEFINE Emitting(v) == \E p \in Publishers : At(p, "emitting")' /\ run'[p].base = v
<1>0. ASSUME OneAtATime, "death" \notin mishaps
      PROVE  /\ truncated = {} /\ \A v \in partial : \E p \in Publishers : At(p, "emitting") /\ run[p].base = v
             /\ \A p, q \in Publishers : Active(p) /\ Active(q) => p = q
  BY <1>0 DEF Whole, Alone
<1>1. ASSUME NEW p \in Publishers, StartAnalyze(p) \/ ReuseArtifacts(p) \/ StartDiscover(p)
      PROVE  truncated' = {} /\ \A v \in partial' : Emitting(v)
  <2>1. /\ mishaps' = IF \A q \in Publishers : At(q, "idle") THEN mishaps ELSE mishaps \union {"overlap"}
        /\ truncated' = truncated
        /\ \/ partial' = partial
           \/ run'[p].step = "emitting" /\ partial' = partial \union {run'[p].base}
    BY <1>1, StartMoves
  <2>2. OneAtATime /\ "death" \notin mishaps /\ \A q \in Publishers : At(q, "idle")
    BY <2>1 DEF OneAtATime
  <2>3. partial = {} /\ truncated = {}
    BY <1>0, <2>2
  <2> QED BY <2>1, <2>3
<1>2. ASSUME NEW p \in Publishers, SkipLoad(p) \/ PublishFails(p) \/ RegisterFails(p) \/ Die(p)
      PROVE  truncated' = {} /\ \A v \in partial' : Emitting(v)
  <2>1. /\ OneAtATime /\ "death" \notin mishaps /\ run[p].step # "emitting"
        /\ partial' = partial /\ truncated' = truncated
        /\ \A q \in Publishers : q # p => run'[q] = run[q]
    BY <1>2, EndMoves DEF OneAtATime, disk, graphs
  <2> QED BY <1>0, <2>1
<1>3. ASSUME NEW p \in Publishers, Prune(p)
      PROVE  truncated' = {} /\ \A v \in partial' : Emitting(v)
  BY <1>0, <1>3, PruneMoves DEF OneAtATime
<1>4. ASSUME NEW p \in Publishers, FinishEmit(p)
      PROVE  truncated' = {} /\ \A v \in partial' : Emitting(v)
  <2>1. /\ OneAtATime /\ "death" \notin mishaps /\ run[p].step = "emitting" /\ truncated' = truncated
        /\ partial' = partial \ {run[p].base}
    BY <1>4, FinishEmitMoves DEF OneAtATime, graphs
  <2>2. truncated = {} /\ \A v \in partial : v = run[p].base
    BY <1>0, <2>1
  <2> QED BY <2>1, <2>2
<1>5. ASSUME NEW p \in Publishers, StartPublish(p)
      PROVE  truncated' = {} /\ \A v \in partial' : Emitting(v)
  BY <1>0, <1>5, StartPublishMoves DEF OneAtATime, disk, graphs
<1>6. ASSUME NEW p \in Publishers, LoadGraph(p)
      PROVE  truncated' = {} /\ \A v \in partial' : Emitting(v)
  <2>1. /\ OneAtATime /\ "death" \notin mishaps /\ run[p].step = "publishing"
        /\ partial' = partial /\ run' = run /\ (run[p].base \notin partial => truncated' = truncated)
    BY <1>6, LoadGraphMoves DEF OneAtATime, disk
  <2>2. partial = {} /\ truncated = {}
    BY <1>0, <2>1
  <2> QED BY <2>1, <2>2
<1>7. ASSUME NEW p \in Publishers, Publish(p)
      PROVE  truncated' = {} /\ \A v \in partial' : Emitting(v)
  BY <1>0, <1>7, PublishMoves DEF OneAtATime, disk, graphs
<1>8. ASSUME NEW p \in Publishers, Register(p)
      PROVE  truncated' = {} /\ \A v \in partial' : Emitting(v)
  BY <1>0, <1>8, RegisterMoves DEF OneAtATime, disk, graphs
<1>9. ASSUME NEW r \in Readers, ResolveGraph(r) \/ ResolveCorpus(r) \/ Answer(r)
      PROVE  truncated' = {} /\ \A v \in partial' : Emitting(v)
  BY <1>0, <1>9, RequestMoves DEF OneAtATime, disk, graphs
<1>10. CASE UNCHANGED vars
  BY <1>0, <1>10 DEF vars, OneAtATime, disk, graphs
<1> QED BY <1>1, <1>2, <1>3, <1>4, <1>5, <1>6, <1>7, <1>8, <1>9, <1>10, Kinds

-----------------------------------------------------------------------------
(* One version everywhere                                                  *)

\* The conjuncts of InStep.
InStepParts ==
  /\ (\A p \in Publishers : ~Committing(p)) =>
       /\ registry.epoch = current.epoch
       /\ registry.epoch # None => content[current.epoch] = registry.latest
  /\ \A p \in Publishers : Active(p) => newest = run[p].base
  /\ NoRunUnderWay /\ registry.epoch # None => registry.latest = newest
  /\ (\A p \in Publishers : ~Ahead(p)) =>
       \A r \in Readers :
         request[r].step = "done" /\ request[r].epoch = current.epoch =>
           request[r].corpus = content[current.epoch]

LEMMA InStepStep ==
  ASSUME TypeOK, Ind, Steps, Contents, Alone, InStep, [Next]_vars
  PROVE  InStep'
<1> USE DEF Active, At, Told, Committing, Ahead, NoRunUnderWay
<1> SUFFICES ASSUME Undisturbed' PROVE InStepParts'
  BY DEF InStep, InStepParts
<1>0. ASSUME Undisturbed
      PROVE  /\ InStepParts /\ \A p \in Publishers : RunAlone(p)
             /\ \A p, q \in Publishers : Active(p) /\ Active(q) => p = q
  BY <1>0 DEF InStep, InStepParts, Alone, Undisturbed, OneAtATime
<1>1. ASSUME NEW p \in Publishers, StartAnalyze(p) \/ ReuseArtifacts(p) \/ StartDiscover(p) PROVE InStepParts'
  <2>1. /\ Began(p, "emitting") \/ Began(p, "emitted")
        /\ \A q \in Publishers : q # p => run'[q] = run[q]
        /\ UNCHANGED <<content, registry, request>> /\ newest' = run'[p].base
        /\ mishaps' = IF \A q \in Publishers : At(q, "idle") THEN mishaps ELSE mishaps \union {"overlap"}
    BY <1>1, StartMoves
  <2>2. Undisturbed /\ \A q \in Publishers : At(q, "idle")
    BY <2>1 DEF Undisturbed
  <2>3. /\ UNCHANGED <<pub, current>> /\ pub[p].pc = "idle" /\ run'[p].step \in {"emitting", "emitted"}
    BY <2>1, <2>2 DEF Steps, Began, portVars
  <2> QED BY <1>0, <2>1, <2>2, <2>3 DEF InStepParts
<1>2. ASSUME NEW p \in Publishers, SkipLoad(p) \/ PublishFails(p) \/ RegisterFails(p) \/ Die(p) PROVE FALSE
  BY <1>2, EndMoves DEF Undisturbed
<1>3. ASSUME NEW p \in Publishers, Prune(p) PROVE InStepParts'
  <2>1. /\ Undisturbed /\ run[p].step = "registered" /\ run'[p].step = "idle" /\ pub[p].pc = "published"
        /\ pub'[p].pc = "idle" /\ \A q \in Publishers : q # p => run'[q] = run[q] /\ pub'[q] = pub[q]
        /\ UNCHANGED <<content, registry, request, current>>
    BY <1>3, PruneMoves DEF Undisturbed, Moved, Kept
  <2>2. \A q \in Publishers : q # p => run[q].step = "idle"
    BY <1>0, <2>1
  <2>3. newest = run[p].base /\ OnDisk(run[p].base) /\ content[pub[p].epoch] = run[p].base /\ current.epoch = pub[p].epoch
    BY <1>0, <2>1 DEF InStepParts, RunAlone, Filled
  <2>4. newest' = newest
    BY <1>3, <2>3, PruneMoves DEF KeepOnly
  <2>5. /\ registry.epoch = current.epoch
        /\ registry.epoch # None => content[current.epoch] = registry.latest
    BY <1>0, <2>1, <2>2 DEF InStepParts
  <2>6. \A q \in Publishers : ~Ahead(q)
    BY <2>1, <2>2
  <2> QED BY <1>0, <2>1, <2>2, <2>3, <2>4, <2>5, <2>6 DEF InStepParts
<1>4. ASSUME NEW p \in Publishers, FinishEmit(p) PROVE InStepParts'
  <2>1. /\ Undisturbed /\ run[p].step = "emitting" /\ run'[p].step = "emitted" /\ run'[p].base = run[p].base
        /\ \A q \in Publishers : q # p => run'[q] = run[q]
        /\ UNCHANGED <<pub, current, content, registry, request, newest>>
    BY <1>4, FinishEmitMoves DEF Undisturbed, portVars, graphs
  <2>2. pub[p].pc = "idle"
    BY <2>1 DEF Steps
  <2> QED BY <1>0, <2>1, <2>2 DEF InStepParts
<1>5. ASSUME NEW p \in Publishers, StartPublish(p) PROVE InStepParts'
  <2>1. /\ Undisturbed /\ run[p].step = "emitted" /\ run'[p].step = "publishing" /\ run'[p].base = run[p].base
        /\ \A q \in Publishers : q # p => run'[q] = run[q] /\ pub'[q] = pub[q]
        /\ UNCHANGED <<current, content, registry, request, newest>>
        /\ pub[p].pc = "idle" /\ pub'[p].pc = "read"
    BY <1>5, StartPublishMoves DEF Undisturbed, Moved, Kept, graphs, disk
  <2> QED BY <1>0, <2>1 DEF InStepParts
<1>6. ASSUME NEW p \in Publishers, LoadGraph(p) PROVE InStepParts'
  <2>1. /\ Undisturbed /\ run[p].step = "publishing" /\ run' = run
        /\ \A q \in Publishers : q # p => pub'[q] = pub[q]
        /\ UNCHANGED <<current, registry, request, newest>>
        /\ pub[p].pc = "loading" /\ pub'[p].pc = "loaded" /\ pub[p].epoch \in Epochs
        /\ committedBy[pub[p].epoch] = 0
        /\ \A e \in Epochs : e # pub[p].epoch => content'[e] = content[e]
    BY <1>6, LoadGraphMoves DEF Undisturbed, Moved, Kept, disk
  <2>2. current.epoch # None => content'[current.epoch] = content[current.epoch]
    BY <2>1 DEF Ind, CurrentIsHead, PortTypeOK, Pointer, EpochOrNone
  <2>3. (\A q \in Publishers : ~Committing(q)) /\ (\A q \in Publishers : ~Committing(q))'
    BY <1>0, <2>1 DEF Steps
  <2> QED BY <1>0, <2>1, <2>2, <2>3 DEF InStepParts
<1>7. ASSUME NEW p \in Publishers, Publish(p) PROVE InStepParts'
  <2>1. /\ Undisturbed /\ run[p].step = "publishing" /\ run' = run
        /\ UNCHANGED <<content, registry, request, newest>>
    BY <1>7, PublishMoves DEF Undisturbed, disk, graphs
  <2>2. \A q \in Publishers : q # p => run[q].step = "idle" /\ pub[q].pc = "idle"
    BY <1>0, <2>1 DEF Steps
  <2>3. CASE CasPublish(p)
    <3>1. /\ pub[p].pc = "loaded" /\ pub'[p].pc = "committed" /\ pub'[p].epoch = pub[p].epoch
          /\ committedBy[pub[p].epoch] = 0 /\ current'.epoch = pub[p].epoch /\ pub[p].epoch \in Epochs
      BY <2>3, CommitMoves DEF Moved
    <3>2. \A r \in Readers : request[r].epoch # pub[p].epoch
      BY <3>1 DEF Contents
    <3> QED BY <1>0, <2>1, <2>2, <3>1, <3>2 DEF InStepParts
  <2>4. CASE Kept /\ (Moved(p, "read", "allocated") \/ Moved(p, "allocated", "loading"))
    BY <1>0, <2>1, <2>4 DEF InStepParts, Moved, Kept
  <2>5. CASE Kept /\ Moved(p, "committed", "published") /\ pub'[p].epoch = pub[p].epoch
    BY <1>0, <2>1, <2>5 DEF InStepParts, Moved, Kept
  <2> QED BY <1>7, <2>3, <2>4, <2>5, PublishMoves
<1>8. ASSUME NEW p \in Publishers, Register(p) PROVE InStepParts'
  <2>1. /\ Undisturbed /\ run[p].step = "publishing" /\ run'[p].step = "registered" /\ run'[p].base = run[p].base
        /\ \A q \in Publishers : q # p => run'[q] = run[q]
        /\ UNCHANGED <<pub, current, content, request, newest>>
        /\ pub[p].pc = "published"
    BY <1>8, RegisterMoves DEF Undisturbed, portVars, disk, graphs
  <2>2. registry'.epoch = pub[p].epoch /\ registry'.latest = run[p].base
    BY <1>8, RegisterMoves, RegisteredType
  <2>3. newest = run[p].base /\ content[pub[p].epoch] = run[p].base /\ current.epoch = pub[p].epoch
    BY <1>0, <2>1 DEF InStepParts, RunAlone, Filled
  <2> QED BY <1>0, <2>1, <2>2, <2>3 DEF InStepParts
<1>9. ASSUME NEW r \in Readers, ResolveGraph(r) \/ ResolveCorpus(r) \/ Answer(r) PROVE InStepParts'
  <2>1. Undisturbed /\ UNCHANGED <<pub, current, content, registry, run, newest>>
    BY <1>9, RequestMoves DEF Undisturbed, portVars, disk, graphs
  <2>2. \A s \in Readers : s # r => request'[s] = request[s]
    BY <1>9, RequestMoves
  <2>3. CASE request'[r].step # "done"
    BY <1>0, <2>1, <2>2, <2>3 DEF InStepParts
  <2>4. CASE request[r].step = "graph" /\ request'[r].corpus = newest
    <3>1. registry.epoch # None
      BY <2>4 DEF Contents
    <3>2. ASSUME \A p \in Publishers : ~Ahead(p) PROVE newest = content[current.epoch]
      <4>1. CASE NoRunUnderWay
        BY <1>0, <2>1, <3>1, <4>1 DEF InStepParts
      <4>2. CASE ~NoRunUnderWay
        <5>1. PICK p \in Publishers : run[p].step # "idle" /\ Told(p)
          BY <3>2, <4>2
        <5> QED BY <1>0, <2>1, <5>1 DEF InStepParts, RunAlone, Filled
      <4> QED BY <4>1, <4>2
    <3> QED BY <1>0, <2>1, <2>2, <2>4, <3>2 DEF InStepParts
  <2> QED BY <1>9, <2>3, <2>4, RequestMoves
<1>10. CASE UNCHANGED vars
  BY <1>0, <1>10 DEF vars, InStepParts, Undisturbed, portVars, disk, graphs
<1> QED BY <1>1, <1>2, <1>3, <1>4, <1>5, <1>6, <1>7, <1>8, <1>9, <1>10, Kinds

-----------------------------------------------------------------------------
(* The theorems about the runs                                             *)

LEMMA PipelineStart == Init => PipelineInd
<1> SUFFICES ASSUME Init PROVE PipelineInd
  OBVIOUS
<1>1. PortTypeOK
  BY InitInd DEF Init, Ind
<1>2. RunsTypeOK
  <2>1. 0 \in 0..MaxVersions
    OBVIOUS
  <2>2. IdleRun \in RunStates
    BY <2>1 DEF IdleRun, RunStates
  <2>3. NoRequest \in [step : {"none", "graph", "done"}, epoch : EpochOrNone, corpus : 0..MaxVersions]
    BY <2>1 DEF NoRequest, EpochOrNone
  <2> QED BY <2>1, <2>2, <2>3 DEF Init, RunsTypeOK, EpochOrNone
<1>3. /\ \A p \in Publishers : pub[p].pc = "idle" /\ run[p].step = "idle"
      /\ \A r \in Readers : request[r].step = "none" /\ request[r].epoch = None
      /\ current.epoch = None /\ registry.epoch = None /\ registry.artifacts_dir = 0
      /\ truncated = {} /\ partial = {}
  BY DEF Init, PortInit, Idle, IdleRun, NoRequest, NoPointer
<1> QED BY <1>1, <1>2, <1>3, TypeOKIs
        DEF PipelineInd, Steps, Contents, Alone, RunAlone, Whole, InStep, PublishedArtifactsKept, Active, At,
            Filled, Told, Committing, Ahead

LEMMA PipelineStep == Ind /\ Ind' /\ PipelineInd /\ [Next]_vars => PipelineInd'
<1> SUFFICES ASSUME Ind, Ind', PipelineInd, [Next]_vars PROVE PipelineInd'
  OBVIOUS
<1> TypeOK /\ Steps /\ Contents /\ Alone /\ Whole /\ InStep /\ PublishedArtifactsKept
  BY DEF PipelineInd
<1>1. TypeOK'
  <2>1. PortTypeOK'
    BY DEF Ind
  <2>2. RunsTypeOK'
    BY RunsTypeStep
  <2> QED BY <2>1, <2>2, TypeOKIs DEF TypeOK, RunsTypeOK, RunStates
<1>2. Steps' /\ Contents' /\ Alone' /\ PublishedArtifactsKept' /\ Whole' /\ InStep'
  BY StepsStep, ContentsStep, AloneStep, WholeStep, InStepStep
<1> QED BY <1>1, <1>2 DEF PipelineInd

LEMMA PipelineAlways == Spec => [](Ind /\ PipelineInd)
<1>1. Spec => []Ind
  BY PipelineIsPort, IndInvariant, PTL
<1> QED BY <1>1, PipelineStart, PipelineStep, PTL DEF Spec

\* The runs publish through the atomic store and nothing else: whatever they
\* do, what the store promises of its history holds of theirs.
THEOREM PipelineImplementsPort == Spec => PortSpec /\ []OneChain
BY PipelineIsPort, PortOneChain, PTL

\* With one run at a time the artifacts behind the published graph and behind
\* the registry entry stay on disk, whatever runs fail, stop short or die.
THEOREM PipelineCorrect == Spec => []PipelineInv
<1>1. PipelineInd => PipelineInv
  BY DEF PipelineInd, PipelineInv
<1> QED BY <1>1, PipelineAlways, PTL

\* With one run at a time and none dying, no graph is published from a
\* directory whose files were not completely written.
THEOREM WholeGraphsPublished == Spec => []PublishedGraphIsWhole
<1>1. PipelineInd => PublishedGraphIsWhole
  BY DEF PipelineInd, PublishedGraphIsWhole, Whole
<1> QED BY <1>1, PipelineAlways, PTL

\* After any sequence of runs that published one by one, pointer, registry,
\* graph and newest artifacts agree, and so do the two reads of a request.
THEOREM VersionsAgree == Spec => []OneVersionEverywhere
<1>1. PipelineInd => OneVersionEverywhere
  <2> SUFFICES ASSUME PipelineInd, Undisturbed, NoRunUnderWay, registry.epoch # None
               PROVE  /\ registry.epoch = current.epoch /\ registry.latest = newest
                      /\ content[current.epoch] = newest
                      /\ \A r \in Readers :
                           request[r].step = "done" /\ request[r].epoch = current.epoch =>
                             request[r].corpus = content[current.epoch]
    BY DEF OneVersionEverywhere
  <2> QED BY DEF PipelineInd, InStep, NoRunUnderWay, Committing, Ahead, Active, At
<1> QED BY <1>1, PipelineAlways, PTL

\* The registry only ever comes to show a committed epoch with a graph made of
\* artifacts, and with one run at a time never an older one.
THEOREM RegistryMirrors == Spec => RegistryMirrorsPublication
<1>1. /\ Ind /\ PipelineInd /\ [Next]_vars
      => [registry' # registry =>
           /\ committedBy[registry'.epoch] # 0
           /\ content[registry'.epoch] # 0
           /\ OneAtATime /\ registry.epoch # None =>
                committedBy[registry.epoch] <= committedBy[registry'.epoch]]_vars
  <2> SUFFICES ASSUME Ind, PipelineInd, [Next]_vars, registry' # registry
               PROVE  /\ committedBy[registry'.epoch] # 0
                      /\ content[registry'.epoch] # 0
                      /\ OneAtATime /\ registry.epoch # None =>
                           committedBy[registry.epoch] <= committedBy[registry'.epoch]
    OBVIOUS
  <2> TypeOK /\ Steps /\ Contents /\ Alone
    BY DEF PipelineInd
  <2>1. PICK p \in Publishers : Register(p)
    <3>1. ASSUME NEW p \in Publishers, ~Register(p),
                 \/ StartAnalyze(p) \/ ReuseArtifacts(p) \/ StartDiscover(p)
                 \/ FinishEmit(p) \/ StartPublish(p) \/ LoadGraph(p) \/ Publish(p) \/ Prune(p)
                 \/ SkipLoad(p) \/ PublishFails(p) \/ RegisterFails(p) \/ Die(p)
          PROVE  registry' = registry
      BY <3>1, StartMoves, EndMoves, PruneMoves, FinishEmitMoves, StartPublishMoves, LoadGraphMoves, PublishMoves
    <3>2. ASSUME NEW r \in Readers, ResolveGraph(r) \/ ResolveCorpus(r) \/ Answer(r)
          PROVE  registry' = registry
      BY <3>2, RequestMoves
    <3>3. UNCHANGED vars => registry' = registry
      BY DEF vars
    <3> QED BY <3>1, <3>2, <3>3, Kinds
  <2>2. pub[p].pc = "published" /\ registry'.epoch = pub[p].epoch /\ run[p].step = "publishing"
    BY <2>1, RegisterMoves, RegisteredType
  <2>3. committedBy[pub[p].epoch] # 0 /\ content[pub[p].epoch] # 0
    BY <2>2 DEF Contents, Told, Filled
  <2>4. ASSUME OneAtATime, registry.epoch # None
        PROVE  committedBy[registry.epoch] <= committedBy[pub[p].epoch]
    <3>1. current.epoch = pub[p].epoch
      BY <2>2, <2>4 DEF Alone, RunAlone, Told
    <3>2. registry.epoch \in Epochs /\ pub[p].epoch \in Epochs
      BY <2>2, <2>4 DEF TypeOK, EpochOrNone, Contents, Filled
    <3>3. committedBy[registry.epoch] \in Nat /\ committedBy[pub[p].epoch] \in Nat
      BY <3>2 DEF Ind, PortTypeOK
    <3>4. committedBy[pub[p].epoch] = current.token
      BY <3>1, <3>2 DEF Ind, CurrentIsHead
    <3>5. CASE committedBy[registry.epoch] # 0
      BY <3>2, <3>4, <3>5 DEF Ind, CurrentIsHead, Committed
    <3>6. CASE committedBy[registry.epoch] = 0
      BY <3>3, <3>6
    <3> QED BY <3>5, <3>6
  <2> QED BY <2>2, <2>3, <2>4
<1> QED BY <1>1, PipelineAlways, PTL DEF Spec, RegistryMirrorsPublication
=============================================================================
