----------------------------- MODULE GateProofs -----------------------------
(***************************************************************************)
(* Proofs about module Gate: what the operators on chains and journals     *)
(* return, types, mutual exclusion of the session mutex, and at most one   *)
(* effect per operation.                                                   *)
(***************************************************************************)
EXTENDS GateProperties, TLAPS

-----------------------------------------------------------------------------
(* Chains.                                                                 *)

\* The chain of SessionChainState::genesis is a chain.
LEMMA GenesisChainType == GenesisChain \in ChainState
  BY DEF GenesisChain, ChainState, Unseen, Genesis, NoTime, Time

\* begin_scope returns a chain that has the scope active.
LEMMA BeginScopeType ==
  ASSUME NEW c \in ChainState, NEW s \in Scopes
  PROVE  BeginScope(c, s) \in ChainState /\ BeginScope(c, s).active = s
  BY DEF BeginScope, ChainState, Time

\* record_cp returns a chain.
LEMMA RecordCpType ==
  ASSUME NEW c \in ChainState, NEW h \in Nat, NEW n \in Nat, NEW t \in Nat
  PROVE  RecordCp(c, h, n, t) \in ChainState
  BY DEF RecordCp, ChainState, Time

\* mark_degraded returns a chain.
LEMMA MarkDegradedType ==
  ASSUME NEW c \in ChainState, NEW S \in SUBSET Scopes
  PROVE  MarkDegraded(c, S) \in ChainState
  BY DEF MarkDegraded, ChainState

-----------------------------------------------------------------------------
(* Journals.                                                               *)

\* A new journal is a journal.
LEMMA EmptyJournalType == EmptyJournal \in Replay
  BY GenesisChainType DEF EmptyJournal, Replay, OpStates

\* A record about an operation keeps the type and touches only that operation.
LEMMA OperationRecords ==
  ASSUME NEW d \in Replay, NEW k \in Keys, NEW s \in OpStates
  PROVE  /\ WithIntent(d, k) \in Replay
         /\ WithOutcome(d, k, s) \in Replay
         /\ WithReview(d, k) \in Replay
  BY DEF WithIntent, WithOutcome, WithReview, Replay, OpStates

\* A publication marker keeps the type.
LEMMA MarkerType ==
  ASSUME NEW d \in Replay, NEW t \in Nat
  PROVE  WithPublishing(d, t) \in Replay /\ WithAborted(d, t) \in Replay
  BY DEF WithPublishing, WithAborted, Replay

\* A sever keeps the type.
LEMMA SeverType ==
  ASSUME NEW d \in Replay, NEW S \in SUBSET Scopes
  PROVE  WithSever(d, S) \in Replay
<1>1. d.chain \in ChainState
  BY DEF Replay
<1>2. MarkDegraded(d.chain, S) \in ChainState
  BY <1>1, MarkDegradedType
<1> QED
  BY <1>2 DEF WithSever, Replay

\* A torn tail keeps the type: what was read before is still there.
LEMMA TornType ==
  ASSUME NEW d \in Replay
  PROVE  Torn(d) \in Replay
  BY DEF Torn, Replay

\* A checkpoint keeps the type, whether or not it extends the replay.
LEMMA CheckpointType ==
  ASSUME NEW d \in Replay, NEW t \in Nat,
         NEW caller \in Callers \cup {NoCaller}, NEW c \in Cp
  PROVE  WithCheckpoint(d, t, caller, c) \in Replay
<1> DEFINE e == IF Extends(d, caller, c) THEN Replayed(d, caller, c)
                ELSE [d EXCEPT !.ok = FALSE]
<1>1. c.id \in Nat /\ c.nonce \in Nat /\ c.at \in Nat
      /\ c.scope \in Scopes \cup {NoScope}
  BY DEF Cp
<1>2. d.chain \in ChainState
  BY DEF Replay
<1>3. Replayed(d, caller, c) \in Replay
  <2>1. CASE c.scope = NoScope
    <3>1. [d.chain EXCEPT !.head = c.id] \in ChainState
      BY <1>1, <1>2 DEF ChainState
    <3> QED
      BY <2>1, <3>1 DEF Replayed, Replay
  <2>2. CASE c.scope # NoScope
    <3>1. c.scope \in Scopes
      BY <1>1, <2>2
    <3>2. RecordCp(BeginScope(d.chain, c.scope), c.id, c.nonce, c.at) \in ChainState
      BY <1>1, <1>2, <3>1, BeginScopeType, RecordCpType
    <3> QED
      BY <2>2, <3>1, <3>2 DEF Replayed, Replay
  <2> QED
    BY <2>1, <2>2
<1>4. [d EXCEPT !.ok = FALSE] \in Replay
  BY DEF Replay
<1>5. e \in Replay
  BY <1>3, <1>4
<1>6. [e EXCEPT !.known = @ \cup {c.id}, !.pending = @ \ {t}] \in Replay
  <2> HIDE DEF e
  <2> QED BY <1>1, <1>5 DEF Replay
<1> QED
  BY <1>6 DEF WithCheckpoint

-----------------------------------------------------------------------------
(* No record takes an intent back: the file only grows.                    *)

Remembers(d, e) == \A k \in Keys : d.ops[k] # "none" => e.ops[k] # "none"

\* Every record but an intent leaves the operations that exist in existence.
LEMMA OperationsRemembered ==
  ASSUME NEW d \in Replay, NEW k \in Keys, NEW s \in OpStates \ {"none"}
  PROVE  /\ Remembers(d, WithIntent(d, k))
         /\ Remembers(d, WithOutcome(d, k, s))
         /\ Remembers(d, WithReview(d, k))
  BY DEF Remembers, WithIntent, WithOutcome, WithReview, Replay

\* The other records do not touch operations at all.
LEMMA OperationsUntouched ==
  ASSUME NEW d \in Replay, NEW t, NEW S, NEW caller, NEW c
  PROVE  /\ WithPublishing(d, t).ops = d.ops
         /\ WithAborted(d, t).ops = d.ops
         /\ WithSever(d, S).ops = d.ops
         /\ Torn(d).ops = d.ops
         /\ WithCheckpoint(d, t, caller, c).ops = d.ops
<1>1. Replayed(d, caller, c).ops = d.ops
  BY DEF Replayed, Replay
<1> QED
  BY <1>1 DEF WithPublishing, WithAborted, WithSever, Torn, WithCheckpoint, Replay

\* An intent makes its own operation exist.
LEMMA IntentExists ==
  ASSUME NEW d \in Replay, NEW k \in Keys
  PROVE  WithIntent(d, k).ops[k] = "reserved"
  BY DEF WithIntent, Replay
-----------------------------------------------------------------------------
(* What every record leaves standing.                                      *)

\* No later record takes back a sever, a checkpoint hash, the owner of a scope
\* that replays, an error of a replay or a torn tail.
Grows(d, e) ==
  /\ d.chain.degraded \subseteq e.chain.degraded
  /\ d.known \subseteq e.known
  /\ e.ok => d.ok
  /\ d.torn => e.torn
  /\ \A s \in Scopes : e.ok /\ d.owner[s] # NoCaller => e.owner[s] = d.owner[s]

\* Growing is transitive.
LEMMA GrowsOn ==
  ASSUME NEW d, NEW e, NEW f, Grows(d, e), Grows(e, f)
  PROVE  Grows(d, f)
  BY DEF Grows

\* Records that are not checkpoints let a journal grow.
LEMMA PlainRecordsGrow ==
  ASSUME NEW d \in Replay
  PROVE  /\ Grows(d, d) /\ Grows(d, Torn(d))
         /\ \A k, s : Grows(d, WithOutcome(d, k, s))
         /\ \A k : Grows(d, WithIntent(d, k)) /\ Grows(d, WithReview(d, k))
         /\ \A t : Grows(d, WithPublishing(d, t)) /\ Grows(d, WithAborted(d, t))
         /\ \A S : Grows(d, WithSever(d, S))
<1>1. d.chain \in ChainState
  BY DEF Replay
<1>2. \A S : d.chain.degraded \subseteq MarkDegraded(d.chain, S).degraded
  BY <1>1 DEF MarkDegraded, ChainState
<1> QED
  BY <1>2 DEF Grows, Torn, WithOutcome, WithIntent, WithReview, WithPublishing,
              WithAborted, WithSever, Replay

\* What a checkpoint record does to each part of a replay.
Checkpointed(d, e, t, caller, c) ==
  /\ e.known = d.known \cup {c.id}
  /\ e.pending = d.pending \ {t}
  /\ e.torn = d.torn
  /\ e.ok <=> d.ok /\ Extends(d, caller, c)
  /\ e.chain.degraded = d.chain.degraded
  /\ IF Extends(d, caller, c)
     THEN IF c.scope = NoScope
          THEN e.chain = [d.chain EXCEPT !.head = c.id] /\ e.owner = d.owner
          ELSE /\ e.chain = RecordCp(BeginScope(d.chain, c.scope), c.id, c.nonce, c.at)
               /\ e.chain.head = c.id
               /\ e.owner = [d.owner EXCEPT ![c.scope] =
                               IF caller = NoCaller THEN @ ELSE caller]
     ELSE e.chain = d.chain /\ e.owner = d.owner

LEMMA CheckpointParts ==
  ASSUME NEW d \in Replay, NEW t, NEW caller, NEW c \in Cp
  PROVE  Checkpointed(d, WithCheckpoint(d, t, caller, c), t, caller, c)
<1>1. d.chain \in ChainState
  BY DEF Replay
<1>2. RecordCp(BeginScope(d.chain, c.scope), c.id, c.nonce, c.at).degraded
        = d.chain.degraded
  BY <1>1 DEF RecordCp, BeginScope, ChainState
<1>3. RecordCp(BeginScope(d.chain, c.scope), c.id, c.nonce, c.at).head = c.id
  BY <1>1 DEF RecordCp, BeginScope, ChainState
<1>4. CASE Extends(d, caller, c)
  BY <1>1, <1>2, <1>3, <1>4 DEF Checkpointed, WithCheckpoint, Replayed, Replay, ChainState
<1>5. CASE ~Extends(d, caller, c)
  BY <1>1, <1>5 DEF Checkpointed, WithCheckpoint, Replay
<1> QED
  BY <1>4, <1>5

\* A checkpoint lets a journal grow, whether or not it extends it.
LEMMA CheckpointGrows ==
  ASSUME NEW d \in Replay, NEW t, NEW caller, NEW c \in Cp
  PROVE  Grows(d, WithCheckpoint(d, t, caller, c))
<1> DEFINE e == WithCheckpoint(d, t, caller, c)
<1>0. Checkpointed(d, e, t, caller, c)
  BY CheckpointParts
<1> HIDE DEF e
<1>1. /\ d.chain.degraded \subseteq e.chain.degraded
      /\ d.known \subseteq e.known /\ (e.ok => d.ok) /\ (d.torn => e.torn)
  BY <1>0 DEF Checkpointed
<1>2. ASSUME NEW s \in Scopes, e.ok, d.owner[s] # NoCaller
      PROVE  e.owner[s] = d.owner[s]
  <2>1. Extends(d, caller, c)
    BY <1>0, <1>2 DEF Checkpointed
  <2>2. CASE c.scope = NoScope
    BY <1>0, <2>1, <2>2 DEF Checkpointed
  <2>3. CASE c.scope # NoScope
    <3>1. e.owner = [d.owner EXCEPT ![c.scope] =
                       IF caller = NoCaller THEN @ ELSE caller]
      BY <1>0, <2>1, <2>3 DEF Checkpointed
    <3>2. caller # NoCaller => d.owner[c.scope] \in {caller, NoCaller}
      BY <2>1, <2>3 DEF Extends
    <3>3. d.owner \in [Scopes -> Callers \cup {NoCaller}]
      BY DEF Replay
    <3> QED
      BY <1>2, <3>1, <3>2, <3>3
  <2> QED
    BY <2>2, <2>3
<1>3. Grows(d, e)
  BY <1>1, <1>2 DEF Grows
<1> QED
  BY <1>3 DEF e

-----------------------------------------------------------------------------
(* Types of what the actions compute.                                      *)

\* Keys of writes with an operation id are keys.
LEMMA KeyType ==
  ASSUME TypeOK, NEW r \in Requests
  PROVE  /\ call[r].caller \in Callers /\ Scope(r) \in Scopes
         /\ call[r].op # NoOp => Key(r) \in Keys
  BY CallsAssumption DEF TypeOK, Key, Keys, Scope

\* What a fetch answers are scopes.
LEMMA AnswersType ==
  ASSUME TypeOK, NEW r \in Requests, NEW S \in Answers(r)
  PROVE  S \in SUBSET Scopes
  BY DEF TypeOK, Answers

\* An intended record makes a journal.
LEMMA IntendedType ==
  ASSUME TypeOK, NEW r \in Requests, NEW e \in Intended(r)
  PROVE  e \in Replay
<1>0. disk \in Replay /\ cp[r] \in Cp /\ lastId \in Nat
  BY DEF TypeOK
<1>1. CASE pc[r] = "reserving"
  <2>1. e = WithIntent(disk, Key(r)) /\ call[r].op # NoOp
    BY <1>1 DEF Intended, CanReserve
  <2> QED
    BY <1>0, <2>1, KeyType, OperationRecords DEF OpStates
<1>2. CASE pc[r] = "opening"
  <2>1. e = WithPublishing(disk, lastId + 1)
    BY <1>2 DEF Intended
  <2> QED
    BY <1>0, <2>1, MarkerType
<1>3. CASE pc[r] = "publishing"
  <2>1. e = WithAborted(disk, cp[r].id)
    BY <1>3 DEF Intended
  <2> QED
    BY <1>0, <2>1, MarkerType DEF Cp
<1>4. CASE pc[r] = "published"
  <2>1. e = WithCheckpoint(disk, cp[r].id, call[r].caller, cp[r])
    BY <1>4 DEF Intended
  <2> QED
    BY <1>0, <2>1, KeyType, CheckpointType DEF Cp
<1>5. CASE pc[r] = "alerted"
  <2>1. e = WithSever(disk, {Scope(r)})
    BY <1>5 DEF Intended
  <2> QED
    BY <1>0, <2>1, KeyType, SeverType
<1>6. CASE pc[r] = "calling"
  <2>1. PICK s \in Outcomes(r) : e = WithOutcome(disk, Key(r), s) /\ Key(r) \in Keys
    BY <1>6 DEF Intended, Unresolved
  <2>2. s \in OpStates
    BY DEF Outcomes, OpStates
  <2> QED
    BY <1>0, <2>1, <2>2, OperationRecords
<1>7. CASE pc[r] \notin {"reserving", "opening", "publishing", "published",
                         "alerted", "calling"}
  BY <1>7 DEF Intended
<1> QED
  BY <1>1, <1>2, <1>3, <1>4, <1>5, <1>6, <1>7

\* Whatever a failed append leaves behind is a journal.
LEMMA RemainsType ==
  ASSUME NEW d \in Replay, NEW e \in Replay, NEW f \in Remains(d, e)
  PROVE  f \in Replay
  BY TornType DEF Remains

-----------------------------------------------------------------------------
(* The type invariant.                                                     *)

LEMMA TypeInit == Init => TypeOK
  BY GenesisChainType, EmptyJournalType, RequestsAssumption
     DEF Init, TypeOK, NoEvents, NoCp, Cp, Genesis, PCs, Locked, Terminal

\* Startup keeps the types.
LEMMA TypeStartup == TypeOK /\ Startup => TypeOK'
<1> SUFFICES ASSUME TypeOK, Startup PROVE TypeOK'
  OBVIOUS
<1> USE DEF env, proc, mem, job, up, hist
<1>1. CASE Start
  BY <1>1 DEF TypeOK, Start
<1>2. CASE Serve
  BY <1>2 DEF TypeOK, Serve, NoEvents, Replay, ChainState
<1>3. CASE \E c \in fetched.cps : ImportCheckpoint(c)
  <2>1. PICK c \in fetched.cps : ImportCheckpoint(c)
    BY <1>3
  <2>2. c \in Cp /\ disk \in Replay
    BY DEF TypeOK
  <2>3. WithCheckpoint(disk, Genesis, NoCaller, c) \in Replay
    BY <2>2, CheckpointType DEF Genesis
  <2> QED
    BY <2>1, <2>3 DEF TypeOK, ImportCheckpoint, NoEvents
<1>4. CASE \E s \in Scopes : ImportSever(s)
  <2>1. PICK s \in Scopes : ImportSever(s)
    BY <1>4
  <2>2. WithSever(disk, {s}) \in Replay
    BY SeverType DEF TypeOK
  <2> QED
    BY <2>1, <2>2 DEF TypeOK, ImportSever
<1> QED
  BY <1>1, <1>2, <1>3, <1>4 DEF Startup

\* A handler keeps the types.
LEMMA TypeHandler ==
  ASSUME TypeOK, NEW r \in Requests, Handler(r)
  PROVE  TypeOK'
<1> USE DEF env, proc, mem, job, up, hist, Goto, Leave
<1>0. /\ disk \in Replay /\ chain \in ChainState /\ cp[r] \in Cp
      /\ lastId \in Nat /\ now[r] \in Nat /\ parent[r] \in Nat
      /\ Scope(r) \in Scopes /\ call[r].caller \in Callers
  BY KeyType DEF TypeOK
<1>1. CASE TakeMutex(r)
  BY <1>1 DEF TypeOK, TakeMutex, PCs, Locked, Terminal
<1>2. CASE FetchFails(r)
  BY <1>2 DEF TypeOK, FetchFails, PCs, Locked, Terminal
<1>3. CASE Fetched(r)
  <2>1. PICK S \in Answers(r) :
          LET seen  == MarkDegraded(chain, S)
              begun == BeginScope(seen, Scope(r))
          IN  /\ disk' = WithSever(disk, seen.degraded)
              /\ severed' = severed \cup seen.degraded
              /\ chain' \in {seen, begun}
              /\ pc' \in {[pc EXCEPT ![r] = p] : p \in PCs}
              /\ holder' \in {holder, Nobody}
              /\ \/ UNCHANGED cp
                 \/ cp' = [cp EXCEPT ![r] =
                             [id    |-> Genesis,
                              prev  |-> NextParent(begun, parent[r]),
                              scope |-> Scope(r),
                              nonce |-> begun.nonce + 1,
                              at    |-> now[r]]]
    BY <1>3 DEF Fetched, PCs, Locked, Terminal
  <2> DEFINE seen  == MarkDegraded(chain, S)
             begun == BeginScope(seen, Scope(r))
  <2>2. seen \in ChainState /\ seen.degraded \in SUBSET Scopes
    BY <1>0, AnswersType, MarkDegradedType DEF ChainState
  <2>3. begun \in ChainState
    BY <1>0, <2>2, BeginScopeType
  <2>4. WithSever(disk, seen.degraded) \in Replay
    BY <1>0, <2>2, SeverType
  <2>5. NextParent(begun, parent[r]) \in Nat /\ begun.nonce \in Nat
    BY <1>0, <2>3 DEF NextParent, ChainState
  <2>6. cp' \in [Requests -> Cp]
    <3> HIDE DEF seen, begun
    <3> QED BY <1>0, <2>1, <2>5 DEF TypeOK, Cp, Genesis, seen, begun
  <2>7. UNCHANGED <<clock, relay, count, status, fetched, wire, effects, call,
                    parent, until, now, wd, lastId, heard, served>>
    BY <1>3 DEF Fetched
  <2> HIDE DEF seen, begun
  <2>8. disk' \in Replay /\ chain' \in ChainState /\ severed' \subseteq Scopes
    BY <2>1, <2>2, <2>3, <2>4 DEF TypeOK, seen, begun
  <2>9. pc' \in [Requests -> PCs] /\ holder' \in Requests \cup {Nobody, Watchdog}
    BY <2>1 DEF TypeOK
  <2> QED
    BY <2>6, <2>7, <2>8, <2>9 DEF TypeOK
<1>4. CASE AlertLands(r)
  BY <1>0, <1>4 DEF TypeOK, AlertLands, RelaySevers, PCs, Locked, Terminal
<1>5. CASE AlertFails(r)
  BY <1>5 DEF TypeOK, AlertFails, PCs, Locked, Terminal
<1>6. CASE MarkStale(r)
  <2>1. WithSever(disk, {Scope(r)}) \in Replay
        /\ MarkDegraded(chain, {Scope(r)}) \in ChainState
    BY <1>0, SeverType, MarkDegradedType
  <2> QED
    BY <1>0, <1>6, <2>1 DEF TypeOK, MarkStale, PCs, Locked, Terminal
<1>7. CASE Reserve(r)
  <2>1. CanReserve(disk, call[r].caller, call[r].op)
          => WithIntent(disk, Key(r)) \in Replay
    BY <1>0, KeyType, OperationRecords DEF CanReserve, OpStates
  <2> QED
    BY <1>7, <2>1 DEF TypeOK, Reserve, PCs, Locked, Terminal
<1>8. CASE BeginPublication(r)
  <2>1. WithPublishing(disk, lastId + 1) \in Replay
    BY <1>0, MarkerType
  <2>2. cp' \in [Requests -> Cp] /\ lastId' \in Nat
    <3>1. [cp[r] EXCEPT !.id = lastId + 1] \in Cp
      BY <1>0 DEF Cp
    <3>2. cp' = [cp EXCEPT ![r] = [cp[r] EXCEPT !.id = lastId + 1]]
      BY <1>8 DEF BeginPublication
    <3> QED
      BY <1>0, <1>8, <3>1, <3>2 DEF TypeOK, BeginPublication
  <2>3. disk' \in Replay /\ pc' \in [Requests -> PCs]
    BY <1>8, <2>1 DEF TypeOK, BeginPublication, PCs, Locked
  <2>4. UNCHANGED <<clock, relay, count, mem, wire, effects, call, parent, until,
                    now, wd, severed, heard, served>>
    BY <1>8 DEF BeginPublication
  <2> QED
    BY <2>2, <2>3, <2>4 DEF TypeOK
<1>9. CASE RejectLocally(r)
  <2>1. WithAborted(disk, cp[r].id) \in Replay
    BY <1>0, MarkerType DEF Cp
  <2>2. disk' \in Replay /\ chain' \in ChainState
    BY <1>9, <2>1 DEF RejectLocally, Replay
  <2> QED
    BY <1>9, <2>2 DEF TypeOK, RejectLocally, PCs, Locked, Terminal
<1>10. CASE RelayAccepts(r)
  BY <1>0, <1>10 DEF TypeOK, RelayAccepts, RelayCp, PCs, Locked, Terminal
<1>11. CASE PublishFails(r)
  BY <1>11 DEF TypeOK, PublishFails, PCs, Locked, Terminal
<1>12. CASE Checkpoint(r)
  <2>1. cp[r].id \in Nat /\ cp[r].nonce \in Nat
    BY <1>0 DEF Cp
  <2>2. WithCheckpoint(disk, cp[r].id, call[r].caller, cp[r]) \in Replay
    BY <1>0, <2>1, CheckpointType
  <2>3. RecordCp(chain, cp[r].id, cp[r].nonce, now[r]) \in ChainState
    BY <1>0, <2>1, RecordCpType
  <2> QED
    BY <1>12, <2>2, <2>3 DEF TypeOK, Checkpoint, PCs
<1>13. CASE Dispatch(r)
  BY <1>0, <1>13 DEF TypeOK, Dispatch, PCs
<1>14. CASE RefuseRecorded(r)
  BY <1>14 DEF TypeOK, RefuseRecorded, PCs, Terminal
<1>15. CASE Reply(r)
  <2>1. disk' \in Replay
    <3>1. \A s \in Outcomes(r) : s \in OpStates
      BY DEF Outcomes, OpStates
    <3>2. CASE IsWrite(r) /\ Readable(disk) /\ Key(r) \in Unresolved(disk)
      <4>1. PICK s \in Outcomes(r) : disk' = WithOutcome(disk, Key(r), s)
        BY <1>15, <3>2 DEF Reply
      <4>2. Key(r) \in Keys
        BY <3>2 DEF Unresolved
      <4> QED
        BY <1>0, <3>1, <4>1, <4>2, OperationRecords
    <3> QED
      BY <1>0, <1>15, <3>2 DEF Reply
  <2> QED
    BY <1>15, <2>1 DEF TypeOK, Reply, PCs, Terminal
<1> QED
  BY <1>1, <1>2, <1>3, <1>4, <1>5, <1>6, <1>7, <1>8, <1>9, <1>10, <1>11, <1>12,
     <1>13, <1>14, <1>15 DEF Handler

\* Reconciliation keeps the types.
LEMMA TypeReconcile ==
  ASSUME TypeOK, NEW k \in Keys, Reconcile(k)
  PROVE  TypeOK'
<1>1. WithReview(disk, k) \in Replay
  BY OperationRecords DEF TypeOK, OpStates
<1> QED
  BY <1>1 DEF TypeOK, Reconcile, mem, job, up, hist

\* The watchdog keeps the types.
LEMMA TypeWatchdog == TypeOK /\ WatchdogTask => TypeOK'
<1> SUFFICES ASSUME TypeOK, WatchdogTask PROVE TypeOK'
  OBVIOUS
<1> USE DEF env, proc, mem, job, up, hist
<1>1. CASE WdWake
  BY <1>1 DEF TypeOK, WdWake
<1>2. CASE WdCheck
  <2>1. chain.active \in Scopes \cup {NoScope}
    BY DEF TypeOK, ChainState
  <2> QED
    BY <1>2, <2>1 DEF TypeOK, WdCheck
<1>3. CASE WdAlertLands
  BY <1>3 DEF TypeOK, WdAlertLands, RelaySevers
<1>4. CASE WdGivesUp
  BY <1>4 DEF TypeOK, WdGivesUp
<1>5. CASE WdMark
  <2>1. wd.scope \in Scopes
    BY <1>5 DEF TypeOK, WdMark
  <2>2. WithSever(disk, {wd.scope}) \in Replay
        /\ MarkDegraded(chain, {wd.scope}) \in ChainState
    BY <2>1, SeverType, MarkDegradedType DEF TypeOK
  <2> QED
    BY <1>5, <2>1, <2>2 DEF TypeOK, WdMark
<1> QED
  BY <1>1, <1>2, <1>3, <1>4, <1>5 DEF WatchdogTask

\* What happens around the gate keeps the types.
LEMMA TypeEnvironment == TypeOK /\ Environment => TypeOK'
<1> SUFFICES ASSUME TypeOK, Environment PROVE TypeOK'
  OBVIOUS
<1> USE DEF env, proc, mem, job, up, hist, Goto, Leave
<1>0. disk \in Replay /\ chain \in ChainState /\ lastId \in Nat /\ clock \in Nat
  BY DEF TypeOK
<1>1. ASSUME NEW r \in Requests, Arrive(r) PROVE TypeOK'
  <2>1. PICK p \in {Genesis} \cup {c.id : c \in relay.cps}, t \in clock..MaxTime :
          /\ parent' = [parent EXCEPT ![r] = p]
          /\ until' = [until EXCEPT ![r] = t]
    BY <1>1 DEF Arrive
  <2>2. p \in Nat /\ t \in Nat
    BY <1>0, BoundsAssumption DEF TypeOK, Cp, Genesis
  <2> QED
    BY <1>1, <2>1, <2>2 DEF TypeOK, Arrive, PCs
<1>2. ASSUME NEW r \in Requests, HangUp(r) PROVE TypeOK'
  BY <1>2 DEF TypeOK, HangUp, PCs, Terminal
<1>3. ASSUME NEW r \in Requests, DiskFault(r) PROVE TypeOK'
  <2>1. PICK e \in Intended(r) : disk' \in Remains(disk, e)
    BY <1>3 DEF DiskFault
  <2>2. disk' \in Replay
    BY <1>0, <2>1, IntendedType, RemainsType
  <2> QED
    BY <1>0, <1>3, <2>2 DEF TypeOK, DiskFault, PCs, Terminal
<1>4. ASSUME NEW r \in Requests, FetchedFault(r) PROVE TypeOK'
  <2>1. PICK S \in Answers(r) :
          /\ chain' = MarkDegraded(chain, S)
          /\ \E T \in SUBSET MarkDegraded(chain, S).degraded,
                u \in MarkDegraded(chain, S).degraded :
               disk' \in Remains(WithSever(disk, T), WithSever(disk, T \cup {u}))
    BY <1>4 DEF FetchedFault
  <2>2. MarkDegraded(chain, S) \in ChainState
    BY <1>0, AnswersType, MarkDegradedType
  <2>3. PICK T \in SUBSET MarkDegraded(chain, S).degraded,
             u \in MarkDegraded(chain, S).degraded :
          disk' \in Remains(WithSever(disk, T), WithSever(disk, T \cup {u}))
    BY <2>1
  <2>4. T \in SUBSET Scopes /\ T \cup {u} \in SUBSET Scopes
    BY <2>2 DEF ChainState
  <2>5. disk' \in Replay
    BY <1>0, <2>3, <2>4, SeverType, RemainsType
  <2> QED
    BY <1>4, <2>1, <2>2, <2>5 DEF TypeOK, FetchedFault, PCs, Terminal
<1>5. ASSUME NEW r \in Requests, UpstreamRuns(r) PROVE TypeOK'
  <2>1. effects' \in [Keys -> Nat]
    <3>1. CASE Key(r) \in Keys
      BY <1>5, <3>1 DEF TypeOK, UpstreamRuns
    <3>2. CASE Key(r) \notin Keys
      BY <1>5, <3>2 DEF TypeOK, UpstreamRuns
    <3> QED
      BY <3>1, <3>2
  <2> QED
    BY <1>5, <2>1 DEF TypeOK, UpstreamRuns
<1>6. ASSUME NEW r \in Requests, RelayAcceptsLate(r) PROVE TypeOK'
  BY <1>6 DEF TypeOK, RelayAcceptsLate, RelayCp
<1>7. ASSUME NEW s \in Scopes, OperatorSevers(s) PROVE TypeOK'
  BY <1>7 DEF TypeOK, OperatorSevers, RelaySevers
<1>8. ASSUME NEW s \in Scopes, RelayForgets(s) PROVE TypeOK'
  BY <1>8 DEF TypeOK, RelayForgets
<1>9. CASE BackgroundFault
  <2>1. disk' \in Replay
    <3>1. CASE wd.pc = "alerted" /\ disk' \in Remains(disk, WithSever(disk, {wd.scope}))
      <4>1. WithSever(disk, {wd.scope}) \in Replay
        BY <1>0, <3>1, SeverType DEF TypeOK
      <4> QED
        BY <1>0, <3>1, <4>1, RemainsType
    <3>2. CASE \E k \in Unresolved(disk) : disk' \in Remains(disk, WithReview(disk, k))
      <4>1. PICK k \in Unresolved(disk) : disk' \in Remains(disk, WithReview(disk, k))
        BY <3>2
      <4>2. WithReview(disk, k) \in Replay
        BY <1>0, <4>1, OperationRecords DEF Unresolved, OpStates
      <4> QED
        BY <1>0, <4>1, <4>2, RemainsType
    <3> QED
      BY <1>9, <3>1, <3>2 DEF BackgroundFault
  <2>2. /\ wd' \in {wd, [wd EXCEPT !.pc = "asleep"]}
        /\ holder' \in {holder, Nobody}
        /\ count' = [count EXCEPT !.faults = @ + 1]
    BY <1>9 DEF BackgroundFault
  <2>3. UNCHANGED <<clock, relay, proc, chain, up, pc, job, lastId, hist>>
    BY <1>9 DEF BackgroundFault
  <2> QED
    BY <2>1, <2>2, <2>3 DEF TypeOK
<1>10. CASE Crash
  <2>1. disk' \in Replay
    BY <1>0, <1>10, TornType DEF Crash
  <2>2. pc' \in [Requests -> PCs] /\ chain' \in ChainState
    BY <1>10, GenesisChainType DEF TypeOK, Crash, PCs, Terminal
  <2> QED
    BY <1>10, <2>1, <2>2 DEF TypeOK, Crash, NoEvents
<1>11. CASE PublishTest
  <2>1. [NoCp EXCEPT !.id = lastId + 1, !.at = clock] \in Cp
    <3>1. NoCp \in Cp
      BY DEF NoCp, Cp, Genesis
    <3>2. lastId + 1 \in Nat /\ clock \in Nat
      BY <1>0
    <3> QED
      BY <3>1, <3>2 DEF Cp
  <2>2. relay' \in [cps : SUBSET Cp, severs : SUBSET Scopes]
    BY <1>11, <2>1 DEF TypeOK, PublishTest, RelayCp
  <2>3. lastId' \in Nat /\ count' = [count EXCEPT !.probes = @ + 1]
    BY <1>0, <1>11 DEF PublishTest
  <2>4. UNCHANGED <<clock, mem, disk, up, pc, job, wd, hist>>
    BY <1>11 DEF PublishTest
  <2> QED
    BY <2>2, <2>3, <2>4 DEF TypeOK
<1>12. CASE Tick
  BY <1>12 DEF TypeOK, Tick
<1> QED
  BY <1>1, <1>2, <1>3, <1>4, <1>5, <1>6, <1>7, <1>8, <1>9, <1>10, <1>11, <1>12
     DEF Environment

LEMMA TypeStep == TypeOK /\ [Next]_vars => TypeOK'
<1>1. ASSUME TypeOK, UNCHANGED vars PROVE TypeOK'
  BY <1>1 DEF TypeOK, vars
<1> QED
  BY <1>1, TypeStartup, TypeHandler, TypeReconcile, TypeWatchdog, TypeEnvironment
     DEF Next

\* Every variable keeps its type, for any requests, scopes, callers and bounds.
THEOREM TypeCorrect == Spec => []TypeOK
  BY TypeInit, TypeStep, PTL DEF Spec
-----------------------------------------------------------------------------
(* The session mutex excludes.                                             *)

\* The two ways a task that does not take the mutex moves a handler on.
Stays(r) == \E p \in PCs : /\ pc' = [pc EXCEPT ![r] = p]
                           /\ UNCHANGED <<holder, call, wd>>
                           /\ HoldsMutex(r)' => HoldsMutex(r)
Leaves(r) == \E p \in PCs : /\ pc' = [pc EXCEPT ![r] = p]
                            /\ holder' = IF holder = r THEN Nobody ELSE holder
                            /\ UNCHANGED <<call, wd>>
                            /\ ~HoldsMutex(r)'

LEMMA MutexStays ==
  ASSUME TypeOK, MutexOK, NEW r \in Requests, Stays(r)
  PROVE  MutexOK'
  BY DEF TypeOK, MutexOK, Stays, HoldsMutex, IsTool

LEMMA MutexLeaves ==
  ASSUME TypeOK, MutexOK, NEW r \in Requests, Leaves(r)
  PROVE  MutexOK'
<1>1. ASSUME NEW q \in Requests, HoldsMutex(q)' PROVE holder' = q
  <2>1. q # r
    BY <1>1 DEF Leaves
  <2>2. HoldsMutex(q)
    BY <1>1, <2>1 DEF TypeOK, Leaves, HoldsMutex, IsTool
  <2> QED
    BY <2>1, <2>2 DEF MutexOK, Leaves
<1>2. wd.pc' \in {"alerting", "alerted"} => holder' = Watchdog
  BY RequestsAssumption DEF MutexOK, Leaves
<1> QED
  BY <1>1, <1>2 DEF MutexOK

LEMMA MutexHandler ==
  ASSUME TypeOK, MutexOK, NEW r \in Requests, Handler(r)
  PROVE  MutexOK'
<1> USE DEF env, proc, mem, job, up, hist, Goto, Leave, PCs, Locked, Terminal
<1>1. CASE TakeMutex(r)
  BY <1>1, RequestsAssumption DEF TypeOK, MutexOK, TakeMutex, HoldsMutex, IsTool
<1>2. CASE FetchFails(r) \/ AlertFails(r) \/ MarkStale(r) \/ RejectLocally(r)
           \/ PublishFails(r) \/ RefuseRecorded(r) \/ Reply(r)
  <2>1. Leaves(r)
    BY <1>2 DEF TypeOK, Leaves, HoldsMutex, FetchFails, AlertFails, MarkStale,
                RejectLocally, PublishFails, RefuseRecorded, Reply
  <2> QED
    BY <2>1, MutexLeaves
<1>3. CASE AlertLands(r) \/ BeginPublication(r) \/ RelayAccepts(r)
  <2>1. Stays(r)
    BY <1>3 DEF TypeOK, Stays, HoldsMutex, AlertLands, BeginPublication, RelayAccepts
  <2> QED
    BY <2>1, MutexStays
<1>4. CASE Dispatch(r)
  <2>1. Stays(r)
    BY <1>4 DEF TypeOK, Stays, HoldsMutex, IsTool, Dispatch
  <2> QED
    BY <2>1, MutexStays
<1>5. CASE Fetched(r)
  <2>1. Stays(r) \/ Leaves(r)
    <3>1. /\ pc[r] = "fetching"
          /\ UNCHANGED <<call, wd>>
          /\ \/ Leave(r, "refused")
             \/ Goto(r, "alerting") /\ UNCHANGED holder
             \/ Goto(r, "reserving") /\ UNCHANGED holder
             \/ Goto(r, "opening") /\ UNCHANGED holder
      BY <1>5 DEF Fetched
    <3> QED
      BY <3>1 DEF TypeOK, Stays, Leaves, HoldsMutex
  <2> QED
    BY <2>1, MutexStays, MutexLeaves
<1>6. CASE Reserve(r)
  <2>1. Stays(r) \/ Leaves(r)
    BY <1>6 DEF TypeOK, Reserve, Stays, Leaves, HoldsMutex
  <2> QED
    BY <2>1, MutexStays, MutexLeaves
<1>7. CASE Checkpoint(r)
  <2>1. Stays(r) \/ Leaves(r)
    BY <1>7 DEF TypeOK, Checkpoint, Stays, Leaves, HoldsMutex, IsTool
  <2> QED
    BY <2>1, MutexStays, MutexLeaves
<1> QED
  BY <1>1, <1>2, <1>3, <1>4, <1>5, <1>6, <1>7 DEF Handler

LEMMA MutexWatchdog ==
  ASSUME TypeOK, MutexOK, WatchdogTask
  PROVE  MutexOK'
<1> USE DEF env, proc, mem, job, up, hist
<1>1. UNCHANGED <<pc, call>>
  BY DEF WatchdogTask, WdWake, WdCheck, WdAlertLands, WdGivesUp, WdMark
<1>2. CASE WdWake \/ WdAlertLands
  BY <1>1, <1>2 DEF TypeOK, MutexOK, HoldsMutex, IsTool, WdWake, WdAlertLands
<1>3. CASE WdCheck
  BY <1>1, <1>3, RequestsAssumption DEF TypeOK, MutexOK, HoldsMutex, IsTool, WdCheck
<1>4. CASE WdGivesUp \/ WdMark
  BY <1>1, <1>4, RequestsAssumption
     DEF TypeOK, MutexOK, HoldsMutex, IsTool, WdGivesUp, WdMark
<1> QED
  BY <1>2, <1>3, <1>4 DEF WatchdogTask

LEMMA MutexEnvironment ==
  ASSUME TypeOK, MutexOK, Environment
  PROVE  MutexOK'
<1> USE DEF env, proc, mem, job, up, hist
<1>1. ASSUME NEW r \in Requests, HangUp(r) \/ DiskFault(r) \/ FetchedFault(r)
      PROVE  MutexOK'
  <2>1. Leaves(r)
    BY <1>1 DEF TypeOK, Leaves, HoldsMutex, HangUp, DiskFault, FetchedFault,
                Leave, Goto, PCs, Locked, Terminal
  <2> QED
    BY <2>1, MutexLeaves
<1>2. ASSUME NEW r \in Requests, Arrive(r) PROVE MutexOK'
  <2>1. Stays(r)
    BY <1>2 DEF TypeOK, Arrive, Stays, HoldsMutex, Goto, PCs, Locked
  <2> QED
    BY <2>1, MutexStays
<1>3. CASE Crash
  BY <1>3 DEF TypeOK, MutexOK, HoldsMutex, Crash, Locked, Terminal
<1>4. CASE BackgroundFault
  <2>1. UNCHANGED <<pc, call>>
    BY <1>4 DEF BackgroundFault
  <2>2. \/ wd.pc = "alerted" /\ wd' = [wd EXCEPT !.pc = "asleep"]
        \/ UNCHANGED <<wd, holder>>
    BY <1>4 DEF BackgroundFault
  <2> QED
    BY <2>1, <2>2, RequestsAssumption DEF TypeOK, MutexOK, HoldsMutex, IsTool
<1>5. CASE UNCHANGED <<pc, call, holder, wd>>
  BY <1>5 DEF MutexOK, HoldsMutex, IsTool
<1> QED
  BY <1>1, <1>2, <1>3, <1>4, <1>5
     DEF Environment, UpstreamRuns, RelayAcceptsLate, OperatorSevers, RelayForgets,
         PublishTest, Tick

LEMMA MutexStep == TypeOK /\ MutexOK /\ [Next]_vars => MutexOK'
<1> SUFFICES ASSUME TypeOK, MutexOK, [Next]_vars PROVE MutexOK'
  OBVIOUS
<1>1. CASE Startup \/ (\E k \in Keys : Reconcile(k)) \/ UNCHANGED vars
  <2>1. UNCHANGED <<pc, call, holder, wd>>
    BY <1>1 DEF Startup, Start, Serve, ImportCheckpoint, ImportSever, Reconcile,
                mem, job, vars
  <2> QED
    BY <2>1 DEF MutexOK, HoldsMutex, IsTool
<1> QED
  BY <1>1, MutexHandler, MutexWatchdog, MutexEnvironment DEF Next

\* The session mutex excludes: at most one handler or the watchdog is inside,
\* whatever crashes, hangs up or fails (tokio Mutex in server.rs, watchdog.rs).
THEOREM MutexExcludes == Spec => []MutexOK
<1>1. Init => MutexOK
  BY DEF Init, MutexOK, HoldsMutex, Locked
<1> QED
  BY <1>1, MutexStep, TypeCorrect, PTL DEF Spec
-----------------------------------------------------------------------------
(* At most one effect per operation.                                       *)

\* A step that sends nothing, executes nothing, makes no write live and
\* forgets no intent.
Quiet ==
  /\ UNCHANGED <<wire, effects, call>>
  /\ \A r \in Requests : Live(r)' => Live(r)
  /\ \A r \in wire : pc'[r] \in {"calling"} \cup Terminal
  /\ Remembers(disk, disk')

LEMMA QuietKeeps ==
  ASSUME TypeOK, TypeOK', WriteOnce, Quiet
  PROVE  WriteOnce'
<1>1. \A r \in Requests : Key(r)' = Key(r)
  BY DEF Quiet, Key
<1>2. \A k \in Keys : disk.ops[k] # "none" => disk'.ops[k] # "none"
  BY DEF Quiet, Remembers
<1>3. \A r \in Requests : Live(r)' =>
        Key(r)' \in Keys /\ disk'.ops[Key(r)'] # "none" /\ effects'[Key(r)'] = 0
  BY <1>1, <1>2 DEF Quiet, WriteOnce
<1>4. \A r, q \in Requests : Live(r)' /\ Live(q)' /\ Key(r)' = Key(q)' => r = q
  BY <1>1 DEF Quiet, WriteOnce
<1>5. \A k \in Keys :
        effects'[k] <= 1 /\ (disk'.ops[k] = "none" => effects'[k] = 0)
  BY <1>2 DEF Quiet, WriteOnce
<1>6. \A r \in wire' : pc'[r] \in {"calling"} \cup Terminal
  BY DEF Quiet
<1> QED
  BY <1>3, <1>4, <1>5, <1>6 DEF WriteOnce

\* A step that moves one handler, sends nothing and forgets no intent is quiet
\* unless it makes the handler's write live.
LEMMA QuietMove ==
  ASSUME TypeOK, WriteOnce, NEW r \in Requests, NEW p \in PCs,
         pc' = [pc EXCEPT ![r] = p], UNCHANGED <<wire, effects, call>>,
         Live(r)' => Live(r),
         r \in wire => p \in {"calling"} \cup Terminal,
         Remembers(disk, disk')
  PROVE  Quiet
<1>1. \A q \in Requests : Live(q)' => Live(q)
  BY DEF TypeOK, Live, IsWrite
<1>2. \A q \in wire : pc'[q] \in {"calling"} \cup Terminal
  BY DEF TypeOK, WriteOnce
<1> QED
  BY <1>1, <1>2 DEF Quiet

\* The journal's records forget no intent, stated for what handlers append.
LEMMA RecordsRemember ==
  ASSUME TypeOK
  PROVE  /\ Remembers(disk, disk)
         /\ Remembers(disk, Torn(disk))
         /\ \A S : Remembers(disk, WithSever(disk, S))
         /\ \A t : Remembers(disk, WithPublishing(disk, t))
         /\ \A t : Remembers(disk, WithAborted(disk, t))
         /\ \A t, caller, c : Remembers(disk, WithCheckpoint(disk, t, caller, c))
         /\ \A k \in Keys : /\ Remembers(disk, WithIntent(disk, k))
                             /\ Remembers(disk, WithReview(disk, k))
                             /\ \A s \in OpStates \ {"none"} :
                                  Remembers(disk, WithOutcome(disk, k, s))
<1>1. disk \in Replay
  BY DEF TypeOK
<1>2. ASSUME NEW d, d.ops = disk.ops PROVE Remembers(disk, d)
  BY <1>2 DEF Remembers
<1>3. \A k \in Keys, s \in OpStates \ {"none"} :
        /\ Remembers(disk, WithIntent(disk, k))
        /\ Remembers(disk, WithReview(disk, k))
        /\ Remembers(disk, WithOutcome(disk, k, s))
  BY <1>1, OperationsRemembered
<1>4. "reserved" \in OpStates \ {"none"}
  BY DEF OpStates
<1>5. \A S : Remembers(disk, WithSever(disk, S))
  BY <1>1, <1>2, OperationsUntouched
<1>6. \A t : Remembers(disk, WithPublishing(disk, t))
  BY <1>1, <1>2, OperationsUntouched
<1>7. \A t : Remembers(disk, WithAborted(disk, t))
  BY <1>1, <1>2, OperationsUntouched
<1>8. \A t, caller, c : Remembers(disk, WithCheckpoint(disk, t, caller, c))
  BY <1>1, <1>2, OperationsUntouched
<1>9. Remembers(disk, disk) /\ Remembers(disk, Torn(disk))
  BY <1>1, <1>2, OperationsUntouched
<1> QED
  BY <1>3, <1>4, <1>5, <1>6, <1>7, <1>8, <1>9

\* So does an append that fails.
LEMMA IntendedRemembers ==
  ASSUME TypeOK, NEW r \in Requests, NEW e \in Intended(r)
  PROVE  Remembers(disk, e)
<1>1. CASE pc[r] = "reserving"
  <2>1. e = WithIntent(disk, Key(r)) /\ Key(r) \in Keys
    BY <1>1, KeyType DEF Intended, CanReserve
  <2> QED
    BY <2>1, RecordsRemember
<1>2. CASE pc[r] = "calling"
  <2>1. PICK s \in Outcomes(r) : e = WithOutcome(disk, Key(r), s) /\ Key(r) \in Keys
    BY <1>2 DEF Intended, Unresolved
  <2>2. s \in OpStates \ {"none"}
    BY DEF Outcomes, OpStates
  <2> QED
    BY <2>1, <2>2, RecordsRemember
<1>3. CASE pc[r] \notin {"reserving", "calling"}
  <2>1. \/ e = WithPublishing(disk, lastId + 1)
        \/ e = WithAborted(disk, cp[r].id)
        \/ e = WithCheckpoint(disk, cp[r].id, call[r].caller, cp[r])
        \/ e = WithSever(disk, {Scope(r)})
    BY <1>3 DEF Intended
  <2> QED
    BY <2>1, RecordsRemember
<1> QED
  BY <1>1, <1>2, <1>3
LEMMA WriteOnceReserve ==
  ASSUME TypeOK, TypeOK', WriteOnce, NEW r \in Requests, Reserve(r)
  PROVE  WriteOnce'
<1> USE DEF env, proc, mem, job, up, hist, Goto, Leave
<1>1. CASE ~CanReserve(disk, call[r].caller, call[r].op)
  <2>1. /\ pc[r] = "reserving" /\ pc' = [pc EXCEPT ![r] = "refused"]
        /\ UNCHANGED <<disk, wire, effects, call>>
    BY <1>1 DEF Reserve
  <2>2. Live(r)' => Live(r)
    BY <2>1 DEF TypeOK, Live, IsWrite
  <2>3. Remembers(disk, disk')
    BY <2>1, RecordsRemember
  <2>4. Quiet
    BY <2>1, <2>2, <2>3, QuietMove DEF PCs, Terminal
  <2> QED
    BY <2>4, QuietKeeps
<1>2. CASE CanReserve(disk, call[r].caller, call[r].op)
  <2>1. /\ pc[r] = "reserving" /\ r \notin wire
        /\ pc' = [pc EXCEPT ![r] = "opening"]
        /\ disk' = WithIntent(disk, Key(r))
        /\ UNCHANGED <<wire, effects, call>>
    BY <1>2 DEF Reserve, WriteOnce, Terminal
  <2>2. Key(r) \in Keys /\ disk.ops[Key(r)] = "none"
    BY <1>2, KeyType DEF CanReserve, Key
  <2>3. /\ Remembers(disk, disk') /\ disk'.ops[Key(r)] # "none"
    BY <2>1, <2>2, RecordsRemember, IntentExists DEF TypeOK
  <2>4. \A q \in Requests : /\ IsWrite(q)' = IsWrite(q) /\ Key(q)' = Key(q)
                            /\ q # r /\ Live(q)' => Live(q)
    BY <2>1 DEF TypeOK, IsWrite, Key, Live
  <2>5. \A q \in Requests : Live(q) => Key(q) # Key(r)
    BY <2>2 DEF WriteOnce
  <2>6. effects[Key(r)] = 0
    BY <2>2 DEF WriteOnce
  <2>7. \A q \in Requests : Live(q)' =>
          Key(q)' \in Keys /\ disk'.ops[Key(q)'] # "none" /\ effects'[Key(q)'] = 0
    <3> SUFFICES ASSUME NEW q \in Requests, Live(q)'
                 PROVE  /\ Key(q) \in Keys /\ disk'.ops[Key(q)] # "none"
                        /\ effects[Key(q)] = 0
      BY <2>1, <2>4
    <3>1. CASE q = r
      BY <2>2, <2>3, <2>6, <3>1
    <3>2. CASE q # r
      BY <2>3, <2>4, <3>2 DEF WriteOnce, Remembers
    <3> QED
      BY <3>1, <3>2
  <2>8. \A q, u \in Requests : Live(q)' /\ Live(u)' /\ Key(q)' = Key(u)' => q = u
    BY <2>4, <2>5 DEF WriteOnce
  <2>9. \A k \in Keys :
          effects'[k] <= 1 /\ (disk'.ops[k] = "none" => effects'[k] = 0)
    BY <2>1, <2>3 DEF WriteOnce, Remembers
  <2>10. \A q \in wire' : pc'[q] \in {"calling"} \cup Terminal
    BY <2>1 DEF TypeOK, WriteOnce
  <2> QED
    BY <2>7, <2>8, <2>9, <2>10 DEF WriteOnce
<1> QED
  BY <1>1, <1>2

LEMMA WriteOnceDispatch ==
  ASSUME TypeOK, TypeOK', WriteOnce, NEW r \in Requests, Dispatch(r)
  PROVE  WriteOnce'
<1>1. /\ pc[r] = "recorded" /\ pc' = [pc EXCEPT ![r] = "calling"]
      /\ wire' = wire \cup {r}
      /\ UNCHANGED <<disk, effects, call>>
  BY DEF Dispatch, Goto, mem, job
<1>2. \A q \in Requests : Live(q)' => Live(q)
  BY <1>1 DEF TypeOK, Live, IsWrite
<1>3. \A q \in Requests : Key(q)' = Key(q)
  BY <1>1 DEF Key
<1>4. \A q \in wire' : pc'[q] \in {"calling"} \cup Terminal
  BY <1>1 DEF TypeOK, WriteOnce
<1> QED
  BY <1>1, <1>2, <1>3, <1>4 DEF WriteOnce

LEMMA WriteOnceUpstream ==
  ASSUME TypeOK, TypeOK', WriteOnce, NEW r \in Requests, UpstreamRuns(r)
  PROVE  WriteOnce'
<1>1. /\ r \in wire /\ wire' = wire \ {r}
      /\ effects' = IF IsWrite(r) THEN [effects EXCEPT ![Key(r)] = @ + 1] ELSE effects
      /\ UNCHANGED <<disk, pc, call>>
  BY DEF UpstreamRuns, mem, job
<1>2. \A q \in Requests : Key(q)' = Key(q) /\ IsWrite(q)' = IsWrite(q)
  BY <1>1 DEF Key, IsWrite
<1>3. \A q \in Requests : Live(q)' => Live(q) /\ q # r
  BY <1>1 DEF Live, IsWrite, WriteOnce, Terminal
<1>4. \A q \in wire' : pc'[q] \in {"calling"} \cup Terminal
  BY <1>1 DEF WriteOnce
<1>5. CASE ~IsWrite(r)
  BY <1>1, <1>2, <1>3, <1>4, <1>5 DEF WriteOnce
<1>6. CASE IsWrite(r)
  <2>1. Live(r)
    BY <1>1, <1>6 DEF Live
  <2>2. Key(r) \in Keys /\ disk.ops[Key(r)] # "none" /\ effects[Key(r)] = 0
    BY <2>1 DEF WriteOnce
  <2>3. \A k \in Keys : effects'[k] = IF k = Key(r) THEN 1 ELSE effects[k]
    BY <1>1, <1>6, <2>2 DEF TypeOK
  <2>4. \A q \in Requests : Live(q)' => Key(q) # Key(r)
    BY <1>3, <2>1 DEF WriteOnce
  <2>5. \A q \in Requests : Live(q)' =>
          Key(q)' \in Keys /\ disk'.ops[Key(q)'] # "none" /\ effects'[Key(q)'] = 0
    BY <1>1, <1>2, <1>3, <2>3, <2>4 DEF WriteOnce
  <2>6. \A q, u \in Requests : Live(q)' /\ Live(u)' /\ Key(q)' = Key(u)' => q = u
    BY <1>2, <1>3 DEF WriteOnce
  <2>7. \A k \in Keys :
          effects'[k] <= 1 /\ (disk'.ops[k] = "none" => effects'[k] = 0)
    BY <1>1, <2>2, <2>3 DEF WriteOnce
  <2> QED
    BY <1>4, <2>5, <2>6, <2>7 DEF WriteOnce
<1> QED
  BY <1>5, <1>6

LEMMA WriteOnceHandler ==
  ASSUME TypeOK, TypeOK', WriteOnce, NEW r \in Requests, Handler(r)
  PROVE  WriteOnce'
<1> USE DEF env, proc, mem, job, up, hist, Goto, Leave, PCs, Locked, Terminal
<1>0. r \in wire => pc[r] \in {"calling"} \cup Terminal
  BY DEF WriteOnce
<1>1. CASE Reserve(r)
  BY <1>1, WriteOnceReserve
<1>2. CASE Dispatch(r)
  BY <1>2, WriteOnceDispatch
<1>3. CASE TakeMutex(r) \/ FetchFails(r) \/ AlertLands(r) \/ AlertFails(r)
           \/ RelayAccepts(r) \/ PublishFails(r) \/ RefuseRecorded(r)
  <2>1. /\ UNCHANGED <<wire, effects, call, disk>>
        /\ \/ pc[r] = "waiting" /\ pc' = [pc EXCEPT ![r] = "fetching"]
           \/ pc[r] \in Locked \cup {"waiting", "recorded"}
              /\ \E p \in Terminal : pc' = [pc EXCEPT ![r] = p]
           \/ pc[r] = "alerting" /\ pc' = [pc EXCEPT ![r] = "alerted"]
           \/ pc[r] = "publishing" /\ pc' = [pc EXCEPT ![r] = "published"]
    BY <1>3 DEF TakeMutex, FetchFails, AlertLands, AlertFails, RelayAccepts,
                PublishFails, RefuseRecorded
  <2>2. PICK p \in PCs : /\ pc' = [pc EXCEPT ![r] = p]
                         /\ Live(r)' => Live(r)
                         /\ r \notin wire
    BY <1>0, <2>1 DEF TypeOK, Live, IsWrite
  <2>3. Quiet
    BY <2>1, <2>2, QuietMove, RecordsRemember
  <2> QED
    BY <2>3, QuietKeeps
<1>4. CASE Fetched(r)
  <2>1. /\ pc[r] = "fetching" /\ UNCHANGED <<wire, effects, call>>
        /\ \E S : disk' = WithSever(disk, S)
        /\ \/ pc' = [pc EXCEPT ![r] = "refused"]
           \/ pc' = [pc EXCEPT ![r] = "alerting"]
           \/ IsWrite(r) /\ pc' = [pc EXCEPT ![r] = "reserving"]
           \/ ~IsWrite(r) /\ pc' = [pc EXCEPT ![r] = "opening"]
    BY <1>4 DEF Fetched
  <2>2. PICK p \in PCs : /\ pc' = [pc EXCEPT ![r] = p]
                         /\ Live(r)' => Live(r)
                         /\ r \notin wire
    BY <1>0, <2>1 DEF TypeOK, Live, IsWrite
  <2>3. Remembers(disk, disk')
    BY <2>1, RecordsRemember
  <2>4. Quiet
    BY <2>1, <2>2, <2>3, QuietMove
  <2> QED
    BY <2>4, QuietKeeps
<1>5. CASE MarkStale(r) \/ BeginPublication(r) \/ RejectLocally(r) \/ Checkpoint(r)
  <2>1. /\ UNCHANGED <<wire, effects, call>>
        /\ Remembers(disk, disk')
    BY <1>5, RecordsRemember
       DEF MarkStale, BeginPublication, RejectLocally, Checkpoint
  <2>2. \/ pc[r] = "alerted" /\ pc' = [pc EXCEPT ![r] = "refused"]
        \/ pc[r] = "opening" /\ pc' = [pc EXCEPT ![r] = "publishing"]
        \/ pc[r] = "publishing" /\ pc' = [pc EXCEPT ![r] = "refused"]
        \/ pc[r] = "published" /\ pc' = [pc EXCEPT ![r] = "recorded"]
    BY <1>5 DEF MarkStale, BeginPublication, RejectLocally, Checkpoint
  <2>3. PICK p \in PCs : /\ pc' = [pc EXCEPT ![r] = p]
                         /\ Live(r)' => Live(r)
                         /\ r \notin wire
    BY <1>0, <2>1, <2>2 DEF TypeOK, Live, IsWrite
  <2>4. Quiet
    BY <2>1, <2>3, QuietMove
  <2> QED
    BY <2>4, QuietKeeps
<1>6. CASE Reply(r)
  <2>1. /\ UNCHANGED <<wire, effects, call>>
        /\ pc[r] = "calling" /\ pc' = [pc EXCEPT ![r] = "answered"]
    BY <1>6 DEF Reply
  <2>2. Remembers(disk, disk')
    <3>1. \A s \in Outcomes(r) : s \in OpStates \ {"none"}
      BY DEF Outcomes, OpStates
    <3>2. CASE IsWrite(r) /\ Readable(disk) /\ Key(r) \in Unresolved(disk)
      <4>1. PICK s \in Outcomes(r) : disk' = WithOutcome(disk, Key(r), s)
        BY <1>6, <3>2 DEF Reply
      <4> QED
        BY <3>1, <3>2, <4>1, RecordsRemember DEF Unresolved
    <3> QED
      BY <1>6, <3>2, RecordsRemember DEF Reply
  <2>3. Live(r)' => Live(r)
    BY <2>1 DEF TypeOK, Live, IsWrite
  <2>4. Quiet
    BY <2>1, <2>2, <2>3, QuietMove
  <2> QED
    BY <2>4, QuietKeeps
<1> QED
  BY <1>1, <1>2, <1>3, <1>4, <1>5, <1>6 DEF Handler
LEMMA RemainsRemembers ==
  ASSUME TypeOK, NEW e, Remembers(disk, e), NEW f \in Remains(disk, e)
  PROVE  Remembers(disk, f)
  BY RecordsRemember DEF Remains

LEMMA WriteOnceEnvironment ==
  ASSUME TypeOK, TypeOK', WriteOnce, Environment
  PROVE  WriteOnce'
<1> USE DEF env, proc, mem, job, up, hist, Goto, Leave
<1>0. /\ disk \in Replay /\ Remembers(disk, disk)
      /\ \A r \in wire : pc[r] \in {"calling"} \cup Terminal
  BY RecordsRemember DEF TypeOK, WriteOnce
<1>1. ASSUME NEW r \in Requests, Arrive(r) PROVE WriteOnce'
  <2>1. /\ pc[r] = "idle" /\ pc' = [pc EXCEPT ![r] = "waiting"]
        /\ UNCHANGED <<disk, wire, effects, call>>
    BY <1>1 DEF Arrive
  <2>2. (Live(r)' => Live(r)) /\ r \notin wire
    BY <1>0, <2>1 DEF TypeOK, Live, IsWrite, Terminal
  <2>3. Quiet
    BY <1>0, <2>1, <2>2, QuietMove DEF PCs
  <2> QED
    BY <2>3, QuietKeeps
<1>2. ASSUME NEW r \in Requests, HangUp(r) \/ DiskFault(r) \/ FetchedFault(r)
      PROVE  WriteOnce'
  <2>1. /\ UNCHANGED <<wire, effects, call>>
        /\ \E p \in Terminal : pc' = [pc EXCEPT ![r] = p]
    BY <1>2 DEF HangUp, DiskFault, FetchedFault, Terminal
  <2>2. PICK p \in Terminal : pc' = [pc EXCEPT ![r] = p]
    BY <2>1
  <2>3. Live(r)' => Live(r)
    BY <2>1, <2>2 DEF TypeOK, Live, IsWrite, Terminal
  <2>4. Remembers(disk, disk')
    <3>1. CASE HangUp(r)
      BY <1>0, <3>1 DEF HangUp
    <3>2. CASE DiskFault(r)
      <4>1. PICK e \in Intended(r) : disk' \in Remains(disk, e)
        BY <3>2 DEF DiskFault
      <4> QED
        BY <4>1, IntendedRemembers, RemainsRemembers
    <3>3. CASE FetchedFault(r)
      <4>1. PICK T, U : disk' \in Remains(WithSever(disk, T), WithSever(disk, U))
        BY <3>3 DEF FetchedFault
      <4>2. /\ WithSever(disk, T).ops = disk.ops
            /\ WithSever(disk, U).ops = disk.ops
            /\ Torn(WithSever(disk, T)).ops = disk.ops
        BY <1>0, OperationsUntouched DEF Torn, WithSever, Replay
      <4>3. disk'.ops = disk.ops
        BY <4>1, <4>2 DEF Remains
      <4> QED
        BY <4>3 DEF Remembers
    <3> QED
      BY <1>2, <3>1, <3>2, <3>3
  <2>5. Quiet
    BY <2>1, <2>2, <2>3, <2>4, QuietMove DEF PCs
  <2> QED
    BY <2>5, QuietKeeps
<1>3. CASE Crash
  <2>1. /\ UNCHANGED <<wire, effects, call>>
        /\ pc' = [r \in Requests |-> IF pc[r] \in Terminal \cup {"idle"}
                                     THEN pc[r] ELSE "lost"]
    BY <1>3 DEF Crash
  <2>2. Remembers(disk, disk')
    BY <1>3, RecordsRemember DEF Crash
  <2>3. \A r \in Requests : Live(r)' => Live(r)
    BY <2>1 DEF TypeOK, Live, IsWrite, Terminal
  <2>4. \A r \in wire : pc'[r] \in {"calling"} \cup Terminal
    BY <1>0, <2>1 DEF TypeOK, Terminal
  <2>5. Quiet
    BY <2>1, <2>2, <2>3, <2>4 DEF Quiet
  <2> QED
    BY <2>5, QuietKeeps
<1>4. CASE BackgroundFault
  <2>1. UNCHANGED <<wire, effects, call, pc>>
    BY <1>4 DEF BackgroundFault
  <2>2. Remembers(disk, disk')
    <3>1. \/ disk' \in Remains(disk, WithSever(disk, {wd.scope}))
          \/ \E k \in Unresolved(disk) : disk' \in Remains(disk, WithReview(disk, k))
      BY <1>4 DEF BackgroundFault
    <3> QED
      BY <3>1, RecordsRemember, RemainsRemembers DEF Unresolved
  <2>3. Quiet
    BY <1>0, <2>1, <2>2 DEF Quiet, Live, IsWrite
  <2> QED
    BY <2>3, QuietKeeps
<1>5. ASSUME NEW r \in Requests, UpstreamRuns(r) PROVE WriteOnce'
  BY <1>5, WriteOnceUpstream
<1>6. CASE UNCHANGED <<disk, wire, effects, call, pc>>
  BY <1>6 DEF WriteOnce, Live, IsWrite, Key
<1> QED
  BY <1>1, <1>2, <1>3, <1>4, <1>5, <1>6
     DEF Environment, RelayAcceptsLate, OperatorSevers, RelayForgets, PublishTest, Tick

LEMMA WriteOnceStep ==
  ASSUME TypeOK, TypeOK', WriteOnce, [Next]_vars
  PROVE  WriteOnce'
<1> USE DEF env, proc, mem, job, up, hist
<1>1. CASE Startup \/ (\E k \in Keys : Reconcile(k)) \/ WatchdogTask
  <2>1. UNCHANGED <<wire, effects, call, pc>>
    BY <1>1 DEF Startup, Start, Serve, ImportCheckpoint, ImportSever, Reconcile,
                WatchdogTask, WdWake, WdCheck, WdAlertLands, WdGivesUp, WdMark
  <2>2. Remembers(disk, disk')
    BY <1>1, RecordsRemember
       DEF Startup, Start, Serve, ImportCheckpoint, ImportSever, Reconcile,
           WatchdogTask, WdWake, WdCheck, WdAlertLands, WdGivesUp, WdMark
  <2>3. Quiet
    BY <2>1, <2>2 DEF Quiet, WriteOnce, Live, IsWrite
  <2> QED
    BY <2>3, QuietKeeps
<1>2. CASE UNCHANGED vars
  BY <1>2 DEF vars, WriteOnce, Live, IsWrite, Key
<1> QED
  BY <1>1, <1>2, WriteOnceHandler, WriteOnceEnvironment DEF Next

\* The reason of the next theorem: live writes have an intent of their own.
THEOREM WritesAreReserved == Spec => []WriteOnce
<1>1. Init => WriteOnce
  BY DEF Init, WriteOnce, Live
<1>2. TypeOK /\ TypeOK' /\ WriteOnce /\ [Next]_vars => WriteOnce'
  BY WriteOnceStep
<1> QED
  BY <1>1, <1>2, TypeCorrect, PTL DEF Spec

\* Upstream executes the write of a caller's operation id at most once, for any
\* number of attempts, callers, scopes and faults: in every interleaving of
\* handlers, watchdog and reconciliation, with crashes, hang-ups, lost and late
\* answers and failing appends (operations.rs reserve_in_scope).
THEOREM EffectsHappenOnce == Spec => []AtMostOnceEffect
<1>1. WriteOnce => AtMostOnceEffect
  BY DEF WriteOnce, AtMostOnceEffect
<1> QED
  BY <1>1, WritesAreReserved, PTL
=============================================================================
