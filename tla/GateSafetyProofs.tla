-------------------------- MODULE GateSafetyProofs --------------------------
(***************************************************************************)
(* Proofs about module Gate: severs, owners and receipts outlast every     *)
(* interleaving, crash and failing append, and the gate implements the     *)
(* promise of module Custody.                                              *)
(***************************************************************************)
EXTENDS GateInvariants, GateProofs

-----------------------------------------------------------------------------
(* The process that serves.                                                *)

\* The steps of one attempt's own handler, the ones that fail included.
Moves(r) == Handler(r) \/ HangUp(r) \/ DiskFault(r) \/ FetchedFault(r)

\* A handler with a record to append is inside its critical section.
LEMMA IntendedHolds ==
  ASSUME NEW r \in Requests, NEW e \in Intended(r)
  PROVE  HoldsMutex(r)
  BY DEF Intended, HoldsMutex, Locked, IsTool, IsWrite

\* A handler that moves is under way.
LEMMA MovesUnderWay ==
  ASSUME NEW r \in Requests, Moves(r)
  PROVE  /\ pc[r] \notin Terminal \cup {"idle"}
         /\ UNCHANGED <<status, fetched, wd, call, parent, until, now, clock>>
<1> USE DEF env, proc, mem, job, up, hist, Terminal
<1>1. CASE Handler(r)
  BY <1>1 DEF Handler, TakeMutex, FetchFails, Fetched, AlertLands, AlertFails,
              MarkStale, Reserve, BeginPublication, RejectLocally, RelayAccepts,
              PublishFails, Checkpoint, Dispatch, RefuseRecorded, Reply
<1>2. CASE DiskFault(r)
  <2>1. PICK e \in Intended(r) : TRUE
    BY <1>2 DEF DiskFault
  <2> QED
    BY <1>2, <2>1, IntendedHolds DEF DiskFault, HoldsMutex, Locked
<1>3. CASE HangUp(r) \/ FetchedFault(r)
  BY <1>3 DEF HangUp, FetchedFault
<1> QED
  BY <1>1, <1>2, <1>3 DEF Moves

\* Whoever runs, runs while the process serves.
LEMMA QuiescentStep == TypeOK /\ Quiescent /\ [Next]_vars => Quiescent'
<1> SUFFICES ASSUME TypeOK, Quiescent, [Next]_vars PROVE Quiescent'
  OBVIOUS
<1> USE DEF env, proc, mem, job, up, hist
<1>1. CASE Startup \/ (\E k \in Keys : Reconcile(k))
  BY <1>1 DEF Quiescent, Startup, Start, Serve, ImportCheckpoint, ImportSever, Reconcile
<1>2. ASSUME NEW r \in Requests, Moves(r) PROVE Quiescent'
  BY <1>2, MovesUnderWay DEF Quiescent
<1>3. CASE WatchdogTask
  BY <1>3 DEF Quiescent, WatchdogTask, WdWake, WdCheck, WdAlertLands, WdGivesUp, WdMark
<1>4. CASE Crash
  BY <1>4 DEF TypeOK, Quiescent, Crash, Terminal
<1>5. ASSUME NEW r \in Requests, Arrive(r) PROVE Quiescent'
  BY <1>5 DEF Quiescent, Arrive
<1>6. CASE BackgroundFault
  BY <1>6 DEF Quiescent, BackgroundFault
<1>7. CASE UNCHANGED <<status, pc, wd>>
  BY <1>7 DEF Quiescent
<1> QED
  BY <1>1, <1>2, <1>3, <1>4, <1>5, <1>6, <1>7
     DEF Next, Environment, UpstreamRuns, RelayAcceptsLate, OperatorSevers,
         RelayForgets, PublishTest, Tick, vars, Moves

-----------------------------------------------------------------------------
(* What a step leaves of an attempt that does not make it.                 *)

Spares(r) ==
  /\ pc'[r] = pc[r] /\ cp'[r] = cp[r] /\ parent'[r] = parent[r]
  /\ now'[r] = now[r] /\ heard'[r] \subseteq heard[r]
  /\ r \in wire' => r \in wire
  /\ HoldsMutex(r) => UNCHANGED <<disk, chain>>

\* The step of another handler spares r.
LEMMA MovesSpare ==
  ASSUME TypeOK, MutexOK, NEW q \in Requests, Moves(q), NEW r \in Requests, q # r
  PROVE  Spares(r)
<1> USE DEF env, proc, mem, job, up, hist, Goto, Leave
<1>1. /\ UNCHANGED call
      /\ pc'[r] = pc[r] /\ cp'[r] = cp[r] /\ parent'[r] = parent[r]
      /\ now'[r] = now[r] /\ heard'[r] \subseteq heard[r]
      /\ r \in wire' => r \in wire
  <2>1. CASE Handler(q)
    BY <2>1 DEF TypeOK, Handler, TakeMutex, FetchFails, Fetched, AlertLands,
       AlertFails, MarkStale, Reserve, BeginPublication, RejectLocally,
       RelayAccepts, PublishFails, Checkpoint, Dispatch, RefuseRecorded, Reply
  <2>2. CASE HangUp(q) \/ DiskFault(q) \/ FetchedFault(q)
    BY <2>2 DEF TypeOK, HangUp, DiskFault, FetchedFault
  <2> QED
    BY <2>1, <2>2 DEF Moves
<1>2. ASSUME HoldsMutex(r) PROVE UNCHANGED <<disk, chain>>
  <2>1. ~HoldsMutex(q) /\ holder = r
    BY <1>2 DEF MutexOK
  <2>2. CASE Handler(q)
    BY <2>1, <2>2 DEF Handler, TakeMutex, FetchFails, Fetched, AlertLands,
       AlertFails, MarkStale, Reserve, BeginPublication, RejectLocally,
       RelayAccepts, PublishFails, Checkpoint, Dispatch, RefuseRecorded, Reply,
       HoldsMutex, Locked, IsTool, IsWrite
  <2>3. CASE DiskFault(q)
    BY <2>1, <2>3, IntendedHolds DEF DiskFault
  <2>4. CASE HangUp(q) \/ FetchedFault(q)
    BY <2>1, <2>4 DEF HangUp, FetchedFault, HoldsMutex, Locked
  <2> QED
    BY <2>2, <2>3, <2>4 DEF Moves
<1> QED
  BY <1>1, <1>2 DEF Spares

\* Every step is one of r's own, its arrival, a crash, or spares r.
LEMMA OthersStep ==
  ASSUME TypeOK, MutexOK, Quiescent, [Next]_vars, NEW r \in Requests
  PROVE  Moves(r) \/ Arrive(r) \/ Crash \/ Spares(r)
<1> USE DEF env, proc, mem, job, up, hist
<1>1. HoldsMutex(r) => /\ holder = r /\ status = "serving"
                       /\ wd.pc \notin {"alerting", "alerted"}
                       /\ holder # Nobody
  BY RequestsAssumption
     DEF MutexOK, Quiescent, HoldsMutex, Locked, Terminal
<1>2. CASE Startup \/ (\E k \in Keys : Reconcile(k))
  BY <1>1, <1>2 DEF Spares, Startup, Start, Serve, ImportCheckpoint, ImportSever,
                    Reconcile
<1>3. CASE WatchdogTask
  BY <1>1, <1>3 DEF Spares, WatchdogTask, WdWake, WdCheck, WdAlertLands, WdGivesUp,
                    WdMark
<1>4. ASSUME NEW q \in Requests, Moves(q) PROVE Moves(r) \/ Spares(r)
  BY <1>4, MovesSpare
<1>5. ASSUME NEW q \in Requests, Arrive(q) PROVE Arrive(r) \/ Spares(r)
  BY <1>5 DEF TypeOK, Spares, Arrive, Goto
<1>6. CASE BackgroundFault
  BY <1>1, <1>6 DEF Spares, BackgroundFault
<1>7. ASSUME NEW q \in Requests, UpstreamRuns(q) \/ RelayAcceptsLate(q)
      PROVE  Spares(r)
  BY <1>7 DEF Spares, UpstreamRuns, RelayAcceptsLate
<1>8. ASSUME NEW s \in Scopes, OperatorSevers(s) \/ RelayForgets(s) PROVE Spares(r)
  BY <1>8 DEF TypeOK, Spares, OperatorSevers, RelayForgets
<1>9. CASE PublishTest \/ Tick \/ UNCHANGED vars
  BY <1>9 DEF Spares, PublishTest, Tick, vars
<1> QED
  BY <1>2, <1>3, <1>4, <1>5, <1>6, <1>7, <1>8, <1>9 DEF Next, Environment, Moves
-----------------------------------------------------------------------------
(* The journal only grows.                                                 *)

\* A record that a handler is about to append lets the journal grow.
LEMMA IntendedGrows ==
  ASSUME TypeOK, NEW r \in Requests, NEW e \in Intended(r)
  PROVE  Grows(disk, e)
<1>1. disk \in Replay /\ cp[r] \in Cp
  BY DEF TypeOK
<1>2. \/ e = WithIntent(disk, Key(r))
      \/ e = WithPublishing(disk, lastId + 1)
      \/ e = WithAborted(disk, cp[r].id)
      \/ e = WithCheckpoint(disk, cp[r].id, call[r].caller, cp[r])
      \/ e = WithSever(disk, {Scope(r)})
      \/ \E s \in Outcomes(r) : e = WithOutcome(disk, Key(r), s)
  BY DEF Intended
<1>3. Grows(disk, WithCheckpoint(disk, cp[r].id, call[r].caller, cp[r]))
  BY <1>1, CheckpointGrows
<1> QED
  BY <1>1, <1>2, <1>3, PlainRecordsGrow

\* So does what is left of it when the append fails.
LEMMA RemainsGrow ==
  ASSUME NEW d \in Replay, NEW e \in Replay, Grows(d, e), NEW f \in Remains(d, e)
  PROVE  Grows(d, f)
  BY PlainRecordsGrow DEF Remains

LEMMA GrowsStep == TypeOK /\ [Next]_vars => Grows(disk, disk')
<1> SUFFICES ASSUME TypeOK, [Next]_vars PROVE Grows(disk, disk')
  OBVIOUS
<1> USE DEF env, proc, mem, job, up, hist
<1>0. disk \in Replay
  BY DEF TypeOK
<1>1. ASSUME NEW c \in fetched.cps, ImportCheckpoint(c) PROVE Grows(disk, disk')
  <2>1. c \in Cp
    BY DEF TypeOK
  <2>2. Grows(disk, WithCheckpoint(disk, Genesis, NoCaller, c))
    BY <1>0, <2>1, CheckpointGrows
  <2>3. disk' = disk \/ disk' = WithCheckpoint(disk, Genesis, NoCaller, c)
    BY <1>1 DEF ImportCheckpoint
  <2> QED
    BY <1>0, <2>2, <2>3, PlainRecordsGrow
<1>2. CASE \/ Start \/ Serve \/ (\E s \in Scopes : ImportSever(s))
           \/ \E k \in Keys : Reconcile(k)
  BY <1>0, <1>2, PlainRecordsGrow DEF Start, Serve, ImportSever, Reconcile
<1>3. ASSUME NEW r \in Requests, Handler(r) PROVE Grows(disk, disk')
  <2>1. CASE Checkpoint(r)
    <3>1. disk' = WithCheckpoint(disk, cp[r].id, call[r].caller, cp[r]) /\ cp[r] \in Cp
      BY <2>1 DEF Checkpoint, TypeOK
    <3> QED
      BY <1>0, <3>1, CheckpointGrows
  <2>2. CASE Reply(r)
    BY <1>0, <2>2, PlainRecordsGrow DEF Reply
  <2>3. CASE Fetched(r)
    <3>1. \E S : disk' = WithSever(disk, S)
      BY <2>3 DEF Fetched
    <3> QED
      BY <1>0, <3>1, PlainRecordsGrow
  <2>4. CASE TakeMutex(r) \/ FetchFails(r) \/ AlertLands(r) \/ AlertFails(r)
             \/ RelayAccepts(r) \/ PublishFails(r) \/ RefuseRecorded(r) \/ Dispatch(r)
    BY <1>0, <2>4, PlainRecordsGrow
       DEF TakeMutex, FetchFails, AlertLands, AlertFails, RelayAccepts,
           PublishFails, RefuseRecorded, Dispatch
  <2>5. CASE MarkStale(r) \/ Reserve(r) \/ BeginPublication(r) \/ RejectLocally(r)
    BY <1>0, <2>5, PlainRecordsGrow
       DEF MarkStale, Reserve, BeginPublication, RejectLocally
  <2> QED
    BY <1>3, <2>1, <2>2, <2>3, <2>4, <2>5 DEF Handler
<1>4. CASE WatchdogTask
  BY <1>0, <1>4, PlainRecordsGrow
     DEF WatchdogTask, WdWake, WdCheck, WdAlertLands, WdGivesUp, WdMark
<1>5. ASSUME NEW r \in Requests, DiskFault(r) PROVE Grows(disk, disk')
  <2>1. PICK e \in Intended(r) : disk' \in Remains(disk, e)
    BY <1>5 DEF DiskFault
  <2> QED
    BY <1>0, <2>1, IntendedType, IntendedGrows, RemainsGrow
<1>6. ASSUME NEW r \in Requests, FetchedFault(r) PROVE Grows(disk, disk')
  <2>1. PICK S, U : disk' \in Remains(WithSever(disk, S), WithSever(disk, U))
                    /\ S \in SUBSET Scopes
    <3>1. PICK A \in Answers(r) :
            \E T \in SUBSET MarkDegraded(chain, A).degraded,
               u \in MarkDegraded(chain, A).degraded :
              disk' \in Remains(WithSever(disk, T), WithSever(disk, T \cup {u}))
      BY <1>6 DEF FetchedFault
    <3>2. MarkDegraded(chain, A).degraded \in SUBSET Scopes
      BY AnswersType, MarkDegradedType DEF TypeOK, ChainState
    <3> QED
      BY <3>1, <3>2
  <2>2. disk' = WithSever(disk, S) \/ disk' = WithSever(disk, U)
        \/ disk' = Torn(WithSever(disk, S))
    BY <2>1 DEF Remains
  <2>3. WithSever(disk, S) \in Replay
    BY <1>0, <2>1, SeverType
  <2>4. Grows(disk, Torn(WithSever(disk, S)))
    BY <1>0, <2>3, PlainRecordsGrow, GrowsOn
  <2> QED
    BY <1>0, <2>2, <2>4, PlainRecordsGrow
<1>7. CASE BackgroundFault
  <2>1. \/ disk' \in Remains(disk, WithSever(disk, {wd.scope}))
        \/ \E k \in Unresolved(disk) : disk' \in Remains(disk, WithReview(disk, k))
    BY <1>7 DEF BackgroundFault
  <2> QED
    BY <1>0, <2>1, PlainRecordsGrow DEF Remains
<1>8. CASE Crash
  BY <1>0, <1>8, PlainRecordsGrow DEF Crash
<1>9. CASE UNCHANGED disk
  BY <1>0, <1>9, PlainRecordsGrow
<1> QED
  BY <1>1, <1>2, <1>3, <1>4, <1>5, <1>6, <1>7, <1>8, <1>9
     DEF Next, Startup, Environment, Arrive, HangUp, UpstreamRuns, RelayAcceptsLate,
         OperatorSevers, RelayForgets, PublishTest, Tick, vars

\* The journal is never shortened and nothing in it is taken back: whatever the
\* gate, its failing appends and its crashes do, a replay finds every sever, every
\* checkpoint hash and every owner that an earlier replay found (operations.rs).
THEOREM JournalOnlyGrows == Spec => [][Grows(disk, disk')]_vars
<1>1. TypeOK /\ [Next]_vars => [Grows(disk, disk')]_vars
  BY GrowsStep
<1> QED
  BY <1>1, TypeCorrect, PTL DEF Spec
-----------------------------------------------------------------------------
(* Severs last.                                                            *)

\* The steps that serve severs from memory or learn of new ones.
LEMMA SeversJournaled ==
  ASSUME TypeOK, Severs, [Next]_vars
  PROVE  severed' \subseteq disk'.chain.degraded /\ SeverSurvives'
<1> USE DEF env, proc, mem, job, up, hist, SeverSurvives
<1>0. /\ disk \in Replay /\ disk.chain \in ChainState /\ chain \in ChainState
      /\ severed \subseteq disk.chain.degraded
      /\ status = "serving" => severed \subseteq chain.degraded
      /\ disk.chain.degraded \subseteq disk'.chain.degraded
  BY GrowsStep DEF TypeOK, Replay, Severs, Grows
<1>1. CASE Serve
  BY <1>0, <1>1 DEF Serve
<1>2. ASSUME NEW r \in Requests, Fetched(r)
      PROVE  severed' \subseteq disk'.chain.degraded /\ SeverSurvives'
  <2>1. PICK S \in Answers(r) :
          LET seen == MarkDegraded(chain, S)
          IN  /\ disk' = WithSever(disk, seen.degraded)
              /\ severed' = severed \cup seen.degraded
              /\ chain' \in {seen, BeginScope(seen, Scope(r))}
              /\ UNCHANGED status
    BY <1>2 DEF Fetched
  <2>2. MarkDegraded(chain, S) \in ChainState
    BY <1>0, AnswersType, MarkDegradedType
  <2>3. /\ chain.degraded \subseteq MarkDegraded(chain, S).degraded
        /\ BeginScope(MarkDegraded(chain, S), Scope(r)).degraded
             = MarkDegraded(chain, S).degraded
    BY <1>0, <2>2 DEF MarkDegraded, BeginScope, ChainState
  <2>4. MarkDegraded(chain, S).degraded \subseteq disk'.chain.degraded
    BY <1>0, <2>1 DEF WithSever, MarkDegraded, Replay, ChainState
  <2> QED
    BY <1>0, <2>1, <2>3, <2>4
<1>3. ASSUME NEW s \in Scopes, disk' = WithSever(disk, {s}),
             chain' = MarkDegraded(chain, {s}), severed' = severed \cup {s},
             UNCHANGED status
      PROVE  severed' \subseteq disk'.chain.degraded /\ SeverSurvives'
  BY <1>0, <1>3 DEF WithSever, MarkDegraded, Replay, ChainState
<1>4. ASSUME NEW r \in Requests, MarkStale(r)
      PROVE  severed' \subseteq disk'.chain.degraded /\ SeverSurvives'
  BY <1>3, <1>4, KeyType DEF MarkStale
<1>5. CASE WdMark
  <2>1. wd.scope \in Scopes
    BY <1>5 DEF TypeOK, WdMark
  <2> QED
    BY <1>3, <1>5, <2>1 DEF WdMark
<1>6. ASSUME UNCHANGED severed,
             \/ status' # "serving"
             \/ UNCHANGED <<status, chain>>
             \/ chain' = disk'.chain
             \/ UNCHANGED status /\ chain.degraded \subseteq chain'.degraded
      PROVE  severed' \subseteq disk'.chain.degraded /\ SeverSurvives'
  BY <1>0, <1>6
<1>7. ASSUME NEW r \in Requests, Checkpoint(r)
      PROVE  severed' \subseteq disk'.chain.degraded /\ SeverSurvives'
  <2>1. chain'.degraded = chain.degraded
    BY <1>0, <1>7 DEF Checkpoint, RecordCp, ChainState
  <2> QED
    BY <1>6, <1>7, <2>1 DEF Checkpoint
<1>8. ASSUME NEW r \in Requests, FetchedFault(r)
      PROVE  severed' \subseteq disk'.chain.degraded /\ SeverSurvives'
  <2>1. \E S : chain' = MarkDegraded(chain, S)
    BY <1>8 DEF FetchedFault
  <2>2. chain.degraded \subseteq chain'.degraded
    BY <1>0, <2>1 DEF MarkDegraded, ChainState
  <2> QED
    BY <1>6, <1>8, <2>2 DEF FetchedFault
<1>9. ASSUME NEW r \in Requests, Handler(r),
             ~Fetched(r), ~MarkStale(r), ~Checkpoint(r)
      PROVE  severed' \subseteq disk'.chain.degraded /\ SeverSurvives'
  BY <1>6, <1>9
     DEF Handler, TakeMutex, FetchFails, AlertLands, AlertFails, Reserve,
         BeginPublication, RejectLocally, RelayAccepts, PublishFails, Dispatch,
         RefuseRecorded, Reply
<1>10. CASE Startup \/ (\E k \in Keys : Reconcile(k))
  BY <1>1, <1>6, <1>10 DEF Startup, Start, ImportCheckpoint, ImportSever, Reconcile
<1>11. CASE WatchdogTask
  BY <1>5, <1>6, <1>11 DEF WatchdogTask, WdWake, WdCheck, WdAlertLands, WdGivesUp
<1>12. CASE Environment
  BY <1>6, <1>8, <1>12
     DEF Environment, Arrive, HangUp, DiskFault, UpstreamRuns, RelayAcceptsLate,
         OperatorSevers, RelayForgets, BackgroundFault, Crash, PublishTest, Tick
<1>13. CASE UNCHANGED vars
  BY <1>6, <1>13 DEF vars
<1> QED
  BY <1>2, <1>4, <1>7, <1>8, <1>9, <1>10, <1>11, <1>12, <1>13 DEF Next

\* What an attempt asks for never changes.
LEMMA CallsStay == [Next]_vars => UNCHANGED call
  BY DEF Next, Startup, Start, Serve, ImportCheckpoint, ImportSever, Reconcile,
     Handler, TakeMutex, FetchFails, Fetched, AlertLands, AlertFails, MarkStale,
     Reserve, BeginPublication, RejectLocally, RelayAccepts, PublishFails,
     Checkpoint, Dispatch, RefuseRecorded, Reply, WatchdogTask, WdWake, WdCheck,
     WdAlertLands, WdGivesUp, WdMark, Environment, Arrive, HangUp, DiskFault,
     FetchedFault, UpstreamRuns, RelayAcceptsLate, OperatorSevers, RelayForgets,
     BackgroundFault, Crash, PublishTest, Tick, vars, env, proc, mem, job, up, hist

\* What a handler that moves hears and sends.
LEMMA SeversHeard ==
  ASSUME TypeOK, MutexOK, WriteOnce, Quiescent, Severs, [Next]_vars,
         NEW r \in Requests
  PROVE  /\ pc'[r] \in {"reserving", "opening", "publishing", "published", "recorded"}
              => Scope(r)' \notin heard'[r]
         /\ r \in wire' => Scope(r)' \notin heard'[r]
<1> DEFINE Past == {"reserving", "opening", "publishing", "published", "recorded"}
           Goal == /\ pc'[r] \in Past => Scope(r)' \notin heard'[r]
                   /\ r \in wire' => Scope(r)' \notin heard'[r]
<1> USE DEF env, proc, mem, job, up, hist, Goto, Leave
<1>0. /\ Scope(r)' = Scope(r)
      /\ pc[r] \in Past => Scope(r) \notin heard[r]
      /\ r \in wire => Scope(r) \notin heard[r]
      /\ r \in wire => pc[r] \in {"calling"} \cup Terminal
  BY CallsStay DEF Severs, SeverHolds, WriteOnce, Scope
<1>1. CASE Spares(r)
  BY <1>0, <1>1 DEF Spares
<1>2. CASE Arrive(r) \/ Crash
  BY <1>0, <1>2 DEF TypeOK, Arrive, Crash, Terminal
<1>3. CASE HangUp(r) \/ DiskFault(r) \/ FetchedFault(r)
  BY <1>0, <1>3 DEF TypeOK, HangUp, DiskFault, FetchedFault
<1>4. CASE Fetched(r)
  <2>1. /\ UNCHANGED <<wire, heard>>
        /\ \E S \in Answers(r) :
             pc'[r] \in Past => Scope(r) \notin MarkDegraded(chain, S).degraded
    BY <1>4 DEF TypeOK, Fetched
  <2>2. pc'[r] \in Past => Scope(r) \notin heard[r]
    BY <2>1 DEF Answers, MarkDegraded, TypeOK, ChainState
  <2> QED
    BY <1>0, <2>1, <2>2
<1>5. CASE TakeMutex(r)
  BY <1>0, <1>5 DEF TypeOK, TakeMutex, Terminal
<1>6. ASSUME Handler(r), ~Fetched(r), ~TakeMutex(r) PROVE Goal
  BY <1>0, <1>6
     DEF TypeOK, Handler, FetchFails, AlertLands, AlertFails, MarkStale, Reserve,
         BeginPublication, RejectLocally, RelayAccepts, PublishFails, Checkpoint,
         Dispatch, RefuseRecorded, Reply
<1> QED
  BY <1>1, <1>2, <1>3, <1>4, <1>5, <1>6, OthersStep DEF Moves

LEMMA SeversStep ==
  ASSUME TypeOK, MutexOK, WriteOnce, Quiescent, Severs, [Next]_vars, TypeOK'
  PROVE  Severs'
<1>1. severed' \subseteq disk'.chain.degraded /\ SeverSurvives'
  BY SeversJournaled
<1>2. \A r \in Requests :
        /\ pc'[r] \in {"reserving", "opening", "publishing", "published", "recorded"}
             => Scope(r)' \notin heard'[r]
        /\ r \in wire' => Scope(r)' \notin heard'[r]
  BY SeversHeard
<1> QED
  BY <1>1, <1>2 DEF Severs, SeverHolds

\* Handlers and the watchdog live only while the process serves.
LEMMA QuietWhenDown == Spec => []Quiescent
<1>1. Init => Quiescent
  BY DEF Init, Quiescent, Terminal
<1> QED
  BY <1>1, QuiescentStep, TypeCorrect, PTL DEF Spec

\* The reasons of SeversLast are inductive.
LEMMA SeversAlways == Spec => []Severs
<1>1. Init => Severs
  BY DEF Init, Severs, SeverSurvives, SeverHolds
<1>2. TypeOK /\ TypeOK' /\ MutexOK /\ WriteOnce /\ Quiescent /\ Severs /\ [Next]_vars
        => Severs'
  BY SeversStep
<1> QED
  BY <1>1, <1>2, TypeCorrect, MutexExcludes, WritesAreReserved, QuietWhenDown, PTL
     DEF Spec

\* A sever lasts: a call that reached upstream was not for a scope whose sever the
\* relay already had, and a sever once journaled by a serving gate is in its memory
\* ever after, for any number of crashes, faults and forgotten alerts.
THEOREM SeversAreKept == Spec => []SeversLast
<1>1. Severs => SeversLast
  BY DEF Severs, SeversLast
<1> QED
  BY <1>1, SeversAlways, PTL
-----------------------------------------------------------------------------
(* Markers, receipts and owners.                                           *)

\* Two journals that replay to the same chain, owners and known hashes.
SameChain(d, e) ==
  /\ e.chain.head = d.chain.head /\ e.chain.active = d.chain.active
  /\ e.chain.nonce = d.chain.nonce /\ e.chain.scopes = d.chain.scopes
  /\ e.owner = d.owner /\ e.known = d.known /\ (e.ok <=> d.ok)

ChainStays(d, e) == SameChain(d, e) /\ e.pending = d.pending

\* What a step can do to the journal, operations and severs aside.
JournalMoves ==
  \/ ChainStays(disk, disk') /\ lastId' \in {lastId, lastId + 1}
  \/ \E c \in fetched.cps :
       /\ ImportCheckpoint(c) /\ c.prev = disk.chain.head
       /\ Checkpointed(disk, disk', Genesis, NoCaller, c)
       /\ UNCHANGED lastId
  \/ \E r \in Requests : /\ pc[r] = "opening"
                         /\ SameChain(disk, disk')
                         /\ disk'.pending = disk.pending \cup {lastId + 1}
                         /\ lastId' = lastId + 1
  \/ \E r \in Requests : /\ pc[r] = "publishing"
                         /\ SameChain(disk, disk')
                         /\ disk'.pending = disk.pending \ {cp[r].id}
                         /\ UNCHANGED lastId
  \/ \E r \in Requests :
       /\ pc[r] = "published"
       /\ Checkpointed(disk, disk', cp[r].id, call[r].caller, cp[r])
       /\ Checkpoint(r) \/ ("written" \in FaultKinds /\ DiskFault(r))
       /\ UNCHANGED lastId

\* Records about operations and severs are not about publications.
LEMMA OtherRecords ==
  ASSUME NEW d \in Replay
  PROVE  /\ ChainStays(d, d) /\ ChainStays(d, Torn(d))
         /\ \A k, s : ChainStays(d, WithOutcome(d, k, s))
         /\ \A k : ChainStays(d, WithIntent(d, k)) /\ ChainStays(d, WithReview(d, k))
         /\ \A S : ChainStays(d, WithSever(d, S))
                   /\ ChainStays(d, Torn(WithSever(d, S)))
         /\ \A t : /\ SameChain(d, WithPublishing(d, t))
                   /\ WithPublishing(d, t).pending = d.pending \cup {t}
                   /\ SameChain(d, WithAborted(d, t))
                   /\ WithAborted(d, t).pending = d.pending \ {t}
<1>1. d.chain \in ChainState
  BY DEF Replay
<1>2. \A S : /\ MarkDegraded(d.chain, S).head = d.chain.head
             /\ MarkDegraded(d.chain, S).active = d.chain.active
             /\ MarkDegraded(d.chain, S).nonce = d.chain.nonce
             /\ MarkDegraded(d.chain, S).scopes = d.chain.scopes
  BY <1>1 DEF MarkDegraded, ChainState
<1> QED
  BY <1>2 DEF ChainStays, SameChain, Torn, WithOutcome, WithIntent, WithReview, WithSever,
         WithPublishing, WithAborted, Replay

LEMMA JournalStep == TypeOK /\ [Next]_vars => JournalMoves
<1> SUFFICES ASSUME TypeOK, [Next]_vars PROVE JournalMoves
  OBVIOUS
<1> USE DEF env, proc, mem, job, up, hist
<1>0. disk \in Replay
  BY DEF TypeOK
<1>1. ASSUME ChainStays(disk, disk'), lastId' \in {lastId, lastId + 1} PROVE JournalMoves
  BY <1>1 DEF JournalMoves
<1>2. ASSUME NEW c \in fetched.cps, ImportCheckpoint(c) PROVE JournalMoves
  <2>1. c \in Cp
    BY DEF TypeOK
  <2>2. Checkpointed(disk, WithCheckpoint(disk, Genesis, NoCaller, c),
                     Genesis, NoCaller, c)
    BY <1>0, <2>1, CheckpointParts
  <2> QED
    BY <1>0, <1>2, <2>2, OtherRecords DEF ImportCheckpoint, JournalMoves
<1>3. ASSUME NEW r \in Requests, pc[r] = "published", UNCHANGED lastId,
             disk' = WithCheckpoint(disk, cp[r].id, call[r].caller, cp[r]),
             Checkpoint(r) \/ ("written" \in FaultKinds /\ DiskFault(r))
      PROVE  JournalMoves
  <2>1. Checkpointed(disk, disk', cp[r].id, call[r].caller, cp[r])
    BY <1>0, <1>3, CheckpointParts DEF TypeOK
  <2> QED
    BY <1>3, <2>1 DEF JournalMoves
<1>4. ASSUME NEW r \in Requests, pc[r] = "opening", lastId' = lastId + 1,
             disk' = WithPublishing(disk, lastId + 1)
      PROVE  JournalMoves
  BY <1>0, <1>4, OtherRecords DEF JournalMoves
<1>5. ASSUME NEW r \in Requests, pc[r] = "publishing", UNCHANGED lastId,
             disk' = WithAborted(disk, cp[r].id)
      PROVE  JournalMoves
  BY <1>0, <1>5, OtherRecords DEF JournalMoves
<1>6. CASE \/ Start \/ Serve \/ (\E s \in Scopes : ImportSever(s))
           \/ \E k \in Keys : Reconcile(k)
  <2>1. /\ UNCHANGED lastId
        /\ \/ disk' = disk
           \/ \E s : disk' = WithSever(disk, s)
           \/ \E k \in Keys : disk' = WithReview(disk, k)
    BY <1>6 DEF Start, Serve, ImportSever, Reconcile
  <2> QED
    BY <1>0, <1>1, <2>1, OtherRecords
<1>7. ASSUME NEW r \in Requests, Handler(r) PROVE JournalMoves
  <2>1. CASE Fetched(r)
    <3>1. UNCHANGED lastId /\ \E S : disk' = WithSever(disk, S)
      BY <2>1 DEF Fetched
    <3> QED
      BY <1>0, <1>1, <3>1, OtherRecords
  <2>2. CASE \/ MarkStale(r) \/ Reserve(r) \/ Reply(r) \/ TakeMutex(r)
             \/ FetchFails(r) \/ AlertLands(r) \/ AlertFails(r) \/ RelayAccepts(r)
             \/ PublishFails(r) \/ Dispatch(r) \/ RefuseRecorded(r)
    BY <1>0, <1>1, <2>2, OtherRecords
       DEF MarkStale, Reserve, Reply, TakeMutex, FetchFails, AlertLands, AlertFails,
           RelayAccepts, PublishFails, Dispatch, RefuseRecorded
  <2>3. CASE BeginPublication(r) \/ RejectLocally(r) \/ Checkpoint(r)
    BY <1>3, <1>4, <1>5, <2>3 DEF BeginPublication, RejectLocally, Checkpoint
  <2> QED
    BY <1>7, <2>1, <2>2, <2>3 DEF Handler
<1>8. ASSUME NEW r \in Requests, DiskFault(r) PROVE JournalMoves
  <2>1. PICK e \in Intended(r) : disk' \in Remains(disk, e)
    BY <1>8 DEF DiskFault
  <2>2. lastId' = IF pc[r] = "opening" THEN lastId + 1 ELSE lastId
    BY <1>8 DEF DiskFault
  <2>3. disk' = disk \/ disk' = Torn(disk) \/ disk' = e
    BY <2>1 DEF Remains
  <2>4. CASE disk' = disk \/ disk' = Torn(disk)
    BY <1>0, <1>1, <2>2, <2>4, OtherRecords
  <2>5. disk' \notin {disk, Torn(disk)} => "written" \in FaultKinds
    BY <2>1 DEF Remains
  <2>6. CASE disk' = e /\ disk' \notin {disk, Torn(disk)}
    <3>1. \/ ChainStays(disk, e)
          \/ pc[r] = "opening" /\ e = WithPublishing(disk, lastId + 1)
          \/ pc[r] = "publishing" /\ e = WithAborted(disk, cp[r].id)
          \/ pc[r] = "published"
             /\ e = WithCheckpoint(disk, cp[r].id, call[r].caller, cp[r])
      BY <1>0, OtherRecords DEF Intended
    <3> QED
      BY <1>1, <1>3, <1>4, <1>5, <1>8, <2>2, <2>5, <2>6, <3>1
  <2> QED
    BY <2>3, <2>4, <2>6
<1>9. ASSUME NEW r \in Requests, FetchedFault(r) PROVE JournalMoves
  <2>1. \E S, U : disk' \in Remains(WithSever(disk, S), WithSever(disk, U))
    BY <1>9 DEF FetchedFault
  <2> QED
    BY <1>0, <1>1, <1>9, <2>1, OtherRecords DEF FetchedFault, Remains
<1>10. CASE BackgroundFault
  <2>1. \/ disk' \in Remains(disk, WithSever(disk, {wd.scope}))
        \/ \E k \in Unresolved(disk) : disk' \in Remains(disk, WithReview(disk, k))
    BY <1>10 DEF BackgroundFault
  <2> QED
    BY <1>0, <1>1, <1>10, <2>1, OtherRecords DEF BackgroundFault, Remains
<1>11. CASE WatchdogTask
  BY <1>0, <1>1, <1>11, OtherRecords
     DEF WatchdogTask, WdWake, WdCheck, WdAlertLands, WdGivesUp, WdMark
<1>12. CASE Crash \/ PublishTest
  BY <1>0, <1>1, <1>12, OtherRecords DEF Crash, PublishTest
<1>13. CASE UNCHANGED <<disk, lastId>>
  BY <1>0, <1>1, <1>13, OtherRecords
<1> QED
  BY <1>2, <1>6, <1>7, <1>8, <1>9, <1>10, <1>11, <1>12, <1>13
     DEF Next, Startup, Environment, Arrive, HangUp, UpstreamRuns, RelayAcceptsLate,
         OperatorSevers, RelayForgets, Tick, vars

\* A handler that stays inside its critical section keeps what assert_ready found.
LEMMA AdmittedMoves ==
  ASSUME TypeOK, Admitted, NEW r \in Requests, Moves(r), pc'[r] \in Locked
  PROVE  /\ Recoverable(disk)'
         /\ disk'.owner[Scope(r)] \in {call[r].caller, NoCaller}
         /\ disk'.pending = IF pc'[r] \in {"publishing", "published"}
                            THEN {cp'[r].id} ELSE {}
         /\ pc'[r] \in Staged => cp'[r].scope = Scope(r)
<1> USE DEF env, proc, mem, job, up, hist, Goto, Leave, Recoverable, Readable
<1>0. /\ disk \in Replay
      /\ pc[r] \in Locked =>
           /\ Recoverable(disk)
           /\ disk.owner[Scope(r)] \in {call[r].caller, NoCaller}
           /\ disk.pending = IF pc[r] \in {"publishing", "published"}
                             THEN {cp[r].id} ELSE {}
           /\ pc[r] \in Staged => cp[r].scope = Scope(r)
  BY DEF TypeOK, Admitted
<1>1. CASE TakeMutex(r)
  BY <1>0, <1>1 DEF TypeOK, TakeMutex, AssertReady, Locked, Staged
<1>2. CASE Fetched(r)
  <2>1. /\ pc[r] = "fetching" /\ pc'[r] \in {"alerting", "reserving", "opening"}
        /\ \E S : disk' = WithSever(disk, S)
    BY <1>2 DEF TypeOK, Fetched, Locked
  <2>2. pc'[r] \in Staged => cp'[r].scope = Scope(r)
    BY <1>2 DEF TypeOK, Fetched, Staged
  <2> QED
    BY <1>0, <2>1, <2>2 DEF WithSever, Replay, Locked
<1>3. CASE Reserve(r)
  BY <1>0, <1>3 DEF TypeOK, Reserve, WithIntent, Replay, Locked, Staged
<1>4. CASE BeginPublication(r)
  <2>1. cp'[r].id = lastId + 1 /\ cp'[r].scope = cp[r].scope
    BY <1>4 DEF TypeOK, BeginPublication, Cp
  <2> QED
    BY <1>0, <1>4, <2>1
       DEF TypeOK, BeginPublication, WithPublishing, Replay, Locked, Staged
<1>5. CASE AlertLands(r) \/ RelayAccepts(r)
  BY <1>0, <1>5 DEF TypeOK, AlertLands, RelayAccepts, Locked, Staged
<1>6. ~FetchFails(r) /\ ~AlertFails(r) /\ ~MarkStale(r) /\ ~RejectLocally(r)
      /\ ~PublishFails(r) /\ ~Checkpoint(r) /\ ~Dispatch(r) /\ ~RefuseRecorded(r)
      /\ ~Reply(r) /\ ~HangUp(r) /\ ~DiskFault(r) /\ ~FetchedFault(r)
  BY DEF TypeOK, FetchFails, AlertFails, MarkStale, RejectLocally, PublishFails,
         Checkpoint, Dispatch, RefuseRecorded, Reply, HangUp, DiskFault,
         FetchedFault, Locked
<1> QED
  BY <1>1, <1>2, <1>3, <1>4, <1>5, <1>6 DEF Moves, Handler

LEMMA AdmittedStep ==
  ASSUME TypeOK, MutexOK, Quiescent, Admitted, [Next]_vars, TypeOK'
  PROVE  Admitted'
<1>1. ASSUME NEW r \in Requests, pc'[r] \in Locked
      PROVE  /\ Recoverable(disk)'
             /\ disk'.owner[Scope(r)'] \in {call'[r].caller, NoCaller}
             /\ disk'.pending = IF pc'[r] \in {"publishing", "published"}
                                THEN {cp'[r].id} ELSE {}
             /\ pc'[r] \in Staged => cp'[r].scope = Scope(r)'
  <2>0. UNCHANGED call /\ Scope(r)' = Scope(r)
    BY CallsStay DEF Scope
  <2>1. CASE Moves(r)
    BY <1>1, <2>0, <2>1, AdmittedMoves
  <2>2. CASE Spares(r)
    <3>1. pc[r] \in Locked /\ UNCHANGED disk
      BY <1>1, <2>2 DEF Spares, HoldsMutex
    <3> QED
      BY <1>1, <2>0, <2>2, <3>1 DEF Spares, Admitted, Recoverable, Readable
  <2>3. CASE Arrive(r) \/ Crash
    BY <1>1, <2>3 DEF TypeOK, Arrive, Goto, Crash, Locked, Terminal
  <2> QED
    BY <2>1, <2>2, <2>3, OthersStep
<1>2. ASSUME status' = "importing" PROVE disk'.pending = {}
  <2>1. \/ Start
        \/ status = "importing" /\ UNCHANGED status
    BY <1>2, MovesUnderWay
       DEF Next, Startup, Start, Serve, ImportCheckpoint, ImportSever, Reconcile,
           WatchdogTask, WdWake, WdCheck, WdAlertLands, WdGivesUp, WdMark, Environment,
           Arrive, UpstreamRuns, RelayAcceptsLate, OperatorSevers, RelayForgets,
           BackgroundFault, Crash, PublishTest, Tick, vars, Moves, env, proc, mem,
           job, up, hist
  <2>2. CASE Start
    BY <2>2 DEF Start
  <2>3. CASE status = "importing"
    <3>1. disk.pending = {} /\ \A r \in Requests : pc[r] \in Terminal \cup {"idle"}
      BY <2>3 DEF Admitted, Quiescent
    <3> QED
      BY <3>1, JournalStep DEF JournalMoves, ChainStays, Checkpointed, Terminal
  <2> QED
    BY <2>1, <2>2, <2>3
<1>3. \A t, u \in disk'.pending : t = u
  <2>1. \A r \in Requests : pc[r] = "opening" => disk.pending = {}
    BY DEF Admitted, Locked
  <2>2. \/ disk'.pending \subseteq disk.pending
        \/ /\ \E r \in Requests : pc[r] = "opening"
           /\ disk'.pending = disk.pending \cup {lastId + 1}
    <3>1. JournalMoves
      BY JournalStep
    <3> QED
      BY <3>1 DEF JournalMoves, ChainStays, Checkpointed
  <2> QED
    BY <2>1, <2>2 DEF Admitted
<1> QED
  BY <1>1, <1>2, <1>3 DEF Admitted

\* Whoever is past assert_ready has the journal to itself: it replays, the scope is
\* free or the caller's own, and the only unresolved publication is its own.
THEOREM AdmittedIsAlone == Spec => []Admitted
<1>1. Init => Admitted
  BY DEF Init, Admitted, Locked, EmptyJournal
<1> QED
  BY <1>1, AdmittedStep, TypeCorrect, MutexExcludes, QuietWhenDown, PTL DEF Spec

\* A checkpoint hash on which a dispatch rests is in the journal and stays there.
LEMMA ReceiptsStep ==
  ASSUME TypeOK, MutexOK, WriteOnce, Quiescent, Receipts, [Next]_vars, TypeOK'
  PROVE  Receipts'
<1> SUFFICES ASSUME NEW r \in Requests, pc'[r] = "recorded" \/ r \in wire'
             PROVE  cp'[r].id \in disk'.known
  BY DEF Receipts
<1> USE DEF env, proc, mem, job, up, hist, Goto, Leave
<1>0. /\ disk.known \subseteq disk'.known
      /\ r \in wire => pc[r] \in {"calling"} \cup Terminal
  BY GrowsStep DEF Grows, WriteOnce
<1>1. CASE Spares(r)
  BY <1>0, <1>1 DEF Spares, Receipts
<1>2. CASE Arrive(r) \/ Crash
  BY <1>0, <1>2 DEF TypeOK, Receipts, Arrive, Crash, Terminal
<1>3. CASE HangUp(r) \/ DiskFault(r) \/ FetchedFault(r)
  BY <1>0, <1>3 DEF TypeOK, Receipts, HangUp, DiskFault, FetchedFault
<1>4. CASE Checkpoint(r)
  <2>1. Checkpointed(disk, disk', cp[r].id, call[r].caller, cp[r]) /\ cp' = cp
    BY <1>4, CheckpointParts DEF TypeOK, Checkpoint
  <2> QED
    BY <2>1 DEF Checkpointed
<1>5. ASSUME Handler(r), ~Checkpoint(r) PROVE cp'[r].id \in disk'.known
  <2>1. (pc[r] = "recorded" \/ r \in wire) /\ cp'[r] = cp[r]
    BY <1>0, <1>5
       DEF TypeOK, Handler, TakeMutex, FetchFails, Fetched, AlertLands, AlertFails,
           MarkStale, Reserve, BeginPublication, RejectLocally, RelayAccepts,
           PublishFails, Dispatch, RefuseRecorded, Reply, Terminal
  <2> QED
    BY <1>0, <2>1 DEF Receipts
<1> QED
  BY <1>1, <1>2, <1>3, <1>4, <1>5, OthersStep DEF Moves

\* The reasons of ReceiptBeforeEffect are inductive.
LEMMA ReceiptsAlways == Spec => []Receipts
<1>1. Init => Receipts
  BY DEF Init, Receipts
<1>2. TypeOK /\ TypeOK' /\ MutexOK /\ WriteOnce /\ Quiescent /\ Receipts /\ [Next]_vars
        => Receipts'
  BY ReceiptsStep
<1> QED
  BY <1>1, <1>2, TypeCorrect, MutexExcludes, WritesAreReserved, QuietWhenDown, PTL
     DEF Spec

\* A receipt precedes its effect: whatever was sent upstream has its CP in the
\* journal (server.rs finalize_router_open before dispatch), however late upstream
\* runs it and whatever became of its handler.
THEOREM ReceiptsPrecedeEffects == Spec => []ReceiptBeforeEffect
<1>1. TypeOK /\ Receipts => ReceiptBeforeEffect
  BY DEF TypeOK, Receipts, ReceiptBeforeEffect
<1> QED
  BY <1>1, ReceiptsAlways, TypeCorrect, PTL

\* What is granted is granted by a checkpoint.
LEMMA GrantedStep ==
  ASSUME TypeOK, MutexOK, Quiescent, [Next]_vars, TypeOK'
  PROVE  \/ Granted' \subseteq Granted
         \/ \E r \in Requests : /\ Checkpoint(r)
                                /\ Granted' \subseteq
                                     Granted \cup {<<Scope(r), call[r].caller>>}
<1> USE DEF env, proc, mem, job, up, hist, Goto, Leave
<1>1. \A q \in Requests : Scope(q)' = Scope(q) /\ call'[q] = call[q]
  BY CallsStay DEF Scope
<1>2. served' \subseteq Granted
  <2>1. \/ UNCHANGED served
        \/ \E r \in Requests : /\ pc[r] = "recorded"
                               /\ served' = served \cup {<<Scope(r), call[r].caller>>}
    BY DEF Next, Startup, Start, Serve, ImportCheckpoint, ImportSever, Reconcile,
       Handler, TakeMutex, FetchFails, Fetched, AlertLands, AlertFails, MarkStale,
       Reserve, BeginPublication, RejectLocally, RelayAccepts, PublishFails,
       Checkpoint, Dispatch, RefuseRecorded, Reply, WatchdogTask, WdWake, WdCheck,
       WdAlertLands, WdGivesUp, WdMark, Environment, Arrive, HangUp, DiskFault,
       FetchedFault, UpstreamRuns, RelayAcceptsLate, OperatorSevers, RelayForgets,
       BackgroundFault, Crash, PublishTest, Tick, vars
  <2> QED
    BY <2>1 DEF Granted
<1>3. ASSUME NEW q \in Requests, pc'[q] = "recorded"
      PROVE  pc[q] = "recorded" \/ Checkpoint(q)
  <2>1. CASE Spares(q) \/ Arrive(q) \/ Crash
    BY <1>3, <2>1 DEF TypeOK, Spares, Arrive, Crash, Terminal
  <2>2. CASE Moves(q)
    BY <1>3, <2>2
       DEF TypeOK, Moves, Handler, TakeMutex, FetchFails, Fetched, AlertLands,
           AlertFails, MarkStale, Reserve, BeginPublication, RejectLocally,
           RelayAccepts, PublishFails, Dispatch, RefuseRecorded, Reply, HangUp,
           DiskFault, FetchedFault
  <2> QED
    BY <2>1, <2>2, OthersStep
<1>4. CASE \A q \in Requests : pc'[q] = "recorded" => pc[q] = "recorded"
  <2>1. {q \in Requests : pc'[q] = "recorded"} \subseteq
          {q \in Requests : pc[q] = "recorded"}
    BY <1>4
  <2> QED
    BY <1>1, <1>2, <2>1 DEF Granted
<1>5. CASE \E r \in Requests : Checkpoint(r)
  <2>1. PICK r \in Requests : Checkpoint(r)
    BY <1>5
  <2>2. \A q \in Requests : pc'[q] = "recorded" => q = r \/ pc[q] = "recorded"
    BY <2>1 DEF TypeOK, Checkpoint
  <2>3. {q \in Requests : pc'[q] = "recorded"} \subseteq
          {q \in Requests : pc[q] = "recorded"} \cup {r}
    BY <2>2
  <2>4. Granted' \subseteq Granted \cup {<<Scope(r), call[r].caller>>}
    BY <1>1, <1>2, <2>3 DEF Granted
  <2> QED
    BY <2>1, <2>4
<1> QED
  BY <1>3, <1>4, <1>5

\* Who is granted a scope is a caller.
LEMMA GrantedType ==
  ASSUME TypeOK
  PROVE  Granted \subseteq Scopes \X Callers
  BY KeyType DEF TypeOK, Granted

LEMMA OwnersStep ==
  ASSUME TypeOK, MutexOK, Quiescent, Admitted, Owners, [Next]_vars, TypeOK'
  PROVE  Owners'
<1>1. ASSUME disk'.ok, NEW p \in Granted
      PROVE  disk'.owner[p[1]] = p[2]
  <2>1. p[1] \in Scopes /\ p[2] \in Callers
    BY GrantedType
  <2>2. disk.ok /\ disk.owner[p[1]] = p[2]
    BY <1>1, GrowsStep DEF Grows, Owners
  <2> QED
    BY <1>1, <2>1, <2>2, GrowsStep, CallersAssumption DEF Grows
<1>2. CASE Granted' \subseteq Granted
  BY <1>1, <1>2 DEF Owners
<1>3. ASSUME NEW r \in Requests, Checkpoint(r),
             Granted' \subseteq Granted \cup {<<Scope(r), call[r].caller>>}
      PROVE  Owners'
  <2>1. /\ Checkpointed(disk, disk', cp[r].id, call[r].caller, cp[r])
        /\ pc[r] = "published"
    BY <1>3, CheckpointParts DEF TypeOK, Checkpoint
  <2>2. /\ disk.ok /\ disk.owner[Scope(r)] \in {call[r].caller, NoCaller}
        /\ cp[r].scope = Scope(r) /\ Scope(r) # NoScope /\ Scope(r) \in Scopes
        /\ call[r].caller \in Callers /\ call[r].caller # NoCaller
    BY <2>1, KeyType, ScopesAssumption, CallersAssumption
       DEF Admitted, Locked, Staged, Recoverable
  <2>3. \A p \in Granted : p[1] = Scope(r) => p[2] = call[r].caller
    BY <2>2, GrantedType, CallersAssumption DEF Owners
  <2>4. disk'.ok => disk'.owner[Scope(r)] = call[r].caller
    BY <2>1, <2>2 DEF Checkpointed, TypeOK, Replay
  <2>5. \A p \in Granted' : p \in Granted \/ p = <<Scope(r), call[r].caller>>
    BY <1>3
  <2>6. \A p, q \in Granted' : p[1] = q[1] => p[2] = q[2]
    BY <2>3, <2>5 DEF Owners
  <2>7. disk'.ok => \A p \in Granted' : disk'.owner[p[1]] = p[2]
    BY <1>1, <2>4, <2>5
  <2> QED
    BY <2>6, <2>7 DEF Owners
<1> QED
  BY <1>2, <1>3, GrantedStep

\* The reasons of OneCallerPerScope are inductive.
LEMMA OwnersAlways == Spec => []Owners
<1>1. Init => Owners
  BY DEF Init, Owners, Granted
<1>2. TypeOK /\ TypeOK' /\ MutexOK /\ Quiescent /\ Admitted /\ Owners /\ [Next]_vars
        => Owners'
  BY OwnersStep
<1> QED
  BY <1>1, <1>2, TypeCorrect, MutexExcludes, QuietWhenDown, AdmittedIsAlone, PTL
     DEF Spec

\* A scope never moves between callers: all calls dispatched for it, before and
\* after any crash, restart or failing append, were made for one caller.
THEOREM ScopesKeepTheirCaller == Spec => []OneCallerPerScope
<1>1. Owners => OneCallerPerScope
  BY DEF Owners, Granted, OneCallerPerScope
<1> QED
  BY <1>1, OwnersAlways, PTL

-----------------------------------------------------------------------------
(* Writes on their way.                                                    *)

\* What an attempt's step does to its own write.
LEMMA DeliveredStep ==
  ASSUME TypeOK, TypeOK', MutexOK, WriteOnce, Quiescent, Delivered, [Next]_vars
  PROVE  Delivered'
<1> SUFFICES ASSUME NEW r \in Requests, pc'[r] = "calling", IsWrite(r)'
             PROVE  Key(r)' \in Keys /\ (r \notin wire' => effects'[Key(r)'] = 1)
  BY DEF Delivered
<1> USE DEF env, proc, mem, job, up, hist, Goto, Leave
<1>0. Key(r)' = Key(r) /\ IsWrite(r)
  BY CallsStay DEF Key, IsWrite
<1>1. CASE Dispatch(r)
  <2>1. Key(r) \in Keys /\ r \in wire'
    BY <1>0, <1>1 DEF Dispatch, WriteOnce, Live
  <2> QED
    BY <1>0, <2>1
<1>2. ASSUME NEW q \in Requests, UpstreamRuns(q), pc[r] = "calling"
      PROVE  Key(r) \in Keys /\ (r \notin wire' => effects'[Key(r)] = 1)
  <2>1. Key(r) \in Keys /\ (r \notin wire => effects[Key(r)] = 1)
    BY <1>0, <1>2 DEF Delivered
  <2>2. CASE r \in wire /\ q = r
    <3>1. effects[Key(r)] = 0
      BY <1>0, <2>2 DEF WriteOnce, Live
    <3> QED
      BY <1>0, <1>2, <2>1, <2>2, <3>1 DEF UpstreamRuns, TypeOK
  <2>3. CASE r \in wire /\ q # r
    BY <1>2, <2>1, <2>3 DEF UpstreamRuns
  <2>4. CASE r \notin wire
    <3>1. q \in wire /\ IsWrite(q) => effects[Key(q)] = 0
      BY DEF WriteOnce, Live
    <3>2. IsWrite(q) => Key(q) # Key(r)
      BY <1>2, <2>1, <2>4, <3>1 DEF UpstreamRuns
    <3> QED
      BY <1>2, <2>1, <2>4, <3>2 DEF UpstreamRuns, TypeOK
  <2> QED
    BY <2>2, <2>3, <2>4
<1>3. CASE /\ pc[r] = "calling"
           /\ UNCHANGED effects /\ (r \in wire => r \in wire')
  BY <1>0, <1>3 DEF Delivered
<1>4. \/ \E q \in Requests : UpstreamRuns(q) /\ pc' = pc
      \/ UNCHANGED effects /\ wire \subseteq wire'
  BY DEF Next, Startup, Start, Serve, ImportCheckpoint, ImportSever, Reconcile,
     Handler, TakeMutex, FetchFails, Fetched, AlertLands, AlertFails, MarkStale,
     Reserve, BeginPublication, RejectLocally, RelayAccepts, PublishFails,
     Checkpoint, Dispatch, RefuseRecorded, Reply, WatchdogTask, WdWake, WdCheck,
     WdAlertLands, WdGivesUp, WdMark, Environment, Arrive, HangUp, DiskFault,
     FetchedFault, UpstreamRuns, RelayAcceptsLate, OperatorSevers, RelayForgets,
     BackgroundFault, Crash, PublishTest, Tick, vars
<1>5. pc[r] = "calling" \/ Dispatch(r)
  <2>1. CASE Spares(r)
    BY <2>1 DEF Spares
  <2>2. CASE Arrive(r) \/ Crash
    BY <2>2 DEF TypeOK, Arrive, Crash, Terminal
  <2>3. CASE Moves(r)
    BY <2>3
       DEF TypeOK, Moves, Handler, TakeMutex, FetchFails, Fetched, AlertLands,
           AlertFails, MarkStale, Reserve, BeginPublication, RejectLocally,
           RelayAccepts, PublishFails, Checkpoint, RefuseRecorded, Reply, HangUp,
           DiskFault, FetchedFault
  <2> QED
    BY <2>1, <2>2, <2>3, OthersStep
<1> QED
  BY <1>0, <1>1, <1>2, <1>3, <1>4, <1>5

\* A write whose handler waits for upstream is on its way or has been executed.
LEMMA DeliveredAlways == Spec => []Delivered
<1>1. Init => Delivered
  BY DEF Init, Delivered
<1> QED
  BY <1>1, DeliveredStep, TypeCorrect, MutexExcludes, WritesAreReserved,
     QuietWhenDown, PTL DEF Spec

-----------------------------------------------------------------------------
(* How far a write has come.                                               *)

Sent(k) == \E r \in wire : IsWrite(r) /\ Key(r) = k

\* Of one operation key at most one write is on its way, and none once executed.
StageRead ==
  \A k \in Keys :
    /\ StageOf(k) = IF effects[k] = 1 THEN "executed"
                    ELSE IF Sent(k) THEN "sent"
                    ELSE IF disk.ops[k] = "none" THEN "fresh" ELSE "reserved"
    /\ effects[k] \in {0, 1}
    /\ Sent(k) => effects[k] = 0 /\ disk.ops[k] # "none"
    /\ disk.ops[k] = "none" => effects[k] = 0

LEMMA StageIs == TypeOK /\ WriteOnce => StageRead
<1> SUFFICES ASSUME TypeOK, WriteOnce, NEW k \in Keys
             PROVE  /\ StageOf(k) = IF effects[k] = 1 THEN "executed"
                                    ELSE IF Sent(k) THEN "sent"
                                    ELSE IF disk.ops[k] = "none" THEN "fresh"
                                    ELSE "reserved"
                    /\ effects[k] \in {0, 1}
                    /\ Sent(k) => effects[k] = 0 /\ disk.ops[k] # "none"
                    /\ disk.ops[k] = "none" => effects[k] = 0
  BY DEF StageRead
<1>1. /\ effects[k] \in {0, 1}
      /\ disk.ops[k] = "none" => effects[k] = 0
  BY DEF TypeOK, WriteOnce
<1>2. \A r \in wire : IsWrite(r) /\ Key(r) = k =>
        /\ effects[k] = 0 /\ disk.ops[k] # "none" /\ InFlight(k) = {r}
  BY DEF TypeOK, WriteOnce, Live, InFlight
<1>3. ~Sent(k) => InFlight(k) = {}
  BY DEF Sent, InFlight
<1>4. CASE Sent(k)
  BY <1>1, <1>2, <1>4 DEF Sent, StageOf
<1>5. CASE ~Sent(k)
  BY <1>1, <1>3, <1>5 DEF StageOf
<1> QED
  BY <1>1, <1>4, <1>5

\* The same after a step.
LEMMA StageIsNext == TypeOK' /\ WriteOnce' => StageRead'
  BY StageIs, PTL

-----------------------------------------------------------------------------
(* What a step does to the operations of the journal.                      *)

\* Key k, in state "from", goes to state "to"; upstream hears nothing of it.
Settles(k, from, to) ==
  /\ k \in Keys
  /\ disk.ops[k] \in from
  /\ disk'.ops = [disk.ops EXCEPT ![k] = to]
  /\ UNCHANGED <<wire, effects, severed, served>>

Open == OpStates \ {"none", "completed"}

PromiseMoves ==
  \/ /\ disk'.ops = disk.ops /\ UNCHANGED <<wire, effects, served>>
     /\ severed \subseteq severed'
  \/ \E k \in Keys : Settles(k, {"none"}, "reserved")
  \/ \E k \in Keys, s \in {"uncertain", "operator_review"} : Settles(k, Open, s)
  \/ \E r \in Requests : /\ pc[r] = "calling" /\ IsWrite(r) /\ r \notin wire
                         /\ Settles(Key(r), Open, "completed")
  \/ \E r \in Requests : Dispatch(r) \/ UpstreamRuns(r)

\* A record moves one operation, or none.
LEMMA OperationMoves ==
  ASSUME NEW d \in Replay, NEW k \in Keys
  PROVE  /\ WithIntent(d, k).ops = [d.ops EXCEPT ![k] = "reserved"]
         /\ WithReview(d, k).ops = [d.ops EXCEPT ![k] = "operator_review"]
  BY DEF WithIntent, WithReview, Replay

LEMMA OutcomeMoves ==
  ASSUME NEW d \in Replay, NEW k \in Keys, NEW s
  PROVE  WithOutcome(d, k, s).ops = [d.ops EXCEPT ![k] = s]
  BY DEF WithOutcome, Replay

\* The record a handler is about to append, as far as operations go.
LEMMA IntendedMoves ==
  ASSUME TypeOK, NEW r \in Requests, NEW e \in Intended(r)
  PROVE  \/ e.ops = disk.ops
         \/ /\ Key(r) \in Keys /\ disk.ops[Key(r)] = "none"
            /\ e.ops = [disk.ops EXCEPT ![Key(r)] = "reserved"]
         \/ /\ Key(r) \in Keys /\ disk.ops[Key(r)] \in Open
            /\ e.ops = [disk.ops EXCEPT ![Key(r)] = "uncertain"]
         \/ /\ pc[r] = "calling" /\ IsWrite(r) /\ r \notin wire
            /\ Key(r) \in Keys /\ disk.ops[Key(r)] \in Open
            /\ e.ops = [disk.ops EXCEPT ![Key(r)] = "completed"]
<1>0. disk \in Replay
  BY DEF TypeOK
<1>1. CASE pc[r] = "reserving"
  <2>1. e = WithIntent(disk, Key(r)) /\ CanReserve(disk, call[r].caller, call[r].op)
    BY <1>1 DEF Intended
  <2>2. Key(r) \in Keys /\ disk.ops[Key(r)] = "none"
    BY <2>1, KeyType DEF CanReserve, Key
  <2> QED
    BY <1>0, <2>1, <2>2, OperationMoves
<1>2. CASE pc[r] = "calling"
  <2>1. /\ IsWrite(r) /\ Key(r) \in Unresolved(disk)
        /\ \E s \in Outcomes(r) : e = WithOutcome(disk, Key(r), s)
    BY <1>2 DEF Intended
  <2>2. Key(r) \in Keys /\ disk.ops[Key(r)] \in Open
    BY <1>0, <2>1 DEF Unresolved, Open, Replay
  <2>3. PICK s \in Outcomes(r) : e = WithOutcome(disk, Key(r), s)
    BY <2>1
  <2>4. e.ops = [disk.ops EXCEPT ![Key(r)] = s]
    BY <1>0, <2>2, <2>3, OutcomeMoves
  <2>5. s = "uncertain" \/ (s = "completed" /\ r \notin wire)
    BY <2>3 DEF Outcomes
  <2> QED
    BY <1>2, <2>1, <2>2, <2>4, <2>5
<1>3. CASE pc[r] \notin {"reserving", "calling"}
  <2>1. \/ e = WithPublishing(disk, lastId + 1) \/ e = WithAborted(disk, cp[r].id)
        \/ e = WithCheckpoint(disk, cp[r].id, call[r].caller, cp[r])
        \/ e = WithSever(disk, {Scope(r)})
    BY <1>3 DEF Intended
  <2> QED
    BY <1>0, <2>1, OperationsUntouched
<1> QED
  BY <1>1, <1>2, <1>3

LEMMA PromiseHandler ==
  ASSUME TypeOK, NEW r \in Requests, Handler(r)
  PROVE  PromiseMoves
<1> USE DEF env, proc, mem, job, up, hist
<1>0. disk \in Replay
  BY DEF TypeOK
<1>1. CASE Dispatch(r)
  BY <1>1 DEF PromiseMoves
<1>2. CASE Reserve(r) /\ CanReserve(disk, call[r].caller, call[r].op)
  <2>1. Key(r) \in Keys /\ disk.ops[Key(r)] = "none"
    BY <1>2, KeyType DEF CanReserve, Key
  <2>2. disk' = WithIntent(disk, Key(r)) /\ UNCHANGED <<wire, effects, severed, served>>
    BY <1>2 DEF Reserve
  <2>3. Settles(Key(r), {"none"}, "reserved")
    BY <1>0, <2>1, <2>2, OperationMoves DEF Settles
  <2> QED
    BY <2>1, <2>3 DEF PromiseMoves
<1>3. CASE Reply(r) /\ IsWrite(r) /\ Readable(disk) /\ Key(r) \in Unresolved(disk)
  <2>1. Key(r) \in Keys /\ disk.ops[Key(r)] \in Open
    BY <1>0, <1>3 DEF Unresolved, Open, Replay
  <2>2. PICK s \in Outcomes(r) : disk' = WithOutcome(disk, Key(r), s)
    BY <1>3 DEF Reply
  <2>3. disk'.ops = [disk.ops EXCEPT ![Key(r)] = s]
    BY <1>0, <2>1, <2>2, OutcomeMoves
  <2>4. pc[r] = "calling" /\ UNCHANGED <<wire, effects, severed, served>>
    BY <1>3 DEF Reply
  <2>5. Settles(Key(r), Open, s)
    BY <2>1, <2>3, <2>4 DEF Settles
  <2>6. s = "uncertain" \/ (s = "completed" /\ r \notin wire)
    BY <2>2 DEF Outcomes
  <2> QED
    BY <1>3, <2>1, <2>4, <2>5, <2>6 DEF PromiseMoves
<1>4. CASE \/ Fetched(r) \/ MarkStale(r) \/ BeginPublication(r) \/ RejectLocally(r)
           \/ Checkpoint(r)
  <2>1. /\ UNCHANGED <<wire, effects, served>> /\ severed \subseteq severed'
        /\ \/ \E S : disk' = WithSever(disk, S)
           \/ \E t : disk' = WithPublishing(disk, t) \/ disk' = WithAborted(disk, t)
           \/ \E t, caller, c : disk' = WithCheckpoint(disk, t, caller, c)
    BY <1>4 DEF Fetched, MarkStale, BeginPublication, RejectLocally, Checkpoint
  <2> QED
    BY <1>0, <2>1, OperationsUntouched DEF PromiseMoves
<1>5. CASE \/ TakeMutex(r) \/ FetchFails(r) \/ AlertLands(r) \/ AlertFails(r)
           \/ Reserve(r) /\ ~CanReserve(disk, call[r].caller, call[r].op)
           \/ RelayAccepts(r) \/ PublishFails(r) \/ RefuseRecorded(r)
           \/ Reply(r) /\ ~(IsWrite(r) /\ Readable(disk) /\ Key(r) \in Unresolved(disk))
  BY <1>5 DEF TakeMutex, FetchFails, AlertLands, AlertFails, Reserve, RelayAccepts,
              PublishFails, RefuseRecorded, Reply, PromiseMoves
<1> QED
  BY <1>1, <1>2, <1>3, <1>4, <1>5 DEF Handler

LEMMA PromiseStepMoves == TypeOK /\ [Next]_vars => PromiseMoves
<1> SUFFICES ASSUME TypeOK, [Next]_vars PROVE PromiseMoves
  OBVIOUS
<1> USE DEF env, proc, mem, job, up, hist
<1>0. disk \in Replay
  BY DEF TypeOK
<1>1. ASSUME disk'.ops = disk.ops, UNCHANGED <<wire, effects, served>>,
             severed \subseteq severed'
      PROVE  PromiseMoves
  BY <1>1 DEF PromiseMoves
<1>2. ASSUME NEW k \in Unresolved(disk), disk'.ops = WithReview(disk, k).ops,
             UNCHANGED <<wire, effects, severed, served>>
      PROVE  PromiseMoves
  <2>1. k \in Keys /\ disk.ops[k] \in Open
    BY <1>0, <1>2 DEF Unresolved, Open, Replay
  <2> QED
    BY <1>0, <1>2, <2>1, OperationMoves DEF PromiseMoves, Settles
<1>3. CASE Startup
  <2>1. /\ UNCHANGED <<wire, effects, served>> /\ severed \subseteq severed'
        /\ \/ disk' = disk
           \/ \E S : disk' = WithSever(disk, S)
           \/ \E t, caller, c : disk' = WithCheckpoint(disk, t, caller, c)
    BY <1>3 DEF Startup, Start, Serve, ImportCheckpoint, ImportSever
  <2> QED
    BY <1>0, <1>1, <2>1, OperationsUntouched
<1>4. ASSUME NEW k \in Keys, Reconcile(k) PROVE PromiseMoves
  BY <1>2, <1>4 DEF Reconcile
<1>5. CASE WatchdogTask
  BY <1>0, <1>1, <1>5, OperationsUntouched
     DEF WatchdogTask, WdWake, WdCheck, WdAlertLands, WdGivesUp, WdMark
<1>6. ASSUME NEW r \in Requests, DiskFault(r) PROVE PromiseMoves
  <2>1. /\ UNCHANGED <<wire, effects, severed, served>>
        /\ \E e \in Intended(r) : disk' \in Remains(disk, e)
    BY <1>6 DEF DiskFault
  <2>2. PICK e \in Intended(r) : disk'.ops = disk.ops \/ disk'.ops = e.ops
    BY <1>0, <2>1, OperationsUntouched DEF Remains
  <2>3. CASE disk'.ops = disk.ops
    BY <1>1, <2>1, <2>3
  <2>4. CASE disk'.ops = e.ops
    BY <2>1, <2>4, IntendedMoves, <1>1 DEF PromiseMoves, Settles
  <2> QED
    BY <2>2, <2>3, <2>4
<1>7. ASSUME NEW r \in Requests, FetchedFault(r) PROVE PromiseMoves
  <2>1. \E S, U : disk' \in Remains(WithSever(disk, S), WithSever(disk, U))
                  /\ S \in SUBSET Scopes
    <3>1. PICK A \in Answers(r) :
            \E T \in SUBSET MarkDegraded(chain, A).degraded,
               u \in MarkDegraded(chain, A).degraded :
              disk' \in Remains(WithSever(disk, T), WithSever(disk, T \cup {u}))
      BY <1>7 DEF FetchedFault
    <3>2. MarkDegraded(chain, A).degraded \in SUBSET Scopes
      BY AnswersType, MarkDegradedType DEF TypeOK, ChainState
    <3> QED
      BY <3>1, <3>2
  <2>2. disk'.ops = disk.ops
    BY <1>0, <2>1, SeverType, OperationsUntouched DEF Remains
  <2> QED
    BY <1>1, <1>7, <2>2 DEF FetchedFault
<1>8. CASE BackgroundFault
  <2>1. /\ UNCHANGED <<wire, effects, severed, served>>
        /\ \/ disk' \in Remains(disk, WithSever(disk, {wd.scope}))
           \/ \E k \in Unresolved(disk) : disk' \in Remains(disk, WithReview(disk, k))
    BY <1>8 DEF BackgroundFault
  <2>2. \/ disk'.ops = disk.ops
        \/ \E k \in Unresolved(disk) : disk'.ops = WithReview(disk, k).ops
    BY <1>0, <2>1, OperationsUntouched DEF Remains
  <2> QED
    BY <1>1, <1>2, <2>1, <2>2
<1>9. CASE Crash
  BY <1>0, <1>1, <1>9, OperationsUntouched DEF Crash
<1>10. CASE UNCHANGED <<disk, wire, effects, severed, served>>
  BY <1>1, <1>10
<1>11. ASSUME NEW r \in Requests, UpstreamRuns(r) PROVE PromiseMoves
  BY <1>11 DEF PromiseMoves
<1> QED
  BY PromiseHandler, <1>3, <1>4, <1>5, <1>6, <1>7, <1>8, <1>9, <1>10, <1>11
     DEF Next, Environment, Arrive, HangUp, RelayAcceptsLate, OperatorSevers,
         RelayForgets, PublishTest, Tick, vars

-----------------------------------------------------------------------------
(* Every step keeps the promise.                                           *)

Keeps == [Promise!Next]_<<Stage, Reported, severed, served>>

\* A step moves the stage of one key, or of none.
LEMMA StageMoves ==
  ASSUME NEW k \in Keys, NEW v, StageOf(k)' = v,
         \A j \in Keys \ {k} : StageOf(j)' = StageOf(j)
  PROVE  Stage' = [Stage EXCEPT ![k] = v]
  BY DEF Stage

\* The journal settles an operation.
LEMMA SettlesKeeps ==
  ASSUME TypeOK, TypeOK', WriteOnce, WriteOnce', UNCHANGED call,
         NEW k \in Keys, NEW from, NEW to, Settles(k, from, to)
  PROVE  /\ \A j \in Keys : j # k \/ (from = Open /\ to # "none")
                              => StageOf(j)' = StageOf(j)
         /\ \A j \in Keys \ {k} : disk'.ops[j] = disk.ops[j]
         /\ disk'.ops[k] = to /\ disk.ops[k] \in from
         /\ UNCHANGED <<severed, served>>
<1>1. /\ \A j \in Keys \ {k} : disk'.ops[j] = disk.ops[j]
      /\ disk'.ops[k] = to /\ disk.ops[k] \in from
      /\ UNCHANGED <<wire, effects, severed, served>>
  BY DEF Settles, TypeOK, Replay
<1>2. \A j \in Keys : Sent(j)' <=> Sent(j)
  BY <1>1 DEF Sent, IsWrite, Key
<1>3. StageRead /\ StageRead'
  BY StageIs, StageIsNext
<1>4. ASSUME NEW j \in Keys, j # k \/ (from = Open /\ to # "none")
      PROVE  StageOf(j)' = StageOf(j)
  <2>1. disk'.ops[j] = "none" <=> disk.ops[j] = "none"
    BY <1>1, <1>4 DEF Open
  <2>2. effects'[j] = effects[j]
    BY <1>1
  <2> QED
    BY <1>2, <1>3, <2>1, <2>2 DEF StageRead
<1> QED
  BY <1>1, <1>4

\* An intent is the promise's reservation.
LEMMA IntentKeeps ==
  ASSUME TypeOK, TypeOK', WriteOnce, WriteOnce', UNCHANGED call,
         NEW k \in Keys, Settles(k, {"none"}, "reserved")
  PROVE  Keeps
<1>1. /\ \A j \in Keys \ {k} : /\ StageOf(j)' = StageOf(j)
                               /\ disk'.ops[j] = disk.ops[j]
      /\ disk'.ops[k] = "reserved" /\ disk.ops[k] = "none"
      /\ UNCHANGED <<severed, served>>
  BY SettlesKeeps
<1>2. effects[k] = 0 /\ effects'[k] = effects[k] /\ ~Sent(k) /\ ~Sent(k)'
  <2>1. effects[k] = 0 /\ ~Sent(k)
    BY <1>1, StageIs DEF StageRead
  <2>2. UNCHANGED <<wire, effects>>
    BY DEF Settles
  <2> QED
    BY <2>1, <2>2 DEF Sent, IsWrite, Key
<1>3. StageOf(k) = "fresh" /\ StageOf(k)' = "reserved"
  BY <1>1, <1>2, StageIs, StageIsNext DEF StageRead
<1>4. Stage[k] = "fresh" /\ Stage' = [Stage EXCEPT ![k] = "reserved"]
  BY <1>1, <1>3, StageMoves DEF Stage
<1>5. Reported' = Reported
  BY <1>1 DEF Reported
<1> QED
  BY <1>1, <1>4, <1>5 DEF Keeps, Promise!Next, Promise!Reserve, Promise!Move

\* An outcome or a review is a report, or nothing to the promise.
LEMMA OutcomeKeeps ==
  ASSUME TypeOK, TypeOK', WriteOnce, WriteOnce', Delivered, UNCHANGED call,
         NEW k \in Keys,
         \/ \E s \in {"uncertain", "operator_review"} : Settles(k, Open, s)
         \/ \E r \in Requests : /\ pc[r] = "calling" /\ IsWrite(r) /\ r \notin wire
                                /\ Key(r) = k
                                /\ Settles(k, Open, "completed")
  PROVE  Keeps
<1>1. PICK s \in {"uncertain", "operator_review", "completed"} :
        /\ Settles(k, Open, s)
        /\ s = "completed" => effects[k] = 1
  BY DEF Delivered
<1>2. /\ \A j \in Keys : StageOf(j)' = StageOf(j)
      /\ \A j \in Keys \ {k} : disk'.ops[j] = disk.ops[j]
      /\ disk'.ops[k] = s /\ disk.ops[k] \in Open
      /\ UNCHANGED <<severed, served>>
  BY <1>1, SettlesKeeps
<1>3. Stage' = Stage
  BY <1>2 DEF Stage
<1>4. CASE s # "completed"
  <2>1. Reported' = Reported
    BY <1>2, <1>4 DEF Reported, Open
  <2> QED
    BY <1>2, <1>3, <2>1 DEF Keeps
<1>5. CASE s = "completed"
  <2>1. Reported' = Reported \cup {k}
    BY <1>2, <1>5 DEF Reported
  <2>2. Stage[k] = "executed"
    BY <1>1, <1>5, StageIs DEF StageRead, Stage
  <2> QED
    BY <1>2, <1>3, <2>1, <2>2 DEF Keeps, Promise!Next, Promise!Report
<1> QED
  BY <1>4, <1>5

\* A dispatch is admitted for the caller of its scope, and sends a write that was
\* reserved for a scope that is not severed.
LEMMA DispatchKeeps ==
  ASSUME TypeOK, TypeOK', WriteOnce, WriteOnce', Quiescent, Severs, Owners,
         NEW r \in Requests, Dispatch(r)
  PROVE  Keeps
<1>1. /\ pc[r] = "recorded" /\ wire' = wire \cup {r} /\ r \notin wire
      /\ served' = served \cup {<<Scope(r), call[r].caller>>}
      /\ UNCHANGED <<call, disk, effects, severed>>
      /\ Scope(r) \in Scopes /\ call[r].caller \in Callers
  BY KeyType DEF Dispatch, Goto, mem, job, env, WriteOnce, Terminal
<1>2. \A p \in served : p[1] = Scope(r) => p[2] = call[r].caller
  <2>1. <<Scope(r), call[r].caller>> \in Granted
    BY <1>1 DEF Granted
  <2> QED
    BY <2>1 DEF Owners, Granted
<1>3. Promise!Admit(Scope(r), call[r].caller)
  BY <1>1, <1>2 DEF Promise!Admit
<1>4. Reported' = Reported
  BY <1>1 DEF Reported
<1>5. \A j \in Keys : Sent(j)' <=> Sent(j) \/ (IsWrite(r) /\ j = Key(r))
  BY <1>1 DEF Sent, IsWrite, Key
<1>6. StageRead /\ StageRead'
  BY StageIs, StageIsNext
<1>7. \A j \in Keys : ~(IsWrite(r) /\ j = Key(r)) => StageOf(j)' = StageOf(j)
  BY <1>1, <1>5, <1>6 DEF StageRead
<1>8. CASE ~IsWrite(r)
  <2>1. Stage' = Stage
    BY <1>7, <1>8 DEF Stage
  <2> QED
    BY <1>1, <1>3, <1>4, <2>1 DEF Keeps, Promise!Next, Promise!Call
<1>9. CASE IsWrite(r)
  <2>0. PICK k \in Keys : k = Key(r)
    BY <1>1, <1>9 DEF WriteOnce, Live
  <2>1. disk.ops[k] # "none" /\ effects[k] = 0 /\ ~Sent(k)
    BY <1>1, <1>9, <2>0 DEF WriteOnce, Live, Sent, TypeOK
  <2>2. StageOf(k) = "reserved" /\ StageOf(k)' = "sent"
    BY <1>1, <1>5, <1>6, <1>9, <2>0, <2>1 DEF StageRead
  <2>3. Stage[k] = "reserved" /\ Stage' = [Stage EXCEPT ![k] = "sent"]
    BY <1>7, <2>0, <2>2, StageMoves DEF Stage
  <2>4. Scope(r) \notin severed
    <3>1. IsTool(r) /\ status = "serving"
      BY <1>1, <1>9 DEF IsTool, IsWrite, Quiescent, Terminal
    <3>2. Scope(r) \notin chain.degraded
      BY <3>1 DEF Dispatch, StillLive
    <3> QED
      BY <3>1, <3>2 DEF Severs, SeverSurvives
  <2>5. k[1] = call[r].caller
    BY <2>0 DEF Key
  <2>6. Promise!Send(Scope(r), call[r].caller, k)
    BY <1>1, <1>3, <1>4, <2>3, <2>4, <2>5 DEF Promise!Send, Promise!Move
  <2> QED
    BY <1>1, <2>6 DEF Keeps, Promise!Next
<1> QED
  BY <1>8, <1>9

\* Upstream executes what was sent.
LEMMA UpstreamKeeps ==
  ASSUME TypeOK, TypeOK', WriteOnce, WriteOnce', NEW r \in Requests, UpstreamRuns(r)
  PROVE  Keeps
<1>1. /\ r \in wire /\ wire' = wire \ {r}
      /\ effects' = IF IsWrite(r) THEN [effects EXCEPT ![Key(r)] = @ + 1] ELSE effects
      /\ UNCHANGED <<call, disk, severed, served>>
  BY DEF UpstreamRuns, mem, job, hist
<1>2. Reported' = Reported
  BY <1>1 DEF Reported
<1>3. \A j \in Keys : ~(IsWrite(r) /\ j = Key(r)) => (Sent(j)' <=> Sent(j))
  BY <1>1 DEF Sent, IsWrite, Key
<1>4. StageRead /\ StageRead'
  BY StageIs, StageIsNext
<1>5. \A j \in Keys : ~(IsWrite(r) /\ j = Key(r)) => StageOf(j)' = StageOf(j)
  <2>1. \A j \in Keys : ~(IsWrite(r) /\ j = Key(r)) => effects'[j] = effects[j]
    BY <1>1 DEF TypeOK
  <2> QED
    BY <1>1, <1>3, <1>4, <2>1 DEF StageRead
<1>6. CASE ~IsWrite(r)
  <2>1. Stage' = Stage
    BY <1>5, <1>6 DEF Stage
  <2> QED
    BY <1>1, <1>2, <2>1 DEF Keeps
<1>7. CASE IsWrite(r)
  <2>0. PICK k \in Keys : k = Key(r)
    BY <1>1, <1>7 DEF WriteOnce, Live
  <2>1. Sent(k) /\ effects[k] = 0
    BY <1>1, <1>7, <2>0 DEF WriteOnce, Live, Sent, TypeOK
  <2>2. effects'[k] = 1
    BY <1>1, <1>7, <2>0, <2>1 DEF TypeOK
  <2>3. StageOf(k) = "sent" /\ StageOf(k)' = "executed"
    BY <1>4, <2>1, <2>2 DEF StageRead
  <2>4. Stage[k] = "sent" /\ Stage' = [Stage EXCEPT ![k] = "executed"]
    BY <1>5, <2>0, <2>3, StageMoves DEF Stage
  <2> QED
    BY <1>1, <1>2, <2>4 DEF Keeps, Promise!Next, Promise!Execute, Promise!Move
<1> QED
  BY <1>6, <1>7

\* Every step of the gate is one of the promise, or none to it.
LEMMA PromiseStep ==
  ASSUME TypeOK, TypeOK', WriteOnce, WriteOnce', Quiescent, Severs, Owners, Delivered,
         [Next]_vars
  PROVE  Keeps
<1>0. UNCHANGED call /\ PromiseMoves
  BY CallsStay, PromiseStepMoves
<1>1. CASE /\ disk'.ops = disk.ops /\ UNCHANGED <<wire, effects, served>>
           /\ severed \subseteq severed'
  <2>1. \A j \in Keys : Sent(j)' <=> Sent(j)
    BY <1>0, <1>1 DEF Sent, IsWrite, Key
  <2>2. \A j \in Keys : StageOf(j)' = StageOf(j)
    BY <1>1, <2>1, StageIs, StageIsNext DEF StageRead
  <2>3. Stage' = Stage /\ Reported' = Reported
    BY <1>1, <2>2 DEF Stage, Reported
  <2>4. severed' \in SUBSET Scopes /\ severed' = severed \cup severed'
    BY <1>1 DEF TypeOK
  <2> QED
    BY <1>1, <2>3, <2>4 DEF Keeps, Promise!Next, Promise!Sever
<1>2. ASSUME NEW k \in Keys, Settles(k, {"none"}, "reserved") PROVE Keeps
  BY <1>0, <1>2, IntentKeeps
<1>3. ASSUME NEW k \in Keys, NEW s \in {"uncertain", "operator_review"},
             Settles(k, Open, s)
      PROVE  Keeps
  BY <1>0, <1>3, OutcomeKeeps
<1>4. ASSUME NEW r \in Requests, pc[r] = "calling", IsWrite(r), r \notin wire,
             Settles(Key(r), Open, "completed")
      PROVE  Keeps
  <2>1. Key(r) \in Keys
    BY <1>4 DEF Settles
  <2> QED
    BY <1>0, <1>4, <2>1, OutcomeKeeps
<1>5. ASSUME NEW r \in Requests, Dispatch(r) \/ UpstreamRuns(r) PROVE Keeps
  BY <1>5, DispatchKeeps, UpstreamKeeps
<1> QED
  BY <1>0, <1>1, <1>2, <1>3, <1>4, <1>5 DEF PromiseMoves

\* The gate implements its promise: every behaviour of handlers, watchdog, startup,
\* reconciliation, crashes and failing appends, seen through what upstream executed
\* and the journal reports, is one in which each write is reserved, sent and executed
\* at most once and in this order, is reported completed only once executed, is never
\* sent for a scope known to be severed, and no scope serves two callers.
THEOREM GateKeepsPromise == Spec => KeepsPromise
<1>1. Init => Promise!Init
  <2>1. ASSUME Init PROVE Stage = [k \in Keys |-> "fresh"]
    <3>1. \A k \in Keys : InFlight(k) = {} /\ effects[k] = 0 /\ disk.ops[k] = "none"
      BY <2>1 DEF Init, InFlight, EmptyJournal
    <3>2. \A k \in Keys : StageOf(k) = "fresh"
      BY <3>1 DEF StageOf
    <3> QED
      BY <3>2 DEF Stage
  <2>2. Init => Reported = {} /\ severed = {} /\ served = {}
    BY DEF Init, Reported, EmptyJournal
  <2> QED
    BY <2>1, <2>2 DEF Promise!Init
<1>2. TypeOK /\ TypeOK' /\ WriteOnce /\ WriteOnce' /\ Quiescent /\ Severs /\ Owners
        /\ Delivered /\ [Next]_vars
        => [Promise!Next]_<<Stage, Reported, severed, served>>
  BY PromiseStep DEF Keeps
<1> QED
  BY <1>1, <1>2, TypeCorrect, WritesAreReserved, QuietWhenDown, SeversAlways,
     OwnersAlways, DeliveredAlways, PTL DEF Spec, KeepsPromise, Promise!Spec
=============================================================================
