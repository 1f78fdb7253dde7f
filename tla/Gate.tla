-------------------------------- MODULE Gate --------------------------------
(***************************************************************************)
(* One gate process serving chat and tool requests, with its journal, the  *)
(* operator's relay and the upstream service (membrane-gate/src/server.rs, *)
(* watchdog.rs, reconciliation.rs; startup in membrane-cli/src/main.rs).   *)
(*                                                                         *)
(* Handlers are asynchronous tasks.  An action is the code between two     *)
(* awaits or two journal writes of one handler: what other tasks, a crash, *)
(* a disk error or a client that hangs up can come in between.  The        *)
(* session mutex is "holder".  Requests whose credential, proof, grants or *)
(* arguments are refused before the mutex change none of this state and    *)
(* are not represented.                                                    *)
(***************************************************************************)
EXTENDS Journal

CONSTANTS Requests,   \* request attempts; a retry is another attempt
          Calls,      \* the calls an attempt can make
          Nobody,     \* the mutex is free
          Watchdog,   \* the Delta-t watchdog task
          FaultKinds, \* what a failed append can leave behind
          MaxTime, MaxIds, MaxProbes, MaxForgets, MaxCrashes, MaxFaults  \* bounds

ASSUME RequestsAssumption == Nobody \notin Requests /\ Watchdog \notin Requests
                             /\ Nobody # Watchdog
ASSUME CallsAssumption ==
  Calls \subseteq [kind : {"chat", "read", "write"}, caller : Callers,
                   scope : Scopes, op : OpIds \cup {NoOp}]
ASSUME FaultsAssumption == FaultKinds \subseteq {"refused", "written", "torn"}
ASSUME BoundsAssumption ==
  /\ MaxTime \in Nat /\ MaxIds \in Nat /\ MaxProbes \in Nat
  /\ MaxForgets \in Nat /\ MaxCrashes \in Nat /\ MaxFaults \in Nat

VARIABLES
  clock,    \* seconds, as now_secs() reads them
  status,   \* the process: down, importing relay history, or serving
  fetched,  \* the relay history that startup fetched and imports
  holder,   \* who holds the session mutex
  chain,    \* SessionChainState behind the mutex
  disk,     \* the journal (module Journal)
  relay,    \* what the operator's relay returns: CPs and severed scopes
  wire,     \* attempts whose call was sent upstream and has not been executed
  effects,  \* how often upstream executed the write of each operation key
  pc,       \* where each attempt's handler is
  call,     \* what each attempt asks for
  parent,   \* parent_cp_hash of the attempt's credential
  until,    \* valid_until of the attempt's credential
  now,      \* now_secs() as the handler read it, before the mutex
  cp,       \* the checkpoint the attempt is publishing
  wd,       \* the watchdog: its place, the time and the active scope it read
  lastId,   \* publications so far; tokens and CP hashes are fresh
  count,    \* environment events used up, each under its Max bound
  severed,  \* history: scopes whose sever a serving gate has journaled
  heard,    \* history: severs on the relay when an attempt took the mutex
  served    \* history: the scope and caller of every dispatched call

env  == <<clock, relay, count>>
proc == <<status, fetched>>
mem  == <<status, fetched, holder, chain>>
job  == <<call, parent, until, now, cp>>
up   == <<wire, effects>>
hist == <<severed, heard, served>>
vars == <<clock, status, fetched, holder, chain, disk, relay, wire, effects, pc, call,
          parent, until, now, cp, wd, lastId, count, severed, heard, served>>

NoEvents == [cps |-> {}, severs |-> {}]

NoCp == [id |-> Genesis, prev |-> Genesis, scope |-> NoScope,
         nonce |-> 0, at |-> 0]

IsTool(r)  == call[r].kind # "chat"
IsWrite(r) == call[r].kind = "write"
Key(r)     == <<call[r].caller, call[r].op>>
Scope(r)   == call[r].scope

Locked   == {"fetching", "alerting", "alerted", "reserving", "opening",
             "publishing", "published"}
Terminal == {"refused", "unsure", "answered", "lost"}
PCs      == Locked \cup Terminal \cup {"idle", "waiting", "recorded", "calling"}

\* A tool keeps the mutex until its outcome is journaled; chat drops it earlier.
HoldsMutex(r) == pc[r] \in Locked \/ (IsTool(r) /\ pc[r] \in {"recorded", "calling"})

Init ==
  /\ clock = 0
  /\ status = "down"
  /\ holder = Nobody
  /\ chain = GenesisChain
  /\ disk = EmptyJournal
  /\ relay = NoEvents
  /\ fetched = NoEvents
  /\ wire = {}
  /\ effects = [k \in Keys |-> 0]
  /\ pc = [r \in Requests |-> "idle"]
  /\ call \in [Requests -> Calls]
  /\ parent = [r \in Requests |-> Genesis]
  /\ until = [r \in Requests |-> 0]
  /\ now = [r \in Requests |-> 0]
  /\ cp = [r \in Requests |-> NoCp]
  /\ wd = [pc |-> "asleep", now |-> 0, scope |-> NoScope]
  /\ lastId = 0
  /\ count = [probes |-> 0, forgets |-> 0, crashes |-> 0, faults |-> 0]
  /\ severed = {}
  /\ heard = [r \in Requests |-> {}]
  /\ served = {}

\* Mutant: whoever leaves frees the mutex, held or not.
LeaveUnlocked(r, place) ==
  pc' = [pc EXCEPT ![r] = place] /\ holder' = Nobody

\* The handler of r moves on; if it held the mutex and leaves it, it is free.
Goto(r, place)    == pc' = [pc EXCEPT ![r] = place]
Leave(r, place)   == Goto(r, place) /\ holder' = IF holder = r THEN Nobody ELSE holder
RelaySevers(S)    == relay' = [relay EXCEPT !.severs = @ \cup S]
RelayCp(c)        == relay' = [relay EXCEPT !.cps = @ \cup {c}]
-----------------------------------------------------------------------------
(* Startup: gate_start and import_relay, one appended record per step.     *)

Unknown == {c \in fetched.cps : c.id \notin disk.known}

\* A pending publication, a torn tail or a failing replay stops startup.
Start ==
  /\ status = "down"
  /\ Recoverable(disk)
  /\ disk.pending = {}
  /\ status' = "importing"
  /\ fetched' = relay
  /\ UNCHANGED <<clock, holder, chain, disk, relay, up, pc, job, wd, lastId,
                 count, hist>>

\* Mutant: an unknown CP is imported whatever its parent.
ImportCheckpointUnchecked(c) ==
  /\ status = "importing"
  /\ c \in Unknown
  /\ \A d \in Unknown : c.at <= d.at
  /\ disk' = WithCheckpoint(disk, Genesis, NoCaller, c)
  /\ UNCHANGED <<clock, mem, relay, up, pc, job, wd, lastId, count, hist>>

\* Events are imported oldest first, in any order within one second.  A CP
\* that does not extend the durable head stops startup.
ImportCheckpoint(c) ==
  /\ status = "importing"
  /\ c \in Unknown
  /\ \A d \in Unknown : c.at <= d.at
  /\ IF c.prev = disk.chain.head
     THEN disk' = WithCheckpoint(disk, Genesis, NoCaller, c) /\ UNCHANGED proc
     ELSE status' = "down" /\ fetched' = NoEvents /\ UNCHANGED disk
  /\ UNCHANGED <<clock, holder, chain, relay, up, pc, job, wd, lastId, count,
                 hist>>

ImportSever(s) ==
  /\ status = "importing"
  /\ s \in fetched.severs \ disk.chain.degraded
  /\ disk' = WithSever(disk, {s})
  /\ UNCHANGED <<clock, mem, relay, up, pc, job, wd, lastId, count, hist>>

\* A reconciliation pass files every unresolved operation for review.  One
\* record per step: a crash or a dropped request can end a pass after any.
Reconcile(k) ==
  /\ status # "down"
  /\ holder = Nobody
  /\ Readable(disk)
  /\ k \in Unresolved(disk)
  /\ disk' = WithReview(disk, k)
  /\ UNCHANGED <<clock, mem, relay, up, pc, job, wd, lastId, count, hist>>

\* Mutant: severs are restored from the relay's recent window.
ServeFromWindow ==
  /\ status = "importing"
  /\ Unknown = {}
  /\ fetched.severs \subseteq disk.chain.degraded
  /\ \A k \in Unresolved(disk) : disk.ops[k] = "operator_review"
  /\ status' = "serving"
  /\ fetched' = NoEvents
  /\ chain' = [disk.chain EXCEPT !.degraded = fetched.severs]
  /\ severed' = severed \cup disk.chain.degraded
  /\ UNCHANGED <<clock, holder, disk, relay, up, pc, job, wd, lastId, count,
                 heard, served>>

\* The listener serves only after the import and the startup reconciliation.
Serve ==
  /\ status = "importing"
  /\ Unknown = {}
  /\ fetched.severs \subseteq disk.chain.degraded
  /\ \A k \in Unresolved(disk) : disk.ops[k] = "operator_review"
  /\ status' = "serving"
  /\ fetched' = NoEvents
  /\ chain' = disk.chain
  /\ severed' = severed \cup disk.chain.degraded
  /\ UNCHANGED <<clock, holder, disk, relay, up, pc, job, wd, lastId, count,
                 heard, served>>
-----------------------------------------------------------------------------
(* handle_chat and handle_tool_invoke.                                     *)

\* load_iac, authentication and validate_iac pass; now_secs() is read here.
\* A credential is anchored to genesis or to a CP the relay has shown.
Arrive(r) ==
  /\ status = "serving"
  /\ pc[r] = "idle"
  /\ \E p \in {Genesis} \cup {c.id : c \in relay.cps}, t \in clock..MaxTime :
       /\ parent' = [parent EXCEPT ![r] = p]
       /\ until' = [until EXCEPT ![r] = t]
  /\ now' = [now EXCEPT ![r] = clock]
  /\ Goto(r, "waiting")
  /\ UNCHANGED <<env, mem, disk, up, call, cp, wd, lastId, hist>>

\* The mutex is taken and assert_ready replays the journal.
TakeMutex(r) ==
  /\ pc[r] = "waiting"
  /\ holder = Nobody
  /\ heard' = [heard EXCEPT ![r] = relay.severs]
  /\ IF AssertReady(disk, call[r].caller, Scope(r))
     THEN Goto(r, "fetching") /\ holder' = r
     ELSE Goto(r, "refused") /\ UNCHANGED holder
  /\ UNCHANGED <<env, proc, chain, disk, up, job, wd, lastId, severed, served>>

FetchFails(r) ==
  /\ pc[r] = "fetching"
  /\ Leave(r, "refused")
  /\ UNCHANGED <<env, proc, chain, disk, up, job, wd, lastId, hist>>

\* What the relay answers: its severs at some moment while the fetch ran.
Answers(r) == {S \in SUBSET relay.severs : heard[r] \subseteq S}

(***************************************************************************)
(* The rest of ensure_live_session.  Severs are applied to the chain in    *)
(* memory and every degraded scope is journaled again.  A degraded scope   *)
(* or a bad anchor refuses before the scope is begun; a stale scope goes   *)
(* on to be degraded.  The parent and the nonce are read off the chain.    *)
(***************************************************************************)
Fetched(r) ==
  /\ pc[r] = "fetching"
  /\ \E S \in Answers(r) :
       LET seen  == MarkDegraded(chain, S)
           begun == BeginScope(seen, Scope(r))
           live  == AnchorOk(seen, parent[r], NewScope(seen, Scope(r)))
       IN  /\ disk' = WithSever(disk, seen.degraded)
           /\ severed' = severed \cup seen.degraded
           /\ \/ /\ Scope(r) \in seen.degraded
                 /\ chain' = seen
                 /\ Leave(r, "refused")
                 /\ UNCHANGED cp
              \/ /\ Scope(r) \notin seen.degraded
                 /\ ScopeStale(seen, Scope(r), now[r])
                 /\ chain' = seen
                 /\ Goto(r, "alerting")
                 /\ UNCHANGED <<holder, cp>>
              \/ /\ Scope(r) \notin seen.degraded
                 /\ ~ScopeStale(seen, Scope(r), now[r])
                 /\ ~live
                 /\ chain' = seen
                 /\ Leave(r, "refused")
                 /\ UNCHANGED cp
              \/ /\ Scope(r) \notin seen.degraded
                 /\ ~ScopeStale(seen, Scope(r), now[r])
                 /\ live
                 /\ chain' = begun
                 /\ cp' = [cp EXCEPT ![r] =
                             [id    |-> Genesis,
                              prev  |-> NextParent(begun, parent[r]),
                              scope |-> Scope(r),
                              nonce |-> begun.nonce + 1,
                              at    |-> now[r]]]
                 /\ Goto(r, IF IsWrite(r) THEN "reserving" ELSE "opening")
                 /\ UNCHANGED holder
  /\ UNCHANGED <<env, proc, up, call, parent, until, now, wd, lastId, heard,
                 served>>

\* A stale scope: the alert reaches the relay, then the sever is journaled.
AlertLands(r) ==
  /\ pc[r] = "alerting"
  /\ RelaySevers({Scope(r)})
  /\ Goto(r, "alerted")
  /\ UNCHANGED <<clock, count, mem, disk, up, job, wd, lastId, hist>>

AlertFails(r) ==
  /\ pc[r] \in {"alerting", "alerted"}
  /\ Leave(r, "refused")
  /\ UNCHANGED <<env, proc, chain, disk, up, job, wd, lastId, hist>>

MarkStale(r) ==
  /\ pc[r] = "alerted"
  /\ disk' = WithSever(disk, {Scope(r)})
  /\ chain' = MarkDegraded(chain, {Scope(r)})
  /\ severed' = severed \cup {Scope(r)}
  /\ Leave(r, "refused")
  /\ UNCHANGED <<env, proc, up, job, wd, lastId, heard, served>>

Reserve(r) ==
  /\ pc[r] = "reserving"
  /\ IF CanReserve(disk, call[r].caller, call[r].op)
     THEN /\ disk' = WithIntent(disk, Key(r))
          /\ Goto(r, "opening")
          /\ UNCHANGED holder
     ELSE Leave(r, "refused") /\ UNCHANGED disk
  /\ UNCHANGED <<env, proc, chain, up, job, wd, lastId, hist>>

BeginPublication(r) ==
  /\ pc[r] = "opening"
  /\ lastId < MaxIds
  /\ lastId' = lastId + 1
  /\ cp' = [cp EXCEPT ![r].id = lastId + 1]
  /\ disk' = WithPublishing(disk, lastId + 1)
  /\ Goto(r, "publishing")
  /\ UNCHANGED <<env, mem, up, call, parent, until, now, wd, hist>>

\* open_router_session refuses locally: the marker is cancelled and the chain
\* in memory is replaced by a replay.
RejectLocally(r) ==
  /\ pc[r] = "publishing"
  /\ disk' = WithAborted(disk, cp[r].id)
  /\ chain' = disk'.chain
  /\ Leave(r, "refused")
  /\ UNCHANGED <<env, proc, up, job, wd, lastId, hist>>

\* Mutant: the call goes out as soon as the relay has the receipt.
RelayAcceptsUnjournaled(r) ==
  /\ pc[r] = "publishing"
  /\ RelayCp(cp[r])
  /\ Goto(r, "recorded")
  /\ UNCHANGED <<clock, count, mem, disk, up, job, wd, lastId, hist>>

RelayAccepts(r) ==
  /\ pc[r] = "publishing"
  /\ RelayCp(cp[r])
  /\ Goto(r, "published")
  /\ UNCHANGED <<clock, count, mem, disk, up, job, wd, lastId, hist>>

\* Mutant: a relay error cancels the marker like a local refusal.
PublishFailsAborting(r) ==
  /\ pc[r] \in {"publishing", "published"}
  /\ disk' = WithAborted(disk, cp[r].id)
  /\ Leave(r, "unsure")
  /\ UNCHANGED <<env, proc, chain, up, job, wd, lastId, hist>>

\* A relay error does not say whether the event was stored: the marker stays.
PublishFails(r) ==
  /\ pc[r] \in {"publishing", "published"}
  /\ Leave(r, "unsure")
  /\ UNCHANGED <<env, proc, chain, disk, up, job, wd, lastId, hist>>

Checkpoint(r) ==
  /\ pc[r] = "published"
  /\ disk' = WithCheckpoint(disk, cp[r].id, call[r].caller, cp[r])
  /\ chain' = RecordCp(chain, cp[r].id, cp[r].nonce, now[r])
  /\ IF IsTool(r) THEN Goto(r, "recorded") /\ UNCHANGED holder
                  ELSE Leave(r, "recorded")
  /\ UNCHANGED <<env, proc, up, job, wd, lastId, hist>>

\* validate_iac and check_session_liveness again, with a fresh clock.
StillLive(r) ==
  /\ clock <= until[r]
  /\ Scope(r) \notin chain.degraded
  /\ ~ScopeStale(chain, Scope(r), clock)

Dispatch(r) ==
  /\ pc[r] = "recorded"
  /\ IsTool(r) => StillLive(r)
  /\ wire' = wire \cup {r}
  /\ served' = served \cup {<<Scope(r), call[r].caller>>}
  /\ Goto(r, "calling")
  /\ UNCHANGED <<env, mem, disk, effects, job, wd, lastId, severed, heard>>

\* The recheck fails, or the live registry no longer grants the call.
RefuseRecorded(r) ==
  /\ pc[r] = "recorded"
  /\ Leave(r, "refused")
  /\ UNCHANGED <<env, proc, chain, disk, up, job, wd, lastId, hist>>

\* github.execute or proxy.chat returns; a write journals its outcome.
Outcomes(r) == {"uncertain"} \cup IF r \in wire THEN {} ELSE {"completed"}

Reply(r) ==
  /\ pc[r] = "calling"
  /\ IF IsWrite(r) /\ Readable(disk) /\ Key(r) \in Unresolved(disk)
     THEN \E s \in Outcomes(r) : disk' = WithOutcome(disk, Key(r), s)
     ELSE UNCHANGED disk
  /\ Leave(r, "answered")
  /\ UNCHANGED <<env, proc, chain, up, job, wd, lastId, hist>>
-----------------------------------------------------------------------------
(* The Delta-t watchdog: tick.                                             *)

\* Mutant: the watchdog reads the clock once and not in every round.
WdWakeStale ==
  /\ status = "serving"
  /\ wd.pc = "asleep"
  /\ wd' = [wd EXCEPT !.pc = "waiting"]
  /\ UNCHANGED <<env, mem, disk, up, pc, job, lastId, hist>>

WdWake ==
  /\ status = "serving"
  /\ wd.pc = "asleep"
  /\ wd' = [wd EXCEPT !.pc = "waiting", !.now = clock]
  /\ UNCHANGED <<env, mem, disk, up, pc, job, lastId, hist>>

WdCheck ==
  /\ wd.pc = "waiting"
  /\ holder = Nobody
  /\ IF /\ chain.active # NoScope
        /\ chain.active \notin chain.degraded
        /\ RouterStale(chain, wd.now)
     THEN holder' = Watchdog /\ wd' = [wd EXCEPT !.pc = "alerting", !.scope = chain.active]
     ELSE wd' = [wd EXCEPT !.pc = "asleep"] /\ UNCHANGED holder
  /\ UNCHANGED <<env, proc, chain, disk, up, pc, job, lastId, hist>>

WdAlertLands ==
  /\ wd.pc = "alerting"
  /\ RelaySevers({wd.scope})
  /\ wd' = [wd EXCEPT !.pc = "alerted"]
  /\ UNCHANGED <<clock, count, mem, disk, up, pc, job, lastId, hist>>

\* Mutant: the watchdog keeps the mutex when the alert is not acknowledged.
WdGivesUpLocked ==
  /\ wd.pc \in {"alerting", "alerted"}
  /\ wd' = [wd EXCEPT !.pc = "asleep"]
  /\ UNCHANGED <<env, mem, disk, up, pc, job, lastId, hist>>

\* The alert was not acknowledged, or the sever could not be journaled.
WdGivesUp ==
  /\ wd.pc \in {"alerting", "alerted"}
  /\ wd' = [wd EXCEPT !.pc = "asleep"]
  /\ holder' = Nobody
  /\ UNCHANGED <<env, proc, chain, disk, up, pc, job, lastId, hist>>

WdMark ==
  /\ wd.pc = "alerted"
  /\ Readable(disk)
  /\ disk' = WithSever(disk, {wd.scope})
  /\ chain' = MarkDegraded(chain, {wd.scope})
  /\ severed' = severed \cup {wd.scope}
  /\ wd' = [wd EXCEPT !.pc = "asleep"]
  /\ holder' = Nobody
  /\ UNCHANGED <<env, proc, up, pc, job, lastId, heard, served>>
-----------------------------------------------------------------------------
(* The environment.                                                        *)

\* What is left of an append that returned an error.
Remains(d, e) == {d : k \in FaultKinds \cap {"refused"}}
                 \cup {e : k \in FaultKinds \cap {"written"}}
                 \cup {Torn(d) : k \in FaultKinds \cap {"torn"}}

\* The record a handler is about to append, as the journal it would make.
Intended(r) ==
  CASE pc[r] = "reserving" /\ CanReserve(disk, call[r].caller, call[r].op)
                             -> {WithIntent(disk, Key(r))}
    [] pc[r] = "opening"     -> {WithPublishing(disk, lastId + 1)}
    [] pc[r] = "publishing"  -> {WithAborted(disk, cp[r].id)}
    [] pc[r] = "published"   -> {WithCheckpoint(disk, cp[r].id, call[r].caller, cp[r])}
    [] pc[r] = "alerted"     -> {WithSever(disk, {Scope(r)})}
    [] pc[r] = "calling" /\ IsWrite(r) /\ Key(r) \in Unresolved(disk)
                             -> {WithOutcome(disk, Key(r), s) : s \in Outcomes(r)}
    [] OTHER                 -> {}

DiskFault(r) ==
  /\ count.faults < MaxFaults
  /\ pc[r] = "opening" => lastId < MaxIds
  /\ \E e \in Intended(r) : disk' \in Remains(disk, e)
  /\ Leave(r, IF pc[r] = "calling" THEN "answered" ELSE "refused")
  /\ lastId' = IF pc[r] = "opening" THEN lastId + 1 ELSE lastId
  /\ count' = [count EXCEPT !.faults = @ + 1]
  /\ UNCHANGED <<clock, relay, proc, chain, up, job, wd, hist>>

\* One of the sever records of ensure_live_session is not written.
FetchedFault(r) ==
  /\ pc[r] = "fetching"
  /\ count.faults < MaxFaults
  /\ \E S \in Answers(r) :
       LET seen == MarkDegraded(chain, S)
       IN  /\ chain' = seen
           /\ \E T \in SUBSET seen.degraded, u \in seen.degraded :
                disk' \in Remains(WithSever(disk, T), WithSever(disk, T \cup {u}))
  /\ Leave(r, "refused")
  /\ count' = [count EXCEPT !.faults = @ + 1]
  /\ UNCHANGED <<clock, relay, proc, up, job, wd, lastId, hist>>

\* The append of the watchdog or of a reconciliation pass fails.
BackgroundFault ==
  /\ count.faults < MaxFaults
  /\ \/ /\ wd.pc = "alerted"
        /\ disk' \in Remains(disk, WithSever(disk, {wd.scope}))
        /\ wd' = [wd EXCEPT !.pc = "asleep"]
        /\ holder' = Nobody
     \/ /\ status = "serving"
        /\ holder = Nobody
        /\ \E k \in Unresolved(disk) : disk' \in Remains(disk, WithReview(disk, k))
        /\ UNCHANGED <<wd, holder>>
  /\ count' = [count EXCEPT !.faults = @ + 1]
  /\ UNCHANGED <<clock, relay, proc, chain, up, pc, job, lastId, hist>>

\* The client hangs up: the handler's future is dropped at its await.
HangUp(r) ==
  /\ pc[r] \in {"waiting", "fetching", "alerting", "alerted", "publishing",
                "published", "calling"}
  /\ Leave(r, "lost")
  /\ UNCHANGED <<env, proc, chain, disk, up, job, wd, lastId, hist>>

\* A crash in the middle of an append can leave a partial frame.
Appending ==
  \/ status = "importing"
  \/ \E r \in Requests : pc[r] = "fetching" \/ Intended(r) # {}
  \/ wd.pc = "alerted"

Crash ==
  /\ status # "down"
  /\ count.crashes < MaxCrashes
  /\ count' = [count EXCEPT !.crashes = @ + 1]
  /\ status' = "down"
  /\ fetched' = NoEvents
  /\ holder' = Nobody
  /\ chain' = GenesisChain
  /\ pc' = [r \in Requests |-> IF pc[r] \in Terminal \cup {"idle"} THEN pc[r]
                               ELSE "lost"]
  /\ wd' = [wd EXCEPT !.pc = "asleep"]
  /\ disk' \in {disk} \cup {Torn(disk) : k \in IF Appending
                                               THEN FaultKinds \cap {"torn"} ELSE {}}
  /\ UNCHANGED <<clock, relay, up, job, lastId, hist>>

\* Upstream executes a call that was sent, whether or not anybody still waits.
UpstreamRuns(r) ==
  /\ r \in wire
  /\ wire' = wire \ {r}
  /\ effects' = IF IsWrite(r) THEN [effects EXCEPT ![Key(r)] = @ + 1] ELSE effects
  /\ UNCHANGED <<env, mem, disk, pc, job, wd, lastId, hist>>

\* The relay stores a CP after its publisher gave up on it.
RelayAcceptsLate(r) ==
  /\ pc[r] \in {"unsure", "lost"}
  /\ cp[r].id \in disk.pending
  /\ cp[r] \notin relay.cps
  /\ RelayCp(cp[r])
  /\ UNCHANGED <<clock, count, mem, disk, up, pc, job, wd, lastId, hist>>

OperatorSevers(s) ==
  /\ s \notin relay.severs
  /\ RelaySevers({s})
  /\ UNCHANGED <<clock, count, mem, disk, up, pc, job, wd, lastId, hist>>

\* Queries are capped at 5,000 events: an old sever falls out of the window.
RelayForgets(s) ==
  /\ count.forgets < MaxForgets
  /\ s \in relay.severs
  /\ relay' = [relay EXCEPT !.severs = @ \ {s}]
  /\ heard' = [r \in Requests |-> heard[r] \ {s}]
  /\ count' = [count EXCEPT !.forgets = @ + 1]
  /\ UNCHANGED <<clock, mem, disk, up, pc, job, wd, lastId, severed, served>>

\* membrane bus publish-test: a liveness CP whose parent is always genesis.
PublishTest ==
  /\ count.probes < MaxProbes
  /\ lastId < MaxIds
  /\ lastId' = lastId + 1
  /\ RelayCp([NoCp EXCEPT !.id = lastId + 1, !.at = clock])
  /\ count' = [count EXCEPT !.probes = @ + 1]
  /\ UNCHANGED <<clock, mem, disk, up, pc, job, wd, hist>>

Tick ==
  /\ clock < MaxTime
  /\ clock' = clock + 1
  /\ UNCHANGED <<relay, count, mem, disk, up, pc, job, wd, lastId, hist>>
-----------------------------------------------------------------------------
Startup ==
  \/ Start \/ Serve
  \/ \E c \in fetched.cps : ImportCheckpoint(c)
  \/ \E s \in Scopes : ImportSever(s)

Handler(r) ==
  \/ TakeMutex(r) \/ FetchFails(r) \/ Fetched(r)
  \/ AlertLands(r) \/ AlertFails(r) \/ MarkStale(r)
  \/ Reserve(r) \/ BeginPublication(r) \/ RejectLocally(r)
  \/ RelayAccepts(r) \/ PublishFails(r) \/ Checkpoint(r)
  \/ Dispatch(r) \/ RefuseRecorded(r) \/ Reply(r)

WatchdogTask == WdWake \/ WdCheck \/ WdAlertLands \/ WdGivesUp \/ WdMark

Environment ==
  \/ \E r \in Requests : Arrive(r) \/ HangUp(r) \/ DiskFault(r)
                         \/ FetchedFault(r) \/ UpstreamRuns(r)
                         \/ RelayAcceptsLate(r)
  \/ \E s \in Scopes : OperatorSevers(s) \/ RelayForgets(s)
  \/ BackgroundFault \/ Crash \/ PublishTest \/ Tick

Next ==
  \/ Startup
  \/ \E k \in Keys : Reconcile(k)
  \/ \E r \in Requests : Handler(r)
  \/ WatchdogTask
  \/ Environment

Spec == Init /\ [][Next]_vars

(***************************************************************************)
(* Fairness.  A handler or the watchdog that holds the mutex or waits for  *)
(* no one goes on: relay and upstream calls have timeouts.  The mutex      *)
(* (tokio) is granted in FIFO order, so nobody waits for it forever.  An   *)
(* alert that is retried without end reaches the relay and the journal     *)
(* now and then.                                                           *)
(***************************************************************************)
Continue(r) == Handler(r) /\ pc[r] # "waiting"

Fairness ==
  /\ \A r \in Requests : WF_vars(Continue(r)) /\ SF_vars(TakeMutex(r))
  /\ WF_vars(WatchdogTask) /\ SF_vars(WdCheck)
  /\ SF_vars(WdAlertLands) /\ SF_vars(WdMark)

LiveSpec == Spec /\ Fairness
=============================================================================
