--------------------------- MODULE GateProperties ---------------------------
(***************************************************************************)
(* What the gate must guarantee, stated over module Gate.                  *)
(***************************************************************************)
EXTENDS Gate

\* Every variable keeps its type.
TypeOK ==
  /\ clock \in Nat
  /\ status \in {"down", "importing", "serving"}
  /\ fetched \in [cps : SUBSET Cp, severs : SUBSET Scopes]
  /\ holder \in Requests \cup {Nobody, Watchdog}
  /\ chain \in ChainState
  /\ disk \in Replay
  /\ relay \in [cps : SUBSET Cp, severs : SUBSET Scopes]
  /\ wire \subseteq Requests
  /\ effects \in [Keys -> Nat]
  /\ pc \in [Requests -> PCs]
  /\ call \in [Requests -> Calls]
  /\ parent \in [Requests -> Nat]
  /\ until \in [Requests -> Nat]
  /\ now \in [Requests -> Nat]
  /\ cp \in [Requests -> Cp]
  /\ wd \in [pc : {"asleep", "waiting", "alerting", "alerted"}, now : Nat,
             scope : Scopes \cup {NoScope}]
  /\ wd.pc \in {"alerting", "alerted"} => wd.scope \in Scopes
  /\ lastId \in Nat
  /\ count \in [probes : Nat, forgets : Nat, crashes : Nat, faults : Nat]
  /\ severed \subseteq Scopes
  /\ heard \in [Requests -> SUBSET Scopes]
  /\ served \subseteq Scopes \X Callers

\* The session mutex excludes: a handler inside its critical section, and the
\* watchdog while it publishes, is the holder (chat drops the mutex before its
\* model call, tools keep it until the outcome is journaled).
MutexOK ==
  /\ \A r \in Requests : HoldsMutex(r) => holder = r
  /\ wd.pc \in {"alerting", "alerted"} => holder = Watchdog

\* Upstream executes the write of a caller's operation id at most once: across
\* retries, scopes, hang-ups, crashes and disk errors, and however late
\* upstream runs a call whose handler is gone (operations.rs reserve_in_scope).
AtMostOnceEffect == \A k \in Keys : effects[k] <= 1

\* Why AtMostOnceEffect holds: a write is live from its intent to its
\* execution, live writes have distinct keys that no effect was made for,
\* and a key without an intent has no effect.
Live(r) == /\ IsWrite(r)
           /\ \/ pc[r] \in {"opening", "publishing", "published", "recorded"}
              \/ r \in wire

WriteOnce ==
  /\ \A r \in Requests : Live(r) =>
       Key(r) \in Keys /\ disk.ops[Key(r)] # "none" /\ effects[Key(r)] = 0
  /\ \A r, q \in Requests : Live(r) /\ Live(q) /\ Key(r) = Key(q) => r = q
  /\ \A k \in Keys : effects[k] <= 1 /\ (disk.ops[k] = "none" => effects[k] = 0)
  /\ \A r \in wire : pc[r] \in {"calling"} \cup Terminal

\* A call that reached upstream was not for a scope whose sever the relay
\* already had when the handler took the mutex, even when the gate has
\* never seen the sever before (server.rs ensure_live_session).
SeverHolds ==
  \A r \in Requests : r \in wire => Scope(r) \notin heard[r]

\* A journaled sever is never forgotten: not by a restart, not by the replay
\* that replaces the chain after a local refusal, not by a relay that no
\* longer returns the alert.
SeverSurvives == status = "serving" => severed \subseteq chain.degraded

\* A sever lasts: in what is sent upstream, in memory and in the journal.
SeversLast == SeverHolds /\ SeverSurvives

\* The gate never journals a checkpoint that its own recovery rejects.
JournalRecoverable == disk.ok

\* While the mutex is free, a replay of the journal gives the chain in memory:
\* the same head, the same nonces and times per scope, the same severs.
MemoryMatchesJournal ==
  status = "serving" /\ holder = Nobody =>
    /\ chain.head = disk.chain.head
    /\ chain.scopes = disk.chain.scopes
    /\ chain.degraded = disk.chain.degraded

\* A scope never moves between callers, restarts included.
OneCallerPerScope ==
  \A p, q \in served : p[1] = q[1] => p[2] = q[2]

\* The CPs on the relay that the gate published: a probe has no scope.
ByRouter == {c \in relay.cps : c.scope # NoScope}

\* The gate never forks the operator's chain: no two CPs of its own on the relay
\* name the same parent, whatever was published, lost, acknowledged late or
\* interrupted.
NoFork == \A c, d \in ByRouter : c.prev = d.prev => c = d

\* Every CP of the gate on the relay is in the journal, or a marker in the
\* journal says that its publication is unresolved: nothing the gate published
\* goes unaccounted.
PublishedIsAccounted ==
  \A c \in ByRouter : c.id \in disk.known \cup disk.pending

\* A receipt precedes its effect: whatever was sent upstream has its CP in the
\* journal, and no publication was unresolved when it was sent.
ReceiptBeforeEffect == \A r \in wire : cp[r].id \in disk.known

\* A model call is dispatched within the validity of its credential.
ChatWithinCredential ==
  [][\A r \in Requests : Dispatch(r) /\ ~IsTool(r) => clock <= until[r]]_vars

-----------------------------------------------------------------------------
(* Liveness, under LiveSpec.                                               *)

\* A request that waits for the mutex is answered or refused, whatever other
\* requests, a slow relay and the watchdog do: nobody keeps the mutex.
RequestsAnswered ==
  \A r \in Requests : pc[r] = "waiting" ~> pc[r] \in Terminal

Silent(s) == /\ status = "serving"
             /\ chain.active = s
             /\ RouterStale(chain, clock)
             /\ s \notin chain.degraded

\* README: if no router CP arrives within Delta-t the watchdog severs the
\* scope.  The active scope does not stay silent unless it is severed, gets
\* a CP, or another scope becomes the active one.
SilentScopeSevered == \A s \in Scopes : Silent(s) ~> ~Silent(s)

-----------------------------------------------------------------------------
(* The gate implements the abstract promise.                               *)

InFlight(k) == {r \in wire : IsWrite(r) /\ Key(r) = k}

StageOf(k) ==
  CASE effects[k] = 0 /\ InFlight(k) = {} /\ disk.ops[k] = "none" -> "fresh"
    [] effects[k] = 0 /\ InFlight(k) = {} /\ disk.ops[k] # "none" -> "reserved"
    [] effects[k] = 0 /\ \E r \in wire : InFlight(k) = {r} -> "sent"
    [] effects[k] = 1 /\ InFlight(k) = {} -> "executed"
    [] OTHER -> "duplicated"

Stage    == [k \in Keys |-> StageOf(k)]
Reported == {k \in Keys : disk.ops[k] = "completed"}

Promise == INSTANCE Custody WITH stage <- Stage, reported <- Reported

\* Every behaviour of the gate, with its crashes, lost replies and disk
\* errors, is one of the promise: intent, send and execution happen at most
\* once and in this order, no reconciliation pass or late handler takes back
\* a reported completion, and none is reported before upstream executed.
KeepsPromise == Promise!Spec
=============================================================================
