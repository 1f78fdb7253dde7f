--------------------------- MODULE GateInvariants ---------------------------
(***************************************************************************)
(* Why the properties of module GateProperties hold: the inductive         *)
(* invariants behind them, checked by TLC and proved in the proof modules. *)
(***************************************************************************)
EXTENDS GateProperties

\* Handlers and watchdog live only while the process serves.
Quiescent ==
  status # "serving" => /\ \A r \in Requests : pc[r] \in Terminal \cup {"idle"}
                        /\ wd.pc = "asleep"

\* Past the anchor check, with its parent read off the chain.
Staged == {"reserving", "opening", "publishing", "published"}

\* Whoever is past assert_ready and holds the mutex finds the journal as
\* assert_ready left it, but for its own publication marker.
Admitted ==
  /\ \A r \in Requests : pc[r] \in Locked =>
       /\ Recoverable(disk)
       /\ disk.owner[Scope(r)] \in {call[r].caller, NoCaller}
       /\ disk.pending = IF pc[r] \in {"publishing", "published"}
                         THEN {cp[r].id} ELSE {}
       /\ pc[r] \in Staged => cp[r].scope = Scope(r)
  /\ status = "importing" => disk.pending = {}
  /\ \A t, u \in disk.pending : t = u

\* Why SeversLast holds.
Severs ==
  /\ severed \subseteq disk.chain.degraded
  /\ SeverSurvives
  /\ \A r \in Requests :
       pc[r] \in {"reserving", "opening", "publishing", "published", "recorded"}
         => Scope(r) \notin heard[r]
  /\ SeverHolds

\* Why OneCallerPerScope holds: whose scope it is, is in the journal before
\* anything is dispatched for it.
Granted == served \cup {<<Scope(r), call[r].caller>> :
                          r \in {q \in Requests : pc[q] = "recorded"}}

Owners ==
  /\ \A p, q \in Granted : p[1] = q[1] => p[2] = q[2]
  /\ disk.ok => \A p \in Granted : disk.owner[p[1]] = p[2]

\* Why ReceiptBeforeEffect holds.
Receipts ==
  \A r \in Requests : pc[r] = "recorded" \/ r \in wire => cp[r].id \in disk.known

\* Why KeepsPromise holds: a write whose handler waits for upstream is on its way
\* or has been executed.
Delivered ==
  \A r \in Requests : pc[r] = "calling" /\ IsWrite(r) =>
    Key(r) \in Keys /\ (r \notin wire => effects[Key(r)] = 1)

\* Publications have names of their own: the token that BeginPublication draws
\* is new, and a chain proof that has one never changes.
Fresh ==
  /\ \A c \in relay.cps : c.id \in 1..lastId /\ c.prev < c.id
  /\ fetched.cps \subseteq relay.cps
  /\ disk.pending \subseteq 1..lastId
  /\ disk.known \subseteq 1..lastId
  /\ disk.known \cap disk.pending = {}
  /\ \A r \in Requests :
       /\ cp[r].id <= lastId
       /\ cp[r].id # Genesis => cp[r].prev < cp[r].id /\ cp[r].scope # NoScope
       /\ pc[r] \in {"idle", "waiting", "fetching", "reserving", "opening"}
            => cp[r].id = Genesis
       /\ pc[r] \in {"publishing", "published", "recorded", "calling"}
            => cp[r].id # Genesis
       /\ pc[r] = "publishing" => \A c \in relay.cps : c.id # cp[r].id
       /\ \A q \in Requests : cp[r].id = cp[q].id => r = q \/ cp[r].id = Genesis
       /\ \A c \in relay.cps : c.id = cp[r].id => c = cp[r]
  /\ \A c, d \in relay.cps : c.id = d.id => c = d

-----------------------------------------------------------------------------
(* The chain.                                                              *)

\* An append that fails after its frame reached the disk leaves the journal ahead
\* of the memory.
FaultsAreClean == "written" \notin FaultKinds \/ count.faults = 0

\* No attempt that may still open a session has a credential anchored to a probe
\* that the gate never imported.
AnchorsAreKnown ==
  \A r \in Requests : pc[r] \in {"waiting", "fetching"} =>
    parent[r] \in {Genesis} \cup {c.id : c \in ByRouter} \cup disk.known

\* Nothing on the chain, and no credential, names a proof that does not exist.
Bounded ==
  /\ disk.chain.head <= lastId /\ chain.head <= lastId
  /\ \A r \in Requests : /\ parent[r] \in {Genesis} \cup {c.id : c \in relay.cps}
                         /\ cp[r].prev <= lastId
  /\ \A c \in relay.cps : c.scope = NoScope => c.prev = Genesis
  /\ count.probes = 0 => relay.cps = ByRouter

\* r will publish, or may have published, a child of cp[r].prev.
Stakes(r) == pc[r] \in Staged \/ cp[r].id \in disk.pending

\* Why NoFork holds: memory and journal agree on the head, nothing published
\* has the head as its parent, and a parent that was read is not read twice.
Heads ==
  /\ status = "serving" /\ disk.ok => chain.head = disk.chain.head
  /\ disk.ok /\ disk.chain.head = Genesis => disk.known = {}
  /\ disk.ok => \A c \in ByRouter : c.id \in disk.known => c.prev # disk.chain.head
  /\ \A r \in Requests :
       /\ Stakes(r) => \A c \in ByRouter : c.prev = cp[r].prev => c = cp[r]
       /\ pc[r] \in {"publishing", "published"}
            => \A c \in ByRouter : c.prev # cp[r].id

\* The chain carries the nonce of its active scope.
Carries(c) == c.active # NoScope => c.nonce = c.scopes[c.active].nonce

\* Why JournalRecoverable holds: what a handler has staged is what its checkpoint
\* will be replayed against.
Stages ==
  /\ JournalRecoverable
  /\ Carries(disk.chain)
  /\ status = "serving" => Carries(chain) /\ chain.scopes = disk.chain.scopes
  /\ \A r \in Requests : pc[r] \in Staged =>
       /\ chain.active = Scope(r)
       /\ cp[r].prev = disk.chain.head
       /\ cp[r].nonce = disk.chain.scopes[Scope(r)].nonce + 1
       /\ cp[r].at = now[r]

\* Severs are in memory and in the journal, as long as no append fails.
SeversAgree ==
  status = "serving" => chain.degraded = disk.chain.degraded

\* The invariant of the gate's custody, proved inductive in the proof modules
\* (server.rs handle_tool_invoke and handle_chat under the session mutex).  The
\* parts on the chain need memory and journal to agree, and the last one also that
\* nobody else publishes.
CustodyInv ==
  /\ TypeOK /\ MutexOK /\ WriteOnce /\ Quiescent /\ Admitted
  /\ Severs /\ Owners /\ Receipts /\ Delivered
  /\ Fresh /\ Bounded /\ PublishedIsAccounted
  /\ FaultsAreClean => Heads /\ NoFork
  /\ FaultsAreClean /\ count.probes = 0 => Stages
=============================================================================
