------------------------------ MODULE Journal -------------------------------
(***************************************************************************)
(* The operation journal as its readers see it:                            *)
(* membrane-gate/src/operations.rs.                                        *)
(*                                                                         *)
(* Every reader of journal.jsonl replays the whole file and keeps only the *)
(* result of the replay, and the file only ever grows, so the journal is   *)
(* represented by that result: each With... operator is the effect of one  *)
(* more record on a replay.  "chain", "owner" and "pending" are what       *)
(* recover() returns, "ops" what unresolved() computes, "known" the CP     *)
(* hashes import_relay() skips.  "ok" is FALSE once a replay fails, "torn" *)
(* TRUE once the last frame is partial: no reader gets past either.        *)
(***************************************************************************)
EXTENDS SessionChain

CONSTANTS Callers,   \* caller public keys
          NoCaller,  \* the empty caller of an imported checkpoint
          OpIds,     \* operation identifiers callers choose
          NoOp       \* a request without a usable operation_id

ASSUME CallersAssumption == NoCaller \notin Callers
ASSUME OpIdsAssumption == NoOp \notin OpIds

\* The key is a digest of caller and operation id, and of nothing else.
Keys == Callers \X OpIds

OpStates == {"none", "reserved", "completed", "uncertain", "operator_review"}

\* A chain proof: a router CP names its scope, a liveness probe has NoScope.
Cp == [id : Nat, prev : Nat, scope : Scopes \cup {NoScope},
       nonce : Nat, at : Nat]

Replay == [chain   : ChainState,
           owner   : [Scopes -> Callers \cup {NoCaller}],
           pending : SUBSET Nat,
           known   : SUBSET Nat,
           ops     : [Keys -> OpStates],
           ok      : BOOLEAN,
           torn    : BOOLEAN]

EmptyJournal == [chain   |-> GenesisChain,
                 owner   |-> [s \in Scopes |-> NoCaller],
                 pending |-> {},
                 known   |-> {},
                 ops     |-> [k \in Keys |-> "none"],
                 ok      |-> TRUE,
                 torn    |-> FALSE]

WithIntent(d, k)     == [d EXCEPT !.ops[k] = "reserved"]
WithOutcome(d, k, s) == [d EXCEPT !.ops[k] = s]
\* Mutant: a reconciliation that finds a matching effect settles the operation.
WithReviewSettling(d, k) == [d EXCEPT !.ops[k] = "completed"]
WithReview(d, k)     == [d EXCEPT !.ops[k] = "operator_review"]
WithPublishing(d, t) == [d EXCEPT !.pending = @ \cup {t}]
WithAborted(d, t)    == [d EXCEPT !.pending = @ \ {t}]
\* Mutant: severs are applied in memory only.
WithSeverUnjournaled(d, S) == d
WithSever(d, S)      == [d EXCEPT !.chain = MarkDegraded(@, S)]

(***************************************************************************)
(* A checkpoint must extend the replayed head; a router CP must also       *)
(* belong to the scope's caller and carry the next nonce of its scope.     *)
(***************************************************************************)
Extends(d, caller, cp) ==
  /\ cp.prev = d.chain.head
  /\ cp.scope # NoScope =>
       /\ caller # NoCaller => d.owner[cp.scope] \in {caller, NoCaller}
       /\ cp.nonce = BeginScope(d.chain, cp.scope).nonce + 1

Replayed(d, caller, cp) ==
  IF cp.scope = NoScope
  THEN [d EXCEPT !.chain.head = cp.id]
  ELSE [d EXCEPT !.chain = RecordCp(BeginScope(@, cp.scope),
                                    cp.id, cp.nonce, cp.at),
                 !.owner[cp.scope] = IF caller = NoCaller THEN @ ELSE caller]

WithCheckpoint(d, t, caller, cp) ==
  LET e == IF Extends(d, caller, cp) THEN Replayed(d, caller, cp)
           ELSE [d EXCEPT !.ok = FALSE]
  IN  [e EXCEPT !.known = @ \cup {cp.id}, !.pending = @ \ {t}]

Torn(d) == [d EXCEPT !.torn = TRUE]
-----------------------------------------------------------------------------
(* What the operations of the journal read.                                *)

Readable(d)    == ~d.torn
Recoverable(d) == Readable(d) /\ d.ok

\* Mutant: an operation whose outcome is uncertain may be tried again.
CanReserveUncertain(d, caller, op) ==
  /\ Readable(d)
  /\ op # NoOp
  /\ d.ops[<<caller, op>>] \in {"none", "uncertain"}

\* reserve_in_scope: any earlier intent with the key refuses, whatever its state.
CanReserve(d, caller, op) ==
  /\ Readable(d)
  /\ op # NoOp
  /\ d.ops[<<caller, op>>] = "none"

Unresolved(d) == {k \in Keys : d.ops[k] \notin {"none", "completed"}}

\* Mutant: an unresolved publication does not block.
AssertReadyDespitePending(d, caller, s) ==
  /\ Recoverable(d)
  /\ Established(d.chain, s) => d.owner[s] # NoCaller
  /\ d.owner[s] \in {caller, NoCaller}

\* Mutant: the owner of a scope is not compared.
AssertReadyAnyCaller(d, caller, s) ==
  /\ Recoverable(d)
  /\ d.pending = {}
  /\ Established(d.chain, s) => d.owner[s] # NoCaller

AssertReady(d, caller, s) ==
  /\ Recoverable(d)
  /\ d.pending = {}
  /\ Established(d.chain, s) => d.owner[s] # NoCaller
  /\ d.owner[s] \in {caller, NoCaller}
=============================================================================
