---------------------------- MODULE SessionChain ----------------------------
(***************************************************************************)
(* The session chain of one operator: membrane-core/src/session.rs.        *)
(*                                                                         *)
(* A chain is a record.  Its head is the hash of the last chain proof (CP) *)
(* and is one serialized sequence for the operator; nonce and liveness     *)
(* time are kept per scope.  A CP hash is a natural number: hashes of      *)
(* distinct events are distinct, and 0 stands for GENESIS_CP_HASH.         *)
(***************************************************************************)
EXTENDS Integers

CONSTANTS Scopes,   \* scope identifiers carried by credentials (IACs)
          NoScope,  \* no active scope
          DeltaT    \* registry.delta_t_secs

ASSUME ScopesAssumption == NoScope \notin Scopes
ASSUME DeltaTAssumption == DeltaT \in Nat

Genesis == 0
NoTime  == -1
Time    == Nat \cup {NoTime}

Unseen == [nonce |-> 0, at |-> NoTime]

(***************************************************************************)
(* SessionChainState.  degraded stands for degraded_scopes together with   *)
(* degraded_scope_id, which mark_degraded always sets to the same scope;   *)
(* reasons and alert times are left out.  last_event_id only threads the   *)
(* relay tags and is left out.                                             *)
(***************************************************************************)
ChainState == [head     : Nat,
               active   : Scopes \cup {NoScope},
               nonce    : Nat,
               at       : Time,
               scopes   : [Scopes -> [nonce : Nat, at : Time]],
               degraded : SUBSET Scopes]

GenesisChain == [head     |-> Genesis,
                 active   |-> NoScope,
                 nonce    |-> 0,
                 at       |-> NoTime,
                 scopes   |-> [s \in Scopes |-> Unseen],
                 degraded |-> {}]

(***************************************************************************)
(* scopes.contains_key(s): a scope enters the map with its first router    *)
(* CP, whose nonce is 1.                                                   *)
(***************************************************************************)
Established(c, s) == c.scopes[s].nonce > 0

BeginScope(c, s) ==
  IF c.active = s THEN c
  ELSE [c EXCEPT !.active = s,
                 !.nonce  = c.scopes[s].nonce,
                 !.at     = c.scopes[s].at]

\* Before the first CP the parent comes from the credential, not the chain.
NextParent(c, iacParent) == IF c.head = Genesis THEN iacParent ELSE c.head

\* record_cp, called with session_nonce already advanced to n.
RecordCp(c, hash, n, t) ==
  [c EXCEPT !.head   = hash,
            !.nonce  = n,
            !.at     = t,
            !.scopes = IF c.active = NoScope THEN @
                       ELSE [@ EXCEPT ![c.active] = [nonce |-> n, at |-> t]]]

MarkDegraded(c, S) == [c EXCEPT !.degraded = @ \cup S]

\* scope_router_cp_age_secs: the active scope is aged by the chain's own time.
LastCpAt(c, s) == IF c.active = s THEN c.at ELSE c.scopes[s].at

\* The age must exceed Delta-t: a CP exactly Delta-t old is still live.
Expired(t, now) == t # NoTime /\ now - t > DeltaT

ScopeStale(c, s, now) == Expired(LastCpAt(c, s), now)
RouterStale(c, now)   == Expired(c.at, now)

\* A scope that is neither active nor known must be anchored at the head.
NewScope(c, s) == c.active # s /\ ~Established(c, s)
AnchorOk(c, iacParent, newScope) == newScope => iacParent = c.head
=============================================================================
