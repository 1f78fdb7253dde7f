----------------------------- MODULE CallerAuth -----------------------------
(***************************************************************************)
(* What chat_completions and tools_invoke do before their handlers run:    *)
(* load the credential and the caller's proof, read the clock, check both, *)
(* take the replay cache, then check the caller's grant in the registry    *)
(* file as it is by then.                                                  *)
(***************************************************************************)
EXTENDS Grants, Clock, FiniteSets

CONSTANTS
    Handlers,       \* request handlers that run at the same time
    Nonces,         \* nonces of callers
    Credentials,    \* credentials that an operator signed
    Calls,          \* what a request asks for: model, tool, repository
    Registries,     \* the contents the registry file may have
    Window,         \* seconds for which a proof is fresh: 60 in the code
    Capacity,       \* entries of the replay cache: 10,000 in the code
    MaxRestarts,    \* bound on restarts of the gate
    MaxRequests     \* bound on requests that reach the cache

ASSUME WindowAssumption == Window \in Nat /\ Capacity \in Nat \ {0}

\* identity.rs: the times of a grant are optional, its end is one time.
ASSUME GrantsAssumption ==
    \A r \in Registries : \A id \in DOMAIN r.identities :
        /\ r.identities[id].from \subseteq Int
        /\ \A d, e \in End(r.identities[id]) : d = e /\ d \in Int

VARIABLES
    file,           \* the registry file
    loaded,         \* the registry the gate was started with
    challenge,      \* caller_challenge: drawn anew by every start
    replay,         \* the replay cache: proofs, for their keys and timestamps
    stage,          \* where each handler is
    proof,          \* the proof each handler verified: {} or one
    at,             \* the time each handler read
    accepted,       \* ghost: proofs that authenticated a request
    twice,          \* ghost: proofs that authenticated more than one
    lagged,         \* ghost: a handler took the cache in a later second than `at`
    requests        \* ghost: how many requests reached the cache

callerVars == <<file, loaded, challenge, replay, stage, proof, at, accepted,
                twice, lagged, requests>>

\* A proof is bound to the audience, the credential and the call it is for.
ProofSet == [nonce : Nonces, challenge : Nat, issued : Int,
             iac : Credentials, call : Calls]

\* The key of the cache: the caller's identity and the nonce.
SameKey(p, q) == p.nonce = q.nonce /\ p.iac.caller = q.iac.caller

Fresh(p, now) == p.issued <= now /\ now - p.issued <= Window

Stages == {"idle", "verified", "replayed", "authenticated", "admitted", "denied"}

CallerInit ==
    /\ file \in Registries
    /\ loaded = file
    /\ challenge = 0
    /\ replay = {}
    /\ stage = [h \in Handlers |-> "idle"]
    /\ proof = [h \in Handlers |-> {}]
    /\ at = [h \in Handlers |-> 0]
    /\ accepted = {}
    /\ twice = {}
    /\ lagged = FALSE
    /\ requests = 0
-----------------------------------------------------------------------------
\* Mutant: the end of the proof is kept for the time that was read.
VerifyAhead(h, p) ==
    /\ stage[h] = "idle"
    /\ ValidCredential(loaded, p.iac, clock) /\ Fresh(p, clock) /\ p.challenge = challenge
    /\ requests < MaxRequests
    /\ requests' = requests + 1
    /\ stage' = [stage EXCEPT ![h] = "verified"]
    /\ proof' = [proof EXCEPT ![h] = {p}]
    /\ at' = [at EXCEPT ![h] = clock + Window]
    /\ UNCHANGED <<file, loaded, challenge, replay, accepted, twice, lagged>>

\* A request arrives: authenticate_caller up to the lock.  A request that fails
\* here changes nothing but the decision log.
Verify(h, p) ==
    /\ stage[h] = "idle"
    /\ ValidCredential(loaded, p.iac, clock)
    /\ Fresh(p, clock)
    /\ p.challenge = challenge
    /\ requests < MaxRequests
    /\ requests' = requests + 1
    /\ stage' = [stage EXCEPT ![h] = "verified"]
    /\ proof' = [proof EXCEPT ![h] = {p}]
    /\ at' = [at EXCEPT ![h] = clock]
    /\ UNCHANGED <<file, loaded, challenge, replay, accepted, twice, lagged>>

\* Mutant: an entry goes one second early.
RetainedShort(now) == {q \in replay : now - q.issued < Window}

\* Mutant: nothing is pruned.
RetainedAll(now) == replay

\* retain: what is left of the cache for a handler that read the time `now`.
Retained(now) == {q \in replay : now - q.issued <= Window}

Refuses(p, now) ==
    \/ \E q \in Retained(now) : SameKey(p, q)
    \/ Cardinality(Retained(now)) >= Capacity

\* authenticate_caller under the lock of the replay cache.
Consume(h) == \E p \in proof[h] :
    /\ stage[h] = "verified"
    /\ lagged' = (lagged \/ at[h] < clock)
    /\ \/ /\ Refuses(p, at[h])
          /\ replay' = Retained(at[h])
          /\ stage' = [stage EXCEPT ![h] = "replayed"]
          /\ UNCHANGED <<accepted, twice>>
       \/ /\ ~Refuses(p, at[h])
          /\ replay' = Retained(at[h]) \cup {p}
          /\ stage' = [stage EXCEPT ![h] = "authenticated"]
          /\ accepted' = accepted \cup {p}
          /\ twice' = twice \cup ({p} \cap accepted)
    /\ UNCHANGED <<file, loaded, challenge, proof, at, requests>>

\* authorize_identity: reads the clock again and the registry file as it is now.
Authorize(h) == \E p \in proof[h] :
    /\ stage[h] = "authenticated"
    /\ stage' = [stage EXCEPT ![h] =
          IF Authorized(file, p.iac.caller, p.iac, p.call, clock)
          THEN "admitted" ELSE "denied"]
    /\ UNCHANGED <<file, loaded, challenge, replay, proof, at, accepted, twice, lagged, requests>>

\* The request is answered, or goes on into handle_chat or handle_tool_invoke.
Finish(h) ==
    /\ stage[h] \in {"replayed", "admitted", "denied"}
    /\ stage' = [stage EXCEPT ![h] = "idle"]
    /\ proof' = [proof EXCEPT ![h] = {}]
    /\ at' = [at EXCEPT ![h] = 0]
    /\ UNCHANGED <<file, loaded, challenge, replay, accepted, twice, lagged, requests>>
-----------------------------------------------------------------------------
\* The operator writes the registry file.
EditRegistry(r) ==
    /\ file' = r
    /\ UNCHANGED <<loaded, challenge, replay, stage, proof, at, accepted, twice, lagged, requests>>

\* The gate stops and starts: a new challenge and an empty cache.
RestartGate ==
    /\ challenge < MaxRestarts
    /\ challenge' = challenge + 1
    /\ loaded' = file
    /\ replay' = {}
    /\ stage' = [h \in Handlers |-> "idle"]
    /\ proof' = [h \in Handlers |-> {}]
    /\ at' = [h \in Handlers |-> 0]
    /\ UNCHANGED <<file, accepted, twice, lagged, requests>>

CallerNext ==
    \/ \E h \in Handlers, n \in Nonces, t \in clock - Window .. clock,
          iac \in Credentials, call \in Calls :
            Verify(h, [nonce |-> n, challenge |-> challenge, issued |-> t,
                       iac |-> iac, call |-> call]) /\ UNCHANGED clock
    \/ \E h \in Handlers : (Consume(h) \/ Authorize(h) \/ Finish(h)) /\ UNCHANGED clock
    \/ \E r \in Registries : EditRegistry(r) /\ UNCHANGED clock
    \/ RestartGate /\ UNCHANGED clock
    \/ Tick /\ UNCHANGED callerVars

CallerSpec == clock = 0 /\ CallerInit /\ [][CallerNext]_<<clock, callerVars>>
-----------------------------------------------------------------------------
\* Types, and what a handler between the check and the lock knows.
CallerTypeOK ==
    /\ clock \in 0 .. MaxClock
    /\ file \in Registries /\ loaded \in Registries
    /\ challenge \in Nat
    /\ replay \in SUBSET ProofSet
    /\ stage \in [Handlers -> Stages]
    /\ proof \in [Handlers -> SUBSET ProofSet]
    /\ at \in [Handlers -> 0 .. clock]
    /\ accepted \in SUBSET ProofSet /\ twice \in SUBSET ProofSet
    /\ lagged \in BOOLEAN
    /\ requests \in Nat

\* A proof authenticates a second request only after it has expired, whatever
\* other requests prune, across restarts and changes of the registry
\* (identity.rs: the replay cache and its retain).
NoReplayWhileFresh == \A p \in twice : clock - p.issued > Window

\* A proof authenticates one request at most, unless some handler took the
\* cache in a later second than it read the clock (identity.rs:132-143).
OncePerProof == twice # {} => lagged

\* A request that the cache refused either repeats a key that was accepted and
\* is still fresh for it, or found the cache full of such keys: expired entries
\* never lock callers out (identity.rs:135-141).
RefusalIsHonest ==
    \A h \in Handlers : stage[h] = "replayed" =>
        LET live == {q \in accepted : at[h] - q.issued <= Window} IN
        \/ \E p \in proof[h], q \in live : SameKey(p, q)
        \/ Cardinality(live) >= Capacity

\* What operator_iac issues on the registry as it is serves its caller in every
\* second up to its last one, and outlives neither the token nor the grant, whose
\* ends are exclusive (oidc.rs: the minimum less one; identity.rs check_window;
\* lib.rs validate_iac: valid_until is inclusive).
IssuedIsHonoured ==
    part = "caller" /\ requests = 0 =>
    \A id \in DOMAIN file.identities, c \in Credentials, call \in Calls,
       ttl \in 1 .. MaxClock, tokenEnd \in clock + 1 .. MaxClock :
        LET request == [ttl |-> ttl, caller |-> id, scope |-> c.scope,
                        model |-> call.model, tools |-> call.tool]
            iac == Issued(file, request, tokenEnd, clock) IN
        Issuable(file, request, clock)
          /\ call.repo \subseteq file.repos \cap file.identities[id].repos =>
            /\ clock <= iac.until /\ iac.until < tokenEnd
            /\ \A now \in clock .. iac.until :
                  ValidCredential(file, iac, now) /\ Authorized(file, id, iac, call, now)
=============================================================================
