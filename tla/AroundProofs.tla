---------------------------- MODULE AroundProofs ----------------------------
(***************************************************************************)
(* Proofs about the parts around the gate of which only safety is checked: *)
(* callers and their credentials, a visitor's session of the demo, the     *)
(* daily rollup, and the types of all the parts composed in MCAround.      *)
(***************************************************************************)
EXTENDS MCAround, JournalFileProofs, Inductions

-----------------------------------------------------------------------------
(* Callers: a proof authenticates one request, for any callers,            *)
(* credentials, registries, window and capacity.                           *)

svars == <<clock, callerVars>>

\* What a handler knows of its proof between the check and the lock: it is of
\* this life of the gate, and was fresh at a time that is not in the future.
VerifiedIsCurrent ==
    \A h \in Handlers : stage[h] = "verified" =>
        /\ at[h] <= clock
        /\ \A p \in proof[h] : p.challenge = challenge /\ Fresh(p, at[h])

\* The cache holds every accepted proof that a handler could still accept.
AcceptedIsHeld ==
    \A p \in accepted :
        /\ p.challenge <= challenge
        /\ p.challenge = challenge /\ clock - p.issued <= Window => p \in replay

CallerInv ==
    /\ CallerTypeOK
    /\ VerifiedIsCurrent
    /\ AcceptedIsHeld
    /\ NoReplayWhileFresh
    /\ OncePerProof

\* The initial states satisfy the invariant: no proof was accepted yet.
LEMMA CallerInitInv == clock = 0 /\ CallerInit => CallerInv
<1> SUFFICES ASSUME clock = 0, CallerInit PROVE CallerInv
  OBVIOUS
<1> USE DEF CallerInit
<1>1. CallerTypeOK
  <2>1. 0 \in 0 .. MaxClock
    BY MaxClockAssumption DEF MaxClockAssumption
  <2>2. "idle" \in Stages
    BY DEF Stages
  <2>3. 0 \in 0 .. clock
    OBVIOUS
  <2> QED
    BY <2>1, <2>2, <2>3 DEF CallerTypeOK
<1>2. VerifiedIsCurrent
  BY DEF VerifiedIsCurrent
<1>3. AcceptedIsHeld /\ NoReplayWhileFresh /\ OncePerProof
  BY DEF AcceptedIsHeld, NoReplayWhileFresh, OncePerProof
<1> QED
  BY <1>1, <1>2, <1>3 DEF CallerInv

\* A handler that verified a proof has a current proof and touches no cache.
LEMMA VerifyKeeps ==
    ASSUME CallerInv, UNCHANGED clock,
           NEW h \in Handlers, NEW p \in ProofSet, Verify(h, p)
    PROVE  CallerInv'
<1> USE DEF CallerInv
<1>1. CallerTypeOK'
  BY DEF CallerTypeOK, Verify, Stages, ProofSet
<1>2. VerifiedIsCurrent'
  BY DEF CallerTypeOK, Verify, VerifiedIsCurrent, Fresh, ProofSet
<1>3. AcceptedIsHeld'
  BY DEF Verify, AcceptedIsHeld
<1>4. NoReplayWhileFresh' /\ OncePerProof'
  BY DEF Verify, NoReplayWhileFresh, OncePerProof
<1> QED
  BY <1>1, <1>2, <1>3, <1>4

\* Pruning with a time of the past leaves every proof that is still fresh.
LEMMA RetainedKeeps ==
    ASSUME CallerTypeOK, WindowAssumption,
           NEW t \in Int, t <= clock, NEW p \in replay, clock - p.issued <= Window
    PROVE  p \in Retained(t)
  BY DEF CallerTypeOK, Retained, ProofSet, WindowAssumption

\* Taking the cache: a proof that was accepted before is refused while it is
\* fresh, and it is fresh if the handler took the lock in the second it read.
LEMMA ConsumeKeeps ==
    ASSUME CallerInv, UNCHANGED clock, NEW h \in Handlers, Consume(h)
    PROVE  CallerInv'
<1> USE WindowAssumption, MaxClockAssumption
    DEF WindowAssumption, MaxClockAssumption, CallerInv
<1>1. PICK p \in proof[h] : Consume(h)!(p)
  BY DEF Consume
<1>2. p \in ProofSet /\ at[h] \in Int /\ at[h] <= clock /\ clock \in Int
      /\ p.issued \in Int /\ p.challenge = challenge /\ Fresh(p, at[h])
  BY <1>1 DEF CallerTypeOK, VerifiedIsCurrent, ProofSet
<1>3. CASE Refuses(p, at[h])
  <2>1. /\ replay' = Retained(at[h])
        /\ stage' = [stage EXCEPT ![h] = "replayed"]
        /\ UNCHANGED <<accepted, twice, challenge, proof, at>>
    BY <1>1, <1>3
  <2>2. CallerTypeOK'
    BY <1>1, <2>1 DEF CallerTypeOK, Retained, Stages
  <2>3. VerifiedIsCurrent'
    BY <2>1 DEF CallerTypeOK, VerifiedIsCurrent
  <2>4. AcceptedIsHeld'
    BY <1>2, <2>1, RetainedKeeps DEF AcceptedIsHeld
  <2>5. NoReplayWhileFresh' /\ OncePerProof'
    BY <1>1, <2>1 DEF NoReplayWhileFresh, OncePerProof, CallerTypeOK
  <2> QED
    BY <2>2, <2>3, <2>4, <2>5
<1>4. CASE ~Refuses(p, at[h])
  <2>1. /\ replay' = Retained(at[h]) \cup {p}
        /\ stage' = [stage EXCEPT ![h] = "authenticated"]
        /\ accepted' = accepted \cup {p}
        /\ twice' = twice \cup ({p} \cap accepted)
        /\ UNCHANGED <<challenge, proof, at>>
        /\ lagged' = (lagged \/ at[h] < clock)
    BY <1>1, <1>4
  <2>2. CallerTypeOK'
    BY <1>1, <1>2, <2>1 DEF CallerTypeOK, Retained, Stages
  <2>3. VerifiedIsCurrent'
    BY <2>1 DEF CallerTypeOK, VerifiedIsCurrent
  <2>4. AcceptedIsHeld'
    <3>1. challenge \in Nat /\ p.challenge <= challenge /\ p \in replay'
      BY <1>2, <2>1 DEF CallerTypeOK
    <3>2. ASSUME NEW q \in accepted, q.challenge = challenge, clock - q.issued <= Window
          PROVE  q \in replay'
      BY <1>2, <2>1, <3>2, RetainedKeeps DEF AcceptedIsHeld
    <3> QED
      BY <2>1, <3>1, <3>2 DEF AcceptedIsHeld
  <2>5. p \notin Retained(at[h])
    BY <1>4 DEF Refuses, SameKey
  <2>6. p \in accepted => clock - p.issued > Window
    BY <1>2, <2>5, RetainedKeeps DEF AcceptedIsHeld
  <2>7. NoReplayWhileFresh'
    BY <2>1, <2>6 DEF NoReplayWhileFresh
  <2>8. p \in accepted => at[h] < clock
    BY <1>2, <2>6 DEF Fresh
  <2>9. OncePerProof'
    BY <2>1, <2>8 DEF OncePerProof, CallerTypeOK
  <2> QED
    BY <2>2, <2>3, <2>4, <2>7, <2>9
<1> QED
  BY <1>3, <1>4

\* The other steps of handlers, the operator's edits and a restart.
LEMMA OthersKeep ==
    ASSUME CallerInv, UNCHANGED clock,
           \/ \E h \in Handlers : Authorize(h) \/ Finish(h)
           \/ \E r \in Registries : EditRegistry(r)
           \/ RestartGate
    PROVE  CallerInv'
<1> USE DEF CallerInv
<1>1. CallerTypeOK'
  BY MaxClockAssumption
     DEF MaxClockAssumption, CallerTypeOK, Authorize, Finish, EditRegistry, RestartGate, Stages
<1>2. VerifiedIsCurrent'
  BY DEF CallerTypeOK, VerifiedIsCurrent, Authorize, Finish, EditRegistry, RestartGate
<1>3. AcceptedIsHeld'
  <2>1. CASE RestartGate
    <3>1. \A p \in accepted : p.challenge \in Nat /\ p.challenge <= challenge
      BY DEF CallerTypeOK, AcceptedIsHeld, ProofSet
    <3>2. challenge \in Nat /\ challenge' = challenge + 1 /\ accepted' = accepted
      BY <2>1 DEF CallerTypeOK, RestartGate
    <3> QED
      BY <3>1, <3>2 DEF AcceptedIsHeld
  <2>2. CASE ~RestartGate
    BY <2>2 DEF AcceptedIsHeld, Authorize, Finish, EditRegistry
  <2> QED
    BY <2>1, <2>2
<1>4. NoReplayWhileFresh' /\ OncePerProof'
  BY DEF NoReplayWhileFresh, OncePerProof, Authorize, Finish, EditRegistry, RestartGate
<1> QED
  BY <1>1, <1>2, <1>3, <1>4

\* Time passes: proofs expire, none becomes fresh again.
LEMMA TickKeeps ==
    ASSUME CallerInv, Tick, UNCHANGED callerVars
    PROVE  CallerInv'
<1> USE WindowAssumption, MaxClockAssumption
    DEF WindowAssumption, MaxClockAssumption, CallerInv, callerVars
<1>1. CallerTypeOK'
  BY DEF CallerTypeOK, Tick
<1>2. VerifiedIsCurrent'
  BY DEF CallerTypeOK, VerifiedIsCurrent, Tick
<1>3. AcceptedIsHeld'
  BY DEF CallerTypeOK, AcceptedIsHeld, Tick, ProofSet
<1>4. NoReplayWhileFresh' /\ OncePerProof'
  BY DEF CallerTypeOK, NoReplayWhileFresh, OncePerProof, Tick, ProofSet
<1> QED
  BY <1>1, <1>2, <1>3, <1>4

\* Every step keeps the invariant.
LEMMA CallerNextInv == CallerInv /\ [CallerNext]_svars => CallerInv'
<1> SUFFICES ASSUME CallerInv, [CallerNext]_svars PROVE CallerInv'
  OBVIOUS
<1>1. ASSUME NEW h \in Handlers, NEW n \in Nonces, NEW t \in clock - Window .. clock,
             NEW iac \in Credentials, NEW call \in Calls, UNCHANGED clock,
             Verify(h, [nonce |-> n, challenge |-> challenge, issued |-> t,
                        iac |-> iac, call |-> call])
      PROVE  CallerInv'
  <2>1. [nonce |-> n, challenge |-> challenge, issued |-> t,
         iac |-> iac, call |-> call] \in ProofSet
    BY <1>1 DEF CallerInv, CallerTypeOK, ProofSet
  <2> QED
    BY <1>1, <2>1, VerifyKeeps
<1>2. ASSUME NEW h \in Handlers, Consume(h), UNCHANGED clock PROVE CallerInv'
  BY <1>2, ConsumeKeeps
<1>3. CASE /\ UNCHANGED clock
           /\ \/ \E h \in Handlers : Authorize(h) \/ Finish(h)
              \/ \E r \in Registries : EditRegistry(r)
              \/ RestartGate
  BY <1>3, OthersKeep
<1>4. CASE Tick /\ UNCHANGED callerVars
  BY <1>4, TickKeeps
<1>5. CASE UNCHANGED svars
  BY <1>5 DEF svars, callerVars, CallerInv, CallerTypeOK, VerifiedIsCurrent,
     AcceptedIsHeld, NoReplayWhileFresh, OncePerProof, Retained
<1> QED
  BY <1>1, <1>2, <1>3, <1>4, <1>5 DEF CallerNext

\* The invariant holds in every behaviour of the front door.
LEMMA CallerAlways == CallerSpec => []CallerInv
<1> QED
  BY CallerInitInv, CallerNextInv, PTL DEF CallerSpec, svars

\* The gate never accepts a proof a second time while it is fresh, whatever
\* requests, restarts and edits of the registry come between, for any number
\* of handlers and any window (identity.rs: authenticate_caller).
THEOREM FreshProofsAreUsedOnce == CallerSpec => []NoReplayWhileFresh
<1>1. CallerInv => NoReplayWhileFresh
  BY DEF CallerInv
<1> QED
  BY <1>1, CallerAlways, PTL

\* And if no handler waits for the cache beyond the second it read, no proof is
\* ever accepted twice (identity.rs: authenticate_caller).
THEOREM PromptHandlersAcceptOnce == CallerSpec => []OncePerProof
<1>1. CallerInv => OncePerProof
  BY DEF CallerInv
<1> QED
  BY <1>1, CallerAlways, PTL
-----------------------------------------------------------------------------
(* What the cache holds was accepted, and what was accepted stays so: a     *)
(* refusal that was honest when it was made remains so until it is answered. *)

\* What of the accepted proofs is fresh for a handler.
Live(t) == {q \in accepted : t - q.issued <= Window}

HonestInv ==
    /\ IsFiniteSet(accepted)
    /\ replay \subseteq accepted
    /\ RefusalIsHonest

\* A refusal by proofs of the cache is a refusal by accepted ones.
LEMMA RefusalCounts ==
    ASSUME CallerInv, HonestInv, NEW t \in Int, NEW p, Refuses(p, t)
    PROVE  (\E q \in Live(t) : SameKey(p, q)) \/ Cardinality(Live(t)) >= Capacity
<1>1. Retained(t) \subseteq Live(t)
  BY DEF HonestInv, Retained, Live
<1>2. Live(t) \subseteq accepted
  BY DEF Live
<1>3. IsFiniteSet(accepted)
  BY DEF HonestInv
<1>4. IsFiniteSet(Live(t))
  BY <1>2, <1>3, FS_Subset
<1>5. Cardinality(Retained(t)) <= Cardinality(Live(t)) /\ IsFiniteSet(Retained(t))
  BY <1>1, <1>4, FS_Subset
<1>6. Cardinality(Retained(t)) \in Nat /\ Cardinality(Live(t)) \in Nat
  BY <1>4, <1>5, FS_CardinalityType
<1>7. CASE \E q \in Retained(t) : SameKey(p, q)
  BY <1>1, <1>7
<1>8. CASE Cardinality(Retained(t)) >= Capacity
  BY <1>5, <1>6, <1>8, WindowAssumption DEF WindowAssumption
<1> QED
  BY <1>7, <1>8 DEF Refuses

\* More accepted proofs leave a refusal honest.
LEMMA LiveGrows ==
    ASSUME HonestInv, accepted \subseteq accepted', IsFiniteSet(accepted'), NEW t \in Int
    PROVE  /\ Live(t) \subseteq Live(t)'
           /\ Cardinality(Live(t)) >= Capacity => Cardinality(Live(t)') >= Capacity
<1>1. Live(t) \subseteq Live(t)' /\ Live(t)' \subseteq accepted'
  BY DEF Live
<1>2. IsFiniteSet(Live(t)')
  BY <1>1, FS_Subset
<1>3. IsFiniteSet(Live(t)) /\ Cardinality(Live(t)) <= Cardinality(Live(t)')
  BY <1>1, <1>2, FS_Subset
<1>4. Cardinality(Live(t)) \in Nat /\ Cardinality(Live(t)') \in Nat
  BY <1>2, <1>3, FS_CardinalityType
<1> QED
  BY <1>1, <1>3, <1>4, WindowAssumption DEF WindowAssumption

LEMMA HonestNext == CallerInv /\ HonestInv /\ [CallerNext]_svars => HonestInv'
<1> SUFFICES ASSUME CallerInv, HonestInv, [CallerNext]_svars
             PROVE  HonestInv'
  OBVIOUS
<1>0. \A h \in Handlers : at[h] \in Int
  BY MaxClockAssumption DEF CallerInv, CallerTypeOK, MaxClockAssumption
<1>1. ASSUME \A h \in Handlers : stage'[h] = "replayed" =>
                  stage[h] = "replayed" /\ proof'[h] = proof[h] /\ at'[h] = at[h],
             accepted' = accepted, replay' \subseteq replay
      PROVE  HonestInv'
  <2>1. RefusalIsHonest'
    BY <1>1 DEF HonestInv, RefusalIsHonest
  <2> QED
    BY <1>1, <2>1 DEF HonestInv
<1>2. ASSUME NEW h \in Handlers, Consume(h)
      PROVE  HonestInv'
  <2>1. PICK p \in proof[h] : Consume(h)!(p)
    BY <1>2 DEF Consume
  <2>2. stage[h] = "verified" /\ UNCHANGED <<proof, at>> /\ at[h] \in Int
        /\ stage \in [Handlers -> Stages]
    BY <1>0, <2>1 DEF CallerInv, CallerTypeOK
  <2>3. Retained(at[h]) \subseteq replay
    BY DEF Retained
  <2>4. CASE Refuses(p, at[h])
    <3>1. /\ replay' = Retained(at[h])
          /\ stage' = [stage EXCEPT ![h] = "replayed"]
          /\ accepted' = accepted
      BY <2>1, <2>4
    <3>2. (\E q \in Live(at[h]) : SameKey(p, q)) \/ Cardinality(Live(at[h])) >= Capacity
      BY <2>2, <2>4, RefusalCounts
    <3>3. ASSUME NEW g \in Handlers, stage'[g] = "replayed"
          PROVE  \/ \E r \in proof[g], q \in Live(at[g]) : SameKey(r, q)
                 \/ Cardinality(Live(at[g])) >= Capacity
      <4>1. CASE g = h
        BY <3>2, <4>1
      <4>2. CASE g # h
        BY <2>2, <3>1, <3>3, <4>2 DEF HonestInv, RefusalIsHonest, Live
      <4> QED
        BY <4>1, <4>2
    <3>4. RefusalIsHonest'
      BY <2>2, <3>1, <3>3 DEF RefusalIsHonest, Live
    <3> QED
      BY <2>3, <3>1, <3>4 DEF HonestInv
  <2>5. CASE ~Refuses(p, at[h])
    <3>1. /\ replay' = Retained(at[h]) \cup {p}
          /\ stage' = [stage EXCEPT ![h] = "authenticated"]
          /\ accepted' = accepted \cup {p}
      BY <2>1, <2>5
    <3>2. IsFiniteSet(accepted')
      BY <3>1, FS_AddElement DEF HonestInv
    <3>3. ASSUME NEW g \in Handlers, stage'[g] = "replayed"
          PROVE  \/ \E r \in proof[g], q \in Live(at[g])' : SameKey(r, q)
                 \/ Cardinality(Live(at[g])') >= Capacity
      <4>1. stage[g] = "replayed"
        BY <2>2, <3>1, <3>3
      <4>2. \/ \E r \in proof[g], q \in Live(at[g]) : SameKey(r, q)
            \/ Cardinality(Live(at[g])) >= Capacity
        BY <4>1 DEF HonestInv, RefusalIsHonest, Live
      <4>3. at'[g] = at[g] /\ at[g] \in Int
        BY <1>0, <2>2
      <4> QED
        BY <2>2, <3>1, <3>2, <4>2, <4>3, LiveGrows
    <3>4. RefusalIsHonest'
      BY <2>2, <3>3 DEF RefusalIsHonest, Live
    <3> QED
      BY <2>3, <3>1, <3>2, <3>4 DEF HonestInv
  <2> QED
    BY <2>4, <2>5
<1>3. ASSUME NEW h \in Handlers, NEW p, Verify(h, p)
      PROVE  HonestInv'
  <2>1. \A g \in Handlers : stage'[g] = "replayed" =>
            stage[g] = "replayed" /\ proof'[g] = proof[g] /\ at'[g] = at[g]
    BY <1>3 DEF Verify, CallerInv, CallerTypeOK
  <2> QED
    BY <1>1, <1>3, <2>1 DEF Verify
<1>4. ASSUME NEW h \in Handlers, Authorize(h) \/ Finish(h)
      PROVE  HonestInv'
  <2>1. \A g \in Handlers : stage'[g] = "replayed" =>
            stage[g] = "replayed" /\ proof'[g] = proof[g] /\ at'[g] = at[g]
    BY <1>4 DEF Authorize, Finish, CallerInv, CallerTypeOK
  <2> QED
    BY <1>1, <1>4, <2>1 DEF Authorize, Finish
<1>5. ASSUME (\E r \in Registries : EditRegistry(r)) \/ UNCHANGED callerVars
      PROVE  HonestInv'
  BY <1>1, <1>5 DEF EditRegistry, callerVars
<1>6. CASE RestartGate
  BY <1>1, <1>6 DEF RestartGate
<1> QED
  BY <1>2, <1>3, <1>4, <1>5, <1>6 DEF CallerNext, svars

\* A request that the replay cache refuses repeats a key that was accepted and is
\* still fresh for it, or found the cache full of such keys: expired entries never
\* lock a caller out, for any window and capacity (identity.rs: authenticate_caller).
THEOREM RefusalsAreHonest == CallerSpec => []RefusalIsHonest
<1>1. CallerInit => HonestInv
  BY FS_EmptySet DEF CallerInit, HonestInv, RefusalIsHonest
<1>2. HonestInv => RefusalIsHonest
  BY DEF HonestInv
<1> QED
  BY <1>1, <1>2, HonestNext, CallerAlways, PTL DEF CallerSpec, svars

-----------------------------------------------------------------------------
(* Callers: what the login issues.                                         *)

\* The minimum of at least one time and at most one more.
LEMMA LeastOf ==
  ASSUME NEW a \in Int, NEW b \in Int, NEW S, \A d, e \in S : d = e /\ d \in Int
  PROVE  LET m == Min({a, b} \cup S)
         IN  m \in {a, b} \cup S /\ \A x \in {a, b} \cup S : m <= x
  <1> DEFINE T == {a, b} \cup S
  <1>1. \E m \in T : \A x \in T : m <= x
    <2>1. CASE \E d \in S : d <= a /\ d <= b
      BY <2>1
    <2>2. CASE ~ \E d \in S : d <= a /\ d <= b
      <3>1. CASE a <= b
        <4>1. \A x \in T : a <= x
          BY <2>2, <3>1
        <4> QED BY <4>1
      <3>2. CASE ~(a <= b)
        <4>1. \A x \in T : b <= x
          BY <2>2, <3>2
        <4> QED BY <4>1
      <3> QED BY <3>1, <3>2
    <2> QED BY <2>1, <2>2
  <1> QED BY <1>1 DEF Min

\* Whatever may be issued is honoured to its last second, in any registry.
LEMMA HonouredBy ==
  ASSUME NEW registry \in Registries, NEW t \in Int,
         NEW request, NEW tokenEnd \in Int, t < tokenEnd,
         NEW call, call.model = request.model, call.tool = request.tools,
         NEW id, id = request.caller, Issuable(registry, request, t),
         call.repo \subseteq registry.repos \cap registry.identities[id].repos
  PROVE  LET iac == Issued(registry, request, tokenEnd, t)
         IN  /\ t <= iac.until /\ iac.until < tokenEnd
             /\ \A sec \in t .. iac.until :
                   ValidCredential(registry, iac, sec) /\ Authorized(registry, id, iac, call, sec)
  <1> DEFINE g == registry.identities[id]
             iac == Issued(registry, request, tokenEnd, t)
             last == LastSecond(registry, request, tokenEnd, t)
             m == Min({t + request.ttl, tokenEnd} \cup End(g))
  <1>1. /\ id \in DOMAIN registry.identities /\ request.ttl \in 1 .. 300
        /\ InWindow(g, t) /\ ~g.revoked /\ request.scope \in g.scopes
        /\ request.model \in g.models \cap registry.models
        /\ "local-llm" \in g.channels /\ registry.channels \subseteq g.channels
        /\ request.tools \subseteq g.tools
    BY DEF Issuable
  <1>2. \A d, e \in End(g) : d = e /\ d \in Int
    BY <1>1, GrantsAssumption
  <1>3. /\ m \in {t + request.ttl, tokenEnd} \cup End(g)
        /\ \A x \in {t + request.ttl, tokenEnd} \cup End(g) : m <= x
    <2> DEFINE a == t + request.ttl
               S == End(g)
    <2>1. a \in Int /\ \A d, e \in S : d = e /\ d \in Int
      BY <1>1, <1>2
    <2>2. m = Min({a, tokenEnd} \cup S)
      OBVIOUS
    <2> HIDE DEF a, S, m
    <2>3. m \in {a, tokenEnd} \cup S /\ \A x \in {a, tokenEnd} \cup S : m <= x
      BY <2>1, <2>2, LeastOf
    <2> QED BY <2>3 DEF a, S
  <1>4. last = m - 1
    BY DEF LastSecond
  <1>5. m \in Int /\ t < m /\ m <= tokenEnd /\ \A e \in End(g) : m <= e
    <2>1. \A e \in End(g) : t < e
      BY <1>1 DEF InWindow
    <2>2. t < t + request.ttl /\ t + request.ttl \in Int
      BY <1>1
    <2> HIDE DEF m, g
    <2> QED BY <1>2, <1>3, <2>1, <2>2
  <1> HIDE DEF m, last
  <1>6. /\ iac.scope = request.scope /\ iac.models = {request.model}
        /\ iac.tools = request.tools /\ iac.channels = registry.channels \cup {"local-llm"}
        /\ iac.until = last
    BY DEF Issued, last
  <1>7. t <= iac.until /\ iac.until < tokenEnd
    BY <1>4, <1>5, <1>6
  <1>8. ASSUME NEW sec \in t .. iac.until
        PROVE  ValidCredential(registry, iac, sec)
    BY <1>4, <1>5, <1>6 DEF ValidCredential
  <1>9. ASSUME NEW sec \in t .. iac.until
        PROVE  Authorized(registry, id, iac, call, sec)
    <2>1. sec \in Int /\ t <= sec /\ sec < m
      BY <1>4, <1>5, <1>6
    <2>2. InWindow(g, sec)
      <3>1. ~Contradictory(g) /\ (\A f \in g.from, e \in End(g) : f < e)
        BY <1>1 DEF InWindow
      <3>2. \A e \in End(g) : sec < e
        BY <1>2, <1>5, <2>1
      <3>3. \A f \in g.from : f <= sec
        <4>1. \A f \in g.from : f <= t
          BY <1>1 DEF InWindow
        <4>2. \A f \in g.from : f \in Int
          BY <1>1, GrantsAssumption
        <4> QED BY <2>1, <4>1, <4>2
      <3> QED BY <3>1, <3>2, <3>3 DEF InWindow
    <2> HIDE DEF iac, g
    <2> QED BY <1>1, <1>6, <2>2 DEF Authorized, g
  <1> QED BY <1>7, <1>8, <1>9

\* What operator_iac issues serves its caller in every second up to its last one,
\* and outlives neither the token nor the grant, for any registries, credentials
\* and calls (oidc.rs: the minimum less one; identity.rs: check_window; lib.rs:
\* validate_iac).
THEOREM IssuedServesToItsEnd == CallerSpec => []IssuedIsHonoured
<1>1. CallerInv => IssuedIsHonoured
  <2> SUFFICES ASSUME CallerInv, NEW id \in DOMAIN file.identities,
                      NEW c \in Credentials, NEW call \in Calls,
                      NEW ttl \in 1 .. MaxClock, NEW tokenEnd \in clock + 1 .. MaxClock
               PROVE  LET request == [ttl |-> ttl, caller |-> id, scope |-> c.scope,
                                      model |-> call.model, tools |-> call.tool]
                          iac == Issued(file, request, tokenEnd, clock)
                      IN  /\ Issuable(file, request, clock)
                          /\ call.repo \subseteq file.repos \cap file.identities[id].repos
                          => /\ clock <= iac.until /\ iac.until < tokenEnd
                             /\ \A sec \in clock .. iac.until :
                                   /\ ValidCredential(file, iac, sec)
                                   /\ Authorized(file, id, iac, call, sec)
    BY DEF IssuedIsHonoured
  <2> DEFINE request == [ttl |-> ttl, caller |-> id, scope |-> c.scope,
                         model |-> call.model, tools |-> call.tool]
  <2>1. file \in Registries /\ clock \in Int /\ tokenEnd \in Int /\ clock < tokenEnd
    BY MaxClockAssumption DEF CallerInv, CallerTypeOK
  <2>2. call.model = request.model /\ call.tool = request.tools /\ id = request.caller
    OBVIOUS
  <2> HIDE DEF request
  <2> QED BY <2>1, <2>2, HonouredBy DEF request
<1> QED
  BY <1>1, CallerAlways, PTL

-----------------------------------------------------------------------------
(* The daily rollup: the files of a day.                                   *)

rvars == <<clock, rollupVars>>

\* The directory and the processes are made of records; what a bundle says is
\* not looked at here.
ShapesOK ==
  /\ disk = [d \in Days |-> [bundle |-> disk[d].bundle, signed |-> disk[d].signed,
                             proof |-> disk[d].proof]]
  /\ run = [r \in Runs |-> [place |-> run[r].place, day |-> run[r].day,
                            alone |-> run[r].alone, holds |-> run[r].holds]]
  /\ \A r \in Runs : run[r].day \in Days /\ run[r].alone \in BOOLEAN

\* A run is alone for its day as long as it says so, and then the files it has
\* written are from its own reading.
AloneOK ==
  \A r \in Runs : run[r].place # "idle" /\ run[r].alone =>
    /\ \A q \in Runs : q # r /\ run[q].place # "idle" => run[q].day # run[r].day
    /\ run[r].place \in {"stamp", "announce"} =>
         disk[run[r].day].signed = disk[run[r].day].bundle
    /\ run[r].place = "announce" =>
         /\ disk[run[r].day].proof = disk[run[r].day].signed
         /\ run[r].holds = disk[run[r].day].signed

FilesInv == ShapesOK /\ AloneOK


\* The first day is one of them.
LEMMA DaysAreNumbers == 0 \in Days /\ Days \subseteq Nat
  <1>1. MaxClock \div DayLength \in Nat
    BY MaxClockAssumption, RollupAssumption DEF MaxClockAssumption, RollupAssumption
  <1> QED BY <1>1 DEF Days

\* The files and a run, with one part replaced.
LEMMA OnePart ==
  \A a, b, c, p :
    LET x == [bundle |-> a, signed |-> b, proof |-> c]
    IN  /\ [x EXCEPT !.bundle = p] = [bundle |-> p, signed |-> b, proof |-> c]
        /\ [x EXCEPT !.signed = p] = [bundle |-> a, signed |-> p, proof |-> c]
        /\ [x EXCEPT !.proof = p] = [bundle |-> a, signed |-> b, proof |-> p]
  <1> TAKE a, b, c, p
  <1> DEFINE x == [bundle |-> a, signed |-> b, proof |-> c]
  <1>1. [x EXCEPT !.bundle = p] = [bundle |-> p, signed |-> b, proof |-> c]
    OBVIOUS
  <1>2. [x EXCEPT !.signed = p] = [bundle |-> a, signed |-> p, proof |-> c]
    OBVIOUS
  <1>3. [x EXCEPT !.proof = p] = [bundle |-> a, signed |-> b, proof |-> p]
    OBVIOUS
  <1> QED BY <1>1, <1>2, <1>3

LEMMA TwoParts ==
  \A x, p, h :
    x = [place |-> x.place, day |-> x.day, alone |-> x.alone, holds |-> x.holds] =>
      [x EXCEPT !.place = p, !.holds = h]
          = [place |-> p, day |-> x.day, alone |-> x.alone, holds |-> h]
  <1> TAKE x, p, h
  <1> HAVE x = [place |-> x.place, day |-> x.day, alone |-> x.alone, holds |-> x.holds]
  <1> DEFINE y == [place |-> p, day |-> x.day, alone |-> x.alone, holds |-> x.holds]
  <1>1. [x EXCEPT !.place = p] = y
    OBVIOUS
  <1>2. [y EXCEPT !.holds = h] = [place |-> p, day |-> x.day, alone |-> x.alone, holds |-> h]
    OBVIOUS
  <1>3. [x EXCEPT !.place = p, !.holds = h] = [[x EXCEPT !.place = p] EXCEPT !.holds = h]
    BY Zenon
  <1> QED BY <1>1, <1>2, <1>3

LEMMA OtherAlone ==
  \A x, p : x = [place |-> x.place, day |-> x.day, alone |-> x.alone, holds |-> x.holds] =>
      [x EXCEPT !.alone = p]
          = [place |-> x.place, day |-> x.day, alone |-> p, holds |-> x.holds]
  OBVIOUS

\* A run goes on to its next place, and touches the files of its day only.
LEMMA AloneKept ==
  ASSUME AloneOK, \A q \in Runs : run[q].day \in Days,
         NEW r \in Runs, run[r].place # "idle",
         \A q \in Runs : q # r => run'[q] = run[q],
         run'[r].day = run[r].day, run'[r].alone = run[r].alone,
         \A e \in Days : e # run[r].day => disk'[e] = disk[e],
         run'[r].alone /\ run'[r].place \in {"stamp", "announce"} =>
           disk'[run[r].day].signed = disk'[run[r].day].bundle,
         run'[r].alone /\ run'[r].place = "announce" =>
           /\ disk'[run[r].day].proof = disk'[run[r].day].signed
           /\ run'[r].holds = disk'[run[r].day].signed
  PROVE  AloneOK'
  <1> SUFFICES ASSUME NEW p \in Runs, run'[p].place # "idle", run'[p].alone
               PROVE  /\ \A q \in Runs : q # p /\ run'[q].place # "idle" => run'[q].day # run'[p].day
                      /\ run'[p].place \in {"stamp", "announce"} =>
                           disk'[run'[p].day].signed = disk'[run'[p].day].bundle
                      /\ run'[p].place = "announce" =>
                           /\ disk'[run'[p].day].proof = disk'[run'[p].day].signed
                           /\ run'[p].holds = disk'[run'[p].day].signed
    BY DEF AloneOK
  <1>1. CASE p = r
    <2>1. \A q \in Runs : q # r /\ run[q].place # "idle" => run[q].day # run[r].day
      BY <1>1 DEF AloneOK
    <2> QED BY <1>1, <2>1
  <1>2. CASE p # r
    <2>1. run'[p] = run[p]
      BY <1>2
    <2>2. run[r].day # run[p].day /\ run[p].day \in Days
      BY <1>2, <2>1 DEF AloneOK
    <2>3. disk'[run[p].day] = disk[run[p].day]
      BY <2>2
    <2>4. \A q \in Runs : q # p /\ run'[q].place # "idle" => run'[q].day # run'[p].day
      BY <2>1, <2>2 DEF AloneOK
    <2>5. /\ run[p].place \in {"stamp", "announce"} =>
               disk[run[p].day].signed = disk[run[p].day].bundle
          /\ run[p].place = "announce" =>
               /\ disk[run[p].day].proof = disk[run[p].day].signed
               /\ run[p].holds = disk[run[p].day].signed
      BY <2>1 DEF AloneOK
    <2> QED BY <2>1, <2>3, <2>4, <2>5
  <1> QED BY <1>1, <1>2

\* Carry moves one run to its next place and leaves the others.
LEMMA CarryIs ==
  ASSUME ShapesOK, NEW r \in Runs, NEW p, NEW h, Carry(r, p, h)
  PROVE  /\ \A q \in Runs : q # r => run'[q] = run[q]
         /\ run'[r].place = p /\ run'[r].holds = h
         /\ run'[r].day = run[r].day /\ run'[r].alone = run[r].alone
         /\ run' = [q \in Runs |-> [place |-> run'[q].place, day |-> run'[q].day,
                                    alone |-> run'[q].alone, holds |-> run'[q].holds]]
  <1> DEFINE one == [place |-> p, day |-> run[r].day, alone |-> run[r].alone, holds |-> h]
  <1>1. run[r] = [place |-> run[r].place, day |-> run[r].day, alone |-> run[r].alone,
                  holds |-> run[r].holds]
    BY DEF ShapesOK
  <1>2. DOMAIN run = Runs
    BY DEF ShapesOK
  <1>0. run' = [run EXCEPT ![r] = [run[r] EXCEPT !.place = p, !.holds = h]]
    BY <1>2 DEF Carry
  <1>5. [run[r] EXCEPT !.place = p, !.holds = h] = one
    BY <1>1, TwoParts
  <1>3. run' = [q \in Runs |-> IF q = r THEN one ELSE run[q]]
    BY <1>0, <1>5, <1>2
  <1>4. \A q \in Runs : run[q] = [place |-> run[q].place, day |-> run[q].day,
                                  alone |-> run[q].alone, holds |-> run[q].holds]
    BY DEF ShapesOK
  <1> QED BY <1>3, <1>4

\* A step that writes one file of one day, one lemma for each of the three.
LEMMA WritesBundle ==
  ASSUME ShapesOK, NEW d \in Days, NEW v, disk' = [disk EXCEPT ![d].bundle = v]
  PROVE  /\ \A e \in Days : e # d => disk'[e] = disk[e]
         /\ disk'[d] = [bundle |-> v, signed |-> disk[d].signed, proof |-> disk[d].proof]
         /\ disk' = [e \in Days |-> [bundle |-> disk'[e].bundle, signed |-> disk'[e].signed,
                                     proof |-> disk'[e].proof]]
  <1> DEFINE x == disk[d]
             y == [bundle |-> v, signed |-> x.signed, proof |-> x.proof]
  <1>1. x = [bundle |-> x.bundle, signed |-> x.signed, proof |-> x.proof] /\ DOMAIN disk = Days
    BY DEF ShapesOK
  <1>2. [x EXCEPT !.bundle = v] = y
    <2> HIDE DEF x
    <2> QED BY <1>1, OnePart
  <1>3. disk' = [disk EXCEPT ![d] = y]
    BY <1>1, <1>2
  <1>4. y = [bundle |-> y.bundle, signed |-> y.signed, proof |-> y.proof]
    OBVIOUS
  <1> HIDE DEF y
  <1>5. \A e \in Days : disk'[e] = IF e = d THEN y ELSE disk[e]
    BY <1>1, <1>3
  <1>6. \A e \in Days : disk'[e] = [bundle |-> disk'[e].bundle, signed |-> disk'[e].signed,
                                    proof |-> disk'[e].proof]
    BY <1>4, <1>5 DEF ShapesOK
  <1>7. disk' = [e \in Days |-> disk'[e]]
    BY <1>1, <1>3
  <1>8. disk'[d] = [bundle |-> v, signed |-> disk[d].signed, proof |-> disk[d].proof]
    BY <1>5 DEF y
  <1> QED BY <1>5, <1>6, <1>7, <1>8

LEMMA WritesSigned ==
  ASSUME ShapesOK, NEW d \in Days, NEW v, disk' = [disk EXCEPT ![d].signed = v]
  PROVE  /\ \A e \in Days : e # d => disk'[e] = disk[e]
         /\ disk'[d] = [bundle |-> disk[d].bundle, signed |-> v, proof |-> disk[d].proof]
         /\ disk' = [e \in Days |-> [bundle |-> disk'[e].bundle, signed |-> disk'[e].signed,
                                     proof |-> disk'[e].proof]]
  <1> DEFINE x == disk[d]
             y == [bundle |-> x.bundle, signed |-> v, proof |-> x.proof]
  <1>1. x = [bundle |-> x.bundle, signed |-> x.signed, proof |-> x.proof] /\ DOMAIN disk = Days
    BY DEF ShapesOK
  <1>2. [x EXCEPT !.signed = v] = y
    <2> HIDE DEF x
    <2> QED BY <1>1, OnePart
  <1>3. disk' = [disk EXCEPT ![d] = y]
    BY <1>1, <1>2
  <1>4. y = [bundle |-> y.bundle, signed |-> y.signed, proof |-> y.proof]
    OBVIOUS
  <1> HIDE DEF y
  <1>5. \A e \in Days : disk'[e] = IF e = d THEN y ELSE disk[e]
    BY <1>1, <1>3
  <1>6. \A e \in Days : disk'[e] = [bundle |-> disk'[e].bundle, signed |-> disk'[e].signed,
                                    proof |-> disk'[e].proof]
    BY <1>4, <1>5 DEF ShapesOK
  <1>7. disk' = [e \in Days |-> disk'[e]]
    BY <1>1, <1>3
  <1>8. disk'[d] = [bundle |-> disk[d].bundle, signed |-> v, proof |-> disk[d].proof]
    BY <1>5 DEF y
  <1> QED BY <1>5, <1>6, <1>7, <1>8

LEMMA WritesProof ==
  ASSUME ShapesOK, NEW d \in Days, NEW v, disk' = [disk EXCEPT ![d].proof = v]
  PROVE  /\ \A e \in Days : e # d => disk'[e] = disk[e]
         /\ disk'[d] = [bundle |-> disk[d].bundle, signed |-> disk[d].signed, proof |-> v]
         /\ disk' = [e \in Days |-> [bundle |-> disk'[e].bundle, signed |-> disk'[e].signed,
                                     proof |-> disk'[e].proof]]
  <1> DEFINE x == disk[d]
             y == [bundle |-> x.bundle, signed |-> x.signed, proof |-> v]
  <1>1. x = [bundle |-> x.bundle, signed |-> x.signed, proof |-> x.proof] /\ DOMAIN disk = Days
    BY DEF ShapesOK
  <1>2. [x EXCEPT !.proof = v] = y
    <2> HIDE DEF x
    <2> QED BY <1>1, OnePart
  <1>3. disk' = [disk EXCEPT ![d] = y]
    BY <1>1, <1>2
  <1>4. y = [bundle |-> y.bundle, signed |-> y.signed, proof |-> y.proof]
    OBVIOUS
  <1> HIDE DEF y
  <1>5. \A e \in Days : disk'[e] = IF e = d THEN y ELSE disk[e]
    BY <1>1, <1>3
  <1>6. \A e \in Days : disk'[e] = [bundle |-> disk'[e].bundle, signed |-> disk'[e].signed,
                                    proof |-> disk'[e].proof]
    BY <1>4, <1>5 DEF ShapesOK
  <1>7. disk' = [e \in Days |-> disk'[e]]
    BY <1>1, <1>3
  <1>8. disk'[d] = [bundle |-> disk[d].bundle, signed |-> disk[d].signed, proof |-> v]
    BY <1>5 DEF y
  <1> QED BY <1>5, <1>6, <1>7, <1>8

\* A run starts: it is alone for its day only if no other is at work there, and
\* tells the others that they no longer are.
LEMMA StartRollupKeepsFiles ==
  ASSUME FilesInv, NEW r \in Runs, NEW d \in Days, StartRollup(r, d)
  PROVE  FilesInv'
  <1> DEFINE others == {q \in Runs \ {r} : run[q].place # "idle" /\ run[q].day = d}
             flag == others = {}
             off == FALSE
             Shaped(x) == x = [place |-> x.place, day |-> x.day, alone |-> x.alone, holds |-> x.holds]
  <1>1. /\ run' = [q \in Runs |->
              IF q = r THEN [place |-> "export", day |-> d, alone |-> flag, holds |-> {}]
              ELSE IF q \in others THEN [run[q] EXCEPT !.alone = off]
              ELSE run[q]]
        /\ disk' = disk
    BY Zenon DEF StartRollup
  <1>2. \A q \in Runs : Shaped(run[q]) /\ run[q].day \in Days /\ run[q].alone \in BOOLEAN
    BY DEF FilesInv, ShapesOK
  <1>3. flag \in BOOLEAN /\ off \in BOOLEAN /\ ~off
    OBVIOUS
  <1>4. flag => \A q \in Runs : q # r => ~(run[q].place # "idle" /\ run[q].day = d)
    OBVIOUS
  <1> HIDE DEF off, flag
  <1>5. \A q \in Runs : q # r =>
           IF q \in others
           THEN run'[q] = [place |-> run[q].place, day |-> run[q].day, alone |-> off,
                           holds |-> run[q].holds]
           ELSE run'[q] = run[q]
    <2> SUFFICES ASSUME NEW q \in Runs, q # r, q \in others
                 PROVE  run'[q] = [place |-> run[q].place, day |-> run[q].day, alone |-> off,
                                   holds |-> run[q].holds]
      BY <1>1
    <2>1. run'[q] = [run[q] EXCEPT !.alone = off]
      BY <1>1
    <2> QED BY <1>2, <2>1, OtherAlone
  <1>6. run'[r] = [place |-> "export", day |-> d, alone |-> flag, holds |-> {}]
    BY <1>1
  <1>7. \A q \in Runs : Shaped(run'[q]) /\ run'[q].day \in Days /\ run'[q].alone \in BOOLEAN
    <2>1. Shaped(run'[r]) /\ run'[r].day \in Days /\ run'[r].alone \in BOOLEAN
      BY <1>3, <1>6
    <2>2. ASSUME NEW q \in Runs, q # r
          PROVE  Shaped(run'[q]) /\ run'[q].day \in Days /\ run'[q].alone \in BOOLEAN
      <3>1. CASE q \in others
        <4>1. run'[q] = [place |-> run[q].place, day |-> run[q].day, alone |-> off,
                         holds |-> run[q].holds]
          BY <1>5, <2>2, <3>1
        <4>2. run[q].day \in Days
          BY <1>2
        <4>3. run'[q].day = run[q].day /\ run'[q].alone = off /\ run'[q].place = run[q].place
              /\ run'[q].holds = run[q].holds
          BY <4>1
        <4> QED BY <1>3, <4>1, <4>2, <4>3
      <3>2. CASE q \notin others
        <4>1. run'[q] = run[q]
          BY <1>5, <2>2, <3>2
        <4> QED BY <1>2, <4>1
      <3> QED BY <3>1, <3>2
    <2> QED BY <2>1, <2>2
  <1>8. run' = [q \in Runs |-> run'[q]]
    BY <1>1
  <1>9. ShapesOK'
    BY <1>1, <1>7, <1>8 DEF FilesInv, ShapesOK
  <1>10. \A q \in Runs : q # r =>
           /\ run'[q].place = run[q].place /\ run'[q].day = run[q].day
           /\ run'[q].holds = run[q].holds
           /\ run'[q].alone => run[q].alone /\ ~(run[q].place # "idle" /\ run[q].day = d)
    <2> SUFFICES ASSUME NEW q \in Runs, q # r
                 PROVE  /\ run'[q].place = run[q].place /\ run'[q].day = run[q].day
                        /\ run'[q].holds = run[q].holds
                        /\ run'[q].alone => run[q].alone /\ ~(run[q].place # "idle" /\ run[q].day = d)
      OBVIOUS
    <2>1. CASE q \in others
      <3>1. run'[q] = [place |-> run[q].place, day |-> run[q].day, alone |-> off,
                         holds |-> run[q].holds]
        BY <1>5, <2>1
      <3> QED BY <1>3, <3>1
    <2>2. CASE q \notin others
      <3>1. run'[q] = run[q]
        BY <1>5, <2>2
      <3> QED BY <2>2, <3>1
    <2> QED BY <2>1, <2>2
  <1>11. /\ run'[r].place = "export" /\ run'[r].day = d
         /\ run'[r].alone => \A q \in Runs : q # r => ~(run[q].place # "idle" /\ run[q].day = d)
    BY <1>4, <1>6
  <1>12. AloneOK'
    <2> HIDE DEF others, Shaped
    <2> QED BY <1>1, <1>10, <1>11 DEF FilesInv, AloneOK
  <1> QED BY <1>9, <1>12 DEF FilesInv

LEMMA ExportKeepsFiles ==
  ASSUME FilesInv, NEW r \in Runs, Export(r)
  PROVE  FilesInv'
  <1> DEFINE d == run[r].day
  <1>1. d \in Days /\ run[r].place = "export" /\ ShapesOK
    BY DEF FilesInv, ShapesOK, Export
  <1>2. PICK v : disk' = [disk EXCEPT ![d].bundle = v]
    BY DEF Export
  <1>3. Carry(r, "sign", {})
    BY DEF Export
  <1>4. /\ \A q \in Runs : q # r => run'[q] = run[q]
        /\ run'[r].place = "sign" /\ run'[r].day = d /\ run'[r].alone = run[r].alone
        /\ run' = [q \in Runs |-> [place |-> run'[q].place, day |-> run'[q].day,
                                    alone |-> run'[q].alone, holds |-> run'[q].holds]]
    BY <1>1, <1>3, CarryIs
  <1>5. /\ \A e \in Days : e # d => disk'[e] = disk[e]
        /\ disk' = [e \in Days |-> [bundle |-> disk'[e].bundle, signed |-> disk'[e].signed,
                                     proof |-> disk'[e].proof]]
    <2> HIDE DEF d
    <2> QED BY <1>1, <1>2, WritesBundle
  <1>6. ShapesOK'
    BY <1>4, <1>5 DEF FilesInv, ShapesOK
  <1>7. AloneOK /\ \A q \in Runs : run[q].day \in Days
    BY DEF FilesInv, ShapesOK
  <1>8. AloneOK'
    BY <1>1, <1>4, <1>5, <1>7, AloneKept
  <1> QED BY <1>6, <1>8 DEF FilesInv

LEMMA SignKeepsFiles ==
  ASSUME FilesInv, NEW r \in Runs, Sign(r)
  PROVE  FilesInv'
  <1> DEFINE d == run[r].day
             v == disk[d].bundle
  <1>1. d \in Days /\ run[r].place = "sign" /\ ShapesOK
    BY DEF FilesInv, ShapesOK, Sign
  <1>2. disk' = [disk EXCEPT ![d].signed = v]
    BY DEF Sign
  <1>3. Carry(r, "stamp", {})
    BY DEF Sign
  <1>4. /\ \A q \in Runs : q # r => run'[q] = run[q]
        /\ run'[r].place = "stamp" /\ run'[r].day = d /\ run'[r].alone = run[r].alone
        /\ run' = [q \in Runs |-> [place |-> run'[q].place, day |-> run'[q].day,
                                    alone |-> run'[q].alone, holds |-> run'[q].holds]]
    BY <1>1, <1>3, CarryIs
  <1>5. /\ \A e \in Days : e # d => disk'[e] = disk[e]
        /\ disk'[d].signed = v /\ disk'[d].bundle = v
        /\ disk' = [e \in Days |-> [bundle |-> disk'[e].bundle, signed |-> disk'[e].signed,
                                     proof |-> disk'[e].proof]]
    <2> HIDE DEF d
    <2>1. disk'[d] = [bundle |-> disk[d].bundle, signed |-> v, proof |-> disk[d].proof]
      BY <1>1, <1>2, WritesSigned
    <2>2. /\ \A e \in Days : e # d => disk'[e] = disk[e]
          /\ disk' = [e \in Days |-> [bundle |-> disk'[e].bundle, signed |-> disk'[e].signed,
                                       proof |-> disk'[e].proof]]
      BY <1>1, <1>2, WritesSigned
    <2> QED BY <2>1, <2>2
  <1>6. ShapesOK'
    BY <1>4, <1>5 DEF FilesInv, ShapesOK
  <1>7. AloneOK /\ \A q \in Runs : run[q].day \in Days
    BY DEF FilesInv, ShapesOK
  <1>8. AloneOK'
    BY <1>1, <1>4, <1>5, <1>7, AloneKept
  <1> QED BY <1>6, <1>8 DEF FilesInv

LEMMA StampKeepsFiles ==
  ASSUME FilesInv, NEW r \in Runs, Stamp(r)
  PROVE  FilesInv'
  <1> DEFINE d == run[r].day
             v == disk[d].signed
  <1>1. d \in Days /\ run[r].place = "stamp" /\ ShapesOK
    BY DEF FilesInv, ShapesOK, Stamp
  <1>2. disk' = [disk EXCEPT ![d].proof = v]
    BY DEF Stamp
  <1>3. Carry(r, "announce", v)
    BY DEF Stamp
  <1>4. /\ \A q \in Runs : q # r => run'[q] = run[q]
        /\ run'[r].place = "announce" /\ run'[r].holds = v
        /\ run'[r].day = d /\ run'[r].alone = run[r].alone
        /\ run' = [q \in Runs |-> [place |-> run'[q].place, day |-> run'[q].day,
                                    alone |-> run'[q].alone, holds |-> run'[q].holds]]
    BY <1>1, <1>3, CarryIs
  <1>5. /\ \A e \in Days : e # d => disk'[e] = disk[e]
        /\ disk'[d].proof = v /\ disk'[d].bundle = disk[d].bundle /\ disk'[d].signed = v
        /\ disk' = [e \in Days |-> [bundle |-> disk'[e].bundle, signed |-> disk'[e].signed,
                                     proof |-> disk'[e].proof]]
    <2> HIDE DEF d
    <2>1. disk'[d] = [bundle |-> disk[d].bundle, signed |-> disk[d].signed, proof |-> v]
      BY <1>1, <1>2, WritesProof
    <2>2. /\ \A e \in Days : e # d => disk'[e] = disk[e]
          /\ disk' = [e \in Days |-> [bundle |-> disk'[e].bundle, signed |-> disk'[e].signed,
                                       proof |-> disk'[e].proof]]
      BY <1>1, <1>2, WritesProof
    <2> QED BY <2>1, <2>2
  <1>6. ShapesOK'
    BY <1>4, <1>5 DEF FilesInv, ShapesOK
  <1>7. AloneOK /\ \A q \in Runs : run[q].day \in Days
    BY DEF FilesInv, ShapesOK
  <1>9. run[r].alone => v = disk[d].bundle
    BY <1>1, <1>7 DEF AloneOK
  <1>8. AloneOK'
    BY <1>1, <1>4, <1>5, <1>7, <1>9, AloneKept
  <1> QED BY <1>6, <1>8 DEF FilesInv

LEMMA RestIs ==
  /\ AtRest.place = "idle" /\ AtRest.day \in Days /\ AtRest.alone \in BOOLEAN
  /\ AtRest = [place |-> AtRest.place, day |-> AtRest.day, alone |-> AtRest.alone,
               holds |-> AtRest.holds]
  BY DaysAreNumbers DEF AtRest

\* A run that ends, or dies, leaves the files to the next one.
LEMMA EndKeepsFiles ==
  ASSUME FilesInv, NEW r \in Runs, Announce(r) \/ RollupFails(r)
  PROVE  FilesInv'
  <1>1. run' = [run EXCEPT ![r] = AtRest] /\ disk' = disk
    BY DEF Announce, RollupFails
  <1>2. AtRest.place = "idle" /\ AtRest.day \in Days /\ AtRest.alone \in BOOLEAN
        /\ AtRest = [place |-> AtRest.place, day |-> AtRest.day, alone |-> AtRest.alone,
                     holds |-> AtRest.holds]
    BY DaysAreNumbers DEF AtRest
  <1>3. DOMAIN run = Runs
    BY DEF FilesInv, ShapesOK
  <1>4. /\ \A q \in Runs : q # r => run'[q] = run[q]
        /\ run'[r] = AtRest
        /\ run' = [q \in Runs |-> run'[q]]
    BY <1>1, <1>3
  <1>5. ShapesOK'
    BY <1>1, <1>2, <1>4 DEF FilesInv, ShapesOK
  <1>6. AloneOK'
    BY <1>1, <1>2, <1>4 DEF FilesInv, AloneOK
  <1> QED BY <1>5, <1>6 DEF FilesInv

LEMMA FilesNext == FilesInv /\ [RollupNext]_rvars => FilesInv'
  <1> SUFFICES ASSUME FilesInv, [RollupNext]_rvars PROVE FilesInv'
    OBVIOUS
  <1>1. CASE UNCHANGED <<disk, run>>
    BY <1>1 DEF FilesInv, ShapesOK, AloneOK
  <1>2. CASE \E r \in Runs, d \in Days : StartRollup(r, d)
    BY <1>2, StartRollupKeepsFiles
  <1>3. CASE \E r \in Runs : Export(r) \/ Sign(r) \/ Stamp(r) \/ Announce(r) \/ RollupFails(r)
    BY <1>3, ExportKeepsFiles, SignKeepsFiles, StampKeepsFiles, EndKeepsFiles
  <1>4. (\E s \in 0 .. MaxClock, cp \in BOOLEAN : PublishEvent(s, cp)) => UNCHANGED <<disk, run>>
    BY DEF PublishEvent
  <1>5. Tick /\ UNCHANGED rollupVars => UNCHANGED <<disk, run>>
    BY DEF rollupVars
  <1>6. UNCHANGED rvars => UNCHANGED <<disk, run>>
    BY DEF rvars, rollupVars
  <1> QED BY <1>1, <1>2, <1>3, <1>4, <1>5, <1>6 DEF RollupNext

LEMMA FilesInit == RollupInit => FilesInv
  <1> SUFFICES ASSUME RollupInit PROVE FilesInv
    OBVIOUS
  <1>1. \A d \in Days : disk[d] = NoFiles
    BY DEF RollupInit
  <1>2. \A r \in Runs : run[r] = AtRest
    BY DEF RollupInit
  <1>3. disk = [d \in Days |-> disk[d]] /\ run = [r \in Runs |-> run[r]]
    BY DEF RollupInit
  <1>4. ShapesOK
    <2>1. \A d \in Days : disk[d] = [bundle |-> disk[d].bundle, signed |-> disk[d].signed,
                                     proof |-> disk[d].proof]
      BY <1>1 DEF NoFiles
    <2>2. \A r \in Runs :
            /\ run[r] = [place |-> run[r].place, day |-> run[r].day,
                         alone |-> run[r].alone, holds |-> run[r].holds]
            /\ run[r].day \in Days /\ run[r].alone \in BOOLEAN
      BY <1>2, RestIs
    <2> QED BY <1>3, <2>1, <2>2 DEF ShapesOK
  <1>5. AloneOK
    BY <1>2 DEF AloneOK, AtRest
  <1> QED BY <1>4, <1>5 DEF FilesInv

\* What a run that reaches its end alone leaves on the disk belongs together
\* (main.rs, rollup_daily), however many runs of that and of other days were
\* started or killed before and beside it.
THEOREM FilesOfARunBelongTogether == RollupSpec => FilesBelongTogether
  <1>1. FilesInv /\ [RollupNext]_rvars =>
          [\A r \in Runs : Announce(r) /\ run[r].alone =>
             /\ disk[run[r].day].bundle = disk[run[r].day].signed
             /\ disk[run[r].day].proof = disk[run[r].day].signed
             /\ disk[run[r].day].signed = run[r].holds]_rvars
    BY DEF FilesInv, AloneOK, Announce
  <1> QED BY <1>1, FilesNext, FilesInit, PTL DEF RollupSpec, FilesBelongTogether, rvars

-----------------------------------------------------------------------------
(* The demo: what a sever revokes.                                         *)

RuntimeFields == {"iac", "timeline", "receipts", "next"}
LocalFields == {"no", "iac", "head", "now", "good", "why", "event"}

\* The records the two mutexes and the requests are made of.
RecordsOK ==
  /\ DOMAIN runtime = RuntimeFields
  /\ runtime.next \in Nat /\ started \in Nat
  /\ DOMAIN pc = Requests /\ DOMAIN local = Requests
  /\ \A r \in Requests : DOMAIN local[r] = LocalFields /\ local[r].no \in 0 .. started

\* No credential has an id that is still to be given out.
IdsAreFresh ==
  /\ \A iac \in runtime.iac : iac.id \in Nat /\ iac.id < runtime.next
  /\ \A s \in severed : s.id \in Nat /\ s.id < runtime.next
  /\ \A r \in Requests : \A iac \in local[r].iac : iac.id \in Nat /\ iac.id < runtime.next

\* A credential that was severed is not active, and who holds it asked before
\* the answer of the sever.
SeveredIsGone ==
  /\ \A s \in severed : \A iac \in runtime.iac : s.id # iac.id
  /\ \A r \in Requests : \A iac \in local[r].iac : \A s \in severed :
        s.id = iac.id => local[r].no <= s.before

HoldsOne == \A r \in Requests : pc[r] \in {"check", "publish"} => local[r].iac # {}

SeverInv == RecordsOK /\ IdsAreFresh /\ SeveredIsGone /\ HoldsOne

LEMMA NothingIs ==
  /\ DOMAIN Nothing = LocalFields /\ Nothing.no = 0 /\ Nothing.iac = {}
  BY DEF Nothing, LocalFields

LEMMA NewLocalIs ==
  ASSUME started \in Nat
  PROVE  DOMAIN NewLocal = LocalFields /\ NewLocal.no = started + 1 /\ NewLocal.iac = {}
  BY NothingIs DEF NewLocal, LocalFields

LEMMA LoggedIs ==
  ASSUME NEW rt, DOMAIN rt = RuntimeFields, NEW kind, NEW cp, NEW t
  PROVE  /\ DOMAIN Logged(rt, kind, cp, t) = RuntimeFields
         /\ Logged(rt, kind, cp, t).next = rt.next + 1
         /\ Logged(rt, kind, cp, t).iac = rt.iac
  BY DEF Logged, RuntimeFields

LEMMA RecordedIs ==
  ASSUME NEW rt, DOMAIN rt = RuntimeFields, NEW kind, NEW cp, NEW t
  PROVE  /\ DOMAIN Recorded(rt, kind, cp, t) = RuntimeFields
         /\ Recorded(rt, kind, cp, t).next = rt.next + 1
         /\ Recorded(rt, kind, cp, t).iac = rt.iac
  <1> DEFINE l == Logged(rt, kind, cp, t)
  <1>1. /\ DOMAIN l = RuntimeFields /\ l.next = rt.next + 1 /\ l.iac = rt.iac
    BY LoggedIs
  <1> HIDE DEF l
  <1>2. ASSUME NEW v PROVE LET x == [l EXCEPT !.receipts = v]
                           IN  DOMAIN x = RuntimeFields /\ x.next = l.next /\ x.iac = l.iac
    BY <1>1 DEF RuntimeFields
  <1>3. \E v : Recorded(rt, kind, cp, t) = [l EXCEPT !.receipts = v]
    BY DEF Recorded, l
  <1> QED BY <1>1, <1>2, <1>3

\* What every step has in common: one request goes to its next place, ids only
\* grow, and what is held or revoked is what was active or held before.
Goes(r, next, values) ==
  /\ Goto(r, next) /\ Hold(r, values)
  /\ DOMAIN runtime' = RuntimeFields /\ runtime'.next \in Nat /\ runtime'.next >= runtime.next
  /\ started' \in Nat /\ started' >= started
  /\ DOMAIN values = LocalFields /\ values.no \in 0 .. started'
  /\ \A iac \in values.iac : iac \in runtime.iac \/ (iac \in local[r].iac /\ values.no = local[r].no)
  /\ next \in {"check", "publish"} => values.iac # {}
  /\ \A iac \in runtime'.iac :
        iac \in runtime.iac \/ (iac.id = runtime.next /\ iac.id < runtime'.next)
  /\ \A s \in severed' \ severed :
        /\ s.before = started /\ started' = started
        /\ runtime'.iac = {} /\ values.iac = {}
        /\ \E iac \in runtime.iac : s.id = iac.id

LEMMA GoesKeeps ==
  ASSUME SeverInv, NEW r \in Requests, NEW next, NEW values, Goes(r, next, values)
  PROVE  SeverInv'
  <1>0. RecordsOK /\ IdsAreFresh /\ SeveredIsGone /\ HoldsOne
    BY DEF SeverInv
  <1>1. /\ pc'[r] = next /\ local'[r] = values
        /\ DOMAIN pc' = Requests /\ DOMAIN local' = Requests
        /\ \A q \in Requests : q # r => pc'[q] = pc[q] /\ local'[q] = local[q]
    BY <1>0 DEF RecordsOK, Goes, Goto, Hold
  <1> USE DEF Goes
  <1>2. RecordsOK'
    BY <1>0, <1>1 DEF RecordsOK
  <1>3. HoldsOne'
    BY <1>0, <1>1 DEF HoldsOne
  <1>4. IdsAreFresh'
    <2>1. \A iac \in runtime'.iac : iac.id \in Nat /\ iac.id < runtime'.next
      BY <1>0 DEF RecordsOK, IdsAreFresh
    <2>2. \A s \in severed' : s.id \in Nat /\ s.id < runtime'.next
      BY <1>0 DEF RecordsOK, IdsAreFresh
    <2>3. \A q \in Requests : \A iac \in local'[q].iac : iac.id \in Nat /\ iac.id < runtime'.next
      BY <1>0, <1>1 DEF RecordsOK, IdsAreFresh
    <2> QED BY <2>1, <2>2, <2>3 DEF IdsAreFresh
  <1>5. SeveredIsGone'
    <2>1. ASSUME NEW s \in severed', NEW iac \in runtime'.iac PROVE s.id # iac.id
      <3>1. s \in severed
        BY <2>1
      <3>2. s.id \in Nat /\ s.id < runtime.next
        BY <1>0, <3>1 DEF IdsAreFresh
      <3>3. CASE iac \in runtime.iac
        BY <1>0, <3>1, <3>3 DEF SeveredIsGone
      <3>4. CASE iac.id = runtime.next
        BY <1>0, <3>2, <3>4 DEF RecordsOK
      <3> QED BY <3>3, <3>4
    <2>2. ASSUME NEW q \in Requests, NEW iac \in local'[q].iac, NEW s \in severed', s.id = iac.id
          PROVE  local'[q].no <= s.before
      <3>1. CASE s \in severed /\ q # r
        BY <1>0, <1>1, <2>2, <3>1 DEF SeveredIsGone
      <3>2. CASE s \in severed /\ q = r
        <4>1. iac \notin runtime.iac
          BY <1>0, <2>2, <3>2 DEF SeveredIsGone
        <4>2. iac \in local[r].iac /\ values.no = local[r].no
          BY <1>1, <2>2, <3>2, <4>1
        <4> QED BY <1>0, <1>1, <2>2, <3>2, <4>2 DEF SeveredIsGone
      <3>3. CASE s \notin severed
        <4>1. q # r /\ s.before = started
          BY <1>1, <2>2, <3>3
        <4> QED BY <1>0, <1>1, <4>1 DEF RecordsOK
      <3> QED BY <3>1, <3>2, <3>3
    <2> QED BY <2>1, <2>2 DEF SeveredIsGone
  <1> QED BY <1>2, <1>3, <1>4, <1>5 DEF SeverInv

\* A request that begins is the youngest and holds at most what is active.
LEMMA BeginKeeps ==
  ASSUME SeverInv, NEW r \in Requests, Issue(r) \/ Act(r) \/ Sever(r) \/ Reset(r)
  PROVE  SeverInv'
  <1>0. /\ DOMAIN runtime = RuntimeFields /\ runtime.next \in Nat /\ started \in Nat
        /\ started' = started + 1 /\ runtime' = runtime /\ severed' = severed
    BY DEF SeverInv, RecordsOK, Issue, Act, Sever, Reset, Begin
  <1>1. DOMAIN NewLocal = LocalFields /\ NewLocal.no = started + 1 /\ NewLocal.iac = {}
    BY <1>0, NewLocalIs
  <1>2. ASSUME NEW next, NEW values, Goto(r, next), Hold(r, values),
               DOMAIN values = LocalFields, values.no = started + 1,
               values.iac = {} \/ values.iac = runtime.iac,
               next \in {"check", "publish"} => values.iac # {}
        PROVE  SeverInv'
    <2>1. values.no \in 0 .. started' /\ started' >= started /\ started' \in Nat
      BY <1>0, <1>2
    <2>2. \A iac \in values.iac : iac \in runtime.iac
      BY <1>2
    <2>3. severed' \ severed = {}
      BY <1>0
    <2>4. DOMAIN runtime' = RuntimeFields /\ runtime'.next \in Nat /\ runtime'.next >= runtime.next
          /\ runtime'.iac = runtime.iac
      BY <1>0
    <2>5. Goes(r, next, values)
      BY <1>2, <2>1, <2>2, <2>3, <2>4 DEF Goes
    <2> QED BY <2>5, GoesKeeps
  <1>3. CASE Issue(r)
    <2> DEFINE values == [NewLocal EXCEPT !.head = chain.head]
    <2>1. DOMAIN values = LocalFields /\ values.no = started + 1 /\ values.iac = {}
      BY <1>1 DEF LocalFields
    <2>2. Goto(r, "install") /\ Hold(r, values)
      BY <1>3 DEF Issue
    <2> HIDE DEF values
    <2> QED BY <1>2, <2>1, <2>2
  <1>4. CASE Sever(r)
    <2> DEFINE values == [NewLocal EXCEPT !.iac = runtime.iac]
    <2>1. DOMAIN values = LocalFields /\ values.no = started + 1 /\ values.iac = runtime.iac
      BY <1>1 DEF LocalFields
    <2>2. Goto(r, "mark") /\ Hold(r, values)
      BY <1>4 DEF Sever
    <2> HIDE DEF values
    <2> QED BY <1>2, <2>1, <2>2
  <1>5. CASE Act(r)
    <2>1. PICK good \in BOOLEAN :
            LET l == [NewLocal EXCEPT !.iac = runtime.iac, !.good = good]
            IN  IF \E iac \in runtime.iac : iac.until >= second
                THEN Goto(r, "check") /\ Hold(r, l)
                ELSE Goto(r, "blocked") /\ Hold(r, [l EXCEPT !.why = "no live authorization"])
      BY <1>5 DEF Act
    <2> DEFINE l == [NewLocal EXCEPT !.iac = runtime.iac, !.good = good]
               m == [l EXCEPT !.why = "no live authorization"]
    <2>2. DOMAIN l = LocalFields /\ l.no = started + 1 /\ l.iac = runtime.iac
      BY <1>1 DEF LocalFields
    <2> HIDE DEF l
    <2>3. DOMAIN m = LocalFields /\ m.no = started + 1 /\ m.iac = runtime.iac
      BY <2>2 DEF LocalFields
    <2> HIDE DEF m
    <2>4. CASE \E iac \in runtime.iac : iac.until >= second
      <3>1. Goto(r, "check") /\ Hold(r, l) /\ runtime.iac # {}
        BY <2>1, <2>4 DEF l
      <3> QED BY <1>2, <2>2, <3>1
    <2>5. CASE ~\E iac \in runtime.iac : iac.until >= second
      <3>1. Goto(r, "blocked") /\ Hold(r, m)
        BY <2>1, <2>5 DEF l, m
      <3> QED BY <1>2, <2>3, <3>1
    <2> QED BY <2>4, <2>5
  <1>6. CASE Reset(r)
    <2>1. Goto(r, "clear") /\ local' = local
      BY <1>6 DEF Reset
    <2>2. pc[r] = "idle"
      BY <1>6 DEF Reset, Begin
    <2>3. RecordsOK /\ IdsAreFresh /\ SeveredIsGone /\ HoldsOne
      BY DEF SeverInv
    <2>4. DOMAIN pc' = Requests /\ \A q \in Requests : pc'[q] = IF q = r THEN "clear" ELSE pc[q]
      BY <2>1, <2>3 DEF Goto, RecordsOK
    <2>5. RecordsOK'
      BY <1>0, <2>1, <2>3, <2>4 DEF RecordsOK
    <2>6. IdsAreFresh' /\ SeveredIsGone'
      BY <1>0, <2>1, <2>3 DEF IdsAreFresh, SeveredIsGone
    <2>7. HoldsOne'
      BY <2>1, <2>3, <2>4 DEF HoldsOne
    <2> QED BY <2>5, <2>6, <2>7 DEF SeverInv
  <1> QED BY <1>3, <1>4, <1>5, <1>6

\* A step in the middle of a request: it holds what it held, or nothing.
LEMMA MiddleKeeps ==
  ASSUME SeverInv, NEW r \in Requests, UNCHANGED <<started, severed>>,
         NEW next, NEW values, Goto(r, next), Hold(r, values),
         DOMAIN values = LocalFields,
         \/ values.no = local[r].no /\ values.iac = local[r].iac
         \/ values.no = 0 /\ values.iac = {},
         next \in {"check", "publish"} => pc[r] = "check" /\ values.iac = local[r].iac,
         DOMAIN runtime' = RuntimeFields,
         runtime'.next \in {runtime.next, runtime.next + 1},
         \A iac \in runtime'.iac :
            iac \in runtime.iac \/ (iac.id = runtime.next /\ iac.id < runtime'.next)
  PROVE  SeverInv'
  <1>1. RecordsOK /\ HoldsOne
    BY DEF SeverInv
  <1>2. next \in {"check", "publish"} => values.iac # {}
    BY <1>1 DEF HoldsOne
  <1>3. runtime.next \in Nat /\ started \in Nat /\ local[r].no \in 0 .. started
    BY <1>1 DEF RecordsOK
  <1>4. Goes(r, next, values)
    BY <1>2, <1>3 DEF Goes
  <1> QED BY <1>4, GoesKeeps

LEMMA InstallKeeps ==
  ASSUME SeverInv, NEW r \in Requests, Install(r) \/ Allow(r) \/ Refuse(r) \/ Clear(r)
  PROVE  SeverInv'
  <1>1. /\ Goto(r, "idle") /\ Hold(r, Nothing)
        /\ UNCHANGED <<started, severed>>
    BY DEF Install, Allow, Refuse, Clear, Return
  <1>2. DOMAIN runtime = RuntimeFields /\ runtime.next \in Nat
    BY DEF SeverInv, RecordsOK
  <1>3. ASSUME DOMAIN runtime' = RuntimeFields,
               runtime'.next \in {runtime.next, runtime.next + 1},
               \A iac \in runtime'.iac :
                  iac \in runtime.iac \/ (iac.id = runtime.next /\ iac.id < runtime'.next)
        PROVE  SeverInv'
    BY <1>1, <1>3, NothingIs, MiddleKeeps
  <1>4. CASE Install(r)
    <2> DEFINE l == local[r]
               iac == [scope |-> l.now, parent |-> l.head, until |-> l.now + Ttl, id |-> runtime.next]
               rt == Logged(runtime, "issued", 0, l.now)
    <2>1. runtime' = [rt EXCEPT !.iac = {iac}]
      BY <1>4 DEF Install
    <2>2. DOMAIN rt = RuntimeFields /\ rt.next = runtime.next + 1
      BY <1>2, LoggedIs
    <2>3. iac.id = runtime.next
      OBVIOUS
    <2> HIDE DEF rt, iac
    <2>4. DOMAIN runtime' = RuntimeFields /\ runtime'.next = runtime.next + 1
          /\ runtime'.iac = {iac}
      BY <2>1, <2>2 DEF RuntimeFields
    <2> QED BY <1>2, <1>3, <2>3, <2>4
  <1>5. CASE Allow(r) \/ Refuse(r)
    <2>1. PICK kind, cp, t : runtime' = Recorded(runtime, kind, cp, t)
      BY <1>5 DEF Allow, Refuse
    <2>2. /\ DOMAIN runtime' = RuntimeFields /\ runtime'.next = runtime.next + 1
          /\ runtime'.iac = runtime.iac
      BY <1>2, <2>1, RecordedIs
    <2>3. runtime'.next \in {runtime.next, runtime.next + 1}
      BY <2>2
    <2>4. \A iac \in runtime'.iac : iac \in runtime.iac
      BY <2>2
    <2> QED BY <1>3, <2>2, <2>3, <2>4
  <1>6. CASE Clear(r)
    <2> DEFINE rt == NewRuntime(runtime.next)
    <2>1. DOMAIN rt = RuntimeFields /\ rt.next = runtime.next /\ rt.iac = {}
      BY DEF NewRuntime, RuntimeFields
    <2>2. runtime' = Logged(rt, "reset", 0, second)
      BY <1>6 DEF Clear
    <2> HIDE DEF rt
    <2>3. DOMAIN runtime' = RuntimeFields /\ runtime'.next = runtime.next + 1 /\ runtime'.iac = {}
      BY <2>1, <2>2, LoggedIs
    <2> QED BY <1>3, <2>3
  <1> QED BY <1>4, <1>5, <1>6

LEMMA DropKeeps ==
  ASSUME SeverInv, NEW r \in Requests, Drop(r)
  PROVE  SeverInv'
  <1>1. DOMAIN runtime = RuntimeFields /\ runtime.next \in Nat /\ started \in Nat
    BY DEF SeverInv, RecordsOK
  <1> DEFINE rt == Logged(runtime, "severed", 0, local[r].now)
  <1>2. /\ Goto(r, "idle") /\ Hold(r, Nothing)
        /\ runtime' = [rt EXCEPT !.iac = {}]
        /\ severed' = severed \cup {[id |-> iac.id, before |-> started] : iac \in runtime.iac}
        /\ UNCHANGED started
    BY DEF Drop, Return
  <1>3. DOMAIN rt = RuntimeFields /\ rt.next = runtime.next + 1
    BY <1>1, LoggedIs
  <1> HIDE DEF rt
  <1>4. DOMAIN runtime' = RuntimeFields /\ runtime'.next = runtime.next + 1 /\ runtime'.iac = {}
    BY <1>2, <1>3 DEF RuntimeFields
  <1>5. \A s \in severed' \ severed : s.before = started /\ \E iac \in runtime.iac : s.id = iac.id
    BY <1>2
  <1>6. Goes(r, "idle", Nothing)
    BY <1>1, <1>2, <1>4, <1>5, NothingIs DEF Goes
  <1> QED BY <1>6, GoesKeeps

LEMMA OthersKeepSevered ==
  ASSUME SeverInv, NEW r \in Requests,
         CheckLive(r) \/ Publish(r) \/ AnchorBlock(r) \/ Mark(r)
  PROVE  SeverInv'
  <1>1. /\ DOMAIN runtime = RuntimeFields /\ runtime.next \in Nat
        /\ DOMAIN local = Requests /\ DOMAIN local[r] = LocalFields
    BY DEF SeverInv, RecordsOK
  <1>2. UNCHANGED <<runtime, started, severed>>
    BY DEF CheckLive, Publish, AnchorBlock, Mark
  <1>3. ASSUME NEW next, NEW values, Goto(r, next), Hold(r, values),
               DOMAIN values = LocalFields,
               \/ values.no = local[r].no /\ values.iac = local[r].iac
               \/ values.no = 0 /\ values.iac = {},
               next \notin {"check", "publish"}
        PROVE  SeverInv'
    <2>1. /\ DOMAIN runtime' = RuntimeFields
          /\ runtime'.next \in {runtime.next, runtime.next + 1}
      BY <1>1, <1>2
    <2>2. \A iac \in runtime'.iac : iac \in runtime.iac
      BY <1>2
    <2>3. UNCHANGED <<started, severed>>
      BY <1>2
    <2> QED BY <1>3, <2>1, <2>2, <2>3, MiddleKeeps
  <1>4. ASSUME local' = local, NEW next, Goto(r, next),
               next \in {"check", "publish"} => pc[r] = "check"
        PROVE  SeverInv'
    <2>3. RecordsOK /\ IdsAreFresh /\ SeveredIsGone /\ HoldsOne
      BY DEF SeverInv
    <2>4. DOMAIN pc' = Requests /\ \A q \in Requests : pc'[q] = IF q = r THEN next ELSE pc[q]
      BY <1>4, <2>3 DEF Goto, RecordsOK
    <2>5. RecordsOK'
      BY <1>2, <1>4, <2>3, <2>4 DEF RecordsOK
    <2>6. IdsAreFresh' /\ SeveredIsGone'
      BY <1>2, <1>4, <2>3 DEF IdsAreFresh, SeveredIsGone
    <2>7. HoldsOne'
      BY <1>4, <2>3, <2>4 DEF HoldsOne
    <2> QED BY <2>5, <2>6, <2>7 DEF SeverInv
  <1>5. ASSUME NEW why, NEW next, next \notin {"check", "publish"}, Goto(r, next),
               \/ Hold(r, [local[r] EXCEPT !.why = why])
               \/ Hold(r, [local[r] EXCEPT !.event = why])
               \/ Hold(r, [local[r] EXCEPT !.head = why])
        PROVE  SeverInv'
    <2>1. PICK values :
            /\ Hold(r, values)
            /\ DOMAIN values = LocalFields /\ values.no = local[r].no /\ values.iac = local[r].iac
      BY <1>1, <1>5 DEF LocalFields
    <2> QED BY <1>3, <1>5, <2>1
  <1>6. CASE CheckLive(r)
    <2>1. \/ \E why : Goto(r, "blocked") /\ Hold(r, [local[r] EXCEPT !.why = why])
          \/ Goto(r, "publish") /\ local' = local /\ pc[r] = "check"
      BY <1>6 DEF CheckLive
    <2> QED BY <1>4, <1>5, <2>1
  <1>7. CASE Publish(r)
    <2>1. \/ \E h : Goto(r, "allowed") /\ Hold(r, [local[r] EXCEPT !.event = h])
          \/ Goto(r, "idle") /\ Hold(r, Nothing)
      BY <1>7 DEF Publish, Return
    <2> QED BY <1>3, <1>5, <2>1, NothingIs
  <1>8. CASE AnchorBlock(r)
    <2>1. Goto(r, "refused") /\ Hold(r, [local[r] EXCEPT !.head = chain.head])
      BY <1>8 DEF AnchorBlock
    <2> QED BY <1>5, <2>1
  <1>9. CASE Mark(r)
    <2>1. Goto(r, "drop") /\ local' = local
      BY <1>9 DEF Mark
    <2> QED BY <1>4, <2>1
  <1> QED BY <1>6, <1>7, <1>8, <1>9

LEMMA SeverNext == SeverInv /\ [DemoNext]_demoVars => SeverInv'
  <1> SUFFICES ASSUME SeverInv, [DemoNext]_demoVars PROVE SeverInv'
    OBVIOUS
  <1>1. CASE UNCHANGED <<runtime, pc, local, started, severed>>
    BY <1>1 DEF SeverInv, RecordsOK, IdsAreFresh, SeveredIsGone, HoldsOne
  <1>2. Wait \/ UNCHANGED demoVars => UNCHANGED <<runtime, pc, local, started, severed>>
    BY DEF Wait, demoVars
  <1>3. ASSUME NEW r \in Requests, DemoStep(r) PROVE SeverInv'
    BY <1>3, BeginKeeps, InstallKeeps, DropKeeps, OthersKeepSevered DEF DemoStep
  <1> QED BY <1>1, <1>2, <1>3 DEF DemoNext

LEMMA SeverInit == DemoInit => SeverInv
  <1> SUFFICES ASSUME DemoInit PROVE SeverInv
    OBVIOUS
  <1>1. DOMAIN runtime = RuntimeFields /\ runtime.next = 1 /\ runtime.iac = {}
    BY DEF DemoInit, NewRuntime, RuntimeFields
  <1>2. started = 0 /\ severed = {}
    BY DEF DemoInit
  <1>3. /\ DOMAIN pc = Requests /\ DOMAIN local = Requests
        /\ \A r \in Requests : pc[r] = "idle" /\ local[r] = Nothing
    BY DEF DemoInit
  <1>4. RecordsOK
    BY <1>1, <1>2, <1>3, NothingIs DEF RecordsOK
  <1> QED BY <1>1, <1>2, <1>3, <1>4, NothingIs
          DEF SeverInv, IdsAreFresh, SeveredIsGone, HoldsOne

\* Nothing is published under a credential that a sever revoked but by a request
\* that came before the answer of that sever (demo.rs: sever_session,
\* run_tool_action), for any requests, lifetimes and interleavings.
THEOREM SeverRevokesForLaterRequests == DemoSpec => SeverBinds
  <1>1. SeverInv /\ [DemoNext]_demoVars =>
          [\A r \in Requests : pc[r] = "publish" /\ pc'[r] = "allowed" =>
             \A s \in severed : s.id = Iac(r).id => local[r].no <= s.before]_demoVars
    <2> SUFFICES ASSUME SeverInv, NEW r \in Requests, pc[r] = "publish"
                 PROVE  \A s \in severed : s.id = Iac(r).id => local[r].no <= s.before
      OBVIOUS
    <2>1. Iac(r) \in local[r].iac
      BY DEF SeverInv, HoldsOne, Iac
    <2> QED BY <2>1 DEF SeverInv, SeveredIsGone
  <1> QED BY <1>1, SeverNext, SeverInit, PTL DEF DemoSpec, SeverBinds

-----------------------------------------------------------------------------
(* The daily rollup: what a root says.                                     *)

\* A level of the tree at height h: nodes of that height, at least one.
IsLevel(level, h) ==
  /\ Len(level) \in Nat \ {0} /\ DOMAIN level = 1 .. Len(level)
  /\ \A i \in 1 .. Len(level) : level[i][1] = h

Children(level) == UNION {level[i][2] : i \in DOMAIN level}

LEMMA LenOf ==
  ASSUME NEW s, NEW m \in Nat, DOMAIN s = 1 .. m
  PROVE  Len(s) = m
  OBVIOUS

\* One round halves a level, and keeps every node in a pair.
LEMMA PairedIs ==
  ASSUME NEW h \in Nat, NEW level, IsLevel(level, h)
  PROVE  /\ IsLevel(Paired(level), h + 1)
         /\ Len(Paired(level)) = (Len(level) + 1) \div 2
         /\ Children(Paired(level)) = ToSet(level)
  <1> DEFINE n == Len(level)
             m == (n + 1) \div 2
             p == Paired(level)
             right(i) == IF 2 * i <= n THEN 2 * i ELSE 2 * i - 1
  <1>1. n \in Nat /\ n # 0 /\ DOMAIN level = 1 .. n /\ \A i \in 1 .. n : level[i][1] = h
    BY DEF IsLevel
  <1>2. m \in Nat /\ m # 0 /\ 2 * m >= n /\ 2 * m - 1 <= n
    BY <1>1
  <1>3. DOMAIN p = 1 .. m
    BY DEF Paired
  <1>4. Len(p) = m
    BY <1>2, <1>3, LenOf
  <1>5. \A i \in 1 .. m : 2 * i - 1 \in 1 .. n /\ right(i) \in 1 .. n
    BY <1>1, <1>2
  <1>6. \A i \in 1 .. m : p[i] = <<level[2 * i - 1][1] + 1, {level[2 * i - 1], level[right(i)]}>>
    BY Zenon DEF Paired, Parent
  <1>7. \A i \in 1 .. m : p[i][1] = h + 1
    BY <1>1, <1>5, <1>6
  <1>8. \A i \in 1 .. m : p[i][2] = {level[2 * i - 1], level[right(i)]}
    <2> SUFFICES ASSUME NEW i \in 1 .. m PROVE p[i][2] = {level[2 * i - 1], level[right(i)]}
      OBVIOUS
    <2> DEFINE a == level[2 * i - 1][1] + 1
               b == {level[2 * i - 1], level[right(i)]}
    <2>1. p[i] = <<a, b>>
      BY <1>6
    <2> HIDE DEF a, b, p
    <2>2. p[i][2] = b
      BY <2>1
    <2> QED BY <2>2 DEF b
  <1>9. ASSUME NEW i \in 1 .. n PROVE \E j \in 1 .. m : i = 2 * j - 1 \/ i = right(j)
    <2> DEFINE j == (i + 1) \div 2
    <2>1. j \in 1 .. m
      BY <1>1
    <2>2. i = 2 * j - 1 \/ i = 2 * j
      OBVIOUS
    <2> HIDE DEF j
    <2>3. i = 2 * j => right(j) = i
      BY <1>1
    <2> QED BY <2>1, <2>2, <2>3
  <1> HIDE DEF m, p, right, n
  <1>10. Children(p) = ToSet(level)
    <2>1. Children(p) \subseteq ToSet(level)
      BY <1>1, <1>3, <1>5, <1>8 DEF Children, ToSet
    <2>2. ASSUME NEW i \in 1 .. n PROVE level[i] \in Children(p)
      <3>1. PICK j \in 1 .. m : i = 2 * j - 1 \/ i = right(j)
        BY <1>9
      <3>2. level[i] \in p[j][2]
        BY <1>8, <3>1
      <3> QED BY <1>3, <3>2 DEF Children
    <2> QED BY <1>1, <2>1, <2>2 DEF ToSet
  <1>11. IsLevel(p, h + 1)
    BY <1>2, <1>3, <1>4, <1>7 DEF IsLevel
  <1> QED BY <1>4, <1>10, <1>11 DEF p, m, n

\* The levels of the tree over some leaves.
Levels(level, leaves) ==
  level = [h \in Nat |-> IF h = 0 THEN leaves ELSE Paired(level[h - 1])]

LEMMA LevelsExist ==
  ASSUME NEW leaves
  PROVE  \E level : Levels(level, leaves)
  <1> DEFINE Up(g, n) == DOMAIN g = 0 .. n /\ g[0] = leaves
                         /\ \A k \in 1 .. n : g[k] = Paired(g[k - 1])
             S == {n \in Nat : \E g : Up(g, n)}
             T == {n \in Nat : \A g, h : Up(g, n) /\ Up(h, n) => g[n] = h[n]}
  <1>1. 0 \in S
    <2> DEFINE g == [k \in 0 .. 0 |-> leaves]
    <2>1. Up(g, 0)
      OBVIOUS
    <2> QED BY <2>1
  <1>2. ASSUME NEW n \in Nat, n \in S PROVE n + 1 \in S
    <2>1. PICK g : Up(g, n)
      BY <1>2
    <2> DEFINE f == [k \in 0 .. n + 1 |-> IF k = n + 1 THEN Paired(g[n]) ELSE g[k]]
    <2>2. DOMAIN f = 0 .. n + 1 /\ f[0] = leaves
      BY <2>1
    <2>3. ASSUME NEW k \in 1 .. n + 1 PROVE f[k] = Paired(f[k - 1])
      <3>1. CASE k = n + 1
        <4>1. f[k] = Paired(g[n]) /\ f[k - 1] = g[n]
          BY <3>1
        <4> QED BY <4>1
      <3>2. CASE k # n + 1
        <4>1. f[k] = g[k] /\ f[k - 1] = g[k - 1] /\ k \in 1 .. n
          BY <3>2
        <4> QED BY <2>1, <4>1
      <3> QED BY <3>1, <3>2
    <2> HIDE DEF f
    <2>4. Up(f, n + 1)
      BY <2>2, <2>3
    <2> QED BY <2>4
  <1>3. \A n \in Nat : n \in S
    <2> HIDE DEF S
    <2> QED BY <1>1, <1>2, NatSetInduction
  <1>4. 0 \in T
    OBVIOUS
  <1>5. ASSUME NEW n \in Nat, n \in T PROVE n + 1 \in T
    <2> SUFFICES ASSUME NEW g, NEW h, Up(g, n + 1), Up(h, n + 1) PROVE g[n + 1] = h[n + 1]
      OBVIOUS
    <2> DEFINE a == [k \in 0 .. n |-> g[k]]
               b == [k \in 0 .. n |-> h[k]]
    <2>1. Up(a, n) /\ Up(b, n)
      OBVIOUS
    <2>2. a[n] = b[n]
      <3> HIDE DEF a, b, Up
      <3> QED BY <1>5, <2>1
    <2>3. g[n] = h[n]
      BY <2>2
    <2>4. g[n + 1] = Paired(g[n]) /\ h[n + 1] = Paired(h[n])
      OBVIOUS
    <2> QED BY <2>3, <2>4
  <1>6. \A n \in Nat : n \in T
    <2> HIDE DEF T
    <2> QED BY <1>4, <1>5, NatSetInduction
  <1> DEFINE G(n) == CHOOSE g : Up(g, n)
             level == [n \in Nat |-> G(n)[n]]
  <1>7. \A n \in Nat : Up(G(n), n)
    <2>1. \A n \in Nat : \E g : Up(g, n)
      BY <1>3
    <2> HIDE DEF Up
    <2> QED BY <2>1
  <1>8. level[0] = leaves
    BY <1>7
  <1>9. ASSUME NEW n \in Nat, n # 0 PROVE level[n] = Paired(level[n - 1])
    <2>1. G(n)[n] = Paired(G(n)[n - 1])
      BY <1>7, <1>9
    <2> DEFINE a == [k \in 0 .. n - 1 |-> G(n)[k]]
    <2>2. Up(G(n), n) /\ n - 1 \in Nat
      BY <1>7, <1>9
    <2> HIDE DEF G
    <2>3. Up(a, n - 1)
      BY <2>2
    <2>4. Up(G(n - 1), n - 1)
      BY <1>7, <2>2
    <2>5. a[n - 1] = G(n - 1)[n - 1]
      <3> HIDE DEF a, Up
      <3> QED BY <1>6, <2>2, <2>3, <2>4
    <2>6. G(n)[n - 1] = G(n - 1)[n - 1]
      BY <2>2, <2>5
    <2> QED BY <2>1, <2>2, <2>6
  <1>10. Levels(level, leaves)
    <2> HIDE DEF G
    <2>1. \A n \in Nat : level[n] = IF n = 0 THEN leaves ELSE Paired(level[n - 1])
      BY <1>8, <1>9
    <2>2. level = [n \in Nat |-> level[n]]
      OBVIOUS
    <2> HIDE DEF level
    <2> QED BY <2>1, <2>2 DEF Levels
  <1> QED BY <1>10

\* Every level is one of its height, and has the leaves of the one below.
LEMMA LevelsAre ==
  ASSUME NEW leaves, IsLevel(leaves, 0), NEW level, Levels(level, leaves)
  PROVE  \A h \in Nat : /\ IsLevel(level[h], h)
                        /\ Len(level[h + 1]) = (Len(level[h]) + 1) \div 2
                        /\ Children(level[h + 1]) = ToSet(level[h])
  <1>1. level[0] = leaves /\ \A h \in Nat : level[h + 1] = Paired(level[h])
    <2>1. \A h \in Nat : level[h] = IF h = 0 THEN leaves ELSE Paired(level[h - 1])
      BY DEF Levels
    <2>2. \A h \in Nat : h + 1 \in Nat /\ h + 1 # 0 /\ (h + 1) - 1 = h
      OBVIOUS
    <2> QED BY <2>1, <2>2
  <1> DEFINE S == {h \in Nat : IsLevel(level[h], h)}
  <1>2. 0 \in S
    BY <1>1
  <1>3. \A h \in Nat : h \in S => h + 1 \in S
    BY <1>1, PairedIs
  <1>4. \A h \in Nat : h \in S
    <2> HIDE DEF S
    <2> QED BY <1>2, <1>3, NatSetInduction
  <1> QED BY <1>1, <1>4, PairedIs

\* There is a height at which one node is left, and not before.
Height(level, h) == Len(level[h]) = 1 /\ \A k \in 0 .. h - 1 : Len(level[k]) > 1

LEMMA HeightExists ==
  ASSUME NEW leaves, IsLevel(leaves, 0), NEW level, Levels(level, leaves)
  PROVE  \E h \in 0 .. Len(leaves) : Height(level, h)
  <1> DEFINE n == Len(leaves)
  <1>1. level[0] = leaves /\ n \in Nat /\ n # 0
    BY DEF Levels, IsLevel
  <1>2. \A h \in Nat : Len(level[h]) \in Nat \ {0} /\ Len(level[h + 1]) = (Len(level[h]) + 1) \div 2
    BY LevelsAre DEF IsLevel
  <1>0. \A h \in Nat : Len(level[h]) \in Nat \ {0}
    BY <1>2
  <1> DEFINE S == {h \in Nat : Len(level[h]) = 1 \/ Len(level[h]) <= n - h}
  <1>3. 0 \in S
    BY <1>1
  <1>4. ASSUME NEW h \in Nat, h \in S PROVE h + 1 \in S
    <2> DEFINE x == Len(level[h])
               y == Len(level[h + 1])
    <2>1. x \in Nat /\ x # 0 /\ y = (x + 1) \div 2 /\ (x = 1 \/ x <= n - h)
      BY <1>2, <1>4
    <2> HIDE DEF x, y
    <2>2. y = 1 \/ y <= n - (h + 1)
      BY <1>1, <2>1
    <2> QED BY <2>2 DEF y
  <1>5. n \in S
    <2> HIDE DEF S, n
    <2> QED BY <1>1, <1>3, <1>4, NatSetInduction
  <1>6. Len(level[n]) = 1
    <2>2. Len(level[n]) = 1 \/ Len(level[n]) <= n - n
      BY <1>5
    <2> HIDE DEF n
    <2>1. Len(level[n]) \in Nat \ {0} /\ n - n = 0
      BY <1>1, <1>0
    <2> QED BY <2>1, <2>2
  <1> DEFINE T == {h \in Nat : Len(level[h]) = 1}
  <1>7. \E h \in T : \A k \in T : h <= k
    <2>1. n \in T
      BY <1>1, <1>6
    <2>2. T \subseteq Nat
      OBVIOUS
    <2> HIDE DEF T
    <2> QED BY <2>1, <2>2, LeastNumber
  <1>8. PICK h \in T : \A k \in T : h <= k
    BY <1>7
  <1>9. h <= n
    BY <1>1, <1>6, <1>8
  <1>10. ASSUME NEW k \in 0 .. h - 1 PROVE Len(level[k]) > 1
    <2>1. k \in Nat /\ k \notin T
      BY <1>8
    <2>2. Len(level[k]) \in Nat \ {0} /\ Len(level[k]) # 1
      BY <1>0, <2>1
    <2>3. \A x \in Nat \ {0} : x # 1 => x > 1
      OBVIOUS
    <2> HIDE DEF T
    <2> QED BY <2>2, <2>3
  <1>11. Height(level, h) /\ h \in 0 .. n
    BY <1>8, <1>9, <1>10 DEF Height
  <1> QED BY <1>11

\* The root is the one node of the last level.
LEMMA RootIs ==
  ASSUME NEW leaves, IsLevel(leaves, 0)
  PROVE  \E level, h : /\ Levels(level, leaves) /\ h \in Nat
                       /\ Height(level, h) /\ ComputeRoot(leaves) = level[h][1]
  <1> DEFINE level == CHOOSE f : Levels(f, leaves)
             h == CHOOSE k \in 0 .. Len(leaves) : Height(level, k)
  <1>1. Levels(level, leaves)
    BY LevelsExist
  <1>2. ComputeRoot(leaves) = level[h][1]
    BY Zenon DEF ComputeRoot, Levels, Height
  <1> HIDE DEF level
  <1>3. h \in 0 .. Len(leaves) /\ Height(level, h)
    BY <1>1, HeightExists
  <1> HIDE DEF h
  <1>4. h \in Nat
    BY <1>3
  <1> QED BY <1>1, <1>2, <1>3, <1>4

\* Trees with one root have one set of leaves: the root names its height, and a
\* node names its children.
LEMMA RootsNameLeaves ==
  ASSUME NEW a, IsLevel(a, 0), NEW b, IsLevel(b, 0), ComputeRoot(a) = ComputeRoot(b)
  PROVE  ToSet(a) = ToSet(b)
  <1>1. PICK f, h : Levels(f, a) /\ h \in Nat /\ Height(f, h) /\ ComputeRoot(a) = f[h][1]
    BY RootIs
  <1>2. PICK g, k : Levels(g, b) /\ k \in Nat /\ Height(g, k) /\ ComputeRoot(b) = g[k][1]
    BY RootIs
  <1>3. \A i \in Nat : IsLevel(f[i], i) /\ Children(f[i + 1]) = ToSet(f[i])
    BY <1>1, LevelsAre
  <1>4. \A i \in Nat : IsLevel(g[i], i) /\ Children(g[i + 1]) = ToSet(g[i])
    BY <1>2, LevelsAre
  <1>5. Len(f[h]) = 1 /\ Len(g[k]) = 1 /\ IsLevel(f[h], h) /\ IsLevel(g[k], k)
    BY <1>1, <1>2, <1>3, <1>4 DEF Height
  <1>6. DOMAIN f[h] = {1} /\ DOMAIN g[k] = {1} /\ f[h][1][1] = h /\ g[k][1][1] = k
    <2>1. 1 .. 1 = {1} /\ 1 \in 1 .. 1
      OBVIOUS
    <2> QED BY <1>5, <2>1 DEF IsLevel
  <1>7. f[h][1] = g[k][1] /\ h = k
    BY <1>1, <1>2, <1>6
  <1>8. ToSet(f[h]) = ToSet(g[h])
    BY <1>6, <1>7 DEF ToSet
  <1> DEFINE S == {j \in Nat : j <= h => ToSet(f[h - j]) = ToSet(g[h - j])}
  <1>9. 0 \in S
    BY <1>1, <1>8
  <1>10. ASSUME NEW j \in Nat, j \in S PROVE j + 1 \in S
    <2> SUFFICES ASSUME j + 1 <= h PROVE ToSet(f[h - (j + 1)]) = ToSet(g[h - (j + 1)])
      OBVIOUS
    <2> DEFINE i == h - (j + 1)
    <2>1. i \in Nat /\ i + 1 = h - j /\ j <= h
      BY <1>1
    <2>2. ToSet(f[i + 1]) = ToSet(g[i + 1])
      BY <1>10, <2>1
    <2> HIDE DEF i
    <2>4. ASSUME NEW p, NEW q, ToSet(p) = ToSet(q) PROVE Children(p) = Children(q)
      <3>1. \A s : Children(s) = UNION {x[2] : x \in ToSet(s)}
        BY DEF Children, ToSet
      <3> QED BY <2>4, <3>1
    <2>5. Children(f[i + 1]) = Children(g[i + 1])
      BY <2>2, <2>4
    <2>6. ToSet(f[i]) = ToSet(g[i])
      BY <1>3, <1>4, <2>1, <2>5
    <2> QED BY <2>6 DEF i
  <1>11. h \in S
    <2> HIDE DEF S
    <2> QED BY <1>1, <1>9, <1>10, NatSetInduction
  <1>12. h - h = 0 /\ h <= h
    BY <1>1
  <1>13. ToSet(f[0]) = ToSet(g[0])
    BY <1>11, <1>12
  <1>14. f[0] = a /\ g[0] = b
    BY <1>1, <1>2 DEF Levels
  <1> QED BY <1>13, <1>14

\* A finite set of numbers can be put in order.
LEMMA OrderExists ==
  ASSUME NEW m \in Nat, NEW T \in SUBSET (1 .. m)
  PROVE  \E q \in SetToSeqs(T) : \A i \in 1 .. Len(q) - 1 : q[i] < q[i + 1]
  <1> DEFINE Orders0(U, q) ==
               LET c == Cardinality(U)
               IN  /\ q \in [1 .. c -> U]
                   /\ \A i, j \in 1 .. c : i < j => q[i] < q[j]
             S == {k \in Nat : \A U \in SUBSET (1 .. k) : \E q : Orders0(U, q)}
  <1>1. 0 \in S
    <2> SUFFICES ASSUME NEW U \in SUBSET (1 .. 0) PROVE \E q : Orders0(U, q)
      OBVIOUS
    <2>1. 1 .. 0 = {}
      OBVIOUS
    <2>2. U = {}
      BY <2>1
    <2>3. Cardinality(U) = 0
      BY <2>2, FS_EmptySet
    <2>4. Orders0(U, [i \in 1 .. 0 |-> 0])
      BY <2>1, <2>3
    <2> QED BY <2>4
  <1>2. ASSUME NEW k \in Nat, k \in S PROVE k + 1 \in S
    <2> SUFFICES ASSUME NEW U \in SUBSET (1 .. k + 1) PROVE \E q : Orders0(U, q)
      OBVIOUS
    <2>1. CASE k + 1 \notin U
      <3>1. U \in SUBSET (1 .. k)
        BY <2>1
      <3> QED BY <1>2, <3>1
    <2>2. CASE k + 1 \in U
      <3> DEFINE W == U \ {k + 1}
                 c == Cardinality(W)
      <3>1. W \in SUBSET (1 .. k)
        OBVIOUS
      <3>2. PICK q : Orders0(W, q)
        BY <1>2, <3>1
      <3>3. IsFiniteSet(U) /\ IsFiniteSet(W)
        <4>1. IsFiniteSet(1 .. k + 1) /\ W \in SUBSET (1 .. k + 1)
          BY FS_Interval
        <4> HIDE DEF W
        <4> QED BY <4>1, FS_Subset
      <3>4. c \in Nat /\ Cardinality(U) \in Nat /\ Cardinality(U) = c + 1
        <4>1. c = Cardinality(U) - 1
          BY <2>2, <3>3, FS_RemoveElement
        <4> QED BY <3>3, <4>1, FS_CardinalityType
      <3>5. /\ q \in [1 .. c -> W]
            /\ \A i, j \in 1 .. c : i < j => q[i] < q[j]
        BY <3>2
      <3> DEFINE p == [i \in 1 .. c + 1 |-> IF i = c + 1 THEN k + 1 ELSE q[i]]
      <3> HIDE DEF c
      <3>6. \A i \in 1 .. c : q[i] \in U /\ q[i] \in 1 .. k
        BY <3>1, <3>5
      <3>7. p \in [1 .. c + 1 -> U]
        BY <2>2, <3>4, <3>6
      <3>8. \A i, j \in 1 .. c + 1 : i < j => p[i] < p[j]
        BY <3>4, <3>5, <3>6
      <3> HIDE DEF p
      <3>9. Orders0(U, p)
        BY <3>4, <3>7, <3>8
      <3> QED BY <3>9
    <2> QED BY <2>1, <2>2
  <1>3. m \in S
    <2> HIDE DEF S
    <2> QED BY <1>1, <1>2, NatSetInduction
  <1>4. PICK q : Orders0(T, q)
    BY <1>3
  <1> DEFINE c == Cardinality(T)
  <1>5. c \in Nat
    <2>1. IsFiniteSet(1 .. m)
      BY FS_Interval
    <2> QED BY <2>1, FS_Subset, FS_CardinalityType
  <1>6. q \in [1 .. c -> T] /\ \A i, j \in 1 .. c : i < j => q[i] < q[j]
    BY <1>4
  <1> HIDE DEF c
  <1>7. Len(q) = c
    BY <1>5, <1>6, LenOf
  <1>8. \A i, j \in 1 .. c : i # j => q[i] # q[j]
    <2> SUFFICES ASSUME NEW i \in 1 .. c, NEW j \in 1 .. c, i # j PROVE q[i] # q[j]
      OBVIOUS
    <2>1. q[i] \in Int /\ q[j] \in Int
      <3>1. q[i] \in T /\ q[j] \in T
        BY <1>6
      <3>2. \A x \in T : x \in Int
        OBVIOUS
      <3> QED BY <3>1, <3>2
    <2>2. i < j \/ j < i
      BY <1>5
    <2> QED BY <1>6, <2>1, <2>2
  <1>9. q \in SetToSeqs(T)
    BY <1>6, <1>8 DEF SetToSeqs, c
  <1>10. \A i \in 1 .. Len(q) - 1 : q[i] < q[i + 1]
    BY <1>5, <1>6, <1>7
  <1> QED BY <1>9, <1>10

\* An enumeration of a finite set has its elements.
LEMMA EnumerationIs ==
  ASSUME NEW s, IsFiniteSet(s), NEW q \in SetToSeqs(s)
  PROVE  ToSet(q) = s /\ DOMAIN q = 1 .. Cardinality(s) /\ Cardinality(s) \in Nat
  <1> DEFINE c == Cardinality(s)
  <1>1. q \in [1 .. c -> s] /\ \A i, j \in 1 .. c : i # j => q[i] # q[j]
    BY DEF SetToSeqs
  <1>2. q \in Injection(1 .. c, s)
    BY <1>1 DEF Injection, IsInjective
  <1>3. c \in Nat
    BY FS_CardinalityType
  <1>4. IsFiniteSet(1 .. c) /\ Cardinality(1 .. c) = c
    BY <1>3, FS_Interval
  <1>5. q \in Surjection(1 .. c, s)
    <2> HIDE DEF c
    <2> QED BY <1>2, <1>4, FS_Injection DEF c
  <1> QED BY <1>1, <1>3, <1>5 DEF Surjection, ToSet

\* What is sorted has the elements of the answer.
LEMMA SortedIs ==
  ASSUME NEW m \in Nat, NEW e, ToSet(e) \in SUBSET (1 .. m)
  PROVE  ToSet(Sorted(e)) = ToSet(e) /\ DOMAIN Sorted(e) = 1 .. Cardinality(ToSet(e))
         /\ Cardinality(ToSet(e)) \in Nat
  <1>1. IsFiniteSet(ToSet(e))
    <2>1. IsFiniteSet(1 .. m)
      BY FS_Interval
    <2> QED BY <2>1, FS_Subset
  <1>2. \E q \in SetToSeqs(ToSet(e)) : \A i \in 1 .. Len(q) - 1 : q[i] < q[i + 1]
    BY OrderExists
  <1>3. Sorted(e) \in SetToSeqs(ToSet(e))
    BY <1>2 DEF Sorted
  <1> QED BY <1>1, <1>3, EnumerationIs

\* Among answers without repetition the root tells the events, and nothing else.
LEMMA RootsTellEvents ==
  ASSUME NEW m \in Nat, NEW domain,
         NEW s, ToSet(s) \in SUBSET (1 .. m), s = <<>> <=> ToSet(s) = {},
         NEW t, ToSet(t) \in SUBSET (1 .. m), t = <<>> <=> ToSet(t) = {}
  PROVE  RootOf(domain, s) = RootOf(domain, t) <=> ToSet(s) = ToSet(t)
  <1> DEFINE leaves(e) == [i \in DOMAIN Sorted(e) |-> Leaf(domain, Sorted(e)[i])]
  <1>1. \A e : RootOf(domain, e) = IF e = <<>> THEN {} ELSE {ComputeRoot(leaves(e))}
    BY Zenon DEF RootOf
  <1>2. ASSUME ToSet(s) = ToSet(t) PROVE RootOf(domain, s) = RootOf(domain, t)
    <2>1. Sorted(s) = Sorted(t)
      BY <1>2, Zenon DEF Sorted
    <2>2. leaves(s) = leaves(t)
      BY <2>1, Zenon
    <2> HIDE DEF leaves
    <2> QED BY <1>1, <1>2, <2>2
  <1>3. ASSUME NEW e, ToSet(e) \in SUBSET (1 .. m), ToSet(e) # {}
        PROVE  IsLevel(leaves(e), 0)
               /\ ToSet(leaves(e)) = {Leaf(domain, n) : n \in ToSet(e)}
    <2> DEFINE c == Cardinality(ToSet(e))
               q == Sorted(e)
               l == leaves(e)
    <2>1. ToSet(q) = ToSet(e) /\ DOMAIN q = 1 .. c /\ c \in Nat
      BY <1>3, SortedIs
    <2>2. c # 0
      <3>1. c = 0 => 1 .. c = {}
        OBVIOUS
      <3>2. DOMAIN q # {}
        BY <1>3, <2>1 DEF ToSet
      <3> QED BY <2>1, <3>1, <3>2
    <2>3. DOMAIN l = 1 .. c
      BY <2>1
    <2>4. Len(l) = c
      <3> HIDE DEF l, c
      <3> QED BY <2>1, <2>3, LenOf
    <2>5. \A i \in 1 .. c : l[i] = Leaf(domain, q[i])
      BY <2>1
    <2>6. \A n : Leaf(domain, n)[1] = 0
      BY DEF Leaf
    <2> HIDE DEF l, c, q
    <2>7. IsLevel(l, 0)
      BY <2>1, <2>2, <2>3, <2>4, <2>5, <2>6 DEF IsLevel
    <2>8. ToSet(l) = {Leaf(domain, n) : n \in ToSet(q)}
      BY <2>1, <2>3, <2>5 DEF ToSet
    <2> QED BY <2>1, <2>7, <2>8 DEF l
  <1>4. ASSUME RootOf(domain, s) = RootOf(domain, t) PROVE ToSet(s) = ToSet(t)
    <2>1. CASE s = <<>> \/ t = <<>>
      <3> HIDE DEF leaves
      <3> QED BY <1>1, <1>4, <2>1
    <2>2. CASE s # <<>> /\ t # <<>>
      <3>1. ComputeRoot(leaves(s)) = ComputeRoot(leaves(t))
        <4> HIDE DEF leaves
        <4> QED BY <1>1, <1>4, <2>2
      <3>2. /\ IsLevel(leaves(s), 0) /\ IsLevel(leaves(t), 0)
            /\ ToSet(leaves(s)) = {Leaf(domain, n) : n \in ToSet(s)}
            /\ ToSet(leaves(t)) = {Leaf(domain, n) : n \in ToSet(t)}
        <4> HIDE DEF leaves
        <4> QED BY <1>3, <2>2
      <3>3. ToSet(leaves(s)) = ToSet(leaves(t))
        <4> HIDE DEF leaves
        <4> QED BY <3>1, <3>2, RootsNameLeaves
      <3> HIDE DEF leaves
      <3>4. {Leaf(domain, n) : n \in ToSet(s)} = {Leaf(domain, n) : n \in ToSet(t)}
        BY <3>2, <3>3
      <3>5. \A x, y : Leaf(domain, x) = Leaf(domain, y) => x = y
        <4> SUFFICES ASSUME NEW x, NEW y, Leaf(domain, x) = Leaf(domain, y) PROVE x = y
          OBVIOUS
        <4>1. Leaf(domain, x)[2] = {<<domain, x>>} /\ Leaf(domain, y)[2] = {<<domain, y>>}
          BY DEF Leaf
        <4>2. <<domain, x>> = <<domain, y>>
          BY <4>1
        <4> QED BY <4>2
      <3>6. ASSUME NEW A, NEW B, {Leaf(domain, n) : n \in A} = {Leaf(domain, n) : n \in B}
            PROVE  A \subseteq B
        <4> SUFFICES ASSUME NEW x \in A PROVE x \in B
          OBVIOUS
        <4>1. Leaf(domain, x) \in {Leaf(domain, n) : n \in B}
          BY <3>6
        <4>2. PICK y \in B : Leaf(domain, x) = Leaf(domain, y)
          BY <4>1
        <4> QED BY <3>5, <4>2
      <3>7. ToSet(s) \subseteq ToSet(t)
        BY <3>4, <3>6
      <3>8. ToSet(t) \subseteq ToSet(s)
        BY <3>4, <3>6
      <3> QED BY <3>7, <3>8
    <2> QED BY <2>1, <2>2
  <1> QED BY <1>2, <1>4

\* Two answers of the relay, of any length, have the same root exactly when they
\* have the same events: neither the order in which the events came nor the pairing
\* of an odd leaf shows in the root (merkle.rs: from_prefixed_leaves, compute_root).
THEOREM RootsTellAnyEvents ==
  \A domain : \A m \in Nat : \A s, t \in Orders(m) :
     RootOf(domain, s) = RootOf(domain, t) <=> ToSet(s) = ToSet(t)
  <1> SUFFICES ASSUME NEW m \in Nat, NEW domain, NEW s \in Orders(m), NEW t \in Orders(m)
               PROVE  RootOf(domain, s) = RootOf(domain, t) <=> ToSet(s) = ToSet(t)
    OBVIOUS
  <1>1. ASSUME NEW e \in Orders(m)
        PROVE  ToSet(e) \in SUBSET (1 .. m) /\ (e = <<>> <=> ToSet(e) = {})
    <2>1. PICK S \in SUBSET (1 .. m) : e \in SetToSeqs(S)
      BY DEF Orders
    <2>2. IsFiniteSet(S)
      <3>1. 1 \in Int /\ m \in Int
        OBVIOUS
      <3>2. IsFiniteSet(1 .. m)
        BY <3>1, FS_Interval, Zenon
      <3> QED BY <3>2, FS_Subset
    <2>3. ToSet(e) = S /\ DOMAIN e = 1 .. Cardinality(S) /\ Cardinality(S) \in Nat
      BY <2>1, <2>2, EnumerationIs
    <2>4. e \in [1 .. Cardinality(S) -> S]
      BY <2>1 DEF SetToSeqs
    <2>5. ToSet(e) = {} => e = <<>>
      <3>1. ASSUME ToSet(e) = {} PROVE Cardinality(S) = 0
        BY <2>3, <3>1, FS_EmptySet
      <3>2. 1 .. 0 = {}
        OBVIOUS
      <3>3. ASSUME ToSet(e) = {} PROVE e \in [{} -> S]
        BY <2>4, <3>1, <3>2, <3>3
      <3>4. e \in [{} -> S] => e = <<>>
        OBVIOUS
      <3> QED BY <3>3, <3>4
    <2>6. ToSet(<<>>) = {}
      BY DEF ToSet
    <2> QED BY <2>3, <2>5, <2>6
  <1> QED BY <1>1, RootsTellEvents

LEMMA RootsIdentify == RootsIdentifyEvents
  <1>1. 4 \in Nat
    OBVIOUS
  <1> QED BY <1>1, RootsTellAnyEvents DEF RootsIdentifyEvents

-----------------------------------------------------------------------------
(* The daily rollup: what a bundle covers.                                 *)

\* The greatest of finitely many numbers.
LEMMA GreatestOf ==
  ASSUME NEW n \in Nat, NEW s \in SUBSET (1 .. n), s # {}
  PROVE  Max(s) \in s /\ \A y \in s : y <= Max(s)
  <1> DEFINE T == {n - x : x \in s}
  <1>1. T \subseteq Nat /\ T # {}
    <2>1. \A x \in s : n - x \in Nat
      OBVIOUS
    <2> QED BY <2>1
  <1>2. \E m \in T : \A y \in T : m <= y
    <2> HIDE DEF T
    <2> QED BY <1>1, LeastNumber
  <1>3. \E x \in s : \A y \in s : x >= y
    BY <1>2
  <1> QED BY <1>3 DEF Max

LEMMA GreatestOfFirst ==
  ASSUME NEW k \in Nat, k # 0
  PROVE  Max(1 .. k) = k /\ (1 .. k) \ {k} = 1 .. k - 1
  <1>1. 1 .. k # {}
    OBVIOUS
  <1>2. Max(1 .. k) \in 1 .. k /\ \A y \in 1 .. k : y <= Max(1 .. k)
    BY <1>1, GreatestOf
  <1>3. k \in 1 .. k
    OBVIOUS
  <1>4. Max(1 .. k) = k
    BY <1>2, <1>3
  <1> QED BY <1>4

\* Among takes the events one by one.
LEMMA AmongIs ==
  ASSUME NEW S, NEW A, NEW e \in Seq(A)
  PROVE  \E f : /\ f[0] = <<>>
                /\ \A k \in 1 .. Len(e) :
                      f[k] = IF e[k] \in S THEN Append(f[k - 1], e[k]) ELSE f[k - 1]
                /\ Among(e, S) = f[Len(e)]
  <1> DEFINE n == Len(e)
             D == DOMAIN e
             it == CHOOSE g : g = [s \in SUBSET D |->
                      IF s = {} THEN <<>>
                      ELSE IF e[Max(s)] \in S THEN Append(g[s \ {Max(s)}], e[Max(s)])
                           ELSE g[s \ {Max(s)}]]
  <1>1. Among(e, S) = it[D]
    BY Zenon DEF Among, FoldLeft, MapThenFoldSet
  <1>2. n \in Nat /\ D = 1 .. n
    OBVIOUS
  <1> DEFINE V == Seq(A)
             pick == [s \in SUBSET D |-> Max(s)]
             take == [x \in D \X V |-> IF e[x[1]] \in S THEN Append(x[2], e[x[1]]) ELSE x[2]]
  <1>3. \E g : g = [s \in SUBSET D |->
                      IF s = {} THEN <<>>
                      ELSE IF e[Max(s)] \in S THEN Append(g[s \ {Max(s)}], e[Max(s)])
                           ELSE g[s \ {Max(s)}]]
    <2>1. Picks(pick, D)
      BY <1>2, GreatestOf DEF Picks
    <2>2. \A x \in D, v \in V : take[<<x, v>>] = IF e[x] \in S THEN Append(v, e[x]) ELSE v
      OBVIOUS
    <2>3. \A x \in D, v \in V : take[<<x, v>>] \in V
      <3>1. \A x \in D, v \in V : Append(v, e[x]) \in V
        BY <1>2
      <3> HIDE DEF V, D, take
      <3> QED BY <2>2, <3>1
    <2>4. IsFiniteSet(D) /\ <<>> \in V
      BY <1>2, FS_Interval
    <2>5. PICK h \in [SUBSET D -> V] : Recurs(h, D, <<>>, pick, take)
      <3> HIDE DEF D, V, pick, take
      <3> QED BY <2>1, <2>3, <2>4, RecursionExists
    <2>6. ASSUME NEW s \in SUBSET D
          PROVE  h[s] = IF s = {} THEN <<>>
                        ELSE IF e[Max(s)] \in S THEN Append(h[s \ {Max(s)}], e[Max(s)])
                             ELSE h[s \ {Max(s)}]
      <3>1. CASE s = {}
        BY <2>5, <3>1 DEF Recurs
      <3>2. CASE s # {}
        <4>1. pick[s] = Max(s) /\ Max(s) \in D
          BY <2>1, <3>2 DEF Picks
        <4>2. h[s \ {Max(s)}] \in V
          BY <2>5
        <4>3. h[s] = take[<<Max(s), h[s \ {Max(s)}]>>]
          <5> HIDE DEF take, D
          <5> QED BY <2>5, <3>2, <4>1 DEF Recurs
        <4> HIDE DEF take
        <4> QED BY <2>2, <3>2, <4>1, <4>2, <4>3
      <3> QED BY <3>1, <3>2
    <2>7. h = [s \in SUBSET D |->
                      IF s = {} THEN <<>>
                      ELSE IF e[Max(s)] \in S THEN Append(h[s \ {Max(s)}], e[Max(s)])
                           ELSE h[s \ {Max(s)}]]
      BY <2>5, <2>6
    <2> QED BY <2>7
  <1>4. it = [s \in SUBSET D |->
                      IF s = {} THEN <<>>
                      ELSE IF e[Max(s)] \in S THEN Append(it[s \ {Max(s)}], e[Max(s)])
                           ELSE it[s \ {Max(s)}]]
    <2> HIDE DEF D
    <2> QED BY <1>3, Zenon
  <1> DEFINE f == [k \in 0 .. n |-> it[1 .. k]]
  <1> HIDE DEF it, V, pick, take
  <1>5. f[0] = <<>>
    <2>1. 1 .. 0 = {}
      OBVIOUS
    <2> QED BY <1>2, <1>4, <2>1
  <1>6. ASSUME NEW k \in 1 .. n
        PROVE  f[k] = IF e[k] \in S THEN Append(f[k - 1], e[k]) ELSE f[k - 1]
    <2>1. 1 .. k \in SUBSET D /\ 1 .. k # {}
      <3>1. k \in 1 .. k /\ 1 .. k \subseteq 1 .. n
        OBVIOUS
      <3> HIDE DEF D
      <3> QED BY <1>2, <3>1
    <2>2. Max(1 .. k) = k /\ (1 .. k) \ {k} = 1 .. k - 1
      BY <1>2, GreatestOfFirst
    <2>3. it[1 .. k] = IF e[k] \in S THEN Append(it[1 .. k - 1], e[k]) ELSE it[1 .. k - 1]
      <3> HIDE DEF D
      <3> QED BY <1>4, <2>1, <2>2
    <2>4. f[k] = it[1 .. k] /\ f[k - 1] = it[1 .. k - 1]
      BY <1>2
    <2> QED BY <2>3, <2>4
  <1>7. Among(e, S) = f[Len(e)]
    BY <1>1, <1>2
  <1> HIDE DEF f
  <1> QED BY <1>5, <1>6, <1>7

\* It keeps the events of the set, and adds none.
LEMMA AmongKeeps ==
  ASSUME NEW S, NEW A, NEW e \in Seq(A)
  PROVE  Among(e, S) \in Seq(A) /\ ToSet(Among(e, S)) = ToSet(e) \cap S
  <1> DEFINE n == Len(e)
  <1>1. PICK f : /\ f[0] = <<>>
                 /\ \A k \in 1 .. Len(e) :
                      f[k] = IF e[k] \in S THEN Append(f[k - 1], e[k]) ELSE f[k - 1]
                 /\ Among(e, S) = f[Len(e)]
    BY AmongIs
  <1>2. n \in Nat /\ DOMAIN e = 1 .. n /\ \A k \in 1 .. n : e[k] \in A
    OBVIOUS
  <1> DEFINE Good == {k \in Nat : k <= n =>
                        f[k] \in Seq(A) /\ ToSet(f[k]) = {e[i] : i \in 1 .. k} \cap S}
  <1>3. 0 \in Good
    <2>1. ToSet(<<>>) = {} /\ <<>> \in Seq(A) /\ 1 .. 0 = {}
      BY DEF ToSet
    <2>2. {e[i] : i \in 1 .. 0} = {}
      BY <2>1
    <2> QED BY <1>1, <2>1, <2>2
  <1>4. ASSUME NEW k \in Nat, k \in Good PROVE k + 1 \in Good
    <2> SUFFICES ASSUME k + 1 <= n
                 PROVE  f[k + 1] \in Seq(A) /\ ToSet(f[k + 1]) = {e[i] : i \in 1 .. k + 1} \cap S
      OBVIOUS
    <2>1. f[k] \in Seq(A) /\ ToSet(f[k]) = {e[i] : i \in 1 .. k} \cap S
      BY <1>2, <1>4
    <2>2. f[k + 1] = IF e[k + 1] \in S THEN Append(f[k], e[k + 1]) ELSE f[k]
      BY <1>1, <1>2
    <2>3. {e[i] : i \in 1 .. k + 1} = {e[i] : i \in 1 .. k} \cup {e[k + 1]}
      <3>1. 1 .. k + 1 = (1 .. k) \cup {k + 1}
        OBVIOUS
      <3> QED BY <3>1
    <2>4. e[k + 1] \in A
      BY <1>2
    <2>5. ASSUME NEW q \in Seq(A), NEW x \in A PROVE ToSet(Append(q, x)) = ToSet(q) \cup {x}
      <3>1. DOMAIN Append(q, x) = (DOMAIN q) \cup {Len(q) + 1}
        OBVIOUS
      <3>2. \A i \in DOMAIN q : Append(q, x)[i] = q[i]
        OBVIOUS
      <3>3. Append(q, x)[Len(q) + 1] = x
        OBVIOUS
      <3> DEFINE a == Append(q, x)
      <3> HIDE DEF a
      <3> QED BY <3>1, <3>2, <3>3 DEF ToSet, a
    <2>6. CASE e[k + 1] \in S
      BY <2>1, <2>2, <2>3, <2>4, <2>5, <2>6
    <2>7. CASE e[k + 1] \notin S
      BY <2>1, <2>2, <2>3, <2>7
    <2> QED BY <2>6, <2>7
  <1>5. n \in Good
    <2> HIDE DEF Good, n
    <2> QED BY <1>2, <1>3, <1>4, NatSetInduction
  <1>6. ToSet(e) = {e[i] : i \in 1 .. n}
    BY <1>2 DEF ToSet
  <1> QED BY <1>1, <1>5, <1>6

\* The day of a second: division and the two ends of the period agree.
LEMMA DayOfSecond ==
  ASSUME NEW L \in Nat \ {0}, NEW a \in Nat, NEW d \in Nat
  PROVE  a >= d * L /\ a <= d * L + L - 1 <=> a \div L = d
  <1> DEFINE q == a \div L
  <1>1. q \in Nat
    OBVIOUS
  <1>2. q * L <= a /\ a < q * L + L
    OBVIOUS
  <1> HIDE DEF q
  <1>3. q <= d - 1 => q * L <= d * L - L
    <2>1. ASSUME q <= d - 1 PROVE q * L <= (d - 1) * L
      <3> DEFINE j == d - 1 - q
      <3>1. j \in Nat /\ d - 1 = q + j
        BY <1>1, <2>1
      <3> HIDE DEF j
      <3>2. (q + j) * L = q * L + j * L
        BY <1>1, <3>1
      <3>3. j * L >= 0
        BY <3>1
      <3> QED BY <1>1, <3>1, <3>2, <3>3
    <2>2. (d - 1) * L = d * L - L
      OBVIOUS
    <2> QED BY <2>1, <2>2
  <1>4. d <= q - 1 => d * L <= q * L - L
    <2>1. ASSUME d <= q - 1 PROVE d * L <= (q - 1) * L
      <3> DEFINE j == q - 1 - d
      <3>1. j \in Nat /\ q - 1 = d + j
        BY <1>1, <2>1
      <3> HIDE DEF j
      <3>2. (d + j) * L = d * L + j * L
        BY <3>1
      <3>3. j * L >= 0
        BY <3>1
      <3> QED BY <1>1, <3>1, <3>2, <3>3
    <2>2. (q - 1) * L = q * L - L
      BY <1>1
    <2> QED BY <2>1, <2>2
  <1>5. q = d => a >= d * L /\ a <= d * L + L - 1
    BY <1>2
  <1>6. d * L \in Int /\ q * L \in Int
    BY <1>1
  <1>7. a >= d * L /\ a <= d * L + L - 1 => q = d
    <2>1. q < d => q * L + L <= d * L
      BY <1>1, <1>3, <1>6
    <2>2. d < q => d * L + L <= q * L
      BY <1>1, <1>4, <1>6
    <2> QED BY <1>1, <1>2, <1>6, <2>1, <2>2
  <1> QED BY <1>5, <1>7 DEF q

\* The relay answers with events that are old enough to be asked for, and with
\* all of them unless there are too many.
LEMMA AnswerIs ==
  ASSUME bus \in Seq([at : Nat, cp : BOOLEAN]), NEW since, NEW answer \in Answer(since)
  PROVE  LET all == {n \in DOMAIN bus : At(n) >= since}
         IN  /\ answer \in Seq(DOMAIN bus)
             /\ ToSet(answer) \subseteq all
             /\ Cardinality(all) <= Limit => ToSet(answer) = all
  <1> DEFINE all == {n \in DOMAIN bus : At(n) >= since}
             k == IF Cardinality(all) < Limit THEN Cardinality(all) ELSE Limit
  <1>1. PICK s \in kSubset(k, all) : answer \in SetToSeqs(s)
    BY DEF Answer
  <1>2. IsFiniteSet(all) /\ Cardinality(all) \in Nat
    <2>1. DOMAIN bus = 1 .. Len(bus) /\ Len(bus) \in Nat
      OBVIOUS
    <2>2. IsFiniteSet(DOMAIN bus)
      BY <2>1, FS_Interval
    <2> QED BY <2>2, FS_Subset, FS_CardinalityType
  <1>3. s \in SUBSET all /\ Cardinality(s) = k
    BY <1>1 DEF kSubset
  <1>4. IsFiniteSet(s) /\ Cardinality(s) \in Nat
    BY <1>2, <1>3, FS_Subset, FS_CardinalityType
  <1> DEFINE c == Cardinality(s)
  <1>6. ToSet(answer) = s
    BY <1>1, <1>4, EnumerationIs
  <1>7. answer \in Seq(DOMAIN bus)
    <2>1. c \in Nat /\ s \subseteq DOMAIN bus
      BY <1>3, <1>4
    <2>2. answer \in [1 .. c -> s]
      BY <1>1 DEF SetToSeqs
    <2>3. answer \in [1 .. c -> DOMAIN bus]
      BY <2>1, <2>2
    <2> HIDE DEF c
    <2> QED BY <2>1, <2>3
  <1>8. Cardinality(all) <= Limit => s = all
    <2>1. Cardinality(all) <= Limit => k = Cardinality(all)
      BY <1>2, RollupAssumption DEF RollupAssumption
    <2> HIDE DEF all, k
    <2> QED BY <2>1, <1>2, <1>3, FS_Subset
  <1> QED BY <1>3, <1>6, <1>7, <1>8

\* The bus was long enough for the bundle, which covers events of its day only,
\* and all that were there unless the relay cut its answer.
GoodBundle(a) ==
  /\ a.upTo \in 0 .. Len(bus)
  /\ a.covers \subseteq {n \in 1 .. a.upTo : At(n) \div DayLength = a.day}
  /\ ~a.cut => a.covers = {n \in 1 .. a.upTo : At(n) \div DayLength = a.day}

LEMMA BundleIsGood ==
  ASSUME bus \in Seq([at : Nat, cp : BOOLEAN]), NEW d \in Days,
         NEW answer \in Answer(FirstSecond(d))
  PROVE  GoodBundle(Bundle(d, answer))
  <1> DEFINE all == {n \in DOMAIN bus : At(n) >= FirstSecond(d)}
             period == {n \in DOMAIN bus : At(n) >= FirstSecond(d) /\ At(n) <= EndOfDay(d)}
             day == {n \in 1 .. Len(bus) : At(n) \div DayLength = d}
             b == Bundle(d, answer)
  <1>1. /\ answer \in Seq(DOMAIN bus)
        /\ ToSet(answer) \subseteq all
        /\ Cardinality(all) <= Limit => ToSet(answer) = all
    BY AnswerIs
  <1>2. ToSet(InPeriod(answer, FirstSecond(d), EndOfDay(d))) = ToSet(answer) \cap period
    BY <1>1, AmongKeeps DEF InPeriod
  <1>3. period = day
    <2>1. d \in Nat
      BY DaysAreNumbers
    <2>2. DOMAIN bus = 1 .. Len(bus) /\ \A n \in 1 .. Len(bus) : At(n) \in Nat
      <3>1. DOMAIN bus = 1 .. Len(bus) /\ \A n \in 1 .. Len(bus) : bus[n] \in [at : Nat, cp : BOOLEAN]
        <4> DEFINE E == [at : Nat, cp : BOOLEAN]
        <4>1. bus \in Seq(E)
          OBVIOUS
        <4> HIDE DEF E
        <4>2. DOMAIN bus = 1 .. Len(bus) /\ \A n \in 1 .. Len(bus) : bus[n] \in E
          BY <4>1
        <4> QED BY <4>2 DEF E
      <3>2. \A x \in [at : Nat, cp : BOOLEAN] : x.at \in Nat
        OBVIOUS
      <3> QED BY <3>1, <3>2 DEF At
    <2>3. \A n \in 1 .. Len(bus) :
             At(n) >= d * DayLength /\ At(n) <= d * DayLength + DayLength - 1
               <=> At(n) \div DayLength = d
      BY <2>1, <2>2, DayOfSecond, RollupAssumption DEF RollupAssumption
    <2> QED BY <2>2, <2>3 DEF FirstSecond, EndOfDay
  <1>4. /\ b.day = d /\ b.upTo = Len(bus)
        /\ b.covers = ToSet(answer) \cap period
        /\ b.cut <=> Cardinality(all) > Limit
    <2>1. b.day = d /\ b.upTo = Len(bus)
      BY DEF Bundle
    <2>2. b.covers = ToSet(InPeriod(answer, FirstSecond(d), EndOfDay(d)))
      BY DEF Bundle
    <2>3. b.cut = (Cardinality(all) > Limit)
      BY Zenon DEF Bundle
    <2> QED BY <1>2, <2>1, <2>2, <2>3
  <1>5. period \subseteq all
    OBVIOUS
  <1>6. Cardinality(all) \in Nat /\ Limit \in Nat
    <2>1. DOMAIN bus = 1 .. Len(bus) /\ Len(bus) \in Nat
      OBVIOUS
    <2>2. IsFiniteSet(DOMAIN bus)
      BY <2>1, FS_Interval
    <2> QED BY <2>2, FS_Subset, FS_CardinalityType, RollupAssumption DEF RollupAssumption
  <1> HIDE DEF b, all, period
  <1>7. ~b.cut => b.covers = period
    BY <1>1, <1>4, <1>5, <1>6
  <1>8. b.upTo \in 0 .. Len(bus)
    BY <1>4
  <1>9. {n \in 1 .. b.upTo : At(n) \div DayLength = b.day} = day
    BY <1>4
  <1> HIDE DEF day
  <1>10. GoodBundle(b)
    BY <1>3, <1>4, <1>7, <1>8, <1>9 DEF GoodBundle
  <1> QED BY <1>10 DEF b

\* What is on the disk, in memory and on the bus is good.
BusOK == bus \in Seq([at : Nat, cp : BOOLEAN])

BundlesOK ==
  /\ \A d \in Days : \A a \in disk[d].bundle \cup disk[d].signed : GoodBundle(a)
  /\ \A r \in Runs : \A a \in run[r].holds : GoodBundle(a)
  /\ \A a \in anchors : GoodBundle(a)

DaysInv == FilesInv /\ BusOK /\ BundlesOK

LEMMA SameBusSameBundles ==
  ASSUME bus' = bus, NEW a, GoodBundle(a)
  PROVE  GoodBundle(a)'
  BY DEF GoodBundle, At

\* An event that is published comes after every bundle there is.
LEMMA PublishKeepsBundles ==
  ASSUME DaysInv, NEW s, NEW cp \in BOOLEAN, PublishEvent(s, cp)
  PROVE  BusOK' /\ BundlesOK'
  <1> DEFINE x == [at |-> s, cp |-> cp]
             E == [at : Nat, cp : BOOLEAN]
  <1>1. /\ bus \in Seq(E) /\ bus' = Append(bus, x)
        /\ UNCHANGED <<disk, run, anchors>>
    BY DEF DaysInv, BusOK, PublishEvent
  <1>2. x \in E
    BY DEF PublishEvent
  <1> HIDE DEF x, E
  <1>3. /\ bus' \in Seq(E) /\ Len(bus) \in Nat /\ Len(bus') = Len(bus) + 1
        /\ \A n \in 1 .. Len(bus) : bus'[n] = bus[n]
    BY <1>1, <1>2
  <1>4. ASSUME NEW a, GoodBundle(a) PROVE GoodBundle(a)'
    <2>1. a.upTo \in 0 .. Len(bus)
      BY <1>4 DEF GoodBundle
    <2>2. \A n \in 1 .. a.upTo : bus'[n] = bus[n]
      BY <1>3, <2>1
    <2>3. {n \in 1 .. a.upTo : bus'[n].at \div DayLength = a.day}
            = {n \in 1 .. a.upTo : bus[n].at \div DayLength = a.day}
      BY <2>2
    <2>4. a.upTo \in 0 .. Len(bus')
      BY <1>3, <2>1
    <2> QED BY <1>4, <2>3, <2>4 DEF GoodBundle, At
  <1>5. BundlesOK'
    BY <1>1, <1>4 DEF DaysInv, BundlesOK
  <1> QED BY <1>3, <1>5 DEF BusOK, E

LEMMA ExportKeepsBundles ==
  ASSUME DaysInv, NEW r \in Runs, Export(r)
  PROVE  BundlesOK'
  <1> DEFINE d == run[r].day
  <1>1. d \in Days /\ ShapesOK
    BY DEF DaysInv, FilesInv, ShapesOK
  <1>2. PICK answer \in Answer(FirstSecond(d)) :
          disk' = [disk EXCEPT ![d].bundle = {Bundle(d, answer)}]
    BY DEF Export
  <1> DEFINE b == Bundle(d, answer)
             v == {b}
  <1>3. GoodBundle(b)
    BY <1>1, BundleIsGood DEF DaysInv, BusOK
  <1>4. disk' = [disk EXCEPT ![d].bundle = v] /\ Carry(r, "sign", {}) /\ bus' = bus /\ anchors' = anchors
    BY <1>2 DEF Export
  <1>5. (\A q \in Runs : q # r => run'[q] = run[q]) /\ run'[r].holds = {}
    BY <1>1, <1>4, CarryIs
  <1> HIDE DEF d, v, b
  <1>6. disk'[d] = [bundle |-> v, signed |-> disk[d].signed, proof |-> disk[d].proof]
        /\ \A e \in Days : e # d => disk'[e] = disk[e]
    BY <1>1, <1>4, WritesBundle
  <1>7. disk'[d].bundle = {b} /\ disk'[d].signed = disk[d].signed
    BY <1>6 DEF v
  <1>8. \A a : GoodBundle(a) => GoodBundle(a)'
    BY <1>4, SameBusSameBundles
  <1>9. \A e \in Days : \A a \in disk'[e].bundle \cup disk'[e].signed : GoodBundle(a)'
    BY <1>1, <1>3, <1>6, <1>7, <1>8 DEF DaysInv, BundlesOK
  <1>10. \A q \in Runs : \A a \in run'[q].holds : GoodBundle(a)'
    BY <1>5, <1>8 DEF DaysInv, BundlesOK
  <1>11. \A a \in anchors' : GoodBundle(a)'
    BY <1>4, <1>8 DEF DaysInv, BundlesOK
  <1> QED BY <1>9, <1>10, <1>11 DEF BundlesOK

LEMMA SignKeepsBundles ==
  ASSUME DaysInv, NEW r \in Runs, Sign(r) \/ Stamp(r)
  PROVE  BundlesOK'
  <1> DEFINE d == run[r].day
             w == disk[d].bundle
             v == disk[d].signed
  <1>1. d \in Days /\ ShapesOK
    BY DEF DaysInv, FilesInv, ShapesOK
  <1>2. bus' = bus /\ anchors' = anchors
    BY DEF Sign, Stamp
  <1>3. (\A q \in Runs : q # r => run'[q] = run[q]) /\ (run'[r].holds = {} \/ run'[r].holds = v)
    BY <1>1, CarryIs DEF Sign, Stamp
  <1>4. Sign(r) => disk' = [disk EXCEPT ![d].signed = w]
    BY DEF Sign
  <1>5. Stamp(r) => disk' = [disk EXCEPT ![d].proof = v]
    BY DEF Stamp
  <1>6. \A a \in v \cup w : GoodBundle(a)
    BY <1>1 DEF DaysInv, BundlesOK
  <1> HIDE DEF d
  <1>7. /\ \A e \in Days : e # d => disk'[e] = disk[e]
        /\ disk'[d].bundle = w /\ (disk'[d].signed = v \/ disk'[d].signed = w)
    <2>1. CASE Sign(r)
      <3> HIDE DEF w
      <3>1. disk'[d] = [bundle |-> disk[d].bundle, signed |-> w, proof |-> disk[d].proof]
            /\ \A e \in Days : e # d => disk'[e] = disk[e]
        BY <1>1, <1>4, <2>1, WritesSigned
      <3>2. disk'[d].bundle = disk[d].bundle /\ disk'[d].signed = w
        BY <3>1
      <3> QED BY <3>1, <3>2 DEF w
    <2>2. CASE Stamp(r)
      <3> HIDE DEF v
      <3>1. disk'[d] = [bundle |-> disk[d].bundle, signed |-> disk[d].signed, proof |-> v]
            /\ \A e \in Days : e # d => disk'[e] = disk[e]
        BY <1>1, <1>5, <2>2, WritesProof
      <3>2. disk'[d].bundle = disk[d].bundle /\ disk'[d].signed = disk[d].signed
        BY <3>1
      <3> QED BY <3>1, <3>2 DEF v
    <2> QED BY <2>1, <2>2
  <1> HIDE DEF v, w
  <1>8. \A a : GoodBundle(a) => GoodBundle(a)'
    BY <1>2, SameBusSameBundles
  <1>9. \A e \in Days : \A a \in disk'[e].bundle \cup disk'[e].signed : GoodBundle(a)'
    BY <1>1, <1>6, <1>7, <1>8 DEF DaysInv, BundlesOK
  <1>10. \A q \in Runs : \A a \in run'[q].holds : GoodBundle(a)'
    BY <1>3, <1>6, <1>8 DEF DaysInv, BundlesOK
  <1>11. \A a \in anchors' : GoodBundle(a)'
    BY <1>2, <1>8 DEF DaysInv, BundlesOK
  <1> QED BY <1>9, <1>10, <1>11 DEF BundlesOK

LEMMA EndKeepsBundles ==
  ASSUME DaysInv, NEW r \in Runs, NEW d \in Days,
         Announce(r) \/ RollupFails(r) \/ StartRollup(r, d)
  PROVE  BundlesOK'
  <1>1. bus' = bus /\ disk' = disk /\ anchors' \subseteq anchors \cup run[r].holds
    BY DEF Announce, RollupFails, StartRollup
  <1>2. \A q \in Runs : run'[q].holds = {} \/ run'[q].holds = run[q].holds
    <2>0. DOMAIN run = Runs
      BY DEF DaysInv, FilesInv, ShapesOK
    <2>1. CASE Announce(r) \/ RollupFails(r)
      <3>1. run' = [run EXCEPT ![r] = AtRest]
        BY <2>1 DEF Announce, RollupFails
      <3>2. AtRest.holds = {}
        BY DEF AtRest
      <3> QED BY <2>0, <3>1, <3>2
    <2>2. CASE StartRollup(r, d)
      <3> SUFFICES ASSUME NEW q \in Runs PROVE run'[q].holds = {} \/ run'[q].holds = run[q].holds
        OBVIOUS
      <3>1. \/ \E c : run'[q] = [place |-> "export", day |-> d, alone |-> c, holds |-> {}]
            \/ run'[q] = [run[q] EXCEPT !.alone = FALSE]
            \/ run'[q] = run[q]
        BY <2>2, Zenon DEF StartRollup
      <3>2. run[q] = [place |-> run[q].place, day |-> run[q].day, alone |-> run[q].alone,
                      holds |-> run[q].holds]
        BY DEF DaysInv, FilesInv, ShapesOK
      <3>3. \A c : run'[q] = [place |-> "export", day |-> d, alone |-> c, holds |-> {}]
                     => run'[q].holds = {}
        OBVIOUS
      <3>4. run'[q] = [run[q] EXCEPT !.alone = FALSE] => run'[q].holds = run[q].holds
        <4> DEFINE off == FALSE
                   y == run[q]
        <4>1. [y EXCEPT !.alone = off] = [place |-> y.place, day |-> y.day, alone |-> off, holds |-> y.holds]
          <5> HIDE DEF off
          <5> QED BY <3>2, OtherAlone
        <4> HIDE DEF off
        <4>2. [run[q] EXCEPT !.alone = off].holds = run[q].holds
          BY <4>1
        <4> QED BY <4>2 DEF off
      <3> QED BY <3>1, <3>3, <3>4
    <2> QED BY <2>1, <2>2
  <1>3. \A a : GoodBundle(a) => GoodBundle(a)'
    BY <1>1, SameBusSameBundles
  <1> QED BY <1>1, <1>2, <1>3 DEF DaysInv, BundlesOK

LEMMA DaysNext == DaysInv /\ [RollupNext]_rvars => DaysInv'
  <1> SUFFICES ASSUME DaysInv, [RollupNext]_rvars PROVE DaysInv'
    OBVIOUS
  <1>1. FilesInv'
    BY FilesNext DEF DaysInv
  <1>2. CASE UNCHANGED rollupVars
    <2>1. BusOK'
      BY <1>2 DEF DaysInv, BusOK, rollupVars
    <2>2. BundlesOK'
      BY <1>2 DEF DaysInv, BundlesOK, GoodBundle, At, rollupVars
    <2> QED BY <1>1, <2>1, <2>2 DEF DaysInv
  <1>3. ASSUME BundlesOK', bus' = bus PROVE DaysInv'
    BY <1>1, <1>3 DEF DaysInv, BusOK
  <1>4. CASE \E r \in Runs, d \in Days : StartRollup(r, d)
    <2>1. bus' = bus
      BY <1>4 DEF StartRollup
    <2> QED BY <1>3, <1>4, <2>1, EndKeepsBundles
  <1>5. CASE \E r \in Runs : Export(r) \/ Sign(r) \/ Stamp(r) \/ Announce(r) \/ RollupFails(r)
    <2>1. bus' = bus
      BY <1>5 DEF Export, Sign, Stamp, Announce, RollupFails
    <2>2. 0 \in Days
      BY DaysAreNumbers
    <2> QED BY <1>3, <1>5, <2>1, <2>2, ExportKeepsBundles, SignKeepsBundles, EndKeepsBundles
  <1>6. CASE \E s \in 0 .. MaxClock, cp \in BOOLEAN : PublishEvent(s, cp)
    BY <1>1, <1>6, PublishKeepsBundles DEF DaysInv
  <1>7. Tick /\ UNCHANGED rollupVars => UNCHANGED rollupVars
    OBVIOUS
  <1>8. UNCHANGED rvars => UNCHANGED rollupVars
    BY DEF rvars
  <1> QED BY <1>2, <1>4, <1>5, <1>6, <1>7, <1>8 DEF RollupNext

LEMMA DaysInit == RollupInit => DaysInv
  <1> SUFFICES ASSUME RollupInit PROVE DaysInv
    OBVIOUS
  <1>1. bus = <<>> /\ anchors = {}
    BY DEF RollupInit
  <1>2. \A d \in Days : disk[d].bundle = {} /\ disk[d].signed = {}
    BY DEF RollupInit, NoFiles
  <1>3. \A r \in Runs : run[r].holds = {}
    BY DEF RollupInit, AtRest
  <1>4. BusOK
    BY <1>1 DEF BusOK
  <1> QED BY <1>1, <1>2, <1>3, <1>4, FilesInit DEF DaysInv, BundlesOK

LEMMA DaysPartition == DaysInv => DaysPartitionEvents
  <1> SUFFICES ASSUME DaysInv PROVE DaysPartitionEvents
    OBVIOUS
  <1>1. \A a \in Bundles : GoodBundle(a)
    BY DEF DaysInv, BundlesOK, Bundles
  <1>2. \A a \in Bundles : ~a.cut => a.covers = {n \in 1 .. a.upTo : At(n) \div DayLength = a.day}
    BY <1>1 DEF GoodBundle
  <1>3. \A a, b \in Bundles : a.day # b.day => a.covers \cap b.covers = {}
    BY <1>1 DEF GoodBundle
  <1> QED BY <1>2, <1>3 DEF DaysPartitionEvents

\* A root stands for exactly the events it was made of, in whatever order the
\* relay answered and however odd leaves were paired (merkle.rs); every event
\* belongs to the bundles of one day at most, and a bundle has all the events of
\* its day that were published before it was made, those of the first and the last
\* second too, unless the relay cut its answer (rollup.rs: filter_events_in_period).
THEOREM BundlesStandForTheirDay == RollupSpec => []BundlesAreExact
  <1>1. DaysInv => BundlesAreExact
    BY DaysPartition, RootsIdentify DEF BundlesAreExact
  <1> QED BY <1>1, DaysNext, DaysInit, PTL DEF RollupSpec, rvars

-----------------------------------------------------------------------------
(* The demo: what a pack that verifies means.                              *)

IsSequence(s) == \E S : s \in Seq(S)

LEMMA SequenceIs ==
  ASSUME NEW s, IsSequence(s)
  PROVE  Len(s) \in Nat /\ DOMAIN s = 1 .. Len(s)
  <1> PICK S : s \in Seq(S)
    BY DEF IsSequence
  <1> QED OBVIOUS

LEMMA EmptyIs == IsSequence(<<>>) /\ Len(<<>>) = 0
  <1>1. <<>> \in Seq({}) /\ Len(<<>>) = 0
    OBVIOUS
  <1> QED BY <1>1 DEF IsSequence

LEMMA AppendIs ==
  ASSUME NEW s, IsSequence(s), NEW e
  PROVE  /\ IsSequence(Append(s, e)) /\ Len(Append(s, e)) = Len(s) + 1
         /\ Append(s, e)[Len(s) + 1] = e
         /\ \A n \in 1 .. Len(s) : Append(s, e)[n] = s[n]
  <1> PICK S : s \in Seq(S)
    BY DEF IsSequence
  <1>1. s \in Seq(S \cup {e}) /\ e \in S \cup {e}
    OBVIOUS
  <1>2. Append(s, e) \in Seq(S \cup {e})
    BY <1>1
  <1>3. IsSequence(Append(s, e))
    BY <1>2 DEF IsSequence
  <1> QED BY <1>1, <1>3

\* The last m of s and e, where m is how many of them are left.
Pushed(s, e, t) ==
  /\ IsSequence(t) /\ Len(t) <= Len(s) + 1
  /\ \A n \in 1 .. Len(t) :
        t[n] = IF n = Len(t) THEN e ELSE s[n + (Len(s) + 1 - Len(t))]

LEMMA LastNIs ==
  ASSUME NEW s, IsSequence(s), NEW e, NEW m \in Nat
  PROVE  /\ Pushed(s, e, LastN(Append(s, e), m))
         /\ Len(LastN(Append(s, e), m)) <= m
         /\ Len(LastN(Append(s, e), m)) = m \/ Len(LastN(Append(s, e), m)) = Len(s) + 1
  <1> DEFINE a == Append(s, e)
             t == LastN(a, m)
  <1>1. /\ IsSequence(a) /\ Len(a) = Len(s) + 1 /\ a[Len(s) + 1] = e
        /\ \A n \in 1 .. Len(s) : a[n] = s[n]
    BY AppendIs
  <1>2. Len(s) \in Nat
    BY SequenceIs
  <1> HIDE DEF a
  <1>3. CASE Len(a) > m
    <2> PICK S : a \in Seq(S)
      BY <1>1 DEF IsSequence
    <2>1. t = SubSeq(a, Len(a) - m + 1, Len(a))
      BY <1>3 DEF LastN
    <2>2. Len(a) - m + 1 \in 1 .. Len(a) + 1
      BY <1>1, <1>2, <1>3
    <2>3. /\ t \in Seq(S) /\ Len(t) = m
          /\ \A n \in 1 .. m : t[n] = a[n + (Len(a) - m)]
      BY <1>1, <1>2, <1>3, <2>1, <2>2
    <2>4. IsSequence(t)
      BY <2>3 DEF IsSequence
    <2> HIDE DEF t
    <2>5. \A n \in 1 .. m : t[n] = IF n = m THEN e ELSE s[n + (Len(s) + 1 - m)]
      <3> TAKE n \in 1 .. m
      <3> DEFINE d == Len(s) + 1 - m
      <3>1. t[n] = a[n + d] /\ d \in Nat /\ n + d \in 1 .. Len(s) + 1
        BY <1>1, <1>2, <1>3, <2>3
      <3>2. CASE n = m
        <4>1. n + d = Len(s) + 1
          BY <1>2, <3>2
        <4> QED BY <1>1, <3>1, <3>2, <4>1
      <3>3. CASE n # m
        <4>1. n + d \in 1 .. Len(s)
          BY <1>2, <3>1, <3>3
        <4> QED BY <1>1, <3>1, <3>3, <4>1
      <3> QED BY <3>2, <3>3
    <2> QED BY <1>1, <1>2, <1>3, <2>3, <2>4, <2>5 DEF Pushed, t, a
  <1>4. CASE ~(Len(a) > m)
    <2>1. t = a
      BY <1>4 DEF LastN
    <2>2. \A n \in 1 .. Len(a) : a[n] = IF n = Len(a) THEN e ELSE s[n + (Len(s) + 1 - Len(a))]
      BY <1>1, <1>2
    <2>3. Pushed(s, e, a) /\ Len(a) <= m /\ Len(a) = Len(s) + 1
      BY <1>1, <1>2, <1>4, <2>2 DEF Pushed
    <2> QED BY <2>1, <2>3 DEF a
  <1> QED BY <1>3, <1>4

\* Events are signed after what they name as their parent.
EventsGood(ev) ==
  IsSequence(ev) /\ \A n \in 1 .. Len(ev) : ev[n].parent \in 0 .. n - 1

Continues(ev, more) ==
  Len(ev) <= Len(more) /\ \A n \in 1 .. Len(ev) : more[n] = ev[n]

LEMMA SignedIs ==
  ASSUME EventsGood(events), NEW event, event.parent \in 0 .. Len(events)
  PROVE  /\ EventsGood(Signed(event)) /\ Continues(events, Signed(event))
         /\ HashOf(event) \in 1 .. Len(Signed(event))
         /\ Signed(event)[HashOf(event)] = event
  <1> DEFINE ev == Signed(event)
  <1>1. IsSequence(events) /\ Len(events) \in Nat
    BY SequenceIs DEF EventsGood
  <1>2. EventsGood(ev) /\ Continues(events, ev) /\ \E n \in 1 .. Len(ev) : ev[n] = event
    <2>1. CASE Contains(events, event)
      <3>1. ev = events /\ \E n \in 1 .. Len(events) : events[n] = event
        BY <2>1 DEF Signed, Contains
      <3> HIDE DEF ev
      <3> QED BY <1>1, <3>1 DEF Continues
    <2>2. CASE ~Contains(events, event)
      <3>1. ev = Append(events, event)
        BY <2>2 DEF Signed
      <3>2. /\ IsSequence(ev) /\ Len(ev) = Len(events) + 1 /\ ev[Len(events) + 1] = event
            /\ \A n \in 1 .. Len(events) : ev[n] = events[n]
        BY <1>1, <3>1, AppendIs
      <3> HIDE DEF ev
      <3>3. \A n \in 1 .. Len(ev) : ev[n].parent \in 0 .. n - 1
        <4> TAKE n \in 1 .. Len(ev)
        <4>1. CASE n = Len(events) + 1
          BY <1>1, <3>2, <4>1
        <4>2. CASE n \in 1 .. Len(events)
          BY <1>1, <3>2, <4>2 DEF EventsGood
        <4> QED BY <1>1, <3>2, <4>1, <4>2
      <3>4. Len(events) + 1 \in 1 .. Len(ev)
        BY <1>1, <3>2
      <3> QED BY <1>1, <3>2, <3>3, <3>4 DEF EventsGood, Continues
    <2> QED BY <2>1, <2>2
  <1> DEFINE I == {n \in 1 .. Len(ev) : ev[n] = event}
  <1>3. HashOf(event) = IF I # {} THEN Min(I) ELSE 0
    BY DEF HashOf, SelectInSeq
  <1> HIDE DEF ev
  <1>4. I # {} /\ I \subseteq Nat
    BY <1>2
  <1>5. Min(I) \in I
    <2> HIDE DEF I
    <2>1. \E m \in I : \A y \in I : m <= y
      BY <1>4, LeastNumber
    <2> QED BY <2>1 DEF Min
  <1>6. HashOf(event) \in I
    BY <1>3, <1>4, <1>5
  <1> QED BY <1>2, <1>6 DEF ev

-----------------------------------------------------------------------------
(* Receipts in their order.                                                *)

Counts(rc, ev, i) == ev[rc[i].event].kind = "allowed"

\* Nothing counts between the k-th receipt and the i-th one.
NextTo(rc, ev, k, i) ==
  k < i /\ Counts(rc, ev, k) /\ \A j \in k + 1 .. i - 1 : ~Counts(rc, ev, j)

\* Each receipt names the last one before it that counts.
ChainedIn(rc, ev) ==
  \A i, k \in 1 .. Len(rc) : NextTo(rc, ev, k, i) => ev[rc[i].event].parent = rc[k].event

\* n is the last receipt that counts.
FollowedBy(rc, ev, n) ==
  \A k \in 1 .. Len(rc) : NextTo(rc, ev, k, Len(rc) + 1) => n = rc[k].event

ReceiptsIn(rc, ev) ==
  IsSequence(rc) /\ \A i \in 1 .. Len(rc) : rc[i].event \in 1 .. Len(ev)

LEMMA SigningKeepsOrder ==
  ASSUME NEW ev, NEW more, Continues(ev, more), NEW rc, ReceiptsIn(rc, ev),
         Len(ev) \in Nat, Len(more) \in Nat
  PROVE  /\ ReceiptsIn(rc, more)
         /\ ChainedIn(rc, ev) => ChainedIn(rc, more)
         /\ \A n : FollowedBy(rc, ev, n) => FollowedBy(rc, more, n)
  <1>1. Len(rc) \in Nat /\ Len(ev) <= Len(more)
    BY SequenceIs DEF ReceiptsIn, Continues
  <1>2. \A i \in 1 .. Len(rc) : more[rc[i].event] = ev[rc[i].event]
    BY DEF ReceiptsIn, Continues
  <1>3. \A i \in 1 .. Len(rc) : Counts(rc, more, i) = Counts(rc, ev, i)
    BY <1>2 DEF Counts
  <1>4. \A k \in 1 .. Len(rc), i \in 1 .. Len(rc) + 1 : NextTo(rc, more, k, i) => NextTo(rc, ev, k, i)
    BY <1>1, <1>3 DEF NextTo
  <1>5. ReceiptsIn(rc, more)
    BY <1>1 DEF ReceiptsIn
  <1>6. ChainedIn(rc, ev) => ChainedIn(rc, more)
    BY <1>1, <1>2, <1>4 DEF ChainedIn
  <1>7. \A n : FollowedBy(rc, ev, n) => FollowedBy(rc, more, n)
    BY <1>1, <1>4 DEF FollowedBy
  <1> QED BY <1>5, <1>6, <1>7

LEMMA PushKeepsOrder ==
  ASSUME NEW ev, Len(ev) \in Nat, NEW rc, ReceiptsIn(rc, ev), ChainedIn(rc, ev),
         NEW x, x.event \in 1 .. Len(ev), FollowedBy(rc, ev, ev[x.event].parent),
         NEW t, Pushed(rc, x, t)
  PROVE  /\ ReceiptsIn(t, ev) /\ ChainedIn(t, ev)
         /\ ev[x.event].kind = "allowed" => FollowedBy(t, ev, x.event)
         /\ ev[x.event].kind # "allowed" => FollowedBy(t, ev, ev[x.event].parent)
  <1> DEFINE m == Len(t)
             d == Len(rc) + 1 - m
             e == x.event
  <1>1. Len(rc) \in Nat /\ m \in Nat /\ d \in Nat /\ IsSequence(t)
    BY SequenceIs DEF ReceiptsIn, Pushed
  <1>2. \A n \in 1 .. m : t[n] = IF n = m THEN x ELSE rc[n + d]
    BY DEF Pushed
  <1> HIDE DEF d, m
  <1>3. \A n \in 1 .. m : n # m => n + d \in 1 .. Len(rc)
    BY <1>1 DEF d
  <1>4. \A n \in 1 .. m : t[n].event = IF n = m THEN e ELSE rc[n + d].event
    BY <1>2
  <1>5. ReceiptsIn(t, ev)
    BY <1>1, <1>3, <1>4 DEF ReceiptsIn, m
  <1>6. \A n \in 1 .. m : Counts(t, ev, n) =
            IF n = m THEN ev[e].kind = "allowed" ELSE Counts(rc, ev, n + d)
    BY <1>4 DEF Counts
  <1>7. ASSUME NEW k \in 1 .. m, NEW i \in 1 .. m, NextTo(t, ev, k, i)
        PROVE  NextTo(rc, ev, k + d, i + d) /\ k # m
    <2>1. k < i /\ k # m /\ i - 1 < m
      BY <1>1, <1>7 DEF NextTo
    <2>2. Counts(rc, ev, k + d)
      BY <1>6, <1>7, <2>1 DEF NextTo
    <2>3. \A j \in (k + d) + 1 .. (i + d) - 1 : ~Counts(rc, ev, j)
      <3> TAKE j \in (k + d) + 1 .. (i + d) - 1
      <3>1. j - d \in k + 1 .. i - 1 /\ j - d \in 1 .. m /\ j - d # m /\ (j - d) + d = j
        BY <1>1, <2>1
      <3>2. ~Counts(t, ev, j - d)
        BY <1>7, <3>1 DEF NextTo
      <3> QED BY <1>6, <3>1, <3>2
    <2>4. k + d < i + d
      BY <1>1, <2>1
    <2>5. NextTo(rc, ev, k + d, i + d)
      BY <2>2, <2>3, <2>4 DEF NextTo
    <2> QED BY <2>1, <2>5
  <1>8. ChainedIn(t, ev)
    <2> SUFFICES ASSUME NEW i \in 1 .. m, NEW k \in 1 .. m, NextTo(t, ev, k, i)
                 PROVE  ev[t[i].event].parent = t[k].event
      BY DEF ChainedIn, m
    <2>1. NextTo(rc, ev, k + d, i + d) /\ k # m /\ k + d \in 1 .. Len(rc)
      BY <1>3, <1>7
    <2>2. CASE i = m
      <3>1. i + d = Len(rc) + 1
        BY <1>1, <2>2 DEF d
      <3>2. ev[e].parent = rc[k + d].event
        BY <2>1, <3>1 DEF FollowedBy
      <3> QED BY <1>4, <2>1, <2>2, <3>2
    <2>3. CASE i # m
      <3>1. i + d \in 1 .. Len(rc)
        BY <1>3, <2>3
      <3>2. ev[rc[i + d].event].parent = rc[k + d].event
        BY <2>1, <3>1 DEF ChainedIn
      <3> QED BY <1>4, <2>1, <2>3, <3>2
    <2> QED BY <2>2, <2>3
  <1>9. ASSUME ev[e].kind = "allowed" PROVE FollowedBy(t, ev, e)
    <2> SUFFICES ASSUME NEW k \in 1 .. m, NextTo(t, ev, k, m + 1) PROVE e = t[k].event
      BY DEF FollowedBy, m
    <2>1. k < m => m \in k + 1 .. (m + 1) - 1
      BY <1>1
    <2>2. k < m => ~Counts(t, ev, m)
      BY <2>1 DEF NextTo
    <2>3. Counts(t, ev, m)
      <3>1. m \in 1 .. m
        BY <1>1
      <3> QED BY <1>6, <1>9, <3>1
    <2>4. k = m
      BY <1>1, <2>2, <2>3
    <2> QED BY <1>4, <2>4
  <1>10. ASSUME ev[e].kind # "allowed" PROVE FollowedBy(t, ev, ev[e].parent)
    <2> SUFFICES ASSUME NEW k \in 1 .. m, NextTo(t, ev, k, m + 1) PROVE ev[e].parent = t[k].event
      BY DEF FollowedBy, m
    <2>1. Counts(t, ev, k)
      BY DEF NextTo
    <2>2. k # m
      BY <1>6, <1>10, <2>1
    <2>3. m \in 1 .. m /\ k < m
      BY <1>1, <2>2
    <2>4. \A j \in k + 1 .. m - 1 : j \in k + 1 .. (m + 1) - 1
      BY <1>1
    <2>5. NextTo(t, ev, k, m)
      BY <2>1, <2>3, <2>4 DEF NextTo
    <2>6. NextTo(rc, ev, k + d, m + d) /\ k + d \in 1 .. Len(rc)
      BY <1>3, <1>7, <2>2, <2>3, <2>5
    <2>7. m + d = Len(rc) + 1
      BY <1>1 DEF d
    <2>8. ev[e].parent = rc[k + d].event
      BY <2>6, <2>7 DEF FollowedBy
    <2> QED BY <1>4, <2>2, <2>8
  <1> QED BY <1>5, <1>8, <1>9, <1>10

\* The last receipt that counts, before the i-th one.
LEMMA LastBeforeIs ==
  ASSUME NEW ev, NEW rc, ReceiptsIn(rc, ev), NEW i \in 1 .. Len(rc) + 1,
         NEW T, T = {j \in 1 .. i - 1 : Counts(rc, ev, j)}
  PROVE  /\ T # {} => /\ Max(T) \in T /\ Max(T) \in 1 .. Len(rc) /\ Max(T) < i
                      /\ NextTo(rc, ev, Max(T), i)
                      /\ \A j \in T : j <= Max(T)
         /\ \A k \in 1 .. Len(rc) : NextTo(rc, ev, k, i) => T # {} /\ k = Max(T)
  <1>1. Len(rc) \in Nat
    BY SequenceIs DEF ReceiptsIn
  <1>2. i - 1 \in Nat /\ T \in SUBSET (1 .. i - 1)
    BY <1>1
  <1>3. T # {} => Max(T) \in T /\ \A y \in T : y <= Max(T)
    BY <1>2, GreatestOf
  <1> DEFINE m == Max(T)
  <1> HIDE DEF m
  <1>4. ASSUME T # {}
        PROVE  m \in T /\ m \in 1 .. Len(rc) /\ m < i /\ NextTo(rc, ev, m, i) /\ \A j \in T : j <= m
    <2>1. m \in T /\ \A y \in T : y <= m
      BY <1>3, <1>4 DEF m
    <2>2. m \in 1 .. i - 1 /\ m \in 1 .. Len(rc) /\ m < i /\ Counts(rc, ev, m)
      BY <1>1, <2>1
    <2>3. \A j \in m + 1 .. i - 1 : ~Counts(rc, ev, j)
      BY <1>1, <2>1, <2>2
    <2>4. NextTo(rc, ev, m, i)
      BY <2>2, <2>3 DEF NextTo
    <2> QED BY <2>1, <2>2, <2>4
  <1>5. ASSUME NEW k \in 1 .. Len(rc), NextTo(rc, ev, k, i)
        PROVE  T # {} /\ k = m
    <2>1. k \in T
      BY <1>1, <1>5 DEF NextTo
    <2>2. m \in T /\ \A y \in T : y <= m
      BY <1>3, <2>1 DEF m
    <2>3. ~(k < m)
      <3> SUFFICES ASSUME k < m PROVE FALSE
        OBVIOUS
      <3>1. m \in k + 1 .. i - 1 /\ Counts(rc, ev, m)
        BY <1>1, <2>1, <2>2
      <3> QED BY <1>5, <3>1 DEF NextTo
    <2>4. k <= m /\ m \in 1 .. i - 1
      BY <2>1, <2>2
    <2> QED BY <1>1, <2>1, <2>3, <2>4
  <1> QED BY <1>4, <1>5 DEF m

\* The walk back from an event to `low`, along the parents.
Walk(f, ev, low) ==
  f = [n \in Nat |-> IF n \notin DOMAIN ev THEN {}
                     ELSE IF n = low THEN {n} ELSE {n} \cup f[ev[n].parent]]

LEMMA WalkExists ==
  ASSUME NEW ev, EventsGood(ev), NEW low
  PROVE  \E f : Walk(f, ev, low)
  <1> DEFINE Closed == {C \in SUBSET Nat : \A y \in C : y \in DOMAIN ev /\ y # low => ev[y].parent \in C}
             B(n) == {y \in Nat : \A C \in Closed : n \in C => y \in C}
             f == [n \in Nat |-> B(n) \cap DOMAIN ev]
  <1>1. DOMAIN ev = 1 .. Len(ev) /\ Len(ev) \in Nat
    BY SequenceIs DEF EventsGood
  <1>2. \A n \in DOMAIN ev : n \in Nat /\ ev[n].parent \in Nat
    BY <1>1 DEF EventsGood
  <1>3. ASSUME NEW n \in Nat PROVE n \in B(n) /\ B(n) \in Closed
    <2>1. n \in B(n)
      OBVIOUS
    <2>2. ASSUME NEW y \in B(n), y \in DOMAIN ev, y # low PROVE ev[y].parent \in B(n)
      <3>1. ev[y].parent \in Nat
        BY <1>2, <2>2
      <3>2. \A C \in Closed : n \in C => ev[y].parent \in C
        BY <2>2
      <3> QED BY <3>1, <3>2
    <2>3. B(n) \in SUBSET Nat
      OBVIOUS
    <2> QED BY <2>1, <2>2, <2>3
  <1>4. ASSUME NEW C \in Closed, NEW n \in C PROVE B(n) \subseteq C
    BY <1>4
  <1>5. ASSUME NEW n \in Nat
        PROVE  f[n] = IF n \notin DOMAIN ev THEN {}
                      ELSE IF n = low THEN {n} ELSE {n} \cup f[ev[n].parent]
    <2>1. CASE n \notin DOMAIN ev
      <3>1. {n} \in Closed
        BY <2>1
      <3>2. B(n) \subseteq {n}
        BY <1>4, <3>1
      <3> HIDE DEF B
      <3> QED BY <2>1, <3>2
    <2>2. CASE n \in DOMAIN ev /\ n = low
      <3>1. {n} \in Closed
        BY <2>2
      <3>2. B(n) \subseteq {n} /\ n \in B(n)
        BY <1>3, <1>4, <3>1
      <3> HIDE DEF B
      <3> QED BY <2>2, <3>2
    <2>3. CASE n \in DOMAIN ev /\ n # low
      <3> DEFINE p == ev[n].parent
      <3>1. p \in Nat
        BY <1>2, <2>3
      <3>2. p \in B(p) /\ B(p) \in Closed /\ n \in B(n) /\ B(n) \in Closed
        BY <1>3, <3>1
      <3>3. p \in B(n)
        BY <2>3, <3>2
      <3>4. B(p) \subseteq B(n)
        BY <1>4, <3>2, <3>3
      <3>5. {n} \cup B(p) \in Closed
        <4> HIDE DEF B
        <4>1. \A y \in {n} \cup B(p) : y \in DOMAIN ev /\ y # low => ev[y].parent \in {n} \cup B(p)
          BY <3>2
        <4> QED BY <3>2, <4>1
      <3>6. B(n) \subseteq {n} \cup B(p)
        <4>1. n \in {n} \cup B(p)
          OBVIOUS
        <4> HIDE DEF B, Closed
        <4> QED BY <1>4, <3>5, <4>1
      <3>7. B(n) = {n} \cup B(p)
        <4> HIDE DEF B, Closed
        <4> QED BY <3>2, <3>4, <3>6
      <3> HIDE DEF B, Closed
      <3> QED BY <2>3, <3>1, <3>7
    <2> QED BY <2>1, <2>2, <2>3
  <1> HIDE DEF B, Closed
  <1>6. f = [n \in Nat |-> IF n \notin DOMAIN ev THEN {}
                           ELSE IF n = low THEN {n} ELSE {n} \cup f[ev[n].parent]]
    BY <1>5
  <1>7. Walk(f, ev, low)
    <2> HIDE DEF f
    <2> QED BY <1>6 DEF Walk
  <1> QED BY <1>7

Counting(rc, ev) == {i \in 1 .. Len(rc) : Counts(rc, ev, i)}

\* Receipts that count name events one after the other.
LEMMA CountsGrow ==
  ASSUME NEW ev, EventsGood(ev), NEW rc, ReceiptsIn(rc, ev), ChainedIn(rc, ev)
  PROVE  \A i, j \in Counting(rc, ev) : j < i => rc[j].event < rc[i].event
  <1> DEFINE A == Counting(rc, ev)
             G == {n \in Nat : \A i, j \in A : i <= n /\ j < i => rc[j].event < rc[i].event}
  <1>1. Len(rc) \in Nat /\ \A i \in 1 .. Len(rc) : rc[i].event \in 1 .. Len(ev)
    BY SequenceIs DEF ReceiptsIn
  <1>2. Len(ev) \in Nat /\ \A n \in 1 .. Len(ev) : ev[n].parent \in 0 .. n - 1
    BY SequenceIs DEF EventsGood
  <1>3. 0 \in G
    BY DEF Counting
  <1>4. ASSUME NEW n \in Nat, n \in G PROVE n + 1 \in G
    <2>1. ASSUME NEW i \in A, NEW j \in A, i = n + 1, j < i PROVE rc[j].event < rc[i].event
      <3> DEFINE T == {y \in 1 .. i - 1 : Counts(rc, ev, y)}
                 m == Max(T)
      <3>1. i \in 1 .. Len(rc) /\ i \in 1 .. Len(rc) + 1 /\ j \in T
        BY <1>1, <2>1 DEF Counting
      <3>2. /\ m \in T /\ m \in 1 .. Len(rc) /\ m < i /\ NextTo(rc, ev, m, i)
            /\ \A y \in T : y <= m
        <4> HIDE DEF m
        <4>1. T = {y \in 1 .. i - 1 : Counts(rc, ev, y)}
          OBVIOUS
        <4>0. T # {} /\ i \in 1 .. Len(rc) + 1
          BY <3>1
        <4> HIDE DEF T
        <4>2. T # {} => /\ m \in T /\ m \in 1 .. Len(rc) /\ NextTo(rc, ev, m, i)
                        /\ \A y \in T : y <= m
          BY <4>0, <4>1, LastBeforeIs DEF m
        <4>3. m < i
          BY <4>0, <4>2 DEF NextTo
        <4> QED BY <4>0, <4>2, <4>3
      <3> HIDE DEF m
      <3>3. rc[m].event = ev[rc[i].event].parent
        BY <3>1, <3>2 DEF ChainedIn
      <3>4. rc[m].event < rc[i].event
        BY <1>1, <1>2, <3>1, <3>2, <3>3
      <3>5. j <= m /\ m \in A /\ m <= n
        BY <1>1, <2>1, <3>1, <3>2 DEF Counting
      <3>6. j = m \/ rc[j].event < rc[m].event
        BY <1>4, <2>1, <3>2, <3>5 DEF Counting
      <3>7. rc[j].event \in Nat /\ rc[m].event \in Nat /\ rc[i].event \in Nat
        BY <1>1, <1>2, <3>1, <3>2, <2>1 DEF Counting
      <3> QED BY <3>4, <3>6, <3>7
    <2>2. \A i \in A : i \in Nat
      BY DEF Counting
    <2> HIDE DEF A
    <2>3. ASSUME NEW i \in A, NEW j \in A, i <= n + 1, j < i PROVE rc[j].event < rc[i].event
      <3>1. i <= n \/ i = n + 1
        BY <2>2, <2>3
      <3> QED BY <1>4, <2>1, <2>3, <3>1
    <2> QED BY <2>3
  <1> HIDE DEF G
  <1>5. \A n \in Nat : n \in G
    BY <1>3, <1>4, NatSetInduction
  <1>6. \A i \in A : i \in G /\ i <= i
    BY <1>5 DEF Counting
  <1> QED BY <1>6 DEF G

NumbersOf(rc, ev) == {rc[i].event : i \in Counting(rc, ev)}

NumbersUpto(rc, ev, i) == {rc[j].event : j \in {y \in Counting(rc, ev) : y <= i}}

LEMMA WalkFinds ==
  ASSUME NEW ev, EventsGood(ev), NEW rc, ReceiptsIn(rc, ev), ChainedIn(rc, ev),
         NEW f, NEW low, Walk(f, ev, low),
         low = Min(NumbersOf(rc, ev))
  PROVE  \A i \in Counting(rc, ev) : f[rc[i].event] = NumbersUpto(rc, ev, i)
  <1> DEFINE A == Counting(rc, ev)
             S == {rc[i].event : i \in A}
             Upto(i) == {rc[j].event : j \in {y \in A : y <= i}}
             G == {n \in Nat : \A i \in A : i <= n => f[rc[i].event] = Upto(i)}
  <1>1. Len(rc) \in Nat /\ \A i \in 1 .. Len(rc) : rc[i].event \in 1 .. Len(ev)
    BY SequenceIs DEF ReceiptsIn
  <1>2. Len(ev) \in Nat /\ DOMAIN ev = 1 .. Len(ev)
    BY SequenceIs DEF EventsGood
  <1>3. \A i \in A : i \in 1 .. Len(rc) /\ i \in Nat /\ rc[i].event \in DOMAIN ev /\ rc[i].event \in Nat
    BY <1>1, <1>2 DEF Counting
  <1>4. \A i, j \in A : j < i => rc[j].event < rc[i].event
    BY CountsGrow
  <1>5. A # {} => low \in S /\ \A y \in S : low <= y
    <2> SUFFICES ASSUME A # {} PROVE low \in S /\ \A y \in S : low <= y
      OBVIOUS
    <2>1. S # {} /\ S \in SUBSET Nat
      BY <1>3
    <2> HIDE DEF S
    <2>2. \E m \in S : \A y \in S : m <= y
      BY <2>1, LeastNumber
    <2>3. low = Min(S)
      BY DEF S, NumbersOf
    <2> QED BY <2>2, <2>3 DEF Min
  <1>6. \A n \in Nat : f[n] = IF n \notin DOMAIN ev THEN {}
                              ELSE IF n = low THEN {n} ELSE {n} \cup f[ev[n].parent]
    BY DEF Walk
  <1>7. ASSUME NEW i \in A, \A j \in A : j < i => f[rc[j].event] = Upto(j)
        PROVE  f[rc[i].event] = Upto(i)
    <2> DEFINE T == {y \in 1 .. i - 1 : Counts(rc, ev, y)}
               m == Max(T)
    <2>1. i \in 1 .. Len(rc) + 1 /\ T = {y \in A : y < i}
      BY <1>1 DEF Counting
    <2>2. T # {} => m \in T /\ m \in 1 .. Len(rc) /\ NextTo(rc, ev, m, i) /\ \A y \in T : y <= m
      <3> HIDE DEF m
      <3>1. T = {y \in 1 .. i - 1 : Counts(rc, ev, y)}
        OBVIOUS
      <3> HIDE DEF T
      <3> QED BY <2>1, <3>1, LastBeforeIs DEF m
    <2> HIDE DEF m, T
    <2>3. CASE T = {}
      <3>1. {y \in A : y <= i} = {i}
        <4>1. \A y \in A : ~(y < i)
          BY <2>1, <2>3
        <4> HIDE DEF A
        <4>2. \A y \in A : y <= i <=> y = i
          BY <1>3, <4>1
        <4> QED BY <4>2
      <3>2. Upto(i) = {rc[i].event}
        BY <3>1
      <3>3. \A y \in S : rc[i].event <= y
        <4> TAKE y \in S
        <4>1. PICK j \in A : y = rc[j].event
          OBVIOUS
        <4>2. j = i \/ i < j
          BY <1>3, <2>1, <2>3
        <4> QED BY <1>3, <1>4, <4>1, <4>2
      <3>4. rc[i].event \in S /\ low \in S /\ low <= rc[i].event /\ rc[i].event <= low
        BY <1>5, <3>3
      <3>5. rc[i].event = low
        BY <1>3, <3>4
      <3> HIDE DEF A, S, Upto
      <3> QED BY <1>3, <1>6, <3>2, <3>5
    <2>4. CASE T # {}
      <3>1. m \in A /\ m < i
        BY <2>1, <2>2, <2>4
      <3>2. rc[m].event < rc[i].event /\ rc[m].event \in S
        BY <1>4, <3>1
      <3>3. rc[i].event # low
        <4>1. low \in S /\ low <= rc[m].event
          BY <1>5, <3>1, <3>2
        <4>2. low \in Nat
          BY <1>3, <4>1
        <4> HIDE DEF A, S
        <4> QED BY <1>3, <3>1, <3>2, <4>1, <4>2
      <3>4. ev[rc[i].event].parent = rc[m].event
        BY <1>3, <2>2, <2>4 DEF ChainedIn
      <3>5. f[rc[i].event] = {rc[i].event} \cup f[rc[m].event]
        <4> HIDE DEF A
        <4> QED BY <1>3, <1>6, <3>3, <3>4
      <3>6. f[rc[m].event] = Upto(m)
        BY <1>7, <3>1
      <3>7. {y \in A : y <= i} = {y \in A : y <= m} \cup {i}
        <4>1. \A y \in A : y < i => y <= m
          BY <2>1, <2>2, <2>4
        <4>2. \A y \in A : y <= i <=> y <= m \/ y = i
          <5> HIDE DEF A
          <5> QED BY <1>3, <3>1, <4>1
        <4> HIDE DEF A
        <4> QED BY <4>2
      <3>8. Upto(i) = Upto(m) \cup {rc[i].event}
        <4> HIDE DEF A
        <4> QED BY <3>7
      <3> QED BY <3>5, <3>6, <3>8
    <2> QED BY <2>3, <2>4
  <1> HIDE DEF A, Upto
  <1>8. 0 \in G
    BY <1>3, <1>1
  <1>9. ASSUME NEW n \in Nat, n \in G PROVE n + 1 \in G
    <2> SUFFICES ASSUME NEW i \in A, i <= n + 1 PROVE f[rc[i].event] = Upto(i)
      OBVIOUS
    <2>1. \A j \in A : j < i => j <= n
      BY <1>3
    <2>2. \A j \in A : j < i => f[rc[j].event] = Upto(j)
      BY <1>9, <2>1
    <2> QED BY <1>7, <2>2
  <1> HIDE DEF G
  <1>10. \A n \in Nat : n \in G
    BY <1>8, <1>9, NatSetInduction
  <1>11. \A i \in A : i \in G /\ i <= i
    BY <1>3, <1>10
  <1>12. \A i \in A : f[rc[i].event] = Upto(i)
    BY <1>11 DEF G
  <1> QED BY <1>12 DEF A, Upto, NumbersUpto

-----------------------------------------------------------------------------
(* What the verifier computes, in these terms.                             *)

PackGood == EventsGood(events) /\ ReceiptsIn(runtime.receipts, events)

LEMMA LinkedIs ==
  ASSUME PackGood
  PROVE  Linked <=> ChainedIn(runtime.receipts, events)
  <1> DEFINE rc == runtime.receipts
             T(i) == {j \in 1 .. i - 1 : Counts(rc, events, j)}
  <1>1. ReceiptsIn(rc, events) /\ Len(rc) \in Nat /\ DOMAIN rc = 1 .. Len(rc)
    BY SequenceIs DEF PackGood, ReceiptsIn
  <1>2. \A i : AllowedBefore(i) = T(i)
    BY DEF AllowedBefore, IsAllowed, Receipts, Counts
  <1>3. ASSUME NEW i \in 1 .. Len(rc)
        PROVE  /\ T(i) # {} => /\ Max(T(i)) \in 1 .. Len(rc)
                               /\ NextTo(rc, events, Max(T(i)), i)
               /\ \A k \in 1 .. Len(rc) : NextTo(rc, events, k, i) => T(i) # {} /\ k = Max(T(i))
    <2>1. i \in 1 .. Len(rc) + 1
      BY <1>1
    <2> HIDE DEF rc
    <2> QED BY <1>1, <2>1, LastBeforeIs
  <1>4. Linked <=> \A i \in 1 .. Len(rc) : T(i) # {} =>
                      events[rc[i].event].parent = rc[Max(T(i))].event
    BY <1>1, <1>2 DEF Linked, Receipts
  <1> HIDE DEF rc, T
  <1> QED BY <1>3, <1>4 DEF ChainedIn, rc

LEMMA EndsAtHeadIs ==
  ASSUME PackGood
  PROVE  /\ FollowedBy(runtime.receipts, events, chain.head) => EndsAtHead
         /\ EndsAtHead => \/ FollowedBy(runtime.receipts, events, chain.head)
                          \/ \E t \in Range(runtime.timeline) : t.kind = "reset"
         /\ Counting(runtime.receipts, events) # {} =>
               \E k \in Counting(runtime.receipts, events) :
                  /\ \A i \in Counting(runtime.receipts, events) : i <= k
                  /\ \A n : FollowedBy(runtime.receipts, events, n) => n = runtime.receipts[k].event
  <1> DEFINE rc == runtime.receipts
             T == {j \in 1 .. (Len(rc) + 1) - 1 : Counts(rc, events, j)}
             m == Max(T)
  <1>1. ReceiptsIn(rc, events) /\ Len(rc) \in Nat /\ DOMAIN rc = 1 .. Len(rc)
    BY SequenceIs DEF PackGood, ReceiptsIn
  <1>2. T = {j \in DOMAIN rc : IsAllowed(j)} /\ T = Counting(rc, events)
    BY <1>1 DEF IsAllowed, Receipts, Counts, Counting
  <1>3. /\ T # {} => /\ m \in T /\ m \in 1 .. Len(rc) /\ NextTo(rc, events, m, Len(rc) + 1)
                     /\ \A j \in T : j <= m
        /\ \A k \in 1 .. Len(rc) : NextTo(rc, events, k, Len(rc) + 1) => T # {} /\ k = m
    <2>1. T = {j \in 1 .. (Len(rc) + 1) - 1 : Counts(rc, events, j)}
      OBVIOUS
    <2>2. Len(rc) + 1 \in 1 .. Len(rc) + 1
      BY <1>1
    <2> HIDE DEF m, T, rc
    <2>3. /\ T # {} => /\ Max(T) \in T /\ Max(T) \in 1 .. Len(rc)
                       /\ NextTo(rc, events, Max(T), Len(rc) + 1)
                       /\ \A j \in T : j <= Max(T)
          /\ \A k \in 1 .. Len(rc) : NextTo(rc, events, k, Len(rc) + 1) => T # {} /\ k = Max(T)
      <3>1. ReceiptsIn(rc, events)
        BY <1>1
      <3> QED BY <3>1, <2>1, <2>2, LastBeforeIs
    <2> QED BY <2>3 DEF m
  <1>4. EndsAtHead <=> (T # {} =>
            \/ chain.head = rc[m].event
            \/ \E t \in Range(runtime.timeline) : t.kind = "reset" /\ t.at >= events[rc[m].event].at)
    <2>1. T = {j \in DOMAIN Receipts : IsAllowed(j)}
      BY <1>2 DEF Receipts
    <2> HIDE DEF T
    <2> QED BY <2>1 DEF EndsAtHead, Receipts
  <1> HIDE DEF m, T, rc
  <1>5. FollowedBy(rc, events, chain.head) <=> (T # {} => chain.head = rc[m].event)
    BY <1>3 DEF FollowedBy
  <1>6. ASSUME Counting(rc, events) # {}
        PROVE  \E k \in Counting(rc, events) :
                  /\ \A i \in Counting(rc, events) : i <= k
                  /\ \A n : FollowedBy(rc, events, n) => n = rc[k].event
    <2>1. m \in Counting(rc, events) /\ \A i \in Counting(rc, events) : i <= m
      BY <1>2, <1>3, <1>6
    <2>2. m \in 1 .. Len(rc) /\ NextTo(rc, events, m, Len(rc) + 1)
      BY <1>2, <1>3, <1>6
    <2>3. \A n : FollowedBy(rc, events, n) => n = rc[m].event
      BY <2>2 DEF FollowedBy
    <2> QED BY <2>1, <2>3
  <1>7. FollowedBy(rc, events, chain.head) => EndsAtHead
    BY <1>4, <1>5
  <1>8. EndsAtHead => \/ FollowedBy(rc, events, chain.head)
                      \/ \E t \in Range(runtime.timeline) : t.kind = "reset"
    BY <1>4, <1>5
  <1> QED BY <1>6, <1>7, <1>8 DEF rc

\* A pack that verifies and was not reset has all of the walk from the head.
LEMMA VerifiedIs == PackGood => VerifiedIsComplete
  <1> DEFINE rc == runtime.receipts
             A == Counting(rc, events)
             allowed == {Receipts[i].event : i \in {j \in DOMAIN Receipts : IsAllowed(j)}}
             reset == \E t \in Range(runtime.timeline) : t.kind = "reset"
             W == CHOOSE f : f = [n \in Nat |-> IF n \notin DOMAIN events THEN {}
                                  ELSE IF n = Min(allowed) THEN {n} ELSE {n} \cup f[events[n].parent]]
  <1>1. VerifiedIsComplete <=> (Verifies /\ allowed # {} /\ ~reset => allowed = W[chain.head])
    BY Zenon DEF VerifiedIsComplete
  <1>2. SUFFICES ASSUME PackGood, Verifies, allowed # {}, ~reset PROVE allowed = W[chain.head]
    BY <1>1
  <1>3. Walk(W, events, Min(allowed))
    <2>1. \E f : Walk(f, events, Min(allowed))
      BY <1>2, WalkExists DEF PackGood
    <2> QED BY <2>1, Zenon DEF Walk
  <1> HIDE DEF W
  <1>4. allowed = {rc[i].event : i \in A}
    <2>1. DOMAIN rc = 1 .. Len(rc)
      BY <1>2, SequenceIs DEF PackGood, ReceiptsIn
    <2>2. {j \in DOMAIN Receipts : IsAllowed(j)} = A
      BY <2>1 DEF IsAllowed, Receipts, Counts, Counting
    <2> HIDE DEF A
    <2> QED BY <2>2 DEF Receipts
  <1>5. EventsGood(events) /\ ReceiptsIn(rc, events) /\ ChainedIn(rc, events)
    BY <1>2, LinkedIs DEF PackGood, Verifies
  <1> DEFINE low == Min(allowed)
  <1>6. Walk(W, events, low) /\ low = Min(NumbersOf(rc, events))
    BY <1>3, <1>4 DEF NumbersOf
  <1>7. \A i \in A : W[rc[i].event] = NumbersUpto(rc, events, i)
    <2> HIDE DEF low, rc
    <2> QED BY <1>5, <1>6, WalkFinds
  <1>8. PICK k \in A : /\ \A i \in A : i <= k
                       /\ \A n : FollowedBy(rc, events, n) => n = rc[k].event
    <2>1. A # {}
      BY <1>2, <1>4
    <2> QED BY <1>2, <2>1, EndsAtHeadIs
  <1>9. chain.head = rc[k].event
    BY <1>2, <1>8, EndsAtHeadIs DEF Verifies
  <1>10. {y \in A : y <= k} = A
    <2> HIDE DEF A
    <2> QED BY <1>8
  <1> HIDE DEF A, allowed, rc
  <1> QED BY <1>4, <1>7, <1>9, <1>10 DEF NumbersUpto, A

-----------------------------------------------------------------------------
(* Timeline and receipts.                                                  *)

Agrees(rt) ==
  Len(rt.receipts) < MaxReceipts =>
     \A n \in 1 .. Len(rt.timeline) : rt.timeline[n].kind \in {"allowed", "blocked"} =>
        \E i \in 1 .. Len(rt.receipts) :
           rt.receipts[i] = [id |-> rt.timeline[n].id, event |-> rt.timeline[n].cp]

PackOf(rt, ev) ==
  /\ IsSequence(rt.timeline) /\ Len(rt.timeline) <= MaxTimeline
  /\ \A n \in 1 .. Len(rt.timeline) : rt.timeline[n].cp \in 0 .. Len(ev)
  /\ ReceiptsIn(rt.receipts, ev) /\ Len(rt.receipts) <= MaxReceipts
  /\ Agrees(rt)

LEMMA AgreesIs ==
  ASSUME PackOf(runtime, events)
  PROVE  TimelineAgrees
  <1>1. DOMAIN runtime.timeline = 1 .. Len(runtime.timeline)
        /\ DOMAIN Receipts = 1 .. Len(Receipts)
    BY SequenceIs DEF PackOf, ReceiptsIn, Receipts
  <1> QED BY <1>1 DEF PackOf, Agrees, TimelineAgrees, Receipts, Range

Entry(rt, kind, cp, t) == [id |-> rt.next, kind |-> kind, cp |-> cp, at |-> t]

LEMMA LoggedPack ==
  ASSUME NEW rt, DOMAIN rt = RuntimeFields, NEW kind, NEW cp, NEW t
  PROVE  /\ Logged(rt, kind, cp, t).receipts = rt.receipts
         /\ Logged(rt, kind, cp, t).timeline =
               LastN(Append(rt.timeline, Entry(rt, kind, cp, t)), MaxTimeline)
  BY DEF Logged, RuntimeFields, Entry

LEMMA RecordedPack ==
  ASSUME NEW rt, DOMAIN rt = RuntimeFields, NEW kind, NEW cp, NEW t
  PROVE  /\ Recorded(rt, kind, cp, t).timeline = Logged(rt, kind, cp, t).timeline
         /\ Recorded(rt, kind, cp, t).receipts =
               LastN(Append(rt.receipts, [id |-> rt.next, event |-> cp]), MaxReceipts)
  <1> DEFINE l == Logged(rt, kind, cp, t)
  <1>1. /\ DOMAIN l = RuntimeFields /\ l.receipts = rt.receipts
    BY LoggedIs, LoggedPack
  <1>2. Recorded(rt, kind, cp, t) =
           [l EXCEPT !.receipts = LastN(Append(l.receipts, [id |-> rt.next, event |-> cp]), MaxReceipts)]
    BY DEF Recorded
  <1> HIDE DEF l
  <1>3. ASSUME NEW v PROVE [l EXCEPT !.receipts = v].timeline = l.timeline
                           /\ [l EXCEPT !.receipts = v].receipts = v
    BY <1>1 DEF RuntimeFields
  <1> QED BY <1>1, <1>2, <1>3 DEF l

\* What a push leaves are entries from before, and the new one.
LEMMA PushedHas ==
  ASSUME NEW s, IsSequence(s), NEW e, NEW t, Pushed(s, e, t)
  PROVE  /\ \A n \in 1 .. Len(t) : t[n] = e \/ \E k \in 1 .. Len(s) : t[n] = s[k]
         /\ Len(t) = Len(s) + 1 =>
               t[Len(s) + 1] = e /\ \A n \in 1 .. Len(s) : t[n] = s[n]
  <1>1. Len(s) \in Nat /\ Len(t) \in Nat /\ Len(t) <= Len(s) + 1
    BY SequenceIs DEF Pushed
  <1>2. \A n \in 1 .. Len(t) : t[n] = IF n = Len(t) THEN e ELSE s[n + (Len(s) + 1 - Len(t))]
    BY DEF Pushed
  <1>3. ASSUME NEW n \in 1 .. Len(t), n # Len(t)
        PROVE  n + (Len(s) + 1 - Len(t)) \in 1 .. Len(s)
    BY <1>1, <1>3
  <1>4. ASSUME Len(t) = Len(s) + 1, NEW n \in 1 .. Len(s) PROVE t[n] = s[n]
    <2>1. n \in 1 .. Len(t) /\ n # Len(t) /\ n + (Len(s) + 1 - Len(t)) = n
      BY <1>1, <1>4
    <2> QED BY <1>2, <2>1
  <1>5. Len(t) = Len(s) + 1 => t[Len(s) + 1] = e
    <2>1. Len(t) = Len(s) + 1 => Len(s) + 1 \in 1 .. Len(t)
      BY <1>1
    <2> QED BY <1>2, <2>1
  <1> QED BY <1>2, <1>3, <1>4, <1>5

LEMMA PackGrows ==
  ASSUME NEW ev, NEW more, Continues(ev, more), Len(ev) \in Nat, Len(more) \in Nat,
         NEW rt, PackOf(rt, ev)
  PROVE  PackOf(rt, more)
  <1>1. Len(ev) <= Len(more)
    BY DEF Continues
  <1>2. \A n \in 0 .. Len(ev) : n \in 0 .. Len(more)
    BY <1>1
  <1>3. ReceiptsIn(rt.receipts, more)
    BY SigningKeepsOrder DEF PackOf
  <1> QED BY <1>2, <1>3 DEF PackOf

\* An entry without a receipt.
LEMMA PackLogged ==
  ASSUME NEW ev, Len(ev) \in Nat, NEW rt, DOMAIN rt = RuntimeFields, PackOf(rt, ev),
         NEW kind, kind \notin {"allowed", "blocked"}, NEW cp \in 0 .. Len(ev), NEW t
  PROVE  PackOf(Logged(rt, kind, cp, t), ev)
  <1> DEFINE x == Logged(rt, kind, cp, t)
             e == Entry(rt, kind, cp, t)
  <1>1. x.receipts = rt.receipts /\ x.timeline = LastN(Append(rt.timeline, e), MaxTimeline)
    BY LoggedPack
  <1>2. IsSequence(rt.timeline) /\ MaxTimeline \in Nat
    BY DemoAssumption DEF PackOf
  <1>3. e.cp = cp /\ e.kind = kind
    BY DEF Entry
  <1> HIDE DEF x, e
  <1>4. Pushed(rt.timeline, e, x.timeline) /\ Len(x.timeline) <= MaxTimeline
    BY <1>1, <1>2, LastNIs
  <1>5. \A n \in 1 .. Len(x.timeline) :
           x.timeline[n] = e \/ \E k \in 1 .. Len(rt.timeline) : x.timeline[n] = rt.timeline[k]
    <2>1. IsSequence(rt.timeline) /\ Pushed(rt.timeline, e, x.timeline)
      BY <1>2, <1>4
    <2> QED BY <2>1, PushedHas
  <1>6. \A n \in 1 .. Len(x.timeline) : x.timeline[n].cp \in 0 .. Len(ev)
    BY <1>3, <1>5 DEF PackOf
  <1>7. Agrees(x)
    BY <1>1, <1>3, <1>5 DEF PackOf, Agrees
  <1> QED BY <1>1, <1>4, <1>6, <1>7 DEF PackOf, Pushed, x

\* An entry with its receipt.
LEMMA PackRecorded ==
  ASSUME NEW ev, Len(ev) \in Nat, NEW rt, DOMAIN rt = RuntimeFields, PackOf(rt, ev),
         NEW kind, NEW cp \in 1 .. Len(ev), NEW t
  PROVE  /\ PackOf(Recorded(rt, kind, cp, t), ev)
         /\ Pushed(rt.receipts, [id |-> rt.next, event |-> cp], Recorded(rt, kind, cp, t).receipts)
  <1> DEFINE x == Recorded(rt, kind, cp, t)
             e == Entry(rt, kind, cp, t)
             f == [id |-> rt.next, event |-> cp]
  <1>1. /\ x.timeline = LastN(Append(rt.timeline, e), MaxTimeline)
        /\ x.receipts = LastN(Append(rt.receipts, f), MaxReceipts)
    BY LoggedPack, RecordedPack
  <1>2. /\ IsSequence(rt.timeline) /\ MaxTimeline \in Nat
        /\ IsSequence(rt.receipts) /\ MaxReceipts \in Nat
    BY DemoAssumption DEF PackOf, ReceiptsIn
  <1>3. e.cp = cp /\ e.id = rt.next /\ f = [id |-> e.id, event |-> e.cp] /\ f.event = cp
    BY DEF Entry
  <1> HIDE DEF x, e, f
  <1>4. Pushed(rt.timeline, e, x.timeline) /\ Len(x.timeline) <= MaxTimeline
    BY <1>1, <1>2, LastNIs
  <1>5. \A n \in 1 .. Len(x.timeline) :
           x.timeline[n] = e \/ \E k \in 1 .. Len(rt.timeline) : x.timeline[n] = rt.timeline[k]
    <2>1. IsSequence(rt.timeline) /\ Pushed(rt.timeline, e, x.timeline)
      BY <1>2, <1>4
    <2> QED BY <2>1, PushedHas
  <1>6. /\ Pushed(rt.receipts, f, x.receipts) /\ Len(x.receipts) <= MaxReceipts
        /\ Len(x.receipts) = MaxReceipts \/ Len(x.receipts) = Len(rt.receipts) + 1
    <2> DEFINE y == LastN(Append(rt.receipts, f), MaxReceipts)
    <2>1. /\ Pushed(rt.receipts, f, y) /\ Len(y) <= MaxReceipts
          /\ Len(y) = MaxReceipts \/ Len(y) = Len(rt.receipts) + 1
      BY <1>2, LastNIs
    <2>2. x.receipts = y
      BY <1>1
    <2> HIDE DEF y
    <2> QED BY <2>1, <2>2
  <1>7. /\ \A n \in 1 .. Len(x.receipts) :
              x.receipts[n] = f \/ \E k \in 1 .. Len(rt.receipts) : x.receipts[n] = rt.receipts[k]
        /\ Len(x.receipts) = Len(rt.receipts) + 1 =>
              /\ x.receipts[Len(rt.receipts) + 1] = f
              /\ \A n \in 1 .. Len(rt.receipts) : x.receipts[n] = rt.receipts[n]
    BY <1>2, <1>6, PushedHas
  <1>8. \A n \in 1 .. Len(x.timeline) : x.timeline[n].cp \in 0 .. Len(ev)
    BY <1>3, <1>5 DEF PackOf
  <1>9. ReceiptsIn(x.receipts, ev)
    BY <1>3, <1>6, <1>7 DEF PackOf, ReceiptsIn, Pushed
  <1>10. Agrees(x)
    <2> SUFFICES ASSUME Len(x.receipts) < MaxReceipts,
                        NEW n \in 1 .. Len(x.timeline), x.timeline[n].kind \in {"allowed", "blocked"}
                 PROVE  \E i \in 1 .. Len(x.receipts) :
                           x.receipts[i] = [id |-> x.timeline[n].id, event |-> x.timeline[n].cp]
      BY DEF Agrees
    <2>1. /\ Len(x.receipts) = Len(rt.receipts) + 1 /\ Len(rt.receipts) \in Nat
          /\ Len(rt.receipts) < MaxReceipts
      BY <1>2, <1>6, SequenceIs
    <2>2. CASE x.timeline[n] = e
      <3>1. Len(rt.receipts) + 1 \in 1 .. Len(x.receipts)
        BY <2>1
      <3>2. x.receipts[Len(rt.receipts) + 1] = [id |-> x.timeline[n].id, event |-> x.timeline[n].cp]
        BY <1>3, <1>7, <2>1, <2>2
      <3> QED BY <3>1, <3>2
    <2>3. ASSUME NEW k \in 1 .. Len(rt.timeline), x.timeline[n] = rt.timeline[k]
          PROVE  \E i \in 1 .. Len(x.receipts) :
                           x.receipts[i] = [id |-> x.timeline[n].id, event |-> x.timeline[n].cp]
      <3>1. PICK i \in 1 .. Len(rt.receipts) :
              rt.receipts[i] = [id |-> rt.timeline[k].id, event |-> rt.timeline[k].cp]
        BY <2>1, <2>3 DEF PackOf, Agrees
      <3>2. i \in 1 .. Len(x.receipts) /\ x.receipts[i] = rt.receipts[i]
        BY <1>7, <2>1
      <3>3. x.receipts[i] = [id |-> x.timeline[n].id, event |-> x.timeline[n].cp]
        BY <2>3, <3>1, <3>2
      <3> QED BY <3>2, <3>3
    <2> QED BY <1>5, <2>2, <2>3
  <1> QED BY <1>4, <1>6, <1>8, <1>9, <1>10 DEF PackOf, Pushed, x, f

-----------------------------------------------------------------------------
(* The chain.                                                              *)

LEMMA ChainIs ==
  ASSUME NEW c
  PROVE  c \in ChainState =>
         /\ c = [head |-> c.head, active |-> c.active, nonce |-> c.nonce,
                 at |-> c.at, scopes |-> c.scopes, degraded |-> c.degraded]
         /\ c.head \in Nat /\ c.active \in Scopes \cup {NoScope} /\ c.nonce \in Nat
         /\ c.at \in Time /\ c.scopes \in [Scopes -> [nonce : Nat, at : Time]]
         /\ c.degraded \in SUBSET Scopes
  BY DEF ChainState

LEMMA GenesisIs == GenesisChain \in ChainState /\ GenesisChain.head = Genesis /\ Genesis = 0
  <1>1. Unseen \in [nonce : Nat, at : Time]
    BY DEF Unseen, Time, NoTime
  <1>2. [s \in Scopes |-> Unseen] \in [Scopes -> [nonce : Nat, at : Time]]
    BY <1>1
  <1>3. NoTime \in Time
    BY DEF Time, NoTime
  <1> HIDE DEF Time
  <1> QED BY <1>2, <1>3 DEF GenesisChain, Genesis, ChainState

LEMMA EnteredIs ==
  ASSUME chain \in ChainState, NEW s \in Scopes
  PROVE  Entered(s) \in ChainState /\ Entered(s).head = chain.head
  <1>1. CASE chain.active = s
    BY <1>1 DEF Entered
  <1>2. CASE chain.active # s
    <2> DEFINE b == [chain EXCEPT !.active = s, !.nonce = chain.scopes[s].nonce,
                                  !.at = chain.scopes[s].at]
    <2>1. chain.scopes[s].nonce \in Nat /\ chain.scopes[s].at \in Time
      BY ChainIs
    <2>2. b \in ChainState /\ b.head = chain.head
      BY <2>1 DEF ChainState
    <2>3. Entered(s) = [b EXCEPT !.degraded = @ \ {s}]
      BY <1>2 DEF Entered, BeginScope
    <2> HIDE DEF b
    <2>4. [b EXCEPT !.degraded = @ \ {s}] \in ChainState
          /\ [b EXCEPT !.degraded = @ \ {s}].head = b.head
      BY <2>2 DEF ChainState
    <2> QED BY <2>2, <2>3, <2>4
  <1> QED BY <1>1, <1>2

LEMMA RecordCpIs ==
  ASSUME NEW c \in ChainState, NEW h \in Nat, NEW n \in Nat, NEW t \in Nat
  PROVE  RecordCp(c, h, n, t) \in ChainState /\ RecordCp(c, h, n, t).head = h
  <1> DEFINE v == IF c.active = NoScope THEN c.scopes
                  ELSE [c.scopes EXCEPT ![c.active] = [nonce |-> n, at |-> t]]
  <1>1. t \in Time /\ [nonce |-> n, at |-> t] \in [nonce : Nat, at : Time]
    BY DEF Time
  <1>2. v \in [Scopes -> [nonce : Nat, at : Time]]
    BY <1>1, ChainIs
  <1>3. RecordCp(c, h, n, t) = [c EXCEPT !.head = h, !.nonce = n, !.at = t, !.scopes = v]
    BY DEF RecordCp
  <1> HIDE DEF v, Time
  <1> QED BY <1>1, <1>2, <1>3 DEF ChainState

LEMMA MarkedIs ==
  ASSUME NEW c \in ChainState, NEW S \in SUBSET Scopes
  PROVE  MarkDegraded(c, S) \in ChainState /\ MarkDegraded(c, S).head = c.head
  <1> DEFINE d == c.degraded \cup S
  <1>1. d \in SUBSET Scopes
    BY ChainIs
  <1>2. MarkDegraded(c, S) = [c EXCEPT !.degraded = d]
    BY DEF MarkDegraded
  <1> HIDE DEF d
  <1> QED BY <1>1, <1>2 DEF ChainState

-----------------------------------------------------------------------------
(* The invariant of a session.                                             *)

Places == {"idle", "install", "check", "publish", "allowed", "blocked",
           "refused", "mark", "drop", "clear"}

CredentialGood(iac, ev) == iac.scope \in DemoScopes /\ iac.parent \in 0 .. Len(ev)

ChainGood == second \in DemoScopes /\ chain \in ChainState /\ chain.head \in 0 .. Len(events)

HeldGood ==
  /\ pc \in [Requests -> Places]
  /\ \A iac \in runtime.iac : CredentialGood(iac, events)
  /\ \A r \in Requests :
        /\ \A iac \in local[r].iac : CredentialGood(iac, events)
        /\ local[r].now \in DemoScopes /\ local[r].head \in 0 .. Len(events)
        /\ pc[r] = "allowed" => /\ local[r].event \in 1 .. Len(events)
                                /\ events[local[r].event].kind = "allowed"

PackInv == EventsGood(events) /\ PackOf(runtime, events)

\* What a request that is about to push knows of the chain.
RequestInOrder(r) ==
  /\ pc[r] = "refused" => local[r].head = chain.head
  /\ pc[r] = "allowed" =>
        /\ chain.head = local[r].event
        /\ FollowedBy(runtime.receipts, events, events[local[r].event].parent)

\* As long as requests come one at a time.
InOrder ==
  ~overlapped =>
    /\ \A q, r \in Requests : pc[q] # "idle" /\ pc[r] # "idle" => q = r
    /\ ChainedIn(runtime.receipts, events)
    /\ \A r \in Requests : RequestInOrder(r)
    /\ (\A r \in Requests : pc[r] \notin {"allowed", "clear"}) =>
          FollowedBy(runtime.receipts, events, chain.head)

EvidenceInv == ChainGood /\ HeldGood /\ PackInv /\ InOrder

\* What the steps of a request have in common.
GoodMove(r, next, values) ==
  /\ Goto(r, next) /\ next \in Places
  /\ Hold(r, values) \/ (local' = local /\ values = local[r])
  /\ second' = second /\ chain' \in ChainState /\ chain'.head \in 0 .. Len(events')
  /\ EventsGood(events') /\ Continues(events, events')
  /\ \A iac \in values.iac : iac \in runtime.iac \/ iac \in local[r].iac
  /\ \A iac \in runtime'.iac : iac \in runtime.iac \/ CredentialGood(iac, events')
  /\ values.now \in DemoScopes /\ values.head \in 0 .. Len(events')
  /\ next = "allowed" => /\ values.event \in 1 .. Len(events')
                         /\ events'[values.event].kind = "allowed"
  /\ PackOf(runtime', events')

LEMMA MoveIs ==
  ASSUME RecordsOK, HeldGood, NEW r \in Requests, NEW next, NEW values, GoodMove(r, next, values)
  PROVE  /\ pc' \in [Requests -> Places]
         /\ pc'[r] = next /\ local'[r] = values
         /\ \A q \in Requests : q # r => pc'[q] = pc[q] /\ local'[q] = local[q]
  BY DEF RecordsOK, HeldGood, GoodMove, Goto, Hold

LEMMA MoveKeeps ==
  ASSUME RecordsOK, ChainGood, HeldGood, PackInv,
         NEW r \in Requests, NEW next, NEW values, GoodMove(r, next, values)
  PROVE  ChainGood' /\ HeldGood' /\ PackInv'
  <1>1. /\ pc' \in [Requests -> Places]
        /\ pc'[r] = next /\ local'[r] = values
        /\ \A q \in Requests : q # r => pc'[q] = pc[q] /\ local'[q] = local[q]
    BY MoveIs
  <1>2. /\ Len(events) \in Nat /\ Len(events') \in Nat /\ Len(events) <= Len(events')
        /\ \A n \in 1 .. Len(events) : events'[n] = events[n]
    BY SequenceIs DEF GoodMove, EventsGood, PackInv, Continues
  <1>3. \A n \in 0 .. Len(events) : n \in 0 .. Len(events')
    BY <1>2
  <1>4. \A iac : CredentialGood(iac, events) => CredentialGood(iac, events')
    BY <1>3 DEF CredentialGood
  <1>5. ChainGood'
    BY DEF ChainGood, GoodMove
  <1>6. PackInv'
    BY DEF PackInv, GoodMove
  <1>7. HeldGood'
    <2>1. \A iac \in runtime'.iac : CredentialGood(iac, events')
      BY <1>4 DEF HeldGood, GoodMove
    <2>2. ASSUME NEW q \in Requests
          PROVE  /\ \A iac \in local'[q].iac : CredentialGood(iac, events')
                 /\ local'[q].now \in DemoScopes /\ local'[q].head \in 0 .. Len(events')
                 /\ pc'[q] = "allowed" => /\ local'[q].event \in 1 .. Len(events')
                                          /\ events'[local'[q].event].kind = "allowed"
      <3>1. CASE q = r
        <4>1. \A iac \in values.iac : CredentialGood(iac, events')
          BY <1>4 DEF HeldGood, GoodMove
        <4> QED BY <1>1, <3>1, <4>1 DEF GoodMove
      <3>2. CASE q # r
        <4>1. pc[q] = "allowed" => /\ local[q].event \in 1 .. Len(events')
                                   /\ events'[local[q].event].kind = "allowed"
          BY <1>2 DEF HeldGood
        <4>2. local[q].now \in DemoScopes /\ local[q].head \in 0 .. Len(events')
              /\ \A iac \in local[q].iac : CredentialGood(iac, events')
          BY <1>3, <1>4 DEF HeldGood
        <4> QED BY <1>1, <3>2, <4>1, <4>2
      <3> QED BY <3>1, <3>2
    <2> QED BY <1>1, <2>1, <2>2 DEF HeldGood
  <1> QED BY <1>5, <1>6, <1>7

\* A step of the only request keeps the order if its request is in order after it.
LEMMA AloneKeepsOrder ==
  ASSUME RecordsOK, HeldGood, NEW r \in Requests, NEW next, NEW values, GoodMove(r, next, values),
         ~overlapped' =>
            /\ \A q \in Requests : q # r => pc[q] = "idle"
            /\ ChainedIn(runtime'.receipts, events')
            /\ next = "refused" => values.head = chain'.head
            /\ next = "allowed" =>
                  /\ chain'.head = values.event
                  /\ FollowedBy(runtime'.receipts, events', events'[values.event].parent)
            /\ next \notin {"allowed", "clear"} => FollowedBy(runtime'.receipts, events', chain'.head)
  PROVE  InOrder'
  <1>1. /\ pc'[r] = next /\ local'[r] = values
        /\ \A q \in Requests : q # r => pc'[q] = pc[q] /\ local'[q] = local[q]
    BY MoveIs
  <1>2. SUFFICES ASSUME ~overlapped'
        PROVE /\ \A p, q \in Requests : pc'[p] # "idle" /\ pc'[q] # "idle" => p = q
              /\ ChainedIn(runtime'.receipts, events')
              /\ \A q \in Requests : RequestInOrder(q)'
              /\ (\A q \in Requests : pc'[q] \notin {"allowed", "clear"}) =>
                    FollowedBy(runtime'.receipts, events', chain'.head)
    BY DEF InOrder
  <1>3. \A q \in Requests : q # r => pc'[q] = "idle"
    BY <1>1, <1>2
  <1>4. ASSUME NEW q \in Requests PROVE RequestInOrder(q)'
    <2>1. CASE q = r
      BY <1>1, <1>2, <2>1 DEF RequestInOrder
    <2>2. CASE q # r
      BY <1>3, <2>2 DEF RequestInOrder
    <2> QED BY <2>1, <2>2
  <1>5. \A p, q \in Requests : pc'[p] # "idle" /\ pc'[q] # "idle" => p = q
    BY <1>3
  <1> QED BY <1>1, <1>2, <1>4, <1>5

\* Whether a request is alone.
LEMMA AloneIs ==
  ASSUME HeldGood, InOrder, NEW r \in Requests, DemoStep(r), ~overlapped'
  PROVE  /\ \A q \in Requests : q # r => pc[q] = "idle"
         /\ pc[r] # "clear" => ~overlapped
  <1>1. CASE Issue(r) \/ Act(r) \/ Sever(r) \/ Reset(r)
    <2>1. ~overlapped /\ Busy = {}
      BY <1>1 DEF Issue, Act, Sever, Reset, Begin
    <2> QED BY <2>1 DEF Busy
  <1>2. CASE Clear(r)
    <2>1. Busy = {r} /\ pc[r] = "clear"
      BY <1>2 DEF Clear
    <2> QED BY <2>1 DEF Busy
  <1>3. CASE ~(Issue(r) \/ Act(r) \/ Sever(r) \/ Reset(r) \/ Clear(r))
    <2>1. overlapped' = overlapped /\ pc[r] # "idle"
      BY <1>3 DEF DemoStep, Install, CheckLive, Publish, Allow, AnchorBlock, Refuse, Mark, Drop
    <2> QED BY <2>1 DEF InOrder
  <1> QED BY <1>1, <1>2, <1>3

LEMMA StepKeeps ==
  ASSUME SeverInv, EvidenceInv, NEW r \in Requests, DemoStep(r),
         NEW next, NEW values, GoodMove(r, next, values),
         (~overlapped' /\ \A q \in Requests : q # r => pc[q] = "idle") =>
            /\ ChainedIn(runtime'.receipts, events')
            /\ next = "refused" => values.head = chain'.head
            /\ next = "allowed" =>
                  /\ chain'.head = values.event
                  /\ FollowedBy(runtime'.receipts, events', events'[values.event].parent)
            /\ next \notin {"allowed", "clear"} => FollowedBy(runtime'.receipts, events', chain'.head)
  PROVE  EvidenceInv'
  <1>1. RecordsOK /\ ChainGood /\ HeldGood /\ PackInv /\ InOrder
    BY DEF SeverInv, EvidenceInv
  <1>2. ChainGood' /\ HeldGood' /\ PackInv'
    BY <1>1, MoveKeeps
  <1>3. ~overlapped' => \A q \in Requests : q # r => pc[q] = "idle"
    BY <1>1, AloneIs
  <1>4. InOrder'
    BY <1>1, <1>3, AloneKeepsOrder
  <1> QED BY <1>2, <1>4 DEF EvidenceInv

\* The orderly state before the step of a request that is alone.
LEMMA BeforeStep ==
  ASSUME EvidenceInv, NEW r \in Requests, DemoStep(r), pc[r] # "clear", ~overlapped'
  PROVE  /\ ChainedIn(runtime.receipts, events) /\ RequestInOrder(r)
         /\ pc[r] # "allowed" => FollowedBy(runtime.receipts, events, chain.head)
  <1>1. HeldGood /\ InOrder
    BY DEF EvidenceInv
  <1>2. ~overlapped /\ \A q \in Requests : q # r => pc[q] = "idle"
    BY <1>1, AloneIs
  <1> QED BY <1>1, <1>2 DEF InOrder

LEMMA QuietKeeps ==
  ASSUME SeverInv, EvidenceInv, NEW r \in Requests, DemoStep(r),
         NEW next \in Places, next # "allowed", NEW values,
         pc[r] \notin {"allowed", "clear"},
         Goto(r, next), Hold(r, values) \/ (local' = local /\ values = local[r]),
         second' = second, events' = events, chain' \in ChainState, chain'.head = chain.head,
         \A iac \in values.iac : iac \in runtime.iac \/ iac \in local[r].iac,
         \A iac \in runtime'.iac : iac \in runtime.iac \/ CredentialGood(iac, events),
         values.now \in DemoScopes, values.head \in 0 .. Len(events),
         next = "refused" => values.head = chain.head,
         runtime'.receipts = runtime.receipts, PackOf(runtime', events)
  PROVE  EvidenceInv'
  <1>1. ChainGood /\ HeldGood /\ PackInv
    BY DEF EvidenceInv
  <1>2. Continues(events, events)
    BY SequenceIs DEF Continues, EventsGood, PackInv, EvidenceInv
  <1>3. GoodMove(r, next, values)
    BY <1>1, <1>2 DEF GoodMove, ChainGood, PackInv
  <1>4. ~overlapped' => /\ ChainedIn(runtime.receipts, events)
                        /\ FollowedBy(runtime.receipts, events, chain.head)
    BY BeforeStep
  <1> QED BY <1>1, <1>3, <1>4, StepKeeps

LEMMA PlacesAre ==
  {"idle", "install", "check", "publish", "allowed", "blocked", "refused", "mark", "drop", "clear"} = Places
  BY DEF Places

LEMMA NothingHeld == Nothing.iac = {} /\ Nothing.now = 0 /\ Nothing.head = 0
  BY DEF Nothing

LEMMA NewLocalHolds ==
  NewLocal.now = second /\ NewLocal.head = 0 /\ NewLocal.iac = {} /\ DOMAIN NewLocal = LocalFields
  BY DEF NewLocal, Nothing, LocalFields

LEMMA TypesOfState ==
  ASSUME SeverInv, EvidenceInv
  PROVE  /\ Len(events) \in Nat /\ 0 \in 0 .. Len(events) /\ 0 \in DemoScopes
         /\ second \in DemoScopes /\ DemoScopes \subseteq Nat /\ DemoScopes \subseteq Scopes
         /\ chain \in ChainState /\ chain.head \in 0 .. Len(events)
         /\ EventsGood(events) /\ PackOf(runtime, events)
         /\ \A r \in Requests : /\ local[r].now \in DemoScopes
                                /\ local[r].head \in 0 .. Len(events)
                                /\ DOMAIN local[r] = LocalFields
         /\ DOMAIN runtime = RuntimeFields /\ DOMAIN local = Requests
  <1>1. Len(events) \in Nat
    BY SequenceIs DEF EvidenceInv, PackInv, EventsGood
  <1>2. DemoScopes \subseteq Nat /\ 0 \in DemoScopes /\ DemoScopes \subseteq Scopes
    BY DemoAssumption DEF DemoScopes
  <1> QED BY <1>1, <1>2 DEF EvidenceInv, ChainGood, PackInv, HeldGood, SeverInv, RecordsOK

LEMMA IssueKeepsEvidence ==
  ASSUME SeverInv, EvidenceInv, NEW r \in Requests, Issue(r)
  PROVE  EvidenceInv'
  <1> DEFINE values == [NewLocal EXCEPT !.head = chain.head]
  <1>1. values.now = second /\ values.head = chain.head /\ values.iac = {}
    BY NewLocalHolds DEF LocalFields
  <1>2. /\ Goto(r, "install") /\ Hold(r, values) /\ pc[r] = "idle"
        /\ second' = second /\ events' = events /\ chain' = chain /\ runtime' = runtime
    BY DEF Issue, Begin
  <1>3. DemoStep(r)
    BY DEF DemoStep
  <1> HIDE DEF values
  <1> QED BY <1>1, <1>2, <1>3, TypesOfState, PlacesAre, QuietKeeps

LEMMA ActKeepsEvidence ==
  ASSUME SeverInv, EvidenceInv, NEW r \in Requests, Act(r)
  PROVE  EvidenceInv'
  <1>1. PICK next, values :
          /\ next \in {"check", "blocked"}
          /\ values.iac = runtime.iac /\ values.now = second /\ values.head = 0
          /\ Goto(r, next) /\ Hold(r, values)
    <2>1. PICK good \in BOOLEAN :
            LET l == [NewLocal EXCEPT !.iac = runtime.iac, !.good = good]
            IN  IF \E iac \in runtime.iac : iac.until >= second
                THEN Goto(r, "check") /\ Hold(r, l)
                ELSE Goto(r, "blocked") /\ Hold(r, [l EXCEPT !.why = "no live authorization"])
      BY DEF Act
    <2> DEFINE l == [NewLocal EXCEPT !.iac = runtime.iac, !.good = good]
               m == [l EXCEPT !.why = "no live authorization"]
    <2>2. l.iac = runtime.iac /\ l.now = second /\ l.head = 0 /\ DOMAIN l = LocalFields
      BY NewLocalHolds DEF LocalFields
    <2> HIDE DEF l
    <2>3. m.iac = runtime.iac /\ m.now = second /\ m.head = 0
      BY <2>2 DEF LocalFields
    <2> HIDE DEF m
    <2>4. \/ Goto(r, "check") /\ Hold(r, l)
          \/ Goto(r, "blocked") /\ Hold(r, m)
      BY <2>1 DEF l, m
    <2> QED BY <2>2, <2>3, <2>4
  <1>2. /\ pc[r] = "idle" /\ DemoStep(r)
        /\ second' = second /\ events' = events /\ chain' = chain /\ runtime' = runtime
    BY DEF Act, Begin, DemoStep
  <1>3. next \in Places /\ next # "allowed" /\ next # "refused"
    BY <1>1, PlacesAre
  <1> QED BY <1>1, <1>2, <1>3, TypesOfState, QuietKeeps

LEMMA SeverKeepsEvidence ==
  ASSUME SeverInv, EvidenceInv, NEW r \in Requests, Sever(r)
  PROVE  EvidenceInv'
  <1> DEFINE values == [NewLocal EXCEPT !.iac = runtime.iac]
  <1>1. values.now = second /\ values.head = 0 /\ values.iac = runtime.iac
    BY NewLocalHolds DEF LocalFields
  <1>2. /\ Goto(r, "mark") /\ Hold(r, values) /\ pc[r] = "idle" /\ DemoStep(r)
        /\ second' = second /\ events' = events /\ chain' = chain /\ runtime' = runtime
    BY DEF Sever, Begin, DemoStep
  <1> HIDE DEF values
  <1> QED BY <1>1, <1>2, TypesOfState, PlacesAre, QuietKeeps

LEMMA MiddleKeepsEvidence ==
  ASSUME SeverInv, EvidenceInv, NEW r \in Requests, CheckLive(r) \/ AnchorBlock(r) \/ Mark(r)
  PROVE  EvidenceInv'
  <1>1. /\ second' = second /\ events' = events /\ runtime' = runtime /\ DemoStep(r)
        /\ pc[r] \notin {"allowed", "clear"}
    BY DEF CheckLive, AnchorBlock, Mark, DemoStep
  <1>2. CASE CheckLive(r)
    <2>0. chain' = chain
      BY <1>2 DEF CheckLive
    <2>1. ASSUME NEW why, Goto(r, "blocked"), Hold(r, [local[r] EXCEPT !.why = why])
          PROVE  EvidenceInv'
      <3> DEFINE v == [local[r] EXCEPT !.why = why]
      <3>1. v.iac = local[r].iac /\ v.now = local[r].now /\ v.head = local[r].head
        BY TypesOfState DEF LocalFields
      <3>2. Hold(r, v)
        BY <2>1
      <3> HIDE DEF v
      <3> QED BY <1>1, <2>0, <2>1, <3>1, <3>2, TypesOfState, PlacesAre, QuietKeeps
    <2>2. ASSUME Goto(r, "publish"), local' = local
          PROVE  EvidenceInv'
      BY <1>1, <2>0, <2>2, TypesOfState, PlacesAre, QuietKeeps
    <2>3. \/ \E why : Goto(r, "blocked") /\ Hold(r, [local[r] EXCEPT !.why = why])
          \/ Goto(r, "publish") /\ local' = local
      BY <1>2 DEF CheckLive
    <2> QED BY <2>1, <2>2, <2>3
  <1>3. CASE AnchorBlock(r)
    <2> DEFINE values == [local[r] EXCEPT !.head = chain.head]
    <2>1. values.iac = local[r].iac /\ values.now = local[r].now /\ values.head = chain.head
      BY TypesOfState DEF LocalFields
    <2>2. Goto(r, "refused") /\ Hold(r, values) /\ chain' = chain
      BY <1>3 DEF AnchorBlock
    <2> HIDE DEF values
    <2> QED BY <1>1, <2>1, <2>2, TypesOfState, PlacesAre, QuietKeeps
  <1>4. CASE Mark(r)
    <2> DEFINE S == {iac.scope : iac \in local[r].iac}
    <2>1. S \in SUBSET Scopes
      BY TypesOfState DEF EvidenceInv, HeldGood, CredentialGood
    <2>2. chain' = MarkDegraded(chain, S) /\ Goto(r, "drop") /\ local' = local
      BY <1>4 DEF Mark
    <2> HIDE DEF S
    <2>3. chain' \in ChainState /\ chain'.head = chain.head
      BY <2>1, <2>2, TypesOfState, MarkedIs
    <2> QED BY <1>1, <2>2, <2>3, TypesOfState, PlacesAre, QuietKeeps
  <1> QED BY <1>2, <1>3, <1>4

Holding(rt, creds) == [rt EXCEPT !.iac = creds]

\* An issue or a sever of a session writes to the timeline only.
LEMMA LogKeepsEvidence ==
  ASSUME SeverInv, EvidenceInv, NEW r \in Requests, Install(r) \/ Drop(r)
  PROVE  EvidenceInv'
  <1>1. /\ Goto(r, "idle") /\ Hold(r, Nothing) /\ DemoStep(r)
        /\ pc[r] \notin {"allowed", "clear"}
        /\ second' = second /\ events' = events /\ chain' = chain
    BY DEF Install, Drop, Return, DemoStep
  <1>2. ASSUME NEW kind \in {"issued", "severed"}, NEW creds,
               runtime' = Holding(Logged(runtime, kind, 0, local[r].now), creds),
               \A iac \in creds : CredentialGood(iac, events)
        PROVE  EvidenceInv'
    <2> DEFINE l == Logged(runtime, kind, 0, local[r].now)
    <2>1. kind \notin {"allowed", "blocked"}
      OBVIOUS
    <2>2. PackOf(l, events) /\ l.receipts = runtime.receipts /\ DOMAIN l = RuntimeFields
      BY <2>1, TypesOfState, LoggedIs, LoggedPack, PackLogged
    <2>3. runtime' = [l EXCEPT !.iac = creds]
      BY <1>2 DEF Holding
    <2> HIDE DEF l
    <2>4. runtime'.receipts = l.receipts /\ runtime'.timeline = l.timeline /\ runtime'.iac = creds
      BY <2>2, <2>3 DEF RuntimeFields
    <2>5. PackOf(runtime', events)
      BY <2>2, <2>4 DEF PackOf, Agrees
    <2> QED BY <1>1, <1>2, <2>2, <2>4, <2>5, NothingHeld, TypesOfState, PlacesAre, QuietKeeps
  <1>3. CASE Install(r)
    <2> DEFINE iac == [scope |-> local[r].now, parent |-> local[r].head,
                       until |-> local[r].now + Ttl, id |-> runtime.next]
    <2>1. runtime' = Holding(Logged(runtime, "issued", 0, local[r].now), {iac})
      BY <1>3 DEF Install, Holding
    <2>2. iac.scope \in DemoScopes /\ iac.parent \in 0 .. Len(events)
      BY TypesOfState
    <2> HIDE DEF iac
    <2>3. \A c \in {iac} : CredentialGood(c, events)
      BY <2>2 DEF CredentialGood
    <2> QED BY <1>2, <2>1, <2>3
  <1>4. CASE Drop(r)
    <2>1. runtime' = Holding(Logged(runtime, "severed", 0, local[r].now), {})
      BY <1>4 DEF Drop, Holding
    <2> QED BY <1>2, <2>1
  <1> QED BY <1>3, <1>4

LEMMA PublishKeepsEvidence ==
  ASSUME SeverInv, EvidenceInv, NEW r \in Requests, Publish(r)
  PROVE  EvidenceInv'
  <1> DEFINE iac == Iac(r)
             c == Entered(iac.scope)
             event == [kind |-> "allowed", parent |-> NextParent(c, iac.parent), iac |-> iac,
                       nonce |-> c.nonce + 1, at |-> local[r].now]
             h == HashOf(event)
             values == [local[r] EXCEPT !.event = h]
  <1>1. /\ second' = second /\ runtime' = runtime /\ DemoStep(r) /\ pc[r] = "publish"
        /\ \/ /\ events' = Signed(event)
              /\ chain' = RecordCp(c, h, c.nonce + 1, local[r].now)
              /\ Goto(r, "allowed") /\ Hold(r, values)
           \/ chain' = c /\ Goto(r, "idle") /\ Hold(r, Nothing) /\ events' = events
    BY DEF Publish, Return, DemoStep
  <1>2. iac \in local[r].iac
    BY <1>1 DEF SeverInv, HoldsOne, Iac
  <1>3. iac.scope \in Scopes /\ iac.parent \in 0 .. Len(events)
    BY <1>2, TypesOfState DEF EvidenceInv, HeldGood, CredentialGood
  <1> HIDE DEF iac
  <1>4. c \in ChainState /\ c.head = chain.head /\ c.nonce \in Nat
    BY <1>3, TypesOfState, EnteredIs, ChainIs
  <1> HIDE DEF c
  <1>5. event.parent \in 0 .. Len(events) /\ event.kind = "allowed"
        /\ event.parent = IF chain.head = 0 THEN iac.parent ELSE chain.head
    BY <1>3, <1>4, TypesOfState DEF NextParent, Genesis
  <1> HIDE DEF event
  <1>6. CASE /\ events' = Signed(event)
             /\ chain' = RecordCp(c, h, c.nonce + 1, local[r].now)
             /\ Goto(r, "allowed") /\ Hold(r, values)
    <2>1. /\ EventsGood(events') /\ Continues(events, events')
          /\ h \in 1 .. Len(events') /\ events'[h] = event
      BY <1>5, <1>6, TypesOfState, SignedIs
    <2> HIDE DEF h
    <2>2. Len(events') \in Nat /\ h \in Nat /\ h \in 0 .. Len(events') /\ Len(events) <= Len(events')
      BY <2>1, SequenceIs DEF EventsGood, Continues
    <2>3. chain' \in ChainState /\ chain'.head = h
      <3> DEFINE k == c.nonce + 1
                 t == local[r].now
      <3>1. k \in Nat /\ t \in Nat
        BY <1>4, TypesOfState
      <3>2. chain' = RecordCp(c, h, k, t)
        BY <1>6
      <3> HIDE DEF k, t
      <3>3. c \in ChainState /\ h \in Nat
        BY <1>4, <2>2
      <3>4. RecordCp(c, h, k, t) \in ChainState /\ RecordCp(c, h, k, t).head = h
        BY <3>1, <3>3, RecordCpIs, Zenon
      <3> QED BY <3>2, <3>4
    <2>4. values.iac = local[r].iac /\ values.now = local[r].now /\ values.head = local[r].head
          /\ values.event = h
      BY TypesOfState DEF LocalFields
    <2> HIDE DEF values
    <2>5. PackOf(runtime', events')
      BY <1>1, <2>1, <2>2, TypesOfState, PackGrows
    <2>6. values.head \in 0 .. Len(events')
      <3>1. local[r].head \in 0 .. Len(events)
        BY TypesOfState
      <3> QED BY <2>2, <2>4, <3>1
    <2>7. GoodMove(r, "allowed", values)
      BY <1>1, <1>5, <1>6, <2>1, <2>2, <2>3, <2>4, <2>5, <2>6, TypesOfState, PlacesAre DEF GoodMove
    <2>8. ASSUME ~overlapped'
          PROVE  /\ ChainedIn(runtime'.receipts, events')
                 /\ FollowedBy(runtime'.receipts, events', events'[h].parent)
      <3> DEFINE rc == runtime.receipts
      <3>1. ChainedIn(rc, events) /\ FollowedBy(rc, events, chain.head)
        BY <1>1, <2>8, BeforeStep
      <3>2. ReceiptsIn(rc, events)
        BY TypesOfState DEF PackOf
      <3>3. FollowedBy(rc, events, event.parent)
        <4>1. \A k \in 1 .. Len(rc) : rc[k].event # 0
          BY <3>2, TypesOfState DEF ReceiptsIn
        <4> HIDE DEF rc
        <4>2. CASE chain.head = 0
          BY <3>1, <4>1, <4>2 DEF FollowedBy
        <4>3. CASE chain.head # 0
          BY <1>5, <3>1, <4>3
        <4> QED BY <4>2, <4>3
      <3>4. ChainedIn(rc, events') /\ FollowedBy(rc, events', event.parent)
        <4> HIDE DEF rc
        <4> QED BY <2>1, <2>2, <3>1, <3>2, <3>3, TypesOfState, SigningKeepsOrder
      <3> QED BY <1>1, <2>1, <3>4
    <2> QED BY <1>1, <2>3, <2>4, <2>7, <2>8, StepKeeps
  <1>7. CASE chain' = c /\ Goto(r, "idle") /\ Hold(r, Nothing) /\ events' = events
    BY <1>1, <1>4, <1>7, NothingHeld, TypesOfState, PlacesAre, QuietKeeps
  <1> QED BY <1>1, <1>6, <1>7

LEMMA AllowKeepsEvidence ==
  ASSUME SeverInv, EvidenceInv, NEW r \in Requests, Allow(r)
  PROVE  EvidenceInv'
  <1> DEFINE cp == local[r].event
             x == [id |-> runtime.next, event |-> cp]
             rc == runtime.receipts
  <1>1. /\ second' = second /\ events' = events /\ chain' = chain /\ DemoStep(r)
        /\ runtime' = Recorded(runtime, "allowed", cp, local[r].now)
        /\ Goto(r, "idle") /\ Hold(r, Nothing) /\ pc[r] = "allowed"
    BY DEF Allow, Return, DemoStep
  <1>2. cp \in 1 .. Len(events) /\ events[cp].kind = "allowed" /\ x.event = cp
    BY <1>1 DEF EvidenceInv, HeldGood
  <1>3. /\ PackOf(runtime', events) /\ Pushed(rc, x, runtime'.receipts)
        /\ runtime'.iac = runtime.iac
    BY <1>1, <1>2, TypesOfState, PackRecorded, RecordedIs
  <1> HIDE DEF x
  <1>4. Continues(events, events)
    BY TypesOfState DEF Continues
  <1>5. GoodMove(r, "idle", Nothing)
    BY <1>1, <1>3, <1>4, NothingHeld, TypesOfState, PlacesAre DEF GoodMove
  <1>6. ASSUME ~overlapped'
        PROVE  /\ ChainedIn(runtime'.receipts, events')
               /\ FollowedBy(runtime'.receipts, events', chain'.head)
    <2>1. ChainedIn(rc, events) /\ chain.head = cp /\ FollowedBy(rc, events, events[cp].parent)
      BY <1>1, <1>6, BeforeStep DEF RequestInOrder
    <2>2. ReceiptsIn(rc, events)
      BY TypesOfState DEF PackOf
    <2>3. ChainedIn(runtime'.receipts, events) /\ FollowedBy(runtime'.receipts, events, x.event)
      <3> HIDE DEF rc, cp
      <3> QED BY <1>2, <1>3, <2>1, <2>2, TypesOfState, PushKeepsOrder
    <2> QED BY <1>1, <1>2, <2>1, <2>3
  <1> QED BY <1>1, <1>5, <1>6, StepKeeps

LEMMA RefuseKeepsEvidence ==
  ASSUME SeverInv, EvidenceInv, NEW r \in Requests, Refuse(r)
  PROVE  EvidenceInv'
  <1> DEFINE event == [kind |-> "blocked", parent |-> local[r].head, iac |-> local[r].iac,
                       nonce |-> 0, at |-> local[r].now, why |-> local[r].why]
             h == HashOf(event)
             x == [id |-> runtime.next, event |-> h]
             rc == runtime.receipts
  <1>1. /\ second' = second /\ chain' = chain /\ DemoStep(r)
        /\ events' = Signed(event)
        /\ runtime' = Recorded(runtime, "blocked", h, local[r].now)
        /\ Goto(r, "idle") /\ Hold(r, Nothing) /\ pc[r] = "refused"
    BY DEF Refuse, Return, DemoStep
  <1>2. event.parent = local[r].head /\ event.kind = "blocked" /\ event.parent \in 0 .. Len(events)
    BY TypesOfState
  <1> HIDE DEF event
  <1>3. /\ EventsGood(events') /\ Continues(events, events')
        /\ h \in 1 .. Len(events') /\ events'[h] = event
    BY <1>1, <1>2, TypesOfState, SignedIs
  <1> HIDE DEF h
  <1>4. Len(events') \in Nat /\ Len(events) <= Len(events')
    BY <1>3, SequenceIs DEF EventsGood, Continues
  <1>5. PackOf(runtime, events')
    BY <1>3, <1>4, TypesOfState, PackGrows
  <1>6. /\ PackOf(runtime', events') /\ Pushed(rc, x, runtime'.receipts)
        /\ runtime'.iac = runtime.iac
    BY <1>1, <1>3, <1>4, <1>5, TypesOfState, PackRecorded, RecordedIs
  <1>7. x.event = h
    OBVIOUS
  <1> HIDE DEF x
  <1>8. chain'.head \in 0 .. Len(events') /\ 0 \in 0 .. Len(events')
    <2>1. chain.head \in 0 .. Len(events)
      BY TypesOfState
    <2> QED BY <1>1, <1>4, <2>1
  <1>9. GoodMove(r, "idle", Nothing)
    BY <1>1, <1>3, <1>6, <1>8, NothingHeld, TypesOfState, PlacesAre DEF GoodMove
  <1>10. ASSUME ~overlapped'
         PROVE  /\ ChainedIn(runtime'.receipts, events')
                /\ FollowedBy(runtime'.receipts, events', chain'.head)
    <2>1. ChainedIn(rc, events) /\ local[r].head = chain.head /\ FollowedBy(rc, events, chain.head)
      BY <1>1, <1>10, BeforeStep DEF RequestInOrder
    <2>2. ReceiptsIn(rc, events)
      BY TypesOfState DEF PackOf
    <2> HIDE DEF rc
    <2>3. ReceiptsIn(rc, events') /\ ChainedIn(rc, events') /\ FollowedBy(rc, events', chain.head)
      BY <1>3, <1>4, <2>1, <2>2, TypesOfState, SigningKeepsOrder
    <2>4. events'[x.event].parent = chain.head /\ events'[x.event].kind = "blocked"
      BY <1>2, <1>3, <1>7, <2>1
    <2>5. /\ ChainedIn(runtime'.receipts, events')
          /\ FollowedBy(runtime'.receipts, events', events'[x.event].parent)
      BY <1>3, <1>4, <1>6, <1>7, <2>3, <2>4, PushKeepsOrder
    <2> QED BY <1>1, <2>4, <2>5
  <1> QED BY <1>1, <1>9, <1>10, StepKeeps

LEMMA ResetKeepsEvidence ==
  ASSUME SeverInv, EvidenceInv, NEW r \in Requests, Reset(r)
  PROVE  EvidenceInv'
  <1>1. /\ second' = second /\ events' = events /\ runtime' = runtime /\ DemoStep(r)
        /\ chain' = GenesisChain /\ Goto(r, "clear") /\ local' = local /\ pc[r] = "idle"
    BY DEF Reset, Begin, DemoStep
  <1>2. Continues(events, events)
    BY TypesOfState DEF Continues
  <1>3. GoodMove(r, "clear", local[r])
    BY <1>1, <1>2, GenesisIs, TypesOfState, PlacesAre DEF GoodMove
  <1>4. ~overlapped' => ChainedIn(runtime'.receipts, events')
    BY <1>1, BeforeStep
  <1> QED BY <1>1, <1>3, <1>4, StepKeeps

LEMMA ClearKeepsEvidence ==
  ASSUME SeverInv, EvidenceInv, NEW r \in Requests, Clear(r)
  PROVE  EvidenceInv'
  <1> DEFINE rt == NewRuntime(runtime.next)
  <1>1. /\ second' = second /\ events' = events /\ chain' = chain /\ DemoStep(r)
        /\ runtime' = Logged(rt, "reset", 0, second) /\ Goto(r, "idle") /\ Hold(r, Nothing)
    BY DEF Clear, Return, DemoStep
  <1>2. DOMAIN rt = RuntimeFields /\ rt.timeline = <<>> /\ rt.receipts = <<>> /\ rt.iac = {}
    BY DEF NewRuntime, RuntimeFields
  <1> HIDE DEF rt
  <1>3. IsSequence(<<>>) /\ Len(<<>>) = 0 /\ 1 .. 0 = {}
    BY EmptyIs
  <1>4. PackOf(rt, events)
    BY <1>2, <1>3, DemoAssumption DEF PackOf, ReceiptsIn, Agrees
  <1>5. "reset" \notin {"allowed", "blocked"}
    OBVIOUS
  <1>6. PackOf(runtime', events) /\ runtime'.receipts = <<>> /\ runtime'.iac = {}
    BY <1>1, <1>2, <1>4, <1>5, TypesOfState, LoggedIs, LoggedPack, PackLogged
  <1>7. Continues(events, events)
    BY TypesOfState DEF Continues
  <1>8. GoodMove(r, "idle", Nothing)
    BY <1>1, <1>6, <1>7, NothingHeld, TypesOfState, PlacesAre DEF GoodMove
  <1>9. /\ ChainedIn(runtime'.receipts, events')
        /\ FollowedBy(runtime'.receipts, events', chain'.head)
    BY <1>3, <1>6 DEF ChainedIn, FollowedBy
  <1> QED BY <1>1, <1>8, <1>9, StepKeeps

LEMMA EvidenceNext == SeverInv /\ EvidenceInv /\ [DemoNext]_demoVars => EvidenceInv'
  <1> SUFFICES ASSUME SeverInv, EvidenceInv, [DemoNext]_demoVars PROVE EvidenceInv'
    OBVIOUS
  <1>1. CASE UNCHANGED demoVars
    BY <1>1 DEF demoVars, EvidenceInv, ChainGood, HeldGood, PackInv, InOrder, RequestInOrder
  <1>2. CASE Wait
    <2>1. second' \in DemoScopes
      BY <1>2, TypesOfState, DemoAssumption DEF Wait, DemoScopes
    <2> QED BY <1>2, <2>1 DEF Wait, EvidenceInv, ChainGood, HeldGood, PackInv, InOrder, RequestInOrder
  <1>3. ASSUME NEW r \in Requests, DemoStep(r) PROVE EvidenceInv'
    BY <1>3, IssueKeepsEvidence, ActKeepsEvidence, SeverKeepsEvidence, MiddleKeepsEvidence,
       LogKeepsEvidence, PublishKeepsEvidence, AllowKeepsEvidence, RefuseKeepsEvidence,
       ResetKeepsEvidence, ClearKeepsEvidence
       DEF DemoStep
  <1> QED BY <1>1, <1>2, <1>3 DEF DemoNext

LEMMA EvidenceInit == DemoInit => EvidenceInv
  <1> SUFFICES ASSUME DemoInit PROVE EvidenceInv
    OBVIOUS
  <1>1. /\ second = 0 /\ chain = GenesisChain /\ events = <<>>
        /\ pc = [r \in Requests |-> "idle"] /\ local = [r \in Requests |-> Nothing]
        /\ runtime.iac = {} /\ runtime.timeline = <<>> /\ runtime.receipts = <<>>
    BY DEF DemoInit, NewRuntime
  <1>2. IsSequence(<<>>) /\ Len(<<>>) = 0 /\ 1 .. 0 = {} /\ 0 \in DemoScopes
    BY EmptyIs, DemoAssumption DEF DemoScopes
  <1>3. ChainGood
    BY <1>1, <1>2, GenesisIs DEF ChainGood
  <1>4. HeldGood
    BY <1>1, <1>2, NothingHeld, PlacesAre DEF HeldGood
  <1>5. EventsGood(events)
    BY <1>1, <1>2 DEF EventsGood
  <1>6. PackOf(runtime, events)
    BY <1>1, <1>2, DemoAssumption DEF PackOf, ReceiptsIn, Agrees
  <1>7. InOrder
    BY <1>1, <1>2 DEF InOrder, RequestInOrder, ChainedIn, FollowedBy
  <1> QED BY <1>3, <1>4, <1>5, <1>6, <1>7 DEF EvidenceInv, PackInv

LEMMA EvidenceAlways == DemoSpec => [](SeverInv /\ EvidenceInv)
  <1>1. DemoInit => SeverInv /\ EvidenceInv
    BY SeverInit, EvidenceInit
  <1>2. SeverInv /\ EvidenceInv /\ [DemoNext]_demoVars => (SeverInv /\ EvidenceInv)'
    BY SeverNext, EvidenceNext
  <1> QED BY <1>1, <1>2, PTL DEF DemoSpec

\* The pack of a visitor whose requests came one at a time verifies, through
\* severs, resets, refusals and dropped receipts, and a pack that verifies and
\* was not reset has every action since its first allowed receipt, however the
\* requests interleaved (demo.rs: verify_evidence_pack_pinned), for any requests,
\* lifetimes and lengths of timeline and receipts.
THEOREM EvidenceCanBeTrusted == DemoSpec => []EvidenceIsSound
  <1>1. SeverInv /\ EvidenceInv => EvidenceIsSound
    <2> SUFFICES ASSUME SeverInv, EvidenceInv PROVE EvidenceIsSound
      OBVIOUS
    <2>1. PackGood /\ PackOf(runtime, events)
      BY TypesOfState DEF PackGood, PackOf
    <2>2. VerifiedIsComplete
      BY <2>1, VerifiedIs
    <2>3. ASSUME ~overlapped, Busy = {} PROVE Verifies
      <3>1. \A r \in Requests : pc[r] = "idle"
        BY <2>3 DEF Busy
      <3>2. ChainedIn(runtime.receipts, events) /\ FollowedBy(runtime.receipts, events, chain.head)
        BY <2>3, <3>1 DEF EvidenceInv, InOrder
      <3> QED BY <2>1, <3>2, LinkedIs, EndsAtHeadIs, AgreesIs DEF Verifies
    <2> QED BY <2>2, <2>3 DEF EvidenceIsSound, HonestPackVerifies
  <1> QED BY <1>1, EvidenceAlways, PTL

LEMMA DemoTypes == SeverInv /\ EvidenceInv => DemoTypeOK
  <1> SUFFICES ASSUME SeverInv, EvidenceInv PROVE DemoTypeOK
    OBVIOUS
  <1>1. PackOf(runtime, events) /\ chain \in ChainState /\ pc \in [Requests -> Places]
        /\ DOMAIN events = 1 .. Len(events)
    BY TypesOfState, SequenceIs DEF EvidenceInv, HeldGood, EventsGood
  <1>2. DOMAIN runtime.timeline = 1 .. Len(runtime.timeline)
        /\ DOMAIN runtime.receipts = 1 .. Len(runtime.receipts)
    BY <1>1, SequenceIs DEF PackOf, ReceiptsIn
  <1>3. \A t \in Range(runtime.timeline) : t.cp \in 0 .. Len(events)
    BY <1>1, <1>2 DEF PackOf, Range
  <1>4. \A i \in DOMAIN Receipts : Receipts[i].event \in DOMAIN events
    BY <1>1, <1>2 DEF PackOf, ReceiptsIn, Receipts
  <1> QED BY <1>1, <1>3, <1>4 DEF DemoTypeOK, PackOf, Places

\* Every variable of a session keeps its type, the timeline and the receipts
\* their limits, and receipts name signed events (demo.rs: DemoRuntime).
THEOREM DemoTypesHold == DemoSpec => []DemoTypeOK
  <1> QED BY DemoTypes, EvidenceAlways, PTL

-----------------------------------------------------------------------------
(* The types of the parts.                                                 *)

\* Requests that have arrived and are not counted yet.
UnderWay == {t \in Tabs : place[t] # "idle"}

Spots == {"idle", "session", "rate", "rate_new"}

\* Every request is counted once, so a window has counted no more than what has
\* arrived and is not under way.
FrontInv ==
  /\ clock \in Nat /\ created \in Nat /\ begun \in 0 .. MaxVisits
  /\ DOMAIN sessions \subseteq 1 .. created /\ Cardinality(DOMAIN sessions) <= MaxSessions
  /\ cookie \in [Browsers -> 0 .. created] /\ sent \in [Tabs -> 0 .. created]
  /\ place \in [Tabs -> Spots]
  /\ now \in [Tabs -> Int] /\ \A t \in Tabs : now[t] \in 0 .. clock
  /\ IsFiniteSet(UnderWay) /\ Cardinality(UnderWay) <= begun
  /\ \A w \in window : \E from \in 0 .. clock, n \in Nat \ {0} :
        w = [from |-> from, count |-> n] /\ n + Cardinality(UnderWay) <= begun

LEMMA FrontStart == clock = 0 /\ FrontInit => FrontInv
  <1> SUFFICES ASSUME clock = 0, FrontInit PROVE FrontInv
    OBVIOUS
  <1>1. UnderWay = {}
    BY DEF FrontInit, UnderWay
  <1>2. DOMAIN sessions = {}
    BY DEF FrontInit
  <1>3. IsFiniteSet({}) /\ Cardinality({}) = 0
    BY FS_EmptySet
  <1> QED BY <1>1, <1>2, <1>3, FrontAssumption DEF FrontAssumption, FrontInit, FrontInv, Spots

\* The table of sessions stays within its bound.
LEMMA TableIs ==
  ASSUME FrontInv
  PROVE  \A s : /\ Current(s) \subseteq DOMAIN sessions /\ IsFiniteSet(Current(s))
                /\ Cardinality(Current(s)) \in Nat /\ Cardinality(Current(s)) <= MaxSessions
  <1>0. MaxSessions \in Nat \ {0} /\ created \in Nat
    BY FrontAssumption DEF FrontAssumption, FrontInv
  <1>1. IsFiniteSet(1 .. created)
    BY <1>0, FS_Interval
  <1>2. IsFiniteSet(DOMAIN sessions) /\ Cardinality(DOMAIN sessions) \in Nat
        /\ Cardinality(DOMAIN sessions) <= MaxSessions
    BY <1>1, FS_Subset, FS_CardinalityType DEF FrontInv
  <1>3. ASSUME NEW s PROVE /\ Current(s) \subseteq DOMAIN sessions /\ IsFiniteSet(Current(s))
                           /\ Cardinality(Current(s)) \in Nat /\ Cardinality(Current(s)) <= MaxSessions
    <2>1. Current(s) \subseteq DOMAIN sessions
      BY DEF Current
    <2>2. IsFiniteSet(Current(s)) /\ Cardinality(Current(s)) <= Cardinality(DOMAIN sessions)
      BY <1>2, <2>1, FS_Subset
    <2>3. Cardinality(Current(s)) \in Nat
      BY <2>2, FS_CardinalityType
    <2> QED BY <1>0, <1>2, <2>1, <2>2, <2>3
  <1> QED BY <1>3

LEMMA WithOnlyIs ==
  ASSUME NEW S, NEW x, NEW v, sessions' = With(Only(sessions, S), x, v)
  PROVE  DOMAIN sessions' = (DOMAIN sessions \cap S) \cup {x}
  BY DEF With, Only

\* A request that goes from one place to another and stays under way.
LEMMA PlacesMove ==
  ASSUME FrontInv, NEW t \in Tabs, NEW spot \in Spots, place' = [place EXCEPT ![t] = spot]
  PROVE  /\ place' \in [Tabs -> Spots]
         /\ place[t] # "idle" /\ spot # "idle" => UnderWay' = UnderWay
         /\ place[t] = "idle" /\ spot # "idle" =>
              /\ IsFiniteSet(UnderWay') /\ Cardinality(UnderWay') = Cardinality(UnderWay) + 1
         /\ place[t] # "idle" /\ spot = "idle" =>
              /\ IsFiniteSet(UnderWay') /\ Cardinality(UnderWay') = Cardinality(UnderWay) - 1
              /\ Cardinality(UnderWay') \in Nat
         /\ Cardinality(UnderWay) \in Nat
  <1>1. place' \in [Tabs -> Spots] /\ place'[t] = spot /\ \A u \in Tabs \ {t} : place'[u] = place[u]
    BY DEF FrontInv
  <1>2. IsFiniteSet(UnderWay) /\ Cardinality(UnderWay) \in Nat
    BY FS_CardinalityType DEF FrontInv
  <1>3. ASSUME place[t] # "idle", spot # "idle" PROVE UnderWay' = UnderWay
    BY <1>1, <1>3 DEF UnderWay
  <1>4. ASSUME place[t] = "idle", spot # "idle"
        PROVE  IsFiniteSet(UnderWay') /\ Cardinality(UnderWay') = Cardinality(UnderWay) + 1
    <2>1. UnderWay' = UnderWay \cup {t} /\ t \notin UnderWay
      BY <1>1, <1>4 DEF UnderWay
    <2> QED BY <1>2, <2>1, FS_AddElement
  <1>5. ASSUME place[t] # "idle", spot = "idle"
        PROVE  /\ IsFiniteSet(UnderWay') /\ Cardinality(UnderWay') = Cardinality(UnderWay) - 1
               /\ Cardinality(UnderWay') \in Nat
    <2>1. UnderWay' = UnderWay \ {t} /\ t \in UnderWay
      BY <1>1, <1>5 DEF UnderWay
    <2>2. IsFiniteSet(UnderWay') /\ Cardinality(UnderWay') = Cardinality(UnderWay) - 1
      BY <1>2, <2>1, FS_RemoveElement
    <2> QED BY <2>2, FS_CardinalityType
  <1> QED BY <1>1, <1>2, <1>3, <1>4, <1>5

LEMMA ArriveKeepsFront ==
  ASSUME FrontInv, NEW t \in Tabs, Arrive(t), UNCHANGED clock
  PROVE  FrontInv'
  <1> DEFINE c == Cardinality(UnderWay)
  <1>1. /\ place[t] = "idle" /\ begun < MaxVisits /\ begun' = begun + 1
        /\ place' = [place EXCEPT ![t] = "session"]
        /\ now' = [now EXCEPT ![t] = clock]
        /\ sent' = [sent EXCEPT ![t] = cookie[BrowserOf[t]]]
        /\ UNCHANGED <<sessions, cookie, window, created>>
    BY DEF Arrive
  <1>2. "session" \in Spots /\ MaxVisits \in Nat /\ BrowserOf[t] \in Browsers
    BY FrontAssumption DEF Spots, FrontAssumption
  <1>3. place' \in [Tabs -> Spots] /\ IsFiniteSet(UnderWay') /\ Cardinality(UnderWay') = c + 1 /\ c \in Nat
    BY <1>1, <1>2, PlacesMove
  <1> HIDE DEF c
  <1>4. c <= begun /\ begun' \in 0 .. MaxVisits /\ begun \in Nat
    BY <1>1, <1>2 DEF FrontInv, c
  <1>5. \A w \in window' : \E from \in 0 .. clock', n \in Nat \ {0} :
          w = [from |-> from, count |-> n] /\ n + Cardinality(UnderWay') <= begun'
    <2> SUFFICES ASSUME NEW w \in window
                 PROVE  \E from \in 0 .. clock, n \in Nat \ {0} :
                          w = [from |-> from, count |-> n] /\ n + (c + 1) <= begun + 1
      BY <1>1, <1>3
    <2>1. PICK from \in 0 .. clock, n \in Nat \ {0} :
            w = [from |-> from, count |-> n] /\ n + c <= begun
      BY DEF FrontInv, c
    <2>2. n + (c + 1) <= begun + 1
      BY <1>3, <1>4, <2>1
    <2> QED BY <2>1, <2>2
  <1>6. now' \in [Tabs -> Int] /\ \A u \in Tabs : now'[u] \in 0 .. clock'
    BY <1>1 DEF FrontInv
  <1>7. sent' \in [Tabs -> 0 .. created']
    BY <1>1, <1>2 DEF FrontInv
  <1>8. Cardinality(UnderWay') <= begun'
    BY <1>1, <1>3, <1>4
  <1> QED BY <1>1, <1>3, <1>4, <1>5, <1>6, <1>7, <1>8 DEF FrontInv, UnderWay

LEMMA FindKeepsFront ==
  ASSUME FrontInv, NEW t \in Tabs, FindSession(t), UNCHANGED clock
  PROVE  FrontInv'
  <1>1. /\ place[t] = "session" /\ sent[t] \in Current(now[t])
        /\ sessions' = With(Only(sessions, Current(now[t])), sent[t], now[t])
        /\ place' = [place EXCEPT ![t] = "rate"]
        /\ UNCHANGED <<cookie, window, now, sent, begun, created>>
    BY DEF FindSession
  <1>2. "rate" \in Spots
    BY DEF Spots
  <1>3. place' \in [Tabs -> Spots] /\ UnderWay' = UnderWay
    BY <1>1, <1>2, PlacesMove
  <1>4. DOMAIN sessions' = Current(now[t])
    <2>1. DOMAIN sessions' = (DOMAIN sessions \cap Current(now[t])) \cup {sent[t]}
      BY <1>1, WithOnlyIs
    <2>2. Current(now[t]) \subseteq DOMAIN sessions
      BY TableIs
    <2> QED BY <1>1, <2>1, <2>2
  <1>5. DOMAIN sessions' \subseteq 1 .. created /\ Cardinality(DOMAIN sessions') <= MaxSessions
    BY <1>4, TableIs DEF FrontInv
  <1> QED BY <1>1, <1>3, <1>5 DEF FrontInv

LEMMA CreateKeepsFront ==
  ASSUME FrontInv, NEW t \in Tabs, CreateSession(t), UNCHANGED clock
  PROVE  FrontInv'
  <1> DEFINE S == Current(now[t])
  <1>1. PICK oldest \in Evictable(S) :
          sessions' = With(Only(sessions, S \ oldest), created + 1, now[t])
    BY DEF CreateSession
  <1>2. /\ place[t] = "session" /\ created' = created + 1
        /\ sent' = [sent EXCEPT ![t] = created + 1]
        /\ place' = [place EXCEPT ![t] = "rate_new"]
        /\ UNCHANGED <<cookie, window, now, begun>>
    BY DEF CreateSession
  <1>3. "rate_new" \in Spots /\ created \in Nat /\ MaxSessions \in Nat \ {0}
    BY FrontAssumption DEF FrontAssumption, Spots, FrontInv
  <1>4. place' \in [Tabs -> Spots] /\ UnderWay' = UnderWay
    BY <1>2, <1>3, PlacesMove
  <1>5. S \subseteq DOMAIN sessions /\ IsFiniteSet(S) /\ Cardinality(S) \in Nat /\ Cardinality(S) <= MaxSessions
    BY TableIs
  <1>6. DOMAIN sessions' = (S \ oldest) \cup {created + 1}
    <2>1. DOMAIN sessions' = (DOMAIN sessions \cap (S \ oldest)) \cup {created + 1}
      BY <1>1, WithOnlyIs
    <2> QED BY <1>5, <2>1
  <1>7. S \subseteq 1 .. created
    BY <1>5 DEF FrontInv
  <1>8. DOMAIN sessions' \subseteq 1 .. created'
    BY <1>2, <1>3, <1>6, <1>7
  <1> HIDE DEF S
  <1>9. IsFiniteSet(S \ oldest) /\ Cardinality(S \ oldest) \in Nat /\ Cardinality(S \ oldest) < MaxSessions
    <2>1. CASE Cardinality(S) < MaxSessions
      <3>1. oldest = {}
        BY <1>1, <2>1 DEF Evictable
      <3>2. S \ oldest = S
        BY <3>1
      <3> QED BY <1>5, <2>1, <3>2
    <2>2. CASE ~(Cardinality(S) < MaxSessions)
      <3>1. PICK n : n \in S /\ oldest = {n}
        BY <1>1, <2>2 DEF Evictable
      <3>2. IsFiniteSet(S \ {n}) /\ Cardinality(S \ {n}) = Cardinality(S) - 1
        BY <1>5, <3>1, FS_RemoveElement
      <3>3. Cardinality(S \ {n}) \in Nat
        BY <3>2, FS_CardinalityType
      <3> QED BY <1>3, <1>5, <3>1, <3>2, <3>3
    <2> QED BY <2>1, <2>2
  <1>10. Cardinality(DOMAIN sessions') <= MaxSessions
    <2>1. created + 1 \notin S \ oldest
      BY <1>3, <1>7
    <2>2. Cardinality((S \ oldest) \cup {created + 1}) = Cardinality(S \ oldest) + 1
      BY <1>9, <2>1, FS_AddElement
    <2> QED BY <1>3, <1>6, <1>9, <2>2
  <1>11. cookie' \in [Browsers -> 0 .. created'] /\ sent' \in [Tabs -> 0 .. created']
    <2>1. 0 .. created \subseteq 0 .. created + 1 /\ created + 1 \in 0 .. created + 1
      BY <1>3
    <2>2. cookie \in [Browsers -> 0 .. created + 1] /\ sent \in [Tabs -> 0 .. created + 1]
      BY <2>1 DEF FrontInv
    <2> QED BY <1>2, <2>1, <2>2
  <1> QED BY <1>2, <1>3, <1>4, <1>8, <1>10, <1>11 DEF FrontInv

LEMMA CountKeepsFront ==
  ASSUME FrontInv, NEW t \in Tabs, CountRequest(t), UNCHANGED clock
  PROVE  FrontInv'
  <1> DEFINE c == Cardinality(UnderWay)
             w == Counted(now[t])
             live == {v \in window : now[t] - v.from < Minute}
  <1>1. /\ place[t] \in {"rate", "rate_new"} /\ window' = {w}
        /\ place' = [place EXCEPT ![t] = "idle"]
        /\ \/ cookie' = cookie
           \/ cookie' = [cookie EXCEPT ![BrowserOf[t]] = sent[t]]
        /\ UNCHANGED <<sessions, now, sent, begun, created>>
    BY DEF CountRequest
  <1>2. "idle" \in Spots /\ BrowserOf[t] \in Browsers
    BY FrontAssumption DEF Spots, FrontAssumption
  <1>3. /\ place' \in [Tabs -> Spots] /\ IsFiniteSet(UnderWay') /\ Cardinality(UnderWay') = c - 1
        /\ Cardinality(UnderWay') \in Nat /\ c \in Nat
    BY <1>1, <1>2, PlacesMove
  <1>4. c <= begun /\ begun \in Nat /\ now[t] \in 0 .. clock /\ clock \in Nat
    BY FrontAssumption DEF FrontInv, FrontAssumption
  <1>5. \A v \in window : \E from \in 0 .. clock, n \in Nat \ {0} :
          v = [from |-> from, count |-> n] /\ n + c <= begun
    BY DEF FrontInv
  <1>6. w = IF live = {} THEN [from |-> now[t], count |-> 1]
            ELSE [v \in live |-> [v EXCEPT !.count = @ + 1]][CHOOSE v \in live : TRUE]
    BY DEF Counted
  <1> HIDE DEF c, w
  <1>7. \E from \in 0 .. clock, n \in Nat \ {0} :
          w = [from |-> from, count |-> n] /\ n + (c - 1) <= begun
    <2>1. CASE live = {}
      <3>1. w = [from |-> now[t], count |-> 1]
        BY <1>6, <2>1
      <3>2. 1 + (c - 1) <= begun
        BY <1>3, <1>4
      <3> QED BY <1>4, <3>1, <3>2
    <2>2. CASE live # {}
      <3> DEFINE v == CHOOSE v \in live : TRUE
      <3>1. v \in live
        BY <2>2
      <3>2. w = [v EXCEPT !.count = @ + 1]
        BY <1>6, <2>2, <3>1
      <3>3. v \in window
        BY <3>1
      <3> HIDE DEF v
      <3>4. PICK from \in 0 .. clock, n \in Nat \ {0} : v = [from |-> from, count |-> n] /\ n + c <= begun
        BY <1>5, <3>3
      <3>5. w = [from |-> from, count |-> n + 1]
        BY <3>2, <3>4
      <3>6. (n + 1) + (c - 1) <= begun /\ n + 1 \in Nat \ {0}
        BY <1>3, <1>4, <3>4
      <3> QED BY <3>4, <3>5, <3>6
    <2> QED BY <2>1, <2>2
  <1>8. cookie' \in [Browsers -> 0 .. created]
    BY <1>1, <1>2 DEF FrontInv
  <1>9. \A x \in window' : \E from \in 0 .. clock', n \in Nat \ {0} :
          x = [from |-> from, count |-> n] /\ n + Cardinality(UnderWay') <= begun'
    BY <1>1, <1>3, <1>7
  <1>10. Cardinality(UnderWay') <= begun'
    BY <1>1, <1>3, <1>4
  <1> QED BY <1>1, <1>3, <1>8, <1>9, <1>10 DEF FrontInv

\* The clock of the parts together: it stands, or moves on by a second.
Passes == clock' = clock \/ clock' = clock + 1

LEMMA FrontWaits ==
  ASSUME FrontInv, Passes, UNCHANGED frontVars
  PROVE  FrontInv'
  <1>1. UNCHANGED <<sessions, cookie, window, place, now, sent, begun, created>>
    BY DEF frontVars
  <1>2. clock' \in Nat /\ 0 .. clock \subseteq 0 .. clock'
    BY DEF Passes, FrontInv
  <1>3. UnderWay' = UnderWay
    BY <1>1 DEF UnderWay
  <1>4. \A t \in Tabs : now'[t] \in 0 .. clock'
    BY <1>1, <1>2 DEF FrontInv
  <1>5. \A w \in window' : \E from \in 0 .. clock', n \in Nat \ {0} :
          w = [from |-> from, count |-> n] /\ n + Cardinality(UnderWay') <= begun'
    BY <1>1, <1>2, <1>3 DEF FrontInv
  <1> QED BY <1>1, <1>2, <1>3, <1>4, <1>5 DEF FrontInv

LEMMA FrontKeeps == FrontInv /\ FrontNext => FrontInv'
  <1> SUFFICES ASSUME FrontInv, FrontNext PROVE FrontInv'
    OBVIOUS
  <1>1. CASE FrontTick /\ UNCHANGED frontVars
    BY <1>1, FrontWaits DEF FrontTick, Tick, Passes
  <1>2. ASSUME NEW t \in Tabs, FrontStep(t), UNCHANGED clock PROVE FrontInv'
    BY <1>2, ArriveKeepsFront, FindKeepsFront, CreateKeepsFront, CountKeepsFront DEF FrontStep
  <1> QED BY <1>1, <1>2 DEF FrontNext

LEMMA FrontTypes == FrontInv => FrontTypeOK
  <1> SUFFICES ASSUME FrontInv PROVE FrontTypeOK
    OBVIOUS
  <1>1. Cardinality(UnderWay) \in Nat /\ begun \in 0 .. MaxVisits /\ MaxVisits \in Nat
    BY FS_CardinalityType, FrontAssumption DEF FrontInv, FrontAssumption
  <1>2. ASSUME NEW w \in window PROVE w.from \in 0 .. clock /\ w.count \in 1 .. MaxVisits
    <2>1. PICK from \in 0 .. clock, n \in Nat \ {0} :
            w = [from |-> from, count |-> n] /\ n + Cardinality(UnderWay) <= begun
      BY DEF FrontInv
    <2>2. n \in 1 .. MaxVisits
      BY <1>1, <2>1
    <2> QED BY <2>1, <2>2
  <1> QED BY <1>2 DEF FrontInv, FrontTypeOK, Spots

-----------------------------------------------------------------------------
\* All parts together: one moves and the others keep their state, though the clock
\* may move on for them.

AroundInv == JournalInv /\ CallerInv /\ SeverInv /\ EvidenceInv /\ FrontInv

LEMMA AroundStart == MCInit => AroundInv
  BY JournalStart, CallerInitInv, SeverInit, EvidenceInit, FrontStart DEF MCInit, AroundInv

LEMMA AroundStep == AroundInv /\ [MCNext]_<<part, aroundVars>> => AroundInv'
  <1> SUFFICES ASSUME AroundInv, [MCNext]_<<part, aroundVars>> PROVE AroundInv'
    OBVIOUS
  <1>2. [JournalNext]_journalVars /\ [DemoNext]_demoVars
    BY DEF MCNext, aroundVars
  <1>3. UNCHANGED clock \/ Tick
    BY DEF MCNext, aroundVars, CallerNext, FrontNext, FrontTick, RollupNext, JournalNext
  <1>4. [CallerNext]_svars
    BY <1>3 DEF MCNext, aroundVars, CallerNext, svars
  <1>5. FrontNext \/ (UNCHANGED frontVars /\ Passes)
    BY <1>3 DEF MCNext, aroundVars, Passes, Tick
  <1>6. JournalInv'
    BY <1>2, JournalStep DEF AroundInv
  <1>7. CallerInv'
    BY <1>4, CallerNextInv DEF AroundInv
  <1>8. SeverInv' /\ EvidenceInv'
    BY <1>2, SeverNext, EvidenceNext DEF AroundInv
  <1>9. FrontInv'
    BY <1>5, FrontKeeps, FrontWaits DEF AroundInv
  <1> QED BY <1>6, <1>7, <1>8, <1>9 DEF AroundInv

\* Every variable of every part keeps its type, whichever of them moves: the frames
\* of the journal (operations.rs), the replay cache (identity.rs), a visitor's
\* session, the table of sessions with its limit and the rate windows (demo.rs).
THEOREM AroundTypesHold == MCSpec => []AroundTypeOK
  <1>1. JournalInv => JournalTypeOK
    BY DEF JournalInv, Holds, TypesOK, JournalTypeOK
  <1>2. AroundInv => AroundTypeOK
    BY <1>1, DemoTypes, FrontTypes DEF AroundInv, CallerInv, AroundTypeOK
  <1> QED BY <1>2, AroundStart, AroundStep, PTL DEF MCSpec
=============================================================================
