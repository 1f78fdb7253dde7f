----------------------------- MODULE ChainProofs -----------------------------
(***************************************************************************)
(* Proofs about module Gate: the operator's chain of checkpoints, on the   *)
(* relay, in the journal and in memory.                                    *)
(***************************************************************************)
EXTENDS GateSafetyProofs

-----------------------------------------------------------------------------
(* How a step moves the relay, the chain proofs under way and the places.  *)

RelayMoves ==
  \/ /\ relay'.cps = relay.cps /\ cp' = cp
     /\ lastId' \in {lastId, lastId + 1}
  \/ \E r \in Requests, c \in Cp : /\ Fetched(r)
                                   /\ c.id = Genesis
                                   /\ cp' = [cp EXCEPT ![r] = c]
  \/ \E r \in Requests : BeginPublication(r)
  \/ \E r \in Requests : RelayAccepts(r) \/ RelayAcceptsLate(r)
  \/ PublishTest

LEMMA RelayStep == TypeOK /\ TypeOK' /\ [Next]_vars => RelayMoves
<1> SUFFICES ASSUME TypeOK, TypeOK', [Next]_vars PROVE RelayMoves
  OBVIOUS
<1> USE DEF env, proc, mem, job, up, hist
<1>1. ASSUME NEW r \in Requests, Fetched(r) PROVE RelayMoves
  <2>1. UNCHANGED <<relay, lastId>>
        /\ \/ cp' = cp
           \/ \E c : c.id = Genesis /\ cp' = [cp EXCEPT ![r] = c]
    BY <1>1 DEF Fetched
  <2>2. ASSUME NEW c, c.id = Genesis, cp' = [cp EXCEPT ![r] = c] PROVE c \in Cp
    BY <2>2 DEF TypeOK
  <2> QED
    BY <1>1, <2>1, <2>2 DEF RelayMoves
<1>2. ASSUME NEW r \in Requests, Handler(r) PROVE RelayMoves
  BY <1>1, <1>2
     DEF RelayMoves, Handler, TakeMutex, FetchFails, AlertLands, AlertFails, MarkStale,
         Reserve, RejectLocally, PublishFails, Checkpoint, Dispatch, RefuseRecorded,
         Reply, RelaySevers, TypeOK
<1>3. CASE Startup \/ (\E k \in Keys : Reconcile(k)) \/ WatchdogTask
  BY <1>3 DEF RelayMoves, Startup, Start, Serve, ImportCheckpoint, ImportSever,
     Reconcile, WatchdogTask, WdWake, WdCheck, WdAlertLands, WdGivesUp, WdMark,
     RelaySevers, TypeOK
<1>4. CASE Environment
  BY <1>4 DEF RelayMoves, Environment, Arrive, HangUp, DiskFault, FetchedFault,
     UpstreamRuns, OperatorSevers, RelayForgets, BackgroundFault, Crash, Tick,
     RelaySevers, TypeOK
<1>5. CASE UNCHANGED vars
  BY <1>5 DEF RelayMoves, vars
<1> QED
  BY <1>2, <1>3, <1>4, <1>5 DEF Next

\* Before its publication begins, and after.
Before == {"idle", "waiting", "fetching", "reserving", "opening"}
After  == {"publishing", "published", "recorded", "calling"}

LEMMA PlacesStep ==
  ASSUME TypeOK, MutexOK, Quiescent, [Next]_vars, NEW r \in Requests
  PROVE  /\ pc'[r] \in Before => pc[r] \in Before /\ ~BeginPublication(r)
         /\ pc'[r] \in After => pc[r] \in After \/ BeginPublication(r)
         /\ pc'[r] = "publishing" => pc[r] = "publishing" \/ BeginPublication(r)
<1> USE DEF env, proc, mem, job, up, hist, Goto, Leave, Before, After
<1>0. BeginPublication(r) => pc'[r] = "publishing"
  BY DEF BeginPublication, TypeOK
<1>1. CASE Spares(r)
  BY <1>0, <1>1 DEF Spares, BeginPublication
<1>2. CASE Arrive(r) \/ Crash
  BY <1>0, <1>2 DEF TypeOK, Arrive, Crash, Terminal
<1>3. CASE Moves(r)
  BY <1>0, <1>3
     DEF TypeOK, Moves, Handler, TakeMutex, FetchFails, Fetched, AlertLands,
         AlertFails, MarkStale, Reserve, RejectLocally, RelayAccepts, PublishFails,
         Checkpoint, Dispatch, RefuseRecorded, Reply, HangUp, DiskFault, FetchedFault
<1> QED
  BY <1>1, <1>2, <1>3, OthersStep

-----------------------------------------------------------------------------
(* Names of publications are fresh.                                        *)

\* What Fresh says of one attempt.
FreshCp(r) ==
  /\ cp[r].id <= lastId
  /\ cp[r].id # Genesis => cp[r].prev < cp[r].id /\ cp[r].scope # NoScope
  /\ \A q \in Requests : cp[r].id = cp[q].id => r = q \/ cp[r].id = Genesis
  /\ \A c \in relay.cps : c.id = cp[r].id => c = cp[r]

\* What Fresh says of the relay.
FreshRelay ==
  /\ \A c \in relay.cps : c.id \in 1..lastId /\ c.prev < c.id
  /\ \A c, d \in relay.cps : c.id = d.id => c = d

\* The chain proofs under way and those on the relay have names of their own.
LEMMA FreshNames ==
  ASSUME TypeOK, TypeOK', Admitted, Fresh, Bounded, [Next]_vars
  PROVE  FreshRelay' /\ \A r \in Requests : FreshCp(r)'
<1> USE DEF env, proc, mem, job, up, hist, Genesis
<1>0. /\ FreshRelay /\ \A r \in Requests : FreshCp(r)
      /\ lastId \in Nat /\ relay.cps \subseteq Cp
      /\ \A r \in Requests : cp[r] \in Cp
  BY DEF Fresh, FreshRelay, FreshCp, TypeOK
<1>1. CASE relay'.cps = relay.cps /\ cp' = cp /\ lastId' \in {lastId, lastId + 1}
  BY <1>0, <1>1 DEF FreshRelay, FreshCp, Cp
<1>2. ASSUME NEW r \in Requests, NEW c \in Cp, Fetched(r), c.id = 0,
             cp' = [cp EXCEPT ![r] = c]
      PROVE  FreshRelay' /\ \A q \in Requests : FreshCp(q)'
  <2>1. relay' = relay /\ lastId' = lastId
    BY <1>2 DEF Fetched
  <2>2. cp'[r] = c /\ \A q \in Requests \ {r} : cp'[q] = cp[q]
    BY <1>2 DEF TypeOK
  <2>3. FreshCp(r)'
    BY <1>0, <1>2, <2>1, <2>2 DEF FreshRelay, FreshCp, Cp
  <2>4. ASSUME NEW q \in Requests, q # r PROVE FreshCp(q)'
    BY <1>0, <1>2, <2>1, <2>2, <2>4 DEF FreshRelay, FreshCp, Cp
  <2> QED
    BY <1>0, <2>1, <2>3, <2>4 DEF FreshRelay
<1>3. ASSUME NEW r \in Requests, BeginPublication(r)
      PROVE  FreshRelay' /\ \A q \in Requests : FreshCp(q)'
  <2>1. relay' = relay /\ lastId' = lastId + 1
    BY <1>3 DEF BeginPublication
  <2>2. /\ cp'[r].id = lastId + 1 /\ cp'[r].prev = cp[r].prev
        /\ cp'[r].scope = cp[r].scope
        /\ \A q \in Requests \ {r} : cp'[q] = cp[q]
    BY <1>0, <1>3 DEF BeginPublication, TypeOK, Cp
  <2>3. cp[r].prev <= lastId /\ cp[r].scope # NoScope
    BY <1>3, KeyType, ScopesAssumption
       DEF BeginPublication, Bounded, Admitted, Locked, Staged
  <2>4. FreshCp(r)'
    BY <1>0, <2>1, <2>2, <2>3 DEF FreshRelay, FreshCp, Cp
  <2>5. ASSUME NEW q \in Requests, q # r PROVE FreshCp(q)'
    BY <1>0, <2>1, <2>2, <2>5 DEF FreshRelay, FreshCp, Cp
  <2>6. FreshRelay'
    BY <1>0, <2>1 DEF FreshRelay
  <2> QED
    BY <2>4, <2>5, <2>6
<1>4. ASSUME NEW r \in Requests, RelayAccepts(r) \/ RelayAcceptsLate(r)
      PROVE  FreshRelay' /\ \A q \in Requests : FreshCp(q)'
  <2>1. cp' = cp /\ lastId' = lastId /\ relay'.cps = relay.cps \cup {cp[r]}
    BY <1>4 DEF RelayAccepts, RelayAcceptsLate, RelayCp, TypeOK
  <2>2. cp[r].id \in 1..lastId
    <3>1. CASE RelayAccepts(r)
      BY <1>0, <3>1 DEF RelayAccepts, Fresh, Cp
    <3>2. CASE RelayAcceptsLate(r)
      BY <3>2 DEF RelayAcceptsLate, Fresh
    <3> QED
      BY <1>4, <3>1, <3>2
  <2>3. FreshRelay'
    BY <1>0, <2>1, <2>2 DEF FreshRelay, FreshCp
  <2>4. ASSUME NEW q \in Requests PROVE FreshCp(q)'
    BY <1>0, <2>1, <2>2 DEF FreshCp
  <2> QED
    BY <2>3, <2>4
<1>5. CASE PublishTest
  <2> DEFINE p == [NoCp EXCEPT !.id = lastId + 1, !.at = clock]
  <2>1. p.id = lastId + 1 /\ p.prev = 0
    BY DEF NoCp
  <2>2. cp' = cp /\ lastId' = lastId + 1 /\ relay'.cps = relay.cps \cup {p}
    BY <1>5 DEF PublishTest, RelayCp, TypeOK
  <2> HIDE DEF p
  <2>3. FreshRelay'
    BY <1>0, <2>1, <2>2 DEF FreshRelay, Cp
  <2>4. ASSUME NEW q \in Requests PROVE FreshCp(q)'
    BY <1>0, <2>1, <2>2 DEF FreshCp, Cp
  <2> QED
    BY <2>3, <2>4
<1> QED
  BY <1>1, <1>2, <1>3, <1>4, <1>5, RelayStep DEF RelayMoves

\* Markers and known hashes are names of publications.
LEMMA FreshMarkers ==
  ASSUME TypeOK, TypeOK', Quiescent, Admitted, Fresh, [Next]_vars
  PROVE  /\ disk'.pending \subseteq 1..lastId'
         /\ disk'.known \subseteq 1..lastId'
         /\ disk'.known \cap disk'.pending = {}
<1> USE DEF Genesis
<1>0. /\ lastId \in Nat
      /\ disk.pending \subseteq 1..lastId /\ disk.known \subseteq 1..lastId
      /\ disk.known \cap disk.pending = {}
      /\ \A r \in Requests : pc[r] = "published" => cp[r].id \in 1..lastId
  BY DEF Fresh, TypeOK, Cp
<1>1. CASE ChainStays(disk, disk') /\ lastId' \in {lastId, lastId + 1}
  BY <1>0, <1>1 DEF ChainStays, SameChain
<1>2. ASSUME NEW c \in fetched.cps, ImportCheckpoint(c),
             disk'.known = disk.known \cup {c.id},
             disk'.pending = disk.pending \ {Genesis}, lastId' = lastId
      PROVE  /\ disk'.pending \subseteq 1..lastId'
             /\ disk'.known \subseteq 1..lastId'
             /\ disk'.known \cap disk'.pending = {}
  <2>1. disk.pending = {} /\ c.id \in 1..lastId
    BY <1>2 DEF ImportCheckpoint, Admitted, Fresh
  <2> QED
    BY <1>0, <1>2, <2>1
<1>3. ASSUME disk'.known = disk.known, lastId' = lastId + 1,
             disk'.pending = disk.pending \cup {lastId + 1}
      PROVE  /\ disk'.pending \subseteq 1..lastId'
             /\ disk'.known \subseteq 1..lastId'
             /\ disk'.known \cap disk'.pending = {}
  BY <1>0, <1>3
<1>4. ASSUME NEW r \in Requests, lastId' = lastId,
             disk'.pending = disk.pending \ {cp[r].id},
             \/ disk'.known = disk.known
             \/ pc[r] = "published" /\ disk'.known = disk.known \cup {cp[r].id}
      PROVE  /\ disk'.pending \subseteq 1..lastId'
             /\ disk'.known \subseteq 1..lastId'
             /\ disk'.known \cap disk'.pending = {}
  BY <1>0, <1>4
<1>5. JournalMoves
  BY JournalStep
<1> QED
  BY <1>1, <1>2, <1>3, <1>4, <1>5 DEF JournalMoves, SameChain, Checkpointed

\* An attempt has a name exactly while and after its publication is under way.
LEMMA FreshPlaces ==
  ASSUME TypeOK, TypeOK', MutexOK, Quiescent, Fresh, [Next]_vars, NEW r \in Requests
  PROVE  /\ pc'[r] \in Before => cp'[r].id = Genesis
         /\ pc'[r] \in After => cp'[r].id # Genesis
         /\ pc'[r] = "publishing" => \A c \in relay'.cps : c.id # cp'[r].id
<1> USE DEF env, proc, mem, job, up, hist, Genesis
<1>0. /\ pc[r] \in Before => cp[r].id = 0
      /\ pc[r] \in After => cp[r].id # 0
      /\ pc[r] = "publishing" => \A c \in relay.cps : c.id # cp[r].id
      /\ pc'[r] \in Before => pc[r] \in Before /\ ~BeginPublication(r)
      /\ pc'[r] \in After => pc[r] \in After \/ BeginPublication(r)
      /\ pc'[r] = "publishing" => pc[r] = "publishing" \/ BeginPublication(r)
      /\ lastId \in Nat /\ "publishing" \in After
      /\ \A q \in Requests : cp[q] \in Cp /\ cp[q].id <= lastId
      /\ \A c \in relay.cps : c.id \in 1..lastId
      /\ \A q \in Requests : cp[r].id = cp[q].id => r = q \/ cp[r].id = 0
  BY PlacesStep DEF Fresh, Before, After, TypeOK
<1>1. CASE relay'.cps = relay.cps /\ cp' = cp
  <2>1. ~BeginPublication(r)
    BY <1>0, <1>1 DEF BeginPublication, TypeOK, Cp
  <2> QED
    BY <1>0, <1>1, <2>1
<1>2. ASSUME NEW q \in Requests, NEW c \in Cp, Fetched(q), c.id = 0,
             cp' = [cp EXCEPT ![q] = c]
      PROVE  /\ pc'[r] \in Before => cp'[r].id = 0
             /\ pc'[r] \in After => cp'[r].id # 0
             /\ pc'[r] = "publishing" => \A d \in relay'.cps : d.id # cp'[r].id
  <2>1. relay' = relay /\ pc[q] = "fetching" /\ ~BeginPublication(r)
    BY <1>0, <1>2 DEF Fetched, BeginPublication
  <2>2. cp'[q] = c /\ (q # r => cp'[r] = cp[r])
    BY <1>2 DEF TypeOK
  <2> QED
    BY <1>0, <1>2, <2>1, <2>2 DEF After
<1>3. ASSUME NEW q \in Requests, BeginPublication(q)
      PROVE  /\ pc'[r] \in Before => cp'[r].id = 0
             /\ pc'[r] \in After => cp'[r].id # 0
             /\ pc'[r] = "publishing" => \A d \in relay'.cps : d.id # cp'[r].id
  <2>1. relay' = relay /\ cp'[q].id = lastId + 1 /\ (q # r => cp'[r] = cp[r])
    BY <1>0, <1>3 DEF BeginPublication, TypeOK, Cp
  <2>2. q # r => ~BeginPublication(r)
    BY <1>0, <1>3, <2>1 DEF BeginPublication, TypeOK, Cp
  <2> QED
    BY <1>0, <1>3, <2>1, <2>2
<1>4. ASSUME NEW q \in Requests, RelayAccepts(q) \/ RelayAcceptsLate(q)
      PROVE  /\ pc'[r] \in Before => cp'[r].id = 0
             /\ pc'[r] \in After => cp'[r].id # 0
             /\ pc'[r] = "publishing" => \A d \in relay'.cps : d.id # cp'[r].id
  <2>1. /\ cp' = cp /\ relay'.cps = relay.cps \cup {cp[q]}
        /\ ~BeginPublication(r)
    BY <1>0, <1>4 DEF RelayAccepts, RelayAcceptsLate, RelayCp, BeginPublication, TypeOK
  <2>2. pc'[r] = "publishing" => q # r
    BY <1>4 DEF RelayAccepts, RelayAcceptsLate, Goto, TypeOK
  <2> QED
    BY <1>0, <2>1, <2>2
<1>5. CASE PublishTest
  <2>1. /\ cp' = cp /\ ~BeginPublication(r)
        /\ \E p : p.id = lastId + 1 /\ relay'.cps = relay.cps \cup {p}
    <3>1. cp' = cp /\ pc' = pc
      BY <1>5 DEF PublishTest
    <3>2. ~BeginPublication(r)
      BY <3>1 DEF BeginPublication, Goto, TypeOK
    <3>3. [NoCp EXCEPT !.id = lastId + 1, !.at = clock].id = lastId + 1
      BY DEF NoCp
    <3> QED
      BY <1>5, <3>1, <3>2, <3>3 DEF PublishTest, RelayCp, TypeOK
  <2> QED
    BY <1>0, <2>1 DEF Cp
<1> QED
  BY <1>1, <1>2, <1>3, <1>4, <1>5, RelayStep DEF RelayMoves

\* What startup fetched is on the relay: nothing falls off it but severs.
LEMMA FetchedStep ==
  ASSUME TypeOK, TypeOK', Fresh, [Next]_vars
  PROVE  fetched'.cps \subseteq relay'.cps
<1> USE DEF env, proc, mem, job, up, hist
<1>1. relay.cps \subseteq relay'.cps
  BY RelayStep DEF RelayMoves, Fetched, BeginPublication, RelayAccepts, RelayAcceptsLate,
                   PublishTest, RelayCp, TypeOK
<1>2. fetched' \in {fetched, relay, NoEvents}
  BY DEF Next, Startup, Start, Serve, ImportCheckpoint, ImportSever, Reconcile,
     Handler, TakeMutex, FetchFails, Fetched, AlertLands, AlertFails, MarkStale,
     Reserve, BeginPublication, RejectLocally, RelayAccepts, PublishFails,
     Checkpoint, Dispatch, RefuseRecorded, Reply, WatchdogTask, WdWake, WdCheck,
     WdAlertLands, WdGivesUp, WdMark, Environment, Arrive, HangUp, DiskFault,
     FetchedFault, UpstreamRuns, RelayAcceptsLate, OperatorSevers, RelayForgets,
     BackgroundFault, Crash, PublishTest, Tick, vars
<1> QED
  BY <1>1, <1>2 DEF Fresh, NoEvents

LEMMA FreshStep ==
  ASSUME TypeOK, TypeOK', MutexOK, Quiescent, Admitted, Fresh, Bounded, [Next]_vars
  PROVE  Fresh'
<1>1. FreshRelay' /\ \A r \in Requests : FreshCp(r)'
  BY FreshNames
<1>2. /\ disk'.pending \subseteq 1..lastId'
      /\ disk'.known \subseteq 1..lastId'
      /\ disk'.known \cap disk'.pending = {}
  BY FreshMarkers
<1>3. fetched'.cps \subseteq relay'.cps
  BY FetchedStep
<1>4. \A r \in Requests :
        /\ pc'[r] \in Before => cp'[r].id = Genesis
        /\ pc'[r] \in After => cp'[r].id # Genesis
        /\ pc'[r] = "publishing" => \A c \in relay'.cps : c.id # cp'[r].id
  BY FreshPlaces
<1> QED
  BY <1>1, <1>2, <1>3, <1>4 DEF Fresh, FreshRelay, FreshCp, Before, After

-----------------------------------------------------------------------------
(* How a step moves the chain in memory.                                   *)

\* Two chains that differ at most in their severs.
SameMemory(c, d) == /\ d.head = c.head /\ d.active = c.active
                    /\ d.nonce = c.nonce /\ d.scopes = c.scopes

\* A handler reads its parent off the chain and has a scope of its own active.
Staging(r) ==
  /\ pc[r] = "fetching"
  /\ SameChain(disk, disk') /\ disk'.pending = disk.pending
  /\ UNCHANGED <<status, relay, lastId>>
  /\ SameMemory(BeginScope(chain, Scope(r)), chain')
  /\ AnchorOk(chain, parent[r], NewScope(chain, Scope(r)))
  /\ cp' = [cp EXCEPT ![r] = [id    |-> Genesis,
                              prev  |-> NextParent(chain, parent[r]),
                              scope |-> Scope(r),
                              nonce |-> BeginScope(chain, Scope(r)).nonce + 1,
                              at    |-> now[r]]]

MemoryMoves ==
  \/ SameMemory(chain, chain') /\ status' = status
  \/ status' # "serving" /\ chain' \in {chain, GenesisChain}
  \/ Serve
  \/ \E r \in Requests : Staging(r) /\ Fetched(r)
  \/ \E r \in Requests : RejectLocally(r) \/ Checkpoint(r)

\* Severs move nothing else, and beginning a scope commutes with them.
LEMMA DegradedMemory ==
  ASSUME NEW c \in ChainState, NEW S
  PROVE  /\ SameMemory(c, MarkDegraded(c, S))
         /\ \A s : SameMemory(BeginScope(c, s), BeginScope(MarkDegraded(c, S), s))
         /\ \A p : NextParent(MarkDegraded(c, S), p) = NextParent(c, p)
         /\ \A s : NewScope(MarkDegraded(c, S), s) <=> NewScope(c, s)
         /\ \A s, p : NextParent(BeginScope(c, s), p) = NextParent(c, p)
  BY DEF SameMemory, MarkDegraded, BeginScope, NextParent, NewScope, Established,
         ChainState

\* A fetch begins the scope and stages a chain proof, or stages nothing.
LEMMA FetchedStages ==
  ASSUME TypeOK, NEW r \in Requests, Fetched(r)
  PROVE  /\ pc'[r] \in Staged => Staging(r)
         /\ Staging(r) \/ (SameMemory(chain, chain') /\ status' = status)
<1> USE DEF env, proc, mem, job, up, hist, Goto, Leave
<1>0. chain \in ChainState /\ disk \in Replay
  BY DEF TypeOK
<1>1. PICK S \in Answers(r) :
        LET seen  == MarkDegraded(chain, S)
            begun == BeginScope(seen, Scope(r))
            live  == AnchorOk(seen, parent[r], NewScope(seen, Scope(r)))
        IN  /\ disk' = WithSever(disk, seen.degraded)
            /\ \/ chain' = seen /\ pc'[r] \notin Staged
               \/ /\ live
                  /\ chain' = begun
                  /\ cp' = [cp EXCEPT ![r] =
                             [id    |-> Genesis,
                              prev  |-> NextParent(begun, parent[r]),
                              scope |-> Scope(r),
                              nonce |-> begun.nonce + 1,
                              at    |-> now[r]]]
  BY DEF Fetched, TypeOK, Staged
<1> DEFINE seen  == MarkDegraded(chain, S)
           begun == BeginScope(seen, Scope(r))
<1>2. /\ pc[r] = "fetching" /\ UNCHANGED <<status, relay, lastId>>
  BY DEF Fetched
<1>3. CASE chain' = seen /\ pc'[r] \notin Staged
  BY <1>0, <1>2, <1>3, DegradedMemory
<1>4. CASE /\ AnchorOk(seen, parent[r], NewScope(seen, Scope(r)))
           /\ chain' = begun
           /\ cp' = [cp EXCEPT ![r] =
                       [id    |-> Genesis,
                        prev  |-> NextParent(begun, parent[r]),
                        scope |-> Scope(r),
                        nonce |-> begun.nonce + 1,
                        at    |-> now[r]]]
  <2>1. /\ SameMemory(chain, seen)
        /\ SameMemory(BeginScope(chain, Scope(r)), begun)
        /\ NewScope(seen, Scope(r)) <=> NewScope(chain, Scope(r))
        /\ NextParent(begun, parent[r]) = NextParent(chain, parent[r])
    <3>1. seen.head = chain.head /\ begun.head = seen.head
      BY <1>0 DEF MarkDegraded, BeginScope, ChainState
    <3> QED
      BY <1>0, <3>1, DegradedMemory DEF NextParent
  <2>2. AnchorOk(chain, parent[r], NewScope(chain, Scope(r)))
    BY <1>4, <2>1 DEF AnchorOk, SameMemory
  <2>3. begun.nonce = BeginScope(chain, Scope(r)).nonce
    BY <2>1 DEF SameMemory
  <2>4. ChainStays(disk, disk')
    BY <1>0, <1>1, OtherRecords
  <2>5. Staging(r)
    <3> HIDE DEF begun, seen
    <3> QED
      BY <1>2, <1>4, <2>1, <2>2, <2>3, <2>4 DEF Staging, ChainStays
  <2> QED
    BY <2>5
<1> QED
  BY <1>1, <1>3, <1>4

LEMMA MemoryStep == TypeOK /\ [Next]_vars => MemoryMoves
<1> SUFFICES ASSUME TypeOK, [Next]_vars PROVE MemoryMoves
  OBVIOUS
<1> USE DEF env, proc, mem, job, up, hist, Goto, Leave
<1>0. chain \in ChainState
  BY DEF TypeOK
<1>1. ASSUME NEW r \in Requests, Fetched(r) PROVE MemoryMoves
  BY <1>1, FetchedStages DEF MemoryMoves
<1>2. ASSUME NEW S, chain' = MarkDegraded(chain, S), status' = status PROVE MemoryMoves
  BY <1>0, <1>2, DegradedMemory DEF MemoryMoves
<1>3. ASSUME UNCHANGED <<chain, status>> PROVE MemoryMoves
  BY <1>3 DEF MemoryMoves, SameMemory
<1>4. ASSUME NEW r \in Requests, Handler(r) PROVE MemoryMoves
  BY <1>1, <1>2, <1>3, <1>4
     DEF MemoryMoves, Handler, TakeMutex, FetchFails, AlertLands, AlertFails, MarkStale,
         Reserve, BeginPublication, RelayAccepts, PublishFails, Dispatch,
         RefuseRecorded, Reply
<1>5. CASE Startup \/ (\E k \in Keys : Reconcile(k))
  BY <1>3, <1>5
     DEF MemoryMoves, Startup, Start, ImportCheckpoint, ImportSever, Reconcile
<1>6. CASE WatchdogTask
  BY <1>2, <1>3, <1>6
     DEF WatchdogTask, WdWake, WdCheck, WdAlertLands, WdGivesUp, WdMark
<1>7. ASSUME NEW r \in Requests, FetchedFault(r) PROVE MemoryMoves
  <2>1. \E S : chain' = MarkDegraded(chain, S) /\ status' = status
    BY <1>7 DEF FetchedFault
  <2> QED
    BY <1>2, <2>1
<1>8. CASE Crash
  BY <1>8 DEF MemoryMoves, Crash
<1>9. CASE Environment
  BY <1>3, <1>7, <1>8, <1>9
     DEF Environment, Arrive, HangUp, DiskFault, UpstreamRuns, RelayAcceptsLate,
         OperatorSevers, RelayForgets, BackgroundFault, PublishTest, Tick
<1>10. CASE UNCHANGED vars
  BY <1>3, <1>10 DEF vars
<1> QED
  BY <1>4, <1>5, <1>6, <1>9, <1>10 DEF Next

-----------------------------------------------------------------------------
(* Heads and parents exist.                                                *)

\* Faults and probes are counted.
LEMMA CountsStep ==
  ASSUME TypeOK, [Next]_vars
  PROVE  /\ count'.probes = 0 => count.probes = 0 /\ ~PublishTest
         /\ count'.faults = 0 =>
              /\ count.faults = 0 /\ ~BackgroundFault
              /\ \A r \in Requests : ~DiskFault(r) /\ ~FetchedFault(r)
<1> USE DEF env, proc, mem, job, up, hist
<1>1. /\ BackgroundFault \/ (\E r \in Requests : DiskFault(r) \/ FetchedFault(r))
           => count' = [count EXCEPT !.faults = @ + 1]
      /\ PublishTest => count' = [count EXCEPT !.probes = @ + 1]
  BY DEF BackgroundFault, DiskFault, FetchedFault, PublishTest
<1>2. \/ count' = count
      \/ count' = [count EXCEPT !.faults = @ + 1]
      \/ count' = [count EXCEPT !.probes = @ + 1]
      \/ count' = [count EXCEPT !.forgets = @ + 1]
      \/ count' = [count EXCEPT !.crashes = @ + 1]
  BY DEF Next, Startup, Start, Serve, ImportCheckpoint, ImportSever, Reconcile,
     Handler, TakeMutex, FetchFails, Fetched, AlertLands, AlertFails, MarkStale,
     Reserve, BeginPublication, RejectLocally, RelayAccepts, PublishFails,
     Checkpoint, Dispatch, RefuseRecorded, Reply, WatchdogTask, WdWake, WdCheck,
     WdAlertLands, WdGivesUp, WdMark, Environment, Arrive, HangUp, DiskFault,
     FetchedFault, UpstreamRuns, RelayAcceptsLate, OperatorSevers, RelayForgets,
     BackgroundFault, Crash, PublishTest, Tick, vars
<1> QED
  BY <1>1, <1>2 DEF TypeOK

LEMMA BoundedStep ==
  ASSUME TypeOK, TypeOK', Fresh, Bounded, [Next]_vars
  PROVE  Bounded'
<1> USE DEF env, proc, mem, job, up, hist, Goto, Leave
<1>0. /\ lastId \in Nat /\ lastId' \in Nat /\ disk \in Replay /\ disk' \in Replay
      /\ lastId' \in {lastId, lastId + 1}
      /\ disk.chain.head <= lastId /\ chain.head <= lastId
      /\ disk.chain.head \in Nat /\ chain.head \in Nat
      /\ \A r \in Requests : cp[r].id <= lastId /\ cp[r] \in Cp
      /\ \A c \in fetched.cps : c.id <= lastId /\ c \in Cp
  <2>1. lastId' \in {lastId, lastId + 1}
    BY JournalStep DEF JournalMoves
  <2> QED
    BY <2>1 DEF TypeOK, Bounded, Fresh, Replay, ChainState
<1>1. disk'.chain.head <= lastId'
  <2>1. CASE SameChain(disk, disk')
    BY <1>0, <2>1 DEF SameChain
  <2>2. ASSUME NEW c \in Cp, c.id <= lastId, NEW t, NEW caller,
               Checkpointed(disk, disk', t, caller, c)
        PROVE  disk'.chain.head <= lastId'
    <3>1. disk'.chain.head \in {c.id, disk.chain.head}
      BY <1>0, <2>2 DEF Checkpointed, Replay, ChainState
    <3> QED
      BY <1>0, <2>2, <3>1 DEF Cp
  <2>3. JournalMoves
    BY JournalStep
  <2> QED
    BY <1>0, <2>1, <2>2, <2>3 DEF JournalMoves, ChainStays
<1>2. chain'.head <= lastId'
  <2>1. CASE chain'.head = chain.head
    BY <1>0, <2>1
  <2>2. CASE chain' = GenesisChain
    BY <1>0, <2>2 DEF GenesisChain, Genesis
  <2>3. CASE Serve
    BY <1>1, <2>3 DEF Serve
  <2>4. ASSUME NEW r \in Requests, RejectLocally(r) PROVE chain'.head <= lastId'
    BY <1>1, <2>4 DEF RejectLocally
  <2>5. ASSUME NEW r \in Requests, Checkpoint(r) PROVE chain'.head <= lastId'
    <3>1. chain'.head = cp[r].id
      BY <2>5 DEF Checkpoint, RecordCp, TypeOK, ChainState
    <3> QED
      BY <1>0, <3>1 DEF Cp
  <2>6. ASSUME NEW r \in Requests, Staging(r) PROVE chain'.head = chain.head
    BY <2>6 DEF Staging, SameMemory, BeginScope, TypeOK, ChainState
  <2>7. MemoryMoves
    BY MemoryStep
  <2> QED
    BY <2>1, <2>2, <2>3, <2>4, <2>5, <2>6, <2>7 DEF MemoryMoves, SameMemory
<1>3. \A r \in Requests : parent'[r] \in {Genesis} \cup {c.id : c \in relay'.cps}
  <2>0. relay.cps \subseteq relay'.cps
    BY RelayStep DEF RelayMoves, Fetched, BeginPublication, RelayAccepts,
                     RelayAcceptsLate, PublishTest, RelayCp, TypeOK
  <2>1. \/ parent' = parent
        \/ \E r \in Requests : /\ Arrive(r) /\ relay' = relay
                               /\ \E p \in {Genesis} \cup {c.id : c \in relay.cps} :
                                    parent' = [parent EXCEPT ![r] = p]
    BY MovesUnderWay
       DEF Next, Startup, Start, Serve, ImportCheckpoint, ImportSever, Reconcile,
           WatchdogTask, WdWake, WdCheck, WdAlertLands, WdGivesUp, WdMark,
           Environment, Arrive, UpstreamRuns, RelayAcceptsLate, OperatorSevers,
           RelayForgets, BackgroundFault, Crash, PublishTest, Tick, vars, Moves
  <2>2. \A r \in Requests : parent[r] \in {Genesis} \cup {c.id : c \in relay.cps}
    BY DEF Bounded
  <2>3. ASSUME NEW r \in Requests, NEW p \in {Genesis} \cup {c.id : c \in relay.cps},
               relay' = relay, parent' = [parent EXCEPT ![r] = p]
        PROVE  \A q \in Requests : parent'[q] \in {Genesis} \cup {c.id : c \in relay'.cps}
    BY <2>2, <2>3 DEF TypeOK
  <2> QED
    BY <2>0, <2>1, <2>2, <2>3
<1>4. \A r \in Requests : cp'[r].prev <= lastId'
  <2>1. \A r \in Requests : cp[r].prev \in Nat /\ cp[r].prev <= lastId
                            /\ parent[r] \in Nat /\ parent[r] <= lastId
    <3>1. \A c \in relay.cps : c.id \in 1..lastId
      BY DEF Fresh
    <3>2. \A r \in Requests : parent[r] = 0 \/ \E c \in relay.cps : parent[r] = c.id
      BY DEF Bounded, Genesis
    <3>3. \A r \in Requests : cp[r].prev \in Nat /\ cp[r].prev <= lastId
      BY DEF Bounded, TypeOK, Cp
    <3> QED
      BY <1>0, <3>1, <3>2, <3>3
  <2>2. \A r, q \in Requests : BeginPublication(q) => cp'[r].prev = cp[r].prev
    BY DEF BeginPublication, TypeOK, Cp
  <2>3. ASSUME NEW r \in Requests, Staging(r)
        PROVE  \A q \in Requests : cp'[q].prev <= lastId'
    <3>1. NextParent(chain, parent[r]) \in Nat /\ NextParent(chain, parent[r]) <= lastId
      BY <1>0, <2>1 DEF NextParent
    <3>2. cp'[r].prev = NextParent(chain, parent[r])
          /\ \A q \in Requests : q # r => cp'[q] = cp[q]
      BY <2>3 DEF Staging, TypeOK
    <3> QED
      BY <1>0, <2>1, <3>1, <3>2
  <2>4. \/ cp' = cp
        \/ \E r \in Requests : BeginPublication(r)
        \/ \E r \in Requests : Fetched(r) /\ (cp' = cp \/ Staging(r))
    <3>1. RelayMoves
      BY RelayStep
    <3>2. ASSUME NEW r \in Requests, Fetched(r) PROVE cp' = cp \/ Staging(r)
      BY <3>2, FetchedStages DEF Fetched, Goto, TypeOK, Staged
    <3> QED
      BY <3>1, <3>2 DEF RelayMoves, RelayAccepts, RelayAcceptsLate, PublishTest
  <2> QED
    BY <1>0, <2>1, <2>2, <2>3, <2>4
<1>5. \A c \in relay'.cps : c.scope = NoScope => c.prev = Genesis
  <2>1. ASSUME NEW r \in Requests, RelayAccepts(r) \/ RelayAcceptsLate(r)
        PROVE  cp[r].scope # NoScope
    BY <2>1 DEF RelayAccepts, RelayAcceptsLate, Fresh, Genesis
  <2>2. [NoCp EXCEPT !.id = lastId + 1, !.at = clock].prev = Genesis
    BY DEF NoCp
  <2>3. CASE relay'.cps = relay.cps
    BY <2>3 DEF Bounded
  <2>4. ASSUME NEW c, relay'.cps = relay.cps \cup {c}, c.scope = NoScope => c.prev = Genesis
        PROVE  \A d \in relay'.cps : d.scope = NoScope => d.prev = Genesis
    BY <2>4 DEF Bounded
  <2>5. \/ relay'.cps = relay.cps
        \/ \E r \in Requests : /\ RelayAccepts(r) \/ RelayAcceptsLate(r)
                               /\ relay'.cps = relay.cps \cup {cp[r]}
        \/ relay'.cps = relay.cps \cup {[NoCp EXCEPT !.id = lastId + 1, !.at = clock]}
    <3>1. RelayMoves
      BY RelayStep
    <3> QED
      BY <3>1 DEF RelayMoves, Fetched, BeginPublication, RelayAccepts,
                  RelayAcceptsLate, PublishTest, RelayCp, TypeOK
  <2> QED
    BY <2>1, <2>2, <2>3, <2>4, <2>5
<1>6. count'.probes = 0 => relay'.cps = ByRouter'
  <2>1. count'.probes = 0 => count.probes = 0 /\ ~PublishTest
    BY CountsStep
  <2>2. ASSUME NEW r \in Requests, RelayAccepts(r) \/ RelayAcceptsLate(r)
        PROVE  cp[r].scope # NoScope /\ relay'.cps = relay.cps \cup {cp[r]}
    BY <2>2 DEF RelayAccepts, RelayAcceptsLate, Fresh, Genesis, RelayCp, TypeOK
  <2>3. RelayMoves
    BY RelayStep
  <2> QED
    BY <2>1, <2>2, <2>3 DEF RelayMoves, Fetched, BeginPublication, ByRouter, Bounded
<1> QED
  BY <1>1, <1>2, <1>3, <1>4, <1>5, <1>6 DEF Bounded

\* Publications have names of their own, and nothing names one before it exists.
THEOREM NamesAreFresh == Spec => [](Fresh /\ Bounded)
<1>1. Init => Fresh /\ Bounded
  BY BoundsAssumption
     DEF Init, Fresh, Bounded, NoEvents, NoCp, EmptyJournal, GenesisChain, Genesis,
         ByRouter
<1>2. TypeOK /\ TypeOK' /\ MutexOK /\ Quiescent /\ Admitted /\ (Fresh /\ Bounded)
        /\ [Next]_vars => (Fresh /\ Bounded)'
  BY FreshStep, BoundedStep
<1> QED
  BY <1>1, <1>2, TypeCorrect, MutexExcludes, QuietWhenDown, AdmittedIsAlone, PTL
     DEF Spec

-----------------------------------------------------------------------------
(* Nothing the gate published goes unaccounted.                            *)

\* The relay takes one chain proof at a time from the gate, a marked one.
LEMMA ByRouterStep ==
  ASSUME TypeOK, TypeOK', Admitted, [Next]_vars
  PROVE  \/ ByRouter' \subseteq ByRouter
         \/ \E q \in Requests : /\ cp[q].id \in disk.pending
                                /\ ByRouter' \subseteq ByRouter \cup {cp[q]}
                                /\ UNCHANGED <<disk, chain, cp, status, lastId>>
                                /\ \A r \in Requests : pc'[r] = pc[r] \/ r = q
                                /\ pc'[q] = pc[q] \/ pc[q] = "publishing"
<1> USE DEF env, proc, mem, job, up, hist, Goto
<1>1. ASSUME NEW q \in Requests, RelayAccepts(q) \/ RelayAcceptsLate(q)
      PROVE  /\ cp[q].id \in disk.pending
             /\ ByRouter' \subseteq ByRouter \cup {cp[q]}
             /\ UNCHANGED <<disk, chain, cp, status, lastId>>
             /\ \A r \in Requests : pc'[r] = pc[r] \/ r = q
             /\ pc'[q] = pc[q] \/ pc[q] = "publishing"
  <2>1. cp[q].id \in disk.pending
    BY <1>1 DEF RelayAccepts, RelayAcceptsLate, Admitted, Locked
  <2>2. relay'.cps = relay.cps \cup {cp[q]}
    BY <1>1 DEF RelayAccepts, RelayAcceptsLate, RelayCp, TypeOK
  <2> QED
    BY <1>1, <2>1, <2>2 DEF RelayAccepts, RelayAcceptsLate, ByRouter, TypeOK
<1>2. CASE PublishTest
  <2>1. [NoCp EXCEPT !.id = lastId + 1, !.at = clock].scope = NoScope
    BY DEF NoCp
  <2>2. relay'.cps = relay.cps \cup {[NoCp EXCEPT !.id = lastId + 1, !.at = clock]}
    BY <1>2 DEF PublishTest, RelayCp, TypeOK
  <2> QED
    BY <2>1, <2>2 DEF ByRouter
<1>3. CASE relay'.cps = relay.cps
  BY <1>3 DEF ByRouter
<1>4. ASSUME NEW r \in Requests, Fetched(r) \/ BeginPublication(r)
      PROVE  relay'.cps = relay.cps
  BY <1>4 DEF Fetched, BeginPublication
<1>5. RelayMoves
  BY RelayStep
<1> QED
  BY <1>1, <1>2, <1>3, <1>4, <1>5 DEF RelayMoves

LEMMA AccountedStep ==
  ASSUME TypeOK, TypeOK', Admitted, Fresh, PublishedIsAccounted, [Next]_vars
  PROVE  PublishedIsAccounted'
<1>1. ASSUME NEW c \in ByRouter PROVE c.id \in disk'.known \cup disk'.pending
  <2>1. /\ c \in relay.cps /\ c.id \in 1..lastId
        /\ c.id \in disk.known \cup disk.pending
    BY DEF ByRouter, Fresh, PublishedIsAccounted
  <2>2. ASSUME NEW r \in Requests, pc[r] = "publishing" PROVE c.id # cp[r].id
    BY <2>1, <2>2 DEF Fresh
  <2>3. \/ disk'.known = disk.known /\ disk.pending \subseteq disk'.pending
        \/ \E d : /\ disk'.known = disk.known \cup {d.id}
                  /\ disk'.pending \in {disk.pending \ {d.id}, disk.pending \ {0}}
        \/ \E r \in Requests : /\ pc[r] = "publishing" /\ disk'.known = disk.known
                               /\ disk'.pending = disk.pending \ {cp[r].id}
    BY JournalStep DEF JournalMoves, ChainStays, SameChain, Checkpointed, Genesis
  <2> QED
    BY <2>1, <2>2, <2>3
<1>2. CASE ByRouter' \subseteq ByRouter
  BY <1>1, <1>2 DEF PublishedIsAccounted
<1>3. ASSUME NEW q \in Requests, cp[q].id \in disk.pending, UNCHANGED disk,
             ByRouter' \subseteq ByRouter \cup {cp[q]}
      PROVE  PublishedIsAccounted'
  BY <1>1, <1>3 DEF PublishedIsAccounted
<1> QED
  BY <1>2, <1>3, ByRouterStep

\* Every CP of the gate on the relay is in its journal or marked there as
\* unresolved, whatever appends fail and whenever the relay takes it (server.rs,
\* docs/durable-journal.md "Pending publication").
THEOREM NothingIsUnaccounted == Spec => []PublishedIsAccounted
<1>1. Init => PublishedIsAccounted
  BY DEF Init, PublishedIsAccounted, ByRouter, NoEvents
<1>2. TypeOK /\ TypeOK' /\ Admitted /\ Fresh /\ PublishedIsAccounted /\ [Next]_vars
        => PublishedIsAccounted'
  BY AccountedStep
<1> QED
  BY <1>1, <1>2, TypeCorrect, AdmittedIsAlone, NamesAreFresh, PTL DEF Spec

-----------------------------------------------------------------------------
(* The gate never forks the chain.                                         *)

\* At most one attempt has read the head it may still extend.
LEMMA OneStake ==
  ASSUME TypeOK, MutexOK, Admitted, Fresh, NEW r \in Requests, NEW q \in Requests,
         Stakes(r), Stakes(q)
  PROVE  r = q
<1>1. pc[r] \in Staged /\ pc[q] \in Staged => r = q
  BY DEF MutexOK, HoldsMutex, Staged, Locked
<1>2. \A u, v \in Requests :
        pc[u] \in Staged /\ cp[v].id \in disk.pending => u = v
  <2> SUFFICES ASSUME NEW u \in Requests, NEW v \in Requests,
                      pc[u] \in Staged, cp[v].id \in disk.pending
               PROVE  u = v
    OBVIOUS
  <2>1. disk.pending = IF pc[u] \in {"publishing", "published"} THEN {cp[u].id} ELSE {}
    BY DEF Admitted, Staged, Locked
  <2>2. cp[u].id = cp[v].id /\ cp[u].id # Genesis
    BY <2>1 DEF Fresh, Genesis
  <2> QED
    BY <2>2 DEF Fresh
<1>3. cp[r].id \in disk.pending /\ cp[q].id \in disk.pending => r = q
  BY DEF Admitted, Fresh, Genesis
<1> QED
  BY <1>1, <1>2, <1>3 DEF Stakes

\* A chain proof is staged by a fetch; what is staged waits for its handler.
LEMMA StagedStep ==
  ASSUME TypeOK, MutexOK, Quiescent, [Next]_vars, NEW r \in Requests, pc'[r] \in Staged
  PROVE  \/ Staging(r)
         \/ /\ pc[r] \in Staged /\ now'[r] = now[r]
            /\ cp'[r].prev = cp[r].prev /\ cp'[r].nonce = cp[r].nonce
            /\ cp'[r].at = cp[r].at
            /\ chain' = chain /\ SameChain(disk, disk')
<1> USE DEF env, proc, mem, job, up, hist, Goto, Leave
<1>0. disk \in Replay /\ SameChain(disk, disk)
  BY OtherRecords DEF TypeOK, ChainStays
<1>1. CASE Spares(r)
  BY <1>0, <1>1 DEF Spares, HoldsMutex, Staged, Locked
<1>2. CASE Arrive(r) \/ Crash
  BY <1>2 DEF TypeOK, Arrive, Crash, Terminal, Staged
<1>3. CASE Fetched(r)
  BY <1>3, FetchedStages
<1>4. CASE Reserve(r) \/ RelayAccepts(r)
  <2>1. /\ pc[r] \in Staged /\ UNCHANGED <<now, cp, chain>>
        /\ disk' = disk \/ disk' = WithIntent(disk, Key(r))
    BY <1>4 DEF Reserve, RelayAccepts, Staged
  <2> QED
    BY <1>0, <2>1, OtherRecords DEF ChainStays
<1>5. CASE BeginPublication(r)
  <2>1. /\ pc[r] \in Staged /\ UNCHANGED <<now, chain>>
        /\ cp'[r].prev = cp[r].prev /\ cp'[r].nonce = cp[r].nonce
        /\ cp'[r].at = cp[r].at
        /\ disk' = WithPublishing(disk, lastId + 1)
    BY <1>5 DEF BeginPublication, Staged, TypeOK, Cp
  <2> QED
    BY <1>0, <2>1, OtherRecords
<1>6. CASE Moves(r) /\ ~Fetched(r) /\ ~Reserve(r) /\ ~RelayAccepts(r)
           /\ ~BeginPublication(r)
  BY <1>6
     DEF TypeOK, Moves, Handler, TakeMutex, FetchFails, AlertLands, AlertFails,
         MarkStale, RejectLocally, PublishFails, Checkpoint, Dispatch,
         RefuseRecorded, Reply, HangUp, DiskFault, FetchedFault, Staged
<1> QED
  BY <1>1, <1>2, <1>3, <1>4, <1>5, <1>6, OthersStep

\* A stake is taken by a fetch and keeps its parent.
LEMMA StakesStep ==
  ASSUME TypeOK, TypeOK', MutexOK, Quiescent, Admitted, Fresh, [Next]_vars,
         NEW r \in Requests, Stakes(r)'
  PROVE  \/ Staging(r)
         \/ /\ Stakes(r) /\ cp'[r].prev = cp[r].prev
            /\ cp'[r] = cp[r] \/ (BeginPublication(r) /\ cp[r].id = Genesis)
<1> USE DEF env, proc, mem, job, up, hist, Goto, Leave
<1>0. /\ lastId \in Nat /\ \A q \in Requests : cp[q] \in Cp /\ cp[q].id <= lastId
      /\ disk.pending \subseteq 1..lastId
  BY DEF TypeOK, Fresh
<1>1. pc'[r] \in Staged => pc[r] \in Staged \/ Staging(r)
  BY StagedStep
<1>2. \/ cp'[r] = cp[r]
      \/ /\ BeginPublication(r) /\ pc[r] = "opening" /\ cp'[r].id = lastId + 1
         /\ cp'[r].prev = cp[r].prev
      \/ Fetched(r) /\ pc[r] = "fetching" /\ cp'[r].id = Genesis
  <2>1. ASSUME NEW q \in Requests, BeginPublication(q)
        PROVE  \/ cp'[r] = cp[r]
               \/ /\ q = r /\ pc[r] = "opening" /\ cp'[r].id = lastId + 1
                  /\ cp'[r].prev = cp[r].prev
    BY <2>1 DEF BeginPublication, TypeOK, Cp
  <2>2. ASSUME NEW q \in Requests, NEW c \in Cp, Fetched(q), c.id = Genesis,
               cp' = [cp EXCEPT ![q] = c]
        PROVE  cp'[r] = cp[r] \/ (q = r /\ pc[r] = "fetching" /\ cp'[r].id = Genesis)
    BY <2>2 DEF Fetched, TypeOK
  <2>3. RelayMoves
    BY RelayStep
  <2> QED
    BY <2>1, <2>2, <2>3
       DEF RelayMoves, RelayAccepts, RelayAcceptsLate, PublishTest
<1>3. cp'[r].id \in disk'.pending =>
        \/ cp'[r].id \in disk.pending
        \/ cp'[r].id = lastId + 1
  BY JournalStep DEF JournalMoves, ChainStays, SameChain, Checkpointed
<1>4. CASE cp'[r] = cp[r]
  <2>1. cp[r].id # lastId + 1
    BY <1>0 DEF Cp
  <2> QED
    BY <1>1, <1>3, <1>4, <2>1 DEF Stakes
<1>5. CASE /\ BeginPublication(r) /\ pc[r] = "opening" /\ cp'[r].id = lastId + 1
           /\ cp'[r].prev = cp[r].prev
  BY <1>5 DEF Stakes, Staged, Fresh
<1>6. CASE Fetched(r) /\ pc[r] = "fetching" /\ cp'[r].id = Genesis
  <2>1. disk'.pending \subseteq 1..lastId'
    BY FreshMarkers
  <2>2. cp'[r].id \notin disk'.pending
    BY <1>6, <2>1 DEF Genesis
  <2> QED
    BY <1>6, <2>2, FetchedStages DEF Stakes
<1> QED
  BY <1>2, <1>4, <1>5, <1>6

\* A step leaves the replayed chain alone, or is an import or a checkpoint.
LEMMA ChainSteps ==
  ASSUME TypeOK, FaultsAreClean', [Next]_vars
  PROVE  \/ SameChain(disk, disk')
         \/ \E c \in fetched.cps : /\ ImportCheckpoint(c) /\ c.prev = disk.chain.head
                                   /\ Checkpointed(disk, disk', Genesis, NoCaller, c)
         \/ \E r \in Requests :
              /\ Checkpoint(r) /\ pc[r] = "published"
              /\ Checkpointed(disk, disk', cp[r].id, call[r].caller, cp[r])
  BY JournalStep, CountsStep DEF JournalMoves, ChainStays, FaultsAreClean

\* Where a replayed chain ends.
LEMMA CheckpointedHead ==
  ASSUME NEW d \in Replay, NEW e, NEW t, NEW caller, NEW c \in Cp,
         Checkpointed(d, e, t, caller, c), e.ok
  PROVE  e.chain.head = c.id /\ c.prev = d.chain.head /\ d.ok
  BY DEF Checkpointed, Extends, Replay, ChainState

\* A chain proof that startup imports is a probe: what the gate published is known.
LEMMA ImportsAreProbes ==
  ASSUME TypeOK, Admitted, Fresh, PublishedIsAccounted,
         NEW c \in fetched.cps, ImportCheckpoint(c)
  PROVE  c \in relay.cps /\ c.scope = NoScope
<1>1. disk.pending = {} /\ c \in relay.cps /\ c.id \notin disk.known
  BY DEF ImportCheckpoint, Admitted, Fresh, Unknown
<1> QED
  BY <1>1 DEF PublishedIsAccounted, ByRouter

\* Memory and journal end with the same checkpoint.
LEMMA HeadsAgree ==
  ASSUME TypeOK, TypeOK', Heads, FaultsAreClean', [Next]_vars,
         status' = "serving", disk'.ok
  PROVE  chain'.head = disk'.chain.head
<1> USE DEF env, proc, mem, job, up, hist, Goto, Leave
<1>1. ASSUME NEW r \in Requests, Checkpoint(r),
             Checkpointed(disk, disk', cp[r].id, call[r].caller, cp[r])
      PROVE  chain'.head = disk'.chain.head
  <2>1. chain'.head = cp[r].id
    BY <1>1 DEF Checkpoint, RecordCp, TypeOK, ChainState
  <2>2. disk'.chain.head = cp[r].id
    BY <1>1, CheckpointedHead DEF TypeOK
  <2> QED
    BY <2>1, <2>2
<1>2. ASSUME NEW c \in fetched.cps, ImportCheckpoint(c) PROVE FALSE
  BY <1>2 DEF ImportCheckpoint
<1>3. CASE SameChain(disk, disk') /\ ~(\E r \in Requests : Checkpoint(r))
  <2>1. CASE SameMemory(chain, chain') /\ status' = status
    BY <1>3, <2>1 DEF SameChain, SameMemory, Heads
  <2>2. CASE Serve
    BY <2>2 DEF Serve
  <2>3. ASSUME NEW r \in Requests, Staging(r) PROVE chain'.head = disk'.chain.head
    BY <1>3, <2>3 DEF Staging, SameChain, SameMemory, BeginScope, Heads, TypeOK, ChainState
  <2>4. ASSUME NEW r \in Requests, RejectLocally(r) PROVE chain'.head = disk'.chain.head
    BY <2>4 DEF RejectLocally
  <2>5. MemoryMoves
    BY MemoryStep
  <2> QED
    BY <1>3, <2>1, <2>2, <2>3, <2>4, <2>5 DEF MemoryMoves
<1>4. ASSUME NEW r \in Requests, Checkpoint(r)
      PROVE  Checkpointed(disk, disk', cp[r].id, call[r].caller, cp[r])
  BY <1>4, CheckpointParts DEF Checkpoint, TypeOK
<1> QED
  BY <1>1, <1>2, <1>3, <1>4, ChainSteps

\* An empty chain knows no checkpoint, and the last one has no child.
LEMMA HeadsKnown ==
  ASSUME TypeOK, TypeOK', MutexOK, Admitted, Fresh, Bounded, PublishedIsAccounted,
         Heads, FaultsAreClean', [Next]_vars, disk'.ok
  PROVE  /\ disk'.chain.head = Genesis => disk'.known = {}
         /\ \A c \in ByRouter' : c.id \in disk'.known => c.prev # disk'.chain.head
<1> USE DEF env, proc, mem, job, up, hist
<1>1. CASE SameChain(disk, disk')
  <2>1. /\ disk.ok /\ disk'.known = disk.known /\ disk'.chain.head = disk.chain.head
        /\ \A c \in ByRouter : c.id \in disk.known => c.prev # disk.chain.head
    BY <1>1 DEF SameChain, Heads
  <2>2. ASSUME NEW c \in ByRouter', c \notin ByRouter PROVE c.id \notin disk.known
    BY <2>2, ByRouterStep DEF Fresh
  <2> QED
    BY <2>1, <2>2 DEF Heads
<1>2. ASSUME NEW c \in fetched.cps, ImportCheckpoint(c), c.prev = disk.chain.head,
             Checkpointed(disk, disk', Genesis, NoCaller, c)
      PROVE  /\ disk'.chain.head = Genesis => disk'.known = {}
             /\ \A d \in ByRouter' : d.id \in disk'.known => d.prev # disk'.chain.head
  <2>1. c \in relay.cps /\ c.scope = NoScope /\ c.id # Genesis /\ c \in Cp
    BY <1>2, ImportsAreProbes DEF Fresh, Genesis, TypeOK
  <2>2. disk'.chain.head = c.id /\ disk.ok
    BY <1>2, <2>1, CheckpointedHead DEF TypeOK
  <2>3. disk.known = {}
    BY <1>2, <2>1, <2>2 DEF Bounded, Heads
  <2>4. disk'.known = {c.id} /\ relay' = relay
    BY <1>2, <2>3 DEF Checkpointed, ImportCheckpoint
  <2>5. \A d \in ByRouter' : d.id # c.id
    BY <2>1, <2>4 DEF ByRouter, Fresh
  <2> QED
    BY <2>1, <2>2, <2>4, <2>5
<1>3. ASSUME NEW r \in Requests, Checkpoint(r), pc[r] = "published",
             Checkpointed(disk, disk', cp[r].id, call[r].caller, cp[r])
      PROVE  /\ disk'.chain.head = Genesis => disk'.known = {}
             /\ \A d \in ByRouter' : d.id \in disk'.known => d.prev # disk'.chain.head
  <2>1. disk'.chain.head = cp[r].id /\ relay' = relay
    BY <1>3, CheckpointedHead DEF Checkpoint, TypeOK
  <2>2. cp[r].id # Genesis /\ \A d \in ByRouter : d.prev # cp[r].id
    BY <1>3 DEF Fresh, Heads
  <2> QED
    BY <2>1, <2>2 DEF ByRouter
<1> QED
  BY <1>1, <1>2, <1>3, ChainSteps

\* Nobody but its holder extends the parent at stake.
LEMMA HeadsStaked ==
  ASSUME TypeOK, TypeOK', MutexOK, Quiescent, Admitted, Fresh, PublishedIsAccounted,
         Heads, FaultsAreClean', [Next]_vars, NEW r \in Requests, Stakes(r)'
  PROVE  \A c \in ByRouter' : c.prev = cp'[r].prev => c = cp'[r]
<1> USE DEF env, proc, mem, job, up, hist, Goto, Leave
<1>1. CASE Staging(r)
  <2>1. /\ status = "serving" /\ disk.ok /\ disk.pending = {} /\ relay' = relay
        /\ cp'[r].prev = NextParent(chain, parent[r])
    BY <1>1 DEF Staging, Quiescent, Admitted, Recoverable, Terminal, Locked, TypeOK
  <2>2. chain.head = disk.chain.head
    BY <2>1 DEF Heads
  <2>3. \A c \in ByRouter : c.id \in disk.known
    BY <2>1 DEF PublishedIsAccounted
  <2>4. \A c \in ByRouter : c.prev # NextParent(chain, parent[r])
    BY <2>1, <2>2, <2>3 DEF Heads, NextParent
  <2> QED
    BY <2>1, <2>4 DEF ByRouter
<1>2. CASE /\ Stakes(r) /\ cp'[r].prev = cp[r].prev
           /\ cp'[r] = cp[r] \/ (BeginPublication(r) /\ cp[r].id = Genesis)
  <2>1. \A c \in ByRouter : c.prev = cp[r].prev => c = cp[r]
    BY <1>2 DEF Heads
  <2>2. ASSUME NEW q \in Requests, cp[q].id \in disk.pending, cp' = cp,
               ByRouter' \subseteq ByRouter \cup {cp[q]}
        PROVE  \A c \in ByRouter' : c.prev = cp'[r].prev => c = cp'[r]
    <3>1. r = q
      BY <1>2, <2>2, OneStake DEF Stakes
    <3> QED
      BY <2>1, <2>2, <3>1
  <2>3. CASE ByRouter' \subseteq ByRouter
    <3>1. CASE cp'[r] = cp[r]
      BY <2>1, <2>3, <3>1
    <3>2. CASE cp[r].id = Genesis
      BY <1>2, <2>1, <2>3, <3>2 DEF ByRouter, Fresh, Genesis
    <3> QED
      BY <1>2, <3>1, <3>2
  <2> QED
    BY <2>2, <2>3, ByRouterStep
<1> QED
  BY <1>1, <1>2, StakesStep

\* Nothing names a publication as its parent while it is under way.
LEMMA HeadsUnderWay ==
  ASSUME TypeOK, TypeOK', MutexOK, Quiescent, Admitted, Fresh, Heads, [Next]_vars,
         NEW r \in Requests, pc'[r] \in {"publishing", "published"}
  PROVE  \A c \in ByRouter' : c.prev # cp'[r].id
<1> USE DEF env, proc, mem, job, up, hist, Goto, Leave
<1>0. lastId \in Nat /\ \A c \in relay.cps : c \in Cp /\ c.id \in 1..lastId /\ c.prev < c.id
  BY DEF TypeOK, Fresh
<1>1. CASE BeginPublication(r)
  <2>1. cp'[r].id = lastId + 1 /\ relay' = relay
    BY <1>1 DEF BeginPublication, TypeOK, Cp
  <2>2. \A c \in relay.cps : c.prev # lastId + 1
    BY <1>0 DEF Cp
  <2> QED
    BY <2>1, <2>2 DEF ByRouter
<1>2. CASE ~BeginPublication(r)
  <2>1. pc[r] \in {"publishing", "published"} /\ cp'[r] = cp[r]
    <3>1. CASE Spares(r)
      BY <3>1 DEF Spares
    <3>2. CASE Arrive(r) \/ Crash
      BY <3>2 DEF TypeOK, Arrive, Crash, Terminal
    <3>3. CASE Moves(r)
      BY <1>2, <3>3
         DEF TypeOK, Moves, Handler, TakeMutex, FetchFails, Fetched, AlertLands,
             AlertFails, MarkStale, Reserve, RejectLocally, RelayAccepts,
             PublishFails, Checkpoint, Dispatch, RefuseRecorded, Reply, HangUp,
             DiskFault, FetchedFault
    <3> QED
      BY <3>1, <3>2, <3>3, OthersStep
  <2>2. \A c \in ByRouter : c.prev # cp[r].id
    BY <2>1 DEF Heads
  <2>3. ASSUME NEW q \in Requests, cp[q].id \in disk.pending,
               ByRouter' \subseteq ByRouter \cup {cp[q]}
        PROVE  \A c \in ByRouter' : c.prev # cp'[r].id
    <3>1. q = r
      BY <2>1, <2>3, OneStake DEF Stakes, Staged
    <3>2. cp[r].prev # cp[r].id
      BY <2>1 DEF Fresh, TypeOK, Cp
    <3> QED
      BY <2>1, <2>2, <2>3, <3>1, <3>2
  <2> QED
    BY <2>1, <2>2, <2>3, ByRouterStep
<1> QED
  BY <1>1, <1>2

LEMMA HeadsStep ==
  ASSUME TypeOK, TypeOK', MutexOK, Quiescent, Admitted, Fresh, Bounded,
         PublishedIsAccounted, Heads, FaultsAreClean', [Next]_vars
  PROVE  Heads'
<1>1. status' = "serving" /\ disk'.ok => chain'.head = disk'.chain.head
  BY HeadsAgree
<1>2. disk'.ok =>
        /\ disk'.chain.head = Genesis => disk'.known = {}
        /\ \A c \in ByRouter' : c.id \in disk'.known => c.prev # disk'.chain.head
  BY HeadsKnown
<1>3. \A r \in Requests :
        Stakes(r)' => \A c \in ByRouter' : c.prev = cp'[r].prev => c = cp'[r]
  BY HeadsStaked
<1>4. \A r \in Requests : pc'[r] \in {"publishing", "published"}
        => \A c \in ByRouter' : c.prev # cp'[r].id
  BY HeadsUnderWay
<1> QED
  BY <1>1, <1>2, <1>3, <1>4 DEF Heads

LEMMA NoForkStep ==
  ASSUME TypeOK, TypeOK', Admitted, Heads, NoFork, [Next]_vars
  PROVE  NoFork'
<1>1. CASE ByRouter' \subseteq ByRouter
  BY <1>1 DEF NoFork
<1>2. ASSUME NEW q \in Requests, cp[q].id \in disk.pending,
             ByRouter' \subseteq ByRouter \cup {cp[q]}
      PROVE  NoFork'
  <2>1. \A c \in ByRouter : c.prev = cp[q].prev => c = cp[q]
    BY <1>2 DEF Heads, Stakes
  <2> QED
    BY <1>2, <2>1 DEF NoFork
<1> QED
  BY <1>1, <1>2, ByRouterStep

\* The reasons of NoFork are inductive.
LEMMA ForksAlways == Spec => [](FaultsAreClean => Heads /\ NoFork)
<1>1. Init => Heads /\ NoFork
  BY DEF Init, Heads, NoFork, ByRouter, NoEvents, EmptyJournal, GenesisChain, Stakes,
         Staged
<1>2. TypeOK /\ TypeOK' /\ MutexOK /\ Quiescent /\ Admitted /\ (Fresh /\ Bounded)
        /\ PublishedIsAccounted /\ (FaultsAreClean => Heads /\ NoFork) /\ [Next]_vars
        => (FaultsAreClean => Heads /\ NoFork)'
  <2> SUFFICES ASSUME TypeOK, TypeOK', MutexOK, Quiescent, Admitted, Fresh, Bounded,
                      PublishedIsAccounted, FaultsAreClean => Heads /\ NoFork,
                      [Next]_vars, FaultsAreClean'
               PROVE  Heads' /\ NoFork'
    OBVIOUS
  <2>1. FaultsAreClean
    BY CountsStep DEF FaultsAreClean
  <2> QED
    BY <2>1, HeadsStep, NoForkStep
<1> QED
  BY <1>1, <1>2, TypeCorrect, MutexExcludes, QuietWhenDown, AdmittedIsAlone,
     NamesAreFresh, NothingIsUnaccounted, PTL DEF Spec

\* The gate never forks the operator's chain: of all chain proofs it ever publishes,
\* late and lost ones included, no two name the same parent; for every number of
\* attempts, scopes and crashes, with refused and torn appends and with probes of
\* others on the relay.  (After an append that fails once its frame is written the
\* memory lags behind the journal and the gate does fork: run "written".)
THEOREM ChainIsNeverForked == Spec => [](FaultsAreClean => NoFork)
  BY ForksAlways, PTL

-----------------------------------------------------------------------------
(* The journal always replays, and memory is what it replays to.           *)

\* A chain that carries the nonce of its active scope begins any scope with its own.
LEMMA BeginScopeCarries ==
  ASSUME NEW c \in ChainState, Carries(c), NEW s \in Scopes
  PROVE  /\ BeginScope(c, s).nonce = c.scopes[s].nonce
         /\ BeginScope(c, s).scopes = c.scopes
         /\ BeginScope(c, s).active = s
         /\ Carries(BeginScope(c, s))
  BY ScopesAssumption DEF Carries, BeginScope, ChainState

\* A checkpoint extends the journal it was staged against.
LEMMA CheckpointExtends ==
  ASSUME TypeOK, Admitted, Stages, NEW r \in Requests, Checkpoint(r)
  PROVE  Extends(disk, call[r].caller, cp[r]) /\ cp[r].scope = Scope(r)
<1>1. pc[r] = "published" /\ disk.chain \in ChainState /\ Scope(r) \in Scopes
  BY KeyType DEF Checkpoint, TypeOK, Replay
<1>2. /\ cp[r].scope = Scope(r) /\ cp[r].prev = disk.chain.head
      /\ cp[r].nonce = disk.chain.scopes[Scope(r)].nonce + 1
      /\ disk.owner[Scope(r)] \in {call[r].caller, NoCaller}
      /\ Carries(disk.chain)
  BY <1>1 DEF Admitted, Stages, Staged, Locked
<1> QED
  BY <1>1, <1>2, BeginScopeCarries DEF Extends

\* A checkpoint does to the memory what its record does to the journal.
LEMMA StagesCheckpoint ==
  ASSUME TypeOK, TypeOK', MutexOK, Quiescent, Admitted, Stages, [Next]_vars,
         NEW r \in Requests, Checkpoint(r)
  PROVE  Stages'
<1> USE DEF env, proc, mem, job, up, hist, Goto, Leave
<1> DEFINE s == Scope(r)
           n == cp[r].nonce
<1>1. /\ pc[r] = "published" /\ disk \in Replay /\ cp[r] \in Cp
      /\ chain \in ChainState /\ disk.chain \in ChainState
      /\ s \in Scopes /\ s # NoScope
  BY KeyType, ScopesAssumption DEF Checkpoint, TypeOK, Replay
<1>2. /\ status = "serving" /\ status' = status
      /\ chain.active = s /\ cp[r].at = now[r]
      /\ chain.scopes = disk.chain.scopes
  BY <1>1 DEF Stages, Staged, Quiescent, Terminal, Checkpoint
<1>3. Checkpointed(disk, disk', cp[r].id, call[r].caller, cp[r])
  BY <1>1, CheckpointParts DEF Checkpoint
<1>4. Extends(disk, call[r].caller, cp[r]) /\ cp[r].scope = s
  BY CheckpointExtends
<1>5. /\ disk'.ok
      /\ disk'.chain = RecordCp(BeginScope(disk.chain, s), cp[r].id, n, cp[r].at)
  BY <1>1, <1>3, <1>4 DEF Checkpointed, Stages, JournalRecoverable
<1>6. /\ BeginScope(disk.chain, s).active = s
      /\ BeginScope(disk.chain, s).scopes = disk.chain.scopes
      /\ BeginScope(disk.chain, s) \in ChainState
  BY <1>1, BeginScopeCarries, BeginScopeType DEF Stages
<1>7. ASSUME NEW c \in ChainState, c.active = s, c.scopes = disk.chain.scopes
      PROVE  /\ Carries(RecordCp(c, cp[r].id, n, now[r]))
             /\ RecordCp(c, cp[r].id, n, now[r]).scopes
                  = [disk.chain.scopes EXCEPT ![s] = [nonce |-> n, at |-> now[r]]]
  BY <1>1, <1>7 DEF Carries, RecordCp, ChainState
<1>8. /\ Carries(disk'.chain) /\ Carries(chain')
      /\ chain'.scopes = disk'.chain.scopes
  <2>1. chain' = RecordCp(chain, cp[r].id, n, now[r])
    BY DEF Checkpoint
  <2> QED
    BY <1>1, <1>2, <1>5, <1>6, <1>7, <2>1
<1>9. ASSUME NEW q \in Requests PROVE pc'[q] \notin Staged
  <2>1. CASE q = r
    BY <2>1 DEF Checkpoint, TypeOK, Staged
  <2>2. CASE q # r
    <3>1. pc[q] \notin Staged
      BY <1>1, <2>2 DEF MutexOK, HoldsMutex, Staged, Locked
    <3> QED
      BY <2>2, <3>1 DEF Checkpoint, TypeOK
  <2> QED
    BY <2>1, <2>2
<1> QED
  BY <1>5, <1>8, <1>9 DEF Stages, JournalRecoverable

\* What a fetch stages extends the journal.
LEMMA StagingExtends ==
  ASSUME TypeOK, Quiescent, Admitted, Bounded, PublishedIsAccounted, Heads, Stages,
         AnchorsAreKnown, NEW r \in Requests, Staging(r)
  PROVE  /\ Carries(chain') /\ chain'.scopes = disk'.chain.scopes
         /\ chain'.active = Scope(r)
         /\ cp'[r].prev = disk'.chain.head
         /\ cp'[r].nonce = disk'.chain.scopes[Scope(r)].nonce + 1
         /\ cp'[r].at = now[r]
<1>1. /\ status = "serving" /\ disk.ok /\ disk.pending = {}
      /\ chain \in ChainState /\ Scope(r) \in Scopes /\ disk \in Replay
  BY KeyType DEF Staging, Quiescent, Admitted, Recoverable, Locked, Terminal, TypeOK
<1>2. /\ chain.head = disk.chain.head /\ Carries(chain)
      /\ chain.scopes = disk.chain.scopes
  BY <1>1 DEF Heads, Stages
<1>3. /\ disk'.chain.head = disk.chain.head
      /\ disk'.chain.scopes = disk.chain.scopes
  BY DEF Staging, SameChain
<1>4. /\ cp'[r].prev = NextParent(chain, parent[r]) /\ cp'[r].at = now[r]
      /\ cp'[r].nonce = BeginScope(chain, Scope(r)).nonce + 1
  BY DEF Staging, TypeOK
<1>5. chain.head = Genesis => parent[r] = Genesis
  BY <1>1, <1>2 DEF Staging, Heads, PublishedIsAccounted, AnchorsAreKnown
<1>6. SameMemory(BeginScope(chain, Scope(r)), chain')
  BY DEF Staging
<1>7. /\ Carries(chain') /\ chain'.scopes = chain.scopes
      /\ chain'.active = Scope(r)
  BY <1>1, <1>2, <1>6, BeginScopeCarries DEF SameMemory, Carries
<1> QED
  BY <1>1, <1>2, <1>3, <1>4, <1>5, <1>7, BeginScopeCarries DEF NextParent

\* The records that leave the replayed chain alone.
LEMMA StagesOther ==
  ASSUME TypeOK, TypeOK', MutexOK, Quiescent, Quiescent', Admitted, Bounded,
         PublishedIsAccounted, Heads, Stages, AnchorsAreKnown, [Next]_vars,
         SameChain(disk, disk'), \A r \in Requests : ~Checkpoint(r)
  PROVE  Stages'
<1> USE DEF env, proc, mem, job, up, hist, Goto, Leave
<1>1. /\ disk'.ok /\ disk'.chain.scopes = disk.chain.scopes
      /\ disk'.chain.head = disk.chain.head /\ Carries(disk'.chain)
  BY DEF SameChain, Stages, JournalRecoverable, Carries
<1>2. ASSUME status' = "serving"
      PROVE  Carries(chain') /\ chain'.scopes = disk'.chain.scopes
  <2>1. CASE SameMemory(chain, chain') /\ status' = status
    BY <1>1, <1>2, <2>1 DEF SameMemory, Stages, Carries
  <2>2. CASE chain' = disk'.chain
    BY <1>1, <2>2
  <2>3. CASE Serve
    BY <2>2, <2>3 DEF Serve
  <2>4. ASSUME NEW r \in Requests, RejectLocally(r) PROVE chain' = disk'.chain
    BY <2>4 DEF RejectLocally
  <2>5. ASSUME NEW r \in Requests, Staging(r)
        PROVE  Carries(chain') /\ chain'.scopes = disk'.chain.scopes
    BY <2>5, StagingExtends
  <2>6. MemoryMoves
    BY MemoryStep
  <2> QED
    BY <1>2, <2>1, <2>2, <2>3, <2>4, <2>5, <2>6 DEF MemoryMoves
<1>3. ASSUME NEW r \in Requests, pc'[r] \in Staged
      PROVE  /\ chain'.active = Scope(r)'
             /\ cp'[r].prev = disk'.chain.head
             /\ cp'[r].nonce = disk'.chain.scopes[Scope(r)'].nonce + 1
             /\ cp'[r].at = now'[r]
  <2>0. Scope(r)' = Scope(r)
    BY CallsStay DEF Scope
  <2>1. CASE Staging(r)
    <3>1. now'[r] = now[r]
      BY <2>1, OthersStep, MovesUnderWay
         DEF Staging, Spares, Arrive, Crash, TypeOK
    <3> QED
      BY <2>0, <2>1, <3>1, StagingExtends
  <2>2. CASE /\ pc[r] \in Staged /\ now'[r] = now[r]
             /\ cp'[r].prev = cp[r].prev /\ cp'[r].nonce = cp[r].nonce
             /\ cp'[r].at = cp[r].at
             /\ chain' = chain /\ SameChain(disk, disk')
    BY <1>1, <2>0, <2>2 DEF Stages
  <2> QED
    BY <1>3, <2>1, <2>2, StagedStep
<1> QED
  BY <1>1, <1>2, <1>3 DEF Stages, JournalRecoverable

LEMMA StagesStep ==
  ASSUME TypeOK, TypeOK', MutexOK, Quiescent, Quiescent', Admitted, Fresh, Bounded,
         PublishedIsAccounted, Heads, Stages, FaultsAreClean', AnchorsAreKnown,
         [Next]_vars
  PROVE  Stages'
<1>1. ASSUME NEW c \in fetched.cps, ImportCheckpoint(c), c.prev = disk.chain.head,
             Checkpointed(disk, disk', Genesis, NoCaller, c)
      PROVE  Stages'
  <2>1. c.scope = NoScope /\ disk \in Replay
    BY <1>1, ImportsAreProbes DEF TypeOK
  <2>2. /\ disk'.ok /\ disk'.chain = [disk.chain EXCEPT !.head = c.id]
    BY <1>1, <2>1 DEF Checkpointed, Extends, Stages, JournalRecoverable
  <2>3. Carries(disk'.chain)
    BY <2>1, <2>2 DEF Carries, Stages, Replay, ChainState
  <2>4. status' # "serving"
    BY <1>1 DEF ImportCheckpoint, mem, proc
  <2>5. \A r \in Requests : pc'[r] \notin Staged
    BY <2>4 DEF Quiescent, Staged, Terminal
  <2> QED
    BY <2>2, <2>3, <2>4, <2>5 DEF Stages, JournalRecoverable
<1>2. CASE \E r \in Requests : Checkpoint(r)
  BY <1>2, StagesCheckpoint
<1>3. CASE SameChain(disk, disk') /\ ~(\E r \in Requests : Checkpoint(r))
  BY <1>3, StagesOther
<1> QED
  BY <1>1, <1>2, <1>3, ChainSteps

\* Nobody but the gate publishes: every anchor is known.
LEMMA OwnAnchors ==
  ASSUME Bounded, count.probes = 0
  PROVE  AnchorsAreKnown
  BY DEF Bounded, AnchorsAreKnown

LEMMA StagesInit == Init => Stages
  BY ScopesAssumption
     DEF Init, Stages, JournalRecoverable, EmptyJournal, GenesisChain, Carries, Staged

\* The gate never journals a checkpoint that its own recovery rejects: while no
\* append is written and then fails, and no attempt is anchored to a probe that the
\* gate never imported, every journal it leaves behind replays, whatever crashes,
\* torn tails, lost replies and restarts there were (operations.rs recover; the
\* two conditions are the ones the code needs: runs "written" and "probe").
THEOREM JournalReplays ==
  Spec /\ []FaultsAreClean /\ []AnchorsAreKnown => []JournalRecoverable
<1>1. TypeOK /\ TypeOK' /\ MutexOK /\ Quiescent /\ Quiescent' /\ Admitted
        /\ (Fresh /\ Bounded) /\ PublishedIsAccounted
        /\ (FaultsAreClean => Heads /\ NoFork) /\ FaultsAreClean /\ FaultsAreClean'
        /\ AnchorsAreKnown /\ Stages /\ [Next]_vars => Stages'
  BY StagesStep
<1>2. Stages => JournalRecoverable
  BY DEF Stages
<1> QED
  BY <1>1, <1>2, StagesInit, TypeCorrect, MutexExcludes, QuietWhenDown,
     AdmittedIsAlone, NamesAreFresh, NothingIsUnaccounted, ForksAlways, PTL DEF Spec

\* The same without probes, as a part of the gate's invariant.
LEMMA StagesAlways == Spec => [](FaultsAreClean /\ count.probes = 0 => Stages)
<1> DEFINE Alone == FaultsAreClean /\ count.probes = 0
<1>1. TypeOK /\ TypeOK' /\ MutexOK /\ Quiescent /\ Quiescent' /\ Admitted
        /\ (Fresh /\ Bounded) /\ PublishedIsAccounted
        /\ (FaultsAreClean => Heads /\ NoFork)
        /\ (Alone => Stages) /\ [Next]_vars => (Alone => Stages)'
  <2> SUFFICES ASSUME TypeOK, TypeOK', MutexOK, Quiescent, Quiescent', Admitted, Fresh,
                      Bounded, PublishedIsAccounted,
                      FaultsAreClean => Heads /\ NoFork, Alone => Stages,
                      [Next]_vars, Alone'
               PROVE  Stages'
    OBVIOUS
  <2>1. Alone
    BY CountsStep DEF FaultsAreClean
  <2> QED
    BY <2>1, StagesStep, OwnAnchors
<1>2. Init => (Alone => Stages)
  BY StagesInit
<1> QED
  BY <1>1, <1>2, TypeCorrect, MutexExcludes, QuietWhenDown,
     AdmittedIsAlone, NamesAreFresh, NothingIsUnaccounted, ForksAlways, PTL DEF Spec

\* Severs reach memory and journal together.
LEMMA SeversAgreeStep ==
  ASSUME TypeOK, TypeOK', Quiescent, SeversAgree, count'.faults = 0, [Next]_vars
  PROVE  SeversAgree'
<1> SUFFICES ASSUME status' = "serving"
             PROVE  chain'.degraded = disk'.chain.degraded
  BY DEF SeversAgree
<1> USE DEF env, proc, mem, job, up, hist
<1>0. /\ disk \in Replay /\ disk.chain \in ChainState /\ chain \in ChainState
      /\ status = "serving" => chain.degraded = disk.chain.degraded
  BY DEF TypeOK, Replay, SeversAgree
<1>1. CASE Serve
  BY <1>1 DEF Serve
<1>2. CASE \/ Start \/ (\E c \in fetched.cps : ImportCheckpoint(c))
           \/ \E s \in Scopes : ImportSever(s)
  BY <1>2 DEF Start, ImportCheckpoint, ImportSever
<1>3. ASSUME status = "serving", NEW S, chain' = MarkDegraded(chain, S),
             disk' = WithSever(disk, S)
      PROVE  chain'.degraded = disk'.chain.degraded
  BY <1>0, <1>3 DEF MarkDegraded, WithSever, Replay, ChainState
<1>4. ASSUME status = "serving", chain' = chain, disk'.chain = disk.chain
      PROVE  chain'.degraded = disk'.chain.degraded
  BY <1>0, <1>4
<1>5. ASSUME NEW r \in Requests, Fetched(r)
      PROVE  chain'.degraded = disk'.chain.degraded
  <2>1. PICK S \in Answers(r) :
          LET seen == MarkDegraded(chain, S)
          IN  /\ disk' = WithSever(disk, seen.degraded)
              /\ chain' \in {seen, BeginScope(seen, Scope(r))}
              /\ UNCHANGED status
    BY <1>5 DEF Fetched
  <2>2. MarkDegraded(chain, S) \in ChainState
    BY <1>0, AnswersType, MarkDegradedType
  <2>3. chain'.degraded = chain.degraded \cup S
    BY <1>0, <2>1, <2>2 DEF MarkDegraded, BeginScope, ChainState
  <2>4. disk'.chain.degraded = disk.chain.degraded \cup (chain.degraded \cup S)
    BY <1>0, <2>1 DEF WithSever, MarkDegraded, Replay, ChainState
  <2> QED
    BY <1>0, <2>1, <2>3, <2>4
<1>6. ASSUME NEW r \in Requests, Checkpoint(r)
      PROVE  chain'.degraded = disk'.chain.degraded
  <2>1. Checkpointed(disk, disk', cp[r].id, call[r].caller, cp[r])
    BY <1>6, CheckpointParts DEF Checkpoint, TypeOK
  <2>2. chain'.degraded = chain.degraded
    BY <1>0, <1>6 DEF Checkpoint, RecordCp, ChainState
  <2> QED
    BY <1>0, <1>6, <2>1, <2>2 DEF Checkpointed, Checkpoint
<1>7. ASSUME NEW r \in Requests, Handler(r), ~Fetched(r), ~Checkpoint(r)
      PROVE  chain'.degraded = disk'.chain.degraded
  <2>1. CASE MarkStale(r)
    BY <1>3, <2>1 DEF MarkStale
  <2>2. CASE RejectLocally(r)
    BY <2>2 DEF RejectLocally
  <2>3. CASE ~MarkStale(r) /\ ~RejectLocally(r)
    BY <1>0, <1>4, <1>7, <2>3
       DEF Handler, TakeMutex, FetchFails, AlertLands, AlertFails, Reserve,
           BeginPublication, RelayAccepts, PublishFails, Dispatch, RefuseRecorded,
           Reply, WithIntent, WithPublishing, WithOutcome, Replay
  <2> QED
    BY <2>1, <2>2, <2>3
<1>8. CASE WatchdogTask
  BY <1>3, <1>4, <1>8
     DEF WatchdogTask, WdWake, WdCheck, WdAlertLands, WdGivesUp, WdMark, Quiescent
<1>9. ASSUME NEW k \in Keys, Reconcile(k)
      PROVE  chain'.degraded = disk'.chain.degraded
  BY <1>0, <1>4, <1>9 DEF Reconcile, WithReview, Replay
<1>10. CASE Environment
  <2>1. ~BackgroundFault /\ \A r \in Requests : ~DiskFault(r) /\ ~FetchedFault(r)
    BY CountsStep
  <2> QED
    BY <1>4, <1>10, <2>1
       DEF Environment, Arrive, HangUp, UpstreamRuns, RelayAcceptsLate,
           OperatorSevers, RelayForgets, Crash, PublishTest, Tick
<1>11. CASE UNCHANGED vars
  BY <1>4, <1>11 DEF vars
<1> QED
  BY <1>1, <1>2, <1>5, <1>6, <1>7, <1>8, <1>9, <1>10, <1>11 DEF Next, Startup

\* While the gate serves and no append has failed, memory is what a replay of the
\* journal gives: head, nonces, liveness times and severs, in every interleaving of
\* handlers, watchdog and crashes and after every restart (server.rs, finalize after
\* the record; operations.rs recover).
THEOREM MemoryIsTheJournal ==
  Spec /\ [](count.faults = 0) /\ []AnchorsAreKnown => []MemoryMatchesJournal
<1>1. Init => SeversAgree
  BY DEF Init, SeversAgree
<1>2. TypeOK /\ TypeOK' /\ MutexOK /\ Quiescent /\ Quiescent' /\ Admitted
        /\ (Fresh /\ Bounded) /\ PublishedIsAccounted
        /\ (FaultsAreClean => Heads /\ NoFork) /\ count.faults = 0
        /\ (count.faults = 0)' /\ AnchorsAreKnown /\ (Stages /\ SeversAgree)
        /\ [Next]_vars => (Stages /\ SeversAgree)'
  BY StagesStep, SeversAgreeStep DEF FaultsAreClean
<1>3. (FaultsAreClean => Heads /\ NoFork) /\ count.faults = 0 /\ Stages /\ SeversAgree
        => MemoryMatchesJournal
  BY DEF FaultsAreClean, Heads, Stages, JournalRecoverable, SeversAgree,
         MemoryMatchesJournal
<1> QED
  BY <1>1, <1>2, <1>3, StagesInit, TypeCorrect, MutexExcludes, QuietWhenDown,
     AdmittedIsAlone, NamesAreFresh, NothingIsUnaccounted, ForksAlways, PTL DEF Spec

\* The invariant of the gate's custody, with all the reasons it rests on, holds for
\* any requests, scopes, callers, faults and bounds.
THEOREM CustodyIsKept == Spec => []CustodyInv
<1>1. TypeOK /\ MutexOK /\ WriteOnce /\ Quiescent /\ Admitted /\ Severs /\ Owners
        /\ Receipts /\ Delivered /\ (Fresh /\ Bounded) /\ PublishedIsAccounted
        /\ (FaultsAreClean => Heads /\ NoFork)
        /\ (FaultsAreClean /\ count.probes = 0 => Stages)
        => CustodyInv
  BY DEF CustodyInv
<1> QED
  BY <1>1, TypeCorrect, MutexExcludes, WritesAreReserved, QuietWhenDown,
     AdmittedIsAlone, SeversAlways, OwnersAlways, ReceiptsAlways, DeliveredAlways,
     NamesAreFresh, NothingIsUnaccounted, ForksAlways, StagesAlways, PTL
=============================================================================
