------------------------------- MODULE Alarms -------------------------------
(***************************************************************************)
(* The decision log (audit.rs) and the task that polls it and raises and   *)
(* delivers alarms (alarm.rs).  The code keeps the last 500 decisions; the *)
(* model keeps all of them and lets the code see the last RingSize.        *)
(* Everything is in memory: a restart is the initial state.                *)
(***************************************************************************)
EXTENDS Clock, Sequences, SequencesExt, FiniteSetsExt

CONSTANTS
    Ids,            \* authenticated callers
    NoId,           \* a request that was denied before it had an identity
    Known,          \* known_identities of the configuration
    RingSize,       \* decisions kept: 500 in the code
    AlarmsKept,     \* alarms kept: 100 in the code
    StuckSecs, SpikeSecs, SpikeMin, LeadSecs,
    SpikeRate,      \* <<numerator, denominator>> of spike_min_rate
    Attempts,       \* deliveries tried per alarm: 3 in the code
    Windows,        \* the sets of (caller, expiry) the registry may show
    MaxRows         \* bound on decisions

ASSUME AlarmsAssumption ==
    /\ IsFiniteSet(Ids) /\ NoId \notin Ids /\ Known \subseteq Ids
    /\ \A w \in Windows : IsFiniteSet(w)
    /\ RingSize \in Nat \ {0} /\ Attempts \in Nat \ {0} /\ MaxRows \in Nat

VARIABLES
    log,            \* decisions: caller, outcome, time; numbered by their places
    windows,        \* what grant_expiries answers
    engine,         \* the Engine of the alarm task
    missed,         \* ghost: a decision left the ring before it was evaluated
    hooked,         \* a webhook is configured
    todo,           \* alarms of this poll that are not recorded yet
    records,        \* the last alarms recorded, with the state of their delivery
    tries,          \* attempts made for the last record
    reported        \* ghost: the last row evaluated when a caller was reported stuck

alarmVars == <<log, windows, engine, missed, hooked, todo, records, tries, reported>>

\* The first number in the ring.
RingStart == IF Len(log) > RingSize THEN Len(log) - RingSize + 1 ELSE 1

NewEngine == [last |-> 0, seen |-> Known, allowed |-> Known,
              streak |-> [i \in Ids |-> {}], stuck |-> {},
              spiking |-> FALSE, warned |-> {}]

AlarmInit ==
    /\ log = <<>> /\ windows \in Windows
    /\ engine = NewEngine /\ missed = FALSE
    /\ hooked \in BOOLEAN
    /\ todo = <<>> /\ records = <<>> /\ tries = 0
    /\ reported = [i \in Ids |-> 0]

\* record_authenticated: every allow and deny of a request.
Decide(id, outcome) ==
    /\ Len(log) < MaxRows
    /\ log' = Append(log, [id |-> id, outcome |-> outcome, at |-> clock])
    /\ UNCHANGED <<windows, engine, missed, hooked, todo, records, tries, reported>>

EditWindows(w) ==
    /\ windows' = w
    /\ UNCHANGED <<log, engine, missed, hooked, todo, records, tries, reported>>
-----------------------------------------------------------------------------
Alarm(kind, who) == [kind |-> kind, who |-> who]

\* Mutant: an allowed request does not end the streak of denials.
SeenWithoutReset(acc, n) ==
    LET row == log[n]
        e == [acc.engine EXCEPT !.last = n]
        s == e.streak[row.id]
        denied == IF s = {} THEN {[first |-> row.at, last |-> row.at, denies |-> 1]}
                  ELSE {[x EXCEPT !.last = row.at, !.denies = @ + 1] : x \in s}
    IN  IF row.id = NoId THEN [acc EXCEPT !.engine = e]
        ELSE [engine |->
                IF row.outcome = "allow"
                THEN [e EXCEPT !.seen = @ \cup {row.id}, !.allowed = @ \cup {row.id}]
                ELSE [e EXCEPT !.seen = @ \cup {row.id}, !.streak[row.id] = denied],
              out |-> IF row.id \in e.seen THEN acc.out
                      ELSE Append(acc.out, Alarm("first seen", row.id))]

\* evaluate, one row: a caller's first row, and the streak of its denials.
Seen(acc, n) ==
    LET row == log[n]
        e == [acc.engine EXCEPT !.last = n]
        s == e.streak[row.id]
        denied == IF s = {} THEN {[first |-> row.at, last |-> row.at, denies |-> 1]}
                  ELSE {[x EXCEPT !.last = row.at, !.denies = @ + 1] : x \in s}
    IN  IF row.id = NoId THEN [acc EXCEPT !.engine = e]
        ELSE [engine |->
                IF row.outcome = "allow"
                THEN [e EXCEPT !.seen = @ \cup {row.id}, !.allowed = @ \cup {row.id},
                               !.streak[row.id] = {}, !.stuck = @ \ {row.id}]
                ELSE [e EXCEPT !.seen = @ \cup {row.id}, !.streak[row.id] = denied],
              out |->
                IF row.id \in e.seen THEN acc.out
                ELSE Append(acc.out, Alarm("first seen", row.id))]

\* evaluate: the rows from the first fresh one on, in their order.
Evaluated(fresh) ==
    LET upTo[n \in fresh - 1 .. Len(log)] ==
            IF n < fresh THEN [engine |-> engine, out |-> <<>>] ELSE Seen(upTo[n - 1], n)
    IN  upTo[Len(log)]

\* Mutant: that a caller was reported is forgotten.
IsStuckAgain(e, id) ==
    /\ id \in e.allowed
    /\ \E s \in e.streak[id] :
          s.denies >= 2 /\ clock - s.first >= StuckSecs /\ clock - s.last <= StuckSecs

\* A caller that worked, is denied without a break, and still tries.
IsStuck(e, id) ==
    /\ id \in e.allowed \ e.stuck
    /\ \E s \in e.streak[id] :
          /\ s.denies >= 2
          /\ clock - s.first >= StuckSecs
          /\ clock - s.last <= StuckSecs

\* Volume and rate of denials among the rows of the ring inside the window.
IsSpike ==
    LET recent == {n \in RingStart .. Len(log) : log[n].at >= clock - SpikeSecs}
        denies == {n \in recent : log[n].outcome = "deny"}
    IN  /\ Cardinality(denies) >= SpikeMin
        /\ Cardinality(denies) * SpikeRate[2] >= Cardinality(recent) * SpikeRate[1]

\* evaluate_grants: grants that end within the lead time, once per expiry.
Due(warned) == {w \in windows : w[2] > clock /\ w[2] - clock <= LeadSecs} \ warned

\* One round of spawn_alarm_task: `readable` is whether the registry could be read.
Poll(readable) ==
    /\ todo = <<>> /\ tries = 0
    /\ LET fresh == IF engine.last >= RingStart THEN engine.last + 1 ELSE RingStart
           read == Evaluated(fresh)
           stuck == {id \in Ids : IsStuck(read.engine, id)}
           kept == read.engine.warned \cap windows
           due == IF readable THEN Due(kept) ELSE {}
       IN  /\ engine' = [read.engine EXCEPT
                  !.stuck = @ \cup stuck,
                  !.spiking = IsSpike,
                  !.warned = IF readable THEN kept \cup due ELSE @]
           /\ reported' = [id \in Ids |-> IF id \in stuck THEN Len(log) ELSE reported[id]]
           /\ missed' = (missed \/ fresh > engine.last + 1)
           /\ todo' = read.out
                \o SetToSeq({Alarm("stuck", id) : id \in stuck})
                \o (IF IsSpike /\ ~engine.spiking THEN <<Alarm("spike", NoId)>> ELSE <<>>)
                \o SetToSeq({Alarm("expiring", w[1]) : w \in due})
    /\ UNCHANGED <<log, windows, hooked, records, tries>>

LastOf(seq) == IF Len(seq) > AlarmsKept THEN Tail(seq) ELSE seq

\* record_alarm, and what is delivered next.
Record ==
    /\ todo # <<>> /\ tries = 0
    /\ records' = LastOf(Append(records, [alarm |-> Head(todo),
                            state |-> IF hooked THEN "pending" ELSE "not configured"]))
    /\ todo' = Tail(todo)
    /\ tries' = IF hooked THEN 1 ELSE 0
    /\ UNCHANGED <<log, windows, engine, missed, hooked, reported>>

Settled(state) == [records EXCEPT ![Len(records)].state = state]

\* deliver: the webhook answers 2xx.
Acknowledged ==
    /\ tries > 0
    /\ records' = Settled("delivered")
    /\ tries' = 0
    /\ UNCHANGED <<log, windows, engine, missed, hooked, todo, reported>>

\* An error or no answer in time.
AttemptFails ==
    /\ tries > 0
    /\ \/ tries < Attempts /\ tries' = tries + 1 /\ UNCHANGED records
       \/ tries = Attempts /\ tries' = 0 /\ records' = Settled("failed")
    /\ UNCHANGED <<log, windows, engine, missed, hooked, todo, reported>>

AlarmTask == (\E readable \in BOOLEAN : Poll(readable)) \/ Record \/ Acknowledged \/ AttemptFails

AlarmNext ==
    \/ \E id \in Ids \cup {NoId}, outcome \in {"allow", "deny"} :
          /\ id = NoId => outcome = "deny"
          /\ Decide(id, outcome) /\ UNCHANGED clock
    \/ \E w \in Windows : EditWindows(w) /\ UNCHANGED clock
    \/ AlarmTask /\ UNCHANGED clock
    \/ Tick /\ UNCHANGED alarmVars

AlarmSpec == clock = 0 /\ AlarmInit /\ [][AlarmNext]_<<clock, alarmVars>>
-----------------------------------------------------------------------------
Rows(id, outcome) == {n \in 1 .. engine.last : log[n].id = id /\ log[n].outcome = outcome}

\* The denials of a caller since its last allowed request, in the log itself.
Denials(id) == {n \in Rows(id, "deny") : \A m \in Rows(id, "allow") : m < n}

AlarmTypeOK ==
    /\ log \in Seq([id : Ids \cup {NoId}, outcome : {"allow", "deny"}, at : 0 .. MaxClock])
    /\ engine.last \in 0 .. Len(log) /\ engine.seen \subseteq Ids
    /\ engine.allowed \subseteq Ids /\ engine.stuck \subseteq Ids
    /\ engine.streak \in [Ids -> SUBSET [first : 0 .. MaxClock, last : 0 .. MaxClock, denies : 1 .. MaxRows]]
    /\ \A n \in DOMAIN records :
          records[n].state \in {"pending", "delivered", "failed", "not configured"}
    /\ tries \in 0 .. Attempts

\* As long as no burst outran the ring, the streak the engine keeps is the one in
\* the log: its length and its two ends (alarm.rs: evaluate).
StreaksAreTrue ==
    ~missed => \A id \in Ids :
        engine.streak[id] =
          IF Denials(id) = {} THEN {}
          ELSE {[first |-> log[Min(Denials(id))].at, last |-> log[Max(Denials(id))].at,
                 denies |-> Cardinality(Denials(id))]}

Raises(kind, who) == todo = <<>> /\ \E i \in DOMAIN todo' : todo'[i] = Alarm(kind, who)

\* A caller is reported stuck once per streak: since the report before it was
\* allowed again, bursts or not (alarm.rs: stuck_raised).
StuckOncePerStreak ==
    [][\A id \in Ids : Raises("stuck", id) /\ reported[id] > 0 =>
          \E n \in reported[id] + 1 .. engine'.last :
              log[n].id = id /\ log[n].outcome = "allow"]_<<clock, alarmVars>>

\* As long as no burst outran the ring, a caller is reported as new by the poll
\* that evaluates its first decision, and by no other (alarm.rs: seen).
FirstSeenIsExact ==
    [][\A id \in Ids \ Known : ~missed' /\ engine'.last > engine.last =>
          (Raises("first seen", id) <=>
              /\ \A n \in 1 .. engine.last : log[n].id # id
              /\ \E n \in 1 .. engine'.last : log[n].id = id)]_<<clock, alarmVars>>

\* What is reported about a caller is reported once, when it is true.
ReportsAreExact == StuckOncePerStreak /\ FirstSeenIsExact
=============================================================================
