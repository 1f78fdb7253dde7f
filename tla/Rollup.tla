------------------------------- MODULE Rollup -------------------------------
(***************************************************************************)
(* The daily rollup (rollup.rs, merkle.rs, bus.rs, ots.rs and the commands *)
(* rollup export, sign, stamp and daily): a day's events are fetched from  *)
(* the relay, summed up in two Merkle roots, signed, stamped and announced *)
(* on the bus, while the gate publishes and other runs of the command work *)
(* in the same directory.  Hashes are symbolic and collide only when equal.*)
(***************************************************************************)
EXTENDS Clock, Sequences, SequencesExt, FiniteSetsExt

CONSTANTS
    DayLength,      \* 86,400 seconds
    Limit,          \* events the relay returns at most: 5,000
    MaxEvents,      \* bound on events
    MaxRollups      \* processes that run `rollup daily`

ASSUME RollupAssumption == DayLength \in Nat \ {0} /\ Limit \in Nat

VARIABLES
    bus,            \* events in the order the relay took them: time, chain proof?
    disk,           \* disk[d]: the files of day d: bundle, signed, proof; {} or one
    run,            \* where each run is, and what it carries
    anchors,        \* the membrane.anchor.ots events, with the bundle they announce
    launched        \* how many of the processes have been started

rollupVars == <<bus, disk, run, anchors, launched>>

\* The processes, in the order in which they are started.
Runs == 1 .. MaxRollups

Days == 0 .. MaxClock \div DayLength
NoFiles == [bundle |-> {}, signed |-> {}, proof |-> {}]
AtRest == [place |-> "idle", day |-> 0, alone |-> TRUE, holds |-> {}]

RollupInit ==
    /\ bus = <<>>
    /\ disk = [d \in Days |-> NoFiles]
    /\ run = [r \in Runs |-> AtRest]
    /\ anchors = {}
    /\ launched = 0
-----------------------------------------------------------------------------
\* prefixed_hash and parent_hash: leaves carry their domain, a parent the set of
\* its two children.  The first component is the height in the tree.
Leaf(domain, n) == <<0, {<<domain, n>>}>>
Parent(left, right) == <<left[1] + 1, {left, right}>>

\* One round of compute_root: neighbours are paired, an odd last node with itself.
Paired(level) ==
    [i \in 1 .. (Len(level) + 1) \div 2 |->
        Parent(level[2 * i - 1], level[IF 2 * i <= Len(level) THEN 2 * i ELSE 2 * i - 1])]

\* compute_root: rounds until one node is left.
ComputeRoot(leaves) ==
    LET level[h \in Nat] == IF h = 0 THEN leaves ELSE Paired(level[h - 1])
        height == CHOOSE h \in 0 .. Len(leaves) :
                      Len(level[h]) = 1 /\ \A k \in 0 .. h - 1 : Len(level[k]) > 1
    IN  level[height][1]

\* MerkleTree::from_prefixed_leaves sorts the leaves; no event is answered twice.
Sorted(events) ==
    CHOOSE q \in SetToSeqs(ToSet(events)) : \A i \in 1 .. Len(q) - 1 : q[i] < q[i + 1]

\* bus_root_from_events, cp_chain_root_from_events.
RootOf(domain, events) ==
    LET sorted == Sorted(events)
    IN  IF events = <<>> THEN {} ELSE {ComputeRoot([i \in DOMAIN sorted |-> Leaf(domain, sorted[i])])}

At(n) == bus[n].at

\* filter: the events of a set, in the order they come in.
Among(events, set) ==
    FoldLeft(LAMBDA kept, n : IF n \in set THEN Append(kept, n) ELSE kept, <<>>, events)

Proofs(events) == Among(events, {n \in DOMAIN bus : bus[n].cp})
LastOne(seq) == IF seq = <<>> THEN {} ELSE {seq[Len(seq)]}

\* fetch_membrane_bus_events: the newest events, sorted by their time; the order
\* within a second is the relay's.
Answer(since) ==
    LET all == {n \in DOMAIN bus : At(n) >= since}
        kept == {s \in kSubset(IF Cardinality(all) < Limit THEN Cardinality(all) ELSE Limit, all) :
                    \A n \in s, x \in all \ s : At(n) >= At(x)}
    IN  UNION {{q \in SetToSeqs(s) : \A i \in 1 .. Len(q) - 1 : At(q[i]) <= At(q[i + 1])} : s \in kept}

\* Mutant: the last second of the day is left out.
InPeriodOpen(events, first, last) ==
    Among(events, {n \in DOMAIN bus : At(n) >= first /\ At(n) < last})

\* filter_events_in_period: both ends belong to the period.
InPeriod(events, first, last) ==
    Among(events, {n \in DOMAIN bus : At(n) >= first /\ At(n) <= last})

FirstSecond(d) == d * DayLength
EndOfDay(d) == d * DayLength + DayLength - 1

\* build_rollup_bundle.  `covers` and `cut` are ghosts: the events behind the
\* roots, and whether the relay had more than it returned.
Bundle(d, answer) ==
    LET events == InPeriod(answer, FirstSecond(d), EndOfDay(d))
    IN  [day |-> d,
         cpRoot |-> RootOf("cp", Proofs(events)),
         busRoot |-> RootOf("bus", events),
         lastCp |-> LastOne(Proofs(events)),
         covers |-> ToSet(events),
         cut |-> Cardinality({n \in DOMAIN bus : At(n) >= FirstSecond(d)}) > Limit,
         upTo |-> Len(bus)]
-----------------------------------------------------------------------------
Carry(r, place, holds) == run' = [run EXCEPT ![r].place = place, ![r].holds = holds]

\* rollup_daily starts, for yesterday or a day that was asked for.
StartRollup(r, d) ==
    /\ r = launched + 1
    /\ launched' = r
    /\ d * DayLength <= clock
    /\ LET others == {q \in Runs \ {r} : run[q].place # "idle" /\ run[q].day = d}
       IN  run' = [q \in Runs |->
              IF q = r THEN [place |-> "export", day |-> d, alone |-> others = {}, holds |-> {}]
              ELSE IF q \in others THEN [run[q] EXCEPT !.alone = FALSE]
              ELSE run[q]]
    /\ UNCHANGED <<bus, disk, anchors>>

\* rollup_export.
Export(r) ==
    /\ run[r].place = "export"
    /\ \E answer \in Answer(FirstSecond(run[r].day)) :
          disk' = [disk EXCEPT ![run[r].day].bundle = {Bundle(run[r].day, answer)}]
    /\ Carry(r, "sign", {})
    /\ UNCHANGED <<bus, anchors, launched>>

\* rollup_sign: reads the file again; a signature changes nothing the roots say.
Sign(r) ==
    /\ run[r].place = "sign"
    /\ disk' = [disk EXCEPT ![run[r].day].signed = disk[run[r].day].bundle]
    /\ Carry(r, "stamp", {})
    /\ UNCHANGED <<bus, anchors, launched>>

\* Mutant: a proof that is there already is kept.
StampUnlessThere(r) ==
    /\ run[r].place = "stamp"
    /\ disk' = [disk EXCEPT ![run[r].day].proof =
          IF @ = {} THEN disk[run[r].day].signed ELSE @]
    /\ Carry(r, "announce", disk[run[r].day].signed)
    /\ UNCHANGED <<bus, anchors, launched>>

\* rollup_stamp up to the publication: reads the signed file, asks the calendars
\* one after the other and writes the proof, of the digest of what it read.
Stamp(r) ==
    /\ run[r].place = "stamp"
    /\ disk' = [disk EXCEPT ![run[r].day].proof = disk[run[r].day].signed]
    /\ Carry(r, "announce", disk[run[r].day].signed)
    /\ UNCHANGED <<bus, anchors, launched>>

\* rollup_stamp publishes the anchor from what it holds in memory.
Announce(r) ==
    /\ run[r].place = "announce"
    /\ anchors' = anchors \cup run[r].holds
    /\ run' = [run EXCEPT ![r] = AtRest]
    /\ UNCHANGED <<bus, disk, launched>>

\* A relay or all calendars cannot be reached, or the process is killed.
RollupFails(r) ==
    /\ run[r].place # "idle"
    /\ run' = [run EXCEPT ![r] = AtRest]
    /\ UNCHANGED <<bus, disk, anchors, launched>>

\* A gate publishes.  It read the clock before it waited for its mutex, so the
\* event may be a second old.
PublishEvent(at, cp) ==
    /\ Len(bus) < MaxEvents
    /\ at \in {clock, clock - 1} \cap Nat
    /\ bus' = Append(bus, [at |-> at, cp |-> cp])
    /\ UNCHANGED <<disk, run, anchors, launched>>

RollupNext ==
    \/ \E r \in Runs, d \in Days : StartRollup(r, d) /\ UNCHANGED clock
    \/ \E r \in Runs : UNCHANGED clock /\
          (Export(r) \/ Sign(r) \/ Stamp(r) \/ Announce(r) \/ RollupFails(r))
    \/ \E at \in 0 .. MaxClock, cp \in BOOLEAN :
          PublishEvent(at, cp) /\ UNCHANGED clock
    \/ Tick /\ UNCHANGED rollupVars

RollupSpec == clock = 0 /\ RollupInit /\ [][RollupNext]_<<clock, rollupVars>>
-----------------------------------------------------------------------------
Bundles == anchors \cup UNION {disk[d].bundle : d \in Days}

Orders(n) == UNION {SetToSeqs(set) : set \in SUBSET (1 .. n)}

\* Two answers have the same root exactly when they have the same events: neither
\* the order in which the relay answered nor the pairing of an odd leaf shows in
\* it, for up to four events (merkle.rs).
RootsIdentifyEvents ==
    part = "rollup" /\ clock = 0 /\ bus = <<>> /\ launched = 0 =>
        \A s, t \in Orders(4) : RootOf("bus", s) = RootOf("bus", t) <=> ToSet(s) = ToSet(t)

\* No event belongs to two days, and a bundle made when the relay returned
\* everything has all the events of its day that were published by then, also
\* those of its first and last second (rollup.rs: filter_events_in_period).
DaysPartitionEvents ==
    \A a \in Bundles :
        /\ ~a.cut => a.covers = {n \in 1 .. a.upTo : At(n) \div DayLength = a.day}
        /\ \A b \in Bundles : a.day # b.day => a.covers \cap b.covers = {}

\* A bundle stands for exactly the events of its day.
BundlesAreExact == RootsIdentifyEvents /\ DaysPartitionEvents

\* A run that came to its end without another run of the same day beside it
\* leaves a bundle, a signature and a proof that belong together, whatever runs
\* that were killed before it left behind (main.rs: rollup_daily).
FilesBelongTogether ==
    [][\A r \in Runs : Announce(r) /\ run[r].alone =>
          /\ disk[run[r].day].bundle = disk[run[r].day].signed
          /\ disk[run[r].day].proof = disk[run[r].day].signed
          /\ disk[run[r].day].signed = run[r].holds]_<<clock, rollupVars>>
=============================================================================
