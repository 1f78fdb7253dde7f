----------------------------- MODULE SiemExport -----------------------------
(***************************************************************************)
(* The hardened SIEM export: membrane-gate/src/siem_export.rs.             *)
(*                                                                         *)
(* Events are wrapped in hash-chained envelopes, appended to spool.jsonl   *)
(* and kept pending until the SIEM has acknowledged them; cursor.json      *)
(* names the last acknowledged envelope.  One worker posts a prefix of     *)
(* what is pending.  An action is one write to a file or one step of the   *)
(* worker, so that a crash can fall between any two of them.  enqueue and  *)
(* ack hold one lock: while either is under way the other does not start.  *)
(*                                                                         *)
(* An envelope hash is a fresh number, 0 is GENESIS.  Batches are any      *)
(* non-empty prefix, which covers the limits on count and bytes and the    *)
(* halving after HTTP 413.  Admission by lag only refuses more.            *)
(***************************************************************************)
EXTENDS Naturals, Sequences

CONSTANTS
  Cap,         \* max_buffered_events
  Headroom,    \* slots that admission leaves free
  FailClosed,  \* failure_mode: refuse admissions, or drop and mark a gap
  Leavings,    \* what a failed write can leave behind
  MaxEvents, MaxInFlight, MaxOthers, MaxCrashes, MaxFaults, MaxTroubles  \* bounds

ASSUME CapAssumption == Cap \in Nat \ {0} /\ Headroom \in 1..Cap
ASSUME ModeAssumption == FailClosed \in BOOLEAN
ASSUME LeavingsAssumption == Leavings \subseteq {"nothing", "whole", "torn"}
ASSUME ExportBoundsAssumption ==
  /\ MaxEvents \in Nat /\ MaxInFlight \in Nat /\ MaxOthers \in Nat
  /\ MaxCrashes \in Nat /\ MaxFaults \in Nat /\ MaxTroubles \in Nat

VARIABLES
  status,    \* the gate: down, up, or refused by its spool
  spool,     \* the lines of spool.jsonl
  cursor,    \* cursor.json: the next sequence number and the hash before it
  st,        \* State, behind the lock
  arriving,  \* the event whose enqueue holds the lock
  worker,    \* the delivery task: its place, its batch size, a failed write
  wire,      \* batches the worker gave up on that may still arrive
  received,  \* envelopes the SIEM has received
  admitted,  \* requests admitted whose receipt is not queued yet
  made,      \* envelope hashes used
  count,     \* events and environment steps, each under its Max bound
  receipts,  \* history: events that are receipts of admitted requests
  queued,    \* history: events whose envelope was appended
  shed,      \* history: events dropped because the buffer was full
  lost       \* history: events that died with the process or a failed append

data == <<status, received, wire, admitted, receipts>>
hist == <<queued, shed, lost>>
vars == <<status, spool, cursor, st, arriving, worker, wire, received, admitted, made,
          count, receipts, queued, shed, lost>>

NoEvent == 0
Genesis == 0
Torn    == [kind |-> "torn"]

Envelope == [seq : Nat, prev : Nat, hash : Nat,
             kind : {"event", "started", "ended"}, ev : Nat, dropped : Nat]
Line     == Envelope \cup {Torn}
Cursor   == [next : Nat, hash : Nat]

State == [pending : Seq(Envelope), nextSeq : Nat, lastHash : Nat, inFile : Nat,
          open : BOOLEAN, dropped : Nat, ioFailed : BOOLEAN]

NoState == [pending |-> <<>>, nextSeq |-> 0, lastHash |-> Genesis, inFile |-> 0,
            open |-> FALSE, dropped |-> 0, ioFailed |-> FALSE]

Idle == [pc |-> "idle", left |-> 0, failed |-> FALSE]

Init ==
  /\ status = "down"
  /\ spool = <<>>
  /\ cursor = [next |-> 0, hash |-> Genesis]
  /\ st = NoState
  /\ arriving = NoEvent
  /\ worker = Idle
  /\ wire = {}
  /\ received = {}
  /\ admitted = 0
  /\ made = 0
  /\ count = [events |-> 0, others |-> 0, crashes |-> 0, faults |-> 0]
  /\ receipts = {}
  /\ queued = {}
  /\ shed = {}
  /\ lost = {}

Elements(s)  == {s[i] : i \in 1..Len(s)}
EventsIn(es) == {e.ev : e \in {f \in es : f.kind = "event"}}
Locked       == arriving # NoEvent \/ worker.pc = "acking"
-----------------------------------------------------------------------------
(* open: what a start makes of the two files.                              *)

\* The lines at the head of the spool that the cursor says are acknowledged.
AckedLines(lines, c) ==
  IF lines = <<>> \/ lines[1].seq >= c.next THEN 0 ELSE c.next - lines[1].seq

MatchesCursor(lines, c) ==
  LET n == AckedLines(lines, c)
  IN  lines # <<>> =>
        IF n = 0 THEN lines[1].seq = c.next /\ lines[1].prev = c.hash
        ELSE n <= Len(lines) /\ lines[n].hash = c.hash

\* verify_chain
Chained(lines) ==
  \A i \in 2..Len(lines) : /\ lines[i].seq = lines[i-1].seq + 1
                           /\ lines[i].prev = lines[i-1].hash

Unacked(lines, c) == SubSeq(lines, AckedLines(lines, c) + 1, Len(lines))

Loadable(lines, c) ==
  /\ Torn \notin Elements(lines)
  /\ MatchesCursor(lines, c)
  /\ Chained(lines)
  /\ Len(Unacked(lines, c)) <= Cap + 1

\* The last gap marker opened a gap.
GapOpenIn(p) ==
  \E i \in 1..Len(p) : /\ p[i].kind = "started"
                       /\ \A j \in i+1..Len(p) : p[j].kind = "event"

\* Mutant: the chain is continued after the cursor, not after the spool.
LoadedAtCursor(lines, c) ==
  [NoState EXCEPT
     !.pending  = Unacked(lines, c),
     !.nextSeq  = c.next,
     !.lastHash = c.hash,
     !.inFile   = AckedLines(lines, c),
     !.open     = GapOpenIn(Unacked(lines, c))]

Loaded(lines, c) ==
  [NoState EXCEPT
     !.pending  = Unacked(lines, c),
     !.nextSeq  = IF lines = <<>> THEN c.next ELSE lines[Len(lines)].seq + 1,
     !.lastHash = IF lines = <<>> THEN c.hash ELSE lines[Len(lines)].hash,
     !.inFile   = AckedLines(lines, c),
     !.open     = GapOpenIn(Unacked(lines, c))]

Open ==
  /\ status = "down"
  /\ IF Loadable(spool, cursor)
     THEN status' = "up" /\ st' = Loaded(spool, cursor)
     ELSE status' = "refused" /\ UNCHANGED st
  /\ UNCHANGED <<spool, cursor, arriving, worker, wire, received, admitted, made, count,
                 receipts, hist>>
-----------------------------------------------------------------------------
(* enqueue, after the lock is taken; push is one append.                   *)

Wrapped(kind, e, n) ==
  [seq |-> st.nextSeq, prev |-> st.lastHash, hash |-> made + 1,
   kind |-> kind, ev |-> e, dropped |-> n]

\* A line appended after a torn one becomes part of it.
Appended(lines, l) ==
  IF Torn \in Elements(lines) THEN lines ELSE Append(lines, l)

Pushed(env) == [st EXCEPT !.nextSeq = @ + 1, !.lastHash = env.hash,
                          !.pending = Append(@, env)]

Full == Len(st.pending) >= Cap

\* Space is free again: the gap ends before the event is queued.
EndGap ==
  LET env == Wrapped("ended", NoEvent, st.dropped)
  IN  /\ arriving # NoEvent
      /\ st.open /\ ~Full
      /\ spool' = Appended(spool, env)
      /\ st' = [Pushed(env) EXCEPT !.open = FALSE, !.dropped = 0]
      /\ made' = made + 1
      /\ UNCHANGED <<cursor, arriving, worker, count, data, hist>>

\* Mutant: the event that opens the gap is not counted.
StartGapUncounted ==
  LET env == Wrapped("started", NoEvent, 0)
  IN  /\ arriving # NoEvent
      /\ ~st.open /\ Full
      /\ spool' = Appended(spool, env)
      /\ st' = [Pushed(env) EXCEPT !.open = TRUE]
      /\ made' = made + 1
      /\ shed' = shed \cup {arriving}
      /\ arriving' = NoEvent
      /\ UNCHANGED <<cursor, worker, count, data, queued, lost>>

\* The buffer is full: one reserved slot holds the marker, the event is dropped.
StartGap ==
  LET env == Wrapped("started", NoEvent, 0)
  IN  /\ arriving # NoEvent
      /\ ~st.open /\ Full
      /\ spool' = Appended(spool, env)
      /\ st' = [Pushed(env) EXCEPT !.open = TRUE, !.dropped = 1]
      /\ made' = made + 1
      /\ shed' = shed \cup {arriving}
      /\ arriving' = NoEvent
      /\ UNCHANGED <<cursor, worker, count, data, queued, lost>>

Drop ==
  /\ arriving # NoEvent
  /\ st.open /\ Full
  /\ st' = [st EXCEPT !.dropped = @ + 1]
  /\ shed' = shed \cup {arriving}
  /\ arriving' = NoEvent
  /\ UNCHANGED <<spool, cursor, worker, made, count, data, queued, lost>>

Queue ==
  LET env == Wrapped("event", arriving, 0)
  IN  /\ arriving # NoEvent
      /\ ~st.open /\ ~Full
      /\ spool' = Appended(spool, env)
      /\ st' = Pushed(env)
      /\ made' = made + 1
      /\ queued' = queued \cup {arriving}
      /\ arriving' = NoEvent
      /\ UNCHANGED <<cursor, worker, count, data, shed, lost>>

Pushing == CHOOSE env \in {Wrapped("ended", NoEvent, st.dropped),
                           Wrapped("started", NoEvent, 0),
                           Wrapped("event", arriving, 0)} :
             env.kind = IF st.open THEN "ended" ELSE IF Full THEN "started" ELSE "event"

Troubles == count.crashes + count.faults

\* An append reports an error; the caller is not told.
PushFails ==
  /\ arriving # NoEvent
  /\ ~(st.open /\ Full)
  /\ count.faults < MaxFaults /\ Troubles < MaxTroubles
  /\ \/ "nothing" \in Leavings /\ UNCHANGED spool
     \/ "whole" \in Leavings /\ spool' = Appended(spool, Pushing)
     \/ "torn" \in Leavings /\ spool' = Appended(spool, Torn)
  /\ st' = [st EXCEPT !.ioFailed = TRUE]
  /\ made' = made + 1
  /\ count' = [count EXCEPT !.faults = @ + 1]
  /\ lost' = lost \cup {arriving}
  /\ arriving' = NoEvent
  /\ UNCHANGED <<cursor, worker, data, queued, shed>>
-----------------------------------------------------------------------------
(* Requests.  A receipt is published first and queued then; refusals, the  *)
(* refusals of the export itself included, and alerts are queued as well.  *)

\* Mutant: no slots are kept for requests that are under way.
AdmitsToTheLast == FailClosed => ~st.ioFailed /\ ~st.open /\ Len(st.pending) < Cap

Admits == FailClosed => /\ ~st.ioFailed
                        /\ ~st.open
                        /\ Len(st.pending) + Headroom <= Cap

Admit ==
  /\ status = "up" /\ ~Locked
  /\ Admits
  /\ admitted < MaxInFlight
  /\ admitted' = admitted + 1
  /\ UNCHANGED <<status, spool, cursor, st, arriving, worker, wire, received, made,
                 count, receipts, hist>>

Receipt ==
  /\ status = "up" /\ ~Locked
  /\ admitted > 0
  /\ count.events < MaxEvents
  /\ arriving' = count.events + 1
  /\ count' = [count EXCEPT !.events = @ + 1]
  /\ receipts' = receipts \cup {count.events + 1}
  /\ admitted' = admitted - 1
  /\ UNCHANGED <<status, spool, cursor, st, worker, wire, received, made, hist>>

OtherEvent ==
  /\ status = "up" /\ ~Locked
  /\ count.others < MaxOthers
  /\ count.events < MaxEvents
  /\ arriving' = count.events + 1
  /\ count' = [count EXCEPT !.events = @ + 1, !.others = @ + 1]
  /\ UNCHANGED <<spool, cursor, st, worker, made, data, hist>>

\* An admitted request ends without a receipt.
GiveUp ==
  /\ admitted > 0
  /\ admitted' = admitted - 1
  /\ UNCHANGED <<status, spool, cursor, st, arriving, worker, wire, received, made,
                 count, receipts, hist>>
-----------------------------------------------------------------------------
(* run: the delivery task.                                                 *)

Batch == {st.pending[i] : i \in 1..worker.left}

\* Mutant: the worker waits for a full buffer.
PostFull ==
  /\ status = "up" /\ ~Locked
  /\ worker.pc = "idle"
  /\ Full
  /\ worker' = [pc |-> "posted", left |-> Len(st.pending), failed |-> FALSE]
  /\ UNCHANGED <<spool, cursor, st, arriving, made, count, data, hist>>

\* take_batch; the lock is not held while the batch is posted.
Post ==
  /\ status = "up" /\ ~Locked
  /\ worker.pc = "idle"
  /\ \E n \in 1..Len(st.pending) :
       worker' = [pc |-> "posted", left |-> n, failed |-> FALSE]
  /\ UNCHANGED <<spool, cursor, st, arriving, made, count, data, hist>>

\* Any 2xx is an acknowledgement; ack takes the lock.
Delivered ==
  /\ worker.pc = "posted" /\ ~Locked
  /\ received' = received \cup Batch
  /\ worker' = [worker EXCEPT !.pc = "acking"]
  /\ UNCHANGED <<status, spool, cursor, st, arriving, wire, admitted, made, count,
                 receipts, hist>>

\* Mutant: a rejected batch is discarded.
PostFailsDiscarding ==
  /\ worker.pc = "posted" /\ ~Locked
  /\ worker' = [worker EXCEPT !.pc = "acking"]
  /\ UNCHANGED <<spool, cursor, st, arriving, made, count, data, hist>>

\* Refused, timed out or unreachable: the batch may arrive all the same.
PostFails ==
  /\ worker.pc = "posted"
  /\ wire' = IF Batch \subseteq received THEN wire ELSE wire \cup {Batch}
  /\ worker' = Idle
  /\ UNCHANGED <<status, spool, cursor, st, arriving, received, admitted, made, count,
                 receipts, hist>>

ArrivesLate ==
  /\ \E b \in wire : received' = received \cup b /\ wire' = wire \ {b}
  /\ UNCHANGED <<status, spool, cursor, st, arriving, worker, admitted, made, count,
                 receipts, hist>>

Popped   == [st EXCEPT !.pending = Tail(@), !.inFile = @ + 1]
AfterAck == LET e == Head(st.pending) IN [next |-> e.seq + 1, hash |-> e.hash]

\* ack: one envelope leaves the queue and the cursor is replaced.
AckOne ==
  /\ worker.pc = "acking" /\ worker.left > 0
  /\ st' = Popped
  /\ cursor' = AfterAck
  /\ worker' = [worker EXCEPT !.left = @ - 1]
  /\ UNCHANGED <<spool, arriving, made, count, data, hist>>

\* The cursor is not replaced, or the error comes after the rename.
CursorFails ==
  /\ worker.pc = "acking" /\ worker.left > 0
  /\ count.faults < MaxFaults /\ Troubles < MaxTroubles
  /\ \/ "nothing" \in Leavings /\ UNCHANGED cursor
     \/ "whole" \in Leavings /\ cursor' = AfterAck
  /\ st' = Popped
  /\ worker' = [worker EXCEPT !.left = @ - 1, !.failed = TRUE]
  /\ count' = [count EXCEPT !.faults = @ + 1]
  /\ UNCHANGED <<spool, arriving, made, data, hist>>

Compacts == /\ st.pending = <<>> \/ st.inFile >= Cap
            /\ ~worker.failed

\* Mutant: compaction throws away what is still pending.
FinishAckTruncating ==
  /\ worker.pc = "acking" /\ worker.left = 0
  /\ IF Compacts
     THEN spool' = <<>> /\ st' = [st EXCEPT !.inFile = 0]
     ELSE UNCHANGED spool /\ st' = [st EXCEPT !.ioFailed = @ \/ worker.failed]
  /\ worker' = Idle
  /\ UNCHANGED <<cursor, arriving, made, count, data, hist>>

\* The end of ack: the spool is rewritten once the cursor is durable.
FinishAck ==
  /\ worker.pc = "acking" /\ worker.left = 0
  /\ IF Compacts
     THEN spool' = st.pending /\ st' = [st EXCEPT !.inFile = 0]
     ELSE UNCHANGED spool /\ st' = [st EXCEPT !.ioFailed = @ \/ worker.failed]
  /\ worker' = Idle
  /\ UNCHANGED <<cursor, arriving, made, count, data, hist>>

CompactionFails ==
  /\ worker.pc = "acking" /\ worker.left = 0
  /\ Compacts
  /\ count.faults < MaxFaults /\ Troubles < MaxTroubles
  /\ \/ "nothing" \in Leavings /\ UNCHANGED spool
     \/ "whole" \in Leavings /\ spool' = st.pending
  /\ st' = [st EXCEPT !.ioFailed = TRUE]
  /\ worker' = Idle
  /\ count' = [count EXCEPT !.faults = @ + 1]
  /\ UNCHANGED <<cursor, arriving, made, data, hist>>
-----------------------------------------------------------------------------
\* The gate dies; an append that was under way may leave a torn line.
Crash ==
  /\ status = "up"
  /\ count.crashes < MaxCrashes /\ Troubles < MaxTroubles
  /\ count' = [count EXCEPT !.crashes = @ + 1]
  /\ status' = "down"
  /\ \/ UNCHANGED spool
     \/ /\ "torn" \in Leavings
        /\ arriving # NoEvent /\ ~(st.open /\ Full)
        /\ spool' = Appended(spool, Torn)
  /\ wire' = IF worker.pc = "posted" THEN wire \cup {Batch} ELSE wire
  /\ lost' = lost \cup ({arriving} \ {NoEvent})
  /\ st' = NoState
  /\ arriving' = NoEvent
  /\ worker' = Idle
  /\ admitted' = 0
  /\ UNCHANGED <<cursor, received, made, receipts, queued, shed>>

Enqueue  == EndGap \/ StartGap \/ Drop \/ Queue \/ PushFails
Requests == Admit \/ Receipt \/ OtherEvent \/ GiveUp
Ack      == AckOne \/ CursorFails \/ FinishAck \/ CompactionFails
Worker   == Post \/ Delivered \/ PostFails \/ Ack

Next == Open \/ Enqueue \/ Requests \/ Worker \/ ArrivesLate \/ Crash

Spec == Init /\ [][Next]_vars

(***************************************************************************)
(* Fairness: code that holds the lock goes on, the worker loops for ever,  *)
(* and a SIEM that is asked again and again answers 2xx now and then.      *)
(***************************************************************************)
Fairness == /\ WF_vars(Open) /\ WF_vars(Enqueue) /\ WF_vars(Ack)
            /\ WF_vars(Post) /\ SF_vars(Delivered)

LiveSpec == Spec /\ Fairness
=============================================================================
