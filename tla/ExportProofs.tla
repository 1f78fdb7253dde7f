---------------------------- MODULE ExportProofs ----------------------------
(***************************************************************************)
(* Proofs about the SIEM export (modules SiemExport and ExportProperties). *)
(* There is one lemma for each part of the invariant ExportInv, and in it  *)
(* one step for each kind of action.                                       *)
(***************************************************************************)
EXTENDS ExportInvariants, Inductions, FiniteSetTheorems, FunctionTheorems,
        SequenceTheorems, TLAPS

-----------------------------------------------------------------------------
(* Lines and what a start makes of them.                                   *)

\* An append gives a sequence of lines: the line at the end, or nothing behind a
\* torn one.
LEMMA AppendedIs ==
  ASSUME NEW lines \in Seq(Line), NEW l \in Line
  PROVE  /\ Appended(lines, l) \in Seq(Line)
         /\ Torn \in Elements(lines) => Appended(lines, l) = lines
         /\ Torn \notin Elements(lines) =>
              /\ Len(Appended(lines, l)) = Len(lines) + 1
              /\ Appended(lines, l)[Len(lines) + 1] = l
              /\ \A i \in 1..Len(lines) : Appended(lines, l)[i] = lines[i]
  BY DEF Appended

\* An envelope is not a torn line.
LEMMA TornIsNone == Torn \notin Envelope /\ \A e \in Envelope : e.kind # "torn"
  BY DEF Torn, Envelope

\* What follows the acknowledged lines of a spool that can be read.
LEMMA UnackedIs ==
  ASSUME NEW lines \in Seq(Line), NEW c \in Cursor,
         Torn \notin Elements(lines), MatchesCursor(lines, c)
  PROVE  /\ AckedLines(lines, c) \in 0..Len(lines)
         /\ Unacked(lines, c) \in Seq(Envelope)
         /\ Len(Unacked(lines, c)) = Len(lines) - AckedLines(lines, c)
         /\ \A i \in 1..Len(Unacked(lines, c)) :
              Unacked(lines, c)[i] = lines[AckedLines(lines, c) + i]
<1> DEFINE n == AckedLines(lines, c)
<1>1. \A i \in 1..Len(lines) : lines[i] \in Envelope
  BY DEF Line, Elements
<1>2. n \in 0..Len(lines)
  <2>1. CASE lines = <<>>
    BY <2>1 DEF AckedLines
  <2>2. CASE lines # <<>> /\ lines[1].seq >= c.next
    BY <2>2 DEF AckedLines
  <2>3. CASE lines # <<>> /\ ~(lines[1].seq >= c.next)
    <3>1. lines[1] \in Envelope
      BY <1>1, <2>3
    <3>2. lines[1].seq \in Nat /\ c.next \in Nat
      BY <3>1 DEF Envelope, Cursor
    <3>3. n \in Nat /\ n # 0
      BY <2>3, <3>2 DEF AckedLines
    <3> QED
      BY <2>3, <3>3 DEF MatchesCursor
  <2> QED
    BY <2>1, <2>2, <2>3
<1>3. Unacked(lines, c) = SubSeq(lines, n + 1, Len(lines))
  BY DEF Unacked
<1> HIDE DEF n
<1>4. \A i \in n + 1 .. Len(lines) : lines[i] \in Envelope
  BY <1>1, <1>2
<1>5. /\ SubSeq(lines, n + 1, Len(lines)) \in Seq(Envelope)
      /\ Len(SubSeq(lines, n + 1, Len(lines)))
           = IF n + 1 <= Len(lines) THEN Len(lines) - (n + 1) + 1 ELSE 0
      /\ \A i \in 1 .. Len(lines) - (n + 1) + 1 :
           SubSeq(lines, n + 1, Len(lines))[i] = lines[n + 1 + i - 1]
  BY <1>2, <1>4, SubSeqProperties
<1>6. Len(lines) \in Nat
  OBVIOUS
<1>7. Len(SubSeq(lines, n + 1, Len(lines))) = Len(lines) - n
  BY <1>2, <1>5, <1>6
<1> QED
  BY <1>2, <1>3, <1>5, <1>6, <1>7 DEF n

\* The fields of an envelope.
LEMMA FieldsAre == \A e \in Envelope :
  /\ e.seq \in Nat /\ e.prev \in Nat /\ e.hash \in Nat /\ e.ev \in Nat
  /\ e.kind \in {"event", "started", "ended"}
  BY DEF Envelope

\* A start makes a state of a spool that it accepts.
LEMMA LoadedIs ==
  ASSUME NEW lines \in Seq(Line), NEW c \in Cursor, Loadable(lines, c)
  PROVE  /\ Loaded(lines, c) \in State
         /\ Loaded(lines, c).pending = Unacked(lines, c)
         /\ Loaded(lines, c).nextSeq =
              IF lines = <<>> THEN c.next ELSE lines[Len(lines)].seq + 1
         /\ Loaded(lines, c).lastHash =
              IF lines = <<>> THEN c.hash ELSE lines[Len(lines)].hash
         /\ Loaded(lines, c).open = GapOpenIn(Unacked(lines, c))
<1>1. Unacked(lines, c) \in Seq(Envelope) /\ AckedLines(lines, c) \in Nat
  BY UnackedIs DEF Loadable
<1>2. lines # <<>> => lines[Len(lines)].seq \in Nat /\ lines[Len(lines)].hash \in Nat
  BY DEF Loadable, Line, Elements, Envelope
<1>3. c.next \in Nat /\ c.hash \in Nat
  BY DEF Cursor
<1>4. GapOpenIn(Unacked(lines, c)) \in BOOLEAN
  BY DEF GapOpenIn
<1>5. PICK q, h \in Nat : /\ q = IF lines = <<>> THEN c.next ELSE lines[Len(lines)].seq + 1
                         /\ h = IF lines = <<>> THEN c.hash ELSE lines[Len(lines)].hash
  BY <1>2, <1>3
<1>6. Loaded(lines, c) =
        [NoState EXCEPT !.pending  = Unacked(lines, c),
                        !.nextSeq  = q,
                        !.lastHash = h,
                        !.inFile   = AckedLines(lines, c),
                        !.open     = GapOpenIn(Unacked(lines, c))]
  BY <1>5 DEF Loaded
<1>7. Loaded(lines, c) =
        [pending |-> Unacked(lines, c), nextSeq |-> q, lastHash |-> h,
         inFile |-> AckedLines(lines, c), open |-> GapOpenIn(Unacked(lines, c)),
         dropped |-> 0, ioFailed |-> FALSE]
  BY <1>6 DEF NoState
<1>8. Loaded(lines, c) \in State
  BY <1>1, <1>4, <1>5, <1>7 DEF State
<1> QED
  BY <1>5, <1>7, <1>8

-----------------------------------------------------------------------------
(* What each kind of step does.                                            *)

\* An envelope is appended in memory and in the file: the end of a gap, the start
\* of one, or the event.
Pushes(env) ==
  /\ arriving # NoEvent
  /\ env.seq = st.nextSeq /\ env.prev = st.lastHash
  /\ spool' = Appended(spool, env)
  /\ st' \in State
  /\ st'.pending = Append(st.pending, env)
  /\ st'.nextSeq = st.nextSeq + 1 /\ st'.lastHash = env.hash
  /\ UNCHANGED <<cursor, worker, count, data, lost>>
  /\ made' \in Nat
  /\ \/ /\ env.kind = "ended" /\ st.open /\ ~Full /\ ~st'.open
        /\ UNCHANGED <<arriving, queued, shed>>
     \/ /\ env.kind = "started" /\ ~st.open /\ Full /\ st'.open
        /\ shed' = shed \cup {arriving} /\ arriving' = NoEvent /\ UNCHANGED queued
     \/ /\ env.kind = "event" /\ env.ev = arriving /\ ~st.open /\ ~Full /\ ~st'.open
        /\ queued' = queued \cup {arriving} /\ arriving' = NoEvent /\ UNCHANGED shed

\* An envelope that is next, and what memory holds behind it.
Comes(env) ==
  /\ env \in Envelope
  /\ env.seq = st.nextSeq /\ env.prev = st.lastHash
  /\ Pushed(env) \in State
  /\ Pushed(env).pending = Append(st.pending, env)
  /\ Pushed(env).nextSeq = st.nextSeq + 1
  /\ Pushed(env).lastHash = env.hash
  /\ Pushed(env).open = st.open

LEMMA WrappedIs ==
  ASSUME TypeOK
  PROVE  \A kind \in {"event", "started", "ended"}, e, n \in Nat :
           /\ Comes(Wrapped(kind, e, n))
           /\ Wrapped(kind, e, n).kind = kind /\ Wrapped(kind, e, n).ev = e
<1> TAKE kind \in {"event", "started", "ended"}, e, n \in Nat
<1> DEFINE env == Wrapped(kind, e, n)
<1>1. st.nextSeq \in Nat /\ st.lastHash \in Nat /\ st.pending \in Seq(Envelope) /\ made \in Nat
  BY DEF TypeOK, State
<1>2. /\ env \in Envelope /\ env.seq = st.nextSeq /\ env.prev = st.lastHash
      /\ env.kind = kind /\ env.ev = e
  BY <1>1 DEF Wrapped, Envelope
<1> HIDE DEF env
<1>3. env.hash \in Nat /\ Append(st.pending, env) \in Seq(Envelope)
  BY <1>1, <1>2 DEF Envelope
<1>4. PICK q \in Nat : q = st.nextSeq + 1
  BY <1>1
<1>p. PICK p \in Seq(Envelope) : p = Append(st.pending, env)
  BY <1>3
<1>h. PICK h \in Nat : h = env.hash
  BY <1>3
<1>5. Pushed(env) = [st EXCEPT !.nextSeq = q, !.lastHash = h, !.pending = p]
  BY <1>4, <1>p, <1>h DEF Pushed
<1>s. st \in State
  BY DEF TypeOK
<1>r. Pushed(env) = [pending |-> p, nextSeq |-> q, lastHash |-> h, inFile |-> st.inFile,
                     open |-> st.open, dropped |-> st.dropped, ioFailed |-> st.ioFailed]
  BY <1>5, <1>s DEF State
<1>6. /\ Pushed(env) \in State /\ Pushed(env).pending = p /\ Pushed(env).nextSeq = q
      /\ Pushed(env).lastHash = h /\ Pushed(env).open = st.open
  BY <1>r, <1>s DEF State
<1> QED
  BY <1>2, <1>4, <1>p, <1>h, <1>6 DEF env, Comes

LEMMA PushStep ==
  ASSUME TypeOK, EndGap \/ StartGap \/ Queue
  PROVE  \E env \in Envelope : Pushes(env)
<1>1. st.dropped \in Nat /\ arriving \in Nat /\ NoEvent \in Nat /\ made \in Nat
  BY DEF TypeOK, State, NoEvent
<1>2. CASE EndGap
  <2> DEFINE env == Wrapped("ended", NoEvent, st.dropped)
  <2>1. Comes(env) /\ env.kind = "ended"
    BY <1>1, WrappedIs
  <2>2. st' = [Pushed(env) EXCEPT !.open = FALSE, !.dropped = 0]
    BY <1>2 DEF EndGap
  <2> HIDE DEF env
  <2>3. /\ st' \in State /\ st'.pending = Append(st.pending, env) /\ ~st'.open
        /\ st'.nextSeq = st.nextSeq + 1 /\ st'.lastHash = env.hash
    BY <2>1, <2>2 DEF State, Comes
  <2>4. Pushes(env)
    BY <1>1, <1>2, <2>1, <2>3 DEF EndGap, Pushes, Comes, data, hist, env
  <2> QED
    BY <2>1, <2>4 DEF Comes
<1>3. CASE StartGap
  <2> DEFINE env == Wrapped("started", NoEvent, 0)
  <2>1. Comes(env) /\ env.kind = "started"
    BY <1>1, WrappedIs
  <2>2. st' = [Pushed(env) EXCEPT !.open = TRUE, !.dropped = 1]
    BY <1>3 DEF StartGap
  <2> HIDE DEF env
  <2>3. /\ st' \in State /\ st'.pending = Append(st.pending, env) /\ st'.open
        /\ st'.nextSeq = st.nextSeq + 1 /\ st'.lastHash = env.hash
    BY <2>1, <2>2 DEF State, Comes
  <2>4. Pushes(env)
    BY <1>1, <1>3, <2>1, <2>3 DEF StartGap, Pushes, Comes, data, hist, env
  <2> QED
    BY <2>1, <2>4 DEF Comes
<1>4. CASE Queue
  <2> DEFINE env == Wrapped("event", arriving, 0)
  <2>1. Comes(env) /\ env.kind = "event" /\ env.ev = arriving
    BY <1>1, WrappedIs
  <2>2. Pushes(env)
    BY <1>1, <1>4, <2>1 DEF Queue, Pushes, Comes, data, hist
  <2> QED
    BY <2>1, <2>2 DEF Comes
<1> QED
  BY <1>2, <1>3, <1>4

\* An append fails: the event is lost, the envelope may be in the file.
Strays(env) ==
  /\ arriving # NoEvent
  /\ env.prev = st.lastHash /\ env.seq = st.nextSeq
  /\ env.kind \in {"event", "started", "ended"}
  /\ env.kind = "event" => env.ev = arriving /\ ~st.open /\ ~Full
  /\ env.kind = "ended" <=> st.open
  /\ spool' \in {spool, Appended(spool, env), Appended(spool, Torn)}
  /\ st' = [st EXCEPT !.ioFailed = TRUE]
  /\ made' = made + 1
  /\ count' = [count EXCEPT !.faults = @ + 1]
  /\ lost' = lost \cup {arriving}
  /\ arriving' = NoEvent
  /\ UNCHANGED <<cursor, worker, data, queued, shed>>

LEMMA StrayStep ==
  ASSUME TypeOK, PushFails
  PROVE  \E env \in Envelope : Strays(env)
<1>1. st.dropped \in Nat /\ arriving \in Nat /\ NoEvent \in Nat /\ st.open \in BOOLEAN
  BY DEF TypeOK, State, NoEvent
<1> DEFINE three == {Wrapped("ended", NoEvent, st.dropped),
                     Wrapped("started", NoEvent, 0), Wrapped("event", arriving, 0)}
           kind == IF st.open THEN "ended" ELSE IF Full THEN "started" ELSE "event"
<1>2. \A env \in three :
        Comes(env) /\ (env.kind = "event" => env.ev = arriving)
  BY <1>1, WrappedIs
<1>3. \E env \in three : env.kind = kind
  BY <1>1, WrappedIs
<1>4. Pushing = CHOOSE env \in three : env.kind = kind
  BY DEF Pushing
<1> HIDE DEF three
<1>5. Pushing \in three /\ Pushing.kind = kind
  BY <1>3, <1>4
<1>6. Strays(Pushing)
  BY <1>1, <1>2, <1>5 DEF PushFails, Strays, Comes
<1> QED
  BY <1>2, <1>5, <1>6 DEF Comes

\* What is posted is a part of what is pending.
LEMMA BatchIs ==
  ASSUME TypeOK, WorkerOK, worker.pc # "idle"
  PROVE  /\ status = "up" /\ worker.left \in 0..Len(st.pending)
         /\ Batch \subseteq Elements(st.pending)
         /\ Batch \subseteq Envelope
         /\ IsFiniteSet(Batch)
<1>1. status = "up" /\ worker.left \in 0..Len(st.pending) /\ st.pending \in Seq(Envelope)
  BY DEF TypeOK, WorkerOK, Idle, State
<1>2. \A i \in 1..worker.left : i \in 1..Len(st.pending)
  BY <1>1
<1>3. Batch \subseteq Elements(st.pending) /\ Batch \subseteq Envelope
  BY <1>1, <1>2 DEF Batch, Elements
<1>4. IsFiniteSet(Batch)
  <2>1. IsFiniteSet(1..worker.left)
    BY <1>1, FS_Interval
  <2> DEFINE f == [i \in 1..worker.left |-> st.pending[i]]
  <2>2. f \in Surjection(1..worker.left, Batch)
    BY DEF Surjection, Batch
  <2> QED
    BY <2>1, <2>2, FS_Surjection
<1> QED
  BY <1>1, <1>3, <1>4

\* The head of the queue leaves it.
LEMMA PoppedIs ==
  ASSUME TypeOK, WorkerOK, worker.pc = "acking", worker.left > 0
  PROVE  /\ st.pending \in Seq(Envelope) /\ Len(st.pending) > 0
         /\ st.pending[1] \in Envelope /\ Head(st.pending) = st.pending[1]
         /\ Tail(st.pending) \in Seq(Envelope)
         /\ Len(Tail(st.pending)) = Len(st.pending) - 1
         /\ \A i \in 1..Len(st.pending) - 1 : Tail(st.pending)[i] = st.pending[i + 1]
         /\ Popped \in State /\ Popped.pending = Tail(st.pending)
         /\ Popped.nextSeq = st.nextSeq /\ Popped.lastHash = st.lastHash
         /\ Popped.open = st.open
         /\ AfterAck \in Cursor
         /\ AfterAck.next = st.pending[1].seq + 1 /\ AfterAck.hash = st.pending[1].hash
<1>1. st.pending \in Seq(Envelope) /\ Len(st.pending) > 0 /\ st \in State
  BY BatchIs DEF TypeOK, State
<1>2. /\ st.pending[1] \in Envelope /\ Head(st.pending) = st.pending[1]
      /\ Tail(st.pending) \in Seq(Envelope)
      /\ Len(Tail(st.pending)) = Len(st.pending) - 1
      /\ \A i \in 1..Len(st.pending) - 1 : Tail(st.pending)[i] = st.pending[i + 1]
  BY <1>1
<1>3. PICK t \in Seq(Envelope) : t = Tail(st.pending)
  BY <1>2
<1>4. PICK n \in Nat : n = st.inFile + 1
  BY <1>1 DEF State
<1>5. Popped = [st EXCEPT !.pending = t, !.inFile = n]
  BY <1>3, <1>4 DEF Popped
<1>6. Popped = [pending |-> t, nextSeq |-> st.nextSeq, lastHash |-> st.lastHash, inFile |-> n,
                open |-> st.open, dropped |-> st.dropped, ioFailed |-> st.ioFailed]
  BY <1>1, <1>5 DEF State
<1>7. /\ Popped \in State /\ Popped.pending = Tail(st.pending)
      /\ Popped.nextSeq = st.nextSeq /\ Popped.lastHash = st.lastHash
      /\ Popped.open = st.open
  BY <1>1, <1>3, <1>6 DEF State
<1>8. /\ AfterAck \in Cursor
      /\ AfterAck.next = st.pending[1].seq + 1 /\ AfterAck.hash = st.pending[1].hash
  <2>1. st.pending[1].seq \in Nat /\ st.pending[1].hash \in Nat
    BY <1>2 DEF Envelope
  <2>2. AfterAck = [next |-> st.pending[1].seq + 1, hash |-> st.pending[1].hash]
    BY <1>2 DEF AfterAck
  <2> QED
    BY <2>1, <2>2 DEF Cursor
<1> QED
  BY <1>1, <1>2, <1>7, <1>8

-----------------------------------------------------------------------------
(* Types.                                                                  *)

LEMMA ExportTypeInit == Init => TypeOK
  BY DEF Init, TypeOK, Cursor, State, NoState, Idle, NoEvent, Genesis

\* An append keeps the types.
LEMMA TypePush ==
  ASSUME TypeOK, NEW env \in Envelope, Pushes(env)
  PROVE  TypeOK'
<1>1. spool' \in Seq(Line)
  BY AppendedIs DEF Pushes, TypeOK, Line
<1>2. /\ arriving' \in Nat /\ queued' \subseteq Nat /\ shed' \subseteq Nat
  <2>1. arriving \in Nat /\ queued \subseteq Nat /\ shed \subseteq Nat /\ NoEvent \in Nat
    BY DEF TypeOK, NoEvent
  <2> QED
    BY <2>1 DEF Pushes
<1> QED
  BY <1>1, <1>2 DEF Pushes, TypeOK, data

LEMMA TypeStray ==
  ASSUME TypeOK, NEW env \in Envelope, Strays(env)
  PROVE  TypeOK'
<1>1. spool' \in Seq(Line)
  BY AppendedIs DEF Strays, TypeOK, Line
<1>2. st' \in State
  BY DEF Strays, TypeOK, State
<1>3. /\ arriving' \in Nat /\ made' \in Nat /\ lost' \subseteq Nat
      /\ count' \in [events : Nat, others : Nat, crashes : Nat, faults : Nat]
  <2>1. /\ arriving \in Nat /\ made \in Nat /\ lost \subseteq Nat
        /\ count \in [events : Nat, others : Nat, crashes : Nat, faults : Nat]
    BY DEF TypeOK
  <2>2. /\ arriving' = NoEvent /\ made' = made + 1 /\ lost' = lost \cup {arriving}
        /\ count' = [count EXCEPT !.faults = count.faults + 1]
    BY DEF Strays
  <2> QED
    BY <2>1, <2>2 DEF NoEvent
<1>4. UNCHANGED <<cursor, worker, data, queued, shed>>
  BY DEF Strays
<1> QED
  BY <1>1, <1>2, <1>3, <1>4 DEF TypeOK, data

WorkerType == [pc : {"idle", "posted", "acking"}, left : Nat, failed : BOOLEAN]
CountType  == [events : Nat, others : Nat, crashes : Nat, faults : Nat]

\* The worker keeps the types.
LEMMA TypeWorker ==
  ASSUME TypeOK, WorkerOK, Worker
  PROVE  TypeOK'
<1>w. worker \in WorkerType /\ count \in CountType
  BY DEF TypeOK, WorkerType, CountType
<1>1. CASE Post \/ Delivered \/ PostFails
  <2>1. worker' \in WorkerType
    <3>1. CASE Post
      BY <3>1 DEF Post, WorkerType
    <3>2. CASE Delivered
      <4>1. worker' = [worker EXCEPT !.pc = "acking"]
        BY <3>2 DEF Delivered
      <4> QED
        BY <1>w, <4>1 DEF WorkerType
    <3>3. CASE PostFails
      BY <3>3 DEF PostFails, Idle, WorkerType
    <3> QED
      BY <1>1, <3>1, <3>2, <3>3
  <2>2. Delivered \/ PostFails => Batch \subseteq Envelope
    BY BatchIs DEF Delivered, PostFails
  <2>3. wire' \subseteq SUBSET Envelope /\ received' \subseteq Envelope
    BY <1>1, <2>2 DEF Post, Delivered, PostFails, TypeOK, data
  <2>4. /\ UNCHANGED <<status, spool, cursor, st, arriving, admitted, made, count, receipts,
                       queued, shed, lost>>
    BY <1>1 DEF Post, Delivered, PostFails, data, hist
  <2> QED
    BY <2>1, <2>3, <2>4 DEF TypeOK, WorkerType
<1>2. CASE AckOne \/ CursorFails
  <2>1. Popped \in State /\ AfterAck \in Cursor
    BY <1>2, PoppedIs DEF AckOne, CursorFails
  <2>2. worker' \in WorkerType
    <3>1. worker.left - 1 \in Nat
      BY <1>2, <1>w DEF AckOne, CursorFails, WorkerType
    <3>2. \/ worker' = [worker EXCEPT !.left = @ - 1]
          \/ worker' = [worker EXCEPT !.left = @ - 1, !.failed = TRUE]
      BY <1>2 DEF AckOne, CursorFails
    <3> QED
      BY <1>w, <3>1, <3>2 DEF WorkerType
  <2>3. count' \in CountType
    <3>1. count' = count \/ count' = [count EXCEPT !.faults = @ + 1]
      BY <1>2 DEF AckOne, CursorFails
    <3> QED
      BY <1>w, <3>1 DEF CountType
  <2>4. cursor' \in Cursor /\ st' \in State
    BY <1>2, <2>1 DEF AckOne, CursorFails, TypeOK
  <2>5. UNCHANGED <<spool, arriving, made, data, hist>>
    BY <1>2 DEF AckOne, CursorFails
  <2> QED
    BY <2>2, <2>3, <2>4, <2>5 DEF TypeOK, data, hist, WorkerType, CountType
<1>3. CASE FinishAck \/ CompactionFails
  <2>1. st.pending \in Seq(Line)
    <3>1. st.pending \in Seq(Envelope)
      BY DEF TypeOK, State
    <3> QED
      BY <3>1, SeqMonotonic DEF Line
  <2>2. spool' \in Seq(Line)
    BY <1>3, <2>1 DEF FinishAck, CompactionFails, TypeOK
  <2>3. st' \in State
    BY <1>3 DEF FinishAck, CompactionFails, TypeOK, State
  <2>4. count' \in CountType
    <3>1. count' = count \/ count' = [count EXCEPT !.faults = @ + 1]
      BY <1>3 DEF FinishAck, CompactionFails
    <3> QED
      BY <1>w, <3>1 DEF CountType
  <2>5. worker' = Idle /\ UNCHANGED <<cursor, arriving, made, data, hist>>
    BY <1>3 DEF FinishAck, CompactionFails
  <2>6. Idle \in WorkerType
    BY DEF Idle, WorkerType
  <2> QED
    BY <2>2, <2>3, <2>4, <2>5, <2>6 DEF TypeOK, data, hist, WorkerType, CountType
<1> QED
  BY <1>1, <1>2, <1>3 DEF Worker, Ack

\* Requests, a start, a late batch and a crash keep the types.
LEMMA TypeOthers ==
  ASSUME TypeOK, WorkerOK, Requests \/ Drop \/ Open \/ ArrivesLate \/ Crash
  PROVE  TypeOK'
<1>w. count \in CountType
  BY DEF TypeOK, CountType
<1>1. CASE Requests
  <2>1. count' \in CountType
    <3>1. PICK n, m \in Nat : n = count.events + 1 /\ m = count.others + 1
      <4>1. count.events + 1 \in Nat /\ count.others + 1 \in Nat
        BY <1>w DEF CountType
      <4> QED
        BY <4>1
    <3>2. \/ count' = count \/ count' = [count EXCEPT !.events = n]
          \/ count' = [count EXCEPT !.events = n, !.others = m]
      BY <1>1, <3>1 DEF Requests, Admit, Receipt, OtherEvent, GiveUp
    <3> QED
      BY <1>w, <3>2 DEF CountType
  <2>2. admitted' \in Nat /\ arriving' \in Nat /\ receipts' \subseteq Nat
    <3>1. /\ admitted \in Nat /\ arriving \in Nat /\ receipts \subseteq Nat
          /\ count.events + 1 \in Nat
      BY <1>w DEF TypeOK, CountType
    <3> QED
      BY <1>1, <3>1 DEF Requests, Admit, Receipt, OtherEvent, GiveUp, data
  <2>3. UNCHANGED <<status, spool, cursor, st, worker, wire, received, made, hist>>
    BY <1>1 DEF Requests, Admit, Receipt, OtherEvent, GiveUp, data
  <2> QED
    BY <2>1, <2>2, <2>3 DEF TypeOK, hist, CountType
<1>2. CASE Drop
  <2>1. st' \in State
    <3>1. st \in State /\ st' = [st EXCEPT !.dropped = @ + 1]
      BY <1>2 DEF Drop, TypeOK
    <3> QED
      BY <3>1 DEF State
  <2> QED
    BY <1>2, <2>1 DEF Drop, TypeOK, data, NoEvent
<1>3. CASE Open
  <2>1. Loadable(spool, cursor) => Loaded(spool, cursor) \in State
    BY LoadedIs DEF TypeOK
  <2> QED
    BY <1>3, <2>1 DEF Open, TypeOK, hist
<1>4. CASE ArrivesLate
  BY <1>4 DEF ArrivesLate, TypeOK, hist
<1>5. CASE Crash
  <2>1. NoState \in State
    BY DEF NoState, State, Genesis
  <2>2. spool' \in Seq(Line)
    BY <1>5, AppendedIs DEF Crash, TypeOK, Line
  <2>3. wire' \subseteq SUBSET Envelope
    BY <1>5, BatchIs DEF Crash, TypeOK
  <2>4. count' \in CountType
    <3>1. count' = [count EXCEPT !.crashes = @ + 1]
      BY <1>5 DEF Crash
    <3> QED
      BY <1>w, <3>1 DEF CountType
  <2>5. /\ worker' \in WorkerType /\ status' = "down" /\ lost' \subseteq Nat
        /\ st' = NoState /\ arriving' = 0 /\ admitted' = 0
        /\ UNCHANGED <<cursor, received, made, receipts, queued, shed>>
    BY <1>5 DEF Crash, TypeOK, NoEvent, Idle, WorkerType
  <2> QED
    BY <2>1, <2>2, <2>3, <2>4, <2>5 DEF TypeOK, WorkerType, CountType
<1> QED
  BY <1>1, <1>2, <1>3, <1>4, <1>5

LEMMA ExportTypeStep == TypeOK /\ WorkerOK /\ [Next]_vars => TypeOK'
<1> SUFFICES ASSUME TypeOK, WorkerOK, [Next]_vars PROVE TypeOK'
  OBVIOUS
<1>1. CASE EndGap \/ StartGap \/ Queue
  BY <1>1, PushStep, TypePush
<1>2. CASE PushFails
  BY <1>2, StrayStep, TypeStray
<1>3. CASE Worker
  BY <1>3, TypeWorker
<1>4. CASE Requests \/ Drop \/ Open \/ ArrivesLate \/ Crash
  BY <1>4, TypeOthers
<1>5. CASE UNCHANGED vars
  BY <1>5 DEF vars, TypeOK
<1> QED
  BY <1>1, <1>2, <1>3, <1>4, <1>5 DEF Next, Enqueue

-----------------------------------------------------------------------------
(* The lock and the worker.                                                *)

\* The queue keeps its beginning while the worker waits for an answer.
LEMMA BatchStays ==
  ASSUME TypeOK, WorkerOK, worker.pc # "idle", worker'.left = worker.left,
         \A i \in 1..Len(st.pending) : st'.pending[i] = st.pending[i]
  PROVE  Batch' = Batch
<1>1. \A i \in 1..worker.left : i \in 1..Len(st.pending)
  BY BatchIs DEF TypeOK, State
<1> QED
  BY <1>1 DEF Batch

\* An append keeps what the worker relies on.
LEMMA WorkerPush ==
  ASSUME TypeOK, WorkerOK, NEW env \in Envelope, Pushes(env)
  PROVE  WorkerOK'
<1>1. /\ st.pending \in Seq(Envelope) /\ st.nextSeq \in Nat
      /\ worker.left \in Nat /\ cursor.next \in Nat
  BY DEF TypeOK, State, Cursor
<1>2. /\ Len(st'.pending) = Len(st.pending) + 1
      /\ \A i \in 1..Len(st.pending) : st'.pending[i] = st.pending[i]
  BY <1>1 DEF Pushes
<1>3. worker.pc = "acking" => Batch' = Batch
  BY <1>2, BatchStays DEF Pushes
<1>4. /\ status = "up" /\ UNCHANGED <<status, worker, cursor, received>>
      /\ st'.nextSeq = st.nextSeq + 1
  BY DEF Pushes, WorkerOK, data
<1>5. worker.pc = "posted" => worker.left \in 1..Len(st'.pending)
  BY <1>1, <1>2 DEF WorkerOK
<1>6. worker.pc = "acking" =>
        /\ worker.left \in 0..Len(st'.pending)
        /\ worker.left = 0 /\ ~worker.failed
             => cursor.next + Len(st'.pending) = st'.nextSeq
  BY <1>1, <1>2, <1>4 DEF WorkerOK
<1> QED
  BY <1>3, <1>4, <1>5, <1>6 DEF WorkerOK

\* Neither do steps that leave the queue and the cursor as they are.
LEMMA WorkerWaits ==
  ASSUME TypeOK, WorkerOK,
         UNCHANGED <<cursor, worker, status>>, received \subseteq received',
         UNCHANGED <<arriving, admitted>> \/ status = "up",
         st'.pending = st.pending, st'.nextSeq = st.nextSeq,
         status = "up" \/ UNCHANGED spool
  PROVE  WorkerOK'
<1>1. Batch' = Batch
  BY DEF Batch
<1> QED
  BY <1>1 DEF WorkerOK

LEMMA WorkerWorks ==
  ASSUME TypeOK, WorkerOK, Numbered, Worker
  PROVE  WorkerOK'
<1>0. /\ st.pending \in Seq(Envelope) /\ st.nextSeq \in Nat /\ worker \in WorkerType
      /\ cursor.next \in Nat /\ Len(st.pending) \in Nat
  BY DEF TypeOK, State, Cursor, WorkerType
<1>1. CASE Post
  <2>1. PICK n \in 1..Len(st.pending) :
          worker' = [pc |-> "posted", left |-> n, failed |-> FALSE]
    BY <1>1 DEF Post
  <2>2. status = "up" /\ UNCHANGED <<spool, cursor, st, arriving, data>>
    BY <1>1 DEF Post
  <2> QED
    BY <2>1, <2>2 DEF WorkerOK, data
<1>2. CASE Delivered
  <2>1. worker.pc = "posted" /\ worker' = [worker EXCEPT !.pc = "acking"]
        /\ received' = received \cup Batch
        /\ UNCHANGED <<status, spool, cursor, st, arriving>>
    BY <1>2 DEF Delivered
  <2>2. worker'.pc = "acking" /\ worker'.left = worker.left /\ worker.left \in 1..Len(st.pending)
    BY <1>0, <2>1 DEF WorkerOK, WorkerType
  <2>3. Batch' = Batch
    BY <2>1, <2>2 DEF Batch
  <2> QED
    BY <1>0, <2>1, <2>2, <2>3, BatchIs DEF WorkerOK
<1>3. CASE PostFails
  <2>1. worker' = Idle /\ worker.pc = "posted"
        /\ UNCHANGED <<status, spool, cursor, st, arriving, received>>
    BY <1>3 DEF PostFails
  <2> QED
    BY <2>1 DEF WorkerOK, Idle
<1>4. CASE AckOne \/ CursorFails
  <2>1. /\ worker.pc = "acking" /\ worker.left > 0 /\ st' = Popped
        /\ UNCHANGED <<spool, arriving, data>>
        /\ \/ /\ worker' = [worker EXCEPT !.left = @ - 1] /\ cursor' = AfterAck
           \/ worker' = [worker EXCEPT !.left = @ - 1, !.failed = TRUE]
    BY <1>4 DEF AckOne, CursorFails
  <2>2. /\ worker.left \in Nat /\ worker.left > 0
        /\ worker.left - 1 \in Nat /\ worker.left <= Len(st.pending)
        /\ 1 \in 1..Len(st.pending)
        /\ status = "up" /\ Batch \subseteq received
    BY <1>0, <2>1, BatchIs DEF WorkerOK, WorkerType
  <2>3. /\ worker'.pc = "acking" /\ worker'.left = worker.left - 1
        /\ cursor' = AfterAck \/ worker'.failed
    BY <1>0, <2>1, <2>2 DEF WorkerType
  <2>4. /\ st'.nextSeq = st.nextSeq /\ Len(st'.pending) = Len(st.pending) - 1
        /\ \A i \in 1..Len(st.pending) - 1 : st'.pending[i] = st.pending[i + 1]
        /\ st.pending[1] \in Envelope /\ AfterAck.next = st.pending[1].seq + 1
    BY <2>1, PoppedIs
  <2>5. Batch' \subseteq Batch
    <3> SUFFICES ASSUME NEW i \in 1..worker'.left
                 PROVE  st'.pending[i] \in Batch
      BY DEF Batch
    <3>1. i \in 1..Len(st.pending) - 1 /\ i + 1 \in 1..worker.left
      BY <1>0, <2>2, <2>3
    <3> QED
      BY <2>4, <3>1 DEF Batch
  <2>6. AfterAck.next + Len(st'.pending) = st'.nextSeq
    <3>1. Numbers(st.pending, st.nextSeq)
      BY <2>2 DEF Numbered, Alive, Now
    <3>2. st.pending[1].seq + Len(st.pending) + 1 = st.nextSeq + 1 /\ st.pending[1].seq \in Nat
      BY <1>0, <2>2, <2>4, <3>1 DEF Numbers, Envelope
    <3>3. st.pending[1].seq \in Nat /\ Len(st.pending) \in Nat /\ st.nextSeq \in Nat
      BY <1>0, <3>2
    <3>4. \A a, l, n \in Nat : a + l + 1 = n + 1 => (a + 1) + (l - 1) = n
      OBVIOUS
    <3>5. (st.pending[1].seq + 1) + (Len(st.pending) - 1) = st.nextSeq
      BY <3>2, <3>3, <3>4
    <3> QED
      BY <2>4, <3>5
  <2>7. received' = received /\ status' = "up"
    BY <2>1, <2>2 DEF data
  <2>8. worker'.left \in 0..Len(st'.pending)
    BY <1>0, <2>2, <2>3, <2>4
  <2> QED
    BY <1>0, <2>2, <2>3, <2>4, <2>5, <2>6, <2>7, <2>8 DEF WorkerOK
<1>5. CASE FinishAck \/ CompactionFails
  <2>1. worker' = Idle /\ worker.pc = "acking"
        /\ UNCHANGED <<status, cursor, arriving, received>>
    BY <1>5 DEF FinishAck, CompactionFails, data
  <2>2. status = "up"
    BY <2>1, BatchIs
  <2> QED
    BY <2>1, <2>2 DEF WorkerOK, Idle
<1> QED
  BY <1>1, <1>2, <1>3, <1>4, <1>5 DEF Worker, Ack

LEMMA WorkerStep == TypeOK /\ WorkerOK /\ Numbered /\ [Next]_vars => WorkerOK'
<1> SUFFICES ASSUME TypeOK, WorkerOK, Numbered, [Next]_vars PROVE WorkerOK'
  OBVIOUS
<1>1. CASE EndGap \/ StartGap \/ Queue
  BY <1>1, PushStep, WorkerPush
<1>2. CASE PushFails
  <2>1. st \in State
    BY DEF TypeOK
  <2>2. st'.pending = st.pending /\ st'.nextSeq = st.nextSeq
    BY <1>2, <2>1 DEF PushFails, State
  <2>3. status = "up"
    BY <1>2 DEF PushFails, WorkerOK
  <2> QED
    BY <1>2, <2>2, <2>3, WorkerWaits DEF PushFails, data
<1>3. CASE Worker
  BY <1>3, WorkerWorks
<1>4. CASE Requests
  <2>1. status = "up"
    BY <1>4 DEF Requests, Admit, Receipt, OtherEvent, GiveUp, WorkerOK
  <2>2. UNCHANGED <<status, spool, cursor, st, worker, received>>
    BY <1>4 DEF Requests, Admit, Receipt, OtherEvent, GiveUp, data
  <2> QED
    BY <2>1, <2>2, WorkerWaits
<1>5. CASE Drop
  <2>1. st \in State
    BY DEF TypeOK
  <2>2. st'.pending = st.pending /\ st'.nextSeq = st.nextSeq
    BY <1>5, <2>1 DEF Drop, State
  <2>3. status = "up" /\ UNCHANGED <<status, spool, cursor, worker, received>>
    BY <1>5 DEF Drop, WorkerOK, data
  <2> QED
    BY <2>2, <2>3, WorkerWaits
<1>6. CASE ArrivesLate
  BY <1>6, WorkerWaits DEF ArrivesLate
<1>7. CASE Open
  <2>1. worker = Idle /\ arriving = NoEvent /\ admitted = 0
        /\ UNCHANGED <<worker, arriving, admitted, spool, cursor>>
        /\ status' = IF Loadable(spool, cursor) THEN "up" ELSE "refused"
    BY <1>7 DEF Open, WorkerOK
  <2> QED
    BY <2>1 DEF WorkerOK, Idle
<1>8. CASE Crash
  BY <1>8 DEF Crash, WorkerOK, Idle
<1>9. CASE UNCHANGED vars
  BY <1>9, WorkerWaits DEF vars
<1> QED
  BY <1>1, <1>2, <1>3, <1>4, <1>5, <1>6, <1>7, <1>8, <1>9 DEF Next, Enqueue

-----------------------------------------------------------------------------
(* The slots that admission leaves free.                                   *)

Room(len, adm, n, others) == len + adm + n + MaxOthers <= Cap + others

LEMMA RoomIs ==
  /\ \A l, a, m \in Nat :
       MaxInFlight + MaxOthers <= Headroom /\ l + Headroom <= Cap /\ a < MaxInFlight
         => a + 1 <= MaxInFlight /\ Room(l, a + 1, 0, m)
  /\ \A l, a, m \in Nat : a > 0 /\ Room(l, a, 0, m) => Room(l, a - 1, 1, m)
  /\ \A l, a, m \in Nat : Room(l, a, 0, m) => Room(l, a, 1, m + 1)
  /\ \A l, a, n, m \in Nat : a > 0 /\ Room(l, a, n, m) => Room(l, a - 1, n, m)
  /\ \A l, a, m \in Nat : Room(l, a, 1, m) => Room(l + 1, a, 0, m) /\ Room(l, a, 0, m)
  /\ \A l, a, n, m \in Nat : l > 0 /\ Room(l, a, n, m) => Room(l - 1, a, n, m)
  /\ \A l, a, m \in Nat : m <= MaxOthers /\ Room(l, a, 1, m) => l < Cap
<1>1. Cap \in Nat /\ Headroom \in Nat /\ MaxInFlight \in Nat /\ MaxOthers \in Nat
  BY CapAssumption, ExportBoundsAssumption
<1> QED
  BY <1>1 DEF Room

Taken == IF arriving = NoEvent THEN 0 ELSE 1

\* The parts of Reserved, for a buffer that keeps slots for all that may come.
Kept ==
  /\ admitted <= MaxInFlight /\ count.others <= MaxOthers
  /\ admitted > 0 \/ arriving \in receipts =>
       ~st.open /\ Room(Len(st.pending), admitted, Taken, count.others)
  /\ \A e \in receipts \cup shed : e \in 1..count.events
  /\ receipts \cap shed = {} /\ arriving \notin shed

LEMMA ReservedIs == Reserved <=> (FailClosed /\ MaxInFlight + MaxOthers <= Headroom => Kept)
  BY DEF Reserved, Kept, Room, Taken

LEMMA KeptTypes ==
  ASSUME TypeOK
  PROVE  /\ Len(st.pending) \in Nat /\ admitted \in Nat /\ arriving \in Nat
         /\ count \in CountType
         /\ count.events \in Nat /\ count.others \in Nat
         /\ MaxInFlight \in Nat /\ MaxOthers \in Nat /\ Cap \in Nat /\ Headroom \in Nat
         /\ count.events + 1 \notin 1..count.events /\ NoEvent \notin 1..count.events
<1>1. count \in CountType
  BY DEF TypeOK, CountType
<1>2. count.events \in Nat /\ count.others \in Nat
  BY <1>1 DEF CountType
<1>3. \A n \in Nat : n + 1 \notin 1..n /\ NoEvent \notin 1..n
  BY DEF NoEvent
<1> QED
  BY <1>1, <1>2, <1>3, CapAssumption, ExportBoundsAssumption DEF TypeOK, State

\* A step of a caller keeps the slots.
LEMMA KeptRequests ==
  ASSUME TypeOK, WorkerOK, FailClosed, MaxInFlight + MaxOthers <= Headroom, Kept, Requests
  PROVE  Kept'
<1>1. UNCHANGED <<st, shed>>
  BY DEF Requests, Admit, Receipt, OtherEvent, GiveUp, hist
<1>2. CASE Admit
  <2>1. /\ arriving = NoEvent /\ ~st.open
        /\ Len(st.pending) + Headroom <= Cap /\ admitted' = admitted + 1
        /\ admitted < MaxInFlight
        /\ UNCHANGED <<arriving, count, receipts>>
    BY <1>2 DEF Admit, Admits, Locked, hist
  <2>2. admitted + 1 <= MaxInFlight /\ Room(Len(st.pending), admitted + 1, 0, count.others)
    BY <2>1, KeptTypes, RoomIs
  <2> QED
    BY <1>1, <2>1, <2>2 DEF Kept, Taken, Room
<1>3. CASE Receipt
  <2>1. /\ arriving = NoEvent /\ arriving' = count.events + 1
        /\ admitted > 0 /\ admitted' = admitted - 1
        /\ receipts' = receipts \cup {count.events + 1}
        /\ count' = [count EXCEPT !.events = @ + 1]
    BY <1>3 DEF Receipt, Locked
  <2>2. count'.others = count.others /\ count'.events = count.events + 1
    BY <2>1, KeptTypes DEF CountType
  <2>3. ~st.open /\ Room(Len(st.pending), admitted - 1, 1, count.others)
    BY <2>1, KeptTypes, RoomIs DEF Kept, Taken
  <2>4. Taken' = 1 /\ admitted' <= MaxInFlight
    BY <2>1, KeptTypes DEF Taken, NoEvent, Kept
  <2>5. \A e \in receipts' \cup shed : e \in 1..count'.events
    BY <2>1, <2>2, KeptTypes DEF Kept
  <2>6. receipts' \cap shed = {} /\ arriving' \notin shed
    BY <2>1, KeptTypes DEF Kept
  <2> QED
    BY <1>1, <2>1, <2>2, <2>3, <2>4, <2>5, <2>6 DEF Kept, Room
<1>4. CASE OtherEvent
  <2>1. /\ arriving = NoEvent /\ arriving' = count.events + 1
        /\ count.others < MaxOthers
        /\ UNCHANGED <<admitted, receipts>>
        /\ count' = [count EXCEPT !.events = @ + 1, !.others = @ + 1]
    BY <1>4 DEF OtherEvent, Locked, data
  <2>2. count'.others = count.others + 1 /\ count'.events = count.events + 1
    BY <2>1, KeptTypes DEF CountType
  <2>3. admitted > 0 => ~st.open /\ Room(Len(st.pending), admitted, 1, count.others + 1)
    BY <2>1, KeptTypes, RoomIs DEF Kept, Taken
  <2>4. Taken' = 1 /\ arriving' \notin receipts \cup shed /\ count.others + 1 <= MaxOthers
    BY <2>1, KeptTypes DEF Taken, NoEvent, Kept
  <2>5. \A e \in receipts \cup shed : e \in 1..count'.events
    BY <2>2, KeptTypes DEF Kept
  <2> QED
    BY <1>1, <2>1, <2>2, <2>3, <2>4, <2>5 DEF Kept, Room
<1>5. CASE GiveUp
  <2>1. admitted > 0 /\ admitted' = admitted - 1 /\ UNCHANGED <<arriving, count, receipts>>
    BY <1>5 DEF GiveUp
  <2>2. Taken \in Nat /\ admitted - 1 <= MaxInFlight
    BY <2>1, KeptTypes DEF Taken, Kept
  <2>3. ~st.open /\ Room(Len(st.pending), admitted - 1, Taken, count.others)
    BY <2>1, <2>2, KeptTypes, RoomIs DEF Kept
  <2> QED
    BY <1>1, <2>1, <2>2, <2>3 DEF Kept, Room, Taken
<1> QED
  BY <1>2, <1>3, <1>4, <1>5 DEF Requests

\* What enqueue does with an event keeps the slots: there is room for a receipt.
LEMMA KeptEnqueue ==
  ASSUME TypeOK, WorkerOK, Ordered, FailClosed, MaxInFlight + MaxOthers <= Headroom, Kept,
         Enqueue
  PROVE  Kept'
<1>0. /\ arriving # NoEvent /\ UNCHANGED <<admitted, receipts>>
      /\ arriving \in receipts => ~st.open /\ ~Full
      /\ admitted > 0 => ~st.open /\ ~Full
      /\ count'.others = count.others /\ count'.events = count.events
  <2>1. arriving # NoEvent /\ UNCHANGED <<admitted, receipts>>
    BY DEF Enqueue, EndGap, StartGap, Drop, Queue, PushFails, data
  <2>2. admitted > 0 \/ arriving \in receipts =>
          ~st.open /\ Len(st.pending) < Cap
    BY <2>1, KeptTypes, RoomIs DEF Kept, Taken
  <2>3. count' = count \/ count' = [count EXCEPT !.faults = @ + 1]
    BY DEF Enqueue, EndGap, StartGap, Drop, Queue, PushFails
  <2>4. count'.others = count.others /\ count'.events = count.events
    BY <2>3, KeptTypes DEF CountType
  <2> QED
    BY <2>1, <2>2, <2>4, KeptTypes DEF Full
<1>1. arriving \in 1..count.events
  BY <1>0, KeptTypes DEF Ordered, NoEvent
<1>2. CASE st.open \/ Full
  <2>1. ~(admitted > 0) /\ arriving \notin receipts
    BY <1>0, <1>2
  <2>2. arriving' \in {arriving, NoEvent} /\ shed' \subseteq shed \cup {arriving}
        /\ (arriving' = arriving => shed' = shed)
    BY <1>0 DEF Enqueue, EndGap, StartGap, Drop, Queue, PushFails, data, hist
  <2>3. NoEvent \notin receipts \cup shed' /\ \A e \in receipts \cup shed' : e \in 1..count.events
    BY <1>1, <2>2, KeptTypes DEF Kept
  <2>4. receipts \cap shed' = {} /\ arriving' \notin shed'
    BY <1>0, <2>1, <2>2, <2>3 DEF Kept
  <2>5. arriving' \notin receipts
    BY <2>1, <2>2, <2>3
  <2> QED
    BY <1>0, <2>1, <2>3, <2>4, <2>5 DEF Kept
<1>3. CASE ~st.open /\ ~Full
  <2>1. Queue \/ PushFails
    BY <1>3 DEF Enqueue, EndGap, StartGap, Drop
  <2>2. arriving' = NoEvent /\ shed' = shed
    BY <2>1 DEF Queue, PushFails
  <2>3. /\ ~st'.open
        /\ Len(st'.pending) \in {Len(st.pending), Len(st.pending) + 1}
    <3>1. CASE Queue
      <4>1. PICK env \in Envelope : Pushes(env)
        BY <3>1, PushStep
      <4>2. st.pending \in Seq(Envelope)
        BY DEF TypeOK, State
      <4> QED
        BY <1>3, <4>1, <4>2 DEF Pushes
    <3>2. CASE PushFails
      BY <1>3, <3>2 DEF PushFails, TypeOK, State
    <3> QED
      BY <2>1, <3>1, <3>2
  <2>4. admitted > 0 => Room(Len(st'.pending), admitted, 0, count.others)
    <3>1. admitted > 0 => Room(Len(st.pending), admitted, 1, count.others)
      BY <1>0 DEF Kept, Taken
    <3> QED
      BY <2>3, <3>1, KeptTypes, RoomIs
  <2>5. NoEvent \notin receipts \cup shed
    BY KeptTypes DEF Kept
  <2> QED
    BY <1>0, <2>2, <2>3, <2>4, <2>5 DEF Kept, Taken, Room
<1> QED
  BY <1>2, <1>3

\* Neither do the worker, a start and a crash take slots.
LEMMA KeptOthers ==
  ASSUME TypeOK, WorkerOK, FailClosed, MaxInFlight + MaxOthers <= Headroom, Kept,
         Worker \/ Open \/ ArrivesLate \/ Crash
  PROVE  Kept'
<1>1. /\ UNCHANGED <<receipts, shed>>
      /\ count'.others = count.others /\ count'.events = count.events
  <2>1. UNCHANGED <<receipts, shed>>
    BY DEF Worker, Ack, Post, Delivered, PostFails, AckOne, CursorFails, FinishAck,
           CompactionFails, Open, ArrivesLate, Crash, data, hist
  <2>2. \/ count' = count \/ count' = [count EXCEPT !.faults = @ + 1]
        \/ count' = [count EXCEPT !.crashes = @ + 1]
    BY DEF Worker, Ack, Post, Delivered, PostFails, AckOne, CursorFails, FinishAck,
           CompactionFails, Open, ArrivesLate, Crash
  <2> QED
    BY <2>1, <2>2, KeptTypes DEF CountType
<1>2. NoEvent \notin receipts \cup shed
  BY KeptTypes DEF Kept
<1>3. CASE Worker
  <2>1. UNCHANGED <<arriving, admitted>>
    BY <1>3 DEF Worker, Ack, Post, Delivered, PostFails, AckOne, CursorFails, FinishAck,
           CompactionFails, data
  <2>2. /\ st'.open = st.open
        /\ \/ Len(st'.pending) = Len(st.pending)
           \/ Len(st.pending) > 0 /\ Len(st'.pending) = Len(st.pending) - 1
    <3>1. CASE Post \/ Delivered \/ PostFails
      BY <3>1 DEF Post, Delivered, PostFails
    <3>2. CASE AckOne \/ CursorFails
      BY <3>2, PoppedIs DEF AckOne, CursorFails
    <3>3. CASE FinishAck \/ CompactionFails
      BY <3>3 DEF FinishAck, CompactionFails, TypeOK, State
    <3> QED
      BY <1>3, <3>1, <3>2, <3>3 DEF Worker, Ack
  <2>3. Taken \in Nat
    BY DEF Taken
  <2>4. \A m \in Nat : Room(Len(st.pending), admitted, Taken, m)
                       => Room(Len(st'.pending), admitted, Taken, m)
    BY <2>2, <2>3, KeptTypes, RoomIs
  <2> QED
    BY <1>1, <2>1, <2>2, <2>4, KeptTypes DEF Kept, Taken, Room
<1>4. CASE Open
  <2>1. admitted' = 0 /\ arriving' = NoEvent
    BY <1>4 DEF Open, WorkerOK
  <2> QED
    BY <1>1, <1>2, <2>1, KeptTypes DEF Kept
<1>5. CASE ArrivesLate
  BY <1>1, <1>5 DEF ArrivesLate, Kept, Taken, Room
<1>6. CASE Crash
  <2>1. admitted' = 0 /\ arriving' = NoEvent
    BY <1>6 DEF Crash
  <2> QED
    BY <1>1, <1>2, <2>1, KeptTypes DEF Kept
<1> QED
  BY <1>3, <1>4, <1>5, <1>6

LEMMA ReservedStep ==
  TypeOK /\ WorkerOK /\ Ordered /\ Reserved /\ [Next]_vars => Reserved'
<1> SUFFICES ASSUME TypeOK, WorkerOK, Ordered, Reserved, [Next]_vars,
                    FailClosed, MaxInFlight + MaxOthers <= Headroom
             PROVE  Kept'
  BY ReservedIs DEF Reserved, Kept, Room, Taken
<1>1. Kept
  BY ReservedIs
<1>2. CASE Requests
  BY <1>1, <1>2, KeptRequests
<1>3. CASE Enqueue
  BY <1>1, <1>3, KeptEnqueue
<1>4. CASE Worker \/ Open \/ ArrivesLate \/ Crash
  BY <1>1, <1>4, KeptOthers
<1>5. CASE UNCHANGED vars
  BY <1>1, <1>5 DEF vars, Kept, Taken, Room, hist
<1> QED
  BY <1>2, <1>3, <1>4, <1>5 DEF Next

-----------------------------------------------------------------------------
(* The feed: what is received, may arrive, or is pending.                  *)

\* What the next state holds of the queue is what this one holds.
SameQueue ==
  /\ UNCHANGED cursor
  /\ Alive' = Alive
  /\ Alive => /\ Now'.pending = Now.pending /\ Now'.nextSeq = Now.nextSeq
              /\ Now'.lastHash = Now.lastHash /\ Now'.open = Now.open

\* What the outside sees: nothing new, a batch of the worker, or a late batch.
Feeds ==
  \/ UNCHANGED <<received, wire>>
  \/ worker.pc # "idle" /\ received' = received \cup Batch /\ UNCHANGED wire
  \/ worker.pc # "idle" /\ wire' = wire \cup {Batch} /\ UNCHANGED received
  \/ \E b \in wire : received' = received \cup b /\ wire' = wire \ {b}

LEMMA QuietStep ==
  ASSUME TypeOK, WorkerOK,
         \/ PushFails \/ Drop \/ Requests \/ Post \/ Delivered \/ PostFails
         \/ FinishAck \/ CompactionFails
  PROVE  /\ status = "up" /\ status' = "up" /\ UNCHANGED cursor
         /\ st'.pending = st.pending /\ st'.nextSeq = st.nextSeq
         /\ st'.lastHash = st.lastHash /\ st'.open = st.open
         /\ Feeds
<1>1. st \in State
  BY DEF TypeOK
<1>2. CASE Post \/ Delivered \/ PostFails
  BY <1>2, BatchIs DEF Post, Delivered, PostFails, WorkerOK, Idle, Feeds, data
<1>3. CASE Requests
  BY <1>3 DEF Requests, Admit, Receipt, OtherEvent, GiveUp, WorkerOK, Feeds, data
<1>4. CASE PushFails \/ Drop
  <2>1. /\ status = "up" /\ status' = "up" /\ UNCHANGED <<cursor, received, wire>>
        /\ st' = [st EXCEPT !.ioFailed = TRUE] \/ st' = [st EXCEPT !.dropped = @ + 1]
    BY <1>4 DEF PushFails, Drop, WorkerOK, data
  <2> QED
    BY <1>1, <2>1 DEF State, Feeds
<1>5. CASE FinishAck \/ CompactionFails
  <2>1. /\ status = "up" /\ status' = "up" /\ UNCHANGED <<cursor, received, wire>>
        /\ \/ st' = [st EXCEPT !.ioFailed = TRUE] \/ st' = [st EXCEPT !.inFile = 0]
           \/ st' = [st EXCEPT !.ioFailed = @ \/ worker.failed]
    BY <1>5 DEF FinishAck, CompactionFails, WorkerOK, Idle, data
  <2> QED
    BY <1>1, <2>1 DEF State, Feeds
<1> QED
  BY <1>2, <1>3, <1>4, <1>5

Stays ==
  \/ PushFails \/ Drop \/ Requests \/ Post \/ Delivered \/ PostFails
  \/ FinishAck \/ CompactionFails \/ Open \/ ArrivesLate \/ UNCHANGED vars

LEMMA SameStep ==
  ASSUME TypeOK, WorkerOK, Stays
  PROVE  SameQueue /\ Feeds
<1>1. CASE \/ PushFails \/ Drop \/ Requests \/ Post \/ Delivered \/ PostFails
           \/ FinishAck \/ CompactionFails
  BY <1>1, QuietStep DEF SameQueue, Alive, Now
<1>2. CASE Open
  BY <1>2 DEF Open, SameQueue, Feeds, Alive, Now
<1>3. CASE ArrivesLate
  <2>1. UNCHANGED <<status, st, spool, cursor>> /\ Feeds
    BY <1>3 DEF ArrivesLate, Feeds
  <2> QED
    BY <2>1 DEF SameQueue, Alive, Now
<1>4. CASE UNCHANGED vars
  <2>1. UNCHANGED <<status, st, spool, cursor>> /\ Feeds
    BY <1>4 DEF vars, Feeds
  <2> QED
    BY <2>1 DEF SameQueue, Alive, Now
<1> QED
  BY <1>1, <1>2, <1>3, <1>4 DEF Stays

\* Seeing a batch adds nothing that had no number.
LEMMA SentIs ==
  ASSUME TypeOK, WorkerOK, Feeds
  PROVE  /\ received \subseteq received' /\ Sent \subseteq Sent'
         /\ Sent' \subseteq Sent \cup Pending
<1>1. worker.pc # "idle" => Batch \subseteq Pending
  BY BatchIs DEF Pending, Alive, Now
<1>2. CASE UNCHANGED <<received, wire>>
  BY <1>2 DEF Sent
<1>3. CASE worker.pc # "idle" /\ received' = received \cup Batch /\ UNCHANGED wire
  BY <1>1, <1>3 DEF Sent
<1>4. CASE worker.pc # "idle" /\ wire' = wire \cup {Batch} /\ UNCHANGED received
  BY <1>1, <1>4 DEF Sent
<1>5. CASE \E b \in wire : received' = received \cup b /\ wire' = wire \ {b}
  BY <1>5 DEF Sent
<1> QED
  BY <1>2, <1>3, <1>4, <1>5 DEF Feeds

LEMMA SameKnown ==
  ASSUME TypeOK, WorkerOK, SameQueue, Feeds
  PROVE  Known' = Known
<1>1. Pending' = Pending
  BY DEF SameQueue, Pending
<1> QED
  BY <1>1, SentIs DEF Known

\* The parts of Numbered about what is received.
Prefixes ==
  /\ IsPrefix(received) /\ \A b \in wire : IsPrefix(received \cup b)
  /\ IsFiniteSet(received) /\ \A b \in wire : IsFiniteSet(b)

LEMMA PrefixUnion == \A S, T : IsPrefix(S) /\ IsPrefix(T) => IsPrefix(S \cup T)
  BY DEF IsPrefix

\* A batch continues what was received.
LEMMA BatchContinues ==
  ASSUME TypeOK, WorkerOK, Numbered, worker.pc # "idle"
  PROVE  IsPrefix(received \cup Batch)
<1>1. /\ st.pending \in Seq(Envelope) /\ st.nextSeq \in Nat /\ Len(st.pending) \in Nat
      /\ status = "up" /\ worker.left \in 0..Len(st.pending)
  BY BatchIs DEF TypeOK, State
<1>2. /\ \A i \in 1..Len(st.pending) : st.pending[i].seq + Len(st.pending) + 1 = st.nextSeq + i
      /\ \A n \in 0..st.nextSeq : n + Len(st.pending) < st.nextSeq => \E e \in received : e.seq = n
      /\ IsPrefix(received)
  <2>1. Alive /\ Now = st
    BY <1>1 DEF Alive, Now
  <2> QED
    BY <2>1 DEF Numbered, Numbers
<1>3. \A i \in 1..worker.left : st.pending[i].seq \in Nat /\ i \in 1..Len(st.pending)
  <2>1. \A i \in 1..worker.left : i \in 1..Len(st.pending)
    BY <1>1
  <2> QED
    BY <1>1, <2>1, FieldsAre
<1> SUFFICES ASSUME NEW i \in 1..worker.left, NEW n \in 0..st.pending[i].seq
             PROVE  \E d \in received \cup Batch : d.seq = n
  BY <1>2 DEF IsPrefix, Batch
<1> DEFINE L == Len(st.pending)
           N == st.nextSeq
           q == st.pending[i].seq
<1>4. q + L + 1 = N + i /\ q \in Nat /\ i \in 1..L
  BY <1>2, <1>3
<1>5. L \in Nat /\ N \in Nat /\ n \in 0..q /\ i \in 1..worker.left /\ worker.left \in 0..L
  BY <1>1
<1> HIDE DEF L, N, q
<1>6. CASE n + L < N
  BY <1>2, <1>4, <1>5, <1>6 DEF L, N
<1>7. CASE ~(n + L < N)
  <2>1. n + L + 1 - N \in 1..i
    BY <1>4, <1>5, <1>7
  <2>2. PICK j \in 1..i : j = n + L + 1 - N
    BY <2>1
  <2>3. j \in 1..worker.left /\ j + N = n + L + 1
    BY <1>5, <2>2
  <2>4. st.pending[j].seq \in Nat /\ st.pending[j].seq + L + 1 = N + j
    BY <1>2, <1>3, <2>3 DEF L, N
  <2>5. st.pending[j].seq = n
    BY <1>5, <2>3, <2>4
  <2> QED
    BY <2>3, <2>5 DEF Batch
<1> QED
  BY <1>6, <1>7

LEMMA PrefixesStep ==
  ASSUME TypeOK, WorkerOK, Numbered, Feeds
  PROVE  Prefixes'
<1>1. Prefixes
  BY DEF Numbered, Prefixes
<1>2. CASE UNCHANGED <<received, wire>>
  BY <1>1, <1>2 DEF Prefixes
<1>3. CASE worker.pc # "idle" /\ received' = received \cup Batch /\ UNCHANGED wire
  <2>1. IsPrefix(received') /\ IsFiniteSet(received')
    BY <1>1, <1>3, BatchContinues, BatchIs, FS_Union DEF Prefixes
  <2>2. \A b \in wire : received' \cup b = received' \cup (received \cup b)
    BY <1>3
  <2> QED
    BY <1>1, <1>3, <2>1, <2>2, PrefixUnion DEF Prefixes
<1>4. CASE worker.pc # "idle" /\ wire' = wire \cup {Batch} /\ UNCHANGED received
  BY <1>1, <1>4, BatchContinues, BatchIs DEF Prefixes
<1>5. CASE \E b \in wire : received' = received \cup b /\ wire' = wire \ {b}
  <2>1. PICK b \in wire : received' = received \cup b /\ wire' = wire \ {b}
    BY <1>5
  <2>2. IsPrefix(received') /\ IsFiniteSet(received')
    BY <1>1, <2>1, FS_Union DEF Prefixes
  <2>3. \A c \in wire : received' \cup c = received' \cup (received \cup c)
    BY <2>1
  <2> QED
    BY <1>1, <2>1, <2>2, <2>3, PrefixUnion DEF Prefixes
<1> QED
  BY <1>2, <1>3, <1>4, <1>5 DEF Feeds

\* Every step that leaves the queue as it is leaves the numbers as they are.
LEMMA NumberedStays ==
  ASSUME TypeOK, WorkerOK, Numbered, Stays
  PROVE  Numbered'
<1>1. SameQueue /\ Feeds /\ Known' = Known /\ Prefixes' /\ received \subseteq received'
  BY SameStep, SameKnown, PrefixesStep, SentIs
<1>2. Linked(Known')
  BY <1>1 DEF Numbered
<1>3. HashBefore(received', cursor'.next, cursor'.hash)
  BY <1>1 DEF Numbered, HashBefore, SameQueue
<1>4. Alive' =>
       /\ Numbers(Now'.pending, Now'.nextSeq)
       /\ \A e \in Known' : e.seq < Now'.nextSeq
       /\ \A n \in 0..Now'.nextSeq : n + Len(Now'.pending) < Now'.nextSeq
                                     => \E e \in received' : e.seq = n
       /\ HashBefore(Known', Now'.nextSeq, Now'.lastHash)
  BY <1>1 DEF Numbered, SameQueue
<1> QED
  BY <1>1, <1>2, <1>3, <1>4 DEF Numbered, Prefixes

\* An envelope that follows on what is known can be added to it.
LEMMA LinkedExtends ==
  ASSUME NEW S, S \subseteq Envelope, Linked(S), NEW n \in Nat, NEW h,
         HashBefore(S, n, h), \A e \in S : e.seq < n,
         NEW env \in Envelope, env.seq = n, env.prev = h
  PROVE  Linked(S \cup {env}) /\ HashBefore(S \cup {env}, n + 1, env.hash)
<1>1. \A e \in S : e.seq \in Nat /\ e.seq # n
  BY DEF Envelope
<1> SUFFICES ASSUME NEW d \in S \cup {env}, NEW e \in S \cup {env}
             PROVE  /\ d.seq = e.seq => d = e
                    /\ d.seq = e.seq + 1 => d.prev = e.hash
                    /\ d.seq = 0 => d.prev = Genesis
  BY DEF Linked, HashBefore
<1>2. CASE d \in S /\ e \in S
  BY <1>2 DEF Linked
<1>3. CASE d = env /\ e \in S
  <2>1. d.seq # e.seq
    BY <1>1, <1>3
  <2>2. d.seq = 0 => d.prev = Genesis
    BY <1>3 DEF HashBefore
  <2>3. ASSUME d.seq = e.seq + 1 PROVE d.prev = e.hash
    <3>1. n # 0
      BY <1>1, <1>3, <2>3
    <3>2. PICK c \in S : c.seq + 1 = n /\ c.hash = h
      BY <3>1 DEF HashBefore
    <3>3. c.seq \in Nat /\ e.seq \in Nat /\ e.seq + 1 = n
      BY <1>1, <1>3, <2>3
    <3>4. c.seq = e.seq
      BY <3>2, <3>3
    <3> QED
      BY <1>3, <3>2, <3>4 DEF Linked
  <2> QED
    BY <2>1, <2>2, <2>3
<1>4. CASE d \in S /\ e = env
  <2>1. d.seq < n /\ d.seq \in Nat /\ e.seq = n
    BY <1>1, <1>4
  <2> QED
    BY <1>4, <2>1 DEF Linked
<1>5. CASE d = env /\ e = env
  <2>1. d.seq = n /\ d.prev = h
    BY <1>5
  <2> QED
    BY <1>5, <2>1 DEF HashBefore
<1> QED
  BY <1>2, <1>3, <1>4, <1>5

LEMMA KnownIs ==
  ASSUME TypeOK
  PROVE  /\ Known \subseteq Envelope /\ received \subseteq Envelope /\ received \subseteq Known
         /\ Alive => /\ Now \in State /\ Now.pending \in Seq(Envelope)
                     /\ Now.nextSeq \in Nat /\ Len(Now.pending) \in Nat
                     /\ Elements(Now.pending) \subseteq Envelope
         /\ cursor.next \in Nat /\ cursor.hash \in Nat
<1>1. Alive => Now \in State
  BY LoadedIs DEF Alive, Now, TypeOK
<1>2. Alive => /\ Now.pending \in Seq(Envelope)
               /\ Now.nextSeq \in Nat /\ Len(Now.pending) \in Nat
               /\ Elements(Now.pending) \subseteq Envelope
  BY <1>1 DEF State, Elements
<1>3. Sent \subseteq Envelope
  BY DEF Sent, TypeOK
<1>4. Known \subseteq Envelope /\ received \subseteq Known /\ received \subseteq Envelope
  BY <1>2, <1>3 DEF Known, Pending, Sent, TypeOK
<1>5. cursor.next \in Nat /\ cursor.hash \in Nat
  BY DEF TypeOK, Cursor
<1> QED
  BY <1>1, <1>2, <1>4, <1>5

\* The elements of a longer queue.
LEMMA AppendIs ==
  ASSUME NEW s \in Seq(Envelope), NEW env \in Envelope
  PROVE  /\ Len(Append(s, env)) = Len(s) + 1
         /\ Append(s, env)[Len(s) + 1] = env
         /\ \A i \in 1..Len(s) : Append(s, env)[i] = s[i]
         /\ Elements(Append(s, env)) = Elements(s) \cup {env}
<1>1. /\ Len(Append(s, env)) = Len(s) + 1
      /\ Append(s, env)[Len(s) + 1] = env
      /\ \A i \in 1..Len(s) : Append(s, env)[i] = s[i]
  OBVIOUS
<1>2. 1..Len(s) + 1 = (1..Len(s)) \cup {Len(s) + 1}
  OBVIOUS
<1> QED
  BY <1>1, <1>2 DEF Elements

LEMMA PushKnown ==
  ASSUME TypeOK, WorkerOK, NEW env \in Envelope, Pushes(env)
  PROVE  /\ status = "up" /\ status' = "up" /\ Alive /\ Alive' /\ Now = st /\ Now' = st'
         /\ Known' = Known \cup {env}
         /\ UNCHANGED <<received, wire, cursor>>
<1>1. status = "up" /\ status' = "up" /\ UNCHANGED <<received, wire, cursor>>
  BY DEF Pushes, WorkerOK, data
<1>2. st.pending \in Seq(Envelope)
  BY DEF TypeOK, State
<1>3. Elements(st'.pending) = Elements(st.pending) \cup {env}
  BY <1>2, AppendIs DEF Pushes
<1>4. Alive /\ Alive' /\ Now = st /\ Now' = st'
  BY <1>1 DEF Alive, Now
<1>5. Known = Sent \cup Elements(st.pending) /\ Known' = Sent' \cup Elements(st'.pending)
  BY <1>4 DEF Known, Pending
<1>6. Sent' = Sent
  BY <1>1 DEF Sent
<1> QED
  BY <1>1, <1>3, <1>4, <1>5, <1>6

LEMMA NumberedPush ==
  ASSUME TypeOK, WorkerOK, Numbered, NEW env \in Envelope, Pushes(env)
  PROVE  Numbered'
<1>1. /\ Alive /\ Alive' /\ Now = st /\ Now' = st'
      /\ Known' = Known \cup {env} /\ UNCHANGED <<received, wire, cursor>>
  BY PushKnown
<1>2. /\ Known \subseteq Envelope /\ st.nextSeq \in Nat /\ st.pending \in Seq(Envelope)
      /\ Len(st.pending) \in Nat
  BY <1>1, KnownIs
<1>3. env.seq = st.nextSeq /\ env.prev = st.lastHash /\ st'.pending = Append(st.pending, env)
      /\ st'.nextSeq = st.nextSeq + 1 /\ st'.lastHash = env.hash
  BY DEF Pushes
<1>4. Linked(Known) /\ HashBefore(Known, st.nextSeq, st.lastHash)
      /\ \A e \in Known : e.seq < st.nextSeq
  BY <1>1 DEF Numbered
<1>5. Linked(Known') /\ HashBefore(Known', st'.nextSeq, st'.lastHash)
  BY <1>1, <1>2, <1>3, <1>4, LinkedExtends
<1>6. \A e \in Known' : e.seq < st'.nextSeq
  <2>1. \A e \in Known : e.seq \in Nat
    BY <1>2 DEF Envelope
  <2> QED
    BY <1>1, <1>2, <1>3, <1>4, <2>1
<1>7. Numbers(st'.pending, st'.nextSeq)
  <2>1. Numbers(st.pending, st.nextSeq)
    BY <1>1 DEF Numbered
  <2>2. /\ Len(st'.pending) = Len(st.pending) + 1
        /\ st'.pending[Len(st.pending) + 1] = env
        /\ \A i \in 1..Len(st.pending) : st'.pending[i] = st.pending[i]
    BY <1>2, <1>3, AppendIs
  <2>3. Len(st'.pending) <= st'.nextSeq
    BY <1>2, <1>3, <2>1, <2>2 DEF Numbers
  <2>4. \A i \in 1..Len(st.pending) : st.pending[i].seq \in Nat
    BY <1>2, FieldsAre
  <2>5. ASSUME NEW i \in 1..Len(st'.pending)
        PROVE  st'.pending[i].seq + Len(st'.pending) + 1 = st'.nextSeq + i
    <3>1. CASE i \in 1..Len(st.pending)
      <4>1. st.pending[i].seq + Len(st.pending) + 1 = st.nextSeq + i
        BY <2>1, <3>1 DEF Numbers
      <4>2. \A q, l, n, k \in Nat : q + l + 1 = n + k => q + (l + 1) + 1 = (n + 1) + k
        OBVIOUS
      <4>3. i \in Nat /\ st.pending[i].seq \in Nat
        BY <2>4, <3>1
      <4> QED
        BY <1>2, <1>3, <2>2, <3>1, <4>1, <4>2, <4>3
    <3>2. CASE i = Len(st.pending) + 1
      <4>1. \A l, n \in Nat : n + (l + 1) + 1 = (n + 1) + (l + 1)
        OBVIOUS
      <4> QED
        BY <1>2, <1>3, <2>2, <3>2, <4>1
    <3> QED
      BY <1>2, <2>2, <3>1, <3>2
  <2> QED
    BY <2>3, <2>5 DEF Numbers
<1>8. \A n \in 0..st'.nextSeq : n + Len(st'.pending) < st'.nextSeq => \E e \in received' : e.seq = n
  <2>1. Len(st'.pending) = Len(st.pending) + 1
    BY <1>2, <1>3, AppendIs
  <2>2. \A n \in 0..st.nextSeq : n + Len(st.pending) < st.nextSeq => \E e \in received : e.seq = n
    BY <1>1 DEF Numbered
  <2>3. ASSUME NEW n \in 0..st'.nextSeq, n + Len(st'.pending) < st'.nextSeq
        PROVE  n \in 0..st.nextSeq /\ n + Len(st.pending) < st.nextSeq
    BY <1>2, <1>3, <2>1, <2>3
  <2> QED
    BY <1>1, <2>2, <2>3
<1>9. HashBefore(received', cursor'.next, cursor'.hash)
  BY <1>1 DEF Numbered
<1>10. Prefixes'
  BY <1>1 DEF Numbered, Prefixes
<1> QED
  BY <1>1, <1>5, <1>6, <1>7, <1>8, <1>9, <1>10 DEF Numbered, Prefixes

\* The head of the queue leaves it once it is received.
Pops ==
  /\ status = "up" /\ status' = "up" /\ Len(st.pending) > 0
  /\ st.pending[1] \in received
  /\ Len(st'.pending) = Len(st.pending) - 1
  /\ \A i \in 1..Len(st.pending) - 1 : st'.pending[i] = st.pending[i + 1]
  /\ st'.nextSeq = st.nextSeq /\ st'.lastHash = st.lastHash /\ st'.open = st.open
  /\ \/ cursor'.next = st.pending[1].seq + 1 /\ cursor'.hash = st.pending[1].hash
     \/ cursor' = cursor /\ count'.faults # 0
  /\ UNCHANGED <<spool, arriving, data, queued, shed, lost>>
  /\ count'.events = count.events

LEMMA PopStep ==
  ASSUME TypeOK, WorkerOK, AckOne \/ CursorFails
  PROVE  Pops
<1>1. /\ worker.pc = "acking" /\ worker.left > 0 /\ st' = Popped
      /\ UNCHANGED <<spool, arriving, data, queued, shed, lost>>
      /\ \/ cursor' = AfterAck /\ count' = count
         \/ cursor' \in {cursor, AfterAck} /\ count' = [count EXCEPT !.faults = @ + 1]
  BY DEF AckOne, CursorFails, hist
<1>2. /\ Len(st.pending) > 0
      /\ Len(st'.pending) = Len(st.pending) - 1
      /\ \A i \in 1..Len(st.pending) - 1 : st'.pending[i] = st.pending[i + 1]
      /\ st'.nextSeq = st.nextSeq /\ st'.lastHash = st.lastHash /\ st'.open = st.open
      /\ AfterAck.next = st.pending[1].seq + 1 /\ AfterAck.hash = st.pending[1].hash
  BY <1>1, PoppedIs
<1>3. st.pending[1] \in received
  <2>1. 1 \in 1..worker.left
    BY <1>1, BatchIs, 1 \in 1..1 DEF TypeOK
  <2> QED
    BY <1>1, <2>1 DEF WorkerOK, Batch
<1>4. count'.events = count.events /\ (count' = [count EXCEPT !.faults = @ + 1] => count'.faults # 0)
  <2>1. count \in CountType
    BY DEF TypeOK, CountType
  <2> QED
    BY <1>1, <2>1 DEF CountType
<1>5. status = "up" /\ status' = "up"
  BY <1>1, BatchIs DEF data
<1>6. cursor' = AfterAck \/ (cursor' = cursor /\ count'.faults # 0)
  <2>1. CASE AckOne
    BY <2>1 DEF AckOne
  <2>2. CASE CursorFails
    BY <1>4, <2>2 DEF CursorFails
  <2> QED
    BY <2>1, <2>2
<1> QED
  BY <1>1, <1>2, <1>3, <1>4, <1>5, <1>6 DEF Pops

LEMMA NumberedPop ==
  ASSUME TypeOK, WorkerOK, Numbered, Pops
  PROVE  Numbered' /\ Known' = Known
<1>1. /\ Alive /\ Alive' /\ Now = st /\ Now' = st'
      /\ UNCHANGED <<received, wire>>
  BY DEF Pops, Alive, Now, data
<1>2. /\ st.nextSeq \in Nat /\ st.pending \in Seq(Envelope) /\ Len(st.pending) \in Nat
      /\ \A i \in 1..Len(st.pending) : st.pending[i].seq \in Nat
  BY <1>1, KnownIs, FieldsAre
<1>3. /\ Len(st.pending) > 0 /\ Len(st'.pending) = Len(st.pending) - 1
      /\ \A i \in 1..Len(st.pending) - 1 : st'.pending[i] = st.pending[i + 1]
      /\ st'.nextSeq = st.nextSeq /\ st'.lastHash = st.lastHash
      /\ st.pending[1] \in received
  BY DEF Pops
<1>4. Known' = Known
  <2>1. Elements(st'.pending) \subseteq Elements(st.pending)
    <3>1. \A i \in 1..Len(st'.pending) : i \in 1..Len(st.pending) - 1 /\ i + 1 \in 1..Len(st.pending)
      BY <1>2, <1>3
    <3> QED
      BY <1>3, <3>1 DEF Elements
  <2>2. Elements(st.pending) \subseteq Elements(st'.pending) \cup {st.pending[1]}
    <3>1. \A i \in 1..Len(st.pending) :
            i = 1 \/ (i - 1 \in 1..Len(st.pending) - 1 /\ (i - 1) + 1 = i)
      BY <1>2, <1>3
    <3>2. \A i \in 1..Len(st.pending) : i = 1 \/ st.pending[i] = st'.pending[i - 1]
      BY <1>3, <3>1
    <3> QED
      BY <1>3, <3>1, <3>2 DEF Elements
  <2>3. Known = Sent \cup Elements(st.pending) /\ Known' = Sent' \cup Elements(st'.pending)
    BY <1>1 DEF Known, Pending
  <2>4. Sent' = Sent /\ received \subseteq Sent
    BY <1>1 DEF Sent
  <2> QED
    BY <1>3, <2>1, <2>2, <2>3, <2>4
<1>5. /\ Linked(Known) /\ Prefixes
      /\ HashBefore(received, cursor.next, cursor.hash)
      /\ Numbers(st.pending, st.nextSeq)
      /\ \A e \in Known : e.seq < st.nextSeq
      /\ \A n \in 0..st.nextSeq : n + Len(st.pending) < st.nextSeq => \E e \in received : e.seq = n
      /\ HashBefore(Known, st.nextSeq, st.lastHash)
  BY <1>1 DEF Numbered, Prefixes
<1>6. HashBefore(received', cursor'.next, cursor'.hash)
  <2>1. CASE cursor' = cursor
    BY <1>1, <1>5, <2>1
  <2>2. CASE cursor'.next = st.pending[1].seq + 1 /\ cursor'.hash = st.pending[1].hash
    <3>1. st.pending[1].seq \in Nat
      BY <1>1, <1>3, KnownIs, FieldsAre
    <3> QED
      BY <1>1, <1>3, <2>2, <3>1 DEF HashBefore
  <2> QED
    BY <2>1, <2>2 DEF Pops
<1>7. Numbers(st'.pending, st'.nextSeq)
  <2>1. Len(st.pending) <= st.nextSeq
    BY <1>5 DEF Numbers
  <2>2. Len(st'.pending) <= st'.nextSeq
    BY <1>2, <1>3, <2>1
  <2>3. ASSUME NEW i \in 1..Len(st'.pending)
        PROVE  st'.pending[i].seq + Len(st'.pending) + 1 = st'.nextSeq + i
    <3>1. i \in 1..Len(st.pending) - 1 /\ i + 1 \in 1..Len(st.pending) /\ i \in Nat
      BY <1>2, <1>3
    <3>2. st.pending[i + 1].seq + Len(st.pending) + 1 = st.nextSeq + (i + 1)
      BY <1>5, <3>1 DEF Numbers
    <3>3. \A q \in Nat : q + Len(st.pending) + 1 = st.nextSeq + (i + 1)
                          => q + (Len(st.pending) - 1) + 1 = st.nextSeq + i
      <4>1. Len(st.pending) \in Nat /\ st.nextSeq \in Nat /\ i \in Nat
        BY <1>2, <3>1
      <4> QED
        BY <4>1
    <3>4. st.pending[i + 1].seq \in Nat
      BY <1>2, <3>1
    <3>5. st.pending[i + 1].seq + (Len(st.pending) - 1) + 1 = st.nextSeq + i
      BY <3>2, <3>3, <3>4
    <3> QED
      BY <1>3, <3>1, <3>5
  <2> QED
    BY <2>2, <2>3 DEF Numbers
<1>8. \A n \in 0..st'.nextSeq : n + Len(st'.pending) < st'.nextSeq => \E e \in received' : e.seq = n
  <2> SUFFICES ASSUME NEW n \in 0..st.nextSeq, n + (Len(st.pending) - 1) < st.nextSeq
               PROVE  \E e \in received : e.seq = n
    BY <1>1, <1>3
  <2>1. CASE n + Len(st.pending) < st.nextSeq
    BY <1>5, <2>1
  <2>2. CASE ~(n + Len(st.pending) < st.nextSeq)
    <3>1. n + Len(st.pending) = st.nextSeq
      BY <1>2, <2>2
    <3>2. 1 \in 1..Len(st.pending)
      BY <1>2, <1>3
    <3>3. st.pending[1].seq + Len(st.pending) + 1 = st.nextSeq + 1 /\ st.pending[1].seq \in Nat
      BY <1>2, <1>5, <3>2 DEF Numbers
    <3>4. \A q, l, m, k \in Nat : q + l + 1 = m + 1 /\ k + l = m => q = k
      OBVIOUS
    <3>5. st.pending[1].seq = n
      BY <1>2, <3>1, <3>3, <3>4
    <3> QED
      BY <1>3, <3>5
  <2> QED
    BY <2>1, <2>2
<1>9. Prefixes'
  BY <1>1, <1>5 DEF Prefixes
<1>10. Linked(Known') /\ (\A e \in Known' : e.seq < st'.nextSeq)
       /\ HashBefore(Known', st'.nextSeq, st'.lastHash)
  BY <1>3, <1>4, <1>5
<1>11. Numbered'
  BY <1>1, <1>6, <1>7, <1>8, <1>9, <1>10 DEF Numbered, Prefixes
<1> QED
  BY <1>4, <1>11

-----------------------------------------------------------------------------
(* A crash: what the next start reads.                                     *)

\* A start makes state L of the files: the first a of the lines are acknowledged,
\* the others are pending.
StartsWith(L, k, a) ==
  /\ k \in 0..Len(spool) /\ a \in 0..k
  /\ Holds(k)
  /\ \A i \in 1..Len(spool) : spool[i] \in Envelope
  /\ L.nextSeq + (k + Len(st.pending)) = st.nextSeq + Len(spool)
  /\ cursor.next + Len(L.pending) = L.nextSeq
  /\ L.pending \in Seq(Envelope) /\ L.nextSeq \in Nat
  /\ Len(L.pending) + a = Len(spool)
  /\ \A i \in 1..Len(L.pending) : L.pending[i] = spool[a + i]
  /\ L.lastHash = IF spool = <<>> THEN cursor.hash ELSE spool[Len(spool)].hash
  /\ L.open = GapOpenIn(L.pending)
  /\ a = Len(spool) /\ spool # <<>> => spool[Len(spool)].hash = cursor.hash

Reads(k, a) == UNCHANGED <<spool, cursor>> /\ StartsWith(Now', k, a)

LEMMA CrashIs ==
  ASSUME TypeOK, Crash
  PROVE  /\ status = "up" /\ status' = "down" /\ UNCHANGED cursor
         /\ Alive /\ Now = st
         /\ (Alive' <=> Loadable(spool', cursor))
         /\ Now' = Loaded(spool', cursor)
         /\ Alive' => UNCHANGED spool /\ Loadable(spool, cursor) /\ Whole
         /\ Feeds
<1>1. /\ status = "up" /\ status' = "down" /\ UNCHANGED <<cursor, received>>
      /\ spool' = spool \/ spool' = Appended(spool, Torn)
      /\ wire' = wire \/ (worker.pc # "idle" /\ wire' = wire \cup {Batch})
  BY DEF Crash
<1>2. /\ Alive /\ Now = st /\ (Alive' <=> Loadable(spool', cursor)) /\ Now' = Loaded(spool', cursor)
  BY <1>1 DEF Alive, Now
<1>3. spool' # spool => Torn \in Elements(spool')
  <2>1. spool \in Seq(Line) /\ Torn \in Line
    BY DEF TypeOK, Line
  <2>2. Len(spool) + 1 \in 1..Len(spool) + 1
    BY <2>1
  <2>3. Torn \notin Elements(spool) => Torn \in Elements(Appended(spool, Torn))
    BY <2>1, <2>2, AppendedIs DEF Elements
  <2> QED
    BY <1>1, <2>1, <2>3, AppendedIs
<1>4. Loadable(spool', cursor) => UNCHANGED spool /\ Loadable(spool, cursor) /\ Whole
  BY <1>3 DEF Loadable, Whole
<1>5. Feeds
  BY <1>1 DEF Feeds
<1> QED
  BY <1>1, <1>2, <1>4, <1>5

LEMMA StartReads ==
  ASSUME TypeOK, OnFile, Alive, Now = st, Loadable(spool, cursor)
  PROVE  \E k, a \in Nat : StartsWith(Loaded(spool, cursor), k, a)
<1>1. Now = st /\ Loadable(spool, cursor) /\ Whole /\ Alive
  BY DEF Loadable, Whole
<1>2. PICK k \in 0..Len(spool) : Holds(k)
  BY <1>1 DEF OnFile
<1> DEFINE a == AckedLines(spool, cursor)
           P == Len(st.pending)
           N == st.nextSeq
           C == cursor.next
           Q == Len(spool)
           L == Loaded(spool, cursor)
<1>3. /\ spool \in Seq(Line) /\ cursor \in Cursor /\ P \in Nat /\ N \in Nat /\ C \in Nat /\ Q \in Nat
  BY DEF TypeOK, State, Cursor
<1>4. \A i \in 1..Len(spool) : spool[i] \in Envelope
  BY <1>1, <1>3 DEF Whole, Line, Elements
<1>5. /\ a \in 0..Q /\ L.pending \in Seq(Envelope) /\ Len(L.pending) = Q - a
      /\ \A i \in 1..Len(L.pending) : L.pending[i] = spool[a + i]
  <2>1. Torn \notin Elements(spool) /\ MatchesCursor(spool, cursor)
    BY DEF Loadable
  <2>2. L.pending = Unacked(spool, cursor)
    BY <1>3, LoadedIs
  <2>3. /\ a \in 0..Q /\ Unacked(spool, cursor) \in Seq(Envelope)
        /\ Len(Unacked(spool, cursor)) = Q - a
        /\ \A i \in 1..Len(Unacked(spool, cursor)) : Unacked(spool, cursor)[i] = spool[a + i]
    BY <1>3, <2>1, UnackedIs
  <2> QED
    BY <2>2, <2>3
<1>6. /\ L.nextSeq = IF spool = <<>> THEN C ELSE spool[Q].seq + 1
      /\ L.lastHash = IF spool = <<>> THEN cursor.hash ELSE spool[Q].hash
      /\ L.open = GapOpenIn(L.pending)
  BY <1>1, <1>3, LoadedIs
<1>7. /\ Q = k + P \/ Q = k + P + 1
      /\ \A i \in 1..Q : spool[i].seq + (k + P) + 1 = N + i
      /\ C + P <= N /\ N <= C + (k + P) /\ k \in 0..Q
  BY <1>1, <1>2 DEF Holds
<1>8. /\ L.nextSeq + (k + P) = N + Q /\ a + N = C + (k + P)
  <2>1. CASE spool = <<>>
    <3>1. Q = 0 /\ a = 0 /\ L.nextSeq = C
      BY <1>6, <2>1 DEF AckedLines
    <3> QED
      BY <1>3, <1>7, <3>1
  <2>2. CASE spool # <<>>
    <3>1. Q > 0 /\ 1 \in 1..Q /\ Q \in 1..Q
      BY <1>3, <2>2
    <3>2. spool[1].seq \in Nat /\ spool[Q].seq \in Nat
      BY <1>4, <3>1, FieldsAre
    <3>3. spool[1].seq + (k + P) + 1 = N + 1 /\ spool[Q].seq + (k + P) + 1 = N + Q
      BY <1>7, <3>1
    <3>4. a = IF spool[1].seq >= C THEN 0 ELSE C - spool[1].seq
      BY <2>2 DEF AckedLines
    <3> HIDE DEF a, P, N, C, Q, L
    <3>5. spool[1].seq <= C
      <4>1. \A q, n, c, m \in Nat : q + m + 1 = n + 1 /\ n <= c + m => q <= c
        OBVIOUS
      <4>2. k + P \in Nat
        BY <1>3
      <4> QED
        BY <1>3, <1>7, <3>2, <3>3, <4>1, <4>2
    <3>6. a = C - spool[1].seq
      BY <1>3, <3>2, <3>4, <3>5
    <3>7. a + N = C + (k + P)
      <4>1. k + P \in Nat /\ N \in Nat /\ C \in Nat
        BY <1>3
      <4>2. \A x \in Nat : x + (k + P) + 1 = N + 1 => (C - x) + N = C + (k + P)
        BY <4>1
      <4> QED
        BY <3>2, <3>3, <3>6, <4>2
    <3>8. L.nextSeq + (k + P) = N + Q
      BY <1>3, <1>6, <2>2, <3>2, <3>3
    <3> QED
      BY <3>7, <3>8
  <2> QED
    BY <2>1, <2>2
<1>9. L.nextSeq \in Nat
  BY <1>1, <1>3, LoadedIs DEF State
<1>10. a = Q /\ spool # <<>> => spool[Q].hash = cursor.hash
  BY <1>1, <1>3 DEF Loadable, MatchesCursor
<1>11. /\ C + Len(L.pending) = L.nextSeq /\ a \in 0..k /\ Len(L.pending) + a = Q
  <2> HIDE DEF a, P, N, C, Q, L
  <2>1. a <= k
    BY <1>3, <1>5, <1>7, <1>8
  <2>2. Len(L.pending) = Q - a /\ a \in Nat
    BY <1>3, <1>5
  <2>3. C + (Q - a) = L.nextSeq
    <3>1. \A x, m, n, c, q, d \in Nat : x + m = n + q /\ d + n = c + m => c + (q - d) = x
      OBVIOUS
    <3>2. k + P \in Nat
      BY <1>3
    <3> QED
      BY <1>3, <1>8, <1>9, <2>2, <3>1, <3>2
  <2> QED
    BY <1>3, <1>7, <2>1, <2>2, <2>3
<1>12. StartsWith(L, k, a)
  BY <1>1, <1>2, <1>4, <1>5, <1>6, <1>7, <1>8, <1>9, <1>10, <1>11 DEF StartsWith
<1> QED
  BY <1>3, <1>5, <1>7, <1>12

LEMMA CrashReads ==
  ASSUME TypeOK, OnFile, Crash, Alive'
  PROVE  \E k, a \in Nat : Reads(k, a)
  BY CrashIs, StartReads DEF Reads

\* The line of a failed append that the start takes for one that is pending.
StrayLine(k) == {spool[i] : i \in {j \in 1..Len(spool) : j = k + Len(st.pending) + 1}}

LEMMA ReadLines ==
  ASSUME TypeOK, Crash, NEW k \in Nat, NEW a \in Nat, Reads(k, a)
  PROVE  /\ \A i \in 1..Len(spool) :
              spool[i] \in received \cup Elements(st.pending) \cup StrayLine(k)
         /\ Elements(st.pending) \subseteq Elements(Now'.pending)
         /\ StrayLine(k) \subseteq Elements(Now'.pending)
         /\ Elements(Now'.pending) \subseteq received \cup Elements(st.pending) \cup StrayLine(k)
         /\ \A l \in StrayLine(k) : /\ l \in Envelope /\ l.seq = st.nextSeq /\ l.prev = st.lastHash
                                    /\ Now'.nextSeq = st.nextSeq + 1
                                    /\ Stray(l) /\ StrayLine(k) = {l}
         /\ StrayLine(k) = {} => Now'.nextSeq = st.nextSeq
<1>1. Now = st
  BY CrashIs
<1> DEFINE P == Len(st.pending)
           N == st.nextSeq
           Q == Len(spool)
           n == k + P
<1>2. P \in Nat /\ N \in Nat /\ Q \in Nat /\ n \in Nat /\ st.pending \in Seq(Envelope)
  BY DEF TypeOK, State
<1>3. /\ Q = n \/ Q = n + 1
      /\ \A i \in 1..P : spool[k + i] = st.pending[i]
      /\ \A i \in 1..k : spool[i] \in received
      /\ \A i \in 1..Q : spool[i].seq + n + 1 = N + i
      /\ Q = n + 1 => Stray(spool[n + 1])
  BY <1>1 DEF Reads, StartsWith, Holds
<1>4. /\ a \in 0..k /\ Len(Now'.pending) + a = Q /\ Now'.nextSeq + n = N + Q
      /\ Now'.nextSeq \in Nat /\ Len(Now'.pending) \in Nat
      /\ \A i \in 1..Len(Now'.pending) : Now'.pending[i] = spool[a + i]
      /\ \A i \in 1..Q : spool[i] \in Envelope
  BY <1>2 DEF Reads, StartsWith
<1>s. StrayLine(k) = {spool[i] : i \in {j \in 1..Q : j = n + 1}}
  BY DEF StrayLine
<1>p. \A j \in 1..P : st.pending[j] \in Elements(st.pending)
  BY DEF Elements
<1> HIDE DEF P, N, Q, n
<1>5. \A i \in 1..Q : i \in 1..k \/ (i - k \in 1..P /\ k + (i - k) = i) \/ i = n + 1
  <2>1. \A i \in 1..Q : i <= k + P + 1
    BY <1>2, <1>3 DEF n
  <2> QED
    BY <1>2, <2>1 DEF n
<1>6. \A i \in 1..Q : spool[i] \in received \cup Elements(st.pending) \cup StrayLine(k)
  <2> TAKE i \in 1..Q
  <2>1. CASE i \in 1..k
    BY <1>3, <2>1
  <2>2. CASE i - k \in 1..P /\ k + (i - k) = i
    <3>1. spool[i] = st.pending[i - k]
      BY <1>3, <2>2
    <3> QED
      BY <1>p, <2>2, <3>1
  <2>3. CASE i = n + 1
    BY <1>s, <2>3
  <2> QED
    BY <1>5, <2>1, <2>2, <2>3
<1>7. \A i \in a + 1..Q : spool[i] \in Elements(Now'.pending)
  <2>1. \A i \in a + 1..Q : i - a \in 1..Len(Now'.pending) /\ a + (i - a) = i
    BY <1>2, <1>4
  <2> QED
    BY <1>4, <2>1 DEF Elements
<1>8. Elements(st.pending) \subseteq Elements(Now'.pending)
  <2>1. \A i \in 1..P : k + i \in a + 1..Q
    BY <1>2, <1>3, <1>4 DEF n
  <2> QED
    <3>1. \A i \in 1..P : st.pending[i] \in Elements(Now'.pending)
      BY <1>3, <1>7, <2>1
    <3> QED
      BY <3>1 DEF Elements, P
<1>9. StrayLine(k) \subseteq Elements(Now'.pending)
  <2>1. \A j \in 1..Q : j = n + 1 => j \in a + 1..Q
    BY <1>2, <1>4 DEF n
  <2> QED
    BY <1>7, <1>s, <2>1
<1>10. Elements(Now'.pending) \subseteq received \cup Elements(st.pending) \cup StrayLine(k)
  <2>1. \A i \in 1..Len(Now'.pending) : a + i \in 1..Q
    BY <1>2, <1>4
  <2> QED
    BY <1>4, <1>6, <2>1 DEF Elements
<1>11. ASSUME NEW l \in StrayLine(k)
       PROVE  /\ l \in Envelope /\ l.seq = N /\ l.prev = st.lastHash
              /\ Now'.nextSeq = N + 1
              /\ Stray(l) /\ StrayLine(k) = {l}
  <2>1. PICK j \in 1..Q : j = n + 1 /\ l = spool[j]
    BY <1>s
  <2>2. Q = n + 1 /\ n + 1 \in 1..Q /\ l = spool[n + 1]
    BY <1>2, <1>3, <2>1
  <2>3. l \in Envelope /\ Stray(l) /\ l.seq + n + 1 = N + (n + 1)
    BY <1>3, <1>4, <2>2
  <2>4. l.seq \in Nat
    BY <2>3, FieldsAre
  <2>5. l.seq = N
    BY <1>2, <2>3, <2>4
  <2>6. l.prev = st.lastHash
    BY <1>1, <2>3 DEF Stray
  <2>7. Now'.nextSeq = N + 1
    BY <1>2, <1>4, <2>2
  <2>8. StrayLine(k) = {l}
    BY <1>s, <2>2
  <2> QED
    BY <2>3, <2>5, <2>6, <2>7, <2>8
<1>12. ASSUME StrayLine(k) = {} PROVE Now'.nextSeq = N
  <2>1. Q # n + 1
    <3>1. Q = n + 1 => n + 1 \in 1..Q
      BY <1>2
    <3>2. n + 1 \in 1..Q => spool[n + 1] \in StrayLine(k)
      BY <1>s
    <3> QED
      BY <1>12, <3>1, <3>2
  <2> QED
    BY <1>2, <1>3, <1>4, <2>1
<1> QED
  BY <1>6, <1>8, <1>9, <1>10, <1>11, <1>12 DEF Q, N

LEMMA CrashKnown ==
  ASSUME TypeOK, WorkerOK, Crash, NEW k \in Nat, NEW a \in Nat, Reads(k, a), Alive'
  PROVE  /\ Known' = Known \cup StrayLine(k)
         /\ received' = received
<1>1. /\ Known = Sent \cup Elements(st.pending)
      /\ Known' = Sent' \cup Elements(Now'.pending)
      /\ Pending = Elements(st.pending)
  BY CrashIs DEF Known, Pending
<1>2. received' = received
  BY DEF Crash
<1>3. Sent \subseteq Sent' /\ Sent' \subseteq Sent \cup Elements(st.pending)
  BY <1>1, CrashIs, SentIs
<1>4. received \subseteq Sent
  BY DEF Sent
<1> QED
  BY <1>1, <1>2, <1>3, <1>4, ReadLines

LEMMA NumberedCrash ==
  ASSUME TypeOK, WorkerOK, Numbered, OnFile, Crash
  PROVE  Numbered'
<1>1. /\ Alive /\ Now = st /\ Feeds /\ UNCHANGED cursor /\ received' = received
  BY CrashIs DEF Crash
<1>2. Prefixes'
  BY <1>1, PrefixesStep
<1>3. HashBefore(received', cursor'.next, cursor'.hash)
  BY <1>1 DEF Numbered
<1>4. /\ Linked(Known)
      /\ \A e \in Known : e.seq < st.nextSeq /\ e.seq \in Nat
      /\ \A n \in 0..st.nextSeq : n + Len(st.pending) < st.nextSeq => \E e \in received : e.seq = n
      /\ HashBefore(Known, st.nextSeq, st.lastHash)
      /\ HashBefore(received, cursor.next, cursor.hash)
  BY <1>1, KnownIs, FieldsAre DEF Numbered
<1>5. CASE ~Alive'
  <2>1. Known' \subseteq Known
    BY <1>1, <1>5, SentIs DEF Known, Pending
  <2>2. Linked(Known')
    BY <1>4, <2>1 DEF Linked
  <2> QED
    BY <1>2, <1>3, <1>5, <2>2 DEF Numbered, Prefixes
<1>6. CASE Alive'
  <2>1. PICK k, a \in Nat : Reads(k, a)
    BY <1>6, CrashReads
  <2>n. k \in Nat /\ a \in Nat
    OBVIOUS
  <2> DEFINE P == Len(st.pending)
             N == st.nextSeq
             Q == Len(spool)
             M == Now'.nextSeq
             D == Len(Now'.pending)
             C == cursor.next
  <2>2. /\ P \in Nat /\ N \in Nat /\ Q \in Nat /\ C \in Nat /\ M \in Nat /\ D \in Nat
        /\ Known \subseteq Envelope
    <3>1. spool \in Seq(Line) /\ Q \in Nat
      BY DEF TypeOK
    <3>2. P \in Nat /\ N \in Nat /\ C \in Nat /\ Known \subseteq Envelope
      BY <1>1, KnownIs
    <3>3. M \in Nat /\ Now'.pending \in Seq(Envelope)
      BY <2>1 DEF Reads, StartsWith
    <3>4. D \in Nat
      BY <3>3
    <3> QED
      BY <3>1, <3>2, <3>3, <3>4
  <2>3. Known' = Known \cup StrayLine(k)
    BY <1>6, <2>1, CrashKnown
  <2>4. /\ M + (k + P) = N + Q /\ C + D = M /\ D + a = Q /\ a \in 0..k
        /\ \A i \in 1..D : Now'.pending[i] = spool[a + i]
        /\ Now'.lastHash = IF spool = <<>> THEN cursor.hash ELSE spool[Q].hash
        /\ a = Q /\ spool # <<>> => spool[Q].hash = cursor.hash
        /\ \A i \in 1..Q : spool[i] \in Envelope
    BY <2>1 DEF Reads, StartsWith
  <2>5. /\ \A i \in 1..Q : spool[i].seq + (k + P) + 1 = N + i
        /\ C + P <= N
    BY <1>1, <2>1 DEF Reads, StartsWith, Holds
  <2>6. \A i \in 1..Q : spool[i].seq \in Nat
    BY <2>4, FieldsAre
  <2>7. \A l \in StrayLine(k) : l \in Envelope /\ l.seq = N /\ l.prev = st.lastHash /\ M = N + 1
                                /\ StrayLine(k) = {l}
    BY <2>1, <2>n, ReadLines
  <2>8. StrayLine(k) = {} => M = N
    BY <2>1, <2>n, ReadLines
  <2>9. /\ Linked(Known')
        /\ \A e \in Known' : e.seq < M
    <3>1. CASE StrayLine(k) = {}
      BY <1>4, <2>3, <2>8, <3>1 DEF Linked
    <3>2. CASE StrayLine(k) # {}
      <4>1. PICK l \in StrayLine(k) : TRUE
        BY <3>2
      <4>2. l \in Envelope /\ l.seq = N /\ l.prev = st.lastHash /\ M = N + 1
            /\ Known' = Known \cup {l}
        BY <2>3, <2>7, <4>1
      <4>3. Linked(Known \cup {l})
        BY <1>4, <2>2, <4>2, LinkedExtends
      <4>4. \A e \in Known \cup {l} : e.seq < M
        BY <1>4, <2>2, <4>2
      <4> QED
        BY <4>2, <4>3, <4>4
    <3> QED
      BY <3>1, <3>2
  <2>10. Numbers(Now'.pending, M)
    <3>1. D <= M
      BY <2>2, <2>4
    <3>2. ASSUME NEW i \in 1..D PROVE Now'.pending[i].seq + D + 1 = M + i
      <4>1. a + i \in 1..Q /\ i \in Nat /\ Now'.pending[i] = spool[a + i]
        <5>1. D + a = Q
          BY <2>4
        <5> HIDE DEF Q, D
        <5>2. a + i \in 1..Q /\ i \in Nat
          BY <2>2, <2>n, <5>1
        <5> QED
          BY <2>4, <5>2
      <4>2. spool[a + i].seq + (k + P) + 1 = N + (a + i) /\ spool[a + i].seq \in Nat
        BY <2>5, <2>6, <4>1
      <4>3. \A q, m \in Nat : q + m + 1 = N + (a + i) /\ M + m = N + Q => q + D + 1 = M + i
        <5> HIDE DEF N, Q, D, M
        <5>1. D + a = Q
          BY <2>4
        <5> QED
          BY <2>2, <2>n, <4>1, <5>1
      <4>4. k + P \in Nat
        BY <2>2, <2>n
      <4> QED
        BY <2>4, <4>1, <4>2, <4>3, <4>4
    <3> QED
      BY <3>1, <3>2 DEF Numbers
  <2>11. \A n \in 0..M : n + D < M => \E e \in received : e.seq = n
    <3>1. ASSUME NEW n \in 0..M, n + D < M PROVE n \in 0..N /\ n + P < N
      <4> HIDE DEF P, N, D, M, C
      <4>1. C + D = M /\ C + P <= N
        BY <2>4, <2>5
      <4> QED
        BY <2>2, <3>1, <4>1
    <3> QED
      BY <1>4, <3>1
  <2>12. HashBefore(Known', M, Now'.lastHash)
    <3>1. received \subseteq Known'
      BY <2>3, KnownIs
    <3>2. CASE a = Q
      <4>1. M = C /\ Now'.lastHash = cursor.hash
        BY <2>2, <2>4, <3>2
      <4>2. HashBefore(received, M, Now'.lastHash)
        BY <1>4, <4>1
      <4> QED
        BY <3>1, <4>2 DEF HashBefore
    <3>3. CASE a # Q
      <4>1. Q \in 1..Q /\ D \in 1..D /\ a + D = Q /\ spool # <<>>
        BY <2>2, <2>4, <2>n, <3>3
      <4>2. Now'.lastHash = spool[Q].hash /\ Now'.pending[D] = spool[Q]
        BY <2>4, <4>1
      <4>3. spool[Q] \in Known'
        BY <1>6, <4>1, <4>2 DEF Known, Pending, Elements
      <4>4. spool[Q].seq + (k + P) + 1 = N + Q /\ spool[Q].seq \in Nat
        BY <2>5, <2>6, <4>1
      <4>5. spool[Q].seq + 1 = M
        <5>1. \A q, m \in Nat : q + m + 1 = N + Q /\ M + m = N + Q => q + 1 = M
          BY <2>2
        <5>2. k + P \in Nat
          BY <2>2, <2>n
        <5> QED
          BY <2>4, <4>4, <5>1, <5>2
      <4> QED
        BY <2>2, <4>2, <4>3, <4>4, <4>5 DEF HashBefore
    <3> QED
      BY <3>2, <3>3
  <2> HIDE DEF P, N, Q, M, D, C
  <2> QED
    BY <1>1, <1>2, <1>3, <2>9, <2>10, <2>11, <2>12 DEF Numbered, Prefixes, M, D
<1> QED
  BY <1>5, <1>6

LEMMA NumberedStep == TypeOK /\ WorkerOK /\ Numbered /\ OnFile /\ [Next]_vars => Numbered'
<1> SUFFICES ASSUME TypeOK, WorkerOK, Numbered, OnFile, [Next]_vars PROVE Numbered'
  OBVIOUS
<1>1. CASE EndGap \/ StartGap \/ Queue
  BY <1>1, PushStep, NumberedPush
<1>2. CASE Stays
  BY <1>2, NumberedStays
<1>3. CASE AckOne \/ CursorFails
  BY <1>3, PopStep, NumberedPop
<1>4. CASE Crash
  BY <1>4, NumberedCrash
<1> QED
  BY <1>1, <1>2, <1>3, <1>4 DEF Next, Enqueue, Worker, Ack, Stays

-----------------------------------------------------------------------------
(* The order of the events, and the ends of the gaps.                      *)

\* The number of an event only grows, and the one under way is the latest.
LEMMA ClockStep ==
  ASSUME TypeOK, WorkerOK, arriving # NoEvent => arriving = count.events, [Next]_vars
  PROVE  /\ count'.events \in Nat /\ count.events <= count'.events
         /\ \A e \in Nat : Latest(e) => Latest(e)'
         /\ arriving' # NoEvent => arriving' = count'.events
         /\ arriving # NoEvent /\ arriving' = NoEvent => \A e : e = arriving => Latest(e)'
         /\ \/ shed' = shed
            \/ /\ shed' = shed \cup {arriving} /\ arriving # NoEvent /\ arriving' = NoEvent
               /\ StartGap \/ (Drop /\ st.open)
<1>1. count \in CountType /\ arriving \in Nat
  BY DEF TypeOK, CountType
<1>2. count.events \in Nat
  BY <1>1 DEF CountType
<1>3. \/ arriving' \in {arriving, NoEvent} /\ count'.events = count.events
      \/ arriving = NoEvent /\ arriving' = count.events + 1 /\ count'.events = count.events + 1
  <2>1. CASE Receipt \/ OtherEvent
    BY <1>1, <2>1 DEF Receipt, OtherEvent, Locked, CountType
  <2>2. CASE Admit \/ GiveUp \/ Open \/ ArrivesLate \/ UNCHANGED vars
    BY <2>2 DEF Admit, GiveUp, Open, ArrivesLate, vars
  <2>3. CASE Enqueue
    <3>1. arriving' \in {arriving, NoEvent}
      BY <2>3 DEF Enqueue, EndGap, StartGap, Drop, Queue, PushFails
    <3>2. count' = count \/ count' = [count EXCEPT !.faults = @ + 1]
      BY <2>3 DEF Enqueue, EndGap, StartGap, Drop, Queue, PushFails
    <3> QED
      BY <1>1, <3>1, <3>2 DEF CountType
  <2>4. CASE Worker
    <3>1. arriving' = arriving
      BY <2>4 DEF Worker, Ack, Post, Delivered, PostFails, AckOne, CursorFails, FinishAck,
                  CompactionFails
    <3>2. count' = count \/ count' = [count EXCEPT !.faults = @ + 1]
      BY <2>4 DEF Worker, Ack, Post, Delivered, PostFails, AckOne, CursorFails, FinishAck,
                  CompactionFails
    <3> QED
      BY <1>1, <3>1, <3>2 DEF CountType
  <2>5. CASE Crash
    BY <1>1, <2>5 DEF Crash, CountType
  <2> QED
    BY <2>1, <2>2, <2>3, <2>4, <2>5 DEF Next, Requests
<1>4. \A e \in Nat : Latest(e) => Latest(e)'
  BY <1>1, <1>2, <1>3 DEF Latest, NoEvent
<1>5. arriving # NoEvent /\ arriving' = NoEvent => \A e : e = arriving => Latest(e)'
  BY <1>1, <1>2, <1>3 DEF Latest, NoEvent
<1>6. \/ shed' = shed
      \/ /\ shed' = shed \cup {arriving} /\ arriving # NoEvent /\ arriving' = NoEvent
         /\ StartGap \/ (Drop /\ st.open)
  <2>1. CASE StartGap \/ Drop
    BY <2>1 DEF StartGap, Drop
  <2>2. CASE EndGap \/ Queue \/ PushFails
    BY <2>2 DEF EndGap, Queue, PushFails, hist
  <2>3. CASE Requests \/ Open \/ ArrivesLate \/ UNCHANGED vars
    BY <2>3 DEF Requests, Admit, Receipt, OtherEvent, GiveUp, Open, ArrivesLate, vars, hist
  <2>4. CASE Worker
    BY <2>4 DEF Worker, Ack, Post, Delivered, PostFails, AckOne, CursorFails, FinishAck,
                CompactionFails, hist
  <2>5. CASE Crash
    BY <2>5 DEF Crash
  <2> QED
    BY <2>1, <2>2, <2>3, <2>4, <2>5 DEF Next, Enqueue
<1> QED
  BY <1>1, <1>2, <1>3, <1>4, <1>5, <1>6 DEF NoEvent

\* The parts of Ordered that every kind of step keeps for a reason of its own.
Recent == \A a \in Known : a.kind = "event" => Latest(a.ev)
Gaps   == Alive => \A i \in 1..Len(Now.pending) : Paired(Now.pending, i, Now.open)

LEMMA OrderedIs ==
  Ordered <=> /\ Recent /\ Gaps /\ \A e \in shed : Latest(e)
              /\ arriving # NoEvent => arriving = count.events
  BY DEF Ordered, Recent, Gaps

LEMMA OrderedStays ==
  ASSUME TypeOK, WorkerOK, Recent, Gaps, Stays, \A e \in Nat : Latest(e) => Latest(e)'
  PROVE  Recent' /\ Gaps'
<1>1. SameQueue /\ Known' = Known
  BY SameStep, SameKnown
<1>2. \A a \in Known : a.ev \in Nat
  BY KnownIs, FieldsAre
<1>3. Recent'
  BY <1>1, <1>2 DEF Recent
<1>4. Gaps'
  BY <1>1 DEF Gaps, SameQueue, Paired
<1> QED
  BY <1>3, <1>4

LEMMA OrderedPush ==
  ASSUME TypeOK, WorkerOK, Recent, Gaps, NEW env \in Envelope, Pushes(env),
         \A e \in Nat : Latest(e) => Latest(e)',
         arriving' = NoEvent => \A e : e = arriving => Latest(e)'
  PROVE  Recent' /\ Gaps'
<1>1. /\ Alive /\ Alive' /\ Now = st /\ Now' = st' /\ Known' = Known \cup {env}
      /\ st'.pending = Append(st.pending, env)
      /\ env.kind = "event" => env.ev = arriving /\ arriving' = NoEvent
      /\ st.open => env.kind = "ended"
      /\ env.kind = "started" => st'.open
  BY PushKnown DEF Pushes
<1>2. \A a \in Known : a.ev \in Nat
  BY KnownIs, FieldsAre
<1>3. Recent'
  BY <1>1, <1>2 DEF Recent
<1>4. st.pending \in Seq(Envelope) /\ Len(st.pending) \in Nat
  BY DEF TypeOK, State
<1>5. /\ Len(st'.pending) = Len(st.pending) + 1
      /\ st'.pending[Len(st.pending) + 1] = env
      /\ \A i \in 1..Len(st.pending) : st'.pending[i] = st.pending[i]
  BY <1>1, <1>4, AppendIs
<1>6. ASSUME NEW i \in 1..Len(st'.pending)
      PROVE  Paired(st'.pending, i, st'.open)
  <2>1. CASE i = Len(st.pending) + 1
    BY <1>1, <1>4, <1>5, <2>1 DEF Paired
  <2>2. CASE i = Len(st.pending) /\ i \in 1..Len(st.pending)
    <3>1. Paired(st.pending, i, st.open) /\ i < Len(st'.pending) /\ ~(i < Len(st.pending))
      BY <1>1, <1>4, <1>5, <2>2 DEF Gaps
    <3> QED
      BY <1>1, <1>5, <2>2, <3>1 DEF Paired
  <2>3. CASE i # Len(st.pending) /\ i \in 1..Len(st.pending)
    <3>1. /\ Paired(st.pending, i, st.open) /\ i < Len(st'.pending) /\ i < Len(st.pending)
          /\ i + 1 \in 1..Len(st.pending)
      BY <1>1, <1>4, <1>5, <2>3 DEF Gaps
    <3> QED
      BY <1>5, <2>3, <3>1 DEF Paired
  <2> QED
    BY <1>4, <1>5, <2>1, <2>2, <2>3
<1> QED
  BY <1>1, <1>3, <1>6 DEF Gaps

LEMMA OrderedPop ==
  ASSUME TypeOK, WorkerOK, Recent, Gaps, Pops, Known' = Known,
         \A e \in Nat : Latest(e) => Latest(e)'
  PROVE  Recent' /\ Gaps'
<1>1. /\ Alive /\ Now = st /\ Now' = st' /\ st'.open = st.open
      /\ Len(st'.pending) = Len(st.pending) - 1
      /\ \A i \in 1..Len(st.pending) - 1 : st'.pending[i] = st.pending[i + 1]
  BY DEF Pops, Alive, Now
<1>2. \A a \in Known : a.ev \in Nat
  BY KnownIs, FieldsAre
<1>3. Recent'
  BY <1>2 DEF Recent
<1>4. Len(st.pending) \in Nat
  BY DEF TypeOK, State
<1>5. ASSUME NEW i \in 1..Len(st'.pending)
      PROVE  Paired(st'.pending, i, st'.open)
  <2>1. /\ i \in 1..Len(st.pending) - 1 /\ i + 1 \in 1..Len(st.pending)
        /\ i < Len(st'.pending) => i + 1 < Len(st.pending) /\ i + 1 \in 1..Len(st.pending) - 1
        /\ ~(i < Len(st'.pending)) => ~(i + 1 < Len(st.pending))
    BY <1>1, <1>4
  <2>2. Paired(st.pending, i + 1, st.open) /\ st'.pending[i] = st.pending[i + 1]
    BY <1>1, <2>1 DEF Gaps
  <2>3. i < Len(st'.pending) => st'.pending[i + 1] = st.pending[(i + 1) + 1]
    BY <1>1, <2>1
  <2> QED
    BY <1>1, <2>1, <2>2, <2>3 DEF Paired
<1> QED
  BY <1>1, <1>3, <1>5 DEF Gaps

LEMMA OrderedCrash ==
  ASSUME TypeOK, WorkerOK, Recent, Gaps, OnFile, Crash,
         \A e \in Nat : Latest(e) => Latest(e)'
  PROVE  Recent' /\ Gaps'
<1>1. /\ Alive /\ Now = st /\ Feeds /\ UNCHANGED cursor
      /\ arriving' = NoEvent
  BY CrashIs DEF Crash
<1>2. \A a \in Known : a.ev \in Nat
  BY KnownIs, FieldsAre
<1>e. count'.events = count.events
  BY DEF Crash, TypeOK
<1>3. CASE ~Alive'
  <2>1. Known' \subseteq Known
    BY <1>1, <1>3, SentIs DEF Known, Pending
  <2> QED
    BY <1>2, <1>3, <2>1 DEF Recent, Gaps
<1>4. CASE Alive'
  <2>1. PICK k, a \in Nat : Reads(k, a)
    BY <1>4, CrashReads
  <2>n. k \in Nat /\ a \in Nat
    OBVIOUS
  <2>2. Known' = Known \cup StrayLine(k)
    BY <1>4, <2>1, CrashKnown
  <2>3. \A l \in StrayLine(k) : l.kind = "event" => Latest(l.ev)'
    <3>1. \A l \in StrayLine(k) : l.kind = "event" => l.ev <= count.events
      BY <2>1, <2>n, ReadLines DEF Stray
    <3> QED
      BY <1>1, <1>e, <3>1 DEF Latest
  <2>4. Recent'
    BY <1>2, <2>2, <2>3 DEF Recent
  <2> DEFINE P == Len(st.pending)
             N == st.nextSeq
             Q == Len(spool)
             M == Now'.nextSeq
             D == Len(Now'.pending)
             C == cursor.next
             n == k + P
  <2>5. /\ M + n = N + Q /\ C + D = M /\ D + a = Q /\ a \in 0..k
        /\ \A i \in 1..D : Now'.pending[i] = spool[a + i]
        /\ Now'.open = GapOpenIn(Now'.pending)
        /\ \A i \in 1..Q : spool[i] \in Envelope
    BY <2>1 DEF Reads, StartsWith
  <2>6. /\ \A i \in 1..Q : spool[i].seq + n + 1 = N + i
        /\ \A i \in 1..n : spool[i].seq >= C => Paired(spool, i, st.open)
        /\ Q = n \/ Q = n + 1
    BY <1>1, <2>1 DEF Reads, StartsWith, Holds
  <2>7. P \in Nat /\ N \in Nat /\ C \in Nat
    BY <1>1, KnownIs
  <2>8. Q \in Nat /\ n \in Nat /\ M \in Nat
    <3>1. Q \in Nat
      BY DEF TypeOK
    <3>2. n \in Nat
      BY <2>n, <2>7
    <3>3. M \in Nat
      BY <2>1 DEF Reads, StartsWith
    <3> QED BY <3>1, <3>2, <3>3
  <2>9. D \in Nat
    BY <2>1 DEF Reads, StartsWith
  <2>10. ASSUME NEW i \in 1..D
         PROVE  Paired(Now'.pending, i, Now'.open)
    <3> HIDE DEF P, N, Q, M, D, C, n
    <3>1. /\ a + i \in 1..Q /\ i \in Nat /\ a + i \in Nat
          /\ i < D => a + i < Q /\ i + 1 \in 1..D /\ a + (i + 1) = a + i + 1 /\ a + i \in 1..n
          /\ ~(i < D) => i = D
      BY <2>5, <2>6, <2>7, <2>8, <2>9, <2>n
    <3>2. spool[a + i].seq \in Nat /\ spool[a + i].seq + n + 1 = N + (a + i)
      BY <2>5, <2>6, <3>1, FieldsAre
    <3>3. spool[a + i].seq >= C
      <4>1. C + n = N + a
        BY <2>5, <2>7, <2>8, <2>9, <2>n
      <4>2. \A q \in Nat : q + n + 1 = N + (a + i) => q >= C
        BY <2>7, <2>8, <2>n, <3>1, <4>1
      <4> QED
        BY <3>2, <4>2
    <3>4. CASE i < D
      <4>1. Paired(spool, a + i, st.open) /\ a + i < Len(spool)
        BY <2>6, <3>1, <3>3, <3>4 DEF Q
      <4>2. Now'.pending[i] = spool[a + i] /\ Now'.pending[i + 1] = spool[a + i + 1]
        BY <2>5, <3>1, <3>4
      <4>3. i < Len(Now'.pending)
        BY <3>4 DEF D
      <4> QED
        BY <4>1, <4>2, <4>3 DEF Paired
    <3>5. CASE ~(i < D)
      <4>1. i \in 1..Len(Now'.pending) /\ \A j \in i + 1..Len(Now'.pending) : FALSE
        BY <2>9, <3>1, <3>5 DEF D
      <4>2. Now'.pending[i].kind = "started" => Now'.open
        BY <2>5, <4>1 DEF GapOpenIn
      <4>3. ~(i < Len(Now'.pending))
        BY <3>5 DEF D
      <4> QED
        BY <4>2, <4>3 DEF Paired
    <3> QED
      BY <3>4, <3>5
  <2>11. Gaps'
    BY <2>10 DEF Gaps
  <2> QED
    BY <2>4, <2>11
<1> QED
  BY <1>3, <1>4

LEMMA OrderedStep ==
  TypeOK /\ WorkerOK /\ Numbered /\ OnFile /\ Ordered /\ [Next]_vars => Ordered'
<1> SUFFICES ASSUME TypeOK, WorkerOK, Numbered, OnFile, Ordered, [Next]_vars PROVE Ordered'
  OBVIOUS
<1>0. /\ Recent /\ Gaps /\ \A e \in shed : Latest(e) /\ e \in Nat
      /\ arriving # NoEvent => arriving = count.events
  BY OrderedIs DEF TypeOK
<1>1. /\ \A e \in Nat : Latest(e) => Latest(e)'
      /\ arriving' # NoEvent => arriving' = count'.events
      /\ arriving # NoEvent /\ arriving' = NoEvent => \A e : e = arriving => Latest(e)'
      /\ \A e \in shed' : e \in shed \/ (e = arriving /\ arriving # NoEvent /\ arriving' = NoEvent)
  BY <1>0, ClockStep
<1>2. \A e \in shed' : Latest(e)'
  BY <1>0, <1>1
<1>3. Recent' /\ Gaps'
  <2>1. CASE EndGap \/ StartGap \/ Queue
    <3>1. PICK env \in Envelope : Pushes(env)
      BY <2>1, PushStep
    <3>2. env \in Envelope /\ arriving # NoEvent
      BY <3>1 DEF Pushes
    <3> QED
      BY <1>0, <1>1, <3>1, <3>2, OrderedPush
  <2>2. CASE Stays
    BY <1>0, <1>1, <2>2, OrderedStays
  <2>3. CASE AckOne \/ CursorFails
    BY <1>0, <1>1, <2>3, PopStep, NumberedPop, OrderedPop
  <2>4. CASE Crash
    BY <1>0, <1>1, <2>4, OrderedCrash
  <2> QED
    BY <2>1, <2>2, <2>3, <2>4 DEF Next, Enqueue, Worker, Ack, Stays
<1> QED
  BY <1>1, <1>2, <1>3, OrderedIs DEF Recent, Gaps, Ordered

-----------------------------------------------------------------------------
(* The spool.                                                              *)

\* The line of a failed append stays what it is until the next append.
LEMMA StrayStays ==
  ASSUME TypeOK, Alive, Alive', NEW l \in Envelope, Stray(l),
         Now'.lastHash = Now.lastHash, Now'.open = Now.open,
         Len(Now'.pending) \in Nat, Len(Now'.pending) <= Len(Now.pending),
         count'.events \in Nat, count.events <= count'.events,
         shed' = shed \/ Now.open
  PROVE  Stray(l)'
<1>1. /\ Cap \in Nat /\ Len(Now.pending) \in Nat /\ l.ev \in Nat /\ count.events \in Nat
  <2>1. count \in CountType
    BY DEF TypeOK, CountType
  <2> QED
    BY <2>1, CapAssumption, KnownIs, FieldsAre DEF CountType
<1>2. l.prev = Now'.lastHash
  BY DEF Stray
<1>3. ASSUME l.kind = "event"
      PROVE  /\ ~Now'.open /\ Len(Now'.pending) < Cap
             /\ l.ev <= count'.events
             /\ \A e \in shed' : e < l.ev
  <2>1. /\ ~Now.open /\ Len(Now.pending) < Cap
        /\ l.ev <= count.events
        /\ \A e \in shed : e < l.ev
    BY <1>3 DEF Stray
  <2> QED
    BY <1>1, <2>1
<1> QED
  BY <1>2, <1>3 DEF Stray

\* Nothing is written, and the queue stays.
LEMMA OnFileKept ==
  ASSUME TypeOK, WorkerOK, OnFile, SameQueue, UNCHANGED spool, received \subseteq received',
         count'.events \in Nat, count.events <= count'.events,
         shed' = shed \/ Now.open
  PROVE  OnFile'
<1> SUFFICES ASSUME Alive', Whole' PROVE \E k \in 0..Len(spool') : Holds(k)'
  BY DEF OnFile
<1>1. Alive /\ Whole
  BY DEF SameQueue, Whole
<1>2. PICK k \in 0..Len(spool) : Holds(k)
  BY <1>1 DEF OnFile
<1> DEFINE n == k + Len(Now.pending)
<1>3. /\ Now'.pending = Now.pending /\ Now'.nextSeq = Now.nextSeq /\ Now'.open = Now.open
      /\ Now'.lastHash = Now.lastHash /\ cursor' = cursor /\ spool' = spool
  BY <1>1 DEF SameQueue
<1>4. /\ Len(Now.pending) \in Nat /\ spool \in Seq(Line) /\ Len(spool) \in Nat
  BY <1>1, KnownIs DEF TypeOK
<1>5. Len(spool) = n + 1 => Stray(spool[n + 1])'
  <2>1. SUFFICES ASSUME Len(spool) = n + 1 PROVE Stray(spool[n + 1])'
    OBVIOUS
  <2>2. n + 1 \in 1..Len(spool)
    BY <1>2, <1>4, <2>1
  <2>3. spool[n + 1] \in Envelope
    BY <1>1, <1>4, <2>2 DEF Whole, Line, Elements
  <2>4. Stray(spool[n + 1])
    BY <1>2, <2>1 DEF Holds
  <2>5. \A l \in Envelope : Stray(l) => Stray(l)'
    BY <1>1, <1>3, <1>4, StrayStays
  <2>6. \A l : l = spool[n + 1] => Stray(l)'
    BY <2>3, <2>4, <2>5
  <2> QED
    BY <1>3, <2>6 DEF Stray
<1>6. Holds(k)'
  BY <1>2, <1>3, <1>5 DEF Holds, Paired
<1> QED
  BY <1>2, <1>3, <1>6

\* An append to a spool that is whole afterwards finds no line of a failed append.
LEMMA AppendFindsNone ==
  ASSUME TypeOK, OnFile, Alive, Now = st, NEW env \in Envelope, env.seq = st.nextSeq,
         spool' = Appended(spool, env), Whole'
  PROVE  /\ Len(spool') = Len(spool) + 1 /\ spool'[Len(spool) + 1] = env
         /\ \A i \in 1..Len(spool) : spool'[i] = spool[i] /\ spool[i].seq \in Nat
         /\ \E k \in 0..Len(spool) : Holds(k) /\ Len(spool) = k + Len(st.pending)
<1>2. spool \in Seq(Line) /\ env \in Line /\ Len(spool) \in Nat
  BY DEF TypeOK, Line
<1>3. Torn \notin Elements(spool)
  BY <1>2, AppendedIs DEF Whole
<1>4. /\ Len(spool') = Len(spool) + 1 /\ spool'[Len(spool) + 1] = env
      /\ \A i \in 1..Len(spool) : spool'[i] = spool[i]
  <2>1. /\ Len(Appended(spool, env)) = Len(spool) + 1
        /\ Appended(spool, env)[Len(spool) + 1] = env
        /\ \A i \in 1..Len(spool) : Appended(spool, env)[i] = spool[i]
    BY <1>2, <1>3, AppendedIs
  <2> QED
    BY <2>1
<1>5. Whole
  <2>1. ASSUME NEW i \in 2..Len(spool)
        PROVE  spool[i].seq = spool[i-1].seq + 1 /\ spool[i].prev = spool[i-1].hash
    <3>1. i \in 2..Len(spool') /\ i \in 1..Len(spool) /\ i - 1 \in 1..Len(spool)
      BY <1>2, <1>4
    <3>2. spool'[i].seq = spool'[i-1].seq + 1 /\ spool'[i].prev = spool'[i-1].hash
      BY <3>1 DEF Whole, Chained
    <3> QED
      BY <1>4, <3>1, <3>2
  <2> QED
    BY <1>3, <2>1 DEF Whole, Chained
<1>6. PICK k \in 0..Len(spool) : Holds(k)
  BY <1>5 DEF OnFile
<1> DEFINE P == Len(st.pending)
           N == st.nextSeq
           Q == Len(spool)
           n == k + P
<1>7. /\ P \in Nat /\ N \in Nat /\ Q \in Nat /\ k \in 0..Q /\ n \in Nat
      /\ st.pending \in Seq(Envelope) /\ cursor.next \in Nat
  BY <1>2, KnownIs
<1>8. /\ Q = n \/ Q = n + 1
      /\ \A i \in 1..P : spool[k + i] = st.pending[i]
      /\ \A i \in 1..k : spool[i] \in received
      /\ \A i \in 1..Q : spool[i].seq + n + 1 = N + i
      /\ cursor.next + P <= N
      /\ N <= cursor.next + n
      /\ \A i \in 1..n : spool[i].seq >= cursor.next => Paired(spool, i, st.open)
  BY <1>6 DEF Holds
<1>9. \A i \in 1..Q : spool[i].seq \in Nat
  <2>1. \A i \in 1..Q : spool[i] \in Envelope
    BY <1>2, <1>3 DEF Line, Elements
  <2> QED
    BY <2>1, FieldsAre
<1>11. Q = n
  <2> SUFFICES ASSUME Q = n + 1 PROVE FALSE
    BY <1>8
  <2>1. Q \in 1..Q /\ Q + 1 \in 2..Len(spool') /\ (Q + 1) - 1 = Q
    BY <1>4, <1>7
  <2>2. spool'[Q + 1].seq = spool'[Q].seq + 1
    BY <2>1 DEF Whole, Chained
  <2>3. N = spool[Q].seq + 1 /\ spool[Q].seq + n + 1 = N + Q /\ spool[Q].seq \in Nat
    BY <1>4, <1>8, <1>9, <2>1, <2>2
  <2> HIDE DEF N, Q, n
  <2> QED
    BY <1>7, <2>3
<1> QED
  BY <1>4, <1>6, <1>9, <1>11

LEMMA OnFilePush ==
  ASSUME TypeOK, WorkerOK, OnFile, NEW env \in Envelope, Pushes(env)
  PROVE  OnFile'
<1> SUFFICES ASSUME Alive', Whole' PROVE \E k \in 0..Len(spool') : Holds(k)'
  BY DEF OnFile
<1>1. /\ Alive /\ Now = st /\ Now' = st'
      /\ UNCHANGED <<received, cursor>>
      /\ spool' = Appended(spool, env) /\ env.seq = st.nextSeq
      /\ st'.pending = Append(st.pending, env) /\ st'.nextSeq = st.nextSeq + 1
      /\ st.open => env.kind = "ended"
      /\ env.kind = "started" => st'.open
  BY PushKnown DEF Pushes
<1>2. spool \in Seq(Line) /\ Len(spool) \in Nat
  BY DEF TypeOK
<1>4. /\ Len(spool') = Len(spool) + 1 /\ spool'[Len(spool) + 1] = env
      /\ \A i \in 1..Len(spool) : spool'[i] = spool[i]
      /\ \A i \in 1..Len(spool) : spool[i].seq \in Nat
  BY <1>1, AppendFindsNone
<1>6. PICK k \in 0..Len(spool) : Holds(k) /\ Len(spool) = k + Len(st.pending)
  BY <1>1, AppendFindsNone
<1> DEFINE P == Len(st.pending)
           N == st.nextSeq
           Q == Len(spool)
           n == k + P
<1>7. /\ P \in Nat /\ N \in Nat /\ Q \in Nat /\ k \in 0..Q /\ n \in Nat
      /\ st.pending \in Seq(Envelope) /\ cursor.next \in Nat
  BY <1>1, <1>2, KnownIs
<1>8. /\ Q = n
      /\ \A i \in 1..P : spool[k + i] = st.pending[i]
      /\ \A i \in 1..k : spool[i] \in received
      /\ \A i \in 1..Q : spool[i].seq + n + 1 = N + i
      /\ cursor.next + P <= N
      /\ N <= cursor.next + n
      /\ \A i \in 1..n : spool[i].seq >= cursor.next => Paired(spool, i, st.open)
  BY <1>1, <1>6 DEF Holds
<1>9. \A i \in 1..Q : spool[i].seq \in Nat
  BY <1>4
<1>10. /\ Len(st'.pending) = P + 1 /\ st'.pending[P + 1] = env
       /\ \A i \in 1..P : st'.pending[i] = st.pending[i]
  BY <1>1, <1>7, AppendIs
<1>11. Q = n
  BY <1>8
<1>12. /\ Len(spool') = k + Len(st'.pending)
       /\ \A i \in 1..Len(st'.pending) : spool'[k + i] = st'.pending[i]
       /\ \A i \in 1..k : spool'[i] \in received
  <2>1. Len(spool') = k + Len(st'.pending)
    BY <1>4, <1>7, <1>10, <1>11
  <2>2. ASSUME NEW i \in 1..Len(st'.pending) PROVE spool'[k + i] = st'.pending[i]
    <3>1. CASE i \in 1..P
      <4>1. k + i \in 1..Q
        BY <1>7, <1>11, <3>1
      <4> QED
        BY <1>4, <1>8, <1>10, <3>1, <4>1
    <3>2. CASE i = P + 1
      <4>1. k + i = Q + 1
        BY <1>7, <1>11, <3>2
      <4> QED
        BY <1>4, <1>10, <3>2, <4>1
    <3> QED
      BY <1>7, <1>10, <3>1, <3>2
  <2>3. \A i \in 1..k : i \in 1..Q
    BY <1>7
  <2> QED
    BY <1>4, <1>8, <2>1, <2>2, <2>3
<1>13. ASSUME NEW i \in 1..Len(spool')
       PROVE  spool'[i].seq + (k + Len(st'.pending)) + 1 = st'.nextSeq + i
  <2>1. CASE i \in 1..Q
    <3>1. spool[i].seq + n + 1 = N + i /\ spool[i].seq \in Nat /\ i \in Nat
      BY <1>8, <1>9, <2>1
    <3>2. k + Len(st'.pending) = n + 1 /\ st'.nextSeq = N + 1 /\ spool'[i] = spool[i]
      <4>1. k + Len(st'.pending) = n + 1
        BY <1>7, <1>10
      <4> QED
        BY <1>1, <1>4, <2>1, <4>1
    <3>3. \A q \in Nat : q + n + 1 = N + i => q + (n + 1) + 1 = (N + 1) + i
      BY <1>7, <3>1
    <3> QED
      BY <3>1, <3>2, <3>3
  <2>2. CASE i = Q + 1
    BY <1>1, <1>4, <1>7, <1>10, <1>11, <2>2
  <2> QED
    BY <1>4, <1>7, <2>1, <2>2
<1>14. /\ cursor.next + Len(st'.pending) <= st'.nextSeq
       /\ st'.nextSeq <= cursor.next + (k + Len(st'.pending))
  <2>1. st'.nextSeq = N + 1 /\ Len(st'.pending) = P + 1
    BY <1>1, <1>10
  <2>2. cursor.next + P <= N /\ N <= cursor.next + (k + P)
    BY <1>8
  <2> HIDE DEF N, P, n, Q
  <2>3. cursor.next + (P + 1) <= N + 1 /\ N + 1 <= cursor.next + (k + (P + 1))
    BY <1>7, <2>2
  <2> QED
    BY <2>1, <2>3
<1>15. ASSUME NEW i \in 1..k + Len(st'.pending), spool'[i].seq >= cursor.next
       PROVE  Paired(spool', i, st'.open)
  <2>1. CASE i = Q + 1
    BY <1>1, <1>4, <2>1 DEF Paired
  <2>2. CASE i = Q /\ i \in 1..n
    <3>1. i < Len(spool') /\ ~(i < Len(spool))
      BY <1>4, <1>7, <2>2
    <3>2. spool'[i] = spool[i]
      BY <1>4, <1>11, <2>2
    <3>3. Paired(spool, i, st.open)
      BY <1>8, <1>15, <2>2, <3>2
    <3> QED
      BY <1>1, <1>4, <2>2, <3>1, <3>2, <3>3 DEF Paired
  <2>3. CASE i # Q /\ i \in 1..n
    <3>1. /\ i < Len(spool') /\ i < Len(spool) /\ i + 1 \in 1..Len(spool)
      BY <1>4, <1>7, <1>11, <2>3
    <3>2. Paired(spool, i, st.open) /\ spool'[i] = spool[i] /\ spool'[i + 1] = spool[i + 1]
      BY <1>4, <1>8, <1>11, <1>15, <2>3, <3>1
    <3> QED
      BY <3>1, <3>2 DEF Paired
  <2>4. i \in 1..Q + 1
    BY <1>4, <1>12
  <2> HIDE DEF P, Q, n
  <2>5. i = Q + 1 \/ i \in 1..n
    BY <1>7, <1>11, <2>4
  <2> QED
    BY <2>1, <2>2, <2>3, <2>5
<1>16. Len(spool') # k + Len(st'.pending) + 1
  BY <1>7, <1>10, <1>12
<1>17. Holds(k)'
  BY <1>1, <1>12, <1>13, <1>14, <1>15, <1>16 DEF Holds
<1> QED
  BY <1>4, <1>7, <1>17

LEMMA OnFilePop ==
  ASSUME TypeOK, WorkerOK, Numbered, OnFile, Pops, shed' = shed,
         count'.events \in Nat, count.events <= count'.events
  PROVE  OnFile'
<1> SUFFICES ASSUME Alive', Whole' PROVE \E k \in 0..Len(spool') : Holds(k)'
  BY DEF OnFile
<1>1. /\ Alive /\ Now = st /\ Now' = st' /\ UNCHANGED <<spool, received>>
  BY DEF Pops, Alive, Now, data
<1>2. PICK k \in 0..Len(spool) : Holds(k)
  BY <1>1 DEF OnFile, Whole
<1> DEFINE P == Len(st.pending)
           N == st.nextSeq
           Q == Len(spool)
           n == k + P
           C == cursor.next
<1>3. /\ P \in Nat /\ N \in Nat /\ Q \in Nat /\ k \in 0..Q /\ n \in Nat
      /\ st.pending \in Seq(Envelope) /\ C \in Nat /\ spool \in Seq(Line)
  BY <1>1, KnownIs DEF TypeOK
<1>4. /\ Q = n \/ Q = n + 1
      /\ \A i \in 1..P : spool[k + i] = st.pending[i]
      /\ \A i \in 1..k : spool[i] \in received
      /\ \A i \in 1..Q : spool[i].seq + n + 1 = N + i
      /\ C + P <= N /\ N <= C + n
      /\ \A i \in 1..n : spool[i].seq >= C => Paired(spool, i, st.open)
      /\ Q = n + 1 => Stray(spool[n + 1])
  BY <1>1, <1>2 DEF Holds
<1>5. /\ P > 0 /\ st.pending[1] \in received /\ Len(st'.pending) = P - 1
      /\ \A i \in 1..P - 1 : st'.pending[i] = st.pending[i + 1]
      /\ st'.nextSeq = N /\ st'.lastHash = st.lastHash /\ st'.open = st.open
      /\ cursor'.next = st.pending[1].seq + 1 \/ cursor'.next = C
  BY DEF Pops
<1>6. /\ k + 1 \in 0..Q /\ (k + 1) + (P - 1) = n /\ 1 \in 1..P
  <2> HIDE DEF P, Q
  <2> QED
    BY <1>3, <1>4, <1>5
<1>7. /\ cursor'.next \in Nat /\ C <= cursor'.next
      /\ cursor'.next + (P - 1) <= N /\ N <= cursor'.next + n
  <2>1. CASE cursor'.next = C
    <3> HIDE DEF P, N, C, n
    <3> QED
      BY <1>3, <1>4, <1>5, <2>1
  <2>2. CASE cursor'.next = st.pending[1].seq + 1
    <3>1. st.pending[1].seq + P + 1 = N + 1
      BY <1>1, <1>6 DEF Numbered, Numbers
    <3>2. st.pending[1].seq \in Nat
      BY <1>3, <1>6, FieldsAre
    <3>3. k \in Nat /\ k + P = n
      BY <1>3
    <3> HIDE DEF P, N, C, n
    <3>d. P \in Nat /\ N \in Nat /\ C \in Nat /\ n \in Nat /\ C + P <= N
      BY <1>3, <1>4
    <3>4. \A q \in Nat : q + P + 1 = N + 1 => C <= q + 1
      BY <3>d
    <3>5. \A q \in Nat : q + P + 1 = N + 1 => (q + 1) + (P - 1) <= N
      BY <3>d
    <3>6. \A q \in Nat : q + P + 1 = N + 1 => N <= (q + 1) + n
      BY <3>d, <3>3
    <3> QED
      BY <2>2, <3>1, <3>2, <3>4, <3>5, <3>6
  <2> QED
    BY <1>5, <2>1, <2>2
<1>8. \A i \in 1..P - 1 : spool[(k + 1) + i] = st'.pending[i]
  <2>1. \A i \in 1..P - 1 : i + 1 \in 1..P /\ k + (i + 1) = (k + 1) + i
    BY <1>3
  <2>2. \A i \in 1..P - 1 : spool[k + (i + 1)] = st.pending[i + 1]
    BY <1>4, <2>1
  <2> QED
    BY <1>5, <2>1, <2>2
<1>9. \A i \in 1..k + 1 : spool[i] \in received
  <2>1. spool[k + 1] \in received
    BY <1>4, <1>5, <1>6
  <2>2. \A i \in 1..k + 1 : i \in 1..k \/ i = k + 1
    BY <1>3
  <2> QED
    BY <1>4, <2>1, <2>2
<1>10. \A i \in 1..n : spool[i].seq >= cursor'.next => Paired(spool, i, st.open)
  <2>1. \A i \in 1..Q : spool[i] \in Envelope
    BY <1>1, <1>3 DEF Whole, Line, Elements
  <2>2. \A i \in 1..n : i \in 1..Q
    BY <1>3, <1>4
  <2>3. \A i \in 1..n : spool[i].seq \in Nat
    BY <2>1, <2>2, FieldsAre
  <2>4. \A q \in Nat : q >= cursor'.next => q >= C
    BY <1>3, <1>7
  <2> QED
    BY <1>4, <2>3, <2>4
<1>11. Q = n + 1 => \A l : l = spool[n + 1] => Stray(l)'
  <2> SUFFICES ASSUME Q = n + 1 PROVE \A l : l = spool[n + 1] => Stray(l)'
    OBVIOUS
  <2>1. n + 1 \in 1..Len(spool)
    BY <1>3
  <2>2. spool[n + 1] \in Envelope
    BY <1>1, <1>3, <2>1 DEF Whole, Line, Elements
  <2>3. \A l \in Envelope : Stray(l) => Stray(l)'
    <3>1. Len(Now'.pending) \in Nat /\ Len(Now'.pending) <= Len(Now.pending)
      BY <1>1, <1>3, <1>5
    <3>2. Now'.lastHash = Now.lastHash /\ Now'.open = Now.open
      BY <1>1, <1>5
    <3> QED
      BY <1>1, <3>1, <3>2, StrayStays
  <2> QED
    BY <1>4, <2>2, <2>3
<1>12. Holds(k + 1)'
  <2>1. (k + 1) + Len(st'.pending) = n /\ Now' = st' /\ spool' = spool /\ received' = received
    BY <1>1, <1>5, <1>6
  <2>2. Len(spool) \in {n, n + 1}
    BY <1>4
  <2>4. \A i \in 1..n : spool[i].seq >= cursor'.next => Paired(spool', i, st'.open)
    BY <1>1, <1>5, <1>10
  <2>5. /\ cursor'.next + Len(st'.pending) <= st'.nextSeq
        /\ st'.nextSeq <= cursor'.next + n
        /\ \A i \in 1..Len(spool) : spool[i].seq + n + 1 = st'.nextSeq + i
        /\ \A i \in 1..Len(st'.pending) : spool[(k + 1) + i] = st'.pending[i]
    BY <1>4, <1>5, <1>7, <1>8
  <2> HIDE DEF n
  <2> QED
    BY <1>9, <1>11, <2>1, <2>2, <2>4, <2>5 DEF Holds
<1> QED
  BY <1>1, <1>6, <1>12

LEMMA OnFileStray ==
  ASSUME TypeOK, WorkerOK, Ordered, OnFile, NEW env \in Envelope, Strays(env)
  PROVE  OnFile'
<1>1. /\ status = "up" /\ status' = "up" /\ Alive /\ Now = st /\ Alive' /\ Now' = st'
      /\ UNCHANGED <<received, cursor, shed>>
  BY DEF Strays, WorkerOK, Alive, Now, data
<1>2. /\ st'.pending = st.pending /\ st'.nextSeq = st.nextSeq
      /\ st'.lastHash = st.lastHash /\ st'.open = st.open
      /\ count'.events = count.events
  <2>1. st \in State /\ count \in CountType
    BY DEF TypeOK, CountType
  <2> QED
    BY <2>1 DEF Strays, State, CountType
<1>3. count.events \in Nat /\ Len(st.pending) \in Nat /\ spool \in Seq(Line)
  <2>1. count \in CountType
    BY DEF TypeOK, CountType
  <2> QED
    BY <2>1 DEF TypeOK, State, CountType
<1>4. CASE spool' = spool
  <2>1. SameQueue
    BY <1>1, <1>2 DEF SameQueue
  <2> QED
    BY <1>1, <1>2, <1>3, <1>4, <2>1, OnFileKept
<1>5. CASE spool' # spool /\ spool' = Appended(spool, Torn)
  <2>1. Torn \in Line /\ Len(spool) + 1 \in 1..Len(spool) + 1
    BY <1>3 DEF Line
  <2>2. Torn \in Elements(spool')
    BY <1>3, <1>5, <2>1, AppendedIs DEF Elements
  <2> QED
    BY <2>2 DEF OnFile, Whole
<1>6. CASE spool' = Appended(spool, env)
  <2> SUFFICES ASSUME Whole' PROVE \E k \in 0..Len(spool') : Holds(k)'
    BY DEF OnFile
  <2>1. /\ env.seq = st.nextSeq /\ env.prev = st.lastHash
        /\ env.kind = "event" => env.ev = arriving /\ ~st.open /\ ~Full
        /\ st.open => env.kind = "ended"
        /\ arriving # NoEvent
    BY DEF Strays
  <2>2. /\ Len(spool') = Len(spool) + 1 /\ spool'[Len(spool) + 1] = env
        /\ \A i \in 1..Len(spool) : spool'[i] = spool[i] /\ spool[i].seq \in Nat
    BY <1>1, <1>6, <2>1, AppendFindsNone
  <2>3. PICK k \in 0..Len(spool) : Holds(k) /\ Len(spool) = k + Len(st.pending)
    BY <1>1, <1>6, <2>1, AppendFindsNone
  <2> DEFINE n == k + Len(st.pending)
             N == st.nextSeq
  <2>4. /\ \A i \in 1..Len(st.pending) : spool[k + i] = st.pending[i]
        /\ \A i \in 1..k : spool[i] \in received
        /\ \A i \in 1..n : spool[i].seq + n + 1 = N + i
        /\ cursor.next + Len(st.pending) <= N
        /\ N <= cursor.next + n
        /\ \A i \in 1..n : spool[i].seq >= cursor.next => Paired(spool, i, st.open)
    BY <1>1, <2>3 DEF Holds
  <2>5. N \in Nat /\ k \in 0..n /\ n \in Nat /\ Len(spool) = n
    BY <1>1, <1>3, <2>3, KnownIs
  <2>6. \A i \in 1..Len(st.pending) : k + i \in 1..n
    BY <1>3, <2>5
  <2>7. ASSUME NEW i \in 1..n + 1 PROVE spool'[i].seq + n + 1 = N + i
    <3>1. CASE i \in 1..n
      BY <2>2, <2>4, <2>5, <3>1
    <3>2. CASE i = n + 1
      BY <2>1, <2>2, <2>5, <3>2
    <3> QED
      BY <2>5, <3>1, <3>2
  <2>8. ASSUME NEW i \in 1..n, spool'[i].seq >= cursor.next
        PROVE  Paired(spool', i, st.open)
    <3>1. Paired(spool, i, st.open) /\ spool'[i] = spool[i] /\ i < Len(spool')
      BY <2>2, <2>4, <2>5, <2>8
    <3>2. CASE i < n
      <4>1. i + 1 \in 1..n /\ spool'[i + 1] = spool[i + 1] /\ i < Len(spool)
        BY <2>2, <2>5, <3>2
      <4> QED
        BY <3>1, <4>1 DEF Paired
    <3>3. CASE ~(i < n)
      <4>1. i = n /\ ~(i < Len(spool)) /\ spool'[i + 1] = env
        <5>1. Len(spool) = n /\ n \in Nat /\ Len(spool') = Len(spool) + 1
          BY <2>2, <2>5
        <5> HIDE DEF n
        <5>2. i = n
          BY <3>3, <5>1
        <5> QED
          BY <2>2, <5>1, <5>2
      <4> QED
        BY <2>1, <3>1, <4>1 DEF Paired
    <3> QED
      BY <3>2, <3>3
  <2>9. Stray(env)'
    <3>1. env.kind = "event" => /\ env.ev <= count.events /\ Len(st.pending) < Cap
                                /\ \A e \in shed : e < env.ev
      BY <1>3, <2>1, CapAssumption DEF Ordered, Latest, Full
    <3> QED
      BY <1>1, <1>2, <2>1, <3>1 DEF Stray
  <2>10. Holds(k)'
    <3>1. k + Len(Now'.pending) = n /\ Now'.pending = st.pending /\ Now'.nextSeq = N
          /\ Now'.open = st.open /\ received' = received /\ cursor' = cursor
          /\ Len(spool') = n + 1 /\ spool'[n + 1] = env
      BY <1>1, <1>2, <2>2, <2>5
    <3>2. \A i \in 1..Len(st.pending) : spool'[k + i] = st.pending[i]
      BY <2>2, <2>4, <2>5, <2>6
    <3>3. \A i \in 1..k : spool'[i] \in received
      BY <2>2, <2>4, <2>5
    <3>4. \A l : l = spool'[n + 1] => Stray(l)'
      BY <2>9, <3>1
    <3> HIDE DEF n, N
    <3> QED
      BY <2>4, <2>7, <2>8, <3>1, <3>2, <3>3, <3>4 DEF Holds
  <2> QED
    BY <1>3, <2>2, <2>3, <2>10
<1> QED
  BY <1>4, <1>5, <1>6 DEF Strays

LEMMA OnFileFinish ==
  ASSUME TypeOK, WorkerOK, Numbered, Ordered, OnFile, FinishAck \/ CompactionFails
  PROVE  OnFile'
<1>1. /\ status = "up" /\ UNCHANGED cursor /\ Feeds
      /\ st'.pending = st.pending /\ st'.nextSeq = st.nextSeq
      /\ st'.lastHash = st.lastHash /\ st'.open = st.open /\ status' = "up"
  BY QuietStep
<1>2. /\ worker.pc = "acking" /\ worker.left = 0
      /\ spool' = spool \/ (spool' = st.pending /\ ~worker.failed)
      /\ UNCHANGED <<received, shed>>
  BY DEF FinishAck, CompactionFails, Compacts, data, hist
<1>3. /\ Alive /\ Alive' /\ Now = st /\ Now' = st' /\ SameQueue
  BY <1>1 DEF Alive, Now, SameQueue
<1>4. count'.events = count.events /\ count.events \in Nat
  <2>1. count' = count \/ count' = [count EXCEPT !.faults = @ + 1]
    BY DEF FinishAck, CompactionFails
  <2>2. count \in CountType
    BY DEF TypeOK, CountType
  <2> QED
    BY <2>1, <2>2 DEF CountType
<1>5. CASE spool' = spool
  BY <1>2, <1>3, <1>4, <1>5, OnFileKept
<1>6. CASE spool' = st.pending /\ ~worker.failed
  <2> DEFINE P == Len(st.pending)
             N == st.nextSeq
             C == cursor.next
  <2>1. P \in Nat /\ N \in Nat /\ C \in Nat
    BY <1>3, KnownIs
  <2>2. C + P = N
    BY <1>2, <1>6 DEF WorkerOK
  <2>3. \A i \in 1..P : st.pending[i].seq + P + 1 = N + i
    BY <1>3 DEF Numbered, Numbers
  <2>4. \A i \in 1..P : Paired(st.pending, i, st.open)
    BY <1>3 DEF Ordered
  <2>5. P # P + 1 /\ 0 + P = P /\ C + P <= N /\ N <= C + P /\ \A i \in 1..P : 0 + i = i
    BY <2>1, <2>2
  <2>6. /\ Now'.pending = st.pending /\ Now'.nextSeq = N /\ Now'.open = st.open
        /\ spool' = st.pending /\ cursor' = cursor /\ received' = received
    BY <1>1, <1>2, <1>3, <1>6
  <2>7. \A i \in 1..0 : FALSE
    OBVIOUS
  <2>8. Holds(0)'
    <3>1. /\ 0 + Len(Now'.pending) = P /\ Len(spool') = P /\ Len(Now'.pending) = P
          /\ cursor'.next + P <= N /\ N <= cursor'.next + P
      BY <2>1, <2>2, <2>5, <2>6
    <3>2. \A i \in 1..P : spool'[0 + i] = Now'.pending[i]
      BY <2>5, <2>6
    <3>3. \A i \in 1..P : spool'[i].seq + P + 1 = N + i
      BY <2>3, <2>6
    <3>4. \A i \in 1..P : Paired(spool', i, Now'.open)
      BY <2>4, <2>6
    <3>5. P \in {P, P + 1} /\ P # P + 1
      BY <2>1
    <3> HIDE DEF N, C, P
    <3> QED
      BY <2>6, <2>7, <3>1, <3>2, <3>3, <3>4, <3>5 DEF Holds
  <2>9. 0 \in 0..Len(spool')
    BY <2>1, <2>6
  <2> QED
    BY <2>8, <2>9 DEF OnFile
<1> QED
  BY <1>2, <1>5, <1>6

LEMMA OnFileCrash ==
  ASSUME TypeOK, WorkerOK, OnFile, Gaps', Crash
  PROVE  OnFile'
<1> SUFFICES ASSUME Alive', Whole' PROVE \E k \in 0..Len(spool') : Holds(k)'
  BY DEF OnFile
<1>1. PICK k, a \in Nat : Reads(k, a)
  BY CrashReads
<1>2. /\ Alive /\ Now = st /\ UNCHANGED <<spool, cursor, received>>
  BY CrashIs DEF Crash
<1> DEFINE P == Len(st.pending)
           N == st.nextSeq
           Q == Len(spool)
           M == Now'.nextSeq
           D == Len(Now'.pending)
           C == cursor.next
           n == k + P
<1>3. /\ M + n = N + Q /\ C + D = M /\ D + a = Q /\ a \in 0..k /\ k \in 0..Q
      /\ \A i \in 1..D : Now'.pending[i] = spool[a + i]
      /\ \A i \in 1..Q : spool[i] \in Envelope
  BY <1>1 DEF Reads, StartsWith
<1>4. /\ \A i \in 1..Q : spool[i].seq + n + 1 = N + i
      /\ \A i \in 1..k : spool[i] \in received
  BY <1>1, <1>2 DEF Reads, StartsWith, Holds
<1>5. /\ P \in Nat /\ N \in Nat /\ C \in Nat /\ k \in Nat /\ a \in Nat
  BY <1>2, KnownIs
<1>6. Q \in Nat /\ n \in Nat /\ M \in Nat /\ D \in Nat
  <2>1. spool \in Seq(Line) /\ Now'.pending \in Seq(Envelope) /\ M \in Nat
    BY <1>1 DEF TypeOK, Reads, StartsWith
  <2> QED
    BY <1>5, <2>1
<1>7. ASSUME NEW i \in 1..Q
      PROVE  spool[i].seq \in Nat /\ spool[i].seq + Q + 1 = M + i
  <2>1. spool[i].seq \in Nat /\ spool[i].seq + n + 1 = N + i
    BY <1>3, <1>4, FieldsAre
  <2> HIDE DEF Q, N, M, n
  <2>2. \A q \in Nat : q + n + 1 = N + i => q + Q + 1 = M + i
    BY <1>3, <1>6, <1>5
  <2> QED
    BY <2>1, <2>2
<1>8. ASSUME NEW i \in 1..Q, spool[i].seq >= C
      PROVE  Paired(spool, i, Now'.open)
  <2>1. i \in Nat /\ i - a \in 1..D /\ a + (i - a) = i /\ (i < Q => i - a < D /\ (i - a) + 1 \in 1..D
                                             /\ a + ((i - a) + 1) = i + 1)
        /\ (~(i < Q) => ~(i - a < D))
    <3>1. spool[i].seq \in Nat /\ spool[i].seq + Q + 1 = M + i
      BY <1>7
    <3> HIDE DEF Q, M, C, D
    <3>2. \A q \in Nat : q + Q + 1 = M + i /\ q >= C => i > a
      BY <1>3, <1>5, <1>6
    <3>3. i > a
      BY <1>8, <3>1, <3>2
    <3> QED
      BY <1>3, <1>5, <1>6, <3>3
  <2>2. Paired(Now'.pending, i - a, Now'.open)
    BY <2>1 DEF Gaps
  <2>3. Now'.pending[i - a] = spool[i] /\ (i < Q => Now'.pending[(i - a) + 1] = spool[i + 1])
    BY <1>3, <2>1
  <2> QED
    BY <2>1, <2>2, <2>3 DEF Paired
<1>9. /\ a + D = Q /\ C + D <= M /\ M <= C + Q /\ Q # Q + 1
      /\ \A i \in 1..a : i \in 1..k
  <2> HIDE DEF Q, M, C, D
  <2> QED
    BY <1>3, <1>5, <1>6
<1>10. Holds(a)'
  <2>1. spool' = spool /\ cursor' = cursor /\ received' = received
    BY <1>2
  <2>2. \A i \in 1..a : spool[i] \in received
    BY <1>4, <1>9
  <2>3. /\ Len(spool) = Q /\ a + Len(Now'.pending) = Q /\ Now'.nextSeq = M /\ cursor.next = C
        /\ cursor.next + Len(Now'.pending) <= Now'.nextSeq
        /\ \A i \in 1..Len(Now'.pending) : spool[a + i] = Now'.pending[i]
    BY <1>3, <1>9
  <2> HIDE DEF Q, M, D, C
  <2> QED
    BY <1>7, <1>8, <1>9, <2>1, <2>2, <2>3 DEF Holds
<1>11. a \in 0..Len(spool')
  BY <1>2, <1>3, <1>5, <1>6
<1> QED
  BY <1>10, <1>11

LEMMA OnFileStep ==
  TypeOK /\ WorkerOK /\ Numbered /\ Ordered /\ OnFile /\ [Next]_vars => OnFile'
<1> SUFFICES ASSUME TypeOK, WorkerOK, Numbered, Ordered, OnFile, [Next]_vars PROVE OnFile'
  OBVIOUS
<1>0. /\ \A e \in Nat : Latest(e) => Latest(e)'
      /\ count'.events \in Nat /\ count.events <= count'.events
      /\ shed' = shed \/ StartGap \/ (Drop /\ st.open)
  BY ClockStep DEF Ordered
<1>1. CASE EndGap \/ StartGap \/ Queue
  BY <1>1, PushStep, OnFilePush
<1>2. CASE PushFails
  BY <1>2, StrayStep, OnFileStray
<1>3. CASE AckOne \/ CursorFails
  <2>1. shed' = shed
    BY <1>3 DEF AckOne, CursorFails, hist
  <2> QED
    BY <1>0, <1>3, <2>1, PopStep, OnFilePop
<1>4. CASE FinishAck \/ CompactionFails
  BY <1>4, OnFileFinish
<1>5. CASE Crash
  <2>1. Gaps'
    BY <1>0, <1>5, OrderedIs, OrderedCrash
  <2> QED
    BY <1>5, <2>1, OnFileCrash
<1>6. CASE Drop \/ Requests \/ Post \/ Delivered \/ PostFails \/ Open \/ ArrivesLate \/ UNCHANGED vars
  <2>1. SameQueue /\ Feeds /\ received \subseteq received'
    BY <1>6, SameStep, SentIs DEF Stays
  <2>2. UNCHANGED spool
    BY <1>6 DEF Drop, Requests, Admit, Receipt, OtherEvent, GiveUp, Post, Delivered, PostFails,
                Open, ArrivesLate, vars
  <2>3. shed' = shed \/ Now.open
    <3>1. Drop /\ st.open => Now.open
      BY DEF Drop, WorkerOK, Now
    <3>2. ~StartGap \/ shed' = shed
      BY <1>6 DEF Drop, Requests, Admit, Receipt, OtherEvent, GiveUp, Post, Delivered, PostFails,
                  Open, ArrivesLate, vars, hist, StartGap
    <3> QED
      BY <1>0, <3>1, <3>2
  <2> QED
    BY <1>0, <2>1, <2>2, <2>3, OnFileKept
<1> QED
  BY <1>1, <1>2, <1>3, <1>4, <1>5, <1>6 DEF Next, Enqueue, Worker, Ack

-----------------------------------------------------------------------------
(* Dropped events, and events that were appended.                          *)

MarkedGap == Alive /\ Now.open => \E g \in Known : Opens(g, Known)

Marked(e) ==
  \/ \E g \in Known : Marks(g, e, Known)
  \/ ~Alive /\ \A a \in Known : a.kind = "event" => a.ev <= e

Present == Alive => queued \subseteq EventsIn(received \cup Pending)

LEMMA AccountedIs == Accounted <=> MarkedGap /\ (\A e \in shed : Marked(e)) /\ Present
  BY DEF Accounted, MarkedGap, Marked, Present

LEMMA AccountedStays ==
  ASSUME TypeOK, WorkerOK, Ordered, Accounted, Stays
  PROVE  Accounted'
<1>1. /\ SameQueue /\ Feeds /\ Known' = Known /\ received \subseteq received' /\ Pending' = Pending
  BY SameStep, SameKnown, SentIs DEF SameQueue, Pending
<1>2. MarkedGap'
  BY <1>1 DEF Accounted, MarkedGap, SameQueue
<1>3. Present'
  <2>1. queued' = queued
    BY DEF Stays, PushFails, Drop, Requests, Admit, Receipt, OtherEvent, GiveUp, Post, Delivered,
           PostFails, FinishAck, CompactionFails, Open, ArrivesLate, vars, hist
  <2> QED
    BY <1>1, <2>1 DEF Accounted, Present, SameQueue, EventsIn
<1>4. \A e \in shed : Marked(e)'
  <2>1. Alive' = Alive
    BY <1>1 DEF SameQueue
  <2> QED
    BY <1>1, <2>1 DEF Accounted, Marked
<1>5. \A e \in shed' : Marked(e)'
  <2>1. CASE Drop
    <3>1. /\ shed' = shed \cup {arriving} /\ arriving # NoEvent /\ st.open
          /\ Alive /\ Now = st
      BY <2>1 DEF Drop, WorkerOK, Alive, Now
    <3>2. PICK g \in Known : Opens(g, Known)
      BY <3>1 DEF Accounted
    <3>3. \A a \in Known : a.kind = "event" => a.ev < arriving /\ a.ev \in Nat /\ arriving \in Nat
      BY <3>1, KnownIs, FieldsAre DEF Ordered, Latest, TypeOK
    <3>4. \A a \in Known : a.kind = "event" => ~(a.ev > arriving)
      BY <3>3
    <3>5. Marks(g, arriving, Known)
      BY <3>2, <3>4 DEF Marks, Opens
    <3>6. \A e : e = arriving => Marked(e)'
      BY <1>1, <3>2, <3>5 DEF Marked
    <3> QED
      BY <1>4, <3>1, <3>6
  <2>2. CASE ~Drop
    <3>1. shed' = shed
      BY <2>2 DEF Stays, PushFails, Requests, Admit, Receipt, OtherEvent, GiveUp, Post, Delivered,
           PostFails, FinishAck, CompactionFails, Open, ArrivesLate, vars, hist
    <3> QED
      BY <1>4, <3>1
  <2> QED
    BY <2>1, <2>2
<1> QED
  BY <1>2, <1>3, <1>5, AccountedIs DEF Accounted, MarkedGap, Marked, Present

LEMMA AccountedPush ==
  ASSUME TypeOK, WorkerOK, Numbered, Ordered, Accounted, NEW env \in Envelope, Pushes(env)
  PROVE  Accounted'
<1>1. /\ Alive /\ Alive' /\ Now = st /\ Now' = st' /\ Known' = Known \cup {env}
      /\ received' = received /\ arriving # NoEvent /\ env.seq = st.nextSeq
  BY PushKnown DEF Pushes
<1>2. /\ \A a \in Known : a.seq \in Nat /\ a.ev \in Nat /\ a.seq < st.nextSeq
      /\ \A a \in Known : a.kind = "event" => a.ev < arriving
      /\ \A e \in shed : e < arriving /\ e \in Nat
      /\ arriving \in Nat /\ st.nextSeq \in Nat
  BY <1>1, KnownIs, FieldsAre DEF Numbered, Ordered, Latest, TypeOK
<1>3. \A e \in shed : \E g \in Known : Marks(g, e, Known)
  BY <1>1 DEF Accounted
<1>4. /\ queued \subseteq EventsIn(received \cup Pending)
      /\ Pending' = Pending \cup {env}
  <2>1. st.pending \in Seq(Envelope)
    BY DEF TypeOK, State
  <2>2. Pending = Elements(st.pending) /\ Pending' = Elements(st'.pending)
    BY <1>1 DEF Pending
  <2>3. st'.pending = Append(st.pending, env)
    BY DEF Pushes
  <2> QED
    BY <1>1, <2>1, <2>2, <2>3, AppendIs DEF Accounted
<1>5. \A e \in shed : Marked(e)'
  <2> SUFFICES ASSUME NEW e \in shed PROVE \E g \in Known' : Marks(g, e, Known')
    BY DEF Marked
  <2>1. PICK g \in Known : Marks(g, e, Known)
    BY <1>3
  <2>2. env.kind = "event" => env.ev = arriving
    BY DEF Pushes
  <2>3. env.kind = "event" => ~(env.ev < e) /\ g.seq < env.seq
    BY <1>1, <1>2, <2>1, <2>2
  <2> QED
    BY <1>1, <2>1, <2>3 DEF Marks
<1>6. CASE env.kind = "ended" \/ env.kind = "event"
  <2>1. ~st'.open /\ shed' = shed /\ queued' \subseteq queued \cup {arriving}
        /\ (env.kind # "event" => queued' = queued)
        /\ (env.kind = "event" => env.ev = arriving)
    BY <1>6 DEF Pushes
  <2>2. MarkedGap'
    BY <1>1, <2>1 DEF MarkedGap
  <2>3. env.kind = "event" => env.ev \in EventsIn(received' \cup Pending')
    BY <1>4 DEF EventsIn
  <2>4. EventsIn(received \cup Pending) \subseteq EventsIn(received' \cup Pending')
    BY <1>1, <1>4 DEF EventsIn
  <2>5. Present'
    BY <1>4, <2>1, <2>3, <2>4 DEF Present
  <2> QED
    BY <1>5, <2>1, <2>2, <2>5 DEF Accounted, MarkedGap, Marked, Present
<1>7. CASE env.kind = "started"
  <2>1. st'.open /\ shed' = shed \cup {arriving} /\ queued' = queued
    BY <1>7 DEF Pushes
  <2>2. Opens(env, Known')
    BY <1>1, <1>2, <1>7 DEF Opens
  <2>3. MarkedGap'
    BY <1>1, <2>2 DEF MarkedGap
  <2>4. Marks(env, arriving, Known \cup {env})
    <3>1. \A a \in Known : a.kind = "event" => ~(a.ev > arriving) /\ a.seq < env.seq
      BY <1>1, <1>2
    <3> QED
      BY <1>7, <3>1 DEF Marks
  <2>5. \A e : e = arriving => Marked(e)'
    BY <1>1, <2>4 DEF Marked
  <2>6. EventsIn(received \cup Pending) \subseteq EventsIn(received' \cup Pending')
    BY <1>1, <1>4 DEF EventsIn
  <2>7. Present'
    BY <1>4, <2>1, <2>6 DEF Present
  <2>8. \A e \in shed' : Marked(e)'
    BY <1>5, <2>1, <2>5
  <2> QED
    BY <2>3, <2>7, <2>8 DEF Accounted, MarkedGap, Marked, Present
<1> QED
  BY <1>6, <1>7, FieldsAre

LEMMA AccountedPop ==
  ASSUME TypeOK, WorkerOK, Numbered, Accounted, Pops
  PROVE  Accounted'
<1>1. /\ Alive /\ Alive' /\ Now = st /\ Now' = st' /\ Known' = Known
      /\ UNCHANGED <<received, shed, queued>> /\ st'.open = st.open
      /\ st.pending[1] \in received
      /\ Len(st.pending) > 0 /\ Len(st'.pending) = Len(st.pending) - 1
      /\ \A i \in 1..Len(st.pending) - 1 : st'.pending[i] = st.pending[i + 1]
  BY NumberedPop DEF Pops, Alive, Now, data
<1>2. Pending \subseteq received' \cup Pending'
  <2>1. Len(st.pending) \in Nat
    BY DEF TypeOK, State
  <2>2. \A i \in 1..Len(st.pending) :
          i = 1 \/ (i - 1 \in 1..Len(st'.pending) /\ st'.pending[i - 1] = st.pending[i])
    <3>1. \A i \in 1..Len(st.pending) : i = 1 \/ (i - 1 \in 1..Len(st.pending) - 1 /\ (i - 1) + 1 = i)
      BY <2>1
    <3> QED
      BY <1>1, <3>1
  <2> QED
    BY <1>1, <2>2 DEF Pending, Elements
<1>3. Present'
  <2>1. EventsIn(received \cup Pending) \subseteq EventsIn(received' \cup Pending')
    BY <1>1, <1>2 DEF EventsIn
  <2> QED
    BY <1>1, <2>1 DEF Present, Accounted
<1>4. MarkedGap'
  BY <1>1 DEF MarkedGap, Accounted
<1>5. \A e \in shed' : Marked(e)'
  BY <1>1 DEF Marked, Accounted
<1> QED
  BY <1>3, <1>4, <1>5 DEF Accounted, MarkedGap, Marked, Present

LEMMA AccountedCrash ==
  ASSUME TypeOK, WorkerOK, Numbered, Numbered', Gaps', OnFile, Accounted, Crash
  PROVE  Accounted'
<1>1. /\ Alive /\ Now = st /\ Feeds /\ UNCHANGED <<received, shed, queued>>
  BY CrashIs DEF Crash
<1>2. \A e \in shed : e \in Nat /\ \E g \in Known : Marks(g, e, Known)
  BY <1>1 DEF Accounted, TypeOK
<1>3. /\ Known \subseteq Envelope
      /\ \A a \in Known : a.seq \in Nat /\ a.ev \in Nat /\ a.seq < st.nextSeq
      /\ st.nextSeq \in Nat
  BY <1>1, KnownIs, FieldsAre DEF Numbered
<1>4. CASE ~Alive'
  <2>1. Known' = Sent' /\ Known' \subseteq Known
    BY <1>1, <1>4, SentIs DEF Known, Pending
  <2>2. ASSUME NEW e \in shed PROVE Marked(e)'
    <3>1. PICK g \in Known : Marks(g, e, Known)
      BY <1>2
    <3>2. CASE g \in Known'
      BY <2>1, <3>1, <3>2 DEF Marked, Marks
    <3>3. CASE g \notin Known'
      <4> SUFFICES ASSUME NEW a \in Known', a.kind = "event", a.ev > e PROVE FALSE
        <5>1. \A a \in Known' : a.ev \in Nat /\ e \in Nat
          BY <1>2, <1>3, <2>1
        <5> QED
          BY <1>4, <5>1 DEF Marked
      <4>1. g.seq < a.seq /\ g.seq \in Nat /\ a.seq \in Nat
        BY <1>3, <2>1, <3>1 DEF Marks
      <4>2. PICK S : S \subseteq Sent' /\ a \in S /\ IsPrefix(S)
        <5>1. CASE a \in received'
          BY <5>1 DEF Numbered, Sent
        <5>2. CASE \E b \in wire' : a \in b
          <6>1. PICK b \in wire' : a \in b
            BY <5>2
          <6>2. IsPrefix(received' \cup b) /\ received' \cup b \subseteq Sent'
            BY <6>1 DEF Numbered, Sent
          <6> QED
            BY <6>1, <6>2
        <5> QED
          BY <2>1, <5>1, <5>2 DEF Sent
      <4>3. g.seq \in 0..a.seq
        BY <4>1
      <4>4. PICK d \in S : d.seq = g.seq
        BY <4>2, <4>3 DEF IsPrefix
      <4>5. d = g
        BY <2>1, <3>1, <4>2, <4>4 DEF Numbered, Linked
      <4> QED
        BY <2>1, <3>3, <4>2, <4>5
    <3> QED
      BY <3>2, <3>3
  <2> QED
    BY <1>1, <1>4, <2>2 DEF Accounted, Marked
<1>5. CASE Alive'
  <2>1. PICK k, a \in Nat : Reads(k, a)
    BY <1>5, CrashReads
  <2>n. k \in Nat /\ a \in Nat
    OBVIOUS
  <2>2. Known' = Known \cup StrayLine(k)
    BY <1>5, <2>1, CrashKnown
  <2>3. \A l \in StrayLine(k) : l.seq = st.nextSeq /\ Stray(l)
    BY <2>1, <2>n, ReadLines
  <2>4. ASSUME NEW e \in shed PROVE Marked(e)'
    <3>1. PICK g \in Known : Marks(g, e, Known)
      BY <1>2
    <3>2. g.seq < st.nextSeq
      BY <1>3
    <3>3. \A l \in StrayLine(k) : l.kind = "event" => e < l.ev
      BY <2>3 DEF Stray
    <3>4. \A l \in StrayLine(k) : l.kind = "event" => l.ev \in Nat
      BY <2>1, <2>n, ReadLines, FieldsAre
    <3>5. \A l \in StrayLine(k) : l.kind = "event" => ~(l.ev < e) /\ g.seq < l.seq
      BY <1>2, <2>3, <3>2, <3>3, <3>4
    <3> QED
      BY <2>2, <3>1, <3>5 DEF Marked, Marks
  <2>5. MarkedGap'
    <3> SUFFICES ASSUME Now'.open PROVE \E g \in Known' : Opens(g, Known')
      BY DEF MarkedGap
    <3> DEFINE p == Now'.pending
               D == Len(p)
    <3>1. p \in Seq(Envelope) /\ D \in Nat /\ GapOpenIn(p) /\ Now'.nextSeq \in Nat
      BY <2>1 DEF Reads, StartsWith
    <3>2. PICK i \in 1..D : p[i].kind = "started" /\ \A j \in i + 1..D : p[j].kind = "event"
      BY <3>1 DEF GapOpenIn
    <3>3. i = D
      <4>1. i < D => p[i + 1].kind = "ended"
        BY <1>5, <3>2 DEF Gaps, Paired
      <4>2. i < D => i + 1 \in i + 1..D
        BY <3>1
      <4> QED
        BY <3>1, <3>2, <4>1, <4>2
    <3>4. p[D] \in Known' /\ p[D].seq + D + 1 = Now'.nextSeq + D /\ p[D].seq \in Nat
      <4>1. D \in 1..D
        BY <3>1, <3>3
      <4>2. p[D] \in Known'
        BY <1>5, <4>1 DEF Known, Pending, Elements
      <4>3. p[D].seq + D + 1 = Now'.nextSeq + D
        BY <1>5, <4>1 DEF Numbered, Numbers
      <4>4. p[D] \in Envelope
        BY <3>1, <4>1
      <4> QED
        BY <4>2, <4>3, <4>4, FieldsAre
    <3>5. p[D].seq + 1 = Now'.nextSeq
      <4>1. \A q \in Nat : q + D + 1 = Now'.nextSeq + D => q + 1 = Now'.nextSeq
        BY <3>1
      <4> QED
        BY <3>4, <4>1
    <3>6. ASSUME NEW b \in Known', b.kind = "event" PROVE b.seq < p[D].seq
      <4>1. b.seq < Now'.nextSeq
        BY <1>5 DEF Numbered
      <4>2. b.seq \in Nat
        <5>1. StrayLine(k) \subseteq Envelope
          BY <2>1, <2>n, ReadLines
        <5> QED
          BY <1>3, <2>2, <5>1, FieldsAre
      <4>3. b.seq # p[D].seq
        <5>1. b # p[D]
          BY <3>2, <3>3, <3>6
        <5> QED
          BY <3>4, <5>1 DEF Numbered, Linked
      <4> QED
        BY <3>4, <3>5, <4>1, <4>2, <4>3
    <3> QED
      BY <3>2, <3>3, <3>4, <3>6 DEF Opens
  <2>6. Present'
    <3>1. Pending \subseteq Pending'
      BY <1>1, <1>5, <2>1, <2>n, ReadLines DEF Pending
    <3>2. EventsIn(received \cup Pending) \subseteq EventsIn(received' \cup Pending')
      BY <1>1, <3>1 DEF EventsIn
    <3> QED
      BY <1>1, <3>2 DEF Present, Accounted
  <2> QED
    BY <1>1, <2>4, <2>5, <2>6 DEF Accounted, MarkedGap, Marked, Present
<1> QED
  BY <1>4, <1>5

LEMMA AccountedStep ==
  TypeOK /\ WorkerOK /\ Numbered /\ Ordered /\ OnFile /\ Accounted /\ [Next]_vars => Accounted'
<1> SUFFICES ASSUME TypeOK, WorkerOK, Numbered, Ordered, OnFile, Accounted, [Next]_vars
             PROVE  Accounted'
  OBVIOUS
<1>1. CASE EndGap \/ StartGap \/ Queue
  BY <1>1, PushStep, AccountedPush
<1>2. CASE Stays
  BY <1>2, AccountedStays
<1>3. CASE AckOne \/ CursorFails
  BY <1>3, PopStep, AccountedPop
<1>4. CASE Crash
  <2>1. Numbered'
    BY NumberedStep
  <2>2. Gaps'
    BY <1>4, OrderedIs, OrderedCrash, ClockStep
  <2> QED
    BY <1>4, <2>1, <2>2, AccountedCrash
<1> QED
  BY <1>1, <1>2, <1>3, <1>4 DEF Next, Enqueue, Worker, Ack, Stays

-----------------------------------------------------------------------------
(* Without failed writes.                                                  *)

Fits ==
  /\ Alive /\ Whole
  /\ cursor.next + Len(Now.pending) = Now.nextSeq
  /\ \A i \in 1..Len(spool) : spool[i].seq < Now.nextSeq
  /\ Len(Now.pending) <= Cap + 1
  /\ Len(Now.pending) = Cap + 1 => Now.pending[Cap + 1].kind = "started"

LEMMA CleanIs ==
  Clean <=> (count.faults = 0 => /\ status = "up" => Torn \notin Elements(spool)
                                 /\ Torn \notin Elements(spool) => Fits)
  BY DEF Clean, Fits

\* The number of failed writes only grows.
LEMMA FaultsStep ==
  ASSUME TypeOK, [Next]_vars, count'.faults = 0
  PROVE  count.faults = 0 /\ ~PushFails /\ ~CursorFails /\ ~CompactionFails
<1>1. count \in CountType
  BY DEF TypeOK, CountType
<1>2. CASE PushFails \/ CursorFails \/ CompactionFails
  <2>1. count' = [count EXCEPT !.faults = @ + 1]
    BY <1>2 DEF PushFails, CursorFails, CompactionFails
  <2> QED
    BY <1>1, <2>1 DEF CountType
<1>3. CASE ~(PushFails \/ CursorFails \/ CompactionFails)
  <2>1. CASE Receipt \/ OtherEvent \/ Crash
    BY <1>1, <1>3, <2>1 DEF Receipt, OtherEvent, Crash, CountType
  <2>2. CASE ~(Receipt \/ OtherEvent \/ Crash)
    <3>1. count' = count
      BY <1>3, <2>2 DEF Next, vars, Enqueue, Requests, Worker, Ack, Open, EndGap, StartGap, Drop,
                       Queue, Admit, GiveUp, Post, Delivered, PostFails, AckOne, FinishAck,
                       ArrivesLate
    <3> QED
      BY <1>3, <3>1
  <2> QED
    BY <2>1, <2>2
<1> QED
  BY <1>2, <1>3

\* The queue is a chain.
LEMMA QueueIsChained ==
  ASSUME TypeOK, Numbered, Alive, Now = st
  PROVE  Torn \notin Elements(st.pending) /\ Chained(st.pending)
<1>1. /\ st.pending \in Seq(Envelope) /\ Len(st.pending) \in Nat /\ st.nextSeq \in Nat
  BY KnownIs
<1>2. \A i \in 1..Len(st.pending) :
        /\ st.pending[i] \in Envelope /\ st.pending[i] \in Known /\ st.pending[i].seq \in Nat
        /\ st.pending[i].seq + Len(st.pending) + 1 = st.nextSeq + i
  BY <1>1, FieldsAre DEF Known, Pending, Elements, Numbered, Numbers
<1>3. Torn \notin Elements(st.pending)
  BY <1>2, TornIsNone DEF Elements
<1>4. ASSUME NEW i \in 2..Len(st.pending)
      PROVE  /\ st.pending[i].seq = st.pending[i-1].seq + 1
             /\ st.pending[i].prev = st.pending[i-1].hash
  <2>1. i \in 1..Len(st.pending) /\ i - 1 \in 1..Len(st.pending) /\ i \in Nat
    BY <1>1
  <2>2. \A q, r \in Nat : /\ q + Len(st.pending) + 1 = st.nextSeq + i
                          /\ r + Len(st.pending) + 1 = st.nextSeq + (i - 1)
                          => q = r + 1
    BY <1>1, <2>1
  <2>3. st.pending[i].seq = st.pending[i-1].seq + 1
    BY <1>2, <2>1, <2>2
  <2> QED
    BY <1>2, <2>1, <2>3 DEF Numbered, Linked
<1> QED
  BY <1>3, <1>4 DEF Chained

LEMMA CleanStays ==
  ASSUME TypeOK, WorkerOK, Numbered, Clean, Stays, ~PushFails, ~CompactionFails,
         count.faults = 0
  PROVE  Clean'
<1>1. /\ SameQueue
  BY SameStep
<1>2. CASE spool' = spool
  <2>1. Torn \notin Elements(spool) => Fits'
    BY <1>1, <1>2 DEF SameQueue, Clean, Fits, Whole
  <2>2. status' = "up" => Torn \notin Elements(spool)
    <3>1. CASE status = "up"
      BY <3>1 DEF Clean
    <3>2. CASE status # "up" /\ status' = "up"
      <4>1. Open
        BY <3>2 DEF Stays, Drop, Requests, Admit, Receipt, OtherEvent, GiveUp, Post, Delivered,
                    PostFails, FinishAck, ArrivesLate, vars, data, WorkerOK, Idle
      <4> QED
        BY <3>2, <4>1 DEF Open, Loadable
    <3> QED
      BY <3>1, <3>2
  <2> QED
    BY <1>2, <2>1, <2>2 DEF Clean, Fits
<1>3. CASE spool' # spool
  <2>1. FinishAck /\ spool' = st.pending
    BY <1>3 DEF Stays, Drop, Requests, Admit, Receipt, OtherEvent, GiveUp, Post, Delivered,
                PostFails, FinishAck, ArrivesLate, vars, Open
  <2>2. status = "up" /\ Alive /\ Now = st /\ Alive' /\ Now' = st'
    BY <2>1, QuietStep DEF Alive, Now
  <2>3. Fits
    BY <2>2 DEF Clean, Fits
  <2>4. Torn \notin Elements(spool') /\ Chained(spool')
    BY <2>1, <2>2, QueueIsChained
  <2>5. \A i \in 1..Len(spool') : spool'[i].seq < st.nextSeq
    BY <2>1, <2>2 DEF Numbered, Known, Pending, Elements
  <2>6. Fits'
    BY <1>1, <2>2, <2>3, <2>4, <2>5 DEF Fits, Whole, SameQueue
  <2> QED
    BY <2>4, <2>6 DEF Clean, Fits
<1> QED
  BY <1>2, <1>3

\* Without a failed write the spool ends with the queue.
LEMMA SpoolEnds ==
  ASSUME TypeOK, Numbered, OnFile, Alive, Now = st, Fits
  PROVE  /\ \E k \in Nat : Holds(k) /\ Len(spool) = k + Len(st.pending)
         /\ \A i \in 1..Len(spool) : spool[i] \in Known /\ spool[i] \in Envelope
<1>1. PICK k \in 0..Len(spool) : Holds(k)
  BY DEF OnFile, Fits
<1> DEFINE n == k + Len(st.pending)
           Q == Len(spool)
<1>2. Len(st.pending) \in Nat /\ st.nextSeq \in Nat /\ spool \in Seq(Line) /\ Q \in Nat /\ k \in Nat
  BY KnownIs DEF TypeOK
<1>3. \A i \in 1..Q : spool[i] \in Envelope /\ spool[i].seq \in Nat
  <2>1. \A i \in 1..Q : spool[i] \in Envelope
    BY <1>2 DEF Fits, Whole, Line, Elements
  <2> QED
    BY <2>1, FieldsAre
<1>4. /\ Q = n \/ Q = n + 1
      /\ \A i \in 1..Len(st.pending) : spool[k + i] = st.pending[i]
      /\ \A i \in 1..k : spool[i] \in received
      /\ \A i \in 1..Q : spool[i].seq + n + 1 = st.nextSeq + i
  BY <1>1 DEF Holds
<1>5. Q = n
  <2> SUFFICES ASSUME Q = n + 1 PROVE FALSE
    BY <1>4
  <2>1. Q \in 1..Q
    BY <1>2
  <2>2. spool[Q].seq + n + 1 = st.nextSeq + Q /\ spool[Q].seq < st.nextSeq /\ spool[Q].seq \in Nat
    BY <1>3, <1>4, <2>1 DEF Fits
  <2>3. n \in Nat
    BY <1>2
  <2> HIDE DEF n, Q
  <2> QED
    BY <1>2, <2>2, <2>3
<1>6. ASSUME NEW i \in 1..Q PROVE spool[i] \in Known
  <2>1. CASE i \in 1..k
    BY <1>4, <2>1, KnownIs
  <2>2. CASE i \notin 1..k
    <3>1. i - k \in 1..Len(st.pending) /\ k + (i - k) = i
      BY <1>2, <1>5, <2>2
    <3>2. spool[i] = st.pending[i - k]
      BY <1>4, <3>1
    <3> QED
      BY <3>1, <3>2 DEF Known, Pending, Elements
  <2> QED
    BY <2>1, <2>2
<1> QED
  BY <1>1, <1>2, <1>3, <1>5, <1>6

LEMMA CleanPush ==
  ASSUME TypeOK, WorkerOK, Numbered, Ordered, OnFile, Clean, count.faults = 0,
         NEW env \in Envelope, Pushes(env)
  PROVE  Clean'
<1>1. /\ status = "up" /\ Alive /\ Alive' /\ Now = st /\ Now' = st' /\ UNCHANGED cursor
      /\ spool' = Appended(spool, env)
      /\ env.seq = st.nextSeq /\ env.prev = st.lastHash
      /\ st'.pending = Append(st.pending, env) /\ st'.nextSeq = st.nextSeq + 1
      /\ (~Full \/ (env.kind = "started" /\ ~st.open))
  BY PushKnown DEF Pushes
<1>2. Fits /\ Torn \notin Elements(spool)
  BY <1>1 DEF Clean, Fits
<1>3. /\ spool \in Seq(Line) /\ env \in Line /\ st.pending \in Seq(Envelope)
      /\ st.nextSeq \in Nat /\ Len(st.pending) \in Nat /\ cursor.next \in Nat /\ Cap \in Nat
      /\ Len(spool) \in Nat
  BY <1>1, KnownIs, CapAssumption DEF TypeOK, Line
<1>4. /\ Len(spool') = Len(spool) + 1 /\ spool'[Len(spool) + 1] = env
      /\ \A i \in 1..Len(spool) : spool'[i] = spool[i]
  BY <1>1, <1>2, <1>3, AppendedIs
<1>5. /\ Len(st'.pending) = Len(st.pending) + 1
      /\ st'.pending[Len(st.pending) + 1] = env
  BY <1>1, <1>3, AppendIs
<1>6. Torn \notin Elements(spool')
  <2>1. \A i \in 1..Len(spool) + 1 : i \in 1..Len(spool) \/ i = Len(spool) + 1
    BY <1>3
  <2>2. \A i \in 1..Len(spool) : spool[i] # Torn
    BY <1>2 DEF Elements
  <2> QED
    BY <1>4, <2>1, <2>2, TornIsNone DEF Elements
<1>7. Chained(spool')
  <2> SUFFICES ASSUME NEW i \in 2..Len(spool')
               PROVE  spool'[i].seq = spool'[i-1].seq + 1 /\ spool'[i].prev = spool'[i-1].hash
    BY DEF Chained
  <2>1. CASE i \in 2..Len(spool)
    <3>1. i \in 1..Len(spool) /\ i - 1 \in 1..Len(spool)
      BY <1>3, <2>1
    <3> QED
      BY <1>2, <1>4, <2>1, <3>1 DEF Fits, Whole, Chained
  <2>2. CASE i = Len(spool) + 1
    <3> DEFINE Q == Len(spool)
    <3>1. Q \in 1..Q /\ i - 1 = Q
      BY <1>3, <2>2
    <3>2. PICK k \in Nat : Holds(k) /\ Q = k + Len(st.pending)
      BY <1>1, <1>2, SpoolEnds
    <3>3. spool[Q] \in Known /\ spool[Q] \in Envelope
      BY <1>1, <1>2, <3>1, SpoolEnds
    <3>4. spool[Q].seq + Q + 1 = st.nextSeq + Q
      BY <1>1, <3>1, <3>2 DEF Holds
    <3>5. spool[Q].seq \in Nat
      BY <3>3, FieldsAre
    <3>6. spool[Q].seq + 1 = st.nextSeq
      <4>1. \A q \in Nat : q + Q + 1 = st.nextSeq + Q => q + 1 = st.nextSeq
        BY <1>3
      <4> QED
        BY <3>4, <3>5, <4>1
    <3>7. PICK e \in Known : e.seq + 1 = st.nextSeq /\ e.hash = st.lastHash
      BY <1>1, <3>5, <3>6 DEF Numbered, HashBefore
    <3>8. e.seq \in Nat
      BY <3>7, KnownIs, FieldsAre
    <3>9. e.seq = spool[Q].seq
      BY <3>5, <3>6, <3>7, <3>8
    <3>10. e = spool[Q]
      BY <3>3, <3>7, <3>9 DEF Numbered, Linked
    <3> QED
      BY <1>1, <1>4, <2>2, <3>1, <3>6, <3>7, <3>10
  <2> QED
    BY <1>3, <1>4, <2>1, <2>2
<1>8. cursor'.next + Len(st'.pending) = st'.nextSeq
  <2>1. cursor.next + Len(st.pending) = st.nextSeq
    BY <1>1, <1>2 DEF Fits
  <2> QED
    BY <1>1, <1>3, <1>5, <2>1
<1>9. ASSUME NEW i \in 1..Len(spool') PROVE spool'[i].seq < st'.nextSeq
  <2>1. CASE i \in 1..Len(spool)
    <3>1. spool[i].seq < st.nextSeq /\ spool[i] \in Envelope
      BY <1>1, <1>2, <2>1, SpoolEnds DEF Fits
    <3>2. spool[i].seq \in Nat
      BY <3>1, FieldsAre
    <3> QED
      BY <1>1, <1>3, <1>4, <2>1, <3>1, <3>2
  <2>2. CASE i = Len(spool) + 1
    BY <1>1, <1>3, <1>4, <2>2
  <2> QED
    BY <1>3, <1>4, <2>1, <2>2
<1>10. /\ Len(st'.pending) <= Cap + 1
       /\ Len(st'.pending) = Cap + 1 => st'.pending[Cap + 1].kind = "started"
  <2>1. Len(st.pending) <= Cap
    <3> SUFFICES ASSUME Len(st.pending) > Cap PROVE FALSE
      BY <1>3
    <3>1. Len(st.pending) = Cap + 1 /\ Full
      BY <1>1, <1>2, <1>3 DEF Fits, Full
    <3>2. st.pending[Cap + 1].kind = "started" /\ ~st.open
      BY <1>1, <1>2, <3>1 DEF Fits
    <3>3. Cap + 1 \in 1..Len(st.pending) /\ ~(Cap + 1 < Len(st.pending))
      BY <1>3, <3>1
    <3>4. Paired(st.pending, Cap + 1, st.open)
      BY <1>1, <3>3 DEF Ordered
    <3> QED
      BY <3>2, <3>3, <3>4 DEF Paired
  <2>2. Len(st.pending) = Cap => env.kind = "started"
    BY <1>1, <1>3 DEF Full
  <2>3. Len(st'.pending) = Cap + 1 => Len(st.pending) = Cap
    BY <1>3, <1>5
  <2> QED
    BY <1>3, <1>5, <2>1, <2>2, <2>3
<1>11. Fits'
  BY <1>1, <1>6, <1>7, <1>8, <1>9, <1>10 DEF Fits, Whole
<1> QED
  BY <1>6, <1>11, CleanIs DEF Clean, Fits

LEMMA CleanPop ==
  ASSUME TypeOK, WorkerOK, Numbered, Clean, count.faults = 0, Pops, count'.faults = 0
  PROVE  Clean'
<1>1. /\ status = "up" /\ Alive /\ Alive' /\ Now = st /\ Now' = st'
      /\ UNCHANGED spool /\ st'.nextSeq = st.nextSeq
      /\ Len(st.pending) > 0 /\ Len(st'.pending) = Len(st.pending) - 1
      /\ cursor'.next = st.pending[1].seq + 1
  BY DEF Pops, Alive, Now
<1>2. Fits /\ Torn \notin Elements(spool)
  BY <1>1 DEF Clean, Fits
<1>3. st.nextSeq \in Nat /\ Len(st.pending) \in Nat /\ Cap \in Nat /\ 1 \in 1..Len(st.pending)
      /\ st.pending \in Seq(Envelope)
  BY <1>1, KnownIs, CapAssumption
<1>4. st.pending[1].seq + Len(st.pending) + 1 = st.nextSeq + 1 /\ st.pending[1].seq \in Nat
  BY <1>1, <1>3, FieldsAre DEF Numbered, Numbers
<1>5. (st.pending[1].seq + 1) + (Len(st.pending) - 1) = st.nextSeq
  <2> DEFINE q == st.pending[1].seq
             l == Len(st.pending)
             n == st.nextSeq
  <2>1. q + l + 1 = n + 1 /\ q \in Nat /\ l \in Nat /\ n \in Nat
    BY <1>3, <1>4
  <2> HIDE DEF q, l, n
  <2>2. (q + 1) + (l - 1) = n
    BY <2>1
  <2> QED
    BY <2>2 DEF q, l, n
<1>6. Len(st'.pending) <= Cap + 1 /\ Len(st'.pending) # Cap + 1
  BY <1>1, <1>2, <1>3 DEF Fits
<1>7. Fits'
  BY <1>1, <1>2, <1>5, <1>6 DEF Fits, Whole
<1> QED
  BY <1>1, <1>2, <1>7 DEF Clean, Fits

\* A start accepts such files, and makes the buffer of them that was in memory.
LEMMA SpoolLoads ==
  ASSUME TypeOK, Numbered, OnFile, Alive, Now = st, Fits
  PROVE  /\ Loadable(spool, cursor)
         /\ Loaded(spool, cursor).nextSeq = st.nextSeq
         /\ Len(Loaded(spool, cursor).pending) = Len(st.pending)
         /\ \A i \in 1..Len(st.pending) : Loaded(spool, cursor).pending[i] = st.pending[i]
<1>1. PICK k \in Nat : Holds(k) /\ Len(spool) = k + Len(st.pending)
  BY SpoolEnds
<1> DEFINE P == Len(st.pending)
           N == st.nextSeq
           C == cursor.next
           Q == Len(spool)
<1>2. /\ P \in Nat /\ N \in Nat /\ C \in Nat /\ Q \in Nat /\ k \in Nat /\ Cap \in Nat
      /\ spool \in Seq(Line) /\ cursor \in Cursor /\ Q = k + P /\ C + P = N
  BY <1>1, KnownIs, CapAssumption DEF TypeOK, Fits
<1>3. \A i \in 1..Q : spool[i] \in Known /\ spool[i] \in Envelope /\ spool[i].seq \in Nat
  BY SpoolEnds, FieldsAre
<1>4. \A i \in 1..Q : spool[i].seq + Q + 1 = N + i
  BY <1>1 DEF Holds
<1>5. ASSUME NEW i \in 1..Q PROVE spool[i].seq + k + 1 = C + i
  <2> DEFINE q == spool[i].seq
  <2>0. q + Q + 1 = N + i
    BY <1>4
  <2>1. q \in Nat /\ q + Q + 1 = N + i /\ i \in Nat
    BY <1>3, <2>0
  <2> HIDE DEF q, P, N, C, Q
  <2>2. q + k + 1 = C + i
    BY <1>2, <2>1
  <2> QED
    BY <2>2 DEF q, C
<1>6. spool = <<>> <=> Q = 0
  BY <1>2
<1>7. AckedLines(spool, cursor) = k
  <2>1. CASE spool = <<>>
    BY <1>2, <1>6, <2>1 DEF AckedLines
  <2>2. CASE spool # <<>>
    <3> DEFINE q == spool[1].seq
    <3>1. 1 \in 1..Q
      BY <1>2, <1>6, <2>2
    <3>2. q \in Nat /\ q + k + 1 = C + 1
      BY <1>3, <1>5, <3>1
    <3>3. AckedLines(spool, cursor) = IF q >= C THEN 0 ELSE C - q
      BY <2>2 DEF AckedLines
    <3> HIDE DEF q, C
    <3>4. (IF q >= C THEN 0 ELSE C - q) = k
      BY <1>2, <3>2
    <3> QED
      BY <3>3, <3>4
  <2> QED
    BY <2>1, <2>2
<1>8. MatchesCursor(spool, cursor)
  <2>1. CASE spool = <<>>
    BY <2>1 DEF MatchesCursor
  <2>2. CASE spool # <<>> /\ k = 0
    <3>1. 1 \in 1..Q
      BY <1>2, <1>6, <2>2
    <3>2. spool[1].seq + 0 + 1 = C + 1 /\ spool[1].seq \in Nat
      BY <1>3, <1>5, <2>2, <3>1
    <3>3. spool[1].seq = C
      BY <1>2, <3>2
    <3>4. spool[1].prev = cursor.hash
      <4>1. CASE C = 0
        BY <1>3, <3>1, <3>3, <4>1 DEF Numbered, HashBefore, Linked
      <4>2. CASE C # 0
        <5>1. PICK e \in received : e.seq + 1 = C /\ e.hash = cursor.hash
          BY <4>2 DEF Numbered, HashBefore
        <5>2. e \in Known
          BY <5>1, KnownIs
        <5> QED
          BY <1>3, <3>1, <3>3, <5>1, <5>2 DEF Numbered, Linked
      <4> QED
        BY <4>1, <4>2
    <3> QED
      BY <1>7, <2>2, <3>3, <3>4 DEF MatchesCursor
  <2>3. CASE spool # <<>> /\ k # 0
    <3>1. k \in 1..Q /\ k <= Q
      BY <1>2, <2>3
    <3>2. spool[k].seq + k + 1 = C + k /\ spool[k].seq \in Nat
      BY <1>3, <1>5, <3>1
    <3>3. spool[k].seq + 1 = C
      <4> DEFINE q == spool[k].seq
      <4>1. q + k + 1 = C + k /\ q \in Nat
        BY <3>2
      <4> HIDE DEF q, C
      <4>2. q + 1 = C
        BY <1>2, <4>1
      <4> QED
        BY <4>2 DEF q
    <3>4. C # 0
      BY <3>2, <3>3
    <3>5. PICK e \in received : e.seq + 1 = C /\ e.hash = cursor.hash
      BY <3>4 DEF Numbered, HashBefore
    <3>6. e \in Known /\ e.seq \in Nat
      BY <3>5, KnownIs, FieldsAre
    <3>7. e.seq = spool[k].seq
      BY <3>2, <3>3, <3>5, <3>6
    <3>8. e = spool[k]
      BY <1>3, <3>1, <3>6, <3>7 DEF Numbered, Linked
    <3> QED
      BY <1>7, <2>3, <3>1, <3>5, <3>8 DEF MatchesCursor
  <2> QED
    BY <2>1, <2>2, <2>3
<1>9. Torn \notin Elements(spool) /\ Chained(spool)
  BY DEF Fits, Whole
<1>10. /\ Len(Unacked(spool, cursor)) = Q - k
       /\ \A i \in 1..Len(Unacked(spool, cursor)) : Unacked(spool, cursor)[i] = spool[k + i]
  BY <1>2, <1>7, <1>8, <1>9, UnackedIs
<1>11. Len(Unacked(spool, cursor)) = P
  BY <1>2, <1>10
<1>12. Loadable(spool, cursor)
  BY <1>8, <1>9, <1>11 DEF Loadable, Fits
<1>13. /\ Loaded(spool, cursor).pending = Unacked(spool, cursor)
       /\ Loaded(spool, cursor).nextSeq = IF spool = <<>> THEN C ELSE spool[Q].seq + 1
  BY <1>2, <1>12, LoadedIs
<1>14. Loaded(spool, cursor).nextSeq = N
  <2>1. CASE spool = <<>>
    BY <1>2, <1>6, <1>13, <2>1
  <2>2. CASE spool # <<>>
    <3> DEFINE q == spool[Q].seq
    <3>1. Q \in 1..Q
      BY <1>2, <1>6, <2>2
    <3>2. q \in Nat /\ q + Q + 1 = N + Q
      BY <1>3, <1>4, <3>1
    <3>3. Loaded(spool, cursor).nextSeq = q + 1
      BY <1>13, <2>2
    <3> HIDE DEF q, Q, N
    <3>4. q + 1 = N
      BY <1>2, <3>2
    <3> QED
      BY <3>3, <3>4
  <2> QED
    BY <2>1, <2>2
<1>15. \A i \in 1..P : spool[k + i] = st.pending[i]
  BY <1>1 DEF Holds
<1> QED
  BY <1>10, <1>11, <1>12, <1>13, <1>14, <1>15

\* A torn write leaves a torn line.
LEMMA TearIs ==
  ASSUME NEW lines \in Seq(Line)
  PROVE  Torn \in Elements(Appended(lines, Torn))
<1>1. Torn \in Line
  BY DEF Line
<1>2. Len(lines) + 1 \in 1..Len(lines) + 1
  OBVIOUS
<1>3. Torn \notin Elements(lines) => Torn \in Elements(Appended(lines, Torn))
  BY <1>1, <1>2, AppendedIs DEF Elements
<1> QED
  BY <1>1, <1>3, AppendedIs

LEMMA CleanCrash ==
  ASSUME TypeOK, Numbered, OnFile, Clean, Crash, count.faults = 0
  PROVE  Clean'
<1>1. /\ status = "up" /\ status' = "down" /\ UNCHANGED cursor
      /\ Alive /\ Now = st
      /\ (Alive' <=> Loadable(spool', cursor))
      /\ Now' = Loaded(spool', cursor)
  BY CrashIs
<1>2. Torn \notin Elements(spool) /\ Fits
  BY <1>1 DEF Clean, Fits
<1> SUFFICES ASSUME Torn \notin Elements(spool') PROVE Fits'
  BY <1>1, CleanIs DEF Clean, Fits
<1>3. UNCHANGED spool
  <2> SUFFICES ASSUME spool' = Appended(spool, Torn) PROVE FALSE
    BY DEF Crash
  <2>1. spool \in Seq(Line)
    BY DEF TypeOK
  <2> QED
    BY <2>1, TearIs
<1>4. /\ Alive' /\ Now'.nextSeq = st.nextSeq /\ Len(Now'.pending) = Len(st.pending)
      /\ \A i \in 1..Len(st.pending) : Now'.pending[i] = st.pending[i]
  BY <1>1, <1>2, <1>3, SpoolLoads
<1>5. Len(Now'.pending) = Cap + 1 => Now'.pending[Cap + 1].kind = "started"
  <2>1. Cap + 1 \in 1..Cap + 1
    BY CapAssumption
  <2> QED
    BY <1>1, <1>2, <1>4, <2>1 DEF Fits
<1> QED
  BY <1>1, <1>2, <1>3, <1>4, <1>5 DEF Fits, Whole

LEMMA CleanStep ==
  TypeOK /\ WorkerOK /\ Numbered /\ Ordered /\ OnFile /\ Clean /\ [Next]_vars => Clean'
<1> SUFFICES ASSUME TypeOK, WorkerOK, Numbered, Ordered, OnFile, Clean, [Next]_vars,
                    count'.faults = 0
             PROVE  Clean'
  BY DEF Clean
<1>1. count.faults = 0 /\ ~PushFails /\ ~CursorFails /\ ~CompactionFails
  BY FaultsStep
<1>2. CASE EndGap \/ StartGap \/ Queue
  BY <1>1, <1>2, PushStep, CleanPush
<1>3. CASE AckOne
  BY <1>1, <1>3, PopStep, CleanPop
<1>4. CASE Crash
  BY <1>1, <1>4, CleanCrash
<1>5. CASE Stays
  BY <1>1, <1>5, CleanStays
<1> QED
  BY <1>1, <1>2, <1>3, <1>4, <1>5 DEF Next, Enqueue, Worker, Ack, Stays

-----------------------------------------------------------------------------
(* The feed.                                                               *)

\* Envelopes that are numbered without a hole are numbered from one to as many
\* as there are.
LEMMA PrefixIs ==
  ASSUME NEW K \in SUBSET Envelope, Linked(K), NEW S \in SUBSET K, IsPrefix(S), IsFiniteSet(S)
  PROVE  /\ Cardinality(S) \in Nat
         /\ {e.seq + 1 : e \in S} = 1..Cardinality(S)
         /\ S = {e \in K : e.seq < Cardinality(S)}
<1> DEFINE T == {e.seq + 1 : e \in S}
           f == [e \in S |-> e.seq + 1]
           c == Cardinality(S)
<1>1. \A e \in K : e.seq \in Nat
  BY FieldsAre
<1>2. c \in Nat
  BY FS_CardinalityType
<1>3. f \in Bijection(S, T)
  <2>1. f \in [S -> T]
    OBVIOUS
  <2>2. ASSUME NEW a \in S, NEW b \in S, f[a] = f[b] PROVE a = b
    <3>1. a.seq + 1 = b.seq + 1 /\ a \in K /\ b \in K
      BY <2>2
    <3>2. a.seq = b.seq
      BY <1>1, <3>1
    <3> QED
      BY <3>1, <3>2 DEF Linked
  <2>3. \A t \in T : \E e \in S : f[e] = t
    OBVIOUS
  <2> HIDE DEF f, T
  <2> QED
    BY <2>1, <2>2, <2>3, Fun_IsBij
<1>4. IsFiniteSet(T) /\ Cardinality(T) = c
  <2> HIDE DEF f, T
  <2> QED
    BY <1>3, FS_Bijection DEF ExistsBijection
<1>5. ASSUME NEW t \in T PROVE t \in Nat /\ t > 0 /\ 1..t \subseteq T
  <2>1. PICK e \in S : t = e.seq + 1
    OBVIOUS
  <2>2. e.seq \in Nat /\ t \in Nat /\ t > 0
    BY <1>1, <2>1
  <2>3. ASSUME NEW i \in 1..t PROVE i \in T
    <3>1. i - 1 \in 0..e.seq /\ i \in Nat
      BY <2>1, <2>2
    <3>2. PICK d \in S : d.seq = i - 1
      BY <3>1 DEF IsPrefix
    <3> QED
      BY <3>1, <3>2
  <2> QED
    BY <2>2, <2>3
<1>6. T = 1..c
  <2> HIDE DEF T, c
  <2>1. ASSUME NEW t \in T PROVE t \in 1..c
    <3>1. t \in Nat /\ t > 0 /\ 1..t \in SUBSET T
      BY <1>5
    <3>2. Cardinality(1..t) <= c
      BY <1>4, <3>1, FS_Subset
    <3>3. Cardinality(1..t) = t
      BY <3>1, FS_Interval
    <3> QED
      BY <1>2, <3>1, <3>2, <3>3
  <2>2. IsFiniteSet(1..c) /\ Cardinality(1..c) = c
    BY <1>2, FS_Interval
  <2>3. T \in SUBSET (1..c)
    BY <2>1
  <2> QED
    BY <1>4, <2>2, <2>3, FS_Subset
<1>7. S = {e \in K : e.seq < c}
  <2>1. ASSUME NEW e \in S PROVE e.seq < c
    <3>1. e.seq + 1 \in 1..c /\ e.seq \in Nat
      BY <1>1, <1>6
    <3> QED
      BY <1>2, <3>1
  <2>2. ASSUME NEW e \in K, e.seq < c PROVE e \in S
    <3>1. e.seq \in Nat
      BY <1>1
    <3>2. e.seq + 1 \in 1..c
      BY <1>2, <2>2, <3>1
    <3>3. PICK d \in S : d.seq + 1 = e.seq + 1
      BY <1>6, <3>2
    <3>4. d \in K /\ d.seq = e.seq
      BY <1>1, <3>1, <3>3
    <3> QED
      BY <3>4 DEF Linked
  <2> QED
    BY <2>1, <2>2
<1> QED
  BY <1>2, <1>6, <1>7

\* While the files can be read, the feed has every envelope that has a number.
LEMMA FeedIs ==
  ASSUME TypeOK, Numbered
  PROVE  /\ Stream = received \cup Pending
         /\ Alive => /\ Stream = Known
                     /\ IsFiniteSet(Stream) /\ Cardinality(Stream) = Now.nextSeq
                     /\ {e.seq + 1 : e \in Stream} = 1..Now.nextSeq
<1>1. Stream = received \cup Pending
  <2>1. CASE status = "up"
    BY <2>1 DEF Stream, Pending, Alive, Now
  <2>2. CASE status # "up"
    <3>1. Loadable(spool, cursor) => Loaded(spool, cursor).pending = Unacked(spool, cursor)
      BY LoadedIs DEF TypeOK
    <3> QED
      BY <2>2, <3>1 DEF Stream, OnDisk, Pending, Alive, Now
  <2> QED
    BY <2>1, <2>2
<1> SUFFICES ASSUME Alive
             PROVE  /\ Stream = Known /\ IsFiniteSet(Stream) /\ Cardinality(Stream) = Now.nextSeq
                    /\ {e.seq + 1 : e \in Stream} = 1..Now.nextSeq
  BY <1>1
<1> DEFINE P == Len(Now.pending)
           N == Now.nextSeq
<1>2. /\ P \in Nat /\ N \in Nat /\ Now.pending \in Seq(Envelope)
      /\ Known \in SUBSET Envelope /\ received \subseteq Known /\ Pending = Elements(Now.pending)
  BY KnownIs DEF Pending
<1>3. /\ Linked(Known)
      /\ \A e \in Known : e.seq < N
      /\ \A n \in 0..N : n + P < N => \E e \in received : e.seq = n
      /\ \A i \in 1..P : Now.pending[i].seq + P + 1 = N + i
      /\ P <= N
  BY DEF Numbered, Numbers
<1>4. \A e \in Known : e.seq \in Nat
  BY <1>2, FieldsAre
<1>5. ASSUME NEW n \in Nat, n < N PROVE \E d \in received \cup Pending : d.seq = n
  <2>1. CASE n + P < N
    BY <1>2, <1>3, <1>5, <2>1
  <2>2. CASE ~(n + P < N)
    <3> DEFINE i == n + P + 1 - N
               q == Now.pending[i].seq
    <3>1. i \in 1..P
      <4> HIDE DEF P, N
      <4> QED
        BY <1>2, <1>5, <2>2
    <3>2. Now.pending[i] \in Pending /\ Now.pending[i] \in Known
      BY <1>2, <3>1 DEF Elements, Known
    <3>3. q + P + 1 = N + i /\ q \in Nat
      BY <1>3, <1>4, <3>1, <3>2
    <3>4. q = n
      <4> HIDE DEF q, P, N
      <4> QED
        BY <1>2, <3>3
    <3> QED
      BY <3>2, <3>4
  <2> QED
    BY <2>1, <2>2
<1>6. Stream = Known
  <2>1. ASSUME NEW e \in Known PROVE e \in received \cup Pending
    <3>1. PICK d \in received \cup Pending : d.seq = e.seq
      BY <1>3, <1>4, <1>5
    <3>2. d \in Known
      BY <1>2, <3>1 DEF Known
    <3> QED
      BY <1>3, <3>1, <3>2 DEF Linked
  <2> QED
    BY <1>1, <1>2, <2>1 DEF Known
<1>7. IsFiniteSet(Known)
  <2>1. IsFiniteSet(received)
    BY DEF Numbered
  <2>2. IsFiniteSet(Pending)
    <3>1. IsFiniteSet(1..P)
      BY <1>2, FS_Interval
    <3>2. [i \in 1..P |-> Now.pending[i]] \in Surjection(1..P, Pending)
      BY <1>2 DEF Surjection, Elements
    <3> QED
      BY <3>1, <3>2, FS_Surjection DEF ExistsSurjection
  <2> QED
    BY <1>1, <1>6, <2>1, <2>2, FS_Union
<1>8. Cardinality(Known) = N /\ {e.seq + 1 : e \in Known} = 1..N
  <2> DEFINE c == Cardinality(Known)
  <2>1. IsPrefix(Known)
    <3> SUFFICES ASSUME NEW e \in Known, NEW n \in 0..e.seq
                 PROVE  \E d \in Known : d.seq = n
      BY DEF IsPrefix
    <3>1. n \in Nat /\ n < N
      BY <1>2, <1>3, <1>4
    <3> QED
      BY <1>1, <1>5, <1>6, <3>1
  <2>2. c \in Nat /\ Known = {e \in Known : e.seq < c} /\ {e.seq + 1 : e \in Known} = 1..c
    BY <1>2, <1>3, <1>7, <2>1, PrefixIs
  <2>3. c <= N
    <3> SUFFICES ASSUME c > N PROVE FALSE
      BY <1>2, <2>2
    <3>1. c \in 1..c
      BY <1>2, <2>2
    <3>2. PICK e \in Known : e.seq + 1 = c
      BY <2>2, <3>1
    <3> QED
      BY <1>2, <1>3, <1>4, <2>2, <3>2
  <2>4. c >= N
    <3> SUFFICES ASSUME c < N PROVE FALSE
      BY <1>2, <2>2
    <3>1. PICK d \in Known : d.seq = c
      BY <1>1, <1>5, <1>6, <2>2
    <3> QED
      BY <2>2, <3>1
  <2> HIDE DEF c
  <2>5. c = N
    BY <1>2, <2>2, <2>3, <2>4
  <2> QED
    BY <2>2, <2>5 DEF c
<1> QED
  BY <1>6, <1>7, <1>8

-----------------------------------------------------------------------------
(* The counts.                                                             *)

\* Some order in which the drops of these envelopes are added up.
LEMMA TotalRecurs ==
  ASSUME NEW D \in SUBSET Envelope, IsFiniteSet(D)
  PROVE  \E pick, add :
           /\ Picks(pick, D)
           /\ \A x \in D, v \in Nat : add[<<x, v>>] = x.dropped + v
           /\ \A S \in SUBSET D : Total(S) \in Nat
                /\ \E h \in [SUBSET S -> Nat] : Recurs(h, S, 0, pick, add) /\ Total(S) = h[S]
<1> DEFINE pick == [s \in SUBSET D |-> CHOOSE x \in s : TRUE]
           add == [q \in D \X Nat |-> q[1].dropped + q[2]]
<1>1. Picks(pick, D)
  BY DEF Picks
<1>2. \A x \in D, v \in Nat : add[<<x, v>>] = x.dropped + v
  OBVIOUS
<1>3. \A x \in D, v \in Nat : add[<<x, v>>] \in Nat
  <2> TAKE x \in D, v \in Nat
  <2>1. x.dropped \in Nat /\ v \in Nat
    BY DEF Envelope
  <2>2. add[<<x, v>>] = x.dropped + v
    BY <1>2
  <2> HIDE DEF add
  <2> QED
    BY <2>1, <2>2
<1>4. ASSUME NEW S \in SUBSET D
      PROVE  Total(S) \in Nat
             /\ \E h \in [SUBSET S -> Nat] : Recurs(h, S, 0, pick, add) /\ Total(S) = h[S]
  <2> DEFINE it == CHOOSE g : g = [s \in SUBSET S |->
                     IF s = {} THEN 0
                     ELSE (CHOOSE x \in s : TRUE).dropped + g[s \ {CHOOSE x \in s : TRUE}]]
  <2>1. Total(S) = it[S]
    BY Zenon DEF Total, MapThenSumSet, MapThenFoldSet
  <2>2. IsFiniteSet(S) /\ Picks(pick, S)
    BY <1>1, FS_Subset DEF Picks
  <2>3. PICK h \in [SUBSET S -> Nat] : Recurs(h, S, 0, pick, add)
    <3>1. \A x \in S, v \in Nat : add[<<x, v>>] \in Nat
      BY <1>3
    <3> HIDE DEF pick, add
    <3> QED
      BY <2>2, <3>1, RecursionExists
  <2>4. ASSUME NEW g, g = [s \in SUBSET S |->
                     IF s = {} THEN 0
                     ELSE (CHOOSE x \in s : TRUE).dropped + g[s \ {CHOOSE x \in s : TRUE}]]
        PROVE  g = h
    <3> DEFINE B == {s \in SUBSET S : g[s] # h[s]}
    <3>1. ASSUME B # {} PROVE FALSE
      <4>1. \E s \in B : \A t \in B : t \subseteq s => t = s
        <5>1. B \in SUBSET (SUBSET S)
          OBVIOUS
        <5> HIDE DEF B
        <5> QED
          BY <2>2, <3>1, <5>1, MinimalSubset
      <4>2. PICK s \in B : \A t \in B : t \subseteq s => t = s
        BY <4>1
      <4> DEFINE x == CHOOSE y \in s : TRUE
      <4>3. s \in SUBSET S /\ s \in SUBSET D /\ g[s] # h[s]
        OBVIOUS
      <4>4. g[s] = IF s = {} THEN 0 ELSE x.dropped + g[s \ {x}]
        BY <2>4, <4>3
      <4>5. h[s] = IF s = {} THEN 0 ELSE add[<<pick[s], h[s \ {pick[s]}]>>]
        <5> HIDE DEF add, pick
        <5> QED
          BY <2>3, <4>3 DEF Recurs
      <4>6. CASE s = {}
        BY <4>3, <4>4, <4>5, <4>6
      <4>7. CASE s # {}
        <5>1. pick[s] = x /\ x \in s /\ x \in D
          BY <4>3, <4>7
        <5>2. s \ {x} \in SUBSET S /\ s \ {x} \notin B
          BY <4>2, <4>3, <5>1
        <5>3. g[s \ {x}] = h[s \ {x}] /\ h[s \ {x}] \in Nat
          BY <2>3, <5>2
        <5>4. h[s] = x.dropped + h[s \ {x}]
          <6> HIDE DEF add, pick, x
          <6> QED
            BY <1>2, <4>5, <4>7, <5>1, <5>3
        <5> QED
          BY <4>3, <4>4, <4>7, <5>3, <5>4
      <4> QED
        BY <4>6, <4>7
    <3>2. \A s \in SUBSET S : g[s] = h[s]
      BY <3>1
    <3>3. DOMAIN g = SUBSET S /\ g = [s \in DOMAIN g |-> g[s]]
      BY Zenon, <2>4
    <3> QED
      BY <2>3, <3>2, <3>3
  <2>5. h = [s \in SUBSET S |->
                     IF s = {} THEN 0
                     ELSE (CHOOSE x \in s : TRUE).dropped + h[s \ {CHOOSE x \in s : TRUE}]]
    <3> SUFFICES ASSUME NEW s \in SUBSET S
                 PROVE h[s] = IF s = {} THEN 0
                     ELSE (CHOOSE x \in s : TRUE).dropped + h[s \ {CHOOSE x \in s : TRUE}]
      BY <2>3
    <3> DEFINE x == CHOOSE y \in s : TRUE
    <3>1. h[s] = IF s = {} THEN 0 ELSE add[<<pick[s], h[s \ {pick[s]}]>>]
      <4> HIDE DEF add, pick
      <4> QED
        BY <2>3 DEF Recurs
    <3>2. CASE s = {}
      BY <3>1, <3>2
    <3>3. CASE s # {}
      <4>1. pick[s] = x /\ x \in s /\ x \in D /\ h[s \ {x}] \in Nat
        BY <2>3, <3>3
      <4>2. h[s] = x.dropped + h[s \ {x}]
        <5> HIDE DEF add, pick, x
        <5> QED
          BY <1>2, <3>1, <3>3, <4>1
      <4> QED
        BY <3>3, <4>2
    <3> QED
      BY <3>2, <3>3
  <2>6. it = h
    <3>1. it = [s \in SUBSET S |->
                     IF s = {} THEN 0
                     ELSE (CHOOSE x \in s : TRUE).dropped + it[s \ {CHOOSE x \in s : TRUE}]]
      <4> HIDE DEF pick, add
      <4> QED
        BY <2>5, Zenon
    <3> HIDE DEF it
    <3> QED
      BY <2>4, <3>1
  <2>7. Total(S) = h[S] /\ h[S] \in Nat
    <3> HIDE DEF it
    <3> QED
      BY <2>1, <2>3, <2>6
  <2> QED
    BY <2>3, <2>7
<1> HIDE DEF pick, add
<1> QED
  BY <1>1, <1>2, <1>4

\* Taking one envelope away takes its drops away, whichever it is.
LEMMA TotalIs ==
  ASSUME NEW D \in SUBSET Envelope, IsFiniteSet(D)
  PROVE  /\ Total({}) = 0
         /\ \A S \in SUBSET D : Total(S) \in Nat
         /\ \A S \in SUBSET D : \A x \in S : Total(S) = x.dropped + Total(S \ {x})
<1>1. PICK pick, add :
           /\ Picks(pick, D)
           /\ \A x \in D, v \in Nat : add[<<x, v>>] = x.dropped + v
           /\ \A S \in SUBSET D : Total(S) \in Nat
                /\ \E h \in [SUBSET S -> Nat] : Recurs(h, S, 0, pick, add) /\ Total(S) = h[S]
  BY TotalRecurs
<1>2. Total({}) = 0
  <2>1. PICK h \in [SUBSET {} -> Nat] : Recurs(h, {}, 0, pick, add) /\ Total({}) = h[{}]
    BY <1>1
  <2> QED
    BY <2>1 DEF Recurs
<1>3. ASSUME NEW S \in SUBSET D, S # {}
      PROVE  pick[S] \in S /\ Total(S) = pick[S].dropped + Total(S \ {pick[S]})
  <2> DEFINE x == pick[S]
             R == S \ {x}
  <2>1. x \in S /\ x \in D /\ R \in SUBSET D /\ R \in SUBSET S /\ R \in SUBSET R
    BY <1>1, <1>3 DEF Picks
  <2>2. PICK h \in [SUBSET S -> Nat] : Recurs(h, S, 0, pick, add) /\ Total(S) = h[S]
    BY <1>1
  <2>3. PICK g \in [SUBSET R -> Nat] : Recurs(g, R, 0, pick, add) /\ Total(R) = g[R]
    BY <1>1, <2>1
  <2>4. h[S] = add[<<x, h[R]>>]
    BY <1>3, <2>2 DEF Recurs
  <2>5. g[R] = h[R]
    <3> HIDE DEF R
    <3> QED
      BY <1>1, <2>1, <2>2, <2>3, RecursionIsUnique
  <2>6. h[R] \in Nat
    BY <2>1, <2>2
  <2> HIDE DEF R, x
  <2>7. h[S] = x.dropped + h[R]
    BY <1>1, <2>1, <2>4, <2>6
  <2>8. Total(S) = x.dropped + Total(R)
    BY <2>2, <2>3, <2>5, <2>7
  <2> QED
    BY <2>1, <2>8 DEF R, x
<1>4. \A S \in SUBSET D : Total(S) \in Nat
  BY <1>1
<1> DEFINE B == {S \in SUBSET D : \E x \in S : Total(S) # x.dropped + Total(S \ {x})}
<1>5. ASSUME B # {} PROVE FALSE
  <2>1. \E S \in B : \A T \in B : T \subseteq S => T = S
    <3>1. B \in SUBSET (SUBSET D)
      OBVIOUS
    <3> HIDE DEF B
    <3> QED
      BY <1>5, <3>1, MinimalSubset
  <2>2. PICK S \in B : \A T \in B : T \subseteq S => T = S
    BY <2>1
  <2>3. PICK x \in S : Total(S) # x.dropped + Total(S \ {x})
    OBVIOUS
  <2>4. S \in SUBSET D /\ S # {}
    BY <2>3
  <2>5. PICK y \in S : Total(S) = y.dropped + Total(S \ {y})
    BY <1>3, <2>4
  <2>6. x # y
    BY <2>3, <2>5
  <2>7. S \ {x} \notin B /\ S \ {y} \notin B
    BY <2>2, <2>3, <2>5
  <2>8. y \in S \ {x} /\ x \in S \ {y} /\ S \ {x} \in SUBSET D /\ S \ {y} \in SUBSET D
    BY <2>4, <2>6
  <2>9. /\ Total(S \ {x}) = y.dropped + Total((S \ {x}) \ {y})
        /\ Total(S \ {y}) = x.dropped + Total((S \ {y}) \ {x})
    BY <2>7, <2>8
  <2>10. PICK R \in SUBSET D : R = (S \ {x}) \ {y} /\ R = (S \ {y}) \ {x}
    BY <2>4
  <2>11. x.dropped \in Nat /\ y.dropped \in Nat /\ Total(R) \in Nat
    BY <1>4, <2>4 DEF Envelope
  <2>12. Total(S) = y.dropped + (x.dropped + Total(R)) /\ Total(S \ {x}) = y.dropped + Total(R)
    BY <2>5, <2>9, <2>10
  <2>13. Total(S) = x.dropped + Total(S \ {x})
    BY <2>11, <2>12
  <2> QED
    BY <2>3, <2>13
<1> QED
  BY <1>2, <1>4, <1>5

\* One more envelope: itself, if it is an event, and the drops that it reports.
LEMMA TallyAdds ==
  ASSUME NEW D \in SUBSET Envelope, IsFiniteSet(D), NEW env \in Envelope, env \notin D
  PROVE  /\ Tally(D) \in Nat
         /\ env.kind = "event" => Tally(D \cup {env}) = Tally(D) + 1 + env.dropped
         /\ env.kind # "event" => Tally(D \cup {env}) = Tally(D) + env.dropped
<1> DEFINE E == D \cup {env}
           A == {e \in D : e.kind = "event"}
           B == {e \in E : e.kind = "event"}
<1>1. IsFiniteSet(E) /\ E \in SUBSET Envelope /\ E \ {env} = D /\ env \in E
  BY FS_AddElement
<1>2. /\ Total(D) \in Nat /\ Total(E) = env.dropped + Total(D) /\ env.dropped \in Nat
  <2>1. D \in SUBSET E /\ E \in SUBSET E
    OBVIOUS
  <2>2. env.dropped \in Nat
    BY DEF Envelope
  <2> HIDE DEF E
  <2> QED
    BY <1>1, <2>1, <2>2, TotalIs
<1>3. IsFiniteSet(A) /\ Cardinality(A) \in Nat
  <2>1. A \in SUBSET D
    OBVIOUS
  <2> HIDE DEF A
  <2> QED
    BY <2>1, FS_Subset, FS_CardinalityType
<1>4. env.kind = "event" => Cardinality(B) = Cardinality(A) + 1
  <2> SUFFICES ASSUME env.kind = "event" PROVE Cardinality(B) = Cardinality(A) + 1
    OBVIOUS
  <2>1. B = A \cup {env} /\ env \notin A
    OBVIOUS
  <2> HIDE DEF A, B
  <2> QED
    BY <1>3, <2>1, FS_AddElement
<1>5. env.kind # "event" => B = A
  OBVIOUS
<1>6. Tally(D) = Cardinality(A) + Total(D) /\ Tally(E) = Cardinality(B) + Total(E)
  BY DEF Tally
<1> HIDE DEF A, B
<1>7. Tally(D) \in Nat
  BY <1>2, <1>3, <1>6
<1>8. env.kind = "event" => Tally(E) = Tally(D) + 1 + env.dropped
  BY <1>2, <1>3, <1>4, <1>6
<1>9. env.kind # "event" => Tally(E) = Tally(D) + env.dropped
  BY <1>2, <1>3, <1>5, <1>6
<1> QED
  BY <1>7, <1>8, <1>9

LEMMA TallyOfNone == Tally({}) = 0
<1>1. Total({}) = 0
  BY FS_EmptySet, TotalIs
<1>2. {e \in {} : e.kind = "event"} = {} /\ Cardinality({}) = 0
  BY FS_EmptySet
<1> QED
  BY <1>1, <1>2 DEF Tally

\* The parts of Counted.
Exact ==
  /\ \A b \in Known : b.kind = "event" =>
       b.ev = 1 + Tally({e \in Known : e.seq < b.seq})
  /\ count.events = Tally(Known) + st.dropped + Under
  /\ ~st.open => st.dropped = 0
  /\ status # "up" => spool = <<>> /\ st.dropped = 0

LEMMA CountedIs == Counted <=> (Troubles = 0 => Exact)
  BY DEF Counted, Exact

\* What an append does to the count of drops.
Amounts(env) ==
  \/ /\ env.kind = "ended" /\ env.dropped = st.dropped /\ st'.dropped = 0
     /\ arriving' = arriving
  \/ /\ env.kind = "started" /\ env.dropped = 0 /\ ~st.open /\ st'.open /\ st'.dropped = 1
     /\ arriving # NoEvent /\ arriving' = NoEvent
  \/ /\ env.kind = "event" /\ env.ev = arriving /\ env.dropped = 0 /\ ~st.open
     /\ st'.dropped = st.dropped
     /\ arriving # NoEvent /\ arriving' = NoEvent

LEMMA PushAmounts ==
  ASSUME TypeOK, EndGap \/ StartGap \/ Queue
  PROVE  \E env \in Envelope : Pushes(env) /\ Amounts(env)
<1>1. PICK env \in Envelope : Pushes(env)
  BY PushStep
<1>2. /\ st \in State /\ st.dropped \in Nat /\ arriving \in Nat /\ NoEvent \in Nat
      /\ st.pending \in Seq(Envelope) /\ DOMAIN st = DOMAIN NoState
  BY DEF TypeOK, State, NoEvent, NoState
<1>3. ASSUME NEW w \in Envelope, st'.pending = Append(st.pending, w) PROVE env = w
  <2>1. Append(st.pending, w) = Append(st.pending, env)
    BY <1>1, <1>3 DEF Pushes
  <2>2. Append(st.pending, w)[Len(st.pending) + 1] = w
    BY <1>2
  <2>3. Append(st.pending, env)[Len(st.pending) + 1] = env
    BY <1>2
  <2> QED
    BY <2>1, <2>2, <2>3
<1>4. \A kind \in {"event", "started", "ended"}, e, n \in Nat :
        Wrapped(kind, e, n) \in Envelope /\ Wrapped(kind, e, n).kind = kind
        /\ Wrapped(kind, e, n).ev = e /\ Wrapped(kind, e, n).dropped = n
        /\ Pushed(Wrapped(kind, e, n)) \in State
        /\ Pushed(Wrapped(kind, e, n)).pending = Append(st.pending, Wrapped(kind, e, n))
  BY WrappedIs DEF Comes, Wrapped
<1>5. \A w : Pushed(w).dropped = st.dropped
  BY <1>2 DEF Pushed, NoState
<1>6. CASE EndGap
  <2> DEFINE w == Wrapped("ended", NoEvent, st.dropped)
             p == Pushed(w)
  <2>0. "ended" \in {"event", "started", "ended"}
    OBVIOUS
  <2>1. /\ w \in Envelope /\ w.kind = "ended" /\ w.dropped = st.dropped
        /\ p \in State /\ p.pending = Append(st.pending, w)
    <3>1. \A e, n \in Nat :
            Wrapped("ended", e, n) \in Envelope /\ Wrapped("ended", e, n).kind = "ended"
            /\ Wrapped("ended", e, n).dropped = n
            /\ Pushed(Wrapped("ended", e, n)) \in State
            /\ Pushed(Wrapped("ended", e, n)).pending = Append(st.pending, Wrapped("ended", e, n))
      BY <1>4, <2>0
    <3>2. NoEvent \in Nat /\ st.dropped \in Nat
      BY <1>2
    <3> QED
      BY <3>1, <3>2
  <2>2. st' = [p EXCEPT !.open = FALSE, !.dropped = 0] /\ arriving' = arriving
    BY <1>6 DEF EndGap
  <2> HIDE DEF w, p
  <2>3. st'.pending = Append(st.pending, w) /\ st'.dropped = 0
    BY <2>1, <2>2 DEF State
  <2>4. env = w
    BY <1>3, <2>1, <2>3
  <2> QED
    BY <1>1, <2>1, <2>2, <2>3, <2>4 DEF Amounts
<1>7. CASE StartGap
  <2> DEFINE w == Wrapped("started", NoEvent, 0)
             p == Pushed(w)
  <2>1. /\ w \in Envelope /\ w.kind = "started" /\ w.dropped = 0
        /\ p \in State /\ p.pending = Append(st.pending, w)
    BY <1>2, <1>4
  <2>2. /\ st' = [p EXCEPT !.open = TRUE, !.dropped = 1]
        /\ arriving # NoEvent /\ arriving' = NoEvent /\ ~st.open
    BY <1>7 DEF StartGap
  <2> HIDE DEF w, p
  <2>3. st'.pending = Append(st.pending, w) /\ st'.dropped = 1 /\ st'.open
    BY <2>1, <2>2 DEF State
  <2>4. env = w
    BY <1>3, <2>1, <2>3
  <2> QED
    BY <1>1, <2>1, <2>2, <2>3, <2>4 DEF Amounts
<1>8. CASE Queue
  <2> DEFINE w == Wrapped("event", arriving, 0)
             p == Pushed(w)
  <2>1. /\ w \in Envelope /\ w.kind = "event" /\ w.ev = arriving /\ w.dropped = 0
        /\ p \in State /\ p.pending = Append(st.pending, w) /\ p.dropped = st.dropped
    BY <1>2, <1>4, <1>5
  <2>2. st' = p /\ arriving # NoEvent /\ arriving' = NoEvent /\ ~st.open
    BY <1>8 DEF Queue
  <2> HIDE DEF w, p
  <2>3. st'.pending = Append(st.pending, w) /\ st'.dropped = st.dropped
    BY <2>1, <2>2
  <2>4. env = w
    BY <1>3, <2>1, <2>3
  <2> QED
    BY <1>1, <2>1, <2>2, <2>3, <2>4 DEF Amounts
<1> QED
  BY <1>6, <1>7, <1>8

\* Before the first crash and the first failed write, the files can be read.
LEMMA CalmIs ==
  ASSUME TypeOK, Numbered, Clean, Exact, Troubles = 0
  PROVE  /\ count.faults = 0 /\ count.crashes = 0
         /\ Alive /\ IsFiniteSet(Known) /\ Known \in SUBSET Envelope /\ Stream = Known
<1>1. count.faults = 0 /\ count.crashes = 0
  BY DEF TypeOK, Troubles
<1>2. Torn \notin Elements(spool)
  <2>1. CASE status = "up"
    BY <1>1, <2>1 DEF Clean
  <2>2. CASE status # "up"
    <3>1. spool = <<>>
      BY <2>2 DEF Exact
    <3> QED
      BY <3>1 DEF Elements
  <2> QED
    BY <2>1, <2>2
<1>3. Alive
  BY <1>1, <1>2 DEF Clean
<1>4. IsFiniteSet(Known) /\ Stream = Known
  BY <1>3, FeedIs
<1> QED
  BY <1>1, <1>3, <1>4, KnownIs

\* Crashes and failed writes are not forgotten.
LEMMA TroublesStep ==
  ASSUME TypeOK, TypeOK', [Next]_vars, Troubles' = 0
  PROVE  Troubles = 0 /\ ~Crash /\ ~PushFails /\ ~CursorFails /\ ~CompactionFails
<1>1. count \in CountType /\ count' \in CountType
  BY DEF TypeOK, CountType
<1>2. count'.faults = 0 /\ count'.crashes = 0
  BY <1>1 DEF CountType, Troubles
<1>3. count.faults = 0 /\ ~PushFails /\ ~CursorFails /\ ~CompactionFails
  BY <1>2, FaultsStep
<1>4. ~Crash
  BY <1>1, <1>2 DEF Crash, CountType
<1>5. count.crashes = 0
  <2>1. CASE Receipt \/ OtherEvent
    BY <1>1, <1>2, <2>1 DEF Receipt, OtherEvent, CountType
  <2>2. CASE ~(Receipt \/ OtherEvent)
    <3>1. count' = count
      BY <1>3, <1>4, <2>2 DEF Next, vars, Enqueue, Requests, Worker, Ack, Open, EndGap, StartGap,
                              Drop, Queue, Admit, GiveUp, Post, Delivered, PostFails, AckOne,
                              FinishAck, ArrivesLate
    <3> QED
      BY <1>2, <3>1
  <2> QED
    BY <2>1, <2>2
<1> QED
  BY <1>3, <1>4, <1>5 DEF Troubles

LEMMA ExactPush ==
  ASSUME TypeOK, WorkerOK, Numbered, Clean, Ordered, Exact, Troubles = 0,
         NEW env \in Envelope, Pushes(env), Amounts(env)
  PROVE  Exact'
<1>1. /\ Alive /\ IsFiniteSet(Known) /\ Known \in SUBSET Envelope
  BY CalmIs
<1>2. /\ status' = "up" /\ Now = st /\ Known' = Known \cup {env}
  BY PushKnown
<1>3. /\ env.seq = st.nextSeq /\ count' = count
      /\ arriving # NoEvent
  BY DEF Pushes
<1>4. \A e \in Known : e.seq < env.seq /\ e.seq \in Nat
  <2>1. \A e \in Known : e.seq < Now.nextSeq
    BY <1>1 DEF Numbered
  <2>2. \A e \in Known : e.seq \in Nat
    BY <1>1, FieldsAre
  <2> QED
    BY <1>2, <1>3, <2>1, <2>2
<1>5. env \notin Known /\ env.seq \in Nat
  BY <1>4, FieldsAre
<1>6. /\ Tally(Known) \in Nat
      /\ env.kind = "event" => Tally(Known') = Tally(Known) + 1 + env.dropped
      /\ env.kind # "event" => Tally(Known') = Tally(Known) + env.dropped
  BY <1>1, <1>2, <1>5, TallyAdds
<1>7. /\ count.events = Tally(Known) + st.dropped + 1 /\ st.dropped \in Nat
      /\ ~st.open => st.dropped = 0
      /\ arriving = count.events
  BY <1>3 DEF Exact, Under, Ordered, TypeOK, State
<1>8. count'.events = Tally(Known') + st'.dropped + Under'
  <2>1. CASE env.kind = "ended"
    <3>1. env.dropped = st.dropped /\ st'.dropped = 0 /\ arriving' = arriving
      BY <2>1 DEF Amounts
    <3>2. Under' = 1
      BY <1>3, <3>1 DEF Under
    <3> QED
      BY <1>3, <1>6, <1>7, <2>1, <3>1, <3>2
  <2>2. CASE env.kind = "started"
    <3>1. env.dropped = 0 /\ st'.dropped = 1 /\ arriving' = NoEvent /\ ~st.open
      BY <2>2 DEF Amounts
    <3>2. Under' = 0
      BY <3>1 DEF Under
    <3> QED
      BY <1>3, <1>6, <1>7, <2>2, <3>1, <3>2
  <2>3. CASE env.kind = "event"
    <3>1. env.dropped = 0 /\ st'.dropped = st.dropped /\ arriving' = NoEvent /\ ~st.open
      BY <2>3 DEF Amounts
    <3>2. Under' = 0
      BY <3>1 DEF Under
    <3> QED
      BY <1>3, <1>6, <1>7, <2>3, <3>1, <3>2
  <2> QED
    BY <2>1, <2>2, <2>3 DEF Amounts
<1>9. ~st'.open => st'.dropped = 0
  BY <1>7 DEF Amounts
<1>10. ASSUME NEW b \in Known', b.kind = "event"
       PROVE  b.ev = 1 + Tally({e \in Known' : e.seq < b.seq})
  <2>1. CASE b = env
    <3>1. {e \in Known' : e.seq < b.seq} = Known
      BY <1>2, <1>4, <1>5, <2>1
    <3>2. env.ev = arriving /\ ~st.open
      BY <1>10, <2>1 DEF Amounts
    <3>3. arriving = 1 + Tally(Known)
      BY <1>6, <1>7, <3>2
    <3> QED
      BY <2>1, <3>1, <3>2, <3>3
  <2>2. CASE b \in Known
    <3>1. {e \in Known' : e.seq < b.seq} = {e \in Known : e.seq < b.seq}
      BY <1>2, <1>4, <1>5, <2>2
    <3> QED
      BY <1>10, <2>2, <3>1 DEF Exact
  <2> QED
    BY <1>2, <2>1, <2>2
<1> QED
  BY <1>2, <1>8, <1>9, <1>10 DEF Exact

\* A step that gives no number, and keeps what is counted.
LEMMA ExactStays ==
  ASSUME Exact, Known' = Known, st'.dropped = st.dropped \/ st'.dropped = 0,
         st'.open = st.open \/ st'.dropped = 0,
         count'.events = Tally(Known) + st'.dropped + Under',
         status' # "up" => UNCHANGED <<status, spool, st>>
  PROVE  Exact'
  BY DEF Exact

LEMMA CountedStep ==
  TypeOK /\ WorkerOK /\ Numbered /\ Clean /\ Ordered /\ Counted /\ TypeOK' /\ [Next]_vars
    => Counted'
<1> SUFFICES ASSUME TypeOK, WorkerOK, Numbered, Clean, Ordered, Counted, TypeOK', [Next]_vars,
                    Troubles' = 0
             PROVE  Exact'
  BY DEF Counted, Exact
<1>1. Troubles = 0 /\ ~Crash /\ ~PushFails /\ ~CursorFails /\ ~CompactionFails
  BY TroublesStep
<1>2. Exact
  BY <1>1, CountedIs
<1>3. Alive /\ IsFiniteSet(Known) /\ Known \in SUBSET Envelope
  BY <1>1, <1>2, CalmIs
<1>4. /\ st \in State /\ DOMAIN st = DOMAIN NoState
      /\ count \in CountType /\ st.dropped \in Nat /\ Tally(Known) \in Nat
      /\ arriving \in Nat
  <2>1. Tally(Known) \in Nat
    <3>1. Cardinality({e \in Known : e.kind = "event"}) \in Nat
      <4>1. {e \in Known : e.kind = "event"} \in SUBSET Known
        OBVIOUS
      <4> QED
        BY <1>3, <4>1, FS_Subset, FS_CardinalityType
    <3>2. Total(Known) \in Nat
      BY <1>3, TotalIs
    <3> QED
      BY <3>1, <3>2 DEF Tally
  <2> QED
    BY <2>1 DEF TypeOK, State, NoState, CountType
<1>5. count.events = Tally(Known) + st.dropped + Under
  BY <1>2 DEF Exact
<1>6. CASE EndGap \/ StartGap \/ Queue
  BY <1>1, <1>2, <1>6, PushAmounts, ExactPush
<1>7. CASE Stays
  <2>1. Known' = Known
    BY <1>7, SameStep, SameKnown
  <2>2. CASE Drop
    <3>1. /\ st' = [st EXCEPT !.dropped = @ + 1] /\ st.open
          /\ arriving # NoEvent /\ arriving' = NoEvent /\ UNCHANGED <<count, status>>
      BY <2>2 DEF Drop, data
    <3>2. st'.dropped = st.dropped + 1 /\ st'.open = st.open /\ status = "up"
      BY <1>4, <3>1 DEF NoState, WorkerOK
    <3>3. Under = 1 /\ Under' = 0
      BY <3>1 DEF Under
    <3>4. count'.events = Tally(Known) + st'.dropped + Under'
      BY <1>4, <1>5, <3>1, <3>2, <3>3
    <3> QED
      BY <1>2, <2>1, <3>1, <3>2, <3>4 DEF Exact
  <2>3. CASE Receipt \/ OtherEvent
    <3>1. /\ arriving = NoEvent /\ arriving' = count.events + 1
          /\ UNCHANGED <<st, status, spool>>
          /\ count'.events = count.events + 1
      BY <1>4, <2>3 DEF Receipt, OtherEvent, Locked, CountType, data
    <3>2. count.events \in Nat /\ arriving' # NoEvent
      BY <1>4, <3>1 DEF NoEvent, CountType
    <3>3. Under = 0 /\ Under' = 1
      BY <3>1, <3>2 DEF Under
    <3>4. count'.events = Tally(Known) + st'.dropped + Under'
      BY <1>4, <1>5, <3>1, <3>2, <3>3
    <3> QED
      BY <1>2, <2>1, <3>1, <3>4, ExactStays
  <2>4. CASE Open
    <3>1. UNCHANGED <<count, arriving, spool>> /\ status # "up"
      BY <2>4 DEF Open
    <3>2. st.dropped = 0
      BY <1>2, <3>1 DEF Exact
    <3>3. status' = "up" /\ st'.dropped = 0
      <4>1. Loadable(spool, cursor)
        BY <1>3, <3>1 DEF Alive
      <4> QED
        BY <2>4, <4>1 DEF Open, Loaded, NoState
    <3>4. count'.events = Tally(Known) + st'.dropped + Under'
      BY <1>5, <3>1, <3>2, <3>3 DEF Under
    <3> QED
      BY <1>2, <2>1, <3>3, <3>4, ExactStays
  <2>5. CASE FinishAck
    <3>1. UNCHANGED <<count, arriving, status>> /\ status = "up"
      BY <2>5 DEF FinishAck, data, WorkerOK, Idle
    <3>2. st'.dropped = st.dropped /\ st'.open = st.open
      BY <1>4, <2>5 DEF FinishAck, NoState
    <3>3. count'.events = Tally(Known) + st'.dropped + Under'
      BY <1>5, <3>1, <3>2 DEF Under
    <3> QED
      BY <1>2, <2>1, <3>1, <3>2, <3>3, ExactStays
  <2>6. CASE Admit \/ GiveUp \/ Post \/ Delivered \/ PostFails \/ ArrivesLate \/ UNCHANGED vars
    <3>1. UNCHANGED <<count, arriving, status, st, spool>>
      BY <2>6 DEF Admit, GiveUp, Post, Delivered, PostFails, ArrivesLate, vars, data
    <3>2. count'.events = Tally(Known) + st'.dropped + Under'
      BY <1>5, <3>1 DEF Under
    <3> QED
      BY <1>2, <2>1, <3>1, <3>2, ExactStays
  <2> QED
    BY <1>1, <1>7, <2>2, <2>3, <2>4, <2>5, <2>6 DEF Stays, Requests
<1>8. CASE AckOne
  <2>1. Known' = Known
    BY <1>8, PopStep, NumberedPop
  <2>2. UNCHANGED <<count, arriving, status>> /\ status = "up" /\ st' = Popped
    BY <1>8 DEF AckOne, data, WorkerOK, Idle
  <2>3. st'.dropped = st.dropped /\ st'.open = st.open
    BY <1>4, <2>2 DEF Popped, NoState
  <2>4. count'.events = Tally(Known) + st'.dropped + Under'
    BY <1>5, <2>2, <2>3 DEF Under
  <2> QED
    BY <1>2, <2>1, <2>2, <2>3, <2>4, ExactStays
<1> QED
  BY <1>1, <1>6, <1>7, <1>8 DEF Next, Enqueue, Worker, Ack, Stays

-----------------------------------------------------------------------------
(* The invariant.                                                          *)

\* At first there is nothing.
LEMMA EmptyFiles ==
  ASSUME Init
  PROVE  /\ TypeOK
         /\ spool = <<>> /\ cursor.next = 0 /\ cursor.hash = Genesis /\ status = "down"
         /\ received = {} /\ wire = {} /\ Len(spool) = 0
         /\ Chained(spool) /\ Torn \notin Elements(spool) /\ Alive
         /\ Len(Now.pending) = 0 /\ Now.nextSeq = 0 /\ Now.lastHash = Genesis /\ ~Now.open
         /\ Known = {} /\ Pending = {}
<1>1. TypeOK
  BY ExportTypeInit
<1>2. /\ spool = <<>> /\ cursor.next = 0 /\ cursor.hash = Genesis /\ status = "down"
      /\ received = {} /\ wire = {} /\ spool \in Seq(Line) /\ cursor \in Cursor
      /\ Len(spool) = 0
  <2>1. /\ spool = <<>> /\ status = "down" /\ received = {} /\ wire = {}
        /\ cursor.next = 0 /\ cursor.hash = Genesis
    BY DEF Init
  <2>2. spool \in Seq(Line) /\ cursor \in Cursor
    BY <1>1 DEF TypeOK
  <2> QED
    BY <2>1, <2>2
<1>4. /\ AckedLines(spool, cursor) = 0 /\ MatchesCursor(spool, cursor) /\ Chained(spool)
      /\ Torn \notin Elements(spool)
  <2>1. AckedLines(spool, cursor) = 0 /\ MatchesCursor(spool, cursor)
    BY <1>2 DEF AckedLines, MatchesCursor
  <2>2. \A i \in 1..Len(spool) : FALSE
    BY <1>2
  <2>3. Chained(spool) /\ Torn \notin Elements(spool)
    BY <1>2, <2>2 DEF Chained, Elements
  <2> QED
    BY <2>1, <2>3
<1>5. Len(Unacked(spool, cursor)) = 0
  <2>1. Len(Unacked(spool, cursor)) = Len(spool) - AckedLines(spool, cursor)
    BY <1>2, <1>4, UnackedIs
  <2> QED
    BY <1>2, <1>4, <2>1
<1>6. Loadable(spool, cursor)
  BY <1>4, <1>5, CapAssumption DEF Loadable
<1>7. Alive /\ Now = Loaded(spool, cursor)
  BY <1>2, <1>6 DEF Alive, Now
<1>8. /\ Len(Now.pending) = 0 /\ Now.nextSeq = 0 /\ Now.lastHash = Genesis
      /\ Now.open = GapOpenIn(Unacked(spool, cursor))
  BY <1>2, <1>5, <1>6, <1>7, LoadedIs
<1>9. ~Now.open
  BY <1>5, <1>8 DEF GapOpenIn
<1>10. Known = {} /\ Pending = {}
  BY <1>2, <1>7, <1>8 DEF Known, Sent, Pending, Elements
<1> QED
  BY <1>1, <1>2, <1>4, <1>7, <1>8, <1>9, <1>10

\* At first there is nothing to count.
LEMMA CountedInit == Init => Counted
<1> SUFFICES ASSUME Init PROVE Exact
  BY CountedIs
<1>1. Known = {} /\ spool = <<>>
  BY EmptyFiles
<1>2. /\ st.dropped = 0 /\ count.events = 0 /\ arriving = NoEvent
  BY DEF Init, NoState
<1>3. Under = 0 /\ Tally(Known) = 0
  BY <1>1, <1>2, TallyOfNone DEF Under
<1> QED
  BY <1>1, <1>2, <1>3 DEF Exact

LEMMA ExportInit == Init => ExportInv
<1> SUFFICES ASSUME Init PROVE ExportInv
  OBVIOUS
<1>1. /\ TypeOK
      /\ spool = <<>> /\ cursor.next = 0 /\ cursor.hash = Genesis /\ status = "down"
      /\ received = {} /\ wire = {} /\ Len(spool) = 0
      /\ Chained(spool) /\ Torn \notin Elements(spool) /\ Alive
      /\ Len(Now.pending) = 0 /\ Now.nextSeq = 0 /\ Now.lastHash = Genesis /\ ~Now.open
      /\ Known = {} /\ Pending = {}
  BY EmptyFiles
<1>3. WorkerOK
  <2>1. worker.pc = "idle" /\ status # "refused"
    BY DEF Init, Idle
  <2> QED
    BY <2>1 DEF Init, WorkerOK
<1>11. Numbered
  <2>1. Linked(Known) /\ HashBefore(received, cursor.next, cursor.hash)
        /\ HashBefore(Known, Now.nextSeq, Now.lastHash)
    BY <1>1 DEF Linked, HashBefore
  <2>2. IsPrefix(received) /\ IsFiniteSet(received)
    BY <1>1, FS_EmptySet DEF IsPrefix
  <2>3. Numbers(Now.pending, Now.nextSeq)
    BY <1>1 DEF Numbers
  <2>4. \A n \in 0..Now.nextSeq : ~(n + Len(Now.pending) < Now.nextSeq)
    BY <1>1
  <2> QED
    BY <1>1, <2>1, <2>2, <2>3, <2>4 DEF Numbered
<1>12. OnFile
  <2>1. Holds(0)
    BY <1>1 DEF Holds
  <2> QED
    BY <1>1, <2>1 DEF OnFile
<1>13. Clean
  BY <1>1, CapAssumption DEF Clean, Whole
<1>14. Ordered
  BY <1>1 DEF Init, Ordered
<1>15. Accounted
  BY <1>1 DEF Init, Accounted
<1>16. Reserved
  <2>1. count.events = 0 /\ count.others = 0
    BY DEF Init
  <2> QED
    BY <2>1, ExportBoundsAssumption DEF Init, Reserved
<1> QED
  BY <1>1, <1>3, <1>11, <1>12, <1>13, <1>14, <1>15, <1>16, CountedInit DEF ExportInv

LEMMA ExportStep == ExportInv /\ [Next]_vars => ExportInv'
<1> SUFFICES ASSUME ExportInv, [Next]_vars PROVE ExportInv'
  OBVIOUS
<1>1. /\ TypeOK /\ WorkerOK /\ Numbered /\ OnFile /\ Clean
      /\ Ordered /\ Accounted /\ Reserved /\ Counted
  BY DEF ExportInv
<1>2. TypeOK' /\ WorkerOK'
  BY <1>1, ExportTypeStep, WorkerStep
<1>3. Numbered' /\ OnFile' /\ Clean'
  BY <1>1, NumberedStep, OnFileStep, CleanStep
<1>4. Ordered' /\ Accounted' /\ Reserved' /\ Counted'
  BY <1>1, <1>2, OrderedStep, AccountedStep, ReservedStep, CountedStep
<1> QED
  BY <1>2, <1>3, <1>4 DEF ExportInv

\* In every reachable state of the exporter, for every size of the buffer and any
\* number of requests, crashes and failed writes: the numbers and links of the
\* envelopes, the lines of the spool, the cursor and the events that were dropped
\* fit each other as ExportInv says.
THEOREM ExportInvariant == Spec => []ExportInv
<1>1. Init => ExportInv
  BY ExportInit
<1>2. ExportInv /\ [Next]_vars => ExportInv'
  BY ExportStep
<1> QED
  BY <1>1, <1>2, PTL DEF Spec

\* What the exporter keeps is of its type, and while every write was whole a
\* start never refuses the files, wherever the process was killed.
THEOREM FilesCanBeRead == Spec => []ExportSound
<1>1. ExportInv => ExportSound
  <2> SUFFICES ASSUME ExportInv, Sound(count.faults, spool)
               PROVE  status # "refused" /\ Loadable(spool, cursor)
    BY DEF ExportInv, ExportSound, Reloadable
  <2>1. TypeOK /\ WorkerOK /\ Numbered /\ OnFile /\ Fits
    BY DEF ExportInv, Sound, Clean, Fits
  <2>2. CASE status = "up"
    <3>1. Now = st /\ Alive
      BY <2>2 DEF Now, Alive
    <3> QED
      BY <2>1, <2>2, <3>1, SpoolLoads
  <2>3. CASE status # "up"
    BY <2>1, <2>3 DEF Fits, Alive, WorkerOK
  <2> QED
    BY <2>2, <2>3
<1> QED
  BY <1>1, ExportInvariant, PTL

\* An event whose envelope was appended is never lost: the collector has it, or
\* it is in the buffer and in the files, as far as a start can read them.
THEOREM AppendedIsKept == Spec => []NothingLost
<1>1. ExportInv => NothingLost
  <2> SUFFICES ASSUME ExportInv, NEW e \in queued, e \notin EventsIn(received)
               PROVE  /\ status = "up" => e \in EventsIn(Elements(st.pending))
                      /\ Loadable(spool, cursor) => e \in EventsIn(OnDisk)
    BY DEF NothingLost
  <2> USE DEF ExportInv
  <2>1. Alive => e \in EventsIn(Pending)
    BY DEF Accounted, EventsIn
  <2>2. CASE status # "up"
    <3>1. Loadable(spool, cursor) => Alive /\ Pending = OnDisk
      <4>1. Loadable(spool, cursor) => Loaded(spool, cursor).pending = Unacked(spool, cursor)
        BY LoadedIs DEF TypeOK
      <4> QED
        BY <2>2, <4>1 DEF Alive, Now, Pending, OnDisk
    <3> QED
      BY <2>1, <2>2, <3>1
  <2>3. CASE status = "up"
    <3>1. Alive /\ Now = st /\ Pending = Elements(st.pending)
      BY <2>3 DEF Alive, Now, Pending
    <3>2. Loadable(spool, cursor) => e \in EventsIn(OnDisk)
      <4> SUFFICES ASSUME Loadable(spool, cursor) PROVE e \in EventsIn(OnDisk)
        OBVIOUS
      <4> DEFINE U == Unacked(spool, cursor)
      <4>1. PICK k, a \in Nat : StartsWith(Loaded(spool, cursor), k, a)
        BY <3>1, StartReads
      <4>2. Loaded(spool, cursor).pending = U /\ U \in Seq(Envelope) /\ st.pending \in Seq(Envelope)
        BY <3>1, <4>1, LoadedIs, KnownIs DEF TypeOK, StartsWith
      <4>3. Elements(st.pending) \subseteq Elements(U)
        <5> SUFFICES ASSUME NEW i \in 1..Len(st.pending) PROVE st.pending[i] \in Elements(U)
          BY DEF Elements
        <5>1. /\ a \in 0..k /\ Len(U) + a = Len(spool)
              /\ Len(spool) = k + Len(st.pending) \/ Len(spool) = k + Len(st.pending) + 1
              /\ \A j \in 1..Len(U) : U[j] = spool[a + j]
              /\ spool[k + i] = st.pending[i]
          BY <3>1, <4>1, <4>2 DEF StartsWith, Holds
        <5>2. Len(U) \in Nat /\ Len(st.pending) \in Nat
          BY <4>2
        <5> HIDE DEF U
        <5>3. (k - a) + i \in 1..Len(U) /\ a + ((k - a) + i) = k + i
          BY <5>1, <5>2
        <5>4. U[(k - a) + i] = st.pending[i]
          BY <5>1, <5>3
        <5> QED
          BY <5>3, <5>4 DEF Elements
      <4> QED
        BY <2>1, <3>1, <4>3 DEF EventsIn, OnDisk
    <3> QED
      BY <2>1, <3>1, <3>2
  <2> QED
    BY <2>2, <2>3
<1> QED
  BY <1>1, ExportInvariant, PTL

-----------------------------------------------------------------------------
(* What the collector has.                                                 *)

\* The check the collector can make never fails: what it received rises by one from
\* zero, names every number once, and is linked by its hashes.
THEOREM ReceivedVerifies == Spec => []ChainVerifies
<1>1. ExportInv => ChainVerifies
  <2> SUFFICES ASSUME TypeOK, Numbered PROVE ChainVerifies
    BY DEF ExportInv
  <2>1. Linked(Known) /\ IsPrefix(received) /\ IsFiniteSet(received)
    BY DEF Numbered
  <2>2. received \in SUBSET Known /\ Known \in SUBSET Envelope
    BY KnownIs
  <2>3. {e.seq + 1 : e \in received} = 1..Cardinality(received)
    BY <2>1, <2>2, PrefixIs
  <2> QED
    BY <2>1, <2>2, <2>3 DEF ChainVerifies, Linked
<1> QED
  BY <1>1, ExportInvariant, PTL

\* No event is dropped silently: the feed has a gap marker between the events before
\* a dropped one and the events after it, across restarts and failed writes.
THEOREM DropsAreMarked == Spec => []GapsAreMarked
<1>1. ExportInv => GapsAreMarked
  <2> SUFFICES ASSUME TypeOK, Numbered, Accounted, NEW k \in shed, NEW b \in Stream,
                      b.kind = "event", b.ev > k
               PROVE  \E g \in Stream :
                        /\ g.kind = "started" /\ g.seq < b.seq
                        /\ \A a \in Stream : a.kind = "event" /\ a.ev < k => a.seq < g.seq
    BY DEF ExportInv, GapsAreMarked
  <2>1. Stream = received \cup Pending /\ Stream \subseteq Known
    BY FeedIs DEF Known, Sent
  <2>2. PICK g \in Known : Marks(g, k, Known)
    <3>1. ASSUME \A a \in Known : a.kind = "event" => a.ev <= k PROVE FALSE
      <4>1. b.ev \in Nat /\ k \in Nat /\ b.ev <= k
        BY <2>1, <3>1, KnownIs, FieldsAre DEF TypeOK
      <4> QED
        BY <4>1
    <3> QED
      BY <3>1 DEF Accounted
  <2>3. /\ g.kind = "started" /\ g.seq < b.seq
        /\ \A a \in Stream : a.kind = "event" /\ a.ev < k => a.seq < g.seq
    BY <2>1, <2>2 DEF Marks
  <2>4. g \in Stream
    <3>1. CASE Alive
      BY <2>2, <3>1, FeedIs
    <3>2. CASE ~Alive
      <4>1. b \in received
        BY <2>1, <3>2 DEF Pending
      <4>2. g.seq \in Nat /\ b.seq \in Nat
        BY <2>1, <2>2, KnownIs, FieldsAre
      <4>3. g.seq \in 0..b.seq
        BY <2>3, <4>2
      <4>4. PICK d \in received : d.seq = g.seq
        BY <4>1, <4>3 DEF Numbered, IsPrefix
      <4>5. d \in Known
        BY <4>4, KnownIs
      <4>6. d = g
        BY <2>2, <4>4, <4>5 DEF Numbered, Linked
      <4> QED
        BY <2>1, <4>4, <4>6
    <3> QED
      BY <3>1, <3>2
  <2> QED
    BY <2>3, <2>4
<1> QED
  BY <1>1, ExportInvariant, PTL

\* Before the first crash and the first failed write, the drops that the feed
\* reports and the events in it number every event.
LEMMA ExactFeed == ExportInv => GapsAreExact
<1> SUFFICES ASSUME ExportInv, Troubles = 0, NEW b \in Stream, b.kind = "event"
             PROVE  b.ev = 1 + Cardinality({e \in {e \in Stream : e.seq < b.seq} : e.kind = "event"})
                             + MapThenSumSet(LAMBDA e : e.dropped, {e \in Stream : e.seq < b.seq})
  BY DEF GapsAreExact
<1>1. Exact /\ TypeOK /\ Numbered /\ Clean
  BY CountedIs DEF ExportInv
<1>2. Stream = Known /\ IsFiniteSet(Known) /\ Known \in SUBSET Envelope
  BY <1>1, CalmIs
<1> DEFINE below == {e \in Stream : e.seq < b.seq}
<1>3. b.ev = 1 + Tally(below)
  BY <1>1, <1>2 DEF Exact
<1>4. Total(below) \in Nat /\ Cardinality({e \in below : e.kind = "event"}) \in Nat
  <2>1. below \in SUBSET Known /\ {e \in below : e.kind = "event"} \in SUBSET Known
    BY <1>2
  <2> QED
    BY <1>2, <2>1, TotalIs, FS_Subset, FS_CardinalityType
<1>5. Total(below) = MapThenSumSet(LAMBDA e : e.dropped, below)
  BY DEF Total
<1> QED
  BY <1>3, <1>4, <1>5 DEF Tally

\* The feed says what it lacks: in every reachable state it has a marker between the
\* events around a dropped one, and until something crashes or fails the number of
\* drops that the end of each gap reports is exact (enqueue, siem_export.rs).
THEOREM DropsAreReported == Spec => []GapsAreReported
<1>1. Spec => []GapsAreExact
  BY ExactFeed, ExportInvariant, PTL
<1> QED
  BY <1>1, DropsAreMarked, PTL DEF GapsAreReported

\* fail_closed: with no more requests and other events under way than admission
\* leaves slots for, the receipt of an admitted request always finds a place.
THEOREM ReceiptsFindAPlace ==
  ASSUME FailClosed, MaxInFlight + MaxOthers <= Headroom
  PROVE  Spec => []AdmittedIsQueued
<1>1. ExportInv => AdmittedIsQueued
  BY DEF ExportInv, Reserved, AdmittedIsQueued
<1> QED
  BY <1>1, ExportInvariant, PTL

-----------------------------------------------------------------------------
(* The exporter implements the feed.                                       *)

LEMMA FeedIsKnown == TypeOK /\ Numbered => (Alive => Stream = Known)
  BY FeedIs

LEMMA KnownIsTyped == TypeOK => Known \subseteq Envelope /\ received \subseteq Known
  BY KnownIs

\* A push extends the feed.
LEMMA FeedGrows ==
  ASSUME ExportInv, ExportInv', NEW env \in Envelope, Pushes(env)
  PROVE  Reader!Extend
<1>1. TypeOK /\ WorkerOK /\ Numbered /\ TypeOK' /\ Numbered'
  BY DEF ExportInv
<1>2. /\ Alive /\ Alive' /\ Now = st /\ Known' = Known \cup {env} /\ UNCHANGED received
  BY <1>1, PushKnown
<1>3. Stream = Known /\ Cardinality(Stream) = st.nextSeq
  BY <1>1, <1>2, FeedIs
<1>4. (TypeOK /\ Numbered => (Alive => Stream = Known))'
  BY FeedIsKnown, PTL
<1>5. Stream' = Stream \cup {env}
  BY <1>1, <1>2, <1>3, <1>4
<1>6. \A e \in Known : e.seq < st.nextSeq /\ e.seq \in Nat
  BY <1>1, <1>2, KnownIs, FieldsAre DEF Numbered
<1>7. env.seq = Cardinality(Stream) /\ env.seq = st.nextSeq /\ env.seq \in Nat
  BY <1>3, FieldsAre DEF Pushes
<1>8. env \notin Stream
  BY <1>3, <1>6, <1>7
<1>9. {d.seq + 1 : d \in Stream} = 1..env.seq
  BY <1>1, <1>2, <1>7, FeedIs
<1>10. env \in Stream' \ Stream
  BY <1>5, <1>8
<1> QED
  BY <1>2, <1>5, <1>9, <1>10 DEF Reader!Extend

\* A step that gives no number delivers, if anything.
LEMMA FeedDelivers ==
  ASSUME ExportInv, ExportInv', Alive, Alive', Known' = Known, received \subseteq received'
  PROVE  Reader!Deliver
<1>1. TypeOK /\ Numbered /\ TypeOK' /\ Numbered'
  BY DEF ExportInv
<1>2. Stream = Known
  BY <1>1, FeedIs
<1>3. (TypeOK /\ Numbered => (Alive => Stream = Known))'
  BY FeedIsKnown, PTL
<1>4. (TypeOK => Known \subseteq Envelope /\ received \subseteq Known)'
  BY KnownIsTyped, PTL
<1>5. Stream' = Stream
  BY <1>1, <1>2, <1>3
<1>6. /\ received' \in SUBSET Stream /\ Stream \in SUBSET Envelope
  BY <1>1, <1>2, <1>4
<1>7. Linked(Stream) /\ IsPrefix(received') /\ IsFiniteSet(received')
  BY <1>1, <1>2 DEF Numbered
<1>8. ASSUME NEW e \in received', NEW d \in Stream, d.seq < e.seq
      PROVE  d \in received'
  <2>1. d.seq \in 0..e.seq
    BY <1>6, <1>8, FieldsAre
  <2>2. PICK c \in received' : c.seq = d.seq
    BY <1>7, <2>1 DEF IsPrefix
  <2> QED
    BY <1>6, <1>7, <2>2 DEF Linked
<1> QED
  BY <1>5, <1>6, <1>8 DEF Reader!Deliver

LEMMA FeedStep ==
  ASSUME ExportInv, ExportInv', [Next]_vars, Sound(count'.faults, spool')
  PROVE  Reader!Next
<1>1. /\ TypeOK /\ WorkerOK /\ Numbered /\ OnFile /\ Clean
      /\ TypeOK' /\ WorkerOK' /\ Numbered' /\ OnFile' /\ Clean'
  BY DEF ExportInv
<1>2. count.faults = 0 /\ count'.faults = 0 /\ ~PushFails /\ ~CursorFails /\ ~CompactionFails
  BY <1>1, FaultsStep DEF Sound
<1>3. Alive'
  BY <1>1, <1>2 DEF Clean, Sound
<1>4. CASE EndGap \/ StartGap \/ Queue
  BY <1>1, <1>4, PushStep, FeedGrows DEF Reader!Next
<1>5. CASE AckOne
  <2>1. Pops
    BY <1>1, <1>5, PopStep
  <2>2. Alive /\ Known' = Known /\ received' = received
    BY <1>1, <2>1, NumberedPop DEF Pops, Alive, data
  <2> QED
    BY <1>3, <2>2, FeedDelivers DEF Reader!Next
<1>6. CASE Crash
  <2>1. /\ Alive /\ Now = st /\ Now' = Loaded(spool, cursor) /\ received' = received
        /\ UNCHANGED spool /\ Feeds
    <3>1. received' = received
      BY <1>6 DEF Crash
    <3> QED
      BY <1>1, <1>3, <1>6, <3>1, CrashIs
  <2>2. Fits
    BY <1>1, <1>2, <1>3, <2>1 DEF Clean, Fits, Sound
  <2>3. /\ Len(Now'.pending) = Len(st.pending)
        /\ \A i \in 1..Len(st.pending) : Now'.pending[i] = st.pending[i]
    BY <1>1, <2>1, <2>2, SpoolLoads
  <2>4. Pending' = Pending
    BY <1>3, <2>1, <2>3 DEF Pending, Elements
  <2>5. Known' = Known
    BY <1>1, <2>1, <2>4, SentIs DEF Known
  <2> QED
    BY <1>3, <2>1, <2>5, FeedDelivers DEF Reader!Next
<1>7. CASE Stays
  <2>1. SameQueue /\ Feeds /\ Known' = Known /\ received \subseteq received'
    BY <1>1, <1>7, SameStep, SameKnown, SentIs
  <2>2. Alive
    BY <1>3, <2>1 DEF SameQueue
  <2> QED
    BY <1>3, <2>1, <2>2, FeedDelivers DEF Reader!Next
<1> QED
  BY <1>2, <1>4, <1>5, <1>6, <1>7 DEF Next, Enqueue, Worker, Ack, Stays

\* The exporter implements the feed that docs/siem-export-hardened.md promises the
\* reader of the collector: while every write was whole, each of its steps, crashes
\* and restarts included, adds one envelope with the next number, or delivers
\* envelopes in order, or changes nothing that the reader sees.
THEOREM ExporterKeepsOrder == Spec => KeepsOrder
<1>1. Init => Reader!Init
  <2> SUFFICES ASSUME Init PROVE Reader!Init
    OBVIOUS
  <2>1. Stream = {} /\ received = {}
    BY EmptyFiles, ExportInit, FeedIs DEF ExportInv
  <2> QED
    BY <2>1 DEF Reader!Init
<1>2. ExportInv /\ ExportInv' /\ [Next]_vars
        => [Sound(count'.faults, spool') => Reader!Next]_<<Stream, received>>
  BY FeedStep
<1> QED
  BY <1>1, <1>2, ExportInvariant, PTL DEF Spec, KeepsOrder
=============================================================================
