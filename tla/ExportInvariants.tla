-------------------------- MODULE ExportInvariants --------------------------
(***************************************************************************)
(* Why the properties of module ExportProperties hold: the inductive       *)
(* invariant of the SIEM export, checked by TLC and proved in module       *)
(* ExportProofs.                                                           *)
(***************************************************************************)
EXTENDS ExportProperties

\* The buffer in memory, or the one that a start would make of the files.
Now   == IF status = "up" THEN st ELSE Loaded(spool, cursor)
Alive == status = "up" \/ Loadable(spool, cursor)

Pending == IF Alive THEN Elements(Now.pending) ELSE {}

\* The envelopes somebody outside may have seen, and all that have a number.
Sent  == received \cup UNION wire
Known == Sent \cup Pending

\* Who holds the lock, and what the worker posted.
WorkerOK ==
  /\ status # "up" => worker = Idle /\ arriving = NoEvent /\ admitted = 0
  /\ worker.pc = "posted" => worker.left \in 1..Len(st.pending)
  /\ worker.pc = "acking" =>
       /\ worker.left \in 0..Len(st.pending)
       /\ Batch \subseteq received
       /\ worker.left = 0 /\ ~worker.failed
            => cursor.next + Len(st.pending) = st.nextSeq
  /\ status = "refused" => ~Loadable(spool, cursor)

-----------------------------------------------------------------------------
(* Numbers and links.                                                      *)

\* h is the hash that number n has to follow.
HashBefore(S, n, h) ==
  IF n = 0 THEN h = Genesis ELSE \E e \in S : e.seq + 1 = n /\ e.hash = h

\* A number is given once, and an envelope names the one before it.
Linked(S) == \A d, e \in S :
  /\ d.seq = e.seq => d = e
  /\ d.seq = e.seq + 1 => d.prev = e.hash
  /\ d.seq = 0 => d.prev = Genesis

\* S has every number below one that it has.
IsPrefix(S) == \A e \in S : 0..e.seq \subseteq {d.seq : d \in S}

\* The lines have the last numbers before `next`.
Numbers(lines, next) ==
  /\ Len(lines) <= next
  /\ \A i \in 1..Len(lines) : lines[i].seq + Len(lines) + 1 = next + i

\* Why ChainVerifies holds: what is pending continues what was received, and any
\* batch that may still arrive does as well.
Numbered ==
  /\ Linked(Known)
  /\ IsPrefix(received) /\ \A b \in wire : IsPrefix(received \cup b)
  /\ IsFiniteSet(received) /\ \A b \in wire : IsFiniteSet(b)
  /\ HashBefore(received, cursor.next, cursor.hash)
  /\ Alive =>
       /\ Numbers(Now.pending, Now.nextSeq)
       /\ \A e \in Known : e.seq < Now.nextSeq
       /\ \A n \in 0..Now.nextSeq : n + Len(Now.pending) < Now.nextSeq
                                     => \E e \in received : e.seq = n
       /\ HashBefore(Known, Now.nextSeq, Now.lastHash)

-----------------------------------------------------------------------------
(* The files.                                                              *)

Whole == Torn \notin Elements(spool) /\ Chained(spool)

\* A gap marker is followed by the end of the gap, which is open until then.
Paired(lines, i, open) ==
  lines[i].kind = "started" =>
    IF i < Len(lines) THEN lines[i+1].kind = "ended" ELSE open

\* The line of a failed append: no event was dropped since.
Stray(l) ==
  /\ l.prev = Now.lastHash
  /\ l.kind = "event" =>
       /\ ~Now.open /\ Len(Now.pending) < Cap
       /\ l.ev <= count.events
       /\ \A e \in shed : e < l.ev

\* While a start can read the spool, it holds k acknowledged lines, then what is
\* pending, and then at most one line of a failed append, after which nothing
\* was appended.
Holds(k) ==
  LET n == k + Len(Now.pending)
  IN  /\ Len(spool) \in {n, n + 1}
      /\ \A i \in 1..Len(Now.pending) : spool[k + i] = Now.pending[i]
      /\ \A i \in 1..k : spool[i] \in received
      /\ \A i \in 1..Len(spool) : spool[i].seq + n + 1 = Now.nextSeq + i
      /\ cursor.next + Len(Now.pending) <= Now.nextSeq
      /\ Now.nextSeq <= cursor.next + n
      /\ \A i \in 1..n : spool[i].seq >= cursor.next => Paired(spool, i, Now.open)
      /\ Len(spool) = n + 1 => Stray(spool[n + 1])

OnFile == Alive /\ Whole => \E k \in 0..Len(spool) : Holds(k)

\* Why Reloadable holds: without a failed write the cursor is where the queue
\* begins, and the queue has its reserved slot for a marker only.
Clean ==
  count.faults = 0 =>
    /\ status = "up" => Torn \notin Elements(spool)
    /\ Torn \notin Elements(spool) =>
         /\ Alive /\ Whole
         /\ cursor.next + Len(Now.pending) = Now.nextSeq
         /\ \A i \in 1..Len(spool) : spool[i].seq < Now.nextSeq
         /\ Len(Now.pending) <= Cap + 1
         /\ Len(Now.pending) = Cap + 1 => Now.pending[Cap + 1].kind = "started"

-----------------------------------------------------------------------------
(* The events.                                                             *)

\* g stands between the events before e and the events after it.
Marks(g, e, S) ==
  /\ g.kind = "started"
  /\ \A a \in S : a.kind = "event" =>
       /\ a.ev < e => a.seq < g.seq
       /\ a.ev > e => g.seq < a.seq

\* The marker of an open gap has no event behind it.
Opens(g, S) == g.kind = "started" /\ \A a \in S : a.kind = "event" => a.seq < g.seq

\* An event under way is the latest, and a gap marker in the queue is open or has
\* its end behind it.
Latest(e) == e <= count.events /\ (arriving # NoEvent => e < arriving)

Ordered ==
  /\ \A a \in Known : a.kind = "event" => Latest(a.ev)
  /\ \A e \in shed : Latest(e)
  /\ arriving # NoEvent => arriving = count.events
  /\ Alive => \A i \in 1..Len(Now.pending) : Paired(Now.pending, i, Now.open)

\* Why GapsAreMarked and NothingLost hold.
Accounted ==
  /\ Alive /\ Now.open => \E g \in Known : Opens(g, Known)
  /\ \A e \in shed : \/ \E g \in Known : Marks(g, e, Known)
                     \/ ~Alive /\ \A a \in Known : a.kind = "event" => a.ev <= e
  /\ Alive => queued \subseteq EventsIn(received \cup Pending)

\* Why AdmittedIsQueued holds: the slots that admission left free.
Reserved ==
  FailClosed /\ MaxInFlight + MaxOthers <= Headroom =>
    /\ admitted <= MaxInFlight /\ count.others <= MaxOthers
    /\ admitted > 0 \/ arriving \in receipts =>
         /\ ~st.open
         /\ Len(st.pending) + admitted + (IF arriving = NoEvent THEN 0 ELSE 1)
              + MaxOthers <= Cap + count.others
    /\ \A e \in receipts \cup shed : e \in 1..count.events
    /\ receipts \cap shed = {} /\ arriving \notin shed

-----------------------------------------------------------------------------
(* The counts.                                                             *)

\* The events that these envelopes account for: their own, and the drops that
\* they report.
Total(S) == MapThenSumSet(LAMBDA e : e.dropped, S)
Tally(S) == Cardinality({e \in S : e.kind = "event"}) + Total(S)

Under == IF arriving = NoEvent THEN 0 ELSE 1

\* Why GapsAreExact holds: while nothing crashes or fails, the envelopes below an
\* event account for the events before it, and all envelopes, with the drops still
\* to be reported and the event under way, for all events.
Counted ==
  Troubles = 0 =>
    /\ \A b \in Known : b.kind = "event" =>
         b.ev = 1 + Tally({e \in Known : e.seq < b.seq})
    /\ count.events = Tally(Known) + st.dropped + Under
    /\ ~st.open => st.dropped = 0
    /\ status # "up" => spool = <<>> /\ st.dropped = 0

\* The invariant of the export, proved inductive in module ExportProofs.
ExportInv ==
  /\ TypeOK /\ WorkerOK /\ Numbered /\ OnFile /\ Clean
  /\ Ordered /\ Accounted /\ Reserved /\ Counted
=============================================================================
