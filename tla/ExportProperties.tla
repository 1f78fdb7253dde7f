-------------------------- MODULE ExportProperties --------------------------
(***************************************************************************)
(* What the SIEM export must guarantee, stated over module SiemExport.     *)
(***************************************************************************)
EXTENDS SiemExport, FiniteSets, FiniteSetsExt

\* Every variable keeps its type.
TypeOK ==
  /\ status \in {"down", "up", "refused"}
  /\ spool \in Seq(Line)
  /\ cursor \in Cursor
  /\ st \in State
  /\ arriving \in Nat
  /\ worker \in [pc : {"idle", "posted", "acking"}, left : Nat, failed : BOOLEAN]
  /\ wire \subseteq SUBSET Envelope
  /\ received \subseteq Envelope
  /\ admitted \in Nat
  /\ made \in Nat
  /\ count \in [events : Nat, others : Nat, crashes : Nat, faults : Nat]
  /\ receipts \subseteq Nat /\ queued \subseteq Nat
  /\ shed \subseteq Nat /\ lost \subseteq Nat

\* The envelopes a restart would resend.
OnDisk == IF Loadable(spool, cursor) THEN Elements(Unacked(spool, cursor)) ELSE {}

\* The feed: what the SIEM has and what it is still to get.
Stream == received \cup IF status = "up" THEN Elements(st.pending) ELSE OnDisk

\* No write failed and no append was cut short by a crash.
Sound(faults, lines) == faults = 0 /\ Torn \notin Elements(lines)

\* The exporter can always be started again on the files it wrote, wherever it
\* was killed, as long as every write was whole: cursor, acknowledged lines and
\* rest fit.
Reloadable == Sound(count.faults, spool) => status # "refused" /\ Loadable(spool, cursor)

\* What the exporter keeps, in memory and on disk, is of its type and fits.
ExportSound == TypeOK /\ Reloadable

\* An event that was appended is never lost: the SIEM has it, or it is pending
\* and a restart that accepts the files would resend it, whatever write failed
\* and wherever the gate was killed.
NothingLost ==
  \A e \in queued :
    \/ e \in EventsIn(received)
    \/ /\ status = "up" => e \in EventsIn(Elements(st.pending))
       /\ Loadable(spool, cursor) => e \in EventsIn(OnDisk)

\* The check the SIEM can make never fails: what it received rises by one from
\* zero, names every sequence number once, and is linked by its hashes.
ChainVerifies ==
  /\ {e.seq + 1 : e \in received} = 1..Cardinality(received)
  /\ \A d, e \in received : e.seq = d.seq + 1 => e.prev = d.hash

\* No event is dropped silently: between the events around a dropped one the
\* feed has a marker that a gap started, across restarts and failed writes.
GapsAreMarked ==
  \A k \in shed : \A b \in Stream :
    b.kind = "event" /\ b.ev > k =>
      \E g \in Stream :
        /\ g.kind = "started" /\ g.seq < b.seq
        /\ \A a \in Stream : a.kind = "event" /\ a.ev < k => a.seq < g.seq

\* While nothing crashes or fails, the counts in the feed are exact: every
\* event is numbered by the events and the drops reported before it.
GapsAreExact ==
  Troubles = 0 =>
    \A b \in Stream : b.kind = "event" =>
      LET before == {e \in Stream : e.seq < b.seq}
      IN  b.ev = 1 + Cardinality({e \in before : e.kind = "event"})
                   + MapThenSumSet(LAMBDA e : e.dropped, before)

\* The feed says what it lacks: that events were dropped, where, and how many.
GapsAreReported == GapsAreMarked /\ GapsAreExact

\* fail_closed: the receipt of a request that was admitted always finds a
\* place in the buffer (admission leaves Headroom slots free).
AdmittedIsQueued == receipts \cap shed = {}

-----------------------------------------------------------------------------
(* Liveness, under LiveSpec.                                               *)

\* What was queued is delivered in the end, through refusals of the SIEM, lost
\* answers and restarts.
Drains == \A e \in 1..MaxEvents : e \in queued ~> e \in EventsIn(received)

\* docs/siem-export-hardened.md: admission returns when the backlog drains.
\* A gap that is still open closes with the next event, so it counts as open.
AdmissionReturns == status = "up" /\ ~Admits ~> status # "up" \/ Admits \/ st.open

-----------------------------------------------------------------------------
Reader == INSTANCE Feed WITH sent <- Stream, got <- received

\* The exporter implements the feed through crashes and restarts, as long as
\* every write was whole: no envelope already in the feed is replaced,
\* renumbered or withdrawn.
KeepsOrder ==
  /\ Reader!Init
  /\ [][Sound(count'.faults, spool') => Reader!Next]_<<Stream, received>>
=============================================================================
