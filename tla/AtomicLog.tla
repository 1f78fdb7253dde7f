------------------------------ MODULE AtomicLog ------------------------------
(***************************************************************************)
(* The journal as its callers rely on it (docs/durable-journal.md, carried *)
(* out by operations.rs): a log that grows by one record at a time, whose  *)
(* acknowledged records stay for ever, with one intent per key and one     *)
(* outcome per intent.  A record that was not acknowledged may be lost.    *)
(***************************************************************************)
EXTENDS Naturals, Sequences

VARIABLES log, sure

Init == log = <<>> /\ sure = 0

Has(l, kind, k) == \E i \in 1..Len(l) : l[i] = [kind |-> kind, key |-> k]

Extend ==
  /\ Len(log') = Len(log) + 1
  /\ SubSeq(log', 1, Len(log)) = log
  /\ LET r == log'[Len(log')]
     IN  /\ r.kind = "intent"  => ~Has(log, "intent", r.key)
         /\ r.kind = "outcome" => /\ Has(log, "intent", r.key)
                                 /\ ~Has(log, "outcome", r.key)
  /\ UNCHANGED sure

Acknowledge ==
  /\ sure' \in sure+1..Len(log)
  /\ UNCHANGED log

Lose ==
  /\ \E n \in sure..Len(log) : log' = SubSeq(log, 1, n)
  /\ UNCHANGED sure

Next == Extend \/ Acknowledge \/ Lose

Spec == Init /\ [][Next]_<<log, sure>>
=============================================================================
