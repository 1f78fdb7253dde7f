-------------------------------- MODULE Feed --------------------------------
(***************************************************************************)
(* What docs/siem-export-hardened.md promises the reader of a SIEM and     *)
(* siem_export.rs carries out, without files, worker, retries or crashes:  *)
(* a numbered feed that only grows at its end, of which the SIEM has at    *)
(* every moment received a prefix and never less than before.              *)
(***************************************************************************)
EXTENDS Naturals

VARIABLES
  sent,  \* the envelopes of the feed
  got    \* those the SIEM has received

Init == sent = {} /\ got = {}

\* The next envelope has the number that follows all the others.
Extend ==
  /\ \E e \in sent' \ sent : /\ {d.seq + 1 : d \in sent} = 1..e.seq
                             /\ sent' = sent \cup {e}
  /\ UNCHANGED got

\* What arrives has no hole.
Deliver ==
  /\ got \subseteq got' /\ got' \subseteq sent
  /\ \A e \in got', d \in sent : d.seq < e.seq => d \in got'
  /\ UNCHANGED sent

Next == Extend \/ Deliver

Spec == Init /\ [][Next]_<<sent, got>>
=============================================================================
