----------------------------- MODULE JournalFile -----------------------------
(***************************************************************************)
(* What the journal file must guarantee, stated over OperationJournal.     *)
(***************************************************************************)
EXTENDS OperationJournal, FiniteSets

\* Every variable keeps its type.
JournalTypeOK ==
  /\ jsonl \in Seq(Frames \cup {Torn})
  /\ synced \in Nat
  /\ instance \in Procs \cup {Nobody}
  /\ writer \in [Procs -> Tasks \cup {Nobody}]
  /\ step \in [Tasks -> {"idle", "entering", "acquiring", "checking", "reentering",
                       "composing", "writing", "syncing", "done", "failed"}]
  /\ job \in [Tasks -> Records \cup {[kind |-> "none"]}]
  /\ frame \in [Tasks -> Frames \cup {NoFrame}]
  /\ count \in [calls : Nat, crashes : Nat, faults : Nat]
  /\ sure \in Nat

\* Two processes and their tasks never spoil the file for its readers: only a
\* partial frame, left by a crash or a failed write, makes it unreadable, and
\* nothing is ever written behind such a frame.
OnlyTornBlocks ==
  \A i \in 1..Len(jsonl) : Valid(jsonl, i) \/ (jsonl[i] = Torn /\ i = Len(jsonl))

\* An operation key is reserved at most once, and never when an older release
\* has reserved it, whatever processes and tasks race for it.
OneIntentPerKey ==
  \A k \in Keys :
    Cardinality({i \in 1..Len(jsonl) : jsonl[i] # Torn /\ jsonl[i].record = Intent(k)})
      <= IF k \in Legacy THEN 0 ELSE 1

\* What the readers of the file rely on, recovery first of all.
JournalSound == OnlyTornBlocks /\ OneIntentPerKey

\* The file implements the atomic log: what append acknowledged survives crashes
\* and losses of power in its place, and checks hold at the moment of the append.
Log == INSTANCE AtomicLog WITH log <- Intact(jsonl), sure <- sure
KeepsLog == Log!Spec
=============================================================================
