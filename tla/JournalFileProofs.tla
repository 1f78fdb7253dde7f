------------------------- MODULE JournalFileProofs -------------------------
(***************************************************************************)
(* Proofs about the journal's file: for any processes, tasks, keys and     *)
(* crashes its frames are the log that its callers rely on, with at most a *)
(* torn frame behind them.                                                 *)
(***************************************************************************)
EXTENDS JournalFile, FiniteSetTheorems, SequenceTheorems, TLAPS

-----------------------------------------------------------------------------
(* Records and frames.                                                     *)

\* Records of different kinds and keys differ.
LEMMA RecordIs ==
    /\ \A k \in Keys : Intent(k) \in Records /\ Outcome(k) \in Records
    /\ \A k : /\ Intent(k).kind = "intent" /\ Intent(k).key = k
              /\ Outcome(k).kind = "outcome" /\ Outcome(k).key = k
    /\ Note \in Records /\ Note.kind = "note"
    /\ \A j, k : Intent(j) # Outcome(k)
    /\ \A r \in Records : /\ r.kind = "intent" => r.key \in Keys /\ r = Intent(r.key)
                          /\ r.kind = "outcome" => r.key \in Keys /\ r = Outcome(r.key)
<1>1. /\ \A k \in Keys : Intent(k) \in Records /\ Outcome(k) \in Records
      /\ Note \in Records
  BY DEF Records
<1>2. /\ \A k : /\ Intent(k).kind = "intent" /\ Intent(k).key = k
                /\ Outcome(k).kind = "outcome" /\ Outcome(k).key = k
      /\ Note.kind = "note"
  BY DEF Intent, Outcome, Note
<1>3. \A r \in Records : \/ \E k \in Keys : r = Intent(k)
                         \/ \E k \in Keys : r = Outcome(k)
                         \/ r = Note
  BY DEF Records
<1>4. \A j, k : Intent(j) # Outcome(k)
  BY <1>2
<1> QED
  BY <1>1, <1>2, <1>3, <1>4

\* The fields of a composed frame.
LEMMA FrameIs ==
    ASSUME NEW rs \in Seq(Records), NEW r \in Records
    PROVE  /\ FrameOf(rs, r) \in Frames /\ FrameOf(rs, r) # Torn
           /\ FrameOf(rs, r).sequence = Len(rs) /\ FrameOf(rs, r).previous = rs
           /\ FrameOf(rs, r).record = r /\ FrameOf(rs, r).checksum = Append(rs, r)
<1>1. Len(rs) \in Nat /\ Append(rs, r) \in Seq(Records)
  OBVIOUS
<1>2. FrameOf(rs, r).sequence = Len(rs) /\ FrameOf(rs, r).previous = rs
      /\ FrameOf(rs, r).record = r /\ FrameOf(rs, r).checksum = Append(rs, r)
  BY DEF FrameOf
<1>3. FrameOf(rs, r) \in Frames
  BY <1>1 DEF FrameOf, Frames
<1>4. "record" \in DOMAIN FrameOf(rs, r) /\ "record" \notin DOMAIN Torn
  BY DEF FrameOf, Torn
<1> QED
  BY <1>2, <1>3, <1>4

-----------------------------------------------------------------------------
(* Prefixes of sequences.                                                  *)

Prefix(l, n) == SubSeq(l, 1, n)

LEMMA PrefixIs ==
    ASSUME NEW S, NEW l \in Seq(S), NEW n \in 0 .. Len(l)
    PROVE  /\ Prefix(l, n) \in Seq(S) /\ Len(Prefix(l, n)) = n
           /\ \A i \in 1 .. n : Prefix(l, n)[i] = l[i]
           /\ Prefix(l, 0) = <<>> /\ Prefix(l, Len(l)) = l
           /\ \A m \in 0 .. n : Prefix(Prefix(l, n), m) = Prefix(l, m)
           /\ \A x \in S : Prefix(Append(l, x), n) = Prefix(l, n)
           /\ n > 0 => Prefix(l, n) = Append(Prefix(l, n - 1), l[n])
<1>0. Len(l) \in Nat /\ \A i \in 1 .. Len(l) : l[i] \in S
  OBVIOUS
<1>1. ASSUME NEW k \in Seq(S), NEW m \in 0 .. Len(k)
      PROVE  /\ Prefix(k, m) \in Seq(S) /\ Len(Prefix(k, m)) = m
             /\ \A i \in 1 .. m : Prefix(k, m)[i] = k[i]
  <2>1. 1 \in 1 .. Len(k) + 1 /\ m \in 1 - 1 .. Len(k) /\ Len(k) \in Nat
    OBVIOUS
  <2>2. /\ Prefix(k, m) \in Seq(S)
        /\ Len(Prefix(k, m)) = IF 1 <= m THEN m - 1 + 1 ELSE 0
        /\ \A i \in 1 .. m - 1 + 1 : Prefix(k, m)[i] = k[1 + i - 1]
    BY <2>1, SubSeqProperties DEF Prefix
  <2> QED
    BY <2>1, <2>2
<1>2. Prefix(l, 0) = <<>>
  BY <1>0, <1>1, EmptySeq
<1>3. Prefix(l, Len(l)) = l
  BY <1>0, <1>1, SeqEqual
<1>4. ASSUME NEW m \in 0 .. n
      PROVE  Prefix(Prefix(l, n), m) = Prefix(l, m)
  <2>1. /\ Prefix(Prefix(l, n), m) \in Seq(S) /\ Len(Prefix(Prefix(l, n), m)) = m
        /\ \A i \in 1 .. m : Prefix(Prefix(l, n), m)[i] = Prefix(l, n)[i]
    BY <1>1
  <2>2. Prefix(l, m) \in Seq(S) /\ Len(Prefix(l, m)) = m /\ \A i \in 1 .. m : Prefix(l, m)[i] = l[i]
    BY <1>0, <1>1
  <2>3. \A i \in 1 .. m : Prefix(l, n)[i] = l[i]
    BY <1>0, <1>1
  <2> QED
    BY <2>1, <2>2, <2>3, SeqEqual
<1>5. ASSUME NEW x \in S
      PROVE  Prefix(Append(l, x), n) = Prefix(l, n)
  <2>1. Append(l, x) \in Seq(S) /\ Len(Append(l, x)) = Len(l) + 1
        /\ \A i \in 1 .. Len(l) : Append(l, x)[i] = l[i]
    BY AppendProperties
  <2>2. n \in 0 .. Len(Append(l, x))
    BY <1>0, <2>1
  <2>3. /\ Prefix(Append(l, x), n) \in Seq(S) /\ Len(Prefix(Append(l, x), n)) = n
        /\ \A i \in 1 .. n : Prefix(Append(l, x), n)[i] = Append(l, x)[i]
    BY <1>1, <2>1, <2>2
  <2>4. \A i \in 1 .. n : Append(l, x)[i] = l[i]
    BY <1>0, <2>1
  <2>5. Prefix(l, n) \in Seq(S) /\ Len(Prefix(l, n)) = n /\ \A i \in 1 .. n : Prefix(l, n)[i] = l[i]
    BY <1>1
  <2> QED
    BY <2>3, <2>4, <2>5, SeqEqual
<1>6. ASSUME n > 0
      PROVE  Prefix(l, n) = Append(Prefix(l, n - 1), l[n])
  <2>1. n - 1 \in 0 .. Len(l) /\ l[n] \in S /\ n \in Nat
    BY <1>0, <1>6
  <2>2. Prefix(l, n - 1) \in Seq(S) /\ Len(Prefix(l, n - 1)) = n - 1
        /\ \A i \in 1 .. n - 1 : Prefix(l, n - 1)[i] = l[i]
    BY <1>1, <2>1
  <2>3. /\ Append(Prefix(l, n - 1), l[n]) \in Seq(S)
        /\ Len(Append(Prefix(l, n - 1), l[n])) = n
        /\ \A i \in 1 .. n - 1 : Append(Prefix(l, n - 1), l[n])[i] = Prefix(l, n - 1)[i]
        /\ Append(Prefix(l, n - 1), l[n])[n] = l[n]
    BY <2>1, <2>2, AppendProperties
  <2>4. Prefix(l, n) \in Seq(S) /\ Len(Prefix(l, n)) = n /\ \A i \in 1 .. n : Prefix(l, n)[i] = l[i]
    BY <1>1
  <2>5. \A i \in 1 .. n : Append(Prefix(l, n - 1), l[n])[i] = l[i]
    BY <2>1, <2>2, <2>3
  <2> QED
    BY <2>3, <2>4, <2>5, SeqEqual
<1>7. Prefix(l, n) \in Seq(S) /\ Len(Prefix(l, n)) = n /\ \A i \in 1 .. n : Prefix(l, n)[i] = l[i]
  BY <1>1
<1> QED
  BY <1>2, <1>3, <1>4, <1>5, <1>6, <1>7

-----------------------------------------------------------------------------
(* The file and the log in it.                                             *)

\* The lines hold the records l, each in a frame over those before it, and at
\* most a torn frame behind them.
Holds(l, lines) ==
    /\ l \in Seq(Records)
    /\ lines \in Seq(Frames \cup {Torn})
    /\ Len(lines) \in {Len(l), Len(l) + 1}
    /\ \A i \in 1 .. Len(l) : lines[i] = FrameOf(Prefix(l, i - 1), l[i])
    /\ Len(lines) = Len(l) + 1 => lines[Len(lines)] = Torn

\* Such lines are valid up to the torn one.
LEMMA HoldsValid ==
    ASSUME NEW l, NEW lines, Holds(l, lines)
    PROVE  /\ \A i \in 1 .. Len(l) : Valid(lines, i) /\ lines[i] # Torn /\ lines[i].record = l[i]
           /\ Len(lines) = Len(l) + 1 => ~Valid(lines, Len(lines))
           /\ Len(l) \in Nat /\ Len(lines) \in Nat
<1>1. Len(l) \in Nat /\ Len(lines) \in Nat /\ \A i \in 1 .. Len(l) : l[i] \in Records
  BY DEF Holds
<1>2. ASSUME NEW i \in 1 .. Len(l)
      PROVE  /\ lines[i] # Torn /\ lines[i].record = l[i] /\ lines[i].sequence = i - 1
             /\ lines[i].previous = Prefix(l, i - 1) /\ lines[i].checksum = Prefix(l, i)
  <2>1. i - 1 \in 0 .. Len(l) /\ i \in 0 .. Len(l) /\ i > 0 /\ l[i] \in Records /\ l \in Seq(Records)
    BY <1>1 DEF Holds
  <2>2. Prefix(l, i - 1) \in Seq(Records) /\ Len(Prefix(l, i - 1)) = i - 1
        /\ Prefix(l, i) = Append(Prefix(l, i - 1), l[i])
    BY <2>1, PrefixIs
  <2>3. lines[i] = FrameOf(Prefix(l, i - 1), l[i])
    BY DEF Holds
  <2> QED
    BY <2>1, <2>2, <2>3, FrameIs
<1>3. ASSUME NEW i \in 1 .. Len(l)
      PROVE  Valid(lines, i)
  <2>1. CASE i = 1
    <3>1. Prefix(l, i - 1) = <<>>
      BY <1>1, <2>1, PrefixIs DEF Holds
    <3> QED
      BY <1>2, <2>1, <3>1 DEF Valid
  <2>2. CASE i # 1
    <3>1. i - 1 \in 1 .. Len(l)
      BY <1>1, <2>2
    <3> QED
      BY <1>2, <2>2, <3>1 DEF Valid
  <2> QED
    BY <2>1, <2>2
<1>4. Len(lines) = Len(l) + 1 => ~Valid(lines, Len(lines))
  BY DEF Holds, Valid
<1> QED
  BY <1>1, <1>2, <1>3, <1>4

\* What a reader makes of such lines.
LEMMA HoldsReads ==
    ASSUME NEW l, NEW lines, Holds(l, lines)
    PROVE  /\ Intact(lines) = l
           /\ Readable(lines) <=> Len(lines) = Len(l)
           /\ Len(lines) = Len(l) => RecordsIn(lines) = l
<1>1. /\ \A i \in 1 .. Len(l) : Valid(lines, i) /\ lines[i].record = l[i]
      /\ Len(lines) = Len(l) + 1 => ~Valid(lines, Len(lines))
      /\ Len(l) \in Nat /\ Len(lines) \in {Len(l), Len(l) + 1}
      /\ l \in Seq(Records) /\ lines \in Seq(Frames \cup {Torn})
  BY HoldsValid DEF Holds
<1>2. Readable(lines) <=> Len(lines) = Len(l)
  BY <1>1 DEF Readable
<1>3. ASSUME NEW k \in Seq(Frames \cup {Torn}), Len(k) = Len(l),
             \A i \in 1 .. Len(l) : k[i].record = l[i]
      PROVE  RecordsIn(k) = l
  <2>1. RecordsIn(k) = [i \in 1 .. Len(l) |-> l[i]]
    BY <1>3 DEF RecordsIn
  <2>2. l = [i \in 1 .. Len(l) |-> l[i]]
    BY <1>1
  <2> QED
    BY <2>1, <2>2
<1>4. Intact(lines) = l
  <2> DEFINE P(n) == /\ \A i \in 1 .. n : Valid(lines, i)
                     /\ n < Len(lines) => ~Valid(lines, n + 1)
  <2>1. Len(l) \in 0 .. Len(lines) /\ P(Len(l))
    BY <1>1
  <2>2. ASSUME NEW n \in 0 .. Len(lines), P(n)
        PROVE  n = Len(l)
    <3>1. CASE n < Len(l)
      <4>1. n + 1 \in 1 .. Len(l) /\ n < Len(lines)
        BY <1>1, <3>1
      <4> QED
        BY <1>1, <2>2, <4>1
    <3>2. CASE n > Len(l)
      <4>1. Len(lines) = Len(l) + 1 /\ Len(lines) \in 1 .. n
        BY <1>1, <3>2
      <4> QED
        BY <1>1, <2>2, <4>1
    <3> QED
      BY <1>1, <3>1, <3>2
  <2>3. (CHOOSE n \in 0 .. Len(lines) : P(n)) = Len(l)
    BY <2>1, <2>2
  <2>4. Intact(lines) = RecordsIn(Prefix(lines, Len(l)))
    BY <2>3 DEF Intact, Prefix
  <2>5. /\ Prefix(lines, Len(l)) \in Seq(Frames \cup {Torn}) /\ Len(Prefix(lines, Len(l))) = Len(l)
        /\ \A i \in 1 .. Len(l) : Prefix(lines, Len(l))[i] = lines[i]
    BY <1>1, <2>1, PrefixIs
  <2> QED
    BY <1>1, <1>3, <2>4, <2>5
<1>5. Len(lines) = Len(l) => RecordsIn(lines) = l
  BY <1>1, <1>3
<1> QED
  BY <1>2, <1>4, <1>5

\* Writing a frame that was composed over the log.
LEMMA HoldsGrows ==
    ASSUME NEW l, NEW lines, Holds(l, lines), Len(lines) = Len(l), NEW r \in Records
    PROVE  Holds(Append(l, r), Append(lines, FrameOf(l, r)))
<1>1. l \in Seq(Records) /\ lines \in Seq(Frames \cup {Torn}) /\ Len(l) \in Nat
      /\ \A i \in 1 .. Len(l) : lines[i] = FrameOf(Prefix(l, i - 1), l[i])
  BY DEF Holds
<1>2. FrameOf(l, r) \in Frames \cup {Torn}
  BY <1>1, FrameIs
<1>3. /\ Append(l, r) \in Seq(Records) /\ Len(Append(l, r)) = Len(l) + 1
      /\ Append(l, r)[Len(l) + 1] = r /\ \A i \in 1 .. Len(l) : Append(l, r)[i] = l[i]
  BY <1>1
<1> DEFINE new == Append(lines, FrameOf(l, r))
<1>4. /\ new \in Seq(Frames \cup {Torn}) /\ Len(new) = Len(l) + 1
      /\ new[Len(l) + 1] = FrameOf(l, r) /\ \A i \in 1 .. Len(l) : new[i] = lines[i]
  <2>1. \A x \in Frames \cup {Torn} :
           /\ Append(lines, x) \in Seq(Frames \cup {Torn}) /\ Len(Append(lines, x)) = Len(l) + 1
           /\ Append(lines, x)[Len(l) + 1] = x
           /\ \A i \in 1 .. Len(l) : Append(lines, x)[i] = lines[i]
    BY <1>1
  <2> QED
    BY <1>2, <2>1
<1> HIDE DEF new
<1>5. ASSUME NEW i \in 1 .. Len(l) + 1
      PROVE  new[i] = FrameOf(Prefix(Append(l, r), i - 1), Append(l, r)[i])
  <2>1. Prefix(Append(l, r), i - 1) = Prefix(l, i - 1)
    <3>1. \A n \in 0 .. Len(l) : Prefix(Append(l, r), n) = Prefix(l, n)
      BY <1>1, PrefixIs
    <3>2. i - 1 \in 0 .. Len(l)
      BY <1>1
    <3> QED
      BY <3>1, <3>2
  <2>2. CASE i \in 1 .. Len(l)
    BY <1>1, <1>3, <1>4, <2>1, <2>2
  <2>3. CASE i = Len(l) + 1
    <3>1. Prefix(l, i - 1) = l
      <4>1. i - 1 = Len(l) /\ Len(l) \in 0 .. Len(l)
        BY <1>1, <2>3
      <4> QED
        BY <1>1, <4>1, PrefixIs
    <3> QED
      BY <1>3, <1>4, <2>1, <2>3, <3>1
  <2> QED
    BY <1>1, <2>2, <2>3
<1>6. Holds(Append(l, r), new)
  BY <1>1, <1>3, <1>4, <1>5 DEF Holds
<1> QED
  BY <1>6 DEF new

\* A frame that is torn leaves the log as it is.
LEMMA HoldsTears ==
    ASSUME NEW l, NEW lines, Holds(l, lines), Len(lines) = Len(l)
    PROVE  Holds(l, Append(lines, Torn))
<1>1. l \in Seq(Records) /\ lines \in Seq(Frames \cup {Torn}) /\ Len(l) \in Nat
      /\ \A i \in 1 .. Len(l) : lines[i] = FrameOf(Prefix(l, i - 1), l[i])
  BY DEF Holds
<1>2. /\ Append(lines, Torn) \in Seq(Frames \cup {Torn}) /\ Len(Append(lines, Torn)) = Len(l) + 1
      /\ Append(lines, Torn)[Len(l) + 1] = Torn
      /\ \A i \in 1 .. Len(l) : Append(lines, Torn)[i] = lines[i]
  <2>1. \A x \in Frames \cup {Torn} :
           /\ Append(lines, x) \in Seq(Frames \cup {Torn}) /\ Len(Append(lines, x)) = Len(l) + 1
           /\ Append(lines, x)[Len(l) + 1] = x
           /\ \A i \in 1 .. Len(l) : Append(lines, x)[i] = lines[i]
    BY <1>1
  <2> QED
    BY <2>1
<1> QED
  BY <1>1, <1>2 DEF Holds

\* What is left of a file is what is left of its log.
LEMMA HoldsCut ==
    ASSUME NEW l, NEW lines, Holds(l, lines), NEW n \in 0 .. Len(lines)
    PROVE  /\ n <= Len(l) => Holds(Prefix(l, n), Prefix(lines, n)) /\ Len(Prefix(lines, n)) = n
                              /\ Len(Prefix(l, n)) = n
           /\ n > Len(l) => Prefix(lines, n) = lines
<1>1. l \in Seq(Records) /\ lines \in Seq(Frames \cup {Torn}) /\ Len(l) \in Nat
      /\ Len(lines) \in {Len(l), Len(l) + 1}
      /\ \A i \in 1 .. Len(l) : lines[i] = FrameOf(Prefix(l, i - 1), l[i])
  BY DEF Holds
<1>2. /\ Prefix(lines, n) \in Seq(Frames \cup {Torn}) /\ Len(Prefix(lines, n)) = n
      /\ \A i \in 1 .. n : Prefix(lines, n)[i] = lines[i]
      /\ Prefix(lines, Len(lines)) = lines
  BY <1>1, PrefixIs
<1>3. ASSUME n <= Len(l)
      PROVE  Holds(Prefix(l, n), Prefix(lines, n)) /\ Len(Prefix(l, n)) = n
  <2>1. n \in 0 .. Len(l)
    BY <1>1, <1>3
  <2>2. /\ Prefix(l, n) \in Seq(Records) /\ Len(Prefix(l, n)) = n
        /\ \A i \in 1 .. n : Prefix(l, n)[i] = l[i]
        /\ \A m \in 0 .. n : Prefix(Prefix(l, n), m) = Prefix(l, m)
    BY <1>1, <2>1, PrefixIs
  <2>3. ASSUME NEW i \in 1 .. n
        PROVE  Prefix(lines, n)[i] = FrameOf(Prefix(Prefix(l, n), i - 1), Prefix(l, n)[i])
    <3>1. i \in 1 .. Len(l) /\ i - 1 \in 0 .. n
      BY <2>1, <1>1
    <3> QED
      BY <1>1, <1>2, <2>2, <3>1
  <2> QED
    BY <1>2, <2>1, <2>2, <2>3 DEF Holds
<1>4. ASSUME n > Len(l)
      PROVE  Prefix(lines, n) = lines
  <2>1. n = Len(lines)
    BY <1>1, <1>4
  <2> QED
    BY <1>2, <2>1
<1> QED
  BY <1>2, <1>3, <1>4

-----------------------------------------------------------------------------
(* The invariant.                                                          *)

\* The log that the file holds, and whether a torn frame is behind it.
Kept  == Intact(jsonl)
Whole == Len(jsonl) = Len(Kept)

TypesOK ==
    /\ synced \in Nat /\ sure \in Nat
    /\ instance \in Procs \cup {Nobody}
    /\ writer \in [Procs -> Tasks \cup {Nobody}]
    /\ step \in [Tasks -> {"idle", "entering", "acquiring", "checking", "reentering",
                          "composing", "writing", "syncing", "done", "failed"}]
    /\ job \in [Tasks -> Records \cup {[kind |-> "none"]}]
    /\ frame \in [Tasks -> Frames \cup {NoFrame}]
    /\ count \in [calls : Nat, crashes : Nat, faults : Nat]
    /\ \A t \in Tasks : step[t] # "idle" => job[t] \in Records

\* Who holds which lock.
LocksOK ==
    /\ \A t \in Tasks : step[t] \in {"acquiring", "checking", "composing", "writing", "syncing"}
                           => writer[Proc(t)] = t
    /\ \A t \in Tasks : step[t] \in {"checking", "reentering", "composing", "writing", "syncing"}
                           => instance = Proc(t)

\* What a task between its checks and its acknowledgement knows of the file.
WriterOK ==
    \A t \in Tasks :
        /\ step[t] \in {"reentering", "composing", "writing"} => Permitted(Kept, job[t])
        /\ step[t] = "reentering" => job[t].kind = "outcome"
        /\ step[t] = "writing" => Whole /\ frame[t] = FrameOf(Kept, job[t])
        /\ step[t] = "syncing" => Whole /\ sure < Len(Kept)

\* What was acknowledged is on the disk.
SureOK == sure <= synced /\ synced <= Len(jsonl) /\ sure <= Len(Kept)

\* The operations that a task has reserved and has not completed.
Claims(t) ==
    {k \in Keys : \/ step[t] \in {"syncing", "done"} /\ job[t] = Intent(k)
                  \/ /\ step[t] \in {"entering", "acquiring", "checking", "reentering",
                                       "composing", "writing"}
                     /\ job[t] = Outcome(k)}

Completed(rs, k) == \E i \in 1 .. Len(rs) : rs[i] = Outcome(k)

\* Such an operation is in the log, open, and nobody else's.
ClaimsOK ==
    /\ \A t \in Tasks : \A k \in Claims(t) : Reserved(Kept, k) /\ ~Completed(Kept, k)
    /\ \A t, u \in Tasks : \A k \in Claims(t) : k \in Claims(u) => t = u

\* A key is reserved once, and not if an older release did it; an outcome
\* stands behind its reservation.
KeysOK ==
    \A k \in Keys : \A i \in 1 .. Len(Kept) :
        /\ Kept[i] = Intent(k) => k \notin Legacy
        /\ \A j \in 1 .. Len(Kept) : Kept[i] = Intent(k) /\ Kept[j] = Intent(k) => i = j
        /\ Kept[i] = Outcome(k) => \E j \in 1 .. i : Kept[j] = Intent(k)

JournalInv ==
    /\ Holds(Kept, jsonl)
    /\ TypesOK /\ LocksOK /\ WriterOK /\ SureOK /\ ClaimsOK /\ KeysOK

\* A task belongs to a process; nobody is neither.
LEMMA TaskIs ==
    /\ \A t \in Tasks : Proc(t) \in Procs /\ t # Nobody
    /\ Nobody \notin Procs
BY NobodyAssumption DEF NobodyAssumption, Tasks, Proc

\* The two locks let one task at a time check, compose and write.
LEMMA WriterIsAlone ==
    ASSUME LocksOK, NEW t \in Tasks, NEW u \in Tasks,
           step[t] \in {"checking", "composing", "writing", "syncing"},
           step[u] \in {"checking", "composing", "writing", "syncing"}
    PROVE  t = u
BY DEF LocksOK

LEMMA LocksStep ==
    ASSUME TypesOK, LocksOK, JournalNext
    PROVE  LocksOK'
<1> USE TaskIs DEF TypesOK, LocksOK, StepTo, EndCall
<1>1. ASSUME NEW t \in Tasks, BeginCall(t) \/ Enter(t) \/ Reenter(t)
      PROVE  LocksOK'
  BY <1>1 DEF BeginCall, Enter, Reenter
<1>2. ASSUME NEW t \in Tasks, Acquire(t)
      PROVE  LocksOK'
  BY <1>2 DEF Acquire
<1>3. ASSUME NEW t \in Tasks, Check(t)
      PROVE  LocksOK'
  BY <1>3 DEF Check
<1>4. ASSUME NEW t \in Tasks, Compose(t)
      PROVE  LocksOK'
  BY <1>4 DEF Compose
<1>5. ASSUME NEW t \in Tasks, Write(t) \/ Sync(t) \/ AppendFails(t) \/ ReturnCall(t)
      PROVE  LocksOK'
  BY <1>5 DEF Write, Sync, AppendFails, ReturnCall
<1>6. ASSUME NEW P \in SUBSET Procs, Die(P)
      PROVE  LocksOK'
  BY <1>6 DEF Die
<1> QED
  BY <1>1, <1>2, <1>3, <1>4, <1>5, <1>6 DEF JournalNext, Call, Crash, PowerLoss

-----------------------------------------------------------------------------
(* How a step changes the log.                                             *)

Grows(t) == /\ jsonl' = Append(jsonl, frame[t]) /\ Write(t)
            /\ Kept' = Append(Kept, job[t]) /\ Len(Kept') = Len(Kept) + 1
            /\ Len(jsonl') = Len(Kept') /\ job[t] \in Records
            /\ Permitted(Kept, job[t])

Tears(t) == /\ Kept' = Kept /\ Len(jsonl') = Len(Kept) + 1 /\ Len(jsonl') = Len(jsonl) + 1
            /\ step[t] = "writing" /\ step'[t] \in {"failed", "idle"}

Shrinks == \E m \in sure .. Len(Kept) :
    /\ Kept' = Prefix(Kept, m) /\ Len(Kept') = m
    /\ Len(jsonl') \in {m, m + 1} /\ synced' = Len(jsonl')

LEMMA WriteGrows ==
    ASSUME JournalInv, NEW t \in Tasks, Write(t)
    PROVE  Holds(Kept, jsonl)' /\ Grows(t)
<1>1. step[t] = "writing" /\ jsonl' = Append(jsonl, frame[t])
  BY DEF Write
<1>2. Len(jsonl) = Len(Kept) /\ frame[t] = FrameOf(Kept, job[t]) /\ job[t] \in Records
      /\ Permitted(Kept, job[t]) /\ Holds(Kept, jsonl)
  BY <1>1 DEF JournalInv, WriterOK, Whole, TypesOK
<1>3. Holds(Append(Kept, job[t]), jsonl')
  BY <1>1, <1>2, HoldsGrows
<1>4. Kept' = Append(Kept, job[t])
  BY <1>3, HoldsReads DEF Kept
<1>5. Kept \in Seq(Records) /\ jsonl \in Seq(Frames \cup {Torn}) /\ frame[t] \in Frames \cup {Torn}
  BY <1>2, FrameIs DEF Holds
<1>6. Len(Append(Kept, job[t])) = Len(Kept) + 1 /\ Len(jsonl') = Len(jsonl) + 1
  BY <1>1, <1>2, <1>5, AppendProperties
<1> QED
  BY <1>1, <1>2, <1>3, <1>4, <1>6 DEF Grows

LEMMA TearTears ==
    ASSUME JournalInv, NEW t \in Tasks, step[t] = "writing", step'[t] \in {"failed", "idle"},
           jsonl' = Append(jsonl, Torn)
    PROVE  Holds(Kept, jsonl)' /\ Tears(t)
<1>1. Len(jsonl) = Len(Kept) /\ Holds(Kept, jsonl)
  BY DEF JournalInv, WriterOK, Whole
<1>2. Holds(Kept, jsonl')
  BY <1>1, HoldsTears
<1>3. Kept' = Kept
  BY <1>2, HoldsReads DEF Kept
<1>4. jsonl \in Seq(Frames \cup {Torn}) /\ Len(jsonl) \in Nat
  BY <1>1 DEF Holds
<1>5. Len(jsonl') = Len(jsonl) + 1
  BY <1>4, AppendProperties
<1> QED
  BY <1>1, <1>2, <1>3, <1>5 DEF Tears

LEMMA PowerLossShrinks ==
    ASSUME JournalInv, PowerLoss
    PROVE  Holds(Kept, jsonl)' /\ Shrinks
<1>1. PICK n \in synced .. Len(jsonl) :
         /\ \/ jsonl' = Prefix(jsonl, n)
            \/ n < Len(jsonl) /\ jsonl' = Append(Prefix(jsonl, n), Torn)
         /\ synced' = Len(jsonl')
  BY DEF PowerLoss, Prefix
<1>2. Holds(Kept, jsonl) /\ Len(Kept) \in Nat /\ Len(jsonl) \in Nat
      /\ Len(jsonl) \in {Len(Kept), Len(Kept) + 1}
      /\ sure \in Nat /\ synced \in Nat /\ sure <= synced /\ sure <= Len(Kept)
  BY DEF JournalInv, Holds, TypesOK, SureOK
<1>3. n \in 0 .. Len(jsonl) /\ sure <= n
  BY <1>2
<1>4. CASE n > Len(Kept)
  <2>1. Prefix(jsonl, n) = jsonl /\ n = Len(jsonl)
    BY <1>2, <1>3, <1>4, HoldsCut
  <2>2. jsonl' = jsonl
    BY <1>1, <2>1
  <2>3. Kept' = Kept
    BY <2>2 DEF Kept
  <2>4. Prefix(Kept, Len(Kept)) = Kept
    BY <1>2, PrefixIs DEF Holds
  <2>5. Len(Kept) \in sure .. Len(Kept)
    BY <1>2
  <2> QED
    BY <1>1, <1>2, <2>2, <2>3, <2>4, <2>5 DEF Shrinks
<1>5. CASE n <= Len(Kept)
  <2>1. Holds(Prefix(Kept, n), Prefix(jsonl, n)) /\ Len(Prefix(jsonl, n)) = n /\ Len(Prefix(Kept, n)) = n
    BY <1>2, <1>3, <1>5, HoldsCut
  <2>2. Holds(Prefix(Kept, n), Append(Prefix(jsonl, n), Torn))
    BY <2>1, HoldsTears
  <2>3. Len(Append(Prefix(jsonl, n), Torn)) = n + 1
    BY <2>1, AppendProperties DEF Holds
  <2>4. Holds(Prefix(Kept, n), jsonl') /\ Len(jsonl') \in {n, n + 1}
    BY <1>1, <2>1, <2>2, <2>3
  <2>5. Kept' = Prefix(Kept, n)
    BY <2>4, HoldsReads DEF Kept
  <2>6. n \in sure .. Len(Kept)
    BY <1>2, <1>3, <1>5
  <2> QED
    BY <1>1, <2>1, <2>4, <2>5, <2>6 DEF Shrinks
<1> QED
  BY <1>2, <1>3, <1>4, <1>5

LEMMA LogMoves ==
    ASSUME JournalInv, JournalNext
    PROVE  /\ Holds(Kept, jsonl)'
           /\ \/ jsonl' = jsonl /\ Kept' = Kept
              \/ \E t \in Tasks : Grows(t)
              \/ \E t \in Tasks : Tears(t) /\ UNCHANGED <<synced, sure>>
              \/ PowerLoss /\ Shrinks
<1>0. Holds(Kept, jsonl)
  BY DEF JournalInv
<1>1. ASSUME jsonl' = jsonl
      PROVE  Holds(Kept, jsonl)' /\ Kept' = Kept
  <2>1. Kept' = Kept
    BY <1>1 DEF Kept
  <2> QED
    BY <1>0, <1>1, <2>1
<1>2. ASSUME NEW t \in Tasks, AppendFails(t), jsonl' # jsonl
      PROVE  Holds(Kept, jsonl)' /\ Tears(t) /\ UNCHANGED <<synced, sure>>
  <2>1. step[t] = "writing" /\ step'[t] \in {"failed", "idle"} /\ jsonl' = Append(jsonl, Torn)
        /\ UNCHANGED <<synced, sure>>
    BY <1>2 DEF AppendFails, EndCall, StepTo, JournalInv, TypesOK
  <2> QED
    BY <2>1, TearTears
<1>3. ASSUME NEW p \in Procs, Crash(p), jsonl' # jsonl
      PROVE  Holds(Kept, jsonl)' /\ \E t \in Tasks : Tears(t) /\ UNCHANGED <<synced, sure>>
  <2>1. PICK t \in Tasks : Proc(t) = p /\ step[t] = "writing"
    BY <1>3 DEF Crash
  <2>2. step'[t] = "idle" /\ jsonl' = Append(jsonl, Torn) /\ UNCHANGED <<synced, sure>>
    BY <1>3, <2>1 DEF Crash, Die
  <2> QED
    BY <2>1, <2>2, TearTears
<1>4. ASSUME NEW t \in Tasks, Call(t), ~AppendFails(t), ~Write(t)
      PROVE  jsonl' = jsonl
  BY <1>4 DEF Call, BeginCall, Enter, Acquire, Check, Reenter, Compose, Sync, ReturnCall
<1> QED
  BY <1>1, <1>2, <1>3, <1>4, WriteGrows, PowerLossShrinks DEF JournalNext, Call

-----------------------------------------------------------------------------
(* Every step keeps the invariant.                                         *)

LEMMA ReadIsKept ==
    ASSUME Holds(Kept, jsonl)
    PROVE  /\ Readable(jsonl) <=> Whole
           /\ Whole => RecordsIn(jsonl) = Kept
           /\ Kept \in Seq(Records) /\ Len(Kept) \in Nat /\ Len(jsonl) \in Nat
BY HoldsReads DEF Whole, Holds

LEMMA TypesStep ==
    ASSUME JournalInv, JournalNext
    PROVE  TypesOK'
<1> USE TaskIs DEF TypesOK, StepTo, EndCall
<1>0. TypesOK /\ Holds(Kept, jsonl) /\ Holds(Kept, jsonl)' /\ Len(jsonl) \in Nat /\ Len(jsonl') \in Nat
      /\ [kind |-> "none"] \in Records \cup {[kind |-> "none"]} /\ NoFrame \in Frames \cup {NoFrame}
  BY LogMoves DEF JournalInv, Holds
<1>1. ASSUME NEW t \in Tasks, BeginCall(t)
      PROVE  TypesOK'
  <2>1. job' \in [Tasks -> Records \cup {[kind |-> "none"]}] /\ job'[t] \in Records
        /\ \A u \in Tasks \ {t} : job'[u] = job[u]
    <3>1. PICK r : r \in Records /\ job' = [job EXCEPT ![t] = r]
      <4>1. CASE step[t] = "done" /\ job[t].kind = "intent" /\ job' = [job EXCEPT ![t] = Outcome(job[t].key)]
        <5>1. job[t] \in Records
          BY <1>0, <4>1
        <5>2. Outcome(job[t].key) \in Records
          BY <4>1, <5>1, RecordIs
        <5> QED
          BY <4>1, <5>2
      <4>2. CASE \E r \in {Intent(k) : k \in Keys} \cup {Note} : job' = [job EXCEPT ![t] = r]
        <5>1. \A r \in {Intent(k) : k \in Keys} \cup {Note} : r \in Records
          BY RecordIs
        <5> QED
          BY <4>2, <5>1
      <4> QED
        BY <1>1, <4>1, <4>2 DEF BeginCall
    <3> QED
      BY <1>0, <3>1
  <2>2. count' \in [calls : Nat, crashes : Nat, faults : Nat]
    BY <1>0, <1>1 DEF BeginCall
  <2> QED
    BY <1>0, <1>1, <2>1, <2>2 DEF BeginCall
<1>2. ASSUME NEW t \in Tasks, Enter(t) \/ Acquire(t) \/ Check(t) \/ Reenter(t)
      PROVE  TypesOK'
  BY <1>0, <1>2 DEF Enter, Acquire, Check, Reenter
<1>3. ASSUME NEW t \in Tasks, Compose(t)
      PROVE  TypesOK'
  <2>1. Readable(jsonl) => FrameOf(RecordsIn(jsonl), job[t]) \in Frames
    BY <1>0, <1>3, ReadIsKept, FrameIs DEF Compose
  <2> QED
    BY <1>0, <1>3, <2>1 DEF Compose
<1>4. ASSUME NEW t \in Tasks, Write(t) \/ Sync(t) \/ ReturnCall(t)
      PROVE  TypesOK'
  BY <1>0, <1>4 DEF Write, Sync, ReturnCall
<1>5. ASSUME NEW t \in Tasks, AppendFails(t)
      PROVE  TypesOK'
  <2>1. count' \in [calls : Nat, crashes : Nat, faults : Nat]
    BY <1>0, <1>5 DEF AppendFails
  <2> QED
    BY <1>0, <1>5, <2>1 DEF AppendFails
<1>6. ASSUME NEW P \in SUBSET Procs, Die(P), synced' \in Nat, sure' = sure
      PROVE  TypesOK'
  <2>1. count' \in [calls : Nat, crashes : Nat, faults : Nat]
    BY <1>0, <1>6 DEF Die
  <2> QED
    BY <1>0, <1>6, <2>1 DEF Die
<1>7. ASSUME PowerLoss
      PROVE  synced' = Len(jsonl') /\ sure' = sure /\ Die(Procs)
  BY <1>7 DEF PowerLoss
<1>8. ASSUME NEW p \in Procs, Crash(p)
      PROVE  synced' = synced /\ sure' = sure /\ Die({p})
  BY <1>8 DEF Crash
<1> QED
  BY <1>0, <1>1, <1>2, <1>3, <1>4, <1>5, <1>6, <1>7, <1>8 DEF JournalNext, Call

\* A longer log has what a shorter one has.
LEMMA AppendHas ==
    ASSUME NEW l \in Seq(Records), NEW r \in Records
    PROVE  /\ Append(l, r) \in Seq(Records) /\ Len(Append(l, r)) = Len(l) + 1 /\ Len(l) \in Nat
           /\ Append(l, r)[Len(l) + 1] = r /\ \A i \in 1 .. Len(l) : Append(l, r)[i] = l[i]
           /\ \A k : Reserved(Append(l, r), k) <=> Reserved(l, k) \/ r = Intent(k)
           /\ \A k : Completed(Append(l, r), k) <=> Completed(l, k) \/ r = Outcome(k)
<1>1. /\ Append(l, r) \in Seq(Records) /\ Len(Append(l, r)) = Len(l) + 1 /\ Len(l) \in Nat
      /\ Append(l, r)[Len(l) + 1] = r /\ \A i \in 1 .. Len(l) : Append(l, r)[i] = l[i]
  OBVIOUS
<1>2. \A i \in 1 .. Len(l) + 1 : i \in 1 .. Len(l) \/ i = Len(l) + 1
  BY <1>1
<1>3. Len(l) + 1 \in 1 .. Len(l) + 1 /\ 1 .. Len(l) \subseteq 1 .. Len(l) + 1
  BY <1>1
<1> QED
  BY <1>1, <1>2, <1>3 DEF Reserved, Completed

LEMMA WriterStep ==
    ASSUME JournalInv, JournalNext
    PROVE  WriterOK'
<1> USE DEF WriterOK
<1>0. /\ Holds(Kept, jsonl) /\ Holds(Kept, jsonl)' /\ TypesOK /\ LocksOK /\ WriterOK /\ SureOK
      /\ Kept \in Seq(Records) /\ Len(Kept) \in Nat
  BY LogMoves, ReadIsKept DEF JournalInv
<1>1. ASSUME jsonl' = jsonl, Kept' = Kept
      PROVE  WriterOK'
  <2>0. Whole' <=> Whole
    BY <1>1 DEF Whole
  <2>1. ASSUME NEW t \in Tasks, BeginCall(t) \/ Enter(t) \/ Acquire(t) \/ Reenter(t) \/ ReturnCall(t)
                               \/ AppendFails(t)
        PROVE  WriterOK'
    BY <1>0, <1>1, <2>0, <2>1 DEF BeginCall, Enter, Acquire, Reenter, ReturnCall, AppendFails, EndCall, StepTo, TypesOK
  <2>2. ASSUME NEW t \in Tasks, Check(t)
        PROVE  WriterOK'
    <3>1. step'[t] \in {"reentering", "composing"} => Permitted(Kept, job[t])
      BY <1>0, <2>2, ReadIsKept DEF Check, EndCall, StepTo, TypesOK
    <3> QED
      BY <1>0, <1>1, <2>0, <2>2, <3>1 DEF Check, EndCall, StepTo, TypesOK
  <2>3. ASSUME NEW t \in Tasks, Compose(t)
        PROVE  WriterOK'
    <3>1. step'[t] \in {"writing", "failed"}
          /\ (step'[t] = "writing" => Whole /\ frame'[t] = FrameOf(Kept, job[t]))
      BY <1>0, <2>3, ReadIsKept DEF Compose, EndCall, StepTo, TypesOK
    <3>2. \A u \in Tasks \ {t} : step'[u] = step[u] /\ frame'[u] = frame[u]
      BY <1>0, <2>3 DEF Compose, EndCall, StepTo, TypesOK
    <3>3. job' = job /\ sure' = sure /\ step[t] = "composing"
      BY <2>3 DEF Compose
    <3> QED
      BY <1>0, <1>1, <2>0, <3>1, <3>2, <3>3
  <2>4. ASSUME NEW t \in Tasks, Sync(t)
        PROVE  WriterOK'
    <3>1. \A u \in Tasks \ {t} : step'[u] = step[u] /\ step[u] # "syncing"
      BY <1>0, <2>4, WriterIsAlone DEF Sync, EndCall, StepTo, TypesOK
    <3>2. step'[t] = "done" /\ UNCHANGED <<job, frame>>
      BY <1>0, <2>4 DEF Sync, EndCall, StepTo, TypesOK
    <3> QED
      BY <1>0, <1>1, <2>0, <3>1, <3>2
  <2>5. ASSUME NEW t \in Tasks, Write(t)
        PROVE  FALSE
    BY <1>0, <1>1, <2>5, WriteGrows DEF Grows
  <2>6. ASSUME NEW P \in SUBSET Procs, Die(P), sure' = sure
        PROVE  WriterOK'
    BY <1>0, <1>1, <2>0, <2>6 DEF Die, TypesOK
  <2> QED
    BY <2>1, <2>2, <2>3, <2>4, <2>5, <2>6 DEF JournalNext, Call, Crash, PowerLoss
<1>2. ASSUME NEW t \in Tasks, Grows(t)
      PROVE  WriterOK'
  <2>1. step[t] = "writing" /\ step' = [step EXCEPT ![t] = "syncing"] /\ UNCHANGED <<job, frame, sure>>
    BY <1>2 DEF Grows, Write, StepTo
  <2>2. Whole' /\ sure' < Len(Kept')
    BY <1>0, <1>2, <2>1 DEF Grows, Whole, SureOK, TypesOK
  <2>3. ASSUME NEW u \in Tasks, u # t
        PROVE  step'[u] = step[u] /\ step[u] \notin {"checking", "composing", "writing", "syncing"}
    BY <1>0, <2>1, <2>3, WriterIsAlone DEF TypesOK
  <2>4. ASSUME NEW u \in Tasks, step[u] = "reentering"
        PROVE  Permitted(Kept, job[u])'
    <3>1. Permitted(Kept, job[u]) /\ job[u].kind = "outcome" /\ job'[u] = job[u]
      BY <1>0, <2>1, <2>4
    <3>2. \A k : Reserved(Kept, k) => Reserved(Kept', k)
      BY <1>0, <1>2, AppendHas DEF Grows
    <3> QED
      BY <3>1, <3>2 DEF Permitted
  <2> QED
    BY <1>0, <2>1, <2>2, <2>3, <2>4 DEF TypesOK
<1>3. ASSUME NEW t \in Tasks, Tears(t), UNCHANGED <<synced, sure>>
      PROVE  WriterOK'
  <2>1. \A u \in Tasks : step[u] \in {"checking", "composing", "writing", "syncing"} => u = t
    BY <1>0, <1>3, WriterIsAlone DEF Tears
  <2>2. jsonl' # jsonl /\ step[t] = "writing" /\ Kept' = Kept
    BY <1>0, <1>3, ReadIsKept DEF Tears
  <2>3. \A u \in Tasks : step'[u] \in {"reentering", "composing", "writing", "syncing"}
                          => step'[u] = step[u] /\ job'[u] = job[u] /\ step[u] = "reentering"
    <3>1. ASSUME NEW v \in Tasks, Call(v)
          PROVE  AppendFails(v) \/ Write(v)
      BY <2>2, <3>1 DEF Call, BeginCall, Enter, Acquire, Check, Reenter, Compose, Sync, ReturnCall
    <3>2. ASSUME NEW v \in Tasks, Write(v)
          PROVE  FALSE
      BY <1>0, <2>2, <3>2, WriteGrows DEF Grows
    <3>3. ASSUME NEW v \in Tasks, AppendFails(v)
          PROVE  /\ \A u \in Tasks : step'[u] = step[u] \/ step'[u] = "failed"
                 /\ job' = job
      BY <1>0, <3>3 DEF AppendFails, EndCall, StepTo, TypesOK
    <3>4. ASSUME NEW P \in SUBSET Procs, Die(P)
          PROVE  \A u \in Tasks : \/ step'[u] = step[u] /\ job'[u] = job[u]
                                  \/ step'[u] = "idle"
      BY <3>4 DEF Die
    <3>5. \A u \in Tasks : \/ step'[u] = step[u] /\ job'[u] = job[u]
                           \/ step'[u] \in {"failed", "idle"}
      BY <3>1, <3>2, <3>3, <3>4 DEF JournalNext, Crash, PowerLoss
    <3> QED
      BY <1>3, <2>1, <3>5 DEF Tears
  <2> QED
    BY <1>0, <2>2, <2>3
<1>4. ASSUME PowerLoss
      PROVE  WriterOK'
  BY <1>4, TaskIs DEF PowerLoss, Die
<1> QED
  BY <1>1, <1>2, <1>3, <1>4, LogMoves

LEMMA SureStep ==
    ASSUME JournalInv, JournalNext
    PROVE  SureOK'
<1>0. /\ Holds(Kept, jsonl) /\ Holds(Kept, jsonl)' /\ TypesOK /\ LocksOK /\ WriterOK /\ SureOK
      /\ Len(Kept) \in Nat /\ Len(jsonl) \in Nat
  BY LogMoves, ReadIsKept DEF JournalInv
<1>1. ASSUME jsonl' = jsonl, Kept' = Kept
      PROVE  SureOK'
  <2>1. ASSUME NEW t \in Tasks, Sync(t)
        PROVE  SureOK'
    <3>1. Len(jsonl) = Len(Kept) /\ synced' = Len(jsonl) /\ sure' = Len(jsonl)
      BY <1>0, <2>1 DEF Sync, WriterOK, Whole
    <3> QED
      BY <1>0, <1>1, <3>1 DEF SureOK
  <2>2. ASSUME PowerLoss
        PROVE  SureOK'
    <3>1. synced' = Len(jsonl) /\ sure' = sure
      BY <1>1, <2>2 DEF PowerLoss
    <3> QED
      BY <1>0, <1>1, <3>1 DEF SureOK, TypesOK
  <2>3. ASSUME UNCHANGED <<synced, sure>>
        PROVE  SureOK'
    BY <1>0, <1>1, <2>3 DEF SureOK
  <2>4. ASSUME NEW t \in Tasks, Call(t), ~Sync(t)
        PROVE  UNCHANGED <<synced, sure>>
    BY <2>4 DEF Call, BeginCall, Enter, Acquire, Check, Reenter, Compose, Write, AppendFails, ReturnCall
  <2> QED
    BY <2>1, <2>2, <2>3, <2>4 DEF JournalNext, Crash
<1>2. ASSUME NEW t \in Tasks, Grows(t)
      PROVE  SureOK'
  <2>1. UNCHANGED <<synced, sure>> /\ Len(Kept') = Len(Kept) + 1 /\ Len(jsonl') = Len(Kept')
        /\ Len(jsonl) = Len(Kept)
    BY <1>0, <1>2 DEF Grows, Write, WriterOK, Whole
  <2> QED
    BY <1>0, <2>1 DEF SureOK, TypesOK
<1>3. ASSUME NEW t \in Tasks, Tears(t), UNCHANGED <<synced, sure>>
      PROVE  SureOK'
  BY <1>0, <1>3 DEF SureOK, TypesOK, Tears
<1>4. ASSUME PowerLoss, Shrinks
      PROVE  SureOK'
  <2>1. sure' = sure
    BY <1>4 DEF PowerLoss
  <2> QED
    BY <1>0, <1>4, <2>1 DEF SureOK, TypesOK, Shrinks
<1> QED
  BY <1>1, <1>2, <1>3, <1>4, LogMoves

\* Only the write of an intent makes a claim.
LEMMA ClaimsFall ==
    ASSUME JournalInv, JournalNext, \A t \in Tasks : ~Write(t), NEW u \in Tasks
    PROVE  Claims(u)' \subseteq Claims(u)
<1>0. TypesOK
  BY DEF JournalInv
<1>1. ASSUME step'[u] = step[u], job'[u] = job[u]
      PROVE  Claims(u)' \subseteq Claims(u)
  BY <1>1 DEF Claims
<1>2. ASSUME step'[u] \in {"idle", "failed"}
      PROVE  Claims(u)' \subseteq Claims(u)
  BY <1>2 DEF Claims
<1>3. ASSUME NEW t \in Tasks, Call(t), t # u
      PROVE  step'[u] = step[u] /\ job'[u] = job[u]
  BY <1>0, <1>3 DEF Call, BeginCall, Enter, Acquire, Check, Reenter, Compose, Write, Sync,
                    AppendFails, ReturnCall, EndCall, StepTo, TypesOK
<1>4. ASSUME BeginCall(u)
      PROVE  Claims(u)' \subseteq Claims(u)
  <2>1. step'[u] = "entering"
    BY <1>0, <1>4 DEF BeginCall, StepTo, TypesOK
  <2>2. CASE step[u] = "done" /\ job[u].kind = "intent" /\ job' = [job EXCEPT ![u] = Outcome(job[u].key)]
    <3>1. job'[u] = Outcome(job[u].key) /\ job[u] = Intent(job[u].key)
      BY <1>0, <2>2, RecordIs DEF TypesOK
    <3>2. ASSUME NEW k \in Keys, job'[u] = Outcome(k)
          PROVE  job[u] = Intent(k)
      <4>1. Outcome(k).key = k /\ Outcome(job[u].key).key = job[u].key
        BY RecordIs
      <4>2. k = job[u].key
        BY <3>1, <3>2, <4>1
      <4> QED
        BY <3>1, <4>2
    <3> QED
      BY <2>1, <2>2, <3>2 DEF Claims
  <2>3. CASE \E r \in {Intent(k) : k \in Keys} \cup {Note} : job' = [job EXCEPT ![u] = r]
    <3>1. PICK r \in {Intent(k) : k \in Keys} \cup {Note} : job' = [job EXCEPT ![u] = r]
      BY <2>3
    <3>2. r.kind # "outcome"
      BY <3>1, RecordIs
    <3>3. job'[u] = r
      BY <1>0, <3>1 DEF TypesOK
    <3>4. \A k \in Keys : job'[u] # Outcome(k)
      BY <3>2, <3>3, RecordIs
    <3> QED
      BY <2>1, <3>4 DEF Claims
  <2> QED
    BY <1>4, <2>2, <2>3 DEF BeginCall
<1>5. ASSUME Enter(u) \/ Acquire(u) \/ Check(u) \/ Reenter(u) \/ Compose(u) \/ Sync(u) \/ AppendFails(u)
      PROVE  Claims(u)' \subseteq Claims(u)
  <2>1. job'[u] = job[u]
    BY <1>5 DEF Enter, Acquire, Check, Reenter, Compose, Sync, AppendFails
  <2>2. \/ step'[u] = "failed"
        \/ step[u] = "syncing" /\ step'[u] = "done"
        \/ /\ step[u] \in {"entering", "acquiring", "checking", "reentering", "composing"}
           /\ step'[u] \in {"acquiring", "checking", "reentering", "composing", "writing"}
    BY <1>0, <1>5 DEF Enter, Acquire, Check, Reenter, Compose, Sync, AppendFails, EndCall, StepTo, TypesOK
  <2> QED
    BY <2>1, <2>2 DEF Claims
<1>6. ASSUME ReturnCall(u)
      PROVE  step'[u] = "idle"
  BY <1>0, <1>6 DEF ReturnCall, StepTo, TypesOK
<1>7. ASSUME NEW P \in SUBSET Procs, Die(P)
      PROVE  \/ step'[u] = "idle"
             \/ step'[u] = step[u] /\ job'[u] = job[u]
  <2>1. CASE Proc(u) \in P
    BY <1>7, <2>1 DEF Die
  <2>2. CASE Proc(u) \notin P
    BY <1>7, <2>2 DEF Die
  <2> QED
    BY <2>1, <2>2
<1>8. ASSUME Call(u)
      PROVE  Claims(u)' \subseteq Claims(u)
  BY <1>2, <1>4, <1>5, <1>6, <1>8 DEF Call
<1> QED
  BY <1>1, <1>2, <1>3, <1>7, <1>8 DEF JournalNext, Crash, PowerLoss

LEMMA ClaimsStep ==
    ASSUME JournalInv, JournalNext
    PROVE  ClaimsOK'
<1>0. /\ TypesOK /\ LocksOK /\ WriterOK /\ ClaimsOK /\ KeysOK /\ Holds(Kept, jsonl)
      /\ Kept \in Seq(Records) /\ Len(Kept) \in Nat
  BY ReadIsKept DEF JournalInv
<1>1. ASSUME \A t \in Tasks : ~Write(t), Kept' = Kept
      PROVE  ClaimsOK'
  <2>1. \A u \in Tasks : Claims(u)' \subseteq Claims(u)
    BY <1>1, ClaimsFall
  <2> QED
    BY <1>0, <1>1, <2>1 DEF ClaimsOK
<1>2. ASSUME NEW t \in Tasks, Write(t)
      PROVE  ClaimsOK'
  <2>1. Kept' = Append(Kept, job[t]) /\ job[t] \in Records /\ Permitted(Kept, job[t])
    BY <1>2, WriteGrows DEF Grows
  <2>2. step[t] = "writing" /\ step' = [step EXCEPT ![t] = "syncing"] /\ job' = job
    BY <1>2 DEF Write, StepTo
  <2>3. ASSUME NEW u \in Tasks, u # t
        PROVE  Claims(u)' = Claims(u)
    BY <1>0, <2>2, <2>3 DEF Claims, TypesOK
  <2>4. \A k \in Keys : /\ k \in Claims(t)' <=> job[t] = Intent(k)
                        /\ k \in Claims(t) <=> job[t] = Outcome(k)
    BY <1>0, <2>2 DEF Claims, TypesOK
  <2>5. Claims(t)' \subseteq Keys /\ \A u \in Tasks : Claims(u) \subseteq Keys
    BY DEF Claims
  <2>6. ASSUME NEW k \in Keys, job[t] = Intent(k)
        PROVE  ~Reserved(Kept, k) /\ ~Completed(Kept, k)
    <3>1. job[t].kind = "intent" /\ job[t].key = k
      BY <2>6, RecordIs
    <3>2. ~Reserved(Kept, k)
      BY <2>1, <3>1 DEF Permitted
    <3>3. ASSUME NEW i \in 1 .. Len(Kept), Kept[i] = Outcome(k)
          PROVE  Reserved(Kept, k)
      <4>1. PICK j \in 1 .. i : Kept[j] = Intent(k)
        BY <1>0, <3>3 DEF KeysOK
      <4>2. j \in 1 .. Len(Kept)
        BY <1>0, <4>1
      <4> QED
        BY <4>1, <4>2 DEF Reserved
    <3> QED
      BY <3>2, <3>3 DEF Completed
  <2>7. \A k : /\ Reserved(Kept', k) <=> Reserved(Kept, k) \/ job[t] = Intent(k)
               /\ Completed(Kept', k) <=> Completed(Kept, k) \/ job[t] = Outcome(k)
    BY <1>0, <2>1, AppendHas
  <2>8. ASSUME NEW u \in Tasks, NEW k \in Claims(u)'
        PROVE  /\ k \in Keys /\ Reserved(Kept', k) /\ ~Completed(Kept', k)
               /\ u # t => k \in Claims(u) /\ k \notin Claims(t)'
    <3>1. CASE u = t
      <4>1. k \in Keys /\ job[t] = Intent(k)
        BY <2>4, <2>5, <2>8, <3>1
      <4> QED
        BY <2>6, <2>7, <3>1, <4>1, RecordIs
    <3>2. CASE u # t
      <4>1. k \in Claims(u) /\ k \in Keys /\ k \notin Claims(t)
        BY <1>0, <2>3, <2>5, <2>8, <3>2 DEF ClaimsOK
      <4>2. Reserved(Kept, k) /\ ~Completed(Kept, k)
        BY <1>0, <4>1 DEF ClaimsOK
      <4>3. job[t] # Outcome(k) /\ job[t] # Intent(k)
        BY <2>4, <2>6, <4>1, <4>2
      <4> QED
        BY <2>4, <2>7, <4>1, <4>2, <4>3
    <3> QED
      BY <3>1, <3>2
  <2>9. ASSUME NEW u \in Tasks, NEW v \in Tasks, NEW k \in Claims(u)', k \in Claims(v)'
        PROVE  u = v
    <3>1. CASE u # t /\ v # t
      BY <1>0, <2>8, <2>9, <3>1 DEF ClaimsOK
    <3> QED
      BY <2>8, <2>9, <3>1
  <2> QED
    BY <2>8, <2>9 DEF ClaimsOK
<1>3. ASSUME PowerLoss
      PROVE  ClaimsOK'
  <2>1. \A u \in Tasks : step'[u] = "idle"
    BY <1>3, TaskIs DEF PowerLoss, Die
  <2>2. \A u \in Tasks : Claims(u)' = {}
    BY <2>1 DEF Claims
  <2> QED
    BY <2>2 DEF ClaimsOK
<1>4. (\E t \in Tasks : Write(t)) \/ Kept' = Kept \/ PowerLoss
  BY LogMoves DEF Grows, Tears
<1> QED
  BY <1>1, <1>2, <1>3, <1>4

LEMMA KeysStep ==
    ASSUME JournalInv, JournalNext
    PROVE  KeysOK'
<1>0. /\ KeysOK /\ Holds(Kept, jsonl) /\ Kept \in Seq(Records) /\ Len(Kept) \in Nat /\ sure \in Nat
  BY ReadIsKept DEF JournalInv, TypesOK
<1>1. ASSUME NEW t \in Tasks, Grows(t)
      PROVE  KeysOK'
  <2> DEFINE n == Len(Kept) + 1
  <2>1. Kept' = Append(Kept, job[t]) /\ job[t] \in Records /\ Permitted(Kept, job[t])
    BY <1>1 DEF Grows
  <2>2. Len(Kept') = n /\ Kept'[n] = job[t] /\ \A i \in 1 .. Len(Kept) : Kept'[i] = Kept[i]
    BY <1>0, <2>1, AppendHas
  <2>3. \A i \in 1 .. n : i \in 1 .. Len(Kept) \/ i = n
    BY <1>0
  <2>4. 1 .. Len(Kept) \subseteq 1 .. n /\ n \in 1 .. n /\ n \notin 1 .. Len(Kept)
    BY <1>0
  <2>5. ASSUME NEW k \in Keys, job[t] = Intent(k)
        PROVE  ~Reserved(Kept, k) /\ k \notin Legacy
    <3>1. job[t].kind = "intent" /\ job[t].key = k
      BY <2>5, RecordIs
    <3> QED
      BY <2>1, <3>1 DEF Permitted
  <2>6. ASSUME NEW k \in Keys, job[t] = Outcome(k)
        PROVE  Reserved(Kept, k)
    <3>1. job[t].kind = "outcome" /\ job[t].key = k
      BY <2>6, RecordIs
    <3> QED
      BY <2>1, <3>1 DEF Permitted
  <2> HIDE DEF n
  <2>7. ASSUME NEW k \in Keys, NEW i \in 1 .. n, Kept'[i] = Intent(k)
        PROVE  /\ k \notin Legacy
               /\ \A j \in 1 .. n : Kept'[j] = Intent(k) => i = j
    <3>1. CASE i = n
      <4>1. job[t] = Intent(k)
        BY <2>2, <2>7, <3>1
      <4>2. \A j \in 1 .. Len(Kept) : Kept[j] # Intent(k)
        BY <2>5, <4>1 DEF Reserved
      <4> QED
        BY <2>2, <2>3, <2>5, <3>1, <4>1, <4>2
    <3>2. CASE i \in 1 .. Len(Kept)
      <4>1. Kept[i] = Intent(k)
        BY <2>2, <2>7, <3>2
      <4>2. Reserved(Kept, k)
        BY <3>2, <4>1 DEF Reserved
      <4>3. job[t] # Intent(k)
        BY <2>5, <4>2
      <4> QED
        BY <1>0, <2>2, <2>3, <3>2, <4>1, <4>3 DEF KeysOK
    <3> QED
      BY <2>3, <3>1, <3>2
  <2>8. ASSUME NEW k \in Keys, NEW i \in 1 .. n, Kept'[i] = Outcome(k)
        PROVE  \E j \in 1 .. i : Kept'[j] = Intent(k)
    <3>1. CASE i = n
      <4>1. PICK j \in 1 .. Len(Kept) : Kept[j] = Intent(k)
        BY <2>2, <2>6, <2>8, <3>1 DEF Reserved
      <4> QED
        BY <2>2, <2>4, <3>1, <4>1
    <3>2. CASE i \in 1 .. Len(Kept)
      <4>1. PICK j \in 1 .. i : Kept[j] = Intent(k)
        BY <1>0, <2>2, <2>8, <3>2 DEF KeysOK
      <4>2. j \in 1 .. Len(Kept)
        BY <1>0, <3>2, <4>1
      <4> QED
        BY <2>2, <4>1, <4>2
    <3> QED
      BY <2>3, <3>1, <3>2
  <2> QED
    BY <2>2, <2>7, <2>8 DEF KeysOK
<1>2. ASSUME Shrinks
      PROVE  KeysOK'
  <2>1. PICK m \in sure .. Len(Kept) : Kept' = Prefix(Kept, m) /\ Len(Kept') = m
    BY <1>2 DEF Shrinks
  <2>2. m \in 0 .. Len(Kept)
    BY <1>0, <2>1
  <2>3. \A i \in 1 .. m : Kept'[i] = Kept[i]
    BY <1>0, <2>1, <2>2, PrefixIs
  <2>4. \A i \in 1 .. m : i \in 1 .. Len(Kept) /\ \A j \in 1 .. i : j \in 1 .. m
    BY <1>0, <2>2
  <2> QED
    BY <1>0, <2>1, <2>3, <2>4 DEF KeysOK
<1>3. ASSUME Kept' = Kept
      PROVE  KeysOK'
  BY <1>0, <1>3 DEF KeysOK
<1> QED
  BY <1>1, <1>2, <1>3, LogMoves DEF Tears

LEMMA JournalStart ==
    ASSUME JournalInit
    PROVE  JournalInv /\ Kept = <<>>
<1>1. Holds(<<>>, jsonl)
  BY DEF Holds, JournalInit
<1>2. Kept = <<>> /\ Len(Kept) = 0
  BY <1>1, HoldsReads DEF Kept
<1>3. TypesOK /\ LocksOK
  BY TaskIs DEF JournalInit, TypesOK, LocksOK
<1>4. \A t \in Tasks : step[t] = "idle"
  BY DEF JournalInit
<1>5. WriterOK /\ ClaimsOK
  BY <1>4 DEF WriterOK, ClaimsOK, Claims
<1>6. SureOK /\ KeysOK
  BY <1>2 DEF JournalInit, SureOK, KeysOK
<1> QED
  BY <1>1, <1>2, <1>3, <1>5, <1>6 DEF JournalInv

LEMMA JournalStep ==
    ASSUME JournalInv, [JournalNext]_journalVars
    PROVE  JournalInv'
<1>1. CASE JournalNext
  BY <1>1, LogMoves, TypesStep, LocksStep, WriterStep, SureStep, ClaimsStep, KeysStep DEF JournalInv
<1>2. CASE UNCHANGED journalVars
  BY <1>2 DEF journalVars, JournalInv, Kept, Whole, Holds, TypesOK, LocksOK, WriterOK, SureOK,
              ClaimsOK, Claims, KeysOK
<1> QED
  BY <1>1, <1>2

LEMMA JournalAlways == JournalSpec => []JournalInv
BY JournalStart, JournalStep, PTL DEF JournalSpec

-----------------------------------------------------------------------------
(* What the readers and the callers of the file rely on.                   *)

\* Every variable of the file, its locks and its calls keeps its type, for any
\* processes, tasks, keys and bounds (operations.rs: OperationJournal).
THEOREM FileTypesHold == JournalSpec => []JournalTypeOK
<1>1. JournalInv => JournalTypeOK
  BY DEF JournalInv, Holds, TypesOK, JournalTypeOK
<1> QED
  BY <1>1, JournalAlways, PTL

\* Whatever gate processes, tasks, crashes and losses of power there are, only
\* a torn frame at the end makes journal.jsonl unreadable and no operation key
\* is reserved twice, nor one that an older release has reserved: the frames of
\* append_inner and the locks of OperationJournal in operations.rs.
THEOREM FileStaysSound == JournalSpec => []JournalSound
<1>1. ASSUME JournalInv
      PROVE  JournalSound
  <2>1. /\ \A i \in 1 .. Len(Kept) : Valid(jsonl, i) /\ jsonl[i] # Torn /\ jsonl[i].record = Kept[i]
        /\ Len(Kept) \in Nat /\ Len(jsonl) \in {Len(Kept), Len(Kept) + 1}
        /\ Len(jsonl) = Len(Kept) + 1 => jsonl[Len(jsonl)] = Torn
    BY <1>1, HoldsValid DEF JournalInv, Holds
  <2>2. ASSUME NEW i \in 1 .. Len(jsonl)
        PROVE  \/ i \in 1 .. Len(Kept)
               \/ i = Len(jsonl) /\ Len(jsonl) = Len(Kept) + 1
    <3>1. Len(Kept) \in Nat /\ Len(jsonl) \in {Len(Kept), Len(Kept) + 1}
      BY <2>1
    <3> QED
      BY <3>1
  <2>3. OnlyTornBlocks
    BY <2>1, <2>2 DEF OnlyTornBlocks
  <2>4. ASSUME NEW k \in Keys
        PROVE  Cardinality({i \in 1 .. Len(jsonl) : jsonl[i] # Torn /\ jsonl[i].record = Intent(k)})
                 <= IF k \in Legacy THEN 0 ELSE 1
    <3> DEFINE D == {i \in 1 .. Len(jsonl) : jsonl[i] # Torn /\ jsonl[i].record = Intent(k)}
    <3>1. \A i \in D : i \in 1 .. Len(Kept) /\ Kept[i] = Intent(k)
      BY <2>1, <2>2
    <3>2. (D # {} => k \notin Legacy) /\ \A i, j \in D : i = j
      BY <1>1, <3>1 DEF JournalInv, KeysOK
    <3>3. Cardinality(D) = 0 \/ (Cardinality(D) = 1 /\ k \notin Legacy)
      <4>1. CASE D = {}
        BY <4>1, FS_EmptySet
      <4>2. CASE D # {}
        <5>1. PICK i : D = {i}
          BY <3>2, <4>2
        <5> QED
          BY <3>2, <4>2, <5>1, FS_Singleton
      <4> QED
        BY <4>1, <4>2
    <3> QED
      BY <3>3
  <2> QED
    BY <2>3, <2>4 DEF JournalSound, OneIntentPerKey
<1> QED
  BY <1>1, JournalAlways, PTL

\* The file implements the atomic log: a write of OperationJournal's append_inner
\* adds one record whose check still holds, its sync_all acknowledges it, a loss
\* of power takes only records that were not acknowledged, and nothing else,
\* crashes and partial writes included, changes what a reader can restore.
THEOREM FileKeepsTheLog == JournalSpec => KeepsLog
<1>1. ASSUME JournalInit
      PROVE  Log!Init
  BY <1>1, JournalStart DEF Log!Init, Kept, JournalInit
<1>2. ASSUME JournalInv, [JournalNext]_journalVars
      PROVE  [Log!Next]_<<Kept, sure>>
  <2>0. /\ TypesOK /\ WriterOK /\ ClaimsOK /\ SureOK /\ Holds(Kept, jsonl)
        /\ Kept \in Seq(Records) /\ Len(Kept) \in Nat /\ Len(jsonl) \in Nat
    BY <1>2, ReadIsKept DEF JournalInv
  <2>1. ASSUME NEW t \in Tasks, Write(t)
        PROVE  Log!Extend
    <3>1. Kept' = Append(Kept, job[t]) /\ Len(Kept') = Len(Kept) + 1 /\ job[t] \in Records
          /\ Permitted(Kept, job[t])
      BY <1>2, <2>1, WriteGrows DEF Grows
    <3>2. sure' = sure /\ step[t] = "writing"
      BY <2>1 DEF Write
    <3>3. SubSeq(Kept', 1, Len(Kept)) = Kept
      <4>1. Len(Kept) \in 0 .. Len(Kept)
        BY <2>0
      <4>2. Prefix(Append(Kept, job[t]), Len(Kept)) = Prefix(Kept, Len(Kept))
            /\ Prefix(Kept, Len(Kept)) = Kept
        BY <2>0, <3>1, <4>1, PrefixIs
      <4> QED
        BY <3>1, <4>2 DEF Prefix
    <3>4. Kept'[Len(Kept')] = job[t]
      BY <2>0, <3>1, AppendHas
    <3>5. job[t].kind = "intent" => ~Log!Has(Kept, "intent", job[t].key)
      BY <3>1 DEF Permitted, Reserved, Log!Has, Intent
    <3>6. job[t].kind = "outcome" => /\ Log!Has(Kept, "intent", job[t].key)
                                     /\ ~Log!Has(Kept, "outcome", job[t].key)
      <4>1. SUFFICES ASSUME job[t].kind = "outcome"
                     PROVE  Reserved(Kept, job[t].key) /\ ~Completed(Kept, job[t].key)
        BY DEF Reserved, Completed, Log!Has, Intent, Outcome
      <4>2. job[t].key \in Keys /\ job[t] = Outcome(job[t].key)
        BY <3>1, <4>1, RecordIs
      <4>3. job[t].key \in Claims(t)
        BY <3>2, <4>2 DEF Claims
      <4> QED
        BY <2>0, <4>3 DEF ClaimsOK
    <3> QED
      BY <3>1, <3>2, <3>3, <3>4, <3>5, <3>6 DEF Log!Extend, Kept
  <2>2. ASSUME NEW t \in Tasks, Sync(t)
        PROVE  Log!Acknowledge
    <3>1. jsonl' = jsonl /\ sure' = Len(jsonl) /\ Len(jsonl) = Len(Kept) /\ sure < Len(Kept)
      BY <2>0, <2>2 DEF Sync, WriterOK, Whole
    <3>2. Kept' = Kept
      BY <3>1 DEF Kept
    <3>3. sure' \in sure + 1 .. Len(Kept)
      BY <2>0, <3>1 DEF TypesOK
    <3> QED
      BY <3>2, <3>3 DEF Log!Acknowledge, Kept
  <2>3. ASSUME PowerLoss
        PROVE  Log!Lose
    <3>1. Shrinks /\ sure' = sure
      BY <1>2, <2>3, PowerLossShrinks DEF PowerLoss
    <3> QED
      BY <3>1 DEF Shrinks, Prefix, Log!Lose, Kept
  <2>4. ASSUME JournalNext, \A t \in Tasks : ~Write(t) /\ ~Sync(t), ~PowerLoss
        PROVE  UNCHANGED <<Kept, sure>>
    <3>1. sure' = sure
      BY <2>4 DEF JournalNext, Call, BeginCall, Enter, Acquire, Check, Reenter, Compose,
                  AppendFails, ReturnCall, Crash
    <3>2. Kept' = Kept
      BY <1>2, <2>4, LogMoves DEF Grows, Tears
    <3> QED
      BY <3>1, <3>2
  <2>5. ASSUME UNCHANGED journalVars
        PROVE  UNCHANGED <<Kept, sure>>
    BY <2>5 DEF journalVars, Kept
  <2> QED
    BY <1>2, <2>1, <2>2, <2>3, <2>4, <2>5 DEF Log!Next
<1>3. <<Kept, sure>> = <<Intact(jsonl), sure>>
  BY DEF Kept
<1> QED
  BY <1>1, <1>2, JournalAlways, PTL DEF KeepsLog, Log!Spec, JournalSpec, Kept
=============================================================================
