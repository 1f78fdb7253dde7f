-------------------------- MODULE OperationJournal --------------------------
(***************************************************************************)
(* journal.jsonl and its locks: OperationJournal of                        *)
(* membrane-gate/src/operations.rs, below the replay of module Journal.    *)
(*                                                                         *)
(* Gate processes share one directory; tasks of a process share its writer *)
(* mutex.  An action is one lock, one read, one write or one sync, and a   *)
(* crash of a process or of the machine can fall between any two.          *)
(*                                                                         *)
(* A frame's checksum is a digest of its sequence number, the checksum     *)
(* before it and its record, so it determines all records up to it: it is  *)
(* represented by the sequence of those records.                           *)
(***************************************************************************)
EXTENDS Integers, Sequences

CONSTANTS
  Procs,     \* gate processes started on one directory
  Threads,   \* tasks of a process that call the journal
  Keys,      \* operation keys: a digest of caller and operation id
  Legacy,    \* keys with a reservation file of an older release
  Nobody,    \* a free lock
  MaxCalls, MaxCrashes, MaxFaults  \* bounds

ASSUME NobodyAssumption == Nobody \notin Procs /\ Nobody \notin Procs \X Threads
ASSUME LegacyAssumption == Legacy \subseteq Keys
ASSUME JournalBoundsAssumption ==
  MaxCalls \in Nat /\ MaxCrashes \in Nat /\ MaxFaults \in Nat

VARIABLES
  jsonl,     \* the lines of journal.jsonl
  synced,    \* how many of them would survive a loss of power
  instance,  \* the process that holds instance.lock
  writer,    \* per process, the task that holds the writer mutex
  step,      \* per task, where its call is
  job,       \* per task, the record it appends
  frame,     \* per task, the frame it has composed
  count,     \* calls, crashes and faults, each under its Max bound
  sure       \* history: the length of the file at the last acknowledged append

journalVars == <<jsonl, synced, instance, writer, step, job, frame, count, sure>>

Tasks == Procs \X Threads
Proc(t) == t[1]

Intent(k)  == [kind |-> "intent", key |-> k]
Outcome(k) == [kind |-> "outcome", key |-> k]
Note       == [kind |-> "note"]   \* Publishing, Checkpoint, Review, Sever...
Records == {Intent(k) : k \in Keys} \cup {Outcome(k) : k \in Keys} \cup {Note}

Frames == [sequence : Nat, previous : Seq(Records), record : Records,
           checksum : Seq(Records)]
Torn == [kind |-> "torn"]

\* The frame that append_inner makes after it has read the records rs.
FrameOf(rs, r) == [sequence |-> Len(rs), previous |-> rs, record |-> r,
                   checksum |-> Append(rs, r)]

NoFrame == FrameOf(<<>>, [kind |-> "none"])

JournalInit ==
  /\ jsonl = <<>>
  /\ synced = 0
  /\ instance = Nobody
  /\ writer = [p \in Procs |-> Nobody]
  /\ step = [t \in Tasks |-> "idle"]
  /\ job = [t \in Tasks |-> [kind |-> "none"]]
  /\ frame = [t \in Tasks |-> NoFrame]
  /\ count = [calls |-> 0, crashes |-> 0, faults |-> 0]
  /\ sure = 0
-----------------------------------------------------------------------------
(* records_inner: every line is complete, numbered and chained.            *)

Valid(lines, i) == /\ lines[i] # Torn
                   /\ lines[i].sequence = i - 1
                   /\ lines[i].previous = IF i = 1 THEN <<>>
                                          ELSE lines[i-1].checksum

Readable(lines)  == \A i \in 1..Len(lines) : Valid(lines, i)
RecordsIn(lines) == [i \in 1..Len(lines) |-> lines[i].record]

\* The longest prefix that would be read: what an inspection can restore.
Intact(lines) ==
  LET n == CHOOSE n \in 0..Len(lines) :
             /\ \A i \in 1..n : Valid(lines, i)
             /\ n < Len(lines) => ~Valid(lines, n + 1)
  IN  RecordsIn(SubSeq(lines, 1, n))

Reserved(rs, k) == \E i \in 1..Len(rs) : rs[i] = Intent(k)
-----------------------------------------------------------------------------
(* One call: reserve_in_scope appends an intent, finish the outcome of an  *)
(* intent of its own task, append any other record.  finish checks and     *)
(* appends under two guards of the writer mutex, reserve_in_scope under one. *)

StepTo(t, place) == step' = [step EXCEPT ![t] = place]

\* A call ends; the writer guard, if it holds one, is dropped.
EndCall(t, place) ==
  /\ StepTo(t, place)
  /\ writer' = [writer EXCEPT ![Proc(t)] = IF @ = t THEN Nobody ELSE @]

BeginCall(t) ==
  /\ count.calls < MaxCalls
  /\ count' = [count EXCEPT !.calls = @ + 1]
  /\ \/ /\ step[t] = "idle"
        /\ \E r \in {Intent(k) : k \in Keys} \cup {Note} : job' = [job EXCEPT ![t] = r]
     \/ /\ step[t] = "done" /\ job[t].kind = "intent"
        /\ job' = [job EXCEPT ![t] = Outcome(job[t].key)]
  /\ StepTo(t, "entering")
  /\ UNCHANGED <<jsonl, synced, instance, writer, frame, sure>>

Enter(t) ==
  /\ step[t] = "entering"
  /\ writer[Proc(t)] = Nobody
  /\ writer' = [writer EXCEPT ![Proc(t)] = t]
  /\ StepTo(t, "acquiring")
  /\ UNCHANGED <<jsonl, synced, instance, job, frame, count, sure>>

\* Mutant: the lock file is opened but not locked.
AcquireShared(t) ==
  /\ step[t] = "acquiring"
  /\ StepTo(t, "checking")
  /\ UNCHANGED <<jsonl, synced, instance, writer, job, frame, count, sure>>

\* acquire: the file lock is tried once and kept while the process lives.
Acquire(t) ==
  /\ step[t] = "acquiring"
  /\ IF instance \in {Nobody, Proc(t)}
     THEN instance' = Proc(t) /\ StepTo(t, "checking") /\ UNCHANGED writer
     ELSE EndCall(t, "failed") /\ UNCHANGED instance
  /\ UNCHANGED <<jsonl, synced, job, frame, count, sure>>

\* The checks before the append: an unused key, or an operation that is not
\* completed (no task finishes an operation twice).
Permitted(rs, r) ==
  /\ r.kind = "intent"  => ~Reserved(rs, r.key) /\ r.key \notin Legacy
  /\ r.kind = "outcome" => Reserved(rs, r.key)

Check(t) ==
  /\ step[t] = "checking"
  /\ IF ~(Readable(jsonl) /\ Permitted(RecordsIn(jsonl), job[t]))
     THEN EndCall(t, "failed")
     ELSE IF job[t].kind = "outcome" THEN EndCall(t, "reentering")
     ELSE StepTo(t, "composing") /\ UNCHANGED writer
  /\ UNCHANGED <<jsonl, synced, instance, job, frame, count, sure>>

\* append: the guard of finish's own append.
Reenter(t) ==
  /\ step[t] = "reentering"
  /\ writer[Proc(t)] = Nobody
  /\ writer' = [writer EXCEPT ![Proc(t)] = t]
  /\ StepTo(t, "composing")
  /\ UNCHANGED <<jsonl, synced, instance, job, frame, count, sure>>

\* append_inner reads the file again and composes the next frame.
Compose(t) ==
  /\ step[t] = "composing"
  /\ IF Readable(jsonl)
     THEN /\ frame' = [frame EXCEPT ![t] = FrameOf(RecordsIn(jsonl), job[t])]
          /\ StepTo(t, "writing")
          /\ UNCHANGED writer
     ELSE EndCall(t, "failed") /\ UNCHANGED frame
  /\ UNCHANGED <<jsonl, synced, instance, job, count, sure>>

Write(t) ==
  /\ step[t] = "writing"
  /\ jsonl' = Append(jsonl, frame[t])
  /\ StepTo(t, "syncing")
  /\ UNCHANGED <<synced, instance, writer, job, frame, count, sure>>

\* Mutant: the append returns before the file is synced.
SyncLater(t) ==
  /\ step[t] = "syncing"
  /\ sure' = Len(jsonl)
  /\ EndCall(t, "done")
  /\ UNCHANGED <<jsonl, synced, instance, job, frame, count>>

Sync(t) ==
  /\ step[t] = "syncing"
  /\ synced' = Len(jsonl)
  /\ sure' = Len(jsonl)
  /\ EndCall(t, "done")
  /\ UNCHANGED <<jsonl, instance, job, frame, count>>

\* The write or the sync reports an error; a part of the frame may be left.
AppendFails(t) ==
  /\ step[t] \in {"writing", "syncing"}
  /\ count.faults < MaxFaults
  /\ \/ UNCHANGED jsonl
     \/ step[t] = "writing" /\ jsonl' = Append(jsonl, Torn)
  /\ EndCall(t, "failed")
  /\ count' = [count EXCEPT !.faults = @ + 1]
  /\ UNCHANGED <<synced, instance, job, frame, sure>>

\* The task can make another call.
ReturnCall(t) ==
  /\ step[t] \in {"done", "failed"}
  /\ StepTo(t, "idle")
  /\ job' = [job EXCEPT ![t] = [kind |-> "none"]]
  /\ frame' = [frame EXCEPT ![t] = NoFrame]
  /\ UNCHANGED <<jsonl, synced, instance, writer, count, sure>>
-----------------------------------------------------------------------------
\* Processes in P die: their locks are free, their calls are gone.
Die(P) ==
  /\ step' = [t \in Tasks |-> IF Proc(t) \in P THEN "idle" ELSE step[t]]
  /\ job' = [t \in Tasks |-> IF Proc(t) \in P THEN [kind |-> "none"] ELSE job[t]]
  /\ frame' = [t \in Tasks |-> IF Proc(t) \in P THEN NoFrame ELSE frame[t]]
  /\ writer' = [p \in Procs |-> IF p \in P THEN Nobody ELSE writer[p]]
  /\ instance' = IF instance \in P THEN Nobody ELSE instance
  /\ count' = [count EXCEPT !.crashes = @ + 1]

Crash(p) ==
  /\ count.crashes < MaxCrashes
  /\ \/ UNCHANGED jsonl
     \/ /\ \E t \in Tasks : Proc(t) = p /\ step[t] = "writing"
        /\ jsonl' = Append(jsonl, Torn)
  /\ Die({p})
  /\ UNCHANGED <<synced, sure>>

\* The machine stops: lines that were not synced are gone, whole or in part.
PowerLoss ==
  /\ count.crashes < MaxCrashes
  /\ \E n \in synced..Len(jsonl) :
       /\ \/ jsonl' = SubSeq(jsonl, 1, n)
          \/ n < Len(jsonl) /\ jsonl' = Append(SubSeq(jsonl, 1, n), Torn)
       /\ synced' = Len(jsonl')
  /\ Die(Procs)
  /\ UNCHANGED sure

Call(t) == \/ BeginCall(t) \/ Enter(t) \/ Acquire(t) \/ Check(t) \/ Reenter(t)
           \/ Compose(t) \/ Write(t) \/ Sync(t) \/ AppendFails(t) \/ ReturnCall(t)

JournalNext == \/ \E t \in Tasks : Call(t)
               \/ \E p \in Procs : Crash(p)
               \/ PowerLoss

JournalSpec == JournalInit /\ [][JournalNext]_journalVars
=============================================================================
