------------------------------ MODULE Custody -------------------------------
(***************************************************************************)
(* What the gate promises about the calls it lets through, without the     *)
(* journal, the mutex, the relay or the process that can crash:            *)
(* docs/durable-journal.md as carried out by server.rs and operations.rs.  *)
(*                                                                         *)
(* A write is reserved, then sent, then executed, each at most once and in *)
(* this order, and is reported completed only after it was executed.  A    *)
(* write is never sent for a severed scope, and all calls of one scope are *)
(* made for one caller.                                                    *)
(***************************************************************************)
CONSTANTS Scopes, Callers, Keys

VARIABLES
  stage,     \* how far the write of each operation key has come
  reported,  \* operation keys reported completed
  severed,   \* scopes known to be severed
  served     \* pairs of a scope and a caller a call was made for

Stages == {"fresh", "reserved", "sent", "executed"}

Init ==
  /\ stage = [k \in Keys |-> "fresh"]
  /\ reported = {}
  /\ severed = {}
  /\ served = {}

Move(k, from, to) == stage[k] = from /\ stage' = [stage EXCEPT ![k] = to]

Reserve(k) ==
  /\ Move(k, "fresh", "reserved")
  /\ UNCHANGED <<reported, severed, served>>

Admit(s, c) ==
  /\ \A p \in served : p[1] = s => p[2] = c
  /\ served' = served \cup {<<s, c>>}

\* A model call or a read is admitted for its caller.
Call(s, c) ==
  /\ Admit(s, c)
  /\ UNCHANGED <<stage, reported, severed>>

\* A write is also sent, for a scope that is not severed.
Send(s, c, k) ==
  /\ k[1] = c
  /\ s \notin severed
  /\ Admit(s, c)
  /\ Move(k, "reserved", "sent")
  /\ UNCHANGED <<reported, severed>>

Execute(k) ==
  /\ Move(k, "sent", "executed")
  /\ UNCHANGED <<reported, severed, served>>

Report(k) ==
  /\ stage[k] = "executed"
  /\ reported' = reported \cup {k}
  /\ UNCHANGED <<stage, severed, served>>

Sever(S) ==
  /\ severed' = severed \cup S
  /\ UNCHANGED <<stage, reported, served>>

Next ==
  \/ \E k \in Keys : Reserve(k) \/ Execute(k) \/ Report(k)
  \/ \E s \in Scopes, c \in Callers :
       Call(s, c) \/ \E k \in Keys : Send(s, c, k)
  \/ \E S \in SUBSET Scopes : Sever(S)

Spec == Init /\ [][Next]_<<stage, reported, severed, served>>
=============================================================================
