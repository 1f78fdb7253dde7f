------------------------------- MODULE MCGate -------------------------------
(* Small instances of the gate for TLC. *)
EXTENDS GateInvariants, TLC

CONSTANTS r1, r2, r3, s1, s2, c1, c2, o1

\* Symmetry: attempts differ only in what they ask for.
Attempts == Permutations(Requests)

Write(c, s, o) == [kind |-> "write", caller |-> c, scope |-> s, op |-> o]
Chat(c, s)     == [kind |-> "chat", caller |-> c, scope |-> s, op |-> NoOp]
Read(c, s)     == [kind |-> "read", caller |-> c, scope |-> s, op |-> NoOp]

\* One operation id used again from another scope.
Retries == {Write(c1, s1, o1), Write(c1, s2, o1)}

\* The same, a scope claimed by two callers, and a call without an intent.
Mixed == Retries \cup {Write(c2, s1, o1), Chat(c1, s1)}

\* One scope and one operation id wanted by two callers.
Rivals == {Write(c1, s1, o1), Write(c2, s1, o1), Chat(c1, s1)}

\* Two scopes without writes: severs, staleness, chain order.
Talk == {Chat(c1, s1), Read(c1, s2)}

\* A call without a usable operation id, then a read of the same scope.
Anchored == {Write(c1, s1, NoOp), Read(c1, s1)}

\* A write and its retry.
Again == {Write(c1, s1, o1)}

Simple == {Chat(c1, s1)}
=============================================================================
