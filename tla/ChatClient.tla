----------------------------- MODULE ChatClient -----------------------------
(***************************************************************************)
(* `membrane chat` in several terminals (chat.rs).  They share one file,   *)
(* the active credential, which every turn reads and may replace.  The     *)
(* gate is kept to what decides a turn: is the scope known, severed, and   *)
(* is a new scope anchored at the head?  Only remaining lifetimes matter,  *)
(* so time counts down.                                                    *)
(***************************************************************************)
EXTENDS Clock

CONSTANTS
    Terminals,      \* chat processes of one operator, on one machine
    ChatScope,      \* ChatScope[t]: "chat-" and the second t was started in
    ChatTtl,        \* config.ttl_secs
    MaxTroubles     \* bound on lost answers, stale heads and processes killed in a write

VARIABLES
    active,         \* active-iac.json: "none", "torn" or a credential
    term,           \* where each terminal is, and the credential it sends
    known,          \* scopes with a receipt
    cut,            \* scopes that were severed
    troubles,
    killed          \* ghost: a process was killed while it wrote the file

chatVars == <<active, term, known, cut, troubles, killed>>

ChatScopes == {ChatScope[t] : t \in Terminals}

\* A credential: its scope, whether its parent is the head of the chain by now,
\* and the seconds that are left.
OwnCredential(scope, anchored) == [is |-> "iac", scope |-> scope, anchored |-> anchored, left |-> ChatTtl]
NoFile == [is |-> "none", scope |-> 0, anchored |-> FALSE, left |-> 0]
TornFile == [NoFile EXCEPT !.is = "torn"]

ChatInit ==
    /\ active = NoFile
    /\ term = [t \in Terminals |-> [at |-> "idle", iac |-> NoFile]]
    /\ known = {} /\ cut = {}
    /\ troubles = 0 /\ killed = FALSE

Stay(t, place, iac) == term' = [term EXCEPT ![t] = [at |-> place, iac |-> iac]]
-----------------------------------------------------------------------------
\* Mutant: the lifetime is left to the gate to check.
ReusableWhenExpired(t) == active.is = "iac" /\ active.scope = ChatScope[t]

\* ensure_session_iac: the file holds this terminal's own credential, still valid.
Reusable(t) == active.is = "iac" /\ active.scope = ChatScope[t] /\ active.left > 0

\* send_turn reads the file; what cannot be parsed ends the turn.
Reuse(t) ==
    /\ term[t].at = "idle"
    /\ Reusable(t)
    /\ Stay(t, "send", active)
    /\ UNCHANGED <<active, known, cut, troubles, killed>>

\* The parent comes from the relay's history: mostly the head.  A relay that does
\* not answer ends the turn.
IssueForChat(t, anchored) ==
    /\ term[t].at = "idle"
    /\ ~Reusable(t) /\ active.is # "torn"
    /\ ~anchored => troubles < MaxTroubles
    /\ troubles' = IF anchored THEN troubles ELSE troubles + 1
    /\ Stay(t, "write", OwnCredential(ChatScope[t], anchored))
    /\ UNCHANGED <<active, known, cut, killed>>

\* fs::write empties the file first.
Empty(t) ==
    /\ term[t].at = "write"
    /\ active' = TornFile
    /\ Stay(t, "fill", term[t].iac)
    /\ UNCHANGED <<known, cut, troubles, killed>>

Fill(t) ==
    /\ term[t].at = "fill"
    /\ active' = term[t].iac
    /\ Stay(t, "send", term[t].iac)
    /\ UNCHANGED <<known, cut, troubles, killed>>

\* Every receipt moves the head away from the credentials issued before.
Outdated(iac) == [iac EXCEPT !.anchored = FALSE]

Moved == [u \in Terminals |-> [term[u] EXCEPT !.iac = Outdated(@)]]

\* The gate accepts the turn and answers, or the answer is lost.
Turn(t) ==
    LET iac == term[t].iac IN
    /\ term[t].at = "send"
    /\ iac.left > 0
    /\ iac.scope \notin cut
    /\ iac.scope \in known \/ iac.anchored
    /\ known' = known \cup {iac.scope}
    /\ active' = Outdated(active)
    /\ \E lost \in BOOLEAN :
          /\ lost => troubles < MaxTroubles
          /\ troubles' = IF lost THEN troubles + 1 ELSE troubles
          /\ term' = [Moved EXCEPT ![t] = [at |-> IF lost THEN "idle" ELSE "answered", iac |-> NoFile]]
    /\ UNCHANGED <<cut, killed>>

\* The gate refuses: expired, severed, or a new scope off the head.  The file
\* stays as it is.
Refused(t) ==
    LET iac == term[t].iac IN
    /\ term[t].at = "send"
    /\ \/ iac.left = 0
       \/ iac.scope \in cut
       \/ iac.scope \notin known /\ ~iac.anchored
    /\ Stay(t, "idle", NoFile)
    /\ UNCHANGED <<active, known, cut, troubles, killed>>

\* The reply is printed, the receipt goes to the session log.
ShowReply(t) ==
    /\ term[t].at = "answered"
    /\ Stay(t, "idle", NoFile)
    /\ UNCHANGED <<active, known, cut, troubles, killed>>
-----------------------------------------------------------------------------
\* sever_session: the alert, which the gate reads from the relay, and then the
\* file goes if it is the severed scope's.
SeverScope(s) ==
    /\ s \notin cut
    /\ cut' = cut \cup {s}
    /\ active' = IF active.is = "iac" /\ active.scope = s THEN NoFile ELSE active
    /\ UNCHANGED <<term, known, troubles, killed>>

KillChat(t) ==
    /\ term[t].at = "fill"
    /\ troubles < MaxTroubles
    /\ troubles' = troubles + 1 /\ killed' = TRUE
    /\ Stay(t, "idle", NoFile)
    /\ UNCHANGED <<active, known, cut>>

Older(iac) == [iac EXCEPT !.left = IF @ > 0 THEN @ - 1 ELSE 0]

\* A second passes, but not under a turn with a credential that has its whole
\* lifetime: turns take less than that.
ChatSecond ==
    /\ \A t \in Terminals : term[t].iac.left < ChatTtl
    /\ active' = Older(active)
    /\ term' = [t \in Terminals |-> [term[t] EXCEPT !.iac = Older(@)]]
    /\ UNCHANGED <<known, cut, troubles, killed>>

StartTurn(t) == Reuse(t) \/ \E anchored \in BOOLEAN : IssueForChat(t, anchored)

GoOn(t) == Empty(t) \/ Fill(t) \/ Turn(t) \/ Refused(t) \/ ShowReply(t)

ChatNext ==
    \/ \E t \in Terminals : StartTurn(t) \/ GoOn(t) \/ KillChat(t)
    \/ \E s \in ChatScopes : SeverScope(s)
    \/ ChatSecond

\* A turn that was started goes on; a user need not start one.  The seconds pass
\* whatever they do.
ChatFairness ==
    /\ \A t \in Terminals : WF_chatVars(part = "chat" /\ GoOn(t))
    /\ SF_chatVars(part = "chat" /\ ChatSecond)
-----------------------------------------------------------------------------
Alone(t) == \A u \in Terminals \ {t} : term[u].at = "idle"

\* A terminal is not locked out for good by a credential that lost the race for
\* the head, by another terminal's file or by a refused turn: if its scope
\* is not severed, no process was killed in the write and the others
\* leave it alone, then turns succeed again and again as long as its user tries -
\* at the latest after the stale credential expired.
ChatRecovers ==
    \A t \in Terminals :
        /\ <>[](ChatScope[t] \notin cut /\ ~killed /\ Alone(t))
        /\ []<>(term[t].at # "idle")
        => []<>(term[t].at = "answered")
=============================================================================
