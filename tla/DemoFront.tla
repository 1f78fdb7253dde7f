----------------------------- MODULE DemoFront -----------------------------
(***************************************************************************)
(* The middleware in front of every request of the demo (demo.rs,          *)
(* session_middleware): it finds or makes the visitor's session and counts *)
(* the request against a limit.  The time is read once, before both        *)
(* mutexes, so requests reach them out of order.  Tabs of a browser share  *)
(* its cookie; all tabs here share one rate key (one address, public       *)
(* mode) and one kind of request, as reads and writes count apart.  What   *)
(* the session holds is Demo.tla.                                          *)
(***************************************************************************)
EXTENDS Clock, FiniteSets, Sequences

CONSTANTS
    Tabs, Browsers,
    BrowserOf,      \* BrowserOf[t]: the browser of a tab
    SessionTtl,     \* SESSION_TTL_SECS: 30 minutes in the code
    MaxSessions,    \* MAX_SESSIONS: 512 in the code
    Minute,         \* the length of a rate window: 60 seconds in the code
    PerMinute,      \* READS_PER_MINUTE or WRITES_PER_MINUTE
    Late,           \* bound: seconds between reading the time and the mutexes
    MaxVisits       \* bound on requests

ASSUME FrontAssumption ==
    /\ Minute \in Nat /\ Late \in Nat /\ Minute > Late
    /\ PerMinute \in Nat /\ MaxSessions \in Nat \ {0} /\ SessionTtl \in Nat /\ MaxVisits \in Nat
    /\ BrowserOf \in [Tabs -> Browsers]

VARIABLES
    sessions,       \* sessions[n]: last_seen of session n
    cookie,         \* the session each browser names, 0 for none
    window,         \* the rate window of the address: {} or one
    place,          \* where each tab's request is
    now, sent,      \* the time it read and the cookie it came with
    begun, created, \* requests and sessions so far
    used,           \* ghost: used[n]: when session n was last used
    evicted,        \* ghost: sessions removed to make room
    passed          \* ghost: the times of the requests let through

frontVars == <<sessions, cookie, window, place, now, sent, begun, created, used, evicted, passed>>

FrontInit ==
    /\ sessions = [n \in {} |-> 0] /\ used = <<>>
    /\ cookie = [b \in Browsers |-> 0]
    /\ window = {}
    /\ place = [t \in Tabs |-> "idle"]
    /\ now = [t \in Tabs |-> 0] /\ sent = [t \in Tabs |-> 0]
    /\ begun = 0 /\ created = 0 /\ evicted = {} /\ passed = <<>>

With(f, x, value) == [y \in DOMAIN f \cup {x} |-> IF y = x THEN value ELSE f[y]]
Only(f, S) == [x \in DOMAIN f \cap S |-> f[x]]

\* A request arrives, with the cookie, and reads the time.
Arrive(t) ==
    /\ place[t] = "idle" /\ begun < MaxVisits
    /\ begun' = begun + 1
    /\ place' = [place EXCEPT ![t] = "session"]
    /\ now' = [now EXCEPT ![t] = clock]
    /\ sent' = [sent EXCEPT ![t] = cookie[BrowserOf[t]]]
    /\ UNCHANGED <<sessions, cookie, window, created, used, evicted, passed>>

\* The entries that are left after the retain of a request at time s.
Current(s) == {n \in DOMAIN sessions : s - sessions[n] <= SessionTtl}

\* Mutant: a session that is found keeps its last_seen.
FindSessionUntouched(t) ==
    /\ place[t] = "session"
    /\ sent[t] \in Current(now[t])
    /\ sessions' = Only(sessions, Current(now[t]))
    /\ used' = [used EXCEPT ![sent[t]] = clock]
    /\ place' = [place EXCEPT ![t] = "rate"]
    /\ UNCHANGED <<cookie, window, now, sent, begun, created, evicted, passed>>

\* The mutex of the sessions: the session is still there.
FindSession(t) ==
    /\ place[t] = "session"
    /\ sent[t] \in Current(now[t])
    /\ sessions' = With(Only(sessions, Current(now[t])), sent[t], now[t])
    /\ used' = [used EXCEPT ![sent[t]] = clock]
    /\ place' = [place EXCEPT ![t] = "rate"]
    /\ UNCHANGED <<cookie, window, now, sent, begun, created, evicted, passed>>

\* create_session: at the limit it makes room for one.
Evictable(S) ==
    IF Cardinality(S) < MaxSessions THEN {{}}
    ELSE {{n} : n \in {m \in S : \A k \in S : sessions[m] <= sessions[k]}}

CreateSession(t) ==
    /\ place[t] = "session"
    /\ sent[t] \notin Current(now[t])
    /\ created' = created + 1
    /\ \E oldest \in Evictable(Current(now[t])) :
          /\ sessions' = With(Only(sessions, Current(now[t]) \ oldest), created + 1, now[t])
          /\ evicted' = evicted \cup oldest
    /\ used' = Append(used, clock)
    /\ sent' = [sent EXCEPT ![t] = created + 1]
    /\ place' = [place EXCEPT ![t] = "rate_new"]
    /\ UNCHANGED <<cookie, window, now, begun, passed>>

\* Mutant: a window is replaced as soon as the second changes, either way.
CountedBySecond(s) ==
    LET live == {w \in window : s = w.from}
    IN  IF live = {} THEN [from |-> s, count |-> 1]
        ELSE [w \in live |-> [w EXCEPT !.count = @ + 1]][CHOOSE w \in live : TRUE]

\* rate_limited: a window is replaced when it is a minute old.
Counted(s) ==
    LET live == {w \in window : s - w.from < Minute}
    IN  IF live = {} THEN [from |-> s, count |-> 1]
        ELSE [w \in live |-> [w EXCEPT !.count = @ + 1]][CHOOSE w \in live : TRUE]

\* The mutex of the limits; the response brings the cookie of a new session, a
\* refusal brings none.
CountRequest(t) ==
    /\ place[t] \in {"rate", "rate_new"}
    /\ LET w == Counted(now[t])
       IN  /\ window' = {w}
           /\ IF w.count <= PerMinute
              THEN /\ passed' = Append(passed, now[t])
                   /\ cookie' = IF place[t] = "rate" THEN cookie
                                ELSE [cookie EXCEPT ![BrowserOf[t]] = sent[t]]
              ELSE UNCHANGED <<passed, cookie>>
    /\ place' = [place EXCEPT ![t] = "idle"]
    /\ UNCHANGED <<sessions, now, sent, begun, created, used, evicted>>

\* No request is kept from the mutexes for longer than Late.
FrontTick ==
    /\ Tick
    /\ \A t \in Tabs : place[t] # "idle" => clock < now[t] + Late

FrontStep(t) == Arrive(t) \/ FindSession(t) \/ CreateSession(t) \/ CountRequest(t)

FrontNext ==
    \/ FrontTick /\ UNCHANGED frontVars
    \/ \E t \in Tabs : FrontStep(t) /\ UNCHANGED clock

FrontSpec == clock = 0 /\ FrontInit /\ [][FrontNext]_<<clock, frontVars>>
-----------------------------------------------------------------------------
FrontTypeOK ==
    /\ DOMAIN sessions \subseteq 1 .. created /\ Cardinality(DOMAIN sessions) <= MaxSessions
    /\ cookie \in [Browsers -> 0 .. created]
    /\ \A w \in window : w.from \in 0 .. clock /\ w.count \in 1 .. MaxVisits
    /\ place \in [Tabs -> {"idle", "session", "rate", "rate_new"}]

\* A browser loses its session only when the session was evicted or unused for
\* its lifetime, less the lateness of a request that read the time early
\* (demo.rs: last_seen is set to a time read before the lock).
SessionsAreKept ==
    [][\A t \in Tabs : place[t] = "session" /\ created' > created /\ sent'[t] = created' /\ sent[t] # 0 =>
          \/ sent[t] \in evicted
          \/ clock - used[sent[t]] >= SessionTtl + 1 - Late]_<<clock, frontVars>>

\* No minute, less what a request may be late, sees more than two windows' worth
\* of requests from one address, whatever the order requests reach the counter in
\* (demo.rs: rate_limited; at most a late request of the next window joins the
\* last ones of the window before).
RateIsBounded ==
    \A s \in 0 .. clock :
        Cardinality({i \in DOMAIN passed : passed[i] \in s .. s + Minute - Late}) <= 2 * PerMinute
=============================================================================
