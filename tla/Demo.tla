-------------------------------- MODULE Demo --------------------------------
(***************************************************************************)
(* One visitor's session of the simulation-only demo (demo.rs): the        *)
(* requests that issue an authorization, run an action, sever and reset,   *)
(* and the evidence pack a client exports and has verified.  The session   *)
(* has two mutexes, one for the chain and one for the runtime; a request   *)
(* takes them one after the other, so requests interleave between them.    *)
(* The bus is in memory and cannot fail.                                   *)
(*                                                                         *)
(* A hash is the number of the event's content: two events with the same   *)
(* content have the same hash.  Models, payloads and the fields a wrapper  *)
(* copies from its signed event are left out: an honest pack copies them.  *)
(* Delta-t is a day and authorizations last minutes, so a scope is never   *)
(* stale here.                                                             *)
(***************************************************************************)
EXTENDS SessionChain, Sequences, SequencesExt, FiniteSetsExt

CONSTANTS
    Requests,       \* requests that can be under way at once
    Ttl,            \* lifetime of an authorization in seconds
    MaxSecond,      \* bound: the last second of a behaviour
    MaxDemoRequests, \* bound on requests
    MaxReceipts,    \* MAX_RECEIPTS: 64 in the code
    MaxTimeline     \* MAX_TIMELINE_ENTRIES: 128 in the code

VARIABLES
    second,
    chain,          \* behind one mutex
    runtime,        \* behind the other: active_iac, timeline, receipts, next_id
    events,         \* what was signed, by number
    pc, local,      \* where each request is and what it holds
    started,        \* requests so far
    overlapped,     \* ghost: two requests were under way at once in this run
    severed         \* ghost: credentials a sever revoked, and the requests before its answer

demoVars == <<second, chain, runtime, events, pc, local, started, overlapped, severed>>

\* demo-{now}: a scope is named after the second it was issued in.
DemoScopes == 0 .. MaxSecond

\* Every second a credential can be issued in names a scope.
ASSUME DemoAssumption ==
    /\ MaxSecond \in Nat /\ DemoScopes \subseteq Scopes
    /\ MaxReceipts \in Nat /\ MaxTimeline \in Nat

NewRuntime(next) == [iac |-> {}, timeline |-> <<>>, receipts |-> <<>>, next |-> next]

Nothing == [no |-> 0, iac |-> {}, head |-> 0, now |-> 0, good |-> FALSE, why |-> "", event |-> 0]

DemoInit ==
    /\ second = 0
    /\ chain = GenesisChain
    /\ runtime = NewRuntime(1)
    /\ events = <<>>
    /\ pc = [r \in Requests |-> "idle"]
    /\ local = [r \in Requests |-> Nothing]
    /\ started = 0 /\ overlapped = FALSE /\ severed = {}

Goto(r, place) == pc' = [pc EXCEPT ![r] = place]
Hold(r, values) == local' = [local EXCEPT ![r] = values]
Return(r) == Goto(r, "idle") /\ Hold(r, Nothing)

LastN(seq, n) == IF Len(seq) > n THEN SubSeq(seq, Len(seq) - n + 1, Len(seq)) ELSE seq

\* DemoRuntime::push, with the id alloc_id gives out.
Logged(rt, kind, cp, at) ==
    [rt EXCEPT !.next = @ + 1,
               !.timeline = LastN(Append(@, [id |-> rt.next, kind |-> kind, cp |-> cp, at |-> at]),
                                 MaxTimeline)]

\* The receipt and its entry of the timeline, under one lock.
Recorded(rt, kind, cp, at) ==
    LET logged == Logged(rt, kind, cp, at)
    IN  [logged EXCEPT !.receipts = LastN(Append(@, [id |-> rt.next, event |-> cp]), MaxReceipts)]

\* The digest of a signed event: the number of its content.
Signed(event) == IF Contains(events, event) THEN events ELSE Append(events, event)
HashOf(event) == SelectInSeq(Signed(event), LAMBDA e : e = event)

Busy == {r \in Requests : pc[r] # "idle"}

NewLocal == [Nothing EXCEPT !.no = started + 1, !.now = second]

Begin(r) ==
    /\ pc[r] = "idle" /\ started < MaxDemoRequests
    /\ started' = started + 1
    /\ overlapped' = (overlapped \/ Busy # {})
-----------------------------------------------------------------------------
(* issue_authorization *)

\* The mutex of the chain: the head becomes the parent.
Issue(r) ==
    /\ Begin(r)
    /\ Goto(r, "install")
    /\ Hold(r, [NewLocal EXCEPT !.head = chain.head])
    /\ UNCHANGED <<second, chain, runtime, events, severed>>

\* The mutex of the runtime: the signed credential becomes the active one.
Install(r) ==
    /\ pc[r] = "install"
    /\ LET l == local[r]
           iac == [scope |-> l.now, parent |-> l.head, until |-> l.now + Ttl, id |-> runtime.next]
       IN  runtime' = [Logged(runtime, "issued", 0, l.now) EXCEPT !.iac = {iac}]
    /\ Return(r)
    /\ UNCHANGED <<second, chain, events, started, overlapped, severed>>
-----------------------------------------------------------------------------
(* run_tool_action *)

\* The active credential is read once; `good` is a tool and a model it allows.
Act(r) ==
    /\ Begin(r)
    /\ \E good \in BOOLEAN :
          LET l == [NewLocal EXCEPT !.iac = runtime.iac, !.good = good]
          IN  IF \E iac \in runtime.iac : iac.until >= second
              THEN Goto(r, "check") /\ Hold(r, l)
              ELSE Goto(r, "blocked") /\ Hold(r, [l EXCEPT !.why = "no live authorization"])
    /\ UNCHANGED <<second, chain, runtime, events, severed>>

Iac(r) == CHOOSE iac \in local[r].iac : TRUE

\* check_session_liveness under the mutex, which is then released; the tool and
\* the model are compared with the credential.
CheckLive(r) ==
    /\ pc[r] = "check"
    /\ LET refuse(why) == Goto(r, "blocked") /\ Hold(r, [local[r] EXCEPT !.why = why])
       IN  IF Iac(r).scope \in chain.degraded THEN refuse("degraded")
           ELSE IF ~local[r].good THEN refuse("denied")
           ELSE Goto(r, "publish") /\ UNCHANGED local
    /\ UNCHANGED <<second, chain, runtime, events, started, overlapped, severed>>

\* begin_scope and clear_degraded_for_scope.
Entered(s) ==
    IF chain.active = s THEN chain
    ELSE [BeginScope(chain, s) EXCEPT !.degraded = @ \ {s}]

\* Mutant: the receipt is chained to the credential's parent.
PublishToCredential(r) ==
    /\ pc[r] = "publish"
    /\ LET iac == Iac(r)
           c == Entered(iac.scope)
           event == [kind |-> "allowed", parent |-> iac.parent, iac |-> iac,
                     nonce |-> c.nonce + 1, at |-> local[r].now]
       IN  IF AnchorOk(chain, iac.parent, chain.active # iac.scope)
           THEN /\ events' = Signed(event)
                /\ chain' = RecordCp(c, HashOf(event), c.nonce + 1, local[r].now)
                /\ Goto(r, "allowed") /\ Hold(r, [local[r] EXCEPT !.event = HashOf(event)])
           ELSE chain' = c /\ Return(r) /\ UNCHANGED events
    /\ UNCHANGED <<second, runtime, started, overlapped, severed>>

\* The mutex again, held until the checkpoint is published and recorded.  A
\* refused anchor keeps the scope it entered.
Publish(r) ==
    /\ pc[r] = "publish"
    /\ LET iac == Iac(r)
           c == Entered(iac.scope)
           event == [kind |-> "allowed", parent |-> NextParent(c, iac.parent), iac |-> iac,
                     nonce |-> c.nonce + 1, at |-> local[r].now]
       IN  IF AnchorOk(chain, iac.parent, chain.active # iac.scope)
           THEN /\ events' = Signed(event)
                /\ chain' = RecordCp(c, HashOf(event), c.nonce + 1, local[r].now)
                /\ Goto(r, "allowed") /\ Hold(r, [local[r] EXCEPT !.event = HashOf(event)])
           ELSE chain' = c /\ Return(r) /\ UNCHANGED events
    /\ UNCHANGED <<second, runtime, started, overlapped, severed>>

\* The mutex of the runtime: the receipt.
Allow(r) ==
    /\ pc[r] = "allowed"
    /\ runtime' = Recorded(runtime, "allowed", local[r].event, local[r].now)
    /\ Return(r)
    /\ UNCHANGED <<second, chain, events, started, overlapped, severed>>

\* record_blocked: the head is read under the mutex of the chain ...
AnchorBlock(r) ==
    /\ pc[r] = "blocked"
    /\ Goto(r, "refused") /\ Hold(r, [local[r] EXCEPT !.head = chain.head])
    /\ UNCHANGED <<second, chain, runtime, events, started, overlapped, severed>>

\* ... and the receipt signed and pushed without it.
Refuse(r) ==
    /\ pc[r] = "refused"
    /\ LET event == [kind |-> "blocked", parent |-> local[r].head, iac |-> local[r].iac,
                     nonce |-> 0, at |-> local[r].now, why |-> local[r].why]
       IN  /\ events' = Signed(event)
           /\ runtime' = Recorded(runtime, "blocked", HashOf(event), local[r].now)
    /\ Return(r)
    /\ UNCHANGED <<second, chain, started, overlapped, severed>>
-----------------------------------------------------------------------------
(* sever_session: the scope and the head are read, each under its own mutex; *)
(* after the alert the scope is marked, then the credential dropped.         *)
Sever(r) ==
    /\ Begin(r)
    /\ Goto(r, "mark") /\ Hold(r, [NewLocal EXCEPT !.iac = runtime.iac])
    /\ UNCHANGED <<second, chain, runtime, events, severed>>

Mark(r) ==
    /\ pc[r] = "mark"
    /\ chain' = MarkDegraded(chain, {iac.scope : iac \in local[r].iac})
    /\ Goto(r, "drop")
    /\ UNCHANGED <<second, runtime, events, local, started, overlapped, severed>>

\* Mutant: the scope is marked, the credential stays active.
DropNothing(r) ==
    /\ pc[r] = "drop"
    /\ runtime' = Logged(runtime, "severed", 0, local[r].now)
    /\ severed' = severed \cup {[id |-> iac.id, before |-> started] : iac \in runtime.iac}
    /\ Return(r)
    /\ UNCHANGED <<second, chain, events, started, overlapped>>

Drop(r) ==
    /\ pc[r] = "drop"
    /\ runtime' = [Logged(runtime, "severed", 0, local[r].now) EXCEPT !.iac = {}]
    /\ severed' = severed \cup {[id |-> iac.id, before |-> started] : iac \in runtime.iac}
    /\ Return(r)
    /\ UNCHANGED <<second, chain, events, started, overlapped>>
-----------------------------------------------------------------------------
(* api_reset: the chain under one lock, the runtime under the next.          *)
Reset(r) ==
    /\ Begin(r)
    /\ chain' = GenesisChain
    /\ Goto(r, "clear") /\ UNCHANGED local
    /\ UNCHANGED <<second, runtime, events, severed>>

\* The counter of the ids is all that is kept.
Clear(r) ==
    /\ pc[r] = "clear"
    /\ runtime' = Logged(NewRuntime(runtime.next), "reset", 0, second)
    /\ overlapped' = (Busy # {r})
    /\ Return(r)
    /\ UNCHANGED <<second, chain, events, started, severed>>

Wait ==
    /\ second < MaxSecond
    /\ second' = second + 1
    /\ UNCHANGED <<chain, runtime, events, pc, local, started, overlapped, severed>>

DemoStep(r) ==
    \/ Issue(r) \/ Install(r)
    \/ Act(r) \/ CheckLive(r) \/ Publish(r) \/ Allow(r) \/ AnchorBlock(r) \/ Refuse(r)
    \/ Sever(r) \/ Mark(r) \/ Drop(r)
    \/ Reset(r) \/ Clear(r)

DemoNext == Wait \/ \E r \in Requests : DemoStep(r)

DemoSpec == DemoInit /\ [][DemoNext]_demoVars
-----------------------------------------------------------------------------
(* verify_evidence_pack_pinned on the pack build_evidence_pack exports now:  *)
(* both take chain and runtime at one moment.                                *)

Receipts == runtime.receipts
IsAllowed(i) == events[Receipts[i].event].kind = "allowed"
AllowedBefore(i) == {j \in 1 .. i - 1 : IsAllowed(j)}

\* Every receipt continues the last allowed one before it.
Linked ==
    \A i \in DOMAIN Receipts : AllowedBefore(i) # {} =>
        events[Receipts[i].event].parent = Receipts[Max(AllowedBefore(i))].event

\* The unsigned timeline agrees with the receipts, while none was dropped.
TimelineAgrees ==
    Len(Receipts) < MaxReceipts =>
        \A t \in Range(runtime.timeline) : t.kind \in {"allowed", "blocked"} =>
            \E i \in DOMAIN Receipts : Receipts[i] = [id |-> t.id, event |-> t.cp]

\* The head is the last allowed receipt, unless the timeline has a reset since.
EndsAtHead ==
    LET allowed == {i \in DOMAIN Receipts : IsAllowed(i)}
        last == Receipts[Max(allowed)].event
    IN  allowed # {} =>
            \/ chain.head = last
            \/ \E t \in Range(runtime.timeline) : t.kind = "reset" /\ t.at >= events[last].at

Verifies == Linked /\ TimelineAgrees /\ EndsAtHead
-----------------------------------------------------------------------------
DemoTypeOK ==
    /\ chain \in ChainState
    /\ Len(runtime.timeline) <= MaxTimeline /\ Len(runtime.receipts) <= MaxReceipts
    /\ \A t \in Range(runtime.timeline) : t.cp \in 0 .. Len(events)
    /\ \A i \in DOMAIN Receipts : Receipts[i].event \in DOMAIN events
    /\ pc \in [Requests -> {"idle", "install", "check", "publish", "allowed", "blocked",
                            "refused", "mark", "drop", "clear"}]

\* docs/demo.md, "verify the receipt chain (pass/fail)": the pack of a visitor
\* whose requests came one at a time verifies between requests, through severs,
\* resets, refusals and dropped receipts.
HonestPackVerifies == ~overlapped /\ Busy = {} => Verifies

\* A pack that verifies and was not reset has every action allowed since its
\* first allowed receipt, however the requests interleaved: none is missing, none
\* out of place (demo.rs: verify_evidence_pack_pinned).
VerifiedIsComplete ==
    LET allowed == {Receipts[i].event : i \in {j \in DOMAIN Receipts : IsAllowed(j)}}
        reset == \E t \in Range(runtime.timeline) : t.kind = "reset"
        back[n \in Nat] == IF n \notin DOMAIN events THEN {}
                           ELSE IF n = Min(allowed) THEN {n} ELSE {n} \cup back[events[n].parent]
    IN  Verifies /\ allowed # {} /\ ~reset => allowed = back[chain.head]

\* The verdict of the verifier on a pack means what docs/demo.md says it means.
EvidenceIsSound == HonestPackVerifies /\ VerifiedIsComplete

\* A sever that has answered leaves only the actions that were under way: nothing
\* a later request asks for is published under the credential it revoked
\* (demo.rs: sever_session, run_tool_action).
SeverBinds ==
    [][\A r \in Requests : pc[r] = "publish" /\ pc'[r] = "allowed" =>
          \A s \in severed : s.id = Iac(r).id => local[r].no <= s.before]_demoVars
=============================================================================
