--------------------------- MODULE ServiceProofs ---------------------------
(***************************************************************************)
(* Proofs about the services around the gate: the credential files, the    *)
(* webhook's dead letters, the advisor's patches, the rate limit and the   *)
(* sessions of the demo, the key cache of the operator's login and the     *)
(* alarms, for any number of files, commands, events, attempts, denials,   *)
(* edits, visits, operators, keys, decisions and polls.                    *)
(***************************************************************************)
EXTENDS MCServices, DemoFront, Inductions

-----------------------------------------------------------------------------
(* Credential files.  An edit keeps the signature and may be undone, so the *)
(* invariant is about what the operator's signatures cover, whatever the   *)
(* file says by now.                                                       *)

Bodies == [scope : {"chat"}, caller : SUBSET Callers, models : SUBSET Models, tools : SUBSET Tools,
           forbidden : SUBSET Exports, until : Int, parent : Int]

Iacs == [scope : {"chat"}, caller : SUBSET Callers, models : SUBSET Models, tools : SUBSET Tools,
         forbidden : SUBSET Exports, until : Int, parent : Int,
         sig : SUBSET [by : {Operator, Stranger}, over : Bodies]]

\* What the operator's signature covers is what the operator named.
Covered(body) == body.caller \X Rights(body) \subseteq named

CredInv ==
    /\ file \in [Files -> SUBSET Iacs]
    /\ day \in Int /\ head \in Int
    /\ \A f \in Files : \A iac \in file[f] : \A s \in iac.sig :
          s.by = Operator => Covered(s.over)

\* A credential and its signed fields are of their types.
LEMMA BodyIs ==
    /\ \A iac \in Iacs : /\ Body(iac) \in Bodies
                         /\ Body(iac).caller = iac.caller /\ Rights(Body(iac)) = Rights(iac)
    /\ \A body \in Bodies, key \in {Operator, Stranger} :
          /\ SignedBy(key, body) \in Iacs
          /\ SignedBy(key, body).sig = {Signature(key, body)}
          /\ Signature(key, body).by = key /\ Signature(key, body).over = body
<1>1. ASSUME NEW iac \in Iacs
      PROVE  /\ Body(iac) \in Bodies
             /\ Body(iac).caller = iac.caller /\ Rights(Body(iac)) = Rights(iac)
  BY DEF Iacs, Bodies, Body, Rights
<1>2. ASSUME NEW body \in Bodies, NEW key \in {Operator, Stranger}
      PROVE  /\ Signature(key, body) \in [by : {Operator, Stranger}, over : Bodies]
             /\ Signature(key, body).by = key /\ Signature(key, body).over = body
  BY DEF Signature
<1>3. ASSUME NEW body \in Bodies, NEW key \in {Operator, Stranger}
      PROVE  /\ SignedBy(key, body) \in Iacs
             /\ SignedBy(key, body).sig = {Signature(key, body)}
  <2> DEFINE sig == {Signature(key, body)}
  <2>1. sig \in SUBSET [by : {Operator, Stranger}, over : Bodies]
    BY <1>2
  <2> HIDE DEF sig
  <2>2. Credential(body, sig) \in Iacs /\ Credential(body, sig).sig = sig
    BY <2>1 DEF Credential, Iacs, Bodies
  <2> QED
    BY <2>2 DEF SignedBy, sig
<1> QED
  BY <1>1, <1>2, <1>3

\* What the operator wrote by a command is covered.
LEMMA CommandKeeps ==
    ASSUME CredInv, NEW f \in Files, NEW body \in Bodies,
           file' = file \/ file' = [file EXCEPT ![f] = {SignedBy(Operator, body)}],
           named \subseteq named', Covered(body)', UNCHANGED <<day, head>>
    PROVE  CredInv'
<1>1. \A s : Covered(s) => Covered(s)'
  BY DEF Covered
<1>2. SignedBy(Operator, body) \in Iacs /\ SignedBy(Operator, body).sig = {Signature(Operator, body)}
      /\ Signature(Operator, body).over = body
  BY BodyIs
<1>3. file' \in [Files -> SUBSET Iacs]
  BY <1>2 DEF CredInv
<1>4. ASSUME NEW g \in Files, NEW iac \in file'[g], NEW s \in iac.sig, s.by = Operator
      PROVE  Covered(s.over)'
  <2>1. CASE iac \in file[g]
    BY <1>1, <1>4, <2>1 DEF CredInv
  <2>2. CASE iac \notin file[g]
    <3>1. iac = SignedBy(Operator, body)
      BY <2>2 DEF CredInv
    <3>2. s.over = body
      BY <1>2, <3>1
    <3> QED
      BY <3>2
  <2> QED
    BY <2>1, <2>2
<1> QED
  BY <1>3, <1>4 DEF CredInv

LEMMA CredStart == CredInit => CredInv
  BY DEF CredInit, CredInv

LEMMA IssueKeeps ==
    ASSUME CredInv, NEW f \in Files, NEW c \in Callers, NEW m \in Models, NEW tools \in SUBSET Tools,
           NEW ttl \in Int, Issue(f, c, m, tools, ttl)
    PROVE  CredInv'
<1>1. PICK parent \in 0 .. head :
        AnnounceAndWrite(f, SignedBy(Operator,
            [scope |-> "chat", caller |-> {c}, models |-> {m}, tools |-> tools,
             forbidden |-> Exports, until |-> day + ttl, parent |-> parent]))
  BY DEF Issue
<1> DEFINE body == [scope |-> "chat", caller |-> {c}, models |-> {m}, tools |-> tools,
                    forbidden |-> Exports, until |-> day + ttl, parent |-> parent]
<1>2. body \in Bodies
  <2>1. day + ttl \in Int /\ parent \in Int
    BY DEF CredInv
  <2> QED
    BY <2>1 DEF Bodies
<1>3. body.caller = {c} /\ Rights(body) = {m} \cup tools
  BY DEF Rights
<1>4. named' = named \cup ({c} \X ({m} \cup tools)) /\ UNCHANGED <<day, head>>
  BY DEF Issue
<1>5. body.caller \X Rights(body) \subseteq named'
  BY <1>3, <1>4
<1>6. file' = file \/ file' = [file EXCEPT ![f] = {SignedBy(Operator, body)}]
  BY <1>1 DEF AnnounceAndWrite
<1> HIDE DEF body
<1> QED
  BY <1>2, <1>4, <1>5, <1>6, CommandKeeps DEF Covered

\* A credential that the operator's key verifies is covered.
LEMMA SignedIsCovered ==
    ASSUME CredInv, NEW f \in Files, NEW iac \in file[f], VerifiesFor(Operator, iac)
    PROVE  iac \in Iacs /\ Covered(Body(iac)) /\ iac.caller \X Rights(iac) \subseteq named
<1>1. iac \in Iacs
  BY DEF CredInv
<1>2. Signature(Operator, Body(iac)) \in iac.sig
  BY DEF VerifiesFor
<1>3. Body(iac) \in Bodies
  BY <1>1, BodyIs
<1>4. /\ Signature(Operator, Body(iac)).by = Operator
      /\ Signature(Operator, Body(iac)).over = Body(iac)
  BY <1>3, BodyIs
<1>5. Covered(Body(iac))
  BY <1>2, <1>4 DEF CredInv
<1> QED
  BY <1>1, <1>5, BodyIs DEF Covered

LEMMA ReissueKeeps ==
    ASSUME CredInv, NEW f \in Files, NEW g \in Files, NEW given \in SUBSET Callers,
           NEW models \in SUBSET Models, NEW tools \in SUBSET Tools, NEW ttl,
           Reissue(f, g, given, models, tools, ttl)
    PROVE  CredInv'
<1>1. PICK old \in file[f], parent \in 0 .. head :
        \E body \in Successor(old, given, models, tools, ttl, parent) :
            /\ AnnounceAndWrite(g, SignedBy(Operator, body))
            /\ named' = named \cup (Kept(old.caller, given) \X (models \cup tools))
                  \cup (IF old.caller = {} THEN given \X Rights(old) ELSE {})
  BY DEF Reissue
<1>2. PICK body \in Successor(old, given, models, tools, ttl, parent) :
            /\ AnnounceAndWrite(g, SignedBy(Operator, body))
            /\ named' = named \cup (Kept(old.caller, given) \X (models \cup tools))
                  \cup (IF old.caller = {} THEN given \X Rights(old) ELSE {})
  BY <1>1
<1>3. /\ VerifiesFor(Operator, old) /\ ttl \in Int
      /\ body = [Body(old) EXCEPT !.caller = Kept(old.caller, given), !.until = day + ttl,
                                  !.parent = parent, !.models = @ \cup models, !.tools = @ \cup tools]
  BY <1>2 DEF Successor
<1>4. old \in Iacs /\ Body(old) \in Bodies /\ old.caller \X Rights(old) \subseteq named
      /\ Body(old).caller = old.caller /\ Rights(Body(old)) = Rights(old)
  BY <1>1, <1>3, SignedIsCovered, BodyIs
<1>5. Kept(old.caller, given) \in SUBSET Callers /\ day + ttl \in Int /\ parent \in Int
  BY <1>3, <1>4 DEF CredInv, Kept, Iacs
<1>6. /\ body \in Bodies /\ body.caller = Kept(old.caller, given)
      /\ body.models = Body(old).models \cup models /\ body.tools = Body(old).tools \cup tools
      /\ body.forbidden = Body(old).forbidden
  <2> HIDE DEF Body
  <2> QED
    BY <1>3, <1>4, <1>5 DEF Bodies
<1>7. Rights(body) = Rights(old) \cup models \cup tools
  BY <1>4, <1>6 DEF Rights
<1>8. body.caller \X Rights(body) \subseteq named'
  <2>1. ASSUME NEW c \in body.caller, NEW r \in Rights(body) PROVE <<c, r>> \in named'
    <3>1. CASE r \in models \cup tools
      BY <1>2, <1>6, <3>1
    <3>2. CASE r \in Rights(old)
      BY <1>2, <1>4, <1>6, <3>2 DEF Kept
    <3> QED
      BY <1>7, <3>1, <3>2
  <2> QED
    BY <2>1
<1>9. file' = file \/ file' = [file EXCEPT ![g] = {SignedBy(Operator, body)}]
  BY <1>2 DEF AnnounceAndWrite
<1>10. named \subseteq named' /\ UNCHANGED <<day, head>>
  BY <1>2 DEF Reissue
<1> QED
  BY <1>6, <1>8, <1>9, <1>10, CommandKeeps DEF Covered

LEMMA SignKeeps ==
    ASSUME CredInv, NEW f \in Files, NEW g \in Files, Sign(f, g)
    PROVE  CredInv'
<1>1. PICK iac \in file[f] :
        /\ file' = [file EXCEPT ![g] = {SignedBy(Operator, Body(iac))}]
        /\ named' = named \cup (iac.caller \X Rights(iac))
  BY DEF Sign
<1>2. iac \in Iacs
  BY DEF CredInv
<1>3. Body(iac) \in Bodies /\ Body(iac).caller = iac.caller /\ Rights(Body(iac)) = Rights(iac)
  BY <1>2, BodyIs
<1>4. Body(iac).caller \X Rights(Body(iac)) \subseteq named' /\ named \subseteq named'
  BY <1>1, <1>3
<1>5. UNCHANGED <<day, head>>
  BY DEF Sign
<1> QED
  BY <1>1, <1>3, <1>4, <1>5, CommandKeeps DEF Covered

\* An edit keeps the signature; another signature is not the operator's.
LEMMA EditKeeps ==
    ASSUME CredInv, NEW f \in Files, Edit(f)
    PROVE  CredInv'
<1>1. PICK iac \in file[f], new \in Iacs :
        /\ file' = [file EXCEPT ![f] = {new}]
        /\ \A s \in new.sig : s.by = Operator => s \in iac.sig
  <2>1. PICK iac \in file[f] :
          \/ \E m \in Models : file' = [file EXCEPT ![f] = {[iac EXCEPT !.models = @ \cup {m}]}]
          \/ \E t \in Tools : file' = [file EXCEPT ![f] = {[iac EXCEPT !.tools = @ \cup {t}]}]
          \/ \E x \in Exports : file' = [file EXCEPT ![f] = {[iac EXCEPT !.forbidden = @ \ {x}]}]
          \/ \E c \in {{}} \cup {{k} : k \in Callers} : file' = [file EXCEPT ![f] = {[iac EXCEPT !.caller = c]}]
          \/ file' = [file EXCEPT ![f] = {SignedBy(Stranger, Body(iac))}]
    BY DEF Edit
  <2>2. iac \in Iacs
    BY DEF CredInv
  <2>3. /\ \A m \in Models : [iac EXCEPT !.models = @ \cup {m}] \in Iacs
        /\ \A t \in Tools : [iac EXCEPT !.tools = @ \cup {t}] \in Iacs
        /\ \A x \in Exports : [iac EXCEPT !.forbidden = @ \ {x}] \in Iacs
        /\ \A c \in SUBSET Callers : [iac EXCEPT !.caller = c] \in Iacs
    BY <2>2 DEF Iacs
  <2>4. /\ \A m \in Models : [iac EXCEPT !.models = @ \cup {m}].sig = iac.sig
        /\ \A t \in Tools : [iac EXCEPT !.tools = @ \cup {t}].sig = iac.sig
        /\ \A x \in Exports : [iac EXCEPT !.forbidden = @ \ {x}].sig = iac.sig
        /\ \A c \in SUBSET Callers : [iac EXCEPT !.caller = c].sig = iac.sig
    BY <2>2 DEF Iacs
  <2>5. CASE file' = [file EXCEPT ![f] = {SignedBy(Stranger, Body(iac))}]
    <3> DEFINE new == SignedBy(Stranger, Body(iac))
    <3>1. new \in Iacs /\ \A s \in new.sig : s.by = Stranger
      BY <2>2, BodyIs
    <3>2. \A s \in new.sig : s.by = Operator => s \in iac.sig
      BY <3>1, KeysAssumption
    <3>3. file' = [file EXCEPT ![f] = {new}] /\ iac \in file[f]
      BY <2>1, <2>5
    <3> HIDE DEF new
    <3> QED
      BY <3>1, <3>2, <3>3
  <2>6. CASE \E c \in {{}} \cup {{k} : k \in Callers} :
               file' = [file EXCEPT ![f] = {[iac EXCEPT !.caller = c]}]
    <3>1. \A c \in {{}} \cup {{k} : k \in Callers} : c \in SUBSET Callers
      OBVIOUS
    <3> QED
      BY <2>3, <2>4, <2>6, <3>1
  <2> QED
    BY <2>1, <2>3, <2>4, <2>5, <2>6
<1>2. UNCHANGED <<day, head, named>>
  BY DEF Edit
<1>3. file' \in [Files -> SUBSET Iacs]
  BY <1>1 DEF CredInv
<1>4. \A s : Covered(s)' = Covered(s)
  BY <1>2 DEF Covered
<1>5. ASSUME NEW g \in Files, NEW d \in file'[g], NEW s \in d.sig, s.by = Operator
      PROVE  Covered(s.over)'
  BY <1>1, <1>4, <1>5 DEF CredInv
<1> QED
  BY <1>2, <1>3, <1>5 DEF CredInv

LEMMA CredStep == CredInv /\ [CredNext]_credVars => CredInv'
<1> SUFFICES ASSUME CredInv, [CredNext]_credVars PROVE CredInv'
  OBVIOUS
<1>1. CASE Pass \/ UNCHANGED credVars
  BY <1>1 DEF Pass, credVars, CredInv, Covered
<1>2. ASSUME NEW f \in Files, Edit(f) PROVE CredInv'
  BY <1>2, EditKeeps
<1>3. ASSUME NEW f \in Files, NEW g \in Files, Sign(f, g) PROVE CredInv'
  BY <1>3, SignKeeps
<1>4. ASSUME NEW f \in Files, NEW c \in Callers, NEW m \in Models, NEW tools \in SUBSET Tools,
             Issue(f, c, m, tools, 1)
      PROVE  CredInv'
  BY <1>4, IssueKeeps
<1>5. ASSUME NEW f \in Files, NEW g \in Files, NEW given \in {{}} \cup {{c} : c \in Callers},
             NEW models \in SUBSET Models, NEW tools \in SUBSET Tools, NEW ttl,
             Reissue(f, g, given, models, tools, ttl)
      PROVE  CredInv'
  BY <1>5, ReissueKeeps
<1> QED
  BY <1>1, <1>2, <1>3, <1>4, <1>5 DEF CredNext

\* What the operator's key lets a caller do, the operator has named for that caller,
\* through any chain of issues, reissues, signatures and edits, undone edits and
\* signatures of others included (iac.rs: reissue; main.rs: iac).
THEOREM CredentialsAreNotWidened == CredSpec => []NothingIsWidened
<1>1. CredInv => NothingIsWidened
  BY SignedIsCovered DEF NothingIsWidened, Signed
<1> QED
  BY <1>1, CredStart, CredStep, PTL DEF CredSpec

-----------------------------------------------------------------------------
(* The webhook.  What a delivery has left behind is settled: the receiver  *)
(* has the event or there is a letter, and the letters are about receivers *)
(* that all attempts were made at.                                         *)

Concluded(e, u) == <<e, u>> \in got \/ Lettered(e, u)

\* The URLs that delivery e is done with.
Behind(e) == {u \in 1 .. Urls : \/ u < task[e].url
                                \/ u = task[e].url /\ task[e].place \in {"newline", "done"}}

HookInv ==
    /\ HookTypeOK
    /\ lettered => \A e \in Events \ aborted :
          /\ \A u \in Behind(e) : Concluded(e, u)
          /\ task[e].place = "done" => task[e].url = Urls
    /\ \A e \in Events : task[e].place \in {"record", "newline"} => task[e].attempt = MaxAttempts
    /\ \A e \in Events : task[e].place = "unsent" => task[e].url = 1 /\ task[e].attempt = 0
    /\ LettersAreEarned

Places == {"unsent", "posting", "record", "newline", "done", "lost"}

\* Where a delivery goes.
LEMMA GoIs ==
    ASSUME HookTypeOK, NEW e \in Events, NEW spot \in Places, NEW url \in 1 .. Urls,
           NEW attempt \in 0 .. MaxAttempts, Go(e, spot, url, attempt)
    PROVE  /\ task'[e].place = spot /\ task'[e].url = url /\ task'[e].attempt = attempt
           /\ \A d \in Events \ {e} : task'[d] = task[d]
           /\ task' \in [Events -> [place : Places, url : 1 .. Urls, attempt : 0 .. MaxAttempts]]
<1> DEFINE new == [place |-> spot, url |-> url, attempt |-> attempt]
<1>1. new \in [place : Places, url : 1 .. Urls, attempt : 0 .. MaxAttempts]
  OBVIOUS
<1>2. new.place = spot /\ new.url = url /\ new.attempt = attempt
  OBVIOUS
<1>3. task' = [task EXCEPT ![e] = new]
  BY DEF Go
<1>4. task \in [Events -> [place : Places, url : 1 .. Urls, attempt : 0 .. MaxAttempts]]
  BY DEF HookTypeOK, Places
<1> HIDE DEF new
<1> QED
  BY <1>1, <1>2, <1>3, <1>4

\* One more line of the dead-letter file.
LEMMA LetterIs ==
    ASSUME HookTypeOK, NEW x \in (Events \X (1 .. Urls)) \cup {<<>>}, letters' = Append(letters, x)
    PROVE  /\ letters' \in Seq((Events \X (1 .. Urls)) \cup {<<>>})
           /\ \A e \in Events, u \in 1 .. Urls : Lettered(e, u)' <=> Lettered(e, u) \/ <<e, u>> = x
<1>1. letters \in Seq((Events \X (1 .. Urls)) \cup {<<>>}) /\ DOMAIN letters = 1 .. Len(letters)
      /\ Len(letters) \in Nat
  BY DEF HookTypeOK
<1>2. letters' \in Seq((Events \X (1 .. Urls)) \cup {<<>>}) /\ DOMAIN letters' = 1 .. Len(letters) + 1
      /\ letters'[Len(letters) + 1] = x /\ \A i \in 1 .. Len(letters) : letters'[i] = letters[i]
  BY <1>1
<1>3. ASSUME NEW e \in Events, NEW u \in 1 .. Urls
      PROVE  Lettered(e, u)' <=> Lettered(e, u) \/ <<e, u>> = x
  <2>1. Lettered(e, u)' <=> \E i \in 1 .. Len(letters) + 1 : letters'[i] = <<e, u>>
    BY <1>2 DEF Lettered
  <2>2. Lettered(e, u) <=> \E i \in 1 .. Len(letters) : letters[i] = <<e, u>>
    BY <1>1 DEF Lettered
  <2>3. \A i : i \in 1 .. Len(letters) + 1 <=> i \in 1 .. Len(letters) \/ i = Len(letters) + 1
    BY <1>1
  <2> QED
    BY <1>2, <2>1, <2>2, <2>3
<1> QED
  BY <1>2, <1>3

\* A step of delivery e keeps the invariant if it keeps what it was done with.
LEMMA DeliveryKeeps ==
    ASSUME HookInv, NEW e \in Events, NEW spot \in Places \ {"unsent"}, NEW url \in 1 .. Urls,
           NEW attempt \in 0 .. MaxAttempts, Go(e, spot, url, attempt),
           got \subseteq got', got' \subseteq Events \X (1 .. Urls),
           letters' \in Seq((Events \X (1 .. Urls)) \cup {<<>>}),
           \A d \in Events, u \in 1 .. Urls : Lettered(d, u) => Lettered(d, u)',
           \A d \in Events, u \in 1 .. Urls :
               Lettered(d, u)' => Lettered(d, u)
                                  \/ (d = e /\ u = url /\ attempt = MaxAttempts),
           aborted \subseteq aborted', aborted' \subseteq Events, UNCHANGED lettered,
           \A d \in Events \ {e} : d \in aborted' => d \in aborted,
           spot \in {"record", "newline"} => attempt = MaxAttempts,
           \A u \in 1 .. Urls : Lettered(e, u) =>
               u < url \/ (u = url /\ attempt = MaxAttempts),
           lettered /\ e \notin aborted' =>
               /\ spot = "done" => url = Urls
               /\ \A u \in 1 .. Urls :
                     u < url \/ (u = url /\ spot \in {"newline", "done"}) =>
                     u \in Behind(e) \/ Concluded(e, u)'
    PROVE  HookInv'
<1>1. /\ task'[e].place = spot /\ task'[e].url = url /\ task'[e].attempt = attempt
      /\ \A d \in Events \ {e} : task'[d] = task[d]
      /\ task' \in [Events -> [place : Places, url : 1 .. Urls, attempt : 0 .. MaxAttempts]]
  BY GoIs DEF HookInv
<1>2. HookTypeOK'
  BY <1>1 DEF HookTypeOK, Places
<1>3. \A d \in Events, u \in 1 .. Urls : Concluded(d, u) => Concluded(d, u)'
  BY DEF Concluded
<1>4. ASSUME lettered', NEW d \in Events \ aborted'
      PROVE  /\ \A u \in Behind(d)' : Concluded(d, u)'
             /\ task'[d].place = "done" => task'[d].url = Urls
  <2>1. CASE d = e
    BY <1>1, <1>3, <1>4, <2>1 DEF HookInv, Behind
  <2>2. CASE d # e
    BY <1>1, <1>3, <1>4, <2>2 DEF HookInv, Behind
  <2> QED
    BY <2>1, <2>2
<1>5. \A d \in Events : task'[d].place \in {"record", "newline"} => task'[d].attempt = MaxAttempts
  BY <1>1 DEF HookInv
<1>6. LettersAreEarned'
  <2> SUFFICES ASSUME NEW d \in Events, NEW u \in 1 .. Urls, Lettered(d, u)'
               PROVE  u < task'[d].url \/ (u = task'[d].url /\ task'[d].attempt = MaxAttempts)
    BY DEF LettersAreEarned
  <2>1. CASE d = e
    BY <1>1, <2>1
  <2>2. CASE d # e
    BY <1>1, <2>2 DEF HookInv, LettersAreEarned
  <2> QED
    BY <2>1, <2>2
<1>7. \A d \in Events : task'[d].place = "unsent" => task'[d].url = 1 /\ task'[d].attempt = 0
  BY <1>1 DEF HookInv
<1> QED
  BY <1>2, <1>4, <1>5, <1>6, <1>7 DEF HookInv

\* The place of a delivery.
LEMMA TaskIs ==
    ASSUME HookInv, NEW e \in Events
    PROVE  /\ task[e].url \in 1 .. Urls /\ task[e].attempt \in 0 .. MaxAttempts
           /\ task[e].place \in Places
           /\ \A u \in 1 .. Urls : Lettered(e, u) =>
                 u < task[e].url \/ (u = task[e].url /\ task[e].attempt = MaxAttempts)
           /\ MaxAttempts \in Nat /\ Urls \in Nat /\ MaxAttempts # 0 /\ Urls # 0
  BY WebhookAssumption DEF HookInv, HookTypeOK, LettersAreEarned, Places

\* A delivery goes to the next URL when it is done with this one.
LEMMA NextUrlKeeps ==
    ASSUME HookInv, NEW e \in Events, NextUrl(e),
           got \subseteq got', got' \subseteq Events \X (1 .. Urls),
           letters' \in Seq((Events \X (1 .. Urls)) \cup {<<>>}),
           \A d \in Events, u \in 1 .. Urls : Lettered(d, u)' <=> Lettered(d, u),
           UNCHANGED <<lettered, aborted>>,
           lettered /\ e \notin aborted =>
               \A u \in 1 .. Urls : u = task[e].url => u \in Behind(e) \/ Concluded(e, u)'
    PROVE  HookInv'
<1> DEFINE url == task[e].url
           attempt == task[e].attempt
<1>1. /\ url \in 1 .. Urls /\ attempt \in 0 .. MaxAttempts
      /\ \A u \in 1 .. Urls : Lettered(e, u) => u < url \/ (u = url /\ attempt = MaxAttempts)
      /\ MaxAttempts \in Nat /\ Urls \in Nat /\ MaxAttempts # 0
  BY TaskIs
<1>2. \A u \in 1 .. Urls : u < url => u \in Behind(e)
  BY DEF Behind
<1>3. aborted \subseteq Events
  BY DEF HookInv, HookTypeOK
<1>4. CASE url < Urls
  <2>1. Go(e, "posting", url + 1, 1)
    BY <1>4 DEF NextUrl
  <2>2. url + 1 \in 1 .. Urls /\ 1 \in 0 .. MaxAttempts /\ "posting" \in Places \ {"unsent"}
    BY <1>1, <1>4 DEF Places
  <2>3. \A u \in 1 .. Urls : u < url + 1 => u < url \/ u = url
    BY <1>1
  <2>4. \A u \in 1 .. Urls : Lettered(e, u) => u < url + 1
    BY <1>1
  <2>5. lettered /\ e \notin aborted' =>
          \A u \in 1 .. Urls : u < url + 1 => u \in Behind(e) \/ Concluded(e, u)'
    BY <1>2, <2>3
  <2> HIDE DEF url, attempt
  <2> QED
    BY <1>3, <2>1, <2>2, <2>4, <2>5, DeliveryKeeps
<1>5. CASE ~(url < Urls)
  <2>1. Go(e, "done", url, attempt)
    BY <1>5 DEF NextUrl
  <2>2. url = Urls /\ "done" \in Places \ {"unsent"}
    BY <1>1, <1>5 DEF Places
  <2>3. lettered /\ e \notin aborted' =>
          \A u \in 1 .. Urls : u < url \/ u = url => u \in Behind(e) \/ Concluded(e, u)'
    BY <1>2
  <2> HIDE DEF url, attempt
  <2> QED
    BY <1>1, <1>3, <2>1, <2>2, <2>3, DeliveryKeeps
<1> QED
  BY <1>4, <1>5

LEMMA ShipKeeps ==
    ASSUME HookInv, NEW e \in Events, Ship(e)
    PROVE  HookInv'
<1>1. Go(e, "posting", 1, 1) /\ UNCHANGED <<got, letters, lettered, aborted>>
  BY DEF Ship
<1>2. 1 \in 1 .. Urls /\ 1 \in 0 .. MaxAttempts /\ "posting" \in Places \ {"unsent"}
  BY WebhookAssumption DEF Places
<1>3. task[e].url = 1 /\ task[e].attempt = 0
  BY DEF Ship, HookInv
<1>4. ASSUME NEW u \in 1 .. Urls PROVE ~Lettered(e, u) /\ ~(u < 1)
  BY <1>3, TaskIs
<1>5. got \subseteq Events \X (1 .. Urls) /\ aborted \subseteq Events
      /\ letters \in Seq((Events \X (1 .. Urls)) \cup {<<>>})
  BY DEF HookInv, HookTypeOK
<1>6. \A d \in Events, u \in 1 .. Urls : Lettered(d, u)' <=> Lettered(d, u)
  BY <1>1 DEF Lettered
<1>7. \A u \in 1 .. Urls : ~(u < 1 \/ (u = 1 /\ "posting" \in {"newline", "done"}))
  BY <1>4
<1> QED
  BY <1>1, <1>2, <1>4, <1>5, <1>6, <1>7, DeliveryKeeps

LEMMA DeliverKeeps ==
    ASSUME HookInv, NEW e \in Events, Deliver(e)
    PROVE  HookInv'
<1>1. /\ got' = got \cup {<<e, task[e].url>>} /\ NextUrl(e)
      /\ UNCHANGED <<letters, lettered, aborted>>
  BY DEF Deliver
<1>2. task[e].url \in 1 .. Urls /\ got \subseteq Events \X (1 .. Urls)
      /\ letters \in Seq((Events \X (1 .. Urls)) \cup {<<>>})
  BY TaskIs DEF HookInv, HookTypeOK
<1>3. got' \subseteq Events \X (1 .. Urls) /\ <<e, task[e].url>> \in got'
  BY <1>1, <1>2
<1>4. \A u \in 1 .. Urls : u = task[e].url => Concluded(e, u)'
  BY <1>3 DEF Concluded
<1>5. \A d \in Events, u \in 1 .. Urls : Lettered(d, u)' <=> Lettered(d, u)
  BY <1>1 DEF Lettered
<1> QED
  BY <1>1, <1>2, <1>3, <1>4, <1>5, NextUrlKeeps

LEMMA PostFailsKeeps ==
    ASSUME HookInv, NEW e \in Events, PostFails(e)
    PROVE  HookInv'
<1> DEFINE url == task[e].url
           attempt == task[e].attempt
<1>1. /\ got' \in {got, got \cup {<<e, url>>}}
      /\ UNCHANGED <<letters, lettered, aborted>>
      /\ task[e].place = "posting"
  BY DEF PostFails
<1>2. /\ url \in 1 .. Urls /\ attempt \in 0 .. MaxAttempts /\ MaxAttempts \in Nat
      /\ \A u \in 1 .. Urls : Lettered(e, u) => u < url \/ (u = url /\ attempt = MaxAttempts)
  BY TaskIs
<1>3. got \subseteq Events \X (1 .. Urls) /\ aborted \subseteq Events
      /\ letters \in Seq((Events \X (1 .. Urls)) \cup {<<>>})
  BY DEF HookInv, HookTypeOK
<1>4. got' \subseteq Events \X (1 .. Urls) /\ got \subseteq got'
  BY <1>1, <1>2, <1>3
<1>5. \A d \in Events, u \in 1 .. Urls : Lettered(d, u)' <=> Lettered(d, u)
  BY <1>1 DEF Lettered
<1>6. \A u \in 1 .. Urls : u < url => u \in Behind(e)
  BY DEF Behind
<1>7. CASE attempt < MaxAttempts
  <2>1. Go(e, "posting", url, attempt + 1)
    BY <1>7 DEF PostFails
  <2>2. attempt + 1 \in 0 .. MaxAttempts /\ "posting" \in Places \ {"unsent"}
    BY <1>2, <1>7 DEF Places
  <2>3. \A u \in 1 .. Urls : Lettered(e, u) => u < url
    BY <1>2, <1>7
  <2>4. \A u \in 1 .. Urls : u < url \/ (u = url /\ "posting" \in {"newline", "done"}) => u \in Behind(e)
    BY <1>6
  <2> HIDE DEF url, attempt
  <2> QED
    BY <1>1, <1>2, <1>3, <1>4, <1>5, <2>1, <2>2, <2>3, <2>4, DeliveryKeeps
<1>8. CASE ~(attempt < MaxAttempts) /\ lettered
  <2>1. Go(e, "record", url, attempt) /\ attempt = MaxAttempts
    BY <1>2, <1>8 DEF PostFails
  <2>2. "record" \in Places \ {"unsent"}
    BY DEF Places
  <2>3. \A u \in 1 .. Urls : u < url \/ (u = url /\ "record" \in {"newline", "done"}) => u \in Behind(e)
    BY <1>6
  <2> HIDE DEF url, attempt
  <2> QED
    BY <1>1, <1>2, <1>3, <1>4, <1>5, <2>1, <2>2, <2>3, DeliveryKeeps
<1>9. CASE ~(attempt < MaxAttempts) /\ ~lettered
  <2>1. NextUrl(e)
    BY <1>9 DEF PostFails
  <2> QED
    BY <1>1, <1>3, <1>4, <1>5, <1>9, <2>1, NextUrlKeeps
<1> QED
  BY <1>7, <1>8, <1>9

LEMMA WriteRecordKeeps ==
    ASSUME HookInv, NEW e \in Events, WriteRecord(e)
    PROVE  HookInv'
<1> DEFINE url == task[e].url
           attempt == task[e].attempt
<1>1. /\ letters' = Append(letters, <<e, url>>) /\ Go(e, "newline", url, attempt)
      /\ UNCHANGED <<got, lettered, aborted>>
      /\ task[e].place = "record"
  BY DEF WriteRecord
<1>2. /\ url \in 1 .. Urls /\ attempt \in 0 .. MaxAttempts /\ attempt = MaxAttempts
      /\ \A u \in 1 .. Urls : Lettered(e, u) => u < url \/ (u = url /\ attempt = MaxAttempts)
  BY <1>1, TaskIs DEF HookInv
<1>3. /\ HookTypeOK /\ <<e, url>> \in (Events \X (1 .. Urls)) \cup {<<>>}
      /\ got \subseteq Events \X (1 .. Urls) /\ aborted \subseteq Events
  BY <1>2 DEF HookInv, HookTypeOK
<1>4. /\ letters' \in Seq((Events \X (1 .. Urls)) \cup {<<>>})
      /\ \A d \in Events, u \in 1 .. Urls : Lettered(d, u)' <=> Lettered(d, u) \/ <<d, u>> = <<e, url>>
  BY <1>1, <1>3, LetterIs
<1>5. \A d \in Events, u \in 1 .. Urls : <<d, u>> = <<e, url>> <=> d = e /\ u = url
  OBVIOUS
<1>6. \A u \in 1 .. Urls : /\ u < url => u \in Behind(e)
                           /\ u = url => Concluded(e, u)'
  BY <1>4 DEF Behind, Concluded
<1>7. "newline" \in Places \ {"unsent"}
  BY DEF Places
<1>8. \A u \in 1 .. Urls : u < url \/ (u = url /\ "newline" \in {"newline", "done"})
                             => u \in Behind(e) \/ Concluded(e, u)'
  BY <1>6
<1>9. /\ \A d \in Events, u \in 1 .. Urls : Lettered(d, u) => Lettered(d, u)'
      /\ \A d \in Events, u \in 1 .. Urls :
           Lettered(d, u)' => Lettered(d, u) \/ (d = e /\ u = url /\ attempt = MaxAttempts)
  BY <1>2, <1>4, <1>5
<1> HIDE DEF url, attempt
<1> QED
  BY <1>1, <1>2, <1>3, <1>4, <1>7, <1>8, <1>9, DeliveryKeeps

LEMMA WriteNewlineKeeps ==
    ASSUME HookInv, NEW e \in Events, WriteNewline(e)
    PROVE  HookInv'
<1>1. /\ letters' = Append(letters, <<>>) /\ NextUrl(e)
      /\ UNCHANGED <<got, lettered, aborted>>
      /\ task[e].place = "newline"
  BY DEF WriteNewline
<1>2. /\ HookTypeOK /\ <<>> \in (Events \X (1 .. Urls)) \cup {<<>>}
      /\ got \subseteq Events \X (1 .. Urls)
  BY DEF HookInv, HookTypeOK
<1>3. /\ letters' \in Seq((Events \X (1 .. Urls)) \cup {<<>>})
      /\ \A d \in Events, u \in 1 .. Urls : Lettered(d, u)' <=> Lettered(d, u) \/ <<d, u>> = <<>>
  BY <1>1, <1>2, LetterIs
<1>4. \A d \in Events, u \in 1 .. Urls : <<d, u>> # <<>>
  OBVIOUS
<1>5. \A u \in 1 .. Urls : u = task[e].url => u \in Behind(e)
  BY <1>1 DEF Behind
<1> QED
  BY <1>1, <1>2, <1>3, <1>4, <1>5, NextUrlKeeps

LEMMA LetterFailsKeeps ==
    ASSUME HookInv, NEW e \in Events, LetterFails(e)
    PROVE  HookInv'
<1>1. /\ Go(e, "done", task[e].url, task[e].attempt) /\ aborted' = aborted \cup {e}
      /\ UNCHANGED <<got, letters, lettered>>
  BY DEF LetterFails
<1>2. /\ task[e].url \in 1 .. Urls /\ task[e].attempt \in 0 .. MaxAttempts
      /\ \A u \in 1 .. Urls : Lettered(e, u) =>
            u < task[e].url \/ (u = task[e].url /\ task[e].attempt = MaxAttempts)
  BY TaskIs
<1>3. /\ got \subseteq Events \X (1 .. Urls) /\ aborted \subseteq Events
      /\ letters \in Seq((Events \X (1 .. Urls)) \cup {<<>>})
  BY DEF HookInv, HookTypeOK
<1>4. \A d \in Events, u \in 1 .. Urls : Lettered(d, u)' <=> Lettered(d, u)
  BY <1>1 DEF Lettered
<1>5. "done" \in Places \ {"unsent"}
  BY DEF Places
<1>6. /\ aborted \subseteq aborted' /\ aborted' \subseteq Events /\ e \in aborted'
      /\ \A d \in Events \ {e} : d \in aborted' => d \in aborted
  BY <1>1, <1>3
<1> QED
  BY <1>1, <1>2, <1>3, <1>4, <1>5, <1>6, DeliveryKeeps

LEMMA StopKeeps ==
    ASSUME HookInv, StopGate
    PROVE  HookInv'
<1>1. /\ UNCHANGED <<got, letters, lettered, aborted>>
      /\ task' = [e \in Events |->
            IF task[e].place \in {"unsent", "done"} THEN task[e] ELSE [task[e] EXCEPT !.place = "lost"]]
  BY DEF StopGate
<1>2. task \in [Events -> [place : Places, url : 1 .. Urls, attempt : 0 .. MaxAttempts]]
  BY DEF HookInv, HookTypeOK, Places
<1>3. ASSUME NEW e \in Events
      PROVE  /\ task'[e] \in [place : Places, url : 1 .. Urls, attempt : 0 .. MaxAttempts]
             /\ task'[e].url = task[e].url /\ task'[e].attempt = task[e].attempt
             /\ task'[e].place = task[e].place \/ task'[e].place = "lost"
  <2>1. task[e] \in [place : Places, url : 1 .. Urls, attempt : 0 .. MaxAttempts]
    BY <1>2
  <2> QED
    BY <1>1, <2>1 DEF Places
<1>4. HookTypeOK'
  <2>1. task' \in [Events -> [place : Places, url : 1 .. Urls, attempt : 0 .. MaxAttempts]]
    BY <1>1, <1>3
  <2> QED
    BY <1>1, <2>1 DEF HookInv, HookTypeOK, Places
<1>5. \A e \in Events, u \in 1 .. Urls : /\ Concluded(e, u)' <=> Concluded(e, u)
                                         /\ Lettered(e, u)' <=> Lettered(e, u)
  BY <1>1 DEF Concluded, Lettered
<1>6. \A e \in Events : Behind(e)' \subseteq Behind(e)
  BY <1>3 DEF Behind
<1>7. LettersAreEarned'
  BY <1>3, <1>5 DEF HookInv, LettersAreEarned
<1>8. lettered' => \A e \in Events \ aborted' :
          /\ \A u \in Behind(e)' : Concluded(e, u)'
          /\ task'[e].place = "done" => task'[e].url = Urls
  <2>1. \A e \in Events : Behind(e) \subseteq 1 .. Urls
    BY DEF Behind
  <2> QED
    BY <1>1, <1>3, <1>5, <1>6, <2>1 DEF HookInv
<1> QED
  BY <1>3, <1>4, <1>7, <1>8 DEF HookInv

LEMMA HookStart == HookInit => HookInv
<1> SUFFICES ASSUME HookInit PROVE HookInv
  OBVIOUS
<1>1. \A e \in Events : task[e].place = "unsent" /\ task[e].url = 1 /\ task[e].attempt = 0
  BY DEF HookInit, Idle
<1>2. HookTypeOK
  <2>1. Idle \in [place : Places, url : 1 .. Urls, attempt : 0 .. MaxAttempts]
    BY WebhookAssumption DEF Idle, Places
  <2> QED
    BY <2>1 DEF HookInit, HookTypeOK, Places
<1>3. LettersAreEarned
  BY DEF HookInit, LettersAreEarned, Lettered
<1>4. \A e \in Events : Behind(e) = {}
  BY <1>1, WebhookAssumption DEF Behind
<1> QED
  BY <1>1, <1>2, <1>3, <1>4 DEF HookInv

LEMMA HookStep == HookInv /\ [HookNext]_hookVars => HookInv'
<1> SUFFICES ASSUME HookInv, [HookNext]_hookVars PROVE HookInv'
  OBVIOUS
<1>1. CASE StopGate
  BY <1>1, StopKeeps
<1>2. ASSUME NEW e \in Events, Ship(e) \/ Deliveries(e) PROVE HookInv'
  BY <1>2, ShipKeeps, DeliverKeeps, PostFailsKeeps, WriteRecordKeeps, WriteNewlineKeeps,
     LetterFailsKeeps DEF Deliveries
<1>3. CASE UNCHANGED hookVars
  BY <1>3 DEF hookVars, HookInv, HookTypeOK, Behind, Concluded, Lettered, LettersAreEarned
<1> QED
  BY <1>1, <1>2, <1>3 DEF HookNext

\* A delivery that came to its end has given the event to every receiver or left a
\* letter for it, and a letter is left for a receiver only after all attempts at it,
\* for any number of events under way, receivers, attempts and restarts
\* (siem_webhook.rs: deliver, write_dead_letter).
THEOREM DeadLettersAreRight == HookSpec => []LettersAreRight
<1>1. HookInv => LettersAreRight
  BY WebhookAssumption DEF HookInv, HookTypeOK, LettersAreRight, NothingVanishes, Behind, Concluded
<1> QED
  BY <1>1, HookStart, HookStep, PTL DEF HookSpec
-----------------------------------------------------------------------------
(* The advisor's patches.  What a snapshot shows often enough stays in      *)
(* often while the ring moves on, and a patch names nothing else: so it     *)
(* does not matter how old the log is by the time the patch is merged.      *)

\* The entry that puts subject s into list k answers a denial.
Answers(k, s) ==
    /\ s \in Plain
    /\ \E d \in often : k \in ListOf(d.rule) /\ d.subject = s /\ ~d.authenticated

AdvisorInv ==
    /\ policy \in [Lists -> SUBSET Subjects]
    /\ byHand \in [Lists -> SUBSET Subjects]
    /\ \A counts \in snapshot : \A d \in DenialGroups : counts[d] >= MinDenials => d \in often
    /\ \A e \in patch : e \in Lists \X Plain /\ Answers(e[1], e[2])
    /\ \A k \in Lists : \A s \in policy[k] \ byHand[k] : Answers(k, s)

\* Patched adds to each list the entries named for it, and nothing else.
LEMMA PatchedIs ==
    ASSUME NEW lists, NEW entries
    PROVE  /\ \A k \in Lists : \A s : s \in Patched(lists, entries)[k] <=>
                 s \in lists[k] \/ \E e \in entries : e[1] = k /\ e[2] = s
           /\ \A S : (\A k \in Lists : lists[k] \subseteq S) /\ (\A e \in entries : e[2] \in S)
                      => Patched(lists, entries) \in [Lists -> SUBSET S]
<1> DEFINE Of(k) == {e[2] : e \in {f \in entries : f[1] = k}}
<1>1. ASSUME NEW k \in Lists, NEW s
      PROVE  s \in Of(k) <=> \E e \in entries : e[1] = k /\ e[2] = s
  OBVIOUS
<1> HIDE DEF Of
<1>2. Patched(lists, entries) = [k \in Lists |-> lists[k] \cup Of(k)]
  BY DEF Patched, Of
<1>3. ASSUME NEW k \in Lists, NEW s
      PROVE  s \in Patched(lists, entries)[k] <=>
                 s \in lists[k] \/ \E e \in entries : e[1] = k /\ e[2] = s
  BY <1>1, <1>2
<1>4. ASSUME NEW S, \A k \in Lists : lists[k] \subseteq S, \A e \in entries : e[2] \in S
      PROVE  Patched(lists, entries) \in [Lists -> SUBSET S]
  <2>1. ASSUME NEW k \in Lists
        PROVE  lists[k] \cup Of(k) \subseteq S
    BY <1>1, <1>4
  <2> QED
    BY <1>2, <2>1
<1> QED
  BY <1>3, <1>4

\* A patch contains what was denied often enough, to nobody in particular.
LEMMA ProposedIs ==
    \A lists, counts : \A e : e \in Proposed(lists, counts) <=>
        /\ e \in Lists \X Plain
        /\ e[2] \notin lists[e[1]]
        /\ \E d \in DenialGroups : counts[d] >= MinDenials /\ ~d.authenticated
                                /\ e[1] \in ListOf(d.rule) /\ d.subject = e[2]
BY DEF Proposed

LEMMA AdvisorStart == AdvisorInit => AdvisorInv
BY DEF AdvisorInit, AdvisorInv

LEMMA AdvisorStep == AdvisorInv /\ [AdvisorNext]_advisorVars => AdvisorInv'
<1> SUFFICES ASSUME AdvisorInv, [AdvisorNext]_advisorVars
             PROVE  AdvisorInv'
  OBVIOUS
<1>1. ASSUME NEW d \in DenialGroups, Deny(d) \/ Leave(d)
      PROVE  AdvisorInv'
  BY <1>1 DEF AdvisorInv, Answers, Deny, Leave
<1>2. CASE Fetch
  <2>1. \A k, s : Answers(k, s) => Answers(k, s)'
    BY <1>2 DEF Fetch, Answers
  <2>2. \A counts \in snapshot' : \A d \in DenialGroups : counts[d] >= MinDenials => d \in often'
    BY <1>2 DEF Fetch
  <2> QED
    BY <1>2, <2>1, <2>2 DEF AdvisorInv, Fetch
<1>3. CASE Analyze
  <2>1. PICK counts \in snapshot : patch' = Proposed(policy, counts)
    BY <1>3 DEF Analyze
  <2>2. ASSUME NEW e \in patch'
        PROVE  e \in Lists \X Plain /\ Answers(e[1], e[2])
    <3>1. e \in Lists \X Plain
          /\ \E d \in DenialGroups : counts[d] >= MinDenials /\ ~d.authenticated
                                  /\ e[1] \in ListOf(d.rule) /\ d.subject = e[2]
      BY <2>1, <2>2, ProposedIs
    <3>2. \A d \in DenialGroups : counts[d] >= MinDenials => d \in often
      BY <2>1 DEF AdvisorInv
    <3>3. e[2] \in Plain
      BY <3>1
    <3> QED
      BY <3>1, <3>2, <3>3 DEF Answers
  <2>3. \A k, s : Answers(k, s) => Answers(k, s)'
    BY <1>3 DEF Analyze, Answers
  <2> QED
    BY <1>3, <2>2, <2>3 DEF AdvisorInv, Analyze
<1>4. CASE Merge
  <2>1. policy' = Patched(policy, patch) /\ patch' = {}
        /\ UNCHANGED <<denials, snapshot, edits, byHand, often>>
    BY <1>4 DEF Merge
  <2>2. \A k, s : Answers(k, s) => Answers(k, s)'
    BY <2>1 DEF Answers
  <2>3. policy' \in [Lists -> SUBSET Subjects]
    <3>1. ASSUME NEW e \in patch
          PROVE  e[2] \in Subjects
      BY AdvisorAssumption DEF AdvisorInv
    <3>2. \A k \in Lists : policy[k] \subseteq Subjects
      BY DEF AdvisorInv
    <3> QED
      BY <2>1, <3>1, <3>2, PatchedIs
  <2>4. ASSUME NEW k \in Lists, NEW s \in policy'[k] \ byHand'[k]
        PROVE  Answers(k, s)
    <3>1. s \in policy[k] \/ \E e \in patch : e[1] = k /\ e[2] = s
      BY <2>1, <2>4, PatchedIs
    <3> QED
      BY <2>1, <2>4, <3>1 DEF AdvisorInv
  <2> QED
    BY <2>1, <2>2, <2>3, <2>4 DEF AdvisorInv
<1>5. ASSUME NEW k \in Lists, NEW s \in Subjects, EditPolicy(k, s)
      PROVE  AdvisorInv'
  <2>1. UNCHANGED <<denials, snapshot, patch, often>>
    BY <1>5 DEF EditPolicy
  <2>2. \A j, x : Answers(j, x) => Answers(j, x)'
    BY <2>1 DEF Answers
  <2>3. /\ policy' \in [Lists -> SUBSET Subjects] /\ byHand' \in [Lists -> SUBSET Subjects]
        /\ \A j \in Lists : policy'[j] \ byHand'[j] \subseteq policy[j] \ byHand[j]
    BY <1>5 DEF EditPolicy, AdvisorInv
  <2> QED
    BY <2>1, <2>2, <2>3 DEF AdvisorInv
<1>6. CASE UNCHANGED advisorVars
  BY <1>6 DEF advisorVars, AdvisorInv, Answers
<1> QED
  BY <1>1, <1>2, <1>3, <1>4, <1>5, <1>6 DEF AdvisorNext

\* analyze after the merge of its own patch: what it would propose again is
\* in the list already.
LEMMA PatchEndsItsDenials ==
    \A lists, counts : Proposed(Patched(lists, Proposed(lists, counts)), counts) = {}
<1> SUFFICES ASSUME NEW lists, NEW counts, NEW e,
                    e \in Proposed(Patched(lists, Proposed(lists, counts)), counts)
             PROVE  FALSE
  OBVIOUS
<1> DEFINE patched == Patched(lists, Proposed(lists, counts))
<1>1. e \in Lists \X Plain /\ e[2] \notin patched[e[1]]
      /\ \E d \in DenialGroups : counts[d] >= MinDenials /\ ~d.authenticated
                              /\ e[1] \in ListOf(d.rule) /\ d.subject = e[2]
  BY ProposedIs
<1>2. e[1] \in Lists
  BY <1>1
<1>3. e[2] \notin lists[e[1]] /\ e \notin Proposed(lists, counts)
  BY <1>1, <1>2, PatchedIs
<1> QED
  BY <1>1, <1>3, ProposedIs

\* membrane-advisor/src/lib.rs, "Narrowest change": whatever is decided, edited
\* and merged between the fetch of the log and the merge of a patch, an entry of
\* the registry that the operator did not write is a plain name that was denied
\* under that list's rule often enough and to nobody in particular; and a merged
\* patch settles the denials it answers.
THEOREM PatchesAnswerDenials == AdvisorSpec => []PatchesAreAnswers
<1>1. AdvisorInv => PatchesAreAnswers
  <2>1. AdvisorInv => OnlyDeniedIsAdded
    BY DEF AdvisorInv, Answers, OnlyDeniedIsAdded
  <2>2. PatchesSettle
    BY PatchEndsItsDenials DEF PatchesSettle
  <2> QED
    BY <2>1, <2>2 DEF PatchesAreAnswers
<1> QED
  BY AdvisorStart, AdvisorStep, <1>1, PTL DEF AdvisorSpec
-----------------------------------------------------------------------------
(* The rate limit of the demo.  The requests let through fall into those of *)
(* earlier windows, which were before the present one began, and those of   *)
(* the present one; only the last of the earlier windows can reach into a   *)
(* minute together with the present one.                                    *)

fvars == <<clock, frontVars>>

\* Which of the first n requests let through carry a time of a to b.
Within(n, a, b) == {i \in 1 .. n : a <= passed[i] /\ passed[i] <= b}

\* Which of the first n requests let through carry a time from a on.
Since(n, a) == {i \in 1 .. n : a <= passed[i]}

\* k requests were let through before the window w began.
Splits(w, k) ==
    /\ \A i \in 1 .. k : passed[i] < w.from
    /\ \A i \in k + 1 .. Len(passed) :
          w.from <= passed[i] + Late /\ passed[i] < w.from + Minute
    /\ Len(passed) <= k + w.count /\ Len(passed) <= k + PerMinute
    /\ Cardinality(Since(k, w.from - Minute)) <= PerMinute

Windows0 == [from : Int, count : Nat]

Spread == \A s \in Int : Cardinality(Within(Len(passed), s, s + Minute - Late)) <= 2 * PerMinute

RateTypes ==
    /\ clock \in Int /\ now \in [Tabs -> Int] /\ passed \in Seq(Int)
    /\ place \in [Tabs -> {"idle", "session", "rate", "rate_new"}]
    /\ \A t \in Tabs : place[t] # "idle" => now[t] <= clock /\ clock <= now[t] + Late

Windowed ==
    /\ \/ window = {} /\ passed = <<>>
       \/ \E w \in Windows0 : window = {w}
    /\ \A w \in window : w.from <= clock /\ \E k \in 0 .. Len(passed) : Splits(w, k)

RateInv == RateTypes /\ Windowed /\ Spread

\* Sets of indices are finite.
LEMMA IndicesAreFinite ==
    ASSUME NEW n \in Nat, NEW S \in SUBSET (1 .. n)
    PROVE  IsFiniteSet(S) /\ Cardinality(S) \in Nat
<1>1. IsFiniteSet(1 .. n)
  BY FS_Interval
<1> QED
  BY <1>1, FS_Subset, FS_CardinalityType

\* A minute that reaches the present window sees one earlier window at most.
LEMMA SplitBounds ==
    ASSUME NEW w \in Windows0, passed \in Seq(Int), NEW k \in 0 .. Len(passed), Splits(w, k),
           NEW s \in Int, w.from - Late <= s + Minute - Late
    PROVE  Cardinality(Within(Len(passed), s, s + Minute - Late)) <= 2 * PerMinute
<1> DEFINE old == Since(k, w.from - Minute)
           new == k + 1 .. Len(passed)
           all == Within(Len(passed), s, s + Minute - Late)
<1> USE FrontAssumption DEF FrontAssumption
<1>1. Len(passed) \in Nat /\ k \in Nat /\ w.from \in Int /\ \A i \in 1 .. Len(passed) : passed[i] \in Int
  BY DEF Windows0
<1>2. all \subseteq old \cup new
  <2> SUFFICES ASSUME NEW i \in 1 .. Len(passed), s <= passed[i], ~(i \in new)
               PROVE  i \in old
    BY DEF Within
  <2>1. i \in 1 .. k /\ passed[i] \in Int
    BY <1>1
  <2>2. w.from - Minute <= s
    BY <1>1
  <2> QED
    BY <1>1, <2>1, <2>2 DEF Since
<1>3. old \subseteq 1 .. Len(passed) /\ new \subseteq 1 .. Len(passed) /\ all \subseteq 1 .. Len(passed)
  BY <1>1 DEF Within, Since
<1>4. Cardinality(old) <= PerMinute
  BY DEF Splits
<1>5. Cardinality(new) <= PerMinute
  <2>1. Cardinality(new) = IF k + 1 > Len(passed) THEN 0 ELSE Len(passed) - (k + 1) + 1
    <3>1. k + 1 \in Int /\ Len(passed) \in Int
      BY <1>1
    <3> QED
      BY <3>1, FS_Interval
  <2>2. Len(passed) <= k + PerMinute
    BY DEF Splits
  <2> HIDE DEF new
  <2> QED
    BY <1>1, <2>1, <2>2
<1> HIDE DEF old, new, all
<1>6. IsFiniteSet(old) /\ IsFiniteSet(new) /\ IsFiniteSet(all)
      /\ Cardinality(old) \in Nat /\ Cardinality(new) \in Nat /\ Cardinality(all) \in Nat
  BY <1>1, <1>3, IndicesAreFinite
<1>7. IsFiniteSet(old \cup new) /\ IsFiniteSet(old \cap new)
      /\ Cardinality(old \cup new) = Cardinality(old) + Cardinality(new) - Cardinality(old \cap new)
  BY <1>6, FS_Union, FS_Subset
<1>8. Cardinality(old \cap new) \in Nat /\ Cardinality(old \cup new) \in Nat
  BY <1>7, FS_CardinalityType
<1>9. Cardinality(all) <= Cardinality(old \cup new)
  BY <1>2, <1>7, FS_Subset
<1>10. Cardinality(all) <= 2 * PerMinute
  BY <1>4, <1>5, <1>6, <1>7, <1>8, <1>9
<1> QED
  BY <1>10 DEF all

SplitBound ==
    \A w \in Windows0, k \in Nat, s \in Int :
        passed \in Seq(Int) /\ k \in 0 .. Len(passed) /\ Splits(w, k) /\ w.from - Late <= s + Minute - Late
           => Cardinality(Within(Len(passed), s, s + Minute - Late)) <= 2 * PerMinute

LEMMA SplitBoundHolds == SplitBound
BY SplitBounds DEF SplitBound

LEMMA SplitBoundNext == SplitBound'
BY SplitBoundHolds, PTL

\* What the limiter counts a request in: the present window, or a new one
\* behind which all earlier requests lie.
LEMMA CountedSplits ==
    ASSUME RateInv, NEW t \in Tabs, CountRequest(t)
    PROVE  \E w \in Windows0 :
              /\ window' = {w} /\ w.count > 0
              /\ w.from <= clock /\ w.from <= now[t] + Late /\ now[t] < w.from + Minute
              /\ \E k \in 0 .. Len(passed) : Splits(w, k) /\ Len(passed) + 1 <= k + w.count
              /\ passed' = IF w.count <= PerMinute THEN Append(passed, now[t]) ELSE passed
<1> USE FrontAssumption DEF FrontAssumption
<1> DEFINE s == now[t]
           c == Counted(s)
<1>1. /\ window' = {c}
      /\ passed' = IF c.count <= PerMinute THEN Append(passed, s) ELSE passed
  BY DEF CountRequest
<1>2. s \in Int /\ clock \in Int /\ s <= clock /\ clock <= s + Late
  BY DEF RateInv, RateTypes, CountRequest
<1>3. passed \in Seq(Int) /\ Len(passed) \in Nat /\ \A i \in 1 .. Len(passed) : passed[i] \in Int
  BY DEF RateInv, RateTypes
<1>4. CASE \E w \in window : s < w.from + Minute
  <2>1. PICK w \in Windows0 : window = {w}
    BY <1>4 DEF RateInv, Windowed
  <2>2. w.from \in Int /\ w.count \in Nat /\ w.from <= clock /\ s < w.from + Minute
    BY <1>2, <1>4, <2>1 DEF RateInv, Windowed, Windows0
  <2>3. PICK k \in 0 .. Len(passed) : Splits(w, k)
    BY <2>1 DEF RateInv, Windowed
  <2> DEFINE v == [w EXCEPT !.count = @ + 1]
  <2>4. {x \in window : s - x.from < Minute} = {w}
    BY <1>2, <2>1, <2>2
  <2>5. c = v
    BY <2>4 DEF Counted
  <2>6. v \in Windows0 /\ v.from = w.from /\ v.count = w.count + 1
    BY <2>2 DEF Windows0
  <2> HIDE DEF v, c
  <2>7. Splits(v, k) /\ Len(passed) + 1 <= k + v.count
    BY <1>3, <2>2, <2>3, <2>6 DEF Splits
  <2>8. v.count > 0 /\ v.from <= clock /\ v.from <= s + Late /\ s < v.from + Minute
    BY <1>2, <2>2, <2>6
  <2> QED
    BY <1>1, <2>5, <2>6, <2>7, <2>8
<1>5. CASE ~ \E w \in window : s < w.from + Minute
  <2> DEFINE v == [from |-> s, count |-> 1]
  <2>1. {x \in window : s - x.from < Minute} = {}
    BY <1>2, <1>5 DEF RateInv, Windowed, Windows0
  <2>2. c = v
    BY <2>1 DEF Counted
  <2>3. v \in Windows0 /\ v.from = s /\ v.count = 1
    BY <1>2 DEF Windows0
  <2> HIDE DEF v, c
  <2>4. \A i \in 1 .. Len(passed) : passed[i] < s
    <3>1. CASE window = {}
      BY <3>1 DEF RateInv, Windowed
    <3>2. ASSUME NEW w \in Windows0, window = {w}
          PROVE  \A i \in 1 .. Len(passed) : passed[i] < s
      <4>1. PICK k \in 0 .. Len(passed) : Splits(w, k)
        BY <3>2 DEF RateInv, Windowed
      <4>2. w.from \in Int /\ w.from + Minute <= s
        BY <1>2, <1>5, <3>2 DEF Windows0
      <4>3. ASSUME NEW i \in 1 .. Len(passed)
            PROVE  passed[i] < s
        <5>1. passed[i] \in Int /\ (i \in 1 .. k \/ i \in k + 1 .. Len(passed))
          BY <1>3
        <5>2. passed[i] < w.from \/ passed[i] < w.from + Minute
          BY <4>1, <5>1 DEF Splits
        <5> QED
          BY <1>2, <4>2, <5>1, <5>2
      <4> QED
        BY <4>3
    <3> QED
      BY <3>1, <3>2 DEF RateInv, Windowed
  <2>5. Cardinality(Since(Len(passed), s - Minute)) <= PerMinute
    <3>1. CASE window = {}
      <4>1. Since(Len(passed), s - Minute) = {}
        <5>1. passed = <<>> /\ Len(passed) = 0 /\ 1 .. 0 = {}
          BY <3>1 DEF RateInv, Windowed
        <5> QED
          BY <5>1 DEF Since
      <4>2. Cardinality({}) = 0 /\ 0 <= PerMinute
        BY FS_EmptySet
      <4> QED
        BY <4>1, <4>2
    <3>2. ASSUME NEW w \in Windows0, window = {w}
          PROVE  Cardinality(Since(Len(passed), s - Minute)) <= PerMinute
      <4>1. PICK k \in 0 .. Len(passed) : Splits(w, k)
        BY <3>2 DEF RateInv, Windowed
      <4>2. w.from \in Int /\ w.from + Minute <= s
        BY <1>2, <1>5, <3>2 DEF Windows0
      <4> DEFINE new == k + 1 .. Len(passed)
      <4>3. Since(Len(passed), s - Minute) \subseteq new
        <5>1. ASSUME NEW i \in Since(Len(passed), s - Minute)
              PROVE  i \in k + 1 .. Len(passed)
          <6>1. i \in 1 .. Len(passed) /\ s - Minute <= passed[i] /\ passed[i] \in Int
            BY <1>3 DEF Since
          <6>2. i \in 1 .. k => passed[i] < w.from
            BY <4>1 DEF Splits
          <6> QED
            BY <1>2, <1>3, <4>2, <6>1, <6>2
        <5> QED
          BY <5>1
      <4>4. IsFiniteSet(new) /\ Cardinality(new) = IF k + 1 > Len(passed) THEN 0 ELSE Len(passed) - (k + 1) + 1
        <5>1. k + 1 \in Int /\ Len(passed) \in Int
          BY <1>3
        <5> QED
          BY <5>1, FS_Interval
      <4> HIDE DEF new
      <4>5. Cardinality(Since(Len(passed), s - Minute)) <= Cardinality(new)
            /\ IsFiniteSet(Since(Len(passed), s - Minute))
        BY <4>3, <4>4, FS_Subset
      <4>6. Cardinality(new) <= PerMinute
        BY <1>3, <4>1, <4>4 DEF Splits
      <4>7. Cardinality(new) \in Nat /\ Cardinality(Since(Len(passed), s - Minute)) \in Nat
        BY <4>4, <4>5, FS_CardinalityType
      <4> QED
        BY <4>5, <4>6, <4>7
    <3> QED
      BY <3>1, <3>2 DEF RateInv, Windowed
  <2>6. Splits(v, Len(passed))
    BY <1>2, <1>3, <2>3, <2>4, <2>5 DEF Splits
  <2>7. Len(passed) \in 0 .. Len(passed) /\ Len(passed) + 1 <= Len(passed) + v.count
    BY <1>3, <2>3
  <2>8. v.count > 0 /\ v.from <= clock /\ v.from <= s + Late /\ s < v.from + Minute
    BY <1>2, <2>3
  <2> QED
    BY <1>1, <2>2, <2>3, <2>6, <2>7, <2>8
<1> QED
  BY <1>4, <1>5

\* Letting a request through, or refusing it, keeps the rate.
LEMMA CountKeeps ==
    ASSUME RateInv, UNCHANGED clock, NEW t \in Tabs, CountRequest(t)
    PROVE  RateInv'
<1> USE FrontAssumption DEF FrontAssumption
<1> DEFINE s == now[t]
           n == Len(passed)
<1>1. PICK w \in Windows0 :
         /\ window' = {w} /\ w.count > 0
         /\ w.from <= clock /\ w.from <= s + Late /\ s < w.from + Minute
         /\ \E k \in 0 .. n : Splits(w, k) /\ n + 1 <= k + w.count
         /\ passed' = IF w.count <= PerMinute THEN Append(passed, s) ELSE passed
  BY CountedSplits
<1>2. PICK k \in 0 .. n : Splits(w, k) /\ n + 1 <= k + w.count
  BY <1>1
<1>3. /\ s \in Int /\ passed \in Seq(Int) /\ n \in Nat /\ w.from \in Int /\ w.count \in Nat
      /\ \A i \in 1 .. n : passed[i] \in Int
  BY DEF RateInv, RateTypes, Windows0
<1>4. /\ clock' \in Int /\ now' \in [Tabs -> Int] /\ now' = now
      /\ place' \in [Tabs -> {"idle", "session", "rate", "rate_new"}]
      /\ \A u \in Tabs : place'[u] # "idle" => now'[u] <= clock' /\ clock' <= now'[u] + Late
  BY DEF RateInv, RateTypes, CountRequest
<1>5. CASE w.count > PerMinute
  <2>1. passed' = passed
    BY <1>1, <1>3, <1>5
  <2>2. Splits(w, k)' /\ Spread'
    BY <1>2, <2>1 DEF RateInv, Splits, Since, Spread, Within
  <2> QED
    BY <1>1, <1>2, <1>3, <1>4, <2>1, <2>2 DEF RateInv, RateTypes, Windowed
<1>6. CASE w.count <= PerMinute
  <2>1. /\ passed' = Append(passed, s) /\ passed' \in Seq(Int) /\ Len(passed') = n + 1
        /\ passed'[n + 1] = s /\ \A i \in 1 .. n : passed'[i] = passed[i]
    BY <1>1, <1>3, <1>6
  <2>2. Since(k, w.from - Minute)' = Since(k, w.from - Minute)
    BY <1>2, <1>3, <2>1 DEF Since
  <2>3. Splits(w, k)'
    <3>1. \A i \in 1 .. k : passed'[i] < w.from
      BY <1>2, <1>3, <2>1 DEF Splits
    <3>2. \A i \in k + 1 .. n + 1 : w.from <= passed'[i] + Late /\ passed'[i] < w.from + Minute
      <4>1. \A i \in k + 1 .. n : w.from <= passed[i] + Late /\ passed[i] < w.from + Minute
        BY <1>2 DEF Splits
      <4>2. \A i \in k + 1 .. n + 1 : i = n + 1 \/ (i \in k + 1 .. n /\ i \in 1 .. n)
        BY <1>3
      <4> QED
        BY <1>1, <2>1, <4>1, <4>2
    <3>3. n + 1 <= k + w.count /\ n + 1 <= k + PerMinute
      BY <1>2, <1>3, <1>6
    <3> QED
      BY <1>2, <2>1, <2>2, <3>1, <3>2, <3>3 DEF Splits
  <2>4. ASSUME NEW a \in Int
        PROVE  Cardinality(Within(Len(passed), a, a + Minute - Late)') <= 2 * PerMinute
    <3>1. CASE w.from - Late <= a + Minute - Late
      <4> DEFINE p == passed'
      <4>1. k \in 0 .. Len(passed')
        BY <1>3, <2>1
      <4> QED
        BY <1>3, <2>1, <2>3, <3>1, <4>1, SplitBoundNext DEF SplitBound
    <3>2. CASE ~(w.from - Late <= a + Minute - Late)
      <4>1. Within(Len(passed), a, a + Minute - Late)' = Within(n, a, a + Minute - Late)
        BY <1>1, <1>3, <2>1, <3>2 DEF Within
      <4> QED
        BY <4>1 DEF RateInv, Spread
    <3> QED
      BY <3>1, <3>2
  <2>5. Spread'
    BY <2>4 DEF Spread
  <2>6. k \in 0 .. Len(passed')
    BY <1>3, <2>1
  <2> QED
    BY <1>1, <1>3, <1>4, <2>1, <2>3, <2>5, <2>6 DEF RateInv, RateTypes, Windowed
<1> QED
  BY <1>3, <1>5, <1>6

LEMMA RateStart == clock = 0 /\ FrontInit => RateInv
<1> SUFFICES ASSUME clock = 0, FrontInit PROVE RateInv
  OBVIOUS
<1> USE FrontAssumption DEF FrontAssumption
<1>1. passed = <<>> /\ Len(passed) = 0 /\ passed \in Seq(Int)
  BY DEF FrontInit
<1>2. \A s \in Int : Within(Len(passed), s, s + Minute - Late) = {}
  <2>1. 1 .. 0 = {}
    OBVIOUS
  <2> QED
    BY <1>1, <2>1 DEF Within
<1>3. Spread
  <2>1. Cardinality({}) = 0
    BY FS_EmptySet
  <2>2. \A s \in Int : Cardinality(Within(Len(passed), s, s + Minute - Late)) = 0
    BY <1>2, <2>1
  <2>3. 0 <= 2 * PerMinute
    OBVIOUS
  <2> QED
    BY <2>2, <2>3 DEF Spread
<1> QED
  BY <1>1, <1>3 DEF RateInv, RateTypes, Windowed, FrontInit

LEMMA RateStep == RateInv /\ [FrontNext]_fvars => RateInv'
<1> SUFFICES ASSUME RateInv, [FrontNext]_fvars
             PROVE  RateInv'
  OBVIOUS
<1> USE FrontAssumption DEF FrontAssumption
<1>1. ASSUME NEW t \in Tabs, CountRequest(t), UNCHANGED clock
      PROVE  RateInv'
  BY <1>1, CountKeeps
<1>2. ASSUME UNCHANGED <<window, passed>>, clock' \in Int, clock <= clock',
             now' \in [Tabs -> Int],
             place' \in [Tabs -> {"idle", "session", "rate", "rate_new"}],
             \A t \in Tabs : place'[t] # "idle" => now'[t] <= clock' /\ clock' <= now'[t] + Late
      PROVE  RateInv'
  <2>1. Spread'
    BY <1>2 DEF RateInv, Spread, Within
  <2>2. \A w, k : Splits(w, k) => Splits(w, k)'
    BY <1>2 DEF Splits, Since
  <2>3. \A w \in window : w.from <= clock' /\ \E k \in 0 .. Len(passed) : Splits(w, k)'
    BY <1>2, <2>2 DEF RateInv, RateTypes, Windowed, Windows0
  <2> QED
    BY <1>2, <2>1, <2>3 DEF RateInv, RateTypes, Windowed
<1>3. ASSUME NEW t \in Tabs, Arrive(t) \/ FindSession(t) \/ CreateSession(t), UNCHANGED clock
      PROVE  RateInv'
  <2>1. UNCHANGED <<window, passed>> /\ clock' \in Int /\ clock <= clock'
    BY <1>3 DEF RateInv, RateTypes, Arrive, FindSession, CreateSession
  <2>2. /\ now' \in [Tabs -> Int]
        /\ place' \in [Tabs -> {"idle", "session", "rate", "rate_new"}]
        /\ \A u \in Tabs : place'[u] # "idle" => now'[u] <= clock' /\ clock' <= now'[u] + Late
    <3>1. CASE Arrive(t)
      BY <1>3, <3>1 DEF RateInv, RateTypes, Arrive
    <3>2. CASE FindSession(t)
      BY <1>3, <3>2 DEF RateInv, RateTypes, FindSession
    <3>3. CASE CreateSession(t)
      BY <1>3, <3>3 DEF RateInv, RateTypes, CreateSession
    <3> QED
      BY <1>3, <3>1, <3>2, <3>3
  <2> QED
    BY <1>2, <2>1, <2>2
<1>4. CASE FrontTick /\ UNCHANGED frontVars
  BY <1>2, <1>4 DEF RateInv, RateTypes, FrontTick, Tick, frontVars
<1>5. CASE UNCHANGED fvars
  BY <1>2, <1>5 DEF RateInv, RateTypes, fvars, frontVars
<1> QED
  BY <1>1, <1>3, <1>4, <1>5 DEF FrontNext, FrontStep

\* However many requests reach the counter in whatever order, a minute less the
\* lateness of requests sees at most two windows' worth of them, for any length
\* of the window, any limit and any number of tabs (demo.rs: rate_limited).
THEOREM RateStaysBounded == FrontSpec => []RateIsBounded
<1>1. RateInv => RateIsBounded
  <2> SUFFICES ASSUME RateInv, NEW s \in 0 .. clock
               PROVE  Cardinality({i \in DOMAIN passed : passed[i] \in s .. s + Minute - Late}) <= 2 * PerMinute
    BY DEF RateIsBounded
  <2>1. s \in Int /\ s + Minute - Late \in Int /\ \A i \in DOMAIN passed : passed[i] \in Int
    BY FrontAssumption DEF FrontAssumption, RateInv, RateTypes
  <2>2. DOMAIN passed = 1 .. Len(passed)
    BY DEF RateInv, RateTypes
  <2>3. {i \in DOMAIN passed : passed[i] \in s .. s + Minute - Late} = Within(Len(passed), s, s + Minute - Late)
    BY <2>1, <2>2 DEF Within
  <2> QED
    BY <2>1, <2>3 DEF RateInv, Spread
<1> QED
  BY RateStart, RateStep, <1>1, PTL DEF FrontSpec, fvars

-----------------------------------------------------------------------------
(* The sessions of the demo.  A session in the table was last seen at a    *)
(* time at most Late before it was used; one that is gone was evicted or   *)
(* has been unused for its lifetime, and stays so as time only moves on.   *)

SessionTypes ==
    /\ created \in Nat
    /\ DOMAIN sessions \subseteq 1 .. created /\ \A n \in DOMAIN sessions : sessions[n] \in Int
    /\ used \in Seq(Int) /\ Len(used) = created
    /\ sent \in [Tabs -> 0 .. created] /\ cookie \in [Browsers -> 0 .. created]

Unused(n) == clock - used[n] >= SessionTtl + 1 - Late

SessionsOK ==
    /\ \A n \in DOMAIN sessions : used[n] <= sessions[n] + Late
    /\ \A n \in 1 .. created : n \notin DOMAIN sessions => n \in evicted \/ Unused(n)

SessionInv == SessionTypes /\ SessionsOK

LEMMA SessionStart == clock = 0 /\ FrontInit => SessionInv
BY FrontAssumption DEF FrontAssumption, FrontInit, SessionInv, SessionTypes, SessionsOK

\* A session that a request at now[t] does not find current is past its lifetime.
LEMMA StaleIsUnused ==
    ASSUME RateTypes, SessionInv, NEW t \in Tabs, place[t] # "idle",
           NEW n \in 1 .. created, n \notin Current(now[t])
    PROVE  n \in evicted \/ Unused(n)
<1> USE FrontAssumption DEF FrontAssumption
<1>1. /\ now[t] \in Int /\ clock \in Int /\ now[t] <= clock /\ used[n] \in Int
  BY DEF RateTypes, SessionInv, SessionTypes
<1>2. CASE n \in DOMAIN sessions
  <2>1. sessions[n] \in Int /\ used[n] <= sessions[n] + Late /\ ~(now[t] - sessions[n] <= SessionTtl)
    BY <1>2 DEF SessionInv, SessionTypes, SessionsOK, Current
  <2> QED
    BY <1>1, <2>1 DEF Unused
<1>3. CASE n \notin DOMAIN sessions
  BY <1>3 DEF SessionInv, SessionsOK
<1> QED
  BY <1>2, <1>3

LEMMA SessionStep == RateInv /\ SessionInv /\ [FrontNext]_fvars => SessionInv'
<1> SUFFICES ASSUME RateTypes, SessionInv, [FrontNext]_fvars
             PROVE  SessionInv'
  BY DEF RateInv
<1> USE FrontAssumption DEF FrontAssumption
<1>0. /\ created \in Nat /\ clock \in Int /\ now \in [Tabs -> Int]
      /\ used \in Seq(Int) /\ Len(used) = created /\ \A n \in 1 .. created : used[n] \in Int
      /\ sent \in [Tabs -> 0 .. created] /\ cookie \in [Browsers -> 0 .. created]
      /\ DOMAIN sessions \subseteq 1 .. created /\ \A n \in DOMAIN sessions : sessions[n] \in Int
  BY DEF RateTypes, SessionInv, SessionTypes
<1>1. ASSUME UNCHANGED <<sessions, used, created, evicted>>, clock' \in Int, clock <= clock',
             sent' \in [Tabs -> 0 .. created], cookie' \in [Browsers -> 0 .. created]
      PROVE  SessionInv'
  BY <1>0, <1>1 DEF SessionInv, SessionTypes, SessionsOK, Unused
<1>2. ASSUME NEW t \in Tabs, FindSession(t), UNCHANGED clock
      PROVE  SessionInv'
  <2> DEFINE n == sent[t]
             live == Current(now[t])
  <2>1. n \in live /\ live \subseteq DOMAIN sessions /\ n \in 1 .. created
    BY <1>0, <1>2 DEF FindSession, Current
  <2>2. /\ DOMAIN sessions' = live /\ sessions'[n] = now[t]
        /\ \A m \in live \ {n} : sessions'[m] = sessions[m]
    BY <1>2, <2>1 DEF FindSession, With, Only
  <2>3. /\ used' = [used EXCEPT ![n] = clock] /\ UNCHANGED <<created, evicted, sent, cookie>>
        /\ place[t] = "session" /\ clock' = clock
    BY <1>2 DEF FindSession
  <2>4. clock <= now[t] + Late
    BY <2>3 DEF RateTypes
  <2>5. /\ used' \in Seq(Int) /\ Len(used') = created /\ used'[n] = clock
        /\ \A m \in 1 .. created : m # n => used'[m] = used[m]
    BY <1>0, <2>1, <2>3
  <2>6. \A m \in 1 .. created : m \notin live => m \in evicted \/ Unused(m)
    BY <2>3, StaleIsUnused
  <2> HIDE DEF n, live
  <2>7. SessionTypes'
    BY <1>0, <2>1, <2>2, <2>3, <2>5 DEF SessionTypes
  <2>8. \A m \in live : used'[m] <= sessions'[m] + Late
    BY <1>0, <2>1, <2>2, <2>4, <2>5 DEF SessionInv, SessionsOK
  <2>9. \A m \in 1 .. created : m \notin live => m \in evicted \/ Unused(m)'
    BY <2>1, <2>3, <2>5, <2>6 DEF Unused
  <2> QED
    BY <2>2, <2>3, <2>7, <2>8, <2>9 DEF SessionInv, SessionsOK
<1>3. ASSUME NEW t \in Tabs, CreateSession(t), UNCHANGED clock
      PROVE  SessionInv'
  <2> DEFINE n == created + 1
             live == Current(now[t])
  <2>1. PICK oldest \in Evictable(live) :
           /\ sessions' = With(Only(sessions, live \ oldest), n, now[t])
           /\ evicted' = evicted \cup oldest
    BY <1>3 DEF CreateSession
  <2>2. live \subseteq DOMAIN sessions /\ n \notin DOMAIN sessions /\ n \in Nat
    BY <1>0 DEF Current
  <2>3. /\ DOMAIN sessions' = (live \ oldest) \cup {n} /\ sessions'[n] = now[t]
        /\ \A m \in live \ oldest : sessions'[m] = sessions[m]
    BY <2>1, <2>2 DEF With, Only
  <2>4. /\ created' = n /\ used' = Append(used, clock) /\ sent' = [sent EXCEPT ![t] = n]
        /\ cookie' = cookie /\ clock' = clock /\ place[t] = "session"
    BY <1>3 DEF CreateSession
  <2>5. /\ used' \in Seq(Int) /\ Len(used') = n /\ used'[n] = clock
        /\ \A m \in 1 .. created : used'[m] = used[m]
    BY <1>0, <2>4
  <2>6. \A m \in 1 .. created : m \notin live => m \in evicted \/ Unused(m)
    BY <2>4, StaleIsUnused
  <2>7. clock <= now[t] + Late /\ now[t] \in Int
    BY <1>0, <2>4 DEF RateTypes
  <2>8. \A m \in 1 .. n : m = n \/ m \in 1 .. created
    BY <1>0
  <2>9. \A m \in 1 .. created : m \in 1 .. n
    BY <1>0
  <2>10. sent' \in [Tabs -> 0 .. n] /\ cookie' \in [Browsers -> 0 .. n]
    BY <1>0, <2>4
  <2>11. n \in Nat /\ n >= 1
    BY <1>0
  <2> HIDE DEF n, live
  <2>12. SessionTypes'
    <3>1. DOMAIN sessions' \subseteq 1 .. n
      <4>1. n \in 1 .. n
        BY <2>11
      <4>2. \A m \in live : m \in 1 .. n
        BY <1>0, <2>2, <2>9
      <4> QED
        BY <2>3, <4>1, <4>2
    <3>2. \A m \in DOMAIN sessions' : sessions'[m] \in Int
      BY <1>0, <2>2, <2>3, <2>7
    <3> QED
      BY <2>2, <2>4, <2>5, <2>10, <3>1, <3>2 DEF SessionTypes
  <2>13. \A m \in DOMAIN sessions' : used'[m] <= sessions'[m] + Late
    <3>1. \A m \in live \ oldest : used[m] <= sessions[m] + Late /\ m \in 1 .. created
      BY <1>0, <2>2 DEF SessionInv, SessionsOK
    <3> QED
      BY <2>3, <2>5, <2>7, <3>1
  <2>14. \A m \in 1 .. n : m \notin DOMAIN sessions' => m \in evicted' \/ Unused(m)'
    BY <2>1, <2>3, <2>4, <2>5, <2>6, <2>8 DEF Unused
  <2> QED
    BY <2>4, <2>12, <2>13, <2>14 DEF SessionInv, SessionsOK
<1>4. ASSUME NEW t \in Tabs, Arrive(t) \/ CountRequest(t), UNCHANGED clock
      PROVE  SessionInv'
  <2>1. UNCHANGED <<sessions, used, created, evicted>>
    BY <1>4 DEF Arrive, CountRequest
  <2>2. CASE Arrive(t)
    BY <1>0, <1>1, <1>4, <2>1, <2>2 DEF Arrive
  <2>3. CASE CountRequest(t)
    <3>1. sent' = sent /\ (cookie' = cookie \/ cookie' = [cookie EXCEPT ![BrowserOf[t]] = sent[t]])
      BY <2>3 DEF CountRequest
    <3>2. sent[t] \in 0 .. created /\ BrowserOf[t] \in Browsers
      BY <1>0
    <3>3. cookie' \in [Browsers -> 0 .. created]
      BY <1>0, <3>1, <3>2
    <3> QED
      BY <1>0, <1>1, <1>4, <2>1, <3>1, <3>3
  <2> QED
    BY <1>4, <2>2, <2>3
<1>5. CASE FrontTick /\ UNCHANGED frontVars
  BY <1>0, <1>1, <1>5 DEF FrontTick, Tick, frontVars
<1>6. CASE UNCHANGED fvars
  BY <1>0, <1>1, <1>6 DEF fvars, frontVars
<1> QED
  BY <1>2, <1>3, <1>4, <1>5, <1>6 DEF FrontNext, FrontStep

\* A browser that comes with a session gets a new one only if its own was evicted
\* or unused for its lifetime less the lateness of requests, for any number of
\* tabs, browsers and sessions and in whatever order the requests of its tabs
\* reach the table (demo.rs: session_middleware, create_session).
THEOREM SessionsStay == FrontSpec => SessionsAreKept
<1>1. ASSUME RateInv, SessionInv, FrontNext, NEW t \in Tabs, place[t] = "session",
             created' > created, sent'[t] = created', sent[t] # 0
      PROVE  sent[t] \in evicted \/ Unused(sent[t])
  <2>1. created \in Nat /\ sent \in [Tabs -> 0 .. created]
    BY <1>1 DEF SessionInv, SessionTypes
  <2>2. ASSUME created' = created
        PROVE  FALSE
    BY <1>1, <2>1, <2>2
  <2>3. PICK u \in Tabs : CreateSession(u)
    BY <1>1, <2>2 DEF FrontNext, FrontStep, Arrive, FindSession, CountRequest, frontVars
  <2>4. u = t
    <3>1. sent' = [sent EXCEPT ![u] = created + 1] /\ created' = created + 1
      BY <2>3 DEF CreateSession
    <3> QED
      BY <1>1, <2>1, <3>1
  <2>5. sent[t] \notin Current(now[t]) /\ sent[t] \in 1 .. created
    BY <1>1, <2>1, <2>3, <2>4 DEF CreateSession
  <2> QED
    BY <1>1, <2>5, StaleIsUnused DEF RateInv
<1>2. RateInv /\ SessionInv /\ [FrontNext]_fvars
        => [\A t \in Tabs : place[t] = "session" /\ created' > created /\ sent'[t] = created' /\ sent[t] # 0
              => \/ sent[t] \in evicted
                 \/ clock - used[sent[t]] >= SessionTtl + 1 - Late]_fvars
  BY <1>1 DEF Unused
<1> QED
  BY <1>2, RateStart, RateStep, SessionStart, SessionStep, PTL DEF FrontSpec, SessionsAreKept, fvars

-----------------------------------------------------------------------------
(* The key cache of the login.  A key counts until it has been withdrawn   *)
(* for the time the cache is trusted and the time its answer was under     *)
(* way, so the invariant bounds that time by the ages of both; and the     *)
(* cooldown began with the refresh that filled the cache, or before it.    *)

LoginTypes ==
    /\ gone \in [Kids -> Nat] /\ age \in 0 .. CacheTtl /\ since \in 0 .. Cooldown
    /\ at \in [Logins -> {"idle", "waiting", "fetching", "verified"}]
    /\ waited \in 0 .. Timeout

\* A fetch is under way exactly while its handler holds the mutex.
FetchOK ==
    /\ \A l \in Logins : at[l] = "fetching" <=> cache = l
    /\ cache \in Logins \cup {NoLogin}
    /\ cache = NoLogin => answer = {} /\ waited = 0

\* Since when a key may be gone that is still published, in an answer or cached.
GoneOK ==
    /\ \A k \in published \cap Kids : gone[k] = 0
    /\ \A set \in answer : \A k \in set \cap Kids : gone[k] <= waited
    /\ age < CacheTtl => \A set \in keys : \A k \in set \cap Kids : gone[k] <= age + Timeout

CooldownOK == keys # {} => age <= since \/ since = Cooldown

LoginInv == LoginTypes /\ FetchOK /\ GoneOK /\ CooldownOK

LEMMA LoginStart == LoginInit => LoginInv
BY LoginAssumption DEF LoginAssumption, LoginInit, LoginInv, LoginTypes, FetchOK, GoneOK, CooldownOK

LEMMA LoginKeeps == LoginInv /\ [LoginNext]_loginVars => LoginInv'
<1> SUFFICES ASSUME LoginInv, [LoginNext]_loginVars
             PROVE  LoginInv'
  OBVIOUS
<1> USE LoginAssumption DEF LoginAssumption, LoginInv, LoginTypes, idpVars, keyVars, fetchVars, Move, EndFetch
<1>1. ASSUME NEW l \in Logins, Exchange(l) \/ FindKey(l) \/ RefuseForNow(l) \/ Exchanged(l)
      PROVE  LoginInv'
  <2>1. /\ UNCHANGED <<idpVars, keyVars, cache, fetchVars>>
        /\ \E p \in {"idle", "waiting", "verified"} : at' = [at EXCEPT ![l] = p]
        /\ at[l] # "fetching"
    BY <1>1 DEF Exchange, FindKey, RefuseForNow, Exchanged
  <2> QED
    BY <2>1 DEF FetchOK, GoneOK, CooldownOK
<1>2. ASSUME NEW l \in Logins, Refresh(l)
      PROVE  LoginInv'
  BY <1>2 DEF Refresh, FetchOK, GoneOK, CooldownOK
<1>3. ASSUME NEW l \in Logins, Fetched(l)
      PROVE  LoginInv'
  <2>1. cache = l /\ cache' = NoLogin /\ answer' = {} /\ waited' = 0 /\ keys' = answer /\ age' = 0
        /\ UNCHANGED <<idpVars, since>>
    BY <1>3 DEF Fetched, FetchOK
  <2>2. \E p \in {"idle", "verified"} : at' = [at EXCEPT ![l] = p]
    BY <1>3 DEF Fetched
  <2>3. LoginTypes' /\ FetchOK' /\ CooldownOK'
    BY <2>1, <2>2 DEF FetchOK, CooldownOK
  <2>4. GoneOK'
    BY <2>1 DEF GoneOK
  <2> QED
    BY <2>3, <2>4
<1>4. ASSUME NEW l \in Logins, FetchFails(l)
      PROVE  LoginInv'
  BY <1>4 DEF FetchFails, FetchOK, GoneOK, CooldownOK
<1>5. ASSUME NEW l \in Logins, HangUpLogin(l)
      PROVE  LoginInv'
  BY <1>5 DEF HangUpLogin, FetchOK, GoneOK, CooldownOK
<1>6. ASSUME NEW l \in Logins, IdpAnswers(l)
      PROVE  LoginInv'
  BY <1>6 DEF IdpAnswers, FetchOK, GoneOK, CooldownOK
<1>7. ASSUME NEW k \in Kids, IdpWithdraws(k) \/ IdpPublishes(k)
      PROVE  LoginInv'
  <2>1. UNCHANGED <<keyVars, cache, at, fetchVars>>
    BY <1>7 DEF IdpWithdraws, IdpPublishes
  <2>2. /\ gone' \in [Kids -> Nat] /\ \A j \in Kids : gone'[j] <= gone[j] /\ gone'[j] \in Nat
        /\ \A j \in published' \cap Kids : gone'[j] = 0
    BY <1>7 DEF IdpWithdraws, IdpPublishes, GoneOK
  <2>3. GoneOK'
    BY <2>1, <2>2 DEF GoneOK
  <2> QED
    BY <2>1, <2>2, <2>3 DEF FetchOK, CooldownOK
<1>8. CASE IdpChanges
  BY <1>8 DEF IdpChanges, FetchOK, GoneOK, CooldownOK
<1>9. CASE Second
  <2>1. /\ UNCHANGED <<published, keys, cache, at, answer>>
        /\ age' = IF keys = {} THEN 0 ELSE IF age < CacheTtl THEN age + 1 ELSE CacheTtl
        /\ since' = IF since < Cooldown THEN since + 1 ELSE Cooldown
        /\ waited' = IF cache = NoLogin THEN 0 ELSE waited + 1
        /\ cache = NoLogin \/ waited < Timeout
    BY <1>9 DEF Second, UpTo
  <2>2. /\ gone' \in [Kids -> Nat]
        /\ \A k \in Kids : gone'[k] <= gone[k] + 1 /\ (k \in published => gone'[k] = 0)
    <3>1. Forgotten \in Nat
      BY DEF Forgotten
    <3>2. gone' = [k \in Kids |-> IF k \in published THEN 0
                                  ELSE IF gone[k] < Forgotten THEN gone[k] + 1 ELSE Forgotten]
      BY <1>9 DEF Second, UpTo
    <3> QED
      BY <3>1, <3>2
  <2>3. LoginTypes' /\ FetchOK' /\ CooldownOK'
    BY <2>1, <2>2 DEF FetchOK, CooldownOK
  <2>4. \A k \in published' \cap Kids : gone'[k] = 0
    BY <2>1, <2>2
  <2>5. \A set \in answer : \A k \in set \cap Kids : gone'[k] <= waited'
    BY <2>1, <2>2 DEF GoneOK, FetchOK
  <2>6. age' < CacheTtl => \A set \in keys : \A k \in set \cap Kids : gone'[k] <= age' + Timeout
    BY <2>1, <2>2 DEF GoneOK
  <2> QED
    BY <2>1, <2>3, <2>4, <2>5, <2>6 DEF GoneOK
<1>10. CASE UNCHANGED loginVars
  BY <1>10 DEF loginVars, FetchOK, GoneOK, CooldownOK
<1> QED
  BY <1>1, <1>2, <1>3, <1>4, <1>5, <1>6, <1>7, <1>8, <1>9, <1>10 DEF LoginNext, LoginStep

\* A token never verifies with a key that was withdrawn for longer than a cache is
\* trusted and an answer can be under way, and the cooldown never refuses an
\* operator whose key the last refresh brought; for any operators, keys, outages
\* and hang-ups and any times that the configuration allows (oidc.rs: key).
THEOREM KeysStayCurrent == LoginSpec => KeysAreCurrent
<1>1. ASSUME LoginInv, LoginNext
      PROVE  \A l \in Logins : at[l] # "verified" /\ at'[l] = "verified"
                                  => gone[KidOf[l]] <= CacheTtl + Timeout
  <2> SUFFICES ASSUME NEW l \in Logins, at[l] # "verified", at'[l] = "verified"
               PROVE  gone[KidOf[l]] <= CacheTtl + Timeout
    OBVIOUS
  <2> USE LoginAssumption DEF LoginAssumption
  <2>0. gone \in [Kids -> Nat] /\ at \in [Logins -> {"idle", "waiting", "fetching", "verified"}]
        /\ KidOf[l] \in Kids /\ age \in Nat /\ waited \in 0 .. Timeout
    BY <1>1 DEF LoginInv, LoginTypes
  <2>1. CASE FindKey(l)
    <3>1. age < CacheTtl /\ \E set \in keys : KidOf[l] \in set
      BY <2>1 DEF FindKey, HasKey
    <3>2. gone[KidOf[l]] <= age + Timeout
      BY <1>1, <2>0, <3>1 DEF LoginInv, GoneOK
    <3> QED
      BY <2>0, <3>1, <3>2
  <2>2. CASE Fetched(l)
    <3>1. \E set \in answer : KidOf[l] \in set
      BY <2>0, <2>2 DEF Fetched, Move
    <3>2. gone[KidOf[l]] <= waited
      BY <1>1, <2>0, <3>1 DEF LoginInv, GoneOK
    <3> QED
      BY <2>0, <3>2
  <2>3. ASSUME NEW m \in Logins, LoginStep(m) \/ HangUpLogin(m), ~(m = l /\ (FindKey(l) \/ Fetched(l)))
        PROVE  at'[l] # "verified"
    BY <2>0, <2>3 DEF LoginStep, Exchange, FindKey, RefuseForNow, Refresh, Fetched, FetchFails,
                      Exchanged, HangUpLogin, Move
  <2>4. ASSUME at' = at
        PROVE  FALSE
    BY <2>4
  <2> QED
    BY <1>1, <2>1, <2>2, <2>3, <2>4 DEF LoginNext, IdpAnswers, IdpWithdraws, IdpPublishes, IdpChanges, Second
<1>2. ASSUME LoginInv, LoginNext
      PROVE  \A l \in Logins : RefuseForNow(l) => \A set \in keys : KidOf[l] \notin set
  <2> SUFFICES ASSUME NEW l \in Logins, RefuseForNow(l), NEW set \in keys, KidOf[l] \in set
               PROVE  FALSE
    OBVIOUS
  <2>1. ~(age < CacheTtl) /\ since < Cooldown
    BY DEF RefuseForNow, HasKey, Cooling
  <2>2. age \in 0 .. CacheTtl /\ since \in 0 .. Cooldown /\ age <= since
    BY <1>2, <2>1 DEF LoginInv, LoginTypes, CooldownOK
  <2> QED
    BY <2>1, <2>2, LoginAssumption DEF LoginAssumption
<1>3. LoginSpec => WithdrawnKeysExpire
  <2>1. LoginInv /\ [LoginNext]_loginVars
          => [\A l \in Logins : at[l] # "verified" /\ at'[l] = "verified"
                                  => gone[KidOf[l]] <= CacheTtl + Timeout]_loginVars
    BY <1>1
  <2> QED
    BY <2>1, LoginStart, LoginKeeps, PTL DEF LoginSpec, WithdrawnKeysExpire
<1>4. LoginSpec => CooldownHidesNoKey
  <2>1. LoginInv /\ [LoginNext]_loginVars
          => [\A l \in Logins : RefuseForNow(l) => \A set \in keys : KidOf[l] \notin set]_loginVars
    BY <1>2
  <2> QED
    BY <2>1, LoginStart, LoginKeeps, PTL DEF LoginSpec, CooldownHidesNoKey
<1> QED
  BY <1>3, <1>4 DEF KeysAreCurrent

-----------------------------------------------------------------------------
(* Alarms: the engine keeps what the log says.                             *)

Row == [id : Ids \cup {NoId}, outcome : {"allow", "deny"}, at : 0 .. MaxClock]

EngineFields == {"last", "seen", "allowed", "streak", "stuck", "spiking", "warned"}
EngineOK(e) == DOMAIN e = EngineFields /\ DOMAIN e.streak = Ids
AccOK(acc) == DOMAIN acc = {"engine", "out"} /\ EngineOK(acc.engine)

\* The rows of the log are evaluated one after the other.
LEMMA EvaluatedIs ==
  ASSUME NEW fresh \in Nat \ {0}, Len(log) \in Nat, fresh <= Len(log) + 1
  PROVE  \E acc : /\ acc[fresh - 1] = [engine |-> engine, out |-> <<>>]
                  /\ \A n \in fresh .. Len(log) : acc[n] = Seen(acc[n - 1], n)
                  /\ Evaluated(fresh) = acc[Len(log)]
  <1> DEFINE base == [engine |-> engine, out |-> <<>>]
             N == Len(log)
             upTo == CHOOSE f : f = [n \in fresh - 1 .. N |->
                        IF n < fresh THEN base ELSE Seen(f[n - 1], n)]
             Up(g, k) == /\ g[fresh - 1] = base
                         /\ \A n \in fresh .. fresh - 1 + k : g[n] = Seen(g[n - 1], n)
             S == {k \in Nat : \E g : Up(g, k)}
  <1>1. Evaluated(fresh) = upTo[N]
    BY Zenon DEF Evaluated
  <1>2. 0 \in S
    <2>1. Up([n \in {fresh - 1} |-> base], 0)
      OBVIOUS
    <2> QED BY <2>1
  <1>3. ASSUME NEW k \in Nat, k \in S PROVE k + 1 \in S
    <2>1. PICK g : Up(g, k)
      BY <1>3
    <2> DEFINE m == fresh + k
               f == [n \in fresh - 1 .. m |-> IF n = m THEN Seen(g[n - 1], n) ELSE g[n]]
    <2>2. m \in Nat /\ m = fresh - 1 + (k + 1) /\ m - 1 = fresh - 1 + k
      OBVIOUS
    <2>3. f[fresh - 1] = base
      BY <2>1
    <2>4. ASSUME NEW n \in fresh .. fresh - 1 + (k + 1) PROVE f[n] = Seen(f[n - 1], n)
      <3>1. CASE n = m
        <4>1. f[n] = Seen(g[n - 1], n) /\ f[n - 1] = g[n - 1]
          BY <3>1
        <4> QED BY <4>1
      <3>2. CASE n # m
        <4>1. f[n] = g[n] /\ f[n - 1] = g[n - 1] /\ n \in fresh .. fresh - 1 + k
          BY <3>2
        <4>2. g[n] = Seen(g[n - 1], n)
          BY <2>1, <4>1
        <4> QED BY <4>1, <4>2
      <3> QED BY <3>1, <3>2
    <2> HIDE DEF f
    <2>5. Up(f, k + 1)
      BY <2>3, <2>4
    <2> QED BY <2>5
  <1>4. \A k \in Nat : k \in S
    <2> HIDE DEF S
    <2> QED BY <1>2, <1>3, NatSetInduction
  <1> DEFINE k == N - (fresh - 1)
  <1>5. k \in Nat /\ fresh - 1 + k = N
    OBVIOUS
  <1>6. PICK g : Up(g, k)
    BY <1>4, <1>5
  <1> DEFINE h == [n \in fresh - 1 .. N |-> g[n]]
  <1>7. h = [n \in fresh - 1 .. N |-> IF n < fresh THEN base ELSE Seen(h[n - 1], n)]
    <2>1. ASSUME NEW n \in fresh - 1 .. N PROVE h[n] = IF n < fresh THEN base ELSE Seen(h[n - 1], n)
      <3>1. CASE n < fresh
        <4>1. n = fresh - 1
          BY <3>1
        <4> QED BY <1>6, <3>1, <4>1
      <3>2. CASE ~(n < fresh)
        <4>1. n \in fresh .. fresh - 1 + k /\ n - 1 \in fresh - 1 .. N
          BY <1>5, <3>2
        <4>2. g[n] = Seen(g[n - 1], n)
          BY <1>6, <4>1
        <4>3. h[n] = g[n] /\ h[n - 1] = g[n - 1]
          BY <4>1
        <4> QED BY <3>2, <4>2, <4>3
      <3> QED BY <3>1, <3>2
    <2> QED BY <2>1
  <1>8. \E f : f = [n \in fresh - 1 .. N |-> IF n < fresh THEN base ELSE Seen(f[n - 1], n)]
    <2> HIDE DEF h
    <2> QED BY <1>7
  <1>9. upTo = [n \in fresh - 1 .. N |-> IF n < fresh THEN base ELSE Seen(upTo[n - 1], n)]
    BY <1>8, Zenon
  <1> HIDE DEF upTo, base
  <1>10. upTo[fresh - 1] = base
    BY <1>9
  <1>11. \A n \in fresh .. N : upTo[n] = Seen(upTo[n - 1], n)
    BY <1>9
  <1> QED BY <1>1, <1>10, <1>11 DEF base

\* The engine and the reports after a row.
After(s, out, n, seen, allowed, stuck, streak, warned) ==
  /\ AccOK(s) /\ s.out = out
  /\ s.engine.last = n /\ s.engine.seen = seen /\ s.engine.allowed = allowed
  /\ s.engine.stuck = stuck /\ s.engine.streak = streak /\ s.engine.warned = warned

Report(acc, n) ==
  IF log[n].id \in acc.engine.seen THEN acc.out
  ELSE Append(acc.out, Alarm("first seen", log[n].id))

\* The streak of denials, longer by the row.
Longer(s, sec) ==
  IF s = {} THEN {[first |-> sec, last |-> sec, denies |-> 1]}
  ELSE {[x EXCEPT !.last = sec, !.denies = @ + 1] : x \in s}

AfterNobody(acc, n) ==
  After(Seen(acc, n), acc.out, n, acc.engine.seen, acc.engine.allowed, acc.engine.stuck,
        acc.engine.streak, acc.engine.warned)
AfterAllow(acc, n) ==
  After(Seen(acc, n), Report(acc, n), n, acc.engine.seen \cup {log[n].id},
        acc.engine.allowed \cup {log[n].id}, acc.engine.stuck \ {log[n].id},
        [acc.engine.streak EXCEPT ![log[n].id] = {}], acc.engine.warned)
AfterDeny(acc, n) ==
  After(Seen(acc, n), Report(acc, n), n, acc.engine.seen \cup {log[n].id},
        acc.engine.allowed, acc.engine.stuck,
        [acc.engine.streak EXCEPT ![log[n].id] = Longer(acc.engine.streak[log[n].id], log[n].at)],
        acc.engine.warned)

\* What one row changes in the engine.
LEMMA SeenNobody ==
  ASSUME NEW acc, AccOK(acc), NEW n, log[n].id = NoId
  PROVE  AfterNobody(acc, n)
  <1> DEFINE e == [acc.engine EXCEPT !.last = n]
  <1>1. Seen(acc, n) = [acc EXCEPT !.engine = e]
    BY Zenon DEF Seen
  <1>2. /\ DOMAIN e = EngineFields /\ e.last = n /\ e.seen = acc.engine.seen
        /\ e.allowed = acc.engine.allowed /\ e.stuck = acc.engine.stuck
        /\ e.streak = acc.engine.streak /\ e.warned = acc.engine.warned
    BY DEF AccOK, EngineOK, EngineFields
  <1> HIDE DEF e
  <1>3. /\ DOMAIN Seen(acc, n) = {"engine", "out"} /\ Seen(acc, n).out = acc.out
        /\ Seen(acc, n).engine = e
    BY <1>1 DEF AccOK
  <1> QED BY <1>2, <1>3 DEF AccOK, EngineOK, After, AfterNobody

LEMMA SeenAllow ==
  ASSUME NEW acc, AccOK(acc), NEW n, log[n].id \in Ids, log[n].id # NoId, log[n].outcome = "allow"
  PROVE  AfterAllow(acc, n)
  <1> DEFINE e == [acc.engine EXCEPT !.last = n]
             i == log[n].id
             f == [e EXCEPT !.seen = @ \cup {i}, !.allowed = @ \cup {i},
                            !.streak[i] = {}, !.stuck = @ \ {i}]
  <1>1. Seen(acc, n) = [engine |-> f, out |-> IF i \in e.seen THEN acc.out
                                               ELSE Append(acc.out, Alarm("first seen", i))]
    BY Zenon DEF Seen
  <1>2. /\ DOMAIN e = EngineFields /\ e.last = n /\ e.seen = acc.engine.seen
        /\ e.allowed = acc.engine.allowed /\ e.stuck = acc.engine.stuck
        /\ e.streak = acc.engine.streak /\ e.warned = acc.engine.warned
    BY DEF AccOK, EngineOK, EngineFields
  <1> HIDE DEF e
  <1>3. /\ DOMAIN f = EngineFields /\ f.last = n /\ f.seen = e.seen \cup {i}
        /\ f.allowed = e.allowed \cup {i} /\ f.stuck = e.stuck \ {i}
        /\ f.streak = [e.streak EXCEPT ![i] = {}] /\ f.warned = e.warned
    BY <1>2 DEF EngineFields
  <1> HIDE DEF f
  <1>4. /\ DOMAIN Seen(acc, n) = {"engine", "out"}
        /\ Seen(acc, n).out = IF i \in e.seen THEN acc.out ELSE Append(acc.out, Alarm("first seen", i))
        /\ Seen(acc, n).engine = f
    <2> DEFINE o == IF i \in e.seen THEN acc.out ELSE Append(acc.out, Alarm("first seen", i))
               y == Seen(acc, n)
    <2>1. y = [engine |-> f, out |-> o]
      BY <1>1
    <2> HIDE DEF o, y
    <2>2. DOMAIN y = {"engine", "out"} /\ y.out = o /\ y.engine = f
      BY <2>1
    <2> QED BY <2>2 DEF o, y
  <1>5. DOMAIN f.streak = Ids
    BY <1>2, <1>3 DEF AccOK, EngineOK
  <1> QED BY <1>2, <1>3, <1>4, <1>5 DEF AccOK, EngineOK, Report, i, After, AfterAllow

LEMMA SeenDeny ==
  ASSUME NEW acc, AccOK(acc), NEW n, log[n].id \in Ids, log[n].id # NoId, log[n].outcome = "deny"
  PROVE  AfterDeny(acc, n)
  <1> DEFINE e == [acc.engine EXCEPT !.last = n]
             i == log[n].id
             d == Longer(e.streak[i], log[n].at)
             f == [e EXCEPT !.seen = @ \cup {i}, !.streak[i] = d]
  <1>0. "deny" # "allow"
    OBVIOUS
  <1>1. Seen(acc, n) = [engine |-> f, out |-> IF i \in e.seen THEN acc.out
                                               ELSE Append(acc.out, Alarm("first seen", i))]
    BY <1>0, Zenon DEF Seen, Longer
  <1>2. /\ DOMAIN e = EngineFields /\ e.last = n /\ e.seen = acc.engine.seen
        /\ e.allowed = acc.engine.allowed /\ e.stuck = acc.engine.stuck
        /\ e.streak = acc.engine.streak /\ e.warned = acc.engine.warned
    BY DEF AccOK, EngineOK, EngineFields
  <1> HIDE DEF e
  <1>6. d = Longer(acc.engine.streak[i], log[n].at)
    BY <1>2
  <1> HIDE DEF d
  <1>3. /\ DOMAIN f = EngineFields /\ f.last = n /\ f.seen = e.seen \cup {i}
        /\ f.allowed = e.allowed /\ f.stuck = e.stuck
        /\ f.streak = [e.streak EXCEPT ![i] = d] /\ f.warned = e.warned
    BY <1>2 DEF EngineFields
  <1> HIDE DEF f
  <1>4. /\ DOMAIN Seen(acc, n) = {"engine", "out"}
        /\ Seen(acc, n).out = IF i \in e.seen THEN acc.out ELSE Append(acc.out, Alarm("first seen", i))
        /\ Seen(acc, n).engine = f
    <2> DEFINE o == IF i \in e.seen THEN acc.out ELSE Append(acc.out, Alarm("first seen", i))
               y == Seen(acc, n)
    <2>1. y = [engine |-> f, out |-> o]
      BY <1>1
    <2> HIDE DEF o, y
    <2>2. DOMAIN y = {"engine", "out"} /\ y.out = o /\ y.engine = f
      BY <2>1
    <2> QED BY <2>2 DEF o, y
  <1>5. DOMAIN f.streak = Ids
    BY <1>2, <1>3 DEF AccOK, EngineOK
  <1> QED BY <1>2, <1>3, <1>4, <1>5, <1>6 DEF AccOK, EngineOK, Report, i, After, AfterDeny

-----------------------------------------------------------------------------
\* The streak of a caller in the log, up to row k.
DenialsTo(id, k) ==
  {n \in 1 .. k : /\ log[n].id = id /\ log[n].outcome = "deny"
                  /\ \A m \in 1 .. k : log[m].id = id /\ log[m].outcome = "allow" => m < n}

StreakTo(id, k) ==
  LET D == DenialsTo(id, k)
  IN  IF D = {} THEN {}
      ELSE {[first |-> log[Min(D)].at, last |-> log[Max(D)].at, denies |-> Cardinality(D)]}

TrueTo(e, k) == \A id \in Ids : e.streak[id] = StreakTo(id, k)
KnownTo(e, k) == e.seen = Known \cup {id \in Ids : \E n \in 1 .. k : log[n].id = id}
StuckTo(e, k) ==
  \A id \in Ids : reported[id] > 0 =>
     id \in e.stuck \/ \E n \in reported[id] + 1 .. k : log[n].id = id /\ log[n].outcome = "allow"

RowsOK == \A n \in 1 .. Len(log) : log[n].id \in Ids \cup {NoId} /\ log[n].outcome \in {"allow", "deny"}

LEMMA GreatestOf ==
  ASSUME NEW n \in Nat, NEW s \in SUBSET (1 .. n), s # {}
  PROVE  Max(s) \in s /\ \A y \in s : y <= Max(s)
  <1> DEFINE T == {n - x : x \in s}
  <1>1. T \subseteq Nat /\ T # {}
    <2>1. \A x \in s : n - x \in Nat
      OBVIOUS
    <2> QED BY <2>1
  <1>2. \E m \in T : \A y \in T : m <= y
    <2> HIDE DEF T
    <2> QED BY <1>1, LeastNumber
  <1>3. \E x \in s : \A y \in s : x >= y
    BY <1>2
  <1> QED BY <1>3 DEF Max

LEMMA SmallestOf ==
  ASSUME NEW s \in SUBSET Nat, s # {}
  PROVE  Min(s) \in s /\ \A y \in s : Min(s) <= y
  <1>1. \E m \in s : \A y \in s : m <= y
    BY LeastNumber
  <1> QED BY <1>1 DEF Min

\* A row that is not a decision about the caller leaves its streak.
LEMMA OtherRow ==
  ASSUME NEW id, NEW n \in Nat \ {0}, log[n].id # id
  PROVE  StreakTo(id, n) = StreakTo(id, n - 1)
  <1>1. DenialsTo(id, n) = DenialsTo(id, n - 1)
    <2>1. \A x : x \in DenialsTo(id, n) => x \in DenialsTo(id, n - 1)
      BY DEF DenialsTo
    <2>2. \A x : x \in DenialsTo(id, n - 1) => x \in DenialsTo(id, n)
      BY DEF DenialsTo
    <2> QED BY <2>1, <2>2
  <1> QED BY <1>1 DEF StreakTo

LEMMA AllowedRow ==
  ASSUME NEW id, NEW n \in Nat \ {0}, log[n].id = id, log[n].outcome = "allow"
  PROVE  StreakTo(id, n) = {}
  <1>1. \A x \in 1 .. n : ~(n < x) /\ n \in 1 .. n
    OBVIOUS
  <1>2. DenialsTo(id, n) = {}
    BY <1>1 DEF DenialsTo
  <1> QED BY <1>2 DEF StreakTo

LEMMA DeniedRow ==
  ASSUME NEW id, NEW n \in Nat \ {0}, log[n].id = id, log[n].outcome = "deny"
  PROVE  StreakTo(id, n) = Longer(StreakTo(id, n - 1), log[n].at)
  <1> DEFINE C == DenialsTo(id, n - 1)
             D == DenialsTo(id, n)
             a == log[n].at
  <1>1. D = C \cup {n}
    <2>0. "deny" # "allow"
      OBVIOUS
    <2>1. \A x : x \in D => x \in C \cup {n}
      BY DEF DenialsTo
    <2>2. \A x : x \in C => x \in D
      BY <2>0 DEF DenialsTo
    <2>3. n \in D
      BY <2>0 DEF DenialsTo
    <2> QED BY <2>1, <2>2, <2>3
  <1>2. C \subseteq 1 .. n - 1 /\ n - 1 \in Nat
    BY DEF DenialsTo
  <1>3. IsFiniteSet(C)
    BY <1>2, FS_Interval, FS_Subset
  <1>4. n \notin C /\ D # {} /\ D \in SUBSET (1 .. n)
    BY <1>1, <1>2
  <1>5. Cardinality(D) = Cardinality(C) + 1
    BY <1>1, <1>3, <1>4, FS_AddElement
  <1>6. Max(D) = n
    <2>1. Max(D) \in D /\ \A y \in D : y <= Max(D)
      BY <1>4, GreatestOf
    <2>2. Max(D) \in 1 .. n /\ n \in D
      BY <1>1, <1>4, <2>1
    <2> QED BY <2>1, <2>2
  <1> HIDE DEF C, D
  <1>7. StreakTo(id, n) = {[first |-> log[Min(D)].at, last |-> a, denies |-> Cardinality(D)]}
    BY <1>4, <1>6 DEF StreakTo, D
  <1>8. CASE C = {}
    <2>1. D = {n} /\ Cardinality(C) = 0
      BY <1>1, <1>8, FS_EmptySet
    <2>2. Min(D) = n
      BY <2>1 DEF Min
    <2>3. Cardinality(D) = 1
      BY <1>5, <2>1
    <2>4. StreakTo(id, n - 1) = {}
      BY <1>8 DEF StreakTo, C
    <2> QED BY <1>7, <2>2, <2>3, <2>4 DEF Longer
  <1>9. CASE C # {}
    <2>1. Min(C) \in C /\ \A y \in C : Min(C) <= y
      BY <1>2, <1>9, SmallestOf
    <2>2. Min(D) \in D /\ \A y \in D : Min(D) <= y
      <3>1. D \in SUBSET Nat
        BY <1>4
      <3> QED BY <1>4, <3>1, SmallestOf
    <2>3. Min(D) = Min(C)
      <3>1. Min(C) \in 1 .. n - 1 /\ Min(D) \in 1 .. n
        BY <1>2, <1>4, <2>1, <2>2
      <3>2. Min(D) <= Min(C)
        BY <1>1, <2>1, <2>2
      <3>3. Min(D) # n
        BY <3>1, <3>2
      <3>4. Min(C) <= Min(D)
        BY <1>1, <2>1, <2>2, <3>3
      <3> QED BY <3>1, <3>2, <3>4
    <2> DEFINE p == log[Min(C)].at
               q == log[Max(C)].at
               c == Cardinality(C)
               x == [first |-> p, last |-> q, denies |-> c]
    <2>4. StreakTo(id, n - 1) = {x}
      BY <1>9 DEF StreakTo, C
    <2>5. [x EXCEPT !.last = a, !.denies = @ + 1] = [first |-> p, last |-> a, denies |-> c + 1]
      <3> DEFINE y == [first |-> p, last |-> a, denies |-> c]
      <3> HIDE DEF p, q, c, a
      <3>1. [x EXCEPT !.last = a] = y
        OBVIOUS
      <3>2. [y EXCEPT !.denies = @ + 1] = [first |-> p, last |-> a, denies |-> c + 1]
        OBVIOUS
      <3>3. [x EXCEPT !.last = a, !.denies = @ + 1] = [[x EXCEPT !.last = a] EXCEPT !.denies = @ + 1]
        <4> HIDE DEF x
        <4> QED BY Zenon
      <3> QED BY <3>1, <3>2, <3>3
    <2>6. StreakTo(id, n) = {[first |-> p, last |-> a, denies |-> c + 1]}
      BY <1>5, <1>7, <2>3
    <2> HIDE DEF x, p, c, a
    <2>7. {[z EXCEPT !.last = a, !.denies = @ + 1] : z \in {x}} = {[x EXCEPT !.last = a, !.denies = @ + 1]}
      OBVIOUS
    <2>8. Longer({x}, a) = {[x EXCEPT !.last = a, !.denies = @ + 1]}
      BY <2>7 DEF Longer
    <2> QED BY <2>4, <2>5, <2>6, <2>8 DEF a
  <1> QED BY <1>8, <1>9

\* One row more keeps what the engine knows true.
LEMMA SeenKeeps ==
  ASSUME NEW acc, AccOK(acc), NEW n \in 1 .. Len(log), Len(log) \in Nat, RowsOK
  PROVE  LET s == Seen(acc, n)
         IN  /\ AccOK(s) /\ s.engine.last = n /\ s.engine.warned = acc.engine.warned
             /\ TrueTo(acc.engine, n - 1) => TrueTo(s.engine, n)
             /\ KnownTo(acc.engine, n - 1) => KnownTo(s.engine, n)
             /\ StuckTo(acc.engine, n - 1) /\ (\A i \in Ids : reported[i] \in 0 .. n - 1) => StuckTo(s.engine, n)
             /\ s.engine.seen = acc.engine.seen \cup ({log[n].id} \cap Ids)
             /\ s.out = IF log[n].id \in acc.engine.seen \cup {NoId} THEN acc.out
                        ELSE Append(acc.out, Alarm("first seen", log[n].id))
  <1> DEFINE s == Seen(acc, n)
             i == log[n].id
  <1>0. n \in Nat \ {0} /\ i \in Ids \cup {NoId} /\ NoId \notin Ids /\ log[n].outcome \in {"allow", "deny"}
    BY AlarmsAssumption DEF AlarmsAssumption, RowsOK
  <1>1. 1 .. n = (1 .. n - 1) \cup {n}
    BY <1>0
  <1>2. /\ AccOK(s) /\ s.engine.last = n /\ s.engine.warned = acc.engine.warned
        /\ s.engine.seen = acc.engine.seen \cup ({log[n].id} \cap Ids)
        /\ s.out = IF log[n].id \in acc.engine.seen \cup {NoId} THEN acc.out
                   ELSE Append(acc.out, Alarm("first seen", log[n].id))
    <2>1. CASE i = NoId
      <3>1. AfterNobody(acc, n)
        BY <2>1, SeenNobody
      <3> QED BY <1>0, <2>1, <3>1 DEF After, AfterNobody
    <2>2. CASE i # NoId /\ log[n].outcome = "allow"
      <3>1. log[n].id \in Ids /\ log[n].id # NoId /\ log[n].outcome = "allow"
        BY <1>0, <2>2
      <3>2. AfterAllow(acc, n)
        BY <3>1, SeenAllow
      <3>3. After(s, Report(acc, n), n, s.engine.seen, s.engine.allowed, s.engine.stuck, s.engine.streak, acc.engine.warned)
            /\ s.engine.seen = acc.engine.seen \cup {i}
        BY <3>2 DEF After, AfterAllow
      <3> HIDE DEF s
      <3> QED BY <3>1, <3>3 DEF Report, After
    <2>3. CASE i # NoId /\ log[n].outcome = "deny"
      <3>1. log[n].id \in Ids /\ log[n].id # NoId /\ log[n].outcome = "deny"
        BY <1>0, <2>3
      <3>2. AfterDeny(acc, n)
        BY <3>1, SeenDeny
      <3>3. After(s, Report(acc, n), n, s.engine.seen, s.engine.allowed, s.engine.stuck, s.engine.streak, acc.engine.warned)
            /\ s.engine.seen = acc.engine.seen \cup {i}
        BY <3>2 DEF After, AfterDeny
      <3> HIDE DEF s
      <3> QED BY <3>1, <3>3 DEF Report, After
    <2> QED BY <1>0, <2>1, <2>2, <2>3
  <1>3. KnownTo(acc.engine, n - 1) => KnownTo(s.engine, n)
    BY <1>0, <1>1, <1>2 DEF KnownTo
  <1>4. TrueTo(acc.engine, n - 1) => TrueTo(s.engine, n)
    <2> SUFFICES ASSUME TrueTo(acc.engine, n - 1), NEW id \in Ids
                 PROVE  s.engine.streak[id] = StreakTo(id, n)
      BY DEF TrueTo
    <2>0. acc.engine.streak[id] = StreakTo(id, n - 1) /\ DOMAIN acc.engine.streak = Ids
      BY DEF TrueTo, AccOK, EngineOK
    <2>1. CASE i = NoId
      <3>1. AfterNobody(acc, n)
        BY <2>1, SeenNobody
      <3>2. s.engine.streak = acc.engine.streak
        BY <3>1 DEF After, AfterNobody
      <3>3. StreakTo(id, n) = StreakTo(id, n - 1)
        BY <1>0, <2>1, OtherRow
      <3> QED BY <2>0, <3>2, <3>3
    <2>2. CASE i # NoId /\ log[n].outcome = "allow"
      <3>1. s.engine.streak = [acc.engine.streak EXCEPT ![i] = {}]
        <4>1. log[n].id \in Ids /\ log[n].id # NoId /\ log[n].outcome = "allow"
          BY <1>0, <2>2
        <4>2. AfterAllow(acc, n)
          BY <4>1, SeenAllow
        <4> QED BY <4>2 DEF After, AfterAllow
      <3>2. id = i => StreakTo(id, n) = {}
        BY <1>0, <2>2, AllowedRow
      <3>3. id # i => StreakTo(id, n) = StreakTo(id, n - 1)
        BY <1>0, OtherRow
      <3> HIDE DEF s, i
      <3> QED BY <2>0, <3>1, <3>2, <3>3
    <2>3. CASE i # NoId /\ log[n].outcome = "deny"
      <3>1. s.engine.streak = [acc.engine.streak EXCEPT ![i] = Longer(acc.engine.streak[i], log[n].at)]
        <4>1. log[n].id \in Ids /\ log[n].id # NoId /\ log[n].outcome = "deny"
          BY <1>0, <2>3
        <4>2. AfterDeny(acc, n)
          BY <4>1, SeenDeny
        <4> QED BY <4>2 DEF After, AfterDeny
      <3>2. id = i => StreakTo(id, n) = Longer(StreakTo(id, n - 1), log[n].at)
        BY <1>0, <2>3, DeniedRow
      <3>3. id # i => StreakTo(id, n) = StreakTo(id, n - 1)
        BY <1>0, OtherRow
      <3> HIDE DEF s, i
      <3> QED BY <2>0, <3>1, <3>2, <3>3
    <2> QED BY <1>0, <2>1, <2>2, <2>3
  <1>5. StuckTo(acc.engine, n - 1) /\ (\A k \in Ids : reported[k] \in 0 .. n - 1) => StuckTo(s.engine, n)
    <2> SUFFICES ASSUME StuckTo(acc.engine, n - 1), \A k \in Ids : reported[k] \in 0 .. n - 1,
                        NEW id \in Ids, reported[id] > 0
                 PROVE  id \in s.engine.stuck \/ \E m \in reported[id] + 1 .. n :
                          log[m].id = id /\ log[m].outcome = "allow"
      BY DEF StuckTo
    <2>0. id \in acc.engine.stuck \/ \E m \in reported[id] + 1 .. n - 1 :
                          log[m].id = id /\ log[m].outcome = "allow"
      BY DEF StuckTo
    <2>1. CASE i # NoId /\ log[n].outcome = "allow"
      <3>0. log[n].id \in Ids /\ log[n].id # NoId /\ log[n].outcome = "allow"
        BY <1>0, <2>1
      <3>1. s.engine.stuck = acc.engine.stuck \ {i}
        <4>1. AfterAllow(acc, n)
          BY <3>0, SeenAllow
        <4> QED BY <4>1 DEF After, AfterAllow
      <3>2. n \in reported[id] + 1 .. n
        BY <1>0
      <3> HIDE DEF s
      <3> QED BY <1>0, <2>0, <2>1, <3>1, <3>2
    <2>2. CASE ~(i # NoId /\ log[n].outcome = "allow")
      <3>0. \/ log[n].id = NoId
            \/ log[n].id \in Ids /\ log[n].id # NoId /\ log[n].outcome = "deny"
        BY <1>0, <2>2
      <3>1. s.engine.stuck = acc.engine.stuck
        <4>1. AfterNobody(acc, n) \/ AfterDeny(acc, n)
          BY <3>0, SeenNobody, SeenDeny
        <4> QED BY <4>1 DEF After, AfterNobody, AfterDeny
      <3> HIDE DEF s
      <3> QED BY <1>0, <2>0, <3>1
    <2> QED BY <2>1, <2>2
  <1> QED BY <1>2, <1>3, <1>4, <1>5

\* What the engine keeps is of its type.
Streak(k) == [first : 0 .. MaxClock, last : 0 .. MaxClock, denies : 1 .. k]
TypesTo(e, k) ==
  /\ e.seen \subseteq Ids /\ e.allowed \subseteq Ids /\ e.stuck \subseteq Ids
  /\ e.streak \in [Ids -> SUBSET Streak(k)]

LEMMA LongerStreak ==
  ASSUME NEW k \in Nat, NEW s \in SUBSET Streak(k), NEW sec \in 0 .. MaxClock
  PROVE  Longer(s, sec) \in SUBSET Streak(k + 1)
  <1>1. ASSUME NEW x \in Streak(k) PROVE [x EXCEPT !.last = sec, !.denies = @ + 1] \in Streak(k + 1)
    <2> DEFINE p == x.first
               q == x.last
               c == x.denies
               y == [first |-> p, last |-> sec, denies |-> c]
    <2>1. x = [first |-> p, last |-> q, denies |-> c] /\ p \in 0 .. MaxClock /\ c \in 1 .. k
      BY DEF Streak
    <2> HIDE DEF p, q, c
    <2>2. [x EXCEPT !.last = sec] = y
      BY <2>1
    <2>3. [y EXCEPT !.denies = @ + 1] = [first |-> p, last |-> sec, denies |-> c + 1]
      OBVIOUS
    <2>4. [x EXCEPT !.last = sec, !.denies = @ + 1] = [[x EXCEPT !.last = sec] EXCEPT !.denies = @ + 1]
      BY Zenon
    <2>5. [first |-> p, last |-> sec, denies |-> c + 1] \in Streak(k + 1)
      BY <2>1 DEF Streak
    <2> QED BY <2>2, <2>3, <2>4, <2>5
  <1>2. [first |-> sec, last |-> sec, denies |-> 1] \in Streak(k + 1)
    BY DEF Streak
  <1>3. ASSUME NEW z \in Longer(s, sec) PROVE z \in Streak(k + 1)
    <2>1. CASE s = {}
      BY <1>2, <2>1 DEF Longer
    <2>2. CASE s # {}
      <3>1. \E x \in s : z = [x EXCEPT !.last = sec, !.denies = @ + 1]
        BY <2>2, Zenon DEF Longer
      <3>2. PICK x \in s : z = [x EXCEPT !.last = sec, !.denies = @ + 1]
        BY <3>1
      <3>3. x \in Streak(k)
        OBVIOUS
      <3> QED BY <1>1, <3>2, <3>3
    <2> QED BY <2>1, <2>2
  <1> QED BY <1>3

LEMMA SeenTypes ==
  ASSUME NEW acc, AccOK(acc), NEW n \in 1 .. Len(log), log \in Seq(Row), TypesTo(acc.engine, n - 1)
  PROVE  TypesTo(Seen(acc, n).engine, n)
  <1> DEFINE s == Seen(acc, n)
             i == log[n].id
             sec == log[n].at
             E == acc.engine.streak
  <1>1. n \in Nat \ {0} /\ i \in Ids \cup {NoId} /\ log[n].outcome \in {"allow", "deny"} /\ sec \in 0 .. MaxClock
    <2>1. log[n] \in Row
      OBVIOUS
    <2> QED BY <2>1 DEF Row
  <1>2. n - 1 \in Nat /\ n - 1 + 1 = n /\ MaxClock \in Nat
    BY <1>1, MaxClockAssumption DEF MaxClockAssumption
  <1>3. Streak(n - 1) \subseteq Streak(n)
    BY <1>1 DEF Streak
  <1>4. E \in [Ids -> SUBSET Streak(n)]
    BY <1>3 DEF TypesTo
  <1>5. CASE i = NoId
    <2>1. AfterNobody(acc, n)
      BY <1>5, SeenNobody
    <2> HIDE DEF E
    <2> QED BY <1>4, <2>1 DEF After, AfterNobody, TypesTo, E
  <1>6. CASE i # NoId /\ log[n].outcome = "allow"
    <2>0. log[n].id \in Ids /\ log[n].id # NoId /\ log[n].outcome = "allow"
      BY <1>1, <1>6
    <2>1. AfterAllow(acc, n)
      BY <2>0, SeenAllow
    <2>2. [E EXCEPT ![i] = {}] \in [Ids -> SUBSET Streak(n)]
      BY <1>4
    <2>3. s.engine.streak \in [Ids -> SUBSET Streak(n)]
      BY <2>1, <2>2 DEF After, AfterAllow
    <2> HIDE DEF s
    <2>4. /\ s.engine.seen = acc.engine.seen \cup {i} /\ s.engine.allowed = acc.engine.allowed \cup {i}
          /\ s.engine.stuck = acc.engine.stuck \ {i}
      BY <2>1 DEF After, AfterAllow, s
    <2> QED BY <2>0, <2>3, <2>4 DEF TypesTo, s
  <1>7. CASE i # NoId /\ log[n].outcome = "deny"
    <2>0. log[n].id \in Ids /\ log[n].id # NoId /\ log[n].outcome = "deny"
      BY <1>1, <1>7
    <2>1. AfterDeny(acc, n)
      BY <2>0, SeenDeny
    <2>2. E[i] \in SUBSET Streak(n - 1)
      BY <2>0 DEF TypesTo
    <2>3. Longer(E[i], sec) \in SUBSET Streak(n)
      <3> HIDE DEF E, i, sec
      <3> QED BY <1>1, <1>2, <2>2, LongerStreak
    <2>4. [E EXCEPT ![i] = Longer(E[i], sec)] \in [Ids -> SUBSET Streak(n)]
      <3> DEFINE v == Longer(E[i], sec)
      <3> HIDE DEF v, E
      <3>1. v \in SUBSET Streak(n)
        BY <2>3 DEF v
      <3>2. [E EXCEPT ![i] = v] \in [Ids -> SUBSET Streak(n)]
        BY <1>4, <3>1
      <3> QED BY <3>2 DEF v
    <2>5. s.engine.streak \in [Ids -> SUBSET Streak(n)]
      BY <2>1, <2>4 DEF After, AfterDeny
    <2>6. /\ s.engine.seen = acc.engine.seen \cup {i} /\ s.engine.allowed = acc.engine.allowed
          /\ s.engine.stuck = acc.engine.stuck
      BY <2>1 DEF After, AfterDeny
    <2> HIDE DEF s
    <2> QED BY <2>0, <2>5, <2>6 DEF TypesTo, s
  <1> QED BY <1>1, <1>5, <1>6, <1>7

\* What is raised while rows are read: each caller that was not known, once seen.
Holds(seq, y) == \E j \in DOMAIN seq : seq[j] = y
FirstSeen == {Alarm("first seen", id) : id \in Ids}
OutOK(acc) ==
  /\ acc.out \in Seq(FirstSeen)
  /\ engine.seen \subseteq acc.engine.seen
  /\ \A id \in Ids : Holds(acc.out, Alarm("first seen", id)) <=> id \in acc.engine.seen \ engine.seen

LEMMA AlarmsDiffer ==
  ASSUME NEW k1, NEW k2, NEW w1, NEW w2
  PROVE  Alarm(k1, w1) = Alarm(k2, w2) <=> k1 = k2 /\ w1 = w2
  <1>1. Alarm(k1, w1).kind = k1 /\ Alarm(k1, w1).who = w1
    BY DEF Alarm
  <1>2. Alarm(k2, w2).kind = k2 /\ Alarm(k2, w2).who = w2
    BY DEF Alarm
  <1> QED BY <1>1, <1>2

LEMMA OneMore ==
  ASSUME NEW T, NEW s \in Seq(T), NEW x \in T, NEW y
  PROVE  /\ Append(s, x) \in Seq(T)
         /\ Holds(Append(s, x), y) <=> y = x \/ Holds(s, y)
  <1> DEFINE u == Append(s, x)
             n == Len(s)
  <1>1. /\ u \in Seq(T) /\ n \in Nat /\ DOMAIN s = 1 .. n /\ DOMAIN u = 1 .. n + 1
        /\ u[n + 1] = x /\ \A j \in 1 .. n : u[j] = s[j]
    OBVIOUS
  <1> HIDE DEF u, n
  <1>2. \A j \in 1 .. n + 1 : j = n + 1 \/ j \in 1 .. n
    BY <1>1
  <1>3. ASSUME NEW j \in DOMAIN u, u[j] = y PROVE y = x \/ \E l \in DOMAIN s : s[l] = y
    BY <1>1, <1>2, <1>3
  <1>4. ASSUME y = x PROVE \E j \in DOMAIN u : u[j] = y
    BY <1>1, <1>4
  <1>5. ASSUME NEW j \in DOMAIN s, s[j] = y PROVE \E l \in DOMAIN u : u[l] = y
    BY <1>1, <1>5
  <1> QED BY <1>1, <1>3, <1>4, <1>5 DEF u, Holds

LEMMA SeenRaises ==
  ASSUME NEW acc, OutOK(acc), NEW s, NEW i \in Ids \cup {NoId}, NoId \notin Ids,
         s.engine.seen = acc.engine.seen \cup ({i} \cap Ids),
         s.out = IF i \in acc.engine.seen \cup {NoId} THEN acc.out
                 ELSE Append(acc.out, Alarm("first seen", i))
  PROVE  OutOK(s)
  <1>1. CASE i \in acc.engine.seen \cup {NoId}
    <2>1. s.engine.seen = acc.engine.seen /\ s.out = acc.out
      BY <1>1
    <2> QED BY <2>1 DEF OutOK
  <1>2. CASE i \notin acc.engine.seen \cup {NoId}
    <2>1. s.engine.seen = acc.engine.seen \cup {i} /\ i \in Ids /\ i \notin engine.seen
      BY <1>2 DEF OutOK
    <2> DEFINE x == Alarm("first seen", i)
    <2>2. x \in FirstSeen /\ s.out = Append(acc.out, x) /\ acc.out \in Seq(FirstSeen)
      BY <1>2, <2>1 DEF FirstSeen, OutOK
    <2>3. \A id \in Ids : (Alarm("first seen", id) = x) <=> id = i
      <3>1. ASSUME NEW id \in Ids PROVE (Alarm("first seen", id) = Alarm("first seen", i)) <=> id = i
        BY DEF Alarm
      <3> QED BY <3>1
    <2> DEFINE o == acc.out
               u == s.out
    <2>4. x \in FirstSeen /\ u = Append(o, x) /\ o \in Seq(FirstSeen)
      BY <2>2
    <2> HIDE DEF x, o, u
    <2>6. u \in Seq(FirstSeen)
      BY <2>4, OneMore
    <2>7. \A y : Holds(u, y) <=> y = x \/ Holds(o, y)
      BY <2>4, OneMore
    <2>5. ASSUME NEW id \in Ids
          PROVE  Holds(s.out, Alarm("first seen", id)) <=> id \in s.engine.seen \ engine.seen
      <3> DEFINE y == Alarm("first seen", id)
      <3>1. Holds(acc.out, y) <=> id \in acc.engine.seen \ engine.seen
        BY DEF OutOK
      <3>2. (y = x) <=> id = i
        BY <2>3
      <3> HIDE DEF y
      <3>3. Holds(s.out, y) <=> y = x \/ Holds(acc.out, y)
        BY <2>7 DEF u, o
      <3>4. Holds(s.out, y) <=> id \in s.engine.seen \ engine.seen
        BY <2>1, <3>1, <3>2, <3>3
      <3> QED BY <3>4 DEF y
    <2> QED BY <2>1, <2>6, <2>5 DEF OutOK, u
  <1> QED BY <1>1, <1>2

LEMMA LaterStill ==
  ASSUME NEW k \in Nat, NEW m \in Nat, k <= m
  PROVE  /\ TypesTo(engine, k) => TypesTo(engine, m)
         /\ StuckTo(engine, k) /\ (\A i \in Ids : reported[i] \in Nat) => StuckTo(engine, m)
  <1>1. 1 .. k \subseteq 1 .. m
    OBVIOUS
  <1>2. Streak(k) \subseteq Streak(m)
    BY <1>1 DEF Streak
  <1>3. TypesTo(engine, k) => TypesTo(engine, m)
    BY <1>2 DEF TypesTo
  <1>4. ASSUME StuckTo(engine, k), \A i \in Ids : reported[i] \in Nat,
               NEW id \in Ids, reported[id] > 0, id \notin engine.stuck
        PROVE  \E n \in reported[id] + 1 .. m : log[n].id = id /\ log[n].outcome = "allow"
    <2>1. PICK n \in reported[id] + 1 .. k : log[n].id = id /\ log[n].outcome = "allow"
      BY <1>4 DEF StuckTo
    <2>2. n \in reported[id] + 1 .. m
      BY <1>4
    <2> QED BY <2>1, <2>2
  <1>5. StuckTo(engine, k) /\ (\A i \in Ids : reported[i] \in Nat) => StuckTo(engine, m)
    BY <1>4 DEF StuckTo
  <1> QED BY <1>3, <1>5

\* What holds of the engine and the reports once the rows up to k are read.
FoldOK(a, k, fresh) ==
  /\ AccOK(a) /\ a.engine.warned = engine.warned
  /\ a.engine.last = IF k < fresh THEN engine.last ELSE k
  /\ StuckTo(a.engine, k) /\ TypesTo(a.engine, k) /\ OutOK(a)
  /\ fresh = engine.last + 1 /\ TrueTo(engine, engine.last) /\ KnownTo(engine, engine.last)
        => TrueTo(a.engine, k) /\ KnownTo(a.engine, k)

Before ==
  /\ log \in Seq(Row) /\ Len(log) \in Nat /\ EngineOK(engine) /\ engine.last \in 0 .. Len(log)
  /\ StuckTo(engine, engine.last) /\ TypesTo(engine, engine.last)
  /\ \A i \in Ids : reported[i] \in 0 .. engine.last

LEMMA FoldBegins ==
  ASSUME Before, NEW fresh \in Nat \ {0}, engine.last < fresh
  PROVE  FoldOK([engine |-> engine, out |-> <<>>], fresh - 1, fresh)
  <1> DEFINE a == [engine |-> engine, out |-> <<>>]
  <1>1. a.engine = engine /\ a.out = <<>> /\ DOMAIN a = {"engine", "out"}
    OBVIOUS
  <1> HIDE DEF a
  <1>2. AccOK(a)
    BY <1>1 DEF AccOK, Before
  <1>3. OutOK(a)
    <2>1. \A y : ~Holds(a.out, y)
      BY <1>1 DEF Holds
    <2>2. a.out \in Seq(FirstSeen)
      BY <1>1
    <2> QED BY <1>1, <2>1, <2>2 DEF OutOK
  <1>4. engine.last \in Nat /\ fresh - 1 \in Nat /\ engine.last <= fresh - 1 /\ \A i \in Ids : reported[i] \in Nat
    BY DEF Before
  <1>5. StuckTo(engine, fresh - 1) /\ TypesTo(engine, fresh - 1)
    BY <1>4, LaterStill DEF Before
  <1>6. fresh = engine.last + 1 => fresh - 1 = engine.last
    BY <1>4
  <1>7. fresh - 1 < fresh
    OBVIOUS
  <1>8. FoldOK(a, fresh - 1, fresh)
    BY <1>1, <1>2, <1>3, <1>5, <1>6, <1>7 DEF FoldOK
  <1> QED BY <1>8 DEF a

LEMMA FoldGoesOn ==
  ASSUME Before, NEW fresh \in Nat \ {0}, engine.last < fresh, NEW n \in fresh .. Len(log),
         NEW acc, FoldOK(acc, n - 1, fresh)
  PROVE  FoldOK(Seen(acc, n), n, fresh)
  <1> DEFINE s == Seen(acc, n)
             i == log[n].id
  <1>1. n \in 1 .. Len(log) /\ Len(log) \in Nat /\ AccOK(acc)
    BY DEF Before, FoldOK
  <1>2. log \in Seq(Row)
    BY DEF Before
  <1>3. RowsOK
    <2>1. \A m \in 1 .. Len(log) : log[m] \in Row
      BY <1>2
    <2> QED BY <2>1 DEF RowsOK, Row
  <1>4. \A k \in Ids : reported[k] \in 0 .. n - 1
    <2>1. engine.last \in Nat /\ engine.last <= n - 1
      BY <1>1 DEF Before
    <2> QED BY <1>1, <2>1 DEF Before
  <1>5. /\ AccOK(s) /\ s.engine.last = n /\ s.engine.warned = acc.engine.warned
        /\ TrueTo(acc.engine, n - 1) => TrueTo(s.engine, n)
        /\ KnownTo(acc.engine, n - 1) => KnownTo(s.engine, n)
        /\ StuckTo(acc.engine, n - 1) /\ (\A k \in Ids : reported[k] \in 0 .. n - 1) => StuckTo(s.engine, n)
        /\ s.engine.seen = acc.engine.seen \cup ({i} \cap Ids)
        /\ s.out = IF i \in acc.engine.seen \cup {NoId} THEN acc.out
                   ELSE Append(acc.out, Alarm("first seen", i))
    BY <1>1, <1>3, SeenKeeps, Zenon
  <1>6. TypesTo(s.engine, n)
    BY <1>1, <1>2, SeenTypes DEF FoldOK
  <1>7. OutOK(s)
    <2>1. i \in Ids \cup {NoId} /\ NoId \notin Ids /\ OutOK(acc)
      BY <1>1, <1>3, AlarmsAssumption DEF AlarmsAssumption, RowsOK, FoldOK
    <2> HIDE DEF s, i
    <2> QED BY <1>5, <2>1, SeenRaises
  <1> HIDE DEF s
  <1>8. ~(n < fresh)
    BY <1>1
  <1>9. FoldOK(s, n, fresh)
    BY <1>4, <1>5, <1>6, <1>7, <1>8 DEF FoldOK
  <1> QED BY <1>9 DEF s

LEMMA FoldEnds ==
  ASSUME Before, NEW fresh \in Nat \ {0}, engine.last < fresh, fresh <= Len(log) + 1
  PROVE  FoldOK(Evaluated(fresh), Len(log), fresh)
  <1>0. Len(log) \in Nat
    BY DEF Before
  <1>1. PICK acc : /\ acc[fresh - 1] = [engine |-> engine, out |-> <<>>]
                   /\ \A n \in fresh .. Len(log) : acc[n] = Seen(acc[n - 1], n)
                   /\ Evaluated(fresh) = acc[Len(log)]
    BY <1>0, EvaluatedIs
  <1> DEFINE S == {k \in Nat : fresh - 1 + k <= Len(log) => FoldOK(acc[fresh - 1 + k], fresh - 1 + k, fresh)}
  <1>2. 0 \in S
    <2>1. FoldOK(acc[fresh - 1], fresh - 1, fresh)
      BY <1>1, FoldBegins
    <2>2. fresh - 1 + 0 = fresh - 1
      OBVIOUS
    <2> QED BY <2>1, <2>2
  <1>3. ASSUME NEW k \in Nat, k \in S PROVE k + 1 \in S
    <2> DEFINE n == fresh - 1 + (k + 1)
    <2> SUFFICES ASSUME n <= Len(log) PROVE FoldOK(acc[n], n, fresh)
      OBVIOUS
    <2>1. n \in fresh .. Len(log) /\ n - 1 = fresh - 1 + k /\ fresh - 1 + k <= Len(log)
      BY <1>0
    <2>2. FoldOK(acc[n - 1], n - 1, fresh)
      BY <1>3, <2>1
    <2>3. acc[n] = Seen(acc[n - 1], n)
      BY <1>1, <2>1
    <2> HIDE DEF n
    <2>4. FoldOK(Seen(acc[n - 1], n), n, fresh)
      BY <2>1, <2>2, FoldGoesOn
    <2> QED BY <2>3, <2>4
  <1>4. \A k \in Nat : k \in S
    <2> HIDE DEF S
    <2> QED BY <1>2, <1>3, NatSetInduction
  <1> DEFINE k == Len(log) - (fresh - 1)
  <1>5. k \in Nat /\ fresh - 1 + k = Len(log) /\ Len(log) <= Len(log)
    BY <1>0
  <1>6. k \in S
    BY <1>4, <1>5
  <1> HIDE DEF k
  <1> QED BY <1>1, <1>5, <1>6

-----------------------------------------------------------------------------
(* One poll.                                                               *)

LEMMA SetAsSequence ==
  ASSUME NEW S, IsFiniteSet(S)
  PROVE  SetToSeq(S) \in Seq(S)
  <1>1. PICK n \in Nat : ExistsBijection(1 .. n, S)
    BY FS_NatBijection
  <1>2. Cardinality(S) = n
    BY <1>1, FS_CountingElements
  <1>3. PICK f \in [1 .. n -> S] : IsInjective(f)
    BY <1>1 DEF ExistsBijection, Bijection, Injection
  <1>4. SetToSeq(S) \in [1 .. n -> S]
    BY <1>2, <1>3 DEF SetToSeq
  <1> QED BY <1>4

LEMMA Named ==
  ASSUME NEW S, IsFiniteSet(S), NEW f
  PROVE  IsFiniteSet({f[x] : x \in S})
  <1> DEFINE T == {f[x] : x \in S}
             g == [x \in S |-> f[x]]
  <1>1. g \in Surjection(S, T)
    BY DEF Surjection
  <1> HIDE DEF g, T
  <1>2. IsFiniteSet(T)
    BY <1>1, FS_Surjection
  <1> QED BY <1>2 DEF T

LEMMA Joined ==
  ASSUME NEW T, NEW p \in Seq(T), NEW q \in Seq(T)
  PROVE  /\ p \o q \in Seq(T)
         /\ \A y : Holds(p \o q, y) <=> Holds(p, y) \/ Holds(q, y)
  <1> DEFINE u == p \o q
             m == Len(p)
             n == Len(q)
  <1>1. /\ u \in Seq(T) /\ m \in Nat /\ n \in Nat
        /\ DOMAIN p = 1 .. m /\ DOMAIN q = 1 .. n /\ DOMAIN u = 1 .. m + n
        /\ \A j \in 1 .. m : u[j] = p[j]
        /\ \A j \in 1 .. n : u[m + j] = q[j]
    OBVIOUS
  <1> HIDE DEF u, m, n
  <1>2. ASSUME NEW y, NEW j \in DOMAIN u, u[j] = y PROVE Holds(p, y) \/ Holds(q, y)
    <2>1. CASE j <= m
      <3>1. j \in 1 .. m
        BY <1>1, <2>1
      <3> QED BY <1>1, <1>2, <3>1 DEF Holds
    <2>2. CASE ~(j <= m)
      <3> DEFINE l == j - m
      <3>1. l \in 1 .. n /\ j = m + l
        BY <1>1, <2>2
      <3> HIDE DEF l
      <3> QED BY <1>1, <1>2, <3>1 DEF Holds
    <2> QED BY <2>1, <2>2
  <1>3. ASSUME NEW y, NEW j \in DOMAIN p, p[j] = y PROVE Holds(u, y)
    <2>1. j \in DOMAIN u /\ u[j] = y
      BY <1>1, <1>3
    <2> QED BY <2>1 DEF Holds
  <1>4. ASSUME NEW y, NEW j \in DOMAIN q, q[j] = y PROVE Holds(u, y)
    <2>1. m + j \in DOMAIN u /\ u[m + j] = y
      BY <1>1, <1>4
    <2> QED BY <2>1 DEF Holds
  <1>5. \A y : Holds(u, y) <=> Holds(p, y) \/ Holds(q, y)
    BY <1>2, <1>3, <1>4 DEF Holds
  <1> QED BY <1>1, <1>5 DEF u

AnyAlarm == [kind : {"first seen", "stuck", "spike", "expiring"},
             who : Ids \cup {NoId} \cup {w[1] : w \in UNION Windows}]

LEMMA IsAlarm ==
  ASSUME NEW k \in {"first seen", "stuck", "spike", "expiring"},
         NEW w \in Ids \cup {NoId} \cup {x[1] : x \in UNION Windows}
  PROVE  Alarm(k, w) \in AnyAlarm
  BY DEF Alarm, AnyAlarm

AlarmInv ==
  /\ Before /\ Len(log) <= MaxRows /\ windows \in Windows /\ clock \in 0 .. MaxClock
  /\ missed \in BOOLEAN /\ DOMAIN reported = Ids
  /\ ~missed => TrueTo(engine, engine.last) /\ KnownTo(engine, engine.last)

\* What a poll does, of which callers it finds stuck.
Polled(fresh, stuck, r) ==
  /\ todo = <<>> /\ engine.last < fresh /\ fresh <= Len(log) + 1 /\ r.engine.last = Len(log)
  /\ FoldOK(r, Len(log), fresh) /\ stuck \cap r.engine.stuck = {}
  /\ EngineOK(engine') /\ engine'.last = Len(log) /\ engine'.seen = r.engine.seen
  /\ engine'.allowed = r.engine.allowed /\ engine'.streak = r.engine.streak
  /\ engine'.stuck = r.engine.stuck \cup stuck
  /\ reported' = [id \in Ids |-> IF id \in stuck THEN Len(log) ELSE reported[id]]
  /\ missed' \in BOOLEAN /\ (~missed' => ~missed /\ fresh = engine.last + 1)
  /\ todo' \in Seq(AnyAlarm)
  /\ \A id \in Ids : Holds(todo', Alarm("first seen", id)) <=> id \in r.engine.seen \ engine.seen
  /\ \A id \in Ids : Holds(todo', Alarm("stuck", id)) => id \in stuck
  /\ UNCHANGED <<log, windows, hooked, records, tries>>

LEMMA PollIs ==
  ASSUME AlarmInv, NEW readable \in BOOLEAN, Poll(readable)
  PROVE  \E fresh \in Nat \ {0}, stuck \in SUBSET Ids : Polled(fresh, stuck, Evaluated(fresh))
  <1> DEFINE fresh == IF engine.last >= RingStart THEN engine.last + 1 ELSE RingStart
             read == Evaluated(fresh)
             stuck == {id \in Ids : IsStuck(read.engine, id)}
             kept == read.engine.warned \cap windows
             due == IF readable THEN Due(kept) ELSE {}
             E == read.engine
             sp == IsSpike
             wa == IF readable THEN kept \cup due ELSE E.warned
             p1 == read.out
             p2 == SetToSeq({Alarm("stuck", id) : id \in stuck})
             p3 == IF IsSpike /\ ~engine.spiking THEN <<Alarm("spike", NoId)>> ELSE <<>>
             p4 == SetToSeq({Alarm("expiring", w[1]) : w \in due})
  <1>1. /\ todo = <<>>
        /\ engine' = [E EXCEPT !.stuck = @ \cup stuck, !.spiking = sp, !.warned = wa]
        /\ reported' = [id \in Ids |-> IF id \in stuck THEN Len(log) ELSE reported[id]]
        /\ missed' = (missed \/ fresh > engine.last + 1)
        /\ todo' = p1 \o p2 \o p3 \o p4
        /\ UNCHANGED <<log, windows, hooked, records, tries>>
    <2>1. engine' = [E EXCEPT !.stuck = @ \cup stuck, !.spiking = sp,
                               !.warned = IF readable THEN kept \cup due ELSE @]
      BY Zenon DEF Poll
    <2>2. engine' = [E EXCEPT !.stuck = @ \cup stuck, !.spiking = sp, !.warned = wa]
      <3> HIDE DEF E, kept, due, stuck, sp
      <3>1. CASE readable
        BY <2>1, <3>1
      <3>2. CASE ~readable
        BY <2>1, <3>2
      <3> QED BY <3>1, <3>2
    <2>3. /\ todo = <<>>
          /\ reported' = [id \in Ids |-> IF id \in stuck THEN Len(log) ELSE reported[id]]
          /\ missed' = (missed \/ fresh > engine.last + 1)
          /\ todo' = p1 \o p2 \o p3 \o p4
          /\ UNCHANGED <<log, windows, hooked, records, tries>>
      BY Zenon DEF Poll
    <2> QED BY <2>2, <2>3
  <1>2. /\ fresh \in Nat \ {0} /\ engine.last < fresh /\ fresh <= Len(log) + 1
        /\ fresh > engine.last + 1 \/ fresh = engine.last + 1
        /\ Len(log) < fresh => engine.last = Len(log)
    BY AlarmsAssumption DEF AlarmsAssumption, AlarmInv, Before, RingStart
  <1> HIDE DEF fresh
  <1>3. FoldOK(read, Len(log), fresh)
    BY <1>2, FoldEnds DEF AlarmInv
  <1> HIDE DEF read
  <1>4. E.last = Len(log)
    BY <1>2, <1>3 DEF FoldOK
  <1>5. stuck \cap E.stuck = {} /\ stuck \subseteq Ids
    BY DEF IsStuck
  <1>6. EngineOK(E) /\ due \subseteq windows
    BY <1>3 DEF FoldOK, AccOK, Due
  <1> HIDE DEF E, stuck, sp, wa
  <1>7. /\ EngineOK(engine') /\ engine'.last = E.last /\ engine'.seen = E.seen
        /\ engine'.allowed = E.allowed /\ engine'.streak = E.streak
        /\ engine'.stuck = E.stuck \cup stuck
    BY <1>1, <1>6 DEF EngineOK, EngineFields
  <1>8. missed' \in BOOLEAN /\ (~missed' => ~missed /\ fresh = engine.last + 1)
    <2> DEFINE b == fresh > engine.last + 1
    <2>1. missed' = (missed \/ b) /\ (~b => fresh = engine.last + 1)
      BY <1>1, <1>2
    <2> HIDE DEF b
    <2> QED BY <2>1
  <1>9. /\ p1 \in Seq(AnyAlarm) /\ p1 \in Seq(FirstSeen)
        /\ \A id \in Ids : Holds(p1, Alarm("first seen", id)) <=> id \in E.seen \ engine.seen
    <2>1. FirstSeen \subseteq AnyAlarm
      BY IsAlarm DEF FirstSeen
    <2>2. p1 \in Seq(FirstSeen)
      BY <1>3 DEF FoldOK, OutOK
    <2>3. p1 \in Seq(AnyAlarm)
      <3> HIDE DEF p1
      <3> QED BY <2>1, <2>2
    <2> QED BY <1>3, <2>2, <2>3 DEF FoldOK, OutOK, E
  <1>10. /\ p2 \in Seq(AnyAlarm)
         /\ \A y : Holds(p2, y) => \E id \in stuck : y = Alarm("stuck", id)
    <2> DEFINE S == {Alarm("stuck", id) : id \in stuck}
               f == [id \in stuck |-> Alarm("stuck", id)]
    <2>1. IsFiniteSet(stuck)
      BY <1>5, FS_Subset, AlarmsAssumption DEF AlarmsAssumption
    <2>2. S = {f[id] : id \in stuck}
      OBVIOUS
    <2>3. IsFiniteSet(S)
      <3> HIDE DEF S, f
      <3> QED BY <2>1, <2>2, Named
    <2>4. S \subseteq AnyAlarm
      BY <1>5, IsAlarm
    <2>5. p2 \in Seq(S)
      <3> HIDE DEF S
      <3> QED BY <2>3, SetAsSequence DEF S
    <2> HIDE DEF p2
    <2>6. \A y : Holds(p2, y) => y \in S
      <3> HIDE DEF S
      <3> QED BY <2>5 DEF Holds
    <2>7. p2 \in Seq(AnyAlarm)
      <3> HIDE DEF S
      <3> QED BY <2>4, <2>5
    <2> QED BY <2>6, <2>7
  <1>11. /\ p3 \in Seq(AnyAlarm)
         /\ \A y : Holds(p3, y) => y = Alarm("spike", NoId)
    <2>1. Alarm("spike", NoId) \in AnyAlarm
      BY DEF AnyAlarm, Alarm
    <2> QED BY <2>1 DEF Holds
  <1>12. /\ p4 \in Seq(AnyAlarm)
         /\ \A y : Holds(p4, y) => \E x : y = Alarm("expiring", x)
    <2> DEFINE S == {Alarm("expiring", w[1]) : w \in due}
               f == [w \in due |-> Alarm("expiring", w[1])]
    <2>1. IsFiniteSet(due)
      BY <1>6, FS_Subset, AlarmsAssumption DEF AlarmsAssumption, AlarmInv
    <2>2. S = {f[w] : w \in due}
      OBVIOUS
    <2>3. IsFiniteSet(S)
      <3> HIDE DEF S, f, due
      <3> QED BY <2>1, <2>2, Named
    <2>4. S \subseteq AnyAlarm
      <3>1. due \subseteq UNION Windows
        BY <1>6 DEF AlarmInv
      <3> HIDE DEF due
      <3> QED BY <3>1, IsAlarm
    <2>5. p4 \in Seq(S)
      <3> HIDE DEF S
      <3> QED BY <2>3, SetAsSequence DEF S
    <2> HIDE DEF p4
    <2>6. \A y : Holds(p4, y) => y \in S
      <3> HIDE DEF S
      <3> QED BY <2>5 DEF Holds
    <2>7. p4 \in Seq(AnyAlarm)
      <3> HIDE DEF S
      <3> QED BY <2>4, <2>5
    <2> HIDE DEF due
    <2> QED BY <2>6, <2>7
  <1> HIDE DEF p1, p2, p3, p4
  <1>13. /\ todo' \in Seq(AnyAlarm)
         /\ \A y : Holds(todo', y) <=> Holds(p1, y) \/ Holds(p2, y) \/ Holds(p3, y) \/ Holds(p4, y)
    <2> DEFINE q2 == p1 \o p2
               q3 == q2 \o p3
    <2>1. q2 \in Seq(AnyAlarm) /\ \A y : Holds(q2, y) <=> Holds(p1, y) \/ Holds(p2, y)
      BY <1>9, <1>10, Joined
    <2>2. todo' = q3 \o p4
      BY <1>1
    <2> HIDE DEF q2
    <2>3. q3 \in Seq(AnyAlarm) /\ \A y : Holds(q3, y) <=> Holds(q2, y) \/ Holds(p3, y)
      BY <1>11, <2>1, Joined
    <2> HIDE DEF q3
    <2>4. todo' \in Seq(AnyAlarm) /\ \A y : Holds(todo', y) <=> Holds(q3, y) \/ Holds(p4, y)
      BY <1>12, <2>2, <2>3, Joined
    <2> QED BY <2>1, <2>3, <2>4
  <1>14. \A k1, k2, w1, w2 : Alarm(k1, w1) = Alarm(k2, w2) => k1 = k2 /\ w1 = w2
    BY AlarmsDiffer
  <1>15. ASSUME NEW id \in Ids
         PROVE  Holds(todo', Alarm("first seen", id)) <=> id \in E.seen \ engine.seen
    <2> DEFINE y == Alarm("first seen", id)
    <2>1. /\ "first seen" # "stuck" /\ "first seen" # "spike" /\ "first seen" # "expiring"
      OBVIOUS
    <2>2. ~Holds(p2, y) /\ ~Holds(p3, y) /\ ~Holds(p4, y)
      <3>1. ~Holds(p2, y)
        <4> SUFFICES ASSUME Holds(p2, y) PROVE FALSE
          OBVIOUS
        <4>1. PICK i \in stuck : y = Alarm("stuck", i)
          BY <1>10
        <4> QED BY <1>14, <2>1, <4>1
      <3>2. ~Holds(p3, y)
        BY <1>11, <1>14, <2>1
      <3>3. ~Holds(p4, y)
        <4> SUFFICES ASSUME Holds(p4, y) PROVE FALSE
          OBVIOUS
        <4>1. PICK x : y = Alarm("expiring", x)
          BY <1>12
        <4> QED BY <1>14, <2>1, <4>1
      <3> QED BY <3>1, <3>2, <3>3
    <2>3. Holds(p1, y) <=> id \in E.seen \ engine.seen
      BY <1>9
    <2> HIDE DEF y
    <2>4. Holds(todo', y) <=> id \in E.seen \ engine.seen
      BY <1>13, <2>2, <2>3
    <2> QED BY <2>4 DEF y
  <1>16. ASSUME NEW id \in Ids, Holds(todo', Alarm("stuck", id)) PROVE id \in stuck
    <2> DEFINE y == Alarm("stuck", id)
    <2>1. /\ "stuck" # "first seen" /\ "stuck" # "spike" /\ "stuck" # "expiring"
      OBVIOUS
    <2>2. ~Holds(p1, y)
      <3>1. \A z : Holds(p1, z) => z \in FirstSeen
        <4>1. p1 \in Seq(FirstSeen)
          BY <1>9
        <4>2. \A j \in DOMAIN p1 : p1[j] \in FirstSeen
          BY <4>1
        <4> QED BY <4>2 DEF Holds
      <3>2. y \notin FirstSeen
        BY <1>14, <2>1 DEF FirstSeen
      <3> QED BY <3>1, <3>2
    <2>3. ~Holds(p3, y) /\ ~Holds(p4, y)
      BY <1>11, <1>12, <1>14, <2>1
    <2>4. Holds(p2, y)
      BY <1>13, <1>16, <2>2, <2>3
    <2>5. PICK i \in stuck : y = Alarm("stuck", i)
      BY <1>10, <2>4
    <2> QED BY <1>14, <2>5
  <1>17. Polled(fresh, stuck, read)
    BY <1>1, <1>2, <1>3, <1>4, <1>5, <1>7, <1>8, <1>13, <1>15, <1>16 DEF Polled, E
  <1> QED BY <1>2, <1>5, <1>17 DEF read

-----------------------------------------------------------------------------
(* The invariant, and what it says of the reports.                         *)

LEMMA RowsStay ==
  ASSUME NEW k \in Nat, \A n \in 1 .. k : log'[n] = log[n], UNCHANGED <<engine, reported>>,
         \A i \in Ids : reported[i] \in Nat
  PROVE  /\ TrueTo(engine, k) => TrueTo(engine, k)'
         /\ KnownTo(engine, k) => KnownTo(engine, k)'
         /\ StuckTo(engine, k) => StuckTo(engine, k)'
  <1>1. ASSUME NEW id PROVE StreakTo(id, k)' = StreakTo(id, k)
    <2> DEFINE D == DenialsTo(id, k)
    <2>1. DenialsTo(id, k)' = D
      BY DEF DenialsTo
    <2>2. D \in SUBSET (1 .. k)
      BY DEF DenialsTo
    <2>3. D # {} => Min(D) \in 1 .. k /\ Max(D) \in 1 .. k
      <3> HIDE DEF D
      <3>1. D \in SUBSET Nat
        BY <2>2
      <3> QED BY <2>2, <3>1, SmallestOf, GreatestOf
    <2> HIDE DEF D
    <2>4. D # {} => log'[Min(D)] = log[Min(D)] /\ log'[Max(D)] = log[Max(D)]
      BY <2>3
    <2>5. StreakTo(id, k) = IF D = {} THEN {}
            ELSE {[first |-> log[Min(D)].at, last |-> log[Max(D)].at, denies |-> Cardinality(D)]}
      BY DEF StreakTo, D
    <2>6. StreakTo(id, k)' = IF D = {} THEN {}
            ELSE {[first |-> log'[Min(D)].at, last |-> log'[Max(D)].at, denies |-> Cardinality(D)]}
      BY <2>1 DEF StreakTo
    <2> QED BY <2>4, <2>5, <2>6
  <1>2. TrueTo(engine, k) => TrueTo(engine, k)'
    BY <1>1 DEF TrueTo
  <1>3. KnownTo(engine, k) => KnownTo(engine, k)'
    BY DEF KnownTo
  <1>4. StuckTo(engine, k) => StuckTo(engine, k)'
    <2> SUFFICES ASSUME StuckTo(engine, k), NEW id \in Ids, reported[id] > 0
                 PROVE  id \in engine.stuck \/ \E n \in reported[id] + 1 .. k : log'[n].id = id /\ log'[n].outcome = "allow"
      BY DEF StuckTo
    <2>1. \A n \in reported[id] + 1 .. k : n \in 1 .. k
      OBVIOUS
    <2> QED BY <2>1 DEF StuckTo
  <1> QED BY <1>2, <1>3, <1>4

LEMMA AlarmStart == clock = 0 /\ AlarmInit => AlarmInv
  <1> SUFFICES ASSUME clock = 0, AlarmInit PROVE AlarmInv
    OBVIOUS
  <1>1. log = <<>> /\ engine = NewEngine /\ missed = FALSE /\ reported = [i \in Ids |-> 0] /\ windows \in Windows
    BY DEF AlarmInit
  <1>2. /\ DOMAIN engine = EngineFields /\ engine.last = 0 /\ engine.seen = Known /\ engine.allowed = Known
        /\ engine.streak = [i \in Ids |-> {}] /\ engine.stuck = {}
    BY <1>1 DEF NewEngine, EngineFields
  <1>3. log \in Seq(Row) /\ Len(log) = 0 /\ Len(log) <= MaxRows /\ clock \in 0 .. MaxClock
    BY <1>1, AlarmsAssumption, MaxClockAssumption DEF AlarmsAssumption, MaxClockAssumption
  <1>4. 1 .. 0 = {}
    OBVIOUS
  <1>5. \A id : DenialsTo(id, 0) = {}
    BY <1>4 DEF DenialsTo
  <1>6. TrueTo(engine, 0)
    BY <1>2, <1>5 DEF TrueTo, StreakTo
  <1>7. KnownTo(engine, 0)
    BY <1>2, <1>4 DEF KnownTo
  <1>8. StuckTo(engine, 0) /\ TypesTo(engine, 0) /\ \A i \in Ids : reported[i] \in 0 .. 0
    BY <1>1, <1>2, AlarmsAssumption DEF StuckTo, TypesTo, AlarmsAssumption
  <1>9. Before
    BY <1>2, <1>3, <1>8 DEF Before, EngineOK
  <1> QED BY <1>1, <1>2, <1>3, <1>6, <1>7, <1>9 DEF AlarmInv

LEMMA DecideKeeps ==
  ASSUME AlarmInv, NEW id \in Ids \cup {NoId}, NEW outcome \in {"allow", "deny"},
         Decide(id, outcome), UNCHANGED clock
  PROVE  AlarmInv'
  <1> DEFINE row == [id |-> id, outcome |-> outcome, at |-> clock]
             N == Len(log)
  <1> PICK k \in Nat : k = engine.last
    BY DEF AlarmInv, Before
  <1>1. /\ N < MaxRows /\ log' = Append(log, row)
        /\ UNCHANGED <<windows, engine, missed, reported, clock>>
    BY DEF Decide
  <1>2. row \in Row /\ log \in Seq(Row) /\ N \in Nat /\ k \in 0 .. N
    BY DEF Row, AlarmInv, Before
  <1> HIDE DEF row
  <1>3. /\ log' \in Seq(Row) /\ Len(log') = N + 1 /\ \A n \in 1 .. N : log'[n] = log[n]
    BY <1>1, <1>2
  <1>4. k \in Nat /\ \A n \in 1 .. k : log'[n] = log[n]
    BY <1>2, <1>3
  <1>5. \A i \in Ids : reported[i] \in Nat
    BY <1>2 DEF AlarmInv, Before
  <1> HIDE DEF N
  <1>6. /\ TrueTo(engine, k) => TrueTo(engine, k)'
        /\ KnownTo(engine, k) => KnownTo(engine, k)'
        /\ StuckTo(engine, k) => StuckTo(engine, k)'
    BY <1>1, <1>4, <1>5, RowsStay
  <1>7. MaxRows \in Nat
    BY AlarmsAssumption DEF AlarmsAssumption
  <1>8. TypesTo(engine, engine.last)' /\ EngineOK(engine)' /\ StuckTo(engine, engine.last)'
    BY <1>1, <1>4, <1>6 DEF AlarmInv, Before, TypesTo, EngineOK, Streak
  <1>9. Before'
    <2>1. /\ Len(log') \in Nat /\ engine'.last \in 0 .. Len(log')
      BY <1>1, <1>2, <1>3 DEF N
    <2>2. \A i \in Ids : reported'[i] \in 0 .. engine'.last
      BY <1>1 DEF AlarmInv, Before
    <2> QED BY <1>3, <1>8, <2>1, <2>2 DEF Before, Row
  <1>10. ~missed' => TrueTo(engine, engine.last)' /\ KnownTo(engine, engine.last)'
    BY <1>1, <1>6 DEF AlarmInv
  <1>11. Len(log') <= MaxRows
    BY <1>1, <1>2, <1>3, <1>7
  <1> QED BY <1>1, <1>9, <1>10, <1>11 DEF AlarmInv

LEMMA PollKeeps ==
  ASSUME AlarmInv, NEW fresh \in Nat \ {0}, NEW stuck \in SUBSET Ids, NEW r, Polled(fresh, stuck, r),
         UNCHANGED clock
  PROVE  AlarmInv'
  <1> DEFINE N == Len(log)
             L == engine.last
  <1>1. /\ N \in Nat /\ L \in 0 .. N /\ FoldOK(r, N, fresh) /\ engine'.last = N /\ UNCHANGED <<log, windows, clock>>
        /\ EngineOK(engine') /\ engine'.seen = r.engine.seen /\ engine'.streak = r.engine.streak
        /\ engine'.allowed = r.engine.allowed /\ engine'.stuck = r.engine.stuck \cup stuck
        /\ reported' = [id \in Ids |-> IF id \in stuck THEN N ELSE reported[id]]
        /\ missed' \in BOOLEAN /\ (~missed' => ~missed /\ fresh = L + 1)
    BY DEF Polled, AlarmInv, Before
  <1>2. \A i \in Ids : reported[i] \in 0 .. L
    BY DEF AlarmInv, Before
  <1>3. ~missed => TrueTo(engine, L) /\ KnownTo(engine, L)
    BY DEF AlarmInv
  <1> HIDE DEF N, L
  <1>4. /\ StuckTo(r.engine, N) /\ TypesTo(r.engine, N)
        /\ fresh = L + 1 /\ TrueTo(engine, L) /\ KnownTo(engine, L) => TrueTo(r.engine, N) /\ KnownTo(r.engine, N)
    BY <1>1 DEF FoldOK, L
  <1>5. DOMAIN reported' = Ids /\ \A i \in Ids : reported'[i] \in 0 .. N
    BY <1>1, <1>2
  <1>6. StuckTo(engine, N)'
    <2> SUFFICES ASSUME NEW id \in Ids, reported'[id] > 0
                 PROVE  id \in engine'.stuck \/ \E n \in reported'[id] + 1 .. N :
                          log[n].id = id /\ log[n].outcome = "allow"
      BY <1>1 DEF StuckTo, N
    <2>1. CASE id \in stuck
      BY <1>1, <2>1
    <2>2. CASE id \notin stuck
      <3>1. reported'[id] = reported[id]
        BY <1>1, <2>2
      <3> QED BY <1>1, <1>4, <3>1 DEF StuckTo
    <2> QED BY <2>1, <2>2
  <1>7. TypesTo(engine, N)'
    <2>1. N' = N
      BY <1>1 DEF N
    <2>2. /\ r.engine.seen \subseteq Ids /\ r.engine.allowed \subseteq Ids /\ r.engine.stuck \subseteq Ids
      BY <1>4 DEF TypesTo
    <2>3. engine'.streak \in [Ids -> SUBSET Streak(N)]
      BY <1>1, <1>4 DEF TypesTo
    <2>4. engine'.seen \subseteq Ids /\ engine'.allowed \subseteq Ids /\ engine'.stuck \subseteq Ids
      BY <1>1, <2>2
    <2> QED BY <2>1, <2>3, <2>4 DEF TypesTo, Streak
  <1>8. ~missed' => TrueTo(engine, N)' /\ KnownTo(engine, N)'
    <2> SUFFICES ASSUME ~missed' PROVE TrueTo(engine, N)' /\ KnownTo(engine, N)'
      OBVIOUS
    <2>1. TrueTo(r.engine, N) /\ KnownTo(r.engine, N) /\ N' = N
      BY <1>1, <1>3, <1>4 DEF N
    <2>2. \A id : StreakTo(id, N)' = StreakTo(id, N)
      BY <1>1, <2>1 DEF StreakTo, DenialsTo
    <2>3. TrueTo(engine, N)'
      BY <1>1, <2>1, <2>2 DEF TrueTo
    <2>4. KnownTo(engine, N)'
      BY <1>1, <2>1 DEF KnownTo
    <2> QED BY <2>3, <2>4
  <1>9. Before'
    <2>1. log' = log /\ Len(log') = N /\ engine'.last = N /\ N' = N /\ N \in 0 .. N
      BY <1>1 DEF N
    <2>2. log \in Seq(Row)
      BY DEF AlarmInv, Before
    <2>3. EngineOK(engine)'
      BY <1>1 DEF EngineOK
    <2>4. StuckTo(engine, engine.last)' /\ TypesTo(engine, engine.last)'
      BY <1>6, <1>7, <2>1
    <2> QED BY <1>1, <1>5, <2>1, <2>2, <2>3, <2>4 DEF Before, Row
  <1>10. ~missed' => TrueTo(engine, engine.last)' /\ KnownTo(engine, engine.last)'
    <2>1. engine'.last = N /\ N' = N
      BY <1>1 DEF N
    <2> QED BY <1>8, <2>1
  <1> QED BY <1>1, <1>5, <1>9, <1>10 DEF AlarmInv

LEMMA AlarmStep == AlarmInv /\ [AlarmNext]_<<clock, alarmVars>> => AlarmInv'
  <1> SUFFICES ASSUME AlarmInv, [AlarmNext]_<<clock, alarmVars>> PROVE AlarmInv'
    OBVIOUS
  <1>1. ASSUME UNCHANGED <<log, engine, missed, reported>>, windows' \in Windows, clock' \in 0 .. MaxClock
        PROVE  AlarmInv'
    <2>1. engine.last \in Nat /\ \A i \in Ids : reported[i] \in Nat
      BY DEF AlarmInv, Before
    <2>2. TrueTo(engine, engine.last)' = TrueTo(engine, engine.last)
      BY <1>1 DEF TrueTo, StreakTo, DenialsTo
    <2>3. KnownTo(engine, engine.last)' = KnownTo(engine, engine.last)
      BY <1>1 DEF KnownTo
    <2>4. Before'
      BY <1>1 DEF AlarmInv, Before, StuckTo, TypesTo, EngineOK, Streak, Row
    <2> QED BY <1>1, <2>2, <2>3, <2>4 DEF AlarmInv
  <1>2. windows \in Windows /\ clock \in 0 .. MaxClock
    BY DEF AlarmInv
  <1>3. CASE \E id \in Ids \cup {NoId}, outcome \in {"allow", "deny"} :
               (id = NoId => outcome = "deny") /\ Decide(id, outcome) /\ UNCHANGED clock
    BY <1>3, DecideKeeps
  <1>4. CASE \E w \in Windows : EditWindows(w) /\ UNCHANGED clock
    BY <1>1, <1>2, <1>4 DEF EditWindows
  <1>5. CASE AlarmTask /\ UNCHANGED clock
    <2>1. CASE \E readable \in BOOLEAN : Poll(readable)
      BY <1>5, <2>1, PollIs, PollKeeps
    <2>2. CASE Record
      BY <1>1, <1>2, <1>5, <2>2 DEF Record
    <2>3. CASE Acknowledged
      BY <1>1, <1>2, <1>5, <2>3 DEF Acknowledged
    <2>4. CASE AttemptFails
      BY <1>1, <1>2, <1>5, <2>4 DEF AttemptFails
    <2> QED BY <1>5, <2>1, <2>2, <2>3, <2>4 DEF AlarmTask
  <1>6. CASE Tick /\ UNCHANGED alarmVars
    <2>1. clock' \in 0 .. MaxClock
      BY <1>2, <1>6, MaxClockAssumption DEF Tick, MaxClockAssumption
    <2> QED BY <1>1, <1>2, <1>6, <2>1 DEF alarmVars
  <1>7. CASE UNCHANGED <<clock, alarmVars>>
    BY <1>1, <1>2, <1>7 DEF alarmVars
  <1> QED BY <1>3, <1>4, <1>5, <1>6, <1>7 DEF AlarmNext

\* What the alarm task keeps of the decisions (alarm.rs: Engine) is what the log says
\* up to the last row it evaluated, unless a burst outran the ring, and a caller it
\* has reported stuck stays marked until a request of that caller is allowed.
THEOREM AlarmsKeepTrack == AlarmSpec => []AlarmInv
  <1>1. clock = 0 /\ AlarmInit => AlarmInv
    BY AlarmStart
  <1>2. AlarmInv /\ [AlarmNext]_<<clock, alarmVars>> => AlarmInv'
    BY AlarmStep
  <1> QED BY <1>1, <1>2, PTL DEF AlarmSpec

\* As long as no burst of decisions outran the ring, the streak of denials that the
\* engine keeps for a caller is the one in the log, for any log, ring and number of
\* polls (alarm.rs: Engine::evaluate).
THEOREM StreaksStayTrue == AlarmSpec => []StreaksAreTrue
  <1>1. AlarmInv => StreaksAreTrue
    <2> SUFFICES ASSUME AlarmInv, ~missed, NEW id \in Ids
                 PROVE  engine.streak[id] =
                          IF Denials(id) = {} THEN {}
                          ELSE {[first |-> log[Min(Denials(id))].at, last |-> log[Max(Denials(id))].at,
                                 denies |-> Cardinality(Denials(id))]}
      BY DEF StreaksAreTrue
    <2>1. engine.streak[id] = StreakTo(id, engine.last)
      BY DEF AlarmInv, TrueTo
    <2>2. Denials(id) = DenialsTo(id, engine.last)
      BY DEF Denials, DenialsTo, Rows
    <2> QED BY <2>1, <2>2 DEF StreakTo
  <1> QED BY <1>1, AlarmsKeepTrack, PTL

\* Only a poll raises an alarm.
LEMMA RaisedByPoll ==
  ASSUME AlarmInv, [AlarmNext]_<<clock, alarmVars>>, NEW kind, NEW id, Raises(kind, id)
  PROVE  \E readable \in BOOLEAN : Poll(readable)
  <1>1. todo = <<>> /\ todo' # todo
    BY DEF Raises
  <1>2. /\ ~Record
        /\ ~Acknowledged
        /\ ~AttemptFails
        /\ \A i, o : ~Decide(i, o)
        /\ \A w : ~EditWindows(w)
        /\ ~UNCHANGED alarmVars
    BY <1>1 DEF Record, Acknowledged, AttemptFails, Decide, EditWindows, alarmVars
  <1> QED BY <1>2 DEF AlarmNext, AlarmTask, alarmVars

LEMMA StuckStep ==
  ASSUME AlarmInv, [AlarmNext]_<<clock, alarmVars>>, NEW id \in Ids, Raises("stuck", id), reported[id] > 0
  PROVE  \E n \in reported[id] + 1 .. engine'.last : log[n].id = id /\ log[n].outcome = "allow"
  <1>1. PICK readable \in BOOLEAN : Poll(readable)
    BY RaisedByPoll
  <1>2. PICK fresh \in Nat \ {0}, stuck \in SUBSET Ids : Polled(fresh, stuck, Evaluated(fresh))
    BY <1>1, PollIs
  <1> DEFINE r == Evaluated(fresh)
  <1> HIDE DEF r
  <1>3. Polled(fresh, stuck, r)
    BY <1>2 DEF r
  <1>4. Holds(todo', Alarm("stuck", id))
    BY DEF Raises, Holds
  <1>5. id \in stuck
    BY <1>3, <1>4 DEF Polled
  <1>6. id \notin r.engine.stuck /\ StuckTo(r.engine, Len(log)) /\ engine'.last = Len(log)
    BY <1>3, <1>5 DEF Polled, FoldOK
  <1> QED BY <1>6 DEF StuckTo

LEMMA FirstSeenStep ==
  ASSUME AlarmInv, [AlarmNext]_<<clock, alarmVars>>, NEW id \in Ids \ Known, ~missed', engine'.last > engine.last
  PROVE  Raises("first seen", id) <=>
           /\ \A n \in 1 .. engine.last : log[n].id # id
           /\ \E n \in 1 .. engine'.last : log[n].id = id
  <1>0. engine' # engine
    BY DEF AlarmInv, Before
  <1>1. PICK readable \in BOOLEAN : Poll(readable)
    <2>1. /\ ~Record
          /\ ~Acknowledged
          /\ ~AttemptFails
          /\ \A i, o : ~Decide(i, o)
          /\ \A w : ~EditWindows(w)
          /\ ~UNCHANGED alarmVars
      BY <1>0 DEF Record, Acknowledged, AttemptFails, Decide, EditWindows, alarmVars
    <2> QED BY <2>1 DEF AlarmNext, AlarmTask, alarmVars
  <1>2. PICK fresh \in Nat \ {0}, stuck \in SUBSET Ids : Polled(fresh, stuck, Evaluated(fresh))
    BY <1>1, PollIs
  <1> DEFINE r == Evaluated(fresh)
             N == Len(log)
             L == engine.last
  <1> HIDE DEF r, N
  <1>3. Polled(fresh, stuck, r)
    BY <1>2 DEF r
  <1>4. Raises("first seen", id) <=> Holds(todo', Alarm("first seen", id))
    BY <1>3 DEF Raises, Holds, Polled
  <1>5. Raises("first seen", id) <=> id \in r.engine.seen \ engine.seen
    BY <1>3, <1>4 DEF Polled
  <1>6. TrueTo(engine, L) /\ KnownTo(engine, L) /\ fresh = L + 1 /\ engine'.last = N
    BY <1>3 DEF Polled, AlarmInv, N
  <1>7. KnownTo(r.engine, N)
    BY <1>3, <1>6 DEF Polled, FoldOK, N
  <1>8. id \in engine.seen <=> \E n \in 1 .. L : log[n].id = id
    BY <1>6 DEF KnownTo
  <1>9. id \in r.engine.seen <=> \E n \in 1 .. N : log[n].id = id
    BY <1>7 DEF KnownTo
  <1> QED BY <1>5, <1>6, <1>8, <1>9

\* A caller is reported stuck once per streak, bursts or not, and reported as new by
\* the poll that evaluates its first decision and by no other, as long as no burst
\* outran the ring (alarm.rs: stuck_raised, seen).
THEOREM AlarmsAreExact == AlarmSpec => ReportsAreExact
  <1> DEFINE A == \A id \in Ids : Raises("stuck", id) /\ reported[id] > 0 =>
                    \E n \in reported[id] + 1 .. engine'.last : log[n].id = id /\ log[n].outcome = "allow"
             B == \A id \in Ids \ Known : ~missed' /\ engine'.last > engine.last =>
                    (Raises("first seen", id) <=>
                       /\ \A n \in 1 .. engine.last : log[n].id # id
                       /\ \E n \in 1 .. engine'.last : log[n].id = id)
  <1>1. AlarmInv /\ [AlarmNext]_<<clock, alarmVars>> => A
    BY StuckStep
  <1>2. AlarmInv /\ [AlarmNext]_<<clock, alarmVars>> => B
    BY FirstSeenStep
  <1> HIDE DEF A, B
  <1>3. AlarmInv /\ [AlarmNext]_<<clock, alarmVars>> => [A]_<<clock, alarmVars>> /\ [B]_<<clock, alarmVars>>
    BY <1>1, <1>2
  <1>4. AlarmSpec => [][A]_<<clock, alarmVars>> /\ [][B]_<<clock, alarmVars>>
    BY <1>3, AlarmsKeepTrack, PTL DEF AlarmSpec
  <1>5. StuckOncePerStreak <=> [][A]_<<clock, alarmVars>>
    BY DEF StuckOncePerStreak, A
  <1>6. FirstSeenIsExact <=> [][B]_<<clock, alarmVars>>
    BY DEF FirstSeenIsExact, B
  <1> QED BY <1>4, <1>5, <1>6 DEF ReportsAreExact

-----------------------------------------------------------------------------
(* What is recorded of the alarms.                                         *)

States == {"pending", "delivered", "failed", "not configured"}
Recorded == [alarm : AnyAlarm, state : States]

RecordsInv ==
  /\ todo \in Seq(AnyAlarm) /\ records \in Seq(Recorded)
  /\ tries \in 0 .. Attempts

LEMMA RecordsStart == AlarmInit => RecordsInv
  BY AlarmsAssumption DEF AlarmInit, RecordsInv, AlarmsAssumption

LEMMA RecordKeeps ==
  ASSUME RecordsInv, Record
  PROVE  RecordsInv'
  <1> DEFINE x == [alarm |-> Head(todo), state |-> IF hooked THEN "pending" ELSE "not configured"]
             q == Append(records, x)
  <1>1. todo # <<>> /\ records' = LastOf(q) /\ todo' = Tail(todo) /\ tries' = IF hooked THEN 1 ELSE 0
    BY DEF Record
  <1>2. todo' \in Seq(AnyAlarm) /\ Head(todo) \in AnyAlarm
    <2>1. todo \in Seq(AnyAlarm) /\ todo # <<>>
      BY <1>1 DEF RecordsInv
    <2>2. Head(todo) \in AnyAlarm /\ Tail(todo) \in Seq(AnyAlarm)
      BY <2>1
    <2> QED BY <1>1, <2>2
  <1>3. x \in Recorded
    BY <1>2 DEF Recorded, States
  <1> HIDE DEF x
  <1>4. q \in Seq(Recorded) /\ Len(q) > 0 /\ Len(q) \in Nat /\ q # <<>>
    BY <1>3 DEF RecordsInv
  <1> HIDE DEF q
  <1>5. records' \in Seq(Recorded)
    BY <1>1, <1>4 DEF LastOf
  <1>6. tries' \in 0 .. Attempts
    BY <1>1, AlarmsAssumption DEF AlarmsAssumption
  <1> QED BY <1>1, <1>2, <1>5, <1>6 DEF RecordsInv

LEMMA SettledKeeps ==
  ASSUME RecordsInv, NEW state \in States
  PROVE  Settled(state) \in Seq(Recorded)
  <1> DEFINE n == Len(records)
             q == Settled(state)
  <1>1. n \in Nat /\ records \in [1 .. n -> Recorded]
    BY DEF RecordsInv
  <1>2. ASSUME NEW x \in Recorded PROVE [x EXCEPT !.state = state] \in Recorded
    BY DEF Recorded
  <1>3. DOMAIN q = 1 .. n /\ \A i \in 1 .. n : q[i] = IF i = n THEN [records[i] EXCEPT !.state = state] ELSE records[i]
    BY <1>1 DEF Settled
  <1>4. q = [i \in 1 .. n |-> q[i]]
    BY <1>1 DEF Settled
  <1> HIDE DEF q, n
  <1>5. \A i \in 1 .. n : q[i] \in Recorded
    BY <1>1, <1>2, <1>3
  <1>6. q \in [1 .. n -> Recorded]
    BY <1>4, <1>5
  <1>7. q \in Seq(Recorded)
    BY <1>1, <1>6
  <1> QED BY <1>7 DEF q

LEMMA RecordsStep == AlarmInv /\ RecordsInv /\ [AlarmNext]_<<clock, alarmVars>> => RecordsInv'
  <1> SUFFICES ASSUME AlarmInv, RecordsInv, [AlarmNext]_<<clock, alarmVars>> PROVE RecordsInv'
    OBVIOUS
  <1>0. Attempts \in Nat \ {0}
    BY AlarmsAssumption DEF AlarmsAssumption
  <1>1. ASSUME UNCHANGED <<todo, records, tries>> PROVE RecordsInv'
    BY <1>1 DEF RecordsInv, AnyAlarm, Recorded
  <1>2. CASE \E id \in Ids \cup {NoId}, outcome \in {"allow", "deny"} :
               (id = NoId => outcome = "deny") /\ Decide(id, outcome) /\ UNCHANGED clock
    BY <1>1, <1>2 DEF Decide
  <1>3. CASE \E w \in Windows : EditWindows(w) /\ UNCHANGED clock
    BY <1>1, <1>3 DEF EditWindows
  <1>4. CASE AlarmTask /\ UNCHANGED clock
    <2>1. CASE \E readable \in BOOLEAN : Poll(readable)
      <3>1. PICK fresh \in Nat \ {0}, stuck \in SUBSET Ids : Polled(fresh, stuck, Evaluated(fresh))
        BY <2>1, PollIs
      <3>2. todo' \in Seq(AnyAlarm) /\ UNCHANGED <<records, tries>>
        BY <3>1 DEF Polled
      <3> QED BY <3>2 DEF RecordsInv
    <2>2. CASE Record
      BY <2>2, RecordKeeps
    <2>3. CASE Acknowledged
      <3>1. "delivered" \in States
        BY DEF States
      <3>2. records' \in Seq(Recorded) /\ UNCHANGED todo /\ tries' = 0
        BY <2>3, <3>1, SettledKeeps DEF Acknowledged
      <3> QED BY <1>0, <3>2 DEF RecordsInv
    <2>4. CASE AttemptFails
      <3>1. "failed" \in States
        BY DEF States
      <3>2. records' \in Seq(Recorded) /\ UNCHANGED todo
        BY <2>4, <3>1, SettledKeeps DEF AttemptFails, RecordsInv
      <3>3. tries' \in 0 .. Attempts
        BY <1>0, <2>4 DEF AttemptFails, RecordsInv
      <3> QED BY <3>2, <3>3 DEF RecordsInv
    <2> QED BY <1>4, <2>1, <2>2, <2>3, <2>4 DEF AlarmTask
  <1>5. CASE Tick /\ UNCHANGED alarmVars
    BY <1>1, <1>5 DEF alarmVars
  <1>6. CASE UNCHANGED <<clock, alarmVars>>
    BY <1>1, <1>6 DEF alarmVars
  <1> QED BY <1>2, <1>3, <1>4, <1>5, <1>6 DEF AlarmNext

LEMMA AlarmTypes == AlarmInv /\ RecordsInv => AlarmTypeOK
  <1> SUFFICES ASSUME AlarmInv, RecordsInv PROVE AlarmTypeOK
    OBVIOUS
  <1>1. log \in Seq(Row) /\ Len(log) \in Nat /\ Len(log) <= MaxRows /\ MaxRows \in Nat
        /\ engine.last \in 0 .. Len(log) /\ TypesTo(engine, engine.last)
    BY AlarmsAssumption DEF AlarmInv, Before, AlarmsAssumption
  <1>2. \A n \in DOMAIN records : records[n].state \in States
    <2>1. records \in Seq(Recorded)
      BY DEF RecordsInv
    <2>2. \A n \in DOMAIN records : records[n] \in Recorded
      BY <2>1
    <2> QED BY <2>2 DEF Recorded
  <1>3. Streak(engine.last) \subseteq Streak(MaxRows)
    BY <1>1 DEF Streak
  <1>4. engine.streak \in [Ids -> SUBSET Streak(MaxRows)]
    BY <1>1, <1>3 DEF TypesTo
  <1>5. engine.seen \subseteq Ids /\ engine.allowed \subseteq Ids /\ engine.stuck \subseteq Ids
    BY <1>1 DEF TypesTo
  <1>6. tries \in 0 .. Attempts
    BY DEF RecordsInv
  <1> QED BY <1>1, <1>2, <1>4, <1>5, <1>6 DEF AlarmTypeOK, Row, Streak, States

-----------------------------------------------------------------------------
(* The types of the services.                                              *)

LoginMore ==
  /\ published \in SUBSET Kids /\ reachable \in BOOLEAN
  /\ gone \in [Kids -> 0 .. Forgotten]
  /\ keys \in SUBSET SUBSET Kids /\ answer \in SUBSET SUBSET Kids
  /\ hangUps \in 0 .. MaxHangUps

LEMMA LoginMoreStart == LoginInit => LoginMore
  BY LoginAssumption DEF LoginInit, LoginMore, LoginAssumption, Forgotten

LEMMA LoginMoreKeeps == LoginInv /\ LoginMore /\ [LoginNext]_loginVars => LoginMore'
  <1> SUFFICES ASSUME LoginInv, LoginMore, [LoginNext]_loginVars PROVE LoginMore'
    OBVIOUS
  <1> USE LoginAssumption DEF LoginAssumption, LoginMore, idpVars, keyVars, fetchVars, EndFetch
  <1>1. ASSUME NEW l \in Logins, LoginStep(l) PROVE LoginMore'
    BY <1>1 DEF LoginStep, Exchange, FindKey, RefuseForNow, Refresh, Fetched, FetchFails, Exchanged
  <1>2. ASSUME NEW l \in Logins, HangUpLogin(l) \/ IdpAnswers(l) PROVE LoginMore'
    BY <1>2 DEF HangUpLogin, IdpAnswers
  <1>3. ASSUME NEW k \in Kids, IdpWithdraws(k) \/ IdpPublishes(k) PROVE LoginMore'
    <2>1. published' \in SUBSET Kids
      BY <1>3 DEF IdpWithdraws, IdpPublishes
    <2>2. gone' \in [Kids -> 0 .. Forgotten]
      BY <1>3 DEF IdpWithdraws, IdpPublishes, Forgotten
    <2>3. UNCHANGED <<reachable, keys, answer, hangUps>>
      BY <1>3 DEF IdpWithdraws, IdpPublishes
    <2> QED BY <2>1, <2>2, <2>3
  <1>4. CASE IdpChanges
    BY <1>4 DEF IdpChanges
  <1>5. CASE Second
    <2>1. \A n \in 0 .. Forgotten : UpTo(Forgotten, n) \in 0 .. Forgotten
      BY DEF UpTo, Forgotten
    <2>2. \A k \in Kids : gone[k] \in 0 .. Forgotten
      OBVIOUS
    <2>3. 0 \in 0 .. Forgotten
      BY DEF Forgotten
    <2>4. gone' = [k \in Kids |-> IF k \in published THEN 0 ELSE UpTo(Forgotten, gone[k])]
          /\ UNCHANGED <<published, reachable, keys, answer, hangUps>>
      BY <1>5 DEF Second
    <2>5. gone' \in [Kids -> 0 .. Forgotten]
      BY <2>1, <2>2, <2>3, <2>4
    <2> QED BY <2>4, <2>5
  <1>6. CASE UNCHANGED loginVars
    BY <1>6 DEF loginVars, Forgotten
  <1> QED BY <1>1, <1>2, <1>3, <1>4, <1>5, <1>6 DEF LoginNext

LEMMA LoginTypesHold == LoginInv /\ LoginMore => LoginTypeOK
  BY LoginAssumption DEF LoginAssumption, LoginInv, LoginTypes, FetchOK, LoginMore, LoginTypeOK

\* A credential has one caller at most and ends MaxTtl after now at the latest.
AtMostOne(S) == S = {} \/ \E x \in Callers : S = {x}

CredMore ==
  \A f \in Files : /\ file[f] = {} \/ \E iac \in Iacs : file[f] = {iac}
                   /\ \A iac \in file[f] : AtMostOne(iac.caller) /\ iac.until <= day + MaxTtl

\* What a command may sign.
Fair(body) == body \in Bodies /\ AtMostOne(body.caller) /\ body.until <= day + MaxTtl

LEMMA CredWritten ==
  ASSUME CredInv, CredMore, NEW f \in Files, NEW body, Fair(body), NEW key \in {Operator, Stranger},
         file' = [file EXCEPT ![f] = {SignedBy(key, body)}] \/ UNCHANGED file, UNCHANGED day
  PROVE  CredMore'
  <1> DEFINE new == SignedBy(key, body)
  <1>1. new \in Iacs /\ new.caller = body.caller /\ new.until = body.until
    BY BodyIs DEF Fair, SignedBy, Credential
  <1> HIDE DEF new
  <1>2. ASSUME file' = [file EXCEPT ![f] = {new}], NEW g \in Files
        PROVE  /\ file'[g] = {} \/ \E iac \in Iacs : file'[g] = {iac}
               /\ \A iac \in file'[g] : AtMostOne(iac.caller) /\ iac.until <= day + MaxTtl
    <2>1. CASE g = f
      <3>1. file'[g] = {new}
        BY <1>2, <2>1 DEF CredInv
      <3> QED BY <1>1, <3>1 DEF Fair
    <2>2. CASE g # f
      <3>1. file'[g] = file[g]
        BY <1>2, <2>2 DEF CredInv
      <3> QED BY <3>1 DEF CredMore
    <2> QED BY <2>1, <2>2
  <1>3. CASE file' = [file EXCEPT ![f] = {new}]
    BY <1>2, <1>3 DEF CredMore, AtMostOne
  <1>4. CASE UNCHANGED file
    BY <1>4 DEF CredMore, AtMostOne
  <1> QED BY <1>3, <1>4 DEF new

LEMMA CredFair ==
  ASSUME CredInv, CredMore, NEW f \in Files, NEW iac \in file[f]
  PROVE  iac \in Iacs /\ Fair(Body(iac))
  <1>1. iac \in Iacs
    BY DEF CredInv
  <1>2. Body(iac) \in Bodies /\ Body(iac).caller = iac.caller
    BY <1>1, BodyIs
  <1>3. Body(iac).until = iac.until
    BY DEF Body
  <1> QED BY <1>1, <1>2, <1>3 DEF Fair, CredMore

\* An edit changes one field of a credential, or who signed it.
LEMMA EditFair ==
  ASSUME CredInv, CredInv', CredMore, NEW f \in Files, Edit(f)
  PROVE  CredMore'
  <1>1. PICK iac : iac \in file[f] /\
          (\/ \E m \in Models : file' = [file EXCEPT ![f] = {[iac EXCEPT !.models = @ \cup {m}]}]
           \/ \E t \in Tools : file' = [file EXCEPT ![f] = {[iac EXCEPT !.tools = @ \cup {t}]}]
           \/ \E x \in Exports : file' = [file EXCEPT ![f] = {[iac EXCEPT !.forbidden = @ \ {x}]}]
           \/ \E c \in {{}} \cup {{k} : k \in Callers} : file' = [file EXCEPT ![f] = {[iac EXCEPT !.caller = c]}]
           \/ file' = [file EXCEPT ![f] = {SignedBy(Stranger, Body(iac))}])
    BY DEF Edit
  <1>2. iac \in Iacs /\ Fair(Body(iac)) /\ AtMostOne(iac.caller) /\ iac.until <= day + MaxTtl
    BY <1>1, CredFair DEF CredMore
  <1>3. UNCHANGED day
    BY DEF Edit
  <1>4. CASE file' = [file EXCEPT ![f] = {SignedBy(Stranger, Body(iac))}]
    BY <1>2, <1>3, <1>4, CredWritten
  <1>5. ASSUME NEW new, file' = [file EXCEPT ![f] = {new}], AtMostOne(new.caller), new.until = iac.until
        PROVE  CredMore'
    <2>1. file'[f] = {new} /\ \A g \in Files \ {f} : file'[g] = file[g]
      BY <1>5 DEF CredInv
    <2>2. new \in Iacs
      BY <2>1 DEF CredInv
    <2>3. ASSUME NEW g \in Files
          PROVE  /\ file'[g] = {} \/ \E x \in Iacs : file'[g] = {x}
                 /\ \A x \in file'[g] : AtMostOne(x.caller) /\ x.until <= day + MaxTtl
      <3>1. CASE g = f
        BY <1>2, <1>5, <2>1, <2>2, <3>1
      <3>2. CASE g # f
        BY <2>1, <3>2 DEF CredMore
      <3> QED BY <3>1, <3>2
    <2> QED BY <1>3, <2>3 DEF CredMore, AtMostOne
  <1>6. ASSUME NEW m PROVE [iac EXCEPT !.models = @ \cup {m}].caller = iac.caller
                           /\ [iac EXCEPT !.models = @ \cup {m}].until = iac.until
    BY <1>2 DEF Iacs
  <1>7. ASSUME NEW t PROVE [iac EXCEPT !.tools = @ \cup {t}].caller = iac.caller
                           /\ [iac EXCEPT !.tools = @ \cup {t}].until = iac.until
    BY <1>2 DEF Iacs
  <1>8. ASSUME NEW x PROVE [iac EXCEPT !.forbidden = @ \ {x}].caller = iac.caller
                           /\ [iac EXCEPT !.forbidden = @ \ {x}].until = iac.until
    BY <1>2 DEF Iacs
  <1>9. ASSUME NEW c \in {{}} \cup {{k} : k \in Callers}
        PROVE  AtMostOne([iac EXCEPT !.caller = c].caller) /\ [iac EXCEPT !.caller = c].until = iac.until
    <2>1. [iac EXCEPT !.caller = c].caller = c /\ [iac EXCEPT !.caller = c].until = iac.until
      BY <1>2 DEF Iacs
    <2>2. AtMostOne(c)
      BY <1>9 DEF AtMostOne
    <2> QED BY <2>1, <2>2
  <1>10. CASE \E m \in Models : file' = [file EXCEPT ![f] = {[iac EXCEPT !.models = @ \cup {m}]}]
    <2>1. PICK m \in Models : file' = [file EXCEPT ![f] = {[iac EXCEPT !.models = @ \cup {m}]}]
      BY <1>10
    <2> DEFINE new == [iac EXCEPT !.models = @ \cup {m}]
    <2>2. AtMostOne(new.caller) /\ new.until = iac.until
      BY <1>2, <1>6
    <2> HIDE DEF new
    <2>3. file' = [file EXCEPT ![f] = {new}]
      BY <2>1 DEF new
    <2> QED BY <1>5, <2>2, <2>3
  <1>11. CASE \E t \in Tools : file' = [file EXCEPT ![f] = {[iac EXCEPT !.tools = @ \cup {t}]}]
    <2>1. PICK t \in Tools : file' = [file EXCEPT ![f] = {[iac EXCEPT !.tools = @ \cup {t}]}]
      BY <1>11
    <2> DEFINE new == [iac EXCEPT !.tools = @ \cup {t}]
    <2>2. AtMostOne(new.caller) /\ new.until = iac.until
      BY <1>2, <1>7
    <2> HIDE DEF new
    <2>3. file' = [file EXCEPT ![f] = {new}]
      BY <2>1 DEF new
    <2> QED BY <1>5, <2>2, <2>3
  <1>12. CASE \E x \in Exports : file' = [file EXCEPT ![f] = {[iac EXCEPT !.forbidden = @ \ {x}]}]
    <2>1. PICK x \in Exports : file' = [file EXCEPT ![f] = {[iac EXCEPT !.forbidden = @ \ {x}]}]
      BY <1>12
    <2> DEFINE new == [iac EXCEPT !.forbidden = @ \ {x}]
    <2>2. AtMostOne(new.caller) /\ new.until = iac.until
      BY <1>2, <1>8
    <2> HIDE DEF new
    <2>3. file' = [file EXCEPT ![f] = {new}]
      BY <2>1 DEF new
    <2> QED BY <1>5, <2>2, <2>3
  <1>13. CASE \E c \in {{}} \cup {{k} : k \in Callers} : file' = [file EXCEPT ![f] = {[iac EXCEPT !.caller = c]}]
    <2>1. PICK c \in {{}} \cup {{k} : k \in Callers} : file' = [file EXCEPT ![f] = {[iac EXCEPT !.caller = c]}]
      BY <1>13
    <2> DEFINE new == [iac EXCEPT !.caller = c]
    <2>2. AtMostOne(new.caller) /\ new.until = iac.until
      BY <1>9
    <2> HIDE DEF new
    <2>3. file' = [file EXCEPT ![f] = {new}]
      BY <2>1 DEF new
    <2> QED BY <1>5, <2>2, <2>3
  <1> QED BY <1>1, <1>4, <1>10, <1>11, <1>12, <1>13

\* What a reissue signs.
LEMMA SuccessorFair ==
  ASSUME CredInv, CredMore, NEW f \in Files, NEW old \in file[f],
         NEW given \in {{}} \cup {{c} : c \in Callers}, NEW models \in SUBSET Models,
         NEW tools \in SUBSET Tools, NEW ttl \in Int, NEW parent \in 0 .. head,
         NEW body \in Successor(old, given, models, tools, ttl, parent)
  PROVE  Fair(body)
  <1>1. old \in Iacs /\ Fair(Body(old)) /\ AtMostOne(old.caller)
    BY CredFair DEF CredMore
  <1>2. ttl \in 1 .. MaxTtl
        /\ body = [Body(old) EXCEPT !.caller = Kept(old.caller, given), !.until = day + ttl, !.parent = parent,
                            !.models = @ \cup models, !.tools = @ \cup tools]
    BY DEF Successor
  <1>3. AtMostOne(Kept(old.caller, given)) /\ Kept(old.caller, given) \in SUBSET Callers
    BY <1>1 DEF Kept, AtMostOne
  <1>4. Body(old) \in Bodies
    BY <1>1 DEF Fair
  <1>5. body \in Bodies /\ body.caller = Kept(old.caller, given) /\ body.until = day + ttl
    <2> DEFINE carried == Body(old)
               kept == Kept(old.caller, given)
    <2>1. carried \in Bodies /\ kept \in SUBSET Callers /\ day + ttl \in Int /\ parent \in Int
          /\ body = [carried EXCEPT !.caller = kept, !.until = day + ttl, !.parent = parent,
                                   !.models = @ \cup models, !.tools = @ \cup tools]
      BY <1>2, <1>3, <1>4 DEF CredInv
    <2> HIDE DEF carried, kept
    <2>2. /\ DOMAIN body = DOMAIN carried
          /\ body.scope = carried.scope /\ body.caller = kept /\ body.until = day + ttl /\ body.parent = parent
          /\ body.models = carried.models \cup models /\ body.tools = carried.tools \cup tools
          /\ body.forbidden = carried.forbidden
      BY <2>1 DEF Bodies
    <2>3. body = [scope |-> carried.scope, caller |-> kept, models |-> carried.models \cup models,
                  tools |-> carried.tools \cup tools, forbidden |-> carried.forbidden,
                  until |-> day + ttl, parent |-> parent]
      BY <2>1 DEF Bodies
    <2>4. body \in Bodies
      BY <2>1, <2>3 DEF Bodies
    <2> QED BY <2>2, <2>4 DEF kept
  <1> QED BY <1>2, <1>3, <1>5, TtlAssumption DEF Fair, TtlAssumption, CredInv

LEMMA CredMoreStart == CredInit => CredMore
  BY DEF CredInit, CredMore

LEMMA CredMoreKeeps == CredInv /\ CredInv' /\ CredMore /\ [CredNext]_credVars => CredMore'
  <1> SUFFICES ASSUME CredInv, CredInv', CredMore, [CredNext]_credVars PROVE CredMore'
    OBVIOUS
  <1>0. MaxTtl \in Nat \ {0} /\ day \in Int /\ Operator \in {Operator, Stranger}
    BY TtlAssumption DEF TtlAssumption, CredInv
  <1>1. CASE Pass
    <2>1. day' = day + 1 /\ UNCHANGED file
      BY <1>1 DEF Pass
    <2>2. \A f \in Files : \A iac \in file[f] : iac.until \in Int
      BY DEF CredInv, Iacs
    <2> QED BY <1>0, <2>1, <2>2 DEF CredMore, AtMostOne
  <1>2. ASSUME NEW f \in Files, Edit(f) PROVE CredMore'
    BY <1>2, EditFair
  <1>3. ASSUME NEW f \in Files, NEW g \in Files, Sign(f, g) PROVE CredMore'
    <2>1. PICK iac : iac \in file[f] /\ file' = [file EXCEPT ![g] = {SignedBy(Operator, Body(iac))}] /\ UNCHANGED day
      BY <1>3 DEF Sign
    <2>2. Fair(Body(iac))
      BY <2>1, CredFair
    <2> QED BY <1>0, <2>1, <2>2, CredWritten
  <1>4. ASSUME NEW f \in Files, NEW c \in Callers, NEW m \in Models, NEW tools \in SUBSET Tools,
               Issue(f, c, m, tools, 1)
        PROVE  CredMore'
    <2> DEFINE Issued(parent) ==
                 [scope |-> "chat", caller |-> {c}, models |-> {m}, tools |-> tools,
                       forbidden |-> Exports, until |-> day + 1, parent |-> parent]
    <2>1. PICK parent \in 0 .. head : AnnounceAndWrite(f, SignedBy(Operator, Issued(parent))) /\ UNCHANGED day
      BY <1>4 DEF Issue
    <2>2. Issued(parent) \in Bodies /\ Issued(parent).caller = {c} /\ Issued(parent).until = day + 1
      BY <1>0, <1>4 DEF Bodies, CredInv
    <2> HIDE DEF Issued
    <2>3. Fair(Issued(parent))
      BY <1>0, <2>2 DEF Fair, AtMostOne
    <2>4. file' = [file EXCEPT ![f] = {SignedBy(Operator, Issued(parent))}] \/ UNCHANGED file
      BY <2>1 DEF AnnounceAndWrite
    <2> QED BY <1>0, <2>1, <2>3, <2>4, CredWritten
  <1>5. ASSUME NEW f \in Files, NEW g \in Files, NEW given \in {{}} \cup {{c} : c \in Callers},
               NEW models \in SUBSET Models, NEW tools \in SUBSET Tools, NEW ttl \in {0, 1, MaxTtl + 1},
               Reissue(f, g, given, models, tools, ttl)
        PROVE  CredMore'
    <2>1. PICK old, parent : old \in file[f] /\ parent \in 0 .. head /\
            \E body \in Successor(old, given, models, tools, ttl, parent) :
              AnnounceAndWrite(g, SignedBy(Operator, body))
      BY <1>5 DEF Reissue
    <2>2. PICK body \in Successor(old, given, models, tools, ttl, parent) :
              AnnounceAndWrite(g, SignedBy(Operator, body))
      BY <2>1
    <2>3. ttl \in Int /\ UNCHANGED day
      BY <1>0, <1>5 DEF Reissue
    <2>4. Fair(body)
      BY <1>5, <2>1, <2>2, <2>3, SuccessorFair
    <2>5. file' = [file EXCEPT ![g] = {SignedBy(Operator, body)}] \/ UNCHANGED file
      BY <2>2 DEF AnnounceAndWrite
    <2> QED BY <1>0, <2>3, <2>4, <2>5, CredWritten
  <1>6. CASE UNCHANGED credVars
    BY <1>6 DEF credVars, CredMore, AtMostOne
  <1> QED BY <1>1, <1>2, <1>3, <1>4, <1>5, <1>6 DEF CredNext

LEMMA CredTypesHold == CredInv /\ CredMore => CredTypeOK
  <1> SUFFICES ASSUME CredInv, CredMore PROVE CredTypeOK
    OBVIOUS
  <1>1. ASSUME NEW S, S = {} \/ (\E x : S = {x}) PROVE Cardinality(S) <= 1
    <2>1. CASE S = {}
      BY <2>1, FS_EmptySet
    <2>2. ASSUME NEW x, S = {x} PROVE Cardinality(S) <= 1
      <3>1. Cardinality({x}) = 1
        BY FS_Singleton
      <3> QED BY <2>2, <3>1
    <2> QED BY <1>1, <2>1, <2>2
  <1>2. ASSUME NEW f \in Files PROVE Cardinality(file[f]) <= 1
    BY <1>1 DEF CredMore
  <1>3. ASSUME NEW f \in Files, NEW iac \in file[f]
        PROVE  /\ iac.models \subseteq Models /\ iac.tools \subseteq Tools
               /\ iac.caller \subseteq Callers /\ Cardinality(iac.caller) <= 1
               /\ iac.until <= day + MaxTtl
    <2>1. iac \in Iacs /\ AtMostOne(iac.caller) /\ iac.until <= day + MaxTtl
      BY DEF CredInv, CredMore
    <2>2. Cardinality(iac.caller) <= 1
      BY <1>1, <2>1 DEF AtMostOne
    <2> QED BY <2>1, <2>2 DEF Iacs
  <1> QED BY <1>2, <1>3 DEF CredTypeOK

\* The denials in the ring, each with its number within its group: finitely many,
\* however many groups there may be.
InRing(counts) == {c \in DenialGroups \X (1 .. LogSize) : c[2] <= counts[c[1]]}

AdvisorMore ==
  /\ denials \in [DenialGroups -> 0 .. LogSize] /\ IsFiniteSet(InRing(denials))
  /\ snapshot \subseteq [DenialGroups -> 0 .. LogSize]
  /\ often \subseteq DenialGroups

LEMMA AdvisorMoreStart == AdvisorInit => AdvisorMore
  <1> SUFFICES ASSUME AdvisorInit PROVE AdvisorMore
    OBVIOUS
  <1>1. denials = [d \in DenialGroups |-> 0]
    BY DEF AdvisorInit, NoDenials
  <1>2. InRing(denials) = {}
    BY <1>1 DEF InRing
  <1>3. denials \in [DenialGroups -> 0 .. LogSize]
    BY <1>1, AdvisorAssumption DEF AdvisorAssumption
  <1> QED BY <1>2, <1>3, FS_EmptySet DEF AdvisorInit, AdvisorMore

\* A group that already fills the ring takes no further denial.
LEMMA RoomInRing ==
  ASSUME AdvisorMore, NEW d \in DenialGroups, Size(denials) < LogSize
  PROVE  denials[d] < LogSize
  <1> DEFINE Mine == {c \in {d} \X (1 .. LogSize) : TRUE}
             f == [i \in 1 .. LogSize |-> <<d, i>>]
  <1>0. LogSize \in Nat
    BY AdvisorAssumption DEF AdvisorAssumption
  <1>1. denials[d] \in 0 .. LogSize
    BY DEF AdvisorMore
  <1> SUFFICES ASSUME denials[d] = LogSize PROVE FALSE
    BY <1>0, <1>1
  <1>2. Mine \subseteq InRing(denials)
    BY <1>0 DEF InRing
  <1>3. f \in Bijection(1 .. LogSize, Mine)
    <2>1. f \in [1 .. LogSize -> Mine]
      OBVIOUS
    <2>2. \A i, j \in 1 .. LogSize : f[i] = f[j] => i = j
      OBVIOUS
    <2>3. \A c \in Mine : \E i \in 1 .. LogSize : f[i] = c
      OBVIOUS
    <2> QED BY <2>1, <2>2, <2>3 DEF Bijection, Injection, Surjection, IsInjective
  <1>4. IsFiniteSet(1 .. LogSize) /\ Cardinality(1 .. LogSize) = LogSize
    BY <1>0, FS_Interval
  <1>5. Cardinality(Mine) = LogSize
    <2>1. ExistsBijection(1 .. LogSize, Mine)
      BY <1>3, Zenon DEF ExistsBijection
    <2> HIDE DEF Mine
    <2> QED BY <1>4, <2>1, FS_Bijection
  <1>6. IsFiniteSet(InRing(denials))
    BY DEF AdvisorMore
  <1>7. Cardinality(Mine) <= Cardinality(InRing(denials))
    BY <1>2, <1>6, FS_Subset
  <1>8. Cardinality(InRing(denials)) \in Nat
    BY <1>6, FS_CardinalityType
  <1>9. Size(denials) = Cardinality(InRing(denials))
    BY DEF Size, InRing
  <1> QED BY <1>0, <1>5, <1>7, <1>8, <1>9

LEMMA AdvisorMoreKeeps == AdvisorInv /\ AdvisorMore /\ [AdvisorNext]_advisorVars => AdvisorMore'
  <1> SUFFICES ASSUME AdvisorInv, AdvisorMore, [AdvisorNext]_advisorVars PROVE AdvisorMore'
    OBVIOUS
  <1>0. LogSize \in Nat
    BY AdvisorAssumption DEF AdvisorAssumption
  <1>1. ASSUME NEW d \in DenialGroups, Deny(d) PROVE AdvisorMore'
    <2>1. Size(denials) < LogSize /\ denials' = [denials EXCEPT ![d] = @ + 1] /\ UNCHANGED <<snapshot, often>>
      BY <1>1 DEF Deny
    <2>2. denials[d] < LogSize /\ denials[d] \in Nat
      BY <1>0, <2>1, RoomInRing DEF AdvisorMore
    <2>3. denials' \in [DenialGroups -> 0 .. LogSize]
      BY <1>0, <2>1, <2>2 DEF AdvisorMore
    <2>4. InRing(denials') \subseteq InRing(denials) \cup {<<d, denials[d] + 1>>}
      BY <1>0, <2>1, <2>2 DEF InRing, AdvisorMore
    <2>5. IsFiniteSet(InRing(denials'))
      <3>1. IsFiniteSet(InRing(denials) \cup {<<d, denials[d] + 1>>})
        BY FS_AddElement DEF AdvisorMore
      <3> QED BY <2>4, <3>1, FS_Subset
    <2>6. InRing(denials') = InRing(denials)'
      BY DEF InRing
    <2> QED BY <2>1, <2>3, <2>5, <2>6 DEF AdvisorMore
  <1>2. ASSUME NEW d \in DenialGroups, Leave(d) PROVE AdvisorMore'
    <2>1. denials[d] > 0 /\ denials' = [denials EXCEPT ![d] = @ - 1] /\ UNCHANGED <<snapshot, often>>
      BY <1>2 DEF Leave
    <2>3. denials' \in [DenialGroups -> 0 .. LogSize]
      BY <1>0, <2>1 DEF AdvisorMore
    <2>4. InRing(denials') \subseteq InRing(denials)
      BY <1>0, <2>1 DEF InRing, AdvisorMore
    <2>5. IsFiniteSet(InRing(denials'))
      BY <2>4, FS_Subset DEF AdvisorMore
    <2>6. InRing(denials') = InRing(denials)'
      BY DEF InRing
    <2> QED BY <2>1, <2>3, <2>5, <2>6 DEF AdvisorMore
  <1>3. ASSUME UNCHANGED denials, snapshot' \subseteq snapshot \cup {denials}, often' \subseteq DenialGroups
        PROVE  AdvisorMore'
    BY <1>3 DEF AdvisorMore, InRing
  <1>4. CASE Fetch
    BY <1>3, <1>4 DEF Fetch, AdvisorMore
  <1>5. CASE Analyze \/ Merge
    BY <1>3, <1>5 DEF Analyze, Merge, AdvisorMore
  <1>6. ASSUME NEW k \in Lists, NEW s \in Subjects, EditPolicy(k, s) PROVE AdvisorMore'
    BY <1>3, <1>6 DEF EditPolicy, AdvisorMore
  <1>7. CASE UNCHANGED advisorVars
    BY <1>3, <1>7 DEF advisorVars, AdvisorMore
  <1> QED BY <1>1, <1>2, <1>4, <1>5, <1>6, <1>7 DEF AdvisorNext

LEMMA AdvisorTypesHold == AdvisorInv /\ AdvisorMore => AdvisorTypeOK
  BY AdvisorAssumption DEF AdvisorAssumption, AdvisorInv, AdvisorMore, AdvisorTypeOK

-----------------------------------------------------------------------------
\* All services together.  A part that does not move keeps its state, and no
\* invariant of a part that does not move looks at the clock but as a bound.

ServicesInv ==
  /\ LoginInv /\ LoginMore
  /\ HookInv
  /\ CredInv /\ CredMore
  /\ AdvisorInv /\ AdvisorMore
  /\ AlarmInv /\ RecordsInv

LEMMA ServicesStart == MCInit => ServicesInv
  BY LoginStart, LoginMoreStart, HookStart, CredStart, CredMoreStart, AdvisorStart, AdvisorMoreStart,
     AlarmStart, RecordsStart DEF MCInit, ServicesInv

LEMMA ServicesStep == ServicesInv /\ [MCNext]_<<part, serviceVars>> => ServicesInv'
  <1> SUFFICES ASSUME ServicesInv, [MCNext]_<<part, serviceVars>> PROVE ServicesInv'
    OBVIOUS
  <1>1. [LoginNext]_loginVars /\ [HookNext]_hookVars /\ [CredNext]_credVars /\ [AdvisorNext]_advisorVars
        /\ [AlarmNext]_<<clock, alarmVars>>
    BY DEF MCNext, serviceVars
  <1>2. LoginInv' /\ LoginMore'
    BY <1>1, LoginKeeps, LoginMoreKeeps DEF ServicesInv
  <1>3. HookInv'
    BY <1>1, HookStep DEF ServicesInv
  <1>4. CredInv' /\ CredMore'
    BY <1>1, CredStep, CredMoreKeeps DEF ServicesInv
  <1>5. AdvisorInv' /\ AdvisorMore'
    BY <1>1, AdvisorStep, AdvisorMoreKeeps DEF ServicesInv
  <1>6. AlarmInv' /\ RecordsInv'
    BY <1>1, AlarmStep, RecordsStep DEF ServicesInv
  <1> QED BY <1>2, <1>3, <1>4, <1>5, <1>6 DEF ServicesInv

\* Every variable of every service keeps its type, whichever of them moves: the
\* cached keys' ages stay within what the configuration allows (oidc.rs: key), a
\* credential ends MaxTtl after now at the latest (iac.rs: reissue), a delivery
\* makes MaxAttempts posts per receiver (siem_webhook.rs: deliver), and the rings
\* keep their size (audit.rs, alarm.rs).
THEOREM ServiceTypesHold == MCSpec => []ServicesTypeOK
  <1>1. ServicesInv => ServicesTypeOK
    BY LoginTypesHold, AlarmTypes, CredTypesHold, AdvisorTypesHold DEF ServicesInv, HookInv, ServicesTypeOK
  <1> QED BY <1>1, ServicesStart, ServicesStep, PTL DEF MCSpec
=============================================================================
