---------------------------- MODULE Credentials ----------------------------
(***************************************************************************)
(* Credential files and the operator's commands on them: iac issue, iac    *)
(* reissue and iac sign (membrane-cli/src/main.rs, membrane-core/src/      *)
(* iac.rs).  Anybody may edit a file.  A signature names its key and the   *)
(* signed fields, so it verifies only over the same fields.  Caller keys   *)
(* are in lower case, as issue and reissue write them.  Channels are kept  *)
(* and added to exactly like models and are left out.                      *)
(***************************************************************************)
EXTENDS Integers, FiniteSets

CONSTANTS
    Files, Callers, Models, Tools,
    Exports,        \* the exports every issued credential forbids
    Operator,       \* the operator's key
    Stranger,       \* a key that is not the operator's
    MaxTtl,         \* MAX_REISSUE_TTL_SECS: seven days in the code
    MaxDay,         \* bound: the last moment of a behaviour
    MaxCommands     \* bound on commands and edits

ASSUME KeysAssumption == Operator # Stranger
ASSUME TtlAssumption == MaxTtl \in Nat \ {0}

VARIABLES
    file,           \* file[f]: {} or the credential in it
    day,            \* the clock of the commands
    head,           \* the chain head the relay shows, by number
    bus,            \* membrane.iac events: the fields they announce
    done,           \* commands and edits so far
    named           \* ghost: <<caller, right>> the operator named, in arguments or by signing

credVars == <<file, day, head, bus, done, named>>

Signature(key, body) == [by |-> key, over |-> body]

\* signable_view: everything but the signature.
Body(iac) == [scope |-> iac.scope, caller |-> iac.caller, models |-> iac.models,
              tools |-> iac.tools, forbidden |-> iac.forbidden, until |-> iac.until,
              parent |-> iac.parent]

Credential(body, sig) ==
    [scope |-> body.scope, caller |-> body.caller, models |-> body.models,
     tools |-> body.tools, forbidden |-> body.forbidden, until |-> body.until,
     parent |-> body.parent, sig |-> sig]

\* verify_signature.
VerifiesFor(key, iac) == iac.sig = {Signature(key, Body(iac))}

SignedBy(key, body) == Credential(body, {Signature(key, body)})

CredInit ==
    /\ file = [f \in Files |-> {}]
    /\ day = 0 /\ head = 0 /\ bus = {} /\ done = 0
    /\ named = {}

\* What a credential lets its caller do, an export it does not forbid included.
Rights(body) == body.models \cup body.tools \cup (Exports \ body.forbidden)

Command == done < MaxCommands /\ done' = done + 1

\* The end of issue and reissue: the event is published and then the file is
\* written; each of the two may fail, and the webhook between them as well.
AnnounceAndWrite(out, iac) ==
    \/ UNCHANGED <<file, bus>>
    \/ bus' = bus \cup {Body(iac)} /\ UNCHANGED file
    \/ bus' = bus \cup {Body(iac)} /\ file' = [file EXCEPT ![out] = {iac}]
-----------------------------------------------------------------------------
\* iac issue: a credential for one model, anchored to the head of the relay or to
\* the one given.
Issue(out, caller, model, tools, ttl) ==
    /\ Command
    /\ \E parent \in 0 .. head :
          LET body == [scope |-> "chat", caller |-> {caller}, models |-> {model}, tools |-> tools,
                       forbidden |-> Exports, until |-> day + ttl, parent |-> parent]
          IN  AnnounceAndWrite(out, SignedBy(Operator, body))
    /\ named' = named \cup ({caller} \X ({model} \cup tools))
    /\ UNCHANGED <<day, head>>

\* reissue's choice of the caller: the old one, which a new one must equal.
Kept(old, given) == IF old # {} THEN old ELSE given
CallerAgrees(old, given) ==
    /\ old # {} /\ given # {} => old = given
    /\ Kept(old, given) # {}

\* Mutant: a previous credential is carried forward whoever signed it.
SuccessorUnsigned(old, given, models, tools, ttl, parent) ==
    IF CallerAgrees(old.caller, given) /\ ttl \in 1 .. MaxTtl
    THEN {[Body(old) EXCEPT !.caller = Kept(old.caller, given), !.until = day + ttl, !.parent = parent,
                            !.models = @ \cup models, !.tools = @ \cup tools]}
    ELSE {}

\* IntentAuthorizationCredential::reissue: {} when it is refused.
Successor(old, given, models, tools, ttl, parent) ==
    IF VerifiesFor(Operator, old) /\ CallerAgrees(old.caller, given) /\ ttl \in 1 .. MaxTtl
    THEN {[Body(old) EXCEPT !.caller = Kept(old.caller, given), !.until = day + ttl, !.parent = parent,
                            !.models = @ \cup models, !.tools = @ \cup tools]}
    ELSE {}

\* iac reissue: --out must differ from --previous.
Reissue(from, out, given, models, tools, ttl) ==
    /\ Command /\ from # out
    /\ \E old \in file[from], parent \in 0 .. head :
          \E body \in Successor(old, given, models, tools, ttl, parent) :
              /\ AnnounceAndWrite(out, SignedBy(Operator, body))
              /\ named' = named \cup (Kept(old.caller, given) \X (models \cup tools))
                    \cup (IF old.caller = {} THEN given \X Rights(old) ELSE {})
    /\ UNCHANGED <<day, head>>

\* iac sign: whatever the file says is what the operator signs.
Sign(from, out) ==
    /\ Command
    /\ \E iac \in file[from] :
          /\ file' = [file EXCEPT ![out] = {SignedBy(Operator, Body(iac))}]
          /\ named' = named \cup (iac.caller \X Rights(iac))
    /\ UNCHANGED <<day, head, bus>>

\* A file is edited, or signed again by somebody else.
Edit(f) ==
    /\ Command
    /\ \E iac \in file[f] :
          \/ \E m \in Models : file' = [file EXCEPT ![f] = {[iac EXCEPT !.models = @ \cup {m}]}]
          \/ \E t \in Tools : file' = [file EXCEPT ![f] = {[iac EXCEPT !.tools = @ \cup {t}]}]
          \/ \E x \in Exports : file' = [file EXCEPT ![f] = {[iac EXCEPT !.forbidden = @ \ {x}]}]
          \/ \E c \in {{}} \cup {{k} : k \in Callers} : file' = [file EXCEPT ![f] = {[iac EXCEPT !.caller = c]}]
          \/ file' = [file EXCEPT ![f] = {SignedBy(Stranger, Body(iac))}]
    /\ UNCHANGED <<day, head, bus, named>>

\* Time passes and the chain grows.
Pass ==
    /\ day < MaxDay
    /\ day' = day + 1 /\ head' \in {head, head + 1}
    /\ UNCHANGED <<file, bus, done, named>>

CredNext ==
    \/ Pass
    \/ \E f \in Files : Edit(f)
    \/ \E f, g \in Files : Sign(f, g)
    \/ \E f \in Files, c \in Callers, m \in Models, tools \in SUBSET Tools :
          Issue(f, c, m, tools, 1)
    \/ \E f, g \in Files, given \in {{}} \cup {{c} : c \in Callers},
          models \in SUBSET Models, tools \in SUBSET Tools, ttl \in {0, 1, MaxTtl + 1} :
          Reissue(f, g, given, models, tools, ttl)

CredSpec == CredInit /\ [][CredNext]_credVars
-----------------------------------------------------------------------------
Signed(f) == {iac \in file[f] : VerifiesFor(Operator, iac)}

CredTypeOK ==
    /\ \A f \in Files : Cardinality(file[f]) <= 1
    /\ \A f \in Files : \A iac \in file[f] :
          /\ iac.models \subseteq Models /\ iac.tools \subseteq Tools
          /\ iac.caller \subseteq Callers /\ Cardinality(iac.caller) <= 1
          /\ iac.until <= day + MaxTtl

\* iac.rs, "a foreign or tampered credential is never carried forward": what the
\* operator's key lets a caller do, or does not forbid it, the operator has named
\* for that caller, through any chain of reissues and edits.
NothingIsWidened ==
    \A f \in Files : \A iac \in Signed(f) : iac.caller \X Rights(iac) \subseteq named
=============================================================================
