------------------------------- MODULE Grants -------------------------------
(***************************************************************************)
(* The operator's registry of callers (identity.rs): what a grant says,    *)
(* when it is in force, and what it lets a caller do.  An optional field   *)
(* is a set with at most one element.                                      *)
(***************************************************************************)
EXTENDS Integers, FiniteSetsExt

CONSTANT
    MaxTime         \* the largest i64

\* valid_for: a number and a unit, "90m" is [count |-> 90, unit |-> "m"].
UnitSecs == [s |-> 1, m |-> 60, h |-> 3600, d |-> 86400]

\* parse_duration_secs answers nothing for zero, unknown units and overflow.
DurationSecs(d) ==
    { d.count * UnitSecs[u] : u \in {v \in DOMAIN UnitSecs :
          /\ v = d.unit
          /\ d.count > 0
          /\ d.count * UnitSecs[v] <= MaxTime} }

\* effective_expiry of a grant that gives a length.
LengthEnd(g) == { f + s : f \in g.from, s \in UNION {DurationSecs(d) : d \in g.lasts} }

\* effective_expiry is an error.
Contradictory(g) ==
    /\ g.lasts # {}
    /\ \/ g.until # {}
       \/ LengthEnd(g) = {}
       \/ \E e \in LengthEnd(g) : e > MaxTime

\* effective_expiry: the end of the window, exclusive; {} for a standing grant.
End(g) == IF g.lasts = {} THEN g.until ELSE LengthEnd(g)

\* check_window.
InWindow(g, now) ==
    /\ ~Contradictory(g)
    /\ \A f \in g.from, e \in End(g) : f < e
    /\ \A f \in g.from : f <= now
    /\ \A e \in End(g) : now < e

\* grant_expiries: the (identity, expiry) pairs that the alarms watch.
\* `registry.identities` is a function from the known identities to grants.
Expiries(registry) ==
    UNION { {<<id, e>> : e \in End(registry.identities[id])} :
              id \in {i \in DOMAIN registry.identities :
                         /\ ~registry.identities[i].revoked
                         /\ ~Contradictory(registry.identities[i])} }

\* authorize_identity_at.  A call names a model and, from the tool endpoint, a
\* tool and a repository; `call.tool` and `call.repo` are {} for a chat.
Authorized(registry, id, iac, call, now) ==
    /\ id \in DOMAIN registry.identities
    /\ LET g == registry.identities[id] IN
         /\ ~g.revoked
         /\ InWindow(g, now)
         /\ iac.scope \in g.scopes
         /\ iac.channels \subseteq g.channels
         /\ call.model \in iac.models \cap registry.models \cap g.models
         /\ call.tool \subseteq iac.tools \cap g.tools
         /\ call.repo \subseteq registry.repos \cap g.repos

\* validate_iac, for a credential with a valid signature: `now` is inclusive,
\* and the channels are those of the registry the gate was started with.
ValidCredential(registry, iac, now) ==
    /\ now <= iac.until
    /\ "local-llm" \in iac.channels
    /\ registry.channels \subseteq iac.channels

\* issue_operator_iac after the token was accepted: may this be issued?
Issuable(registry, request, now) ==
    /\ request.ttl \in 1 .. 300
    /\ request.caller \in DOMAIN registry.identities
    /\ LET g == registry.identities[request.caller] IN
         /\ InWindow(g, now)
         /\ ~g.revoked
         /\ request.scope \in g.scopes
         /\ request.model \in g.models \cap registry.models
         /\ "local-llm" \in g.channels
         /\ registry.channels \subseteq g.channels
         /\ request.tools \subseteq g.tools

\* Mutant: the exclusive ends are taken for inclusive ones.
LastSecondAndOne(registry, request, tokenEnd, now) ==
    Min({now + request.ttl, tokenEnd} \cup End(registry.identities[request.caller]))

\* The last second in which the credential is valid: nothing outlives the
\* token or the grant, whose own ends are exclusive.
LastSecond(registry, request, tokenEnd, now) ==
    Min({now + request.ttl, tokenEnd} \cup End(registry.identities[request.caller])) - 1

Issued(registry, request, tokenEnd, now) ==
    [scope |-> request.scope, caller |-> request.caller,
     models |-> {request.model}, tools |-> request.tools,
     channels |-> registry.channels \cup {"local-llm"},
     until |-> LastSecond(registry, request, tokenEnd, now)]
=============================================================================
