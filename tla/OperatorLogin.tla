--------------------------- MODULE OperatorLogin ---------------------------
(***************************************************************************)
(* operator_iac and the cache of the identity provider's keys (oidc.rs):   *)
(* operators exchange tokens for credentials while the provider rotates    *)
(* its keys, stops answering, and clients hang up.  Only ages matter, so   *)
(* time is kept in counters that stop at the age where nothing changes.    *)
(***************************************************************************)
EXTENDS Clock

CONSTANTS
    Logins,         \* clients that exchange a token, again and again
    Kids,           \* key ids
    KidOf,          \* KidOf[l]: the key that signed l's token
    CacheTtl,       \* cache_ttl_secs: at least Cooldown, as the configuration demands
    Cooldown,       \* 30 seconds in the code
    Timeout,        \* the client's timeout: 5 seconds in the code
    MaxHangUps,     \* bound on clients that hang up
    NoLogin

ASSUME LoginAssumption ==
    /\ CacheTtl \in Nat /\ Cooldown \in 0 .. CacheTtl /\ Timeout \in Nat
    /\ MaxHangUps \in Nat
    /\ KidOf \in [Logins -> Kids] /\ NoLogin \notin Logins

VARIABLES
    published,      \* the keys the provider publishes
    reachable,      \* the provider answers, and within the timeout
    gone,           \* seconds since each key was withdrawn; 0 while it is published
    keys,           \* Cache.keys: {} or the fetched set
    age,            \* seconds since they were fetched
    since,          \* seconds since Cache.last_attempt
    cache,          \* who holds the mutex of the cache
    at,             \* where each exchange is
    answer,         \* what the provider sent to the fetch under way: {} or a set
    waited,         \* seconds the fetch under way has taken
    hangUps

idpVars == <<published, reachable, gone>>
keyVars == <<keys, age, since>>
fetchVars == <<answer, waited>>
loginVars == <<idpVars, keyVars, cache, at, fetchVars, hangUps>>

Forgotten == CacheTtl + Timeout + 1     \* where `gone` stops

LoginInit ==
    /\ published = Kids
    /\ reachable \in BOOLEAN
    /\ gone = [k \in Kids |-> 0]
    /\ keys = {} /\ age = 0 /\ since = Cooldown
    /\ cache = NoLogin
    /\ at = [l \in Logins |-> "idle"]
    /\ answer = {} /\ waited = 0
    /\ hangUps = 0

Move(l, target) == at' = [at EXCEPT ![l] = target]

\* Whoever ends a fetch leaves the mutex and drops what the fetch has read.
EndFetch == cache' = NoLogin /\ answer' = {} /\ waited' = 0
-----------------------------------------------------------------------------
\* A bearer token arrives; validate checks its header.
Exchange(l) ==
    /\ at[l] = "idle"
    /\ Move(l, "waiting")
    /\ UNCHANGED <<idpVars, keyVars, cache, fetchVars, hangUps>>

\* Mutant: the age of the cache is not looked at.
HasKeyOfAnyAge(kid) == \E set \in keys : kid \in set

\* `found`: the cache is fresh and has the key.
HasKey(kid) == age < CacheTtl /\ \E set \in keys : kid \in set

Cooling == since < Cooldown

FindKey(l) ==
    /\ at[l] = "waiting" /\ cache = NoLogin
    /\ HasKey(KidOf[l])
    /\ Move(l, "verified")
    /\ UNCHANGED <<idpVars, keyVars, cache, fetchVars, hangUps>>

\* Mutant: a refusal starts the cooldown anew.
RefuseForLonger(l) ==
    /\ at[l] = "waiting" /\ cache = NoLogin
    /\ ~HasKey(KidOf[l]) /\ Cooling
    /\ since' = 0
    /\ Move(l, "idle")
    /\ UNCHANGED <<idpVars, keys, age, cache, fetchVars, hangUps>>

RefuseForNow(l) ==
    /\ at[l] = "waiting" /\ cache = NoLogin
    /\ ~HasKey(KidOf[l]) /\ Cooling
    /\ Move(l, "idle")
    /\ UNCHANGED <<idpVars, keyVars, cache, fetchVars, hangUps>>

\* The old keys go before the fetch, which holds the mutex.
Refresh(l) ==
    /\ at[l] = "waiting" /\ cache = NoLogin
    /\ ~HasKey(KidOf[l]) /\ ~Cooling
    /\ since' = 0
    /\ keys' = {} /\ age' = 0
    /\ cache' = l
    /\ Move(l, "fetching")
    /\ UNCHANGED <<idpVars, fetchVars, hangUps>>

\* fetch_keys refuses an empty set.
Fetched(l) ==
    /\ at[l] = "fetching" /\ answer \notin {{}, {{}}}
    /\ keys' = answer /\ age' = 0
    /\ EndFetch
    /\ Move(l, IF \E set \in answer : KidOf[l] \in set THEN "verified" ELSE "idle")
    /\ UNCHANGED <<idpVars, since, hangUps>>

\* No answer in time, an HTTP error, or a document that is refused.
FetchFails(l) ==
    /\ at[l] = "fetching"
    /\ ~reachable \/ answer = {{}}
    /\ EndFetch
    /\ Move(l, "idle")
    /\ UNCHANGED <<idpVars, keyVars, hangUps>>

\* The token's claims, the caller's grant in the registry as it is now, the
\* signature: Issuable and Issued in module Grants.
Exchanged(l) ==
    /\ at[l] = "verified"
    /\ Move(l, "idle")
    /\ UNCHANGED <<idpVars, keyVars, cache, fetchVars, hangUps>>
-----------------------------------------------------------------------------
\* The handler of a client that hangs up is dropped at an await, with its guard.
HangUpLogin(l) ==
    /\ at[l] \in {"waiting", "fetching"}
    /\ hangUps < MaxHangUps
    /\ hangUps' = hangUps + 1
    /\ IF cache = l THEN EndFetch ELSE UNCHANGED <<cache, fetchVars>>
    /\ Move(l, "idle")
    /\ UNCHANGED <<idpVars, keyVars>>

\* The provider answers a fetch with the keys it publishes at that moment.
IdpAnswers(l) ==
    /\ at[l] = "fetching" /\ answer = {} /\ reachable
    /\ answer' = {published}
    /\ UNCHANGED <<idpVars, keyVars, cache, at, waited, hangUps>>

IdpWithdraws(k) ==
    /\ k \in published
    /\ published' = published \ {k}
    /\ UNCHANGED <<reachable, gone, keyVars, cache, at, fetchVars, hangUps>>

IdpPublishes(k) ==
    /\ k \notin published
    /\ published' = published \cup {k}
    /\ gone' = [gone EXCEPT ![k] = 0]
    /\ UNCHANGED <<reachable, keyVars, cache, at, fetchVars, hangUps>>

IdpChanges ==
    /\ reachable' = ~reachable
    /\ UNCHANGED <<published, gone, keyVars, cache, at, fetchVars, hangUps>>

UpTo(limit, n) == IF n < limit THEN n + 1 ELSE limit

\* Mutant: the client has no timeout.
SecondUntimed ==
    /\ gone' = [k \in Kids |-> IF k \in published THEN 0 ELSE UpTo(Forgotten, gone[k])]
    /\ age' = IF keys = {} THEN 0 ELSE UpTo(CacheTtl, age)
    /\ since' = UpTo(Cooldown, since)
    /\ waited' = IF cache = NoLogin THEN 0 ELSE waited + 1
    /\ UNCHANGED <<published, reachable, keys, cache, at, answer, hangUps>>

\* A second passes; a fetch does not last longer than its timeout.
Second ==
    /\ cache = NoLogin \/ waited < Timeout
    /\ gone' = [k \in Kids |-> IF k \in published THEN 0 ELSE UpTo(Forgotten, gone[k])]
    /\ age' = IF keys = {} THEN 0 ELSE UpTo(CacheTtl, age)
    /\ since' = UpTo(Cooldown, since)
    /\ waited' = IF cache = NoLogin THEN 0 ELSE waited + 1
    /\ UNCHANGED <<published, reachable, keys, cache, at, answer, hangUps>>

LoginStep(l) ==
    \/ Exchange(l) \/ FindKey(l) \/ RefuseForNow(l) \/ Refresh(l)
    \/ Fetched(l) \/ FetchFails(l) \/ Exchanged(l)

LoginNext ==
    \/ \E l \in Logins : LoginStep(l) \/ HangUpLogin(l) \/ IdpAnswers(l)
    \/ \E k \in Kids : IdpWithdraws(k) \/ IdpPublishes(k)
    \/ IdpChanges
    \/ Second

LoginSpec == LoginInit /\ [][LoginNext]_loginVars

TakesCache(l) == FindKey(l) \/ RefuseForNow(l) \/ Refresh(l)
EndsFetch(l) == Fetched(l) \/ FetchFails(l)

\* Handlers go on, clients try again, and a provider that is reachable answers;
\* the mutex is fair, so a handler that keeps waiting for it gets it.
LoginFairness ==
    /\ \A l \in Logins :
        /\ WF_loginVars(part = "login" /\ Exchange(l))
        /\ WF_loginVars(part = "login" /\ Exchanged(l))
        /\ SF_loginVars(part = "login" /\ TakesCache(l))
        /\ WF_loginVars(part = "login" /\ IdpAnswers(l))
        /\ WF_loginVars(part = "login" /\ EndsFetch(l))
    /\ WF_loginVars(part = "login" /\ Second)
-----------------------------------------------------------------------------
LoginTypeOK ==
    /\ published \in SUBSET Kids /\ reachable \in BOOLEAN
    /\ gone \in [Kids -> 0 .. Forgotten]
    /\ keys \in SUBSET SUBSET Kids /\ age \in 0 .. CacheTtl /\ since \in 0 .. Cooldown
    /\ cache \in Logins \cup {NoLogin}
    /\ at \in [Logins -> {"idle", "waiting", "fetching", "verified"}]
    /\ answer \in SUBSET SUBSET Kids /\ waited \in 0 .. Timeout
    /\ hangUps \in 0 .. MaxHangUps

\* A token verifies only with a key the provider published within the last
\* CacheTtl + Timeout seconds: the time the cache is trusted and the time an
\* answer may be under way (oidc.rs: key and fetch_keys).
WithdrawnKeysExpire ==
    [][\A l \in Logins : at[l] # "verified" /\ at'[l] = "verified"
                            => gone[KidOf[l]] <= CacheTtl + Timeout]_loginVars

\* The cooldown never refuses an operator whose key the last refresh brought:
\* it is over before the cache expires (oidc.rs: build demands a ttl of 30 s).
CooldownHidesNoKey ==
    [][\A l \in Logins : RefuseForNow(l) => \A set \in keys : KidOf[l] \notin set]_loginVars

\* The cache is neither trusted too long nor hidden while it is good.
KeysAreCurrent == WithdrawnKeysExpire /\ CooldownHidesNoKey

\* If the provider stays reachable and keeps publishing an operator's key, the
\* operator's logins succeed again and again, whatever failed before: failed
\* refreshes, hang-ups and tokens with unknown keys lock nobody out for good.
LoginRecovers ==
    \A l \in Logins :
        <>[](reachable /\ KidOf[l] \in published) => []<>(at[l] = "verified")
=============================================================================
