----------------------------- MODULE MCAround -----------------------------
(***************************************************************************)
(* The parts of which only safety is checked: the journal's file, caller   *)
(* authentication, a visitor's session of the demo, the front of the demo, *)
(* and the daily rollup.  A behaviour runs one of them and the others stay *)
(* where they started.                                                     *)
(***************************************************************************)
EXTENDS JournalFile, CallerAuth, Demo, DemoFront, Rollup

MCGrant == [revoked |-> FALSE, from |-> {}, until |-> {2}, lasts |-> {},
            scopes |-> {"s"}, channels |-> {"local-llm"}, models |-> {"m"}, tools |-> {}, repos |-> {}]
MCRegistry == [identities |-> [a |-> MCGrant], models |-> {"m"}, repos |-> {}, channels |-> {"local-llm"}]
MCRegistries == {MCRegistry, [MCRegistry EXCEPT !.identities.a.revoked = TRUE]}
MCCredentials == {[scope |-> "s", caller |-> "a", channels |-> {"local-llm"}, models |-> {"m"},
                   tools |-> {}, until |-> 3]}
MCCalls == {[model |-> "m", tool |-> {}, repo |-> {}]}

MCBrowserOf == [a1 |-> "a", a2 |-> "a", b1 |-> "b"]

aroundVars == <<clock, journalVars, callerVars, demoVars, frontVars, rollupVars>>

Parts == {"journal", "caller", "demo", "front", "rollup"}

\* The seconds each part is given.
LastClock == [journal |-> 0, caller |-> 2, demo |-> 0, front |-> 3, rollup |-> 2]

MCInit ==
    /\ part \in Parts
    /\ clock = 0
    /\ JournalInit /\ CallerInit /\ DemoInit /\ FrontInit /\ RollupInit
    /\ part # "caller" => file = MCRegistry

MCNext ==
    /\ UNCHANGED part
    /\ \/ part = "journal" /\ JournalNext
          /\ UNCHANGED <<clock, callerVars, demoVars, frontVars, rollupVars>>
       \/ part = "caller" /\ CallerNext
          /\ UNCHANGED <<journalVars, demoVars, frontVars, rollupVars>>
       \/ part = "demo" /\ DemoNext
          /\ UNCHANGED <<clock, journalVars, callerVars, frontVars, rollupVars>>
       \/ part = "front" /\ FrontNext
          /\ UNCHANGED <<journalVars, callerVars, demoVars, rollupVars>>
       \/ part = "rollup" /\ RollupNext
          /\ UNCHANGED <<journalVars, callerVars, demoVars, frontVars>>
    /\ clock' <= LastClock[part]

MCSpec == MCInit /\ [][MCNext]_<<part, aroundVars>>

\* Every variable of every part keeps its type.
AroundTypeOK == JournalTypeOK /\ CallerTypeOK /\ DemoTypeOK /\ FrontTypeOK
=============================================================================
