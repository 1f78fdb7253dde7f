----------------------------- MODULE MCServices -----------------------------
(***************************************************************************)
(* The services around the gate whose liveness is checked - the operator's *)
(* login, the alarms, the webhook, the chat client - the credential files  *)
(* and the advisor.  A behaviour runs one of them and the others stay      *)
(* where they started.                                                     *)
(***************************************************************************)
EXTENDS OperatorLogin, Alarms, Webhook, ChatClient, Credentials, Advisor

MCChatScope == [t1 |-> 1, t2 |-> 2]
MCKidOf == [l1 |-> "k1", l2 |-> "k2"]
MCWindows == {{}, {<<"a", 2>>}}
MCSpikeRate == <<1, 2>>

serviceVars == <<loginVars, clock, alarmVars, hookVars, chatVars, credVars, advisorVars>>

Parts == {"login", "alarms", "webhook", "chat", "credentials", "advisor"}

MCInit ==
    /\ part \in Parts
    /\ clock = 0
    /\ LoginInit /\ AlarmInit /\ HookInit /\ ChatInit /\ CredInit /\ AdvisorInit
    /\ part # "alarms" => ~hooked /\ windows = {}
    /\ part # "webhook" => ~lettered
    /\ part # "login" => ~reachable
    /\ \A k \in Lists : policy[k] = {} \/ (part = "advisor" /\ k = "model_allowlist" /\ policy[k] = Plain)

MCNext ==
    /\ UNCHANGED part
    /\ \/ part = "login" /\ LoginNext
          /\ UNCHANGED <<clock, alarmVars, hookVars, chatVars, credVars, advisorVars>>
       \/ part = "alarms" /\ AlarmNext
          /\ UNCHANGED <<loginVars, hookVars, chatVars, credVars, advisorVars>>
       \/ part = "webhook" /\ HookNext
          /\ UNCHANGED <<clock, loginVars, alarmVars, chatVars, credVars, advisorVars>>
       \/ part = "chat" /\ ChatNext
          /\ UNCHANGED <<clock, loginVars, alarmVars, hookVars, credVars, advisorVars>>
       \/ part = "credentials" /\ CredNext
          /\ UNCHANGED <<clock, loginVars, alarmVars, hookVars, chatVars, advisorVars>>
       \/ part = "advisor" /\ AdvisorNext
          /\ UNCHANGED <<clock, loginVars, alarmVars, hookVars, chatVars, credVars>>

MCSpec ==
    /\ MCInit /\ [][MCNext]_<<part, serviceVars>>
    /\ LoginFairness /\ ChatFairness

\* Every variable of every part keeps its type.
ServicesTypeOK == LoginTypeOK /\ AlarmTypeOK /\ HookTypeOK /\ CredTypeOK /\ AdvisorTypeOK
=============================================================================
