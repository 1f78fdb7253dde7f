------------------------------- MODULE Advisor -------------------------------
(***************************************************************************)
(* membrane-advisor: it reads the gate's decisions and the operator's      *)
(* registry and proposes a patch, which a person merges some time later    *)
(* while decisions and edits go on.  Only two lists of the registry can be *)
(* patched.  Advice without a patch and the model's notes change nothing   *)
(* and are left out.                                                       *)
(***************************************************************************)
EXTENDS Integers, FiniteSets

CONSTANTS
    Subjects,       \* names of models and repositories that callers ask for
    Plain,          \* those that safe_model_id and safe_repo accept
    MinDenials,     \* --min-denials
    LogSize,        \* bound: denials the ring of decisions holds
    MaxEdits        \* bound on edits and decisions that leave the ring

ASSUME AdvisorAssumption ==
    Plain \subseteq Subjects /\ MinDenials \in Nat \ {0} /\ LogSize \in Nat

VARIABLES
    policy,         \* the two lists of the registry file
    denials,        \* denials[d]: how often d is in the ring
    snapshot,       \* what the advisor fetched: {} or one
    patch,          \* entries of its last report that are not merged
    edits,
    byHand,         \* ghost: entries that were there at first or that the operator wrote
    often           \* ghost: denials that a snapshot held MinDenials times

advisorVars == <<policy, denials, snapshot, patch, edits, byHand, often>>

Lists == {"model_allowlist", "github_repo_allowlist"}

\* The list whose rule a denial names; no entry of the registry helps with others.
ListOf(rule) == CASE rule = "model_allowlist" -> {"model_allowlist"}
                  [] rule = "repository_allowlist" -> {"github_repo_allowlist"}
                  [] OTHER -> {}

Rules == {"model_allowlist", "repository_allowlist", "tool_allowlist"}

\* DenialGroups are grouped by rule, subject and authenticated caller.
DenialGroups == [rule : Rules, subject : Subjects, authenticated : BOOLEAN]

NoDenials == [d \in DenialGroups |-> 0]

AdvisorInit ==
    /\ policy \in [Lists -> SUBSET Subjects]
    /\ denials = NoDenials /\ snapshot = {} /\ patch = {} /\ edits = 0
    /\ byHand = policy /\ often = {}

Size(counts) == Cardinality({c \in DenialGroups \X (1 .. LogSize) : c[2] <= counts[c[1]]})

\* record_authenticated with the outcome "deny".  Logs of gates that knew no callers
\* name nobody; in those of the present gate such a denial names its caller.
Deny(d) ==
    /\ Size(denials) < LogSize
    /\ denials' = [denials EXCEPT ![d] = @ + 1]
    /\ UNCHANGED <<policy, snapshot, patch, edits, byHand, often>>

\* Newer decisions push an old one out of the ring.
Leave(d) ==
    /\ edits < MaxEdits /\ denials[d] > 0
    /\ denials' = [denials EXCEPT ![d] = @ - 1]
    /\ edits' = edits + 1
    /\ UNCHANGED <<policy, snapshot, patch, byHand, often>>

\* GET /audit.
Fetch ==
    /\ snapshot' = {denials}
    /\ often' = often \cup {d \in DenialGroups : denials[d] >= MinDenials}
    /\ UNCHANGED <<policy, denials, patch, edits, byHand>>

\* Mutant: the caller's identity is not looked at.
ProposedForAll(lists, counts) ==
    {e \in Lists \X Plain : \E d \in DenialGroups :
        counts[d] >= MinDenials /\ e[1] \in ListOf(d.rule) /\ e[2] = d.subject /\ e[2] \notin lists[e[1]]}

\* analyze: the entries of the patch.  A denial of an authenticated caller yields
\* none, for the caller's grant is a list of its own.
Proposed(lists, counts) ==
    {e \in Lists \X Plain : \E d \in DenialGroups :
        /\ counts[d] >= MinDenials
        /\ ~d.authenticated
        /\ e[1] \in ListOf(d.rule)
        /\ e[2] = d.subject
        /\ e[2] \notin lists[e[1]]}

\* The report on what was fetched and the registry as it is now.
Analyze ==
    /\ \E counts \in snapshot : patch' = Proposed(policy, counts)
    /\ snapshot' = {}
    /\ UNCHANGED <<policy, denials, edits, byHand, often>>

\* add_list_item: an entry more in one list, nothing else changes.
Patched(lists, entries) == [k \in Lists |-> lists[k] \cup {e[2] : e \in {f \in entries : f[1] = k}}]

\* A person merges the patch, into the registry as it is by then.
Merge ==
    /\ patch # {}
    /\ policy' = Patched(policy, patch)
    /\ patch' = {}
    /\ UNCHANGED <<denials, snapshot, edits, byHand, often>>

EditPolicy(k, subject) ==
    /\ edits < MaxEdits
    /\ edits' = edits + 1
    /\ \/ policy' = [policy EXCEPT ![k] = @ \ {subject}] /\ UNCHANGED byHand
       \/ policy' = [policy EXCEPT ![k] = @ \cup {subject}]
          /\ byHand' = [byHand EXCEPT ![k] = @ \cup {subject}]
    /\ UNCHANGED <<denials, snapshot, patch, often>>

AdvisorNext ==
    \/ \E d \in DenialGroups : Deny(d) \/ Leave(d)
    \/ Fetch \/ Analyze \/ Merge
    \/ \E k \in Lists, s \in Subjects : EditPolicy(k, s)

AdvisorSpec == AdvisorInit /\ [][AdvisorNext]_advisorVars
-----------------------------------------------------------------------------
AdvisorTypeOK ==
    /\ policy \in [Lists -> SUBSET Subjects] /\ byHand \in [Lists -> SUBSET Subjects]
    /\ denials \in [DenialGroups -> 0 .. LogSize] /\ snapshot \subseteq [DenialGroups -> 0 .. LogSize]
    /\ patch \subseteq Lists \X Subjects /\ often \subseteq DenialGroups

\* membrane-advisor/src/lib.rs, "Narrowest change" and "The log is attacker-
\* influenced": an entry that the operator did not write is a plain name that
\* was denied under that list's rule, often enough and to nobody in particular,
\* whatever was decided, edited and merged in between.
OnlyDeniedIsAdded ==
    \A k \in Lists : \A s \in policy[k] \ byHand[k] :
        /\ s \in Plain
        /\ \E d \in often : k \in ListOf(d.rule) /\ d.subject = s /\ ~d.authenticated

\* A merged patch settles the denials it answers: the same log read again yields
\* no further patch (analyze, checked_add).
PatchesSettle == \A counts \in snapshot :
    Proposed(Patched(policy, Proposed(policy, counts)), counts) = {}

\* What the advisor brings into the registry answers denials, and ends them.
PatchesAreAnswers == OnlyDeniedIsAdded /\ PatchesSettle
=============================================================================
