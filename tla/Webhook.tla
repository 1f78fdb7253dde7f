------------------------------ MODULE Webhook ------------------------------
(***************************************************************************)
(* The live webhook shipper (siem_webhook.rs): every signed event is given *)
(* to a task of its own that posts it to each URL in turn, retries, and    *)
(* writes what it could not deliver to the dead-letter file.  Tasks run in *)
(* parallel and nothing waits for them.  Backoff delays are left out: they *)
(* only say when the next attempt may come.                                *)
(***************************************************************************)
EXTENDS Clock, Sequences

CONSTANTS
    Events,         \* signed events that are shipped
    Urls,           \* how many URLs MEMBRANE_SIEM_WEBHOOK_URL lists
    MaxAttempts,    \* posts per URL: 4 by default
    MaxStops        \* bound on restarts of the gate

ASSUME WebhookAssumption == Urls \in Nat \ {0} /\ MaxAttempts \in Nat \ {0}

VARIABLES
    task,           \* task[e]: where the delivery of e is
    got,            \* <<event, url>> the receivers have taken
    letters,        \* the dead-letter file: records and the ends of lines
    lettered,       \* dead_letter_path is set
    aborted,        \* ghost: deliveries ended by a failed dead-letter write
    stops

hookVars == <<task, got, letters, lettered, aborted, stops>>

Idle == [place |-> "unsent", url |-> 1, attempt |-> 0]

HookInit ==
    /\ task = [e \in Events |-> Idle]
    /\ got = {} /\ letters = <<>> /\ aborted = {} /\ stops = 0
    /\ lettered \in BOOLEAN

Go(e, place, url, attempt) ==
    task' = [task EXCEPT ![e] = [place |-> place, url |-> url, attempt |-> attempt]]

\* The next URL of deliver's loop, or the end of it.
NextUrl(e) ==
    IF task[e].url < Urls THEN Go(e, "posting", task[e].url + 1, 1)
    ELSE Go(e, "done", task[e].url, task[e].attempt)
-----------------------------------------------------------------------------
\* spawn_siem_ship: a task, and the caller goes on.
Ship(e) ==
    /\ task[e].place = "unsent"
    /\ Go(e, "posting", 1, 1)
    /\ UNCHANGED <<got, letters, lettered, aborted, stops>>

\* A 2xx answer.
Deliver(e) ==
    /\ task[e].place = "posting"
    /\ got' = got \cup {<<e, task[e].url>>}
    /\ NextUrl(e)
    /\ UNCHANGED <<letters, lettered, aborted, stops>>

\* Mutant: a receiver that fails ends the delivery.
PostFailsForAll(e) ==
    /\ task[e].place = "posting"
    /\ got' \in {got, got \cup {<<e, task[e].url>>}}
    /\ IF task[e].attempt < MaxAttempts
       THEN Go(e, "posting", task[e].url, task[e].attempt + 1)
       ELSE Go(e, "done", task[e].url, task[e].attempt)
    /\ UNCHANGED <<letters, lettered, aborted, stops>>

\* Another status or no answer: the event may have arrived all the same.
PostFails(e) ==
    /\ task[e].place = "posting"
    /\ got' \in {got, got \cup {<<e, task[e].url>>}}
    /\ IF task[e].attempt < MaxAttempts
       THEN Go(e, "posting", task[e].url, task[e].attempt + 1)
       ELSE IF lettered THEN Go(e, "record", task[e].url, task[e].attempt)
       ELSE NextUrl(e)
    /\ UNCHANGED <<letters, lettered, aborted, stops>>

\* write_dead_letter opens the file and writes the record.  writeln! writes
\* through an unbuffered file: the end of the line is a second write.
WriteRecord(e) ==
    /\ task[e].place = "record"
    /\ letters' = Append(letters, <<e, task[e].url>>)
    /\ Go(e, "newline", task[e].url, task[e].attempt)
    /\ UNCHANGED <<got, lettered, aborted, stops>>

WriteNewline(e) ==
    /\ task[e].place = "newline"
    /\ letters' = Append(letters, <<>>)
    /\ NextUrl(e)
    /\ UNCHANGED <<got, lettered, aborted, stops>>

\* An error of the file leaves deliver: URLs that come later are not tried.
LetterFails(e) ==
    /\ task[e].place \in {"record", "newline"}
    /\ Go(e, "done", task[e].url, task[e].attempt)
    /\ aborted' = aborted \cup {e}
    /\ UNCHANGED <<got, letters, lettered, stops>>

\* The process stops: the tasks are gone, the file stays.
StopGate ==
    /\ stops < MaxStops
    /\ stops' = stops + 1
    /\ task' = [e \in Events |->
          IF task[e].place \in {"unsent", "done"} THEN task[e] ELSE [task[e] EXCEPT !.place = "lost"]]
    /\ UNCHANGED <<got, letters, lettered, aborted>>

Deliveries(e) ==
    Deliver(e) \/ PostFails(e) \/ WriteRecord(e) \/ WriteNewline(e) \/ LetterFails(e)

HookNext == StopGate \/ \E e \in Events : Ship(e) \/ Deliveries(e)

HookSpec == HookInit /\ [][HookNext]_hookVars
-----------------------------------------------------------------------------
HookTypeOK ==
    /\ task \in [Events -> [place : {"unsent", "posting", "record", "newline", "done", "lost"},
                            url : 1 .. Urls, attempt : 0 .. MaxAttempts]]
    /\ got \subseteq Events \X (1 .. Urls)
    /\ letters \in Seq((Events \X (1 .. Urls)) \cup {<<>>})
    /\ aborted \subseteq Events

Lettered(e, u) == \E i \in DOMAIN letters : letters[i] = <<e, u>>

\* A delivery that came to its end has given the event to every receiver or left
\* a dead letter for it, unless the letter itself could not be written; one dead
\* receiver does not keep the event from the others (siem_webhook.rs: deliver).
NothingVanishes ==
    \A e \in Events : task[e].place = "done" /\ e \notin aborted /\ lettered =>
        \A u \in 1 .. Urls : <<e, u>> \in got \/ Lettered(e, u)

\* A receiver's letter comes after all attempts at that receiver and before the
\* next one is tried: no letter for a URL the task has not given up.
LettersAreEarned ==
    \A e \in Events, u \in 1 .. Urls : Lettered(e, u) =>
        \/ u < task[e].url
        \/ u = task[e].url /\ task[e].attempt = MaxAttempts

\* The dead letters are the undelivered events, no fewer and no more.
LettersAreRight == NothingVanishes /\ LettersAreEarned

\* docs/siem-export.md: the dead-letter path is an "Append-only JSONL" file: no
\* record is written behind another one on the same line.
LettersAreLines ==
    \A i \in 1 .. Len(letters) - 1 : letters[i] # <<>> => letters[i + 1] = <<>>
=============================================================================
