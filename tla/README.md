# The Membrane: a verification project in TLA+

The Membrane is a gate between AI agents and the world: a request carries a
credential (IAC) signed by an operator, the gate publishes a signed receipt (a
chain proof, CP) to the operator's relay, journals it, and only then lets the
call through to a model or to GitHub. An operator can sever a scope, and a
scope that stays silent for longer than Δt is severed by a watchdog.

This directory models that program in TLA+, checks the model with TLC and
proves part of it with TLAPS. `PROJECT.json` maps every definition to the
source lines it stands for.

## Inventory

| Component | Source | State | Operations | What makes it correct |
|---|---|---|---|---|
| Session chain | `membrane-core/src/session.rs` | head CP hash, active scope, nonce and time per scope, severed scopes | `begin_scope`, `record_cp`, `mark_degraded`, `validate_iac_anchor`, staleness | one serialized chain per operator, nonces that never go back, severs never forgotten |
| Operation journal | `membrane-gate/src/operations.rs` | `journal.jsonl`, `instance.lock`, legacy files | `append`, `reserve_in_scope`, `finish`, `unresolved`, `recover`, `assert_ready`, `import_relay` | an operation id is used once; what is journaled can be replayed; failures fail closed |
| Gate server | `membrane-gate/src/server.rs`, `lib.rs` | the chain behind a tokio mutex, the journal, decision log | `handle_chat`, `handle_tool_invoke`, `ensure_live_session`, operator and audit endpoints | receipt before effect, severs bind, at most one effect per operation id |
| Δt watchdog | `membrane-gate/src/watchdog.rs` | none of its own | `tick` every 30 s | a silent active scope is severed |
| Reconciliation | `membrane-gate/src/reconciliation.rs` | none of its own | one pass over the unresolved operations | never releases or repeats an operation |
| Startup | `membrane-cli/src/main.rs` `gate_start` | | fetch, import, reconcile, serve | a restart loses no sever, no nonce and no owner |
| Attestation bus | `membrane-core/src/nostr_bus.rs` | events at the relay | publish, fetch the last 5,000 | what is published is accounted for |
| GitHub connector, model proxy | `github.rs`, `proxy.rs` | none | `execute`, `observe`, `chat`, with timeouts | a timeout is uncertain, never a failure |
| Caller identity | `identity.rs`, `caller.rs` | replay cache, per-process challenge, the registry file | `authenticate_caller`, `authorize_identity`, grant windows | a proof is accepted once; expired proofs lock nobody out |
| Operator login | `oidc.rs` | key cache, its age, last attempt | `validate`, `key`, `fetch_keys`, `issue_operator_iac` | withdrawn keys expire, failures lock nobody out for good |
| Decision log, alarms | `audit.rs`, `alarm.rs` | a ring of 500 rows, a ring of 100 alarms; dedup state | `record_authenticated`, `evaluate`, `evaluate_grants`, `deliver` | every condition raised once, and truly |
| SIEM export | `siem_export.rs` | pending queue, `spool.jsonl`, `cursor.json` | `enqueue`, `admission`, `take_batch`, `ack`, `open` | delivered at least once, in order, gaps marked |
| SIEM webhook | `siem_webhook.rs` | a task per event, dead-letter file | `deliver`, `write_dead_letter` | failures are not silent |
| Credentials | `iac.rs`, `main.rs` | credential files | `iac issue`, `reissue`, `sign`, `verify` | nothing is given that the operator did not name |
| Chat client | `chat.rs` | one credential file for all terminals | `send_turn`, `ensure_session_iac`, `sever_session` | terminals do not speak for each other or lock each other out |
| Rollup | `rollup.rs`, `merkle.rs`, `ots.rs`, `main.rs` | a day's bundle, signature and proof | `rollup export`, `sign`, `stamp`, `daily` | roots commit to exactly a day's events; the files belong together |
| Demo runtime | `demo.rs` | sessions, rate windows; per session a chain and a runtime | issue, action, sever, reset, evidence | honest evidence verifies, evidence that verifies is complete |
| Advisor | `membrane-advisor` | none; a person merges its patch | `analyze` | a patch adds only what was denied, exactly |
| Liveness and readings, dashboard, site, deployment | `liveness.rs`, `readings.rs`, `membrane-dashboard`, `site`, `deploy` | none that anything reads | | views and scripts |

Tasks of one gate process interact through the session mutex, the journal's
own writer mutex and the relay. The hard behaviours are: handlers that are
dropped at any await when the client hangs up; a crash between two journal
records; appends that fail half way; a relay that accepts after the gate gave
up; a GitHub call executed after its timeout; a relay window that forgets old
severs; a clock read before a wait; and one mutex held over network calls.
`PROJECT.json` lists each as a hazard with the properties that cover it.

## Modules

| Module | Models | State and actions |
|---|---|---|
| `SessionChain` | `session.rs` | a chain is a record; pure operators for its methods |
| `Journal` | the readers of `journal.jsonl` | a journal is the result of its replay; one `With...` operator per record kind, and the checks `CanReserve`, `AssertReady`, `Recoverable` |
| `Gate` | `handle_chat`, `handle_tool_invoke`, `ensure_live_session`, watchdog, reconciliation, startup, and their environment | one action per stretch of code between two awaits or two journal writes; `pc[r]` is the place of an attempt's handler |
| `Custody` | the promise: a write is reserved, sent and executed at most once and in this order, and reported completed only after that | five actions, no journal, mutex, relay or crash |
| `GateProperties` | what the gate must guarantee | invariants, an action property, liveness, and `KeepsPromise`, the refinement of `Custody` |
| `GateInvariants` | why the properties hold: the inductive invariants of the gate | state predicates; `CustodyInv` is their conjunction |
| `MCGate` | instances for TLC | sets of calls |
| `GateProofs`, `GateSafetyProofs`, `ChainProofs` | proofs | see Proofs |
| `OperationJournal` | `journal.jsonl` below its replay: frames, writer mutex, instance lock, legacy reservations | one action per lock, read, write or sync of a task; processes and the machine stop between any two |
| `AtomicLog` | the journal as its callers rely on it | extend, acknowledge, lose what was not acknowledged |
| `JournalFile`, `JournalFileProofs` | what the file must guarantee, and its proofs | invariants and `KeepsLog`, the refinement of `AtomicLog` |
| `SiemExport` | `siem_export.rs`: queue, spool, cursor, worker, admission | one action per critical section of `enqueue`, per post and answer, and per envelope acknowledged |
| `Feed` | the feed as the SIEM relies on it | the stream grows at its end, what the SIEM has is a prefix of it |
| `ExportProperties` | what the export must guarantee, and its runs | invariants, liveness and `KeepsOrder`, the refinement of `Feed` |
| `ExportInvariants`, `ExportProofs` | why it holds: the inductive invariant, and its proof | state predicates |
| `Clock` | a clock in whole seconds, and which part of a composed run moves | `Tick` |
| `Grants` | the registry of callers: windows, lengths, what a grant lets a caller do, what may be issued on it | pure operators |
| `CallerAuth` | what a request passes before its handler | one action per stretch between reads of the clock, the lock of the replay cache and the registry file |
| `OperatorLogin` | the key cache under rotation, outages and hang-ups | one action per hold of the cache's mutex; ages are counters that stop where nothing changes |
| `Alarms` | decision ring, alarm task, deliveries | `Poll` is one round of evaluation, `Record` and the outcomes of an attempt follow it |
| `Webhook` | a delivery task per event | one action per post, and two per dead letter |
| `ChatClient` | terminals over one credential file | one action per read, per half of a write, per turn |
| `Credentials` | the operator's commands over credential files that anybody may edit | one action per command |
| `Rollup` | runs of `rollup daily` over the relay and three files a day | one action per command of the run |
| `Demo` | the handlers of a visitor's session | one action per hold of the chain's or the runtime's mutex |
| `DemoFront` | sessions and rate limit in front of the demo | one action per mutex |
| `Advisor` | log, fetched snapshot, report, merge | one action per step of that way |
| `ServiceProofs` | proofs about `Credentials`, `Webhook`, `Advisor`, `DemoFront`, `OperatorLogin` and `Alarms` | see Proofs |
| `AroundProofs` | proofs about `CallerAuth`, `Grants`, `Rollup` and `Demo`, and the types of the whole of `MCAround` | see Proofs |
| `Inductions` | induction over numbers and finite sets, and recursion over finite sets, as lemmas that proofs can cite | no state |
| `MCServices`, `MCAround` | the services around the gate, composed for TLC | see Runs |

`Gate` EXTENDS `Journal`, which EXTENDS `SessionChain`; `GateProperties`
EXTENDS `Gate` and INSTANCEs `Custody`, `GateInvariants` EXTENDS it. `CallerAuth` EXTENDS `Grants`, `Demo`
EXTENDS `SessionChain`. The journal file and the export are
models of their own: `Gate` uses the journal as an atomic log (with appends
that fail), which is what `KeepsLog` shows of the file, and hands receipts to
the export without looking at the result, so the export sees the gate as a
source of requests, receipts and other events. Likewise the services meet the
gate only at an edge: an admitted request of `CallerAuth` is an `Arrive` of
`Gate`, decisions fill the ring that `Alarms` and `Advisor` read, signed events
start a task of `Webhook`, and `ChatClient`, `Credentials` and `OperatorLogin`
produce the credentials that `CallerAuth` and `Gate` take as given.

### How the code corresponds

`pc[r]` follows the handler: `idle` → `waiting` (authenticated, waits for the
mutex) → `fetching` (`assert_ready` passed, the relay is queried) →
`reserving` (writes) → `opening` (before the `Publishing` marker) →
`publishing` → `published` (the relay took the CP) → `recorded` (the
`Checkpoint` record is written) → `calling` → `answered`. A stale scope goes
through `alerting` and `alerted`. `refused`, `unsure` (the relay reported an
error, the marker stays) and `lost` (hang-up or crash) end a handler. Chat
frees the mutex when it enters `recorded`; a tool keeps it until it ends.

Abstractions, each of which keeps the control of the code:

- A CP hash is a number, given out freshly; 0 is the genesis hash. Hashes do
  not collide, signatures are not forged.
- The journal is the result of its replay. This is exact for a file that only
  grows: a fork or a rollback is `ok = FALSE`, a partial last frame `torn`.
  That the file only grows is `KeepsLog`.
- The relay is a set of CPs and a set of severed scopes. An answer to
  `ensure_live_session` contains at least the severs the relay had when the
  mutex was taken and has not forgotten since.
- Refusals before the mutex change no state of the gate and are left out of
  `Gate`; those of credential, proof and grant are in `CallerAuth`. Reads and chats have no operation id; a
  write without a usable one is `NoOp`, which `reserve_in_scope` refuses.
- One step of `Reconcile` is one record of a pass; the pass may stop after any.
- The watchdog looks at the clock before it waits for the mutex, and so do
  handlers (`now`), as in the code.
- The environment: clients hang up at awaits, the process crashes anywhere,
  an append fails leaving nothing, everything or half a frame, GitHub executes
  what is on the `wire` at any time, the relay accepts late or forgets.
- Not represented: a rolled-back volume, overflow of the 64-bit nonce, the
  `memory://` bus used by tests.

### The journal file

A task of a process reserves a key, finishes an operation that it reserved
itself (`handle_tool_invoke` calls `finish` with the path that
`reserve_in_scope` gave it) or appends another record (`Note`).
`reserve_in_scope` checks and appends under one guard of the writer mutex;
`finish` takes it twice, once in `unresolved` and once in `append`, and the
model does the same (`reentering`). `acquire` tries the file lock once and
keeps it while the process lives. A frame's checksum is a digest over its
number, the previous checksum and its record; as it determines everything
before it, it is represented by the sequence of those records. What is written
and not synced survives the death of the process but perhaps not that of the
machine (`PowerLoss`), which may also leave a part of a line.

### The SIEM export

`enqueue` runs under the exporter's lock, but writes the spool up to twice: an
event that ends a gap writes the gap's report and then itself, so `arriving` is
the event whose `enqueue` holds the lock, and a crash can fall between the two.
The worker takes a batch (any prefix of the queue: `batch_size` only bounds
it), posts it without the lock, and acknowledges one envelope after the other,
each with a cursor file of its own; then it may compact the spool. A post that
timed out leaves the batch on the `wire`, where it may arrive later. `Open`
reads both files again and refuses what does not fit.

Abstractions: an envelope's hash is a fresh number per envelope; payload,
TLS and configuration are left out; so is `max_lag` of the admission, which
only refuses more. A failed write leaves one of `Leavings`: nothing, the whole
line or a part of it; the cursor and the compacted spool are replaced by
rename, so they are old or new.

### Callers, credentials and logins

`CallerAuth` follows `chat_completions` and `tools_invoke` up to their
handlers. A handler reads the clock (`at`), checks credential and proof, and
only then waits for the replay cache: others may take the cache first, with an
earlier or a later time. `Retained` is the `retain` of the code, with the time
the handler read. The grant is checked with the clock and the registry file as
they are by then. A proof's signature is its fields. `Credentials` keeps a
signature as the key and the fields it covers, so it verifies over exactly
those; commands and edits may come in any order, and `named` remembers what the
operator named for whom. In `OperatorLogin` an exchange holds the cache's mutex
over the fetch; only ages decide, so `Second` counts up to the age where
nothing changes any more. In `ChatClient` a turn may find the file torn, somebody
else's, expired, or anchored to a head that has moved on.

### Decisions, alarms, deliveries, advice

`Alarms` keeps the whole log and lets the task see the last `RingSize` rows, so
`missed` can say when a burst outran the ring: streaks and first sights are
exact otherwise, and a streak is reported once even then. The task waits for each delivery with its three
attempts before it goes on. In `Webhook` each event has a task of its own; a
dead letter is two writes. `Advisor` reads a fetched snapshot and the registry
of that moment, and its patch is merged into the registry of a later one. A
gate of this version records the caller with every denial of a model or a
repository, and for such denials the advisor proposes no patch: patches only
come from logs without identities, as older gates wrote them.

### The rollup and the demo

`Rollup` represents a hash by what is hashed: a leaf by its domain and event, a
parent by the set of its children (`parent_hash` sorts them). Two runs of the
command work on the same files and may be killed between any two commands.
`Demo` has two requests of one visitor at a time; each handler takes the mutex
of the chain and that of the runtime several times and releases them in
between. `Verifies` is the check of the evidence pack, over what the pack holds.
`DemoFront` lets tabs of two browsers reach the two tables out of the order in
which they read the clock.

## Runs

The last two runs put several small, independent models into one state space:
the variable `part` names the one that moves in a behaviour, and the others
stay where they started.

Where one promise has several parts, each part is a definition of its own and
the run checks their conjunction: `CustodyInv`, `SeversLast`, `ExportSound`,
`GapsAreReported`, `JournalSound`, `LettersAreRight`, `PatchesAreAnswers`,
`KeysAreCurrent`, `ReportsAreExact`, `EvidenceIsSound` and `BundlesAreExact`.

| Run | Instance | Shows |
|---|---|---|
| `crash` | 2 attempts, 2 scopes, 2 callers, 1 operation id, 1 crash, 1 failed append | custody of a write, scope ownership, the chain on the relay hold around a crash, hang-ups, lost acknowledgements, late executions and an append that leaves nothing or half a frame |
| `time` | 2 attempts (a chat and a read) in 2 scopes, clock 0..1 with Δt = 0, 1 forgotten sever | severs bind what is sent upstream and survive |
| `import` | 1 chat, 2 probes on the relay, 2 crashes, 1 forgotten sever | restarts that import relay history keep the journal recoverable, and what is served is its replay, severs included |
| `live` | a write and its retry, clock 0..1, Δt = 0, fairness | requests end, a silent scope is severed |
| `probe` (violation) | a write without operation id, a read, 1 probe | finding 1 |
| `written` (violation) | 2 chats, 1 append that fails after writing | finding 2 |
| `chat` (violation) | chats, clock 0..1 | finding 3 |
| `feed` | buffer of 2, 4 events, lost answers, 2 crashes or a crash and a failed write with any leaving | nothing appended is lost, what the SIEM gets is one unbroken chain, gaps are marked, and, as long as writes are whole, the files can be opened again and the feed only grows |
| `admission` | fail_closed, buffer of 3 with 2 reserved slots, 4 requests, 2 under way, 1 restart, fairness | an admitted request's receipt is always queued, and delivered |
| `stuck` (violation) | fail_closed, 1 failed write | finding 4 |
| `services`, login | 2 operators with a key each, cache for 2 s, cooldown 2 s, timeout 1 s, 1 hang-up, fairness | withdrawn keys expire, the cooldown hides no key that was fetched, logins recover |
| `services`, alarms | 1 caller and unknown ones, ring of 2, 3 decisions, 2 attempts | streaks, first sights and stuck reports are true |
| `services`, webhook | 2 events, 2 URLs, 2 attempts, 1 restart | nothing vanishes, letters are earned |
| `services`, chat | 2 terminals, 2 troubles (lost answers, moved heads, kills) | a terminal is not locked out for good |
| `services`, credentials | 2 files, 2 callers, 1 model, tool and export, 3 commands or edits | no reissue, signature or edit widens |
| `services`, advisor | 2 names, one of them not plain, log of 2, 1 edit | only what was denied often enough is added; a merged patch settles it |
| `around`, journal | 2 processes with 2 tasks each, 2 keys (one reserved by an older release), 3 calls, 2 crashes or losses of power, 1 failed append | the file is readable up to a torn last frame, keys are reserved once, and the file implements an atomic log |
| `around`, caller | 2 handlers, 2 nonces, window 1 s, cache of 2, 3 requests, 1 restart, 3 seconds | no replay while a proof is fresh, refusals are honest, what is issued is honoured to its last second |
| `around`, demo | 2 requests at a time, 4 in all, 2 receipts kept, 2 seconds | honest packs verify, packs that verify are complete, a sever binds |
| `around`, front | 3 tabs of 2 browsers, 2 sessions, 1 request per 2-second window, 4 requests | sessions are kept, the rate is bounded |
| `around`, rollup | 3 events, days of 2 s, relay limit 2, 2 runs | days partition the events, files belong together, roots identify up to four events |

Bounds. Two attempts are what a retry, a race for a scope and a fork need: each
of the safety properties relates at most two attempts, two receipts or two
callers. `MaxIds` bounds publications; with two attempts no more than two
receipts and the probes exist. One crash or fault is enough to put every
pair of steps apart; `import` takes two for a crash during recovery. Time needs
one tick past Δt = 0, because the code only compares ages with Δt. Deadlock
checking is off in every run: a gate that all attempts have left, or whose
startup refuses a pending marker, is meant to stand still. Symmetry is over
attempts, which differ only in the call they make; the runs with liveness use
none.

For the export, a buffer of two is the smallest in which an overflow, a gap's
marker in the reserved slot and a compaction that keeps a rest all happen; four
events fill it, open a gap and close it again, and two crashes put one into the
recovery from the other. `admission` has as many requests under way as slots are
reserved and no other events, because that is what the reserve is sized for.
For the journal's file, three calls are a reservation, its outcome and a rival.

The services are small enough that two of everything make every race: two
handlers at one cache, two operators at one mutex, two deliveries, two
terminals, two requests of a visitor, two runs of one day. A ring, cache or
table of two is the smallest that can be both used and full, a window or a
lifetime of one or two seconds has an inside, a last second and an outside. A
third event is needed where the relay returns two, a third request where the
cache holds two, a third decision where the ring holds two, a third command
where an edit lies between an issue and a reissue.

Fairness (`Fairness` in `Gate`). Handlers continue because every await ends:
relay queries and publications have timeouts (10 s), so do GitHub (15 s) and
the model proxy (120 s). The tokio mutex is FIFO, hence strong fairness for
taking it. The watchdog loop runs every 30 s for ever; that its alert is
accepted and journaled when tried again and again is an assumption about the
relay and the disk (strong fairness of `WdAlertLands` and `WdMark`), without
which no sever could be promised. No fairness is assumed of clients, the
operator, upstream or the clock. In `LiveSpec` of `SiemExport` the worker loops,
a lock that is held is released, and a SIEM that is asked again and again
answers 2xx now and then; a killed gate is started again. No fairness is
assumed of arriving events. In `MCServices`, the handlers of a login go on
because every fetch and lock ends: the client has a timeout, and tokio's mutex
is FIFO (strong fairness for taking the key cache). For `LoginRecovers` clients also try again; that the provider is
reachable and publishes the key from some time on is in the property. For
`ChatRecovers` a started turn goes on and seconds pass while nothing else does;
that the user tries, that the scope is not severed and that no process was
killed in a write are in the property.

## Findings

1. `probe`: `ensure_live_session` does not check the anchor of the active
   scope, even when that scope has no checkpoint because the call that made it
   active was refused later. While the head is genesis, the next call takes its
   parent from the credential. If that is a liveness probe published after
   startup (`membrane bus publish-test`, the README's quick start), the gate
   journals a checkpoint that its own `recover` rejects, and then refuses every
   call and every restart.
2. `written`: when an append reports an error although the frame is complete
   (the directory sync fails), the journal has the checkpoint and memory does
   not; `assert_ready` passes and the next receipt names the same parent.
3. `chat`: chat does not look at `valid_until` again after the mutex, the relay
   query and the publication; tools do.

4. `stuck`: `io_failed` is set by one failed append or cursor write and never
   cleared: in fail_closed mode every request is refused until a restart,
   although docs/siem-export-hardened.md says that admission returns when the
   backlog drains.

Two more limits of the export were met while modelling and are part of the
model, though no run is kept for them. Requests that admission refuses publish
blocked-action receipts, which are queued without regard to the reserved slots:
with `MaxOthers > 0` in `admission`, `AdmittedIsQueued` is violated. And `ack`
pops an envelope also when its cursor write failed; if the buffer fills up
before the next cursor is written, the spool holds one envelope more than a
start accepts: without its condition on failed writes `Reloadable` is violated.

`JournalRecoverable` is therefore checked in `import` without the
ingredients of finding 1, `NoFork` in `crash` without those of
finding 2.

Limits that the other models show, stated as conditions of their properties:

- Overlapping requests of one visitor can make an honest demo pack fail its
  own verification (`HonestPackVerifies` asks for `~overlapped`), and an action
  that is under way across a reset lands in the new run's chain. A pack
  without receipts verifies whatever its `chain_head` says. `begin_scope` of an action under
  way clears the degraded mark of a sever; `SeverBinds` holds because the
  credential is dropped. A refused anchor keeps the scope it entered.
- A proof can be accepted twice after it expired, if a handler waits for the
  replay cache into a later second (`OncePerProof` names this case).
- A killed chat client leaves a torn `active-iac.json`, on which every later
  turn fails until the file is removed.
- Dead letters of two deliveries can share a line: `writeln!` on an unbuffered
  file writes the end of the line separately. `Webhook` states this as
  `LettersAreLines`, which its model violates; no run is kept for it.

## Proofs

Every theorem holds for any values of the constants that satisfy the named
assumptions of the modules (finite or not, any bounds), where a run checks one
small instance. `PROJECT.json` lists the theorems with the property each
states. Eight modules hold them.

### The gate: `GateProofs`, `GateSafetyProofs`, `ChainProofs`

| Theorem | Shows | Rests on |
|---|---|---|
| `TypeCorrect` | `[]TypeOK` | |
| `MutexExcludes` | `[]MutexOK` | types; inductive as it stands |
| `WritesAreReserved`, `EffectsHappenOnce` | `[]WriteOnce`, `[]AtMostOnceEffect` | see below |
| `JournalOnlyGrows` | `[][Grows(disk, disk')]_vars` | types |
| `SeversAreKept` | `[]SeversLast` | `Severs`, `JournalOnlyGrows`' lemmas |
| `AdmittedIsAlone` | `[]Admitted` | `MutexOK`, `Quiescent` |
| `ReceiptsPrecedeEffects` | `[]ReceiptBeforeEffect` | `Receipts` |
| `ScopesKeepTheirCaller` | `[]OneCallerPerScope` | `Owners`, `Admitted` |
| `GateKeepsPromise` | `Spec => KeepsPromise` | all of the above, `Delivered` |
| `NamesAreFresh`, `NothingIsUnaccounted` | `[](Fresh /\ Bounded)`, `[]PublishedIsAccounted` | |
| `ChainIsNeverForked` | `[](FaultsAreClean => NoFork)` | `Heads` |
| `JournalReplays` | `[]JournalRecoverable` under two conditions | `Stages` |
| `MemoryIsTheJournal` | `[]MemoryMatchesJournal` without failed appends | `Stages`, `SeversAgree` |
| `CustodyIsKept` | `[]CustodyInv` | everything |

`AtMostOnceEffect` alone is not inductive: that upstream executes a write now
says nothing about whether it did before. `WriteOnce` adds why: a write is
*live* from its intent until upstream has executed it; a live write's key has
an intent and no effect; two live writes never share a key; a key without an
intent has no effect. `Reserve` makes a write live only for a key without an
intent, and no record removes an intent, so the argument needs neither the
mutex nor the relay nor a working disk. Most steps are *quiet*: they make no
write live, touch no effect and remove no intent, and one lemma settles them
all. The lemmas about journal operators come first in `GateProofs`.

The other invariants are in `GateInvariants`. The pivot is `Admitted`: whoever
is past `assert_ready` and still holds the mutex finds a journal that replays,
a scope that is free or the caller's own, and no unresolved publication but its
own. It is why severs that are heard under the mutex bind (`Severs`: a journaled
sever is in every later replay, and a handler that got past
`ensure_live_session` has a scope that was not in the answer), why a scope stays
with one caller (`Owners`: the `Checkpoint` record names the owner before
anything is sent), and why the chain does not fork. For the last, `Heads` says
that memory and journal agree on the head, that nothing published has the head
as its parent, and that no two attempts that may still publish have read the
same parent; a CP that the relay reported an error for stays a stake until its
marker is resolved, because it may still arrive.

`GateKeepsPromise` maps a write to its stage (`Stage`) and shows that each step
of `Gate` is one step of `Custody` or none, without fairness.

Three theorems have a condition, and each is one that the code needs:

- `FaultsAreClean` (`ChainIsNeverForked`, `JournalReplays`): no append has
  reported an error after its frame was complete. Without it, finding 2 forks
  the chain; run `written` shows it.
- `AnchorsAreKnown` (`JournalReplays`, `MemoryIsTheJournal`): no attempt that
  may still open a session has a credential anchored to a probe that the gate
  never imported. Without it, finding 1 makes the journal unreadable; run
  `probe` shows it. It is a condition on the inputs, stated of every state.
- `count.faults = 0` (`MemoryIsTheJournal`): after a failed append memory and
  file may differ by one record until the next replay.

`NoFork` and `JournalRecoverable` are checked in the runs `crash` and `import`,
whose instances satisfy these conditions.

### The journal's file: `JournalFileProofs`

`FileTypesHold`, `FileStaysSound` (`[]JournalSound`) and `FileKeepsTheLog`
(`KeepsLog`, the refinement of `AtomicLog`), for any processes, tasks, keys,
crashes, losses of power and failed appends. The invariant `JournalInv` has six
parts: the file `Holds` a log, each record in a frame over those before it and
at most a torn frame behind; the locks (`LocksOK`: a task past `Enter` has its
process's writer mutex, one past `Acquire` is of the process that has the
instance lock, so one task at a time checks, composes and writes); what a task
past its checks knows (`WriterOK`: its check still holds and its frame was
composed over the log as it is); what was acknowledged is synced (`SureOK`);
an operation that a task has reserved is open and nobody else's (`ClaimsOK`);
keys are reserved once, and an outcome stands behind its intent (`KeysOK`).
`ClaimsOK` is what makes the two guards of `finish` safe: between them others
may append, but only the task that reserved a key writes its outcome.

### The export: `ExportProofs`

`ExportInvariant` (`[]ExportInv`), and from it `FilesCanBeRead` (`ExportSound`),
`AppendedIsKept` (`NothingLost`), `ReceivedVerifies` (`ChainVerifies`),
`DropsAreReported` (`GapsAreReported`: gaps are marked, by `DropsAreMarked`, and
their counts are exact while nothing crashes or fails),
`ReceiptsFindAPlace` (`AdmittedIsQueued`, in fail_closed mode with at most as
many requests and other events under way as slots are reserved) and
`ExporterKeepsOrder` (`KeepsOrder`, the refinement of `Feed`).

`ExportInv` (module `ExportInvariants`) relates memory, files and collector:
the pending envelopes continue what was received, and so does every batch that
may still arrive (`Numbered`); the spool is some acknowledged lines, then what
is pending, then at most the line of a failed append (`OnFile`); without a
failed write the cursor is where the queue begins and the reserved slot holds a
marker only (`Clean`); for each dropped event there is a marker between the
events before it and those after it (`Accounted`); the slots admission left free
are still free (`Reserved`); and while nothing crashes or fails, the envelopes
below an event account, by their own number and the drops they report, for the
events before it (`Counted`; `Tally` is a sum over a finite set, and what a sum
gains with an envelope is a lemma that `Inductions` makes possible). When the process is down, `Now` is the buffer that a
start would make of the files, so that a crash changes nothing the invariant
speaks of. TLC checked it on the instance of the run `feed`; it takes too long
to be kept as a run of its own.

### Callers: `AroundProofs`

- `FreshProofsAreUsedOnce`: `CallerSpec => []NoReplayWhileFresh`.
- `PromptHandlersAcceptOnce`: `CallerSpec => []OncePerProof`.
- `RefusalsAreHonest`: `CallerSpec => []RefusalIsHonest`.
- `IssuedServesToItsEnd`: `CallerSpec => []IssuedIsHonoured`.

The strengthening says what the cache is for: every accepted proof of this life
of the gate that is still fresh is in the cache (`AcceptedIsHeld`), and a handler
between the check and the lock has a proof of this life that was fresh at a time
that is not in the future (`VerifiedIsCurrent`). Pruning with an old time keeps
more, never less, and pruning with the present time drops only what no handler
could still accept without being late. For refusals, the cache holds accepted
proofs only (`HonestInv`), so an entry that refuses is one that was let in, and
what the `retain` leaves is fresh.

`IssuedIsHonoured` is about operators only: the least of the request's, the
token's and the grant's end is one of them and no later than each, so that a
credential whose last second lies before it is inside window, grant and token
until then, in any registry in which `GrantsAssumption` holds (times are
integers, a grant has one end at most).

### The rollup and the demo: `AroundProofs`

- `FilesOfARunBelongTogether` (`FilesBelongTogether`). A run counts as alone as
  long as no other run of its day was started beside it (`AloneOK`); what it has
  written since is from its own reading.
- `BundlesStandForTheirDay` (`BundlesAreExact`). Each bundle remembers how long
  the relay's list was when it was made and covers the events of its day below
  that (`GoodBundle`). For the roots, `ComputeRoot` is a function on levels: each
  level has half the nodes of the one below, rounded up, so it ends in one node;
  a root names its height, and a node names its children, so equal roots have
  equal leaves all the way down. This is `RootsTellAnyEvents`, for any number of
  events, where the run checks four.
- `SeverRevokesForLaterRequests` (`SeverBinds`). Credentials have ids of their
  own, a severed one is not active, and a request that holds one was there
  before the sever's answer (`SeverInv`).
- `EvidenceCanBeTrusted` (`EvidenceIsSound`). `EvidenceInv` says of the timeline
  and the receipts that they agree until a receipt was dropped (`PackOf`), of
  the signed events that a parent is older than its child
  (`EventsGood`), and, as long as requests come one at a time, that each receipt
  names the last allowed one before it and the head is the last one
  (`InOrder`). That a verified pack is complete needs no invariant about order:
  from the head back along the parents the walk visits exactly the allowed
  receipts, by induction along the receipts (`WalkFinds`). The walk itself is a
  recursive function whose existence is shown as the least closed set of pairs
  (`WalkExists`).
- `DemoTypesHold`, and with it `AroundTypesHold` (`AroundTypeOK`): the types of
  all parts of `MCAround` together. The front's are the ones that need an
  argument: each request is counted once, so what a window has counted and what
  is still under way are together no more than what has arrived, and a table
  that is full loses a session before it gets one (`FrontInv`).

### The services: `ServiceProofs`

- `CredentialsAreNotWidened` (`NothingIsWidened`). The file may be edited and the
  edit undone, so the invariant is not about what a file says but about what the
  operator's signatures cover: each covers only what was named (`CredInv`).
- `DeadLettersAreRight` (`LettersAreRight`): every receiver that a delivery is
  done with has the event or a letter, and whoever writes a letter has made all
  attempts (`HookInv`).
- `PatchesAnswerDenials` (`PatchesAreAnswers`): what a snapshot shows often enough
  stays in `often` while the ring moves on, and a patch names nothing else
  (`AdvisorInv`); that a merged patch ends the denials it answers is a lemma about
  the operators alone.
- `RateStaysBounded` (`RateIsBounded`): the requests let through split into those
  of earlier windows, before the present one began, and those of the present
  one; of the earlier windows only the last can share a minute with it
  (`RateInv`).
- `SessionsStay` (`SessionsAreKept`): a session in the table was last seen at most
  `Late` before it was used, one that is gone was evicted or is past its
  lifetime (`SessionInv`).
- `KeysStayCurrent` (`KeysAreCurrent`): a key in an answer has been withdrawn for
  no longer than the fetch takes, a cached one for no longer than the cache's age
  and the timeout; the cooldown began with the refresh that filled the cache, or
  before it, and is no longer than the cache is trusted (`LoginInv`).

- `AlarmsKeepTrack` (`AlarmInv`), and from it `StreaksStayTrue` (`StreaksAreTrue`)
  and `AlarmsAreExact` (`ReportsAreExact`). A poll folds `Seen` over the rows it
  has not evaluated; the lemma about the fold (`FoldGoesOn`) says that after each
  row the engine's streaks and first sights are those of the log so far, and that
  a caller who was reported stuck is still marked, or was allowed since. Callers
  are marked stuck only where they were not, hence once per streak, bursts or
  not; a first sight is raised by the row that is the first, as long as no row was
  missed.
- `ServiceTypesHold` (`ServicesTypeOK`): the types of all services of
  `MCServices` together. A group of denials that fills the ring alone leaves no
  room for another one, and a credential ends at most `MaxTtl` after now whatever
  was carried forward.

The proof of the rate limit corrected its property. It used to speak of a whole
minute; a request that reads its time `Late` seconds before it is counted can be
let through by a third window and still lie in the minute of the first two, so
the bound holds for a minute less `Late`, which `RateIsBounded` now says.

### Induction over data: `Inductions`

The library's induction theorems take a predicate as a parameter, which none of
the provers instantiates. `Inductions` states the same facts about sets: a set
that has 0 and every successor has all numbers, a nonempty set of numbers has a
least one, a nonempty family of subsets of a finite set has a minimal one, and
the recursion behind `MapThenFoldSet` exists and is unique. Proofs then speak of
the set of numbers for which a fact holds. All recursion in the models is by
functions or folds.

### Assumptions

The theorems assume what the modules' named assumptions say of the constants,
and nothing else. Bounds are natural numbers and capacities (the export's queue,
the replay cache, destinations and attempts of the webhook) at least one; the
values that stand for nobody and nothing are no process, caller, operation or
scope; the outcomes of a write or of a crash are among those the code
distinguishes (`FaultsAssumption`, `LeavingsAssumption`). Besides: a window is
longer than requests may be late (`FrontAssumption`); the cooldown is no longer
than the cache is trusted, as the configuration demands (`LoginAssumption`); one
operator key (`KeysAssumption`) and a lifetime of at least a second
(`TtlAssumption`); finite sets of callers and of grants' windows
(`AlarmsAssumption`); integer times in the registry (`GrantsAssumption`); the
demo's scopes are scopes of the chain (`DemoAssumption`); a day has a length
(`RollupAssumption`). TLC evaluates each of them on the runs' instances.

### Only model-checked

Every invariant and every action property of the passing runs is proved. What
stays with TLC:

- Liveness (`RequestsAnswered`, `SilentScopeSevered`, `Drains`, `LoginRecovers`,
  `ChatRecovers`): TLAPS does not reason about ENABLED and fairness. For the chat
  client, whose only property is liveness, there is no theorem.
- `ChatWithinCredential`, `AdmissionReturns`: the code violates them, as it does
  `JournalRecoverable` and `NoFork` without the conditions above.

## Not modelled

- Liveness stamp, readings, dashboard, site: views that nothing else reads.
  Deployment: configuration and shell scripts.
- `siem.rs` (mapping of events to OCSF and CEF), the renderings of the demo's
  pack, `seam.rs` (optional notes of a model): pure formatting, or text that
  changes no decision.
- Cryptography: signatures do not get forged and hashes do not collide; the
  byte layouts they cover (`canonical.rs`, `caller.rs`) are records.
- OIDC discovery, claims and size limits; argument validation of the GitHub
  connector; the `memory://` bus; `from_bus_events`.
- How the journal grows: every request journals every degraded scope again
  (a size on which no modelled property depends).

## Plan

Done: the gate with its journal and file, the export, and every service around
it that keeps state; their safety properties and refinements, checked and
proved. Not done, in the order in which it would pay: a more detailed
`operator_iac` endpoint (discovery, claims), the state and rendering endpoints of
the demo, and proofs of liveness, which would need a prover for ENABLED.
