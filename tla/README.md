# Formal model of the Workspace–Zulip bridge

TLA+ modules, TLC runs and TLAPS proofs for `workspace_zulip_bridge`, the service
that connects Workspace chats with Zulip. Source paths below are relative to
`src/workspace_zulip_bridge/` unless they start with `src/`. `PROJECT.json` maps
every definition to the lines it models.

## 1. Inventory

The bridge is one process with one PostgreSQL database. It talks to three
parties: the Workspace backend (leases of operations, results, provider events,
history pages, files, observed reports), the control plane (desired accounts,
policies and chat assignments; enrollment and certificates) and Zulip (REST calls
and one event queue per account).

| | Part | Where | State | Operations |
|---|---|---|---|---|
| A | outbound operation queue | `scheduler.py`, `storage.py` 8803–10177, `service.py` 806–897, 4446–4490 | `bridge_operations`, `operation_idempotency`, `producer_operations`, `producer_lane_counters`, `causal_lane_state`, `provider_mappings` | lease poll, bind, enqueue, claim, execute, complete, retry, reconcile, local echo, report results, prune |
| B | provider event journal | `service.py` 897–1162, 3075–3600, `storage.py` 3226–3900, 4173–4515, 10178–10395 | `zulip_event_cursors`, `zulip_provider_events`, event lane guards | poll a queue, record an event, advance the cursor, claim and prepare events per lane |
| C | Workspace delivery outbox | `storage.py` 4615–7124, 11423–11734, `service.py` 3995–4221 | `workspace_delivery_outbox`, prepared records, lane sequences | prepare, enqueue, submit a batch, bisect a rejection, await results, finalize |
| D | history capture | `history.py`, `storage.py` 7582–7603, 8013–8801, `service.py` 3825–3990 | history jobs with leases and page checkpoints | claim, capture a page, advance, complete, fail |
| E | history configuration | `history_configuration.py` | configured scopes, fingerprints | build and acknowledge a configuration |
| F | history publication, failure reports | `history_delivery.py`, `history_failure_reports.py` | stored batches, report rows | upload, confirm, retry, give up |
| G | control plane | `control.py`, `service.py` 582–806, `storage.py` 838–1340 | desired revision, accounts, policies, assignments | apply a snapshot or a change page, acknowledge |
| H | observed reports, catalog gate | `storage.py` 11734–12195, `service.py` 2406–2445 | observed rows, catalog rows | compose, send, acknowledge |
| I | participant synchronisation | `storage.py` 7603–8013, `service.py` 1764–1895 | participant snapshots and readiness | fetch, store, mark ready |
| J | account circuit breaker | `storage.py` 7366–7580, `service.py` 2446–2545 | `scheduler_accounts` | count failures, open, probe, close |
| K | queue catch-up | `storage.py` 10394–10577, `service.py` 2547–2690, 3697–3823 | catch-up jobs with boundary and anchor | begin, fetch a page, reconcile deletions, advance |
| L | enrollment and certificates | `enrollment.py`, `service.py` 679 | identity files, pending renewal | enroll, renew, swap |
| M | lanes and threads | `service.py` 1273–1365, 4221–4621 | thread handles, stop flag | start, supervise, tick, stop |
| N | conversion and transport | `converter.py`, `markdown_conversion.py`, `emoji.py`, `file_api.py`, `zulip_adapter.py`, `provider_api.py`, `canonical.py` | none | pure conversions and single HTTP calls |
| O | shell | `cli.py`, `config.py`, `health.py`, `mtls.py`, `credentials.py` | settings | start-up |

How they interact: the control thread writes G, which decides what A, B, D and K
may touch; the live thread runs A; the event poll thread feeds B and completes
operations of A through their local echo; workers turn B's journal into C's
outbox; history workers run D, F and K. Everything durable goes through one
database, one transaction per storage method. HTTP calls lie between
transactions, which is where crashes, lost answers and the other threads get in.

What is hard, and what correct means, per part:

* A: unknown outcomes of a send, crashes around the call, leases that expire and
  are renewed, results whose acknowledgement is lost, order within a chat, and a
  second thread that completes the same row. Correct: a message is not sent
  blindly twice, a chat's operations keep their order, the backend eventually
  learns a true outcome of everything it leased, and nothing is forgotten before.
* B and K: events between the loss of a queue and the next registration; the
  cursor must not run ahead of the journal; a catch-up that is interrupted by
  another loss or a restart must not skip what it had not fetched, and must not
  take a live message for a deleted one.
* C: at-least-once submission with sequence numbers per lane; a rejected record
  must leave the batch and not block its lane; a crash during a submission leaves
  an ambiguous one that is not repeated blindly.
* D, E, F: resumable captures under leases, generations that make an old worker's
  write void, batches published once and in order.
* G, H: revisions applied in order, an acknowledgement never ahead of the state
  it acknowledges; deletions that end the work of every other part.
* I, J: readiness gates and a circuit breaker that must close again.
* L: a renewal that may crash between the new key and the new certificate.
* M: a thread that dies must end the process instead of leaving a lane idle.

The hazards, each at its line, are in `PROJECT.json`.

## 2. Modules and plan

| Module | Parts | Composed with | State of work |
|---|---|---|---|
| `OperationQueue`, `MCOperationQueue`, `OperationQueueTypes`, `OperationQueueProofs` | A | local echoes of B, changes of G | modelled, nine theorems |
| `EventIntake`, `MCEventIntake`, `EventIntakeProofs` | B (poll, cursor), K | readiness of I, scopes of E | modelled, five theorems |
| `Delivery`, `DeliveryPromise`, `MCDelivery`, `DeliveryProofs` | B (journal worker), C | changes of G, reports of H | modelled, implements `DeliveryPromise`, four theorems |
| `History`, `MCHistory`, `HistoryProofs` | D, E, F | changes of G, cursors of B | modelled, six theorems |
| `Enrollment`, `MCEnrollment`, `EnrollmentProofs` | L | heartbeat and hourly check of M | modelled, four theorems |
| `ControlPlane`, `MCControlPlane`, `ControlPlaneProofs` | G, H, I, J | the message that waits in B | modelled, six theorems |
| `Selection` | | used by `Delivery` and `ControlPlane` | rows chosen from a sequence |
| `NumberLemmas` | | used by the proofs | lemmas on numbers, induction and selections |

Each `MC` module holds the values of the constants for TLC and nothing else. A
module takes of its neighbours what they do to it, as steps of its own: the
account change that `ControlPlane` models in full is one step of `Delivery`.

What is left: account status reports with their in-memory caches (H); the choice
between several accounts (K).

## 3. OperationQueue: the outbound operation queue

### State

| Variable | Code |
|---|---|
| `state`, `bound`, `hold`, `attempt`, `result` | a row of `bridge_operations`: its state; lease, deadline, digest and assignment generation; `lease_until`; provider attempt evidence and the two reconciliation counters; `result_record` and how it was acknowledged |
| `idem` | `operation_idempotency.terminal_outcome` |
| `seq`, `pred`, `counter`, `lane` | `producer_operations`, `producer_lane_counters`, `causal_lane_state` |
| `mapped` | undeleted provider mappings |
| `account`, `assignment` | desired account (with `scheduler_accounts`) and chat assignments |
| `live`, `echo`, `request` | the live thread and the event poll thread between two transactions; the retained lease request UUID |
| `zulip`, `backend` | the outside: requests in flight and applied copies; the backend's lease and recorded outcome |
| `budget` | what is left of the bounded failures |

### Actions

Every action is one transaction or one HTTP call, so the process can stop, and
the other threads can run, between any two.

* `poll_provider_operations`: `PollProviderOperations`, then one of
  `BindProviderLease`, `Enqueue`, `EnqueueKnown`, `RejectLease`.
* `run_once`: `ClaimTerminal`, `CompleteTerminal`; or `Claim`, `ExpireClaimed`,
  `PrepareFails`, `RecordProviderAttempt`, `Apply`, and then `CompleteCommitted`,
  `MarkUncertain`, `Retry` or `CompleteRejected`. The reaping of lapsed rows that
  opens `run_once` and `reconcile_once` is part of the claim (`ReapedState`), and
  `ReapOnly` is a round that finds nothing to claim.
* `reconcile_once`: `ClaimUncertain`, `ReconcileMessage`, and then
  `CompleteMatched`, `DeferUncertain`, `ScheduleReconciliationCheck`,
  `ScheduleSingleResend` or `RequireManualReconciliation`.
* `reconcile_local_echo`: `EchoRead`, `EchoComplete`, `EchoIgnored`.
* `flush_provider_results`: `FlushProviderResults`, `FinalizeProviderResult`.
* `prune_terminal_delivery_state`: `PruneOperation`.
* the control thread: `ApplyAssignment`, `ApplyAccount`; time: `HoldLapses`,
  `LeaseExpires`, `Land`; failures: `Crash`, and `CompletionRaises` where the
  "Causal lane state changed" error ends the thread and with it the process.

### Abstractions

* Delays (`available_at`, `reconciliation_after`, backoff) are dropped: a step
  may happen as soon as its other conditions hold. Clocks survive as the events
  "a worker lease lapses" and "a backend lease expires".
* A lease poll answers with one operation. What a batch adds, the repetition of
  an answer whose rejected part could not be reported, is kept in `request`.
* The reconciliation window is a choice made when a copy lands: it is visible to
  the search or it is not.
* The content of messages is dropped; of the digest only the part that can change
  between two leases is kept, the copied provider mapping (`EntityIdNow`).
* The backend (not part of the repository) is modelled from how the bridge uses
  it: it records one outcome under the current lease and answers the statuses
  `flush_provider_results` distinguishes. The last lease of the bound is neither
  rejected nor expires while the bridge knows it, which only bounds the model.
* The branch of `reconcile_once` for a missing `provider_attempted_at` is left
  out: only rows with attempt evidence become uncertain.

`CHECK_DEADLOCK FALSE` is set since the system stops when every operation is
answered and the bounds are used up.

### Runs that pass

| Run | Instance | States | Shows |
|---|---|---|---|
| `oq_lane` | a create and a read state in one chat, 2 leases, 1 crash, 1 fault | 3.2 M | `TypeOK`, `LaneOrder`, `NoBlindRetry`, `OutcomeHasResult`, `AcknowledgedMeansKnown`, `NoCallAfterTerminal` |
| `oq_control` | one create, 2 leases, 2 control changes, 1 crash, 1 fault, local echoes | 2.0 M | `NextInLaneExists`, `BoundedCopies`, `ReportedSuccessIsReal` |
| `oq_answered` | one create, 2 leases, 1 change, 1 crash, 1 fault, fair | 113 k | `LeaseIsAnswered` |

Why these bounds: two operations are the least that have an order, two leases the
least in which a lease is renewed after its row exists, one crash and one fault
are the least that lose a call and one answer; the chain from an ambiguous send
over three searches and the resend to the manual reconciliation fits into each of
the runs. Section 9 proves for every value of the constants the properties of the
table that always hold, and for the others exactly what breaks them.

### Fairness

`FairSpec` assumes: each of the four handlers the live loop calls in turn,
forever, eventually takes work it finds again and again (strong fairness per
handler, since a handler's guard is only looked at when the thread is idle); a
handler that has begun goes on to its end (no call blocks forever: all HTTP calls
have timeouts); leases lapse. Nothing is assumed of Zulip's answers, late sends,
the control plane, the event poll thread or the crashes, which the budgets make
finite.

### Traces

The module states these properties too; TLC refutes each with the constants
given, and no run keeps them.

* `ReportedFailureIsReal` with `Ops = {a}`, `Kind <- DeleteAll`, 2 leases and 1
  fault: `leased_operation_record` copies the current mapping into the operation
  of an update or delete and `operation_digest` covers it
  (`provider_protocol.py:158`). A committed delete removes the mapping; leased
  again, the same operation has another digest and is reported as failed, where
  `src/docs/provider_http_runtime.md:36` says "a later lease of the same immutable
  operation rebinds the durable result".
* `BoundedCopies` with `ErrorMayApply = TRUE`: a `server_error` or
  `request_timeout` answer to a send is retried without reconciliation
  (`zulip_adapter.py:502`); if Zulip had applied it, it is sent again, and not only
  once. `src/docs/zulip_12_1_1_api_assumptions.md:87` says "No match after all
  three checks permits exactly one automatic resend." The runs exclude this case;
  section 9 proves that there is one more copy at most for each such answer.
* `LaterLeaseIsAnswered`, under `FairSpec` with two creates in one lane and no
  change, crash or fault: a manual reconciliation closes its row but does not
  advance the causal lane, so the later operations of the chat are never claimed,
  swept or reported. `LeaseIsAnswered` in `oq_answered` has one operation, for
  which this cannot happen.
* `OutcomeHasResult` with `LocalEchoes = TRUE`: a local echo read before, and
  completed after, the resend was scheduled records the commit in the idempotency
  row and the lane, but the row stays pending and there is no result to report.
  `NoCallAfterTerminal` fails in the same way. `oq_lane` checks both without
  local echoes; by section 9 both fail in this interleaving only (`Raced`).
* `ExpiredOnlyPastDeadline` with `MaxLeases = 2`: a renewed lease moves the
  deadline column but not the record's own deadline, which `run_once` checks, so
  the operation is expired under a running lease.

## 4. EventIntake: event queues, the cursor and the catch-up

One account. Zulip is a log of events; an event's id is its position in the log,
and a message's id is the position of its event. A queue holds what is logged
after its registration, until Zulip loses it.

### State

| Variable | Code |
|---|---|
| `cursor` | the row of `zulip_event_cursors`; `realm` stands for the verified realm and owner, `scanned` for `private_catalog_scanned_generation` |
| `recorded`, `processed` | rows of `zulip_provider_events`, and those the journal worker has finished |
| `mapped`, `removed` | undeleted message mappings; messages whose deletion was sent to Workspace |
| `job`, `turn` | `zulip_queue_catchup_jobs`: state, boundary, anchor, seen ids, pages; their order by `updated_at` |
| `known`, `ready` | chats that are in the catalog and assigned; chats whose participants are synchronised |
| `captured`, `scope` | up to which message history capture covers a chat; the account generation of the history scope |
| `poll`, `work` | the poll thread and the history worker between two steps |
| `log`, `born`, `dead` | Zulip: its log, where each queue begins, the queues it has lost |
| `lossAt`, `budget` | bookkeeping: the log when the latest loss was noticed, and what is left of the bounds |

### Actions

The poll thread follows `_poll_provider_account` from `ReadCursor` to `PollEnds`,
with one step per transaction or HTTP call: the queue is registered, stored
without its realm and then stored with it; the catalog is scanned and reported;
events are fetched, recorded one by one, and the cursor is moved after each.
`QueueRejected` and `BeginProviderQueueCatchup` are the bad_event_queue_id path,
after which the same poll registers a replacement. The history worker follows
`_run_provider_queue_catchup`: take the oldest pending job, fetch a page, check
the participants, enqueue its messages newest first, compare the mappings with
what was seen once the boundary is reached, delete what is missing, and advance
the job. The journal worker, the participant synchronisation, the change of an
account and the rebuilding of the history scope are one step each. `Crash` loses
both threads' local state and nothing else.

### Abstractions

* Message and delete events only. Heartbeats are not recorded, and the other
  event types change neither the cursor protocol nor the mappings.
* The journal worker finishes an event in one step and in the order of the chat;
  retries and the outbox behind it belong to the next module.
* Every chat in the catalog is assigned at once. History capture is the single
  number `captured`: what existed when the chat was assigned, or when the scope
  of a new account generation was built, is left to it.
* A page is the `PageSize` newest messages before the anchor, and the anchor
  itself if it is a message, as Zulip answers `num_before`.
* Messages of a page are enqueued one transaction each; the code uses chunks.
* One account, so the choice between accounts in `run_provider_catchup_once` and
  the backoff of a failed account are left out.

### Runs that pass

| Run | Instance | States | Shows |
|---|---|---|---|
| `ei_loss` | a known and an unknown chat, log of 3, pages of one message, 1 loss | 583 k | `LossRecovered`, `SeenIsKept`, `CatalogComplete` |
| `ei_ends` | one chat, log of 2, 1 page per job, 1 loss; with a deletion and a fault, or a crash and an account change, or an own send; fair | 565 k | `TypeOK`, `RecordedBeforeCursor`, `RecoveryEnds` |

Pages of one message make every boundary of a page a boundary between messages;
up to two lost messages and two pages give a job that completes on its first page
and one that completes on its second, and with one page per job `ei_ends` also
reaches the limit. `LossRecovered` is stated over
`Accounted`: a message is mapped, or in the journal, or ahead of a live queue,
or within reach of a pending job, or left to history or to an operator. It counts
a pending job as covering everything below its anchor, so it fails only in states
from which nothing finds the message any more.

`RecoveryEnds` assumes weak fairness of the poll thread, the history worker, the
journal worker, each chat's participant synchronisation and the scope rebuild:
each is a loop that `poll_provider_events` or the background lanes call again
after it has ended, with or without an error. Nothing is assumed of Zulip, of the
control plane, or of faults and crashes. Deadlock is checked in these runs: the
poll thread must always have a next step.

### Traces

By the property and the constants that produce them:

* false delete, `NoFalseDelete` with one known chat, `PageSize = 2` and `Budgets <-
  JustLoss`: a message that arrived through the replacement queue while the job was
  between pages was on no page and is deleted in Workspace (`service.py:2621`).
* no rescan, `CatalogComplete` in `ei_loss` with `Budgets <- LossAndRestart`: a
  restart, or a failed scan, after the replacement queue is stored leaves the
  catalog marked as scanned (`service.py:1072`), where `service.py:1095` says "A
  restart before this point repeats the scan instead of trusting an expired
  guard."
* own send, `LossRecovered` in `ei_loss` with one own send: the boundary is the
  newest mapped message when the loss is noticed. A message the bridge sent itself
  is mapped at once and may lie above unread messages of the dead queue.
* second loss, `LossRecovered` with two losses: `advance_provider_catchup` is
  not tied to the recovery it belongs to. A page of the first recovery moves the
  anchor of the second one.
* first page, `LossRecovered` for a known chat with `Seeded <- NoChat`: an
  assigned chat without any mapped message has no boundary, so its recovery ends
  with the newest page.
* early page, `NoGap` with `PageSize = 2`: the jobs are visible before the
  replacement queue is registered. What is posted between the last page and the
  registration is lost.
* new depth, `NoGap` with `NewChats = {c}` and one account change: an account change
  drops a working cursor without a catch-up; chats of depth `new` are not captured
  again.

* late second loss, `SeenIsKept` with one known chat, `PageSize = 1`, a log of 3 and
  two losses, 34 steps: the second loss is noticed while the worker has compared
  the mappings with the pages of the first recovery (`FindDeleted`) and has not
  deleted yet; a message that came through the first replacement queue existed
  when the second loss was noticed and is deleted all the same.

Section 9 proves what these traces leave: a mapping is lost only with its message or
by a comparison with pages that are all older than the message, the pages of a
recovery have no hole, and only the interrupted scan leaves a chat out. No theorem
says when `LossRecovered` holds with several losses or own sends; the run is what there
is. `CatalogComplete` is stated chat by chat: a scan that is still to be stored
(`ScanToCome`) counts for the chats it has listed, also when other chats have appeared
since.

## 5. Delivery: from the journal to Workspace

The journal worker takes events by lane (a chat; an event without a chat is a
barrier for the account), converts them to records and stores the records in the
outbox. The delivery thread submits them in batches. The control thread changes
assignments and sweeps what became stale, and a recovery runs at start.

### State and actions

`event` and `prepared` are `zulip_provider_events`; `row`, `queue`, `idem` and
`position` the outbox with its idempotency and lane tables; `mapping` and `topic`
`provider_mappings`; `account` and `assignment` `desired_resources`; `group`,
`flush`, `control` and `boot` the threads between two steps; `applied` and `bad`
what Workspace has applied and what it refuses.

* journal: `Record`, `SelectRound`, then per lane `NextRow`, `IgnoreInactive`,
  `RefreshLane`, `AssignmentPending`, `ConvertFails`, `Convert`, and the storing of
  the records as `Bind` and `Insert`, because `enqueue_workspace_delivery` reads
  the generations without a lock, or `RollBack` and `AssignmentChanged`;
* delivery: `SelectBatch`, `MarkSubmitting`, `SendApplied`, `SendLost`,
  `SendBisected`, `SendRejected`, `Accept`, `Finish`;
* control: `ChangeAssignment`, `ChangeAccount`, `ControlSweep`, `ReportAccepted`;
* `Crash`, and the three recovery steps of a start.

Dropped: delays, bodies, events other than message, update and delete, and read flags
of several messages at once, which lose the refused ones of them only. Workspace
applies each operation once and may refuse the records of `Rejectable` for good.

### The promise

`DeliveryPromise` knows neither lanes, batches nor generations: Workspace gets a
log of records, each once, after the records it refers to and in the order of the
events of its message; every event ends once, as applied only with its change in
the log, as void only without it. `KeepsPromise` is the refinement, with `applied`
for the log and `Outcome` for the ends of the events.

### Runs

| Run | Instance | States | Shows |
|---|---|---|---|
| `dl_order` | two messages, one flagged, edited and deleted, refusals, 1 crash, 1 fault, fair | 49 k | `TypeOK`, `KeepsPromise`, `DeliveryEnds` |
| `dl_change` | a message and its edit; a change with a crash and a fault, a change of assignment and account with a fault, or two changes | 593 k | `CreatedOnce`, `NothingForgotten`, `DeliveredIsShown` |
| `dl_lost` | a message and an edit, one move | violation | `UnsubmittedIsReplayed` |

Batches of two are the least that can be bisected, lane batches of two are the
code's own. Two changes and no failure, or one with a failure, bound `dl_change`:
with two changes and a lost answer the code breaks `CreatedOnce` and
`NothingForgotten` in the two ways given under Traces; section 9 proves that nothing
but these two statements discards what was applied, whatever the bounds.
`DeliveryEnds` assumes weak fairness of the round, of each lane group, of the
delivery thread, the sweep, the report and the recovery: each is a loop that starts
again whatever ended its last round. Crashes and lost answers are finite. Both runs
may stop when all events have ended.

`dl_lost` finds that a message is given up when its chat moves between conversion
and storing: the transaction that would have written `prepared_records` is rolled
back, so the recovery sees no create to replay.

### Traces

* `DeliveryEnds` with an account change: `reset_stale_workspace_deliveries`
  (`storage.py:6063`) looks at the assignment only, selection and submission
  (`storage.py:5494`, `6575`) also at the account generation; a row bound to the
  old one is neither sent nor swept.
* `KeepsPromise` with two changes: an edit bound to the new generation overtakes
  its create, bound to the old one and not swept yet.
* `CreatedOnce` in `dl_change` with `Budgets <- TwoChangesAndFailure` and the message
  flagged: the create is submitted when the chat changes for the first time; the sweep
  rebinds it, removes the read record beside it, and the event is converted again.
  Meanwhile the chat moves, so the second transaction finds its target gone; the
  answer of the submission is lost, and the create is pending again, with an attempt
  counted. `finalize_provider_event_assignment_changed` (`storage.py:6504`) deletes
  every pending row of the event without a look at `submission_attempts`, which
  `reset_stale_workspace_deliveries` (`storage.py:6130`) does look at, and the message
  is created a second time in the new project.
* `NothingForgotten` with two changes and two lost answers: an edit or a topic that
  was applied is pending again, the record it needs is stored a second time in front
  of it and refused, and `_quarantine_rejected_workspace_delivery_dependents`
  (`storage.py:6825`) passes the refusal on to it; the next sweep removes it.
* a change of the stream within a project keeps the prepared records of the old
  stream; and a binding that reads the old assignment commits after the sweep and
  leaves a stale row until the next change.
* with more refusals: a rejection in one half of a bisected batch followed by the
  lost answer of the other skips the pass over dependents, and a create whose topic
  was refused is sent; an edit converted before its create is rejected and stored
  after is sent without it; a crash after a conversion leaves a pending mapping,
  and an edit follows although the event itself ends invalid.

## 6. History: capture, names and publication

Two accounts see one scope. Their captures fill shared batches, a directory pass
rewrites user names in them, a publisher imports finished batches, and a reporter
tells the accounts of what failed.

### State and actions

`desired` and `enabled` are the desired state with the event cursors, `config`,
`revision` and `scope` the history configuration, `job`, `batch` and `report` the
tables of the same names, `worker`, `pass`, `pub` and `cache` the threads' local
state, `people`, `import` and `told` the outside. A range stands for 5000 message
ids; of a batch its observers and the version of the names are kept, since these
are what merging, rebuilding and importing may get wrong.

* control: `Change` (seven kinds), `reconcile_backfill_jobs`, `Reap`;
* capture: `ClaimRange`, `ReadPrior`, `save_history_batch` with its fences,
  `WriteTimesOut`, `defer_history_capture_write`, `CaptureFails`;
* names: `Rename`, `RecordRename`, `PrepareQuantum`, `ApplyQuantum`,
  `QuantumTimesOut`;
* publication: `claim`, `CheckClaim`, `Post`, `Poll`, `HandleAnswer`, `FlushReport`;
* `Register`, `ReplaceQueue`, the lapse of either lease, `Crash`.

Left out: several scopes, the limit of sources per batch, file transfer, the
admission cooldown and health rows. Delays are dropped.

### Run

`hs_history`, 261 k states: two accounts, two ranges, two capture threads, two
attempts instead of eight, and nine scenarios (`Troubles`): each kind of change
alone or with a failure, a rename with so many failures that the pass gives up,
failures until a capture gives up, a restart with a failure over two ranges, a
first connection. Two ranges are the least with a checkpoint between them, two
accounts the least that share a batch, two threads the least that race for a job.
It shows that checkpoints are backed by batches, published batches are what
Workspace was given, posted ones whole, names current after a pass, failures
reported, and (`HistoryEnds`) that everything comes to rest. Fairness: every loop
runs again, leases nobody renews run out, and the admission of a batch, which the
publisher only looks at between other batches, is strongly fair.

### Traces

* `OnlySourcesObserve` with `Scenarios <- JoinsAndLeaves`, 12 steps: an account
  that was deselected before the rebuild is still an observer in a posted batch;
  `src/docs/history_batches.md:157` says "Disabled accounts contribute no
  observations."
* `FailureIsReported` with `Scenarios <- JoinsAndDrops`, 11 steps: a batch failed for
  good, a second account is selected, and before the next reconciliation `flush_once`
  retires the report, since the fingerprint differs; then the account loses its event
  queue. The sources are again those of the scope, so the reconciliation changes
  nothing, and the failed batch has no report any more. Section 9 proves that only a
  step that turns changed sources back before the next reconciliation can lose it.
* found by reading, outside the model: `invalidate_history_users`
  (`service.py:64`) is never called, so names cached for an account that joins
  after a pass may be old; `release_backfill_job` is not tied to a lease; and
  `apply_desired_changes` deletes event cursors without invalidating the
  directory.

## 7. Enrollment: the mTLS identity

The identity is eight files, each replaced atomically. A TLS key is a number, and
whatever is made for it (request, certificate, issuance, credential key) has the
same number; the validations compare exactly these. Every read and write of a file
is a step, and the process may stop between any two. Actions follow
`enrollment.py`: `RecoverPendingRenewal` to `DropPersisted`, `Enroll` to
`SaveEnrollment`, `Due` to `SaveIssuance`, then `ReloadTls` and `Build`. The main
thread checks every hour, the heartbeat thread renews when the backend says so,
and no lock lies between them.

`en_renew` (7 k states): a forced renewal with the hourly check running beside it,
or two steps of age, each with two crashes. Two crashes are enough to interrupt a
recovery that follows an interruption. `IdentityServes` assumes that threads run
and that a network call that is repeated for ever succeeds at some time; it
excludes a certificate that has expired, for which the code has no way back, and
the state that `en_restart` finds: a crash between the unlinks that end a renewal
leaves an issuance without its request, which every later start refuses.

Traces: with a forced renewal and one by age at the same time (`Budgets` with a
migration and an age), `IdentityIsKept` fails in 34 steps: the threads' writes of
the next key and the next request mix, and a certificate is installed whose key is
lost; section 9 proves that it takes two overlapping renewals, and that no start
makes it worse. A crash in `enroll` between certificate and bundle leaves the
bootstrap CA.

Left out: failing disk writes, durability of an unlink after a power loss, and the
contents of requests (HMAC, CSR).

## 8. ControlPlane: desired state, reports, participants, breaker

The backend keeps a log of changes of one account and one channel. The main thread
polls it into the tables, in batches of any length or by a snapshot whose pages it
fetches first; compares subscribers with the assignment; and sends reports. The
live thread reports a topic that a message needs. A report that is applied comes
back as a new assignment. Other threads call Zulip, and record for the generation
of their request what they met.

### State and actions

`log`, `floor`, `good` and `zulip` are the outside, `db` the tables (a record whose
fields name them), `topology` the merged catalog, `outbox` the reports in the order
(generation, `observed_at`) that the queries use, with a place for a report that is
stamped and not yet inserted; `main`, `live` and `call` the threads.

* poll: `FetchChanges`, `ApplyBatch`, `ClearBlockedBatch`, `ApplySnapshot`;
* reports: `FlushReports`, `ApplyResult`, `LoseAnswer`, `CoolDown`;
* participants: `ReconcileParticipants`, `ClaimParticipants`, then
  `FetchParticipants`, `MergeParticipants`, `StampParticipants`,
  `ReportParticipants`, `CompleteParticipants`; `ReapParticipants`,
  `InvalidateParticipants`;
* message: `TakeMessage`, `MergeTopic`, `StampTopic`, `ReportTopic`,
  `ConvertMessage`;
* breaker: `CallZulip`, `RecordCall`;
* around: reconnects, resets, revoked credentials, withdrawn topics, changes this
  image does not know, expired cursors, subscriber changes, messages, crashes.

The backend (external) refuses reports of an older account generation or older
than one it took, and lists an account before its assignments in a snapshot.
Left out: deletions, policies, direct chats, account status reports with their
in-memory caches, the poll thread's own catalog reports (a third producer on the
same path), and a snapshot that contains a resource this image does not know,
which raises.

### Run

`cp_loop`, 195 k states, with twelve combinations of what may happen (`Troubles`),
one of each thing: reconnect with a message, a revocation or a fault; reset with a
subscriber change or an expired cursor; an unknown change; a rejected report, a
lost answer, a withdrawal or a crash with a message; and the like. One user, one
topic and one caller suffice: a report is wrong by what it lacks, and the channel
starts with a subscriber the assignment does not have, so both producers report in
every run. `LoopSettles` is liveness: the tasks of the main loop come up again
(strong fairness, since the thread is shared), what has begun goes on, time passes,
and the backend drops a cursor that stays blocked. Nothing is assumed of crashes,
losses, faults and rejections but that they are finite.

### Traces

* `HeadIsKept` with `Budgets <- Reconnection`, 14 steps: an account change drops
  the event cursor; a message taken before the queue is registered again finds no
  account identity (`service.py:1985`), and the `ValueError` marks it invalid.
  `service.py:3388` says "Keep the durable journal head intact until reconnecting
  advances the account generation and opens the breaker."
* a snapshot that listed an assignment before an account with a newer reset would
  wipe the mappings it has just made; a report that was merged earlier and stamped
  later hides a topic while its message stays marked, until the participants are
  checked again, which `LoopSettles` relies on.

## 9. Proofs

The theorems hold for any values of the constants that satisfy the named
assumption of the module (`ConstantsAssumption`, `IntakeAssumption` and so on),
which say no more than what kind of thing a constant is and that bounds are
numbers; TLC evaluates them in every run. Every theorem is about `Spec` as it stands,
with no hypothesis on what happens. Where the code breaks a property in a case that
the sections above show, the theorem states what holds in every behaviour, with that
case as a disjunct that names the state or the step, so that the theorem also says
that there is no other case. TLC checked every inductive invariant below before it was
proved.

### OperationQueue

* `OperationQueueTypes!TypeCorrect`: `Spec => []TypeOK`. Types alone are not
  inductive: the threads' local variables must name an operation whenever their
  program counter says they work on one (`ThreadsOK`), and the answer must suit
  the program counter. One lemma per group of actions.
* `OperationQueueProofs!CopiesBounded`: `Spec => []CopiesArePaidFor`. A create has been
  sent once, plus its counted resends (at most `MaxAutoResends`), plus at most once
  for each failed call where Zulip may answer with an error what it has applied
  (`ErrorsLeft` is what is left of these; without them this is `BoundedCopies`). The
  strengthening `CopiesInv` says that a row that may still be sent, because it is
  absent or pending, running without evidence, claimed, or answered with a retryable
  error, has sent no more than that, and that evidence is stored before the call. That
  is what makes `ReapedState` safe after a crash at any point. Most actions are shown
  to be `Quiet` (they neither send nor requeue), and the others are treated one by one.
* `OperationQueueProofs!RetryNeverBlind`: `Spec => RetriedOnAnswerOnly`. A create that
  may have reached Zulip becomes pending by `Retry`, the answer to its own call, or by
  `ScheduleSingleResend`, and by no other step.
* `OperationQueueProofs!SuccessIsReal`, `AcknowledgedIsKnown`: `Spec =>
  []ReportedSuccessIsReal` and `Spec => []AcknowledgedMeansKnown`, local echoes
  included. A success passes through many hands before the backend has it, so
  `OutcomeInv` says of each of them (a thread's answer, the row, the idempotency
  row, the result, the backend) that it has seen an applied copy (`RealOK`), and of
  an acknowledgement on its way that the backend has the outcome already
  (`KnownOK`). Both need that a row somebody works on is not pruned (`RowOK`).
* `OperationQueueProofs!TerminalIsNotCalled`: `Spec => []CallAfterTerminalIsRaced`;
  `OutcomesHaveResults`: `Spec => []OutcomeHasResultOrRaced`. Both have local echoes.
  The live thread alone finishes rows and its row is open until it does, except for a
  create that is `Raced` (`ClosedOK`): it is applied, its automatic resend is used up,
  and its commit is recorded in the idempotency row and the lane. Before the echo is
  completed the invariant has to know that an echo in the thread's hands is of an
  applied send, so the row it finds pending can only be that resend.
* `OperationQueueProofs!LanesInOrder`, `LaneNeverBroken`: `LaneOrder` and
  `NextInLaneExists` are invariant. `LaneInv` (positions are distinct, lie below
  the counter and are terminal up to the lane's head) and `ChainInv` (positions
  have no gap, each names its predecessor, the rows beyond the head exist) are
  preserved by completion, enqueueing and claiming; every other action is `Still`.

### EventIntake

* `EventIntakeProofs!CursorNeverAhead`: `Spec => []RecordedBeforeCursor`. The
  row alone is not inductive, because the poll thread writes its own copy of the
  cursor back after other threads have changed or dropped the row. `IntakeInv`
  adds that the copy has passed recorded events only (`Passed`), that a thread
  past the registration has a queue, and that between the two transactions of an
  event the next one is recorded as well. `UpdateRow` treats the upsert once for
  all steps that use it; the steps of the other threads leave all of this alone
  except for the account change, which drops the row, and the crash.
* `EventIntakeTypes`: `Spec => []TypeOK`, with the reason why it holds (`TypeInv`):
  everything that rows and threads name is an event of the log, the log only grows,
  and every chat has its turn, also after `MovedLast`.
* `SeenMessagesAreKept`: `Spec => UnmappedForCause`. A mapping goes when the message is
  deleted in Zulip, or when the comparison of a job with its pages meets a message that
  is newer than all they showed (`NewerThanShown`): it arrived after the first page, or
  the row started over within a page. `RecoveryInv` carries, besides the types, what a
  page shows and what its row remembers (`NoHole`), and that what is about to be
  deleted is deleted in Zulip or newer than all that was shown (`OnlyDeleted`); it needs no assumption on when a loss is noticed, because it
  speaks of the row's own pages.
* `ShownMessagesAreMapped`: `Spec => []ShownIsMapped`. Every message that exists and lies
  between two messages a job remembers is mapped: no page is skipped, half stored or
  deleted again by another page's comparison.
* `CatalogIsCompleted`: `Spec => CatalogKeptUpToDate`. `CatalogComplete` holds at first,
  and from a state in which it holds only `ScanInterrupted` leads to one in which it
  does not: a crash or a failed call in the scan repeated for a lost queue, while the
  row says that this account generation is scanned. `CatalogInv` says that the thread's
  copy of the cursor is the row unless the control thread has dropped it or the queue
  is being replaced (`SameRow`), that a scan which is not part of a recovery is owed by
  the row itself (`ScanOwed`), and that the list read by the scan covers the thread's
  own position until it is stored (`Listed`). TLC checked the statement with two
  losses, a crash, an account change and a fault (2.9 million states).

### Enrollment

* `EnrollmentTypes`: `Spec => []TypeOK`.
* `IdentityKept`: `Spec => KeptUntilOverlap`. `InOrder` says what the order of the
  writes achieves: an issuance on disk can be recovered or is installed already
  (`Persisted`), a new request is made only when none is on disk, key first
  (`Created`), what is installed and then dropped is what is on disk (`Installed`),
  and an issuance on disk has a thread that will load it into the clients, unless
  the process was stopped (`Reported`). It holds at first, it implies `IdentityIsKept`
  and `ClientsAreCurrent`, and every step keeps it except one of `Overlapping` renewals:
  a thread creates one while the other creates, reads, installs or drops one
  (`~NoOverlap`, before or after the step). Nothing in the code forbids that, and
  section 7 has what follows.
* `UnforcedIdentityKept`: `Spec => [](wanted = 1 => IdentityIsKept /\ ClientsAreCurrent)`.
  Until the backend asks for a renewal the heartbeat thread makes none, so the renewals
  by age of the main thread never lose the identity, whatever `Budgets` are.
* `StartsKeepTheIdentity`: `Spec => StartsKeepIdentity`. Recovery and enrollment before
  `Build` keep an identity that is there, also in states that overlapping renewals have
  left behind.

### ControlPlane

`ControlInv` is one invariant for six theorems: generations grow along the log
(`GrowingLog`), the tables agree among themselves at every change of a batch
(`Sound`), they hold what the log says at the cursor, and a poll in progress ends at
or after it (`Polled`), a report that a thread has stamped has its place in the
outbox (`Placed`), a list of participants that can still make them ready is new
enough (`ListsAreCurrent`), and every refusal names the generation of its request
(`Refused`).

* `TablesFollowTheLog`: `DesiredIsLog`. A batch is applied by folding over its
  changes, so the proof is an induction over the length of the batch. The
  library's induction theorems cannot be used by the installed provers, but the
  set form (`NumberLemmas!Induction`: a set that has 0 and is closed under
  successor has every number) can, and `NumberLemmas!Recursion` gives the equations
  of a recursive function from it.
* `ResetsAreDoneOnce`: `ResetOnce`; a batch or snapshot repeats a reset only if the
  cursor went back, which `Polled` excludes.
* `MappingsAreAssigned` (`NoStaleMapping`), `ReadyListsAreCurrent`
  (`ParticipantsAreCurrent`), `QuarantineIsOfTheGeneration` (`Quarantine`),
  `ControlPlaneTypes` (`TypeOK`).

### Delivery

* `DeliveryInvariant`: `Spec => []DeliveryInv`, from which `DeliveryTypes` (`TypeOK`)
  and `DeliveredShown` (`DeliveredIsShown`) follow. That an
  event is processed only with its change in Workspace is not inductive: `processed`
  is set when no unsent row of the event is left, so one has to know that the row of
  its main record went by being applied. `Delivered` says so of an event in delivery:
  its main record is in the outbox or applied. That rests on
  - `Truthful`: a committed outcome or a sent row was applied, a rejected outcome has
    a rejected row, what is submitted counts an attempt, no refused record is applied;
  - `InFlush`: what the delivery thread has in its stack or is accepting has a row
    that is submitting, cancelled or sent, or is refused;
  - `InGroups`: no event is in two lane groups, and one being stored is still pending
    with the records that were prepared for it, which is why the sweep and a group
    never work on the same event;
  - `InProjects`: prepared records contain the main record, in one project, and a
    project is one that the assignment had;
  - `Settled`: a cancelled row belongs to an event that cannot be recovered.
* `OutboxRemembers`: `Spec => AppliedIsRemembered`. `Remembered` says that a record has a
  row that is submitting, ambiguous, sent, cancelled, or pending with an attempt. A
  record is remembered when Workspace applies it, and a step that forgets it is one of
  two (`Discards`): the DELETE of `finalize_provider_event_assignment_changed` and the
  update of dependents in `_quarantine_rejected_workspace_delivery_dependents`, when
  they meet a pending row that was submitted before. They do not look at
  `submission_attempts`; two traces in section 5 show them doing it. The sweep, the
  journal, the delivery thread and the recovery never forget one.
* `CreateIsNotDoubled`: `Spec => []OneCreateAtATime`. A create that is still in the outbox
  is the one that was prepared last, so a repeated conversion does not put a second
  one beside it. Together with `OutboxRemembers`: a message is created in two projects
  only if one of the two statements has discarded its first create.

`LEMMA RowStep` lists everything that can happen to a row; most steps above are read
off it.

### History

`Consistent` is one invariant for all six theorems, and `AlwaysConsistent` says `Spec
=> []Consistent`. Four kinds of actors write the same three tables in transactions of
their own, and each works for a while on what it has read, so almost every part
relates a thread's copy to the rows it will write to:

- `InGenerations`, `InSources`, `Held`: the configuration's generation bounds that of
  every scope, report and copy; the scope's sources, one per account, are never newer
  than the desired state; what the pass and the publisher hold is complete;
- `InJobs`, `InClaims`, `IsCaptured`: a job of a source has the source's depth and is
  not cancelled while its generation lasts; a claim that still holds its lease is on
  the range where the job stands; and each range that a checkpoint has passed is
  stored with the account among its observers. Save and checkpoint are one transaction,
  but the body that is merged was read in an earlier one;
- `InPass`, `IsPassed`, `InNames`: a quantum of the directory pass was read from the
  scope it will be written to; batches the pass has been at are unpublished while it
  goes on, and have names no older than the last invalidation; and a capture whose
  users are older carries a directory position that sends it back;
- `InBatches`, `InPublisher`, `IsWhole`: a receipt names what the batch holds, the
  publisher's envelope is the row while its generation lasts, and an envelope has the
  observations of every source that reaches the range;
- `IsTold`: the cursor of a report passes only accounts that were told.

The step is proved by kinds: `StepKinds` classifies every action by what it does to
the tables (`Wishing`, `Renewing`, `Reconciling`, `Capturing`, `Directing`,
`Publishing`, `Flushing`, `Crashing`, `Resting`), and each part of the invariant has one lemma
over the kinds, in which most of them leave it alone. TLC checked `Consistent` on
`Troubles` completely and on other scenarios (two changes, a rename and a fault
together) up to depth 22 before it was proved.

* `HistoryTypes` (`TypeOK`), `CheckpointsHold` (`CheckpointIsCaptured`),
  `PublicationHolds` (`PublishedIsCurrent`), `PostsAreWhole` (`PostedIsWhole`),
  `NamesHold` (`NamesAreApplied`): invariants for any
  number of accounts, ranges, threads, changes, renames, crashes and faults.
* `FailuresAreReported`: `Spec => ReportIsKept`. `IsReported` (a failed batch of the
  current configuration has its report, with the generation of the scope) holds at
  first and implies `FailureIsReported`; rebuilds, restamps, other reports and
  `flush_once` keep it, and the only step that may end it is `SourcesTurnedBack`: the
  sources, which had changed, are those of the scope again before a reconciliation has
  seen the change. Section 6 has the trace; the reconciliation is a transaction of a
  later tick, so the code allows it.

`NullAssumption` says that SQL NULL is neither a number nor a row.

### Only model-checked

The liveness properties `LeaseIsAnswered`, `RecoveryEnds`, `DeliveryEnds`,
`HistoryEnds`, `IdentityServes` and `LoopSettles`: liveness under fairness is
outside the prover. The refinement `KeepsPromise`, which holds without changes of the
assignment only (section 5). `BoundedCopies`, `NoBlindRetry`, `NoCallAfterTerminal`,
`OutcomeHasResult`, `SeenIsKept`, `LossRecovered`, `CatalogComplete`, `CreatedOnce`,
`NothingForgotten` and `FailureIsReported`, which hold in their runs and not in every
behaviour of the code: the theorems above bound how they can fail, all but
`LossRecovered`, of which they cover the pages only.

## 10. Not modelled

M: the supervision of threads; the fairness conditions stand for it. N: pure data
conversion and single HTTP calls; the modules have what they need of it, the
classification of answers and which records an event yields. O: start-up code
without protocol state. What each modelled part leaves out is listed in its
section. Two limits of the intake are not stated as properties: edits and
deletions of messages below the catch-up boundary are not recovered by design, and
a poll thread keeps the credentials of the account generation it was started with.
Two hazards need more than one account or the account status reports, and have no
property: `run_provider_catchup_once()` returns after the first account that is not
ready, which the others then wait for (`service.py:2660`), and the cache of reported
readiness is cleared after the transaction that applies a change, so that a report
cached in between suppresses the next one (`service.py:621`).
