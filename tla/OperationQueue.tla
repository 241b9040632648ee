--------------------------- MODULE OperationQueue ---------------------------
(***************************************************************************)
(* The outbound operation queue: how a Workspace operation leased from the *)
(* backend is stored, ordered in its causal lane, executed against Zulip,  *)
(* reconciled when its outcome is unknown, and reported back.              *)
(*                                                                         *)
(* Actors.  The live lane thread (BACKGROUND_LIVE_WORKERS = 1) runs the    *)
(* lease poll, reconcile_once, run_once and the result flush one after the *)
(* other; the event poll thread completes an operation from a local echo;  *)
(* the control thread changes accounts and assignments.  Each database     *)
(* transaction and each HTTP call is one step, so the process may crash,   *)
(* and the other threads may run, between any two of them.                 *)
(*                                                                         *)
(* Time is abstracted to the order of its events: a 60 s worker lease      *)
(* lapses, a backend lease expires, a send lands late.                     *)
(* Delays (available_at, reconciliation_after, backoff) are dropped: a     *)
(* step may happen as soon as its other conditions hold.                   *)
(***************************************************************************)
EXTENDS Naturals, FiniteSets

CONSTANTS
    Ops,            \* operations the backend may lease
    Lanes,          \* chats; one causal lane and one assignment each
    Entities,       \* Workspace messages the operations are about
    Lane,           \* [Ops -> Lanes]
    Kind,           \* [Ops -> Kinds]
    Entity,         \* [Ops -> Entities]
    None,           \* SQL NULL
    MaxLeases,      \* bound: leases the backend grants per operation
    MaxChanges,     \* bound: control-plane changes
    MaxCrashes,     \* bound: process restarts
    MaxFaults,      \* bound: lost backend answers and retryable Zulip errors
    LocalEchoes,    \* TRUE: Zulip delivers local echo events to the queue
    ErrorMayApply   \* TRUE: a retryable error answer may follow an applied send

Kinds == {"message.create", "message.update", "message.delete", "read_state.set"}

ASSUME ConstantsAssumption ==
    /\ Lane \in [Ops -> Lanes]
    /\ Kind \in [Ops -> Kinds]
    /\ Entity \in [Ops -> Entities]
    /\ None \notin Ops
    /\ MaxLeases \in Nat \ {0}
    /\ MaxChanges \in Nat
    /\ MaxCrashes \in Nat
    /\ MaxFaults \in Nat
    /\ LocalEchoes \in BOOLEAN
    /\ ErrorMayApply \in BOOLEAN

(* RECONCILIATION_DELAYS_SECONDS = (5, 15, 30) and MAX_AUTO_RESENDS = 1. *)
ReconciliationChecks == 3
MaxAutoResends == 1

VARIABLES
    \* bridge_operations, one function per group of columns
    state,          \* state, or "absent" when there is no row
    bound,          \* lease and digest columns, and the assignment generation
    hold,           \* lease_until: "none", "held" or "lapsed"
    attempt,        \* attempt evidence and the reconciliation counters
    result,         \* result_record, result_sent_at and the last response
    \* the other tables
    idem,           \* operation_idempotency.terminal_outcome
    seq, pred,      \* producer_operations: lane_sequence and predecessor
    counter,        \* producer_lane_counters
    lane,           \* causal_lane_state
    mapped,         \* entities with an undeleted provider mapping
    account,        \* the desired account and its scheduler_accounts row
    assignment,     \* the desired chat assignment of each lane
    \* volatile state of the process
    live,           \* the live lane thread
    echo,           \* the event poll thread
    request,        \* operation of the retained lease request UUID, or None
    \* the outside world
    zulip,          \* what the provider holds of each operation
    backend,        \* the backend's lease and recorded outcome
    budget          \* what is left of MaxChanges, MaxCrashes and MaxFaults

rowVars     == <<state, bound, hold, attempt, result>>
laneVars    == <<seq, pred, counter, lane>>
desiredVars == <<account, assignment>>
threadVars  == <<live, echo, request>>
worldVars   == <<zulip, backend, budget>>
vars == <<rowVars, idem, laneVars, mapped, desiredVars, threadVars, worldVars>>

Terminal == {"committed", "rejected", "expired", "cancelled"}
States   == {"absent", "pending", "running", "uncertain"} \cup Terminal
Answers  == {"none", "success", "ambiguous", "retryable", "permanent", "auth",
             "match", "no_match",
             "applied", "duplicate", "stale_lease", "rejected",
             "expired", "cancelled"}
PCs == {"idle", "leased", "terminal", "claimed", "attempted", "answered",
        "reconciling", "checked", "reported"}

BoundRecord == [lease: Nat, recordLease: Nat, entityId: BOOLEAN, generation: Nat]
AttemptRecord == [evidence: BOOLEAN, checks: Nat, resends: Nat]
ResultRecord == [outcome: Terminal \cup {"none", "manual"}, lease: Nat,
                 sent: BOOLEAN, stale: BOOLEAN, manual: BOOLEAN]
AccountRecord == [generation: Nat, enabled: BOOLEAN, auth: BOOLEAN]
AssignmentRecord == [generation: Nat, selected: BOOLEAN]
EchoThread == [op: Ops \cup {None}, lease: Nat]
Budget == [changes: Nat, crashes: Nat, faults: Nat]
HoldStates == {"none", "held", "lapsed"}
Outcomes == Terminal \cup {"absent", "open"}
Position == [seq: Nat, op: Ops \cup {None}]
LiveThread == [pc: PCs, op: Ops \cup {None}, answer: Answers, generation: Nat,
               lease: Nat]
ZulipRecord == [flying: Nat, copies: Nat, visible: BOOLEAN, echoes: Nat]
BackendRecord == [lease: Nat, live: BOOLEAN,
                  outcome: {"open", "succeeded", "failed", "manual"}]

TypeOK ==
    /\ state \in [Ops -> States]
    /\ bound \in [Ops -> BoundRecord]
    /\ hold \in [Ops -> HoldStates]
    /\ attempt \in [Ops -> AttemptRecord]
    /\ result \in [Ops -> ResultRecord]
    /\ idem \in [Ops -> Outcomes]
    /\ seq \in [Ops -> Nat]
    /\ pred \in [Ops -> Ops \cup {None}]
    /\ counter \in [Lanes -> Position]
    /\ lane \in [Lanes -> Position]
    /\ mapped \in SUBSET Entities
    /\ account \in AccountRecord
    /\ assignment \in [Lanes -> AssignmentRecord]
    /\ live \in LiveThread
    /\ echo \in EchoThread
    /\ request \in Ops \cup {None}
    /\ zulip \in [Ops -> ZulipRecord]
    /\ backend \in [Ops -> BackendRecord]
    /\ budget \in Budget

Idle == [pc |-> "idle", op |-> None, answer |-> "none", generation |-> 0,
         lease |-> 0]
NoEcho == [op |-> None, lease |-> 0]
Creates(e) == {o \in Ops : Entity[o] = e /\ Kind[o] = "message.create"}

Init ==
    /\ state = [o \in Ops |-> "absent"]
    /\ bound = [o \in Ops |-> [lease |-> 0, recordLease |-> 0,
                               entityId |-> FALSE, generation |-> 0]]
    /\ hold = [o \in Ops |-> "none"]
    /\ attempt = [o \in Ops |-> [evidence |-> FALSE, checks |-> 0,
                                 resends |-> 0]]
    /\ result = [o \in Ops |-> [outcome |-> "none", lease |-> 0, sent |-> FALSE,
                                stale |-> FALSE, manual |-> FALSE]]
    /\ idem = [o \in Ops |-> "absent"]
    /\ seq = [o \in Ops |-> 0]
    /\ pred = [o \in Ops |-> None]
    /\ counter = [l \in Lanes |-> [seq |-> 0, op |-> None]]
    /\ lane = [l \in Lanes |-> [seq |-> 0, op |-> None]]
    /\ mapped = {e \in Entities : Creates(e) = {}}
    /\ account = [generation |-> 1, enabled |-> TRUE, auth |-> FALSE]
    /\ assignment = [l \in Lanes |-> [generation |-> 1, selected |-> TRUE]]
    /\ live = Idle
    /\ echo = NoEcho
    /\ request = None
    /\ zulip = [o \in Ops |-> [flying |-> 0, copies |-> 0, visible |-> FALSE,
                               echoes |-> 0]]
    /\ backend = [o \in Ops |-> [lease |-> 0, live |-> FALSE, outcome |-> "open"]]
    /\ budget = [changes |-> MaxChanges, crashes |-> MaxCrashes,
                 faults |-> MaxFaults]

-----------------------------------------------------------------------------
(* Derived values. *)

IsCreate(o) == Kind[o] = "message.create"

(* The deadline column holds the bound lease's expiry, the record the expiry *)
(* of the lease it was enqueued under.                                       *)
ColumnExpired(o) == ~ (bound[o].lease = backend[o].lease /\ backend[o].live)
RecordExpired(o) == ~ (bound[o].recordLease = backend[o].lease /\ backend[o].live)

AtLaneHead(o) ==
    /\ seq[o] = lane[Lane[o]].seq + 1
    /\ pred[o] = lane[Lane[o]].op

(* leased_operation_record copies the current mapping into the operation of a *)
(* message update or delete, and operation_digest covers it.                  *)
EntityIdNow(o) ==
    Kind[o] \in {"message.update", "message.delete"} /\ Entity[o] \in mapped

AssignmentMatches(o) ==
    /\ assignment[Lane[o]].selected
    /\ assignment[Lane[o]].generation = bound[o].generation

-----------------------------------------------------------------------------
(* Backend: poll_provider_operations.                                        *)

(* The backend leases an operation whose outcome is open and that no live    *)
(* lease covers, or repeats its answer to a retained request UUID.  The UUID *)
(* is retained until the whole answer has been processed.                    *)
Leasable(o) ==
    /\ backend[o].outcome = "open"
    /\ ~ backend[o].live

NextLease(lease) == IF lease < MaxLeases THEN lease + 1 ELSE lease

(* Operation results.  An outcome is recorded once, under the current lease; *)
(* "rejected" stands for the statuses conflict, not_found and rejected.  The *)
(* last lease of the bound is not rejected.                                  *)
ResultStatuses(o, lease) ==
    IF backend[o].outcome # "open" THEN {"duplicate"}
    ELSE IF lease # backend[o].lease THEN {"stale_lease"}
    ELSE {"applied"}
         \cup (IF backend[o].lease < MaxLeases THEN {"rejected"} ELSE {})
         \cup (IF backend[o].live THEN {} ELSE {"stale_lease"})

ReportOutcome(o, lease, outcome, status) ==
    /\ status \in ResultStatuses(o, lease)
    /\ backend' = [backend EXCEPT ![o] =
                     IF status = "applied"
                     THEN [@ EXCEPT !.outcome = outcome, !.live = FALSE] ELSE @]

Fault == budget.faults > 0 /\ budget' = [budget EXCEPT !.faults = @ - 1]

PollProviderOperations(o) ==
    /\ live.pc = "idle"
    /\ \/ /\ request = None
          /\ Leasable(o)
          /\ backend' = [backend EXCEPT ![o] =
                           [@ EXCEPT !.lease = NextLease(backend[o].lease), !.live = TRUE]]
       \/ /\ request = o
          /\ UNCHANGED backend
    /\ request' = o
    /\ \/ /\ live' = [Idle EXCEPT !.pc = "leased", !.op = o]
          /\ UNCHANGED budget
       \/ /\ Fault                       \* the answer is lost
          /\ UNCHANGED live
    /\ UNCHANGED <<rowVars, idem, laneVars, mapped, desiredVars, echo, zulip>>

(* The poll ends and the request UUID is dropped, unless reporting the       *)
(* rejected records of the same answer failed: then the next poll sends the  *)
(* same UUID and the whole answer is processed again.                        *)
EndPoll ==
    /\ live' = Idle
    /\ \/ request' = None /\ UNCHANGED budget
       \/ Fault /\ UNCHANGED request

(* bind_provider_lease matches the row by its UUID and digest; a stored      *)
(* result is re-armed for the renewed lease.  record.expires_at is kept.     *)
BindProviderLease(o) ==
    /\ live.pc = "leased" /\ live.op = o
    /\ state[o] # "absent"
    /\ bound[o].entityId = EntityIdNow(o)
    /\ bound' = [bound EXCEPT ![o].lease = backend[o].lease]
    /\ result' = [result EXCEPT ![o] =
                    IF @.outcome = "none" THEN @
                    ELSE [@ EXCEPT !.lease = backend[o].lease, !.sent = FALSE,
                                   !.stale = FALSE]]
    /\ EndPoll
    /\ UNCHANGED <<state, hold, attempt, idem, laneVars, mapped, desiredVars,
                   echo, zulip, backend>>

(* Mutant: the idempotency row is not consulted. *)
EnqueueAgain(o) ==
    /\ live.pc = "leased" /\ live.op = o
    /\ state[o] = "absent"
    /\ assignment[Lane[o]].selected
    /\ seq' = [seq EXCEPT ![o] = counter[Lane[o]].seq + 1]
    /\ pred' = [pred EXCEPT ![o] = counter[Lane[o]].op]
    /\ counter' = [counter EXCEPT ![Lane[o]] =
                     [seq |-> counter[Lane[o]].seq + 1, op |-> o]]
    /\ state' = [state EXCEPT ![o] = "pending"]
    /\ bound' = [bound EXCEPT ![o] =
                   [lease |-> backend[o].lease, recordLease |-> backend[o].lease,
                    entityId |-> EntityIdNow(o),
                    generation |-> assignment[Lane[o]].generation]]
    /\ EndPoll
    /\ UNCHANGED <<hold, attempt, result, idem, lane, mapped, desiredVars, echo,
                   zulip, backend>>

(* enqueue allocates the lane position and inserts the row in one            *)
(* transaction: a ValueError rolls the allocation back too.                  *)
Enqueue(o) ==
    /\ live.pc = "leased" /\ live.op = o
    /\ state[o] = "absent"
    /\ idem[o] \notin Terminal
    /\ assignment[Lane[o]].selected
    /\ seq' = [seq EXCEPT ![o] = counter[Lane[o]].seq + 1]
    /\ pred' = [pred EXCEPT ![o] = counter[Lane[o]].op]
    /\ counter' = [counter EXCEPT ![Lane[o]] =
                     [seq |-> counter[Lane[o]].seq + 1, op |-> o]]
    /\ idem' = [idem EXCEPT ![o] = "open"]
    /\ state' = [state EXCEPT ![o] = "pending"]
    /\ bound' = [bound EXCEPT ![o] =
                   [lease |-> backend[o].lease, recordLease |-> backend[o].lease,
                    entityId |-> EntityIdNow(o),
                    generation |-> assignment[Lane[o]].generation]]
    /\ EndPoll
    /\ UNCHANGED <<hold, attempt, result, lane, mapped, desiredVars, echo, zulip, backend>>

(* A pruned operation is recognised by its terminal idempotency row. *)
EnqueueKnown(o) ==
    /\ live.pc = "leased" /\ live.op = o
    /\ state[o] = "absent"
    /\ idem[o] \in Terminal
    /\ EndPoll
    /\ UNCHANGED <<rowVars, idem, laneVars, mapped, desiredVars, echo, zulip, backend>>

(* Mutant: the lane position of a refused record is not rolled back. *)
RejectKeepsPosition(o) ==
    /\ live.pc = "leased" /\ live.op = o
    /\ state[o] = "absent" /\ idem[o] \notin Terminal
    /\ ~ assignment[Lane[o]].selected
    /\ seq' = [seq EXCEPT ![o] = counter[Lane[o]].seq + 1]
    /\ counter' = [counter EXCEPT ![Lane[o]] =
                     [seq |-> counter[Lane[o]].seq + 1, op |-> o]]
    /\ EndPoll
    /\ UNCHANGED <<rowVars, idem, pred, lane, mapped, desiredVars, echo, zulip,
                   backend>>

(* A record the bridge cannot take (no selected assignment, or a row with    *)
(* another digest) is answered at once with a failed result.                 *)
RejectLease(o) ==
    /\ live.pc = "leased" /\ live.op = o
    /\ \/ /\ state[o] = "absent"
          /\ idem[o] \notin Terminal
          /\ ~ assignment[Lane[o]].selected
       \/ /\ state[o] # "absent"
          /\ bound[o].entityId # EntityIdNow(o)
    /\ \/ /\ \E status \in ResultStatuses(o, backend[o].lease) :
                ReportOutcome(o, backend[o].lease, "failed", status)
          /\ EndPoll
       \/ /\ Fault                       \* the report never arrives
          /\ live' = Idle
          /\ UNCHANGED <<backend, request>>
    /\ UNCHANGED <<rowVars, idem, laneVars, mapped, desiredVars, echo, zulip>>

-----------------------------------------------------------------------------
(* Completion, shared by run_once, reconcile_once and reconcile_local_echo.  *)

(* _persist_committed_mapping. *)
MappedAfter(o, outcome) ==
    IF outcome = "committed" /\ Kind[o] = "message.create" THEN mapped \cup {Entity[o]}
    ELSE IF outcome = "committed" /\ Kind[o] = "message.delete" THEN mapped \ {Entity[o]}
    ELSE mapped

(* complete() returns early on a terminal row; otherwise it writes the row   *)
(* only from running or uncertain, but the idempotency row, the causal lane  *)
(* and the mapping in any case.                                              *)
Complete(o, outcome, lease) ==
    IF state[o] \in Terminal
    THEN UNCHANGED <<state, hold, result, idem, lane, mapped>>
    ELSE /\ AtLaneHead(o)
         /\ IF state[o] \in {"running", "uncertain"}
            THEN /\ state' = [state EXCEPT ![o] = outcome]
                 /\ hold' = [hold EXCEPT ![o] = "none"]
                 /\ result' = [result EXCEPT ![o].outcome = outcome,
                                             ![o].lease = lease]
            ELSE UNCHANGED <<state, hold, result>>
         /\ idem' = [idem EXCEPT ![o] = outcome]
         /\ lane' = [lane EXCEPT ![Lane[o]] = [seq |-> seq[o], op |-> o]]
         /\ mapped' = MappedAfter(o, outcome)

(* "Causal lane state changed before completion": the transaction rolls back *)
(* and the exception leaves the caller.                                      *)
CompleteRaises(o) == state[o] \notin Terminal /\ ~ AtLaneHead(o)

-----------------------------------------------------------------------------
(* run_once.                                                                 *)

(* reap_expired_running opens run_once and reconcile_once.  The rows as it   *)
(* leaves them: once attempt evidence exists a lapsed row goes to            *)
(* reconciliation, never back to the ordinary retry lane.                    *)
Reapable(o) == state[o] = "running" /\ hold[o] = "lapsed"
ReapedState ==
    [o \in Ops |-> IF ~ Reapable(o) THEN state[o]
                   ELSE IF attempt[o].evidence THEN "uncertain" ELSE "pending"]
ReapedHold == [o \in Ops |-> IF Reapable(o) THEN "none" ELSE hold[o]]
ReapedAttempt ==
    [o \in Ops |-> IF Reapable(o) /\ attempt[o].evidence
                   THEN [attempt[o] EXCEPT !.checks = 0] ELSE attempt[o]]

TerminalReason(o) ==
    IF ColumnExpired(o) THEN "expired"
    ELSE IF account.auth THEN "auth" ELSE "cancelled"

Sweepable(o) ==
    /\ ReapedState[o] = "pending"
    /\ AtLaneHead(o)
    /\ ColumnExpired(o) \/ ~ AssignmentMatches(o) \/ ~ account.enabled \/ account.auth

ReapAndHold(o) ==
    /\ state' = [ReapedState EXCEPT ![o] = "running"]
    /\ hold' = [ReapedHold EXCEPT ![o] = "held"]
    /\ attempt' = ReapedAttempt

(* claim_terminal: work that can no longer call the provider safely. *)
ClaimTerminal(o) ==
    /\ live.pc = "idle"
    /\ Sweepable(o)
    /\ ReapAndHold(o)
    /\ live' = [Idle EXCEPT !.pc = "terminal", !.op = o, !.answer = TerminalReason(o)]
    /\ UNCHANGED <<bound, result, idem, laneVars, mapped, desiredVars, echo, request,
                   worldVars>>

(* Mutant: the reason of the sweep is taken for its outcome. *)
CompleteWithReason(o) ==
    /\ live.pc = "terminal" /\ live.op = o
    /\ Complete(o, live.answer, bound[o].lease)
    /\ live' = Idle
    /\ UNCHANGED <<bound, attempt, seq, pred, counter, desiredVars, echo, request,
                   worldVars>>

CompleteTerminal(o) ==
    /\ live.pc = "terminal" /\ live.op = o
    /\ Complete(o, IF live.answer = "auth" THEN "rejected" ELSE live.answer,
                bound[o].lease)
    /\ live' = Idle
    /\ UNCHANGED <<bound, attempt, seq, pred, counter, desiredVars, echo, request,
                   worldVars>>

(* Mutant: any pending operation of the lane may be claimed. *)
ClaimableOutOfOrder(o) ==
    /\ ReapedState[o] = "pending"
    /\ ~ ColumnExpired(o)
    /\ AssignmentMatches(o)
    /\ account.enabled
    /\ ~ account.auth

Claimable(o) ==
    /\ ReapedState[o] = "pending"
    /\ ~ ColumnExpired(o)
    /\ AssignmentMatches(o)
    /\ account.enabled
    /\ ~ account.auth
    /\ AtLaneHead(o)

(* claim, reached when claim_terminal found nothing. *)
Claim(o) ==
    /\ live.pc = "idle"
    /\ \A p \in Ops : ~ Sweepable(p)
    /\ Claimable(o)
    /\ ReapAndHold(o)
    /\ live' = [Idle EXCEPT !.pc = "claimed", !.op = o]
    /\ UNCHANGED <<bound, result, idem, laneVars, mapped, desiredVars, echo, request,
                   worldVars>>

(* A round that claims nothing has still reaped. *)
ReapOnly ==
    /\ live.pc = "idle"
    /\ \E o \in Ops : Reapable(o)
    /\ \A o \in Ops : ~ Sweepable(o) /\ ~ Claimable(o)
    /\ state' = ReapedState
    /\ hold' = ReapedHold
    /\ attempt' = ReapedAttempt
    /\ UNCHANGED <<bound, result, idem, laneVars, mapped, desiredVars, threadVars,
                   worldVars>>

(* The claimed record carries its own deadline. *)
ExpireClaimed(o) ==
    /\ live.pc = "claimed" /\ live.op = o
    /\ RecordExpired(o)
    /\ Complete(o, "expired", bound[o].lease)
    /\ live' = Idle
    /\ UNCHANGED <<bound, attempt, seq, pred, counter, desiredVars, echo, request,
                   worldVars>>

(* prepare() may fail (no event queue yet, actor mismatch, bad credential):   *)
(* then the answer is processed without a call of Zulip.  Otherwise the      *)
(* evidence of a create is stored before the call.                           *)
PrepareFails(o, answer) ==
    /\ live.pc = "claimed" /\ live.op = o
    /\ ~ RecordExpired(o)
    /\ IF answer = "retryable" THEN Fault ELSE UNCHANGED budget
    /\ live' = [live EXCEPT !.pc = "answered", !.answer = answer,
                            !.generation = account.generation]
    /\ UNCHANGED <<rowVars, idem, laneVars, mapped, desiredVars, echo, request,
                   zulip, backend>>

RecordProviderAttempt(o) ==
    /\ live.pc = "claimed" /\ live.op = o
    /\ ~ RecordExpired(o)
    /\ attempt' = [attempt EXCEPT ![o].evidence =
                     @ \/ (IsCreate(o) /\ state[o] = "running")]
    /\ live' = [live EXCEPT !.pc = "attempted", !.generation = account.generation]
    /\ UNCHANGED <<state, bound, hold, result, idem, laneVars, mapped, desiredVars,
                   echo, request, zulip, backend, budget>>

(* Zulip applies a send.  The copy is visible to the reconciliation search   *)
(* when its timestamp falls into the window around the first attempt, and    *)
(* its event may reach the queue as a local echo.                            *)
Landed(o, inWindow, echoed) ==
    [zulip[o] EXCEPT !.copies = @ + 1,
                     !.visible = @ \/ inWindow,
                     !.echoes = IF echoed THEN @ + 1 ELSE @]

WindowChoices(o) == IF IsCreate(o) THEN BOOLEAN ELSE {FALSE}
EchoChoices(o) == IF LocalEchoes /\ IsCreate(o) THEN BOOLEAN ELSE {FALSE}

Answer(answer) == live' = [live EXCEPT !.pc = "answered", !.answer = answer]

SendSucceeds(o) ==
    /\ \E inWindow \in WindowChoices(o), echoed \in EchoChoices(o) :
         zulip' = [zulip EXCEPT ![o] = Landed(o, inWindow, echoed)]
    /\ Answer("success")
    /\ UNCHANGED budget

(* A network error during a create is ambiguous: the request may still land. *)
SendAmbiguous(o) ==
    /\ IsCreate(o)
    /\ zulip' = [zulip EXCEPT ![o].flying = @ + 1]
    /\ Answer("ambiguous")
    /\ UNCHANGED budget

(* A retryable error: for other kinds network errors are retryable too, so   *)
(* the request may have been applied.                                        *)
SendRetryable(o) ==
    /\ Fault
    /\ \/ UNCHANGED zulip
       \/ /\ ~ IsCreate(o) \/ ErrorMayApply
          /\ zulip' = [zulip EXCEPT ![o].flying = @ + 1]
    /\ Answer("retryable")

SendRefused(o) ==
    /\ \E answer \in {"permanent", "auth"} : Answer(answer)
    /\ UNCHANGED <<zulip, budget>>

Apply(o) ==
    /\ live.pc = "attempted" /\ live.op = o
    /\ SendSucceeds(o) \/ SendAmbiguous(o) \/ SendRetryable(o) \/ SendRefused(o)
    /\ UNCHANGED <<rowVars, idem, laneVars, mapped, desiredVars, echo, request, backend>>

CompleteCommitted(o) ==
    /\ live.pc = "answered" /\ live.op = o /\ live.answer = "success"
    /\ Complete(o, "committed", bound[o].lease)
    /\ live' = Idle
    /\ UNCHANGED <<bound, attempt, seq, pred, counter, desiredVars, echo, request,
                   worldVars>>

(* Mutant: an unknown outcome is retried like a failure. *)
RetryUncertain(o) ==
    /\ live.pc = "answered" /\ live.op = o /\ live.answer = "ambiguous"
    /\ state' = [state EXCEPT ![o] = "pending"]
    /\ hold' = [hold EXCEPT ![o] = "none"]
    /\ live' = Idle
    /\ UNCHANGED <<bound, attempt, result, idem, laneVars, mapped, desiredVars, echo,
                   request, worldVars>>

MarkUncertain(o) ==
    /\ live.pc = "answered" /\ live.op = o /\ live.answer = "ambiguous"
    /\ state' = [state EXCEPT ![o] = "uncertain"]
    /\ hold' = [hold EXCEPT ![o] = "none"]
    /\ attempt' = [attempt EXCEPT ![o].checks = 0]
    /\ live' = Idle
    /\ UNCHANGED <<bound, result, idem, laneVars, mapped, desiredVars, echo, request,
                   worldVars>>

(* record_provider_account_failure counts only for the account generation    *)
(* the request used; once authentication is required, every later failure    *)
(* of that generation is an authentication failure.                          *)
FailureCounts == live.generation = account.generation /\ account.enabled
Authentication ==
    \/ live.answer = "auth"
    \/ live.answer = "retryable" /\ FailureCounts /\ account.auth
AccountFailed ==
    account' = [account EXCEPT !.auth = @ \/ (live.answer = "auth" /\ FailureCounts)]

Retry(o) ==
    /\ live.pc = "answered" /\ live.op = o
    /\ live.answer = "retryable" /\ ~ Authentication
    /\ AccountFailed
    /\ state' = [state EXCEPT ![o] = "pending"]
    /\ hold' = [hold EXCEPT ![o] = "none"]
    /\ live' = Idle
    /\ UNCHANGED <<bound, attempt, result, idem, laneVars, mapped, assignment, echo,
                   request, worldVars>>

CompleteRejected(o) ==
    /\ live.pc = "answered" /\ live.op = o
    /\ live.answer = "permanent" \/ Authentication
    /\ AccountFailed
    /\ Complete(o, "rejected", bound[o].lease)
    /\ live' = Idle
    /\ UNCHANGED <<bound, attempt, seq, pred, counter, assignment, echo, request,
                   worldVars>>

-----------------------------------------------------------------------------
(* reconcile_once.                                                           *)

(* Mutant: a lapsed reconciliation lease is never taken over. *)
ReconcilableUnleased(o) ==
    /\ ReapedState[o] = "uncertain"
    /\ ~ result[o].manual
    /\ ReapedHold[o] = "none"
    /\ ~ account.auth

Reconcilable(o) ==
    /\ ReapedState[o] = "uncertain"
    /\ ~ result[o].manual
    /\ ReapedHold[o] # "held"
    /\ ~ account.auth

ClaimUncertain(o) ==
    /\ live.pc = "idle"
    /\ Reconcilable(o)
    /\ state' = ReapedState
    /\ hold' = [ReapedHold EXCEPT ![o] = "held"]
    /\ attempt' = ReapedAttempt
    /\ live' = [Idle EXCEPT !.pc = "reconciling", !.op = o]
    /\ UNCHANGED <<bound, result, idem, laneVars, mapped, desiredVars, echo, request,
                   worldVars>>

(* reconcile_message searches the conversation for the sent content inside   *)
(* the window around the stored attempt time.                                *)
ReconcileMessage(o) ==
    /\ live.pc = "reconciling" /\ live.op = o
    /\ \E answer \in {"match", "no_match", "retryable", "permanent", "auth"} :
         /\ answer = "match" => zulip[o].visible
         /\ answer = "no_match" => ~ zulip[o].visible
         /\ IF answer = "retryable" THEN Fault ELSE UNCHANGED budget
         /\ live' = [live EXCEPT !.pc = "checked", !.answer = answer,
                                 !.generation = account.generation]
    /\ UNCHANGED <<rowVars, idem, laneVars, mapped, desiredVars, echo, request,
                   zulip, backend>>

Checked(o, answers) == live.pc = "checked" /\ live.op = o /\ live.answer \in answers

CompleteMatched(o) ==
    /\ Checked(o, {"match"})
    /\ Complete(o, "committed", bound[o].lease)
    /\ live' = Idle
    /\ UNCHANGED <<bound, attempt, seq, pred, counter, desiredVars, echo, request,
                   worldVars>>

(* The row updates of this part are conditional on state = 'uncertain'. *)
Release(o) ==
    hold' = [hold EXCEPT ![o] = IF state[o] = "uncertain" THEN "none" ELSE @]

DeferUncertain(o) ==
    /\ Checked(o, {"retryable", "auth"})
    /\ AccountFailed
    /\ Release(o)
    /\ live' = Idle
    /\ UNCHANGED <<state, bound, attempt, result, idem, laneVars, mapped, assignment,
                   echo, request, worldVars>>

ScheduleReconciliationCheck(o) ==
    /\ Checked(o, {"no_match"})
    /\ attempt[o].checks + 1 < ReconciliationChecks
    /\ attempt' = [attempt EXCEPT ![o].checks =
                     IF state[o] = "uncertain" THEN @ + 1 ELSE @]
    /\ Release(o)
    /\ live' = Idle
    /\ UNCHANGED <<state, bound, result, idem, laneVars, mapped, desiredVars, echo,
                   request, worldVars>>

(* Mutant: the resend is not counted. *)
ResendUncounted(o) ==
    /\ Checked(o, {"no_match"})
    /\ attempt[o].checks + 1 >= ReconciliationChecks
    /\ state' = [state EXCEPT ![o] = IF @ = "uncertain" THEN "pending" ELSE @]
    /\ Release(o)
    /\ live' = Idle
    /\ UNCHANGED <<bound, attempt, result, idem, laneVars, mapped, desiredVars, echo,
                   request, worldVars>>

ScheduleSingleResend(o) ==
    /\ Checked(o, {"no_match"})
    /\ attempt[o].checks + 1 >= ReconciliationChecks
    /\ attempt[o].resends < MaxAutoResends
    /\ IF state[o] = "uncertain" /\ attempt[o].resends = 0
       THEN /\ state' = [state EXCEPT ![o] = "pending"]
            /\ attempt' = [attempt EXCEPT ![o].resends = @ + 1]
       ELSE UNCHANGED <<state, attempt>>
    /\ Release(o)
    /\ live' = Idle
    /\ UNCHANGED <<bound, result, idem, laneVars, mapped, desiredVars, echo, request,
                   worldVars>>

(* Mutant: the operation is closed without a result to report. *)
ManualWithoutResult(o) ==
    /\ Checked(o, {"permanent"})
    /\ state' = [state EXCEPT ![o] = "rejected"]
    /\ idem' = [idem EXCEPT ![o] = IF @ = "open" THEN "rejected" ELSE @]
    /\ Release(o)
    /\ live' = Idle
    /\ UNCHANGED <<bound, attempt, result, laneVars, mapped, desiredVars, echo,
                   request, worldVars>>

(* The lane is not advanced. *)
RequireManualReconciliation(o) ==
    /\ \/ Checked(o, {"permanent"})
       \/ /\ Checked(o, {"no_match"})
          /\ attempt[o].checks + 1 >= ReconciliationChecks
          /\ attempt[o].resends >= MaxAutoResends
    /\ IF state[o] = "uncertain"
       THEN /\ state' = [state EXCEPT ![o] = "rejected"]
            /\ result' = [result EXCEPT ![o] =
                            [@ EXCEPT !.outcome = "manual", !.lease = bound[o].lease,
                                      !.sent = FALSE, !.manual = TRUE]]
       ELSE UNCHANGED <<state, result>>
    /\ idem' = [idem EXCEPT ![o] = IF @ = "open" THEN "rejected" ELSE @]
    /\ Release(o)
    /\ live' = Idle
    /\ UNCHANGED <<bound, attempt, laneVars, mapped, desiredVars, echo, request,
                   worldVars>>

-----------------------------------------------------------------------------
(* reconcile_local_echo, on the event poll thread: it reads the uncertain    *)
(* row in one transaction and completes it in another.                       *)

EchoRead(o) ==
    /\ echo.op = None
    /\ zulip[o].echoes > 0
    /\ state[o] = "uncertain"
    /\ echo' = [op |-> o, lease |-> bound[o].lease]
    /\ UNCHANGED <<rowVars, idem, laneVars, mapped, desiredVars, live, request,
                   worldVars>>

EchoIgnored(o) ==
    /\ echo.op = None
    /\ zulip[o].echoes > 0
    /\ state[o] # "uncertain"
    /\ zulip' = [zulip EXCEPT ![o].echoes = @ - 1]
    /\ UNCHANGED <<rowVars, idem, laneVars, mapped, desiredVars, threadVars,
                   backend, budget>>

EchoComplete(o) ==
    /\ echo.op = o
    /\ Complete(o, "committed", echo.lease)
    /\ zulip' = [zulip EXCEPT ![o].echoes = @ - 1]
    /\ echo' = NoEcho
    /\ UNCHANGED <<bound, attempt, seq, pred, counter, desiredVars, live, request, backend, budget>>

-----------------------------------------------------------------------------
(* flush_provider_results.                                                   *)

(* Mutant: a manual reconciliation is reported as a success. *)
ManualIsSuccess(outcome) ==
    IF outcome \in {"committed", "manual"} THEN "succeeded" ELSE "failed"

BackendOutcome(outcome) ==
    CASE outcome = "committed" -> "succeeded"
      [] outcome = "manual"    -> "manual"
      [] OTHER                 -> "failed"

FlushProviderResults(o) ==
    /\ live.pc = "idle"
    /\ result[o].outcome # "none"
    /\ ~ result[o].sent
    /\ \E status \in ResultStatuses(o, result[o].lease) :
         /\ ReportOutcome(o, result[o].lease, BackendOutcome(result[o].outcome), status)
         /\ \/ /\ live' = [Idle EXCEPT !.pc = "reported", !.op = o, !.answer = status,
                                       !.lease = result[o].lease]
               /\ UNCHANGED budget
            \/ /\ Fault                 \* the answer is lost
               /\ UNCHANGED live
    /\ UNCHANGED <<rowVars, idem, laneVars, mapped, desiredVars, echo, request, zulip>>

(* Mutant: a stale lease is taken for an acknowledgement. *)
FinalizeStale(o) ==
    /\ live.pc = "reported" /\ live.op = o
    /\ result' = [result EXCEPT ![o] =
                    [@ EXCEPT !.sent = TRUE, !.stale = FALSE,
                              !.manual = result[o].manual
                                              \/ live.answer = "rejected"]]
    /\ live' = Idle
    /\ UNCHANGED <<state, bound, hold, attempt, idem, laneVars, mapped, desiredVars,
                   echo, request, worldVars>>

FinalizeProviderResult(o) ==
    /\ live.pc = "reported" /\ live.op = o
    /\ result' = [result EXCEPT ![o] =
                    IF @.lease # live.lease THEN @
                    ELSE [@ EXCEPT !.sent = TRUE,
                                   !.stale = live.answer = "stale_lease",
                                   !.manual = result[o].manual
                                              \/ live.answer = "rejected"]]
    /\ live' = Idle
    /\ UNCHANGED <<state, bound, hold, attempt, idem, laneVars, mapped, desiredVars,
                   echo, request, worldVars>>

(* prune_terminal_delivery_state deletes delivered read-state operations and *)
(* keeps their idempotency row (the other columns of an absent row are dead). *)
PruneOperation(o) ==
    /\ Kind[o] = "read_state.set"
    /\ state[o] = "committed"
    /\ idem[o] \in Terminal
    /\ result[o].sent /\ ~ result[o].manual /\ ~ result[o].stale
    /\ state' = [state EXCEPT ![o] = "absent"]
    /\ UNCHANGED <<bound, hold, attempt, result, idem, laneVars, mapped, desiredVars,
                   threadVars, worldVars>>

-----------------------------------------------------------------------------
(* The control plane, time, and failures.                                    *)

ApplyAssignment(l) ==
    /\ budget.changes > 0
    /\ \E selected \in BOOLEAN :
         assignment' = [assignment EXCEPT ![l] =
                          [generation |-> @.generation + 1, selected |-> selected]]
    /\ budget' = [budget EXCEPT !.changes = @ - 1]
    /\ UNCHANGED <<rowVars, idem, laneVars, mapped, account, threadVars, zulip, backend>>

(* A new account generation clears a required authentication. *)
ApplyAccount ==
    /\ budget.changes > 0
    /\ \E enabled \in BOOLEAN :
         account' = [generation |-> account.generation + 1, enabled |-> enabled,
                     auth |-> FALSE]
    /\ budget' = [budget EXCEPT !.changes = @ - 1]
    /\ UNCHANGED <<rowVars, idem, laneVars, mapped, assignment, threadVars, zulip, backend>>

(* Nobody reads the lease of the operation the live thread is working on. *)
HoldLapses(o) ==
    /\ hold[o] = "held"
    /\ live.op # o
    /\ hold' = [hold EXCEPT ![o] = "lapsed"]
    /\ UNCHANGED <<state, bound, attempt, result, idem, laneVars, mapped, desiredVars,
                   threadVars, worldVars>>

(* The last lease of the bound expires only when the process has lost it in *)
(* a crash: nothing then tells it from the lease that replaces it.           *)
LeaseExpires(o) ==
    /\ backend[o].live
    /\ \/ backend[o].lease < MaxLeases
       \/ bound[o].lease # backend[o].lease /\ live.op # o /\ request # o
    /\ backend' = [backend EXCEPT ![o].live = FALSE]
    /\ UNCHANGED <<rowVars, idem, laneVars, mapped, desiredVars, threadVars, zulip, budget>>

Land(o) ==
    /\ zulip[o].flying > 0
    /\ \E inWindow \in WindowChoices(o), echoed \in EchoChoices(o) :
         zulip' = [zulip EXCEPT ![o] =
                     [Landed(o, inWindow, echoed) EXCEPT
                        !.flying = zulip[o].flying - 1]]
    /\ UNCHANGED <<rowVars, idem, laneVars, mapped, desiredVars, threadVars,
                   backend, budget>>

Restart ==
    /\ live' = Idle
    /\ echo' = NoEcho
    /\ request' = None
    /\ UNCHANGED <<rowVars, idem, laneVars, mapped, desiredVars, zulip,
                   backend>>

Crash ==
    /\ budget.crashes > 0
    /\ budget' = [budget EXCEPT !.crashes = @ - 1]
    /\ Restart

(* An exception of a completion ends its thread, and tick() then ends the    *)
(* process.                                                                  *)
LiveCompletes(o) ==
    /\ live.op = o
    /\ \/ live.pc = "terminal"
       \/ live.pc = "claimed" /\ RecordExpired(o)
       \/ live.pc = "answered" /\ (live.answer \in {"success", "permanent"}
                                   \/ Authentication)
       \/ Checked(o, {"match"})

CompletionRaises(o) ==
    /\ LiveCompletes(o) \/ echo.op = o
    /\ CompleteRaises(o)
    /\ UNCHANGED budget
    /\ Restart

-----------------------------------------------------------------------------
LivePoll(o) ==
    \/ PollProviderOperations(o) \/ BindProviderLease(o) \/ Enqueue(o)
    \/ EnqueueKnown(o) \/ RejectLease(o)

LiveRun(o) ==
    \/ ClaimTerminal(o) \/ CompleteTerminal(o) \/ Claim(o) \/ ExpireClaimed(o)
    \/ (\E answer \in {"retryable", "permanent", "auth"} : PrepareFails(o, answer))
    \/ RecordProviderAttempt(o) \/ Apply(o) \/ CompleteCommitted(o)
    \/ MarkUncertain(o) \/ Retry(o) \/ CompleteRejected(o)

LiveReconcile(o) ==
    \/ ClaimUncertain(o) \/ ReconcileMessage(o) \/ CompleteMatched(o)
    \/ DeferUncertain(o) \/ ScheduleReconciliationCheck(o)
    \/ ScheduleSingleResend(o) \/ RequireManualReconciliation(o)

LiveFlush(o) == FlushProviderResults(o) \/ FinalizeProviderResult(o)

Echo(o) == EchoRead(o) \/ EchoIgnored(o) \/ EchoComplete(o)

World(o) == HoldLapses(o) \/ LeaseExpires(o) \/ Land(o)

Next ==
    \/ \E o \in Ops :
         \/ LivePoll(o) \/ LiveRun(o) \/ LiveReconcile(o) \/ LiveFlush(o)
         \/ Echo(o) \/ PruneOperation(o) \/ World(o) \/ CompletionRaises(o)
    \/ ReapOnly
    \/ \E l \in Lanes : ApplyAssignment(l)
    \/ ApplyAccount
    \/ Crash

Spec == Init /\ [][Next]_vars

(* Fairness.  The live loop calls its four handlers in turn, forever: a      *)
(* handler that finds work again and again takes some of it.  One that has   *)
(* begun goes on to its end, and clocks advance.  Nothing is assumed of      *)
(* Zulip, the control plane, the event poll or the crashes.                  *)
LiveContinues ==
    /\ live.pc # "idle"
    /\ \E o \in Ops : LivePoll(o) \/ LiveRun(o) \/ LiveReconcile(o) \/ LiveFlush(o)
                      \/ CompletionRaises(o)

LiveTurn ==
    /\ SF_vars(\E o \in Ops : PollProviderOperations(o))
    /\ SF_vars(\E o \in Ops : ClaimUncertain(o))
    /\ SF_vars((\E o \in Ops : ClaimTerminal(o) \/ Claim(o)) \/ ReapOnly)
    /\ SF_vars(\E o \in Ops : FlushProviderResults(o))

ClocksAdvance == WF_vars(\E o \in Ops : HoldLapses(o) \/ LeaseExpires(o))

FairSpec == Spec /\ WF_vars(LiveContinues) /\ LiveTurn /\ ClocksAdvance

-----------------------------------------------------------------------------
(* Properties.                                                               *)

SentCopies(o) == zulip[o].copies + zulip[o].flying

Earlier(p, o) == Lane[p] = Lane[o] /\ 0 < seq[p] /\ seq[p] < seq[o]

(* claim() dispatches a lane strictly in order: while an operation is being  *)
(* executed, every operation allocated before it in its lane has reached a   *)
(* terminal outcome.                                                         *)
LaneOrder ==
    \A o, p \in Ops :
        live.pc \in {"claimed", "attempted"} /\ live.op = o /\ Earlier(p, o)
            => idem[p] \in Terminal

(* However the process crashes and whatever answers are lost, Zulip is asked *)
(* to create a message at most once, plus the single automatic resend.       *)
BoundedCopies ==
    \A o \in Ops : IsCreate(o) =>
        /\ SentCopies(o) <= 1 + attempt[o].resends
        /\ attempt[o].resends <= MaxAutoResends

(* reap_expired_running: once a create may have reached Zulip, it goes back  *)
(* to the ordinary queue only as the single resend of schedule_single_resend. *)
NoBlindRetry ==
    \A o \in Ops : IsCreate(o) /\ SentCopies(o) > 0 /\ state[o] = "pending"
        => attempt[o].resends = MaxAutoResends

(* A success reported to the backend is one that Zulip applied, however the  *)
(* outcome was found out (answer, search match or local echo).               *)
ReportedSuccessIsReal ==
    \A o \in Ops : backend[o].outcome = "succeeded" => zulip[o].copies > 0

(* enqueue allocates a lane position only together with the row: the next    *)
(* position of a lane always has a row that can be claimed there.            *)
NextInLaneExists ==
    \A l \in Lanes : lane[l].seq < counter[l].seq =>
        \E o \in Ops : /\ Lane[o] = l /\ seq[o] = lane[l].seq + 1
                        /\ pred[o] = lane[l].op
                        /\ state[o] # "absent"

(* A result is given up only when the backend has an outcome: an             *)
(* acknowledged result that is neither stale nor manual, and a pruned row,   *)
(* belong to an operation the backend will not lease again.                  *)
AcknowledgedMeansKnown ==
    \A o \in Ops :
        \/ result[o].sent /\ ~ result[o].stale /\ ~ result[o].manual
        \/ state[o] = "absent" /\ idem[o] \in Terminal
        => backend[o].outcome # "open"

(* The durable idempotency row guards the provider call: no call is made for *)
(* an operation whose terminal outcome is already recorded.                  *)
NoCallAfterTerminal ==
    live.pc = "attempted" => idem[live.op] = "open"

(* The terminal outcome in operation_idempotency and the row agree, so that  *)
(* every recorded outcome also has a result to report.                       *)
OutcomeHasResult ==
    \A o \in Ops : idem[o] \in Terminal /\ state[o] # "absent"
        => result[o].outcome # "none"

(* An operation is given up as expired only when the deadline of the lease   *)
(* it is bound to has passed.                                                *)
ExpiredOnlyPastDeadline ==
    [][\A o \in Ops : state[o] # "expired" /\ state'[o] = "expired"
           => ColumnExpired(o)]_vars

(* The backend is never told that a committed operation has failed. *)
ReportedFailureIsReal ==
    \A o \in Ops : backend[o].outcome = "failed" => idem[o] # "committed"

(* What can hold back an operation for good: an earlier operation of the     *)
(* lane (or itself) that waits for a manual reconciliation, or an uncertain  *)
(* one while the account is disabled or has no valid credential.             *)
HeldBack(o) ==
    \E p \in Ops :
        /\ p = o \/ Earlier(p, o)
        /\ \/ result[p].manual
           \/ state[p] = "uncertain" /\ (account.auth \/ ~ account.enabled)

(* Every leased operation is eventually answered, unless it is held back. *)
LeaseIsAnswered ==
    \A o \in Ops : backend[o].lease > 0 ~> backend[o].outcome # "open" \/ HeldBack(o)

(* Every leased operation whose own outcome needs no operator is eventually  *)
(* answered, whatever became of the operations before it.                    *)
LaterLeaseIsAnswered ==
    \A o \in Ops : backend[o].lease > 0 ~>
        \/ backend[o].outcome # "open"
        \/ result[o].manual
        \/ account.auth
=============================================================================
