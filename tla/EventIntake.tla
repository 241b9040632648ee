---------------------------- MODULE EventIntake ----------------------------
(***************************************************************************)
(* How the events of one Zulip account reach the bridge: registration of   *)
(* the event queue, the durable cursor, the journal, and the catch-up that *)
(* recovers what a lost queue held.                                        *)
(*                                                                         *)
(* Actors.  The account's poll thread (_poll_provider_account), the        *)
(* history worker (run_provider_catchup_once, one thread), the journal     *)
(* worker, the participant synchronisation and the control thread.  Each   *)
(* database transaction and each HTTP call is one step.                    *)
(*                                                                         *)
(* Zulip is a log of message and delete events; an event's id is its       *)
(* position and a message's id the position of its event.  A queue holds   *)
(* what was logged after its registration, until it is lost.               *)
(***************************************************************************)
EXTENDS Naturals, Sequences, FiniteSets, FiniteSetsExt

CONSTANTS
    Chats,          \* the chats of the account
    ChatOrder,      \* the chats in the order of provider_chat_key
    NewChats,       \* chats whose history_depth is 'new': no history capture
    Known,          \* chats that are assigned from the start
    Seeded,         \* the chats of the messages that history has delivered, in order
    None,           \* SQL NULL
    PageSize,       \* HISTORY_PAGE_SIZE, 100 in the code
    MaxPages,       \* MAX_QUEUE_CATCHUP_PAGES, 20 in the code
    MaxLog,         \* bound: events Zulip logs
    Budgets         \* bounds, one of them per behaviour: queues Zulip loses,
                    \* account changes of the control plane, messages deleted
                    \* in Zulip, messages the bridge itself sends, process
                    \* restarts, failed HTTP calls

Budget == [losses: Nat, changes: Nat, deletes: Nat, sends: Nat, crashes: Nat,
           faults: Nat]

ASSUME IntakeAssumption ==
    /\ IsFiniteSet(Chats)
    /\ NewChats \subseteq Chats /\ Known \subseteq Chats
    /\ Seeded \in Seq(Chats) /\ ChatOrder \in Seq(Chats)
    /\ \A c \in Chats : \E i \in 1 .. Len(ChatOrder) : ChatOrder[i] = c
    /\ \A i, k \in 1 .. Len(ChatOrder) : ChatOrder[i] = ChatOrder[k] => i = k
    /\ None \notin Nat
    /\ PageSize \in Nat \ {0} /\ MaxPages \in Nat \ {0}
    /\ MaxLog \in Nat
    /\ Budgets \subseteq Budget

VARIABLES
    \* Zulip
    log,            \* the events of the account
    born,           \* born[q]: length of the log when queue q was registered
    dead,           \* queues Zulip has lost
    \* the database
    account,        \* generation of the desired external_account
    cursor,         \* the row of zulip_event_cursors; queue 0: no row
    recorded,       \* rows <<queue, event>> of zulip_provider_events
    processed,      \* those that the journal worker has finished
    mapped,         \* messages with an undeleted provider mapping
    removed,        \* messages whose deletion was sent to Workspace
    job,            \* zulip_queue_catchup_jobs, by chat
    turn,           \* the chats by updated_at of their jobs
    ready,          \* chats whose participants are synchronised
    known,          \* chats reported to the catalog, and so assigned
    captured,       \* messages up to here are left to history capture
    scope,          \* account generation of the history scope
    \* volatile
    poll,           \* the poll thread
    work,           \* the history worker
    \* bookkeeping
    lossAt,         \* length of the log when the latest loss was noticed
    budget          \* what is left of the bounds

zulipVars == <<log, born, dead>>
journalVars == <<recorded, processed>>
messageVars == <<mapped, removed>>
jobVars == <<job, turn, ready>>
historyVars == <<captured, scope>>
vars == <<zulipVars, account, cursor, journalVars, messageVars, jobVars, known,
          historyVars, poll, work, lossAt, budget>>

Event == [type: {"message", "delete"}, chat: Chats, id: Nat]
JobStates == {"absent", "pending", "complete", "manual"}
PollSteps == {"idle", "invalid", "read", "register", "registered", "persisted",
              "scan", "catalog", "events", "polled", "deliver", "recorded", "bad"}
WorkSteps == {"idle", "limit", "fetch", "fetched", "enqueue", "compare", "delete",
              "advance"}
Job == [state: JobStates, checkpoint: Nat \cup {None}, anchor: Nat \cup {None},
        seen: SUBSET Nat, pages: Nat]
Cursor == [queue: Nat, last: Nat, realm: BOOLEAN, generation: Nat, scanned: Nat]
TypeOK ==
    /\ log \in Seq(Event)
    /\ born \in Seq(Nat)
    /\ dead \in SUBSET Nat
    /\ account \in Nat
    /\ cursor \in Cursor
    /\ recorded \in SUBSET (Nat \X Nat)
    /\ processed \subseteq recorded
    /\ mapped \in SUBSET Nat
    /\ removed \in SUBSET Nat
    /\ job \in [Chats -> Job]
    /\ turn \in Seq(Chats)
    /\ ready \in SUBSET Chats
    /\ known \in SUBSET Chats
    /\ captured \in [Chats -> Nat]
    /\ scope \in Nat
    /\ poll \in [pc: PollSteps, queue: Nat, last: Nat, scanned: Nat,
                 generation: Nat, scan: BOOLEAN, recovering: BOOLEAN,
                 catalog: SUBSET Chats, upto: Nat]
    /\ work \in [pc: WorkSteps, chat: Chats \cup {None}, job: Job,
                 page: SUBSET Nat, todo: SUBSET Nat]
    /\ lossAt \in Nat
    /\ budget \in Budget

NoCursor == [queue |-> 0, last |-> 0, realm |-> FALSE, generation |-> 0,
             scanned |-> 0]
NoJob == [state |-> "absent", checkpoint |-> None, anchor |-> None, seen |-> {},
          pages |-> 0]
PollIdle == [pc |-> "idle", queue |-> 0, last |-> 0, scanned |-> 0,
             generation |-> 0, scan |-> FALSE, recovering |-> FALSE,
             catalog |-> {}, upto |-> 0]
WorkIdle == [pc |-> "idle", chat |-> None, job |-> NoJob, page |-> {}, todo |-> {}]

(* The account has just been connected; history publication has delivered    *)
(* the messages there are.                                                   *)
SeedLog == [i \in 1 .. Len(Seeded) |->
              [type |-> "message", chat |-> Seeded[i], id |-> i]]

Init ==
    /\ log = SeedLog
    /\ born = <<>>
    /\ dead = {}
    /\ account = 1
    /\ cursor = NoCursor
    /\ recorded = {}
    /\ processed = {}
    /\ mapped = 1 .. Len(SeedLog)
    /\ removed = {}
    /\ job = [c \in Chats |-> NoJob]
    /\ turn = ChatOrder
    /\ ready = Known
    /\ known = Known
    /\ captured = [c \in Chats |-> Len(SeedLog)]
    /\ scope = 0
    /\ poll = PollIdle
    /\ work = WorkIdle
    /\ lossAt = 0
    /\ budget \in Budgets

-----------------------------------------------------------------------------
(* What Zulip holds. *)

Messages(c) == {i \in 1 .. Len(log) : log[i].type = "message" /\ log[i].chat = c}
Deleted == {log[i].id : i \in {k \in 1 .. Len(log) : log[k].type = "delete"}}
Existing(c) == Messages(c) \ Deleted

MappedOf(c) == mapped \cap Messages(c)

(* The newest messages of a set, at most n of them. *)
Newest(ids, n) == {i \in ids : Cardinality({k \in ids : k > i}) < n}

Spend(what) == budget[what] > 0 /\ budget' = [budget EXCEPT ![what] = @ - 1]

-----------------------------------------------------------------------------
(* _poll_provider_account.                                                   *)

(* update_provider_event_cursor: an upsert that keeps a verified realm and    *)
(* never moves back within a queue.  generation 0 and realm FALSE are NULL.  *)
UpdateCursor(queue, last, realm, generation) ==
    cursor' = [queue |-> queue,
               last |-> IF cursor.queue = queue /\ cursor.last > last
                        THEN cursor.last ELSE last,
               realm |-> realm \/ cursor.realm,
               generation |-> IF generation = 0 THEN cursor.generation ELSE generation,
               scanned |-> cursor.scanned]

ReadCursor ==
    /\ poll.pc = "idle"
    /\ poll' = [PollIdle EXCEPT
                  !.pc = IF cursor.queue # 0 /\ ~ cursor.realm THEN "invalid" ELSE "read",
                  !.queue = cursor.queue, !.last = cursor.last,
                  !.scanned = cursor.scanned]
    /\ UNCHANGED <<zulipVars, account, cursor, journalVars, messageVars, jobVars,
                   known, historyVars, work, lossAt, budget>>

InvalidateProviderEventCursor ==
    /\ poll.pc = "invalid"
    /\ cursor' = NoCursor
    /\ poll' = [PollIdle EXCEPT !.pc = "read"]
    /\ UNCHANGED <<zulipVars, account, journalVars, messageVars, jobVars, known,
                   historyVars, work, lossAt, budget>>

ReadAccount ==
    /\ poll.pc = "read"
    /\ LET scan == poll.queue = 0 \/ poll.scanned # account
       IN  poll' = [poll EXCEPT !.generation = account, !.scan = scan,
                                !.pc = IF poll.queue = 0 THEN "register"
                                       ELSE IF scan THEN "scan" ELSE "events"]
    /\ UNCHANGED <<zulipVars, account, cursor, journalVars, messageVars, jobVars,
                   known, historyVars, work, lossAt, budget>>

(* _register_provider_event_queue: the HTTP call, then two transactions. *)
EnsureQueue ==
    /\ poll.pc = "register"
    /\ born' = Append(born, Len(log))
    /\ poll' = [poll EXCEPT !.pc = "registered", !.queue = Len(born) + 1,
                            !.last = Len(log)]
    /\ UNCHANGED <<log, dead, account, cursor, journalVars, messageVars, jobVars,
                   known, historyVars, work, lossAt, budget>>

PersistQueue ==
    /\ poll.pc = "registered"
    /\ UpdateCursor(poll.queue, poll.last, FALSE, 0)
    /\ poll' = [poll EXCEPT !.pc = "persisted"]
    /\ UNCHANGED <<zulipVars, account, journalVars, messageVars, jobVars, known,
                   historyVars, work, lossAt, budget>>

(* Mutant: a replaced queue is not followed by another scan. *)
VerifyWithoutScan ==
    /\ poll.pc = "persisted"
    /\ UpdateCursor(poll.queue, poll.last, TRUE, poll.generation)
    /\ poll' = [poll EXCEPT !.pc = IF poll.scan THEN "scan" ELSE "events"]
    /\ UNCHANGED <<zulipVars, account, journalVars, messageVars, jobVars, known,
                   historyVars, work, lossAt, budget>>

VerifyQueue ==
    /\ poll.pc = "persisted"
    /\ UpdateCursor(poll.queue, poll.last, TRUE, poll.generation)
    /\ poll' = [poll EXCEPT !.pc = "scan"]
    /\ UNCHANGED <<zulipVars, account, journalVars, messageVars, jobVars, known,
                   historyVars, work, lossAt, budget>>

(* private_conversation_catalog, which keeps the queue alive by polling it. *)
ScanCatalog ==
    /\ poll.pc = "scan"
    /\ poll.queue \notin dead
    /\ poll' = [poll EXCEPT !.pc = "catalog", !.scan = TRUE,
                            !.catalog = {c \in Chats : Messages(c) # {}}]
    /\ UNCHANGED <<zulipVars, account, cursor, journalVars, messageVars, jobVars,
                   known, historyVars, work, lossAt, budget>>

(* The control plane assigns the chats that are reported to the catalog, and *)
(* history captures the messages a new chat has.                             *)
Assign(chats) ==
    /\ known' = known \cup chats
    /\ captured' = [c \in Chats |-> IF c \in (chats \ known) \ NewChats
                                   THEN Len(log) ELSE captured[c]]

(* The rest of scan_and_queue_private_catalog.  A cursor that the control    *)
(* thread deleted meanwhile raises ValueError, which ends the poll.          *)
QueueCatalog ==
    /\ poll.pc = "catalog"
    /\ IF cursor.queue = 0 \/ ~ cursor.realm
       THEN /\ poll' = PollIdle
            /\ UNCHANGED <<cursor, known, captured>>
       ELSE /\ IF cursor.generation = poll.generation THEN UNCHANGED cursor
               ELSE UpdateCursor(poll.queue, poll.last, TRUE, poll.generation)
            /\ Assign(poll.catalog)
            /\ poll' = [poll EXCEPT !.pc = "events"]
    /\ UNCHANGED <<zulipVars, account, journalVars, messageVars, jobVars, scope, work,
                   lossAt, budget>>

GetEvents ==
    /\ poll.pc = "events"
    /\ poll.queue \notin dead
    /\ poll' = [poll EXCEPT !.pc = "polled", !.upto = Len(log)]
    /\ UNCHANGED <<zulipVars, account, cursor, journalVars, messageVars, jobVars,
                   known, historyVars, work, lossAt, budget>>

(* Mutant: an event is acknowledged before it is recorded. *)
ScannedAndAcknowledged ==
    /\ poll.pc = "polled"
    /\ poll' = [poll EXCEPT !.pc = IF poll.last < poll.upto THEN "recorded" ELSE "deliver"]
    /\ UNCHANGED <<zulipVars, account, cursor, journalVars, messageVars, jobVars, known,
                   historyVars, work, lossAt, budget>>

MarkPrivateCatalogScanned ==
    /\ poll.pc = "polled"
    /\ cursor' = IF poll.scan /\ cursor.queue # 0
                      /\ cursor.generation = poll.generation
                 THEN [cursor EXCEPT !.scanned = poll.generation] ELSE cursor
    /\ poll' = [poll EXCEPT !.pc = "deliver"]
    /\ UNCHANGED <<zulipVars, account, journalVars, messageVars, jobVars, known,
                   historyVars, work, lossAt, budget>>

RecordProviderEvent ==
    /\ poll.pc = "deliver"
    /\ poll.last < poll.upto
    /\ recorded' = recorded \cup {<<poll.queue, poll.last + 1>>}
    /\ poll' = [poll EXCEPT !.pc = "recorded"]
    /\ UNCHANGED <<zulipVars, account, cursor, processed, messageVars, jobVars,
                   known, historyVars, work, lossAt, budget>>

AdvanceCursor ==
    /\ poll.pc = "recorded"
    /\ UpdateCursor(poll.queue, poll.last + 1, FALSE, 0)
    /\ poll' = [poll EXCEPT !.pc = "deliver", !.last = @ + 1]
    /\ UNCHANGED <<zulipVars, account, journalVars, messageVars, jobVars, known,
                   historyVars, work, lossAt, budget>>

PollEnds ==
    /\ poll.pc = "deliver"
    /\ poll.last >= poll.upto
    /\ poll' = PollIdle
    /\ UNCHANGED <<zulipVars, account, cursor, journalVars, messageVars, jobVars,
                   known, historyVars, work, lossAt, budget>>

(* bad_event_queue_id, from the scan or from the poll. *)
QueueRejected ==
    /\ poll.pc \in {"scan", "events"}
    /\ poll.queue \in dead
    /\ poll' = [poll EXCEPT !.pc = "bad"]
    /\ UNCHANGED <<zulipVars, account, cursor, journalVars, messageVars, jobVars,
                   known, historyVars, work, lossAt, budget>>

(* Any other failure of an HTTP call ends the poll. *)
PollFails ==
    /\ poll.pc \in {"register", "scan", "events"}
    /\ Spend("faults")
    /\ poll' = PollIdle
    /\ UNCHANGED <<zulipVars, account, cursor, journalVars, messageVars, jobVars,
                   known, historyVars, work, lossAt>>

(* The catch-up boundary: the newest mapped message of the chat. *)
Checkpoint(c) == IF MappedOf(c) = {} THEN None ELSE Max(MappedOf(c))

(* begin_provider_queue_catchup starts the job of every assigned chat over,  *)
(* with a new boundary, and makes their participants pending.  A second      *)
(* rejection in the same poll ends it.                                       *)
BeginProviderQueueCatchup ==
    /\ poll.pc = "bad"
    /\ job' = [c \in Chats |->
                 IF c \in known THEN [NoJob EXCEPT !.state = "pending",
                                                  !.checkpoint = Checkpoint(c)]
                 ELSE job[c]]
    /\ turn' = ChatOrder
    /\ ready' = {}
    /\ lossAt' = Len(log)
    /\ poll' = IF poll.recovering THEN PollIdle
               ELSE [poll EXCEPT !.pc = "register", !.recovering = TRUE]
    /\ UNCHANGED <<zulipVars, account, cursor, journalVars, messageVars, known,
                   historyVars, work, budget>>

-----------------------------------------------------------------------------
(* _run_provider_queue_catchup.                                              *)

(* pending_provider_catchup: the pending job that was updated first. *)
HeadJob(c) ==
    /\ job[c].state = "pending"
    /\ \E i \in 1 .. Len(turn) :
         /\ turn[i] = c
         /\ \A k \in 1 .. i - 1 : job[turn[k]].state # "pending"

TakeJob(c) ==
    /\ work.pc = "idle"
    /\ HeadJob(c)
    /\ work' = [WorkIdle EXCEPT
                  !.pc = IF job[c].pages >= MaxPages THEN "limit" ELSE "fetch",
                  !.chat = c, !.job = job[c]]
    /\ UNCHANGED <<zulipVars, account, cursor, journalVars, messageVars, jobVars,
                   known, historyVars, poll, lossAt, budget>>

(* message_history: num_before messages before the anchor, and the anchor. *)
FetchPage ==
    /\ work.pc = "fetch"
    /\ LET older == {i \in Existing(work.chat) :
                       work.job.anchor = None \/ i < work.job.anchor}
       IN  work' = [work EXCEPT !.pc = "fetched",
                                !.page = Newest(older, PageSize)
                                  \cup (Existing(work.chat) \cap {work.job.anchor})]
    /\ UNCHANGED <<zulipVars, account, cursor, journalVars, messageVars, jobVars,
                   known, historyVars, poll, lossAt, budget>>

FetchFails ==
    /\ work.pc = "fetch"
    /\ Spend("faults")
    /\ work' = WorkIdle
    /\ UNCHANGED <<zulipVars, account, cursor, journalVars, messageVars, jobVars,
                   known, historyVars, poll, lossAt>>

(* provider_chat_participants_pending leaves the job as it is. *)
CheckParticipants ==
    /\ work.pc = "fetched"
    /\ work' = IF work.page # {} /\ work.chat \notin ready THEN WorkIdle
               ELSE [work EXCEPT !.pc = "enqueue", !.todo = work.page]
    /\ UNCHANGED <<zulipVars, account, cursor, journalVars, messageVars, jobVars,
                   known, historyVars, poll, lossAt, budget>>

(* enqueue_catchup_messages: newest first, one transaction at a time. *)
EnqueueCatchupMessage ==
    /\ work.pc = "enqueue"
    /\ work.todo # {}
    /\ mapped' = mapped \cup {Max(work.todo)}
    /\ work' = [work EXCEPT !.todo = @ \ {Max(@)}]
    /\ UNCHANGED <<zulipVars, account, cursor, journalVars, removed, jobVars, known,
                   historyVars, poll, lossAt, budget>>

(* A job is complete when it has no boundary, its page reaches the boundary, *)
(* or there are no older messages.                                           *)
Complete ==
    \/ work.job.checkpoint = None
    \/ \E i \in work.page : i <= work.job.checkpoint
    \/ Cardinality(work.page) < PageSize

PageEnqueued ==
    /\ work.pc = "enqueue"
    /\ work.todo = {}
    /\ work' = [work EXCEPT !.pc = IF Complete /\ work.job.checkpoint # None
                                   THEN "compare" ELSE "advance"]
    /\ UNCHANGED <<zulipVars, account, cursor, journalVars, messageVars, jobVars,
                   known, historyVars, poll, lossAt, budget>>

(* Mutant: only the last page is compared. *)
FindUnlisted ==
    /\ work.pc = "compare"
    /\ work' = [work EXCEPT
                  !.pc = "delete",
                  !.todo = {i \in MappedOf(work.chat) : i >= work.job.checkpoint}
                             \ work.page]
    /\ UNCHANGED <<zulipVars, account, cursor, journalVars, messageVars, jobVars,
                   known, historyVars, poll, lossAt, budget>>

(* mapped_provider_messages from the boundary on, without the seen ones. *)
FindDeleted ==
    /\ work.pc = "compare"
    /\ work' = [work EXCEPT
                  !.pc = "delete",
                  !.todo = {i \in MappedOf(work.chat) : i >= work.job.checkpoint}
                             \ (work.job.seen \cup work.page)]
    /\ UNCHANGED <<zulipVars, account, cursor, journalVars, messageVars, jobVars,
                   known, historyVars, poll, lossAt, budget>>

DeleteMessage ==
    /\ work.pc = "delete"
    /\ \E i \in work.todo :
         /\ mapped' = mapped \ {i}
         /\ removed' = removed \cup {i}
         /\ work' = [work EXCEPT !.todo = @ \ {i}]
    /\ UNCHANGED <<zulipVars, account, cursor, journalVars, jobVars, known,
                   historyVars, poll, lossAt, budget>>

(* updated_at is set, which puts the chat last. *)
MovedLast(chats, c) ==
    LET i == CHOOSE k \in 1 .. Len(chats) : chats[k] = c
    IN  SubSeq(chats, 1, i - 1) \o SubSeq(chats, i + 1, Len(chats)) \o <<c>>

(* advance_provider_catchup updates the row of the chat, whatever became of  *)
(* it since the job was read.                                                *)
Advance(state, page, anchor) ==
    /\ job' = [job EXCEPT ![work.chat] =
                 IF @.state = "absent" THEN @
                 ELSE [@ EXCEPT !.state = state, !.anchor = anchor,
                                !.seen = job[work.chat].seen \cup page,
                                !.pages = job[work.chat].pages + 1]]
    /\ turn' = MovedLast(turn, work.chat)
    /\ work' = WorkIdle
    /\ UNCHANGED <<zulipVars, account, cursor, journalVars, messageVars, ready,
                   known, historyVars, poll, lossAt, budget>>

(* Mutant: the next page starts one message too far down. *)
AdvanceBeyond ==
    /\ \/ work.pc = "advance"
       \/ work.pc = "delete" /\ work.todo = {}
    /\ Advance(IF Complete THEN "complete" ELSE "pending", work.page,
               IF work.page = {} \/ Min(work.page) = 1 THEN None ELSE Min(work.page) - 2)

AdvanceProviderCatchup ==
    /\ \/ work.pc = "advance"
       \/ work.pc = "delete" /\ work.todo = {}
    /\ Advance(IF Complete THEN "complete" ELSE "pending", work.page,
               IF work.page = {} THEN None ELSE Min(work.page) - 1)

(* Mutant: the limit writes a state that nothing reads. *)
LimitFails ==
    /\ work.pc = "limit"
    /\ Advance("failed", {}, None)

(* Mutant: the limit ends the call and leaves the job pending. *)
LimitIgnored ==
    /\ work.pc = "limit"
    /\ work' = WorkIdle
    /\ UNCHANGED <<zulipVars, account, cursor, journalVars, messageVars, jobVars,
                   known, historyVars, poll, lossAt, budget>>

CatchupLimitExceeded ==
    /\ work.pc = "limit"
    /\ Advance("manual", {}, None)

-----------------------------------------------------------------------------
(* The other threads.                                                        *)

ParticipantsSynchronised(c) ==
    /\ c \in known \ ready
    /\ ready' = ready \cup {c}
    /\ UNCHANGED <<zulipVars, account, cursor, journalVars, messageVars, job, turn,
                   known, historyVars, poll, work, lossAt, budget>>

(* The journal worker takes the rows of a chat in order. *)
LaneHead(row) ==
    /\ row \in recorded \ processed
    /\ \A other \in recorded \ processed :
         log[other[2]].chat = log[row[2]].chat => row[2] <= other[2]

(* The first event of an unknown chat reports it to the catalog. *)
QueueEventCatalog(row) ==
    /\ LaneHead(row)
    /\ log[row[2]].chat \notin known
    /\ Assign({log[row[2]].chat})
    /\ UNCHANGED <<zulipVars, account, cursor, journalVars, messageVars, jobVars,
                   scope, poll, work, lossAt, budget>>

(* A live event needs the assignment of its chat, not its participants. *)
ProcessEvent(row) ==
    /\ LaneHead(row)
    /\ log[row[2]].chat \in known
    /\ LET event == log[row[2]]
       IN  IF event.type = "message"
           THEN mapped' = mapped \cup {event.id} /\ UNCHANGED removed
           ELSE /\ mapped' = mapped \ {event.id}
                /\ removed' = removed \cup ({event.id} \cap mapped)
    /\ processed' = processed \cup {row}
    /\ UNCHANGED <<zulipVars, account, cursor, recorded, jobVars, known, historyVars,
                   poll, work, lossAt, budget>>

(* apply_desired_changes of an account drops the cursor. *)
ApplyAccount ==
    /\ Spend("changes")
    /\ account' = account + 1
    /\ cursor' = NoCursor
    /\ UNCHANGED <<zulipVars, journalVars, messageVars, jobVars, known, historyVars,
                   poll, work, lossAt>>

(* reconcile: the scope of a new account generation is captured again, from  *)
(* the newest message on, except for chats of depth 'new'.                   *)
RebuildHistory ==
    /\ cursor.queue # 0 /\ cursor.realm
    /\ cursor.generation = account
    /\ scope # account
    /\ scope' = account
    /\ captured' = [c \in Chats |-> IF c \in NewChats THEN captured[c] ELSE Len(log)]
    /\ UNCHANGED <<zulipVars, account, cursor, journalVars, messageVars, jobVars,
                   known, poll, work, lossAt, budget>>

Post(c) ==
    /\ Len(log) < MaxLog
    /\ log' = Append(log, [type |-> "message", chat |-> c, id |-> Len(log) + 1])
    /\ UNCHANGED <<born, dead, account, cursor, journalVars, messageVars, jobVars,
                   known, historyVars, poll, work, lossAt, budget>>

(* A message of the bridge itself to a chat it knows, mapped when its        *)
(* operation is committed.                                                   *)
Send(c) ==
    /\ c \in known
    /\ Len(log) < MaxLog
    /\ Spend("sends")
    /\ log' = Append(log, [type |-> "message", chat |-> c, id |-> Len(log) + 1])
    /\ mapped' = mapped \cup {Len(log) + 1}
    /\ UNCHANGED <<born, dead, account, cursor, journalVars, removed, jobVars, known,
                   historyVars, poll, work, lossAt>>

DeleteInZulip(c, i) ==
    /\ Len(log) < MaxLog
    /\ i \in Existing(c)
    /\ Spend("deletes")
    /\ log' = Append(log, [type |-> "delete", chat |-> c, id |-> i])
    /\ UNCHANGED <<born, dead, account, cursor, journalVars, messageVars, jobVars,
                   known, historyVars, poll, work, lossAt>>

LoseQueue ==
    /\ born # <<>>
    /\ Len(born) \notin dead
    /\ Spend("losses")
    /\ dead' = dead \cup {Len(born)}
    /\ UNCHANGED <<log, born, account, cursor, journalVars, messageVars, jobVars,
                   known, historyVars, poll, work, lossAt>>

Crash ==
    /\ Spend("crashes")
    /\ poll' = PollIdle
    /\ work' = WorkIdle
    /\ UNCHANGED <<zulipVars, account, cursor, journalVars, messageVars, jobVars,
                   known, historyVars, lossAt>>

-----------------------------------------------------------------------------
PollStep ==
    \/ ReadCursor \/ InvalidateProviderEventCursor \/ ReadAccount \/ EnsureQueue
    \/ PersistQueue \/ VerifyQueue \/ ScanCatalog \/ QueueCatalog \/ GetEvents
    \/ MarkPrivateCatalogScanned \/ RecordProviderEvent \/ AdvanceCursor \/ PollEnds
    \/ QueueRejected \/ BeginProviderQueueCatchup

WorkStep ==
    \/ (\E c \in Chats : TakeJob(c))
    \/ FetchPage \/ CheckParticipants \/ EnqueueCatchupMessage \/ PageEnqueued
    \/ FindDeleted \/ DeleteMessage \/ AdvanceProviderCatchup
    \/ CatchupLimitExceeded

JournalStep == \E row \in recorded : QueueEventCatalog(row) \/ ProcessEvent(row)

Zulip ==
    \/ \E c \in Chats :
         Post(c) \/ Send(c) \/ (\E i \in Existing(c) : DeleteInZulip(c, i))
    \/ LoseQueue

Next ==
    \/ PollStep \/ PollFails
    \/ WorkStep \/ FetchFails
    \/ JournalStep
    \/ \E c \in Chats : ParticipantsSynchronised(c)
    \/ ApplyAccount \/ RebuildHistory
    \/ Zulip
    \/ Crash

Spec == Init /\ [][Next]_vars

(* Fairness.  Each thread is a loop that is called again whenever it has     *)
(* ended; nothing is assumed of Zulip, the control plane, faults or crashes. *)
FairSpec ==
    /\ Spec
    /\ WF_vars(PollStep) /\ WF_vars(WorkStep) /\ WF_vars(JournalStep)
    /\ \A c \in Chats : WF_vars(ParticipantsSynchronised(c))
    /\ WF_vars(RebuildHistory)

-----------------------------------------------------------------------------
(* Properties.                                                               *)

(* _poll_provider_account records an event before it moves the cursor: what  *)
(* the cursor has passed in its queue is in the journal.                     *)
RecordedBeforeCursor ==
    cursor.queue # 0 =>
        /\ cursor.queue <= Len(born)
        /\ \A e \in born[cursor.queue] + 1 .. cursor.last :
             <<cursor.queue, e>> \in recorded

(* A message has reached the bridge, or something the bridge still has to do *)
(* will find it.                                                             *)
InJournal(i) == \E row \in recorded \ processed : row[2] = i

AheadOfCursor(i) ==
    \/ /\ cursor.queue # 0 /\ cursor.realm
       /\ cursor.queue \notin dead
       /\ i > cursor.last
    \/ /\ poll.pc \in {"registered", "persisted", "scan", "catalog", "events"}
       /\ poll.queue \notin dead
       /\ i > poll.last
    \/ /\ poll.pc \in {"polled", "deliver", "recorded"}
       /\ poll.last < i /\ i <= poll.upto

LossUnnoticed == cursor.queue \in dead

LeftToCatchup(c, i) ==
    \/ job[c].state = "manual"
    \/ /\ job[c].state = "pending"
       /\ job[c].anchor = None \/ i <= job[c].anchor

LeftToHistory(c, i) ==
    \/ i <= captured[c]
    \/ c \notin NewChats /\ (scope # account \/ c \notin known)

Accounted(c, i) ==
    \/ i \in mapped
    \/ InJournal(i)
    \/ AheadOfCursor(i)
    \/ LossUnnoticed
    \/ LeftToCatchup(c, i)
    \/ LeftToHistory(c, i)

(* Messages since the account was first connected. *)
Owed(c) == {i \in Existing(c) : born # <<>> /\ i > born[1]}

(* "Queue loss is recovered by the dedicated catch-up jobs": no message that *)
(* existed when the loss was noticed is forgotten.                           *)
LossRecovered ==
    \A c \in Chats : \A i \in Owed(c) : i <= lossAt => Accounted(c, i)

(* No message at all is forgotten. *)
NoGap == \A c \in Chats : \A i \in Owed(c) : Accounted(c, i)

(* _run_provider_queue_catchup deletes in Workspace only what is deleted in  *)
(* Zulip.                                                                    *)
NoFalseDelete == removed \subseteq Deleted

(* A message that existed when the loss was noticed loses its mapping only   *)
(* if it is deleted in Zulip: _run_provider_queue_catchup does not take for  *)
(* deleted what an earlier page of the recovery has shown, however many      *)
(* pages, restarts and failed calls lie between.                             *)
SeenIsKept == [][\A i \in mapped \ mapped' : i <= lossAt => i \in Deleted]_vars

(* A chat that exists in Zulip is in the catalog, or an event of it is still *)
(* to be read, or the catalog will be scanned again.                         *)
ScanToCome(c) ==
    \/ cursor.queue = 0 \/ ~ cursor.realm
    \/ cursor.queue \in dead
    \/ cursor.scanned # account
    \/ poll.pc \in {"bad", "register", "registered", "persisted", "scan"}
    \/ poll.pc = "catalog" /\ c \in poll.catalog

CatalogComplete ==
    \A c \in Chats :
        Messages(c) # {} /\ c \notin known
            => \/ ScanToCome(c)
               \/ \E i \in Messages(c) : InJournal(i) \/ AheadOfCursor(i)

(* A recovery comes to an end: every pending job is completed, or handed to  *)
(* an operator when it exceeds its pages.                                    *)
RecoveryEnds ==
    \A c \in Chats : job[c].state = "pending" ~> job[c].state \in {"complete", "manual"}
=============================================================================
