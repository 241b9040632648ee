------------------------------ MODULE Delivery ------------------------------
(***************************************************************************)
(* How a recorded Zulip event becomes a change in Workspace: the journal   *)
(* worker converts it to records, the outbox holds them, the delivery      *)
(* thread submits them in batches, and the control thread sweeps what an   *)
(* assignment change made stale.                                           *)
(*                                                                         *)
(* Actors.  One journal round at a time, its lane groups in parallel       *)
(* (process_provider_journal); one delivery thread under the HTTP mutex    *)
(* (_flush_provider_events_locked); the control thread                     *)
(* (synchronize_control); the recovery at start.  Each transaction and     *)
(* each HTTP call is one step; the transaction that stores an event's      *)
(* records is two, because it reads the generations without a lock.        *)
(*                                                                         *)
(* One account.  Events are numbered in journal order; a message event     *)
(* yields a topic, a message and, with flags, a read record.  Delays       *)
(* (available_at, backoff) are dropped; the Workspace backend is external. *)
(***************************************************************************)
EXTENDS Naturals, Sequences, FiniteSets, SequencesExt, Selection

CONSTANTS
    Chats, Messages,
    Chat,           \* [Messages -> Chats]
    EventCount,     \* events that Zulip sends
    Type,           \* [Events -> {"message", "update", "delete"}]
    Message,        \* [Events -> Messages]
    Flagged,        \* message events that carry flags
    Rejectable,     \* records <<event, part>> the backend may refuse for good
    None,           \* SQL NULL
    LaneBatch,      \* PROVIDER_JOURNAL_LANE_BATCH_SIZE, 2 in the code
    BatchSize,      \* LIVE_DELIVERY_BATCH_SIZE, 20 in the code
    ChangeKinds,    \* the control-plane changes that may happen
    MaxChanges,     \* bound: changes of assignments
    Budgets         \* bounds: how many changes of assignments and of the
                    \* account, restarts and failed calls go together

Events == 1 .. EventCount
Parts == {"topic", "message", "read"}
Scopes == 0 .. MaxChanges + 1

(* operation_uuid: a live message event scopes it by the project, an update *)
(* or a delete by the message alone (scope 0).                              *)
Ops ==
    {o \in Events \X Parts \X Scopes :
        IF Type[o[1]] = "message" THEN o[3] > 0 /\ (o[2] = "read" => o[1] \in Flagged)
                                  ELSE o[3] = 0 /\ o[2] = "message"}
Changes == {"touch", "stream", "move", "deselect", "delete", "select",
            "account", "disable", "enable"}

ASSUME DeliveryAssumption ==
    /\ EventCount \in Nat \ {0}
    /\ Chat \in [Messages -> Chats]
    /\ Type \in [Events -> {"message", "update", "delete"}]
    /\ Message \in [Events -> Messages]
    /\ Flagged \subseteq {e \in Events : Type[e] = "message"}
    /\ Rejectable \subseteq Events \X Parts
    /\ None \notin Chats
    /\ LaneBatch \in Nat \ {0} /\ BatchSize \in Nat \ {0}
    /\ ChangeKinds \subseteq Changes
    /\ MaxChanges \in Nat
    /\ Budgets \subseteq [changes: 0 .. MaxChanges, accounts: Nat, crashes: Nat, faults: Nat]

VARIABLES
    \* the database
    event,          \* zulip_provider_events: state, reason and causal lane
    prepared,       \* prepared_records: operations and target, none: NULL
    row,            \* workspace_delivery_outbox, by operation
    queue,          \* the unsent rows by created_at
    idem,           \* operation_idempotency
    position,       \* producer_operations: lane_sequence, 0: no row
    mapping,        \* provider_mappings of the messages
    topic,          \* delivery state of each chat's topic mapping
    report,         \* the chat's catalog report: "no", "queued", "done"
    account,        \* the desired account
    assignment,     \* the desired assignment of each chat
    \* the threads
    group,          \* lane groups of the journal round
    flush,          \* the delivery thread
    control,        \* "idle", or "applied": the sweep is still to come
    boot,           \* the recovery step to come, or "up"
    \* Workspace
    applied,        \* the operations it has applied, in order
    bad,            \* the records it refuses
    budget

journalVars == <<event, prepared>>
outboxVars == <<row, queue, idem, position>>
mappingVars == <<mapping, topic>>
desiredVars == <<account, assignment>>
workspaceVars == <<applied, bad>>
vars == <<journalVars, outboxVars, mappingVars, report, desiredVars, group, flush,
          control, boot, workspaceVars, budget>>

EventStates == {"absent", "pending", "delivering", "processed", "invalid", "ignored"}
Reasons == {"none", "assignment_changed", "rejected", "ambiguous", "error", "empty"}
RowStates == {"absent", "pending", "submitting", "ambiguous", "rejected",
              "cancelled", "sent"}
EventRow == [state: EventStates, reason: Reasons, lane: Chats \cup {None}]
Prepared == [ops: SUBSET Ops, project: Nat, stream: Nat]
Row == [state: RowStates, tried: BOOLEAN, account: Nat, assignment: Nat,
        project: Nat, stream: Nat, seen: SUBSET Ops]
Mapping == [state: {"absent", "pending", "committed", "deleted"},
            project: Nat, stream: Nat]
Assignment == [state: {"selected", "unselected", "deleted"}, generation: Nat,
               project: Nat, stream: Nat]
Group == [pc: {"idle", "take", "bind", "insert", "changed"}, todo: Seq(Events),
          new: Prepared, account: Nat, assignment: Nat]
Flush == [pc: {"idle", "mark", "send", "accept", "finish"}, todo: Seq(Ops),
          stack: Seq(Seq(Ops)), marked: SUBSET Ops]

TypeOK ==
    /\ event \in [Events -> EventRow]
    /\ prepared \in [Events -> Prepared]
    /\ row \in [Ops -> Row]
    /\ queue \in Seq(Ops)
    /\ idem \in [Ops -> {"absent", "open", "committed", "rejected"}]
    /\ position \in [Ops -> Nat]
    /\ mapping \in [Messages -> Mapping]
    /\ topic \in [Chats -> {"pending", "committed"}]
    /\ report \in [Chats -> {"no", "queued", "done"}]
    /\ account \in [generation: Nat, enabled: BOOLEAN]
    /\ assignment \in [Chats -> Assignment]
    /\ group \in [Chats \cup {None} -> Group]
    /\ flush \in Flush
    /\ control \in {"idle", "applied"}
    /\ boot \in {"ambiguous", "sweep", "finalize", "up"}
    /\ applied \in Seq(Ops)
    /\ bad \subseteq Rejectable
    /\ budget \in [changes: Nat, accounts: Nat, crashes: Nat, faults: Nat]

NoPrepared == [ops |-> {}, project |-> 0, stream |-> 0]
NoRow == [state |-> "absent", tried |-> FALSE, account |-> 0, assignment |-> 0,
          project |-> 0, stream |-> 0, seen |-> {}]
GroupIdle == [pc |-> "idle", todo |-> <<>>, new |-> NoPrepared, account |-> 0,
              assignment |-> 0]
FlushIdle == [pc |-> "idle", todo |-> <<>>, stack |-> <<>>, marked |-> {}]

Init ==
    /\ event = [e \in Events |-> [state |-> "absent", reason |-> "none", lane |-> None]]
    /\ prepared = [e \in Events |-> NoPrepared]
    /\ row = [o \in Ops |-> NoRow]
    /\ queue = <<>>
    /\ idem = [o \in Ops |-> "absent"]
    /\ position = [o \in Ops |-> 0]
    /\ mapping = [m \in Messages |-> [state |-> "absent", project |-> 0, stream |-> 0]]
    /\ topic = [c \in Chats |-> "pending"]
    /\ report = [c \in Chats |-> "no"]
    /\ account = [generation |-> 1, enabled |-> TRUE]
    /\ assignment = [c \in Chats |-> [state |-> "selected", generation |-> 1,
                                      project |-> 1, stream |-> 1]]
    /\ group = [c \in Chats \cup {None} |-> GroupIdle]
    /\ flush = FlushIdle
    /\ control = "idle"
    /\ boot = "up"
    /\ applied = <<>>
    /\ bad \in SUBSET Rejectable
    /\ budget \in Budgets

-----------------------------------------------------------------------------
(* Operations *)

EventOf(o) == o[1]
MessageOf(o) == Message[EventOf(o)]
ChatOf(o) == Chat[MessageOf(o)]

Kind(o) ==
    CASE o[2] = "topic" -> "topic.upsert"
      [] o[2] = "read" -> "read_state.set"
      [] o[2] = "message" /\ Type[EventOf(o)] = "message" -> "message.create"
      [] o[2] = "message" /\ Type[EventOf(o)] = "update" -> "message.update"
      [] o[2] = "message" /\ Type[EventOf(o)] = "delete" -> "message.delete"

RowsOf(e) == {o \in Ops : EventOf(o) = e /\ row[o].state # "absent"}
Active(e) == event[e].state \in {"pending", "delivering"}
Mapped(m) == mapping[m].state \in {"pending", "committed"}
Unsent(o) == row[o].state \in {"pending", "submitting", "ambiguous"}

(* The assignment that the row is bound to is still the desired one. *)
AssignmentCurrent(o) ==
    LET a == assignment[ChatOf(o)]
    IN  /\ a.state = "selected"
        /\ a.generation = row[o].assignment
        /\ a.project = row[o].project

AccountCurrent(o) == account.generation = row[o].account

-----------------------------------------------------------------------------
(* The journal: lanes, selection and conversion *)

(* Messages and channel updates name their chat; a delete names only the    *)
(* message, and without its mapping it is a barrier for the whole account.  *)
LaneFor(e) ==
    IF Type[e] = "delete" /\ ~Mapped(Message[e]) THEN None ELSE Chat[Message[e]]

(* The poll thread records the next event. *)
Record(e) ==
    /\ boot = "up"
    /\ event[e].state = "absent"
    /\ \A d \in 1 .. e - 1 : event[d].state # "absent"
    /\ event' = [event EXCEPT ![e].state = "pending", ![e].lane = LaneFor(e)]
    /\ UNCHANGED <<prepared, outboxVars, mappingVars, report, desiredVars, group,
                   flush, control, boot, workspaceVars, budget>>

OlderBarrier(e) == \E d \in 1 .. e - 1 : event[d].lane = None /\ Active(d)

(* The first unfinished row of lane l may be taken: it is pending, and no    *)
(* older barrier (for a barrier, no older row at all) is unfinished.         *)
LaneHead(l) ==
    {e \in Events :
        /\ event[e].lane = l
        /\ event[e].state = "pending"
        /\ \A d \in 1 .. e - 1 : event[d].lane = l => ~Active(d)
        /\ IF l = None THEN \A d \in 1 .. e - 1 : ~Active(d) ELSE ~OlderBarrier(e)}

(* pending_provider_event_lane_batch: the pending rows that follow the head. *)
LaneRows(l) ==
    {e \in Events :
        /\ \E h \in LaneHead(l) : h <= e
        /\ event[e].lane = l
        /\ event[e].state = "pending"
        /\ ~OlderBarrier(e)
        /\ \A d \in Events : event[d].lane = l => event[d].state # "delivering"}

LaneSelection(l) ==
    LET rows == IF l = None \/ LaneRows(l) = {} THEN LaneHead(l) ELSE LaneRows(l)
        sorted == Selected([e \in Events |-> e], rows)
    IN  SubSeq(sorted, 1, IF Len(sorted) < LaneBatch THEN Len(sorted) ELSE LaneBatch)

SelectRound ==
    /\ boot = "up"
    /\ \A l \in Chats \cup {None} : group[l].pc = "idle"
    /\ \E l \in Chats \cup {None} : LaneSelection(l) # <<>>
    /\ group' = [l \in Chats \cup {None} |->
                    IF LaneSelection(l) = <<>> THEN GroupIdle
                    ELSE [GroupIdle EXCEPT !.pc = "take", !.todo = LaneSelection(l)]]
    /\ UNCHANGED <<journalVars, outboxVars, mappingVars, report, desiredVars, flush,
                   control, boot, workspaceVars, budget>>

(* _process_provider_journal_lane_group: the next row follows only one that  *)
(* was processed; a row left for later ends the group.                       *)
NextRow(l) ==
    IF Len(group[l].todo) > 1
    THEN [GroupIdle EXCEPT !.pc = "take", !.todo = Tail(group[l].todo)]
    ELSE GroupIdle

Processed(l) == group' = [group EXCEPT ![l] = NextRow(l)]
LeftForLater(l) == group' = [group EXCEPT ![l] = GroupIdle]

Taking(l, e) == boot = "up" /\ group[l].pc = "take" /\ e = Head(group[l].todo)

(* ignore_provider_event_for_inactive_account. *)
IgnoreInactive(l, e) ==
    /\ Taking(l, e)
    /\ ~account.enabled
    /\ event' = [event EXCEPT ![e].state = IF Active(e) THEN "ignored" ELSE @]
    /\ prepared' = [prepared EXCEPT ![e] = IF Active(e) THEN NoPrepared ELSE @]
    /\ row' = [o \in Ops |->
                 IF o \in RowsOf(e) /\ Active(e) /\ Unsent(o)
                 THEN [row[o] EXCEPT !.state = "cancelled"] ELSE row[o]]
    /\ queue' = Without(queue, {o \in Ops : row'[o].state = "cancelled"})
    /\ IF Active(e) THEN Processed(l) ELSE LeftForLater(l)
    /\ UNCHANGED <<idem, position, mappingVars, report, desiredVars, flush, control,
                   boot, workspaceVars, budget>>

(* An update or delete whose message was mapped since it was selected moves  *)
(* to the lane of the message and waits for its turn there.                  *)
RefreshLane(l, e) ==
    event' = [event EXCEPT ![e].lane = IF event[e].state = "pending" THEN LaneFor(e) ELSE @]

LaneChanged(l, e) ==
    /\ Taking(l, e)
    /\ account.enabled
    /\ LaneFor(e) # l
    /\ RefreshLane(l, e)
    /\ LeftForLater(l)
    /\ UNCHANGED <<prepared, outboxVars, mappingVars, report, desiredVars, flush,
                   control, boot, workspaceVars, budget>>

(* provider_chat_assignment: without an assignment the event is retried,     *)
(* with an unselected one it yields no records.  A conversion that already   *)
(* mapped the message is replayed with the target it chose then.             *)
Replay(e) == Type[e] = "message" /\ Mapped(Message[e])
NeedsAssignment(e) == Type[e] = "message" /\ ~Mapped(Message[e])

(* _queue_event_catalog: the first message reports its chat to the catalog. *)
Reported(e) ==
    report' = [report EXCEPT ![Chat[Message[e]]] =
                 IF Type[e] = "message" /\ @ = "no" THEN "queued" ELSE @]

AssignmentPending(l, e) ==
    /\ Taking(l, e)
    /\ account.enabled
    /\ NeedsAssignment(e)
    /\ assignment[Chat[Message[e]]].state = "deleted"
    /\ Reported(e)
    /\ LeftForLater(l)
    /\ UNCHANGED <<journalVars, outboxVars, mappingVars, desiredVars, flush,
                   control, boot, workspaceVars, budget>>

(* A provider error during the conversion: retried, or invalid for good. *)
ConvertFails(l, e) ==
    /\ Taking(l, e)
    /\ account.enabled
    /\ LaneFor(e) = l
    /\ budget.faults > 0
    /\ budget' = [budget EXCEPT !.faults = @ - 1]
    /\ \/ LeftForLater(l) /\ UNCHANGED event
       \/ Processed(l) /\ event' = [event EXCEPT ![e].state = "invalid", ![e].reason = "error"]
    /\ UNCHANGED <<prepared, outboxVars, mappingVars, report, desiredVars, flush,
                   control, boot, workspaceVars>>

(* message_event_records: the topic until it is committed, the message, and  *)
(* the read flag.                                                            *)
MessageRecords(e, project, stream) ==
    [ops |-> {<<e, "message", project>>}
             \cup (IF Replay(e) \/ topic[Chat[Message[e]]] # "committed"
                   THEN {<<e, "topic", project>>} ELSE {})
             \cup (IF e \in Flagged THEN {<<e, "read", project>>} ELSE {}),
     project |-> project, stream |-> stream]

(* pending_provider_message_context: a delete of the message is on its way. *)
DeletePending(m) == \E o \in Ops : Kind(o) = "message.delete" /\ MessageOf(o) = m /\ Unsent(o)

EventRecords(e) ==
    LET m == Message[e]
        a == assignment[Chat[m]]
    IN  CASE Replay(e) -> MessageRecords(e, mapping[m].project, mapping[m].stream)
          [] NeedsAssignment(e) /\ a.state = "selected" ->
                MessageRecords(e, a.project, a.stream)
          [] Type[e] # "message" /\ Mapped(m) /\ ~DeletePending(m) ->
                [ops |-> {<<e, "message", 0>>}, project |-> mapping[m].project,
                 stream |-> mapping[m].stream]
          [] OTHER -> NoPrepared

(* The conversion remembers the message as pending before anything is stored *)
(* for delivery.                                                             *)
Convert(l, e) ==
    /\ Taking(l, e)
    /\ account.enabled
    /\ LaneFor(e) = l
    /\ NeedsAssignment(e) => assignment[Chat[Message[e]]].state # "deleted"
    /\ LET m == Message[e]
           new == EventRecords(e)
       IN  /\ group' = [group EXCEPT ![l].pc = "bind", ![l].new = new]
           /\ mapping' = [mapping EXCEPT ![m] =
                 IF NeedsAssignment(e) /\ new.ops # {}
                 THEN [state |-> "pending", project |-> new.project, stream |-> new.stream]
                 ELSE @]
           /\ Reported(e)
    /\ UNCHANGED <<journalVars, outboxVars, topic, desiredVars, flush, control, boot,
                   workspaceVars, budget>>

-----------------------------------------------------------------------------
(* Storing the records: provider_event_lane_guard and what runs inside it *)

Binding(l, e, pc) == boot = "up" /\ group[l].pc = pc /\ e = Head(group[l].todo)

(* prepare_provider_event_records: what was prepared before is kept. *)
RecordsToStore(l, e) == IF prepared[e].ops # {} THEN prepared[e] ELSE group[l].new

Terminal(o) == idem[o] \in {"committed", "rejected"}

(* enqueue_workspace_delivery finds no selected assignment in the project. *)
TargetGone(e, records) ==
    LET a == assignment[Chat[Message[e]]]
    IN  /\ \E o \in records.ops : ~Terminal(o)
        /\ a.state # "selected" \/ a.project # records.project

(* The row is no longer pending, or belongs to another lane. *)
GuardFails(l, e) ==
    /\ Binding(l, e, "bind")
    /\ event[e].state # "pending" \/ LaneFor(e) # l
    /\ RefreshLane(l, e)
    /\ LeftForLater(l)
    /\ UNCHANGED <<prepared, outboxVars, mappingVars, report, desiredVars, flush,
                   control, boot, workspaceVars, budget>>

(* finalize_provider_event: nothing to deliver. *)
FinalizeEmpty(l, e) ==
    /\ Binding(l, e, "bind")
    /\ event[e].state = "pending" /\ LaneFor(e) = l
    /\ group[l].new.ops = {}
    /\ event' = [event EXCEPT ![e].state = "processed", ![e].reason = "empty"]
    /\ mapping' = [mapping EXCEPT ![Message[e]].state =
                     IF Type[e] = "delete" /\ @ # "absent" THEN "deleted" ELSE @]
    /\ Processed(l)
    /\ UNCHANGED <<prepared, outboxVars, topic, report, desiredVars, flush, control,
                   boot, workspaceVars, budget>>

(* The transaction reads the generations it will bind the rows to. *)
Bind(l, e) ==
    /\ Binding(l, e, "bind")
    /\ event[e].state = "pending" /\ LaneFor(e) = l
    /\ group[l].new.ops # {}
    /\ ~TargetGone(e, RecordsToStore(l, e))
    /\ group' = [group EXCEPT ![l].pc = "insert", ![l].new = RecordsToStore(l, e),
                              ![l].account = account.generation,
                              ![l].assignment = assignment[Chat[Message[e]]].generation]
    /\ UNCHANGED <<journalVars, outboxVars, mappingVars, report, desiredVars, flush,
                   control, boot, workspaceVars, budget>>

(* An unsent upsert of the same topic makes another one unnecessary. *)
DuplicateTopic(l, o) ==
    /\ Kind(o) = "topic.upsert"
    /\ \E d \in Ops :
         /\ Kind(d) = "topic.upsert" /\ Unsent(d) /\ ChatOf(d) = ChatOf(o)
         /\ row[d].assignment = group[l].assignment
         /\ row[d].project = group[l].new.project
         /\ row[d].stream = group[l].new.stream

Inserted(l) ==
    {o \in group[l].new.ops :
        ~Terminal(o) /\ row[o].state = "absent" /\ ~DuplicateTopic(l, o)}

(* An event has one record of a kind. *)
InPartOrder(ops) ==
    LET Of(part) == IF \E o \in ops : o[2] = part
                    THEN <<CHOOSE o \in ops : o[2] = part>> ELSE <<>>
    IN  Of("topic") \o Of("message") \o Of("read")

(* _allocate_producer_lane: a sequence number, once per operation. *)
Allocated(ops) ==
    LET known == {o \in Ops : position[o] > 0}
        rank == [topic |-> 1, message |-> 2, read |-> 3]
        upTo(o) == {d \in ops \ known : rank[d[2]] <= rank[o[2]]}
    IN  [o \in Ops |-> IF o \in ops \ known THEN Cardinality(known) + Cardinality(upTo(o))
                       ELSE position[o]]

(* The transaction commits: the records are in the outbox, the event is      *)
(* delivering.                                                               *)
Insert(l, e) ==
    /\ Binding(l, e, "insert")
    /\ LET g == group[l]
       IN  /\ event' = [event EXCEPT ![e].state = "delivering", ![e].reason = "none"]
           /\ prepared' = [prepared EXCEPT ![e] = g.new]
           /\ position' = Allocated(g.new.ops)
           /\ idem' = [o \in Ops |-> IF o \in g.new.ops /\ ~Terminal(o)
                                     THEN "open" ELSE idem[o]]
           /\ row' = [o \in Ops |->
                        IF o \in Inserted(l)
                        THEN [NoRow EXCEPT !.state = "pending", !.account = g.account,
                                           !.assignment = g.assignment,
                                           !.project = g.new.project,
                                           !.stream = g.new.stream]
                        ELSE row[o]]
           /\ queue' = queue \o InPartOrder(Inserted(l))
    /\ Processed(l)
    /\ UNCHANGED <<mappingVars, report, desiredVars, flush, control, boot,
                   workspaceVars, budget>>

(* The target is gone: the transaction is rolled back, the records it had    *)
(* prepared included.                                                        *)
RollBack(l, e) ==
    /\ Binding(l, e, "bind")
    /\ event[e].state = "pending" /\ LaneFor(e) = l
    /\ group[l].new.ops # {}
    /\ TargetGone(e, RecordsToStore(l, e))
    /\ group' = [group EXCEPT ![l].pc = "changed"]
    /\ UNCHANGED <<journalVars, outboxVars, mappingVars, report, desiredVars, flush,
                   control, boot, workspaceVars, budget>>

-----------------------------------------------------------------------------
(* _recover_provider_event_assignment_change, given the rows that are left *)

Recoverable(e) ==
    Active(e) \/ (event[e].state = "invalid" /\ event[e].reason = "rejected")

CreatesOf(e) == {o \in prepared[e].ops : Kind(o) = "message.create"}

(* A create that never reached the outbox is converted again. *)
Replayed(e, rows, selected) ==
    selected /\ CreatesOf(e) # {} /\ \A o \in CreatesOf(e) : rows[o].state = "absent"

Recovered(e, rows, selected) ==
    IF ~Recoverable(e) THEN event[e]
    ELSE [event[e] EXCEPT
            !.state = IF Replayed(e, rows, selected) THEN "pending" ELSE "processed",
            !.reason = "assignment_changed"]

(* The pending mappings of creates that are not in the outbox are dropped. *)
Abandoned(es, rows) ==
    [m \in Messages |->
        IF /\ mapping[m].state = "pending"
           /\ \E e \in es : /\ Recoverable(e)
                            /\ \E o \in CreatesOf(e) :
                                 /\ MessageOf(o) = m
                                 /\ rows[o].state = "absent"
                                 /\ prepared[e].project = mapping[m].project
        THEN [mapping[m] EXCEPT !.state = "deleted"] ELSE mapping[m]]

(* finalize_provider_event_assignment_changed. *)
AssignmentChanged(l, e) ==
    /\ Binding(l, e, "changed")
    /\ LET gone == {o \in RowsOf(e) : row[o].state = "pending"}
           rows == [o \in Ops |-> IF o \in gone THEN NoRow ELSE row[o]]
           selected == prepared[e].ops # {} /\ assignment[Chat[Message[e]]].state = "selected"
       IN  /\ row' = rows
           /\ queue' = Without(queue, gone)
           /\ idem' = [o \in Ops |-> IF o \in gone /\ idem[o] = "open"
                                     THEN "absent" ELSE idem[o]]
           /\ mapping' = Abandoned({e}, rows)
           /\ event' = [event EXCEPT ![e] = Recovered(e, rows, selected)]
           /\ prepared' = [prepared EXCEPT ![e] = IF Recoverable(e) THEN NoPrepared ELSE @]
           /\ IF Recoverable(e) /\ Replayed(e, rows, selected)
              THEN LeftForLater(l) ELSE Processed(l)
    /\ UNCHANGED <<position, topic, report, desiredVars, flush, control, boot,
                   workspaceVars, budget>>

-----------------------------------------------------------------------------
(* reset_stale_workspace_deliveries *)

Stale(o) == row[o].state \notin {"absent", "sent"} /\ ~AssignmentCurrent(o)

(* It may have reached Workspace. *)
Unsafe(o) ==
    \/ row[o].state \in {"submitting", "ambiguous"}
    \/ row[o].state = "pending" /\ row[o].tried

(* The desired assignment still has the project and the stream of the row. *)
Compatible(o) ==
    LET a == assignment[ChatOf(o)]
    IN  a.state = "selected" /\ a.project = row[o].project /\ a.stream = row[o].stream

Rebound == {o \in Ops : Stale(o) /\ Unsafe(o) /\ Compatible(o)}
UnsafeEvents == {EventOf(o) : o \in {d \in Ops : Stale(d) /\ Unsafe(d) /\ ~Compatible(d)}}

(* Mutant: a pending row is removed although it was submitted before. *)
RemovedIfTried == {o \in Ops : Stale(o) /\ row[o].state \in {"pending", "rejected"}}

Removed ==
    {o \in Ops : /\ Stale(o)
                 /\ \/ row[o].state = "pending" /\ ~row[o].tried
                    \/ row[o].state = "rejected"}

SweptRow(o) ==
    IF o \in Rebound THEN [row[o] EXCEPT !.account = account.generation,
                                         !.assignment = assignment[ChatOf(o)].generation]
    ELSE IF o \in Removed THEN NoRow
    ELSE row[o]

SameProject(e) ==
    \A o \in Removed : EventOf(o) = e =>
        /\ assignment[ChatOf(o)].state = "selected"
        /\ assignment[ChatOf(o)].project = row[o].project

(* An event that lost a row: quarantined when a sibling may have been        *)
(* applied; delivered again as prepared in the same project; else recovered. *)
SweptEvent(e, rows) ==
    LET selected == assignment[Chat[Message[e]]].state = "selected"
    IN  IF e \in UnsafeEvents
        THEN [event[e] EXCEPT !.state = "invalid", !.reason = "ambiguous"]
        ELSE IF e \notin {EventOf(o) : o \in Removed} THEN event[e]
        ELSE IF ~SameProject(e) THEN Recovered(e, rows, selected)
        ELSE IF Recoverable(e) /\ event[e].state # "pending"
        THEN [event[e] EXCEPT !.state = "pending", !.reason = "assignment_changed"]
        ELSE event[e]

(* The events whose prepared records are forgotten. *)
Forgotten ==
    UnsafeEvents \cup {e \in {EventOf(o) : o \in Removed} : ~SameProject(e) /\ Recoverable(e)}

(* It waits for the row locks of an event that is being stored. *)
SweepBlocked ==
    \E l \in Chats : /\ group[l].pc = "insert"
                     /\ Head(group[l].todo) \in UnsafeEvents \cup {EventOf(o) : o \in Removed}

Sweep ==
    LET rows == [o \in Ops |-> SweptRow(o)]
    IN  /\ ~SweepBlocked
        /\ row' = rows
        /\ queue' = Without(queue, Removed)
        /\ idem' = [o \in Ops |-> IF o \in Removed /\ idem[o] \in {"open", "rejected"}
                                  THEN "absent" ELSE idem[o]]
        /\ event' = [e \in Events |-> SweptEvent(e, rows)]
        /\ prepared' = [e \in Events |-> IF e \in Forgotten THEN NoPrepared ELSE prepared[e]]
        /\ mapping' = Abandoned(Forgotten, rows)
        /\ UNCHANGED <<position, topic>>

-----------------------------------------------------------------------------
(* The control thread: apply_desired_changes, then the sweep *)

(* A projection with another stream replaces the topic mapping. *)
ChangedAssignment(a, kind) ==
    CASE kind = "touch" -> [a EXCEPT !.generation = @ + 1]
      [] kind = "stream" -> [a EXCEPT !.generation = @ + 1, !.stream = @ + 1]
      [] kind = "move" -> [a EXCEPT !.generation = @ + 1, !.stream = @ + 1, !.project = @ + 1]
      [] kind = "deselect" -> [a EXCEPT !.generation = @ + 1, !.state = "unselected"]
      [] kind = "delete" -> [a EXCEPT !.generation = @ + 1, !.state = "deleted"]
      [] kind = "select" -> [a EXCEPT !.generation = @ + 1, !.state = "selected"]

Changing(kind) ==
    /\ boot = "up" /\ control = "idle"
    /\ kind \in ChangeKinds
    /\ control' = "applied"
    /\ UNCHANGED <<journalVars, outboxVars, mapping, report, group, flush, boot, workspaceVars>>

ChangeAssignment(c, kind) ==
    /\ Changing(kind)
    /\ budget.changes > 0
    /\ budget' = [budget EXCEPT !.changes = @ - 1]
    /\ kind \in {"touch", "stream", "move", "deselect", "delete", "select"}
    /\ kind = "select" <=> assignment[c].state # "selected"
    /\ assignment' = [assignment EXCEPT ![c] = ChangedAssignment(@, kind)]
    /\ topic' = [topic EXCEPT ![c] = IF kind \in {"stream", "move", "deselect", "delete"}
                                     THEN "pending" ELSE @]
    /\ UNCHANGED account

ChangeAccount(kind) ==
    /\ Changing(kind)
    /\ budget.accounts > 0
    /\ budget' = [budget EXCEPT !.accounts = @ - 1]
    /\ kind \in {"account", "disable", "enable"}
    /\ kind = "enable" <=> ~account.enabled
    /\ account' = [generation |-> account.generation + 1, enabled |-> kind # "disable"]
    /\ UNCHANGED <<assignment, topic>>

ControlSweep ==
    /\ control = "applied"
    /\ Sweep
    /\ control' = "idle"
    /\ UNCHANGED <<report, desiredVars, group, flush, boot, workspaceVars, budget>>

(* The backend accepts the chat's catalog report. *)
ReportAccepted(c) ==
    /\ boot = "up"
    /\ report[c] = "queued"
    /\ report' = [report EXCEPT ![c] = "done"]
    /\ UNCHANGED <<journalVars, outboxVars, mappingVars, desiredVars, group, flush,
                   control, boot, workspaceVars, budget>>

-----------------------------------------------------------------------------
(* The delivery thread *)

(* d is what o needs to exist: its topic, or its message. *)
Needs(o, d) ==
    \/ /\ Kind(d) = "topic.upsert"
       /\ Kind(o) \in {"message.create", "message.update", "read_state.set"}
       /\ ChatOf(d) = ChatOf(o) /\ row[d].stream = row[o].stream
    \/ /\ Kind(d) = "message.create"
       /\ Kind(o) \in {"message.update", "message.delete"}
       /\ MessageOf(d) = MessageOf(o)
    \/ /\ Kind(d) \in {"message.create", "message.update"}
       /\ Kind(o) = "read_state.set"
       /\ MessageOf(d) = MessageOf(o)

(* Only rows of one binding are compared, in one lane or of one event. *)
Precedes(d, o) ==
    /\ row[d].assignment = row[o].assignment /\ row[d].project = row[o].project
    /\ \/ EventOf(d) = EventOf(o)
       \/ row[d].stream = row[o].stream /\ position[d] < position[o]

(* Mutant: the gates on topics and creates are left out. *)
UngatedReady(o) ==
    /\ row[o].state \in {"pending", "ambiguous"}
    /\ account.enabled /\ AccountCurrent(o) /\ AssignmentCurrent(o)
    /\ report[ChatOf(o)] # "queued"
    /\ Kind(o) = "read_state.set" => mapping[MessageOf(o)].state = "committed"

(* Mutant: a refused record still holds back the rows that need it. *)
ReadyUnlessRefused(o) ==
    /\ row[o].state \in {"pending", "ambiguous"}
    /\ account.enabled /\ AccountCurrent(o) /\ AssignmentCurrent(o)
    /\ report[ChatOf(o)] # "queued"
    /\ \A d \in Ops : /\ Unsent(d) \/ row[d].state = "rejected"
                      /\ d # o /\ Needs(o, d)
                      => ~Precedes(d, o)
    /\ Kind(o) = "read_state.set" => mapping[MessageOf(o)].state = "committed"

(* pending_workspace_deliveries. *)
Ready(o) ==
    /\ row[o].state \in {"pending", "ambiguous"}
    /\ account.enabled /\ AccountCurrent(o) /\ AssignmentCurrent(o)
    /\ report[ChatOf(o)] # "queued"
    /\ \A d \in Ops : Unsent(d) /\ d # o /\ Needs(o, d) => ~Precedes(d, o)
    /\ Kind(o) = "read_state.set" => mapping[MessageOf(o)].state = "committed"

(* o needs d and was in the outbox when d was rejected. *)
BlockedBy(o, d) ==
    /\ Needs(o, d) /\ Precedes(d, o)
    /\ row[d].state = "rejected" => o \in row[d].seen
    /\ Kind(o) = "read_state.set" /\ Kind(d) = "message.update" =>
           mapping[MessageOf(d)].state # "committed"

(* _filter_rejected_grouped_read_dependencies: a read flag that was never    *)
(* submitted is removed when its message was rejected.                       *)
Filtered ==
    {o \in Ops :
        /\ Kind(o) = "read_state.set"
        /\ row[o].state = "pending" /\ ~row[o].tried
        /\ \E d \in Ops : /\ row[d].state = "rejected" /\ Kind(d) # "topic.upsert"
                          /\ BlockedBy(o, d)}

Blocked(o, rejected) ==
    /\ row[o].state = "pending" /\ o \notin Filtered
    /\ \E d \in rejected : BlockedBy(o, d)

(* A chain of needs has at most three links: topic, message, read. *)
RejectedRows ==
    LET refused == {o \in Ops : row[o].state = "rejected"}
        second == refused \cup {o \in Ops : Blocked(o, refused)}
    IN  second \cup {o \in Ops : Blocked(o, second)}

(* Mutant: an ambiguous row does not keep its event open. *)
FinishedIfAmbiguous(rejected) ==
    {e \in Events : /\ event[e].state = "delivering"
                    /\ \A o \in Ops : EventOf(o) = e /\ row[o].state \in {"pending", "submitting"}
                                       => o \in rejected \cup Filtered}

(* Every row of the event has reached its end. *)
Finished(rejected) ==
    {e \in Events : /\ event[e].state = "delivering"
                    /\ \A o \in Ops : EventOf(o) = e /\ Unsent(o) => o \in rejected \cup Filtered}

ReadyBatch ==
    LET ready == Selected(queue, {i \in DOMAIN queue : Ready(queue[i])})
    IN  SubSeq(ready, 1, IF Len(ready) < BatchSize THEN Len(ready) ELSE BatchSize)

(* A flush that finds nothing to send still finalizes (it is left out when   *)
(* that would change nothing).                                               *)
SelectBatch ==
    /\ boot = "up" /\ flush.pc = "idle"
    /\ \/ ReadyBatch # <<>>
       \/ Finished(RejectedRows) # {}
       \/ Filtered # {} \/ RejectedRows # {o \in Ops : row[o].state = "rejected"}
    /\ flush' = IF ReadyBatch = <<>> THEN [FlushIdle EXCEPT !.pc = "finish"]
                ELSE [pc |-> "mark", todo |-> ReadyBatch, stack |-> <<<<>>>>, marked |-> {}]
    /\ UNCHANGED <<journalVars, outboxVars, mappingVars, report, desiredVars, group,
                   control, boot, workspaceVars, budget>>

(* mark_workspace_delivery_submitting: the bindings are checked again. *)
CanSubmit(o) ==
    /\ account.enabled
    /\ row[o].state \in {"pending", "ambiguous"}
    /\ AccountCurrent(o) /\ AssignmentCurrent(o)

(* Mutant: the attempt is not counted. *)
UncountedSubmitting ==
    /\ boot = "up" /\ flush.pc = "mark"
    /\ LET o == Head(flush.todo)
           batch == IF CanSubmit(o) THEN Append(Head(flush.stack), o) ELSE Head(flush.stack)
       IN  /\ row' = [row EXCEPT ![o].state = IF CanSubmit(o) THEN "submitting" ELSE @]
           /\ flush' = [pc |-> IF Len(flush.todo) > 1 THEN "mark"
                               ELSE IF batch = <<>> THEN "finish" ELSE "send",
                        todo |-> Tail(flush.todo),
                        stack |-> IF Len(flush.todo) = 1 /\ batch = <<>>
                                  THEN <<>> ELSE <<batch>>,
                        marked |-> ToSet(batch)]
    /\ UNCHANGED <<journalVars, queue, idem, position, mappingVars, report, desiredVars,
                   group, control, boot, workspaceVars, budget>>

MarkSubmitting ==
    /\ boot = "up" /\ flush.pc = "mark"
    /\ LET o == Head(flush.todo)
           batch == IF CanSubmit(o) THEN Append(Head(flush.stack), o) ELSE Head(flush.stack)
       IN  /\ row' = [row EXCEPT ![o] = IF CanSubmit(o)
                        THEN [@ EXCEPT !.state = "submitting", !.tried = TRUE] ELSE @]
           /\ flush' = [pc |-> IF Len(flush.todo) > 1 THEN "mark"
                               ELSE IF batch = <<>> THEN "finish" ELSE "send",
                        todo |-> Tail(flush.todo),
                        stack |-> IF Len(flush.todo) = 1 /\ batch = <<>>
                                  THEN <<>> ELSE <<batch>>,
                        marked |-> ToSet(batch)]
    /\ UNCHANGED <<journalVars, queue, idem, position, mappingVars, report, desiredVars,
                   group, control, boot, workspaceVars, budget>>

(* release_provider_event_submissions: the call failed, nothing is known. *)
Release ==
    /\ row' = [o \in Ops |-> IF o \in flush.marked /\ row[o].state = "submitting"
                             THEN [row[o] EXCEPT !.state = "pending"] ELSE row[o]]
    /\ flush' = FlushIdle
    /\ UNCHANGED <<journalVars, queue, idem, position, mappingVars, report, desiredVars,
                   group, control, boot, bad>>

Sending == boot = "up" /\ flush.pc = "send"
Refused(batch) == \E i \in DOMAIN batch : <<batch[i][1], batch[i][2]>> \in bad
AfterBatch(rest) == IF rest = <<>> THEN "finish" ELSE "send"

(* External: Workspace applies a batch as a whole, and a repeated record     *)
(* (same provider_event_key) once.                                           *)
Apply(batch) == applied' = applied \o Without(batch, ToSet(applied))

(* apply_commands answers that every record was applied. *)
SendApplied ==
    /\ Sending
    /\ ~Refused(Head(flush.stack))
    /\ Apply(Head(flush.stack))
    /\ flush' = [flush EXCEPT !.pc = "accept", !.todo = Head(flush.stack),
                              !.stack = Tail(flush.stack)]
    /\ UNCHANGED <<journalVars, outboxVars, mappingVars, report, desiredVars, group,
                   control, boot, bad, budget>>

(* A transport error: the batch was applied, or it never arrived. *)
SendLost ==
    /\ Sending
    /\ budget.faults > 0
    /\ budget' = [budget EXCEPT !.faults = @ - 1]
    /\ \/ ~Refused(Head(flush.stack)) /\ Apply(Head(flush.stack))
       \/ UNCHANGED applied
    /\ Release

(* A refused batch is halved until the bad record is alone. *)
SendBisected ==
    /\ Sending
    /\ LET batch == Head(flush.stack)
           midpoint == Len(batch) \div 2
       IN  /\ Refused(batch) /\ Len(batch) > 1
           /\ flush' = [flush EXCEPT !.stack =
                          <<SubSeq(batch, 1, midpoint),
                            SubSeq(batch, midpoint + 1, Len(batch))>> \o Tail(@)]
    /\ UNCHANGED <<journalVars, outboxVars, mappingVars, report, desiredVars, group,
                   control, boot, workspaceVars, budget>>

(* reject_provider_event_submission. *)
SendRejected ==
    /\ Sending
    /\ Refused(Head(flush.stack)) /\ Len(Head(flush.stack)) = 1
    /\ LET o == Head(flush.stack)[1]
           m == MessageOf(o)
       IN  /\ row[o].state = "submitting"
           /\ row' = [row EXCEPT ![o].state = "rejected", ![o].seen = ToSet(queue)]
           /\ queue' = Without(queue, {o})
           /\ idem' = [idem EXCEPT ![o] = IF @ = "open" THEN "rejected" ELSE @]
           /\ mapping' = [mapping EXCEPT ![m].state =
                IF Kind(o) = "message.create" /\ @ = "pending"
                   /\ mapping[m].project = row[o].project THEN "deleted" ELSE @]
           /\ topic' = [topic EXCEPT ![ChatOf(o)] =
                IF Kind(o) = "topic.upsert" /\ row[o].stream = assignment[ChatOf(o)].stream
                THEN "pending" ELSE @]
           /\ event' = [event EXCEPT ![EventOf(o)].reason =
                IF event[EventOf(o)].state = "delivering" THEN "rejected" ELSE @]
    /\ flush' = [flush EXCEPT !.pc = AfterBatch(Tail(flush.stack)), !.stack = Tail(@)]
    /\ UNCHANGED <<prepared, position, report, desiredVars, group, control, boot,
                   workspaceVars, budget>>

(* The row was cancelled meanwhile: the RuntimeError releases the batch. *)
RejectionLost ==
    /\ Sending
    /\ Refused(Head(flush.stack)) /\ Len(Head(flush.stack)) = 1
    /\ row[Head(flush.stack)[1]].state # "submitting"
    /\ Release
    /\ UNCHANGED <<applied, budget>>

(* Mutant: the row's state is copied into the mapping. *)
CopiedMapping(o) == [state |-> row[o].state, project |-> row[o].project, stream |-> row[o].stream]

(* accept_result: the outcome, the row and the mapping in one transaction. *)
AcceptedMapping(o) ==
    LET m == mapping[MessageOf(o)]
    IN  CASE Kind(o) = "message.create" \/ (Kind(o) = "message.update" /\ Mapped(MessageOf(o))) ->
                [state |-> "committed", project |-> row[o].project, stream |-> row[o].stream]
          [] Kind(o) = "message.delete" /\ m.state # "absent" -> [m EXCEPT !.state = "deleted"]
          [] OTHER -> m

Accept ==
    /\ boot = "up" /\ flush.pc = "accept"
    /\ LET o == Head(flush.todo)
       IN  /\ idem' = [idem EXCEPT ![o] = "committed"]
           /\ row' = [row EXCEPT ![o].state = "sent"]
           /\ queue' = Without(queue, {o})
           /\ mapping' = [mapping EXCEPT ![MessageOf(o)] = AcceptedMapping(o)]
           /\ topic' = [topic EXCEPT ![ChatOf(o)] =
                IF Kind(o) = "topic.upsert" /\ row[o].stream = assignment[ChatOf(o)].stream
                THEN "committed" ELSE @]
    /\ flush' = [flush EXCEPT !.todo = Tail(@),
                   !.pc = IF Len(flush.todo) > 1 THEN "accept" ELSE AfterBatch(flush.stack)]
    /\ UNCHANGED <<journalVars, position, report, desiredVars, group, control, boot,
                   workspaceVars, budget>>

-----------------------------------------------------------------------------
(* finalize_ready_provider_events *)

FinalizeReady ==
    LET rejected == RejectedRows
        failed(e) == \E o \in rejected : EventOf(o) = e
        done == Finished(rejected)
        hit(e) == \E o \in rejected : EventOf(o) = e /\ row[o].state = "pending"
    IN  /\ row' = [o \in Ops |->
                     IF o \in Filtered THEN NoRow
                     ELSE IF o \in rejected /\ row[o].state = "pending"
                     THEN [row[o] EXCEPT !.state = "rejected", !.seen = ToSet(queue)]
                     ELSE row[o]]
        /\ queue' = Without(queue, rejected \cup Filtered)
        /\ idem' = [o \in Ops |->
                      IF idem[o] # "open" THEN idem[o]
                      ELSE IF o \in Filtered THEN "absent"
                      ELSE IF o \in rejected THEN "rejected" ELSE idem[o]]
        /\ event' = [e \in Events |->
                       IF e \in done
                       THEN [event[e] EXCEPT !.state = IF failed(e) THEN "invalid" ELSE "processed",
                                             !.reason = IF failed(e) THEN "rejected" ELSE @]
                       ELSE IF event[e].state = "delivering" /\ hit(e)
                       THEN [event[e] EXCEPT !.reason = "rejected"] ELSE event[e]]
        /\ prepared' = [e \in Events |->
                          IF e \in done /\ ~failed(e) THEN NoPrepared
                          ELSE IF event[e].state = "delivering"
                          THEN [prepared[e] EXCEPT !.ops = @ \ Filtered] ELSE prepared[e]]
        /\ mapping' = [m \in Messages |->
              IF \/ \E e \in done : ~failed(e) /\ Type[e] = "delete" /\ Message[e] = m /\ Mapped(m)
                 \/ /\ mapping[m].state = "pending"
                    /\ \E o \in Ops : /\ row[o].state = "rejected" /\ Kind(o) = "message.create"
                                      /\ MessageOf(o) = m /\ row[o].project = mapping[m].project
              THEN [mapping[m] EXCEPT !.state = "deleted"] ELSE mapping[m]]
        /\ UNCHANGED <<position, topic>>

Finish ==
    /\ boot = "up" /\ flush.pc = "finish"
    /\ FinalizeReady
    /\ flush' = FlushIdle
    /\ UNCHANGED <<report, desiredVars, group, control, boot, workspaceVars, budget>>

-----------------------------------------------------------------------------
(* Restart: _recover_interrupted_workspace_deliveries_once *)

Crash ==
    /\ budget.crashes > 0
    /\ budget' = [budget EXCEPT !.crashes = @ - 1]
    /\ group' = [l \in Chats \cup {None} |-> GroupIdle]
    /\ flush' = FlushIdle
    /\ control' = "idle"
    /\ boot' = "ambiguous"
    /\ UNCHANGED <<journalVars, outboxVars, mappingVars, report, desiredVars, workspaceVars>>

BootAmbiguous ==
    /\ boot = "ambiguous"
    /\ row' = [o \in Ops |-> IF row[o].state = "submitting"
                             THEN [row[o] EXCEPT !.state = "ambiguous"] ELSE row[o]]
    /\ event' = [e \in Events |->
                   IF event[e].state = "delivering"
                      /\ \E o \in RowsOf(e) : row[o].state = "submitting"
                   THEN [event[e] EXCEPT !.reason = "ambiguous"] ELSE event[e]]
    /\ boot' = "sweep"
    /\ UNCHANGED <<prepared, queue, idem, position, mappingVars, report, desiredVars,
                   group, flush, control, workspaceVars, budget>>

BootSweep ==
    /\ boot = "sweep"
    /\ Sweep
    /\ boot' = "finalize"
    /\ UNCHANGED <<report, desiredVars, group, flush, control, workspaceVars, budget>>

BootFinalize ==
    /\ boot = "finalize"
    /\ FinalizeReady
    /\ boot' = "up"
    /\ UNCHANGED <<report, desiredVars, group, flush, control, workspaceVars, budget>>

-----------------------------------------------------------------------------

Work(l, e) ==
    \/ IgnoreInactive(l, e) \/ LaneChanged(l, e) \/ AssignmentPending(l, e)
    \/ Convert(l, e) \/ GuardFails(l, e) \/ FinalizeEmpty(l, e) \/ Bind(l, e)
    \/ Insert(l, e) \/ RollBack(l, e) \/ AssignmentChanged(l, e)

FlushStep ==
    \/ SelectBatch \/ MarkSubmitting \/ SendApplied \/ SendBisected \/ SendRejected
    \/ RejectionLost \/ Accept \/ Finish

Boot == BootAmbiguous \/ BootSweep \/ BootFinalize

Next ==
    \/ \E e \in Events : Record(e)
    \/ SelectRound
    \/ \E l \in Chats \cup {None}, e \in Events : Work(l, e) \/ ConvertFails(l, e)
    \/ \E c \in Chats, kind \in Changes : ChangeAssignment(c, kind)
    \/ \E kind \in Changes : ChangeAccount(kind)
    \/ ControlSweep
    \/ \E c \in Chats : ReportAccepted(c)
    \/ FlushStep \/ SendLost
    \/ Crash \/ Boot

Spec == Init /\ [][Next]_vars

(* Every thread keeps running and the backend keeps answering.  The poll     *)
(* thread, the control plane and failures need not act.                      *)
Fairness ==
    /\ WF_vars(SelectRound)
    /\ \A l \in Chats \cup {None} : WF_vars(\E e \in Events : Work(l, e))
    /\ WF_vars(FlushStep)
    /\ WF_vars(ControlSweep)
    /\ \A c \in Chats : WF_vars(ReportAccepted(c))
    /\ WF_vars(Boot)

FairSpec == Spec /\ Fairness

-----------------------------------------------------------------------------
(* Properties *)

(* How an event ended, as the promise tells it. *)
Outcome(e) ==
    CASE event[e].state \in {"absent", "pending", "delivering"} -> "open"
      [] event[e].state = "processed" ->
            IF event[e].reason \in {"empty", "assignment_changed"} THEN "void" ELSE "applied"
      [] event[e].state = "ignored" -> "void"
      [] event[e].state = "invalid" -> "refused"

Promise == INSTANCE DeliveryPromise
               WITH log <- applied, outcome <- [e \in Events |-> Outcome(e)]

(* Workspace sees every message's records in the order of the events, after  *)
(* the records they need, and none of an event that has already ended: what  *)
(* the lanes, the gates of pending_workspace_deliveries, the bisection and   *)
(* the recovery at start achieve together.                                   *)
KeepsPromise == Promise!Spec

(* A message is created in one project only, although the assignment changes *)
(* or the answer is lost while its create is submitted:                      *)
(* reset_stale_workspace_deliveries keeps what may have been applied.  (Two  *)
(* changes and a lost answer together are too much for                       *)
(* finalize_provider_event_assignment_changed: README, section 5.)           *)
CreatedOnce ==
    \A o, d \in ToSet(applied) :
        /\ Kind(o) = "message.create" /\ Kind(d) = "message.create"
        /\ MessageOf(o) = MessageOf(d)
        => o = d

(* The outbox remembers every record that Workspace applied, also after a    *)
(* lost answer, a restart or a change of the assignment: only so can a       *)
(* repeated conversion find it again.  It is what CreatedOnce rests on.      *)
NothingForgotten == \A o \in ToSet(applied) : row[o].state # "absent"

(* An event ends as delivered only when Workspace shows its change, whatever *)
(* happened to the assignment, the account or the process on the way.        *)
DeliveredIsShown == \A e \in Events : Outcome(e) = "applied" => Promise!Shown(e)

(* A message of a chat that stays selected is not given up because the chat  *)
(* moved to another project before its create was submitted: it is converted *)
(* again (_recover_provider_event_assignment_change).                        *)
UnsubmittedIsReplayed ==
    \A e \in Events :
        /\ Type[e] = "message" /\ event[e].state = "processed"
        /\ event[e].reason = "assignment_changed"
        /\ assignment[Chat[Message[e]]].state = "selected"
        => Promise!Shown(e)

(* An event in delivery reaches an end: a rejected, ambiguous or stale       *)
(* record does not hold its lane forever (finalize_ready_provider_events).   *)
DeliveryEnds == \A e \in Events : event[e].state = "delivering" ~> event[e].state # "delivering"

=============================================================================
