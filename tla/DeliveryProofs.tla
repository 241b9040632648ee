--------------------------- MODULE DeliveryProofs ---------------------------
(***************************************************************************)
(* What the journal, the outbox and the delivery thread never get wrong,   *)
(* for any chats, events, batch sizes and any number of changes, crashes   *)
(* and lost answers.                                                       *)
(***************************************************************************)
EXTENDS Delivery, NumberLemmas, FiniteSetTheorems, TLAPS

Lanes == Chats \cup {None}
Projects == 1 .. MaxChanges + 1

-----------------------------------------------------------------------------
(* Operations *)

LEMMA Operation ==
    ASSUME NEW o \in Ops
    PROVE  /\ EventOf(o) \in Events /\ o[2] \in Parts
           /\ MessageOf(o) \in Messages /\ ChatOf(o) \in Chats
           /\ <<EventOf(o), o[2]>> \in Events \X Parts
           /\ Type[EventOf(o)] = "message" => o[3] \in Projects
           /\ Type[EventOf(o)] # "message" => o[2] = "message" /\ o[3] = 0
           /\ o = <<EventOf(o), o[2], o[3]>>
<1>1. o \in Events \X Parts \X Scopes
  BY DEF Ops
<1>2. o[1] \in Events /\ o[2] \in Parts /\ o[3] \in Scopes /\ o = <<o[1], o[2], o[3]>>
  BY <1>1
<1>3. Message[o[1]] \in Messages /\ Chat[Message[o[1]]] \in Chats
  BY <1>2, DeliveryAssumption
<1>4. /\ Type[o[1]] = "message" => o[3] > 0
      /\ Type[o[1]] # "message" => o[3] = 0 /\ o[2] = "message"
  BY DEF Ops
<1>. QED
  BY <1>2, <1>3, <1>4, DeliveryAssumption DEF EventOf, MessageOf, ChatOf, Scopes, Projects

(* The record that shows an event, given the project of the message. *)
MainOp(e, project) == <<e, "message", IF Type[e] = "message" THEN project ELSE 0>>

LEMMA MainOperation ==
    ASSUME NEW e \in Events, NEW p \in Projects
    PROVE  /\ MainOp(e, p) \in Ops
           /\ EventOf(MainOp(e, p)) = e
           /\ Kind(MainOp(e, p)) \notin {"topic.upsert", "read_state.set"}
           /\ Type[e] = "message" => Kind(MainOp(e, p)) = "message.create"
<1>1. p \in Nat /\ p > 0 /\ p \in Scopes /\ 0 \in Scopes
  BY DeliveryAssumption DEF Projects, Scopes
<1>2. MainOp(e, p) \in Events \X Parts \X Scopes
  BY <1>1 DEF MainOp, Parts
<1>3. MainOp(e, p) \in Ops
  BY <1>1, <1>2 DEF MainOp, Ops
<1>4. Type[e] \in {"message", "update", "delete"}
  BY DeliveryAssumption
<1>5. MainOp(e, p)[1] = e /\ MainOp(e, p)[2] = "message"
  BY DEF MainOp
<1>. QED
  BY <1>3, <1>4, <1>5 DEF EventOf, Kind

(* A create is the message record of a message event. *)
LEMMA CreateKind ==
    ASSUME NEW o \in Ops
    PROVE  /\ Kind(o) = "message.create" <=> o[2] = "message" /\ Type[EventOf(o)] = "message"
           /\ Kind(o) = "topic.upsert" <=> o[2] = "topic"
           /\ Kind(o) = "message.delete" <=> o[2] = "message" /\ Type[EventOf(o)] = "delete"
<1>1. o[2] \in Parts /\ EventOf(o) \in Events
  BY Operation
<1>2. Type[EventOf(o)] \in {"message", "update", "delete"}
  BY <1>1, DeliveryAssumption
<1>3. CASE o[2] = "topic"
  BY <1>3 DEF Kind
<1>4. CASE o[2] = "read"
  BY <1>4 DEF Kind
<1>5. CASE o[2] = "message"
  <2>1. CASE Type[EventOf(o)] = "message" BY <1>5, <2>1 DEF Kind
  <2>2. CASE Type[EventOf(o)] = "update" BY <1>5, <2>2 DEF Kind
  <2>3. CASE Type[EventOf(o)] = "delete" BY <1>5, <2>3 DEF Kind
  <2>. QED BY <1>2, <2>1, <2>2, <2>3
<1>. QED
  BY <1>1, <1>3, <1>4, <1>5 DEF Parts

LEMMA FiniteOps == IsFiniteSet(Ops)
<1> DEFINE P == (Events \X Parts) \X Scopes
           T == Events \X Parts \X Scopes
           f == [p \in P |-> <<p[1][1], p[1][2], p[2]>>]
<1>1. EventCount \in Int /\ MaxChanges + 1 \in Int
  BY DeliveryAssumption
<1>2. IsFiniteSet(Events) /\ IsFiniteSet(Scopes)
  BY <1>1, FS_Interval DEF Events, Scopes
<1>3. IsFiniteSet(Parts)
  <2>1. IsFiniteSet({}) BY FS_EmptySet
  <2>2. IsFiniteSet({} \cup {"topic"}) BY <2>1, FS_AddElement
  <2>3. IsFiniteSet(({} \cup {"topic"}) \cup {"message"}) BY <2>2, FS_AddElement
  <2>4. IsFiniteSet((({} \cup {"topic"}) \cup {"message"}) \cup {"read"}) BY <2>3, FS_AddElement
  <2>5. (({} \cup {"topic"}) \cup {"message"}) \cup {"read"} = Parts BY DEF Parts
  <2>. QED BY <2>4, <2>5
<1>4. IsFiniteSet(P)
  <2>1. IsFiniteSet(Events \X Parts) BY <1>2, <1>3, FS_Product
  <2>. QED BY <1>2, <2>1, FS_Product
<1>5. f \in Surjection(P, T)
  <2>1. f \in [P -> T]
    OBVIOUS
  <2>2. ASSUME NEW t \in T PROVE \E p \in P : f[p] = t
    <3>1. t[1] \in Events /\ t[2] \in Parts /\ t[3] \in Scopes /\ t = <<t[1], t[2], t[3]>>
      OBVIOUS
    <3>2. <<<<t[1], t[2]>>, t[3]>> \in P
      BY <3>1
    <3>3. f[<<<<t[1], t[2]>>, t[3]>>] = t
      BY <3>1, <3>2
    <3>. QED
      BY <3>2, <3>3
  <2>. QED
    BY <2>1, <2>2 DEF Surjection
<1>6. IsFiniteSet(T)
  <2> HIDE DEF P, T, f
  <2>. QED BY <1>4, <1>5, FS_Surjection
<1>7. Ops \in SUBSET T
  BY DEF Ops
<1> HIDE DEF T
<1>. QED
  BY <1>6, <1>7, FS_Subset

-----------------------------------------------------------------------------
(* The invariant *)

(* The records of an event: its main record among them, and for a message   *)
(* all in one project.                                                       *)
WellFormed(e, records) ==
    records.ops # {} =>
        /\ records.project \in Projects
        /\ MainOp(e, records.project) \in records.ops
        /\ \A o \in records.ops :
              EventOf(o) = e /\ (Type[e] = "message" => o[3] = records.project)

(* A project comes from an assignment, and a change is counted for each.     *)
InProjects ==
    /\ budget.changes <= MaxChanges
    /\ \A c \in Chats : assignment[c].project \in 1 .. (MaxChanges + 1) - budget.changes
    /\ \A m \in Messages : Mapped(m) => mapping[m].project \in Projects
    /\ \A o \in Ops : row[o].state # "absent" => row[o].project \in Projects
    /\ \A e \in Events : WellFormed(e, prepared[e])

Storing == {"bind", "insert", "changed"}

(* A lane group works at the head of its rows, which no other group has.  A  *)
(* row that is being stored is still pending, with the records prepared.     *)
InGroups ==
    /\ \A l \in Lanes : group[l].pc # "idle" => group[l].todo # <<>>
    /\ \A l \in Lanes : group[l].pc \in Storing => WellFormed(Head(group[l].todo), group[l].new)
    /\ \A l, k \in Lanes : l # k =>
          \A i \in DOMAIN group[l].todo, j \in DOMAIN group[k].todo :
              group[l].todo[i] # group[k].todo[j]
    /\ \A l \in Lanes : group[l].pc = "insert" =>
          LET e == Head(group[l].todo)
          IN  /\ event[e].state = "pending"
              /\ group[l].new.ops # {}
              /\ prepared[e].ops # {} => group[l].new = prepared[e]
    /\ group[None].pc \in Storing => group[None].pc = "bind" /\ group[None].new.ops = {}

IsBad(o) == <<o[1], o[2]>> \in bad

(* The records that are with Workspace, or whose answer is being stored.     *)
InFlight(o) ==
    \/ \E a \in DOMAIN flush.stack : \E i \in DOMAIN flush.stack[a] : flush.stack[a][i] = o
    \/ flush.pc = "accept" /\ \E i \in DOMAIN flush.todo : flush.todo[i] = o

(* Only a record that was refused loses its row while it is in flight.       *)
InFlush ==
    /\ boot # "up" => flush = FlushIdle
    /\ flush.pc = "mark" => flush.todo # <<>> /\ Len(flush.stack) = 1
    /\ flush.pc = "accept" => flush.todo # <<>>
    /\ flush.pc = "send" => flush.stack # <<>>
    /\ flush.pc \in {"send", "accept"} =>
          \A a \in DOMAIN flush.stack : flush.stack[a] # <<>>
    /\ flush.pc \in {"idle", "finish"} => flush.stack = <<>>
    /\ \A o \in Ops : InFlight(o) => row[o].state \in {"submitting", "cancelled", "sent"} \/ IsBad(o)
    /\ flush.pc = "accept" =>
          \A i \in DOMAIN flush.todo : flush.todo[i] \in ToSet(applied) /\ ~IsBad(flush.todo[i])

(* What a row or an outcome says of Workspace.                               *)
Truthful ==
    /\ \A o \in Ops : idem[o] = "committed" \/ row[o].state = "sent" => o \in ToSet(applied)
    /\ \A o \in Ops : idem[o] = "rejected" => row[o].state = "rejected"
    /\ \A o \in Ops : row[o].state \in {"submitting", "ambiguous"} => row[o].tried
    /\ \A o \in ToSet(applied) : ~IsBad(o)

(* A cancelled row stays cancelled, and a row has an event.                  *)
Settled ==
    \A o \in Ops :
        /\ row[o].state # "absent" => event[EventOf(o)].state # "absent"
        /\ row[o].state = "cancelled" => ~Recoverable(EventOf(o))

InOutbox == {"pending", "submitting", "ambiguous", "rejected", "sent"}

(* An event in delivery has its main record in the outbox or in Workspace.   *)
Carried(e) ==
    \E p \in Projects : LET o == MainOp(e, p)
                        IN  o \in ToSet(applied) \/ row[o].state \in InOutbox

Delivered ==
    \A e \in Events :
        /\ event[e].state = "delivering" => Carried(e)
        /\ Outcome(e) = "applied" => Promise!Shown(e)

(* An event has one create in the outbox, the prepared one.                  *)
OneCreate ==
    /\ \A o, d \in Ops :
          /\ Kind(o) = "message.create" /\ Kind(d) = "message.create"
          /\ EventOf(o) = EventOf(d)
          /\ row[o].state # "absent" /\ row[d].state # "absent"
          => o = d
    /\ \A o \in Ops :
          /\ Kind(o) = "message.create" /\ row[o].state # "absent"
          /\ Recoverable(EventOf(o))
          => o \in prepared[EventOf(o)].ops

DeliveryInv ==
    /\ TypeOK
    /\ InProjects
    /\ InGroups
    /\ InFlush
    /\ Truthful
    /\ Settled
    /\ Delivered
    /\ OneCreate

-----------------------------------------------------------------------------
(* Who changes what *)

(* Steps of the journal that store nothing. *)
Reading(l, e) ==
    \/ LaneChanged(l, e) \/ AssignmentPending(l, e) \/ ConvertFails(l, e)
    \/ Convert(l, e) \/ GuardFails(l, e) \/ FinalizeEmpty(l, e) \/ Bind(l, e)
    \/ RollBack(l, e)

Desiring ==
    \/ \E c \in Chats, kind \in Changes : ChangeAssignment(c, kind)
    \/ \E kind \in Changes : ChangeAccount(kind)
    \/ \E c \in Chats : ReportAccepted(c)

Sweeping == ControlSweep \/ BootSweep
Finalizing == Finish \/ BootFinalize
Releasing == SendLost \/ RejectionLost
Batching == SelectBatch \/ SendApplied \/ SendBisected

LEMMA NextSteps ==
    ASSUME Next
    PROVE  \/ \E e \in Events : Record(e)
           \/ SelectRound
           \/ \E l \in Lanes, e \in Events : Reading(l, e)
           \/ \E l \in Lanes, e \in Events : IgnoreInactive(l, e)
           \/ \E l \in Lanes, e \in Events : Insert(l, e)
           \/ \E l \in Lanes, e \in Events : AssignmentChanged(l, e)
           \/ Desiring \/ Sweeping \/ Batching \/ MarkSubmitting \/ Releasing
           \/ SendRejected \/ Accept \/ Finalizing \/ Crash \/ BootAmbiguous
BY DEF Next, Work, FlushStep, Boot, Reading, Desiring, Sweeping, Finalizing, Releasing,
       Batching, Lanes

LEMMA ReadingFrame ==
    ASSUME NEW l, NEW e, Reading(l, e)
    PROVE  /\ UNCHANGED <<prepared, row, queue, idem, position, topic, account, assignment,
                          flush, control, boot, applied, bad>>
           /\ UNCHANGED budget \/ ConvertFails(l, e)
           /\ UNCHANGED mapping \/ Convert(l, e) \/ FinalizeEmpty(l, e)
           /\ UNCHANGED report \/ Convert(l, e) \/ AssignmentPending(l, e)
<1>1. CASE LaneChanged(l, e)
  BY <1>1 DEF LaneChanged, outboxVars, mappingVars, desiredVars, workspaceVars
<1>2. CASE AssignmentPending(l, e)
  BY <1>2 DEF AssignmentPending, journalVars, outboxVars, mappingVars, desiredVars, workspaceVars
<1>3. CASE ConvertFails(l, e)
  BY <1>3 DEF ConvertFails, outboxVars, mappingVars, desiredVars, workspaceVars
<1>4. CASE Convert(l, e)
  BY <1>4 DEF Convert, journalVars, outboxVars, desiredVars, workspaceVars
<1>5. CASE GuardFails(l, e)
  BY <1>5 DEF GuardFails, outboxVars, mappingVars, desiredVars, workspaceVars
<1>6. CASE FinalizeEmpty(l, e)
  BY <1>6 DEF FinalizeEmpty, outboxVars, desiredVars, workspaceVars
<1>7. CASE Bind(l, e)
  BY <1>7 DEF Bind, journalVars, outboxVars, mappingVars, desiredVars, workspaceVars
<1>8. CASE RollBack(l, e)
  BY <1>8 DEF RollBack, journalVars, outboxVars, mappingVars, desiredVars, workspaceVars
<1>. QED
  BY <1>1, <1>2, <1>3, <1>4, <1>5, <1>6, <1>7, <1>8 DEF Reading

LEMMA RecordFrame ==
    ASSUME NEW e, Record(e)
    PROVE  UNCHANGED <<prepared, row, queue, idem, position, mapping, topic, report, account,
                       assignment, group, flush, control, boot, applied, bad, budget>>
BY DEF Record, outboxVars, mappingVars, desiredVars, workspaceVars

LEMMA RoundFrame ==
    ASSUME SelectRound
    PROVE  UNCHANGED <<event, prepared, row, queue, idem, position, mapping, topic, report,
                       account, assignment, flush, control, boot, applied, bad, budget>>
BY DEF SelectRound, journalVars, outboxVars, mappingVars, desiredVars, workspaceVars

LEMMA DesiringFrame ==
    ASSUME Desiring
    PROVE  /\ UNCHANGED <<event, prepared, row, queue, idem, position, mapping, group, flush,
                          boot, applied, bad>>
           /\ \/ UNCHANGED <<account, assignment, topic, budget, control>>
              \/ \E c \in Chats, kind \in Changes : ChangeAssignment(c, kind)
              \/ \E kind \in Changes : ChangeAccount(kind)
<1>1. ASSUME NEW c \in Chats, NEW kind \in Changes, ChangeAssignment(c, kind)
      PROVE  UNCHANGED <<event, prepared, row, queue, idem, position, mapping, group, flush,
                          boot, applied, bad>>
  BY <1>1 DEF ChangeAssignment, Changing, journalVars, outboxVars, workspaceVars
<1>2. ASSUME NEW kind \in Changes, ChangeAccount(kind)
      PROVE  UNCHANGED <<event, prepared, row, queue, idem, position, mapping, group, flush,
                          boot, applied, bad>>
  BY <1>2 DEF ChangeAccount, Changing, journalVars, outboxVars, workspaceVars
<1>3. ASSUME NEW c \in Chats, ReportAccepted(c)
      PROVE  /\ UNCHANGED <<event, prepared, row, queue, idem, position, mapping, group, flush,
                          boot, applied, bad>>
             /\ UNCHANGED <<account, assignment, topic, budget, control>>
  BY <1>3 DEF ReportAccepted, journalVars, outboxVars, mappingVars, desiredVars, workspaceVars
<1>4. CASE \E c \in Chats, kind \in Changes : ChangeAssignment(c, kind)
  BY <1>1, <1>4
<1>5. CASE \E kind \in Changes : ChangeAccount(kind)
  BY <1>2, <1>5
<1>6. CASE \E c \in Chats : ReportAccepted(c)
  BY <1>3, <1>6
<1>. QED
  BY <1>4, <1>5, <1>6 DEF Desiring

LEMMA SweepingFrame ==
    ASSUME Sweeping
    PROVE  /\ Sweep
           /\ UNCHANGED <<position, topic, report, account, assignment, group, flush, applied,
                          bad, budget>>
           /\ \/ UNCHANGED boot /\ control' = "idle"
              \/ boot = "sweep" /\ boot' = "finalize" /\ UNCHANGED control
<1>1. Sweep => UNCHANGED <<position, topic>>
  BY DEF Sweep
<1>2. CASE ControlSweep
  BY <1>1, <1>2 DEF ControlSweep, desiredVars, workspaceVars
<1>3. CASE BootSweep
  BY <1>1, <1>3 DEF BootSweep, desiredVars, workspaceVars
<1>. QED
  BY <1>2, <1>3 DEF Sweeping

LEMMA FinalizingFrame ==
    ASSUME Finalizing
    PROVE  /\ FinalizeReady
           /\ UNCHANGED <<position, topic, report, account, assignment, group, control, applied,
                          bad, budget>>
           /\ \/ boot = "up" /\ flush.pc = "finish" /\ UNCHANGED boot /\ flush' = FlushIdle
              \/ boot = "finalize" /\ boot' = "up" /\ UNCHANGED flush
<1>1. CASE Finish
  BY <1>1 DEF Finish, FinalizeReady, desiredVars, workspaceVars
<1>2. CASE BootFinalize
  BY <1>2 DEF BootFinalize, FinalizeReady, desiredVars, workspaceVars
<1>. QED
  BY <1>1, <1>2 DEF Finalizing

(* A read flag that is removed was never submitted. *)
LEMMA FilteredRow ==
    ASSUME NEW o \in Filtered
    PROVE  /\ o \in Ops /\ Kind(o) = "read_state.set"
           /\ row[o].state = "pending" /\ ~row[o].tried
           /\ o \notin RejectedRows
BY DEF Filtered, RejectedRows, Blocked

(* The assignments of the finalization. *)
RejectedRow(o) == [row[o] EXCEPT !.state = "rejected", !.seen = ToSet(queue)]
Narrowed(e) == [prepared[e] EXCEPT !.ops = @ \ Filtered]

LEMMA FinalizedRows ==
    ASSUME Finalizing
    PROVE  /\ row' = [o \in Ops |-> IF o \in Filtered THEN NoRow
                                   ELSE IF o \in RejectedRows /\ row[o].state = "pending"
                                   THEN RejectedRow(o) ELSE row[o]]
           /\ queue' = Without(queue, RejectedRows \cup Filtered)
           /\ idem' = [o \in Ops |-> IF idem[o] # "open" THEN idem[o]
                                    ELSE IF o \in Filtered THEN "absent"
                                    ELSE IF o \in RejectedRows THEN "rejected" ELSE idem[o]]
           /\ prepared' = [e \in Events |->
                 IF e \in Finished(RejectedRows) /\ ~(\E o \in RejectedRows : EventOf(o) = e)
                 THEN NoPrepared
                 ELSE IF event[e].state = "delivering" THEN Narrowed(e) ELSE prepared[e]]
BY FinalizingFrame, Zenon DEF FinalizeReady, RejectedRow, Narrowed

LEMMA ReleasingFrame ==
    ASSUME Releasing
    PROVE  /\ Sending /\ Release
           /\ UNCHANGED <<event, prepared, queue, idem, position, mapping, topic, report, account,
                          assignment, group, control, boot, bad>>
           /\ flush' = FlushIdle
           /\ \/ UNCHANGED applied
              \/ ~Refused(Head(flush.stack)) /\ Apply(Head(flush.stack))
           /\ UNCHANGED budget \/ SendLost
<1>1. CASE SendLost
  BY <1>1 DEF SendLost, Release, journalVars, mappingVars, desiredVars
<1>2. CASE RejectionLost
  BY <1>2 DEF RejectionLost, Release, journalVars, mappingVars, desiredVars
<1>. QED
  BY <1>1, <1>2 DEF Releasing

LEMMA BatchingFrame ==
    ASSUME Batching
    PROVE  /\ UNCHANGED <<event, prepared, row, queue, idem, position, mapping, topic, report,
                          account, assignment, group, control, boot, bad, budget>>
           /\ boot = "up"
           /\ UNCHANGED applied \/ SendApplied
<1>1. CASE SelectBatch
  BY <1>1 DEF SelectBatch, journalVars, outboxVars, mappingVars, desiredVars, workspaceVars
<1>2. CASE SendApplied
  BY <1>2 DEF SendApplied, Sending, journalVars, outboxVars, mappingVars, desiredVars
<1>3. CASE SendBisected
  BY <1>3 DEF SendBisected, Sending, journalVars, outboxVars, mappingVars, desiredVars, workspaceVars
<1>. QED
  BY <1>1, <1>2, <1>3 DEF Batching

-----------------------------------------------------------------------------
(* Types *)

LEMMA LaneType ==
    ASSUME NEW e \in Events
    PROVE  LaneFor(e) \in Lanes /\ Message[e] \in Messages /\ Chat[Message[e]] \in Chats
BY DeliveryAssumption DEF LaneFor, Lanes

LEMMA EventType ==
    ASSUME DeliveryInv, Next
    PROVE  event' \in [Events -> EventRow]
<1> USE DEF EventStates, Reasons
<1>0. /\ event \in [Events -> EventRow]
      /\ \A e \in Events : event[e] \in EventRow /\ event[e].state \in EventStates
                           /\ event[e].reason \in Reasons /\ event[e].lane \in Lanes
  BY DEF DeliveryInv, TypeOK, EventRow, Lanes
<1>1. ASSUME NEW e \in Events, NEW s \in EventStates, NEW r \in Reasons, NEW l \in Lanes
      PROVE  [state |-> s, reason |-> r, lane |-> l] \in EventRow
  BY DEF EventRow, Lanes
<1>2. ASSUME NEW e \in Events, Record(e) PROVE event' \in [Events -> EventRow]
  BY <1>0, <1>2, LaneType DEF Record, EventRow, Lanes
<1>3. ASSUME NEW l \in Lanes, NEW e \in Events, Reading(l, e) PROVE event' \in [Events -> EventRow]
  <2>1. CASE LaneChanged(l, e) \/ GuardFails(l, e)
    BY <1>0, <2>1, LaneType DEF LaneChanged, GuardFails, RefreshLane, EventRow, Lanes
  <2>2. CASE ConvertFails(l, e)
    BY <1>0, <2>2 DEF ConvertFails, EventRow, Lanes
  <2>3. CASE FinalizeEmpty(l, e)
    BY <1>0, <2>3 DEF FinalizeEmpty, EventRow, Lanes
  <2>4. CASE UNCHANGED event
    BY <1>0, <2>4
  <2>. QED
    BY <1>3, <2>1, <2>2, <2>3, <2>4 DEF Reading, AssignmentPending, Convert, Bind, RollBack, journalVars
<1>4. ASSUME NEW l \in Lanes, NEW e \in Events, IgnoreInactive(l, e)
      PROVE  event' \in [Events -> EventRow]
  BY <1>0, <1>4 DEF IgnoreInactive, EventRow, Lanes
<1>5. ASSUME NEW l \in Lanes, NEW e \in Events, Insert(l, e)
      PROVE  event' \in [Events -> EventRow]
  BY <1>0, <1>5 DEF Insert, EventRow, Lanes
<1>6. ASSUME NEW e \in Events, NEW rows, NEW selected PROVE Recovered(e, rows, selected) \in EventRow
  BY <1>0 DEF Recovered, EventRow, Lanes
<1>7. ASSUME NEW l \in Lanes, NEW e \in Events, AssignmentChanged(l, e)
      PROVE  event' \in [Events -> EventRow]
  <2>1. PICK r \in EventRow : event' = [event EXCEPT ![e] = r]
    BY <1>6, <1>7 DEF AssignmentChanged
  <2>. QED
    BY <1>0, <2>1
<1>8. CASE Sweeping
  <2>1. \A e \in Events : \A rows : SweptEvent(e, rows) \in EventRow
    BY <1>0, <1>6 DEF SweptEvent, EventRow, Lanes
  <2>2. PICK rows : event' = [e \in Events |-> SweptEvent(e, rows)]
    BY <1>8, SweepingFrame DEF Sweep
  <2>. QED
    BY <2>1, <2>2
<1>9. CASE SendRejected
  <2>1. PICK e \in Events, r \in Reasons : event' = [event EXCEPT ![e].reason = r]
    <3>1. Head(flush.stack)[1] \in Ops
      BY <1>9 DEF DeliveryInv, TypeOK, Flush, InFlush, SendRejected, Sending
    <3>. QED
      BY <1>0, <1>9, <3>1, Operation DEF SendRejected
  <2>. QED
    BY <1>0, <2>1 DEF EventRow, Lanes
<1>10. CASE Finalizing
  <2>1. FinalizeReady
    BY <1>10, FinalizingFrame
  <2>2. ASSUME NEW e \in Events PROVE event'[e] \in EventRow
    BY <1>0, <2>1 DEF FinalizeReady, EventRow, Lanes
  <2>3. event' = [e \in Events |-> event'[e]]
    BY <2>1 DEF FinalizeReady
  <2>. QED
    BY <2>2, <2>3
<1>11. CASE BootAmbiguous
  BY <1>0, <1>11 DEF BootAmbiguous, EventRow, Lanes
<1>12. CASE UNCHANGED event
  BY <1>0, <1>12
<1>. QED
  BY <1>2, <1>3, <1>4, <1>5, <1>7, <1>8, <1>9, <1>10, <1>11, <1>12, NextSteps, RoundFrame,
     DesiringFrame, ReleasingFrame, BatchingFrame DEF MarkSubmitting, Accept, Crash, journalVars

(* The batches that a step of the delivery thread works on. *)
LEMMA FlushHeads ==
    ASSUME DeliveryInv
    PROVE  /\ flush \in Flush /\ flush.todo \in Seq(Ops) /\ flush.stack \in Seq(Seq(Ops))
           /\ flush.marked \in SUBSET Ops
           /\ flush.pc = "mark" =>
                 /\ flush.todo # <<>> /\ Head(flush.todo) \in Ops /\ Tail(flush.todo) \in Seq(Ops)
                 /\ flush.stack = <<Head(flush.stack)>> /\ Head(flush.stack) \in Seq(Ops)
           /\ flush.pc = "accept" =>
                 flush.todo # <<>> /\ Head(flush.todo) \in Ops /\ Tail(flush.todo) \in Seq(Ops)
           /\ flush.pc = "send" =>
                 /\ flush.stack # <<>> /\ Head(flush.stack) \in Seq(Ops)
                 /\ Head(flush.stack) # <<>> /\ Head(flush.stack)[1] \in Ops
                 /\ Tail(flush.stack) \in Seq(Seq(Ops))
<1>1. /\ flush \in Flush /\ flush.todo \in Seq(Ops) /\ flush.stack \in Seq(Seq(Ops))
      /\ flush.marked \in SUBSET Ops
  BY DEF DeliveryInv, TypeOK, Flush
<1>2. CASE flush.pc = "mark"
  BY <1>1, <1>2 DEF DeliveryInv, InFlush
<1>3. CASE flush.pc = "accept"
  BY <1>1, <1>3 DEF DeliveryInv, InFlush
<1>4. CASE flush.pc = "send"
  <2>1. flush.stack # <<>> /\ \A a \in DOMAIN flush.stack : flush.stack[a] # <<>>
    BY <1>4 DEF DeliveryInv, InFlush
  <2>2. Head(flush.stack) \in Seq(Ops) /\ Head(flush.stack) = flush.stack[1] /\ 1 \in DOMAIN flush.stack
    BY <1>1, <2>1
  <2>3. Head(flush.stack) # <<>>
    BY <2>1, <2>2
  <2>. QED
    BY <1>1, <1>4, <2>1, <2>2, <2>3
<1>. QED
  BY <1>1, <1>2, <1>3, <1>4

LEMMA RowTypes ==
    ASSUME DeliveryInv
    PROVE  /\ row \in [Ops -> Row]
           /\ \A o \in Ops : /\ row[o] \in Row /\ row[o].state \in RowStates
                             /\ row[o].tried \in BOOLEAN
                             /\ row[o].account \in Nat /\ row[o].assignment \in Nat
                             /\ row[o].project \in Nat /\ row[o].stream \in Nat
                             /\ row[o].seen \in SUBSET Ops
BY DEF DeliveryInv, TypeOK, Row

LEMMA DesiredTypes ==
    ASSUME DeliveryInv
    PROVE  /\ account.generation \in Nat /\ account.enabled \in BOOLEAN
           /\ \A c \in Chats : /\ assignment[c] \in Assignment
                               /\ assignment[c].state \in {"selected", "unselected", "deleted"}
                               /\ assignment[c].generation \in Nat
                               /\ assignment[c].project \in Projects
                               /\ assignment[c].stream \in Nat
<1>1. budget.changes \in Nat
  BY DEF DeliveryInv, TypeOK
<1>2. \A c \in Chats : assignment[c].project \in Projects
  BY <1>1, DeliveryAssumption DEF DeliveryInv, InProjects, Projects
<1>. QED
  BY <1>2 DEF DeliveryInv, TypeOK, Assignment

LEMMA MappingTypes ==
    ASSUME DeliveryInv
    PROVE  \A m \in Messages :
              /\ mapping[m] \in Mapping
              /\ mapping[m].state \in {"absent", "pending", "committed", "deleted"}
              /\ mapping[m].project \in Nat /\ mapping[m].stream \in Nat
              /\ Mapped(m) => mapping[m].project \in Projects
BY DEF DeliveryInv, TypeOK, Mapping, InProjects

LEMMA GroupTypes ==
    ASSUME DeliveryInv, NEW l \in Lanes
    PROVE  /\ group[l] \in Group
           /\ group[l].pc \in {"idle", "take", "bind", "insert", "changed"}
           /\ group[l].todo \in Seq(Events)
           /\ group[l].new \in Prepared /\ group[l].new.ops \in SUBSET Ops
           /\ group[l].new.project \in Nat /\ group[l].new.stream \in Nat
           /\ group[l].account \in Nat /\ group[l].assignment \in Nat
           /\ group[l].pc # "idle" => /\ group[l].todo # <<>> /\ Head(group[l].todo) \in Events
                                      /\ Tail(group[l].todo) \in Seq(Events)
                                      /\ Head(group[l].todo) = group[l].todo[1]
<1>1. group[l] \in Group
  BY DEF DeliveryInv, TypeOK, Lanes
<1>2. group[l].todo \in Seq(Events)
  BY <1>1 DEF Group
<1>3. group[l].pc # "idle" => group[l].todo # <<>>
  BY DEF DeliveryInv, InGroups
<1>4. group[l].pc # "idle" => /\ Head(group[l].todo) \in Events
                              /\ Tail(group[l].todo) \in Seq(Events)
                              /\ Head(group[l].todo) = group[l].todo[1]
  BY <1>2, <1>3
<1>. QED
  BY <1>1, <1>2, <1>3, <1>4 DEF Group, Prepared

LEMMA RowType ==
    ASSUME DeliveryInv, Next
    PROVE  row' \in [Ops -> Row]
<1> USE DEF RowStates
<1>0. /\ row \in [Ops -> Row]
      /\ \A o \in Ops : /\ row[o] \in Row /\ row[o].state \in RowStates
                        /\ row[o].tried \in BOOLEAN
                        /\ row[o].account \in Nat /\ row[o].assignment \in Nat
                        /\ row[o].project \in Nat /\ row[o].stream \in Nat
                        /\ row[o].seen \in SUBSET Ops
  BY RowTypes
<1>1. NoRow \in Row
  BY DEF NoRow, Row
<1>2. ASSUME NEW o \in Ops, NEW s \in RowStates PROVE [row[o] EXCEPT !.state = s] \in Row
  BY <1>0 DEF Row
<1>3. queue \in Seq(Ops) /\ ToSet(queue) \in SUBSET Ops
  BY DEF DeliveryInv, TypeOK, ToSet
<1>15. ASSUME NEW o \in Ops, NEW S \in SUBSET Ops
       PROVE  [row[o] EXCEPT !.state = "rejected", !.seen = S] \in Row
  <2>1. [row[o] EXCEPT !.state = "rejected"] \in Row
    BY <1>2
  <2>2. ASSUME NEW r \in Row PROVE [r EXCEPT !.seen = S] \in Row
    BY DEF Row
  <2>3. [row[o] EXCEPT !.state = "rejected", !.seen = S]
           = [[row[o] EXCEPT !.state = "rejected"] EXCEPT !.seen = S]
    OBVIOUS
  <2>. QED
    BY <2>1, <2>2, <2>3
<1>4. ASSUME NEW l \in Lanes, NEW e \in Events, IgnoreInactive(l, e)
      PROVE  row' \in [Ops -> Row]
  BY <1>0, <1>2, <1>4 DEF IgnoreInactive
<1>5. ASSUME NEW l \in Lanes, NEW e \in Events, Insert(l, e)
      PROVE  row' \in [Ops -> Row]
  BY <1>0, <1>5, GroupTypes DEF Insert, NoRow, Row
<1>6. ASSUME NEW l \in Lanes, NEW e \in Events, AssignmentChanged(l, e)
      PROVE  row' \in [Ops -> Row]
  BY <1>0, <1>1, <1>6 DEF AssignmentChanged
<1>7. CASE Sweeping
  <2>1. \A o \in Ops : SweptRow(o) \in Row
    BY <1>0, <1>1, DesiredTypes, Operation DEF SweptRow, Row
  <2>2. row' = [o \in Ops |-> SweptRow(o)]
    BY <1>7, SweepingFrame DEF Sweep
  <2>. QED
    BY <2>1, <2>2
<1>8. CASE MarkSubmitting
  BY <1>0, <1>8, FlushHeads DEF MarkSubmitting, Row
<1>9. CASE Releasing
  BY <1>0, <1>2, <1>9, ReleasingFrame DEF Release
<1>10. CASE SendRejected
  <2>1. Head(flush.stack)[1] \in Ops
    BY <1>10, FlushHeads DEF SendRejected, Sending
  <2>2. row' = [row EXCEPT ![Head(flush.stack)[1]] =
                   [@ EXCEPT !.state = "rejected", !.seen = ToSet(queue)]]
    BY <1>0, <2>1, <1>10 DEF SendRejected, Row
  <2>. QED
    BY <1>0, <1>3, <1>15, <2>1, <2>2
<1>11. CASE Accept
  BY <1>0, <1>11, FlushHeads DEF Accept, Row
<1>12. CASE Finalizing
  <2>1. \A o \in Ops : RejectedRow(o) \in Row
    BY <1>3, <1>15 DEF RejectedRow
  <2>. QED
    BY <1>0, <1>1, <1>12, <2>1, FinalizedRows
<1>13. CASE BootAmbiguous
  BY <1>0, <1>2, <1>13 DEF BootAmbiguous
<1>14. CASE UNCHANGED row
  BY <1>0, <1>14
<1>. QED
  BY <1>4, <1>5, <1>6, <1>7, <1>8, <1>9, <1>10, <1>11, <1>12, <1>13, <1>14, NextSteps, RecordFrame,
     RoundFrame, ReadingFrame, DesiringFrame, BatchingFrame DEF Crash, outboxVars

LEMMA PreparedType ==
    ASSUME DeliveryInv, Next
    PROVE  prepared' \in [Events -> Prepared]
<1>0. prepared \in [Events -> Prepared] /\ NoPrepared \in Prepared
  BY DEF DeliveryInv, TypeOK, NoPrepared, Prepared
<1>1. ASSUME NEW l \in Lanes, NEW e \in Events, IgnoreInactive(l, e)
      PROVE  prepared' \in [Events -> Prepared]
  BY <1>0, <1>1 DEF IgnoreInactive
<1>2. ASSUME NEW l \in Lanes, NEW e \in Events, Insert(l, e)
      PROVE  prepared' \in [Events -> Prepared]
  BY <1>0, <1>2, GroupTypes DEF Insert
<1>3. ASSUME NEW l \in Lanes, NEW e \in Events, AssignmentChanged(l, e)
      PROVE  prepared' \in [Events -> Prepared]
  BY <1>0, <1>3 DEF AssignmentChanged
<1>4. CASE Sweeping
  BY <1>0, <1>4, SweepingFrame DEF Sweep
<1>5. CASE Finalizing
  <2>1. \A e \in Events : Narrowed(e) \in Prepared
    BY <1>0 DEF Narrowed, Prepared
  <2>. QED
    BY <1>0, <1>5, <2>1, FinalizedRows
<1>6. CASE UNCHANGED prepared
  BY <1>0, <1>6
<1>. QED
  BY <1>1, <1>2, <1>3, <1>4, <1>5, <1>6, NextSteps, RecordFrame, RoundFrame, ReadingFrame,
     DesiringFrame, BatchingFrame, ReleasingFrame
     DEF MarkSubmitting, SendRejected, Accept, BootAmbiguous, Crash, journalVars

LEMMA PartOrderType ==
    ASSUME NEW S \in SUBSET Ops
    PROVE  InPartOrder(S) \in Seq(Ops)
<1> DEFINE Of(part) == IF \E o \in S : o[2] = part THEN <<CHOOSE o \in S : o[2] = part>> ELSE <<>>
<1>1. ASSUME NEW part PROVE Of(part) \in Seq(Ops)
  <2>1. (\E o \in S : o[2] = part) => (CHOOSE o \in S : o[2] = part) \in Ops
    OBVIOUS
  <2>. QED
    BY <2>1
<1>2. InPartOrder(S) = Of("topic") \o Of("message") \o Of("read")
  BY DEF InPartOrder
<1> HIDE DEF Of
<1>. QED
  BY <1>1, <1>2

LEMMA QueueType ==
    ASSUME DeliveryInv, Next
    PROVE  queue' \in Seq(Ops)
<1>0. queue \in Seq(Ops)
  BY DEF DeliveryInv, TypeOK
<1>1. \A gone : Without(queue, gone) \in Seq(Ops)
  BY <1>0, WithoutRows
<1>2. ASSUME NEW l \in Lanes, NEW e \in Events, IgnoreInactive(l, e)
      PROVE  queue' \in Seq(Ops)
  BY <1>1, <1>2 DEF IgnoreInactive
<1>3. ASSUME NEW l \in Lanes, NEW e \in Events, Insert(l, e)
      PROVE  queue' \in Seq(Ops)
  <2>1. Inserted(l) \in SUBSET Ops
    BY GroupTypes DEF Inserted
  <2>2. queue' = queue \o InPartOrder(Inserted(l))
    BY <1>3 DEF Insert
  <2>. QED
    BY <1>0, <2>1, <2>2, PartOrderType
<1>4. ASSUME NEW l \in Lanes, NEW e \in Events, AssignmentChanged(l, e)
      PROVE  queue' \in Seq(Ops)
  BY <1>1, <1>4 DEF AssignmentChanged
<1>5. CASE Sweeping
  BY <1>1, <1>5, SweepingFrame DEF Sweep
<1>6. CASE Finalizing
  BY <1>1, <1>6, FinalizedRows
<1>7. CASE SendRejected
  BY <1>1, <1>7 DEF SendRejected
<1>8. CASE Accept
  BY <1>1, <1>8 DEF Accept
<1>9. CASE UNCHANGED queue
  BY <1>0, <1>9
<1>. QED
  BY <1>2, <1>3, <1>4, <1>5, <1>6, <1>7, <1>8, <1>9, NextSteps, RecordFrame, RoundFrame, ReadingFrame,
     DesiringFrame, BatchingFrame, ReleasingFrame
     DEF MarkSubmitting, BootAmbiguous, Crash, outboxVars

LEMMA IdemType ==
    ASSUME DeliveryInv, Next
    PROVE  idem' \in [Ops -> {"absent", "open", "committed", "rejected"}]
<1> DEFINE States == {"absent", "open", "committed", "rejected"}
<1>0. idem \in [Ops -> States]
  BY DEF DeliveryInv, TypeOK
<1>1. ASSUME NEW l \in Lanes, NEW e \in Events, Insert(l, e)
      PROVE  idem' \in [Ops -> States]
  BY <1>0, <1>1 DEF Insert
<1>2. ASSUME NEW l \in Lanes, NEW e \in Events, AssignmentChanged(l, e)
      PROVE  idem' \in [Ops -> States]
  BY <1>0, <1>2 DEF AssignmentChanged
<1>3. CASE Sweeping
  BY <1>0, <1>3, SweepingFrame DEF Sweep
<1>4. CASE Finalizing
  BY <1>0, <1>4, FinalizedRows
<1>5. CASE SendRejected
  BY <1>0, <1>5 DEF SendRejected
<1>6. CASE Accept
  BY <1>0, <1>6 DEF Accept
<1>7. CASE UNCHANGED idem
  BY <1>0, <1>7
<1>. QED
  BY <1>1, <1>2, <1>3, <1>4, <1>5, <1>6, <1>7, NextSteps, RecordFrame, RoundFrame, ReadingFrame,
     DesiringFrame, BatchingFrame, ReleasingFrame
     DEF IgnoreInactive, MarkSubmitting, BootAmbiguous, Crash, outboxVars

LEMMA PositionType ==
    ASSUME DeliveryInv, Next
    PROVE  position' \in [Ops -> Nat]
<1>0. position \in [Ops -> Nat]
  BY DEF DeliveryInv, TypeOK
<1>1. ASSUME NEW S \in SUBSET Ops PROVE Cardinality(S) \in Nat
  BY FiniteOps, FS_Subset, FS_CardinalityType
<1>2. ASSUME NEW S \in SUBSET Ops PROVE Allocated(S) \in [Ops -> Nat]
  <2> DEFINE known == {o \in Ops : position[o] > 0}
             rank == [topic |-> 1, message |-> 2, read |-> 3]
             upTo(o) == {d \in S \ known : rank[d[2]] <= rank[o[2]]}
  <2>1. Cardinality(known) \in Nat
    BY <1>1
  <2>2. ASSUME NEW o \in Ops PROVE Cardinality(upTo(o)) \in Nat
    <3>1. upTo(o) \in SUBSET Ops
      BY <1>2
    <3> HIDE DEF upTo
    <3>. QED
      BY <1>1, <3>1
  <2>3. Allocated(S) = [o \in Ops |-> IF o \in S \ known THEN Cardinality(known) + Cardinality(upTo(o))
                                      ELSE position[o]]
    BY DEF Allocated
  <2> HIDE DEF known, upTo
  <2>. QED
    BY <1>0, <2>1, <2>2, <2>3
<1>3. ASSUME NEW l \in Lanes, NEW e \in Events, Insert(l, e)
      PROVE  position' \in [Ops -> Nat]
  BY <1>2, <1>3, GroupTypes DEF Insert
<1>4. CASE UNCHANGED position
  BY <1>0, <1>4
<1>. QED
  BY <1>3, <1>4, NextSteps, RecordFrame, RoundFrame, ReadingFrame,
     DesiringFrame, BatchingFrame, ReleasingFrame, SweepingFrame, FinalizingFrame
     DEF IgnoreInactive, AssignmentChanged, SendRejected, Accept, MarkSubmitting, BootAmbiguous,
         Crash, outboxVars

(* What a conversion yields. *)
LEMMA RecordsGood ==
    ASSUME DeliveryInv, NEW e \in Events
    PROVE  /\ EventRecords(e) \in Prepared
           /\ WellFormed(e, EventRecords(e))
           /\ EventRecords(e).ops # {} => EventRecords(e).project \in Projects
           /\ Type[e] # "message" /\ EventRecords(e).ops # {} => Mapped(Message[e])
<1> DEFINE m == Message[e]
           a == assignment[Chat[m]]
<1>1. m \in Messages /\ Chat[m] \in Chats
  BY LaneType
<1>2. /\ a.project \in Projects /\ a.stream \in Nat
      /\ Mapped(m) => mapping[m].project \in Projects
      /\ mapping[m].stream \in Nat
      /\ \A p \in Projects : p \in Nat
  BY <1>1, DesiredTypes, MappingTypes DEF Projects
<1>3. ASSUME NEW p \in Projects, NEW s \in Nat, Type[e] = "message"
      PROVE  LET r == MessageRecords(e, p, s)
             IN  /\ r \in Prepared /\ r.ops # {} /\ r.project = p
                 /\ MainOp(e, p) \in r.ops
                 /\ \A o \in r.ops : EventOf(o) = e /\ o[3] = p
  <2>1. p > 0 /\ p \in Scopes
    BY DeliveryAssumption DEF Projects, Scopes
  <2>2. <<e, "message", p>> \in Ops /\ <<e, "topic", p>> \in Ops /\ (e \in Flagged => <<e, "read", p>> \in Ops)
    BY <1>3, <2>1 DEF Ops, Parts
  <2>3. MessageRecords(e, p, s).ops \in SUBSET Ops
    BY <2>2 DEF MessageRecords
  <2>4. MessageRecords(e, p, s) \in Prepared
    BY <1>2, <2>3 DEF MessageRecords, Prepared
  <2>5. \A o \in MessageRecords(e, p, s).ops :
           o \in {<<e, "message", p>>, <<e, "topic", p>>, <<e, "read", p>>}
    BY DEF MessageRecords
  <2>6. \A o \in MessageRecords(e, p, s).ops : o[1] = e /\ o[3] = p
    BY <2>5
  <2>7. MessageRecords(e, p, s).project = p /\ MainOp(e, p) \in MessageRecords(e, p, s).ops
    BY <1>3 DEF MessageRecords, MainOp
  <2>. QED
    BY <2>4, <2>6, <2>7 DEF EventOf
<1>4. CASE Replay(e)
  <2>1. EventRecords(e) = MessageRecords(e, mapping[m].project, mapping[m].stream)
    BY <1>4 DEF EventRecords, Replay, NeedsAssignment
  <2>2. Type[e] = "message" /\ Mapped(m)
    BY <1>4 DEF Replay
  <2>. QED
    BY <1>2, <1>3, <2>1, <2>2 DEF WellFormed
<1>5. CASE NeedsAssignment(e) /\ a.state = "selected"
  <2>1. EventRecords(e) = MessageRecords(e, a.project, a.stream)
    BY <1>5 DEF EventRecords, Replay, NeedsAssignment
  <2>2. Type[e] = "message"
    BY <1>5 DEF NeedsAssignment
  <2>. QED
    BY <1>2, <1>3, <2>1, <2>2 DEF WellFormed
<1>6. CASE Type[e] # "message" /\ Mapped(m) /\ ~DeletePending(m)
  <2>1. EventRecords(e) = [ops |-> {<<e, "message", 0>>}, project |-> mapping[m].project,
                           stream |-> mapping[m].stream]
    BY <1>6 DEF EventRecords, Replay, NeedsAssignment
  <2>2. MainOp(e, mapping[m].project) \in Ops /\ MainOp(e, mapping[m].project) = <<e, "message", 0>>
    BY <1>2, <1>6, MainOperation DEF MainOp
  <2>. QED
    BY <1>2, <1>6, <2>1, <2>2 DEF WellFormed, Prepared, EventOf
<1>7. CASE /\ ~Replay(e) /\ ~(NeedsAssignment(e) /\ a.state = "selected")
           /\ ~(Type[e] # "message" /\ Mapped(m) /\ ~DeletePending(m))
  <2>1. EventRecords(e) = NoPrepared
    BY <1>7 DEF EventRecords
  <2>. QED
    BY <2>1 DEF WellFormed, NoPrepared, Prepared
<1>. QED
  BY <1>4, <1>5, <1>6, <1>7

LEMMA MappingType ==
    ASSUME DeliveryInv, Next
    PROVE  mapping' \in [Messages -> Mapping]
<1> DEFINE States == {"absent", "pending", "committed", "deleted"}
<1>0. /\ mapping \in [Messages -> Mapping]
      /\ \A m \in Messages : mapping[m] \in Mapping /\ mapping[m].state \in States
  BY MappingTypes DEF DeliveryInv, TypeOK
<1>1. ASSUME NEW m \in Messages, NEW s \in States
      PROVE  [mapping[m] EXCEPT !.state = s] \in Mapping
  BY <1>0 DEF Mapping
<1>2. ASSUME NEW p \in Nat, NEW s \in Nat, NEW t \in States
      PROVE  [state |-> t, project |-> p, stream |-> s] \in Mapping
  BY DEF Mapping
<1>3. ASSUME NEW l \in Lanes, NEW e \in Events, Convert(l, e)
      PROVE  mapping' \in [Messages -> Mapping]
  <2>1. EventRecords(e).project \in Nat /\ EventRecords(e).stream \in Nat
    BY RecordsGood DEF Prepared
  <2>2. PICK r \in Mapping : mapping' = [mapping EXCEPT ![Message[e]] = r]
    BY <1>0, <1>2, <1>3, <2>1, LaneType DEF Convert
  <2>. QED
    BY <1>0, <2>2
<1>4. ASSUME NEW l \in Lanes, NEW e \in Events, FinalizeEmpty(l, e)
      PROVE  mapping' \in [Messages -> Mapping]
  <2>1. PICK s \in States : mapping' = [mapping EXCEPT ![Message[e]].state = s]
    BY <1>0, <1>4, LaneType DEF FinalizeEmpty
  <2>. QED
    BY <1>0, <1>1, <2>1, LaneType
<1>5. ASSUME NEW l \in Lanes, NEW e \in Events, AssignmentChanged(l, e)
      PROVE  mapping' \in [Messages -> Mapping]
  BY <1>0, <1>1, <1>5 DEF AssignmentChanged, Abandoned
<1>6. CASE Sweeping
  BY <1>0, <1>1, <1>6, SweepingFrame DEF Sweep, Abandoned
<1>7. CASE Finalizing
  <2>1. FinalizeReady
    BY <1>7, FinalizingFrame
  <2>2. \A m \in Messages : [mapping[m] EXCEPT !.state = "deleted"] \in Mapping
    BY <1>1
  <2> DEFINE Gone(m) ==
               \/ \E e \in Finished(RejectedRows) :
                     /\ ~(\E o \in RejectedRows : EventOf(o) = e)
                     /\ Type[e] = "delete" /\ Message[e] = m /\ Mapped(m)
               \/ /\ mapping[m].state = "pending"
                  /\ \E o \in Ops : /\ row[o].state = "rejected" /\ Kind(o) = "message.create"
                                    /\ MessageOf(o) = m /\ row[o].project = mapping[m].project
  <2>3. mapping' = [m \in Messages |->
                      IF Gone(m) THEN [mapping[m] EXCEPT !.state = "deleted"] ELSE mapping[m]]
    BY <2>1, Zenon DEF FinalizeReady
  <2> HIDE DEF Gone
  <2>. QED
    BY <1>0, <2>2, <2>3
<1>8. CASE SendRejected
  <2>1. Head(flush.stack)[1] \in Ops
    BY <1>8, FlushHeads DEF SendRejected, Sending
  <2>2. MessageOf(Head(flush.stack)[1]) \in Messages
    BY <2>1, Operation
  <2>3. PICK s \in States : mapping' = [mapping EXCEPT ![MessageOf(Head(flush.stack)[1])].state = s]
    BY <1>0, <1>8, <2>2 DEF SendRejected
  <2>. QED
    BY <1>0, <1>1, <2>2, <2>3
<1>9. CASE Accept
  <2>1. Head(flush.todo) \in Ops
    BY <1>9, FlushHeads DEF Accept
  <2>2. MessageOf(Head(flush.todo)) \in Messages
    BY <2>1, Operation
  <2>3. AcceptedMapping(Head(flush.todo)) \in Mapping
    BY <1>0, <1>1, <1>2, <2>1, <2>2, RowTypes DEF AcceptedMapping
  <2>4. mapping' = [mapping EXCEPT ![MessageOf(Head(flush.todo))] = AcceptedMapping(Head(flush.todo))]
    BY <1>9 DEF Accept
  <2>. QED
    BY <1>0, <2>2, <2>3, <2>4
<1>10. CASE UNCHANGED mapping
  BY <1>0, <1>10
<1>. QED
  BY <1>3, <1>4, <1>5, <1>6, <1>7, <1>8, <1>9, <1>10, NextSteps, RecordFrame, RoundFrame, ReadingFrame,
     DesiringFrame, BatchingFrame, ReleasingFrame
     DEF IgnoreInactive, Insert, MarkSubmitting, BootAmbiguous, Crash, mappingVars

LEMMA SmallTypes ==
    ASSUME DeliveryInv, Next
    PROVE  /\ topic' \in [Chats -> {"pending", "committed"}]
           /\ report' \in [Chats -> {"no", "queued", "done"}]
           /\ account' \in [generation: Nat, enabled: BOOLEAN]
           /\ control' \in {"idle", "applied"}
           /\ boot' \in {"ambiguous", "sweep", "finalize", "up"}
           /\ bad' \subseteq Rejectable
<1>0. /\ topic \in [Chats -> {"pending", "committed"}]
      /\ report \in [Chats -> {"no", "queued", "done"}]
      /\ account \in [generation: Nat, enabled: BOOLEAN] /\ account.generation \in Nat
      /\ control \in {"idle", "applied"}
      /\ boot \in {"ambiguous", "sweep", "finalize", "up"}
      /\ bad \subseteq Rejectable
  BY DEF DeliveryInv, TypeOK
<1>1. ASSUME NEW l \in Lanes, NEW e \in Events, Reading(l, e)
      PROVE  /\ UNCHANGED <<topic, account, control, boot, bad>>
             /\ report' \in [Chats -> {"no", "queued", "done"}]
  <2>1. CASE Convert(l, e) \/ AssignmentPending(l, e)
    <3>1. Reported(e)
      BY <2>1 DEF Convert, AssignmentPending
    <3>2. report' \in [Chats -> {"no", "queued", "done"}]
      BY <1>0, <3>1, LaneType DEF Reported
    <3>. QED
      BY <1>1, <3>2, ReadingFrame
  <2>2. CASE UNCHANGED report
    BY <1>0, <1>1, <2>2, ReadingFrame
  <2>. QED
    BY <1>1, <2>1, <2>2, ReadingFrame
<1>2. CASE Desiring
  <2>1. ASSUME NEW c \in Chats, ReportAccepted(c) PROVE report' \in [Chats -> {"no", "queued", "done"}]
    BY <1>0, <2>1 DEF ReportAccepted
  <2>2. ASSUME NEW c \in Chats, NEW kind \in Changes, ChangeAssignment(c, kind)
        PROVE  /\ topic' \in [Chats -> {"pending", "committed"}]
               /\ UNCHANGED <<report, account>> /\ control' = "applied"
    BY <1>0, <2>2 DEF ChangeAssignment, Changing
  <2>3. ASSUME NEW kind \in Changes, ChangeAccount(kind)
        PROVE  /\ account' \in [generation: Nat, enabled: BOOLEAN]
               /\ UNCHANGED <<report, topic>> /\ control' = "applied"
    <3>1. account' = [generation |-> account.generation + 1, enabled |-> kind # "disable"]
      BY <2>3 DEF ChangeAccount
    <3>2. account.generation + 1 \in Nat /\ (kind # "disable") \in BOOLEAN
      BY <1>0
    <3>3. account' \in [generation: Nat, enabled: BOOLEAN]
      BY <3>1, <3>2
    <3>. QED
      BY <2>3, <3>3 DEF ChangeAccount, Changing
  <2>. QED
    BY <1>0, <1>2, <2>1, <2>2, <2>3, DesiringFrame DEF Desiring, ReportAccepted
<1>3. CASE SendRejected
  <2>1. Head(flush.stack)[1] \in Ops
    BY <1>3, FlushHeads DEF SendRejected, Sending
  <2>2. topic' \in [Chats -> {"pending", "committed"}]
    BY <1>0, <1>3, <2>1, Operation DEF SendRejected
  <2>. QED
    BY <1>0, <1>3, <2>2 DEF SendRejected, workspaceVars, desiredVars
<1>4. CASE Accept
  <2>1. topic' \in [Chats -> {"pending", "committed"}]
    BY <1>0, <1>4, FlushHeads, Operation DEF Accept
  <2>. QED
    BY <1>0, <1>4, <2>1 DEF Accept, workspaceVars, desiredVars
<1>5. CASE UNCHANGED <<topic, report, account, bad>>
  <2>0. \/ UNCHANGED <<control, boot>>
        \/ \E l \in Lanes, e \in Events : Reading(l, e)
        \/ Desiring \/ Sweeping \/ Finalizing \/ SendRejected \/ Accept
        \/ Crash \/ BootAmbiguous
    BY NextSteps, RecordFrame, RoundFrame, BatchingFrame, ReleasingFrame
       DEF IgnoreInactive, Insert, AssignmentChanged, MarkSubmitting
  <2>1. control' \in {"idle", "applied"}
    BY <1>0, <1>1, <1>2, <1>3, <1>4, <2>0, SweepingFrame, FinalizingFrame DEF BootAmbiguous, Crash
  <2>2. boot' \in {"ambiguous", "sweep", "finalize", "up"}
    BY <1>0, <1>1, <1>2, <1>3, <1>4, <2>0, SweepingFrame, FinalizingFrame DEF BootAmbiguous, Crash
  <2>. QED
    BY <1>0, <1>5, <2>1, <2>2
<1>6. \/ UNCHANGED <<topic, report, account, bad>>
      \/ \E l \in Lanes, e \in Events : Reading(l, e)
      \/ Desiring \/ SendRejected \/ Accept
  BY NextSteps, RecordFrame, RoundFrame, SweepingFrame, BatchingFrame, ReleasingFrame, FinalizingFrame
     DEF IgnoreInactive, Insert, AssignmentChanged, MarkSubmitting, BootAmbiguous, Crash,
         mappingVars, desiredVars, workspaceVars
<1>. QED
  BY <1>0, <1>1, <1>2, <1>3, <1>4, <1>5, <1>6

LEMMA BudgetStep ==
    ASSUME DeliveryInv, Next
    PROVE  /\ budget' \in [changes: Nat, accounts: Nat, crashes: Nat, faults: Nat]
           /\ assignment' \in [Chats -> Assignment]
           /\ budget'.changes <= MaxChanges
           /\ \A c \in Chats : assignment'[c].project \in 1 .. (MaxChanges + 1) - budget'.changes
<1> DEFINE B == [changes: Nat, accounts: Nat, crashes: Nat, faults: Nat]
<1>0. /\ budget \in B /\ budget.changes \in Nat /\ budget.accounts \in Nat
      /\ budget.crashes \in Nat /\ budget.faults \in Nat
      /\ budget.changes <= MaxChanges /\ MaxChanges \in Nat
      /\ assignment \in [Chats -> Assignment]
      /\ \A c \in Chats : assignment[c].project \in 1 .. (MaxChanges + 1) - budget.changes
  BY DeliveryAssumption DEF DeliveryInv, TypeOK, InProjects
<1>1. ASSUME NEW n \in Nat, NEW b, \/ b = [budget EXCEPT !.accounts = n]
                                   \/ b = [budget EXCEPT !.crashes = n]
                                   \/ b = [budget EXCEPT !.faults = n]
      PROVE  b \in B /\ b.changes = budget.changes
  BY <1>0, <1>1
<1>2. ASSUME NEW c \in Chats, NEW kind \in Changes, ChangeAssignment(c, kind)
      PROVE  /\ budget' \in B
             /\ assignment' \in [Chats -> Assignment]
             /\ budget'.changes <= MaxChanges
             /\ \A d \in Chats : assignment'[d].project \in 1 .. (MaxChanges + 1) - budget'.changes
  <2> DEFINE a == assignment[c]
             b == ChangedAssignment(a, kind)
  <2>1. /\ budget' = [budget EXCEPT !.changes = budget.changes - 1] /\ budget.changes > 0
        /\ assignment' = [assignment EXCEPT ![c] = b]
        /\ kind \in {"touch", "stream", "move", "deselect", "delete", "select"}
    BY <1>0, <1>2 DEF ChangeAssignment
  <2>2. /\ a \in Assignment /\ a.state \in {"selected", "unselected", "deleted"}
        /\ a.generation \in Nat /\ a.project \in Nat /\ a.stream \in Nat
        /\ a.project >= 1 /\ a.project <= (MaxChanges + 1) - budget.changes
    BY <1>0 DEF Assignment
  <2>3. b \in Assignment /\ b.project \in {a.project, a.project + 1}
    <3> DEFINE g == a.generation + 1
               x == [a EXCEPT !.generation = g]
               y == [x EXCEPT !.stream = a.stream + 1]
    <3>7. /\ x \in Assignment /\ x.project = a.project
          /\ y \in Assignment /\ y.project = a.project
      <4>1. g \in Nat /\ a.stream + 1 \in Nat
        BY <2>2
      <4>2. x \in Assignment /\ x.project = a.project
        BY <2>2, <4>1 DEF Assignment
      <4> HIDE DEF x
      <4>3. y \in Assignment /\ y.project = x.project
        BY <4>1, <4>2 DEF Assignment
      <4>. QED BY <4>2, <4>3
    <3>8. /\ kind = "touch" => b = x
          /\ kind = "stream" => b = y
          /\ kind = "move" => b = [y EXCEPT !.project = a.project + 1]
          /\ kind = "deselect" => b = [x EXCEPT !.state = "unselected"]
          /\ kind = "delete" => b = [x EXCEPT !.state = "deleted"]
          /\ kind = "select" => b = [x EXCEPT !.state = "selected"]
      BY <2>2 DEF ChangedAssignment, Assignment
    <3> HIDE DEF x, y
    <3>9. ASSUME NEW s \in {"selected", "unselected", "deleted"}
          PROVE  [x EXCEPT !.state = s] \in Assignment /\ [x EXCEPT !.state = s].project = x.project
      BY <3>7 DEF Assignment
    <3>10. /\ [y EXCEPT !.project = a.project + 1] \in Assignment
           /\ [y EXCEPT !.project = a.project + 1].project = a.project + 1
      BY <2>2, <3>7 DEF Assignment
    <3> HIDE DEF b
    <3>. QED BY <2>1, <3>7, <3>8, <3>9, <3>10
  <2>4. budget' \in B /\ budget'.changes = budget.changes - 1
    BY <1>0, <2>1
  <2> HIDE DEF b, B
  <2>5. assignment' \in [Chats -> Assignment]
    BY <1>0, <2>1, <2>3
  <2>6. ASSUME NEW d \in Chats
        PROVE  assignment'[d].project \in 1 .. (MaxChanges + 1) - budget'.changes
    <3>1. CASE d = c
      BY <1>0, <2>1, <2>2, <2>3, <2>4, <3>1
    <3>2. CASE d # c
      BY <1>0, <2>1, <2>4, <3>2
    <3>. QED BY <3>1, <3>2
  <2>. QED
    BY <1>0, <2>1, <2>4, <2>5, <2>6
<1>3. CASE \E kind \in Changes : ChangeAccount(kind)
  <2>1. /\ budget' = [budget EXCEPT !.accounts = budget.accounts - 1]
        /\ budget.accounts - 1 \in Nat /\ UNCHANGED assignment
    BY <1>0, <1>3 DEF ChangeAccount
  <2>. QED
    BY <1>0, <1>1, <2>1
<1>4. CASE \/ SendLost
           \/ \E l \in Lanes, e \in Events : ConvertFails(l, e)
  <2>1. /\ budget' = [budget EXCEPT !.faults = budget.faults - 1] /\ budget.faults - 1 \in Nat
        /\ UNCHANGED assignment
    <3>1. CASE SendLost
      BY <1>0, <3>1 DEF SendLost, Release, desiredVars
    <3>2. ASSUME NEW l \in Lanes, NEW e \in Events, ConvertFails(l, e)
          PROVE  /\ budget' = [budget EXCEPT !.faults = budget.faults - 1]
                 /\ budget.faults - 1 \in Nat /\ UNCHANGED assignment
      BY <1>0, <3>2 DEF ConvertFails, desiredVars
    <3>. QED
      BY <1>4, <3>1, <3>2
  <2>. QED
    BY <1>0, <1>1, <2>1
<1>5. CASE Crash
  <2>1. /\ budget' = [budget EXCEPT !.crashes = budget.crashes - 1] /\ budget.crashes - 1 \in Nat
        /\ UNCHANGED assignment
    BY <1>0, <1>5 DEF Crash, desiredVars
  <2>. QED
    BY <1>0, <1>1, <2>1
<1>6. CASE UNCHANGED <<budget, assignment>>
  BY <1>0, <1>6
<1>. QED
  BY <1>2, <1>3, <1>4, <1>5, <1>6, NextSteps, RecordFrame, RoundFrame, SweepingFrame, ReadingFrame,
     BatchingFrame, ReleasingFrame, FinalizingFrame, DesiringFrame
     DEF IgnoreInactive, Insert, AssignmentChanged, MarkSubmitting, BootAmbiguous,
         SendRejected, Accept, desiredVars

-----------------------------------------------------------------------------
(* Lane groups *)

LEMMA LaneSelectionRows ==
    ASSUME NEW l \in Lanes
    PROVE  /\ LaneSelection(l) \in Seq(Events)
           /\ \A i \in DOMAIN LaneSelection(l) : event[LaneSelection(l)[i]].lane = l
<1> DEFINE all == [e \in Events |-> e]
           rows == IF l = None \/ LaneRows(l) = {} THEN LaneHead(l) ELSE LaneRows(l)
           sorted == Selected(all, rows)
           n == IF Len(sorted) < LaneBatch THEN Len(sorted) ELSE LaneBatch
<1>1. all \in Seq(Events) /\ Len(all) = EventCount /\ \A i \in 1..EventCount : all[i] = i
  BY DeliveryAssumption DEF Events
<1>2. \A e \in rows : e \in Events /\ event[e].lane = l
  BY DEF LaneHead, LaneRows
<1>3. LaneSelection(l) = SubSeq(sorted, 1, n)
  BY DEF LaneSelection
<1> HIDE DEF all, rows
<1>4. sorted \in Seq(Events)
  BY <1>1, SelectedRows
<1>5. \A j \in 1..Len(sorted) : \E i \in 1..Len(all) : i \in rows /\ sorted[j] = all[i]
  BY <1>1, SelectedRows
<1>6. \A j \in 1..Len(sorted) : event[sorted[j]].lane = l
  BY <1>1, <1>2, <1>5
<1>7. n \in Nat /\ n <= Len(sorted) /\ Len(sorted) \in Nat
  BY <1>4, DeliveryAssumption
<1> HIDE DEF sorted, n
<1>8. /\ SubSeq(sorted, 1, n) \in Seq(Events) /\ Len(SubSeq(sorted, 1, n)) = n
      /\ \A i \in 1..n : SubSeq(sorted, 1, n)[i] = sorted[i]
  BY <1>4, <1>7
<1>. QED
  BY <1>3, <1>6, <1>7, <1>8

(* What is left of a lane group's rows when it goes on or ends. *)
Shrunk(l, g) ==
    /\ g \in Group
    /\ g.pc \in {"idle", "take"}
    /\ g.pc # "idle" => g.todo # <<>>
    /\ \A i \in DOMAIN g.todo : \E j \in DOMAIN group[l].todo : g.todo[i] = group[l].todo[j]

LEMMA IdleGroup ==
    /\ GroupIdle \in Group /\ GroupIdle.pc = "idle" /\ DOMAIN GroupIdle.todo = {}
    /\ \A l : Shrunk(l, GroupIdle)
    /\ \A s \in Seq(Events) : LET g == [GroupIdle EXCEPT !.pc = "take", !.todo = s]
                              IN  g \in Group /\ g.pc = "take" /\ g.todo = s
<1>1. GroupIdle \in Group /\ GroupIdle.pc = "idle" /\ DOMAIN GroupIdle.todo = {}
  BY DEF GroupIdle, Group, NoPrepared, Prepared
<1>2. \A l : Shrunk(l, GroupIdle)
  BY <1>1 DEF Shrunk
<1>3. ASSUME NEW s \in Seq(Events)
      PROVE  LET g == [GroupIdle EXCEPT !.pc = "take", !.todo = s]
             IN  g \in Group /\ g.pc = "take" /\ g.todo = s
  <2> DEFINE h == [GroupIdle EXCEPT !.pc = "take"]
             g == [h EXCEPT !.todo = s]
  <2>1. [GroupIdle EXCEPT !.pc = "take", !.todo = s] = g
    OBVIOUS
  <2>2. h \in Group /\ h.pc = "take"
    BY <1>1 DEF Group
  <2> HIDE DEF h
  <2>3. g \in Group /\ g.pc = h.pc /\ g.todo = s
    BY <2>2 DEF Group
  <2>. QED
    BY <2>1, <2>2, <2>3
<1>. QED
  BY <1>1, <1>2, <1>3

LEMMA NextRowGroup ==
    ASSUME DeliveryInv, NEW l \in Lanes, group[l].pc # "idle"
    PROVE  Shrunk(l, NextRow(l))
<1>1. /\ group[l].todo \in Seq(Events) /\ group[l].todo # <<>>
  BY GroupTypes
<1>2. CASE Len(group[l].todo) > 1
  <2> DEFINE s == Tail(group[l].todo)
  <2>0. s \in Seq(Events) /\ Len(s) = Len(group[l].todo) - 1
    BY <1>1, <1>2
  <2>4. Len(s) > 0 /\ DOMAIN s = 1..Len(s) /\ DOMAIN group[l].todo = 1..Len(group[l].todo)
    BY <1>1, <1>2, <2>0
  <2>5. \A i \in 1..Len(s) : s[i] = group[l].todo[i + 1]
    BY <1>1, <1>2, <2>0
  <2> HIDE DEF s
  <2>6. s # <<>>
    BY <2>4
  <2>7. \A i \in 1..Len(s) : i + 1 \in 1..Len(group[l].todo)
    BY <1>1, <2>0, <2>4
  <2>1. /\ s \in Seq(Events) /\ s # <<>>
        /\ \A i \in DOMAIN s : i + 1 \in DOMAIN group[l].todo /\ s[i] = group[l].todo[i + 1]
    BY <2>0, <2>4, <2>5, <2>6, <2>7
  <2>2. NextRow(l) = [GroupIdle EXCEPT !.pc = "take", !.todo = s]
    BY <1>2 DEF NextRow, s
  <2>3. NextRow(l) \in Group /\ NextRow(l).pc = "take" /\ NextRow(l).todo = s
    BY <2>1, <2>2, IdleGroup
  <2>8. ASSUME NEW i \in DOMAIN s PROVE \E j \in DOMAIN group[l].todo : s[i] = group[l].todo[j]
    BY <2>1
  <2>. QED
    BY <2>1, <2>3, <2>8 DEF Shrunk
<1>3. CASE ~(Len(group[l].todo) > 1)
  BY <1>3, IdleGroup DEF NextRow
<1>. QED
  BY <1>2, <1>3

(* A group converts its first row, binds or rolls it back, or is done with   *)
(* it.                                                                       *)
LEMMA GroupStep ==
    ASSUME DeliveryInv, Next
    PROVE  \/ UNCHANGED group
           \/ SelectRound
           \/ Crash
           \/ \E l \in Lanes, e \in Events : Convert(l, e) \/ Bind(l, e) \/ RollBack(l, e)
           \/ \E l \in Lanes, g \in Group :
                 Shrunk(l, g) /\ group[l].pc # "idle" /\ group' = [group EXCEPT ![l] = g]
<1>1. ASSUME NEW l \in Lanes, group[l].pc # "idle", Processed(l) \/ LeftForLater(l)
      PROVE  \E g \in Group : Shrunk(l, g) /\ group[l].pc # "idle" /\ group' = [group EXCEPT ![l] = g]
  <2>1. Shrunk(l, NextRow(l)) /\ Shrunk(l, GroupIdle)
    BY <1>1, NextRowGroup, IdleGroup
  <2>. QED
    BY <1>1, <2>1 DEF Shrunk, Processed, LeftForLater
<1>2. ASSUME NEW l \in Lanes, NEW e \in Events,
             \/ IgnoreInactive(l, e) \/ LaneChanged(l, e) \/ AssignmentPending(l, e)
             \/ ConvertFails(l, e)
      PROVE  \E g \in Group : Shrunk(l, g) /\ group[l].pc # "idle" /\ group' = [group EXCEPT ![l] = g]
  <2>1. group[l].pc # "idle" /\ (Processed(l) \/ LeftForLater(l))
    BY <1>2 DEF IgnoreInactive, LaneChanged, AssignmentPending, ConvertFails, Taking
  <2>. QED
    BY <1>1, <2>1
<1>3. ASSUME NEW l \in Lanes, NEW e \in Events,
             \/ GuardFails(l, e) \/ FinalizeEmpty(l, e) \/ Insert(l, e) \/ AssignmentChanged(l, e)
      PROVE  \E g \in Group : Shrunk(l, g) /\ group[l].pc # "idle" /\ group' = [group EXCEPT ![l] = g]
  <2>1. group[l].pc # "idle" /\ (Processed(l) \/ LeftForLater(l))
    BY <1>3 DEF GuardFails, FinalizeEmpty, Insert, AssignmentChanged, Binding
  <2>. QED
    BY <1>1, <2>1
<1>4. CASE UNCHANGED group
  BY <1>4
<1>. QED
  BY <1>2, <1>3, <1>4, NextSteps, RecordFrame, SweepingFrame,
     BatchingFrame, ReleasingFrame, FinalizingFrame, DesiringFrame
     DEF Reading, MarkSubmitting, BootAmbiguous, SendRejected, Accept

LEMMA GroupWork ==
    ASSUME DeliveryInv, NEW l \in Lanes, NEW e \in Events,
           Convert(l, e) \/ Bind(l, e) \/ RollBack(l, e)
    PROVE  /\ group[l].pc # "idle" /\ e = Head(group[l].todo)
           /\ \E g \in Group :
                 /\ group' = [group EXCEPT ![l] = g]
                 /\ g.todo = group[l].todo
                 /\ \/ Convert(l, e) /\ g.pc = "bind" /\ g.new = EventRecords(e)
                    \/ Bind(l, e) /\ g.pc = "insert" /\ g.new = RecordsToStore(l, e)
                    \/ RollBack(l, e) /\ g.pc = "changed" /\ g.new = group[l].new
<1>0. group[l] \in Group /\ group \in [Lanes -> Group]
  BY GroupTypes DEF DeliveryInv, TypeOK, Lanes
<1>1. CASE Convert(l, e)
  <2> DEFINE n == EventRecords(e)
             h == [group[l] EXCEPT !.pc = "bind"]
             g == [h EXCEPT !.new = n]
  <2>1. group' = [group EXCEPT ![l].pc = "bind", ![l].new = n]
    BY <1>1 DEF Convert
  <2>2. n \in Prepared
    BY RecordsGood
  <2> HIDE DEF n
  <2>3. group' = [group EXCEPT ![l] = g]
    BY <1>0, <2>1
  <2>4. h \in Group /\ h.todo = group[l].todo /\ h.pc = "bind"
    BY <1>0 DEF Group
  <2> HIDE DEF h
  <2>5. g \in Group /\ g.todo = h.todo /\ g.pc = h.pc /\ g.new = n
    BY <2>2, <2>4 DEF Group
  <2> HIDE DEF g
  <2>. QED
    BY <1>1, <2>3, <2>4, <2>5 DEF n, Convert, Taking
<1>2. CASE Bind(l, e)
  <2> DEFINE n == RecordsToStore(l, e)
             a == assignment[Chat[Message[e]]].generation
             g1 == [group[l] EXCEPT !.pc = "insert"]
             g2 == [g1 EXCEPT !.new = n]
             g3 == [g2 EXCEPT !.account = account.generation]
             g4 == [g3 EXCEPT !.assignment = a]
  <2>1. n \in Prepared
    BY GroupTypes DEF DeliveryInv, TypeOK, RecordsToStore
  <2>2. a \in Nat /\ account.generation \in Nat
    BY DesiredTypes, LaneType
  <2>3. group' = [group EXCEPT ![l].pc = "insert", ![l].new = n,
                               ![l].account = account.generation, ![l].assignment = a]
    BY <1>2 DEF Bind
  <2> HIDE DEF n, a
  <2>4. group' = [group EXCEPT ![l] = g4]
    BY <1>0, <2>3
  <2>5. g1 \in Group /\ g1.todo = group[l].todo /\ g1.pc = "insert"
    BY <1>0 DEF Group
  <2> HIDE DEF g1
  <2>6. g2 \in Group /\ g2.todo = g1.todo /\ g2.pc = g1.pc /\ g2.new = n
    BY <2>1, <2>5 DEF Group
  <2> HIDE DEF g2
  <2>7. g3 \in Group /\ g3.todo = g2.todo /\ g3.pc = g2.pc /\ g3.new = g2.new
    BY <2>2, <2>6 DEF Group
  <2> HIDE DEF g3
  <2>8. g4 \in Group /\ g4.todo = g3.todo /\ g4.pc = g3.pc /\ g4.new = g3.new
    BY <2>2, <2>7 DEF Group
  <2> HIDE DEF g4
  <2>9. g4.todo = group[l].todo /\ g4.pc = "insert" /\ g4.new = RecordsToStore(l, e)
    BY <2>5, <2>6, <2>7, <2>8 DEF n
  <2>10. group[l].pc # "idle" /\ e = Head(group[l].todo)
    BY <1>2 DEF Bind, Binding
  <2>. QED
    BY <1>2, <2>4, <2>8, <2>9, <2>10
<1>3. CASE RollBack(l, e)
  <2> DEFINE g == [group[l] EXCEPT !.pc = "changed"]
  <2>1. g \in Group /\ g.todo = group[l].todo /\ g.pc = "changed" /\ g.new = group[l].new
    BY <1>0 DEF Group
  <2>2. group' = [group EXCEPT ![l] = g]
    BY <1>0, <1>3 DEF RollBack
  <2> HIDE DEF g
  <2>. QED
    BY <1>3, <2>1, <2>2 DEF RollBack, Binding
<1>. QED
  BY <1>1, <1>2, <1>3

LEMMA GroupType ==
    ASSUME DeliveryInv, Next
    PROVE  /\ group' \in [Lanes -> Group]
           /\ \A l \in Lanes : group'[l].pc # "idle" => group'[l].todo # <<>>
           /\ \A l, k \in Lanes : l # k =>
                \A i \in DOMAIN group'[l].todo, j \in DOMAIN group'[k].todo :
                    group'[l].todo[i] # group'[k].todo[j]
<1> DEFINE Good(h) ==
        /\ h \in [Lanes -> Group]
        /\ \A l \in Lanes : h[l].pc # "idle" => h[l].todo # <<>>
        /\ \A l, k \in Lanes : l # k =>
             \A i \in DOMAIN h[l].todo, j \in DOMAIN h[k].todo : h[l].todo[i] # h[k].todo[j]
<1>0. Good(group)
  BY DEF DeliveryInv, TypeOK, InGroups, Lanes
<1>1. CASE SelectRound
  <2>1. ASSUME NEW l \in Lanes
        PROVE  /\ group'[l] \in Group
               /\ group'[l].pc # "idle" => group'[l].todo # <<>>
               /\ \A i \in DOMAIN group'[l].todo : event[group'[l].todo[i]].lane = l
    <3>1. CASE LaneSelection(l) = <<>>
      <4>1. group'[l] = GroupIdle
        BY <1>1, <3>1 DEF SelectRound, Lanes
      <4>. QED
        BY <4>1, IdleGroup
    <3>2. CASE LaneSelection(l) # <<>>
      <4>1. group'[l] = [GroupIdle EXCEPT !.pc = "take", !.todo = LaneSelection(l)]
        BY <1>1, <3>2 DEF SelectRound, Lanes
      <4>2. group'[l] \in Group /\ group'[l].todo = LaneSelection(l)
        BY <4>1, IdleGroup, LaneSelectionRows
      <4>. QED
        BY <3>2, <4>2, LaneSelectionRows
    <3>. QED
      BY <3>1, <3>2
  <2>2. group' \in [Lanes -> Group]
    <3>1. group' = [l \in Lanes |-> group'[l]]
      BY <1>1 DEF SelectRound, Lanes
    <3>. QED
      BY <2>1, <3>1
  <2>. QED
    BY <2>1, <2>2
<1>2. CASE Crash
  <2>1. group' = [l \in Lanes |-> GroupIdle]
    BY <1>2 DEF Crash, Lanes
  <2>. QED
    BY <2>1, IdleGroup
<1>3. ASSUME NEW l \in Lanes, NEW e \in Events, Convert(l, e) \/ Bind(l, e) \/ RollBack(l, e)
      PROVE  Good(group')
  <2>1. PICK g \in Group : /\ group' = [group EXCEPT ![l] = g]
                           /\ g.todo = group[l].todo
    BY <1>3, GroupWork
  <2>2. g.todo # <<>>
    <3>1. group[l].pc # "idle"
      BY <1>3 DEF Convert, Bind, RollBack, Taking, Binding
    <3>. QED
      BY <2>1, <3>1, GroupTypes
  <2>. QED
    BY <1>0, <2>1, <2>2
<1>4. ASSUME NEW l \in Lanes, NEW g \in Group, Shrunk(l, g), group' = [group EXCEPT ![l] = g]
      PROVE  Good(group')
  BY <1>0, <1>4 DEF Shrunk
<1>. QED
  BY <1>0, <1>1, <1>2, <1>3, <1>4, GroupStep

(* The rows of two groups differ. *)
LEMMA OtherRow ==
    ASSUME DeliveryInv, NEW l \in Lanes, NEW k \in Lanes, l # k,
           group[l].pc # "idle", group[k].pc # "idle"
    PROVE  Head(group[l].todo) # Head(group[k].todo)
<1>1. /\ 1 \in DOMAIN group[l].todo /\ Head(group[l].todo) = group[l].todo[1]
      /\ 1 \in DOMAIN group[k].todo /\ Head(group[k].todo) = group[k].todo[1]
  BY GroupTypes
<1>. QED
  BY <1>1 DEF DeliveryInv, InGroups

(* While a row is being stored nobody else changes its state or its          *)
(* prepared records.                                                         *)
LEMMA StoredAlone ==
    ASSUME DeliveryInv, Next, NEW l \in Lanes, group[l].pc = "insert", group'[l] = group[l]
    PROVE  LET e == Head(group[l].todo)
           IN  event'[e].state = "pending" /\ prepared'[e] = prepared[e]
<1> DEFINE e == Head(group[l].todo)
<1>1. e \in Events /\ event[e].state = "pending" /\ event \in [Events -> EventRow]
      /\ prepared \in [Events -> Prepared]
  BY GroupTypes DEF DeliveryInv, TypeOK, InGroups
<1>2. \A k \in Lanes : group[k].pc \notin {"idle", "insert"} => e # Head(group[k].todo)
  BY OtherRow
<1>3. l \in Chats
  BY DEF DeliveryInv, InGroups, Storing, Lanes
<1> SUFFICES event'[e].state = "pending" /\ prepared'[e] = prepared[e]
  OBVIOUS
<1> HIDE DEF e
<1>4. ASSUME NEW d \in Events, Record(d)
      PROVE  event'[e].state = "pending" /\ prepared'[e] = prepared[e]
  BY <1>1, <1>4 DEF Record, EventRow
<1>5. ASSUME NEW k \in Lanes, NEW d \in Events, Reading(k, d)
      PROVE  event'[e].state = "pending" /\ prepared'[e] = prepared[e]
  <2>1. group[k].pc \notin {"idle", "insert"} /\ d = Head(group[k].todo)
    BY <1>5 DEF Reading, LaneChanged, AssignmentPending, ConvertFails, Convert, GuardFails,
                FinalizeEmpty, Bind, RollBack, Taking, Binding
  <2>2. d # e
    BY <1>2, <2>1
  <2>3. event'[e] = event[e]
    BY <1>1, <1>5, <2>2 DEF Reading, LaneChanged, AssignmentPending, ConvertFails, Convert,
       GuardFails, FinalizeEmpty, Bind, RollBack, RefreshLane, journalVars
  <2>. QED
    BY <1>1, <1>5, <2>3, ReadingFrame
<1>6. ASSUME NEW k \in Lanes, NEW d \in Events, IgnoreInactive(k, d) \/ AssignmentChanged(k, d)
      PROVE  event'[e].state = "pending" /\ prepared'[e] = prepared[e]
  <2>1. group[k].pc \notin {"idle", "insert"} /\ d = Head(group[k].todo)
    BY <1>6 DEF IgnoreInactive, AssignmentChanged, Taking, Binding
  <2>2. d # e
    BY <1>2, <2>1
  <2>3. \E r, p : event' = [event EXCEPT ![d] = r] /\ prepared' = [prepared EXCEPT ![d] = p]
    <3>1. CASE IgnoreInactive(k, d)
      <4>1. event' = [event EXCEPT ![d] =
                        [event[d] EXCEPT !.state = IF Active(d) THEN "ignored" ELSE event[d].state]]
        BY <1>1, <3>1 DEF IgnoreInactive
      <4>. QED
        BY <3>1, <4>1 DEF IgnoreInactive
    <3>2. CASE AssignmentChanged(k, d)
      BY <3>2 DEF AssignmentChanged
    <3>. QED
      BY <1>6, <3>1, <3>2
  <2>. QED
    BY <1>1, <2>2, <2>3
<1>7. ASSUME NEW k \in Lanes, NEW d \in Events, Insert(k, d)
      PROVE  event'[e].state = "pending" /\ prepared'[e] = prepared[e]
  <2>1. group[k].pc = "insert" /\ d = Head(group[k].todo)
    BY <1>7 DEF Insert, Binding
  <2>2. k # l
    <3>1. Shrunk(k, NextRow(k)) /\ group' = [group EXCEPT ![k] = NextRow(k)]
      BY <1>7, <2>1, NextRowGroup DEF Insert, Processed
    <3>2. group \in [Lanes -> Group]
      BY DEF DeliveryInv, TypeOK, Lanes
    <3>3. group'[k].pc # "insert"
      BY <3>1, <3>2 DEF Shrunk
    <3>. QED
      BY <3>3
  <2>3. d # e
    BY <2>1, <2>2, OtherRow DEF e
  <2>. QED
    BY <1>1, <1>7, <2>3 DEF Insert
<1>8. CASE Sweeping
  <2>1. e \notin UnsafeEvents /\ e \notin {EventOf(o) : o \in Removed}
    BY <1>3, <1>8, SweepingFrame DEF Sweep, SweepBlocked, e
  <2>2. \A rows : SweptEvent(e, rows) = event[e]
    BY <2>1 DEF SweptEvent
  <2>3. e \notin Forgotten
    BY <2>1 DEF Forgotten
  <2>. QED
    BY <1>1, <1>8, <2>2, <2>3, SweepingFrame DEF Sweep
<1>9. CASE SendRejected
  BY <1>1, <1>9 DEF SendRejected, EventRow
<1>10. CASE Finalizing
  <2>1. e \notin Finished(RejectedRows)
    BY <1>1 DEF Finished
  <2>. QED
    BY <1>1, <1>10, <2>1, FinalizingFrame, FinalizedRows DEF FinalizeReady
<1>11. CASE BootAmbiguous
  BY <1>1, <1>11 DEF BootAmbiguous
<1>12. CASE UNCHANGED <<event, prepared>>
  BY <1>1, <1>12
<1>. QED
  BY <1>4, <1>5, <1>6, <1>7, <1>8, <1>9, <1>10, <1>11, <1>12, NextSteps, RoundFrame, DesiringFrame,
     BatchingFrame, ReleasingFrame DEF MarkSubmitting, Accept, Crash, journalVars, e

LEMMA GroupsStep ==
    ASSUME DeliveryInv, Next
    PROVE  InGroups'
<1> USE DEF Storing
<1>0. /\ group \in [Lanes -> Group] /\ group' \in [Lanes -> Group]
      /\ \A l \in Lanes : group'[l].pc # "idle" => group'[l].todo # <<>>
      /\ \A l, k \in Lanes : l # k =>
           \A i \in DOMAIN group'[l].todo, j \in DOMAIN group'[k].todo :
               group'[l].todo[i] # group'[k].todo[j]
  BY GroupType DEF DeliveryInv, TypeOK, Lanes
<1>1. \A l \in Lanes :
         \/ group'[l] = group[l]
         \/ group'[l].pc \notin Storing
         \/ \E e \in Events :
              /\ e = Head(group[l].todo) /\ group'[l].todo = group[l].todo
              /\ \/ Convert(l, e) /\ group'[l].pc = "bind" /\ group'[l].new = EventRecords(e)
                 \/ Bind(l, e) /\ group'[l].pc = "insert" /\ group'[l].new = RecordsToStore(l, e)
                 \/ RollBack(l, e) /\ group'[l].pc = "changed" /\ group'[l].new = group[l].new
  <2>1. CASE UNCHANGED group
    BY <2>1
  <2>2. CASE SelectRound
    <3>1. ASSUME NEW l \in Lanes PROVE group'[l].pc \notin Storing
      <4>1. CASE LaneSelection(l) = <<>>
        BY <2>2, <4>1, IdleGroup DEF SelectRound, Lanes
      <4>2. CASE LaneSelection(l) # <<>>
        <5>1. group'[l] = [GroupIdle EXCEPT !.pc = "take", !.todo = LaneSelection(l)]
          BY <2>2, <4>2 DEF SelectRound, Lanes
        <5>. QED
          BY <5>1, IdleGroup, LaneSelectionRows
      <4>. QED
        BY <4>1, <4>2
    <3>. QED
      BY <3>1
  <2>3. CASE Crash
    BY <2>3, IdleGroup DEF Crash, Lanes
  <2>4. ASSUME NEW k \in Lanes, NEW e \in Events, Convert(k, e) \/ Bind(k, e) \/ RollBack(k, e)
        PROVE  \A l \in Lanes :
                  \/ l # k /\ group'[l] = group[l]
                  \/ /\ l = k
                     /\ e = Head(group[l].todo) /\ group'[l].todo = group[l].todo
                     /\ \/ Convert(l, e) /\ group'[l].pc = "bind" /\ group'[l].new = EventRecords(e)
                        \/ Bind(l, e) /\ group'[l].pc = "insert" /\ group'[l].new = RecordsToStore(l, e)
                        \/ RollBack(l, e) /\ group'[l].pc = "changed" /\ group'[l].new = group[l].new
    BY <1>0, <2>4, GroupWork
  <2>5. ASSUME NEW k \in Lanes, NEW g \in Group, Shrunk(k, g), group' = [group EXCEPT ![k] = g]
        PROVE  \A l \in Lanes : group'[l] = group[l] \/ group'[l].pc \notin Storing
    BY <1>0, <2>5 DEF Shrunk
  <2>. QED
    BY <2>1, <2>2, <2>3, <2>4, <2>5, GroupStep
<1>2. ASSUME NEW l \in Lanes, group'[l].pc \in Storing
      PROVE  WellFormed(Head(group'[l].todo), group'[l].new)
  <2>1. CASE group'[l] = group[l]
    BY <1>2, <2>1 DEF DeliveryInv, InGroups
  <2>2. ASSUME NEW e \in Events, e = Head(group[l].todo), Convert(l, e) \/ Bind(l, e) \/ RollBack(l, e),
               \/ Convert(l, e) /\ group'[l].new = EventRecords(e)
               \/ Bind(l, e) /\ group'[l].new = RecordsToStore(l, e)
               \/ RollBack(l, e) /\ group'[l].new = group[l].new
        PROVE  WellFormed(e, group'[l].new)
    <3>1. WellFormed(e, EventRecords(e)) /\ WellFormed(e, prepared[e])
      BY RecordsGood DEF DeliveryInv, InProjects
    <3>2. Bind(l, e) \/ RollBack(l, e) => WellFormed(e, group[l].new)
      BY <2>2 DEF Bind, RollBack, Binding, DeliveryInv, InGroups
    <3>. QED
      BY <2>2, <3>1, <3>2 DEF RecordsToStore
  <2>. QED
    BY <1>1, <1>2, <2>1, <2>2
<1>3. ASSUME NEW l \in Lanes, group'[l].pc = "insert"
      PROVE  LET e == Head(group'[l].todo)
             IN  /\ event'[e].state = "pending"
                 /\ group'[l].new.ops # {}
                 /\ prepared'[e].ops # {} => group'[l].new = prepared'[e]
  <2>1. CASE group'[l] = group[l]
    BY <1>3, <2>1, StoredAlone DEF DeliveryInv, InGroups
  <2>2. CASE group'[l] # group[l]
    <3>1. PICK e \in Events : /\ e = Head(group[l].todo) /\ group'[l].todo = group[l].todo
                              /\ Bind(l, e) /\ group'[l].new = RecordsToStore(l, e)
      BY <1>1, <1>3, <2>2
    <3>2. event[e].state = "pending" /\ UNCHANGED <<event, prepared>> /\ group[l].new.ops # {}
      BY <3>1 DEF Bind, journalVars
    <3>. QED
      BY <3>1, <3>2 DEF RecordsToStore
  <2>. QED
    BY <2>1, <2>2
<1>4. group'[None].pc \in Storing => group'[None].pc = "bind" /\ group'[None].new.ops = {}
  <2>0. None \in Lanes
    BY DEF Lanes
  <2>1. CASE group'[None] = group[None]
    BY <2>1 DEF DeliveryInv, InGroups
  <2>2. ASSUME NEW e \in Events, Convert(None, e), group'[None].new = EventRecords(e)
        PROVE  group'[None].new.ops = {}
    <3>1. Type[e] = "delete" /\ ~Mapped(Message[e])
      BY <2>2, DeliveryAssumption, LaneType DEF Convert, LaneFor
    <3>. QED
      BY <2>2, <3>1, RecordsGood
  <2>3. ASSUME NEW e \in Events PROVE ~Bind(None, e) /\ ~RollBack(None, e)
    BY DEF Bind, RollBack, Binding, DeliveryInv, InGroups
  <2>. QED
    BY <1>1, <2>0, <2>1, <2>2, <2>3
<1>. QED
  BY <1>0, <1>2, <1>3, <1>4 DEF InGroups

-----------------------------------------------------------------------------
(* The outbox *)

(* The row keeps its target and its mark, with this state. *)
MovesTo(o, s) ==
    row'[o].state = s /\ row'[o].tried = row[o].tried /\ row'[o].project = row[o].project

(* Everything that can happen to a row. *)
LEMMA RowStep ==
    ASSUME DeliveryInv, Next, NEW o \in Ops
    PROVE  \/ MovesTo(o, row[o].state)
           \/ \E l \in Lanes : /\ Insert(l, EventOf(o)) /\ o \in Inserted(l)
                               /\ row[o].state = "absent" /\ row'[o].state = "pending"
                               /\ row'[o].project = group[l].new.project
           \/ \E l \in Lanes : /\ IgnoreInactive(l, EventOf(o)) /\ Active(EventOf(o)) /\ Unsent(o)
                               /\ MovesTo(o, "cancelled")
           \/ \E l \in Lanes : /\ AssignmentChanged(l, EventOf(o))
                               /\ row[o].state = "pending" /\ row'[o] = NoRow
           \/ Sweeping /\ o \in Removed /\ row'[o] = NoRow
           \/ /\ MarkSubmitting /\ o = Head(flush.todo) /\ CanSubmit(o)
              /\ row'[o].state = "submitting" /\ row'[o].tried = TRUE
              /\ row'[o].project = row[o].project
           \/ Releasing /\ row[o].state = "submitting" /\ MovesTo(o, "pending")
           \/ /\ SendRejected /\ o = Head(flush.stack)[1] /\ row[o].state = "submitting"
              /\ MovesTo(o, "rejected")
           \/ Accept /\ o = Head(flush.todo) /\ MovesTo(o, "sent")
           \/ /\ Finalizing /\ o \in RejectedRows /\ row[o].state = "pending"
              /\ MovesTo(o, "rejected")
           \/ Finalizing /\ o \in Filtered /\ row'[o] = NoRow
           \/ BootAmbiguous /\ row[o].state = "submitting" /\ MovesTo(o, "ambiguous")
<1>0. row \in [Ops -> Row] /\ row[o] \in Row
  BY RowTypes
<1>00. ASSUME NEW s, row'[o] = [row[o] EXCEPT !.state = s] PROVE MovesTo(o, s)
  BY <1>0, <1>00 DEF MovesTo, Row
<1>1. ASSUME NEW l \in Lanes, NEW e \in Events, IgnoreInactive(l, e)
      PROVE  \/ MovesTo(o, row[o].state)
             \/ e = EventOf(o) /\ Active(e) /\ Unsent(o) /\ MovesTo(o, "cancelled")
  BY <1>0, <1>00, <1>1 DEF IgnoreInactive, RowsOf, MovesTo
<1>2. ASSUME NEW l \in Lanes, NEW e \in Events, Insert(l, e)
      PROVE  \/ MovesTo(o, row[o].state)
             \/ /\ e = EventOf(o) /\ o \in Inserted(l)
                /\ row[o].state = "absent" /\ row'[o].state = "pending"
                /\ row'[o].project = group[l].new.project
  <2>1. CASE o \notin Inserted(l)
    BY <1>0, <1>2, <2>1 DEF Insert, MovesTo
  <2>2. CASE o \in Inserted(l)
    <3>1. group[l].pc = "insert" /\ e = Head(group[l].todo)
      BY <1>2 DEF Insert, Binding
    <3>2. WellFormed(e, group[l].new) /\ o \in group[l].new.ops /\ row[o].state = "absent"
      BY <2>2, <3>1 DEF DeliveryInv, InGroups, Storing, Inserted
    <3>3. EventOf(o) = e
      BY <3>2 DEF WellFormed
    <3>4. row'[o] = [NoRow EXCEPT !.state = "pending", !.account = group[l].account,
                                  !.assignment = group[l].assignment,
                                  !.project = group[l].new.project,
                                  !.stream = group[l].new.stream]
      BY <1>2, <2>2 DEF Insert
    <3>5. row'[o].state = "pending" /\ row'[o].project = group[l].new.project
      BY <3>4 DEF NoRow
    <3>. QED
      BY <2>2, <3>2, <3>3, <3>5
  <2>. QED
    BY <2>1, <2>2
<1>3. ASSUME NEW l \in Lanes, NEW e \in Events, AssignmentChanged(l, e)
      PROVE  \/ MovesTo(o, row[o].state)
             \/ e = EventOf(o) /\ row[o].state = "pending" /\ row'[o] = NoRow
  BY <1>0, <1>3 DEF AssignmentChanged, RowsOf, MovesTo
<1>4. CASE Sweeping
  <2>1. row'[o] = SweptRow(o)
    BY <1>4, SweepingFrame DEF Sweep
  <2>2. CASE o \in Rebound
    <3> DEFINE r == [row[o] EXCEPT !.account = account.generation]
    <3>1. row'[o] = [r EXCEPT !.assignment = assignment[ChatOf(o)].generation]
      BY <2>1, <2>2 DEF SweptRow
    <3>2. r \in Row /\ r.state = row[o].state /\ r.tried = row[o].tried /\ r.project = row[o].project
      BY <1>0, DesiredTypes DEF Row
    <3> HIDE DEF r
    <3>3. /\ row'[o].state = r.state /\ row'[o].tried = r.tried /\ row'[o].project = r.project
      BY <3>1, <3>2 DEF Row
    <3>. QED
      BY <3>2, <3>3 DEF MovesTo
  <2>3. CASE o \notin Rebound /\ o \in Removed
    BY <1>4, <2>1, <2>3 DEF SweptRow
  <2>4. CASE o \notin Rebound /\ o \notin Removed
    BY <2>1, <2>4 DEF SweptRow, MovesTo
  <2>. QED
    BY <2>2, <2>3, <2>4
<1>5. CASE MarkSubmitting
  <2> DEFINE h == Head(flush.todo)
  <2>1. h \in Ops
    BY <1>5, FlushHeads DEF MarkSubmitting
  <2>2. row' = [row EXCEPT ![h] = IF CanSubmit(h)
                   THEN [row[h] EXCEPT !.state = "submitting", !.tried = TRUE] ELSE row[h]]
    BY <1>0, <1>5, <2>1 DEF MarkSubmitting
  <2> HIDE DEF h
  <2>3. CASE o = h /\ CanSubmit(o)
    <3> DEFINE r == [row[o] EXCEPT !.state = "submitting"]
    <3>1. row'[o] = [r EXCEPT !.tried = TRUE]
      BY <1>0, <2>1, <2>2, <2>3
    <3>2. r \in Row /\ r.state = "submitting" /\ r.project = row[o].project
      BY <1>0 DEF Row, RowStates
    <3> HIDE DEF r
    <3>3. row'[o].state = r.state /\ row'[o].tried = TRUE /\ row'[o].project = r.project
      BY <3>1, <3>2 DEF Row
    <3>. QED
      BY <1>5, <2>3, <3>2, <3>3 DEF h
  <2>4. CASE ~(o = h /\ CanSubmit(o))
    BY <1>0, <2>1, <2>2, <2>4 DEF MovesTo
  <2>. QED
    BY <2>3, <2>4
<1>6. CASE Releasing
  BY <1>0, <1>00, <1>6, ReleasingFrame DEF Release, MovesTo
<1>7. CASE SendRejected
  <2> DEFINE h == Head(flush.stack)[1]
  <2>1. h \in Ops
    BY <1>7, FlushHeads DEF SendRejected, Sending
  <2>2. /\ row[h].state = "submitting"
        /\ row' = [row EXCEPT ![h] = [[row[h] EXCEPT !.state = "rejected"] EXCEPT !.seen = ToSet(queue)]]
    BY <1>0, <1>7, <2>1 DEF SendRejected
  <2> HIDE DEF h
  <2>3. CASE o = h
    <3> DEFINE r == [row[o] EXCEPT !.state = "rejected"]
    <3>1. row'[o] = [r EXCEPT !.seen = ToSet(queue)]
      BY <1>0, <2>1, <2>2, <2>3
    <3>2. r \in Row /\ r.state = "rejected" /\ r.tried = row[o].tried /\ r.project = row[o].project
      BY <1>0 DEF Row, RowStates
    <3> HIDE DEF r
    <3>3. row'[o].state = r.state /\ row'[o].tried = r.tried /\ row'[o].project = r.project
      BY <3>1, <3>2 DEF Row
    <3>. QED
      BY <1>7, <2>2, <2>3, <3>2, <3>3 DEF h, MovesTo
  <2>4. CASE o # h
    BY <1>0, <2>1, <2>2, <2>4 DEF MovesTo
  <2>. QED
    BY <2>3, <2>4
<1>8. CASE Accept
  <2> DEFINE h == Head(flush.todo)
  <2>1. h \in Ops
    BY <1>8, FlushHeads DEF Accept
  <2>2. row' = [row EXCEPT ![h] = [row[h] EXCEPT !.state = "sent"]]
    BY <1>0, <1>8, <2>1 DEF Accept
  <2> HIDE DEF h
  <2>3. CASE o = h
    BY <1>0, <1>00, <1>8, <2>1, <2>2, <2>3 DEF h
  <2>4. CASE o # h
    BY <1>0, <2>1, <2>2, <2>4 DEF MovesTo
  <2>. QED
    BY <2>3, <2>4
<1>9. CASE Finalizing
  <2>1. row'[o] = IF o \in Filtered THEN NoRow
                  ELSE IF o \in RejectedRows /\ row[o].state = "pending"
                  THEN RejectedRow(o) ELSE row[o]
    BY <1>9, FinalizedRows
  <2>2. CASE o \in RejectedRows /\ row[o].state = "pending"
    <3> DEFINE r == [row[o] EXCEPT !.state = "rejected"]
    <3>1. row'[o] = [r EXCEPT !.seen = ToSet(queue)]
      BY <2>1, <2>2, FilteredRow DEF RejectedRow
    <3>2. r \in Row /\ r.state = "rejected" /\ r.tried = row[o].tried /\ r.project = row[o].project
      BY <1>0 DEF Row, RowStates
    <3> HIDE DEF r
    <3>3. row'[o].state = r.state /\ row'[o].tried = r.tried /\ row'[o].project = r.project
      BY <3>1, <3>2 DEF Row
    <3>. QED
      BY <1>9, <2>2, <3>2, <3>3 DEF MovesTo
  <2>3. CASE o \in Filtered
    BY <1>9, <2>1, <2>3
  <2>4. CASE o \notin Filtered /\ ~(o \in RejectedRows /\ row[o].state = "pending")
    BY <2>1, <2>4 DEF MovesTo
  <2>. QED
    BY <2>2, <2>3, <2>4
<1>10. CASE BootAmbiguous
  BY <1>0, <1>00, <1>10 DEF BootAmbiguous, MovesTo
<1>11. CASE UNCHANGED row
  BY <1>11 DEF MovesTo
<1>. QED
  BY <1>1, <1>2, <1>3, <1>4, <1>5, <1>6, <1>7, <1>8, <1>9, <1>10, <1>11, NextSteps, RecordFrame,
     RoundFrame, ReadingFrame, DesiringFrame, BatchingFrame DEF Crash, outboxVars

(* A batch that Workspace applies adds its records. *)
LEMMA AppliedBatch ==
    ASSUME applied \in Seq(Ops), NEW batch \in Seq(Ops), Apply(batch)
    PROVE  /\ applied' \in Seq(Ops)
           /\ ToSet(applied) \subseteq ToSet(applied')
           /\ ToSet(batch) \subseteq ToSet(applied')
           /\ ToSet(applied') \subseteq ToSet(applied) \cup ToSet(batch)
<1> DEFINE t == Without(batch, ToSet(applied))
<1>1. /\ t \in Seq(Ops)
      /\ \A i \in 1..Len(batch) : batch[i] \notin ToSet(applied) => \E j \in 1..Len(t) : t[j] = batch[i]
      /\ \A j \in 1..Len(t) : \E i \in 1..Len(batch) : t[j] = batch[i]
  BY WithoutRows
<1>2. applied' = applied \o t
  BY DEF Apply
<1> HIDE DEF t
<1>3. /\ applied' \in Seq(Ops) /\ Len(applied') = Len(applied) + Len(t)
      /\ \A i \in 1..Len(applied) : applied'[i] = applied[i]
      /\ \A i \in 1..Len(t) : applied'[Len(applied) + i] = t[i]
      /\ \A i \in 1..Len(applied') : i > Len(applied) => applied'[i] = t[i - Len(applied)]
  BY <1>1, <1>2
<1>4. /\ Len(applied) \in Nat /\ Len(t) \in Nat
      /\ DOMAIN applied = 1..Len(applied) /\ DOMAIN applied' = 1..Len(applied')
  BY <1>1, <1>3
<1>5. ToSet(applied) \subseteq ToSet(applied')
  <2>1. \A i \in 1..Len(applied) : i \in 1..Len(applied') /\ applied'[i] = applied[i]
    BY <1>3, <1>4
  <2>. QED
    BY <1>4, <2>1 DEF ToSet
<1>6. ASSUME NEW i \in 1..Len(t) PROVE t[i] \in ToSet(applied')
  <2>1. Len(applied) + i \in 1..Len(applied')
    BY <1>3, <1>4
  <2>2. applied'[Len(applied) + i] = t[i]
    BY <1>3
  <2>. QED
    BY <1>4, <2>1, <2>2 DEF ToSet
<1>7. ToSet(batch) \subseteq ToSet(applied')
  <2>1. ASSUME NEW i \in 1..Len(batch) PROVE batch[i] \in ToSet(applied')
    BY <1>1, <1>5, <1>6
  <2>. QED
    BY <2>1 DEF ToSet
<1>8. ASSUME NEW i \in 1..Len(applied') PROVE applied'[i] \in ToSet(applied) \cup ToSet(batch)
  <2>1. CASE i <= Len(applied)
    BY <1>3, <1>4, <2>1 DEF ToSet
  <2>2. CASE i > Len(applied)
    <3>1. i - Len(applied) \in 1..Len(t) /\ applied'[i] = t[i - Len(applied)]
      BY <1>3, <1>4, <2>2
    <3>2. t[i - Len(applied)] \in ToSet(batch)
      BY <1>1, <3>1 DEF ToSet
    <3>. QED
      BY <3>1, <3>2
  <2>. QED
    BY <1>4, <2>1, <2>2
<1>9. ToSet(applied') \subseteq ToSet(applied) \cup ToSet(batch)
  BY <1>3, <1>8 DEF ToSet
<1>. QED
  BY <1>3, <1>5, <1>7, <1>9

(* What Workspace has applied only grows, by the batch that is sent. *)
LEMMA AppliedStep ==
    ASSUME DeliveryInv, Next
    PROVE  /\ applied' \in Seq(Ops)
           /\ ToSet(applied) \subseteq ToSet(applied')
           /\ \/ UNCHANGED applied
              \/ /\ SendApplied \/ SendLost
                 /\ flush.pc = "send" /\ ~Refused(Head(flush.stack))
                 /\ ToSet(Head(flush.stack)) \subseteq ToSet(applied')
                 /\ ToSet(applied') \subseteq ToSet(applied) \cup ToSet(Head(flush.stack))
<1>0. applied \in Seq(Ops)
  BY DEF DeliveryInv, TypeOK
<1>2. CASE UNCHANGED applied
  BY <1>0, <1>2
<1>3. CASE SendApplied
  <2>1. flush.pc = "send" /\ Apply(Head(flush.stack)) /\ ~Refused(Head(flush.stack))
    BY <1>3 DEF SendApplied, Sending
  <2>. QED
    BY <1>0, <1>3, <2>1, FlushHeads, AppliedBatch
<1>4. CASE SendLost
  <2>1. flush.pc = "send"
    BY <1>4 DEF SendLost, Sending
  <2>2. CASE UNCHANGED applied
    BY <1>2, <2>2
  <2>3. CASE Apply(Head(flush.stack)) /\ ~Refused(Head(flush.stack))
    BY <1>0, <1>4, <2>1, <2>3, FlushHeads, AppliedBatch
  <2>. QED
    BY <1>4, <2>2, <2>3 DEF SendLost
<1>5. RejectionLost => UNCHANGED applied
  BY DEF RejectionLost
<1>. QED
  BY <1>2, <1>3, <1>4, <1>5, NextSteps, RecordFrame, RoundFrame, ReadingFrame, DesiringFrame,
     SweepingFrame, BatchingFrame, FinalizingFrame
     DEF Releasing, IgnoreInactive, Insert, AssignmentChanged, MarkSubmitting, SendRejected, Accept,
         BootAmbiguous, Crash, workspaceVars

-----------------------------------------------------------------------------
(* The delivery thread *)

LEMMA ReadyBatchType ==
    ASSUME DeliveryInv
    PROVE  ReadyBatch \in Seq(Ops)
<1> DEFINE places == {i \in DOMAIN queue : Ready(queue[i])}
           ready == Selected(queue, places)
           n == IF Len(ready) < BatchSize THEN Len(ready) ELSE BatchSize
<1>1. ReadyBatch = SubSeq(ready, 1, n)
  BY DEF ReadyBatch
<1>2. queue \in Seq(Ops)
  BY DEF DeliveryInv, TypeOK
<1> HIDE DEF places
<1>3. ready \in Seq(Ops)
  BY <1>2, SelectedRows
<1>4. n \in Nat /\ n <= Len(ready) /\ Len(ready) \in Nat
  BY <1>3, DeliveryAssumption
<1> HIDE DEF ready, n
<1>. QED
  BY <1>1, <1>3, <1>4

(* A record in flight keeps its row, unless it is refused or the call ends. *)
LEMMA InFlightRow ==
    ASSUME DeliveryInv, Next, NEW o \in Ops,
           row[o].state \in {"submitting", "cancelled", "sent"},
           ~Releasing, ~BootAmbiguous, SendRejected => o # Head(flush.stack)[1]
    PROVE  row'[o].state \in {"submitting", "cancelled", "sent"}
BY RowStep, FilteredRow DEF MovesTo, Unsent, CanSubmit, Removed

LEMMA FlushIdleType == FlushIdle \in Flush
<1>1. <<>> \in Seq(Ops) /\ <<>> \in Seq(Seq(Ops)) /\ {} \in SUBSET Ops
  OBVIOUS
<1>. QED
  BY <1>1 DEF FlushIdle, Flush

(* The steps of the delivery thread, one lemma each. *)
FlushGood ==
    /\ flush' \in Flush
    /\ flush'.pc = "mark" => flush'.todo # <<>> /\ Len(flush'.stack) = 1
    /\ flush'.pc = "accept" => flush'.todo # <<>>
    /\ flush'.pc = "send" => flush'.stack # <<>>
    /\ flush'.pc \in {"send", "accept"} => \A a \in DOMAIN flush'.stack : flush'.stack[a] # <<>>
    /\ flush'.pc \in {"idle", "finish"} => flush'.stack = <<>>

LEMMA IdleFlush ==
    ASSUME flush' = FlushIdle
    PROVE  FlushGood /\ \A o : ~InFlight(o)'
<1>1. flush'.pc = "idle" /\ flush'.stack = <<>> /\ flush'.todo = <<>>
  BY DEF FlushIdle
<1>. QED
  BY <1>1, FlushIdleType DEF FlushGood, InFlight

LEMMA SelectBatchFlush ==
    ASSUME DeliveryInv, SelectBatch
    PROVE  FlushGood /\ (\A o : ~InFlight(o)') /\ flush'.pc # "accept"
<1>0. <<>> \in Seq(Ops) /\ <<<<>>>> \in Seq(Seq(Ops)) /\ {} \in SUBSET Ops
  OBVIOUS
<1>1. CASE ReadyBatch = <<>>
  <2>1. flush' = [FlushIdle EXCEPT !.pc = "finish"]
    BY <1>1 DEF SelectBatch
  <2>2. flush' \in Flush /\ flush'.pc = "finish" /\ flush'.stack = <<>>
    BY <2>1, FlushIdleType DEF Flush, FlushIdle
  <2>. QED
    BY <2>2 DEF FlushGood, InFlight
<1>2. CASE ReadyBatch # <<>>
  <2>1. flush' = [pc |-> "mark", todo |-> ReadyBatch, stack |-> <<<<>>>>, marked |-> {}]
    BY <1>2 DEF SelectBatch
  <2>2. flush' \in Flush /\ flush'.pc = "mark" /\ flush'.todo = ReadyBatch /\ flush'.stack = <<<<>>>>
    BY <1>0, <2>1, ReadyBatchType DEF Flush
  <2>. QED
    BY <1>2, <2>2 DEF FlushGood, InFlight
<1>. QED
  BY <1>1, <1>2

LEMMA MarkSubmittingFlush ==
    ASSUME DeliveryInv, MarkSubmitting
    PROVE  /\ FlushGood /\ flush'.pc # "accept"
           /\ \A o \in Ops : InFlight(o)' =>
                 InFlight(o) \/ (o = Head(flush.todo) /\ CanSubmit(o))
<1> DEFINE h == Head(flush.todo)
           first == Head(flush.stack)
           batch == IF CanSubmit(h) THEN Append(first, h) ELSE first
<1>0. /\ flush.todo \in Seq(Ops) /\ flush.todo # <<>> /\ h \in Ops /\ Tail(flush.todo) \in Seq(Ops)
      /\ flush.stack = <<first>> /\ first \in Seq(Ops)
  BY FlushHeads DEF MarkSubmitting
<1>1. batch \in Seq(Ops)
  BY <1>0
<1>2. /\ flush'.pc = IF Len(flush.todo) > 1 THEN "mark" ELSE IF batch = <<>> THEN "finish" ELSE "send"
      /\ flush'.todo = Tail(flush.todo)
      /\ flush'.stack = IF Len(flush.todo) = 1 /\ batch = <<>> THEN <<>> ELSE <<batch>>
      /\ flush'.marked = ToSet(batch)
      /\ flush' = [pc |-> flush'.pc, todo |-> flush'.todo, stack |-> flush'.stack,
                   marked |-> flush'.marked]
  BY DEF MarkSubmitting
<1>3. ToSet(batch) \in SUBSET Ops
  BY <1>1 DEF ToSet
<1>4. ASSUME NEW i \in DOMAIN batch
      PROVE  (\E j \in DOMAIN first : first[j] = batch[i]) \/ (batch[i] = h /\ CanSubmit(h))
  BY <1>0
<1>5. Len(flush.todo) \in Nat \ {0} /\ (Len(flush.todo) > 1 => Tail(flush.todo) # <<>>)
  BY <1>0
<1> HIDE DEF batch, h, first
<1>6. <<batch>> \in Seq(Seq(Ops)) /\ <<>> \in Seq(Seq(Ops)) /\ Len(<<batch>>) = 1
  BY <1>1
<1>7. flush' \in Flush
  <2>1. flush'.pc \in {"mark", "finish", "send"} /\ flush'.stack \in Seq(Seq(Ops))
    BY <1>2, <1>6
  <2>. QED
    BY <1>0, <1>2, <1>3, <2>1 DEF Flush
<1>8. FlushGood /\ flush'.pc # "accept"
  <2>1. CASE Len(flush.todo) > 1
    <3>1. flush'.pc = "mark" /\ flush'.todo # <<>> /\ flush'.stack = <<batch>>
      BY <1>2, <1>5, <2>1
    <3>. QED
      BY <1>6, <1>7, <3>1 DEF FlushGood
  <2>2. CASE ~(Len(flush.todo) > 1) /\ batch = <<>>
    <3>0. Len(flush.todo) = 1
      <4> DEFINE n == Len(flush.todo)
      <4>1. n \in Nat \ {0} /\ ~(n > 1)
        BY <1>5, <2>2
      <4> HIDE DEF n
      <4>2. n = 1
        BY <4>1
      <4>. QED
        BY <4>2 DEF n
    <3>1. flush'.pc = "finish" /\ flush'.stack = <<>>
      BY <1>2, <2>2, <3>0
    <3>. QED
      BY <1>7, <3>1 DEF FlushGood
  <2>3. CASE ~(Len(flush.todo) > 1) /\ batch # <<>>
    <3>1. flush'.pc = "send" /\ flush'.stack = <<batch>>
      BY <1>2, <1>5, <2>3
    <3>. QED
      BY <1>7, <2>3, <3>1 DEF FlushGood
  <2>. QED
    BY <2>1, <2>2, <2>3
<1>9. ASSUME NEW o \in Ops, InFlight(o)'
      PROVE  InFlight(o) \/ (o = h /\ CanSubmit(o))
  <2>1. \E a \in DOMAIN flush'.stack : \E i \in DOMAIN flush'.stack[a] : flush'.stack[a][i] = o
    BY <1>8, <1>9 DEF InFlight
  <2>2. \E i \in DOMAIN batch : batch[i] = o
    BY <1>2, <2>1
  <2>3. CASE \E j \in DOMAIN first : first[j] = o
    BY <1>0, <2>3 DEF InFlight
  <2>. QED
    BY <1>4, <2>2, <2>3
<1>. QED
  BY <1>8, <1>9 DEF h

LEMMA SendAppliedFlush ==
    ASSUME DeliveryInv, SendApplied
    PROVE  /\ FlushGood
           /\ \A o \in Ops : InFlight(o)' => InFlight(o)
           /\ \A i \in DOMAIN flush'.todo : flush'.todo[i] \in ToSet(applied') /\ ~IsBad(flush'.todo[i])
<1> DEFINE first == Head(flush.stack)
           rest == Tail(flush.stack)
<1>0. /\ flush \in Flush /\ flush.pc = "send" /\ flush.stack \in Seq(Seq(Ops)) /\ flush.stack # <<>>
      /\ first \in Seq(Ops) /\ first # <<>> /\ rest \in Seq(Seq(Ops))
      /\ \A a \in DOMAIN flush.stack : flush.stack[a] # <<>>
  BY FlushHeads DEF SendApplied, Sending, DeliveryInv, InFlush
<1>1. flush' = [flush EXCEPT !.pc = "accept", !.todo = first, !.stack = rest] /\ ~Refused(first)
  BY DEF SendApplied
<1>2. /\ first = flush.stack[1] /\ 1 \in DOMAIN flush.stack
      /\ \A a \in DOMAIN rest : a + 1 \in DOMAIN flush.stack /\ rest[a] = flush.stack[a + 1]
  <2>1. first = flush.stack[1] /\ 1 \in DOMAIN flush.stack
    BY <1>0
  <2>2. Len(rest) = Len(flush.stack) - 1 /\ DOMAIN rest = 1..Len(rest)
        /\ DOMAIN flush.stack = 1..Len(flush.stack) /\ Len(flush.stack) \in Nat
    BY <1>0
  <2>3. \A a \in 1..Len(rest) : rest[a] = flush.stack[a + 1]
    BY <1>0, <2>2
  <2> HIDE DEF first, rest
  <2>. QED
    BY <2>1, <2>2, <2>3
<1> HIDE DEF first, rest
<1>3. flush' \in Flush /\ flush'.pc = "accept" /\ flush'.todo = first /\ flush'.stack = rest
  <2> DEFINE f1 == [flush EXCEPT !.pc = "accept"]
             f2 == [f1 EXCEPT !.todo = first]
             f3 == [f2 EXCEPT !.stack = rest]
  <2>1. flush' = f3
    BY <1>1
  <2>2. f1 \in Flush /\ f1.pc = "accept"
    BY <1>0 DEF Flush
  <2> HIDE DEF f1
  <2>3. f2 \in Flush /\ f2.pc = f1.pc /\ f2.todo = first
    BY <1>0, <2>2 DEF Flush
  <2> HIDE DEF f2
  <2>4. f3 \in Flush /\ f3.pc = f2.pc /\ f3.todo = f2.todo /\ f3.stack = rest
    BY <1>0, <2>3 DEF Flush
  <2> HIDE DEF f3
  <2>. QED
    BY <2>1, <2>2, <2>3, <2>4
<1>4. FlushGood
  BY <1>0, <1>2, <1>3 DEF FlushGood
<1>5. ASSUME NEW o \in Ops, InFlight(o)' PROVE InFlight(o)
  BY <1>2, <1>3, <1>5 DEF InFlight
<1>6. ToSet(first) \subseteq ToSet(applied')
  <2>1. Apply(first)
    BY DEF SendApplied, first
  <2>2. applied \in Seq(Ops)
    BY DEF DeliveryInv, TypeOK
  <2>. QED
    BY <1>0, <2>1, <2>2, AppliedBatch
<1>7. \A i \in DOMAIN first : first[i] \in ToSet(applied') /\ ~IsBad(first[i])
  BY <1>1, <1>6 DEF Refused, IsBad, ToSet
<1>. QED
  BY <1>3, <1>4, <1>5, <1>7

LEMMA SendBisectedFlush ==
    ASSUME DeliveryInv, SendBisected
    PROVE  /\ FlushGood /\ flush'.pc = "send"
           /\ \A o \in Ops : InFlight(o)' => InFlight(o)
<1> DEFINE first == Head(flush.stack)
           rest == Tail(flush.stack)
           mid == Len(first) \div 2
           left == SubSeq(first, 1, mid)
           right == SubSeq(first, mid + 1, Len(first))
<1>0. /\ flush \in Flush /\ flush.pc = "send" /\ flush.stack \in Seq(Seq(Ops)) /\ flush.stack # <<>>
      /\ first \in Seq(Ops) /\ first # <<>> /\ rest \in Seq(Seq(Ops))
      /\ \A a \in DOMAIN flush.stack : flush.stack[a] # <<>>
  BY FlushHeads DEF SendBisected, Sending, DeliveryInv, InFlush
<1>1. flush' = [flush EXCEPT !.stack = <<left, right>> \o rest] /\ Len(first) > 1
  BY <1>0 DEF SendBisected, Flush
<1>2. /\ first = flush.stack[1] /\ 1 \in DOMAIN flush.stack
      /\ Len(rest) \in Nat /\ DOMAIN rest = 1..Len(rest)
      /\ \A a \in 1..Len(rest) : a + 1 \in DOMAIN flush.stack /\ rest[a] = flush.stack[a + 1]
  <2>1. first = flush.stack[1] /\ 1 \in DOMAIN flush.stack
    BY <1>0
  <2>2. Len(rest) = Len(flush.stack) - 1 /\ DOMAIN rest = 1..Len(rest)
        /\ DOMAIN flush.stack = 1..Len(flush.stack) /\ Len(flush.stack) \in Nat /\ Len(rest) \in Nat
    BY <1>0
  <2>3. \A a \in 1..Len(rest) : rest[a] = flush.stack[a + 1]
    BY <1>0, <2>2
  <2> HIDE DEF first, rest
  <2>. QED
    BY <2>1, <2>2, <2>3
<1>3. Len(first) \in Nat /\ mid \in Nat /\ 1 <= mid /\ mid < Len(first) /\ DOMAIN first = 1..Len(first)
  <2> DEFINE n == Len(first)
  <2>1. n \in Nat /\ n > 1 /\ DOMAIN first = 1..n
    BY <1>0, <1>1
  <2>2. mid = n \div 2
    OBVIOUS
  <2> HIDE DEF n, mid
  <2>3. mid \in Nat /\ 1 <= mid /\ mid < n
    BY <2>1, <2>2
  <2>. QED
    BY <2>1, <2>3 DEF n
<1> HIDE DEF first, rest, mid
<1>4. /\ left \in Seq(Ops) /\ Len(left) = mid /\ right \in Seq(Ops) /\ Len(right) = Len(first) - mid
      /\ \A i \in 1..Len(left) : left[i] = first[i]
      /\ \A i \in 1..Len(right) : right[i] = first[i + mid]
  <2>1. /\ left \in Seq(Ops) /\ Len(left) = mid
        /\ \A i \in 1..mid : left[i] = first[i]
    BY <1>0, <1>3
  <2> DEFINE n == Len(first)
             m == mid + 1
  <2>2. n = Len(first) /\ n \in Nat /\ m \in 1..n /\ n - m + 1 = n - mid /\ right = SubSeq(first, m, n)
    BY <1>3
  <2>3. \A i \in 1..n - mid : m + i - 1 = i + mid /\ i \in 1..n + 1 - m
    BY <1>3
  <2> HIDE DEF n, m, right, left
  <2>4. SubSeq(first, m, n) \in Seq(Ops) /\ Len(SubSeq(first, m, n)) = n - m + 1
    BY <1>0, <2>2
  <2>5. \A i \in 1..n + 1 - m : SubSeq(first, m, n)[i] = first[m + i - 1]
    BY <1>0, <2>2
  <2>. QED
    BY <2>1, <2>2, <2>3, <2>4, <2>5 DEF n
<1> HIDE DEF left, right
<1>5. left # <<>> /\ right # <<>> /\ DOMAIN left = 1..Len(left) /\ DOMAIN right = 1..Len(right)
  BY <1>3, <1>4
<1>6. /\ \A i \in DOMAIN left : i \in DOMAIN first /\ left[i] = first[i]
      /\ \A i \in DOMAIN right : i + mid \in DOMAIN first /\ right[i] = first[i + mid]
  BY <1>3, <1>4, <1>5
<1> DEFINE s == <<left, right>> \o rest
<1>7. /\ s \in Seq(Seq(Ops)) /\ Len(s) = Len(rest) + 2 /\ DOMAIN s = 1..Len(rest) + 2
      /\ s[1] = left /\ s[2] = right
      /\ \A a \in 1..Len(rest) + 2 : a > 2 => s[a] = rest[a - 2]
  <2>1. <<left, right>> \in Seq(Seq(Ops)) /\ Len(<<left, right>>) = 2
    BY <1>4
  <2>. QED
    BY <1>0, <1>2, <2>1
<1> HIDE DEF s
<1>8. s # <<>>
  BY <1>2, <1>7
<1>9. ASSUME NEW a \in DOMAIN s
      PROVE  /\ s[a] # <<>>
             /\ \A i \in DOMAIN s[a] : \E b \in DOMAIN flush.stack :
                   \E j \in DOMAIN flush.stack[b] : flush.stack[b][j] = s[a][i]
  <2>1. CASE a = 1
    BY <1>2, <1>5, <1>6, <1>7, <2>1
  <2>2. CASE a = 2
    BY <1>2, <1>5, <1>6, <1>7, <2>2
  <2>3. CASE a > 2
    <3>1. a - 2 \in 1..Len(rest) /\ s[a] = rest[a - 2]
      BY <1>2, <1>7, <2>3
    <3>2. (a - 2) + 1 \in DOMAIN flush.stack /\ s[a] = flush.stack[(a - 2) + 1]
      BY <1>2, <3>1
    <3>. QED
      BY <1>0, <3>2
  <2>. QED
    BY <1>2, <1>7, <2>1, <2>2, <2>3
<1>10. flush' \in Flush /\ flush'.pc = "send" /\ flush'.stack = s
  <2>1. flush' = [flush EXCEPT !.stack = s]
    BY <1>1 DEF s
  <2>. QED
    BY <1>0, <1>7, <2>1 DEF Flush
<1>11. FlushGood
  BY <1>8, <1>9, <1>10 DEF FlushGood
<1>12. ASSUME NEW o \in Ops, InFlight(o)' PROVE InFlight(o)
  BY <1>9, <1>10, <1>12 DEF InFlight
<1>. QED
  BY <1>10, <1>11, <1>12

LEMMA SendRejectedFlush ==
    ASSUME DeliveryInv, SendRejected
    PROVE  /\ FlushGood /\ flush'.pc # "accept"
           /\ \A o \in Ops : InFlight(o)' => InFlight(o)
           /\ IsBad(Head(flush.stack)[1])
<1> DEFINE first == Head(flush.stack)
           rest == Tail(flush.stack)
<1>0. /\ flush \in Flush /\ flush.pc = "send" /\ flush.stack \in Seq(Seq(Ops)) /\ flush.stack # <<>>
      /\ first \in Seq(Ops) /\ first # <<>> /\ rest \in Seq(Seq(Ops))
      /\ \A a \in DOMAIN flush.stack : flush.stack[a] # <<>>
  BY FlushHeads DEF SendRejected, Sending, DeliveryInv, InFlush
<1>1. /\ flush' = [flush EXCEPT !.pc = AfterBatch(rest), !.stack = rest]
      /\ Refused(first) /\ Len(first) = 1
  BY <1>0 DEF SendRejected, Flush
<1>2. \A a \in DOMAIN rest : a + 1 \in DOMAIN flush.stack /\ rest[a] = flush.stack[a + 1]
  <2>2. Len(rest) = Len(flush.stack) - 1 /\ DOMAIN rest = 1..Len(rest)
        /\ DOMAIN flush.stack = 1..Len(flush.stack) /\ Len(flush.stack) \in Nat /\ Len(rest) \in Nat
    BY <1>0
  <2>3. \A a \in 1..Len(rest) : rest[a] = flush.stack[a + 1]
    BY <1>0, <2>2
  <2> HIDE DEF rest
  <2>. QED
    BY <2>2, <2>3
<1>3. IsBad(first[1])
  <2>1. DOMAIN first = {1}
    BY <1>0, <1>1
  <2>. QED
    BY <1>1, <2>1 DEF Refused, IsBad
<1> HIDE DEF first, rest
<1>4. AfterBatch(rest) \in {"finish", "send"} /\ (AfterBatch(rest) = "finish" <=> rest = <<>>)
  BY DEF AfterBatch
<1>5. flush' \in Flush /\ flush'.pc = AfterBatch(rest) /\ flush'.stack = rest
  <2> DEFINE f1 == [flush EXCEPT !.pc = AfterBatch(rest)]
             f2 == [f1 EXCEPT !.stack = rest]
  <2>1. flush' = f2
    BY <1>1
  <2>2. f1 \in Flush /\ f1.pc = AfterBatch(rest)
    BY <1>0, <1>4 DEF Flush
  <2> HIDE DEF f1
  <2>3. f2 \in Flush /\ f2.pc = f1.pc /\ f2.stack = rest
    BY <1>0, <2>2 DEF Flush
  <2> HIDE DEF f2
  <2>. QED
    BY <2>1, <2>2, <2>3
<1>6. FlushGood /\ flush'.pc # "accept"
  BY <1>0, <1>2, <1>4, <1>5 DEF FlushGood
<1>7. ASSUME NEW o \in Ops, InFlight(o)' PROVE InFlight(o)
  BY <1>2, <1>5, <1>6, <1>7 DEF InFlight
<1>. QED
  BY <1>3, <1>6, <1>7 DEF first

LEMMA AcceptFlush ==
    ASSUME DeliveryInv, Accept
    PROVE  /\ FlushGood
           /\ \A o \in Ops : InFlight(o)' => InFlight(o)
           /\ flush'.pc = "accept" =>
                 \A i \in DOMAIN flush'.todo : \E j \in DOMAIN flush.todo : flush'.todo[i] = flush.todo[j]
<1> DEFINE t == Tail(flush.todo)
           s == flush.stack
           n == Len(flush.todo)
           p == IF n > 1 THEN "accept" ELSE AfterBatch(s)
<1>0. /\ flush \in Flush /\ flush.pc = "accept" /\ flush.todo \in Seq(Ops) /\ flush.todo # <<>>
      /\ t \in Seq(Ops) /\ s \in Seq(Seq(Ops))
      /\ \A a \in DOMAIN s : s[a] # <<>>
  BY FlushHeads DEF Accept, DeliveryInv, InFlush
<1>1. flush' = [flush EXCEPT !.todo = t, !.pc = p]
  BY <1>0 DEF Accept, Flush
<1>2. /\ n \in Nat /\ (n > 1 => t # <<>>)
      /\ \A i \in DOMAIN t : i + 1 \in DOMAIN flush.todo /\ t[i] = flush.todo[i + 1]
  <2>1. n \in Nat \ {0} /\ Len(t) = n - 1 /\ DOMAIN t = 1..Len(t) /\ DOMAIN flush.todo = 1..n
    BY <1>0
  <2>2. \A i \in 1..Len(t) : t[i] = flush.todo[i + 1]
    BY <1>0, <2>1
  <2> HIDE DEF n, t
  <2>3. n > 1 => t # <<>>
    BY <2>1
  <2>. QED
    BY <2>1, <2>2, <2>3
<1>3. AfterBatch(s) \in {"finish", "send"} /\ (AfterBatch(s) = "finish" <=> s = <<>>)
  BY DEF AfterBatch
<1>4. p \in {"accept", "finish", "send"} /\ (p = "accept" => n > 1) /\ (p # "accept" => p = AfterBatch(s))
  BY <1>3
<1> HIDE DEF t, n, p
<1>5. flush' \in Flush /\ flush'.pc = p /\ flush'.stack = s /\ flush'.todo = t
  <2> DEFINE f1 == [flush EXCEPT !.todo = t]
             f2 == [f1 EXCEPT !.pc = p]
  <2>1. flush' = f2
    BY <1>1
  <2>2. f1 \in Flush /\ f1.todo = t /\ f1.stack = s
    BY <1>0 DEF Flush
  <2> HIDE DEF f1
  <2>3. f2 \in Flush /\ f2.pc = p /\ f2.stack = f1.stack /\ f2.todo = f1.todo
    BY <1>4, <2>2 DEF Flush
  <2> HIDE DEF f2
  <2>. QED
    BY <2>1, <2>2, <2>3
<1>6. FlushGood
  BY <1>0, <1>2, <1>3, <1>4, <1>5 DEF FlushGood
<1>7. ASSUME NEW o \in Ops, InFlight(o)' PROVE InFlight(o)
  BY <1>0, <1>2, <1>5, <1>7 DEF InFlight
<1>. QED
  BY <1>2, <1>5, <1>6, <1>7

LEMMA BadKept ==
    ASSUME Next
    PROVE  UNCHANGED bad
BY NextSteps, RecordFrame, RoundFrame, ReadingFrame, DesiringFrame, SweepingFrame, BatchingFrame,
   ReleasingFrame, FinalizingFrame
   DEF IgnoreInactive, Insert, AssignmentChanged, MarkSubmitting, SendRejected, Accept,
       BootAmbiguous, Crash, workspaceVars

LEMMA FlushKept ==
    ASSUME DeliveryInv, Next
    PROVE  /\ flush' \in Flush
           /\ InFlush'
<1>0. /\ flush \in Flush
      /\ boot # "up" => flush = FlushIdle
      /\ \A o \in Ops : InFlight(o) => row[o].state \in {"submitting", "cancelled", "sent"} \/ IsBad(o)
      /\ flush.pc = "accept" =>
            \A i \in DOMAIN flush.todo : flush.todo[i] \in ToSet(applied) /\ ~IsBad(flush.todo[i])
  BY DEF DeliveryInv, TypeOK, InFlush
<1>1. UNCHANGED bad
  BY BadKept
<1>2. ToSet(applied) \subseteq ToSet(applied')
  BY AppliedStep
<1>3. ASSUME NEW o \in Ops, InFlight(o), ~Releasing, ~BootAmbiguous,
             SendRejected => o # Head(flush.stack)[1] \/ IsBad(o)
      PROVE  row'[o].state \in {"submitting", "cancelled", "sent"} \/ IsBad(o)
  BY <1>0, <1>3, InFlightRow
<1>4. ASSUME FlushGood,
             boot' # "up" => flush' = FlushIdle,
             \A o \in Ops : InFlight(o)' => row'[o].state \in {"submitting", "cancelled", "sent"} \/ IsBad(o),
             flush'.pc = "accept" =>
               \A i \in DOMAIN flush'.todo : flush'.todo[i] \in ToSet(applied') /\ ~IsBad(flush'.todo[i])
      PROVE  flush' \in Flush /\ InFlush'
  BY <1>1, <1>4 DEF FlushGood, InFlush, IsBad
<1>5. CASE flush' = FlushIdle
  <2>1. flush'.pc = "idle"
    BY <1>5 DEF FlushIdle
  <2>. QED
    BY <1>4, <1>5, <2>1, IdleFlush
<1>6. CASE SelectBatch
  BY <1>4, <1>6, SelectBatchFlush DEF SelectBatch
<1>7. CASE MarkSubmitting
  <2>1. ASSUME NEW o \in Ops, InFlight(o)'
        PROVE  row'[o].state \in {"submitting", "cancelled", "sent"} \/ IsBad(o)
    <3>1. CASE InFlight(o)
      BY <1>0, <1>7, <3>1, RowStep, FilteredRow DEF MovesTo, Releasing, SendLost, RejectionLost, Sending, BootAmbiguous,
         SendRejected, MarkSubmitting, Unsent, Removed
    <3>2. CASE o = Head(flush.todo) /\ CanSubmit(o)
      <4>1. row' = [row EXCEPT ![o] = [row[o] EXCEPT !.state = "submitting", !.tried = TRUE]]
        BY <1>7, <3>2, RowTypes DEF MarkSubmitting
      <4>2. row'[o].state = "submitting"
        BY <4>1, RowTypes DEF Row
      <4>. QED
        BY <4>2
    <3>. QED
      BY <1>7, <2>1, <3>1, <3>2, MarkSubmittingFlush
  <2>2. boot' = "up"
    BY <1>7 DEF MarkSubmitting
  <2>. QED
    BY <1>4, <1>7, <2>1, <2>2, MarkSubmittingFlush
<1>8. CASE SendApplied
  <2>1. UNCHANGED row /\ boot' = "up"
    BY <1>8 DEF SendApplied, Sending, outboxVars
  <2>. QED
    BY <1>0, <1>4, <1>8, <2>1, SendAppliedFlush
<1>9. CASE SendBisected
  <2>1. UNCHANGED row /\ boot' = "up"
    BY <1>9 DEF SendBisected, Sending, outboxVars
  <2>. QED
    BY <1>0, <1>4, <1>9, <2>1, SendBisectedFlush
<1>10. CASE SendRejected
  <2>1. boot' = "up" /\ flush.pc = "send" /\ boot = "up"
    BY <1>10 DEF SendRejected, Sending
  <2>2. ASSUME NEW o \in Ops, InFlight(o)
        PROVE  row'[o].state \in {"submitting", "cancelled", "sent"} \/ IsBad(o)
    <3>1. CASE o = Head(flush.stack)[1]
      BY <1>10, <3>1, SendRejectedFlush
    <3>2. CASE o # Head(flush.stack)[1]
      <4>1. row'[o] = row[o]
        BY <1>10, <3>2, RowTypes DEF SendRejected
      <4>. QED
        BY <1>0, <2>2, <4>1
    <3>. QED
      BY <3>1, <3>2
  <2>. QED
    BY <1>4, <1>10, <2>1, <2>2, SendRejectedFlush
<1>11. CASE Accept
  <2>1. boot' = "up" /\ flush.pc = "accept" /\ boot = "up"
    BY <1>11 DEF Accept
  <2>2. ASSUME NEW o \in Ops, InFlight(o)
        PROVE  row'[o].state \in {"submitting", "cancelled", "sent"} \/ IsBad(o)
    <3>1. row' = [row EXCEPT ![Head(flush.todo)].state = "sent"]
      BY <1>11 DEF Accept
    <3>2. row'[o].state = row[o].state \/ row'[o].state = "sent"
      BY <3>1, RowTypes DEF Row
    <3>. QED
      BY <1>0, <2>2, <3>2
  <2>3. \A i \in DOMAIN flush.todo : flush.todo[i] \in ToSet(applied) /\ ~IsBad(flush.todo[i])
    BY <1>0, <2>1
  <2>. QED
    BY <1>2, <1>4, <1>11, <2>1, <2>2, <2>3, AcceptFlush
<1>12. ASSUME UNCHANGED flush, ~Releasing, ~BootAmbiguous, ~SendRejected, UNCHANGED boot \/ boot # "up"
       PROVE  flush' \in Flush /\ InFlush'
  <2>1. FlushGood
    BY <1>12 DEF FlushGood, DeliveryInv, TypeOK, InFlush
  <2>2. \A o \in Ops : InFlight(o)' <=> InFlight(o)
    BY <1>12 DEF InFlight
  <2>. QED
    BY <1>0, <1>2, <1>3, <1>4, <1>12, <2>1, <2>2
<1>13. CASE Releasing \/ Finish \/ Crash
  <2>1. flush' = FlushIdle
    BY <1>13, ReleasingFrame DEF Finish, Crash
  <2>. QED
    BY <1>5, <2>1
<1>14. CASE BootAmbiguous \/ BootFinalize \/ BootSweep
  <2>1. UNCHANGED flush /\ boot # "up"
    BY <1>14 DEF BootAmbiguous, BootFinalize, BootSweep
  <2>. QED
    BY <1>0, <1>5, <2>1
<1>15. CASE ControlSweep
  <2>1. UNCHANGED flush /\ UNCHANGED boot
    BY <1>15 DEF ControlSweep
  <2>. QED
    BY <1>10, <1>12, <1>13, <1>14, <2>1
<1>16. ASSUME NEW l \in Lanes, NEW e \in Events, IgnoreInactive(l, e) \/ Insert(l, e) \/ AssignmentChanged(l, e)
       PROVE  flush' \in Flush /\ InFlush'
  <2>1. UNCHANGED flush /\ UNCHANGED boot
    BY <1>16 DEF IgnoreInactive, Insert, AssignmentChanged
  <2>. QED
    BY <1>10, <1>12, <1>13, <1>14, <2>1
<1>17. CASE \/ \E e \in Events : Record(e)
            \/ SelectRound
            \/ \E l \in Lanes, e \in Events : Reading(l, e)
            \/ Desiring
  <2>1. UNCHANGED flush /\ UNCHANGED boot
    BY <1>17, RecordFrame, RoundFrame, ReadingFrame, DesiringFrame
  <2>. QED
    BY <1>10, <1>12, <1>13, <1>14, <2>1
<1>. QED
  BY <1>6, <1>7, <1>8, <1>9, <1>10, <1>11, <1>13, <1>14, <1>15, <1>16, <1>17, NextSteps
     DEF Batching, Sweeping, Finalizing

LEMMA TypesStep ==
    ASSUME DeliveryInv, Next
    PROVE  TypeOK'
<1>1. /\ event' \in [Events -> EventRow]
      /\ prepared' \in [Events -> Prepared]
      /\ row' \in [Ops -> Row]
      /\ queue' \in Seq(Ops)
      /\ idem' \in [Ops -> {"absent", "open", "committed", "rejected"}]
      /\ position' \in [Ops -> Nat]
      /\ mapping' \in [Messages -> Mapping]
  BY EventType, PreparedType, RowType, QueueType, IdemType, PositionType, MappingType
<1>2. group' \in [Chats \cup {None} -> Group]
  BY GroupType DEF Lanes
<1>3. assignment' \in [Chats -> Assignment]
      /\ budget' \in [changes: Nat, accounts: Nat, crashes: Nat, faults: Nat]
  BY BudgetStep
<1>4. flush' \in Flush /\ applied' \in Seq(Ops)
  BY FlushKept, AppliedStep
<1>. QED
  BY <1>1, <1>2, <1>3, <1>4, SmallTypes DEF TypeOK

-----------------------------------------------------------------------------
(* Rows, outcomes and Workspace *)

(* A result is stored for a record that is still in the outbox. *)
LEMMA AcceptedRow ==
    ASSUME DeliveryInv, flush.pc = "accept"
    PROVE  LET o == Head(flush.todo)
           IN  /\ o \in Ops /\ o \in ToSet(applied) /\ ~IsBad(o)
               /\ row[o].state \in {"submitting", "cancelled", "sent"}
<1> DEFINE o == Head(flush.todo)
<1>1. o \in Ops /\ flush.todo \in Seq(Ops) /\ flush.todo # <<>>
  BY FlushHeads
<1>2. 1 \in DOMAIN flush.todo /\ o = flush.todo[1]
  BY <1>1
<1>3. InFlight(o) /\ o \in ToSet(applied) /\ ~IsBad(o)
  BY <1>2 DEF DeliveryInv, InFlush, InFlight
<1>. QED
  BY <1>1, <1>3 DEF DeliveryInv, InFlush

(* A row appears only when its event is stored. *)
LEMMA RowAppears ==
    ASSUME DeliveryInv, Next, NEW o \in Ops, row'[o].state # "absent", row[o].state = "absent"
    PROVE  \E l \in Lanes : Insert(l, EventOf(o)) /\ o \in Inserted(l)
<1>1. NoRow.state = "absent"
  BY DEF NoRow
<1>2. Accept /\ o = Head(flush.todo) => row[o].state # "absent"
  BY AcceptedRow DEF Accept
<1>. QED
  BY <1>1, <1>2, RowStep, FilteredRow DEF MovesTo, Unsent, CanSubmit

LEMMA RejectedRowsState ==
    ASSUME NEW o \in RejectedRows
    PROVE  o \in Ops /\ row[o].state \in {"rejected", "pending"}
BY DEF RejectedRows, Blocked

LEMMA DirectRejections ==
    ASSUME NEW o \in Ops, row[o].state = "rejected"
    PROVE  o \in RejectedRows
BY DEF RejectedRows

(* What can become of an outcome. *)
LEMMA IdemStep ==
    ASSUME DeliveryInv, Next, NEW o \in Ops
    PROVE  /\ idem'[o] = "committed" => idem[o] = "committed" \/ (Accept /\ o = Head(flush.todo))
           /\ idem'[o] = "rejected" =>
                 \/ idem[o] = "rejected"
                 \/ SendRejected /\ o = Head(flush.stack)[1]
                 \/ Finalizing /\ o \in RejectedRows
           /\ Sweeping /\ o \in Removed => idem'[o] # "rejected"
           /\ Accept /\ o = Head(flush.todo) => idem'[o] # "rejected"
<1>0. idem \in [Ops -> {"absent", "open", "committed", "rejected"}]
  BY DEF DeliveryInv, TypeOK
<1>1. ASSUME NEW l \in Lanes, NEW e \in Events, Insert(l, e)
      PROVE  idem'[o] \in {"committed", "rejected"} => idem'[o] = idem[o]
  BY <1>0, <1>1 DEF Insert
<1>2. ASSUME NEW l \in Lanes, NEW e \in Events, AssignmentChanged(l, e)
      PROVE  idem'[o] \in {"committed", "rejected"} => idem'[o] = idem[o]
  BY <1>0, <1>2 DEF AssignmentChanged
<1>3. ASSUME Sweeping
      PROVE  /\ idem'[o] \in {"committed", "rejected"} => idem'[o] = idem[o]
             /\ o \in Removed => idem'[o] # "rejected"
  <2>1. idem' = [p \in Ops |-> IF p \in Removed /\ idem[p] \in {"open", "rejected"}
                               THEN "absent" ELSE idem[p]]
    BY <1>3, SweepingFrame, Zenon DEF Sweep
  <2>. QED
    BY <1>0, <2>1
<1>4. ASSUME Finalizing
      PROVE  \/ idem'[o] \in {idem[o], "absent"}
             \/ idem'[o] = "rejected" /\ o \in RejectedRows
  BY <1>0, <1>4, FinalizedRows
<1>5. ASSUME SendRejected
      PROVE  idem'[o] = idem[o] \/ (idem'[o] = "rejected" /\ o = Head(flush.stack)[1])
  BY <1>0, <1>5 DEF SendRejected
<1>6. ASSUME Accept
      PROVE  IF o = Head(flush.todo) THEN idem'[o] = "committed" ELSE idem'[o] = idem[o]
  BY <1>0, <1>6 DEF Accept
<1>7. \/ idem'[o] = idem[o]
      \/ \E l \in Lanes, e \in Events : Insert(l, e) \/ AssignmentChanged(l, e)
      \/ Sweeping \/ Finalizing \/ SendRejected \/ Accept
  BY NextSteps, RecordFrame, RoundFrame, ReadingFrame, DesiringFrame, BatchingFrame, ReleasingFrame
     DEF IgnoreInactive, MarkSubmitting, BootAmbiguous, Crash, outboxVars
<1>. QED
  BY <1>1, <1>2, <1>3, <1>4, <1>5, <1>6, <1>7

LEMMA TruthfulStep ==
    ASSUME DeliveryInv, Next
    PROVE  Truthful'
<1>0. /\ \A o \in Ops : idem[o] = "committed" \/ row[o].state = "sent" => o \in ToSet(applied)
      /\ \A o \in Ops : idem[o] = "rejected" => row[o].state = "rejected"
      /\ \A o \in Ops : row[o].state \in {"submitting", "ambiguous"} => row[o].tried
      /\ \A o \in ToSet(applied) : ~IsBad(o)
  BY DEF DeliveryInv, Truthful
<1>1. ToSet(applied) \subseteq ToSet(applied') /\ UNCHANGED bad
  BY AppliedStep, BadKept
<1>2. NoRow.state = "absent"
  BY DEF NoRow
<1>3. Accept => Head(flush.todo) \in ToSet(applied) /\ row[Head(flush.todo)].state # "rejected"
  BY AcceptedRow DEF Accept
<1>4. ASSUME NEW o \in Ops, idem'[o] = "committed" \/ row'[o].state = "sent"
      PROVE  o \in ToSet(applied')
  <2>1. CASE idem'[o] = "committed"
    BY <1>0, <1>1, <1>3, <2>1, IdemStep
  <2>2. CASE row'[o].state = "sent"
    <3>1. row[o].state = "sent" \/ (Accept /\ o = Head(flush.todo))
      BY <1>2, <2>2, RowStep DEF MovesTo
    <3>. QED
      BY <1>0, <1>1, <1>3, <3>1
  <2>. QED
    BY <1>4, <2>1, <2>2
<1>5. ASSUME NEW o \in Ops, idem'[o] = "rejected"
      PROVE  row'[o].state = "rejected"
  <2>1. ~(Sweeping /\ o \in Removed) /\ ~(Accept /\ o = Head(flush.todo))
    BY <1>5, IdemStep
  <2>2. CASE idem[o] = "rejected"
    <3>1. row[o].state = "rejected"
      BY <1>0, <2>2
    <3>. QED
      BY <2>1, <3>1, RowStep, FilteredRow DEF MovesTo, Unsent, CanSubmit
  <2>3. CASE SendRejected /\ o = Head(flush.stack)[1]
    <3>1. row' = [row EXCEPT ![o].state = "rejected", ![o].seen = ToSet(queue)]
      BY <2>3 DEF SendRejected
    <3>2. row' = [row EXCEPT ![o] = [[row[o] EXCEPT !.state = "rejected"] EXCEPT !.seen = ToSet(queue)]]
      BY <3>1, RowTypes
    <3> DEFINE r == [row[o] EXCEPT !.state = "rejected"]
    <3>3. r \in Row /\ r.state = "rejected"
      BY RowTypes DEF Row, RowStates
    <3>4. row'[o] = [r EXCEPT !.seen = ToSet(queue)]
      BY <3>2, RowTypes
    <3> HIDE DEF r
    <3>. QED
      BY <3>3, <3>4 DEF Row
  <2>4. CASE Finalizing /\ o \in RejectedRows
    <3>1. row[o].state \in {"rejected", "pending"}
      BY <2>4, RejectedRowsState
    <3>2. row'[o] = IF row[o].state = "pending" THEN RejectedRow(o) ELSE row[o]
      BY <2>4, FilteredRow, FinalizedRows
    <3>3. CASE row[o].state = "rejected"
      BY <3>2, <3>3
    <3>4. CASE row[o].state = "pending"
      <4> DEFINE r == [row[o] EXCEPT !.state = "rejected"]
      <4>1. r \in Row /\ r.state = "rejected"
        BY RowTypes DEF Row, RowStates
      <4>2. row'[o] = [r EXCEPT !.seen = ToSet(queue)]
        BY <3>2, <3>4 DEF RejectedRow
      <4> HIDE DEF r
      <4>. QED
        BY <4>1, <4>2 DEF Row
    <3>. QED
      BY <3>1, <3>3, <3>4
  <2>. QED
    BY <1>5, <2>2, <2>3, <2>4, IdemStep
<1>6. ASSUME NEW o \in Ops, row'[o].state \in {"submitting", "ambiguous"}
      PROVE  row'[o].tried
  BY <1>0, <1>2, <1>6, RowStep DEF MovesTo
<1>7. ASSUME NEW o \in ToSet(applied') PROVE ~IsBad(o)
  <2>1. CASE o \in ToSet(applied)
    BY <1>0, <2>1
  <2>2. CASE o \notin ToSet(applied)
    <3>1. flush.pc = "send" /\ ~Refused(Head(flush.stack)) /\ o \in ToSet(Head(flush.stack))
      BY <2>2, AppliedStep
    <3>. QED
      BY <3>1 DEF Refused, IsBad, ToSet
  <2>. QED
    BY <2>1, <2>2
<1>. QED
  BY <1>1, <1>4, <1>5, <1>6, <1>7 DEF Truthful, IsBad

(* Without the read flags that are removed, the prepared records still hold  *)
(* the change of their event.                                                *)
LEMMA NarrowedWellFormed ==
    ASSUME DeliveryInv, NEW e \in Events
    PROVE  WellFormed(e, Narrowed(e))
<1>1. WellFormed(e, prepared[e]) /\ prepared[e] \in Prepared
  BY DEF DeliveryInv, TypeOK, InProjects
<1>2. /\ Narrowed(e).ops = prepared[e].ops \ Filtered
      /\ Narrowed(e).project = prepared[e].project /\ Narrowed(e).stream = prepared[e].stream
  BY <1>1 DEF Narrowed, Prepared
<1>3. ASSUME NEW p \in Projects PROVE MainOp(e, p) \notin Filtered
  BY FilteredRow, MainOperation
<1>. QED
  BY <1>1, <1>2, <1>3 DEF WellFormed

LEMMA ProjectsStep ==
    ASSUME DeliveryInv, Next
    PROVE  InProjects'
<1>0. /\ \A m \in Messages : Mapped(m) => mapping[m].project \in Projects
      /\ \A o \in Ops : row[o].state # "absent" => row[o].project \in Projects
      /\ \A e \in Events : WellFormed(e, prepared[e])
  BY DEF DeliveryInv, InProjects
<1>1. mapping \in [Messages -> Mapping] /\ prepared \in [Events -> Prepared]
  BY DEF DeliveryInv, TypeOK
<1>2. ASSUME NEW m \in Messages, mapping'[m].state \in {"pending", "committed"}
      PROVE  mapping'[m].project \in Projects
  <2>1. CASE mapping'[m] = mapping[m]
    BY <1>0, <1>2, <2>1 DEF Mapped
  <2>2. ASSUME NEW l \in Lanes, NEW e \in Events, Convert(l, e)
        PROVE  mapping'[m].project \in Projects
    <3>1. \/ mapping'[m] = mapping[m]
          \/ EventRecords(e).ops # {} /\ mapping'[m].project = EventRecords(e).project
      BY <1>1, <2>2, LaneType DEF Convert
    <3>. QED
      BY <2>1, <3>1, RecordsGood
  <2>3. ASSUME NEW l \in Lanes, NEW e \in Events, FinalizeEmpty(l, e)
        PROVE  mapping'[m] = mapping[m]
    <3>1. mapping' = [mapping EXCEPT ![Message[e]] = [mapping[Message[e]] EXCEPT !.state =
                        IF Type[e] = "delete" /\ mapping[Message[e]].state # "absent"
                        THEN "deleted" ELSE mapping[Message[e]].state]]
      BY <1>1, <2>3, LaneType DEF FinalizeEmpty
    <3>2. CASE m = Message[e]
      <4>1. mapping[m] \in Mapping
        BY <1>1
      <4>2. mapping'[m].state # "deleted"
        BY <1>2
      <4>3. mapping'[m] = [mapping[m] EXCEPT !.state =
                        IF Type[e] = "delete" /\ mapping[m].state # "absent"
                        THEN "deleted" ELSE mapping[m].state]
        BY <1>1, <3>1, <3>2
      <4>4. mapping'[m] = [mapping[m] EXCEPT !.state = mapping[m].state]
        BY <4>1, <4>2, <4>3 DEF Mapping
      <4>. QED
        BY <4>1, <4>4 DEF Mapping
    <3>3. CASE m # Message[e]
      BY <1>1, <3>1, <3>3
    <3>. QED
      BY <3>2, <3>3
  <2>4. ASSUME NEW es, NEW rows, mapping' = Abandoned(es, rows) PROVE mapping'[m] = mapping[m]
    <3>1. mapping'[m] = mapping[m] \/ mapping'[m] = [mapping[m] EXCEPT !.state = "deleted"]
      BY <2>4 DEF Abandoned
    <3>2. [mapping[m] EXCEPT !.state = "deleted"].state = "deleted"
      BY <1>1 DEF Mapping
    <3>. QED
      BY <1>2, <3>1, <3>2
  <2>5. ASSUME NEW l \in Lanes, NEW e \in Events, AssignmentChanged(l, e)
        PROVE  mapping'[m] = mapping[m]
    BY <2>4, <2>5 DEF AssignmentChanged
  <2>6. CASE Sweeping
    BY <2>1, <2>4, <2>6, SweepingFrame DEF Sweep
  <2>7. CASE Finalizing
    <3>1. mapping'[m] = mapping[m] \/ mapping'[m] = [mapping[m] EXCEPT !.state = "deleted"]
      BY <2>7, FinalizingFrame DEF FinalizeReady
    <3>2. [mapping[m] EXCEPT !.state = "deleted"].state = "deleted"
      BY <1>1 DEF Mapping
    <3>. QED
      BY <1>2, <2>1, <3>1, <3>2
  <2>8. CASE SendRejected
    <3> DEFINE n == MessageOf(Head(flush.stack)[1])
    <3>1. Head(flush.stack)[1] \in Ops
      BY <2>8, FlushHeads DEF SendRejected, Sending
    <3>2. n \in Messages
      BY <3>1, Operation
    <3>3. PICK s \in {mapping[n].state, "deleted"} : mapping' = [mapping EXCEPT ![n] = [mapping[n] EXCEPT !.state = s]]
      <4>1. PICK s \in {mapping[n].state, "deleted"} : mapping' = [mapping EXCEPT ![n].state = s]
        BY <1>1, <2>8, <3>2 DEF SendRejected
      <4>. QED
        BY <1>1, <3>2, <4>1
    <3> HIDE DEF n
    <3>4. CASE m = n
      <4>1. mapping[n] \in Mapping /\ mapping'[n] = [mapping[n] EXCEPT !.state = s]
        BY <1>1, <3>2, <3>3
      <4>2. [mapping[n] EXCEPT !.state = s].state = s
        BY <4>1 DEF Mapping
      <4>3. s = mapping[n].state
        BY <1>2, <3>3, <3>4, <4>1, <4>2
      <4>4. mapping'[n].project = mapping[n].project /\ mapping'[n].state = mapping[n].state
        BY <4>1, <4>3 DEF Mapping
      <4>. QED
        BY <1>0, <1>2, <3>4, <4>4 DEF Mapped
    <3>5. CASE m # n
      BY <1>1, <2>1, <3>2, <3>3, <3>5
    <3>. QED
      BY <3>4, <3>5
  <2>9. CASE Accept
    <3> DEFINE o == Head(flush.todo)
    <3>1. o \in Ops /\ row[o].state # "absent"
      BY <2>9, AcceptedRow DEF Accept
    <3>2. row[o].project \in Projects /\ MessageOf(o) \in Messages
      BY <1>0, <3>1, Operation
    <3>3. mapping' = [mapping EXCEPT ![MessageOf(o)] = AcceptedMapping(o)]
      BY <2>9 DEF Accept
    <3> HIDE DEF o
    <3>4. CASE m # MessageOf(o)
      BY <1>1, <2>1, <3>2, <3>3, <3>4
    <3>5. CASE m = MessageOf(o)
      <4>1. mapping[m] \in Mapping /\ mapping'[m] = AcceptedMapping(o)
        BY <1>1, <3>2, <3>3, <3>5
      <4>2. [mapping[m] EXCEPT !.state = "deleted"].state = "deleted"
        BY <4>1 DEF Mapping
      <4>3. \/ AcceptedMapping(o) = mapping[m]
            \/ AcceptedMapping(o) = [state |-> "committed", project |-> row[o].project, stream |-> row[o].stream]
            \/ AcceptedMapping(o) = [mapping[m] EXCEPT !.state = "deleted"]
        BY <3>5 DEF AcceptedMapping
      <4>4. CASE AcceptedMapping(o) = mapping[m]
        BY <2>1, <4>1, <4>4
      <4>5. CASE AcceptedMapping(o) = [state |-> "committed", project |-> row[o].project, stream |-> row[o].stream]
        BY <3>2, <4>1, <4>5
      <4>. QED
        BY <1>2, <4>1, <4>2, <4>3, <4>4, <4>5
    <3>. QED
      BY <3>4, <3>5
  <2>. QED
    BY <2>1, <2>2, <2>3, <2>5, <2>6, <2>7, <2>8, <2>9, NextSteps, RecordFrame, RoundFrame, ReadingFrame,
       DesiringFrame, BatchingFrame, ReleasingFrame
       DEF IgnoreInactive, Insert, MarkSubmitting, BootAmbiguous, Crash, mappingVars
<1>3. ASSUME NEW l \in Lanes, NEW e \in Events, Insert(l, e)
      PROVE  WellFormed(e, group[l].new) /\ group[l].new.ops # {}
  BY <1>3 DEF Insert, Binding, DeliveryInv, InGroups, Storing
<1>4. ASSUME NEW o \in Ops, row'[o].state # "absent" PROVE row'[o].project \in Projects
  <2>1. CASE row[o].state = "absent"
    <3>1. PICK l \in Lanes : Insert(l, EventOf(o)) /\ o \in Inserted(l)
      BY <1>4, <2>1, RowAppears
    <3>2. group[l].new.project \in Projects
      BY <1>3, <3>1, Operation DEF WellFormed
    <3>3. row' = [p \in Ops |->
                    IF p \in Inserted(l)
                    THEN [NoRow EXCEPT !.state = "pending", !.account = group[l].account,
                                       !.assignment = group[l].assignment,
                                       !.project = group[l].new.project,
                                       !.stream = group[l].new.stream]
                    ELSE row[p]]
      BY <3>1, Zenon DEF Insert
    <3>4. row'[o].project = group[l].new.project
      BY <3>1, <3>3 DEF NoRow
    <3>. QED
      BY <3>2, <3>4
  <2>2. CASE row[o].state # "absent"
    <3>0. NoRow.state = "absent"
      BY DEF NoRow
    <3>1. row'[o].project = row[o].project
      BY <1>4, <2>2, <3>0, RowStep DEF MovesTo
    <3>. QED
      BY <1>0, <2>2, <3>1
  <2>. QED
    BY <2>1, <2>2
<1>5. ASSUME NEW e \in Events PROVE WellFormed(e, prepared'[e])
  <2>0. WellFormed(e, NoPrepared)
    BY DEF WellFormed, NoPrepared
  <2>1. ASSUME NEW l \in Lanes, NEW d \in Events, IgnoreInactive(l, d) \/ AssignmentChanged(l, d)
        PROVE  prepared'[e] \in {prepared[e], NoPrepared}
    BY <1>1, <2>1 DEF IgnoreInactive, AssignmentChanged
  <2>2. ASSUME NEW l \in Lanes, NEW d \in Events, Insert(l, d)
        PROVE  WellFormed(e, prepared'[e])
    BY <1>0, <1>1, <1>3, <2>2 DEF Insert
  <2>3. CASE Sweeping
    BY <1>0, <2>0, <2>3, SweepingFrame DEF Sweep
  <2>4. CASE Finalizing
    <3>1. prepared'[e] \in {NoPrepared, Narrowed(e), prepared[e]}
      BY <2>4, FinalizedRows
    <3>. QED
      BY <1>0, <2>0, <3>1, NarrowedWellFormed
  <2>5. CASE UNCHANGED prepared
    BY <1>0, <2>5
  <2>. QED
    BY <1>0, <2>0, <2>1, <2>2, <2>3, <2>4, <2>5, NextSteps, RecordFrame, RoundFrame, ReadingFrame,
       DesiringFrame, BatchingFrame, ReleasingFrame
       DEF MarkSubmitting, SendRejected, Accept, BootAmbiguous, Crash, journalVars
<1>. QED
  BY <1>2, <1>4, <1>5, BudgetStep DEF InProjects, Mapped

-----------------------------------------------------------------------------
(* Events *)

(* The event keeps its state and its reason. *)
EventKept(e) == event'[e].state = event[e].state /\ event'[e].reason = event[e].reason
EventMoves(e, s, r) == event'[e].state = s /\ event'[e].reason = r

(* The records of an event are dropped: it is converted again when none of   *)
(* its creates is in the outbox, else it ends.                               *)
EventRecovered(e) ==
    /\ Recoverable(e)
    /\ \/ /\ EventMoves(e, "pending", "assignment_changed")
          /\ CreatesOf(e) # {} /\ \A o \in CreatesOf(e) : row'[o].state = "absent"
       \/ EventMoves(e, "processed", "assignment_changed")

Failed(e) == \E o \in RejectedRows : EventOf(o) = e

(* Everything that can happen to an event. *)
LEMMA EventStep ==
    ASSUME DeliveryInv, Next, NEW e \in Events
    PROVE  \/ EventKept(e)
           \/ Record(e) /\ event[e].state = "absent" /\ event'[e].state = "pending"
           \/ \E l \in Lanes : FinalizeEmpty(l, e) /\ EventMoves(e, "processed", "empty")
           \/ \E l \in Lanes : IgnoreInactive(l, e) /\ event'[e].state = "ignored"
           \/ \E l \in Lanes : ConvertFails(l, e) /\ EventMoves(e, "invalid", "error")
           \/ \E l \in Lanes : Insert(l, e) /\ EventMoves(e, "delivering", "none")
           \/ \E l \in Lanes : AssignmentChanged(l, e) /\ EventRecovered(e)
           \/ Sweeping /\ e \in UnsafeEvents /\ EventMoves(e, "invalid", "ambiguous")
           \/ Sweeping /\ e \notin UnsafeEvents /\ ~SameProject(e) /\ EventRecovered(e)
           \/ /\ Sweeping /\ e \notin UnsafeEvents /\ SameProject(e) /\ Recoverable(e)
              /\ EventMoves(e, "pending", "assignment_changed")
           \/ event[e].state = "delivering" /\ event'[e].state = "delivering"
           \/ /\ Finalizing /\ e \in Finished(RejectedRows) /\ Failed(e)
              /\ EventMoves(e, "invalid", "rejected")
           \/ /\ Finalizing /\ e \in Finished(RejectedRows) /\ ~Failed(e)
              /\ event'[e].state = "processed"
<1>0. event \in [Events -> EventRow] /\ event[e] \in EventRow
  BY DEF DeliveryInv, TypeOK
<1>1. ASSUME NEW d \in Events, Record(d)
      PROVE  EventKept(e) \/ (d = e /\ event[e].state = "absent" /\ event'[e].state = "pending")
  BY <1>0, <1>1 DEF Record, EventKept, EventRow
<1>2. ASSUME NEW l \in Lanes, NEW d \in Events, Reading(l, d)
      PROVE  \/ EventKept(e)
             \/ d = e /\ FinalizeEmpty(l, e) /\ EventMoves(e, "processed", "empty")
             \/ d = e /\ ConvertFails(l, e) /\ EventMoves(e, "invalid", "error")
  <2>1. CASE LaneChanged(l, d) \/ GuardFails(l, d)
    <3>1. event' = [event EXCEPT ![d].lane = IF event[d].state = "pending" THEN LaneFor(d) ELSE event[d].lane]
      BY <1>0, <2>1 DEF LaneChanged, GuardFails, RefreshLane, EventRow
    <3>. QED
      BY <1>0, <3>1 DEF EventKept, EventRow
  <2>2. CASE FinalizeEmpty(l, d)
    <3>1. event' = [event EXCEPT ![d] = [[event[d] EXCEPT !.state = "processed"] EXCEPT !.reason = "empty"]]
      BY <1>0, <2>2 DEF FinalizeEmpty
    <3>2. CASE d = e
      <4>1. event'[e] = [[event[e] EXCEPT !.state = "processed"] EXCEPT !.reason = "empty"]
        BY <1>0, <3>1, <3>2
      <4>. QED
        BY <1>0, <2>2, <3>2, <4>1 DEF EventMoves, EventRow, EventStates
    <3>3. CASE d # e
      BY <1>0, <3>1, <3>3 DEF EventKept
    <3>. QED
      BY <3>2, <3>3
  <2>3. CASE ConvertFails(l, d)
    <3>1. \/ UNCHANGED event
          \/ event' = [event EXCEPT ![d] = [[event[d] EXCEPT !.state = "invalid"] EXCEPT !.reason = "error"]]
      BY <1>0, <2>3 DEF ConvertFails
    <3>2. CASE d = e /\ ~UNCHANGED event
      <4>1. event'[e] = [[event[e] EXCEPT !.state = "invalid"] EXCEPT !.reason = "error"]
        BY <1>0, <3>1, <3>2
      <4>. QED
        BY <1>0, <2>3, <3>2, <4>1 DEF EventMoves, EventRow, EventStates
    <3>3. CASE d # e \/ UNCHANGED event
      BY <1>0, <3>1, <3>3 DEF EventKept
    <3>. QED
      BY <3>2, <3>3
  <2>4. CASE UNCHANGED event
    BY <2>4 DEF EventKept
  <2>. QED
    BY <1>2, <2>1, <2>2, <2>3, <2>4 DEF Reading, AssignmentPending, Convert, Bind, RollBack, journalVars
<1>3. ASSUME NEW l \in Lanes, NEW d \in Events, IgnoreInactive(l, d)
      PROVE  EventKept(e) \/ (d = e /\ event'[e].state = "ignored")
  <2>1. event' = [event EXCEPT ![d] = [event[d] EXCEPT !.state = IF Active(d) THEN "ignored" ELSE event[d].state]]
    BY <1>0, <1>3 DEF IgnoreInactive
  <2>. QED
    BY <1>0, <2>1 DEF EventKept, EventRow
<1>4. ASSUME NEW l \in Lanes, NEW d \in Events, Insert(l, d)
      PROVE  EventKept(e) \/ (d = e /\ EventMoves(e, "delivering", "none"))
  <2>1. event' = [event EXCEPT ![d] = [[event[d] EXCEPT !.state = "delivering"] EXCEPT !.reason = "none"]]
    BY <1>0, <1>4 DEF Insert
  <2>2. CASE d = e
    <3>1. event'[e] = [[event[e] EXCEPT !.state = "delivering"] EXCEPT !.reason = "none"]
      BY <1>0, <2>1, <2>2
    <3>. QED
      BY <1>0, <2>2, <3>1 DEF EventMoves, EventRow, EventStates
  <2>3. CASE d # e
    BY <1>0, <2>1, <2>3 DEF EventKept
  <2>. QED
    BY <2>2, <2>3
<1>5. ASSUME NEW selected, event'[e] = Recovered(e, row', selected)
      PROVE  EventKept(e) \/ EventRecovered(e)
  <2>1. CASE ~Recoverable(e)
    BY <1>5, <2>1 DEF Recovered, EventKept
  <2>2. CASE Recoverable(e)
    <3> DEFINE s == IF Replayed(e, row', selected) THEN "pending" ELSE "processed"
    <3>1. event'[e] = [[event[e] EXCEPT !.state = s] EXCEPT !.reason = "assignment_changed"]
      BY <1>5, <2>2 DEF Recovered
    <3>2. EventMoves(e, s, "assignment_changed")
      BY <1>0, <3>1 DEF EventMoves, EventRow, EventStates
    <3>. QED
      BY <2>2, <3>2 DEF EventRecovered, Replayed
  <2>. QED
    BY <2>1, <2>2
<1>6. ASSUME NEW l \in Lanes, NEW d \in Events, AssignmentChanged(l, d)
      PROVE  EventKept(e) \/ (d = e /\ EventRecovered(e))
  <2>1. PICK selected : event' = [event EXCEPT ![d] = Recovered(d, row', selected)]
    BY <1>6 DEF AssignmentChanged
  <2>2. CASE d = e
    BY <1>0, <1>5, <2>1, <2>2
  <2>3. CASE d # e
    BY <1>0, <2>1, <2>3 DEF EventKept
  <2>. QED
    BY <2>2, <2>3
<1>7. CASE Sweeping
  <2>1. event'[e] = SweptEvent(e, row')
    BY <1>7, SweepingFrame DEF Sweep
  <2>2. CASE e \in UnsafeEvents
    <3>1. event'[e] = [[event[e] EXCEPT !.state = "invalid"] EXCEPT !.reason = "ambiguous"]
      BY <2>1, <2>2 DEF SweptEvent
    <3>. QED
      BY <1>0, <1>7, <2>2, <3>1 DEF EventMoves, EventRow, EventStates
  <2>3. CASE e \notin UnsafeEvents /\ e \notin {EventOf(o) : o \in Removed}
    BY <2>1, <2>3 DEF SweptEvent, EventKept
  <2>4. CASE e \notin UnsafeEvents /\ e \in {EventOf(o) : o \in Removed} /\ ~SameProject(e)
    BY <1>5, <1>7, <2>1, <2>4 DEF SweptEvent
  <2>5. CASE e \notin UnsafeEvents /\ e \in {EventOf(o) : o \in Removed} /\ SameProject(e)
    <3>1. CASE Recoverable(e) /\ event[e].state # "pending"
      <4>1. event'[e] = [[event[e] EXCEPT !.state = "pending"] EXCEPT !.reason = "assignment_changed"]
        BY <2>1, <2>5, <3>1 DEF SweptEvent
      <4>. QED
        BY <1>0, <1>7, <2>5, <3>1, <4>1 DEF EventMoves, EventRow, EventStates
    <3>2. CASE ~(Recoverable(e) /\ event[e].state # "pending")
      BY <2>1, <2>5, <3>2 DEF SweptEvent, EventKept
    <3>. QED
      BY <3>1, <3>2
  <2>. QED
    BY <2>2, <2>3, <2>4, <2>5
<1>8. CASE SendRejected
  <2> DEFINE d == EventOf(Head(flush.stack)[1])
  <2>1. event' = [event EXCEPT ![d].reason = IF event[d].state = "delivering" THEN "rejected" ELSE event[d].reason]
    BY <1>0, <1>8 DEF SendRejected
  <2> HIDE DEF d
  <2>. QED
    BY <1>0, <2>1 DEF EventKept, EventRow
<1>9. CASE Finalizing
  <2> DEFINE done == Finished(RejectedRows)
  <2>0. event' = [d \in Events |->
           IF d \in done
           THEN [event[d] EXCEPT !.state = IF Failed(d) THEN "invalid" ELSE "processed",
                                 !.reason = IF Failed(d) THEN "rejected" ELSE @]
           ELSE IF event[d].state = "delivering"
                   /\ (\E o \in RejectedRows : EventOf(o) = d /\ row[o].state = "pending")
           THEN [event[d] EXCEPT !.reason = "rejected"] ELSE event[d]]
    BY <1>9, FinalizingFrame, Zenon DEF FinalizeReady, Failed
  <2>1. event'[e] =
           IF e \in done
           THEN [event[e] EXCEPT !.state = IF Failed(e) THEN "invalid" ELSE "processed",
                                 !.reason = IF Failed(e) THEN "rejected" ELSE @]
           ELSE IF event[e].state = "delivering"
                   /\ (\E o \in RejectedRows : EventOf(o) = e /\ row[o].state = "pending")
           THEN [event[e] EXCEPT !.reason = "rejected"] ELSE event[e]
    BY <2>0, Zenon
  <2>2. CASE e \in done /\ Failed(e)
    <3>1. event'[e] = [[event[e] EXCEPT !.state = "invalid"] EXCEPT !.reason = "rejected"]
      BY <2>1, <2>2
    <3>. QED
      BY <1>0, <1>9, <2>2, <3>1 DEF EventMoves, EventRow, EventStates
  <2>3. CASE e \in done /\ ~Failed(e)
    <3>1. event'[e] = [[event[e] EXCEPT !.state = "processed"] EXCEPT !.reason = event[e].reason]
      BY <1>0, <2>1, <2>3 DEF EventRow
    <3>. QED
      BY <1>0, <1>9, <2>3, <3>1 DEF EventRow, EventStates
  <2>4. CASE e \notin done
    <3>1. event'[e] = event[e] \/ (event[e].state = "delivering" /\ event'[e] = [event[e] EXCEPT !.reason = "rejected"])
      BY <2>1, <2>4
    <3>. QED
      BY <1>0, <3>1 DEF EventKept, EventRow
  <2>. QED
    BY <2>2, <2>3, <2>4
<1>10. CASE BootAmbiguous
  <2>1. event'[e] = event[e] \/ (event[e].state = "delivering" /\ event'[e] = [event[e] EXCEPT !.reason = "ambiguous"])
    BY <1>10 DEF BootAmbiguous
  <2>. QED
    BY <1>0, <2>1 DEF EventKept, EventRow
<1>11. CASE UNCHANGED event
  BY <1>11 DEF EventKept
<1>. QED
  BY <1>1, <1>2, <1>3, <1>4, <1>6, <1>7, <1>8, <1>9, <1>10, <1>11, NextSteps, RoundFrame,
     DesiringFrame, ReleasingFrame, BatchingFrame DEF MarkSubmitting, Accept, Crash, journalVars

(* An event is taken up again only while it can be recovered. *)
LEMMA RecoverableStep ==
    ASSUME DeliveryInv, Next, NEW e \in Events
    PROVE  /\ event'[e].state = "absent" => event[e].state = "absent"
           /\ Recoverable(e)' => Recoverable(e) \/ event[e].state = "absent"
<1>1. ASSUME NEW l \in Lanes, Insert(l, e) PROVE event[e].state = "pending"
  BY <1>1 DEF Insert, Binding, DeliveryInv, InGroups
<1>. QED
  BY <1>1, EventStep DEF EventKept, EventMoves, EventRecovered, Recoverable, Active, Finished

LEMMA SettledStep ==
    ASSUME DeliveryInv, Next
    PROVE  Settled'
<1> SUFFICES ASSUME NEW o \in Ops
             PROVE  /\ row'[o].state # "absent" => event'[EventOf(o)].state # "absent"
                    /\ row'[o].state = "cancelled" => ~Recoverable(EventOf(o))'
  BY DEF Settled
<1>0. EventOf(o) \in Events
  BY Operation
<1>1. /\ row[o].state # "absent" => event[EventOf(o)].state # "absent"
      /\ row[o].state = "cancelled" => ~Recoverable(EventOf(o))
  BY DEF DeliveryInv, Settled
<1>2. ASSUME NEW l \in Lanes, Insert(l, EventOf(o)) PROVE event'[EventOf(o)].state # "absent"
  BY <1>0, <1>2, RecoverableStep DEF Insert, Binding, DeliveryInv, InGroups
<1>3. row'[o].state # "absent" => event'[EventOf(o)].state # "absent"
  BY <1>0, <1>1, <1>2, RowAppears, RecoverableStep
<1>4. ASSUME NEW l \in Lanes, IgnoreInactive(l, EventOf(o)), Active(EventOf(o))
      PROVE  ~Recoverable(EventOf(o))'
  <2>1. event'[EventOf(o)].state = "ignored"
    BY <1>0, <1>4 DEF IgnoreInactive, DeliveryInv, TypeOK, EventRow
  <2>. QED
    BY <2>1 DEF Recoverable, Active
<1>5. row'[o].state = "cancelled" => ~Recoverable(EventOf(o))'
  <2>1. NoRow.state = "absent"
    BY DEF NoRow
  <2>2. \/ row'[o].state # "cancelled"
        \/ row[o].state = "cancelled"
        \/ \E l \in Lanes : IgnoreInactive(l, EventOf(o)) /\ Active(EventOf(o))
    BY <2>1, RowStep DEF MovesTo
  <2>. QED
    BY <1>0, <1>1, <1>4, <2>2, RecoverableStep
<1>. QED
  BY <1>3, <1>5

(* The change of an event that Workspace shows. *)
LEMMA ShownSet ==
    ASSUME NEW e
    PROVE  Promise!Shown(e) <=> \E o \in ToSet(applied) :
              EventOf(o) = e /\ Kind(o) \notin {"topic.upsert", "read_state.set"}
BY DEF Promise!Shown, ToSet

LEMMA DeliveredStep ==
    ASSUME DeliveryInv, Next
    PROVE  Delivered'
<1> SUFFICES ASSUME NEW e \in Events
             PROVE  /\ event'[e].state = "delivering" => Carried(e)'
                    /\ Outcome(e)' = "applied" => Promise!Shown(e)'
  BY DEF Delivered
<1>0. /\ event[e].state = "delivering" => Carried(e)
      /\ Outcome(e) = "applied" => Promise!Shown(e)
      /\ event[e].state \in EventStates /\ event'[e].state \in EventStates
  BY EventType DEF DeliveryInv, Delivered, TypeOK, EventRow
<1>1. ToSet(applied) \subseteq ToSet(applied')
  BY AppliedStep
<1>2. ASSUME NEW l \in Lanes, Insert(l, e) PROVE Carried(e)'
  <2> DEFINE p == group[l].new.project
             o == MainOp(e, p)
  <2>1. /\ WellFormed(e, group[l].new) /\ group[l].new.ops # {} /\ event[e].state = "pending"
    BY <1>2 DEF Insert, Binding, DeliveryInv, InGroups, Storing
  <2>2. p \in Projects /\ o \in group[l].new.ops
    BY <2>1 DEF WellFormed
  <2>3. o \in Ops /\ EventOf(o) = e /\ Kind(o) # "topic.upsert"
    BY <2>2, MainOperation
  <2> HIDE DEF o
  <2>4. CASE Terminal(o)
    <3>1. CASE idem[o] = "committed"
      <4>1. o \in ToSet(applied')
        BY <1>1, <2>3, <3>1 DEF DeliveryInv, Truthful
      <4>. QED
        BY <2>2, <4>1 DEF Carried, o
    <3>2. CASE idem[o] = "rejected"
      <4>1. row[o].state = "rejected"
        BY <2>3, <3>2 DEF DeliveryInv, Truthful
      <4>2. row'[o].state = "rejected"
        BY <1>2, <2>3, <4>1 DEF Insert, Inserted
      <4>. QED
        BY <2>2, <4>2 DEF Carried, o, InOutbox
    <3>. QED
      BY <2>4, <3>1, <3>2 DEF Terminal
  <2>5. CASE ~Terminal(o) /\ row[o].state = "absent"
    <3>1. o \in Inserted(l)
      BY <2>2, <2>3, <2>5 DEF Inserted, DuplicateTopic
    <3>2. row'[o] = [NoRow EXCEPT !.state = "pending", !.account = group[l].account,
                                  !.assignment = group[l].assignment,
                                  !.project = group[l].new.project,
                                  !.stream = group[l].new.stream]
      BY <1>2, <2>3, <3>1 DEF Insert
    <3>3. row'[o].state = "pending"
      BY <3>2 DEF NoRow
    <3>. QED
      BY <2>2, <3>3 DEF Carried, o, InOutbox
  <2>6. CASE row[o].state # "absent"
    <3>1. row'[o] = row[o]
      BY <1>2, <2>3, <2>6 DEF Insert, Inserted
    <3>2. row[o].state # "cancelled"
      BY <2>1, <2>3 DEF DeliveryInv, Settled, Recoverable, Active
    <3>3. row[o].state \in InOutbox
      BY <2>3, <2>6, <3>2, RowTypes DEF RowStates, InOutbox
    <3>. QED
      BY <2>2, <3>1, <3>3 DEF Carried, o
  <2>. QED
    BY <2>4, <2>5, <2>6
<1>3. ASSUME event[e].state = "delivering", event'[e].state = "delivering" PROVE Carried(e)'
  <2>1. PICK p \in Projects : MainOp(e, p) \in ToSet(applied) \/ row[MainOp(e, p)].state \in InOutbox
    BY <1>0, <1>3 DEF Carried
  <2> DEFINE o == MainOp(e, p)
  <2>2. o \in Ops /\ EventOf(o) = e /\ Kind(o) # "read_state.set"
    BY MainOperation
  <2> HIDE DEF o
  <2>3. CASE o \in ToSet(applied)
    BY <1>1, <2>3 DEF Carried, o
  <2>4. CASE row[o].state \in InOutbox
    <3>1. ASSUME NEW l \in Lanes, IgnoreInactive(l, e) PROVE FALSE
      <4>1. event'[e].state = "ignored"
        BY <1>3, <3>1 DEF IgnoreInactive, Active, DeliveryInv, TypeOK, EventRow
      <4>. QED
        BY <1>3, <4>1
    <3>2. ASSUME NEW l \in Lanes, AssignmentChanged(l, e) PROVE FALSE
      <4>1. PICK rows, selected : event' = [event EXCEPT ![e] = Recovered(e, rows, selected)]
        BY <3>2 DEF AssignmentChanged
      <4>2. Recovered(e, rows, selected).state # "delivering"
        BY <1>3 DEF Recovered, Recoverable, Active, DeliveryInv, TypeOK, EventRow
      <4>. QED
        BY <1>3, <4>1, <4>2 DEF DeliveryInv, TypeOK
    <3>3. ASSUME Sweeping, o \in Removed PROVE FALSE
      <4>1. PICK rows : event'[e] = SweptEvent(e, rows)
        BY <3>3, SweepingFrame DEF Sweep
      <4>2. e \in {EventOf(q) : q \in Removed}
        BY <2>2, <3>3
      <4>3. \A selected : Recovered(e, rows, selected).state # "delivering"
        BY <1>3 DEF Recovered, Recoverable, Active, DeliveryInv, TypeOK, EventRow
      <4>4. Recoverable(e)
        BY <1>3 DEF Recoverable, Active
      <4>5. SweptEvent(e, rows).state # "delivering"
        BY <1>3, <4>2, <4>3, <4>4 DEF SweptEvent, DeliveryInv, TypeOK, EventRow
      <4>. QED
        BY <1>3, <4>1, <4>5
    <3>4. row'[o].state \in InOutbox
      <4>1. o \notin Filtered
        BY <2>2, FilteredRow
      <4>. QED
        BY <2>2, <2>4, <3>1, <3>2, <3>3, <4>1, RowStep DEF MovesTo, InOutbox
    <3>. QED
      BY <3>4 DEF Carried, o
  <2>. QED
    BY <2>1, <2>3, <2>4 DEF o
<1>4. event'[e].state = "delivering" => Carried(e)'
  <2>1. event'[e].state = "delivering" =>
           event[e].state = "delivering" \/ \E l \in Lanes : Insert(l, e)
    BY EventStep DEF EventKept, EventMoves, EventRecovered
  <2>. QED
    BY <1>2, <1>3, <2>1
<1>5. Promise!Shown(e) => Promise!Shown(e)'
  BY <1>1 DEF Promise!Shown, ToSet
<1>6. ASSUME e \in Finished(RejectedRows), ~Failed(e) PROVE Promise!Shown(e)
  <2>1. event[e].state = "delivering"
    BY <1>6 DEF Finished
  <2>2. PICK p \in Projects : MainOp(e, p) \in ToSet(applied) \/ row[MainOp(e, p)].state \in InOutbox
    BY <1>0, <2>1 DEF Carried
  <2> DEFINE o == MainOp(e, p)
  <2>3. o \in Ops /\ EventOf(o) = e /\ Kind(o) \notin {"topic.upsert", "read_state.set"}
    BY MainOperation
  <2> HIDE DEF o
  <2>4. o \notin RejectedRows
    BY <1>6, <2>3 DEF Failed
  <2>5. row[o].state # "rejected" /\ ~Unsent(o)
    BY <1>6, <2>3, <2>4, DirectRejections, FilteredRow DEF Finished
  <2>6. o \in ToSet(applied)
    BY <2>2, <2>3, <2>5 DEF o, InOutbox, Unsent, DeliveryInv, Truthful
  <2>. QED
    BY <2>3, <2>6, ShownSet
<1>7. Outcome(e)' = "applied" => Outcome(e) = "applied" \/ (e \in Finished(RejectedRows) /\ ~Failed(e))
  <2> SUFFICES ASSUME Outcome(e)' = "applied", ~(e \in Finished(RejectedRows) /\ ~Failed(e))
               PROVE  Outcome(e) = "applied"
    OBVIOUS
  <2>1. event'[e].state = "processed" /\ event'[e].reason \notin {"empty", "assignment_changed"}
    BY <1>0 DEF Outcome, EventStates
  <2>2. EventKept(e)
    BY <2>1, EventStep DEF EventKept, EventMoves, EventRecovered
  <2>. QED
    BY <2>1, <2>2 DEF EventKept, Outcome
<1>. QED
  BY <1>0, <1>4, <1>5, <1>6, <1>7

(* The prepared creates of an event that can be recovered stay, or none of   *)
(* them is in the outbox.                                                    *)
LEMMA PreparedStep ==
    ASSUME DeliveryInv, Next, NEW e \in Events, Recoverable(e)', Recoverable(e),
           \A l \in Lanes : ~Insert(l, e)
    PROVE  \A o \in CreatesOf(e) :
              o \in prepared[e].ops => o \in prepared'[e].ops \/ row'[o].state = "absent"
<1>0. prepared \in [Events -> Prepared] /\ event \in [Events -> EventRow]
  BY DEF DeliveryInv, TypeOK
<1>1. ASSUME NEW l \in Lanes, NEW d \in Events, IgnoreInactive(l, d)
      PROVE  prepared'[e] = prepared[e]
  <2>1. CASE d = e /\ Active(e)
    <3>1. event'[e].state = "ignored"
      BY <1>0, <1>1, <2>1 DEF IgnoreInactive, EventRow
    <3>. QED
      BY <3>1 DEF Recoverable, Active
  <2>2. CASE ~(d = e /\ Active(e))
    BY <1>0, <1>1, <2>2 DEF IgnoreInactive
  <2>. QED
    BY <2>1, <2>2
<1>2. ASSUME NEW l \in Lanes, NEW d \in Events, Insert(l, d)
      PROVE  prepared'[e] = prepared[e]
  BY <1>0, <1>2 DEF Insert
<1>3. ASSUME NEW selected, event'[e] = Recovered(e, row', selected)
      PROVE  \A o \in CreatesOf(e) : row'[o].state = "absent"
  <2>1. CASE Replayed(e, row', selected)
    BY <2>1 DEF Replayed
  <2>2. CASE ~Replayed(e, row', selected)
    <3>1. event'[e] = [[event[e] EXCEPT !.state = "processed"] EXCEPT !.reason = "assignment_changed"]
      BY <1>3, <2>2 DEF Recovered
    <3>2. event'[e].state = "processed"
      BY <1>0, <3>1 DEF EventRow, EventStates
    <3>. QED
      BY <3>2 DEF Recoverable, Active
  <2>. QED
    BY <2>1, <2>2
<1>4. ASSUME NEW l \in Lanes, NEW d \in Events, AssignmentChanged(l, d)
      PROVE  prepared'[e] = prepared[e] \/ \A o \in CreatesOf(e) : row'[o].state = "absent"
  <2>1. CASE d # e
    BY <1>0, <1>4, <2>1 DEF AssignmentChanged
  <2>2. CASE d = e
    <3>1. PICK selected : event' = [event EXCEPT ![e] = Recovered(e, row', selected)]
      BY <1>4, <2>2 DEF AssignmentChanged
    <3>. QED
      BY <1>0, <1>3, <3>1
  <2>. QED
    BY <2>1, <2>2
<1>5. CASE Sweeping
  <2>1. event'[e] = SweptEvent(e, row') /\ (e \notin Forgotten => prepared'[e] = prepared[e])
    BY <1>5, SweepingFrame DEF Sweep
  <2>2. CASE e \notin Forgotten
    BY <2>1, <2>2
  <2>3. CASE e \in UnsafeEvents
    <3>1. event'[e] = [[event[e] EXCEPT !.state = "invalid"] EXCEPT !.reason = "ambiguous"]
      BY <2>1, <2>3 DEF SweptEvent
    <3>2. event'[e].state = "invalid" /\ event'[e].reason = "ambiguous"
      BY <1>0, <3>1 DEF EventRow, EventStates
    <3>. QED
      BY <3>2 DEF Recoverable, Active
  <2>4. CASE e \in Forgotten /\ e \notin UnsafeEvents
    <3>1. e \in {EventOf(o) : o \in Removed} /\ ~SameProject(e)
      BY <2>4 DEF Forgotten
    <3>. QED
      BY <1>3, <2>1, <2>4, <3>1 DEF SweptEvent
  <2>. QED
    BY <2>2, <2>3, <2>4
<1>6. CASE Finalizing
  <2>0. event' = [d \in Events |->
             IF d \in Finished(RejectedRows)
             THEN [event[d] EXCEPT !.state = IF Failed(d) THEN "invalid" ELSE "processed",
                                   !.reason = IF Failed(d) THEN "rejected" ELSE @]
             ELSE IF event[d].state = "delivering"
                     /\ (\E o \in RejectedRows : EventOf(o) = d /\ row[o].state = "pending")
             THEN [event[d] EXCEPT !.reason = "rejected"] ELSE event[d]]
    BY <1>6, FinalizingFrame, Zenon DEF FinalizeReady, Failed
  <2>1. CASE e \in Finished(RejectedRows) /\ ~Failed(e)
    <3>1. event'[e] = [[event[e] EXCEPT !.state = "processed"] EXCEPT !.reason = event[e].reason]
      BY <1>0, <2>0, <2>1
    <3>2. event'[e].state = "processed"
      BY <1>0, <3>1 DEF EventRow, EventStates
    <3>. QED
      BY <3>2 DEF Recoverable, Active
  <2>2. CASE ~(e \in Finished(RejectedRows) /\ ~Failed(e))
    <3>1. prepared'[e] \in {prepared[e], Narrowed(e)}
      BY <1>6, <2>2, FinalizedRows DEF Failed
    <3>2. Narrowed(e).ops = prepared[e].ops \ Filtered
      BY <1>0 DEF Narrowed, Prepared
    <3>. QED
      BY <3>1, <3>2, FilteredRow DEF CreatesOf
  <2>. QED
    BY <2>1, <2>2
<1>7. CASE UNCHANGED prepared
  BY <1>7
<1>. QED
  BY <1>1, <1>2, <1>4, <1>5, <1>6, <1>7, NextSteps, RecordFrame, RoundFrame, ReadingFrame,
     DesiringFrame, BatchingFrame, ReleasingFrame
     DEF MarkSubmitting, SendRejected, Accept, BootAmbiguous, Crash, journalVars

LEMMA OneCreateStep ==
    ASSUME DeliveryInv, Next
    PROVE  OneCreate'
<1>0. /\ \A o, d \in Ops :
           /\ Kind(o) = "message.create" /\ Kind(d) = "message.create"
           /\ EventOf(o) = EventOf(d)
           /\ row[o].state # "absent" /\ row[d].state # "absent"
           => o = d
      /\ \A o \in Ops :
           /\ Kind(o) = "message.create" /\ row[o].state # "absent"
           /\ Recoverable(EventOf(o))
           => o \in prepared[EventOf(o)].ops
  BY DEF DeliveryInv, OneCreate
<1>1. ASSUME NEW l \in Lanes, NEW e \in Events, Insert(l, e), NEW o \in Ops,
             Kind(o) = "message.create", EventOf(o) = e, row'[o].state # "absent"
      PROVE  o \in group[l].new.ops /\ o[2] = "message" /\ o[3] = group[l].new.project
             /\ prepared'[e] = group[l].new
  <2>1. /\ WellFormed(e, group[l].new) /\ group[l].new.ops # {} /\ event[e].state = "pending"
        /\ prepared[e].ops # {} => group[l].new = prepared[e]
    BY <1>1 DEF Insert, Binding, DeliveryInv, InGroups, Storing
  <2>2. prepared'[e] = group[l].new
    BY <1>1 DEF Insert, DeliveryInv, TypeOK
  <2>3. o \in group[l].new.ops
    <3>1. CASE o \in Inserted(l)
      BY <3>1 DEF Inserted
    <3>2. CASE o \notin Inserted(l)
      <4>1. row[o].state # "absent"
        BY <1>1, <3>2 DEF Insert
      <4>2. o \in prepared[e].ops
        BY <1>0, <1>1, <2>1, <4>1 DEF Recoverable, Active
      <4>. QED
        BY <2>1, <4>2
    <3>. QED
      BY <3>1, <3>2
  <2>4. o[2] = "message" /\ Type[e] = "message"
    BY <1>1, CreateKind
  <2>. QED
    BY <2>1, <2>2, <2>3, <2>4 DEF WellFormed
<1>2. ASSUME NEW o \in Ops, NEW d \in Ops, Kind(o) = "message.create", Kind(d) = "message.create",
             EventOf(o) = EventOf(d), row'[o].state # "absent", row'[d].state # "absent"
      PROVE  o = d
  <2>1. CASE row[o].state # "absent" /\ row[d].state # "absent"
    BY <1>0, <1>2, <2>1
  <2>2. ASSUME NEW l \in Lanes, Insert(l, EventOf(o)) PROVE o = d
    <3>1. o[2] = d[2] /\ o[3] = d[3] /\ EventOf(o) \in Events
      BY <1>1, <1>2, <2>2, Operation
    <3>2. o = <<EventOf(o), o[2], o[3]>> /\ d = <<EventOf(d), d[2], d[3]>>
      BY Operation
    <3>. QED
      BY <1>2, <3>1, <3>2
  <2>. QED
    BY <1>2, <2>1, <2>2, RowAppears
<1>3. ASSUME NEW o \in Ops, Kind(o) = "message.create", row'[o].state # "absent",
             Recoverable(EventOf(o))'
      PROVE  o \in prepared'[EventOf(o)].ops
  <2>0. EventOf(o) \in Events
    BY Operation
  <2>1. ASSUME NEW l \in Lanes, Insert(l, EventOf(o)) PROVE o \in prepared'[EventOf(o)].ops
    BY <1>1, <1>3, <2>0, <2>1
  <2>2. CASE \A l \in Lanes : ~Insert(l, EventOf(o))
    <3>1. row[o].state # "absent"
      BY <1>3, <2>2, RowAppears
    <3>2. Recoverable(EventOf(o))
      BY <1>3, <2>0, <3>1, RecoverableStep DEF DeliveryInv, Settled
    <3>3. o \in prepared[EventOf(o)].ops /\ o \in CreatesOf(EventOf(o))
      BY <1>0, <1>3, <3>1, <3>2 DEF CreatesOf
    <3>. QED
      BY <1>3, <2>0, <2>2, <3>2, <3>3, PreparedStep
  <2>. QED
    BY <2>1, <2>2
<1>. QED
  BY <1>2, <1>3 DEF OneCreate

-----------------------------------------------------------------------------
(* The invariant holds *)

LEMMA DeliveryStart == Init => DeliveryInv
<1> SUFFICES ASSUME Init PROVE DeliveryInv
  OBVIOUS
<1>1. TypeOK
  <2>1. event \in [Events -> EventRow] /\ prepared \in [Events -> Prepared]
    BY DEF Init, EventRow, EventStates, Reasons, Prepared, NoPrepared
  <2>2. row \in [Ops -> Row]
    BY DEF Init, Row, NoRow, RowStates
  <2>3. /\ queue \in Seq(Ops) /\ applied \in Seq(Ops)
        /\ idem \in [Ops -> {"absent", "open", "committed", "rejected"}]
        /\ position \in [Ops -> Nat]
    BY DEF Init
  <2>4. mapping \in [Messages -> Mapping] /\ topic \in [Chats -> {"pending", "committed"}]
        /\ report \in [Chats -> {"no", "queued", "done"}]
    BY DEF Init, Mapping
  <2>5. account \in [generation: Nat, enabled: BOOLEAN] /\ assignment \in [Chats -> Assignment]
    BY DEF Init, Assignment
  <2>6. group \in [Chats \cup {None} -> Group] /\ flush \in Flush
    BY IdleGroup, FlushIdleType DEF Init
  <2>7. budget \in [changes: Nat, accounts: Nat, crashes: Nat, faults: Nat]
    <3>1. budget \in [changes: 0 .. MaxChanges, accounts: Nat, crashes: Nat, faults: Nat]
      BY DeliveryAssumption DEF Init
    <3>. QED
      BY <3>1, DeliveryAssumption
  <2>. QED
    BY <2>1, <2>2, <2>3, <2>4, <2>5, <2>6, <2>7 DEF TypeOK, Init
<1>2. InProjects
  <2>1. budget.changes \in 0 .. MaxChanges
    BY DeliveryAssumption DEF Init
  <2>2. \A c \in Chats : assignment[c].project \in 1 .. (MaxChanges + 1) - budget.changes
    BY <2>1, DeliveryAssumption DEF Init
  <2>. QED
    BY <2>1, <2>2, DeliveryAssumption DEF Init, InProjects, Mapped, NoRow, WellFormed, NoPrepared
<1>3. InGroups
  <2>1. \A l \in Lanes : group[l] = GroupIdle
    BY DEF Init, Lanes
  <2>2. None \in Lanes
    BY DEF Lanes
  <2>. QED
    BY <2>1, <2>2, IdleGroup DEF InGroups, Storing
<1>4. InFlush
  <2>1. flush.pc = "idle" /\ flush.stack = <<>> /\ flush.todo = <<>> /\ boot = "up"
    BY DEF Init, FlushIdle
  <2>. QED
    BY <2>1 DEF InFlush, InFlight
<1>5. ToSet(applied) = {}
  BY DEF Init, ToSet
<1>6. \A o \in Ops : row[o].state = "absent" /\ idem[o] = "absent"
  BY DEF Init, NoRow
<1>7. Truthful /\ Settled /\ OneCreate
  BY <1>5, <1>6 DEF Truthful, Settled, OneCreate
<1>8. Delivered
  <2>1. \A e \in Events : event[e].state = "absent"
    BY DEF Init
  <2>2. \A e \in Events : Outcome(e) = "open"
    BY <2>1 DEF Outcome
  <2>. QED
    BY <2>1, <2>2 DEF Delivered
<1>. QED
  BY <1>1, <1>2, <1>3, <1>4, <1>7, <1>8 DEF DeliveryInv

LEMMA DeliveryNext ==
    ASSUME DeliveryInv, Next
    PROVE  DeliveryInv'
BY TypesStep, ProjectsStep, GroupsStep, FlushKept, TruthfulStep, SettledStep, DeliveredStep,
   OneCreateStep DEF DeliveryInv

LEMMA DeliveryStutters ==
    ASSUME DeliveryInv, UNCHANGED vars
    PROVE  DeliveryInv'
<1>1. UNCHANGED <<event, prepared, row, queue, idem, position, mapping, topic, report, account,
                  assignment, group, flush, control, boot, applied, bad, budget>>
  BY DEF vars, journalVars, outboxVars, mappingVars, desiredVars, workspaceVars
<1>2. TypeOK'
  BY <1>1 DEF DeliveryInv, TypeOK
<1>3. InProjects'
  BY <1>1 DEF DeliveryInv, InProjects, Mapped
<1>4. InGroups'
  BY <1>1 DEF DeliveryInv, InGroups
<1>5. InFlush'
  BY <1>1 DEF DeliveryInv, InFlush, InFlight, IsBad
<1>6. Truthful' /\ Settled'
  BY <1>1 DEF DeliveryInv, Truthful, IsBad, Settled, Recoverable, Active
<1>7. Delivered'
  BY <1>1 DEF DeliveryInv, Delivered, Carried, Outcome, Promise!Shown
<1>8. OneCreate'
  BY <1>1 DEF DeliveryInv, OneCreate, Recoverable, Active
<1>. QED
  BY <1>2, <1>3, <1>4, <1>5, <1>6, <1>7, <1>8 DEF DeliveryInv

THEOREM DeliveryInvariant == Spec => []DeliveryInv
<1>1. DeliveryInv /\ [Next]_vars => DeliveryInv'
  BY DeliveryNext, DeliveryStutters
<1>. QED
  BY <1>1, DeliveryStart, PTL DEF Spec


(* TypeOK for every number of chats, events, changes and failures: the       *)
(* outbox, the mappings, the lane groups and the delivery thread stay well   *)
(* formed through every restart and every assignment change.                 *)
THEOREM DeliveryTypes == Spec => []TypeOK
<1>1. DeliveryInv => TypeOK
  BY DEF DeliveryInv
<1>. QED
  BY <1>1, DeliveryInvariant, PTL

(* DeliveredIsShown for all of them: finalize_ready_provider_events marks an *)
(* event processed only when Workspace shows its change, also after lost     *)
(* answers, restarts, refusals and sweeps.                                   *)
THEOREM DeliveredShown == Spec => []DeliveredIsShown
<1>1. DeliveryInv => DeliveredIsShown
  BY DEF DeliveryInv, Delivered, DeliveredIsShown
<1>. QED
  BY <1>1, DeliveryInvariant, PTL

-----------------------------------------------------------------------------
(* What the outbox remembers *)

(* A pending record that was submitted before may have been applied.         *)
Submitted(o) == row[o].state = "pending" /\ row[o].tried

(* Where the row of an applied record can be. *)
Remembered(o) == row[o].state \in {"submitting", "cancelled", "sent", "ambiguous"} \/ Submitted(o)

(* The two statements that change a pending row without a look at its        *)
(* submission_attempts take o, which was submitted: the DELETE of            *)
(* finalize_provider_event_assignment_changed and the passing on of          *)
(* rejections in _quarantine_rejected_workspace_delivery_dependents.         *)
Discards(o) ==
    /\ Submitted(o)
    /\ \/ \E l \in Lanes : AssignmentChanged(l, EventOf(o))
       \/ Finalizing /\ o \in RejectedRows

LEMMA RememberedStep ==
    ASSUME DeliveryInv, Next, NEW o \in ToSet(applied'),
           o \in ToSet(applied) => Remembered(o), ~ Discards(o)
    PROVE  Remembered(o)'
<1>1. applied \in Seq(Ops) /\ applied' \in Seq(Ops)
  BY AppliedStep DEF DeliveryInv, TypeOK
<1>2. o \in Ops
  BY <1>1 DEF ToSet
<1>3. row[o].state \in {"submitting", "ambiguous"} => row[o].tried
  BY <1>2 DEF DeliveryInv, Truthful
<1>4. \/ row[o].state \in {"submitting", "cancelled", "sent", "ambiguous"}
      \/ Submitted(o)
  <2>1. CASE o \in ToSet(applied)
    BY <2>1 DEF Remembered
  <2>2. CASE o \notin ToSet(applied)
    <3>1. /\ flush.pc = "send" /\ ~Refused(Head(flush.stack)) /\ o \in ToSet(Head(flush.stack))
      BY <2>2, AppliedStep
    <3>2. ~IsBad(o)
      BY <3>1 DEF Refused, IsBad, ToSet
    <3>3. flush.stack \in Seq(Seq(Ops)) /\ flush.stack # <<>>
      BY <3>1, FlushHeads DEF DeliveryInv, InFlush
    <3>4. 1 \in DOMAIN flush.stack /\ Head(flush.stack) = flush.stack[1]
      BY <3>3
    <3>5. InFlight(o)
      BY <3>1, <3>4 DEF InFlight, ToSet
    <3>. QED
      BY <1>2, <3>2, <3>5 DEF DeliveryInv, InFlush
  <2>. QED
    BY <2>1, <2>2
<1>5. ~(SendRejected /\ o = Head(flush.stack)[1])
  <2>1. ASSUME SendRejected PROVE UNCHANGED applied
    BY <2>1 DEF SendRejected, workspaceVars
  <2>2. ~(o \in ToSet(applied) /\ IsBad(o))
    BY DEF DeliveryInv, Truthful
  <2>. QED
    BY <2>1, <2>2, SendRejectedFlush, SMTT(30)
<1>6. ~(Finalizing /\ o \in RejectedRows /\ row[o].state = "pending")
  BY <1>4 DEF Discards, Submitted
<1>7. ASSUME NEW l \in Lanes, AssignmentChanged(l, EventOf(o)) PROVE row[o].state # "pending"
  BY <1>4, <1>7 DEF Discards, Submitted
<1>8. o \notin Removed
  BY <1>4 DEF Removed, Submitted
<1>. QED
  BY <1>2, <1>3, <1>4, <1>5, <1>6, <1>7, <1>8, RowStep, FilteredRow
     DEF MovesTo, Remembered, Submitted, Unsent, CanSubmit

(* No step of the journal, the sweep, the delivery thread or the recovery    *)
(* forgets a record that Workspace applied, but for the two statements.      *)
AppliedIsRemembered ==
    [][\A o \in ToSet(applied') :
          (o \in ToSet(applied) => Remembered(o)) => Remembered(o)' \/ Discards(o)]_vars

(* The outbox knows a record when Workspace applies it, and keeps it as one  *)
(* that may have been applied (reset_stale_workspace_deliveries,             *)
(* release_provider_event_submissions and the recovery at start look at      *)
(* submission_attempts), until one of the two statements that do not look    *)
(* takes it.                                                                 *)
THEOREM OutboxRemembers == Spec => AppliedIsRemembered
<1>1. DeliveryInv /\ [Next]_vars
      => [\A o \in ToSet(applied') :
            (o \in ToSet(applied) => Remembered(o)) => Remembered(o)' \/ Discards(o)]_vars
  BY RememberedStep
<1>. QED
  BY <1>1, DeliveryInvariant, PTL DEF Spec, AppliedIsRemembered

(* An event has one create in the outbox. *)
OneCreateAtATime ==
    \A o, d \in Ops :
        /\ Kind(o) = "message.create" /\ Kind(d) = "message.create"
        /\ EventOf(o) = EventOf(d)
        /\ row[o].state # "absent" /\ row[d].state # "absent"
        => o = d

(* A conversion that is repeated, for another project after a change of the  *)
(* assignment, makes no create beside one that the outbox still has          *)
(* (_recover_provider_event_assignment_change,                               *)
(* prepare_provider_event_records). With OutboxRemembers: an event's message *)
(* is created in a second project only after the create in the first one has *)
(* been discarded.                                                           *)
THEOREM CreateIsNotDoubled == Spec => []OneCreateAtATime
<1>1. DeliveryInv => OneCreateAtATime
  BY DEF DeliveryInv, OneCreate, OneCreateAtATime
<1>. QED
  BY <1>1, DeliveryInvariant, PTL
=============================================================================
