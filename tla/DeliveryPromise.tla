--------------------------- MODULE DeliveryPromise ---------------------------
(***************************************************************************)
(* What the journal and the outbox promise together, without lanes,        *)
(* batches, rows or generations: Workspace receives a log of records, and  *)
(* every event ends once.                                                  *)
(***************************************************************************)
EXTENDS Naturals, Sequences, SequencesExt

CONSTANTS
    Events,         \* numbered in the order Zulip sent them
    Type, Message,  \* of an event
    EventOf(_), MessageOf(_), ChatOf(_), Kind(_)    \* of a record

VARIABLES
    log,            \* the records that Workspace applied, in order
    outcome         \* of each event: open, applied, refused or void

(* What a record refers to. *)
Prerequisite(d, o) ==
    CASE Kind(o) = "message.create" -> Kind(d) = "topic.upsert" /\ ChatOf(d) = ChatOf(o)
      [] Kind(o) \in {"message.update", "message.delete", "read_state.set"} ->
            Kind(d) = "message.create" /\ MessageOf(d) = MessageOf(o)

(* The message was refused: a change of it may still arrive, on its own. *)
Missing(m) == \E e \in Events : Type[e] = "message" /\ Message[e] = m /\ outcome[e] = "refused"

InOrder(o, before) ==
    /\ \/ Kind(o) = "topic.upsert"
       \/ \E d \in before : Prerequisite(d, o)
       \/ Kind(o) # "message.create" /\ Missing(MessageOf(o))
    /\ \A d \in before :
         Kind(o) # "topic.upsert" /\ Kind(d) # "topic.upsert" /\ MessageOf(d) = MessageOf(o) =>
            EventOf(d) <= EventOf(o)

(* Records of open events are appended, each one once and in order. *)
Deliver ==
    /\ IsPrefix(log, log') /\ log' # log
    /\ \A i \in Len(log) + 1 .. Len(log') :
         LET before == {log'[j] : j \in 1 .. i - 1}
         IN  /\ log'[i] \notin before
             /\ outcome[EventOf(log'[i])] = "open"
             /\ InOrder(log'[i], before)
    /\ UNCHANGED outcome

(* Main record of the event: not its topic, not its read flag. *)
Shown(e) == \E i \in DOMAIN log : EventOf(log[i]) = e
                                  /\ Kind(log[i]) \notin {"topic.upsert", "read_state.set"}

(* Events end: as applied only with their change in the log, as void only    *)
(* without it.                                                               *)
Conclude ==
    /\ outcome' # outcome
    /\ \A e \in Events :
         outcome'[e] # outcome[e] =>
            /\ outcome[e] = "open"
            /\ outcome'[e] = "applied" => Shown(e)
            /\ outcome'[e] = "void" => ~Shown(e)
    /\ UNCHANGED log

Init == log = <<>> /\ outcome = [e \in Events |-> "open"]
Next == Deliver \/ Conclude
Spec == Init /\ [][Next]_<<log, outcome>>

=============================================================================
