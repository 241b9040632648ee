------------------------ MODULE OperationQueueProofs ------------------------
(***************************************************************************)
(* Theorems of OperationQueue, for any number of operations, lanes,        *)
(* leases, faults, crashes and control-plane changes.                      *)
(*   - Lanes: a lane is dispatched in the order of its positions, and its  *)
(*     next position always has a row.                                     *)
(*   - Sends and outcomes: Zulip is asked to create a message at most      *)
(*     once, plus the single automatic resend and what its error answers   *)
(*     to applied sends cost, and what is recorded and reported of it      *)
(*     afterwards is true.  What local echoes can do to a row that is      *)
(*     about to be sent again is stated exactly (Raced).                   *)
(*   - Retries: a create that may have reached Zulip is queued again only  *)
(*     on an answer to it or as the single resend.                         *)
(***************************************************************************)
EXTENDS OperationQueueTypes

(* Lanes. *)

(* The positions of a lane: allocated up to the counter, distinct, and every *)
(* one up to the causal lane's position has a terminal outcome.              *)
LaneInv ==
    /\ \A o \in Ops :
         /\ seq[o] <= counter[Lane[o]].seq
         /\ 0 < seq[o] /\ seq[o] <= lane[Lane[o]].seq => idem[o] \in Terminal
         /\ live.op = o /\ live.pc \in {"claimed", "attempted"}
              => seq[o] <= lane[Lane[o]].seq + 1
    /\ \A o, p \in Ops :
         Lane[o] = Lane[p] /\ 0 < seq[o] /\ seq[o] = seq[p] => o = p
    /\ \A l \in Lanes : lane[l].seq <= counter[l].seq

(* A position of a lane and the operation that holds it. *)
Holds(l, position) ==
    IF position.seq = 0 THEN position.op = None
    ELSE /\ position.op \in Ops
         /\ Lane[position.op] = l
         /\ seq[position.op] = position.seq

(* The allocated positions of a lane have no gap, each names the one before  *)
(* it, and the row of a position that was not passed yet is there.           *)
ChainInv ==
    /\ \A l \in Lanes : Holds(l, counter[l]) /\ Holds(l, lane[l])
    /\ \A l \in Lanes : \A k \in 1 .. counter[l].seq :
         \E o \in Ops : Lane[o] = l /\ seq[o] = k
    /\ \A o \in Ops : seq[o] = 1 => pred[o] = None
    /\ \A o, p \in Ops :
         Lane[o] = Lane[p] /\ 0 < seq[o] /\ seq[p] = seq[o] + 1 => pred[p] = o
    /\ \A o \in Ops :
         /\ state[o] = "absent" => seq[o] = 0 \/ idem[o] \in Terminal
         /\ state[o] \in {"absent", "committed"} => seq[o] <= lane[Lane[o]].seq

-----------------------------------------------------------------------------
(* A step that allocates no position, advances no lane and claims nothing. *)
Still ==
    /\ UNCHANGED <<seq, pred, counter, lane>>
    /\ \/ live' = live
       \/ live'.pc \notin {"claimed", "attempted"}
       \/ live.pc = "claimed" /\ live'.op = live.op
    /\ \A o \in Ops :
         /\ idem'[o] = idem[o] \/ idem'[o] \in Terminal
         /\ \/ state'[o] = state[o]
            \/ state'[o] \notin {"absent", "committed"}
            \/ state[o] = "committed" /\ idem[o] \in Terminal

LEMMA StillLanes ==
    ASSUME LaneInv, ChainInv, Still
    PROVE  LaneInv' /\ ChainInv'
  <1>1. LaneInv'
    BY DEF LaneInv, Still
  <1>2. ChainInv'
    <2>1. \A l \in Lanes : Holds(l, counter[l])' /\ Holds(l, lane[l])'
      BY DEF ChainInv, Still, Holds
    <2>2. \A o \in Ops :
            /\ state'[o] = "absent" => seq'[o] = 0 \/ idem'[o] \in Terminal
            /\ state'[o] \in {"absent", "committed"} => seq'[o] <= lane'[Lane[o]].seq
      BY DEF ChainInv, Still
    <2> QED BY <2>1, <2>2 DEF ChainInv, Still
  <1> QED BY <1>1, <1>2

(* complete() advances the lane by exactly the position at its head. *)
LEMMA CompleteLanes ==
    ASSUME TypeOK, LaneInv, ChainInv, NEW o \in Ops, NEW outcome \in Terminal,
           NEW lease, Complete(o, outcome, lease),
           UNCHANGED <<seq, pred, counter>>, live' = live \/ live' = Idle
    PROVE  LaneInv' /\ ChainInv'
  <1>0. /\ Idle.pc = "idle"
        /\ \A l \in Lanes : lane[l].seq \in Nat /\ counter[l].seq \in Nat
        /\ \A p \in Ops : seq[p] \in Nat /\ Lane[p] \in Lanes
    BY ConstantsAssumption DEF Idle, TypeOK, Position
  <1>1. CASE state[o] \in Terminal
    <2>1. Still
      BY <1>0, <1>1 DEF Still, Complete
    <2> QED BY <2>1, StillLanes
  <1>2. CASE state[o] \notin Terminal
    <2>1. /\ seq[o] = lane[Lane[o]].seq + 1
          /\ lane' = [lane EXCEPT ![Lane[o]] = [seq |-> seq[o], op |-> o]]
          /\ idem' = [idem EXCEPT ![o] = outcome]
          /\ state' = state \/ state' = [state EXCEPT ![o] = outcome]
      BY <1>2 DEF Complete, AtLaneHead
    <2>2. /\ lane'[Lane[o]] = [seq |-> seq[o], op |-> o]
          /\ \A l \in Lanes : l # Lane[o] => lane'[l] = lane[l]
      BY <1>0, <2>1 DEF TypeOK
    <2>3. /\ idem'[o] \in Terminal
          /\ \A p \in Ops : idem[p] \in Terminal => idem'[p] \in Terminal
      BY <2>1 DEF TypeOK
    <2>4. \A p \in Ops : p # o => state'[p] = state[p]
      BY <2>1 DEF TypeOK
    <2>5. \A l \in Lanes : lane[l].seq <= lane'[l].seq
      BY <1>0, <2>1, <2>2
    <2>6. LaneInv'
      <3>1. ASSUME NEW p \in Ops, 0 < seq[p], seq[p] <= lane'[Lane[p]].seq
            PROVE  idem'[p] \in Terminal
        <4>1. CASE seq[p] <= lane[Lane[p]].seq
          BY <2>3, <3>1, <4>1 DEF LaneInv
        <4>2. CASE ~ (seq[p] <= lane[Lane[p]].seq)
          <5>1. Lane[p] = Lane[o]
            BY <1>0, <2>2, <3>1, <4>2
          <5>2. seq[p] = seq[o]
            BY <1>0, <2>1, <2>2, <3>1, <4>2, <5>1
          <5> QED BY <2>3, <3>1, <5>1, <5>2 DEF LaneInv
        <4> QED BY <4>1, <4>2
      <3>2. \A l \in Lanes : lane'[l].seq <= counter[l].seq
        BY <2>2 DEF LaneInv
      <3>3. \A l \in Lanes : lane'[l].seq \in Nat
        BY <1>0, <2>2
      <3>4. ASSUME NEW p \in Ops, live'.op = p, live'.pc \in {"claimed", "attempted"}
            PROVE  seq[p] <= lane'[Lane[p]].seq + 1
        BY <1>0, <2>5, <3>3, <3>4 DEF LaneInv
      <3> QED BY <3>1, <3>2, <3>4 DEF LaneInv
    <2>7. ChainInv'
      <3>1. \A l \in Lanes : Holds(l, counter[l])' /\ Holds(l, lane[l])'
        BY <1>0, <2>1, <2>2 DEF ChainInv, Holds
      <3>2. ASSUME NEW p \in Ops
            PROVE  /\ state'[p] = "absent" => seq[p] = 0 \/ idem'[p] \in Terminal
                   /\ state'[p] \in {"absent", "committed"}
                        => seq[p] <= lane'[Lane[p]].seq
        <4>1. CASE p = o
          BY <1>0, <2>2, <2>3, <4>1
        <4>2. CASE p # o
          <5>1. lane'[Lane[p]].seq \in Nat
            BY <1>0, <2>2
          <5> QED BY <1>0, <2>3, <2>4, <2>5, <4>2, <5>1 DEF ChainInv
        <4> QED BY <4>1, <4>2
      <3> QED BY <3>1, <3>2 DEF ChainInv
    <2> QED BY <2>6, <2>7
  <1> QED BY <1>1, <1>2

(* enqueue() appends one position behind the last one. *)
LEMMA EnqueueLanes ==
    ASSUME TypeOK, LaneInv, ChainInv, NEW o \in Ops, Enqueue(o)
    PROVE  LaneInv' /\ ChainInv'
  <1> DEFINE last == counter[Lane[o]]
  <1>0. /\ \A l \in Lanes : lane[l].seq \in Nat /\ counter[l].seq \in Nat
        /\ \A p \in Ops : seq[p] \in Nat /\ Lane[p] \in Lanes
    BY ConstantsAssumption DEF TypeOK, Position
  <1>1. /\ state[o] = "absent" /\ idem[o] \notin Terminal
        /\ seq' = [seq EXCEPT ![o] = last.seq + 1]
        /\ pred' = [pred EXCEPT ![o] = last.op]
        /\ counter' = [counter EXCEPT ![Lane[o]] = [seq |-> last.seq + 1, op |-> o]]
        /\ idem' = [idem EXCEPT ![o] = "open"]
        /\ state' = [state EXCEPT ![o] = "pending"]
        /\ lane' = lane /\ live' = Idle
    BY DEF Enqueue, EndPoll
  <1>2. seq[o] = 0
    BY <1>1 DEF ChainInv
  <1>3. /\ seq'[o] = last.seq + 1 /\ pred'[o] = last.op /\ state'[o] = "pending"
        /\ \A p \in Ops : p # o => /\ seq'[p] = seq[p] /\ pred'[p] = pred[p]
                                   /\ idem'[p] = idem[p] /\ state'[p] = state[p]
    BY <1>1 DEF TypeOK
  <1>4. /\ counter'[Lane[o]] = [seq |-> last.seq + 1, op |-> o]
        /\ \A l \in Lanes : l # Lane[o] => counter'[l] = counter[l]
    BY <1>0, <1>1 DEF TypeOK
  <1>5. live'.pc = "idle"
    BY <1>1 DEF Idle
  <1>6. \A p \in Ops : Lane[p] = Lane[o] => seq[p] <= last.seq
    BY DEF LaneInv
  <1>7. LaneInv'
    <2>1. \A p \in Ops : seq'[p] <= counter'[Lane[p]].seq
      BY <1>0, <1>3, <1>4 DEF LaneInv
    <2>2. \A p \in Ops : 0 < seq'[p] /\ seq'[p] <= lane'[Lane[p]].seq
                           => idem'[p] \in Terminal
      BY <1>0, <1>1, <1>3 DEF LaneInv
    <2>3. ASSUME NEW p \in Ops, NEW q \in Ops,
                 Lane[p] = Lane[q], 0 < seq'[p], seq'[p] = seq'[q]
          PROVE  p = q
      BY <1>0, <1>3, <1>6, <2>3 DEF LaneInv
    <2>4. \A l \in Lanes : lane'[l].seq <= counter'[l].seq
      BY <1>0, <1>1, <1>4 DEF LaneInv
    <2> QED BY <1>5, <2>1, <2>2, <2>3, <2>4 DEF LaneInv
  <1>8. ChainInv'
    <2>1. ASSUME NEW l \in Lanes
          PROVE  Holds(l, counter[l])'
      <3>1. CASE l = Lane[o]
        BY <1>0, <1>3, <1>4, <3>1 DEF Holds
      <3>2. CASE l # Lane[o]
        <4>1. Holds(l, counter[l]) /\ counter'[l] = counter[l]
          BY <1>4, <3>2 DEF ChainInv
        <4> QED BY <1>3, <3>2, <4>1 DEF Holds
      <3> QED BY <3>1, <3>2
    <2>2. ASSUME NEW l \in Lanes
          PROVE  Holds(l, lane[l])'
      <3>1. Holds(l, lane[l]) /\ lane'[l] = lane[l]
        BY <1>1 DEF ChainInv
      <3> QED BY <1>2, <1>3, <3>1 DEF Holds
    <2>3. ASSUME NEW l \in Lanes, NEW k \in 1 .. counter'[l].seq
          PROVE  \E p \in Ops : Lane[p] = l /\ seq'[p] = k
      <3>1. CASE l = Lane[o] /\ k = last.seq + 1
        BY <1>3, <3>1
      <3>2. CASE ~ (l = Lane[o] /\ k = last.seq + 1)
        <4>1. k \in 1 .. counter[l].seq
          BY <1>0, <1>4, <3>2
        <4>2. PICK p \in Ops : Lane[p] = l /\ seq[p] = k
          BY <4>1 DEF ChainInv
        <4>3. p # o
          BY <1>0, <1>2, <4>1, <4>2
        <4> QED BY <1>3, <4>2, <4>3
      <3> QED BY <3>1, <3>2
    <2>4. ASSUME NEW p \in Ops, seq'[p] = 1
          PROVE  pred'[p] = None
      <3>1. CASE p = o
        <4>1. last.seq = 0
          BY <1>0, <1>3, <2>4, <3>1
        <4> QED BY <1>0, <1>3, <3>1, <4>1 DEF ChainInv, Holds
      <3>2. CASE p # o
        BY <1>3, <2>4, <3>2 DEF ChainInv
      <3> QED BY <3>1, <3>2
    <2>5. ASSUME NEW p \in Ops, NEW q \in Ops,
                 Lane[p] = Lane[q], 0 < seq'[p], seq'[q] = seq'[p] + 1
          PROVE  pred'[q] = p
      <3>1. CASE q = o
        <4>1. p # o /\ seq[p] = last.seq /\ 0 < last.seq
          BY <1>0, <1>3, <2>5, <3>1
        <4>2. /\ last.op \in Ops /\ Lane[last.op] = Lane[o]
              /\ seq[last.op] = last.seq
          BY <1>0, <4>1 DEF ChainInv, Holds
        <4>3. p = last.op
          BY <2>5, <3>1, <4>1, <4>2 DEF LaneInv
        <4> QED BY <1>3, <3>1, <4>3
      <3>2. CASE q # o
        <4>1. p # o
          BY <1>0, <1>3, <1>6, <2>5, <3>2
        <4> QED BY <1>3, <2>5, <3>2, <4>1 DEF ChainInv
      <3> QED BY <3>1, <3>2
    <2>6. ASSUME NEW p \in Ops
          PROVE  /\ state'[p] = "absent" => seq'[p] = 0 \/ idem'[p] \in Terminal
                 /\ state'[p] \in {"absent", "committed"} => seq'[p] <= lane'[Lane[p]].seq
      BY <1>1, <1>3 DEF ChainInv
    <2> QED BY <2>1, <2>2, <2>3, <2>4, <2>5, <2>6 DEF ChainInv
  <1> QED BY <1>7, <1>8

(* Reaping moves rows between running, pending and uncertain only. *)
LEMMA ReapStill ==
    ASSUME NEW o \in Ops
    PROVE  ReapedState[o] = state[o] \/ ReapedState[o] \in {"pending", "uncertain"}
  BY DEF ReapedState

(* claim() and claim_terminal() take the operation at the head of its lane. *)
LEMMA ClaimLanes ==
    ASSUME TypeOK, LaneInv, ChainInv,
           \/ ReapOnly
           \/ \E o \in Ops : ClaimTerminal(o) \/ Claim(o) \/ ClaimUncertain(o)
    PROVE  LaneInv' /\ ChainInv'
  <1>1. UNCHANGED <<seq, pred, counter, lane, idem>>
    BY DEF ReapOnly, ClaimTerminal, Claim, ClaimUncertain, laneVars
  <1>2. CASE ReapOnly
    <2>1. Still
      BY <1>1, <1>2, ReapStill DEF ReapOnly, Still, threadVars
    <2> QED BY <2>1, StillLanes
  <1>3. ASSUME NEW o \in Ops, ClaimTerminal(o) \/ ClaimUncertain(o) \/ Claim(o)
        PROVE  LaneInv' /\ ChainInv'
    <2>1. \A p \in Ops : state'[p] = state[p]
                         \/ state'[p] \notin {"absent", "committed"}
      <3>1. state' = ReapedState \/ state' = [ReapedState EXCEPT ![o] = "running"]
        BY <1>3 DEF ClaimTerminal, ClaimUncertain, Claim, ReapAndHold
      <3>2. ReapedState \in [Ops -> States]
        BY ReapType
      <3> QED BY <3>1, <3>2, ReapStill, SMTT(30)
    <2>2. CASE ClaimTerminal(o) \/ ClaimUncertain(o)
      <3>1. live'.pc \in {"terminal", "reconciling"}
        BY <2>2 DEF ClaimTerminal, ClaimUncertain, Idle
      <3> QED BY <1>1, <2>1, <3>1, StillLanes DEF Still
    <2>3. CASE Claim(o)
      <3>1. live'.op = o /\ live'.pc = "claimed" /\ live.pc = "idle"
        BY <2>3 DEF Claim, Idle
      <3>2. seq[o] = lane[Lane[o]].seq + 1
        BY <2>3 DEF Claim, Claimable, AtLaneHead
      <3>3. \A p \in Ops : lane[Lane[p]].seq \in Nat
        BY ConstantsAssumption DEF TypeOK, Position
      <3>4. LaneInv'
        BY <1>1, <3>1, <3>2, <3>3 DEF LaneInv
      <3>5. ChainInv'
        <4>1. \A l \in Lanes : Holds(l, counter[l])' /\ Holds(l, lane[l])'
          BY <1>1 DEF ChainInv, Holds
        <4> QED BY <1>1, <2>1, <4>1 DEF ChainInv
      <3> QED BY <3>4, <3>5
    <2> QED BY <1>3, <2>2, <2>3
  <1> QED BY <1>2, <1>3, ZenonT(30)

LEMMA PollStill ==
    ASSUME TypeOK, NEW o \in Ops, LivePoll(o), ~ Enqueue(o)
    PROVE  Still
  <1>1. UNCHANGED <<state, idem, seq, pred, counter, lane>>
    BY DEF LivePoll, PollProviderOperations, BindProviderLease, EnqueueKnown,
       RejectLease, rowVars, laneVars
  <1>2. live' = live \/ live' = Idle
        \/ live' = [Idle EXCEPT !.pc = "leased", !.op = o]
    BY DEF LivePoll, PollProviderOperations, BindProviderLease, EnqueueKnown,
       RejectLease, EndPoll
  <1>3. Idle.pc = "idle" /\ [Idle EXCEPT !.pc = "leased", !.op = o].pc = "leased"
    BY DEF Idle
  <1> QED BY <1>1, <1>2, <1>3 DEF Still

LEMMA FlushStill ==
    ASSUME TypeOK, NEW o \in Ops, LiveFlush(o)
    PROVE  Still
  <1>1. UNCHANGED <<state, idem, seq, pred, counter, lane>>
    BY DEF LiveFlush, FlushProviderResults, FinalizeProviderResult, rowVars, laneVars
  <1>2. CASE FlushProviderResults(o)
    <2>1. PICK status, lease :
            \/ live' = [Idle EXCEPT !.pc = "reported", !.op = o, !.answer = status,
                                    !.lease = lease]
            \/ live' = live
      BY <1>2 DEF FlushProviderResults
    <2>2. live' = live \/ live'.pc = "reported"
      BY <2>1 DEF Idle
    <2> QED BY <1>1, <2>2 DEF Still
  <1>3. CASE FinalizeProviderResult(o)
    <2>1. live'.pc = "idle"
      BY <1>3 DEF FinalizeProviderResult, Idle
    <2> QED BY <1>1, <2>1 DEF Still
  <1> QED BY <1>2, <1>3 DEF LiveFlush

(* The steps of run_once and reconcile_once that complete an operation. *)
LEMMA FinishLanes ==
    ASSUME TypeOK, ThreadsOK, LaneInv, ChainInv, NEW o \in Ops,
           \/ CompleteTerminal(o) \/ ExpireClaimed(o) \/ CompleteCommitted(o)
           \/ CompleteRejected(o) \/ CompleteMatched(o) \/ EchoComplete(o)
    PROVE  LaneInv' /\ ChainInv'
  <1>1. /\ live' = Idle \/ live' = live
        /\ UNCHANGED <<seq, pred, counter>>
    BY DEF CompleteTerminal, ExpireClaimed, CompleteCommitted, CompleteRejected,
       CompleteMatched, EchoComplete
  <1>2. \E outcome \in Terminal : \E lease : Complete(o, outcome, lease)
    <2>1. CASE CompleteTerminal(o)
      <3>1. (IF live.answer = "auth" THEN "rejected" ELSE live.answer) \in Terminal
        BY <2>1 DEF CompleteTerminal, ThreadsOK, Terminal
      <3> QED BY <2>1, <3>1 DEF CompleteTerminal
    <2>2. CASE ~ CompleteTerminal(o)
      BY <2>2 DEF ExpireClaimed, CompleteCommitted, CompleteRejected,
         CompleteMatched, EchoComplete, Terminal
    <2> QED BY <2>1, <2>2
  <1> QED BY <1>1, <1>2, CompleteLanes

(* The steps that change at most the row of their operation. *)
LEMMA RowStill ==
    ASSUME TypeOK, NEW o \in Ops,
           \/ RecordProviderAttempt(o) \/ Apply(o) \/ MarkUncertain(o) \/ Retry(o)
           \/ ReconcileMessage(o) \/ DeferUncertain(o) \/ ScheduleSingleResend(o)
           \/ ScheduleReconciliationCheck(o) \/ RequireManualReconciliation(o)
           \/ \E answer \in {"retryable", "permanent", "auth"} : PrepareFails(o, answer)
    PROVE  Still
  <1>1. UNCHANGED <<seq, pred, counter, lane>>
    BY DEF RecordProviderAttempt, Apply, MarkUncertain, Retry, ReconcileMessage,
       DeferUncertain, ScheduleSingleResend, ScheduleReconciliationCheck,
       RequireManualReconciliation, PrepareFails, laneVars
  <1>2. \A p \in Ops : idem'[p] = idem[p] \/ idem'[p] \in Terminal
    <2>1. CASE RequireManualReconciliation(o)
      BY <2>1 DEF RequireManualReconciliation, TypeOK, Terminal
    <2>2. CASE ~ RequireManualReconciliation(o)
      BY <2>2 DEF RecordProviderAttempt, Apply, MarkUncertain, Retry, ReconcileMessage,
         DeferUncertain, ScheduleSingleResend, ScheduleReconciliationCheck, PrepareFails
    <2> QED BY <2>1, <2>2
  <1>3. \A p \in Ops : state'[p] = state[p] \/ state'[p] \notin {"absent", "committed"}
    <2>1. \/ state' = state \/ state' = [state EXCEPT ![o] = "pending"]
          \/ state' = [state EXCEPT ![o] = "uncertain"]
          \/ state' = [state EXCEPT ![o] = "rejected"]
      BY DEF RecordProviderAttempt, Apply, MarkUncertain, Retry, ReconcileMessage,
         DeferUncertain, ScheduleSingleResend, ScheduleReconciliationCheck,
         RequireManualReconciliation, PrepareFails, rowVars
    <2> QED BY <2>1 DEF TypeOK
  <1>4. \/ live'.pc \notin {"claimed", "attempted"}
        \/ live.pc = "claimed" /\ live'.op = live.op
    <2>1. CASE RecordProviderAttempt(o)
      BY <2>1 DEF RecordProviderAttempt, TypeOK, LiveThread
    <2>2. CASE \E answer \in {"retryable", "permanent", "auth"} : PrepareFails(o, answer)
      BY <2>2 DEF PrepareFails, TypeOK, LiveThread
    <2>3. CASE Apply(o)
      BY <2>3 DEF Apply, SendSucceeds, SendAmbiguous, SendRetryable, SendRefused, Answer,
         TypeOK, LiveThread
    <2>4. CASE ReconcileMessage(o)
      BY <2>4 DEF ReconcileMessage, TypeOK, LiveThread
    <2>5. CASE \/ MarkUncertain(o) \/ Retry(o) \/ DeferUncertain(o)
               \/ ScheduleSingleResend(o) \/ ScheduleReconciliationCheck(o)
               \/ RequireManualReconciliation(o)
      <3>1. live' = Idle
        BY <2>5 DEF MarkUncertain, Retry, DeferUncertain, ScheduleSingleResend,
           ScheduleReconciliationCheck, RequireManualReconciliation
      <3> QED BY <3>1 DEF Idle
    <2> QED BY <2>1, <2>2, <2>3, <2>4, <2>5
  <1> QED BY <1>1, <1>2, <1>3, <1>4 DEF Still

LEMMA RestStill ==
    ASSUME TypeOK,
           \/ Crash \/ ApplyAccount
           \/ \E o \in Ops : \/ PruneOperation(o) \/ CompletionRaises(o) \/ World(o)
                             \/ EchoRead(o) \/ EchoIgnored(o)
           \/ \E l \in Lanes : ApplyAssignment(l)
           \/ UNCHANGED vars
    PROVE  Still
  <1>1. UNCHANGED <<idem, seq, pred, counter, lane>>
    BY DEF Crash, ApplyAccount, PruneOperation, CompletionRaises, World, HoldLapses,
       LeaseExpires, Land, EchoRead, EchoIgnored, ApplyAssignment, Restart, vars,
       laneVars
  <1>2. live' = live \/ live' = Idle
    BY DEF Crash, ApplyAccount, PruneOperation, CompletionRaises, World, HoldLapses,
       LeaseExpires, Land, EchoRead, EchoIgnored, ApplyAssignment, Restart, vars,
       threadVars
  <1>3. \A p \in Ops : \/ state'[p] = state[p]
                       \/ state[p] = "committed" /\ idem[p] \in Terminal
    <2>1. CASE \E o \in Ops : PruneOperation(o)
      BY <2>1 DEF PruneOperation, TypeOK
    <2>2. CASE ~ \E o \in Ops : PruneOperation(o)
      BY <2>2 DEF Crash, ApplyAccount, CompletionRaises, World, HoldLapses,
         LeaseExpires, Land, EchoRead, EchoIgnored, ApplyAssignment, Restart, vars,
         rowVars
    <2> QED BY <2>1, <2>2
  <1>4. Idle.pc = "idle"
    BY DEF Idle
  <1> QED BY <1>1, <1>2, <1>3, <1>4 DEF Still

LEMMA StepLanes ==
    ASSUME TypeInv, LaneInv, ChainInv, [Next]_vars
    PROVE  LaneInv' /\ ChainInv'
  <1> USE DEF TypeInv
  <1>1. ASSUME NEW o \in Ops, LiveRun(o)
        PROVE  LaneInv' /\ ChainInv'
    BY <1>1, FinishLanes, RowStill, StillLanes, ClaimLanes DEF LiveRun
  <1>2. ASSUME NEW o \in Ops, LiveReconcile(o)
        PROVE  LaneInv' /\ ChainInv'
    BY <1>2, FinishLanes, RowStill, StillLanes, ClaimLanes DEF LiveReconcile
  <1>3. ASSUME NEW o \in Ops, LivePoll(o) \/ LiveFlush(o)
        PROVE  LaneInv' /\ ChainInv'
    BY <1>3, EnqueueLanes, PollStill, FlushStill, StillLanes
  <1>4. ASSUME NEW o \in Ops, Echo(o)
        PROVE  LaneInv' /\ ChainInv'
    BY <1>4, FinishLanes, RestStill, StillLanes DEF Echo
  <1> QED BY <1>1, <1>2, <1>3, <1>4, RestStill, StillLanes, ClaimLanes DEF Next

LEMMA InitLanes == Init => LaneInv /\ ChainInv
  <1> SUFFICES ASSUME Init PROVE LaneInv /\ ChainInv
    OBVIOUS
  <1>1. /\ \A o \in Ops : seq[o] = 0 /\ Lane[o] \in Lanes
        /\ \A l \in Lanes : /\ counter[l] = [seq |-> 0, op |-> None]
                            /\ lane[l] = [seq |-> 0, op |-> None]
        /\ live.pc = "idle"
    BY ConstantsAssumption DEF Init, Idle
  <1>2. LaneInv
    BY <1>1 DEF LaneInv
  <1>3. ChainInv
    BY <1>1 DEF ChainInv, Holds
  <1> QED BY <1>2, <1>3

LEMMA LanesInvariant == Spec => [](TypeInv /\ LaneInv /\ ChainInv)
  <1>1. Init => TypeInv /\ LaneInv /\ ChainInv
    BY InitType, InitLanes
  <1>2. TypeInv /\ LaneInv /\ ChainInv /\ [Next]_vars
          => (TypeInv /\ LaneInv /\ ChainInv)'
    BY StepType, StepThreads, StepLanes DEF TypeInv
  <1> QED BY <1>1, <1>2, PTL DEF Spec

(* While run_once executes an operation, every operation enqueued before it  *)
(* in its causal lane has a terminal outcome, whatever crashes, renewed      *)
(* leases and local echoes came between.                                     *)
THEOREM LanesInOrder == Spec => []LaneOrder
  <1>1. TypeInv /\ LaneInv => LaneOrder
    <2> SUFFICES ASSUME TypeInv, LaneInv, NEW o \in Ops, NEW p \in Ops,
                        live.pc \in {"claimed", "attempted"}, live.op = o,
                        Earlier(p, o)
                 PROVE  idem[p] \in Terminal
      BY DEF LaneOrder
    <2>1. /\ seq[p] \in Nat /\ seq[o] \in Nat /\ lane[Lane[o]].seq \in Nat
          /\ seq[o] <= lane[Lane[o]].seq + 1
      BY ConstantsAssumption DEF TypeInv, TypeOK, Position, LaneInv
    <2>2. 0 < seq[p] /\ seq[p] <= lane[Lane[p]].seq
      BY <2>1 DEF Earlier
    <2> QED BY <2>2 DEF LaneInv
  <1> QED BY <1>1, LanesInvariant, PTL

(* As long as positions of a lane are not passed, the next one has a row     *)
(* that claim() accepts there: enqueue() never leaves a gap in a lane.       *)
THEOREM LaneNeverBroken == Spec => []NextInLaneExists
  <1>1. TypeInv /\ LaneInv /\ ChainInv => NextInLaneExists
    <2> SUFFICES ASSUME TypeInv, LaneInv, ChainInv, NEW l \in Lanes,
                        lane[l].seq < counter[l].seq
                 PROVE  \E o \in Ops : /\ Lane[o] = l /\ seq[o] = lane[l].seq + 1
                                       /\ pred[o] = lane[l].op
                                       /\ state[o] # "absent"
      BY DEF NextInLaneExists
    <2>1. lane[l].seq \in Nat /\ counter[l].seq \in Nat
      BY DEF TypeInv, TypeOK, Position
    <2>2. PICK o \in Ops : Lane[o] = l /\ seq[o] = lane[l].seq + 1
      <3>1. lane[l].seq + 1 \in 1 .. counter[l].seq
        BY <2>1
      <3> QED BY <3>1 DEF ChainInv
    <2>3. pred[o] = lane[l].op
      <3>1. CASE lane[l].seq = 0
        BY <2>2, <3>1 DEF ChainInv, Holds
      <3>2. CASE lane[l].seq # 0
        <4>1. /\ lane[l].op \in Ops /\ Lane[lane[l].op] = l
              /\ seq[lane[l].op] = lane[l].seq
          BY <3>2 DEF ChainInv, Holds
        <4> QED BY <2>1, <2>2, <3>2, <4>1 DEF ChainInv
      <3> QED BY <3>1, <3>2
    <2>4. state[o] # "absent"
      BY <2>1, <2>2 DEF ChainInv
    <2> QED BY <2>2, <2>3, <2>4
  <1> QED BY <1>1, LanesInvariant, PTL

-----------------------------------------------------------------------------
(* Sends and outcomes. *)

(* The error answers that may still follow an applied send (SendRetryable):  *)
(* those Zulip has given already are MaxFaults less these.                   *)
ErrorsLeft == IF ErrorMayApply THEN budget.faults ELSE MaxFaults

(* What may have been sent of a create is bounded by what the row remembers  *)
(* and the error answers given: a row that may be sent (again) has used up   *)
(* no more than its resends and these.                                       *)
Unsent(o) == SentCopies(o) + ErrorsLeft <= attempt[o].resends + MaxFaults

CreateOK(o) ==
    /\ attempt[o].resends <= MaxAutoResends
    /\ SentCopies(o) + ErrorsLeft <= 1 + attempt[o].resends + MaxFaults
    /\ state[o] \in {"absent", "pending"} => Unsent(o)
    /\ state[o] = "running" /\ ~ attempt[o].evidence => Unsent(o)
    /\ live.op = o =>
         /\ live.pc \in {"claimed", "attempted"}
              => Unsent(o) /\ state[o] \in {"running"} \cup Terminal
         /\ live.pc = "answered" /\ live.answer = "retryable" => Unsent(o)
         /\ live.pc = "attempted" /\ state[o] = "running" => attempt[o].evidence

CopiesInv == \A o \in Ops : IsCreate(o) => CreateOK(o)

(* A step that sends nothing and puts no create back into the queue. *)
Quiet ==
    /\ live' = live \/ live'.pc \notin {"claimed", "attempted", "answered"}
    /\ \A o \in Ops : IsCreate(o) =>
         /\ attempt'[o].resends = attempt[o].resends
         /\ attempt'[o].evidence = attempt[o].evidence
         /\ SentCopies(o)' = SentCopies(o)
         /\ \/ state'[o] = state[o]
            \/ state'[o] \in Terminal
            \/ state'[o] = "uncertain" /\ live' = Idle
            \/ state[o] = "absent" /\ state'[o] = "pending"

(* What an idle or a fresh live thread says of the send in progress: nothing. *)
LEMMA IdleFields ==
    ASSUME NEW pc, NEW op, NEW answer, NEW lease
    PROVE  /\ Idle.pc = "idle" /\ Idle.op = None
           /\ [Idle EXCEPT !.pc = pc, !.op = op].pc = pc
           /\ [Idle EXCEPT !.pc = pc, !.op = op].op = op
           /\ [Idle EXCEPT !.pc = pc, !.op = op, !.answer = answer].pc = pc
           /\ [Idle EXCEPT !.pc = pc, !.op = op, !.answer = answer,
                           !.lease = lease].pc = pc
  BY DEF Idle

(* Error answers are only used up. *)
LEMMA ErrorsFall ==
    ASSUME TypeOK, [Next]_vars
    PROVE  ErrorsLeft \in Nat /\ ErrorsLeft' \in Nat /\ ErrorsLeft' <= ErrorsLeft
  <1>0. budget \in Budget /\ MaxFaults \in Nat
    BY ConstantsAssumption DEF TypeOK
  <1>1. \/ budget' = budget
        \/ budget.faults > 0 /\ budget' = [budget EXCEPT !.faults = @ - 1]
        \/ budget' = [budget EXCEPT !.changes = @ - 1]
        \/ budget' = [budget EXCEPT !.crashes = @ - 1]
    <2>1. ASSUME NEW o \in Ops, LivePoll(o) \/ LiveFlush(o)
          PROVE  UNCHANGED budget \/ Fault
      BY <2>1 DEF LivePoll, PollProviderOperations, BindProviderLease, Enqueue,
         EnqueueKnown, RejectLease, EndPoll, LiveFlush, FlushProviderResults,
         FinalizeProviderResult, worldVars
    <2>2. ASSUME NEW o \in Ops, LiveRun(o)
          PROVE  UNCHANGED budget \/ Fault
      BY <2>2 DEF LiveRun, ClaimTerminal, CompleteTerminal, Claim, ExpireClaimed,
         PrepareFails, RecordProviderAttempt, Apply, SendSucceeds, SendAmbiguous,
         SendRetryable, SendRefused, CompleteCommitted, MarkUncertain, Retry,
         CompleteRejected, worldVars
    <2>3. ASSUME NEW o \in Ops, LiveReconcile(o)
          PROVE  UNCHANGED budget \/ Fault
      BY <2>3 DEF LiveReconcile, ClaimUncertain, ReconcileMessage, CompleteMatched,
         DeferUncertain, ScheduleReconciliationCheck, ScheduleSingleResend,
         RequireManualReconciliation, worldVars
    <2>4. ASSUME NEW o \in Ops,
                 Echo(o) \/ PruneOperation(o) \/ World(o) \/ CompletionRaises(o)
          PROVE  UNCHANGED budget
      BY <2>4 DEF Echo, EchoRead, EchoIgnored, EchoComplete, PruneOperation, World,
         HoldLapses, LeaseExpires, Land, CompletionRaises, worldVars
    <2>5. CASE ReapOnly \/ Crash \/ ApplyAccount \/ (\E l \in Lanes : ApplyAssignment(l))
               \/ UNCHANGED vars
      BY <2>5 DEF ReapOnly, Crash, ApplyAccount, ApplyAssignment, vars, worldVars
    <2> QED BY <2>1, <2>2, <2>3, <2>4, <2>5 DEF Next, Fault
  <1>2. /\ budget.faults \in Nat /\ budget'.faults \in Nat
        /\ budget'.faults <= budget.faults
    BY <1>0, <1>1 DEF Budget
  <1> QED BY <1>0, <1>2 DEF ErrorsLeft

(* The numbers the bound is made of. *)
LEMMA CopiesType ==
    ASSUME TypeOK, NEW o \in Ops
    PROVE  /\ SentCopies(o) \in Nat /\ attempt[o].resends \in Nat
           /\ MaxFaults \in Nat
  BY ConstantsAssumption DEF TypeOK, ZulipRecord, AttemptRecord, SentCopies

(* A row that sends nothing keeps its bounds. *)
LEMMA KeptBounds ==
    ASSUME TypeOK, [Next]_vars, NEW o \in Ops,
           SentCopies(o)' = SentCopies(o), attempt'[o].resends = attempt[o].resends
    PROVE  /\ Unsent(o) => Unsent(o)'
           /\ SentCopies(o) + ErrorsLeft <= 1 + attempt[o].resends + MaxFaults
                => (SentCopies(o) + ErrorsLeft <= 1 + attempt[o].resends + MaxFaults)'
  BY ErrorsFall, CopiesType DEF Unsent

LEMMA QuietCopies ==
    ASSUME TypeOK, [Next]_vars, CopiesInv, Quiet
    PROVE  CopiesInv'
  <1> SUFFICES ASSUME NEW o \in Ops, IsCreate(o)
               PROVE  CreateOK(o)'
    BY DEF CopiesInv, IsCreate
  <1>1. CreateOK(o)
    BY DEF CopiesInv
  <1>2. /\ Unsent(o) => Unsent(o)'
        /\ SentCopies(o) + ErrorsLeft <= 1 + attempt[o].resends + MaxFaults
             => (SentCopies(o) + ErrorsLeft <= 1 + attempt[o].resends + MaxFaults)'
    BY KeptBounds DEF Quiet
  <1>3. /\ attempt'[o].resends = attempt[o].resends
        /\ attempt'[o].evidence = attempt[o].evidence
        /\ \/ state'[o] = state[o]
           \/ state'[o] \in Terminal
           \/ state'[o] = "uncertain" /\ live' = Idle
           \/ state[o] = "absent" /\ state'[o] = "pending"
        /\ live' = live \/ live'.pc \notin {"claimed", "attempted", "answered"}
    BY DEF Quiet
  <1> QED BY <1>1, <1>2, <1>3, IdleFields DEF CreateOK, Terminal

LEMMA SameCopies ==
    ASSUME UNCHANGED zulip
    PROVE  \A o \in Ops : SentCopies(o)' = SentCopies(o)
  BY DEF SentCopies

(* complete() moves a row to its outcome or leaves it alone. *)
LEMMA CompleteState ==
    ASSUME TypeOK, NEW o \in Ops, NEW outcome \in Terminal, NEW lease,
           Complete(o, outcome, lease)
    PROVE  \A p \in Ops : state'[p] = state[p] \/ state'[p] \in Terminal
  BY DEF Complete, TypeOK

LEMMA QuietComplete ==
    ASSUME TypeOK, NEW o \in Ops, NEW outcome \in Terminal, NEW lease,
           Complete(o, outcome, lease), attempt' = attempt,
           live' = live \/ live' = Idle,
           \A p \in Ops : SentCopies(p)' = SentCopies(p)
    PROVE  Quiet
  BY CompleteState, IdleFields DEF Quiet

LEMMA PollQuiet ==
    ASSUME TypeOK, NEW o \in Ops, LivePoll(o)
    PROVE  Quiet
  <1>1. \A p \in Ops : SentCopies(p)' = SentCopies(p)
    BY SameCopies DEF LivePoll, PollProviderOperations, BindProviderLease, Enqueue,
       EnqueueKnown, RejectLease
  <1>2. CASE PollProviderOperations(o)
    <2>1. live' = live \/ live'.pc = "leased"
      <3>1. live' = live \/ live' = [Idle EXCEPT !.pc = "leased", !.op = o]
        BY <1>2 DEF PollProviderOperations
      <3> QED BY <3>1 DEF Idle
    <2>2. state' = state /\ attempt' = attempt
      BY <1>2 DEF PollProviderOperations, rowVars
    <2> QED BY <1>1, <2>1, <2>2 DEF Quiet
  <1>3. CASE BindProviderLease(o)
    BY <1>1, <1>3, IdleFields DEF Quiet, BindProviderLease, EndPoll
  <1>4. CASE Enqueue(o)
    <2>1. live' = Idle /\ attempt' = attempt
      BY <1>4 DEF Enqueue, EndPoll
    <2>2. \A p \in Ops : \/ state'[p] = state[p]
                         \/ state[p] = "absent" /\ state'[p] = "pending"
      <3>1. state \in [Ops -> States]
        BY DEF TypeOK
      <3>2. state[o] = "absent" /\ state' = [state EXCEPT ![o] = "pending"]
        BY <1>4 DEF Enqueue
      <3>3. state'[o] = "pending" /\ \A p \in Ops : p # o => state'[p] = state[p]
        BY <3>1, <3>2
      <3> QED BY <3>2, <3>3
    <2> QED BY <1>1, <2>1, <2>2, IdleFields DEF Quiet
  <1>5. CASE EnqueueKnown(o)
    BY <1>1, <1>5, IdleFields DEF Quiet, EnqueueKnown, EndPoll, rowVars
  <1>6. CASE RejectLease(o)
    BY <1>1, <1>6, IdleFields DEF Quiet, RejectLease, EndPoll, rowVars
  <1> QED BY <1>2, <1>3, <1>4, <1>5, <1>6 DEF LivePoll

LEMMA FlushQuiet ==
    ASSUME TypeOK, NEW o \in Ops, LiveFlush(o)
    PROVE  Quiet
  <1>1. \A p \in Ops : SentCopies(p)' = SentCopies(p)
    BY SameCopies DEF LiveFlush, FlushProviderResults, FinalizeProviderResult, worldVars
  <1>2. state' = state /\ attempt' = attempt
    BY DEF LiveFlush, FlushProviderResults, FinalizeProviderResult, rowVars
  <1>3. live' = live \/ live'.pc \in {"idle", "reported"}
    <2>1. CASE FlushProviderResults(o)
      <3>1. \/ live' = live
            \/ \E answer, lease :
                 live' = [Idle EXCEPT !.pc = "reported", !.op = o, !.answer = answer,
                                      !.lease = lease]
        BY <2>1 DEF FlushProviderResults
      <3> QED BY <3>1 DEF Idle
    <2>2. CASE FinalizeProviderResult(o)
      BY <2>2, IdleFields DEF FinalizeProviderResult
    <2> QED BY <2>1, <2>2 DEF LiveFlush
  <1> QED BY <1>1, <1>2, <1>3 DEF Quiet

LEMMA EchoQuiet ==
    ASSUME TypeOK, NEW o \in Ops, Echo(o)
    PROVE  Quiet
  <1>1. live' = live /\ attempt' = attempt
    BY DEF Echo, EchoRead, EchoIgnored, EchoComplete, rowVars, threadVars
  <1>2. \A p \in Ops : SentCopies(p)' = SentCopies(p)
    <2>1. zulip \in [Ops -> ZulipRecord]
      BY DEF TypeOK
    <2>2. zulip' = zulip \/ zulip' = [zulip EXCEPT ![o].echoes = @ - 1]
      BY DEF Echo, EchoRead, EchoIgnored, EchoComplete, worldVars
    <2> QED BY <2>1, <2>2 DEF SentCopies, ZulipRecord
  <1>3. CASE EchoRead(o) \/ EchoIgnored(o)
    BY <1>1, <1>2, <1>3 DEF Quiet, EchoRead, EchoIgnored, rowVars
  <1>4. CASE EchoComplete(o)
    BY <1>1, <1>2, <1>4, QuietComplete DEF EchoComplete, Terminal
  <1> QED BY <1>3, <1>4 DEF Echo

LEMMA WorldQuiet ==
    ASSUME TypeOK, NEW o \in Ops, World(o)
    PROVE  Quiet
  <1>1. live' = live /\ state' = state /\ attempt' = attempt
    BY DEF World, HoldLapses, LeaseExpires, Land, rowVars, threadVars
  <1>2. \A p \in Ops : SentCopies(p)' = SentCopies(p)
    <2>1. CASE HoldLapses(o) \/ LeaseExpires(o)
      BY <2>1, SameCopies DEF HoldLapses, LeaseExpires, worldVars
    <2>2. CASE Land(o)
      <3>1. zulip \in [Ops -> ZulipRecord] /\ zulip[o] \in ZulipRecord
        BY DEF TypeOK
      <3>2. PICK inWindow \in BOOLEAN, echoed \in BOOLEAN :
              zulip' = [zulip EXCEPT ![o] = [Landed(o, inWindow, echoed) EXCEPT
                                               !.flying = zulip[o].flying - 1]]
        BY <2>2 DEF Land, WindowChoices, EchoChoices
      <3>3. /\ zulip'[o].flying = zulip[o].flying - 1
            /\ zulip'[o].copies = zulip[o].copies + 1
        BY <3>1, <3>2, LandedType DEF ZulipRecord
      <3>4. \A p \in Ops : p # o => zulip'[p] = zulip[p]
        BY <3>1, <3>2
      <3>5. SentCopies(o)' = SentCopies(o)
        BY <3>1, <3>3 DEF SentCopies, ZulipRecord
      <3> QED BY <3>4, <3>5 DEF SentCopies
    <2> QED BY <2>1, <2>2 DEF World
  <1> QED BY <1>1, <1>2 DEF Quiet

(* The steps of run_once and reconcile_once that are quiet. *)
LEMMA FinishQuiet ==
    ASSUME TypeOK, ThreadsOK, NEW o \in Ops,
           \/ CompleteTerminal(o) \/ ExpireClaimed(o) \/ CompleteCommitted(o)
           \/ CompleteRejected(o) \/ CompleteMatched(o)
    PROVE  Quiet
  <1>1. \A p \in Ops : SentCopies(p)' = SentCopies(p)
    BY SameCopies DEF CompleteTerminal, ExpireClaimed, CompleteCommitted,
       CompleteRejected, CompleteMatched, worldVars
  <1>2. live' = Idle /\ attempt' = attempt
    BY DEF CompleteTerminal, ExpireClaimed, CompleteCommitted, CompleteRejected,
       CompleteMatched
  <1>3. \E outcome \in Terminal, lease \in Nat : Complete(o, outcome, lease)
    <2>1. CASE CompleteTerminal(o)
      <3>1. (IF live.answer = "auth" THEN "rejected" ELSE live.answer) \in Terminal
        BY <2>1 DEF CompleteTerminal, ThreadsOK, Terminal
      <3> QED BY <2>1, <3>1, LeaseType DEF CompleteTerminal
    <2>2. CASE ~ CompleteTerminal(o)
      BY <2>2, LeaseType DEF ExpireClaimed, CompleteCommitted, CompleteRejected,
         CompleteMatched, Terminal
    <2> QED BY <2>1, <2>2
  <1> QED BY <1>1, <1>2, <1>3, QuietComplete

LEMMA CheckQuiet ==
    ASSUME TypeOK, NEW o \in Ops,
           \/ ReconcileMessage(o) \/ DeferUncertain(o)
           \/ ScheduleReconciliationCheck(o) \/ RequireManualReconciliation(o)
           \/ MarkUncertain(o)
    PROVE  Quiet
  <1>1. \A p \in Ops : SentCopies(p)' = SentCopies(p)
    BY SameCopies DEF ReconcileMessage, DeferUncertain, ScheduleReconciliationCheck,
       RequireManualReconciliation, MarkUncertain, worldVars
  <1>2. live'.pc \in {"idle", "checked"}
    <2>1. CASE ReconcileMessage(o)
      BY <2>1 DEF ReconcileMessage, TypeOK, LiveThread
    <2>2. CASE ~ ReconcileMessage(o)
      <3>1. live' = Idle
        BY <2>2 DEF DeferUncertain, ScheduleReconciliationCheck,
           RequireManualReconciliation, MarkUncertain
      <3> QED BY <3>1 DEF Idle
    <2> QED BY <2>1, <2>2
  <1>3. \A p \in Ops : /\ attempt'[p].resends = attempt[p].resends
                       /\ attempt'[p].evidence = attempt[p].evidence
    <2>1. attempt \in [Ops -> AttemptRecord]
      BY DEF TypeOK
    <2>2. attempt' = attempt \/ \E n : attempt' = [attempt EXCEPT ![o].checks = n]
      BY DEF ReconcileMessage, DeferUncertain, ScheduleReconciliationCheck,
         RequireManualReconciliation, MarkUncertain, rowVars
    <2> QED BY <2>1, <2>2 DEF AttemptRecord
  <1>4. \A p \in Ops : \/ state'[p] = state[p]
                       \/ state'[p] \in Terminal
                       \/ state'[p] = "uncertain" /\ live' = Idle
    <2>1. state \in [Ops -> States]
      BY DEF TypeOK
    <2>2. \/ state' = state \/ state' = [state EXCEPT ![o] = "rejected"]
          \/ state' = [state EXCEPT ![o] = "uncertain"] /\ live' = Idle
      BY DEF ReconcileMessage, DeferUncertain, ScheduleReconciliationCheck,
         RequireManualReconciliation, MarkUncertain, rowVars
    <2> QED BY <2>1, <2>2 DEF Terminal
  <1> QED BY <1>1, <1>2, <1>3, <1>4 DEF Quiet

LEMMA RestQuiet ==
    ASSUME TypeOK, \/ Crash \/ ApplyAccount
                   \/ \E o \in Ops : PruneOperation(o) \/ CompletionRaises(o)
                   \/ \E l \in Lanes : ApplyAssignment(l)
                   \/ UNCHANGED vars
    PROVE  Quiet
  <1>1. \A p \in Ops : SentCopies(p)' = SentCopies(p)
    BY SameCopies DEF Crash, ApplyAccount, PruneOperation, CompletionRaises,
       ApplyAssignment, Restart, vars, worldVars
  <1>2. attempt' = attempt
    BY DEF Crash, ApplyAccount, PruneOperation, CompletionRaises,
       ApplyAssignment, Restart, vars, rowVars
  <1>3. live' = live \/ live' = Idle
    BY DEF Crash, ApplyAccount, PruneOperation, CompletionRaises,
       ApplyAssignment, Restart, vars, threadVars
  <1>4. \A p \in Ops : IsCreate(p) => state'[p] = state[p]
    <2>1. CASE \E o \in Ops : PruneOperation(o)
      BY <2>1 DEF PruneOperation, IsCreate, TypeOK
    <2>2. CASE ~ \E o \in Ops : PruneOperation(o)
      BY <2>2 DEF Crash, ApplyAccount, CompletionRaises, ApplyAssignment, Restart,
         vars, rowVars
    <2> QED BY <2>1, <2>2
  <1> QED BY <1>1, <1>2, <1>3, <1>4, IdleFields DEF Quiet

(* Reaping sends a row with attempt evidence to reconciliation; only a row   *)
(* that was never sent, or whose resend is unused, goes back to the queue.   *)
LEMMA ReapCopies ==
    ASSUME TypeOK, CopiesInv, NEW o \in Ops, IsCreate(o)
    PROVE  /\ ReapedAttempt[o].resends = attempt[o].resends
           /\ ReapedAttempt[o].evidence = attempt[o].evidence
           /\ ReapedState[o] \in {"absent", "pending"} => Unsent(o)
           /\ ReapedState[o] = "running" => state[o] = "running"
  <1>1. attempt[o] \in AttemptRecord
    BY DEF TypeOK
  <1>2. /\ ReapedAttempt[o].resends = attempt[o].resends
        /\ ReapedAttempt[o].evidence = attempt[o].evidence
    BY <1>1 DEF ReapedAttempt, AttemptRecord
  <1>3. /\ ReapedState[o] \in {"absent", "pending"} => Unsent(o)
        /\ ReapedState[o] = "running" => state[o] = "running"
    BY DEF ReapedState, Reapable, CopiesInv, CreateOK
  <1> QED BY <1>2, <1>3

LEMMA ClaimCopies ==
    ASSUME TypeOK, [Next]_vars, CopiesInv,
           \/ ReapOnly
           \/ \E o \in Ops : ClaimTerminal(o) \/ Claim(o) \/ ClaimUncertain(o)
    PROVE  CopiesInv'
  <1> SUFFICES ASSUME NEW p \in Ops, IsCreate(p)
               PROVE  CreateOK(p)'
    BY DEF CopiesInv, IsCreate
  <1>0. /\ ReapedAttempt[p].resends = attempt[p].resends
        /\ ReapedAttempt[p].evidence = attempt[p].evidence
        /\ ReapedState[p] \in {"absent", "pending"} => Unsent(p)
        /\ ReapedState[p] = "running" => state[p] = "running"
    BY ReapCopies, SMTT(30)
  <1>1. attempt' = ReapedAttempt /\ zulip' = zulip
    BY DEF ReapOnly, ClaimTerminal, Claim, ClaimUncertain, ReapAndHold, worldVars
  <1>2. /\ Unsent(p) => Unsent(p)'
        /\ SentCopies(p) + ErrorsLeft <= 1 + attempt[p].resends + MaxFaults
             => (SentCopies(p) + ErrorsLeft <= 1 + attempt[p].resends + MaxFaults)'
    <2>1. SentCopies(p)' = SentCopies(p)
      BY <1>1 DEF SentCopies
    <2> QED BY <1>0, <1>1, <2>1, KeptBounds
  <1>3. CASE ReapOnly
    <2>1. state' = ReapedState /\ live' = live /\ live.pc = "idle"
      BY <1>3 DEF ReapOnly, threadVars
    <2> QED BY <1>0, <1>1, <1>2, <2>1 DEF CopiesInv, CreateOK
  <1>4. ASSUME NEW o \in Ops, ClaimUncertain(o)
        PROVE  CreateOK(p)'
    <2>1. state' = ReapedState /\ live' = [Idle EXCEPT !.pc = "reconciling", !.op = o]
      BY <1>4 DEF ClaimUncertain
    <2>2. live'.pc = "reconciling"
      BY <2>1 DEF Idle
    <2> QED BY <1>0, <1>1, <1>2, <2>1, <2>2 DEF CopiesInv, CreateOK
  <1>5. ASSUME NEW o \in Ops, ClaimTerminal(o) \/ Claim(o)
        PROVE  CreateOK(p)'
    <2>1. /\ ReapedState[o] = "pending"
          /\ state' = [ReapedState EXCEPT ![o] = "running"]
      BY <1>5 DEF ClaimTerminal, Claim, Sweepable, Claimable, ReapAndHold
    <2>2. /\ p = o => state'[p] = "running"
          /\ p # o => state'[p] = ReapedState[p]
      BY <2>1, ReapType, SMTT(30)
    <2>3. live'.op = o /\ live'.pc \in {"terminal", "claimed"}
      BY <1>5 DEF ClaimTerminal, Claim, Idle
    <2> QED BY <1>0, <1>1, <1>2, <2>1, <2>2, <2>3, SMTT(30) DEF CopiesInv, CreateOK
  <1> QED BY <1>3, <1>4, <1>5

LEMMA PrepareCopies ==
    ASSUME TypeOK, [Next]_vars, CopiesInv, NEW o \in Ops,
           \/ RecordProviderAttempt(o)
           \/ \E answer \in {"retryable", "permanent", "auth"} : PrepareFails(o, answer)
    PROVE  CopiesInv'
  <1> SUFFICES ASSUME NEW p \in Ops, IsCreate(p)
               PROVE  CreateOK(p)'
    BY DEF CopiesInv, IsCreate
  <1>1. /\ state' = state /\ zulip' = zulip
        /\ live.op = o /\ live.pc = "claimed"
    BY DEF RecordProviderAttempt, PrepareFails, rowVars
  <1>2. live'.op = o /\ live'.pc \in {"attempted", "answered"}
    BY <1>1 DEF RecordProviderAttempt, PrepareFails, TypeOK, LiveThread
  <1>3. attempt'[p].resends = attempt[p].resends =>
          /\ Unsent(p) => Unsent(p)'
          /\ SentCopies(p) + ErrorsLeft <= 1 + attempt[p].resends + MaxFaults
               => (SentCopies(p) + ErrorsLeft <= 1 + attempt[p].resends + MaxFaults)'
    <2>1. SentCopies(p)' = SentCopies(p)
      BY <1>1 DEF SentCopies
    <2> QED BY <2>1, KeptBounds
  <1>4. CASE RecordProviderAttempt(o)
    <2>1. attempt \in [Ops -> AttemptRecord]
      BY DEF TypeOK
    <2>2. /\ attempt'[p].resends = attempt[p].resends
          /\ attempt[p].evidence => attempt'[p].evidence
          /\ p = o /\ state[p] = "running" => attempt'[p].evidence
          /\ p # o => attempt'[p] = attempt[p]
      BY <1>4, <2>1 DEF RecordProviderAttempt, AttemptRecord
    <2>3. live'.pc = "attempted"
      BY <1>4 DEF RecordProviderAttempt, TypeOK, LiveThread
    <2> QED BY <1>1, <1>2, <1>3, <2>2, <2>3 DEF CopiesInv, CreateOK
  <1>5. CASE \E answer \in {"retryable", "permanent", "auth"} : PrepareFails(o, answer)
    <2>1. attempt' = attempt /\ live'.pc = "answered"
      BY <1>5 DEF PrepareFails, TypeOK, LiveThread, rowVars
    <2> QED BY <1>1, <1>2, <1>3, <2>1 DEF CopiesInv, CreateOK
  <1> QED BY <1>4, <1>5

LEMMA PaidSend ==
    ASSUME NEW n \in Nat, NEW left \in Nat, NEW leftAfter \in Nat, leftAfter + 1 = left
    PROVE  (n + 1) + leftAfter <= n + left
  OBVIOUS

(* The call itself: one send at most, and only from an unsent row; one that  *)
(* is followed by an error answer uses this answer up.                       *)
LEMMA ApplyCopies ==
    ASSUME TypeOK, [Next]_vars, CopiesInv, NEW o \in Ops, Apply(o)
    PROVE  CopiesInv'
  <1> SUFFICES ASSUME NEW p \in Ops, IsCreate(p)
               PROVE  CreateOK(p)'
    BY DEF CopiesInv, IsCreate
  <1>1. /\ state' = state /\ attempt' = attempt
        /\ live.op = o /\ live.pc = "attempted"
    BY DEF Apply, rowVars
  <1>2. zulip \in [Ops -> ZulipRecord] /\ attempt[p].resends \in Nat
    BY DEF TypeOK, AttemptRecord
  <1>3. live'.op = o /\ live'.pc = "answered"
    BY <1>1 DEF Apply, SendSucceeds, SendAmbiguous, SendRetryable, SendRefused, Answer,
       TypeOK, LiveThread
  <1>4. /\ p # o => SentCopies(p)' = SentCopies(p)
        /\ SentCopies(p)' <= SentCopies(p) + 1
        /\ live'.answer = "retryable"
             => SentCopies(p)' + ErrorsLeft' <= SentCopies(p) + ErrorsLeft
    <2>0. SentCopies(p) \in Nat
      BY CopiesType
    <2>1. CASE SendSucceeds(o)
      <3>1. PICK inWindow \in BOOLEAN, echoed \in BOOLEAN :
              zulip' = [zulip EXCEPT ![o] = Landed(o, inWindow, echoed)]
        BY <2>1 DEF SendSucceeds, WindowChoices, EchoChoices
      <3>2. p # o => zulip'[p] = zulip[p]
        BY <1>2, <3>1
      <3>3. p = o => SentCopies(p)' = SentCopies(p) + 1
        BY <1>2, <3>1, LandedType DEF SentCopies, ZulipRecord
      <3>4. live'.answer = "success"
        BY <2>1 DEF SendSucceeds, Answer, TypeOK, LiveThread
      <3>5. SentCopies(p) \in Nat
        BY <1>2 DEF SentCopies, ZulipRecord
      <3> QED BY <3>2, <3>3, <3>4, <3>5 DEF SentCopies
    <2>2. CASE SendAmbiguous(o)
      <3>1. live'.answer = "ambiguous"
        BY <2>2 DEF SendAmbiguous, Answer, TypeOK, LiveThread
      <3> QED BY <1>2, <2>2, <3>1 DEF SendAmbiguous, SentCopies, ZulipRecord
    <2>3. CASE SendRetryable(o)
      <3>1. \/ zulip' = zulip
            \/ ErrorMayApply /\ zulip' = [zulip EXCEPT ![o].flying = @ + 1]
            \/ ~ IsCreate(o) /\ zulip' = [zulip EXCEPT ![o].flying = @ + 1]
        BY <2>3 DEF SendRetryable
      <3>2. ErrorsLeft \in Nat /\ ErrorsLeft' \in Nat /\ ErrorsLeft' <= ErrorsLeft
        BY ErrorsFall
      <3>3. CASE zulip' = zulip
        <4>1. SentCopies(p)' = SentCopies(p)
          BY <3>3 DEF SentCopies
        <4> QED BY <2>0, <3>2, <4>1
      <3>4. CASE ErrorMayApply /\ zulip' = [zulip EXCEPT ![o].flying = @ + 1]
        <4>1. /\ p # o => SentCopies(p)' = SentCopies(p)
              /\ p = o => SentCopies(p)' = SentCopies(p) + 1
          BY <1>2, <3>4 DEF SentCopies, ZulipRecord
        <4>2. ErrorsLeft' + 1 = ErrorsLeft
          BY <2>3, <3>4 DEF SendRetryable, Fault, ErrorsLeft, TypeOK, Budget
        <4>3. CASE p = o
          <5>1. SentCopies(p)' = SentCopies(p) + 1
            BY <4>1, <4>3
          <5>2. SentCopies(p)' <= SentCopies(p) + 1
            BY <2>0, <5>1
          <5>3. SentCopies(p)' + ErrorsLeft' <= SentCopies(p) + ErrorsLeft
            BY <2>0, <3>2, <4>2, <5>1, PaidSend
          <5> QED BY <4>3, <5>2, <5>3
        <4>4. CASE p # o
          BY <2>0, <3>2, <4>1, <4>4
        <4> QED BY <4>3, <4>4
      <3>5. CASE ~ IsCreate(o) /\ zulip' = [zulip EXCEPT ![o].flying = @ + 1]
        <4>1. p # o
          BY <3>5
        <4>2. SentCopies(p)' = SentCopies(p)
          BY <1>2, <3>5, <4>1 DEF SentCopies
        <4> QED BY <2>0, <3>2, <4>1, <4>2
      <3> QED BY <3>1, <3>3, <3>4, <3>5
    <2>4. CASE SendRefused(o)
      <3>1. SentCopies(p)' = SentCopies(p)
        BY <2>4 DEF SendRefused, SentCopies
      <3> QED BY <2>0, <3>1, ErrorsFall
    <2> QED BY <2>1, <2>2, <2>3, <2>4 DEF Apply
  <1>5. SentCopies(p) \in Nat /\ SentCopies(p)' \in Nat
    <2>1. zulip' \in [Ops -> ZulipRecord]
      BY SendType
    <2> QED BY <1>2, <2>1 DEF SentCopies, ZulipRecord
  <1>6. ErrorsLeft \in Nat /\ ErrorsLeft' \in Nat /\ ErrorsLeft' <= ErrorsLeft
        /\ MaxFaults \in Nat
    BY ErrorsFall, CopiesType
  <1>7. CASE p # o
    <2>1. SentCopies(p)' = SentCopies(p) /\ attempt'[p].resends = attempt[p].resends
      BY <1>1, <1>4, <1>7
    <2>2. /\ Unsent(p) => Unsent(p)'
          /\ SentCopies(p) + ErrorsLeft <= 1 + attempt[p].resends + MaxFaults
               => (SentCopies(p) + ErrorsLeft <= 1 + attempt[p].resends + MaxFaults)'
      BY <2>1, KeptBounds
    <2> QED BY <1>1, <1>3, <1>7, <2>2 DEF CopiesInv, CreateOK
  <1>8. CASE p = o
    <2>1. Unsent(p) /\ (state[p] = "running" => attempt[p].evidence)
      BY <1>1, <1>8 DEF CopiesInv, CreateOK
    <2>2. state[p] \notin {"absent", "pending"}
      BY <1>1, <1>8 DEF CopiesInv, CreateOK, Terminal
    <2>3. attempt[p].resends <= MaxAutoResends
      BY DEF CopiesInv, CreateOK
    <2>4. (SentCopies(p) + ErrorsLeft <= 1 + attempt[p].resends + MaxFaults)'
      BY <1>1, <1>2, <1>4, <1>5, <1>6, <2>1 DEF Unsent
    <2>5. live'.answer = "retryable" => Unsent(p)'
      BY <1>1, <1>2, <1>4, <1>5, <1>6, <2>1 DEF Unsent
    <2> QED BY <1>1, <1>3, <2>1, <2>2, <2>3, <2>4, <2>5 DEF CreateOK
  <1> QED BY <1>7, <1>8

LEMMA RetryCopies ==
    ASSUME TypeOK, [Next]_vars, CopiesInv, NEW o \in Ops, Retry(o)
    PROVE  CopiesInv'
  <1> SUFFICES ASSUME NEW p \in Ops, IsCreate(p)
               PROVE  CreateOK(p)'
    BY DEF CopiesInv, IsCreate
  <1>1. /\ attempt' = attempt /\ zulip' = zulip /\ live' = Idle
        /\ live.op = o /\ live.pc = "answered" /\ live.answer = "retryable"
    BY DEF Retry, worldVars
  <1>2. /\ p = o => state'[p] = "pending"
        /\ p # o => state'[p] = state[p]
    BY DEF Retry, TypeOK
  <1>3. live'.pc = "idle"
    BY <1>1, IdleFields
  <1>4. /\ Unsent(p) => Unsent(p)'
        /\ SentCopies(p) + ErrorsLeft <= 1 + attempt[p].resends + MaxFaults
             => (SentCopies(p) + ErrorsLeft <= 1 + attempt[p].resends + MaxFaults)'
    BY <1>1, KeptBounds DEF SentCopies
  <1> QED BY <1>1, <1>2, <1>3, <1>4 DEF CopiesInv, CreateOK

LEMMA ResendCopies ==
    ASSUME TypeOK, [Next]_vars, CopiesInv, NEW o \in Ops, ScheduleSingleResend(o)
    PROVE  CopiesInv'
  <1> SUFFICES ASSUME NEW p \in Ops, IsCreate(p)
               PROVE  CreateOK(p)'
    BY DEF CopiesInv, IsCreate
  <1>1. zulip' = zulip /\ live' = Idle
    BY DEF ScheduleSingleResend, worldVars
  <1>2. live'.pc = "idle" /\ SentCopies(p)' = SentCopies(p)
    BY <1>1, IdleFields DEF SentCopies
  <1>3. attempt \in [Ops -> AttemptRecord] /\ state \in [Ops -> States]
    BY DEF TypeOK
  <1>4. attempt'[p].resends = attempt[p].resends =>
          /\ Unsent(p) => Unsent(p)'
          /\ SentCopies(p) + ErrorsLeft <= 1 + attempt[p].resends + MaxFaults
               => (SentCopies(p) + ErrorsLeft <= 1 + attempt[p].resends + MaxFaults)'
    BY <1>2, KeptBounds
  <1>5. CASE state' = state /\ attempt' = attempt
    BY <1>2, <1>4, <1>5 DEF CopiesInv, CreateOK
  <1>6. CASE /\ attempt[o].resends = 0
             /\ state' = [state EXCEPT ![o] = "pending"]
             /\ attempt' = [attempt EXCEPT ![o].resends = @ + 1]
    <2>1. CASE p # o
      <3>1. state'[p] = state[p] /\ attempt'[p] = attempt[p]
        BY <1>3, <1>6, <2>1
      <3> QED BY <1>2, <1>4, <3>1 DEF CopiesInv, CreateOK
    <2>2. CASE p = o
      <3>1. state'[p] = "pending" /\ attempt'[p].resends = 1
        BY <1>3, <1>6, <2>2 DEF AttemptRecord
      <3>2. SentCopies(p) + ErrorsLeft <= 1 + MaxFaults
        BY <1>6, <2>2, CopiesType, ErrorsFall DEF CopiesInv, CreateOK
      <3>3. (SentCopies(p) + ErrorsLeft)' <= 1 + MaxFaults
        BY <1>2, <3>2, CopiesType, ErrorsFall
      <3>4. /\ Unsent(p)'
            /\ (SentCopies(p) + ErrorsLeft <= 1 + attempt[p].resends + MaxFaults)'
        BY <1>2, <3>1, <3>3, CopiesType, ErrorsFall DEF Unsent
      <3> QED BY <1>2, <3>1, <3>4 DEF CreateOK, MaxAutoResends
    <2> QED BY <2>1, <2>2
  <1> QED BY <1>5, <1>6 DEF ScheduleSingleResend

LEMMA StepCopies ==
    ASSUME TypeInv, CopiesInv, [Next]_vars
    PROVE  CopiesInv'
  <1> USE DEF TypeInv
  <1>1. ASSUME NEW o \in Ops, LiveRun(o)
        PROVE  CopiesInv'
    BY <1>1, FinishQuiet, CheckQuiet, QuietCopies, ClaimCopies, PrepareCopies,
       ApplyCopies, RetryCopies DEF LiveRun
  <1>2. ASSUME NEW o \in Ops, LiveReconcile(o)
        PROVE  CopiesInv'
    BY <1>2, FinishQuiet, CheckQuiet, QuietCopies, ClaimCopies, ResendCopies
       DEF LiveReconcile
  <1>3. ASSUME NEW o \in Ops, LivePoll(o) \/ LiveFlush(o) \/ Echo(o) \/ World(o)
        PROVE  CopiesInv'
    BY <1>3, PollQuiet, FlushQuiet, EchoQuiet, WorldQuiet, QuietCopies
  <1> QED BY <1>1, <1>2, <1>3, RestQuiet, QuietCopies, ClaimCopies DEF Next

LEMMA InitCopies == Init => CopiesInv
  <1> SUFFICES ASSUME Init, NEW o \in Ops, IsCreate(o) PROVE CreateOK(o)
    BY DEF CopiesInv
  <1>1. MaxFaults \in Nat /\ ErrorsLeft = MaxFaults
    BY ConstantsAssumption DEF Init, ErrorsLeft
  <1>2. SentCopies(o) = 0 /\ attempt[o].resends = 0 /\ live.pc = "idle"
    BY IdleFields DEF Init, SentCopies
  <1> QED BY <1>1, <1>2 DEF CreateOK, Unsent, MaxAutoResends

(* However often the process crashes, leases are renewed, answers are lost   *)
(* and holds lapse, run_once, reap_expired_running and reconcile_once ask    *)
(* Zulip to create a message once, plus the one resend of                    *)
(* schedule_single_resend, plus at most one time for every failed call where *)
(* Zulip may answer with an error what it has applied (_successful retries   *)
(* server_error and timeout).                                                *)
CopiesArePaidFor ==
    \A o \in Ops : IsCreate(o) =>
        /\ attempt[o].resends <= MaxAutoResends
        /\ SentCopies(o) <= 1 + attempt[o].resends + (MaxFaults - ErrorsLeft)

(* No row of run_once or reconcile_once is ever sent more often than that,   *)
(* whether error answers may follow an applied send or not.                  *)
THEOREM CopiesBounded == Spec => []CopiesArePaidFor
  <1>1. Init => TypeInv /\ CopiesInv
    BY InitType, InitCopies
  <1>2. TypeInv /\ CopiesInv /\ [Next]_vars => (TypeInv /\ CopiesInv)'
    BY StepType, StepThreads, StepCopies DEF TypeInv
  <1>3. TypeInv /\ CopiesInv => CopiesArePaidFor
    <2> SUFFICES ASSUME TypeInv, CopiesInv, NEW o \in Ops, IsCreate(o)
                 PROVE  /\ attempt[o].resends <= MaxAutoResends
                        /\ SentCopies(o) <= 1 + attempt[o].resends
                                                  + (MaxFaults - ErrorsLeft)
      BY DEF CopiesArePaidFor
    <2>1. SentCopies(o) \in Nat /\ attempt[o].resends \in Nat /\ MaxFaults \in Nat
      BY CopiesType DEF TypeInv
    <2>2. ErrorsLeft \in Nat
      BY <2>1 DEF TypeInv, TypeOK, Budget, ErrorsLeft
    <2>3. /\ attempt[o].resends <= MaxAutoResends
          /\ SentCopies(o) + ErrorsLeft <= 1 + attempt[o].resends + MaxFaults
      BY DEF CopiesInv, CreateOK
    <2> QED BY <2>1, <2>2, <2>3
  <1> QED BY <1>1, <1>2, <1>3, PTL DEF Spec

-----------------------------------------------------------------------------
(* Outcomes: what the row, the idempotency row, the result, the backend and  *)
(* Zulip say of one operation.                                               *)

Executing == {"terminal", "claimed", "attempted", "answered"}
Checking == {"reconciling", "checked"}
Unfinished == {"pending", "running", "uncertain"}
Done(o) == zulip[o].copies > 0

(* A row somebody works on is not pruned meanwhile: only creates become      *)
(* uncertain, and creates are kept.                                          *)
RowOK(o) ==
    /\ state[o] = "uncertain" \/ attempt[o].evidence => IsCreate(o)
    /\ live.op = o /\ live.pc \in Executing =>
          state[o] = "running" \/ (IsCreate(o) /\ state[o] # "absent")
    /\ live.op = o /\ live.pc \in Checking => IsCreate(o) /\ state[o] # "absent"
    /\ live.op = o /\ live.pc = "answered" /\ live.answer = "ambiguous" => IsCreate(o)
    /\ echo.op = o => IsCreate(o) /\ state[o] # "absent"

(* An acknowledgement on its way to the row is true already. *)
KnownOK(o) ==
    /\ result[o].sent /\ ~ result[o].stale /\ ~ result[o].manual
          => backend[o].outcome # "open"
    /\ state[o] = "absent" /\ idem[o] \in Terminal => backend[o].outcome # "open"
    /\ live.op = o /\ live.pc = "reported" =>
          /\ live.answer \in {"applied", "duplicate", "stale_lease", "rejected"}
          /\ live.answer \in {"applied", "duplicate"} => backend[o].outcome # "open"

(* Whatever speaks of a success, on its way to the backend, has seen it. *)
RealOK(o) ==
    /\ backend[o].outcome = "succeeded" => Done(o)
    /\ result[o].outcome = "committed" => Done(o)
    /\ live.op = o /\ live.pc = "answered" /\ live.answer = "success" => Done(o)
    /\ live.op = o /\ live.pc = "checked" /\ live.answer = "match" => Done(o)
    /\ zulip[o].visible \/ zulip[o].echoes > 0 => Done(o)
    /\ echo.op = o => Done(o)

(* The local echo of a create that was read before schedule_single_resend    *)
(* put the row back into the queue, and completed after it.  The lane has    *)
(* passed the operation.                                                     *)
Raced(o) ==
    /\ IsCreate(o) /\ Done(o)
    /\ attempt[o].resends = MaxAutoResends
    /\ idem[o] = "committed"
    /\ seq[o] <= lane[Lane[o]].seq

(* The idempotency row is closed together with the row, and what the live    *)
(* thread works on is open, except for such an echo.                         *)
ClosedOK(o) ==
    /\ live.op = o /\ live.pc \in Executing =>
         \/ state[o] = "running" /\ idem[o] = "open"
         \/ state[o] = "committed" /\ Raced(o)
    /\ live.op = o /\ live.pc \in Checking => state[o] \in {"uncertain"} \cup Terminal
    /\ state[o] \in Unfinished => idem[o] = "open" \/ Raced(o)
    /\ state[o] \in Terminal => idem[o] \in Terminal
    /\ idem[o] \in Terminal /\ state[o] # "absent" =>
         result[o].outcome # "none" \/ (state[o] = "pending" /\ Raced(o))
    /\ echo.op = o =>
         state[o] \in {"uncertain"} \cup Terminal \/ attempt[o].resends = MaxAutoResends

OutcomeOK(o) == RowOK(o) /\ KnownOK(o) /\ RealOK(o) /\ ClosedOK(o)

Busy == live.pc # "idle" => live.op \in Ops

OutcomeInv == Busy /\ \A o \in Ops : OutcomeOK(o)

(* A step that settles nothing about an operation. *)
Resting(p) == live'.op # p \/ live'.pc \notin Executing \cup Checking \cup {"reported"}

Kept(p) ==
    /\ \/ state'[p] = state[p]
       \/ /\ \/ state[p] \in {"running", "uncertain"}
             \/ state[p] = "committed" /\ Raced(p)
          /\ state'[p] \in Unfinished
          /\ state'[p] = "uncertain" => IsCreate(p)
          /\ state[p] = "uncertain" /\ state'[p] # "uncertain"
               => attempt'[p].resends = MaxAutoResends
          /\ Resting(p)
    /\ idem'[p] = idem[p]
    /\ attempt'[p].evidence => attempt[p].evidence \/ IsCreate(p)
    /\ result'[p].outcome = result[p].outcome
    /\ result'[p] = result[p] \/ ~ result'[p].sent
    /\ backend'[p].outcome = backend[p].outcome \/ backend'[p].outcome \in {"failed", "manual"}
    /\ zulip'[p] = zulip[p] \/ zulip'[p].copies > 0
    /\ live' = live \/ Resting(p)
    /\ echo' = echo \/ echo'.op # p

(* The steps that write attempt evidence and counters. *)
LEMMA AttemptSteps ==
    ASSUME [Next]_vars
    PROVE  \/ attempt' = attempt \/ attempt' = ReapedAttempt
           \/ \E o \in Ops :
                \/ \E n : attempt' = [attempt EXCEPT ![o].checks = n]
                \/ attempt' = [attempt EXCEPT ![o].evidence =
                                 @ \/ (IsCreate(o) /\ state[o] = "running")]
                \/ /\ attempt[o].resends = 0
                   /\ attempt' = [attempt EXCEPT ![o].resends = @ + 1]
  <1>1. ASSUME NEW o \in Ops, LivePoll(o) \/ LiveFlush(o) \/ Echo(o)
                             \/ PruneOperation(o) \/ World(o) \/ CompletionRaises(o)
        PROVE  attempt' = attempt
    BY <1>1 DEF LivePoll, PollProviderOperations, BindProviderLease, Enqueue,
       EnqueueKnown, RejectLease, LiveFlush, FlushProviderResults,
       FinalizeProviderResult, Echo, EchoRead, EchoIgnored, EchoComplete,
       PruneOperation, World, HoldLapses, LeaseExpires, Land, CompletionRaises,
       Restart, rowVars
  <1>2. CASE ReapOnly \/ Crash \/ ApplyAccount \/ (\E l \in Lanes : ApplyAssignment(l))
             \/ UNCHANGED vars
    BY <1>2 DEF ReapOnly, Crash, Restart, ApplyAccount, ApplyAssignment, vars, rowVars
  <1>3. ASSUME NEW o \in Ops, LiveRun(o)
        PROVE  \/ attempt' = attempt \/ attempt' = ReapedAttempt
               \/ \E n : attempt' = [attempt EXCEPT ![o].checks = n]
               \/ attempt' = [attempt EXCEPT ![o].evidence =
                                       @ \/ (IsCreate(o) /\ state[o] = "running")]
    <2>1. CASE RecordProviderAttempt(o)
      BY <2>1 DEF RecordProviderAttempt
    <2>2. CASE MarkUncertain(o)
      BY <2>2 DEF MarkUncertain
    <2>3. CASE ~ RecordProviderAttempt(o) /\ ~ MarkUncertain(o)
      BY <1>3, <2>3 DEF LiveRun, ClaimTerminal, Claim, ReapAndHold, CompleteTerminal,
         ExpireClaimed, PrepareFails, Apply, CompleteCommitted, Retry, CompleteRejected,
         rowVars
    <2> QED BY <2>1, <2>2, <2>3
  <1>4. ASSUME NEW o \in Ops, LiveReconcile(o)
        PROVE  \/ attempt' = attempt \/ attempt' = ReapedAttempt
               \/ \E n : attempt' = [attempt EXCEPT ![o].checks = n]
               \/ /\ attempt[o].resends = 0
                  /\ attempt' = [attempt EXCEPT ![o].resends = @ + 1]
    <2>1. CASE ScheduleReconciliationCheck(o)
      BY <2>1 DEF ScheduleReconciliationCheck
    <2>2. CASE ScheduleSingleResend(o)
      BY <2>2 DEF ScheduleSingleResend
    <2>3. CASE ~ ScheduleReconciliationCheck(o) /\ ~ ScheduleSingleResend(o)
      BY <1>4, <2>3 DEF LiveReconcile, ClaimUncertain, ReconcileMessage,
         CompleteMatched, DeferUncertain, RequireManualReconciliation, rowVars
    <2> QED BY <2>1, <2>2, <2>3
  <1> QED BY <1>1, <1>2, <1>3, <1>4, SMTT(30) DEF Next

(* The resend is counted once and for all, and a lane never turns back. *)
LEMMA ResendStays ==
    ASSUME TypeOK, [Next]_vars, NEW p \in Ops, attempt[p].resends = MaxAutoResends
    PROVE  attempt'[p].resends = MaxAutoResends
  <1>1. attempt \in [Ops -> AttemptRecord]
    BY DEF TypeOK
  <1>2. CASE attempt' = attempt \/ attempt' = ReapedAttempt
    BY <1>1, <1>2 DEF ReapedAttempt, AttemptRecord
  <1>3. ASSUME NEW o \in Ops, NEW n,
               \/ attempt' = [attempt EXCEPT ![o].checks = n]
               \/ attempt' = [attempt EXCEPT ![o].evidence = n]
        PROVE  attempt'[p].resends = MaxAutoResends
    BY <1>1, <1>3 DEF AttemptRecord
  <1>4. ASSUME NEW o \in Ops, attempt[o].resends = 0,
               attempt' = [attempt EXCEPT ![o].resends = @ + 1]
        PROVE  attempt'[p].resends = MaxAutoResends
    BY <1>1, <1>4 DEF AttemptRecord, MaxAutoResends
  <1> QED BY <1>2, <1>3, <1>4, AttemptSteps

LEMMA PassedStays ==
    ASSUME TypeOK, [Next]_vars, NEW p \in Ops, state[p] # "absent",
           seq[p] <= lane[Lane[p]].seq
    PROVE  seq'[p] <= lane'[Lane[p]].seq
  <1>0. /\ \A l \in Lanes : lane[l].seq \in Nat
        /\ \A o \in Ops : seq[o] \in Nat /\ Lane[o] \in Lanes
    BY ConstantsAssumption DEF TypeOK, Position
  <1>1. seq'[p] = seq[p]
    <2>1. seq' = seq \/ \E o \in Ops : state[o] = "absent" /\ \E n : seq' = [seq EXCEPT ![o] = n]
      <3>1. ASSUME NEW o \in Ops, LivePoll(o)
            PROVE  seq' = seq \/ (state[o] = "absent" /\ \E n : seq' = [seq EXCEPT ![o] = n])
        BY <3>1 DEF LivePoll, PollProviderOperations, BindProviderLease, Enqueue,
           EnqueueKnown, RejectLease, laneVars
      <3>2. ASSUME NEW o \in Ops, LiveRun(o) \/ LiveReconcile(o)
            PROVE  seq' = seq
        BY <3>2 DEF LiveRun, ClaimTerminal, CompleteTerminal, Claim, ExpireClaimed,
           PrepareFails, RecordProviderAttempt, Apply, CompleteCommitted, MarkUncertain,
           Retry, CompleteRejected, LiveReconcile, ClaimUncertain, ReconcileMessage,
           CompleteMatched, DeferUncertain, ScheduleReconciliationCheck,
           ScheduleSingleResend, RequireManualReconciliation, laneVars
      <3>3. ASSUME NEW o \in Ops, LiveFlush(o) \/ Echo(o) \/ PruneOperation(o)
                                 \/ World(o) \/ CompletionRaises(o)
            PROVE  seq' = seq
        BY <3>3 DEF LiveFlush, FlushProviderResults, FinalizeProviderResult, Echo,
           EchoRead, EchoIgnored, EchoComplete, PruneOperation, World, HoldLapses,
           LeaseExpires, Land, CompletionRaises, Restart, laneVars
      <3>4. CASE ReapOnly \/ Crash \/ ApplyAccount \/ (\E l \in Lanes : ApplyAssignment(l))
                 \/ UNCHANGED vars
        BY <3>4 DEF ReapOnly, Crash, Restart, ApplyAccount, ApplyAssignment, vars, laneVars
      <3> QED BY <3>1, <3>2, <3>3, <3>4 DEF Next
    <2> QED BY <2>1 DEF TypeOK
  <1>2. lane' = lane \/ \E o \in Ops :
                           /\ AtLaneHead(o)
                           /\ lane' = [lane EXCEPT ![Lane[o]] = [seq |-> seq[o], op |-> o]]
    <2>1. ASSUME NEW o \in Ops, NEW outcome, NEW lease, Complete(o, outcome, lease)
          PROVE  \/ lane' = lane
                 \/ /\ AtLaneHead(o)
                    /\ lane' = [lane EXCEPT ![Lane[o]] = [seq |-> seq[o], op |-> o]]
      BY <2>1 DEF Complete
    <2>2. ASSUME NEW o \in Ops,
                 \/ CompleteTerminal(o) \/ ExpireClaimed(o) \/ CompleteCommitted(o)
                 \/ CompleteRejected(o) \/ CompleteMatched(o) \/ EchoComplete(o)
          PROVE  \E outcome, lease : Complete(o, outcome, lease)
      BY <2>2 DEF CompleteTerminal, ExpireClaimed, CompleteCommitted, CompleteRejected,
         CompleteMatched, EchoComplete
    <2>3. ASSUME NEW o \in Ops,
                 \/ LivePoll(o) \/ ClaimTerminal(o) \/ Claim(o)
                 \/ (\E answer \in {"retryable", "permanent", "auth"} : PrepareFails(o, answer))
                 \/ RecordProviderAttempt(o) \/ Apply(o) \/ MarkUncertain(o) \/ Retry(o)
          PROVE  lane' = lane
      BY <2>3 DEF LivePoll, PollProviderOperations, BindProviderLease, Enqueue,
         EnqueueKnown, RejectLease, ClaimTerminal, Claim, PrepareFails,
         RecordProviderAttempt, Apply, MarkUncertain, Retry, laneVars
    <2>4. ASSUME NEW o \in Ops,
                 \/ ClaimUncertain(o) \/ ReconcileMessage(o) \/ DeferUncertain(o)
                 \/ ScheduleReconciliationCheck(o) \/ ScheduleSingleResend(o)
                 \/ RequireManualReconciliation(o)
                 \/ LiveFlush(o) \/ EchoRead(o) \/ EchoIgnored(o) \/ PruneOperation(o)
                 \/ World(o) \/ CompletionRaises(o)
          PROVE  lane' = lane
      BY <2>4 DEF ClaimUncertain, ReconcileMessage, DeferUncertain,
         ScheduleReconciliationCheck, ScheduleSingleResend, RequireManualReconciliation,
         LiveFlush, FlushProviderResults, FinalizeProviderResult, EchoRead, EchoIgnored,
         PruneOperation, World, HoldLapses, LeaseExpires, Land, CompletionRaises, Restart,
         laneVars
    <2>5. CASE ReapOnly \/ Crash \/ ApplyAccount \/ (\E l \in Lanes : ApplyAssignment(l))
               \/ UNCHANGED vars
      BY <2>5 DEF ReapOnly, Crash, Restart, ApplyAccount, ApplyAssignment, vars, laneVars
    <2> QED BY <2>1, <2>2, <2>3, <2>4, <2>5 DEF Next, LiveRun, LiveReconcile, Echo
  <1>3. CASE lane' = lane
    BY <1>1, <1>3
  <1>4. ASSUME NEW o \in Ops, AtLaneHead(o),
               lane' = [lane EXCEPT ![Lane[o]] = [seq |-> seq[o], op |-> o]]
        PROVE  seq'[p] <= lane'[Lane[p]].seq
    <2>1. lane \in [Lanes -> Position] /\ seq[o] = lane[Lane[o]].seq + 1
      BY <1>4 DEF TypeOK, AtLaneHead
    <2>2. CASE Lane[p] = Lane[o]
      <3>1. lane'[Lane[p]].seq = seq[o]
        BY <1>0, <1>4, <2>1, <2>2
      <3> QED BY <1>0, <1>1, <2>1, <2>2, <3>1
    <2>3. CASE Lane[p] # Lane[o]
      <3>1. lane'[Lane[p]] = lane[Lane[p]]
        BY <1>0, <1>4, <2>1, <2>3
      <3> QED BY <1>1, <3>1
    <2> QED BY <2>2, <2>3
  <1> QED BY <1>2, <1>3, <1>4

LEMMA RacedStays ==
    ASSUME TypeOK, [Next]_vars, NEW p \in Ops, Raced(p), state[p] # "absent",
           idem'[p] = idem[p], zulip'[p].copies > 0
    PROVE  Raced(p)'
  BY ResendStays, PassedStays DEF Raced, Done, IsCreate

(* An operation whose lane has passed it is at no lane head. *)
LEMMA HeadIsNotRaced ==
    ASSUME TypeOK, NEW p \in Ops, AtLaneHead(p)
    PROVE  ~ Raced(p)
  <1>1. lane[Lane[p]].seq \in Nat /\ seq[p] \in Nat
    BY ConstantsAssumption DEF TypeOK, Position
  <1> QED BY <1>1 DEF AtLaneHead, Raced

LEMMA KeptOutcome ==
    ASSUME TypeOK, [Next]_vars, NEW p \in Ops, OutcomeOK(p), Kept(p)
    PROVE  OutcomeOK(p)'
  <1>1. RowOK(p)'
    BY DEF OutcomeOK, RowOK, Kept, Resting, Unfinished, Executing, Checking, IsCreate
  <1>2. KnownOK(p)'
    BY DEF OutcomeOK, KnownOK, Kept, Resting, Unfinished
  <1>3. RealOK(p)'
    BY DEF OutcomeOK, RealOK, Kept, Resting, Done, Executing, Checking
  <1>4. ClosedOK(p)'
    <2>1. Raced(p) /\ state[p] # "absent" => Raced(p)'
      <3>1. Raced(p) => zulip'[p].copies > 0
        BY DEF Kept, Raced, Done
      <3> QED BY <3>1, RacedStays DEF Kept
    <2>2. attempt[p].resends = MaxAutoResends => attempt'[p].resends = MaxAutoResends
      BY ResendStays
    <2>3. CASE state'[p] = state[p]
      BY <2>1, <2>2, <2>3
         DEF OutcomeOK, ClosedOK, Kept, Resting, Executing, Checking, Unfinished, Terminal
    <2>4. CASE state'[p] # state[p]
      <3>1. /\ \/ state[p] \in {"running", "uncertain"}
               \/ state[p] = "committed" /\ Raced(p)
            /\ state'[p] \in Unfinished
            /\ state[p] = "uncertain" /\ state'[p] # "uncertain"
                 => attempt'[p].resends = MaxAutoResends
            /\ Resting(p)
            /\ idem'[p] = idem[p] /\ result'[p].outcome = result[p].outcome
            /\ echo' = echo \/ echo'.op # p
        BY <2>4 DEF Kept
      <3>2. idem[p] \in Terminal => result[p].outcome # "none"
        BY <3>1 DEF OutcomeOK, ClosedOK
      <3>3. idem[p] = "open" \/ Raced(p)
        BY <3>1 DEF OutcomeOK, ClosedOK, Unfinished
      <3>4. echo.op = p => state'[p] = "uncertain" \/ attempt'[p].resends = MaxAutoResends
        BY <2>2, <3>1 DEF OutcomeOK, ClosedOK, Terminal, Raced
      <3> QED BY <2>1, <3>1, <3>2, <3>3, <3>4
              DEF ClosedOK, Resting, Executing, Checking, Unfinished, Terminal
    <2> QED BY <2>3, <2>4
  <1> QED BY <1>1, <1>2, <1>3, <1>4 DEF OutcomeOK


(* What complete() does to the rows of the operation and of the others. *)
LEMMA CompleteEffect ==
    ASSUME TypeOK, NEW o \in Ops, NEW outcome \in Terminal, NEW lease,
           Complete(o, outcome, lease)
    PROVE  /\ \A p \in Ops : p # o =>
                state'[p] = state[p] /\ idem'[p] = idem[p] /\ result'[p] = result[p]
           /\ \/ /\ state[o] \in Terminal
                 /\ state'[o] = state[o] /\ idem'[o] = idem[o] /\ result'[o] = result[o]
              \/ /\ state[o] \in {"running", "uncertain"}
                 /\ state'[o] = outcome /\ idem'[o] = outcome
                 /\ result'[o].outcome = outcome /\ result'[o].sent = result[o].sent
                 /\ result'[o].stale = result[o].stale
                 /\ result'[o].manual = result[o].manual
              \/ /\ state[o] \in {"absent", "pending"}
                 /\ state'[o] = state[o] /\ idem'[o] = outcome /\ result'[o] = result[o]
           /\ state[o] \notin Terminal => AtLaneHead(o) /\ lane'[Lane[o]].seq = seq[o]
  <1>0. state[o] \notin Terminal => AtLaneHead(o) /\ lane'[Lane[o]].seq = seq[o]
    <2> SUFFICES ASSUME state[o] \notin Terminal
                 PROVE  AtLaneHead(o) /\ lane'[Lane[o]].seq = seq[o]
      OBVIOUS
    <2>1. /\ AtLaneHead(o)
          /\ lane' = [lane EXCEPT ![Lane[o]] = [seq |-> seq[o], op |-> o]]
      BY DEF Complete
    <2>2. lane \in [Lanes -> Position] /\ Lane[o] \in Lanes
      BY ConstantsAssumption DEF TypeOK
    <2> QED BY <2>1, <2>2
  <1>1. /\ state \in [Ops -> States] /\ idem \in [Ops -> Outcomes]
        /\ result \in [Ops -> ResultRecord]
    BY DEF TypeOK
  <1>2. CASE state[o] \in Terminal
    BY <1>2 DEF Complete
  <1>3. CASE state[o] \in {"running", "uncertain"}
    <2>1. /\ state' = [state EXCEPT ![o] = outcome] /\ idem' = [idem EXCEPT ![o] = outcome]
          /\ result' = [result EXCEPT ![o].outcome = outcome, ![o].lease = lease]
      BY <1>3 DEF Complete, Terminal
    <2> QED BY <1>0, <1>1, <1>3, <2>1 DEF ResultRecord
  <1>4. CASE state[o] \in {"absent", "pending"}
    <2>1. /\ state' = state /\ idem' = [idem EXCEPT ![o] = outcome]
          /\ result' = result
      BY <1>4 DEF Complete, Terminal
    <2> QED BY <1>0, <1>1, <1>4, <2>1
  <1> QED BY <1>0, <1>1, <1>2, <1>3, <1>4 DEF States

(* A completion of a row that somebody holds, with an outcome that is true. *)
LEMMA CompleteOutcome ==
    ASSUME TypeOK, OutcomeInv, [Next]_vars, NEW o \in Ops, NEW outcome \in Terminal,
           NEW lease, Complete(o, outcome, lease),
           attempt' = attempt, backend' = backend, seq' = seq,
           outcome = "committed" => Done(o),
           \/ /\ live.op = o /\ live.pc \in Executing \cup Checking
              /\ live' = Idle /\ echo' = echo /\ zulip' = zulip
           \/ /\ echo.op = o /\ live' = live /\ echo'.op = None /\ outcome = "committed"
              /\ \A p \in Ops : /\ p # o => zulip'[p] = zulip[p]
                                /\ zulip'[p].copies = zulip[p].copies
    PROVE  \A p \in Ops : OutcomeOK(p)'
  <1> HIDE DEF Complete
  <1>0. \A p \in Ops : OutcomeOK(p)
    BY DEF OutcomeInv
  <1>1. Idle.pc = "idle" /\ Idle.op = None /\ None \notin Ops
    BY ConstantsAssumption DEF Idle
  <1>2. ASSUME NEW p \in Ops, p # o PROVE OutcomeOK(p)'
    <2>1. state'[p] = state[p] /\ idem'[p] = idem[p] /\ result'[p] = result[p]
      BY <1>2, CompleteEffect
    <2>2. zulip'[p] = zulip[p]
      BY <1>2
    <2>3. live' = live \/ Resting(p)
      BY <1>1 DEF Resting
    <2>4. echo' = echo \/ echo'.op # p
      BY <1>1
    <2>5. Kept(p)
      BY <2>1, <2>2, <2>3, <2>4 DEF Kept
    <2> QED BY <1>0, <2>5, KeptOutcome
  <1>3. OutcomeOK(o)'
    <2>1. state[o] # "absent"
      BY <1>0 DEF OutcomeOK, RowOK, Executing, Checking
    <2>2. \/ /\ state[o] \in Terminal
             /\ state'[o] = state[o] /\ idem'[o] = idem[o] /\ result'[o] = result[o]
          \/ /\ state[o] \in {"running", "uncertain"}
             /\ state'[o] = outcome /\ idem'[o] = outcome
             /\ result'[o].outcome = outcome /\ result'[o].sent = result[o].sent
             /\ result'[o].stale = result[o].stale
             /\ result'[o].manual = result[o].manual
          \/ /\ state[o] = "pending"
             /\ state'[o] = state[o] /\ idem'[o] = outcome /\ result'[o] = result[o]
      BY <2>1, CompleteEffect
    <2>3. RowOK(o)'
      BY <1>0, <1>1, <2>1, <2>2 DEF OutcomeOK, RowOK, Executing, Checking, Terminal, IsCreate
    <2>4. KnownOK(o)'
      BY <1>0, <1>1, <2>1, <2>2 DEF OutcomeOK, KnownOK, Terminal
    <2>5. RealOK(o)'
      <3>1. Done(o)' <=> Done(o)
        BY DEF Done
      <3>2. zulip'[o].visible \/ zulip'[o].echoes > 0 => Done(o)
        BY <1>0 DEF OutcomeOK, RealOK
      <3> QED BY <1>0, <1>1, <2>2, <3>1, <3>2 DEF OutcomeOK, RealOK
    <2>6. ClosedOK(o)'
      <3>0. ClosedOK(o) /\ RowOK(o)
        BY <1>0 DEF OutcomeOK
      <3>1. CASE state[o] \in Terminal
        <4>1. state'[o] = state[o] /\ idem'[o] = idem[o] /\ result'[o] = result[o]
          BY <2>2, <3>1 DEF Terminal
        <4>2. Raced(o) => Raced(o)'
          <5>1. zulip'[o].copies = zulip[o].copies
            OBVIOUS
          <5> QED BY <2>1, <4>1, <5>1, RacedStays DEF Raced, Done
        <4> QED BY <1>1, <3>0, <3>1, <4>1, <4>2
                DEF ClosedOK, Terminal, Unfinished, Executing, Checking
      <3>2. CASE state[o] \notin Terminal
        <4>1. /\ ~ Raced(o)
              /\ seq'[o] <= lane'[Lane[o]].seq
          <5>1. AtLaneHead(o) /\ lane'[Lane[o]].seq = seq[o] /\ seq[o] \in Nat
            BY <3>2, CompleteEffect DEF TypeOK
          <5> QED BY <5>1, HeadIsNotRaced
        <4>2. CASE live' = Idle /\ live.op = o /\ live.pc \in Executing \cup Checking
          <5>1. state[o] \in {"running", "uncertain"}
            BY <3>0, <3>2, <4>2 DEF ClosedOK, Terminal
          <5>2. state'[o] = outcome /\ idem'[o] = outcome /\ result'[o].outcome = outcome
            BY <2>2, <5>1 DEF Terminal
          <5>3. live'.op # o
            BY <1>1, <4>2
          <5> QED BY <5>2, <5>3 DEF ClosedOK, Terminal, Unfinished
        <4>3. CASE echo.op = o /\ live' = live /\ echo'.op = None /\ outcome = "committed"
          <5>1. IsCreate(o) /\ Done(o)'
            BY <3>0, <4>3 DEF RowOK, Done
          <5>2. attempt[o].resends = MaxAutoResends /\ idem'[o] = "committed" => Raced(o)'
            BY <4>1, <5>1 DEF Raced, IsCreate
          <5>3. echo'.op # o
            BY <1>1, <4>3
          <5>4. CASE state[o] \in {"running", "uncertain"}
            <6>1. /\ state'[o] = "committed" /\ idem'[o] = "committed"
                  /\ result'[o].outcome = "committed"
              BY <2>2, <4>3, <5>4 DEF Terminal
            <6>2. live.op = o /\ live.pc \in Executing => Raced(o)'
              BY <3>0, <4>3, <5>2, <5>4, <6>1 DEF ClosedOK, Terminal
            <6> QED BY <4>3, <5>3, <6>1, <6>2 DEF ClosedOK, Terminal, Unfinished
          <5>5. CASE state[o] = "pending"
            <6>1. state'[o] = "pending" /\ idem'[o] = "committed"
              BY <2>2, <4>3, <5>5 DEF Terminal
            <6>2. Raced(o)'
              BY <3>0, <4>3, <5>2, <5>5, <6>1 DEF ClosedOK, Terminal
            <6>3. ~ (live.op = o /\ live.pc \in Executing \cup Checking)
              BY <3>0, <5>5 DEF ClosedOK, Terminal
            <6> QED BY <4>3, <5>3, <6>1, <6>2, <6>3 DEF ClosedOK, Terminal, Unfinished
          <5> QED BY <2>2, <3>2, <5>4, <5>5
        <4> QED BY <4>2, <4>3
      <3> QED BY <3>1, <3>2
    <2> QED BY <2>3, <2>4, <2>5, <2>6 DEF OutcomeOK
  <1> QED BY <1>2, <1>3


(* run_once, reconcile_once and reconcile_local_echo finish a row. *)
LEMMA FinishOutcome ==
    ASSUME TypeOK, ThreadsOK, OutcomeInv, [Next]_vars, NEW o \in Ops,
           \/ CompleteTerminal(o) \/ ExpireClaimed(o) \/ CompleteCommitted(o)
           \/ CompleteRejected(o) \/ CompleteMatched(o)
    PROVE  \A p \in Ops : OutcomeOK(p)'
  <1>0. OutcomeOK(o)
    BY DEF OutcomeInv
  <1>1. /\ attempt' = attempt /\ backend' = backend /\ zulip' = zulip
        /\ live' = Idle /\ echo' = echo /\ live.op = o /\ seq' = seq
    BY DEF CompleteTerminal, ExpireClaimed, CompleteCommitted, CompleteRejected,
       CompleteMatched, Checked, worldVars
  <1>2. live.pc \in Executing \cup Checking
    BY DEF CompleteTerminal, ExpireClaimed, CompleteCommitted, CompleteRejected,
       CompleteMatched, Checked, Executing, Checking
  <1>3. CASE CompleteTerminal(o)
    <2> DEFINE outcome == IF live.answer = "auth" THEN "rejected" ELSE live.answer
    <2>1. outcome \in Terminal /\ outcome # "committed"
      BY <1>3 DEF CompleteTerminal, ThreadsOK, Terminal
    <2>2. Complete(o, outcome, bound[o].lease)
      BY <1>3 DEF CompleteTerminal
    <2> HIDE DEF outcome
    <2> QED BY <1>1, <1>2, <2>1, <2>2, CompleteOutcome
  <1>4. CASE ExpireClaimed(o)
    BY <1>1, <1>2, <1>4, CompleteOutcome DEF ExpireClaimed, Terminal
  <1>5. CASE CompleteRejected(o)
    BY <1>1, <1>2, <1>5, CompleteOutcome DEF CompleteRejected, Terminal
  <1>6. CASE CompleteCommitted(o)
    <2>1. Done(o)
      BY <1>0, <1>1, <1>6 DEF CompleteCommitted, OutcomeOK, RealOK
    <2> QED BY <1>1, <1>2, <1>6, <2>1, CompleteOutcome DEF CompleteCommitted, Terminal
  <1>7. CASE CompleteMatched(o)
    <2>1. Done(o)
      BY <1>0, <1>1, <1>7 DEF CompleteMatched, Checked, OutcomeOK, RealOK
    <2> QED BY <1>1, <1>2, <1>7, <2>1, CompleteOutcome DEF CompleteMatched, Terminal
  <1> QED BY <1>3, <1>4, <1>5, <1>6, <1>7

LEMMA EchoOutcome ==
    ASSUME TypeOK, OutcomeInv, [Next]_vars, NEW o \in Ops, Echo(o)
    PROVE  \A p \in Ops : OutcomeOK(p)'
  <1>0. \A p \in Ops : OutcomeOK(p)
    BY DEF OutcomeInv
  <1>1. zulip \in [Ops -> ZulipRecord] /\ echo \in EchoThread
    BY DEF TypeOK
  <1>2. CASE EchoRead(o)
    <2>1. /\ state' = state /\ idem' = idem /\ attempt' = attempt /\ result' = result
          /\ backend' = backend /\ zulip' = zulip /\ live' = live
          /\ echo'.op = o /\ state[o] = "uncertain" /\ zulip[o].echoes > 0
          /\ seq' = seq /\ lane' = lane
      BY <1>2 DEF EchoRead, rowVars, laneVars, worldVars
    <2>2. \A p \in Ops : p # o => Kept(p)
      BY <2>1 DEF Kept
    <2>3. OutcomeOK(o)'
      BY <1>0, <2>1
         DEF OutcomeOK, RowOK, KnownOK, RealOK, ClosedOK, Done, IsCreate, Raced
    <2> QED BY <1>0, <2>2, <2>3, KeptOutcome
  <1>3. CASE EchoIgnored(o)
    <2>1. /\ state' = state /\ idem' = idem /\ attempt' = attempt /\ result' = result
          /\ backend' = backend /\ live' = live /\ echo' = echo /\ zulip[o].echoes > 0
          /\ zulip' = [zulip EXCEPT ![o].echoes = @ - 1]
      BY <1>3 DEF EchoIgnored, rowVars, threadVars
    <2>2. /\ zulip'[o].copies = zulip[o].copies
          /\ \A p \in Ops : p # o => zulip'[p] = zulip[p]
      BY <1>1, <2>1 DEF ZulipRecord
    <2>3. Done(o)
      BY <1>0, <2>1 DEF OutcomeOK, RealOK
    <2>4. \A p \in Ops : Kept(p)
      BY <2>1, <2>2, <2>3 DEF Kept, Done
    <2> QED BY <1>0, <2>4, KeptOutcome
  <1>4. CASE EchoComplete(o)
    <2>1. /\ attempt' = attempt /\ backend' = backend /\ live' = live
          /\ echo.op = o /\ echo'.op = None /\ Complete(o, "committed", echo.lease)
          /\ seq' = seq
          /\ zulip' = [zulip EXCEPT ![o].echoes = @ - 1]
      BY <1>4 DEF EchoComplete, NoEcho
    <2>2. \A p \in Ops : /\ p # o => zulip'[p] = zulip[p]
                         /\ zulip'[p].copies = zulip[p].copies
      BY <1>1, <2>1 DEF ZulipRecord
    <2>3. Done(o)
      BY <1>0, <2>1 DEF OutcomeOK, RealOK
    <2> QED BY <2>1, <2>2, <2>3, CompleteOutcome DEF Terminal
  <1> QED BY <1>2, <1>3, <1>4 DEF Echo

LEMMA PollOutcome ==
    ASSUME TypeOK, OutcomeInv, [Next]_vars, NEW o \in Ops, LivePoll(o)
    PROVE  \A p \in Ops : OutcomeOK(p)'
  <1>0. \A p \in Ops : OutcomeOK(p)
    BY DEF OutcomeInv
  <1>1. /\ attempt' = attempt /\ zulip' = zulip /\ echo' = echo
    BY DEF LivePoll, PollProviderOperations, BindProviderLease, Enqueue,
       EnqueueKnown, RejectLease, rowVars
  <1>2. \A p \in Ops : live' = live \/ Resting(p)
    <2>1. \/ live' = live \/ live' = Idle
          \/ live' = [Idle EXCEPT !.pc = "leased", !.op = o]
      BY DEF LivePoll, PollProviderOperations, BindProviderLease, Enqueue,
         EnqueueKnown, RejectLease, EndPoll
    <2>2. live' = live \/ live'.pc \in {"idle", "leased"}
      <3>1. CASE live' = [Idle EXCEPT !.pc = "leased", !.op = o]
        BY <3>1 DEF Idle
      <3> QED BY <2>1, <3>1, IdleFields
    <2> QED BY <2>2 DEF Resting, Executing, Checking
  <1>3. \A p \in Ops : backend'[p].outcome = backend[p].outcome
                        \/ backend'[p].outcome \in {"failed", "manual"}
    <2>1. backend \in [Ops -> BackendRecord]
      BY DEF TypeOK
    <2>2. \/ backend' = backend
          \/ backend' = [backend EXCEPT ![o] = [@ EXCEPT !.lease = NextLease(backend[o].lease), !.live = TRUE]]
          \/ backend' = [backend EXCEPT ![o] = [@ EXCEPT !.outcome = "failed", !.live = FALSE]]
      <3>1. CASE PollProviderOperations(o)
        BY <3>1 DEF PollProviderOperations
      <3>2. CASE RejectLease(o)
        <4>1. CASE UNCHANGED backend
          BY <4>1
        <4>2. CASE \E status : ReportOutcome(o, backend[o].lease, "failed", status)
          <5>1. PICK status : ReportOutcome(o, backend[o].lease, "failed", status)
            BY <4>2
          <5>2. CASE status = "applied"
            BY <5>1, <5>2 DEF ReportOutcome
          <5>3. CASE status # "applied"
            BY <2>1, <5>1, <5>3 DEF ReportOutcome
          <5> QED BY <5>2, <5>3
        <4>3. UNCHANGED backend \/ \E status : ReportOutcome(o, backend[o].lease, "failed", status)
          BY <3>2 DEF RejectLease
        <4> QED BY <4>1, <4>2, <4>3
      <3>3. CASE UNCHANGED backend
        BY <3>3
      <3> QED BY <3>1, <3>2, <3>3 DEF LivePoll, BindProviderLease, Enqueue, EnqueueKnown
    <2> TAKE p \in Ops
    <2>3. backend[p] \in BackendRecord
      BY <2>1
    <2>4. CASE backend' = [backend EXCEPT ![o] =
                 [@ EXCEPT !.lease = NextLease(backend[o].lease), !.live = TRUE]]
      BY <2>1, <2>3, <2>4 DEF BackendRecord
    <2>5. CASE backend' = [backend EXCEPT ![o] = [@ EXCEPT !.outcome = "failed", !.live = FALSE]]
      BY <2>1, <2>3, <2>5 DEF BackendRecord
    <2> QED BY <2>2, <2>4, <2>5
  <1>4. CASE PollProviderOperations(o) \/ EnqueueKnown(o) \/ RejectLease(o)
    <2>1. state' = state /\ idem' = idem /\ result' = result
      BY <1>4 DEF PollProviderOperations, EnqueueKnown, RejectLease, rowVars
    <2>2. \A p \in Ops : Kept(p)
      BY <1>1, <1>2, <1>3, <2>1 DEF Kept
    <2> QED BY <1>0, <2>2, KeptOutcome
  <1>5. CASE BindProviderLease(o)
    <2>1. state' = state /\ idem' = idem
      BY <1>5 DEF BindProviderLease
    <2>2. \A p \in Ops : /\ result'[p].outcome = result[p].outcome
                         /\ result'[p] = result[p] \/ ~ result'[p].sent
      <3>1. result \in [Ops -> ResultRecord]
        BY DEF TypeOK
      <3> QED BY <1>5, <3>1 DEF BindProviderLease, ResultRecord
    <2>3. \A p \in Ops : Kept(p)
      BY <1>1, <1>2, <1>3, <2>1, <2>2 DEF Kept
    <2> QED BY <1>0, <2>3, KeptOutcome
  <1>6. CASE Enqueue(o)
    <2>1. /\ state[o] = "absent" /\ state' = [state EXCEPT ![o] = "pending"]
          /\ idem' = [idem EXCEPT ![o] = "open"]
          /\ result' = result /\ backend' = backend /\ live' = Idle
      BY <1>6 DEF Enqueue, EndPoll
    <2>2. state'[o] = "pending" /\ idem'[o] = "open"
      BY <2>1 DEF TypeOK
    <2>3. ASSUME NEW p \in Ops, p # o PROVE OutcomeOK(p)'
      <3>1. state'[p] = state[p] /\ idem'[p] = idem[p]
        BY <2>1, <2>3 DEF TypeOK
      <3>2. Kept(p)
        BY <1>1, <1>2, <1>3, <2>1, <3>1 DEF Kept
      <3> QED BY <1>0, <3>2, KeptOutcome
    <2>4. OutcomeOK(o)'
      BY <1>0, <1>1, <2>1, <2>2, IdleFields
         DEF OutcomeOK, RowOK, KnownOK, RealOK, ClosedOK, Done, IsCreate, Executing,
             Checking, Unfinished, Terminal
    <2> QED BY <2>3, <2>4
  <1> QED BY <1>4, <1>5, <1>6 DEF LivePoll


(* The reaper takes back running rows only; those it sends to reconciliation *)
(* have attempt evidence, which only creates have.                           *)
LEMMA ReapOutcome ==
    ASSUME TypeOK, OutcomeInv, live.pc = "idle", NEW p \in Ops
    PROVE  /\ \/ ReapedState[p] = state[p]
              \/ /\ state[p] = "running" /\ ReapedState[p] \in {"pending", "uncertain"}
                 /\ ReapedState[p] = "uncertain" => IsCreate(p)
           /\ ReapedAttempt[p].evidence = attempt[p].evidence
  <1>1. OutcomeOK(p) /\ attempt[p] \in AttemptRecord
    BY DEF OutcomeInv, TypeOK
  <1>2. ReapedAttempt[p].evidence = attempt[p].evidence
    BY <1>1 DEF ReapedAttempt, AttemptRecord
  <1> QED BY <1>1, <1>2 DEF ReapedState, Reapable, OutcomeOK, RowOK

LEMMA ClaimOutcome ==
    ASSUME TypeOK, OutcomeInv, [Next]_vars,
           \/ ReapOnly
           \/ \E o \in Ops : ClaimTerminal(o) \/ Claim(o) \/ ClaimUncertain(o)
    PROVE  \A p \in Ops : OutcomeOK(p)'
  <1>0. \A p \in Ops : OutcomeOK(p)
    BY ZenonT(30) DEF OutcomeInv
  <1>1. /\ live.pc = "idle" /\ attempt' = ReapedAttempt /\ idem' = idem
        /\ result' = result /\ backend' = backend /\ zulip' = zulip /\ echo' = echo
    BY DEF ReapOnly, ClaimTerminal, Claim, ClaimUncertain, ReapAndHold, worldVars,
       threadVars
  <1>2. ASSUME NEW p \in Ops, state'[p] = ReapedState[p], Resting(p)
        PROVE  OutcomeOK(p)'
    <2>1. /\ \/ ReapedState[p] = state[p]
             \/ /\ state[p] = "running" /\ ReapedState[p] \in {"pending", "uncertain"}
                /\ ReapedState[p] = "uncertain" => IsCreate(p)
          /\ ReapedAttempt[p].evidence = attempt[p].evidence
      BY <1>1, ReapOutcome
    <2>2. Kept(p)
      BY <1>1, <1>2, <2>1 DEF Kept, Unfinished
    <2> QED BY <1>0, <2>2, KeptOutcome
  <1>3. CASE ReapOnly
    <2>1. state' = ReapedState /\ live' = live
      BY <1>3 DEF ReapOnly, threadVars
    <2>2. \A p \in Ops : Resting(p)
      BY <1>1, <2>1 DEF Resting, Executing, Checking
    <2> QED BY <1>2, <2>1, <2>2
  <1>4. ASSUME NEW o \in Ops, ClaimUncertain(o)
        PROVE  \A p \in Ops : OutcomeOK(p)'
    <2>1. /\ state' = ReapedState /\ ReapedState[o] = "uncertain"
          /\ live' = [Idle EXCEPT !.pc = "reconciling", !.op = o]
      BY <1>4 DEF ClaimUncertain, Reconcilable
    <2>2. live'.pc = "reconciling" /\ live'.op = o
      BY <2>1 DEF Idle
    <2>3. \A p \in Ops : p # o => OutcomeOK(p)'
      BY <1>2, <2>1, <2>2 DEF Resting
    <2>4. IsCreate(o) /\ state[o] \in {"running", "uncertain"}
          /\ attempt'[o].evidence = attempt[o].evidence
      BY <1>0, <1>1, <2>1, ReapOutcome DEF OutcomeOK, RowOK
    <2>5. RowOK(o)' /\ KnownOK(o)' /\ RealOK(o)'
      BY <1>0, <1>1, <2>1, <2>2, <2>4
         DEF OutcomeOK, RowOK, KnownOK, RealOK, Done, IsCreate, Executing, Checking,
             Terminal
    <2>6. Raced(o) => Raced(o)'
      <3>1. Raced(o) => zulip'[o].copies > 0
        BY <1>1 DEF Raced, Done
      <3> QED BY <1>1, <2>4, <3>1, RacedStays
    <2>7. ClosedOK(o)'
      BY <1>0, <1>1, <2>1, <2>2, <2>4, <2>6, SMTT(30)
         DEF OutcomeOK, ClosedOK, Executing, Checking, Unfinished, Terminal
    <2> QED BY <2>3, <2>5, <2>7 DEF OutcomeOK
  <1>5. ASSUME NEW o \in Ops, ClaimTerminal(o) \/ Claim(o)
        PROVE  \A p \in Ops : OutcomeOK(p)'
    <2>1. ReapedState[o] = "pending" /\ state' = [ReapedState EXCEPT ![o] = "running"]
      BY <1>5 DEF ClaimTerminal, Claim, Sweepable, Claimable, ReapAndHold
    <2>2. live'.op = o /\ live'.pc \in {"terminal", "claimed"}
      BY <1>5 DEF ClaimTerminal, Claim, Idle
    <2>3. state'[o] = "running" /\ \A p \in Ops : p # o => state'[p] = ReapedState[p]
      BY <2>1, ReapType
    <2>4. \A p \in Ops : p # o => OutcomeOK(p)'
      BY <1>2, <2>2, <2>3 DEF Resting
    <2>5. /\ state[o] \in {"running", "pending"}
          /\ attempt'[o].evidence = attempt[o].evidence
      BY <1>1, <2>1, ReapOutcome
    <2>6. RowOK(o)' /\ KnownOK(o)' /\ RealOK(o)'
      BY <1>0, <1>1, <2>2, <2>3, <2>5
         DEF OutcomeOK, RowOK, KnownOK, RealOK, Done, IsCreate, Executing, Checking,
             Terminal
    <2>7. idem[o] = "open"
      <3>1. AtLaneHead(o)
        BY <1>5 DEF ClaimTerminal, Claim, Sweepable, Claimable
      <3> QED BY <1>0, <2>5, <3>1, HeadIsNotRaced, SMTT(30) DEF OutcomeOK, ClosedOK, Unfinished
    <2>8. echo.op = o => attempt'[o].resends = MaxAutoResends
      BY <1>0, <2>5, ResendStays DEF OutcomeOK, ClosedOK, Terminal
    <2>9. ClosedOK(o)'
      BY <1>1, <2>2, <2>3, <2>7, <2>8
         DEF ClosedOK, Executing, Checking, Unfinished, Terminal
    <2> QED BY <2>4, <2>6, <2>9 DEF OutcomeOK
  <1> QED BY <1>3, <1>4, <1>5

(* The steps of run_once between the claim and the answer. *)
LEMMA SendOutcome ==
    ASSUME TypeOK, OutcomeInv, [Next]_vars, NEW o \in Ops,
           \/ RecordProviderAttempt(o) \/ Apply(o)
           \/ \E answer \in {"retryable", "permanent", "auth"} : PrepareFails(o, answer)
    PROVE  \A p \in Ops : OutcomeOK(p)'
  <1>0. \A p \in Ops : OutcomeOK(p)
    BY DEF OutcomeInv
  <1>1. /\ state' = state /\ idem' = idem /\ result' = result /\ backend' = backend
        /\ echo' = echo /\ live.op = o /\ live.pc \in {"claimed", "attempted"}
    BY DEF RecordProviderAttempt, Apply, PrepareFails, rowVars
  <1>2. live'.op = o /\ live'.pc \in {"attempted", "answered"}
    BY <1>1 DEF RecordProviderAttempt, PrepareFails, Apply, SendSucceeds, SendAmbiguous,
       SendRetryable, SendRefused, Answer, TypeOK, LiveThread
  <1>3. \A p \in Ops : /\ attempt'[p].evidence => attempt[p].evidence \/ IsCreate(p)
                       /\ p # o => attempt'[p] = attempt[p]
    <2>1. attempt \in [Ops -> AttemptRecord]
      BY DEF TypeOK
    <2> QED BY <2>1 DEF RecordProviderAttempt, Apply, PrepareFails, rowVars,
               AttemptRecord
  <1>4. /\ \A p \in Ops : p # o => zulip'[p] = zulip[p]
        /\ \/ /\ zulip'[o] = zulip[o]
           \/ /\ zulip'[o].copies = zulip[o].copies
              /\ zulip'[o].visible = zulip[o].visible
              /\ zulip'[o].echoes = zulip[o].echoes
           \/ zulip'[o].copies > 0
    <2>1. zulip \in [Ops -> ZulipRecord]
      BY DEF TypeOK
    <2>2. CASE zulip' = zulip
      BY <2>2
    <2>3. CASE zulip' = [zulip EXCEPT ![o].flying = @ + 1]
      BY <2>1, <2>3 DEF ZulipRecord
    <2>4. CASE Apply(o) /\ SendSucceeds(o)
      <3>1. PICK inWindow \in BOOLEAN, echoed \in BOOLEAN :
              zulip' = [zulip EXCEPT ![o] = Landed(o, inWindow, echoed)]
        BY <2>4 DEF SendSucceeds, WindowChoices, EchoChoices
      <3>2. zulip'[o].copies = zulip[o].copies + 1
        BY <2>1, <3>1 DEF Landed, ZulipRecord
      <3> QED BY <2>1, <3>1, <3>2 DEF ZulipRecord
    <2> QED BY <2>2, <2>3, <2>4 DEF RecordProviderAttempt, PrepareFails, Apply,
               SendAmbiguous, SendRetryable, SendRefused
  <1>5. /\ live'.answer = "ambiguous" /\ live'.pc = "answered" => IsCreate(o)
        /\ live'.answer = "success" /\ live'.pc = "answered" => zulip'[o].copies > 0
    <2>1. live \in LiveThread /\ zulip \in [Ops -> ZulipRecord]
      BY DEF TypeOK
    <2>2. CASE RecordProviderAttempt(o)
      BY <2>1, <2>2 DEF RecordProviderAttempt, LiveThread
    <2>3. CASE \E answer \in {"retryable", "permanent", "auth"} : PrepareFails(o, answer)
      BY <2>1, <2>3 DEF PrepareFails, LiveThread
    <2>4. CASE Apply(o) /\ ~ SendSucceeds(o)
      BY <2>1, <2>4 DEF Apply, SendAmbiguous, SendRetryable, SendRefused, Answer, LiveThread
    <2>5. CASE SendSucceeds(o)
      <3>1. PICK inWindow \in BOOLEAN, echoed \in BOOLEAN :
              zulip' = [zulip EXCEPT ![o] = Landed(o, inWindow, echoed)]
        BY <2>5 DEF SendSucceeds, WindowChoices, EchoChoices
      <3>2. zulip'[o].copies = zulip[o].copies + 1
        BY <2>1, <3>1 DEF Landed, ZulipRecord
      <3>3. live'.answer = "success"
        BY <2>1, <2>5 DEF SendSucceeds, Answer, LiveThread
      <3> QED BY <2>1, <3>2, <3>3 DEF ZulipRecord
    <2> QED BY <2>2, <2>3, <2>4, <2>5
  <1>6. ASSUME NEW p \in Ops, p # o PROVE OutcomeOK(p)'
    <2>1. Kept(p)
      BY <1>1, <1>2, <1>3, <1>4, <1>6 DEF Kept, Resting
    <2> QED BY <1>0, <2>1, KeptOutcome
  <1>7. OutcomeOK(o)'
    <2>0. OutcomeOK(o) /\ zulip[o].copies \in Nat
      BY <1>0 DEF TypeOK, ZulipRecord
    <2>1. RowOK(o)' /\ KnownOK(o)'
      BY <1>1, <1>2, <1>3, <1>5, <2>0
         DEF OutcomeOK, RowOK, KnownOK, IsCreate, Executing, Checking
    <2>2. RealOK(o)'
      BY <1>1, <1>2, <1>4, <1>5, <2>0 DEF OutcomeOK, RealOK, Done
    <2>3. ClosedOK(o)'
      <3>1. state[o] # "absent" /\ (Raced(o) => zulip'[o].copies > 0)
        BY <1>1, <1>4, <2>0 DEF OutcomeOK, RowOK, Executing, Raced, Done
      <3>2. Raced(o) => Raced(o)'
        BY <1>1, <3>1, RacedStays
      <3>3. attempt[o].resends = MaxAutoResends => attempt'[o].resends = MaxAutoResends
        BY ResendStays
      <3> QED BY <1>1, <1>2, <2>0, <3>2, <3>3
              DEF OutcomeOK, ClosedOK, Executing, Checking, Unfinished
    <2> QED BY <2>1, <2>2, <2>3 DEF OutcomeOK
  <1> QED BY <1>6, <1>7


(* The steps that settle nothing: the answer is not final, or the thread     *)
(* gives the row up.                                                         *)
LEMMA ReleaseOutcome ==
    ASSUME TypeOK, OutcomeInv, [Next]_vars, NEW o \in Ops,
           \/ MarkUncertain(o) \/ Retry(o) \/ DeferUncertain(o)
           \/ ScheduleReconciliationCheck(o) \/ ScheduleSingleResend(o)
    PROVE  \A p \in Ops : OutcomeOK(p)'
  <1>0. \A p \in Ops : OutcomeOK(p)
    BY DEF OutcomeInv
  <1>1. /\ idem' = idem /\ result' = result /\ backend' = backend /\ zulip' = zulip
        /\ echo' = echo /\ live' = Idle /\ live.op = o
    BY DEF MarkUncertain, Retry, DeferUncertain, ScheduleReconciliationCheck,
       ScheduleSingleResend, Checked, worldVars
  <1>2. \A p \in Ops : Resting(p)
    BY <1>1, IdleFields DEF Resting, Executing, Checking
  <1>3. \A p \in Ops : attempt'[p].evidence = attempt[p].evidence
    <2>1. attempt \in [Ops -> AttemptRecord]
      BY DEF TypeOK
    <2>2. \/ attempt' = attempt
          \/ \E n : attempt' = [attempt EXCEPT ![o].checks = n]
          \/ \E n : attempt' = [attempt EXCEPT ![o].resends = n]
      BY DEF MarkUncertain, Retry, DeferUncertain, ScheduleReconciliationCheck,
         ScheduleSingleResend
    <2> QED BY <2>1, <2>2 DEF AttemptRecord
  <1>4. MarkUncertain(o) \/ Retry(o) =>
          state[o] = "running" \/ (state[o] = "committed" /\ Raced(o))
    BY <1>0 DEF OutcomeOK, ClosedOK, MarkUncertain, Retry, Executing
  <1>5. \/ state' = state
        \/ MarkUncertain(o) /\ state' = [state EXCEPT ![o] = "uncertain"] /\ IsCreate(o)
        \/ Retry(o) /\ state' = [state EXCEPT ![o] = "pending"]
        \/ /\ state[o] = "uncertain" /\ state' = [state EXCEPT ![o] = "pending"]
           /\ attempt'[o].resends = MaxAutoResends
    <2>1. CASE MarkUncertain(o)
      BY <1>0, <2>1 DEF MarkUncertain, OutcomeOK, RowOK
    <2>2. CASE Retry(o)
      BY <2>2 DEF Retry
    <2>3. CASE DeferUncertain(o) \/ ScheduleReconciliationCheck(o)
      BY <2>3 DEF DeferUncertain, ScheduleReconciliationCheck
    <2>4. CASE ScheduleSingleResend(o)
      <3>1. CASE state[o] = "uncertain" /\ attempt[o].resends = 0
        <4>1. /\ state' = [state EXCEPT ![o] = "pending"]
              /\ attempt' = [attempt EXCEPT ![o].resends = @ + 1]
          BY <2>4, <3>1 DEF ScheduleSingleResend
        <4>2. attempt'[o].resends = MaxAutoResends
          BY <3>1, <4>1 DEF TypeOK, AttemptRecord, MaxAutoResends
        <4> QED BY <3>1, <4>1, <4>2
      <3>2. CASE ~ (state[o] = "uncertain" /\ attempt[o].resends = 0)
        BY <2>4, <3>2 DEF ScheduleSingleResend
      <3> QED BY <3>1, <3>2
    <2> QED BY <2>1, <2>2, <2>3, <2>4
  <1>6. \A p \in Ops :
          \/ state'[p] = state[p]
          \/ /\ \/ state[p] \in {"running", "uncertain"}
                \/ state[p] = "committed" /\ Raced(p)
             /\ state'[p] \in Unfinished
             /\ state'[p] = "uncertain" => IsCreate(p)
             /\ state[p] = "uncertain" /\ state'[p] # "uncertain"
                  => attempt'[p].resends = MaxAutoResends
    <2> SUFFICES
          \/ state' = state
          \/ /\ \/ state[o] \in {"running", "uncertain"}
                \/ state[o] = "committed" /\ Raced(o)
             /\ \E s \in Unfinished :
                  /\ state' = [state EXCEPT ![o] = s]
                  /\ s = "uncertain" => IsCreate(o)
                  /\ state[o] = "uncertain" /\ s # "uncertain"
                       => attempt'[o].resends = MaxAutoResends
      BY DEF TypeOK
    <2> QED BY <1>4, <1>5 DEF Unfinished
  <1>7. \A p \in Ops : Kept(p)
    BY <1>1, <1>2, <1>3, <1>6 DEF Kept
  <1> QED BY <1>0, <1>7, KeptOutcome

(* reconcile_message, and the manual reconciliation that closes a row with a *)
(* result of its own.                                                        *)
LEMMA ManualOutcome ==
    ASSUME TypeOK, OutcomeInv, [Next]_vars, NEW o \in Ops,
           ReconcileMessage(o) \/ RequireManualReconciliation(o)
    PROVE  \A p \in Ops : OutcomeOK(p)'
  <1>0. \A p \in Ops : OutcomeOK(p)
    BY DEF OutcomeInv
  <1>1. CASE ReconcileMessage(o)
    <2>1. /\ state' = state /\ idem' = idem /\ attempt' = attempt /\ result' = result
          /\ backend' = backend /\ zulip' = zulip /\ echo' = echo
          /\ live.op = o /\ live.pc = "reconciling"
      BY <1>1 DEF ReconcileMessage, rowVars
    <2>2. /\ live'.op = o /\ live'.pc = "checked"
          /\ live'.answer = "match" => zulip[o].visible
      BY <1>1, <2>1 DEF ReconcileMessage, TypeOK, LiveThread
    <2>3. ASSUME NEW p \in Ops, p # o PROVE OutcomeOK(p)'
      <3>1. Kept(p)
        BY <2>1, <2>2, <2>3 DEF Kept, Resting
      <3> QED BY <1>0, <3>1, KeptOutcome
    <2>4. RowOK(o)' /\ KnownOK(o)' /\ RealOK(o)'
      BY <1>0, <2>1, <2>2 DEF OutcomeOK, RowOK, KnownOK, RealOK, Done, IsCreate,
         Executing, Checking
    <2>5. ClosedOK(o)'
      <3>1. state[o] # "absent" /\ (Raced(o) => zulip'[o].copies > 0)
        BY <1>0, <2>1 DEF OutcomeOK, RowOK, Checking, Raced, Done
      <3>2. Raced(o) => Raced(o)'
        BY <2>1, <3>1, RacedStays
      <3> QED BY <1>0, <2>1, <2>2, <3>2
              DEF OutcomeOK, ClosedOK, Executing, Checking, Unfinished
    <2> QED BY <2>3, <2>4, <2>5 DEF OutcomeOK
  <1>2. CASE RequireManualReconciliation(o)
    <2>1. /\ attempt' = attempt /\ backend' = backend /\ zulip' = zulip /\ echo' = echo
          /\ live' = Idle /\ live.op = o /\ live.pc = "checked"
          /\ idem' = [idem EXCEPT ![o] = IF @ = "open" THEN "rejected" ELSE @]
      BY <1>2 DEF RequireManualReconciliation, Checked, worldVars
    <2>2. /\ state \in [Ops -> States] /\ idem \in [Ops -> Outcomes]
          /\ result \in [Ops -> ResultRecord]
      BY DEF TypeOK
    <2>3. \/ state[o] # "uncertain" /\ state' = state /\ result' = result
          \/ /\ state[o] = "uncertain"
             /\ state' = [state EXCEPT ![o] = "rejected"]
             /\ result' = [result EXCEPT ![o] =
                             [@ EXCEPT !.outcome = "manual", !.lease = bound[o].lease,
                                       !.sent = FALSE, !.manual = TRUE]]
      BY <1>2 DEF RequireManualReconciliation
    <2>4. ASSUME NEW p \in Ops, p # o PROVE OutcomeOK(p)'
      <3>1. state'[p] = state[p] /\ idem'[p] = idem[p] /\ result'[p] = result[p]
        BY <2>1, <2>2, <2>3, <2>4
      <3>2. Resting(p)
        BY <2>1, IdleFields DEF Resting, Executing, Checking
      <3>3. Kept(p)
        BY <2>1, <3>1, <3>2 DEF Kept
      <3> QED BY <1>0, <3>3, KeptOutcome
    <2>5. \/ state[o] # "uncertain" /\ state'[o] = state[o] /\ result'[o] = result[o]
          \/ /\ state[o] = "uncertain" /\ state'[o] = "rejected"
             /\ result'[o].outcome = "manual" /\ ~ result'[o].sent
      BY <2>2, <2>3, ZenonT(60) DEF ResultRecord
    <2>6. state[o] \in {"uncertain"} \cup Terminal /\ IsCreate(o) /\ live'.op # o
      <3>1. live'.op # o
        BY <2>1, IdleFields, ConstantsAssumption
      <3> QED BY <1>0, <2>1, <3>1 DEF OutcomeOK, RowOK, ClosedOK, Checking
    <2>7. \/ idem[o] # "open" /\ idem'[o] = idem[o]
          \/ idem[o] = "open" /\ idem'[o] = "rejected"
      BY <2>1, <2>2
    <2>8. RowOK(o)' /\ KnownOK(o)' /\ RealOK(o)'
      BY <1>0, <2>1, <2>5, <2>6, <2>7
         DEF OutcomeOK, RowOK, KnownOK, RealOK, Done, IsCreate, Terminal
    <2>9. ClosedOK(o)'
      <3>1. CASE state[o] = "uncertain"
        <4>1. idem[o] = "open" \/ idem[o] = "committed"
          BY <1>0, <3>1 DEF OutcomeOK, ClosedOK, Unfinished, Raced
        <4> QED BY <2>5, <2>6, <2>7, <3>1, <4>1 DEF ClosedOK, Unfinished, Terminal
      <3>2. CASE state[o] \in Terminal
        <4>1. idem'[o] = idem[o] /\ state'[o] = state[o] /\ result'[o] = result[o]
          BY <1>0, <2>5, <2>7, <3>2 DEF OutcomeOK, ClosedOK, Terminal
        <4> QED BY <1>0, <2>6, <3>2, <4>1 DEF OutcomeOK, ClosedOK, Unfinished, Terminal
      <3> QED BY <2>6, <3>1, <3>2
    <2> QED BY <2>4, <2>8, <2>9 DEF OutcomeOK
  <1> QED BY <1>1, <1>2

LEMMA FlushOutcome ==
    ASSUME TypeOK, OutcomeInv, [Next]_vars, NEW o \in Ops, LiveFlush(o)
    PROVE  \A p \in Ops : OutcomeOK(p)'
  <1>0. \A p \in Ops : OutcomeOK(p)
    BY DEF OutcomeInv
  <1>1. /\ state' = state /\ idem' = idem /\ attempt' = attempt /\ zulip' = zulip
        /\ echo' = echo
    BY DEF LiveFlush, FlushProviderResults, FinalizeProviderResult, rowVars, worldVars
  <1>2. CASE FlushProviderResults(o)
    <2>1. PICK status \in ResultStatuses(o, result[o].lease) :
            /\ ReportOutcome(o, result[o].lease, BackendOutcome(result[o].outcome), status)
            /\ \/ live' = [Idle EXCEPT !.pc = "reported", !.op = o, !.answer = status,
                                       !.lease = result[o].lease]
               \/ live' = live
      BY <1>2 DEF FlushProviderResults
    <2>2. /\ result' = result /\ live.pc = "idle"
          /\ backend \in [Ops -> BackendRecord]
      BY <1>2 DEF FlushProviderResults, rowVars, TypeOK
    <2>3. /\ live' = live \/ (live'.pc = "reported" /\ live'.op = o /\ live'.answer = status)
      BY <2>1 DEF Idle
    <2>4. /\ \A p \in Ops : p # o => backend'[p] = backend[p]
          /\ status = "applied" => backend'[o].outcome = BackendOutcome(result[o].outcome)
          /\ status # "applied" => backend'[o] = backend[o]
      BY <2>1, <2>2 DEF ReportOutcome, BackendRecord
    <2>5. /\ status \in {"applied", "duplicate", "stale_lease", "rejected"}
          /\ status = "duplicate" => backend[o].outcome # "open"
      BY <2>1 DEF ResultStatuses
    <2>6. /\ BackendOutcome(result[o].outcome) # "open"
          /\ BackendOutcome(result[o].outcome) = "succeeded" => result[o].outcome = "committed"
      BY DEF BackendOutcome
    <2>7. ASSUME NEW p \in Ops, p # o PROVE OutcomeOK(p)'
      <3>1. Kept(p)
        BY <1>1, <2>2, <2>3, <2>4, <2>7 DEF Kept, Resting
      <3> QED BY <1>0, <3>1, KeptOutcome
    <2>8. RowOK(o)' /\ KnownOK(o)' /\ RealOK(o)'
      BY <1>0, <1>1, <2>2, <2>3, <2>4, <2>5, <2>6
         DEF OutcomeOK, RowOK, KnownOK, RealOK, Done, IsCreate, Executing, Checking
    <2>9. ClosedOK(o)'
      BY <1>0, <1>1, <1>2, <2>2, <2>3
         DEF OutcomeOK, ClosedOK, Raced, Done, IsCreate, Executing, Checking,
             FlushProviderResults, laneVars
    <2> QED BY <2>7, <2>8, <2>9 DEF OutcomeOK
  <1>3. CASE FinalizeProviderResult(o)
    <2>1. /\ live.pc = "reported" /\ live.op = o /\ live' = Idle /\ backend' = backend
          /\ result \in [Ops -> ResultRecord]
      BY <1>3 DEF FinalizeProviderResult, worldVars, TypeOK
    <2>2. /\ \A p \in Ops : p # o => result'[p] = result[p]
          /\ \/ result'[o] = result[o]
             \/ /\ result'[o].outcome = result[o].outcome
                /\ result'[o].stale = (live.answer = "stale_lease")
                /\ live.answer = "rejected" => result'[o].manual
      BY <1>3, <2>1, ZenonT(60) DEF FinalizeProviderResult, ResultRecord
    <2>3. ASSUME NEW p \in Ops, p # o PROVE OutcomeOK(p)'
      <3>1. Resting(p)
        BY <2>1, IdleFields DEF Resting, Executing, Checking
      <3>2. Kept(p)
        BY <1>1, <2>1, <2>2, <2>3, <3>1 DEF Kept
      <3> QED BY <1>0, <3>2, KeptOutcome
    <2>4. OutcomeOK(o)'
      <3>1. /\ live.answer \in {"applied", "duplicate", "stale_lease", "rejected"}
            /\ live.answer \in {"applied", "duplicate"} => backend[o].outcome # "open"
        BY <1>0, <2>1 DEF OutcomeOK, KnownOK
      <3>2. /\ live'.pc = "idle" /\ result'[o].outcome = result[o].outcome
        BY <2>1, <2>2, IdleFields
      <3>3. /\ result'[o].sent /\ ~ result'[o].stale /\ ~ result'[o].manual
                  => backend[o].outcome # "open"
        BY <1>0, <2>2, <3>1 DEF OutcomeOK, KnownOK
      <3>4. KnownOK(o)'
        BY <1>0, <1>1, <2>1, <3>2, <3>3 DEF OutcomeOK, KnownOK
      <3>5. ClosedOK(o)'
        BY <1>0, <1>1, <1>3, <3>2
           DEF OutcomeOK, ClosedOK, Raced, Done, IsCreate, Executing, Checking,
               FinalizeProviderResult, laneVars
      <3> QED BY <1>0, <1>1, <2>1, <3>2, <3>4, <3>5
              DEF OutcomeOK, RowOK, RealOK, Done, IsCreate, Executing, Checking
    <2> QED BY <2>3, <2>4
  <1> QED BY <1>2, <1>3 DEF LiveFlush

(* Pruning needs an acknowledgement, so the backend knows the outcome. *)
LEMMA PruneOutcome ==
    ASSUME TypeOK, OutcomeInv, [Next]_vars, NEW o \in Ops, PruneOperation(o)
    PROVE  \A p \in Ops : OutcomeOK(p)'
  <1>0. \A p \in Ops : OutcomeOK(p)
    BY DEF OutcomeInv
  <1>1. /\ idem' = idem /\ attempt' = attempt /\ result' = result /\ backend' = backend
        /\ zulip' = zulip /\ live' = live /\ echo' = echo
        /\ state[o] = "committed" /\ ~ IsCreate(o)
        /\ result[o].sent /\ ~ result[o].manual /\ ~ result[o].stale
    BY DEF PruneOperation, worldVars, threadVars, IsCreate
  <1>2. state'[o] = "absent" /\ \A p \in Ops : p # o => state'[p] = state[p]
    BY DEF PruneOperation, TypeOK
  <1>3. \A p \in Ops : p # o => Kept(p)
    BY <1>1, <1>2 DEF Kept
  <1>4. OutcomeOK(o)'
    BY <1>0, <1>1, <1>2 DEF OutcomeOK, RowOK, KnownOK, RealOK, ClosedOK, Raced, Done,
       IsCreate, Executing, Checking, Unfinished, Terminal
  <1> QED BY <1>0, <1>3, <1>4, KeptOutcome

LEMMA WorldOutcome ==
    ASSUME TypeOK, OutcomeInv, [Next]_vars,
           \/ \E o \in Ops : World(o) \/ CompletionRaises(o)
           \/ Crash \/ ApplyAccount \/ UNCHANGED vars
           \/ \E l \in Lanes : ApplyAssignment(l)
    PROVE  \A p \in Ops : OutcomeOK(p)'
  <1>0. \A p \in Ops : OutcomeOK(p)
    BY DEF OutcomeInv
  <1>1. state' = state /\ idem' = idem /\ attempt' = attempt /\ result' = result
    BY DEF World, HoldLapses, LeaseExpires, Land, CompletionRaises, Crash, Restart,
       ApplyAccount, ApplyAssignment, vars, rowVars
  <1>2. \A p \in Ops : live' = live \/ Resting(p)
    <2>1. live' = live \/ live' = Idle
      BY DEF World, HoldLapses, LeaseExpires, Land, CompletionRaises, Crash, Restart,
         ApplyAccount, ApplyAssignment, vars, threadVars
    <2> QED BY <2>1, IdleFields DEF Resting, Executing, Checking
  <1>3. \A p \in Ops : echo' = echo \/ echo'.op # p
    <2>1. echo' = echo \/ echo' = NoEcho
      BY DEF World, HoldLapses, LeaseExpires, Land, CompletionRaises, Crash, Restart,
         ApplyAccount, ApplyAssignment, vars, threadVars
    <2> QED BY <2>1, ConstantsAssumption DEF NoEcho
  <1>4. \A p \in Ops : backend'[p].outcome = backend[p].outcome
    <2>1. backend \in [Ops -> BackendRecord]
      BY DEF TypeOK
    <2>2. backend' = backend \/ \E o \in Ops : backend' = [backend EXCEPT ![o].live = FALSE]
      BY DEF World, HoldLapses, LeaseExpires, Land, CompletionRaises, Crash, Restart,
         ApplyAccount, ApplyAssignment, vars, worldVars
    <2> QED BY <2>1, <2>2 DEF BackendRecord
  <1>5. \A p \in Ops : zulip'[p] = zulip[p] \/ zulip'[p].copies > 0
    <2>1. CASE zulip' = zulip
      BY <2>1
    <2>2. ASSUME NEW o \in Ops, Land(o), NEW p \in Ops
          PROVE  zulip'[p] = zulip[p] \/ zulip'[p].copies > 0
      <3>1. PICK inWindow \in BOOLEAN, echoed \in BOOLEAN :
              zulip' = [zulip EXCEPT ![o] = [Landed(o, inWindow, echoed) EXCEPT
                                               !.flying = zulip[o].flying - 1]]
        BY <2>2 DEF Land, WindowChoices, EchoChoices
      <3>2. zulip \in [Ops -> ZulipRecord]
        BY DEF TypeOK
      <3>3. zulip'[o].copies = zulip[o].copies + 1
        BY <3>1, <3>2 DEF Landed, ZulipRecord
      <3> QED BY <3>1, <3>2, <3>3 DEF ZulipRecord
    <2>3. CASE \A o \in Ops : ~ Land(o)
      BY <2>3 DEF World, HoldLapses, LeaseExpires, CompletionRaises, Crash, Restart,
         ApplyAccount, ApplyAssignment, vars, worldVars
    <2> QED BY <2>1, <2>2, <2>3
  <1>6. \A p \in Ops : Kept(p)
    BY <1>1, <1>2, <1>3, <1>4, <1>5 DEF Kept
  <1> QED BY <1>0, <1>6, KeptOutcome


(* The live thread has an operation whenever it is not idle. *)
LEMMA StepBusy ==
    ASSUME TypeOK, Busy, [Next]_vars
    PROVE  Busy'
  <1>1. live \in LiveThread
    BY DEF TypeOK
  <1>2. \/ live' = live \/ live'.pc = "idle" \/ live'.op \in Ops
    <2>1. ASSUME NEW o \in Ops, LivePoll(o)
          PROVE  live' = live \/ live'.pc = "idle" \/ live'.op \in Ops
      <3>1. \/ live' = live \/ live' = Idle
            \/ live' = [Idle EXCEPT !.pc = "leased", !.op = o]
        BY <2>1 DEF LivePoll, PollProviderOperations, BindProviderLease, Enqueue,
           EnqueueKnown, RejectLease, EndPoll
      <3>2. CASE live' = [Idle EXCEPT !.pc = "leased", !.op = o]
        BY <3>2 DEF Idle
      <3> QED BY <3>1, <3>2, IdleFields
    <2>2. ASSUME NEW o \in Ops, ClaimTerminal(o) \/ Claim(o) \/ ClaimUncertain(o)
          PROVE  live'.op \in Ops
      BY <2>2 DEF ClaimTerminal, Claim, ClaimUncertain, Idle
    <2>3. ASSUME NEW o \in Ops,
                 \/ RecordProviderAttempt(o) \/ Apply(o) \/ ReconcileMessage(o)
                 \/ \E answer \in {"retryable", "permanent", "auth"} : PrepareFails(o, answer)
          PROVE  live'.op \in Ops
      BY <1>1, <2>3 DEF RecordProviderAttempt, PrepareFails, Apply, ReconcileMessage,
         SendSucceeds, SendAmbiguous, SendRetryable, SendRefused, Answer, LiveThread
    <2>4. ASSUME NEW o \in Ops, FlushProviderResults(o)
          PROVE  live' = live \/ live'.op \in Ops
      <3>1. \/ live' = live
            \/ \E answer, lease :
                 live' = [Idle EXCEPT !.pc = "reported", !.op = o, !.answer = answer,
                                      !.lease = lease]
        BY <2>4 DEF FlushProviderResults
      <3> QED BY <3>1 DEF Idle
    <2>5. ASSUME NEW o \in Ops,
                 \/ CompleteTerminal(o) \/ ExpireClaimed(o) \/ CompleteCommitted(o)
                 \/ MarkUncertain(o) \/ Retry(o) \/ CompleteRejected(o)
                 \/ CompleteMatched(o) \/ DeferUncertain(o)
                 \/ ScheduleReconciliationCheck(o) \/ ScheduleSingleResend(o)
                 \/ RequireManualReconciliation(o) \/ FinalizeProviderResult(o)
                 \/ CompletionRaises(o)
          PROVE  live'.pc = "idle"
      <3>1. live' = Idle
        BY <2>5 DEF CompleteTerminal, ExpireClaimed, CompleteCommitted, MarkUncertain, Retry,
           CompleteRejected, CompleteMatched, DeferUncertain, ScheduleReconciliationCheck,
           ScheduleSingleResend, RequireManualReconciliation, FinalizeProviderResult,
           CompletionRaises, Restart
      <3> QED BY <3>1, IdleFields
    <2>6. ASSUME NEW o \in Ops, Echo(o) \/ World(o) \/ PruneOperation(o)
          PROVE  live' = live
      BY <2>6 DEF Echo, EchoRead, EchoIgnored, EchoComplete, World, HoldLapses, LeaseExpires,
         Land, PruneOperation, threadVars
    <2>7. CASE ReapOnly \/ ApplyAccount \/ Crash \/ (\E l \in Lanes : ApplyAssignment(l))
               \/ UNCHANGED vars
      <3>1. live' = live \/ live' = Idle
        BY <2>7 DEF ReapOnly, ApplyAccount, Crash, Restart, ApplyAssignment, vars, threadVars
      <3> QED BY <3>1, IdleFields
    <2> QED BY <2>1, <2>2, <2>3, <2>4, <2>5, <2>6, <2>7
            DEF Next, LiveRun, LiveReconcile, LiveFlush
  <1> QED BY <1>2 DEF Busy

LEMMA StepOutcome ==
    ASSUME TypeInv, OutcomeInv, [Next]_vars
    PROVE  OutcomeInv'
  <1>0. TypeOK /\ ThreadsOK
    BY DEF TypeInv
  <1>1. ASSUME NEW o \in Ops, LiveRun(o)
        PROVE  \A p \in Ops : OutcomeOK(p)'
    BY <1>0, <1>1, FinishOutcome, ClaimOutcome, SendOutcome, ReleaseOutcome DEF LiveRun
  <1>2. ASSUME NEW o \in Ops, LiveReconcile(o)
        PROVE  \A p \in Ops : OutcomeOK(p)'
    BY <1>0, <1>2, FinishOutcome, ClaimOutcome, ReleaseOutcome, ManualOutcome
       DEF LiveReconcile
  <1>3. \A p \in Ops : OutcomeOK(p)'
    BY <1>0, <1>1, <1>2, PollOutcome, FlushOutcome, EchoOutcome, PruneOutcome, WorldOutcome,
       ClaimOutcome DEF Next
  <1>4. Busy'
    BY <1>0, StepBusy DEF OutcomeInv
  <1> QED BY <1>3, <1>4 DEF OutcomeInv

LEMMA InitOutcome == Init => OutcomeInv
  <1> SUFFICES ASSUME Init PROVE OutcomeInv
    OBVIOUS
  <1>1. live.pc = "idle" /\ live.op = None /\ echo.op = None /\ None \notin Ops
    BY IdleFields, ConstantsAssumption DEF Init, NoEcho
  <1>2. ASSUME NEW o \in Ops PROVE OutcomeOK(o)
    BY <1>1 DEF Init, OutcomeOK, RowOK, KnownOK, RealOK, ClosedOK, Done, Terminal, Unfinished
  <1> QED BY <1>1, <1>2 DEF OutcomeInv, Busy

LEMMA OutcomeInvariant == Spec => [](TypeInv /\ OutcomeInv)
  <1>1. Init => TypeInv /\ OutcomeInv
    BY InitType, InitOutcome
  <1>2. TypeInv /\ OutcomeInv /\ [Next]_vars => (TypeInv /\ OutcomeInv)'
    BY StepType, StepThreads, StepOutcome DEF TypeInv
  <1> QED BY <1>1, <1>2, PTL DEF Spec

(* A success that flush_provider_results reports was applied by Zulip,       *)
(* whether the answer, the search of reconcile_message or a local echo found *)
(* it out, and however many crashes and lost answers lie between.            *)
THEOREM SuccessIsReal == Spec => []ReportedSuccessIsReal
  <1>1. OutcomeInv => ReportedSuccessIsReal
    BY DEF OutcomeInv, OutcomeOK, RealOK, Done, ReportedSuccessIsReal
  <1> QED BY <1>1, OutcomeInvariant, PTL

(* finalize_provider_result acknowledges a result, and                       *)
(* prune_terminal_delivery_state forgets one, only when the backend has an   *)
(* outcome of the operation.                                                 *)
THEOREM AcknowledgedIsKnown == Spec => []AcknowledgedMeansKnown
  <1>1. OutcomeInv => AcknowledgedMeansKnown
    BY DEF OutcomeInv, OutcomeOK, KnownOK, AcknowledgedMeansKnown
  <1> QED BY <1>1, OutcomeInvariant, PTL

(* An operation with a recorded outcome is called again in one case only:    *)
(* the automatic resend of a create was scheduled while the event poll       *)
(* thread held the operation's local echo, and reconcile_local_echo closed   *)
(* it between run_once's claim and its call.                                 *)
CallAfterTerminalIsRaced ==
    live.pc = "attempted" => idem[live.op] = "open" \/ Raced(live.op)

(* run_once calls Zulip for no operation that complete() has closed, that    *)
(* race excepted: not after a re-lease, a lapsed hold or a restart either.   *)
THEOREM TerminalIsNotCalled == Spec => []CallAfterTerminalIsRaced
  <1>1. OutcomeInv => CallAfterTerminalIsRaced
    BY DEF OutcomeInv, Busy, OutcomeOK, ClosedOK, CallAfterTerminalIsRaced, Executing
  <1> QED BY <1>1, OutcomeInvariant, PTL

(* Every outcome recorded in operation_idempotency has a result that         *)
(* flush_provider_results will send, except for the create that such an echo *)
(* finds back in the queue: complete() closes its idempotency row and leaves *)
(* the pending row, behind which the lane has moved on.                      *)
OutcomeHasResultOrRaced ==
    \A o \in Ops : idem[o] \in Terminal /\ state[o] # "absent"
        => result[o].outcome # "none" \/ (state[o] = "pending" /\ Raced(o))

(* complete() and enqueue() leave no closed operation without a result to    *)
(* report, that create excepted.                                             *)
THEOREM OutcomesHaveResults == Spec => []OutcomeHasResultOrRaced
  <1>1. OutcomeInv => OutcomeHasResultOrRaced
    BY DEF OutcomeInv, OutcomeOK, ClosedOK, OutcomeHasResultOrRaced
  <1> QED BY <1>1, OutcomeInvariant, PTL

-----------------------------------------------------------------------------
(* Retries. *)

(* record_provider_attempt stores the evidence before the call, and nothing  *)
(* takes it back: what may have reached Zulip has evidence.                  *)
EvidenceOK(o) ==
    /\ SentCopies(o) > 0 => attempt[o].evidence /\ state[o] # "absent"
    /\ live.op = o =>
         /\ live.pc = "attempted" => attempt[o].evidence /\ state[o] # "absent"
         /\ live.pc = "claimed" => state[o] = "running" \/ attempt[o].evidence

EvidenceInv == \A o \in Ops : IsCreate(o) => EvidenceOK(o)

LEMMA EvidenceStays ==
    ASSUME TypeOK, [Next]_vars, NEW p \in Ops, attempt[p].evidence
    PROVE  attempt'[p].evidence
  <1>1. attempt \in [Ops -> AttemptRecord]
    BY DEF TypeOK
  <1>2. CASE attempt' = attempt \/ attempt' = ReapedAttempt
    BY <1>1, <1>2 DEF ReapedAttempt, AttemptRecord
  <1>3. ASSUME NEW o \in Ops, NEW n,
               \/ attempt' = [attempt EXCEPT ![o].checks = n]
               \/ attempt' = [attempt EXCEPT ![o].resends = n]
        PROVE  attempt'[p].evidence
    BY <1>1, <1>3 DEF AttemptRecord
  <1>4. ASSUME NEW o \in Ops,
               attempt' = [attempt EXCEPT ![o].evidence =
                             @ \/ (IsCreate(o) /\ state[o] = "running")]
        PROVE  attempt'[p].evidence
    BY <1>1, <1>4 DEF AttemptRecord
  <1> QED BY <1>2, <1>3, <1>4, AttemptSteps

(* Only the call itself sends a create. *)
LEMMA SentByApply ==
    ASSUME TypeInv, [Next]_vars, NEW p \in Ops, IsCreate(p)
    PROVE  SentCopies(p)' = SentCopies(p) \/ Apply(p)
  <1> USE DEF TypeInv
  <1>1. Quiet => SentCopies(p)' = SentCopies(p)
    BY DEF Quiet
  <1>2. zulip' = zulip => SentCopies(p)' = SentCopies(p)
    BY SameCopies
  <1>3. ASSUME NEW o \in Ops, LiveRun(o)
        PROVE  SentCopies(p)' = SentCopies(p) \/ Apply(p)
    <2>1. CASE Apply(o)
      <3>1. zulip \in [Ops -> ZulipRecord]
        BY DEF TypeOK
      <3>2. zulip' = zulip \/ \E z : zulip' = [zulip EXCEPT ![o] = z]
        BY <2>1 DEF Apply, SendSucceeds, SendAmbiguous, SendRetryable, SendRefused
      <3>3. p # o => SentCopies(p)' = SentCopies(p)
        BY <3>1, <3>2 DEF SentCopies
      <3> QED BY <2>1, <3>3
    <2>2. CASE ~ Apply(o)
      <3>1. CASE \/ CompleteTerminal(o) \/ ExpireClaimed(o) \/ CompleteCommitted(o)
                 \/ CompleteRejected(o) \/ MarkUncertain(o)
        BY <1>1, <3>1, FinishQuiet, CheckQuiet
      <3>2. CASE \/ ClaimTerminal(o) \/ Claim(o) \/ RecordProviderAttempt(o) \/ Retry(o)
                 \/ \E answer \in {"retryable", "permanent", "auth"} : PrepareFails(o, answer)
        BY <1>2, <3>2 DEF ClaimTerminal, Claim, RecordProviderAttempt, Retry, PrepareFails,
           worldVars
      <3> QED BY <1>3, <2>2, <3>1, <3>2 DEF LiveRun
    <2> QED BY <2>1, <2>2
  <1>4. ASSUME NEW o \in Ops, LiveReconcile(o)
        PROVE  SentCopies(p)' = SentCopies(p)
    <2>1. CASE \/ CompleteMatched(o) \/ ReconcileMessage(o) \/ DeferUncertain(o)
               \/ ScheduleReconciliationCheck(o) \/ RequireManualReconciliation(o)
      BY <1>1, <2>1, FinishQuiet, CheckQuiet
    <2>2. CASE ClaimUncertain(o) \/ ScheduleSingleResend(o)
      BY <1>2, <2>2 DEF ClaimUncertain, ScheduleSingleResend, worldVars
    <2> QED BY <1>4, <2>1, <2>2 DEF LiveReconcile
  <1>5. ASSUME NEW o \in Ops, LivePoll(o) \/ LiveFlush(o) \/ Echo(o) \/ World(o)
        PROVE  SentCopies(p)' = SentCopies(p)
    BY <1>1, <1>5, PollQuiet, FlushQuiet, EchoQuiet, WorldQuiet
  <1>6. ReapOnly => SentCopies(p)' = SentCopies(p)
    BY <1>2 DEF ReapOnly, worldVars
  <1> QED BY <1>1, <1>3, <1>4, <1>5, <1>6, RestQuiet DEF Next

(* Where a row may come from, step by step. *)
LEMMA StateSteps ==
    ASSUME TypeInv, [Next]_vars, NEW p \in Ops, IsCreate(p), state'[p] # state[p]
    PROVE  \/ live.pc = "idle" /\ (state'[p] = ReapedState[p] \/ state'[p] = "running")
           \/ EchoComplete(p) /\ state'[p] \in Terminal
           \/ live' = Idle /\ state'[p] \in Terminal \cup {"uncertain"}
           \/ live' = Idle /\ state[p] = "absent" /\ state'[p] = "pending"
           \/ Retry(p) \/ ScheduleSingleResend(p)
  <1> USE DEF TypeInv
  <1>0. state \in [Ops -> States] /\ ReapedState \in [Ops -> States]
    BY ReapType DEF TypeOK
  <1>1. ASSUME NEW o \in Ops, LivePoll(o) \/ LiveFlush(o)
        PROVE  live' = Idle /\ state[p] = "absent" /\ state'[p] = "pending"
    <2>1. CASE Enqueue(o)
      BY <1>0, <2>1 DEF Enqueue, EndPoll
    <2>2. CASE ~ Enqueue(o)
      BY <1>1, <2>2 DEF LivePoll, PollProviderOperations, BindProviderLease,
         EnqueueKnown, RejectLease, LiveFlush, FlushProviderResults,
         FinalizeProviderResult, rowVars
    <2> QED BY <2>1, <2>2
  <1>2. ASSUME NEW o \in Ops,
               ClaimTerminal(o) \/ Claim(o) \/ ClaimUncertain(o)
        PROVE  live.pc = "idle" /\ (state'[p] = ReapedState[p] \/ state'[p] = "running")
    BY <1>0, <1>2 DEF ClaimTerminal, Claim, ClaimUncertain, ReapAndHold
  <1>3. ASSUME NEW o \in Ops,
               \/ CompleteTerminal(o) \/ ExpireClaimed(o) \/ CompleteCommitted(o)
               \/ CompleteRejected(o) \/ CompleteMatched(o)
        PROVE  live' = Idle /\ state'[p] \in Terminal
    <2>1. live' = Idle
      BY <1>3 DEF CompleteTerminal, ExpireClaimed, CompleteCommitted, CompleteRejected,
         CompleteMatched
    <2>2. \E outcome \in Terminal : \E lease : Complete(o, outcome, lease)
      <3>1. CASE CompleteTerminal(o)
        <4>1. (IF live.answer = "auth" THEN "rejected" ELSE live.answer) \in Terminal
          BY <3>1 DEF CompleteTerminal, ThreadsOK, Terminal
        <4> QED BY <3>1, <4>1 DEF CompleteTerminal
      <3>2. CASE ~ CompleteTerminal(o)
        BY <1>3, <3>2 DEF ExpireClaimed, CompleteCommitted, CompleteRejected,
           CompleteMatched, Terminal
      <3> QED BY <3>1, <3>2
    <2> QED BY <2>1, <2>2, CompleteState
  <1>4. ASSUME NEW o \in Ops, Echo(o)
        PROVE  EchoComplete(p) /\ state'[p] \in Terminal
    <2>1. EchoComplete(o)
      BY <1>4 DEF Echo, EchoRead, EchoIgnored, rowVars
    <2>2. Complete(o, "committed", echo.lease) /\ "committed" \in Terminal
      BY <2>1 DEF EchoComplete, Terminal
    <2>3. p = o /\ state'[p] \in Terminal
      BY <2>2, CompleteEffect, CompleteState
    <2> QED BY <2>1, <2>3
  <1>5. ASSUME NEW o \in Ops,
               \/ MarkUncertain(o) \/ RequireManualReconciliation(o)
        PROVE  live' = Idle /\ state'[p] \in Terminal \cup {"uncertain"}
    BY <1>0, <1>5 DEF MarkUncertain, RequireManualReconciliation, Terminal
  <1>6. ASSUME NEW o \in Ops, Retry(o) \/ ScheduleSingleResend(o)
        PROVE  Retry(p) \/ ScheduleSingleResend(p)
    <2>1. state' = state \/ state' = [state EXCEPT ![o] = "pending"]
      BY <1>6 DEF Retry, ScheduleSingleResend
    <2>2. p = o
      BY <1>0, <2>1
    <2> QED BY <1>6, <2>2
  <1>7. ASSUME NEW o \in Ops,
               \/ (\E answer \in {"retryable", "permanent", "auth"} : PrepareFails(o, answer))
               \/ RecordProviderAttempt(o) \/ Apply(o) \/ ReconcileMessage(o)
               \/ DeferUncertain(o) \/ ScheduleReconciliationCheck(o) \/ World(o)
               \/ PruneOperation(o) \/ CompletionRaises(o)
        PROVE  FALSE
    <2>1. state' = state \/ PruneOperation(o)
      BY <1>7 DEF PrepareFails, RecordProviderAttempt, Apply, ReconcileMessage,
         DeferUncertain, ScheduleReconciliationCheck, World, HoldLapses, LeaseExpires,
         Land, CompletionRaises, Restart, rowVars
    <2>2. CASE PruneOperation(o)
      BY <1>0, <2>2 DEF PruneOperation, IsCreate
    <2> QED BY <2>1, <2>2
  <1>8. CASE ReapOnly
    BY <1>8 DEF ReapOnly
  <1>9. ~ (Crash \/ ApplyAccount \/ (\E l \in Lanes : ApplyAssignment(l)) \/ UNCHANGED vars)
    BY DEF Crash, Restart, ApplyAccount, ApplyAssignment, vars, rowVars
  <1> QED BY <1>1, <1>2, <1>3, <1>4, <1>5, <1>6, <1>7, <1>8, <1>9
          DEF Next, LiveRun, LiveReconcile

(* What the live thread does to its own operation. *)
LEMMA AttemptedSteps ==
    ASSUME TypeOK, [Next]_vars, NEW p \in Ops, live'.op = p, live' # live
    PROVE  /\ live'.pc = "attempted" => RecordProviderAttempt(p)
           /\ live'.pc = "claimed" => Claim(p)
  <1>1. live \in LiveThread /\ None \notin Ops
    BY ConstantsAssumption DEF TypeOK
  <1>2. ASSUME NEW o \in Ops, RecordProviderAttempt(o) \/ Claim(o)
        PROVE  /\ live'.pc = "attempted" => RecordProviderAttempt(p)
               /\ live'.pc = "claimed" => Claim(p)
    <2>1. CASE RecordProviderAttempt(o)
      <3>1. live'.op = o /\ live'.pc = "attempted"
        BY <1>1, <2>1 DEF RecordProviderAttempt, LiveThread
      <3> QED BY <2>1, <3>1
    <2>2. CASE Claim(o)
      <3>1. live'.op = o /\ live'.pc = "claimed"
        BY <2>2 DEF Claim, Idle
      <3> QED BY <2>2, <3>1
    <2> QED BY <1>2, <2>1, <2>2
  <1>3. ASSUME NEW o \in Ops, LivePoll(o) \/ LiveFlush(o)
        PROVE  live'.pc \notin {"attempted", "claimed"}
    <2>1. CASE LivePoll(o)
      <3>1. live' = Idle \/ live' = [Idle EXCEPT !.pc = "leased", !.op = o]
        BY <2>1 DEF LivePoll, PollProviderOperations, BindProviderLease, Enqueue,
           EnqueueKnown, RejectLease, EndPoll
      <3>2. CASE live' = Idle
        BY <3>2, IdleFields
      <3>3. CASE live' = [Idle EXCEPT !.pc = "leased", !.op = o]
        BY <3>3 DEF Idle
      <3> QED BY <3>1, <3>2, <3>3
    <2>2. CASE FinalizeProviderResult(o)
      BY <2>2 DEF FinalizeProviderResult, Idle
    <2>3. CASE FlushProviderResults(o)
      <3>1. PICK status \in ResultStatuses(o, result[o].lease) :
              live' = [Idle EXCEPT !.pc = "reported", !.op = o, !.answer = status,
                                   !.lease = result[o].lease]
        BY <2>3 DEF FlushProviderResults
      <3>2. live'.pc = "reported"
        BY <3>1 DEF Idle
      <3> QED BY <3>2
    <2> QED BY <1>3, <2>1, <2>2, <2>3 DEF LiveFlush
  <1>4. ASSUME NEW o \in Ops, ClaimTerminal(o) \/ ClaimUncertain(o)
        PROVE  live'.pc \notin {"attempted", "claimed"}
    BY <1>4 DEF ClaimTerminal, ClaimUncertain, Idle
  <1>5. ASSUME NEW o \in Ops,
               \/ Apply(o) \/ ReconcileMessage(o)
               \/ \E answer \in {"retryable", "permanent", "auth"} : PrepareFails(o, answer)
        PROVE  live'.pc \notin {"attempted", "claimed"}
    BY <1>1, <1>5 DEF PrepareFails, Apply, ReconcileMessage, SendSucceeds, SendAmbiguous,
       SendRetryable, SendRefused, Answer, LiveThread
  <1>6. ASSUME NEW o \in Ops,
               \/ CompleteTerminal(o) \/ ExpireClaimed(o) \/ CompleteCommitted(o)
               \/ MarkUncertain(o) \/ Retry(o) \/ CompleteRejected(o)
               \/ CompleteMatched(o) \/ DeferUncertain(o)
               \/ ScheduleReconciliationCheck(o) \/ ScheduleSingleResend(o)
               \/ RequireManualReconciliation(o) \/ CompletionRaises(o)
        PROVE  live'.pc \notin {"attempted", "claimed"}
    <2>1. live' = Idle
      BY <1>6 DEF CompleteTerminal, ExpireClaimed, CompleteCommitted, MarkUncertain, Retry,
         CompleteRejected, CompleteMatched, DeferUncertain, ScheduleReconciliationCheck,
         ScheduleSingleResend, RequireManualReconciliation, CompletionRaises, Restart
    <2> QED BY <2>1 DEF Idle
  <1>7. ~ \E o \in Ops : Echo(o) \/ World(o) \/ PruneOperation(o)
    BY DEF Echo, EchoRead, EchoIgnored, EchoComplete, World, HoldLapses, LeaseExpires,
       Land, PruneOperation, threadVars
  <1>8. CASE ReapOnly \/ ApplyAccount \/ Crash \/ (\E l \in Lanes : ApplyAssignment(l))
             \/ UNCHANGED vars
    <2>1. live' = Idle
      BY <1>8 DEF ReapOnly, ApplyAccount, Crash, Restart, ApplyAssignment, vars, threadVars
    <2> QED BY <2>1 DEF Idle
  <1> QED BY <1>2, <1>3, <1>4, <1>5, <1>6, <1>7, <1>8 DEF Next, LiveRun, LiveReconcile

LEMMA StepEvidence ==
    ASSUME TypeInv, OutcomeInv, EvidenceInv, [Next]_vars
    PROVE  EvidenceInv'
  <1> SUFFICES ASSUME NEW p \in Ops, IsCreate(p)
               PROVE  EvidenceOK(p)'
    BY DEF EvidenceInv, IsCreate
  <1>0. EvidenceOK(p) /\ OutcomeOK(p) /\ TypeOK
    BY DEF EvidenceInv, OutcomeInv, TypeInv
  <1>1. attempt[p].evidence => attempt'[p].evidence
    BY <1>0, EvidenceStays
  <1>2. state[p] # "absent" => state'[p] # "absent"
    <2> SUFFICES ASSUME state[p] # "absent", state'[p] # state[p]
                 PROVE  state'[p] # "absent"
      OBVIOUS
    <2>1. Retry(p) \/ ScheduleSingleResend(p) => state'[p] # "absent"
      BY <1>0 DEF Retry, ScheduleSingleResend, TypeOK
    <2>2. ReapedState[p] # "absent"
      BY DEF ReapedState
    <2> QED BY <2>1, <2>2, StateSteps DEF Terminal
  <1>3. SentCopies(p)' > 0 => attempt'[p].evidence /\ state'[p] # "absent"
    <2>1. CASE SentCopies(p)' = SentCopies(p)
      BY <1>0, <1>1, <1>2, <2>1 DEF EvidenceOK
    <2>2. CASE Apply(p)
      <3>1. live.op = p /\ live.pc = "attempted"
        BY <2>2 DEF Apply
      <3> QED BY <1>0, <1>1, <1>2, <3>1 DEF EvidenceOK
    <2> QED BY <2>1, <2>2, SentByApply
  <1>4. live'.op = p /\ live'.pc = "attempted" => attempt'[p].evidence /\ state'[p] # "absent"
    <2> SUFFICES ASSUME live'.op = p, live'.pc = "attempted"
                 PROVE  attempt'[p].evidence /\ state'[p] # "absent"
      OBVIOUS
    <2>1. CASE live' = live
      BY <1>0, <1>1, <1>2, <2>1 DEF EvidenceOK
    <2>2. CASE RecordProviderAttempt(p)
      <3>1. live.op = p /\ live.pc = "claimed" /\ state' = state
        BY <2>2 DEF RecordProviderAttempt
      <3>2. state[p] # "absent"
        BY <1>0, <3>1 DEF OutcomeOK, RowOK, Executing
      <3>3. CASE attempt[p].evidence
        BY <1>1, <3>1, <3>2, <3>3
      <3>4. CASE state[p] = "running"
        <4>1. attempt' = [attempt EXCEPT ![p].evidence =
                            @ \/ (IsCreate(p) /\ state[p] = "running")]
          BY <2>2 DEF RecordProviderAttempt
        <4>2. attempt'[p].evidence
          BY <1>0, <3>4, <4>1 DEF TypeOK, AttemptRecord
        <4> QED BY <3>1, <3>2, <4>2
      <3> QED BY <1>0, <3>1, <3>3, <3>4 DEF EvidenceOK
    <2> QED BY <1>0, <2>1, <2>2, AttemptedSteps
  <1>5. live'.op = p /\ live'.pc = "claimed" => state'[p] = "running" \/ attempt'[p].evidence
    <2> SUFFICES ASSUME live'.op = p, live'.pc = "claimed", ~ attempt[p].evidence
                 PROVE  state'[p] = "running"
      BY <1>1
    <2>1. CASE live' # live
      <3>1. Claim(p)
        BY <1>0, <2>1, AttemptedSteps
      <3>2. state' = [ReapedState EXCEPT ![p] = "running"]
        BY <3>1 DEF Claim, ReapAndHold
      <3>3. ReapedState \in [Ops -> States]
        BY <1>0, ReapType DEF TypeOK
      <3> QED BY <3>2, <3>3
    <2>2. CASE live' = live
      <3>1. state[p] = "running"
        BY <1>0, <2>2 DEF EvidenceOK
      <3>2. ~ EchoComplete(p)
        <4>1. ~ Done(p)
          BY <1>0 DEF EvidenceOK, SentCopies, Done, TypeOK, ZulipRecord
        <4> QED BY <1>0, <4>1 DEF EchoComplete, OutcomeOK, RealOK
      <3>3. ~ Retry(p) /\ ~ ScheduleSingleResend(p) /\ live' # Idle /\ live.pc # "idle"
        BY <2>2, IdleFields DEF Retry, ScheduleSingleResend, Checked
      <3> QED BY <3>1, <3>2, <3>3, StateSteps
    <2> QED BY <2>1, <2>2
  <1> QED BY <1>3, <1>4, <1>5 DEF EvidenceOK

(* reap_expired_running never retries blindly: a create that may have        *)
(* reached Zulip comes to be pending only when run_once processes a          *)
(* retryable answer to it (Retry), or as the single resend of                *)
(* schedule_single_resend - whatever crashes, lapses or is leased again.     *)
RetriedOnAnswerOnly ==
    [][\A o \in Ops : IsCreate(o) /\ SentCopies(o)' > 0 /\ state'[o] = "pending"
          => \/ SentCopies(o) > 0 /\ state[o] = "pending"
             \/ Retry(o) \/ ScheduleSingleResend(o)]_vars

(* Neither reap_expired_running nor a restart, a lapsed hold or a new lease  *)
(* queues such a create again.                                               *)
THEOREM RetryNeverBlind == Spec => RetriedOnAnswerOnly
  <1>1. Init => TypeInv /\ OutcomeInv /\ EvidenceInv
    <2>1. Init => EvidenceInv
      BY IdleFields DEF Init, EvidenceInv, EvidenceOK, SentCopies
    <2> QED BY <2>1, InitType, InitOutcome
  <1>2. TypeInv /\ OutcomeInv /\ EvidenceInv /\ [Next]_vars
          => (TypeInv /\ OutcomeInv /\ EvidenceInv)'
    BY StepType, StepThreads, StepOutcome, StepEvidence DEF TypeInv
  <1>3. ASSUME TypeInv, OutcomeInv, EvidenceInv, [Next]_vars
        PROVE  [\A o \in Ops : IsCreate(o) /\ SentCopies(o)' > 0 /\ state'[o] = "pending"
                  => \/ SentCopies(o) > 0 /\ state[o] = "pending"
                     \/ Retry(o) \/ ScheduleSingleResend(o)]_vars
    <2> SUFFICES ASSUME NEW p \in Ops, IsCreate(p), SentCopies(p)' > 0,
                        state'[p] = "pending", ~ Retry(p), ~ ScheduleSingleResend(p)
                 PROVE  SentCopies(p) > 0 /\ state[p] = "pending"
      OBVIOUS
    <2>0. TypeOK /\ OutcomeOK(p) /\ EvidenceOK(p)
      BY <1>3 DEF TypeInv, OutcomeInv, EvidenceInv
    <2>1. SentCopies(p)' = SentCopies(p)
      <3>1. CASE Apply(p)
        <4>1. live.op = p /\ live.pc = "attempted" /\ state' = state
          BY <3>1 DEF Apply, rowVars
        <4> QED BY <2>0, <4>1 DEF OutcomeOK, ClosedOK, Executing
      <3> QED BY <1>3, <3>1, SentByApply
    <2>2. SentCopies(p) > 0 /\ attempt[p].evidence /\ state[p] # "absent"
      BY <2>0, <2>1 DEF EvidenceOK
    <2>3. ReapedState[p] = "pending" => state[p] = "pending"
      BY <2>2 DEF ReapedState
    <2>4. state[p] = "pending"
      BY <1>3, <2>2, <2>3, StateSteps DEF Terminal
    <2> QED BY <2>2, <2>4
  <1> QED BY <1>1, <1>2, <1>3, PTL DEF Spec, RetriedOnAnswerOnly
=============================================================================
