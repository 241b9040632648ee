------------------------ MODULE OperationQueueTypes -------------------------
(***************************************************************************)
(* Type correctness of OperationQueue, for any number of operations,       *)
(* lanes, leases, faults, crashes and control-plane changes.               *)
(***************************************************************************)
EXTENDS OperationQueue, TLAPS

(* TypeOK is inductive together with two facts about the threads: the sweep  *)
(* only carries the reasons of claim_terminal, and an echo being processed   *)
(* has not been consumed.                                                    *)
ThreadsOK ==
    /\ live.pc = "terminal" => live.answer \in {"expired", "auth", "cancelled"}
    /\ echo.op # None => zulip[echo.op].echoes > 0

TypeInv == TypeOK /\ ThreadsOK

-----------------------------------------------------------------------------
(* Type correctness.                                                         *)

LEMMA IdleType == Idle \in LiveThread
  BY DEF Idle, LiveThread, PCs, Answers

(* The fields the actions read. *)
LEMMA LeaseType ==
    ASSUME TypeOK, NEW o \in Ops
    PROVE  bound \in [Ops -> BoundRecord] /\ bound[o].lease \in Nat
  BY DEF TypeOK, BoundRecord

LEMMA ResultType ==
    ASSUME TypeOK, NEW o \in Ops
    PROVE  result \in [Ops -> ResultRecord] /\ result[o] \in ResultRecord
  BY DEF TypeOK

LEMMA BackendType ==
    ASSUME TypeOK, NEW o \in Ops
    PROVE  /\ backend \in [Ops -> BackendRecord] /\ backend[o] \in BackendRecord
           /\ backend[o].lease \in Nat
  BY DEF TypeOK, BackendRecord

LEMMA GenerationType ==
    ASSUME TypeOK, NEW o \in Ops
    PROVE  assignment[Lane[o]].generation \in Nat
  BY ConstantsAssumption DEF TypeOK, AssignmentRecord

LEMMA PositionType ==
    ASSUME TypeOK, NEW o \in Ops
    PROVE  /\ seq \in [Ops -> Nat] /\ pred \in [Ops -> Ops \cup {None}]
           /\ counter \in [Lanes -> Position] /\ Lane[o] \in Lanes
           /\ counter[Lane[o]].seq \in Nat /\ counter[Lane[o]].op \in Ops \cup {None}
  BY ConstantsAssumption DEF TypeOK, Position

LEMMA FaultType ==
    ASSUME TypeOK, Fault
    PROVE  budget' \in Budget
  BY DEF TypeOK, Fault, Budget

LEMMA EndPollType ==
    ASSUME TypeOK, EndPoll
    PROVE  live' \in LiveThread /\ request' \in Ops \cup {None} /\ budget' \in Budget
  BY IdleType, FaultType DEF EndPoll, TypeOK

LEMMA ReportType ==
    ASSUME TypeOK, NEW o \in Ops, NEW lease, NEW status,
           NEW outcome \in {"succeeded", "failed", "manual"},
           ReportOutcome(o, lease, outcome, status)
    PROVE  /\ backend' \in [Ops -> BackendRecord]
           /\ status \in Answers
  <1>1. status \in Answers
    BY DEF ReportOutcome, ResultStatuses, Answers
  <1>2. backend' \in [Ops -> BackendRecord]
    BY DEF ReportOutcome, TypeOK, BackendRecord
  <1> QED BY <1>1, <1>2

(* What complete() writes is of the right type. *)
LEMMA CompleteType ==
    ASSUME TypeOK, NEW o \in Ops, NEW outcome \in Terminal, NEW lease \in Nat,
           Complete(o, outcome, lease)
    PROVE  /\ state' \in [Ops -> States]
           /\ hold' \in [Ops -> HoldStates]
           /\ result' \in [Ops -> ResultRecord]
           /\ idem' \in [Ops -> Outcomes]
           /\ lane' \in [Lanes -> Position]
           /\ mapped' \in SUBSET Entities
  <1>1. CASE state[o] \in Terminal
    BY <1>1 DEF Complete, TypeOK
  <1>2. CASE state[o] \notin Terminal
    <2>1. /\ state' \in [Ops -> States]
          /\ hold' \in [Ops -> HoldStates]
          /\ idem' \in [Ops -> Outcomes]
      BY <1>2 DEF Complete, TypeOK, States, HoldStates, Outcomes
    <2>2. result' \in [Ops -> ResultRecord]
      <3>1. result \in [Ops -> ResultRecord]
        BY DEF TypeOK
      <3> QED BY <1>2, <3>1 DEF Complete, ResultRecord
    <2>3. lane' \in [Lanes -> Position]
      <3>1. lane \in [Lanes -> Position] /\ seq[o] \in Nat
        BY DEF TypeOK
      <3> QED BY <1>2, <3>1, ConstantsAssumption DEF Complete, Position
    <2>4. mapped' \in SUBSET Entities
      <3>1. mapped \subseteq Entities /\ Entity[o] \in Entities
        BY ConstantsAssumption DEF TypeOK
      <3> QED BY <1>2, <3>1 DEF Complete, MappedAfter
    <2> QED BY <2>1, <2>2, <2>3, <2>4
  <1> QED BY <1>1, <1>2

(* The rows as the reaper leaves them, and the row that is then claimed. *)
LEMMA ReapType ==
    ASSUME TypeOK, NEW o \in Ops
    PROVE  /\ ReapedState \in [Ops -> States]
           /\ ReapedHold \in [Ops -> HoldStates]
           /\ ReapedAttempt \in [Ops -> AttemptRecord]
           /\ [ReapedState EXCEPT ![o] = "running"] \in [Ops -> States]
           /\ [ReapedHold EXCEPT ![o] = "held"] \in [Ops -> HoldStates]
  <1>1. ReapedState \in [Ops -> States]
    BY DEF ReapedState, TypeOK, States
  <1>2. ReapedHold \in [Ops -> HoldStates]
    BY DEF ReapedHold, TypeOK, HoldStates
  <1>3. ReapedAttempt \in [Ops -> AttemptRecord]
    <2>1. attempt \in [Ops -> AttemptRecord]
      BY DEF TypeOK
    <2> QED BY <2>1 DEF ReapedAttempt, AttemptRecord
  <1> QED BY <1>1, <1>2, <1>3 DEF States, HoldStates

LEMMA LiveType ==
    ASSUME TypeOK
    PROVE  live \in LiveThread /\ account.generation \in Nat
  BY DEF TypeOK, AccountRecord

LEMMA AccountFailedType ==
    ASSUME TypeOK, AccountFailed
    PROVE  account' \in AccountRecord
  <1>1. account \in AccountRecord
    BY DEF TypeOK
  <1> QED BY <1>1 DEF AccountFailed, AccountRecord

LEMMA ReleaseType ==
    ASSUME TypeOK, NEW o \in Ops, Release(o)
    PROVE  hold' \in [Ops -> HoldStates]
  BY DEF TypeOK, Release, HoldStates

LEMMA LandedType ==
    ASSUME TypeOK, NEW o \in Ops, NEW inWindow \in BOOLEAN, NEW echoed \in BOOLEAN
    PROVE  /\ Landed(o, inWindow, echoed) \in ZulipRecord
           /\ Landed(o, inWindow, echoed).flying = zulip[o].flying
           /\ Landed(o, inWindow, echoed).copies = zulip[o].copies + 1
           /\ Landed(o, inWindow, echoed).echoes >= zulip[o].echoes
  <1>1. zulip[o] \in ZulipRecord
    BY DEF TypeOK
  <1>2. /\ zulip[o].copies + 1 \in Nat
        /\ (IF echoed THEN zulip[o].echoes + 1 ELSE zulip[o].echoes) \in Nat
    BY <1>1 DEF ZulipRecord
  <1>3. (zulip[o].visible \/ inWindow) \in BOOLEAN
    OBVIOUS
  <1>4. Landed(o, inWindow, echoed) \in ZulipRecord
    BY <1>1, <1>2, <1>3 DEF Landed, ZulipRecord
  <1>5. /\ Landed(o, inWindow, echoed).flying = zulip[o].flying
        /\ Landed(o, inWindow, echoed).copies = zulip[o].copies + 1
        /\ Landed(o, inWindow, echoed).echoes >= zulip[o].echoes
    BY <1>1 DEF Landed, ZulipRecord
  <1> QED BY <1>4, <1>5

LEMMA LandType ==
    ASSUME TypeOK, NEW o \in Ops, Land(o)
    PROVE  zulip' \in [Ops -> ZulipRecord]
  <1>1. PICK inWindow \in BOOLEAN, echoed \in BOOLEAN :
          zulip' = [zulip EXCEPT ![o] = [Landed(o, inWindow, echoed) EXCEPT
                                           !.flying = zulip[o].flying - 1]]
    BY DEF Land, WindowChoices, EchoChoices
  <1>2. zulip \in [Ops -> ZulipRecord] /\ zulip[o].flying - 1 \in Nat
    BY DEF TypeOK, ZulipRecord, Land
  <1>3. [Landed(o, inWindow, echoed) EXCEPT !.flying = zulip[o].flying - 1]
          \in ZulipRecord
    BY <1>2, LandedType DEF ZulipRecord
  <1> QED BY <1>1, <1>2, <1>3

LEMMA AnswerType ==
    ASSUME TypeOK, NEW answer \in Answers, Answer(answer)
    PROVE  live' \in LiveThread
  BY LiveType DEF Answer, LiveThread, PCs

LEMMA SendType ==
    ASSUME TypeOK, NEW o \in Ops, Apply(o)
    PROVE  zulip' \in [Ops -> ZulipRecord] /\ live' \in LiveThread /\ budget' \in Budget
  <1>0. zulip \in [Ops -> ZulipRecord] /\ budget \in Budget
    BY DEF TypeOK
  <1>1. CASE SendSucceeds(o)
    <2>1. PICK inWindow \in BOOLEAN, echoed \in BOOLEAN :
            zulip' = [zulip EXCEPT ![o] = Landed(o, inWindow, echoed)]
      BY <1>1 DEF SendSucceeds, WindowChoices, EchoChoices
    <2> QED BY <1>0, <1>1, <2>1, LandedType, AnswerType DEF SendSucceeds, Answers
  <1>2. CASE SendAmbiguous(o)
    <2>1. zulip' \in [Ops -> ZulipRecord]
      BY <1>0, <1>2 DEF SendAmbiguous, ZulipRecord
    <2> QED BY <1>0, <1>2, <2>1, AnswerType DEF SendAmbiguous, Answers
  <1>3. CASE SendRetryable(o)
    <2>1. zulip' \in [Ops -> ZulipRecord]
      BY <1>0, <1>3 DEF SendRetryable, ZulipRecord
    <2> QED BY <1>3, <2>1, AnswerType, FaultType DEF SendRetryable, Answers
  <1>4. CASE SendRefused(o)
    BY <1>0, <1>4, AnswerType DEF SendRefused, Answers
  <1> QED BY <1>1, <1>2, <1>3, <1>4 DEF Apply

LEMMA FlushedType ==
    ASSUME TypeOK, NEW o \in Ops, FlushProviderResults(o)
    PROVE  live' \in LiveThread /\ budget' \in Budget
  <1>1. PICK status \in ResultStatuses(o, result[o].lease) :
          \/ /\ live' = [Idle EXCEPT !.pc = "reported", !.op = o, !.answer = status,
                                     !.lease = result[o].lease]
             /\ UNCHANGED budget
          \/ Fault /\ UNCHANGED live
    BY DEF FlushProviderResults
  <1>2. status \in Answers /\ result[o].lease \in Nat
    BY ResultType DEF ResultStatuses, Answers, ResultRecord
  <1>3. [Idle EXCEPT !.pc = "reported", !.op = o, !.answer = status,
                     !.lease = result[o].lease] \in LiveThread
    BY <1>2 DEF Idle, LiveThread, PCs
  <1> QED BY <1>1, <1>3, FaultType DEF TypeOK

LEMMA ManualResultType ==
    ASSUME TypeOK, NEW o \in Ops, RequireManualReconciliation(o)
    PROVE  result' \in [Ops -> ResultRecord]
  <1>1. result \in [Ops -> ResultRecord] /\ bound[o].lease \in Nat
    BY LeaseType, ResultType
  <1>2. [result[o] EXCEPT !.outcome = "manual", !.lease = bound[o].lease,
                          !.sent = FALSE, !.manual = TRUE] \in ResultRecord
    BY <1>1 DEF ResultRecord
  <1> QED BY <1>1, <1>2 DEF RequireManualReconciliation

LEMMA FinalResultType ==
    ASSUME TypeOK, NEW o \in Ops, FinalizeProviderResult(o)
    PROVE  result' \in [Ops -> ResultRecord]
  <1>1. result \in [Ops -> ResultRecord]
    BY DEF TypeOK
  <1>2. /\ (live.answer = "stale_lease") \in BOOLEAN
        /\ (result[o].manual \/ live.answer = "rejected") \in BOOLEAN
    OBVIOUS
  <1>3. [result[o] EXCEPT !.sent = TRUE, !.stale = live.answer = "stale_lease",
                          !.manual = result[o].manual \/ live.answer = "rejected"]
          \in ResultRecord
    BY <1>1, <1>2 DEF ResultRecord
  <1> QED BY <1>1, <1>3 DEF FinalizeProviderResult

(* The lease poll preserves the types. *)
LEMMA PollType ==
    ASSUME TypeOK, ThreadsOK, NEW o \in Ops, LivePoll(o)
    PROVE  TypeOK'
  <1>1. CASE PollProviderOperations(o)
    <2>1. UNCHANGED <<state, bound, hold, attempt, result, idem, seq, pred,
                      counter, lane, mapped, account, assignment, echo, zulip>>
      BY <1>1 DEF PollProviderOperations, rowVars, laneVars, desiredVars
    <2>2. backend' \in [Ops -> BackendRecord]
      <3>1. backend \in [Ops -> BackendRecord] /\ NextLease(backend[o].lease) \in Nat
        BY BackendType DEF NextLease
      <3> QED BY <1>1, <3>1 DEF PollProviderOperations, BackendRecord
    <2>3. /\ live' \in LiveThread
          /\ request' \in Ops \cup {None}
          /\ budget' \in Budget
      BY <1>1, IdleType, FaultType
         DEF PollProviderOperations, TypeOK, LiveThread, PCs
    <2> QED BY <2>1, <2>2, <2>3 DEF TypeOK
  <1>2. CASE BindProviderLease(o)
    <2>1. UNCHANGED <<state, hold, attempt, idem, seq, pred, counter, lane, mapped,
                      account, assignment, echo, zulip, backend>>
      BY <1>2 DEF BindProviderLease, laneVars, desiredVars
    <2>2. bound' \in [Ops -> BoundRecord]
      BY <1>2, BackendType, LeaseType DEF BindProviderLease, BoundRecord
    <2>3. result' \in [Ops -> ResultRecord]
      <3>1. result \in [Ops -> ResultRecord] /\ backend[o].lease \in Nat
        BY BackendType, ResultType
      <3>2. [result[o] EXCEPT !.lease = backend[o].lease, !.sent = FALSE,
                              !.stale = FALSE] \in ResultRecord
        BY <3>1 DEF ResultRecord
      <3> QED BY <1>2, <3>1, <3>2 DEF BindProviderLease
    <2>4. /\ live' \in LiveThread
          /\ request' \in Ops \cup {None}
          /\ budget' \in Budget
      BY <1>2, EndPollType DEF BindProviderLease
    <2> QED BY <2>1, <2>2, <2>3, <2>4 DEF TypeOK
  <1>3. CASE Enqueue(o)
    <2>1. UNCHANGED <<hold, attempt, result, lane, mapped, account, assignment,
                      echo, zulip, backend>>
      BY <1>3 DEF Enqueue, desiredVars
    <2>2. /\ state' \in [Ops -> States]
          /\ idem' \in [Ops -> Outcomes]
      BY <1>3 DEF Enqueue, TypeOK, States, Outcomes
    <2>3. bound' \in [Ops -> BoundRecord]
      BY <1>3, BackendType, LeaseType, GenerationType
         DEF Enqueue, BoundRecord, EntityIdNow
    <2>4. /\ seq' \in [Ops -> Nat]
          /\ pred' \in [Ops -> Ops \cup {None}]
      BY <1>3, PositionType DEF Enqueue
    <2>5. counter' \in [Lanes -> Position]
      BY <1>3, PositionType DEF Enqueue, Position
    <2>6. /\ live' \in LiveThread
          /\ request' \in Ops \cup {None}
          /\ budget' \in Budget
      BY <1>3, EndPollType DEF Enqueue
    <2> QED BY <2>1, <2>2, <2>3, <2>4, <2>5, <2>6 DEF TypeOK
  <1>4. CASE EnqueueKnown(o)
    <2>1. UNCHANGED <<state, bound, hold, attempt, result, idem, seq, pred,
                      counter, lane, mapped, account, assignment, echo, zulip,
                      backend>>
      BY <1>4 DEF EnqueueKnown, rowVars, laneVars, desiredVars
    <2>2. /\ live' \in LiveThread
          /\ request' \in Ops \cup {None}
          /\ budget' \in Budget
      BY <1>4, EndPollType DEF EnqueueKnown
    <2> QED BY <2>1, <2>2 DEF TypeOK
  <1>5. CASE RejectLease(o)
    <2>1. UNCHANGED <<state, bound, hold, attempt, result, idem, seq, pred,
                      counter, lane, mapped, account, assignment, echo, zulip>>
      BY <1>5 DEF RejectLease, rowVars, laneVars, desiredVars
    <2>2. backend' \in [Ops -> BackendRecord]
      BY <1>5, ReportType DEF RejectLease, TypeOK
    <2>3. /\ live' \in LiveThread
          /\ request' \in Ops \cup {None}
          /\ budget' \in Budget
      BY <1>5, EndPollType, IdleType, FaultType DEF RejectLease, TypeOK
    <2> QED BY <2>1, <2>2, <2>3 DEF TypeOK
  <1> QED BY <1>1, <1>2, <1>3, <1>4, <1>5 DEF LivePoll

(* run_once preserves the types. *)
LEMMA RunType ==
    ASSUME TypeOK, ThreadsOK, NEW o \in Ops, LiveRun(o)
    PROVE  TypeOK'
  <1>1. CASE ClaimTerminal(o)
    <2>1. UNCHANGED <<bound, result, idem, seq, pred, counter, lane, mapped,
                      account, assignment, echo, request, zulip, backend, budget>>
      BY <1>1 DEF ClaimTerminal, laneVars, desiredVars, worldVars
    <2>2. /\ state' \in [Ops -> States]
          /\ hold' \in [Ops -> HoldStates]
          /\ attempt' \in [Ops -> AttemptRecord]
      BY <1>1, ReapType DEF ClaimTerminal, ReapAndHold
    <2>3. live' \in LiveThread
      BY <1>1 DEF ClaimTerminal, Idle, LiveThread, PCs, Answers, TerminalReason
    <2> QED BY <2>1, <2>2, <2>3 DEF TypeOK
  <1>2. CASE CompleteTerminal(o)
    <2>1. UNCHANGED <<bound, attempt, seq, pred, counter, account, assignment,
                      echo, request, zulip, backend, budget>>
      BY <1>2 DEF CompleteTerminal, desiredVars, worldVars
    <2>2. /\ state' \in [Ops -> States]
          /\ hold' \in [Ops -> HoldStates]
          /\ result' \in [Ops -> ResultRecord]
          /\ idem' \in [Ops -> Outcomes]
          /\ lane' \in [Lanes -> Position]
          /\ mapped' \in SUBSET Entities
      BY <1>2, CompleteType, LeaseType DEF CompleteTerminal, ThreadsOK, Terminal
    <2>3. live' \in LiveThread
      BY <1>2, IdleType DEF CompleteTerminal
    <2> QED BY <2>1, <2>2, <2>3 DEF TypeOK
  <1>3. CASE Claim(o)
    <2>1. UNCHANGED <<bound, result, idem, seq, pred, counter, lane, mapped,
                      account, assignment, echo, request, zulip, backend, budget>>
      BY <1>3 DEF Claim, laneVars, desiredVars, worldVars
    <2>2. /\ state' \in [Ops -> States]
          /\ hold' \in [Ops -> HoldStates]
          /\ attempt' \in [Ops -> AttemptRecord]
      BY <1>3, ReapType DEF Claim, ReapAndHold
    <2>3. live' \in LiveThread
      BY <1>3 DEF Claim, Idle, LiveThread, PCs, Answers
    <2> QED BY <2>1, <2>2, <2>3 DEF TypeOK
  <1>4. CASE ExpireClaimed(o)
    <2>1. UNCHANGED <<bound, attempt, seq, pred, counter, account, assignment,
                      echo, request, zulip, backend, budget>>
      BY <1>4 DEF ExpireClaimed, desiredVars, worldVars
    <2>2. /\ state' \in [Ops -> States]
          /\ hold' \in [Ops -> HoldStates]
          /\ result' \in [Ops -> ResultRecord]
          /\ idem' \in [Ops -> Outcomes]
          /\ lane' \in [Lanes -> Position]
          /\ mapped' \in SUBSET Entities
      BY <1>4, CompleteType, LeaseType DEF ExpireClaimed, Terminal
    <2>3. live' \in LiveThread
      BY <1>4, IdleType DEF ExpireClaimed
    <2> QED BY <2>1, <2>2, <2>3 DEF TypeOK
  <1>5. CASE \E answer \in {"retryable", "permanent", "auth"} : PrepareFails(o, answer)
    <2>1. UNCHANGED <<state, bound, hold, attempt, result, idem, seq, pred,
                      counter, lane, mapped, account, assignment, echo, request,
                      zulip, backend>>
      BY <1>5 DEF PrepareFails, rowVars, laneVars, desiredVars
    <2>2. live' \in LiveThread
      BY <1>5, LiveType DEF PrepareFails, LiveThread, PCs, Answers
    <2>3. budget' \in Budget
      BY <1>5, FaultType DEF PrepareFails, TypeOK
    <2> QED BY <2>1, <2>2, <2>3 DEF TypeOK
  <1>6. CASE RecordProviderAttempt(o)
    <2>1. UNCHANGED <<state, bound, hold, result, idem, seq, pred, counter, lane,
                      mapped, account, assignment, echo, request, zulip, backend,
                      budget>>
      BY <1>6 DEF RecordProviderAttempt, laneVars, desiredVars
    <2>2. attempt' \in [Ops -> AttemptRecord]
      <3>1. attempt \in [Ops -> AttemptRecord]
        BY DEF TypeOK
      <3> QED BY <1>6, <3>1 DEF RecordProviderAttempt, AttemptRecord
    <2>3. live' \in LiveThread
      BY <1>6, LiveType DEF RecordProviderAttempt, LiveThread, PCs
    <2> QED BY <2>1, <2>2, <2>3 DEF TypeOK
  <1>7. CASE Apply(o)
    <2>1. UNCHANGED <<state, bound, hold, attempt, result, idem, seq, pred,
                      counter, lane, mapped, account, assignment, echo, request,
                      backend>>
      BY <1>7 DEF Apply, rowVars, laneVars, desiredVars
    <2>2. /\ zulip' \in [Ops -> ZulipRecord]
          /\ live' \in LiveThread
          /\ budget' \in Budget
      BY <1>7, SendType DEF Apply
    <2> QED BY <2>1, <2>2 DEF TypeOK
  <1>8. CASE CompleteCommitted(o)
    <2>1. UNCHANGED <<bound, attempt, seq, pred, counter, account, assignment,
                      echo, request, zulip, backend, budget>>
      BY <1>8 DEF CompleteCommitted, desiredVars, worldVars
    <2>2. /\ state' \in [Ops -> States]
          /\ hold' \in [Ops -> HoldStates]
          /\ result' \in [Ops -> ResultRecord]
          /\ idem' \in [Ops -> Outcomes]
          /\ lane' \in [Lanes -> Position]
          /\ mapped' \in SUBSET Entities
      BY <1>8, CompleteType, LeaseType DEF CompleteCommitted, Terminal
    <2>3. live' \in LiveThread
      BY <1>8, IdleType DEF CompleteCommitted
    <2> QED BY <2>1, <2>2, <2>3 DEF TypeOK
  <1>9. CASE MarkUncertain(o)
    <2>1. UNCHANGED <<bound, result, idem, seq, pred, counter, lane, mapped,
                      account, assignment, echo, request, zulip, backend, budget>>
      BY <1>9 DEF MarkUncertain, laneVars, desiredVars, worldVars
    <2>2. /\ state' \in [Ops -> States]
          /\ hold' \in [Ops -> HoldStates]
      BY <1>9 DEF MarkUncertain, TypeOK, States, HoldStates
    <2>3. attempt' \in [Ops -> AttemptRecord]
      <3>1. attempt \in [Ops -> AttemptRecord]
        BY DEF TypeOK
      <3> QED BY <1>9, <3>1 DEF MarkUncertain, AttemptRecord
    <2>4. live' \in LiveThread
      BY <1>9, IdleType DEF MarkUncertain
    <2> QED BY <2>1, <2>2, <2>3, <2>4 DEF TypeOK
  <1>10. CASE Retry(o)
    <2>1. UNCHANGED <<bound, attempt, result, idem, seq, pred, counter, lane,
                      mapped, assignment, echo, request, zulip, backend, budget>>
      BY <1>10 DEF Retry, laneVars, worldVars
    <2>2. /\ state' \in [Ops -> States]
          /\ hold' \in [Ops -> HoldStates]
      BY <1>10 DEF Retry, TypeOK, States, HoldStates
    <2>3. account' \in AccountRecord
      BY <1>10, AccountFailedType DEF Retry
    <2>4. live' \in LiveThread
      BY <1>10, IdleType DEF Retry
    <2> QED BY <2>1, <2>2, <2>3, <2>4 DEF TypeOK
  <1>11. CASE CompleteRejected(o)
    <2>1. UNCHANGED <<bound, attempt, seq, pred, counter, assignment, echo,
                      request, zulip, backend, budget>>
      BY <1>11 DEF CompleteRejected, worldVars
    <2>2. /\ state' \in [Ops -> States]
          /\ hold' \in [Ops -> HoldStates]
          /\ result' \in [Ops -> ResultRecord]
          /\ idem' \in [Ops -> Outcomes]
          /\ lane' \in [Lanes -> Position]
          /\ mapped' \in SUBSET Entities
      BY <1>11, CompleteType, LeaseType DEF CompleteRejected, Terminal
    <2>3. live' \in LiveThread
      BY <1>11, IdleType DEF CompleteRejected
    <2>4. account' \in AccountRecord
      BY <1>11, AccountFailedType DEF CompleteRejected
    <2> QED BY <2>1, <2>2, <2>3, <2>4 DEF TypeOK
  <1> QED BY <1>1, <1>2, <1>3, <1>4, <1>5, <1>6, <1>7, <1>8, <1>9, <1>10, <1>11 DEF LiveRun

(* reconcile_once preserves the types. *)
LEMMA ReconcileType ==
    ASSUME TypeOK, ThreadsOK, NEW o \in Ops, LiveReconcile(o)
    PROVE  TypeOK'
  <1>1. CASE ClaimUncertain(o)
    <2>1. UNCHANGED <<bound, result, idem, seq, pred, counter, lane, mapped,
                      account, assignment, echo, request, zulip, backend, budget>>
      BY <1>1 DEF ClaimUncertain, laneVars, desiredVars, worldVars
    <2>2. /\ state' \in [Ops -> States]
          /\ hold' \in [Ops -> HoldStates]
          /\ attempt' \in [Ops -> AttemptRecord]
      BY <1>1, ReapType DEF ClaimUncertain, HoldStates
    <2>3. live' \in LiveThread
      BY <1>1 DEF ClaimUncertain, Idle, LiveThread, PCs, Answers
    <2> QED BY <2>1, <2>2, <2>3 DEF TypeOK
  <1>2. CASE ReconcileMessage(o)
    <2>1. UNCHANGED <<state, bound, hold, attempt, result, idem, seq, pred,
                      counter, lane, mapped, account, assignment, echo, request,
                      zulip, backend>>
      BY <1>2 DEF ReconcileMessage, rowVars, laneVars, desiredVars
    <2>2. live' \in LiveThread
      BY <1>2, LiveType DEF ReconcileMessage, LiveThread, PCs, Answers
    <2>3. budget' \in Budget
      BY <1>2, FaultType DEF ReconcileMessage, TypeOK
    <2> QED BY <2>1, <2>2, <2>3 DEF TypeOK
  <1>3. CASE CompleteMatched(o)
    <2>1. UNCHANGED <<bound, attempt, seq, pred, counter, account, assignment,
                      echo, request, zulip, backend, budget>>
      BY <1>3 DEF CompleteMatched, desiredVars, worldVars
    <2>2. /\ state' \in [Ops -> States]
          /\ hold' \in [Ops -> HoldStates]
          /\ result' \in [Ops -> ResultRecord]
          /\ idem' \in [Ops -> Outcomes]
          /\ lane' \in [Lanes -> Position]
          /\ mapped' \in SUBSET Entities
      BY <1>3, CompleteType, LeaseType DEF CompleteMatched, Terminal
    <2>3. live' \in LiveThread
      BY <1>3, IdleType DEF CompleteMatched
    <2> QED BY <2>1, <2>2, <2>3 DEF TypeOK
  <1>4. CASE DeferUncertain(o)
    <2>1. UNCHANGED <<state, bound, attempt, result, idem, seq, pred, counter,
                      lane, mapped, assignment, echo, request, zulip, backend,
                      budget>>
      BY <1>4 DEF DeferUncertain, laneVars, worldVars
    <2>2. account' \in AccountRecord
      BY <1>4, AccountFailedType DEF DeferUncertain
    <2>3. hold' \in [Ops -> HoldStates]
      BY <1>4, ReleaseType DEF DeferUncertain
    <2>4. live' \in LiveThread
      BY <1>4, IdleType DEF DeferUncertain
    <2> QED BY <2>1, <2>2, <2>3, <2>4 DEF TypeOK
  <1>5. CASE ScheduleReconciliationCheck(o)
    <2>1. UNCHANGED <<state, bound, result, idem, seq, pred, counter, lane, mapped,
                      account, assignment, echo, request, zulip, backend, budget>>
      BY <1>5 DEF ScheduleReconciliationCheck, laneVars, desiredVars, worldVars
    <2>2. attempt' \in [Ops -> AttemptRecord]
      <3>1. attempt \in [Ops -> AttemptRecord]
        BY DEF TypeOK
      <3> QED BY <1>5, <3>1 DEF ScheduleReconciliationCheck, AttemptRecord
    <2>3. hold' \in [Ops -> HoldStates]
      BY <1>5, ReleaseType DEF ScheduleReconciliationCheck
    <2>4. live' \in LiveThread
      BY <1>5, IdleType DEF ScheduleReconciliationCheck
    <2> QED BY <2>1, <2>2, <2>3, <2>4 DEF TypeOK
  <1>6. CASE ScheduleSingleResend(o)
    <2>1. UNCHANGED <<bound, result, idem, seq, pred, counter, lane, mapped,
                      account, assignment, echo, request, zulip, backend, budget>>
      BY <1>6 DEF ScheduleSingleResend, laneVars, desiredVars, worldVars
    <2>2. state' \in [Ops -> States]
      BY <1>6 DEF ScheduleSingleResend, TypeOK, States
    <2>3. attempt' \in [Ops -> AttemptRecord]
      <3>1. attempt \in [Ops -> AttemptRecord]
        BY DEF TypeOK
      <3> QED BY <1>6, <3>1 DEF ScheduleSingleResend, AttemptRecord
    <2>4. hold' \in [Ops -> HoldStates]
      BY <1>6, ReleaseType DEF ScheduleSingleResend
    <2>5. live' \in LiveThread
      BY <1>6, IdleType DEF ScheduleSingleResend
    <2> QED BY <2>1, <2>2, <2>3, <2>4, <2>5 DEF TypeOK
  <1>7. CASE RequireManualReconciliation(o)
    <2>1. UNCHANGED <<bound, attempt, seq, pred, counter, lane, mapped, account,
                      assignment, echo, request, zulip, backend, budget>>
      BY <1>7 DEF RequireManualReconciliation, laneVars, desiredVars, worldVars
    <2>2. /\ state' \in [Ops -> States]
          /\ idem' \in [Ops -> Outcomes]
      BY <1>7 DEF RequireManualReconciliation, TypeOK, States, Outcomes, Terminal
    <2>3. result' \in [Ops -> ResultRecord]
      BY <1>7, ManualResultType
    <2>4. hold' \in [Ops -> HoldStates]
      BY <1>7, ReleaseType DEF RequireManualReconciliation
    <2>5. live' \in LiveThread
      BY <1>7, IdleType DEF RequireManualReconciliation
    <2> QED BY <2>1, <2>2, <2>3, <2>4, <2>5 DEF TypeOK
  <1> QED BY <1>1, <1>2, <1>3, <1>4, <1>5, <1>6, <1>7 DEF LiveReconcile

(* The result flush preserves the types. *)
LEMMA FlushType ==
    ASSUME TypeOK, ThreadsOK, NEW o \in Ops, LiveFlush(o)
    PROVE  TypeOK'
  <1>1. CASE FlushProviderResults(o)
    <2>1. UNCHANGED <<state, bound, hold, attempt, result, idem, seq, pred,
                      counter, lane, mapped, account, assignment, echo, request,
                      zulip>>
      BY <1>1 DEF FlushProviderResults, rowVars, laneVars, desiredVars
    <2>2. backend' \in [Ops -> BackendRecord]
      BY <1>1, ReportType DEF FlushProviderResults, BackendOutcome
    <2>3. /\ live' \in LiveThread
          /\ budget' \in Budget
      BY <1>1, FlushedType DEF FlushProviderResults
    <2> QED BY <2>1, <2>2, <2>3 DEF TypeOK
  <1>2. CASE FinalizeProviderResult(o)
    <2>1. UNCHANGED <<state, bound, hold, attempt, idem, seq, pred, counter, lane,
                      mapped, account, assignment, echo, request, zulip, backend,
                      budget>>
      BY <1>2 DEF FinalizeProviderResult, laneVars, desiredVars, worldVars
    <2>2. result' \in [Ops -> ResultRecord]
      BY <1>2, FinalResultType
    <2>3. live' \in LiveThread
      BY <1>2, IdleType DEF FinalizeProviderResult
    <2> QED BY <2>1, <2>2, <2>3 DEF TypeOK
  <1> QED BY <1>1, <1>2 DEF LiveFlush

(* The local echo preserves the types. *)
LEMMA EchoType ==
    ASSUME TypeOK, ThreadsOK, NEW o \in Ops, Echo(o)
    PROVE  TypeOK'
  <1>1. CASE EchoRead(o)
    <2>1. UNCHANGED <<state, bound, hold, attempt, result, idem, seq, pred,
                      counter, lane, mapped, account, assignment, live, request,
                      zulip, backend, budget>>
      BY <1>1 DEF EchoRead, rowVars, laneVars, desiredVars, worldVars
    <2>2. echo' \in EchoThread
      BY <1>1, LeaseType DEF EchoRead, EchoThread
    <2> QED BY <2>1, <2>2 DEF TypeOK
  <1>2. CASE EchoIgnored(o)
    <2>1. UNCHANGED <<state, bound, hold, attempt, result, idem, seq, pred,
                      counter, lane, mapped, account, assignment, live, echo,
                      request, backend, budget>>
      BY <1>2 DEF EchoIgnored, rowVars, laneVars, desiredVars, threadVars
    <2>2. zulip' \in [Ops -> ZulipRecord]
      <3>1. zulip \in [Ops -> ZulipRecord]
        BY DEF TypeOK
      <3> QED BY <1>2, <3>1 DEF EchoIgnored, ZulipRecord
    <2> QED BY <2>1, <2>2 DEF TypeOK
  <1>3. CASE EchoComplete(o)
    <2>1. UNCHANGED <<bound, attempt, seq, pred, counter, account, assignment,
                      live, request, backend, budget>>
      BY <1>3 DEF EchoComplete, desiredVars
    <2>2. /\ state' \in [Ops -> States]
          /\ hold' \in [Ops -> HoldStates]
          /\ result' \in [Ops -> ResultRecord]
          /\ idem' \in [Ops -> Outcomes]
          /\ lane' \in [Lanes -> Position]
          /\ mapped' \in SUBSET Entities
      <3>1. echo.lease \in Nat
        BY DEF TypeOK, EchoThread
      <3> QED BY <1>3, <3>1, CompleteType DEF EchoComplete, Terminal
    <2>3. zulip' \in [Ops -> ZulipRecord]
      <3>1. zulip \in [Ops -> ZulipRecord] /\ zulip[o].echoes > 0
        BY <1>3, ConstantsAssumption DEF TypeOK, ThreadsOK, EchoComplete
      <3> QED BY <1>3, <3>1 DEF EchoComplete, ZulipRecord
    <2>4. echo' \in EchoThread
      BY <1>3 DEF EchoComplete, NoEcho, EchoThread
    <2> QED BY <2>1, <2>2, <2>3, <2>4 DEF TypeOK
  <1> QED BY <1>1, <1>2, <1>3 DEF Echo

(* So do clocks, late sends and expiring leases. *)
LEMMA WorldType ==
    ASSUME TypeOK, ThreadsOK, NEW o \in Ops, World(o)
    PROVE  TypeOK'
  <1>1. CASE HoldLapses(o)
    <2>1. UNCHANGED <<state, bound, attempt, result, idem, seq, pred, counter,
                      lane, mapped, account, assignment, live, echo, request,
                      zulip, backend, budget>>
      BY <1>1 DEF HoldLapses, laneVars, desiredVars, threadVars, worldVars
    <2>2. hold' \in [Ops -> HoldStates]
      BY <1>1 DEF HoldLapses, TypeOK, HoldStates
    <2> QED BY <2>1, <2>2 DEF TypeOK
  <1>2. CASE LeaseExpires(o)
    <2>1. UNCHANGED <<state, bound, hold, attempt, result, idem, seq, pred,
                      counter, lane, mapped, account, assignment, live, echo,
                      request, zulip, budget>>
      BY <1>2 DEF LeaseExpires, rowVars, laneVars, desiredVars, threadVars
    <2>2. backend' \in [Ops -> BackendRecord]
      <3>1. backend \in [Ops -> BackendRecord]
        BY DEF TypeOK
      <3> QED BY <1>2, <3>1 DEF LeaseExpires, BackendRecord
    <2> QED BY <2>1, <2>2 DEF TypeOK
  <1>3. CASE Land(o)
    <2>1. UNCHANGED <<state, bound, hold, attempt, result, idem, seq, pred,
                      counter, lane, mapped, account, assignment, live, echo,
                      request, backend, budget>>
      BY <1>3 DEF Land, rowVars, laneVars, desiredVars, threadVars
    <2>2. zulip' \in [Ops -> ZulipRecord]
      BY <1>3, LandType DEF Land
    <2> QED BY <2>1, <2>2 DEF TypeOK
  <1> QED BY <1>1, <1>2, <1>3 DEF World

LEMMA RestartType ==
    ASSUME TypeOK, Restart, budget' \in Budget
    PROVE  TypeOK'
  <1>1. live' \in LiveThread /\ echo' \in EchoThread /\ request' \in Ops \cup {None}
    BY IdleType DEF Restart, NoEcho, EchoThread
  <1>2. UNCHANGED <<state, bound, hold, attempt, result, idem, seq, pred, counter,
                    lane, mapped, account, assignment, zulip, backend>>
    BY DEF Restart, rowVars, laneVars, desiredVars
  <1> QED BY <1>1, <1>2 DEF TypeOK

(* Every step preserves the types. *)
LEMMA StepType ==
    ASSUME TypeOK, ThreadsOK, [Next]_vars
    PROVE  TypeOK'
  <1>1. ASSUME NEW o \in Ops,
               LivePoll(o) \/ LiveRun(o) \/ LiveReconcile(o) \/ LiveFlush(o)
               \/ Echo(o) \/ World(o)
        PROVE  TypeOK'
    BY <1>1, PollType, RunType, ReconcileType, FlushType, EchoType, WorldType
  <1>2. ASSUME NEW o \in Ops, PruneOperation(o)
        PROVE  TypeOK'
    <2>1. state' \in [Ops -> States]
      BY <1>2 DEF PruneOperation, TypeOK, States
    <2>2. UNCHANGED <<bound, hold, attempt, result, idem, seq, pred, counter, lane,
                      mapped, account, assignment, live, echo, request, zulip,
                      backend, budget>>
      BY <1>2 DEF PruneOperation, laneVars, desiredVars, threadVars, worldVars
    <2> QED BY <2>1, <2>2 DEF TypeOK
  <1>3. ASSUME NEW o \in Ops, CompletionRaises(o)
        PROVE  TypeOK'
    BY <1>3, RestartType DEF CompletionRaises, TypeOK
  <1>4. CASE Crash
    <2>1. budget' \in Budget
      BY <1>4 DEF Crash, TypeOK, Budget
    <2> QED BY <1>4, <2>1, RestartType DEF Crash
  <1>5. CASE ReapOnly
    <2>1. state' \in [Ops -> States] /\ hold' \in [Ops -> HoldStates]
          /\ attempt' \in [Ops -> AttemptRecord]
      BY <1>5, ReapType DEF ReapOnly
    <2>2. UNCHANGED <<bound, result, idem, seq, pred, counter, lane, mapped, account,
                      assignment, live, echo, request, zulip, backend, budget>>
      BY <1>5 DEF ReapOnly, laneVars, desiredVars, threadVars, worldVars
    <2> QED BY <2>1, <2>2 DEF TypeOK
  <1>6. ASSUME NEW l \in Lanes, ApplyAssignment(l)
        PROVE  TypeOK'
    <2>1. assignment' \in [Lanes -> AssignmentRecord]
      <3>1. assignment \in [Lanes -> AssignmentRecord]
        BY DEF TypeOK
      <3> QED BY <1>6, <3>1 DEF ApplyAssignment, AssignmentRecord
    <2>2. budget' \in Budget
      BY <1>6 DEF ApplyAssignment, TypeOK, Budget
    <2>3. UNCHANGED <<state, bound, hold, attempt, result, idem, seq, pred, counter,
                      lane, mapped, account, live, echo, request, zulip, backend>>
      BY <1>6 DEF ApplyAssignment, rowVars, laneVars, threadVars
    <2> QED BY <2>1, <2>2, <2>3 DEF TypeOK
  <1>7. CASE ApplyAccount
    <2>1. account' \in AccountRecord
      <3>1. account \in AccountRecord
        BY DEF TypeOK
      <3> QED BY <1>7, <3>1 DEF ApplyAccount, AccountRecord
    <2>2. budget' \in Budget
      BY <1>7 DEF ApplyAccount, TypeOK, Budget
    <2>3. UNCHANGED <<state, bound, hold, attempt, result, idem, seq, pred, counter,
                      lane, mapped, assignment, live, echo, request, zulip, backend>>
      BY <1>7 DEF ApplyAccount, rowVars, laneVars, threadVars
    <2> QED BY <2>1, <2>2, <2>3 DEF TypeOK
  <1>8. CASE UNCHANGED vars
    BY <1>8 DEF TypeOK, vars, rowVars, laneVars, desiredVars, threadVars, worldVars
  <1> QED BY <1>1, <1>2, <1>3, <1>4, <1>5, <1>6, <1>7, <1>8 DEF Next

(* ThreadsOK is about the reason the sweep carries and the echo in progress: *)
(* most steps leave both alone.                                              *)
Calm ==
    /\ live'.pc # "terminal" \/ live' = live
    /\ echo' = echo \/ echo' = NoEcho
    /\ \A o \in Ops : zulip'[o].echoes = zulip[o].echoes

LEMMA CalmThreads ==
    ASSUME TypeOK, ThreadsOK, Calm
    PROVE  ThreadsOK'
  BY DEF TypeOK, ThreadsOK, Calm, NoEcho, EchoThread

LEMMA CalmAnswer ==
    ASSUME TypeOK, UNCHANGED <<echo, zulip>>,
           \/ live' = Idle
           \/ live' = live
           \/ \E pc \in PCs \ {"terminal"} : \E op, answer, lease :
                live' = [Idle EXCEPT !.pc = pc, !.op = op, !.answer = answer,
                                     !.lease = lease]
           \/ \E pc \in PCs \ {"terminal"} : \E op :
                live' = [Idle EXCEPT !.pc = pc, !.op = op]
    PROVE  Calm
  <1>1. live' = live \/ live'.pc # "terminal"
    <2>1. CASE live' = Idle
      BY <2>1 DEF Idle
    <2>2. ASSUME NEW pc \in PCs \ {"terminal"}, NEW op, NEW answer, NEW lease,
                 live' = [Idle EXCEPT !.pc = pc, !.op = op, !.answer = answer,
                                      !.lease = lease]
          PROVE  live'.pc # "terminal"
      BY <2>2 DEF Idle
    <2>3. ASSUME NEW pc \in PCs \ {"terminal"}, NEW op,
                 live' = [Idle EXCEPT !.pc = pc, !.op = op]
          PROVE  live'.pc # "terminal"
      BY <2>3 DEF Idle
    <2> QED BY <2>1, <2>2, <2>3
  <1> QED BY <1>1 DEF Calm

LEMMA StepThreads ==
    ASSUME TypeOK, ThreadsOK, [Next]_vars
    PROVE  ThreadsOK'
  <1>1. ASSUME NEW o \in Ops, LivePoll(o)
        PROVE  Calm
    <2>1. CASE PollProviderOperations(o)
      BY <2>1, CalmAnswer DEF PollProviderOperations, PCs
    <2>2. CASE BindProviderLease(o)
      BY <2>2, CalmAnswer DEF BindProviderLease, EndPoll
    <2>3. CASE Enqueue(o)
      BY <2>3, CalmAnswer DEF Enqueue, EndPoll
    <2>4. CASE EnqueueKnown(o)
      BY <2>4, CalmAnswer DEF EnqueueKnown, EndPoll
    <2>5. CASE RejectLease(o)
      BY <2>5, CalmAnswer DEF RejectLease, EndPoll
    <2> QED BY <1>1, <2>1, <2>2, <2>3, <2>4, <2>5 DEF LivePoll
  <1>2. ASSUME NEW o \in Ops, LiveRun(o)
        PROVE  ThreadsOK'
    <2>1. CASE ClaimTerminal(o)
      <3>1. /\ live'.answer \in {"expired", "auth", "cancelled"}
            /\ UNCHANGED <<echo, zulip>>
        BY <2>1 DEF ClaimTerminal, TerminalReason, Idle, worldVars
      <3> QED BY <3>1 DEF ThreadsOK
    <2>2. CASE Apply(o)
      <3>1. live'.pc = "answered" /\ echo' = echo
        BY <2>2 DEF Apply, SendSucceeds, SendAmbiguous, SendRetryable, SendRefused,
           Answer, TypeOK, LiveThread
      <3>2. \A p \in Ops : zulip'[p].echoes >= zulip[p].echoes
        <4>0. zulip \in [Ops -> ZulipRecord]
          BY DEF TypeOK
        <4>1. CASE SendSucceeds(o)
          <5>1. PICK inWindow \in BOOLEAN, echoed \in BOOLEAN :
                  zulip' = [zulip EXCEPT ![o] = Landed(o, inWindow, echoed)]
            BY <4>1 DEF SendSucceeds, WindowChoices, EchoChoices
          <5> QED BY <4>0, <5>1, LandedType DEF ZulipRecord
        <4>2. CASE SendAmbiguous(o)
          BY <4>0, <4>2 DEF SendAmbiguous, ZulipRecord
        <4>3. CASE SendRetryable(o)
          BY <4>0, <4>3 DEF SendRetryable, ZulipRecord
        <4>4. CASE SendRefused(o)
          BY <4>0, <4>4 DEF SendRefused, ZulipRecord
        <4> QED BY <2>2, <4>1, <4>2, <4>3, <4>4 DEF Apply
      <3>3. \A p \in Ops : zulip[p].echoes \in Nat /\ zulip'[p].echoes \in Nat
        BY <1>2, RunType DEF TypeOK, ZulipRecord
      <3> QED BY <3>1, <3>2, <3>3 DEF ThreadsOK, TypeOK, EchoThread
    <2>3. CASE \/ CompleteTerminal(o) \/ Claim(o) \/ ExpireClaimed(o)
               \/ CompleteCommitted(o) \/ MarkUncertain(o) \/ Retry(o)
               \/ CompleteRejected(o)
      <3>1. UNCHANGED <<echo, zulip>>
        BY <2>3 DEF CompleteTerminal, Claim, ExpireClaimed, CompleteCommitted,
           MarkUncertain, Retry, CompleteRejected, worldVars
      <3>2. live' = Idle \/ live' = [Idle EXCEPT !.pc = "claimed", !.op = o]
        BY <2>3 DEF CompleteTerminal, Claim, ExpireClaimed, CompleteCommitted,
           MarkUncertain, Retry, CompleteRejected
      <3> QED BY <3>1, <3>2, CalmAnswer, CalmThreads DEF PCs
    <2>4. CASE \/ RecordProviderAttempt(o)
               \/ \E answer \in {"retryable", "permanent", "auth"} :
                    PrepareFails(o, answer)
      <3>1. live'.pc \in {"attempted", "answered"} /\ UNCHANGED <<echo, zulip>>
        BY <2>4 DEF RecordProviderAttempt, PrepareFails, TypeOK, LiveThread
      <3> QED BY <3>1, CalmThreads DEF Calm
    <2> QED BY <1>2, <2>1, <2>2, <2>3, <2>4 DEF LiveRun
  <1>3. ASSUME NEW o \in Ops, LiveReconcile(o)
        PROVE  Calm
    <2>1. UNCHANGED <<echo, zulip>>
      BY <1>3 DEF LiveReconcile, ClaimUncertain, ReconcileMessage, CompleteMatched,
         DeferUncertain, ScheduleReconciliationCheck, ScheduleSingleResend,
         RequireManualReconciliation, worldVars
    <2>2. CASE ReconcileMessage(o)
      <3>1. live'.pc = "checked"
        BY <2>2 DEF ReconcileMessage, TypeOK, LiveThread
      <3> QED BY <2>1, <3>1 DEF Calm
    <2>3. CASE ~ ReconcileMessage(o)
      <3>1. live' = Idle \/ live' = [Idle EXCEPT !.pc = "reconciling", !.op = o]
        BY <1>3, <2>3 DEF LiveReconcile, ClaimUncertain, CompleteMatched, DeferUncertain,
           ScheduleReconciliationCheck, ScheduleSingleResend,
           RequireManualReconciliation
      <3> QED BY <2>1, <3>1, CalmAnswer DEF PCs
    <2> QED BY <2>2, <2>3
  <1>4. ASSUME NEW o \in Ops, LiveFlush(o)
        PROVE  Calm
    <2>1. CASE FlushProviderResults(o)
      <3>1. \/ live' = live
            \/ \E op, answer, lease :
                 live' = [Idle EXCEPT !.pc = "reported", !.op = op, !.answer = answer,
                                      !.lease = lease]
        BY <2>1 DEF FlushProviderResults
      <3>2. UNCHANGED <<echo, zulip>> /\ "reported" \in PCs \ {"terminal"}
        BY <2>1 DEF FlushProviderResults, PCs
      <3> QED BY <3>1, <3>2, CalmAnswer
    <2>2. CASE FinalizeProviderResult(o)
      BY <2>2, CalmAnswer DEF FinalizeProviderResult, worldVars
    <2> QED BY <1>4, <2>1, <2>2 DEF LiveFlush
  <1>5. ASSUME NEW o \in Ops, Echo(o)
        PROVE  ThreadsOK'
    <2>1. live' = live
      BY <1>5 DEF Echo, EchoRead, EchoIgnored, EchoComplete, threadVars
    <2>2. CASE EchoRead(o)
      BY <2>1, <2>2 DEF EchoRead, ThreadsOK, worldVars
    <2>3. CASE EchoIgnored(o)
      BY <2>1, <2>3 DEF EchoIgnored, ThreadsOK, threadVars
    <2>4. CASE EchoComplete(o)
      BY <2>1, <2>4 DEF EchoComplete, ThreadsOK, NoEcho
    <2> QED BY <1>5, <2>2, <2>3, <2>4 DEF Echo
  <1>6. ASSUME NEW o \in Ops, World(o)
        PROVE  ThreadsOK'
    <2>1. CASE HoldLapses(o) \/ LeaseExpires(o)
      BY <2>1, CalmThreads DEF Calm, HoldLapses, LeaseExpires, threadVars, worldVars
    <2>2. CASE Land(o)
      <3>0. zulip \in [Ops -> ZulipRecord]
        BY DEF TypeOK
      <3>1. PICK inWindow \in BOOLEAN, echoed \in BOOLEAN :
              zulip' = [zulip EXCEPT ![o] = [Landed(o, inWindow, echoed) EXCEPT
                                               !.flying = zulip[o].flying - 1]]
        BY <2>2 DEF Land, WindowChoices, EchoChoices
      <3>2. [Landed(o, inWindow, echoed) EXCEPT !.flying = zulip[o].flying - 1].echoes
              >= zulip[o].echoes
        BY LandedType DEF ZulipRecord
      <3>3. \A p \in Ops : zulip[p].echoes \in Nat /\ zulip'[p].echoes \in Nat
        BY <1>6, WorldType DEF TypeOK, ZulipRecord
      <3>4. \A p \in Ops : zulip'[p].echoes >= zulip[p].echoes
        BY <3>0, <3>1, <3>2, <3>3
      <3> QED BY <2>2, <3>3, <3>4 DEF Land, ThreadsOK, TypeOK, EchoThread, threadVars
    <2> QED BY <1>6, <2>1, <2>2 DEF World
  <1>7. ASSUME NEW o \in Ops, PruneOperation(o) \/ CompletionRaises(o)
        PROVE  Calm
    BY <1>7 DEF Calm, PruneOperation, CompletionRaises, Restart, Idle, threadVars,
       worldVars
  <1>8. CASE ReapOnly \/ ApplyAccount \/ Crash \/ \E l \in Lanes : ApplyAssignment(l)
    BY <1>8, CalmThreads DEF Calm, ReapOnly, ApplyAccount, Crash, ApplyAssignment,
       Restart, Idle, threadVars, worldVars
  <1>9. CASE UNCHANGED vars
    BY <1>9, CalmThreads DEF Calm, vars, threadVars, worldVars
  <1> QED BY <1>1, <1>2, <1>3, <1>4, <1>5, <1>6, <1>7, <1>8, <1>9, CalmThreads DEF Next

LEMMA InitType == Init => TypeInv
  <1> SUFFICES ASSUME Init PROVE TypeInv
    OBVIOUS
  <1>1. /\ state \in [Ops -> States] /\ hold \in [Ops -> HoldStates]
        /\ idem \in [Ops -> Outcomes]
        /\ seq \in [Ops -> Nat] /\ pred \in [Ops -> Ops \cup {None}]
        /\ mapped \in SUBSET Entities
    BY DEF Init, States, HoldStates, Outcomes
  <1>2. /\ bound \in [Ops -> BoundRecord] /\ attempt \in [Ops -> AttemptRecord]
        /\ result \in [Ops -> ResultRecord]
    BY DEF Init, BoundRecord, AttemptRecord, ResultRecord
  <1>3. /\ counter \in [Lanes -> Position] /\ lane \in [Lanes -> Position]
        /\ account \in AccountRecord /\ assignment \in [Lanes -> AssignmentRecord]
    BY DEF Init, Position, AccountRecord, AssignmentRecord
  <1>4. /\ live \in LiveThread /\ echo \in EchoThread /\ request \in Ops \cup {None}
    BY IdleType DEF Init, NoEcho, EchoThread
  <1>5. /\ zulip \in [Ops -> ZulipRecord] /\ backend \in [Ops -> BackendRecord]
        /\ budget \in Budget
    BY ConstantsAssumption DEF Init, ZulipRecord, BackendRecord, Budget
  <1>6. ThreadsOK
    BY DEF Init, ThreadsOK, Idle, NoEcho
  <1> QED BY <1>1, <1>2, <1>3, <1>4, <1>5, <1>6 DEF TypeInv, TypeOK

(* The types hold in every reachable state: what every handler of the live   *)
(* lane, the event poll and the control plane reads and writes is of the     *)
(* shape its table has, whatever the interleaving.                           *)
THEOREM TypeCorrect == Spec => []TypeOK
  <1>1. Init => TypeInv
    BY InitType
  <1>2. TypeInv /\ [Next]_vars => TypeInv'
    BY StepType, StepThreads DEF TypeInv
  <1>3. TypeInv => TypeOK
    BY DEF TypeInv
  <1> QED BY <1>1, <1>2, <1>3, PTL DEF Spec

=============================================================================
