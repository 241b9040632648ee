------------------------- MODULE EventIntakeProofs -------------------------
(***************************************************************************)
(* The cursor of an account never passes an event that is not in the       *)
(* journal, whatever the order of polls, lost queues, account changes and  *)
(* restarts; a recovery takes no message for deleted that is older than    *)
(* one it was shown, and leaves out none between two that it was shown;    *)
(* and a chat is left out of the catalog only when the scan that follows a *)
(* loss is interrupted.                                                    *)
(***************************************************************************)
EXTENDS EventIntake, NumberLemmas, FiniteSetTheorems, TLAPS

(* The part of the state that the argument is about. *)
Poll == [pc: PollSteps, queue: Nat, last: Nat, scanned: Nat, generation: Nat,
         scan: BOOLEAN, recovering: BOOLEAN, catalog: SUBSET Chats, upto: Nat]

IntakeTypes ==
    /\ log \in Seq(Event)
    /\ born \in Seq(Nat)
    /\ account \in Nat
    /\ cursor \in Cursor
    /\ poll \in Poll

(* Every event of the queue up to n is in the journal. *)
Passed(queue, n) ==
    /\ queue \in 1 .. Len(born)
    /\ \A e \in Nat : born[queue] < e /\ e <= n => <<queue, e>> \in recorded

HasQueue == {"registered", "persisted", "scan", "catalog", "events", "polled",
             "deliver", "recorded", "bad"}

(* The thread's own copy of the cursor is as good as the row, so writing it  *)
(* back keeps the row good; between the two transactions of one event the    *)
(* next event is in the journal as well.                                     *)
IntakeInv ==
    /\ IntakeTypes
    /\ cursor.queue # 0 => Passed(cursor.queue, cursor.last)
    /\ poll.queue # 0 => Passed(poll.queue, poll.last)
    /\ poll.pc \in HasQueue => poll.queue # 0
    /\ poll.pc = "recorded" => <<poll.queue, poll.last + 1>> \in recorded

-----------------------------------------------------------------------------
(* NoCursor and PollIdle are states of the row and of the thread. *)
LEMMA Blank ==
    /\ NoCursor \in Cursor /\ NoCursor.queue = 0
    /\ PollIdle \in Poll /\ PollIdle.queue = 0 /\ PollIdle.pc = "idle"
    /\ PollIdle.pc \notin HasQueue
BY DEF NoCursor, PollIdle, Cursor, Poll, PollSteps, HasQueue

(* The log and the account's initial state are well formed. *)
LEMMA SeedLogType == SeedLog \in Seq(Event)
<1>0. Seeded \in Seq(Chats)
  BY IntakeAssumption
<1>1. Len(Seeded) \in Nat
  BY <1>0
<1>2. ASSUME NEW i \in 1 .. Len(Seeded)
      PROVE  [type |-> "message", chat |-> Seeded[i], id |-> i] \in Event
  <2>1. Seeded[i] \in Chats /\ i \in Nat
    BY <1>0
  <2>. QED
    BY <2>1 DEF Event
<1>. QED
  BY <1>1, <1>2 DEF SeedLog

LEMMA IntakeInit == Init => IntakeInv
<1>. SUFFICES ASSUME Init PROVE IntakeInv
  OBVIOUS
<1>1. IntakeTypes
  BY SeedLogType, Blank DEF Init, IntakeTypes
<1>. QED
  BY <1>1, Blank DEF Init, IntakeInv

(* A step that leaves queues, journal, row and thread alone. *)
LEMMA IntakeUnchanged ==
    ASSUME IntakeInv, UNCHANGED <<born, recorded, cursor, poll>>,
           log' \in Seq(Event), account' \in Nat
    PROVE  IntakeInv'
BY DEF IntakeInv, IntakeTypes, Passed

(* The upsert keeps the row good when the thread's copy is good. *)
LEMMA UpdateCursorGood ==
    ASSUME IntakeInv, born' = born, recorded' = recorded,
           NEW queue \in Nat, NEW n \in Nat, NEW realm \in BOOLEAN,
           NEW generation \in Nat, Passed(queue, n),
           UpdateCursor(queue, n, realm, generation)
    PROVE  /\ cursor' \in Cursor
           /\ (cursor.queue # 0 => Passed(cursor.queue, cursor.last))'
<1>. DEFINE last == IF cursor.queue = queue /\ cursor.last > n THEN cursor.last ELSE n
            verified == realm \/ cursor.realm
            gen == IF generation = 0 THEN cursor.generation ELSE generation
<1>0. /\ cursor.queue \in Nat /\ cursor.last \in Nat /\ cursor.realm \in BOOLEAN
      /\ cursor.generation \in Nat /\ cursor.scanned \in Nat
  BY DEF IntakeInv, IntakeTypes, Cursor
<1>1. cursor' = [queue |-> queue, last |-> last, realm |-> verified,
                 generation |-> gen, scanned |-> cursor.scanned]
  BY DEF UpdateCursor
<1>2. verified \in BOOLEAN
  BY <1>0
<1>3. last \in Nat /\ gen \in Nat
  BY <1>0
<1>4. queue # 0
  <2>1. born \in Seq(Nat)
    BY DEF IntakeInv, IntakeTypes
  <2>. QED
    BY <2>1 DEF Passed
<1>5. Passed(queue, last)
  <2>1. cursor.queue = queue => Passed(queue, cursor.last)
    BY <1>4 DEF IntakeInv
  <2>2. last = n \/ (last = cursor.last /\ cursor.queue = queue)
    OBVIOUS
  <2>. QED
    BY <2>1, <2>2
<1>. HIDE DEF last, verified, gen
<1>6. cursor' \in Cursor
  BY <1>0, <1>1, <1>2, <1>3 DEF Cursor
<1>7. cursor'.queue = queue /\ cursor'.last = last
  BY <1>1
<1>. QED
  BY <1>5, <1>6, <1>7 DEF Passed

-----------------------------------------------------------------------------
(* The steps of the poll thread. *)

(* A step that writes the thread's copy of the cursor to the row. *)
LEMMA UpdateRow ==
    ASSUME IntakeInv, UNCHANGED <<log, born, account, recorded>>,
           poll.pc \in HasQueue, NEW pc \in HasQueue \ {"recorded"},
           poll' = [poll EXCEPT !.pc = pc],
           NEW realm \in BOOLEAN, NEW generation \in Nat,
           UpdateCursor(poll.queue, poll.last, realm, generation)
    PROVE  IntakeInv'
<1>1. /\ poll \in Poll /\ poll.queue \in Nat /\ poll.last \in Nat
      /\ Passed(poll.queue, poll.last)
  BY DEF IntakeInv, IntakeTypes, Poll
<1>2. /\ cursor' \in Cursor
      /\ (cursor.queue # 0 => Passed(cursor.queue, cursor.last))'
  BY <1>1, UpdateCursorGood
<1>3. poll' \in Poll
  BY <1>1 DEF Poll, PollSteps, HasQueue
<1>4. poll'.queue = poll.queue /\ poll'.last = poll.last /\ poll'.pc = pc
  BY <1>1 DEF Poll
<1>. QED
  BY <1>1, <1>2, <1>3, <1>4 DEF IntakeInv, IntakeTypes, Passed

LEMMA PollStepKeeps == IntakeInv /\ PollStep => IntakeInv'
<1>. SUFFICES ASSUME IntakeInv, PollStep PROVE IntakeInv'
  OBVIOUS
<1>0. /\ log \in Seq(Event) /\ born \in Seq(Nat) /\ account \in Nat
      /\ cursor \in Cursor /\ poll \in Poll
      /\ poll.queue \in Nat /\ poll.last \in Nat /\ poll.generation \in Nat
      /\ cursor.queue \in Nat /\ cursor.last \in Nat /\ cursor.scanned \in Nat
  BY DEF IntakeInv, IntakeTypes, Cursor, Poll
<1>1. ASSUME ReadCursor PROVE IntakeInv'
  <2>1. ReadCursor
    BY <1>1
  <2>2. poll' \in Poll
    BY <1>0, <2>1 DEF ReadCursor, PollIdle, Poll, PollSteps
  <2>3. /\ poll'.queue = cursor.queue /\ poll'.last = cursor.last
        /\ poll'.pc \in {"invalid", "read"}
    BY <2>1 DEF ReadCursor, PollIdle
  <2>4. UNCHANGED <<log, born, account, cursor, recorded>>
    BY <2>1 DEF ReadCursor, zulipVars, journalVars
  <2>. QED
    BY <1>0, <2>2, <2>3, <2>4 DEF IntakeInv, IntakeTypes, Passed, HasQueue
<1>2. ASSUME InvalidateProviderEventCursor PROVE IntakeInv'
  <2>1. /\ poll' \in Poll /\ poll'.queue = 0 /\ poll'.pc = "read"
        /\ cursor' = NoCursor /\ UNCHANGED <<log, born, account, recorded>>
    BY <1>2 DEF InvalidateProviderEventCursor, PollIdle, Poll, PollSteps,
                zulipVars, journalVars
  <2>. QED
    BY <1>0, <2>1, Blank DEF IntakeInv, IntakeTypes, HasQueue
<1>3. ASSUME ReadAccount PROVE IntakeInv'
  <2>1. UNCHANGED <<log, born, account, cursor, recorded>>
    BY <1>3 DEF ReadAccount, zulipVars, journalVars
  <2>2. /\ poll'.queue = poll.queue /\ poll'.last = poll.last
        /\ poll'.pc \in {"register", "scan", "events"}
        /\ poll'.pc # "register" => poll.queue # 0
    BY <1>0, <1>3 DEF ReadAccount, Poll
  <2>3. (poll.queue = 0 \/ poll.scanned # account) \in BOOLEAN
    OBVIOUS
  <2>4. poll' \in Poll
    BY <1>0, <1>3, <2>3 DEF ReadAccount, Poll, PollSteps
  <2>. QED
    BY <1>0, <2>1, <2>2, <2>4 DEF IntakeInv, IntakeTypes, Passed, HasQueue
<1>4. ASSUME EnsureQueue PROVE IntakeInv'
  <2>1. /\ born' = Append(born, Len(log)) /\ Len(log) \in Nat /\ Len(born) \in Nat
        /\ UNCHANGED <<log, account, cursor, recorded>>
    BY <1>0, <1>4 DEF EnsureQueue, journalVars
  <2>2. born' \in Seq(Nat)
    BY <1>0, <2>1
  <2>3. /\ poll' \in Poll /\ poll'.pc = "registered"
        /\ poll'.queue = Len(born) + 1 /\ poll'.last = Len(log)
    <3>1. poll' = [poll EXCEPT !.pc = "registered", !.queue = Len(born) + 1,
                               !.last = Len(log)]
      BY <1>4 DEF EnsureQueue
    <3>2. Len(born) + 1 \in Nat
      BY <2>1
    <3>. QED
      BY <1>0, <2>1, <3>1, <3>2 DEF Poll, PollSteps
  <2>4. Len(born') = Len(born) + 1 /\ born'[Len(born) + 1] = Len(log)
    BY <1>0, <2>1
  <2>5. (poll.queue # 0 => Passed(poll.queue, poll.last))'
    <3>1. poll'.queue \in 1 .. Len(born')
      BY <2>1, <2>3, <2>4
    <3>2. born'[poll'.queue] = Len(log) /\ poll'.last = Len(log)
      BY <2>3, <2>4
    <3>3. \A e \in Nat : ~ (born'[poll'.queue] < e /\ e <= poll'.last)
      BY <2>1, <3>2
    <3>. QED
      BY <3>1, <3>3 DEF Passed
  <2>6. (cursor.queue # 0 => Passed(cursor.queue, cursor.last))'
    <3>1. \A i \in 1 .. Len(born) : born'[i] = born[i]
      BY <1>0, <2>1
    <3>. QED
      BY <1>0, <2>1, <2>4, <3>1 DEF IntakeInv, Passed
  <2>. QED
    BY <1>0, <2>1, <2>2, <2>3, <2>4, <2>5, <2>6 DEF IntakeInv, IntakeTypes, HasQueue
<1>5. ASSUME PersistQueue PROVE IntakeInv'
  <2>1. /\ UNCHANGED <<log, born, account, recorded>>
        /\ UpdateCursor(poll.queue, poll.last, FALSE, 0)
        /\ poll.pc = "registered" /\ poll' = [poll EXCEPT !.pc = "persisted"]
    BY <1>5 DEF PersistQueue, zulipVars, journalVars
  <2>. QED
    BY <1>0, <2>1, UpdateRow DEF HasQueue, PollSteps
<1>6. ASSUME VerifyQueue PROVE IntakeInv'
  <2>1. /\ UNCHANGED <<log, born, account, recorded>>
        /\ UpdateCursor(poll.queue, poll.last, TRUE, poll.generation)
        /\ poll.pc = "persisted" /\ poll' = [poll EXCEPT !.pc = "scan"]
    BY <1>6 DEF VerifyQueue, zulipVars, journalVars
  <2>. QED
    BY <1>0, <2>1, UpdateRow DEF HasQueue, PollSteps
<1>7. ASSUME ScanCatalog PROVE IntakeInv'
  <2>1. /\ UNCHANGED <<log, born, account, cursor, recorded>>
        /\ poll' \in Poll /\ poll'.queue = poll.queue /\ poll'.last = poll.last
        /\ poll.pc \in HasQueue /\ poll'.pc \in HasQueue \ {"recorded"}
    BY <1>0, <1>7 DEF ScanCatalog, Poll, PollSteps, HasQueue, zulipVars, journalVars
  <2>. QED
    BY <1>0, <2>1 DEF IntakeInv, IntakeTypes, Passed
<1>8. ASSUME GetEvents PROVE IntakeInv'
  <2>1. /\ UNCHANGED <<log, born, account, cursor, recorded>>
        /\ poll' \in Poll /\ poll'.queue = poll.queue /\ poll'.last = poll.last
        /\ poll.pc \in HasQueue /\ poll'.pc \in HasQueue \ {"recorded"}
    <3>1. poll.pc = "events" /\ poll' = [poll EXCEPT !.pc = "polled", !.upto = Len(log)]
      BY <1>8 DEF GetEvents
    <3>2. Len(log) \in Nat
      BY <1>0
    <3>3. UNCHANGED <<log, born, account, cursor, recorded>>
      BY <1>8 DEF GetEvents, zulipVars, journalVars
    <3>. QED
      BY <1>0, <3>1, <3>2, <3>3 DEF Poll, PollSteps, HasQueue
  <2>. QED
    BY <1>0, <2>1 DEF IntakeInv, IntakeTypes, Passed
<1>9. ASSUME QueueRejected PROVE IntakeInv'
  <2>1. /\ UNCHANGED <<log, born, account, cursor, recorded>>
        /\ poll' \in Poll /\ poll'.queue = poll.queue /\ poll'.last = poll.last
        /\ poll.pc \in HasQueue /\ poll'.pc \in HasQueue \ {"recorded"}
    BY <1>0, <1>9 DEF QueueRejected, Poll, PollSteps, HasQueue, zulipVars, journalVars
  <2>. QED
    BY <1>0, <2>1 DEF IntakeInv, IntakeTypes, Passed
<1>10. ASSUME MarkPrivateCatalogScanned PROVE IntakeInv'
  <2>1. /\ UNCHANGED <<log, born, account, recorded>>
        /\ poll' \in Poll /\ poll'.queue = poll.queue /\ poll'.last = poll.last
        /\ poll.pc \in HasQueue /\ poll'.pc \in HasQueue \ {"recorded"}
    BY <1>0, <1>10 DEF MarkPrivateCatalogScanned, Poll, PollSteps, HasQueue, zulipVars,
                       journalVars
  <2>2. /\ cursor' \in Cursor
        /\ cursor'.queue = cursor.queue /\ cursor'.last = cursor.last
    BY <1>0, <1>10 DEF MarkPrivateCatalogScanned, Cursor
  <2>. QED
    BY <1>0, <2>1, <2>2 DEF IntakeInv, IntakeTypes, Passed
<1>11. ASSUME QueueCatalog PROVE IntakeInv'
  <2>1. UNCHANGED <<log, born, account, recorded>> /\ poll.pc = "catalog"
    BY <1>11 DEF QueueCatalog, zulipVars, journalVars
  <2>2. CASE poll' = PollIdle /\ UNCHANGED cursor
    BY <1>0, <2>1, <2>2, Blank DEF IntakeInv, IntakeTypes, Passed
  <2>3. CASE poll' = [poll EXCEPT !.pc = "events"] /\ UNCHANGED cursor
    <3>1. /\ poll' \in Poll /\ poll'.queue = poll.queue /\ poll'.last = poll.last
          /\ poll'.pc = "events"
      BY <1>0, <2>3 DEF Poll, PollSteps
    <3>. QED
      BY <1>0, <2>1, <2>3, <3>1 DEF IntakeInv, IntakeTypes, Passed, HasQueue
  <2>4. CASE /\ poll' = [poll EXCEPT !.pc = "events"]
             /\ UpdateCursor(poll.queue, poll.last, TRUE, poll.generation)
    BY <1>0, <2>1, <2>4, UpdateRow DEF HasQueue
  <2>. QED
    BY <1>11, <2>2, <2>3, <2>4 DEF QueueCatalog
<1>12. ASSUME RecordProviderEvent PROVE IntakeInv'
  <2>1. /\ UNCHANGED <<log, born, account, cursor>>
        /\ recorded' = recorded \cup {<<poll.queue, poll.last + 1>>}
        /\ poll' \in Poll /\ poll'.queue = poll.queue /\ poll'.last = poll.last
        /\ poll.pc \in HasQueue /\ poll'.pc = "recorded"
    BY <1>0, <1>12 DEF RecordProviderEvent, Poll, PollSteps, HasQueue, zulipVars
  <2>. QED
    BY <1>0, <2>1 DEF IntakeInv, IntakeTypes, Passed
<1>13. ASSUME AdvanceCursor PROVE IntakeInv'
  <2>1. /\ UNCHANGED <<log, born, account, recorded>> /\ poll.pc = "recorded"
        /\ UpdateCursor(poll.queue, poll.last + 1, FALSE, 0)
        /\ poll' \in Poll /\ poll'.queue = poll.queue /\ poll'.last = poll.last + 1
        /\ poll'.pc = "deliver"
    <3>1. /\ UNCHANGED <<log, born, account, recorded>> /\ poll.pc = "recorded"
          /\ UpdateCursor(poll.queue, poll.last + 1, FALSE, 0)
          /\ poll' = [poll EXCEPT !.pc = "deliver", !.last = poll.last + 1]
      BY <1>13 DEF AdvanceCursor, zulipVars, journalVars
    <3>2. poll.last + 1 \in Nat
      BY <1>0
    <3>. QED
      BY <1>0, <3>1, <3>2 DEF Poll, PollSteps
  <2>2. Passed(poll.queue, poll.last + 1)
    <3>1. Passed(poll.queue, poll.last) /\ <<poll.queue, poll.last + 1>> \in recorded
      BY <2>1 DEF IntakeInv, HasQueue
    <3>2. \A e \in Nat : e <= poll.last + 1 => e <= poll.last \/ e = poll.last + 1
      BY <1>0
    <3>. QED
      BY <3>1, <3>2 DEF Passed
  <2>3. poll.last + 1 \in Nat
    BY <1>0
  <2>4. /\ cursor' \in Cursor
        /\ (cursor.queue # 0 => Passed(cursor.queue, cursor.last))'
    BY <1>0, <2>1, <2>2, <2>3, UpdateCursorGood
  <2>. QED
    BY <1>0, <2>1, <2>2, <2>4 DEF IntakeInv, IntakeTypes, Passed, HasQueue
<1>14. ASSUME PollEnds PROVE IntakeInv'
  <2>1. UNCHANGED <<log, born, account, cursor, recorded>> /\ poll' = PollIdle
    BY <1>14 DEF PollEnds, zulipVars, journalVars
  <2>. QED
    BY <1>0, <2>1, Blank DEF IntakeInv, IntakeTypes, Passed
<1>15. ASSUME BeginProviderQueueCatchup PROVE IntakeInv'
  <2>1. UNCHANGED <<log, born, account, cursor, recorded>>
    BY <1>15 DEF BeginProviderQueueCatchup, zulipVars, journalVars
  <2>2. CASE poll' = PollIdle
    BY <1>0, <2>1, <2>2, Blank DEF IntakeInv, IntakeTypes, Passed
  <2>3. CASE poll' = [poll EXCEPT !.pc = "register", !.recovering = TRUE]
    <3>1. /\ poll' \in Poll /\ poll'.queue = poll.queue /\ poll'.last = poll.last
          /\ poll'.pc = "register"
      BY <1>0, <2>3 DEF Poll, PollSteps
    <3>. QED
      BY <1>0, <2>1, <3>1 DEF IntakeInv, IntakeTypes, Passed, HasQueue
  <2>. QED
    BY <1>15, <2>2, <2>3 DEF BeginProviderQueueCatchup
<1>. QED
  BY <1>1, <1>2, <1>3, <1>4, <1>5, <1>6, <1>7, <1>8, <1>9, <1>10, <1>11, <1>12, <1>13,
     <1>14, <1>15 DEF PollStep

-----------------------------------------------------------------------------
(* The steps of the others: only Zulip's log, the account change and a       *)
(* restart touch the state of the argument.                                  *)

LEMMA StepKeeps == IntakeInv /\ Next => IntakeInv'
<1>. SUFFICES ASSUME IntakeInv, Next PROVE IntakeInv'
  OBVIOUS
<1>0. /\ log \in Seq(Event) /\ born \in Seq(Nat) /\ account \in Nat
      /\ cursor \in Cursor /\ poll \in Poll
  BY DEF IntakeInv, IntakeTypes
<1>1. ASSUME poll' = PollIdle, UNCHANGED <<log, born, account, cursor, recorded>>
      PROVE  IntakeInv'
  BY <1>0, <1>1, Blank DEF IntakeInv, IntakeTypes, Passed
<1>2. ASSUME UNCHANGED <<log, born, account, cursor, recorded, poll>>
      PROVE  IntakeInv'
  BY <1>0, <1>2, IntakeUnchanged
<1>3. ASSUME PollFails \/ Crash PROVE IntakeInv'
  BY <1>1, <1>3 DEF PollFails, Crash, zulipVars, journalVars
<1>4. ASSUME WorkStep PROVE IntakeInv'
  BY <1>2, <1>4 DEF WorkStep, TakeJob, FetchPage, CheckParticipants,
     EnqueueCatchupMessage, PageEnqueued, FindDeleted, DeleteMessage,
     AdvanceProviderCatchup, CatchupLimitExceeded, Advance, zulipVars, journalVars
<1>5. ASSUME FetchFails \/ RebuildHistory
             \/ \E c \in Chats : ParticipantsSynchronised(c)
      PROVE  IntakeInv'
  BY <1>2, <1>5 DEF FetchFails, RebuildHistory, ParticipantsSynchronised, zulipVars,
     journalVars
<1>6. ASSUME JournalStep PROVE IntakeInv'
  BY <1>2, <1>6 DEF JournalStep, QueueEventCatalog, ProcessEvent, zulipVars, journalVars
<1>7. ASSUME ApplyAccount PROVE IntakeInv'
  <2>1. /\ account' \in Nat /\ cursor' = NoCursor
        /\ UNCHANGED <<log, born, recorded, poll>>
    BY <1>0, <1>7 DEF ApplyAccount, zulipVars, journalVars
  <2>. QED
    BY <1>0, <2>1, Blank DEF IntakeInv, IntakeTypes, Passed
<1>8. ASSUME Zulip PROVE IntakeInv'
  <2>1. UNCHANGED <<born, recorded, cursor, poll, account>>
    BY <1>8 DEF Zulip, Post, Send, DeleteInZulip, LoseQueue, journalVars
  <2>2. log' \in Seq(Event)
    <3>1. ASSUME NEW e \in Event, log' = Append(log, e) PROVE log' \in Seq(Event)
      BY <1>0, <3>1
    <3>2. CASE UNCHANGED log
      BY <1>0, <3>2
    <3>3. ASSUME NEW c \in Chats, Post(c) \/ Send(c) PROVE log' \in Seq(Event)
      <4>1. [type |-> "message", chat |-> c, id |-> Len(log) + 1] \in Event
        BY <1>0 DEF Event
      <4>. QED
        BY <3>1, <3>3, <4>1 DEF Post, Send
    <3>4. ASSUME NEW c \in Chats, NEW i \in Existing(c), DeleteInZulip(c, i)
          PROVE  log' \in Seq(Event)
      <4>1. i \in Nat
        BY <1>0 DEF Existing, Messages
      <4>2. [type |-> "delete", chat |-> c, id |-> i] \in Event
        BY <4>1 DEF Event
      <4>. QED
        BY <3>1, <3>4, <4>2 DEF DeleteInZulip
    <3>. QED
      BY <1>8, <3>2, <3>3, <3>4 DEF Zulip, LoseQueue
  <2>. QED
    BY <1>0, <2>1, <2>2, IntakeUnchanged
<1>. QED
  BY <1>3, <1>4, <1>5, <1>6, <1>7, <1>8, PollStepKeeps DEF Next

(* The invariant is inductive. *)
LEMMA IntakeInductive == Spec => []IntakeInv
<1>1. IntakeInv /\ UNCHANGED vars => IntakeInv'
  <2>. SUFFICES ASSUME IntakeInv, UNCHANGED vars PROVE IntakeInv'
    OBVIOUS
  <2>1. UNCHANGED <<born, recorded, cursor, poll, log, account>>
    BY DEF vars, zulipVars, journalVars
  <2>2. log' \in Seq(Event) /\ account' \in Nat
    BY <2>1 DEF IntakeInv, IntakeTypes
  <2>. QED
    BY <2>1, <2>2, IntakeUnchanged
<1>. QED
  BY <1>1, IntakeInit, StepKeeps, PTL DEF Spec

(* For any number of chats, queues, losses, account changes and restarts,    *)
(* the events that the durable cursor of _poll_provider_account has passed   *)
(* are rows of the journal.                                                  *)
THEOREM CursorNeverAhead == Spec => []RecordedBeforeCursor
<1>1. IntakeInv => RecordedBeforeCursor
  <2>. SUFFICES ASSUME IntakeInv, cursor.queue # 0
                PROVE  /\ cursor.queue <= Len(born)
                       /\ \A e \in born[cursor.queue] + 1 .. cursor.last :
                            <<cursor.queue, e>> \in recorded
    BY DEF RecordedBeforeCursor
  <2>1. born \in Seq(Nat) /\ cursor.last \in Nat /\ cursor.queue \in Nat
    BY DEF IntakeInv, IntakeTypes, Cursor
  <2>2. Passed(cursor.queue, cursor.last)
    BY DEF IntakeInv
  <2>3. born[cursor.queue] \in Nat /\ cursor.queue <= Len(born)
    BY <2>1, <2>2 DEF Passed
  <2>. QED
    BY <2>1, <2>2, <2>3 DEF Passed
<1>. QED
  BY <1>1, IntakeInductive, PTL

-----------------------------------------------------------------------------
(* Types: what the threads and the rows refer to are events of the log.      *)

Ids == 1 .. Len(log)

Work == [pc: WorkSteps, chat: Chats \cup {None}, job: Job, page: SUBSET Nat,
         todo: SUBSET Nat]

Journal ==
    /\ recorded \in SUBSET (Nat \X Nat) /\ processed \subseteq recorded
    /\ \A row \in recorded : row[2] \in Ids
    /\ poll.upto <= Len(log)
    /\ poll.pc = "recorded" => poll.last < poll.upto

Logged ==
    /\ mapped \subseteq Ids /\ removed \subseteq Ids
    /\ \A i \in Ids : log[i].id \in Ids
    /\ lossAt \in Nat /\ lossAt <= Len(log)

Queued ==
    /\ job \in [Chats -> Job]
    /\ turn \in Seq(Chats)
    /\ \A c \in Chats : \E k \in 1 .. Len(turn) : turn[k] = c

Paged ==
    /\ work \in Work
    /\ work.page \subseteq Ids /\ work.todo \subseteq Ids
    /\ work.pc # "idle" => work.chat \in Chats

Scoped ==
    /\ dead \in SUBSET Nat
    /\ ready \in SUBSET Chats /\ known \in SUBSET Chats
    /\ captured \in [Chats -> Nat] /\ scope \in Nat
    /\ budget \in Budget

TypeInv == IntakeInv /\ Journal /\ Logged /\ Queued /\ Paged /\ Scoped

(* Which step changes what. *)
Starts == BeginProviderQueueCatchup
Advances == AdvanceProviderCatchup \/ CatchupLimitExceeded
Processes == \E row \in recorded : ProcessEvent(row)
Sends == \E c \in Chats : Send(c)

LEMMA PollFrame ==
    ASSUME PollStep \/ PollFails
    PROVE  /\ UNCHANGED <<log, dead, account, processed, mapped, removed, scope, work>>
           /\ Starts \/ UNCHANGED <<job, turn, ready, lossAt>>
           /\ RecordProviderEvent \/ UNCHANGED recorded
           /\ QueueCatalog \/ UNCHANGED <<known, captured>>
           /\ PollFails \/ UNCHANGED budget
BY DEF PollStep, PollFails, Starts, ReadCursor, InvalidateProviderEventCursor, ReadAccount,
   EnsureQueue, PersistQueue, VerifyQueue, ScanCatalog, QueueCatalog, GetEvents,
   MarkPrivateCatalogScanned, RecordProviderEvent, AdvanceCursor, PollEnds, QueueRejected,
   BeginProviderQueueCatchup, Assign, zulipVars, journalVars, messageVars, jobVars, historyVars

LEMMA WorkFrame ==
    ASSUME WorkStep \/ FetchFails
    PROVE  /\ UNCHANGED <<log, dead, account, recorded, processed, ready, known, captured,
                          scope, poll, lossAt>>
           /\ Advances \/ UNCHANGED <<job, turn>>
           /\ EnqueueCatchupMessage \/ DeleteMessage \/ UNCHANGED <<mapped, removed>>
           /\ FetchFails \/ UNCHANGED budget
BY DEF WorkStep, FetchFails, Advances, TakeJob, FetchPage, CheckParticipants,
   EnqueueCatchupMessage, PageEnqueued, FindDeleted, DeleteMessage, AdvanceProviderCatchup,
   CatchupLimitExceeded, Advance, zulipVars, journalVars, messageVars, jobVars, historyVars

(* The other threads, Zulip and a restart. *)
Elsewhere ==
    \/ JournalStep
    \/ \E c \in Chats : ParticipantsSynchronised(c)
    \/ ApplyAccount \/ RebuildHistory
    \/ Zulip
    \/ Crash

LEMMA OtherFrame ==
    ASSUME Elsewhere
    PROVE  /\ UNCHANGED <<recorded, job, turn, lossAt>>
           /\ Processes \/ UNCHANGED processed
           /\ Processes \/ Sends \/ UNCHANGED <<mapped, removed>>
           /\ Crash \/ UNCHANGED <<poll, work>>
           /\ Zulip \/ UNCHANGED log
           /\ Crash \/ Zulip \/ ApplyAccount \/ UNCHANGED budget
BY DEF Elsewhere, JournalStep, Processes, Sends, QueueEventCatalog, ProcessEvent,
   ParticipantsSynchronised, ApplyAccount, RebuildHistory, Zulip, Post, Send, DeleteInZulip,
   LoseQueue, Crash, zulipVars, journalVars, messageVars, jobVars, historyVars

LEMMA NextSteps == Next => PollStep \/ PollFails \/ WorkStep \/ FetchFails \/ Elsewhere
BY DEF Next, Elsewhere

(* The log only grows, by events about the messages it holds. *)
LEMMA LogGrows ==
    ASSUME TypeInv, Next
    PROVE  /\ log' \in Seq(Event) /\ Len(log) \in Nat /\ Len(log') \in Nat
           /\ Len(log) <= Len(log') /\ Ids \subseteq Ids'
           /\ \A i \in Ids : log'[i] = log[i]
           /\ \A i \in Ids' : log'[i].id \in Ids'
           /\ UNCHANGED log \/ Len(log') = Len(log) + 1
<1>0. log \in Seq(Event) /\ Len(log) \in Nat /\ \A i \in Ids : log[i].id \in Ids
  BY DEF TypeInv, IntakeInv, IntakeTypes, Logged
<1>1. CASE UNCHANGED log
  BY <1>0, <1>1 DEF Ids
<1>2. ASSUME NEW e \in Event, log' = Append(log, e), e.id \in 1 .. Len(log) + 1
      PROVE  /\ log' \in Seq(Event) /\ Len(log') \in Nat
             /\ Len(log) <= Len(log') /\ Ids \subseteq Ids'
             /\ \A i \in Ids : log'[i] = log[i]
             /\ \A i \in Ids' : log'[i].id \in Ids'
             /\ Len(log') = Len(log) + 1
  <2>1. /\ log' \in Seq(Event) /\ Len(log') = Len(log) + 1
        /\ \A i \in 1 .. Len(log) : log'[i] = log[i]
        /\ log'[Len(log) + 1] = e
    BY <1>0, <1>2
  <2>2. ASSUME NEW i \in Ids' PROVE log'[i].id \in Ids'
    <3>1. CASE i \in Ids
      <4>1. log[i].id \in 1 .. Len(log) /\ log'[i] = log[i]
        BY <1>0, <2>1, <3>1 DEF Ids
      <4>2. 1 .. Len(log) \subseteq Ids'
        BY <1>0, <2>1 DEF Ids
      <4>. QED
        BY <4>1, <4>2
    <3>2. CASE i \notin Ids
      <4>1. i = Len(log) + 1
        BY <1>0, <2>1, <3>2 DEF Ids
      <4>. QED
        BY <1>2, <2>1, <4>1 DEF Ids
    <3>. QED
      BY <3>1, <3>2
  <2>. QED
    BY <1>0, <2>1, <2>2 DEF Ids
<1>3. ASSUME NEW c \in Chats, Post(c) \/ Send(c)
      PROVE  \E e \in Event : log' = Append(log, e) /\ e.id \in 1 .. Len(log) + 1
  <2> DEFINE e == [type |-> "message", chat |-> c, id |-> Len(log) + 1]
  <2>1. e \in Event /\ e.id \in 1 .. Len(log) + 1
    BY <1>0 DEF Event
  <2>2. log' = Append(log, e)
    BY <1>3 DEF Post, Send
  <2>. QED
    BY <2>1, <2>2
<1>4. ASSUME NEW c \in Chats, NEW k \in Existing(c), DeleteInZulip(c, k)
      PROVE  \E e \in Event : log' = Append(log, e) /\ e.id \in 1 .. Len(log) + 1
  <2> DEFINE e == [type |-> "delete", chat |-> c, id |-> k]
  <2>0. k \in 1 .. Len(log)
    BY DEF Existing, Messages
  <2>1. e \in Event /\ e.id \in 1 .. Len(log) + 1
    BY <1>0, <2>0 DEF Event
  <2>2. log' = Append(log, e)
    BY <1>4 DEF DeleteInZulip
  <2>. QED
    BY <2>1, <2>2
<1>5. Zulip \/ UNCHANGED log
  BY NextSteps, PollFrame, WorkFrame, OtherFrame
<1>6. UNCHANGED log \/ \E e \in Event : log' = Append(log, e) /\ e.id \in 1 .. Len(log) + 1
  BY <1>3, <1>4, <1>5 DEF Zulip, LoseQueue
<1>. QED
  BY <1>0, <1>1, <1>2, <1>6

(* What a poll holds of the log. *)
LEMMA PollBound ==
    ASSUME poll \in Poll, PollStep \/ PollFails \/ Crash
    PROVE  /\ poll'.upto \in {0, poll.upto, Len(log)}
           /\ poll'.pc = "recorded" => RecordProviderEvent
<1>1. CASE ReadCursor \/ InvalidateProviderEventCursor
  <2>1. poll'.upto = 0
    BY <1>1 DEF ReadCursor, InvalidateProviderEventCursor, PollIdle
  <2>2. poll'.pc \in {"invalid", "read"}
    BY <1>1 DEF ReadCursor, InvalidateProviderEventCursor, PollIdle
  <2>. QED
    BY <2>1, <2>2
<1>2. CASE PollEnds \/ PollFails \/ Crash
  BY <1>2 DEF PollEnds, PollFails, Crash, PollIdle
<1>3. CASE ReadAccount \/ EnsureQueue \/ PersistQueue \/ VerifyQueue
  BY <1>3 DEF ReadAccount, EnsureQueue, PersistQueue, VerifyQueue, Poll
<1>4. CASE ScanCatalog \/ GetEvents \/ MarkPrivateCatalogScanned \/ RecordProviderEvent
  BY <1>4 DEF ScanCatalog, GetEvents, MarkPrivateCatalogScanned, RecordProviderEvent, Poll
<1>5. CASE AdvanceCursor \/ QueueRejected
  BY <1>5 DEF AdvanceCursor, QueueRejected, Poll
<1>6. CASE QueueCatalog \/ BeginProviderQueueCatchup
  <2>1. CASE poll' = PollIdle
    BY <2>1 DEF PollIdle
  <2>2. CASE poll' = [poll EXCEPT !.pc = "events"]
    BY <2>2 DEF Poll
  <2>3. CASE poll' = [poll EXCEPT !.pc = "register", !.recovering = TRUE]
    BY <2>3 DEF Poll
  <2>. QED
    BY <1>6, <2>1, <2>2, <2>3 DEF QueueCatalog, BeginProviderQueueCatchup
<1>. QED
  BY <1>1, <1>2, <1>3, <1>4, <1>5, <1>6 DEF PollStep

LEMMA JournalKept ==
    ASSUME TypeInv, Next
    PROVE  Journal'
<1>0. /\ poll \in Poll /\ poll.queue \in Nat /\ poll.last \in Nat /\ poll.upto \in Nat
      /\ recorded \in SUBSET (Nat \X Nat) /\ processed \subseteq recorded
      /\ \A row \in recorded : row[2] \in Ids
      /\ poll.upto <= Len(log)
      /\ poll.pc = "recorded" => poll.last < poll.upto
  BY DEF TypeInv, IntakeInv, IntakeTypes, Journal, Poll
<1>1. Len(log) \in Nat /\ Len(log') \in Nat /\ Len(log) <= Len(log') /\ Ids \subseteq Ids'
  BY LogGrows
<1>2. /\ recorded' \in SUBSET (Nat \X Nat) /\ recorded \subseteq recorded'
      /\ \A row \in recorded' : row[2] \in Ids'
  <2>1. CASE UNCHANGED recorded
    BY <1>0, <1>1, <2>1
  <2>2. CASE RecordProviderEvent
    <3>1. /\ recorded' = recorded \cup {<<poll.queue, poll.last + 1>>}
          /\ poll.last < poll.upto
      BY <2>2 DEF RecordProviderEvent
    <3>2. poll.last + 1 \in Nat /\ poll.last + 1 \in Ids
      BY <1>0, <1>1, <3>1 DEF Ids
    <3>3. <<poll.queue, poll.last + 1>> \in Nat \X Nat
      BY <1>0, <3>2
    <3>. QED
      BY <1>0, <1>1, <3>1, <3>2, <3>3
  <2>. QED
    BY <2>1, <2>2, NextSteps, PollFrame, WorkFrame, OtherFrame
<1>3. processed' \subseteq recorded'
  <2>1. CASE UNCHANGED processed
    BY <1>0, <1>2, <2>1
  <2>2. CASE Processes
    BY <1>0, <1>2, <2>2 DEF Processes, ProcessEvent
  <2>. QED
    BY <2>1, <2>2, NextSteps, PollFrame, WorkFrame, OtherFrame
<1>4. poll'.upto <= Len(log') /\ (poll'.pc = "recorded" => poll'.last < poll'.upto)
  <2>1. CASE UNCHANGED poll
    BY <1>0, <1>1, <2>1
  <2>2. CASE PollStep \/ PollFails \/ Crash
    <3>1. /\ poll'.upto \in {0, poll.upto, Len(log)}
          /\ poll'.pc = "recorded" => RecordProviderEvent
      BY <1>0, <2>2, PollBound
    <3>2. RecordProviderEvent => poll'.last < poll'.upto
      BY <1>0 DEF RecordProviderEvent, Poll
    <3>. QED
      BY <1>0, <1>1, <3>1, <3>2
  <2>. QED
    BY <2>1, <2>2, NextSteps, WorkFrame, OtherFrame
<1>. QED
  BY <1>2, <1>3, <1>4 DEF Journal

(* The messages the tables name are messages of the log. *)
LEMMA LoggedKept ==
    ASSUME TypeInv, Next
    PROVE  Logged'
<1>0. /\ mapped \subseteq Ids /\ removed \subseteq Ids
      /\ \A i \in Ids : log[i].id \in Ids
      /\ lossAt \in Nat /\ lossAt <= Len(log)
      /\ work.todo \subseteq Ids /\ \A row \in recorded : row[2] \in Ids
  BY DEF TypeInv, Logged, Paged, Journal
<1>1. /\ Len(log) \in Nat /\ Len(log') \in Nat /\ Len(log) <= Len(log') /\ Ids \subseteq Ids'
      /\ \A i \in Ids' : log'[i].id \in Ids'
      /\ UNCHANGED log \/ Len(log') = Len(log) + 1
  BY LogGrows
<1>2. mapped' \subseteq Ids' /\ removed' \subseteq Ids'
  <2>1. CASE UNCHANGED <<mapped, removed>>
    BY <1>0, <1>1, <2>1
  <2>2. CASE Processes
    <3>1. PICK row \in recorded : ProcessEvent(row)
      BY <2>2 DEF Processes
    <3>2. log[row[2]].id \in Ids
      BY <1>0
    <3>. QED
      BY <1>0, <1>1, <3>1, <3>2 DEF ProcessEvent
  <2>3. CASE Sends
    <3>1. PICK c \in Chats : Send(c)
      BY <2>3 DEF Sends
    <3>2. /\ mapped' = mapped \cup {Len(log) + 1} /\ UNCHANGED removed
          /\ log' = Append(log, [type |-> "message", chat |-> c, id |-> Len(log) + 1])
      BY <3>1 DEF Send
    <3>3. log \in Seq(Event) /\ [type |-> "message", chat |-> c, id |-> Len(log) + 1] \in Event
      BY <1>1 DEF TypeInv, IntakeInv, IntakeTypes, Event
    <3>4. Len(log) + 1 \in Ids'
      BY <1>1, <3>2, <3>3 DEF Ids
    <3>. QED
      BY <1>0, <1>1, <3>2, <3>4
  <2>4. CASE EnqueueCatchupMessage
    <3>1. /\ work.todo # {} /\ mapped' = mapped \cup {Max(work.todo)} /\ UNCHANGED removed
      BY <2>4 DEF EnqueueCatchupMessage
    <3>2. work.todo \in SUBSET (0 .. Len(log))
      BY <1>0, <1>1 DEF Ids
    <3>3. Max(work.todo) \in work.todo
      BY <1>1, <3>1, <3>2, Greatest
    <3>. QED
      BY <1>0, <1>1, <3>1, <3>3
  <2>5. CASE DeleteMessage
    BY <1>0, <1>1, <2>5 DEF DeleteMessage
  <2>. QED
    BY <2>1, <2>2, <2>3, <2>4, <2>5, NextSteps, PollFrame, WorkFrame, OtherFrame
<1>3. lossAt' \in Nat /\ lossAt' <= Len(log')
  <2>1. CASE UNCHANGED lossAt
    BY <1>0, <1>1, <2>1
  <2>2. CASE Starts
    BY <1>1, <2>2 DEF Starts, BeginProviderQueueCatchup
  <2>. QED
    BY <2>1, <2>2, NextSteps, PollFrame, WorkFrame, OtherFrame
<1>. QED
  BY <1>1, <1>2, <1>3 DEF Logged

(* Two sequences, one after the other. *)
LEMMA Joined ==
    ASSUME NEW S, NEW s \in Seq(S), NEW t \in Seq(S)
    PROVE  /\ s \o t \in Seq(S) /\ Len(s \o t) = Len(s) + Len(t)
           /\ \A k \in 1 .. Len(s) : (s \o t)[k] = s[k]
           /\ \A k \in 1 .. Len(t) : (s \o t)[Len(s) + k] = t[k]
<1>1. /\ s \o t \in Seq(S) /\ Len(s \o t) = Len(s) + Len(t)
      /\ \A k \in 1 .. Len(s) + Len(t) :
            (s \o t)[k] = IF k <= Len(s) THEN s[k] ELSE t[k - Len(s)]
  OBVIOUS
<1>2. Len(s) \in Nat /\ Len(t) \in Nat
  OBVIOUS
<1>3. ASSUME NEW k \in 1 .. Len(t) PROVE (s \o t)[Len(s) + k] = t[k]
  <2>1. Len(s) + k \in 1 .. Len(s) + Len(t) /\ ~ (Len(s) + k <= Len(s))
        /\ (Len(s) + k) - Len(s) = k
    BY <1>2
  <2>. QED
    BY <1>1, <2>1
<1>4. ASSUME NEW k \in 1 .. Len(s) PROVE (s \o t)[k] = s[k]
  <2>1. k \in 1 .. Len(s) + Len(t) /\ k <= Len(s)
    BY <1>2
  <2>. QED
    BY <1>1, <2>1
<1>. QED
  BY <1>1, <1>3, <1>4

(* A chat that moves last stays in the order, and so do the others. *)
LEMMA MovedLastType ==
    ASSUME NEW s \in Seq(Chats), NEW c \in Chats, \E k \in 1 .. Len(s) : s[k] = c
    PROVE  /\ MovedLast(s, c) \in Seq(Chats)
           /\ \A d \in Chats : (\E k \in 1 .. Len(s) : s[k] = d)
                => \E k \in 1 .. Len(MovedLast(s, c)) : MovedLast(s, c)[k] = d
<1> DEFINE i == CHOOSE k \in 1 .. Len(s) : s[k] = c
           before == SubSeq(s, 1, i - 1)
           after == SubSeq(s, i + 1, Len(s))
           front == before \o after
           all == front \o <<c>>
<1>1. i \in 1 .. Len(s) /\ s[i] = c
  OBVIOUS
<1> HIDE DEF i
<1>2. Len(s) \in Nat /\ i \in Nat /\ \A k \in 1 .. Len(s) : s[k] \in Chats
  BY <1>1
<1>3. /\ before \in Seq(Chats) /\ Len(before) = i - 1
      /\ \A k \in 1 .. i - 1 : before[k] = s[k]
  BY <1>1, <1>2
<1>4. /\ after \in Seq(Chats) /\ Len(after) = Len(s) - i
      /\ \A k \in 1 .. Len(s) - i : after[k] = s[i + k]
  BY <1>1, <1>2
<1> HIDE DEF before, after
<1>5. /\ front \in Seq(Chats) /\ Len(front) = Len(s) - 1
      /\ \A k \in 1 .. Len(before) : front[k] = before[k]
      /\ \A k \in 1 .. Len(after) : front[Len(before) + k] = after[k]
  <2>1. Len(before) + Len(after) = Len(s) - 1
    BY <1>2, <1>3, <1>4
  <2>. QED
    BY <1>3, <1>4, <2>1, Joined, SMTT(20)
<1> HIDE DEF front
<1>6. /\ all \in Seq(Chats) /\ Len(all) = Len(s)
      /\ \A k \in 1 .. Len(front) : all[k] = front[k]
      /\ all[Len(front) + 1] = c
  <2> DEFINE last == <<c>>
  <2>1. last \in Seq(Chats) /\ Len(last) = 1 /\ last[1] = c /\ 1 \in 1 .. Len(last)
    OBVIOUS
  <2>2. all = front \o last
    OBVIOUS
  <2> HIDE DEF last, all
  <2>3. /\ all \in Seq(Chats) /\ Len(all) = Len(front) + Len(last)
        /\ \A k \in 1 .. Len(front) : all[k] = front[k]
        /\ \A k \in 1 .. Len(last) : all[Len(front) + k] = last[k]
    <3>1. front \in Seq(Chats) /\ last \in Seq(Chats)
      BY <1>5, <2>1
    <3>2. /\ front \o last \in Seq(Chats) /\ Len(front \o last) = Len(front) + Len(last)
          /\ \A k \in 1 .. Len(front) : (front \o last)[k] = front[k]
          /\ \A k \in 1 .. Len(last) : (front \o last)[Len(front) + k] = last[k]
      BY <3>1, Joined
    <3>. QED
      BY <2>2, <3>2
  <2>4. Len(front) + Len(last) = Len(s)
    BY <1>2, <1>5, <2>1
  <2>. QED
    BY <2>1, <2>3, <2>4
<1> HIDE DEF all
<1>7. ASSUME NEW d \in Chats, NEW k \in 1 .. Len(s), s[k] = d
      PROVE  \E m \in 1 .. Len(all) : all[m] = d
  <2>1. CASE k = i
    <3>1. Len(front) + 1 \in 1 .. Len(all)
      BY <1>1, <1>2, <1>5, <1>6
    <3>. QED
      BY <1>1, <1>6, <1>7, <2>1, <3>1
  <2>2. CASE k < i
    <3>1. k \in 1 .. i - 1 /\ k \in 1 .. Len(before) /\ k \in 1 .. Len(front)
          /\ k \in 1 .. Len(all)
      BY <1>1, <1>2, <1>3, <1>5, <1>6, <2>2
    <3>. QED
      BY <1>3, <1>5, <1>6, <1>7, <3>1
  <2>3. CASE k > i
    <3> DEFINE m == k - i
    <3>1. /\ m \in 1 .. Len(s) - i /\ m \in 1 .. Len(after) /\ i + m = k
          /\ Len(before) + m \in 1 .. Len(front) /\ Len(before) + m \in 1 .. Len(all)
      BY <1>1, <1>2, <1>3, <1>4, <1>5, <1>6, <2>3
    <3> HIDE DEF m
    <3>2. after[m] = d /\ front[Len(before) + m] = d /\ all[Len(before) + m] = d
      BY <1>4, <1>5, <1>6, <1>7, <3>1
    <3>. QED
      BY <3>1, <3>2
  <2>. QED
    BY <1>2, <2>1, <2>2, <2>3
<1>8. MovedLast(s, c) = all
  BY DEF MovedLast, all, front, before, after, i
<1>. QED
  BY <1>6, <1>7, <1>8

(* The row that a page writes back. *)
LEMMA AdvanceType ==
    ASSUME Queued, work.chat \in Chats, NEW state \in JobStates, NEW page \in SUBSET Nat,
           NEW anchor \in Nat \cup {None}, Advance(state, page, anchor)
    PROVE  /\ Queued'
           /\ \A c \in Chats : c # work.chat => job'[c] = job[c]
           /\ job[work.chat].state = "absent" => job'[work.chat] = job[work.chat]
           /\ job[work.chat].state # "absent" =>
                /\ job'[work.chat].state = state
                /\ job'[work.chat].anchor = anchor
                /\ job'[work.chat].seen = job[work.chat].seen \cup page
<1> DEFINE row == job[work.chat]
           new == IF row.state = "absent" THEN row
                  ELSE [row EXCEPT !.state = state, !.anchor = anchor,
                                   !.seen = row.seen \cup page, !.pages = row.pages + 1]
<1>0. job \in [Chats -> Job] /\ row \in Job /\ row.pages + 1 \in Nat /\ row.seen \in SUBSET Nat
  <2>1. job \in [Chats -> Job]
    BY DEF Queued
  <2>2. row \in Job
    BY <2>1
  <2>. QED
    BY <2>1, <2>2 DEF Job
<1>1. row.seen \cup page \in SUBSET Nat
  BY <1>0
<1>2. new \in Job
  <2>1. CASE row.state = "absent"
    BY <1>0, <2>1
  <2>2. CASE row.state # "absent"
    BY <1>0, <1>1, <2>2 DEF Job
  <2>. QED
    BY <2>1, <2>2
<1>3. job' = [job EXCEPT ![work.chat] = new]
  BY DEF Advance
<1>4. row.state # "absent" =>
        new.state = state /\ new.anchor = anchor /\ new.seen = row.seen \cup page
  BY <1>0 DEF Job
<1>4a. row.state = "absent" => new = row
  OBVIOUS
<1>5. turn' \in Seq(Chats) /\ \A c \in Chats : \E k \in 1 .. Len(turn') : turn'[k] = c
  <2>1. turn' = MovedLast(turn, work.chat)
    BY DEF Advance
  <2>2. turn \in Seq(Chats) /\ \A c \in Chats : \E k \in 1 .. Len(turn) : turn[k] = c
    BY DEF Queued
  <2>. QED
    BY <2>1, <2>2, MovedLastType
<1> HIDE DEF new
<1>6. job' \in [Chats -> Job] /\ job'[work.chat] = new
      /\ \A c \in Chats : c # work.chat => job'[c] = job[c]
  BY <1>0, <1>2, <1>3
<1>. QED
  BY <1>4, <1>4a, <1>5, <1>6 DEF Queued

(* The page and the row of the job are about messages of the log. *)
LEMMA PageType ==
    ASSUME TypeInv
    PROVE  /\ work \in Work /\ work.page \in SUBSET Nat /\ work.job \in Job
           /\ (IF work.page = {} THEN None ELSE Min(work.page) - 1) \in Nat \cup {None}
<1>1. work \in Work /\ work.page \subseteq Ids /\ log \in Seq(Event)
  BY DEF TypeInv, IntakeInv, IntakeTypes, Paged
<1>2. work.page \in SUBSET Nat /\ work.job \in Job
  BY <1>1 DEF Work
<1>3. work.page # {} => Min(work.page) - 1 \in Nat
  <2>1. work.page # {} => Min(work.page) \in work.page
    BY <1>2, Least
  <2>. QED
    BY <1>1, <2>1 DEF Ids
<1>. QED
  BY <1>1, <1>2, <1>3

LEMMA AdvancesType ==
    ASSUME TypeInv, Advances
    PROVE  /\ work.pc # "idle" /\ work.chat \in Chats
           /\ \/ /\ AdvanceProviderCatchup
                 /\ Advance(IF Complete THEN "complete" ELSE "pending", work.page,
                            IF work.page = {} THEN None ELSE Min(work.page) - 1)
              \/ CatchupLimitExceeded /\ Advance("manual", {}, None)
           /\ Queued' /\ UNCHANGED <<log, mapped, lossAt, known>> /\ work' = WorkIdle
<1>1. work.pc # "idle"
  BY DEF Advances, AdvanceProviderCatchup, CatchupLimitExceeded
<1>2. work.chat \in Chats
  BY <1>1 DEF TypeInv, Paged
<1>3. \/ /\ AdvanceProviderCatchup
         /\ Advance(IF Complete THEN "complete" ELSE "pending", work.page,
                    IF work.page = {} THEN None ELSE Min(work.page) - 1)
      \/ CatchupLimitExceeded /\ Advance("manual", {}, None)
  BY DEF Advances, AdvanceProviderCatchup, CatchupLimitExceeded
<1>4. Queued
  BY DEF TypeInv
<1>5. ASSUME NEW state \in JobStates, NEW page \in SUBSET Nat, NEW anchor \in Nat \cup {None},
             Advance(state, page, anchor)
      PROVE  Queued' /\ UNCHANGED <<log, mapped, lossAt, known>> /\ work' = WorkIdle
  <2>1. Queued'
    BY <1>2, <1>4, <1>5, AdvanceType
  <2>. QED
    BY <1>5, <2>1 DEF Advance, zulipVars, messageVars
<1>6. CASE CatchupLimitExceeded /\ Advance("manual", {}, None)
  <2>1. "manual" \in JobStates /\ {} \in SUBSET Nat /\ None \in Nat \cup {None}
    BY DEF JobStates
  <2>. QED
    BY <1>1, <1>2, <1>5, <1>6, <2>1
<1>7. CASE AdvanceProviderCatchup
  <2> DEFINE state == IF Complete THEN "complete" ELSE "pending"
             anchor == IF work.page = {} THEN None ELSE Min(work.page) - 1
  <2>1. state \in JobStates
    BY DEF JobStates
  <2>2. work.page \in SUBSET Nat /\ anchor \in Nat \cup {None}
    BY PageType
  <2>3. Advance(state, work.page, anchor)
    BY <1>7 DEF AdvanceProviderCatchup
  <2> HIDE DEF state, anchor
  <2>4. Queued' /\ UNCHANGED <<log, mapped, lossAt, known>> /\ work' = WorkIdle
    BY <1>5, <2>1, <2>2, <2>3
  <2>. QED
    BY <1>1, <1>2, <1>3, <2>4
<1>. QED
  BY <1>3, <1>6, <1>7

(* The boundary of a new job is a mapped message, or there is none. *)
LEMMA CheckpointType ==
    ASSUME TypeInv, NEW c \in Chats
    PROVE  [NoJob EXCEPT !.state = "pending", !.checkpoint = Checkpoint(c)] \in Job
<1>1. Len(log) \in Nat /\ MappedOf(c) \in SUBSET (0 .. Len(log))
  BY DEF TypeInv, IntakeInv, IntakeTypes, MappedOf, Messages
<1>2. Checkpoint(c) \in Nat \cup {None}
  <2>1. CASE MappedOf(c) = {}
    BY <2>1 DEF Checkpoint
  <2>2. CASE MappedOf(c) # {}
    <3>1. Max(MappedOf(c)) \in MappedOf(c)
      BY <1>1, <2>2, Greatest
    <3>. QED
      BY <1>1, <2>2, <3>1 DEF Checkpoint
  <2>. QED
    BY <2>1, <2>2
<1>. QED
  BY <1>2 DEF NoJob, Job, JobStates

LEMMA QueuedKept ==
    ASSUME TypeInv, Next
    PROVE  Queued'
<1>1. CASE UNCHANGED <<job, turn>>
  BY <1>1 DEF TypeInv, Queued
<1>2. CASE Advances
  BY <1>2, AdvancesType
<1>3. CASE Starts
  <2>0. job \in [Chats -> Job]
    BY DEF TypeInv, Queued
  <2>1. job' = [c \in Chats |->
                  IF c \in known THEN [NoJob EXCEPT !.state = "pending",
                                                   !.checkpoint = Checkpoint(c)]
                  ELSE job[c]]
    BY <1>3 DEF Starts, BeginProviderQueueCatchup
  <2>2. \A c \in Chats : job'[c] \in Job
    BY <2>0, <2>1, CheckpointType
  <2>3. job' \in [Chats -> Job]
    BY <2>1, <2>2
  <2>4. turn' = ChatOrder
    BY <1>3 DEF Starts, BeginProviderQueueCatchup
  <2>. QED
    BY <2>3, <2>4, IntakeAssumption DEF Queued
<1>. QED
  BY <1>1, <1>2, <1>3, NextSteps, PollFrame, WorkFrame, OtherFrame

(* The worker's page and what is left of it. *)
LEMMA IdleWork == WorkIdle \in Work /\ WorkIdle.page = {} /\ WorkIdle.todo = {}
                  /\ WorkIdle.pc = "idle" /\ NoJob \in Job
BY DEF WorkIdle, Work, WorkSteps, NoJob, Job, JobStates

LEMMA PagedKept ==
    ASSUME TypeInv, Next
    PROVE  Paged'
<1>0. /\ work \in Work /\ work.page \subseteq Ids /\ work.todo \subseteq Ids
      /\ work.pc # "idle" => work.chat \in Chats
      /\ work.job \in Job /\ job \in [Chats -> Job]
  BY DEF TypeInv, Paged, Work, Queued
<1>1. Ids \subseteq Ids' /\ Ids \subseteq Nat
  <2>1. Len(log) \in Nat
    BY LogGrows
  <2>. QED
    BY <2>1, LogGrows DEF Ids
<1>2. CASE UNCHANGED work
  BY <1>0, <1>1, <1>2 DEF Paged
<1>3. CASE work' = WorkIdle
  BY <1>3, IdleWork DEF Paged
<1> DEFINE Becomes(pc, page, todo) ==
               work' = [work EXCEPT !.pc = pc, !.page = page, !.todo = todo]
<1>4. ASSUME NEW pc \in WorkSteps, NEW page \in SUBSET Ids, NEW todo \in SUBSET Ids,
             work.pc # "idle", Becomes(pc, page, todo)
      PROVE  Paged'
  <2>1. page \in SUBSET Nat /\ todo \in SUBSET Nat
    BY <1>1
  <2>2. work' \in Work /\ work'.page = page /\ work'.todo = todo /\ work'.chat = work.chat
    BY <1>0, <1>4, <2>1 DEF Work
  <2>. QED
    BY <1>0, <1>1, <1>4, <2>2 DEF Paged
<1> HIDE DEF Becomes
<1>5. ASSUME NEW c \in Chats, TakeJob(c) PROVE Paged'
  <2>1. work' = [WorkIdle EXCEPT
                   !.pc = IF job[c].pages >= MaxPages THEN "limit" ELSE "fetch",
                   !.chat = c, !.job = job[c]]
    BY <1>5 DEF TakeJob
  <2>2. job[c] \in Job
    BY <1>0
  <2>3. work' \in Work /\ work'.page = {} /\ work'.todo = {} /\ work'.chat = c
    <3>1. CASE work' = [WorkIdle EXCEPT !.pc = "limit", !.chat = c, !.job = job[c]]
      BY <2>2, <3>1 DEF Work, WorkIdle, WorkSteps
    <3>2. CASE work' = [WorkIdle EXCEPT !.pc = "fetch", !.chat = c, !.job = job[c]]
      BY <2>2, <3>2 DEF Work, WorkIdle, WorkSteps
    <3>. QED
      BY <2>1, <3>1, <3>2
  <2>. QED
    BY <2>3 DEF Paged
<1>6. CASE FetchPage
  <2> DEFINE older == {i \in Existing(work.chat) :
                         work.job.anchor = None \/ i < work.job.anchor}
             page == Newest(older, PageSize) \cup (Existing(work.chat) \cap {work.job.anchor})
  <2>1. work.pc = "fetch" /\ work' = [work EXCEPT !.pc = "fetched", !.page = page]
    BY <1>6 DEF FetchPage
  <2>2. page \subseteq Ids
    BY DEF Newest, Existing, Messages, Ids
  <2> HIDE DEF page
  <2>3. Becomes("fetched", page, work.todo)
    BY <1>0, <2>1 DEF Becomes, Work
  <2>4. "fetched" \in WorkSteps /\ page \in SUBSET Ids /\ work.todo \in SUBSET Ids
    BY <1>0, <2>2 DEF WorkSteps
  <2>. QED
    BY <1>4, <2>1, <2>3, <2>4
<1>7. CASE CheckParticipants
  <2>1. CASE work' = WorkIdle
    BY <1>3, <2>1
  <2>2. CASE work' = [work EXCEPT !.pc = "enqueue", !.todo = work.page]
    <3>1. Becomes("enqueue", work.page, work.page)
      BY <1>0, <2>2 DEF Becomes, Work
    <3>2. work.pc # "idle"
      BY <1>7 DEF CheckParticipants
    <3>. QED
      BY <1>0, <1>4, <3>1, <3>2 DEF WorkSteps
  <2>. QED
    BY <1>7, <2>1, <2>2 DEF CheckParticipants
<1>8. CASE EnqueueCatchupMessage \/ DeleteMessage
  <2>1. PICK i : work' = [work EXCEPT !.todo = work.todo \ {i}]
    BY <1>8 DEF EnqueueCatchupMessage, DeleteMessage
  <2>2. work.pc # "idle"
    BY <1>8 DEF EnqueueCatchupMessage, DeleteMessage
  <2>3. Becomes(work.pc, work.page, work.todo \ {i})
    BY <1>0, <2>1 DEF Becomes, Work
  <2>4. work.pc \in WorkSteps /\ work.todo \ {i} \in SUBSET Ids
    BY <1>0 DEF Work
  <2>. QED
    BY <1>0, <1>4, <2>2, <2>3, <2>4
<1>9. CASE PageEnqueued
  <2> DEFINE pc == IF Complete /\ work.job.checkpoint # None THEN "compare" ELSE "advance"
  <2>1. work.pc # "idle" /\ work' = [work EXCEPT !.pc = pc]
    BY <1>9 DEF PageEnqueued
  <2>2. pc \in WorkSteps
    BY DEF WorkSteps
  <2> HIDE DEF pc
  <2>3. Becomes(pc, work.page, work.todo)
    BY <1>0, <2>1 DEF Becomes, Work
  <2>. QED
    BY <1>0, <1>4, <2>1, <2>2, <2>3
<1>10. CASE FindDeleted
  <2> DEFINE todo == {i \in MappedOf(work.chat) : i >= work.job.checkpoint}
                       \ (work.job.seen \cup work.page)
  <2>1. work.pc # "idle" /\ work' = [work EXCEPT !.pc = "delete", !.todo = todo]
    BY <1>10 DEF FindDeleted
  <2>2. todo \subseteq Ids
    BY DEF MappedOf, Messages, Ids
  <2> HIDE DEF todo
  <2>3. Becomes("delete", work.page, todo)
    BY <1>0, <2>1 DEF Becomes, Work
  <2>4. "delete" \in WorkSteps /\ work.page \in SUBSET Ids /\ todo \in SUBSET Ids
    BY <1>0, <2>2 DEF WorkSteps
  <2>. QED
    BY <1>4, <2>1, <2>3, <2>4
<1>11. CASE Advances
  BY <1>3, <1>11, AdvancesType
<1>12. CASE FetchFails \/ Crash
  BY <1>3, <1>12 DEF FetchFails, Crash
<1>13. UNCHANGED work \/ WorkStep \/ FetchFails \/ Crash
  BY NextSteps, PollFrame, OtherFrame
<1>. QED
  BY <1>2, <1>5, <1>6, <1>7, <1>8, <1>9, <1>10, <1>11, <1>12, <1>13 DEF WorkStep, Advances

(* A bound that is spent stays a bound. *)
LEMMA SpendType ==
    ASSUME budget \in Budget,
           NEW what \in {"losses", "changes", "deletes", "sends", "crashes", "faults"},
           Spend(what)
    PROVE  budget' \in Budget
<1>1. budget[what] > 0 /\ budget' = [budget EXCEPT ![what] = budget[what] - 1]
  BY DEF Spend
<1>2. budget[what] \in Nat
  BY DEF Budget
<1>3. budget[what] - 1 \in Nat
  BY <1>1, <1>2
<1>. QED
  BY <1>1, <1>3 DEF Budget

LEMMA ScopedKept ==
    ASSUME TypeInv, Next
    PROVE  Scoped'
<1>0. /\ dead \in SUBSET Nat /\ ready \in SUBSET Chats /\ known \in SUBSET Chats
      /\ captured \in [Chats -> Nat] /\ scope \in Nat /\ budget \in Budget
      /\ account \in Nat /\ Len(log) \in Nat /\ Len(born) \in Nat
      /\ poll.catalog \in SUBSET Chats /\ log \in Seq(Event)
      /\ \A row \in recorded : row[2] \in 1 .. Len(log)
  BY DEF TypeInv, Scoped, IntakeInv, IntakeTypes, Poll, Journal, Ids
<1>1. ASSUME NEW chats \in SUBSET Chats, Assign(chats)
      PROVE  known' \in SUBSET Chats /\ captured' \in [Chats -> Nat]
  BY <1>0, <1>1 DEF Assign
<1>2. CASE PollStep \/ PollFails
  <2>1. UNCHANGED <<dead, scope>>
    BY <1>2, PollFrame
  <2>2. budget' \in Budget
    BY <1>0, <1>2, PollFrame, SpendType DEF PollFails
  <2>3. ready' \in SUBSET Chats
    BY <1>0, <1>2, PollFrame DEF Starts, BeginProviderQueueCatchup
  <2>4. known' \in SUBSET Chats /\ captured' \in [Chats -> Nat]
    BY <1>0, <1>1, <1>2, PollFrame DEF QueueCatalog
  <2>. QED
    BY <1>0, <2>1, <2>2, <2>3, <2>4 DEF Scoped
<1>3. CASE WorkStep \/ FetchFails
  <2>1. UNCHANGED <<dead, ready, known, captured, scope>>
    BY <1>3, WorkFrame
  <2>2. budget' \in Budget
    BY <1>0, <1>3, WorkFrame, SpendType DEF FetchFails
  <2>. QED
    BY <1>0, <2>1, <2>2 DEF Scoped
<1>4. CASE JournalStep
  <2>1. PICK row \in recorded : QueueEventCatalog(row) \/ ProcessEvent(row)
    BY <1>4 DEF JournalStep
  <2>2. log[row[2]] \in Event
    BY <1>0
  <2>3. {log[row[2]].chat} \in SUBSET Chats
    BY <2>2 DEF Event
  <2>4. CASE QueueEventCatalog(row)
    <3>1. Assign({log[row[2]].chat}) /\ UNCHANGED <<dead, ready, scope, budget>>
      BY <2>4 DEF QueueEventCatalog, zulipVars, jobVars
    <3>. QED
      BY <1>0, <1>1, <2>3, <3>1 DEF Scoped
  <2>5. CASE ProcessEvent(row)
    BY <1>0, <2>5 DEF Scoped, ProcessEvent, zulipVars, jobVars, historyVars
  <2>. QED
    BY <2>1, <2>4, <2>5
<1>5. CASE \E c \in Chats : ParticipantsSynchronised(c)
  BY <1>0, <1>5 DEF Scoped, ParticipantsSynchronised, zulipVars, historyVars
<1>6. CASE ApplyAccount
  <2>1. budget' \in Budget
    BY <1>0, <1>6, SpendType DEF ApplyAccount
  <2>. QED
    BY <1>0, <1>6, <2>1 DEF Scoped, ApplyAccount, zulipVars, jobVars, historyVars
<1>7. CASE RebuildHistory
  <2>1. captured' \in [Chats -> Nat]
    BY <1>0, <1>7 DEF RebuildHistory
  <2>. QED
    BY <1>0, <1>7, <2>1 DEF Scoped, RebuildHistory, zulipVars, jobVars
<1>8. CASE Zulip
  <2>1. UNCHANGED <<ready, known, captured, scope>>
    BY <1>8 DEF Zulip, Post, Send, DeleteInZulip, LoseQueue, jobVars, historyVars
  <2>2. budget' \in Budget
    BY <1>0, <1>8, SpendType DEF Zulip, Post, Send, DeleteInZulip, LoseQueue
  <2>3. dead' \in SUBSET Nat
    BY <1>0, <1>8 DEF Zulip, Post, Send, DeleteInZulip, LoseQueue
  <2>. QED
    BY <1>0, <2>1, <2>2, <2>3 DEF Scoped
<1>9. CASE Crash
  <2>1. budget' \in Budget
    BY <1>0, <1>9, SpendType DEF Crash
  <2>. QED
    BY <1>0, <1>9, <2>1 DEF Scoped, Crash, zulipVars, jobVars, historyVars
<1>. QED
  BY <1>2, <1>3, <1>4, <1>5, <1>6, <1>7, <1>8, <1>9, NextSteps DEF Elsewhere

LEMMA TypeInitially == Init => TypeInv
<1> SUFFICES ASSUME Init PROVE TypeInv
  OBVIOUS
<1>1. IntakeInv
  BY IntakeInit
<1>2. SeedLog \in Seq(Event) /\ log = SeedLog /\ Len(log) \in Nat
  BY SeedLogType DEF Init
<1>3. Len(Seeded) \in Nat /\ Len(SeedLog) = Len(Seeded)
      /\ \A i \in 1 .. Len(SeedLog) : SeedLog[i].id = i
  <2>1. Seeded \in Seq(Chats)
    BY IntakeAssumption
  <2>. QED
    BY <2>1 DEF SeedLog
<1>4. Journal
  BY <1>2 DEF Init, Journal, PollIdle
<1>5. Logged
  BY <1>2, <1>3 DEF Init, Logged, Ids
<1>6. Queued
  BY IntakeAssumption, IdleWork DEF Init, Queued
<1>7. Paged
  BY IdleWork DEF Init, Paged
<1>8. Scoped
  BY <1>2, IntakeAssumption DEF Init, Scoped
<1>. QED
  BY <1>1, <1>4, <1>5, <1>6, <1>7, <1>8 DEF TypeInv

LEMMA TypeKept == TypeInv /\ [Next]_vars => TypeInv'
<1>1. CASE UNCHANGED vars
  <2>1. UNCHANGED <<log, born, dead, account, cursor, recorded, processed, mapped, removed,
                    job, turn, ready, known, captured, scope, poll, work, lossAt, budget>>
    BY <1>1 DEF vars, zulipVars, journalVars, messageVars, jobVars, historyVars
  <2>2. IntakeInv => IntakeInv'
    BY <2>1 DEF IntakeInv, IntakeTypes, Passed
  <2>3. TypeInv => Journal' /\ Logged' /\ Queued' /\ Paged' /\ Scoped'
    BY <2>1 DEF TypeInv, Journal, Logged, Queued, Paged, Scoped, Ids
  <2>. QED
    BY <2>2, <2>3 DEF TypeInv
<1>2. TypeInv /\ Next => TypeInv'
  BY StepKeeps, JournalKept, LoggedKept, QueuedKept, PagedKept, ScopedKept DEF TypeInv
<1>. QED
  BY <1>1, <1>2

LEMMA TypesHold == Spec => []TypeInv
BY TypeInitially, TypeKept, PTL DEF Spec

(* Every variable of the event intake has its type in every reachable state, *)
(* whatever the chats, page sizes and bounds: in particular the newest       *)
(* message of a page and the oldest, which enqueue_catchup_messages and      *)
(* advance_provider_catchup take, are only asked of a page that has one.     *)
THEOREM EventIntakeTypes == Spec => []TypeOK
<1>1. TypeInv => TypeOK
  <2> SUFFICES ASSUME TypeInv PROVE TypeOK
    OBVIOUS
  <2>1. log \in Seq(Event) /\ born \in Seq(Nat) /\ account \in Nat /\ cursor \in Cursor
        /\ poll \in Poll
    BY DEF TypeInv, IntakeInv, IntakeTypes
  <2>2. Ids \subseteq Nat
    BY <2>1 DEF Ids
  <2>3. mapped \in SUBSET Nat /\ removed \in SUBSET Nat /\ lossAt \in Nat
    BY <2>2 DEF TypeInv, Logged
  <2>. QED
    BY <2>1, <2>3 DEF TypeInv, TypeOK, Poll, Journal, Queued, Paged, Scoped, Work
<1>. QED
  BY <1>1, TypesHold, PTL


-----------------------------------------------------------------------------
(* What a recovery sees of a chat: the pages of a job run downwards without  *)
(* a hole, so that what lies between two messages shown is there as well.    *)

HasPage == {"fetched", "enqueue", "compare", "delete", "advance"}
Writes == {"enqueue", "compare", "delete", "advance"}

InLog(row) == row.seen \subseteq Ids /\ (row.anchor # None => row.anchor <= Len(log))

(* The pages have come down to the anchor and left out nothing above it,     *)
(* except what is newer than all they show.                                  *)
Downward(c, anchor, ids) ==
    /\ anchor = None => ids = {}
    /\ anchor # None =>
         \A q \in ids :
             q > anchor /\ \A i \in Existing(c) : i > anchor /\ i <= q => i \in ids

NoHole(c, ids) == \A p, q \in ids : \A i \in Existing(c) : p <= i /\ i <= q => i \in ids

RowOK(c) ==
    /\ job[c].state # "absent" => c \in known
    /\ InLog(job[c])
    /\ job[c].state = "pending" => Downward(c, job[c].anchor, job[c].seen)
    /\ NoHole(c, job[c].seen)
    /\ \A i \in Existing(c) : i \in job[c].seen => i \in mapped

Rows == \A c \in Chats : RowOK(c)

(* Only the worker changes the row that it has read, unless a lost queue is  *)
(* noticed meanwhile: then the row starts over, with nothing seen.           *)
Held ==
    work.pc # "idle" =>
        /\ InLog(work.job) /\ Downward(work.chat, work.job.anchor, work.job.seen)
        /\ job[work.chat].state = "pending"
        /\ work.job = job[work.chat] \/ job[work.chat].seen = {}

(* A page has no hole from its newest message, or from its anchor, down to   *)
(* its oldest message, and none below when it is not full.                   *)
Covered(i) == IF work.job.anchor = None THEN \E p \in work.page : i <= p
              ELSE i <= work.job.anchor
Reached(i) == (\E p \in work.page : p <= i) \/ Cardinality(work.page) < PageSize
WholePage ==
    work.pc \in HasPage =>
        /\ work.job.anchor # None => \A p \in work.page : p <= work.job.anchor
        /\ \A i \in Existing(work.chat) : Covered(i) /\ Reached(i) => i \in work.page

NewerThanShown(i) == \A p \in work.job.seen \cup work.page : p < i

OnlyDeleted ==
    /\ work.pc = "compare" => Complete /\ work.job.checkpoint # None
    /\ work.pc = "delete" =>
         \A i \in work.todo : i \in Messages(work.chat) /\ (i \in Deleted \/ NewerThanShown(i))

(* The messages of the page are written before the row of the job. *)
PageWritten ==
    work.pc \in Writes =>
        \A i \in work.page : i \in Existing(work.chat) =>
            i \in mapped \/ (work.pc = "enqueue" /\ i \in work.todo)

RecoveryInv ==
    TypeInv /\ Rows /\ Held /\ WholePage /\ OnlyDeleted /\ PageWritten

(* The newest messages of a set: if one is left out, the chosen ones are     *)
(* newer, and as many as were asked for.                                     *)
LEMMA NewestType ==
    ASSUME NEW m \in Nat, NEW S \in SUBSET (1 .. m), NEW n \in Nat \ {0}
    PROVE  /\ IsFiniteSet(S) /\ Newest(S, n) \subseteq S
           /\ \A i \in S \ Newest(S, n) :
                /\ \A p \in Newest(S, n) : p > i
                /\ Cardinality(Newest(S, n)) >= n
<1> DEFINE Above(i) == {k \in S : k > i}
           T == Newest(S, n)
<1>1. IsFiniteSet(S)
  <2>1. IsFiniteSet(1 .. m)
    BY FS_Interval
  <2>. QED
    BY <2>1, FS_Subset
<1>2. T = {i \in S : Cardinality(Above(i)) < n} /\ T \subseteq S
  BY DEF Newest
<1>3. \A i \in S : IsFiniteSet(Above(i)) /\ Cardinality(Above(i)) \in Nat
  BY <1>1, FS_Subset, FS_CardinalityType
<1>4. IsFiniteSet(T) /\ Cardinality(T) \in Nat
  BY <1>1, <1>2, FS_Subset, FS_CardinalityType
<1> HIDE DEF T
<1>5. ASSUME NEW i \in S \ T, NEW p \in T PROVE p > i
  <2>1. i \in Nat /\ p \in Nat /\ p \in S
    BY <1>2
  <2> SUFFICES ASSUME p <= i PROVE FALSE
    BY <2>1
  <2>2. Above(i) \subseteq Above(p)
    <3> SUFFICES ASSUME NEW k \in S, k > i PROVE k > p
      OBVIOUS
    <3>1. k \in Nat
      OBVIOUS
    <3>. QED
      BY <2>1, <3>1
  <2>3. Cardinality(Above(i)) <= Cardinality(Above(p))
    BY <1>3, <2>1, <2>2, FS_Subset
  <2>4. Cardinality(Above(p)) < n /\ ~ (Cardinality(Above(i)) < n)
    BY <1>2
  <2>. QED
    BY <1>3, <2>1, <2>3, <2>4
<1>6. ASSUME NEW i \in S \ T PROVE Cardinality(T) >= n
  <2> DEFINE U == S \ T
             g == Max(U)
  <2>1. U \in SUBSET (0 .. m) /\ U # {}
    <3>1. \A k \in 1 .. m : k \in 0 .. m
      OBVIOUS
    <3>. QED
      BY <3>1
  <2> HIDE DEF U
  <2>2. g \in U /\ \A k \in U : k <= g
    BY <2>1, Greatest
  <2>3. g \in S /\ g \notin T
    BY <2>2 DEF U
  <2> HIDE DEF g
  <2>4. Above(g) \subseteq T
    <3> SUFFICES ASSUME NEW k \in S, k > g PROVE k \in T
      OBVIOUS
    <3>1. k \in Nat /\ g \in Nat
      BY <2>3
    <3>2. k \notin U
      BY <2>2, <3>1
    <3>. QED
      BY <3>2 DEF U
  <2>5. Cardinality(Above(g)) <= Cardinality(T)
    BY <1>4, <2>4, FS_Subset
  <2>6. Cardinality(Above(g)) \in Nat /\ ~ (Cardinality(Above(g)) < n)
    BY <1>2, <1>3, <2>3
  <2>. QED
    BY <1>4, <2>5, <2>6
<1>. QED
  BY <1>1, <1>2, <1>5, <1>6 DEF T

(* What exists was there before, unless it is new; what is deleted stays so. *)
LEMMA ZulipGrows ==
    ASSUME TypeInv, Next
    PROVE  /\ Deleted \subseteq Deleted'
           /\ \A c \in Chats :
                /\ Messages(c) \subseteq Messages(c)' /\ Messages(c) \subseteq Ids
                /\ \A i \in Existing(c)' :
                     /\ i \in Nat /\ i \notin Deleted
                     /\ i <= Len(log) => i \in Existing(c)
<1>1. /\ Len(log) \in Nat /\ Len(log') \in Nat /\ Ids \subseteq Ids'
      /\ \A i \in Ids : log'[i] = log[i]
  BY LogGrows
<1>2. Deleted \subseteq Deleted'
  <2>1. ASSUME NEW k \in 1 .. Len(log), log[k].type = "delete"
        PROVE  log[k].id \in Deleted'
    <3>1. k \in 1 .. Len(log') /\ log'[k] = log[k]
      BY <1>1 DEF Ids
    <3>. QED
      BY <2>1, <3>1 DEF Deleted
  <2>. QED
    BY <2>1 DEF Deleted
<1>3. ASSUME NEW c \in Chats, NEW i \in Existing(c)', i <= Len(log)
      PROVE  i \in Existing(c)
  <2>1. i \in 1 .. Len(log') /\ log'[i].type = "message" /\ log'[i].chat = c /\ i \notin Deleted'
    BY DEF Existing, Messages
  <2>2. i \in 1 .. Len(log) /\ log'[i] = log[i]
    BY <1>1, <1>3, <2>1 DEF Ids
  <2>. QED
    BY <1>2, <2>1, <2>2 DEF Existing, Messages
<1>4. ASSUME NEW c \in Chats
      PROVE  Messages(c) \subseteq Messages(c)' /\ Messages(c) \subseteq Ids
  BY <1>1 DEF Messages, Ids
<1>5. ASSUME NEW c \in Chats, NEW i \in Existing(c)'
      PROVE  i \in Nat /\ i \notin Deleted
  BY <1>1, <1>2 DEF Existing, Messages
<1>. QED
  BY <1>2, <1>3, <1>4, <1>5

LEMMA KnownGrows == ASSUME Next PROVE known \subseteq known'
<1>1. CASE PollStep \/ PollFails
  BY <1>1, PollFrame DEF QueueCatalog, Assign
<1>2. CASE WorkStep \/ FetchFails
  BY <1>2, WorkFrame
<1>3. CASE Elsewhere
  BY <1>3 DEF Elsewhere, JournalStep, QueueEventCatalog, Assign, ProcessEvent,
     ParticipantsSynchronised, ApplyAccount, RebuildHistory, Zulip, Post, Send, DeleteInZulip,
     LoseQueue, Crash
<1>. QED
  BY <1>1, <1>2, <1>3, NextSteps

(* What has no hole among the messages of a log has none when it grows.      *)
LEMMA ShownStays ==
    ASSUME TypeInv, Next, NEW c \in Chats, NEW row \in Job, InLog(row)
    PROVE  /\ row.seen \subseteq Ids' /\ (row.anchor # None => row.anchor <= Len(log'))
           /\ NoHole(c, row.seen) =>
                \A p, q \in row.seen : \A i \in Existing(c)' :
                    p <= i /\ i <= q => i \in row.seen
           /\ Downward(c, row.anchor, row.seen) /\ row.anchor # None =>
                \A q \in row.seen :
                    /\ q > row.anchor
                    /\ \A i \in Existing(c)' : i > row.anchor /\ i <= q => i \in row.seen
<1> DEFINE seen == row.seen
           anchor == row.anchor
<1>1. /\ Len(log) \in Nat /\ Len(log') \in Nat /\ Len(log) <= Len(log') /\ Ids \subseteq Ids'
      /\ \A q \in seen : q \in Nat /\ q <= Len(log)
      /\ anchor \in Nat \cup {None} /\ (anchor # None => anchor <= Len(log))
      /\ seen \subseteq Ids
  BY LogGrows DEF InLog, Job, Ids
<1>2. \A i \in Existing(c)' : i \in Nat /\ (i <= Len(log) => i \in Existing(c))
  BY ZulipGrows
<1>3. ASSUME NEW q \in seen, NEW i \in Existing(c)', i <= q PROVE i \in Existing(c)
  <2>1. i \in Nat /\ q \in Nat /\ q <= Len(log)
    BY <1>1, <1>2
  <2>2. i <= Len(log)
    BY <1>1, <1>3, <2>1
  <2>. QED
    BY <1>2, <2>2
<1>4. NoHole(c, seen) =>
        \A p, q \in seen : \A i \in Existing(c)' : p <= i /\ i <= q => i \in seen
  BY <1>3 DEF NoHole
<1>5. Downward(c, anchor, seen) /\ anchor # None =>
        \A q \in seen : /\ q > anchor
                        /\ \A i \in Existing(c)' : i > anchor /\ i <= q => i \in seen
  BY <1>3 DEF Downward
<1> HIDE DEF seen, anchor
<1>6. seen \subseteq Ids' /\ (anchor # None => anchor <= Len(log'))
  <2>1. anchor # None => anchor \in Nat /\ anchor <= Len(log)
    BY <1>1
  <2>. QED
    BY <1>1, <2>1
<1>. QED
  BY <1>4, <1>5, <1>6 DEF seen, anchor

(* A message is unmapped only when it is deleted, or when a comparison takes *)
(* it for deleted that is newer than all its job was shown.                  *)
LEMMA MappedStays ==
    ASSUME RecoveryInv, Next
    PROVE  \A i \in mapped \ mapped' :
               i \in Deleted
               \/ (work.pc = "delete" /\ i \in Messages(work.chat) /\ NewerThanShown(i))
<1>1. CASE UNCHANGED <<mapped, removed>>
  BY <1>1
<1>2. CASE EnqueueCatchupMessage \/ Sends
  BY <1>2 DEF EnqueueCatchupMessage, Sends, Send
<1>3. CASE DeleteMessage
  <2>1. PICK k \in work.todo : mapped' = mapped \ {k} /\ work.pc = "delete"
    BY <1>3 DEF DeleteMessage
  <2>2. k \in Messages(work.chat) /\ (k \in Deleted \/ NewerThanShown(k))
    BY <2>1 DEF RecoveryInv, OnlyDeleted
  <2>. QED
    BY <2>1, <2>2
<1>4. CASE Processes
  <2>1. PICK row \in recorded : ProcessEvent(row)
    BY <1>4 DEF Processes
  <2>2. row[2] \in 1 .. Len(log) /\ log[row[2]] \in Event
    <3>1. log \in Seq(Event) /\ \A r \in recorded : r[2] \in 1 .. Len(log)
      BY DEF RecoveryInv, TypeInv, Journal, IntakeInv, IntakeTypes, Ids
    <3>. QED
      BY <3>1
  <2>3. log[row[2]].type = "delete" => log[row[2]].id \in Deleted
    BY <2>2 DEF Deleted
  <2>4. log[row[2]].type \in {"message", "delete"}
    BY <2>2 DEF Event
  <2>. QED
    BY <2>1, <2>3, <2>4 DEF ProcessEvent
<1>. QED
  BY <1>1, <1>2, <1>3, <1>4, NextSteps, PollFrame, WorkFrame, OtherFrame

(* What a job or its page has shown stays mapped while it exists. *)
LEMMA ShownStaysMapped ==
    ASSUME RecoveryInv, Next, NEW c \in Chats, NEW i \in Existing(c)', i \in mapped,
           i \in job[c].seen \/ (work.pc # "idle" /\ work.chat = c /\ i \in work.page)
    PROVE  i \in mapped'
<1> SUFFICES ASSUME i \notin mapped' PROVE FALSE
  OBVIOUS
<1>1. /\ i \in Ids /\ i \in Nat /\ Len(log) \in Nat
      /\ log \in Seq(Event) /\ mapped \subseteq Ids
  BY DEF RecoveryInv, TypeInv, Logged, IntakeInv, IntakeTypes, Ids
<1>2. i \in Existing(c) /\ i \notin Deleted
  <2>1. i <= Len(log)
    BY <1>1 DEF Ids
  <2>. QED
    BY <2>1, ZulipGrows DEF RecoveryInv
<1>3. work.pc = "delete" /\ i \in Messages(work.chat) /\ NewerThanShown(i)
  BY <1>2, MappedStays
<1>4. work.chat = c
  BY <1>2, <1>3 DEF Existing, Messages
<1>5. i \in work.job.seen \cup work.page
  BY <1>3, <1>4 DEF RecoveryInv, Held
<1>. QED
  BY <1>1, <1>3, <1>5 DEF NewerThanShown

(* A row that does not change keeps what it says. *)
LEMMA RowStays ==
    ASSUME RecoveryInv, Next, NEW c \in Chats, job'[c] = job[c]
    PROVE  RowOK(c)'
<1>0. RowOK(c) /\ TypeInv /\ job[c] \in Job
  BY DEF RecoveryInv, Rows, TypeInv, Queued
<1>1. ASSUME NEW i \in Existing(c)', i \in job[c].seen
      PROVE  i \in mapped'
  <2>1. i \in Existing(c)
    <3>1. i \in Ids
      BY <1>0, <1>1 DEF RowOK, InLog
    <3>2. i <= Len(log)
      BY <3>1, LogGrows, <1>0 DEF Ids
    <3>. QED
      BY <1>0, <3>2, ZulipGrows
  <2>2. i \in mapped
    BY <1>0, <1>1, <2>1 DEF RowOK
  <2>. QED
    BY <1>1, <2>2, ShownStaysMapped
<1>2. InLog(job[c]) /\ NoHole(c, job[c].seen)
      /\ (job[c].state = "pending" => Downward(c, job[c].anchor, job[c].seen))
  BY <1>0 DEF RowOK
<1>3. /\ job[c].seen \subseteq Ids' /\ (job[c].anchor # None => job[c].anchor <= Len(log'))
      /\ \A p, q \in job[c].seen : \A i \in Existing(c)' :
             p <= i /\ i <= q => i \in job[c].seen
      /\ job[c].state = "pending" /\ job[c].anchor # None =>
           \A q \in job[c].seen :
               /\ q > job[c].anchor
               /\ \A i \in Existing(c)' : i > job[c].anchor /\ i <= q => i \in job[c].seen
  BY <1>0, <1>2, ShownStays
<1>4. job[c].state = "pending" /\ job[c].anchor = None => job[c].seen = {}
  BY <1>2 DEF Downward
<1>5. job[c].state # "absent" => c \in known'
  BY <1>0, KnownGrows DEF RowOK
<1>. QED
  BY <1>1, <1>3, <1>4, <1>5 DEF RowOK, InLog, Downward, NoHole

(* The worker's copy of a row keeps what it says, whether its row stays or   *)
(* starts over.                                                              *)
LEMMA HeldStays ==
    ASSUME RecoveryInv, Next, work.pc # "idle", work'.chat = work.chat, work'.job = work.job,
           \/ job'[work.chat] = job[work.chat]
           \/ job'[work.chat].state = "pending" /\ job'[work.chat].seen = {}
    PROVE  Held'
<1>0. /\ work.chat \in Chats /\ work.job \in Job /\ TypeInv
      /\ InLog(work.job) /\ Downward(work.chat, work.job.anchor, work.job.seen)
      /\ job[work.chat].state = "pending"
      /\ work.job = job[work.chat] \/ job[work.chat].seen = {}
  BY DEF RecoveryInv, TypeInv, Paged, Work, Held
<1>1. ASSUME NEW c \in Chats, c = work.chat
      PROVE  /\ work.job.seen \subseteq Ids'
             /\ work.job.anchor # None => work.job.anchor <= Len(log')
             /\ work.job.anchor # None =>
                  \A q \in work.job.seen :
                      /\ q > work.job.anchor
                      /\ \A i \in Existing(c)' :
                             i > work.job.anchor /\ i <= q => i \in work.job.seen
  BY <1>0, <1>1, ShownStays
<1>2. work.job.anchor = None => work.job.seen = {}
  BY <1>0 DEF Downward
<1>3. InLog(work.job)' /\ Downward(work.chat, work.job.anchor, work.job.seen)'
  BY <1>0, <1>1, <1>2 DEF InLog, Downward, Existing, Messages
<1>. QED
  BY <1>0, <1>3 DEF Held

(* A page that does not change keeps what it says. *)
LEMMA PageStays ==
    ASSUME RecoveryInv, Next, work.pc \in HasPage,
           work'.chat = work.chat, work'.job = work.job, work'.page = work.page
    PROVE  WholePage'
<1>1. /\ Len(log) \in Nat /\ work.chat \in Chats /\ work.page \subseteq Ids
      /\ work.job.anchor \in Nat \cup {None}
      /\ work.job.anchor # None => work.job.anchor <= Len(log)
  BY LogGrows DEF RecoveryInv, TypeInv, Paged, HasPage, Work, Job, Held, InLog
<1>2. ASSUME NEW c \in Chats, c = work.chat, NEW i \in Existing(c)', Covered(i), Reached(i)
      PROVE  i \in work.page
  <2>1. i \in Nat /\ (i <= Len(log) => i \in Existing(c))
    BY ZulipGrows DEF RecoveryInv
  <2>2. i <= Len(log)
    <3>1. ASSUME NEW p \in work.page, i <= p PROVE i <= Len(log)
      BY <1>1, <2>1, <3>1 DEF Ids
    <3>. QED
      BY <1>1, <1>2, <2>1, <3>1 DEF Covered
  <2>. QED
    BY <1>2, <2>1, <2>2 DEF RecoveryInv, WholePage
<1>3. \A i : (Reached(i)' => Reached(i)) /\ (Covered(i)' => Covered(i))
  BY DEF Reached, Covered
<1>4. work.job.anchor # None => \A p \in work.page : p <= work.job.anchor
  BY DEF RecoveryInv, WholePage
<1>. QED
  BY <1>1, <1>2, <1>3, <1>4 DEF WholePage, Existing, Messages

(* What is written of the page stays written. *)
LEMMA PageWrittenStays ==
    ASSUME RecoveryInv, Next, work.pc \in Writes,
           work'.chat = work.chat, work'.page = work.page,
           \A i \in work.page \cap work.todo : work.pc = "enqueue" =>
              i \in mapped' \/ (work'.pc = "enqueue" /\ i \in work'.todo)
    PROVE  PageWritten'
<1>0. work.chat \in Chats /\ work.page \subseteq Ids /\ Len(log) \in Nat /\ work.pc # "idle"
  BY LogGrows DEF RecoveryInv, TypeInv, Paged, Writes
<1>1. ASSUME NEW c \in Chats, c = work.chat, NEW i \in work.page, i \in Existing(c)'
      PROVE  i \in mapped' \/ (work'.pc = "enqueue" /\ i \in work'.todo)
  <2>1. i \in Existing(c)
    <3>1. i <= Len(log)
      BY <1>0 DEF Ids
    <3>. QED
      BY <1>1, <3>1, ZulipGrows DEF RecoveryInv
  <2>2. i \in mapped => i \in mapped'
    BY <1>0, <1>1, ShownStaysMapped
  <2>3. i \in mapped \/ (work.pc = "enqueue" /\ i \in work.todo)
    BY <1>1, <2>1 DEF RecoveryInv, PageWritten
  <2>. QED
    BY <2>2, <2>3
<1>. QED
  BY <1>0, <1>1 DEF PageWritten, Existing, Messages

(* A step after which the worker is idle. *)
LEMMA NothingHeld ==
    ASSUME work' = WorkIdle
    PROVE  Held' /\ WholePage' /\ OnlyDeleted' /\ PageWritten'
BY IdleWork DEF Held, WholePage, OnlyDeleted, PageWritten, HasPage, Writes

(* The page that message_history returns. *)
LEMMA FetchedPage ==
    ASSUME RecoveryInv, FetchPage
    PROVE  WholePage' /\ OnlyDeleted' /\ PageWritten'
<1> DEFINE older == {i \in Existing(work.chat) :
                       work.job.anchor = None \/ i < work.job.anchor}
           newest == Newest(older, PageSize)
           page == newest \cup (Existing(work.chat) \cap {work.job.anchor})
<1>1. /\ work.pc = "fetch" /\ work' = [work EXCEPT !.pc = "fetched", !.page = page]
      /\ UNCHANGED log
  BY DEF FetchPage, zulipVars
<1>2. work \in Work /\ work.job \in Job /\ Len(log) \in Nat
  BY DEF RecoveryInv, TypeInv, IntakeInv, IntakeTypes, Paged, Work
<1>3. /\ work'.pc = "fetched" /\ work'.page = page /\ work'.chat = work.chat
      /\ work'.job = work.job
  BY <1>1, <1>2 DEF Work
<1>4. older \in SUBSET (1 .. Len(log)) /\ Existing(work.chat) \subseteq 1 .. Len(log)
  BY DEF Existing, Messages
<1>5. PageSize \in Nat \ {0}
  BY IntakeAssumption
<1>5a. work.job.anchor \in Nat \cup {None} /\ None \notin Nat
  BY <1>2, IntakeAssumption DEF Job
<1>5b. \A i \in older : work.job.anchor # None => i < work.job.anchor
  OBVIOUS
<1> HIDE DEF older
<1>6. /\ IsFiniteSet(older) /\ newest \subseteq older
      /\ \A i \in older \ newest :
           (\A p \in newest : p > i) /\ Cardinality(newest) >= PageSize
  BY <1>2, <1>4, <1>5, NewestType
<1> HIDE DEF newest
<1>7. page \in SUBSET (1 .. Len(log)) /\ newest \in SUBSET page
  BY <1>4, <1>6
<1>8. IsFiniteSet(page)
  <2>1. IsFiniteSet(1 .. Len(log))
    BY <1>2, FS_Interval
  <2>. QED
    BY <1>7, <2>1, FS_Subset
<1>9. Cardinality(newest) \in Nat /\ Cardinality(page) \in Nat
      /\ Cardinality(newest) <= Cardinality(page)
  BY <1>7, <1>8, FS_Subset, FS_CardinalityType
<1>9a. work.job.anchor # None => \A p \in page : p <= work.job.anchor
  <2> SUFFICES ASSUME work.job.anchor # None, NEW p \in page PROVE p <= work.job.anchor
    OBVIOUS
  <2>1. p \in Nat /\ work.job.anchor \in Nat
    BY <1>5a, <1>7
  <2>2. p \in newest \/ p = work.job.anchor
    OBVIOUS
  <2>. QED
    BY <1>5b, <1>6, <2>1, <2>2
<1>10. ASSUME NEW i \in Existing(work.chat),
              work.job.anchor = None \/ i <= work.job.anchor,
              (\E p \in page : p <= i) \/ Cardinality(page) < PageSize
       PROVE  i \in page
  <2>1. i \in 1 .. Len(log) /\ i \in Nat
    BY <1>4
  <2>2. work.job.anchor \in Nat \cup {None} /\ None \notin Nat
    BY <1>5a
  <2>3. CASE i = work.job.anchor
    BY <2>3
  <2>4. CASE i # work.job.anchor
    <3>1. i \in older
      BY <1>10, <2>1, <2>2, <2>4 DEF older
    <3> SUFFICES ASSUME i \notin newest PROVE FALSE
      OBVIOUS
    <3>2. (\A p \in newest : p > i) /\ Cardinality(newest) >= PageSize
      BY <1>6, <3>1
    <3>3. ~ (Cardinality(page) < PageSize)
      <4> HIDE DEF page
      <4>. QED
        BY <1>5, <1>9, <3>2
    <3>4. ASSUME NEW p \in page PROVE p > i
      <4>1. CASE p \in newest
        BY <3>2, <4>1
      <4>2. CASE p = work.job.anchor /\ p \in 1 .. Len(log)
        <5>1. p \in Nat /\ work.job.anchor # None
          BY <2>2, <4>2
        <5>. QED
          BY <1>10, <2>1, <2>4, <4>2, <5>1
      <4>. QED
        BY <1>4, <4>1, <4>2
    <3>5. ASSUME NEW p \in page, p <= i PROVE FALSE
      <4>1. p \in Nat /\ p > i
        BY <1>7, <3>4
      <4>. QED
        BY <2>1, <3>5, <4>1
    <3>. QED
      BY <1>10, <3>3, <3>5
  <2>. QED
    BY <2>3, <2>4
<1> HIDE DEF page
<1>11. Existing(work.chat)' = Existing(work.chat)
  BY <1>1, <1>3 DEF Existing, Messages, Deleted
<1>12. \A i : /\ Reached(i)' => (\E p \in page : p <= i) \/ Cardinality(page) < PageSize
              /\ Covered(i)' => work.job.anchor = None \/ i <= work.job.anchor
  BY <1>3 DEF Reached, Covered
<1>13. WholePage'
  BY <1>3, <1>9a, <1>10, <1>11, <1>12 DEF WholePage
<1>. QED
  BY <1>3, <1>13 DEF OnlyDeleted, PageWritten, Writes

(* What is compared with the pages and is not deleted is newer than they.    *)
LEMMA UnseenIsNewer ==
    ASSUME RecoveryInv, work.pc = "compare", NEW i \in MappedOf(work.chat),
           i >= work.job.checkpoint,
           i \notin work.job.seen, i \notin work.page, i \notin Deleted
    PROVE  NewerThanShown(i)
<1>1. /\ work.chat \in Chats /\ Complete /\ work.job.checkpoint # None /\ work \in Work
      /\ Downward(work.chat, work.job.anchor, work.job.seen)
  BY DEF RecoveryInv, TypeInv, Paged, Held, OnlyDeleted
<1>2. i \in Existing(work.chat) /\ i \in Nat
  BY DEF MappedOf, Existing, Messages
<1>3. /\ work.job.anchor \in Nat \cup {None} /\ work.job.checkpoint \in Nat
      /\ None \notin Nat /\ work.page \subseteq Nat /\ work.job.seen \subseteq Nat
  BY <1>1, IntakeAssumption DEF Work, Job
<1>4. Reached(i)
  <2>1. CASE Cardinality(work.page) < PageSize
    BY <2>1 DEF Reached
  <2>2. ASSUME NEW p \in work.page, p <= work.job.checkpoint PROVE p <= i
    <3>1. p \in Nat
      BY <1>3
    <3>. QED
      BY <1>2, <1>3, <2>2, <3>1
  <2>. QED
    BY <1>1, <2>1, <2>2 DEF Complete, Reached
<1>5. /\ Covered(i) => i \in work.page
      /\ work.job.anchor # None => \A p \in work.page : p <= work.job.anchor
  BY <1>2, <1>4 DEF RecoveryInv, WholePage, HasPage
<1>6. ASSUME NEW p \in work.job.seen \cup work.page, i <= p PROVE FALSE
  <2>1. p \in Nat
    BY <1>3
  <2>2. CASE work.job.anchor = None
    BY <1>1, <1>5, <1>6, <2>2 DEF Covered, Downward
  <2>3. CASE work.job.anchor # None
    <3>1. i > work.job.anchor /\ work.job.anchor \in Nat
      BY <1>2, <1>3, <1>5, <2>3 DEF Covered
    <3>2. p \in work.job.seen
      BY <1>2, <1>5, <1>6, <2>1, <2>3, <3>1
    <3>. QED
      BY <1>1, <1>2, <1>6, <2>3, <3>1, <3>2 DEF Downward
  <2>. QED
    BY <2>2, <2>3
<1>7. \A p \in work.job.seen \cup work.page : p \in Nat
  BY <1>3
<1>. QED
  BY <1>2, <1>6, <1>7 DEF NewerThanShown

(* A page joins what the row has seen without a hole, and the next page      *)
(* starts where this one ends.                                               *)
LEMMA PageJoins ==
    ASSUME RecoveryInv, work.pc \in HasPage
    PROVE  LET ids == job[work.chat].seen \cup work.page
           IN  /\ NoHole(work.chat, ids)
               /\ ids \subseteq Ids
               /\ work.page # {} => Downward(work.chat, Min(work.page) - 1, ids)
                                    /\ Min(work.page) - 1 <= Len(log)
<1> DEFINE old == job[work.chat].seen
           page == work.page
           anchor == work.job.anchor
           E == Existing(work.chat)
<1>1. /\ work.chat \in Chats /\ work \in Work /\ page \subseteq Ids /\ RowOK(work.chat)
      /\ Len(log) \in Nat /\ work.job.seen \subseteq Ids
      /\ Downward(work.chat, anchor, work.job.seen)
      /\ old = work.job.seen \/ old = {}
  BY DEF RecoveryInv, TypeInv, IntakeInv, IntakeTypes, Paged, HasPage, Held, Rows, InLog
<1>2. /\ anchor \in Nat \cup {None} /\ None \notin Nat /\ E \subseteq Nat
      /\ page \subseteq Ids /\ old \subseteq Ids /\ Ids \subseteq Nat
      /\ \A i \in Ids : i <= Len(log)
  BY <1>1, IntakeAssumption DEF Work, Job, Existing, Messages, RowOK, InLog, Ids
<1>3. anchor = None => old = {}
  BY <1>1 DEF Downward
<1>4. anchor # None =>
        \A q \in old : q > anchor /\ \A i \in E : i > anchor /\ i <= q => i \in old
  BY <1>1 DEF Downward
<1>5. /\ anchor # None => \A p \in page : p <= anchor
      /\ \A i \in E : /\ IF anchor = None THEN \E p \in page : i <= p ELSE i <= anchor
                      /\ \E p \in page : p <= i
                      => i \in page
  BY DEF RecoveryInv, WholePage, Covered, Reached
<1>6. page # {} => Min(page) \in page /\ \A p \in page : Min(page) <= p
  BY <1>2, Least
<1> DEFINE m == Min(page)
<1> HIDE DEF old, page, anchor, E, m
<1>7. ASSUME NEW p \in old \cup page, NEW q \in old \cup page, NEW i \in E, p <= i, i <= q
      PROVE  i \in old \cup page
  <2>1. p \in Nat /\ q \in Nat /\ i \in Nat
    BY <1>2
  <2>2. CASE anchor = None
    BY <1>3, <1>5, <1>7, <2>2
  <2>3. CASE anchor # None /\ i <= anchor
    <3>1. anchor \in Nat
      BY <1>2, <2>3
    <3>2. p \in page
      BY <1>4, <1>7, <2>1, <2>3, <3>1
    <3>. QED
      BY <1>5, <1>7, <2>3, <3>2
  <2>4. CASE anchor # None /\ ~ (i <= anchor)
    <3>1. anchor \in Nat /\ i > anchor
      BY <1>2, <2>1, <2>4
    <3>2. q \in old
      BY <1>5, <1>7, <2>1, <2>4, <3>1
    <3>. QED
      BY <1>4, <1>7, <2>4, <3>1, <3>2
  <2>. QED
    BY <2>2, <2>3, <2>4
<1>8. ASSUME page # {}
      PROVE  /\ m - 1 # None /\ m - 1 <= Len(log)
             /\ \A q \in old \cup page :
                  /\ q > m - 1
                  /\ \A i \in E : i > m - 1 /\ i <= q => i \in old \cup page
  <2>1. m \in page /\ m \in Nat /\ m \in Ids /\ m <= Len(log) /\ \A p \in page : m <= p
    BY <1>2, <1>6, <1>8 DEF m
  <2>2. m - 1 \in Nat /\ m - 1 # None
    BY <1>2, <2>1 DEF Ids
  <2>3. ASSUME NEW q \in old \cup page PROVE q > m - 1
    <3>1. q \in Nat
      BY <1>2
    <3>2. CASE q \in page
      BY <2>1, <3>1, <3>2
    <3>3. CASE q \in old
      <4>1. anchor \in Nat /\ m <= anchor /\ q > anchor
        BY <1>2, <1>3, <1>4, <1>5, <2>1, <3>3
      <4>. QED
        BY <2>1, <3>1, <4>1
    <3>. QED
      BY <3>2, <3>3
  <2>4. ASSUME NEW q \in old \cup page, NEW i \in E, i > m - 1, i <= q
        PROVE  i \in old \cup page
    <3>1. i \in Nat /\ m <= i
      BY <1>2, <2>1, <2>4
    <3>. QED
      BY <1>7, <2>1, <2>4, <3>1
  <2>. QED
    BY <1>1, <2>1, <2>2, <2>3, <2>4
<1>9. NoHole(work.chat, old \cup page)
  BY <1>7 DEF NoHole, E
<1>10. page # {} => Downward(work.chat, m - 1, old \cup page) /\ m - 1 <= Len(log)
  BY <1>8 DEF Downward, E
<1>. QED
  BY <1>2, <1>9, <1>10 DEF old, page, m

(* The row that a page writes back. *)
LEMMA AdvanceRecovers ==
    ASSUME RecoveryInv, Next, Advances
    PROVE  Rows'
<1>1. /\ work.pc # "idle" /\ work.chat \in Chats
      /\ \/ /\ AdvanceProviderCatchup
            /\ Advance(IF Complete THEN "complete" ELSE "pending", work.page,
                       IF work.page = {} THEN None ELSE Min(work.page) - 1)
         \/ CatchupLimitExceeded /\ Advance("manual", {}, None)
      /\ UNCHANGED <<log, mapped, known>> /\ Queued
  BY AdvancesType DEF RecoveryInv, TypeInv
<1>2. /\ RowOK(work.chat) /\ job[work.chat].state = "pending"
      /\ job \in [Chats -> Job]
  BY <1>1 DEF RecoveryInv, Rows, Held, Queued
<1>3. ASSUME NEW c \in Chats, c # work.chat, job'[c] = job[c] PROVE RowOK(c)'
  BY <1>3, RowStays
<1>4. ASSUME NEW state \in JobStates \ {"absent"}, NEW page \in SUBSET Nat,
             NEW anchor \in Nat \cup {None}, Advance(state, page, anchor),
             anchor # None => anchor <= Len(log),
             page \subseteq Ids, NoHole(work.chat, job[work.chat].seen \cup page),
             \A i \in page : i \in Existing(work.chat) => i \in mapped,
             state = "pending" =>
                 Downward(work.chat, anchor, job[work.chat].seen \cup page)
      PROVE  Rows'
  <2>1. /\ \A c \in Chats : c # work.chat => job'[c] = job[c]
        /\ job'[work.chat].state = state
        /\ job'[work.chat].anchor = anchor
        /\ job'[work.chat].seen = job[work.chat].seen \cup page
    BY <1>1, <1>2, <1>4, AdvanceType
  <2>2. ASSUME NEW c \in Chats, c = work.chat PROVE RowOK(c)'
    <3>1. /\ c \in known /\ job[c].seen \subseteq Ids
          /\ \A i \in Existing(c) : i \in job[c].seen => i \in mapped
      BY <1>2, <2>2 DEF RowOK, InLog
    <3>2. job'[c].seen \subseteq Ids' /\ (job'[c].anchor # None => job'[c].anchor <= Len(log'))
      BY <1>1, <1>4, <2>1, <2>2, <3>1 DEF Ids
    <3>3. Existing(c)' = Existing(c)
      BY <1>1 DEF Existing, Messages, Deleted
    <3>4. \A i \in Existing(c)' : i \in job'[c].seen => i \in mapped'
      BY <1>1, <1>4, <2>1, <2>2, <3>1, <3>3
    <3>5. NoHole(c, job[c].seen)'
      BY <1>4, <2>1, <2>2, <3>3 DEF NoHole
    <3>6. (job[c].state = "pending" => Downward(c, job[c].anchor, job[c].seen))'
      BY <1>4, <2>1, <2>2, <3>3 DEF Downward
    <3>. QED
      BY <1>1, <3>1, <3>2, <3>4, <3>5, <3>6 DEF RowOK, InLog
  <2>. QED
    BY <1>3, <2>1, <2>2 DEF Rows
<1>5. CASE CatchupLimitExceeded /\ Advance("manual", {}, None)
  <2>1. "manual" \in JobStates \ {"absent"} /\ {} \in SUBSET Nat /\ None \in Nat \cup {None}
    BY DEF JobStates
  <2>2. NoHole(work.chat, job[work.chat].seen \cup {})
    BY <1>2 DEF RowOK, NoHole
  <2>. QED
    BY <1>4, <1>5, <2>1, <2>2
<1>6. CASE AdvanceProviderCatchup
  <2> DEFINE state == IF Complete THEN "complete" ELSE "pending"
             anchor == IF work.page = {} THEN None ELSE Min(work.page) - 1
  <2>1. state \in JobStates \ {"absent"}
    BY DEF JobStates
  <2>2. work.page \in SUBSET Nat /\ anchor \in Nat \cup {None}
    BY PageType DEF RecoveryInv
  <2>3. Advance(state, work.page, anchor)
    BY <1>6 DEF AdvanceProviderCatchup
  <2>4. work.pc \in HasPage
    BY <1>6 DEF AdvanceProviderCatchup, HasPage
  <2>5. /\ NoHole(work.chat, job[work.chat].seen \cup work.page)
        /\ work.page \subseteq Ids
        /\ work.page # {} =>
             /\ Downward(work.chat, Min(work.page) - 1, job[work.chat].seen \cup work.page)
             /\ Min(work.page) - 1 <= Len(log)
    BY <2>4, PageJoins DEF RecoveryInv, TypeInv, Paged
  <2>6. \A i \in work.page : i \in Existing(work.chat) => i \in mapped
    BY <1>6 DEF AdvanceProviderCatchup, RecoveryInv, PageWritten, Writes
  <2>7. state = "pending" => work.page # {}
    <3>1. Cardinality({}) = 0 /\ PageSize > 0
      BY FS_EmptySet, IntakeAssumption
    <3>. QED
      BY <3>1 DEF Complete
  <2>8. state = "pending" => Downward(work.chat, anchor, job[work.chat].seen \cup work.page)
    BY <2>5, <2>7
  <2>9. anchor # None => anchor <= Len(log)
    BY <2>5
  <2> HIDE DEF state, anchor
  <2>. QED
    BY <1>4, <2>1, <2>2, <2>3, <2>5, <2>6, <2>8, <2>9
<1>. QED
  BY <1>1, <1>5, <1>6

LEMMA WorkStepRecovers ==
    ASSUME RecoveryInv, Next, WorkStep
    PROVE  Rows' /\ Held' /\ WholePage' /\ OnlyDeleted' /\ PageWritten'
<1>0. work \in Work /\ UNCHANGED <<log, known>>
  BY WorkFrame DEF RecoveryInv, TypeInv, Paged
<1>1. ASSUME UNCHANGED job PROVE Rows'
  BY <1>1, RowStays DEF Rows
<1>2. ASSUME NEW c \in Chats, TakeJob(c)
      PROVE  Rows' /\ Held' /\ WholePage' /\ OnlyDeleted' /\ PageWritten'
  <2>1. UNCHANGED job /\ job[c].state = "pending"
    BY <1>2 DEF TakeJob, HeadJob, jobVars
  <2>2. /\ work'.pc \in {"limit", "fetch"}
        /\ work'.chat = c /\ work'.job = job[c]
    BY <1>2 DEF TakeJob, WorkIdle
  <2>3. Rows'
    BY <1>1, <2>1
  <2>4. Held'
    <3>1. RowOK(c)'
      BY <2>3 DEF Rows
    <3>2. InLog(work.job)' /\ Downward(work.chat, work.job.anchor, work.job.seen)'
      BY <2>1, <2>2, <3>1 DEF RowOK, InLog, Downward, Existing, Messages
    <3>. QED
      BY <2>1, <2>2, <3>2 DEF Held
  <2>. QED
    BY <2>2, <2>3, <2>4 DEF WholePage, OnlyDeleted, PageWritten, HasPage, Writes
<1>3. CASE FetchPage
  <2>1. UNCHANGED job /\ work.pc = "fetch" /\ work'.chat = work.chat /\ work'.job = work.job
    BY <1>0, <1>3 DEF FetchPage, jobVars, Work
  <2>2. Held'
    BY <2>1, HeldStays
  <2>. QED
    BY <1>1, <1>3, <2>1, <2>2, FetchedPage
<1>4. ASSUME UNCHANGED job, work.pc \in HasPage, work'.pc \in HasPage,
             work'.chat = work.chat, work'.job = work.job, work'.page = work.page
      PROVE  Rows' /\ Held' /\ WholePage'
  <2>1. work.pc # "idle"
    BY <1>4 DEF HasPage
  <2>. QED
    BY <1>1, <1>4, <2>1, HeldStays, PageStays
<1>5. CASE CheckParticipants /\ work' = [work EXCEPT !.pc = "enqueue", !.todo = work.page]
  <2>1. UNCHANGED job /\ work.pc = "fetched"
    BY <1>5 DEF CheckParticipants, jobVars
  <2>2. /\ work'.pc = "enqueue" /\ work'.chat = work.chat /\ work'.job = work.job
        /\ work'.page = work.page /\ work'.todo = work.page
    BY <1>0, <1>5 DEF Work
  <2>. QED
    BY <1>4, <2>1, <2>2 DEF HasPage, OnlyDeleted, PageWritten
<1>6. CASE EnqueueCatchupMessage
  <2> DEFINE k == Max(work.todo)
  <2>1. /\ UNCHANGED job /\ work.pc = "enqueue" /\ mapped' = mapped \cup {k}
        /\ work' = [work EXCEPT !.todo = work.todo \ {k}]
    BY <1>6 DEF EnqueueCatchupMessage, jobVars
  <2> HIDE DEF k
  <2>2. /\ work'.pc = "enqueue" /\ work'.chat = work.chat /\ work'.job = work.job
        /\ work'.page = work.page /\ work'.todo = work.todo \ {k}
    BY <1>0, <2>1 DEF Work
  <2>3. PageWritten'
    BY <2>1, <2>2, PageWrittenStays DEF Writes
  <2>. QED
    BY <1>4, <2>1, <2>2, <2>3 DEF HasPage, OnlyDeleted
<1>7. CASE PageEnqueued
  <2> DEFINE pc == IF Complete /\ work.job.checkpoint # None THEN "compare" ELSE "advance"
  <2>1. UNCHANGED job /\ work.pc = "enqueue" /\ work.todo = {}
        /\ work' = [work EXCEPT !.pc = pc]
    BY <1>7 DEF PageEnqueued, jobVars
  <2>2. /\ pc \in {"compare", "advance"}
        /\ pc = "compare" => Complete /\ work.job.checkpoint # None
    OBVIOUS
  <2> HIDE DEF pc
  <2>3. /\ work'.pc = pc /\ work'.chat = work.chat /\ work'.job = work.job
        /\ work'.page = work.page
    BY <1>0, <2>1 DEF Work
  <2>4. Complete => Complete'
    BY <2>3 DEF Complete
  <2>5. OnlyDeleted'
    BY <2>2, <2>3, <2>4 DEF OnlyDeleted
  <2>6. PageWritten'
    BY <2>1, <2>3, PageWrittenStays DEF Writes
  <2>. QED
    BY <1>4, <2>1, <2>2, <2>3, <2>5, <2>6 DEF HasPage
<1>8. CASE FindDeleted
  <2> DEFINE todo == {i \in MappedOf(work.chat) : i >= work.job.checkpoint}
                       \ (work.job.seen \cup work.page)
  <2>1. /\ UNCHANGED job /\ work.pc = "compare"
        /\ work' = [work EXCEPT !.pc = "delete", !.todo = todo]
    BY <1>8 DEF FindDeleted, jobVars
  <2>2. \A i \in todo : i \in Messages(work.chat) /\ (i \in Deleted \/ NewerThanShown(i))
    BY <2>1, UnseenIsNewer DEF MappedOf
  <2> HIDE DEF todo
  <2>3. /\ work'.pc = "delete" /\ work'.chat = work.chat /\ work'.job = work.job
        /\ work'.page = work.page /\ work'.todo = todo
    BY <1>0, <2>1 DEF Work
  <2>4. OnlyDeleted'
    BY <1>0, <2>2, <2>3 DEF OnlyDeleted, Deleted, Messages, NewerThanShown
  <2>5. PageWritten'
    BY <2>1, <2>3, PageWrittenStays DEF Writes
  <2>. QED
    BY <1>4, <2>1, <2>3, <2>4, <2>5 DEF HasPage
<1>9. CASE DeleteMessage
  <2>1. PICK i \in work.todo : work' = [work EXCEPT !.todo = work.todo \ {i}]
    BY <1>9 DEF DeleteMessage
  <2>2. UNCHANGED job /\ work.pc = "delete"
    BY <1>9 DEF DeleteMessage, jobVars
  <2>3. /\ work'.pc = "delete" /\ work'.chat = work.chat /\ work'.job = work.job
        /\ work'.page = work.page /\ work'.todo = work.todo \ {i}
    BY <1>0, <2>1, <2>2 DEF Work
  <2>4. OnlyDeleted'
    BY <1>0, <2>2, <2>3 DEF RecoveryInv, OnlyDeleted, Deleted, Messages, NewerThanShown
  <2>5. PageWritten'
    BY <2>2, <2>3, PageWrittenStays DEF Writes
  <2>. QED
    BY <1>4, <2>2, <2>3, <2>4, <2>5 DEF HasPage
<1>10. CASE Advances
  <2>1. work' = WorkIdle
    BY <1>10, AdvancesType DEF RecoveryInv
  <2>. QED
    BY <1>10, <2>1, AdvanceRecovers, NothingHeld
<1>11. CASE CheckParticipants /\ work' = WorkIdle
  BY <1>1, <1>11, NothingHeld DEF CheckParticipants, jobVars
<1>. QED
  BY <1>2, <1>3, <1>5, <1>6, <1>7, <1>8, <1>9, <1>10, <1>11
     DEF WorkStep, Advances, CheckParticipants

(* Every job of a chat that the account knows starts over. *)
LEMMA StartRecovers ==
    ASSUME RecoveryInv, Next, Starts
    PROVE  /\ Rows'
           /\ UNCHANGED <<log, work, mapped>>
           /\ work.pc # "idle" => job'[work.chat].state = "pending" /\ job'[work.chat].seen = {}
<1>1. UNCHANGED <<log, work, mapped, known>>
  BY DEF Starts, BeginProviderQueueCatchup, zulipVars, messageVars
<1>2. job' = [c \in Chats |->
                IF c \in known THEN [NoJob EXCEPT !.state = "pending",
                                                 !.checkpoint = Checkpoint(c)]
                ELSE job[c]]
  BY DEF Starts, BeginProviderQueueCatchup
<1>3. ASSUME NEW c \in Chats, c \in known
      PROVE  job'[c].anchor = None /\ job'[c].seen = {} /\ job'[c].state = "pending"
  <2> DEFINE first == [NoJob EXCEPT !.state = "pending", !.checkpoint = Checkpoint(c)]
  <2>1. job'[c] = first
    BY <1>2, <1>3
  <2>. QED
    BY <2>1 DEF NoJob
<1>4. ASSUME NEW c \in Chats PROVE RowOK(c)'
  <2>1. CASE c \in known
    BY <1>1, <1>3, <2>1 DEF RowOK, InLog, Downward, NoHole
  <2>2. CASE c \notin known
    BY <1>2, <2>2, RowStays
  <2>. QED
    BY <2>1, <2>2
<1>5. work.pc # "idle" => work.chat \in Chats /\ work.chat \in known
  BY DEF RecoveryInv, TypeInv, Paged, Held, Rows, RowOK
<1>. QED
  BY <1>1, <1>3, <1>4, <1>5 DEF Rows

LEMMA RecoveryKept == RecoveryInv /\ [Next]_vars => RecoveryInv'
<1> SUFFICES ASSUME RecoveryInv, [Next]_vars PROVE RecoveryInv'
  OBVIOUS
<1>0. TypeInv'
  BY TypeKept DEF RecoveryInv
<1>1. CASE UNCHANGED vars
  <2>1. UNCHANGED <<log, job, known, mapped, work>>
    BY <1>1 DEF vars, zulipVars, jobVars, messageVars
  <2>2. Rows'
    BY <2>1 DEF RecoveryInv, Rows, RowOK, InLog, Ids, Downward, NoHole, Existing, Messages,
       Deleted
  <2>3. Held'
    BY <2>1 DEF RecoveryInv, Held, InLog, Ids, Downward, Existing, Messages, Deleted
  <2>4. WholePage' /\ OnlyDeleted' /\ PageWritten'
    BY <2>1 DEF RecoveryInv, WholePage, Covered, Reached, OnlyDeleted, Complete,
       NewerThanShown, PageWritten, Existing, Messages, Deleted
  <2>. QED
    BY <1>0, <2>2, <2>3, <2>4 DEF RecoveryInv
<1> SUFFICES ASSUME Next
             PROVE  Rows' /\ Held' /\ WholePage' /\ OnlyDeleted' /\ PageWritten'
  BY <1>0, <1>1 DEF RecoveryInv
<1>2. CASE WorkStep
  BY <1>2, WorkStepRecovers
<1>3. CASE FetchFails \/ Crash
  <2>1. work' = WorkIdle /\ UNCHANGED job
    BY <1>3 DEF FetchFails, Crash, jobVars
  <2>2. Rows'
    BY <2>1, RowStays DEF Rows
  <2>. QED
    BY <2>1, <2>2, NothingHeld
<1>4. ASSUME UNCHANGED work,
             work.pc # "idle" => \/ job'[work.chat] = job[work.chat]
                                 \/ /\ job'[work.chat].state = "pending"
                                    /\ job'[work.chat].seen = {}
      PROVE  Held' /\ WholePage' /\ OnlyDeleted' /\ PageWritten'
  <2>1. Held'
    <3>1. CASE work.pc # "idle"
      BY <1>4, <3>1, HeldStays
    <3>2. CASE work.pc = "idle"
      BY <1>4, <3>2 DEF Held
    <3>. QED
      BY <3>1, <3>2
  <2>2. WholePage'
    <3>1. CASE work.pc \in HasPage
      BY <1>4, <3>1, PageStays
    <3>2. CASE work.pc \notin HasPage
      BY <1>4, <3>2 DEF WholePage
    <3>. QED
      BY <3>1, <3>2
  <2>3. PageWritten'
    <3>1. CASE work.pc \in Writes
      BY <1>4, <3>1, PageWrittenStays
    <3>2. CASE work.pc \notin Writes
      BY <1>4, <3>2 DEF PageWritten
    <3>. QED
      BY <3>1, <3>2
  <2>4. OnlyDeleted'
    <3>1. Deleted \subseteq Deleted'
      BY ZulipGrows DEF RecoveryInv
    <3>2. work.pc = "compare" => Complete' /\ work'.job.checkpoint # None
      BY <1>4 DEF RecoveryInv, OnlyDeleted, Complete
    <3>3. ASSUME work.pc = "delete", NEW i \in work.todo
          PROVE  i \in Messages(work.chat)' /\ (i \in Deleted' \/ NewerThanShown(i)')
      <4>1. i \in Messages(work.chat) /\ (i \in Deleted \/ NewerThanShown(i))
        BY <3>3 DEF RecoveryInv, OnlyDeleted
      <4>2. work.chat \in Chats
        BY <3>3 DEF RecoveryInv, TypeInv, Paged
      <4>3. ASSUME NEW c \in Chats, c = work.chat PROVE i \in Messages(c)'
        BY <4>1, <4>3, ZulipGrows DEF RecoveryInv
      <4>4. i \in Messages(work.chat)'
        BY <1>4, <4>2, <4>3 DEF Messages
      <4>. QED
        BY <1>4, <3>1, <4>1, <4>4 DEF NewerThanShown
    <3>. QED
      BY <1>4, <3>2, <3>3 DEF OnlyDeleted
  <2>. QED
    BY <2>1, <2>2, <2>3, <2>4
<1>5. CASE UNCHANGED <<job, work>>
  BY <1>4, <1>5, RowStays DEF Rows
<1>6. CASE Starts
  BY <1>4, <1>6, StartRecovers
<1>. QED
  BY <1>2, <1>3, <1>5, <1>6, NextSteps, PollFrame, OtherFrame

LEMMA RecoveryInitially == Init => RecoveryInv
<1> SUFFICES ASSUME Init PROVE RecoveryInv
  OBVIOUS
<1>1. TypeInv
  BY TypeInitially
<1>2. \A c \in Chats : job[c] = NoJob
  BY DEF Init
<1>3. NoJob.state = "absent" /\ NoJob.seen = {} /\ NoJob.anchor = None /\ work = WorkIdle
  BY DEF NoJob, Init
<1>4. Rows
  BY <1>2, <1>3 DEF Rows, RowOK, InLog, NoHole
<1>. QED
  BY <1>1, <1>3, <1>4, IdleWork
     DEF RecoveryInv, Held, WholePage, OnlyDeleted, PageWritten, HasPage, Writes

LEMMA RecoveryHolds == Spec => []RecoveryInv
BY RecoveryInitially, RecoveryKept, PTL DEF Spec

(* _run_provider_queue_catchup takes no message for deleted that is older    *)
(* than one its job was shown: a message loses its mapping because it is     *)
(* deleted in Zulip, or because it is newer than every message of the job's  *)
(* pages, the one case in which the comparison can be wrong (the message     *)
(* came after the first page, or the row started over within a page).        *)
UnmappedForCause ==
    [][\A i \in mapped \ mapped' :
          \/ i \in Deleted
          \/ work.pc = "delete" /\ i \in Messages(work.chat) /\ NewerThanShown(i)]_vars

(* It holds whatever the size of the pages, their number, the messages that  *)
(* arrive or are deleted between two pages, failed calls, restarts and       *)
(* queues that are lost within a page.                                       *)
THEOREM SeenMessagesAreKept == Spec => UnmappedForCause
<1>1. ASSUME RecoveryInv, [Next]_vars
      PROVE  [\A i \in mapped \ mapped' :
                 \/ i \in Deleted
                 \/ work.pc = "delete" /\ i \in Messages(work.chat) /\ NewerThanShown(i)]_vars
  BY <1>1, MappedStays
<1>. QED
  BY <1>1, RecoveryHolds, PTL DEF Spec, UnmappedForCause

(* enqueue_catchup_messages and advance_provider_catchup: what lies between  *)
(* two messages that the row of a job remembers, and still exists, is in     *)
(* Workspace.                                                                *)
ShownIsMapped ==
    \A c \in Chats : \A i \in Existing(c) :
        (\E p, q \in job[c].seen : p <= i /\ i <= q) => i \in mapped

(* The pages of a recovery have no hole, and no message of theirs is left    *)
(* out, deleted by the comparison of another page or lost with a restart, a  *)
(* failed call or a queue that is lost again meanwhile.                      *)
THEOREM ShownMessagesAreMapped == Spec => []ShownIsMapped
<1>1. RecoveryInv => ShownIsMapped
  BY DEF RecoveryInv, Rows, RowOK, NoHole, ShownIsMapped
<1>. QED
  BY <1>1, RecoveryHolds, PTL

-----------------------------------------------------------------------------
(* How a chat comes into the catalog.                                        *)

(* A restart or a failed call ends the scan that follows a lost queue, and   *)
(* the row says that this account generation has been scanned.               *)
Scanning == {"persisted", "scan", "catalog"}
ScanInterrupted ==
    /\ poll.recovering /\ poll.pc \in Scanning /\ cursor.scanned = account
    /\ Crash \/ PollFails

(* The chats of the messages up to n are in the catalog, or will be by the   *)
(* journal; or they are in the list that the scan has read.                  *)
Noted(n) ==
    \A i \in Ids : i <= n /\ log[i].type = "message" /\ log[i].chat \notin known => InJournal(i)
Caught(n) ==
    \A i \in Ids : i <= n /\ log[i].type = "message" => log[i].chat \in poll.catalog

(* Every chat is in the catalog, or will be by an event that is in the       *)
(* journal or has an id above n.                                             *)
Heard(n) ==
    \A c \in Chats :
        Messages(c) = {} \/ c \in known \/ \E i \in Messages(c) : InJournal(i) \/ i > n

(* An event is processed when its chat is assigned. *)
ProcessedKnown == \A row \in processed : log[row[2]].chat \in known

(* The thread's copy is the row, unless the control thread has deleted it    *)
(* or the queue is being replaced.                                           *)
SameRow ==
    /\ poll.pc \in {"read", "persisted", "scan", "catalog", "events", "polled", "deliver",
                    "recorded"} /\ cursor.queue # 0
         => cursor.queue = poll.queue /\ cursor.last = poll.last
    /\ poll.pc \in {"register", "registered"} => cursor.queue \in dead \cup {0}
    /\ poll.pc = "registered" => cursor.queue # poll.queue
    /\ poll.pc = "bad" => poll.queue \in dead /\ cursor.queue \in {0, poll.queue}
    /\ poll.last <= Len(log) /\ cursor.last <= Len(log)

(* A scan that is not part of a recovery is owed by the row itself. *)
ScanOwed ==
    /\ poll.pc \in {"register", "registered", "persisted", "scan", "catalog"}
       /\ ~ poll.recovering => cursor.scanned # account
    /\ poll.pc = "read" /\ cursor.queue # 0 => cursor.scanned = poll.scanned
    /\ cursor.queue = 0 => cursor.scanned = 0
    /\ account > 0

Scanned ==
    cursor.queue # 0 /\ cursor.realm /\ cursor.queue \notin dead /\ cursor.scanned = account
        => poll.pc \in Scanning \/ Heard(cursor.last)
Listed ==
    /\ poll.pc = "catalog" => Caught(poll.last)
    /\ poll.pc \in {"events", "polled"} /\ poll.scan => Noted(poll.last)

CatalogInv == TypeInv /\ ProcessedKnown /\ SameRow /\ ScanOwed /\ Listed

LEMMA ProcessedKnownKept ==
    ASSUME TypeInv, ProcessedKnown, Next
    PROVE  ProcessedKnown'
<1>1. ASSUME NEW row \in processed' PROVE log[row[2]].chat \in known
  <2>1. CASE row \in processed
    BY <2>1 DEF ProcessedKnown
  <2>2. CASE row \notin processed
    <3>1. Processes
      BY <1>1, <2>2, NextSteps, PollFrame, WorkFrame, OtherFrame
    <3>. QED
      BY <1>1, <2>2, <3>1 DEF Processes, ProcessEvent
  <2>. QED
    BY <2>1, <2>2
<1>2. ASSUME NEW row \in processed' PROVE log'[row[2]] = log[row[2]]
  <2>1. row[2] \in Ids
    <3>1. row \in recorded
      BY <1>2, NextSteps, PollFrame, WorkFrame, OtherFrame
         DEF Processes, ProcessEvent, TypeInv, Journal
    <3>. QED
      BY <3>1 DEF TypeInv, Journal
  <2>. QED
    BY <2>1, LogGrows
<1>3. known \subseteq known'
  BY KnownGrows
<1>. QED
  BY <1>1, <1>2, <1>3 DEF ProcessedKnown

(* Noted(n) after the step. *)
NotedAfter(n) ==
    \A i \in Ids' : i <= n /\ log'[i].type = "message" /\ log'[i].chat \notin known'
        => InJournal(i)'

(* What is in the catalog or the journal stays so. *)
LEMMA NotedStays ==
    ASSUME TypeInv, ProcessedKnown, Next, NEW n \in Nat, n <= Len(log), Noted(n)
    PROVE  NotedAfter(n)
<1>0. /\ Len(log) \in Nat /\ Len(log') \in Nat /\ known \subseteq known'
      /\ \A i \in Ids : log'[i] = log[i]
      /\ recorded \subseteq recorded'
  BY LogGrows, KnownGrows, NextSteps, PollFrame, WorkFrame, OtherFrame DEF RecordProviderEvent
<1>1. ASSUME NEW i \in Ids', i <= n, log'[i].type = "message", log'[i].chat \notin known'
      PROVE  InJournal(i)'
  <2>1. i \in Ids
    BY <1>0, <1>1 DEF Ids
  <2>2. log'[i] = log[i] /\ log[i].chat \notin known
    BY <1>0, <1>1, <2>1
  <2>3. PICK row \in recorded \ processed : row[2] = i
    BY <1>1, <2>1, <2>2 DEF Noted, InJournal
  <2>4. row \notin processed'
    <3>1. row \in processed' => log'[row[2]].chat \in known'
      BY ProcessedKnownKept DEF ProcessedKnown
    <3>. QED
      BY <1>1, <2>3, <3>1
  <2>. QED
    BY <1>0, <2>3, <2>4 DEF InJournal
<1>. QED
  BY <1>1 DEF NotedAfter

(* The same of Heard(n). *)
HeardAfter(n) ==
    \A c \in Chats :
        \/ Messages(c)' = {} \/ c \in known'
        \/ \E i \in Messages(c)' : InJournal(i)' \/ i > n

LEMMA HeardStays ==
    ASSUME TypeInv, ProcessedKnown, Next, NEW n \in Nat, n <= Len(log), Heard(n)
    PROVE  HeardAfter(n)
<1>0. /\ Len(log) \in Nat /\ Len(log') \in Nat /\ Len(log) <= Len(log') /\ known \subseteq known'
      /\ \A i \in Ids : log'[i] = log[i]
      /\ recorded \subseteq recorded'
  BY LogGrows, KnownGrows, NextSteps, PollFrame, WorkFrame, OtherFrame DEF RecordProviderEvent
<1>1. ASSUME NEW c \in Chats, c \notin known', NEW i \in Messages(c)'
      PROVE  \E k \in Messages(c)' : InJournal(k)' \/ k > n
  <2>1. CASE Messages(c) = {}
    <3>1. i \in Nat /\ i \in 1 .. Len(log') /\ i \notin Ids
      BY <1>0, <1>1, <2>1 DEF Messages, Ids
    <3>2. i > n
      BY <1>0, <3>1 DEF Ids
    <3>. QED
      BY <1>1, <3>2
  <2>2. CASE Messages(c) # {}
    <3>1. PICK k \in Messages(c) : InJournal(k) \/ k > n
      BY <1>0, <1>1, <2>2 DEF Heard
    <3>2. k \in Messages(c)' /\ log'[k] = log[k] /\ log[k].chat = c
      BY <1>0 DEF Messages, Ids
    <3>3. ASSUME InJournal(k) PROVE InJournal(k)'
      <4>1. PICK row \in recorded \ processed : row[2] = k
        BY <3>3 DEF InJournal
      <4>2. row \notin processed'
        <5>1. row \in processed' => log'[row[2]].chat \in known'
          BY ProcessedKnownKept DEF ProcessedKnown
        <5>. QED
          BY <1>1, <3>2, <4>1, <5>1
      <4>. QED
        BY <1>0, <4>1, <4>2 DEF InJournal
    <3>. QED
      BY <3>1, <3>2, <3>3
  <2>. QED
    BY <2>1, <2>2
<1>. QED
  BY <1>1 DEF HeardAfter

(* The next event is accounted for when its row is in the journal. *)
LEMMA NextHeard ==
    ASSUME TypeInv, ProcessedKnown, NEW n \in Nat, Heard(n), NEW queue,
           <<queue, n + 1>> \in recorded
    PROVE  Heard(n + 1)
<1>1. ASSUME NEW c \in Chats, c \notin known, Messages(c) # {}
      PROVE  \E i \in Messages(c) : InJournal(i) \/ i > n + 1
  <2>1. PICK i \in Messages(c) : InJournal(i) \/ i > n
    BY <1>1 DEF Heard
  <2>2. i \in Nat /\ log[i].chat = c
    BY DEF Messages, TypeInv, IntakeInv, IntakeTypes
  <2>3. CASE i = n + 1
    <3>1. <<queue, i>> \in recorded \ processed
      <4>1. <<queue, i>> \in processed => log[<<queue, i>>[2]].chat \in known
        BY DEF ProcessedKnown
      <4>. QED
        BY <1>1, <2>2, <2>3, <4>1
    <3>. QED
      BY <3>1 DEF InJournal
  <2>. QED
    BY <2>1, <2>2, <2>3
<1>. QED
  BY <1>1 DEF Heard

(* Nothing is missing when all that is noted is all there is. *)
LEMMA NotedHeard ==
    ASSUME TypeInv, NEW n \in Nat, Noted(n)
    PROVE  Heard(n)
<1>1. ASSUME NEW c \in Chats, c \notin known, NEW i \in Messages(c)
      PROVE  InJournal(i) \/ i > n
  BY <1>1 DEF Noted, Messages, Ids, TypeInv, IntakeInv, IntakeTypes
<1>. QED
  BY <1>1 DEF Heard

(* The row after an upsert. *)
LEMMA RowWritten ==
    ASSUME cursor \in Cursor, NEW queue, NEW n, NEW realm, NEW generation,
           UpdateCursor(queue, n, realm, generation)
    PROVE  /\ cursor'.queue = queue /\ cursor'.scanned = cursor.scanned
           /\ cursor'.last = IF cursor.queue = queue /\ cursor.last > n THEN cursor.last ELSE n
           /\ cursor'.realm = (realm \/ cursor.realm)
BY DEF UpdateCursor, Cursor

(* A step of the others, the account change and a restart excepted. *)
LEMMA CatalogStays ==
    ASSUME CatalogInv, Next, UNCHANGED <<poll, cursor, account>>, dead \subseteq dead'
    PROVE  SameRow' /\ ScanOwed' /\ Listed' /\ (Scanned => Scanned')
<1>0. /\ Len(log) \in Nat /\ Len(log') \in Nat /\ Len(log) <= Len(log')
      /\ \A i \in Ids : log'[i] = log[i]
      /\ cursor.last \in Nat /\ poll.last \in Nat
  BY LogGrows DEF CatalogInv, TypeInv, IntakeInv, IntakeTypes, Cursor, Poll
<1>1. SameRow'
  BY <1>0 DEF CatalogInv, SameRow
<1>2. ScanOwed'
  BY DEF CatalogInv, ScanOwed
<1>3. cursor.last <= Len(log) /\ poll.last <= Len(log)
  BY DEF CatalogInv, SameRow
<1>4. /\ Heard(cursor.last) => HeardAfter(cursor.last)
      /\ Noted(poll.last) => NotedAfter(poll.last)
  BY <1>0, <1>3, NotedStays, HeardStays DEF CatalogInv
<1>5. Caught(poll.last) => Caught(poll.last)'
  <2>1. \A i \in Ids' : i <= poll.last => i \in Ids
    BY <1>0, <1>3 DEF Ids
  <2>. QED
    BY <1>0, <2>1 DEF Caught
<1>6. Scanned => Scanned'
  BY <1>4 DEF Scanned, Heard, HeardAfter
<1>7. Listed'
  BY <1>4, <1>5 DEF CatalogInv, Listed, Noted, NotedAfter
<1>. QED
  BY <1>1, <1>2, <1>6, <1>7

(* A poll that ends, by itself, by a failure or by a restart. *)
LEMMA CatalogAtEnd ==
    ASSUME CatalogInv, Next, poll' = PollIdle, UNCHANGED <<log, cursor, account, dead>>
    PROVE  /\ SameRow' /\ ScanOwed' /\ Listed'
           /\ \/ ~ (poll.pc \in Scanning /\ poll.recovering /\ cursor.scanned = account)
              \/ cursor.queue = 0 \/ ~ cursor.realm
              => (Scanned => Scanned')
<1>0. poll'.pc = "idle" /\ poll'.last = 0 /\ cursor.last \in Nat /\ Len(log) \in Nat
      /\ cursor.last <= Len(log)
  BY LogGrows DEF PollIdle, CatalogInv, TypeInv, IntakeInv, IntakeTypes, Cursor, SameRow
<1>1. SameRow'
  BY <1>0 DEF SameRow
<1>2. ScanOwed'
  BY <1>0 DEF CatalogInv, ScanOwed
<1>3. ASSUME \/ ~ (poll.pc \in Scanning /\ poll.recovering /\ cursor.scanned = account)
             \/ cursor.queue = 0 \/ ~ cursor.realm,
             Scanned
      PROVE  Scanned'
  <2> SUFFICES ASSUME cursor.queue # 0, cursor.realm, cursor.queue \notin dead,
                      cursor.scanned = account
               PROVE  Heard(cursor.last)'
    BY DEF Scanned
  <2>1. poll.pc \notin Scanning
    BY <1>3 DEF CatalogInv, ScanOwed, Scanning
  <2>2. Heard(cursor.last)
    BY <1>3, <2>1 DEF Scanned
  <2>. QED
    BY <1>0, <2>2, HeardStays DEF CatalogInv, Heard, HeardAfter
<1>4. Listed'
  BY <1>0 DEF Listed
<1>. QED
  BY <1>1, <1>2, <1>3, <1>4

(* What the types say of the row and the thread. *)
LEMMA CatalogTypes ==
    ASSUME TypeInv
    PROVE  /\ poll \in Poll /\ cursor \in Cursor /\ Len(log) \in Nat /\ Len(born) \in Nat
           /\ cursor.last \in Nat /\ poll.last \in Nat /\ cursor.queue \in Nat
           /\ poll.queue \in Nat /\ cursor.realm \in BOOLEAN
           /\ cursor.queue # 0 => cursor.queue \in 1 .. Len(born)
           /\ poll.pc \in HasQueue => poll.queue # 0
<1>1. /\ log \in Seq(Event) /\ born \in Seq(Nat) /\ poll \in Poll /\ cursor \in Cursor
      /\ poll.pc \in HasQueue => poll.queue # 0
      /\ cursor.queue # 0 => Passed(cursor.queue, cursor.last)
  BY DEF TypeInv, IntakeInv, IntakeTypes
<1>2. Len(log) \in Nat /\ Len(born) \in Nat
  BY <1>1
<1>3. cursor.queue # 0 => cursor.queue \in 1 .. Len(born)
  BY <1>1 DEF Passed
<1>4. /\ cursor.last \in Nat /\ cursor.queue \in Nat /\ cursor.realm \in BOOLEAN
      /\ poll.last \in Nat /\ poll.queue \in Nat
  BY <1>1 DEF Cursor, Poll
<1>. QED
  BY <1>1, <1>2, <1>3, <1>4

(* The steps that read, register and scan. *)
LEMMA PollStarts ==
    ASSUME CatalogInv, Next,
           \/ ReadCursor \/ InvalidateProviderEventCursor \/ ReadAccount \/ EnsureQueue
           \/ PersistQueue \/ VerifyQueue \/ ScanCatalog
    PROVE  SameRow' /\ ScanOwed' /\ Listed' /\ (Scanned => Scanned')
<1>0. /\ poll \in Poll /\ cursor \in Cursor /\ Len(log) \in Nat /\ Len(born) \in Nat
      /\ cursor.last \in Nat /\ poll.last \in Nat /\ cursor.queue \in Nat /\ poll.queue \in Nat
      /\ cursor.realm \in BOOLEAN
      /\ cursor.queue # 0 => cursor.queue \in 1 .. Len(born)
      /\ poll.pc \in HasQueue => poll.queue # 0
  BY CatalogTypes DEF CatalogInv
<1>1. UNCHANGED <<log, dead, account>>
  BY DEF ReadCursor, InvalidateProviderEventCursor, ReadAccount, EnsureQueue, PersistQueue,
     VerifyQueue, ScanCatalog, zulipVars
<1>2. SameRow /\ ScanOwed
  BY DEF CatalogInv
<1>3. cursor.last <= Len(log) /\ poll.last <= Len(log)
  BY <1>2 DEF SameRow
<1>4. Heard(cursor.last) => HeardAfter(cursor.last)
  BY <1>0, <1>3, HeardStays DEF CatalogInv
<1>5. Listed' \/ ScanCatalog
  <2>1. CASE poll'.pc \notin {"catalog", "events", "polled"}
    BY <2>1 DEF Listed
  <2>2. CASE ReadAccount
    <3>1. poll'.pc = "events" => ~ poll'.scan
      BY <1>0, <2>2 DEF ReadAccount, Poll
    <3>2. poll'.pc \in {"register", "scan", "events"}
      BY <1>0, <2>2 DEF ReadAccount, Poll
    <3>. QED
      BY <3>1, <3>2 DEF Listed
  <2>3. CASE ReadCursor \/ InvalidateProviderEventCursor
    BY <2>1, <2>3 DEF ReadCursor, InvalidateProviderEventCursor, PollIdle
  <2>4. CASE EnsureQueue \/ PersistQueue \/ VerifyQueue
    BY <1>0, <2>1, <2>4 DEF EnsureQueue, PersistQueue, VerifyQueue, Poll
  <2>. QED
    BY <2>2, <2>3, <2>4
<1>6. CASE ReadCursor
  <2>1. /\ poll'.pc \in {"invalid", "read"} /\ poll.pc = "idle"
        /\ poll'.queue = cursor.queue /\ poll'.last = cursor.last
        /\ poll'.scanned = cursor.scanned /\ cursor' = cursor
    BY <1>6 DEF ReadCursor, PollIdle
  <2>2. SameRow'
    BY <1>1, <1>2, <2>1 DEF SameRow
  <2>3. ScanOwed'
    BY <1>1, <1>2, <2>1 DEF ScanOwed
  <2>4. Scanned => Scanned'
    BY <1>1, <1>2, <1>4, <2>1 DEF Scanned, Scanning, Heard, HeardAfter
  <2>. QED
    BY <1>5, <1>6, <2>1, <2>2, <2>3, <2>4 DEF ReadCursor, ScanCatalog
<1>7. CASE InvalidateProviderEventCursor
  <2>1. /\ poll'.pc = "read" /\ poll'.last = 0 /\ cursor'.queue = 0 /\ cursor'.last = 0
        /\ cursor'.scanned = 0 /\ poll.pc = "invalid"
    BY <1>7 DEF InvalidateProviderEventCursor, PollIdle, NoCursor
  <2>2. SameRow'
    BY <1>0, <1>1, <2>1 DEF SameRow
  <2>3. ScanOwed'
    BY <1>1, <1>2, <2>1 DEF ScanOwed
  <2>4. Scanned => Scanned'
    BY <2>1 DEF Scanned
  <2>. QED
    BY <1>5, <2>1, <2>2, <2>3, <2>4 DEF ScanCatalog
<1>8. CASE ReadAccount
  <2>1. /\ poll.pc = "read" /\ cursor' = cursor
        /\ poll'.queue = poll.queue /\ poll'.last = poll.last
        /\ poll'.recovering = poll.recovering
        /\ \/ poll.queue = 0 /\ poll'.pc = "register"
           \/ poll.queue # 0 /\ poll.scanned # account /\ poll'.pc = "scan"
           \/ poll.queue # 0 /\ poll'.pc = "events"
    BY <1>0, <1>8 DEF ReadAccount, Poll
  <2>2. SameRow'
    BY <1>1, <1>2, <2>1 DEF SameRow
  <2>3. ScanOwed'
    BY <1>1, <1>2, <2>1 DEF ScanOwed, SameRow
  <2>4. Scanned => Scanned'
    BY <1>1, <1>2, <1>4, <2>1 DEF Scanned, Scanning, Heard, HeardAfter
  <2>. QED
    BY <1>5, <2>1, <2>2, <2>3, <2>4 DEF ScanCatalog
<1>9. CASE EnsureQueue
  <2>1. /\ poll.pc = "register" /\ poll'.pc = "registered" /\ cursor' = cursor
        /\ poll'.queue = Len(born) + 1 /\ poll'.last = Len(log)
        /\ poll'.recovering = poll.recovering
    BY <1>0, <1>9 DEF EnsureQueue, Poll
  <2>2. SameRow'
    BY <1>0, <1>1, <1>2, <2>1 DEF SameRow
  <2>3. ScanOwed'
    BY <1>1, <1>2, <2>1 DEF ScanOwed
  <2>4. Scanned => Scanned'
    BY <1>1, <1>2, <1>4, <2>1 DEF Scanned, Scanning, Heard, HeardAfter
  <2>. QED
    BY <1>5, <2>1, <2>2, <2>3, <2>4 DEF ScanCatalog
<1>10. CASE PersistQueue \/ VerifyQueue
  <2>1. /\ poll.pc \in {"registered", "persisted"} /\ poll'.pc \in {"persisted", "scan"}
        /\ poll'.queue = poll.queue /\ poll'.last = poll.last
        /\ poll'.recovering = poll.recovering
    BY <1>0, <1>10 DEF PersistQueue, VerifyQueue, Poll
  <2>2. \E realm, generation : UpdateCursor(poll.queue, poll.last, realm, generation)
    BY <1>10 DEF PersistQueue, VerifyQueue
  <2>3. /\ cursor'.queue = poll.queue /\ cursor'.scanned = cursor.scanned
        /\ cursor'.last = IF cursor.queue = poll.queue /\ cursor.last > poll.last
                          THEN cursor.last ELSE poll.last
    BY <1>0, <2>2, RowWritten
  <2>4. cursor'.last = poll.last
    <3>1. cursor.queue = poll.queue => cursor.last = poll.last
      BY <1>0, <1>2, <2>1 DEF SameRow, HasQueue
    <3>. QED
      BY <1>0, <2>3, <3>1
  <2>5. SameRow'
    BY <1>0, <1>1, <1>3, <2>1, <2>3, <2>4 DEF SameRow
  <2>6. ScanOwed'
    BY <1>0, <1>1, <1>2, <2>1, <2>3 DEF ScanOwed, HasQueue
  <2>7. Scanned => Scanned'
    BY <2>1 DEF Scanned, Scanning
  <2>. QED
    BY <1>5, <1>10, <2>1, <2>5, <2>6, <2>7 DEF PersistQueue, VerifyQueue, ScanCatalog
<1>11. CASE ScanCatalog
  <2>1. /\ poll.pc = "scan" /\ poll'.pc = "catalog" /\ cursor' = cursor
        /\ poll'.queue = poll.queue /\ poll'.last = poll.last
        /\ poll'.recovering = poll.recovering
        /\ poll'.catalog = {c \in Chats : Messages(c) # {}}
    BY <1>0, <1>11 DEF ScanCatalog, Poll
  <2>2. SameRow'
    BY <1>1, <1>2, <2>1 DEF SameRow
  <2>3. ScanOwed'
    BY <1>1, <1>2, <2>1 DEF ScanOwed
  <2>4. Scanned => Scanned'
    BY <2>1 DEF Scanned, Scanning
  <2>5. ASSUME NEW i \in Ids, log[i].type = "message" PROVE log[i].chat \in poll'.catalog
    <3>1. log[i] \in Event
      BY DEF CatalogInv, TypeInv, IntakeInv, IntakeTypes, Ids
    <3>2. log[i].chat \in Chats /\ i \in Messages(log[i].chat)
      BY <2>5, <3>1 DEF Event, Messages, Ids
    <3>. QED
      BY <2>1, <3>2
  <2>6. Listed'
    BY <1>1, <2>1, <2>5 DEF Listed, Caught, Ids
  <2>. QED
    BY <2>2, <2>3, <2>4, <2>6
<1>. QED
  BY <1>6, <1>7, <1>8, <1>9, <1>10, <1>11

(* The steps that take the events. *)
LEMMA PollGoesOn ==
    ASSUME CatalogInv, Next,
           \/ QueueCatalog \/ GetEvents \/ MarkPrivateCatalogScanned
           \/ RecordProviderEvent \/ AdvanceCursor
    PROVE  SameRow' /\ ScanOwed' /\ Listed' /\ (Scanned => Scanned')
<1>0. /\ poll \in Poll /\ cursor \in Cursor /\ Len(log) \in Nat
      /\ cursor.last \in Nat /\ poll.last \in Nat /\ cursor.queue \in Nat /\ poll.queue \in Nat
      /\ cursor.realm \in BOOLEAN
      /\ poll.pc \in HasQueue => poll.queue # 0
  BY CatalogTypes DEF CatalogInv
<1>1. UNCHANGED <<log, dead, account>>
  BY DEF QueueCatalog, GetEvents, MarkPrivateCatalogScanned, RecordProviderEvent,
     AdvanceCursor, zulipVars
<1>2. SameRow /\ ScanOwed /\ Listed
  BY DEF CatalogInv
<1>3. cursor.last <= Len(log) /\ poll.last <= Len(log)
  BY <1>2 DEF SameRow
<1>4. /\ Heard(cursor.last) => HeardAfter(cursor.last)
      /\ Noted(poll.last) => NotedAfter(poll.last)
  BY <1>0, <1>3, NotedStays, HeardStays DEF CatalogInv
<1>5. poll.pc \in HasQueue
  BY DEF QueueCatalog, GetEvents, MarkPrivateCatalogScanned, RecordProviderEvent,
     AdvanceCursor, HasQueue
<1>6. ASSUME cursor.queue # 0 PROVE cursor.queue = poll.queue /\ cursor.last = poll.last
  <2>1. poll.pc \in {"catalog", "polled", "deliver", "recorded", "events"}
    BY DEF QueueCatalog, GetEvents, MarkPrivateCatalogScanned, RecordProviderEvent,
       AdvanceCursor
  <2>. QED
    BY <1>2, <1>6, <2>1 DEF SameRow
<1>7. CASE QueueCatalog /\ poll' = PollIdle
  <2>1. UNCHANGED cursor /\ (cursor.queue = 0 \/ ~ cursor.realm)
    <3>1. poll.pc = "catalog" /\ poll.pc # "events"
      BY <1>7 DEF QueueCatalog
    <3>2. PollIdle # [poll EXCEPT !.pc = "events"]
      <4>1. [poll EXCEPT !.pc = "events"].pc = "events"
        BY <1>0 DEF Poll
      <4>. QED
        BY <4>1 DEF PollIdle
    <3>. QED
      BY <1>7, <3>2 DEF QueueCatalog
  <2>. QED
    BY <1>1, <1>7, <2>1, CatalogAtEnd
<1>8. CASE QueueCatalog /\ poll' = [poll EXCEPT !.pc = "events"]
  <2>1. /\ poll.pc = "catalog" /\ poll'.pc = "events" /\ poll'.queue = poll.queue
        /\ poll'.last = poll.last /\ poll'.recovering = poll.recovering
    BY <1>0, <1>8 DEF QueueCatalog, Poll
  <2>2. /\ cursor.queue # 0 /\ known' = known \cup poll.catalog
        /\ \/ UNCHANGED cursor
           \/ UpdateCursor(poll.queue, poll.last, TRUE, poll.generation)
    <3>1. poll' # PollIdle
      BY <2>1 DEF PollIdle
    <3>. QED
      BY <1>8, <3>1 DEF QueueCatalog, Assign
  <2>3. cursor'.queue = poll.queue /\ cursor'.scanned = cursor.scanned
        /\ cursor'.last = poll.last
    <3>1. CASE UNCHANGED cursor
      BY <1>6, <2>2, <3>1
    <3>2. CASE UpdateCursor(poll.queue, poll.last, TRUE, poll.generation)
      <4>1. /\ cursor'.queue = poll.queue /\ cursor'.scanned = cursor.scanned
            /\ cursor'.last = IF cursor.queue = poll.queue /\ cursor.last > poll.last
                              THEN cursor.last ELSE poll.last
        BY <1>0, <3>2, RowWritten
      <4>. QED
        BY <1>6, <2>2, <4>1
    <3>. QED
      BY <2>2, <3>1, <3>2
  <2>4. NotedAfter(poll.last) /\ HeardAfter(poll.last)
    <3>1. Caught(poll.last)
      BY <1>2, <2>1 DEF Listed
    <3>2. ASSUME NEW c \in Chats, c \notin known', NEW i \in Messages(c) PROVE i > poll.last
      <4>1. i \in Ids /\ i \in Nat /\ log[i].type = "message" /\ log[i].chat = c
        BY <1>0 DEF Messages, Ids
      <4>. QED
        BY <1>0, <2>2, <3>1, <3>2, <4>1 DEF Caught
    <3>3. \A c \in Chats : Messages(c)' = Messages(c)
      BY <1>1 DEF Messages
    <3>. QED
      BY <1>1, <2>2, <3>1, <3>2, <3>3 DEF Caught, NotedAfter, HeardAfter, Ids
  <2>5. SameRow'
    BY <1>1, <1>3, <2>1, <2>3 DEF SameRow
  <2>6. ScanOwed'
    BY <1>0, <1>1, <1>2, <1>5, <2>1, <2>3 DEF ScanOwed
  <2>7. Scanned' /\ Listed'
    BY <2>1, <2>3, <2>4 DEF Scanned, Listed, Noted, NotedAfter, Heard, HeardAfter
  <2>. QED
    BY <2>5, <2>6, <2>7
<1>9. CASE GetEvents \/ RecordProviderEvent
  <2>1. /\ cursor' = cursor /\ poll'.queue = poll.queue /\ poll'.last = poll.last
        /\ poll'.scan = poll.scan
        /\ \/ poll.pc = "events" /\ poll'.pc = "polled"
           \/ poll.pc = "deliver" /\ poll'.pc = "recorded"
    BY <1>0, <1>9 DEF GetEvents, RecordProviderEvent, Poll
  <2>2. SameRow'
    BY <1>1, <1>2, <2>1 DEF SameRow
  <2>3. ScanOwed'
    BY <1>1, <1>2, <2>1 DEF ScanOwed
  <2>4. Scanned => Scanned'
    BY <1>1, <1>2, <1>4, <2>1 DEF Scanned, Scanning, Heard, HeardAfter
  <2>5. Listed'
    BY <1>2, <1>4, <2>1 DEF Listed, Noted, NotedAfter
  <2>. QED
    BY <2>2, <2>3, <2>4, <2>5
<1>10. CASE MarkPrivateCatalogScanned
  <2>1. /\ poll.pc = "polled" /\ poll'.pc = "deliver" /\ poll'.queue = poll.queue
        /\ poll'.last = poll.last
    BY <1>0, <1>10 DEF MarkPrivateCatalogScanned, Poll
  <2>2. /\ cursor'.queue = cursor.queue /\ cursor'.last = cursor.last
        /\ cursor'.realm = cursor.realm
        /\ \/ cursor' = cursor
           \/ poll.scan /\ cursor.queue # 0
    BY <1>0, <1>10 DEF MarkPrivateCatalogScanned, Cursor
  <2>3. SameRow'
    BY <1>1, <1>2, <2>1, <2>2 DEF SameRow
  <2>4. ScanOwed'
    BY <1>1, <1>2, <2>1, <2>2 DEF ScanOwed
  <2>5. Scanned => Scanned'
    <3>1. CASE cursor' = cursor
      BY <1>1, <1>2, <1>4, <2>1, <3>1 DEF Scanned, Scanning, Heard, HeardAfter
    <3>2. CASE poll.scan /\ cursor.queue # 0
      <4>1. Noted(poll.last) /\ cursor'.last = poll.last
        BY <1>2, <1>6, <2>1, <2>2, <3>2 DEF Listed
      <4>2. HeardAfter(poll.last)
        BY <1>0, <1>3, <4>1, NotedHeard, HeardStays DEF CatalogInv
      <4>. QED
        BY <4>1, <4>2 DEF Scanned, Heard, HeardAfter
    <3>. QED
      BY <2>2, <3>1, <3>2
  <2>6. Listed'
    BY <2>1 DEF Listed
  <2>. QED
    BY <2>3, <2>4, <2>5, <2>6
<1>11. CASE AdvanceCursor
  <2>1. /\ poll.pc = "recorded" /\ poll'.pc = "deliver" /\ poll'.queue = poll.queue
        /\ poll'.last = poll.last + 1
    BY <1>0, <1>11 DEF AdvanceCursor, Poll
  <2>2. /\ cursor'.queue = poll.queue /\ cursor'.scanned = cursor.scanned
        /\ cursor'.last = IF cursor.queue = poll.queue /\ cursor.last > poll.last + 1
                          THEN cursor.last ELSE poll.last + 1
        /\ cursor'.realm = (FALSE \/ cursor.realm)
    <3>1. UpdateCursor(poll.queue, poll.last + 1, FALSE, 0)
      BY <1>11 DEF AdvanceCursor
    <3>. QED
      BY <1>0, <3>1, RowWritten
  <2>3. cursor'.last = poll.last + 1
    BY <1>0, <1>5, <1>6, <2>2
  <2>4. poll.last + 1 <= Len(log) /\ poll.upto \in Nat
    <3>1. poll.upto \in Nat
      BY <1>0 DEF Poll
    <3>2. poll.last < poll.upto /\ poll.upto <= Len(log)
      BY <2>1 DEF CatalogInv, TypeInv, Journal
    <3>. QED
      BY <1>0, <3>1, <3>2
  <2>5. SameRow'
    BY <1>1, <2>1, <2>2, <2>3, <2>4 DEF SameRow
  <2>6. ScanOwed'
    BY <1>0, <1>1, <1>2, <1>5, <2>1, <2>2 DEF ScanOwed
  <2>7. Scanned => Scanned'
    <3> SUFFICES ASSUME cursor.realm, poll.queue \notin dead, cursor.scanned = account, Scanned
                 PROVE  HeardAfter(poll.last + 1)
      BY <1>0, <1>1, <2>2, <2>3 DEF Scanned, Heard, HeardAfter
    <3>1. cursor.queue # 0
      BY <1>2 DEF ScanOwed
    <3>2. Heard(poll.last)
      BY <1>2, <1>6, <2>1, <3>1 DEF Scanned, Scanning
    <3>3. <<poll.queue, poll.last + 1>> \in recorded
      BY <2>1 DEF CatalogInv, TypeInv, IntakeInv
    <3>4. Heard(poll.last + 1)
      BY <1>0, <3>2, <3>3, NextHeard DEF CatalogInv
    <3>5. poll.last + 1 \in Nat
      BY <1>0
    <3>. QED
      BY <2>4, <3>4, <3>5, HeardStays DEF CatalogInv
  <2>8. Listed'
    BY <2>1 DEF Listed
  <2>. QED
    BY <2>5, <2>6, <2>7, <2>8
<1>. QED
  BY <1>7, <1>8, <1>9, <1>10, <1>11 DEF QueueCatalog

(* The steps that end a poll or find its queue lost. *)
LEMMA PollStops ==
    ASSUME CatalogInv, Next,
           PollEnds \/ QueueRejected \/ BeginProviderQueueCatchup \/ PollFails \/ Crash
    PROVE  SameRow' /\ ScanOwed' /\ Listed' /\ (Scanned => Scanned' \/ ScanInterrupted)
<1>0. poll \in Poll /\ cursor.last \in Nat /\ Len(log) \in Nat
  BY CatalogTypes DEF CatalogInv
<1>1. UNCHANGED <<log, dead, account, cursor>>
  BY DEF PollEnds, QueueRejected, BeginProviderQueueCatchup, PollFails, Crash, zulipVars
<1>2. SameRow /\ ScanOwed
  BY DEF CatalogInv
<1>3. CASE poll' = PollIdle /\ (PollEnds \/ BeginProviderQueueCatchup)
  <2>1. poll.pc \notin Scanning
    BY <1>3 DEF PollEnds, BeginProviderQueueCatchup, Scanning
  <2>. QED
    BY <1>1, <1>3, <2>1, CatalogAtEnd
<1>4. CASE PollFails \/ Crash
  <2>1. poll' = PollIdle
    BY <1>4 DEF PollFails, Crash
  <2>. QED
    BY <1>1, <1>4, <2>1, CatalogAtEnd DEF ScanInterrupted
<1>5. ASSUME NEW pc \in {"bad", "register"}, poll'.pc = pc, poll'.queue = poll.queue,
             poll'.last = poll.last,
             pc = "bad" => poll.queue \in dead /\ cursor.queue \in {0, poll.queue},
             pc = "register" => poll'.recovering /\ cursor.queue \in dead \cup {0},
             poll.pc \in Scanning => cursor.queue \in dead \cup {0}
      PROVE  SameRow' /\ ScanOwed' /\ Listed' /\ (Scanned => Scanned')
  <2>1. SameRow'
    BY <1>1, <1>2, <1>5 DEF SameRow
  <2>2. ScanOwed'
    BY <1>1, <1>2, <1>5 DEF ScanOwed
  <2>3. Scanned => Scanned'
    <3>1. cursor.last <= Len(log)
      BY <1>2 DEF SameRow
    <3>2. Heard(cursor.last) => HeardAfter(cursor.last)
      BY <1>0, <3>1, HeardStays DEF CatalogInv
    <3>. QED
      BY <1>1, <1>2, <1>5, <3>2 DEF Scanned, Heard, HeardAfter
  <2>4. Listed'
    BY <1>5 DEF Listed
  <2>. QED
    BY <2>1, <2>2, <2>3, <2>4
<1>6. CASE QueueRejected
  <2>1. /\ poll.pc \in {"scan", "events"} /\ poll.queue \in dead
        /\ poll'.pc = "bad" /\ poll'.queue = poll.queue /\ poll'.last = poll.last
    BY <1>0, <1>6 DEF QueueRejected, Poll
  <2>2. cursor.queue \in {0, poll.queue}
    BY <1>2, <2>1 DEF SameRow
  <2>. QED
    BY <1>5, <2>1, <2>2
<1>7. CASE BeginProviderQueueCatchup /\ poll' # PollIdle
  <2>1. poll.pc = "bad" /\ poll' = [poll EXCEPT !.pc = "register", !.recovering = TRUE]
    BY <1>7 DEF BeginProviderQueueCatchup
  <2>2. /\ poll'.pc = "register" /\ poll'.queue = poll.queue /\ poll'.last = poll.last
        /\ poll'.recovering = TRUE
    BY <1>0, <2>1 DEF Poll
  <2>3. cursor.queue \in dead \cup {0} /\ poll.pc \notin Scanning
    BY <1>2, <2>1 DEF SameRow, Scanning
  <2>. QED
    BY <1>5, <2>2, <2>3
<1>. QED
  BY <1>3, <1>4, <1>6, <1>7 DEF PollEnds

LEMMA CatalogKept ==
    ASSUME CatalogInv, [Next]_vars
    PROVE  CatalogInv' /\ (Scanned => Scanned' \/ ScanInterrupted)
<1>0. TypeInv'
  BY TypeKept DEF CatalogInv
<1>1. CASE UNCHANGED vars
  <2>1. UNCHANGED <<log, dead, account, cursor, recorded, processed, known, poll>>
    BY <1>1 DEF vars, zulipVars, journalVars
  <2>3. Heard(cursor.last)' <=> Heard(cursor.last)
    BY <2>1 DEF Heard, Messages, InJournal
  <2>4. /\ Noted(poll.last)' <=> Noted(poll.last)
        /\ Caught(poll.last)' <=> Caught(poll.last)
    BY <2>1 DEF Noted, Caught, Ids, InJournal
  <2>5. ProcessedKnown' /\ SameRow' /\ ScanOwed'
    BY <2>1 DEF CatalogInv, ProcessedKnown, SameRow, ScanOwed
  <2>6. (Scanned => Scanned') /\ Listed'
    BY <2>1, <2>3, <2>4 DEF CatalogInv, Scanned, Listed
  <2>. QED
    BY <1>0, <2>5, <2>6 DEF CatalogInv
<1> SUFFICES ASSUME Next
             PROVE  SameRow' /\ ScanOwed' /\ Listed' /\ (Scanned => Scanned' \/ ScanInterrupted)
  BY <1>0, <1>1, ProcessedKnownKept DEF CatalogInv
<1>2. CASE PollStep
  BY <1>2, PollStarts, PollGoesOn, PollStops DEF PollStep
<1>3. CASE PollFails \/ Crash
  BY <1>3, PollStops
<1>4. CASE WorkStep \/ FetchFails \/ JournalStep \/ RebuildHistory
           \/ \E c \in Chats : ParticipantsSynchronised(c)
  <2>1. UNCHANGED <<poll, cursor, account, dead>>
    <3>1. CASE WorkStep \/ FetchFails
      <4>1. UNCHANGED <<poll, dead, account>>
        BY <3>1, WorkFrame
      <4>2. UNCHANGED cursor
        BY <3>1 DEF WorkStep, FetchFails, TakeJob, FetchPage, CheckParticipants,
           EnqueueCatchupMessage, PageEnqueued, FindDeleted, DeleteMessage,
           AdvanceProviderCatchup, CatchupLimitExceeded, Advance
      <4>. QED
        BY <4>1, <4>2
    <3>2. CASE JournalStep
      BY <3>2 DEF JournalStep, QueueEventCatalog, ProcessEvent, zulipVars
    <3>3. CASE RebuildHistory \/ \E c \in Chats : ParticipantsSynchronised(c)
      BY <3>3 DEF ParticipantsSynchronised, RebuildHistory, zulipVars
    <3>. QED
      BY <1>4, <3>1, <3>2, <3>3
  <2>. QED
    BY <2>1, CatalogStays
<1>5. CASE Zulip
  <2>1. UNCHANGED <<poll, cursor, account>> /\ dead \subseteq dead'
    BY <1>5 DEF Zulip, Post, Send, DeleteInZulip, LoseQueue
  <2>. QED
    BY <2>1, CatalogStays
<1>6. CASE ApplyAccount
  <2>0. /\ Len(log) \in Nat /\ account \in Nat
        /\ poll.pc \in HasQueue => poll.queue # 0
    BY CatalogTypes DEF CatalogInv, TypeInv, IntakeInv, IntakeTypes
  <2>1. UNCHANGED <<log, dead, poll>> /\ account' = account + 1 /\ cursor' = NoCursor
    BY <1>6 DEF ApplyAccount, zulipVars
  <2>2. cursor'.queue = 0 /\ cursor'.last = 0 /\ cursor'.scanned = 0
    BY <2>1 DEF NoCursor
  <2>3. SameRow'
    BY <2>0, <2>1, <2>2 DEF CatalogInv, SameRow, HasQueue
  <2>4. ScanOwed'
    BY <2>0, <2>1, <2>2 DEF CatalogInv, ScanOwed
  <2>5. Scanned => Scanned'
    BY <2>2 DEF Scanned
  <2>6. Listed'
    <3>1. poll.last \in Nat /\ poll.last <= Len(log)
      BY CatalogTypes DEF CatalogInv, SameRow
    <3>2. Noted(poll.last) => NotedAfter(poll.last)
      BY <3>1, NotedStays DEF CatalogInv
    <3>3. Caught(poll.last) => Caught(poll.last)'
      BY <2>1 DEF Caught, Ids
    <3>. QED
      BY <2>1, <3>2, <3>3 DEF CatalogInv, Listed, Noted, NotedAfter
  <2>. QED
    BY <2>3, <2>4, <2>5, <2>6
<1>. QED
  BY <1>2, <1>3, <1>4, <1>5, <1>6 DEF Next

LEMMA CatalogInitially == Init => CatalogInv /\ CatalogComplete
<1> SUFFICES ASSUME Init PROVE CatalogInv /\ CatalogComplete
  OBVIOUS
<1>1. TypeInv
  BY TypeInitially
<1>2. /\ poll.pc = "idle" /\ poll.last = 0 /\ cursor.queue = 0 /\ cursor.last = 0
      /\ cursor.scanned = 0 /\ account = 1 /\ processed = {}
  BY DEF Init, PollIdle, NoCursor
<1>3. Len(log) \in Nat
  BY <1>1, CatalogTypes
<1>. QED
  BY <1>1, <1>2, <1>3
     DEF CatalogInv, ProcessedKnown, SameRow, ScanOwed, Listed, CatalogComplete, ScanToCome

(* What the catalog needs, in terms of the row. *)
LEMMA CatalogFromRow == CatalogInv => (CatalogComplete <=> Scanned)
<1> SUFFICES ASSUME CatalogInv PROVE CatalogComplete <=> Scanned
  OBVIOUS
<1>0. /\ cursor.last \in Nat /\ poll.last \in Nat /\ Len(log) \in Nat
      /\ cursor.queue \in Nat /\ poll.queue \in Nat
      /\ \A c \in Chats : \A i \in Messages(c) :
            i \in Nat /\ i \in Ids /\ log[i].type = "message" /\ log[i].chat = c
  BY CatalogTypes DEF CatalogInv, Messages, Ids
<1>1. ASSUME Scanned, NEW c \in Chats, Messages(c) # {}, c \notin known, ~ ScanToCome(c)
      PROVE  \E i \in Messages(c) : InJournal(i) \/ AheadOfCursor(i)
  <2>1. /\ cursor.queue # 0 /\ cursor.realm /\ cursor.queue \notin dead
        /\ cursor.scanned = account
        /\ poll.pc \in Scanning => poll.pc = "catalog" /\ c \notin poll.catalog
    BY <1>1 DEF ScanToCome, Scanning
  <2>2. PICK i \in Messages(c) : InJournal(i) \/ i > cursor.last
    <3>1. CASE poll.pc = "catalog"
      <4>1. PICK i \in Messages(c) : TRUE
        BY <1>1
      <4>2. cursor.last = poll.last /\ Caught(poll.last)
        BY <2>1, <3>1 DEF CatalogInv, SameRow, Listed
      <4>3. i > cursor.last
        BY <1>0, <2>1, <3>1, <4>1, <4>2 DEF Caught, Scanning
      <4>. QED
        BY <4>1, <4>3
    <3>2. CASE poll.pc # "catalog"
      BY <1>1, <2>1, <3>2 DEF Scanned, Heard
    <3>. QED
      BY <3>1, <3>2
  <2>. QED
    BY <2>1, <2>2 DEF AheadOfCursor
<1>2. ASSUME CatalogComplete, cursor.queue # 0, cursor.realm, cursor.queue \notin dead,
             cursor.scanned = account, poll.pc \notin Scanning
      PROVE  Heard(cursor.last)
  <2>1. poll.pc \notin {"bad", "register", "registered"}
    BY <1>0, <1>2 DEF CatalogInv, SameRow
  <2>2. poll.pc \in {"events", "polled", "deliver", "recorded"} => cursor.last = poll.last
    BY <1>2 DEF CatalogInv, SameRow
  <2>3. ASSUME NEW c \in Chats, Messages(c) # {}, c \notin known
        PROVE  \E i \in Messages(c) : InJournal(i) \/ i > cursor.last
    <3>1. ~ ScanToCome(c)
      BY <1>2, <2>1 DEF ScanToCome, Scanning
    <3>2. PICK i \in Messages(c) : InJournal(i) \/ AheadOfCursor(i)
      BY <1>2, <2>3, <3>1 DEF CatalogComplete
    <3>3. AheadOfCursor(i) => i > cursor.last
      BY <1>0, <1>2, <2>1, <2>2 DEF AheadOfCursor, Scanning
    <3>. QED
      BY <3>2, <3>3
  <2>. QED
    BY <2>3 DEF Heard
<1>. QED
  BY <1>1, <1>2 DEF CatalogComplete, Scanned

(* A chat that exists in Zulip is in the catalog, or an event of it is still *)
(* to be read or processed, or the catalog will be scanned again, and only   *)
(* an interrupted scan after a lost queue can end this.                      *)
CatalogKeptUpToDate ==
    CatalogComplete /\ [][CatalogComplete => CatalogComplete' \/ ScanInterrupted]_vars

(* _poll_provider_account finds every chat, whatever chats appear, however   *)
(* often the account changes or a queue is lost, and wherever failures and   *)
(* restarts fall, except those that end the scan repeated for a lost queue   *)
(* while the row says that this account generation is scanned.               *)
THEOREM CatalogIsCompleted == Spec => CatalogKeptUpToDate
<1>1. CatalogInv /\ [Next]_vars => CatalogInv'
  BY CatalogKept
<1>2. (CatalogInv => (CatalogComplete <=> Scanned))'
  BY CatalogFromRow, PTL
<1>3. CatalogInv /\ [Next]_vars => [CatalogComplete => CatalogComplete' \/ ScanInterrupted]_vars
  BY <1>1, <1>2, CatalogFromRow, CatalogKept
<1>. QED
  BY <1>1, <1>3, CatalogInitially, PTL DEF Spec, CatalogKeptUpToDate
=============================================================================
