---------------------------- MODULE ControlPlane ----------------------------
(***************************************************************************)
(* The loop between the bridge and the Workspace control plane, for one    *)
(* account with one selected channel (service.py synchronize_control,      *)
(* refresh_selected_participants_once, flush_observed_reports, and the     *)
(* tables behind them in storage.py).                                      *)
(*                                                                         *)
(* The backend keeps a log of desired-state changes.  The main thread      *)
(* polls it, in batches or by a snapshot, into desired_resources.  The     *)
(* same thread compares the channel's subscribers in Zulip with the        *)
(* assignment and reports differences; the live thread reports topics that *)
(* waiting messages need.  Reports go to the backend through an outbox,    *)
(* and an applied report comes back as a new assignment generation.  Other *)
(* threads call Zulip meanwhile, and what their calls meet opens or closes *)
(* the account's circuit breaker.                                          *)
(***************************************************************************)
EXTENDS Naturals, Sequences, FiniteSetsExt, SequencesExt, Selection

CONSTANTS
    Users,       \* subscribers of the channel besides the owner
    Topic,       \* the one topic a message may need
    Callers,     \* threads that call Zulip for the account
    Budgets      \* what may happen around the bridge, see Counters

Counters == {"reconnects", "resets", "revokes", "withdrawals", "unsupported",
             "expiries", "joins", "messages", "rejections", "losses", "faults", "crashes"}

ASSUME BudgetsAssumption == Budgets \subseteq [Counters -> Nat]

VARIABLES
    log,         \* backend: the desired-state changes, oldest first
    floor,       \* backend: cursors below this one have expired
    good,        \* Zulip: account generations whose credentials it accepts
    zulip,       \* Zulip: the subscribers, and how often they changed
    peer,        \* journal: the newest subscriber change with a waiting event
    noticed,     \* history: the newest one whose event was processed
    db,          \* the bridge's tables
    topology,    \* external_chat_catalog_state of the channel
    outbox,      \* observed_report_outbox, ordered by (generation, observed_at)
    main,        \* the main thread: where it is and what it holds
    live,        \* the live thread
    call,        \* the callers' calls
    refused,     \* history: generations whose credentials Zulip refused
    budget

vars == <<log, floor, good, zulip, peer, noticed, db, topology, outbox,
          main, live, call, refused, budget>>

backend == <<log, floor>>
provider == <<good, zulip, peer>>
history == <<noticed, refused>>

-----------------------------------------------------------------------------
(* State *)

Content == [members : SUBSET Users, topics : SUBSET {Topic}]
Bare == [members |-> {}, topics |-> {}]

(* A change of the log: the account, the channel's assignment, or one this *)
(* image of the bridge does not understand.                                *)
Account(gen, reset) == [of |-> "account", gen |-> gen, reset |-> reset]
Chat(gen, content) == [of |-> "chat", gen |-> gen, content |-> content]
Unsupported == [of |-> "unsupported"]

Change == [of : {"account"}, gen : Nat, reset : Nat]
            \cup [of : {"chat"}, gen : Nat, content : Content]
            \cup {Unsupported}

NoSync == [gen |-> 0, state |-> "none", asof |-> 0]

Tables ==
    [account : [gen : Nat, reset : Nat],                  \* desired_resources
     chat : [gen : Nat, content : Content],
     cursor : Nat, blocked : BOOLEAN,                     \* bridge_metadata
     sched : [gen : Nat, state : {"ready", "backoff", "auth_required"},
              reset : Nat],                               \* scheduler_accounts
     mapped : SUBSET {Topic},                             \* provider_mappings
     sync : [gen : Nat, state : {"none", "pending", "running", "reported", "ready"},
             asof : Nat],                                 \* zulip_participant_sync
     registered : BOOLEAN,                                \* zulip_event_cursors
     event : {"none", "waiting", "marked", "invalid", "served"},
     resets : Seq(Nat)]                                   \* history: resets done

Empty ==
    [account |-> [gen |-> 0, reset |-> 0],
     chat |-> [gen |-> 0, content |-> Bare],
     cursor |-> 0, blocked |-> FALSE,
     sched |-> [gen |-> 0, state |-> "ready", reset |-> 0],
     mapped |-> {}, sync |-> NoSync, registered |-> FALSE,
     event |-> "none", resets |-> <<>>]

(* "stamped" is a report a thread holds: it has its place by observed_at   *)
(* and is not inserted yet.  "reached": the backend has processed it.      *)
Rows ==
    [gen : Nat, content : Content, by : {"main", "live"}, reached : BOOLEAN,
     status : {"stamped", "new", "sent", "applied", "stale", "rejected", "cooled"}]

Thread(places) ==
    [pc : places, upto : Nat, gen : Nat, content : Content, asof : Nat,
     job : [gen : Nat, members : SUBSET Users],
     result : {"none", "applied", "stale", "rejected", "retry"}]

MainPlaces == {"idle", "batch", "snapshot", "clear", "answered", "claimed",
               "fetched", "merged", "stamped", "complete"}
LivePlaces == {"idle", "read", "merged", "stamped", "convert"}

Idle == [pc |-> "idle", upto |-> 0, gen |-> 0, content |-> Bare, asof |-> 0,
         job |-> [gen |-> 0, members |-> {}], result |-> "none"]

NoCall == [gen |-> 0, answer |-> "none"]

TypeOK ==
    /\ log \in Seq(Change)
    /\ floor \in 0..Len(log)
    /\ good \subseteq Nat
    /\ zulip \in [members : SUBSET Users, version : Nat]
    /\ peer \in Nat /\ noticed \in Nat
    /\ db \in Tables
    /\ db.cursor <= Len(log)
    /\ db.sync.state = "none" <=> db.sync.gen = 0
    /\ topology \in Content
    /\ outbox \in Seq(Rows)
    /\ main \in Thread(MainPlaces) /\ live \in Thread(LivePlaces)
    /\ call \in [Callers -> [gen : Nat, answer : {"none", "ok", "auth", "retry"}]]
    /\ refused \subseteq Nat
    /\ budget \in [Counters -> Nat]

-----------------------------------------------------------------------------
(* The backend (external) *)

(* The newest change of a resource among the first n: what a snapshot      *)
(* anchored at n lists.                                                    *)
Newest(of, n) == log[Max({i \in 1..n : log[i].of = of})]

AccountNow == Newest("account", Len(log))
ChatNow == Newest("chat", Len(log))

Init ==
    /\ log = <<Account(1, 0), Chat(1, Bare)>>
    /\ floor = 0
    /\ good = {1}
    /\ zulip = [members |-> Users, version |-> 1]
    /\ peer = 0
    /\ noticed = 0
    /\ db = Empty
    /\ topology = Bare
    /\ outbox = <<>>
    /\ main = Idle
    /\ live = Idle
    /\ call = [c \in Callers |-> NoCall]
    /\ refused = {}
    /\ budget \in Budgets

Spend(counter) ==
    /\ budget[counter] > 0
    /\ budget' = [budget EXCEPT ![counter] = @ - 1]

-----------------------------------------------------------------------------
(* Applying desired state *)

(* _reset_provider_projection(): mappings, cursor, journal and participant *)
(* state of the account are forgotten.                                     *)
ResetProjection(d, reset) ==
    [d EXCEPT !.mapped = {}, !.registered = FALSE, !.sync = NoSync,
              !.event = IF @ \in {"waiting", "marked"} THEN "none" ELSE @,
              !.resets = Append(@, reset)]

(* Mutant: the reset generation is not stored.                             *)
ReconcileWithoutReset(d, gen, reset) ==
    LET opened == [d EXCEPT !.sched = [gen |-> gen, state |-> "ready", reset |-> @.reset]]
    IN  IF d.sched.gen = gen /\ d.sched.reset = reset
        THEN d
        ELSE IF reset > d.sched.reset THEN ResetProjection(opened, reset) ELSE opened

(* _reconcile_provider_account_generation().  The backend never moves the  *)
(* reset generation backwards; the code refuses the change if it does.     *)
ReconcileGeneration(d, gen, reset) ==
    LET opened == [d EXCEPT !.sched = [gen |-> gen, state |-> "ready", reset |-> reset]]
    IN  IF d.sched.gen = gen /\ d.sched.reset = reset
        THEN d
        ELSE IF reset > d.sched.reset THEN ResetProjection(opened, reset) ELSE opened

ApplyAccount(d, change) ==
    IF d.account.gen >= change.gen
    THEN d
    ELSE ReconcileGeneration(
            [d EXCEPT !.account = [gen |-> change.gen, reset |-> change.reset],
                      !.registered = FALSE],
            change.gen, change.reset)

(* Mutant: every projection counts as additive.                            *)
NeverTombstoned(previous, current) == {}

(* _assignment_projection_is_additive(): a projection that loses something *)
(* is tombstoned before the new one is materialized.                       *)
Tombstoned(previous, current) ==
    IF /\ previous.members \subseteq current.members
       /\ previous.topics \subseteq current.topics
    THEN {} ELSE previous.topics

ApplyChat(d, change) ==
    IF d.chat.gen >= change.gen
    THEN d
    ELSE [d EXCEPT !.chat = [gen |-> change.gen, content |-> change.content],
                   !.mapped = change.content.topics \cup
                        (@ \ Tombstoned(d.chat.content, change.content))]

ApplyChange(d, change) ==
    IF change.of = "account" THEN ApplyAccount(d, change) ELSE ApplyChat(d, change)

(* apply_desired_changes(): one transaction with the new cursor.           *)
ApplyChanges(d, n) ==
    LET applied[i \in 0..(n - d.cursor)] ==
            IF i = 0 THEN d ELSE ApplyChange(applied[i - 1], log[d.cursor + i])
    IN  [applied[n - d.cursor] EXCEPT !.cursor = n]

(* Mutant: the snapshot is anchored where the log ends when it is applied. *)
InstallUpToNow(d, n) ==
    LET account == Newest("account", n)
        chat == Newest("chat", n)
        opened == ReconcileGeneration(
            [d EXCEPT !.account = [gen |-> account.gen, reset |-> account.reset],
                      !.registered = @ /\ d.account.gen = account.gen,
                      !.chat = [gen |-> 0, content |-> Bare]],
            account.gen, account.reset)
    IN  [ApplyChat([opened EXCEPT !.mapped = {}], chat) EXCEPT !.cursor = Len(log)]

(* install_snapshot(): desired state and mappings are replaced, scheduler  *)
(* state is reconciled, cursors of other generations are forgotten.        *)
InstallSnapshot(d, n) ==
    LET account == Newest("account", n)
        chat == Newest("chat", n)
        swept ==
            [d EXCEPT !.mapped = {},
                      !.registered = @ /\ d.account.gen = account.gen,
                      !.account = [gen |-> account.gen, reset |-> account.reset],
                      !.chat = [gen |-> 0, content |-> Bare]]
    IN  [ApplyChat(ReconcileGeneration(swept, account.gen, account.reset), chat)
            EXCEPT !.cursor = n]

-----------------------------------------------------------------------------
(* The main thread: control poll *)

(* synchronize_control() up to the answer: a batch of any length (an empty *)
(* one only if nothing is new), or the pages of a snapshot taken now.      *)
FetchChanges ==
    /\ main.pc = "idle"
    /\ \/ /\ db.cursor = 0 \/ db.cursor < floor
          /\ main' = [main EXCEPT !.pc = "snapshot", !.upto = Len(log)]
       \/ /\ db.cursor # 0 /\ db.cursor >= floor
          /\ \E n \in db.cursor..Len(log) :
                /\ n > db.cursor \/ (n = Len(log) /\ db.blocked)
                /\ main' = [main EXCEPT !.pc = "batch", !.upto = n]
    /\ UNCHANGED <<backend, provider, history, db, topology, outbox, live, call, budget>>

Understood(n) == \A i \in (db.cursor + 1)..n : log[i] # Unsupported

ApplyBatch ==
    /\ main.pc = "batch"
    /\ IF Understood(main.upto)
       THEN db' = ApplyChanges(db, main.upto) /\ main' = [main EXCEPT !.pc = "clear"]
       ELSE db' = [db EXCEPT !.blocked = TRUE] /\ main' = Idle
    /\ UNCHANGED <<backend, provider, history, topology, outbox, live, call, budget>>

ClearBlockedBatch ==
    /\ main.pc = "clear"
    /\ db' = [db EXCEPT !.blocked = FALSE]
    /\ main' = Idle
    /\ UNCHANGED <<backend, provider, history, topology, outbox, live, call, budget>>

ApplySnapshot ==
    /\ main.pc = "snapshot"
    /\ db' = InstallSnapshot(db, main.upto)
    /\ main' = Idle
    /\ UNCHANGED <<backend, provider, history, topology, outbox, live, call, budget>>

-----------------------------------------------------------------------------
(* The circuit breaker *)

Eligible == db.account.gen # 0 /\ db.sched.state # "auth_required"

(* Mutant: whose request it was is not looked at.                          *)
RecordedUnfenced(d, gen, answer) ==
    LET next == CASE answer = "auth" -> "auth_required"
                  [] answer = "retry" /\ d.sched.state # "auth_required" -> "backoff"
                  [] answer = "ok" /\ d.sched.state = "backoff" -> "ready"
                  [] OTHER -> d.sched.state
    IN  [d EXCEPT !.sched.state = next]

(* record_provider_account_failure() and ..._success(), for the generation *)
(* the request was made with.                                              *)
Recorded(d, gen, answer) ==
    LET e == ReconcileGeneration(d, gen, d.account.reset)
        next == CASE answer = "auth" -> "auth_required"
                  [] answer = "retry" /\ e.sched.state # "auth_required" -> "backoff"
                  [] answer = "ok" /\ e.sched.state = "backoff" -> "ready"
                  [] OTHER -> e.sched.state
    IN  IF d.account.gen # gen THEN d ELSE [e EXCEPT !.sched.state = next]

Judgement(gen) == IF gen \in good THEN "ok" ELSE "auth"

(* A thread calls Zulip with the adapter of the current generation, and    *)
(* records the answer later.  A poll that succeeds has a registered queue. *)
CallZulip(c) ==
    /\ call[c] = NoCall
    /\ Eligible
    /\ \/ /\ call' = [call EXCEPT ![c] = [gen |-> db.account.gen,
                                          answer |-> Judgement(db.account.gen)]]
          /\ refused' = refused \cup ({db.account.gen} \ good)
          /\ UNCHANGED budget
       \/ /\ Spend("faults")
          /\ call' = [call EXCEPT ![c] = [gen |-> db.account.gen, answer |-> "retry"]]
          /\ UNCHANGED refused
    /\ UNCHANGED <<backend, provider, noticed, db, topology, outbox, main, live>>

RecordCall(c) ==
    /\ call[c] # NoCall
    /\ LET e == Recorded(db, call[c].gen, call[c].answer)
       IN  db' = [e EXCEPT !.registered =
                        @ \/ (call[c].answer = "ok" /\ call[c].gen = db.account.gen)]
    /\ call' = [call EXCEPT ![c] = NoCall]
    /\ UNCHANGED <<backend, provider, history, topology, outbox, main, live, budget>>

-----------------------------------------------------------------------------
(* Observed reports *)

Real(row) == row.status # "stamped"
Open(row) == row.status \in {"stamped", "new", "sent"}

(* Completed rows matter only while they are the latest.                   *)
LastReal(rows) == Max({0} \cup {i \in 1..Len(rows) : Real(rows[i])})
Trimmed(rows) ==
    LET last == LastReal(rows)
    IN  IF last = 0
        THEN rows
        ELSE Selected(rows, {i \in 1..Len(rows) : i >= last \/ Open(rows[i])})

(* _queue_observed_report() reads the clock: the report's place is after   *)
(* every row of its generation.                                            *)
Stamped(rows, by, gen, content) ==
    InsertAt(rows, Max({0} \cup {i \in 1..Len(rows) : rows[i].gen <= gen}) + 1,
             [gen |-> gen, content |-> content, by |-> by, reached |-> FALSE,
              status |-> "stamped"])

Held(by) == CHOOSE i \in 1..Len(outbox) : outbox[i].status = "stamped" /\ outbox[i].by = by

(* Mutant: a rejected report is never made again.                          *)
KnownForever(by) ==
    LET last == LastReal(outbox)
    IN  /\ last # 0
        /\ outbox[last].gen = outbox[Held(by)].gen
        /\ outbox[last].content = outbox[Held(by)].content

(* The latest row says the same, and was not rejected long ago.            *)
Known(by) ==
    LET last == LastReal(outbox)
    IN  /\ last # 0
        /\ outbox[last].gen = outbox[Held(by)].gen
        /\ outbox[last].content = outbox[Held(by)].content
        /\ outbox[last].status # "cooled"

(* _enqueue_observed_report_in_session()                                   *)
Enqueued(by) ==
    IF Known(by)
    THEN RemoveAt(outbox, Held(by))
    ELSE Trimmed([outbox EXCEPT ![Held(by)].status = "new"])

(* Whether ensure_observed_report() may rely on a report.                  *)
Durable(by) ==
    Known(by) => outbox[LastReal(outbox)].status \notin {"rejected", "stale"}

(* flush_observed_reports(): the latest pending row is sent, the others    *)
(* are superseded.                                                         *)
ToSend == Max({i \in 1..Len(outbox) : outbox[i].status = "new"})

(* The backend (external) refuses a report of an older account generation, *)
(* or older than one it took, and takes each report once.  A report that   *)
(* changes the channel gives its assignment a new generation.              *)
Judged(i) ==
    IF /\ ~ outbox[i].reached
       /\ \/ outbox[i].gen < AccountNow.gen
          \/ \E j \in (i + 1)..Len(outbox) : outbox[j].reached
    THEN "stale" ELSE "applied"

Delivered(i, result) ==
    LET took == result = "applied" /\ ~ outbox[i].reached
        sent == [outbox EXCEPT ![i].status = "sent", ![i].reached = @ \/ took]
    IN  /\ outbox' = Selected(sent, {j \in 1..Len(sent) : sent[j].status # "new"})
        /\ log' = IF took /\ outbox[i].content # ChatNow.content
                  THEN Append(log, Chat(ChatNow.gen + 1, outbox[i].content))
                  ELSE log
        /\ main' = [main EXCEPT !.pc = "answered", !.result = result]

FlushReports ==
    /\ main.pc = "idle"
    /\ \E i \in 1..Len(outbox) : outbox[i].status = "new"
    /\ \/ Delivered(ToSend, Judged(ToSend)) /\ UNCHANGED budget
       \/ /\ ~ outbox[ToSend].reached
          /\ Spend("rejections")
          /\ \E result \in {"rejected", "retry"} : Delivered(ToSend, result)
    /\ UNCHANGED <<floor, provider, history, db, topology, live, call>>

(* apply_observed_report_results(): a report that was not applied releases *)
(* the events that wait for it.                                            *)
Answered(rows, status) ==
    [i \in 1..Len(rows) |->
        IF rows[i].status = "sent" THEN [rows[i] EXCEPT !.status = status] ELSE rows[i]]

ApplyResult ==
    /\ main.pc = "answered"
    /\ outbox' = Trimmed(Answered(outbox, IF main.result = "retry" THEN "new" ELSE main.result))
    /\ db' = [db EXCEPT !.event =
                 IF @ = "marked" /\ main.result \in {"rejected", "stale"}
                 THEN "waiting" ELSE @]
    /\ main' = Idle
    /\ UNCHANGED <<backend, provider, history, topology, live, call, budget>>

LoseAnswer ==
    /\ main.pc = "answered"
    /\ Spend("losses")
    /\ outbox' = Answered(outbox, "new")
    /\ main' = Idle
    /\ UNCHANGED <<backend, provider, history, db, topology, live, call>>

(* Five minutes after a rejection the same report may be made again.       *)
CoolDown ==
    /\ LastReal(outbox) # 0
    /\ outbox[LastReal(outbox)].status = "rejected"
    /\ outbox' = [outbox EXCEPT ![LastReal(outbox)].status = "cooled"]
    /\ UNCHANGED <<backend, provider, history, db, topology, main, live, call, budget>>

-----------------------------------------------------------------------------
(* Participant synchronisation, on the main thread *)

(* reconcile_participant_sync()                                            *)
ReconcileParticipants ==
    /\ main.pc = "idle"
    /\ db.chat.gen # 0 /\ db.sync.gen # db.chat.gen
    /\ db' = [db EXCEPT !.sync = [gen |-> db.chat.gen, state |-> "pending", asof |-> 0]]
    /\ UNCHANGED <<backend, provider, history, topology, outbox, main, live, call, budget>>

(* claim_participant_sync_batch(); "reported" and "ready" rows come up     *)
(* again after a while, and without an event cursor the claim is returned. *)
ClaimParticipants ==
    /\ main.pc = "idle"
    /\ Eligible
    /\ db.sched.gen = db.account.gen
    /\ db.sync.gen # 0 /\ db.sync.gen = db.chat.gen
    /\ db.sync.state # "running"
    /\ IF db.registered
       THEN /\ db' = [db EXCEPT !.sync.state = "running"]
            /\ main' = [main EXCEPT !.pc = "claimed",
                            !.job = [gen |-> db.chat.gen, members |-> db.chat.content.members]]
       ELSE /\ db' = [db EXCEPT !.sync.state = "pending"]
            /\ UNCHANGED main
    /\ UNCHANGED <<backend, provider, history, topology, outbox, live, call, budget>>

(* release_participant_sync_batch()                                        *)
Released(d) ==
    IF d.sync.state = "running" THEN [d EXCEPT !.sync.state = "pending"] ELSE d

(* The subscribers are fetched, or the call fails and its error is handled.*)
FetchParticipants ==
    /\ main.pc = "claimed"
    /\ \/ /\ db.account.gen \in good
          /\ main' = [main EXCEPT !.pc = "fetched", !.gen = db.account.gen,
                          !.content.members = zulip.members, !.asof = zulip.version]
          /\ UNCHANGED <<db, refused, budget>>
       \/ /\ db.account.gen \notin good
          /\ refused' = refused \cup {db.account.gen}
          /\ db' = Recorded(Released(db), db.account.gen, "auth")
          /\ main' = Idle
          /\ UNCHANGED budget
       \/ /\ Spend("faults")
          /\ db' = Recorded(Released(db), db.account.gen, "retry")
          /\ main' = Idle
          /\ UNCHANGED refused
    /\ UNCHANGED <<backend, provider, noticed, topology, outbox, live, call>>

(* merge_catalog_topology() with authoritative participants: the members   *)
(* are replaced, the topics are kept.                                      *)
MergeParticipants ==
    /\ main.pc = "fetched"
    /\ topology' = [topology EXCEPT !.members = main.content.members]
    /\ main' = [main EXCEPT !.pc = "merged", !.content = topology']
    /\ UNCHANGED <<backend, provider, history, db, outbox, live, call, budget>>

StampParticipants ==
    /\ main.pc = "merged"
    /\ outbox' = Stamped(outbox, "main", main.gen, main.content)
    /\ main' = [main EXCEPT !.pc = "stamped"]
    /\ UNCHANGED <<backend, provider, history, db, topology, live, call, budget>>

ReportParticipants ==
    /\ main.pc = "stamped"
    /\ outbox' = Enqueued("main")
    /\ main' = [main EXCEPT !.pc = "complete"]
    /\ UNCHANGED <<backend, provider, history, db, topology, live, call, budget>>

(* Mutant: a row made pending meanwhile is completed too.                  *)
CompletedAnyway(d) ==
    IF d.sync.gen = main.job.gen
    THEN [d EXCEPT !.sync.state = IF main.content.members = main.job.members
                                  THEN "ready" ELSE "reported",
                   !.sync.asof = main.asof]
    ELSE d

(* complete_participant_sync_batch(): only a row that is still running.    *)
Completed(d) ==
    IF d.sync.gen = main.job.gen /\ d.sync.state = "running"
    THEN [d EXCEPT !.sync.state = IF main.content.members = main.job.members
                                  THEN "ready" ELSE "reported",
                   !.sync.asof = main.asof]
    ELSE d

CompleteParticipants ==
    /\ main.pc = "complete"
    /\ db' = Recorded(Completed(db), main.gen, "ok")
    /\ main' = Idle
    /\ UNCHANGED <<backend, provider, history, topology, outbox, live, call, budget>>

(* reap_expired_history_leases(): the row of an interrupted worker.        *)
ReapParticipants ==
    /\ main.pc = "idle"
    /\ db.sync.state = "running"
    /\ db' = Released(db)
    /\ UNCHANGED <<backend, provider, history, topology, outbox, main, live, call, budget>>

-----------------------------------------------------------------------------
(* The live thread *)

(* A message event whose topic may not be assigned yet.  Its catalog       *)
(* report needs the account's identity, which is in the event cursor; the  *)
(* ValueError without it makes the event invalid.                          *)
TakeMessage ==
    /\ live.pc = "idle"
    /\ Eligible
    /\ db.event \in {"waiting", "marked"}
    /\ \/ /\ db.event = "marked"
          /\ live' = [live EXCEPT !.pc = "convert"]
          /\ UNCHANGED db
       \/ /\ db.event = "waiting"
          /\ db.registered
          /\ live' = [live EXCEPT !.pc = "read", !.gen = db.account.gen]
          /\ UNCHANGED db
       \/ /\ db.event = "waiting"
          /\ ~ db.registered
          /\ db' = [db EXCEPT !.event = "invalid"]
          /\ UNCHANGED live
    /\ UNCHANGED <<backend, provider, history, topology, outbox, main, call, budget>>

(* merge_catalog_topology(): the topic is added.                           *)
MergeTopic ==
    /\ live.pc = "read"
    /\ topology' = [topology EXCEPT !.topics = {Topic}]
    /\ live' = [live EXCEPT !.pc = "merged", !.content = topology']
    /\ UNCHANGED <<backend, provider, history, db, outbox, main, call, budget>>

StampTopic ==
    /\ live.pc = "merged"
    /\ outbox' = Stamped(outbox, "live", live.gen, live.content)
    /\ live' = [live EXCEPT !.pc = "stamped"]
    /\ UNCHANGED <<backend, provider, history, db, topology, main, call, budget>>

(* ensure_provider_event_catalog_report(): report and marker together.     *)
ReportTopic ==
    /\ live.pc = "stamped"
    /\ outbox' = Enqueued("live")
    /\ db' = [db EXCEPT !.event = IF @ = "waiting" /\ Durable("live") THEN "marked" ELSE @]
    /\ live' = [live EXCEPT !.pc = "convert"]
    /\ UNCHANGED <<backend, provider, history, topology, main, call, budget>>

(* The conversion needs the topic's mapping; without it the event is       *)
(* retried later.                                                          *)
ConvertMessage ==
    /\ live.pc = "convert"
    /\ db' = [db EXCEPT !.event =
                 IF @ \in {"waiting", "marked"} /\ Topic \in db.mapped THEN "served" ELSE @]
    /\ live' = Idle
    /\ UNCHANGED <<backend, provider, history, topology, outbox, main, call, budget>>

(* Mutant: the row is made when there is none.                             *)
InvalidatedOrMade(d) == [d EXCEPT !.sync.state = "pending"]

(* invalidate_participant_sync(), for a subscriber event of the journal.   *)
Invalidated(d) ==
    IF d.sync.state = "none" THEN d ELSE [d EXCEPT !.sync.state = "pending"]

InvalidateParticipants ==
    /\ live.pc = "idle"
    /\ peer # 0
    /\ db' = Invalidated(db)
    /\ noticed' = peer
    /\ peer' = 0
    /\ UNCHANGED <<backend, good, zulip, refused, topology, outbox, main, live, call, budget>>

-----------------------------------------------------------------------------
(* Around the bridge *)

(* The account is reconnected, its credentials good or not.                *)
Reconnect ==
    /\ Spend("reconnects")
    /\ \E accepted \in BOOLEAN :
          good' = IF accepted THEN good \cup {AccountNow.gen + 1} ELSE good
    /\ log' = Append(log, Account(AccountNow.gen + 1, AccountNow.reset))
    /\ UNCHANGED <<floor, zulip, peer, history, db, topology, outbox, main, live, call>>

(* A projection reset comes with a new generation of account and           *)
(* assignment.                                                             *)
RequestReset ==
    /\ Spend("resets")
    /\ log' = log \o <<Account(AccountNow.gen + 1, AccountNow.reset + 1),
                       Chat(ChatNow.gen + 1, ChatNow.content)>>
    /\ good' = good \cup {AccountNow.gen + 1}
    /\ UNCHANGED <<floor, zulip, peer, history, db, topology, outbox, main, live, call>>

Revoke ==
    /\ Spend("revokes")
    /\ good' = good \ {AccountNow.gen}
    /\ UNCHANGED <<backend, zulip, peer, history, db, topology, outbox, main, live, call>>

(* Workspace takes the topic back.                                         *)
WithdrawTopic ==
    /\ Topic \in ChatNow.content.topics
    /\ Spend("withdrawals")
    /\ log' = Append(log, Chat(ChatNow.gen + 1, [ChatNow.content EXCEPT !.topics = {}]))
    /\ UNCHANGED <<floor, provider, history, db, topology, outbox, main, live, call>>

(* A change of a kind this image does not know; snapshots do not list it.  *)
AddUnsupported ==
    /\ Spend("unsupported")
    /\ log' = Append(log, Unsupported)
    /\ UNCHANGED <<floor, provider, history, db, topology, outbox, main, live, call>>

(* The backend keeps a window of changes: a cursor that does not advance   *)
(* expires.                                                                *)
ExpireCursor ==
    /\ floor < Len(log)
    /\ IF db.blocked THEN UNCHANGED budget ELSE Spend("expiries")
    /\ floor' = Len(log)
    /\ UNCHANGED <<log, provider, history, db, topology, outbox, main, live, call>>

(* A user joins or leaves the channel.                                     *)
ChangeMembers ==
    /\ Spend("joins")
    /\ zulip' = [members |-> Users \ zulip.members, version |-> zulip.version + 1]
    /\ peer' = IF db.registered THEN zulip'.version ELSE peer
    /\ UNCHANGED <<backend, good, history, db, topology, outbox, main, live, call>>

ReceiveMessage ==
    /\ db.event = "none" /\ db.registered
    /\ Spend("messages")
    /\ db' = [db EXCEPT !.event = "waiting"]
    /\ UNCHANGED <<backend, provider, history, topology, outbox, main, live, call>>

Crash ==
    /\ Spend("crashes")
    /\ main' = Idle
    /\ live' = Idle
    /\ call' = [c \in Callers |-> NoCall]
    /\ outbox' = Answered(Selected(outbox, {i \in 1..Len(outbox) : Real(outbox[i])}), "new")
    /\ UNCHANGED <<backend, provider, history, db, topology>>

-----------------------------------------------------------------------------
FinishPoll == ApplyBatch \/ ClearBlockedBatch \/ ApplySnapshot

RefreshParticipants ==
    \/ FetchParticipants
    \/ MergeParticipants
    \/ StampParticipants
    \/ ReportParticipants
    \/ CompleteParticipants

ProcessMessage ==
    \/ TakeMessage
    \/ MergeTopic
    \/ StampTopic
    \/ ReportTopic
    \/ ConvertMessage

Around ==
    \/ Reconnect
    \/ RequestReset
    \/ Revoke
    \/ WithdrawTopic
    \/ AddUnsupported
    \/ ExpireCursor
    \/ ChangeMembers
    \/ ReceiveMessage
    \/ Crash

Next ==
    \/ FetchChanges \/ FinishPoll
    \/ FlushReports \/ ApplyResult \/ LoseAnswer \/ CoolDown
    \/ ReconcileParticipants \/ ClaimParticipants \/ ReapParticipants
    \/ RefreshParticipants
    \/ ProcessMessage
    \/ InvalidateParticipants
    \/ \E c \in Callers : CallZulip(c) \/ RecordCall(c)
    \/ Around

Spec == Init /\ [][Next]_vars

(* Every task of the main loop comes up again (its timers are finite and   *)
(* a pass visits them all), what a thread has begun it goes on with, time  *)
(* passes, and the backend drops a cursor that stays blocked.              *)
Fairness ==
    /\ SF_vars(FetchChanges)
    /\ SF_vars(FlushReports)
    /\ SF_vars(ReconcileParticipants \/ ClaimParticipants \/ ReapParticipants)
    /\ WF_vars(FinishPoll \/ ApplyResult \/ RefreshParticipants)
    /\ SF_vars(ProcessMessage)
    /\ WF_vars(CoolDown)
    /\ WF_vars(ExpireCursor /\ db.blocked)
    /\ \A c \in Callers : WF_vars(CallZulip(c) \/ RecordCall(c))

FairSpec == Spec /\ Fairness

-----------------------------------------------------------------------------
(* Properties *)

(* The stored desired state is what the backend's log said at the stored   *)
(* cursor: no change is skipped, applied twice or taken back, through      *)
(* batches of any length, a refused batch, a snapshot taken while the log  *)
(* grows, and crashes (apply_desired_changes, install_snapshot).           *)
DesiredIsLog ==
    db.cursor # 0 =>
        /\ db.account.gen = Newest("account", db.cursor).gen
        /\ db.account.reset = Newest("account", db.cursor).reset
        /\ db.chat.gen = Newest("chat", db.cursor).gen
        /\ db.chat.content = Newest("chat", db.cursor).content

(* Each projection reset is carried out once, when it is first seen, and   *)
(* never again by a snapshot, a restart or a reconnect                     *)
(* (_reconcile_provider_account_generation).                               *)
ResetOnce ==
    /\ \A i, j \in 1..Len(db.resets) : i < j => db.resets[i] < db.resets[j]
    /\ db.account.reset = IF db.resets = <<>> THEN 0 ELSE Last(db.resets)

(* No mapping outlives the assignment that gave it, so no message is       *)
(* converted into a topic Workspace took back                              *)
(* (_assignment_projection_is_additive, _tombstone_workspace_projection).  *)
NoStaleMapping == db.mapped \subseteq db.chat.content.topics

(* Participants are ready only on a list fetched after every subscriber    *)
(* change whose event was processed, although the event may be processed   *)
(* while an older list is being reported (invalidate_participant_sync,     *)
(* complete_participant_sync_batch).                                       *)
ParticipantsAreCurrent == db.sync.state = "ready" => db.sync.asof >= noticed

(* The account is quarantined only if Zulip refused the credentials of the *)
(* generation it has now, and a quarantine ends only with another          *)
(* generation: late answers to older requests change nothing               *)
(* (record_provider_account_failure, record_provider_account_success).     *)
Quarantine ==
    [][/\ db'.sched.state = "auth_required" => db'.sched.gen \in refused'
       /\ db.sched.state = "auth_required" /\ db'.sched.state # "auth_required"
             => db'.sched.gen # db.sched.gen]_vars

(* A topic that the assignment had and has no more.                        *)
Withdrawn ==
    \E i \in 1..Len(log) :
        log[i].of = "chat" /\ ~ log[i].content.topics \subseteq ChatNow.content.topics
(* Nothing is left to do in the loop.                                      *)
Converged ==
    /\ db.cursor = Len(log) /\ ~ db.blocked
    /\ db.chat.content.members = zulip.members
    /\ db.event \notin {"waiting", "marked"} \/ Withdrawn

(* Whatever was reported in whatever order, once nothing changes any more  *)
(* the bridge holds the backend's newest state, the assignment has the     *)
(* channel's subscribers, no message waits for a topic Workspace did not   *)
(* take back, and participants keep being ready; or the account is         *)
(* quarantined.                                                            *)
LoopSettles ==
    \/ <>[](db.sched.state = "auth_required")
    \/ <>[]Converged /\ []<>(db.sync.state = "ready")

(* "Keep the durable journal head intact until reconnecting advances the   *)
(* account generation and opens the breaker" (service.py:3388): a message  *)
(* is not given up once the account is reconnected after a refusal.        *)
HeadIsKept ==
    [][/\ db.event \in {"waiting", "marked"}
       /\ \E gen \in refused : gen < db.account.gen
       => db'.event # "invalid"]_vars
=============================================================================
