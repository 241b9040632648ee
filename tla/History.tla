------------------------------ MODULE History ------------------------------
(***************************************************************************)
(* Old messages: several accounts capture their history into shared        *)
(* batches, a directory pass rewrites the names in them, and a publisher   *)
(* imports the finished batches into Workspace.                            *)
(*                                                                         *)
(* Actors.  The control thread (desired state, reconcile_backfill_jobs,    *)
(* reap), the history threads (run_backfill_once, several at a time), one  *)
(* directory pass and one publisher at a time (their locks), the event     *)
(* poll that learns of renamed users, and the Workspace import service,    *)
(* which is external.  Every transaction and every call is one step.       *)
(*                                                                         *)
(* One scope (project and realm), one chat per account.  A range stands    *)
(* for 5000 message IDs, the highest is captured first; of a body only     *)
(* the observers and the version of the user names are kept.  Delays are   *)
(* dropped.  A lease is named by its holder: a thread has one claim at a   *)
(* time, so this tells apart what the code's lease_until tells apart.      *)
(***************************************************************************)
EXTENDS Integers, FiniteSets, FiniteSetsExt, SequencesExt

CONSTANTS
    Accounts,           \* connected accounts, numbered by uuid order
    Ranges,             \* 1 .. the newest range
    Workers,            \* history threads
    None,               \* SQL NULL
    CaptureAttempts,    \* CAPTURE_WRITE_MAX_ATTEMPTS, 8 in the code
    DirectoryAttempts,  \* DIRECTORY_WRITE_MAX_ATTEMPTS, 8 in the code
    Scenarios           \* bounds: what is wished for at the start, and which
                        \* changes, renames, restarts and failed calls happen

Depths == {"new", "recent", "all"}
Changes == {"touch", "depth", "select", "reconnect", "reset", "pause", "queue"}
Budget == [kinds: SUBSET Changes, changes: Nat, renames: Nat, crashes: Nat, faults: Nat]
Newest == Max(Ranges)

ASSUME HistoryAssumption ==
    /\ IsFiniteSet(Accounts) /\ Accounts = 1 .. Cardinality(Accounts)
    /\ IsFiniteSet(Ranges) /\ Ranges = 1 .. Cardinality(Ranges) /\ Ranges # {}
    /\ None \notin Workers
    /\ CaptureAttempts \in Nat \ {0} /\ DirectoryAttempts \in Nat \ {0}
    /\ Scenarios \subseteq [wish: [Accounts -> [selected: BOOLEAN, depth: Depths, cursor: {0, 1}]],
                            budget: Budget]

VARIABLES
    \* the database
    desired,        \* desired accounts and assignments, and the event cursors
    enabled,        \* the provider policy permits synchronisation
    config,         \* zulip_history_configuration: generation, fingerprint
    revision,       \* zulip_history_directory_revisions, 0: no row
    scope,          \* zulip_history_scopes
    job,            \* zulip_backfill_jobs, by account
    batch,          \* zulip_history_batches, by range
    report,         \* zulip_history_failure_reports
    \* the threads
    worker,         \* what each history thread has claimed
    pass,           \* the quantum that the directory pass prepared
    pub,            \* the publisher
    cache,          \* HistoryUserCache: version of the names, by account
    \* outside
    people,         \* version of the user names in Zulip
    import,         \* what Workspace has been asked to import, by range
    told,           \* the account reports that were queued
    noticed,        \* ghost: version of the names at the last invalidation
    budget

desiredVars == <<desired, enabled>>
scopeVars == <<config, revision, scope>>
outsideVars == <<people, import, told, noticed, budget>>
vars == <<desiredVars, scopeVars, job, batch, report, worker, pass, pub, cache,
          people, import, told, noticed, budget>>

Codes == {"capture_timeout", "directory_timeout", "rejected"}
JobStates == {"absent", "pending", "running", "complete", "failed", "cancelled"}
Desired == [gen: Nat, agen: Nat, selected: BOOLEAN, depth: Depths, cursor: Nat]
Source == [account: Accounts, gen: Nat, agen: Nat, depth: Depths]
ImportSource == [account: Accounts, gen: Nat, agen: Nat]
Envelope == [gen: Nat, sources: SUBSET ImportSource, access: SUBSET Accounts, names: Nat]
Fingerprint == {<<>>} \cup [Accounts -> Nat \X BOOLEAN \X Depths]
Job == [state: JobStates, anchor: Ranges \cup {0}, depth: Depths,
        lease: Workers \cup {None}, live: BOOLEAN, tries: Nat, timeout: BOOLEAN]
Stored == [access: SUBSET Accounts, names: Nat]
Batch == [access: SUBSET Accounts, names: Nat, status: {"pending", "complete", "failed"},
          receipt: Envelope \cup {None}, sources: (SUBSET ImportSource) \cup {None},
          mapped: Nat, leased: BOOLEAN, live: BOOLEAN]
Scope == [gen: Nat, sources: SUBSET Source, pending: BOOLEAN, rev: Nat, ack: Nat,
          account: Nat, cursor: Nat, users: Nat, tries: Nat]
Report == [gen: Nat, code: Codes, after: Nat, complete: BOOLEAN]
Claim == [pc: {"fetched", "read", "timeout"}, account: Accounts, gen: Nat, agen: Nat,
          range: Ranges, complete: BOOLEAN, names: Nat, scope: Nat, directory: Nat,
          prior: Stored \cup {None}, users: Nat]
Pass == [scope: Scope, kind: {"account", "batch", "end"}, range: Nat, names: Nat,
         prior: Stored \cup {None}]
Answers == {"", "processing", "complete", "failed", "gone", "busy", "refused", "lost"}
Pub == [pc: {"idle", "claimed", "checked", "answered"}, range: Nat,
        envelope: Envelope \cup {None}, receipt: Envelope \cup {None},
        mapped: Nat, answer: Answers]

(* NULL is neither a number nor a row. *)
ASSUME NullAssumption ==
    /\ None \notin Nat
    /\ None \notin Stored /\ None \notin Batch /\ None \notin Envelope
    /\ None \notin Scope /\ None \notin Report /\ None \notin Claim /\ None \notin Pass

TypeOK ==
    /\ desired \in [Accounts -> Desired]
    /\ enabled \in BOOLEAN
    /\ config \in [gen: Nat, fingerprint: Fingerprint]
    /\ revision \in Nat
    /\ scope \in Scope \cup {None}
    /\ job \in [Accounts -> Job]
    /\ batch \in [Ranges -> Batch \cup {None}]
    /\ report \in Report \cup {None}
    /\ worker \in [Workers -> Claim \cup {None}]
    /\ pass \in Pass \cup {None}
    /\ pub \in Pub
    /\ cache \in [Accounts -> Nat \cup {None}]
    /\ people \in Nat /\ noticed \in 0 .. people
    /\ import \in [Ranges -> Envelope \cup {None}]
    /\ told \subseteq Accounts \X Nat \X Codes
    /\ budget \in Budget
-----------------------------------------------------------------------------
(* The sources of the scope: selected chats of accounts whose event queue  *)
(* was registered for the account's generation.                            *)
Live == {a \in Accounts : desired[a].selected /\ desired[a].cursor = desired[a].gen}

sources ==
    {[account |-> a, gen |-> desired[a].gen, agen |-> desired[a].agen,
      depth |-> desired[a].depth] : a \in Live}

(* A revision of the assignment alone does not change what is captured. *)
fingerprint(rows) ==
    {[account |-> s.account, gen |-> s.gen, depth |-> s.depth] : s \in rows}

(* Of the whole configuration, as kept before scopes existed: the event    *)
(* cursors are not part of it.                                             *)
legacyFingerprint ==
    [a \in Accounts |-> <<desired[a].gen, desired[a].selected, desired[a].depth>>]

(* The sources as they are sent with a batch. *)
sources_for ==
    {[account |-> a, gen |-> desired[a].gen, agen |-> desired[a].agen] : a \in Live}

FingerprintCurrent ==
    scope # None /\ fingerprint(scope.sources) = fingerprint(sources)

ScopeAccounts(s) == {x.account : x \in s.sources}

Body(b) == IF b = None THEN None ELSE [access |-> b.access, names |-> b.names]

(* Mutant: a batch that was published stays so. *)
ReceiptDropped(b) ==
    IF b = None THEN None
    ELSE [b EXCEPT !.receipt = None, !.mapped = 0, !.leased = FALSE, !.live = FALSE]

(* Publication starts again from nothing. *)
Unpublished(b) ==
    IF b = None THEN None
    ELSE [b EXCEPT !.status = "pending", !.receipt = None, !.mapped = 0,
                   !.leased = FALSE, !.live = FALSE]
-----------------------------------------------------------------------------
(* history_failure_reports: the one reporting cursor of the scope. *)
NewReport(gen, code) == [gen |-> gen, code |-> code, after |-> 0, complete |-> FALSE]

(* record: a capture timeout does not replace another error of the same    *)
(* generation; a new timeout reports again what was completely reported.   *)
record(r, gen, code, restart) ==
    IF \/ r = None
       \/ /\ r.gen # gen \/ r.code # code \/ (restart /\ r.complete)
          /\ code # "capture_timeout" \/ r.gen # gen \/ r.code = code
    THEN NewReport(gen, code)
    ELSE r

(* carry_capture: only the publication generation changed, and some source *)
(* still has a capture that timed out.                                     *)
carry_capture(r, s) ==
    IF \A x \in s.sources : ~job[x.account].timeout THEN r
    ELSE IF r = None THEN NewReport(s.gen, "capture_timeout")
    ELSE IF r.gen = s.gen THEN r
    ELSE IF r.code = "capture_timeout" THEN [r EXCEPT !.gen = s.gen]
    ELSE NewReport(s.gen, "capture_timeout")

(* carry_directory: a stopped directory pass keeps its report. *)
carry_directory(r, s) ==
    IF r # None /\ s.pending /\ s.tries >= DirectoryAttempts
       /\ r.code = "directory_timeout"
    THEN [r EXCEPT !.gen = s.gen]
    ELSE r

(* _scope_current *)
ScopeCurrent(r) ==
    /\ FingerprintCurrent
    /\ ~scope.pending \/ r.code \in {"capture_timeout", "directory_timeout"}
    /\ r.code = "directory_timeout" => scope.tries >= DirectoryAttempts
    /\ scope.gen = r.gen
-----------------------------------------------------------------------------
NoJob == [state |-> "absent", anchor |-> 0, depth |-> "all", lease |-> None,
          live |-> FALSE, tries |-> 0, timeout |-> FALSE]
IdlePub == [pc |-> "idle", range |-> 0, envelope |-> None, receipt |-> None,
            mapped |-> 0, answer |-> ""]

Init ==
    /\ \E s \in Scenarios :
          /\ desired = [a \in Accounts |->
                           [gen |-> 1, agen |-> 1, selected |-> s.wish[a].selected,
                            depth |-> s.wish[a].depth, cursor |-> s.wish[a].cursor]]
          /\ budget = s.budget
    /\ enabled = TRUE
    /\ config = [gen |-> 1, fingerprint |-> <<>>]
    /\ revision = 0
    /\ scope = None
    /\ job = [a \in Accounts |-> NoJob]
    /\ batch = [r \in Ranges |-> None]
    /\ report = None
    /\ worker = [w \in Workers |-> None]
    /\ pass = None
    /\ pub = IdlePub
    /\ cache = [a \in Accounts |-> None]
    /\ people = 0 /\ noticed = 0
    /\ import = [r \in Ranges |-> None]
    /\ told = {}

Spend(kind) == budget[kind] > 0 /\ budget' = [budget EXCEPT ![kind] = @ - 1]
-----------------------------------------------------------------------------
(* The control plane.  Applied by synchronize_control; the next tick       *)
(* reconciles, in a transaction of its own.                                *)
SetDesired(a, d) == desired' = [desired EXCEPT ![a] = d]

Touch(a) ==
    /\ desired[a].selected
    /\ SetDesired(a, [desired[a] EXCEPT !.agen = @ + 1])
    /\ UNCHANGED <<enabled, job, cache>>

ChangeDepth(a) ==
    /\ \E d \in Depths \ {desired[a].depth} :
          SetDesired(a, [desired[a] EXCEPT !.agen = @ + 1, !.depth = d])
    /\ UNCHANGED <<enabled, job, cache>>

ChangeSelection(a) ==
    /\ SetDesired(a, [desired[a] EXCEPT !.agen = @ + 1, !.selected = ~@])
    /\ UNCHANGED <<enabled, job, cache>>

(* New credentials: the event cursor is deleted, the cached users of the   *)
(* old generation are not looked up any more, and a capture that failed    *)
(* for want of authorisation is tried again.                               *)
Reconnect(a) ==
    /\ SetDesired(a, [desired[a] EXCEPT !.gen = @ + 1, !.cursor = 0])
    /\ cache' = [cache EXCEPT ![a] = None]
    /\ \/ UNCHANGED job
       \/ /\ job[a].state = "failed" /\ ~job[a].timeout
          /\ job' = [job EXCEPT ![a] = [@ EXCEPT !.state = "pending", !.lease = None, !.tries = 0]]
    /\ UNCHANGED enabled

(* A projection reset also cancels the account's job. *)
ResetProjection(a) ==
    /\ SetDesired(a, [desired[a] EXCEPT !.gen = @ + 1, !.cursor = 0])
    /\ job' = [job EXCEPT ![a] =
                  IF @.state = "absent" THEN @
                  ELSE [@ EXCEPT !.state = "cancelled", !.anchor = 0, !.lease = None,
                                 !.live = FALSE, !.tries = 0]]
    /\ cache' = [cache EXCEPT ![a] = None]
    /\ UNCHANGED enabled

Pause ==
    /\ enabled' = ~enabled
    /\ UNCHANGED <<desired, job, cache>>

Change(kind, a) ==
    /\ kind \in budget.kinds
    /\ Spend("changes")
    /\ \/ kind = "touch" /\ Touch(a)
       \/ kind = "depth" /\ ChangeDepth(a)
       \/ kind = "select" /\ ChangeSelection(a)
       \/ kind = "reconnect" /\ Reconnect(a)
       \/ kind = "reset" /\ ResetProjection(a)
       \/ kind = "pause" /\ Pause
    /\ UNCHANGED <<scopeVars, batch, report, worker, pass, pub, people, import,
                   told, noticed>>

(* invalidate_directory: the names must be read again; publication waits. *)
invalidate_directory ==
    LET gen == config.gen + 1
        s   == [scope EXCEPT !.gen = gen, !.rev = gen, !.pending = TRUE, !.account = 0,
                             !.cursor = 0, !.users = 0, !.tries = 0]
        kept == IF report # None /\ report.code = "directory_timeout" THEN None ELSE report
    IN  /\ config' = [config EXCEPT !.gen = gen]
        /\ revision' = gen
        /\ IF scope = None THEN UNCHANGED <<scope, report>>
           ELSE scope' = s /\ report' = carry_capture(kept, s)
        /\ noticed' = people

(* _register_provider_event_queue of an account without a cursor. *)
Register(a) ==
    /\ desired[a].cursor = 0
    /\ SetDesired(a, [desired[a] EXCEPT !.cursor = desired[a].gen])
    /\ UNCHANGED <<enabled, scopeVars, job, batch, report, worker, pass, pub, cache,
                   outsideVars>>

(* Zulip lost the queue and another is registered: the gap between them    *)
(* may hide a renamed user.                                                *)
ReplaceQueue(a) ==
    /\ "queue" \in budget.kinds
    /\ Spend("changes")
    /\ desired[a].cursor # 0
    /\ invalidate_directory
    /\ UNCHANGED <<desiredVars, job, batch, worker, pass, pub, cache, people, import, told>>

(* Somebody is renamed in Zulip. *)
Rename ==
    /\ Spend("renames")
    /\ people' = people + 1
    /\ UNCHANGED <<desiredVars, scopeVars, job, batch, report, worker, pass, pub, cache,
                   import, told, noticed>>

(* The realm_user event is recorded. *)
RecordRename ==
    /\ noticed < people
    /\ \E a \in Accounts : desired[a].cursor # 0
    /\ invalidate_directory
    /\ UNCHANGED <<desiredVars, job, batch, worker, pass, pub, cache, people,
                   import, told, budget>>
-----------------------------------------------------------------------------
(* history_configuration.reconcile *)
(* Only assignment revisions changed: the captures stay, the receipts must *)
(* be taken again under the new revisions.                                 *)
Restamp ==
    LET s == [scope EXCEPT !.sources = sources, !.gen = config.gen + 1]
    IN  /\ scope' = s
        /\ report' = carry_capture(carry_directory(report, s), s)
        /\ batch' = [r \in Ranges |->
                        IF batch[r] = None THEN None
                        ELSE [Unpublished(batch[r]) EXCEPT !.sources = None]]

FreshScope(gen) ==
    LET rev == IF revision # 0 THEN revision ELSE IF scope # None THEN scope.rev ELSE 0
        ack == IF scope # None THEN scope.ack ELSE 0
    IN  [gen |-> gen, sources |-> sources,
         pending |-> rev # ack \/ (scope # None /\ scope.pending),
         rev |-> rev, ack |-> ack, account |-> 0, cursor |-> 0, users |-> 0, tries |-> 0]

Cancelled(j) ==
    IF j.state = "absent" THEN j
    ELSE [j EXCEPT !.state = "cancelled", !.anchor = 0, !.lease = None, !.live = FALSE,
                   !.tries = 0, !.timeout = FALSE]

Affected ==
    {s.account : s \in (IF scope = None THEN {} ELSE scope.sources) \cup sources}

(* Mutant: a cancelled job of the same depth is not started again. *)
UpsertedIfChanged(j, d) ==
    IF ~d.selected
    THEN IF j.state = "absent" THEN j ELSE [j EXCEPT !.state = "cancelled", !.timeout = FALSE]
    ELSE IF j.state = "absent" \/ j.depth # d.depth
    THEN [j EXCEPT !.anchor = 0, !.depth = d.depth,
                   !.state = IF d.depth = "new" THEN "complete" ELSE "pending"]
    ELSE j

(* The upsert of reconcile_backfill_jobs, and the cancellation of what is  *)
(* no longer selected.                                                     *)
Upserted(j, d) ==
    IF ~d.selected
    THEN IF j.state = "absent" THEN j ELSE [j EXCEPT !.state = "cancelled", !.timeout = FALSE]
    ELSE IF j.state \in {"absent", "cancelled"} \/ j.depth # d.depth
    THEN [j EXCEPT !.anchor = 0, !.depth = d.depth,
                   !.state = IF d.depth = "new" THEN "complete" ELSE "pending"]
    ELSE j

(* reconcile_backfill_jobs: one transaction. *)
reconcile_backfill_jobs ==
    LET first    == scope = None /\ sources = {}
        preserve == scope = None /\ config.fingerprint = legacyFingerprint
        rebuild  == ~first /\ ~FingerprintCurrent /\ ~preserve
        restamp  == FingerprintCurrent /\ scope.sources # sources
        kept     == IF rebuild THEN [a \in Accounts |-> IF a \in Affected THEN Cancelled(job[a])
                                                                         ELSE job[a]]
                               ELSE job
    IN  /\ config' = [gen |-> IF rebuild \/ restamp THEN config.gen + 1 ELSE config.gen,
                      fingerprint |-> legacyFingerprint]
        /\ \/ restamp /\ Restamp
           \/ /\ rebuild
              /\ scope' = FreshScope(config.gen + 1)
              /\ report' = None
              /\ batch' = [r \in Ranges |-> None]
           \/ /\ preserve /\ ~first
              /\ scope' = FreshScope(config.gen)
              /\ UNCHANGED <<report, batch>>
           \/ ~rebuild /\ ~restamp /\ (preserve => first) /\ UNCHANGED <<scope, report, batch>>
        /\ job' = [a \in Accounts |-> Upserted(kept[a], desired[a])]
        /\ UNCHANGED <<desiredVars, revision, worker, pass, pub, cache, people,
                       import, told, noticed, budget>>

(* reap_expired_history_leases *)
Reap ==
    /\ \E a \in Accounts : job[a].state = "running" /\ ~job[a].live
    /\ job' = [a \in Accounts |->
                  IF job[a].state = "running" /\ ~job[a].live
                  THEN [job[a] EXCEPT !.state = "pending", !.lease = None] ELSE job[a]]
    /\ UNCHANGED <<desiredVars, scopeVars, batch, report, worker, pass, pub, cache,
                   outsideVars>>
-----------------------------------------------------------------------------
(* Capture: run_backfill_once. *)
captureVars == <<desiredVars, scopeVars, pass, pub, people, import, told, noticed>>

Idle(w) == worker' = [worker EXCEPT ![w] = None]
Step(w, c) == worker' = [worker EXCEPT ![w] = c]

(* The range that an account's job captures next, and the claim on it. *)
NextRange(a) == IF job[a].anchor = 0 THEN Newest ELSE job[a].anchor

Fetched(a, names) ==
    [pc |-> "fetched", account |-> a, gen |-> desired[a].gen, agen |-> desired[a].agen,
     range |-> NextRange(a), complete |-> NextRange(a) = 1 \/ job[a].depth = "recent",
     names |-> names, scope |-> 0, directory |-> 0, prior |-> None, users |-> 0]

(* claim_backfill_job, and the provider calls that read one range with its *)
(* users; the users come from the cache unless they left it (TTL, limits). *)
ClaimRange(w, a) ==
    /\ worker[w] = None
    /\ desired[a].selected
    /\ \/ job[a].state = "pending"
       \/ job[a].state = "running" /\ ~job[a].live
    /\ job' = [job EXCEPT ![a] = [@ EXCEPT !.state = "running", !.lease = w, !.live = TRUE]]
    /\ \E names \in {cache[a], people} \ {None} :
          cache' = [cache EXCEPT ![a] = names] /\ Step(w, Fetched(a, names))
    /\ UNCHANGED <<captureVars, batch, report, budget>>

(* _history_capture_context *)
Context(c) ==
    LET d == desired[c.account]
    IN  d.selected /\ d.agen = c.agen /\ d.gen = c.gen /\ d.cursor = d.gen

Holds(w, c) == job[c.account].state = "running" /\ job[c.account].lease = w

(* _release_history_capture *)
Released(w, c) ==
    IF Holds(w, c)
    THEN [job EXCEPT ![c.account] = [@ EXCEPT !.state = "pending", !.lease = None]]
    ELSE job

Applied(s) == s.account > 0 /\ s.account >= Cardinality(ScopeAccounts(s))

(* save_history_batch reads what it will compare; the merge is prepared    *)
(* outside the transaction.  Without a cursor the claim is released even   *)
(* when it belongs to another thread (release_backfill_job).               *)
ReadPrior(w) ==
    LET c == worker[w]
    IN  /\ c # None /\ c.pc = "fetched"
        /\ IF desired[c.account].cursor = 0
           THEN /\ job' = IF job[c.account].state # "running" THEN job
                          ELSE [job EXCEPT ![c.account] =
                                   [@ EXCEPT !.state = "pending", !.lease = None]]
                /\ Idle(w)
           ELSE IF ~Context(c) \/ scope = None
           THEN job' = Released(w, c) /\ Idle(w)
           ELSE /\ Step(w, [c EXCEPT !.pc = "read", !.scope = scope.gen,
                                     !.directory = scope.account,
                                     !.prior = Body(batch[c.range]),
                                     !.users = IF Applied(scope) THEN scope.users ELSE c.names])
                /\ UNCHANGED job
        /\ UNCHANGED <<captureVars, batch, report, cache, budget>>

(* Mutant: the assembled directory is not applied. *)
MergedWithoutDirectory(c) ==
    [access |-> (IF c.prior = None THEN {} ELSE c.prior.access) \cup {c.account},
     names  |-> c.names]

(* merge_batch, and with_directory once the directory is assembled. *)
merge_batch(c) ==
    [access |-> (IF c.prior = None THEN {} ELSE c.prior.access) \cup {c.account},
     names  |-> c.users]

(* The transaction's checks, in the code's order: what is still ours is    *)
(* released, what is not is left alone.                                    *)
Unchanged(c) ==
    Context(c) /\ scope # None /\ scope.gen = c.scope /\ scope.account = c.directory

(* Mutant: the stored body is not compared. *)
MayOverwrite(w, c) == Unchanged(c) /\ Holds(w, c) /\ job[c.account].live /\ enabled

MayWrite(w, c) ==
    /\ Unchanged(c)
    /\ Holds(w, c) /\ job[c.account].live
    /\ enabled
    /\ Body(batch[c.range]) = c.prior

Written(b, body) ==
    IF b = None
    THEN [access |-> body.access, names |-> body.names, status |-> "pending",
          receipt |-> None, sources |-> None, mapped |-> 0, leased |-> FALSE, live |-> FALSE]
    ELSE [b EXCEPT !.access = body.access, !.names = body.names]

(* Mutant: the checkpoint moves towards newer ranges. *)
AdvancedUpwards(c) ==
    [job EXCEPT ![c.account] =
        [@ EXCEPT !.anchor = IF c.complete THEN 0 ELSE c.range + 1,
                  !.state = IF c.complete THEN "complete" ELSE "pending",
                  !.lease = None, !.live = FALSE, !.tries = 0, !.timeout = FALSE]]

(* advance_backfill_job *)
Advanced(c) ==
    [job EXCEPT ![c.account] =
        [@ EXCEPT !.anchor = IF c.complete THEN 0 ELSE c.range - 1,
                  !.state = IF c.complete THEN "complete" ELSE "pending",
                  !.lease = None, !.live = FALSE, !.tries = 0, !.timeout = FALSE]]

save_history_batch(w) ==
    LET c == worker[w]
    IN  /\ c # None /\ c.pc = "read"
        /\ IF MayWrite(w, c)
           THEN /\ batch' = [batch EXCEPT ![c.range] = Written(@, merge_batch(c))]
                /\ job' = Advanced(c)
           ELSE /\ job' = IF Unchanged(c) /\ ~(Holds(w, c) /\ job[c.account].live)
                          THEN job ELSE Released(w, c)
                /\ UNCHANGED batch
        /\ Idle(w)
        /\ UNCHANGED <<captureVars, report, cache, budget>>

(* The write exceeds its statement budget and is rolled back. *)
WriteTimesOut(w) ==
    LET c == worker[w]
    IN  /\ c # None /\ c.pc = "read"
        /\ MayWrite(w, c) /\ c.prior # merge_batch(c)
        /\ Spend("faults")
        /\ Step(w, [c EXCEPT !.pc = "timeout"])
        /\ UNCHANGED <<captureVars, job, batch, report, cache>>

(* defer_history_capture_write *)
defer_history_capture_write(w) ==
    LET c == worker[w]
        tries == job[c.account].tries + 1
    IN  /\ c # None /\ c.pc = "timeout"
        /\ IF ~Context(c) \/ scope = None \/ scope.gen # c.scope \/ ~enabled
           THEN job' = Released(w, c) /\ UNCHANGED report
           ELSE IF ~(Holds(w, c) /\ job[c.account].live)
           THEN UNCHANGED <<job, report>>
           ELSE /\ job' = [job EXCEPT ![c.account] =
                              [@ EXCEPT !.state = IF tries >= CaptureAttempts THEN "failed"
                                                                             ELSE "pending",
                                        !.lease = None, !.live = FALSE, !.tries = tries,
                                        !.timeout = TRUE]]
                /\ report' = record(report, c.scope, "capture_timeout", TRUE)
        /\ Idle(w)
        /\ UNCHANGED <<captureVars, batch, cache, budget>>

(* _transition_history_capture: released, deferred or failed.  Another     *)
(* error ends a run of write timeouts.                                     *)
Transitions(j) ==
    {[j EXCEPT !.state = "pending", !.lease = None],
     [j EXCEPT !.state = "pending", !.lease = None, !.tries = 0],
     [j EXCEPT !.state = "failed", !.lease = None, !.tries = 0]}

(* _fail_history_capture: a provider error, fenced by the exact claim. *)
CaptureFails(w) ==
    LET c == worker[w]
        j == job[c.account]
    IN  /\ c # None /\ c.pc = "fetched"
        /\ Spend("faults")
        /\ IF Context(c) /\ Holds(w, c) /\ j.live
           THEN \E next \in Transitions(j) : job' = [job EXCEPT ![c.account] = next]
           ELSE UNCHANGED job
        /\ Idle(w)
        /\ UNCHANGED <<captureVars, batch, report, cache>>

(* Ten minutes pass without a renewal: at once for a lease that nobody     *)
(* holds any more, after failed renewals for one that is in use.           *)
ExpireCapture(a) ==
    /\ job[a].state = "running" /\ job[a].live
    /\ IF \E w \in Workers : worker[w] # None /\ worker[w].account = a /\ Holds(w, worker[w])
       THEN Spend("faults") ELSE UNCHANGED budget
    /\ job' = [job EXCEPT ![a] = [@ EXCEPT !.live = FALSE]]
    /\ UNCHANGED <<captureVars, batch, report, cache, worker>>
-----------------------------------------------------------------------------
(* The directory pass: refresh_once. *)
passVars == <<desiredVars, config, job, worker, pub, people, import, told, noticed>>

LaterBatches(cursor) == {r \in Ranges : r > cursor /\ batch[r] # None}

(* One quantum is read and prepared: an account's directory is fetched     *)
(* past the cache, or the next batch is rewritten, or nothing is left.     *)
PrepareQuantum ==
    /\ enabled /\ pass = None
    /\ scope # None /\ scope.pending /\ scope.tries < DirectoryAttempts
    /\ LET account == SetToSortSeq(ScopeAccounts(scope), <)[scope.account + 1]
           next == Min(LaterBatches(scope.cursor))
       IN  \/ /\ scope.account < Cardinality(ScopeAccounts(scope))
              /\ cache' = [cache EXCEPT ![account] = people]
              /\ pass' = [scope |-> scope, kind |-> "account", range |-> 0, names |-> people,
                          prior |-> None]
           \/ /\ scope.account >= Cardinality(ScopeAccounts(scope))
              /\ LaterBatches(scope.cursor) # {}
              /\ pass' = [scope |-> scope, kind |-> "batch", range |-> next,
                          names |-> IF Applied(scope) THEN scope.users ELSE batch[next].names,
                          prior |-> Body(batch[next])]
              /\ UNCHANGED cache
           \/ /\ scope.account >= Cardinality(ScopeAccounts(scope))
              /\ LaterBatches(scope.cursor) = {}
              /\ pass' = [scope |-> scope, kind |-> "end", range |-> 0, names |-> 0,
                          prior |-> None]
              /\ UNCHANGED cache
    /\ UNCHANGED <<passVars, revision, scope, batch, report, budget>>

PassCurrent ==
    /\ scope # None /\ scope.gen = pass.scope.gen /\ scope.pending
    /\ scope.tries < DirectoryAttempts
    /\ scope.cursor = pass.scope.cursor /\ scope.account = pass.scope.account
    /\ FingerprintCurrent

(* The last quantum acknowledges the revision unless a batch appeared; the *)
(* realm's revision is dropped once every scope has it.                    *)
Acknowledge ==
    IF LaterBatches(pass.scope.cursor) # {} THEN UNCHANGED <<scope, revision>>
    ELSE /\ scope' = [scope EXCEPT !.pending = FALSE, !.ack = scope.rev, !.tries = 0]
         /\ revision' = IF revision = scope.rev THEN 0 ELSE revision

(* _apply_refresh *)
ApplyQuantum ==
    /\ pass # None
    /\ IF ~PassCurrent THEN UNCHANGED <<scope, revision, batch>>
       ELSE \/ /\ pass.kind = "account"
               /\ scope' = [scope EXCEPT !.users = pass.names, !.account = @ + 1, !.tries = 0]
               /\ UNCHANGED <<revision, batch>>
            \/ /\ pass.kind = "batch"
               /\ IF Body(batch[pass.range]) # pass.prior THEN UNCHANGED <<scope, batch>>
                  ELSE /\ batch' = [batch EXCEPT ![pass.range] =
                                       [Unpublished(@) EXCEPT !.names = pass.names]]
                       /\ scope' = [scope EXCEPT !.cursor = pass.range, !.tries = 0]
               /\ UNCHANGED revision
            \/ pass.kind = "end" /\ Acknowledge /\ UNCHANGED batch
    /\ pass' = None
    /\ UNCHANGED <<passVars, report, cache, budget>>

(* _defer_directory after a write that ran out of time; the last attempt   *)
(* stops the pass and is reported.                                         *)
QuantumTimesOut ==
    /\ pass # None
    /\ Spend("faults")
    /\ IF /\ PassCurrent /\ scope.rev = pass.scope.rev
          /\ fingerprint(scope.sources) = fingerprint(pass.scope.sources)
       THEN /\ scope' = [scope EXCEPT !.tries = @ + 1]
            /\ report' = IF scope.tries + 1 < DirectoryAttempts THEN report
                         ELSE record(report, scope.gen, "directory_timeout", FALSE)
       ELSE UNCHANGED <<scope, report>>
    /\ pass' = None
    /\ UNCHANGED <<passVars, revision, batch, cache>>
-----------------------------------------------------------------------------
(* Publication: HistoryPublisher. *)
pubVars == <<desiredVars, scopeVars, job, worker, pass, cache, people, noticed>>

(* Mutant: a capture that stopped for good is not waited for. *)
CapturesStopped == Live # {} /\ \A a \in Live : job[a].state \in {"complete", "failed"}

(* The sources have all finished their capture. *)
CapturesComplete == Live # {} /\ \A a \in Live : job[a].state = "complete"

(* claim: a batch of a scope whose directory is applied and whose sources  *)
(* have all finished their capture.  A receipt taken for other sources is  *)
(* dropped; while the service is busy no new import may be started.        *)
claim(r, admission) ==
    LET b == batch[r]
        receipt == IF b.sources = sources_for THEN b.receipt ELSE None
        mapped  == IF b.sources = sources_for THEN b.mapped ELSE 0
        granted == admission \/ receipt # None
    IN  /\ pub.pc = "idle" /\ enabled
        /\ FingerprintCurrent /\ ~scope.pending
        /\ b # None /\ b.status = "pending" /\ ~(b.leased /\ b.live)
        /\ admission \/ b.receipt # None
        /\ CapturesComplete
        /\ batch' = [batch EXCEPT ![r] =
                        [@ EXCEPT !.leased = granted, !.live = granted, !.mapped = mapped,
                                  !.sources = sources_for, !.receipt = receipt]]
        /\ pub' = IF ~granted THEN pub
                  ELSE [pc |-> "claimed", range |-> r, receipt |-> receipt, mapped |-> mapped,
                        envelope |-> [gen |-> scope.gen, sources |-> sources_for,
                                      access |-> b.access, names |-> b.names],
                        answer |-> ""]
        /\ UNCHANGED <<pubVars, report, import, told, budget>>

Mine == batch[pub.range] # None /\ batch[pub.range].leased

(* current *)
current ==
    /\ enabled
    /\ Mine /\ batch[pub.range].live
    /\ FingerprintCurrent /\ ~scope.pending /\ scope.gen = pub.envelope.gen
    /\ pub.envelope.sources = sources_for

(* release, fenced by the publisher's own lease. *)
release(status, receipt, reset) ==
    LET b == batch[pub.range]
    IN  batch' = IF ~Mine THEN batch
                 ELSE [batch EXCEPT ![pub.range] =
                          [b EXCEPT !.status = status, !.leased = FALSE, !.live = FALSE,
                                    !.receipt = IF reset THEN None
                                                ELSE IF receipt # None THEN receipt
                                                ELSE b.receipt,
                                    !.mapped = IF reset THEN 0 ELSE b.mapped]]

(* fail: a terminal error belongs to the configuration it was met in. *)
fail(receipt) ==
    IF current
    THEN /\ release("failed", receipt, FALSE)
         /\ report' = record(report, pub.envelope.gen, "rejected", FALSE)
    ELSE release("pending", None, FALSE) /\ UNCHANGED report

CheckClaim ==
    /\ pub.pc = "claimed"
    /\ IF current
       THEN pub' = [pub EXCEPT !.pc = "checked"] /\ UNCHANGED batch
       ELSE pub' = IdlePub /\ release("pending", None, FALSE)
    /\ UNCHANGED <<pubVars, report, import, told, budget>>

(* The request and what the service does with it.  It works on an import   *)
(* it has accepted until the next poll; a fault is a refusal, a busy       *)
(* service, an import that takes longer or fails, or a lost answer.        *)
Post ==
    /\ pub.pc = "checked" /\ pub.receipt = None
    /\ \/ /\ import' = [import EXCEPT ![pub.range] = pub.envelope]
          /\ \/ /\ pub' = [pub EXCEPT !.pc = "answered", !.receipt = pub.envelope,
                                      !.answer = "processing"]
                /\ UNCHANGED budget
             \/ Spend("faults") /\ pub' = [pub EXCEPT !.pc = "answered", !.answer = "lost"]
       \/ /\ Spend("faults")
          /\ \E answer \in {"busy", "refused"} :
                pub' = [pub EXCEPT !.pc = "answered", !.answer = answer]
          /\ UNCHANGED import
    /\ UNCHANGED <<pubVars, batch, report, told>>

Poll ==
    /\ pub.pc = "checked" /\ pub.receipt # None
    /\ \/ /\ pub' = [pub EXCEPT !.pc = "answered", !.answer =
                        IF import[pub.range] = pub.receipt THEN "complete" ELSE "gone"]
          /\ UNCHANGED budget
       \/ /\ Spend("faults")
          /\ \E answer \in {"gone", "failed", "processing", "lost"} :
                pub' = [pub EXCEPT !.pc = "answered", !.answer = answer]
    /\ UNCHANGED <<pubVars, batch, report, import, told>>

(* sync_references and save_references: the routing records of one account *)
(* are installed together with the cursor; the batch is complete after the *)
(* last account.                                                           *)
save_references ==
    LET mapped == pub.mapped + 1
    IN  batch' = [batch EXCEPT ![pub.range] =
           [@ EXCEPT !.mapped = mapped, !.receipt = pub.receipt,
                     !.status = IF mapped = Cardinality({s.account : s \in pub.envelope.sources})
                                THEN "complete" ELSE "pending",
                     !.leased = FALSE, !.live = FALSE]]

(* The rest of _publish.  "processing": a requested file is sent, and the  *)
(* batch waits for the next poll.                                          *)
HandleAnswer ==
    /\ pub.pc = "answered"
    /\ \/ /\ pub.answer = "complete" /\ current
          /\ save_references
          /\ UNCHANGED <<report, budget>>
       \/ /\ pub.answer = "complete" /\ current
          /\ Spend("faults")
          /\ release("pending", pub.receipt, FALSE)
          /\ UNCHANGED report
       \/ /\ \/ pub.answer \in {"busy", "lost", "processing"}
             \/ pub.answer = "complete" /\ ~current
          /\ release("pending", pub.receipt, FALSE)
          /\ UNCHANGED <<report, budget>>
       \/ /\ pub.answer = "gone"
          /\ release("pending", None, TRUE)
          /\ UNCHANGED <<report, budget>>
       \/ /\ pub.answer \in {"refused", "failed"}
          /\ fail(pub.receipt)
          /\ UNCHANGED budget
    /\ pub' = IdlePub
    /\ UNCHANGED <<pubVars, import, told>>

(* 120 seconds without a renewal. *)
ExpirePublication(r) ==
    /\ batch[r] # None /\ batch[r].leased /\ batch[r].live
    /\ IF pub.pc # "idle" /\ pub.range = r THEN Spend("faults") ELSE UNCHANGED budget
    /\ batch' = [batch EXCEPT ![r] = [@ EXCEPT !.live = FALSE]]
    /\ UNCHANGED <<pubVars, report, pub, import, told>>

-----------------------------------------------------------------------------
(* Mutant: the cursor skips an account. *)
AccountsAfterNext == {a \in ScopeAccounts(scope) : a > report.after + 1}

(* The accounts that are still to be told. *)
LaterAccounts == {a \in ScopeAccounts(scope) : a > report.after}

(* flush_once: one account of the failure report, or its retirement. *)
FlushReport ==
    LET later == LaterAccounts
        solved == /\ report.code = "capture_timeout"
                  /\ \A a \in ScopeAccounts(scope) : ~job[a].timeout
    IN  /\ report # None /\ ~report.complete
        /\ \/ /\ ~ScopeCurrent(report) \/ solved
              /\ report' = None
              /\ UNCHANGED told
           \/ /\ ScopeCurrent(report) /\ ~solved
              /\ enabled /\ (scope.pending => report.code = "directory_timeout")
              /\ \/ /\ later = {}
                    /\ report' = [report EXCEPT !.complete = TRUE]
                    /\ UNCHANGED told
                 \/ /\ later # {}
                    /\ told' = told \cup {<<Min(later), desired[Min(later)].gen, report.code>>}
                    /\ report' = [report EXCEPT !.after = Min(later)]
        /\ UNCHANGED <<pubVars, batch, pub, import, budget>>
-----------------------------------------------------------------------------
(* The process stops: what the threads hold is forgotten, leases stay. *)
Crash ==
    /\ Spend("crashes")
    /\ worker' = [w \in Workers |-> None]
    /\ pass' = None /\ pub' = IdlePub
    /\ cache' = [a \in Accounts |-> None]
    /\ UNCHANGED <<desiredVars, scopeVars, job, batch, report, people, import, told,
                   noticed>>

Capture(w) ==
    \/ \E a \in Accounts : ClaimRange(w, a)
    \/ ReadPrior(w) \/ save_history_batch(w) \/ WriteTimesOut(w)
    \/ defer_history_capture_write(w) \/ CaptureFails(w)

Publish ==
    \/ \E r \in Ranges, admission \in BOOLEAN : claim(r, admission)
    \/ CheckClaim \/ Post \/ Poll \/ HandleAnswer

Next ==
    \/ \E kind \in Changes, a \in Accounts : Change(kind, a)
    \/ \E a \in Accounts : Register(a) \/ ReplaceQueue(a) \/ ExpireCapture(a)
    \/ Rename \/ RecordRename
    \/ reconcile_backfill_jobs \/ Reap
    \/ \E w \in Workers : Capture(w)
    \/ PrepareQuantum \/ ApplyQuantum \/ QuantumTimesOut
    \/ Publish
    \/ \E r \in Ranges : ExpirePublication(r)
    \/ FlushReport
    \/ Crash

Spec == Init /\ [][Next]_vars

(* Every thread keeps running, and a lease that nobody renews runs out.    *)
FairSpec ==
    /\ Spec
    /\ \A a \in Accounts : WF_vars(Register(a)) /\ WF_vars(ExpireCapture(a))
    /\ WF_vars(RecordRename) /\ WF_vars(reconcile_backfill_jobs) /\ WF_vars(Reap)
    /\ \A w \in Workers :
          /\ \A a \in Accounts : WF_vars(ClaimRange(w, a))
          /\ WF_vars(ReadPrior(w)) /\ WF_vars(save_history_batch(w))
          /\ WF_vars(defer_history_capture_write(w))
    /\ WF_vars(PrepareQuantum) /\ WF_vars(ApplyQuantum)
    /\ \A r \in Ranges : SF_vars(claim(r, TRUE)) /\ WF_vars(ExpirePublication(r))
    /\ WF_vars(CheckClaim) /\ WF_vars(Post) /\ WF_vars(Poll) /\ WF_vars(HandleAnswer)
    /\ WF_vars(FlushReport)
-----------------------------------------------------------------------------
(* Properties *)

Wanted(depth) ==
    CASE depth = "new" -> {} [] depth = "recent" -> {Newest} [] depth = "all" -> Ranges

(* The ranges that an account's job has behind it. *)
Done(a) ==
    IF job[a].state = "complete" THEN Wanted(job[a].depth)
    ELSE {r \in Ranges : job[a].anchor # 0 /\ r > job[a].anchor}

(* What a job's checkpoint says was captured is in the batches, whatever   *)
(* rebuild, lost lease or write of another account came between.           *)
CheckpointIsCaptured ==
    FingerprintCurrent =>
        \A a \in Live : job[a].depth = desired[a].depth =>
            \A r \in Done(a) : batch[r] # None /\ a \in batch[r].access

(* A batch counts as published only if Workspace was given exactly this    *)
(* body, under the current generation and with the current sources.        *)
PublishedIsCurrent ==
    FingerprintCurrent /\ scope.sources = sources /\ ~scope.pending =>
        \A r \in Ranges :
            batch[r] # None /\ batch[r].status = "complete" /\ batch[r].access \subseteq Live =>
                import[r] = [gen |-> scope.gen, sources |-> sources_for,
                             access |-> batch[r].access, names |-> batch[r].names]

(* What is posted for a range has the observations of every source whose   *)
(* depth reaches it.                                                       *)
PostedIsWhole ==
    pub.pc \in {"checked", "answered"} =>
        \A s \in pub.envelope.sources :
            desired[s.account].agen = s.agen /\ desired[s.account].gen = s.gen
            /\ pub.range \in Wanted(desired[s.account].depth)
            => s.account \in pub.envelope.access

(* Disabled accounts contribute no observations. *)
OnlySourcesObserve ==
    pub.pc \in {"checked", "answered"} =>
        pub.envelope.access \subseteq {s.account : s \in pub.envelope.sources}

NamesSince(version) ==
    \A r \in Ranges : batch[r] # None => batch[r].names >= version

(* Once a directory pass has finished for these sources, no batch shows a  *)
(* name older than the invalidation that started it: not the batches it    *)
(* rewrote, not those captured meanwhile behind its cursor.                *)
NamesAreApplied ==
    scope # None /\ ~scope.pending /\ Applied(scope) => NamesSince(noticed)

(* A batch that failed for good in the current configuration is reported,  *)
(* and the report is finished only when every source account was told.     *)
FailureIsReported ==
    FingerprintCurrent /\ scope.sources = sources /\ ~scope.pending
    /\ (\E r \in Ranges : batch[r] # None /\ batch[r].status = "failed") =>
        /\ report # None /\ report.gen = scope.gen /\ report.code = "rejected"
        /\ report.complete => \A a \in Live : <<a, desired[a].gen, "rejected">> \in told

(* Captures, names, publication and reports are at rest. *)
Rested ==
    /\ \A a \in Live : job[a].state \in {"complete", "failed"}
    /\ FingerprintCurrent /\ scope.sources = sources
    /\ scope.pending => scope.tries >= DirectoryAttempts
    /\ ~scope.pending /\ (\A a \in Live : job[a].state = "complete") =>
          \A r \in Ranges : batch[r] # None => batch[r].status \in {"complete", "failed"}
    /\ report # None /\ (scope.pending => report.code = "directory_timeout") => report.complete

(* While the policy permits synchronisation, the sources' captures end,    *)
(* the directory pass and the publication finish or give up, and what was  *)
(* given up is reported, however rebuilds, renames, restarts and failed    *)
(* calls were interleaved.                                                 *)
HistoryEnds == <>[](enabled /\ Live # {} => Rested)
=============================================================================
