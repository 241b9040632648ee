--------------------------- MODULE HistoryProofs ----------------------------
(***************************************************************************)
(* What the capture, the directory pass and the publication of old         *)
(* messages never get wrong, for any accounts, ranges and threads and any  *)
(* number of changes, renames, crashes and failed calls.                   *)
(***************************************************************************)
EXTENDS History, NumberLemmas, FiniteSetTheorems, TLAPS

-----------------------------------------------------------------------------
(* Rows *)

LEMMA Finite ==
    /\ Cardinality(Accounts) \in Nat /\ Accounts \subseteq Nat \ {0}
    /\ Cardinality(Ranges) \in Nat /\ Ranges = 1 .. Cardinality(Ranges)
    /\ Newest \in Ranges /\ 1 \in Ranges /\ \A r \in Ranges : r <= Newest
<1>1. Cardinality(Accounts) \in Nat /\ Cardinality(Ranges) \in Nat
  BY HistoryAssumption, FS_CardinalityType
<1>2. Accounts = 1 .. Cardinality(Accounts) /\ Ranges = 1 .. Cardinality(Ranges) /\ Ranges # {}
  BY HistoryAssumption
<1>3. Ranges \in SUBSET (0 .. Cardinality(Ranges))
  BY <1>1, <1>2
<1>4. Newest \in Ranges /\ \A r \in Ranges : r <= Newest
  BY <1>1, <1>2, <1>3, Greatest DEF Newest
<1>5. 1 \in Ranges
  BY <1>1, <1>2
<1>6. Accounts \subseteq Nat \ {0}
  BY <1>1, <1>2
<1>. QED
  BY <1>1, <1>2, <1>4, <1>5, <1>6

LEMMA FiniteScope ==
    ASSUME NEW s \in Scope
    PROVE  /\ ScopeAccounts(s) \subseteq Accounts
           /\ Cardinality(ScopeAccounts(s)) \in Nat
<1>1. ScopeAccounts(s) \subseteq Accounts
  BY DEF ScopeAccounts, Scope, Source
<1>. QED
  BY <1>1, HistoryAssumption, FS_Subset, FS_CardinalityType

Open == {"pending", "running", "failed"}

LEMMA WishRows ==
    ASSUME NEW d \in Desired, NEW n \in Nat
    PROVE  /\ [d EXCEPT !.agen = n] \in Desired
           /\ \A depth \in Depths : [d EXCEPT !.agen = n, !.depth = depth] \in Desired
           /\ \A b \in BOOLEAN : [d EXCEPT !.agen = n, !.selected = b] \in Desired
           /\ [d EXCEPT !.gen = n, !.cursor = 0] \in Desired
           /\ [d EXCEPT !.cursor = n] \in Desired
BY DEF Desired

LEMMA JobRows ==
    ASSUME NEW j \in Job, NEW d \in Desired
    PROVE  /\ Cancelled(j) \in Job /\ Cancelled(j).state \in {"absent", "cancelled"}
           /\ Upserted(j, d) \in Job
           /\ d.selected => Upserted(j, d).depth = d.depth
                            /\ Upserted(j, d).state \notin {"absent", "cancelled"}
           /\ d.selected /\ j.state \in {"absent", "cancelled"} =>
                 Upserted(j, d).anchor = 0
                 /\ Upserted(j, d).state = IF d.depth = "new" THEN "complete" ELSE "pending"
           /\ d.selected /\ j.state \notin {"absent", "cancelled"} /\ j.depth = d.depth =>
                 Upserted(j, d) = j
<1> USE DEF Job, JobStates, Desired
<1>1. Cancelled(j) \in Job /\ Cancelled(j).state \in {"absent", "cancelled"}
  BY DEF Cancelled
<1>2. CASE ~d.selected
  BY <1>1, <1>2 DEF Upserted
<1>3. CASE d.selected
  BY <1>1, <1>3 DEF Upserted
<1>. QED
  BY <1>2, <1>3

LEMMA UnpublishedRow ==
    ASSUME NEW b \in Batch
    PROVE  LET u == Unpublished(b)
           IN  /\ u \in Batch /\ u # None
               /\ u.access = b.access /\ u.names = b.names /\ u.sources = b.sources
               /\ u.status = "pending" /\ u.receipt = None /\ ~u.leased
<1> DEFINE u == [b EXCEPT !.status = "pending", !.receipt = None, !.mapped = 0,
                          !.leased = FALSE, !.live = FALSE]
<1>1. b # None
  BY NullAssumption
<1>2. Unpublished(b) = u
  BY <1>1 DEF Unpublished
<1>3. u \in Batch
  BY DEF Batch
<1>4. u # None
  BY <1>3, NullAssumption
<1>5. /\ u.access = b.access /\ u.names = b.names /\ u.sources = b.sources
      /\ u.status = "pending" /\ u.receipt = None /\ ~u.leased
  BY DEF Batch
<1>. QED
  BY <1>2, <1>3, <1>4, <1>5

LEMMA BodyRow ==
    ASSUME NEW b \in Batch \cup {None}
    PROVE  /\ Body(b) \in Stored \cup {None}
           /\ b # None => Body(b) # None /\ Body(b) \in Stored
                          /\ Body(b).access = b.access /\ Body(b).names = b.names
<1>1. CASE b = None
  BY <1>1 DEF Body
<1>2. CASE b # None
  <2>1. b \in Batch /\ Body(b) = [access |-> b.access, names |-> b.names]
    BY <1>2 DEF Body
  <2>2. Body(b) \in Stored
    BY <2>1 DEF Batch, Stored
  <2>. QED
    BY <2>1, <2>2, NullAssumption
<1>. QED
  BY <1>1, <1>2

LEMMA Reports ==
    ASSUME NEW r \in Report \cup {None}, NEW gen \in Nat, NEW code \in Codes,
           NEW restart \in BOOLEAN
    PROVE  record(r, gen, code, restart) \in Report
<1>1. NewReport(gen, code) \in Report
  BY DEF NewReport, Report
<1>. QED
  BY <1>1 DEF record

(* A report that is carried along is the same, or a new one of a time-out.   *)
Carried(r, k, gen) == k = r \/ (k \in Report /\ k.gen = gen /\ k.code # "rejected")

LEMMA CarriedReports ==
    ASSUME TypeOK, NEW r \in Report \cup {None}, NEW s \in Scope
    PROVE  /\ carry_capture(r, s) \in Report \cup {None}
           /\ Carried(r, carry_capture(r, s), s.gen)
           /\ carry_directory(r, s) \in Report \cup {None}
           /\ Carried(r, carry_directory(r, s), s.gen)
<1>0. s.gen \in Nat
  BY DEF Scope
<1>1. NewReport(s.gen, "capture_timeout") \in Report
      /\ NewReport(s.gen, "capture_timeout").gen = s.gen
      /\ NewReport(s.gen, "capture_timeout").code # "rejected"
  BY <1>0 DEF NewReport, Report, Codes
<1>2. r \in Report => /\ [r EXCEPT !.gen = s.gen] \in Report
                      /\ [r EXCEPT !.gen = s.gen].gen = s.gen
                      /\ [r EXCEPT !.gen = s.gen].code = r.code
  BY <1>0 DEF Report
<1>3. carry_capture(r, s) \in Report \cup {None} /\ Carried(r, carry_capture(r, s), s.gen)
  BY <1>1, <1>2 DEF carry_capture, Carried
<1>4. carry_directory(r, s) \in Report \cup {None} /\ Carried(r, carry_directory(r, s), s.gen)
  BY <1>2, NullAssumption DEF carry_directory, Carried
<1>. QED
  BY <1>3, <1>4

LEMMA SpendType ==
    ASSUME budget \in Budget, NEW kind \in {"changes", "renames", "crashes", "faults"}, Spend(kind)
    PROVE  budget' \in Budget
<1>1. CASE kind = "changes" BY <1>1 DEF Spend, Budget
<1>2. CASE kind = "renames" BY <1>2 DEF Spend, Budget
<1>3. CASE kind = "crashes" BY <1>3 DEF Spend, Budget
<1>4. CASE kind = "faults" BY <1>4 DEF Spend, Budget
<1>. QED
  BY <1>1, <1>2, <1>3, <1>4

-----------------------------------------------------------------------------
(* Types *)

LEMMA InitType == Init => TypeOK
<1> SUFFICES ASSUME Init PROVE TypeOK
  OBVIOUS
<1>1. PICK s \in Scenarios :
         /\ desired = [a \in Accounts |->
                [gen |-> 1, agen |-> 1, selected |-> s.wish[a].selected,
                 depth |-> s.wish[a].depth, cursor |-> s.wish[a].cursor]]
         /\ budget = s.budget
  BY DEF Init
<1>2. s.wish \in [Accounts -> [selected: BOOLEAN, depth: Depths, cursor: {0, 1}]]
      /\ s.budget \in Budget
  BY HistoryAssumption
<1>3. desired \in [Accounts -> Desired] /\ budget \in Budget
  BY <1>1, <1>2 DEF Desired
<1>4. job \in [Accounts -> Job]
  BY DEF Init, NoJob, Job, JobStates, Depths
<1>5. pub \in Pub
  BY DEF Init, IdlePub, Pub, Answers
<1>6. config \in [gen: Nat, fingerprint: Fingerprint]
  BY DEF Init, Fingerprint
<1>. QED
  BY <1>3, <1>4, <1>5, <1>6 DEF Init, TypeOK

(* The control plane: what is wished changes forwards, and a job is opened   *)
(* again or cancelled.                                                       *)
Desiring ==
    \/ \E kind \in Changes, a \in Accounts : Change(kind, a)
    \/ \E a \in Accounts : Register(a)

Later(d, e) ==
    /\ d.gen <= e.gen /\ d.agen <= e.agen
    /\ d.agen = e.agen => d.depth = e.depth

Moved(j, k) ==
    /\ k.anchor = j.anchor /\ k.depth = j.depth
    /\ k.state = j.state \/ (j.state \in Open /\ k.state \in Open)

Reopened(j, k) == Moved(j, k) /\ (k.state = "running" => j.state = "running" /\ k.lease = j.lease)

Dropped(j, k) ==
    k.state = "cancelled" /\ k.anchor = 0 /\ k.depth = j.depth

LEMMA DesiringStep ==
    ASSUME TypeOK, Desiring
    PROVE  /\ TypeOK'
           /\ UNCHANGED <<scopeVars, batch, report, worker, pass, pub, people, import,
                          told, noticed>>
           /\ \A a \in Accounts : Later(desired[a], desired'[a])
           /\ \A a \in Accounts :
                 \/ Reopened(job[a], job'[a])
                 \/ Dropped(job[a], job'[a]) /\ desired[a].gen < desired'[a].gen
<1>0. /\ desired \in [Accounts -> Desired] /\ enabled \in BOOLEAN /\ job \in [Accounts -> Job]
      /\ cache \in [Accounts -> Nat \cup {None}] /\ budget \in Budget
  BY DEF TypeOK
<1> DEFINE Frame == UNCHANGED <<scopeVars, batch, report, worker, pass, pub, people, import,
                                told, noticed>>
           Wished == \A a \in Accounts : Later(desired[a], desired'[a])
           Jobs == \A a \in Accounts :
                     \/ Reopened(job[a], job'[a])
                     \/ Dropped(job[a], job'[a]) /\ desired[a].gen < desired'[a].gen
           Types == /\ desired' \in [Accounts -> Desired] /\ enabled' \in BOOLEAN
                    /\ job' \in [Accounts -> Job] /\ cache' \in [Accounts -> Nat \cup {None}]
<1>1. \A j \in Job : Reopened(j, j)
  BY DEF Reopened, Moved
<1>2. \A d \in Desired : Later(d, d)
  BY DEF Later, Desired
<1>3. ASSUME NEW a \in Accounts, NEW d \in Desired, SetDesired(a, d), Later(desired[a], d)
      PROVE  desired' \in [Accounts -> Desired] /\ Wished
  BY <1>0, <1>2, <1>3 DEF SetDesired
<1>4. UNCHANGED job => Jobs
  BY <1>0, <1>1
<1>5. ASSUME NEW a \in Accounts, Touch(a) PROVE Types /\ Wished /\ Jobs
  <2>1. desired[a] \in Desired
    BY <1>0
  <2>2. [desired[a] EXCEPT !.agen = @ + 1] \in Desired
        /\ Later(desired[a], [desired[a] EXCEPT !.agen = @ + 1])
    BY <2>1 DEF Desired, Later
  <2>. QED
    BY <1>0, <1>3, <1>4, <1>5, <2>2 DEF Touch
<1>6. ASSUME NEW a \in Accounts, ChangeDepth(a) PROVE Types /\ Wished /\ Jobs
  <2>1. desired[a] \in Desired
    BY <1>0
  <2>2. PICK d \in Depths : SetDesired(a, [desired[a] EXCEPT !.agen = @ + 1, !.depth = d])
    BY <1>6 DEF ChangeDepth
  <2>3. Later(desired[a], [desired[a] EXCEPT !.agen = @ + 1, !.depth = d])
    BY <2>1 DEF Desired, Later
  <2>4. desired[a].agen + 1 \in Nat
    BY <2>1 DEF Desired
  <2>5. [desired[a] EXCEPT !.agen = @ + 1, !.depth = d] \in Desired
    BY <2>1, <2>4, WishRows
  <2>. QED
    BY <1>0, <1>3, <1>4, <1>6, <2>2, <2>3, <2>5 DEF ChangeDepth
<1>7. ASSUME NEW a \in Accounts, ChangeSelection(a) PROVE Types /\ Wished /\ Jobs
  <2>1. desired[a] \in Desired
    BY <1>0
  <2>2. Later(desired[a], [desired[a] EXCEPT !.agen = @ + 1, !.selected = ~@])
    BY <2>1 DEF Desired, Later
  <2>3. desired[a].agen + 1 \in Nat /\ (~desired[a].selected) \in BOOLEAN
    BY <2>1, SMTT(20) DEF Desired
  <2>4. [desired[a] EXCEPT !.agen = @ + 1, !.selected = ~@] \in Desired
    BY <2>1, <2>3, WishRows
  <2>. QED
    BY <1>0, <1>3, <1>4, <1>7, <2>2, <2>4 DEF ChangeSelection
<1>8. ASSUME NEW a \in Accounts, NEW d \in Desired,
             d = [desired[a] EXCEPT !.gen = @ + 1, !.cursor = 0]
      PROVE  Later(desired[a], d) /\ desired[a].gen < d.gen
  <2>1. desired[a] \in Desired
    BY <1>0, SMTT(20)
  <2>. QED
    BY <1>8, <2>1 DEF Desired, Later
<1>9. ASSUME NEW a \in Accounts
      PROVE  [desired[a] EXCEPT !.gen = @ + 1, !.cursor = 0] \in Desired
  <2>1. desired[a] \in Desired /\ desired[a].gen + 1 \in Nat
    BY <1>0 DEF Desired
  <2>. QED
    BY <2>1, WishRows
<1>10. ASSUME NEW a \in Accounts, Reconnect(a) PROVE Types /\ Wished /\ Jobs
  <2> DEFINE k == [job[a] EXCEPT !.state = "pending", !.lease = None, !.tries = 0]
  <2>1. desired' \in [Accounts -> Desired] /\ Wished
    BY <1>3, <1>8, <1>9, <1>10 DEF Reconnect
  <2>2. cache' \in [Accounts -> Nat \cup {None}]
    BY <1>0, <1>10 DEF Reconnect
  <2>3. job[a].state = "failed" => k \in Job /\ Reopened(job[a], k)
    BY <1>0 DEF Job, JobStates, Reopened, Moved, Open
  <2>4. UNCHANGED job \/ (job[a].state = "failed" /\ job' = [job EXCEPT ![a] = k])
    BY <1>10 DEF Reconnect
  <2> HIDE DEF k
  <2>5. job' \in [Accounts -> Job] /\ Jobs
    BY <1>0, <1>1, <1>4, <2>3, <2>4
  <2>. QED
    BY <1>0, <1>10, <2>1, <2>2, <2>5 DEF Reconnect
<1>11. ASSUME NEW a \in Accounts, ResetProjection(a) PROVE Types /\ Wished /\ Jobs
  <2> DEFINE d == [desired[a] EXCEPT !.gen = @ + 1, !.cursor = 0]
             k == [job[a] EXCEPT !.state = "cancelled", !.anchor = 0, !.lease = None,
                                 !.live = FALSE, !.tries = 0]
  <2>1. desired' \in [Accounts -> Desired] /\ Wished
    BY <1>3, <1>8, <1>9, <1>11 DEF ResetProjection
  <2>2. cache' \in [Accounts -> Nat \cup {None}]
    BY <1>0, <1>11 DEF ResetProjection
  <2>3. desired'[a] = d
    BY <1>0, <1>11 DEF ResetProjection, SetDesired
  <2>4. desired[a].gen < desired'[a].gen
    BY <1>8, <1>9, <2>3
  <2>5. k \in Job /\ Dropped(job[a], k)
    BY <1>0 DEF Job, JobStates, Dropped
  <2>6. job' = [job EXCEPT ![a] = IF job[a].state = "absent" THEN job[a] ELSE k]
    BY <1>0, <1>11 DEF ResetProjection
  <2> HIDE DEF k, d
  <2>7. job' \in [Accounts -> Job] /\ Jobs
    BY <1>0, <1>1, <2>4, <2>5, <2>6
  <2>. QED
    BY <1>0, <1>11, <2>1, <2>2, <2>7 DEF ResetProjection
<1>12. Pause => Types /\ Wished /\ Jobs
  BY <1>0, <1>2, <1>4 DEF Pause
<1>13. ASSUME NEW kind \in Changes, NEW a \in Accounts, Change(kind, a)
       PROVE  Types /\ Wished /\ Jobs /\ Frame /\ budget' \in Budget
  <2>1. Types /\ Wished /\ Jobs
    <3> HIDE DEF Types, Wished, Jobs
    <3>. QED
      BY <1>5, <1>6, <1>7, <1>10, <1>11, <1>12, <1>13 DEF Change
  <2>2. budget' \in Budget
    BY <1>0, <1>13, SpendType DEF Change
  <2>. QED
    BY <1>13, <2>1, <2>2 DEF Change
<1>14. ASSUME NEW a \in Accounts, Register(a)
       PROVE  Types /\ Wished /\ Jobs /\ Frame /\ budget' \in Budget
  <2>1. desired[a] \in Desired
    BY <1>0
  <2>2. [desired[a] EXCEPT !.cursor = desired[a].gen] \in Desired
        /\ Later(desired[a], [desired[a] EXCEPT !.cursor = desired[a].gen])
    BY <2>1 DEF Desired, Later
  <2>3. desired' \in [Accounts -> Desired] /\ Wished
    BY <1>3, <1>14, <2>2 DEF Register
  <2>. QED
    BY <1>0, <1>4, <1>14, <2>3 DEF Register, outsideVars
<1>15. Types /\ Wished /\ Jobs /\ Frame /\ budget' \in Budget
  <2> HIDE DEF Types, Wished, Jobs, Frame
  <2>. QED
    BY <1>13, <1>14 DEF Desiring
<1>16. TypeOK'
  BY <1>15 DEF TypeOK, scopeVars
<1>17. Frame /\ Wished /\ Jobs
  BY <1>15
<1>. QED
  BY <1>16, <1>17

(* The names have to be read again. *)
Invalidating == RecordRename \/ \E a \in Accounts : ReplaceQueue(a)

LEMMA InvalidatingStep ==
    ASSUME TypeOK, Invalidating
    PROVE  /\ TypeOK'
           /\ UNCHANGED <<desiredVars, job, batch, worker, pass, pub, cache, people, import, told>>
           /\ config'.gen = config.gen + 1 /\ noticed' = people
           /\ scope = None => scope' = None /\ report' = report
           /\ scope # None =>
                 /\ scope' \in Scope
                 /\ scope'.gen = config'.gen /\ scope'.sources = scope.sources /\ scope'.pending
                 /\ scope'.account = 0 /\ scope'.cursor = 0
                 /\ report' = None \/ Carried(report, report', scope'.gen)
<1>1. /\ invalidate_directory
      /\ UNCHANGED <<desiredVars, job, batch, worker, pass, pub, cache, people, import, told>>
      /\ UNCHANGED budget \/ Spend("changes")
  BY DEF Invalidating, RecordRename, ReplaceQueue
<1>2. budget' \in Budget
  BY <1>1, SpendType DEF TypeOK
<1> DEFINE gen == config.gen + 1
           s == [scope EXCEPT !.gen = gen, !.rev = gen, !.pending = TRUE, !.account = 0,
                              !.cursor = 0, !.users = 0, !.tries = 0]
           kept == IF report # None /\ report.code = "directory_timeout" THEN None ELSE report
<1>3. /\ config' = [config EXCEPT !.gen = gen]
      /\ revision' = gen /\ noticed' = people
      /\ IF scope = None THEN UNCHANGED <<scope, report>>
         ELSE scope' = s /\ report' = carry_capture(kept, s)
  BY <1>1 DEF invalidate_directory
<1>4. config' \in [gen: Nat, fingerprint: Fingerprint] /\ config'.gen = gen /\ gen \in Nat
  BY <1>3 DEF TypeOK
<1>5. scope # None =>
        /\ s \in Scope /\ s.gen = gen /\ s.sources = scope.sources /\ s.pending
        /\ s.account = 0 /\ s.cursor = 0
  BY <1>4 DEF TypeOK, Scope
<1>6. kept \in Report \cup {None} /\ (kept = None \/ kept = report)
  BY DEF TypeOK
<1>7. people \in Nat /\ noticed' \in 0 .. people'
  BY <1>1, <1>3 DEF TypeOK
<1> HIDE DEF gen, s, kept
<1>8. scope # None => /\ report' \in Report \cup {None}
                      /\ report' = None \/ Carried(report, report', s.gen)
  <2>1. CASE scope # None
    <3>1. report' \in Report \cup {None} /\ Carried(kept, report', s.gen)
      BY <1>3, <1>5, <1>6, <2>1, CarriedReports
    <3>. QED
      BY <1>6, <3>1 DEF Carried
  <2>. QED
    BY <2>1
<1>9. scope' \in Scope \cup {None} /\ report' \in Report \cup {None}
  BY <1>3, <1>5, <1>8 DEF TypeOK
<1>10. TypeOK'
  BY <1>1, <1>2, <1>3, <1>4, <1>7, <1>9 DEF TypeOK, desiredVars
<1>. QED
  BY <1>1, <1>3, <1>4, <1>5, <1>8, <1>10 DEF gen

LEMMA RenameStep ==
    ASSUME TypeOK, Rename
    PROVE  /\ TypeOK'
           /\ UNCHANGED <<desiredVars, scopeVars, job, batch, report, worker, pass, pub, cache,
                          import, told, noticed>>
<1>1. budget' \in Budget /\ people' \in Nat /\ noticed' \in 0 .. people'
  BY SpendType DEF TypeOK, Rename
<1>. QED
  BY <1>1 DEF TypeOK, Rename, desiredVars, scopeVars

-----------------------------------------------------------------------------
(* What the scope says of its accounts *)

LEMMA SourceRows ==
    ASSUME TypeOK
    PROVE  /\ sources \in SUBSET Source /\ Live \subseteq Accounts
           /\ \A s, t \in sources : s.account = t.account => s = t
           /\ \A s \in sources :
                 /\ s.account \in Live /\ desired[s.account].selected
                 /\ s.gen = desired[s.account].gen /\ s.agen = desired[s.account].agen
                 /\ s.depth = desired[s.account].depth
           /\ \A a \in Live : \E s \in sources : s.account = a
<1>1. desired \in [Accounts -> Desired] /\ Live \subseteq Accounts
  BY DEF TypeOK, Live
<1> DEFINE Row(a) == [account |-> a, gen |-> desired[a].gen, agen |-> desired[a].agen,
                      depth |-> desired[a].depth]
<1>2. \A a \in Accounts : Row(a) \in Source
  BY <1>1 DEF Desired, Source
<1>3. \A a : /\ Row(a).account = a /\ Row(a).gen = desired[a].gen
             /\ Row(a).agen = desired[a].agen /\ Row(a).depth = desired[a].depth
  OBVIOUS
<1>4. sources = {Row(a) : a \in Live}
  BY DEF sources
<1> HIDE DEF Row
<1>5. \A a \in Live : desired[a].selected
  BY DEF Live
<1>. QED
  BY <1>1, <1>2, <1>3, <1>4, <1>5

LEMMA CurrentScope ==
    ASSUME TypeOK, FingerprintCurrent
    PROVE  /\ scope # None /\ scope \in Scope
           /\ ScopeAccounts(scope) = Live
           /\ \A s \in scope.sources :
                 /\ s.account \in Live
                 /\ s.gen = desired[s.account].gen /\ s.depth = desired[s.account].depth
<1>1. scope # None /\ scope \in Scope /\ fingerprint(scope.sources) = fingerprint(sources)
  BY DEF FingerprintCurrent, TypeOK
<1> DEFINE Part(s) == [account |-> s.account, gen |-> s.gen, depth |-> s.depth]
<1>2. \A s, t : Part(s) = Part(t) => s.account = t.account /\ s.gen = t.gen /\ s.depth = t.depth
  OBVIOUS
<1>3. \A rows : fingerprint(rows) = {Part(s) : s \in rows}
  BY DEF fingerprint
<1>4. \A t \in sources : /\ t.account \in Live
                         /\ t.gen = desired[t.account].gen
                         /\ t.depth = desired[t.account].depth
  BY SourceRows
<1>5. \A a \in Live : \E t \in sources : t.account = a
  BY SourceRows
<1> HIDE DEF Part
<1>6. {Part(s) : s \in scope.sources} = {Part(t) : t \in sources}
  BY <1>1, <1>3
<1>7. \A s \in scope.sources : \E t \in sources : Part(s) = Part(t)
  BY <1>6
<1>8. \A t \in sources : \E s \in scope.sources : Part(s) = Part(t)
  BY <1>6
<1>9. \A s \in scope.sources :
         /\ s.account \in Live
         /\ s.gen = desired[s.account].gen /\ s.depth = desired[s.account].depth
  BY <1>2, <1>4, <1>7
<1>10. \A a \in Live : \E s \in scope.sources : s.account = a
  BY <1>2, <1>5, <1>8
<1>11. ScopeAccounts(scope) = Live
  BY <1>9, <1>10 DEF ScopeAccounts
<1>. QED
  BY <1>1, <1>9, <1>11

LEMMA FreshScopeRow ==
    ASSUME TypeOK, NEW gen \in Nat
    PROVE  LET s == FreshScope(gen)
           IN  /\ s \in Scope
               /\ s.gen = gen /\ s.sources = sources /\ s.account = 0 /\ s.cursor = 0
<1>1. sources \in SUBSET Source
  BY SourceRows
<1> DEFINE rev == IF revision # 0 THEN revision ELSE IF scope # None THEN scope.rev ELSE 0
           ack == IF scope # None THEN scope.ack ELSE 0
           pending == rev # ack \/ (scope # None /\ scope.pending)
<1>2. rev \in Nat /\ ack \in Nat /\ pending \in BOOLEAN
  BY DEF TypeOK, Scope
<1>3. FreshScope(gen) = [gen |-> gen, sources |-> sources, pending |-> pending, rev |-> rev,
                         ack |-> ack, account |-> 0, cursor |-> 0, users |-> 0, tries |-> 0]
  BY DEF FreshScope
<1> HIDE DEF rev, ack, pending
<1>. QED
  BY <1>1, <1>2, <1>3 DEF Scope

-----------------------------------------------------------------------------
(* The sources are reconciled. *)

(* The configurations between two reconciliations. *)
Restamped ==
    /\ FingerprintCurrent
    /\ scope' \in Scope /\ scope'.sources = sources /\ scope'.gen = config.gen + 1
    /\ scope'.pending = scope.pending /\ scope'.account = scope.account
    /\ scope'.cursor = scope.cursor /\ scope'.users = scope.users
    /\ config'.gen = config.gen + 1
    /\ \A r \in Ranges : IF batch[r] = None THEN batch'[r] = None
                         ELSE /\ batch'[r] # None
                              /\ batch'[r].access = batch[r].access
                              /\ batch'[r].names = batch[r].names
                              /\ batch'[r].status = "pending" /\ batch'[r].receipt = None
                              /\ ~batch'[r].leased
    /\ \E k \in Report \cup {None} :
          Carried(report, k, scope'.gen) /\ Carried(k, report', scope'.gen)
    /\ job' = [a \in Accounts |-> Upserted(job[a], desired[a])]

Rebuilt ==
    /\ scope' \in Scope /\ scope'.sources = sources /\ scope'.gen = config.gen + 1
    /\ scope'.account = 0 /\ scope'.cursor = 0
    /\ config'.gen = config.gen + 1
    /\ \A r \in Ranges : batch'[r] = None
    /\ report' = None
    /\ job' = [a \in Accounts |->
                  Upserted(IF a \in Affected THEN Cancelled(job[a]) ELSE job[a], desired[a])]

Preserved ==
    /\ scope = None
    /\ scope' \in Scope /\ scope'.sources = sources /\ scope'.gen = config.gen
    /\ scope'.account = 0 /\ scope'.cursor = 0
    /\ config'.gen = config.gen
    /\ UNCHANGED <<report, batch>>
    /\ job' = [a \in Accounts |-> Upserted(job[a], desired[a])]

Settled ==
    /\ scope = None \/ FingerprintCurrent
    /\ UNCHANGED <<scope, report, batch>>
    /\ config'.gen = config.gen
    /\ job' = [a \in Accounts |-> Upserted(job[a], desired[a])]

LEMMA ReconcileStep ==
    ASSUME TypeOK, reconcile_backfill_jobs
    PROVE  /\ TypeOK'
           /\ UNCHANGED <<desiredVars, revision, worker, pass, pub, cache, people,
                          import, told, noticed, budget>>
           /\ Restamped \/ Rebuilt \/ Preserved \/ Settled
<1> DEFINE first    == scope = None /\ sources = {}
           preserve == scope = None /\ config.fingerprint = legacyFingerprint
           rebuild  == ~first /\ ~FingerprintCurrent /\ ~preserve
           restamp  == FingerprintCurrent /\ scope.sources # sources
           kept     == IF rebuild THEN [a \in Accounts |-> IF a \in Affected THEN Cancelled(job[a])
                                                                             ELSE job[a]]
                                  ELSE job
<1>0. UNCHANGED <<desiredVars, revision, worker, pass, pub, cache, people,
                  import, told, noticed, budget>>
  BY DEF reconcile_backfill_jobs
<1>1. config' = [gen |-> IF rebuild \/ restamp THEN config.gen + 1 ELSE config.gen,
                 fingerprint |-> legacyFingerprint]
  BY DEF reconcile_backfill_jobs
<1>2. \/ restamp /\ Restamp
      \/ /\ rebuild
         /\ scope' = FreshScope(config.gen + 1)
         /\ report' = None
         /\ batch' = [r \in Ranges |-> None]
      \/ /\ preserve /\ ~first
         /\ scope' = FreshScope(config.gen)
         /\ UNCHANGED <<report, batch>>
      \/ ~rebuild /\ ~restamp /\ (preserve => first) /\ UNCHANGED <<scope, report, batch>>
  BY DEF reconcile_backfill_jobs
<1>3. job' = [a \in Accounts |-> Upserted(kept[a], desired[a])]
  BY DEF reconcile_backfill_jobs
<1>4. kept \in [Accounts -> Job]
  <2>1. \A a \in Accounts : job[a] \in Job /\ desired[a] \in Desired
    BY DEF TypeOK
  <2>2. \A a \in Accounts : Cancelled(job[a]) \in Job
    BY <2>1, JobRows
  <2>. QED
    BY <2>1, <2>2 DEF TypeOK
<1>5. job' \in [Accounts -> Job]
  <2> HIDE DEF kept
  <2>1. \A a \in Accounts : kept[a] \in Job /\ desired[a] \in Desired
    BY <1>4 DEF TypeOK
  <2>2. \A a \in Accounts : Upserted(kept[a], desired[a]) \in Job
    BY <2>1, JobRows
  <2>. QED
    BY <1>3, <2>2
<1>6. legacyFingerprint \in Fingerprint
  <2>1. \A a \in Accounts : desired[a].gen \in Nat /\ desired[a].selected \in BOOLEAN
                            /\ desired[a].depth \in Depths
    BY DEF TypeOK, Desired
  <2>. QED
    BY <2>1 DEF legacyFingerprint, Fingerprint
<1>7. /\ config.gen \in Nat
      /\ config' \in [gen: Nat, fingerprint: Fingerprint]
      /\ config'.gen = IF rebuild \/ restamp THEN config.gen + 1 ELSE config.gen
  <2>1. config.gen \in Nat
    BY DEF TypeOK
  <2> HIDE DEF rebuild, restamp
  <2>. QED
    BY <1>1, <1>6, <2>1
<1>8. /\ FingerprintCurrent => scope # None /\ scope \in Scope
      /\ restamp => ~rebuild
      /\ ~rebuild => scope = None \/ FingerprintCurrent
      /\ preserve => scope = None /\ ~rebuild /\ ~restamp
  BY CurrentScope DEF FingerprintCurrent
<1> HIDE DEF first, preserve, rebuild, restamp
<1>9. ~rebuild => job' = [a \in Accounts |-> Upserted(job[a], desired[a])]
  BY <1>3
<1> DEFINE Types == /\ scope' \in Scope \cup {None} /\ report' \in Report \cup {None}
                    /\ batch' \in [Ranges -> Batch \cup {None}]
<1>10. ASSUME restamp, Restamp PROVE Types /\ (Restamped \/ Rebuilt \/ Preserved \/ Settled)
  <2> DEFINE s == [scope EXCEPT !.sources = sources, !.gen = config.gen + 1]
             k == carry_directory(report, s)
  <2>1. /\ scope' = s
        /\ report' = carry_capture(k, s)
        /\ batch' = [r \in Ranges |->
                       IF batch[r] = None THEN None
                       ELSE [Unpublished(batch[r]) EXCEPT !.sources = None]]
    BY <1>10 DEF Restamp
  <2>2. scope \in Scope /\ sources \in SUBSET Source /\ config.gen + 1 \in Nat /\ FingerprintCurrent
    BY <1>7, <1>8, <1>10, SourceRows DEF restamp
  <2>3. /\ s \in Scope /\ s.sources = sources /\ s.gen = config.gen + 1
        /\ s.pending = scope.pending /\ s.account = scope.account
        /\ s.cursor = scope.cursor /\ s.users = scope.users
    BY <2>2 DEF Scope
  <2> HIDE DEF s
  <2>4. report \in Report \cup {None}
    BY DEF TypeOK
  <2>5. k \in Report \cup {None} /\ Carried(report, k, s.gen)
    BY <2>3, <2>4, CarriedReports
  <2> HIDE DEF k
  <2>6. report' \in Report \cup {None} /\ Carried(k, report', s.gen)
    BY <2>1, <2>3, <2>5, CarriedReports
  <2>7. ASSUME NEW b \in Batch
        PROVE  LET u == [Unpublished(b) EXCEPT !.sources = None]
               IN  /\ u \in Batch /\ u # None /\ u.access = b.access /\ u.names = b.names
                   /\ u.status = "pending" /\ u.receipt = None /\ ~u.leased
    <3> DEFINE v == Unpublished(b)
    <3>1. /\ v \in Batch /\ v.access = b.access /\ v.names = b.names
          /\ v.status = "pending" /\ v.receipt = None /\ ~v.leased
      BY UnpublishedRow
    <3> HIDE DEF v
    <3>2. [v EXCEPT !.sources = None] \in Batch
      BY <3>1 DEF Batch
    <3>3. LET u == [v EXCEPT !.sources = None]
          IN  /\ u.access = b.access /\ u.names = b.names
              /\ u.status = "pending" /\ u.receipt = None /\ ~u.leased
      BY <3>1 DEF Batch
    <3>. QED
      BY <3>2, <3>3, NullAssumption DEF v
  <2>8. \A r \in Ranges : batch[r] # None => batch[r] \in Batch
    BY DEF TypeOK
  <2> DEFINE cleared(b) == [Unpublished(b) EXCEPT !.sources = None]
  <2>9. \A b \in Batch : /\ cleared(b) \in Batch /\ cleared(b) # None
                         /\ cleared(b).access = b.access
                         /\ cleared(b).names = b.names
                         /\ cleared(b).status = "pending" /\ cleared(b).receipt = None
                         /\ ~cleared(b).leased
    BY <2>7
  <2>10. \A r \in Ranges : batch'[r] = IF batch[r] = None THEN None ELSE cleared(batch[r])
    BY <2>1
  <2>11. batch' = [r \in Ranges |-> IF batch[r] = None THEN None ELSE cleared(batch[r])]
    BY <2>1
  <2> HIDE DEF cleared
  <2>12. batch' \in [Ranges -> Batch \cup {None}]
    BY <2>8, <2>9, <2>11
  <2>13. \A r \in Ranges : IF batch[r] = None THEN batch'[r] = None
                         ELSE /\ batch'[r] # None
                              /\ batch'[r].access = batch[r].access
                              /\ batch'[r].names = batch[r].names
                              /\ batch'[r].status = "pending" /\ batch'[r].receipt = None
                              /\ ~batch'[r].leased
    BY <2>8, <2>9, <2>10
  <2>14. config'.gen = config.gen + 1 /\ job' = [a \in Accounts |-> Upserted(job[a], desired[a])]
    BY <1>7, <1>8, <1>9, <1>10
  <2>15. Restamped
    BY <2>1, <2>2, <2>3, <2>5, <2>6, <2>13, <2>14 DEF Restamped
  <2>. QED
    BY <2>1, <2>3, <2>6, <2>12, <2>15
<1>11. ASSUME rebuild,
              scope' = FreshScope(config.gen + 1),
              report' = None,
              batch' = [r \in Ranges |-> None]
       PROVE  Types /\ (Restamped \/ Rebuilt \/ Preserved \/ Settled)
  <2>1. /\ scope' \in Scope /\ scope'.gen = config.gen + 1 /\ scope'.sources = sources
        /\ scope'.account = 0 /\ scope'.cursor = 0
    BY <1>7, <1>11, FreshScopeRow
  <2>2. job' = [a \in Accounts |->
                  Upserted(IF a \in Affected THEN Cancelled(job[a]) ELSE job[a], desired[a])]
    BY <1>3, <1>11
  <2>3. Rebuilt
    BY <1>7, <1>11, <2>1, <2>2 DEF Rebuilt
  <2>. QED
    BY <1>11, <2>1, <2>3
<1>12. ASSUME preserve, ~first,
              scope' = FreshScope(config.gen),
              UNCHANGED <<report, batch>>
       PROVE  Types /\ (Restamped \/ Rebuilt \/ Preserved \/ Settled)
  <2>1. /\ scope' \in Scope /\ scope'.gen = config.gen /\ scope'.sources = sources
        /\ scope'.account = 0 /\ scope'.cursor = 0
    BY <1>7, <1>12, FreshScopeRow
  <2>2. Preserved
    BY <1>7, <1>8, <1>9, <1>12, <2>1 DEF Preserved
  <2>. QED
    BY <1>12, <2>1, <2>2 DEF TypeOK
<1>13. ASSUME ~rebuild, ~restamp, UNCHANGED <<scope, report, batch>>
       PROVE  Types /\ (Restamped \/ Rebuilt \/ Preserved \/ Settled)
  <2>1. Settled
    BY <1>7, <1>8, <1>9, <1>13 DEF Settled
  <2>. QED
    BY <1>13, <2>1 DEF TypeOK
<1>14. Types /\ (Restamped \/ Rebuilt \/ Preserved \/ Settled)
  BY <1>2, <1>10, <1>11, <1>12, <1>13
<1>15. TypeOK'
  BY <1>0, <1>5, <1>7, <1>14, SMTT(30) DEF TypeOK, desiredVars
<1>. QED
  BY <1>0, <1>14, <1>15

-----------------------------------------------------------------------------
(* Capture *)

(* A claim goes on under the scope it has read. *)
Continued(c, d) ==
    /\ d \in Claim /\ d.pc # "fetched"
    /\ d.account = c.account /\ d.range = c.range /\ d.complete = c.complete
    /\ \/ /\ c.pc # "fetched"
          /\ d.scope = c.scope /\ d.directory = c.directory /\ d.users = c.users
       \/ /\ scope # None /\ d.scope = scope.gen /\ d.directory = scope.account
          /\ Applied(scope) => d.users = scope.users

(* Steps that capture nothing. *)
Quiet ==
    /\ \A a \in Accounts : Reopened(job[a], job'[a])
    /\ \A w \in Workers : \/ worker'[w] \in {None, worker[w]}
                          \/ worker[w] # None /\ Continued(worker[w], worker'[w])
    /\ UNCHANGED batch
    /\ \/ UNCHANGED report
       \/ scope # None /\ report' = record(report, scope.gen, "capture_timeout", TRUE)

Claimed(w, a) ==
    /\ worker[w] = None
    /\ job[a].state \in {"pending", "running"}
    /\ job'[a].state = "running" /\ job'[a].lease = w
    /\ job'[a].anchor = job[a].anchor /\ job'[a].depth = job[a].depth
    /\ \A b \in Accounts \ {a} : job'[b] = job[b]
    /\ \A v \in Workers \ {w} : worker'[v] = worker[v]
    /\ worker'[w] \in Claim /\ worker'[w].pc = "fetched" /\ worker'[w].account = a
    /\ worker'[w].scope = 0
    /\ worker'[w].range = IF job[a].anchor = 0 THEN Newest ELSE job[a].anchor
    /\ worker'[w].complete <=> worker'[w].range = 1 \/ job[a].depth = "recent"
    /\ UNCHANGED <<batch, report>>

Untouched(b) == b.status = "pending" /\ b.receipt = None /\ ~b.leased

Saved(w, c) ==
    /\ c = worker[w] /\ c \in Claim /\ c.pc = "read"
    /\ Holds(w, c)
    /\ scope # None /\ c.scope = scope.gen /\ c.directory = scope.account
    /\ \A v \in Workers \ {w} : worker'[v] = worker[v]
    /\ worker'[w] = None
    /\ \A r \in Ranges \ {c.range} : batch'[r] = batch[r]
    /\ batch'[c.range] # None
    /\ batch'[c.range].names = c.users
    /\ IF batch[c.range] = None
       THEN /\ batch'[c.range].access = {c.account}
            /\ Untouched(batch'[c.range])
       ELSE /\ batch'[c.range].access = batch[c.range].access \cup {c.account}
            /\ batch'[c.range].status = batch[c.range].status
            /\ batch'[c.range].receipt = batch[c.range].receipt
            /\ batch'[c.range].leased = batch[c.range].leased
            /\ batch'[c.range].sources = batch[c.range].sources
    /\ \A a \in Accounts \ {c.account} : job'[a] = job[a]
    /\ job'[c.account].depth = job[c.account].depth
    /\ job'[c.account].anchor = IF c.complete THEN 0 ELSE c.range - 1
    /\ job'[c.account].state = IF c.complete THEN "complete" ELSE "pending"
    /\ UNCHANGED report

LEMMA ReopenedRows ==
    ASSUME NEW j \in Job
    PROVE  /\ Reopened(j, j)
           /\ j.state = "running" =>
                 /\ [j EXCEPT !.state = "pending", !.lease = None] \in Job
                 /\ Reopened(j, [j EXCEPT !.state = "pending", !.lease = None])
           /\ j.state = "running" => \A k \in Transitions(j) : k \in Job /\ Reopened(j, k)
           /\ [j EXCEPT !.live = FALSE] \in Job /\ Reopened(j, [j EXCEPT !.live = FALSE])
           /\ j.state = "running" =>
                 \A tries \in Nat, s \in {"failed", "pending"} :
                    LET k == [j EXCEPT !.state = s, !.lease = None, !.live = FALSE,
                                       !.tries = tries, !.timeout = TRUE]
                    IN  k \in Job /\ Reopened(j, k)
<1> USE DEF Job, JobStates, Reopened, Moved, Open
<1>1. Reopened(j, j)
  OBVIOUS
<1>2. j.state = "running" =>
         /\ [j EXCEPT !.state = "pending", !.lease = None] \in Job
         /\ Reopened(j, [j EXCEPT !.state = "pending", !.lease = None])
  OBVIOUS
<1>3. j.state = "running" =>
         /\ [j EXCEPT !.state = "pending", !.lease = None, !.tries = 0] \in Job
         /\ Reopened(j, [j EXCEPT !.state = "pending", !.lease = None, !.tries = 0])
  OBVIOUS
<1>4. j.state = "running" =>
         /\ [j EXCEPT !.state = "failed", !.lease = None, !.tries = 0] \in Job
         /\ Reopened(j, [j EXCEPT !.state = "failed", !.lease = None, !.tries = 0])
  OBVIOUS
<1>5. [j EXCEPT !.live = FALSE] \in Job /\ Reopened(j, [j EXCEPT !.live = FALSE])
  OBVIOUS
<1>6. ASSUME j.state = "running", NEW tries \in Nat, NEW s \in {"failed", "pending"}
      PROVE  LET k == [j EXCEPT !.state = s, !.lease = None, !.live = FALSE,
                                !.tries = tries, !.timeout = TRUE]
             IN  k \in Job /\ Reopened(j, k)
  BY <1>6
<1>7. j.state = "running" => \A k \in Transitions(j) : k \in Job /\ Reopened(j, k)
  <2> USE <1>2, <1>3, <1>4 DEF Transitions
  <2> HIDE DEF Job, Reopened
  <2>. QED
    OBVIOUS
<1>. QED
  BY <1>1, <1>2, <1>5, <1>6, <1>7

LEMMA JobChange ==
    ASSUME TypeOK, NEW a \in Accounts, NEW k \in Job, Reopened(job[a], k),
           job' = [job EXCEPT ![a] = k]
    PROVE  job' \in [Accounts -> Job] /\ \A b \in Accounts : Reopened(job[b], job'[b])
<1>1. job \in [Accounts -> Job]
  BY DEF TypeOK
<1>2. \A b \in Accounts : Reopened(job[b], job[b])
  BY <1>1, ReopenedRows
<1>. QED
  BY <1>1, <1>2

LEMMA ReleasedJobs ==
    ASSUME TypeOK, NEW a \in Accounts, job[a].state = "running",
           job' = [job EXCEPT ![a] = [@ EXCEPT !.state = "pending", !.lease = None]]
    PROVE  job' \in [Accounts -> Job] /\ \A b \in Accounts : Reopened(job[b], job'[b])
<1>1. job \in [Accounts -> Job] /\ job[a] \in Job
  BY DEF TypeOK
<1> DEFINE k == [job[a] EXCEPT !.state = "pending", !.lease = None]
<1>2. job' = [job EXCEPT ![a] = k]
  BY <1>1
<1>3. k \in Job /\ Reopened(job[a], k)
  BY <1>1, ReopenedRows
<1> HIDE DEF k
<1>. QED
  BY <1>2, <1>3, JobChange, Zenon

LEMMA SameJobs ==
    ASSUME TypeOK, UNCHANGED job
    PROVE  job' \in [Accounts -> Job] /\ \A b \in Accounts : Reopened(job[b], job'[b])
<1>1. job \in [Accounts -> Job]
  BY DEF TypeOK
<1>. QED
  BY <1>1, ReopenedRows

LEMMA ClaimStep ==
    ASSUME TypeOK, NEW w \in Workers, NEW a \in Accounts, ClaimRange(w, a)
    PROVE  TypeOK' /\ UNCHANGED captureVars /\ Claimed(w, a)
<1> DEFINE k == [job[a] EXCEPT !.state = "running", !.lease = w, !.live = TRUE]
<1>1. /\ job \in [Accounts -> Job] /\ job[a] \in Job /\ worker \in [Workers -> Claim \cup {None}]
      /\ desired[a] \in Desired /\ cache \in [Accounts -> Nat \cup {None}] /\ people \in Nat
  BY DEF TypeOK
<1>2. /\ worker[w] = None
      /\ job[a].state = "pending" \/ (job[a].state = "running" /\ ~job[a].live)
      /\ job' = [job EXCEPT ![a] = [@ EXCEPT !.state = "running", !.lease = w, !.live = TRUE]]
      /\ UNCHANGED <<captureVars, batch, report, budget>>
  BY DEF ClaimRange
<1>3. PICK names \in {cache[a], people} \ {None} :
         cache' = [cache EXCEPT ![a] = names] /\ worker' = [worker EXCEPT ![w] = Fetched(a, names)]
  BY DEF ClaimRange, Step
<1>4. names \in Nat
  BY <1>1
<1>5. NextRange(a) \in Ranges
  BY <1>1, Finite DEF Job, NextRange
<1>7. job' = [job EXCEPT ![a] = k]
  BY <1>1, <1>2
<1>8. /\ k \in Job /\ k.state = "running" /\ k.lease = w
      /\ k.anchor = job[a].anchor /\ k.depth = job[a].depth
  BY <1>1 DEF Job, JobStates
<1> HIDE DEF k
<1> DEFINE c == Fetched(a, names)
<1>10. desired[a].gen \in Nat /\ desired[a].agen \in Nat
  BY <1>1 DEF Desired
<1>11. c \in Claim
  BY <1>4, <1>5, <1>10 DEF Claim, Fetched
<1>12. /\ c.pc = "fetched" /\ c.account = a /\ c.scope = 0 /\ c.range = NextRange(a)
       /\ c.complete <=> NextRange(a) = 1 \/ job[a].depth = "recent"
  BY DEF Fetched
<1> HIDE DEF c
<1>13. worker' \in [Workers -> Claim \cup {None}] /\ worker'[w] = c
       /\ \A v \in Workers \ {w} : worker'[v] = worker[v]
  BY <1>1, <1>3, <1>11 DEF c
<1>14. job' \in [Accounts -> Job] /\ job'[a] = k
       /\ \A b \in Accounts \ {a} : job'[b] = job[b]
  BY <1>1, <1>7, <1>8
<1>15. cache' \in [Accounts -> Nat \cup {None}]
  BY <1>1, <1>3, <1>4
<1>16. TypeOK'
  BY <1>2, <1>13, <1>14, <1>15 DEF TypeOK, captureVars, desiredVars, scopeVars
<1>17. Claimed(w, a)
  BY <1>2, <1>8, <1>11, <1>12, <1>13, <1>14 DEF Claimed, NextRange
<1>. QED
  BY <1>2, <1>16, <1>17

LEMMA WorkerChange ==
    ASSUME TypeOK, NEW w \in Workers, NEW c \in Claim \cup {None},
           worker' = [worker EXCEPT ![w] = c],
           c = None \/ (worker[w] # None /\ Continued(worker[w], c))
    PROVE  /\ worker' \in [Workers -> Claim \cup {None}]
           /\ \A v \in Workers : \/ worker'[v] \in {None, worker[v]}
                                 \/ worker[v] # None /\ Continued(worker[v], worker'[v])
<1>1. worker \in [Workers -> Claim \cup {None}]
  BY DEF TypeOK
<1>2. worker'[w] = c /\ \A v \in Workers \ {w} : worker'[v] = worker[v]
  BY <1>1
<1>3. worker' \in [Workers -> Claim \cup {None}]
  BY <1>1
<1>. QED
  BY <1>2, <1>3

LEMMA IdleChange ==
    ASSUME TypeOK, NEW w \in Workers, Idle(w)
    PROVE  /\ worker' \in [Workers -> Claim \cup {None}]
           /\ worker'[w] = None /\ \A v \in Workers \ {w} : worker'[v] = worker[v]
           /\ \A v \in Workers : \/ worker'[v] \in {None, worker[v]}
                                 \/ worker[v] # None /\ Continued(worker[v], worker'[v])
BY WorkerChange DEF Idle, TypeOK

LEMMA ReadStep ==
    ASSUME TypeOK, NEW w \in Workers, ReadPrior(w)
    PROVE  TypeOK' /\ UNCHANGED captureVars /\ Quiet
<1> DEFINE c == worker[w]
<1>1. c # None /\ c \in Claim /\ c.account \in Accounts
  BY DEF ReadPrior, TypeOK, Claim
<1>2. UNCHANGED <<captureVars, batch, report, cache, budget>>
  BY DEF ReadPrior
<1> DEFINE Good == /\ job' \in [Accounts -> Job]
                   /\ \A a \in Accounts : Reopened(job[a], job'[a])
                   /\ worker' \in [Workers -> Claim \cup {None}]
                   /\ \A v \in Workers : \/ worker'[v] \in {None, worker[v]}
                                         \/ worker[v] # None /\ Continued(worker[v], worker'[v])
<1>3. CASE desired[c.account].cursor = 0
  <2>1. /\ job' = IF job[c.account].state # "running" THEN job
                  ELSE [job EXCEPT ![c.account] = [@ EXCEPT !.state = "pending", !.lease = None]]
        /\ Idle(w)
    BY <1>3 DEF ReadPrior
  <2>2. Good
    BY <1>1, <2>1, IdleChange, SameJobs, ReleasedJobs
  <2>. QED
    BY <1>2, <2>2 DEF TypeOK, Quiet, captureVars, desiredVars, scopeVars
<1>4. CASE desired[c.account].cursor # 0 /\ (~Context(c) \/ scope = None)
  <2>1. job' = Released(w, c) /\ Idle(w)
    BY <1>4 DEF ReadPrior
  <2>2. Good
    BY <1>1, <2>1, IdleChange, SameJobs, ReleasedJobs DEF Released, Holds
  <2>. QED
    BY <1>2, <2>2 DEF TypeOK, Quiet, captureVars, desiredVars, scopeVars
<1>5. CASE desired[c.account].cursor # 0 /\ ~(~Context(c) \/ scope = None)
  <2> DEFINE body == Body(batch[c.range])
             users == IF Applied(scope) THEN scope.users ELSE c.names
             d == [c EXCEPT !.pc = "read", !.scope = scope.gen, !.directory = scope.account,
                            !.prior = body, !.users = users]
  <2>1. worker' = [worker EXCEPT ![w] = d] /\ UNCHANGED job
    BY <1>5 DEF ReadPrior, Step
  <2>2. scope # None /\ scope \in Scope /\ scope.gen \in Nat /\ scope.account \in Nat
        /\ scope.users \in Nat
    BY <1>5 DEF TypeOK, Scope
  <2>3. body \in Stored \cup {None}
    BY <1>1, BodyRow DEF TypeOK, Claim
  <2>4. users \in Nat
    BY <1>1, <2>2 DEF Claim
  <2>5. Applied(scope) => users = scope.users
    OBVIOUS
  <2> HIDE DEF body, users
  <2>6. /\ d \in Claim
        /\ d.pc = "read" /\ d.account = c.account /\ d.range = c.range
        /\ d.complete = c.complete /\ d.scope = scope.gen /\ d.directory = scope.account
        /\ d.users = users
    BY <1>1, <2>2, <2>3, <2>4 DEF Claim
  <2> HIDE DEF d
  <2>7. Continued(c, d)
    BY <2>2, <2>5, <2>6 DEF Continued
  <2>8. Good
    BY <1>1, <2>1, <2>6, <2>7, WorkerChange, SameJobs
  <2>. QED
    BY <1>2, <2>8 DEF TypeOK, Quiet, captureVars, desiredVars, scopeVars
<1>. QED
  BY <1>3, <1>4, <1>5

LEMMA TimeoutStep ==
    ASSUME TypeOK, NEW w \in Workers, WriteTimesOut(w)
    PROVE  TypeOK' /\ UNCHANGED captureVars /\ Quiet
<1> DEFINE c == worker[w]
           d == [c EXCEPT !.pc = "timeout"]
<1>1. c # None /\ c \in Claim /\ c.pc = "read"
  BY DEF WriteTimesOut, TypeOK
<1>2. UNCHANGED <<captureVars, job, batch, report, cache>> /\ worker' = [worker EXCEPT ![w] = d]
  BY DEF WriteTimesOut, Step
<1>3. budget' \in Budget
  BY SpendType DEF WriteTimesOut, TypeOK
<1>4. /\ d \in Claim /\ d.pc = "timeout" /\ d.account = c.account /\ d.range = c.range
      /\ d.complete = c.complete /\ d.scope = c.scope /\ d.directory = c.directory
      /\ d.users = c.users
  BY <1>1 DEF Claim
<1> HIDE DEF d
<1>5. Continued(c, d)
  BY <1>1, <1>4 DEF Continued
<1>6. /\ worker' \in [Workers -> Claim \cup {None}]
      /\ \A v \in Workers : \/ worker'[v] \in {None, worker[v]}
                            \/ worker[v] # None /\ Continued(worker[v], worker'[v])
  BY <1>1, <1>2, <1>4, <1>5, WorkerChange
<1>7. \A a \in Accounts : Reopened(job[a], job'[a])
  BY <1>2, SameJobs
<1>. QED
  BY <1>2, <1>3, <1>6, <1>7 DEF TypeOK, Quiet, captureVars, desiredVars, scopeVars

LEMMA DeferStep ==
    ASSUME TypeOK, NEW w \in Workers, defer_history_capture_write(w)
    PROVE  TypeOK' /\ UNCHANGED captureVars /\ Quiet
<1> DEFINE c == worker[w]
           tries == job[c.account].tries + 1
           held == Holds(w, c) /\ job[c.account].live
           s == IF tries >= CaptureAttempts THEN "failed" ELSE "pending"
           k == [job[c.account] EXCEPT !.state = s, !.lease = None, !.live = FALSE,
                                       !.tries = tries, !.timeout = TRUE]
<1>1. c # None /\ c \in Claim /\ c.account \in Accounts /\ job[c.account] \in Job
  BY DEF defer_history_capture_write, TypeOK, Claim
<1>2. UNCHANGED <<captureVars, batch, cache, budget>> /\ Idle(w)
  BY DEF defer_history_capture_write
<1>3. CASE ~Context(c) \/ scope = None \/ scope.gen # c.scope \/ ~enabled
  <2>1. job' = Released(w, c) /\ UNCHANGED report
    BY <1>3 DEF defer_history_capture_write
  <2>2. job' \in [Accounts -> Job] /\ \A a \in Accounts : Reopened(job[a], job'[a])
    BY <1>1, <2>1, SameJobs, ReleasedJobs DEF Released, Holds
  <2>. QED
    BY <1>2, <2>1, <2>2, IdleChange DEF TypeOK, Quiet, captureVars, desiredVars, scopeVars
<1>4. CASE ~(~Context(c) \/ scope = None \/ scope.gen # c.scope \/ ~enabled) /\ ~held
  <2>1. UNCHANGED <<job, report>>
    BY <1>4 DEF defer_history_capture_write
  <2>2. job' \in [Accounts -> Job] /\ \A a \in Accounts : Reopened(job[a], job'[a])
    BY <2>1, SameJobs
  <2>. QED
    BY <1>2, <2>1, <2>2, IdleChange DEF TypeOK, Quiet, captureVars, desiredVars, scopeVars
<1>5. CASE ~(~Context(c) \/ scope = None \/ scope.gen # c.scope \/ ~enabled) /\ held
  <2>1. /\ job' = [job EXCEPT ![c.account] = k]
        /\ report' = record(report, c.scope, "capture_timeout", TRUE)
    BY <1>5 DEF defer_history_capture_write, TypeOK
  <2>2. tries \in Nat /\ s \in {"failed", "pending"} /\ job[c.account].state = "running"
    BY <1>1, <1>5 DEF Job, Holds
  <2> HIDE DEF tries, s
  <2>3. k \in Job /\ Reopened(job[c.account], k)
    BY <1>1, <2>2, ReopenedRows
  <2> HIDE DEF k
  <2>4. job' \in [Accounts -> Job] /\ \A a \in Accounts : Reopened(job[a], job'[a])
    BY <1>1, <2>1, <2>3, JobChange
  <2>5. c.scope \in Nat /\ scope # None /\ c.scope = scope.gen
    BY <1>1, <1>5 DEF Claim
  <2>6. report' \in Report
    BY <2>1, <2>5, Reports DEF TypeOK, Codes
  <2>. QED
    BY <1>2, <2>1, <2>4, <2>5, <2>6, IdleChange
       DEF TypeOK, Quiet, captureVars, desiredVars, scopeVars
<1>. QED
  BY <1>3, <1>4, <1>5

LEMMA FailsStep ==
    ASSUME TypeOK, NEW w \in Workers, CaptureFails(w)
    PROVE  TypeOK' /\ UNCHANGED captureVars /\ Quiet
<1> DEFINE c == worker[w]
<1>1. c # None /\ c \in Claim /\ c.account \in Accounts /\ job[c.account] \in Job
  BY DEF CaptureFails, TypeOK, Claim
<1>2. UNCHANGED <<captureVars, batch, report, cache>> /\ Idle(w) /\ budget' \in Budget
  BY SpendType DEF CaptureFails, TypeOK
<1>3. \/ UNCHANGED job
      \/ /\ job[c.account].state = "running"
         /\ \E next \in Transitions(job[c.account]) : job' = [job EXCEPT ![c.account] = next]
  BY DEF CaptureFails, Holds
<1>4. job' \in [Accounts -> Job] /\ \A a \in Accounts : Reopened(job[a], job'[a])
  <2>1. CASE UNCHANGED job
    BY <2>1, SameJobs
  <2>2. CASE /\ job[c.account].state = "running"
             /\ \E next \in Transitions(job[c.account]) : job' = [job EXCEPT ![c.account] = next]
    <3>1. PICK next \in Transitions(job[c.account]) : job' = [job EXCEPT ![c.account] = next]
      BY <2>2
    <3>2. next \in Job /\ Reopened(job[c.account], next)
      BY <1>1, <2>2, <3>1, ReopenedRows
    <3>. QED
      BY <1>1, <3>1, <3>2, JobChange
  <2>. QED
    BY <1>3, <2>1, <2>2
<1>. QED
  BY <1>2, <1>4, IdleChange DEF TypeOK, Quiet, captureVars, desiredVars, scopeVars

LEMMA LeaseStep ==
    ASSUME TypeOK, Reap \/ \E a \in Accounts : ExpireCapture(a)
    PROVE  TypeOK' /\ UNCHANGED captureVars /\ Quiet
<1>0. job \in [Accounts -> Job] /\ \A v \in Workers : worker[v] \in {None, worker[v]}
  BY DEF TypeOK
<1>1. CASE Reap
  <2>1. /\ job' = [a \in Accounts |->
                     IF job[a].state = "running" /\ ~job[a].live
                     THEN [job[a] EXCEPT !.state = "pending", !.lease = None] ELSE job[a]]
        /\ UNCHANGED <<desiredVars, scopeVars, batch, report, worker, pass, pub, cache,
                       outsideVars>>
    BY <1>1, Zenon DEF Reap
  <2> DEFINE freed(j) == [j EXCEPT !.state = "pending", !.lease = None]
  <2>2. \A j \in Job : /\ Reopened(j, j)
                       /\ j.state = "running" => freed(j) \in Job /\ Reopened(j, freed(j))
    BY ReopenedRows
  <2>3. job' = [a \in Accounts |->
                     IF job[a].state = "running" /\ ~job[a].live THEN freed(job[a]) ELSE job[a]]
    BY <2>1
  <2> HIDE DEF freed
  <2>4. job' \in [Accounts -> Job] /\ \A a \in Accounts : Reopened(job[a], job'[a])
    BY <1>0, <2>2, <2>3
  <2>. QED
    BY <1>0, <2>1, <2>4 DEF TypeOK, Quiet, captureVars, desiredVars, scopeVars, outsideVars
<1>2. ASSUME NEW a \in Accounts, ExpireCapture(a)
      PROVE  TypeOK' /\ UNCHANGED captureVars /\ Quiet
  <2> DEFINE k == [job[a] EXCEPT !.live = FALSE]
  <2>1. /\ job' = [job EXCEPT ![a] = k]
        /\ UNCHANGED <<captureVars, batch, report, cache, worker>>
    BY <1>0, <1>2 DEF ExpireCapture
  <2>2. budget' \in Budget
    BY <1>2, SpendType, SMTT(30) DEF ExpireCapture, TypeOK
  <2>3. k \in Job /\ Reopened(job[a], k)
    BY <1>0, ReopenedRows
  <2> HIDE DEF k
  <2>4. job' \in [Accounts -> Job] /\ \A b \in Accounts : Reopened(job[b], job'[b])
    BY <2>1, <2>3, JobChange
  <2>. QED
    BY <1>0, <2>1, <2>2, <2>4 DEF TypeOK, Quiet, captureVars, desiredVars, scopeVars
<1>. QED
  BY <1>1, <1>2

LEMMA WrittenRow ==
    ASSUME NEW b \in Batch \cup {None}, NEW body \in Stored
    PROVE  LET n == Written(b, body)
           IN  /\ n \in Batch /\ n # None
               /\ n.access = body.access /\ n.names = body.names
               /\ b = None => Untouched(n)
               /\ b # None => /\ n.status = b.status /\ n.receipt = b.receipt
                              /\ n.leased = b.leased /\ n.sources = b.sources
<1>1. body.access \in SUBSET Accounts /\ body.names \in Nat
  BY DEF Stored
<1>2. CASE b = None
  <2> DEFINE n == [access |-> body.access, names |-> body.names, status |-> "pending",
                   receipt |-> None, sources |-> None, mapped |-> 0, leased |-> FALSE,
                   live |-> FALSE]
  <2>1. Written(b, body) = n
    BY <1>2 DEF Written
  <2>2. n \in Batch
    BY <1>1 DEF Batch
  <2>3. n.access = body.access /\ n.names = body.names /\ Untouched(n)
    BY DEF Untouched
  <2> HIDE DEF n
  <2>. QED
    BY <1>2, <2>1, <2>2, <2>3, NullAssumption
<1>3. CASE b # None
  <2> DEFINE n == [b EXCEPT !.access = body.access, !.names = body.names]
  <2>0. b \in Batch
    BY <1>3
  <2>1. Written(b, body) = n
    BY <1>3 DEF Written
  <2>2. n \in Batch
    BY <1>1, <2>0 DEF Batch
  <2>3. /\ n.access = body.access /\ n.names = body.names
        /\ n.status = b.status /\ n.receipt = b.receipt
        /\ n.leased = b.leased /\ n.sources = b.sources
    BY <1>1, <2>0 DEF Batch
  <2> HIDE DEF n
  <2>. QED
    BY <1>3, <2>1, <2>2, <2>3, NullAssumption
<1>. QED
  BY <1>2, <1>3

LEMMA SaveStep ==
    ASSUME TypeOK, NEW w \in Workers, save_history_batch(w)
    PROVE  TypeOK' /\ UNCHANGED captureVars /\ (Quiet \/ Saved(w, worker[w]))
<1> DEFINE c == worker[w]
<1>1. /\ c # None /\ c \in Claim /\ c.pc = "read" /\ c.account \in Accounts /\ c.range \in Ranges
      /\ c.names \in Nat /\ c.users \in Nat /\ c.complete \in BOOLEAN
      /\ c.prior \in Stored \cup {None} /\ job[c.account] \in Job
  BY DEF save_history_batch, TypeOK, Claim
<1>2. UNCHANGED <<captureVars, report, cache, budget>> /\ Idle(w)
  BY DEF save_history_batch
<1>3. CASE ~MayWrite(w, c)
  <2>1. /\ job' = IF Unchanged(c) /\ ~(Holds(w, c) /\ job[c.account].live)
                  THEN job ELSE Released(w, c)
        /\ UNCHANGED batch
    BY <1>3, SMTT(30) DEF save_history_batch
  <2>2. job' \in [Accounts -> Job] /\ \A a \in Accounts : Reopened(job[a], job'[a])
    BY <1>1, <2>1, SameJobs, ReleasedJobs DEF Released, Holds
  <2>. QED
    BY <1>2, <2>1, <2>2, IdleChange DEF TypeOK, Quiet, captureVars, desiredVars, scopeVars
<1>4. CASE MayWrite(w, c)
  <2> DEFINE body == merge_batch(c)
             n == Written(batch[c.range], body)
             k == [job[c.account] EXCEPT !.anchor = IF c.complete THEN 0 ELSE c.range - 1,
                     !.state = IF c.complete THEN "complete" ELSE "pending",
                     !.lease = None, !.live = FALSE, !.tries = 0, !.timeout = FALSE]
  <2>1. batch' = [batch EXCEPT ![c.range] = n] /\ job' = [job EXCEPT ![c.account] = k]
    BY <1>1, <1>4 DEF save_history_batch, Advanced, TypeOK
  <2>2. /\ scope # None /\ scope.gen = c.scope /\ scope.account = c.directory
        /\ Holds(w, c) /\ Body(batch[c.range]) = c.prior
    BY <1>4 DEF MayWrite, Unchanged
  <2>3. batch[c.range] \in Batch \cup {None}
    BY <1>1 DEF TypeOK
  <2>4. /\ body \in Stored /\ body.names = c.users
        /\ body.access = (IF c.prior = None THEN {} ELSE c.prior.access) \cup {c.account}
    BY <1>1 DEF merge_batch, Stored
  <2>5. body.access = (IF batch[c.range] = None THEN {} ELSE batch[c.range].access)
                         \cup {c.account}
    <3>1. CASE batch[c.range] = None
      BY <2>2, <2>4, <3>1 DEF Body
    <3>2. CASE batch[c.range] # None
      BY <2>2, <2>3, <2>4, <3>2, BodyRow
    <3>. QED
      BY <3>1, <3>2
  <2> HIDE DEF body
  <2>6. /\ n \in Batch /\ n # None
        /\ n.access = body.access /\ n.names = body.names
        /\ batch[c.range] = None => Untouched(n)
        /\ batch[c.range] # None => /\ n.status = batch[c.range].status
                                    /\ n.receipt = batch[c.range].receipt
                                    /\ n.leased = batch[c.range].leased
                                    /\ n.sources = batch[c.range].sources
    BY <2>3, <2>4, WrittenRow
  <2>7. c.range - 1 \in Ranges \cup {0}
    BY <1>1, Finite
  <2>8. /\ k \in Job /\ k.depth = job[c.account].depth
        /\ k.anchor = IF c.complete THEN 0 ELSE c.range - 1
        /\ k.state = IF c.complete THEN "complete" ELSE "pending"
    BY <1>1, <2>7 DEF Job, JobStates
  <2> HIDE DEF n, k
  <2>9. /\ batch' \in [Ranges -> Batch \cup {None}] /\ batch'[c.range] = n
        /\ \A r \in Ranges \ {c.range} : batch'[r] = batch[r]
    BY <1>1, <2>1, <2>6 DEF TypeOK
  <2>10. /\ job' \in [Accounts -> Job] /\ job'[c.account] = k
         /\ \A a \in Accounts \ {c.account} : job'[a] = job[a]
    BY <1>1, <2>1, <2>8 DEF TypeOK
  <2>11. /\ worker' \in [Workers -> Claim \cup {None}]
         /\ worker'[w] = None /\ \A v \in Workers \ {w} : worker'[v] = worker[v]
    BY <1>2, IdleChange
  <2>12. Saved(w, c)
    <3>1. IF batch[c.range] = None
          THEN n.access = {c.account} /\ Untouched(n)
          ELSE /\ n.access = batch[c.range].access \cup {c.account}
               /\ n.status = batch[c.range].status
               /\ n.receipt = batch[c.range].receipt
               /\ n.leased = batch[c.range].leased
               /\ n.sources = batch[c.range].sources
      BY <2>5, <2>6
    <3>2. n # None /\ n.names = c.users
      BY <2>4, <2>6
    <3>. QED
      BY <1>1, <1>2, <2>2, <2>8, <2>9, <2>10, <2>11, <3>1, <3>2 DEF Saved
  <2>13. TypeOK'
    BY <1>2, <2>9, <2>10, <2>11 DEF TypeOK, captureVars, desiredVars, scopeVars
  <2>. QED
    BY <1>2, <2>12, <2>13
<1>. QED
  BY <1>3, <1>4

LEMMA CaptureSteps ==
    ASSUME TypeOK, \/ \E w \in Workers : Capture(w)
                   \/ Reap \/ \E a \in Accounts : ExpireCapture(a)
    PROVE  /\ TypeOK' /\ UNCHANGED captureVars
           /\ \/ Quiet
              \/ \E w \in Workers, a \in Accounts : Claimed(w, a)
              \/ \E w \in Workers : Saved(w, worker[w])
<1>1. ASSUME NEW w \in Workers, Capture(w)
      PROVE  /\ TypeOK' /\ UNCHANGED captureVars
             /\ \/ Quiet
                \/ \E v \in Workers, a \in Accounts : Claimed(v, a)
                \/ \E v \in Workers : Saved(v, worker[v])
  <2>1. CASE \E a \in Accounts : ClaimRange(w, a)
    BY <2>1, ClaimStep
  <2>2. CASE ReadPrior(w)
    BY <2>2, ReadStep
  <2>3. CASE save_history_batch(w)
    BY <2>3, SaveStep
  <2>4. CASE WriteTimesOut(w)
    BY <2>4, TimeoutStep
  <2>5. CASE defer_history_capture_write(w)
    BY <2>5, DeferStep
  <2>6. CASE CaptureFails(w)
    BY <2>6, FailsStep
  <2>. QED
    BY <1>1, <2>1, <2>2, <2>3, <2>4, <2>5, <2>6 DEF Capture
<1>. QED
  BY <1>1, LeaseStep

-----------------------------------------------------------------------------
(* The directory pass *)

LEMMA LaterRanges ==
    ASSUME NEW cursor \in Nat, LaterBatches(cursor) # {}
    PROVE  LET next == Min(LaterBatches(cursor))
           IN  /\ next \in Ranges /\ next > cursor /\ batch[next] # None
               /\ \A r \in Ranges : cursor < r /\ r < next => batch[r] = None
<1>1. LaterBatches(cursor) \in SUBSET Nat
  BY Finite DEF LaterBatches
<1> DEFINE next == Min(LaterBatches(cursor))
<1>2. next \in LaterBatches(cursor) /\ \A r \in LaterBatches(cursor) : next <= r
  BY <1>1, Least
<1> HIDE DEF next
<1>3. \A r \in Ranges : r \in Nat
  BY Finite
<1>4. next \in Ranges /\ next > cursor /\ batch[next] # None
  BY <1>2 DEF LaterBatches
<1>5. \A r \in Ranges : cursor < r /\ r < next => batch[r] = None
  BY <1>2, <1>3, <1>4 DEF LaterBatches
<1>. QED
  BY <1>4, <1>5 DEF next

Directed == UNCHANGED <<desired, enabled, config, job, worker, pub, people, import, told, noticed>>

Prepared ==
    /\ pass = None /\ scope # None /\ scope.pending
    /\ UNCHANGED <<revision, scope, batch, report>>
    /\ pass' \in Pass /\ pass'.scope = scope
    /\ \/ /\ pass'.kind = "account" /\ pass'.names = people
          /\ scope.account < Cardinality(ScopeAccounts(scope))
       \/ /\ pass'.kind = "batch"
          /\ scope.account >= Cardinality(ScopeAccounts(scope))
          /\ Applied(scope) => pass'.names = scope.users
          /\ pass'.range \in Ranges /\ batch[pass'.range] # None /\ scope.cursor < pass'.range
          /\ \A r \in Ranges : scope.cursor < r /\ r < pass'.range => batch[r] = None
          /\ pass'.prior # None
       \/ /\ pass'.kind = "end"
          /\ scope.account >= Cardinality(ScopeAccounts(scope))

LEMMA PrepareStep ==
    ASSUME TypeOK, PrepareQuantum
    PROVE  TypeOK' /\ Directed /\ Prepared
<1> DEFINE account == SetToSortSeq(ScopeAccounts(scope), <)[scope.account + 1]
           next == Min(LaterBatches(scope.cursor))
           names == IF Applied(scope) THEN scope.users ELSE batch[next].names
<1>1. /\ pass = None /\ scope # None /\ scope.pending
      /\ UNCHANGED <<passVars, revision, scope, batch, report, budget>>
  BY DEF PrepareQuantum
<1>2. scope \in Scope /\ scope.cursor \in Nat /\ scope.account \in Nat /\ scope.users \in Nat
      /\ people \in Nat /\ cache \in [Accounts -> Nat \cup {None}]
      /\ batch \in [Ranges -> Batch \cup {None}]
  BY <1>1 DEF TypeOK, Scope
<1>3. \/ /\ scope.account < Cardinality(ScopeAccounts(scope))
         /\ cache' = [cache EXCEPT ![account] = people]
         /\ pass' = [scope |-> scope, kind |-> "account", range |-> 0, names |-> people,
                     prior |-> None]
      \/ /\ scope.account >= Cardinality(ScopeAccounts(scope))
         /\ LaterBatches(scope.cursor) # {}
         /\ pass' = [scope |-> scope, kind |-> "batch", range |-> next,
                     names |-> names, prior |-> Body(batch[next])]
         /\ UNCHANGED cache
      \/ /\ scope.account >= Cardinality(ScopeAccounts(scope))
         /\ LaterBatches(scope.cursor) = {}
         /\ pass' = [scope |-> scope, kind |-> "end", range |-> 0, names |-> 0,
                     prior |-> None]
         /\ UNCHANGED cache
  BY DEF PrepareQuantum
<1>4. LaterBatches(scope.cursor) # {} =>
        /\ next \in Ranges /\ next > scope.cursor /\ batch[next] # None
        /\ \A r \in Ranges : scope.cursor < r /\ r < next => batch[r] = None
        /\ names \in Nat /\ Body(batch[next]) \in Stored /\ next \in Nat
  <2> SUFFICES ASSUME LaterBatches(scope.cursor) # {}
               PROVE  /\ next \in Ranges /\ next > scope.cursor /\ batch[next] # None
                      /\ \A r \in Ranges : scope.cursor < r /\ r < next => batch[r] = None
                      /\ names \in Nat /\ Body(batch[next]) \in Stored /\ next \in Nat
    OBVIOUS
  <2>1. /\ next \in Ranges /\ next > scope.cursor /\ batch[next] # None
        /\ \A r \in Ranges : scope.cursor < r /\ r < next => batch[r] = None
    BY <1>2, LaterRanges
  <2> HIDE DEF next
  <2>2. batch[next] \in Batch
    BY <1>2, <2>1
  <2>3. names \in Nat /\ next \in Nat
    BY <1>2, <2>1, <2>2, Finite DEF Batch
  <2>. QED
    BY <2>1, <2>2, <2>3, BodyRow
<1>5. Applied(scope) => names = scope.users
  OBVIOUS
<1> HIDE DEF account, next, names
<1>6. CASE /\ scope.account < Cardinality(ScopeAccounts(scope))
           /\ cache' = [cache EXCEPT ![account] = people]
           /\ pass' = [scope |-> scope, kind |-> "account", range |-> 0, names |-> people,
                       prior |-> None]
  <2>1. cache' \in [Accounts -> Nat \cup {None}]
    BY <1>2, <1>6
  <2>2. pass' \in Pass /\ pass'.scope = scope /\ pass'.kind = "account" /\ pass'.names = people
    BY <1>2, <1>6 DEF Pass
  <2>. QED
    BY <1>1, <1>6, <2>1, <2>2 DEF TypeOK, Directed, Prepared, passVars, desiredVars
<1>7. CASE /\ scope.account >= Cardinality(ScopeAccounts(scope))
           /\ LaterBatches(scope.cursor) # {}
           /\ pass' = [scope |-> scope, kind |-> "batch", range |-> next,
                       names |-> names, prior |-> Body(batch[next])]
           /\ UNCHANGED cache
  <2>1. /\ pass' \in Pass /\ pass'.scope = scope /\ pass'.kind = "batch"
        /\ pass'.names = names /\ pass'.range = next /\ pass'.prior # None
    BY <1>2, <1>4, <1>7, NullAssumption DEF Pass
  <2>2. TypeOK'
    BY <1>1, <1>7, <2>1 DEF TypeOK, passVars, desiredVars
  <2>. QED
    BY <1>1, <1>4, <1>5, <1>7, <2>1, <2>2 DEF Directed, Prepared, passVars, desiredVars
<1>8. CASE /\ scope.account >= Cardinality(ScopeAccounts(scope))
           /\ pass' = [scope |-> scope, kind |-> "end", range |-> 0, names |-> 0,
                       prior |-> None]
           /\ UNCHANGED cache
  <2>1. pass' \in Pass /\ pass'.scope = scope /\ pass'.kind = "end"
    BY <1>2, <1>8 DEF Pass
  <2>. QED
    BY <1>1, <1>8, <2>1 DEF TypeOK, Directed, Prepared, passVars, desiredVars
<1>. QED
  BY <1>3, <1>6, <1>7, <1>8

(* What the directory pass and the publisher hold is complete. *)
Held ==
    /\ pass # None /\ pass.kind = "batch" => pass.range \in Ranges /\ pass.prior # None
    /\ pub.pc # "idle" => pub.range \in Ranges /\ pub.envelope \in Envelope

(* Steps of the pass, of which a stale one changes nothing. *)
Refreshing ==
    /\ PassCurrent /\ pass.kind = "account"
    /\ scope' \in Scope
    /\ scope'.gen = scope.gen /\ scope'.sources = scope.sources
    /\ scope'.pending = scope.pending /\ scope'.cursor = scope.cursor
    /\ scope'.users = pass.names /\ scope'.account = scope.account + 1
    /\ UNCHANGED batch

Rewriting ==
    /\ PassCurrent /\ pass.kind = "batch"
    /\ scope' \in Scope
    /\ scope'.gen = scope.gen /\ scope'.sources = scope.sources
    /\ scope'.pending = scope.pending /\ scope'.account = scope.account
    /\ scope'.users = scope.users /\ scope'.cursor = pass.range
    /\ batch[pass.range] # None /\ batch'[pass.range] # None
    /\ batch'[pass.range].access = batch[pass.range].access
    /\ batch'[pass.range].names = pass.names
    /\ Untouched(batch'[pass.range])
    /\ \A r \in Ranges \ {pass.range} : batch'[r] = batch[r]

Acknowledged ==
    /\ PassCurrent /\ LaterBatches(scope.cursor) = {}
    /\ scope' \in Scope
    /\ scope'.gen = scope.gen /\ scope'.sources = scope.sources
    /\ ~scope'.pending /\ scope'.account = scope.account
    /\ scope'.users = scope.users /\ scope'.cursor = scope.cursor
    /\ UNCHANGED batch

LEMMA ApplyStep ==
    ASSUME TypeOK, Held, ApplyQuantum
    PROVE  /\ TypeOK' /\ Directed /\ pass # None /\ pass' = None /\ UNCHANGED report
           /\ UNCHANGED <<scope, batch>> \/ Refreshing \/ Rewriting \/ Acknowledged
<1>1. pass # None /\ pass' = None /\ UNCHANGED <<passVars, report, cache, budget>>
  BY DEF ApplyQuantum
<1>2. pass \in Pass /\ pass.scope \in Scope /\ pass.names \in Nat
  BY <1>1 DEF TypeOK, Pass
<1> DEFINE P == /\ scope' \in Scope \cup {None} /\ revision' \in Nat
                /\ batch' \in [Ranges -> Batch \cup {None}]
                /\ UNCHANGED <<scope, batch>> \/ Refreshing \/ Rewriting \/ Acknowledged
<1>3. UNCHANGED <<scope, revision, batch>> => P
  BY DEF TypeOK
<1>4. PassCurrent => scope \in Scope /\ scope # None
                     /\ scope.cursor = pass.scope.cursor /\ scope.account \in Nat
  BY DEF PassCurrent, TypeOK, Scope
<1>5. ASSUME PassCurrent, pass.kind = "account",
             scope' = [scope EXCEPT !.users = pass.names, !.account = @ + 1, !.tries = 0],
             UNCHANGED <<revision, batch>>
      PROVE  P
  <2> DEFINE n == scope.account + 1
             s == [scope EXCEPT !.users = pass.names, !.account = n, !.tries = 0]
  <2>1. scope' = s /\ n \in Nat
    BY <1>4, <1>5
  <2> HIDE DEF n
  <2>2. /\ s \in Scope
        /\ s.gen = scope.gen /\ s.sources = scope.sources
        /\ s.pending = scope.pending /\ s.cursor = scope.cursor
        /\ s.users = pass.names /\ s.account = n
    BY <1>2, <1>4, <1>5, <2>1 DEF Scope
  <2> HIDE DEF s
  <2>3. Refreshing
    BY <1>5, <2>1, <2>2 DEF Refreshing, n
  <2>. QED
    BY <1>5, <2>1, <2>2, <2>3 DEF TypeOK
<1>6. ASSUME PassCurrent, pass.kind = "batch", Body(batch[pass.range]) = pass.prior,
             batch' = [batch EXCEPT ![pass.range] = [Unpublished(@) EXCEPT !.names = pass.names]],
             scope' = [scope EXCEPT !.cursor = pass.range, !.tries = 0],
             UNCHANGED revision
      PROVE  P
  <2> DEFINE s == [scope EXCEPT !.cursor = pass.range, !.tries = 0]
             b == batch[pass.range]
             u == Unpublished(b)
             n == [u EXCEPT !.names = pass.names]
  <2>1. pass.range \in Ranges /\ pass.range \in Nat /\ pass.prior # None
    BY <1>1, <1>6, Finite DEF Held
  <2>2. b # None /\ b \in Batch
    BY <1>6, <2>1 DEF TypeOK, Body
  <2>3. /\ s \in Scope
        /\ s.gen = scope.gen /\ s.sources = scope.sources
        /\ s.pending = scope.pending /\ s.account = scope.account
        /\ s.users = scope.users /\ s.cursor = pass.range
    BY <1>4, <1>6, <2>1 DEF Scope
  <2>4. batch' = [batch EXCEPT ![pass.range] = n]
    BY <1>6, <2>1 DEF TypeOK
  <2>5. u \in Batch /\ u.access = b.access /\ Untouched(u)
    BY <2>2, UnpublishedRow DEF Untouched
  <2> HIDE DEF u
  <2>6. n \in Batch /\ n.access = b.access /\ n.names = pass.names /\ Untouched(n)
    BY <1>2, <2>5 DEF Batch, Untouched
  <2> HIDE DEF n
  <2>7. /\ batch' \in [Ranges -> Batch \cup {None}]
        /\ batch'[pass.range] = n /\ \A r \in Ranges \ {pass.range} : batch'[r] = batch[r]
    BY <2>1, <2>4, <2>6 DEF TypeOK
  <2> HIDE DEF s
  <2>8. n # None
    BY <2>6, NullAssumption
  <2>9. Rewriting
    BY <1>6, <2>2, <2>3, <2>6, <2>7, <2>8 DEF Rewriting, s
  <2>. QED
    BY <1>6, <2>3, <2>7, <2>9 DEF TypeOK, s
<1>7. ASSUME PassCurrent, Acknowledge, UNCHANGED batch
      PROVE  P
  <2>1. CASE LaterBatches(pass.scope.cursor) # {}
    BY <1>3, <1>7, <2>1 DEF Acknowledge
  <2>2. CASE LaterBatches(pass.scope.cursor) = {}
    <3> DEFINE s == [scope EXCEPT !.pending = FALSE, !.ack = scope.rev, !.tries = 0]
    <3>1. scope' = s /\ revision' = IF revision = scope.rev THEN 0 ELSE revision
      BY <1>7, <2>2 DEF Acknowledge
    <3>2. scope.rev \in Nat
      BY <1>4, <1>7 DEF Scope
    <3>3. /\ s \in Scope
          /\ s.gen = scope.gen /\ s.sources = scope.sources
          /\ ~s.pending /\ s.account = scope.account
          /\ s.users = scope.users /\ s.cursor = scope.cursor
      BY <1>4, <1>7, <3>2 DEF Scope
    <3> HIDE DEF s
    <3>4. Acknowledged
      BY <1>4, <1>7, <2>2, <3>1, <3>3 DEF Acknowledged
    <3>. QED
      BY <1>7, <3>1, <3>3, <3>4 DEF TypeOK
  <2>. QED
    BY <2>1, <2>2
<1>8. P
  <2> HIDE DEF P
  <2>1. CASE ~PassCurrent
    <3>1. UNCHANGED <<scope, revision, batch>>
      BY <2>1 DEF ApplyQuantum
    <3>. QED
      BY <1>3, <3>1
  <2>2. CASE PassCurrent
    <3>1. \/ /\ pass.kind = "account"
             /\ scope' = [scope EXCEPT !.users = pass.names, !.account = @ + 1, !.tries = 0]
             /\ UNCHANGED <<revision, batch>>
          \/ /\ pass.kind = "batch"
             /\ IF Body(batch[pass.range]) # pass.prior THEN UNCHANGED <<scope, batch>>
                ELSE /\ batch' = [batch EXCEPT ![pass.range] =
                                     [Unpublished(@) EXCEPT !.names = pass.names]]
                     /\ scope' = [scope EXCEPT !.cursor = pass.range, !.tries = 0]
             /\ UNCHANGED revision
          \/ pass.kind = "end" /\ Acknowledge /\ UNCHANGED batch
      BY <2>2 DEF ApplyQuantum
    <3>. QED
      BY <1>3, <1>5, <1>6, <1>7, <2>2, <3>1
  <2>. QED
    BY <2>1, <2>2
<1>9. TypeOK'
  BY <1>1, <1>8 DEF TypeOK, passVars, desiredVars
<1>. QED
  BY <1>1, <1>8, <1>9 DEF Directed, passVars, desiredVars

(* A directory write that ran out of time. *)
Deferred ==
    /\ PassCurrent
    /\ scope' \in Scope
    /\ scope'.gen = scope.gen /\ scope'.sources = scope.sources
    /\ scope'.pending = scope.pending /\ scope'.account = scope.account
    /\ scope'.users = scope.users /\ scope'.cursor = scope.cursor
    /\ UNCHANGED report \/ report' = record(report, scope.gen, "directory_timeout", FALSE)

LEMMA QuantumTimeoutStep ==
    ASSUME TypeOK, QuantumTimesOut
    PROVE  /\ TypeOK' /\ Directed /\ pass' = None /\ UNCHANGED batch
           /\ UNCHANGED <<scope, report>> \/ Deferred
<1>1. pass' = None /\ UNCHANGED <<passVars, revision, batch, cache>>
  BY DEF QuantumTimesOut
<1>2. budget' \in Budget
  BY SpendType DEF QuantumTimesOut, TypeOK
<1>3. \/ UNCHANGED <<scope, report>>
      \/ /\ PassCurrent
         /\ scope' = [scope EXCEPT !.tries = @ + 1]
         /\ UNCHANGED report \/ report' = record(report, scope.gen, "directory_timeout", FALSE)
  BY DEF QuantumTimesOut
<1>4. CASE UNCHANGED <<scope, report>>
  BY <1>1, <1>2, <1>4 DEF TypeOK, Directed, passVars, desiredVars
<1>5. CASE /\ PassCurrent
           /\ scope' = [scope EXCEPT !.tries = @ + 1]
           /\ UNCHANGED report \/ report' = record(report, scope.gen, "directory_timeout", FALSE)
  <2>1. scope \in Scope /\ scope.gen \in Nat
    BY <1>5 DEF PassCurrent, TypeOK, Scope
  <2>2. /\ scope' \in Scope
        /\ scope'.gen = scope.gen /\ scope'.sources = scope.sources
        /\ scope'.pending = scope.pending /\ scope'.account = scope.account
        /\ scope'.users = scope.users /\ scope'.cursor = scope.cursor
    BY <1>5, <2>1 DEF Scope
  <2>3. report' \in Report \cup {None}
    BY <1>5, <2>1, Reports DEF TypeOK, Codes
  <2>4. Deferred
    BY <1>5, <2>2 DEF Deferred
  <2>. QED
    BY <1>1, <1>2, <2>2, <2>3, <2>4 DEF TypeOK, Directed, passVars, desiredVars
<1>. QED
  BY <1>3, <1>4, <1>5

-----------------------------------------------------------------------------
(* Publication *)

Posted == UNCHANGED <<desired, enabled, config, revision, scope, job, worker, pass, cache,
                      people, noticed>>

Taken(r) ==
    /\ pub.pc = "idle" /\ FingerprintCurrent /\ ~scope.pending /\ CapturesComplete
    /\ batch[r] # None /\ batch[r].status = "pending" /\ batch'[r] # None
    /\ batch'[r].access = batch[r].access /\ batch'[r].names = batch[r].names
    /\ batch'[r].status = "pending" /\ batch'[r].sources = sources_for
    /\ \/ batch'[r].receipt = None
       \/ batch'[r].receipt = batch[r].receipt /\ batch[r].sources = sources_for
    /\ \A q \in Ranges \ {r} : batch'[q] = batch[q]
    /\ \/ ~batch'[r].leased /\ batch'[r].receipt = None /\ UNCHANGED pub
       \/ /\ batch'[r].leased
          /\ pub'.pc = "claimed" /\ pub'.range = r /\ pub'.receipt = batch'[r].receipt
          /\ pub'.envelope = [gen |-> scope.gen, sources |-> sources_for,
                              access |-> batch[r].access, names |-> batch[r].names]
    /\ UNCHANGED <<report, import, told>>

(* The publisher goes on with what it has claimed. *)
Asked ==
    /\ pub.pc # "idle" /\ pub'.pc # "idle"
    /\ pub'.range = pub.range /\ pub'.envelope = pub.envelope
    /\ pub'.receipt \in {pub.receipt, pub.envelope}
    /\ \A r \in Ranges \ {pub.range} : import'[r] = import[r]
    /\ pub'.pc = "answered" /\ pub'.answer = "complete" =>
          pub'.receipt # None /\ import'[pub.range] = pub'.receipt
    /\ UNCHANGED <<batch, report, told>>

(* It ends with a batch that it still holds, or with one that it has lost. *)
Returned(r) ==
    /\ Mine /\ batch'[r] # None
    /\ batch'[r].access = batch[r].access /\ batch'[r].names = batch[r].names
    /\ batch'[r].sources = batch[r].sources /\ ~batch'[r].leased
    /\ batch'[r].receipt \in {None, batch[r].receipt, pub.receipt}
    /\ batch'[r].status = "complete" =>
          /\ current /\ pub.pc = "answered" /\ pub.answer = "complete"
          /\ batch'[r].receipt = pub.receipt
    /\ batch'[r].status = "failed" =>
          current /\ report' = record(report, pub.envelope.gen, "rejected", FALSE)

Ended ==
    /\ pub.pc # "idle" /\ pub'.pc = "idle"
    /\ \A r \in Ranges \ {pub.range} : batch'[r] = batch[r]
    /\ UNCHANGED batch \/ Returned(pub.range)
    /\ \/ UNCHANGED report
       \/ current /\ report' = record(report, pub.envelope.gen, "rejected", FALSE)
    /\ UNCHANGED <<import, told>>

Aged(r) ==
    /\ batch[r] # None /\ batch'[r] # None
    /\ batch'[r].access = batch[r].access /\ batch'[r].names = batch[r].names
    /\ batch'[r].sources = batch[r].sources /\ batch'[r].leased = batch[r].leased
    /\ batch'[r].receipt = batch[r].receipt /\ batch'[r].status = batch[r].status
    /\ \A q \in Ranges \ {r} : batch'[q] = batch[q]
    /\ UNCHANGED <<report, pub, import, told>>

LEMMA ImportSources ==
    ASSUME TypeOK
    PROVE  sources_for \in SUBSET ImportSource
<1>1. Live \subseteq Accounts /\ desired \in [Accounts -> Desired]
  BY DEF Live, TypeOK
<1>2. \A a \in Accounts : desired[a].gen \in Nat /\ desired[a].agen \in Nat
  BY <1>1 DEF Desired
<1>. QED
  BY <1>1, <1>2 DEF sources_for, ImportSource

LEMMA TakeStep ==
    ASSUME TypeOK, Held, NEW r \in Ranges, NEW admission \in BOOLEAN, claim(r, admission)
    PROVE  TypeOK' /\ Posted /\ (Taken(r))
<1> DEFINE b == batch[r]
           receipt == IF b.sources = sources_for THEN b.receipt ELSE None
           mapped  == IF b.sources = sources_for THEN b.mapped ELSE 0
           granted == admission \/ receipt # None
           n == [b EXCEPT !.leased = granted, !.live = granted, !.mapped = mapped,
                          !.sources = sources_for, !.receipt = receipt]
           p == [pc |-> "claimed", range |-> r, receipt |-> receipt, mapped |-> mapped,
                 envelope |-> [gen |-> scope.gen, sources |-> sources_for,
                               access |-> b.access, names |-> b.names],
                 answer |-> ""]
<1>1. /\ pub.pc = "idle" /\ FingerprintCurrent /\ ~scope.pending /\ CapturesComplete
      /\ b # None /\ b.status = "pending"
      /\ UNCHANGED <<pubVars, report, import, told, budget>>
  BY DEF claim
<1>2. batch' = [batch EXCEPT ![r] =
                  [@ EXCEPT !.leased = granted, !.live = granted, !.mapped = mapped,
                            !.sources = sources_for, !.receipt = receipt]]
  BY DEF claim
<1>3. pub' = IF ~granted THEN pub ELSE p
  BY DEF claim
<1>4. b \in Batch /\ batch \in [Ranges -> Batch \cup {None}]
  BY <1>1 DEF TypeOK
<1>5. batch' = [batch EXCEPT ![r] = n]
  BY <1>2, <1>4
<1>6. receipt \in Envelope \cup {None} /\ mapped \in Nat /\ granted \in BOOLEAN
  BY <1>4 DEF Batch
<1>7. /\ receipt = None \/ (receipt = b.receipt /\ b.sources = sources_for)
      /\ ~granted => receipt = None
  OBVIOUS
<1>8. sources_for \in SUBSET ImportSource
  BY ImportSources
<1>9. scope.gen \in Nat
  BY <1>1 DEF FingerprintCurrent, TypeOK, Scope
<1> HIDE DEF receipt, mapped, granted
<1>10. /\ n \in Batch
       /\ n.access = b.access /\ n.names = b.names /\ n.status = b.status
       /\ n.sources = sources_for /\ n.receipt = receipt /\ n.leased = granted
  BY <1>4, <1>6, <1>8 DEF Batch
<1> HIDE DEF n
<1> DEFINE e == [gen |-> scope.gen, sources |-> sources_for, access |-> b.access,
                 names |-> b.names]
<1>11. e \in Envelope
  BY <1>4, <1>8, <1>9 DEF Envelope, Batch
<1>12. p = [pc |-> "claimed", range |-> r, receipt |-> receipt, mapped |-> mapped,
            envelope |-> e, answer |-> ""]
  OBVIOUS
<1>13. r \in Nat
  BY Finite
<1> HIDE DEF e, p
<1>14. /\ p \in Pub /\ p.pc = "claimed" /\ p.range = r /\ p.receipt = receipt /\ p.envelope = e
  BY <1>6, <1>11, <1>12, <1>13 DEF Pub, Answers
<1>15. /\ batch' \in [Ranges -> Batch \cup {None}]
       /\ batch'[r] = n /\ \A q \in Ranges \ {r} : batch'[q] = batch[q]
  BY <1>4, <1>5, <1>10
<1>16. TypeOK'
  <2>1. pub' \in Pub
    BY <1>3, <1>14 DEF TypeOK
  <2>. QED
    BY <1>1, <1>15, <2>1 DEF TypeOK, pubVars, desiredVars, scopeVars
<1>17. Taken(r)
  <2>1. n # None
    BY <1>10, NullAssumption
  <2>2. \/ ~n.leased /\ n.receipt = None /\ UNCHANGED pub
        \/ /\ n.leased
           /\ pub'.pc = "claimed" /\ pub'.range = r /\ pub'.receipt = n.receipt
           /\ pub'.envelope = e
    BY <1>3, <1>6, <1>7, <1>10, <1>14
  <2>3. e = [gen |-> scope.gen, sources |-> sources_for, access |-> batch[r].access,
             names |-> batch[r].names]
    BY DEF e
  <2>. QED
    BY <1>1, <1>7, <1>10, <1>15, <2>1, <2>2, <2>3 DEF Taken
<1>. QED
  BY <1>1, <1>16, <1>17 DEF Posted, pubVars, desiredVars, scopeVars

LEMMA ReleaseStep ==
    ASSUME TypeOK, Held, pub.pc # "idle", NEW status \in {"pending", "failed"},
           NEW receipt \in {None, pub.receipt}, NEW reset \in BOOLEAN,
           release(status, receipt, reset),
           status = "failed" =>
              current /\ report' = record(report, pub.envelope.gen, "rejected", FALSE)
    PROVE  /\ batch' \in [Ranges -> Batch \cup {None}]
           /\ \A r \in Ranges \ {pub.range} : batch'[r] = batch[r]
           /\ UNCHANGED batch \/ Returned(pub.range)
<1>1. pub.range \in Ranges /\ pub.receipt \in Envelope \cup {None}
      /\ batch \in [Ranges -> Batch \cup {None}]
  BY DEF Held, TypeOK, Pub
<1>2. CASE ~Mine
  BY <1>1, <1>2 DEF release
<1>3. CASE Mine
  <2> DEFINE b == batch[pub.range]
             kept == IF reset THEN None ELSE IF receipt # None THEN receipt ELSE b.receipt
             mapped == IF reset THEN 0 ELSE b.mapped
             n == [b EXCEPT !.status = status, !.leased = FALSE, !.live = FALSE,
                            !.receipt = kept, !.mapped = mapped]
  <2>1. b # None /\ b \in Batch
    BY <1>1, <1>3 DEF Mine
  <2>2. batch' = [batch EXCEPT ![pub.range] = n]
    BY <1>3, Zenon DEF release
  <2>3. kept \in Envelope \cup {None} /\ mapped \in Nat
        /\ kept \in {None, b.receipt, pub.receipt}
    BY <1>1, <2>1 DEF Batch
  <2> HIDE DEF kept, mapped
  <2>4. /\ n \in Batch
        /\ n.access = b.access /\ n.names = b.names /\ n.sources = b.sources
        /\ n.status = status /\ ~n.leased /\ n.receipt = kept
    BY <2>1, <2>3 DEF Batch
  <2> HIDE DEF n
  <2>5. /\ batch' \in [Ranges -> Batch \cup {None}] /\ batch'[pub.range] = n
        /\ \A r \in Ranges \ {pub.range} : batch'[r] = batch[r]
    BY <1>1, <2>2, <2>4
  <2>6. n # None
    BY <2>4, NullAssumption
  <2>7. Returned(pub.range)
    BY <1>3, <2>3, <2>4, <2>5, <2>6 DEF Returned
  <2>. QED
    BY <2>5, <2>7
<1>. QED
  BY <1>2, <1>3

LEMMA IdlePubType == IdlePub \in Pub /\ IdlePub.pc = "idle"
BY DEF IdlePub, Pub, Answers

LEMMA AskStep ==
    ASSUME TypeOK, Held, Post \/ Poll
    PROVE  TypeOK' /\ Posted /\ Asked
<1>1. /\ pub \in Pub /\ pub.pc = "checked" /\ pub.envelope \in Envelope /\ pub.range \in Ranges
      /\ import \in [Ranges -> Envelope \cup {None}]
  BY DEF Post, Poll, Held, TypeOK
<1> DEFINE q(receipt, answer) == [pub EXCEPT !.pc = "answered", !.receipt = receipt, !.answer = answer]
<1>2. ASSUME NEW receipt \in Envelope \cup {None}, NEW answer \in Answers
      PROVE  /\ q(receipt, answer) \in Pub /\ q(receipt, answer).pc = "answered"
             /\ q(receipt, answer).range = pub.range /\ q(receipt, answer).envelope = pub.envelope
             /\ q(receipt, answer).receipt = receipt /\ q(receipt, answer).answer = answer
  BY <1>1, <1>2 DEF Pub
<1>3. pub.receipt \in Envelope \cup {None}
  BY <1>1 DEF Pub
<1>4. ASSUME NEW answer \in Answers
      PROVE  [pub EXCEPT !.pc = "answered", !.answer = answer] = q(pub.receipt, answer)
  BY <1>1 DEF Pub
<1> HIDE DEF q
<1>5. CASE Post
  <2>1. UNCHANGED <<pubVars, batch, report, told>>
    BY <1>5 DEF Post
  <2>2. \/ /\ import' = [import EXCEPT ![pub.range] = pub.envelope]
           /\ \/ pub' = q(pub.envelope, "processing") /\ UNCHANGED budget
              \/ Spend("faults") /\ pub' = q(pub.receipt, "lost")
        \/ /\ Spend("faults") /\ UNCHANGED import
           /\ \E answer \in {"busy", "refused"} : pub' = q(pub.receipt, answer)
    <3>1. /\ q(pub.envelope, "processing") =
                [pub EXCEPT !.pc = "answered", !.receipt = pub.envelope, !.answer = "processing"]
      BY DEF q
    <3>2. \A answer \in {"lost", "busy", "refused"} :
             [pub EXCEPT !.pc = "answered", !.answer = answer] = q(pub.receipt, answer)
      BY <1>4 DEF Answers
    <3>. QED
      BY <1>5, <3>1, <3>2 DEF Post
  <2>3. PICK receipt \in {pub.receipt, pub.envelope}, answer \in {"processing", "lost", "busy", "refused"} :
           pub' = q(receipt, answer)
    BY <2>2
  <2>4. /\ pub' \in Pub /\ pub'.pc = "answered" /\ pub'.range = pub.range
        /\ pub'.envelope = pub.envelope /\ pub'.receipt = receipt /\ pub'.answer # "complete"
    <3>1. receipt \in Envelope \cup {None} /\ answer \in Answers /\ answer # "complete"
      BY <1>1, <1>3 DEF Answers
    <3>. QED
      BY <1>2, <2>3, <3>1
  <2>5. /\ import' \in [Ranges -> Envelope \cup {None}]
        /\ \A r \in Ranges \ {pub.range} : import'[r] = import[r]
    BY <1>1, <2>2
  <2>6. budget' \in Budget
    BY <2>2, SpendType DEF TypeOK
  <2>7. TypeOK'
    BY <2>1, <2>4, <2>5, <2>6 DEF TypeOK, pubVars, desiredVars, scopeVars
  <2>8. Asked
    BY <1>1, <2>1, <2>3, <2>4, <2>5 DEF Asked
  <2>. QED
    BY <2>1, <2>7, <2>8 DEF Posted, pubVars, desiredVars, scopeVars
<1>6. CASE Poll
  <2>1. UNCHANGED <<pubVars, batch, report, import, told>> /\ pub.receipt # None
    BY <1>6 DEF Poll
  <2> DEFINE found == IF import[pub.range] = pub.receipt THEN "complete" ELSE "gone"
  <2>2. \/ pub' = [pub EXCEPT !.pc = "answered", !.answer = found] /\ UNCHANGED budget
        \/ /\ Spend("faults")
           /\ \E answer \in {"gone", "failed", "processing", "lost"} :
                 pub' = [pub EXCEPT !.pc = "answered", !.answer = answer]
    BY <1>6 DEF Poll
  <2>3. found \in Answers /\ (found = "complete" => import[pub.range] = pub.receipt)
    BY DEF Answers
  <2> HIDE DEF found
  <2>4. PICK answer \in Answers :
           /\ pub' = [pub EXCEPT !.pc = "answered", !.answer = answer]
           /\ answer = "complete" => import[pub.range] = pub.receipt
    BY <2>2, <2>3 DEF Answers
  <2>5. pub' = q(pub.receipt, answer)
    BY <1>4, <2>4
  <2>6. /\ pub' \in Pub /\ pub'.pc = "answered" /\ pub'.range = pub.range
        /\ pub'.envelope = pub.envelope /\ pub'.receipt = pub.receipt /\ pub'.answer = answer
    BY <1>2, <1>3, <2>5
  <2>7. budget' \in Budget
    BY <2>2, SpendType DEF TypeOK
  <2>8. TypeOK'
    BY <2>1, <2>6, <2>7 DEF TypeOK, pubVars, desiredVars, scopeVars
  <2>9. Asked
    BY <1>1, <2>1, <2>4, <2>6 DEF Asked
  <2>. QED
    BY <2>1, <2>8, <2>9 DEF Posted, pubVars, desiredVars, scopeVars
<1>. QED
  BY <1>5, <1>6

LEMMA CheckStep ==
    ASSUME TypeOK, Held, CheckClaim
    PROVE  TypeOK' /\ Posted /\ (Asked \/ Ended)
<1>1. pub.pc = "claimed" /\ UNCHANGED <<pubVars, report, import, told, budget>>
  BY DEF CheckClaim
<1>2. CASE current
  <2> DEFINE p == [pub EXCEPT !.pc = "checked"]
  <2>1. pub' = p /\ UNCHANGED batch
    BY <1>2 DEF CheckClaim
  <2>2. /\ p \in Pub /\ p.pc = "checked" /\ p.range = pub.range /\ p.envelope = pub.envelope
        /\ p.receipt = pub.receipt
    BY DEF TypeOK, Pub
  <2> HIDE DEF p
  <2>3. Asked
    BY <1>1, <2>1, <2>2 DEF Asked
  <2>. QED
    BY <1>1, <2>1, <2>2, <2>3 DEF TypeOK, Posted, pubVars, desiredVars, scopeVars
<1>3. CASE ~current
  <2>1. pub' = IdlePub /\ release("pending", None, FALSE)
    BY <1>3 DEF CheckClaim
  <2>2. /\ batch' \in [Ranges -> Batch \cup {None}]
        /\ \A r \in Ranges \ {pub.range} : batch'[r] = batch[r]
        /\ UNCHANGED batch \/ Returned(pub.range)
    BY <1>1, <2>1, ReleaseStep
  <2>3. Ended
    BY <1>1, <2>1, <2>2, IdlePubType DEF Ended
  <2>. QED
    BY <1>1, <2>1, <2>2, <2>3, IdlePubType DEF TypeOK, Posted, pubVars, desiredVars, scopeVars
<1>. QED
  BY <1>2, <1>3

LEMMA AnswerStep ==
    ASSUME TypeOK, Held, HandleAnswer
    PROVE  TypeOK' /\ Posted /\ Ended
<1>1. pub.pc = "answered" /\ pub' = IdlePub /\ UNCHANGED <<pubVars, import, told>>
  BY DEF HandleAnswer
<1>2. /\ pub.range \in Ranges /\ pub.envelope \in Envelope /\ pub.receipt \in Envelope \cup {None}
      /\ pub \in Pub /\ pub.mapped \in Nat
  BY <1>1 DEF Held, TypeOK, Pub
<1> DEFINE reporting == report' = record(report, pub.envelope.gen, "rejected", FALSE)
           Done_ == /\ batch' \in [Ranges -> Batch \cup {None}]
                    /\ \A r \in Ranges \ {pub.range} : batch'[r] = batch[r]
                    /\ UNCHANGED batch \/ Returned(pub.range)
                    /\ UNCHANGED report \/ (current /\ reporting)
                    /\ UNCHANGED budget \/ Spend("faults")
<1>3. ASSUME pub.answer = "complete", current, save_references, UNCHANGED <<report, budget>>
      PROVE  Done_
  <2> DEFINE b == batch[pub.range]
             mapped == pub.mapped + 1
             status == IF mapped = Cardinality({s.account : s \in pub.envelope.sources})
                       THEN "complete" ELSE "pending"
             n == [b EXCEPT !.mapped = mapped, !.receipt = pub.receipt, !.status = status,
                            !.leased = FALSE, !.live = FALSE]
  <2>1. Mine /\ b # None /\ b \in Batch
    BY <1>2, <1>3 DEF current, Mine, TypeOK
  <2>2. batch' = [batch EXCEPT ![pub.range] = n]
    BY <1>2, <1>3 DEF save_references, TypeOK
  <2>3. status \in {"complete", "pending"} /\ mapped \in Nat
    BY <1>2
  <2> HIDE DEF status, mapped
  <2>4. /\ n \in Batch
        /\ n.access = b.access /\ n.names = b.names /\ n.sources = b.sources
        /\ n.status = status /\ ~n.leased /\ n.receipt = pub.receipt
    BY <1>2, <2>1, <2>3 DEF Batch
  <2> HIDE DEF n
  <2>5. /\ batch' \in [Ranges -> Batch \cup {None}] /\ batch'[pub.range] = n
        /\ \A r \in Ranges \ {pub.range} : batch'[r] = batch[r]
    BY <1>2, <2>2, <2>4 DEF TypeOK
  <2>6. n # None
    BY <2>4, NullAssumption
  <2>7. Returned(pub.range)
    BY <1>1, <1>3, <2>1, <2>3, <2>4, <2>5, <2>6 DEF Returned
  <2>. QED
    BY <1>3, <2>5, <2>7
<1>4. ASSUME NEW receipt \in {None, pub.receipt}, NEW reset \in BOOLEAN,
             release("pending", receipt, reset), UNCHANGED report,
             UNCHANGED budget \/ Spend("faults")
      PROVE  Done_
  BY <1>1, <1>4, ReleaseStep
<1>5. ASSUME fail(pub.receipt), UNCHANGED budget
      PROVE  Done_
  <2>1. CASE current
    <3>1. release("failed", pub.receipt, FALSE) /\ reporting
      BY <1>5, <2>1 DEF fail
    <3>. QED
      BY <1>1, <1>5, <2>1, <3>1, ReleaseStep
  <2>2. CASE ~current
    <3>1. release("pending", None, FALSE) /\ UNCHANGED report
      BY <1>5, <2>2 DEF fail
    <3>. QED
      BY <1>4, <1>5, <3>1
  <2>. QED
    BY <2>1, <2>2
<1>6. Done_
  <2> HIDE DEF Done_
  <2>. QED
    BY <1>3, <1>4, <1>5 DEF HandleAnswer
<1>7. report' \in Report \cup {None} /\ budget' \in Budget
  <2>1. pub.envelope.gen \in Nat
    BY <1>2 DEF Envelope
  <2>2. report' \in Report \cup {None}
    BY <1>6, <2>1, Reports DEF TypeOK, Codes
  <2>. QED
    BY <1>6, <2>2, SpendType DEF TypeOK
<1>8. TypeOK'
  BY <1>1, <1>6, <1>7, IdlePubType DEF TypeOK, pubVars, desiredVars, scopeVars
<1>9. Ended
  BY <1>1, <1>6, IdlePubType DEF Ended
<1>. QED
  BY <1>1, <1>8, <1>9 DEF Posted, pubVars, desiredVars, scopeVars

LEMMA AgeStep ==
    ASSUME TypeOK, NEW r \in Ranges, ExpirePublication(r)
    PROVE  TypeOK' /\ Posted /\ Aged(r)
<1> DEFINE b == batch[r]
           n == [b EXCEPT !.live = FALSE]
<1>1. b # None /\ b \in Batch /\ UNCHANGED <<pubVars, report, pub, import, told>>
  BY DEF ExpirePublication, TypeOK
<1>2. batch' = [batch EXCEPT ![r] = n]
  BY DEF ExpirePublication, TypeOK
<1>3. budget' \in Budget
  BY SpendType DEF ExpirePublication, TypeOK
<1>4. /\ n \in Batch
      /\ n.access = b.access /\ n.names = b.names /\ n.sources = b.sources
      /\ n.status = b.status /\ n.leased = b.leased /\ n.receipt = b.receipt
  BY <1>1 DEF Batch
<1> HIDE DEF n
<1>5. /\ batch' \in [Ranges -> Batch \cup {None}] /\ batch'[r] = n
      /\ \A q \in Ranges \ {r} : batch'[q] = batch[q]
  BY <1>2, <1>4 DEF TypeOK
<1>6. n # None
  BY <1>4, NullAssumption
<1>7. Aged(r)
  BY <1>1, <1>4, <1>5, <1>6 DEF Aged
<1>. QED
  BY <1>1, <1>3, <1>5, <1>7 DEF TypeOK, Posted, pubVars, desiredVars, scopeVars

LEMMA PublishSteps ==
    ASSUME TypeOK, Held, Publish \/ \E r \in Ranges : ExpirePublication(r)
    PROVE  /\ TypeOK' /\ Posted
           /\ \/ \E r \in Ranges : Taken(r)
              \/ Asked
              \/ Ended
              \/ \E r \in Ranges : Aged(r)
<1>1. CASE \E r \in Ranges, admission \in BOOLEAN : claim(r, admission)
  BY <1>1, TakeStep
<1>2. CASE CheckClaim
  BY <1>2, CheckStep
<1>3. CASE Post \/ Poll
  BY <1>3, AskStep
<1>4. CASE HandleAnswer
  BY <1>4, AnswerStep
<1>5. CASE \E r \in Ranges : ExpirePublication(r)
  BY <1>5, AgeStep
<1>. QED
  BY <1>1, <1>2, <1>3, <1>4, <1>5 DEF Publish

-----------------------------------------------------------------------------
(* Failure reports, and restarts *)

Telling(first) ==
    /\ ScopeCurrent(report) /\ first \in ScopeAccounts(scope) /\ report.after < first
    /\ \A a \in ScopeAccounts(scope) : report.after < a => first <= a
    /\ told' = told \cup {<<first, desired[first].gen, report.code>>}
    /\ report' \in Report /\ report'.gen = report.gen /\ report'.code = report.code
    /\ report'.after = first /\ ~report'.complete

Told ==
    /\ ScopeCurrent(report) /\ \A a \in ScopeAccounts(scope) : a <= report.after
    /\ told' = told
    /\ report' \in Report /\ report'.gen = report.gen /\ report'.code = report.code
    /\ report'.after = report.after

Retired ==
    /\ ~ScopeCurrent(report) \/ report.code = "capture_timeout"
    /\ report' = None /\ told' = told

LEMMA FlushStep ==
    ASSUME TypeOK, FlushReport
    PROVE  /\ TypeOK'
           /\ UNCHANGED <<desiredVars, scopeVars, job, worker, pass, cache, people, noticed,
                          batch, pub, import, budget>>
           /\ report # None
           /\ Retired \/ Told \/ \E a \in Accounts : Telling(a)
<1> DEFINE solved == /\ report.code = "capture_timeout"
                     /\ \A a \in ScopeAccounts(scope) : ~job[a].timeout
           later == LaterAccounts
<1>1. /\ report # None /\ ~report.complete
      /\ UNCHANGED <<pubVars, batch, pub, import, budget>>
  BY DEF FlushReport
<1>2. report \in Report
  BY <1>1 DEF TypeOK
<1>3. \/ (~ScopeCurrent(report) \/ solved) /\ report' = None /\ UNCHANGED told
      \/ /\ ScopeCurrent(report)
         /\ \/ later = {} /\ report' = [report EXCEPT !.complete = TRUE] /\ UNCHANGED told
            \/ /\ later # {}
               /\ told' = told \cup {<<Min(later), desired[Min(later)].gen, report.code>>}
               /\ report' = [report EXCEPT !.after = Min(later)]
  BY DEF FlushReport
<1>4. ScopeCurrent(report) => scope # None /\ scope \in Scope
  BY DEF ScopeCurrent, FingerprintCurrent, TypeOK
<1>5. ScopeCurrent(report) => later \subseteq Accounts /\ ScopeAccounts(scope) \subseteq Accounts
  BY <1>4, FiniteScope DEF LaterAccounts
<1>6. CASE (~ScopeCurrent(report) \/ solved) /\ report' = None /\ UNCHANGED told
  BY <1>1, <1>6 DEF TypeOK, Retired, pubVars, desiredVars, scopeVars
<1>7. CASE /\ ScopeCurrent(report)
           /\ later = {} /\ report' = [report EXCEPT !.complete = TRUE] /\ UNCHANGED told
  <2>1. /\ report' \in Report /\ report'.gen = report.gen /\ report'.code = report.code
        /\ report'.after = report.after /\ report.after \in Nat
    BY <1>2, <1>7 DEF Report
  <2>2. \A a \in ScopeAccounts(scope) : a <= report.after
    <3> TAKE a \in ScopeAccounts(scope)
    <3>1. a \in Nat /\ ~(a > report.after)
      BY <1>5, <1>7, Finite DEF LaterAccounts
    <3>. QED
      BY <2>1, <3>1
  <2>3. Told
    BY <1>7, <2>1, <2>2 DEF Told
  <2>. QED
    BY <1>1, <1>7, <2>1, <2>3 DEF TypeOK, pubVars, desiredVars, scopeVars
<1>8. CASE /\ ScopeCurrent(report)
           /\ later # {}
           /\ told' = told \cup {<<Min(later), desired[Min(later)].gen, report.code>>}
           /\ report' = [report EXCEPT !.after = Min(later)]
  <2> DEFINE first == Min(later)
  <2>1. later \in SUBSET Nat
    BY <1>5, <1>8, Finite
  <2>2. first \in later /\ \A a \in later : first <= a
    BY <1>8, <2>1, Least
  <2>3. /\ first \in Accounts /\ first \in Nat /\ first \in ScopeAccounts(scope)
        /\ report.after < first
    BY <1>5, <1>8, <2>1, <2>2, <1>2 DEF LaterAccounts, Report
  <2>4. \A a \in ScopeAccounts(scope) : report.after < a => first <= a
    <3> TAKE a \in ScopeAccounts(scope)
    <3> HAVE report.after < a
    <3>1. a \in later
      BY <1>2, <1>5, <1>8, Finite DEF LaterAccounts, Report
    <3>. QED
      BY <2>2, <3>1
  <2> HIDE DEF first
  <2>5. /\ report' \in Report /\ report'.gen = report.gen /\ report'.code = report.code
        /\ report'.after = first /\ ~report'.complete /\ report.code \in Codes
    BY <1>1, <1>2, <1>8, <2>3 DEF Report, first
  <2>6. told' = told \cup {<<first, desired[first].gen, report.code>>}
    BY <1>8 DEF first
  <2>7. told' \subseteq Accounts \X Nat \X Codes
    <3>1. desired[first].gen \in Nat
      BY <2>3 DEF TypeOK, Desired
    <3>. QED
      BY <2>3, <2>5, <2>6, <3>1 DEF TypeOK
  <2>8. Telling(first)
    BY <1>8, <2>3, <2>4, <2>5, <2>6 DEF Telling
  <2>. QED
    BY <1>1, <2>3, <2>5, <2>7, <2>8 DEF TypeOK, pubVars, desiredVars, scopeVars
<1>. QED
  BY <1>3, <1>6, <1>7, <1>8

LEMMA CrashStep ==
    ASSUME TypeOK, Crash
    PROVE  /\ TypeOK'
           /\ UNCHANGED <<desiredVars, scopeVars, job, batch, report, people, import, told, noticed>>
           /\ \A w \in Workers : worker'[w] = None
           /\ pass' = None /\ pub'.pc = "idle"
<1>1. budget' \in Budget
  BY SpendType DEF Crash, TypeOK
<1>. QED
  BY <1>1, IdlePubType DEF Crash, TypeOK, desiredVars, scopeVars

-----------------------------------------------------------------------------
(* The steps, by what they change *)

Wishing ==
    /\ UNCHANGED <<config, scope, batch, report, worker, pass, pub, people, import, told, noticed>>
    /\ \A a \in Accounts : Later(desired[a], desired'[a])
    /\ \A a \in Accounts :
          \/ Reopened(job[a], job'[a])
          \/ Dropped(job[a], job'[a]) /\ desired[a].gen < desired'[a].gen

Renewing ==
    /\ UNCHANGED <<desired, job, batch, worker, pass, pub, people, import, told>>
    /\ config'.gen = config.gen + 1 /\ noticed' = people
    /\ scope = None => scope' = None /\ report' = report
    /\ scope # None =>
          /\ scope' \in Scope
          /\ scope'.gen = config'.gen /\ scope'.sources = scope.sources /\ scope'.pending
          /\ scope'.account = 0 /\ scope'.cursor = 0
          /\ report' = None \/ Carried(report, report', scope'.gen)

Reconciling ==
    /\ UNCHANGED <<desired, worker, pass, pub, people, import, told, noticed>>
    /\ Restamped \/ Rebuilt \/ Preserved \/ Settled

Capturing ==
    /\ UNCHANGED <<desired, config, scope, pass, pub, people, import, told, noticed>>
    /\ \/ Quiet
       \/ \E w \in Workers, a \in Accounts : Claimed(w, a)
       \/ \E w \in Workers : Saved(w, worker[w])

Directing ==
    /\ UNCHANGED <<desired, config, job, worker, pub, people, import, told, noticed>>
    /\ \/ Prepared
       \/ /\ pass' = None
          /\ \/ UNCHANGED <<scope, batch, report>>
             \/ pass # None /\ (Refreshing \/ Rewriting \/ Acknowledged) /\ UNCHANGED report
             \/ Deferred /\ UNCHANGED batch

Publishing ==
    /\ UNCHANGED <<desired, config, scope, job, worker, pass, people, noticed>>
    /\ \/ \E r \in Ranges : Taken(r)
       \/ Asked
       \/ Ended
       \/ \E r \in Ranges : Aged(r)

Flushing ==
    /\ UNCHANGED <<desired, config, scope, job, worker, pass, people, noticed, batch, pub, import>>
    /\ report # None
    /\ Retired \/ Told \/ \E a \in Accounts : Telling(a)

Crashing ==
    /\ UNCHANGED <<desired, config, scope, job, batch, report, people, import, told, noticed>>
    /\ \A w \in Workers : worker'[w] = None
    /\ pass' = None /\ pub'.pc = "idle"

Resting ==
    /\ UNCHANGED <<desired, config, scope, job, batch, report, worker, pass, pub, import, told,
                   noticed>>
    /\ people' \in Nat /\ people <= people'

Stepping ==
    \/ Wishing \/ Renewing \/ Reconciling \/ Capturing \/ Directing \/ Publishing
    \/ Flushing \/ Crashing \/ Resting

LEMMA StepKinds ==
    ASSUME TypeOK, Held, [Next]_vars
    PROVE  TypeOK' /\ Stepping
<1> DEFINE Kinds == TypeOK' /\ (\/ Wishing \/ Renewing \/ Reconciling \/ Capturing \/ Directing
                               \/ Publishing \/ Flushing \/ Crashing \/ Resting)
<1> SUFFICES Kinds
  BY DEF Stepping
<1>1. CASE Desiring
  <2>1. TypeOK' /\ Wishing
    BY <1>1, DesiringStep DEF Wishing, scopeVars
  <2>. QED
    BY <2>1
<1>2. CASE Invalidating
  <2>1. TypeOK' /\ Renewing
    BY <1>2, InvalidatingStep DEF Renewing, desiredVars
  <2>. QED
    BY <2>1
<1>3. CASE reconcile_backfill_jobs
  <2>1. TypeOK' /\ Reconciling
    BY <1>3, ReconcileStep DEF Reconciling, desiredVars
  <2>. QED
    BY <2>1
<1>4. CASE \/ \E w \in Workers : Capture(w)
           \/ Reap \/ \E a \in Accounts : ExpireCapture(a)
  <2>1. TypeOK' /\ Capturing
    BY <1>4, CaptureSteps DEF Capturing, captureVars, desiredVars, scopeVars
  <2>. QED
    BY <2>1
<1>5. CASE PrepareQuantum
  <2>1. TypeOK' /\ Directing
    BY <1>5, PrepareStep DEF Directing, Directed
  <2>. QED
    BY <2>1
<1>6. CASE ApplyQuantum
  <2>1. TypeOK' /\ Directing
    BY <1>6, ApplyStep DEF Directing, Directed
  <2>. QED
    BY <2>1
<1>7. CASE QuantumTimesOut
  <2>1. TypeOK' /\ Directing
    BY <1>7, QuantumTimeoutStep DEF Directing, Directed
  <2>. QED
    BY <2>1
<1>8. CASE Publish \/ \E r \in Ranges : ExpirePublication(r)
  <2>1. TypeOK' /\ Publishing
    BY <1>8, PublishSteps DEF Publishing, Posted
  <2>. QED
    BY <2>1
<1>9. CASE FlushReport
  <2>1. TypeOK' /\ Flushing
    BY <1>9, FlushStep DEF Flushing, desiredVars, scopeVars
  <2>. QED
    BY <2>1
<1>10. CASE Crash
  <2>1. TypeOK' /\ Crashing
    BY <1>10, CrashStep DEF Crashing, desiredVars, scopeVars
  <2>. QED
    BY <2>1
<1>11. CASE Rename
  <2>1. people' = people + 1 /\ people \in Nat
    BY <1>11 DEF Rename, TypeOK
  <2>2. TypeOK' /\ Resting
    BY <1>11, <2>1, RenameStep DEF Resting, desiredVars, scopeVars
  <2>. QED
    BY <2>2
<1>12. CASE UNCHANGED vars
  <2>1. TypeOK' /\ Resting
    BY <1>12 DEF vars, TypeOK, Resting, desiredVars, scopeVars
  <2>. QED
    BY <2>1
<1>13. Next => \/ Desiring \/ Invalidating \/ reconcile_backfill_jobs
               \/ \E w \in Workers : Capture(w)
               \/ Reap \/ \E a \in Accounts : ExpireCapture(a)
               \/ PrepareQuantum \/ ApplyQuantum \/ QuantumTimesOut
               \/ Publish \/ \E r \in Ranges : ExpirePublication(r)
               \/ FlushReport \/ Crash \/ Rename
  BY DEF Next, Desiring, Invalidating
<1> HIDE DEF Kinds
<1>. QED
  BY <1>1, <1>2, <1>3, <1>4, <1>5, <1>6, <1>7, <1>8, <1>9, <1>10, <1>11, <1>12, <1>13

-----------------------------------------------------------------------------
(* Generations only grow. *)

InGenerations ==
    /\ scope # None => scope.gen <= config.gen
    /\ scope = None => report = None
    /\ report # None => report.gen <= config.gen
    /\ \A w \in Workers : worker[w] # None /\ worker[w].pc # "fetched" =>
          scope # None /\ worker[w].scope <= config.gen
    /\ pass # None => scope # None /\ pass.scope.gen <= config.gen
    /\ pub.pc # "idle" => scope # None /\ pub.envelope.gen <= config.gen

LEMMA HeldStep ==
    ASSUME TypeOK, TypeOK', Held, Stepping
    PROVE  Held'
<1>1. CASE UNCHANGED <<pass, pub>>
  BY <1>1 DEF Held
<1>2. CASE Directing
  BY <1>2 DEF Held, Directing, Prepared
<1>3. CASE Publishing
  <2>0. pass' = pass
    BY <1>3 DEF Publishing
  <2>1. CASE \E r \in Ranges : Taken(r)
    <3>1. PICK r \in Ranges : Taken(r)
      BY <2>1
    <3>2. scope.gen \in Nat /\ batch[r].access \in SUBSET Accounts /\ batch[r].names \in Nat
      BY <3>1 DEF Taken, TypeOK, FingerprintCurrent, Scope, Batch
    <3>3. sources_for \in SUBSET ImportSource
      BY ImportSources
    <3>. QED
      BY <2>0, <3>1, <3>2, <3>3 DEF Held, Taken, Envelope
  <2>2. CASE Asked
    BY <2>0, <2>2 DEF Held, Asked
  <2>3. CASE Ended
    BY <2>0, <2>3 DEF Held, Ended
  <2>4. CASE \E r \in Ranges : Aged(r)
    BY <2>0, <2>4 DEF Held, Aged
  <2>. QED
    BY <1>3, <2>1, <2>2, <2>3, <2>4 DEF Publishing
<1>4. CASE Crashing
  BY <1>4 DEF Held, Crashing
<1>. QED
  BY <1>1, <1>2, <1>3, <1>4
  DEF Stepping, Wishing, Renewing, Reconciling, Capturing, Flushing, Resting

LEMMA GenerationsStep ==
    ASSUME TypeOK, TypeOK', Held, InGenerations, Stepping
    PROVE  InGenerations'
<1>0. /\ config.gen \in Nat /\ config'.gen \in Nat
      /\ scope # None => scope.gen \in Nat
      /\ scope' # None => scope'.gen \in Nat
      /\ report # None => report.gen \in Nat
      /\ \A w \in Workers : worker[w] # None => worker[w].scope \in Nat
      /\ pass # None => pass.scope.gen \in Nat
      /\ pub.pc # "idle" => pub.envelope.gen \in Nat
      /\ report \in Report \cup {None} /\ None \notin Scope
  BY NullAssumption DEF TypeOK, Held, Scope, Report, Claim, Pass, Envelope
<1>1. CASE Wishing
  BY <1>1 DEF Wishing, InGenerations
<1>2. CASE Renewing
  <2>1. scope' # None <=> scope # None
    BY <1>0, <1>2 DEF Renewing
  <2>2. config'.gen = config.gen + 1 /\ UNCHANGED <<worker, pass, pub>>
    BY <1>2 DEF Renewing
  <2>3. report' # None => scope # None /\ report'.gen <= config'.gen
    BY <1>0, <1>2, <2>2 DEF Renewing, Carried, InGenerations
  <2>4. scope' # None => scope'.gen <= config'.gen
    BY <1>0, <1>2 DEF Renewing
  <2>5. \A w \in Workers : worker'[w] # None /\ worker'[w].pc # "fetched" =>
           scope' # None /\ worker'[w].scope <= config'.gen
    BY <1>0, <2>1, <2>2 DEF InGenerations
  <2>6. pass' # None => scope' # None /\ pass'.scope.gen <= config'.gen
    BY <1>0, <2>1, <2>2 DEF InGenerations
  <2>7. pub'.pc # "idle" => scope' # None /\ pub'.envelope.gen <= config'.gen
    BY <1>0, <2>1, <2>2 DEF InGenerations
  <2>. QED
    BY <2>1, <2>3, <2>4, <2>5, <2>6, <2>7 DEF InGenerations
<1>3. CASE Reconciling
  <2>1. /\ UNCHANGED <<worker, pass, pub>> /\ config.gen <= config'.gen
        /\ scope # None => scope' # None
    BY <1>0, <1>3 DEF Reconciling, Restamped, Rebuilt, Preserved, Settled
  <2>2. scope' # None => scope'.gen <= config'.gen
    BY <1>0, <1>3 DEF Reconciling, Restamped, Rebuilt, Preserved, Settled, InGenerations
  <2>3. scope' = None => report' = None
    <3>1. CASE Restamped
      BY <1>0, <3>1 DEF Restamped
    <3>2. CASE Rebuilt \/ Preserved
      BY <1>0, <3>2 DEF Rebuilt, Preserved
    <3>3. CASE Settled
      BY <3>3 DEF Settled, InGenerations
    <3>. QED
      BY <1>3, <3>1, <3>2, <3>3 DEF Reconciling
  <2>4. report' # None => report'.gen <= config'.gen
    BY <1>0, <1>3 DEF Reconciling, Restamped, Rebuilt, Preserved, Settled, Carried, InGenerations
  <2>5. \A w \in Workers : worker'[w] # None /\ worker'[w].pc # "fetched" =>
           scope' # None /\ worker'[w].scope <= config'.gen
    BY <1>0, <2>1 DEF InGenerations
  <2>6. pass' # None => scope' # None /\ pass'.scope.gen <= config'.gen
    BY <1>0, <2>1 DEF InGenerations
  <2>7. pub'.pc # "idle" => scope' # None /\ pub'.envelope.gen <= config'.gen
    BY <1>0, <2>1 DEF InGenerations
  <2>. QED
    BY <2>2, <2>3, <2>4, <2>5, <2>6, <2>7 DEF InGenerations
<1>4. CASE Capturing
  <2>1. UNCHANGED <<config, scope, pass, pub>>
    BY <1>4 DEF Capturing
  <2>2. /\ scope' = None => report' = None
        /\ report' # None => report'.gen <= config'.gen
    <3>1. CASE report' = report
      BY <2>1, <3>1 DEF InGenerations
    <3>2. CASE scope # None /\ report' = record(report, scope.gen, "capture_timeout", TRUE)
      <4>2. record(report, scope.gen, "capture_timeout", TRUE) = report
            \/ record(report, scope.gen, "capture_timeout", TRUE).gen = scope.gen
        BY DEF record, NewReport
      <4>3. report' = report \/ report'.gen = scope.gen
        BY <3>2, <4>2
      <4>. QED
        BY <1>0, <2>1, <3>2, <4>3 DEF InGenerations
    <3>. QED
      BY <1>4, <3>1, <3>2 DEF Capturing, Quiet, Claimed, Saved
  <2>3. \A w \in Workers : worker'[w] # None /\ worker'[w].pc # "fetched" =>
           scope' # None /\ worker'[w].scope <= config'.gen
    <3>1. SUFFICES ASSUME NEW w \in Workers, worker'[w] # None, worker'[w].pc # "fetched"
                   PROVE  scope # None /\ worker'[w].scope <= config.gen
      BY <2>1
    <3>2. CASE worker'[w] = worker[w]
      BY <3>1, <3>2 DEF InGenerations
    <3>3. CASE worker[w] # None /\ Continued(worker[w], worker'[w])
      BY <1>0, <3>3 DEF Continued, InGenerations
    <3>. QED
      BY <1>4, <3>1, <3>2, <3>3 DEF Capturing, Quiet, Claimed, Saved
  <2>. QED
    BY <2>1, <2>2, <2>3 DEF InGenerations
<1>5. CASE Directing
  <2>1. UNCHANGED <<config, worker, pub>>
    BY <1>5 DEF Directing
  <2>2. /\ scope' = None <=> scope = None
        /\ scope # None => scope'.gen = scope.gen
    BY <1>0, <1>5 DEF Directing, Prepared, Refreshing, Rewriting, Acknowledged, Deferred,
                      PassCurrent
  <2>3. /\ scope' = None => report' = None
        /\ report' # None => report'.gen <= config'.gen
    <3>1. CASE report' = report
      BY <2>1, <2>2, <3>1 DEF InGenerations
    <3>2. CASE scope # None /\ report' = record(report, scope.gen, "directory_timeout", FALSE)
      <4>2. record(report, scope.gen, "directory_timeout", FALSE) = report
            \/ record(report, scope.gen, "directory_timeout", FALSE).gen = scope.gen
        BY DEF record, NewReport
      <4>3. report' = report \/ report'.gen = scope.gen
        BY <3>2, <4>2
      <4>. QED
        BY <1>0, <2>1, <2>2, <3>2, <4>3 DEF InGenerations
    <3>. QED
      BY <1>5, <3>1, <3>2 DEF Directing, Prepared, Deferred, PassCurrent
  <2>4. pass' # None => scope' # None /\ pass'.scope.gen <= config'.gen
    BY <1>0, <1>5, <2>1 DEF Directing, Prepared, InGenerations
  <2>. QED
    BY <2>1, <2>2, <2>3, <2>4 DEF InGenerations
<1>6. CASE Publishing
  <2>1. UNCHANGED <<config, scope, worker, pass>>
    BY <1>6 DEF Publishing
  <2>2. /\ scope' = None => report' = None
        /\ report' # None => report'.gen <= config'.gen
    <3>1. CASE report' = report
      BY <2>1, <3>1 DEF InGenerations
    <3>2. CASE scope # None /\ pub.pc # "idle"
               /\ report' = record(report, pub.envelope.gen, "rejected", FALSE)
      <4>2. record(report, pub.envelope.gen, "rejected", FALSE).gen = pub.envelope.gen
        BY DEF record, NewReport
      <4>3. report'.gen = pub.envelope.gen
        BY <3>2, <4>2
      <4>. QED
        BY <1>0, <2>1, <3>2, <4>3 DEF InGenerations
    <3>. QED
      BY <1>6, <3>1, <3>2 DEF Publishing, Taken, Asked, Ended, Aged, current, FingerprintCurrent
  <2>3. pub'.pc # "idle" => scope' # None /\ pub'.envelope.gen <= config'.gen
    <3>1. CASE \E r \in Ranges : Taken(r)
      BY <1>0, <2>1, <3>1 DEF Taken, FingerprintCurrent, InGenerations
    <3>. QED
      BY <1>6, <2>1, <3>1 DEF Publishing, Asked, Ended, Aged, InGenerations
  <2>. QED
    BY <2>1, <2>2, <2>3 DEF InGenerations
<1>7. CASE Flushing
  BY <1>0, <1>7 DEF Flushing, Retired, Told, Telling, InGenerations
<1>8. CASE Crashing
  BY <1>8 DEF Crashing, InGenerations
<1>9. CASE Resting
  BY <1>9 DEF Resting, InGenerations
<1>. QED
  BY <1>1, <1>2, <1>3, <1>4, <1>5, <1>6, <1>7, <1>8, <1>9 DEF Stepping

-----------------------------------------------------------------------------
(* The sources of the scope and the jobs of their accounts *)

LEMMA SourcesKept ==
    ASSUME TypeOK, TypeOK', Stepping
    PROVE  /\ \A a \in Accounts : Later(desired[a], desired'[a])
           /\ scope' = None => scope = None
           /\ scope' # None =>
                 \/ scope # None /\ scope'.sources = scope.sources
                 \/ desired' = desired /\ scope'.sources = sources
<1>0. /\ \A a \in Accounts : desired[a].gen \in Nat /\ desired[a].agen \in Nat
      /\ None \notin Scope
  BY NullAssumption DEF TypeOK, Desired
<1>1. CASE UNCHANGED <<desired, scope>>
  BY <1>0, <1>1 DEF Later
<1>2. CASE Wishing
  BY <1>2 DEF Wishing
<1>3. CASE Renewing
  BY <1>0, <1>3 DEF Renewing, Later
<1>4. CASE Reconciling
  <2>1. desired' = desired
    BY <1>4 DEF Reconciling
  <2>2. \A a \in Accounts : Later(desired[a], desired'[a])
    BY <1>0, <2>1 DEF Later
  <2>3. CASE Restamped \/ Rebuilt \/ Preserved
    BY <1>0, <2>1, <2>2, <2>3 DEF Restamped, Rebuilt, Preserved
  <2>4. CASE Settled
    BY <2>2, <2>4 DEF Settled
  <2>. QED
    BY <1>4, <2>3, <2>4 DEF Reconciling
<1>5. CASE Directing
  <2>1. desired' = desired
    BY <1>5 DEF Directing
  <2>2. \A a \in Accounts : Later(desired[a], desired'[a])
    BY <1>0, <2>1 DEF Later
  <2>3. CASE scope' = scope
    BY <2>2, <2>3
  <2>4. CASE Refreshing \/ Rewriting \/ Acknowledged \/ Deferred
    BY <1>0, <2>2, <2>4 DEF Refreshing, Rewriting, Acknowledged, Deferred, PassCurrent
  <2>. QED
    BY <1>5, <2>3, <2>4 DEF Directing, Prepared
<1>. QED
  BY <1>1, <1>2, <1>3, <1>4, <1>5
  DEF Stepping, Capturing, Publishing, Flushing, Crashing, Resting

LEMMA UpsertedJob ==
    ASSUME NEW j \in Job, NEW d \in Desired
    PROVE  LET k == Upserted(j, d)
               c == Upserted(Cancelled(j), d)
           IN  /\ k.anchor \in {0, j.anchor} /\ c.anchor \in {0, j.anchor}
               /\ k.state = "running" => k = j
               /\ c.state # "running"
               /\ k.depth = j.depth \/ k.anchor = 0
               /\ c.depth = j.depth \/ c.anchor = 0
               /\ k.state \in {"absent", "complete"} => k = j \/ k.anchor = 0
               /\ c.state \in {"absent", "complete"} => c = j \/ c.anchor = 0
               /\ k.state = "complete" => k = j \/ k.depth = "new"
               /\ k.state # "absent" \/ ~d.selected
               /\ d.selected /\ j.state = "complete" /\ j.depth = d.depth => k = j
<1>1. Cancelled(j) = j \/ (Cancelled(j).anchor = 0 /\ Cancelled(j).depth = j.depth
                          /\ Cancelled(j).state = "cancelled" /\ Cancelled(j) \in Job)
  BY JobRows DEF Cancelled, Job
<1>2. Cancelled(j) \in Job /\ Cancelled(j).state \in {"absent", "cancelled"}
  BY JobRows
<1>3. ASSUME NEW i \in Job
      PROVE  LET k == Upserted(i, d)
             IN  /\ k.anchor \in {0, i.anchor}
                 /\ k.state = "running" => k = i
                 /\ k.depth = i.depth \/ k.anchor = 0
                 /\ k.state \in {"absent", "complete"} => k = i \/ k.anchor = 0
                 /\ k.state = "complete" => k = i \/ k.depth = "new"
                 /\ k.state # "absent" \/ ~d.selected
                 /\ d.selected /\ i.state = "complete" /\ i.depth = d.depth => k = i
                 /\ i.state \in {"absent", "cancelled"} => k.state # "running"
  <2>1. CASE ~d.selected
    BY <2>1 DEF Upserted, Job
  <2>2. CASE d.selected
    BY <2>2 DEF Upserted, Job, Desired, Depths
  <2>. QED
    BY <2>1, <2>2 DEF Desired
<1>. QED
  BY <1>1, <1>2, <1>3

InSources ==
    scope # None =>
        /\ \A s \in scope.sources : /\ s.gen <= desired[s.account].gen
                                    /\ s.agen <= desired[s.account].agen
        /\ \A s, t \in scope.sources : s.account = t.account => s = t

Anchored(j) == j.state \in {"absent", "complete"} \/ j.depth = "recent" => j.anchor = 0

(* Before there is a scope, nothing is captured. *)
Unstarted(j) == j.anchor = 0 /\ (j.state = "complete" => j.depth = "new")

InJobs ==
    /\ \A a \in Accounts : Anchored(job[a])
    /\ scope = None => /\ \A r \in Ranges : batch[r] = None
                       /\ \A a \in Accounts : Unstarted(job[a])
    /\ scope # None =>
          \A s \in scope.sources :
              /\ job[s.account].depth = s.depth
              /\ desired[s.account].gen = s.gen =>
                    job[s.account].state \notin {"absent", "cancelled"}

InClaims ==
    \A w \in Workers : worker[w] # None /\ Holds(w, worker[w]) =>
        LET c == worker[w]
            j == job[c.account]
        IN  /\ c.range = IF j.anchor = 0 THEN Newest ELSE j.anchor
            /\ c.complete <=> c.range = 1 \/ j.depth = "recent"

LEMMA SourcesStep ==
    ASSUME TypeOK, TypeOK', InSources, Stepping
    PROVE  InSources'
<1>0. /\ scope # None => scope.sources \in SUBSET Source
      /\ \A a \in Accounts : desired[a].gen \in Nat /\ desired[a].agen \in Nat
                             /\ desired'[a].gen \in Nat /\ desired'[a].agen \in Nat
  BY DEF TypeOK, Desired, Scope
<1>1. CASE scope' = None
  BY <1>1 DEF InSources
<1>2. CASE scope # None /\ scope' # None /\ scope'.sources = scope.sources
  <2>1. \A s \in scope.sources : s.account \in Accounts /\ s.gen \in Nat /\ s.agen \in Nat
    BY <1>0, <1>2 DEF Source
  <2>2. \A a \in Accounts : Later(desired[a], desired'[a])
    BY SourcesKept
  <2>. QED
    BY <1>0, <1>2, <2>1, <2>2 DEF InSources, Later
<1>3. CASE desired' = desired /\ scope' # None /\ scope'.sources = sources
  <2>1. \A s \in sources : s.account \in Accounts
    BY SourceRows DEF Source
  <2>. QED
    BY <1>0, <1>3, <2>1, SourceRows DEF InSources
<1>. QED
  BY <1>1, <1>2, <1>3, SourcesKept

LEMMA ReconciledJobs ==
    ASSUME TypeOK, Reconciling, NEW a \in Accounts
    PROVE  /\ job'[a].anchor \in {0, job[a].anchor}
           /\ job'[a].state = "running" => job'[a] = job[a]
           /\ Anchored(job[a]) => Anchored(job'[a])
           /\ Unstarted(job[a]) => Unstarted(job'[a])
           /\ desired[a].selected =>
                 /\ job'[a].depth = desired[a].depth
                 /\ job'[a].state \notin {"absent", "cancelled"}
<1>0. job[a] \in Job /\ desired[a] \in Desired
  BY DEF TypeOK
<1>1. Cancelled(job[a]) \in Job
  BY <1>0, JobRows
<1>2. \/ job'[a] = Upserted(job[a], desired[a])
      \/ job'[a] = Upserted(Cancelled(job[a]), desired[a])
  BY DEF Reconciling, Restamped, Rebuilt, Preserved, Settled
<1>3. CASE job'[a] = Upserted(job[a], desired[a])
  <2> DEFINE k == Upserted(job[a], desired[a])
  <2>1. /\ k.anchor \in {0, job[a].anchor}
        /\ k.state = "running" => k = job[a]
        /\ k.depth = job[a].depth \/ k.anchor = 0
        /\ k.state \in {"absent", "complete"} => k = job[a] \/ k.anchor = 0
        /\ k.state = "complete" => k = job[a] \/ k.depth = "new"
    BY <1>0, UpsertedJob
  <2>2. desired[a].selected => /\ k.depth = desired[a].depth
                               /\ k.state \notin {"absent", "cancelled"}
    BY <1>0, JobRows
  <2> HIDE DEF k
  <2>. QED
    BY <1>3, <2>1, <2>2 DEF Anchored, Unstarted, k
<1>4. CASE job'[a] = Upserted(Cancelled(job[a]), desired[a])
  <2> DEFINE k == Upserted(Cancelled(job[a]), desired[a])
  <2>1. /\ k.anchor \in {0, job[a].anchor}
        /\ k.state # "running"
        /\ k.depth = job[a].depth \/ k.anchor = 0
        /\ k.state \in {"absent", "complete"} => k = job[a] \/ k.anchor = 0
    BY <1>0, UpsertedJob
  <2>2. desired[a].selected => /\ k.depth = desired[a].depth
                               /\ k.state \notin {"absent", "cancelled"}
    BY <1>0, <1>1, JobRows
  <2>3. k.state = "complete" => k.depth = "new" \/ k = Cancelled(job[a])
    BY <1>0, <1>1, UpsertedJob
  <2>4. Cancelled(job[a]).state \in {"absent", "cancelled"}
    BY <1>0, JobRows
  <2> HIDE DEF k
  <2>. QED
    BY <1>4, <2>1, <2>2, <2>3, <2>4 DEF Anchored, Unstarted, k
<1>. QED
  BY <1>2, <1>3, <1>4

LEMMA ClaimsStep ==
    ASSUME TypeOK, TypeOK', InClaims, Stepping
    PROVE  InClaims'
<1> DEFINE Bound(c, j) == /\ c.range = IF j.anchor = 0 THEN Newest ELSE j.anchor
                          /\ c.complete <=> c.range = 1 \/ j.depth = "recent"
<1>0. /\ \A w \in Workers : worker[w] # None => worker[w].account \in Accounts
      /\ \A w \in Workers : worker'[w] # None => worker'[w].account \in Accounts
      /\ job \in [Accounts -> Job]
  BY DEF TypeOK, Claim
<1> SUFFICES ASSUME NEW w \in Workers, worker'[w] # None, Holds(w, worker[w])'
             PROVE  Bound(worker'[w], job'[worker'[w].account])
  BY DEF InClaims
<1> DEFINE c == worker'[w]
           a == c.account
<1>1. job'[a].state = "running" /\ job'[a].lease = w /\ a \in Accounts
  BY <1>0 DEF Holds
<1>2. ASSUME worker[w] # None, worker[w].account = a, job[a].state = "running", job[a].lease = w
      PROVE  Bound(worker[w], job[a])
  BY <1>2 DEF InClaims, Holds
<1> HIDE DEF Bound, c
<1>3. ASSUME worker[w] # None, worker[w].account = a,
             worker[w].range = c.range, worker[w].complete = c.complete,
             job[a].anchor = job'[a].anchor, job[a].depth = job'[a].depth,
             job[a].state = "running", job[a].lease = w
      PROVE  Bound(c, job'[a])
  BY <1>2, <1>3 DEF Bound
<1>4. CASE UNCHANGED <<job, worker>>
  BY <1>1, <1>3, <1>4 DEF c
<1>5. CASE Wishing
  BY <1>1, <1>3, <1>5 DEF Wishing, Reopened, Moved, Dropped, c
<1>6. CASE Reconciling
  BY <1>1, <1>3, <1>6, ReconciledJobs DEF Reconciling, c
<1>7. CASE Capturing /\ Quiet
  BY <1>1, <1>3, <1>7 DEF Quiet, Continued, Reopened, Moved, c
<1>8. ASSUME NEW v \in Workers, NEW b \in Accounts, Claimed(v, b)
      PROVE  Bound(c, job'[a])
  <2>1. CASE w = v
    BY <1>8, <2>1 DEF Claimed, Bound, c
  <2>2. CASE w # v
    <3>1. a # b
      BY <1>1, <1>8, <2>2 DEF Claimed
    <3>. QED
      BY <1>1, <1>3, <1>8, <2>2, <3>1 DEF Claimed, c
  <2>. QED
    BY <2>1, <2>2
<1>9. ASSUME NEW v \in Workers, Saved(v, worker[v])
      PROVE  Bound(c, job'[a])
  <2>1. w # v
    BY <1>9 DEF Saved
  <2>2. a # worker[v].account
    BY <1>1, <1>9 DEF Saved
  <2>. QED
    BY <1>1, <1>3, <1>9, <2>1, <2>2 DEF Saved, c
<1>10. CASE Crashing
  BY <1>10 DEF Crashing
<1>. QED
  BY <1>4, <1>5, <1>6, <1>7, <1>8, <1>9, <1>10
  DEF Stepping, Renewing, Capturing, Directing, Publishing, Flushing, Resting, c

LEMMA JobsStep ==
    ASSUME TypeOK, TypeOK', Held, InSources, InJobs, InClaims, Stepping
    PROVE  InJobs'
<1>0. /\ \A a \in Accounts : job[a] \in Job /\ job'[a] \in Job
      /\ \A a \in Accounts : desired[a].gen \in Nat /\ desired'[a].gen \in Nat
      /\ scope # None => scope.sources \in SUBSET Source
      /\ None \notin Scope
  BY NullAssumption DEF TypeOK, Desired, Scope
<1>1. scope # None => \A s \in scope.sources : s.account \in Accounts /\ s.gen \in Nat
  BY <1>0 DEF Source
<1> DEFINE Sourced(s) == /\ job'[s.account].depth = s.depth
                         /\ desired'[s.account].gen = s.gen =>
                               job'[s.account].state \notin {"absent", "cancelled"}
           Placed == /\ \A a \in Accounts : Anchored(job'[a])
                     /\ scope' = None => /\ \A r \in Ranges : batch'[r] = None
                                         /\ \A a \in Accounts : Unstarted(job'[a])
                     /\ scope' # None => \A s \in scope'.sources : Sourced(s)
<1> SUFFICES Placed
  BY DEF InJobs, Anchored, Unstarted
<1>2. ASSUME \A a \in Accounts : Moved(job[a], job'[a]), UNCHANGED desired,
             scope' = None => scope = None /\ UNCHANGED batch,
             scope' # None => scope # None /\ scope'.sources = scope.sources
      PROVE  Placed
  <2>1. \A a \in Accounts : Anchored(job'[a])
    BY <1>0, <1>2 DEF Moved, Anchored, Open, InJobs
  <2>2. scope' = None => /\ \A r \in Ranges : batch'[r] = None
                         /\ \A a \in Accounts : Unstarted(job'[a])
    BY <1>0, <1>2 DEF Moved, Unstarted, Open, InJobs
  <2>3. scope' # None => \A s \in scope'.sources : Sourced(s)
    BY <1>0, <1>1, <1>2 DEF Moved, Open, InJobs
  <2>. QED
    BY <2>1, <2>2, <2>3
<1>3. CASE Wishing
  <2>1. \A a \in Accounts : Moved(job[a], job'[a])
                            \/ (Dropped(job[a], job'[a]) /\ desired[a].gen < desired'[a].gen)
    BY <1>3 DEF Wishing, Reopened
  <2>2. \A a \in Accounts : Anchored(job'[a])
    BY <1>0, <2>1 DEF Moved, Dropped, Anchored, Open, InJobs
  <2>3. scope' = None => /\ \A r \in Ranges : batch'[r] = None
                         /\ \A a \in Accounts : Unstarted(job'[a])
    BY <1>0, <1>3, <2>1 DEF Wishing, Moved, Dropped, Unstarted, Open, InJobs
  <2>4. \A a \in Accounts : desired[a].gen <= desired'[a].gen
    BY <1>3 DEF Wishing, Later
  <2>5. ASSUME scope' # None, NEW s \in scope'.sources
        PROVE  Sourced(s)
    <3>1. scope # None /\ s \in scope.sources /\ s.account \in Accounts /\ s.gen \in Nat
      BY <1>1, <1>3, <2>5 DEF Wishing
    <3>2. /\ job[s.account].depth = s.depth /\ s.gen <= desired[s.account].gen
          /\ desired[s.account].gen = s.gen => job[s.account].state \notin {"absent", "cancelled"}
      BY <3>1 DEF InJobs, InSources
    <3>3. CASE Moved(job[s.account], job'[s.account])
      BY <1>0, <2>4, <3>1, <3>2, <3>3 DEF Moved, Open
    <3>4. CASE Dropped(job[s.account], job'[s.account])
               /\ desired[s.account].gen < desired'[s.account].gen
      BY <1>0, <3>1, <3>2, <3>4 DEF Dropped
    <3>. QED
      BY <2>1, <3>1, <3>3, <3>4
  <2>. QED
    BY <2>2, <2>3, <2>5
<1>4. CASE Reconciling
  <2>1. UNCHANGED desired
    BY <1>4 DEF Reconciling
  <2>2. \A a \in Accounts : Anchored(job'[a])
    BY <1>4, ReconciledJobs DEF InJobs
  <2>3. scope' = None => /\ \A r \in Ranges : batch'[r] = None
                         /\ \A a \in Accounts : Unstarted(job'[a])
    BY <1>0, <1>4, ReconciledJobs
    DEF Reconciling, Restamped, Rebuilt, Preserved, Settled, InJobs
  <2>4. ASSUME scope' # None, NEW s \in scope'.sources
        PROVE  Sourced(s)
    <3>1. /\ s.account \in Accounts /\ desired[s.account].selected
          /\ s.depth = desired[s.account].depth
      <4>1. CASE scope'.sources = sources
        BY <2>4, <4>1, SourceRows
      <4>2. CASE scope' = scope /\ FingerprintCurrent
        BY <2>4, <4>2, CurrentScope, SourceRows DEF Live
      <4>. QED
        BY <1>4, <2>4, <4>1, <4>2 DEF Reconciling, Restamped, Rebuilt, Preserved, Settled
    <3>. QED
      BY <1>4, <3>1, ReconciledJobs
  <2>. QED
    BY <2>2, <2>3, <2>4
<1>5. CASE Capturing
  <2>1. UNCHANGED <<desired, scope>>
    BY <1>5 DEF Capturing
  <2>2. CASE Quiet
    BY <1>2, <2>1, <2>2 DEF Quiet, Reopened
  <2>3. ASSUME NEW w \in Workers, NEW a \in Accounts, Claimed(w, a)
        PROVE  Placed
    <3>1. \A b \in Accounts : Moved(job[b], job'[b])
      BY <1>0, <2>3 DEF Claimed, Moved, Open
    <3>. QED
      BY <1>2, <2>1, <2>3, <3>1 DEF Claimed
  <2>4. ASSUME NEW w \in Workers, Saved(w, worker[w])
        PROVE  Placed
    <3> DEFINE c == worker[w]
               a == c.account
    <3>1. /\ scope # None /\ a \in Accounts /\ Holds(w, c) /\ worker[w] # None
          /\ c.range \in Ranges /\ job[a].state = "running"
      BY <2>4, NullAssumption DEF Saved, Claim, Holds
    <3>2. /\ \A b \in Accounts \ {a} : job'[b] = job[b]
          /\ job'[a].depth = job[a].depth
          /\ job'[a].anchor = IF c.complete THEN 0 ELSE c.range - 1
          /\ job'[a].state = IF c.complete THEN "complete" ELSE "pending"
      BY <2>4 DEF Saved
    <3>3. job[a].depth = "recent" => c.complete
      BY <3>1 DEF InClaims
    <3> HIDE DEF c, a
    <3>4. \A b \in Accounts : Anchored(job'[b])
      BY <3>1, <3>2, <3>3 DEF Anchored, InJobs
    <3>5. \A s \in scope.sources : Sourced(s)
      BY <1>1, <2>1, <3>1, <3>2 DEF InJobs
    <3>. QED
      BY <2>1, <3>1, <3>4, <3>5
  <2>. QED
    BY <1>5, <2>2, <2>3, <2>4 DEF Capturing
<1>6. CASE UNCHANGED job /\ (Renewing \/ Directing \/ Publishing \/ Flushing \/ Crashing \/ Resting)
  <2>1. \A a \in Accounts : Moved(job[a], job'[a])
    BY <1>6 DEF Moved
  <2>2. UNCHANGED desired
    BY <1>6 DEF Renewing, Directing, Publishing, Flushing, Crashing, Resting
  <2>3. /\ scope' = None => scope = None /\ UNCHANGED batch
        /\ scope' # None => scope # None /\ scope'.sources = scope.sources
    <3>1. CASE Renewing
      BY <1>0, <3>1 DEF Renewing
    <3>2. CASE Directing
      BY <1>0, <3>2 DEF Directing, Prepared, Refreshing, Rewriting, Acknowledged, Deferred,
                        PassCurrent
    <3>3. CASE Publishing
      <4>1. scope' = scope /\ scope = None => UNCHANGED batch
        BY <3>3 DEF Publishing, Taken, Asked, Ended, Returned, Aged, FingerprintCurrent, Mine,
                    Held, InJobs
      <4>. QED
        BY <3>3, <4>1 DEF Publishing
    <3>4. CASE Flushing \/ Crashing \/ Resting
      BY <3>4 DEF Flushing, Crashing, Resting
    <3>. QED
      BY <1>6, <3>1, <3>2, <3>3, <3>4
  <2>. QED
    BY <1>2, <2>1, <2>2, <2>3
<1>7. Renewing \/ Directing \/ Publishing \/ Flushing \/ Crashing \/ Resting => UNCHANGED job
  BY DEF Renewing, Directing, Publishing, Flushing, Crashing, Resting
<1> HIDE DEF Placed
<1>. QED
  BY <1>3, <1>4, <1>5, <1>6, <1>7 DEF Stepping

-----------------------------------------------------------------------------
(* What a checkpoint has passed is in the batches. *)

IsCaptured ==
    scope # None =>
        \A a \in ScopeAccounts(scope) : \A r \in Done(a) : batch[r] # None /\ a \in batch[r].access

(* Only a rebuild drops batches. *)
LEMMA BatchesKept ==
    ASSUME TypeOK, Held, Stepping
    PROVE  \/ Reconciling /\ Rebuilt
           \/ \A r \in Ranges : batch[r] # None => /\ batch'[r] # None
                                                   /\ batch[r].access \subseteq batch'[r].access
<1> DEFINE Kept == \A r \in Ranges : batch[r] # None => /\ batch'[r] # None
                                                        /\ batch[r].access \subseteq batch'[r].access
<1>1. CASE UNCHANGED batch
  BY <1>1
<1>2. CASE Reconciling
  BY <1>2 DEF Reconciling, Restamped, Preserved, Settled
<1>3. CASE Capturing
  <2>1. ASSUME NEW w \in Workers, Saved(w, worker[w])
        PROVE  Kept
    BY <2>1 DEF Saved
  <2>. QED
    BY <1>3, <2>1 DEF Capturing, Quiet, Claimed
<1>4. CASE Directing
  BY <1>4 DEF Directing, Prepared, Refreshing, Rewriting, Acknowledged
<1>5. CASE Publishing
  <2>1. CASE \E r \in Ranges : Taken(r)
    BY <2>1 DEF Taken
  <2>2. CASE Asked
    BY <2>2 DEF Asked
  <2>3. CASE Ended
    BY <2>3 DEF Ended, Returned, Mine, Held
  <2>4. CASE \E r \in Ranges : Aged(r)
    BY <2>4 DEF Aged
  <2>. QED
    BY <1>5, <2>1, <2>2, <2>3, <2>4 DEF Publishing
<1>. QED
  BY <1>1, <1>2, <1>3, <1>4, <1>5
  DEF Stepping, Wishing, Renewing, Flushing, Crashing, Resting

LEMMA CapturedStep ==
    ASSUME TypeOK, TypeOK', Held, InSources, InJobs, InClaims, IsCaptured, Stepping
    PROVE  IsCaptured'
<1> DEFINE Behind(j) == IF j.state = "complete" THEN Wanted(j.depth)
                        ELSE {r \in Ranges : j.anchor # 0 /\ r > j.anchor}
           Kept == \A r \in Ranges : batch[r] # None => /\ batch'[r] # None
                                                        /\ batch[r].access \subseteq batch'[r].access
<1>0. /\ \A a \in Accounts : job[a] \in Job /\ job'[a] \in Job
      /\ scope # None => scope \in Scope /\ ScopeAccounts(scope) \subseteq Accounts
      /\ \A a : Done(a) = Behind(job[a]) /\ Done(a)' = Behind(job'[a])
      /\ \A j \in Job : Behind(j) \subseteq Ranges
      /\ None \notin Scope
  <2>1. \A depth \in Depths : Wanted(depth) \subseteq Ranges
    BY Finite DEF Wanted, Depths
  <2>2. \A j \in Job : Behind(j) \subseteq Ranges
    BY <2>1 DEF Job
  <2>3. \A a : Done(a) = Behind(job[a]) /\ Done(a)' = Behind(job'[a])
    BY DEF Done
  <2>. QED
    BY <2>2, <2>3, FiniteScope, NullAssumption DEF TypeOK
<1>1. \A j \in Job : Unstarted(j) => Behind(j) = {}
  BY DEF Unstarted, Wanted
<1> HIDE DEF Behind
<1>2. ASSUME Kept, scope' # None => scope # None /\ ScopeAccounts(scope)' = ScopeAccounts(scope),
             \A a \in ScopeAccounts(scope) : Behind(job'[a]) \subseteq Behind(job[a])
      PROVE  IsCaptured'
  <2>1. SUFFICES ASSUME scope' # None, NEW a \in ScopeAccounts(scope)', NEW r \in Behind(job'[a])
                 PROVE  batch'[r] # None /\ a \in batch'[r].access
    BY <1>0 DEF IsCaptured
  <2>2. /\ scope # None /\ a \in ScopeAccounts(scope) /\ a \in Accounts
        /\ r \in Behind(job[a]) /\ r \in Ranges
    BY <1>0, <1>2, <2>1
  <2>3. batch[r] # None /\ a \in batch[r].access
    BY <1>0, <2>2 DEF IsCaptured
  <2>. QED
    BY <1>2, <2>2, <2>3
<1>3. ASSUME NEW a \in Accounts, Moved(job[a], job'[a]) \/ Dropped(job[a], job'[a])
      PROVE  Behind(job'[a]) \subseteq Behind(job[a])
  BY <1>3 DEF Moved, Dropped, Open, Behind
<1>4. CASE Wishing
  <2>1. \A a \in Accounts : Moved(job[a], job'[a]) \/ Dropped(job[a], job'[a])
    BY <1>4 DEF Wishing, Reopened
  <2>2. UNCHANGED scope /\ Kept
    BY <1>4 DEF Wishing
  <2>3. ScopeAccounts(scope)' = ScopeAccounts(scope)
    BY <2>2 DEF ScopeAccounts
  <2>4. scope # None => \A a \in ScopeAccounts(scope) : Behind(job'[a]) \subseteq Behind(job[a])
    BY <1>0, <1>3, <2>1
  <2>. QED
    BY <1>0, <1>2, <2>2, <2>3, <2>4 DEF IsCaptured
<1>5. CASE Reconciling
  <2>1. CASE Rebuilt \/ Preserved
    <3>1. scope' # None /\ scope'.sources = sources
      BY <1>0, <2>1 DEF Rebuilt, Preserved
    <3>2. ASSUME NEW a \in ScopeAccounts(scope)'
          PROVE  Unstarted(job'[a]) /\ a \in Accounts
      <4>1. PICK s \in sources : s.account = a
        BY <3>1, <3>2 DEF ScopeAccounts
      <4>2. a \in Live /\ a \in Accounts /\ desired[a].selected /\ desired[a] \in Desired
        BY <4>1, SourceRows DEF TypeOK
      <4>3. CASE Rebuilt
        <5>1. a \in Affected
          BY <4>1 DEF Affected
        <5>2. job'[a] = Upserted(Cancelled(job[a]), desired[a])
          BY <4>2, <4>3, <5>1 DEF Rebuilt
        <5>3. Cancelled(job[a]) \in Job /\ Cancelled(job[a]).state \in {"absent", "cancelled"}
          BY <1>0, <4>2, JobRows
        <5>4. job'[a].anchor = 0 /\ job'[a].depth = desired[a].depth
              /\ job'[a].state = IF desired[a].depth = "new" THEN "complete" ELSE "pending"
          BY <4>2, <5>2, <5>3, JobRows
        <5>. QED
          BY <4>2, <5>4 DEF Unstarted
      <4>4. CASE Preserved
        <5>1. Unstarted(job[a])
          BY <4>2, <4>4 DEF Preserved, InJobs
        <5>. QED
          BY <1>5, <4>2, <5>1, ReconciledJobs
      <4>. QED
        BY <2>1, <4>3, <4>4
    <3>. QED
      BY <1>0, <1>1, <3>2 DEF IsCaptured
  <2>2. CASE FingerprintCurrent /\ (Restamped \/ Settled)
    <3>1. /\ scope # None /\ ScopeAccounts(scope) = Live
          /\ \A s \in scope.sources : /\ s.account \in Live
                                      /\ s.gen = desired[s.account].gen
                                      /\ s.depth = desired[s.account].depth
      BY <2>2, CurrentScope
    <3>2. ScopeAccounts(scope)' = Live
      <4>1. CASE scope' = scope
        BY <3>1, <4>1 DEF ScopeAccounts
      <4>2. CASE scope'.sources = sources
        BY <4>2, SourceRows DEF ScopeAccounts
      <4>. QED
        BY <2>2, <4>1, <4>2 DEF Restamped, Settled
    <3>3. ASSUME NEW a \in Live
          PROVE  job'[a] = job[a]
      <4>1. a \in Accounts /\ desired[a].selected /\ desired[a] \in Desired
        BY DEF Live, TypeOK
      <4>2. PICK s \in scope.sources : s.account = a
        BY <3>1 DEF ScopeAccounts
      <4>3. job[a].depth = desired[a].depth /\ job[a].state \notin {"absent", "cancelled"}
        BY <3>1, <4>2 DEF InJobs
      <4>4. Upserted(job[a], desired[a]) = job[a]
        BY <1>0, <4>1, <4>3, JobRows
      <4>. QED
        BY <2>2, <4>1, <4>4 DEF Restamped, Settled
    <3>4. \A a \in ScopeAccounts(scope) : Behind(job'[a]) \subseteq Behind(job[a])
      BY <3>1, <3>3
    <3>5. Kept
      BY <2>2 DEF Restamped, Settled
    <3>. QED
      BY <1>2, <3>1, <3>2, <3>4, <3>5
  <2>3. CASE scope' = None
    BY <2>3 DEF IsCaptured
  <2>. QED
    BY <1>5, <2>1, <2>2, <2>3 DEF Reconciling, Restamped, Settled
<1>6. CASE Capturing
  <2>1. /\ UNCHANGED <<desired, scope>> /\ ScopeAccounts(scope)' = ScopeAccounts(scope)
        /\ Kept
    <3>1. config.gen \in Nat /\ UNCHANGED config
      BY <1>6 DEF Capturing, TypeOK
    <3>2. ~Rebuilt
      BY <3>1 DEF Rebuilt
    <3>. QED
      BY <1>6, <3>2, BatchesKept DEF Capturing, ScopeAccounts
  <2>2. CASE scope = None
    BY <2>1, <2>2 DEF IsCaptured
  <2>3. CASE scope # None /\ Quiet
    BY <1>0, <1>2, <1>3, <2>1, <2>3 DEF Quiet, Reopened
  <2>4. ASSUME scope # None, NEW w \in Workers, NEW a \in Accounts, Claimed(w, a)
        PROVE  IsCaptured'
    <3>1. \A b \in Accounts : Moved(job[b], job'[b])
      BY <1>0, <2>4 DEF Claimed, Moved, Open
    <3>. QED
      BY <1>0, <1>2, <1>3, <2>1, <2>4, <3>1
  <2>5. ASSUME scope # None, NEW w \in Workers, Saved(w, worker[w])
        PROVE  IsCaptured'
    <3> DEFINE c == worker[w]
               a == c.account
    <3>1. /\ c # None /\ c.range \in Ranges /\ a \in Accounts /\ Holds(w, c)
          /\ job[a].state = "running"
      BY <2>5, NullAssumption DEF Saved, Claim, Holds
    <3>2. /\ \A b \in Accounts \ {a} : job'[b] = job[b]
          /\ job'[a].depth = job[a].depth
          /\ job'[a].anchor = IF c.complete THEN 0 ELSE c.range - 1
          /\ job'[a].state = IF c.complete THEN "complete" ELSE "pending"
          /\ batch'[c.range] # None /\ a \in batch'[c.range].access
      BY <2>5 DEF Saved
    <3>3. /\ c.range = IF job[a].anchor = 0 THEN Newest ELSE job[a].anchor
          /\ c.complete <=> c.range = 1 \/ job[a].depth = "recent"
          /\ job[a].depth = "recent" => job[a].anchor = 0
      BY <3>1 DEF InClaims, InJobs, Anchored
    <3> HIDE DEF c, a
    <3>4. \A r \in Behind(job'[a]) : r = c.range \/ r \in Behind(job[a])
      <4>1. Behind(job[a]) = {r \in Ranges : job[a].anchor # 0 /\ r > job[a].anchor}
        BY <3>1 DEF Behind
      <4>2. c.range \in Nat /\ \A r \in Ranges : r \in Nat /\ r >= 1 /\ r <= Newest
        BY <3>1, Finite
      <4>3. CASE c.complete
        <5>1. Behind(job'[a]) = Wanted(job[a].depth)
          BY <3>2, <4>3 DEF Behind
        <5>2. CASE job[a].depth = "recent"
          BY <3>3, <5>1, <5>2 DEF Wanted
        <5>3. CASE job[a].depth # "recent" /\ c.range = 1
          <6>1. Wanted(job[a].depth) \subseteq Ranges
            BY <1>0, <3>1, <5>3 DEF Wanted, Job, Depths
          <6>. QED
            BY <3>3, <4>1, <4>2, <5>1, <5>3, <6>1
        <5>. QED
          BY <3>3, <4>3, <5>2, <5>3
      <4>4. CASE ~c.complete
        <5>1. Behind(job'[a]) = {r \in Ranges : c.range - 1 # 0 /\ r > c.range - 1}
          BY <3>2, <4>4 DEF Behind
        <5>. QED
          BY <3>3, <4>1, <4>2, <5>1
      <4>. QED
        BY <4>3, <4>4
    <3>5. ASSUME NEW b \in ScopeAccounts(scope), NEW r \in Behind(job'[b])
          PROVE  batch'[r] # None /\ b \in batch'[r].access
      <4>1. b \in Accounts /\ r \in Ranges
        BY <1>0, <2>5, <3>5
      <4>2. CASE b = a /\ r = c.range
        BY <3>2, <4>2
      <4>3. CASE r \in Behind(job[b])
        <5>1. batch[r] # None /\ b \in batch[r].access
          BY <1>0, <2>5, <4>3 DEF IsCaptured
        <5>. QED
          BY <2>1, <4>1, <5>1
      <4>. QED
        BY <3>2, <3>4, <3>5, <4>1, <4>2, <4>3
    <3>. QED
      BY <1>0, <2>1, <3>5 DEF IsCaptured
  <2>. QED
    BY <1>6, <2>2, <2>3, <2>4, <2>5 DEF Capturing
<1>7. CASE UNCHANGED job /\ (Renewing \/ Directing \/ Publishing \/ Flushing \/ Crashing \/ Resting)
  <2>1. Kept
    <3>1. CASE UNCHANGED batch
      BY <3>1
    <3>2. CASE Directing \/ Publishing
      <4>1. config.gen \in Nat /\ UNCHANGED config
        BY <3>2 DEF Directing, Publishing, TypeOK
      <4>2. ~Rebuilt
        BY <4>1 DEF Rebuilt
      <4>. QED
        BY <3>2, <4>2, BatchesKept
    <3>. QED
      BY <1>7, <3>1, <3>2 DEF Renewing, Flushing, Crashing, Resting
  <2>2. scope' # None => scope # None /\ scope'.sources = scope.sources
    BY <1>0, <1>7
    DEF Renewing, Directing, Prepared, Refreshing, Rewriting, Acknowledged, Deferred,
        PassCurrent, Publishing, Flushing, Crashing, Resting
  <2>3. scope' # None => scope # None /\ ScopeAccounts(scope)' = ScopeAccounts(scope)
    BY <2>2 DEF ScopeAccounts
  <2>4. scope # None => \A a \in ScopeAccounts(scope) : Behind(job'[a]) \subseteq Behind(job[a])
    BY <1>7
  <2>. QED
    BY <1>2, <2>1, <2>3, <2>4 DEF IsCaptured
<1>8. Renewing \/ Directing \/ Publishing \/ Flushing \/ Crashing \/ Resting => UNCHANGED job
  BY DEF Renewing, Directing, Publishing, Flushing, Crashing, Resting
<1>. QED
  BY <1>4, <1>5, <1>6, <1>7, <1>8 DEF Stepping

-----------------------------------------------------------------------------
(* What is published of a batch is what the batch holds. *)

(* No source captures any more. *)
Closed == \A a \in ScopeAccounts(scope) : job[a].state \in {"complete", "cancelled"}

(* What was sent with a batch belongs to the sources of the scope. *)
Matching(rows) ==
    /\ rows \in SUBSET ImportSource
    /\ \A s \in scope.sources : \E x \in rows : x.account = s.account
    /\ \A x \in rows :
          /\ x.agen <= desired[x.account].agen
          /\ \E s \in scope.sources : s.account = x.account /\ s.gen = x.gen /\ s.agen <= x.agen

Granted(r, b) ==
    /\ b.receipt # None =>
          b.receipt = [gen |-> scope.gen, sources |-> b.sources,
                       access |-> b.access, names |-> b.names]
    /\ b.status = "complete" => b.receipt # None /\ import[r] = b.receipt

InBatches ==
    \A r \in Ranges : batch[r] # None =>
        /\ ~Untouched(batch[r]) => Closed /\ Matching(batch[r].sources)
        /\ ~scope.pending /\ batch[r].access \subseteq ScopeAccounts(scope) => Granted(r, batch[r])

PassStill ==
    /\ pass # None /\ scope # None
    /\ scope.gen = pass.scope.gen
    /\ scope.cursor = pass.scope.cursor /\ scope.account = pass.scope.account

(* The pass has been there, or has found nothing to rewrite. *)
Past(r) == r <= scope.cursor \/ (PassStill /\ pass.kind = "batch" /\ r < pass.range)

IsPassed ==
    scope # None /\ scope.pending =>
        \A r \in Ranges : batch[r] # None /\ Past(r) => Untouched(batch[r])

InPublisher ==
    pub.pc # "idle" =>
        LET b == batch[pub.range]
            e == pub.envelope
        IN  /\ b # None => b.status = "pending"
            /\ Mine /\ ~scope.pending => scope.gen = e.gen
            /\ scope.gen = e.gen =>
                  /\ ~scope.pending /\ b # None /\ b.leased /\ b.sources = e.sources
                  /\ b.access \subseteq ScopeAccounts(scope) =>
                        /\ e.access = b.access /\ e.names = b.names
                        /\ pub.receipt # None => pub.receipt = e
            /\ pub.pc = "answered" /\ pub.answer = "complete" =>
                  pub.receipt # None /\ import[pub.range] = pub.receipt

LEMMA PassedStep ==
    ASSUME TypeOK, TypeOK', Held, InGenerations, InJobs, IsPassed, Stepping
    PROVE  IsPassed'
<1>00. \A r \in Ranges : r \in Nat /\ r > 0
  BY Finite
<1>0. /\ config.gen \in Nat /\ \A r \in Ranges : r \in Nat /\ r > 0
      /\ scope # None => scope.gen \in Nat /\ scope.cursor \in Nat
      /\ scope' # None => scope'.gen \in Nat /\ scope'.cursor \in Nat
      /\ pass # None => pass.scope.gen \in Nat
  BY <1>00 DEF TypeOK, Scope, Pass
<1>1. CASE UNCHANGED <<scope, pass>> /\ \A r \in Ranges : batch'[r] # None =>
                IF batch[r] # None THEN Untouched(batch[r]) => Untouched(batch'[r])
                                   ELSE Untouched(batch'[r])
  BY <1>1 DEF IsPassed, Past, PassStill
<1>2. CASE Wishing \/ Flushing \/ Resting
  <2>1. UNCHANGED <<scope, pass, batch>>
    BY <1>2 DEF Wishing, Flushing, Resting
  <2>. QED
    BY <1>1, <2>1
<1>3. CASE Renewing
  BY <1>0, <1>3 DEF Renewing, IsPassed, Past, PassStill, InGenerations
<1>4. CASE Reconciling
  <2>1. CASE Restamped
    BY <2>1 DEF Restamped, IsPassed, Untouched
  <2>2. CASE Rebuilt
    BY <2>2 DEF Rebuilt, IsPassed
  <2>3. CASE Preserved
    BY <2>3 DEF Preserved, IsPassed, InJobs
  <2>4. CASE Settled
    BY <1>1, <1>4, <2>4 DEF Settled, Reconciling
  <2>. QED
    BY <1>4, <2>1, <2>2, <2>3, <2>4 DEF Reconciling
<1>5. CASE Capturing
  <2>1. UNCHANGED <<scope, pass>>
    BY <1>5 DEF Capturing
  <2>2. ASSUME NEW w \in Workers, Saved(w, worker[w])
        PROVE  IsPassed'
    BY <1>1, <2>1, <2>2 DEF Saved, Untouched
  <2>. QED
    BY <1>1, <1>5, <2>1, <2>2 DEF Capturing, Quiet, Claimed
<1>6. CASE Directing
  <2>1. CASE Prepared
    <3>1. UNCHANGED <<scope, batch>> /\ scope # None
      BY <2>1 DEF Prepared
    <3>2. ASSUME NEW r \in Ranges, batch[r] # None, Past(r)'
          PROVE  r <= scope.cursor
      BY <1>0, <2>1, <3>1, <3>2 DEF Prepared, Past, PassStill
    <3>. QED
      BY <3>1, <3>2 DEF IsPassed, Past
  <2>2. CASE pass' = None /\ scope' = scope /\ batch' = batch
    BY <2>2 DEF IsPassed, Past, PassStill
  <2>3. CASE pass' = None /\ (Refreshing \/ Deferred) /\ batch' = batch
    BY <2>3 DEF Refreshing, Deferred, PassCurrent, IsPassed, Past, PassStill
  <2>4. CASE pass # None /\ pass' = None /\ Rewriting
    <3>1. scope # None /\ scope.pending /\ PassStill /\ pass.kind = "batch"
      BY <2>4, NullAssumption DEF Rewriting, PassCurrent, PassStill, FingerprintCurrent, TypeOK
    <3>2. ASSUME NEW r \in Ranges, batch'[r] # None, r <= pass.range
          PROVE  Untouched(batch'[r])
      <4>1. CASE r = pass.range
        BY <2>4, <4>1 DEF Rewriting
      <4>2. CASE r # pass.range
        BY <1>0, <2>4, <3>1, <3>2, <4>2 DEF Rewriting, IsPassed, Past, Held
      <4>. QED
        BY <4>1, <4>2
    <3>. QED
      BY <2>4, <3>2 DEF Rewriting, IsPassed, Past, PassStill
  <2>5. CASE pass' = None /\ Acknowledged
    BY <2>5 DEF Acknowledged, IsPassed
  <2>. QED
    BY <1>6, <2>1, <2>2, <2>3, <2>4, <2>5 DEF Directing, Refreshing
<1>7. CASE Publishing
  <2>1. UNCHANGED <<scope, pass>>
    BY <1>7 DEF Publishing
  <2>2. CASE \E r \in Ranges : Taken(r)
    BY <2>1, <2>2 DEF Taken, IsPassed
  <2>3. CASE Asked
    BY <1>1, <2>1, <2>3 DEF Asked
  <2>4. CASE Ended
    <3>1. ASSUME NEW r \in Ranges, Untouched(batch[r]), batch[r] # None
          PROVE  batch'[r] = batch[r]
      BY <2>4, <3>1 DEF Ended, Returned, Mine, Untouched
    <3>2. \A r \in Ranges : batch'[r] # None => batch[r] # None
      BY <2>4 DEF Ended, Returned, Mine, Held
    <3>. QED
      BY <1>1, <2>1, <3>1, <3>2
  <2>5. CASE \E r \in Ranges : Aged(r)
    BY <1>1, <2>1, <2>5 DEF Aged, Untouched
  <2>. QED
    BY <1>7, <2>2, <2>3, <2>4, <2>5 DEF Publishing
<1>8. CASE Crashing
  BY <1>8 DEF Crashing, IsPassed, Past, PassStill
<1>. QED
  BY <1>2, <1>3, <1>4, <1>5, <1>6, <1>7, <1>8 DEF Stepping

(* The sources of a scope stay, and those that have captured everything do *)
(* not begin again, until the sources are reconciled.                      *)
Renewed == Reconciling /\ (Restamped \/ Rebuilt)

LEMMA ClosedStep ==
    ASSUME TypeOK, InJobs, scope # None, Stepping, ~Renewed
    PROVE  /\ scope' # None /\ scope'.sources = scope.sources
           /\ Closed => Closed'
<1>0. /\ \A a \in Accounts : job[a] \in Job
      /\ ScopeAccounts(scope) \subseteq Accounts /\ scope \in Scope /\ None \notin Scope
  BY FiniteScope, NullAssumption DEF TypeOK
<1>1. scope' # None /\ scope'.sources = scope.sources
  <2>1. CASE Reconciling
    BY <2>1 DEF Reconciling, Preserved, Settled, Renewed
  <2>. QED
    BY <1>0, <2>1
    DEF Stepping, Wishing, Renewing, Capturing, Directing, Prepared, Refreshing, Rewriting,
        Acknowledged, Deferred, Publishing, Flushing, Crashing, Resting
<1>2. ScopeAccounts(scope)' = ScopeAccounts(scope)
  BY <1>1 DEF ScopeAccounts
<1> SUFFICES ASSUME NEW a \in ScopeAccounts(scope), Closed
             PROVE  job'[a].state \in {"complete", "cancelled"}
  BY <1>1, <1>2 DEF Closed
<1>3. job[a].state \in {"complete", "cancelled"} /\ a \in Accounts /\ job[a] \in Job
  BY <1>0 DEF Closed
<1>4. Moved(job[a], job'[a]) \/ Dropped(job[a], job'[a]) => job'[a].state \in {"complete", "cancelled"}
  BY <1>3 DEF Moved, Dropped, Open
<1>5. CASE Wishing
  BY <1>3, <1>4, <1>5 DEF Wishing, Reopened
<1>6. CASE Reconciling
  <2>1. FingerprintCurrent /\ job'[a] = Upserted(job[a], desired[a])
    BY <1>3, <1>6 DEF Reconciling, Preserved, Settled, Renewed
  <2>2. PICK s \in scope.sources : s.account = a
    BY DEF ScopeAccounts
  <2>3. /\ a \in Live /\ s.gen = desired[a].gen /\ s.depth = desired[a].depth
    BY <2>1, <2>2, CurrentScope
  <2>4. desired[a].selected /\ desired[a] \in Desired
    BY <1>3, <2>3 DEF Live, TypeOK
  <2>5. job[a].depth = desired[a].depth /\ job[a].state \notin {"absent", "cancelled"}
    BY <2>2, <2>3 DEF InJobs
  <2>6. job'[a] = job[a]
    BY <1>3, <2>1, <2>4, <2>5, JobRows
  <2>. QED
    BY <1>3, <2>6
<1>7. CASE Capturing
  <2>1. ASSUME NEW w \in Workers, NEW b \in Accounts, Claimed(w, b)
        PROVE  job'[a] = job[a]
    BY <1>3, <2>1 DEF Claimed
  <2>2. ASSUME NEW w \in Workers, Saved(w, worker[w])
        PROVE  job'[a] = job[a]
    BY <1>3, <2>2 DEF Saved, Holds
  <2>. QED
    BY <1>3, <1>4, <1>7, <2>1, <2>2 DEF Capturing, Quiet, Reopened
<1>. QED
  BY <1>3, <1>5, <1>6, <1>7
  DEF Stepping, Renewing, Directing, Publishing, Flushing, Crashing, Resting

LEMMA MatchingStep ==
    ASSUME TypeOK, TypeOK', InJobs, scope # None, Stepping, ~Renewed, NEW rows, Matching(rows)
    PROVE  Matching(rows)'
<1>1. scope'.sources = scope.sources
  BY ClosedStep
<1>2. \A x \in rows : /\ x.account \in Accounts /\ x.agen \in Nat
                      /\ desired[x.account].agen <= desired'[x.account].agen
                      /\ desired[x.account].agen \in Nat /\ desired'[x.account].agen \in Nat
  BY SourcesKept DEF Matching, ImportSource, Later, TypeOK, Desired
<1>. QED
  BY <1>1, <1>2 DEF Matching

LEMMA TakenSources ==
    ASSUME TypeOK, InSources, FingerprintCurrent
    PROVE  Matching(sources_for) /\ scope # None /\ ScopeAccounts(scope) = Live
<1>1. /\ scope # None /\ ScopeAccounts(scope) = Live
      /\ \A s \in scope.sources : s.account \in Live /\ s.gen = desired[s.account].gen
  BY CurrentScope
<1> DEFINE Row(a) == [account |-> a, gen |-> desired[a].gen, agen |-> desired[a].agen]
<1>2. /\ sources_for = {Row(a) : a \in Live} /\ Live \subseteq Accounts
      /\ \A a : /\ Row(a).account = a /\ Row(a).gen = desired[a].gen
                /\ Row(a).agen = desired[a].agen
      /\ \A a \in Accounts : desired[a].agen \in Nat
  BY DEF sources_for, Live, TypeOK, Desired
<1>3. sources_for \in SUBSET ImportSource
  BY ImportSources
<1>4. \A a \in Live : \E s \in scope.sources : s.account = a
  BY <1>1 DEF ScopeAccounts
<1> HIDE DEF Row
<1>5. \A s \in scope.sources : \E x \in sources_for : x.account = s.account
  BY <1>1, <1>2
<1>6. ASSUME NEW x \in sources_for
      PROVE  /\ x.agen <= desired[x.account].agen
             /\ \E s \in scope.sources : s.account = x.account /\ s.gen = x.gen /\ s.agen <= x.agen
  <2>1. PICK a \in Live : x = Row(a)
    BY <1>2
  <2>2. PICK s \in scope.sources : s.account = a
    BY <1>4
  <2>3. s.agen <= desired[a].agen
    BY <1>1, <2>2 DEF InSources
  <2>. QED
    BY <1>1, <1>2, <2>1, <2>2, <2>3
<1>. QED
  BY <1>1, <1>3, <1>5, <1>6 DEF Matching

LEMMA SavedOutside ==
    ASSUME TypeOK, NEW w \in Workers, Saved(w, worker[w]), Closed
    PROVE  worker[w].account \notin ScopeAccounts(scope)
BY DEF Saved, Holds, Closed

LEMMA PublisherStep ==
    ASSUME TypeOK, TypeOK', Held, Held', InGenerations, InJobs, InBatches, IsPassed,
           InPublisher, Stepping
    PROVE  InPublisher'
<1>0. /\ config.gen \in Nat
      /\ scope # None => scope.gen \in Nat /\ scope.cursor \in Nat /\ scope.gen <= config.gen
      /\ pub.pc # "idle" => /\ pub.envelope.gen \in Nat /\ pub.envelope.gen <= config.gen
                            /\ scope # None /\ pub.range \in Ranges
  BY DEF TypeOK, Scope, Held, Envelope, InGenerations
<1>1. CASE UNCHANGED <<scope, batch, pub, import>>
  BY <1>1 DEF InPublisher, Mine, ScopeAccounts
<1>2. CASE pub'.pc = "idle"
  BY <1>2 DEF InPublisher
<1>3. CASE Renewing
  <2>1. CASE pub.pc = "idle"
    BY <1>2, <1>3, <2>1 DEF Renewing
  <2>2. CASE pub.pc # "idle"
    <3>1. scope'.gen # pub.envelope.gen /\ scope'.pending /\ UNCHANGED <<batch, pub, import>>
      BY <1>0, <1>3, <2>2 DEF Renewing
    <3>. QED
      BY <2>2, <3>1 DEF InPublisher, Mine
  <2>. QED
    BY <2>1, <2>2
<1>4. CASE Reconciling
  <2>1. UNCHANGED <<pub, import>>
    BY <1>4 DEF Reconciling
  <2>2. CASE (Restamped \/ Rebuilt) /\ pub.pc # "idle"
    <3>1. scope'.gen # pub.envelope.gen
      BY <1>0, <2>2 DEF Restamped, Rebuilt
    <3>2. batch'[pub.range] # None => batch'[pub.range].status = "pending"
                                      /\ ~batch'[pub.range].leased
      BY <1>0, <2>2 DEF Restamped, Rebuilt
    <3>. QED
      BY <2>1, <2>2, <3>1, <3>2 DEF InPublisher, Mine
  <2>3. CASE Preserved
    BY <1>0, <1>2, <2>1, <2>3 DEF Preserved
  <2>4. CASE Settled
    BY <1>1, <2>1, <2>4 DEF Settled
  <2>. QED
    BY <1>2, <1>4, <2>1, <2>2, <2>3, <2>4 DEF Reconciling
<1>5. CASE Capturing
  <2>1. UNCHANGED <<scope, pub, import>>
    BY <1>5 DEF Capturing
  <2>2. ASSUME NEW w \in Workers, Saved(w, worker[w]), pub.pc # "idle"
        PROVE  InPublisher'
    <3> DEFINE b == batch[pub.range]
               n == batch'[pub.range]
               e == pub.envelope
    <3>1. CASE worker[w].range # pub.range
      <4>1. n = b
        BY <1>0, <2>2, <3>1 DEF Saved
      <4>. QED
        BY <2>1, <4>1 DEF InPublisher, Mine, ScopeAccounts
    <3>2. CASE worker[w].range = pub.range
      <4>1. n # None /\ n.status = "pending"
        BY <2>2, <3>2 DEF Saved, Untouched, InPublisher
      <4>2. Mine' => Mine
        BY <2>1, <2>2, <3>2 DEF Saved, Untouched, Mine
      <4>3. ASSUME scope.gen = e.gen
            PROVE  /\ ~scope.pending /\ n.leased /\ n.sources = e.sources
                   /\ ~(n.access \subseteq ScopeAccounts(scope))
        <5>1. ~scope.pending /\ b # None /\ b.leased /\ b.sources = e.sources
          BY <2>2, <4>3 DEF InPublisher
        <5>2. /\ n.leased = b.leased /\ n.sources = b.sources
              /\ worker[w].account \in n.access
          BY <2>2, <3>2, <5>1 DEF Saved
        <5>3. Closed
          BY <1>0, <2>2, <5>1 DEF InBatches, Untouched
        <5>4. worker[w].account \notin ScopeAccounts(scope)
          BY <2>2, <5>3, SavedOutside
        <5>. QED
          BY <5>1, <5>2, <5>4
      <4>4. ScopeAccounts(scope)' = ScopeAccounts(scope)
        BY <2>1 DEF ScopeAccounts
      <4>. QED
        BY <2>1, <2>2, <4>1, <4>2, <4>3, <4>4 DEF InPublisher
    <3>. QED
      BY <3>1, <3>2
  <2>. QED
    BY <1>1, <1>2, <1>5, <2>1, <2>2 DEF Capturing, Quiet, Claimed
<1>6. CASE Directing /\ pub.pc # "idle"
  <2>1. UNCHANGED <<pub, import>>
    BY <1>6 DEF Directing
  <2>2. CASE UNCHANGED <<scope, batch>>
    BY <1>1, <2>1, <2>2
  <2>3. CASE (Refreshing \/ Deferred \/ Rewriting) /\ (Rewriting \/ UNCHANGED batch)
    <3>1. scope.pending /\ scope'.pending /\ scope'.gen = scope.gen
      BY <2>3 DEF Refreshing, Deferred, Rewriting, PassCurrent
    <3>2. scope.gen # pub.envelope.gen
      BY <1>6, <3>1 DEF InPublisher
    <3>3. batch'[pub.range] # None => batch'[pub.range].status = "pending"
      BY <1>0, <1>6, <2>3 DEF Rewriting, Untouched, InPublisher
    <3>. QED
      BY <1>6, <2>1, <3>1, <3>2, <3>3 DEF InPublisher
  <2>4. CASE Acknowledged
    <3>1. scope.pending /\ scope'.gen = scope.gen /\ UNCHANGED batch
      BY <2>4 DEF Acknowledged, PassCurrent
    <3>2. scope.gen # pub.envelope.gen
      BY <1>6, <3>1 DEF InPublisher
    <3>3. batch[pub.range] # None => pub.range <= scope.cursor
      BY <1>0, <1>6, <2>4, Finite DEF Acknowledged, LaterBatches
    <3>4. ~Mine
      BY <1>0, <1>6, <3>1, <3>3 DEF IsPassed, Past, Untouched, Mine
    <3>. QED
      BY <1>6, <2>1, <3>1, <3>2, <3>4 DEF InPublisher, Mine
  <2>5. (Prepared => UNCHANGED <<scope, batch>>) /\ (Refreshing => UNCHANGED batch)
    BY DEF Prepared, Refreshing
  <2>. QED
    BY <1>6, <2>2, <2>3, <2>4, <2>5 DEF Directing
<1>7. CASE Publishing
  <2>1. UNCHANGED scope
    BY <1>7 DEF Publishing
  <2>2. ASSUME NEW r \in Ranges, Taken(r), pub'.pc # "idle"
        PROVE  InPublisher'
    <3> DEFINE e == [gen |-> scope.gen, sources |-> sources_for,
                     access |-> batch[r].access, names |-> batch[r].names]
    <3>1. /\ pub'.pc = "claimed" /\ pub'.range = r /\ pub'.envelope = e
          /\ pub'.receipt = batch'[r].receipt
          /\ batch[r] # None /\ batch'[r] # None /\ batch'[r].status = "pending"
          /\ batch'[r].leased /\ batch'[r].sources = sources_for
          /\ batch'[r].access = batch[r].access
          /\ batch'[r].receipt = None \/ (batch'[r].receipt = batch[r].receipt
                                          /\ batch[r].sources = sources_for)
          /\ ~scope.pending
      BY <2>2 DEF Taken
    <3>2. /\ e.gen = scope.gen /\ e.sources = sources_for
          /\ e.access = batch[r].access /\ e.names = batch[r].names
      OBVIOUS
    <3>3. batch'[r].access \subseteq ScopeAccounts(scope) /\ batch'[r].receipt # None =>
             batch'[r].receipt = e
      BY <3>1 DEF InBatches, Granted
    <3> HIDE DEF e
    <3>4. ScopeAccounts(scope)' = ScopeAccounts(scope)
      BY <2>1 DEF ScopeAccounts
    <3>5. batch'[pub'.range] = batch'[r] /\ pub'.envelope.gen = scope'.gen /\ ~scope'.pending
          /\ batch'[r].sources = pub'.envelope.sources
          /\ pub'.envelope.access = batch'[r].access /\ pub'.envelope.names = batch'[r].names
      <4>1. batch'[r].names = batch[r].names
        BY <2>2 DEF Taken
      <4>. QED
        BY <2>1, <3>1, <3>2, <4>1
    <3>6. batch'[r].access \subseteq ScopeAccounts(scope)' /\ pub'.receipt # None =>
             pub'.receipt = pub'.envelope
      BY <3>1, <3>3, <3>4
    <3>. QED
      BY <3>1, <3>5, <3>6 DEF InPublisher
  <2>3. CASE Asked
    <3>1. /\ pub.pc # "idle" /\ pub'.range = pub.range /\ pub'.envelope = pub.envelope
          /\ pub'.receipt \in {pub.receipt, pub.envelope}
          /\ UNCHANGED batch
          /\ pub'.pc = "answered" /\ pub'.answer = "complete" =>
                pub'.receipt # None /\ import'[pub.range] = pub'.receipt
      BY <2>3 DEF Asked
    <3>2. Mine' <=> Mine
      BY <3>1 DEF Mine
    <3>3. ScopeAccounts(scope)' = ScopeAccounts(scope)
      BY <2>1 DEF ScopeAccounts
    <3>. QED
      BY <2>1, <3>1, <3>2, <3>3 DEF InPublisher
  <2>4. CASE Ended
    BY <1>2, <2>4 DEF Ended
  <2>5. ASSUME NEW r \in Ranges, Aged(r), pub.pc # "idle"
        PROVE  InPublisher'
    <3>1. /\ batch'[pub.range] # None <=> batch[pub.range] # None
          /\ batch[pub.range] # None =>
                /\ batch'[pub.range].status = batch[pub.range].status
                /\ batch'[pub.range].leased = batch[pub.range].leased
                /\ batch'[pub.range].sources = batch[pub.range].sources
                /\ batch'[pub.range].access = batch[pub.range].access
                /\ batch'[pub.range].names = batch[pub.range].names
          /\ UNCHANGED <<pub, import>>
      BY <1>0, <2>5 DEF Aged
    <3>2. Mine' <=> Mine
      BY <3>1 DEF Mine
    <3>3. ScopeAccounts(scope)' = ScopeAccounts(scope)
      BY <2>1 DEF ScopeAccounts
    <3>. QED
      BY <2>1, <2>5, <3>1, <3>2, <3>3 DEF InPublisher
  <2>. QED
    BY <1>2, <1>7, <2>2, <2>3, <2>4, <2>5 DEF Publishing, Aged
<1>8. CASE Crashing
  BY <1>2, <1>8 DEF Crashing
<1>. QED
  BY <1>1, <1>2, <1>3, <1>4, <1>5, <1>6, <1>7, <1>8
  DEF Stepping, Wishing, Directing, Flushing, Resting

LEMMA BatchesStep ==
    ASSUME TypeOK, TypeOK', Held, InGenerations, InSources, InJobs, InBatches, IsPassed,
           InPublisher, Stepping
    PROVE  InBatches'
<1>0. /\ \A r \in Ranges : batch[r] # None => scope # None
      /\ scope # None => scope.cursor \in Nat
      /\ \A r \in Ranges : r \in Nat
      /\ \A r \in Ranges : batch[r] # None => batch[r] \in Batch
  BY Finite DEF InJobs, TypeOK, Scope
<1> DEFINE Fine(r) ==
              batch[r] # None =>
                /\ ~Untouched(batch[r]) => Closed /\ Matching(batch[r].sources)
                /\ ~scope.pending /\ batch[r].access \subseteq ScopeAccounts(scope) =>
                      Granted(r, batch[r])
           Matched(rows) ==
              /\ rows \in SUBSET ImportSource
              /\ \A s \in scope'.sources : \E x \in rows : x.account = s.account
              /\ \A x \in rows :
                    /\ x.agen <= desired'[x.account].agen
                    /\ \E s \in scope'.sources :
                          s.account = x.account /\ s.gen = x.gen /\ s.agen <= x.agen
           Same(r) ==
              /\ batch[r] # None /\ batch'[r] # None
              /\ batch'[r].status = batch[r].status /\ batch'[r].receipt = batch[r].receipt
              /\ batch'[r].leased = batch[r].leased /\ batch'[r].sources = batch[r].sources
              /\ batch'[r].access = batch[r].access /\ batch'[r].names = batch[r].names
<1> SUFFICES ASSUME NEW r \in Ranges, batch'[r] # None
             PROVE  Fine(r)'
  BY DEF InBatches
<1>1. Fine(r)
  BY DEF InBatches
<1>2. ASSUME Renewed
      PROVE  Fine(r)'
  BY <1>2 DEF Renewed, Restamped, Rebuilt, Untouched, Granted
<1>3. ASSUME Untouched(batch'[r])
      PROVE  Fine(r)'
  BY <1>3 DEF Untouched, Granted
<1>4. ASSUME ~Renewed, scope # None
      PROVE  /\ scope' # None /\ scope'.sources = scope.sources
             /\ ScopeAccounts(scope)' = ScopeAccounts(scope)
             /\ Closed => Closed'
             /\ \A rows : Matching(rows) => Matched(rows)
  <2>1. scope' # None /\ scope'.sources = scope.sources /\ (Closed => Closed')
    BY <1>4, ClosedStep
  <2>2. ASSUME NEW rows, Matching(rows) PROVE Matched(rows)
    <3>1. Matching(rows)'
      BY <1>4, <2>2, MatchingStep
    <3>. QED
      BY <3>1 DEF Matching
  <2>. QED
    BY <2>1, <2>2 DEF ScopeAccounts
<1> HIDE DEF Matched
<1>5. ASSUME ~Renewed, Same(r), UNCHANGED import,
             ~scope'.pending => ~scope.pending /\ scope'.gen = scope.gen
      PROVE  Fine(r)'
  <2>1. scope # None
    BY <1>0, <1>5
  <2>2. Untouched(batch[r]) => Untouched(batch'[r])
    BY <1>5 DEF Untouched
  <2>3. ~Untouched(batch'[r]) => Closed' /\ Matched(batch'[r].sources)
    <3>1. ASSUME ~Untouched(batch'[r])
          PROVE  Closed /\ Matching(batch[r].sources) /\ batch'[r].sources = batch[r].sources
      BY <1>1, <1>5, <2>2, <3>1
    <3>2. (Closed => Closed') /\ \A rows : Matching(rows) => Matched(rows)
      BY <1>4, <1>5, <2>1
    <3>3. ASSUME ~Untouched(batch'[r])
          PROVE  Matched(batch[r].sources)
      BY <3>1, <3>2, <3>3
    <3>. QED
      BY <3>1, <3>2, <3>3
  <2>4. ~scope'.pending /\ batch'[r].access \subseteq ScopeAccounts(scope)' =>
           Granted(r, batch[r]) /\ scope'.gen = scope.gen
    BY <1>1, <1>4, <1>5, <2>1
  <2>5. ~scope'.pending /\ batch'[r].access \subseteq ScopeAccounts(scope)' =>
           (Granted(r, batch[r]))'
    BY <1>5, <2>4 DEF Granted
  <2>. QED
    BY <2>3, <2>5 DEF Matching, Untouched, Matched
<1> HIDE DEF Fine
<1>6. ASSUME ~Renewed, UNCHANGED <<batch, import>>,
             ~scope'.pending => ~scope.pending /\ scope'.gen = scope.gen
      PROVE  Fine(r)'
  BY <1>5, <1>6
<1>7. CASE Wishing \/ Flushing \/ Crashing \/ Resting
  <2>1. UNCHANGED <<scope, batch, import, config>>
    BY <1>7 DEF Wishing, Flushing, Crashing, Resting
  <2>2. ~Renewed
    BY <2>1 DEF Renewed, Restamped, Rebuilt, TypeOK
  <2>. QED
    BY <1>6, <2>1, <2>2
<1>8. CASE Renewing
  <2>1. UNCHANGED <<batch, import>> /\ scope # None /\ scope'.pending
    BY <1>0, <1>8 DEF Renewing
  <2>. QED
    BY <1>2, <1>6, <2>1
<1>9. CASE Reconciling
  <2>1. CASE Restamped \/ Rebuilt
    BY <1>2, <1>9, <2>1 DEF Renewed
  <2>2. CASE Preserved
    BY <1>0, <2>2 DEF Preserved
  <2>3. CASE Settled
    BY <1>2, <1>6, <1>9, <2>3 DEF Settled, Reconciling
  <2>. QED
    BY <1>9, <2>1, <2>2, <2>3 DEF Reconciling
<1>10. CASE Capturing
  <2>1. UNCHANGED <<scope, config, import>> /\ ~Renewed
    BY <1>10 DEF Capturing, Renewed, Restamped, Rebuilt, TypeOK
  <2>2. ASSUME NEW w \in Workers, Saved(w, worker[w])
        PROVE  Fine(r)'
    <3>1. CASE worker[w].range # r
      BY <1>5, <2>1, <2>2, <3>1 DEF Saved
    <3>2. CASE worker[w].range = r /\ batch[r] = None
      BY <1>3, <2>2, <3>2 DEF Saved
    <3>3. CASE worker[w].range = r /\ batch[r] # None
      <4>1. /\ batch'[r].status = batch[r].status /\ batch'[r].receipt = batch[r].receipt
            /\ batch'[r].leased = batch[r].leased /\ batch'[r].sources = batch[r].sources
            /\ worker[w].account \in batch'[r].access
        BY <2>2, <3>3 DEF Saved
      <4>2. CASE Untouched(batch[r])
        BY <1>3, <4>1, <4>2 DEF Untouched
      <4>3. CASE ~Untouched(batch[r])
        <5>1. Closed /\ Matching(batch[r].sources) /\ scope # None
          BY <1>0, <1>1, <3>3, <4>3 DEF Fine
        <5>2. worker[w].account \notin ScopeAccounts(scope)
          BY <2>2, <5>1, SavedOutside
        <5>3. Closed' /\ Matched(batch[r].sources)
              /\ ScopeAccounts(scope)' = ScopeAccounts(scope)
          BY <1>4, <2>1, <5>1
        <5>4. Matched(batch'[r].sources) /\ ~(batch'[r].access \subseteq ScopeAccounts(scope)')
          BY <4>1, <5>2, <5>3
        <5>. QED
          BY <5>3, <5>4 DEF Fine, Matching, Matched
      <4>. QED
        BY <4>2, <4>3
    <3>. QED
      BY <3>1, <3>2, <3>3
  <2>. QED
    BY <1>6, <1>10, <2>1, <2>2 DEF Capturing, Quiet, Claimed
<1>11. CASE Directing
  <2>1. UNCHANGED <<config, import>> /\ ~Renewed
    BY <1>11 DEF Directing, Renewed, Restamped, Rebuilt, TypeOK
  <2>2. CASE UNCHANGED <<scope, batch>>
    BY <1>6, <2>1, <2>2
  <2>3. CASE (Refreshing \/ Deferred) /\ UNCHANGED batch
    BY <1>6, <2>1, <2>3 DEF Refreshing, Deferred, PassCurrent
  <2>4. CASE Rewriting
    BY <1>3, <1>5, <2>1, <2>4 DEF Rewriting, PassCurrent
  <2>5. CASE Acknowledged
    <3>1. UNCHANGED batch /\ scope # None /\ scope.pending /\ LaterBatches(scope.cursor) = {}
      BY <2>5 DEF Acknowledged, PassCurrent
    <3>2. r <= scope.cursor
      BY <1>0, <3>1 DEF LaterBatches
    <3>3. Untouched(batch'[r])
      BY <3>1, <3>2 DEF IsPassed, Past
    <3>. QED
      BY <1>3, <3>3
  <2>6. (Prepared => UNCHANGED <<scope, batch>>) /\ (Refreshing => UNCHANGED batch)
    BY DEF Prepared, Refreshing
  <2>. QED
    BY <1>11, <2>2, <2>3, <2>4, <2>5, <2>6 DEF Directing
<1>12. CASE Publishing
  <2>1. UNCHANGED <<scope, config>> /\ ~Renewed
    BY <1>12 DEF Publishing, Renewed, Restamped, Rebuilt, TypeOK
  <2>2. ASSUME NEW q \in Ranges, Taken(q)
        PROVE  Fine(r)'
    <3>1. UNCHANGED import
      BY <2>2 DEF Taken
    <3>2. CASE r # q
      BY <1>5, <2>1, <2>2, <3>1, <3>2 DEF Taken
    <3>3. CASE r = q
      <4>1. /\ FingerprintCurrent /\ CapturesComplete /\ batch[r] # None
            /\ batch'[r].access = batch[r].access /\ batch'[r].names = batch[r].names
            /\ batch'[r].status = "pending" /\ batch'[r].sources = sources_for
            /\ \/ batch'[r].receipt = None
               \/ batch'[r].receipt = batch[r].receipt /\ batch[r].sources = sources_for
        BY <2>2, <3>3 DEF Taken
      <4>2. Matching(sources_for) /\ scope # None /\ ScopeAccounts(scope) = Live
        BY <4>1, TakenSources
      <4>3. Closed
        BY <4>1, <4>2 DEF Closed, CapturesComplete
      <4>4. /\ Closed' /\ Matched(batch'[r].sources)
            /\ ScopeAccounts(scope)' = ScopeAccounts(scope)
        BY <1>4, <2>1, <4>1, <4>2, <4>3
      <4>5. ~scope'.pending /\ batch'[r].access \subseteq ScopeAccounts(scope)' =>
               (Granted(r, batch[r]))'
        BY <1>1, <2>1, <4>1, <4>4 DEF Fine, Granted
      <4>. QED
        BY <4>4, <4>5 DEF Fine, Matching, Matched
    <3>. QED
      BY <3>2, <3>3
  <2>3. CASE Asked
    <3>1. UNCHANGED batch /\ \A q \in Ranges \ {pub.range} : import'[q] = import[q]
      BY <2>3 DEF Asked
    <3>2. CASE r # pub.range
      <4>1. UNCHANGED <<batch, scope>> /\ import'[r] = import[r]
        BY <2>1, <3>1, <3>2
      <4>2. /\ ~Untouched(batch'[r]) => Closed' /\ Matched(batch'[r].sources)
            /\ ScopeAccounts(scope)' = ScopeAccounts(scope)
        BY <1>0, <1>1, <1>4, <2>1, <4>1 DEF Fine
      <4>3. ~scope'.pending /\ batch'[r].access \subseteq ScopeAccounts(scope)' =>
               (Granted(r, batch[r]))'
        BY <1>1, <4>1, <4>2 DEF Fine, Granted
      <4>. QED
        BY <4>2, <4>3 DEF Fine, Matching, Matched
    <3>3. CASE r = pub.range
      <4>1. UNCHANGED <<batch, scope>> /\ batch[r].status = "pending"
        BY <2>1, <2>3, <3>1, <3>3 DEF Asked, InPublisher
      <4>2. /\ ~Untouched(batch'[r]) => Closed' /\ Matched(batch'[r].sources)
            /\ ScopeAccounts(scope)' = ScopeAccounts(scope)
        BY <1>0, <1>1, <1>4, <2>1, <4>1 DEF Fine
      <4>3. ~scope'.pending /\ batch'[r].access \subseteq ScopeAccounts(scope)' =>
               (Granted(r, batch[r]))'
        BY <1>1, <4>1, <4>2 DEF Fine, Granted
      <4>. QED
        BY <4>2, <4>3 DEF Fine, Matching, Matched
    <3>. QED
      BY <3>2, <3>3
  <2>4. CASE Ended
    <3>1. UNCHANGED import
      BY <2>4 DEF Ended
    <3>2. CASE batch'[r] = batch[r]
      BY <1>5, <2>1, <3>1, <3>2
    <3>3. CASE r = pub.range /\ Returned(r)
      <4>1. /\ Mine /\ batch[r] # None /\ batch[r].leased
            /\ batch'[r].access = batch[r].access /\ batch'[r].names = batch[r].names
            /\ batch'[r].sources = batch[r].sources
            /\ batch'[r].receipt \in {None, batch[r].receipt, pub.receipt}
            /\ batch'[r].status = "complete" =>
                  /\ pub.pc = "answered" /\ pub.answer = "complete"
                  /\ batch'[r].receipt = pub.receipt
        BY <3>3 DEF Returned, Mine
      <4>2. Closed /\ Matching(batch[r].sources) /\ scope # None
        BY <1>0, <1>1, <4>1 DEF Fine, Untouched
      <4>3. /\ Closed' /\ Matched(batch'[r].sources)
            /\ ScopeAccounts(scope)' = ScopeAccounts(scope)
        BY <1>4, <2>1, <4>1, <4>2
      <4>4. ASSUME ~scope.pending, batch[r].access \subseteq ScopeAccounts(scope)
            PROVE  /\ Granted(r, batch[r]) /\ pub.envelope.gen = scope.gen
                   /\ pub.receipt # None => pub.receipt = pub.envelope
                   /\ pub.envelope = [gen |-> scope.gen, sources |-> batch[r].sources,
                                      access |-> batch[r].access, names |-> batch[r].names]
        <5>1. pub.pc # "idle" /\ Granted(r, batch[r])
          BY <1>1, <2>4, <4>1, <4>4 DEF Ended, Fine
        <5>2. scope.gen = pub.envelope.gen
          BY <4>1, <4>4, <5>1 DEF InPublisher
        <5>3. /\ batch[r].sources = pub.envelope.sources
              /\ pub.envelope.access = batch[r].access /\ pub.envelope.names = batch[r].names
              /\ pub.receipt # None => pub.receipt = pub.envelope
          BY <3>3, <4>4, <5>1, <5>2 DEF InPublisher
        <5>4. pub.envelope \in Envelope
          BY <5>1 DEF Held
        <5>. QED
          BY <5>1, <5>2, <5>3, <5>4 DEF Envelope
      <4>5. batch'[r].status = "complete" => pub.receipt # None /\ import[r] = pub.receipt
        BY <2>4, <3>3, <4>1 DEF InPublisher, Ended
      <4>6. ~scope'.pending /\ batch'[r].access \subseteq ScopeAccounts(scope)' =>
               (Granted(r, batch[r]))'
        BY <2>1, <3>1, <4>1, <4>3, <4>4, <4>5 DEF Granted
      <4>. QED
        BY <4>3, <4>6 DEF Fine, Matching, Matched
    <3>. QED
      BY <2>4, <3>2, <3>3 DEF Ended
  <2>5. ASSUME NEW q \in Ranges, Aged(q)
        PROVE  Fine(r)'
    BY <1>5, <2>1, <2>5 DEF Aged
  <2>. QED
    BY <1>12, <2>2, <2>3, <2>4, <2>5 DEF Publishing
<1>. QED
  BY <1>7, <1>8, <1>9, <1>10, <1>11, <1>12 DEF Stepping

-----------------------------------------------------------------------------
(* What is posted has the observations of every source. *)

IsWhole ==
    pub.pc # "idle" =>
        \A s \in pub.envelope.sources :
            LET d == desired[s.account]
            IN  /\ s.agen <= d.agen /\ s.gen <= d.gen
                /\ d.agen = s.agen /\ d.gen = s.gen /\ pub.range \in Wanted(d.depth) =>
                      s.account \in pub.envelope.access

LEMMA WholeStep ==
    ASSUME TypeOK, TypeOK', Held, InJobs, IsCaptured, IsWhole, Stepping
    PROVE  IsWhole'
<1>0. \A a \in Accounts : /\ desired[a].gen \in Nat /\ desired[a].agen \in Nat
                          /\ desired'[a].gen \in Nat /\ desired'[a].agen \in Nat
                          /\ Later(desired[a], desired'[a])
  BY SourcesKept DEF TypeOK, Desired
<1>1. CASE pub'.pc = "idle"
  BY <1>1 DEF IsWhole
<1>2. CASE pub.pc # "idle" /\ pub'.range = pub.range /\ pub'.envelope = pub.envelope
  <2>1. \A s \in pub.envelope.sources : s.account \in Accounts /\ s.gen \in Nat /\ s.agen \in Nat
    BY <1>2 DEF Held, Envelope, ImportSource
  <2>. QED
    BY <1>0, <1>2, <2>1 DEF IsWhole, Later
<1>3. ASSUME NEW r \in Ranges, Taken(r), UNCHANGED desired, pub'.pc # "idle"
      PROVE  IsWhole'
  <2>1. /\ FingerprintCurrent /\ CapturesComplete /\ pub'.range = r
        /\ pub'.envelope = [gen |-> scope.gen, sources |-> sources_for,
                            access |-> batch[r].access, names |-> batch[r].names]
    BY <1>3 DEF Taken
  <2>2. pub'.envelope.sources = sources_for /\ pub'.envelope.access = batch[r].access
    BY <2>1
  <2>3. /\ scope # None /\ ScopeAccounts(scope) = Live
        /\ \A s \in scope.sources : s.depth = desired[s.account].depth
    BY <2>1, CurrentScope
  <2>4. ASSUME NEW a \in Live, r \in Wanted(desired[a].depth)
        PROVE  a \in batch[r].access
    <3>1. PICK s \in scope.sources : s.account = a
      BY <2>3 DEF ScopeAccounts
    <3>2. job[a].depth = desired[a].depth /\ job[a].state = "complete"
      BY <2>1, <2>3, <3>1 DEF InJobs, CapturesComplete
    <3>3. r \in Done(a)
      BY <2>4, <3>2 DEF Done
    <3>. QED
      BY <2>3, <3>3 DEF IsCaptured
  <2>5. ASSUME NEW s \in sources_for
        PROVE  s.account \in Live /\ s.gen = desired[s.account].gen /\ s.agen = desired[s.account].agen
    BY DEF sources_for
  <2>6. Live \subseteq Accounts
    BY DEF Live
  <2>. QED
    BY <1>0, <1>3, <2>1, <2>2, <2>4, <2>5, <2>6 DEF IsWhole
<1>4. CASE UNCHANGED pub
  BY <1>1, <1>2, <1>4
<1>5. CASE Publishing
  BY <1>1, <1>2, <1>3, <1>4, <1>5 DEF Publishing, Asked, Ended, Aged
<1>. QED
  BY <1>1, <1>4, <1>5
  DEF Stepping, Wishing, Renewing, Reconciling, Capturing, Directing, Flushing, Crashing, Resting

-----------------------------------------------------------------------------
(* Names are as new as the last invalidation. *)

InPass ==
    pass # None /\ scope.gen = pass.scope.gen =>
        /\ pass.scope.sources = scope.sources
        /\ pass.kind = "account" => /\ pass.names >= noticed
                                    /\ pass.scope.account < Cardinality(ScopeAccounts(pass.scope))
        /\ pass.kind = "batch" => /\ pass.scope.account >= Cardinality(ScopeAccounts(pass.scope))
                                  /\ Applied(pass.scope) => pass.names >= noticed

InNames ==
    scope # None =>
        /\ scope.account > 0 => scope.users >= noticed
        /\ scope.account < Cardinality(ScopeAccounts(scope)) => scope.cursor = 0
        /\ Applied(scope) =>
              \A r \in Ranges : batch[r] # None /\ (scope.pending => Past(r)) =>
                                    batch[r].names >= noticed
        /\ \A w \in Workers :
              worker[w] # None /\ worker[w].pc # "fetched" /\ worker[w].scope = scope.gen =>
                  /\ worker[w].directory <= scope.account
                  /\ worker[w].directory = scope.account /\ Applied(scope) =>
                        worker[w].users >= noticed

LEMMA PassStep ==
    ASSUME TypeOK, TypeOK', InGenerations, InPass, InNames, Stepping
    PROVE  InPass'
<1>0. /\ config.gen \in Nat /\ people \in Nat /\ noticed \in Nat /\ noticed <= people
      /\ pass # None => /\ scope # None /\ pass.scope.gen \in Nat
                        /\ pass.scope.gen <= config.gen
  BY DEF TypeOK, Pass, Scope, InGenerations
<1>1. CASE pass' = None
  BY <1>1 DEF InPass
<1>2. CASE UNCHANGED <<pass, scope, noticed>>
  BY <1>2 DEF InPass, ScopeAccounts, Applied
<1>3. CASE UNCHANGED pass /\ pass # None /\ scope'.gen # pass.scope.gen
  BY <1>3 DEF InPass
<1>4. CASE Renewing
  <2>1. pass # None => scope'.gen # pass.scope.gen
    BY <1>0, <1>4 DEF Renewing
  <2>. QED
    BY <1>1, <1>3, <1>4, <2>1 DEF Renewing
<1>5. CASE Reconciling
  <2>1. UNCHANGED <<pass, noticed>>
    BY <1>5 DEF Reconciling
  <2>2. CASE Restamped \/ Rebuilt
    <3>1. pass # None => scope'.gen # pass.scope.gen
      BY <1>0, <2>2 DEF Restamped, Rebuilt
    <3>. QED
      BY <1>1, <1>3, <2>1, <3>1
  <2>3. CASE Preserved
    BY <1>0, <1>1, <2>1, <2>3 DEF Preserved
  <2>4. CASE Settled
    BY <1>2, <2>1, <2>4 DEF Settled
  <2>. QED
    BY <1>5, <2>2, <2>3, <2>4 DEF Reconciling
<1>6. CASE Directing /\ Prepared
  <2>1. UNCHANGED <<scope, noticed>> /\ pass'.scope = scope /\ scope # None
    BY <1>6 DEF Directing, Prepared
  <2>2. Applied(scope) => scope.users >= noticed
    BY <2>1 DEF InNames, Applied
  <2>3. pass'.kind = "account" => /\ pass'.names >= noticed
                                  /\ scope.account < Cardinality(ScopeAccounts(scope))
    BY <1>0, <1>6 DEF Prepared
  <2>4. pass'.kind = "batch" => /\ scope.account >= Cardinality(ScopeAccounts(scope))
                                /\ Applied(scope) => pass'.names = scope.users
    BY <1>6 DEF Prepared
  <2>5. Applied(pass.scope)' <=> Applied(scope)
    BY <2>1 DEF Applied, ScopeAccounts
  <2>6. ScopeAccounts(pass.scope)' = ScopeAccounts(scope)
    BY <2>1 DEF ScopeAccounts
  <2>. QED
    BY <2>1, <2>2, <2>3, <2>4, <2>5, <2>6 DEF InPass
<1>. QED
  BY <1>1, <1>2, <1>4, <1>5, <1>6
  DEF Stepping, Wishing, Capturing, Directing, Publishing, Flushing, Crashing, Resting

LEMMA NamesStep ==
    ASSUME TypeOK, TypeOK', Held, InGenerations, InJobs, InPass, InNames, Stepping
    PROVE  InNames'
<1>0. /\ config.gen \in Nat /\ \A r \in Ranges : r \in Nat
      /\ scope # None => /\ scope \in Scope /\ scope.gen \in Nat /\ scope.cursor \in Nat
                         /\ scope.account \in Nat /\ scope.gen <= config.gen
      /\ noticed \in Nat
      /\ \A w \in Workers : worker[w] # None => /\ worker[w].scope \in Nat
                                                /\ worker[w].directory \in Nat
      /\ \A w \in Workers : worker[w] # None /\ worker[w].pc # "fetched" =>
            scope # None /\ worker[w].scope <= config.gen
      /\ pass # None => pass.scope.gen \in Nat /\ pass.scope.gen <= config.gen
      /\ None \notin Scope
  <2>1. /\ config.gen \in Nat /\ noticed \in Nat
        /\ scope # None => /\ scope \in Scope /\ scope.gen \in Nat /\ scope.cursor \in Nat
                           /\ scope.account \in Nat
        /\ \A w \in Workers : worker[w] # None => /\ worker[w].scope \in Nat
                                                  /\ worker[w].directory \in Nat
        /\ pass # None => pass.scope.gen \in Nat
    BY DEF TypeOK, Scope, Claim, Pass
  <2>. QED
    BY <2>1, Finite, NullAssumption DEF InGenerations
<1>00. \A r \in Ranges : r > 0
  BY Finite
<1>000. scope # None => Cardinality(ScopeAccounts(scope)) \in Nat
  BY <1>0, FiniteScope
(* The scope and the names in the batches stay. *)
<1> DEFINE Kept == \A r \in Ranges : batch'[r] # None =>
                      batch[r] # None /\ batch'[r].names = batch[r].names
<1>1. ASSUME UNCHANGED <<scope, noticed>>, Kept,
             \A r \in Ranges : batch[r] # None /\ scope # None /\ Past(r)' => Past(r),
             \A w \in Workers : worker'[w] \in {None, worker[w]}
      PROVE  InNames'
  <2>1. ScopeAccounts(scope)' = ScopeAccounts(scope) /\ (Applied(scope)' <=> Applied(scope))
    BY <1>1 DEF ScopeAccounts, Applied
  <2>. QED
    BY <1>1, <2>1 DEF InNames
<1>2. ASSUME UNCHANGED <<scope, pass, noticed, worker>>, Kept
      PROVE  InNames'
  <2>1. \A r \in Ranges : Past(r)' => Past(r)
    BY <1>2 DEF Past, PassStill
  <2>. QED
    BY <1>1, <1>2, <2>1
<1>3. CASE Renewing
  <2>1. CASE scope = None
    BY <1>3, <2>1 DEF Renewing, InNames
  <2>2. CASE scope # None
    <3>1. /\ scope'.gen = config.gen + 1 /\ scope'.account = 0 /\ scope'.cursor = 0
          /\ scope' \in Scope /\ UNCHANGED worker
      BY <1>3, <2>2 DEF Renewing
    <3>2. ~Applied(scope)'
      BY <3>1 DEF Applied
    <3>. QED
      BY <1>0, <3>1, <3>2 DEF InNames
  <2>. QED
    BY <2>1, <2>2
<1>4. CASE Reconciling
  <2>1. UNCHANGED <<worker, pass, noticed>>
    BY <1>4 DEF Reconciling
  <2>2. CASE Rebuilt \/ Preserved
    <3>1. scope'.account = 0 /\ scope'.cursor = 0
      BY <2>2 DEF Rebuilt, Preserved
    <3>2. ~Applied(scope)'
      BY <3>1 DEF Applied
    <3>3. \A w \in Workers : worker'[w] # None /\ worker'[w].pc # "fetched" =>
             worker'[w].scope # scope'.gen
      BY <1>0, <2>1, <2>2 DEF Rebuilt, Preserved
    <3>. QED
      BY <3>1, <3>2, <3>3 DEF InNames
  <2>3. CASE Restamped
    <3>1. /\ FingerprintCurrent /\ scope # None /\ scope'.gen = config.gen + 1
          /\ scope'.pending = scope.pending /\ scope'.account = scope.account
          /\ scope'.cursor = scope.cursor /\ scope'.users = scope.users
          /\ scope'.sources = sources
      BY <2>3 DEF Restamped, FingerprintCurrent
    <3>2. ScopeAccounts(scope)' = ScopeAccounts(scope)
      <4>1. ScopeAccounts(scope) = Live
        BY <3>1, CurrentScope
      <4>2. ScopeAccounts(scope)' = Live
        BY <3>1, SourceRows DEF ScopeAccounts
      <4>. QED
        BY <4>1, <4>2
    <3>3. Applied(scope)' <=> Applied(scope)
      BY <3>1, <3>2 DEF Applied
    <3>4. \A w \in Workers : worker'[w] # None /\ worker'[w].pc # "fetched" =>
             worker'[w].scope # scope'.gen
      BY <1>0, <2>1, <3>1
    <3>5. \A r \in Ranges : Past(r)' => Past(r)
      <4>1. ~PassStill'
        BY <1>0, <2>1, <3>1 DEF PassStill
      <4>. QED
        BY <3>1, <4>1 DEF Past
    <3>6. \A r \in Ranges : batch'[r] # None => /\ batch[r] # None
                                                /\ batch'[r].names = batch[r].names
      BY <2>3 DEF Restamped
    <3>. QED
      BY <2>1, <3>1, <3>2, <3>3, <3>4, <3>5, <3>6 DEF InNames
  <2>4. CASE Settled
    BY <1>2, <2>1, <2>4 DEF Settled
  <2>. QED
    BY <1>4, <2>2, <2>3, <2>4 DEF Reconciling
<1>5. CASE Capturing
  <2>1. UNCHANGED <<scope, pass, noticed>>
    BY <1>5 DEF Capturing
  <2>2. /\ ScopeAccounts(scope)' = ScopeAccounts(scope) /\ (Applied(scope)' <=> Applied(scope))
        /\ \A r \in Ranges : Past(r)' => Past(r)
    BY <2>1 DEF ScopeAccounts, Applied, Past, PassStill
  <2> DEFINE Known(c) == c # None /\ c.pc # "fetched" /\ c.scope = scope.gen =>
                            /\ c.directory <= scope.account
                            /\ c.directory = scope.account /\ Applied(scope) =>
                                  c.users >= noticed
             Fresh(r) == Applied(scope) /\ batch'[r] # None /\ (scope.pending => Past(r)) =>
                            batch'[r].names >= noticed
  <2>3. CASE scope = None
    BY <2>1, <2>3 DEF InNames
  <2>4. ASSUME scope # None, \A w \in Workers : Known(worker'[w]), \A r \in Ranges : Fresh(r)
        PROVE  InNames'
    BY <2>1, <2>2, <2>4 DEF InNames
  <2>5. ASSUME scope # None
        PROVE  /\ \A w \in Workers : Known(worker[w])
               /\ \A r \in Ranges : batch'[r] = batch[r] => Fresh(r)
               /\ Applied(scope) => scope.users >= noticed
    BY <2>5 DEF InNames, Applied
  <2> HIDE DEF Known, Fresh
  <2>6. CASE scope # None /\ Quiet
    <3>1. \A r \in Ranges : Fresh(r)
      BY <2>5, <2>6 DEF Quiet
    <3>2. ASSUME NEW w \in Workers
          PROVE  Known(worker'[w])
      <4>1. CASE worker'[w] = None
        BY <4>1 DEF Known
      <4>2. CASE worker'[w] = worker[w]
        BY <2>5, <2>6, <4>2
      <4>3. CASE worker[w] # None /\ Continued(worker[w], worker'[w])
        <5>1. CASE worker[w].pc # "fetched" /\ worker'[w].scope = worker[w].scope
                   /\ worker'[w].directory = worker[w].directory
                   /\ worker'[w].users = worker[w].users
          <6>1. Known(worker[w])
            BY <2>5, <2>6
          <6>. QED
            BY <4>3, <5>1, <6>1 DEF Known
        <5>2. CASE worker'[w].directory = scope.account
                   /\ (Applied(scope) => worker'[w].users = scope.users)
          BY <1>0, <2>5, <2>6, <5>2 DEF Known
        <5>. QED
          BY <4>3, <5>1, <5>2 DEF Continued
      <4>. QED
        BY <2>6, <4>1, <4>2, <4>3 DEF Quiet
    <3>. QED
      BY <2>4, <2>6, <3>1, <3>2
  <2>7. ASSUME scope # None, NEW w \in Workers, NEW a \in Accounts, Claimed(w, a)
        PROVE  InNames'
    <3>1. \A r \in Ranges : Fresh(r)
      BY <2>5, <2>7 DEF Claimed
    <3>2. ASSUME NEW v \in Workers
          PROVE  Known(worker'[v])
      <4>1. CASE v = w
        BY <2>7, <4>1 DEF Claimed, Known
      <4>2. CASE v # w
        BY <2>5, <2>7, <4>2 DEF Claimed
      <4>. QED
        BY <4>1, <4>2
    <3>. QED
      BY <2>4, <2>7, <3>1, <3>2
  <2>8. ASSUME scope # None, NEW w \in Workers, Saved(w, worker[w])
        PROVE  InNames'
    <3>1. \A r \in Ranges : Fresh(r)
      <4>1. Known(worker[w]) /\ worker[w] # None
        BY <2>5, <2>8, NullAssumption DEF Saved
      <4>2. Applied(scope) => worker[w].users >= noticed
        BY <2>8, <4>1 DEF Saved, Known
      <4>3. Fresh(worker[w].range)
        BY <2>8, <4>2 DEF Saved, Fresh
      <4>. QED
        BY <2>5, <2>8, <4>3 DEF Saved
    <3>2. ASSUME NEW v \in Workers
          PROVE  Known(worker'[v])
      <4>1. CASE v = w
        BY <2>8, <4>1 DEF Saved, Known
      <4>2. CASE v # w
        BY <2>5, <2>8, <4>2 DEF Saved
      <4>. QED
        BY <4>1, <4>2
    <3>. QED
      BY <2>4, <2>8, <3>1, <3>2
  <2>. QED
    BY <1>5, <2>3, <2>6, <2>7, <2>8 DEF Capturing
<1>6. CASE Directing
  <2>1. UNCHANGED <<worker, noticed>>
    BY <1>6 DEF Directing
  <2>2. CASE Prepared
    <3>1. UNCHANGED <<scope, batch>> /\ scope # None
      BY <2>2 DEF Prepared
    <3>2. ASSUME NEW r \in Ranges, batch[r] # None, Past(r)'
          PROVE  Past(r)
      BY <1>0, <2>2, <3>1, <3>2 DEF Prepared, Past, PassStill
    <3>. QED
      BY <1>1, <2>1, <3>1, <3>2
  <2>3. CASE pass' = None /\ UNCHANGED <<scope, batch>>
    <3>1. \A r \in Ranges : Past(r)' => Past(r)
      BY <2>3 DEF Past, PassStill
    <3>. QED
      BY <1>1, <2>1, <2>3, <3>1
  (* The scope goes on under its generation; nobody holds a later directory. *)
  <2> DEFINE Fresh(r) == scope'.account > 0 /\ scope'.account >= Cardinality(ScopeAccounts(scope))
                         /\ batch'[r] # None /\ (scope'.pending => r <= scope'.cursor) =>
                            batch'[r].names >= noticed
  <2>4. ASSUME pass' = None, scope # None, scope' \in Scope, scope'.gen = scope.gen,
               scope'.sources = scope.sources,
               \/ scope'.account = scope.account /\ scope'.users = scope.users
               \/ scope'.account = scope.account + 1 /\ scope'.users >= noticed,
               scope'.account < Cardinality(ScopeAccounts(scope)) => scope'.cursor = 0,
               \A r \in Ranges : Fresh(r)
        PROVE  InNames'
    <3>1. /\ ScopeAccounts(scope)' = ScopeAccounts(scope)
          /\ Applied(scope)' <=> scope'.account > 0
                                 /\ scope'.account >= Cardinality(ScopeAccounts(scope))
      BY <2>4 DEF ScopeAccounts, Applied
    <3>2. \A r \in Ranges : Past(r)' <=> r <= scope'.cursor
      BY <2>4 DEF Past, PassStill
    <3>3. scope'.account > 0 => scope'.users >= noticed
      BY <1>0, <2>4 DEF InNames
    <3>4. ASSUME NEW w \in Workers, worker[w] # None, worker[w].pc # "fetched",
                 worker[w].scope = scope.gen
          PROVE  /\ worker[w].directory <= scope'.account
                 /\ worker[w].directory = scope'.account /\ Applied(scope)' =>
                       worker[w].users >= noticed
      <4>1. /\ worker[w].directory <= scope.account /\ worker[w].directory \in Nat
            /\ worker[w].directory = scope.account /\ Applied(scope) => worker[w].users >= noticed
        BY <1>0, <2>4, <3>4 DEF InNames
      <4>2. scope'.account = scope.account => (Applied(scope)' <=> Applied(scope))
        BY <2>4, <3>1 DEF Applied
      <4>. QED
        BY <1>0, <2>4, <4>1, <4>2
    <3> HIDE DEF Fresh
    <3>5. \A r \in Ranges : Applied(scope)' /\ batch'[r] # None /\ (scope'.pending => Past(r)') =>
                               batch'[r].names >= noticed
      BY <2>4, <3>1, <3>2 DEF Fresh
    <3>. QED
      BY <2>1, <2>4, <3>1, <3>3, <3>4, <3>5 DEF InNames
  <2>5. ASSUME scope # None, scope.pending, NEW r \in Ranges, batch[r] # None, Applied(scope),
               r <= scope.cursor
        PROVE  batch[r].names >= noticed
    BY <2>5 DEF InNames, Past
  <2>6. CASE pass' = None /\ pass # None /\ Refreshing
    <3>1. /\ scope # None /\ scope.pending /\ scope.gen = pass.scope.gen
          /\ scope.account = pass.scope.account /\ pass.kind = "account"
      BY <2>6 DEF Refreshing, PassCurrent
    <3>2. /\ pass.names >= noticed
          /\ scope.account < Cardinality(ScopeAccounts(scope))
      BY <2>6, <3>1 DEF InPass, ScopeAccounts
    <3>3. scope.cursor = 0
      BY <3>1, <3>2 DEF InNames
    <3>. QED
      BY <1>0, <1>00, <2>4, <2>6, <3>1, <3>2, <3>3 DEF Refreshing
  <2>7. CASE pass' = None /\ pass # None /\ Rewriting
    <3>1. /\ scope # None /\ scope.pending /\ scope.gen = pass.scope.gen
          /\ scope.account = pass.scope.account /\ scope.cursor = pass.scope.cursor
          /\ pass.kind = "batch" /\ pass.range \in Ranges /\ PassStill
      BY <2>7 DEF Rewriting, PassCurrent, PassStill, Held
    <3>2. /\ scope.account >= Cardinality(ScopeAccounts(scope))
          /\ Applied(scope) => pass.names >= noticed
      BY <2>7, <3>1 DEF InPass, ScopeAccounts, Applied
    <3>3. ASSUME NEW r \in Ranges
          PROVE  Fresh(r)
      <4>1. CASE r = pass.range
        BY <2>7, <3>2, <4>1 DEF Rewriting, Applied
      <4>2. CASE r # pass.range
        <5>1. r <= pass.range => Past(r)
          BY <1>0, <3>1, <4>2 DEF Past
        <5>2. Applied(scope) /\ batch[r] # None /\ r <= pass.range => batch[r].names >= noticed
          BY <3>1, <5>1 DEF InNames
        <5>. QED
          BY <2>7, <3>1, <3>2, <4>2, <5>2 DEF Rewriting, Applied
      <4>. QED
        BY <4>1, <4>2
    <3> HIDE DEF Fresh
    <3>. QED
      BY <1>0, <1>000, <2>4, <2>7, <3>1, <3>2, <3>3 DEF Rewriting
  <2>8. CASE pass' = None /\ pass # None /\ Acknowledged
    <3>1. /\ scope # None /\ scope.pending /\ LaterBatches(scope.cursor) = {} /\ UNCHANGED batch
      BY <2>8 DEF Acknowledged, PassCurrent
    <3>2. \A r \in Ranges : batch[r] # None => r <= scope.cursor
      BY <1>0, <3>1 DEF LaterBatches
    <3>3. \A r \in Ranges : Fresh(r)
      BY <2>5, <2>8, <3>1, <3>2 DEF Acknowledged, Applied
    <3>4. scope.account < Cardinality(ScopeAccounts(scope)) => scope.cursor = 0
      BY <3>1 DEF InNames
    <3> HIDE DEF Fresh
    <3>. QED
      BY <1>0, <2>4, <2>8, <3>1, <3>3, <3>4 DEF Acknowledged
  <2>9. CASE pass' = None /\ Deferred /\ UNCHANGED batch
    <3>1. scope # None /\ scope.pending
      BY <2>9 DEF Deferred, PassCurrent
    <3>2. \A r \in Ranges : Fresh(r)
      BY <2>5, <2>9, <3>1 DEF Deferred, Applied
    <3>3. scope.account < Cardinality(ScopeAccounts(scope)) => scope.cursor = 0
      BY <3>1 DEF InNames
    <3> HIDE DEF Fresh
    <3>. QED
      BY <1>0, <2>4, <2>9, <3>1, <3>2, <3>3 DEF Deferred
  <2>. QED
    BY <1>6, <2>2, <2>3, <2>6, <2>7, <2>8, <2>9 DEF Directing
<1>7. CASE Crashing
  <2>1. UNCHANGED <<scope, batch, noticed>> /\ pass' = None /\ \A w \in Workers : worker'[w] = None
    BY <1>7 DEF Crashing
  <2>2. \A r \in Ranges : Past(r)' => Past(r)
    BY <2>1 DEF Past, PassStill
  <2>. QED
    BY <1>1, <2>1, <2>2
<1>8. CASE Wishing \/ Flushing \/ Resting
  BY <1>2, <1>8 DEF Wishing, Flushing, Resting
<1>9. CASE Publishing
  <2>1. UNCHANGED <<scope, pass, noticed, worker>>
    BY <1>9 DEF Publishing
  <2>2. ASSUME NEW r \in Ranges, Taken(r)
        PROVE  Kept
    BY <2>2 DEF Taken
  <2>3. ASSUME NEW r \in Ranges, Aged(r)
        PROVE  Kept
    BY <2>3 DEF Aged
  <2>4. Asked => Kept
    BY DEF Asked
  <2>5. Ended => Kept
    BY DEF Ended, Returned, Mine
  <2>. QED
    BY <1>2, <1>9, <2>1, <2>2, <2>3, <2>4, <2>5 DEF Publishing
<1>. QED
  BY <1>3, <1>4, <1>5, <1>6, <1>7, <1>8, <1>9 DEF Stepping

-----------------------------------------------------------------------------
(* A finished report of a rejected batch was told to every source. *)

IsTold ==
    scope # None /\ report # None /\ report.gen = scope.gen /\ report.code = "rejected" =>
        \A s \in scope.sources :
            s.account <= report.after \/ report.complete => <<s.account, s.gen, "rejected">> \in told

LEMMA ToldStep ==
    ASSUME TypeOK, TypeOK', InGenerations, IsTold, Stepping
    PROVE  IsTold'
<1>0. /\ config.gen \in Nat /\ None \notin Scope /\ None \notin Report
      /\ report # None => report \in Report /\ report.gen \in Nat /\ report.gen <= config.gen
                          /\ report.after \in Nat /\ scope # None
      /\ scope # None => scope.sources \in SUBSET Source
  BY NullAssumption DEF TypeOK, Report, Scope, InGenerations
<1>1. CASE UNCHANGED <<scope, report, told>>
  BY <1>1 DEF IsTold
<1>2. CASE report' = None \/ scope' = None
  BY <1>2 DEF IsTold
<1>3. CASE report'.gen # scope'.gen \/ report'.code # "rejected"
  BY <1>3 DEF IsTold
<1>4. ASSUME scope' # None, scope'.gen = config.gen + 1, NEW k \in Report \cup {None},
             Carried(report, k, scope'.gen), Carried(k, report', scope'.gen)
      PROVE  IsTold'
  BY <1>0, <1>2, <1>3, <1>4 DEF Carried
<1>5. CASE Renewing
  <2>1. CASE scope = None
    BY <1>0, <1>2, <1>5, <2>1 DEF Renewing
  <2>2. CASE scope # None
    BY <1>0, <1>2, <1>3, <1>5, <2>2 DEF Renewing, Carried
  <2>. QED
    BY <2>1, <2>2
<1>6. CASE Reconciling
  <2>1. CASE Restamped
    BY <1>0, <1>4, <2>1 DEF Restamped
  <2>2. CASE Rebuilt
    BY <1>2, <2>2 DEF Rebuilt
  <2>3. CASE Preserved
    BY <1>0, <1>2, <2>3 DEF Preserved
  <2>4. CASE Settled
    BY <1>1, <1>6, <2>4 DEF Settled, Reconciling
  <2>. QED
    BY <1>6, <2>1, <2>2, <2>3, <2>4 DEF Reconciling
(* A report that is new has told nobody. *)
<1>7. ASSUME scope # None, scope' # None, scope'.gen = scope.gen, scope'.sources = scope.sources,
             UNCHANGED told,
             report' = report \/ report'.code # "rejected"
             \/ (report'.after = 0 /\ ~report'.complete)
      PROVE  IsTold'
  <2>1. \A s \in scope.sources : s.account \in Nat \ {0}
    BY <1>0, <1>7, Finite DEF Source
  <2>. QED
    BY <1>7, <2>1 DEF IsTold
<1>8. \A r, gen, restart : record(r, gen, "rejected", restart) = r
            \/ /\ record(r, gen, "rejected", restart).after = 0
               /\ ~record(r, gen, "rejected", restart).complete
  BY DEF record, NewReport
<1>9. \A r, gen, restart : \A code \in {"capture_timeout", "directory_timeout"} :
         record(r, gen, code, restart) = r \/ record(r, gen, code, restart).code # "rejected"
  BY DEF record, NewReport
<1>10. CASE Capturing
  <2>1. UNCHANGED <<scope, told>>
    BY <1>10 DEF Capturing
  <2>2. UNCHANGED report \/ (scope # None /\ report' = record(report, scope.gen, "capture_timeout", TRUE))
    BY <1>10 DEF Capturing, Quiet, Claimed, Saved
  <2>. QED
    BY <1>1, <1>7, <1>9, <2>1, <2>2
<1>11. CASE Directing
  <2>1. UNCHANGED told
    BY <1>11 DEF Directing
  <2>2. CASE Deferred
    <3>1. /\ scope # None /\ scope' # None /\ scope'.gen = scope.gen
          /\ scope'.sources = scope.sources
      BY <1>0, <2>2 DEF Deferred, PassCurrent
    <3>2. UNCHANGED report \/ report' = record(report, scope.gen, "directory_timeout", FALSE)
      BY <2>2 DEF Deferred
    <3>. QED
      BY <1>7, <1>9, <2>1, <3>1, <3>2
  <2>3. CASE (Refreshing \/ Rewriting \/ Acknowledged) /\ UNCHANGED report
    <3>1. /\ scope # None /\ scope' # None /\ scope'.gen = scope.gen
          /\ scope'.sources = scope.sources
      BY <1>0, <2>3 DEF Refreshing, Rewriting, Acknowledged, PassCurrent
    <3>. QED
      BY <1>7, <2>1, <2>3, <3>1
  <2>4. Prepared => UNCHANGED <<scope, report>>
    BY DEF Prepared
  <2>. QED
    BY <1>1, <1>11, <2>1, <2>2, <2>3, <2>4 DEF Directing
<1>12. CASE Publishing
  <2>1. UNCHANGED scope
    BY <1>12 DEF Publishing
  <2>2. CASE UNCHANGED <<report, told>>
    BY <1>1, <2>1, <2>2
  <2>3. CASE /\ current /\ told' = told
             /\ report' = record(report, pub.envelope.gen, "rejected", FALSE)
    BY <1>7, <1>8, <2>1, <2>3 DEF current, FingerprintCurrent
  <2>. QED
    BY <1>12, <2>2, <2>3 DEF Publishing, Taken, Asked, Ended, Aged
<1>13. CASE Flushing
  <2>1. UNCHANGED scope /\ report # None /\ scope # None
    BY <1>0, <1>13 DEF Flushing
  <2>2. CASE Retired
    BY <1>2, <2>2 DEF Retired
  <2>3. CASE Told
    <3>1. /\ \A a \in ScopeAccounts(scope) : a <= report.after
          /\ told' = told /\ report'.gen = report.gen /\ report'.code = report.code
      BY <2>3 DEF Told
    <3>. QED
      BY <2>1, <3>1 DEF IsTold, ScopeAccounts
  <2>4. ASSUME NEW first \in Accounts, Telling(first)
        PROVE  IsTold'
    <3>1. /\ FingerprintCurrent /\ first \in ScopeAccounts(scope) /\ report.after < first
          /\ \A a \in ScopeAccounts(scope) : report.after < a => first <= a
          /\ told' = told \cup {<<first, desired[first].gen, report.code>>}
          /\ report'.gen = report.gen /\ report'.code = report.code
          /\ report'.after = first /\ ~report'.complete
      BY <2>4 DEF Telling, ScopeCurrent
    <3>2. SUFFICES ASSUME report.gen = scope.gen, report.code = "rejected",
                          NEW s \in scope.sources, s.account <= first
                   PROVE  <<s.account, s.gen, "rejected">> \in told'
      BY <2>1, <3>1 DEF IsTold
    <3>3. s.account \in ScopeAccounts(scope) /\ s.account \in Nat /\ first \in Nat
          /\ report.after \in Nat
      BY <1>0, <2>1, Finite DEF ScopeAccounts, Source
    <3>4. CASE s.account <= report.after
      BY <2>1, <3>1, <3>2, <3>4 DEF IsTold
    <3>5. CASE report.after < s.account
      <4>1. s.account = first
        BY <3>1, <3>2, <3>3, <3>5
      <4>2. s.gen = desired[first].gen
        BY <3>1, <4>1, CurrentScope
      <4>. QED
        BY <3>1, <3>2, <4>1, <4>2
    <3>. QED
      BY <3>3, <3>4, <3>5
  <2>. QED
    BY <1>13, <2>2, <2>3, <2>4 DEF Flushing
<1>. QED
  BY <1>1, <1>5, <1>6, <1>10, <1>11, <1>12, <1>13
  DEF Stepping, Wishing, Crashing, Resting

-----------------------------------------------------------------------------
(* The invariant *)

(* What a thread, the pass and the publisher hold agrees with the rows it  *)
(* was read from, or the row's generation, lease or claim tells it apart.  *)
Consistent ==
    /\ TypeOK /\ Held /\ InGenerations
    /\ InSources /\ InJobs /\ InClaims /\ IsCaptured
    /\ InBatches /\ IsPassed /\ InPublisher /\ IsWhole
    /\ InPass /\ InNames /\ IsTold

LEMMA InitConsistent == Init => Consistent
<1> SUFFICES ASSUME Init
             PROVE  Consistent
  OBVIOUS
<1>1. TypeOK
  BY InitType
<1>2. /\ scope = None /\ report = None /\ pass = None /\ pub.pc = "idle"
      /\ \A w \in Workers : worker[w] = None
      /\ \A r \in Ranges : batch[r] = None
      /\ \A a \in Accounts : job[a] = NoJob
  BY DEF Init, IdlePub
<1>3. InJobs
  BY <1>2 DEF InJobs, Anchored, Unstarted, NoJob
<1>. QED
  BY <1>1, <1>2, <1>3
  DEF Consistent, Held, InGenerations, InSources, InClaims, IsCaptured, InBatches, IsPassed,
      InPublisher, IsWhole, InPass, InNames, IsTold

LEMMA NextConsistent == Consistent /\ [Next]_vars => Consistent'
<1> SUFFICES ASSUME Consistent, [Next]_vars
             PROVE  Consistent'
  OBVIOUS
<1>0. /\ TypeOK /\ Held /\ InGenerations
      /\ InSources /\ InJobs /\ InClaims /\ IsCaptured
      /\ InBatches /\ IsPassed /\ InPublisher /\ IsWhole
      /\ InPass /\ InNames /\ IsTold
  BY DEF Consistent
<1>1. TypeOK' /\ Stepping
  BY <1>0, StepKinds
<1>2. Held'
  BY <1>0, <1>1, HeldStep
<1>3. InGenerations'
  BY <1>0, <1>1, GenerationsStep
<1>4. InSources'
  BY <1>0, <1>1, SourcesStep
<1>5. InJobs'
  BY <1>0, <1>1, JobsStep
<1>6. InClaims'
  BY <1>0, <1>1, ClaimsStep
<1>7. IsCaptured'
  BY <1>0, <1>1, CapturedStep
<1>8. InBatches'
  BY <1>0, <1>1, BatchesStep
<1>9. IsPassed'
  BY <1>0, <1>1, PassedStep
<1>10. InPublisher'
  BY <1>0, <1>1, <1>2, PublisherStep
<1>11. IsWhole'
  BY <1>0, <1>1, WholeStep
<1>12. InPass'
  BY <1>0, <1>1, PassStep
<1>13. InNames'
  BY <1>0, <1>1, NamesStep
<1>14. IsTold'
  BY <1>0, <1>1, ToldStep
<1>. QED
  BY <1>1, <1>2, <1>3, <1>4, <1>5, <1>6, <1>7, <1>8, <1>9, <1>10, <1>11, <1>12, <1>13, <1>14
  DEF Consistent

(* Every state that the threads, the pass and the publisher can reach,     *)
(* whatever changes, renames, restarts and failed calls come between, is   *)
(* consistent: the rows of zulip_history_scopes, zulip_backfill_jobs and   *)
(* zulip_history_batches and what was read from them belong together.      *)
THEOREM AlwaysConsistent == Spec => []Consistent
<1>1. Init => Consistent
  BY InitConsistent
<1>2. Consistent /\ [Next]_vars => Consistent'
  BY NextConsistent
<1>. QED
  BY <1>1, <1>2, PTL DEF Spec

(* Rows, claims, the prepared quantum and the publisher's request keep     *)
(* their types in every step of the actors.                                *)
THEOREM HistoryTypes == Spec => []TypeOK
<1>1. Consistent => TypeOK
  BY DEF Consistent
<1>. QED
  BY <1>1, AlwaysConsistent, PTL

(* advance_backfill_job never passes a range whose observations are not    *)
(* stored, although reconcile, the reaper and other accounts' writes come  *)
(* between the claim, the read of the stored body and the write.           *)
THEOREM CheckpointsHold == Spec => []CheckpointIsCaptured
<1>1. Consistent => CheckpointIsCaptured
  <2>1. SUFFICES ASSUME Consistent, FingerprintCurrent
                 PROVE  \A a \in Live : \A r \in Done(a) : batch[r] # None /\ a \in batch[r].access
    BY DEF CheckpointIsCaptured
  <2>2. scope # None /\ ScopeAccounts(scope) = Live
    BY <2>1, CurrentScope DEF Consistent
  <2>. QED
    BY <2>1, <2>2 DEF Consistent, IsCaptured
<1>. QED
  BY <1>1, AlwaysConsistent, PTL

(* What HistoryPublisher marks complete was imported by Workspace with     *)
(* exactly the stored body, under the current generation and with the      *)
(* current sources: restamps, rewrites and lost leases withdraw the rest.  *)
THEOREM PublicationHolds == Spec => []PublishedIsCurrent
<1>1. Consistent => PublishedIsCurrent
  <2>1. SUFFICES ASSUME Consistent, FingerprintCurrent, scope.sources = sources, ~scope.pending,
                        NEW r \in Ranges, batch[r] # None, batch[r].status = "complete",
                        batch[r].access \subseteq Live
                 PROVE  import[r] = [gen |-> scope.gen, sources |-> sources_for,
                                     access |-> batch[r].access, names |-> batch[r].names]
    BY DEF PublishedIsCurrent
  <2>2. TypeOK /\ InBatches
    BY <2>1 DEF Consistent
  <2>3. scope # None /\ ScopeAccounts(scope) = Live
    BY <2>1, <2>2, CurrentScope
  <2>4. Matching(batch[r].sources) /\ Granted(r, batch[r])
    BY <2>1, <2>2, <2>3 DEF InBatches, Untouched
  <2>5. import[r] = [gen |-> scope.gen, sources |-> batch[r].sources,
                     access |-> batch[r].access, names |-> batch[r].names]
    BY <2>1, <2>4 DEF Granted
  <2> DEFINE Row(a) == [account |-> a, gen |-> desired[a].gen, agen |-> desired[a].agen]
             rows == batch[r].sources
  <2>6. sources_for = {Row(a) : a \in Live}
    BY DEF sources_for
  <2>7. ASSUME NEW x \in rows
        PROVE  x.account \in Live /\ x = Row(x.account)
    <3>1. PICK s \in sources : s.account = x.account /\ s.gen = x.gen /\ s.agen <= x.agen
      BY <2>1, <2>4 DEF Matching
    <3>2. x.account \in Live /\ s.gen = desired[x.account].gen /\ s.agen = desired[x.account].agen
      BY <2>2, <3>1, SourceRows
    <3>3. x \in ImportSource /\ x.agen <= desired[x.account].agen
      BY <2>4 DEF Matching
    <3>4. desired[x.account].agen \in Nat /\ x.agen \in Nat
      BY <2>2, <3>2, <3>3 DEF TypeOK, Live, Desired, ImportSource
    <3>5. x.gen = desired[x.account].gen /\ x.agen = desired[x.account].agen
      BY <3>1, <3>2, <3>3, <3>4
    <3>. QED
      BY <3>2, <3>3, <3>5 DEF ImportSource
  <2>8. ASSUME NEW a \in Live
        PROVE  Row(a) \in rows
    <3>1. PICK s \in scope.sources : s.account = a
      BY <2>1, <2>2, SourceRows
    <3>2. PICK x \in rows : x.account = a
      BY <2>4, <3>1 DEF Matching
    <3>. QED
      BY <2>7, <3>2
  <2> HIDE DEF Row
  <2>9. rows = sources_for
    BY <2>6, <2>7, <2>8
  <2>. QED
    BY <2>5, <2>9
<1>. QED
  BY <1>1, AlwaysConsistent, PTL

(* A posted range has the observations of every source whose depth reaches *)
(* it: claim waits for the captures, and later changes of the assignments  *)
(* are told apart by their generations.                                    *)
THEOREM PostsAreWhole == Spec => []PostedIsWhole
<1>1. Consistent => PostedIsWhole
  BY DEF Consistent, IsWhole, PostedIsWhole
<1>. QED
  BY <1>1, AlwaysConsistent, PTL

(* When the directory is applied and acknowledged, no stored batch shows a *)
(* name older than the last invalidation, neither one that refresh_once    *)
(* rewrote nor one that was saved behind its cursor meanwhile.             *)
THEOREM NamesHold == Spec => []NamesAreApplied
<1>1. Consistent => NamesAreApplied
  BY DEF Consistent, InNames, NamesAreApplied, NamesSince
<1>. QED
  BY <1>1, AlwaysConsistent, PTL

-----------------------------------------------------------------------------
(* Failures *)

(* Sources that differed from those of the scope are its sources again,    *)
(* and no reconciliation has made a new scope meanwhile.                   *)
SourcesTurnedBack ==
    scope # None /\ ~FingerprintCurrent /\ scope'.sources = scope.sources /\ FingerprintCurrent'

IsReported ==
    /\ FingerprintCurrent /\ ~scope.pending
    /\ \E r \in Ranges : batch[r] # None /\ batch[r].status = "failed"
    => report # None /\ report.gen = scope.gen /\ report.code = "rejected"

LEMMA ReportedStep ==
    ASSUME TypeOK, TypeOK', Held, InGenerations, InJobs, IsPassed, IsReported, Stepping,
           ~SourcesTurnedBack
    PROVE  IsReported'
<1> DEFINE Failed == \E r \in Ranges : batch[r] # None /\ batch[r].status = "failed"
           Reported == report # None /\ report.gen = scope.gen /\ report.code = "rejected"
<1>0. /\ None \notin Scope /\ None \notin Report
      /\ \A r \in Ranges : batch[r] # None => scope # None
      /\ IsReported <=> (FingerprintCurrent /\ ~scope.pending /\ Failed => Reported)
  BY NullAssumption DEF InJobs, IsReported
<1> SUFFICES ASSUME FingerprintCurrent', ~scope'.pending, Failed'
             PROVE  Reported'
  BY DEF IsReported
<1>1. scope' # None
  BY DEF FingerprintCurrent
<1>2. ASSUME scope # None, scope'.sources = scope.sources
      PROVE  FingerprintCurrent
  BY <1>2 DEF SourcesTurnedBack
<1> HIDE DEF Failed, Reported
<1>3. ASSUME UNCHANGED <<scope, batch, report>>
      PROVE  Reported'
  <2>1. Failed /\ scope # None /\ ~scope.pending
    BY <1>0, <1>1, <1>3 DEF Failed
  <2>2. Reported
    BY <1>0, <1>2, <1>3, <2>1
  <2>. QED
    BY <1>3, <2>2 DEF Reported
<1>4. ASSUME UNCHANGED scope, Failed => Reported, Failed,
             report' # None, report'.gen = report.gen, report'.code = report.code
      PROVE  Reported'
  BY <1>4 DEF Reported
<1>5. \A r, gen : \A code \in {"capture_timeout", "directory_timeout"} : \A restart :
         r # None /\ r.gen = gen /\ r.code = "rejected" /\ code = "capture_timeout" =>
            record(r, gen, code, restart) = r
  BY DEF record
<1>6. CASE Wishing \/ Crashing \/ Resting
  BY <1>3, <1>6 DEF Wishing, Crashing, Resting
<1>7. CASE Renewing
  BY <1>0, <1>1, <1>7 DEF Renewing
<1>8. CASE Reconciling
  <2>1. CASE Restamped \/ Rebuilt
    BY <2>1 DEF Restamped, Rebuilt, Failed
  <2>2. CASE Preserved
    BY <1>0, <2>2 DEF Preserved, Failed
  <2>3. CASE Settled
    BY <1>3, <2>3 DEF Settled
  <2>. QED
    BY <1>8, <2>1, <2>2, <2>3 DEF Reconciling
<1>9. CASE Capturing
  <2>1. UNCHANGED scope /\ scope # None
    BY <1>1, <1>9 DEF Capturing
  <2>2. Failed
    <3>1. ASSUME NEW w \in Workers, Saved(w, worker[w])
          PROVE  Failed
      BY <3>1 DEF Saved, Untouched, Failed
    <3>. QED
      BY <1>9, <3>1 DEF Capturing, Quiet, Claimed, Failed
  <2>3. Reported
    BY <1>0, <1>2, <2>1, <2>2, SMTT(20)
  <2>4. UNCHANGED report \/ report' = record(report, scope.gen, "capture_timeout", TRUE)
    BY <1>9 DEF Capturing, Quiet, Claimed, Saved
  <2>5. UNCHANGED report
    BY <1>5, <2>3, <2>4 DEF Reported
  <2>. QED
    BY <2>1, <2>3, <2>5 DEF Reported
<1>10. CASE Directing
  <2>1. CASE Prepared
    BY <1>3, <2>1 DEF Prepared
  <2>2. CASE Refreshing \/ Rewriting \/ Deferred
    BY <2>2 DEF Refreshing, Rewriting, Deferred, PassCurrent
  <2>3. CASE Acknowledged
    <3>1. UNCHANGED batch /\ scope # None /\ scope.pending /\ LaterBatches(scope.cursor) = {}
      BY <2>3 DEF Acknowledged, PassCurrent
    <3>2. scope.cursor \in Nat /\ \A r \in Ranges : r \in Nat
      BY <3>1, Finite, SMTT(20) DEF TypeOK, Scope
    <3>3. \A r \in Ranges : batch[r] # None => r <= scope.cursor
      BY <3>1, <3>2 DEF LaterBatches
    <3>4. \A r \in Ranges : batch[r] # None => Untouched(batch[r])
      BY <3>1, <3>3 DEF IsPassed, Past
    <3>. QED
      BY <3>1, <3>4 DEF Untouched, Failed
  <2>4. CASE UNCHANGED <<scope, batch, report>>
    BY <1>3, <2>4
  <2>. QED
    BY <1>10, <2>1, <2>2, <2>3, <2>4 DEF Directing
<1>11. CASE Publishing
  <2>1. UNCHANGED scope /\ scope # None /\ ~scope.pending
    BY <1>1, <1>11 DEF Publishing
  <2>2. Failed => Reported
    BY <1>0, <1>2, <2>1
  <2>3. ASSUME UNCHANGED report, Failed
        PROVE  Reported'
    BY <2>1, <2>2, <2>3 DEF Reported
  <2>4. ASSUME current, report' = record(report, pub.envelope.gen, "rejected", FALSE)
        PROVE  Reported'
    <3>1. scope.gen = pub.envelope.gen
      BY <2>4 DEF current
    <3>2. report'.gen = pub.envelope.gen /\ report'.code = "rejected"
      BY <2>4 DEF record, NewReport
    <3>3. report' # None
      <4>1. NewReport(pub.envelope.gen, "rejected") \in Report
        <5>1. pub.envelope.gen \in Nat
          BY <2>1, <3>1 DEF TypeOK, Scope
        <5>. QED
          BY <5>1 DEF NewReport, Report, Codes
      <4>. QED
        BY <1>0, <2>4, <4>1 DEF record
    <3>. QED
      BY <2>1, <3>1, <3>2, <3>3 DEF Reported
  <2>5. ASSUME NEW r \in Ranges, Taken(r)
        PROVE  Reported'
    BY <2>3, <2>5 DEF Taken, Failed
  <2>6. CASE Asked
    BY <2>3, <2>6 DEF Asked, Failed
  <2>7. CASE Ended
    <3>1. CASE UNCHANGED batch
      <4>1. Failed
        BY <3>1 DEF Failed
      <4>. QED
        BY <2>3, <2>4, <2>7, <4>1 DEF Ended
    <3>2. CASE Returned(pub.range)
      <4>1. CASE batch'[pub.range].status = "failed"
        BY <2>4, <3>2, <4>1 DEF Returned
      <4>2. CASE batch'[pub.range].status # "failed"
        <5>1. Failed
          BY <2>7, <4>2 DEF Ended, Failed
        <5>. QED
          BY <2>3, <2>4, <2>7, <5>1 DEF Ended
      <4>. QED
        BY <4>1, <4>2
    <3>. QED
      BY <2>7, <3>1, <3>2 DEF Ended
  <2>8. ASSUME NEW r \in Ranges, Aged(r)
        PROVE  Reported'
    BY <2>3, <2>8 DEF Aged, Failed
  <2>. QED
    BY <1>11, <2>5, <2>6, <2>7, <2>8 DEF Publishing
<1>12. CASE Flushing
  <2>1. UNCHANGED <<scope, batch>> /\ scope # None
    BY <1>1, <1>12 DEF Flushing
  <2>2. Failed /\ ~scope.pending
    BY <2>1 DEF Failed
  <2>3. FingerprintCurrent /\ Reported
    BY <1>0, <1>2, <2>1, <2>2
  <2>4. ScopeCurrent(report) /\ report.code # "capture_timeout"
    BY <2>2, <2>3 DEF Reported, ScopeCurrent
  <2>5. report' \in Report /\ report'.gen = report.gen /\ report'.code = report.code
    BY <1>12, <2>4 DEF Flushing, Retired, Told, Telling
  <2>. QED
    BY <1>0, <2>1, <2>3, <2>5 DEF Reported
<1>. QED
  BY <1>6, <1>7, <1>8, <1>9, <1>10, <1>11, <1>12 DEF Stepping

(* The report of a failed batch is lost in one way only. *)
ReportIsKept ==
    /\ IsReported
    /\ [][IsReported => IsReported' \/ SourcesTurnedBack]_vars
    /\ [](IsReported => FailureIsReported)

(* A batch that HistoryPublisher failed for good has its report, and a     *)
(* finished report was told to every source account. flush_once does not   *)
(* retire it, no other report replaces it, and no rebuild or restamp loses *)
(* it, until the sources turn back before _reconcile_scope has seen that   *)
(* they had changed: that one step may leave the batch without a report.   *)
THEOREM FailuresAreReported == Spec => ReportIsKept
<1>1. Init => IsReported
  BY DEF Init, IsReported, FingerprintCurrent
<1>2. Consistent /\ [Next]_vars => [IsReported => IsReported' \/ SourcesTurnedBack]_vars
  <2> SUFFICES ASSUME Consistent, IsReported, Next, ~SourcesTurnedBack
               PROVE  IsReported'
    BY DEF vars
  <2>1. TypeOK /\ Held /\ InGenerations /\ InJobs /\ IsPassed
    BY DEF Consistent
  <2>2. TypeOK' /\ Stepping
    BY <2>1, StepKinds
  <2>. QED
    BY <2>1, <2>2, ReportedStep
<1>3. Consistent /\ IsReported => FailureIsReported
  <2>1. SUFFICES ASSUME Consistent, IsReported, FingerprintCurrent, scope.sources = sources,
                        ~scope.pending,
                        \E r \in Ranges : batch[r] # None /\ batch[r].status = "failed"
                 PROVE  /\ report # None /\ report.gen = scope.gen /\ report.code = "rejected"
                        /\ report.complete => \A a \in Live : <<a, desired[a].gen, "rejected">> \in told
    BY DEF FailureIsReported
  <2>2. report # None /\ report.gen = scope.gen /\ report.code = "rejected"
    BY <2>1 DEF IsReported
  <2>3. TypeOK /\ IsTold /\ scope # None
    BY <2>1 DEF Consistent, FingerprintCurrent
  <2>4. ASSUME report.complete, NEW a \in Live
        PROVE  <<a, desired[a].gen, "rejected">> \in told
    <3>1. PICK s \in sources : s.account = a
      BY <2>3, SourceRows
    <3>2. s.gen = desired[a].gen
      BY <2>3, <3>1, SourceRows
    <3>. QED
      BY <2>1, <2>2, <2>3, <2>4, <3>1, <3>2 DEF IsTold
  <2>. QED
    BY <2>2, <2>4
<1>. QED
  BY <1>1, <1>2, <1>3, AlwaysConsistent, PTL DEF Spec, ReportIsKept

=============================================================================
