-------------------------- MODULE EnrollmentProofs --------------------------
(***************************************************************************)
(* The bridge keeps an identity it can serve with, wherever it is stopped, *)
(* until the two callers of renew_if_needed overlap; and a start keeps the *)
(* identity it finds.                                                      *)
(***************************************************************************)
EXTENDS Enrollment, TLAPS

EnrollingPlaces == {"bootstrap", "request", "createKey", "createCredential",
                    "createRequest", "postEnrollment", "saveCert"}
(* Where a thread is past its look at a persisted issuance.                *)
Passed == EnrollingPlaces \cup {"enroll", "saveCa", "due", "build"}

(* Before build() the main thread is alone.                                *)
Alone ==
    /\ mem["main"].starting <=> loaded = 0
    /\ pc["heartbeat"] = "off" <=> loaded = 0
    /\ ~ mem["heartbeat"].starting
    /\ pc["main"] # "off"
    /\ pc["main"] = "build" => loaded = 0
    /\ mem["main"].starting =>
          /\ mem["main"].then = "enroll"
          /\ pc["main"] \notin Creating \cup {"due", "reload", "idle"}
    /\ loaded # 0 => files["cert"] # 0

(* The enrollment: a certificate comes with the key on disk, and a renewal *)
(* only after it.                                                          *)
Enrolled ==
    /\ files["cert"] = 0 =>
          files["issuance"] = 0 /\ files["nextKey"] = 0 /\ files["nextRequest"] = 0
    /\ \A t \in Threads :
          /\ pc[t] \in EnrollingPlaces => files["cert"] = 0
          /\ pc[t] \in {"postEnrollment"} => mem[t].request # 0
          /\ pc[t] = "saveCert" => mem[t].issuance # 0 /\ mem[t].issuance = files["key"]
          /\ pc[t] = "saveCa" => mem[t].starting /\ mem[t].issuance # 0
          /\ pc[t] \in {"due"} \cup Creating => files["cert"] # 0

(* What is on disk can be installed, or was installed and is being removed. *)
Persisted ==
    /\ files["cert"] # 0 /\ files["issuance"] = 0 => files["cert"] = files["key"]
    /\ files["issuance"] # 0 =>
          \/ Recoverable
          \/ /\ files["nextRequest"] = 0
             /\ files["nextKey"] \in {0, files["issuance"]}
             /\ files["cert"] = files["issuance"]
             /\ files["key"] = files["issuance"]

(* A new request is made only when nothing is persisted, key first.        *)
Created ==
    \A t \in Threads :
        /\ pc[t] \in Creating => files["issuance"] = 0
        /\ pc[t] \in {"createNextKey", "createNextRequest"} =>
              mem[t].request # 0 /\ mem[t].key = mem[t].request
        /\ pc[t] = "createNextRequest" => files["nextKey"] = mem[t].key
        /\ pc[t] \in {"postRenewal", "saveIssuance"} =>
              /\ mem[t].request # 0
              /\ files["nextRequest"] = mem[t].request
              /\ files["nextKey"] = mem[t].key
        /\ pc[t] = "saveIssuance" =>
              /\ mem[t].key = mem[t].request /\ mem[t].issuance = mem[t].request
              /\ mem[t].then = "reload"

(* What a thread installs is what is on disk, or what is installed.        *)
Installed ==
    \A t \in Threads :
        /\ pc[t] = "readKey" => files["issuance"] # 0 \/ files["nextKey"] = 0
        /\ pc[t] \in Installing => mem[t].key = mem[t].issuance
        /\ pc[t] = "installCert" => files["key"] = mem[t].issuance
        /\ pc[t] \in Installing \cup Dropping =>
              /\ mem[t].issuance # 0
              /\ \/ files["issuance"] = mem[t].issuance
                 \/ /\ files["issuance"] = 0
                    /\ files["nextKey"] = 0
                    /\ files["nextRequest"] = 0
                    /\ files["cert"] = mem[t].issuance
        /\ pc[t] \in Dropping =>
              files["cert"] = mem[t].issuance /\ files["key"] = mem[t].issuance
        /\ pc[t] \in {"dropKey", "dropIssuance"} => files["nextRequest"] = 0
        /\ pc[t] = "dropIssuance" => files["nextKey"] = 0

(* An issuance on disk has a thread that will report it, unless the        *)
(* process was stopped.                                                    *)
Reporting(t) == pc[t] \in Installing \cup Dropping /\ mem[t].then = "reload"

Reported ==
    /\ \A t \in Threads :
          pc[t] \in Passed /\ files["issuance"] # 0 => \E u \in Threads : Reporting(u)
    /\ loaded # 0 /\ files["issuance"] # 0 => \E u \in Threads : Reporting(u)
    /\ loaded # 0 /\ loaded # files["cert"] =>
          \E u \in Threads : Reporting(u) \/ pc[u] = "reload"

IdentityInv ==
    /\ TypeOK
    /\ Alone
    /\ Enrolled
    /\ Persisted
    /\ Created
    /\ Installed
    /\ Reported

-----------------------------------------------------------------------------
(* Types *)

LEMMA CalledType ==
    ASSUME NEW starting \in BOOLEAN, NEW force \in BOOLEAN,
           NEW then \in {"reload", "enroll"}
    PROVE  Called(starting, force, then) \in Memory
BY MaxKeysAssumption DEF Called, Memory

LEMMA StartType == StartPc \in [Threads -> Place] /\ StartMem \in [Threads -> Memory]
<1>1. StartPc \in [Threads -> Place]
  BY DEF StartPc, Place
<1>2. StartMem \in [Threads -> Memory]
  BY CalledType DEF StartMem
<1>. QED
  BY <1>1, <1>2

LEMMA FailType ==
    ASSUME TypeOK, NEW t \in Threads, Fail(t)
    PROVE  pc' \in [Threads -> Place] /\ mem' \in [Threads -> Memory] /\ loaded' \in 0..MaxKeys
BY StartType, MaxKeysAssumption DEF TypeOK, Fail, Restart, Goto, Place

(* A step that writes one file and goes on.                                *)
LEMMA WriteType ==
    ASSUME TypeOK, NEW t \in Threads, NEW from, NEW file \in File,
           NEW value \in 0..MaxKeys, NEW to \in Place, Write(t, from, file, value, to)
    PROVE  TypeOK'
BY DEF TypeOK, Write, Goto, Outside

LEMMA ReadType ==
    ASSUME TypeOK, NEW t \in Threads, NEW from, NEW file \in File,
           NEW field \in {"request", "issuance"}, NEW to \in Place,
           Read(t, from, file, field, to)
    PROVE  TypeOK'
<1>1. CASE Fail(t) /\ UNCHANGED <<files, Outside>>
  BY <1>1, FailType DEF TypeOK, Outside
<1>2. CASE /\ mem' = [mem EXCEPT ![t][field] = files[file]]
           /\ Goto(t, to) /\ UNCHANGED <<loaded, files, Outside>>
  <2>1. mem' \in [Threads -> Memory]
    BY <1>2 DEF TypeOK, Memory
  <2>. QED
    BY <1>2, <2>1 DEF TypeOK, Goto, Outside
<1>. QED
  BY <1>1, <1>2 DEF Read

LEMMA RecoveryType ==
    ASSUME TypeOK, NEW t \in Threads, Recovery(t)
    PROVE  TypeOK'
<1>0. mem[t] \in Memory
  BY DEF TypeOK
<1>1. CASE RecoverPendingRenewal(t)
  <2>1. CASE Fail(t)
    BY <1>1, <2>1, FailType DEF RecoverPendingRenewal, TypeOK, Outside
  <2>2. CASE ~ Fail(t)
    BY <1>1, <2>2 DEF RecoverPendingRenewal, TypeOK, Outside, Goto, Place, Memory
  <2>. QED
    BY <2>1, <2>2
<1>2. CASE ReadPersisted(t)
  <2>1. CASE ReadNextKey(t)
    <3>1. CASE Fail(t)
      BY <2>1, <3>1, FailType DEF ReadNextKey, TypeOK, Outside
    <3>2. CASE ~ Fail(t)
      BY <2>1, <3>2, SMTT(30) DEF ReadNextKey, TypeOK, Outside, Goto, Place, Memory, File
    <3>. QED
      BY <3>1, <3>2
  <2>. QED
    BY <1>2, <2>1, ReadType DEF ReadPersisted, File, Place
<1>3. CASE InstallRenewal(t)
  BY <1>0, <1>3, WriteType DEF InstallRenewal, File, Place, Memory
<1>4. CASE DropPersisted(t)
  <2>1. mem[t].then \in Place /\ 0 \in 0..MaxKeys
    BY <1>0, MaxKeysAssumption DEF Memory, Place
  <2>. QED
    BY <1>4, <2>1, WriteType DEF DropPersisted, Drop, File, Place
<1>. QED
  BY <1>1, <1>2, <1>3, <1>4 DEF Recovery

LEMMA EnrollingType ==
    ASSUME TypeOK, NEW t \in Threads, Enrolling(t)
    PROVE  TypeOK'
<1>0. mem[t] \in Memory /\ Bootstrap \in 0..MaxKeys
  BY MaxKeysAssumption DEF TypeOK, Bootstrap
<1>1. CASE Enroll(t)
  <2>1. CASE Fail(t)
    BY <1>1, <2>1, FailType DEF Enroll, TypeOK, Outside
  <2>2. CASE ~ Fail(t)
    BY <1>1, <2>2 DEF Enroll, TypeOK, Outside, Goto, Place
  <2>. QED
    BY <2>1, <2>2
<1>2. CASE EnrollmentRequest(t)
  <2>1. CASE Fail(t)
    BY <1>2, <2>1, FailType, MaxKeysAssumption DEF EnrollmentRequest, TypeOK, Outside
  <2>2. CASE ~ Fail(t)
    <3>1. mem' \in [Threads -> Memory] /\ keys' \in 0..MaxKeys
      BY <1>0, <1>2, <2>2, MaxKeysAssumption DEF EnrollmentRequest, TypeOK, Memory, File
    <3>. QED
      BY <1>2, <2>2, <3>1 DEF EnrollmentRequest, TypeOK, Goto, Place
  <2>. QED
    BY <2>1, <2>2
<1>3. CASE EnrollmentAnswered(t)
  <2>1. CASE Fail(t)
    BY <1>3, <2>1, FailType DEF EnrollmentAnswered, TypeOK, Outside
  <2>2. CASE ~ Fail(t)
    BY <1>0, <1>3, <2>2, SMTT(30) DEF EnrollmentAnswered, TypeOK, Outside, Goto, Place, Memory
  <2>. QED
    BY <2>1, <2>2
<1>4. CASE BootstrapCa(t) \/ CreateEnrollmentRequest(t) \/ SaveEnrollment(t)
  BY <1>0, <1>4, WriteType
  DEF BootstrapCa, CreateEnrollmentRequest, SaveEnrollment, File, Place, Memory
<1>. QED
  BY <1>1, <1>2, <1>3, <1>4 DEF Enrolling

LEMMA RenewingType ==
    ASSUME TypeOK, NEW t \in Threads, Renewing(t)
    PROVE  TypeOK'
<1>0. mem[t] \in Memory
  BY DEF TypeOK
<1>1. CASE Due(t)
  <2>1. CASE Fail(t)
    BY <1>1, <2>1, FailType DEF Due, TypeOK, Outside
  <2>2. CASE ~ Fail(t)
    BY <1>1, <2>2 DEF Due, TypeOK, Outside, Goto, Place
  <2>. QED
    BY <2>1, <2>2
<1>2. CASE NextRequest(t)
  <2>1. CASE Fail(t)
    BY <1>2, <2>1, FailType, MaxKeysAssumption DEF NextRequest, TypeOK, Outside
  <2>2. CASE ~ Fail(t)
    <3>1. mem' \in [Threads -> Memory] /\ keys' \in 0..MaxKeys
      BY <1>0, <1>2, <2>2, MaxKeysAssumption DEF NextRequest, TypeOK, Memory, File
    <3>. QED
      BY <1>2, <2>2, <3>1 DEF NextRequest, TypeOK, Goto, Place
  <2>. QED
    BY <2>1, <2>2
<1>3. CASE RenewalAnswered(t)
  <2>1. CASE Fail(t)
    BY <1>3, <2>1, FailType DEF RenewalAnswered, TypeOK, Outside
  <2>2. CASE ~ Fail(t)
    BY <1>0, <1>3, <2>2 DEF RenewalAnswered, TypeOK, Outside, Goto, Place, Memory
  <2>. QED
    BY <2>1, <2>2
<1>4. CASE CreateNextRequest(t) \/ SaveIssuance(t)
  BY <1>0, <1>4, WriteType DEF CreateNextRequest, SaveIssuance, File, Place, Memory
<1>5. CASE ReloadTls(t)
  BY <1>5, StartType, MaxKeysAssumption
  DEF ReloadTls, Restart, Goto, TypeOK, Outside, Place, PairMatches, File
<1>. QED
  BY <1>1, <1>2, <1>3, <1>4, <1>5 DEF Renewing

LEMMA EnrollmentInit == Init => TypeOK
BY StartType, MaxKeysAssumption, BudgetsAssumption DEF Init, TypeOK, File, Ages, Keys

(* The type invariant of Enrollment is kept by every step of the two       *)
(* threads, by Build, and by what happens around the bridge.               *)
THEOREM EnrollmentTypes == Spec => []TypeOK
<1>1. Init => TypeOK
  BY EnrollmentInit
<1>2. TypeOK /\ [Next]_vars => TypeOK'
  <2> SUFFICES ASSUME TypeOK, [Next]_vars PROVE TypeOK'
    OBVIOUS
  <2>1. ASSUME NEW t \in Threads, Run(t) PROVE TypeOK'
    BY <2>1, RecoveryType, EnrollingType, RenewingType DEF Run
  <2>2. ASSUME NEW t \in Threads, CallFails(t) PROVE TypeOK'
    BY <2>2, FailType DEF CallFails, TypeOK, Outside
  <2>3. CASE Build
    <3>1. CASE Restart
      BY <2>3, <3>1, StartType, MaxKeysAssumption DEF Build, Restart, TypeOK, Outside
    <3>2. CASE ~ Restart
      <4>1. mem' = [mem EXCEPT !["main"].starting = FALSE] /\ loaded' = files["cert"]
        BY <2>3, <3>2 DEF Build
      <4>2. mem' \in [Threads -> Memory]
        BY <4>1 DEF TypeOK, Memory, Threads
      <4>. QED
        BY <2>3, <3>2, <4>1, <4>2 DEF Build, TypeOK, Outside, Place, File
    <3>. QED
      BY <3>1, <3>2
  <2>4. CASE HourlyCheck \/ Heartbeat
    <3>1. Called(FALSE, FALSE, "reload") \in Memory /\ Called(FALSE, TRUE, "reload") \in Memory
      BY CalledType
    <3>2. /\ \E t \in Threads : pc' = [pc EXCEPT ![t] = "recover"]
          /\ \E t \in Threads, called \in Memory : mem' = [mem EXCEPT ![t] = called]
          /\ UNCHANGED <<files, loaded, keys, age, wanted, budget>>
      BY <2>4, <3>1 DEF HourlyCheck, Heartbeat, Goto, Outside, Threads
    <3>3. pc' \in [Threads -> Place]
      BY <3>2 DEF TypeOK, Place
    <3>4. mem' \in [Threads -> Memory]
      BY <3>2 DEF TypeOK
    <3>. QED
      BY <3>2, <3>3, <3>4 DEF TypeOK
  <2>5. CASE Crash
    BY <2>5, StartType, MaxKeysAssumption DEF Crash, Restart, TypeOK
  <2>6. CASE Migrate
    BY <2>6, MaxKeysAssumption DEF Migrate, TypeOK
  <2>7. CASE Age
    BY <2>7, SMTT(60) DEF Age, TypeOK, Ages, Keys, File
  <2>8. CASE UNCHANGED vars
    BY <2>8 DEF TypeOK, vars
  <2>. QED
    BY <2>1, <2>2, <2>3, <2>4, <2>5, <2>6, <2>7, <2>8 DEF Next
<1>. QED
  BY <1>1, <1>2, PTL DEF Spec

-----------------------------------------------------------------------------
(* The invariant, one action after the other *)

(* The identity is in order: the files fit each other and what the threads *)
(* hold.                                                                   *)
InOrder == Alone /\ Enrolled /\ Persisted /\ Created /\ Installed /\ Reported

LEMMA RestartKeeps == IdentityInv /\ Restart /\ UNCHANGED files => InOrder'
<1> SUFFICES ASSUME IdentityInv, Restart, UNCHANGED files PROVE InOrder'
  OBVIOUS
<1>1. /\ \A t \in Threads : pc'[t] \in {"recover", "off"}
      /\ pc'["main"] = "recover" /\ pc'["heartbeat"] = "off"
      /\ mem'["main"].starting /\ mem'["main"].then = "enroll"
      /\ ~ mem'["heartbeat"].starting
      /\ loaded' = 0
  BY DEF Restart, StartPc, StartMem, Called, Threads
<1>2. Alone'
  BY <1>1 DEF Alone, Creating
<1>3. Enrolled' /\ Created' /\ Installed' /\ Persisted'
  BY <1>1 DEF IdentityInv, Enrolled, Created, Installed, Persisted, Recoverable,
      EnrollingPlaces, Creating, Installing, Dropping
<1>4. Reported'
  BY <1>1 DEF Reported, Passed, EnrollingPlaces
<1>. QED
  BY <1>2, <1>3, <1>4 DEF InOrder

(* Where an exception ends a pass.                                         *)
Failing == {"recover", "enroll", "bootstrap", "request", "postEnrollment", "due",
            "next", "postRenewal"} \cup Reading

LEMMA FailKeeps ==
    ASSUME IdentityInv, NEW t \in Threads, pc[t] \in Failing, Fail(t), UNCHANGED files
    PROVE  InOrder'
<1>1. CASE Restart
  BY <1>1, RestartKeeps
<1>2. CASE ~ Restart
  <2>1. /\ ~ mem[t].starting /\ pc' = [pc EXCEPT ![t] = "idle"]
        /\ UNCHANGED <<mem, loaded, files>>
    BY <1>2 DEF Fail, Goto
  <2>2. Alone'
    BY <2>1 DEF IdentityInv, Alone, TypeOK, Threads, Failing, Reading
  <2>3. Enrolled' /\ Persisted' /\ Created' /\ Installed'
    BY <2>1 DEF IdentityInv, TypeOK, Enrolled, Persisted, Recoverable, Created, Installed,
        EnrollingPlaces, Creating, Installing, Dropping
  <2>4. \A u \in Threads : Reporting(u) => Reporting(u)'
    BY <2>1 DEF IdentityInv, TypeOK, Reporting, Failing, Reading, Installing, Dropping
  <2>5. Reported'
    BY <2>1, <2>4 DEF IdentityInv, TypeOK, Reported, Failing, Reading, Passed, EnrollingPlaces
  <2>. QED
    BY <2>2, <2>3, <2>5 DEF InOrder
<1>. QED
  BY <1>1, <1>2

(* A read changes no file.                                                 *)
LEMMA ReadKeeps ==
    ASSUME IdentityInv, NoOverlap, NoOverlap', NEW t \in Threads,
           RecoverPendingRenewal(t) \/ ReadPersisted(t)
    PROVE  InOrder'
<1>0. UNCHANGED files /\ pc[t] \in {"recover"} \cup Reading
  BY DEF RecoverPendingRenewal, ReadPersisted, Read, ReadNextKey, Reading
<1>1. CASE Fail(t)
  BY <1>0, <1>1, FailKeeps DEF Failing
<1>2. CASE ~ Fail(t)
  <2> USE <1>0, <1>2 DEF IdentityInv
  <2>1. /\ mem' = [mem EXCEPT ![t] = mem'[t]] /\ mem'[t].starting = mem[t].starting
        /\ mem'[t].then \in {mem[t].then, "enroll"}
        /\ pc' = [pc EXCEPT ![t] = pc'[t]]
        /\ loaded' = loaded
    BY DEF RecoverPendingRenewal, ReadPersisted, Read, ReadNextKey, Goto, TypeOK, Memory
  <2>2. \/ pc'[t] \in {"recover", "enroll"} /\ files["issuance"] = 0 /\ pc[t] = "recover"
        \/ pc'[t] \in {"readRequest", "readIssuance"}
        \/ pc'[t] = "readKey" /\ files["issuance"] # 0
        \/ /\ pc'[t] = "installCa" /\ pc[t] = "readKey" /\ files["nextKey"] # 0
           /\ mem'[t].issuance = files["nextKey"] /\ mem'[t].key = files["nextKey"]
    BY DEF RecoverPendingRenewal, ReadPersisted, Read, ReadNextKey, Goto, TypeOK, Memory, Valid
  <2>3. Alone'
    BY <2>1, <2>2 DEF Alone, TypeOK, Threads, Reading, Creating
  <2>4. Enrolled'
    BY <2>1, <2>2 DEF Enrolled, TypeOK, EnrollingPlaces, Creating
  <2>5. Persisted'
    BY DEF Persisted, Recoverable
  <2>6. Created'
    BY <2>1, <2>2 DEF Created, TypeOK, Creating
  <2>7. Installed'
    BY <2>1, <2>2 DEF Installed, Persisted, Recoverable, TypeOK, Installing, Dropping
  <2>8. \A u \in Threads : Reporting(u) => Reporting(u)'
    BY <2>1 DEF TypeOK, Reporting, Reading, Installing, Dropping
  <2>9. Reported'
    BY <2>1, <2>2, <2>8 DEF Reported, TypeOK, Reading, Passed, EnrollingPlaces
  <2>. QED
    BY <2>3, <2>4, <2>5, <2>6, <2>7, <2>9 DEF InOrder
<1>. QED
  BY <1>1, <1>2

(* The bundle, the key, the certificate, in this order.                    *)
LEMMA InstallKeeps ==
    ASSUME IdentityInv, NoOverlap, NEW t \in Threads, InstallRenewal(t)
    PROVE  InOrder'
<1> USE DEF IdentityInv
<1>1. /\ UNCHANGED <<mem, loaded>> /\ pc' = [pc EXCEPT ![t] = pc'[t]]
      /\ mem[t].issuance # 0 /\ mem[t].key = mem[t].issuance
      /\ \/ /\ pc[t] = "installCa" /\ pc'[t] = "installKey"
            /\ files' = [files EXCEPT !["ca"] = mem[t].issuance]
         \/ /\ pc[t] = "installKey" /\ pc'[t] = "installCert"
            /\ files' = [files EXCEPT !["key"] = mem[t].issuance]
         \/ /\ pc[t] = "installCert" /\ pc'[t] = "dropRequest"
            /\ files' = [files EXCEPT !["cert"] = mem[t].issuance]
  BY DEF InstallRenewal, Write, Goto, TypeOK, Installed, Installing, Dropping
<1>2. /\ files["cert"] # 0
      /\ \A u \in Threads : pc[u] \notin Creating \cup EnrollingPlaces
  BY <1>1 DEF TypeOK, Enrolled, Installed, NoOverlap, EnrollingPlaces, Creating, Installing, Dropping
<1>3. ASSUME NEW u \in Threads, pc[u] \in Installing \cup Dropping
      PROVE  mem[u].issuance = mem[t].issuance
  BY <1>1, <1>3 DEF Installed, Installing, Dropping
<1>4. Alone'
  BY <1>1 DEF Alone, TypeOK, Threads, File, Creating
<1>5. Enrolled'
  BY <1>1, <1>2 DEF Enrolled, TypeOK, File, EnrollingPlaces, Creating
<1>6. Persisted'
  BY <1>1 DEF Persisted, Recoverable, Installed, Installing, TypeOK, File
<1>7. Created'
  BY <1>1, <1>2 DEF Created, TypeOK, File, Creating
<1>8. Installed'
  BY <1>1, <1>3 DEF Installed, Persisted, Recoverable, TypeOK, File, Installing, Dropping
<1>9. \A u \in Threads : Reporting(u) => Reporting(u)'
  BY <1>1 DEF TypeOK, Reporting, Installing, Dropping
<1>10. Reported'
  BY <1>1, <1>2, <1>9 DEF Reported, Reporting, Installed, TypeOK, File, Passed, EnrollingPlaces,
      Installing, Dropping
<1>. QED
  BY <1>4, <1>5, <1>6, <1>7, <1>8, <1>10 DEF InOrder

(* The request, the key and the issuance are removed, in this order.       *)
LEMMA DropKeeps ==
    ASSUME IdentityInv, NoOverlap, NEW t \in Threads, DropPersisted(t)
    PROVE  InOrder'
<1> USE DEF IdentityInv
<1>1. /\ UNCHANGED <<mem, loaded>> /\ pc' = [pc EXCEPT ![t] = pc'[t]]
      /\ mem[t].issuance # 0 /\ pc[t] \in Dropping
      /\ files["cert"] = mem[t].issuance /\ files["key"] = mem[t].issuance
      /\ mem[t].then \in {"reload", "enroll"}
      /\ \/ /\ pc[t] = "dropRequest" /\ pc'[t] = "dropKey"
            /\ files' = [files EXCEPT !["nextRequest"] = 0]
         \/ /\ pc[t] = "dropKey" /\ pc'[t] = "dropIssuance"
            /\ files["nextRequest"] = 0
            /\ files' = [files EXCEPT !["nextKey"] = 0]
         \/ /\ pc[t] = "dropIssuance" /\ pc'[t] = mem[t].then
            /\ files["nextRequest"] = 0 /\ files["nextKey"] = 0
            /\ files' = [files EXCEPT !["issuance"] = 0]
  BY DEF DropPersisted, Drop, Write, Goto, TypeOK, Memory, Installed, Dropping
<1>2. \A u \in Threads : pc[u] \notin Creating \cup EnrollingPlaces
  BY <1>1 DEF TypeOK, Enrolled, NoOverlap, EnrollingPlaces, Creating, Dropping
<1>3. ASSUME NEW u \in Threads, pc[u] \in Installing \cup Dropping
      PROVE  mem[u].issuance = mem[t].issuance
  BY <1>1, <1>3 DEF Installed, Installing, Dropping
<1>4. Alone'
  BY <1>1 DEF Alone, TypeOK, Threads, File, Creating
<1>5. Enrolled'
  BY <1>1, <1>2 DEF Enrolled, TypeOK, File, EnrollingPlaces, Creating
<1>6. Persisted'
  BY <1>1 DEF Persisted, Recoverable, Installed, Dropping, TypeOK, File
<1>7. Created'
  BY <1>1, <1>2 DEF Created, TypeOK, File, Creating
<1>8. Installed'
  BY <1>1, <1>3 DEF Installed, Persisted, Recoverable, TypeOK, File, Installing, Dropping
<1>9. \A u \in Threads : u # t /\ Reporting(u) => Reporting(u)'
  BY <1>1 DEF TypeOK, Reporting, Installing, Dropping
<1>10. Reporting(t) =>
          \/ Reporting(t)'
          \/ pc'[t] = "reload" /\ files'["issuance"] = 0
  BY <1>1 DEF TypeOK, Reporting, File, Installing, Dropping
<1>11. Reported'
  BY <1>1, <1>9, <1>10 DEF Reported, TypeOK, File, Passed, EnrollingPlaces, Dropping
<1>. QED
  BY <1>4, <1>5, <1>6, <1>7, <1>8, <1>11 DEF InOrder

(* The steps of the first enrollment that write; the main thread is alone. *)
EnrollmentWrite(t) ==
    BootstrapCa(t) \/ CreateEnrollmentRequest(t) \/ SaveEnrollment(t)

LEMMA EnrollmentWriteKeeps ==
    ASSUME IdentityInv, NEW t \in Threads, EnrollmentWrite(t)
    PROVE  InOrder'
<1> USE DEF IdentityInv
<1>1. /\ UNCHANGED <<mem, loaded>> /\ pc' = [pc EXCEPT ![t] = pc'[t]]
      /\ pc[t] \in EnrollingPlaces \cup {"saveCa"}
      /\ \/ /\ pc[t] \notin {"saveCert", "saveCa"} /\ pc'[t] \in EnrollingPlaces
            /\ pc'[t] \notin {"saveCert", "postEnrollment"}
            /\ \A f \in {"cert", "issuance", "nextKey", "nextRequest"} : files'[f] = files[f]
         \/ /\ pc[t] = "saveCert" /\ pc'[t] = "saveCa"
            /\ files' = [files EXCEPT !["cert"] = mem[t].issuance]
         \/ /\ pc[t] = "saveCa" /\ pc'[t] = "build"
            /\ files' = [files EXCEPT !["ca"] = mem[t].issuance]
  BY DEF EnrollmentWrite, BootstrapCa, CreateEnrollmentRequest, SaveEnrollment, Write, Goto,
      TypeOK, File, EnrollingPlaces, Enrolled
<1>2. /\ loaded = 0 /\ t = "main" /\ mem[t].starting
      /\ \A u \in Threads : u # t => pc[u] = "off"
  BY <1>1 DEF Alone, Enrolled, Threads, TypeOK, EnrollingPlaces
<1>3. pc[t] = "saveCert" => files["issuance"] = 0 /\ mem[t].issuance # 0 /\ mem[t].issuance = files["key"]
  BY <1>1 DEF Enrolled, EnrollingPlaces
<1>4. Alone'
  BY <1>1, <1>2 DEF Alone, TypeOK, Threads, EnrollingPlaces, Creating
<1>5. Enrolled'
  BY <1>1, <1>2, <1>3 DEF Enrolled, TypeOK, File, EnrollingPlaces, Creating
<1>6. Persisted'
  BY <1>1, <1>2, <1>3 DEF Persisted, Recoverable, Enrolled, TypeOK, File, EnrollingPlaces
<1>7. Created' /\ Installed'
  BY <1>1, <1>2 DEF Created, Installed, TypeOK, EnrollingPlaces, Creating, Installing, Dropping
<1>8. Reported'
  BY <1>1, <1>2 DEF Reported, Reporting, TypeOK, File, Passed, EnrollingPlaces, Enrolled, Installing, Dropping
<1>. QED
  BY <1>4, <1>5, <1>6, <1>7, <1>8 DEF InOrder

(* The steps of the enrollment, and of the date check, that read.          *)
EnrollmentRead(t) ==
    Enroll(t) \/ EnrollmentRequest(t) \/ EnrollmentAnswered(t) \/ Due(t)

LEMMA EnrollmentReadKeeps ==
    ASSUME IdentityInv, NoOverlap', NEW t \in Threads, EnrollmentRead(t)
    PROVE  InOrder'
<1>0. UNCHANGED files /\ pc[t] \in {"enroll", "request", "postEnrollment", "due"}
  BY DEF EnrollmentRead, Enroll, EnrollmentRequest, EnrollmentAnswered, Due
<1>1. CASE Fail(t)
  BY <1>0, <1>1, FailKeeps DEF Failing
<1>2. CASE ~ Fail(t)
  <2> USE <1>0, <1>2 DEF IdentityInv
  <2>1. /\ mem' = [mem EXCEPT ![t] = mem'[t]] /\ mem'[t].starting = mem[t].starting
        /\ mem'[t].then = mem[t].then
        /\ pc' = [pc EXCEPT ![t] = pc'[t]]
        /\ loaded' = loaded
    BY DEF EnrollmentRead, Enroll, EnrollmentRequest, EnrollmentAnswered, Due, Goto, TypeOK, Memory
  <2>2. \/ pc'[t] \in {"bootstrap", "request", "createKey"} /\ files["cert"] = 0
        \/ pc'[t] = "postEnrollment" /\ files["cert"] = 0 /\ mem'[t].request # 0
        \/ /\ pc'[t] = "saveCert" /\ files["cert"] = 0
           /\ mem'[t].issuance # 0 /\ mem'[t].issuance = files["key"]
        \/ pc'[t] = "build" /\ files["cert"] # 0 /\ mem[t].starting
        \/ pc'[t] = "due" /\ files["cert"] # 0 /\ ~ mem[t].starting
        \/ pc'[t] \in {"next", "idle"} /\ pc[t] = "due" /\ files["cert"] # 0
    BY DEF EnrollmentRead, Enroll, EnrollmentRequest, EnrollmentAnswered, Due, Goto, TypeOK,
        Memory, Valid, Enrolled, EnrollingPlaces, PairMatches
  <2>3. pc'[t] = "next" => \A u \in Threads : ~ Reporting(u)
    <3> SUFFICES ASSUME pc'[t] = "next", NEW u \in Threads, Reporting(u) PROVE FALSE
      OBVIOUS
    <3>1. u # t /\ pc'[u] = pc[u]
      BY <2>1 DEF Reporting, Installing, Dropping, TypeOK
    <3>. QED
      BY <3>1 DEF NoOverlap, Reporting, Creating, Installing, Dropping
  <2>4. Alone'
    BY <2>1, <2>2 DEF Alone, TypeOK, Threads, Enrolled, Creating
  <2>5. Enrolled'
    BY <2>1, <2>2 DEF Enrolled, TypeOK, EnrollingPlaces, Creating
  <2>6. Persisted'
    BY DEF Persisted, Recoverable
  <2>7. Created'
    BY <2>1, <2>2, <2>3 DEF Created, TypeOK, Creating, Reported, Passed
  <2>8. Installed'
    BY <2>1, <2>2 DEF Installed, TypeOK, Installing, Dropping
  <2>9. \A u \in Threads : Reporting(u) => Reporting(u)'
    BY <2>1 DEF TypeOK, Reporting, Installing, Dropping
  <2>10. Reported'
    BY <2>1, <2>2, <2>9 DEF Reported, TypeOK, Passed, EnrollingPlaces
  <2>. QED
    BY <2>4, <2>5, <2>6, <2>7, <2>8, <2>10 DEF InOrder
<1>. QED
  BY <1>1, <1>2

(* A new request: its key, the request, the answer.                        *)
RenewalStep(t) ==
    NextRequest(t) \/ CreateNextRequest(t) \/ RenewalAnswered(t) \/ SaveIssuance(t)

LEMMA RenewalKeeps ==
    ASSUME IdentityInv, NoOverlap, NEW t \in Threads, RenewalStep(t)
    PROVE  InOrder'
<1>0. pc[t] \in Creating
  BY DEF RenewalStep, NextRequest, CreateNextRequest, RenewalAnswered, SaveIssuance, Write, Creating
<1>1. CASE Fail(t) /\ UNCHANGED files /\ pc[t] \in {"next", "postRenewal"}
  BY <1>1, FailKeeps DEF Failing
<1>2. CASE ~ (Fail(t) /\ UNCHANGED files /\ pc[t] \in {"next", "postRenewal"})
  <2> USE <1>0, <1>2 DEF IdentityInv
  <2>1. /\ mem' = [mem EXCEPT ![t] = mem'[t]] /\ mem'[t].starting = mem[t].starting
        /\ pc' = [pc EXCEPT ![t] = pc'[t]]
        /\ loaded' = loaded
    BY DEF RenewalStep, NextRequest, CreateNextRequest, RenewalAnswered, SaveIssuance, Write,
        Goto, TypeOK, Memory
  <2>2. \/ /\ pc[t] = "next" /\ pc'[t] = "createNextKey" /\ UNCHANGED files
           /\ mem'[t].request # 0 /\ mem'[t].key = mem'[t].request
        \/ /\ pc[t] = "next" /\ pc'[t] = "postRenewal" /\ UNCHANGED files
           /\ mem'[t].request # 0 /\ mem'[t].request = files["nextRequest"]
           /\ mem'[t].key = files["nextKey"]
        \/ /\ pc[t] = "createNextKey" /\ pc'[t] = "createNextRequest" /\ UNCHANGED mem
           /\ files' = [files EXCEPT !["nextKey"] = mem[t].key]
        \/ /\ pc[t] = "createNextRequest" /\ pc'[t] = "postRenewal" /\ UNCHANGED mem
           /\ files' = [files EXCEPT !["nextRequest"] = mem[t].request]
        \/ /\ pc[t] = "postRenewal" /\ pc'[t] = "saveIssuance" /\ UNCHANGED files
           /\ mem'[t].request = mem[t].request /\ mem'[t].key = mem[t].key
           /\ mem'[t].issuance = mem[t].request /\ mem[t].request = mem[t].key
           /\ mem'[t].then = "reload"
        \/ /\ pc[t] = "saveIssuance" /\ pc'[t] = "installCa" /\ UNCHANGED mem
           /\ files' = [files EXCEPT !["issuance"] = mem[t].issuance]
    BY DEF RenewalStep, NextRequest, CreateNextRequest, RenewalAnswered, SaveIssuance, Write,
        Goto, TypeOK, Memory, Valid
  <2>3. \A u \in Threads : u # t =>
            pc[u] \notin Creating \cup Reading \cup Installing \cup Dropping
    BY DEF NoOverlap
  <2>4. files["cert"] # 0 /\ files["issuance"] = 0
    BY DEF Enrolled, Created
  <2>5. Alone'
    BY <2>1, <2>2 DEF Alone, TypeOK, Threads, File
  <2>6. Enrolled'
    BY <2>1, <2>2, <2>4 DEF Enrolled, TypeOK, File, EnrollingPlaces, Creating
  <2>7. Persisted'
    BY <2>2, <2>4 DEF Persisted, Recoverable, Created, TypeOK, File
  <2>8. Created'
    BY <2>1, <2>2, <2>3, <2>4 DEF Created, TypeOK, File, Creating
  <2>9. Installed'
    BY <2>1, <2>2, <2>3, <2>4 DEF Installed, Created, TypeOK, File, Reading, Installing, Dropping
  <2>10. \A u \in Threads : ~ Reporting(u)
    BY <2>3 DEF Reporting, Creating, Installing, Dropping
  <2>11. pc'[t] = "installCa" => Reporting(t)'
    BY <2>1, <2>2 DEF Reporting, Created, Installing, TypeOK
  <2>12. Reported'
    BY <2>1, <2>2, <2>3, <2>4, <2>10, <2>11 DEF Reported, TypeOK, File, Passed, EnrollingPlaces, Creating
  <2>. QED
    BY <2>5, <2>6, <2>7, <2>8, <2>9, <2>12 DEF InOrder
<1>. QED
  BY <1>1, <1>2

(* The clients load the pair: nothing is left to report.                   *)
LEMMA LoadKeeps ==
    ASSUME IdentityInv, Build \/ \E t \in Threads : ReloadTls(t)
    PROVE  InOrder'
<1> USE DEF IdentityInv
<1>0. UNCHANGED files
  BY DEF Build, ReloadTls
<1>1. CASE Restart
  BY <1>0, <1>1, RestartKeeps
<1>2. CASE Build /\ ~ Restart
  <2>1. /\ loaded' = files["cert"] /\ files["cert"] # 0
        /\ pc' = [t \in Threads |-> "idle"] /\ pc["main"] = "build"
        /\ mem' = [mem EXCEPT !["main"].starting = FALSE]
    BY <1>2 DEF Build, PairMatches
  <2>2. files["issuance"] = 0
    <3>1. loaded = 0 /\ pc["heartbeat"] = "off"
      BY <2>1 DEF Alone
    <3>2. \A t \in Threads : ~ Reporting(t)
      BY <2>1, <3>1 DEF Reporting, Threads, Installing, Dropping
    <3>. QED
      BY <2>1, <3>2 DEF Reported, Passed, Threads
  <2>3. Alone'
    BY <1>0, <2>1 DEF Alone, TypeOK, Memory, Threads
  <2>4. Enrolled' /\ Persisted' /\ Created' /\ Installed'
    BY <1>0, <2>1 DEF Enrolled, Persisted, Recoverable, Created, Installed, EnrollingPlaces,
        Creating, Installing, Dropping
  <2>5. Reported'
    BY <1>0, <2>1, <2>2 DEF Reported, Passed, EnrollingPlaces
  <2>. QED
    BY <2>3, <2>4, <2>5 DEF InOrder
<1>3. ASSUME NEW t \in Threads, ReloadTls(t), ~ Restart PROVE InOrder'
  <2>1. /\ loaded' = files["cert"] /\ files["cert"] # 0 /\ UNCHANGED mem
        /\ pc' = [pc EXCEPT ![t] = "idle"] /\ pc[t] = "reload"
    BY <1>3 DEF ReloadTls, Goto, PairMatches
  <2>2. loaded # 0
    BY <2>1 DEF Alone, Threads
  <2>3. Alone'
    BY <1>0, <2>1, <2>2 DEF Alone, TypeOK, Threads, File
  <2>4. Enrolled' /\ Persisted' /\ Created' /\ Installed'
    BY <1>0, <2>1 DEF Enrolled, Persisted, Recoverable, Created, Installed, EnrollingPlaces,
        Creating, Installing, Dropping, TypeOK
  <2>5. \A u \in Threads : Reporting(u) => Reporting(u)'
    BY <2>1 DEF TypeOK, Reporting, Installing, Dropping
  <2>6. Reported'
    BY <1>0, <2>1, <2>2, <2>5 DEF Reported, Passed, EnrollingPlaces, TypeOK
  <2>. QED
    BY <2>3, <2>4, <2>6 DEF InOrder
<1>. QED
  BY <1>1, <1>2, <1>3

(* A thread starts a pass.                                                 *)
LEMMA CheckKeeps ==
    ASSUME IdentityInv, HourlyCheck \/ Heartbeat
    PROVE  InOrder'
<1> USE DEF IdentityInv
<1>1. PICK t \in Threads :
          /\ pc[t] = "idle" /\ pc' = [pc EXCEPT ![t] = "recover"]
          /\ mem' = [mem EXCEPT ![t] = mem'[t]] /\ ~ mem'[t].starting
          /\ UNCHANGED <<files, loaded>>
  BY DEF HourlyCheck, Heartbeat, Called, Goto, Threads, TypeOK
<1>2. Alone'
  BY <1>1 DEF Alone, TypeOK, Threads
<1>3. Enrolled' /\ Persisted' /\ Created' /\ Installed'
  BY <1>1 DEF Enrolled, Persisted, Recoverable, Created, Installed, EnrollingPlaces,
      Creating, Installing, Dropping, TypeOK
<1>4. \A u \in Threads : Reporting(u) => Reporting(u)'
  BY <1>1 DEF TypeOK, Reporting, Installing, Dropping
<1>5. Reported'
  BY <1>1, <1>4 DEF Reported, Passed, EnrollingPlaces, TypeOK
<1>. QED
  BY <1>2, <1>3, <1>5 DEF InOrder

(* What happens around the bridge changes no file, and no thread but by    *)
(* stopping it.                                                            *)
LEMMA AroundKeeps ==
    ASSUME IdentityInv, Crash \/ Migrate \/ Age \/ UNCHANGED vars
    PROVE  InOrder'
<1>1. CASE Crash
  BY <1>1, RestartKeeps DEF Crash
<1>2. CASE Migrate \/ Age \/ UNCHANGED vars
  <2>1. UNCHANGED <<files, pc, mem, loaded>>
    BY <1>2 DEF Migrate, Age, vars
  <2>. QED
    BY <2>1 DEF IdentityInv, InOrder, Alone, Enrolled, Persisted, Recoverable, Created,
        Installed, Reported, Reporting
<1>. QED
  BY <1>1, <1>2

LEMMA IdentityInvStep ==
    IdentityInv /\ TypeOK' /\ NoOverlap /\ NoOverlap' /\ [Next]_vars => IdentityInv'
<1> SUFFICES ASSUME IdentityInv, NoOverlap, NoOverlap', [Next]_vars PROVE InOrder'
  BY DEF IdentityInv, InOrder
<1>1. ASSUME NEW t \in Threads, Recovery(t) PROVE InOrder'
  BY <1>1, ReadKeeps, InstallKeeps, DropKeeps DEF Recovery
<1>2. ASSUME NEW t \in Threads, Enrolling(t) PROVE InOrder'
  BY <1>2, EnrollmentWriteKeeps, EnrollmentReadKeeps
  DEF Enrolling, EnrollmentWrite, EnrollmentRead
<1>3. ASSUME NEW t \in Threads, Renewing(t) PROVE InOrder'
  BY <1>3, EnrollmentReadKeeps, RenewalKeeps, LoadKeeps
  DEF Renewing, EnrollmentRead, RenewalStep
<1>4. ASSUME NEW t \in Threads, CallFails(t) PROVE InOrder'
  BY <1>4, FailKeeps DEF CallFails, Failing
<1>5. CASE Build
  BY <1>5, LoadKeeps
<1>6. CASE HourlyCheck \/ Heartbeat
  BY <1>6, CheckKeeps
<1>7. CASE Crash \/ Migrate \/ Age \/ UNCHANGED vars
  BY <1>7, AroundKeeps
<1>. QED
  BY <1>1, <1>2, <1>3, <1>4, <1>5, <1>6, <1>7 DEF Next, Run

LEMMA IdentityInvInit == Init => IdentityInv
<1> SUFFICES ASSUME Init PROVE IdentityInv
  OBVIOUS
<1>1. TypeOK
  BY EnrollmentInit
<1>2. /\ \A f \in File : files[f] = 0
      /\ \A t \in Threads : pc[t] \in {"recover", "off"}
      /\ pc["main"] = "recover" /\ pc["heartbeat"] = "off"
      /\ mem["main"].starting /\ mem["main"].then = "enroll"
      /\ ~ mem["heartbeat"].starting
      /\ loaded = 0
  BY DEF Init, StartPc, StartMem, Called, Threads
<1>3. Alone
  BY <1>2 DEF Alone, Creating
<1>4. Enrolled /\ Persisted /\ Created /\ Installed /\ Reported
  BY <1>2 DEF Enrolled, Persisted, Created, Installed, Reported, EnrollingPlaces, Passed,
      Creating, Installing, Dropping, File
<1>. QED
  BY <1>1, <1>3, <1>4 DEF IdentityInv

-----------------------------------------------------------------------------
(* What the invariant says *)

(* A step before or after which one thread creates a renewal while the     *)
(* other creates one or is at a persisted one.                             *)
Overlapping == ~ NoOverlap \/ ~ NoOverlap'

(* While the files are in order an enrolled bridge has an identity it can  *)
(* serve with or repair, and clients that present it; and they are in      *)
(* order until two renewals overlap.                                       *)
KeptUntilOverlap ==
    /\ [](InOrder => IdentityIsKept /\ ClientsAreCurrent)
    /\ InOrder
    /\ [][InOrder => InOrder' \/ Overlapping]_vars

(* Wherever in _install_renewal, renew_if_needed and the unlinks the       *)
(* process is stopped, for any number of renewals of either thread,        *)
(* expiries and failed calls: only a step of overlapping renewals, which   *)
(* no lock prevents, can leave the order.                                  *)
THEOREM IdentityKept == Spec => KeptUntilOverlap
<1>1. InOrder => IdentityIsKept /\ ClientsAreCurrent
  BY DEF InOrder, Persisted, Alone, Enrolled, IdentityIsKept, PairMatches,
      Reported, Reporting, ClientsAreCurrent, Installing, Dropping
<1>2. TypeOK /\ TypeOK' /\ [Next]_vars => [InOrder => InOrder' \/ Overlapping]_vars
  <2> SUFFICES ASSUME TypeOK, TypeOK', [Next]_vars, InOrder, ~ Overlapping PROVE InOrder'
    OBVIOUS
  <2>1. IdentityInv
    BY DEF InOrder, IdentityInv
  <2>2. IdentityInv'
    BY <2>1, IdentityInvStep DEF Overlapping
  <2>. QED
    BY <2>2 DEF InOrder, IdentityInv
<1>3. Init => InOrder
  BY IdentityInvInit DEF IdentityInv, InOrder
<1>. QED
  BY <1>1, <1>2, <1>3, EnrollmentTypes, PTL DEF Spec, KeptUntilOverlap

-----------------------------------------------------------------------------
(* Until the backend asks for a renewal the heartbeat thread never enters  *)
(* renew_if_needed.                                                        *)

NotForced ==
    /\ wanted = 1 \/ keys # 0
    /\ wanted = 1 => pc["heartbeat"] \in {"off", "idle"}
    /\ wanted = 1 /\ pc["heartbeat"] = "idle" => loaded # 0

LEMMA NotForcedStep == TypeOK /\ NotForced /\ [Next]_vars => NotForced' /\ (wanted' = 1 => wanted = 1)
<1> SUFFICES ASSUME TypeOK, NotForced, [Next]_vars
             PROVE  NotForced' /\ (wanted' = 1 => wanted = 1)
  OBVIOUS
<1>1. ASSUME Restart, wanted' = wanted, keys' # 0 \/ keys' = keys PROVE NotForced'
  BY <1>1 DEF NotForced, Restart, StartPc, Threads
<1>2. ASSUME NEW t \in Threads, Run(t) \/ CallFails(t)
      PROVE NotForced' /\ (wanted' = 1 => wanted = 1)
  <2>1. pc[t] \notin {"off", "idle"} /\ wanted' = wanted /\ (keys' = keys \/ keys' = keys + 1)
    BY <1>2 DEF Run, CallFails, Recovery, RecoverPendingRenewal, ReadPersisted, Read, ReadNextKey,
        InstallRenewal, DropPersisted, Drop, Write, Enrolling, Enroll, BootstrapCa,
        EnrollmentRequest, CreateEnrollmentRequest, EnrollmentAnswered, SaveEnrollment, Renewing,
        Due, NextRequest, CreateNextRequest, RenewalAnswered, SaveIssuance, ReloadTls, Outside
  <2>2. keys \in Nat /\ keys + 1 # 0
    BY DEF TypeOK
  <2>3. keys' # 0 \/ keys' = keys
    BY <2>1, <2>2
  <2>4. CASE wanted # 1
    BY <2>1, <2>3, <2>4 DEF NotForced
  <2>5. CASE wanted = 1
    <3>1. t = "main"
      BY <2>1, <2>5 DEF NotForced, Threads
    <3>2. \/ Restart
          \/ pc'["heartbeat"] = pc["heartbeat"] /\ (loaded' = loaded \/ loaded' # 0)
      BY <1>2, <3>1
      DEF Run, CallFails, Recovery, RecoverPendingRenewal, ReadPersisted, Read, ReadNextKey,
          InstallRenewal, DropPersisted, Drop, Write, Enrolling, Enroll, BootstrapCa,
          EnrollmentRequest, CreateEnrollmentRequest, EnrollmentAnswered, SaveEnrollment, Renewing,
          Due, NextRequest, CreateNextRequest, RenewalAnswered, SaveIssuance, ReloadTls, Goto, Fail,
          TypeOK, Threads, PairMatches
    <3>. QED
      BY <1>1, <2>1, <2>3, <2>5, <3>2 DEF NotForced
  <2>. QED
    BY <2>4, <2>5
<1>3. CASE Build
  <2>1. UNCHANGED <<wanted, keys>>
    BY <1>3 DEF Build, Outside
  <2>2. CASE Restart
    BY <1>1, <2>1, <2>2
  <2>3. CASE ~ Restart
    BY <1>3, <2>1, <2>3 DEF Build, NotForced, PairMatches, Threads
  <2>. QED
    BY <2>2, <2>3
<1>4. CASE HourlyCheck
  BY <1>4 DEF HourlyCheck, NotForced, Goto, TypeOK, Outside, Threads
<1>5. CASE Heartbeat
  <2>1. loaded \in Nat /\ UNCHANGED <<wanted, keys>> /\ pc["heartbeat"] = "idle" /\ loaded < wanted
    BY <1>5 DEF Heartbeat, TypeOK, Outside
  <2>2. wanted # 1
    BY <2>1 DEF NotForced
  <2>. QED
    BY <2>1, <2>2 DEF NotForced
<1>6. CASE Crash
  BY <1>1, <1>6 DEF Crash
<1>7. CASE Migrate
  <2>1. wanted' = keys + 1 /\ UNCHANGED <<keys, pc, loaded>> /\ keys \in Nat
    BY <1>7 DEF Migrate, TypeOK
  <2>. QED
    BY <2>1 DEF NotForced
<1>8. CASE Age
  BY <1>8 DEF Age, NotForced
<1>9. CASE UNCHANGED vars
  BY <1>9 DEF vars, NotForced
<1>. QED
  BY <1>2, <1>3, <1>4, <1>5, <1>6, <1>7, <1>8, <1>9 DEF Next

Unforced == NotForced /\ (wanted = 1 => InOrder)

(* Until the backend first asks for a renewal (wanted says so), only the   *)
(* main thread renews, by the date of its certificate, and the bridge      *)
(* keeps its identity and presents the installed certificate, wherever it  *)
(* is stopped and however often.                                           *)
THEOREM UnforcedIdentityKept == Spec => [](wanted = 1 => IdentityIsKept /\ ClientsAreCurrent)
<1>1. Init => Unforced
  BY IdentityInvInit DEF Init, NotForced, StartPc, Threads, Unforced, IdentityInv, InOrder
<1>2. NotForced /\ wanted = 1 => NoOverlap
  BY DEF NotForced, NoOverlap, Threads, Creating, Reading, Installing, Dropping
<1>3. TypeOK /\ TypeOK' /\ Unforced /\ [Next]_vars => Unforced'
  <2> SUFFICES ASSUME TypeOK, TypeOK', NotForced, wanted = 1 => InOrder, [Next]_vars
               PROVE  NotForced' /\ (wanted' = 1 => InOrder')
    BY DEF Unforced
  <2>1. NotForced' /\ (wanted' = 1 => wanted = 1)
    BY NotForcedStep
  <2>2. NotForced' /\ wanted' = 1 => NoOverlap'
    BY DEF NotForced, NoOverlap, Threads, Creating, Reading, Installing, Dropping
  <2>3. ASSUME wanted' = 1 PROVE IdentityInv'
    BY <1>2, <2>1, <2>2, <2>3, IdentityInvStep DEF IdentityInv, InOrder
  <2>. QED
    BY <2>1, <2>3 DEF IdentityInv, InOrder
<1>4. Unforced => (wanted = 1 => IdentityIsKept /\ ClientsAreCurrent)
  BY DEF Unforced, InOrder, Persisted, Alone, Enrolled, IdentityIsKept, PairMatches,
      Reported, Reporting, ClientsAreCurrent, Installing, Dropping
<1>. QED
  BY <1>1, <1>3, <1>4, EnrollmentTypes, PTL DEF Spec

-----------------------------------------------------------------------------
(* A start, whatever the renewals before it have left. *)

StartPlaces ==
    {"recover", "enroll", "saveCa", "build"}
        \cup Reading \cup Installing \cup Dropping \cup EnrollingPlaces

(* Before build() the main thread is alone, and what it has read is what   *)
(* is on disk.                                                             *)
Starting ==
    loaded = 0 =>
        /\ pc["heartbeat"] = "off" /\ pc["main"] \in StartPlaces
        /\ mem["main"].starting /\ mem["main"].then = "enroll"
        /\ pc["main"] \in {"readIssuance", "readKey"} =>
              mem["main"].request = files["nextRequest"] /\ files["nextRequest"] # 0
        /\ pc["main"] = "readKey" =>
              mem["main"].issuance = files["issuance"] /\ files["issuance"] # 0
        /\ pc["main"] \in Installing =>
              /\ Recoverable
              /\ mem["main"].issuance = files["issuance"] /\ mem["main"].key = files["issuance"]
        /\ pc["main"] = "installCert" => files["key"] = files["issuance"]
        /\ pc["main"] \in Dropping => PairMatches
        /\ pc["main"] \in EnrollingPlaces => files["cert"] = 0
        /\ pc["main"] = "saveCert" => mem["main"].issuance = files["key"]

LEMMA StartingKept ==
    ASSUME TypeOK, Starting, [Next]_vars
    PROVE  Starting' /\ (loaded = 0 /\ IdentityIsKept => IdentityIsKept')
<1>1. CASE UNCHANGED vars
  BY <1>1 DEF vars, Starting, IdentityIsKept, PairMatches, Recoverable
<1>2. CASE Restart /\ UNCHANGED files
  <2>1. /\ pc'["heartbeat"] = "off" /\ pc'["main"] = "recover"
        /\ mem'["main"].starting /\ mem'["main"].then = "enroll"
    BY <1>2 DEF Restart, StartPc, StartMem, Called, Threads
  <2>2. Starting'
    BY <2>1 DEF Starting, StartPlaces, Reading, Installing, Dropping, EnrollingPlaces
  <2>. QED
    BY <1>2, <2>2 DEF IdentityIsKept, PairMatches, Recoverable
<1>3. CASE loaded # 0 /\ Next /\ ~ (Restart /\ UNCHANGED files)
  <2>1. ASSUME NEW t \in Threads, Run(t) \/ CallFails(t) PROVE loaded' # 0
    BY <1>3, <2>1
    DEF Run, CallFails, Recovery, RecoverPendingRenewal, ReadPersisted, Read, ReadNextKey,
        InstallRenewal, DropPersisted, Drop, Write, Enrolling, Enroll, BootstrapCa,
        EnrollmentRequest, CreateEnrollmentRequest, EnrollmentAnswered, SaveEnrollment, Renewing,
        Due, NextRequest, CreateNextRequest, RenewalAnswered, SaveIssuance, ReloadTls, Goto, Fail,
        PairMatches
  <2>2. ASSUME Build \/ HourlyCheck \/ Heartbeat \/ Crash \/ Migrate \/ Age PROVE loaded' # 0
    BY <1>3, <2>2 DEF Build, HourlyCheck, Heartbeat, Crash, Migrate, Age, PairMatches, Outside
  <2>3. loaded' # 0
    BY <1>3, <2>1, <2>2 DEF Next
  <2>. QED
    BY <1>3, <2>3 DEF Starting
<1>4. CASE loaded = 0 /\ Next /\ ~ (Restart /\ UNCHANGED files)
  <2>0. /\ pc["heartbeat"] = "off" /\ pc["main"] \in StartPlaces
        /\ mem["main"].starting /\ mem["main"].then = "enroll"
        /\ files \in [File -> 0..MaxKeys] /\ pc \in [Threads -> Place]
        /\ mem \in [Threads -> Memory] /\ "main" \in Threads /\ "heartbeat" \in Threads
    BY <1>4 DEF Starting, TypeOK, Threads
  <2>1. CASE Build
    BY <1>4, <2>1 DEF Build, Starting, IdentityIsKept, PairMatches, Recoverable, Outside
  <2>2. CASE HourlyCheck \/ Heartbeat \/ Crash \/ Migrate
    BY <1>4, <2>0, <2>2 DEF HourlyCheck, Heartbeat, Crash, Migrate, StartPlaces, Reading,
       Installing, Dropping, EnrollingPlaces
  <2>3. CASE Age
    BY <2>3 DEF Age, Starting, IdentityIsKept, PairMatches, Recoverable
  <2>4. ASSUME NEW t \in Threads, Run(t) \/ CallFails(t)
        PROVE  Starting' /\ (IdentityIsKept => IdentityIsKept')
    <3>1. t = "main"
      <4>1. pc[t] # "off"
        BY <2>4
        DEF Run, CallFails, Recovery, RecoverPendingRenewal, ReadPersisted, Read, ReadNextKey,
            InstallRenewal, DropPersisted, Drop, Write, Enrolling, Enroll, BootstrapCa,
            EnrollmentRequest, CreateEnrollmentRequest, EnrollmentAnswered, SaveEnrollment,
            Renewing, Due, NextRequest, CreateNextRequest, RenewalAnswered, SaveIssuance, ReloadTls
      <4>. QED
        BY <2>0, <4>1 DEF Threads
    <3>2. Fail("main") => Restart
      BY <2>0 DEF Fail
    <3>3. CASE RecoverPendingRenewal("main") \/ Enroll("main")
      <4>1. /\ UNCHANGED <<files, mem, loaded>>
            /\ \/ pc' = [pc EXCEPT !["main"] = "readRequest"]
               \/ pc' = [pc EXCEPT !["main"] = "enroll"]
               \/ pc' = [pc EXCEPT !["main"] = "build"]
               \/ files["cert"] = 0 /\ \E p \in {"bootstrap", "request"} :
                                          pc' = [pc EXCEPT !["main"] = p]
        BY <1>4, <2>0, <3>2, <3>3 DEF RecoverPendingRenewal, Enroll, Goto, Outside
      <4>2. /\ pc'["heartbeat"] = "off"
            /\ \/ pc'["main"] \in {"readRequest", "enroll", "build"}
               \/ files["cert"] = 0 /\ pc'["main"] \in {"bootstrap", "request"}
        BY <2>0, <4>1
      <4>. QED
        BY <2>0, <4>1, <4>2 DEF Starting, StartPlaces, Reading, Installing, Dropping,
           EnrollingPlaces, IdentityIsKept, PairMatches, Recoverable
    <3>4. CASE ReadPersisted("main")
      <4>1. UNCHANGED <<files, loaded>> /\ pc'["heartbeat"] = "off"
            /\ mem'["main"].starting /\ mem'["main"].then = "enroll"
        BY <1>4, <2>0, <3>2, <3>4 DEF ReadPersisted, Read, ReadNextKey, Goto, Outside, Memory
      <4>2. \/ /\ pc'["main"] = "readIssuance"
               /\ mem'["main"].request = files["nextRequest"] /\ files["nextRequest"] # 0
            \/ /\ pc["main"] = "readIssuance" /\ pc'["main"] = "readKey"
               /\ mem'["main"].request = mem["main"].request
               /\ mem'["main"].issuance = files["issuance"] /\ files["issuance"] # 0
            \/ /\ pc["main"] = "readKey" /\ pc'["main"] = "installCa"
               /\ mem'["main"].request = mem["main"].request
               /\ mem'["main"].issuance = mem["main"].issuance
               /\ mem'["main"].key = files["nextKey"]
               /\ mem["main"].issuance = mem["main"].request
               /\ mem["main"].issuance = files["nextKey"]
        BY <1>4, <2>0, <3>2, <3>4
        DEF ReadPersisted, Read, ReadNextKey, Goto, Outside, Memory, Valid
      <4>3. Starting'
        BY <1>4, <4>1, <4>2 DEF Starting, StartPlaces, Reading, Installing, Dropping,
           EnrollingPlaces, Recoverable
      <4>. QED
        BY <4>1, <4>3 DEF IdentityIsKept, PairMatches, Recoverable
    <3>5. CASE InstallRenewal("main")
      <4>1. /\ UNCHANGED <<mem, loaded>> /\ pc'["heartbeat"] = "off"
            /\ \A f \in {"issuance", "nextRequest", "nextKey"} : files'[f] = files[f]
            /\ pc["main"] \in Installing
            /\ \/ pc'["main"] = "installKey" /\ files'["key"] = files["key"]
                  /\ files'["cert"] = files["cert"]
               \/ /\ pc'["main"] = "installCert" /\ files'["key"] = mem["main"].key
                  /\ files'["cert"] = files["cert"]
               \/ /\ pc["main"] = "installCert" /\ pc'["main"] = "dropRequest"
                  /\ files'["key"] = files["key"] /\ files'["cert"] = mem["main"].issuance
        BY <2>0, <3>5 DEF InstallRenewal, Write, Goto, File, Installing
      <4>2. /\ Recoverable /\ Recoverable'
            /\ mem["main"].issuance = files["issuance"] /\ mem["main"].key = files["issuance"]
            /\ pc["main"] = "installCert" => files["key"] = files["issuance"]
        BY <1>4, <4>1 DEF Starting, Recoverable
      <4>3. Starting'
        BY <2>0, <4>1, <4>2 DEF Starting, StartPlaces, Reading, Installing, Dropping,
           EnrollingPlaces, Recoverable, PairMatches
      <4>. QED
        BY <4>2, <4>3 DEF IdentityIsKept
    <3>6. CASE DropPersisted("main")
      <4>1. /\ UNCHANGED <<mem, loaded>> /\ pc'["heartbeat"] = "off"
            /\ pc["main"] \in Dropping /\ pc'["main"] \in {"dropKey", "dropIssuance", "enroll"}
            /\ files'["key"] = files["key"] /\ files'["cert"] = files["cert"]
        BY <2>0, <3>6 DEF DropPersisted, Drop, Write, Goto, File, Dropping
      <4>2. PairMatches /\ PairMatches'
        BY <1>4, <4>1 DEF Starting, PairMatches
      <4>. QED
        BY <2>0, <4>1, <4>2 DEF Starting, StartPlaces, Reading, Installing, Dropping,
           EnrollingPlaces, IdentityIsKept
    <3>7. CASE BootstrapCa("main") \/ EnrollmentRequest("main")
               \/ CreateEnrollmentRequest("main") \/ EnrollmentAnswered("main")
      <4>1. /\ pc["main"] \in EnrollingPlaces /\ UNCHANGED loaded /\ pc'["heartbeat"] = "off"
            /\ files'["cert"] = files["cert"]
            /\ mem'["main"].starting /\ mem'["main"].then = "enroll"
            /\ pc'["main"] \in EnrollingPlaces
            /\ pc'["main"] = "saveCert" => mem'["main"].issuance = files'["key"]
        BY <1>4, <2>0, <3>2, <3>7
        DEF BootstrapCa, EnrollmentRequest, CreateEnrollmentRequest, EnrollmentAnswered, Write,
            Goto, File, Memory, Valid, EnrollingPlaces, Outside
      <4>2. files["cert"] = 0
        BY <1>4, <4>1 DEF Starting
      <4>. QED
        BY <4>1, <4>2 DEF Starting, StartPlaces, Reading, Installing, Dropping,
           EnrollingPlaces, IdentityIsKept
    <3>8. CASE SaveEnrollment("main")
      <4>1. /\ UNCHANGED <<mem, loaded>> /\ pc'["heartbeat"] = "off"
            /\ \A f \in {"issuance", "nextRequest", "nextKey", "key"} : files'[f] = files[f]
            /\ \/ /\ pc["main"] = "saveCert" /\ pc'["main"] = "saveCa"
                  /\ files'["cert"] = mem["main"].issuance
               \/ pc'["main"] = "build" /\ files'["cert"] = files["cert"]
        BY <2>0, <3>8 DEF SaveEnrollment, Write, Goto, File
      <4>2. Starting'
        BY <2>0, <4>1 DEF Starting, StartPlaces, Reading, Installing, Dropping, EnrollingPlaces
      <4>3. pc["main"] = "saveCert" => mem["main"].issuance = files["key"]
        BY <1>4 DEF Starting
      <4>. QED
        BY <4>1, <4>2, <4>3 DEF IdentityIsKept, PairMatches, Recoverable
    <3>9. CASE Renewing("main") \/ CallFails("main")
      <4>1. pc["main"] \notin StartPlaces \/ (Restart /\ UNCHANGED files)
        BY <3>2, <3>9
        DEF Renewing, Due, NextRequest, CreateNextRequest, RenewalAnswered, SaveIssuance,
            ReloadTls, Write, CallFails, StartPlaces, Reading, Installing, Dropping,
            EnrollingPlaces
      <4>. QED
        BY <1>4, <2>0, <4>1
    <3>. QED
      BY <2>4, <3>1, <3>3, <3>4, <3>5, <3>6, <3>7, <3>8, <3>9 DEF Run, Recovery, Enrolling
  <2>. QED
    BY <1>4, <2>1, <2>2, <2>3, <2>4 DEF Next
<1>. QED
  BY <1>1, <1>2, <1>3, <1>4

(* _recover_pending_renewal and enroll(), run by main() before build(),    *)
(* never take an identity away: a start keeps the pair, or the persisted   *)
(* renewal it can be repaired from, whatever two overlapping renewals have *)
(* left in the other files and wherever the start itself is stopped.       *)
StartsKeepIdentity == [][loaded = 0 /\ IdentityIsKept => IdentityIsKept']_vars

THEOREM StartsKeepTheIdentity == Spec => StartsKeepIdentity
<1>1. Init => Starting
  <2> SUFFICES ASSUME Init PROVE Starting
    OBVIOUS
  <2>1. /\ pc["heartbeat"] = "off" /\ pc["main"] = "recover"
        /\ mem["main"].starting /\ mem["main"].then = "enroll"
    BY DEF Init, StartPc, StartMem, Called, Threads
  <2>. QED
    BY <2>1 DEF Starting, StartPlaces, Reading, Installing, Dropping, EnrollingPlaces
<1>2. TypeOK /\ Starting /\ [Next]_vars => Starting'
  BY StartingKept
<1>3. TypeOK /\ Starting /\ [Next]_vars
      => [loaded = 0 /\ IdentityIsKept => IdentityIsKept']_vars
  BY StartingKept
<1>. QED
  BY <1>1, <1>2, <1>3, EnrollmentTypes, PTL DEF Spec, StartsKeepIdentity
=============================================================================
