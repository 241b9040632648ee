----------------------------- MODULE Enrollment -----------------------------
(***************************************************************************)
(* The bridge's mTLS identity: first enrollment, start-up, and certificate *)
(* renewal (enrollment.py, with the callers of renew_if_needed in          *)
(* service.py and the start-up order of cli.py).                           *)
(*                                                                         *)
(* The identity is a handful of files, each replaced atomically by         *)
(* _atomic_write, so a file is read or written in one step and the process *)
(* may stop between any two steps.  Two threads call renew_if_needed: the  *)
(* main loop every hour, and the heartbeat thread when the backend asks    *)
(* for a renewal.  Nothing excludes one from the other.                    *)
(*                                                                         *)
(* A TLS key is a number.  Whatever is made for a key (the request with    *)
(* its CSR, the certificate, the issuance that carries it, the credential  *)
(* key made beside it) is the same number, and 0 is a file that is absent: *)
(* the validations compare exactly these.                                  *)
(***************************************************************************)
EXTENDS Naturals

CONSTANTS
    MaxKeys,     \* keys that may be generated: a bound on the exploration
    Budgets      \* [migrations, ages, crashes]: what happens around the bridge

ASSUME MaxKeysAssumption == MaxKeys \in Nat \ {0}
ASSUME BudgetsAssumption ==
    Budgets \subseteq [migrations : Nat, ages : Nat, crashes : Nat]

Threads == {"main", "heartbeat"}
Keys == 1..MaxKeys

(* The trust bundle is numbered after the issuance it came with, and the   *)
(* one fetched before the enrollment is older than any renewal's.          *)
Bootstrap == 1

File == {"ca", "key", "cert", "credential", "request",
         "nextRequest", "nextKey", "issuance"}

Place == {"off", "idle", "recover", "readRequest", "readIssuance", "readKey",
          "installCa", "installKey", "installCert", "dropRequest", "dropKey",
          "dropIssuance", "enroll", "bootstrap", "request", "createKey",
          "createCredential", "createRequest", "postEnrollment", "saveCert",
          "saveCa", "due", "next", "createNextKey", "createNextRequest",
          "postRenewal", "saveIssuance", "reload", "build"}

VARIABLES
    files,       \* the files of the identity
    pc,          \* where each thread is in enroll() or renew_if_needed()
    mem,         \* each thread's local variables
    keys,        \* keys generated so far
    loaded,      \* the certificate the HTTP clients present, 0 before build()
    age,         \* how old each certificate is
    wanted,      \* the backend accepts certificates from this one on
    budget       \* what may still happen around the bridge

vars == <<files, pc, mem, keys, loaded, age, wanted, budget>>

Ages == {"fresh", "due", "expired"}

(* "starting": the call is the one main() makes before build().            *)
(* "then": where a recovered renewal returns to; renew_if_needed() asks    *)
(* once itself and once more in the enroll() it calls.                     *)
Memory ==
    [starting : BOOLEAN, force : BOOLEAN, then : {"reload", "enroll"},
     request : 0..MaxKeys, key : 0..MaxKeys, issuance : 0..MaxKeys]

Called(starting, force, then) ==
    [starting |-> starting, force |-> force, then |-> then,
     request |-> 0, key |-> 0, issuance |-> 0]

TypeOK ==
    /\ files \in [File -> 0..MaxKeys]
    /\ pc \in [Threads -> Place]
    /\ mem \in [Threads -> Memory]
    /\ keys \in 0..MaxKeys
    /\ loaded \in 0..MaxKeys
    /\ age \in [Keys -> Ages]
    /\ wanted \in 1..(MaxKeys + 1)
    /\ budget \in [migrations : Nat, ages : Nat, crashes : Nat]

(* cli.main(): enroll() runs alone, before there is a bridge.              *)
StartPc == [t \in Threads |-> IF t = "main" THEN "recover" ELSE "off"]
StartMem == [t \in Threads |-> Called(t = "main", FALSE, "enroll")]

Init ==
    /\ files = [f \in File |-> 0]
    /\ pc = StartPc
    /\ mem = StartMem
    /\ keys = 0
    /\ loaded = 0
    /\ age = [k \in Keys |-> "fresh"]
    /\ wanted = 1
    /\ budget \in Budgets

-----------------------------------------------------------------------------
(* Steps of a thread *)

(* The process ends and is started again; only the files survive.          *)
Restart == pc' = StartPc /\ mem' = StartMem /\ loaded' = 0

Goto(t, place) == pc' = [pc EXCEPT ![t] = place]

(* An exception: before build() it ends the process; in a renewal          *)
(* _renew_certificate() reports the degraded certificate and goes on.      *)
Fail(t) ==
    IF mem[t].starting
    THEN Restart
    ELSE Goto(t, "idle") /\ UNCHANGED <<mem, loaded>>

Outside == <<keys, age, wanted, budget>>

Write(t, from, file, value, to) ==
    /\ pc[t] = from
    /\ files' = [files EXCEPT ![file] = value]
    /\ Goto(t, to)
    /\ UNCHANGED <<mem, loaded, Outside>>

Drop(t, from, file, to) == Write(t, from, file, 0, to)

(* A read of a persisted renewal file, which the other thread may have     *)
(* unlinked meanwhile.                                                     *)
Read(t, from, file, field, to) ==
    /\ pc[t] = from
    /\ \/ /\ files[file] = 0
          /\ Fail(t)
       \/ /\ files[file] # 0
          /\ mem' = [mem EXCEPT ![t][field] = files[file]]
          /\ Goto(t, to)
          /\ UNCHANGED loaded
    /\ UNCHANGED <<files, Outside>>

(* _validate_current_certificate(), and what load_cert_chain() requires.   *)
PairMatches == files["cert"] # 0 /\ files["cert"] = files["key"]

(* _validate_issuance(): the issuance answers this request and certifies   *)
(* this key.                                                               *)
Valid(issuance, request, key) == issuance = request /\ issuance = key

-----------------------------------------------------------------------------
(* A persisted renewal *)

(* _recover_pending_renewal(), up to its reads.                            *)
RecoverPendingRenewal(t) ==
    /\ pc[t] = "recover"
    /\ \/ /\ files["issuance"] = 0
          /\ IF mem[t].then = "reload"
             THEN mem' = [mem EXCEPT ![t].then = "enroll"] /\ UNCHANGED pc
             ELSE Goto(t, "enroll") /\ UNCHANGED mem
          /\ UNCHANGED loaded
       \/ /\ files["issuance"] # 0
          /\ files["nextRequest"] = 0 \/ files["nextKey"] = 0
          /\ Fail(t)
       \/ /\ files["issuance"] # 0
          /\ files["nextRequest"] # 0 /\ files["nextKey"] # 0
          /\ Goto(t, "readRequest")
          /\ UNCHANGED <<mem, loaded>>
    /\ UNCHANGED <<files, Outside>>

(* The last read comes with the validation that begins _install_renewal(). *)
ReadNextKey(t) ==
    /\ pc[t] = "readKey"
    /\ \/ /\ files["nextKey"] # 0
          /\ Valid(mem[t].issuance, mem[t].request, files["nextKey"])
          /\ mem' = [mem EXCEPT ![t].key = files["nextKey"]]
          /\ Goto(t, "installCa")
          /\ UNCHANGED loaded
       \/ /\ ~ Valid(mem[t].issuance, mem[t].request, files["nextKey"])
          /\ Fail(t)
    /\ UNCHANGED <<files, Outside>>

ReadPersisted(t) ==
    \/ Read(t, "readRequest", "nextRequest", "request", "readIssuance")
    \/ Read(t, "readIssuance", "issuance", "issuance", "readKey")
    \/ ReadNextKey(t)

(* _install_renewal(): the bundle, then the key, then its certificate.     *)
InstallRenewal(t) ==
    \/ Write(t, "installCa", "ca", mem[t].issuance, "installKey")
    \/ Write(t, "installKey", "key", mem[t].key, "installCert")
    \/ Write(t, "installCert", "cert", mem[t].issuance, "dropRequest")

(* Mutant: a recovered renewal is not reported as a renewal.               *)
DropUnreported(t) ==
    \/ Drop(t, "dropRequest", "nextRequest", "dropKey")
    \/ Drop(t, "dropKey", "nextKey", "dropIssuance")
    \/ Drop(t, "dropIssuance", "issuance",
            IF mem[t].force THEN "reload" ELSE "enroll")

(* The unlinks that end a renewal, recovered or new.                       *)
DropPersisted(t) ==
    \/ Drop(t, "dropRequest", "nextRequest", "dropKey")
    \/ Drop(t, "dropKey", "nextKey", "dropIssuance")
    \/ Drop(t, "dropIssuance", "issuance", mem[t].then)

-----------------------------------------------------------------------------
(* enroll() *)

(* The files are checked and the pair is validated; main() then builds the *)
(* bridge, renew_if_needed() validates once more and looks at the date.    *)
Enroll(t) ==
    /\ pc[t] = "enroll"
    /\ \/ /\ files["cert"] = 0
          /\ Goto(t, IF files["ca"] = 0 THEN "bootstrap" ELSE "request")
          /\ UNCHANGED <<mem, loaded>>
       \/ /\ PairMatches /\ files["credential"] # 0 /\ files["ca"] # 0
          /\ age[files["cert"]] # "expired"
          /\ Goto(t, IF mem[t].starting THEN "build" ELSE "due")
          /\ UNCHANGED <<mem, loaded>>
       \/ /\ files["cert"] # 0
          /\ \/ ~ PairMatches
             \/ files["credential"] = 0
             \/ files["ca"] = 0
             \/ age[files["cert"]] = "expired"
          /\ Fail(t)
    /\ UNCHANGED <<files, Outside>>

(* bootstrap_ca() with the answer verified.                                *)
BootstrapCa(t) == Write(t, "bootstrap", "ca", Bootstrap, "request")

(* _enrollment_request(): the persisted request, which must have its keys, *)
(* or a new one.                                                           *)
EnrollmentRequest(t) ==
    /\ pc[t] = "request"
    /\ \/ /\ files["request"] = 0
          /\ keys < MaxKeys
          /\ keys' = keys + 1
          /\ mem' = [mem EXCEPT ![t].key = keys + 1]
          /\ Goto(t, "createKey")
          /\ UNCHANGED loaded
       \/ /\ files["request"] # 0
          /\ IF files["key"] # 0 /\ files["credential"] # 0
             THEN /\ mem' = [mem EXCEPT ![t].request = files["request"]]
                  /\ Goto(t, "postEnrollment")
                  /\ UNCHANGED loaded
             ELSE Fail(t)
          /\ UNCHANGED keys
    /\ UNCHANGED <<files, age, wanted, budget>>

(* Mutant: the request is persisted before the keys it was made with.      *)
RequestBeforeKeys(t) ==
    \/ Write(t, "createKey", "request", mem[t].key, "createCredential")
    \/ Write(t, "createCredential", "key", mem[t].key, "createRequest")
    \/ Write(t, "createRequest", "credential", mem[t].key, "request")

(* _create_enrollment_request(): both keys are on disk before the request. *)
CreateEnrollmentRequest(t) ==
    \/ Write(t, "createKey", "key", mem[t].key, "createCredential")
    \/ Write(t, "createCredential", "credential", mem[t].key, "createRequest")
    \/ Write(t, "createRequest", "request", mem[t].key, "request")

(* The backend answers the request with a certificate for its CSR, however *)
(* often it is sent; the key the answer is validated with is read now.     *)
EnrollmentAnswered(t) ==
    /\ pc[t] = "postEnrollment"
    /\ IF Valid(mem[t].request, mem[t].request, files["key"])
       THEN /\ mem' = [mem EXCEPT ![t].issuance = mem[t].request]
            /\ Goto(t, "saveCert")
            /\ UNCHANGED loaded
       ELSE Fail(t)
    /\ UNCHANGED <<files, Outside>>

SaveEnrollment(t) ==
    \/ Write(t, "saveCert", "cert", mem[t].issuance, "saveCa")
    \/ Write(t, "saveCa", "ca", mem[t].issuance,
             IF mem[t].starting THEN "build" ELSE "due")

(* build(): the clients load the pair; the heartbeat thread is started.    *)
Build ==
    /\ pc["main"] = "build"
    /\ IF PairMatches
       THEN /\ loaded' = files["cert"]
            /\ pc' = [t \in Threads |-> "idle"]
            /\ mem' = [mem EXCEPT !["main"].starting = FALSE]
       ELSE Restart
    /\ UNCHANGED <<files, Outside>>

-----------------------------------------------------------------------------
(* renew_if_needed() *)

(* Mutant: after a recovered renewal the date is looked at, as if nothing  *)
(* had been renewed.                                                       *)
HourlyCheckResumes ==
    /\ pc["main"] = "idle"
    /\ Goto("main", "recover")
    /\ mem' = [mem EXCEPT !["main"] = Called(FALSE, FALSE, "due")]
    /\ UNCHANGED <<files, loaded, Outside>>

(* tick(), every hour.                                                     *)
HourlyCheck ==
    /\ pc["main"] = "idle"
    /\ Goto("main", "recover")
    /\ mem' = [mem EXCEPT !["main"] = Called(FALSE, FALSE, "reload")]
    /\ UNCHANGED <<files, loaded, Outside>>

(* heartbeat(): the answer asks for a renewal of the certificate the       *)
(* client presents.                                                        *)
Heartbeat ==
    /\ pc["heartbeat"] = "idle"
    /\ loaded < wanted
    /\ age[loaded] # "expired"
    /\ Goto("heartbeat", "recover")
    /\ mem' = [mem EXCEPT !["heartbeat"] = Called(FALSE, TRUE, "reload")]
    /\ UNCHANGED <<files, loaded, Outside>>

Due(t) ==
    /\ pc[t] = "due"
    /\ \/ /\ ~ PairMatches
          /\ Fail(t)
       \/ /\ PairMatches
          /\ Goto(t, IF mem[t].force \/ age[files["cert"]] # "fresh"
                     THEN "next" ELSE "idle")
          /\ UNCHANGED <<mem, loaded>>
    /\ UNCHANGED <<files, Outside>>

(* The persisted request with its key, or a new one.                       *)
NextRequest(t) ==
    /\ pc[t] = "next"
    /\ \/ /\ files["nextRequest"] = 0
          /\ keys < MaxKeys
          /\ keys' = keys + 1
          /\ mem' = [mem EXCEPT ![t].request = keys + 1, ![t].key = keys + 1]
          /\ Goto(t, "createNextKey")
          /\ UNCHANGED loaded
       \/ /\ files["nextRequest"] # 0
          /\ IF files["nextKey"] # 0
             THEN /\ mem' = [mem EXCEPT ![t].request = files["nextRequest"],
                                        ![t].key = files["nextKey"]]
                  /\ Goto(t, "postRenewal")
                  /\ UNCHANGED loaded
             ELSE Fail(t)
          /\ UNCHANGED keys
    /\ UNCHANGED <<files, age, wanted, budget>>

CreateNextRequest(t) ==
    \/ Write(t, "createNextKey", "nextKey", mem[t].key, "createNextRequest")
    \/ Write(t, "createNextRequest", "nextRequest", mem[t].request, "postRenewal")

(* The call presents the installed pair; the answer is validated against   *)
(* the request and the key the thread holds.                               *)
RenewalAnswered(t) ==
    /\ pc[t] = "postRenewal"
    /\ IF /\ PairMatches
          /\ age[files["cert"]] # "expired"
          /\ Valid(mem[t].request, mem[t].request, mem[t].key)
       THEN /\ mem' = [mem EXCEPT ![t].issuance = mem[t].request,
                                  ![t].then = "reload"]
            /\ Goto(t, "saveIssuance")
            /\ UNCHANGED loaded
       ELSE Fail(t)
    /\ UNCHANGED <<files, Outside>>

(* Mutant: the answer is installed without being persisted.                *)
InstallUnsaved(t) ==
    /\ pc[t] = "saveIssuance"
    /\ Goto(t, "installCa")
    /\ UNCHANGED <<files, mem, loaded, Outside>>

SaveIssuance(t) == Write(t, "saveIssuance", "issuance", mem[t].issuance, "installCa")

(* _renew_certificate(): the clients reload outside the try, so a pair     *)
(* that does not match ends the process.                                   *)
ReloadTls(t) ==
    /\ pc[t] = "reload"
    /\ IF PairMatches
       THEN loaded' = files["cert"] /\ Goto(t, "idle") /\ UNCHANGED mem
       ELSE Restart
    /\ UNCHANGED <<files, Outside>>

-----------------------------------------------------------------------------
(* What happens around the bridge *)

(* A network call of the identity fails.                                   *)
CallFails(t) ==
    /\ pc[t] \in {"bootstrap", "postEnrollment", "postRenewal"}
    /\ Fail(t)
    /\ UNCHANGED <<files, Outside>>

Crash ==
    /\ budget.crashes > 0
    /\ budget' = [budget EXCEPT !.crashes = @ - 1]
    /\ Restart
    /\ UNCHANGED <<files, keys, age, wanted>>

(* The control CA migrates: certificates issued so far must be renewed.    *)
Migrate ==
    /\ budget.migrations > 0
    /\ loaded # 0
    /\ budget' = [budget EXCEPT !.migrations = @ - 1]
    /\ wanted' = keys + 1
    /\ UNCHANGED <<files, pc, mem, keys, loaded, age>>

(* The installed certificate comes within seven days of its end, and       *)
(* reaches it.                                                             *)
Age ==
    /\ budget.ages > 0
    /\ files["cert"] # 0
    /\ age[files["cert"]] # "expired"
    /\ budget' = [budget EXCEPT !.ages = @ - 1]
    /\ age' = [age EXCEPT ![files["cert"]] = IF @ = "fresh" THEN "due" ELSE "expired"]
    /\ UNCHANGED <<files, pc, mem, keys, loaded, wanted>>

-----------------------------------------------------------------------------
Recovery(t) ==
    \/ RecoverPendingRenewal(t)
    \/ ReadPersisted(t)
    \/ InstallRenewal(t)
    \/ DropPersisted(t)

Enrolling(t) ==
    \/ Enroll(t)
    \/ BootstrapCa(t)
    \/ EnrollmentRequest(t)
    \/ CreateEnrollmentRequest(t)
    \/ EnrollmentAnswered(t)
    \/ SaveEnrollment(t)

Renewing(t) ==
    \/ Due(t)
    \/ NextRequest(t)
    \/ CreateNextRequest(t)
    \/ RenewalAnswered(t)
    \/ SaveIssuance(t)
    \/ ReloadTls(t)

Run(t) == Recovery(t) \/ Enrolling(t) \/ Renewing(t)

Next ==
    \/ \E t \in Threads : Run(t) \/ CallFails(t)
    \/ Build
    \/ HourlyCheck
    \/ Heartbeat
    \/ Crash
    \/ Migrate
    \/ Age

Spec == Init /\ [][Next]_vars

(* Threads run, the hour passes, heartbeats are sent, and no network call  *)
(* fails for ever.                                                         *)
Fairness ==
    /\ \A t \in Threads : WF_vars(Run(t))
    /\ WF_vars(Build)
    /\ WF_vars(HourlyCheck)
    /\ WF_vars(Heartbeat)
    /\ SF_vars(BootstrapCa("main"))
    /\ SF_vars(EnrollmentAnswered("main"))
    /\ \A t \in Threads : SF_vars(RenewalAnswered(t))

FairSpec == Spec /\ Fairness

-----------------------------------------------------------------------------
(* Properties *)

(* What a lock around the renewal would give, and the code does not have:  *)
(* while a thread makes a new request, the other neither makes one nor     *)
(* installs what it found persisted.                                       *)
Creating == {"next", "createNextKey", "createNextRequest", "postRenewal",
             "saveIssuance"}
Reading == {"readRequest", "readIssuance", "readKey"}
Installing == {"installCa", "installKey", "installCert"}
Dropping == {"dropRequest", "dropKey", "dropIssuance"}

NoOverlap ==
    \A t, u \in Threads :
        t # u /\ pc[t] \in Creating
            => pc[u] \notin Creating \cup Reading \cup Installing \cup Dropping

(* What _recover_pending_renewal() can install.                            *)
Recoverable ==
    /\ files["issuance"] # 0
    /\ files["nextRequest"] = files["issuance"]
    /\ files["nextKey"] = files["issuance"]

(* What it refuses, at every start.                                        *)
Incomplete ==
    files["issuance"] # 0 /\ (files["nextRequest"] = 0 \/ files["nextKey"] = 0)

(* An enrolled bridge never loses its identity: wherever it stops, the     *)
(* installed certificate has its key, or the renewal that was replacing    *)
(* the pair is persisted whole (_install_renewal, _recover_pending_renewal *)
(* and the order of the writes in renew_if_needed).  It relates four files *)
(* two threads write.                                                      *)
IdentityIsKept == files["cert"] # 0 => PairMatches \/ Recoverable

(* Once no thread renews, the clients present the installed certificate    *)
(* (_renew_certificate's reload after a renewal, also a recovered one).    *)
ClientsAreCurrent ==
    /\ loaded # 0
    /\ \A t \in Threads : pc[t] \in {"idle", "recover", "enroll", "due"}
    => loaded = files["cert"]

(* The bridge comes up and its certificate is renewed, whatever crashes    *)
(* and failed calls it meets, unless it was stopped between the unlinks    *)
(* that end a renewal or the certificate expired (enroll, renew_if_needed, *)
(* heartbeat).                                                             *)
IdentityServes ==
    <>[]\/ Incomplete
        \/ files["cert"] # 0 /\ age[files["cert"]] = "expired"
        \/ loaded # 0 /\ loaded >= wanted /\ age[loaded] = "fresh"

(* "the persisted issuance repairs the pair before any network client is   *)
(* created on the next start": whenever renew_if_needed() was interrupted, *)
(* a start that finds an issuance finds a renewal it can install.          *)
RestartRecovers ==
    pc["main"] = "recover" /\ mem["main"].starting /\ files["issuance"] # 0
        => Recoverable
=============================================================================
