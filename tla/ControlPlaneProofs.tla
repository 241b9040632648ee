------------------------- MODULE ControlPlaneProofs -------------------------
(***************************************************************************)
(* The tables follow the backend's log, whatever batches and snapshots     *)
(* bring them there; and what the threads record about the account and its *)
(* participants is never older than what they say.                         *)
(***************************************************************************)
EXTENDS ControlPlane, NumberLemmas, TLAPS

-----------------------------------------------------------------------------
(* The invariant *)

(* The newest change of a kind in a log, among the first n.                *)
NewestIn(l, of, n) == l[Max({i \in 1..n : l[i].of = of})]

(* Generations grow along the log, and resets never go back.               *)
GrowingLog(l) ==
    /\ l \in Seq(Change)
    /\ Len(l) >= 2
    /\ l[1].of = "account" /\ l[2].of = "chat"
    /\ \A i, j \in 1..Len(l) :
          i < j /\ l[i].of = l[j].of /\ l[i].of # "unsupported" =>
              /\ l[i].gen < l[j].gen
              /\ l[i].of = "account" => l[i].reset <= l[j].reset
    /\ \A i \in 1..Len(l) : l[i].of # "unsupported" => l[i].gen >= 1

(* Tables hold what a log said at n.                                       *)
FollowsTo(d, l, n) ==
    /\ d.account.gen = NewestIn(l, "account", n).gen
    /\ d.account.reset = NewestIn(l, "account", n).reset
    /\ d.chat.gen = NewestIn(l, "chat", n).gen
    /\ d.chat.content = NewestIn(l, "chat", n).content

(* Resets are done once, in order, the last one being the account's.       *)
ResetsDone(resets, reset) ==
    /\ \A i, j \in 1..Len(resets) : i < j => resets[i] < resets[j]
    /\ reset = IF resets = <<>> THEN 0 ELSE Last(resets)

(* What tables say of themselves, in every step of an application.         *)
Sound(d) ==
    /\ d \in Tables
    /\ d.sync.state = "none" <=> d.sync.gen = 0
    /\ d.sched.gen = d.account.gen /\ d.sched.reset = d.account.reset
    /\ ResetsDone(d.resets, d.account.reset)
    /\ d.mapped \subseteq d.chat.content.topics

(* The cursor is a place of the log, and a poll ends at or after it.       *)
Polled ==
    /\ db.cursor # 0 => db.cursor \in 2..Len(log) /\ FollowsTo(db, log, db.cursor)
    /\ db.cursor = 0 => db.account.gen = 0 /\ db.account.reset = 0
    /\ main.pc = "batch" => db.cursor # 0 /\ main.upto \in db.cursor..Len(log)
    /\ main.pc = "snapshot" =>
          main.upto \in 2..Len(log) /\ db.cursor <= main.upto

(* A report that a thread holds has its place in the outbox, and an answer *)
(* that came says something.                                               *)
HasPlace(rows, by) ==
    \E i \in 1..Len(rows) : rows[i].status = "stamped" /\ rows[i].by = by

Placed ==
    /\ main.pc = "stamped" => HasPlace(outbox, "main")
    /\ live.pc = "stamped" => HasPlace(outbox, "live")
    /\ main.pc = "answered" => main.result # "none"

Holding == {"fetched", "merged", "stamped", "complete"}

(* A list that can still make participants ready is new enough.            *)
ListsAreCurrent ==
    /\ peer <= zulip.version /\ noticed <= zulip.version
    /\ main.pc \in Holding /\ db.sync.state = "running" => main.asof >= noticed
    /\ db.sync.state = "ready" => db.sync.asof >= noticed

(* Nothing quarantines an account but a refusal of its generation.         *)
Refused ==
    /\ db.sched.state = "auth_required" => db.sched.gen \in refused
    /\ \A c \in Callers : call[c].answer = "auth" => call[c].gen \in refused

ControlInv ==
    /\ TypeOK
    /\ GrowingLog(log)
    /\ Sound(db)
    /\ Polled
    /\ Placed
    /\ ListsAreCurrent
    /\ Refused

-----------------------------------------------------------------------------
(* The log *)

Kinds == {"account", "chat"}

LEMMA ChangeFields ==
    ASSUME NEW c \in Change
    PROVE  /\ c.of \in Kinds \cup {"unsupported"}
           /\ c.of = "unsupported" <=> c = Unsupported
           /\ c.of = "account" => c.gen \in Nat /\ c.reset \in Nat
           /\ c.of = "chat" => c.gen \in Nat /\ c.content \in Content
BY DEF Change, Unsupported, Kinds

LEMMA MadeChanges ==
    ASSUME NEW gen \in Nat
    PROVE  /\ \A reset \in Nat :
                 /\ Account(gen, reset) \in Change
                 /\ Account(gen, reset).of = "account"
                 /\ Account(gen, reset).gen = gen
                 /\ Account(gen, reset).reset = reset
           /\ \A content \in Content :
                 /\ Chat(gen, content) \in Change
                 /\ Chat(gen, content).of = "chat"
                 /\ Chat(gen, content).gen = gen
                 /\ Chat(gen, content).content = content
           /\ Unsupported \in Change /\ Unsupported.of = "unsupported"
BY DEF Change, Unsupported, Account, Chat

(* The newest change of a kind is the last one of it.                      *)
LEMMA NewestPlace ==
    ASSUME NEW l, GrowingLog(l), NEW n \in 2..Len(l), NEW of \in Kinds
    PROVE  \E k \in 1..n :
              /\ NewestIn(l, of, n) = l[k] /\ l[k].of = of /\ l[k] \in Change
              /\ \A i \in 1..n : l[i].of = of => i <= k
<1> DEFINE S == {i \in 1..n : l[i].of = of}
<1>1. n \in Nat /\ Len(l) \in Nat /\ 1 \in 1..n /\ 2 \in 1..n
  BY DEF GrowingLog
<1>2. S \in SUBSET (0..n)
  BY <1>1
<1>3. 1 \in S \/ 2 \in S
  BY <1>1 DEF GrowingLog, Kinds
<1>4. Max(S) \in S /\ \A m \in S : m <= Max(S)
  <2> HIDE DEF S
  <2>. QED
    BY <1>1, <1>2, <1>3, Greatest
<1>5. \A i \in 1..n : l[i] \in Change
  BY <1>1 DEF GrowingLog
<1>. QED
  BY <1>4, <1>5 DEF NewestIn

LEMMA NewestAt ==
    ASSUME NEW l, GrowingLog(l), NEW n \in 2..Len(l), NEW of \in Kinds,
           NEW k \in 1..n, l[k].of = of, \A i \in 1..n : l[i].of = of => i <= k
    PROVE  NewestIn(l, of, n) = l[k]
<1>1. PICK m \in 1..n :
          /\ NewestIn(l, of, n) = l[m] /\ l[m].of = of /\ l[m] \in Change
          /\ \A i \in 1..n : l[i].of = of => i <= m
  BY NewestPlace
<1>2. m <= k /\ k <= m
  BY <1>1
<1>3. m \in Nat /\ k \in Nat
  BY DEF GrowingLog
<1>. QED
  BY <1>1, <1>2, <1>3

(* What a kind's newest change says, and that it is as new as any.         *)
LEMMA NewestFields ==
    ASSUME NEW l, GrowingLog(l), NEW n \in 2..Len(l)
    PROVE  /\ NewestIn(l, "account", n).gen \in Nat \ {0}
           /\ NewestIn(l, "account", n).reset \in Nat
           /\ NewestIn(l, "chat", n).gen \in Nat \ {0}
           /\ NewestIn(l, "chat", n).content \in Content
           /\ \A i \in 1..n : l[i].of = "account" =>
                 /\ l[i].gen <= NewestIn(l, "account", n).gen
                 /\ l[i].reset <= NewestIn(l, "account", n).reset
           /\ \A i \in 1..n : l[i].of = "chat" => l[i].gen <= NewestIn(l, "chat", n).gen
<1>1. PICK a \in 1..n : /\ NewestIn(l, "account", n) = l[a] /\ l[a].of = "account"
                        /\ l[a] \in Change
                        /\ \A i \in 1..n : l[i].of = "account" => i <= a
  BY NewestPlace DEF Kinds
<1>2. PICK c \in 1..n : /\ NewestIn(l, "chat", n) = l[c] /\ l[c].of = "chat"
                        /\ l[c] \in Change
                        /\ \A i \in 1..n : l[i].of = "chat" => i <= c
  BY NewestPlace DEF Kinds
<1>3. n \in Nat /\ a \in 1..Len(l) /\ c \in 1..Len(l)
  BY DEF GrowingLog
<1>4. /\ l[a].gen \in Nat /\ l[a].gen >= 1 /\ l[a].reset \in Nat
      /\ l[c].gen \in Nat /\ l[c].gen >= 1 /\ l[c].content \in Content
  BY <1>1, <1>2, <1>3, ChangeFields DEF GrowingLog
<1>5. ASSUME NEW i \in 1..n, l[i].of = "account"
      PROVE  l[i].gen <= l[a].gen /\ l[i].reset <= l[a].reset
  <2>1. i \in 1..Len(l) /\ l[i] \in Change
    BY <1>3 DEF GrowingLog
  <2>2. l[i].gen \in Nat /\ l[i].reset \in Nat
    BY <1>5, <2>1, ChangeFields
  <2>3. i = a \/ i < a
    BY <1>1, <1>3, <1>5
  <2>4. CASE i = a
    BY <2>2, <2>4
  <2>5. CASE i < a
    <3>1. l[i].gen < l[a].gen /\ l[i].reset <= l[a].reset
      BY <1>1, <1>3, <1>5, <2>1, <2>5 DEF GrowingLog
    <3>. QED
      BY <1>4, <2>2, <3>1
  <2>. QED
    BY <2>3, <2>4, <2>5
<1>6. ASSUME NEW i \in 1..n, l[i].of = "chat"
      PROVE  l[i].gen <= l[c].gen
  <2>1. i \in 1..Len(l) /\ l[i] \in Change
    BY <1>3 DEF GrowingLog
  <2>2. l[i].gen \in Nat
    BY <1>6, <2>1, ChangeFields
  <2>3. i = c \/ i < c
    BY <1>2, <1>3, <1>6
  <2>4. CASE i = c
    BY <2>2, <2>4
  <2>5. CASE i < c
    <3>1. l[i].gen < l[c].gen
      BY <1>2, <1>3, <1>6, <2>1, <2>5 DEF GrowingLog
    <3>. QED
      BY <1>4, <2>2, <3>1
  <2>. QED
    BY <2>3, <2>4, <2>5
<1>. QED
  BY <1>1, <1>2, <1>4, <1>5, <1>6

(* Two logs that agree up to n have the same newest changes there.         *)
LEMMA NewestPrefix ==
    ASSUME NEW l, GrowingLog(l), NEW m, GrowingLog(m), NEW n \in 2..Len(l), n <= Len(m),
           \A i \in 1..n : m[i] = l[i], NEW of \in Kinds
    PROVE  NewestIn(m, of, n) = NewestIn(l, of, n)
<1>1. PICK k \in 1..n : /\ NewestIn(l, of, n) = l[k] /\ l[k].of = of /\ l[k] \in Change
                        /\ \A i \in 1..n : l[i].of = of => i <= k
  BY NewestPlace
<1>2. n \in 2..Len(m)
  BY DEF GrowingLog
<1>3. m[k].of = of /\ \A i \in 1..n : m[i].of = of => i <= k
  BY <1>1
<1>4. NewestIn(m, of, n) = m[k]
  BY <1>2, <1>3, NewestAt
<1>. QED
  BY <1>1, <1>4

(* The log grows by changes newer than the newest of their kind.           *)
NextChange(l, c) ==
    \/ /\ c.of = "account"
       /\ c.gen = NewestIn(l, "account", Len(l)).gen + 1
       /\ c.reset >= NewestIn(l, "account", Len(l)).reset
    \/ /\ c.of = "chat"
       /\ c.gen = NewestIn(l, "chat", Len(l)).gen + 1
    \/ c.of = "unsupported"

LEMMA LogGrows ==
    ASSUME NEW l, GrowingLog(l), NEW c \in Change, NextChange(l, c)
    PROVE  /\ GrowingLog(Append(l, c))
           /\ Len(Append(l, c)) = Len(l) + 1
           /\ \A i \in 1..Len(l) : Append(l, c)[i] = l[i]
<1> DEFINE m == Append(l, c)
<1>1. /\ l \in Seq(Change) /\ Len(l) \in Nat /\ Len(l) >= 2
      /\ l[1].of = "account" /\ l[2].of = "chat"
  BY DEF GrowingLog
<1>2. /\ m \in Seq(Change) /\ Len(m) = Len(l) + 1
      /\ \A i \in 1..Len(l) : m[i] = l[i]
      /\ m[Len(l) + 1] = c
  BY <1>1
<1>3. /\ NewestIn(l, "account", Len(l)).gen \in Nat \ {0}
      /\ NewestIn(l, "account", Len(l)).reset \in Nat
      /\ NewestIn(l, "chat", Len(l)).gen \in Nat \ {0}
      /\ \A i \in 1..Len(l) : l[i].of = "account" =>
            /\ l[i].gen <= NewestIn(l, "account", Len(l)).gen
            /\ l[i].reset <= NewestIn(l, "account", Len(l)).reset
      /\ \A i \in 1..Len(l) : l[i].of = "chat" =>
            l[i].gen <= NewestIn(l, "chat", Len(l)).gen
  <2>1. Len(l) \in 2..Len(l)
    BY <1>1
  <2>. QED
    BY <2>1, NewestFields
<1>4. \A i \in 1..Len(m) : i = Len(l) + 1 \/ i \in 1..Len(l)
  BY <1>1, <1>2
<1> HIDE DEF m
<1>5. ASSUME NEW i \in 1..Len(m), m[i].of # "unsupported"
      PROVE  m[i].gen >= 1
  <2>1. CASE i \in 1..Len(l)
    BY <1>2, <1>5, <2>1 DEF GrowingLog
  <2>2. CASE i = Len(l) + 1
    BY <1>2, <1>3, <1>5, <2>2 DEF NextChange
  <2>. QED
    BY <1>4, <2>1, <2>2
<1>6. ASSUME NEW i \in 1..Len(m), NEW j \in 1..Len(m),
             i < j, m[i].of = m[j].of, m[i].of # "unsupported"
      PROVE  m[i].gen < m[j].gen /\ (m[i].of = "account" => m[i].reset <= m[j].reset)
  <2>1. i \in 1..Len(l) /\ m[i] = l[i]
    BY <1>1, <1>2, <1>4, <1>6
  <2>2. CASE j \in 1..Len(l)
    BY <1>2, <1>6, <2>1, <2>2 DEF GrowingLog
  <2>3. CASE j = Len(l) + 1
    <3>1. m[j] = c /\ l[i] \in Change
      BY <1>1, <1>2, <2>1, <2>3
    <3>2. CASE c.of = "account"
      <4>1. /\ l[i].gen \in Nat /\ l[i].reset \in Nat /\ c.reset \in Nat
            /\ l[i].of = "account"
        BY <1>6, <2>1, <3>1, <3>2, ChangeFields
      <4>2. /\ l[i].gen <= NewestIn(l, "account", Len(l)).gen
            /\ l[i].reset <= NewestIn(l, "account", Len(l)).reset
        BY <1>3, <2>1, <4>1
      <4>. QED
        BY <1>3, <2>1, <3>1, <3>2, <4>1, <4>2 DEF NextChange
    <3>3. CASE c.of = "chat"
      <4>1. l[i].gen \in Nat /\ l[i].of = "chat"
        BY <1>6, <2>1, <3>1, <3>3, ChangeFields
      <4>2. l[i].gen <= NewestIn(l, "chat", Len(l)).gen
        BY <1>3, <2>1, <4>1
      <4>. QED
        BY <1>3, <2>1, <3>1, <3>3, <4>1, <4>2 DEF NextChange
    <3>4. c.of # "unsupported"
      BY <1>6, <3>1
    <3>. QED
      BY <3>2, <3>3, <3>4, ChangeFields DEF Kinds
  <2>. QED
    BY <1>4, <2>2, <2>3
<1>7. 1 \in 1..Len(l) /\ 2 \in 1..Len(l) /\ Len(m) >= 2
  BY <1>1, <1>2
<1>8. GrowingLog(m)
  BY <1>1, <1>2, <1>5, <1>6, <1>7 DEF GrowingLog
<1>. QED
  BY <1>2, <1>8 DEF m

(* What was so of the log's beginning stays so while it grows.             *)
Extends(m, l) ==
    /\ GrowingLog(l) /\ GrowingLog(m)
    /\ Len(l) <= Len(m)
    /\ \A i \in 1..Len(l) : m[i] = l[i]

LEMMA FollowsInBoth ==
    ASSUME NEW l, NEW m, Extends(m, l), NEW n \in 2..Len(l), NEW d, FollowsTo(d, l, n)
    PROVE  n \in 2..Len(m) /\ FollowsTo(d, m, n)
<1>1. /\ GrowingLog(l) /\ GrowingLog(m) /\ Len(l) <= Len(m)
      /\ Len(l) \in Nat /\ Len(m) \in Nat
  BY DEF Extends, GrowingLog
<1>2. n <= Len(m) /\ n \in 2..Len(m) /\ \A i \in 1..n : m[i] = l[i]
  BY <1>1 DEF Extends
<1>3. /\ NewestIn(m, "account", n) = NewestIn(l, "account", n)
      /\ NewestIn(m, "chat", n) = NewestIn(l, "chat", n)
  BY <1>1, <1>2, NewestPrefix DEF Kinds
<1>. QED
  BY <1>2, <1>3 DEF FollowsTo

-----------------------------------------------------------------------------
(* Applying changes to sound tables                                        *)

(* Where an application can take the scheduler and the participants.       *)
Moved(d, x) ==
    /\ x.cursor = d.cursor
    /\ \/ x.sched = d.sched
       \/ (x.sched.gen > d.sched.gen /\ x.sched.state = "ready")
    /\ x.sync = d.sync \/ x.sync = NoSync

LEMMA MovedTwice ==
    ASSUME NEW d \in Tables, NEW x \in Tables, NEW y \in Tables, Moved(d, x), Moved(x, y)
    PROVE  Moved(d, y)
<1>1. d.sched.gen \in Nat /\ x.sched.gen \in Nat /\ y.sched.gen \in Nat
  BY DEF Tables
<1>. QED
  BY <1>1 DEF Moved

LEMMA ResetAppended ==
    ASSUME NEW s \in Seq(Nat), NEW last \in Nat, ResetsDone(s, last),
           NEW reset \in Nat, last < reset
    PROVE  Append(s, reset) \in Seq(Nat) /\ ResetsDone(Append(s, reset), reset)
<1> DEFINE t == Append(s, reset)
<1>1. /\ t \in Seq(Nat) /\ Len(t) = Len(s) + 1 /\ Len(s) \in Nat
      /\ \A i \in 1..Len(s) : t[i] = s[i] /\ s[i] \in Nat
      /\ t[Len(s) + 1] = reset
  OBVIOUS
<1>2. ASSUME NEW i \in 1..Len(s) PROVE s[i] < reset
  <2>1. Len(s) \in 1..Len(s) /\ s # <<>>
    BY <1>1
  <2>2. s[Len(s)] < reset /\ s[Len(s)] \in Nat
    BY <1>1, <2>1 DEF Last, ResetsDone
  <2>3. i = Len(s) \/ s[i] < s[Len(s)]
    BY <1>1, <2>1 DEF ResetsDone
  <2>. QED
    BY <1>1, <2>1, <2>2, <2>3
<1> HIDE DEF t
<1>3. t # <<>> /\ Last(t) = reset
  BY <1>1 DEF Last
<1>4. ASSUME NEW i \in 1..Len(t), NEW j \in 1..Len(t), i < j
      PROVE  t[i] < t[j]
  <2>1. i \in 1..Len(s) /\ (j \in 1..Len(s) \/ j = Len(s) + 1)
    <3>1. i \in Nat /\ j \in Nat /\ i >= 1 /\ j >= 1 /\ i < j /\ j <= Len(s) + 1
      BY <1>1, <1>4
    <3>2. Len(s) \in Nat
      OBVIOUS
    <3>. QED
      BY <3>1, <3>2
  <2>2. CASE j \in 1..Len(s)
    BY <1>1, <1>4, <2>1, <2>2 DEF ResetsDone
  <2>3. CASE j = Len(s) + 1
    BY <1>1, <1>2, <2>1, <2>3
  <2>. QED
    BY <2>1, <2>2, <2>3
<1>. QED
  BY <1>1, <1>3, <1>4 DEF t, ResetsDone

LEMMA ProjectionReset ==
    ASSUME NEW d \in Tables, NEW reset, Append(d.resets, reset) \in Seq(Nat)
    PROVE  ResetProjection(d, reset) \in Tables
<1>1. NoSync \in [gen : Nat, state : {"none", "pending", "running", "reported", "ready"},
                  asof : Nat]
  BY DEF NoSync
<1>2. (IF d.event \in {"waiting", "marked"} THEN "none" ELSE d.event)
          \in {"none", "waiting", "marked", "invalid", "served"}
  BY DEF Tables
<1>. QED
  BY <1>1, <1>2 DEF ResetProjection, Tables

(* Tables that were just given the account of a change.                    *)
Given(d, gen, reset, registered) ==
    [d EXCEPT !.account = [gen |-> gen, reset |-> reset], !.registered = registered]

(* Their generation is reconciled once: either the scheduler has it, or    *)
(* its quarantine ends and a newer reset is done.                          *)
LEMMA Reconciled ==
    ASSUME NEW d, Sound(d), NEW gen \in Nat, NEW reset \in Nat,
           d.sched.gen < gen \/ (d.sched.gen = gen /\ d.sched.reset = reset),
           reset >= d.sched.reset,
           NEW registered \in BOOLEAN,
           NEW x, x = ReconcileGeneration(Given(d, gen, reset, registered), gen, reset)
    PROVE  /\ Sound(x) /\ Moved(d, x)
           /\ x.account = [gen |-> gen, reset |-> reset] /\ x.chat = d.chat
<1> DEFINE e == Given(d, gen, reset, registered)
           opened == [e EXCEPT !.sched = [gen |-> gen, state |-> "ready", reset |-> reset]]
<1>1. d \in Tables /\ e \in Tables /\ opened \in Tables
  BY DEF Sound, Tables, Given
<1>2. /\ d.sched.gen \in Nat /\ d.sched.reset \in Nat
      /\ e.sched = d.sched /\ e.sync = d.sync /\ e.resets = d.resets /\ e.chat = d.chat
      /\ e.mapped = d.mapped /\ e.cursor = d.cursor
      /\ e.account = [gen |-> gen, reset |-> reset]
  <2>1. d.sched.gen \in Nat /\ d.sched.reset \in Nat
    BY <1>1 DEF Tables
  <2>. QED
    BY <1>1, <2>1 DEF Tables, Given
<1>3. /\ opened.sched = [gen |-> gen, state |-> "ready", reset |-> reset]
      /\ opened.sync = d.sync /\ opened.resets = d.resets /\ opened.chat = d.chat
      /\ opened.mapped = d.mapped /\ opened.cursor = d.cursor
      /\ opened.account = [gen |-> gen, reset |-> reset]
  BY <1>1, <1>2 DEF Tables
<1>r. x = ReconcileGeneration(e, gen, reset)
  OBVIOUS
<1> HIDE DEF e
<1>4. CASE d.sched.gen = gen /\ d.sched.reset = reset
  <2>1. x = e
    BY <1>r, <1>2, <1>4 DEF ReconcileGeneration
  <2>2. Sound(x)
    BY <1>1, <1>2, <1>4, <2>1 DEF Sound
  <2>3. Moved(d, x)
    BY <1>2, <2>1 DEF Moved
  <2>. QED
    BY <1>2, <2>1, <2>2, <2>3
<1>5. CASE d.sched.gen < gen /\ ~ (reset > d.sched.reset)
  <2>1. x = opened /\ d.sched.reset = reset
    BY <1>r, <1>2, <1>5 DEF ReconcileGeneration
  <2> HIDE DEF opened
  <2>2. Sound(x)
    BY <1>1, <1>2, <1>3, <1>5, <2>1 DEF Sound
  <2>3. Moved(d, x)
    BY <1>2, <1>3, <1>5, <2>1 DEF Moved
  <2>. QED
    BY <1>3, <2>1, <2>2, <2>3
<1>6. CASE d.sched.gen < gen /\ reset > d.sched.reset
  <2>1. x = ResetProjection(opened, reset)
    BY <1>r, <1>2, <1>6 DEF ReconcileGeneration
  <2>2. /\ d.resets \in Seq(Nat) /\ d.account.reset \in Nat
        /\ ResetsDone(d.resets, d.account.reset) /\ d.account.reset < reset
    BY <1>1, <1>6 DEF Sound, Tables
  <2>3. Append(d.resets, reset) \in Seq(Nat) /\ ResetsDone(Append(d.resets, reset), reset)
    BY <2>2, ResetAppended
  <2> HIDE DEF opened
  <2>4. NoSync \in [gen : Nat, state : {"none", "pending", "running", "reported", "ready"},
                    asof : Nat]
    BY DEF NoSync
  <2>5. /\ x.mapped = {} /\ x.sync = NoSync /\ x.resets = Append(d.resets, reset)
        /\ x.sched = opened.sched /\ x.account = opened.account
        /\ x.chat = opened.chat /\ x.cursor = opened.cursor
    BY <1>1, <1>3, <2>1 DEF ResetProjection, Tables
  <2>7. x \in Tables
    BY <1>1, <1>3, <2>1, <2>3, <2>4, ProjectionReset
  <2>6. NoSync.state = "none" /\ NoSync.gen = 0
    BY DEF NoSync
  <2>8. Sound(x)
    BY <1>3, <2>3, <2>5, <2>6, <2>7 DEF Sound
  <2>9. Moved(d, x)
    BY <1>3, <1>6, <2>5 DEF Moved
  <2>. QED
    BY <1>3, <2>5, <2>8, <2>9
<1>. QED
  BY <1>2, <1>4, <1>5, <1>6

(* A new assignment keeps no mapping of a topic it does not have.          *)
LEMMA ChatApplied ==
    ASSUME NEW d, Sound(d), NEW c \in Change, c.of = "chat", d.chat.gen < c.gen
    PROVE  /\ Sound(ApplyChat(d, c))
           /\ Moved(d, ApplyChat(d, c))
           /\ ApplyChat(d, c).chat = [gen |-> c.gen, content |-> c.content]
           /\ ApplyChat(d, c).account = d.account
<1> DEFINE mapped == c.content.topics \cup
                         (d.mapped \ Tombstoned(d.chat.content, c.content))
           chat == [gen |-> c.gen, content |-> c.content]
           x == [d EXCEPT !.chat = chat, !.mapped = mapped]
<1>1. d \in Tables /\ c.gen \in Nat /\ c.content \in Content /\ d.chat.gen \in Nat
  BY ChangeFields DEF Sound, Tables
<1>2. ApplyChat(d, c) = x
  BY <1>1 DEF ApplyChat
<1>3. mapped \subseteq c.content.topics
  <2>1. d.mapped \subseteq d.chat.content.topics
    BY DEF Sound
  <2>. QED
    BY <2>1 DEF Tombstoned
<1>4. c.content.topics \subseteq {Topic}
  BY <1>1 DEF Content
<1>5. chat \in [gen : Nat, content : Content] /\ mapped \in SUBSET {Topic}
  BY <1>1, <1>3, <1>4
<1>6. chat.content.topics = c.content.topics
  OBVIOUS
<1> HIDE DEF mapped, chat
<1>7. x \in Tables
  BY <1>1, <1>5 DEF Tables
<1>8. /\ x.chat = chat /\ x.mapped = mapped
      /\ x.account = d.account /\ x.sched = d.sched /\ x.sync = d.sync
      /\ x.resets = d.resets /\ x.cursor = d.cursor
  BY <1>1 DEF Tables
<1> HIDE DEF x
<1>9. Sound(x)
  BY <1>3, <1>6, <1>7, <1>8 DEF Sound
<1>10. Moved(d, x)
  BY <1>8 DEF Moved
<1>. QED
  BY <1>2, <1>8, <1>9, <1>10 DEF chat

LEMMA AccountApplied ==
    ASSUME NEW d, Sound(d), NEW c \in Change, c.of = "account",
           d.account.gen < c.gen, d.account.reset <= c.reset
    PROVE  /\ Sound(ApplyAccount(d, c))
           /\ Moved(d, ApplyAccount(d, c))
           /\ ApplyAccount(d, c).account = [gen |-> c.gen, reset |-> c.reset]
           /\ ApplyAccount(d, c).chat = d.chat
<1> DEFINE e == [d EXCEPT !.account = [gen |-> c.gen, reset |-> c.reset],
                          !.registered = FALSE]
<1>1. /\ d \in Tables /\ c.gen \in Nat /\ c.reset \in Nat /\ d.account.gen \in Nat
      /\ d.sched.gen = d.account.gen /\ d.sched.reset = d.account.reset
  BY ChangeFields DEF Sound, Tables
<1>2. ApplyAccount(d, c) = ReconcileGeneration(e, c.gen, c.reset)
  BY <1>1 DEF ApplyAccount
<1>3. d.sched.gen < c.gen /\ c.reset >= d.sched.reset /\ FALSE \in BOOLEAN
  BY <1>1
<1>4. e = Given(d, c.gen, c.reset, FALSE)
  BY DEF Given
<1> HIDE DEF e
<1> DEFINE gen == c.gen
           reset == c.reset
           registered == FALSE
           x == ReconcileGeneration(Given(d, gen, reset, registered), gen, reset)
<1>5. /\ Sound(d) /\ gen \in Nat /\ reset \in Nat /\ registered \in BOOLEAN
      /\ d.sched.gen < gen \/ (d.sched.gen = gen /\ d.sched.reset = reset)
      /\ reset >= d.sched.reset
      /\ x = ReconcileGeneration(Given(d, gen, reset, registered), gen, reset)
  BY <1>1, <1>3
<1>6. ApplyAccount(d, c) = x
  BY <1>2, <1>4
<1> HIDE DEF gen, reset, registered, x
<1>7. /\ Sound(x) /\ Moved(d, x)
      /\ x.account = [gen |-> gen, reset |-> reset] /\ x.chat = d.chat
  BY <1>5, Reconciled
<1>. QED
  BY <1>6, <1>7 DEF gen, reset

(* Where the log's next change leaves the newest ones.                     *)
LEMMA NewestStep ==
    ASSUME NEW l, GrowingLog(l), NEW n \in 2..Len(l), n + 1 <= Len(l), NEW of \in Kinds
    PROVE  /\ l[n + 1].of = of =>
                 /\ NewestIn(l, of, n + 1) = l[n + 1]
                 /\ NewestIn(l, of, n).gen < l[n + 1].gen
                 /\ of = "account" => NewestIn(l, of, n).reset <= l[n + 1].reset
           /\ l[n + 1].of # of => NewestIn(l, of, n + 1) = NewestIn(l, of, n)
<1>1. /\ Len(l) \in Nat /\ n \in Nat /\ n + 1 \in 2..Len(l) /\ n + 1 \in 1..(n + 1)
      /\ n + 1 \in 1..Len(l)
  BY DEF GrowingLog
<1>2. PICK k \in 1..n : /\ NewestIn(l, of, n) = l[k] /\ l[k].of = of /\ l[k] \in Change
                        /\ \A i \in 1..n : l[i].of = of => i <= k
  BY NewestPlace
<1>3. k \in 1..(n + 1) /\ k \in 1..Len(l) /\ k < n + 1
  BY <1>1
<1>4. \A i \in 1..(n + 1) : i = n + 1 \/ i \in 1..n
  BY <1>1
<1>5. CASE l[n + 1].of = of
  <2>1. NewestIn(l, of, n + 1) = l[n + 1]
    <3>1. \A i \in 1..(n + 1) : l[i].of = of => i <= n + 1
      BY <1>1
    <3>. QED
      BY <1>1, <1>5, <3>1, NewestAt
  <2>2. /\ l[k].gen < l[n + 1].gen
        /\ of = "account" => l[k].reset <= l[n + 1].reset
    BY <1>1, <1>2, <1>3, <1>5 DEF GrowingLog, Kinds
  <2>. QED
    BY <1>2, <1>5, <2>1, <2>2
<1>6. CASE l[n + 1].of # of
  <2>1. \A i \in 1..(n + 1) : l[i].of = of => i <= k
    BY <1>2, <1>4, <1>6
  <2>2. NewestIn(l, of, n + 1) = l[k]
    BY <1>1, <1>2, <1>3, <2>1, NewestAt
  <2>. QED
    BY <1>2, <1>6, <2>2
<1>. QED
  BY <1>5, <1>6

LEMMA ChangeApplied ==
    ASSUME NEW l, GrowingLog(l), NEW n \in 2..Len(l), n + 1 <= Len(l),
           l[n + 1] # Unsupported,
           NEW d, Sound(d), FollowsTo(d, l, n)
    PROVE  /\ Sound(ApplyChange(d, l[n + 1]))
           /\ Moved(d, ApplyChange(d, l[n + 1]))
           /\ FollowsTo(ApplyChange(d, l[n + 1]), l, n + 1)
<1> DEFINE c == l[n + 1]
<1>1. c \in Change /\ n \in Nat
  BY DEF GrowingLog
<1>2. c.of \in Kinds
  BY <1>1, ChangeFields
<1>3. CASE c.of = "account"
  <2>1. /\ NewestIn(l, "account", n + 1) = c
        /\ NewestIn(l, "account", n).gen < c.gen
        /\ NewestIn(l, "account", n).reset <= c.reset
        /\ NewestIn(l, "chat", n + 1) = NewestIn(l, "chat", n)
    BY <1>3, NewestStep DEF Kinds
  <2>2. ApplyChange(d, c) = ApplyAccount(d, c)
    BY <1>3 DEF ApplyChange
  <2> HIDE DEF c
  <2>3. d.account.gen < c.gen /\ d.account.reset <= c.reset
    BY <2>1 DEF FollowsTo
  <2>4. /\ Sound(ApplyAccount(d, c))
        /\ Moved(d, ApplyAccount(d, c))
        /\ ApplyAccount(d, c).account = [gen |-> c.gen, reset |-> c.reset]
        /\ ApplyAccount(d, c).chat = d.chat
    BY <1>1, <1>3, <2>3, AccountApplied
  <2>5. FollowsTo(ApplyAccount(d, c), l, n + 1)
    BY <2>1, <2>4 DEF FollowsTo
  <2>. QED
    BY <2>2, <2>4, <2>5 DEF c
<1>4. CASE c.of = "chat"
  <2>1. /\ NewestIn(l, "chat", n + 1) = c
        /\ NewestIn(l, "chat", n).gen < c.gen
        /\ NewestIn(l, "account", n + 1) = NewestIn(l, "account", n)
    BY <1>4, NewestStep DEF Kinds
  <2>2. ApplyChange(d, c) = ApplyChat(d, c)
    BY <1>4 DEF ApplyChange
  <2> HIDE DEF c
  <2>3. d.chat.gen < c.gen
    BY <2>1 DEF FollowsTo
  <2>4. /\ Sound(ApplyChat(d, c))
        /\ Moved(d, ApplyChat(d, c))
        /\ ApplyChat(d, c).chat = [gen |-> c.gen, content |-> c.content]
        /\ ApplyChat(d, c).account = d.account
    BY <1>1, <1>4, <2>3, ChatApplied
  <2>5. FollowsTo(ApplyChat(d, c), l, n + 1)
    BY <2>1, <2>4 DEF FollowsTo
  <2>. QED
    BY <2>2, <2>4, <2>5 DEF c
<1>. QED
  BY <1>2, <1>3, <1>4 DEF Kinds

-----------------------------------------------------------------------------
(* A batch and a snapshot                                                  *)

(* Like Moved, but to another place of the log.                            *)
Polls(d, x) ==
    /\ \/ x.sched = d.sched
       \/ (x.sched.gen > d.sched.gen /\ x.sched.state = "ready")
    /\ x.sync = d.sync \/ x.sync = NoSync

LEMMA BatchApplied ==
    ASSUME GrowingLog(log), NEW d, Sound(d), d.cursor \in 2..Len(log),
           FollowsTo(d, log, d.cursor), NEW n \in d.cursor..Len(log),
           \A i \in (d.cursor + 1)..n : log[i] # Unsupported
    PROVE  /\ Sound(ApplyChanges(d, n))
           /\ Polls(d, ApplyChanges(d, n))
           /\ FollowsTo(ApplyChanges(d, n), log, n)
           /\ ApplyChanges(d, n).cursor = n
<1> DEFINE k == n - d.cursor
           At(i) == {x \in Tables : Sound(x) /\ Moved(d, x) /\ FollowsTo(x, log, d.cursor + i)}
           D == UNION {At(i) : i \in 0..k}
           Applied(f) == f = [i \in 0..k |->
                                 IF i = 0 THEN d ELSE ApplyChange(f[i - 1], log[d.cursor + i])]
           step == [i \in 1..k |-> [x \in Tables |->
                       IF ApplyChange(x, log[d.cursor + i]) \in Tables
                       THEN ApplyChange(x, log[d.cursor + i]) ELSE d]]
<1>1. /\ k \in Nat /\ d \in Tables /\ d.cursor \in Nat /\ n \in Nat /\ Len(log) \in Nat
      /\ d.cursor >= 2 /\ n <= Len(log) /\ d.cursor <= n /\ d.cursor + k = n
  BY DEF Sound, GrowingLog
<1>2. d \in At(0)
  <2>1. Moved(d, d) /\ d.cursor + 0 = d.cursor
    BY <1>1 DEF Moved
  <2>. QED
    BY <1>1, <2>1
<1>3. ASSUME NEW i \in 1..k, NEW x \in At(i - 1)
      PROVE  ApplyChange(x, log[d.cursor + i]) \in At(i)
  <2> DEFINE m == d.cursor + (i - 1)
  <2>1. /\ m \in 2..Len(log) /\ m + 1 <= Len(log) /\ m + 1 = d.cursor + i
        /\ d.cursor + i \in (d.cursor + 1)..n
    BY <1>1
  <2>2. x \in Tables /\ Sound(x) /\ Moved(d, x) /\ FollowsTo(x, log, m)
    OBVIOUS
  <2> HIDE DEF m
  <2>3. log[m + 1] # Unsupported
    BY <2>1
  <2>4. /\ Sound(ApplyChange(x, log[m + 1]))
        /\ Moved(x, ApplyChange(x, log[m + 1]))
        /\ FollowsTo(ApplyChange(x, log[m + 1]), log, m + 1)
    BY <2>1, <2>2, <2>3, ChangeApplied
  <2>5. ApplyChange(x, log[m + 1]) \in Tables
    BY <2>4 DEF Sound
  <2>6. Moved(d, ApplyChange(x, log[m + 1]))
    BY <1>1, <2>2, <2>4, <2>5, MovedTwice
  <2>. QED
    BY <2>1, <2>4, <2>5, <2>6
<1>4. step \in Steps(k, Tables)
  BY <1>1 DEF Steps
<1>5. PICK f : Solves(f, k, Tables, d, step)
  <2> HIDE DEF k, step
  <2>. QED
    BY <1>1, <1>4, Recursion
<1> DEFINE Good == {i \in Nat : i <= k => f[i] \in At(i)}
<1>6. Good \in SUBSET Nat
  OBVIOUS
<1>7. 0 \in Good
  BY <1>2, <1>5 DEF Solves
<1>8. ASSUME NEW i \in 1..k, f[i - 1] \in At(i - 1)
      PROVE  f[i] = ApplyChange(f[i - 1], log[d.cursor + i]) /\ f[i] \in At(i)
  <2>1. f[i] = step[i][f[i - 1]]
    BY <1>5 DEF Solves
  <2>2. ApplyChange(f[i - 1], log[d.cursor + i]) \in At(i)
    <3> HIDE DEF At, k
    <3>. QED
      BY <1>3, <1>8
  <2>3. f[i - 1] \in Tables /\ ApplyChange(f[i - 1], log[d.cursor + i]) \in Tables
    BY <1>8, <2>2
  <2>4. step[i][f[i - 1]] = ApplyChange(f[i - 1], log[d.cursor + i])
    BY <2>3
  <2>. QED
    BY <2>1, <2>2, <2>4
<1>9. ASSUME NEW i \in Good PROVE i + 1 \in Good
  <2>0. i \in Nat /\ (i <= k => f[i] \in At(i))
    OBVIOUS
  <2> HIDE DEF At, step
  <2>1. ASSUME i + 1 <= k PROVE f[i + 1] \in At(i + 1)
    <3>1. i + 1 \in 1..k /\ (i + 1) - 1 = i /\ i <= k
      BY <1>1, <2>0, <2>1
    <3>2. f[(i + 1) - 1] \in At((i + 1) - 1)
      BY <2>0, <3>1
    <3> HIDE DEF k
    <3>. QED
      BY <1>8, <3>1, <3>2
  <2>. QED
    BY <2>0, <2>1
<1>10. \A i \in 0..k : f[i] \in At(i)
  <2>1. \A i \in Nat : i \in Good
    <3> HIDE DEF Good
    <3>. QED
      BY <1>6, <1>7, <1>9, Induction
  <2> HIDE DEF At
  <2>. QED
    BY <1>1, <2>1
<1>11. Applied(f)
  <2>1. f \in [0..k -> Tables] /\ f[0] = d
    BY <1>5 DEF Solves
  <2>2. \A i \in 0..k : f[i] = IF i = 0 THEN d ELSE ApplyChange(f[i - 1], log[d.cursor + i])
    <3> TAKE i \in 0..k
    <3>1. CASE i = 0
      BY <2>1, <3>1
    <3>2. CASE i # 0
      <4>1. i \in 1..k /\ i - 1 \in 0..k
        BY <1>1, <3>2
      <4>2. f[i - 1] \in At(i - 1)
        BY <1>10, <4>1
      <4> HIDE DEF At, k
      <4>. QED
        BY <1>8, <3>2, <4>1, <4>2
    <3>. QED
      BY <3>1, <3>2
  <2>. QED
    BY <2>1, <2>2
<1> DEFINE applied == CHOOSE g : Applied(g)
<1>12. Applied(applied)
  BY <1>11
<1>13. ApplyChanges(d, n) = [applied[k] EXCEPT !.cursor = n]
  BY DEF ApplyChanges
<1> HIDE DEF applied
<1> DEFINE Same == {i \in Nat : i <= k => applied[i] = f[i]}
<1>14. \A i \in 0..k : applied[i] = IF i = 0 THEN d
                                   ELSE ApplyChange(applied[i - 1], log[d.cursor + i])
  BY <1>12
<1>15. \A i \in 0..k : f[i] = IF i = 0 THEN d
                             ELSE ApplyChange(f[i - 1], log[d.cursor + i])
  BY <1>11
<1> HIDE DEF Applied, step, Good, At
<1>16. Same \in SUBSET Nat /\ 0 \in Same
  BY <1>1, <1>14, <1>15
<1>17. ASSUME NEW i \in Same PROVE i + 1 \in Same
  <2>0. i \in Nat /\ (i <= k => applied[i] = f[i])
    OBVIOUS
  <2>1. ASSUME i + 1 <= k PROVE applied[i + 1] = f[i + 1]
    <3>1. i + 1 \in 0..k /\ i + 1 # 0 /\ (i + 1) - 1 = i /\ i <= k
      BY <1>1, <2>0, <2>1
    <3> HIDE DEF k, Same
    <3>. QED
      BY <1>14, <1>15, <2>0, <3>1
  <2>. QED
    BY <2>0, <2>1
<1>18. applied[k] = f[k]
  <2>1. k \in Same
    <3> HIDE DEF Same, k
    <3>. QED
      BY <1>1, <1>16, <1>17, Induction
  <2>. QED
    BY <1>1, <2>1
<1> DEFINE x == applied[k]
           y == [x EXCEPT !.cursor = n]
<1>19. x \in Tables /\ Sound(x) /\ Moved(d, x) /\ FollowsTo(x, log, n)
  BY <1>1, <1>10, <1>18 DEF At
<1> HIDE DEF x, k
<1>20. /\ y \in Tables /\ y.cursor = n
       /\ y.account = x.account /\ y.chat = x.chat /\ y.sched = x.sched
       /\ y.sync = x.sync /\ y.mapped = x.mapped /\ y.resets = x.resets
  BY <1>1, <1>19 DEF Tables
<1>21. ApplyChanges(d, n) = y
  BY <1>13 DEF x
<1> HIDE DEF y
<1>22. Sound(y)
  BY <1>19, <1>20 DEF Sound
<1>23. Polls(d, y)
  BY <1>19, <1>20 DEF Moved, Polls
<1>24. FollowsTo(y, log, n)
  BY <1>19, <1>20 DEF FollowsTo
<1>. QED
  BY <1>20, <1>21, <1>22, <1>23, <1>24

(* The account of a later place of the log is newer, or the same.          *)
LEMMA NewestLater ==
    ASSUME NEW l, GrowingLog(l), NEW n \in 2..Len(l), NEW m \in 2..n
    PROVE  /\ \/ NewestIn(l, "account", m).gen < NewestIn(l, "account", n).gen
              \/ NewestIn(l, "account", m) = NewestIn(l, "account", n)
           /\ NewestIn(l, "account", m).reset <= NewestIn(l, "account", n).reset
<1>1. m \in 2..Len(l) /\ n \in Nat /\ m \in Nat /\ Len(l) \in Nat
  BY DEF GrowingLog
<1>2. PICK i \in 1..m : /\ NewestIn(l, "account", m) = l[i] /\ l[i].of = "account"
                        /\ l[i] \in Change
                        /\ \A h \in 1..m : l[h].of = "account" => h <= i
  BY <1>1, NewestPlace DEF Kinds
<1>3. PICK j \in 1..n : /\ NewestIn(l, "account", n) = l[j] /\ l[j].of = "account"
                        /\ l[j] \in Change
                        /\ \A h \in 1..n : l[h].of = "account" => h <= j
  BY NewestPlace DEF Kinds
<1>4. i \in 1..n /\ i \in 1..Len(l) /\ j \in 1..Len(l)
  BY <1>1
<1>5. i = j \/ i < j
  BY <1>1, <1>2, <1>3, <1>4
<1>6. CASE i = j
  <2>1. l[i].reset \in Nat
    BY <1>2, ChangeFields
  <2>. QED
    BY <1>2, <1>3, <1>6, <2>1
<1>7. CASE i < j
  <2>1. l[i].gen < l[j].gen /\ l[i].reset <= l[j].reset
    BY <1>2, <1>3, <1>4, <1>7 DEF GrowingLog
  <2>. QED
    BY <1>2, <1>3, <2>1
<1>. QED
  BY <1>5, <1>6, <1>7

LEMMA SnapshotApplied ==
    ASSUME GrowingLog(log), NEW d, Sound(d), NEW n \in 2..Len(log),
           \/ d.account.gen = 0 /\ d.account.reset = 0
           \/ d.cursor \in 2..n /\ FollowsTo(d, log, d.cursor)
    PROVE  /\ Sound(InstallSnapshot(d, n))
           /\ Polls(d, InstallSnapshot(d, n))
           /\ FollowsTo(InstallSnapshot(d, n), log, n)
           /\ InstallSnapshot(d, n).cursor = n
<1> DEFINE gen == NewestIn(log, "account", n).gen
           reset == NewestIn(log, "account", n).reset
           chat == NewestIn(log, "chat", n)
           registered == d.registered /\ d.account.gen = gen
           bare == [d EXCEPT !.mapped = {}, !.chat = [gen |-> 0, content |-> Bare]]
           x == ReconcileGeneration(Given(bare, gen, reset, registered), gen, reset)
           y == ApplyChat(x, chat)
           z == [y EXCEPT !.cursor = n]
<1>1. /\ gen \in Nat \ {0} /\ reset \in Nat
      /\ chat \in Change /\ chat.of = "chat" /\ chat.gen \in Nat \ {0}
  <2>1. chat \in Change /\ chat.of = "chat"
    BY NewestPlace DEF Kinds
  <2>. QED
    BY <2>1, NewestFields
<1>2. d \in Tables /\ d.sched.gen = d.account.gen /\ d.sched.reset = d.account.reset
  BY DEF Sound
<1>3. /\ d.sched.gen < gen \/ (d.sched.gen = gen /\ d.sched.reset = reset)
      /\ reset >= d.sched.reset
  <2>1. CASE d.account.gen = 0 /\ d.account.reset = 0
    BY <1>1, <1>2, <2>1
  <2>2. CASE d.cursor \in 2..n /\ FollowsTo(d, log, d.cursor)
    <3>1. /\ \/ NewestIn(log, "account", d.cursor).gen < gen
             \/ NewestIn(log, "account", d.cursor) = NewestIn(log, "account", n)
          /\ NewestIn(log, "account", d.cursor).reset <= reset
      BY <2>2, NewestLater
    <3>2. d.account.reset \in Nat
      BY <1>2 DEF Tables
    <3>. QED
      BY <1>1, <1>2, <2>2, <3>1, <3>2 DEF FollowsTo
  <2>. QED
    BY <2>1, <2>2
<1>4. /\ bare \in Tables /\ bare.sched = d.sched /\ bare.sync = d.sync
      /\ bare.cursor = d.cursor /\ bare.resets = d.resets /\ bare.account = d.account
      /\ bare.mapped = {} /\ bare.chat = [gen |-> 0, content |-> Bare]
  <2>1. [gen |-> 0, content |-> Bare] \in [gen : Nat, content : Content]
    BY DEF Bare, Content
  <2>. QED
    BY <1>2, <2>1 DEF Tables
<1>5. InstallSnapshot(d, n) = z
  <2>1. /\ Newest("account", n) = NewestIn(log, "account", n)
        /\ Newest("chat", n) = NewestIn(log, "chat", n)
    BY DEF Newest, NewestIn
  <2>2. [d EXCEPT !.mapped = {},
                  !.registered = @ /\ d.account.gen = gen,
                  !.account = [gen |-> gen, reset |-> reset],
                  !.chat = [gen |-> 0, content |-> Bare]]
            = Given(bare, gen, reset, registered)
    <3> HIDE DEF gen, reset
    <3>. QED
      BY <1>2 DEF Given, Tables
  <2>. QED
    BY <2>1, <2>2 DEF InstallSnapshot
<1>6. registered \in BOOLEAN
  BY <1>2 DEF Tables
<1> HIDE DEF bare, gen, reset, registered, chat
<1>7. Sound(bare)
  BY <1>4 DEF Sound
<1>8. /\ Sound(x) /\ Moved(bare, x)
      /\ x.account = [gen |-> gen, reset |-> reset] /\ x.chat = bare.chat
  BY <1>1, <1>3, <1>4, <1>6, <1>7, Reconciled
<1> HIDE DEF x
<1>9. x.chat.gen < chat.gen
  BY <1>1, <1>4, <1>8
<1>10. /\ Sound(y) /\ Moved(x, y)
       /\ y.chat = [gen |-> chat.gen, content |-> chat.content]
       /\ y.account = x.account
  BY <1>1, <1>8, <1>9, ChatApplied
<1> HIDE DEF y
<1>11. Moved(bare, y)
  <2>1. x \in Tables /\ y \in Tables
    BY <1>8, <1>10 DEF Sound
  <2>. QED
    BY <1>4, <1>8, <1>10, <2>1, MovedTwice
<1>12. /\ z \in Tables /\ z.cursor = n
       /\ z.account = y.account /\ z.chat = y.chat /\ z.sched = y.sched
       /\ z.sync = y.sync /\ z.mapped = y.mapped /\ z.resets = y.resets
  <2>1. y \in Tables /\ n \in Nat
    BY <1>10 DEF Sound, GrowingLog
  <2>. QED
    BY <2>1 DEF Tables
<1> HIDE DEF z
<1>13. Sound(z)
  BY <1>10, <1>12 DEF Sound
<1>14. Polls(d, z)
  BY <1>4, <1>11, <1>12 DEF Moved, Polls
<1>15. FollowsTo(z, log, n)
  BY <1>8, <1>10, <1>12 DEF FollowsTo, gen, reset, chat
<1>. QED
  BY <1>5, <1>12, <1>13, <1>14, <1>15

(* The circuit breaker only moves the scheduler's state, and only for the  *)
(* generation that the tables have.                                        *)
LEMMA RecordedState ==
    ASSUME NEW d, Sound(d), NEW gen \in Nat, NEW answer \in {"none", "ok", "auth", "retry"}
    PROVE  \E state \in {"ready", "backoff", "auth_required"} :
              /\ Recorded(d, gen, answer) = [d EXCEPT !.sched.state = state]
              /\ state = "auth_required" =>
                    \/ d.sched.state = "auth_required"
                    \/ answer = "auth" /\ gen = d.sched.gen
              /\ d.sched.state = "auth_required" => state = "auth_required"
<1>1. d \in Tables /\ d.sched.gen = d.account.gen /\ d.sched.reset = d.account.reset
  BY DEF Sound
<1>2. d.sched.state \in {"ready", "backoff", "auth_required"}
  BY <1>1 DEF Tables
<1>3. CASE d.account.gen # gen
  <2>1. Recorded(d, gen, answer) = d
    BY <1>3 DEF Recorded
  <2>2. d = [d EXCEPT !.sched.state = d.sched.state]
    BY <1>1 DEF Tables
  <2>. QED
    BY <1>2, <2>1, <2>2
<1>4. CASE d.account.gen = gen
  <2> DEFINE next == CASE answer = "auth" -> "auth_required"
                       [] answer = "retry" /\ d.sched.state # "auth_required" -> "backoff"
                       [] answer = "ok" /\ d.sched.state = "backoff" -> "ready"
                       [] OTHER -> d.sched.state
  <2>1. ReconcileGeneration(d, gen, d.account.reset) = d
    BY <1>1, <1>4 DEF ReconcileGeneration
  <2>2. Recorded(d, gen, answer) = [d EXCEPT !.sched.state = next]
    BY <1>4, <2>1 DEF Recorded
  <2>3. CASE answer = "auth"
    BY <1>1, <1>4, <2>2, <2>3
  <2>4. CASE answer = "retry"
    BY <1>2, <2>2, <2>4
  <2>5. CASE answer = "ok"
    BY <1>2, <2>2, <2>5
  <2>6. CASE answer = "none"
    BY <1>2, <2>2, <2>6
  <2>. QED
    BY <2>3, <2>4, <2>5, <2>6
<1>. QED
  BY <1>3, <1>4

-----------------------------------------------------------------------------
(* The outbox *)

(* Every stamped row of some rows is among others.                         *)
KeepsPlaces(rows, others) ==
    \A i \in 1..Len(rows) : rows[i].status = "stamped" =>
        \E j \in 1..Len(others) : others[j] = rows[i]

LEMMA PlacesKept ==
    ASSUME NEW rows, NEW others, KeepsPlaces(rows, others), NEW by, HasPlace(rows, by)
    PROVE  HasPlace(others, by)
BY DEF KeepsPlaces, HasPlace

LEMMA LastRealPlace ==
    ASSUME NEW rows \in Seq(Rows)
    PROVE  /\ LastReal(rows) \in 0..Len(rows)
           /\ LastReal(rows) # 0 => Real(rows[LastReal(rows)])
<1> DEFINE S == {0} \cup {i \in 1..Len(rows) : Real(rows[i])}
<1>1. Len(rows) \in Nat /\ S \in SUBSET (0..Len(rows)) /\ S # {}
  OBVIOUS
<1>2. Max(S) \in S
  <2> HIDE DEF S
  <2>. QED
    BY <1>1, Greatest
<1>. QED
  BY <1>1, <1>2 DEF LastReal

LEMMA TrimmedRows ==
    ASSUME NEW rows \in Seq(Rows)
    PROVE  Trimmed(rows) \in Seq(Rows) /\ KeepsPlaces(rows, Trimmed(rows))
<1> DEFINE places == {i \in 1..Len(rows) : i >= LastReal(rows) \/ Open(rows[i])}
<1>1. CASE LastReal(rows) = 0
  <2>1. Trimmed(rows) = rows
    BY <1>1 DEF Trimmed
  <2>. QED
    BY <2>1 DEF KeepsPlaces
<1>2. CASE LastReal(rows) # 0
  <2>1. Trimmed(rows) = Selected(rows, places)
    BY <1>2 DEF Trimmed
  <2>2. \A i \in 1..Len(rows) : rows[i].status = "stamped" => i \in places
    BY DEF Open
  <2> HIDE DEF places
  <2>. QED
    BY <2>1, <2>2, SelectedRows DEF KeepsPlaces
<1>. QED
  BY <1>1, <1>2

(* Answered() gives every row a status, and stamped rows keep theirs.      *)
LEMMA AnsweredRows ==
    ASSUME NEW rows \in Seq(Rows),
           NEW status \in {"new", "applied", "stale", "rejected"}
    PROVE  Answered(rows, status) \in Seq(Rows) /\ KeepsPlaces(rows, Answered(rows, status))
<1> DEFINE others == Answered(rows, status)
           Row(i) == IF rows[i].status = "sent" THEN [rows[i] EXCEPT !.status = status]
                     ELSE rows[i]
<1>1. Len(rows) \in Nat /\ \A i \in 1..Len(rows) : rows[i] \in Rows
  OBVIOUS
<1>2. \A i \in 1..Len(rows) : Row(i) \in Rows
  BY <1>1 DEF Rows
<1>3. others = [i \in 1..Len(rows) |-> Row(i)]
  BY DEF Answered
<1>4. others \in Seq(Rows) /\ Len(others) = Len(rows)
  BY <1>1, <1>2, <1>3
<1>5. \A i \in 1..Len(rows) : rows[i].status = "stamped" => others[i] = rows[i]
  BY <1>3
<1> HIDE DEF others
<1>6. KeepsPlaces(rows, others)
  BY <1>4, <1>5 DEF KeepsPlaces
<1>. QED
  BY <1>4, <1>6 DEF others

LEMMA Joined ==
    ASSUME NEW R, NEW a \in Seq(R), NEW b \in Seq(R)
    PROVE  /\ a \o b \in Seq(R) /\ Len(a \o b) = Len(a) + Len(b)
           /\ \A i \in 1..Len(a) : (a \o b)[i] = a[i]
           /\ \A i \in (Len(a) + 1)..(Len(a) + Len(b)) : (a \o b)[i] = b[i - Len(a)]
OBVIOUS

Inserts(s, rows, row) ==
    /\ \A i \in 1..Len(rows) : \E j \in 1..Len(s) : s[j] = rows[i]
    /\ \E j \in 1..Len(s) : s[j] = row

LEMMA InsertedRow ==
    ASSUME NEW R, NEW rows \in Seq(R), NEW k \in Nat, 1 <= k, k <= Len(rows) + 1, NEW row \in R,
           NEW s, s = InsertAt(rows, k, row)
    PROVE  s \in Seq(R) /\ Inserts(s, rows, row)
<1> DEFINE a == SubSeq(rows, 1, k - 1)
           b == SubSeq(rows, k, Len(rows))
<1>1. Len(rows) \in Nat /\ k \in Nat /\ k >= 1 /\ k <= Len(rows) + 1
  OBVIOUS
<1>2. /\ a \in Seq(R) /\ Len(a) = k - 1
      /\ \A i \in 1..(k - 1) : a[i] = rows[i]
  BY <1>1
<1>3. /\ b \in Seq(R) /\ Len(b) = Len(rows) - k + 1
      /\ \A i \in 1..(Len(rows) - k + 1) : b[i] = rows[k + i - 1]
  BY <1>1
<1>4. <<row>> \in Seq(R) /\ Len(<<row>>) = 1 /\ <<row>>[1] = row
  OBVIOUS
<1>5. s = (a \o <<row>>) \o b
  BY DEF InsertAt
<1> HIDE DEF a, b
<1> DEFINE c == a \o <<row>>
<1>6. /\ c \in Seq(R) /\ Len(c) = k
      /\ \A i \in 1..(k - 1) : c[i] = rows[i]
      /\ c[k] = row
  BY <1>1, <1>2, <1>4
<1>7. s = c \o b
  BY <1>5
<1> HIDE DEF c
<1>8. /\ s \in Seq(R) /\ Len(s) = Len(rows) + 1
      /\ \A i \in 1..k : s[i] = c[i]
      /\ \A i \in (k + 1)..(Len(rows) + 1) : s[i] = b[i - k]
  <2>1. /\ s \in Seq(R) /\ Len(s) = Len(c) + Len(b)
        /\ \A i \in 1..Len(c) : s[i] = c[i]
        /\ \A i \in (Len(c) + 1)..(Len(c) + Len(b)) : s[i] = b[i - Len(c)]
    BY <1>3, <1>6, <1>7, Joined
  <2>2. Len(c) = k /\ Len(c) + Len(b) = Len(rows) + 1
    BY <1>1, <1>3, <1>6
  <2>. QED
    BY <2>1, <2>2
<1>9. ASSUME NEW i \in 1..Len(rows) PROVE \E j \in 1..Len(s) : s[j] = rows[i]
  <2>1. CASE i < k
    <3>1. i \in 1..(k - 1) /\ i \in 1..k /\ i \in 1..Len(s)
      BY <1>1, <1>8, <2>1
    <3>. QED
      BY <1>6, <1>8, <3>1
  <2>2. CASE i >= k
    <3>1. /\ i + 1 \in (k + 1)..(Len(rows) + 1) /\ i + 1 \in 1..Len(s)
          /\ i + 1 - k \in 1..(Len(rows) - k + 1) /\ k + (i + 1 - k) - 1 = i
      BY <1>1, <1>8, <2>2
    <3>2. s[i + 1] = b[i + 1 - k] /\ b[i + 1 - k] = rows[i]
      BY <1>3, <1>8, <3>1
    <3>. QED
      BY <3>1, <3>2
  <2>. QED
    BY <1>1, <2>1, <2>2
<1>10. k \in 1..Len(s) /\ s[k] = row
  BY <1>1, <1>6, <1>8
<1>. QED
  BY <1>8, <1>9, <1>10 DEF Inserts

LEMMA RemovedRow ==
    ASSUME NEW R, NEW rows \in Seq(R), NEW k \in 1..Len(rows)
    PROVE  /\ RemoveAt(rows, k) \in Seq(R)
           /\ \A i \in 1..Len(rows) : i # k =>
                 \E j \in 1..Len(RemoveAt(rows, k)) : RemoveAt(rows, k)[j] = rows[i]
<1> DEFINE a == SubSeq(rows, 1, k - 1)
           b == SubSeq(rows, k + 1, Len(rows))
           s == RemoveAt(rows, k)
<1>1. Len(rows) \in Nat /\ k \in Nat /\ k >= 1 /\ k <= Len(rows)
  OBVIOUS
<1>2. /\ a \in Seq(R) /\ Len(a) = k - 1
      /\ \A i \in 1..(k - 1) : a[i] = rows[i]
  BY <1>1
<1>3. /\ b \in Seq(R) /\ Len(b) = Len(rows) - k
      /\ \A i \in 1..(Len(rows) - k) : b[i] = rows[k + i]
  BY <1>1
<1>4. s = a \o b
  BY DEF RemoveAt
<1> HIDE DEF a, b, s
<1>5. /\ s \in Seq(R) /\ Len(s) = Len(rows) - 1
      /\ \A i \in 1..(k - 1) : s[i] = a[i]
      /\ \A i \in k..(Len(rows) - 1) : s[i] = b[i - (k - 1)]
  <2>1. /\ s \in Seq(R) /\ Len(s) = Len(a) + Len(b)
        /\ \A i \in 1..Len(a) : s[i] = a[i]
        /\ \A i \in (Len(a) + 1)..(Len(a) + Len(b)) : s[i] = b[i - Len(a)]
    BY <1>2, <1>3, <1>4, Joined, ZenonT(60)
  <2>2. Len(a) + 1 = k /\ Len(a) + Len(b) = Len(rows) - 1 /\ Len(a) = k - 1
    BY <1>1, <1>2, <1>3
  <2>. QED
    BY <2>1, <2>2
<1>6. ASSUME NEW i \in 1..Len(rows), i # k PROVE \E j \in 1..Len(s) : s[j] = rows[i]
  <2>1. CASE i < k
    <3>1. i \in 1..(k - 1) /\ i \in 1..Len(s)
      BY <1>1, <1>5, <2>1
    <3>. QED
      BY <1>2, <1>5, <3>1
  <2>2. CASE i > k
    <3>1. /\ i - 1 \in k..(Len(rows) - 1) /\ i - 1 \in 1..Len(s)
          /\ (i - 1) - (k - 1) = i - k
          /\ i - k \in 1..(Len(rows) - k) /\ k + (i - k) = i
      BY <1>1, <1>5, <2>2
    <3>2. s[i - 1] = b[(i - 1) - (k - 1)] /\ b[i - k] = rows[k + (i - k)]
      BY <1>3, <1>5, <3>1
    <3>. QED
      BY <3>1, <3>2
  <2>. QED
    BY <1>1, <1>6, <2>1, <2>2
<1>. QED
  BY <1>5, <1>6 DEF s

LEMMA StampedRows ==
    ASSUME NEW rows \in Seq(Rows), NEW by \in {"main", "live"}, NEW gen \in Nat,
           NEW content \in Content
    PROVE  /\ Stamped(rows, by, gen, content) \in Seq(Rows)
           /\ KeepsPlaces(rows, Stamped(rows, by, gen, content))
           /\ HasPlace(Stamped(rows, by, gen, content), by)
<1> DEFINE S == {0} \cup {i \in 1..Len(rows) : rows[i].gen <= gen}
           row == [gen |-> gen, content |-> content, by |-> by, reached |-> FALSE,
                   status |-> "stamped"]
           k == Max(S) + 1
           others == InsertAt(rows, k, row)
<1>1. Len(rows) \in Nat /\ S \in SUBSET (0..Len(rows)) /\ S # {}
  OBVIOUS
<1>2. Max(S) \in S
  <2> HIDE DEF S
  <2>. QED
    BY <1>1, Greatest
<1>3. k \in Nat /\ 1 <= k /\ k <= Len(rows) + 1
  BY <1>1, <1>2
<1>4. row \in Rows /\ row.status = "stamped" /\ row.by = by
  BY DEF Rows
<1>5. Stamped(rows, by, gen, content) = others
  BY DEF Stamped
<1>o. others = InsertAt(rows, k, row)
  OBVIOUS
<1> HIDE DEF S, row, k, others
<1>6. others \in Seq(Rows) /\ Inserts(others, rows, row)
  <2>1. rows \in Seq(Rows) /\ k \in Nat /\ 1 <= k /\ k <= Len(rows) + 1 /\ row \in Rows
    BY <1>3, <1>4
  <2>. QED
    BY <1>o, <2>1, InsertedRow
<1>7. KeepsPlaces(rows, others) /\ HasPlace(others, by)
  BY <1>4, <1>6 DEF Inserts, KeepsPlaces, HasPlace
<1>. QED
  BY <1>5, <1>6, <1>7

(* Inserting a held report leaves the other thread's in its place.         *)
LEMMA EnqueuedRows ==
    ASSUME outbox \in Seq(Rows), NEW by \in {"main", "live"}, HasPlace(outbox, by)
    PROVE  /\ Enqueued(by) \in Seq(Rows)
           /\ \A other \in {"main", "live"} :
                 other # by /\ HasPlace(outbox, other) => HasPlace(Enqueued(by), other)
<1> DEFINE h == Held(by)
<1>1. h \in 1..Len(outbox) /\ outbox[h].status = "stamped" /\ outbox[h].by = by
  BY DEF HasPlace, Held
<1> HIDE DEF h
<1>2. CASE Known(by)
  <2>1. Enqueued(by) = RemoveAt(outbox, h)
    BY <1>2 DEF Enqueued, h
  <2>2. /\ RemoveAt(outbox, h) \in Seq(Rows)
        /\ \A i \in 1..Len(outbox) : i # h =>
              \E j \in 1..Len(RemoveAt(outbox, h)) : RemoveAt(outbox, h)[j] = outbox[i]
    BY <1>1, RemovedRow
  <2>. QED
    BY <1>1, <2>1, <2>2 DEF HasPlace
<1>3. CASE ~ Known(by)
  <2> DEFINE rows == [outbox EXCEPT ![h].status = "new"]
  <2>1. Enqueued(by) = Trimmed(rows)
    BY <1>3 DEF Enqueued, h
  <2>2. [outbox[h] EXCEPT !.status = "new"] \in Rows
    <3>1. outbox[h] \in Rows
      BY <1>1
    <3>. QED
      BY <3>1 DEF Rows
  <2>3. /\ rows \in Seq(Rows) /\ Len(rows) = Len(outbox)
        /\ \A i \in 1..Len(outbox) : i # h => rows[i] = outbox[i]
    BY <1>1, <2>2
  <2> HIDE DEF rows
  <2>4. Trimmed(rows) \in Seq(Rows) /\ KeepsPlaces(rows, Trimmed(rows))
    BY <2>3, TrimmedRows
  <2>5. ASSUME NEW other \in {"main", "live"}, other # by, HasPlace(outbox, other)
        PROVE  HasPlace(Trimmed(rows), other)
    <3>1. HasPlace(rows, other)
      BY <1>1, <2>3, <2>5 DEF HasPlace
    <3>. QED
      BY <2>4, <3>1, PlacesKept
  <2>. QED
    BY <2>1, <2>4, <2>5
<1>. QED
  BY <1>2, <1>3

(* Sending takes rows out, but none that a thread holds.                   *)
LEMMA DeliveredRows ==
    ASSUME outbox \in Seq(Rows), NEW i \in 1..Len(outbox), outbox[i].status = "new",
           NEW result, Delivered(i, result)
    PROVE  outbox' \in Seq(Rows) /\ KeepsPlaces(outbox, outbox')
<1> DEFINE took == result = "applied" /\ ~ outbox[i].reached
           row == [outbox[i] EXCEPT !.status = "sent", !.reached = @ \/ took]
           sent == [outbox EXCEPT ![i] = row]
           places == {j \in 1..Len(sent) : sent[j].status # "new"}
<1>1. outbox[i] \in Rows
  OBVIOUS
<1>2. row \in Rows
  BY <1>1 DEF Rows
<1>3. outbox' = Selected(sent, places)
  <2>1. sent = [outbox EXCEPT ![i].status = "sent", ![i].reached = @ \/ took]
    BY <1>1 DEF Rows
  <2>. QED
    BY <2>1 DEF Delivered
<1> HIDE DEF row
<1>4. /\ sent \in Seq(Rows) /\ Len(sent) = Len(outbox)
      /\ \A j \in 1..Len(outbox) : j # i => sent[j] = outbox[j]
  BY <1>2
<1>5. \A j \in 1..Len(outbox) : outbox[j].status = "stamped" =>
          j \in places /\ sent[j] = outbox[j]
  BY <1>4
<1> HIDE DEF sent, places
<1>6. /\ Selected(sent, places) \in Seq(Rows)
      /\ \A j \in 1..Len(sent) : j \in places =>
            \E k \in 1..Len(Selected(sent, places)) : Selected(sent, places)[k] = sent[j]
  BY <1>4, SelectedRows
<1>. QED
  BY <1>3, <1>4, <1>5, <1>6 DEF KeepsPlaces

-----------------------------------------------------------------------------
(* What keeps each part of the invariant                                   *)

(* The account is quarantined until it has another generation.             *)
StaysQuarantined ==
    db.sched.state = "auth_required" /\ db'.sched.state # "auth_required"
        => db'.sched.gen # db.sched.gen

LEMMA SameSound ==
    ASSUME NEW d, Sound(d), NEW x \in Tables,
           x.account = d.account, x.chat = d.chat, x.mapped = d.mapped,
           x.resets = d.resets, x.sched.gen = d.sched.gen, x.sched.reset = d.sched.reset,
           x.sync.state = "none" <=> x.sync.gen = 0
    PROVE  Sound(x)
BY DEF Sound

LEMMA SamePolled ==
    ASSUME Polled, GrowingLog(log), Extends(log', log),
           db'.cursor = db.cursor, db'.account = db.account, db'.chat = db.chat,
           \/ main'.pc \notin {"batch", "snapshot"}
           \/ main'.pc = main.pc /\ main'.upto = main.upto
    PROVE  Polled'
<1>1. Len(log) \in Nat /\ Len(log') \in Nat /\ Len(log) <= Len(log')
  BY DEF GrowingLog, Extends
<1>2. db.cursor # 0 => db.cursor \in 2..Len(log') /\ FollowsTo(db, log', db.cursor)
  BY FollowsInBoth DEF Polled
<1>3. db'.cursor # 0 => db'.cursor \in 2..Len(log') /\ FollowsTo(db', log', db'.cursor)
  BY <1>2 DEF FollowsTo
<1>4. main'.pc = "batch" => db'.cursor # 0 /\ main'.upto \in db'.cursor..Len(log')
  BY <1>1 DEF Polled
<1>5. main'.pc = "snapshot" => main'.upto \in 2..Len(log') /\ db'.cursor <= main'.upto
  BY <1>1 DEF Polled
<1>. QED
  BY <1>3, <1>4, <1>5 DEF Polled

LEMMA SameLog ==
    ASSUME GrowingLog(log), log' = log
    PROVE  Extends(log', log) /\ GrowingLog(log)'
BY DEF Extends, GrowingLog

LEMMA SamePlaced ==
    ASSUME Placed, outbox' = outbox \/ KeepsPlaces(outbox, outbox'),
           main' = main \/ main'.pc \notin {"stamped", "answered"},
           live'.pc = "stamped" => live.pc = "stamped"
    PROVE  Placed'
<1>1. \A by : HasPlace(outbox, by) => HasPlace(outbox', by)
  BY PlacesKept
<1>. QED
  BY <1>1 DEF Placed, HasPlace

LEMMA SameLists ==
    ASSUME ListsAreCurrent, peer' = peer, zulip' = zulip, noticed' = noticed,
           db'.sync = db.sync \/ db'.sync.state \notin {"running", "ready"},
           main'.pc \in Holding => main.pc \in Holding /\ main'.asof = main.asof
    PROVE  ListsAreCurrent'
BY DEF ListsAreCurrent

LEMMA SameRefused ==
    ASSUME Refused, refused \subseteq refused',
           \/ db'.sched.gen = db.sched.gen /\ db'.sched.state = db.sched.state
           \/ db'.sched.state # "auth_required",
           call' = call
    PROVE  Refused'
BY DEF Refused

LEMMA IdleThread ==
    /\ Idle \in Thread(MainPlaces) /\ Idle \in Thread(LivePlaces)
    /\ Idle.pc = "idle"
<1>1. Bare \in Content
  BY DEF Bare, Content
<1>. QED
  BY <1>1 DEF Idle, Thread, MainPlaces, LivePlaces

(* Tables moved by a poll keep what the other threads rely on.             *)
LEMMA PolledTables ==
    ASSUME ListsAreCurrent, Refused, db \in Tables, db' \in Tables, Polls(db, db'),
           peer' = peer, zulip' = zulip, noticed' = noticed, refused' = refused, call' = call,
           main'.pc \notin Holding
    PROVE  ListsAreCurrent' /\ Refused' /\ StaysQuarantined
<1>1. db.sched.gen \in Nat /\ db'.sched.gen \in Nat
  BY DEF Tables
<1>2. NoSync.state = "none"
  BY DEF NoSync
<1>3. db'.sync = db.sync \/ db'.sync.state = "none"
  BY <1>2 DEF Polls
<1>4. ListsAreCurrent'
  BY <1>3, SameLists
<1>5. \/ db'.sched = db.sched
      \/ db'.sched.gen > db.sched.gen /\ db'.sched.state = "ready"
  BY DEF Polls
<1>6. Refused'
  BY <1>5, SameRefused
<1>. QED
  BY <1>1, <1>4, <1>5, <1>6 DEF StaysQuarantined

LEMMA Initially == Init => ControlInv
<1> SUFFICES ASSUME Init PROVE ControlInv
  OBVIOUS
<1>1. /\ log = <<Account(1, 0), Chat(1, Bare)>> /\ Bare \in Content
      /\ Account(1, 0) \in Change /\ Account(1, 0).of = "account"
      /\ Account(1, 0).gen = 1
      /\ Chat(1, Bare) \in Change /\ Chat(1, Bare).of = "chat"
      /\ Chat(1, Bare).gen = 1
  <2>1. Bare \in Content
    BY DEF Bare, Content
  <2>. QED
    BY <2>1, MadeChanges DEF Init
<1>2. log \in Seq(Change) /\ Len(log) = 2 /\ log[1] = Account(1, 0) /\ log[2] = Chat(1, Bare)
  BY <1>1
<1>3. GrowingLog(log)
  <2>1. \A i \in 1..Len(log) : i = 1 \/ i = 2
    BY <1>2
  <2>. QED
    BY <1>1, <1>2, <2>1 DEF GrowingLog
<1>4. Empty \in Tables
  <2>1. <<>> \in Seq(Nat)
    OBVIOUS
  <2>. QED
    BY <1>1, <2>1 DEF Empty, Tables, NoSync
<1>5. Sound(db)
  <2>1. ResetsDone(<<>>, 0)
    BY DEF ResetsDone
  <2>. QED
    BY <1>4, <2>1 DEF Init, Sound, Empty, NoSync
<1>6. Idle \in Thread(MainPlaces) /\ Idle \in Thread(LivePlaces)
  BY IdleThread
<1>7. TypeOK
  <2>1. zulip \in [members : SUBSET Users, version : Nat]
    BY DEF Init
  <2>2. outbox \in Seq(Rows)
    BY DEF Init
  <2>3. call \in [Callers -> [gen : Nat, answer : {"none", "ok", "auth", "retry"}]]
    BY DEF Init, NoCall
  <2>4. budget \in [Counters -> Nat]
    BY BudgetsAssumption DEF Init
  <2>5. db \in Tables /\ db.cursor <= Len(log) /\ (db.sync.state = "none" <=> db.sync.gen = 0)
    BY <1>2, <1>4 DEF Init, Empty, NoSync
  <2>. QED
    BY <1>1, <1>2, <1>6, <2>1, <2>2, <2>3, <2>4, <2>5 DEF Init, TypeOK
<1>8. Polled /\ Placed /\ ListsAreCurrent
  BY DEF Init, Polled, Placed, ListsAreCurrent, Idle, Empty, NoSync, Holding
<1>9. Refused
  BY DEF Init, Refused, Empty, NoCall
<1>. QED
  BY <1>3, <1>5, <1>7, <1>8, <1>9 DEF ControlInv

-----------------------------------------------------------------------------
(* The poll *)

LEMMA FetchChangesKeeps ==
    ASSUME ControlInv, FetchChanges
    PROVE  ControlInv' /\ StaysQuarantined
<1> USE DEF backend, provider, history
<1>1. /\ TypeOK /\ GrowingLog(log) /\ Sound(db) /\ Polled /\ Placed /\ ListsAreCurrent /\ Refused
  BY DEF ControlInv
<1>2. /\ log' = log /\ db' = db /\ outbox' = outbox /\ live' = live /\ call' = call
      /\ peer' = peer /\ zulip' = zulip /\ noticed' = noticed /\ refused' = refused
  BY DEF FetchChanges
<1>3. Len(log) \in Nat /\ Len(log) >= 2 /\ db.cursor \in Nat /\ db.cursor <= Len(log)
  BY <1>1 DEF GrowingLog, TypeOK, Tables
<1>4. \/ main' = [main EXCEPT !.pc = "snapshot", !.upto = Len(log)]
      \/ \E n \in db.cursor..Len(log) :
            db.cursor # 0 /\ main' = [main EXCEPT !.pc = "batch", !.upto = n]
  BY DEF FetchChanges
<1>5. /\ main' \in Thread(MainPlaces) /\ main'.pc \in {"batch", "snapshot"}
      /\ main'.pc = "batch" => db.cursor # 0 /\ main'.upto \in db.cursor..Len(log)
      /\ main'.pc = "snapshot" => main'.upto = Len(log)
  <2>1. CASE main' = [main EXCEPT !.pc = "snapshot", !.upto = Len(log)]
    BY <1>1, <1>3, <2>1 DEF TypeOK, Thread, MainPlaces
  <2>2. ASSUME NEW n \in db.cursor..Len(log), db.cursor # 0,
               main' = [main EXCEPT !.pc = "batch", !.upto = n]
        PROVE  /\ main' \in Thread(MainPlaces) /\ main'.pc = "batch"
               /\ main'.upto \in db.cursor..Len(log)
    <3>1. n \in Nat
      BY <1>3
    <3>. QED
      BY <1>1, <2>2, <3>1 DEF TypeOK, Thread, MainPlaces
  <2>. QED
    BY <1>4, <2>1, <2>2
<1>6. TypeOK'
  BY <1>1, <1>2, <1>5 DEF TypeOK, FetchChanges
<1>7. Polled'
  BY <1>1, <1>2, <1>3, <1>5 DEF Polled
<1>8. Placed' /\ ListsAreCurrent' /\ Refused'
  BY <1>1, <1>2, <1>5 DEF Placed, ListsAreCurrent, Refused, Holding
<1>. QED
  BY <1>1, <1>2, <1>6, <1>7, <1>8 DEF ControlInv, StaysQuarantined

LEMMA ApplyBatchKeeps ==
    ASSUME ControlInv, ApplyBatch
    PROVE  ControlInv' /\ StaysQuarantined
<1> USE DEF backend, provider, history
<1>1. /\ TypeOK /\ GrowingLog(log) /\ Sound(db) /\ Polled /\ Placed /\ ListsAreCurrent /\ Refused
  BY DEF ControlInv
<1>2. /\ log' = log /\ outbox' = outbox /\ live' = live /\ call' = call
      /\ peer' = peer /\ zulip' = zulip /\ noticed' = noticed /\ refused' = refused
  BY DEF ApplyBatch
<1>3. /\ db.cursor \in 2..Len(log) /\ FollowsTo(db, log, db.cursor)
      /\ main.upto \in db.cursor..Len(log) /\ db \in Tables
  BY <1>1 DEF ApplyBatch, Polled, TypeOK
<1>4. CASE Understood(main.upto)
  <2> DEFINE n == main.upto
  <2>1. db' = ApplyChanges(db, n) /\ main' = [main EXCEPT !.pc = "clear"]
    BY <1>4 DEF ApplyBatch
  <2>2. \A i \in (db.cursor + 1)..n : log[i] # Unsupported
    BY <1>4 DEF Understood
  <2>3. /\ Sound(db') /\ Polls(db, db') /\ FollowsTo(db', log, n) /\ db'.cursor = n
    BY <1>1, <1>3, <2>1, <2>2, BatchApplied
  <2>4. n \in 2..Len(log)
    BY <1>1, <1>3 DEF GrowingLog
  <2>5. main' \in Thread(MainPlaces) /\ main'.pc = "clear"
    BY <1>1, <2>1 DEF TypeOK, Thread, MainPlaces
  <2>6. TypeOK'
    <3>1. db' \in Tables /\ (db'.sync.state = "none" <=> db'.sync.gen = 0)
      BY <2>3 DEF Sound
    <3>2. db'.cursor <= Len(log')
      BY <1>1, <1>2, <2>3, <2>4 DEF GrowingLog
    <3>. QED
      BY <1>1, <1>2, <2>5, <3>1, <3>2 DEF TypeOK, ApplyBatch
  <2>7. Polled'
    <3>1. db'.cursor # 0
      BY <1>1, <2>3, <2>4 DEF GrowingLog
    <3>. QED
      BY <1>2, <2>3, <2>4, <2>5, <3>1 DEF Polled
  <2>8. Placed'
    BY <1>1, <1>2, <2>5, SamePlaced
  <2>9. ListsAreCurrent' /\ Refused' /\ StaysQuarantined
    <3>1. main'.pc \notin Holding /\ db' \in Tables
      BY <2>3, <2>5 DEF Holding, Sound
    <3>. QED
      BY <1>1, <1>2, <1>3, <2>3, <3>1, PolledTables
  <2>10. GrowingLog(log)' /\ Sound(db)'
    BY <1>1, <1>2, <2>3
  <2>. QED
    BY <2>6, <2>7, <2>8, <2>9, <2>10 DEF ControlInv
<1>5. CASE ~ Understood(main.upto)
  <2>1. db' = [db EXCEPT !.blocked = TRUE] /\ main' = Idle
    BY <1>5 DEF ApplyBatch
  <2>2. /\ db' \in Tables /\ db'.cursor = db.cursor /\ db'.account = db.account
        /\ db'.chat = db.chat /\ db'.sched = db.sched /\ db'.sync = db.sync
        /\ db'.mapped = db.mapped /\ db'.resets = db.resets
    BY <1>3, <2>1 DEF Tables
  <2>3. main' \in Thread(MainPlaces) /\ main'.pc = "idle"
    BY <2>1, IdleThread
  <2>4. TypeOK'
    BY <1>1, <1>2, <2>2, <2>3 DEF TypeOK, ApplyBatch
  <2>5. Polled' /\ GrowingLog(log)'
    BY <1>1, <1>2, <2>2, <2>3, SamePolled, SameLog
  <2>6. Sound(db')
    BY <1>1, <2>2, SameSound DEF Sound
  <2>7. Placed'
    BY <1>1, <1>2, <2>3, SamePlaced
  <2>8. ListsAreCurrent'
    BY <1>1, <1>2, <2>2, <2>3, SameLists DEF Holding
  <2>9. Refused'
    BY <1>1, <1>2, <2>2, SameRefused
  <2>. QED
    BY <2>2, <2>4, <2>5, <2>6, <2>7, <2>8, <2>9 DEF ControlInv, StaysQuarantined
<1>. QED
  BY <1>4, <1>5

LEMMA ClearBlockedBatchKeeps ==
    ASSUME ControlInv, ClearBlockedBatch
    PROVE  ControlInv' /\ StaysQuarantined
<1> USE DEF backend, provider, history
<1>1. /\ TypeOK /\ GrowingLog(log) /\ Sound(db) /\ Polled /\ Placed /\ ListsAreCurrent /\ Refused
  BY DEF ControlInv
<1>2. /\ log' = log /\ outbox' = outbox /\ live' = live /\ call' = call
      /\ peer' = peer /\ zulip' = zulip /\ noticed' = noticed /\ refused' = refused
      /\ db' = [db EXCEPT !.blocked = FALSE] /\ main' = Idle
  BY DEF ClearBlockedBatch
<1>3. /\ db' \in Tables /\ db'.cursor = db.cursor /\ db'.account = db.account
      /\ db'.chat = db.chat /\ db'.sched = db.sched /\ db'.sync = db.sync
      /\ db'.mapped = db.mapped /\ db'.resets = db.resets
  BY <1>1, <1>2 DEF TypeOK, Tables
<1>4. main' \in Thread(MainPlaces) /\ main'.pc = "idle"
  BY <1>2, IdleThread
<1>5. TypeOK'
  BY <1>1, <1>2, <1>3, <1>4 DEF TypeOK, ClearBlockedBatch
<1>6. Polled' /\ GrowingLog(log)'
  BY <1>1, <1>2, <1>3, <1>4, SamePolled, SameLog
<1>7. Sound(db')
  BY <1>1, <1>3, SameSound DEF Sound
<1>8. Placed'
  BY <1>1, <1>2, <1>4, SamePlaced
<1>9. ListsAreCurrent'
  BY <1>1, <1>2, <1>3, <1>4, SameLists DEF Holding
<1>10. Refused'
  BY <1>1, <1>2, <1>3, SameRefused
<1>. QED
  BY <1>3, <1>5, <1>6, <1>7, <1>8, <1>9, <1>10 DEF ControlInv, StaysQuarantined

LEMMA ApplySnapshotKeeps ==
    ASSUME ControlInv, ApplySnapshot
    PROVE  ControlInv' /\ StaysQuarantined
<1> USE DEF backend, provider, history
<1>1. /\ TypeOK /\ GrowingLog(log) /\ Sound(db) /\ Polled /\ Placed /\ ListsAreCurrent /\ Refused
  BY DEF ControlInv
<1> DEFINE n == main.upto
<1>2. /\ log' = log /\ outbox' = outbox /\ live' = live /\ call' = call
      /\ peer' = peer /\ zulip' = zulip /\ noticed' = noticed /\ refused' = refused
      /\ db' = InstallSnapshot(db, n) /\ main' = Idle
  BY DEF ApplySnapshot
<1>3. /\ n \in 2..Len(log) /\ db \in Tables
      /\ \/ db.account.gen = 0 /\ db.account.reset = 0
         \/ db.cursor \in 2..n /\ FollowsTo(db, log, db.cursor)
  <2>1. n \in 2..Len(log) /\ db \in Tables /\ db.cursor <= n
    BY <1>1 DEF ApplySnapshot, Polled, TypeOK
  <2>2. db.cursor # 0 => db.cursor \in 2..n
    BY <1>1, <2>1 DEF Polled, GrowingLog
  <2>. QED
    BY <1>1, <2>1, <2>2 DEF Polled
<1>4. /\ Sound(db') /\ Polls(db, db') /\ FollowsTo(db', log, n) /\ db'.cursor = n
  BY <1>1, <1>2, <1>3, SnapshotApplied
<1>5. main' \in Thread(MainPlaces) /\ main'.pc = "idle"
  BY <1>2, IdleThread
<1>6. TypeOK'
  <2>1. db' \in Tables /\ (db'.sync.state = "none" <=> db'.sync.gen = 0)
    BY <1>4 DEF Sound
  <2>2. db'.cursor <= Len(log')
    BY <1>1, <1>2, <1>3, <1>4 DEF GrowingLog
  <2>. QED
    BY <1>1, <1>2, <1>5, <2>1, <2>2 DEF TypeOK, ApplySnapshot
<1>7. Polled'
  <2>1. db'.cursor # 0
    BY <1>1, <1>3, <1>4 DEF GrowingLog
  <2>. QED
    BY <1>2, <1>3, <1>4, <1>5, <2>1 DEF Polled
<1>8. Placed'
  BY <1>1, <1>2, <1>5, SamePlaced
<1>9. ListsAreCurrent' /\ Refused' /\ StaysQuarantined
  <2>1. main'.pc \notin Holding /\ db' \in Tables
    BY <1>4, <1>5 DEF Holding, Sound
  <2>. QED
    BY <1>1, <1>2, <1>3, <1>4, <2>1, PolledTables
<1>10. GrowingLog(log)' /\ Sound(db)'
  BY <1>1, <1>2, <1>4
<1>. QED
  BY <1>6, <1>7, <1>8, <1>9, <1>10 DEF ControlInv

-----------------------------------------------------------------------------
(* Steps that leave the log and the desired state alone                    *)

Edits(d, x) ==
    /\ x \in Tables
    /\ x.cursor = d.cursor /\ x.account = d.account /\ x.chat = d.chat
    /\ x.mapped = d.mapped /\ x.resets = d.resets
    /\ x.sched.gen = d.sched.gen /\ x.sched.reset = d.sched.reset

LEMMA EditedTables ==
    ASSUME ControlInv, TypeOK', Edits(db, db'), log' = log,
           main' = main \/ main'.pc \notin {"batch", "snapshot"}
    PROVE  GrowingLog(log)' /\ Sound(db)' /\ Polled'
<1>1. TypeOK /\ GrowingLog(log) /\ Sound(db) /\ Polled
  BY DEF ControlInv
<1>2. GrowingLog(log)' /\ Extends(log', log)
  BY <1>1, SameLog
<1>3. Polled'
  BY <1>1, <1>2, SamePolled DEF Edits
<1>4. Sound(db')
  <2>1. db'.sync.state = "none" <=> db'.sync.gen = 0
    BY DEF TypeOK
  <2>. QED
    BY <1>1, <2>1, SameSound DEF Edits
<1>. QED
  BY <1>2, <1>3, <1>4

LEMMA UneditedTables ==
    ASSUME ControlInv, db' = db
    PROVE  Edits(db, db')
BY DEF ControlInv, TypeOK, Edits

LEMMA Spent ==
    ASSUME TypeOK, NEW counter \in Counters, Spend(counter)
    PROVE  budget' \in [Counters -> Nat]
<1>1. budget \in [Counters -> Nat] /\ budget[counter] > 0
  BY DEF TypeOK, Spend
<1>2. budget[counter] - 1 \in Nat
  BY <1>1
<1>. QED
  BY <1>1, <1>2 DEF Spend

-----------------------------------------------------------------------------
(* The circuit breaker *)

LEMMA CallZulipKeeps ==
    ASSUME ControlInv, NEW c \in Callers, CallZulip(c)
    PROVE  ControlInv' /\ StaysQuarantined
<1> USE DEF backend, provider
<1>1. TypeOK /\ Placed /\ ListsAreCurrent /\ Refused
  BY DEF ControlInv
<1>2. /\ log' = log /\ outbox' = outbox /\ live' = live /\ main' = main /\ db' = db
      /\ peer' = peer /\ zulip' = zulip /\ noticed' = noticed
  BY DEF CallZulip
<1>3. db.account.gen \in Nat
  BY <1>1 DEF TypeOK, Tables
<1>4. /\ refused \subseteq refused' /\ refused' \subseteq Nat
      /\ budget' \in [Counters -> Nat]
      /\ \E answer \in {"ok", "auth", "retry"} :
            /\ call' = [call EXCEPT ![c] = [gen |-> db.account.gen, answer |-> answer]]
            /\ answer = "auth" => db.account.gen \in refused'
  <2>1. CASE /\ call' = [call EXCEPT ![c] = [gen |-> db.account.gen,
                                             answer |-> Judgement(db.account.gen)]]
             /\ refused' = refused \cup ({db.account.gen} \ good)
             /\ UNCHANGED budget
    BY <1>1, <1>3, <2>1 DEF TypeOK, Judgement
  <2>2. CASE /\ Spend("faults")
             /\ call' = [call EXCEPT ![c] = [gen |-> db.account.gen, answer |-> "retry"]]
             /\ UNCHANGED refused
    <3>1. budget' \in [Counters -> Nat]
      BY <1>1, <2>2, Spent DEF Counters
    <3>. QED
      BY <1>1, <2>2, <3>1 DEF TypeOK
  <2>. QED
    BY <2>1, <2>2 DEF CallZulip
<1>5. call' \in [Callers -> [gen : Nat, answer : {"none", "ok", "auth", "retry"}]]
  BY <1>1, <1>3, <1>4 DEF TypeOK
<1>6. TypeOK'
  BY <1>1, <1>2, <1>4, <1>5 DEF TypeOK, CallZulip
<1>7. GrowingLog(log)' /\ Sound(db)' /\ Polled'
  BY <1>2, <1>6, UneditedTables, EditedTables
<1>8. Placed' /\ ListsAreCurrent'
  BY <1>1, <1>2, SamePlaced, SameLists
<1>9. Refused'
  <2>1. PICK answer \in {"ok", "auth", "retry"} :
            /\ call' = [call EXCEPT ![c] = [gen |-> db.account.gen, answer |-> answer]]
            /\ answer = "auth" => db.account.gen \in refused'
    BY <1>4
  <2>2. ASSUME NEW b \in Callers, call'[b].answer = "auth" PROVE call'[b].gen \in refused'
    <3>1. CASE b = c
      <4>1. call'[b] = [gen |-> db.account.gen, answer |-> answer]
        BY <1>1, <2>1, <3>1 DEF TypeOK
      <4>. QED
        BY <2>1, <2>2, <4>1
    <3>2. CASE b # c
      <4>1. call'[b] = call[b]
        BY <1>1, <2>1, <3>2 DEF TypeOK
      <4>. QED
        BY <1>1, <1>4, <2>2, <4>1 DEF Refused
    <3>. QED
      BY <3>1, <3>2
  <2>. QED
    BY <1>1, <1>2, <1>4, <2>2 DEF Refused
<1>. QED
  BY <1>2, <1>6, <1>7, <1>8, <1>9 DEF ControlInv, StaysQuarantined

LEMMA RecordCallKeeps ==
    ASSUME ControlInv, NEW c \in Callers, RecordCall(c)
    PROVE  ControlInv' /\ StaysQuarantined
<1> USE DEF backend, provider, history
<1>1. TypeOK /\ Sound(db) /\ Placed /\ ListsAreCurrent /\ Refused
  BY DEF ControlInv
<1>2. /\ log' = log /\ outbox' = outbox /\ live' = live /\ main' = main
      /\ peer' = peer /\ zulip' = zulip /\ noticed' = noticed /\ refused' = refused
      /\ call' = [call EXCEPT ![c] = NoCall]
  BY DEF RecordCall
<1> DEFINE gen == call[c].gen
           answer == call[c].answer
           registered == db.registered \/ (answer = "ok" /\ gen = db.account.gen)
<1>3. gen \in Nat /\ answer \in {"none", "ok", "auth", "retry"} /\ db \in Tables
  BY <1>1 DEF TypeOK
<1>4. PICK state \in {"ready", "backoff", "auth_required"} :
          /\ Recorded(db, gen, answer) = [db EXCEPT !.sched.state = state]
          /\ state = "auth_required" =>
                \/ db.sched.state = "auth_required"
                \/ answer = "auth" /\ gen = db.sched.gen
          /\ db.sched.state = "auth_required" => state = "auth_required"
  <2> HIDE DEF gen, answer
  <2>. QED
    BY <1>1, <1>3, RecordedState
<1>5. db' = [[db EXCEPT !.sched.state = state] EXCEPT !.registered = registered]
  <2>1. [db EXCEPT !.sched.state = state].registered = db.registered
    BY <1>3 DEF Tables
  <2>. QED
    BY <1>4, <2>1 DEF RecordCall
<1>6. /\ Edits(db, db') /\ db'.sync = db.sync
      /\ db'.sched.state = state /\ db'.sched.gen = db.sched.gen
  <2>1. registered \in BOOLEAN
    BY <1>3 DEF Tables
  <2> HIDE DEF registered
  <2>. QED
    BY <1>3, <1>5, <2>1 DEF Edits, Tables
<1>7. call' \in [Callers -> [gen : Nat, answer : {"none", "ok", "auth", "retry"}]]
  BY <1>1, <1>2 DEF TypeOK, NoCall
<1>8. TypeOK'
  BY <1>1, <1>2, <1>6, <1>7 DEF TypeOK, Edits, RecordCall
<1>9. GrowingLog(log)' /\ Sound(db)' /\ Polled'
  BY <1>2, <1>6, <1>8, EditedTables
<1>10. Placed' /\ ListsAreCurrent'
  BY <1>1, <1>2, <1>6, SamePlaced, SameLists
<1>11. Refused'
  <2>1. \A b \in Callers : call'[b].answer = "auth" => call'[b] = call[b]
    BY <1>1, <1>2 DEF TypeOK, NoCall
  <2>. QED
    BY <1>1, <1>2, <1>4, <1>6, <2>1 DEF Refused
<1>. QED
  BY <1>4, <1>6, <1>8, <1>9, <1>10, <1>11 DEF ControlInv, StaysQuarantined

-----------------------------------------------------------------------------
(* Steps that make the log longer                                          *)

LEMMA GrownLog ==
    ASSUME ControlInv, Extends(log', log), db' = db,
           main' = main \/ main'.pc \notin {"batch", "snapshot"}
    PROVE  /\ GrowingLog(log)' /\ Sound(db)' /\ Polled'
           /\ log' \in Seq(Change) /\ floor \in 0..Len(log') /\ db.cursor <= Len(log')
<1>1. TypeOK /\ GrowingLog(log) /\ Sound(db) /\ Polled
  BY DEF ControlInv
<1>2. GrowingLog(log') /\ Len(log) <= Len(log') /\ Len(log) \in Nat /\ Len(log') \in Nat
  BY DEF Extends, GrowingLog
<1>3. Polled'
  BY <1>1, SamePolled
<1>4. log' \in Seq(Change)
  BY <1>2 DEF GrowingLog
<1>5. floor \in 0..Len(log') /\ db.cursor <= Len(log')
  <2>1. floor \in 0..Len(log) /\ db.cursor <= Len(log) /\ db.cursor \in Nat
    BY <1>1 DEF TypeOK, Tables
  <2>. QED
    BY <1>2, <2>1
<1>. QED
  BY <1>1, <1>2, <1>3, <1>4, <1>5

LEMMA AppendedChange ==
    ASSUME GrowingLog(log), NEW c \in Change, NextChange(log, c), log' = Append(log, c)
    PROVE  Extends(log', log)
<1>1. /\ GrowingLog(log') /\ Len(log') = Len(log) + 1 /\ Len(log) \in Nat
      /\ \A i \in 1..Len(log) : log'[i] = log[i]
  <2>1. Len(log) \in Nat
    BY DEF GrowingLog
  <2>. QED
    BY <2>1, LogGrows
<1>. QED
  BY <1>1 DEF Extends

(* What the backend has now, and what it can say next.                     *)
LEMMA BackendNow ==
    ASSUME GrowingLog(log)
    PROVE  /\ AccountNow = NewestIn(log, "account", Len(log))
           /\ ChatNow = NewestIn(log, "chat", Len(log))
           /\ AccountNow.gen \in Nat /\ AccountNow.reset \in Nat
           /\ ChatNow.gen \in Nat /\ ChatNow.content \in Content
<1>1. Len(log) \in 2..Len(log)
  BY DEF GrowingLog
<1>. QED
  BY <1>1, NewestFields DEF AccountNow, ChatNow, Newest, NewestIn

LEMMA NextChat ==
    ASSUME GrowingLog(log), NEW content \in Content
    PROVE  /\ Chat(ChatNow.gen + 1, content) \in Change
           /\ NextChange(log, Chat(ChatNow.gen + 1, content))
<1>1. ChatNow = NewestIn(log, "chat", Len(log)) /\ ChatNow.gen + 1 \in Nat
  BY BackendNow
<1>2. /\ Chat(ChatNow.gen + 1, content) \in Change
      /\ Chat(ChatNow.gen + 1, content).of = "chat"
      /\ Chat(ChatNow.gen + 1, content).gen = ChatNow.gen + 1
  BY <1>1, MadeChanges
<1>. QED
  BY <1>1, <1>2 DEF NextChange

LEMMA NextAccount ==
    ASSUME GrowingLog(log), NEW reset \in Nat, reset >= AccountNow.reset
    PROVE  /\ Account(AccountNow.gen + 1, reset) \in Change
           /\ NextChange(log, Account(AccountNow.gen + 1, reset))
<1>1. AccountNow = NewestIn(log, "account", Len(log)) /\ AccountNow.gen + 1 \in Nat
  BY BackendNow
<1>2. /\ Account(AccountNow.gen + 1, reset) \in Change
      /\ Account(AccountNow.gen + 1, reset).of = "account"
      /\ Account(AccountNow.gen + 1, reset).gen = AccountNow.gen + 1
      /\ Account(AccountNow.gen + 1, reset).reset = reset
  BY <1>1, MadeChanges
<1>. QED
  BY <1>1, <1>2 DEF NextChange

-----------------------------------------------------------------------------
(* Reports *)

LEMMA ToSendPlace ==
    ASSUME outbox \in Seq(Rows), \E i \in 1..Len(outbox) : outbox[i].status = "new"
    PROVE  ToSend \in 1..Len(outbox) /\ outbox[ToSend].status = "new"
<1> DEFINE S == {i \in 1..Len(outbox) : outbox[i].status = "new"}
<1>1. Len(outbox) \in Nat /\ S \in SUBSET (0..Len(outbox)) /\ S # {}
  OBVIOUS
<1>2. Max(S) \in S
  <2> HIDE DEF S
  <2>. QED
    BY <1>1, Greatest
<1>. QED
  BY <1>2 DEF ToSend

LEMMA DeliveredKeeps ==
    ASSUME ControlInv, main.pc = "idle", NEW i \in 1..Len(outbox), outbox[i].status = "new",
           NEW result \in {"applied", "stale", "rejected", "retry"}, Delivered(i, result),
           budget' \in [Counters -> Nat],
           UNCHANGED <<floor, provider, history, db, topology, live, call>>
    PROVE  ControlInv' /\ StaysQuarantined
<1> USE DEF backend, provider, history
<1>1. TypeOK /\ GrowingLog(log) /\ Sound(db) /\ Placed /\ ListsAreCurrent /\ Refused
  BY DEF ControlInv
<1>2. outbox' \in Seq(Rows) /\ KeepsPlaces(outbox, outbox')
  BY <1>1, DeliveredRows DEF TypeOK
<1>3. /\ main' = [main EXCEPT !.pc = "answered", !.result = result]
      /\ \/ log' = log
         \/ log' = Append(log, Chat(ChatNow.gen + 1, outbox[i].content))
  BY DEF Delivered
<1>4. main' \in Thread(MainPlaces) /\ main'.pc = "answered"
  BY <1>1, <1>3 DEF TypeOK, Thread, MainPlaces
<1>5. Extends(log', log)
  <2>1. CASE log' = log
    BY <1>1, <2>1, SameLog
  <2>2. CASE log' = Append(log, Chat(ChatNow.gen + 1, outbox[i].content))
    <3>1. outbox[i] \in Rows
      BY <1>1 DEF TypeOK
    <3>2. outbox[i].content \in Content
      BY <3>1 DEF Rows
    <3>. QED
      BY <1>1, <2>2, <3>2, NextChat, AppendedChange
  <2>. QED
    BY <1>3, <2>1, <2>2
<1>6. /\ GrowingLog(log)' /\ Sound(db)' /\ Polled'
      /\ log' \in Seq(Change) /\ floor \in 0..Len(log') /\ db.cursor <= Len(log')
  BY <1>4, <1>5, GrownLog
<1>7. TypeOK'
  BY <1>1, <1>2, <1>4, <1>6 DEF TypeOK
<1>8. Placed'
  <2>1. \A by : HasPlace(outbox, by) => HasPlace(outbox', by)
    BY <1>2, PlacesKept
  <2>2. main'.result = result
    BY <1>1, <1>3 DEF TypeOK, Thread
  <2>. QED
    BY <1>1, <1>4, <2>1, <2>2 DEF Placed
<1>9. ListsAreCurrent' /\ Refused'
  BY <1>1, <1>4, SameLists, SameRefused DEF Holding
<1>. QED
  BY <1>6, <1>7, <1>8, <1>9 DEF ControlInv, StaysQuarantined

LEMMA FlushReportsKeeps ==
    ASSUME ControlInv, FlushReports
    PROVE  ControlInv' /\ StaysQuarantined
<1>1. TypeOK /\ outbox \in Seq(Rows)
  BY DEF ControlInv, TypeOK
<1>2. /\ main.pc = "idle" /\ ToSend \in 1..Len(outbox) /\ outbox[ToSend].status = "new"
      /\ UNCHANGED <<floor, provider, history, db, topology, live, call>>
  BY <1>1, ToSendPlace DEF FlushReports
<1>3. CASE Delivered(ToSend, Judged(ToSend)) /\ UNCHANGED budget
  <2>1. Judged(ToSend) \in {"applied", "stale", "rejected", "retry"}
    BY DEF Judged
  <2>2. budget' \in [Counters -> Nat]
    BY <1>1, <1>3 DEF TypeOK
  <2>. QED
    BY <1>2, <1>3, <2>1, <2>2, DeliveredKeeps
<1>4. CASE Spend("rejections") /\ \E result \in {"rejected", "retry"} : Delivered(ToSend, result)
  <2>1. budget' \in [Counters -> Nat]
    BY <1>1, <1>4, Spent DEF Counters
  <2>. QED
    BY <1>2, <1>4, <2>1, DeliveredKeeps
<1>. QED
  BY <1>3, <1>4 DEF FlushReports

LEMMA ApplyResultKeeps ==
    ASSUME ControlInv, ApplyResult \/ LoseAnswer
    PROVE  ControlInv' /\ StaysQuarantined
<1> USE DEF backend, provider, history
<1>1. TypeOK /\ Placed /\ ListsAreCurrent /\ Refused
  BY DEF ControlInv
<1>2. /\ log' = log /\ live' = live /\ call' = call /\ main' = Idle
      /\ peer' = peer /\ zulip' = zulip /\ noticed' = noticed /\ refused' = refused
      /\ floor' = floor /\ good' = good /\ topology' = topology
  BY DEF ApplyResult, LoseAnswer
<1>3. main' \in Thread(MainPlaces) /\ main'.pc = "idle"
  BY <1>2, IdleThread
<1>4. Edits(db, db') /\ db'.sync = db.sync /\ db'.sched = db.sched
  <2>1. CASE db' = db
    BY <1>1, <2>1 DEF TypeOK, Edits
  <2>2. CASE ApplyResult
    <3> DEFINE event == IF db.event = "marked" /\ main.result \in {"rejected", "stale"}
                        THEN "waiting" ELSE db.event
    <3>1. db \in Tables /\ db' = [db EXCEPT !.event = event]
      BY <1>1, <2>2 DEF TypeOK, ApplyResult
    <3>2. event \in {"none", "waiting", "marked", "invalid", "served"}
      BY <3>1 DEF Tables
    <3> HIDE DEF event
    <3>. QED
      BY <3>1, <3>2 DEF Edits, Tables
  <2>. QED
    BY <2>1, <2>2 DEF LoseAnswer
<1>5. outbox' \in Seq(Rows) /\ Placed'
  <2>1. outbox \in Seq(Rows)
    BY <1>1 DEF TypeOK
  <2>2. CASE LoseAnswer
    <3>1. outbox' = Answered(outbox, "new")
      BY <2>2 DEF LoseAnswer
    <3>. QED
      BY <1>1, <1>2, <1>3, <2>1, <3>1, AnsweredRows, SamePlaced
  <2>3. CASE ApplyResult
    <3> DEFINE status == IF main.result = "retry" THEN "new" ELSE main.result
               rows == Answered(outbox, status)
    <3>1. status \in {"new", "applied", "stale", "rejected"}
      BY <1>1, <2>3 DEF TypeOK, Thread, Placed, ApplyResult
    <3>2. outbox' = Trimmed(rows)
      BY <2>3 DEF ApplyResult
    <3> HIDE DEF status
    <3>3. rows \in Seq(Rows) /\ KeepsPlaces(outbox, rows)
      BY <2>1, <3>1, AnsweredRows
    <3> HIDE DEF rows
    <3>4. Trimmed(rows) \in Seq(Rows) /\ KeepsPlaces(rows, Trimmed(rows))
      BY <3>3, TrimmedRows
    <3>5. \A by : HasPlace(outbox, by) => HasPlace(outbox', by)
      BY <3>2, <3>3, <3>4, PlacesKept
    <3>. QED
      BY <1>1, <1>2, <1>3, <3>2, <3>4, <3>5 DEF Placed
  <2>. QED
    BY <2>2, <2>3
<1>6. budget' \in [Counters -> Nat]
  BY <1>1, Spent DEF ApplyResult, LoseAnswer, TypeOK, Counters
<1>7. TypeOK'
  BY <1>1, <1>2, <1>3, <1>4, <1>5, <1>6 DEF TypeOK, Edits
<1>8. GrowingLog(log)' /\ Sound(db)' /\ Polled'
  BY <1>2, <1>3, <1>4, <1>7, EditedTables
<1>9. ListsAreCurrent' /\ Refused'
  BY <1>1, <1>2, <1>3, <1>4, SameLists, SameRefused DEF Holding
<1>. QED
  BY <1>4, <1>5, <1>7, <1>8, <1>9 DEF ControlInv, StaysQuarantined

LEMMA CoolDownKeeps ==
    ASSUME ControlInv, CoolDown
    PROVE  ControlInv' /\ StaysQuarantined
<1> USE DEF backend, provider, history
<1>1. TypeOK /\ Placed /\ ListsAreCurrent /\ Refused
  BY DEF ControlInv
<1> DEFINE last == LastReal(outbox)
<1>2. /\ outbox \in Seq(Rows) /\ last \in 0..Len(outbox) /\ last # 0
      /\ outbox[last].status = "rejected"
      /\ outbox' = [outbox EXCEPT ![last].status = "cooled"]
  BY <1>1, LastRealPlace DEF TypeOK, CoolDown
<1> HIDE DEF last
<1>3. last \in 1..Len(outbox) /\ outbox[last] \in Rows
  BY <1>2
<1>4. [outbox[last] EXCEPT !.status = "cooled"] \in Rows
  BY <1>3 DEF Rows
<1>5. /\ outbox' \in Seq(Rows) /\ Len(outbox') = Len(outbox)
      /\ \A i \in 1..Len(outbox) : i # last => outbox'[i] = outbox[i]
  BY <1>2, <1>3, <1>4
<1>6. KeepsPlaces(outbox, outbox')
  BY <1>2, <1>5 DEF KeepsPlaces
<1>7. TypeOK'
  BY <1>1, <1>5 DEF TypeOK, CoolDown
<1>8. GrowingLog(log)' /\ Sound(db)' /\ Polled'
  BY <1>7, UneditedTables, EditedTables DEF CoolDown
<1>9. Placed'
  BY <1>1, <1>6, SamePlaced DEF CoolDown
<1>10. ListsAreCurrent' /\ Refused'
  BY <1>1, SameLists, SameRefused DEF CoolDown
<1>. QED
  BY <1>7, <1>8, <1>9, <1>10 DEF ControlInv, StaysQuarantined, CoolDown

-----------------------------------------------------------------------------
(* Participants *)

SyncStates == {"none", "pending", "running", "reported", "ready"}

(* A step of the main thread outside its poll that edits the tables.       *)
LEMMA EditKeeps ==
    ASSUME ControlInv, Edits(db, db'), db'.sync.state = "none" <=> db'.sync.gen = 0,
           db'.sched.state = db.sched.state,
           UNCHANGED <<backend, provider, history, topology, outbox, live, call, budget>>,
           main' \in Thread(MainPlaces),
           main' = main \/ main'.pc \notin {"batch", "snapshot", "stamped", "answered"},
           ListsAreCurrent'
    PROVE  ControlInv' /\ StaysQuarantined
<1> USE DEF backend, provider, history
<1>1. TypeOK /\ Placed /\ Refused
  BY DEF ControlInv
<1>2. TypeOK'
  BY <1>1 DEF TypeOK, Edits
<1>3. GrowingLog(log)' /\ Sound(db)' /\ Polled'
  BY <1>2, EditedTables
<1>4. Placed'
  BY <1>1, SamePlaced
<1>5. Refused'
  BY <1>1, SameRefused DEF Edits
<1>. QED
  BY <1>2, <1>3, <1>4, <1>5 DEF ControlInv, StaysQuarantined

LEMMA SyncEdit ==
    ASSUME NEW d \in Tables,
           NEW sync \in [gen : Nat, state : SyncStates, asof : Nat],
           NEW x, x = [d EXCEPT !.sync = sync]
    PROVE  Edits(d, x) /\ x.sync = sync /\ x.sched = d.sched
BY DEF Edits, Tables, SyncStates

LEMMA SchedStateEdit ==
    ASSUME NEW d \in Tables, NEW state \in {"ready", "backoff", "auth_required"},
           NEW x, x = [d EXCEPT !.sched.state = state]
    PROVE  Edits(d, x) /\ x.sync = d.sync /\ x.sched.state = state
BY DEF Edits, Tables

LEMMA ReconcileParticipantsKeeps ==
    ASSUME ControlInv, ReconcileParticipants
    PROVE  ControlInv' /\ StaysQuarantined
<1>1. TypeOK /\ ListsAreCurrent /\ db \in Tables /\ main \in Thread(MainPlaces)
  BY DEF ControlInv, TypeOK
<1> DEFINE sync == [gen |-> db.chat.gen, state |-> "pending", asof |-> 0]
<1>2. sync \in [gen : Nat, state : SyncStates, asof : Nat]
  BY <1>1 DEF Tables, SyncStates
<1>3. db' = [db EXCEPT !.sync = sync] /\ sync.state = "pending" /\ sync.gen # 0
  BY DEF ReconcileParticipants
<1> HIDE DEF sync
<1>4. Edits(db, db') /\ db'.sync = sync /\ db'.sched = db.sched
  BY <1>1, <1>2, <1>3, SyncEdit
<1>5. ListsAreCurrent'
  BY <1>1, <1>3, <1>4, SameLists DEF ReconcileParticipants, provider, history
<1>. QED
  BY <1>1, <1>3, <1>4, <1>5, EditKeeps DEF ReconcileParticipants

LEMMA ReleasedSync ==
    ASSUME NEW d \in Tables, d.sync.state = "none" <=> d.sync.gen = 0
    PROVE  /\ Edits(d, Released(d)) /\ Released(d).sched = d.sched
           /\ Released(d).sync.state = "none" <=> Released(d).sync.gen = 0
           /\ \/ Released(d).sync = d.sync
              \/ Released(d).sync.state = "pending"
           /\ Released(d).sync.state # "running"
<1>1. CASE d.sync.state = "running"
  <2>1. Released(d) = [d EXCEPT !.sync.state = "pending"]
    BY <1>1 DEF Released
  <2> DEFINE x == Released(d)
  <2>x. x = [d EXCEPT !.sync.state = "pending"]
    BY <2>1
  <2> HIDE DEF x
  <2>2. /\ Edits(d, x) /\ x.sched = d.sched
        /\ x.sync.state = "pending" /\ x.sync.gen = d.sync.gen
    BY <2>x DEF Edits, Tables
  <2> USE DEF x
  <2>. QED
    BY <1>1, <2>2
<1>2. CASE d.sync.state # "running"
  <2>1. Released(d) = d
    BY <1>2 DEF Released
  <2>. QED
    BY <1>2, <2>1 DEF Edits
<1>. QED
  BY <1>1, <1>2

LEMMA ClaimParticipantsKeeps ==
    ASSUME ControlInv, ClaimParticipants
    PROVE  ControlInv' /\ StaysQuarantined
<1>1. /\ TypeOK /\ ListsAreCurrent /\ db \in Tables /\ main \in Thread(MainPlaces)
      /\ db.sync.gen # 0
  BY DEF ControlInv, TypeOK, ClaimParticipants
<1>2. CASE db.registered
  <2>1. /\ db' = [db EXCEPT !.sync.state = "running"]
        /\ main' = [main EXCEPT !.pc = "claimed",
                        !.job = [gen |-> db.chat.gen, members |-> db.chat.content.members]]
    BY <1>2 DEF ClaimParticipants
  <2>2. /\ Edits(db, db') /\ db'.sched = db.sched
        /\ db'.sync.state = "running" /\ db'.sync.gen = db.sync.gen
    BY <1>1, <2>1 DEF Edits, Tables
  <2>3. main' \in Thread(MainPlaces) /\ main'.pc = "claimed"
    <3>1. [gen |-> db.chat.gen, members |-> db.chat.content.members]
              \in [gen : Nat, members : SUBSET Users]
      BY <1>1 DEF Tables, Content
    <3>. QED
      BY <1>1, <2>1, <3>1 DEF Thread, MainPlaces
  <2>4. ListsAreCurrent'
    BY <1>1, <2>2, <2>3 DEF ListsAreCurrent, ClaimParticipants, provider, history, Holding
  <2>. QED
    BY <1>1, <2>2, <2>3, <2>4, EditKeeps DEF ClaimParticipants
<1>3. CASE ~ db.registered
  <2>1. /\ db' = [db EXCEPT !.sync.state = "pending"]
        /\ main' = main
    BY <1>3 DEF ClaimParticipants
  <2>2. /\ Edits(db, db') /\ db'.sched = db.sched
        /\ db'.sync.state = "pending" /\ db'.sync.gen = db.sync.gen
    BY <1>1, <2>1 DEF Edits, Tables
  <2>3. ListsAreCurrent'
    BY <1>1, <2>1, <2>2, SameLists DEF ClaimParticipants, provider, history
  <2>. QED
    BY <1>1, <2>1, <2>2, <2>3, EditKeeps DEF ClaimParticipants
<1>. QED
  BY <1>2, <1>3

LEMMA ReapParticipantsKeeps ==
    ASSUME ControlInv, ReapParticipants
    PROVE  ControlInv' /\ StaysQuarantined
<1>1. /\ TypeOK /\ ListsAreCurrent /\ db \in Tables /\ main \in Thread(MainPlaces)
      /\ db.sync.state = "none" <=> db.sync.gen = 0
      /\ db' = Released(db) /\ main' = main
  BY DEF ControlInv, TypeOK, ReapParticipants
<1>2. /\ Edits(db, db') /\ db'.sched = db.sched
      /\ db'.sync.state = "none" <=> db'.sync.gen = 0
      /\ db'.sync = db.sync \/ db'.sync.state = "pending"
  BY <1>1, ReleasedSync
<1>3. ListsAreCurrent'
  BY <1>1, <1>2, SameLists DEF ReapParticipants, provider, history
<1>. QED
  BY <1>1, <1>2, <1>3, EditKeeps DEF ReapParticipants

(* A call of the main thread that failed: the row is released and the      *)
(* breaker moves.                                                          *)
LEMMA FailedCall ==
    ASSUME ControlInv, NEW answer \in {"auth", "retry"},
           db' = Recorded(Released(db), db.account.gen, answer), main' = Idle,
           refused' = refused \cup (IF answer = "auth" THEN {db.account.gen} ELSE {}),
           budget' \in [Counters -> Nat],
           UNCHANGED <<backend, provider, noticed, topology, outbox, live, call>>
    PROVE  ControlInv' /\ StaysQuarantined
<1> USE DEF backend, provider
<1>1. /\ TypeOK /\ Sound(db) /\ Placed /\ ListsAreCurrent /\ Refused
      /\ db \in Tables /\ db.account.gen \in Nat
      /\ db.sync.state = "none" <=> db.sync.gen = 0
  BY DEF ControlInv, TypeOK, Tables
<1> DEFINE d == Released(db)
           gen == db.account.gen
<1>2. /\ Edits(db, d) /\ d.sched = db.sched
      /\ d.sync.state = "none" <=> d.sync.gen = 0
      /\ d.sync = db.sync \/ d.sync.state = "pending"
  BY <1>1, ReleasedSync
<1>3. Sound(d) /\ d \in Tables /\ db' = Recorded(d, gen, answer) /\ gen \in Nat
  BY <1>1, <1>2, SameSound DEF Edits
<1> HIDE DEF d, gen
<1>4. PICK state \in {"ready", "backoff", "auth_required"} :
          /\ Recorded(d, gen, answer) = [d EXCEPT !.sched.state = state]
          /\ state = "auth_required" =>
                \/ d.sched.state = "auth_required"
                \/ answer = "auth" /\ gen = d.sched.gen
          /\ d.sched.state = "auth_required" => state = "auth_required"
  BY <1>3, RecordedState
<1>5. Edits(d, db') /\ db'.sync = d.sync /\ db'.sched.state = state
  BY <1>3, <1>4, SchedStateEdit
<1>6. Edits(db, db')
  BY <1>2, <1>5 DEF Edits
<1>7. main' \in Thread(MainPlaces) /\ main'.pc = "idle"
  BY IdleThread
<1>8. refused \subseteq refused' /\ refused' \subseteq Nat
  BY <1>1 DEF TypeOK
<1>9. TypeOK'
  BY <1>1, <1>2, <1>5, <1>7, <1>8 DEF TypeOK, Edits
<1>10. GrowingLog(log)' /\ Sound(db)' /\ Polled'
  BY <1>6, <1>7, <1>9, EditedTables
<1>11. Placed'
  BY <1>1, <1>7, SamePlaced
<1>12. ListsAreCurrent'
  BY <1>1, <1>2, <1>5, <1>7, SameLists DEF Holding
<1>13. Refused'
  <2>1. db'.sched.state = "auth_required" => db'.sched.gen \in refused'
    BY <1>1, <1>2, <1>4, <1>5, <1>8 DEF Refused, Edits, gen
  <2>. QED
    BY <1>1, <1>8, <2>1 DEF Refused
<1>14. StaysQuarantined
  BY <1>2, <1>4, <1>5 DEF StaysQuarantined
<1>. QED
  BY <1>9, <1>10, <1>11, <1>12, <1>13, <1>14 DEF ControlInv

LEMMA FetchParticipantsKeeps ==
    ASSUME ControlInv, FetchParticipants
    PROVE  ControlInv' /\ StaysQuarantined
<1>1. /\ TypeOK /\ ListsAreCurrent /\ db \in Tables /\ main \in Thread(MainPlaces)
      /\ zulip \in [members : SUBSET Users, version : Nat]
      /\ db.sync.state = "none" <=> db.sync.gen = 0
      /\ UNCHANGED <<backend, provider, noticed, topology, outbox, live, call>>
  BY DEF ControlInv, TypeOK, FetchParticipants
<1>2. CASE /\ main' = [main EXCEPT !.pc = "fetched", !.gen = db.account.gen,
                           !.content.members = zulip.members, !.asof = zulip.version]
           /\ UNCHANGED <<db, refused, budget>>
  <2>1. main' \in Thread(MainPlaces) /\ main'.pc = "fetched" /\ main'.asof = zulip.version
    <3>1. [main.content EXCEPT !.members = zulip.members] \in Content
      BY <1>1 DEF Thread, Content
    <3>2. db.account.gen \in Nat /\ zulip.version \in Nat
      BY <1>1 DEF Tables
    <3>. QED
      BY <1>1, <1>2, <3>1, <3>2 DEF Thread, MainPlaces
  <2>2. ListsAreCurrent'
    BY <1>1, <1>2, <2>1 DEF ListsAreCurrent, provider
  <2>3. Edits(db, db') /\ db'.sched.state = db.sched.state
        /\ (db'.sync.state = "none" <=> db'.sync.gen = 0)
    BY <1>1, <1>2, UneditedTables
  <2>. QED
    BY <1>1, <1>2, <2>1, <2>2, <2>3, EditKeeps DEF history
<1>3. CASE /\ refused' = refused \cup {db.account.gen}
           /\ db' = Recorded(Released(db), db.account.gen, "auth")
           /\ main' = Idle
           /\ UNCHANGED budget
  BY <1>1, <1>3, FailedCall DEF TypeOK
<1>4. CASE /\ Spend("faults")
           /\ db' = Recorded(Released(db), db.account.gen, "retry")
           /\ main' = Idle
           /\ UNCHANGED refused
  <2>1. budget' \in [Counters -> Nat]
    BY <1>1, <1>4, Spent DEF Counters
  <2>. QED
    BY <1>1, <1>4, <2>1, FailedCall
<1>. QED
  BY <1>2, <1>3, <1>4 DEF FetchParticipants

(* A step of the main thread in the middle of a refresh.                   *)
LEMMA HoldingKeeps ==
    ASSUME ControlInv, main.pc \in Holding, main' \in Thread(MainPlaces),
           main'.pc \in Holding, main'.asof = main.asof,
           main'.pc = "stamped" => HasPlace(outbox', "main"),
           topology' \in Content, outbox' \in Seq(Rows),
           HasPlace(outbox, "live") => HasPlace(outbox', "live"),
           UNCHANGED <<backend, provider, history, db, live, call, budget>>
    PROVE  ControlInv' /\ StaysQuarantined
<1> USE DEF backend, provider, history
<1>1. TypeOK /\ Placed /\ ListsAreCurrent /\ Refused
  BY DEF ControlInv
<1>2. TypeOK'
  BY <1>1 DEF TypeOK
<1>3. main'.pc \notin {"batch", "snapshot", "answered"}
  BY DEF Holding
<1>4. GrowingLog(log)' /\ Sound(db)' /\ Polled'
  BY <1>2, <1>3, UneditedTables, EditedTables
<1>5. Placed'
  BY <1>1, <1>3 DEF Placed
<1>6. ListsAreCurrent' /\ Refused'
  BY <1>1, SameLists, SameRefused
<1>. QED
  BY <1>2, <1>4, <1>5, <1>6 DEF ControlInv, StaysQuarantined

LEMMA RefreshKeeps ==
    ASSUME ControlInv, MergeParticipants \/ StampParticipants \/ ReportParticipants
    PROVE  ControlInv' /\ StaysQuarantined
<1>1. /\ TypeOK /\ Placed /\ main \in Thread(MainPlaces) /\ topology \in Content
      /\ outbox \in Seq(Rows)
      /\ UNCHANGED <<backend, provider, history, db, live, call, budget>>
  BY DEF ControlInv, TypeOK, MergeParticipants, StampParticipants, ReportParticipants
<1>2. main.gen \in Nat /\ main.content \in Content
  BY <1>1 DEF Thread
<1>3. CASE MergeParticipants
  <2>1. main.pc = "fetched" /\ outbox' = outbox
    BY <1>3 DEF MergeParticipants
  <2>2. topology' \in Content
    BY <1>1, <1>2, <1>3 DEF MergeParticipants, Content
  <2>3. main' \in Thread(MainPlaces) /\ main'.pc = "merged" /\ main'.asof = main.asof
    <3>1. main' = [main EXCEPT !.pc = "merged", !.content = topology']
      BY <1>3 DEF MergeParticipants
    <3>. QED
      BY <1>1, <2>2, <3>1 DEF Thread, MainPlaces
  <2>4. main.pc \in Holding /\ main'.pc \in Holding
    BY <2>1, <2>3 DEF Holding
  <2>. QED
    BY <1>1, <2>1, <2>2, <2>3, <2>4, HoldingKeeps
<1>4. CASE StampParticipants
  <2>1. /\ main.pc = "merged" /\ topology' = topology
        /\ outbox' = Stamped(outbox, "main", main.gen, main.content)
        /\ main' = [main EXCEPT !.pc = "stamped"]
    BY <1>4 DEF StampParticipants
  <2>2. /\ outbox' \in Seq(Rows) /\ KeepsPlaces(outbox, outbox')
        /\ HasPlace(outbox', "main")
    BY <1>1, <1>2, <2>1, StampedRows
  <2>3. HasPlace(outbox, "live") => HasPlace(outbox', "live")
    BY <2>2, PlacesKept
  <2>4. main' \in Thread(MainPlaces) /\ main'.pc = "stamped" /\ main'.asof = main.asof
    BY <1>1, <2>1 DEF Thread, MainPlaces
  <2>5. main.pc \in Holding /\ main'.pc \in Holding
    BY <2>1, <2>4 DEF Holding
  <2>. QED
    BY <1>1, <2>1, <2>2, <2>3, <2>4, <2>5, HoldingKeeps
<1>5. CASE ReportParticipants
  <2>1. /\ main.pc = "stamped" /\ topology' = topology
        /\ outbox' = Enqueued("main")
        /\ main' = [main EXCEPT !.pc = "complete"]
    BY <1>5 DEF ReportParticipants
  <2>2. HasPlace(outbox, "main")
    BY <1>1, <2>1 DEF Placed
  <2>3. /\ outbox' \in Seq(Rows)
        /\ HasPlace(outbox, "live") => HasPlace(outbox', "live")
    BY <1>1, <2>1, <2>2, EnqueuedRows
  <2>4. main' \in Thread(MainPlaces) /\ main'.pc = "complete" /\ main'.asof = main.asof
    BY <1>1, <2>1 DEF Thread, MainPlaces
  <2>5. main.pc \in Holding /\ main'.pc \in Holding
    BY <2>1, <2>4 DEF Holding
  <2>. QED
    BY <1>1, <2>1, <2>3, <2>4, <2>5, HoldingKeeps
<1>. QED
  BY <1>3, <1>4, <1>5

LEMMA CompleteParticipantsKeeps ==
    ASSUME ControlInv, CompleteParticipants
    PROVE  ControlInv' /\ StaysQuarantined
<1> USE DEF backend, provider, history
<1>1. /\ TypeOK /\ Sound(db) /\ Placed /\ ListsAreCurrent /\ Refused
      /\ db \in Tables /\ main \in Thread(MainPlaces)
      /\ db.sync.state = "none" <=> db.sync.gen = 0
  BY DEF ControlInv, TypeOK
<1>2. /\ main.pc = "complete" /\ main' = Idle
      /\ db' = Recorded(Completed(db), main.gen, "ok")
      /\ UNCHANGED <<backend, provider, history, topology, outbox, live, call, budget>>
  BY DEF CompleteParticipants
<1> DEFINE d == Completed(db)
           gen == main.gen
<1>3. /\ Edits(db, d) /\ d.sched = db.sched
      /\ d.sync.state = "none" <=> d.sync.gen = 0
      /\ d.sync = db.sync \/ (db.sync.state = "running" /\ d.sync.asof = main.asof)
      /\ d.sync # db.sync => d.sync.state \in {"ready", "reported"}
  <2>1. CASE db.sync.gen = main.job.gen /\ db.sync.state = "running"
    <3> DEFINE state == IF main.content.members = main.job.members
                        THEN "ready" ELSE "reported"
    <3>1. d = [db EXCEPT !.sync.state = state, !.sync.asof = main.asof]
      BY <2>1 DEF Completed
    <3>2. state \in {"ready", "reported"} /\ main.asof \in Nat
      BY <1>1 DEF Thread
    <3> HIDE DEF state, d
    <3>3. Edits(db, d) /\ d.sched = db.sched
      BY <1>1, <3>1, <3>2 DEF Edits, Tables
    <3>4. d.sync.state = state /\ d.sync.asof = main.asof /\ d.sync.gen = db.sync.gen
      BY <1>1, <3>1 DEF Tables
    <3>. QED
      BY <1>1, <2>1, <3>2, <3>3, <3>4
  <2>2. CASE ~ (db.sync.gen = main.job.gen /\ db.sync.state = "running")
    <3>1. d = db
      BY <2>2 DEF Completed
    <3>. QED
      BY <1>1, <3>1 DEF Edits
  <2>. QED
    BY <2>1, <2>2
<1>4. /\ Sound(d) /\ d \in Tables /\ db' = Recorded(d, gen, "ok") /\ gen \in Nat
      /\ "ok" \in {"none", "ok", "auth", "retry"}
  BY <1>1, <1>2, <1>3, SameSound DEF Edits, Thread
<1> HIDE DEF d, gen
<1>5. PICK state \in {"ready", "backoff", "auth_required"} :
          /\ Recorded(d, gen, "ok") = [d EXCEPT !.sched.state = state]
          /\ state = "auth_required" =>
                \/ d.sched.state = "auth_required"
                \/ "ok" = "auth" /\ gen = d.sched.gen
          /\ d.sched.state = "auth_required" => state = "auth_required"
  BY <1>4, RecordedState
<1>6. Edits(d, db') /\ db'.sync = d.sync /\ db'.sched.state = state
  BY <1>4, <1>5, SchedStateEdit
<1>7. Edits(db, db') /\ db'.sched.gen = db.sched.gen
  BY <1>3, <1>6 DEF Edits
<1>8. main' \in Thread(MainPlaces) /\ main'.pc = "idle"
  BY <1>2, IdleThread
<1>9. TypeOK'
  BY <1>1, <1>2, <1>3, <1>6, <1>8 DEF TypeOK, Edits
<1>10. GrowingLog(log)' /\ Sound(db)' /\ Polled'
  BY <1>2, <1>7, <1>8, <1>9, EditedTables
<1>11. Placed'
  BY <1>1, <1>2, <1>8, SamePlaced
<1>12. ListsAreCurrent'
  <2>1. main.pc \in Holding
    BY <1>2 DEF Holding
  <2>. QED
    BY <1>1, <1>2, <1>3, <1>6, <1>8, <2>1 DEF ListsAreCurrent, Holding
<1>13. Refused'
  BY <1>1, <1>2, <1>3, <1>5, <1>6, <1>7 DEF Refused
<1>14. StaysQuarantined
  BY <1>3, <1>5, <1>6 DEF StaysQuarantined
<1>. QED
  BY <1>9, <1>10, <1>11, <1>12, <1>13, <1>14 DEF ControlInv

-----------------------------------------------------------------------------
(* The live thread *)

(* A step that edits the tables' event, and has the live thread go on.     *)
LEMMA LiveKeeps ==
    ASSUME ControlInv, NEW event \in {"none", "waiting", "marked", "invalid", "served"},
           db' = [db EXCEPT !.event = event],
           live' \in Thread(LivePlaces),
           live' = live \/ (live'.pc = "stamped" => HasPlace(outbox', "live")),
           topology' \in Content, outbox' \in Seq(Rows),
           HasPlace(outbox, "main") => HasPlace(outbox', "main"),
           live' = live => outbox' = outbox,
           budget' \in [Counters -> Nat],
           UNCHANGED <<backend, provider, history, main, call>>
    PROVE  ControlInv' /\ StaysQuarantined
<1> USE DEF backend, provider, history
<1>1. TypeOK /\ Placed /\ ListsAreCurrent /\ Refused /\ db \in Tables
  BY DEF ControlInv, TypeOK
<1>2. Edits(db, db') /\ db'.sync = db.sync /\ db'.sched = db.sched
  BY <1>1 DEF Edits, Tables
<1>3. TypeOK'
  BY <1>1, <1>2 DEF TypeOK, Edits
<1>4. GrowingLog(log)' /\ Sound(db)' /\ Polled'
  BY <1>2, <1>3, EditedTables
<1>5. Placed'
  BY <1>1 DEF Placed
<1>6. ListsAreCurrent' /\ Refused'
  BY <1>1, <1>2, SameLists, SameRefused
<1>. QED
  BY <1>2, <1>3, <1>4, <1>5, <1>6 DEF ControlInv, StaysQuarantined

LEMMA SameEvent ==
    ASSUME NEW d \in Tables
    PROVE  /\ d = [d EXCEPT !.event = d.event]
           /\ d.event \in {"none", "waiting", "marked", "invalid", "served"}
BY DEF Tables

LEMMA ProcessMessageKeeps ==
    ASSUME ControlInv, ProcessMessage
    PROVE  ControlInv' /\ StaysQuarantined
<1>1. /\ TypeOK /\ Placed /\ db \in Tables /\ live \in Thread(LivePlaces)
      /\ topology \in Content /\ outbox \in Seq(Rows) /\ budget \in [Counters -> Nat]
      /\ UNCHANGED <<backend, provider, history, main, call, budget>>
  BY DEF ControlInv, TypeOK, ProcessMessage, TakeMessage, MergeTopic, StampTopic,
         ReportTopic, ConvertMessage
<1>2. /\ live.gen \in Nat /\ live.content \in Content /\ db.account.gen \in Nat
      /\ db = [db EXCEPT !.event = db.event]
      /\ db.event \in {"none", "waiting", "marked", "invalid", "served"}
  BY <1>1, SameEvent DEF Thread, Tables
<1>3. CASE TakeMessage
  <2>1. topology' = topology /\ outbox' = outbox
    BY <1>3 DEF TakeMessage
  <2>2. CASE live' = [live EXCEPT !.pc = "convert"] /\ UNCHANGED db
    <3>1. live' \in Thread(LivePlaces) /\ live'.pc = "convert"
      BY <1>1, <2>2 DEF Thread, LivePlaces
    <3>. QED
      BY <1>1, <1>2, <2>1, <2>2, <3>1, LiveKeeps
  <2>3. CASE live' = [live EXCEPT !.pc = "read", !.gen = db.account.gen] /\ UNCHANGED db
    <3>1. live' \in Thread(LivePlaces) /\ live'.pc = "read"
      BY <1>1, <1>2, <2>3 DEF Thread, LivePlaces
    <3>. QED
      BY <1>1, <1>2, <2>1, <2>3, <3>1, LiveKeeps
  <2>4. CASE db' = [db EXCEPT !.event = "invalid"] /\ UNCHANGED live
    BY <1>1, <2>1, <2>4, LiveKeeps
  <2>. QED
    BY <1>3, <2>2, <2>3, <2>4 DEF TakeMessage
<1>4. CASE MergeTopic
  <2>1. outbox' = outbox /\ db' = db
    BY <1>4 DEF MergeTopic
  <2>2. topology' \in Content
    BY <1>1, <1>4 DEF MergeTopic, Content
  <2>3. live' \in Thread(LivePlaces) /\ live'.pc = "merged"
    <3>1. live' = [live EXCEPT !.pc = "merged", !.content = topology']
      BY <1>4 DEF MergeTopic
    <3>. QED
      BY <1>1, <2>2, <3>1 DEF Thread, LivePlaces
  <2>. QED
    BY <1>1, <1>2, <2>1, <2>2, <2>3, LiveKeeps
<1>5. CASE StampTopic
  <2>1. /\ db' = db /\ topology' = topology /\ live.pc = "merged"
        /\ outbox' = Stamped(outbox, "live", live.gen, live.content)
        /\ live' = [live EXCEPT !.pc = "stamped"]
    BY <1>5 DEF StampTopic
  <2>2. /\ outbox' \in Seq(Rows) /\ KeepsPlaces(outbox, outbox')
        /\ HasPlace(outbox', "live")
    BY <1>1, <1>2, <2>1, StampedRows
  <2>3. HasPlace(outbox, "main") => HasPlace(outbox', "main")
    BY <2>2, PlacesKept
  <2>4. live' \in Thread(LivePlaces) /\ live'.pc = "stamped"
    BY <1>1, <2>1 DEF Thread, LivePlaces
  <2>5. live' # live
    BY <2>1, <2>4
  <2>. QED
    BY <1>1, <1>2, <2>1, <2>2, <2>3, <2>4, <2>5, LiveKeeps
<1>6. CASE ReportTopic
  <2> DEFINE event == IF db.event = "waiting" /\ Durable("live") THEN "marked" ELSE db.event
  <2>1. /\ live.pc = "stamped" /\ topology' = topology
        /\ outbox' = Enqueued("live")
        /\ live' = [live EXCEPT !.pc = "convert"]
        /\ db' = [db EXCEPT !.event = event]
    BY <1>6 DEF ReportTopic
  <2>2. HasPlace(outbox, "live") /\ event \in {"none", "waiting", "marked", "invalid", "served"}
    BY <1>1, <1>2, <2>1 DEF Placed
  <2>3. /\ outbox' \in Seq(Rows)
        /\ HasPlace(outbox, "main") => HasPlace(outbox', "main")
    BY <1>1, <2>1, <2>2, EnqueuedRows
  <2>4. live' \in Thread(LivePlaces) /\ live'.pc = "convert"
    BY <1>1, <2>1 DEF Thread, LivePlaces
  <2>5. live' # live
    BY <2>1, <2>4
  <2> HIDE DEF event
  <2>. QED
    BY <1>1, <2>1, <2>2, <2>3, <2>4, <2>5, LiveKeeps
<1>7. CASE ConvertMessage
  <2> DEFINE event == IF db.event \in {"waiting", "marked"} /\ Topic \in db.mapped
                      THEN "served" ELSE db.event
  <2>1. /\ topology' = topology /\ outbox' = outbox /\ live' = Idle
        /\ db' = [db EXCEPT !.event = event]
    BY <1>7 DEF ConvertMessage
  <2>2. event \in {"none", "waiting", "marked", "invalid", "served"}
    BY <1>2
  <2>3. live' \in Thread(LivePlaces) /\ live'.pc = "idle"
    BY <2>1, IdleThread
  <2> HIDE DEF event
  <2>. QED
    BY <1>1, <2>1, <2>2, <2>3, LiveKeeps
<1>. QED
  BY <1>3, <1>4, <1>5, <1>6, <1>7 DEF ProcessMessage

LEMMA InvalidateParticipantsKeeps ==
    ASSUME ControlInv, InvalidateParticipants
    PROVE  ControlInv' /\ StaysQuarantined
<1> USE DEF backend
<1>1. /\ TypeOK /\ Placed /\ ListsAreCurrent /\ Refused /\ db \in Tables
      /\ db.sync.state = "none" <=> db.sync.gen = 0
      /\ peer \in Nat /\ zulip.version \in Nat
  BY DEF ControlInv, TypeOK
<1>2. /\ db' = Invalidated(db) /\ noticed' = peer /\ peer' = 0
      /\ log' = log /\ outbox' = outbox /\ main' = main /\ live' = live /\ call' = call
      /\ zulip' = zulip /\ refused' = refused
  BY DEF InvalidateParticipants
<1>3. /\ Edits(db, db') /\ db'.sched = db.sched /\ db'.sync.gen = db.sync.gen
      /\ db'.sync.state = IF db.sync.state = "none" THEN "none" ELSE "pending"
  <2>1. CASE db.sync.state = "none"
    BY <1>1, <1>2, <2>1 DEF Invalidated, Edits
  <2>2. CASE db.sync.state # "none"
    <3>1. db' = [db EXCEPT !.sync.state = "pending"]
      BY <1>2, <2>2 DEF Invalidated
    <3>. QED
      BY <1>1, <2>2, <3>1 DEF Edits, Tables
  <2>. QED
    BY <2>1, <2>2
<1>4. TypeOK'
  BY <1>1, <1>2, <1>3 DEF TypeOK, Edits, InvalidateParticipants
<1>5. GrowingLog(log)' /\ Sound(db)' /\ Polled'
  BY <1>2, <1>3, <1>4, EditedTables
<1>6. Placed' /\ Refused'
  BY <1>1, <1>2, <1>3, SamePlaced, SameRefused
<1>7. ListsAreCurrent'
  BY <1>1, <1>2, <1>3 DEF ListsAreCurrent
<1>. QED
  BY <1>3, <1>4, <1>5, <1>6, <1>7 DEF ControlInv, StaysQuarantined

-----------------------------------------------------------------------------
(* Around the bridge *)

LEMMA BackendKeeps ==
    ASSUME ControlInv, Extends(log', log), floor' \in 0..Len(log'), good' \subseteq Nat,
           budget' \in [Counters -> Nat],
           UNCHANGED <<zulip, peer, history, db, topology, outbox, main, live, call>>
    PROVE  ControlInv' /\ StaysQuarantined
<1> USE DEF history
<1>1. TypeOK /\ Placed /\ ListsAreCurrent /\ Refused
  BY DEF ControlInv
<1>2. /\ GrowingLog(log)' /\ Sound(db)' /\ Polled'
      /\ log' \in Seq(Change) /\ db.cursor <= Len(log')
  BY GrownLog
<1>3. TypeOK'
  BY <1>1, <1>2 DEF TypeOK
<1>4. Placed' /\ ListsAreCurrent' /\ Refused'
  BY <1>1, SamePlaced, SameLists, SameRefused
<1>. QED
  BY <1>2, <1>3, <1>4 DEF ControlInv, StaysQuarantined

LEMMA RequestedReset ==
    ASSUME GrowingLog(log),
           log' = log \o <<Account(AccountNow.gen + 1, AccountNow.reset + 1),
                           Chat(ChatNow.gen + 1, ChatNow.content)>>
    PROVE  Extends(log', log)
<1> DEFINE a == Account(AccountNow.gen + 1, AccountNow.reset + 1)
           c == Chat(ChatNow.gen + 1, ChatNow.content)
           l == Append(log, a)
           n == Len(log)
<1>1. /\ ChatNow = NewestIn(log, "chat", n) /\ ChatNow.content \in Content
      /\ AccountNow.reset \in Nat /\ ChatNow.gen \in Nat /\ AccountNow.gen \in Nat
  BY BackendNow
<1>2. /\ a \in Change /\ NextChange(log, a) /\ c \in Change
      /\ a.of = "account" /\ c.of = "chat" /\ c.gen = ChatNow.gen + 1
  <2>1. AccountNow.reset + 1 \in Nat /\ AccountNow.reset + 1 >= AccountNow.reset
    <3>1. \A r \in Nat : r + 1 \in Nat /\ r + 1 >= r
      OBVIOUS
    <3>. QED
      BY <1>1, <3>1
  <2>3. a \in Change /\ NextChange(log, a)
    BY <2>1, NextAccount
  <2>4. c \in Change
    BY <1>1, NextChat
  <2>5. a.of = "account" /\ c.of = "chat" /\ c.gen = ChatNow.gen + 1
    BY DEF Account, Chat
  <2>. QED
    BY <2>3, <2>4, <2>5
<1>3. log \in Seq(Change) /\ n \in Nat /\ n \in 2..n
  BY DEF GrowingLog
<1>4. log' = Append(l, c)
  <2>1. log' = log \o <<a, c>>
    OBVIOUS
  <2> HIDE DEF a, c
  <2>. QED
    BY <1>2, <1>3, <2>1
<1> HIDE DEF a, c
<1>5. /\ GrowingLog(l) /\ Len(l) = n + 1 /\ \A i \in 1..n : l[i] = log[i]
  BY <1>2, LogGrows
<1>6. l[n + 1] = a
  BY <1>2, <1>3
<1> HIDE DEF l
<1>7. NewestIn(l, "chat", Len(l)) = ChatNow
  <2>1. n \in 2..Len(l) /\ n + 1 <= Len(l)
    BY <1>3, <1>5
  <2>2. NewestIn(l, "chat", n) = NewestIn(log, "chat", n)
    <3>1. n \in 2..Len(log) /\ n <= Len(l)
      BY <1>3, <1>5
    <3>. QED
      BY <1>5, <3>1, NewestPrefix DEF Kinds
  <2>3. NewestIn(l, "chat", n + 1) = NewestIn(l, "chat", n)
    BY <1>2, <1>5, <1>6, <2>1, NewestStep DEF Kinds
  <2>. QED
    BY <1>1, <1>5, <2>2, <2>3
<1>8. NextChange(l, c)
  BY <1>2, <1>7 DEF NextChange
<1>9. /\ GrowingLog(log') /\ Len(log') = Len(l) + 1
      /\ \A i \in 1..Len(l) : log'[i] = l[i]
  BY <1>2, <1>4, <1>5, <1>8, LogGrows
<1>10. \A i \in 1..n : i \in 1..Len(l) /\ log'[i] = log[i]
  <2>1. \A i \in 1..n : i \in 1..Len(l)
    BY <1>3, <1>5
  <2>. QED
    BY <1>5, <1>9, <2>1
<1>. QED
  BY <1>3, <1>5, <1>9, <1>10 DEF Extends

LEMMA BackendStepKeeps ==
    ASSUME ControlInv,
           Reconnect \/ RequestReset \/ Revoke \/ WithdrawTopic \/ AddUnsupported \/ ExpireCursor
    PROVE  ControlInv' /\ StaysQuarantined
<1> USE DEF backend, provider, history
<1>1. /\ TypeOK /\ GrowingLog(log) /\ good \subseteq Nat /\ floor \in 0..Len(log)
      /\ budget \in [Counters -> Nat] /\ Len(log) \in Nat
  BY DEF ControlInv, TypeOK, GrowingLog
<1>2. /\ AccountNow.gen \in Nat /\ AccountNow.reset \in Nat
      /\ ChatNow.gen \in Nat /\ ChatNow.content \in Content
  BY <1>1, BackendNow
<1>3. UNCHANGED <<zulip, peer, history, db, topology, outbox, main, live, call>>
  BY DEF Reconnect, RequestReset, Revoke, WithdrawTopic, AddUnsupported, ExpireCursor
<1>4. budget' \in [Counters -> Nat]
  BY <1>1, Spent DEF Reconnect, RequestReset, Revoke, WithdrawTopic, AddUnsupported,
     ExpireCursor, Counters
<1>5. good' \subseteq Nat
  <2>1. AccountNow.gen + 1 \in Nat
    BY <1>2
  <2>2. CASE Reconnect
    BY <1>1, <2>1, <2>2 DEF Reconnect
  <2>3. CASE RequestReset
    BY <1>1, <2>1, <2>3 DEF RequestReset
  <2>4. CASE Revoke
    BY <1>1, <2>4 DEF Revoke
  <2>5. CASE WithdrawTopic \/ AddUnsupported \/ ExpireCursor
    BY <1>1, <2>5 DEF WithdrawTopic, AddUnsupported, ExpireCursor
  <2>. QED
    BY <2>2, <2>3, <2>4, <2>5
<1>6. Extends(log', log)
  <2>1. CASE log' = log
    BY <1>1, <2>1, SameLog
  <2>2. CASE Reconnect
    <3>1. AccountNow.reset >= AccountNow.reset
      BY <1>2
    <3>. QED
      BY <1>1, <1>2, <2>2, <3>1, NextAccount, AppendedChange DEF Reconnect
  <2>3. CASE RequestReset
    BY <1>1, <2>3, RequestedReset DEF RequestReset
  <2>4. CASE WithdrawTopic
    <3> DEFINE content == [ChatNow.content EXCEPT !.topics = {}]
    <3>1. content \in Content
      BY <1>2 DEF Content
    <3>2. log' = Append(log, Chat(ChatNow.gen + 1, content))
      BY <2>4 DEF WithdrawTopic
    <3> HIDE DEF content
    <3>. QED
      BY <1>1, <3>1, <3>2, NextChat, AppendedChange
  <2>5. CASE AddUnsupported
    <3>1. Unsupported \in Change /\ Unsupported.of = "unsupported"
      BY MadeChanges, 1 \in Nat
    <3>2. NextChange(log, Unsupported) /\ log' = Append(log, Unsupported)
      BY <2>5, <3>1 DEF NextChange, AddUnsupported
    <3>. QED
      BY <1>1, <3>1, <3>2, AppendedChange
  <2>. QED
    BY <2>1, <2>2, <2>3, <2>4, <2>5 DEF Revoke, ExpireCursor
<1>7. floor' \in 0..Len(log')
  <2>1. Len(log') \in Nat /\ Len(log) <= Len(log')
    BY <1>6 DEF Extends, GrowingLog
  <2>2. floor' = floor \/ floor' = Len(log)
    BY DEF Reconnect, RequestReset, Revoke, WithdrawTopic, AddUnsupported, ExpireCursor
  <2>. QED
    BY <1>1, <2>1, <2>2
<1>. QED
  BY <1>3, <1>4, <1>5, <1>6, <1>7, BackendKeeps

LEMMA ChangeMembersKeeps ==
    ASSUME ControlInv, ChangeMembers
    PROVE  ControlInv' /\ StaysQuarantined
<1> USE DEF backend, history
<1>1. /\ TypeOK /\ Placed /\ ListsAreCurrent /\ Refused
      /\ zulip \in [members : SUBSET Users, version : Nat] /\ peer \in Nat /\ noticed \in Nat
  BY DEF ControlInv, TypeOK
<1>2. /\ zulip' = [members |-> Users \ zulip.members, version |-> zulip.version + 1]
      /\ peer' = zulip'.version \/ peer' = peer
      /\ log' = log /\ outbox' = outbox /\ main' = main /\ live' = live /\ call' = call
      /\ noticed' = noticed /\ refused' = refused /\ db' = db
  BY DEF ChangeMembers
<1>3. /\ zulip' \in [members : SUBSET Users, version : Nat] /\ peer' \in Nat
      /\ zulip'.version = zulip.version + 1
  BY <1>1, <1>2
<1>4. budget' \in [Counters -> Nat]
  BY <1>1, Spent DEF ChangeMembers, Counters
<1>5. TypeOK'
  BY <1>1, <1>2, <1>3, <1>4 DEF TypeOK, ChangeMembers
<1>6. GrowingLog(log)' /\ Sound(db)' /\ Polled'
  BY <1>2, <1>5, UneditedTables, EditedTables
<1>7. Placed' /\ Refused'
  BY <1>1, <1>2, SamePlaced, SameRefused
<1>8. ListsAreCurrent'
  <2>1. peer <= zulip.version /\ noticed <= zulip.version /\ zulip.version \in Nat
    BY <1>1 DEF ListsAreCurrent
  <2>2. peer' <= zulip'.version /\ noticed' <= zulip'.version
    BY <1>1, <1>2, <1>3, <2>1
  <2>. QED
    BY <1>1, <1>2, <2>2 DEF ListsAreCurrent
<1>. QED
  BY <1>2, <1>5, <1>6, <1>7, <1>8 DEF ControlInv, StaysQuarantined

LEMMA ReceiveMessageKeeps ==
    ASSUME ControlInv, ReceiveMessage
    PROVE  ControlInv' /\ StaysQuarantined
<1>1. /\ TypeOK /\ live \in Thread(LivePlaces) /\ topology \in Content /\ outbox \in Seq(Rows)
  BY DEF ControlInv, TypeOK
<1>2. budget' \in [Counters -> Nat]
  BY <1>1, Spent DEF ReceiveMessage, Counters
<1>. QED
  BY <1>1, <1>2, LiveKeeps DEF ReceiveMessage

LEMMA CrashKeeps ==
    ASSUME ControlInv, Crash
    PROVE  ControlInv' /\ StaysQuarantined
<1> USE DEF backend, provider, history
<1>1. TypeOK /\ ListsAreCurrent /\ Refused /\ outbox \in Seq(Rows)
  BY DEF ControlInv, TypeOK
<1>2. /\ main' \in Thread(MainPlaces) /\ main'.pc = "idle"
      /\ live' \in Thread(LivePlaces) /\ live'.pc = "idle"
  BY IdleThread DEF Crash
<1>3. budget' \in [Counters -> Nat]
  BY <1>1, Spent DEF Crash, Counters
<1>4. outbox' \in Seq(Rows)
  <2> DEFINE rows == Selected(outbox, {i \in 1..Len(outbox) : Real(outbox[i])})
  <2>1. rows \in Seq(Rows)
    BY <1>1, SelectedRows
  <2>2. outbox' = Answered(rows, "new")
    BY DEF Crash
  <2> HIDE DEF rows
  <2>. QED
    BY <2>1, <2>2, AnsweredRows
<1>5. /\ call' = [c \in Callers |-> NoCall]
      /\ call' \in [Callers -> [gen : Nat, answer : {"none", "ok", "auth", "retry"}]]
  BY DEF Crash, NoCall
<1>6. TypeOK'
  BY <1>1, <1>2, <1>3, <1>4, <1>5 DEF TypeOK, Crash
<1>7. GrowingLog(log)' /\ Sound(db)' /\ Polled'
  BY <1>2, <1>6, UneditedTables, EditedTables DEF Crash
<1>8. Placed'
  BY <1>2 DEF Placed
<1>9. ListsAreCurrent'
  BY <1>1, <1>2, SameLists DEF Crash, Holding
<1>10. Refused'
  BY <1>1, <1>5 DEF Refused, Crash, NoCall
<1>. QED
  BY <1>6, <1>7, <1>8, <1>9, <1>10 DEF ControlInv, StaysQuarantined, Crash

-----------------------------------------------------------------------------
(* The theorems *)

LEMMA NextKeeps ==
    ASSUME ControlInv, [Next]_vars
    PROVE  ControlInv' /\ StaysQuarantined
<1>1. CASE UNCHANGED vars
  <2>1. UNCHANGED <<backend, provider, history, topology, outbox, live, call, budget>>
        /\ main' = main /\ db' = db
    BY <1>1 DEF vars, backend, provider, history
  <2>2. /\ Edits(db, db') /\ main' \in Thread(MainPlaces)
        /\ db'.sync.state = "none" <=> db'.sync.gen = 0
    BY <2>1, UneditedTables DEF ControlInv, TypeOK
  <2>3. ListsAreCurrent'
    BY <2>1, SameLists DEF ControlInv, provider, history
  <2>. QED
    BY <2>1, <2>2, <2>3, EditKeeps
<1>2. CASE FetchChanges \/ FinishPoll
  BY <1>2, FetchChangesKeeps, ApplyBatchKeeps, ClearBlockedBatchKeeps, ApplySnapshotKeeps
     DEF FinishPoll
<1>3. CASE FlushReports \/ ApplyResult \/ LoseAnswer \/ CoolDown
  BY <1>3, FlushReportsKeeps, ApplyResultKeeps, CoolDownKeeps
<1>4. CASE ReconcileParticipants \/ ClaimParticipants \/ ReapParticipants
  BY <1>4, ReconcileParticipantsKeeps, ClaimParticipantsKeeps, ReapParticipantsKeeps
<1>5. CASE RefreshParticipants
  BY <1>5, FetchParticipantsKeeps, RefreshKeeps, CompleteParticipantsKeeps
     DEF RefreshParticipants
<1>6. CASE ProcessMessage \/ InvalidateParticipants
  BY <1>6, ProcessMessageKeeps, InvalidateParticipantsKeeps
<1>7. CASE \E c \in Callers : CallZulip(c) \/ RecordCall(c)
  BY <1>7, CallZulipKeeps, RecordCallKeeps
<1>8. CASE Around
  BY <1>8, BackendStepKeeps, ChangeMembersKeeps, ReceiveMessageKeeps, CrashKeeps DEF Around
<1>. QED
  BY <1>1, <1>2, <1>3, <1>4, <1>5, <1>6, <1>7, <1>8 DEF Next

LEMMA Invariance == Spec => []ControlInv
BY Initially, NextKeeps, PTL DEF Spec

(* Every variable keeps its type, with rows, threads and tables as the     *)
(* code can leave them: a report a thread holds is always found again, and *)
(* the stored cursor is a place of the log.                                *)
THEOREM ControlPlaneTypes == Spec => []TypeOK
<1>1. ControlInv => TypeOK
  BY DEF ControlInv
<1>. QED
  BY <1>1, Invariance, PTL

(* However many changes there are and however they are cut into batches    *)
(* and snapshots, the tables hold the log's newest account and assignment  *)
(* at the stored cursor (apply_desired_changes, install_snapshot).         *)
THEOREM TablesFollowTheLog == Spec => []DesiredIsLog
<1>1. ControlInv => DesiredIsLog
  <2>1. \A of, n : Newest(of, n) = NewestIn(log, of, n)
    BY DEF Newest, NewestIn
  <2>. QED
    BY <2>1 DEF ControlInv, Polled, FollowsTo, DesiredIsLog
<1>. QED
  BY <1>1, Invariance, PTL

(* Any number of projection resets is carried out once each, in order      *)
(* (_reconcile_provider_account_generation).                               *)
THEOREM ResetsAreDoneOnce == Spec => []ResetOnce
<1>1. ControlInv => ResetOnce
  BY DEF ControlInv, Sound, ResetsDone, ResetOnce
<1>. QED
  BY <1>1, Invariance, PTL

(* No mapping is left that the stored assignment does not give             *)
(* (_assignment_projection_is_additive, _tombstone_workspace_projection).  *)
THEOREM MappingsAreAssigned == Spec => []NoStaleMapping
<1>1. ControlInv => NoStaleMapping
  BY DEF ControlInv, Sound, NoStaleMapping
<1>. QED
  BY <1>1, Invariance, PTL

(* Participants are ready only on a list that no processed subscriber      *)
(* event postdates (invalidate_participant_sync,                           *)
(* complete_participant_sync_batch).                                       *)
THEOREM ReadyListsAreCurrent == Spec => []ParticipantsAreCurrent
<1>1. ControlInv => ParticipantsAreCurrent
  BY DEF ControlInv, ListsAreCurrent, ParticipantsAreCurrent
<1>. QED
  BY <1>1, Invariance, PTL

(* With any number of callers and reconnects, an account is quarantined    *)
(* only for a refusal of its own generation, and released only with        *)
(* another one (record_provider_account_failure).                          *)
THEOREM QuarantineIsOfTheGeneration == Spec => Quarantine
<1>1. ControlInv /\ [Next]_vars =>
          [/\ db'.sched.state = "auth_required" => db'.sched.gen \in refused'
           /\ db.sched.state = "auth_required" /\ db'.sched.state # "auth_required"
                 => db'.sched.gen # db.sched.gen]_vars
  <2>1. ASSUME ControlInv, [Next]_vars
        PROVE  /\ db'.sched.state = "auth_required" => db'.sched.gen \in refused'
               /\ db.sched.state = "auth_required" /\ db'.sched.state # "auth_required"
                     => db'.sched.gen # db.sched.gen
    BY <2>1, NextKeeps DEF ControlInv, Refused, StaysQuarantined
  <2>. QED
    BY <2>1
<1>. QED
  BY <1>1, Invariance, PTL DEF Spec, Quarantine
=============================================================================
