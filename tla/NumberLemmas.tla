---------------------------- MODULE NumberLemmas ----------------------------
(***************************************************************************)
(* Facts about natural numbers that the proofs about the components share: *)
(* induction and recursion in a form the provers can use, with the         *)
(* property or the steps as a set or a function, what Min and Max of the   *)
(* community modules return, and what a selection from a sequence holds.   *)
(***************************************************************************)
EXTENDS Naturals, FiniteSets, FiniteSetsExt, Selection, WellFoundedInduction, TLAPS

-----------------------------------------------------------------------------
(* Numbers: the least of a set, induction, and the greatest                *)

LEMMA LeastNumber ==
    ASSUME NEW S \in SUBSET Nat, S # {}
    PROVE  \E n \in S : \A m \in S : n <= m
<1> DEFINE R == OpToRel(<, Nat)
<1>1. IsWellFoundedOn(R, Nat)
  BY NatLessThanWellFounded
<1>2. \A x, y \in Nat : <<x, y>> \in R <=> x < y
  BY DEF OpToRel
<1> HIDE DEF R
<1>3. PICK n \in S : \A m \in S : ~ (<<m, n>> \in R)
  BY <1>1, WFMin
<1>4. \A m \in S : n <= m
  <2> TAKE m \in S
  <2>1. n \in Nat /\ m \in Nat
    OBVIOUS
  <2>2. ~ (m < n)
    BY <1>2, <1>3, <2>1
  <2>. QED
    BY <2>1, <2>2
<1>. QED
  BY <1>4

(* Induction, with the property as a set.                                  *)
LEMMA Induction ==
    ASSUME NEW S \in SUBSET Nat, 0 \in S, \A n \in S : n + 1 \in S
    PROVE  \A n \in Nat : n \in S
<1> SUFFICES ASSUME Nat \ S # {} PROVE FALSE
  OBVIOUS
<1>1. PICK n \in Nat \ S : \A m \in Nat \ S : n <= m
  BY LeastNumber
<1>2. n # 0 /\ n - 1 \in Nat
  BY <1>1
<1>3. n - 1 \in S
  BY <1>1, <1>2
<1>. QED
  BY <1>1, <1>2, <1>3

LEMMA Greatest ==
    ASSUME NEW n \in Nat, NEW S \in SUBSET (0..n), S # {}
    PROVE  Max(S) \in S /\ \A m \in S : m <= Max(S)
<1> DEFINE Over == {b \in Nat : \A m \in S : m <= b}
<1>1. Over \in SUBSET Nat /\ n \in Over
  OBVIOUS
<1>2. PICK g \in Over : \A b \in Over : g <= b
  <2> HIDE DEF Over
  <2>. QED
    BY <1>1, LeastNumber
<1>3. g \in Nat /\ \A m \in S : m <= g
  BY <1>2
<1>4. g \in S
  <2> SUFFICES ASSUME g \notin S PROVE FALSE
    OBVIOUS
  <2>1. PICK m \in S : TRUE
    OBVIOUS
  <2>2. g # 0 /\ g - 1 \in Nat
    BY <1>3, <2>1
  <2>3. \A x \in S : x <= g - 1
    <3> TAKE x \in S
    <3>1. x <= g /\ x # g /\ x \in Nat
      BY <1>3
    <3>. QED
      BY <1>3, <3>1
  <2>4. g - 1 \in Over
    BY <2>2, <2>3
  <2>. QED
    BY <1>2, <1>3, <2>4
<1>5. \E x \in S : \A y \in S : x >= y
  <2>1. \A y \in S : y \in Nat /\ g >= y
    BY <1>3
  <2>. QED
    BY <1>4, <2>1
<1>6. Max(S) \in S /\ \A y \in S : Max(S) >= y
  BY <1>5 DEF Max
<1>7. \A y \in S : y \in Nat
  OBVIOUS
<1>. QED
  BY <1>6, <1>7

LEMMA Least ==
    ASSUME NEW S \in SUBSET Nat, S # {}
    PROVE  Min(S) \in S /\ \A m \in S : Min(S) <= m
<1>1. \E x \in S : \A y \in S : x <= y
  BY LeastNumber
<1>. QED
  BY <1>1 DEF Min

-----------------------------------------------------------------------------
(* Recursion over numbers has a solution, with values where the steps stay. *)

Steps(n, D) == [1..n -> [D -> D]]
Solves(f, n, D, first, step) ==
    /\ f \in [0..n -> D]
    /\ f[0] = first
    /\ \A i \in 1..n : f[i] = step[i][f[i - 1]]

LEMMA Recursion ==
    ASSUME NEW n \in Nat, NEW D, NEW first \in D, NEW step \in Steps(n, D)
    PROVE  \E f : Solves(f, n, D, first, step)
<1> USE DEF Steps
<1> DEFINE Upto(m) == \E f \in [0..m -> D] :
                          f[0] = first /\ \A i \in 1..m : f[i] = step[i][f[i - 1]]
           Good == {m \in Nat : m <= n => Upto(m)}
<1>1. 0 \in Good
  <2>1. [i \in 0..0 |-> first] \in [0..0 -> D]
    OBVIOUS
  <2>2. [i \in 0..0 |-> first][0] = first
    OBVIOUS
  <2>3. 1..0 = {}
    OBVIOUS
  <2>. QED
    BY <2>1, <2>2, <2>3
<1>2. ASSUME NEW m \in Good PROVE m + 1 \in Good
  <2>m. m \in Nat /\ (m <= n => Upto(m))
    BY <1>2
  <2> HIDE DEF Upto
  <2> SUFFICES ASSUME m + 1 <= n PROVE Upto(m + 1)
    BY <2>m
  <2> USE DEF Upto
  <2>1. PICK f \in [0..m -> D] :
            f[0] = first /\ \A i \in 1..m : f[i] = step[i][f[i - 1]]
    BY <2>m
  <2> DEFINE g == [i \in 0..(m + 1) |-> IF i = m + 1 THEN step[m + 1][f[m]] ELSE f[i]]
  <2>2. m \in Nat /\ m + 1 \in 1..n /\ f[m] \in D
    BY <2>m, <2>1
  <2>3. step[m + 1][f[m]] \in D
    BY <2>2
  <2>4. g \in [0..(m + 1) -> D]
    BY <2>1, <2>3
  <2>5. \A i \in 0..m : g[i] = f[i]
    BY <2>2
  <2>6. g[m + 1] = step[m + 1][f[m]]
    BY <2>2
  <2> HIDE DEF g
  <2>7. g[0] = first
    BY <2>1, <2>2, <2>5
  <2>8. ASSUME NEW i \in 1..(m + 1) PROVE g[i] = step[i][g[i - 1]]
    <3>1. CASE i = m + 1
      BY <2>2, <2>5, <2>6, <3>1
    <3>2. CASE i # m + 1
      <4>1. i \in 1..m /\ i \in 0..m /\ i - 1 \in 0..m
        BY <2>2, <3>2
      <4>. QED
        BY <2>1, <2>5, <4>1
    <3>. QED
      BY <3>1, <3>2
  <2>. QED
    BY <2>4, <2>7, <2>8
<1>3. Good \in SUBSET Nat
  OBVIOUS
<1>4. n \in Good
  <2> HIDE DEF Good
  <2>. QED
    BY <1>1, <1>2, <1>3, Induction
<1>5. Upto(n)
  BY <1>4
<1>. QED
  BY <1>5 DEF Solves

-----------------------------------------------------------------------------
(* Selected(): rows are kept or left out, never changed                    *)

LEMMA SelectedRows ==
    ASSUME NEW R, NEW rows \in Seq(R), NEW places
    PROVE  /\ Selected(rows, places) \in Seq(R)
           /\ \A i \in 1..Len(rows) : i \in places =>
                 \E j \in 1..Len(Selected(rows, places)) : Selected(rows, places)[j] = rows[i]
           /\ \A j \in 1..Len(Selected(rows, places)) :
                 \E i \in 1..Len(rows) : i \in places /\ Selected(rows, places)[j] = rows[i]
<1> DEFINE n == Len(rows)
           step == [i \in 1..n |-> [s \in Seq(R) |->
                       IF i \in places THEN Append(s, rows[i]) ELSE s]]
           Taken(f) == f = [i \in 0..n |->
                               IF i = 0 THEN <<>>
                               ELSE IF i \in places THEN Append(f[i - 1], rows[i])
                               ELSE f[i - 1]]
<1>1. n \in Nat /\ \A i \in 1..n : rows[i] \in R
  OBVIOUS
<1>2. step \in [1..n -> [Seq(R) -> Seq(R)]]
  BY <1>1
<1>3. <<>> \in Seq(R)
  OBVIOUS
<1>4. PICK f : Solves(f, n, Seq(R), <<>>, step)
  <2>1. step \in Steps(n, Seq(R))
    BY <1>2 DEF Steps
  <2> HIDE DEF step, n
  <2>. QED
    BY <1>1, <1>3, <2>1, Recursion
<1>5. \A i \in 1..n : f[i] = IF i \in places THEN Append(f[i - 1], rows[i]) ELSE f[i - 1]
  <2> TAKE i \in 1..n
  <2>1. f[i - 1] \in Seq(R)
    BY <1>1, <1>4 DEF Solves
  <2>2. f[i] = step[i][f[i - 1]]
    BY <1>4 DEF Solves
  <2>. QED
    BY <2>1, <2>2
<1>6. Taken(f)
  <2>1. \A i \in 0..n : i = 0 \/ i \in 1..n
    BY <1>1
  <2>2. \A i \in 0..n : f[i] = IF i = 0 THEN <<>>
                               ELSE IF i \in places THEN Append(f[i - 1], rows[i])
                               ELSE f[i - 1]
    BY <1>4, <1>5, <2>1 DEF Solves
  <2>3. f \in [0..n -> Seq(R)]
    BY <1>4 DEF Solves
  <2>. QED
    BY <2>2, <2>3
<1> DEFINE taken == CHOOSE g : Taken(g)
<1>7. Taken(taken)
  BY <1>6
<1>8. Selected(rows, places) = taken[n]
  BY DEF Selected
<1>9. taken[0] = <<>>
  <2> HIDE DEF taken
  <2>. QED
    BY <1>1, <1>7
<1>10. \A i \in 1..n :
          taken[i] = IF i \in places THEN Append(taken[i - 1], rows[i]) ELSE taken[i - 1]
  <2> HIDE DEF taken
  <2>1. \A i \in 1..n : i \in 0..n /\ i # 0
    BY <1>1
  <2>. QED
    BY <1>7, <2>1
<1> HIDE DEF taken, Taken, step
<1> DEFINE Holds(m) ==
               /\ taken[m] \in Seq(R)
               /\ \A i \in 1..m : i \in places =>
                     \E j \in 1..Len(taken[m]) : taken[m][j] = rows[i]
               /\ \A j \in 1..Len(taken[m]) :
                     \E i \in 1..m : i \in places /\ taken[m][j] = rows[i]
           Good == {m \in Nat : m <= n => Holds(m)}
<1>11. 0 \in Good
  <2>1. 1..0 = {}
    OBVIOUS
  <2>. QED
    BY <1>3, <1>9, <2>1
<1>12. ASSUME NEW m \in Good PROVE m + 1 \in Good
  <2> HIDE DEF Holds
  <2> SUFFICES ASSUME m + 1 <= n PROVE Holds(m + 1)
    OBVIOUS
  <2>0. Holds(m)
    BY <1>1
  <2> USE DEF Holds
  <2>1. /\ taken[m] \in Seq(R)
        /\ \A i \in 1..m : i \in places =>
              \E j \in 1..Len(taken[m]) : taken[m][j] = rows[i]
        /\ \A j \in 1..Len(taken[m]) :
              \E i \in 1..m : i \in places /\ taken[m][j] = rows[i]
    BY <2>0
  <2>2. m \in Nat /\ m + 1 \in 1..n /\ (m + 1) - 1 = m
    BY <1>1
  <2>3. taken[m + 1] = IF m + 1 \in places THEN Append(taken[m], rows[m + 1]) ELSE taken[m]
    BY <1>10, <2>2
  <2>4. rows[m + 1] \in R
    BY <1>1, <2>2
  <2> HIDE DEF Good
  <2>5. \A i \in 1..(m + 1) : i = m + 1 \/ i \in 1..m
    BY <2>2
  <2>6. CASE m + 1 \in places
    <3>1. taken[m + 1] = Append(taken[m], rows[m + 1])
      BY <2>3, <2>6
    <3>2. /\ taken[m + 1] \in Seq(R)
          /\ Len(taken[m]) \in Nat
          /\ Len(taken[m + 1]) = Len(taken[m]) + 1
          /\ \A j \in 1..Len(taken[m]) : taken[m + 1][j] = taken[m][j]
          /\ taken[m + 1][Len(taken[m]) + 1] = rows[m + 1]
      BY <2>1, <2>4, <3>1
    <3>3. ASSUME NEW i \in 1..(m + 1), i \in places
          PROVE  \E j \in 1..Len(taken[m + 1]) : taken[m + 1][j] = rows[i]
      <4>1. CASE i = m + 1
        BY <3>2, <4>1
      <4>2. CASE i \in 1..m
        <5>1. PICK j \in 1..Len(taken[m]) : taken[m][j] = rows[i]
          BY <2>1, <3>3, <4>2
        <5>2. j \in 1..Len(taken[m + 1])
          BY <3>2
        <5>. QED
          BY <3>2, <5>1, <5>2
      <4>. QED
        BY <2>5, <4>1, <4>2
    <3>4. ASSUME NEW j \in 1..Len(taken[m + 1])
          PROVE  \E i \in 1..(m + 1) : i \in places /\ taken[m + 1][j] = rows[i]
      <4>1. CASE j = Len(taken[m]) + 1
        BY <2>2, <2>6, <3>2, <4>1
      <4>2. CASE j \in 1..Len(taken[m])
        <5>1. PICK i \in 1..m : i \in places /\ taken[m][j] = rows[i]
          BY <2>1, <4>2
        <5>. QED
          BY <2>2, <3>2, <4>2, <5>1
      <4>. QED
        BY <3>2, <4>1, <4>2
    <3>. QED
      BY <3>2, <3>3, <3>4
  <2>7. CASE m + 1 \notin places
    <3>1. 1..m \subseteq 1..(m + 1)
      BY <2>2
    <3>. QED
      BY <2>1, <2>3, <2>5, <2>7, <3>1
  <2>. QED
    BY <2>6, <2>7
<1>13. Good \in SUBSET Nat
  OBVIOUS
<1>14. n \in Good
  <2> HIDE DEF Good, n
  <2>. QED
    BY <1>1, <1>11, <1>12, <1>13, Induction
<1>. QED
  BY <1>1, <1>8, <1>14

LEMMA WithoutRows ==
    ASSUME NEW R, NEW rows \in Seq(R), NEW gone
    PROVE  /\ Without(rows, gone) \in Seq(R)
           /\ \A i \in 1..Len(rows) : rows[i] \notin gone =>
                 \E j \in 1..Len(Without(rows, gone)) : Without(rows, gone)[j] = rows[i]
           /\ \A j \in 1..Len(Without(rows, gone)) :
                 \E i \in 1..Len(rows) : rows[i] \notin gone /\ Without(rows, gone)[j] = rows[i]
<1> DEFINE places == {i \in 1..Len(rows) : rows[i] \notin gone}
<1>1. Without(rows, gone) = Selected(rows, places)
  BY DEF Without
<1>2. \A i \in 1..Len(rows) : i \in places <=> rows[i] \notin gone
  OBVIOUS
<1> HIDE DEF places
<1> DEFINE chosen == Selected(rows, places)
<1>3. /\ chosen \in Seq(R)
      /\ \A i \in 1..Len(rows) : i \in places => \E j \in 1..Len(chosen) : chosen[j] = rows[i]
      /\ \A j \in 1..Len(chosen) : \E i \in 1..Len(rows) : i \in places /\ chosen[j] = rows[i]
  BY SelectedRows
<1> HIDE DEF chosen
<1>4. Without(rows, gone) = chosen
  BY <1>1 DEF chosen
<1>. QED
  BY <1>2, <1>3, <1>4

=============================================================================
