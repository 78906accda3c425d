------------------------------ MODULE EdfProofs ------------------------------
(***************************************************************************)
(* Proofs about Edf: the copy of the running job agrees with the array,    *)
(* the array is never overfull, the schedule is printed completely and in  *)
(* order, and the simulator implements the policy EdfPolicy, for any       *)
(* number of processes and any times.                                      *)
(*                                                                         *)
(* The loops of edf.c are recursive functions in the model.  LoopExists    *)
(* and LoopKeeps are what is said of a loop by induction: given a set Q[k] *)
(* of the values allowed after k runs, the loop is defined and stays in    *)
(* the sets.  Induction is by the least counterexample.                    *)
(***************************************************************************)
EXTENDS Edf, FiniteSetTheorems, SequenceTheorems, WellFoundedInduction, TLAPS

\* A set of naturals has a least element.
LEMMA LeastNat ==
    ASSUME NEW T, T \subseteq Nat, T # {}
    PROVE  \E x \in T : \A y \in T : x <= y
  <1> DEFINE R == OpToRel(<, Nat)
  <1>1. PICK x \in T : \A y \in T : ~(<<y, x>> \in R)
    <2>1. IsWellFoundedOn(R, Nat)
      BY NatLessThanWellFounded
    <2> HIDE DEF R
    <2> QED BY <2>1, WFMin
  <1>2. ASSUME NEW y \in T PROVE x <= y
    <2>1. x \in Nat /\ y \in Nat
      OBVIOUS
    <2>2. CASE y < x
      BY <1>1, <2>1, <2>2 DEF OpToRel
    <2> QED BY <2>1, <2>2
  <1> QED BY <1>2

\* What holds before a loop and is kept by its body holds after each run.
LEMMA LoopKeeps ==
    ASSUME NEW m \in Nat, NEW f, NEW Q, f[0] \in Q[0],
           \A k \in 1 .. m : f[k-1] \in Q[k-1] => f[k] \in Q[k]
    PROVE  \A k \in 0 .. m : f[k] \in Q[k]
  <1> DEFINE T == {k \in Nat : k <= m /\ f[k] \notin Q[k]}
  <1>1. CASE T = {}
    BY <1>1
  <1>2. CASE T # {}
    <2>1. PICK x \in T : \A y \in T : x <= y
      BY <1>2, LeastNat
    <2>2. x \in Nat /\ x <= m /\ f[x] \notin Q[x] /\ x # 0
      BY <2>1
    <2>3. x - 1 \in Nat /\ x - 1 \notin T /\ x \in 1 .. m
      BY <2>1, <2>2
    <2>4. f[x-1] \in Q[x-1]
      BY <2>2, <2>3
    <2> QED BY <2>2, <2>3, <2>4
  <1> QED BY <1>1, <1>2

\* The body, as the functions st[1] .. st[m], leads from each set to the next.
Leading(Q, st, m) == \A k \in 1 .. m : \A x \in Q[k-1] : st[k][x] \in Q[k]
\* f is what the runs of the body leave, one after the other.
RunOf(f, x0, st, Q, V, m) == /\ f \in [0 .. m -> V]
                             /\ f[0] = x0
                             /\ \A k \in 1 .. m : f[k] = st[k][f[k-1]]
                             /\ \A k \in 0 .. m : f[k] \in Q[k]

\* A loop whose body is defined where it is run has a value.
LEMMA LoopExists ==
    ASSUME NEW m \in Nat, NEW V, NEW Q \in [0 .. m -> SUBSET V], NEW st, NEW x0 \in Q[0],
           Leading(Q, st, m)
    PROVE  \E f : RunOf(f, x0, st, Q, V, m)
  <1>0. \A k \in 1 .. m : \A x \in Q[k-1] : st[k][x] \in Q[k]
    BY DEF Leading
  <1> DEFINE Runs(f, n) == RunOf(f, x0, st, Q, V, n)
             T == {n \in Nat : n <= m /\ ~ \E f : Runs(f, n)}
  <1>1. CASE T = {}
    <2>1. m \notin T
      BY <1>1
    <2> QED BY <2>1
  <1>2. CASE T # {}
    <2>1. PICK x \in T : \A y \in T : x <= y
      <3> HIDE DEF T
      <3>1. T \subseteq Nat
        BY DEF T
      <3> QED BY <1>2, <3>1, LeastNat
    <2>2. x \in Nat /\ x <= m /\ ~ \E f : Runs(f, x)
      BY <2>1
    <2>3. CASE x = 0
      <3> DEFINE g == [k \in 0 .. 0 |-> x0]
      <3>1. g \in [0 .. 0 -> V] /\ g[0] = x0
        OBVIOUS
      <3>2. \A k \in 0 .. 0 : g[k] \in Q[k]
        OBVIOUS
      <3>3. Runs(g, 0)
        BY <3>1, <3>2 DEF RunOf
      <3> HIDE DEF Runs, g
      <3> QED BY <2>2, <2>3, <3>3
    <2>4. CASE x # 0
      <3>1. x - 1 \in Nat /\ x - 1 \notin T /\ x \in 1 .. m /\ x - 1 <= m
        <4>1. x - 1 \in Nat /\ x \in 1 .. m /\ x - 1 <= m /\ ~(x <= x - 1)
          BY <2>2, <2>4
        <4> HIDE DEF T
        <4> QED BY <2>1, <4>1
      <3>2. PICK f : Runs(f, x - 1)
        BY <3>1
      <3>9. /\ f \in [0 .. x - 1 -> V] /\ f[0] = x0
            /\ \A k \in 1 .. x - 1 : f[k] = st[k][f[k-1]]
            /\ \A k \in 0 .. x - 1 : f[k] \in Q[k]
        BY <3>2 DEF RunOf
      <3> DEFINE g == [k \in 0 .. x |-> IF k = x THEN st[x][f[x-1]] ELSE f[k]]
      <3>3. f[x-1] \in Q[x-1]
        BY <3>1, <3>9
      <3>4. \A k \in 0 .. x : g[k] \in Q[k]
        BY <1>0, <3>1, <3>9, <3>3
      <3>5. ASSUME NEW k \in 1 .. x PROVE g[k] = st[k][g[k-1]]
        <4>1. k - 1 \in 0 .. x /\ k \in 0 .. x /\ g[k-1] = f[k-1]
          BY <3>1
        <4>2. CASE k = x
          <5>1. g[k] = st[x][f[x-1]]
            BY <4>1, <4>2
          <5> HIDE DEF g
          <5> QED BY <4>1, <4>2, <5>1
        <4>3. CASE k # x
          <5>1. g[k] = f[k] /\ k \in 1 .. x - 1
            BY <4>1, <4>3, <3>1
          <5> HIDE DEF g
          <5> QED BY <3>9, <4>1, <5>1
        <4> QED BY <4>2, <4>3
      <3>6. g[0] = x0
        BY <3>1, <3>9
      <3>7. g \in [0 .. x -> V]
        BY <3>1, <3>9, <3>4
      <3>8. Runs(g, x)
        BY <3>4, <3>5, <3>6, <3>7 DEF RunOf
      <3> HIDE DEF Runs, g
      <3> QED BY <2>2, <3>8
    <2> QED BY <2>3, <2>4
  <1> QED BY <1>1, <1>2

-----------------------------------------------------------------------------
(* Sorting. *)

\* No two jobs of an array are of one process and one time.
Distinct(s) == \A k, m \in DOMAIN s : s[k].pid = s[m].pid /\ s[k].age = s[m].age => k = m
Arrays(J, n) == {s \in [1 .. n -> J] : Distinct(s)}

LEMMA SwapKeeps ==
    ASSUME NEW J, NEW n \in Nat, NEW s \in Arrays(J, n), NEW i \in 1 .. n - 1
    PROVE  SwapAt(s, i) \in Arrays(J, n)
  <1> DEFINE t == SwapAt(s, i)
             other == [k \in 1 .. n |-> IF k = i THEN i + 1 ELSE IF k = i + 1 THEN i ELSE k]
  <1>1. s \in [1 .. n -> J] /\ Distinct(s) /\ i \in 1 .. n /\ i + 1 \in 1 .. n /\ DOMAIN s = 1 .. n
    BY DEF Arrays
  <1>2. t \in [1 .. n -> J] /\ DOMAIN t = 1 .. n /\ \A k \in 1 .. n : t[k] = s[other[k]]
    BY <1>1 DEF SwapAt
  <1>3. \A k, m \in 1 .. n : other[k] \in 1 .. n /\ (other[k] = other[m] => k = m)
    BY <1>1
  <1> HIDE DEF t, other
  <1>4. Distinct(t)
    BY <1>1, <1>2, <1>3, SMTT(30) DEF Distinct
  <1>5. t \in Arrays(J, n)
    BY <1>2, <1>4 DEF Arrays
  <1> QED BY <1>5 DEF t

\* A set of arrays that exchanging two neighbours does not leave.
SwapClosed(X, n) == \A s \in X : \A i \in 1 .. n - 1 : SwapAt(s, i) \in X
\* From place q on, no deadline is before one of a job further down.
Tops(s, n, q) == \A k \in 1 .. n : \A m \in 1 .. n :
                    q < k /\ m < k => s[m].deadline <= s[k].deadline

\* What one run of the inner loop's body does to a pair of neighbours.
LEMMA StepOrders ==
    ASSUME NEW J, \A j \in J : j.deadline \in Int,
           NEW n \in Nat, NEW s \in [1 .. n -> J], NEW i \in 1 .. n - 1
    PROVE  /\ (SortStep(s, i) = s \/ SortStep(s, i) = SwapAt(s, i))
           /\ SortStep(s, i)[i].deadline <= SortStep(s, i)[i+1].deadline
  <1> DEFINE a == IF s[i].deadline > s[i+1].deadline THEN SwapAt(s, i) ELSE s
             b == IF a[i].deadline = a[i+1].deadline /\ a[i].age > a[i+1].age
                  THEN SwapAt(a, i) ELSE a
             c == IF /\ b[i].deadline = b[i+1].deadline
                     /\ b[i].age = b[i+1].age
                     /\ b[i].pid > b[i+1].pid
                  THEN SwapAt(b, i) ELSE b
  <1>1. i \in 1 .. n /\ i + 1 \in 1 .. n /\ i # i + 1
    OBVIOUS
  <1>2. ASSUME NEW x \in [1 .. n -> J]
        PROVE  /\ SwapAt(x, i) \in [1 .. n -> J] /\ SwapAt(SwapAt(x, i), i) = x
               /\ SwapAt(x, i)[i] = x[i+1] /\ SwapAt(x, i)[i+1] = x[i]
               /\ x[i].deadline \in Int /\ x[i+1].deadline \in Int
    BY <1>1 DEF SwapAt
  <1>3. c = SortStep(s, i)
    BY DEF SortStep
  <1>4. /\ a \in [1 .. n -> J] /\ (a = s \/ a = SwapAt(s, i))
        /\ a[i].deadline <= a[i+1].deadline
    <2>1. CASE s[i].deadline > s[i+1].deadline
      <3>1. a = SwapAt(s, i)
        BY <2>1
      <3> HIDE DEF a
      <3> QED BY <1>2, <2>1, <3>1
    <2>2. CASE ~(s[i].deadline > s[i+1].deadline)
      <3>1. a = s
        BY <2>2
      <3> HIDE DEF a
      <3> QED BY <1>2, <2>2, <3>1
    <2> QED BY <2>1, <2>2
  <1> HIDE DEF a
  <1>5. a \in [1 .. n -> J]
    BY <1>2, <1>4
  <1>6. /\ b \in [1 .. n -> J] /\ (b = a \/ b = SwapAt(a, i))
        /\ b[i].deadline <= b[i+1].deadline
    <2>1. CASE a[i].deadline = a[i+1].deadline /\ a[i].age > a[i+1].age
      <3>1. b = SwapAt(a, i)
        BY <2>1
      <3> HIDE DEF b
      <3> QED BY <1>2, <1>5, <2>1, <3>1
    <2>2. CASE ~(a[i].deadline = a[i+1].deadline /\ a[i].age > a[i+1].age)
      <3>1. b = a
        BY <2>2
      <3> HIDE DEF b
      <3> QED BY <1>2, <1>4, <1>5, <2>2, <3>1
    <2> QED BY <2>1, <2>2
  <1> HIDE DEF b
  <1>7. b \in [1 .. n -> J]
    BY <1>2, <1>5, <1>6
  <1>8. /\ (c = b \/ c = SwapAt(b, i))
        /\ c[i].deadline <= c[i+1].deadline
    <2>1. CASE b[i].deadline = b[i+1].deadline /\ b[i].age = b[i+1].age /\ b[i].pid > b[i+1].pid
      <3>1. c = SwapAt(b, i)
        BY <2>1
      <3> HIDE DEF c
      <3> QED BY <1>2, <1>7, <2>1, <3>1
    <2>2. CASE ~(b[i].deadline = b[i+1].deadline /\ b[i].age = b[i+1].age /\ b[i].pid > b[i+1].pid)
      <3>1. c = b
        BY <2>2
      <3> HIDE DEF c
      <3> QED BY <1>6, <3>1
    <2> QED BY <2>1, <2>2
  <1> HIDE DEF c
  <1>9. c = s \/ c = SwapAt(s, i)
    BY <1>2, <1>4, <1>5, <1>6, <1>7, <1>8
  <1> QED BY <1>3, <1>8, <1>9

\* A pass of the inner loop carries a last deadline of the first m + 1 to place m + 1.
LEMMA PassSorts ==
    ASSUME NEW J, \A j \in J : j.deadline \in Int,
           NEW n \in Nat, NEW X \in SUBSET [1 .. n -> J], SwapClosed(X, n), NEW s \in X,
           NEW m \in Nat, m < n, Tops(s, n, m + 1)
    PROVE  SortPass(s, m) \in X /\ Tops(SortPass(s, m), n, m)
  <1> DEFINE Last(x, k) == \A j \in 1 .. n : j <= k => x[j].deadline <= x[k+1].deadline
             Q  == [k \in 0 .. m |-> {x \in X : Tops(x, n, m + 1) /\ Last(x, k)}]
             st == [k \in 1 .. m |-> [x \in Q[k-1] |-> SortStep(x, k)]]
             f0 == CHOOSE f : f = [k \in 0 .. m |-> IF k = 0 THEN s
                                                    ELSE SortStep(f[k-1], k)]
  <1>1. SortPass(s, m) = f0[m]
    BY DEF SortPass, Loop
  <1>2. Q \in [0 .. m -> SUBSET X] /\ m \in Nat
    OBVIOUS
  <1>3. s \in Q[0]
    OBVIOUS
  <1>4. ASSUME NEW k \in 1 .. m, NEW x \in Q[k-1] PROVE SortStep(x, k) \in Q[k]
    <2> DEFINE y == SortStep(x, k)
    <2>0. k \in 1 .. n - 1 /\ k \in Nat /\ k <= m /\ k + 1 \in 1 .. n /\ k \in 1 .. n
      OBVIOUS
    <2>1. x \in X /\ Tops(x, n, m + 1) /\ Last(x, k - 1) /\ x \in [1 .. n -> J]
      BY <2>0
    <2>2. /\ \/ y = x
             \/ y = SwapAt(x, k)
          /\ y[k].deadline <= y[k+1].deadline
      BY <2>0, <2>1, StepOrders
    <2>3. y \in X /\ y \in [1 .. n -> J]
      BY <2>0, <2>1, <2>2 DEF SwapClosed
    <2>4. /\ \A j \in 1 .. n : j # k /\ j # k + 1 => y[j] = x[j]
          /\ \/ y[k] = x[k] /\ y[k+1] = x[k+1]
             \/ y[k] = x[k+1] /\ y[k+1] = x[k]
      BY <2>0, <2>1, <2>2 DEF SwapAt
    <2>5. \A j \in 1 .. n : x[j].deadline \in Int /\ y[j].deadline \in Int
      BY <2>1, <2>3
    <2> HIDE DEF y, Q
    <2>6. Last(y, k)
      <3>1. ASSUME NEW j \in 1 .. n, j <= k PROVE y[j].deadline <= y[k+1].deadline
        <4>1. CASE j = k
          BY <2>2, <4>1
        <4>2. CASE j # k
          <5>1. j <= k - 1 /\ y[j] = x[j] /\ (k - 1) + 1 = k /\ j # k + 1
            BY <2>0, <2>4, <3>1, <4>2
          <5>2. x[j].deadline <= x[k].deadline
            BY <2>1, <5>1
          <5>3. x[k].deadline <= y[k+1].deadline
            BY <2>0, <2>2, <2>4, <2>5
          <5> QED BY <2>0, <2>5, <5>1, <5>2, <5>3, SMTT(30)
        <4> QED BY <4>1, <4>2
      <3> QED BY <3>1
    <2>7. Tops(y, n, m + 1)
      <3>1. ASSUME NEW j \in 1 .. n, NEW i \in 1 .. n, m + 1 < j, i < j
            PROVE  y[i].deadline <= y[j].deadline
        <4>1. y[j] = x[j] /\ k < j /\ k + 1 < j
          BY <2>0, <2>4, <3>1
        <4>2. \A l \in 1 .. n : l < j => x[l].deadline <= x[j].deadline
          BY <2>1, <3>1 DEF Tops
        <4>3. \E l \in 1 .. n : l < j /\ y[i] = x[l]
          BY <2>0, <2>4, <3>1, <4>1
        <4> QED BY <4>1, <4>2, <4>3
      <3> QED BY <3>1 DEF Tops
    <2>8. k \in 0 .. m
      BY <2>0
    <2> QED BY <2>3, <2>6, <2>7, <2>8 DEF y, Q
  <1>5. \A k \in 1 .. m : \A x \in Q[k-1] : st[k][x] = SortStep(x, k)
    OBVIOUS
  <1> HIDE DEF Q, st, f0
  <1>6. PICK f : RunOf(f, s, st, Q, X, m)
    <2>1. Leading(Q, st, m)
      BY <1>4, <1>5 DEF Leading
    <2> QED BY <1>2, <1>3, <2>1, LoopExists
  <1>7. f = [k \in 0 .. m |-> IF k = 0 THEN s ELSE SortStep(f[k-1], k)]
    <2>1. ASSUME NEW k \in 1 .. m PROVE f[k] = SortStep(f[k-1], k)
      <3>1. k - 1 \in 0 .. m
        BY <1>2
      <3>2. f[k-1] \in Q[k-1] /\ f[k] = st[k][f[k-1]]
        BY <1>6, <3>1 DEF RunOf
      <3> QED BY <1>5, <3>2
    <2>2. ASSUME NEW k \in 0 .. m PROVE f[k] = IF k = 0 THEN s ELSE SortStep(f[k-1], k)
      <3>1. k = 0 \/ k \in 1 .. m
        BY <1>2
      <3> QED BY <1>6, <2>1, <3>1 DEF RunOf
    <2> QED BY <1>6, <2>2 DEF RunOf
  <1>8. f0 = [k \in 0 .. m |-> IF k = 0 THEN s ELSE SortStep(f0[k-1], k)]
    BY <1>7 DEF f0
  <1>9. f0[0] = s /\ \A k \in 1 .. m : f0[k] = SortStep(f0[k-1], k)
    BY <1>2, <1>8
  <1>10. \A k \in 1 .. m : f0[k-1] \in Q[k-1] => f0[k] \in Q[k]
    BY <1>4, <1>9
  <1>11. \A k \in 0 .. m : f0[k] \in Q[k]
    BY <1>2, <1>3, <1>9, <1>10, LoopKeeps
  <1>12. f0[m] \in X /\ Tops(f0[m], n, m + 1) /\ Last(f0[m], m)
    <2>1. f0[m] \in Q[m]
      BY <1>2, <1>11
    <2> QED BY <1>2, <2>1 DEF Q
  <1>13. Tops(f0[m], n, m)
    <2> DEFINE x == f0[m]
    <2> HIDE DEF x
    <2>1. ASSUME NEW j \in 1 .. n, NEW i \in 1 .. n, m < j, i < j
          PROVE  x[i].deadline <= x[j].deadline
      <3>1. CASE j = m + 1
        BY <1>2, <1>12, <2>1, <3>1 DEF x
      <3>2. CASE j # m + 1
        <4>1. m + 1 < j
          BY <2>1, <3>2
        <4> QED BY <1>12, <2>1, <4>1 DEF Tops, x
      <3> QED BY <3>1, <3>2
    <2> QED BY <2>1 DEF Tops, x
  <1> QED BY <1>1, <1>12, <1>13

\* The two loops stay in every set that exchanging neighbours does not leave, and
\* they bring an earliest deadline to the front.
LEMMA SortSorts ==
    ASSUME NEW J, \A j \in J : j.deadline \in Int,
           NEW n \in Nat \ {0}, NEW X \in SUBSET [1 .. n -> J], SwapClosed(X, n), NEW s \in X
    PROVE  /\ deadline_Sort(s) \in X
           /\ \A k \in 1 .. n : deadline_Sort(s)[1].deadline <= deadline_Sort(s)[k].deadline
  <1> DEFINE Q  == [k \in 0 .. n - 1 |-> {x \in X : Tops(x, n, n - k)}]
             st == [k \in 1 .. (n - 1) |-> [x \in Q[k-1] |-> SortPass(x, n - k)]]
             f0 == CHOOSE f : f = [k \in 0 .. (n - 1) |-> IF k = 0 THEN s
                                                    ELSE SortPass(f[k-1], n - k)]
  <1>0. Len(s) = n
    OBVIOUS
  <1>1. deadline_Sort(s) = f0[(n - 1)]
    BY <1>0 DEF deadline_Sort, Loop
  <1>2. Q \in [0 .. (n - 1) -> SUBSET X] /\ (n - 1) \in Nat
    OBVIOUS
  <1>3. s \in Q[0]
    BY DEF Tops
  <1>4. ASSUME NEW k \in 1 .. (n - 1), NEW x \in Q[k-1] PROVE SortPass(x, n - k) \in Q[k]
    <2>1. /\ x \in X /\ Tops(x, n, n - (k - 1)) /\ n - (k - 1) = (n - k) + 1
          /\ n - k \in Nat /\ n - k < n /\ n \in Nat /\ k \in 0 .. n - 1
      OBVIOUS
    <2> HIDE DEF Q
    <2>2. SortPass(x, n - k) \in X /\ Tops(SortPass(x, n - k), n, n - k)
      BY <2>1, PassSorts
    <2> QED BY <2>1, <2>2 DEF Q
  <1>5. \A k \in 1 .. (n - 1) : \A x \in Q[k-1] : st[k][x] = SortPass(x, n - k)
    OBVIOUS
  <1> HIDE DEF Q, st, f0
  <1>6. PICK f : RunOf(f, s, st, Q, X, (n - 1))
    <2>1. Leading(Q, st, (n - 1))
      BY <1>4, <1>5 DEF Leading
    <2> QED BY <1>2, <1>3, <2>1, LoopExists
  <1>7. f = [k \in 0 .. (n - 1) |-> IF k = 0 THEN s ELSE SortPass(f[k-1], n - k)]
    <2>1. ASSUME NEW k \in 1 .. (n - 1) PROVE f[k] = SortPass(f[k-1], n - k)
      <3>1. k - 1 \in 0 .. (n - 1)
        BY <1>2
      <3>2. f[k-1] \in Q[k-1] /\ f[k] = st[k][f[k-1]]
        BY <1>6, <3>1 DEF RunOf
      <3> QED BY <1>5, <3>2
    <2>2. ASSUME NEW k \in 0 .. (n - 1) PROVE f[k] = IF k = 0 THEN s ELSE SortPass(f[k-1], n - k)
      <3>1. k = 0 \/ k \in 1 .. (n - 1)
        BY <1>2
      <3> QED BY <1>6, <2>1, <3>1 DEF RunOf
    <2> QED BY <1>6, <2>2 DEF RunOf
  <1>8. f0 = [k \in 0 .. (n - 1) |-> IF k = 0 THEN s ELSE SortPass(f0[k-1], n - k)]
    BY <1>7 DEF f0
  <1>9. f0[0] = s /\ \A k \in 1 .. (n - 1) : f0[k] = SortPass(f0[k-1], n - k)
    BY <1>2, <1>8
  <1>10. \A k \in 1 .. (n - 1) : f0[k-1] \in Q[k-1] => f0[k] \in Q[k]
    BY <1>4, <1>9
  <1>11. \A k \in 0 .. (n - 1) : f0[k] \in Q[k]
    BY <1>2, <1>3, <1>9, <1>10, LoopKeeps
  <1> DEFINE z == f0[(n - 1)]
  <1>12. z \in X /\ Tops(z, n, 1)
    <2>1. z \in Q[(n - 1)] /\ n - (n - 1) = 1
      BY <1>2, <1>11
    <2> QED BY <1>2, <2>1 DEF Q
  <1> HIDE DEF z
  <1>13. ASSUME NEW k \in 1 .. n PROVE z[1].deadline <= z[k].deadline
    <2>1. z \in [1 .. n -> J] /\ z[k].deadline \in Int /\ 1 \in 1 .. n
      BY <1>12
    <2>2. CASE k = 1
      BY <2>1, <2>2
    <2>3. CASE k # 1
      BY <1>12, <2>1, <2>3 DEF Tops
    <2> QED BY <2>2, <2>3
  <1> QED BY <1>1, <1>12, <1>13 DEF z

\* Sorting is a permutation, and the first job has an earliest deadline.
LEMMA SortFacts ==
    ASSUME NEW J, \A j \in J : j.deadline \in Int,
           NEW n \in Nat \ {0}, NEW s \in Arrays(J, n)
    PROVE  /\ deadline_Sort(s) \in Arrays(J, n)
           /\ \A k \in 1 .. n : \E m \in 1 .. n : deadline_Sort(s)[k] = s[m]
           /\ \A m \in 1 .. n : \E k \in 1 .. n : deadline_Sort(s)[k] = s[m]
           /\ \A k \in 1 .. n : deadline_Sort(s)[1].deadline <= deadline_Sort(s)[k].deadline
  <1> DEFINE R == {s[m] : m \in 1 .. n}
             X == {x \in Arrays(R, n) : \A m \in 1 .. n : \E k \in 1 .. n : x[k] = s[m]}
  <1>1. s \in [1 .. n -> J] /\ R \subseteq J /\ n \in Nat
    BY DEF Arrays
  <1>2. s \in Arrays(R, n)
    BY DEF Arrays
  <1>3. s \in X
    <2> HIDE DEF R
    <2> QED BY <1>2
  <1>4. SwapClosed(X, n)
    <2>1. ASSUME NEW x \in X, NEW i \in 1 .. n - 1 PROVE SwapAt(x, i) \in X
      <3> DEFINE other == [k \in 1 .. n |-> IF k = i THEN i + 1 ELSE IF k = i + 1 THEN i ELSE k]
                 y == SwapAt(x, i)
      <3> HIDE DEF R
      <3>1. x \in Arrays(R, n) /\ \A m \in 1 .. n : \E k \in 1 .. n : x[k] = s[m]
        OBVIOUS
      <3>2. y \in Arrays(R, n)
        BY <1>1, <3>1, SwapKeeps
      <3>5. x \in [1 .. n -> R] /\ i \in 1 .. n /\ i + 1 \in 1 .. n
        BY <3>1 DEF Arrays
      <3>3. \A k \in 1 .. n : other[k] \in 1 .. n /\ y[other[k]] = x[k]
        BY <3>5 DEF SwapAt
      <3> HIDE DEF y, other
      <3>4. \A m \in 1 .. n : \E k \in 1 .. n : y[k] = s[m]
        <4>1. ASSUME NEW m \in 1 .. n PROVE \E k \in 1 .. n : y[k] = s[m]
          <5>1. PICK k \in 1 .. n : x[k] = s[m]
            BY <3>1
          <5> QED BY <3>3, <5>1
        <4> QED BY <4>1
      <3> QED BY <3>2, <3>4 DEF y
    <2> QED BY <2>1 DEF SwapClosed
  <1>5. X \in SUBSET [1 .. n -> R]
    <2> HIDE DEF R
    <2> QED BY DEF Arrays
  <1>6. \A j \in R : j.deadline \in Int
    BY <1>1
  <1> HIDE DEF R, X
  <1>7. /\ deadline_Sort(s) \in X
        /\ \A k \in 1 .. n : deadline_Sort(s)[1].deadline <= deadline_Sort(s)[k].deadline
    BY <1>3, <1>4, <1>5, <1>6, SortSorts
  <1>8. /\ deadline_Sort(s) \in Arrays(R, n)
        /\ \A m \in 1 .. n : \E k \in 1 .. n : deadline_Sort(s)[k] = s[m]
    BY <1>7 DEF X
  <1>9. /\ deadline_Sort(s) \in Arrays(J, n)
        /\ \A k \in 1 .. n : \E m \in 1 .. n : deadline_Sort(s)[k] = s[m]
    BY <1>1, <1>8 DEF Arrays, R
  <1> QED BY <1>7, <1>8, <1>9

-----------------------------------------------------------------------------
(* Jobs, arrivals and the room for them. *)

Inputs == [cpu : Nat, period : Nat \ {0}]
Records == [pid : Nat \ {0}, CPU_Time : Int, period : Nat, deadline : Int,
            remaining_Time : Int, preempted : Int, age : Nat]
\* The jobs the processes P may have released up to time t.
JobSet(P, t) == {j \in Records : /\ j.pid \in 1 .. Len(P)
                                 /\ j.period = P[j.pid].period
                                 /\ j.age <= t}

\* A period of process p begins.
Due(p) == current_Time % process[p].period = 0

\* The arrivals are a new job of each process whose period begins, and no other.
LEMMA ArrivalFacts ==
    ASSUME process \in Seq(Inputs), current_Time \in Nat
    PROVE  /\ Arrivals \in Seq(JobSet(process, current_Time))
           /\ Distinct(Arrivals)
           /\ \A k \in DOMAIN Arrivals : Arrivals[k].age = current_Time
           /\ (\E i \in 1 .. num_proc : current_Time % process[i].period = 0) => Arrivals # <<>>
           /\ \A k \in DOMAIN Arrivals : \E p \in 1 .. num_proc :
                 Due(p) /\ Arrivals[k] = NewJob(p, current_Time)
           /\ \A p \in 1 .. num_proc : Due(p) =>
                 \E k \in DOMAIN Arrivals : Arrivals[k] = NewJob(p, current_Time)
  <1> DEFINE J == JobSet(process, current_Time)
             New(k) == {x \in Seq(J) :
                          /\ Distinct(x)
                          /\ \A i \in DOMAIN x : x[i].age = current_Time /\ x[i].pid <= k
                          /\ \A i \in DOMAIN x : \E p \in 1 .. k :
                                Due(p) /\ x[i] = NewJob(p, current_Time)
                          /\ \A p \in 1 .. k : Due(p) =>
                                \E i \in DOMAIN x : x[i] = NewJob(p, current_Time)}
             Q  == [k \in 0 .. num_proc |-> New(k)]
             st == [k \in 1 .. num_proc |-> [x \in Q[k-1] |-> Arrived(x, k)]]
             f0 == CHOOSE f : f = [k \in 0 .. num_proc |-> IF k = 0 THEN <<>>
                                                    ELSE Arrived(f[k-1], k)]
  <1>1. Arrivals = f0[num_proc]
    BY DEF Arrivals, Loop
  <1>2. Q \in [0 .. num_proc -> SUBSET Seq(J)] /\ num_proc \in Nat
    BY DEF num_proc
  <1>3. <<>> \in Q[0]
    <2>1. DOMAIN <<>> = {} /\ <<>> \in Seq(J)
      OBVIOUS
    <2> QED BY <2>1, <1>2 DEF Distinct
  <1>4. ASSUME NEW k \in 1 .. num_proc, NEW x \in Q[k-1] PROVE Arrived(x, k) \in Q[k]
    <2>1. /\ x \in Seq(J) /\ Distinct(x) /\ k \in Nat /\ k \in 1 .. num_proc
          /\ \A i \in DOMAIN x : x[i].age = current_Time /\ x[i].pid <= k - 1
          /\ \A i \in DOMAIN x : \E p \in 1 .. k - 1 : Due(p) /\ x[i] = NewJob(p, current_Time)
          /\ \A p \in 1 .. k - 1 : Due(p) => \E i \in DOMAIN x : x[i] = NewJob(p, current_Time)
      BY <1>4, <1>2
    <2>4. \A i \in DOMAIN x : x[i].pid \in Nat
      <3> HIDE DEF J
      <3>1. \A i \in DOMAIN x : x[i] \in J
        BY <2>1
      <3> QED BY <3>1 DEF J, JobSet, Records
    <2>5. \A p \in 1 .. k : p = k \/ p \in 1 .. k - 1
      BY <2>1
    <2>2. CASE Due(k)
      <3> DEFINE j == NewJob(k, current_Time)
                 y == Append(x, j)
      <3>1. process[k] \in Inputs
        BY <2>1 DEF num_proc
      <3>2. j \in J /\ j.age = current_Time /\ j.pid = k
        <4>1. /\ k \in Nat \ {0} /\ k \in 1 .. Len(process) /\ current_Time + process[k].period \in Int
              /\ process[k].cpu \in Int /\ process[k].period \in Nat
          BY <2>1, <3>1 DEF Inputs, num_proc
        <4>2. j \in Records
          BY <4>1 DEF NewJob, Records
        <4> QED BY <4>1, <4>2 DEF NewJob, JobSet
      <3> HIDE DEF j
      <3>3. /\ y \in Seq(J) /\ Len(y) = Len(x) + 1 /\ y[Len(x) + 1] = j /\ y # <<>>
            /\ \A i \in 1 .. Len(x) : y[i] = x[i]
            /\ DOMAIN y = 1 .. Len(x) + 1 /\ DOMAIN x = 1 .. Len(x) /\ Len(x) \in Nat
        BY <2>1, <3>2, SMTT(30)
      <3> HIDE DEF y
      <3>4. \A i \in DOMAIN y : i \in 1 .. Len(x) \/ i = Len(x) + 1
        BY <3>3
      <3>6. \A i \in DOMAIN y : y[i].age = current_Time /\ y[i].pid <= k
        BY <2>1, <2>4, <3>2, <3>3, <3>4, SMTT(30)
      <3>7. \A i \in DOMAIN x : x[i].pid # j.pid
        BY <2>1, <2>4, <3>2
      <3>8. Distinct(y)
        <4>1. Distinct(x) /\ DOMAIN x = 1 .. Len(x) /\ y[Len(x) + 1] = j
              /\ \A i \in 1 .. Len(x) : y[i] = x[i] /\ x[i].pid # j.pid
          BY <2>1, <3>3, <3>7
        <4>2. ASSUME NEW u \in DOMAIN y, NEW w \in DOMAIN y, y[u].pid = y[w].pid, y[u].age = y[w].age
              PROVE  u = w
          <5>1. CASE u \in 1 .. Len(x) /\ w \in 1 .. Len(x)
            BY <4>1, <4>2, <5>1 DEF Distinct
          <5>2. CASE ~(u \in 1 .. Len(x) /\ w \in 1 .. Len(x))
            BY <3>4, <4>1, <4>2, <5>2
          <5> QED BY <5>1, <5>2
        <4> QED BY <4>2 DEF Distinct
      <3>11. \A i \in DOMAIN y : \E p \in 1 .. k : Due(p) /\ y[i] = NewJob(p, current_Time)
        <4>1. \A i \in DOMAIN x : \E p \in 1 .. k : Due(p) /\ x[i] = NewJob(p, current_Time)
          <5>1. \A p \in 1 .. k - 1 : p \in 1 .. k
            BY <2>1
          <5> QED BY <2>1, <5>1
        <4>2. k \in 1 .. k /\ Due(k) /\ y[Len(x) + 1] = NewJob(k, current_Time)
          BY <2>1, <2>2, <3>3 DEF j
        <4>3. DOMAIN x = 1 .. Len(x)
          BY <3>3
        <4>4. \A i \in 1 .. Len(x) : y[i] = x[i]
          BY <3>3
        <4> HIDE DEF Due, NewJob
        <4> QED BY <3>4, <4>1, <4>2, <4>3, <4>4
      <3>12. \A p \in 1 .. k : Due(p) => \E i \in DOMAIN y : y[i] = NewJob(p, current_Time)
        <4>1. \A i \in DOMAIN x : i \in DOMAIN y /\ y[i] = x[i]
          BY <3>3
        <4>2. Len(x) + 1 \in DOMAIN y /\ y[Len(x) + 1] = NewJob(k, current_Time)
          BY <3>3 DEF j
        <4> QED BY <2>1, <2>5, <4>1, <4>2
      <3>9. y \in New(k)
        BY <3>3, <3>6, <3>8, <3>11, <3>12
      <3>10. Arrived(x, k) = y
        BY <2>2 DEF Arrived, Due, y, j
      <3> HIDE DEF New
      <3> QED BY <1>2, <3>9, <3>10
    <2>3. CASE ~Due(k)
      <3>1. Arrived(x, k) = x
        BY <2>3 DEF Arrived, Due
      <3>2. \A i \in DOMAIN x : x[i].pid <= k
        BY <2>1, <2>4
      <3>3. \A i \in DOMAIN x : \E p \in 1 .. k : Due(p) /\ x[i] = NewJob(p, current_Time)
        <4>1. \A p \in 1 .. k - 1 : p \in 1 .. k
          BY <2>1
        <4> QED BY <2>1, <4>1
      <3>4. \A p \in 1 .. k : Due(p) => \E i \in DOMAIN x : x[i] = NewJob(p, current_Time)
        BY <2>1, <2>3, <2>5
      <3>5. x \in New(k)
        BY <2>1, <3>2, <3>3, <3>4
      <3> HIDE DEF New
      <3> QED BY <1>2, <3>1, <3>5
    <2> QED BY <2>2, <2>3
  <1>5. \A k \in 1 .. num_proc : \A x \in Q[k-1] : st[k][x] = Arrived(x, k)
    OBVIOUS
  <1> HIDE DEF Q, st, f0
  <1>6. PICK f : RunOf(f, <<>>, st, Q, Seq(J), num_proc)
    <2>1. Leading(Q, st, num_proc)
      BY <1>4, <1>5 DEF Leading
    <2> QED BY <1>2, <1>3, <2>1, LoopExists
  <1>7. f = [k \in 0 .. num_proc |-> IF k = 0 THEN <<>> ELSE Arrived(f[k-1], k)]
    <2>1. ASSUME NEW k \in 1 .. num_proc PROVE f[k] = Arrived(f[k-1], k)
      <3>1. k - 1 \in 0 .. num_proc
        BY <1>2
      <3>2. f[k-1] \in Q[k-1] /\ f[k] = st[k][f[k-1]]
        BY <1>6, <3>1 DEF RunOf
      <3> QED BY <1>5, <3>2
    <2>2. ASSUME NEW k \in 0 .. num_proc PROVE f[k] = IF k = 0 THEN <<>> ELSE Arrived(f[k-1], k)
      <3>1. k = 0 \/ k \in 1 .. num_proc
        BY <1>2
      <3> QED BY <1>6, <2>1, <3>1 DEF RunOf
    <2> QED BY <1>6, <2>2 DEF RunOf
  <1>8. f0 = [k \in 0 .. num_proc |-> IF k = 0 THEN <<>> ELSE Arrived(f0[k-1], k)]
    BY <1>7 DEF f0
  <1>9. f0[0] = <<>> /\ \A k \in 1 .. num_proc : f0[k] = Arrived(f0[k-1], k)
    BY <1>2, <1>8
  <1>10. \A k \in 1 .. num_proc : f0[k-1] \in Q[k-1] => f0[k] \in Q[k]
    BY <1>4, <1>9
  <1>11. \A k \in 0 .. num_proc : f0[k] \in Q[k]
    BY <1>2, <1>3, <1>9, <1>10, LoopKeeps
  <1>12. f0[num_proc] \in Q[num_proc]
    BY <1>2, <1>11
  <1>13. Arrivals \in New(num_proc)
    BY <1>1, <1>2, <1>12 DEF Q
  <1>14. (\E i \in 1 .. num_proc : current_Time % process[i].period = 0) => Arrivals # <<>>
    <2>1. ASSUME NEW i \in 1 .. num_proc, Due(i) PROVE Arrivals # <<>>
      <3>1. \E k \in DOMAIN Arrivals : TRUE
        BY <1>13, <2>1
      <3> QED BY <3>1
    <2> QED BY <2>1 DEF Due
  <1> QED BY <1>13, <1>14

\* The room doubles in time for every arrival.
LEMMA GrownFacts ==
    ASSUME max_Size \in Nat \ {0}, Len(Left) \in Nat, Len(Left) <= max_Size,
           Len(Arrivals) \in Nat
    PROVE  Grown \in Nat \ {0} /\ Len(Left) + Len(Arrivals) <= Grown
  <1> DEFINE Q  == [k \in 0 .. Len(Arrivals) |-> {r \in Nat \ {0} : Len(Left) + k <= r}]
             st == [k \in 1 .. Len(Arrivals) |-> [x \in Q[k-1] |-> RoomFor(Len(Left) + k - 1, x)]]
             f0 == CHOOSE f : f = [k \in 0 .. Len(Arrivals) |-> IF k = 0 THEN max_Size
                                                    ELSE RoomFor(Len(Left) + k - 1, f[k-1])]
  <1>1. Grown = f0[Len(Arrivals)]
    BY DEF Grown, Loop
  <1>2. Q \in [0 .. Len(Arrivals) -> SUBSET (Nat \ {0})] /\ Len(Arrivals) \in Nat
    OBVIOUS
  <1>3. max_Size \in Q[0]
    OBVIOUS
  <1>4. ASSUME NEW k \in 1 .. Len(Arrivals), NEW x \in Q[k-1] PROVE RoomFor(Len(Left) + k - 1, x) \in Q[k]
    <2>1. x \in Nat \ {0} /\ Len(Left) + k - 1 <= x /\ k \in Nat /\ Len(Left) + k - 1 \in Nat
      BY <1>4
    <2>2. /\ RoomFor(Len(Left) + k - 1, x) \in Nat \ {0}
          /\ Len(Left) + k <= RoomFor(Len(Left) + k - 1, x)
      BY <2>1 DEF RoomFor
    <2> QED BY <2>2
  <1>5. \A k \in 1 .. Len(Arrivals) : \A x \in Q[k-1] : st[k][x] = RoomFor(Len(Left) + k - 1, x)
    OBVIOUS
  <1> HIDE DEF Q, st, f0
  <1>6. PICK f : RunOf(f, max_Size, st, Q, (Nat \ {0}), Len(Arrivals))
    <2>1. Leading(Q, st, Len(Arrivals))
      BY <1>4, <1>5 DEF Leading
    <2> QED BY <1>2, <1>3, <2>1, LoopExists
  <1>7. f = [k \in 0 .. Len(Arrivals) |-> IF k = 0 THEN max_Size ELSE RoomFor(Len(Left) + k - 1, f[k-1])]
    <2>1. ASSUME NEW k \in 1 .. Len(Arrivals) PROVE f[k] = RoomFor(Len(Left) + k - 1, f[k-1])
      <3>1. k - 1 \in 0 .. Len(Arrivals)
        BY <1>2
      <3>2. f[k-1] \in Q[k-1] /\ f[k] = st[k][f[k-1]]
        BY <1>6, <3>1 DEF RunOf
      <3> QED BY <1>5, <3>2
    <2>2. ASSUME NEW k \in 0 .. Len(Arrivals) PROVE f[k] = IF k = 0 THEN max_Size ELSE RoomFor(Len(Left) + k - 1, f[k-1])
      <3>1. k = 0 \/ k \in 1 .. Len(Arrivals)
        BY <1>2
      <3> QED BY <1>6, <2>1, <3>1 DEF RunOf
    <2> QED BY <1>6, <2>2 DEF RunOf
  <1>8. f0 = [k \in 0 .. Len(Arrivals) |-> IF k = 0 THEN max_Size ELSE RoomFor(Len(Left) + k - 1, f0[k-1])]
    BY <1>7 DEF f0
  <1>9. f0[0] = max_Size /\ \A k \in 1 .. Len(Arrivals) : f0[k] = RoomFor(Len(Left) + k - 1, f0[k-1])
    BY <1>2, <1>8
  <1>10. \A k \in 1 .. Len(Arrivals) : f0[k-1] \in Q[k-1] => f0[k] \in Q[k]
    BY <1>4, <1>9
  <1>11. \A k \in 0 .. Len(Arrivals) : f0[k] \in Q[k]
    BY <1>2, <1>3, <1>9, <1>10, LoopKeeps
  <1>12. f0[Len(Arrivals)] \in Q[Len(Arrivals)]
    BY <1>2, <1>11
  <1> QED BY <1>1, <1>12 DEF Q

-----------------------------------------------------------------------------
(* Printing. *)

Before(x, y) == x.age < y.age \/ (x.age = y.age /\ x.pid < y.pid)
Ordered(o) == \A k, m \in DOMAIN o : k < m => Before(o[k], o[m])
\* The sequences of jobs that show the jobs of s at the places D, in order.
Shows(s, J, D) == {o \in Seq(J) : /\ Ordered(o)
                                  /\ \A k \in DOMAIN o : \E m \in D : o[k] = s[m]
                                  /\ \A m \in D : \E k \in DOMAIN o : o[k] = s[m]}
\* The places of s the loops have dealt with.
UpTo(s, age, pid, i) ==
    {m \in DOMAIN s : \/ s[m].age < age
                      \/ s[m].age = age /\ s[m].pid < pid
                      \/ s[m].age = age /\ s[m].pid = pid /\ m <= i}

LEMMA PrintJobKeeps ==
    ASSUME NEW J \in SUBSET Records, NEW n \in Nat, NEW s \in Arrays(J, n),
           NEW age \in Nat, NEW pid \in Nat, NEW i \in 1 .. n,
           NEW o \in Shows(s, J, UpTo(s, age, pid, i - 1))
    PROVE  PrintJob(s, age, pid, o, i) \in Shows(s, J, UpTo(s, age, pid, i))
  <1>1. /\ DOMAIN s = 1 .. n /\ Distinct(s) /\ \A m \in 1 .. n : s[m] \in J
    BY DEF Arrays
  <1>2. \A j \in J : j.age \in Nat /\ j.pid \in Nat
    BY DEF Records
  <1> DEFINE C == UpTo(s, age, pid, i - 1)
             D == UpTo(s, age, pid, i)
  <1>3. /\ o \in Seq(J) /\ Ordered(o)
        /\ \A k \in DOMAIN o : \E m \in C : o[k] = s[m]
        /\ \A m \in C : \E k \in DOMAIN o : o[k] = s[m]
    BY DEF Shows
  <1>4. CASE s[i].pid = pid /\ s[i].age = age
    <2> DEFINE p == Append(o, s[i])
    <2>1. D = C \cup {i}
      BY <1>1, <1>2, <1>4 DEF UpTo
    <2>2. \A m \in C : m \in 1 .. n /\ Before(s[m], s[i])
      <3>1. ASSUME NEW m \in C PROVE m \in 1 .. n /\ Before(s[m], s[i])
        <4>1. m \in 1 .. n /\ (s[m].age = age /\ s[m].pid = pid => m <= i - 1)
          BY <1>1, <1>2 DEF UpTo
        <4>2. ~(s[m].age = age /\ s[m].pid = pid)
          BY <1>1, <1>4, <4>1 DEF Distinct
        <4> QED BY <1>4, <4>1, <4>2 DEF UpTo, Before
      <3> QED BY <3>1
    <2>3. /\ p \in Seq(J) /\ DOMAIN p = 1 .. Len(o) + 1 /\ p[Len(o) + 1] = s[i]
          /\ DOMAIN o = 1 .. Len(o) /\ Len(o) \in Nat /\ \A k \in 1 .. Len(o) : p[k] = o[k]
      BY <1>1, <1>3
    <2> HIDE DEF p, C, D
    <2>4. \A k \in DOMAIN p : k \in 1 .. Len(o) \/ k = Len(o) + 1
      BY <2>3
    <2>5. \A k \in 1 .. Len(o) : Before(p[k], s[i])
      <3>1. ASSUME NEW k \in 1 .. Len(o) PROVE Before(p[k], s[i])
        <4>1. p[k] = o[k] /\ k \in DOMAIN o
          BY <2>3
        <4>2. PICK m \in C : o[k] = s[m]
          BY <1>3, <4>1
        <4> QED BY <2>2, <4>1, <4>2
      <3> QED BY <3>1
    <2>6. Ordered(p)
      <3>1. ASSUME NEW k \in DOMAIN p, NEW m \in DOMAIN p, k < m PROVE Before(p[k], p[m])
        <4>1. CASE m \in 1 .. Len(o)
          <5>1. k \in 1 .. Len(o)
            BY <2>3, <3>1, <4>1
          <5> QED BY <1>3, <2>3, <3>1, <4>1, <5>1 DEF Ordered
        <4>2. CASE m = Len(o) + 1
          <5>1. k \in 1 .. Len(o)
            BY <2>3, <2>4, <3>1, <4>2
          <5> QED BY <2>3, <2>5, <4>2, <5>1
        <4> QED BY <2>4, <4>1, <4>2
      <3> QED BY <3>1 DEF Ordered
    <2>7. \A k \in DOMAIN p : \E m \in D : p[k] = s[m]
      <3>1. ASSUME NEW k \in 1 .. Len(o) PROVE \E m \in C : p[k] = s[m]
        BY <1>3, <2>3, SMTT(30)
      <3> QED BY <2>1, <2>3, <2>4, <3>1
    <2>8. \A m \in D : \E k \in DOMAIN p : p[k] = s[m]
      <3>1. \A m \in C : \E k \in DOMAIN p : p[k] = s[m]
        <4>1. \A k \in DOMAIN o : k \in DOMAIN p /\ p[k] = o[k]
          BY <2>3
        <4> QED BY <1>3, <4>1
      <3>2. Len(o) + 1 \in DOMAIN p
        BY <2>3
      <3> QED BY <2>1, <2>3, <3>1, <3>2
    <2>9. p \in Shows(s, J, D)
      BY <2>3, <2>6, <2>7, <2>8 DEF Shows
    <2> QED BY <1>4, <2>9 DEF PrintJob, p, D
  <1>5. CASE ~(s[i].pid = pid /\ s[i].age = age)
    <2>1. D = C
      <3>1. \A m \in 1 .. n : (m <= i <=> m <= i - 1 \/ m = i)
        OBVIOUS
      <3> QED BY <1>1, <1>5, <3>1 DEF UpTo
    <2> QED BY <1>5, <2>1 DEF PrintJob
  <1> QED BY <1>4, <1>5

LEMMA PrintProcessKeeps ==
    ASSUME NEW J \in SUBSET Records, NEW n \in Nat, NEW s \in Arrays(J, n),
           NEW age \in Nat, NEW pid \in Nat, NEW o \in Shows(s, J, UpTo(s, age, pid, 0))
    PROVE  PrintProcess(s, age, o, pid) \in Shows(s, J, UpTo(s, age, pid, n))
  <1> DEFINE Q  == [k \in 0 .. n |-> Shows(s, J, UpTo(s, age, pid, k))]
             st == [k \in 1 .. n |-> [x \in Q[k-1] |-> PrintJob(s, age, pid, x, k)]]
             f0 == CHOOSE f : f = [k \in 0 .. n |-> IF k = 0 THEN o
                                                    ELSE PrintJob(s, age, pid, f[k-1], k)]
  <1>0. Len(s) = n
    BY DEF Arrays
  <1>1. PrintProcess(s, age, o, pid) = f0[n]
    BY <1>0 DEF PrintProcess, Loop
  <1>2. Q \in [0 .. n -> SUBSET Seq(J)] /\ n \in Nat
    BY DEF Shows
  <1>3. o \in Q[0]
    OBVIOUS
  <1>4. ASSUME NEW k \in 1 .. n, NEW x \in Q[k-1] PROVE PrintJob(s, age, pid, x, k) \in Q[k]
    <2>1. x \in Shows(s, J, UpTo(s, age, pid, k - 1)) /\ k - 1 \in 0 .. n
      BY <1>4
    <2> QED BY <2>1, PrintJobKeeps
  <1>5. \A k \in 1 .. n : \A x \in Q[k-1] : st[k][x] = PrintJob(s, age, pid, x, k)
    OBVIOUS
  <1> HIDE DEF Q, st, f0
  <1>6. PICK f : RunOf(f, o, st, Q, Seq(J), n)
    <2>1. Leading(Q, st, n)
      BY <1>4, <1>5 DEF Leading
    <2> QED BY <1>2, <1>3, <2>1, LoopExists
  <1>7. f = [k \in 0 .. n |-> IF k = 0 THEN o ELSE PrintJob(s, age, pid, f[k-1], k)]
    <2>1. ASSUME NEW k \in 1 .. n PROVE f[k] = PrintJob(s, age, pid, f[k-1], k)
      <3>1. k - 1 \in 0 .. n
        BY <1>2
      <3>2. f[k-1] \in Q[k-1] /\ f[k] = st[k][f[k-1]]
        BY <1>6, <3>1 DEF RunOf
      <3> QED BY <1>5, <3>2
    <2>2. ASSUME NEW k \in 0 .. n PROVE f[k] = IF k = 0 THEN o ELSE PrintJob(s, age, pid, f[k-1], k)
      <3>1. k = 0 \/ k \in 1 .. n
        BY <1>2
      <3> QED BY <1>6, <2>1, <3>1 DEF RunOf
    <2> QED BY <1>6, <2>2 DEF RunOf
  <1>8. f0 = [k \in 0 .. n |-> IF k = 0 THEN o ELSE PrintJob(s, age, pid, f0[k-1], k)]
    BY <1>7 DEF f0
  <1>9. f0[0] = o /\ \A k \in 1 .. n : f0[k] = PrintJob(s, age, pid, f0[k-1], k)
    BY <1>2, <1>8
  <1>10. \A k \in 1 .. n : f0[k-1] \in Q[k-1] => f0[k] \in Q[k]
    BY <1>4, <1>9
  <1>11. \A k \in 0 .. n : f0[k] \in Q[k]
    BY <1>2, <1>3, <1>9, <1>10, LoopKeeps
  <1>12. f0[n] \in Q[n]
    BY <1>2, <1>11
  <1> QED BY <1>1, <1>2, <1>12 DEF Q

LEMMA PrintAgeKeeps ==
    ASSUME NEW J \in SUBSET Records, NEW n \in Nat, NEW s \in Arrays(J, n), num_proc \in Nat,
           \A j \in J : j.pid \in 1 .. num_proc,
           NEW age \in Nat, NEW o \in Shows(s, J, UpTo(s, age, 1, 0))
    PROVE  PrintAge(s, o, age) \in Shows(s, J, UpTo(s, age + 1, 1, 0))
  <1> DEFINE Q  == [k \in 0 .. num_proc |-> Shows(s, J, UpTo(s, age, k + 1, 0))]
             st == [k \in 1 .. num_proc |-> [x \in Q[k-1] |-> PrintProcess(s, age, x, k)]]
             f0 == CHOOSE f : f = [k \in 0 .. num_proc |-> IF k = 0 THEN o
                                                    ELSE PrintProcess(s, age, f[k-1], k)]
  <1>0. /\ DOMAIN s = 1 .. n
        /\ \A m \in 1 .. n : s[m].age \in Nat /\ s[m].pid \in 1 .. num_proc /\ s[m].pid \in Nat
    BY DEF Arrays, Records
  <1>1. PrintAge(s, o, age) = f0[num_proc]
    BY DEF PrintAge, Loop
  <1>2. Q \in [0 .. num_proc -> SUBSET Seq(J)] /\ num_proc \in Nat
    BY DEF Shows
  <1>3. o \in Q[0]
    OBVIOUS
  <1>4. ASSUME NEW k \in 1 .. num_proc, NEW x \in Q[k-1] PROVE PrintProcess(s, age, x, k) \in Q[k]
    <2>1. x \in Shows(s, J, UpTo(s, age, k, 0)) /\ k \in Nat
      BY <1>4
    <2>2. PrintProcess(s, age, x, k) \in Shows(s, J, UpTo(s, age, k, n))
      BY <2>1, PrintProcessKeeps
    <2>3. UpTo(s, age, k, n) = UpTo(s, age, k + 1, 0)
      BY <1>0, <2>1 DEF UpTo
    <2>4. k \in 0 .. num_proc
      BY <2>1
    <2> QED BY <2>2, <2>3, <2>4
  <1>5. \A k \in 1 .. num_proc : \A x \in Q[k-1] : st[k][x] = PrintProcess(s, age, x, k)
    OBVIOUS
  <1> HIDE DEF Q, st, f0
  <1>6. PICK f : RunOf(f, o, st, Q, Seq(J), num_proc)
    <2>1. Leading(Q, st, num_proc)
      BY <1>4, <1>5 DEF Leading
    <2> QED BY <1>2, <1>3, <2>1, LoopExists
  <1>7. f = [k \in 0 .. num_proc |-> IF k = 0 THEN o ELSE PrintProcess(s, age, f[k-1], k)]
    <2>1. ASSUME NEW k \in 1 .. num_proc PROVE f[k] = PrintProcess(s, age, f[k-1], k)
      <3>1. k - 1 \in 0 .. num_proc
        BY <1>2
      <3>2. f[k-1] \in Q[k-1] /\ f[k] = st[k][f[k-1]]
        BY <1>6, <3>1 DEF RunOf
      <3> QED BY <1>5, <3>2
    <2>2. ASSUME NEW k \in 0 .. num_proc PROVE f[k] = IF k = 0 THEN o ELSE PrintProcess(s, age, f[k-1], k)
      <3>1. k = 0 \/ k \in 1 .. num_proc
        BY <1>2
      <3> QED BY <1>6, <2>1, <3>1 DEF RunOf
    <2> QED BY <1>6, <2>2 DEF RunOf
  <1>8. f0 = [k \in 0 .. num_proc |-> IF k = 0 THEN o ELSE PrintProcess(s, age, f0[k-1], k)]
    BY <1>7 DEF f0
  <1>9. f0[0] = o /\ \A k \in 1 .. num_proc : f0[k] = PrintProcess(s, age, f0[k-1], k)
    BY <1>2, <1>8
  <1>10. \A k \in 1 .. num_proc : f0[k-1] \in Q[k-1] => f0[k] \in Q[k]
    BY <1>4, <1>9
  <1>11. \A k \in 0 .. num_proc : f0[k] \in Q[k]
    BY <1>2, <1>3, <1>9, <1>10, LoopKeeps
  <1>12. f0[num_proc] \in Q[num_proc]
    BY <1>2, <1>11
  <1>13. UpTo(s, age, num_proc + 1, 0) = UpTo(s, age + 1, 1, 0)
    BY <1>0 DEF UpTo
  <1> QED BY <1>1, <1>2, <1>12, <1>13 DEF Q

LEMMA PrintFacts ==
    ASSUME NEW J \in SUBSET Records, NEW n \in Nat, NEW s \in Arrays(J, n), num_proc \in Nat,
           current_Time \in Nat,
           \A j \in J : j.pid \in 1 .. num_proc /\ j.age <= current_Time
    PROVE  printSchedule(s) \in Shows(s, J, 1 .. n)
  <1> DEFINE Q  == [k \in 0 .. current_Time + 1 |-> Shows(s, J, UpTo(s, k, 1, 0))]
             st == [k \in 1 .. (current_Time + 1) |-> [x \in Q[k-1] |-> PrintAge(s, x, k - 1)]]
             f0 == CHOOSE f : f = [k \in 0 .. (current_Time + 1) |-> IF k = 0 THEN <<>>
                                                    ELSE PrintAge(s, f[k-1], k - 1)]
  <1>0. /\ DOMAIN s = 1 .. n
        /\ \A m \in 1 .. n : /\ s[m].age \in Nat /\ s[m].pid \in Nat /\ s[m].pid >= 1
                             /\ s[m].age <= current_Time
    BY DEF Arrays, Records
  <1>1. printSchedule(s) = f0[(current_Time + 1)]
    BY DEF printSchedule, Loop
  <1>2. Q \in [0 .. (current_Time + 1) -> SUBSET Seq(J)] /\ (current_Time + 1) \in Nat
    BY DEF Shows
  <1>3. <<>> \in Q[0]
    <2>1. UpTo(s, 0, 1, 0) = {}
      BY <1>0 DEF UpTo
    <2>2. <<>> \in Seq(J) /\ DOMAIN <<>> = {}
      OBVIOUS
    <2>3. <<>> \in Shows(s, J, {})
      BY <2>2 DEF Shows, Ordered
    <2>4. 0 \in 0 .. current_Time + 1
      OBVIOUS
    <2> QED BY <2>1, <2>3, <2>4
  <1>4. ASSUME NEW k \in 1 .. (current_Time + 1), NEW x \in Q[k-1] PROVE PrintAge(s, x, k - 1) \in Q[k]
    <2>1. x \in Shows(s, J, UpTo(s, k - 1, 1, 0)) /\ k - 1 \in Nat /\ (k - 1) + 1 = k
      BY <1>4
    <2>2. PrintAge(s, x, k - 1) \in Shows(s, J, UpTo(s, (k - 1) + 1, 1, 0))
      BY <2>1, PrintAgeKeeps
    <2>3. k \in 0 .. current_Time + 1
      BY <2>1
    <2> QED BY <2>1, <2>2, <2>3
  <1>5. \A k \in 1 .. (current_Time + 1) : \A x \in Q[k-1] : st[k][x] = PrintAge(s, x, k - 1)
    OBVIOUS
  <1> HIDE DEF Q, st, f0
  <1>6. PICK f : RunOf(f, <<>>, st, Q, Seq(J), (current_Time + 1))
    <2>1. Leading(Q, st, (current_Time + 1))
      BY <1>4, <1>5 DEF Leading
    <2> QED BY <1>2, <1>3, <2>1, LoopExists
  <1>7. f = [k \in 0 .. (current_Time + 1) |-> IF k = 0 THEN <<>> ELSE PrintAge(s, f[k-1], k - 1)]
    <2>1. ASSUME NEW k \in 1 .. (current_Time + 1) PROVE f[k] = PrintAge(s, f[k-1], k - 1)
      <3>1. k - 1 \in 0 .. (current_Time + 1)
        BY <1>2
      <3>2. f[k-1] \in Q[k-1] /\ f[k] = st[k][f[k-1]]
        BY <1>6, <3>1 DEF RunOf
      <3> QED BY <1>5, <3>2
    <2>2. ASSUME NEW k \in 0 .. (current_Time + 1) PROVE f[k] = IF k = 0 THEN <<>> ELSE PrintAge(s, f[k-1], k - 1)
      <3>1. k = 0 \/ k \in 1 .. (current_Time + 1)
        BY <1>2
      <3> QED BY <1>6, <2>1, <3>1 DEF RunOf
    <2> QED BY <1>6, <2>2 DEF RunOf
  <1>8. f0 = [k \in 0 .. (current_Time + 1) |-> IF k = 0 THEN <<>> ELSE PrintAge(s, f0[k-1], k - 1)]
    BY <1>7 DEF f0
  <1>9. f0[0] = <<>> /\ \A k \in 1 .. (current_Time + 1) : f0[k] = PrintAge(s, f0[k-1], k - 1)
    BY <1>2, <1>8
  <1>10. \A k \in 1 .. (current_Time + 1) : f0[k-1] \in Q[k-1] => f0[k] \in Q[k]
    BY <1>4, <1>9
  <1>11. \A k \in 0 .. (current_Time + 1) : f0[k] \in Q[k]
    BY <1>2, <1>3, <1>9, <1>10, LoopKeeps
  <1>12. f0[(current_Time + 1)] \in Q[(current_Time + 1)]
    BY <1>2, <1>11
  <1>13. UpTo(s, current_Time + 1, 1, 0) = 1 .. n
    BY <1>0 DEF UpTo
  <1> QED BY <1>1, <1>2, <1>12, <1>13 DEF Q

-----------------------------------------------------------------------------
(* The invariant. *)

\* The last tick at which jobs were released.
LastTick == IF current_Time = 0 THEN 0 ELSE current_Time - 1
SameJob(x, y) == x.pid = y.pid /\ x.age = y.age

EInv ==
    /\ process \in Seq(Inputs) /\ process # <<>> /\ current_Time \in Nat
    /\ Len(schedule) \in Nat
    /\ schedule \in Arrays(JobSet(process, LastTick), Len(schedule))
    /\ max_Size \in Nat \ {0} /\ NeverOverfull
    /\ CopyAgrees
    /\ printed \in Seq(Records) /\ Ordered(printed)
    /\ current_Time > 0 =>
          \A k \in DOMAIN schedule : \E m \in DOMAIN printed : SameJob(printed[m], schedule[k])

\* A preemption renames no job.
LEMMA PreemptKeeps ==
    ASSUME NEW P, NEW t, NEW n \in Nat, NEW s \in Arrays(JobSet(P, t), n), NEW w,
           current_Time \in Nat
    PROVE  /\ setPreempt(s, w) \in Arrays(JobSet(P, t), n)
           /\ \A k \in 1 .. n : SameJob(setPreempt(s, w)[k], s[k])
           /\ n > 0 /\ s[1] # w => setPreempt(s, w)[1] = s[1]
  <1> DEFINE p == setPreempt(s, w)
  <1>1. s \in [1 .. n -> JobSet(P, t)] /\ Distinct(s) /\ DOMAIN s = 1 .. n
    BY DEF Arrays
  <1>2. DOMAIN p = 1 .. n /\ p = [k \in 1 .. n |-> p[k]]
    BY <1>1 DEF setPreempt
  <1>3. ASSUME NEW k \in 1 .. n PROVE p[k] \in JobSet(P, t) /\ SameJob(p[k], s[k])
    <2> DEFINE j == s[k]
               q == [j EXCEPT !.preempted = current_Time]
    <2>1. p[k] = IF j = w THEN q ELSE j
      BY <1>1 DEF setPreempt
    <2>2. j \in JobSet(P, t)
      BY <1>1
    <2> HIDE DEF p, j
    <2>3. /\ q \in Records /\ q.pid = j.pid /\ q.age = j.age /\ q.period = j.period
          /\ j \in Records
      BY <2>2, SMTT(30) DEF JobSet, Records
    <2>4. q \in JobSet(P, t)
      <3> HIDE DEF q
      <3> QED BY <2>2, <2>3 DEF JobSet
    <2> HIDE DEF q
    <2>5. p[k] \in JobSet(P, t) /\ SameJob(p[k], j)
      BY <2>1, <2>2, <2>3, <2>4 DEF SameJob
    <2> QED BY <2>5 DEF j
  <1>4. n > 0 /\ s[1] # w => p[1] = s[1]
    BY <1>1 DEF setPreempt
  <1> HIDE DEF p
  <1>5. p \in [1 .. n -> JobSet(P, t)]
    BY <1>2, <1>3
  <1>6. Distinct(p)
    BY <1>1, <1>2, <1>3 DEF Distinct, SameJob
  <1>7. p \in Arrays(JobSet(P, t), n)
    BY <1>5, <1>6 DEF Arrays
  <1> QED BY <1>3, <1>4, <1>7 DEF p

\* After one tick for the first job of s, of which r is the copy.
LEMMA RunForInv ==
    ASSUME NEW s, NEW r, process \in Seq(Inputs), process # <<>>, current_Time \in Nat,
           Len(s) \in Nat, s \in Arrays(JobSet(process, current_Time), Len(s)),
           max_Size' \in Nat \ {0}, Len(s) <= max_Size',
           IF s = <<>> THEN r.pid = 0 ELSE r = s[1],
           printed' \in Seq(Records), Ordered(printed'),
           \A k \in DOMAIN s : \E m \in DOMAIN printed' : SameJob(printed'[m], s[k]),
           RunFor(s, r)
    PROVE  EInv'
  <1> DEFINE J == JobSet(process, current_Time)
             n == Len(s)
  <1>1. /\ current_Time' = current_Time + 1 /\ process' = process
        /\ JobSet(process, LastTick)' = J
        /\ current_Time' \in Nat /\ current_Time' > 0
    BY DEF RunFor, LastTick
  <1>2. s \in [1 .. n -> J] /\ Distinct(s) /\ DOMAIN s = 1 .. n
    BY DEF Arrays
  <1>3. CASE s = <<>>
    <2>1. schedule' = <<>> /\ running' = r
      BY <1>3 DEF RunFor
    <2>2. Len(schedule') = 0 /\ schedule' \in Arrays(J, 0) /\ DOMAIN schedule' = {}
      <3>1. n = 0
        BY <1>3
      <3> QED BY <1>2, <2>1, <1>3, <3>1 DEF Arrays
    <2>3. NeverOverfull'
      BY <2>2 DEF NeverOverfull
    <2>4. CopyAgrees'
      BY <1>1, <1>3, <2>1 DEF CopyAgrees
    <2> HIDE DEF J
    <2> QED BY <1>1, <2>2, <2>3, <2>4 DEF EInv
  <1>4. CASE s # <<>>
    <2> DEFINE j == s[1]
               q == [j EXCEPT !.remaining_Time = @ - 1]
               t == [s EXCEPT ![1] = q]
    <2>1. n > 0 /\ 1 \in 1 .. n
      BY <1>2, <1>4
    <2>2. schedule' = t
      BY <1>4, <1>2, <2>1 DEF RunFor
    <2>3. running' = q
      BY <1>4 DEF RunFor
    <2>4. j \in J
      BY <1>2, <2>1
    <2> HIDE DEF j
    <2>5. /\ q \in Records /\ q.pid = j.pid /\ q.age = j.age /\ q.period = j.period
          /\ j \in Records
      <3>1. j \in Records
        BY <2>4 DEF JobSet
      <3>2. j.remaining_Time - 1 \in Int
        BY <3>1 DEF Records
      <3> QED BY <3>1, <3>2 DEF Records
    <2>6. q \in J
      <3> HIDE DEF q
      <3> QED BY <2>4, <2>5 DEF JobSet
    <2> HIDE DEF q, J
    <2>7. t \in [1 .. n -> J] /\ t[1] = q /\ DOMAIN t = 1 .. n
      BY <1>2, <2>1, <2>6
    <2>8. \A k \in 1 .. n : SameJob(t[k], s[k])
      BY <1>2, <2>1, <2>5 DEF SameJob, j
    <2> HIDE DEF t
    <2>9. Len(t) = n /\ t # <<>>
      BY <2>1, <2>7
    <2>10. Distinct(t)
      BY <1>2, <2>7, <2>8 DEF Distinct, SameJob
    <2>11. schedule' \in Arrays(J, n)
      BY <2>2, <2>7, <2>10 DEF Arrays
    <2>12. NeverOverfull'
      BY <2>2, <2>9 DEF NeverOverfull
    <2>13. CopyAgrees'
      BY <2>2, <2>3, <2>7, <2>9 DEF CopyAgrees
    <2>14. \A k \in DOMAIN schedule' : \E m \in DOMAIN printed' : SameJob(printed'[m], schedule'[k])
      BY <1>2, <2>2, <2>7, <2>8 DEF SameJob
    <2> QED BY <1>1, <2>2, <2>9, <2>11, <2>12, <2>13, <2>14 DEF EInv
  <1> QED BY <1>3, <1>4

-----------------------------------------------------------------------------
(* The steps. *)

LEMMA JobSetGrows ==
    ASSUME NEW P, NEW t \in Nat, NEW u \in Nat, t <= u
    PROVE  JobSet(P, t) \subseteq JobSet(P, u)
  BY DEF JobSet, Records

\* check_Event takes the job that has ended from the array and from the copy.
LEMMA LeftFacts ==
    ASSUME EInv, MiddleEvent
    PROVE  /\ Len(Left) \in Nat /\ Len(Left) <= max_Size
           /\ Left \in Arrays(JobSet(process, current_Time - 1), Len(Left))
           /\ \A k \in DOMAIN Left : \E m \in DOMAIN schedule : Left[k] = schedule[m]
           /\ Left = <<>> => Resting.pid = 0
           /\ Resting.pid # 0 => Left # <<>> /\ Resting = Left[1]
  <1> DEFINE n == Len(schedule)
             J == JobSet(process, current_Time - 1)
  <1>1. /\ schedule \in [1 .. n -> J] /\ Distinct(schedule) /\ n \in Nat /\ n <= max_Size
        /\ DOMAIN schedule = 1 .. n /\ max_Size \in Nat
    BY DEF EInv, MiddleEvent, LastTick, Arrays, NeverOverfull
  <1>2. schedule = <<>> => running.pid = 0
    BY DEF EInv, CopyAgrees
  <1>3. schedule # <<>> => running = schedule[1] /\ n > 0 /\ schedule[1] \in J
    BY <1>1 DEF EInv, CopyAgrees
  <1>4. CASE Ends
    <2>1. schedule # <<>> /\ n > 0 /\ schedule[1] \in Records
      BY <1>2, <1>3, <1>4 DEF Ends, JobSet
    <2>2. Left = Tail(schedule) /\ Resting.pid = 0
      BY <1>3, <1>4, <2>1 DEF Left, Resting, Records
    <2>3. /\ Len(Left) = n - 1 /\ DOMAIN Left = 1 .. n - 1
          /\ \A k \in 1 .. n - 1 : Left[k] = schedule[k+1] /\ k + 1 \in 1 .. n
      <3>1. schedule \in Seq(J)
        BY <1>1
      <3> QED BY <1>1, <2>1, <2>2, <3>1
    <2>4. Left \in [1 .. n - 1 -> J]
      <3>1. schedule \in Seq(J)
        BY <1>1
      <3>2. Left \in Seq(J)
        <4> HIDE DEF J
        <4> QED BY <2>1, <2>2, <3>1
      <3> HIDE DEF n, J
      <3> QED BY <2>3, <3>2
    <2>5. Distinct(Left)
      <3>1. ASSUME NEW k \in 1 .. n - 1, NEW m \in 1 .. n - 1,
                   Left[k].pid = Left[m].pid, Left[k].age = Left[m].age
            PROVE  k = m
        <4>1. k + 1 = m + 1
          <5>1. /\ k + 1 \in DOMAIN schedule /\ m + 1 \in DOMAIN schedule
                /\ Left[k] = schedule[k+1] /\ Left[m] = schedule[m+1]
            BY <1>1, <2>3
          <5> QED BY <1>1, <3>1, <5>1 DEF Distinct
        <4> QED BY <1>1, <4>1
      <3> QED BY <2>3, <3>1 DEF Distinct
    <2> QED BY <1>1, <2>1, <2>2, <2>3, <2>4, <2>5 DEF Arrays
  <1>5. CASE ~Ends
    <2>1. Left = schedule /\ Resting = running
      BY <1>5 DEF Left, Resting
    <2> QED BY <1>1, <1>2, <1>3, <2>1 DEF Arrays
  <1> QED BY <1>4, <1>5

\* check_Deadlines moves the deadlines of late jobs and appends the new ones.
LEMMA ExtensionFacts ==
    ASSUME EInv, MiddleEvent
    PROVE  /\ Len(Extension) \in Nat
           /\ Extension \in Arrays(JobSet(process, current_Time), Len(Extension))
           /\ Grown \in Nat \ {0} /\ Len(Extension) <= Grown
           /\ Extension = <<>> => Left = <<>>
           /\ Arrivals = <<>> => Extension = Left
           /\ Len(Extension) = Len(Left) + Len(Arrivals) /\ Len(Arrivals) \in Nat
           /\ \A k \in 1 .. Len(Left) : Extension[k] = Extended(Left[k])
           /\ \A k \in 1 .. Len(Arrivals) : Extension[Len(Left) + k] = Arrivals[k]
  <1> DEFINE n == Len(Left)
             a == Len(Arrivals)
             J == JobSet(process, current_Time)
             E == [k \in DOMAIN Left |-> Extended(Left[k])]
  <1>1. /\ process \in Seq(Inputs) /\ process # <<>> /\ current_Time \in Nat /\ current_Time > 0
        /\ max_Size \in Nat \ {0}
    BY DEF EInv, MiddleEvent
  <1>2. /\ n \in Nat /\ n <= max_Size /\ Left \in Arrays(JobSet(process, current_Time - 1), n)
    BY LeftFacts
  <1>3. /\ Arrivals \in Seq(J) /\ Distinct(Arrivals)
        /\ \A k \in DOMAIN Arrivals : Arrivals[k].age = current_Time
        /\ a \in Nat /\ DOMAIN Arrivals = 1 .. a
        /\ (\E i \in 1 .. num_proc : current_Time % process[i].period = 0) => Arrivals # <<>>
    BY <1>1, ArrivalFacts
  <1>4. DOMAIN Left = 1 .. n /\ Distinct(Left)
        /\ \A k \in 1 .. n : Left[k] \in JobSet(process, current_Time - 1)
    BY <1>2 DEF Arrays
  <1>5. ASSUME NEW j \in JobSet(process, current_Time - 1)
        PROVE  /\ Extended(j) \in J /\ SameJob(Extended(j), j)
               /\ j.age < current_Time
               /\ Arrivals = <<>> => Extended(j) = j
    <2> DEFINE q == [j EXCEPT !.deadline = current_Time + j.period]
    <2>1. /\ j \in Records /\ j.pid \in 1 .. Len(process) /\ j.period = process[j.pid].period
          /\ j.age <= current_Time - 1
      BY DEF JobSet
    <2>2. j.age \in Nat /\ j.age < current_Time /\ j.age <= current_Time /\ j.period \in Nat
      BY <1>1, <2>1 DEF Records
    <2>3. j \in J
      BY <2>1, <2>2 DEF JobSet
    <2>4. /\ q \in Records /\ q.pid = j.pid /\ q.age = j.age /\ q.period = j.period
      <3>1. current_Time + j.period \in Int
        BY <1>1, <2>2
      <3> QED BY <2>1, <3>1 DEF Records
    <2>5. Extended(j) = IF IsLate(j) THEN q ELSE j
      BY DEF Extended
    <2> HIDE DEF q
    <2>6. q \in J
      BY <2>1, <2>2, <2>4 DEF JobSet
    <2>7. Arrivals = <<>> => ~IsLate(j)
      BY <1>3, <2>1 DEF IsLate, num_proc
    <2> QED BY <2>2, <2>3, <2>4, <2>5, <2>6, <2>7 DEF SameJob
  <1>6. /\ E \in Seq(J) /\ Len(E) = n /\ DOMAIN E = 1 .. n
        /\ \A k \in 1 .. n : E[k] = Extended(Left[k])
    <2>1. E \in [1 .. n -> J]
      BY <1>4, <1>5
    <2> HIDE DEF E
    <2>2. E \in Seq(J) /\ Len(E) = n /\ DOMAIN E = 1 .. n
      BY <1>2, <2>1
    <2> QED BY <1>4, <2>2 DEF E
  <1>7. Extension = E \o Arrivals
    BY DEF Extension
  <1> HIDE DEF E, J
  <1>8. /\ Extension \in Seq(J) /\ Len(Extension) = n + a /\ DOMAIN Extension = 1 .. n + a
        /\ \A k \in 1 .. n + a : Extension[k] = IF k <= n THEN E[k] ELSE Arrivals[k - n]
    <2>1. Extension \in Seq(J) /\ Len(Extension) = Len(E) + Len(Arrivals)
      BY <1>3, <1>6, <1>7, ConcatProperties
    <2>2. \A k \in 1 .. Len(E) + Len(Arrivals) :
              Extension[k] = IF k <= Len(E) THEN E[k] ELSE Arrivals[k - Len(E)]
      BY <1>3, <1>6, <1>7, ConcatProperties
    <2>3. DOMAIN Extension = 1 .. Len(E) + Len(Arrivals)
      BY <2>1
    <2> QED BY <1>6, <2>1, <2>2, <2>3
  <1>9. \A k \in 1 .. n + a : \/ k \in 1 .. n /\ Extension[k] = E[k]
                              \/ k - n \in 1 .. a /\ Extension[k] = Arrivals[k - n]
    BY <1>2, <1>3, <1>8
  <1>10. Distinct(Extension)
    <2>1. \A k \in 1 .. n : /\ E[k].pid = Left[k].pid /\ E[k].age = Left[k].age
                            /\ E[k].age < current_Time /\ E[k].age \in Nat
      <3>1. \A k \in 1 .. n : Left[k].age \in Nat
        BY <1>4 DEF JobSet, Records
      <3> QED BY <1>4, <1>5, <1>6, <3>1 DEF SameJob
    <2>2. ASSUME NEW k \in 1 .. n + a, NEW m \in 1 .. n + a,
                 Extension[k].pid = Extension[m].pid, Extension[k].age = Extension[m].age
          PROVE  k = m
      <3>1. CASE k \in 1 .. n /\ Extension[k] = E[k]
        <4>1. m \in 1 .. n /\ Extension[m] = E[m]
          <5>1. Extension[m].age < current_Time
            BY <2>1, <2>2, <3>1
          <5>2. ~(m - n \in 1 .. a /\ Extension[m] = Arrivals[m - n])
            BY <1>1, <1>3, <5>1
          <5> QED BY <1>9, <2>2, <5>2
        <4> QED BY <1>4, <2>1, <2>2, <3>1, <4>1 DEF Distinct
      <3>2. CASE k - n \in 1 .. a /\ Extension[k] = Arrivals[k - n]
        <4>1. m - n \in 1 .. a /\ Extension[m] = Arrivals[m - n]
          <5>1. Extension[m].age = current_Time
            BY <1>3, <2>2, <3>2
          <5>2. ~(m \in 1 .. n /\ Extension[m] = E[m])
            BY <1>1, <2>1, <5>1
          <5> QED BY <1>9, <2>2, <5>2
        <4>2. k - n = m - n
          BY <1>3, <2>2, <3>2, <4>1 DEF Distinct
        <4> QED BY <1>2, <4>2
      <3> QED BY <1>9, <3>1, <3>2
    <2> QED BY <1>8, <2>2 DEF Distinct
  <1>11. n + a \in Nat /\ Extension \in Arrays(J, n + a)
    <2>1. n + a \in Nat
      BY <1>2, <1>3
    <2>2. Extension \in [1 .. n + a -> J]
      BY <1>8
    <2> QED BY <1>10, <2>1, <2>2 DEF Arrays
  <1>12. Grown \in Nat \ {0} /\ n + a <= Grown
    BY <1>1, <1>2, <1>3, GrownFacts
  <1>13. Extension = <<>> => Left = <<>>
    <2>1. ASSUME Extension = <<>> PROVE Left = <<>>
      <3>1. n = 0
        BY <1>2, <1>3, <1>8, <2>1
      <3>2. Left \in Seq(JobSet(process, current_Time - 1))
        BY <1>2 DEF Arrays
      <3> QED BY <3>1, <3>2
    <2> QED BY <2>1
  <1>14. Arrivals = <<>> => Extension = Left
    <2>1. ASSUME Arrivals = <<>> PROVE Extension = Left
      <3>1. a = 0
        BY <2>1
      <3>2. Extension \in [1 .. n -> J] /\ Left \in [1 .. n -> JobSet(process, current_Time - 1)]
        BY <1>2, <1>11, <3>1 DEF Arrays
      <3>3. \A k \in 1 .. n : Extension[k] = Left[k]
        BY <1>2, <1>4, <1>5, <1>6, <1>8, <2>1, <3>1
      <3> QED BY <3>2, <3>3
    <2> QED BY <2>1
  <1>15. /\ \A k \in 1 .. n : Extension[k] = Extended(Left[k])
         /\ \A k \in 1 .. a : Extension[n + k] = Arrivals[k]
    <2>1. ASSUME NEW k \in 1 .. n PROVE Extension[k] = Extended(Left[k])
      <3>1. k \in 1 .. n + a /\ k <= n
        BY <1>2, <1>3
      <3> QED BY <1>6, <1>8, <3>1
    <2>2. ASSUME NEW k \in 1 .. a PROVE Extension[n + k] = Arrivals[k]
      <3>1. n + k \in 1 .. n + a /\ ~(n + k <= n) /\ (n + k) - n = k
        BY <1>2, <1>3
      <3> QED BY <1>8, <3>1
    <2> QED BY <2>1, <2>2
  <1> QED BY <1>3, <1>8, <1>11, <1>12, <1>13, <1>14, <1>15 DEF J

\* What is printed shows the jobs of the array.
LEMMA PrintsAll ==
    ASSUME process \in Seq(Inputs), current_Time \in Nat,
           NEW n \in Nat, NEW s \in Arrays(JobSet(process, current_Time), n)
    PROVE  /\ printSchedule(s) \in Seq(Records) /\ Ordered(printSchedule(s))
           /\ \A k \in DOMAIN s : \E m \in DOMAIN printSchedule(s) :
                 SameJob(printSchedule(s)[m], s[k])
  <1> DEFINE J == JobSet(process, current_Time)
             p == printSchedule(s)
  <1>1. /\ J \in SUBSET Records /\ num_proc \in Nat
        /\ \A j \in J : j.pid \in 1 .. num_proc /\ j.age <= current_Time
    BY DEF JobSet, num_proc
  <1> HIDE DEF J, p
  <1>2. p \in Shows(s, J, 1 .. n)
    BY <1>1, PrintFacts DEF J, p
  <1>3. p \in Seq(Records)
    BY <1>1, <1>2 DEF Shows
  <1>4. DOMAIN s = 1 .. n
    BY DEF Arrays
  <1> QED BY <1>2, <1>3, <1>4 DEF Shows, SameJob, p

LEMMA FirstEventInv == ASSUME EInv, FirstEvent PROVE EInv'
  <1>1. /\ process \in Seq(Inputs) /\ process # <<>> /\ current_Time = 0 /\ current_Time \in Nat
        /\ Len(schedule) \in Nat /\ max_Size' \in Nat \ {0} /\ Len(schedule) <= max_Size'
        /\ printed' = printSchedule(schedule) /\ RunFor(schedule, running)
        /\ LastTick = current_Time
    BY DEF EInv, FirstEvent, NeverOverfull, LastTick
  <1>2. schedule \in Arrays(JobSet(process, current_Time), Len(schedule))
    BY <1>1 DEF EInv
  <1>3. schedule # <<>> /\ running = schedule[1]
    BY <1>1 DEF EInv, CopyAgrees
  <1>4. /\ printed' \in Seq(Records) /\ Ordered(printed')
        /\ \A k \in DOMAIN schedule : \E m \in DOMAIN printed' : SameJob(printed'[m], schedule[k])
    BY <1>1, <1>2, PrintsAll
  <1> QED BY <1>1, <1>2, <1>3, <1>4, RunForInv

LEMMA LastEventInv == ASSUME EInv, LastEvent PROVE EInv'
  <1>1. /\ current_Time \in Nat /\ current_Time > 0 /\ current_Time' = current_Time + 1
        /\ UNCHANGED <<process, schedule, max_Size, running, printed>>
    BY DEF EInv, LastEvent
  <1>2. /\ LastTick \in Nat /\ LastTick' \in Nat /\ LastTick <= LastTick'
    BY <1>1 DEF LastTick
  <1>3. JobSet(process, LastTick) \subseteq JobSet(process', LastTick')
    BY <1>1, <1>2, JobSetGrows
  <1>4. schedule' \in Arrays(JobSet(process', LastTick'), Len(schedule'))
    BY <1>1, <1>3 DEF EInv, Arrays
  <1>5. CopyAgrees' /\ NeverOverfull'
    BY <1>1 DEF EInv, CopyAgrees, NeverOverfull
  <1> QED BY <1>1, <1>4, <1>5 DEF EInv

LEMMA MiddleTypes ==
    ASSUME EInv, MiddleEvent
    PROVE  /\ process \in Seq(Inputs) /\ process # <<>> /\ current_Time \in Nat
           /\ printed \in Seq(Records) /\ Ordered(printed)
           /\ \A k \in DOMAIN Left : \E m \in DOMAIN printed : SameJob(printed[m], Left[k])
  <1>1. current_Time > 0 /\ current_Time \in Nat
    BY DEF EInv, MiddleEvent
  <1>2. \A k \in DOMAIN schedule : \E m \in DOMAIN printed : SameJob(printed[m], schedule[k])
    BY <1>1 DEF EInv
  <1>3. \A k \in DOMAIN Left : \E m \in DOMAIN schedule : Left[k] = schedule[m]
    BY LeftFacts
  <1> QED BY <1>1, <1>2, <1>3 DEF EInv

LEMMA ContinueInv == ASSUME EInv, Continue PROVE EInv'
  <1>1. /\ MiddleEvent /\ max_Size' = Grown /\ RunFor(Extension, Resting) /\ printed' = printed
        /\ Extension = <<>> \/ (Arrivals = <<>> /\ Resting.pid # 0)
    BY DEF Continue, Arrive
  <1>2. Extension = Left
    BY <1>1, ExtensionFacts
  <1>3. IF Extension = <<>> THEN Resting.pid = 0 ELSE Resting = Extension[1]
    BY <1>1, <1>2, LeftFacts
  <1>4. /\ Len(Extension) \in Nat /\ Grown \in Nat \ {0} /\ Len(Extension) <= Grown
        /\ Extension \in Arrays(JobSet(process, current_Time), Len(Extension))
    BY <1>1, ExtensionFacts
  <1>5. \A k \in DOMAIN Extension : \E m \in DOMAIN printed' : SameJob(printed'[m], Extension[k])
    BY <1>1, <1>2, MiddleTypes
  <1> QED BY <1>1, <1>3, <1>4, <1>5, MiddleTypes, RunForInv

\* The sorted array, as check_Deadlines leaves it when it is not empty.
LEMMA SortedFacts ==
    ASSUME EInv, MiddleEvent, Extension # <<>>
    PROVE  /\ Len(deadline_Sort(Extension)) = Len(Extension)
           /\ Len(Extension) \in Nat \ {0}
           /\ deadline_Sort(Extension) \in Arrays(JobSet(process, current_Time), Len(Extension))
           /\ deadline_Sort(Extension) # <<>>
           /\ \A k \in 1 .. Len(Extension) : \E m \in 1 .. Len(Extension) :
                 deadline_Sort(Extension)[k] = Extension[m]
           /\ \A m \in 1 .. Len(Extension) : \E k \in 1 .. Len(Extension) :
                 deadline_Sort(Extension)[k] = Extension[m]
           /\ \A k \in 1 .. Len(Extension) :
                 deadline_Sort(Extension)[1].deadline <= deadline_Sort(Extension)[k].deadline
  <1> DEFINE n == Len(Extension)
             J == JobSet(process, current_Time)
  <1>1. n \in Nat /\ Extension \in Arrays(J, n)
    BY ExtensionFacts
  <1>2. n # 0
    <2>1. Extension \in Seq(J)
      BY <1>1 DEF Arrays
    <2> HIDE DEF J
    <2> QED BY <2>1
  <1>5. \A j \in J : j.deadline \in Int
    BY DEF JobSet, Records
  <1> HIDE DEF n, J
  <1>3. n \in Nat \ {0}
    BY <1>1, <1>2
  <1>6. /\ deadline_Sort(Extension) \in Arrays(J, n)
        /\ \A k \in 1 .. n : \E m \in 1 .. n : deadline_Sort(Extension)[k] = Extension[m]
        /\ \A m \in 1 .. n : \E k \in 1 .. n : deadline_Sort(Extension)[k] = Extension[m]
        /\ \A k \in 1 .. n :
              deadline_Sort(Extension)[1].deadline <= deadline_Sort(Extension)[k].deadline
    BY <1>1, <1>3, <1>5, SortFacts
  <1>4. Len(deadline_Sort(Extension)) = n /\ deadline_Sort(Extension) # <<>>
    BY <1>1, <1>3, <1>6 DEF Arrays
  <1> QED BY <1>3, <1>4, <1>6 DEF n, J

LEMMA ReconsiderInv == ASSUME EInv, Reconsider PROVE EInv'
  <1> DEFINE s == deadline_Sort(Extension)
             n == Len(Extension)
             J == JobSet(process, current_Time)
  <1>1. /\ MiddleEvent /\ Arrivals # <<>> /\ Resting.pid # 0 /\ max_Size' = Grown
        /\ printed' = printSchedule(Extension)
        /\ \/ s[1] = WasRunning /\ RunFor(s, s[1])
           \/ s[1] # WasRunning /\ RunFor(setPreempt(s, WasRunning), s[1])
    BY DEF Reconsider, Arrive
  <1>2. Extension # <<>>
    BY <1>1, LeftFacts, ExtensionFacts
  <1>3. /\ n \in Nat \ {0} /\ Grown \in Nat \ {0} /\ n <= Grown
        /\ Extension \in Arrays(J, n)
    BY <1>1, <1>2, ExtensionFacts, SortedFacts
  <1>4. /\ Len(s) = n /\ s \in Arrays(J, n) /\ s # <<>>
        /\ \A k \in 1 .. n : \E m \in 1 .. n : s[k] = Extension[m]
    BY <1>1, <1>2, SortedFacts
  <1>5. /\ printed' \in Seq(Records) /\ Ordered(printed')
        /\ \A k \in DOMAIN Extension : \E m \in DOMAIN printed' :
              SameJob(printed'[m], Extension[k])
    BY <1>1, <1>3, MiddleTypes, PrintsAll
  <1>6. DOMAIN s = 1 .. n /\ DOMAIN Extension = 1 .. n
    BY <1>3, <1>4 DEF Arrays
  <1> HIDE DEF s, n
  <1>7. \A k \in 1 .. n : \E m \in DOMAIN printed' : SameJob(printed'[m], s[k])
    BY <1>4, <1>5, <1>6
  <1>8. CASE s[1] = WasRunning /\ RunFor(s, s[1])
    BY <1>1, <1>3, <1>4, <1>5, <1>6, <1>7, <1>8, MiddleTypes, RunForInv
  <1>9. CASE s[1] # WasRunning /\ RunFor(setPreempt(s, WasRunning), s[1])
    <2> DEFINE p == setPreempt(s, WasRunning)
    <2>1. /\ p \in Arrays(J, n) /\ p[1] = s[1]
          /\ \A k \in 1 .. n : SameJob(p[k], s[k])
      <3>1. n \in Nat /\ n > 0 /\ current_Time \in Nat /\ s \in Arrays(J, n)
        BY <1>1, <1>3, <1>4, MiddleTypes
      <3>2. /\ p \in Arrays(J, n)
            /\ \A k \in 1 .. n : SameJob(p[k], s[k])
            /\ n > 0 /\ s[1] # WasRunning => p[1] = s[1]
        BY <3>1, PreemptKeeps
      <3> HIDE DEF p, J
      <3> QED BY <1>9, <3>1, <3>2
    <2> HIDE DEF p
    <2>2. Len(p) = n /\ p # <<>> /\ DOMAIN p = 1 .. n
      BY <1>3, <2>1 DEF Arrays
    <2>3. \A k \in DOMAIN p : \E m \in DOMAIN printed' : SameJob(printed'[m], p[k])
      BY <1>7, <2>1, <2>2 DEF SameJob
    <2>4. RunFor(p, s[1])
      BY <1>9 DEF p
    <2> QED BY <1>1, <1>3, <1>5, <2>1, <2>2, <2>3, <2>4, MiddleTypes, RunForInv
  <1> QED BY <1>1, <1>8, <1>9

LEMMA StartNextInv == ASSUME EInv, StartNext PROVE EInv'
  <1> DEFINE s == deadline_Sort(Extension)
             n == Len(Extension)
             J == JobSet(process, current_Time)
  <1>1. /\ MiddleEvent /\ Extension # <<>> /\ max_Size' = Grown /\ RunFor(s, s[1])
        /\ printed' = IF Arrivals = <<>> THEN printed ELSE printSchedule(s)
    BY DEF StartNext, Arrive
  <1>2. /\ n \in Nat \ {0} /\ Grown \in Nat \ {0} /\ n <= Grown
        /\ Extension \in Arrays(J, n)
    BY <1>1, ExtensionFacts, SortedFacts
  <1>3. /\ Len(s) = n /\ s \in Arrays(J, n) /\ s # <<>>
        /\ \A k \in 1 .. n : \E m \in 1 .. n : s[k] = Extension[m]
    BY <1>1, SortedFacts
  <1>4. DOMAIN s = 1 .. n /\ DOMAIN Extension = 1 .. n
    BY <1>2, <1>3 DEF Arrays
  <1>5. /\ printed' \in Seq(Records) /\ Ordered(printed')
        /\ \A k \in DOMAIN s : \E m \in DOMAIN printed' : SameJob(printed'[m], s[k])
    <2>1. CASE Arrivals = <<>>
      <3>1. printed' = printed /\ Extension = Left
        BY <1>1, <2>1, ExtensionFacts
      <3> HIDE DEF s, n
      <3> QED BY <1>1, <1>3, <1>4, <3>1, MiddleTypes
    <2>2. CASE Arrivals # <<>>
      <3> HIDE DEF s, n
      <3> QED BY <1>1, <1>2, <1>3, <2>2, MiddleTypes, PrintsAll
    <2> QED BY <2>1, <2>2
  <1> HIDE DEF s, n
  <1> QED BY <1>1, <1>2, <1>3, <1>5, MiddleTypes, RunForInv

LEMMA InitInv == ASSUME Init PROVE EInv
  <1> DEFINE J == JobSet(process, 0)
             s == [i \in 1 .. num_proc |-> NewJob(i, 0)]
  <1>1. PICK n \in 1 .. MaxProcs : process \in [1 .. n -> [cpu : 1 .. MaxCPU, period : 1 .. MaxPeriod]]
    BY DEF Init
  <1>2. n \in Nat \ {0} /\ MaxCPU \in Nat /\ MaxPeriod \in Nat
    BY EdfAssumption
  <1>3. \A p \in [cpu : 1 .. MaxCPU, period : 1 .. MaxPeriod] : p \in Inputs
    BY <1>2 DEF Inputs
  <1>4. /\ process \in [1 .. n -> Inputs] /\ process \in Seq(Inputs) /\ Len(process) = n
        /\ process # <<>> /\ num_proc = n
    BY <1>1, <1>2, <1>3 DEF num_proc
  <1>5. ASSUME NEW i \in 1 .. n PROVE NewJob(i, 0) \in J /\ NewJob(i, 0).pid = i
    <2>1. /\ process[i].cpu \in Int /\ process[i].period \in Nat /\ i \in Nat \ {0}
          /\ 0 + process[i].period \in Int
      BY <1>2, <1>4 DEF Inputs
    <2>2. NewJob(i, 0) \in Records
      BY <2>1 DEF NewJob, Records
    <2> QED BY <1>4, <2>1, <2>2 DEF NewJob, JobSet
  <1>14. \A j \in J : j.deadline \in Int
    BY DEF JobSet, Records
  <1> HIDE DEF J
  <1>6. s \in [1 .. n -> J] /\ DOMAIN s = 1 .. n /\ \A i \in 1 .. n : s[i].pid = i
    BY <1>4, <1>5
  <1> HIDE DEF s
  <1>7. s \in Arrays(J, n)
    BY <1>6 DEF Arrays, Distinct
  <1>8. /\ schedule = deadline_Sort(s) /\ current_Time = 0 /\ max_Size = n /\ printed = <<>>
        /\ running = schedule[1]
    BY <1>4 DEF Init, s
  <1>9. schedule \in Arrays(J, n)
    BY <1>2, <1>7, <1>8, <1>14, SortFacts
  <1>10. Len(schedule) = n /\ schedule # <<>>
    BY <1>2, <1>9 DEF Arrays
  <1>11. LastTick = 0
    BY <1>8 DEF LastTick
  <1>12. NeverOverfull /\ CopyAgrees
    BY <1>2, <1>8, <1>10 DEF NeverOverfull, CopyAgrees
  <1>13. printed \in Seq(Records) /\ Ordered(printed)
    BY <1>8 DEF Ordered
  <1> QED BY <1>2, <1>4, <1>8, <1>9, <1>10, <1>11, <1>12, <1>13 DEF EInv, J

LEMMA StepInv == ASSUME EInv, [Next]_vars PROVE EInv'
  <1>1. CASE FirstEvent \/ LastEvent \/ Continue \/ Reconsider \/ StartNext
    BY <1>1, FirstEventInv, LastEventInv, ContinueInv, ReconsiderInv, StartNextInv
  <1>2. CASE Summary \/ UNCHANGED vars
    <2>1. UNCHANGED <<process, current_Time, schedule, max_Size, running, printed>>
      BY <1>2 DEF Summary, vars
    <2> QED BY <2>1 DEF EInv, LastTick, CopyAgrees, NeverOverfull
  <1> QED BY <1>1, <1>2 DEF Next

-----------------------------------------------------------------------------
(* Sums.  The waiting times the program owes are sums over the array, of   *)
(* which only this is needed: that they exist, and what an exchange, a     *)
(* change of the first term, a tick and zeros do to them.                  *)

\* f adds up v[1] .. v[n], one after the other, to x.
Adding(f, v, n, x) == /\ f \in [0 .. n -> Int]
                      /\ f[0] = 0
                      /\ \A k \in 1 .. n : f[k] = f[k-1] + v[k]
                      /\ f[n] = x
\* The sum of v[1] .. v[n] is x.
Adds(v, n, x) == \E f : Adding(f, v, n, x)

\* The empty sum.
LEMMA AddsNone == ASSUME NEW v PROVE Adds(v, 0, 0)
  <1> DEFINE f == [k \in 0 .. 0 |-> 0]
  <1>1. Adding(f, v, 0, 0)
    BY DEF Adding
  <1> QED BY <1>1 DEF Adds

\* A sum of zeros.
LEMMA AddsZeros ==
    ASSUME NEW n \in Nat, NEW v, \A k \in 1 .. n : v[k] = 0
    PROVE  Adds(v, n, 0)
  <1> DEFINE f == [k \in 0 .. n |-> 0]
  <1>1. Adding(f, v, n, 0)
    BY DEF Adding
  <1> HIDE DEF f
  <1> QED BY <1>1 DEF Adds

\* A sum depends on the values only.
LEMMA AddsSame ==
    ASSUME NEW n \in Nat, NEW v, NEW w, NEW x, Adds(v, n, x),
           \A k \in 1 .. n : w[k] = v[k]
    PROVE  Adds(w, n, x)
  <1>1. PICK f : Adding(f, v, n, x)
    BY DEF Adds
  <1>2. Adding(f, w, n, x)
    BY <1>1 DEF Adding
  <1> QED BY <1>2 DEF Adds

\* Exchanging two neighbours.
LEMMA AddsSwap ==
    ASSUME NEW n \in Nat, NEW v \in [1 .. n -> Int], NEW w \in [1 .. n -> Int], NEW x,
           Adds(v, n, x), NEW i \in 1 .. n - 1, w[i] = v[i+1], w[i+1] = v[i],
           \A k \in 1 .. n : k # i /\ k # i + 1 => w[k] = v[k]
    PROVE  Adds(w, n, x)
  <1>1. PICK f : Adding(f, v, n, x)
    BY DEF Adds
  <1> DEFINE g == [k \in 0 .. n |-> IF k = i THEN f[i-1] + v[i+1] ELSE f[k]]
  <1>2. /\ f \in [0 .. n -> Int] /\ f[0] = 0 /\ f[n] = x
        /\ \A k \in 1 .. n : f[k] = f[k-1] + v[k]
        /\ i \in 1 .. n /\ i + 1 \in 1 .. n /\ i - 1 \in 0 .. n /\ (i + 1) - 1 = i
    BY <1>1 DEF Adding
  <1>3. f[i-1] \in Int /\ v[i] \in Int /\ v[i+1] \in Int
    BY <1>2
  <1>4. f[i] = f[i-1] + v[i] /\ f[i+1] = f[i] + v[i+1]
    BY <1>2
  <1>5. /\ g \in [0 .. n -> Int] /\ g[0] = 0 /\ g[n] = x /\ g[i] = f[i-1] + v[i+1]
        /\ \A k \in 0 .. n : k # i => g[k] = f[k]
    <2>1. f[i-1] + v[i+1] \in Int
      BY <1>3
    <2>2. g \in [0 .. n -> Int] /\ \A k \in 0 .. n : k # i => g[k] = f[k]
      BY <1>2, <2>1
    <2>3. g[i] = f[i-1] + v[i+1]
      BY <1>2
    <2>4. 0 \in 0 .. n /\ n \in 0 .. n /\ 0 # i /\ n # i
      BY <1>2
    <2> HIDE DEF g
    <2> QED BY <1>2, <2>2, <2>3, <2>4
  <1> HIDE DEF g
  <1>6. ASSUME NEW k \in 1 .. n PROVE g[k] = g[k-1] + w[k]
    <2>1. CASE k = i
      BY <1>2, <1>5, <2>1
    <2>2. CASE k = i + 1
      <3>1. g[k] = f[i+1] /\ g[k-1] = g[i] /\ w[k] = v[i]
        BY <1>2, <1>5, <2>2
      <3> QED BY <1>2, <1>3, <1>4, <1>5, <3>1
    <2>3. CASE k # i /\ k # i + 1
      <3>2. k \in 0 .. n /\ k - 1 \in 0 .. n /\ k - 1 # i
        BY <2>3
      <3>1. g[k] = f[k] /\ g[k-1] = f[k-1] /\ w[k] = v[k]
        BY <1>5, <2>3, <3>2
      <3> QED BY <1>2, <3>1
    <2> QED BY <2>1, <2>2, <2>3
  <1>7. Adding(g, w, n, x)
    BY <1>5, <1>6 DEF Adding
  <1> QED BY <1>7 DEF Adds

\* Another first value.
LEMMA AddsFirst ==
    ASSUME NEW n \in Nat \ {0}, NEW v \in [1 .. n -> Int], NEW w \in [1 .. n -> Int], NEW x \in Int,
           Adds(v, n, x), \A k \in 2 .. n : w[k] = v[k]
    PROVE  Adds(w, n, x - v[1] + w[1])
  <1>1. PICK f : Adding(f, v, n, x)
    BY DEF Adds
  <1> DEFINE d == w[1] - v[1]
             g == [k \in 0 .. n |-> IF k = 0 THEN 0 ELSE f[k] + d]
  <1>2. /\ f \in [0 .. n -> Int] /\ f[0] = 0 /\ f[n] = x
        /\ \A k \in 1 .. n : f[k] = f[k-1] + v[k]
        /\ v[1] \in Int /\ w[1] \in Int /\ d \in Int /\ 1 \in 1 .. n
    BY <1>1 DEF Adding
  <1>3. w[1] = v[1] + d
    BY <1>2
  <1> HIDE DEF d
  <1>4. /\ g \in [0 .. n -> Int] /\ g[0] = 0 /\ g[n] = x + d
        /\ \A k \in 1 .. n : g[k] = f[k] + d
    BY <1>2, SMTT(30)
  <1> HIDE DEF g
  <1>5. ASSUME NEW k \in 1 .. n PROVE g[k] = g[k-1] + w[k]
    <2>1. CASE k = 1
      <3>1. f[1] = f[0] + v[1] /\ f[0] = 0
        BY <1>2
      <3>2. g[1] = f[1] + d /\ g[0] = 0
        BY <1>2, <1>4
      <3> QED BY <1>2, <1>3, <2>1, <3>1, <3>2
    <2>2. CASE k # 1
      <3>1. /\ k \in 2 .. n /\ k - 1 \in 1 .. n /\ f[k] = f[k-1] + v[k] /\ w[k] = v[k]
            /\ f[k-1] \in Int /\ v[k] \in Int
        BY <1>2, <2>2, SMTT(30)
      <3>2. g[k] = f[k] + d /\ g[k-1] = f[k-1] + d
        BY <1>4, <3>1
      <3> QED BY <1>2, <3>1, <3>2
    <2> QED BY <2>1, <2>2
  <1>6. Adding(g, w, n, x + d)
    BY <1>4, <1>5 DEF Adding
  <1>7. x + d = x - v[1] + w[1]
    BY <1>2, <1>3
  <1> QED BY <1>6, <1>7 DEF Adds

\* Without the first value.
LEMMA AddsTail ==
    ASSUME NEW n \in Nat \ {0}, NEW v \in [1 .. n -> Int], NEW w, NEW x \in Int,
           Adds(v, n, x), \A k \in 1 .. n - 1 : w[k] = v[k+1]
    PROVE  Adds(w, n - 1, x - v[1])
  <1>1. PICK f : Adding(f, v, n, x)
    BY DEF Adds
  <1> DEFINE g == [k \in 0 .. n - 1 |-> f[k+1] - v[1]]
  <1>2. /\ f \in [0 .. n -> Int] /\ f[0] = 0 /\ f[n] = x
        /\ \A k \in 1 .. n : f[k] = f[k-1] + v[k]
        /\ v[1] \in Int /\ 1 \in 1 .. n /\ f[1] = v[1]
    <2>1. /\ f \in [0 .. n -> Int] /\ f[0] = 0 /\ f[n] = x
          /\ \A k \in 1 .. n : f[k] = f[k-1] + v[k]
          /\ 1 \in 1 .. n /\ 1 - 1 = 0
      BY <1>1 DEF Adding
    <2> QED BY <2>1
  <1>3. /\ g \in [0 .. n - 1 -> Int] /\ g[0] = 0 /\ g[n-1] = x - v[1]
        /\ \A k \in 0 .. n - 1 : g[k] = f[k+1] - v[1]
    BY <1>2, SMTT(30)
  <1> HIDE DEF g
  <1>4. ASSUME NEW k \in 1 .. n - 1 PROVE g[k] = g[k-1] + w[k]
    <2>1. /\ k + 1 \in 1 .. n /\ f[k+1] = f[k] + v[k+1] /\ (k - 1) + 1 = k /\ w[k] = v[k+1]
          /\ k - 1 \in 0 .. n - 1 /\ k \in 0 .. n - 1 /\ f[k] \in Int /\ v[k+1] \in Int
      <3>1. /\ k + 1 \in 1 .. n /\ (k + 1) - 1 = k /\ (k - 1) + 1 = k /\ k \in 0 .. n
            /\ k - 1 \in 0 .. n - 1 /\ k \in 0 .. n - 1 /\ w[k] = v[k+1]
        OBVIOUS
      <3>2. f[k+1] = f[(k+1)-1] + v[k+1] /\ v[k+1] \in Int /\ f[k] \in Int
        BY <1>2, <3>1
      <3> QED BY <3>1, <3>2
    <2>2. g[k] = f[k+1] - v[1] /\ g[k-1] = f[k] - v[1] /\ v[1] \in Int
      BY <1>2, <1>3, <2>1
    <2>3. \A a, b, c \in Int : (a + b) - c = (a - c) + b
      OBVIOUS
    <2>4. (f[k] + v[k+1]) - v[1] = (f[k] - v[1]) + v[k+1]
      BY <2>1, <2>2, <2>3
    <2>5. f[k+1] = f[k] + v[k+1] /\ w[k] = v[k+1]
      BY <2>1
    <2> QED BY <2>2, <2>4, <2>5
  <1>5. Adding(g, w, n - 1, x - v[1])
    BY <1>3, <1>4 DEF Adding
  <1> QED BY <1>5 DEF Adds

\* Every value but the first grows by one.
LEMMA AddsTick ==
    ASSUME NEW n \in Nat \ {0}, NEW v \in [1 .. n -> Int], NEW w, NEW x \in Int,
           Adds(v, n, x), w[1] = v[1], \A k \in 2 .. n : w[k] = v[k] + 1
    PROVE  Adds(w, n, x + n - 1)
  <1>1. PICK f : Adding(f, v, n, x)
    BY DEF Adds
  <1> DEFINE g == [k \in 0 .. n |-> IF k = 0 THEN 0 ELSE f[k] + k - 1]
  <1>2. /\ f \in [0 .. n -> Int] /\ f[0] = 0 /\ f[n] = x
        /\ \A k \in 1 .. n : f[k] = f[k-1] + v[k]
    BY <1>1 DEF Adding
  <1>3. /\ g \in [0 .. n -> Int] /\ g[0] = 0 /\ g[n] = x + n - 1
        /\ \A k \in 1 .. n : g[k] = f[k] + k - 1
    BY <1>2
  <1> HIDE DEF g
  <1>4. ASSUME NEW k \in 1 .. n PROVE g[k] = g[k-1] + w[k]
    <2>1. g[k] = f[k] + k - 1 /\ f[k] = f[k-1] + v[k] /\ f[k-1] \in Int /\ v[k] \in Int
      BY <1>2, <1>3, SMTT(30)
    <2>2. CASE k = 1
      <3>1. f[k-1] = 0 /\ g[k-1] = 0 /\ w[k] = v[k]
        BY <1>2, <1>3, <2>2
      <3> QED BY <2>1, <2>2, <3>1
    <2>3. CASE k # 1
      <3>1. k \in 2 .. n /\ k - 1 \in 1 .. n
        BY <2>3
      <3>3. g[k-1] = f[k-1] + (k - 1) - 1
        BY <1>3, <3>1
      <3>4. w[k] = v[k] + 1
        BY <3>1
      <3>2. g[k-1] = f[k-1] + (k - 1) - 1 /\ w[k] = v[k] + 1
        BY <3>3, <3>4
      <3>5. k \in Int /\ f[k-1] \in Int /\ v[k] \in Int
        BY <2>1
      <3>6. g[k] = f[k-1] + v[k] + k - 1
        BY <2>1
      <3>8. \A a, b, c \in Int : a + b + c - 1 = (a + (c - 1) - 1) + (b + 1)
        OBVIOUS
      <3>7. f[k-1] + v[k] + k - 1 = (f[k-1] + (k - 1) - 1) + (v[k] + 1)
        BY <3>5, <3>8
      <3> QED BY <3>2, <3>6, <3>7
    <2> QED BY <2>2, <2>3
  <1>5. Adding(g, w, n, x + n - 1)
    BY <1>3, <1>4 DEF Adding
  <1> QED BY <1>5 DEF Adds

\* Zeros after the last value.
LEMMA AddsMore ==
    ASSUME NEW n \in Nat, NEW a \in Nat, NEW v, NEW w, NEW x,
           Adds(v, n, x), \A k \in 1 .. n : w[k] = v[k],
           \A k \in n + 1 .. n + a : w[k] = 0
    PROVE  Adds(w, n + a, x)
  <1>1. PICK f : Adding(f, v, n, x)
    BY DEF Adds
  <1> DEFINE g == [k \in 0 .. n + a |-> IF k <= n THEN f[k] ELSE f[n]]
  <1>2. /\ f \in [0 .. n -> Int] /\ f[0] = 0 /\ f[n] = x /\ f[n] \in Int
        /\ \A k \in 1 .. n : f[k] = f[k-1] + v[k]
    BY <1>1 DEF Adding
  <1>3. /\ g \in [0 .. n + a -> Int] /\ g[0] = 0 /\ g[n+a] = x
        /\ \A k \in 0 .. n : g[k] = f[k]
        /\ \A k \in n .. n + a : g[k] = f[n]
    <2>1. \A k \in 0 .. n + a : k <= n => k \in 0 .. n
      OBVIOUS
    <2>2. g \in [0 .. n + a -> Int]
      BY <1>2, <2>1
    <2>3. \A k \in 0 .. n : k \in 0 .. n + a /\ g[k] = f[k]
      OBVIOUS
    <2>4. \A k \in n .. n + a : k \in 0 .. n + a /\ g[k] = f[n]
      <3>1. ASSUME NEW k \in n .. n + a PROVE k \in 0 .. n + a /\ g[k] = f[n]
        <4>1. k \in 0 .. n + a /\ (k <= n => k = n)
          OBVIOUS
        <4> QED BY <4>1
      <3> QED BY <3>1
    <2> HIDE DEF g
    <2>5. 0 \in 0 .. n /\ n + a \in n .. n + a
      OBVIOUS
    <2> QED BY <1>2, <2>2, <2>3, <2>4, <2>5
  <1> HIDE DEF g
  <1>4. ASSUME NEW k \in 1 .. n + a PROVE g[k] = g[k-1] + w[k]
    <2>1. CASE k <= n
      <3>1. k \in 1 .. n /\ k - 1 \in 0 .. n /\ k \in 0 .. n
        BY <2>1
      <3> QED BY <1>2, <1>3, <3>1
    <2>2. CASE ~(k <= n)
      <3>1. k \in n + 1 .. n + a /\ k - 1 \in n .. n + a /\ k \in n .. n + a
        BY <2>2
      <3>2. g[k] = f[n] /\ g[k-1] = f[n] /\ w[k] = 0
        BY <1>3, <3>1
      <3> QED BY <1>2, <3>2
    <2> QED BY <2>1, <2>2
  <1>5. Adding(g, w, n + a, x)
    BY <1>3, <1>4 DEF Adding
  <1> QED BY <1>5 DEF Adds

Worths(worth, s, n) == [k \in 1 .. n |-> worth[s[k]]]

\* Sorting does not change the sum of what the jobs are worth.
LEMMA SortAdds ==
    ASSUME NEW J, \A j \in J : j.deadline \in Int, NEW worth \in [J -> Int],
           NEW n \in Nat \ {0}, NEW s \in [1 .. n -> J], NEW x,
           Adds(Worths(worth, s, n), n, x)
    PROVE  Adds(Worths(worth, deadline_Sort(s), n), n, x)
  <1> DEFINE Worth(y) == Worths(worth, y, n)
             X == {y \in [1 .. n -> J] : Adds(Worth(y), n, x)}
  <1>1. ASSUME NEW y \in X, NEW i \in 1 .. n - 1 PROVE SwapAt(y, i) \in X
    <2> DEFINE z == SwapAt(y, i)
    <2>1. y \in [1 .. n -> J] /\ Adds(Worth(y), n, x) /\ i \in 1 .. n /\ i + 1 \in 1 .. n /\ n \in Nat
      OBVIOUS
    <2>2. /\ z \in [1 .. n -> J] /\ z[i] = y[i+1] /\ z[i+1] = y[i]
          /\ \A k \in 1 .. n : k # i /\ k # i + 1 => z[k] = y[k]
      BY <2>1 DEF SwapAt
    <2> HIDE DEF z, X
    <2>3. Worth(y) \in [1 .. n -> Int] /\ Worth(z) \in [1 .. n -> Int]
      BY <2>1, <2>2 DEF Worths
    <2>4. /\ Worth(z)[i] = Worth(y)[i+1] /\ Worth(z)[i+1] = Worth(y)[i]
          /\ \A k \in 1 .. n : k # i /\ k # i + 1 => Worth(z)[k] = Worth(y)[k]
      BY <2>1, <2>2 DEF Worths
    <2>5. Adds(Worth(z), n, x)
      <3> HIDE DEF Worth
      <3> QED BY <2>1, <2>3, <2>4, AddsSwap
    <2> QED BY <2>2, <2>5 DEF z, X
  <1>2. SwapClosed(X, n)
    BY <1>1 DEF SwapClosed
  <1>3. X \in SUBSET [1 .. n -> J] /\ s \in X
    OBVIOUS
  <1> HIDE DEF X
  <1>4. deadline_Sort(s) \in X
    BY <1>2, <1>3, SortSorts
  <1> QED BY <1>4 DEF X

-----------------------------------------------------------------------------
(* Periods and deadlines. *)

\* Multiples of a period.
LEMMA Multiples ==
    /\ \A a \in Int, p \in Nat \ {0} : (a * p) % p = 0
    /\ \A p \in Nat \ {0} : 0 % p = 0 /\ p % p = 0
  OBVIOUS

\* The end of a period is the beginning of the next.
LEMMA NextMultiple ==
    ASSUME NEW a \in Nat, NEW p \in Nat \ {0}, a % p = 0
    PROVE  (a + p) % p = 0
  <1>1. a = p * (a \div p) + (a % p) /\ a \div p \in Int
    OBVIOUS
  <1> DEFINE q == a \div p
  <1>2. a = q * p /\ q \in Int
    BY <1>1
  <1> HIDE DEF q
  <1>3. a + p = (q + 1) * p /\ q + 1 \in Int
    BY <1>2
  <1> QED BY <1>3, Multiples

\* The loop of least_common_multiple ends.
LEMMA LcmFacts ==
    ASSUME NEW a \in Nat \ {0}, NEW b \in Nat \ {0}
    PROVE  least_common_multiple(a, b) \in Nat \ {0}
  <1> DEFINE K == {k \in 1 .. b : (a * k) % b = 0}
             M == {a * k : k \in 1 .. b}
             Good(m) == m % b = 0 /\ \A k \in 1 .. b : (a * k) % b = 0 => m <= a * k
  <1>1. b \in K /\ K \subseteq Nat
    <2>1. (a * b) % b = 0
      BY Multiples
    <2> QED BY <2>1
  <1>2. PICK x \in K : \A y \in K : x <= y
    <2> HIDE DEF K
    <2> QED BY <1>1, LeastNat
  <1>3. x \in 1 .. b /\ (a * x) % b = 0 /\ a * x \in M
    BY <1>2
  <1>4. ASSUME NEW k \in 1 .. b, (a * k) % b = 0 PROVE a * x <= a * k
    <2>1. x <= k /\ x \in Nat /\ k \in Nat
      BY <1>2, <1>3, <1>4
    <2> QED BY <2>1
  <1>5. Good(a * x)
    BY <1>3, <1>4
  <1>6. \A m \in M : m \in Nat \ {0}
    <2>1. ASSUME NEW k \in 1 .. b PROVE a * k \in Nat \ {0}
      OBVIOUS
    <2> QED BY <2>1
  <1>7. least_common_multiple(a, b) = CHOOSE m \in M : Good(m)
    BY DEF least_common_multiple
  <1> HIDE DEF M, Good
  <1> QED BY <1>3, <1>5, <1>6, <1>7

\* The simulation has a last tick.
LEMMA HorizonFacts == ASSUME Init PROVE max_Time \in Nat \ {0}
  <1> DEFINE n == num_proc - 1
             S == Nat \ {0}
             Body(m, i) == least_common_multiple(m, process[i+1].period)
             Q  == [k \in 0 .. n |-> S]
             st == [k \in 1 .. n |-> [x \in Q[k-1] |-> Body(x, k)]]
             x0 == process[1].period
             f0 == CHOOSE f : f = [k \in 0 .. n |-> IF k = 0 THEN x0 ELSE Body(f[k-1], k)]
  <1>0. EInv
    BY InitInv
  <1>1. max_Time = f0[n]
    BY DEF Init, Loop
  <1>2. Q \in [0 .. n -> SUBSET S] /\ n \in Nat /\ num_proc = n + 1
        /\ \A k \in 1 .. num_proc : process[k].period \in S
    <2>1. process \in Seq(Inputs) /\ process # <<>>
      BY <1>0 DEF EInv
    <2>2. num_proc \in Nat \ {0} /\ \A k \in 1 .. num_proc : process[k] \in Inputs
      BY <2>1 DEF num_proc
    <2> QED BY <2>2 DEF Inputs
  <1>3. x0 \in Q[0]
    BY <1>2
  <1>4. ASSUME NEW k \in 1 .. n, NEW x \in Q[k-1] PROVE Body(x, k) \in Q[k]
    <2>1. x \in Nat \ {0} /\ k + 1 \in 1 .. num_proc /\ k \in 0 .. n
      BY <1>2, <1>4
    <2>2. process[k+1].period \in Nat \ {0}
      BY <1>2, <2>1
    <2> QED BY <2>1, <2>2, LcmFacts
  <1>5. \A k \in 1 .. n : \A x \in Q[k-1] : st[k][x] = Body(x, k)
    OBVIOUS
  <1> HIDE DEF Q, st, f0, Body, S, x0, n
  <1>6. PICK f : RunOf(f, x0, st, Q, S, n)
    <2>1. Leading(Q, st, n)
      BY <1>4, <1>5 DEF Leading
    <2> QED BY <1>2, <1>3, <2>1, LoopExists
  <1>7. f = [k \in 0 .. n |-> IF k = 0 THEN x0 ELSE Body(f[k-1], k)]
    <2>1. ASSUME NEW k \in 1 .. n PROVE f[k] = Body(f[k-1], k)
      <3>1. k - 1 \in 0 .. n
        BY <1>2
      <3>2. f[k-1] \in Q[k-1] /\ f[k] = st[k][f[k-1]]
        BY <1>6, <3>1 DEF RunOf
      <3> QED BY <1>5, <3>2
    <2>2. ASSUME NEW k \in 0 .. n PROVE f[k] = IF k = 0 THEN x0 ELSE Body(f[k-1], k)
      <3>1. k = 0 \/ k \in 1 .. n
        BY <1>2
      <3> QED BY <1>6, <2>1, <3>1 DEF RunOf
    <2> QED BY <1>6, <2>2 DEF RunOf
  <1>8. f0 = [k \in 0 .. n |-> IF k = 0 THEN x0 ELSE Body(f0[k-1], k)]
    BY <1>7 DEF f0
  <1>9. f0[0] = x0 /\ \A k \in 1 .. n : f0[k] = Body(f0[k-1], k)
    BY <1>2, <1>8
  <1>10. \A k \in 1 .. n : f0[k-1] \in Q[k-1] => f0[k] \in Q[k]
    BY <1>4, <1>9
  <1>11. \A k \in 0 .. n : f0[k] \in Q[k]
    BY <1>2, <1>3, <1>9, <1>10, LoopKeeps
  <1>12. f0[n] \in S
    BY <1>2, <1>11 DEF Q
  <1> QED BY <1>1, <1>12 DEF S

\* What the end of a job takes from the array, and when.
LEMMA LeftIs ==
    ASSUME EInv, MiddleEvent
    PROVE  /\ Ends => /\ schedule # <<>> /\ schedule[1].remaining_Time = 0 /\ Resting.pid = 0
                      /\ Len(Left) = Len(schedule) - 1
                      /\ \A k \in 1 .. Len(Left) : Left[k] = schedule[k+1]
           /\ ~Ends => /\ Left = schedule
                       /\ schedule # <<>> => Resting.pid # 0 /\ schedule[1].remaining_Time # 0
  <1> DEFINE n == Len(schedule)
             J == JobSet(process, current_Time - 1)
  <1>1. /\ schedule \in [1 .. n -> J] /\ n \in Nat
    BY DEF EInv, MiddleEvent, LastTick, Arrays
  <1>2. IF schedule = <<>> THEN running.pid = 0 ELSE running = schedule[1]
    BY DEF EInv, CopyAgrees
  <1>3. schedule \in Seq(J)
    BY <1>1
  <1>4. schedule # <<>> => running \in Records /\ n > 0
    <2>1. schedule # <<>> => n > 0
      BY <1>3
    <2>2. schedule # <<>> => schedule[1] \in J
      BY <1>1, <2>1
    <2> QED BY <1>2, <2>1, <2>2 DEF JobSet
  <1>5. CASE Ends
    <2>1. schedule # <<>> /\ running = schedule[1] /\ running.remaining_Time = 0
      BY <1>2, <1>5 DEF Ends
    <2>2. Left = Tail(schedule) /\ Resting.pid = 0
      BY <1>4, <1>5, <2>1 DEF Left, Resting, Records
    <2> HIDE DEF J
    <2>3. Len(Left) = n - 1 /\ \A k \in 1 .. n - 1 : Left[k] = schedule[k+1]
      BY <1>1, <1>3, <1>4, <2>1, <2>2
    <2> QED BY <1>5, <2>1, <2>2, <2>3
  <1>6. CASE ~Ends
    <2>1. Left = schedule /\ Resting = running
      BY <1>6 DEF Left, Resting
    <2>2. ASSUME schedule # <<>> PROVE Resting.pid # 0 /\ schedule[1].remaining_Time # 0
      <3>1. running.pid # 0
        BY <1>4, <2>2 DEF Records
      <3>2. running.remaining_Time # 0
        BY <1>6, <3>1 DEF Ends
      <3> QED BY <1>2, <2>1, <2>2, <3>1, <3>2
    <2> QED BY <1>6, <2>1, <2>2
  <1> QED BY <1>5, <1>6

-----------------------------------------------------------------------------
(* The array as the policy sees it. *)

\* The job as the policy sees it.
Shown(j) == [pid |-> j.pid, age |-> j.age, deadline |-> j.deadline,
             remaining |-> j.remaining_Time]
ShownJobs(s, n) == {Shown(s[k]) : k \in 1 .. n}
Now == Least(current_Time, max_Time)
\* How long the jobs of s but the first have waited until t since they last ran.
Waits(s, n, t) == [k \in 1 .. n |-> IF k = 1 THEN 0 ELSE t - WaitsSince(s[k])]
\* Each deadline is the end of a period, and every job but the first has time left.
Sound(j) == j.deadline % j.period = 0 /\ j.remaining_Time >= 0
FirstIsLeast(s, n) == \A k \in 1 .. n : s[1].deadline <= s[k].deadline

\* What the refinement of the policy needs besides EInv.
PInv ==
    /\ \A i \in 1 .. num_proc : process[i].cpu > 0
    /\ max_Time \in Nat \ {0}
    /\ waited \in Int /\ waitedTicks \in Int
    /\ \A k \in 1 .. Len(schedule) : Sound(schedule[k])
    /\ \A k \in 2 .. Len(schedule) : schedule[k].remaining_Time > 0
    /\ FirstIsLeast(schedule, Len(schedule))
    /\ current_Time = 0 =>
          \A k \in 1 .. Len(schedule) : /\ schedule[k].deadline > 0
                                        /\ schedule[k].remaining_Time > 0
    /\ finished => current_Time > max_Time /\ waited = waitedTicks
    /\ ~finished =>
          Adds(Waits(schedule, Len(schedule), Now), Len(schedule), waitedTicks - waited)

\* The policy tells the jobs of the array apart.
LEMMA ShownDiffer ==
    ASSUME NEW n \in Nat, NEW J, NEW s \in Arrays(J, n)
    PROVE  /\ \A k \in 1 .. n : \A m \in 1 .. n : Shown(s[k]) = Shown(s[m]) => k = m
           /\ Cardinality(ShownJobs(s, n)) = n
  <1> DEFINE f == [k \in 1 .. n |-> Shown(s[k])]
             S == ShownJobs(s, n)
  <1>1. \A k \in 1 .. n : \A m \in 1 .. n : Shown(s[k]) = Shown(s[m]) => k = m
    <2>1. ASSUME NEW k \in 1 .. n, NEW m \in 1 .. n, Shown(s[k]) = Shown(s[m]) PROVE k = m
      <3>1. Shown(s[k]).pid = Shown(s[m]).pid /\ Shown(s[k]).age = Shown(s[m]).age
        BY <2>1
      <3>2. s[k].pid = s[m].pid /\ s[k].age = s[m].age
        BY <3>1 DEF Shown
      <3>3. k \in DOMAIN s /\ m \in DOMAIN s /\ Distinct(s)
        BY DEF Arrays
      <3> QED BY <3>2, <3>3 DEF Distinct
    <2> QED BY <2>1
  <1>2. f \in [1 .. n -> S] /\ \A y \in S : \E k \in 1 .. n : f[k] = y
    BY DEF ShownJobs
  <1>3. \A k \in 1 .. n : \A m \in 1 .. n : f[k] = f[m] => k = m
    BY <1>1
  <1> HIDE DEF f, S
  <1>4. f \in Bijection(1 .. n, S)
    BY <1>2, <1>3 DEF Bijection, Injection, Surjection, IsInjective
  <1>5. Cardinality(S) = n
    BY <1>4, FS_CountingElements DEF ExistsBijection
  <1> QED BY <1>1, <1>5 DEF S

\* One tick of the first job of s, as the policy sees it.
LEMMA TickShows ==
    ASSUME NEW n \in Nat, n > 0, NEW J \in SUBSET Records, NEW s \in Arrays(J, n), NEW t,
           t = [s EXCEPT ![1].remaining_Time = @ - 1]
    PROVE  ShownJobs(t, n) = (ShownJobs(s, n) \ {Shown(s[1])})
                                \cup {[Shown(s[1]) EXCEPT !.remaining = @ - 1]}
  <1>1. /\ s \in [1 .. n -> J] /\ 1 \in 1 .. n /\ s[1] \in Records
        /\ \A k \in 1 .. n : Shown(s[k]) = Shown(s[1]) => k = 1
    <2>1. s \in [1 .. n -> J] /\ 1 \in 1 .. n
      BY DEF Arrays
    <2> QED BY <2>1, ShownDiffer
  <1>2. t[1] = [s[1] EXCEPT !.remaining_Time = @ - 1] /\ \A k \in 1 .. n : k # 1 => t[k] = s[k]
    BY <1>1
  <1>3. Shown(t[1]) = [Shown(s[1]) EXCEPT !.remaining = @ - 1]
    BY <1>1, <1>2 DEF Shown, Records
  <1> HIDE DEF Shown
  <1> DEFINE a == Shown(s[1])
             b == Shown(t[1])
  <1>4. ASSUME NEW x PROVE x \in ShownJobs(t, n) <=> x \in (ShownJobs(s, n) \ {a}) \cup {b}
    <2>1. x \in ShownJobs(t, n) <=> \E k \in 1 .. n : x = Shown(t[k])
      BY DEF ShownJobs
    <2>2. x \in ShownJobs(s, n) <=> \E k \in 1 .. n : x = Shown(s[k])
      BY DEF ShownJobs
    <2>3. ASSUME NEW k \in 1 .. n, x = Shown(t[k]) PROVE x \in (ShownJobs(s, n) \ {a}) \cup {b}
      BY <1>1, <1>2, <2>2, <2>3
    <2>4. ASSUME NEW k \in 1 .. n, x = Shown(s[k]), x # a PROVE \E m \in 1 .. n : x = Shown(t[m])
      BY <1>2, <2>4
    <2>5. x = b => \E m \in 1 .. n : x = Shown(t[m])
      BY <1>1
    <2> QED BY <2>1, <2>2, <2>3, <2>4, <2>5
  <1> QED BY <1>3, <1>4

\* WaitsSince and a tick keep the types of a job.
LEMMA WaitsSinceType == ASSUME NEW j \in Records PROVE WaitsSince(j) \in Int
  BY DEF WaitsSince, Records

LEMMA TickType ==
    ASSUME NEW j \in Records
    PROVE  [j EXCEPT !.remaining_Time = @ - 1] \in Records
  <1>1. j.remaining_Time - 1 \in Int
    BY DEF Records
  <1> QED BY <1>1 DEF Records

\* After one tick for the first job of s, of which r is the copy.
LEMMA RunForPolicy ==
    ASSUME NEW n \in Nat, NEW s \in Arrays(JobSet(process, current_Time), n), n = Len(s),
           NEW r, n > 0 => r = s[1],
           process \in Seq(Inputs), current_Time \in Nat, max_Time \in Nat \ {0},
           current_Time < max_Time, \A i \in 1 .. num_proc : process[i].cpu > 0,
           waitedTicks \in Int, waited' \in Int, ~finished,
           \A k \in 1 .. n : Sound(s[k]) /\ s[k].remaining_Time > 0,
           FirstIsLeast(s, n),
           Adds(Waits(s, n, current_Time), n, waitedTicks - waited'),
           RunFor(s, r)
    PROVE  /\ PInv'
           /\ waitedTicks' = IF n = 0 THEN waitedTicks ELSE waitedTicks + n - 1
           /\ n = 0 => schedule' = <<>> /\ running' = r
           /\ n > 0 => /\ running'.pid = s[1].pid /\ running'.age = s[1].age
                       /\ schedule' = [s EXCEPT ![1].remaining_Time = @ - 1]
  <1> DEFINE J == JobSet(process, current_Time)
  <1>0. s \in Seq(J) /\ s \in [1 .. n -> J] /\ J \in SUBSET Records
    BY DEF Arrays, JobSet
  <1>1. (s = <<>>) <=> (n = 0)
    BY <1>0
  <1>2. /\ current_Time' = current_Time + 1 /\ UNCHANGED <<process, max_Time, finished>>
        /\ current_Time' \in Nat /\ current_Time' # 0 /\ Now' = current_Time + 1
        /\ Now = current_Time
    BY DEF RunFor, Now, Least
  <1>3. (\A i \in 1 .. num_proc : process[i].cpu > 0)'
    BY <1>2 DEF num_proc
  <1>4. CASE n = 0
    <2>1. schedule' = <<>> /\ running' = r /\ waitedTicks' = waitedTicks /\ Len(schedule') = 0
      BY <1>1, <1>4 DEF RunFor
    <2>2. Adds(Waits(s, 0, current_Time), 0, waitedTicks' - waited')
      BY <1>4, <2>1
    <2>3. Adds(Waits(schedule', 0, Now'), 0, waitedTicks' - waited')
      BY <2>2, AddsSame
    <2>4. PInv'
      BY <1>2, <1>3, <2>1, <2>3 DEF PInv, FirstIsLeast
    <2> QED BY <1>4, <2>1, <2>4
  <1>5. CASE n > 0
    <2> DEFINE t == [s EXCEPT ![1].remaining_Time = @ - 1]
    <2>1. /\ schedule' = t /\ running' = [r EXCEPT !.remaining_Time = @ - 1]
          /\ waitedTicks' = waitedTicks + n - 1
      BY <1>1, <1>5 DEF RunFor
    <2>2. s[1] \in Records /\ r = s[1] /\ 1 \in 1 .. n
      BY <1>0, <1>5
    <2>3. running'.pid = s[1].pid /\ running'.age = s[1].age
      BY <2>1, <2>2 DEF Records
    <2>4. /\ t[1] = [s[1] EXCEPT !.remaining_Time = @ - 1]
          /\ \A k \in 1 .. n : k # 1 => t[k] = s[k]
          /\ DOMAIN t = 1 .. n
      BY <1>0, <2>2
    <2>5. t \in Seq(Records) /\ Len(t) = n
      <3>1. [s[1] EXCEPT !.remaining_Time = @ - 1] \in Records
        BY <2>2, TickType
      <3>2. \A k \in 1 .. n : t[k] \in Records
        BY <1>0, <2>4, <3>1
      <3>3. t \in [1 .. n -> Records]
        BY <1>0, <2>2, <3>1, <3>2
      <3> HIDE DEF t
      <3> QED BY <3>3
    <2>6. /\ t[1].remaining_Time = s[1].remaining_Time - 1 /\ t[1].deadline = s[1].deadline
          /\ t[1].period = s[1].period /\ s[1].remaining_Time \in Int
      BY <2>2, <2>4 DEF Records
    <2> HIDE DEF t
    <2>7. \A k \in 1 .. n : t[k].deadline = s[k].deadline /\ t[k].period = s[k].period
      BY <2>4, <2>6
    <2>8. \A k \in 1 .. n : Sound(t[k])
      <3>1. t[1].remaining_Time >= 0
        BY <2>2, <2>6
      <3>2. \A k \in 1 .. n : t[k].remaining_Time >= 0
        BY <2>4, <3>1 DEF Sound
      <3> QED BY <2>7, <3>2 DEF Sound
    <2>9. \A k \in 2 .. n : t[k].remaining_Time > 0
      <3>1. \A k \in 2 .. n : k \in 1 .. n /\ k # 1
        OBVIOUS
      <3> QED BY <2>4, <3>1
    <2>10. FirstIsLeast(t, n)
      BY <2>2, <2>7 DEF FirstIsLeast
    <2> DEFINE v == Waits(s, n, current_Time)
               w == Waits(t, n, current_Time + 1)
               x == waitedTicks - waited'
    <2>11. /\ v \in [1 .. n -> Int] /\ w[1] = v[1]
           /\ \A k \in 2 .. n : w[k] = v[k] + 1
      <3>1. \A k \in 1 .. n : WaitsSince(s[k]) \in Int
        <4>1. \A k \in 1 .. n : s[k] \in Records
          BY <1>0
        <4> QED BY <4>1, WaitsSinceType
      <3>2. \A k \in 1 .. n : current_Time - WaitsSince(s[k]) \in Int
        BY <3>1
      <3>3. v \in [1 .. n -> Int]
        BY <3>2 DEF Waits
      <3>4. w[1] = 0 /\ v[1] = 0
        BY <2>2 DEF Waits
      <3>5. ASSUME NEW k \in 2 .. n PROVE w[k] = v[k] + 1
        <4>1. k \in 1 .. n /\ k # 1 /\ t[k] = s[k]
          BY <2>4
        <4>2. w[k] = (current_Time + 1) - WaitsSince(s[k]) /\ v[k] = current_Time - WaitsSince(s[k])
          BY <4>1 DEF Waits
        <4> QED BY <3>1, <4>1, <4>2
      <3> QED BY <3>3, <3>4, <3>5
    <2>12. n \in Nat \ {0} /\ x \in Int /\ Adds(v, n, x)
      BY <1>5
    <2> HIDE DEF v, w, x
    <2>13. Adds(w, n, x + n - 1)
      BY <2>11, <2>12, AddsTick
    <2>14. x + n - 1 = waitedTicks' - waited'
      BY <2>1 DEF x
    <2>15. Adds(Waits(schedule', n, Now'), n, waitedTicks' - waited')
      BY <1>2, <2>1, <2>13, <2>14 DEF w
    <2>16. waitedTicks' \in Int
      BY <2>1
    <2>17. PInv'
      BY <1>2, <1>3, <2>1, <2>5, <2>8, <2>9, <2>10, <2>15, <2>16 DEF PInv
    <2> QED BY <1>5, <2>1, <2>3, <2>17 DEF t
  <1> QED BY <1>4, <1>5

-----------------------------------------------------------------------------
(* The jobs in the middle of the simulation. *)

\* Missing a deadline changes nothing of a job but the deadline.
LEMMA ExtendedFacts ==
    ASSUME process \in Seq(Inputs), current_Time \in Nat, current_Time > 0,
           NEW j \in JobSet(process, current_Time - 1), Sound(j)
    PROVE  /\ Sound(Extended(j)) /\ Extended(j).remaining_Time = j.remaining_Time
           /\ WaitsSince(Extended(j)) = WaitsSince(j)
           /\ Shown(Extended(j)) =
                IF j.deadline = current_Time
                THEN [Shown(j) EXCEPT !.deadline = current_Time + process[j.pid].period]
                ELSE Shown(j)
  <1>1. j \in Records /\ j.pid \in 1 .. Len(process) /\ j.period = process[j.pid].period
    BY DEF JobSet
  <1>2. j.period \in Nat \ {0}
    <2>1. process[j.pid] \in Inputs
      BY <1>1
    <2> QED BY <1>1, <2>1 DEF Inputs
  <1>3. CASE j.deadline = current_Time
    <2> DEFINE d == current_Time + j.period
               q == [j EXCEPT !.deadline = d]
    <2>1. current_Time % j.period = 0
      BY <1>3 DEF Sound
    <2>2. Extended(j) = q
      BY <1>3, <2>1 DEF Extended, IsLate
    <2>3. d % j.period = 0 /\ d \in Int
      BY <1>2, <2>1, NextMultiple
    <2> HIDE DEF d
    <2>4. /\ q.deadline = d /\ q.period = j.period /\ q.remaining_Time = j.remaining_Time
          /\ q.preempted = j.preempted /\ q.age = j.age /\ q.pid = j.pid
      BY <1>1 DEF Records
    <2> HIDE DEF q
    <2>5. Shown(q) = [Shown(j) EXCEPT !.deadline = d]
      BY <2>4 DEF Shown
    <2>6. Sound(q)
      BY <2>3, <2>4 DEF Sound
    <2>7. WaitsSince(q) = WaitsSince(j)
      BY <2>4 DEF WaitsSince
    <2>8. d = current_Time + process[j.pid].period
      BY <1>1 DEF d
    <2> QED BY <1>3, <2>2, <2>4, <2>5, <2>6, <2>7, <2>8
  <1>4. CASE j.deadline # current_Time
    <2>1. Extended(j) = j
      BY <1>4 DEF Extended, IsLate
    <2> QED BY <1>4, <2>1
  <1> QED BY <1>3, <1>4

\* What both invariants say in the middle of the simulation.
LEMMA MiddleFacts ==
    ASSUME EInv, PInv, MiddleEvent
    PROVE  /\ process \in Seq(Inputs) /\ current_Time \in Nat /\ current_Time > 0
           /\ max_Time \in Nat \ {0} /\ current_Time < max_Time
           /\ Now = current_Time /\ ~finished
           /\ Len(schedule) \in Nat
           /\ schedule \in [1 .. Len(schedule) -> JobSet(process, current_Time - 1)]
           /\ schedule = <<>> <=> Len(schedule) = 0
           /\ waited \in Int /\ waitedTicks \in Int
           /\ Adds(Waits(schedule, Len(schedule), current_Time), Len(schedule),
                   waitedTicks - waited)
  <1>1. /\ process \in Seq(Inputs) /\ current_Time \in Nat /\ current_Time > 0
        /\ max_Time \in Nat \ {0} /\ current_Time < max_Time
    BY DEF EInv, PInv, MiddleEvent
  <1>2. Now = current_Time
    BY <1>1 DEF Now, Least
  <1>3. ~finished
    BY <1>1 DEF PInv
  <1>4. /\ schedule \in [1 .. Len(schedule) -> JobSet(process, current_Time - 1)]
        /\ Len(schedule) \in Nat
    BY <1>1 DEF EInv, LastTick, Arrays
  <1> DEFINE J == JobSet(process, current_Time - 1)
  <1>5. schedule \in Seq(J)
    BY <1>4
  <1> HIDE DEF J
  <1>6. schedule = <<>> <=> Len(schedule) = 0
    BY <1>5
  <1> QED BY <1>1, <1>2, <1>3, <1>4, <1>6 DEF PInv

\* The jobs that are left have time left.
LEMMA LeftSound ==
    ASSUME EInv, PInv, MiddleEvent
    PROVE  \A k \in 1 .. Len(Left) : /\ Left[k] \in JobSet(process, current_Time - 1)
                                     /\ Sound(Left[k]) /\ Left[k].remaining_Time > 0
  <1> DEFINE J == JobSet(process, current_Time - 1)
             n == Len(schedule)
  <1>1. n \in Nat /\ schedule \in [1 .. n -> J] /\ (schedule = <<>> <=> n = 0)
    BY MiddleFacts
  <1>2. /\ \A k \in 1 .. n : Sound(schedule[k])
        /\ \A k \in 2 .. n : schedule[k].remaining_Time > 0
    BY DEF PInv
  <1>3. \A k \in 1 .. n : schedule[k].remaining_Time \in Int
    <2>1. \A k \in 1 .. n : schedule[k] \in Records
      BY <1>1 DEF JobSet
    <2> QED BY <2>1 DEF Records
  <1> HIDE DEF J
  <1>4. CASE Ends
    <2>1. Len(Left) = n - 1 /\ \A k \in 1 .. n - 1 : Left[k] = schedule[k+1]
      BY <1>4, LeftIs
    <2>2. \A k \in 1 .. n - 1 : k + 1 \in 1 .. n /\ k + 1 \in 2 .. n
      BY <1>1
    <2> HIDE DEF n
    <2> QED BY <1>1, <1>2, <2>1, <2>2 DEF J
  <1>5. CASE ~Ends
    <2>1. Left = schedule /\ (schedule # <<>> => schedule[1].remaining_Time # 0)
      BY <1>5, LeftIs
    <2>2. ASSUME NEW k \in 1 .. n PROVE schedule[k].remaining_Time > 0
      <3>1. CASE k = 1
        BY <1>1, <1>2, <1>3, <2>1, <3>1 DEF Sound
      <3>2. CASE k # 1
        <4>1. k \in 2 .. n
          BY <3>2
        <4> QED BY <1>2, <4>1
      <3> QED BY <3>1, <3>2
    <2> QED BY <1>1, <1>2, <2>1, <2>2 DEF J
  <1> QED BY <1>4, <1>5

\* A new job has all its time left and its deadline at the end of a period.
LEMMA ArrivalSound ==
    ASSUME process \in Seq(Inputs), current_Time \in Nat, NEW p \in 1 .. num_proc, Due(p),
           process[p].cpu > 0
    PROVE  /\ Sound(NewJob(p, current_Time)) /\ NewJob(p, current_Time).remaining_Time > 0
           /\ WaitsSince(NewJob(p, current_Time)) = current_Time
           /\ Shown(NewJob(p, current_Time)) =
                 [pid |-> p, age |-> current_Time,
                  deadline |-> current_Time + process[p].period, remaining |-> process[p].cpu]
  <1>1. process[p].period \in Nat \ {0} /\ process[p].cpu \in Nat
    <2>1. process[p] \in Inputs
      BY DEF num_proc
    <2> QED BY <2>1 DEF Inputs
  <1>2. (current_Time + process[p].period) % process[p].period = 0
    BY <1>1, NextMultiple DEF Due
  <1>3. Sound(NewJob(p, current_Time))
    BY <1>1, <1>2 DEF Sound, NewJob
  <1> QED BY <1>3 DEF NewJob, WaitsSince, Shown

\* Every job of the array after the arrivals has time left.
LEMMA ExtensionSound ==
    ASSUME EInv, PInv, MiddleEvent
    PROVE  \A k \in 1 .. Len(Extension) :
              Sound(Extension[k]) /\ Extension[k].remaining_Time > 0
  <1>1. /\ Len(Extension) = Len(Left) + Len(Arrivals) /\ Len(Arrivals) \in Nat
        /\ \A k \in 1 .. Len(Left) : Extension[k] = Extended(Left[k])
        /\ \A k \in 1 .. Len(Arrivals) : Extension[Len(Left) + k] = Arrivals[k]
        /\ Len(Left) \in Nat
    BY ExtensionFacts, LeftFacts
  <1>2. /\ process \in Seq(Inputs) /\ current_Time \in Nat /\ current_Time > 0
        /\ \A i \in 1 .. num_proc : process[i].cpu > 0
    BY MiddleFacts DEF PInv
  <1>3. ASSUME NEW k \in 1 .. Len(Left)
        PROVE  Sound(Extension[k]) /\ Extension[k].remaining_Time > 0
    BY <1>1, <1>2, LeftSound, ExtendedFacts
  <1>4. ASSUME NEW k \in 1 .. Len(Arrivals)
        PROVE  Sound(Extension[Len(Left) + k]) /\ Extension[Len(Left) + k].remaining_Time > 0
    <2>1. k \in DOMAIN Arrivals
      <3>1. Arrivals \in Seq(JobSet(process, current_Time))
        BY <1>2, ArrivalFacts
      <3> QED BY <3>1
    <2>2. PICK p \in 1 .. num_proc : Due(p) /\ Arrivals[k] = NewJob(p, current_Time)
      BY <1>2, <2>1, ArrivalFacts
    <2> QED BY <1>1, <1>2, <2>2, ArrivalSound
  <1>5. \A k \in 1 .. Len(Extension) : k \in 1 .. Len(Left) \/
           \E m \in 1 .. Len(Arrivals) : k = Len(Left) + m
    <2>1. ASSUME NEW k \in 1 .. Len(Extension), k \notin 1 .. Len(Left)
          PROVE  k - Len(Left) \in 1 .. Len(Arrivals) /\ k = Len(Left) + (k - Len(Left))
      BY <1>1, <2>1
    <2> QED BY <2>1
  <1> QED BY <1>3, <1>4, <1>5

\* What a job of the array has waited since it last ran; the running one has not.
Worth(j) == IF Resting.pid # 0 /\ j = WasRunning THEN 0 ELSE Waited(j)

\* The copy kept for comparison is the first job, its deadline postponed with it.
LEMMA WasRunningIs ==
    ASSUME EInv, PInv, MiddleEvent, Resting.pid # 0
    PROVE  Left # <<>> /\ WasRunning = Extended(Left[1])
  BY LeftFacts DEF WasRunning, Extended

\* The end of a job, which has not waited since it last ran, leaves the sum as it is.
LEMMA LeftAdds ==
    ASSUME EInv, PInv, MiddleEvent
    PROVE  Adds([k \in 1 .. Len(Left) |-> IF Resting.pid # 0 /\ k = 1 THEN 0 ELSE Waited(Left[k])],
                Len(Left), waitedTicks - waited)
  <1> DEFINE n == Len(schedule)
             J == JobSet(process, current_Time - 1)
             v == Waits(schedule, n, current_Time)
             w == [k \in 1 .. Len(Left) |-> IF Resting.pid # 0 /\ k = 1 THEN 0 ELSE Waited(Left[k])]
             x == waitedTicks - waited
  <1>1. /\ n \in Nat /\ schedule \in [1 .. n -> J] /\ (schedule = <<>> <=> n = 0)
        /\ Adds(v, n, x) /\ x \in Int /\ current_Time \in Nat
    BY MiddleFacts
  <1>2. v \in [1 .. n -> Int]
    <2>1. \A k \in 1 .. n : WaitsSince(schedule[k]) \in Int
      <3>1. \A k \in 1 .. n : schedule[k] \in Records
        BY <1>1 DEF JobSet
      <3> QED BY <3>1, WaitsSinceType
    <2>2. \A k \in 1 .. n : current_Time - WaitsSince(schedule[k]) \in Int
      BY <1>1, <2>1
    <2> QED BY <2>2 DEF Waits
  <1>3. \A k \in 1 .. n : v[k] = IF k = 1 THEN 0 ELSE Waited(schedule[k])
    BY DEF Waits, Waited
  <1> HIDE DEF v, x, J
  <1>4. CASE Ends
    <2>1. /\ Len(Left) = n - 1 /\ \A k \in 1 .. n - 1 : Left[k] = schedule[k+1]
          /\ Resting.pid = 0 /\ n \in Nat \ {0}
      BY <1>1, <1>4, LeftIs
    <2>2. \A k \in 1 .. n - 1 : w[k] = Waited(schedule[k+1])
      BY <2>1
    <2>3. \A k \in 1 .. n - 1 : k + 1 \in 1 .. n /\ k + 1 # 1
      BY <1>1
    <2>4. \A k \in 1 .. n - 1 : w[k] = v[k+1]
      BY <1>3, <2>2, <2>3
    <2>5. v[1] = 0
      BY <1>3, <2>1
    <2> HIDE DEF w, n
    <2>6. Adds(w, n - 1, x - v[1])
      BY <1>1, <1>2, <2>1, <2>4, AddsTail
    <2>7. x - v[1] = x
      BY <1>1, <2>5
    <2> QED BY <2>1, <2>6, <2>7 DEF w, x
  <1>5. CASE ~Ends
    <2>1. Left = schedule /\ (schedule # <<>> => Resting.pid # 0)
      BY <1>5, LeftIs
    <2>2. ASSUME NEW k \in 1 .. n PROVE w[k] = v[k]
      <3>1. Resting.pid # 0
        BY <1>1, <2>1
      <3> QED BY <1>3, <2>1, <3>1
    <2>3. Adds(w, n, x)
      <3> HIDE DEF w, n
      <3> QED BY <1>1, <2>2, AddsSame
    <2> QED BY <2>1, <2>3 DEF x
  <1> QED BY <1>4, <1>5

\* The arrivals add nothing to what the jobs have waited.
LEMMA ExtensionAdds ==
    ASSUME EInv, PInv, MiddleEvent
    PROVE  Adds([k \in 1 .. Len(Extension) |-> Worth(Extension[k])], Len(Extension),
                waitedTicks - waited)
  <1> DEFINE n == Len(Left)
             a == Len(Arrivals)
             v == [k \in 1 .. n |-> IF Resting.pid # 0 /\ k = 1 THEN 0 ELSE Waited(Left[k])]
             w == [k \in 1 .. Len(Extension) |-> Worth(Extension[k])]
  <1>1. /\ Len(Extension) = n + a /\ a \in Nat /\ n \in Nat
        /\ \A k \in 1 .. n : Extension[k] = Extended(Left[k])
        /\ \A k \in 1 .. a : Extension[n + k] = Arrivals[k]
        /\ Extension \in Arrays(JobSet(process, current_Time), n + a)
    BY ExtensionFacts, LeftFacts
  <1>2. /\ process \in Seq(Inputs) /\ current_Time \in Nat /\ current_Time > 0
        /\ \A i \in 1 .. num_proc : process[i].cpu > 0
    BY MiddleFacts DEF PInv
  <1>3. \A k \in 1 .. n + a : \A m \in 1 .. n + a : Extension[k] = Extension[m] => k = m
    BY <1>1 DEF Arrays, Distinct
  <1>4. ASSUME NEW k \in 1 .. n PROVE w[k] = v[k]
    <2>1. Left[k] \in JobSet(process, current_Time - 1) /\ Sound(Left[k])
      BY LeftSound
    <2>2. WaitsSince(Extended(Left[k])) = WaitsSince(Left[k])
      BY <1>2, <2>1, ExtendedFacts
    <2>3. Waited(Extension[k]) = Waited(Left[k])
      BY <1>1, <2>2 DEF Waited
    <2>4. k \in 1 .. n + a /\ 1 \in 1 .. n + a /\ 1 \in 1 .. n
      BY <1>1
    <2>5. Resting.pid # 0 => WasRunning = Extension[1]
      BY <1>1, <2>4, WasRunningIs
    <2>6. Resting.pid # 0 => (Extension[k] = WasRunning <=> k = 1)
      BY <1>3, <2>4, <2>5
    <2>7. w[k] = Worth(Extension[k]) /\ v[k] = IF Resting.pid # 0 /\ k = 1 THEN 0 ELSE Waited(Left[k])
      BY <1>1, <2>4
    <2> HIDE DEF v, w, n, a
    <2> QED BY <2>3, <2>6, <2>7 DEF Worth
  <1>5. ASSUME NEW k \in n + 1 .. n + a PROVE w[k] = 0
    <2> DEFINE m == k - n
    <2>1. m \in 1 .. a /\ k = n + m /\ k \in 1 .. n + a
      BY <1>1
    <2>2. m \in DOMAIN Arrivals
      <3>1. Arrivals \in Seq(JobSet(process, current_Time))
        BY <1>2, ArrivalFacts
      <3> QED BY <2>1, <3>1
    <2>3. PICK p \in 1 .. num_proc : Due(p) /\ Arrivals[m] = NewJob(p, current_Time)
      BY <1>2, <2>2, ArrivalFacts
    <2>4. WaitsSince(Arrivals[m]) = current_Time
      BY <1>2, <2>3, ArrivalSound
    <2>5. Waited(Extension[k]) = 0
      BY <1>1, <1>2, <2>1, <2>4 DEF Waited
    <2>6. w[k] = Worth(Extension[k])
      BY <1>1, <2>1
    <2> HIDE DEF w
    <2> QED BY <2>5, <2>6 DEF Worth
  <1>6. Adds(v, n, waitedTicks - waited)
    BY LeftAdds
  <1> HIDE DEF v, w
  <1>7. Adds(w, n + a, waitedTicks - waited)
    BY <1>1, <1>4, <1>5, <1>6, AddsMore
  <1> QED BY <1>1, <1>7 DEF w

\* The refinement mapping shows the jobs of the array.
LEMMA ShownAre ==
    ASSUME NEW s, NEW n, DOMAIN s = 1 .. n
    PROVE  {[pid |-> j.pid, age |-> j.age, deadline |-> j.deadline,
             remaining |-> j.remaining_Time] : j \in {s[k] : k \in DOMAIN s}} = ShownJobs(s, n)
  BY DEF ShownJobs, Shown

\* The array after the arrivals holds the jobs the policy chooses from.
LEMMA ReadyIs ==
    ASSUME EInv, PInv, MiddleEvent
    PROVE  Policy!Ready = ShownJobs(Extension, Len(Extension))
  <1> DEFINE n == Len(Left)
             a == Len(Arrivals)
             m == Len(schedule)
             P == {[pid |-> j.pid, age |-> j.age, deadline |-> j.deadline,
                    remaining |-> j.remaining_Time] : j \in Jobs}
             Post(x) == IF x.deadline = current_Time
                        THEN [x EXCEPT !.deadline = current_Time + process[x.pid].period] ELSE x
             New(p) == [pid |-> p, age |-> current_Time,
                        deadline |-> current_Time + process[p].period, remaining |-> process[p].cpu]
  <1>1. /\ Len(Extension) = n + a /\ a \in Nat /\ n \in Nat
        /\ \A k \in 1 .. n : Extension[k] = Extended(Left[k])
        /\ \A k \in 1 .. a : Extension[n + k] = Arrivals[k]
    BY ExtensionFacts, LeftFacts
  <1>2. /\ process \in Seq(Inputs) /\ current_Time \in Nat /\ current_Time > 0
        /\ Least(current_Time, max_Time) = current_Time /\ m \in Nat
        /\ schedule \in [1 .. m -> JobSet(process, current_Time - 1)]
        /\ \A i \in 1 .. num_proc : process[i].cpu > 0
    BY MiddleFacts DEF PInv, Now
  <1>3. P = {Shown(schedule[k]) : k \in 1 .. m}
    <2>1. P = ShownJobs(schedule, m)
      BY <1>2, ShownAre DEF Jobs
    <2> QED BY <2>1 DEF ShownJobs
  <1>4. Policy!Ready = {Post(x) : x \in {j \in P : j.remaining > 0}}
                          \cup {New(p) : p \in {q \in DOMAIN process : current_Time % process[q].period = 0}}
    BY <1>2 DEF Policy!Ready, Policy!Postponed, Policy!Released, Policy!Release
  <1>5. \A x : x \in {j \in P : j.remaining > 0} <=> \E k \in 1 .. n : x = Shown(Left[k])
    <2>1. \A k \in 1 .. m : Shown(schedule[k]).remaining = schedule[k].remaining_Time
      BY DEF Shown
    <2>2. \A k \in 1 .. n : Shown(Left[k]).remaining > 0
      BY LeftSound DEF Shown
    <2>3. ASSUME NEW k \in 1 .. n PROVE Shown(Left[k]) \in P
      <3>1. CASE Ends
        <4>1. n = m - 1 /\ \A l \in 1 .. n : Left[l] = schedule[l+1]
          BY <3>1, LeftIs
        <4> HIDE DEF n, m
        <4>2. Left[k] = schedule[k+1] /\ k + 1 \in 1 .. m
          BY <1>2, <4>1
        <4> QED BY <1>3, <4>2
      <3>2. CASE ~Ends
        BY <1>3, <3>2, LeftIs
      <3> QED BY <3>1, <3>2
    <2>4. ASSUME NEW k \in 1 .. m, schedule[k].remaining_Time > 0
          PROVE  \E l \in 1 .. n : schedule[k] = Left[l]
      <3>1. CASE Ends
        <4>1. /\ n = m - 1 /\ schedule[1].remaining_Time = 0
              /\ \A l \in 1 .. n : Left[l] = schedule[l+1]
          BY <3>1, LeftIs
        <4>2. k # 1 /\ k - 1 \in 1 .. n /\ (k - 1) + 1 = k
          BY <1>2, <2>4, <4>1
        <4> QED BY <4>1, <4>2
      <3>2. CASE ~Ends
        BY <3>2, LeftIs
      <3> QED BY <3>1, <3>2
    <2> HIDE DEF P
    <2> QED BY <1>3, <2>1, <2>2, <2>3, <2>4
  <1>6. ASSUME NEW k \in 1 .. n PROVE Post(Shown(Left[k])) = Shown(Extension[k])
    <2>1. Left[k] \in JobSet(process, current_Time - 1) /\ Sound(Left[k])
      BY LeftSound
    <2>2. Shown(Left[k]).deadline = Left[k].deadline /\ Shown(Left[k]).pid = Left[k].pid
      BY DEF Shown
    <2> QED BY <1>1, <1>2, <2>1, <2>2, ExtendedFacts
  <1>7. \A p : p \in {q \in DOMAIN process : current_Time % process[q].period = 0}
                  <=> p \in 1 .. num_proc /\ Due(p)
    BY <1>2 DEF Due, num_proc
  <1>8. DOMAIN Arrivals = 1 .. a
    <2>1. Arrivals \in Seq(JobSet(process, current_Time))
      BY <1>2, ArrivalFacts
    <2> QED BY <2>1
  <1>9. ASSUME NEW p \in 1 .. num_proc, Due(p)
        PROVE  Shown(NewJob(p, current_Time)) = New(p)
    BY <1>2, <1>9, ArrivalSound
  <1>10. ASSUME NEW k \in 1 .. a
         PROVE  \E p \in 1 .. num_proc : Due(p) /\ Shown(Extension[n + k]) = New(p)
    <2>1. PICK p \in 1 .. num_proc : Due(p) /\ Arrivals[k] = NewJob(p, current_Time)
      BY <1>2, <1>8, ArrivalFacts
    <2> QED BY <1>1, <1>9, <2>1
  <1>11. ASSUME NEW p \in 1 .. num_proc, Due(p)
         PROVE  \E k \in 1 .. a : Shown(Extension[n + k]) = New(p)
    <2>1. PICK k \in 1 .. a : Arrivals[k] = NewJob(p, current_Time)
      BY <1>2, <1>8, <1>11, ArrivalFacts
    <2> QED BY <1>1, <1>9, <1>11, <2>1
  <1>12. \A k \in 1 .. n + a : k \in 1 .. n \/ \E l \in 1 .. a : k = n + l
    <2>1. ASSUME NEW k \in 1 .. n + a, k \notin 1 .. n PROVE k - n \in 1 .. a /\ k = n + (k - n)
      BY <1>1, <2>1
    <2> QED BY <2>1
  <1>13. (\A k \in 1 .. n : k \in 1 .. n + a) /\ \A k \in 1 .. a : n + k \in 1 .. n + a
    BY <1>1
  <1> HIDE DEF P, Post, New, n, a, m
  <1>14. ASSUME NEW x PROVE x \in Policy!Ready <=> x \in ShownJobs(Extension, n + a)
    <2>1. x \in Policy!Ready <=> \/ \E k \in 1 .. n : x = Shown(Extension[k])
                                 \/ \E p \in 1 .. num_proc : Due(p) /\ x = New(p)
      BY <1>4, <1>5, <1>6, <1>7
    <2>2. (\E p \in 1 .. num_proc : Due(p) /\ x = New(p))
             <=> \E k \in 1 .. a : x = Shown(Extension[n + k])
      BY <1>10, <1>11
    <2>3. x \in ShownJobs(Extension, n + a) <=> \E k \in 1 .. n + a : x = Shown(Extension[k])
      BY DEF ShownJobs
    <2> QED BY <1>12, <1>13, <2>1, <2>2, <2>3
  <1> QED BY <1>1, <1>14

-----------------------------------------------------------------------------
(* The steps of the policy. *)

\* The policy counts with the Cardinality of the simulator.
LEMMA SameCardinality == ASSUME NEW S PROVE Policy!Cardinality(S) = Cardinality(S)
  BY DEF Policy!Cardinality, Cardinality

\* One tick of the simulator for the first job of s is one tick of the policy.
LEMMA TickIsPolicy ==
    ASSUME NEW n \in Nat, NEW s \in Arrays(JobSet(process, current_Time), n), n = Len(s),
           NEW r, IF n > 0 THEN r = s[1] ELSE r.pid = 0,
           process \in Seq(Inputs), current_Time \in Nat, max_Time \in Nat \ {0},
           current_Time < max_Time, \A i \in 1 .. num_proc : process[i].cpu > 0,
           waitedTicks \in Int, waited' \in Int, ~finished,
           \A k \in 1 .. n : Sound(s[k]) /\ s[k].remaining_Time > 0,
           FirstIsLeast(s, n),
           Adds(Waits(s, n, current_Time), n, waitedTicks - waited'),
           RunFor(s, r), Policy!Ready = ShownJobs(s, n)
    PROVE  PInv' /\ Policy!Tick
  <1> DEFINE J == JobSet(process, current_Time)
  <1>1. /\ PInv'
        /\ waitedTicks' = IF n = 0 THEN waitedTicks ELSE waitedTicks + n - 1
        /\ n = 0 => schedule' = <<>> /\ running' = r
        /\ n > 0 => /\ running'.pid = s[1].pid /\ running'.age = s[1].age
                    /\ schedule' = [s EXCEPT ![1].remaining_Time = @ - 1]
    BY RunForPolicy
  <1>2. /\ current_Time' = current_Time + 1 /\ UNCHANGED <<process, max_Time, finished>>
    BY DEF RunFor
  <1>3. /\ Least(current_Time, max_Time) = current_Time
        /\ Least(current_Time, max_Time)' = current_Time + 1
        /\ current_Time' # 0
    BY <1>2 DEF Least
  <1> DEFINE jobs1 == {[pid |-> j.pid, age |-> j.age, deadline |-> j.deadline,
                        remaining |-> j.remaining_Time] : j \in Jobs'}
             current1 == IF current_Time' = 0 \/ running'.pid = 0 THEN [pid |-> 0, age |-> 0]
                         ELSE [pid |-> running'.pid, age |-> running'.age]
  <1>4. Policy!Idle \/ Policy!Run
    <2>1. CASE n = 0
      <3>1. Policy!Ready = {}
        BY <2>1 DEF ShownJobs
      <3>2. jobs1 = {}
        <4>1. schedule' = <<>>
          BY <1>1, <2>1
        <4>2. Jobs' = {}
          BY <4>1 DEF Jobs
        <4> QED BY <4>2
      <3>3. current1 = [pid |-> 0, age |-> 0]
        BY <1>1, <2>1
      <3>4. waitedTicks' = waitedTicks
        BY <1>1, <2>1
      <3> QED BY <3>1, <3>2, <3>3, <3>4 DEF Policy!Idle, Policy!NoJob
    <2>2. CASE n > 0
      <3> DEFINE a == Shown(s[1])
                 R == ShownJobs(s, n)
                 t == [s EXCEPT ![1].remaining_Time = @ - 1]
      <3>1. /\ J \in SUBSET Records /\ s \in [1 .. n -> J] /\ s[1] \in Records /\ 1 \in 1 .. n
        BY <2>2 DEF JobSet, Arrays
      <3>2. a \in R /\ \A x \in R : a.deadline <= x.deadline
        <4>1. \A k \in 1 .. n : Shown(s[k]).deadline = s[k].deadline
          BY DEF Shown
        <4>2. \A k \in 1 .. n : a.deadline <= Shown(s[k]).deadline
          BY <3>1, <4>1 DEF FirstIsLeast
        <4>3. \A x \in R : \E k \in 1 .. n : x = Shown(s[k])
          BY DEF ShownJobs
        <4>4. a \in R
          BY <3>1 DEF ShownJobs
        <4> HIDE DEF a, R
        <4> QED BY <4>2, <4>3, <4>4
      <3>3. DOMAIN t = 1 .. n /\ schedule' = t
        BY <1>1, <2>2, <3>1
      <3>4. jobs1 = ShownJobs(t, n)
        <4> HIDE DEF t
        <4>1. Jobs' = {t[k] : k \in DOMAIN t}
          BY <3>3 DEF Jobs
        <4> QED BY <3>3, <4>1, ShownAre
      <3>5. ShownJobs(t, n) = (R \ {a}) \cup {[a EXCEPT !.remaining = @ - 1]}
        BY <2>2, <3>1, TickShows
      <3>6. a.pid = s[1].pid /\ a.age = s[1].age /\ s[1].pid # 0
        BY <3>1 DEF Shown, Records
      <3>7. current1 = [pid |-> a.pid, age |-> a.age]
        BY <1>1, <1>3, <2>2, <3>6
      <3>8. waitedTicks' = waitedTicks + Cardinality(R) - 1
        <4>1. Cardinality(R) = n
          BY <3>1, ShownDiffer
        <4> QED BY <1>1, <2>2, <4>1
      <3> HIDE DEF a, R, t, jobs1, current1
      <3>9. /\ a \in Policy!Ready /\ \A x \in Policy!Ready : a.deadline <= x.deadline
            /\ jobs1 = (Policy!Ready \ {a}) \cup {[a EXCEPT !.remaining = @ - 1]}
            /\ current1 = Policy!Name(a)
            /\ waitedTicks' = waitedTicks + Policy!Cardinality(Policy!Ready) - 1
        BY <3>2, <3>4, <3>5, <3>7, <3>8, SameCardinality DEF R, Policy!Name
      <3> QED BY <3>9 DEF Policy!Run, jobs1, current1
    <2> QED BY <2>1, <2>2
  <1>5. UNCHANGED (IF finished THEN waited ELSE 0)
    BY <1>2
  <1> QED BY <1>1, <1>2, <1>3, <1>4, <1>5 DEF Policy!Tick

\* The running job has not waited, the others have.
LEMMA WaitsOfRunning ==
    ASSUME NEW n \in Nat, NEW J, NEW s \in Arrays(J, n), NEW x,
           n > 0 => Resting.pid # 0 /\ s[1] = WasRunning,
           Adds([k \in 1 .. n |-> Worth(s[k])], n, x)
    PROVE  Adds(Waits(s, n, current_Time), n, x)
  <1> DEFINE v == [k \in 1 .. n |-> Worth(s[k])]
             w == Waits(s, n, current_Time)
  <1>1. ASSUME NEW k \in 1 .. n PROVE w[k] = v[k]
    <2>1. n > 0 /\ 1 \in 1 .. n
      OBVIOUS
    <2>2. s[k] = s[1] => k = 1
      BY <2>1 DEF Arrays, Distinct
    <2>3. Resting.pid # 0 /\ (s[k] = WasRunning <=> k = 1)
      BY <2>1, <2>2
    <2>4. w[k] = (IF k = 1 THEN 0 ELSE Waited(s[k])) /\ v[k] = Worth(s[k])
      BY DEF Waits, Waited
    <2> HIDE DEF v, w
    <2> QED BY <2>3, <2>4 DEF Worth
  <1>2. Adds(v, n, x)
    OBVIOUS
  <1> HIDE DEF v, w
  <1>3. Adds(w, n, x)
    BY <1>1, <1>2, AddsSame
  <1> QED BY <1>3 DEF w

\* The job runs on: it has an earliest deadline still, for no deadline came nearer.
LEMMA ContinuePolicy == ASSUME EInv, PInv, Continue PROVE PInv' /\ Policy!Tick
  <1> DEFINE n == Len(Extension)
             J == JobSet(process, current_Time)
  <1>1. /\ MiddleEvent /\ RunFor(Extension, Resting) /\ waited' = waited
        /\ Extension = <<>> \/ (Arrivals = <<>> /\ Resting.pid # 0)
    BY DEF Continue
  <1>2. Extension = Left
    BY <1>1, ExtensionFacts
  <1>3. n \in Nat /\ Extension \in Arrays(J, n) /\ (Extension = <<>> <=> n = 0)
    <2>1. n \in Nat /\ Extension \in Arrays(J, n)
      BY <1>1, ExtensionFacts
    <2>2. Extension \in Seq(J)
      BY <2>1 DEF Arrays
    <2> HIDE DEF J
    <2> QED BY <2>1, <2>2
  <1>4. /\ process \in Seq(Inputs) /\ current_Time \in Nat /\ max_Time \in Nat \ {0}
        /\ current_Time < max_Time /\ ~finished /\ waited \in Int /\ waitedTicks \in Int
        /\ \A i \in 1 .. num_proc : process[i].cpu > 0
    BY <1>1, MiddleFacts DEF PInv
  <1>5. IF n > 0 THEN Resting = Extension[1] ELSE Resting.pid = 0
    BY <1>1, <1>2, <1>3, LeftFacts
  <1>6. n > 0 => Resting.pid # 0 /\ Extension[1] = WasRunning
    <2>1. ASSUME n > 0 PROVE Resting.pid # 0 /\ Extension[1] = WasRunning
      <3>1. Resting.pid # 0 /\ Arrivals = <<>>
        BY <1>1, <1>3, <2>1
      <3>2. WasRunning = Extended(Left[1])
        BY <1>1, <3>1, WasRunningIs
      <3>3. Extension[1] = Extended(Left[1])
        <4>1. 1 \in 1 .. Len(Left)
          BY <1>2, <1>3, <2>1
        <4> QED BY <1>1, <4>1, ExtensionFacts
      <3> QED BY <3>1, <3>2, <3>3
    <2> QED BY <2>1
  <1>7. FirstIsLeast(Extension, n)
    <2>1. CASE n = 0
      BY <2>1 DEF FirstIsLeast
    <2>2. CASE n # 0
      <3>1. Resting.pid # 0
        BY <1>1, <1>3, <2>2
      <3>2. Left = schedule
        BY <1>1, <3>1, LeftIs
      <3> QED BY <1>2, <3>2 DEF PInv
    <2> QED BY <2>1, <2>2
  <1>8. Adds([k \in 1 .. n |-> Worth(Extension[k])], n, waitedTicks - waited)
    BY <1>1, ExtensionAdds
  <1>9. \A k \in 1 .. n : Sound(Extension[k]) /\ Extension[k].remaining_Time > 0
    BY <1>1, ExtensionSound
  <1>10. Policy!Ready = ShownJobs(Extension, n)
    BY <1>1, ReadyIs
  <1> DEFINE x == waitedTicks - waited
  <1> HIDE DEF n, x
  <1>11. Adds(Waits(Extension, n, current_Time), n, x)
    <2> HIDE DEF J
    <2> QED BY <1>3, <1>6, <1>8, WaitsOfRunning DEF x
  <1>12. n = Len(Extension) /\ x = waitedTicks - waited'
    BY <1>1 DEF n, x
  <1>13. waited' \in Int
    BY <1>1, <1>4
  <1> QED BY <1>1, <1>3, <1>4, <1>5, <1>7, <1>9, <1>10, <1>11, <1>12, <1>13, TickIsPolicy

\* The sorted array: the same jobs, worth the same, and an earliest deadline in front.
LEMMA SortedPolicy ==
    ASSUME EInv, PInv, MiddleEvent, Extension # <<>>
    PROVE  /\ \A k \in 1 .. Len(Extension) :
                 /\ Sound(deadline_Sort(Extension)[k])
                 /\ deadline_Sort(Extension)[k].remaining_Time > 0
           /\ FirstIsLeast(deadline_Sort(Extension), Len(Extension))
           /\ Policy!Ready = ShownJobs(deadline_Sort(Extension), Len(Extension))
           /\ Adds([k \in 1 .. Len(Extension) |-> Worth(deadline_Sort(Extension)[k])],
                   Len(Extension), waitedTicks - waited)
           /\ \A k \in 1 .. Len(Extension) : Worth(deadline_Sort(Extension)[k]) \in Int
  <1> DEFINE n == Len(Extension)
             s == deadline_Sort(Extension)
             J == JobSet(process, current_Time)
  <1>1. /\ n \in Nat \ {0} /\ s \in Arrays(J, n)
        /\ \A k \in 1 .. n : \E m \in 1 .. n : s[k] = Extension[m]
        /\ \A m \in 1 .. n : \E k \in 1 .. n : s[k] = Extension[m]
        /\ FirstIsLeast(s, n)
    BY SortedFacts DEF FirstIsLeast
  <1>2. \A k \in 1 .. n : Sound(s[k]) /\ s[k].remaining_Time > 0
    <2>1. \A k \in 1 .. n : Sound(Extension[k]) /\ Extension[k].remaining_Time > 0
      BY ExtensionSound
    <2> HIDE DEF s, n
    <2> QED BY <1>1, <2>1
  <1>3. Policy!Ready = ShownJobs(s, n)
    <2>1. Policy!Ready = ShownJobs(Extension, n)
      BY ReadyIs
    <2> HIDE DEF s, n
    <2>2. ShownJobs(Extension, n) = ShownJobs(s, n)
      <3>1. ASSUME NEW x PROVE x \in ShownJobs(Extension, n) <=> x \in ShownJobs(s, n)
        BY <1>1 DEF ShownJobs
      <3> QED BY <3>1
    <2> QED BY <2>1, <2>2
  <1>4. Extension \in Arrays(J, n)
    BY ExtensionFacts
  <1> DEFINE worth == [j \in J |-> Worth(j)]
  <1>5. worth \in [J -> Int] /\ \A j \in J : j.deadline \in Int /\ Worth(j) \in Int
    <2>1. current_Time \in Nat /\ J \in SUBSET Records
      BY MiddleFacts DEF JobSet
    <2>2. ASSUME NEW j \in J PROVE Worth(j) \in Int /\ j.deadline \in Int
      <3>1. j \in Records /\ WaitsSince(j) \in Int
        BY <2>1, WaitsSinceType
      <3> QED BY <2>1, <3>1 DEF Worth, Waited, Records
    <2> QED BY <2>2
  <1>6. Adds([k \in 1 .. n |-> worth[Extension[k]]], n, waitedTicks - waited)
    <2>1. Adds([k \in 1 .. n |-> Worth(Extension[k])], n, waitedTicks - waited)
      BY ExtensionAdds
    <2>2. \A k \in 1 .. n : worth[Extension[k]] = Worth(Extension[k])
      BY <1>4 DEF Arrays
    <2> HIDE DEF worth, n
    <2>3. [k \in 1 .. n |-> worth[Extension[k]]] = [k \in 1 .. n |-> Worth(Extension[k])]
      BY <2>2
    <2> QED BY <2>1, <2>3
  <1>7. Adds([k \in 1 .. n |-> worth[s[k]]], n, waitedTicks - waited)
    <2>1. Extension \in [1 .. n -> J]
      BY <1>4 DEF Arrays
    <2>2. n \in Nat \ {0} /\ \A j \in J : j.deadline \in Int
      BY <1>1, <1>5
    <2>3. worth \in [J -> Int]
      BY <1>5
    <2> HIDE DEF worth, n, J
    <2>4. Adds(Worths(worth, Extension, n), n, waitedTicks - waited)
      BY <1>6 DEF Worths
    <2>5. Adds(Worths(worth, deadline_Sort(Extension), n), n, waitedTicks - waited)
      <3> HIDE DEF s
      <3> QED BY <2>1, <2>2, <2>3, <2>4, SortAdds
    <2> QED BY <2>5 DEF Worths
  <1>8. [k \in 1 .. n |-> worth[s[k]]] = [k \in 1 .. n |-> Worth(s[k])]
    <2>1. \A k \in 1 .. n : s[k] \in J
      BY <1>1 DEF Arrays
    <2> HIDE DEF s, n, J
    <2> QED BY <2>1
  <1>9. \A k \in 1 .. n : Worth(s[k]) \in Int
    BY <1>1, <1>5 DEF Arrays
  <1> HIDE DEF s, n, worth
  <1>10. Adds([k \in 1 .. n |-> Worth(s[k])], n, waitedTicks - waited)
    BY <1>7, <1>8
  <1> QED BY <1>1, <1>2, <1>3, <1>9, <1>10 DEF s, n

\* A job starts: what it waited goes from the sum still owed to waited.
LEMMA StartNextPolicy == ASSUME EInv, PInv, StartNext PROVE PInv' /\ Policy!Tick
  <1> DEFINE n == Len(Extension)
             s == deadline_Sort(Extension)
             J == JobSet(process, current_Time)
  <1>1. /\ MiddleEvent /\ Extension # <<>> /\ Resting.pid = 0 /\ RunFor(s, s[1])
        /\ waited' = waited + Waited(s[1])
    BY DEF StartNext
  <1>2. /\ process \in Seq(Inputs) /\ current_Time \in Nat /\ max_Time \in Nat \ {0}
        /\ current_Time < max_Time /\ ~finished /\ waited \in Int /\ waitedTicks \in Int
        /\ \A i \in 1 .. num_proc : process[i].cpu > 0
    BY <1>1, MiddleFacts DEF PInv
  <1>3. /\ Len(s) = n /\ n \in Nat \ {0} /\ s \in Arrays(J, n)
    BY <1>1, SortedFacts
  <1>4. /\ \A k \in 1 .. n : Sound(s[k]) /\ s[k].remaining_Time > 0
        /\ FirstIsLeast(s, n) /\ Policy!Ready = ShownJobs(s, n)
        /\ Adds([k \in 1 .. n |-> Worth(s[k])], n, waitedTicks - waited)
        /\ \A k \in 1 .. n : Worth(s[k]) \in Int
    BY <1>1, SortedPolicy
  <1> DEFINE v == [k \in 1 .. n |-> Worth(s[k])]
             w == Waits(s, n, current_Time)
             x == waitedTicks - waited
  <1> HIDE DEF n, s
  <1>5. \A k \in 1 .. n : v[k] = Waited(s[k]) /\ Waited(s[k]) \in Int
    BY <1>1, <1>4 DEF Worth
  <1>6. \A k \in 1 .. n : w[k] = IF k = 1 THEN 0 ELSE Waited(s[k])
    BY DEF Waits, Waited
  <1>7. v \in [1 .. n -> Int] /\ w \in [1 .. n -> Int]
    <2>1. \A k \in 1 .. n : w[k] \in Int
      <3> HIDE DEF w
      <3> QED BY <1>5, <1>6
    <2> QED BY <1>4, <2>1 DEF Waits
  <1>8. x \in Int /\ Adds(v, n, x) /\ 1 \in 1 .. n
    BY <1>2, <1>3, <1>4
  <1> HIDE DEF v, w, x
  <1>9. \A k \in 2 .. n : w[k] = v[k]
    <2>1. \A k \in 2 .. n : k \in 1 .. n /\ k # 1
      OBVIOUS
    <2> QED BY <1>5, <1>6, <2>1
  <1>10. Adds(w, n, x - v[1] + w[1])
    BY <1>3, <1>7, <1>8, <1>9, AddsFirst
  <1>11. waited' \in Int /\ x - v[1] + w[1] = waitedTicks - waited'
    <2>1. v[1] = Waited(s[1]) /\ w[1] = 0 /\ Waited(s[1]) \in Int
      BY <1>5, <1>6, <1>8
    <2> QED BY <1>1, <1>2, <2>1 DEF x
  <1>12. n > 0 /\ n \in Nat /\ n = Len(s)
    BY <1>3
  <1>13. Adds(Waits(s, n, current_Time), n, waitedTicks - waited')
    BY <1>10, <1>11 DEF w
  <1> QED BY <1>1, <1>2, <1>3, <1>4, <1>11, <1>12, <1>13, TickIsPolicy

\* A preemption is seen in the waiting times only.
LEMMA PreemptShows ==
    ASSUME NEW n \in Nat, NEW J \in SUBSET Records, NEW s \in Arrays(J, n), NEW w,
           current_Time \in Nat, current_Time > 0
    PROVE  \A k \in 1 .. n :
              /\ Shown(setPreempt(s, w)[k]) = Shown(s[k])
              /\ setPreempt(s, w)[k].deadline = s[k].deadline
              /\ setPreempt(s, w)[k].period = s[k].period
              /\ setPreempt(s, w)[k].remaining_Time = s[k].remaining_Time
              /\ current_Time - WaitsSince(setPreempt(s, w)[k]) =
                    IF s[k] = w THEN 0 ELSE Waited(s[k])
  <1> SUFFICES ASSUME NEW k \in 1 .. n
               PROVE  /\ Shown(setPreempt(s, w)[k]) = Shown(s[k])
                      /\ setPreempt(s, w)[k].deadline = s[k].deadline
                      /\ setPreempt(s, w)[k].period = s[k].period
                      /\ setPreempt(s, w)[k].remaining_Time = s[k].remaining_Time
                      /\ current_Time - WaitsSince(setPreempt(s, w)[k]) =
                            IF s[k] = w THEN 0 ELSE Waited(s[k])
    OBVIOUS
  <1> DEFINE j == s[k]
             p == setPreempt(s, w)[k]
             q == [j EXCEPT !.preempted = current_Time]
  <1>1. p = (IF j = w THEN q ELSE j) /\ j \in Records
    BY DEF setPreempt, Arrays
  <1> HIDE DEF p, j
  <1>2. CASE j = w
    <2>1. /\ q.pid = j.pid /\ q.age = j.age /\ q.deadline = j.deadline /\ q.period = j.period
          /\ q.remaining_Time = j.remaining_Time /\ q.preempted = current_Time
      BY <1>1 DEF Records
    <2>2. p = q
      BY <1>1, <1>2
    <2> HIDE DEF q
    <2>3. Shown(p) = Shown(j)
      BY <2>1, <2>2 DEF Shown
    <2>4. WaitsSince(p) = current_Time
      BY <2>1, <2>2 DEF WaitsSince
    <2> QED BY <1>2, <2>1, <2>2, <2>3, <2>4 DEF p, j
  <1>3. CASE j # w
    <2>1. p = j
      BY <1>1, <1>3
    <2> QED BY <1>3, <2>1 DEF p, j, Waited
  <1> QED BY <1>2, <1>3

\* Jobs arrive: the running job goes on, or what it waits counts from now.
LEMMA ReconsiderPolicy == ASSUME EInv, PInv, Reconsider PROVE PInv' /\ Policy!Tick
  <1> DEFINE n == Len(Extension)
             s == deadline_Sort(Extension)
             J == JobSet(process, current_Time)
  <1>1. /\ MiddleEvent /\ Arrivals # <<>> /\ Resting.pid # 0
        /\ \/ s[1] = WasRunning /\ RunFor(s, s[1]) /\ waited' = waited
           \/ /\ s[1] # WasRunning /\ RunFor(setPreempt(s, WasRunning), s[1])
              /\ waited' = waited + Waited(s[1])
    BY DEF Reconsider
  <1>2. /\ process \in Seq(Inputs) /\ current_Time \in Nat /\ max_Time \in Nat \ {0}
        /\ current_Time < max_Time /\ ~finished /\ waited \in Int /\ waitedTicks \in Int
        /\ \A i \in 1 .. num_proc : process[i].cpu > 0
    BY <1>1, MiddleFacts DEF PInv
  <1>3. Extension # <<>>
    BY <1>1, LeftFacts, ExtensionFacts
  <1>4. /\ Len(s) = n /\ n \in Nat \ {0} /\ s \in Arrays(J, n)
    BY <1>1, <1>3, SortedFacts
  <1>5. /\ \A k \in 1 .. n : Sound(s[k]) /\ s[k].remaining_Time > 0
        /\ FirstIsLeast(s, n) /\ Policy!Ready = ShownJobs(s, n)
        /\ Adds([k \in 1 .. n |-> Worth(s[k])], n, waitedTicks - waited)
        /\ \A k \in 1 .. n : Worth(s[k]) \in Int
    BY <1>1, <1>3, SortedPolicy
  <1> DEFINE x == waitedTicks - waited
  <1>6. n > 0 /\ n \in Nat /\ n = Len(s) /\ 1 \in 1 .. n /\ J \in SUBSET Records /\ current_Time > 0
    BY <1>1, <1>2, <1>4 DEF MiddleEvent, JobSet
  <1> HIDE DEF n, s, x
  <1>7. CASE s[1] = WasRunning /\ RunFor(s, s[1]) /\ waited' = waited
    <2>1. Adds([k \in 1 .. n |-> Worth(s[k])], n, x)
      BY <1>5 DEF x
    <2>2. Adds(Waits(s, n, current_Time), n, x)
      <3> HIDE DEF J
      <3> QED BY <1>1, <1>4, <1>6, <1>7, <2>1, WaitsOfRunning
    <2>3. Adds(Waits(s, n, current_Time), n, waitedTicks - waited')
      BY <1>7, <2>2 DEF x
    <2>4. waited' \in Int
      BY <1>2, <1>7
    <2>5. RunFor(s, s[1]) /\ IF n > 0 THEN s[1] = s[1] ELSE s[1].pid = 0
      BY <1>6, <1>7
    <2> QED BY <1>2, <1>4, <1>5, <1>6, <2>3, <2>4, <2>5, TickIsPolicy
  <1>8. CASE /\ s[1] # WasRunning /\ RunFor(setPreempt(s, WasRunning), s[1])
             /\ waited' = waited + Waited(s[1])
    <2> DEFINE p == setPreempt(s, WasRunning)
               v == [k \in 1 .. n |-> Worth(s[k])]
               w == Waits(p, n, current_Time)
    <2>1. p \in Arrays(J, n) /\ (n > 0 /\ s[1] # WasRunning => p[1] = s[1])
      <3>1. n \in Nat /\ current_Time \in Nat /\ s \in Arrays(J, n)
        BY <1>2, <1>4
      <3> QED BY <3>1, PreemptKeeps
    <2>2. \A k \in 1 .. n :
             /\ Shown(p[k]) = Shown(s[k]) /\ p[k].deadline = s[k].deadline
             /\ p[k].period = s[k].period /\ p[k].remaining_Time = s[k].remaining_Time
             /\ current_Time - WaitsSince(p[k]) = IF s[k] = WasRunning THEN 0 ELSE Waited(s[k])
      <3>1. n \in Nat /\ J \in SUBSET Records /\ s \in Arrays(J, n)
        BY <1>4, <1>6
      <3> HIDE DEF J
      <3> QED BY <1>2, <1>6, <3>1, PreemptShows
    <2>3. RunFor(p, s[1]) /\ p[1] = s[1]
      BY <1>6, <1>8, <2>1
    <2> HIDE DEF p
    <2>4. Len(p) = n
      BY <1>6, <2>1 DEF Arrays
    <2>5. \A k \in 1 .. n : Sound(p[k]) /\ p[k].remaining_Time > 0
      BY <1>5, <2>2 DEF Sound
    <2>6. FirstIsLeast(p, n)
      BY <1>5, <1>6, <2>2 DEF FirstIsLeast
    <2>7. Policy!Ready = ShownJobs(p, n)
      <3>1. ShownJobs(p, n) = ShownJobs(s, n)
        BY <2>2 DEF ShownJobs
      <3> QED BY <1>5, <3>1
    <2>8. \A k \in 1 .. n : v[k] = IF s[k] = WasRunning THEN 0 ELSE Waited(s[k])
      BY <1>1 DEF Worth
    <2>9. \A k \in 1 .. n : w[k] = IF k = 1 THEN 0 ELSE current_Time - WaitsSince(p[k])
      BY DEF Waits
    <2>10. \A k \in 1 .. n : v[k] \in Int /\ DOMAIN v = 1 .. n /\ DOMAIN w = 1 .. n
      BY <1>5 DEF Waits
    <2>11. v \in [1 .. n -> Int] /\ Adds(v, n, x)
      BY <1>5 DEF x
    <2>12. w = [k \in 1 .. n |-> w[k]]
      BY DEF Waits
    <2> HIDE DEF v, w
    <2>13. \A k \in 1 .. n : k # 1 => w[k] = v[k]
      BY <2>2, <2>8, <2>9
    <2>14. w[1] = 0 /\ v[1] = Waited(s[1])
      BY <1>6, <1>8, <2>8, <2>9
    <2>15. w \in [1 .. n -> Int]
      <3>1. \A k \in 1 .. n : w[k] \in Int
        BY <2>10, <2>13, <2>14
      <3> QED BY <2>12, <3>1
    <2>16. x \in Int /\ Waited(s[1]) \in Int
      BY <1>2, <1>6, <2>10, <2>14 DEF x
    <2>17. \A k \in 2 .. n : w[k] = v[k]
      <3>1. \A k \in 2 .. n : k \in 1 .. n /\ k # 1
        OBVIOUS
      <3> QED BY <2>13, <3>1
    <2>18. Adds(w, n, x - v[1] + w[1])
      BY <1>4, <2>11, <2>15, <2>16, <2>17, AddsFirst
    <2>19. waited' \in Int /\ x - v[1] + w[1] = waitedTicks - waited'
      BY <1>2, <1>8, <2>14, <2>16 DEF x
    <2>20. Adds(Waits(p, n, current_Time), n, waitedTicks - waited')
      BY <2>18, <2>19 DEF w
    <2>21. n = Len(p) /\ (IF n > 0 THEN s[1] = p[1] ELSE s[1].pid = 0)
      BY <1>6, <2>3, <2>4
    <2>22. RunFor(p, s[1]) /\ waited' \in Int
      BY <2>3, <2>19
    <2> QED BY <1>2, <1>6, <2>1, <2>5, <2>6, <2>7, <2>20, <2>21, <2>22, TickIsPolicy
  <1> QED BY <1>1, <1>7, <1>8

\* At time 0 the policy chooses from the jobs of the array.
LEMMA FirstEventPolicy == ASSUME EInv, PInv, FirstEvent PROVE PInv' /\ Policy!Tick
  <1> DEFINE n == Len(schedule)
             J == JobSet(process, current_Time)
             P == {[pid |-> j.pid, age |-> j.age, deadline |-> j.deadline,
                    remaining |-> j.remaining_Time] : j \in Jobs}
  <1>1. /\ current_Time = 0 /\ RunFor(schedule, running) /\ waited' = waited
    BY DEF FirstEvent
  <1>2. /\ process \in Seq(Inputs) /\ max_Time \in Nat \ {0} /\ n \in Nat
        /\ current_Time \in Nat /\ current_Time < max_Time /\ waited \in Int /\ waitedTicks \in Int
        /\ \A i \in 1 .. num_proc : process[i].cpu > 0
    BY <1>1 DEF EInv, PInv
  <1>3. schedule \in Arrays(J, n)
    BY <1>1 DEF EInv, LastTick
  <1>4. ~finished /\ Now = 0
    BY <1>1, <1>2 DEF PInv, Now, Least
  <1>5. /\ \A k \in 1 .. n : /\ Sound(schedule[k]) /\ schedule[k].remaining_Time > 0
                             /\ schedule[k].deadline > 0
        /\ FirstIsLeast(schedule, n)
    BY <1>1 DEF PInv
  <1>6. Adds(Waits(schedule, n, current_Time), n, waitedTicks - waited')
    <2>1. Adds(Waits(schedule, n, Now), n, waitedTicks - waited)
      BY <1>4 DEF PInv
    <2> QED BY <1>1, <1>4, <2>1
  <1>7. schedule # <<>> /\ running = schedule[1]
    BY <1>1 DEF EInv, CopyAgrees
  <1>8. DOMAIN schedule = 1 .. n /\ \A k \in 1 .. n : schedule[k] \in Records
    BY <1>3 DEF Arrays, JobSet
  <1> HIDE DEF n
  <1>9. P = ShownJobs(schedule, n)
    BY <1>8, ShownAre DEF Jobs
  <1>10. \A x \in P : x.remaining > 0 /\ x.deadline # 0
    <2>1. \A k \in 1 .. n : Shown(schedule[k]).remaining > 0 /\ Shown(schedule[k]).deadline # 0
      BY <1>5, <1>8 DEF Shown, Records
    <2> HIDE DEF P
    <2> QED BY <1>9, <2>1 DEF ShownJobs
  <1>11. Policy!Ready = P
    <2>1. Least(current_Time, max_Time) = 0
      BY <1>4 DEF Now
    <2>2. Policy!Ready = {IF x.deadline = 0 THEN [x EXCEPT !.deadline = 0 + process[x.pid].period]
                          ELSE x : x \in {y \in P : y.remaining > 0}}
      BY <2>1 DEF Policy!Ready, Policy!Postponed
    <2> HIDE DEF P
    <2> QED BY <1>10, <2>2
  <1>12. Policy!Ready = ShownJobs(schedule, n) /\ n = Len(schedule) /\ waited' \in Int
    BY <1>1, <1>2, <1>9, <1>11 DEF n
  <1>13. IF n > 0 THEN running = schedule[1] ELSE running.pid = 0
    <2>1. n > 0
      BY <1>2, <1>3, <1>7, <1>12 DEF Arrays
    <2> QED BY <1>7, <2>1
  <1> HIDE DEF P
  <1> QED BY <1>1, <1>2, <1>3, <1>4, <1>5, <1>6, <1>12, <1>13, TickIsPolicy

\* The policy sees nothing of the last call of check_Event.
LEMMA LastEventPolicy ==
    ASSUME EInv, PInv, LastEvent PROVE PInv' /\ UNCHANGED Policy!policyVars
  <1>1. /\ current_Time # 0 /\ current_Time = max_Time /\ current_Time' = current_Time + 1
        /\ UNCHANGED <<process, max_Time, schedule, running, waited, finished, waitedTicks>>
    BY DEF LastEvent
  <1>2. max_Time \in Nat \ {0}
    BY DEF PInv
  <1>3. ~finished
    BY <1>1, <1>2 DEF PInv
  <1>4. /\ Least(current_Time, max_Time) = max_Time /\ Least(current_Time, max_Time)' = max_Time
        /\ Now = max_Time /\ Now' = max_Time /\ current_Time' # 0
    BY <1>1, <1>2 DEF Least, Now
  <1>5. PInv'
    <2>1. /\ (\A i \in 1 .. num_proc : process[i].cpu > 0)'
          /\ (waited \in Int /\ waitedTicks \in Int)'
      BY <1>1 DEF PInv, num_proc
    <2>2. /\ (\A k \in 1 .. Len(schedule) : Sound(schedule[k]))'
          /\ (\A k \in 2 .. Len(schedule) : schedule[k].remaining_Time > 0)'
          /\ FirstIsLeast(schedule, Len(schedule))'
      BY <1>1 DEF PInv
    <2>3. Adds(Waits(schedule', Len(schedule'), Now'), Len(schedule'), waitedTicks' - waited')
      BY <1>1, <1>3, <1>4 DEF PInv
    <2> QED BY <1>1, <1>2, <1>3, <1>4, <2>1, <2>2, <2>3 DEF PInv
  <1>6. UNCHANGED Jobs
    BY <1>1 DEF Jobs
  <1>7. UNCHANGED Policy!policyVars
    BY <1>1, <1>4, <1>6 DEF Policy!policyVars
  <1> QED BY <1>5, <1>7

\* The sum main puts together at the end is the sum over all ticks.
LEMMA SummarySum == ASSUME EInv, PInv, Summary PROVE waited' = waitedTicks
  <1> DEFINE n == Len(schedule)
             m == IF schedule = <<>> THEN 0 ELSE n - 1
             v == Waits(schedule, n, max_Time)
             Body(sum, i) == sum + max_Time - WaitsSince(schedule[i+1])
             f0 == CHOOSE f : f = [k \in 0 .. m |-> IF k = 0 THEN waited ELSE Body(f[k-1], k)]
  <1>1. /\ current_Time > max_Time /\ ~finished /\ waited' = f0[m]
    BY DEF Summary, Loop
  <1>2. max_Time \in Nat \ {0} /\ waited \in Int /\ waitedTicks \in Int /\ n \in Nat
    BY DEF PInv, EInv
  <1>3. Adds(v, n, waitedTicks - waited)
    <2>1. Now = max_Time
      BY <1>1, <1>2 DEF Now, Least, EInv
    <2> QED BY <1>1, <2>1 DEF PInv
  <1>4. PICK g : Adding(g, v, n, waitedTicks - waited)
    BY <1>3 DEF Adds
  <1>5. /\ schedule = <<>> <=> n = 0
        /\ \A k \in 1 .. n : schedule[k] \in Records
    <2>1. schedule \in Seq(Records)
      BY <1>2 DEF EInv, Arrays, JobSet
    <2> QED BY <2>1
  <1>6. m \in Nat /\ (IF n = 0 THEN m = 0 ELSE m = n - 1)
    BY <1>2, <1>5
  <1> HIDE DEF f0, n
  <1>7. \A k \in 1 .. m : k + 1 \in 1 .. n /\ k + 1 # 1
    BY <1>2, <1>6
  <1>8. \A k \in 1 .. m : v[k+1] = max_Time - WaitsSince(schedule[k+1])
    BY <1>7 DEF Waits
  <1>9. \A k \in 1 .. m : WaitsSince(schedule[k+1]) \in Int
    BY <1>5, <1>7, WaitsSinceType
  <1>10. n > 0 => v[1] = 0
    BY <1>2 DEF Waits
  <1> DEFINE h == [k \in 0 .. m |-> IF n = 0 THEN waited ELSE waited + g[k+1]]
  <1> HIDE DEF v, m
  <1>11. /\ g \in [0 .. n -> Int] /\ g[0] = 0 /\ g[n] = waitedTicks - waited
         /\ \A k \in 1 .. n : g[k] = g[k-1] + v[k]
    BY <1>4 DEF Adding
  <1>12. h[0] = waited
    <2>1. CASE n = 0
      BY <1>6, <2>1
    <2>2. CASE n # 0
      <3>1. 1 \in 1 .. n /\ 1 - 1 = 0 /\ n > 0
        BY <1>2, <2>2
      <3>2. g[1] = 0
        BY <1>10, <1>11, <3>1
      <3> QED BY <1>2, <1>6, <2>2, <3>2
    <2> QED BY <2>1, <2>2
  <1>13. ASSUME NEW k \in 1 .. m PROVE h[k] = Body(h[k-1], k)
    <2>1. n # 0 /\ k \in 0 .. m /\ k - 1 \in 0 .. m /\ (k - 1) + 1 = k /\ (k + 1) - 1 = k
          /\ k \in 0 .. n
      BY <1>2, <1>6
    <2>2. h[k] = waited + g[k+1] /\ h[k-1] = waited + g[k]
      BY <2>1
    <2>3. g[k+1] = g[k] + (max_Time - WaitsSince(schedule[k+1]))
      BY <1>7, <1>8, <1>11, <2>1
    <2>4. g[k] \in Int
      BY <1>11, <2>1
    <2> HIDE DEF h
    <2> QED BY <1>2, <1>9, <2>2, <2>3, <2>4
  <1>14. h[m] = waitedTicks
    <2>1. CASE n = 0
      <3>1. h[m] = waited /\ m = 0
        BY <1>6, <2>1
      <3> QED BY <1>2, <1>11, <2>1, <3>1
    <2>2. CASE n # 0
      <3>1. h[m] = waited + g[n]
        BY <1>2, <1>6, <2>2
      <3> QED BY <1>2, <1>11, <3>1
    <2> QED BY <2>1, <2>2
  <1> HIDE DEF Body
  <1>15. h = [k \in 0 .. m |-> IF k = 0 THEN waited ELSE Body(h[k-1], k)]
    <2>1. h = [k \in 0 .. m |-> h[k]]
      OBVIOUS
    <2> HIDE DEF h
    <2>2. ASSUME NEW k \in 0 .. m PROVE h[k] = IF k = 0 THEN waited ELSE Body(h[k-1], k)
      <3>1. k = 0 \/ k \in 1 .. m
        BY <1>6
      <3> QED BY <1>12, <1>13, <3>1
    <2> QED BY <2>1, <2>2
  <1> HIDE DEF h
  <1>16. f0 = [k \in 0 .. m |-> IF k = 0 THEN waited ELSE Body(f0[k-1], k)]
    BY <1>15 DEF f0
  <1> DEFINE Q == [k \in 0 .. m |-> {h[k]}]
  <1>17. /\ f0[0] = waited /\ \A k \in 1 .. m : f0[k] = Body(f0[k-1], k)
    BY <1>6, <1>16
  <1>18. \A k \in 0 .. m : f0[k] \in Q[k]
    <2>1. \A k \in 0 .. m : Q[k] = {h[k]}
      OBVIOUS
    <2>2. f0[0] \in Q[0]
      BY <1>6, <1>12, <1>17, <2>1
    <2>3. ASSUME NEW k \in 1 .. m, f0[k-1] \in Q[k-1] PROVE f0[k] \in Q[k]
      <3>1. k \in 0 .. m /\ k - 1 \in 0 .. m
        BY <1>6
      <3>2. f0[k-1] = h[k-1]
        BY <2>1, <2>3, <3>1
      <3>3. f0[k] = h[k]
        BY <1>13, <1>17, <3>2
      <3> QED BY <2>1, <3>1, <3>3
    <2> HIDE DEF Q
    <2>4. \A k \in 0 .. m : f0[k] \in Q[k]
      BY <1>6, <2>2, <2>3, LoopKeeps
    <2> QED BY <2>4
  <1>19. f0[m] = h[m]
    BY <1>6, <1>18
  <1> QED BY <1>1, <1>14, <1>19

\* main ends with the report of the policy.
LEMMA SummaryPolicy == ASSUME EInv, PInv, Summary PROVE PInv' /\ Policy!End
  <1>1. /\ current_Time > max_Time /\ ~finished /\ finished' = TRUE
        /\ UNCHANGED <<process, max_Time, current_Time, schedule, running, waitedTicks>>
    BY DEF Summary
  <1>2. waited' = waitedTicks
    BY SummarySum
  <1>3. max_Time \in Nat \ {0} /\ current_Time \in Nat
    BY DEF PInv, EInv
  <1>4. Least(current_Time, max_Time) = max_Time /\ UNCHANGED Least(current_Time, max_Time)
    BY <1>1, <1>3 DEF Least
  <1>5. PInv'
    <2>1. /\ (\A i \in 1 .. num_proc : process[i].cpu > 0)'
          /\ (waited \in Int /\ waitedTicks \in Int)'
      BY <1>1, <1>2 DEF PInv, num_proc
    <2>2. /\ (\A k \in 1 .. Len(schedule) : Sound(schedule[k]))'
          /\ (\A k \in 2 .. Len(schedule) : schedule[k].remaining_Time > 0)'
          /\ FirstIsLeast(schedule, Len(schedule))'
      BY <1>1 DEF PInv
    <2>3. current_Time' > max_Time' /\ waited' = waitedTicks' /\ current_Time' # 0 /\ max_Time' \in Nat \ {0}
      BY <1>1, <1>2, <1>3
    <2> QED BY <1>1, <2>1, <2>2, <2>3 DEF PInv
  <1>6. UNCHANGED Jobs
    BY <1>1 DEF Jobs
  <1> QED BY <1>1, <1>2, <1>4, <1>5, <1>6 DEF Policy!End

\* Time 0: every process has released a job, and none has waited.
LEMMA InitPolicy == ASSUME Init PROVE PInv /\ Policy!Init
  <1> DEFINE J == JobSet(process, current_Time)
             s == [i \in 1 .. num_proc |-> NewJob(i, 0)]
  <1>1. /\ schedule = deadline_Sort(s) /\ current_Time = 0 /\ waited = 0 /\ waitedTicks = 0
        /\ finished = FALSE
    BY DEF Init
  <1>2. EInv /\ max_Time \in Nat \ {0}
    BY InitInv, HorizonFacts
  <1>3. process \in Seq(Inputs) /\ process # <<>> /\ current_Time \in Nat
    BY <1>2 DEF EInv
  <1>4. num_proc \in Nat \ {0} /\ process \in [1 .. num_proc -> Inputs]
    BY <1>3 DEF num_proc
  <1>5. \A i \in 1 .. num_proc : process[i].cpu > 0
    <2>1. PICK n \in 1 .. MaxProcs :
             process \in [1 .. n -> [cpu : 1 .. MaxCPU, period : 1 .. MaxPeriod]]
      BY DEF Init
    <2>2. n = num_proc
      BY <2>1, EdfAssumption DEF num_proc
    <2> QED BY <2>1, <2>2, EdfAssumption
  <1>6. ASSUME NEW i \in 1 .. num_proc
        PROVE  /\ Due(i) /\ NewJob(i, 0) \in J /\ NewJob(i, 0).pid = i
               /\ Sound(NewJob(i, 0)) /\ NewJob(i, 0).remaining_Time > 0
               /\ NewJob(i, 0).deadline > 0 /\ WaitsSince(NewJob(i, 0)) = 0
               /\ Shown(NewJob(i, 0)) = [pid |-> i, age |-> 0, deadline |-> 0 + process[i].period,
                                         remaining |-> process[i].cpu]
    <2>1. process[i].period \in Nat \ {0} /\ process[i].cpu \in Nat
      BY <1>4 DEF Inputs
    <2>2. Due(i)
      BY <1>1, <2>1, Multiples DEF Due
    <2>3. /\ Sound(NewJob(i, current_Time)) /\ NewJob(i, current_Time).remaining_Time > 0
          /\ WaitsSince(NewJob(i, current_Time)) = current_Time
          /\ Shown(NewJob(i, current_Time)) =
                [pid |-> i, age |-> current_Time, deadline |-> current_Time + process[i].period,
                 remaining |-> process[i].cpu]
      BY <1>3, <1>5, <2>2, ArrivalSound
    <2>4. NewJob(i, 0) \in J /\ NewJob(i, 0).pid = i /\ NewJob(i, 0).deadline > 0
      BY <1>1, <1>4, <2>1 DEF NewJob, JobSet, Records, num_proc
    <2> QED BY <1>1, <2>2, <2>3, <2>4
  <1>7. \A j \in J : j.deadline \in Int
    BY DEF JobSet, Records
  <1> HIDE DEF J
  <1>8. s \in [1 .. num_proc -> J] /\ DOMAIN s = 1 .. num_proc
        /\ \A i \in 1 .. num_proc : s[i] = NewJob(i, 0)
    BY <1>6
  <1> HIDE DEF s
  <1>9. s \in Arrays(J, num_proc)
    BY <1>6, <1>8 DEF Arrays, Distinct
  <1> DEFINE n == num_proc
  <1>10. /\ schedule \in Arrays(J, n)
         /\ \A k \in 1 .. n : \E m \in 1 .. n : schedule[k] = s[m]
         /\ \A m \in 1 .. n : \E k \in 1 .. n : schedule[k] = s[m]
         /\ \A k \in 1 .. n : schedule[1].deadline <= schedule[k].deadline
    <2>1. n \in Nat \ {0} /\ s \in Arrays(J, n)
      BY <1>4, <1>9
    <2> HIDE DEF n
    <2>2. /\ deadline_Sort(s) \in Arrays(J, n)
          /\ \A k \in 1 .. n : \E m \in 1 .. n : deadline_Sort(s)[k] = s[m]
          /\ \A m \in 1 .. n : \E k \in 1 .. n : deadline_Sort(s)[k] = s[m]
          /\ \A k \in 1 .. n : deadline_Sort(s)[1].deadline <= deadline_Sort(s)[k].deadline
      BY <1>7, <2>1, SortFacts
    <2> QED BY <1>1, <2>2
  <1> HIDE DEF n
  <1>11. n \in Nat \ {0} /\ Len(schedule) = n /\ DOMAIN schedule = 1 .. n
    BY <1>4, <1>10 DEF Arrays, n
  <1>12. \A k \in 1 .. n :
            /\ Sound(schedule[k]) /\ schedule[k].remaining_Time > 0 /\ schedule[k].deadline > 0
            /\ WaitsSince(schedule[k]) = 0
    <2>1. ASSUME NEW k \in 1 .. n
          PROVE  /\ Sound(schedule[k]) /\ schedule[k].remaining_Time > 0
                 /\ schedule[k].deadline > 0 /\ WaitsSince(schedule[k]) = 0
      <3>1. PICK m \in 1 .. n : schedule[k] = s[m]
        BY <1>10
      <3>2. m \in 1 .. num_proc /\ schedule[k] = NewJob(m, 0)
        BY <1>8, <3>1 DEF n
      <3> QED BY <1>6, <3>2
    <2> QED BY <2>1
  <1>13. PInv
    <2>1. Now = 0
      BY <1>1, <1>2 DEF Now, Least
    <2> DEFINE v == Waits(schedule, n, 0)
    <2>2. \A k \in 1 .. n : v[k] = 0
      BY <1>12 DEF Waits
    <2> HIDE DEF v
    <2>3. Adds(v, n, 0)
      BY <1>11, <2>2, AddsZeros
    <2>4. Adds(Waits(schedule, Len(schedule), Now), Len(schedule), waitedTicks - waited)
      BY <1>1, <1>11, <2>1, <2>3 DEF v
    <2>5. FirstIsLeast(schedule, Len(schedule))
      BY <1>10, <1>11 DEF FirstIsLeast
    <2>6. \A k \in 2 .. n : schedule[k].remaining_Time > 0
      <3>1. \A k \in 2 .. n : k \in 1 .. n
        BY <1>11
      <3> QED BY <1>12, <3>1
    <2> QED BY <1>1, <1>2, <1>5, <1>11, <1>12, <2>4, <2>5, <2>6 DEF PInv
  <1>14. Policy!Init
    <2> DEFINE P == {[pid |-> j.pid, age |-> j.age, deadline |-> j.deadline,
                      remaining |-> j.remaining_Time] : j \in Jobs}
               New(p) == [pid |-> p, age |-> 0, deadline |-> 0 + process[p].period,
                          remaining |-> process[p].cpu]
    <2>1. P = ShownJobs(schedule, n)
      BY <1>11, ShownAre DEF Jobs
    <2>2. P = {New(p) : p \in 1 .. n}
      <3>1. \A i \in 1 .. n : Shown(s[i]) = New(i)
        BY <1>6, <1>8 DEF n
      <3> HIDE DEF New
      <3>2. ASSUME NEW x PROVE x \in ShownJobs(schedule, n) <=> \E p \in 1 .. n : x = New(p)
        <4>1. x \in ShownJobs(schedule, n) <=> \E k \in 1 .. n : x = Shown(schedule[k])
          BY DEF ShownJobs
        <4>2. ASSUME NEW k \in 1 .. n, x = Shown(schedule[k]) PROVE \E p \in 1 .. n : x = New(p)
          <5>1. PICK m \in 1 .. n : schedule[k] = s[m]
            BY <1>10
          <5>2. x = New(m)
            BY <3>1, <4>2, <5>1
          <5> QED BY <5>2
        <4>3. ASSUME NEW p \in 1 .. n, x = New(p) PROVE \E k \in 1 .. n : x = Shown(schedule[k])
          <5>1. PICK k \in 1 .. n : schedule[k] = s[p]
            BY <1>10
          <5>2. x = Shown(schedule[k])
            BY <3>1, <4>3, <5>1
          <5> QED BY <5>2
        <4> QED BY <4>1, <4>2, <4>3
      <3> HIDE DEF P
      <3> QED BY <2>1, <3>2
    <2>3. Policy!Released(0) = {New(p) : p \in {q \in DOMAIN process : 0 % process[q].period = 0}}
      BY DEF Policy!Released, Policy!Release
    <2>4. {q \in DOMAIN process : 0 % process[q].period = 0} = 1 .. n
      BY <1>1, <1>4, <1>6 DEF Due, n
    <2>5. P = Policy!Released(0)
      <3> HIDE DEF P, New
      <3> QED BY <2>2, <2>3, <2>4
    <2>6. Least(current_Time, max_Time) = 0
      BY <1>1, <1>2 DEF Least
    <2> QED BY <1>1, <2>5, <2>6 DEF Policy!Init, Policy!NoJob
  <1> QED BY <1>13, <1>14

\* Nothing happens.
LEMMA StutterPolicy ==
    ASSUME PInv, UNCHANGED vars PROVE PInv' /\ UNCHANGED Policy!policyVars
  <1>1. UNCHANGED <<process, max_Time, current_Time, schedule, running, waited, finished,
                    waitedTicks>>
    BY DEF vars
  <1>2. /\ UNCHANGED Now /\ UNCHANGED Least(current_Time, max_Time) /\ UNCHANGED Jobs
        /\ UNCHANGED num_proc
    BY <1>1 DEF Now, Least, Jobs, num_proc
  <1>3. PInv'
    BY <1>1, <1>2 DEF PInv
  <1> QED BY <1>1, <1>2, <1>3 DEF Policy!policyVars

\* Every step keeps PInv and is a step of the policy or none.
LEMMA StepPolicy ==
    ASSUME EInv, PInv, [Next]_vars
    PROVE  PInv' /\ [Policy!Tick \/ Policy!End]_(Policy!policyVars)
  <1>1. CASE FirstEvent
    BY <1>1, FirstEventPolicy
  <1>2. CASE LastEvent
    BY <1>2, LastEventPolicy
  <1>3. CASE Continue
    BY <1>3, ContinuePolicy
  <1>4. CASE Reconsider
    BY <1>4, ReconsiderPolicy
  <1>5. CASE StartNext
    BY <1>5, StartNextPolicy
  <1>6. CASE Summary
    BY <1>6, SummaryPolicy
  <1>7. CASE UNCHANGED vars
    BY <1>7, StutterPolicy
  <1> QED BY <1>1, <1>2, <1>3, <1>4, <1>5, <1>6, <1>7 DEF Next

-----------------------------------------------------------------------------
(* Theorems *)

LEMMA EdfInvariance == Spec => []EInv
  BY InitInv, StepInv, PTL DEF Spec

\* The copy of the running job is the first job of the array at every tick,
\* through ends, missed deadlines, arrivals, sorting and preemption, and it is
\* empty exactly when the array is.
THEOREM RunningIsFirst == Spec => []CopyAgrees
  <1>1. EInv => CopyAgrees
    BY DEF EInv
  <1> QED BY <1>1, EdfInvariance, PTL

\* No arrival is written behind the end of the array, however many processes
\* arrive in one tick.
THEOREM ArrivalsHaveRoom == Spec => []NeverOverfull
  <1>1. EInv => NeverOverfull
    BY DEF EInv
  <1> QED BY <1>1, EdfInvariance, PTL

\* printSchedule shows each job of the array once, by age and process, and
\* what it last showed stays true of the jobs that are left.
THEOREM EveryJobIsPrinted == Spec => []PrintedOnce
  <1>1. ASSUME EInv PROVE PrintedOnce
    <2>1. ASSUME current_Time > 0, NEW j \in Jobs
          PROVE  Cardinality({k \in DOMAIN printed :
                                printed[k].pid = j.pid /\ printed[k].age = j.age}) = 1
      <3> DEFINE K == {k \in DOMAIN printed : printed[k].pid = j.pid /\ printed[k].age = j.age}
      <3>1. PICK m \in DOMAIN printed : printed[m].pid = j.pid /\ printed[m].age = j.age
        BY <1>1, <2>1 DEF EInv, Jobs, SameJob
      <3>2. ASSUME NEW k \in K PROVE k = m
        <4>1. /\ k \in DOMAIN printed /\ k \in Int /\ m \in Int
              /\ printed[k].pid \in Nat /\ printed[k].age \in Nat
          <5>1. printed \in Seq(Records) /\ k \in DOMAIN printed
            BY <1>1 DEF EInv
          <5>2. printed[k] \in Records /\ k \in Int /\ m \in Int
            BY <3>1, <5>1
          <5> HIDE DEF K
          <5> QED BY <5>1, <5>2 DEF Records
        <4>2. ~(k < m)
          BY <1>1, <3>1, <4>1 DEF EInv, Ordered, Before
        <4>3. ~(m < k)
          BY <1>1, <3>1, <4>1 DEF EInv, Ordered, Before
        <4> QED BY <4>1, <4>2, <4>3
      <3>3. K = {m}
        BY <3>1, <3>2
      <3> HIDE DEF K
      <3>4. Cardinality(K) = 1
        BY <3>3, FS_Singleton
      <3> QED BY <3>4 DEF K
    <2>2. \A k, m \in DOMAIN printed :
              k < m => \/ printed[k].age < printed[m].age
                       \/ printed[k].age = printed[m].age /\ printed[k].pid < printed[m].pid
      BY <1>1 DEF EInv, Ordered, Before
    <2> QED BY <2>1, <2>2 DEF PrintedOnce
  <1> QED BY <1>1, EdfInvariance, PTL

\* The simulator follows the policy: at every tick it runs a job with an
\* earliest deadline, postpones the deadlines that were missed, takes in the
\* jobs of every period that begins and drops none, whatever the order the
\* array is in; and the sum of waiting times it prints, put together from
\* starts and preemptions, is the sum over all ticks of the jobs that waited.
THEOREM SimulatorFollowsPolicy == Spec => ImplementsPolicy
  <1>1. Init => EInv /\ PInv /\ Policy!Init
    BY InitInv, InitPolicy
  <1>2. EInv /\ PInv /\ [Next]_vars =>
           EInv' /\ PInv' /\ [Policy!Tick \/ Policy!End]_(Policy!policyVars)
    BY StepInv, StepPolicy
  <1> QED BY <1>1, <1>2, PTL DEF Spec, ImplementsPolicy, Policy!Spec
=============================================================================
