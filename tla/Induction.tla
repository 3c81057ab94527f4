------------------------------- MODULE Induction -------------------------------
(***************************************************************************)
(* Induction over the natural numbers and over sequences, stated of sets:  *)
(* for a predicate, take the set of what it holds of.                      *)
(***************************************************************************)
EXTENDS Integers, FiniteSetTheorems, SequenceTheorems, SequencesExt, TLAPS

\* A set of natural numbers has a least element: the sets 0..k-1 are finite,
\* and strict inclusion of finite sets is well-founded.
LEMMA LeastNumber ==
  ASSUME NEW T, T \subseteq Nat, T # {}
  PROVE  \E m \in T : \A k \in T : m <= k
  <1> PICK t \in T : TRUE OBVIOUS
  <1> DEFINE Below(k) == 0..(k - 1)
             Lower == {S \in SUBSET (0..t) : \E k \in T : k <= t /\ S = Below(k)}
  <1>1. /\ IsFiniteSet(0..t)
        /\ IsWellFoundedOn(StrictSubsetOrdering(0..t), FiniteSubsetsOf(0..t))
    BY FS_Interval, FS_StrictSubsetOrderingWellFounded
  <1>2. Lower \subseteq FiniteSubsetsOf(0..t)
    BY <1>1, FS_Subset DEF FiniteSubsetsOf
  <1>3. Lower # {}
    <2>1. Below(t) \in SUBSET (0..t) /\ t <= t OBVIOUS
    <2>2. Below(t) \in Lower BY <2>1
    <2> QED BY <2>2
  <1>4. PICK S \in Lower : \A U \in Lower : ~ (<<U, S>> \in StrictSubsetOrdering(0..t))
    <2> HIDE DEF Lower
    <2> QED BY <1>1, <1>2, <1>3, WFMin
  <1>5. PICK m \in T : m <= t /\ S = Below(m) OBVIOUS
  <1>6. ASSUME NEW k \in T, k < m PROVE FALSE
    <2>1. Below(k) \subseteq 0..t /\ Below(k) \in Lower BY <1>5, <1>6
    <2>2. Below(k) \subseteq Below(m) BY <1>6
    <2>3. k \in Below(m) /\ k \notin Below(k) BY <1>6
    <2>4. S \subseteq 0..t OBVIOUS
    <2> QED BY <1>4, <1>5, <2>1, <2>2, <2>3, <2>4 DEF StrictSubsetOrdering
  <1> QED BY <1>6

\* What begins at 0 and goes on from each number to the next holds up to n.
LEMMA UpTo ==
  ASSUME NEW n \in Nat, NEW T,
         0 \in T, \A k \in 1..n : k - 1 \in T => k \in T
  PROVE  \A k \in 0..n : k \in T
  <1> DEFINE Gap == {k \in 0..n : k \notin T}
  <1> SUFFICES ASSUME Gap # {} PROVE FALSE OBVIOUS
  <1>1. PICK m \in Gap : \A k \in Gap : m <= k
    <2>1. Gap \subseteq Nat OBVIOUS
    <2> HIDE DEF Gap
    <2> QED BY <2>1, LeastNumber
  <1>2. m \in 1..n /\ m - 1 \in 0..n OBVIOUS
  <1> QED BY <1>1, <1>2

\* A set of numbers up to n has a greatest element.
LEMMA GreatestNumber ==
  ASSUME NEW n \in Nat, NEW T, T \subseteq 0..n, T # {}
  PROVE  \E m \in T : \A k \in T : k <= m
  <1> DEFINE Rest == {n - k : k \in T}
  <1>1. PICK r \in Rest : \A k \in Rest : r <= k
    <2>1. \A k \in T : n - k \in Nat OBVIOUS
    <2>2. Rest \subseteq Nat /\ Rest # {} BY <2>1
    <2> HIDE DEF Rest
    <2> QED BY <2>2, LeastNumber
  <1>2. PICK m \in T : r = n - m OBVIOUS
  <1>3. ASSUME NEW k \in T PROVE n - k \in Rest /\ k \in Nat OBVIOUS
  <1>4. m \in Nat OBVIOUS
  <1> HIDE DEF Rest
  <1> QED BY <1>1, <1>2, <1>3, <1>4

\* What begins with the empty sequence and goes on from each sequence to one
\* with an element more holds of all.
LEMMA ByAppending ==
  ASSUME NEW S, NEW T,
         <<>> \in T, \A s \in Seq(S), e \in S : s \in T => Append(s, e) \in T
  PROVE  \A t \in Seq(S) : t \in T
  <1> TAKE t \in Seq(S)
  <1> DEFINE n == Len(t)
             U == {k \in 0..n : \A s \in Seq(S) : Len(s) = k => s \in T}
  <1>1. n \in Nat OBVIOUS
  <1>2. 0 \in U
    <2>1. \A s \in Seq(S) : Len(s) = 0 => s = <<>> OBVIOUS
    <2> QED BY <1>1, <2>1
  <1>3. ASSUME NEW k \in 1..n, k - 1 \in U PROVE k \in U
    <2> SUFFICES ASSUME NEW s \in Seq(S), Len(s) = k PROVE s \in T BY <1>1
    <2>1. PICK r \in Seq(S), e \in S : s = Append(r, e)
      <3>1. s # <<>> BY <1>1
      <3> QED BY <3>1, SequenceEmptyOrAppend
    <2>2. Len(r) = k - 1 BY <1>1, <2>1
    <2>3. r \in T BY <1>3, <2>2
    <2> QED BY <2>1, <2>3
  <1> HIDE DEF U
  <1>4. \A k \in 0..n : k \in U BY <1>1, <1>2, <1>3, UpTo
  <1> QED BY <1>1, <1>4 DEF U

\* g begins with first and goes on by steps.
Steps(g, first, step, n) ==
  /\ g[0] = first
  /\ \A k \in 1..n : g[k] = step[<<g[k - 1], k>>]

\* A recursion that steps through the values of V has a solution.
LEMMA Recursion ==
  ASSUME NEW V, NEW first \in V, NEW n \in Nat, NEW step \in [V \X (1..n) -> V]
  PROVE  \E g \in [0..n -> V] : Steps(g, first, step, n)
  <1> DEFINE T == {m \in 0..n : \E g \in [0..m -> V] : Steps(g, first, step, m)}
  <1>1. 0 \in T
    <2> DEFINE g == [k \in 0..0 |-> first]
    <2>1. g \in [0..0 -> V] /\ g[0] = first OBVIOUS
    <2>2. \A k \in 1..0 : g[k] = step[<<g[k - 1], k>>] OBVIOUS
    <2> HIDE DEF g
    <2>3. \E f \in [0..0 -> V] : Steps(f, first, step, 0)
      BY <2>1, <2>2 DEF Steps
    <2> QED BY <2>3
  <1>2. ASSUME NEW m \in 1..n, m - 1 \in T PROVE m \in T
    <2>1. PICK h \in [0..(m - 1) -> V] : Steps(h, first, step, m - 1) BY <1>2
    <2> DEFINE g == [k \in 0..m |-> IF k = m THEN step[<<h[m - 1], m>>] ELSE h[k]]
    <2>2. h[m - 1] \in V BY <2>1
    <2>3. g \in [0..m -> V] BY <2>1, <2>2
    <2>4. g[0] = first BY <2>1 DEF Steps
    <2>5. ASSUME NEW k \in 1..m PROVE g[k] = step[<<g[k - 1], k>>]
      <3>1. g[k - 1] = h[k - 1] OBVIOUS
      <3>2. CASE k = m
        <4>1. g[m] = step[<<h[m - 1], m>>] OBVIOUS
        <4> HIDE DEF g
        <4> QED BY <3>1, <3>2, <4>1
      <3>3. CASE k # m
        <4>1. k \in 1..(m - 1) /\ g[k] = h[k] BY <3>3
        <4> QED BY <2>1, <3>1, <4>1 DEF Steps
      <3> QED BY <3>2, <3>3
    <2> HIDE DEF g
    <2>6. Steps(g, first, step, m) BY <2>4, <2>5 DEF Steps
    <2> QED BY <2>3, <2>6
  <1> HIDE DEF T
  <1>3. \A m \in 0..n : m \in T BY <1>1, <1>2, UpTo
  <1> QED BY <1>3 DEF T

\* The recursion of FlattenSeq has a solution.
LEMMA FlattenSeqIs ==
  ASSUME NEW S, NEW parts \in Seq(S), parts # <<>>
  PROVE  \E flatten :
           /\ FlattenSeq(parts) = flatten[Len(parts)]
           /\ \A i \in 1..Len(parts) :
                flatten[i] = IF i = 1 THEN parts[i] ELSE flatten[i - 1] \o parts[i]
  <1> DEFINE n == Len(parts)
             Body(g, i) == IF i = 1 THEN parts[i] ELSE g[i - 1] \o parts[i]
             flatten == CHOOSE g : g = [i \in 1..n |-> Body(g, i)]
  <1>1. n \in Nat /\ n # 0 OBVIOUS
  <1>2. FlattenSeq(parts) = flatten[n] BY <1>1 DEF FlattenSeq
  <1>3. \E g : g = [i \in 1..n |-> Body(g, i)]
    <2> DEFINE T == {m \in 0..n : \E g : g = [i \in 1..m |-> Body(g, i)]}
    <2>1. 0 \in T
      <3> DEFINE g == [i \in 1..0 |-> <<>>]
      <3>1. g = [i \in 1..0 |-> Body(g, i)] OBVIOUS
      <3> HIDE DEF g, Body
      <3>2. \E h : h = [i \in 1..0 |-> Body(h, i)] BY <3>1
      <3>3. 0 \in 0..n BY <1>1
      <3> HIDE DEF n
      <3> QED BY <3>2, <3>3
    <2>2. ASSUME NEW m \in 1..n, m - 1 \in T PROVE m \in T
      <3>1. PICK h : h = [i \in 1..(m - 1) |-> Body(h, i)] BY <2>2
      <3> DEFINE g == [i \in 1..m |-> IF i = m THEN Body(h, m) ELSE h[i]]
      <3>2. ASSUME NEW i \in 1..m PROVE g[i] = Body(g, i)
        <4>1. i # 1 => i - 1 \in 1..m /\ i - 1 # m /\ g[i - 1] = h[i - 1]
          BY <1>1
        <4>2. CASE i = m BY <4>1, <4>2
        <4>3. CASE i # m
          <5>1. i \in 1..(m - 1) /\ g[i] = h[i] BY <1>1, <4>3
          <5>2. h[i] = Body(h, i) BY <3>1, <5>1
          <5> QED BY <4>1, <5>1, <5>2
        <4> QED BY <4>2, <4>3
      <3>3. g = [i \in 1..m |-> Body(g, i)] BY <3>2
      <3> HIDE DEF g, Body
      <3>4. \E f : f = [i \in 1..m |-> Body(f, i)] BY <3>3
      <3> QED BY <3>4
    <2> HIDE DEF T
    <2>3. \A m \in 0..n : m \in T BY <1>1, <2>1, <2>2, UpTo
    <2>4. n \in T BY <1>1, <2>3
    <2> HIDE DEF n, Body
    <2> QED BY <2>4 DEF T
  <1>4. flatten = [i \in 1..n |-> Body(flatten, i)] BY <1>3
  <1> HIDE DEF flatten
  <1>5. \A i \in 1..n : flatten[i] = Body(flatten, i) BY <1>4
  <1> QED BY <1>2, <1>5

\* A set of numbers up to n has the maximum that Max chooses.
LEMMA MaxIs ==
  ASSUME NEW n \in Nat, NEW s \in SUBSET (1..n), s # {}
  PROVE  Max(s) \in s /\ \A k \in s : k <= Max(s)
  <1>1. s \subseteq 0..n OBVIOUS
  <1>2. \E m \in s : \A k \in s : k <= m BY <1>1, GreatestNumber
  <1>3. \E m \in s : \A k \in s : m >= k BY <1>2
  <1>4. Max(s) \in s /\ \A k \in s : Max(s) >= k BY <1>3 DEF Max
  <1> QED BY <1>4

\* What a fold of step over the numbers up to n gives for the sets of them.
Folds(it, base, step, n) ==
  it = [s \in SUBSET (1..n) |->
          IF s = {} THEN base ELSE step[<<it[s \ {Max(s)}], Max(s)>>]]

\* The recursion of a fold has a solution.
LEMMA FoldExists ==
  ASSUME NEW V, NEW base \in V, NEW n \in Nat, NEW step \in [V \X (1..n) -> V]
  PROVE  \E it \in [SUBSET (1..n) -> V] : Folds(it, base, step, n)
  <1> DEFINE T == {m \in 0..n : \E it \in [SUBSET (1..m) -> V] : Folds(it, base, step, m)}
  <1>1. 0 \in T
    <2> DEFINE it == [s \in SUBSET (1..0) |-> base]
    <2>1. it \in [SUBSET (1..0) -> V] OBVIOUS
    <2>2. \A s \in SUBSET (1..0) : s = {} OBVIOUS
    <2>3. it = [s \in SUBSET (1..0) |->
                  IF s = {} THEN base ELSE step[<<it[s \ {Max(s)}], Max(s)>>]]
      BY <2>2
    <2> HIDE DEF it
    <2>4. \E f \in [SUBSET (1..0) -> V] : Folds(f, base, step, 0)
      BY <2>1, <2>3 DEF Folds
    <2>5. 0 \in 0..n OBVIOUS
    <2> QED BY <2>4, <2>5
  <1>2. ASSUME NEW m \in 1..n, m - 1 \in T PROVE m \in T
    <2>1. PICK h \in [SUBSET (1..(m - 1)) -> V] : Folds(h, base, step, m - 1) BY <1>2
    <2> DEFINE it == [s \in SUBSET (1..m) |->
                        IF m \in s THEN step[<<h[s \ {m}], m>>] ELSE h[s]]
    <2>2. \A s \in SUBSET (1..m) : s \ {m} \in SUBSET (1..(m - 1)) OBVIOUS
    <2>3. \A s \in SUBSET (1..m) : m \notin s => s \in SUBSET (1..(m - 1)) BY <2>2
    <2>4. it \in [SUBSET (1..m) -> V]
      <3>1. \A s \in SUBSET (1..m) : m \in s => step[<<h[s \ {m}], m>>] \in V
        BY <2>1, <2>2
      <3>2. \A s \in SUBSET (1..m) : m \notin s => h[s] \in V BY <2>1, <2>3
      <3> QED BY <3>1, <3>2
    <2>5. \A s \in SUBSET (1..(m - 1)) : s \in SUBSET (1..m) /\ m \notin s /\ it[s] = h[s]
      OBVIOUS
    <2>6. \A s \in SUBSET (1..m) : m \in s => it[s] = step[<<h[s \ {m}], m>>] OBVIOUS
    <2> HIDE DEF it
    <2>7. ASSUME NEW s \in SUBSET (1..m)
          PROVE  it[s] = IF s = {} THEN base ELSE step[<<it[s \ {Max(s)}], Max(s)>>]
      <3>1. CASE m \in s
        <4>1. Max(s) = m
          <5>1. m \in Nat OBVIOUS
          <5>2. Max(s) \in s /\ \A k \in s : k <= Max(s) BY <3>1, <5>1, MaxIs
          <5>3. PICK k : k = Max(s) OBVIOUS
          <5>4. k \in 1..m /\ m <= k BY <3>1, <5>2, <5>3
          <5> QED BY <5>1, <5>3, <5>4
        <4> QED BY <2>2, <2>5, <2>6, <3>1, <4>1
      <3>2. CASE m \notin s
        <4>1. s \in SUBSET (1..(m - 1)) /\ s \ {Max(s)} \in SUBSET (1..(m - 1))
          BY <2>3, <3>2
        <4>2. h[s] = IF s = {} THEN base ELSE step[<<h[s \ {Max(s)}], Max(s)>>]
          BY <2>1, <4>1 DEF Folds
        <4> QED BY <2>5, <4>1, <4>2
      <3> QED BY <3>1, <3>2
    <2>8. Folds(it, base, step, m) BY <2>4, <2>7 DEF Folds
    <2>9. m \in 0..n OBVIOUS
    <2> QED BY <2>4, <2>8, <2>9
  <1> HIDE DEF T
  <1>3. \A m \in 0..n : m \in T BY <1>1, <1>2, UpTo
  <1>4. n \in 0..n OBVIOUS
  <1> QED BY <1>3, <1>4 DEF T

\* The numbers up to m without their maximum.
LEMMA MaxUpTo ==
  ASSUME NEW m \in Nat, m # 0
  PROVE  1..m # {} /\ Max(1..m) = m /\ (1..m) \ {m} = 1..(m - 1)
  <1>1. m \in 1..m /\ 1..m \in SUBSET (1..m) OBVIOUS
  <1>2. 1..m # {} BY <1>1
  <1>3. Max(1..m) \in 1..m /\ \A k \in 1..m : k <= Max(1..m) BY <1>1, <1>2, MaxIs
  <1>4. Max(1..m) = m
    <2>1. PICK k : k = Max(1..m) OBVIOUS
    <2>2. k \in 1..m /\ m <= k BY <1>1, <1>3, <2>1
    <2> QED BY <2>1, <2>2
  <1>5. (1..m) \ {m} = 1..(m - 1) OBVIOUS
  <1> QED BY <1>2, <1>4, <1>5

=============================================================================
