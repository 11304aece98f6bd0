------------------------- MODULE Redundancy_proofs -------------------------
(***************************************************************************)
(* Theorems about Redundancy: what the detector finds in a transcript of   *)
(* any length, and what deleting it leaves.                                *)
(*                                                                         *)
(* Induction is by a least (or greatest) counterexample: the naturals are  *)
(* well founded.                                                           *)
(***************************************************************************)
EXTENDS Redundancy, PromptLoop_proofs, NaturalsInduction, WellFoundedInduction

\* A set of naturals that has a member has a least one.
LEMMA LeastNat ==
    ASSUME NEW S, S \subseteq Nat, S # {}
    PROVE  \E m \in S : \A k \in S : m <= k
<1>1. PICK m \in S : \A k \in S : ~(<<k, m>> \in OpToRel(<, Nat))
  BY NatLessThanWellFounded, WFMin
<1>2. \A k \in S : ~(k < m)
  BY <1>1 DEF OpToRel
<1>3. QED
  BY <1>2

\* One that is bounded has a greatest one.
LEMMA GreatestNat ==
    ASSUME NEW S, NEW n \in Nat, S \subseteq 0 .. n, S # {}
    PROVE  \E m \in S : \A k \in S : k <= m
<1> DEFINE T == {x \in 0 .. n : n - x \in S}
<1>1. T \subseteq Nat /\ T # {}
  <2>1. PICK k \in S : TRUE
    OBVIOUS
  <2>2. k \in 0 .. n
    OBVIOUS
  <2>3. n - k \in 0 .. n /\ n - (n - k) = k
    BY <2>2
  <2>4. n - k \in T
    BY <2>3
  <2>5. \A x \in T : x \in Nat
    OBVIOUS
  <2> HIDE DEF T
  <2>6. QED
    BY <2>4, <2>5
<1>2. PICK t \in T : \A k \in T : t <= k
  BY <1>1, LeastNat
<1>3. ASSUME NEW k \in S PROVE k <= n - t
  <2>1. k \in 0 .. n /\ n - k \in 0 .. n /\ n - (n - k) = k
    OBVIOUS
  <2>2. n - k \in T
    BY <2>1
  <2>3. t <= n - k
    BY <1>2, <2>2
  <2>4. QED
    BY <2>1, <2>3
<1>4. QED
  BY <1>3

-----------------------------------------------------------------------------
(***************************************************************************)
(* Positions in order: the k-th of a set is what any increasing list of    *)
(* the set has at k, so no recursion is needed to tell what At selects.    *)
(***************************************************************************)
Upto(P, i) == {j \in P : j <= i}

\* g[1], ..., g[n] are the positions P, in order.
Lists(g, n, P) ==
    /\ n \in Nat /\ P \subseteq Nat
    /\ \A k \in 1 .. n : g[k] \in P
    /\ \A k, l \in 1 .. n : k < l => g[k] < g[l]
    /\ \A i \in P : \E k \in 1 .. n : g[k] = i

\* The first m positions of a list, counted.
LEMMA ListedUpto ==
    ASSUME NEW g, NEW n, NEW P, Lists(g, n, P), NEW m \in 1 .. n
    PROVE  IsFiniteSet(Upto(P, g[m])) /\ Cardinality(Upto(P, g[m])) = m
<1> USE DEF Lists
<1> DEFINE T == Upto(P, g[m])
           h == [k \in 1 .. m |-> g[k]]
<1>0. \A k \in 1 .. n : g[k] \in P /\ g[k] \in Nat
  OBVIOUS
<1>1. ASSUME NEW k \in 1 .. m PROVE g[k] \in T
  <2>1. k \in 1 .. n /\ (k < m \/ k = m)
    OBVIOUS
  <2>2. g[k] <= g[m]
    BY <1>0, <2>1
  <2>3. QED
    BY <1>0, <2>1, <2>2 DEF Upto
<1>2. ASSUME NEW i \in T PROVE \E k \in 1 .. m : g[k] = i
  <2>1. PICK k \in 1 .. n : g[k] = i
    BY DEF Upto
  <2>2. g[k] <= g[m] /\ (m < k => g[m] < g[k])
    BY <2>1 DEF Upto
  <2>3. ~(m < k)
    BY <1>0, <2>2
  <2>4. QED
    BY <2>1, <2>3
<1>3. h \in Bijection(1 .. m, T)
  <2>1. h \in [1 .. m -> T]
    BY <1>1
  <2>2. ASSUME NEW k \in 1 .. m, NEW l \in 1 .. m, k # l PROVE h[k] # h[l]
    <3>1. k \in 1 .. n /\ l \in 1 .. n /\ (k < l \/ l < k)
      BY <2>2
    <3>2. g[k] < g[l] \/ g[l] < g[k]
      BY <3>1
    <3>3. QED
      BY <1>0, <3>1, <3>2
  <2>3. \A t \in T : \E k \in 1 .. m : h[k] = t
    BY <1>2
  <2> HIDE DEF h, T
  <2>4. h \in Injection(1 .. m, T)
    BY <2>1, <2>2 DEF Injection, IsInjective
  <2>5. h \in Surjection(1 .. m, T)
    BY <2>1, <2>3 DEF Surjection
  <2>6. QED
    BY <2>4, <2>5 DEF Bijection
<1>4. IsFiniteSet(1 .. m) /\ Cardinality(1 .. m) = m
  BY FS_Interval
<1>5. QED
  BY <1>3, <1>4, FS_Bijection DEF ExistsBijection

\* A list of P is what Nth enumerates.
LEMMA NthListed ==
    ASSUME NEW g, NEW n, NEW P, Lists(g, n, P)
    PROVE  /\ IsFiniteSet(P) /\ Cardinality(P) = n
           /\ \A k \in 1 .. n : Nth(P, k) = g[k]
<1>1. IsFiniteSet(P) /\ Cardinality(P) = n
  <2>1. CASE n = 0
    <3>1. P = {}
      BY <2>1 DEF Lists
    <3>2. QED
      BY <2>1, <3>1, FS_EmptySet
  <2>2. CASE n # 0
    <3>1. n \in 1 .. n
      BY <2>2 DEF Lists
    <3>2. Upto(P, g[n]) = P
      <4>1. ASSUME NEW i \in P PROVE i <= g[n]
        <5>1. PICK k \in 1 .. n : g[k] = i
          BY DEF Lists
        <5>2. i \in Nat /\ g[n] \in P /\ g[n] \in Nat
          BY <3>1 DEF Lists
        <5>3. n \in Nat /\ (k < n => g[k] < g[n])
          BY <3>1 DEF Lists
        <5>4. QED
          BY <5>1, <5>2, <5>3
      <4>2. QED
        BY <4>1 DEF Upto
    <3>3. QED
      BY <3>1, <3>2, ListedUpto
  <2>3. QED
    BY <2>1, <2>2
<1>2. ASSUME NEW k \in 1 .. n PROVE Nth(P, k) = g[k]
  <2>1. g[k] \in P /\ Cardinality(Upto(P, g[k])) = k
    <3>1. g[k] \in P
      BY DEF Lists
    <3>2. QED
      BY <3>1, ListedUpto
  <2>2. ASSUME NEW i \in P, Cardinality(Upto(P, i)) = k PROVE i = g[k]
    <3>1. PICK l \in 1 .. n : g[l] = i
      BY DEF Lists
    <3>2. Cardinality(Upto(P, i)) = l
      BY <3>1, ListedUpto
    <3>3. QED
      BY <2>2, <3>1, <3>2
  <2>3. QED
    BY <2>1, <2>2 DEF Nth, Upto
<1>3. QED
  BY <1>1, <1>2

\* Nth lists every finite set of positions.
LEMMA NthLists ==
    ASSUME NEW P, P \subseteq Nat, IsFiniteSet(P)
    PROVE  Lists([k \in 1 .. Cardinality(P) |-> Nth(P, k)], Cardinality(P), P)
<1> DEFINE n == Cardinality(P)
           rank == [i \in P |-> Cardinality(Upto(P, i))]
<1>1. n \in Nat /\ IsFiniteSet(1 .. n) /\ Cardinality(1 .. n) = n
  BY FS_CardinalityType, FS_Interval
<1>2. ASSUME NEW i \in P
      PROVE  IsFiniteSet(Upto(P, i)) /\ rank[i] \in 1 .. n
  <2>1. Upto(P, i) \in SUBSET P /\ i \in Upto(P, i)
    BY DEF Upto
  <2>2. IsFiniteSet(Upto(P, i)) /\ Cardinality(Upto(P, i)) <= n
    BY <2>1, FS_Subset
  <2>3. Cardinality(Upto(P, i)) \in Nat /\ Cardinality(Upto(P, i)) # 0
    BY <2>1, <2>2, FS_CardinalityType, FS_EmptySet
  <2>4. QED
    BY <1>1, <2>2, <2>3
<1>3. ASSUME NEW i \in P, NEW j \in P, i < j
      PROVE  rank[i] < rank[j]
  <2>1. Upto(P, i) \cup {j} \in SUBSET Upto(P, j) /\ j \notin Upto(P, i)
    <3>1. i \in Nat /\ j \in Nat
      OBVIOUS
    <3>2. \A k \in P : k <= i => k <= j
      BY <1>3, <3>1
    <3>3. j <= j /\ ~(j <= i)
      BY <1>3, <3>1
    <3>4. QED
      BY <3>2, <3>3 DEF Upto
  <2>2. IsFiniteSet(Upto(P, i)) /\ IsFiniteSet(Upto(P, j))
    BY <1>2
  <2>3. Cardinality(Upto(P, i) \cup {j}) = Cardinality(Upto(P, i)) + 1
    BY <2>1, <2>2, FS_AddElement
  <2>4. Cardinality(Upto(P, i) \cup {j}) <= Cardinality(Upto(P, j))
    BY <2>1, <2>2, FS_Subset
  <2>5. QED
    BY <1>2, <2>3, <2>4
<1> HIDE DEF n, rank
<1>4. rank \in Injection(P, 1 .. n)
  <2>1. rank \in [P -> 1 .. n]
    BY <1>2 DEF rank
  <2>2. ASSUME NEW i \in P, NEW j \in P, i # j PROVE rank[i] # rank[j]
    <3>1. i < j \/ j < i
      BY <2>2
    <3>2. rank[i] \in Nat /\ rank[j] \in Nat
      BY <1>2
    <3>3. QED
      BY <1>3, <3>1, <3>2
  <2>3. QED
    BY <2>1, <2>2 DEF Injection, IsInjective
<1>5. rank \in Surjection(P, 1 .. n)
  BY <1>1, <1>4, FS_Injection DEF n
<1>6. ASSUME NEW k \in 1 .. n PROVE Nth(P, k) \in P /\ rank[Nth(P, k)] = k
  <2>1. \E i \in P : rank[i] = k
    BY <1>5 DEF Surjection
  <2>2. \A i \in P : rank[i] = Cardinality({j \in P : j <= i})
    BY DEF rank, Upto
  <2>3. \E i \in P : Cardinality({j \in P : j <= i}) = k
    BY <2>1, <2>2
  <2>4. Nth(P, k) \in P /\ Cardinality({j \in P : j <= Nth(P, k)}) = k
    BY <2>3 DEF Nth
  <2>5. QED
    BY <2>2, <2>4
<1>7. ASSUME NEW k \in 1 .. n, NEW l \in 1 .. n, k < l PROVE Nth(P, k) < Nth(P, l)
  <2>1. Nth(P, k) \in Nat /\ Nth(P, l) \in Nat
    BY <1>6
  <2>2. /\ Nth(P, k) \in P /\ rank[Nth(P, k)] = k
        /\ Nth(P, l) \in P /\ rank[Nth(P, l)] = l
    BY <1>6
  <2>3. Nth(P, l) < Nth(P, k) => l < k
    BY <1>3, <2>2
  <2>4. Nth(P, k) # Nth(P, l)
    BY <1>7, <2>2
  <2>5. QED
    BY <1>7, <2>1, <2>3, <2>4
<1>8. ASSUME NEW i \in P PROVE rank[i] \in 1 .. n /\ Nth(P, rank[i]) = i
  <2>1. rank[i] \in 1 .. n
    BY <1>2
  <2>2. rank[Nth(P, rank[i])] = rank[i] /\ Nth(P, rank[i]) \in P
    BY <1>6, <2>1
  <2>3. QED
    BY <1>4, <2>1, <2>2 DEF Injection, IsInjective
<1>9. QED
  BY <1>1, <1>6, <1>7, <1>8 DEF Lists, n

-----------------------------------------------------------------------------
(***************************************************************************)
(* What the detector finds.  Call i + 1 repeats call i, or shows that the  *)
(* evidence is broken; a block is a longest run of repetitions.            *)
(***************************************************************************)
Again(r, s) == SameSuccessfulCall(r, s) /\ RepeatedObservationIsStable(r, s)

Repeats(r, s) == Again(r, s) /\ TestRunVerdict(r) = "comparable"

Breaks(r, s) ==
    /\ SameSuccessfulCall(r, s)
    /\ \/ TestRunVerdict(r) = "error"
       \/ /\ TestRunVerdict(r) = "comparable" /\ IsTestRun(r)
          /\ ~RepeatedObservationIsStable(r, s)

RepeatsAt(rs, i) == Repeats(rs[i], rs[i + 1])
BreaksAt(rs, i) == Breaks(rs[i], rs[i + 1])

\* From a to b every call repeats the one before; the run starts at the
\* earliest at i, and cannot be made longer.
Run(rs, i, a, b) ==
    /\ i <= a /\ a < b /\ b <= Len(rs)
    /\ \A k \in a .. b - 1 : RepeatsAt(rs, k)
    /\ a = i \/ ~RepeatsAt(rs, a - 1)
    /\ b = Len(rs) \/ ~RepeatsAt(rs, b)

RunsFrom(rs, i) ==
    {r \in (1 .. Len(rs)) \X (1 .. Len(rs)) : Run(rs, i, r[1], r[2])}

Found(rs, i) ==
    IF \E k \in i .. Len(rs) - 1 : BreaksAt(rs, k) THEN Incomplete
    ELSE [complete |-> TRUE, blocks |-> RunsFrom(rs, i)]

\* A call that repeats another may stand in for it in every comparison.
LEMMA StandsIn ==
    ASSUME NEW r, NEW s, NEW t, Again(r, s)
    PROVE  /\ SameSuccessfulCall(r, t) <=> SameSuccessfulCall(s, t)
           /\ RepeatedObservationIsStable(r, t) <=> RepeatedObservationIsStable(s, t)
           /\ Again(r, t) <=> Again(s, t)
           /\ IsTestRun(r) <=> IsTestRun(s)
           /\ TestRunVerdict(r) = "comparable" => TestRunVerdict(s) = "comparable"
<1> USE DEF Again, SameSuccessfulCall, RepeatedObservationIsStable, IsTestRun
<1>1. /\ SameSuccessfulCall(r, t) <=> SameSuccessfulCall(s, t)
      /\ RepeatedObservationIsStable(r, t) <=> RepeatedObservationIsStable(s, t)
      /\ IsTestRun(r) <=> IsTestRun(s)
  OBVIOUS
<1>2. TestRunVerdict(r) = "comparable" => TestRunVerdict(s) = "comparable"
  BY DEF TestRunVerdict
<1>3. QED
  BY <1>1, <1>2

\* The calls of a run of repetitions all repeat its first.
LEMMA AlongRun ==
    ASSUME NEW rs, NEW a \in Nat, NEW b \in Nat, a <= b,
           \A k \in a .. b - 1 : RepeatsAt(rs, k)
    PROVE  \A c \in a .. b :
                \/ c = a
                \/ /\ Again(rs[a], rs[c])
                   /\ TestRunVerdict(rs[a]) = "comparable"
                   /\ TestRunVerdict(rs[c]) = "comparable"
<1> DEFINE Fine(c) == \/ c = a
                      \/ /\ Again(rs[a], rs[c])
                         /\ TestRunVerdict(rs[a]) = "comparable"
                         /\ TestRunVerdict(rs[c]) = "comparable"
           Bad == {c \in a .. b : ~Fine(c)}
<1> SUFFICES ASSUME Bad # {} PROVE FALSE
  OBVIOUS
<1>1. PICK c \in Bad : \A k \in Bad : c <= k
  <2>1. Bad \subseteq Nat
    OBVIOUS
  <2> HIDE DEF Bad
  <2>2. QED
    BY <2>1, LeastNat
<1>2. c \in a .. b /\ ~Fine(c) /\ c # a
  OBVIOUS
<1> DEFINE p == c - 1
<1>3. p \in a .. b - 1 /\ p \in a .. b /\ p + 1 = c /\ ~(c <= p)
  BY <1>2
<1>4. Fine(p)
  BY <1>1, <1>3
<1>5. Again(rs[p], rs[c]) /\ TestRunVerdict(rs[p]) = "comparable"
  BY <1>3 DEF RepeatsAt, Repeats
<1> HIDE DEF p
<1>6. TestRunVerdict(rs[c]) = "comparable"
  BY <1>5, StandsIn
<1>7. CASE p = a
  BY <1>2, <1>5, <1>6, <1>7
<1>8. CASE p # a
  <2>1. Again(rs[a], rs[p]) /\ TestRunVerdict(rs[a]) = "comparable"
    BY <1>4, <1>8
  <2>2. Again(rs[a], rs[c])
    BY <1>5, <2>1, StandsIn
  <2>3. QED
    BY <1>2, <1>6, <2>1, <2>2
<1>9. QED
  BY <1>7, <1>8

\* BlockEnd is the end of the run that starts at a repeated call, and what stops
\* the run there stops the comparison with its first call.
LEMMA BlockEndIs ==
    ASSUME NEW rs, Len(rs) \in Nat, NEW i \in 1 .. Len(rs) - 1, RepeatsAt(rs, i)
    PROVE  LET last == BlockEnd(rs, i) IN
           /\ last \in i + 1 .. Len(rs)
           /\ \A k \in i .. last - 1 : RepeatsAt(rs, k) /\ ~BreaksAt(rs, k)
           /\ last < Len(rs) =>
                /\ ~RepeatsAt(rs, last)
                /\ BreaksAt(rs, last) <=>
                        SameSuccessfulCall(rs[i], rs[last + 1]) /\ IsTestRun(rs[i])
<1> DEFINE n == Len(rs)
           last == BlockEnd(rs, i)
           Stops == {j \in i + 1 .. n : j = n \/ ~Again(rs[i], rs[j + 1])}
           Ends(j) == /\ \A k \in i + 1 .. j : Again(rs[i], rs[k])
                      /\ j < n => ~Again(rs[i], rs[j + 1])
<1>1. \E j \in i + 1 .. n : Ends(j)
  <2>1. n \in Stops /\ Stops \subseteq Nat
    OBVIOUS
  <2> HIDE DEF Stops
  <2>2. PICK j \in Stops : \A k \in Stops : j <= k
    BY <2>1, LeastNat
  <2>3. j \in i + 1 .. n /\ (j = n \/ ~Again(rs[i], rs[j + 1]))
    BY DEF Stops
  <2>4. ASSUME NEW k \in i + 1 .. j PROVE Again(rs[i], rs[k])
    <3>1. CASE k = i + 1
      BY <3>1 DEF RepeatsAt, Repeats
    <3>2. CASE k # i + 1
      <4> DEFINE p == k - 1
      <4>1. p \in i + 1 .. n /\ p # n /\ p + 1 = k /\ ~(j <= p)
        BY <2>3, <3>2
      <4> HIDE DEF p
      <4>2. p \notin Stops
        BY <2>2, <4>1
      <4>3. QED
        BY <4>1, <4>2 DEF Stops
    <3>3. QED
      BY <3>1, <3>2
  <2>5. QED
    BY <2>3, <2>4
<1>2. last = CHOOSE j \in i + 1 .. n : Ends(j)
  BY DEF BlockEnd, Again
<1> HIDE DEF last, Ends, Stops
<1>3. last \in i + 1 .. n /\ Ends(last)
  BY <1>1, <1>2
<1>4. Again(rs[i], rs[i + 1]) /\ TestRunVerdict(rs[i]) = "comparable"
  BY DEF RepeatsAt, Repeats
<1>5. ASSUME NEW k \in i .. last PROVE k = i \/ Again(rs[i], rs[k])
  BY <1>3 DEF Ends
<1>6. ASSUME NEW k \in i .. last
      PROVE  /\ TestRunVerdict(rs[k]) = "comparable"
             /\ \A t : SameSuccessfulCall(rs[i], t) <=> SameSuccessfulCall(rs[k], t)
             /\ \A t : RepeatedObservationIsStable(rs[i], t)
                            <=> RepeatedObservationIsStable(rs[k], t)
             /\ IsTestRun(rs[k]) <=> IsTestRun(rs[i])
  <2>1. CASE k = i
    BY <1>4, <2>1
  <2>2. CASE k # i
    BY <1>4, <1>5, <2>2, StandsIn
  <2>3. QED
    BY <2>1, <2>2
<1>7. ASSUME NEW k \in i .. last - 1 PROVE RepeatsAt(rs, k) /\ ~BreaksAt(rs, k)
  <2>1. k \in i .. last /\ k + 1 \in i .. last /\ k + 1 # i
    BY <1>3
  <2>2. Again(rs[i], rs[k + 1])
    BY <1>5, <2>1
  <2>3. Again(rs[k], rs[k + 1]) /\ TestRunVerdict(rs[k]) = "comparable"
    BY <1>6, <2>1, <2>2 DEF Again
  <2>4. QED
    BY <2>3 DEF RepeatsAt, Repeats, BreaksAt, Breaks, Again
<1>8. ASSUME last < n
      PROVE  /\ ~RepeatsAt(rs, last)
             /\ BreaksAt(rs, last) <=>
                    SameSuccessfulCall(rs[i], rs[last + 1]) /\ IsTestRun(rs[i])
  <2>1. last \in i .. last
    BY <1>3
  <2>2. ~Again(rs[i], rs[last + 1])
    BY <1>3, <1>8 DEF Ends
  <2>3. ~Again(rs[last], rs[last + 1])
    BY <1>6, <2>1, <2>2 DEF Again
  <2>4. QED
    BY <1>6, <2>1, <2>2, <2>3 DEF RepeatsAt, Repeats, BreaksAt, Breaks, Again
<1>9. QED
  BY <1>3, <1>7, <1>8 DEF last
\* No run starts at a call that is not repeated.
LEMMA RunsSkip ==
    ASSUME NEW rs, Len(rs) \in Nat, NEW i \in 1 .. Len(rs), ~RepeatsAt(rs, i)
    PROVE  RunsFrom(rs, i) = RunsFrom(rs, i + 1)
<1> SUFFICES ASSUME NEW a \in 1 .. Len(rs), NEW b \in 1 .. Len(rs)
             PROVE  Run(rs, i, a, b) <=> Run(rs, i + 1, a, b)
  BY DEF RunsFrom
<1>1. ASSUME Run(rs, i, a, b) PROVE Run(rs, i + 1, a, b)
  <2>1. a \in a .. b - 1 /\ a # i /\ a >= i + 1
    <3>1. a \in a .. b - 1
      BY <1>1 DEF Run
    <3>2. a # i
      BY <1>1, <3>1 DEF Run
    <3>3. QED
      BY <1>1, <3>1, <3>2 DEF Run
  <2>2. QED
    BY <1>1, <2>1 DEF Run
<1>2. ASSUME Run(rs, i + 1, a, b) PROVE Run(rs, i, a, b)
  <2>1. i <= a /\ a # i
    BY <1>2 DEF Run
  <2>2. a = i + 1 => a - 1 = i
    OBVIOUS
  <2>3. QED
    BY <1>2, <2>1, <2>2 DEF Run
<1>3. QED
  BY <1>1, <1>2

\* The run that starts at a repeated call, and those behind it, are all there are.
LEMMA RunsSplit ==
    ASSUME NEW rs, Len(rs) \in Nat, NEW i \in 1 .. Len(rs) - 1, NEW last \in i + 1 .. Len(rs),
           \A k \in i .. last - 1 : RepeatsAt(rs, k),
           last < Len(rs) => ~RepeatsAt(rs, last)
    PROVE  RunsFrom(rs, i) = {<<i, last>>} \cup RunsFrom(rs, last + 1)
<1> SUFFICES ASSUME NEW a \in 1 .. Len(rs), NEW b \in 1 .. Len(rs)
             PROVE  Run(rs, i, a, b) <=> (a = i /\ b = last) \/ Run(rs, last + 1, a, b)
  BY DEF RunsFrom
<1>1. Run(rs, i, i, last)
  BY DEF Run
<1>2. ASSUME Run(rs, last + 1, a, b) PROVE Run(rs, i, a, b)
  <2>1. i <= a /\ a # i /\ last < Len(rs) /\ (a = last + 1 => a - 1 = last)
    BY <1>2 DEF Run
  <2>2. QED
    BY <1>2, <2>1 DEF Run
<1>3. ASSUME Run(rs, i, a, b), a = i PROVE b = last
  <2>1. ~(b < last)
    <3>1. b < last => b \in i .. last - 1 /\ b # Len(rs)
      BY <1>3 DEF Run
    <3>2. QED
      BY <1>3, <3>1 DEF Run
  <2>2. ~(last < b)
    <3>1. last < b => last \in a .. b - 1 /\ last < Len(rs)
      BY <1>3 DEF Run
    <3>2. QED
      BY <1>3, <3>1 DEF Run
  <2>3. QED
    BY <2>1, <2>2
<1>4. ASSUME Run(rs, i, a, b), a # i PROVE Run(rs, last + 1, a, b)
  <2>1. ~RepeatsAt(rs, a - 1) /\ a - 1 >= i
    BY <1>4 DEF Run
  <2>2. a - 1 >= last
    <3>1. a - 1 < last => a - 1 \in i .. last - 1
      BY <2>1
    <3>2. QED
      BY <2>1, <3>1
  <2>3. a >= last + 1
    BY <2>2
  <2>4. QED
    BY <1>4, <2>1, <2>3 DEF Run
<1>5. QED
  BY <1>1, <1>2, <1>3, <1>4

\* A block joins what is found behind it, unless that is nothing to go by.
LEMMA BlockAdded ==
    ASSUME NEW first, NEW last, NEW S
    PROVE  /\ WithBlock(first, last, Incomplete) = Incomplete
           /\ WithBlock(first, last, [complete |-> TRUE, blocks |-> S]) =
                    [complete |-> TRUE, blocks |-> {<<first, last>>} \cup S]
<1>1. WithBlock(first, last, Incomplete) = Incomplete
  BY DEF WithBlock, Incomplete
<1> DEFINE rest == [complete |-> TRUE, blocks |-> S]
<1>2. rest.complete = TRUE /\ rest.blocks = S
  OBVIOUS
<1> HIDE DEF rest
<1>3. WithBlock(first, last, rest) = [complete |-> TRUE, blocks |-> {<<first, last>>} \cup S]
  BY <1>2 DEF WithBlock
<1>4. QED
  BY <1>1, <1>3 DEF rest

\* A verdict is one of three.
LEMMA Verdicts ==
    ASSUME NEW r
    PROVE  TestRunVerdict(r) \in {"comparable", "error", "skipped"}
BY DEF TestRunVerdict

\* One step of the scan finds what there is from call i on, if it is told what
\* there is from each later call on.
LEMMA FoundSteps ==
    ASSUME NEW rs, Len(rs) \in Nat, NEW i \in 1 .. Len(rs) + 1, NEW found,
           \A j \in i + 1 .. Len(rs) + 1 : found[j] = Found(rs, j)
    PROVE  ScanFrom(rs, found, i) = Found(rs, i)
<1> DEFINE n == Len(rs)
<1>1. CASE i + 1 > n
  <2>1. RunsFrom(rs, i) = {} /\ i .. n - 1 = {}
    BY <1>1 DEF RunsFrom, Run
  <2>2. QED
    BY <1>1, <2>1 DEF ScanFrom, Found, NoBlocks
<1>2. CASE i + 1 <= n /\ BreaksAt(rs, i)
  <2>1. Found(rs, i) = Incomplete
    <3>1. i \in i .. n - 1
      BY <1>2
    <3>2. QED
      BY <1>2, <3>1 DEF Found
  <2>2. QED
    BY <1>2, <2>1 DEF ScanFrom, BreaksAt, Breaks
<1>3. CASE i + 1 <= n /\ ~BreaksAt(rs, i) /\ ~RepeatsAt(rs, i)
  <2>1. RunsFrom(rs, i) = RunsFrom(rs, i + 1)
    BY <1>3, RunsSkip
  <2>2. \A k \in i .. n - 1 : BreaksAt(rs, k) => k \in i + 1 .. n - 1
    BY <1>3
  <2>3. Found(rs, i) = Found(rs, i + 1)
    BY <2>1, <2>2 DEF Found
  <2>4. found[i + 1] = Found(rs, i + 1)
    BY <1>3
  <2>5. ScanFrom(rs, found, i) = found[i + 1]
    BY <1>3, Verdicts DEF ScanFrom, BreaksAt, Breaks, RepeatsAt, Repeats, Again
  <2>6. QED
    BY <2>3, <2>4, <2>5
<1>4. CASE i + 1 <= n /\ RepeatsAt(rs, i)
  <2> DEFINE last == BlockEnd(rs, i)
             drifts == last < n /\ SameSuccessfulCall(rs[i], rs[last + 1]) /\ IsTestRun(rs[i])
  <2>0. /\ last \in i + 1 .. n
        /\ \A k \in i .. last - 1 : RepeatsAt(rs, k) /\ ~BreaksAt(rs, k)
        /\ last < n => ~RepeatsAt(rs, last) /\ (BreaksAt(rs, last) <=> drifts)
    BY <1>4, BlockEndIs
  <2>1. ScanFrom(rs, found, i) =
            IF drifts THEN Incomplete ELSE WithBlock(i, last, found[last + 1])
    BY <1>4 DEF ScanFrom, RepeatsAt, Repeats, Again
  <2> HIDE DEF last
  <2>2. found[last + 1] = Found(rs, last + 1)
    BY <2>0
  <2>3. RunsFrom(rs, i) = {<<i, last>>} \cup RunsFrom(rs, last + 1)
    BY <1>4, <2>0, RunsSplit
  <2>4. CASE drifts
    <3>1. last \in i .. n - 1 /\ BreaksAt(rs, last)
      BY <2>0, <2>4
    <3>2. QED
      BY <2>1, <2>4, <3>1 DEF Found
  <2>5. CASE ~drifts
    <3>0. ScanFrom(rs, found, i) = WithBlock(i, last, Found(rs, last + 1))
      BY <2>1, <2>2, <2>5
    <3>1. ASSUME NEW k \in i .. n - 1, BreaksAt(rs, k) PROVE k \in last + 1 .. n - 1
      <4>1. k \in i .. last - 1 \/ k = last \/ k \in last + 1 .. n - 1
        BY <2>0
      <4>2. k # last
        BY <2>0, <2>5, <3>1
      <4>3. QED
        BY <2>0, <3>1, <4>1, <4>2
    <3>2. ASSUME NEW k \in last + 1 .. n - 1 PROVE k \in i .. n - 1
      BY <2>0
    <3>3. CASE \E k \in i .. n - 1 : BreaksAt(rs, k)
      <4>1. Found(rs, i) = Incomplete /\ Found(rs, last + 1) = Incomplete
        BY <3>1, <3>3 DEF Found
      <4>2. QED
        BY <3>0, <4>1, BlockAdded
    <3>4. CASE ~\E k \in i .. n - 1 : BreaksAt(rs, k)
      <4>1. /\ Found(rs, i) = [complete |-> TRUE, blocks |-> RunsFrom(rs, i)]
            /\ Found(rs, last + 1) = [complete |-> TRUE, blocks |-> RunsFrom(rs, last + 1)]
        BY <3>2, <3>4 DEF Found
      <4>2. WithBlock(i, last, Found(rs, last + 1)) =
                [complete |-> TRUE, blocks |-> {<<i, last>>} \cup RunsFrom(rs, last + 1)]
        BY <4>1, BlockAdded
      <4>3. QED
        BY <2>3, <3>0, <4>1, <4>2
    <3>5. QED
      BY <3>3, <3>4
  <2>6. QED
    BY <2>4, <2>5
<1>5. QED
  BY <1>1, <1>2, <1>3, <1>4

\* The detector finds every longest run of repetitions, or says that the
\* evidence is broken somewhere.
THEOREM DetectFinds ==
    ASSUME NEW rs, Len(rs) \in Nat
    PROVE  Detect(rs) = Found(rs, 1)
<1> DEFINE D == 1 .. Len(rs) + 1
           IsScan(f) == f = [i \in D |-> ScanFrom(rs, f, i)]
           scan == CHOOSE f : IsScan(f)
           all == [i \in D |-> Found(rs, i)]
<1>1. Detect(rs) = scan[1]
  BY DEF Detect
<1>2. IsScan(all)
  <2>1. ASSUME NEW i \in D PROVE ScanFrom(rs, all, i) = Found(rs, i)
    <3>1. \A j \in i + 1 .. Len(rs) + 1 : all[j] = Found(rs, j)
      OBVIOUS
    <3> HIDE DEF all
    <3>2. QED
      BY <3>1, FoundSteps
  <2>2. QED
    BY <2>1
<1> HIDE DEF all, IsScan
<1>3. IsScan(scan)
  BY <1>2
<1> HIDE DEF scan
<1> DEFINE Bad == {i \in D : scan[i] # Found(rs, i)}
<1>4. Bad = {}
  <2> SUFFICES ASSUME Bad # {} PROVE FALSE
    OBVIOUS
  <2>1. Bad \subseteq 0 .. Len(rs) + 1
    OBVIOUS
  <2>2. PICK i \in Bad : \A k \in Bad : k <= i
    <3> HIDE DEF Bad
    <3>1. Len(rs) + 1 \in Nat
      OBVIOUS
    <3>2. QED
      BY <2>1, <3>1, GreatestNat
  <2>3. i \in D /\ scan[i] # Found(rs, i)
    OBVIOUS
  <2>4. \A j \in i + 1 .. Len(rs) + 1 : scan[j] = Found(rs, j)
    <3>1. \A j \in i + 1 .. Len(rs) + 1 : j \in D /\ ~(j <= i)
      BY <2>3
    <3>2. QED
      BY <2>2, <3>1
  <2>5. scan[i] = ScanFrom(rs, scan, i)
    BY <1>3, <2>3 DEF IsScan
  <2>6. QED
    BY <2>3, <2>4, <2>5, FoundSteps
<1>5. QED
  BY <1>1, <1>4

-----------------------------------------------------------------------------
(***************************************************************************)
(* What a repair leaves.  A call is redundant if it repeats the one before *)
(* it; between two calls that are kept, one after the other, there are     *)
(* only repetitions of the first.                                          *)
(***************************************************************************)
Redundant(rs) == {k \in 1 .. Len(rs) : k > 1 /\ RepeatsAt(rs, k - 1)}
Kept(rs) == {k \in 1 .. Len(rs) : k \notin Redundant(rs)}

\* A complete detection says that nothing is broken, and has all the runs.
LEMMA CompleteDetection ==
    ASSUME NEW rs, Len(rs) \in Nat, Detect(rs).complete
    PROVE  /\ \A k \in 1 .. Len(rs) - 1 : ~BreaksAt(rs, k)
           /\ Detect(rs) = [complete |-> TRUE, blocks |-> RunsFrom(rs, 1)]
           /\ Detect(rs).blocks = RunsFrom(rs, 1)
<1>1. Detect(rs) = Found(rs, 1)
  BY DetectFinds
<1>2. Detect(rs) # Incomplete
  BY DEF Incomplete
<1>3. ~\E k \in 1 .. Len(rs) - 1 : BreaksAt(rs, k)
  BY <1>1, <1>2 DEF Found
<1>4. QED
  BY <1>1, <1>3 DEF Found

\* Every call of a block but the first repeats the first.
LEMMA InBlock ==
    ASSUME NEW rs, Len(rs) \in Nat, NEW a \in 1 .. Len(rs), NEW b \in 1 .. Len(rs),
           Run(rs, 1, a, b), NEW k \in a + 1 .. b
    PROVE  Again(rs[a], rs[k]) /\ k \in Redundant(rs)
<1>1. \A j \in a .. b - 1 : RepeatsAt(rs, j)
  BY DEF Run
<1>2. k \in a .. b /\ k # a /\ a <= b /\ k - 1 \in a .. b - 1 /\ k \in 1 .. Len(rs) /\ k > 1
  BY DEF Run
<1>3. Again(rs[a], rs[k])
  BY <1>1, <1>2, AlongRun
<1>4. QED
  BY <1>1, <1>2, <1>3 DEF Redundant

\* The blocks cover the redundant calls, all of them.
LEMMA BlocksCover ==
    ASSUME NEW rs, Len(rs) \in Nat
    PROVE  UNION {b[1] + 1 .. b[2] : b \in RunsFrom(rs, 1)} = Redundant(rs)
<1> DEFINE n == Len(rs)
<1>1. ASSUME NEW b \in RunsFrom(rs, 1), NEW k \in b[1] + 1 .. b[2] PROVE k \in Redundant(rs)
  BY InBlock DEF RunsFrom
<1>2. ASSUME NEW k \in Redundant(rs)
      PROVE  \E b \in RunsFrom(rs, 1) : k \in b[1] + 1 .. b[2]
  <2>1. k \in 2 .. n /\ k - 1 \in 1 .. n - 1 /\ RepeatsAt(rs, k - 1)
    BY DEF Redundant
  <2> DEFINE Starts == {a \in 1 .. k - 1 : \A j \in a .. k - 1 : RepeatsAt(rs, j)}
             Stops == {b \in k .. n : b = n \/ ~RepeatsAt(rs, b)}
  <2>2. PICK a \in Starts : \A x \in Starts : a <= x
    <3>1. k - 1 \in Starts /\ Starts \subseteq Nat
      BY <2>1
    <3> HIDE DEF Starts
    <3>2. QED
      BY <3>1, LeastNat
  <2>3. PICK b \in Stops : \A x \in Stops : b <= x
    <3>1. n \in Stops /\ Stops \subseteq Nat
      BY <2>1
    <3> HIDE DEF Stops
    <3>2. QED
      BY <3>1, LeastNat
  <2>4. a \in 1 .. k - 1 /\ b \in k .. n
    OBVIOUS
  <2>5. \A j \in a .. b - 1 : RepeatsAt(rs, j)
    <3> SUFFICES ASSUME NEW j \in a .. b - 1 PROVE RepeatsAt(rs, j)
      OBVIOUS
    <3>1. j \in a .. k - 1 \/ (j \in k .. n /\ j # n /\ ~(b <= j))
      BY <2>1, <2>4
    <3>2. CASE j \in a .. k - 1
      BY <3>2
    <3>3. CASE j \in k .. n /\ j # n /\ ~(b <= j)
      BY <2>3, <3>3
    <3>4. QED
      BY <3>1, <3>2, <3>3
  <2>6. a = 1 \/ ~RepeatsAt(rs, a - 1)
    <3> SUFFICES ASSUME a # 1, RepeatsAt(rs, a - 1) PROVE FALSE
      OBVIOUS
    <3>1. a - 1 \in 1 .. k - 1 /\ ~(a <= a - 1)
      BY <2>1, <2>4
    <3>2. \A j \in a - 1 .. k - 1 : j = a - 1 \/ j \in a .. k - 1
      BY <2>1, <2>4
    <3>3. a - 1 \in Starts
      BY <3>1, <3>2
    <3>4. QED
      BY <2>2, <3>1, <3>3
  <2>7. b = n \/ ~RepeatsAt(rs, b)
    OBVIOUS
  <2> HIDE DEF Starts, Stops
  <2>8. /\ <<a, b>> \in (1 .. n) \X (1 .. n) /\ k \in a + 1 .. b
        /\ 1 <= a /\ a < b /\ b <= n
    BY <2>1, <2>4
  <2>9. <<a, b>> \in RunsFrom(rs, 1)
    BY <2>5, <2>6, <2>7, <2>8 DEF RunsFrom, Run
  <2>10. QED
    BY <2>8, <2>9
<1>3. QED
  BY <1>1, <1>2

\* Nothing of a list lies between two of its neighbours, or beyond its ends.
LEMMA Neighbours ==
    ASSUME NEW g, NEW n, NEW P, Lists(g, n, P), NEW i \in P
    PROVE  /\ \A l \in 1 .. n - 1 : ~(g[l] < i /\ i < g[l + 1])
           /\ n >= 1 /\ g[1] <= i /\ i <= g[n]
<1>1. PICK k \in 1 .. n : g[k] = i
  BY DEF Lists
<1>2. n \in Nat /\ i \in Nat /\ \A l \in 1 .. n : g[l] \in Nat
  BY DEF Lists
<1>3. \A l \in 1 .. n : (l < k => g[l] < i) /\ (k < l => i < g[l])
  BY <1>1 DEF Lists
<1>4. ASSUME NEW l \in 1 .. n - 1, g[l] < i, i < g[l + 1] PROVE FALSE
  <2>1. l \in 1 .. n /\ l + 1 \in 1 .. n
    BY <1>2
  <2>2. ~(k < l) /\ k # l /\ ~(l + 1 < k) /\ k # l + 1
    <3>1. k < l => i < g[l]
      BY <1>3, <2>1
    <3>2. l + 1 < k => g[l + 1] < i
      BY <1>3, <2>1
    <3>3. QED
      BY <1>1, <1>2, <1>4, <2>1, <3>1, <3>2
  <2>3. QED
    BY <2>1, <2>2
<1>5. g[1] <= i
  <2>1. 1 \in 1 .. n /\ (k = 1 \/ 1 < k)
    BY <1>2
  <2>2. QED
    BY <1>1, <1>2, <1>3, <2>1
<1>6. i <= g[n]
  <2>1. n \in 1 .. n /\ (k = n \/ k < n)
    BY <1>2
  <2>2. QED
    BY <1>1, <1>2, <1>3, <2>1
<1>7. QED
  BY <1>1, <1>2, <1>4, <1>5, <1>6

\* What follows a call up to the next one that is kept repeats it, so the last of
\* that may stand in for it.
LEMMA UpToNextKept ==
    ASSUME NEW rs, Len(rs) \in Nat, NEW a \in 1 .. Len(rs), NEW c \in a .. Len(rs),
           \A k \in a + 1 .. c : k \in Redundant(rs)
    PROVE  /\ c = a \/ /\ Again(rs[a], rs[c])
                       /\ TestRunVerdict(rs[a]) = "comparable"
                       /\ TestRunVerdict(rs[c]) = "comparable"
           /\ \A t : SameSuccessfulCall(rs[a], t) <=> SameSuccessfulCall(rs[c], t)
           /\ \A t : RepeatedObservationIsStable(rs[a], t)
                        <=> RepeatedObservationIsStable(rs[c], t)
           /\ IsTestRun(rs[a]) <=> IsTestRun(rs[c])
           /\ rs[a].after = rs[c].after
<1>1. ASSUME NEW j \in a .. c - 1 PROVE RepeatsAt(rs, j)
  <2>1. j + 1 \in a + 1 .. c /\ (j + 1) - 1 = j
    OBVIOUS
  <2>2. QED
    BY <2>1 DEF Redundant
<1>2. c = a \/ /\ Again(rs[a], rs[c])
               /\ TestRunVerdict(rs[a]) = "comparable"
               /\ TestRunVerdict(rs[c]) = "comparable"
  <2>1. a \in Nat /\ c \in Nat /\ a <= c /\ c \in a .. c
    OBVIOUS
  <2>2. QED
    BY <1>1, <2>1, AlongRun
<1>3. QED
  BY <1>2, StandsIn DEF Again, RepeatedObservationIsStable

\* Where nothing is broken, what is kept is free of redundancy, and not broken.
LEMMA KeptIsFree ==
    ASSUME NEW rs, Len(rs) \in Nat, Detect(rs).complete,
           NEW g, NEW m, Lists(g, m, Kept(rs)),
           NEW kept, Len(kept) = m, \A l \in 1 .. m : kept[l] = rs[g[l]]
    PROVE  Detect(kept) = NoBlocks
<1> DEFINE n == Len(rs)
<1>1. m \in Nat /\ \A l \in 1 .. m : g[l] \in Kept(rs) /\ g[l] \in 1 .. n
  BY DEF Lists, Kept
<1>2. ASSUME NEW l \in 1 .. m - 1
      PROVE  ~RepeatsAt(kept, l) /\ ~BreaksAt(kept, l)
  <2> DEFINE a == g[l]
             b == g[l + 1]
             c == b - 1
  <2>1. /\ l \in 1 .. m /\ l + 1 \in 1 .. m
        /\ a \in Kept(rs) /\ b \in Kept(rs) /\ a \in 1 .. n /\ b \in 1 .. n /\ a < b
    BY <1>1 DEF Lists
  <2>2. kept[l] = rs[a] /\ kept[l + 1] = rs[b]
    BY <2>1
  <2>3. \A k \in a + 1 .. c : k \in Redundant(rs)
    <3> SUFFICES ASSUME NEW k \in a + 1 .. c, k \notin Redundant(rs) PROVE FALSE
      OBVIOUS
    <3>1. k \in Kept(rs) /\ a < k /\ k < b
      BY SMTT(30), <2>1 DEF Kept
    <3>2. QED
      BY <3>1, Neighbours
  <2>4. ~RepeatsAt(rs, c)
    <3>1. b > 1
      BY <2>1
    <3>2. QED
      BY <2>1, <3>1 DEF Kept, Redundant
  <2>5. c \in a .. n /\ c \in 1 .. n - 1 /\ c + 1 = b
    BY SMTT(30), <2>1
  <2>6. ~BreaksAt(rs, c)
    BY <2>5, CompleteDetection
  <2> HIDE DEF a, b, c
  <2>7. ~Repeats(rs[c], rs[b]) /\ ~Breaks(rs[c], rs[b])
    BY <2>4, <2>5, <2>6 DEF RepeatsAt, BreaksAt
  <2>8. /\ c = a \/ (TestRunVerdict(rs[a]) = "comparable" /\ TestRunVerdict(rs[c]) = "comparable")
        /\ SameSuccessfulCall(rs[a], rs[b]) <=> SameSuccessfulCall(rs[c], rs[b])
        /\ RepeatedObservationIsStable(rs[a], rs[b]) <=> RepeatedObservationIsStable(rs[c], rs[b])
        /\ IsTestRun(rs[a]) <=> IsTestRun(rs[c])
    BY <2>1, <2>3, <2>5, UpToNextKept
  <2>9. ~Repeats(rs[a], rs[b]) /\ ~Breaks(rs[a], rs[b])
    BY <2>7, <2>8 DEF Repeats, Breaks, Again
  <2>10. QED
    BY <2>2, <2>9 DEF RepeatsAt, BreaksAt
<1>3. RunsFrom(kept, 1) = {}
  <2> SUFFICES ASSUME NEW a \in 1 .. m, NEW b \in 1 .. m, Run(kept, 1, a, b) PROVE FALSE
    BY DEF RunsFrom
  <2>1. a \in 1 .. m - 1 /\ a \in a .. b - 1
    BY <1>1 DEF Run
  <2>2. QED
    BY <1>2, <2>1 DEF Run
<1>4. Detect(kept) = Found(kept, 1)
  BY <1>1, DetectFinds
<1>5. QED
  BY <1>2, <1>3, <1>4 DEF Found, NoBlocks

-----------------------------------------------------------------------------
(***************************************************************************)
(* The messages.  Those of a loop are calls and their results in turn, the *)
(* k-th pair with id k, and at most one more, the last: an answer without  *)
(* an id, or a call that was not answered.  Those of a repaired transcript *)
(* are of the same kind, with the ids of what was kept.                    *)
(***************************************************************************)
Paired(ms, id, n) ==
    /\ n \in Nat /\ Len(ms) \in {2 * n, 2 * n + 1} /\ DOMAIN ms = 1 .. Len(ms)
    /\ \A k \in 1 .. n :
        /\ id[k] \in Nat \ {0}
        /\ ms[2 * k - 1].role = "assistant" /\ ms[2 * k - 1].id = id[k]
        /\ ms[2 * k].role = "tool" /\ ms[2 * k].id = id[k]
    /\ \A k, l \in 1 .. n : k < l => id[k] < id[l]
    /\ Len(ms) = 2 * n + 1 =>
        /\ ms[2 * n + 1].role = "assistant" /\ ms[2 * n + 1].id \in Nat
        /\ ms[2 * n + 1].id = 0 \/ (\A k \in 1 .. n : id[k] < ms[2 * n + 1].id)

\* The results are those of the calls.
Shows(ms, rs) == \A k \in 1 .. Len(rs) : IsResultOf(rs[k], ms[2 * k - 1].call)

Unanswered(ms, n) == Len(ms) = 2 * n + 1 /\ ms[2 * n + 1].id # 0

\* Every position is that of a call, of its result, or of the last message.
LEMMA Positions ==
    ASSUME NEW n \in Nat, NEW i \in 1 .. 2 * n + 1
    PROVE  i = 2 * n + 1 \/ \E k \in 1 .. n : i = 2 * k - 1 \/ i = 2 * k
<1> DEFINE T == {t \in 0 .. n : 2 * t >= i}
<1>1. CASE i = 2 * n + 1
  BY <1>1
<1>2. CASE i # 2 * n + 1
  <2>1. n \in T /\ T \subseteq Nat
    BY <1>2
  <2> HIDE DEF T
  <2>2. PICK k \in T : \A x \in T : k <= x
    BY <2>1, LeastNat
  <2> USE DEF T
  <2>3. k \in 1 .. n /\ 2 * k >= i
    OBVIOUS
  <2>4. k - 1 \notin T
    BY <2>2, <2>3
  <2>5. 2 * (k - 1) < i
    BY <2>3, <2>4
  <2>6. QED
    BY <2>3, <2>5
<1>3. QED
  BY <1>1, <1>2

\* Where the calls and their results stand.
LEMMA PairedDomain ==
    ASSUME NEW ms, NEW id, NEW n, Paired(ms, id, n)
    PROVE  /\ n \in Nat /\ DOMAIN ms \subseteq 1 .. 2 * n + 1 /\ DOMAIN ms \subseteq Nat
           /\ \A k \in 1 .. n : 2 * k - 1 \in DOMAIN ms /\ 2 * k \in DOMAIN ms
           /\ 2 * n + 1 \in DOMAIN ms <=> Len(ms) = 2 * n + 1
<1> DEFINE len == Len(ms)
           positions == DOMAIN ms
<1>1. n \in Nat /\ (len = 2 * n \/ len = 2 * n + 1) /\ positions = 1 .. len
  BY DEF Paired
<1> HIDE DEF len, positions
<1>2. /\ positions \subseteq 1 .. 2 * n + 1 /\ positions \subseteq Nat
      /\ \A k \in 1 .. n : 2 * k - 1 \in positions /\ 2 * k \in positions
      /\ 2 * n + 1 \in positions <=> len = 2 * n + 1
  BY <1>1
<1>3. QED
  BY <1>1, <1>2 DEF len, positions

\* The ids that the calls and the results of such messages have.
LEMMA PairedIds ==
    ASSUME NEW ms, NEW id, NEW n, Paired(ms, id, n)
    PROVE  /\ ToolIds(ms) = [k \in 1 .. n |-> id[k]]
           /\ Unanswered(ms, n) =>
                AssistantIds(ms) =
                    [k \in 1 .. n + 1 |-> IF k = n + 1 THEN ms[2 * n + 1].id ELSE id[k]]
           /\ ~Unanswered(ms, n) => AssistantIds(ms) = [k \in 1 .. n |-> id[k]]
<1> DEFINE Answers == {i \in DOMAIN ms : ms[i].role = "tool"}
           Calls == {i \in DOMAIN ms : ms[i].role = "assistant" /\ ms[i].id # 0}
           even == [k \in 1 .. n |-> 2 * k]
           odd == [k \in 1 .. n |-> 2 * k - 1]
           odds == [k \in 1 .. n + 1 |-> 2 * k - 1]
<1>1. /\ n \in Nat /\ DOMAIN ms \subseteq 1 .. 2 * n + 1 /\ DOMAIN ms \subseteq Nat
      /\ \A k \in 1 .. n : 2 * k - 1 \in DOMAIN ms /\ 2 * k \in DOMAIN ms
      /\ \A i \in DOMAIN ms : \/ i = 2 * n + 1 /\ Len(ms) = 2 * n + 1
                              \/ \E k \in 1 .. n : i = 2 * k - 1 \/ i = 2 * k
  <2>1. /\ n \in Nat /\ DOMAIN ms \subseteq 1 .. 2 * n + 1 /\ DOMAIN ms \subseteq Nat
        /\ \A k \in 1 .. n : 2 * k - 1 \in DOMAIN ms /\ 2 * k \in DOMAIN ms
        /\ 2 * n + 1 \in DOMAIN ms <=> Len(ms) = 2 * n + 1
    BY PairedDomain
  <2>2. QED
    BY <2>1, Positions
<1>2. Lists(even, n, Answers)
  <2>1. ASSUME NEW i \in Answers PROVE \E k \in 1 .. n : even[k] = i
    BY <1>1 DEF Paired
  <2>2. \A k \in 1 .. n : even[k] \in Answers
    BY <1>1 DEF Paired
  <2>3. \A k, l \in 1 .. n : k < l => even[k] < even[l]
    BY <1>1
  <2> HIDE DEF even
  <2>4. QED
    BY <1>1, <2>1, <2>2, <2>3 DEF Lists
<1>3. ToolIds(ms) = [k \in 1 .. n |-> id[k]]
  <2>1. Cardinality(Answers) = n /\ \A k \in 1 .. n : Nth(Answers, k) = even[k]
    BY <1>2, NthListed
  <2>2. ToolIds(ms) = [k \in 1 .. n |-> ms[Nth(Answers, k)].id]
    BY <2>1 DEF ToolIds, IdsAt
  <2> HIDE DEF Answers
  <2>3. \A k \in 1 .. n : ms[Nth(Answers, k)].id = id[k]
    BY <2>1 DEF Paired
  <2>4. QED
    BY <2>2, <2>3
<1>4. \A k \in 1 .. n : 2 * k - 1 \in Calls
  <2>1. \A k \in 1 .. n : /\ ms[2 * k - 1].role = "assistant"
                          /\ ms[2 * k - 1].id = id[k] /\ id[k] # 0
    BY DEF Paired
  <2>2. QED
    BY <1>1, <2>1
<1>5. ASSUME Unanswered(ms, n)
      PROVE  AssistantIds(ms) =
                [k \in 1 .. n + 1 |-> IF k = n + 1 THEN ms[2 * n + 1].id ELSE id[k]]
  <2>0. /\ 2 * n + 1 \in Calls /\ odds[n + 1] = 2 * n + 1
        /\ \A k \in 1 .. n : k \in 1 .. n + 1 /\ odds[k] = 2 * k - 1
        /\ \A k \in 1 .. n + 1 : k = n + 1 \/ k \in 1 .. n
        /\ n + 1 \in 1 .. n + 1
    BY <1>1, <1>5 DEF Paired, Unanswered
  <2>1. ASSUME NEW i \in Calls PROVE \E k \in 1 .. n + 1 : odds[k] = i
    <3>1. i = 2 * n + 1 \/ \E k \in 1 .. n : i = 2 * k - 1
      BY <1>1 DEF Paired
    <3> HIDE DEF odds
    <3>2. QED
      BY <2>0, <3>1
  <2>2. \A k \in 1 .. n + 1 : odds[k] \in Calls
    <3> HIDE DEF odds, Calls
    <3>1. QED
      BY <2>0, <1>4
  <2>3. \A k, l \in 1 .. n + 1 : k < l => odds[k] < odds[l]
    BY <1>1
  <2>4. Lists(odds, n + 1, Calls)
    <3> HIDE DEF odds
    <3>1. QED
      BY <1>1, <2>1, <2>2, <2>3 DEF Lists
  <2>5. Cardinality(Calls) = n + 1 /\ \A k \in 1 .. n + 1 : Nth(Calls, k) = odds[k]
    <3> HIDE DEF Calls, odds
    <3>1. QED
      BY <2>4, NthListed
  <2>6. AssistantIds(ms) = [k \in 1 .. n + 1 |-> ms[Nth(Calls, k)].id]
    BY <2>5 DEF AssistantIds, IdsAt
  <2> HIDE DEF Calls
  <2>7. ASSUME NEW k \in 1 .. n + 1
        PROVE  ms[Nth(Calls, k)].id = IF k = n + 1 THEN ms[2 * n + 1].id ELSE id[k]
    <3> HIDE DEF odds
    <3>1. ms[Nth(Calls, k)] = ms[odds[k]]
      BY <2>5
    <3>2. CASE k = n + 1
      BY <2>0, <3>1, <3>2
    <3>3. CASE k \in 1 .. n /\ k # n + 1
      <4>1. ms[2 * k - 1].id = id[k]
        BY <3>3 DEF Paired
      <4>2. QED
        BY <2>0, <3>1, <3>3, <4>1
    <3>4. QED
      BY <2>0, <3>2, <3>3
  <2>8. QED
    BY <2>6, <2>7
<1>6. ASSUME ~Unanswered(ms, n)
      PROVE  AssistantIds(ms) = [k \in 1 .. n |-> id[k]]
  <2>1. ASSUME NEW i \in Calls PROVE \E k \in 1 .. n : odd[k] = i
    BY <1>1, <1>6 DEF Paired, Unanswered
  <2>2. \A k \in 1 .. n : odd[k] \in Calls
    <3> HIDE DEF Calls
    <3>1. QED
      BY <1>4
  <2>3. \A k, l \in 1 .. n : k < l => odd[k] < odd[l]
    BY <1>1
  <2>4. Lists(odd, n, Calls)
    <3> HIDE DEF odd
    <3>1. QED
      BY <1>1, <2>1, <2>2, <2>3 DEF Lists
  <2>5. Cardinality(Calls) = n /\ \A k \in 1 .. n : Nth(Calls, k) = odd[k]
    <3> HIDE DEF Calls, odd
    <3>1. QED
      BY <2>4, NthListed
  <2>6. AssistantIds(ms) = [k \in 1 .. n |-> ms[Nth(Calls, k)].id]
    BY <2>5 DEF AssistantIds, IdsAt
  <2> HIDE DEF Calls
  <2>7. \A k \in 1 .. n : ms[Nth(Calls, k)].id = id[k]
    BY <2>5 DEF Paired
  <2>8. QED
    BY <2>6, <2>7
<1>7. QED
  BY <1>3, <1>5, <1>6

\* So the evidence is aligned when there are as many results, and the linkage is
\* complete when no call is unanswered.
LEMMA PairedEvidence ==
    ASSUME NEW ms, NEW id, NEW n, Paired(ms, id, n),
           NEW rs, Len(rs) = n, DOMAIN rs = 1 .. n, Shows(ms, rs)
    PROVE  /\ Assess(ms, rs) = Detect(rs)
           /\ Len(ToolIds(ms)) = n
           /\ LinkageComplete(ms) <=> ~Unanswered(ms, n)
<1> DEFINE tools == ToolIds(ms)
           calls == AssistantIds(ms)
           last == ms[2 * n + 1].id
<1>1. /\ n \in Nat /\ \A k \in 1 .. n : id[k] \in Nat \ {0}
      /\ \A k, l \in 1 .. n : k < l => id[k] < id[l]
      /\ Unanswered(ms, n) => last \in Nat /\ \A k \in 1 .. n : id[k] < last
  BY DEF Paired, Unanswered
<1>2. /\ DOMAIN tools = 1 .. n /\ \A k \in 1 .. n : tools[k] = id[k]
      /\ Len(tools) = n
  <2>1. tools = [k \in 1 .. n |-> id[k]]
    BY PairedIds
  <2>2. QED
    BY <1>1, <2>1
<1>3. Distinct(tools)
  BY <1>1, <1>2 DEF Distinct
<1>4. ASSUME NEW k \in DOMAIN rs, NEW i \in DOMAIN ms,
             ms[i].role = "assistant", ms[i].id = tools[k]
      PROVE  IsResultOf(rs[k], ms[i].call)
  <2>1. k \in 1 .. n /\ ms[i].id = id[k] /\ id[k] # 0
    BY <1>1, <1>2, <1>4
  <2>2. i \in 1 .. 2 * n + 1 /\ (i = 2 * n + 1 => Len(ms) = 2 * n + 1)
    BY PairedDomain
  <2>3. i # 2 * n + 1
    BY <1>1, <2>1, <2>2 DEF Unanswered
  <2>4. PICK j \in 1 .. n : i = 2 * j - 1 \/ i = 2 * j
    BY <1>1, <2>2, <2>3, Positions
  <2>5. /\ ms[2 * j - 1].id = id[j]
        /\ ms[2 * j].role = "tool"
    BY DEF Paired
  <2>6. i = 2 * j - 1 /\ id[j] = id[k]
    BY <1>4, <2>1, <2>4, <2>5
  <2>7. j = k
    BY <1>1, <2>1, <2>6
  <2>8. QED
    BY <2>6, <2>7 DEF Shows
<1>5. CASE Unanswered(ms, n)
  <2>1. calls = [k \in 1 .. n + 1 |-> IF k = n + 1 THEN last ELSE id[k]]
    BY <1>5, PairedIds
  <2>2. /\ DOMAIN calls = 1 .. n + 1 /\ n + 1 \in 1 .. n + 1 /\ calls[n + 1] = last
        /\ \A k \in 1 .. n : k \in 1 .. n + 1 /\ calls[k] = id[k]
        /\ \A k \in 1 .. n + 1 : k = n + 1 \/ k \in 1 .. n
    BY <1>1, <2>1
  <2> HIDE DEF calls, tools, last
  <2>3. Distinct(calls)
    BY <1>1, <1>5, <2>2 DEF Distinct
  <2>4. Members(tools) \subseteq Members(calls)
    BY <1>2, <2>2 DEF Members
  <2>5. last \in Members(calls) /\ last \notin Members(tools)
    BY <1>1, <1>2, <1>5, <2>2 DEF Members
  <2>6. QED
    BY <1>2, <1>3, <1>4, <1>5, <2>3, <2>4, <2>5 DEF Assess, EvidenceAligned, LinkageComplete, tools, calls
<1>6. CASE ~Unanswered(ms, n)
  <2>1. calls = tools
    BY <1>6, PairedIds
  <2>2. QED
    BY <1>2, <1>3, <1>4, <1>6, <2>1 DEF Assess, EvidenceAligned, LinkageComplete
<1>7. QED
  BY <1>5, <1>6
\* What the loop keeps: the ids count the results, and while it runs no message
\* stands without a result.
Count(n) == [k \in 1 .. n |-> k]
MessagesInv ==
    /\ Paired(messages, Count(Len(results)), Len(results))
    /\ Shows(messages, results)
    /\ status = "running" => Len(messages) = 2 * Len(results)
    /\ Len(messages) = 2 * Len(results) + 1 =>
            messages[Len(messages)].id \in {0, Len(results) + 1}

\* A message more ends the loop.
LEMMA PairedLast ==
    ASSUME LoopInv, MessagesInv, status = "running", UNCHANGED results, status' # "running",
           NEW call \in Call \cup {NoCall}, NEW z \in {0, Len(results) + 1},
           messages' = Append(messages, Says(call, z))
    PROVE  MessagesInv'
<1> DEFINE n == Len(results)
           id == Count(n)
           more == messages'
<1>1. /\ messages \in Seq(Message) /\ n \in Nat /\ Paired(messages, id, n)
      /\ Len(messages) = 2 * n /\ z \in Nat
  BY DEF LoopInv, LoopTypeOK, MessagesInv
<1>2. /\ DOMAIN more = 1 .. 2 * n + 1 /\ Len(more) = 2 * n + 1
      /\ \A i \in 1 .. 2 * n : more[i] = messages[i]
      /\ more[2 * n + 1] = Says(call, z)
  <2>1. Says(call, z) \in Message
    BY <1>1, MessageType
  <2>2. QED
    BY <1>1, <2>1
<1>3. more[2 * n + 1].role = "assistant" /\ more[2 * n + 1].id = z
  BY <1>2 DEF Says
<1>4. \A k \in 1 .. n : id[k] = k
  BY DEF Count
<1> HIDE DEF id, more
<1>5. \A k \in 1 .. n : 2 * k \in 1 .. 2 * n /\ 2 * k - 1 \in 1 .. 2 * n
  BY <1>1
<1>6. \A k \in 1 .. n : more[2 * k] = messages[2 * k] /\ more[2 * k - 1] = messages[2 * k - 1]
  BY <1>2, <1>5
<1>7. z = 0 \/ \A k \in 1 .. n : id[k] < z
  BY <1>1, <1>4
<1>8. Paired(more, id, n)
  <2>1. \A k \in 1 .. n : /\ id[k] \in Nat \ {0}
                          /\ messages[2 * k - 1].role = "assistant"
                          /\ messages[2 * k - 1].id = id[k]
                          /\ messages[2 * k].role = "tool" /\ messages[2 * k].id = id[k]
    BY <1>1 DEF Paired
  <2>2. \A k \in 1 .. n : /\ id[k] \in Nat \ {0}
                          /\ more[2 * k - 1].role = "assistant"
                          /\ more[2 * k - 1].id = id[k]
                          /\ more[2 * k].role = "tool" /\ more[2 * k].id = id[k]
    BY <1>6, <2>1
  <2>3. \A k, l \in 1 .. n : k < l => id[k] < id[l]
    BY <1>4
  <2>4. Len(more) \in {2 * n, 2 * n + 1} /\ DOMAIN more = 1 .. Len(more)
    BY <1>2
  <2>5. Len(more) = 2 * n + 1 =>
            /\ more[2 * n + 1].role = "assistant" /\ more[2 * n + 1].id \in Nat
            /\ more[2 * n + 1].id = 0 \/ (\A k \in 1 .. n : id[k] < more[2 * n + 1].id)
    BY <1>1, <1>3, <1>7
  <2>6. QED
    BY <1>1, <2>2, <2>3, <2>4, <2>5 DEF Paired
<1>9. Shows(more, results)
  BY <1>1, <1>6 DEF MessagesInv, Shows
<1>10. QED
  BY <1>1, <1>2, <1>3, <1>8, <1>9 DEF MessagesInv, id, more

\* A call and its result come in a pair.
LEMMA PairedNext ==
    ASSUME LoopInv, MessagesInv, status = "running",
           NEW call \in Call, NEW outcome, RunsInto(call, outcome)
    PROVE  MessagesInv'
<1> DEFINE n == Len(results)
           id == Count(n)
           next == Count(n + 1)
           more == messages'
<1>0. PICK S : results \in Seq(S)
  BY DEF LoopInv
<1>1. /\ messages \in Seq(Message) /\ n \in Nat /\ Paired(messages, id, n)
      /\ Len(messages) = 2 * n /\ Len(results') = n + 1
  BY <1>0 DEF LoopInv, LoopTypeOK, MessagesInv, RunsInto
<1>2. /\ DOMAIN more = 1 .. 2 * n + 2 /\ Len(more) = 2 * n + 2
      /\ \A i \in 1 .. 2 * n : more[i] = messages[i]
      /\ more[2 * n + 1] = Says(call, n + 1) /\ more[2 * n + 2] = Observes(n + 1)
  <2> DEFINE len == Len(messages)
             says == Says(call, n + 1)
             observes == Observes(n + 1)
  <2>1. says \in Message /\ observes \in Message
    BY <1>1, MessageType
  <2>2. more = messages \o <<says, observes>>
    BY DEF RunsInto, ToolCallId
  <2> HIDE DEF says, observes
  <2>3. /\ DOMAIN more = 1 .. len + 2 /\ Len(more) = len + 2
        /\ \A i \in 1 .. len : more[i] = messages[i]
        /\ more[len + 1] = says /\ more[len + 2] = observes
    BY <1>1, <2>1, <2>2
  <2>4. len = 2 * n
    BY <1>1
  <2> HIDE DEF len
  <2>5. QED
    BY <2>3, <2>4 DEF says, observes
<1>3. /\ more[2 * n + 1].role = "assistant" /\ more[2 * n + 1].id = n + 1
      /\ more[2 * n + 2].role = "tool" /\ more[2 * n + 2].id = n + 1
      /\ more[2 * n + 1].call = call
  BY <1>2 DEF Says, Observes
<1>4. /\ \A k \in 1 .. n : id[k] = k
      /\ \A k \in 1 .. n + 1 : next[k] = k
  BY DEF Count
<1> HIDE DEF id, next, more
<1>5. ASSUME NEW k \in 1 .. n + 1
      PROVE  /\ next[k] \in Nat \ {0}
             /\ more[2 * k - 1].role = "assistant" /\ more[2 * k - 1].id = next[k]
             /\ more[2 * k].role = "tool" /\ more[2 * k].id = next[k]
  <2>1. CASE k = n + 1
    <3>1. 2 * k - 1 = 2 * n + 1 /\ 2 * k = 2 * n + 2 /\ next[k] = n + 1
      BY <1>1, <1>4, <2>1
    <3>2. more[2 * k - 1] = more[2 * n + 1] /\ more[2 * k] = more[2 * n + 2]
      BY <3>1
    <3>3. n + 1 \in Nat \ {0}
      BY <1>1
    <3>4. QED
      BY <1>3, <3>1, <3>2, <3>3
  <2>2. CASE k \in 1 .. n
    <3>1. 2 * k \in 1 .. 2 * n /\ 2 * k - 1 \in 1 .. 2 * n /\ next[k] = k /\ id[k] = k
      BY <1>1, <1>4, <2>2
    <3>2. more[2 * k] = messages[2 * k] /\ more[2 * k - 1] = messages[2 * k - 1]
      BY <1>2, <3>1
    <3>3. QED
      BY <1>1, <2>2, <3>1, <3>2 DEF Paired
  <2>3. QED
    BY <1>1, <2>1, <2>2
<1>6. Paired(more, next, n + 1)
  <2>1. /\ n + 1 \in Nat /\ Len(more) \in {2 * (n + 1), 2 * (n + 1) + 1}
        /\ DOMAIN more = 1 .. Len(more) /\ Len(more) # 2 * (n + 1) + 1
    BY <1>1, <1>2
  <2>2. \A k, l \in 1 .. n + 1 : k < l => next[k] < next[l]
    BY <1>4
  <2>3. QED
    BY <1>5, <2>1, <2>2 DEF Paired
<1>7. Shows(more, results')
  <2> DEFINE result == ToolResult(call, ws, outcome)
             rs == results'
  <2>1. result.call = call
    BY DEF ToolResult
  <2>2. rs = Append(results, result)
    BY DEF RunsInto
  <2> HIDE DEF result
  <2>3. Len(rs) = n + 1 /\ rs[n + 1] = result /\ \A k \in 1 .. n : rs[k] = results[k]
    BY <1>0, <1>1, <2>2
  <2> HIDE DEF rs
  <2>4. \A k \in 1 .. n : IsResultOf(results[k], messages[2 * k - 1].call)
    BY DEF MessagesInv, Shows
  <2>5. ASSUME NEW k \in 1 .. n + 1 PROVE IsResultOf(rs[k], more[2 * k - 1].call)
    <3>1. CASE k = n + 1
      <4>1. 2 * k - 1 = 2 * n + 1
        BY <1>1, <3>1
      <4>2. QED
        BY <1>3, <2>1, <2>3, <3>1, <4>1 DEF IsResultOf
    <3>2. CASE k \in 1 .. n
      <4>1. 2 * k - 1 \in 1 .. 2 * n
        BY <1>1, <3>2
      <4>2. more[2 * k - 1] = messages[2 * k - 1]
        BY <1>2, <4>1
      <4>3. QED
        BY <2>3, <2>4, <3>2, <4>2
    <3>3. QED
      BY <1>1, <3>1, <3>2
  <2>6. QED
    BY <2>3, <2>5 DEF Shows, rs
<1>8. QED
  BY <1>1, <1>2, <1>6, <1>7 DEF MessagesInv, next, more

\* It holds of a loop that starts.
LEMMA MessagesInvInit == LoopInit => MessagesInv
<1> SUFFICES ASSUME LoopInit PROVE MessagesInv
  OBVIOUS
<1>1. Len(results) = 0 /\ Len(messages) = 0 /\ DOMAIN messages = 1 .. 0
  BY DEF LoopInit
<1>2. QED
  BY <1>1 DEF MessagesInv, Paired, Shows

\* Every step of the loop keeps it.
LEMMA MessagesInvStep ==
    ASSUME LoopInv, MessagesInv, [Turn]_loopVars
    PROVE  MessagesInv'
<1>1. CASE UNCHANGED loopVars
  BY <1>1 DEF loopVars, MessagesInv
<1>2. CASE GenerateRaises
  BY <1>2 DEF GenerateRaises, StartTurn, MessagesInv
<1>3. CASE AnswerEndsLoop
  BY <1>3, PairedLast DEF AnswerEndsLoop, StartTurn
<1>4. CASE PrivateCall
  BY <1>4, PairedLast DEF PrivateCall, StartTurn
<1>5. CASE HashFails
  BY <1>5, PairedLast DEF HashFails, StartTurn, ToolCallId
<1>6. CASE RunTool
  BY <1>6, RunToolTakesCall, PairedNext DEF RunTool, StartTurn
<1>7. QED
  BY <1>1, <1>2, <1>3, <1>4, <1>5, <1>6 DEF Turn

-----------------------------------------------------------------------------
(***************************************************************************)
(* The repair.  What it deletes is what is redundant, pair by pair; what   *)
(* it leaves is paired as it was.                                          *)
(***************************************************************************)
\* The ids that are deleted are the numbers of the redundant calls.
LEMMA DeletedIds ==
    ASSUME LoopInv, MessagesInv, Detect(results).complete
    PROVE  /\ RedundantIds(messages, results) = Redundant(results)
           /\ BaselineIds(messages, results) \subseteq 1 .. Len(results)
           /\ \A i \in 1 .. Len(results) : ToolIds(messages)[i] = i
           /\ Assess(messages, results) = Detect(results)
<1> DEFINE n == Len(results)
<1>1. /\ n \in Nat /\ Paired(messages, Count(n), n)
      /\ DOMAIN results = 1 .. n /\ Shows(messages, results)
  BY DEF LoopInv, MessagesInv
<1>2. \A i \in 1 .. n : ToolIds(messages)[i] = i
  BY <1>1, PairedIds DEF Count
<1>3. Assess(messages, results) = Detect(results)
  BY <1>1, PairedEvidence
<1>4. Detect(results).blocks = RunsFrom(results, 1)
  BY <1>1, CompleteDetection
<1>5. UNION {b[1] + 1 .. b[2] : b \in Detect(results).blocks} = Redundant(results)
  BY <1>1, <1>4, BlocksCover
<1>6. RedundantIds(messages, results) = {ToolIds(messages)[i] : i \in Redundant(results)}
  BY <1>3, <1>5 DEF RedundantIds
<1>7. Redundant(results) \subseteq 1 .. n
  BY DEF Redundant
<1>8. {ToolIds(messages)[i] : i \in Redundant(results)} = Redundant(results)
  BY <1>2, <1>7
<1>9. \A b \in Detect(results).blocks : b[1] \in 1 .. n
  BY <1>4 DEF RunsFrom
<1>10. BaselineIds(messages, results) \subseteq 1 .. n
  BY <1>2, <1>3, <1>9 DEF BaselineIds
<1>11. QED
  BY <1>2, <1>3, <1>6, <1>8, <1>10

\* A call and its result are next to each other, and no other message has their id.
LEMMA PairsStand ==
    ASSUME LoopInv, MessagesInv, NEW ids, ids \subseteq 1 .. Len(results)
    PROVE  PairsAdjacent(messages, ids)
<1> DEFINE n == Len(results)
<1>1. /\ n \in Nat /\ Paired(messages, Count(n), n)
      /\ \A k \in 1 .. n : Count(n)[k] = k
      /\ Len(messages) = 2 * n + 1 => messages[2 * n + 1].id \in {0, n + 1}
  BY DEF LoopInv, MessagesInv, Count
<1>2. SUFFICES ASSUME NEW id \in 1 .. n
      PROVE  \E i \in DOMAIN messages :
                /\ {j \in DOMAIN messages : messages[j].id = id} = {i, i + 1}
                /\ messages[i].role = "assistant" /\ messages[i + 1].role = "tool"
  BY DEF PairsAdjacent
<1> DEFINE i == 2 * id - 1
<1>3. /\ i \in DOMAIN messages /\ i + 1 = 2 * id /\ 2 * id \in DOMAIN messages
      /\ DOMAIN messages \subseteq 1 .. 2 * n + 1
      /\ 2 * n + 1 \in DOMAIN messages => Len(messages) = 2 * n + 1
  BY <1>1, PairedDomain
<1>4. /\ messages[i].role = "assistant" /\ messages[i].id = id
      /\ messages[2 * id].role = "tool" /\ messages[2 * id].id = id
  BY <1>1 DEF Paired
<1>5. ASSUME NEW j \in DOMAIN messages, messages[j].id = id PROVE j = i \/ j = 2 * id
  <2>1. j = 2 * n + 1 \/ \E k \in 1 .. n : j = 2 * k - 1 \/ j = 2 * k
    BY <1>1, <1>3, Positions
  <2>2. j # 2 * n + 1
    BY <1>1, <1>3, <1>5
  <2>3. PICK k \in 1 .. n : j = 2 * k - 1 \/ j = 2 * k
    BY <2>1, <2>2
  <2>4. messages[j].id = k
    BY ZenonT(30), <1>1, <2>3 DEF Paired
  <2>5. QED
    BY <1>5, <2>3, <2>4
<1> HIDE DEF i
<1>6. QED
  BY <1>3, <1>4, <1>5
\* The l-th call that is left is call g[l].
CallsFrom(left, ms, g, m) == \A l \in 1 .. m : left[2 * l - 1] = ms[2 * g[l] - 1]

Without(ms, R) == At(ms, {i \in DOMAIN ms : ms[i].id \notin R})

\* The messages that are left are those of the calls that are kept, and the last
\* one if it stands alone.
LEMMA LeftMessages ==
    ASSUME NEW ms, NEW n \in Nat, Paired(ms, Count(n), n),
           Len(ms) = 2 * n + 1 => ms[2 * n + 1].id \in {0, n + 1},
           NEW R, R \subseteq 1 .. n, NEW g, NEW m \in Nat, Lists(g, m, (1 .. n) \ R)
    PROVE  /\ Paired(Without(ms, R), g, m)
           /\ Unanswered(Without(ms, R), m) <=> Unanswered(ms, n)
           /\ CallsFrom(Without(ms, R), ms, g, m)
<1> DEFINE P == {i \in DOMAIN ms : ms[i].id \notin R}
           single == Len(ms) = 2 * n + 1
           len == IF single THEN 2 * m + 1 ELSE 2 * m
           h == [k \in 1 .. len |->
                    IF k = 2 * m + 1 THEN 2 * n + 1
                    ELSE IF k % 2 = 0 THEN 2 * g[k \div 2] ELSE 2 * g[(k + 1) \div 2] - 1]
<1>0. SUFFICES ASSUME NEW left, left = At(ms, P)
               PROVE  /\ Paired(left, g, m)
                      /\ Unanswered(left, m) <=> Unanswered(ms, n)
                      /\ CallsFrom(left, ms, g, m)
  BY DEF Without
<1>1. /\ n \in Nat /\ m \in Nat
      /\ DOMAIN ms \subseteq 1 .. 2 * n + 1 /\ DOMAIN ms \subseteq Nat
      /\ \A k \in 1 .. n : 2 * k - 1 \in DOMAIN ms /\ 2 * k \in DOMAIN ms
      /\ 2 * n + 1 \in DOMAIN ms <=> single
  BY PairedDomain DEF Lists
<1>2. \A k \in 1 .. n : /\ ms[2 * k - 1].role = "assistant" /\ ms[2 * k - 1].id = k
                        /\ ms[2 * k].role = "tool" /\ ms[2 * k].id = k
  BY DEF Paired, Count
<1>3. single => /\ ms[2 * n + 1].role = "assistant" /\ ms[2 * n + 1].id \in {0, n + 1}
  BY DEF Paired
<1>4. /\ \A l \in 1 .. m : g[l] \in 1 .. n /\ g[l] \notin R
      /\ \A k, l \in 1 .. m : k < l => g[k] < g[l]
      /\ \A k \in (1 .. n) \ R : \E l \in 1 .. m : g[l] = k
  BY DEF Lists
<1>5. /\ len \in Nat /\ DOMAIN h = 1 .. len
      /\ \A l \in 1 .. m : /\ 2 * l - 1 \in 1 .. len /\ h[2 * l - 1] = 2 * g[l] - 1
                           /\ 2 * l \in 1 .. len /\ h[2 * l] = 2 * g[l]
      /\ single => 2 * m + 1 \in 1 .. len /\ h[2 * m + 1] = 2 * n + 1
      /\ \A k \in 1 .. len : k \in 1 .. 2 * m + 1 /\ (k = 2 * m + 1 => single)
  <2>1. /\ len \in Nat /\ DOMAIN h = 1 .. len
        /\ \A k \in 1 .. len : k \in 1 .. 2 * m + 1 /\ (k = 2 * m + 1 => single)
        /\ single => 2 * m + 1 \in 1 .. len
    BY <1>1
  <2>2. single => h[2 * m + 1] = 2 * n + 1
    BY <2>1
  <2>3. ASSUME NEW l \in 1 .. m
        PROVE  /\ 2 * l - 1 \in 1 .. len /\ h[2 * l - 1] = 2 * g[l] - 1
               /\ 2 * l \in 1 .. len /\ h[2 * l] = 2 * g[l]
    <3>1. /\ 2 * l - 1 \in 1 .. len /\ 2 * l \in 1 .. len
          /\ 2 * l - 1 # 2 * m + 1 /\ 2 * l # 2 * m + 1
      BY <1>1
    <3>2. /\ (2 * l) % 2 = 0 /\ (2 * l - 1) % 2 # 0
          /\ (2 * l) \div 2 = l /\ ((2 * l - 1) + 1) \div 2 = l
      BY <1>1
    <3>3. QED
      BY <3>1, <3>2
  <2>4. QED
    BY <2>1, <2>2, <2>3
<1> HIDE DEF h, len
<1>6. \A k \in 1 .. len : \/ k = 2 * m + 1 /\ single
                          \/ \E l \in 1 .. m : k = 2 * l - 1 \/ k = 2 * l
  BY <1>1, <1>5, Positions
<1>7. ASSUME NEW k \in 1 .. len PROVE h[k] \in P
  <2>1. CASE k = 2 * m + 1 /\ single
    <3>1. h[k] = 2 * n + 1 /\ 2 * n + 1 \in DOMAIN ms /\ ms[2 * n + 1].id \notin R
      BY <1>1, <1>3, <1>5, <2>1
    <3>2. QED
      BY <3>1
  <2>2. ASSUME NEW l \in 1 .. m, k = 2 * l - 1 \/ k = 2 * l PROVE h[k] \in P
    <3>1. h[k] = 2 * g[l] - 1 \/ h[k] = 2 * g[l]
      BY <1>5, <2>2
    <3>2. g[l] \in 1 .. n /\ g[l] \notin R
      BY <1>4
    <3>3. 2 * g[l] - 1 \in P /\ 2 * g[l] \in P
      BY <1>1, <1>2, <3>2
    <3> HIDE DEF P
    <3>4. QED
      BY <3>1, <3>3
  <2>3. QED
    BY <1>6, <2>1, <2>2
<1>8. ASSUME NEW k \in 1 .. len, NEW l \in 1 .. len, k < l PROVE h[k] < h[l]
  <2>0. k # 2 * m + 1
    <3>1. l \in 1 .. 2 * m + 1 /\ k \in Nat
      BY <1>5
    <3>2. QED
      BY <1>1, <1>8, <3>1
  <2>1. PICK a \in 1 .. m : k = 2 * a - 1 \/ k = 2 * a
    BY <1>6, <2>0
  <2>2. /\ (h[k] = 2 * g[a] - 1 /\ k = 2 * a - 1) \/ (h[k] = 2 * g[a] /\ k = 2 * a)
        /\ g[a] \in 1 .. n
    BY <1>4, <1>5, <2>1
  <2>3. CASE l = 2 * m + 1 /\ single
    BY SMTT(30), <1>1, <1>5, <2>2, <2>3
  <2>4. ASSUME NEW b \in 1 .. m, l = 2 * b - 1 \/ l = 2 * b PROVE h[k] < h[l]
    <3>1. /\ (h[l] = 2 * g[b] - 1 /\ l = 2 * b - 1) \/ (h[l] = 2 * g[b] /\ l = 2 * b)
          /\ g[b] \in 1 .. n
      BY <1>4, <1>5, <2>4
    <3>2. a = b \/ a < b
      BY <1>1, <1>8, <2>1, <2>4
    <3>3. CASE a = b
      BY SMTT(30), <1>1, <1>8, <2>2, <3>1, <3>3
    <3>4. CASE a < b
      <4>1. g[a] < g[b] /\ g[a] \in Nat /\ g[b] \in Nat
        BY SMTT(30), <1>4, <2>2, <3>1, <3>4
      <4>2. h[k] \in {2 * g[a] - 1, 2 * g[a]} /\ h[l] \in {2 * g[b] - 1, 2 * g[b]}
        BY <2>2, <3>1
      <4> DEFINE x == g[a]
                 y == g[b]
      <4>3. x < y /\ x \in Nat /\ y \in Nat
        BY <4>1
      <4>4. h[k] \in {2 * x - 1, 2 * x} /\ h[l] \in {2 * y - 1, 2 * y}
        BY <4>2
      <4> HIDE DEF x, y
      <4>5. QED
        BY <4>3, <4>4
    <3>5. QED
      BY <3>2, <3>3, <3>4
  <2>5. QED
    BY <1>6, <2>3, <2>4
<1>9. ASSUME NEW i \in P PROVE \E k \in 1 .. len : h[k] = i
  <2>1. i \in 1 .. 2 * n + 1 /\ i \in DOMAIN ms /\ ms[i].id \notin R
    BY <1>1
  <2>2. CASE i = 2 * n + 1
    BY <1>1, <1>5, <2>1, <2>2
  <2>3. ASSUME NEW k \in 1 .. n, i = 2 * k - 1 \/ i = 2 * k
        PROVE  \E x \in 1 .. len : h[x] = i
    <3>1. k \in (1 .. n) \ R
      BY <1>2, <2>1, <2>3
    <3>2. PICK l \in 1 .. m : g[l] = k
      BY <1>4, <3>1
    <3>3. QED
      BY <1>5, <2>3, <3>2
  <2>4. QED
    BY <1>1, <2>1, <2>2, <2>3, Positions
<1>10. Lists(h, len, P)
  <2>1. P \subseteq Nat
    BY <1>1
  <2> HIDE DEF P
  <2>2. QED
    BY <1>5, <1>7, <1>8, <1>9, <2>1 DEF Lists
<1>11. /\ DOMAIN left = 1 .. len /\ Len(left) = len
       /\ \A k \in 1 .. len : left[k] = ms[h[k]]
  <2> HIDE DEF P
  <2>1. Cardinality(P) = len /\ \A k \in 1 .. len : Nth(P, k) = h[k]
    BY <1>10, NthListed
  <2>2. left = [k \in 1 .. len |-> ms[Nth(P, k)]]
    BY <1>0, <2>1 DEF At
  <2>3. QED
    BY <1>5, <2>1, <2>2
<1> HIDE DEF P
<1>12. ASSUME NEW l \in 1 .. m
       PROVE  /\ g[l] \in Nat \ {0}
              /\ left[2 * l - 1].role = "assistant" /\ left[2 * l - 1].id = g[l]
              /\ left[2 * l].role = "tool" /\ left[2 * l].id = g[l]
  <2>1. left[2 * l - 1] = ms[2 * g[l] - 1] /\ left[2 * l] = ms[2 * g[l]] /\ g[l] \in 1 .. n
    BY <1>4, <1>5, <1>11
  <2> DEFINE x == g[l]
  <2>2. x \in 1 .. n /\ left[2 * l - 1] = ms[2 * x - 1] /\ left[2 * l] = ms[2 * x]
    BY <2>1
  <2> HIDE DEF x
  <2>3. /\ x \in Nat \ {0}
        /\ left[2 * l - 1].role = "assistant" /\ left[2 * l - 1].id = x
        /\ left[2 * l].role = "tool" /\ left[2 * l].id = x
    BY <1>2, <2>2
  <2>4. QED
    BY <2>3 DEF x
<1>13. single => left[2 * m + 1] = ms[2 * n + 1] /\ Len(left) = 2 * m + 1
  BY <1>5, <1>11 DEF len
<1>14. ~single => Len(left) = 2 * m /\ Len(left) # 2 * m + 1
  BY <1>1, <1>11 DEF len
<1>15. /\ Len(left) \in {2 * m, 2 * m + 1} /\ DOMAIN left = 1 .. Len(left)
       /\ Len(left) = 2 * m + 1 => single
  BY <1>11, <1>13, <1>14
<1>16. Len(left) = 2 * m + 1 =>
            /\ left[2 * m + 1].role = "assistant" /\ left[2 * m + 1].id \in Nat
            /\ left[2 * m + 1].id = 0 \/ (\A l \in 1 .. m : g[l] < left[2 * m + 1].id)
  BY <1>1, <1>3, <1>4, <1>13, <1>15
<1>17. Paired(left, g, m)
  BY <1>1, <1>4, <1>12, <1>15, <1>16 DEF Paired
<1>18. Unanswered(left, m) <=> Unanswered(ms, n)
  BY <1>13, <1>14 DEF Unanswered
<1>19. CallsFrom(left, ms, g, m)
  BY <1>5, <1>11 DEF CallsFrom
<1>20. QED
  BY <1>17, <1>18, <1>19
\* A repair keeps the calls that are not redundant, and numbers nothing anew.
LEMMA RepairKeeps ==
    ASSUME LoopInv, MessagesInv, Detect(results).complete
    PROVE  \E g, m :
            /\ Lists(g, m, Kept(results))
            /\ Len(RepairedResults(messages, results)) = m
            /\ DOMAIN RepairedResults(messages, results) = 1 .. m
            /\ \A l \in 1 .. m : RepairedResults(messages, results)[l] = results[g[l]]
            /\ Paired(RepairedMessages(messages, results), g, m)
            /\ Shows(RepairedMessages(messages, results), RepairedResults(messages, results))
            /\ Unanswered(RepairedMessages(messages, results), m)
                    <=> Unanswered(messages, Len(results))
<1> DEFINE n == Len(results)
           K == Kept(results)
           m == Cardinality(K)
           g == [l \in 1 .. m |-> Nth(K, l)]
           rs == RepairedResults(messages, results)
<1>0. PICK S : results \in Seq(S)
  BY DEF LoopInv
<1>1. n \in Nat /\ DOMAIN results = 1 .. n
  BY <1>0
<1>2. K \subseteq Nat /\ IsFiniteSet(K)
  <2>1. K \subseteq 1 .. n /\ IsFiniteSet(1 .. n)
    BY <1>1, FS_Interval DEF Kept
  <2>2. QED
    BY <1>1, <2>1, FS_Subset
<1>3. Lists(g, m, K) /\ m \in Nat
  <2> HIDE DEF K
  <2>1. QED
    BY <1>2, NthLists, FS_CardinalityType
<1>4. rs = At(results, K)
  <2>1. {i \in DOMAIN results : ToolIds(messages)[i] \notin RedundantIds(messages, results)} = K
    BY <1>1, DeletedIds DEF Kept
  <2>2. QED
    BY <2>1 DEF RepairedResults
<1>5. rs = [l \in 1 .. m |-> results[g[l]]]
  BY <1>4 DEF At
<1> HIDE DEF K, m, g, rs
<1>6. /\ Len(rs) = m /\ DOMAIN rs = 1 .. m
      /\ \A l \in 1 .. m : rs[l] = results[g[l]]
  BY <1>3, <1>5
<1>7. /\ Paired(RepairedMessages(messages, results), g, m)
      /\ Unanswered(RepairedMessages(messages, results), m) <=> Unanswered(messages, n)
      /\ CallsFrom(RepairedMessages(messages, results), messages, g, m)
  <2>1. /\ Paired(messages, Count(n), n)
        /\ Len(messages) = 2 * n + 1 => messages[2 * n + 1].id \in {0, n + 1}
    BY DEF MessagesInv
  <2>2. Redundant(results) \subseteq 1 .. n /\ K = (1 .. n) \ Redundant(results)
    BY DEF Kept, Redundant, K
  <2>3. RedundantIds(messages, results) = Redundant(results)
    BY DeletedIds
  <2> DEFINE R == Redundant(results)
  <2>4. R \subseteq 1 .. n /\ Lists(g, m, (1 .. n) \ R)
    BY <1>3, <2>2
  <2>5. RepairedMessages(messages, results) = Without(messages, R)
    BY <2>3 DEF RepairedMessages, Without
  <2> HIDE DEF R, n
  <2>6. /\ Paired(Without(messages, R), g, m)
        /\ Unanswered(Without(messages, R), m) <=> Unanswered(messages, n)
        /\ CallsFrom(Without(messages, R), messages, g, m)
    BY <1>1, <1>3, <2>1, <2>4, LeftMessages
  <2>7. QED
    BY <2>5, <2>6 DEF n
<1>8. Shows(RepairedMessages(messages, results), rs)
  <2>1. \A l \in 1 .. m : g[l] \in 1 .. n
    BY <1>3 DEF Lists, K, Kept
  <2>2. \A k \in 1 .. n : IsResultOf(results[k], messages[2 * k - 1].call)
    BY DEF MessagesInv, Shows
  <2>3. QED
    BY <1>6, <1>7, <2>1, <2>2 DEF Shows, CallsFrom
<1>9. QED
  BY <1>3, <1>6, <1>7, <1>8 DEF K, m, g, rs

\* One deletion is enough.
LEMMA Converges ==
    ASSUME LoopInv, MessagesInv
    PROVE  RepairConverges
<1> SUFFICES ASSUME Repairable(messages, results)
             PROVE  RepairCompletes(messages, results) <=> LinkageComplete(messages)
  BY DEF RepairConverges
<1> DEFINE n == Len(results)
           ms == RepairedMessages(messages, results)
           rs == RepairedResults(messages, results)
<1>1. /\ n \in Nat /\ Paired(messages, Count(n), n)
      /\ DOMAIN results = 1 .. n /\ Shows(messages, results)
  BY DEF LoopInv, MessagesInv
<1>2. /\ Assess(messages, results) = Detect(results)
      /\ Len(ToolIds(messages)) = n
      /\ LinkageComplete(messages) <=> ~Unanswered(messages, n)
  BY <1>1, PairedEvidence
<1>3. Detect(results).complete
  BY <1>2 DEF Repairable
<1>4. PICK g, m : /\ Lists(g, m, Kept(results))
                  /\ Len(rs) = m /\ DOMAIN rs = 1 .. m
                  /\ \A l \in 1 .. m : rs[l] = results[g[l]]
                  /\ Paired(ms, g, m) /\ Shows(ms, rs)
                  /\ Unanswered(ms, m) <=> Unanswered(messages, n)
  BY <1>3, RepairKeeps
<1>5. /\ Assess(ms, rs) = Detect(rs)
      /\ LinkageComplete(ms) <=> ~Unanswered(messages, n)
  BY <1>4, PairedEvidence
<1>6. Detect(rs) = NoBlocks
  <2> HIDE DEF rs
  <2>1. QED
    BY <1>1, <1>3, <1>4, KeptIsFree
<1>7. PairsAdjacent(messages, RedundantIds(messages, results) \cup BaselineIds(messages, results))
  <2>1. RedundantIds(messages, results) \cup BaselineIds(messages, results) \subseteq 1 .. n
    BY <1>3, DeletedIds DEF Redundant
  <2>2. QED
    BY <2>1, PairsStand
<1>8. QED
  BY <1>2, <1>5, <1>6, <1>7 DEF RepairCompletes, Deletable

\* What is left could have happened.
LEMMA Replayable ==
    ASSUME LoopInv, MessagesInv, HashChain
    PROVE  RepairReplayable
<1> SUFFICES ASSUME RepairCompletes(messages, results)
             PROVE  LET rs == RepairedResults(messages, results) IN
                    /\ \A i \in DOMAIN rs :
                        rs[i].before = IF i = 1 THEN CanonicalHash(seed) ELSE rs[i - 1].after
                    /\ rs[Len(rs)].after = results[Len(results)].after
                    /\ Len(rs) + Cardinality(RedundantIds(messages, results)) = Len(results)
                    /\ \A b \in Detect(results).blocks : \A i \in b[1] + 1 .. b[2] :
                        /\ results[i].call = results[b[1]].call
                        /\ results[i].sees = results[b[1]].sees
                        /\ results[i].before = results[b[1]].after
  BY DEF RepairReplayable
<1> DEFINE n == Len(results)
           rs == RepairedResults(messages, results)
<1>0. PICK S : results \in Seq(S)
  BY DEF LoopInv
<1>1. /\ n \in Nat /\ DOMAIN results = 1 .. n
      /\ Paired(messages, Count(n), n) /\ Shows(messages, results)
      /\ \A k \in 1 .. n :
            results[k].before = IF k = 1 THEN CanonicalHash(seed) ELSE results[k - 1].after
  BY <1>0 DEF LoopInv, MessagesInv, HashChain
<1>2. Detect(results).complete /\ Detect(results).blocks # {}
  BY <1>1, PairedEvidence DEF RepairCompletes, Repairable
<1>3. Detect(results).blocks = RunsFrom(results, 1)
  BY <1>1, <1>2, CompleteDetection
<1>4. PICK g, m : /\ Lists(g, m, Kept(results))
                  /\ Len(rs) = m /\ DOMAIN rs = 1 .. m
                  /\ \A l \in 1 .. m : rs[l] = results[g[l]]
  BY <1>2, RepairKeeps
<1>5. /\ m \in Nat /\ \A l \in 1 .. m : g[l] \in Kept(results) /\ g[l] \in 1 .. n
      /\ \A k, l \in 1 .. m : k < l => g[k] < g[l]
  BY <1>4 DEF Lists, Kept
<1>6. n >= 1 /\ 1 \in Kept(results) /\ m \in 1 .. m /\ g[1] = 1
  <2>1. n >= 1
    BY <1>1, <1>2, <1>3 DEF RunsFrom
  <2>2. 1 \in Kept(results)
    BY <1>1, <2>1 DEF Kept, Redundant
  <2>3. m >= 1 /\ g[1] <= 1
    BY <1>4, <2>2, Neighbours
  <2>4. QED
    BY <1>5, <2>1, <2>2, <2>3
\* Up to the next call that is kept, and behind the last, all is redundant.
<1>7. ASSUME NEW l \in 1 .. m, NEW c \in g[l] .. n, l = m \/ (l < m /\ c < g[l + 1])
      PROVE  results[g[l]].after = results[c].after
  <2>1. g[l] \in 1 .. n
    BY <1>5
  <2>2. ASSUME NEW k \in g[l] + 1 .. c, k \notin Redundant(results) PROVE FALSE
    <3>1. k \in Kept(results) /\ k \in Nat /\ g[l] < k /\ k <= c
      BY <1>1, <2>1, <2>2 DEF Kept
    <3>2. CASE l = m
      <4>1. k <= g[m]
        BY <1>4, <3>1, Neighbours
      <4>2. QED
        BY <2>1, <3>1, <3>2, <4>1
    <3>3. CASE l < m /\ c < g[l + 1]
      <4>1. l \in 1 .. m - 1 /\ l + 1 \in 1 .. m
        BY <1>5, <3>3
      <4>2. g[l + 1] \in 1 .. n
        BY <1>5, <4>1
      <4>3. k < g[l + 1]
        BY <1>1, <2>1, <3>1, <3>3, <4>2
      <4>4. QED
        BY <1>4, <3>1, <4>1, <4>3, Neighbours
    <3>4. QED
      BY <1>7, <3>2, <3>3
  <2>3. QED
    BY <1>1, <2>1, <2>2, UpToNextKept
<1>8. ASSUME NEW l \in 1 .. m
      PROVE  rs[l].before = IF l = 1 THEN CanonicalHash(seed) ELSE rs[l - 1].after
  <2>1. rs[l] = results[g[l]] /\ g[l] \in 1 .. n
    BY <1>4, <1>5
  <2>2. CASE l = 1
    BY <1>1, <1>6, <2>1, <2>2
  <2>3. CASE l # 1
    <3> DEFINE p == l - 1
               c == g[l] - 1
    <3>1. p \in 1 .. m /\ p < m /\ p + 1 = l
      BY <1>5, <2>3
    <3>2. rs[p] = results[g[p]] /\ g[p] \in 1 .. n /\ g[p] < g[l]
      BY <1>4, <1>5, <3>1
    <3>3. c \in g[p] .. n /\ c < g[p + 1] /\ g[l] # 1
      BY <1>1, <2>1, <3>1, <3>2
    <3>4. results[g[p]].after = results[c].after
      BY <1>7, <3>1, <3>3
    <3>5. results[g[l]].before = results[c].after
      BY <1>1, <2>1, <3>3
    <3>6. QED
      BY <2>1, <2>3, <3>2, <3>4, <3>5
  <2>4. QED
    BY <2>2, <2>3
<1>9. rs[m].after = results[n].after
  <2>1. n \in g[m] .. n /\ rs[m] = results[g[m]]
    BY <1>1, <1>4, <1>5, <1>6
  <2>2. QED
    BY <1>6, <1>7, <2>1
<1>10. m + Cardinality(RedundantIds(messages, results)) = n
  <2> DEFINE R == Redundant(results)
  <2>1. RedundantIds(messages, results) = R
    BY <1>2, DeletedIds
  <2>2. R \subseteq 1 .. n /\ Kept(results) = (1 .. n) \ R
    BY DEF Redundant, Kept
  <2>3. IsFiniteSet(1 .. n) /\ Cardinality(1 .. n) = n
    BY SMTT(30), <1>1, FS_Interval
  <2>4. IsFiniteSet(R) /\ Cardinality(R) \in Nat
    BY <2>2, <2>3, FS_Subset, FS_CardinalityType
  <2>5. Cardinality(Kept(results)) = m
    BY <1>4, NthListed
  <2> HIDE DEF R
  <2>6. Cardinality((1 .. n) \ R) = Cardinality(1 .. n) - Cardinality((1 .. n) \cap R)
    BY <2>3, FS_Difference
  <2>7. (1 .. n) \cap R = R
    BY <2>2
  <2>8. m = n - Cardinality(R)
    BY <2>2, <2>3, <2>5, <2>6, <2>7
  <2>9. QED
    BY <1>1, <1>5, <2>1, <2>4, <2>8
<1>11. ASSUME NEW b \in Detect(results).blocks, NEW i \in b[1] + 1 .. b[2]
       PROVE  /\ results[i].call = results[b[1]].call
              /\ results[i].sees = results[b[1]].sees
              /\ results[i].before = results[b[1]].after
  <2>1. b[1] \in 1 .. n /\ b[2] \in 1 .. n /\ Run(results, 1, b[1], b[2])
    BY <1>3 DEF RunsFrom
  <2>2. Again(results[b[1]], results[i])
    BY <1>1, <2>1, InBlock
  <2>3. QED
    BY <2>2 DEF Again, SameSuccessfulCall, RepeatedObservationIsStable
<1>12. QED
  BY <1>4, <1>8, <1>9, <1>10, <1>11

-----------------------------------------------------------------------------
\* Whatever the model did and however long the loop ran, one deletion leaves a
\* transcript without redundancy, and it goes through unless a call is unanswered.
THEOREM OneDeletionIsEnough == LoopSpec => []RepairConverges
<1>1. LoopInv /\ MessagesInv /\ [Turn]_loopVars => LoopInv' /\ MessagesInv'
  BY LoopInvStep, MessagesInvStep
<1>2. LoopInv /\ MessagesInv => RepairConverges
  BY Converges
<1>3. QED
  BY LoopInvInit, MessagesInvInit, <1>1, <1>2, PTL DEF LoopSpec

\* What a repair leaves is a run that could have happened: the calls that are kept
\* follow one another from the seed to the same workspace, and what was deleted
\* had shown the model nothing new.
THEOREM RepairsAreReplayable == LoopSpec => []RepairReplayable
<1>1. LoopInv /\ MessagesInv /\ HashChain /\ [Turn]_loopVars
        => LoopInv' /\ MessagesInv' /\ HashChain'
  BY LoopInvStep, MessagesInvStep, HashChainStep
<1>2. LoopInv /\ MessagesInv /\ HashChain => RepairReplayable
  BY Replayable
<1>3. QED
  BY LoopInvInit, MessagesInvInit, HashChainInit, <1>1, <1>2, PTL DEF LoopSpec
=============================================================================
