----------------------- MODULE StepDefinitionsProofs ------------------------
(***************************************************************************)
(* Theorems about the three graph walks, for any number of steps and any   *)
(* dependencies.  Each walk has its loop invariant, and each loop invariant *)
(* implies what the walk answers when its queue is empty.                  *)
(***************************************************************************)
EXTENDS StepDefinitions, FiniteSetTheorems, SequenceTheorems, TLAPS

Graphs == [Keys -> SUBSET Keys]

LEMMA KeysFinite == IsFiniteSet(Keys) /\ Cardinality(Keys) = N
BY SizeAssumption, FS_Interval DEF Keys

LEMMA SubsetsFinite ==
  ASSUME NEW S, S \subseteq Keys
  PROVE  IsFiniteSet(S) /\ Cardinality(S) \in Nat
BY KeysFinite, FS_Subset, FS_CardinalityType

-----------------------------------------------------------------------------
(* Sequences. *)

Distinct(q) == \A i, j \in 1 .. Len(q) : q[i] = q[j] => i = j

LEMMA RangeIs ==
  ASSUME NEW q \in Seq(Keys)
  PROVE  Range(q) = {q[i] : i \in 1 .. Len(q)}
BY RangeEquality

LEMMA RangeEmpty == Range(<< >>) = {} /\ Distinct(<< >>)
BY DEF Range, Distinct

LEMMA HeadAndTail ==
  ASSUME NEW q \in Seq(Keys), q # << >>
  PROVE  /\ Head(q) \in Keys /\ Tail(q) \in Seq(Keys)
         /\ Range(q) = {Head(q)} \cup Range(Tail(q))
         /\ Distinct(q) => Distinct(Tail(q)) /\ Head(q) \notin Range(Tail(q))
<1>1. /\ Head(q) \in Keys /\ Tail(q) \in Seq(Keys)
      /\ Len(Tail(q)) = Len(q) - 1
      /\ \A i \in 1 .. Len(Tail(q)) : Tail(q)[i] = q[i + 1]
  BY HeadTailProperties
<1>2. PICK n \in Nat \ {0} : n = Len(q)
  BY EmptySeq
<1>3. Head(q) = q[1]
  OBVIOUS
<1>4. Range(q) = {q[i] : i \in 1 .. n} /\ Range(Tail(q)) = {Tail(q)[i] : i \in 1 .. (n - 1)}
  BY <1>1, <1>2, RangeIs
<1>5. \A i \in 1 .. (n - 1) : i + 1 \in 1 .. n /\ Tail(q)[i] = q[i + 1]
  BY <1>1, <1>2
<1>6. ASSUME NEW i \in 1 .. n, i # 1
      PROVE  i - 1 \in 1 .. (n - 1) /\ Tail(q)[i - 1] = q[i]
  <2>1. i - 1 \in 1 .. (n - 1) /\ (i - 1) + 1 = i
    BY <1>6
  <2> QED
    BY <2>1, <1>5
<1>7. Range(q) = {Head(q)} \cup Range(Tail(q))
  <2>1. Range(q) \subseteq {Head(q)} \cup Range(Tail(q))
    BY <1>3, <1>4, <1>6
  <2>2. {Head(q)} \cup Range(Tail(q)) \subseteq Range(q)
    <3>1. 1 \in 1 .. n
      OBVIOUS
    <3> QED
      BY <3>1, <1>3, <1>4, <1>5
  <2> QED
    BY <2>1, <2>2
<1>8. ASSUME Distinct(q) PROVE Distinct(Tail(q)) /\ Head(q) \notin Range(Tail(q))
  <2>1. \A i, j \in 1 .. n : q[i] = q[j] => i = j
    BY <1>2, <1>8 DEF Distinct
  <2>2. \A i \in 1 .. (n - 1) : Tail(q)[i] # q[1]
    <3> TAKE i \in 1 .. (n - 1)
    <3>1. i + 1 \in 1 .. n /\ 1 \in 1 .. n /\ i + 1 # 1
      OBVIOUS
    <3> QED
      BY <3>1, <2>1, <1>5
  <2>3. \A i, j \in 1 .. (n - 1) : Tail(q)[i] = Tail(q)[j] => i = j
    <3> TAKE i, j \in 1 .. (n - 1)
    <3>1. i + 1 \in 1 .. n /\ j + 1 \in 1 .. n /\ (i + 1 = j + 1 => i = j)
      OBVIOUS
    <3> QED
      BY <3>1, <2>1, <1>5
  <2> QED
    BY <2>2, <2>3, <1>1, <1>2, <1>3, <1>4 DEF Distinct
<1> QED
  BY <1>1, <1>7, <1>8

LEMMA DistinctConcat ==
  ASSUME NEW p \in Seq(Keys), NEW q \in Seq(Keys), Distinct(p), Distinct(q),
         Range(p) \cap Range(q) = {}
  PROVE  Distinct(p \o q)
<1>1. PICK m \in Nat, n \in Nat : m = Len(p) /\ n = Len(q)
  BY LenProperties
<1>2. /\ Len(p \o q) = m + n
      /\ \A i \in 1 .. (m + n) : (p \o q)[i] = IF i <= m THEN p[i] ELSE q[i - m]
  BY <1>1, ConcatProperties
<1>3. \A i \in 1 .. m, j \in 1 .. n : p[i] # q[j]
  BY <1>1, RangeIs
<1>4. (\A i, j \in 1 .. m : p[i] = p[j] => i = j) /\ (\A i, j \in 1 .. n : q[i] = q[j] => i = j)
  BY <1>1 DEF Distinct
<1>5. ASSUME NEW i \in 1 .. (m + n), NEW j \in 1 .. (m + n), (p \o q)[i] = (p \o q)[j]
      PROVE  i = j
  <2>1. CASE i <= m /\ j <= m
    <3>1. i \in 1 .. m /\ j \in 1 .. m
      BY <2>1
    <3> QED
      BY <3>1, <2>1, <1>2, <1>4, <1>5
  <2>2. CASE i <= m /\ ~(j <= m)
    <3>1. i \in 1 .. m /\ j - m \in 1 .. n
      BY <2>2
    <3> QED
      BY <3>1, <2>2, <1>2, <1>3, <1>5
  <2>3. CASE ~(i <= m) /\ j <= m
    <3>1. j \in 1 .. m /\ i - m \in 1 .. n
      BY <2>3
    <3> QED
      BY <3>1, <2>3, <1>2, <1>3, <1>5
  <2>4. CASE ~(i <= m) /\ ~(j <= m)
    <3>1. i - m \in 1 .. n /\ j - m \in 1 .. n /\ (i - m = j - m => i = j)
      BY <2>4
    <3> QED
      BY <3>1, <2>4, <1>2, <1>4, <1>5
  <2> QED
    BY <2>1, <2>2, <2>3, <2>4
<1> QED
  BY <1>2, <1>5 DEF Distinct

\* Counting the members of S up to k numbers them from 1, so that InOrder lists each one once.
LEMMA InOrderLists ==
  ASSUME NEW S, S \subseteq Keys
  PROVE  InOrder(S) \in Seq(Keys) /\ Range(InOrder(S)) = S /\ Distinct(InOrder(S))
<1> DEFINE Upto(k) == {j \in S : j <= k}
           Rank    == [k \in S |-> Cardinality(Upto(k))]
           C(i)    == CHOOSE k \in S : Cardinality(Upto(k)) = i
<1>1. PICK n \in Nat : n = Cardinality(S)
  BY SubsetsFinite
<1>2. IsFiniteSet(S) /\ S \subseteq Nat
  <2>1. Keys \subseteq Nat
    BY SizeAssumption DEF Keys
  <2> QED
    BY <2>1, SubsetsFinite
<1>3. IsFiniteSet(1 .. n) /\ Cardinality(1 .. n) = n
  BY FS_Interval
<1>4. ASSUME NEW k \in S
      PROVE  /\ Upto(k) \subseteq S /\ k \in Upto(k)
             /\ IsFiniteSet(Upto(k)) /\ Cardinality(Upto(k)) \in 1 .. n
  <2>1. Upto(k) \subseteq S /\ k \in Upto(k)
    BY <1>2
  <2>2. IsFiniteSet(Upto(k)) /\ Cardinality(Upto(k)) <= n
    BY <2>1, <1>1, <1>2, FS_Subset
  <2>3. Cardinality(Upto(k)) \in Nat /\ Cardinality(Upto(k)) # 0
    BY <2>1, <2>2, FS_CardinalityType, FS_EmptySet
  <2> QED
    BY <2>1, <2>2, <2>3
<1>5. ASSUME NEW j \in S, NEW k \in S, Cardinality(Upto(j)) = Cardinality(Upto(k)), j <= k
      PROVE  j = k
  <2>1. Upto(j) \in SUBSET Upto(k)
    <3>1. \A x \in S : x <= j => x <= k
      BY <1>2, <1>5
    <3> QED
      BY <3>1
  <2>2. Upto(j) = Upto(k)
    BY <2>1, <1>4, <1>5, FS_Subset
  <2>3. k <= j
    BY <2>2, <1>4
  <2> QED
    BY <2>3, <1>2, <1>5
<1>6. \A j, k \in S : Cardinality(Upto(j)) = Cardinality(Upto(k)) => j = k
  <2> SUFFICES ASSUME NEW j \in S, NEW k \in S, Cardinality(Upto(j)) = Cardinality(Upto(k))
               PROVE  j = k
    OBVIOUS
  <2>1. j <= k \/ k <= j
    BY <1>2
  <2> QED
    BY <2>1, <1>5
<1> HIDE DEF Upto
<1>7. Rank \in Injection(S, 1 .. n)
  BY <1>4, <1>6 DEF Injection, IsInjective
<1>8. Rank \in Surjection(S, 1 .. n)
  BY <1>1, <1>3, <1>7, FS_Injection
<1>9. \A i \in 1 .. n : \E k \in S : Cardinality(Upto(k)) = i
  BY <1>8 DEF Surjection
<1>10. \A i \in 1 .. n : C(i) \in S /\ Cardinality(Upto(C(i))) = i
  BY <1>9
<1>11. InOrder(S) = [i \in 1 .. n |-> C(i)]
  BY <1>1 DEF InOrder, Upto
<1> HIDE DEF C
<1>12. InOrder(S) \in [1 .. n -> S] /\ Len(InOrder(S)) = n /\ \A i \in 1 .. n : InOrder(S)[i] = C(i)
  BY <1>10, <1>11
<1>13. InOrder(S) \in Seq(Keys)
  BY <1>12
<1>14. Range(InOrder(S)) = {C(i) : i \in 1 .. n}
  BY <1>12, <1>13, RangeIs
<1>15. ASSUME NEW k \in S PROVE k \in {C(i) : i \in 1 .. n}
  <2>1. C(Cardinality(Upto(k))) = k
    BY <1>4, <1>6, <1>10
  <2> QED
    BY <2>1, <1>4
<1>16. Range(InOrder(S)) = S
  BY <1>10, <1>14, <1>15
<1>17. Distinct(InOrder(S))
  BY <1>10, <1>12 DEF Distinct
<1> QED
  BY <1>13, <1>16, <1>17

-----------------------------------------------------------------------------
(* The dependency graph. *)

LEMMA AncestrySelf ==
  ASSUME NEW D \in Graphs, NEW s \in Keys
  PROVE  s \in Ancestry(D, s)
BY DEF Ancestry, Graphs

LEMMA AncestryGrows ==
  ASSUME NEW D \in Graphs, NEW t \in Keys, NEW d \in D[t]
  PROVE  d \in Keys /\ Ancestry(D, d) \subseteq Ancestry(D, t)
<1>1. DOMAIN D = Keys /\ d \in Keys
  BY DEF Graphs
<1>2. ASSUME NEW C \in SUBSET Keys, t \in C, Closed(D, C) PROVE d \in C
  BY <1>2 DEF Closed
<1> QED
  BY <1>1, <1>2 DEF Ancestry

\* A closed set with s in it holds all that s depends on.
LEMMA AncestryIsLeast ==
  ASSUME NEW D \in Graphs, NEW C \in SUBSET Keys, Closed(D, C), NEW s \in C
  PROVE  Ancestry(D, s) \subseteq C
BY DEF Ancestry, Graphs

LEMMA AncestryClosed ==
  ASSUME NEW D \in Graphs, NEW s \in Keys
  PROVE  Closed(D, Ancestry(D, s))
<1> SUFFICES ASSUME NEW t \in Ancestry(D, s), NEW d \in D[t]
             PROVE  d \in Ancestry(D, s)
  BY DEF Closed
<1>1. t \in Keys /\ DOMAIN D = Keys
  BY DEF Ancestry, Graphs
<1>2. d \in Keys
  BY <1>1 DEF Graphs
<1>3. ASSUME NEW C \in SUBSET Keys, s \in C, Closed(D, C) PROVE d \in C
  <2>1. t \in C
    BY <1>1, <1>3 DEF Ancestry
  <2> QED
    BY <2>1, <1>3 DEF Closed
<1> QED
  BY <1>1, <1>2, <1>3 DEF Ancestry

\* Where every step of a set waits for another step of the set, there is a cycle: a step with
\* the least ancestry in the set is among what it depends on.
LEMMA WaitingIsCyclic ==
  ASSUME NEW D \in Graphs, NEW U \in SUBSET Keys, U # {}, \A t \in U : D[t] \cap U # {}
  PROVE  ~Acyclic(D)
<1> SUFFICES ASSUME Acyclic(D) PROVE FALSE
  OBVIOUS
<1> DEFINE T == {Ancestry(D, t) : t \in U}
<1>1. DOMAIN D = Keys
  BY DEF Graphs
<1>2. \A t \in U : Ancestry(D, t) \in SUBSET Keys
  BY <1>1 DEF Ancestry
<1>3. T \subseteq FiniteSubsetsOf(Keys) /\ T # {}
  BY <1>2, KeysFinite, FS_FiniteSubsetsOfFinite
<1>4. IsWellFoundedOn(StrictSubsetOrdering(Keys), FiniteSubsetsOf(Keys))
  BY FS_StrictSubsetOrderingWellFounded
<1>5. \E x \in T : \A y \in T : ~(<<y, x>> \in StrictSubsetOrdering(Keys))
  <2> HIDE DEF T
  <2> QED
    BY <1>3, <1>4, WFMin
<1>6. PICK t \in U : \A u \in U : <<Ancestry(D, u), Ancestry(D, t)>> \notin StrictSubsetOrdering(Keys)
  BY <1>5
<1>7. PICK d \in D[t] : d \in U
  OBVIOUS
<1>8. Ancestry(D, d) \subseteq Ancestry(D, t)
  BY AncestryGrows
<1>9. t \in Ancestry(D, t)
  BY AncestrySelf
<1>10. t \notin Ancestry(D, d)
  BY <1>1 DEF Acyclic, Downstream
<1>11. <<Ancestry(D, d), Ancestry(D, t)>> \in StrictSubsetOrdering(Keys)
  BY <1>2, <1>7, <1>8, <1>9, <1>10 DEF StrictSubsetOrdering
<1> QED
  BY <1>6, <1>7, <1>11

-----------------------------------------------------------------------------
(* The invariants of the walks. *)

Reached == seen \cup Range(queue)

TypeInv ==
  /\ deps \in Graphs /\ phase \in Phases /\ inDegree \in [Keys -> Nat]
  /\ queue \in Seq(Keys) /\ count \in Nat
  /\ asked \in Keys /\ seen \in SUBSET Keys /\ failed \in SUBSET Keys /\ blocked \in BOOLEAN
  /\ phase \in {"visit", "rejected", "valid"} => seen = {}

\* V has been counted: nothing in it is on a cycle or waits for a step outside, and the queue
\* holds, once each, the steps outside that wait for nothing outside.
Counted(V) ==
  /\ Closed(deps, V) /\ \A s \in V : s \notin Downstream(deps, s)
  /\ count = Cardinality(V)
  /\ \A t \in Keys : inDegree[t] = Cardinality(deps[t] \ V)
  /\ Distinct(queue) /\ Range(queue) = {t \in Keys \ V : deps[t] \subseteq V}

VisitInv == phase = "visit" => \E V \in SUBSET Keys : Counted(V)

\* Whatever depends on the step asked for, or on a step seen, is seen or queued, and nothing else.
WalkInv ==
  phase \in {"walk", "walked"} =>
    /\ Reached \subseteq Downstream(deps, asked)
    /\ \A k \in seen \cup {asked} : Dependents(k) \subseteq Reached
    /\ phase = "walked" => queue = << >>

\* No step seen has failed, and what it depends on is seen or still to be asked.
SearchInv ==
  phase = "search" =>
    /\ seen \cap failed = {} /\ asked \in Reached
    /\ Reached \subseteq Ancestry(deps, asked)
    /\ \A k \in seen : deps[k] \subseteq Reached

WalksInv == TypeInv /\ ValidIffAcyclic /\ VisitInv /\ WalkInv /\ SearchInv /\ FindsBlocked

-----------------------------------------------------------------------------
(* The validation. *)

LEMMA VisitStarts ==
  ASSUME Init
  PROVE  TypeInv /\ Counted({})
<1>1. deps \in Graphs /\ phase \in Phases /\ count = 0 /\ seen = {}
  BY DEF Init, Graphs, Phases
<1>2. {k \in Keys : deps[k] = {}} \subseteq Keys
  OBVIOUS
<1>3. /\ queue \in Seq(Keys) /\ Distinct(queue)
      /\ Range(queue) = {t \in Keys \ {} : deps[t] \subseteq {}}
  BY <1>2, InOrderLists DEF Init
<1>4. \A t \in Keys : Cardinality(deps[t]) \in Nat /\ deps[t] \ {} = deps[t]
  BY <1>1, SubsetsFinite DEF Graphs
<1>5. inDegree \in [Keys -> Nat] /\ \A t \in Keys : inDegree[t] = Cardinality(deps[t] \ {})
  BY <1>4 DEF Init
<1>6. asked \in Keys /\ failed = {} /\ blocked = FALSE
  BY SizeAssumption DEF Init, Keys
<1>7. TypeInv
  BY <1>1, <1>3, <1>5, <1>6 DEF TypeInv
<1>8. Closed(deps, {}) /\ Cardinality({}) = 0
  BY FS_EmptySet DEF Closed
<1> QED
  BY <1>1, <1>3, <1>5, <1>7, <1>8 DEF Counted

LEMMA VisitCounts ==
  ASSUME TypeInv, NEW V \in SUBSET Keys, Counted(V), Visit
  PROVE  TypeInv' /\ \E W \in SUBSET Keys : Counted(W)'
<1>1. PICK h : h = Head(queue)
  OBVIOUS
<1> DEFINE freed == Dependents(h)
           ready == {t \in freed : inDegree[t] = 1}
           W     == V \cup {h}
<1>2. /\ queue # << >> /\ phase = "visit" /\ count' = count + 1
      /\ inDegree' = [t \in Keys |-> IF t \in freed THEN inDegree[t] - 1 ELSE inDegree[t]]
      /\ queue' = Tail(queue) \o InOrder(ready)
      /\ UNCHANGED <<deps, phase, asked, seen, failed, blocked>>
  BY <1>1 DEF Visit
<1>3. /\ h \in Keys /\ Tail(queue) \in Seq(Keys)
      /\ Range(queue) = {h} \cup Range(Tail(queue))
      /\ Distinct(Tail(queue)) /\ h \notin Range(Tail(queue))
  BY <1>1, <1>2, HeadAndTail DEF TypeInv, Counted
<1>4. h \notin V /\ deps[h] \subseteq V
  BY <1>3 DEF Counted
<1>5. \A t \in Keys : deps[t] \in SUBSET Keys
  BY DEF TypeInv, Graphs
<1>6. \A t \in freed : t \in Keys /\ h \in deps[t] /\ t \notin V /\ t # h
  BY <1>4 DEF Dependents, Counted, Closed
<1>7. \A t \in Keys : inDegree[t] = Cardinality(deps[t] \ V) /\ inDegree[t] \in Nat
  BY DEF Counted, TypeInv
<1>8. ASSUME NEW t \in freed
      PROVE  /\ Cardinality(deps[t] \ W) = inDegree[t] - 1 /\ Cardinality(deps[t] \ W) \in Nat
             /\ inDegree[t] = 1 <=> deps[t] \subseteq W
  <2>1. deps[t] \ V \subseteq Keys /\ deps[t] \ W = (deps[t] \ V) \ {h} /\ h \in deps[t] \ V
    BY <1>4, <1>5, <1>6
  <2>2. IsFiniteSet(deps[t] \ V) /\ IsFiniteSet(deps[t] \ W) /\ Cardinality(deps[t] \ W) \in Nat
    BY <2>1, SubsetsFinite
  <2>3. Cardinality(deps[t] \ W) = Cardinality(deps[t] \ V) - 1
    <3>1. Cardinality((deps[t] \ V) \ {h}) = Cardinality(deps[t] \ V) - 1
      <4> HIDE DEF W
      <4> QED
        BY <2>1, <2>2, FS_RemoveElement
    <3> QED
      BY <3>1, <2>1
  <2>4. Cardinality(deps[t] \ W) = 0 <=> deps[t] \ W = {}
    BY <2>2, FS_EmptySet
  <2> QED
    BY <2>2, <2>3, <2>4, <1>6, <1>7
<1>9. \A t \in Keys \ freed : deps[t] \ W = deps[t] \ V
  BY DEF Dependents
<1>10. \A t \in Keys : inDegree'[t] = Cardinality(deps[t] \ W) /\ inDegree'[t] \in Nat
  BY <1>2, <1>7, <1>8, <1>9
<1>11. ready \subseteq Keys /\ ready \cap Range(Tail(queue)) = {}
  <2>1. \A t \in ready : ~(deps[t] \subseteq V)
    BY <1>4, <1>6
  <2> QED
    BY <2>1, <1>3, <1>6 DEF Counted
<1>12. InOrder(ready) \in Seq(Keys) /\ Range(InOrder(ready)) = ready /\ Distinct(InOrder(ready))
  BY <1>11, InOrderLists
<1>13. queue' \in Seq(Keys) /\ Range(queue') = Range(Tail(queue)) \cup ready /\ Distinct(queue')
  <2>1. PICK p, q : p = Tail(queue) /\ q = InOrder(ready)
    OBVIOUS
  <2>2. p \in Seq(Keys) /\ q \in Seq(Keys) /\ Distinct(p) /\ Distinct(q) /\ Range(p) \cap Range(q) = {}
    BY <2>1, <1>3, <1>11, <1>12
  <2>3. p \o q \in Seq(Keys) /\ Range(p \o q) = Range(p) \cup Range(q) /\ Distinct(p \o q)
    BY <2>2, ConcatProperties, RangeConcatenation, DistinctConcat
  <2> QED
    BY <2>1, <2>3, <1>2, <1>12
<1>14. Range(queue') = {t \in Keys \ W : deps[t] \subseteq W}
  <2>1. Range(Tail(queue)) = {t \in Keys \ W : deps[t] \subseteq V}
    BY <1>3 DEF Counted
  <2>2. ready = {t \in freed : deps[t] \subseteq W}
    BY <1>8
  <2>3. \A t \in Keys \ W : deps[t] \subseteq W <=> deps[t] \subseteq V \/ (t \in freed /\ deps[t] \subseteq W)
    BY <1>4 DEF Dependents
  <2> QED
    BY <2>1, <2>2, <2>3, <1>6, <1>13
<1>15. Closed(deps, W)
  BY <1>4 DEF Counted, Closed
<1>16. \A s \in W : s \notin Downstream(deps, s)
  <2>1. \A d \in deps[h] : Ancestry(deps, d) \subseteq V
    BY <1>4, AncestryIsLeast DEF TypeInv, Counted
  <2>2. h \notin Downstream(deps, h)
    BY <2>1, <1>4 DEF Downstream
  <2> QED
    BY <2>2 DEF Counted
<1>17. count' = Cardinality(W) /\ count' \in Nat
  <2>1. IsFiniteSet(V) /\ count \in Nat /\ count = Cardinality(V)
    BY SubsetsFinite DEF TypeInv, Counted
  <2>2. Cardinality(V \cup {h}) = Cardinality(V) + 1
    BY <2>1, <1>4, FS_AddElement
  <2> QED
    BY <2>1, <2>2, <1>2
<1>18. inDegree' \in [Keys -> Nat]
  BY <1>2, <1>10
<1>19. TypeInv'
  BY <1>2, <1>13, <1>17, <1>18 DEF TypeInv
<1>20. W \in SUBSET Keys
  BY <1>3
<1>21. PICK X \in SUBSET Keys : X = W
  BY <1>20
<1>22. Counted(X)'
  BY <1>2, <1>10, <1>13, <1>14, <1>15, <1>16, <1>17, <1>21 DEF Counted
<1> QED
  BY <1>19, <1>22

\* All steps have been counted, or those that have not wait for one another.
LEMMA VisitDecides ==
  ASSUME TypeInv, NEW V \in SUBSET Keys, Counted(V), queue = << >>
  PROVE  count = N <=> Acyclic(deps)
<1>1. DOMAIN deps = Keys /\ deps \in Graphs
  BY DEF TypeInv, Graphs
<1>2. {t \in Keys \ V : deps[t] \subseteq V} = {}
  BY RangeEmpty DEF Counted
<1>3. ASSUME count = N PROVE Acyclic(deps)
  <2>1. V = Keys
    BY <1>3, KeysFinite, FS_Subset DEF Counted
  <2> QED
    BY <2>1, <1>1 DEF Acyclic, Counted
<1>4. ASSUME count # N PROVE ~Acyclic(deps)
  <2>1. Keys \ V # {}
    BY <1>4, KeysFinite DEF Counted
  <2>2. \A t \in Keys \ V : deps[t] \cap (Keys \ V) # {}
    BY <1>1, <1>2 DEF Graphs
  <2> QED
    BY <2>1, <2>2, <1>1, WaitingIsCyclic
<1> QED
  BY <1>3, <1>4

-----------------------------------------------------------------------------
(* The walk downstream. *)

LEMMA DependentsAre ==
  ASSUME TypeInv, NEW k \in Keys
  PROVE  /\ Dependents(k) \subseteq Keys
         /\ InOrder(Dependents(k)) \in Seq(Keys) /\ Range(InOrder(Dependents(k))) = Dependents(k)
<1>1. Dependents(k) \subseteq Keys
  BY DEF Dependents
<1> QED
  BY <1>1, InOrderLists

LEMMA DependentsDownstream ==
  ASSUME TypeInv, NEW s \in Keys
  PROVE  /\ Dependents(s) \subseteq Downstream(deps, s)
         /\ \A k \in Downstream(deps, s) : k \in Keys /\ Dependents(k) \subseteq Downstream(deps, s)
<1>1. deps \in Graphs /\ DOMAIN deps = Keys
  BY DEF TypeInv, Graphs
<1>2. Dependents(s) \subseteq Downstream(deps, s)
  BY <1>1, AncestrySelf DEF Dependents, Downstream
<1>3. ASSUME NEW k \in Downstream(deps, s), NEW t \in Dependents(k)
      PROVE  k \in Keys /\ t \in Downstream(deps, s)
  <2>1. k \in Keys /\ t \in Keys /\ k \in deps[t]
    BY <1>1 DEF Downstream, Dependents
  <2>2. PICK d \in deps[k] : s \in Ancestry(deps, d)
    BY DEF Downstream
  <2>3. s \in Ancestry(deps, k)
    BY <2>1, <2>2, <1>1, AncestryGrows
  <2> QED
    BY <2>1, <2>3, <1>1 DEF Downstream
<1>4. \A k \in Downstream(deps, s) : k \in Keys
  BY <1>1 DEF Downstream
<1> QED
  BY <1>2, <1>3, <1>4

LEMMA WalkStarts ==
  ASSUME TypeInv, AskDownstream
  PROVE  TypeInv' /\ WalkInv'
<1>1. PICK s \in Keys :
        /\ phase = "valid" /\ phase' = "walk" /\ asked' = s
        /\ queue' = InOrder(Dependents(s))
        /\ UNCHANGED <<deps, inDegree, count, seen, failed, blocked>>
  BY DEF AskDownstream
<1>2. queue' \in Seq(Keys) /\ Range(queue') = Dependents(s)
  BY <1>1, DependentsAre
<1>3. TypeInv'
  BY <1>1, <1>2 DEF TypeInv, Phases
<1>4. seen' = {} /\ Dependents(s)' = Dependents(s)
  BY <1>1 DEF TypeInv, Dependents
<1>5. Reached' \subseteq Downstream(deps, s) /\ Dependents(s) \subseteq Reached'
  BY <1>2, <1>4, DependentsDownstream DEF Reached
<1>6. Downstream(deps, asked)' = Downstream(deps, s)
  BY <1>1
<1>7. \A k \in (seen \cup {asked})' : Dependents(k)' \subseteq Reached'
  BY <1>1, <1>4, <1>5
<1> QED
  BY <1>1, <1>3, <1>5, <1>6, <1>7 DEF WalkInv

LEMMA WalkGoesOn ==
  ASSUME TypeInv, WalkInv, Walk
  PROVE  TypeInv' /\ WalkInv'
<1>1. PICK h : h = Head(queue)
  OBVIOUS
<1>2. /\ phase = "walk" /\ queue # << >> /\ seen' = seen \cup {h}
      /\ queue' = IF h \in seen THEN Tail(queue) ELSE Tail(queue) \o InOrder(Dependents(h))
      /\ UNCHANGED <<deps, phase, inDegree, count, asked, failed, blocked>>
  BY <1>1 DEF Walk
<1>3. h \in Keys /\ Tail(queue) \in Seq(Keys) /\ Range(queue) = {h} \cup Range(Tail(queue))
  BY <1>1, <1>2, HeadAndTail DEF TypeInv
<1>4. /\ Reached \subseteq Downstream(deps, asked)
      /\ \A k \in seen \cup {asked} : Dependents(k) \subseteq Reached
  BY <1>2 DEF WalkInv
<1>5. h \in Downstream(deps, asked)
  BY <1>3, <1>4 DEF Reached
<1>6. /\ queue' \in Seq(Keys) /\ Reached' \subseteq Downstream(deps, asked)
      /\ Reached \cup Dependents(h) \subseteq Reached'
  <2>1. CASE h \in seen
    BY <2>1, <1>2, <1>3, <1>4 DEF Reached
  <2>2. CASE h \notin seen
    <3>1. PICK p, q : p = Tail(queue) /\ q = InOrder(Dependents(h))
      OBVIOUS
    <3>2. p \in Seq(Keys) /\ q \in Seq(Keys) /\ Range(q) = Dependents(h)
      BY <3>1, <1>3, DependentsAre
    <3>3. p \o q \in Seq(Keys) /\ Range(p \o q) = Range(p) \cup Dependents(h)
      BY <3>2, ConcatProperties, RangeConcatenation
    <3>4. queue' \in Seq(Keys) /\ Range(queue') = Range(Tail(queue)) \cup Dependents(h)
      BY <2>2, <3>1, <3>3, <1>2
    <3>5. Dependents(h) \subseteq Downstream(deps, asked)
      BY <1>5, DependentsDownstream DEF TypeInv
    <3> QED
      BY <3>4, <3>5, <1>2, <1>3, <1>4 DEF Reached
  <2> QED
    BY <2>1, <2>2
<1>7. TypeInv'
  BY <1>2, <1>3, <1>6 DEF TypeInv
<1>8. Downstream(deps, asked)' = Downstream(deps, asked)
  BY <1>2
<1>9. \A k \in (seen \cup {asked})' : Dependents(k)' \subseteq Reached'
  <2>1. \A k \in Keys : Dependents(k)' = Dependents(k)
    BY <1>2 DEF Dependents
  <2> QED
    BY <2>1, <1>2, <1>3, <1>4, <1>6 DEF TypeInv
<1> QED
  BY <1>2, <1>6, <1>7, <1>8, <1>9 DEF WalkInv

\* With nothing queued, what is not seen (and is not the step asked for) is a closed set.
LEMMA WalkAnswers ==
  ASSUME TypeInv, WalkInv
  PROVE  FindsDownstream
<1> SUFFICES ASSUME phase = "walked" PROVE seen = Downstream(deps, asked)
  BY DEF FindsDownstream
<1>1. deps \in Graphs /\ DOMAIN deps = Keys /\ asked \in Keys /\ seen \subseteq Keys
  BY DEF TypeInv, Graphs
<1>2. Reached = seen
  BY RangeEmpty DEF WalkInv, Reached
<1>3. seen \subseteq Downstream(deps, asked) /\ \A k \in seen \cup {asked} : Dependents(k) \subseteq seen
  BY <1>2 DEF WalkInv
<1>4. ASSUME NEW t \in Downstream(deps, asked), t \notin seen PROVE FALSE
  <2> DEFINE C == Keys \ (seen \cup {asked})
  <2>1. Closed(deps, C)
    <3> SUFFICES ASSUME NEW k \in C, NEW d \in deps[k] PROVE d \in C
      BY DEF Closed
    <3>1. d \in Keys /\ k \in Dependents(d)
      BY <1>1 DEF Dependents, Graphs
    <3> QED
      BY <3>1, <1>3
  <2>2. PICK d \in deps[t] : asked \in Ancestry(deps, d)
    BY DEF Downstream
  <2>3. t \in Keys /\ d \in Keys /\ t \in Dependents(d)
    BY <1>1, <1>4 DEF Downstream, Dependents, Graphs
  <2>4. d \in C
    BY <2>3, <1>3, <1>4
  <2>5. Ancestry(deps, d) \subseteq C
    <3> HIDE DEF C
    <3>1. C \in SUBSET Keys
      BY DEF C
    <3> QED
      BY <3>1, <2>1, <2>4, <1>1, AncestryIsLeast
  <2> QED
    BY <2>2, <2>5
<1> QED
  BY <1>3, <1>4

-----------------------------------------------------------------------------
(* The search upstream. *)

LEMMA DependenciesAre ==
  ASSUME TypeInv, NEW k \in Keys
  PROVE  /\ deps[k] \subseteq Keys
         /\ InOrder(deps[k]) \in Seq(Keys) /\ Range(InOrder(deps[k])) = deps[k]
<1>1. deps[k] \subseteq Keys
  BY DEF TypeInv, Graphs
<1> QED
  BY <1>1, InOrderLists

LEMMA SearchStarts ==
  ASSUME TypeInv, AskBlocked
  PROVE  TypeInv' /\ SearchInv'
<1>1. PICK s, F :
        /\ s \in Keys /\ F \in SUBSET Keys
        /\ phase = "valid" /\ phase' = "search" /\ asked' = s /\ failed' = F /\ queue' = <<s>>
        /\ UNCHANGED <<deps, inDegree, count, seen, blocked>>
  BY DEF AskBlocked
<1>2. queue' \in Seq(Keys) /\ Range(queue') = {s}
  <2>1. <<s>> \in Seq(Keys) /\ Len(<<s>>) = 1 /\ <<s>>[1] = s
    BY <1>1
  <2>2. Range(<<s>>) = {<<s>>[i] : i \in 1 .. 1}
    BY <2>1, RangeIs
  <2> QED
    BY <2>1, <2>2, <1>1
<1>3. TypeInv'
  BY <1>1, <1>2 DEF TypeInv, Phases
<1>4. seen' = {} /\ s \in Ancestry(deps, s)
  BY <1>1, AncestrySelf DEF TypeInv
<1>5. Reached' = {s} /\ Ancestry(deps, asked)' = Ancestry(deps, s)
  BY <1>1, <1>2, <1>4 DEF Reached
<1> QED
  BY <1>1, <1>3, <1>4, <1>5 DEF SearchInv

LEMMA SearchGoesOn ==
  ASSUME TypeInv, SearchInv, Search
  PROVE  TypeInv' /\ SearchInv'
<1>1. PICK h : h = Head(queue)
  OBVIOUS
<1>2. /\ phase = "search" /\ queue # << >> /\ (h \in failed => h \in seen) /\ seen' = seen \cup {h}
      /\ queue' = IF h \in seen THEN Tail(queue) ELSE InOrder(deps[h]) \o Tail(queue)
      /\ UNCHANGED <<deps, phase, inDegree, count, asked, failed, blocked>>
  BY <1>1 DEF Search
<1>3. h \in Keys /\ Tail(queue) \in Seq(Keys) /\ Range(queue) = {h} \cup Range(Tail(queue))
  BY <1>1, <1>2, HeadAndTail DEF TypeInv
<1>4. /\ seen \cap failed = {} /\ asked \in Reached
      /\ Reached \subseteq Ancestry(deps, asked)
      /\ \A k \in seen : deps[k] \subseteq Reached
  BY <1>2 DEF SearchInv
<1>5. deps[h] \subseteq Ancestry(deps, asked)
  BY <1>3, <1>4, AncestryClosed DEF TypeInv, Reached, Closed
<1>6. /\ queue' \in Seq(Keys) /\ Reached' \subseteq Ancestry(deps, asked)
      /\ Reached \cup deps[h] \subseteq Reached'
  <2>1. CASE h \in seen
    BY <2>1, <1>2, <1>3, <1>4 DEF Reached
  <2>2. CASE h \notin seen
    <3>1. PICK p, q : p = InOrder(deps[h]) /\ q = Tail(queue)
      OBVIOUS
    <3>2. p \in Seq(Keys) /\ q \in Seq(Keys) /\ Range(p) = deps[h]
      BY <3>1, <1>3, DependenciesAre
    <3>3. p \o q \in Seq(Keys) /\ Range(p \o q) = deps[h] \cup Range(q)
      BY <3>2, ConcatProperties, RangeConcatenation
    <3>4. queue' \in Seq(Keys) /\ Range(queue') = deps[h] \cup Range(Tail(queue))
      BY <2>2, <3>1, <3>3, <1>2
    <3> QED
      BY <3>4, <1>2, <1>3, <1>4, <1>5 DEF Reached
  <2> QED
    BY <2>1, <2>2
<1>7. TypeInv'
  BY <1>2, <1>3, <1>6 DEF TypeInv
<1>8. Ancestry(deps, asked)' = Ancestry(deps, asked)
  BY <1>2
<1>9. seen' \cap failed' = {} /\ asked' \in Reached' /\ \A k \in seen' : deps'[k] \subseteq Reached'
  BY <1>2, <1>4, <1>6
<1> QED
  BY <1>6, <1>7, <1>8, <1>9 DEF SearchInv

\* A failed step at hand is among what the step asked for depends on; with nothing left to ask,
\* what is seen is all of that, and none of it has failed.
LEMMA SearchAnswers ==
  ASSUME TypeInv, SearchInv, EndSearch
  PROVE  TypeInv' /\ FindsBlocked'
<1>1. /\ phase = "search" /\ (queue # << >> => Head(queue) \in failed \ seen)
      /\ phase' = "searched" /\ blocked' = (queue # << >>)
      /\ UNCHANGED <<deps, inDegree, queue, count, asked, seen, failed>>
  BY DEF EndSearch
<1>2. TypeInv'
  BY <1>1 DEF TypeInv, Phases
<1>3. /\ seen \cap failed = {} /\ asked \in Reached
      /\ Reached \subseteq Ancestry(deps, asked)
      /\ \A k \in seen : deps[k] \subseteq Reached
  BY <1>1 DEF SearchInv
<1> DEFINE st == [k \in Keys |-> IF k \in failed THEN "failed" ELSE "pending"]
<1>4. Ancestry(deps, asked) \subseteq Keys
  BY DEF Ancestry, TypeInv, Graphs
<1>5. Blocked(deps, st, asked) <=> Ancestry(deps, asked) \cap failed # {}
  BY <1>4 DEF Blocked
<1>6. blocked' <=> Ancestry(deps, asked) \cap failed # {}
  <2>1. CASE queue # << >>
    <3>1. Head(queue) \in Ancestry(deps, asked)
      BY <2>1, <1>3, HeadAndTail DEF TypeInv, Reached
    <3> QED
      BY <2>1, <3>1, <1>1
  <2>2. CASE queue = << >>
    <3>1. Reached = seen
      BY <2>2, RangeEmpty DEF Reached
    <3>2. Closed(deps, seen) /\ asked \in seen
      BY <3>1, <1>3 DEF Closed
    <3>3. Ancestry(deps, asked) \subseteq seen
      BY <3>2, AncestryIsLeast DEF TypeInv
    <3> QED
      BY <2>2, <3>3, <1>1, <1>3
  <2> QED
    BY <2>1, <2>2
<1>7. Blocked(deps, st, asked)' = Blocked(deps, st, asked)
  BY <1>1
<1> QED
  BY <1>1, <1>2, <1>5, <1>6, <1>7 DEF FindsBlocked

-----------------------------------------------------------------------------
(* The three walks together. *)

LEMMA WalksStep ==
  ASSUME WalksInv, [Next]_vars
  PROVE  WalksInv'
<1>1. CASE Visit
  <2>1. phase = "visit" /\ phase' = "visit"
    BY <1>1 DEF Visit
  <2>2. PICK V \in SUBSET Keys : Counted(V)
    BY <2>1 DEF WalksInv, VisitInv
  <2>3. TypeInv' /\ \E W \in SUBSET Keys : Counted(W)'
    BY <1>1, <2>2, VisitCounts DEF WalksInv
  <2> QED
    BY <2>1, <2>3 DEF WalksInv, ValidIffAcyclic, VisitInv, WalkInv, SearchInv, FindsBlocked
<1>2. CASE Judge
  <2>1. /\ phase = "visit" /\ queue = << >> /\ phase' = IF count = N THEN "valid" ELSE "rejected"
        /\ UNCHANGED <<deps, inDegree, queue, count, asked, seen, failed, blocked>>
    BY <1>2 DEF Judge
  <2>2. PICK V \in SUBSET Keys : Counted(V)
    BY <2>1 DEF WalksInv, VisitInv
  <2>3. count = N <=> Acyclic(deps)
    BY <2>1, <2>2, VisitDecides DEF WalksInv
  <2>4. TypeInv'
    BY <2>1 DEF WalksInv, TypeInv, Phases
  <2>5. Acyclic(deps)' <=> Acyclic(deps)
    BY <2>1
  <2> QED
    BY <2>1, <2>3, <2>4, <2>5 DEF WalksInv, ValidIffAcyclic, VisitInv, WalkInv, SearchInv, FindsBlocked
<1>3. CASE AskDownstream
  <2>1. phase = "valid" /\ phase' = "walk" /\ deps' = deps
    BY <1>3 DEF AskDownstream
  <2> QED
    BY <1>3, <2>1, WalkStarts DEF WalksInv, ValidIffAcyclic, VisitInv, SearchInv, FindsBlocked
<1>4. CASE Walk
  <2>1. phase = "walk" /\ phase' = "walk" /\ deps' = deps
    BY <1>4 DEF Walk
  <2> QED
    BY <1>4, <2>1, WalkGoesOn DEF WalksInv, ValidIffAcyclic, VisitInv, SearchInv, FindsBlocked
<1>5. CASE EndWalk
  <2>1. /\ phase = "walk" /\ queue = << >> /\ phase' = "walked"
        /\ UNCHANGED <<deps, inDegree, queue, count, asked, seen, failed, blocked>>
    BY <1>5 DEF EndWalk
  <2>2. TypeInv'
    BY <2>1 DEF WalksInv, TypeInv, Phases
  <2>3. WalkInv'
    BY <2>1 DEF WalksInv, WalkInv, Reached, Dependents
  <2> QED
    BY <2>1, <2>2, <2>3 DEF WalksInv, ValidIffAcyclic, VisitInv, SearchInv, FindsBlocked
<1>6. CASE AskBlocked
  <2>1. phase = "valid" /\ phase' = "search" /\ deps' = deps
    BY <1>6 DEF AskBlocked
  <2> QED
    BY <1>6, <2>1, SearchStarts DEF WalksInv, ValidIffAcyclic, VisitInv, WalkInv, FindsBlocked
<1>7. CASE Search
  <2>1. phase = "search" /\ phase' = "search" /\ deps' = deps
    BY <1>7 DEF Search
  <2> QED
    BY <1>7, <2>1, SearchGoesOn DEF WalksInv, ValidIffAcyclic, VisitInv, WalkInv, FindsBlocked
<1>8. CASE EndSearch
  <2>1. phase = "search" /\ phase' = "searched" /\ deps' = deps
    BY <1>8 DEF EndSearch
  <2> QED
    BY <1>8, <2>1, SearchAnswers DEF WalksInv, ValidIffAcyclic, VisitInv, WalkInv, SearchInv
<1>9. CASE UNCHANGED vars
  <2>1. UNCHANGED <<deps, phase, inDegree, queue, count, asked, seen, failed, blocked>>
    BY <1>9 DEF vars
  <2>2. VisitInv'
    BY <2>1 DEF WalksInv, VisitInv, Counted
  <2>3. TypeInv' /\ WalkInv' /\ SearchInv'
    BY <2>1 DEF WalksInv, TypeInv, WalkInv, SearchInv, Reached, Dependents
  <2> QED
    BY <2>1, <2>2, <2>3 DEF WalksInv, ValidIffAcyclic, FindsBlocked
<1> QED
  BY <1>1, <1>2, <1>3, <1>4, <1>5, <1>6, <1>7, <1>8, <1>9 DEF Next

LEMMA WalksInvariant == Spec => []WalksInv
<1>1. Init => WalksInv
  <2> SUFFICES ASSUME Init PROVE WalksInv
    OBVIOUS
  <2>1. TypeInv /\ Counted({}) /\ phase = "visit"
    BY VisitStarts DEF Init
  <2> QED
    BY <2>1 DEF WalksInv, ValidIffAcyclic, VisitInv, WalkInv, SearchInv, FindsBlocked
<1>2. WalksInv /\ [Next]_vars => WalksInv'
  BY WalksStep
<1> QED
  BY <1>1, <1>2, PTL DEF Spec

\* Kahn's count, kept by decrementing degrees that nobody recomputes, reaches the number of steps
\* exactly on the graphs without a cycle: the service starts on those and on no others.
THEOREM StartsIffAcyclic == Spec => []ValidIffAcyclic
<1>1. WalksInv => ValidIffAcyclic
  BY DEF WalksInv
<1> QED
  BY <1>1, WalksInvariant, PTL

\* getDownstreamSteps answers with exactly the steps that depend on the one asked for, directly
\* or not, whatever was queued twice on the way.
THEOREM RerunFindsDownstream == Spec => []FindsDownstream
<1>1. WalksInv => FindsDownstream
  BY WalkAnswers DEF WalksInv
<1> QED
  BY <1>1, WalksInvariant, PTL

\* isBlocked answers true exactly when the step, or a step it depends on in any number of steps,
\* has failed, although it stops at the first one and skips what it has seen.
THEOREM SearchFindsBlocked == Spec => []FindsBlocked
<1>1. WalksInv => FindsBlocked
  BY DEF WalksInv
<1> QED
  BY <1>1, WalksInvariant, PTL

=============================================================================
