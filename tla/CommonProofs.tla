----------------------------- MODULE CommonProofs -----------------------------
(***************************************************************************)
(* What the proofs of several modules rest on: what the operations of a    *)
(* job preserve, natural numbers, and sums over finite sets.               *)
(***************************************************************************)
EXTENDS BullJob, Sums, FiniteSetTheorems, FunctionTheorems, WellFoundedInduction, TLAPS

-----------------------------------------------------------------------------
(***************************************************************************)
(* Jobs.                                                                   *)
(***************************************************************************)
\* A job still to be done has attempts left, and only a running one is held.
SoundJob(j) ==
    /\ j \in Job
    /\ j.state # "failed" => j.tries < Attempts
    /\ j.holder # NoWorker => j.state = "active"

\* Every queue operation leaves a sound job.
LEMMA JobOperations ==
    ASSUME NEW j, SoundJob(j)
    PROVE  /\ SoundJob(NoJob) /\ SoundJob(Added(j))
           /\ j.state = "active" => SoundJob(Stalled(j))
           /\ \A w \in Workers :
                 /\ SoundJob(Done(j, w)) /\ SoundJob(Threw(j, w))
                 /\ j.state = "waiting" => SoundJob(Taken(j, w))
  <1> USE JobAssumption DEF SoundJob, Job
  <1>1. SoundJob(NoJob)
    BY DEF NoJob, MaxStalls
  <1>2. SoundJob(Added(j))
    BY DEF Added
  <1>3. ASSUME NEW w \in Workers PROVE SoundJob(Done(j, w))
    BY <1>1 DEF Done
  <1>4. ASSUME NEW w \in Workers PROVE SoundJob(Threw(j, w))
    <2>1. CASE j.holder # w
      BY <2>1 DEF Threw
    <2>2. CASE j.holder = w
      <3>1. j.tries < Attempts /\ j.tries + 1 \in 0 .. Attempts
        BY <2>2
      <3>2. CASE j.tries + 1 < Attempts
        BY <2>2, <3>1, <3>2 DEF Threw
      <3>3. CASE ~(j.tries + 1 < Attempts)
        BY <2>2, <3>1, <3>3 DEF Threw
      <3> QED
        BY <3>2, <3>3
    <2> QED
      BY <2>1, <2>2
  <1>5. j.state = "active" => SoundJob(Stalled(j))
    <2> SUFFICES ASSUME j.state = "active" PROVE SoundJob(Stalled(j))
      OBVIOUS
    <2>1. CASE j.stalls < MaxStalls
      <3>1. j.stalls + 1 \in 0 .. MaxStalls
        BY <2>1 DEF MaxStalls
      <3> QED
        BY <2>1, <3>1 DEF Stalled
    <2>2. CASE ~(j.stalls < MaxStalls)
      BY <2>2 DEF Stalled
    <2> QED
      BY <2>1, <2>2
  <1>6. ASSUME NEW w \in Workers, j.state = "waiting" PROVE SoundJob(Taken(j, w))
    BY <1>6 DEF Taken
  <1> QED
    BY <1>1, <1>2, <1>3, <1>4, <1>5, <1>6

-----------------------------------------------------------------------------
(***************************************************************************)
(* Natural numbers.                                                        *)
(***************************************************************************)
\* A set of natural numbers that has one has a least one.
LEMMA LeastNatural ==
  ASSUME NEW S \in SUBSET Nat, S # {}
  PROVE  \E m \in S : \A n \in S : m <= n
  <1>1. IsWellFoundedOn(OpToRel(<, Nat), Nat)
    BY NatLessThanWellFounded
  <1>2. PICK m \in S : \A n \in S : <<n, m>> \notin OpToRel(<, Nat)
    BY <1>1, WFMin
  <1>3. \A n \in S : ~(n < m)
    BY <1>2 DEF OpToRel
  <1>4. QED
    BY <1>3

\* A finite set of natural numbers has a bound, by its size.
LEMMA GreatestNatural ==
  ASSUME NEW S \in SUBSET Nat, IsFiniteSet(S), S # {}
  PROVE  \E m \in S : \A n \in S : n <= m
  <1> DEFINE Bad == {k \in Nat : \E T \in SUBSET S : Cardinality(T) = k /\ T # {}
                                  /\ ~ \E m \in T : \A n \in T : n <= m}
  <1>1. ASSUME Bad # {} PROVE FALSE
    <2>1. PICK k \in Bad : \A j \in Bad : k <= j
      BY <1>1, LeastNatural
    <2>2. PICK T \in SUBSET S : Cardinality(T) = k /\ T # {} /\ ~ \E m \in T : \A n \in T : n <= m
      OBVIOUS
    <2>3. PICK t \in T : TRUE
      BY <2>2
    <2>4. PICK U : U = T \ {t}
      OBVIOUS
    <2>5. IsFiniteSet(T) /\ IsFiniteSet(U) /\ Cardinality(U) = k - 1 /\ k \in Nat /\ Cardinality(U) \in Nat
      BY <2>2, <2>4, FS_Subset, FS_RemoveElement, FS_CardinalityType
    <2>6. U # {}
      <3>1. SUFFICES ASSUME U = {} PROVE FALSE
        OBVIOUS
      <3>2. T = {t}
        BY <2>3, <2>4, <3>1
      <3>3. QED
        BY <2>2, <3>2
    <2>7. Cardinality(U) \notin Bad
      BY <2>1, <2>5
    <2>8. PICK m \in U : \A n \in U : n <= m
      BY <2>4, <2>5, <2>6, <2>7
    <2>9. (\A n \in T : n <= m) \/ (\A n \in T : n <= t)
      BY <2>4, <2>8
    <2>10. QED
      BY <2>2, <2>4, <2>9
  <1>2. IsFiniteSet(S) /\ Cardinality(S) \in Nat
    BY FS_CardinalityType
  <1>3. QED
    BY <1>1, <1>2

\* What a division leaves.
LEMMA Division ==
  ASSUME NEW u \in Int, NEW v \in Nat \ {0}
  PROVE  /\ u \div v \in Int /\ u % v \in 0 .. v - 1
         /\ u = v * (u \div v) + (u % v)
  BY Z3

\* The quotient and the rest, as numbers of their own.
LEMMA Divided ==
  ASSUME NEW u \in Int, NEW v \in Nat \ {0}
  PROVE  \E d \in Int : \E r \in 0 .. v - 1 : d = u \div v /\ r = u % v /\ u = v * d + r
  <1>1. PICK d : d = u \div v
    OBVIOUS
  <1>2. PICK r : r = u % v
    OBVIOUS
  <1>3. d \in Int /\ r \in 0 .. v - 1
    BY <1>1, <1>2, Division, Zenon
  <1>4. u = v * d + r
    BY <1>1, <1>2, Division, Zenon
  <1>5. QED
    BY <1>1, <1>2, <1>3, <1>4, Zenon

\* One more factor is one more addend.
LEMMA Grows ==
  ASSUME NEW u \in Int, NEW v \in Int, u < v, NEW n \in Nat \ {0}
  PROVE  n * u + n <= n * v
  <1>1. v - u >= 1 /\ v - u \in Nat
    OBVIOUS
  <1>2. n * (v - u) >= n
    BY <1>1
  <1>3. n * (v - u) = n * v - n * u
    OBVIOUS
  <1>4. n * u \in Int /\ n * v \in Int
    OBVIOUS
  <1>5. QED
    BY <1>2, <1>3, <1>4

\* A quotient is the most times that fit.
LEMMA Quotient ==
  ASSUME NEW u \in Int, NEW n \in Nat \ {0}, NEW q \in Int
  PROVE  q <= u \div n <=> n * q <= u
  <1>1. PICK d \in Int, r \in 0 .. n - 1 : d = u \div n /\ u = n * d + r
    BY Division
  <1>2. CASE q <= d
    <2>1. q = d \/ n * q + n <= n * d
      BY <1>2, Grows
    <2>2. n * q <= n * d
      BY <2>1
    <2>3. QED
      BY <1>1, <1>2, <2>2
  <1>3. CASE d < q
    <2>1. n * d + n <= n * q
      BY <1>3, Grows
    <2>2. u < n * q
      BY <1>1, <2>1
    <2>3. QED
      BY <1>1, <1>3, <2>2
  <1>4. QED
    BY <1>1, <1>2, <1>3

\* What a function makes of a finite set is finite.
LEMMA ImageIsFinite ==
  ASSUME NEW S, IsFiniteSet(S), NEW f, f = [e \in S |-> f[e]]
  PROVE  IsFiniteSet({f[e] : e \in S})
  <1>1. PICK T : T = {f[e] : e \in S}
    OBVIOUS
  <1>2. f \in Surjection(S, T)
    BY <1>1 DEF Surjection
  <1>3. QED
    BY <1>1, <1>2, FS_Surjection

-----------------------------------------------------------------------------
(***************************************************************************)
(* Sums over finite sets.                                                  *)
(***************************************************************************)
\* What holds of a set whenever it holds of all its proper subsets holds of
\* every finite set.
LEMMA EverySubset ==
  ASSUME NEW S, IsFiniteSet(S), NEW Good,
         \A T \in SUBSET S : (\A U \in SUBSET T : U # T => U \in Good) => T \in Good
  PROVE  \A T \in SUBSET S : T \in Good
  <1> DEFINE Bad == {k \in Nat : \E T \in SUBSET S : Cardinality(T) = k /\ T \notin Good}
  <1>1. ASSUME Bad # {} PROVE FALSE
    <2>1. PICK k \in Bad : \A j \in Bad : k <= j
      BY <1>1, LeastNatural
    <2>2. PICK T \in SUBSET S : Cardinality(T) = k /\ T \notin Good
      OBVIOUS
    <2>3. PICK U \in SUBSET T : U # T /\ U \notin Good
      BY <2>2
    <2>4. IsFiniteSet(T) /\ IsFiniteSet(U) /\ Cardinality(U) \in Nat /\ Cardinality(U) < Cardinality(T)
      <3>1. IsFiniteSet(T) /\ IsFiniteSet(U)
        BY <2>3, FS_Subset
      <3>2. Cardinality(U) \in Nat /\ Cardinality(T) \in Nat /\ Cardinality(U) <= Cardinality(T)
        BY <3>1, <2>3, FS_Subset, FS_CardinalityType
      <3>3. Cardinality(U) # Cardinality(T)
        BY <3>1, <2>3, FS_Subset
      <3>4. QED
        BY <3>1, <3>2, <3>3
    <2>5. Cardinality(U) \in Bad
      BY <2>3, <2>4
    <2>6. QED
      BY <2>1, <2>2, <2>4, <2>5
  <1>2. \A T \in SUBSET S : Cardinality(T) \in Nat
    BY FS_Subset, FS_CardinalityType
  <1>3. QED
    BY <1>1, <1>2

Some(s) == CHOOSE e \in s : TRUE
Adds(it, h) ==
    it = [s \in SUBSET DOMAIN h |-> IF s = {} THEN 0 ELSE h[Some(s)] + it[s \ {Some(s)}]]
Adder(h) == CHOOSE it : Adds(it, h)
Numbers(S) == [S -> Int]

LEMMA SumIsAdder ==
  ASSUME NEW h
  PROVE  Sum(h) = Adder(h)[DOMAIN h]
  BY DEF Sum, MapThenSumSet, MapThenFoldSet, Adder, Adds, Some

LEMMA SomeIn == ASSUME NEW s, s # {} PROVE Some(s) \in s
  BY DEF Some

LEMMA AdderExists ==
  ASSUME NEW S, IsFiniteSet(S), NEW h \in Numbers(S)
  PROVE  \E it : Adds(it, h)
  <1> DEFINE Step(g, s) == IF s = {} THEN 0 ELSE h[Some(s)] + g[s \ {Some(s)}]
             Upto(k, g) == \A s \in SUBSET S : Cardinality(s) <= k => g[s] = Step(g, s)
             Bad == {k \in Nat : ~ \E g \in [SUBSET S -> Int] : Upto(k, g)}
  <1>0. \A s \in SUBSET S : Cardinality(s) \in Nat
    BY FS_Subset, FS_CardinalityType
  <1>1. \A s \in SUBSET S : /\ IsFiniteSet(s) /\ Cardinality(s) \in Nat
                            /\ s # {} => /\ Some(s) \in s /\ h[Some(s)] \in Int
                                         /\ s \ {Some(s)} \in SUBSET S
                                         /\ Cardinality(s \ {Some(s)}) = Cardinality(s) - 1
    <2>1. ASSUME NEW s \in SUBSET S PROVE IsFiniteSet(s) /\ Cardinality(s) \in Nat
      BY <2>1, FS_Subset, FS_CardinalityType
    <2>2. ASSUME NEW s \in SUBSET S, s # {}
          PROVE  /\ Some(s) \in s /\ h[Some(s)] \in Int /\ s \ {Some(s)} \in SUBSET S
                 /\ Cardinality(s \ {Some(s)}) = Cardinality(s) - 1
      BY <2>1, <2>2, SomeIn, FS_RemoveElement DEF Numbers
    <2>3. QED
      BY <2>1, <2>2
  <1>2. \A s \in SUBSET S : Cardinality(s) = 0 => s = {}
    BY <1>1, FS_EmptySet
  <1>3. ASSUME NEW g \in [SUBSET S -> Int], NEW s \in SUBSET S PROVE Step(g, s) \in Int
    <2>1. CASE s = {}
      BY <2>1
    <2>2. CASE s # {}
      <3>1. h[Some(s)] \in Int /\ s \ {Some(s)} \in SUBSET S
        BY <1>1, <2>2
      <3>2. g[s \ {Some(s)}] \in Int
        BY <3>1
      <3>3. QED
        BY <2>2, <3>1, <3>2
    <2>3. QED
      BY <2>1, <2>2
  <1>4. ASSUME Bad # {} PROVE FALSE
    <2>1. PICK k \in Bad : \A j \in Bad : k <= j
      BY <1>4, LeastNatural
    <2>2. k # 0
      <3>1. SUFFICES ASSUME k = 0 PROVE FALSE
        OBVIOUS
      <3>2. PICK g : g = [s \in SUBSET S |-> 0]
        OBVIOUS
      <3> g \in [SUBSET S -> Int]
        BY <3>2
      <3>3. ASSUME NEW s \in SUBSET S, Cardinality(s) <= 0 PROVE g[s] = Step(g, s)
        <4>1. Cardinality(s) \in Nat
          BY <1>0
        <4>2. Cardinality(s) = 0
          BY <3>3, <4>1
        <4>3. s = {}
          BY <1>2, <4>2
        <4>4. g[s] = 0
          BY <3>2
        <4>5. QED
          BY <4>3, <4>4
      <3>4. QED
        BY <3>1, <3>3
    <2>3. k - 1 \in Nat /\ k - 1 \notin Bad
      <3>1. k \in Nat /\ k - 1 \in Nat /\ ~(k <= k - 1)
        BY <2>2
      <3>2. QED
        BY <2>1, <3>1
    <2>4. PICK g \in [SUBSET S -> Int] : Upto(k - 1, g)
      BY <2>3
    <2>5. PICK f : f = [s \in SUBSET S |-> IF Cardinality(s) < k THEN g[s] ELSE Step(g, s)]
      OBVIOUS
    <2>6. f \in [SUBSET S -> Int]
      BY <1>3, <2>5
    <2>7. ASSUME NEW s \in SUBSET S, Cardinality(s) <= k PROVE f[s] = Step(f, s)
      <3>1. f[s] = Step(g, s)
        <4>1. CASE Cardinality(s) = k
          BY <2>1, <2>5, <4>1
        <4>2. CASE Cardinality(s) # k
          <5>1. Cardinality(s) < k /\ Cardinality(s) <= k - 1
            <6>1. Cardinality(s) \in Nat /\ k \in Nat
              BY <1>0
            <6>2. QED
              BY <2>7, <4>2, <6>1
          <5>2. g[s] = Step(g, s)
            BY <2>4, <5>1
          <5>3. QED
            BY <2>5, <5>1, <5>2
        <4>3. QED
          BY <4>1, <4>2
      <3>2. s # {} => f[s \ {Some(s)}] = g[s \ {Some(s)}]
        BY <2>1, <2>5, <2>7, <1>1
      <3>3. QED
        BY <3>1, <3>2
    <2>8. QED
      BY <2>1, <2>6, <2>7
  <1>5. Cardinality(S) \in Nat /\ \A s \in SUBSET S : Cardinality(s) <= Cardinality(S)
    BY FS_Subset, FS_CardinalityType
  <1>6. PICK g \in [SUBSET S -> Int] : Upto(Cardinality(S), g)
    BY <1>4, <1>5
  <1>7. \A s \in SUBSET S : g[s] = Step(g, s)
    BY <1>5, <1>6
  <1>8. g = [s \in SUBSET S |-> Step(g, s)] /\ DOMAIN h = S
    BY <1>7 DEF Numbers
  <1>9. QED
    BY <1>8 DEF Adds

\* A sum is that of all but one, and that one.
LEMMA AdderStep ==
  ASSUME NEW S, IsFiniteSet(S), NEW h \in Numbers(S)
  PROVE  /\ Adder(h)[{}] = 0
         /\ \A s \in SUBSET S : Adder(h)[s] \in Int
         /\ \A s \in SUBSET S : s # {} => Adder(h)[s] = h[Some(s)] + Adder(h)[s \ {Some(s)}]
  <1>1. PICK it : it = Adder(h)
    OBVIOUS
  <1>2. Adds(it, h)
    BY <1>1, AdderExists DEF Adder
  <1>3. DOMAIN h = S
    BY DEF Numbers
  <1>4. \A s \in SUBSET S : it[s] = IF s = {} THEN 0 ELSE h[Some(s)] + it[s \ {Some(s)}]
    BY <1>2, <1>3 DEF Adds
  <1> DEFINE Good == {s \in SUBSET S : it[s] \in Int}
  <1>5. ASSUME NEW s \in SUBSET S, \A U \in SUBSET s : U # s => U \in Good PROVE s \in Good
    <2>1. CASE s = {}
      <3>1. it[s] = 0
        BY <1>4, <2>1
      <3>2. QED
        BY <3>1
    <2>2. CASE s # {}
      <3>1. Some(s) \in s
        BY <2>2, SomeIn
      <3>2. it[s \ {Some(s)}] \in Int /\ h[Some(s)] \in Int
        <4>1. s \ {Some(s)} \in SUBSET s /\ s \ {Some(s)} # s
          BY <3>1
        <4>2. s \ {Some(s)} \in Good
          BY <4>1, <1>5
        <4>3. QED
          BY <3>1, <4>2 DEF Numbers
      <3>3. it[s] = h[Some(s)] + it[s \ {Some(s)}]
        BY <1>4, <2>2
      <3>4. it[s] \in Int
        BY <3>2, <3>3
      <3>5. QED
        BY <3>4
    <2>3. QED
      BY <2>1, <2>2
  <1>6. \A s \in SUBSET S : s \in Good
    BY <1>5, EverySubset
  <1>7. QED
    BY <1>1, <1>4, <1>6

\* ... and it does not matter which one.
LEMMA AnyStep ==
  ASSUME NEW S, IsFiniteSet(S), NEW h \in Numbers(S)
  PROVE  \A s \in SUBSET S : \A e \in s : Adder(h)[s] = h[e] + Adder(h)[s \ {e}]
  <1>1. PICK it : it = Adder(h)
    OBVIOUS
  <1>2. /\ \A s \in SUBSET S : it[s] \in Int
        /\ \A s \in SUBSET S : s # {} => it[s] = h[Some(s)] + it[s \ {Some(s)}]
    BY <1>1, AdderStep, ZenonT(60)
  <1> DEFINE Good == {s \in SUBSET S : \A e \in s : it[s] = h[e] + it[s \ {e}]}
  <1>3. ASSUME NEW s \in SUBSET S, \A U \in SUBSET s : U # s => U \in Good PROVE s \in Good
    <2>1. SUFFICES ASSUME NEW e \in s PROVE it[s] = h[e] + it[s \ {e}]
      OBVIOUS
    <2>2. PICK c : c = Some(s)
      OBVIOUS
    <2>3. c \in s /\ it[s] = h[c] + it[s \ {c}]
      BY <1>2, <2>1, <2>2, SomeIn
    <2>4. CASE e = c
      BY <2>3, <2>4
    <2>5. CASE e # c
      <3>1. PICK t : t = s \ {c}
        OBVIOUS
      <3>2. PICK u : u = s \ {e}
        OBVIOUS
      <3>3. t \in SUBSET s /\ t # s /\ u \in SUBSET s /\ u # s /\ e \in t /\ c \in u /\ t \ {e} = u \ {c}
        BY <2>1, <2>3, <2>5, <3>1, <3>2
      <3>4. t \in Good /\ u \in Good
        BY <1>3, <3>3
      <3>5. it[t] = h[e] + it[t \ {e}] /\ it[u] = h[c] + it[u \ {c}]
        BY <3>3, <3>4
      <3>6. PICK w : w = t \ {e}
        OBVIOUS
      <3>7. w \in SUBSET S /\ it[w] \in Int /\ h[e] \in Int /\ h[c] \in Int
        BY <1>2, <2>3, <3>1, <3>6 DEF Numbers
      <3>8. it[s] = h[c] + (h[e] + it[w]) /\ it[u] = h[c] + it[w]
        BY <2>3, <3>1, <3>3, <3>5, <3>6
      <3>9. it[s] = h[e] + it[u]
        BY <3>7, <3>8
      <3>10. QED
        BY <3>2, <3>9
    <2>6. QED
      BY <2>4, <2>5
  <1> HIDE DEF Good
  <1>4. \A s \in SUBSET S : s \in Good
    BY <1>3, EverySubset
  <1>5. QED
    BY <1>1, <1>4 DEF Good

\* What is added for a set depends on the numbers of that set only.
LEMMA AdderWithin ==
  ASSUME NEW S, IsFiniteSet(S), NEW h \in Numbers(S), NEW T \in SUBSET S
  PROVE  \A s \in SUBSET T : Adder([e \in T |-> h[e]])[s] = Adder(h)[s]
  <1>1. PICK g : g = [e \in T |-> h[e]]
    OBVIOUS
  <1>2. IsFiniteSet(T) /\ g \in Numbers(T)
    BY <1>1, FS_Subset DEF Numbers
  <1>3. PICK it : it = Adder(h)
    OBVIOUS
  <1>4. PICK iu : iu = Adder(g)
    OBVIOUS
  <1>5. it[{}] = 0 /\ \A s \in SUBSET S : s # {} => it[s] = h[Some(s)] + it[s \ {Some(s)}]
    BY <1>3, AdderStep, ZenonT(60)
  <1>6. iu[{}] = 0 /\ \A s \in SUBSET T : s # {} => iu[s] = g[Some(s)] + iu[s \ {Some(s)}]
    BY <1>2, <1>4, AdderStep, ZenonT(60)
  <1> DEFINE Good == {s \in SUBSET T : iu[s] = it[s]}
  <1>7. ASSUME NEW s \in SUBSET T, \A U \in SUBSET s : U # s => U \in Good PROVE s \in Good
    <2>1. CASE s = {}
      BY <1>5, <1>6, <2>1
    <2>2. CASE s # {}
      <3>1. PICK c \in s : c = Some(s)
        BY <2>2, SomeIn
      <3>2. s \ {c} \in SUBSET s /\ s \ {c} # s
        OBVIOUS
      <3>3. s \ {c} \in Good
        BY <1>7, <3>2
      <3>4. it[s] = h[c] + it[s \ {c}]
        BY <1>5, <2>2, <3>1
      <3>5. iu[s] = g[c] + iu[s \ {c}]
        BY <1>6, <2>2, <3>1
      <3>6. g[c] = h[c]
        BY <1>1
      <3>7. QED
        BY <3>3, <3>4, <3>5, <3>6
    <2>3. QED
      BY <2>1, <2>2
  <1> HIDE DEF Good
  <1>8. \A s \in SUBSET T : s \in Good
    BY <1>2, <1>7, EverySubset
  <1>9. QED
    BY <1>1, <1>3, <1>4, <1>8 DEF Good

\* The part of a sum over a subset.
Over(h, T) == Sum([e \in T |-> h[e]])

StepFits(h, T, e) ==
    h[e] \in Int /\ Over(h, T \ {e}) \in Int /\ Over(h, T) = h[e] + Over(h, T \ {e})
PartsAddUp(h, S) ==
    /\ Sum(h) = Over(h, S)
    /\ Over(h, {}) = 0
    /\ \A T \in SUBSET S : Over(h, T) \in Int
    /\ \A T \in SUBSET S : \A e \in T : StepFits(h, T, e)

LEMMA SumOver ==
  ASSUME NEW S, IsFiniteSet(S), NEW h \in Numbers(S)
  PROVE  PartsAddUp(h, S)
  <1>1. ASSUME NEW T \in SUBSET S PROVE Over(h, T) = Adder(h)[T]
    <2>1. PICK g : g = [e \in T |-> h[e]]
      OBVIOUS
    <2>2. DOMAIN g = T /\ T \in SUBSET T
      BY <2>1
    <2>3. Adder(g)[T] = Adder(h)[T]
      BY <2>1, <2>2, AdderWithin
    <2>4. Sum(g) = Adder(g)[T]
      BY <2>2, SumIsAdder
    <2>5. QED
      BY <2>1, <2>3, <2>4 DEF Over
  <1>2. h = [e \in S |-> h[e]]
    BY DEF Numbers
  <1>3. Sum(h) = Over(h, S)
    BY <1>2 DEF Over
  <1>4. Over(h, {}) = 0
    BY <1>1, AdderStep
  <1>5. \A T \in SUBSET S : Over(h, T) \in Int
    BY <1>1, AdderStep
  <1>6. ASSUME NEW T \in SUBSET S, NEW e \in T PROVE Over(h, T) = h[e] + Over(h, T \ {e})
    <2>1. T \ {e} \in SUBSET S
      OBVIOUS
    <2>2. Adder(h)[T] = h[e] + Adder(h)[T \ {e}]
      BY AnyStep
    <2>3. QED
      BY <1>1, <2>1, <2>2
  <1>7. ASSUME NEW T \in SUBSET S, NEW e \in T PROVE h[e] \in Int /\ Over(h, T \ {e}) \in Int
    <2>1. T \ {e} \in SUBSET S
      OBVIOUS
    <2>2. QED
      BY <1>5, <2>1 DEF Numbers
  <1>8. QED
    BY <1>3, <1>4, <1>5, <1>6, <1>7 DEF PartsAddUp, StepFits

\* Induction over the subsets of a finite set, one element at a time.
LEMMA OneByOne ==
  ASSUME NEW S, IsFiniteSet(S), NEW Good, {} \in Good,
         \A T \in SUBSET S : \A e \in T : T \ {e} \in Good => T \in Good
  PROVE  \A T \in SUBSET S : T \in Good
  <1>1. ASSUME NEW T \in SUBSET S, \A U \in SUBSET T : U # T => U \in Good PROVE T \in Good
    <2>1. CASE T = {}
      BY <2>1
    <2>2. CASE T # {}
      <3>1. PICK e \in T : TRUE
        BY <2>2
      <3>2. T \ {e} \in SUBSET T /\ T \ {e} # T
        BY <3>1
      <3>3. QED
        BY <1>1, <3>1, <3>2
    <2>3. QED
      BY <2>1, <2>2
  <1>2. QED
    BY <1>1, EverySubset

\* Sums are linear.
LEMMA SumLinear ==
  ASSUME NEW S, IsFiniteSet(S), NEW k \in Int,
         NEW a \in Numbers(S), NEW b \in Numbers(S), NEW c \in Numbers(S),
         \A e \in S : c[e] = k * a[e] + b[e]
  PROVE  Sum(a) \in Int /\ Sum(b) \in Int /\ Sum(c) = k * Sum(a) + Sum(b)
  <1> DEFINE Good == {T \in SUBSET S : Over(c, T) = k * Over(a, T) + Over(b, T)}
  <1>0. PartsAddUp(a, S) /\ PartsAddUp(b, S) /\ PartsAddUp(c, S)
    BY SumOver
  <1>1. {} \in Good
    BY <1>0 DEF PartsAddUp
  <1>2. ASSUME NEW T \in SUBSET S, NEW e \in T, T \ {e} \in Good PROVE T \in Good
    <2>1. PICK U \in SUBSET S : U = T \ {e}
      OBVIOUS
    <2>2. /\ Over(a, U) \in Int /\ Over(b, U) \in Int /\ a[e] \in Int /\ b[e] \in Int
          /\ Over(a, T) = a[e] + Over(a, U) /\ Over(b, T) = b[e] + Over(b, U)
          /\ Over(c, T) = c[e] + Over(c, U)
      <3>1. Over(a, U) \in Int /\ a[e] \in Int /\ Over(a, T) = a[e] + Over(a, U)
        BY <1>0, <2>1 DEF PartsAddUp, StepFits
      <3>2. Over(b, U) \in Int /\ b[e] \in Int /\ Over(b, T) = b[e] + Over(b, U)
        BY <1>0, <2>1 DEF PartsAddUp, StepFits
      <3>3. Over(c, T) = c[e] + Over(c, U)
        BY <1>0, <2>1 DEF PartsAddUp, StepFits
      <3>4. QED
        BY <3>1, <3>2, <3>3
    <2>3. c[e] = k * a[e] + b[e] /\ Over(c, U) = k * Over(a, U) + Over(b, U)
      BY <1>2, <2>1
    <2>4. k * (a[e] + Over(a, U)) = k * a[e] + k * Over(a, U)
          /\ k * a[e] \in Int /\ k * Over(a, U) \in Int
      BY <2>2, Z3
    <2>5. Over(c, T) = k * Over(a, T) + Over(b, T)
      BY <2>2, <2>3, <2>4
    <2>6. QED
      BY <2>5
  <1>3. S \in Good
    BY <1>1, <1>2, OneByOne
  <1>4. QED
    BY <1>0, <1>3 DEF PartsAddUp

\* A sum of smaller numbers is smaller.
LEMMA SumMonotone ==
  ASSUME NEW S, IsFiniteSet(S), NEW a \in Numbers(S), NEW b \in Numbers(S),
         \A e \in S : a[e] <= b[e]
  PROVE  Sum(a) \in Int /\ Sum(b) \in Int /\ Sum(a) <= Sum(b)
  <1> DEFINE Good == {T \in SUBSET S : Over(a, T) <= Over(b, T)}
  <1>0. PartsAddUp(a, S) /\ PartsAddUp(b, S)
    BY SumOver
  <1>1. {} \in Good
    BY <1>0 DEF PartsAddUp
  <1>2. ASSUME NEW T \in SUBSET S, NEW e \in T, T \ {e} \in Good PROVE T \in Good
    <2>1. PICK U \in SUBSET S : U = T \ {e}
      OBVIOUS
    <2>2. /\ Over(a, U) \in Int /\ Over(b, U) \in Int /\ a[e] \in Int /\ b[e] \in Int
          /\ Over(a, T) = a[e] + Over(a, U) /\ Over(b, T) = b[e] + Over(b, U)
      BY <1>0, <2>1 DEF PartsAddUp, StepFits
    <2>3. a[e] <= b[e] /\ Over(a, U) <= Over(b, U)
      BY <1>2, <2>1
    <2>4. Over(a, T) <= Over(b, T)
      BY <2>2, <2>3
    <2>5. QED
      BY <2>4
  <1>3. S \in Good
    BY <1>1, <1>2, OneByOne
  <1>4. QED
    BY <1>0, <1>3 DEF PartsAddUp

\* A sum of the same number.
LEMMA SumConstant ==
  ASSUME NEW S, IsFiniteSet(S), NEW k \in Int, NEW a \in Numbers(S), \A e \in S : a[e] = k
  PROVE  Cardinality(S) \in Nat /\ Sum(a) = k * Cardinality(S)
  <1> DEFINE Good == {T \in SUBSET S : Over(a, T) = k * Cardinality(T)}
  <1>0. PartsAddUp(a, S)
    BY SumOver
  <1>2. {} \in Good
    BY <1>0, FS_EmptySet DEF PartsAddUp
  <1>3. ASSUME NEW T \in SUBSET S, NEW e \in T, T \ {e} \in Good PROVE T \in Good
    <2>1. PICK U \in SUBSET S : U = T \ {e}
      OBVIOUS
    <2>2. Over(a, T) = k + Over(a, U)
      BY <1>0, <2>1 DEF PartsAddUp, StepFits
    <2>3. IsFiniteSet(T) /\ Cardinality(T) \in Nat /\ Cardinality(U) \in Nat /\ Cardinality(U) = Cardinality(T) - 1
      <3>1. IsFiniteSet(T) /\ IsFiniteSet(U)
        BY FS_Subset
      <3>2. QED
        BY <2>1, <3>1, FS_RemoveElement, FS_CardinalityType
    <2>4. Over(a, U) = k * Cardinality(U)
      BY <1>3, <2>1
    <2>5. k * Cardinality(T) = k + k * (Cardinality(T) - 1)
      BY <2>3, Z3
    <2>6. Over(a, T) = k * Cardinality(T)
      BY <2>2, <2>3, <2>4, <2>5
    <2>7. QED
      BY <2>6
  <1> HIDE DEF Good
  <1>4. S \in Good
    BY <1>2, <1>3, OneByOne, Zenon
  <1>5. QED
    BY <1>0, <1>4, FS_CardinalityType DEF PartsAddUp, Good

\* A sum over a set in two parts is the sum of the sums over them.
LEMMA SumInParts ==
  ASSUME NEW S, IsFiniteSet(S), NEW a \in Numbers(S), NEW T \in SUBSET S
  PROVE  Over(a, T) \in Int /\ Over(a, S \ T) \in Int /\ Sum(a) = Over(a, T) + Over(a, S \ T)
  <1> DEFINE Good == {U \in SUBSET S : Over(a, U) = Over(a, U \cap T) + Over(a, U \ T)}
  <1>0. PartsAddUp(a, S)
    BY SumOver
  <1>1. {} \in Good
    <2>1. {} \cap T = {} /\ {} \ T = {}
      OBVIOUS
    <2>2. QED
      BY <1>0, <2>1 DEF PartsAddUp, StepFits
  <1>2. ASSUME NEW U \in SUBSET S, NEW e \in U, U \ {e} \in Good PROVE U \in Good
    <2>1. PICK R \in SUBSET S : R = U \ {e}
      OBVIOUS
    <2> DEFINE in == R \cap T
               out == R \ T
    <2>2. Over(a, in) \in Int /\ Over(a, out) \in Int /\ a[e] \in Int /\ Over(a, U) = a[e] + Over(a, R)
      <3>1. in \in SUBSET S /\ out \in SUBSET S
        OBVIOUS
      <3>2. Over(a, in) \in Int /\ Over(a, out) \in Int
        BY <1>0, <3>1 DEF PartsAddUp
      <3>3. a[e] \in Int /\ Over(a, U) = a[e] + Over(a, R)
        BY <1>0, <2>1 DEF PartsAddUp, StepFits
      <3>4. QED
        BY <3>2, <3>3
    <2>3. Over(a, R) = Over(a, in) + Over(a, out)
      BY <1>2, <2>1
    <2>4. CASE e \in T
      <3>1. U \ T = out /\ (U \cap T) \ {e} = in /\ e \in U \cap T /\ U \cap T \in SUBSET S
        BY <2>1, <2>4
      <3>2. PICK V \in SUBSET S : V = U \cap T
        BY <3>1
      <3>3. V \ {e} = in /\ e \in V
        BY <3>1, <3>2
      <3> HIDE DEF in, out
      <3>4. Over(a, V) = a[e] + Over(a, in)
        BY <1>0, <3>3 DEF PartsAddUp, StepFits
      <3>5. Over(a, U) = Over(a, V) + Over(a, out)
        BY <2>2, <2>3, <3>4
      <3>6. QED
        BY <3>1, <3>2, <3>5
    <2>5. CASE e \notin T
      <3>1. U \cap T = in /\ (U \ T) \ {e} = out /\ e \in U \ T /\ U \ T \in SUBSET S
        BY <2>1, <2>5
      <3>2. PICK V \in SUBSET S : V = U \ T
        BY <3>1
      <3>3. V \ {e} = out /\ e \in V
        BY <3>1, <3>2
      <3> HIDE DEF in, out
      <3>4. Over(a, V) = a[e] + Over(a, out)
        BY <1>0, <3>3 DEF PartsAddUp, StepFits
      <3>5. Over(a, U) = Over(a, in) + Over(a, V)
        BY <2>2, <2>3, <3>4
      <3>6. QED
        BY <3>1, <3>2, <3>5
    <2>6. QED
      BY <2>4, <2>5
  <1>3. S \in Good
    BY <1>1, <1>2, OneByOne, ZenonT(60)
  <1>4. S \cap T = T
    OBVIOUS
  <1>5. QED
    BY <1>0, <1>3, <1>4 DEF PartsAddUp

\* What is zero adds nothing.
LEMMA SumOfSome ==
  ASSUME NEW S, IsFiniteSet(S), NEW T \in SUBSET S, NEW a \in Numbers(S), \A e \in S \ T : a[e] = 0
  PROVE  Sum(a) = Sum([e \in T |-> a[e]]) /\ Sum(a) \in Int
  <1>1. Over(a, T) \in Int /\ Sum(a) = Over(a, T) + Over(a, S \ T)
    BY SumInParts
  <1>3. IsFiniteSet(S \ T)
    BY FS_Subset
  <1>4. PICK z : z = [e \in S \ T |-> a[e]]
    OBVIOUS
  <1>5. z \in Numbers(S \ T) /\ \A e \in S \ T : z[e] = 0
    BY <1>4 DEF Numbers
  <1>6. Cardinality(S \ T) \in Nat /\ Sum(z) = 0 * Cardinality(S \ T)
    BY <1>3, <1>5, SumConstant
  <1>7. Over(a, S \ T) = Sum(z)
    BY <1>4 DEF Over
  <1>8. QED
    BY <1>1, <1>6, <1>7 DEF Over

\* A sum lies between its least and its greatest number, times their number.
LEMMA SumBetween ==
  ASSUME NEW S, IsFiniteSet(S), NEW a \in Numbers(S), NEW lo \in Int, NEW hi \in Int,
         \A e \in S : lo <= a[e] /\ a[e] <= hi
  PROVE  /\ Cardinality(S) \in Nat /\ Sum(a) \in Int
         /\ lo * Cardinality(S) <= Sum(a) /\ Sum(a) <= hi * Cardinality(S)
  <1>1. PICK b \in Numbers(S) : b = [e \in S |-> lo]
    BY DEF Numbers
  <1>2. PICK c \in Numbers(S) : c = [e \in S |-> hi]
    BY DEF Numbers
  <1>3. Sum(a) \in Int /\ Sum(b) <= Sum(a)
    BY <1>1, SumMonotone
  <1>4. Sum(a) <= Sum(c)
    BY <1>2, SumMonotone
  <1>5. Cardinality(S) \in Nat /\ Sum(b) = lo * Cardinality(S)
    BY <1>1, SumConstant
  <1>6. Sum(c) = hi * Cardinality(S)
    BY <1>2, SumConstant
  <1>7. QED
    BY <1>3, <1>4, <1>5, <1>6
=============================================================================
