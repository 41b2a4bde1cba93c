---------------------------- MODULE GradingProofs ----------------------------
(***************************************************************************)
(* Proofs about Grading, for every exam, all answers, grading runs and     *)
(* override requests, and whatever a lecturer makes of the questions.      *)
(***************************************************************************)
EXTENDS Grading, FiniteSetTheorems, WellFoundedInduction, TLAPS

-----------------------------------------------------------------------------
(* Sums.  What holds of all finite sets is shown of a smallest for which   *)
(* it would not hold.                                                      *)

\* A set of finite sets that is not empty has a member with no smaller one.
LEMMA Smallest ==
    ASSUME NEW D, IsFiniteSet(D), NEW Bad, Bad \subseteq SUBSET D, Bad # {}
    PROVE  \E T \in Bad : \A U \in Bad : U \subseteq T => U = T
<1>1. IsWellFoundedOn(StrictSubsetOrdering(D), SUBSET D)
  BY FS_FiniteSubsetsOfFinite, FS_StrictSubsetOrderingWellFounded, Zenon
<1>2. PICK T \in Bad : \A U \in Bad : ~(<<U, T>> \in StrictSubsetOrdering(D))
  BY <1>1, WFMin, Zenon
<1>3. ASSUME NEW U \in Bad, U \subseteq T, U # T PROVE FALSE
  <2>1. <<U, T>> \in StrictSubsetOrdering(D)
    BY <1>3 DEF StrictSubsetOrdering
  <2> QED
    BY <1>2, <2>1
<1> QED
  BY <1>3

Pick(s) == CHOOSE x \in s : TRUE

IsFold(F, f, T) ==
    F = [s \in SUBSET T |-> IF s = {} THEN 0 ELSE f[Pick(s)] + F[s \ {Pick(s)}]]

LEMMA SumIsFold ==
    ASSUME NEW f, NEW T
    PROVE  SumFunctionOnSet(f, T) = (CHOOSE F : IsFold(F, f, T))[T]
BY DEF SumFunctionOnSet, FoldFunctionOnSet, MapThenFoldSet, IsFold, Pick

\* Two folds agree where both are defined.
LEMMA FoldsAgree ==
    ASSUME NEW f, NEW T, IsFiniteSet(T), NEW U, U \subseteq T,
           NEW F, IsFold(F, f, T), NEW G, IsFold(G, f, U)
    PROVE  \A s \in SUBSET U : F[s] = G[s]
<1> DEFINE Bad == {s \in SUBSET U : F[s] # G[s]}
<1> SUFFICES ASSUME Bad # {} PROVE FALSE
  OBVIOUS
<1>1. IsFiniteSet(U)
  BY FS_Subset
<1>0. Bad \subseteq SUBSET U
  OBVIOUS
<1> HIDE DEF Bad
<1>2. PICK s \in Bad : \A u \in Bad : u \subseteq s => u = s
  BY <1>0, <1>1, Smallest
<1> USE DEF Bad
<1>3. F[s] = IF s = {} THEN 0 ELSE f[Pick(s)] + F[s \ {Pick(s)}]
  BY DEF IsFold
<1>4. G[s] = IF s = {} THEN 0 ELSE f[Pick(s)] + G[s \ {Pick(s)}]
  BY DEF IsFold
<1>5. CASE s = {}
  BY <1>3, <1>4, <1>5
<1>6. CASE s # {}
  <2>1. Pick(s) \in s
    BY <1>6 DEF Pick
  <2>2. s \ {Pick(s)} \notin Bad
    BY <1>2, <2>1
  <2> QED
    BY <1>3, <1>4, <2>2
<1> QED
  BY <1>5, <1>6

LEMMA FoldExists ==
    ASSUME NEW f, NEW D, IsFiniteSet(D)
    PROVE  \E F : IsFold(F, f, D)
<1> DEFINE Bad == {T \in SUBSET D : ~ \E F : IsFold(F, f, T)}
<1> SUFFICES ASSUME Bad # {} PROVE FALSE
  OBVIOUS
<1>0. Bad \subseteq SUBSET D
  OBVIOUS
<1> HIDE DEF Bad
<1>1. PICK T \in Bad : \A U \in Bad : U \subseteq T => U = T
  BY <1>0, Smallest
<1> USE DEF Bad
<1>2. IsFiniteSet(T)
  BY FS_Subset
<1> DEFINE fold(U) == CHOOSE F : IsFold(F, f, U)
<1>3. ASSUME NEW U \in SUBSET T, U # T
      PROVE  IsFold(fold(U), f, U)
  BY <1>1, <1>3
<1> DEFINE term(s) == IF s = {} THEN 0 ELSE f[Pick(s)] + fold(s \ {Pick(s)})[s \ {Pick(s)}]
           F == [s \in SUBSET T |-> term(s)]
<1>4. ASSUME NEW U \in SUBSET T, U # T
      PROVE  term(U) = fold(U)[U]
  <2>1. IsFold(fold(U), f, U)
    BY <1>3, <1>4
  <2>2. fold(U)[U] = IF U = {} THEN 0 ELSE f[Pick(U)] + fold(U)[U \ {Pick(U)}]
    BY <2>1 DEF IsFold
  <2>3. CASE U # {}
    <3> DEFINE V == U \ {Pick(U)}
    <3>1. V \in SUBSET T /\ V # T /\ V \subseteq U
      BY <1>4
    <3>2. IsFold(fold(V), f, V)
      BY <1>3, <3>1
    <3>3. IsFiniteSet(U)
      BY <1>2, FS_Subset
    <3> HIDE DEF fold
    <3>4. fold(U)[V] = fold(V)[V]
      BY <2>1, <3>1, <3>2, <3>3, FoldsAgree
    <3> QED
      BY <2>2, <2>3, <3>4
  <2>4. CASE U = {}
    BY <2>2, <2>4
  <2> QED
    BY <2>3, <2>4
<1> HIDE DEF fold
<1>5. ASSUME NEW s \in SUBSET T, s # {}
      PROVE  fold(s \ {Pick(s)})[s \ {Pick(s)}] = F[s \ {Pick(s)}]
  <2>1. Pick(s) \in s
    BY <1>5 DEF Pick
  <2>2. s \ {Pick(s)} \in SUBSET T /\ s \ {Pick(s)} # T
    BY <2>1
  <2> QED
    BY <1>4, <2>2
<1>6. F = [s \in SUBSET T |-> IF s = {} THEN 0 ELSE f[Pick(s)] + F[s \ {Pick(s)}]]
  BY <1>5
<1> QED
  BY <1>1, <1>6 DEF IsFold

\* The recursive definition behind the sum.
LEMMA SumUnfolds ==
    ASSUME NEW f, NEW T, IsFiniteSet(T)
    PROVE  SumFunctionOnSet(f, T) =
             IF T = {} THEN 0 ELSE f[Pick(T)] + SumFunctionOnSet(f, T \ {Pick(T)})
<1> DEFINE F == CHOOSE F : IsFold(F, f, T)
           U == T \ {Pick(T)}
           G == CHOOSE G : IsFold(G, f, U)
<1>1. IsFiniteSet(U)
  BY FS_Subset
<1>2. IsFold(F, f, T) /\ IsFold(G, f, U)
  BY <1>1, FoldExists
<1>3. SumFunctionOnSet(f, T) = F[T] /\ SumFunctionOnSet(f, U) = G[U]
  BY SumIsFold
<1>4. F[T] = IF T = {} THEN 0 ELSE f[Pick(T)] + F[U]
  BY <1>2 DEF IsFold
<1> HIDE DEF F, G
<1>5. F[U] = G[U]
  BY <1>2, FoldsAgree
<1> QED
  BY <1>3, <1>4, <1>5

LEMMA SumEmpty == ASSUME NEW f PROVE SumFunctionOnSet(f, {}) = 0
BY SumUnfolds, FS_EmptySet

LEMMA SumIsInt ==
    ASSUME NEW D, IsFiniteSet(D), NEW f, \A x \in D : f[x] \in Int
    PROVE  SumFunctionOnSet(f, D) \in Int
<1> DEFINE Bad == {T \in SUBSET D : SumFunctionOnSet(f, T) \notin Int}
<1> SUFFICES ASSUME Bad # {} PROVE FALSE
  OBVIOUS
<1>0. Bad \subseteq SUBSET D
  OBVIOUS
<1> HIDE DEF Bad
<1>1. PICK T \in Bad : \A U \in Bad : U \subseteq T => U = T
  BY <1>0, Smallest
<1> USE DEF Bad
<1>2. IsFiniteSet(T)
  BY FS_Subset
<1>3. CASE T = {}
  BY <1>3, SumEmpty
<1>4. CASE T # {}
  <2>1. Pick(T) \in T
    BY <1>4 DEF Pick
  <2>2. SumFunctionOnSet(f, T \ {Pick(T)}) \in Int /\ f[Pick(T)] \in Int
    BY <1>1, <2>1
  <2> QED
    BY <1>2, <1>4, <2>2, SumUnfolds
<1> QED
  BY <1>3, <1>4

\* The order in which a sum is taken does not matter.
LEMMA SumTakes ==
    ASSUME NEW D, IsFiniteSet(D), NEW f, \A x \in D : f[x] \in Int, NEW a \in D
    PROVE  SumFunctionOnSet(f, D) = f[a] + SumFunctionOnSet(f, D \ {a})
<1> DEFINE Sum(T) == SumFunctionOnSet(f, T)
           Bad == {T \in SUBSET D : \E x \in T : Sum(T) # f[x] + Sum(T \ {x})}
<1> SUFFICES ASSUME Bad # {} PROVE FALSE
  OBVIOUS
<1>0. Bad \subseteq SUBSET D
  OBVIOUS
<1> HIDE DEF Bad
<1>1. PICK T \in Bad : \A U \in Bad : U \subseteq T => U = T
  BY <1>0, Smallest
<1> USE DEF Bad
<1>2. PICK x \in T : Sum(T) # f[x] + Sum(T \ {x})
  OBVIOUS
<1>3. PICK y : y = Pick(T)
  OBVIOUS
<1>4. y \in T
  BY <1>3 DEF Pick
<1>5. Sum(T) = f[y] + Sum(T \ {y})
  BY <1>3, <1>4, FS_Subset, SumUnfolds
<1>6. x # y
  BY <1>2, <1>5
<1>7. T \ {x} \notin Bad /\ T \ {y} \notin Bad
  BY <1>1, <1>4
<1>8. Sum(T \ {y}) = f[x] + Sum((T \ {y}) \ {x})
  BY <1>4, <1>6, <1>7
<1>9. Sum(T \ {x}) = f[y] + Sum((T \ {x}) \ {y})
  BY <1>4, <1>6, <1>7
<1>10. (T \ {y}) \ {x} = (T \ {x}) \ {y}
  OBVIOUS
<1>11. Sum((T \ {x}) \ {y}) \in Int
  <2>1. IsFiniteSet((T \ {x}) \ {y})
    BY FS_Subset
  <2> QED
    BY <2>1, SumIsInt
<1>12. f[x] \in Int /\ f[y] \in Int
  BY <1>4
<1> HIDE DEF Sum
<1> QED
  BY <1>2, <1>5, <1>8, <1>9, <1>10, <1>11, <1>12

\* A sum of no more is no more.
LEMMA SumIsMonotone ==
    ASSUME NEW D, IsFiniteSet(D), NEW f, NEW g,
           \A x \in D : f[x] \in Int /\ g[x] \in Int /\ f[x] <= g[x]
    PROVE  SumFunctionOnSet(f, D) <= SumFunctionOnSet(g, D)
<1> DEFINE Bad == {T \in SUBSET D : ~(SumFunctionOnSet(f, T) <= SumFunctionOnSet(g, T))}
<1> SUFFICES ASSUME Bad # {} PROVE FALSE
  OBVIOUS
<1>0. Bad \subseteq SUBSET D
  OBVIOUS
<1> HIDE DEF Bad
<1>1. PICK T \in Bad : \A U \in Bad : U \subseteq T => U = T
  BY <1>0, Smallest
<1> USE DEF Bad
<1>2. T # {}
  BY SumEmpty
<1>3. PICK x \in T : TRUE
  BY <1>2
<1>4. SumFunctionOnSet(f, T \ {x}) <= SumFunctionOnSet(g, T \ {x})
  BY <1>1
<1>5. IsFiniteSet(T) /\ IsFiniteSet(T \ {x})
  BY FS_Subset
<1>6. /\ SumFunctionOnSet(f, T) = f[x] + SumFunctionOnSet(f, T \ {x})
      /\ SumFunctionOnSet(g, T) = g[x] + SumFunctionOnSet(g, T \ {x})
  BY <1>5, SumTakes
<1>7. SumFunctionOnSet(f, T \ {x}) \in Int /\ SumFunctionOnSet(g, T \ {x}) \in Int
  BY <1>5, SumIsInt
<1>8. f[x] \in Int /\ g[x] \in Int /\ f[x] <= g[x]
  OBVIOUS
<1> QED
  BY <1>4, <1>6, <1>7, <1>8

\* Only what is summed matters.
LEMMA SumIsSame ==
    ASSUME NEW D, IsFiniteSet(D), NEW f, NEW g, \A x \in D : f[x] \in Int /\ f[x] = g[x]
    PROVE  SumFunctionOnSet(f, D) = SumFunctionOnSet(g, D)
<1>1. SumFunctionOnSet(f, D) \in Int /\ SumFunctionOnSet(g, D) \in Int
  BY SumIsInt
<1>2. \A x \in D : f[x] <= g[x] /\ g[x] <= f[x] /\ g[x] \in Int
  OBVIOUS
<1>3. SumFunctionOnSet(f, D) <= SumFunctionOnSet(g, D)
  BY <1>2, SumIsMonotone
<1>4. SumFunctionOnSet(g, D) <= SumFunctionOnSet(f, D)
  BY <1>2, SumIsMonotone
<1> QED
  BY <1>1, <1>3, <1>4

LEMMA SumAdds ==
    ASSUME NEW D, IsFiniteSet(D), NEW a, a \notin D, NEW f,
           \A x \in D \cup {a} : f[x] \in Int
    PROVE  SumFunctionOnSet(f, D \cup {a}) = f[a] + SumFunctionOnSet(f, D)
<1>1. IsFiniteSet(D \cup {a}) /\ (D \cup {a}) \ {a} = D
  BY FS_AddElement
<1> QED
  BY <1>1, SumTakes

\* More summands that are not negative make no smaller sum; none that is not
\* zero makes the same.
LEMMA SumGrows ==
    ASSUME NEW D, IsFiniteSet(D), NEW U \in SUBSET D, NEW f, \A x \in D : f[x] \in Int,
           \A x \in D \ U : f[x] >= 0
    PROVE  /\ SumFunctionOnSet(f, U) <= SumFunctionOnSet(f, D)
           /\ (\A x \in D \ U : f[x] = 0) => SumFunctionOnSet(f, U) = SumFunctionOnSet(f, D)
<1> DEFINE Sum(T) == SumFunctionOnSet(f, T)
           Zero == \A x \in D \ U : f[x] = 0
           Bad == {T \in SUBSET D : U \subseteq T /\ ~(Sum(U) <= Sum(T) /\ (Zero => Sum(U) = Sum(T)))}
<1> SUFFICES ASSUME Bad # {} PROVE FALSE
  OBVIOUS
<1>0. Bad \subseteq SUBSET D
  OBVIOUS
<1> HIDE DEF Bad
<1>1. PICK T \in Bad : \A V \in Bad : V \subseteq T => V = T
  BY <1>0, Smallest
<1> USE DEF Bad
<1>2. IsFiniteSet(T) /\ IsFiniteSet(U)
  BY FS_Subset
<1>3. Sum(U) \in Int
  BY <1>2, SumIsInt
<1>4. PICK x \in T \ U : TRUE
  BY <1>3
<1>5. IsFiniteSet(T \ {x}) /\ T \ {x} \notin Bad
  BY <1>1, <1>2, FS_Subset
<1>6. Sum(U) <= Sum(T \ {x}) /\ (Zero => Sum(U) = Sum(T \ {x}))
  BY <1>4, <1>5
<1>7. Sum(T) = f[x] + Sum(T \ {x})
  BY <1>2, SumTakes
<1>8. Sum(T \ {x}) \in Int
  BY <1>5, SumIsInt
<1>9. f[x] \in Int /\ f[x] >= 0 /\ (Zero => f[x] = 0)
  OBVIOUS
<1> HIDE DEF Sum, Zero
<1>10. Sum(U) <= Sum(T) /\ (Zero => Sum(U) = Sum(T))
  BY <1>3, <1>6, <1>7, <1>8, <1>9
<1> QED
  BY <1>10

LEMMA SumOfNothing ==
    ASSUME NEW D, IsFiniteSet(D), NEW f, \A x \in D : f[x] = 0
    PROVE  SumFunctionOnSet(f, D) = 0
<1>1. {} \in SUBSET D /\ \A x \in D : f[x] \in Int /\ f[x] >= 0
  OBVIOUS
<1> QED
  BY <1>1, SumGrows, SumEmpty

\* A sum by way of an injection is one over its image.
LEMMA SumOfInjected ==
    ASSUME NEW A, IsFiniteSet(A), NEW D, IsFiniteSet(D), NEW q, \A a \in A : q[a] \in D,
           \A a, b \in A : q[a] = q[b] => a = b,
           NEW h, \A x \in D : h[x] \in Nat, NEW f, \A a \in A : f[a] = h[q[a]]
    PROVE  SumFunctionOnSet(f, A) <= SumFunctionOnSet(h, D)
<1> DEFINE Image(T) == {q[a] : a \in T}
           Bad == {T \in SUBSET A : SumFunctionOnSet(f, T) # SumFunctionOnSet(h, Image(T))}
<1>0. Bad \subseteq SUBSET A
  OBVIOUS
<1>1. ASSUME Bad # {} PROVE FALSE
  <2> HIDE DEF Bad
  <2>1. PICK T \in Bad : \A U \in Bad : U \subseteq T => U = T
    BY <1>0, <1>1, Smallest
  <2> USE DEF Bad
  <2>2. T # {}
    <3>1. Image({}) = {}
      OBVIOUS
    <3> QED
      BY <3>1, SumEmpty
  <2>3. PICK a \in T : TRUE
    BY <2>2
  <2>4. SumFunctionOnSet(f, T \ {a}) = SumFunctionOnSet(h, Image(T \ {a}))
    BY <2>1, <2>3
  <2>5. Image(T \ {a}) = Image(T) \ {q[a]} /\ q[a] \in Image(T)
    OBVIOUS
  <2>6. IsFiniteSet(T) /\ IsFiniteSet(Image(T))
    <3>1. IsFiniteSet(T)
      BY FS_Subset
    <3>2. Image(T) \in SUBSET D
      OBVIOUS
    <3> QED
      BY <3>1, <3>2, FS_Subset
  <2>7. SumFunctionOnSet(f, T) = f[a] + SumFunctionOnSet(f, T \ {a})
    <3>1. \A x \in T : f[x] \in Int
      OBVIOUS
    <3> QED
      BY <2>6, <3>1, SumTakes
  <2>8. SumFunctionOnSet(h, Image(T)) = h[q[a]] + SumFunctionOnSet(h, Image(T) \ {q[a]})
    <3>1. \A x \in Image(T) : h[x] \in Int
      OBVIOUS
    <3> HIDE DEF Image
    <3> QED
      BY <2>5, <2>6, <3>1, SumTakes
  <2>9. f[a] = h[q[a]]
    OBVIOUS
  <2> QED
    BY <2>4, <2>5, <2>7, <2>8, <2>9
<1>2. SumFunctionOnSet(f, A) = SumFunctionOnSet(h, Image(A))
  BY <1>1
<1>3. Image(A) \in SUBSET D /\ \A x \in D : h[x] \in Int /\ h[x] >= 0
  OBVIOUS
<1> HIDE DEF Image
<1> QED
  BY <1>2, <1>3, SumGrows
-----------------------------------------------------------------------------
(* Partial scoring.                                                        *)

\* Partial scoring of a question that is worth something.
LEMMA PointsOfPositive ==
    ASSUME NEW n \in Nat, NEW w \in Nat, NEW p \in 0..n
    PROVE  PointsEarned(p, n, w) \in 0..w
<1>1. CASE n = 0
  BY <1>1 DEF PointsEarned
<1>2. CASE n > 0
  <2> DEFINE earned == (p * w) \div n
  <2>1. p * w \in Nat /\ p * w <= n * w
    OBVIOUS
  <2>2. /\ earned \in Int
        /\ earned * n <= p * w
        /\ p * w < (earned + 1) * n
    BY <1>2, <2>1
  <2>3. earned >= 0
    BY <1>2, <2>1, <2>2
  <2>4. earned <= w
    BY <1>2, <2>1, <2>2
  <2> QED
    BY <1>2, <2>1, <2>2, <2>3, <2>4 DEF PointsEarned, Quotient
<1> QED
  BY <1>1, <1>2

\* Partial scoring awards no less than nothing and no more than full points; of
\* a question worth less than nothing, no more than nothing and no less than all.
LEMMA PointsInRange ==
    ASSUME NEW n \in Nat, NEW w \in Int, NEW p \in 0..n
    PROVE  PointsEarned(p, n, w) \in Between(0, w)
<1>1. CASE w >= 0
  BY <1>1, PointsOfPositive DEF Between
<1>2. CASE n = 0
  BY <1>2 DEF PointsEarned, Between
<1>3. CASE w < 0 /\ n > 0
  <2>1. -w \in Nat /\ p * w \in Int /\ -(p * w) = p * (-w) /\ p * w <= 0
    BY <1>3
  <2>2. PointsEarned(p, n, -w) = (p * (-w)) \div n
    <3>1. p * (-w) >= 0
      BY <2>1
    <3> QED
      BY <1>3, <3>1 DEF PointsEarned, Quotient
  <2>3. (p * (-w)) \div n \in 0..(-w)
    BY <2>1, <2>2, PointsOfPositive
  <2>4. CASE p * w < 0
    <3>1. PointsEarned(p, n, w) = -((p * (-w)) \div n)
      BY <1>3, <2>1, <2>4 DEF PointsEarned, Quotient
    <3> QED
      BY <1>3, <2>3, <3>1 DEF Between
  <2>5. CASE p * w = 0
    <3>1. PointsEarned(p, n, w) = 0
      BY <1>3, <2>5 DEF PointsEarned, Quotient
    <3> QED
      BY <1>3, <3>1 DEF Between
  <2> QED
    BY <2>1, <2>4, <2>5
<1> QED
  BY <1>1, <1>2, <1>3

\* Full points are awarded exactly for passing every test: the truncating
\* division neither takes a point from a perfect answer nor gives one away.
THEOREM FullMarks ==
    ASSUME NEW n \in Nat \ {0}, NEW w \in Nat \ {0}, NEW p \in 0..n
    PROVE  PointsEarned(p, n, w) = w <=> p = n
<1> DEFINE earned == (p * w) \div n
<1>1. /\ p * w \in Nat
      /\ earned \in Int
      /\ earned * n <= p * w
      /\ p * w < (earned + 1) * n
  OBVIOUS
<1>2. PointsEarned(p, n, w) = earned
  BY <1>1 DEF PointsEarned, Quotient
<1>3. CASE p = n
  <2>1. earned * n <= w * n /\ w * n < (earned + 1) * n
    BY <1>1, <1>3
  <2>2. earned <= w /\ w < earned + 1
    BY <1>1, <2>1
  <2> QED
    BY <1>1, <1>2, <1>3, <2>2
<1>4. CASE p < n
  <2>1. p * w < n * w
    BY <1>4
  <2>2. earned < w
    BY <1>1, <2>1
  <2> QED
    BY <1>2, <1>4, <2>2
<1> QED
  BY <1>3, <1>4

-----------------------------------------------------------------------------
LEMMA SumOfScoresIsInt ==
    ASSUME ScoresInv
    PROVE  SumOfScores = SumFunctionOnSet(score, Answers) /\ SumOfScores \in Int
BY GradingAssumption, SumIsInt DEF ScoresInv, TypeOK, SumOfScores, SumFunction

LEMMA InitInv == Init => ScoresInv
<1> SUFFICES ASSUME Init PROVE ScoresInv
  OBVIOUS
<1>1. points \in [Questions -> Int] /\ tests \in [Questions -> Nat]
  BY GradingAssumption DEF Init
<1>2. \A a \in Answers : Question[a] \in Questions
  BY GradingAssumption
<1>3. TypeOK
  <2>1. edits \in 0..MaxEdits /\ faults \in 0..MaxFaults
    BY GradingAssumption DEF Init
  <2>2. questions \subseteq Questions /\ ever \in [Questions -> SUBSET Int]
    BY <1>1, GradingAssumption DEF Init
  <2>3. /\ phase \in [Graders -> {"idle", "next", "question", "answer", "ended"}]
        /\ left \in [Graders -> SUBSET Answers]
        /\ at \in [Graders -> Answers \cup {NoAnswer}]
        /\ read \in [Graders -> [tests : Nat, points : Int]]
        /\ \A g \in Graders : at[g] \notin Answers /\ phase[g] = "idle"
    BY GradingAssumption DEF Init
  <2>4. /\ step \in [Lecturers -> {"idle", "score", "sum", "total"}]
        /\ target \in [Lecturers -> Answers \cup {NoAnswer}]
        /\ \A l \in Lecturers : target[l] \notin Answers /\ step[l] = "idle"
        /\ DOMAIN value = Lecturers
    BY GradingAssumption DEF Init
  <2>5. /\ answers \subseteq Answers
        /\ score \in [Answers -> Int] /\ unjudged \in [Answers -> Nat]
    BY DEF Init
  <2>6. graded \in BOOLEAN /\ alone \in BOOLEAN /\ fresh \in BOOLEAN /\ raised \in BOOLEAN
    BY DEF Init
  <2>7. /\ sum \in [Graders -> Int] /\ value \in [Lecturers -> Int]
        /\ total \in Int /\ maxScore \in Int
    <3>1. CalcMaxScore \in Int
      BY <1>1, GradingAssumption, FS_Subset, SumIsInt DEF CalcMaxScore
    <3> QED
      BY <3>1 DEF Init
  <2> QED
    <3>1. \A g \in Graders : at[g] \in Answers <=> phase[g] \in {"question", "answer"}
      BY <2>3
    <3>2. \A l \in Lecturers : target[l] \in Answers <=> step[l] # "idle"
      BY <2>4
    <3> QED
      BY <1>1, <2>1, <2>2, <2>3, <2>4, <2>5, <2>6, <2>7, <3>1, <3>2 DEF TypeOK
<1>4. ScoreInRange
  <2>1. ASSUME NEW a \in Answers PROVE score[a] \in Worthy(Question[a])
    <3>1. score[a] = 0 /\ points[Question[a]] \in ever[Question[a]]
      BY <1>2 DEF Init
    <3>2. 0 \in Between(0, points[Question[a]])
      BY <1>1, <1>2 DEF Between
    <3> QED
      BY <3>1, <3>2 DEF Worthy
  <2> QED
    BY <2>1 DEF ScoreInRange
<1>5. HeldInRange
  BY <1>3 DEF Init, HeldInRange, TypeOK
<1>6. AnswersExist
  BY DEF Init, AnswersExist
<1>7. FreshRun
  BY DEF Init, FreshRun, Running
<1> QED
  BY <1>3, <1>4, <1>5, <1>6, <1>7 DEF ScoresInv

\* Nothing was ever a possible worth that is not one any more.
LEMMA WorthyGrows ==
    ASSUME NEW q \in Questions, NEW w \in Int, ever \in [Questions -> SUBSET Int],
           points \in [Questions -> Int], Worth(q, w)
    PROVE  /\ points' \in [Questions -> Int] /\ ever' \in [Questions -> SUBSET Int]
           /\ \A r \in Questions : ever[r] \subseteq ever'[r]
           /\ \A r \in Questions : Worthy(r) \subseteq Worthy(r)'
           /\ \A r \in Questions : points[r] \in ever[r] => points'[r] \in ever'[r]
           /\ points'[q] \in ever'[q]
BY DEF Worth, Worthy

\* What every edit leaves true of the exam.
ExamKept ==
    /\ questions' \subseteq Questions
    /\ points' \in [Questions -> Int] /\ tests' \in [Questions -> Nat]
    /\ ever' \in [Questions -> SUBSET Int] /\ raised' \in BOOLEAN
    /\ \A r \in Questions : ever[r] \subseteq ever'[r]
    /\ \A r \in questions' : points'[r] \in ever'[r]
    /\ \A a \in answers : Question[a] \in questions'

LEMMA EditKeepsExam ==
    ASSUME ScoresInv, NEW q \in Questions, EditQuestion(q)
    PROVE  Edit /\ ExamKept
<1> USE GradingAssumption DEF ScoresInv, TypeOK, HeldInRange, AnswersExist, ExamKept
<1>1. ASSUME NEW w \in Worths, AddQuestion(q, w) PROVE Edit /\ ExamKept
  BY <1>1, WorthyGrows DEF AddQuestion
<1>2. ASSUME NEW w \in Worths, UpdateQuestion(q, w) PROVE Edit /\ ExamKept
  BY <1>2, WorthyGrows DEF UpdateQuestion
<1>3. CASE DeleteQuestion(q)
  BY <1>3 DEF DeleteQuestion
<1>4. CASE AddTestCases(q)
  BY <1>4 DEF AddTestCases
<1>5. CASE UpdateTestCase(q)
  BY <1>5 DEF UpdateTestCase, exam
<1>6. CASE DeleteTestCase(q)
  BY <1>6 DEF DeleteTestCase
<1> QED
  BY <1>1, <1>2, <1>3, <1>4, <1>5, <1>6 DEF EditQuestion

\* An edit touches neither answers nor scores nor what is in progress: what was
\* in range stays so because the history only grows.
LEMMA EditInv ==
    ASSUME ScoresInv, Edit, ExamKept
    PROVE  ScoresInv'
<1> USE GradingAssumption DEF ScoresInv, Edit, ExamKept, rows, result, run, edit
<1>1. TypeOK'
  <2>1. UNCHANGED <<answers, score, unjudged, graded, phase, left, at, read, step, target>>
    OBVIOUS
  <2>2. edits' \in 0..MaxEdits
    BY DEF TypeOK
  <2>3. UNCHANGED <<faults, alone>> /\ fresh' \in BOOLEAN
    OBVIOUS
  <2> QED
    BY <2>1, <2>2, <2>3 DEF TypeOK
<1>2. \A q \in Questions : Worthy(q) \subseteq Worthy(q)'
  BY DEF Worthy
<1>3. ScoreInRange'
  BY <1>2 DEF ScoreInRange, TypeOK
<1>4. HeldInRange'
  <2>1. \A q \in questions' : points'[q] \in ever'[q]
    OBVIOUS
  <2>2. ASSUME NEW g \in Graders, phase'[g] = "answer"
        PROVE  read'[g].points \in ever'[Question[at'[g]]]
    <3>1. /\ at[g] \in Answers /\ read[g].points \in ever[Question[at[g]]]
          /\ at' = at /\ read' = read /\ Question[at[g]] \in Questions
      BY <2>2 DEF TypeOK, HeldInRange
    <3> QED
      BY <3>1, <2>2 DEF TypeOK
  <2>3. ASSUME NEW l \in Lecturers, step'[l] = "score"
        PROVE  value'[l] \in Worthy(Question[target[l]])'
    <3>1. /\ target[l] \in Answers /\ value[l] \in Worthy(Question[target[l]])
          /\ value' = value /\ Question[target[l]] \in Questions
      BY <2>3 DEF TypeOK, HeldInRange
    <3> QED
      BY <3>1, <1>2
  <2> QED
    BY <2>1, <2>2, <2>3 DEF HeldInRange, Worthy
<1>5. AnswersExist'
  BY DEF AnswersExist, Running
<1>6. FreshRun'
  BY DEF FreshRun
<1> QED
  BY <1>1, <1>3, <1>4, <1>5, <1>6

\* What the runs and the overrides leave alone.
ExamStays == UNCHANGED <<questions, points, tests, ever, raised>>

\* An answer just saved, without a score, is scored as the exam would have it.
LEMMA NothingIsAttainable ==
    ASSUME ScoresInv, NEW a \in Answers, unjudged[a] = 0
    PROVE  0 \in Attainable(a)
<1> DEFINE q == Question[a]
<1>1. tests[q] \in Nat /\ points[q] \in Int
  BY GradingAssumption DEF ScoresInv, TypeOK
<1>2. PointsEarned(0, tests[q], points[q]) = 0
  BY <1>1 DEF PointsEarned, Quotient
<1> QED
  BY <1>1, <1>2 DEF Attainable
-----------------------------------------------------------------------------
\* The student's step: the answer begins at nothing, which a run that has not
\* seen it would have given it too.
LEMMA SavedInv ==
    ASSUME ScoresInv, NEW a \in Answers, AnswerSaved(a)
    PROVE  ScoresInv'
<1> USE GradingAssumption DEF ScoresInv, AnswerSaved, exam, rows, result, run, edit, marks
<1>1. TypeOK' /\ ScoreInRange' /\ HeldInRange' /\ AnswersExist'
  BY DEF TypeOK, ScoreInRange, HeldInRange, AnswersExist, Worthy, Running
<1>2. 0 \in Attainable(a) /\ score[a] = 0
  BY NothingIsAttainable DEF AnswersExist
<1>3. FreshRun'
  BY <1>2 DEF FreshRun, Running, Attainable
<1> QED
  BY <1>1, <1>3

\* A run reads as it goes; what it has not come to it does not answer for.
LEMMA StartInv ==
    ASSUME ScoresInv, NEW g \in Graders, GradeStart(g)
    PROVE  ScoresInv'
<1> USE GradingAssumption DEF ScoresInv, GradeStart, exam, rows, result, edit
<1>1. TypeOK'
  BY DEF TypeOK, Quiet
<1>2. ScoreInRange' /\ HeldInRange'
  BY DEF ScoreInRange, HeldInRange, Worthy, TypeOK
<1>3. AnswersExist'
  BY DEF AnswersExist, Running, TypeOK
<1>4. FreshRun'
  BY DEF FreshRun, Quiet, Running, TypeOK
<1> QED
  BY <1>1, <1>2, <1>3, <1>4

LEMMA TestsInv ==
    ASSUME ScoresInv, NEW g \in Graders, NEW a \in Answers, GradeTests(g, a)
    PROVE  ScoresInv'
<1> USE GradingAssumption DEF ScoresInv, GradeTests, exam, rows, result, edit, marks
<1>1. TypeOK'
  <2>1. /\ phase' \in [Graders -> {"idle", "next", "question", "answer", "ended"}]
        /\ left' \in [Graders -> SUBSET Answers]
        /\ at' \in [Graders -> Answers \cup {NoAnswer}]
    BY DEF TypeOK
  <2>2. read' \in [Graders -> [tests : Nat, points : Int]]
    <3>1. /\ read \in [Graders -> [tests : Nat, points : Int]]
          /\ tests[Question[a]] \in Nat
          /\ read' = [read EXCEPT ![g].tests = tests[Question[a]]]
      BY DEF TypeOK
    <3> HIDE DEF ScoresInv, GradeTests
    <3> QED
      BY <3>1
  <2>3. \A h \in Graders : at'[h] \in Answers <=> phase'[h] \in {"question", "answer"}
    BY DEF TypeOK
  <2> QED
    BY <2>1, <2>2, <2>3 DEF TypeOK
<1>2. ScoreInRange' /\ HeldInRange'
  BY DEF ScoreInRange, HeldInRange, Worthy, TypeOK
<1>3. AnswersExist'
  BY DEF AnswersExist, Running, TypeOK
<1>4. FreshRun'
  <2> SUFFICES ASSUME fresh PROVE FreshRun'
    BY DEF FreshRun
  <2>1. \A h \in Graders : phase'[h] # "idle" /\ phase'[h] # "ended" => Running(h)
    BY DEF Running, TypeOK
  <2>2. \A h \in Graders : Running(h) => h = g
    BY DEF FreshRun, Running
  <2>3. phase'[g] = "question" /\ at'[g] = a /\ read'[g].tests = tests[Question[a]]
    BY DEF TypeOK
  <2>4. ASSUME NEW b \in answers, \A h \in Graders : b \notin left'[h] /\ b # at'[h]
        PROVE  score[b] \in Attainable(b)
    <3>1. \A h \in Graders : b \notin left[h] /\ b # at[h]
      BY <2>3, <2>4 DEF TypeOK
    <3> QED
      BY <2>4, <3>1 DEF FreshRun
  <2> QED
    BY <2>1, <2>2, <2>3, <2>4 DEF FreshRun, Running, Attainable
<1> QED
  BY <1>1, <1>2, <1>3, <1>4

LEMMA QuestionInv ==
    ASSUME ScoresInv, NEW g \in Graders, GradeQuestion(g)
    PROVE  ScoresInv'
<1> USE GradingAssumption DEF ScoresInv, GradeQuestion, exam, rows, result, edit, marks
<1>1. TypeOK'
  <2>1. phase' \in [Graders -> {"idle", "next", "question", "answer", "ended"}]
    BY DEF TypeOK
  <2>2. read' \in [Graders -> [tests : Nat, points : Int]]
    <3>1. /\ read \in [Graders -> [tests : Nat, points : Int]]
          /\ points[Question[at[g]]] \in Int
          /\ read' = [read EXCEPT ![g].points = points[Question[at[g]]]]
      BY DEF TypeOK
    <3> HIDE DEF ScoresInv, GradeQuestion
    <3> QED
      BY <3>1
  <2>3. \A h \in Graders : at'[h] \in Answers <=> phase'[h] \in {"question", "answer"}
    BY DEF TypeOK
  <2> QED
    BY <2>1, <2>2, <2>3 DEF TypeOK
<1>2. ScoreInRange' /\ HeldInRange'
  BY DEF ScoreInRange, HeldInRange, Worthy, TypeOK, AnswersExist
<1>3. AnswersExist'
  BY DEF AnswersExist, Running, TypeOK
<1>4. FreshRun'
  <2> SUFFICES ASSUME fresh PROVE FreshRun'
    BY DEF FreshRun
  <2>1. \A h \in Graders : Running(h) /\ Running(g) => h = g
    BY DEF FreshRun
  <2>2. /\ phase'[g] = "answer" /\ read'[g].tests = read[g].tests
        /\ read'[g].points = points[Question[at[g]]] /\ phase[g] = "question"
    BY DEF TypeOK
  <2>3. \A h \in Graders : phase'[h] # "idle" /\ phase'[h] # "ended" => h = g
    BY <2>1, <2>2 DEF Running, TypeOK
  <2>4. read[g].tests = tests[Question[at[g]]]
    BY <2>2 DEF FreshRun, Running
  <2>5. UNCHANGED <<left, at, score, tests, points, unjudged>>
    OBVIOUS
  <2> QED
    BY <2>2, <2>3, <2>4, <2>5 DEF FreshRun, Running, Attainable
<1> QED
  BY <1>1, <1>2, <1>3, <1>4

\* The score an answer gets is within what its question was worth when the run
\* read it, and if nothing else is going on that is what it is worth now.
LEMMA AnswerInv ==
    ASSUME ScoresInv, NEW g \in Graders, GradeAnswer(g)
    PROVE  ScoresInv'
<1> USE GradingAssumption DEF ScoresInv
<1>1. /\ phase[g] = "answer" /\ at[g] \in Answers
      /\ read[g].tests \in Nat /\ read[g].points \in Int
  BY DEF GradeAnswer, TypeOK
<1>2. PICK a \in Answers, n \in Nat, w \in Int :
        a = at[g] /\ n = read[g].tests /\ w = read[g].points
  BY <1>1
<1> DEFINE q == Question[a]
<1>3. a \in answers /\ q \in Questions /\ w \in ever[q]
  BY <1>1, <1>2 DEF TypeOK, AnswersExist, HeldInRange
<1>4. PICK v \in Verdicts(n) :
        /\ sum' = [sum EXCEPT ![g] = @ + PointsEarned(v.passed, n, w)]
        /\ \/ Scored(g, PointsEarned(v.passed, n, w), v) /\ UNCHANGED marks
           \/ Fault /\ UNCHANGED rows
  BY <1>2 DEF GradeAnswer
<1>5. v.passed \in 0..n /\ v.unjudged \in 0..n /\ v.passed + v.unjudged <= n
  BY DEF Verdicts
<1>6. PICK earned : earned = PointsEarned(v.passed, n, w)
  OBVIOUS
<1>7. earned \in Between(0, w)
  BY <1>5, <1>6, PointsInRange
<1>8. earned \in Int /\ earned \in Worthy(q)
  BY <1>3, <1>7 DEF Between, Worthy
<1>9. /\ ExamStays /\ UNCHANGED <<answers, left, step, target, value, graded, total, maxScore>>
      /\ phase' = [phase EXCEPT ![g] = "next"]
      /\ at' = [at EXCEPT ![g] = NoAnswer]
      /\ read' = [read EXCEPT ![g] = [tests |-> 0, points |-> 0]]
  BY DEF GradeAnswer, Leave, exam, ExamStays, result, edit
<1>10. \/ /\ score' = [score EXCEPT ![a] = earned]
          /\ unjudged' = [unjudged EXCEPT ![a] = v.unjudged]
          /\ UNCHANGED <<edits, faults, alone, fresh>>
       \/ /\ UNCHANGED <<score, unjudged, edits>>
          /\ faults < MaxFaults /\ faults' = faults + 1
          /\ alone' = FALSE /\ fresh' = FALSE
  BY <1>2, <1>4, <1>6 DEF Scored, Fault, rows, marks
<1>11. TypeOK'
  <2>1. score' \in [Answers -> Int] /\ unjudged' \in [Answers -> Nat]
    BY <1>5, <1>8, <1>10 DEF TypeOK
  <2>2. edits' \in 0..MaxEdits /\ faults' \in 0..MaxFaults
    BY <1>10 DEF TypeOK
  <2>3. alone' \in BOOLEAN /\ fresh' \in BOOLEAN
    BY <1>10 DEF TypeOK
  <2>4. sum' \in [Graders -> Int]
    BY <1>4, <1>6, <1>8 DEF TypeOK
  <2>5. /\ phase' \in [Graders -> {"idle", "next", "question", "answer", "ended"}]
        /\ at' \in [Graders -> Answers \cup {NoAnswer}]
        /\ read' \in [Graders -> [tests : Nat, points : Int]]
    BY <1>9 DEF TypeOK
  <2>6. \A h \in Graders : at'[h] \in Answers <=> phase'[h] \in {"question", "answer"}
    <3>1. \A h \in Graders : h # g => at'[h] = at[h] /\ phase'[h] = phase[h]
      BY <1>9 DEF TypeOK
    <3>2. at'[g] = NoAnswer /\ phase'[g] = "next"
      BY <1>9 DEF TypeOK
    <3> QED
      BY <3>1, <3>2 DEF TypeOK
  <2> QED
    BY <1>9, <2>1, <2>2, <2>3, <2>4, <2>5, <2>6 DEF TypeOK, ExamStays
<1>12. ScoreInRange'
  <2>1. \A b \in Answers : score'[b] = score[b] \/ (b = a /\ score'[b] = earned)
    <3>1. score' = score \/ score' = [score EXCEPT ![a] = earned]
      BY <1>10
    <3> QED
      BY <3>1 DEF TypeOK
  <2>2. \A r \in Questions : Worthy(r)' = Worthy(r)
    BY <1>9 DEF Worthy, ExamStays
  <2> QED
    BY <1>8, <2>1, <2>2 DEF ScoreInRange
<1>13. HeldInRange'
  BY <1>1, <1>9 DEF HeldInRange, ExamStays, Worthy, TypeOK
<1>14. AnswersExist'
  BY <1>1, <1>3, <1>4, <1>9, <1>10 DEF AnswersExist, ExamStays, Running, TypeOK
<1>15. FreshRun'
  <2> SUFFICES ASSUME fresh' PROVE FreshRun'
    BY DEF FreshRun
  <2>1. /\ fresh /\ score' = [score EXCEPT ![a] = earned]
        /\ unjudged' = [unjudged EXCEPT ![a] = v.unjudged]
    BY <1>10
  <2>2. n = tests[q] /\ w = points[q] /\ (\A h \in Graders : Running(h) => h = g)
    BY <1>1, <1>2, <2>1 DEF FreshRun, Running
  <2>3. \A b \in Answers : b # a => Attainable(b)' = Attainable(b) /\ score'[b] = score[b]
    BY <1>9, <2>1 DEF Attainable, ExamStays, TypeOK
  <2>4. score'[a] \in Attainable(a)'
    <3>1. v.passed \in 0..(tests'[q] - unjudged'[a]) /\ points' = points /\ tests' = tests
      BY <1>5, <1>9, <2>1, <2>2 DEF ExamStays, TypeOK
    <3>2. score'[a] = PointsEarned(v.passed, tests'[q], points'[q])
      BY <1>6, <2>1, <2>2, <3>1 DEF TypeOK
    <3> QED
      BY <3>1, <3>2 DEF Attainable
  <2>5. \A l \in Lecturers : step'[l] = "idle"
    BY <1>9, <2>1 DEF FreshRun
  <2>6. \A h \in Graders : phase'[h] # "idle" /\ phase'[h] # "ended" => h = g
    BY <1>9, <2>2 DEF Running, TypeOK
  <2>7. phase'[g] = "next"
    BY <1>9 DEF TypeOK
  <2>8. ASSUME NEW b \in answers, b # a,
               \A h \in Graders : b \notin left'[h] /\ b # at'[h]
        PROVE  score'[b] \in Attainable(b)'
    <3>1. \A h \in Graders : b \notin left[h] /\ b # at[h]
      BY <1>2, <1>9, <2>8 DEF TypeOK
    <3> QED
      BY <2>1, <2>3, <2>8, <3>1 DEF FreshRun, TypeOK
  <2> QED
    BY <1>9, <2>4, <2>5, <2>6, <2>7, <2>8 DEF FreshRun, Running
<1> QED
  BY <1>11, <1>12, <1>13, <1>14, <1>15

LEMMA SkipInv ==
    ASSUME ScoresInv, NEW g \in Graders, SkipAnswer(g)
    PROVE  ScoresInv'
<1>0. left' \in [Graders -> SUBSET Answers]
  <2>1. left \in [Graders -> SUBSET Answers]
    BY DEF ScoresInv, TypeOK
  <2>2. left' = left \/ \E a \in left[g] : left' = [left EXCEPT ![g] = @ \ {a}]
    BY DEF SkipAnswer
  <2> QED
    BY <2>1, <2>2
<1> USE GradingAssumption DEF ScoresInv, SkipAnswer, Leave, Fault, exam, rows, result, edit
<1>1. TypeOK'
  <2>1. faults' \in 0..MaxFaults
    BY DEF TypeOK
  <2>2. alone' \in BOOLEAN /\ fresh' \in BOOLEAN
    OBVIOUS
  <2>3. \A h \in Graders : at'[h] \in Answers <=> phase'[h] \in {"question", "answer"}
    <3>1. \A h \in Graders : h # g => at'[h] = at[h] /\ phase'[h] = phase[h]
      BY DEF TypeOK
    <3>2. at'[g] = NoAnswer /\ phase'[g] = "next"
      BY DEF TypeOK
    <3> QED
      BY <3>1, <3>2 DEF TypeOK
  <2>4. /\ phase' \in [Graders -> {"idle", "next", "question", "answer", "ended"}]
        /\ at' \in [Graders -> Answers \cup {NoAnswer}]
        /\ read' \in [Graders -> [tests : Nat, points : Int]]
    BY DEF TypeOK
  <2> QED
    BY <1>0, <2>1, <2>2, <2>3, <2>4 DEF TypeOK
<1>2. ScoreInRange' /\ HeldInRange'
  BY DEF ScoreInRange, HeldInRange, Worthy, TypeOK
<1>3. AnswersExist'
  BY DEF AnswersExist, Running, TypeOK
<1>4. FreshRun'
  BY DEF FreshRun
<1> QED
  BY <1>1, <1>2, <1>3, <1>4

\* A run that ends leaves the scores as they are and nothing to do.
LEMMA EndInv ==
    ASSUME ScoresInv, NEW g \in Graders, GradeFinish(g) \/ GradeBreaks(g)
    PROVE  ScoresInv'
<1> USE GradingAssumption DEF ScoresInv
<1>1. /\ End(g) /\ ExamStays /\ UNCHANGED <<answers, score, unjudged, step, target, value>>
      /\ edits' = edits /\ maxScore' = maxScore /\ total' \in {total, sum[g]}
      /\ \/ graded' = TRUE /\ UNCHANGED <<faults, alone, fresh>>
            /\ left[g] = {} /\ phase[g] = "next"
         \/ graded' = graded /\ faults < MaxFaults /\ faults' = faults + 1
            /\ alone' = FALSE /\ fresh' = FALSE
  BY DEF GradeFinish, GradeBreaks, Fault, exam, rows, result, edit, marks, ExamStays
<1>2. TypeOK'
  <2>1. faults' \in 0..MaxFaults
    BY <1>1 DEF TypeOK
  <2>2. graded' \in BOOLEAN /\ alone' \in BOOLEAN /\ fresh' \in BOOLEAN
    BY <1>1 DEF TypeOK
  <2> QED
    BY <1>1, <2>1, <2>2 DEF TypeOK, End, ExamStays
<1>3. ScoreInRange' /\ HeldInRange'
  BY <1>1 DEF ScoreInRange, HeldInRange, Worthy, TypeOK, End, ExamStays
<1>4. AnswersExist'
  BY <1>1 DEF AnswersExist, Running, TypeOK, End, ExamStays
<1>5. FreshRun'
  <2> SUFFICES ASSUME fresh' PROVE FreshRun'
    BY DEF FreshRun
  <2>1. left' = left /\ at' = at
    BY <1>1 DEF End, TypeOK
  <2>2. fresh /\ \A a \in Answers : Attainable(a)' = Attainable(a)
    BY <1>1 DEF ExamStays, Attainable
  <2>3. \A a \in answers :
          (\A h \in Graders : a \notin left'[h] /\ a # at'[h]) => score'[a] \in Attainable(a)'
    BY <1>1, <2>1, <2>2 DEF FreshRun, TypeOK
  <2>4. \A h \in Graders : phase'[h] # "idle" /\ phase'[h] # "ended"
            => Running(h) /\ phase'[h] = phase[h] /\ read'[h] = read[h]
    BY <1>1 DEF End, TypeOK, Running
  <2>5. \A l \in Lecturers : step'[l] = "idle"
    BY <1>1, <2>2 DEF FreshRun
  <2> QED
    BY <1>1, <2>1, <2>2, <2>3, <2>4, <2>5 DEF FreshRun, Running, ExamStays
<1> QED
  BY <1>2, <1>3, <1>4, <1>5

\* What the check lets through is within what the question is worth.
LEMMA CheckInv ==
    ASSUME ScoresInv, NEW l \in Lecturers, NEW a \in Answers, NEW newScore \in Typed,
           OverrideCheck(l, a, newScore)
    PROVE  ScoresInv'
<1> USE GradingAssumption DEF ScoresInv, OverrideCheck, exam, rows, result, run
<1>1. TypeOK'
  BY DEF TypeOK, Quiet
<1>2. newScore \in Worthy(Question[a])
  <2>1. /\ points[Question[a]] \in ever[Question[a]] /\ points[Question[a]] \in Int
        /\ newScore \in Int
    BY DEF HeldInRange, AnswersExist, TypeOK
  <2>2. newScore \in Between(0, points[Question[a]])
    BY <2>1 DEF Allowed, Between
  <2> QED
    BY <2>1, <2>2 DEF Worthy
<1>3. ScoreInRange' /\ HeldInRange'
  <2>1. \A q : Worthy(q)' = Worthy(q)
    BY DEF Worthy
  <2>2. ScoreInRange'
    BY <2>1 DEF ScoreInRange
  <2>3. \A k \in Lecturers : step'[k] = "score" =>
            \/ k = l /\ target'[k] = a /\ value'[k] = newScore
            \/ step[k] = "score" /\ target'[k] = target[k] /\ value'[k] = value[k]
    <3>1. target'[l] = a /\ value'[l] = newScore
      BY DEF TypeOK
    <3>2. \A k \in Lecturers : k # l =>
            step'[k] = step[k] /\ target'[k] = target[k] /\ value'[k] = value[k]
      BY DEF TypeOK
    <3> QED
      BY <3>1, <3>2
  <2>4. \A k \in Lecturers : step'[k] = "score" =>
            value'[k] \in Worthy(Question[target'[k]])
    BY <1>2, <2>3 DEF HeldInRange
  <2>5. HeldInRange'
    BY <2>1, <2>4 DEF HeldInRange, Worthy
  <2> QED
    BY <2>2, <2>5
<1>4. AnswersExist'
  BY DEF AnswersExist, Running, TypeOK
<1>5. FreshRun'
  BY DEF FreshRun
<1> QED
  BY <1>1, <1>3, <1>4, <1>5

\* It is no less so when it is written: what a question was once worth counts.
LEMMA OverrideInv ==
    ASSUME ScoresInv, NEW l \in Lecturers,
           OverrideScore(l) \/ OverrideSum(l) \/ OverrideTotal(l)
    PROVE  ScoresInv'
<1> USE GradingAssumption DEF ScoresInv
<1>1. /\ ExamStays /\ UNCHANGED <<answers, unjudged, graded, phase, left, at, read, edits>>
      /\ fresh' = FALSE
      /\ UNCHANGED <<sum, maxScore>> /\ total' \in {total, value[l]}
      /\ \/ UNCHANGED <<faults, alone>>
         \/ faults < MaxFaults /\ faults' = faults + 1 /\ alone' = FALSE
  <2>1. fresh = FALSE
    BY DEF FreshRun, TypeOK, OverrideScore, OverrideSum, OverrideTotal
  <2>2. UNCHANGED marks \/ Fault
    BY DEF OverrideScore, OverrideSum, OverrideTotal
  <2> QED
    BY <2>1, <2>2 DEF OverrideScore, OverrideSum, OverrideTotal, Fault,
       exam, rows, result, run, marks, ExamStays
<1>2. /\ step' \in [Lecturers -> {"idle", "score", "sum", "total"}]
      /\ target' \in [Lecturers -> Answers \cup {NoAnswer}]
      /\ \A k \in Lecturers : target'[k] \in Answers <=> step'[k] # "idle"
      /\ \A k \in Lecturers : step'[k] # "idle" => target'[k] = target[k] /\ step[k] # "idle"
      /\ \A k \in Lecturers : step'[k] = "score" => step[k] = "score" /\ value'[k] = value[k]
      /\ DOMAIN value' = Lecturers
  <2>1. CASE Answered(l) /\ step[l] # "idle"
    BY <2>1 DEF Answered, TypeOK
  <2>2. CASE /\ step[l] # "idle" /\ target' = target
             /\ \/ step' = [step EXCEPT ![l] = "sum"] /\ value' = value
                \/ /\ step' = [step EXCEPT ![l] = "total"]
                   /\ \E x : value' = [value EXCEPT ![l] = x]
    <3>1. \A k \in Lecturers : k # l => step'[k] = step[k] /\ value'[k] = value[k]
      BY <2>2 DEF TypeOK
    <3>2. step'[l] \in {"sum", "total"}
      BY <2>2 DEF TypeOK
    <3>3. step' \in [Lecturers -> {"idle", "score", "sum", "total"}]
      BY <2>2 DEF TypeOK
    <3> QED
      BY <2>2, <3>1, <3>2, <3>3 DEF TypeOK
  <2> QED
    BY <2>1, <2>2 DEF OverrideScore, OverrideSum, OverrideTotal
<1>3. \/ score' = score
      \/ step[l] = "score" /\ score' = [score EXCEPT ![target[l]] = value[l]]
  BY DEF OverrideScore, OverrideSum, OverrideTotal, rows
<1>4. /\ score' \in [Answers -> Int]
      /\ \A a \in Answers :
            \/ score'[a] = score[a]
            \/ step[l] = "score" /\ a = target[l] /\ score'[a] = value[l]
  BY <1>3 DEF TypeOK, HeldInRange, Worthy, Between
<1>5. TypeOK'
  <2>1. faults' \in 0..MaxFaults
    BY <1>1 DEF TypeOK
  <2>2. alone' \in BOOLEAN /\ fresh' \in BOOLEAN
    BY <1>1 DEF TypeOK
  <2>3. total' \in Int
    BY <1>1 DEF TypeOK
  <2>4. value' \in [Lecturers -> Int]
    <3>1. SumOfScores \in Int
      BY SumOfScoresIsInt
    <3>2. \/ value' = value
          \/ \E x \in Int : value' = [value EXCEPT ![l] = x]
      BY <3>1 DEF OverrideScore, OverrideSum, OverrideTotal, Answered
    <3> QED
      BY <3>2 DEF TypeOK
  <2> QED
    BY <1>1, <1>2, <1>4, <2>1, <2>2, <2>3, <2>4 DEF TypeOK, ExamStays
<1>6. ScoreInRange' /\ HeldInRange'
  BY <1>1, <1>2, <1>4 DEF ScoreInRange, HeldInRange, Worthy, TypeOK, ExamStays
<1>7. AnswersExist'
  BY <1>1, <1>2, <1>4 DEF AnswersExist, Running, TypeOK, ExamStays
<1>8. FreshRun'
  BY <1>1 DEF FreshRun
<1> QED
  BY <1>5, <1>6, <1>7, <1>8

LEMMA StepInv == ScoresInv /\ [Next]_vars => ScoresInv'
<1> SUFFICES ASSUME ScoresInv, [Next]_vars PROVE ScoresInv'
  OBVIOUS
<1>1. ASSUME NEW a \in Answers, AnswerSaved(a) PROVE ScoresInv'
  BY <1>1, SavedInv
<1>2. ASSUME NEW q \in Questions, EditQuestion(q) PROVE ScoresInv'
  BY <1>2, EditKeepsExam, EditInv
<1>3. ASSUME NEW g \in Graders, Grade(g) PROVE ScoresInv'
  BY <1>3, StartInv, TestsInv, QuestionInv, AnswerInv, SkipInv, EndInv DEF Grade
<1>4. ASSUME NEW l \in Lecturers, Override(l) PROVE ScoresInv'
  BY <1>4, CheckInv, OverrideInv DEF Override
<1>5. CASE UNCHANGED vars
  BY <1>5 DEF vars, exam, rows, result, run, edit, marks, ScoresInv, TypeOK, ScoreInRange,
              HeldInRange, AnswersExist, FreshRun, Running, Worthy, Attainable
<1> QED
  BY <1>1, <1>2, <1>3, <1>4, <1>5 DEF Next

-----------------------------------------------------------------------------
(* The totals.                                                             *)

\* What the answers were worth at first is not negative, nor is a sum of it.
LEMMA WasWorthSums ==
    ASSUME NoneNegative
    PROVE  /\ \A q \in Questions : WasWorth[q] \in Nat
           /\ \A a \in Answers : WasWorthOf[a] = WasWorth[Question[a]] /\ WasWorthOf[a] \in Nat
           /\ \A V \in SUBSET Answers :
                 /\ IsFiniteSet(V)
                 /\ SumFunctionOnSet(WasWorthOf, V) \in Nat
                 /\ \A U \in SUBSET V :
                       SumFunctionOnSet(WasWorthOf, U) <= SumFunctionOnSet(WasWorthOf, V)
<1>1. \A q \in Questions : WasWorth[q] \in Nat
  BY GradingAssumption DEF NoneNegative, WasWorth
<1>2. \A a \in Answers : WasWorthOf[a] = WasWorth[Question[a]] /\ WasWorthOf[a] \in Nat
  BY <1>1, GradingAssumption DEF WasWorthOf
<1>3. ASSUME NEW V \in SUBSET Answers
      PROVE  /\ IsFiniteSet(V)
             /\ SumFunctionOnSet(WasWorthOf, V) \in Nat
             /\ \A U \in SUBSET V :
                   SumFunctionOnSet(WasWorthOf, U) <= SumFunctionOnSet(WasWorthOf, V)
  <2>1. IsFiniteSet(V) /\ \A a \in V : WasWorthOf[a] \in Int /\ WasWorthOf[a] >= 0
    BY <1>2, GradingAssumption, FS_Subset
  <2>2. \A U \in SUBSET V :
           SumFunctionOnSet(WasWorthOf, U) <= SumFunctionOnSet(WasWorthOf, V)
    BY <2>1, SumGrows
  <2>3. SumFunctionOnSet(WasWorthOf, V) \in Int
    BY <2>1, SumIsInt
  <2>4. 0 <= SumFunctionOnSet(WasWorthOf, V)
    BY <2>2, SumEmpty
  <2> QED
    BY <2>1, <2>2, <2>3, <2>4
<1> QED
  BY <1>1, <1>2, <1>3

\* Nothing that is worth no more than at first has a score above that.
LEMMA WorthyWithin ==
    ASSUME ScoresInv, NoneNegative, NEW q \in Questions,
           \A w \in ever[q] : w <= WasWorth[q], NEW x \in Worthy(q)
    PROVE  x \in Int /\ x <= WasWorth[q]
<1>1. PICK w \in ever[q] : x \in Between(0, w)
  BY DEF Worthy
<1>2. w \in Int /\ w <= WasWorth[q] /\ WasWorth[q] \in Nat
  BY WasWorthSums DEF ScoresInv, TypeOK
<1> QED
  BY <1>1, <1>2 DEF Between

\* Nor have all scores together.
LEMMA ScoresWithin ==
    ASSUME ScoresInv, NoneNegative, OnlyAsked,
           \A q \in Asked : \A w \in ever[q] : w <= WasWorth[q]
    PROVE  SumOfScores <= SumFunctionOnSet(WasWorthOf, answers)
<1>1. answers \in SUBSET Answers /\ IsFiniteSet(Answers) /\ IsFiniteSet(answers)
  BY GradingAssumption, FS_Subset DEF ScoresInv, TypeOK
<1>2. \A a \in answers : score[a] \in Int /\ score[a] <= WasWorthOf[a] /\ WasWorthOf[a] \in Int
  BY WorthyWithin, WasWorthSums, GradingAssumption DEF ScoresInv, TypeOK, ScoreInRange, OnlyAsked
<1>3. \A a \in Answers : score[a] \in Int /\ (a \notin answers => score[a] = 0)
  BY DEF ScoresInv, TypeOK, AnswersExist
<1>4. SumFunctionOnSet(score, answers) = SumFunctionOnSet(score, Answers)
  BY <1>1, <1>3, SumGrows
<1>5. SumFunctionOnSet(score, answers) <= SumFunctionOnSet(WasWorthOf, answers)
  BY <1>1, <1>2, SumIsMonotone
<1> QED
  BY <1>4, <1>5, SumOfScoresIsInt

LEMMA InitTotals == ASSUME Init, ScoresInv PROVE TotalsInv
<1>1. SumsAlone
  <2>1. SumOfScores = 0
    BY SumOfNothing, SumOfScoresIsInt, GradingAssumption DEF Init
  <2> QED
    BY <2>1 DEF SumsAlone, Init, Running
<1>2. SumsWithin
  <2>1. \A q \in Asked : \A w \in ever[q] : w <= WasWorth[q]
    BY GradingAssumption DEF Init, WasWorth
  <2>2. /\ \A g \in Graders : ~Running(g)
        /\ \A l \in Lecturers : step[l] # "total"
        /\ total = 0 /\ answers = {}
    BY DEF Init, Running
  <2>3. total <= SumFunctionOnSet(WasWorthOf, answers)
    BY <2>2, SumEmpty
  <2> QED
    BY <2>1, <2>2, <2>3 DEF SumsWithin
<1>3. MaxScoreFixed
  <2>1. \A q \in Asked : points[q] \in Int /\ points[q] = WasWorth[q]
    BY GradingAssumption DEF Init, WasWorth
  <2>2. SumFunctionOnSet(points, Asked) = SumFunctionOnSet(WasWorth, Asked)
    BY <2>1, SumIsSame, FS_Subset, GradingAssumption
  <2> QED
    BY <2>2 DEF MaxScoreFixed, Init, CalcMaxScore
<1> QED
  BY <1>1, <1>2, <1>3 DEF TotalsInv

\* A new answer has no score yet, and what it is worth is not negative.
LEMMA SavedTotals ==
    ASSUME IInv, NEW a \in Answers, AnswerSaved(a)
    PROVE  TotalsInv'
<1> USE DEF IInv, TotalsInv, ScoresInv
<1>1. UNCHANGED <<questions, points, tests, ever, raised, score, graded, total, maxScore, phase,
                  left, at, sum, step, value, alone>>
      /\ answers' = answers \cup {a}
  BY DEF AnswerSaved, exam, rows, result, run, edit, marks
<1>2. SumsAlone'
  BY <1>1 DEF SumsAlone, Past, SumOfScores, Quiet, Running
<1>3. SumsWithin'
  <2> SUFFICES ASSUME NoneNegative, ~raised, OnlyAsked PROVE SumsWithin'
    BY <1>1 DEF SumsWithin, OnlyAsked
  <2>1. answers' \in SUBSET Answers /\ answers \in SUBSET answers'
    BY <1>1 DEF TypeOK
  <2>2. \A g : answers' \cap Past(g) \in SUBSET Answers
               /\ answers \cap Past(g) \in SUBSET (answers' \cap Past(g))
               /\ answers \cap Past(g) \in SUBSET Answers
    BY <2>1 DEF Past
  <2>3. \A U, V \in SUBSET Answers : U \in SUBSET V =>
           /\ SumFunctionOnSet(WasWorthOf, U) \in Int /\ SumFunctionOnSet(WasWorthOf, V) \in Int
           /\ SumFunctionOnSet(WasWorthOf, U) <= SumFunctionOnSet(WasWorthOf, V)
    BY WasWorthSums
  <2>4. \A x \in Int : \A U, V \in SUBSET Answers : U \in SUBSET V =>
           (x <= SumFunctionOnSet(WasWorthOf, U) => x <= SumFunctionOnSet(WasWorthOf, V))
    BY <2>3
  <2>5. ASSUME NEW g \in Graders, Running(g)'
        PROVE  sum'[g] <= SumFunctionOnSet(WasWorthOf, answers' \cap Past(g)')
    <3>1. Past(g)' = Past(g) /\ sum'[g] = sum[g] /\ Running(g) /\ sum[g] \in Int
      BY <1>1, <2>5 DEF Past, Running, TypeOK
    <3>2. sum[g] <= SumFunctionOnSet(WasWorthOf, answers \cap Past(g))
      BY <3>1 DEF SumsWithin
    <3> QED
      BY <2>2, <2>4, <3>1, <3>2
  <2>6. ASSUME NEW l \in Lecturers, step'[l] = "total"
        PROVE  value'[l] <= SumFunctionOnSet(WasWorthOf, answers')
    BY <1>1, <2>1, <2>4, <2>6 DEF SumsWithin, TypeOK
  <2>7. total' <= SumFunctionOnSet(WasWorthOf, answers')
    BY <1>1, <2>1, <2>4 DEF SumsWithin, TypeOK
  <2> QED
    BY <1>1, <2>5, <2>6, <2>7 DEF SumsWithin
<1>4. MaxScoreFixed'
  BY <1>1 DEF MaxScoreFixed
<1> QED
  BY <1>2, <1>3, <1>4

\* An edit changes no sum; if it raises nothing, it gives no question more than
\* it had.
LEMMA EditTotals ==
    ASSUME IInv, NEW q \in Questions, EditQuestion(q)
    PROVE  TotalsInv'
<1> USE DEF IInv, TotalsInv, ScoresInv
<1>1. UNCHANGED <<answers, score, graded, total, maxScore, phase, left, at, sum, step, value, alone>>
  BY EditKeepsExam DEF Edit, rows, result, run, edit
<1>2. SumsAlone'
  BY <1>1 DEF SumsAlone, Past, SumOfScores, Quiet, Running
<1>3. SumsWithin'
  <2> SUFFICES ASSUME NoneNegative, ~raised', OnlyAsked PROVE SumsWithin'
    BY <1>1 DEF SumsWithin, OnlyAsked
  <2>1. ~raised /\ \A r \in Asked : \A w \in ever'[r] : w \in ever[r] \/ w <= WasWorth[r]
    <3>1. ASSUME NEW w \in Worths, UpdateQuestion(q, w)
          PROVE  ~raised /\ \A r \in Asked : \A v \in ever'[r] : v \in ever[r] \/ v <= WasWorth[r]
      <4>1. ~raised /\ ~(q \in Asked /\ w > points[q]) /\ ever' = [ever EXCEPT ![q] = @ \cup {w}]
        BY <3>1 DEF UpdateQuestion, Worth, TypeOK
      <4>2. points[q] \in ever[q] /\ points[q] \in Int /\ w \in Int
        BY <3>1, GradingAssumption DEF UpdateQuestion, HeldInRange, TypeOK
      <4>3. q \in Asked => points[q] <= WasWorth[q] /\ WasWorth[q] \in Nat
        BY <4>1, <4>2, WasWorthSums DEF SumsWithin
      <4>4. q \in Asked => w <= WasWorth[q]
        BY <4>1, <4>2, <4>3
      <4> QED
        BY <4>1, <4>4, GradingAssumption DEF TypeOK
    <3>2. ASSUME NEW w \in Worths, AddQuestion(q, w)
          PROVE  ~raised /\ \A r \in Asked : \A v \in ever'[r] : v \in ever[r]
      BY <3>2, GradingAssumption DEF AddQuestion, Worth, TypeOK
    <3>3. CASE DeleteQuestion(q) \/ AddTestCases(q) \/ UpdateTestCase(q) \/ DeleteTestCase(q)
      BY <3>3 DEF DeleteQuestion, AddTestCases, UpdateTestCase, DeleteTestCase, exam
    <3> QED
      BY <3>1, <3>2, <3>3 DEF EditQuestion
  <2>2. \A r \in Asked : \A w \in ever'[r] : w <= WasWorth[r]
    BY <2>1 DEF SumsWithin
  <2> QED
    BY <1>1, <2>1, <2>2 DEF SumsWithin, Past, Running
<1>4. MaxScoreFixed'
  BY <1>1 DEF MaxScoreFixed
<1> QED
  BY <1>2, <1>3, <1>4

\* A run that begins has passed only what has no score.
LEMMA StartTotals ==
    ASSUME IInv, NEW g \in Graders, GradeStart(g)
    PROVE  TotalsInv'
<1> USE DEF IInv, TotalsInv, ScoresInv
<1>1. /\ UNCHANGED <<ever, raised, answers, score, total, maxScore, at, sum, step, value>>
      /\ phase[g] = "idle" /\ phase' = [phase EXCEPT ![g] = "next"]
      /\ left' = [left EXCEPT ![g] = answers]
      /\ alone' = Quiet
  BY DEF GradeStart, exam, rows, result, edit
<1>2. /\ phase'[g] = "next" /\ left'[g] = answers /\ at[g] \notin Answers /\ sum[g] = 0
      /\ \A h \in Graders : h # g => (Running(h)' <=> Running(h)) /\ Past(h)' = Past(h)
  BY <1>1 DEF TypeOK, AnswersExist, Running, Past
<1>3. Past(g)' = Answers \ answers /\ Running(g)'
  BY <1>1, <1>2 DEF Past, Running
<1>4. SumsAlone'
  <2> SUFFICES ASSUME alone' PROVE SumsAlone'
    BY DEF SumsAlone
  <2>1. /\ \A h \in Graders : Running(h)' => h = g
        /\ \A l \in Lecturers : step'[l] = "idle"
    BY <1>1, <1>2 DEF Quiet
  <2>2. SumFunctionOnSet(score, Answers \ answers) = 0
    BY SumOfNothing, GradingAssumption, FS_Subset DEF AnswersExist
  <2>3. sum'[g] = SumFunctionOnSet(score', Past(g)')
    BY <1>1, <1>2, <1>3, <2>2
  <2> QED
    BY <1>3, <2>1, <2>3 DEF SumsAlone, Quiet
<1>5. SumsWithin'
  <2> SUFFICES ASSUME NoneNegative, ~raised, OnlyAsked PROVE SumsWithin'
    BY <1>1 DEF SumsWithin, OnlyAsked
  <2>1. answers' \cap Past(g)' = {}
    BY <1>1, <1>3
  <2>2. sum'[g] <= SumFunctionOnSet(WasWorthOf, answers' \cap Past(g)')
    BY <1>1, <1>2, <2>1, SumEmpty
  <2> QED
    BY <1>1, <1>2, <2>2 DEF SumsWithin
<1>6. MaxScoreFixed'
  BY <1>1 DEF MaxScoreFixed
<1> QED
  BY <1>4, <1>5, <1>6

\* Reading, a run passes no answer.
LEMMA ReadTotals ==
    ASSUME IInv, NEW g \in Graders, (\E a \in Answers : GradeTests(g, a)) \/ GradeQuestion(g)
    PROVE  TotalsInv'
<1> USE DEF IInv, TotalsInv, ScoresInv
<1>1. /\ UNCHANGED <<ever, raised, answers, score, total, maxScore, sum, step, value, alone>>
      /\ \A h \in Graders : Running(h)' <=> Running(h)
      /\ \A h \in Graders : Past(h)' = Past(h)
  <2>1. ASSUME NEW a \in Answers, GradeTests(g, a)
        PROVE  /\ UNCHANGED <<ever, raised, answers, score, total, maxScore, sum, step, value, alone>>
               /\ \A h \in Graders : Running(h)' <=> Running(h)
               /\ \A h \in Graders : Past(h)' = Past(h)
    <3>1. /\ phase[g] = "next" /\ phase' = [phase EXCEPT ![g] = "question"] /\ a \in left[g]
          /\ left' = [left EXCEPT ![g] = @ \ {a}] /\ at' = [at EXCEPT ![g] = a]
      BY <2>1 DEF GradeTests
    <3>2. at[g] \notin Answers
      BY <3>1 DEF TypeOK
    <3>3. left'[g] = left[g] \ {a} /\ at'[g] = a /\ phase'[g] = "question"
      BY <3>1 DEF TypeOK
    <3>4. \A h \in Graders : h # g => left'[h] = left[h] /\ at'[h] = at[h] /\ phase'[h] = phase[h]
      BY <3>1 DEF TypeOK
    <3>5. \A h \in Graders : Past(h)' = Past(h)
      BY <3>1, <3>2, <3>3, <3>4 DEF Past
    <3> QED
      BY <2>1, <3>1, <3>3, <3>4, <3>5 DEF GradeTests, Running, exam, rows, result, edit, marks
  <2>2. CASE GradeQuestion(g)
    BY <2>2 DEF GradeQuestion, Running, Past, TypeOK, exam, rows, result, edit, marks
  <2> QED
    BY <2>1, <2>2
<1>2. SumsAlone'
  BY <1>1 DEF SumsAlone, SumOfScores, Quiet
<1>3. SumsWithin'
  BY <1>1 DEF SumsWithin, OnlyAsked
<1>4. MaxScoreFixed'
  BY <1>1 DEF MaxScoreFixed
<1> QED
  BY <1>2, <1>3, <1>4

\* What it awards is what it adds, if the statement works, and no more than the
\* answer was worth.
LEMMA AnswerTotals ==
    ASSUME IInv, NEW g \in Graders, GradeAnswer(g)
    PROVE  TotalsInv'
<1> USE DEF IInv, TotalsInv, ScoresInv
<1>1. /\ phase[g] = "answer" /\ at[g] \in Answers
      /\ read[g].tests \in Nat /\ read[g].points \in Int
  BY DEF GradeAnswer, TypeOK
<1>2. PICK a \in Answers : a = at[g]
  BY <1>1
<1>3. /\ a \in answers /\ a \notin left[g] /\ Question[a] \in Questions
      /\ read[g].points \in ever[Question[a]]
  BY <1>1, <1>2, GradingAssumption DEF AnswersExist, HeldInRange
<1>4. PICK earned \in Int :
        /\ earned \in Worthy(Question[a])
        /\ sum' = [sum EXCEPT ![g] = @ + earned]
        /\ \/ score' = [score EXCEPT ![a] = earned] /\ alone' = alone
           \/ score' = score /\ alone' = FALSE
  <2>1. PICK v \in Verdicts(read[g].tests) :
          /\ sum' = [sum EXCEPT ![g] = @ + PointsEarned(v.passed, read[g].tests, read[g].points)]
          /\ \/ /\ score' = [score EXCEPT ![a] = PointsEarned(v.passed, read[g].tests, read[g].points)]
                /\ alone' = alone
             \/ score' = score /\ alone' = FALSE
    BY <1>2 DEF GradeAnswer, Scored, Fault, rows, marks
  <2>2. v.passed \in 0..read[g].tests
    BY DEF Verdicts
  <2>3. PointsEarned(v.passed, read[g].tests, read[g].points) \in Between(0, read[g].points)
    BY <1>1, <2>2, PointsInRange
  <2>4. PointsEarned(v.passed, read[g].tests, read[g].points) \in Worthy(Question[a])
    BY <1>3, <2>3 DEF Worthy
  <2>5. PointsEarned(v.passed, read[g].tests, read[g].points) \in Int
    BY <1>1, <2>3 DEF Between
  <2> QED
    BY <2>1, <2>4, <2>5
<1>5. /\ UNCHANGED <<ever, raised, answers, left, total, maxScore, step, value>>
      /\ phase' = [phase EXCEPT ![g] = "next"] /\ at' = [at EXCEPT ![g] = NoAnswer]
  BY DEF GradeAnswer, Leave, exam, result, edit
<1>6. /\ phase'[g] = "next" /\ at'[g] = NoAnswer /\ sum'[g] = sum[g] + earned
      /\ \A h \in Graders : h # g =>
            phase'[h] = phase[h] /\ at'[h] = at[h] /\ sum'[h] = sum[h]
  BY <1>4, <1>5 DEF TypeOK
<1>7. /\ Running(g) /\ Running(g)'
      /\ \A h \in Graders : h # g => (Running(h)' <=> Running(h)) /\ Past(h)' = Past(h)
  BY <1>1, <1>5, <1>6 DEF Running, Past
<1>8. /\ Past(g)' = Past(g) \cup {a} /\ a \notin Past(g)
      /\ Past(g) \in SUBSET Answers /\ IsFiniteSet(Past(g))
  <2>1. Past(g)' = Past(g) \cup {a} /\ a \notin Past(g) /\ Past(g) \in SUBSET Answers
    BY <1>2, <1>3, <1>5, <1>6, GradingAssumption DEF Past
  <2> QED
    BY <2>1, GradingAssumption, FS_Subset
<1>9. SumsAlone'
  <2> SUFFICES ASSUME alone' PROVE SumsAlone'
    BY DEF SumsAlone
  <2>1. alone /\ score' = [score EXCEPT ![a] = earned]
    BY <1>4
  <2>2. /\ \A h \in Graders : Running(h)' => h = g
        /\ \A l \in Lecturers : step'[l] = "idle"
        /\ sum[g] = SumFunctionOnSet(score, Past(g))
    BY <1>5, <1>7, <2>1 DEF SumsAlone
  <2>3. \A b \in Answers : score[b] \in Int /\ score'[b] \in Int
    BY <2>1 DEF TypeOK
  <2>4. \A b \in Past(g) : score'[b] = score[b]
    BY <1>8, <2>1 DEF TypeOK
  <2>5. SumFunctionOnSet(score', Past(g)) = SumFunctionOnSet(score, Past(g))
    BY <1>8, <2>3, <2>4, SumIsSame
  <2>6. SumFunctionOnSet(score', Past(g) \cup {a}) = score'[a] + SumFunctionOnSet(score', Past(g))
    BY <1>8, <2>3, SumAdds
  <2>7. score'[a] = earned
    BY <2>1 DEF TypeOK
  <2>8. SumFunctionOnSet(score, Past(g)) \in Int
    BY <1>8, <2>3, SumIsInt
  <2>9. sum'[g] = SumFunctionOnSet(score', Past(g)')
    BY <1>6, <1>8, <2>2, <2>5, <2>6, <2>7, <2>8
  <2> QED
    BY <1>7, <2>2, <2>9 DEF SumsAlone, Quiet
<1>10. SumsWithin'
  <2> SUFFICES ASSUME NoneNegative, ~raised, OnlyAsked PROVE SumsWithin'
    BY <1>5 DEF SumsWithin, OnlyAsked
  <2> DEFINE V == answers \cap Past(g)
  <2>1. earned <= WasWorthOf[a] /\ WasWorthOf[a] \in Nat
    <3>1. \A w \in ever[Question[a]] : w <= WasWorth[Question[a]]
      BY <1>3 DEF SumsWithin, OnlyAsked
    <3> QED
      BY <1>3, <1>4, <3>1, WorthyWithin, WasWorthSums
  <2>2. sum[g] <= SumFunctionOnSet(WasWorthOf, V) /\ sum[g] \in Int
    BY <1>7 DEF SumsWithin, TypeOK
  <2>3. /\ IsFiniteSet(V) /\ V \in SUBSET Answers /\ a \notin V
        /\ answers' \cap Past(g)' = V \cup {a}
    BY <1>3, <1>5, <1>8, FS_Subset
  <2> HIDE DEF V
  <2>4. SumFunctionOnSet(WasWorthOf, V \cup {a}) = WasWorthOf[a] + SumFunctionOnSet(WasWorthOf, V)
    <3>1. \A x \in V \cup {a} : WasWorthOf[x] \in Int
      BY <2>3, WasWorthSums
    <3> QED
      BY <2>3, <3>1, SumAdds
  <2>5. SumFunctionOnSet(WasWorthOf, V) \in Nat
    BY <2>3, WasWorthSums
  <2>6. sum'[g] <= SumFunctionOnSet(WasWorthOf, answers' \cap Past(g)')
    <3>1. sum[g] + earned <= WasWorthOf[a] + SumFunctionOnSet(WasWorthOf, V)
      BY <2>1, <2>2, <2>5
    <3> QED
      BY <1>6, <2>3, <2>4, <3>1
  <2> QED
    BY <1>5, <1>6, <1>7, <2>6 DEF SumsWithin
<1>11. MaxScoreFixed'
  BY <1>5 DEF MaxScoreFixed
<1> QED
  BY <1>9, <1>10, <1>11

\* An answer it skips counts for nothing.
LEMMA SkipTotals ==
    ASSUME IInv, NEW g \in Graders, SkipAnswer(g)
    PROVE  TotalsInv'
<1> USE DEF IInv, TotalsInv, ScoresInv
<1>1. /\ UNCHANGED <<ever, raised, answers, score, total, maxScore, sum, step, value>>
      /\ alone' = FALSE
      /\ phase' = [phase EXCEPT ![g] = "next"] /\ at' = [at EXCEPT ![g] = NoAnswer]
      /\ phase[g] \in {"next", "question"}
      /\ left' = left \/ \E a : left' = [left EXCEPT ![g] = @ \ {a}]
  BY DEF SkipAnswer, Leave, Fault, exam, rows, result, edit
<1>2. /\ Running(g)
      /\ \A h \in Graders : (Running(h)' <=> Running(h)) /\ Past(h) \subseteq Past(h)'
  <2>1. /\ phase'[g] = "next" /\ at'[g] = NoAnswer /\ left'[g] \subseteq left[g]
        /\ \A h \in Graders : h # g => phase'[h] = phase[h] /\ at'[h] = at[h] /\ left'[h] = left[h]
    BY <1>1 DEF TypeOK
  <2> QED
    BY <1>1, <2>1, GradingAssumption DEF Running, Past
<1>3. SumsAlone'
  BY <1>1 DEF SumsAlone
<1>4. SumsWithin'
  <2> SUFFICES ASSUME NoneNegative, ~raised, OnlyAsked PROVE SumsWithin'
    BY <1>1 DEF SumsWithin, OnlyAsked
  <2>1. ASSUME NEW h \in Graders, Running(h)'
        PROVE  sum'[h] <= SumFunctionOnSet(WasWorthOf, answers' \cap Past(h)')
    <3> DEFINE U == answers \cap Past(h)
               V == answers \cap Past(h)'
    <3>1. sum[h] <= SumFunctionOnSet(WasWorthOf, U) /\ sum[h] \in Int
      BY <1>2, <2>1 DEF SumsWithin, TypeOK
    <3>2. U \in SUBSET V /\ V \in SUBSET Answers /\ U \in SUBSET Answers
      BY <1>2 DEF TypeOK
    <3> HIDE DEF U, V
    <3>3. /\ SumFunctionOnSet(WasWorthOf, U) \in Nat /\ SumFunctionOnSet(WasWorthOf, V) \in Nat
          /\ SumFunctionOnSet(WasWorthOf, U) <= SumFunctionOnSet(WasWorthOf, V)
      BY <3>2, WasWorthSums
    <3>4. sum[h] <= SumFunctionOnSet(WasWorthOf, V)
      BY <3>1, <3>3
    <3> QED
      BY <1>1, <3>4 DEF V
  <2> QED
    BY <1>1, <2>1 DEF SumsWithin
<1>5. MaxScoreFixed'
  BY <1>1 DEF MaxScoreFixed
<1> QED
  BY <1>3, <1>4, <1>5

\* A run that finishes has passed every answer.
LEMMA EndTotals ==
    ASSUME IInv, NEW g \in Graders, GradeFinish(g) \/ GradeBreaks(g)
    PROVE  TotalsInv'
<1> USE DEF IInv, TotalsInv, ScoresInv
<1>1. /\ UNCHANGED <<ever, raised, answers, score, maxScore, step, value>>
      /\ phase' = [phase EXCEPT ![g] = "ended"] /\ Running(g)
      /\ left' = [left EXCEPT ![g] = {}] /\ at' = [at EXCEPT ![g] = NoAnswer]
      /\ sum' = [sum EXCEPT ![g] = 0]
      /\ \/ alone' = alone /\ total' = sum[g] /\ phase[g] = "next" /\ left[g] = {}
         \/ alone' = FALSE /\ total' = total
  BY DEF GradeFinish, GradeBreaks, End, Fault, Running, exam, rows, result, edit, marks
<1>2. /\ ~Running(g)'
      /\ \A h \in Graders : h # g => /\ Running(h)' <=> Running(h)
                                     /\ Past(h)' = Past(h) /\ sum'[h] = sum[h]
  BY <1>1 DEF Running, Past, TypeOK
<1>3. alone' = alone /\ total' = sum[g] /\ phase[g] = "next" /\ left[g] = {} => Past(g) = Answers
  BY DEF Past, TypeOK
<1>4. SumsAlone'
  <2> SUFFICES ASSUME alone' PROVE SumsAlone'
    BY DEF SumsAlone
  <2>1. alone /\ total' = sum[g] /\ Past(g) = Answers
    BY <1>1, <1>3
  <2>2. sum[g] = SumFunctionOnSet(score, Answers)
    BY <1>1, <2>1 DEF SumsAlone
  <2>3. SumOfScores' = SumOfScores
    BY <1>1 DEF SumOfScores
  <2>4. total' = SumOfScores'
    BY <2>1, <2>2, <2>3, SumOfScoresIsInt
  <2>5. /\ \A h \in Graders : ~Running(h)'
        /\ \A l \in Lecturers : step'[l] = "idle"
    BY <1>1, <1>2, <2>1 DEF SumsAlone
  <2> QED
    BY <2>4, <2>5 DEF SumsAlone
<1>5. SumsWithin'
  <2> SUFFICES ASSUME NoneNegative, ~raised, OnlyAsked PROVE SumsWithin'
    BY <1>1 DEF SumsWithin, OnlyAsked
  <2>1. total' <= SumFunctionOnSet(WasWorthOf, answers)
    <3>1. answers \cap Answers = answers
      BY DEF TypeOK
    <3> QED
      BY <1>1, <1>3, <3>1 DEF SumsWithin
  <2> QED
    BY <1>1, <1>2, <2>1 DEF SumsWithin
<1>6. MaxScoreFixed'
  BY <1>1 DEF MaxScoreFixed
<1> QED
  BY <1>4, <1>5, <1>6

\* An override that begins holds no sum yet.
LEMMA CheckTotals ==
    ASSUME IInv, NEW l \in Lecturers, NEW a \in Answers, NEW newScore \in Typed,
           OverrideCheck(l, a, newScore)
    PROVE  TotalsInv'
<1> USE DEF IInv, TotalsInv, ScoresInv
<1>1. /\ UNCHANGED <<ever, raised, answers, score, total, maxScore, phase, left, at, sum>>
      /\ alone' = Quiet
      /\ step' = [step EXCEPT ![l] = "score"] /\ value' = [value EXCEPT ![l] = newScore]
  BY DEF OverrideCheck, exam, rows, result, run
<1>2. /\ step'[l] = "score"
      /\ \A k \in Lecturers : k # l => step'[k] = step[k] /\ value'[k] = value[k]
  BY <1>1 DEF TypeOK
<1>3. \A g \in Graders : (Running(g)' <=> Running(g)) /\ Past(g)' = Past(g)
  BY <1>1 DEF Running, Past
<1>4. SumsAlone'
  BY <1>1, <1>2, <1>3 DEF SumsAlone, Quiet
<1>5. SumsWithin'
  BY <1>1, <1>2, <1>3 DEF SumsWithin, OnlyAsked
<1>6. MaxScoreFixed'
  BY <1>1 DEF MaxScoreFixed
<1> QED
  BY <1>4, <1>5, <1>6

\* It reads the sum after it has written, and writes what it has read.
LEMMA OverrideTotals ==
    ASSUME IInv, NEW l \in Lecturers,
           OverrideScore(l) \/ OverrideSum(l) \/ OverrideTotal(l)
    PROVE  TotalsInv'
<1> USE DEF IInv, TotalsInv, ScoresInv
<1>1. /\ UNCHANGED <<ever, raised, answers, maxScore, phase, left, at, sum>>
      /\ step[l] # "idle"
      /\ \A g \in Graders : (Running(g)' <=> Running(g)) /\ Past(g)' = Past(g)
  BY DEF OverrideScore, OverrideSum, OverrideTotal, exam, rows, result, run, Running, Past
<1>2. /\ \A k \in Lecturers : k # l => step'[k] = step[k] /\ value'[k] = value[k]
      /\ \/ alone' = FALSE
         \/ alone' = alone
  BY DEF OverrideScore, OverrideSum, OverrideTotal, Answered, Fault, marks, TypeOK
<1>3. CASE OverrideScore(l)
  <2>1. step'[l] \in {"sum", "idle"} /\ total' = total /\ (alone' => step'[l] = "sum")
    BY <1>3 DEF OverrideScore, Answered, Fault, result, TypeOK
  <2>2. SumsAlone'
    BY <1>1, <1>2, <2>1 DEF SumsAlone, Quiet
  <2>3. SumsWithin'
    BY <1>1, <1>2, <2>1 DEF SumsWithin, OnlyAsked
  <2> QED
    BY <1>1, <2>2, <2>3 DEF MaxScoreFixed
<1>4. CASE OverrideSum(l)
  <2>1. /\ step'[l] = "total" /\ total' = total /\ score' = score
        /\ \/ value'[l] = SumOfScores
           \/ value'[l] = 0 /\ alone' = FALSE
    BY <1>4 DEF OverrideSum, Fault, rows, result, TypeOK
  <2>2. SumsAlone'
    BY <1>1, <1>2, <2>1 DEF SumsAlone, Quiet, SumOfScores
  <2>3. SumsWithin'
    <3> SUFFICES ASSUME NoneNegative, ~raised, OnlyAsked PROVE SumsWithin'
      BY <1>1 DEF SumsWithin, OnlyAsked
    <3>1. SumOfScores <= SumFunctionOnSet(WasWorthOf, answers)
      BY ScoresWithin DEF SumsWithin
    <3>2. 0 <= SumFunctionOnSet(WasWorthOf, answers)
      BY WasWorthSums DEF TypeOK
    <3> QED
      BY <1>1, <1>2, <2>1, <3>1, <3>2 DEF SumsWithin
  <2> QED
    BY <1>1, <2>2, <2>3 DEF MaxScoreFixed
<1>5. CASE OverrideTotal(l)
  <2>1. /\ step[l] = "total" /\ step'[l] = "idle" /\ score' = score
        /\ \/ total' = value[l]
           \/ total' = total /\ alone' = FALSE
    BY <1>5 DEF OverrideTotal, Answered, Fault, rows, TypeOK
  <2>2. SumsAlone'
    BY <1>1, <1>2, <2>1 DEF SumsAlone, Quiet, SumOfScores
  <2>3. SumsWithin'
    BY <1>1, <1>2, <2>1 DEF SumsWithin, OnlyAsked
  <2> QED
    BY <1>1, <2>2, <2>3 DEF MaxScoreFixed
<1> QED
  BY <1>3, <1>4, <1>5

LEMMA StepTotals == IInv /\ [Next]_vars => TotalsInv'
<1> SUFFICES ASSUME IInv, [Next]_vars PROVE TotalsInv'
  OBVIOUS
<1>1. ASSUME NEW a \in Answers, AnswerSaved(a) PROVE TotalsInv'
  BY <1>1, SavedTotals
<1>2. ASSUME NEW q \in Questions, EditQuestion(q) PROVE TotalsInv'
  BY <1>2, EditTotals
<1>3. ASSUME NEW g \in Graders, Grade(g) PROVE TotalsInv'
  BY <1>3, StartTotals, ReadTotals, AnswerTotals, SkipTotals, EndTotals DEF Grade
<1>4. ASSUME NEW l \in Lecturers, Override(l) PROVE TotalsInv'
  BY <1>4, CheckTotals, OverrideTotals DEF Override
<1>5. CASE UNCHANGED vars
  BY <1>5 DEF vars, exam, rows, result, run, edit, marks, IInv, TotalsInv, SumsAlone, SumsWithin,
              OnlyAsked, MaxScoreFixed, Running, Quiet, Past, SumOfScores
<1> QED
  BY <1>1, <1>2, <1>3, <1>4, <1>5 DEF Next

-----------------------------------------------------------------------------
\* The inductive invariant: types, the ranges of what is held and written, what a
\* fresh run has done and still has to do, and what a run or an override on its
\* own has added up.
THEOREM GradingInvariant == Spec => []IInv
<1>1. Init => IInv
  BY InitInv, InitTotals DEF IInv
<1>2. IInv /\ [Next]_vars => IInv'
  BY StepInv, StepTotals DEF IInv
<1> QED
  BY <1>1, <1>2, PTL DEF Spec

\* No answer is ever worth more than its question was at some time, or less than
\* nothing.
THEOREM ScoresStayInRange == Spec => []ScoreInRange
<1>1. IInv => ScoreInRange
  BY DEF IInv, ScoresInv
<1> QED
  BY <1>1, GradingInvariant, PTL

\* A grading run with nothing else going on leaves every score as the test cases
\* and points of the moment make it.
THEOREM RegradingIsIdempotent == Spec => []RegradeIsCurrent
<1>1. IInv => RegradeIsCurrent
  <2> SUFFICES ASSUME IInv, fresh, Quiet, NEW a \in answers
               PROVE  score[a] \in Attainable(a)
    BY DEF RegradeIsCurrent
  <2>1. \A g \in Graders : left[g] = {} /\ at[g] \notin Answers
    BY DEF IInv, ScoresInv, Quiet, Running, AnswersExist, TypeOK
  <2> QED
    BY <2>1 DEF IInv, ScoresInv, FreshRun, TypeOK
<1> QED
  BY <1>1, GradingInvariant, PTL

\* A grading run or an override on its own leaves the total at the sum of the
\* scores, however wrong it was: the run adds up what it awards, over answers
\* that are all there is to a score, and the override sums up after it writes.
THEOREM TotalIsRight == Spec => []TotalIsSumAlone
<1>1. IInv => TotalIsSumAlone
  BY DEF IInv, TotalsInv, SumsAlone, TotalIsSumAlone
<1> QED
  BY <1>1, GradingInvariant, PTL

\* Nobody has more than full marks, as long as no question was worth less than
\* nothing, nothing was raised, no question has two answers and none is of
\* another exam: the total is no more than the answers were worth when the
\* student began, and each of them is to a question of its own in max_score.
\* (SaveAnswer takes an answer to another exam's question; nothing is claimed of
\* a submission with one, whose total counts what max_score does not.)
THEOREM NoMoreThanFullMarks == Spec => []FullMarksAtMost
<1>1. IInv => FullMarksAtMost
  <2> SUFFICES ASSUME IInv, maxScore > 0, ~raised, NoneNegative, OnlyAsked,
                      \A a, b \in answers : Question[a] = Question[b] => a = b
               PROVE  Percent <= 100
    BY DEF FullMarksAtMost
  <2>1. total <= SumFunctionOnSet(WasWorthOf, answers)
    BY DEF IInv, TotalsInv, SumsWithin
  <2>2. answers \in SUBSET Answers /\ total \in Int /\ maxScore \in Int
    BY DEF IInv, ScoresInv, TypeOK
  <2>3. SumFunctionOnSet(WasWorthOf, answers) <= SumFunctionOnSet(WasWorth, Asked)
    <3>1. /\ \A a \in answers : Question[a] \in Asked
          /\ \A a \in answers : WasWorthOf[a] = WasWorth[Question[a]]
          /\ \A q \in Asked : WasWorth[q] \in Nat
          /\ IsFiniteSet(answers) /\ IsFiniteSet(Asked)
      BY <2>2, WasWorthSums, GradingAssumption, FS_Subset DEF OnlyAsked
    <3> QED
      BY <3>1, SumOfInjected
  <2>4. maxScore = SumFunctionOnSet(WasWorth, Asked)
    BY DEF IInv, TotalsInv, MaxScoreFixed
  <2>5. total <= maxScore
    BY <2>1, <2>2, <2>3, <2>4, WasWorthSums
  <2> QED
    BY <2>2, <2>5 DEF Percent
<1> QED
  BY <1>1, GradingInvariant, PTL
=============================================================================
