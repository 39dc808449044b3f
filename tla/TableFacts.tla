----------------------------- MODULE TableFacts ------------------------------
(***************************************************************************)
(* Facts about induction, sums and subsequences that the proofs about      *)
(* tables and caches share.  Induction is stated with sets: a set that     *)
(* holds 0 and is closed under successor holds every natural number.       *)
(***************************************************************************)
EXTENDS Integers, Sequences, FiniteSetsExt, Functions, Subsequences,
        FunctionTheorems, FiniteSetTheorems, SequenceTheorems,
        WellFoundedInduction, NaturalsInduction, TLAPS

\* A nonempty set of natural numbers has a least element: what Min() returns for
\* the first free cell of a chain or the first node on a list.
LEMMA NatLeast ==
  ASSUME NEW T, T \subseteq Nat, T # {}
  PROVE  \E m \in T : \A n \in T : m <= n
PROOF
  <1> DEFINE R == OpToRel(<, Nat)
  <1>1. IsWellFoundedOn(R, Nat)
    BY NatLessThanWellFounded DEF OpToRel
  <1>2. PICK m \in T : \A n \in T : ~(<<n, m>> \in R)
    <2> HIDE DEF R
    <2> QED
      BY <1>1, WFMin
  <1>3. \A n \in T : ~(n < m)
    BY <1>2 DEF OpToRel
  <1> QED
    BY <1>3

\* Induction over the natural numbers.
LEMMA NatSetInduction ==
  ASSUME NEW T, 0 \in T, \A n \in Nat : n \in T => n + 1 \in T
  PROVE  Nat \subseteq T
PROOF
  <1> SUFFICES ASSUME Nat \ T # {} PROVE FALSE
    OBVIOUS
  <1>1. PICK m \in Nat \ T : \A n \in Nat \ T : m <= n
    BY NatLeast
  <1>2. m # 0 /\ m - 1 \in Nat
    BY <1>1
  <1>3. m - 1 \in T
    BY <1>1, <1>2
  <1> QED
    BY <1>1, <1>2, <1>3

\* Induction over the subsets of a finite set, an element at a time.
LEMMA FiniteInduction ==
  ASSUME NEW S, IsFiniteSet(S), NEW F, {} \in F,
         \A T \in SUBSET S : \A x \in S \ T : T \in F => T \cup {x} \in F
  PROVE  \A T \in SUBSET S : T \in F
PROOF
  <1> DEFINE N == {n \in Nat : \A T \in SUBSET S : Cardinality(T) = n
      => T \in F}
  <1>f. \A T \in SUBSET S : IsFiniteSet(T) /\ Cardinality(T) \in Nat
    BY FS_Subset, FS_CardinalityType
  <1>1. 0 \in N
    BY <1>f, FS_EmptySet
  <1>2. \A n \in Nat : n \in N => n + 1 \in N
    <2> SUFFICES ASSUME NEW n \in N, NEW T \in SUBSET S, Cardinality(T) = n + 1
                 PROVE  T \in F
      OBVIOUS
    <2>1. T # {}
      <3>1. Cardinality(T) # 0
        OBVIOUS
      <3> QED
        BY <3>1, FS_EmptySet
    <2>2. PICK x \in T : TRUE
      BY <2>1
    <2>3. Cardinality(T \ {x}) = n
      BY <1>f, <2>2, FS_RemoveElement
    <2>4. T \ {x} \in F
      BY <2>3
    <2>5. (T \ {x}) \cup {x} \in F
      BY <2>2, <2>4
    <2>6. (T \ {x}) \cup {x} = T
      BY <2>2
    <2> QED
      BY <2>5, <2>6
  <1>3. Nat \subseteq N
    <2> HIDE DEF N
    <2> QED
      BY <1>1, <1>2, NatSetInduction
  <1> QED
    BY <1>3, <1>f

-----------------------------------------------------------------------------
(***************************************************************************)
(* SumFunctionOnSet() of the community modules takes an element away at a  *)
(* time, with a function over the subsets of the index set.                *)
(***************************************************************************)
Pick(s) == CHOOSE x \in s : TRUE
Sums(f, g, s) == IF s = {} THEN 0 ELSE f[Pick(s)] + g[s \ {Pick(s)}]
AreSums(f, g, D) == g = [s \in D |-> Sums(f, g, s)]

\* The function the definition of a sum chooses exists.
LEMMA SumsExist ==
  ASSUME NEW f, NEW S, IsFiniteSet(S)
  PROVE  \E g : AreSums(f, g, SUBSET S)
PROOF
  <1> DEFINE D(n) == {s \in SUBSET S : Cardinality(s) <= n}
  <1>f. \A T \in SUBSET S : IsFiniteSet(T) /\ Cardinality(T) \in Nat
                            /\ Cardinality(T) <= Cardinality(S)
    BY FS_Subset, FS_CardinalityType
  <1>p. \A s \in SUBSET S : s # {} => Pick(s) \in s
    BY DEF Pick
  <1>1. \E g : AreSums(f, g, D(0))
    <2> DEFINE g == [s \in D(0) |-> 0]
    <2>1. \A s \in D(0) : s = {}
      BY <1>f, FS_EmptySet
    <2>2. AreSums(f, g, D(0))
      BY <2>1 DEF Sums, AreSums
    <2> HIDE DEF g, D
    <2> QED
      BY <2>2
  <1>2. ASSUME NEW n \in Nat, \E g : AreSums(f, g, D(n))
        PROVE  \E g : AreSums(f, g, D(n + 1))
    <2>1. PICK g : AreSums(f, g, D(n))
      BY <1>2
    <2> DEFINE h == [s \in D(n + 1) |-> Sums(f, g, s)]
    <2>2. \A s \in D(n + 1) : s # {} => s \ {Pick(s)} \in D(n)
      <3> SUFFICES ASSUME NEW s \in D(n + 1),
                          s # {} PROVE s \ {Pick(s)} \in D(n)
        OBVIOUS
      <3>1. Cardinality(s \ {Pick(s)}) = Cardinality(s) - 1
        BY <1>f, <1>p, FS_RemoveElement
      <3> QED
        BY <1>f, <3>1
    <2>3. \A s \in D(n) : s \in D(n + 1) /\ h[s] = g[s]
      <3> SUFFICES ASSUME NEW s \in D(n) PROVE s \in D(n + 1) /\ h[s] = g[s]
        OBVIOUS
      <3>1. s \in D(n + 1)
        BY <1>f
      <3>2. g[s] = Sums(f, g, s)
        BY <2>1 DEF AreSums
      <3> QED
        BY <3>1, <3>2
    <2>4. \A s \in D(n + 1) : Sums(f, h, s) = Sums(f, g, s)
      BY <2>2, <2>3 DEF Sums
    <2>5. AreSums(f, h, D(n + 1))
      BY <2>4 DEF AreSums
    <2> HIDE DEF h, D
    <2> QED
      BY <2>5
  <1>3. \E g : AreSums(f, g, D(Cardinality(S)))
    <2> HIDE DEF D
    <2> DEFINE N == {n \in Nat : \E g : AreSums(f, g, D(n))}
    <2>1. 0 \in N /\ \A n \in Nat : n \in N => n + 1 \in N
      BY <1>1, <1>2
    <2>2. Nat \subseteq N
      <3> HIDE DEF N
      <3> QED
        BY <2>1, NatSetInduction
    <2> QED
      BY <1>f, <2>2
  <1>4. D(Cardinality(S)) = SUBSET S
    BY <1>f
  <1> QED
    BY <1>3, <1>4

\* Two such functions agree where both are defined.
LEMMA SumsUnique ==
  ASSUME NEW f, NEW S, IsFiniteSet(S), NEW T \in SUBSET S, NEW g, NEW h,
         AreSums(f, g, SUBSET S), AreSums(f, h, SUBSET T)
  PROVE  g[T] = h[T]
PROOF
  <1> DEFINE N == {n \in Nat : \A s \in SUBSET T : Cardinality(s) = n
      => g[s] = h[s]}
  <1>f. \A s \in SUBSET T : IsFiniteSet(s) /\ Cardinality(s) \in Nat
    BY FS_Subset, FS_CardinalityType
  <1>e. \A s \in SUBSET T : g[s] = Sums(f, g, s) /\ h[s] = Sums(f, h, s)
    BY DEF AreSums
  <1>1. 0 \in N
    BY <1>e, <1>f, FS_EmptySet DEF Sums
  <1>2. \A n \in Nat : n \in N => n + 1 \in N
    <2> SUFFICES ASSUME NEW n \in Nat,
                        \A s \in SUBSET T : Cardinality(s) = n => g[s] = h[s],
                        NEW s \in SUBSET T, Cardinality(s) = n + 1
                 PROVE  g[s] = h[s]
      OBVIOUS
    <2>0. Cardinality(s) # 0
      OBVIOUS
    <2>1. s # {} /\ Pick(s) \in s
      BY <2>0, FS_EmptySet DEF Pick
    <2>2. Cardinality(s \ {Pick(s)}) = n /\ s \ {Pick(s)} \in SUBSET T
      <3>1. Cardinality(s \ {Pick(s)}) = Cardinality(s) - 1
        BY <1>f, <2>1, FS_RemoveElement
      <3> QED
        BY <3>1
    <2>3. g[s \ {Pick(s)}] = h[s \ {Pick(s)}]
      BY <2>2
    <2> QED
      BY <1>e, <2>1, <2>3 DEF Sums
  <1>3. Nat \subseteq N
    <2> HIDE DEF N
    <2> QED
      BY <1>1, <1>2, NatSetInduction
  <1> QED
    BY <1>3, <1>f

\* The sum over no index is 0; over some, what is picked and the sum of the rest.
LEMMA SumStep ==
  ASSUME NEW f, NEW S, IsFiniteSet(S)
  PROVE  SumFunctionOnSet(f, S) =
           IF S = {} THEN 0
           ELSE f[Pick(S)] + SumFunctionOnSet(f, S \ {Pick(S)})
PROOF
  <1> DEFINE it(T) == CHOOSE g : AreSums(f, g, SUBSET T)
  <1>1. \A T \in SUBSET S : SumFunctionOnSet(f, T) = it(T)[T]
    BY DEF SumFunctionOnSet, FoldFunctionOnSet, MapThenFoldSet, AreSums, Sums,
       Pick
  <1>2. \A T \in SUBSET S : AreSums(f, it(T), SUBSET T)
    <2> TAKE T \in SUBSET S
    <2>1. \E g : AreSums(f, g, SUBSET T)
      BY SumsExist, FS_Subset
    <2> QED
      BY <2>1
  <1> HIDE DEF it
  <1>3. \A T \in SUBSET S : it(S)[T] = it(T)[T]
    <2> TAKE T \in SUBSET S
    <2> DEFINE g == it(S)
               h == it(T)
    <2>1. AreSums(f, g, SUBSET S) /\ AreSums(f, h, SUBSET T)
      BY <1>2
    <2> HIDE DEF g, h
    <2>2. g[T] = h[T]
      BY <2>1, SumsUnique
    <2> QED
      BY <2>2 DEF g, h
  <1>4. it(S)[S] = Sums(f, it(S), S)
    BY <1>2 DEF AreSums
  <1>5. S # {} => Pick(S) \in S /\ S \ {Pick(S)} \in SUBSET S
    BY DEF Pick
  <1> QED
    BY <1>1, <1>3, <1>4, <1>5 DEF Sums

\* A sum of integers is an integer, of natural numbers a natural number.
LEMMA SumType ==
  ASSUME NEW f, NEW S, IsFiniteSet(S)
  PROVE  /\ (\A x \in S : f[x] \in Int) => SumFunctionOnSet(f, S) \in Int
         /\ (\A x \in S : f[x] \in Nat) => SumFunctionOnSet(f, S) \in Nat
PROOF
  <1>f. \A T \in SUBSET S : IsFiniteSet(T) /\ Cardinality(T) \in Nat
    BY FS_Subset, FS_CardinalityType
  <1>s. ASSUME NEW V, 0 \in V, \A a, b \in V : a + b \in V,
               \A x \in S : f[x] \in V
        PROVE  SumFunctionOnSet(f, S) \in V
    <2> DEFINE N == {n \in Nat : \A T \in SUBSET S :
                       Cardinality(T) = n => SumFunctionOnSet(f, T) \in V}
    <2>1. 0 \in N
      BY <1>f, <1>s, FS_EmptySet, SumStep
    <2>2. ASSUME NEW n \in Nat, n \in N, NEW T \in SUBSET S,
                 Cardinality(T) = n + 1
          PROVE  SumFunctionOnSet(f, T) \in V
      <3>0. Cardinality(T) # 0
        BY <2>2
      <3>1. T # {} /\ Pick(T) \in T
        BY <3>0, FS_EmptySet DEF Pick
      <3>2. Cardinality(T \ {Pick(T)}) = Cardinality(T) - 1
        BY <1>f, <3>1, FS_RemoveElement
      <3>3. SumFunctionOnSet(f, T \ {Pick(T)}) \in V
        BY <2>2, <3>2
      <3>4. SumFunctionOnSet(f, T)
            = f[Pick(T)] + SumFunctionOnSet(f, T \ {Pick(T)})
        BY <1>f, <3>1, SumStep
      <3> QED
        BY <1>s, <3>1, <3>3, <3>4
    <2>3. Nat \subseteq N
      <3>1. \A n \in Nat : n \in N => n + 1 \in N
        BY <2>2
      <3> HIDE DEF N
      <3> QED
        BY <2>1, <3>1, NatSetInduction
    <2> QED
      BY <1>f, <2>3
  <1>1. (\A x \in S : f[x] \in Int) => SumFunctionOnSet(f, S) \in Int
    BY <1>s
  <1>2. (\A x \in S : f[x] \in Nat) => SumFunctionOnSet(f, S) \in Nat
    <2>1. 0 \in Nat /\ \A a, b \in Nat : a + b \in Nat
      OBVIOUS
    <2> QED
      BY <1>s, <2>1, Zenon
  <1> QED
    BY <1>1, <1>2

\* Any term can be taken out of a sum first.
LEMMA SumRemove ==
  ASSUME NEW f, NEW S, IsFiniteSet(S), \A x \in S : f[x] \in Int, NEW x \in S
  PROVE  SumFunctionOnSet(f, S) = f[x] + SumFunctionOnSet(f, S \ {x})
PROOF
  <1> DEFINE Sum(T) == SumFunctionOnSet(f, T)
             N == {n \in Nat : \A T \in SUBSET S : \A y \in T :
                     Cardinality(T) = n => Sum(T) = f[y] + Sum(T \ {y})}
  <1>f. \A T \in SUBSET S : IsFiniteSet(T) /\ Cardinality(T) \in Nat
    BY FS_Subset, FS_CardinalityType
  <1>t. \A T \in SUBSET S : Sum(T) \in Int
    BY <1>f, SumType
  <1>1. 0 \in N
    BY <1>f, FS_EmptySet
  <1>2. ASSUME NEW n \in Nat, n \in N, NEW T \in SUBSET S,
               Cardinality(T) = n + 1,
               NEW y \in T
        PROVE  Sum(T) = f[y] + Sum(T \ {y})
    <2> DEFINE c == Pick(T)
    <2>1. c \in T /\ Sum(T) = f[c] + Sum(T \ {c})
      BY <1>f, SumStep DEF Pick
    <2> HIDE DEF c
    <2>2. CASE y = c
      BY <2>1, <2>2
    <2>3. CASE y # c
      <3>1. Cardinality(T \ {c}) = Cardinality(T) - 1
            /\ Cardinality(T \ {y}) = Cardinality(T) - 1
        BY <1>f, <2>1, FS_RemoveElement
      <3>2. Cardinality(T \ {c}) = n /\ Cardinality(T \ {y}) = n
        BY <1>2, <3>1
      <3>3. Sum(T \ {c}) = f[y] + Sum((T \ {c}) \ {y})
        <4>1. T \ {c} \in SUBSET S /\ y \in T \ {c}
          BY <2>3
        <4> HIDE DEF Sum
        <4> QED
          BY <1>2, <3>2, <4>1
      <3>4. Sum(T \ {y}) = f[c] + Sum((T \ {y}) \ {c})
        <4>1. T \ {y} \in SUBSET S /\ c \in T \ {y}
          BY <2>1, <2>3
        <4> HIDE DEF Sum
        <4> QED
          BY <1>2, <3>2, <4>1
      <3>5. (T \ {c}) \ {y} = (T \ {y}) \ {c}
        OBVIOUS
      <3>6. Sum((T \ {y}) \ {c}) \in Int /\ f[c] \in Int /\ f[y] \in Int
        BY <1>t, <2>1
      <3> HIDE DEF Sum
      <3>7. Sum(T \ {c}) = f[y] + Sum((T \ {y}) \ {c})
        BY <3>3, <3>5
      <3> QED
        BY <2>1, <3>4, <3>6, <3>7
    <2> QED
      BY <2>2, <2>3
  <1>3. Nat \subseteq N
    <2>1. \A n \in Nat : n \in N => n + 1 \in N
      BY <1>2
    <2> HIDE DEF N
    <2> QED
      BY <1>1, <2>1, NatSetInduction
  <1> QED
    BY <1>3, <1>f

\* Functions that agree on the indices have the same sum.
LEMMA SumSame ==
  ASSUME NEW f, NEW g, NEW S, IsFiniteSet(S), \A x \in S : f[x] \in Int,
         \A x \in S : g[x] = f[x]
  PROVE  SumFunctionOnSet(g, S) = SumFunctionOnSet(f, S)
PROOF
  <1> DEFINE F == {T \in SUBSET S : SumFunctionOnSet(g, T)
      = SumFunctionOnSet(f, T)}
  <1>1. {} \in F
    BY SumStep, FS_EmptySet
  <1>2. ASSUME NEW T \in SUBSET S, NEW x \in S \ T, T \in F
        PROVE  T \cup {x} \in F
    <2>1. IsFiniteSet(T \cup {x}) /\ (T \cup {x}) \ {x} = T
      BY FS_Subset
    <2>2. SumFunctionOnSet(g, T \cup {x})
          = g[x] + SumFunctionOnSet(g, (T \cup {x}) \ {x})
      BY <2>1, SumRemove
    <2>3. SumFunctionOnSet(f, T \cup {x})
          = f[x] + SumFunctionOnSet(f, (T \cup {x}) \ {x})
      BY <2>1, SumRemove
    <2> QED
      BY <1>2, <2>1, <2>2, <2>3
  <1>3. S \in F
    <2> HIDE DEF F
    <2> QED
      BY <1>1, <1>2, FiniteInduction
  <1> QED
    BY <1>3

\* A sum is that of any part and of the rest.
LEMMA SumSplit ==
  ASSUME NEW f, NEW S, IsFiniteSet(S), \A x \in S : f[x] \in Int,
         NEW P \in SUBSET S
  PROVE  SumFunctionOnSet(f, S)
         = SumFunctionOnSet(f, P) + SumFunctionOnSet(f, S \ P)
PROOF
  <1> DEFINE Sum(T) == SumFunctionOnSet(f, T)
             F == {T \in SUBSET S : Sum(S) = Sum(T) + Sum(S \ T)}
  <1>t. \A T \in SUBSET S : IsFiniteSet(T) /\ Sum(T) \in Int
    BY SumType, FS_Subset
  <1>1. {} \in F
    <2>1. Sum({}) = 0 /\ S \ {} = S
      BY SumStep, FS_EmptySet
    <2> QED
      BY <1>t, <2>1
  <1>2. ASSUME NEW T \in SUBSET S, NEW x \in S \ T, T \in F
        PROVE  T \cup {x} \in F
    <2>1. (T \cup {x}) \ {x} = T /\ (S \ T) \ {x} = S \ (T \cup {x})
      OBVIOUS
    <2>2. Sum(T \cup {x}) = f[x] + Sum((T \cup {x}) \ {x})
      BY <1>t, SumRemove
    <2>3. Sum(S \ T) = f[x] + Sum((S \ T) \ {x})
      BY <1>t, SumRemove
    <2>4. /\ Sum(T) \in Int /\ Sum(S \ (T \cup {x})) \in Int /\ f[x] \in Int
          /\ T \cup {x} \in SUBSET S
      BY <1>t
    <2>5. Sum(S) = Sum(T) + Sum(S \ T)
      BY <1>2
    <2>6. Sum(S) = Sum(T \cup {x}) + Sum(S \ (T \cup {x}))
      <3> HIDE DEF Sum
      <3>1. Sum(T \cup {x}) = f[x] + Sum(T)
        BY <2>1, <2>2
      <3>2. Sum(S \ T) = f[x] + Sum(S \ (T \cup {x}))
        BY <2>1, <2>3
      <3> QED
        BY <2>4, <2>5, <3>1, <3>2
    <2> QED
      BY <2>4, <2>6
  <1>3. P \in F
    <2> HIDE DEF F
    <2> QED
      BY <1>1, <1>2, FiniteInduction
  <1> QED
    BY <1>3

\* Numbering the indices anew does not change a sum.
LEMMA SumRenumbered ==
  ASSUME NEW S, NEW T, IsFiniteSet(T), NEW h \in Bijection(T, S),
         NEW f, NEW g, \A y \in S : f[y] \in Int, \A x \in T : g[x] = f[h[x]]
  PROVE  IsFiniteSet(S) /\ SumFunctionOnSet(g, T) = SumFunctionOnSet(f, S)
PROOF
  <1> DEFINE Img(U) == {h[x] : x \in U}
             F == {U \in SUBSET T : IsFiniteSet(Img(U))
                                   /\ SumFunctionOnSet(g, U)
                                      = SumFunctionOnSet(f, Img(U))}
  <1>h. /\ \A x \in T : h[x] \in S
        /\ \A x, y \in T : h[x] = h[y] => x = y
        /\ \A y \in S : \E x \in T : h[x] = y
    BY DEF Bijection, Injection, Surjection, IsInjective
  <1>1. {} \in F
    <2>1. Img({}) = {}
      OBVIOUS
    <2> QED
      BY <2>1, SumStep, FS_EmptySet
  <1>2. ASSUME NEW U \in SUBSET T, NEW x \in T \ U, U \in F
        PROVE  U \cup {x} \in F
    <2>1. IsFiniteSet(U \cup {x}) /\ (U \cup {x}) \ {x} = U
          /\ U \cup {x} \in SUBSET T
      BY FS_Subset
    <2>2. Img(U \cup {x}) = Img(U) \cup {h[x]} /\ h[x] \notin Img(U)
      BY <1>h
    <2>3. (Img(U) \cup {h[x]}) \ {h[x]} = Img(U)
          /\ \A y \in Img(U) \cup {h[x]} : f[y] \in Int
      BY <1>h, <2>2
    <2>4. IsFiniteSet(Img(U) \cup {h[x]})
      BY <1>2, FS_AddElement
    <2>5. \A y \in U \cup {x} : g[y] \in Int
      BY <1>h
    <2> HIDE DEF Img
    <2>6. SumFunctionOnSet(g, U \cup {x}) = g[x] + SumFunctionOnSet(g, U)
      BY <2>1, <2>5, SumRemove
    <2>7. SumFunctionOnSet(f, Img(U) \cup {h[x]})
          = f[h[x]] + SumFunctionOnSet(f, Img(U))
      BY <2>3, <2>4, SumRemove
    <2>8. SumFunctionOnSet(g, U) = SumFunctionOnSet(f, Img(U)) /\ g[x] = f[h[x]]
      BY <1>2
    <2> QED
      BY <2>1, <2>2, <2>4, <2>6, <2>7, <2>8
  <1>3. T \in F
    <2> HIDE DEF F
    <2> QED
      BY <1>1, <1>2, FiniteInduction
  <1>4. Img(T) = S
    BY <1>h
  <1> QED
    BY <1>3, <1>4

\* A sum over the indices of a kind is the sum over all of what counts as nothing
\* elsewhere.
LEMMA SumFiltered ==
  ASSUME NEW S, IsFiniteSet(S), NEW P \in SUBSET S, NEW f, NEW g,
         \A x \in S : g[x] \in Int, \A x \in P : f[x] = g[x],
         \A x \in S \ P : g[x] = 0
  PROVE  SumFunctionOnSet(f, P) = SumFunctionOnSet(g, S)
PROOF
  <1> DEFINE R == S \ P
             F == {T \in SUBSET R : SumFunctionOnSet(g, T) = 0}
  <1>1. IsFiniteSet(P) /\ IsFiniteSet(R) /\ \A T \in SUBSET R : IsFiniteSet(T)
    BY FS_Subset
  <1>2. {} \in F
    BY SumStep, FS_EmptySet
  <1>3. ASSUME NEW T \in SUBSET R, NEW x \in R \ T,
               T \in F PROVE T \cup {x} \in F
    <2>1. (T \cup {x}) \ {x} = T /\ T \cup {x} \in SUBSET R /\ g[x] = 0
      OBVIOUS
    <2>2. SumFunctionOnSet(g, T \cup {x})
          = g[x] + SumFunctionOnSet(g, (T \cup {x}) \ {x})
      <3>1. IsFiniteSet(T \cup {x}) /\ \A y \in T \cup {x} : g[y] \in Int
        BY <1>1, <2>1
      <3> QED
        BY <3>1, SumRemove
    <2>3. SumFunctionOnSet(g, T) = 0
      BY <1>3
    <2>4. SumFunctionOnSet(g, T \cup {x}) = 0 + 0
      BY <2>1, <2>2, <2>3, Zenon
    <2> QED
      BY <2>1, <2>4
  <1>4. R \in F
    <2> HIDE DEF F, R
    <2>1. \A T \in SUBSET R : \A x \in R \ T : T \in F => T \cup {x} \in F
      BY <1>3
    <2>2. \A T \in SUBSET R : T \in F
      BY <1>1, <1>2, <2>1, FiniteInduction
    <2> QED
      BY <2>2
  <1>5. SumFunctionOnSet(g, S)
        = SumFunctionOnSet(g, P) + SumFunctionOnSet(g, S \ P)
    BY SumSplit
  <1>6. SumFunctionOnSet(g, P) \in Int
    BY <1>1, SumType
  <1>7. SumFunctionOnSet(f, P) = SumFunctionOnSet(g, P)
    BY <1>1, SumSame
  <1> QED
    BY <1>4, <1>5, <1>6, <1>7

\* What is nothing at every index sums up to nothing.
LEMMA SumOfNone ==
  ASSUME NEW f, NEW S, IsFiniteSet(S), \A x \in S : f[x] = 0
  PROVE  SumFunctionOnSet(f, S) = 0
PROOF
  <1>1. SumFunctionOnSet(f, {}) = SumFunctionOnSet(f, S)
    BY SumFiltered
  <1>2. SumFunctionOnSet(f, {}) = 0
    BY SumStep, FS_EmptySet
  <1> QED
    BY <1>1, <1>2

-----------------------------------------------------------------------------
Below(I, i) == {j \in I : j < i}

\* Every n up to the number of positions has its position.
LEMMA NthExists ==
  ASSUME NEW I, I \subseteq Nat, IsFiniteSet(I), NEW n \in 1 .. Cardinality(I)
  PROVE  Nth(I, n) \in I /\ Cardinality(Below(I, Nth(I, n))) = n - 1
PROOF
  <1> DEFINE N == {k \in Nat : k < Cardinality(I)
      => \E i \in I : Cardinality(Below(I, i)) = k}
  <1>c. Cardinality(I) \in Nat
    BY FS_CardinalityType
  <1>n. \A i \in I : i \in Int
    OBVIOUS
  <1>1. 0 \in N
    <2> SUFFICES ASSUME 0 < Cardinality(I)
                 PROVE \E i \in I : Cardinality(Below(I, i)) = 0
      OBVIOUS
    <2>1. I # {}
      BY FS_EmptySet
    <2>2. PICK m \in I : \A j \in I : m <= j
      BY <2>1, NatLeast
    <2>3. Below(I, m) = {}
      <3>1. \A j \in I : ~(j < m)
        BY <1>n, <2>2
      <3> QED
        BY <3>1 DEF Below
    <2> QED
      BY <2>3, FS_EmptySet
  <1>2. ASSUME NEW k \in Nat, k + 1 < Cardinality(I), NEW i \in I,
               Cardinality(Below(I, i)) = k
        PROVE  \E m \in I : Cardinality(Below(I, m)) = k + 1
    <2> DEFINE B == Below(I, i) \cup {i}
    <2>1. IsFiniteSet(Below(I, i)) /\ i \notin Below(I, i)
      BY FS_Subset DEF Below
    <2>2. Cardinality(B) = k + 1
      BY <1>2, <2>1, FS_AddElement
    <2>3. I \ B # {}
      <3>1. B \subseteq I
        BY DEF Below
      <3>2. B # I
        BY <1>2, <2>2
      <3> QED
        BY <3>1, <3>2
    <2>4. PICK m \in I \ B : \A j \in I \ B : m <= j
      BY <2>3, NatLeast
    <2>5. \A j \in I : j \in B <=> j < m
      <3>1. \A j \in I : j \in B <=> j <= i
        BY <1>n DEF Below
      <3>2. ~(m <= i)
        BY <2>4, <3>1
      <3>3. \A j \in I : ~(j <= i) => m <= j
        BY <2>4, <3>1
      <3> QED
        BY <1>n, <2>4, <3>1, <3>2, <3>3
    <2>6. Below(I, m) = B
      BY <2>5 DEF Below
    <2> QED
      BY <2>2, <2>4, <2>6
  <1>3. Nat \subseteq N
    <2>1. \A k \in Nat : k \in N => k + 1 \in N
      <3> SUFFICES ASSUME NEW k \in N, k + 1 < Cardinality(I)
                   PROVE  \E m \in I : Cardinality(Below(I, m)) = k + 1
        OBVIOUS
      <3>1. PICK i \in I : Cardinality(Below(I, i)) = k
        BY <1>c
      <3> QED
        BY <1>2, <3>1
    <2> HIDE DEF N
    <2> QED
      BY <1>1, <2>1, NatSetInduction
  <1>4. \E i \in I : Cardinality(Below(I, i)) = n - 1
    <2>1. n - 1 \in N /\ n - 1 < Cardinality(I)
      BY <1>3, <1>c
    <2> QED
      BY <2>1
  <1> QED
    BY <1>4 DEF Nth, Below

\* The positions come in their order, and each of them comes.
LEMMA NthOrder ==
  ASSUME NEW I, I \subseteq Nat, IsFiniteSet(I)
  PROVE  /\ \A m, n \in 1 .. Cardinality(I) : m < n => Nth(I, m) < Nth(I, n)
         /\ \A i \in I : \E n \in 1 .. Cardinality(I) : Nth(I, n) = i
PROOF
  <1>c. Cardinality(I) \in Nat
    BY FS_CardinalityType
  <1>n. \A i \in I : i \in Int
    OBVIOUS
  <1>f. \A i \in I : IsFiniteSet(Below(I, i)) /\ i \notin Below(I, i)
                     /\ Below(I, i) \cup {i} \subseteq I
    BY FS_Subset DEF Below
  <1>1. \A i,
        j \in I : i < j => Cardinality(Below(I, i)) < Cardinality(Below(I, j))
    <2> SUFFICES ASSUME NEW i \in I, NEW j \in I, i < j
                 PROVE  Cardinality(Below(I, i)) < Cardinality(Below(I, j))
      OBVIOUS
    <2>1. Below(I, i) \cup {i} \subseteq Below(I, j)
      <3>1. i \in Int /\ j \in Int
        BY <1>n
      <3>2. \A h \in I : h < i => h < j
        BY <1>n, <3>1
      <3> QED
        BY <3>2 DEF Below
    <2>2. Cardinality(Below(I, i) \cup {i}) <= Cardinality(Below(I, j))
      BY <1>f, <2>1, FS_Subset
    <2>3. Cardinality(Below(I, i) \cup {i}) = Cardinality(Below(I, i)) + 1
      BY <1>f, FS_AddElement
    <2>4. Cardinality(Below(I, i)) \in Nat /\ Cardinality(Below(I, j)) \in Nat
      BY <1>f, FS_CardinalityType
    <2> QED
      BY <2>2, <2>3, <2>4
  <1>2. ASSUME NEW m \in 1 .. Cardinality(I), NEW n \in 1 .. Cardinality(I),
               m < n
        PROVE  Nth(I, m) < Nth(I, n)
    <2>1. /\ Nth(I, m) \in I /\ Cardinality(Below(I, Nth(I, m))) = m - 1
          /\ Nth(I, n) \in I /\ Cardinality(Below(I, Nth(I, n))) = n - 1
      BY NthExists
    <2>2. Nth(I, m) # Nth(I, n)
      BY <1>2, <1>c, <2>1
    <2>3. ~(Nth(I, n) < Nth(I, m))
      <3> SUFFICES ASSUME Nth(I, n) < Nth(I, m) PROVE FALSE
        OBVIOUS
      <3>1. n - 1 < m - 1
        BY <1>1, <2>1
      <3> QED
        BY <1>2, <1>c, <3>1
    <2>4. Nth(I, m) \in Int /\ Nth(I, n) \in Int
      BY <1>n, <2>1
    <2> QED
      BY <2>2, <2>3, <2>4
  <1>3. ASSUME NEW i \in I PROVE \E n \in 1 .. Cardinality(I) : Nth(I, n) = i
    <2> DEFINE n == Cardinality(Below(I, i)) + 1
    <2>1. n = Cardinality(Below(I, i) \cup {i})
      BY <1>f, FS_AddElement
    <2>2. n \in 1 .. Cardinality(I)
      <3>1. n <= Cardinality(I)
        BY <1>f, <2>1, FS_Subset
      <3>2. Cardinality(Below(I, i)) \in Nat
        BY <1>f, FS_CardinalityType
      <3> QED
        BY <1>c, <3>1, <3>2
    <2>3. Nth(I, n) \in I /\ Cardinality(Below(I, Nth(I, n))) = n - 1
      BY <2>2, NthExists
    <2>4. Cardinality(Below(I, Nth(I, n))) = Cardinality(Below(I, i))
      <3>1. Cardinality(Below(I, i)) \in Nat
        BY <1>f, FS_CardinalityType
      <3> QED
        BY <2>3, <3>1
    <2>5. ~(Nth(I, n) < i) /\ ~(i < Nth(I, n))
      <3>1. Cardinality(Below(I, i)) \in Nat
        BY <1>f, FS_CardinalityType
      <3>2. ~(Cardinality(Below(I, i)) < Cardinality(Below(I, i)))
        BY <3>1
      <3> HIDE DEF n
      <3> QED
        BY <1>1, <2>3, <2>4, <3>2
    <2>6. Nth(I, n) = i
      <3> HIDE DEF n
      <3>1. Nth(I, n) \in Int /\ i \in Int
        BY <1>n, <2>3
      <3> QED
        BY <2>5, <3>1
    <2> QED
      BY <2>2, <2>6
  <1> QED
    BY <1>2, <1>3

\* What is kept of a sequence: its members of T, each at its turn.
LEMMA KeptPositions ==
  ASSUME NEW S, NEW s \in Seq(S), NEW T
  PROVE  LET I == Positions(s, T)
         IN /\ I \subseteq 1 .. Len(s) /\ IsFiniteSet(I)
            /\ Cardinality(I) \in Nat
            /\ Kept(s, T) \in Seq(S \cap T) /\ Len(Kept(s, T)) = Cardinality(I)
            /\ \A n \in 1 .. Cardinality(I) : Nth(I, n) \in I
               /\ Kept(s, T)[n] = s[Nth(I, n)]
            /\ \A m, n \in 1 .. Cardinality(I) : m < n => Nth(I, m) < Nth(I, n)
            /\ \A i \in I : \E n \in 1 .. Cardinality(I) : Nth(I, n) = i
PROOF
  <1> DEFINE I == Positions(s, T)
  <1>1. I \subseteq 1 .. Len(s) /\ \A i \in I : s[i] \in S \cap T
    BY ElementOfSeq, LenProperties DEF Positions
  <1>2. IsFiniteSet(I) /\ Cardinality(I) \in Nat /\ I \subseteq Nat
    <2>1. IsFiniteSet(1 .. Len(s)) /\ Len(s) \in Nat
      BY FS_Interval, LenProperties
    <2> QED
      BY <1>1, <2>1, FS_Subset, FS_CardinalityType
  <1>3. \A n \in 1 .. Cardinality(I) : Nth(I, n) \in I
    BY <1>2, NthExists
  <1>4. Kept(s, T) = [n \in 1 .. Cardinality(I) |-> s[Nth(I, n)]]
    BY DEF Kept
  <1> HIDE DEF I
  <1>5. Kept(s, T) \in Seq(S \cap T) /\ Len(Kept(s, T)) = Cardinality(I)
    <2>1. \A n \in 1 .. Cardinality(I) : s[Nth(I, n)] \in S \cap T
      BY <1>1, <1>3
    <2> QED
      BY <1>2, <1>4, <2>1, IsASeq, LenProperties
  <1>6. /\ \A m, n \in 1 .. Cardinality(I) : m < n => Nth(I, m) < Nth(I, n)
        /\ \A i \in I : \E n \in 1 .. Cardinality(I) : Nth(I, n) = i
    BY <1>2, NthOrder
  <1> QED
    BY <1>1, <1>2, <1>3, <1>4, <1>5, <1>6 DEF I
-----------------------------------------------------------------------------
(***************************************************************************)
(* Division by a bound: hashed indices, counters and sequence numbers that *)
(* wrap.                                                                   *)
(***************************************************************************)
\* Division with remainder.
LEMMA Division ==
  ASSUME NEW n \in Nat \ {0}, NEW k \in Int
  PROVE  /\ k % n \in 0 .. n - 1
         /\ \E d \in Int : k = n * d + (k % n)
PROOF
  <1>1. k % n \in 0 .. n - 1
    OBVIOUS
  <1>2. k \div n \in Int
    OBVIOUS
  <1>3. k = n * (k \div n) + (k % n)
    OBVIOUS
  <1> QED
    BY <1>1, <1>2, <1>3

\* There is one remainder.
LEMMA ModUnique ==
  ASSUME NEW m \in Nat \ {0}, NEW q \in Int, NEW b \in 0 .. m - 1,
         NEW a \in Int,
         a = m * q + b
  PROVE  a % m = b
PROOF
  <1>2. PICK d \in Int, r \in 0 .. m - 1 : a = m * d + r /\ a % m = r
    BY Division, Zenon
  <1>3. m * (q - d) = r - b
    BY <1>2
  <1>4. \A z \in Int : z >= 1 => m * z >= m
    OBVIOUS
  <1>5. ~(q - d >= 1)
    BY <1>2, <1>3, <1>4
  <1>6. m * (d - q) = b - r
    BY <1>2
  <1>7. ~(d - q >= 1)
    BY <1>2, <1>4, <1>6
  <1>8. q = d
    BY <1>2, <1>5, <1>7
  <1> QED
    BY <1>2, <1>8

\* Numbers less than the bound apart have different remainders.
LEMMA NearRemainders ==
  ASSUME NEW n \in Nat \ {0}, NEW a \in Nat, NEW b \in Nat,
         a - b \in 1 - n .. n - 1, a % n = b % n
  PROVE  a = b
PROOF
  <1> DEFINE r == a % n
  <1>0. a \in Int /\ b \in Int
    OBVIOUS
  <1>1. PICK p \in Int : a = n * p + r
    BY <1>0, Division, Zenon
  <1>2. PICK q \in Int : b = n * q + r
    BY <1>0, Division, Zenon
  <1>3. r \in 0 .. n - 1
    OBVIOUS
  <1> HIDE DEF r
  <1>4. n * (p - q) = a - b /\ n * (q - p) = b - a
    BY <1>1, <1>2, <1>3
  <1>5. \A z \in Int : z >= 1 => n * z >= n
    OBVIOUS
  <1>6. ~(p - q >= 1) /\ ~(q - p >= 1)
    BY <1>4, <1>5
  <1>7. p = q
    BY <1>6
  <1> QED
    BY <1>1, <1>2, <1>7

\* A remainder may be taken before something is added.
LEMMA AddRemainder ==
  ASSUME NEW n \in Nat \ {0}, NEW a \in Nat, NEW b \in Nat
  PROVE  ((a % n) + b) % n = (a + b) % n
PROOF
  <1> DEFINE r == a % n
             c == r + b
             s == c % n
  <1>1. r \in Nat /\ c \in Nat /\ a \in Int /\ c \in Int
    OBVIOUS
  <1>2. PICK p \in Int : a = n * p + r
    BY <1>1, Division, Zenon
  <1>3. PICK q \in Int : c = n * q + s
    BY <1>1, Division, Zenon
  <1>4. s \in 0 .. n - 1
    BY <1>1
  <1> HIDE DEF s
  <1>5. n * (p + q) = n * p + n * q
    OBVIOUS
  <1>6. a + b = n * (p + q) + s
    <2>1. n * p \in Int /\ n * q \in Int
      OBVIOUS
    <2> HIDE DEF r
    <2> QED
      BY <1>1, <1>2, <1>3, <1>4, <1>5, <2>1
  <1>7. (a + b) % n = s
    <2> DEFINE x == a + b
               y == p + q
    <2>1. x \in Int /\ y \in Int /\ x = n * y + s /\ s \in 0 .. n - 1
      BY <1>4, <1>6
    <2> HIDE DEF x, y
    <2>2. x % n = s
      BY <2>1, ModUnique
    <2> QED
      BY <2>2 DEF x
  <1> QED
    BY <1>7 DEF s
-----------------------------------------------------------------------------
\* Min() and Max(), where the model takes the first or the last of some positions.
LEMMA MinOf ==
  ASSUME NEW T, T \subseteq Nat, T # {}
  PROVE  Min(T) \in T /\ \A n \in T : Min(T) <= n
PROOF
  <1>1. \E m \in T : \A n \in T : m <= n
    BY NatLeast
  <1> QED
    BY <1>1 DEF Min

\* MIN() of two counters.
LEMMA MinOfTwo ==
  ASSUME NEW a \in Nat, NEW b \in Nat
  PROVE  Min({a, b}) \in Nat /\ Min({a, b}) <= a /\ Min({a, b}) <= b
         /\ (b <= a => Min({a, b}) = b)
PROOF
  <1>1. {a, b} \subseteq Nat /\ {a, b} # {}
    OBVIOUS
  <1> QED
    BY <1>1, MinOf

\* no element comes twice
Once(q) == \A i, j \in DOMAIN q : q[i] = q[j] => i = j

\* What is in a queue, and how much: Len() counts the elements if none is in it
\* twice.
LEMMA RangeOf ==
  ASSUME NEW S, NEW q \in Seq(S)
  PROVE  /\ Range(q) = {q[i] : i \in 1 .. Len(q)} /\ Range(q) \subseteq S
         /\ IsFiniteSet(Range(q)) /\ Cardinality(Range(q)) \in Nat
         /\ Cardinality(Range(q)) <= Len(q)
         /\ Once(q) => Cardinality(Range(q)) = Len(q)
PROOF
  <1>1. Len(q) \in Nat /\ q \in [1 .. Len(q) -> S] /\ DOMAIN q = 1 .. Len(q)
    BY LenProperties
  <1>2. Range(q) = {q[i] : i \in 1 .. Len(q)} /\ Range(q) \subseteq S
    BY <1>1 DEF Range
  <1>3. IsFiniteSet(1 .. Len(q)) /\ Cardinality(1 .. Len(q)) = Len(q)
    BY <1>1, FS_Interval, SMTT(30)
  <1>4. q \in Surjection(1 .. Len(q), Range(q))
    BY <1>1, <1>2 DEF Surjection
  <1>5. /\ IsFiniteSet(Range(q)) /\ Cardinality(Range(q)) <= Len(q)
        /\ Cardinality(Range(q)) = Len(q) <=> q
           \in Injection(1 .. Len(q), Range(q))
    BY <1>3, <1>4, FS_Surjection
  <1>6. Once(q) => q \in Injection(1 .. Len(q), Range(q))
    BY <1>1, <1>2 DEF Once, Injection, IsInjective
  <1> QED
    BY <1>2, <1>5, <1>6, FS_CardinalityType

\* What Append() adds to a queue.
LEMMA AppendRange ==
  ASSUME NEW S, NEW q \in Seq(S), NEW e \in S
  PROVE  /\ Append(q, e) \in Seq(S) /\ Range(Append(q, e)) = Range(q) \cup {e}
         /\ Once(q) /\ e \notin Range(q) => Once(Append(q, e))
PROOF
  <1>1. /\ Append(q, e) \in Seq(S) /\ Len(Append(q, e)) = Len(q) + 1
        /\ \A i \in 1 .. Len(q) : Append(q, e)[i] = q[i]
        /\ Append(q, e)[Len(q) + 1] = e /\ Len(q) \in Nat
    BY AppendProperties, LenProperties
  <1>2. /\ Range(q) = {q[i] : i \in 1 .. Len(q)}
        /\ Range(Append(q, e)) = {Append(q, e)[i] : i \in 1 .. Len(q) + 1}
    BY <1>1, RangeOf
  <1>3. \A i \in 1 .. Len(q) + 1 : i \in 1 .. Len(q) \/ i = Len(q) + 1
    BY <1>1
  <1>4. Range(Append(q, e)) = Range(q) \cup {e}
    <2>1. Range(Append(q, e)) \subseteq Range(q) \cup {e}
      BY <1>1, <1>2, <1>3
    <2>2. \A i \in 1 .. Len(q) : i \in 1 .. Len(q) + 1
      BY <1>1
    <2>3. Range(q) \subseteq Range(Append(q, e)) /\ e \in Range(Append(q, e))
      BY <1>1, <1>2, <2>2
    <2> QED
      BY <2>1, <2>3
  <1>5. ASSUME Once(q), e \notin Range(q) PROVE Once(Append(q, e))
    <2>1. DOMAIN Append(q, e) = 1 .. Len(q) + 1 /\ DOMAIN q = 1 .. Len(q)
      BY <1>1, LenProperties
    <2>2. \A i \in 1 .. Len(q) : Append(q, e)[i] # e
      BY <1>1, <1>2, <1>5
    <2> QED
      BY <1>1, <1>3, <1>5, <2>1, <2>2 DEF Once
  <1> QED
    BY <1>1, <1>4, <1>5

\* What is left of a list in its order holds what was kept, and none of it twice.
LEMMA KeptRange ==
  ASSUME NEW S, NEW s \in Seq(S), NEW T
  PROVE  /\ Kept(s, T) \in Seq(S \cap T) /\ Range(Kept(s, T)) = Range(s) \cap T
         /\ Once(s) => Once(Kept(s, T))
PROOF
  <1> DEFINE I == Positions(s, T)
             k == Kept(s, T)
  <1>1. /\ I \subseteq 1 .. Len(s) /\ Cardinality(I) \in Nat
        /\ k \in Seq(S \cap T) /\ Len(k) = Cardinality(I)
        /\ \A n \in 1 .. Cardinality(I) : Nth(I, n) \in I /\ k[n] = s[Nth(I, n)]
        /\ \A m, n \in 1 .. Cardinality(I) : m < n => Nth(I, m) < Nth(I, n)
        /\ \A i \in I : \E n \in 1 .. Cardinality(I) : Nth(I, n) = i
    BY KeptPositions, SMTT(30)
  <1>2. /\ DOMAIN s = 1 .. Len(s) /\ DOMAIN k = 1 .. Cardinality(I)
        /\ Range(s) = {s[i] : i \in 1 .. Len(s)}
        /\ Range(k) = {k[i] : i \in 1 .. Cardinality(I)}
    BY <1>1, LenProperties, RangeOf
  <1>3. I = {i \in 1 .. Len(s) : s[i] \in T}
    BY <1>2 DEF Positions
  <1> HIDE DEF I, k
  <1>4. Range(k) = Range(s) \cap T
    <2>1. Range(k) \subseteq Range(s) \cap T
      BY <1>1, <1>2, <1>3
    <2>2. ASSUME NEW i \in 1 .. Len(s), s[i] \in T PROVE s[i] \in Range(k)
      <3>1. PICK n \in 1 .. Cardinality(I) : Nth(I, n) = i
        BY <1>1, <1>3, <2>2
      <3> QED
        BY <1>1, <1>2, <3>1
    <2> QED
      BY <1>2, <2>1, <2>2
  <1>5. ASSUME Once(s), NEW m \in DOMAIN k, NEW n \in DOMAIN k, k[m] = k[n]
        PROVE  m = n
    <2>1. Nth(I, m) = Nth(I, n) /\ Nth(I, m) \in Int
      BY <1>1, <1>2, <1>3, <1>5 DEF Once
    <2>2. ~(Nth(I, m) < Nth(I, n)) /\ ~(Nth(I, n) < Nth(I, m))
      BY <2>1
    <2> QED
      BY <1>1, <1>2, <2>2
  <1>6. Once(s) => Once(k)
    BY <1>5 DEF Once
  <1> QED
    BY <1>1, <1>4, <1>6 DEF k
-----------------------------------------------------------------------------
(***************************************************************************)
(* A hash table with a list of all its nodes, as ip_frag.c and ip_flow.c   *)
(* have them: home[n] is the bucket of node n.                             *)
(***************************************************************************)
Filed(chain, lru, home, B, N) ==
  /\ chain \in [B -> Seq(N)] /\ lru \in Seq(N) /\ Once(lru)
  /\ \A n \in Range(lru) : home[n] \in B
  /\ \A b \in B : Once(chain[b])
     /\ Range(chain[b]) = {n \in Range(lru) : home[n] = b}

\* the buckets with some nodes only, and with one more node
KeptIn(chain, B, keep) == [b \in B |-> Kept(chain[b], keep)]
AddedTo(chain, b, n) == [chain EXCEPT ![b] = Append(@, n)]

\* the list with a node moved to its end
ToEnd(lru, N, n) == Append(Kept(lru, N \ {n}), n)

\* a list in the order of some number of its nodes
Ascending(s, f) == \A i, j \in DOMAIN s : i < j => f[s[i]] <= f[s[j]]

\* Nodes taken out of their buckets and of the list, as prune_old_fragments() and
\* prune_old_flows() do, leave the others where they are, and free that many.
LEMMA FiledWithout ==
  ASSUME NEW chain, NEW lru, NEW home, NEW B, NEW N,
         Filed(chain, lru, home, B, N),
         NEW gone \in SUBSET Range(lru)
  PROVE  /\ Filed(KeptIn(chain, B, N \ gone), Kept(lru, N \ gone), home, B, N)
         /\ Range(Kept(lru, N \ gone)) = Range(lru) \ gone
         /\ Cardinality(gone) \in Nat /\ Len(Kept(lru, N \ gone)) \in Nat
         /\ Len(Kept(lru, N \ gone)) + Cardinality(gone) = Len(lru)
PROOF
  <1> DEFINE T == N \ gone
             k == Kept(lru, T)
             d == [b \in B |-> Kept(chain[b], T)]
  <1>0. lru \in Seq(N) /\ Once(lru) /\ chain \in [B -> Seq(N)]
    BY DEF Filed
  <1>1. Range(lru) \subseteq N /\ IsFiniteSet(Range(lru))
        /\ Cardinality(Range(lru)) = Len(lru)
    BY <1>0, RangeOf
  <1>2. k \in Seq(N \cap T) /\ Range(k) = Range(lru) \cap T /\ Once(k)
    BY <1>0, KeptRange
  <1>3. k \in Seq(N)
    <2>1. N \cap T \subseteq N
      OBVIOUS
    <2> QED
      BY <1>2, <2>1, SeqMonotonic
  <1>4. Range(k) = Range(lru) \ gone
    BY <1>1, <1>2
  <1>5. Cardinality(Range(k)) = Len(k)
    BY <1>2, <1>3, RangeOf
  <1>6. Cardinality(Range(lru) \ gone)
        = Cardinality(Range(lru)) - Cardinality(gone)
    <2>1. IsFiniteSet(gone) /\ Range(lru) \cap gone = gone
      BY <1>1, FS_Subset
    <2>2. /\ Cardinality(Range(lru) \ gone)
               = Cardinality(Range(lru)) - Cardinality(Range(lru) \cap gone)
      BY <1>1, FS_Difference
    <2> QED
      BY <2>1, <2>2
  <1>7. Cardinality(gone) \in Nat /\ Len(k) \in Nat
    BY <1>1, <1>3, FS_Subset, FS_CardinalityType, LenProperties
  <1>8. Len(k) + Cardinality(gone) = Len(lru)
    <2>1. Cardinality(Range(k)) = Cardinality(Range(lru) \ gone)
      BY <1>4
    <2>2. Len(k) = Len(lru) - Cardinality(gone) /\ Len(lru) \in Nat
      BY <1>0, <1>1, <1>5, <1>6, <2>1, LenProperties
    <2> HIDE DEF k, T, d
    <2> QED
      BY <1>7, <2>2
  <1>9. ASSUME NEW b \in B
        PROVE  /\ Kept(chain[b], T) \in Seq(N) /\ Once(Kept(chain[b], T))
               /\ Range(Kept(chain[b], T)) = {n \in Range(k) : home[n] = b}
    <2>1. /\ chain[b] \in Seq(N) /\ Once(chain[b])
          /\ Range(chain[b]) = {n \in Range(lru) : home[n] = b}
      BY <1>0 DEF Filed
    <2>2. /\ Kept(chain[b], T) \in Seq(N \cap T) /\ Once(Kept(chain[b], T))
          /\ Range(Kept(chain[b], T)) = Range(chain[b]) \cap T
      BY <2>1, KeptRange
    <2>3. Kept(chain[b], T) \in Seq(N)
      <3>1. N \cap T \subseteq N
        OBVIOUS
      <3> QED
        BY <2>2, <3>1, SeqMonotonic
    <2> QED
      BY <1>2, <2>1, <2>2, <2>3
  <1>10. Filed(d, k, home, B, N)
    <2>1. d \in [B -> Seq(N)] /\ \A b \in B : d[b] = Kept(chain[b], T)
      BY <1>9
    <2>2. \A n \in Range(k) : home[n] \in B
      BY <1>4 DEF Filed
    <2> HIDE DEF d, k, T
    <2> QED
      BY <1>2, <1>3, <1>9, <2>1, <2>2 DEF Filed
  <1> HIDE DEF k, d
  <1> QED
    BY <1>4, <1>7, <1>8, <1>10 DEF k, d, KeptIn

\* A new node goes to the end of its bucket and of the list, as in
\* create_fragment() and create_flow().
LEMMA FiledNew ==
  ASSUME NEW chain, NEW lru, NEW home, NEW B, NEW N,
         Filed(chain, lru, home, B, N),
         NEW n \in N \ Range(lru), NEW b \in B, NEW place,
         \A m \in Range(lru) : place[m] = home[m], place[n] = b
  PROVE  /\ Filed(AddedTo(chain, b, n), Append(lru, n), place, B, N)
         /\ Range(Append(lru, n)) = Range(lru) \cup {n}
         /\ Len(Append(lru, n)) = Len(lru) + 1
PROOF
  <1> DEFINE d == [chain EXCEPT ![b] = Append(@, n)]
             k == Append(lru, n)
  <1>0. lru \in Seq(N) /\ Once(lru) /\ chain \in [B -> Seq(N)]
    BY DEF Filed
  <1>1. k \in Seq(N) /\ Range(k) = Range(lru) \cup {n} /\ Once(k)
    BY <1>0, AppendRange
  <1>2. Len(k) = Len(lru) + 1
    BY <1>0, AppendProperties
  <1>3. ASSUME NEW c \in B
        PROVE  /\ d[c] \in Seq(N) /\ Once(d[c])
               /\ Range(d[c]) = {m \in Range(k) : place[m] = c}
    <2>1. /\ chain[c] \in Seq(N) /\ Once(chain[c])
          /\ Range(chain[c]) = {m \in Range(lru) : home[m] = c}
      BY <1>0 DEF Filed
    <2>2. CASE c = b
      <3>1. d[c] = Append(chain[c], n)
        BY <1>0, <2>2
      <3>2. /\ Append(chain[c], n) \in Seq(N)
            /\ Range(Append(chain[c], n)) = Range(chain[c]) \cup {n}
            /\ Once(Append(chain[c], n))
        BY <2>1, AppendRange
      <3>3. {m \in Range(k) : place[m] = c} = Range(chain[c]) \cup {n}
        BY <1>1, <2>1, <2>2
      <3> QED
        BY <3>1, <3>2, <3>3
    <2>3. CASE c # b
      <3>1. d[c] = chain[c]
        BY <1>0, <2>3
      <3>2. {m \in Range(k) : place[m] = c} = Range(chain[c])
        BY <1>1, <2>1, <2>3
      <3> QED
        BY <2>1, <3>1, <3>2
    <2> QED
      BY <2>2, <2>3
  <1>4. d \in [B -> Seq(N)]
    <2>1. DOMAIN d = B
      BY <1>0
    <2> QED
      BY <1>0, <1>3
  <1>5. \A m \in Range(k) : place[m] \in B
    BY <1>1 DEF Filed
  <1> HIDE DEF d, k
  <1>6. Filed(d, k, place, B, N)
    BY <1>1, <1>3, <1>4, <1>5 DEF Filed
  <1> QED
    BY <1>1, <1>2, <1>6 DEF d, k, AddedTo

\* A node that is used again goes to the end of the list and stays in its bucket.
LEMMA FiledAgain ==
  ASSUME NEW chain, NEW lru, NEW home, NEW B, NEW N,
         Filed(chain, lru, home, B, N),
         NEW n \in Range(lru)
  PROVE  LET k == ToEnd(lru, N, n)
         IN Filed(chain, k, home, B, N) /\ Range(k) = Range(lru)
            /\ Len(k) = Len(lru)
PROOF
  <1> DEFINE r == Kept(lru, N \ {n})
             k == Append(r, n)
  <1>0. lru \in Seq(N) /\ Once(lru) /\ chain \in [B -> Seq(N)]
    BY DEF Filed
  <1>1. Range(lru) \subseteq N
    BY <1>0, RangeOf
  <1>2. {n} \in SUBSET Range(lru)
    OBVIOUS
  <1>w. Range(r) = Range(lru) \ {n}
    <2>1. r \in Seq(N \cap (N \ {n})) /\ Range(r) = Range(lru) \cap (N \ {n})
      BY <1>0, KeptRange
    <2> QED
      BY <1>1, <2>1
  <1>x. Filed(KeptIn(chain, B, N \ {n}), r, home, B, N) /\ Len(r) \in Nat
    BY <1>2, FiledWithout
  <1>y. Cardinality(Range(r)) = Len(r) /\ Cardinality(Range(lru)) = Len(lru)
        /\ IsFiniteSet(Range(lru)) /\ Len(lru) \in Nat
    <2>1. r \in Seq(N) /\ Once(r)
      BY <1>x DEF Filed
    <2> HIDE DEF r
    <2> QED
      BY <1>0, <2>1, RangeOf, LenProperties
  <1>z. Cardinality(Range(lru) \ {n}) = Cardinality(Range(lru)) - 1
    BY <1>y, FS_RemoveElement
  <1> HIDE DEF r
  <1>3. Len(r) + 1 = Len(lru)
    BY <1>w, <1>x, <1>y, <1>z
  <1>4. r \in Seq(N) /\ Once(r)
    BY <1>x DEF Filed
  <1>5. k \in Seq(N) /\ Range(k) = Range(lru) /\ Once(k)
    <2>1. n \in N /\ n \notin Range(r)
      BY <1>1, <1>w
    <2>2. Append(r, n) \in Seq(N) /\ Range(Append(r, n)) = Range(r) \cup {n}
          /\ Once(Append(r, n))
      BY <1>4, <2>1, AppendRange
    <2> QED
      BY <1>w, <2>1, <2>2
  <1>6. Len(k) = Len(lru)
    <2>1. n \in N
      BY <1>1
    <2>2. Len(Append(r, n)) = Len(r) + 1
      BY <1>4, <2>1, AppendProperties
    <2> QED
      BY <1>3, <2>2
  <1> HIDE DEF k
  <1>7. Filed(chain, k, home, B, N)
    BY <1>5 DEF Filed
  <1> QED
    BY <1>5, <1>6, <1>7 DEF k, r, ToEnd

\* What is done to the contents of nodes without moving them keeps the table.
LEMMA FiledSame ==
  ASSUME NEW chain, NEW lru, NEW home, NEW B, NEW N,
         Filed(chain, lru, home, B, N),
         NEW place, \A m \in Range(lru) : place[m] = home[m]
  PROVE  Filed(chain, lru, place, B, N)
PROOF
  BY DEF Filed

\* The order of a list is that of the numbers of its own nodes.
LEMMA AscendingSame ==
  ASSUME NEW s, NEW f, NEW g, Ascending(s, f), \A n \in Range(s) : g[n] = f[n]
  PROVE  Ascending(s, g)
PROOF
  BY DEF Ascending, Range

\* Nodes taken out do not disturb the order of the others.
LEMMA KeptAscending ==
  ASSUME NEW S, NEW s \in Seq(S), NEW T
  PROVE  \A f : Ascending(s, f) => Ascending(Kept(s, T), f)
PROOF
  <1> DEFINE I == Positions(s, T)
             k == Kept(s, T)
  <1>1. /\ I \subseteq 1 .. Len(s) /\ Cardinality(I) \in Nat
        /\ k \in Seq(S \cap T) /\ Len(k) = Cardinality(I)
        /\ \A n \in 1 .. Cardinality(I) : Nth(I, n) \in I /\ k[n] = s[Nth(I, n)]
        /\ \A m, n \in 1 .. Cardinality(I) : m < n => Nth(I, m) < Nth(I, n)
        /\ \A i \in I : \E n \in 1 .. Cardinality(I) : Nth(I, n) = i
    BY KeptPositions
  <1>2. DOMAIN s = 1 .. Len(s) /\ DOMAIN k = 1 .. Cardinality(I)
    BY <1>1, LenProperties
  <1> HIDE DEF I, k
  <1>3. ASSUME NEW f, Ascending(s, f), NEW i \in DOMAIN k, NEW j \in DOMAIN k,
               i < j
        PROVE  f[k[i]] <= f[k[j]]
    <2>1. Nth(I, i) \in DOMAIN s /\ Nth(I, j) \in DOMAIN s
          /\ Nth(I, i) < Nth(I, j)
      BY <1>1, <1>2, <1>3
    <2>2. f[s[Nth(I, i)]] <= f[s[Nth(I, j)]]
      BY <1>3, <2>1 DEF Ascending
    <2> QED
      BY <1>1, <1>2, <2>2
  <1>4. \A f : Ascending(s, f) => Ascending(k, f)
    BY <1>3 DEF Ascending
  <1> QED
    BY <1>4 DEF k

\* A node whose number is not below the others' goes to the end.
LEMMA AppendAscending ==
  ASSUME NEW S, NEW s \in Seq(S), NEW n \in S, n \notin Range(s)
  PROVE  \A f, g :
           Ascending(s, f) /\ (\A m \in Range(s) : g[m] = f[m] /\ g[m] <= g[n])
             => Ascending(Append(s, n), g)
PROOF
  <1> DEFINE k == Append(s, n)
  <1>1. /\ k \in Seq(S) /\ Len(k) = Len(s) + 1 /\ Len(s) \in Nat
        /\ \A i \in 1 .. Len(s) : k[i] = s[i]
        /\ k[Len(s) + 1] = n
    BY AppendProperties, LenProperties
  <1>2. DOMAIN s = 1 .. Len(s) /\ DOMAIN k = 1 .. Len(s) + 1
    BY <1>1, LenProperties
  <1>3. \A i \in 1 .. Len(s) : s[i] \in Range(s)
    BY RangeOf
  <1> HIDE DEF k
  <1>4. ASSUME NEW f, NEW g, Ascending(s, f), NEW i \in DOMAIN k,
               NEW j \in DOMAIN k,
               i < j, \A m \in Range(s) : g[m] = f[m] /\ g[m] <= g[n]
        PROVE  g[k[i]] <= g[k[j]]
    <2>1. i \in 1 .. Len(s) /\ k[i] = s[i]
      BY <1>1, <1>2, <1>4
    <2>2. CASE j \in 1 .. Len(s)
      BY <1>1, <1>2, <1>3, <1>4, <2>1, <2>2 DEF Ascending
    <2>3. CASE j = Len(s) + 1
      BY <1>1, <1>3, <1>4, <2>1, <2>3
    <2> QED
      BY <1>1, <1>2, <1>4, <2>2, <2>3
  <1>5. \A f,
        g : Ascending(s, f) /\ (\A m \in Range(s) : g[m] = f[m] /\ g[m] <= g[n])
                  => Ascending(k, g)
    BY <1>4 DEF Ascending
  <1> QED
    BY <1>5 DEF k
=============================================================================
