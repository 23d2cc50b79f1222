-------------------------------- MODULE Sums --------------------------------
(***************************************************************************)
(* What the proofs need of sums of integers over finite sets, for          *)
(* SumFunctionOnSet of FiniteSetsExt: each element counts once.  It takes  *)
(* its definition apart: a chosen function that gives every subset its     *)
(* sum.  The inductions are over the subsets of a finite set and concern   *)
(* membership of a set, so no lemma takes an operator.                     *)
(***************************************************************************)
EXTENDS Integers, FiniteSetsExt, FiniteSetTheorems, WellFoundedInduction, TLAPS

\* The element a sum takes first, and what it adds up then.
First(T) == CHOOSE x \in T : TRUE
Rest(T) == T \ {First(T)}

\* The function it gives every subset of S the sum of f over it.
IsSum(it, f, S) ==
    it = [T \in SUBSET S |-> IF T = {} THEN 0 ELSE f[First(T)] + it[Rest(T)]]

\* The rest of a set is smaller than the set.
LEMMA FirstRest ==
    ASSUME NEW T, T # {}
    PROVE  First(T) \in T /\ Rest(T) \in SUBSET T /\ Rest(T) # T
BY DEF First, Rest

\* Among the subsets of a finite set one is minimal.
LEMMA Minimal ==
    ASSUME NEW S, IsFiniteSet(S), NEW B \in SUBSET SUBSET S, B # {}
    PROVE  \E T \in B : \A U \in SUBSET T : U # T => U \notin B
<1>1. FiniteSubsetsOf(S) = SUBSET S
    BY FS_FiniteSubsetsOfFinite
<1>2. IsWellFoundedOn(StrictSubsetOrdering(S), FiniteSubsetsOf(S))
    BY FS_StrictSubsetOrderingWellFounded
<1>3. IsWellFoundedOn(StrictSubsetOrdering(S), SUBSET S)
    BY <1>1, <1>2
<1>4. \E T \in B : \A U \in B : ~ (<<U, T>> \in StrictSubsetOrdering(S))
    BY <1>3, WFMin
<1> QED BY <1>4 DEF StrictSubsetOrdering

\* What holds of a subset whenever it holds of all smaller ones holds of all:
\* G is the set of those it holds of.
LEMMA SetInduction ==
    ASSUME NEW S, IsFiniteSet(S), NEW G,
           \A T \in SUBSET S : (\A U \in SUBSET T : U # T => U \in G) => T \in G
    PROVE  \A T \in SUBSET S : T \in G
<1>1. PICK B : B = (SUBSET S) \ G
    OBVIOUS
<1>2. SUFFICES ASSUME B # {} PROVE FALSE
    BY <1>1
<1>3. B \in SUBSET SUBSET S
    BY <1>1
<1>4. PICK T \in B : \A U \in SUBSET T : U # T => U \notin B
    BY <1>2, <1>3, Minimal
<1> QED BY <1>1, <1>4

\* The library's sum over S, by its own summing function.
LEMMA SumDef ==
    ASSUME NEW S, NEW f
    PROVE  SumFunctionOnSet(f, S) = (CHOOSE it : IsSum(it, f, S))[S]
BY DEF SumFunctionOnSet, FoldFunctionOnSet, MapThenFoldSet, IsSum, First, Rest

\* One step of the recursion of a summing function.
LEMMA SumStep ==
    ASSUME NEW S, NEW f, NEW it, IsSum(it, f, S), NEW T \in SUBSET S
    PROVE  it[T] = IF T = {} THEN 0 ELSE f[First(T)] + it[Rest(T)]
BY DEF IsSum

\* The part of a summing function that lies in a smaller set is the one of
\* that set.
LEMMA SumRestricts ==
    ASSUME NEW S, NEW T \in SUBSET S, NEW f, NEW it, IsSum(it, f, S)
    PROVE  IsSum([U \in SUBSET T |-> it[U]], f, T)
<1> DEFINE jt == [U \in SUBSET T |-> it[U]]
<1>1. ASSUME NEW U \in SUBSET T
      PROVE  jt[U] = IF U = {} THEN 0 ELSE f[First(U)] + jt[Rest(U)]
  <2>1. U \in SUBSET S /\ Rest(U) \in SUBSET T
      BY DEF Rest
  <2> QED BY <2>1, SumStep
<1> QED BY <1>1 DEF IsSum

\* Two functions that sum f over S agree.
LEMMA SumUnique ==
    ASSUME NEW S, IsFiniteSet(S), NEW f, NEW it, NEW jt,
           IsSum(it, f, S), IsSum(jt, f, S)
    PROVE  \A T \in SUBSET S : it[T] = jt[T]
<1>1. PICK G : G = {T \in SUBSET S : it[T] = jt[T]}
    OBVIOUS
<1>2. ASSUME NEW T \in SUBSET S, \A U \in SUBSET T : U # T => U \in G
      PROVE  T \in G
  <2>1. T # {} => it[Rest(T)] = jt[Rest(T)]
      BY <1>1, <1>2, FirstRest
  <2> QED BY <1>1, <2>1, SumStep
<1>3. \A T \in SUBSET S : T \in G
    BY <1>2, SetInduction
<1> QED BY <1>1, <1>3

\* A function that sums exists.
LEMMA SumExists ==
    ASSUME NEW S, IsFiniteSet(S), NEW f
    PROVE  \E it : IsSum(it, f, S)
<1>1. PICK G : G = {T \in SUBSET S : \E it : IsSum(it, f, T)}
    OBVIOUS
<1>2. ASSUME NEW T \in SUBSET S, \A U \in SUBSET T : U # T => U \in G
      PROVE  T \in G
  <2> DEFINE val(U) == (CHOOSE it : IsSum(it, f, U))[U]
  <2>0. PICK it : it = [U \in SUBSET T |-> IF U = {} THEN 0
                                         ELSE f[First(U)] + val(Rest(U))]
      OBVIOUS
  <2>1. ASSUME NEW U \in SUBSET T, U # {}, U # T
        PROVE  val(U) = f[First(U)] + val(Rest(U))
    <3>1. PICK iu : iu = CHOOSE i : IsSum(i, f, U)
        OBVIOUS
    <3>2. PICK ir : ir = CHOOSE i : IsSum(i, f, Rest(U))
        OBVIOUS
    <3>3. U \in G /\ Rest(U) \in G
        BY <1>2, <2>1, FirstRest
    <3>4. IsSum(iu, f, U) /\ IsSum(ir, f, Rest(U))
        BY <1>1, <3>1, <3>2, <3>3
    <3>r. Rest(U) \in SUBSET U
        BY <2>1, FirstRest
    <3>5. IsSum([V \in SUBSET Rest(U) |-> iu[V]], f, Rest(U))
        BY <3>r, <3>4, SumRestricts
    <3>6. IsFiniteSet(Rest(U))
        BY FS_Subset DEF Rest
    <3>7. ir[Rest(U)] = iu[Rest(U)]
        BY <3>4, <3>5, <3>6, SumUnique
    <3>8. iu[U] = f[First(U)] + iu[Rest(U)]
        BY <2>1, <3>4, SumStep
    <3> QED BY <3>1, <3>2, <3>7, <3>8
  <2>2. val({}) = 0
    <3>1. PICK e : e = [U \in SUBSET {} |-> 0]
        OBVIOUS
    <3>2. IsSum(e, f, {})
        BY <3>1 DEF IsSum
    <3>3. PICK i : i = CHOOSE j : IsSum(j, f, {})
        OBVIOUS
    <3>4. IsSum(i, f, {})
        BY <3>2, <3>3
    <3> QED BY <3>3, <3>4, SumStep
  <2>3. ASSUME NEW U \in SUBSET T, U # T
        PROVE  it[U] = val(U)
      BY <2>0, <2>1, <2>2, <2>3
  <2>4. ASSUME NEW U \in SUBSET T
        PROVE  it[U] = IF U = {} THEN 0 ELSE f[First(U)] + it[Rest(U)]
    <3>1. U # {} => Rest(U) \in SUBSET T /\ Rest(U) # T
        BY <2>4, FirstRest
    <3> HIDE DEF val
    <3> QED BY <2>0, <2>3, <3>1
  <2>5. IsSum(it, f, T)
      BY <2>0, <2>4 DEF IsSum
  <2> QED BY <1>1, <2>5
<1>3. \A T \in SUBSET S : T \in G
    BY <1>2, SetInduction
<1> QED BY <1>1, <1>3

\* So the sum over a set is given by any function that sums over a larger one.
LEMMA SumIs ==
    ASSUME NEW S, IsFiniteSet(S), NEW f, NEW it, IsSum(it, f, S)
    PROVE  \A T \in SUBSET S : SumFunctionOnSet(f, T) = it[T]
<1> SUFFICES ASSUME NEW T \in SUBSET S PROVE SumFunctionOnSet(f, T) = it[T]
    OBVIOUS
<1>1. IsFiniteSet(T)
    BY FS_Subset
<1>2. PICK jt : jt = CHOOSE j : IsSum(j, f, T)
    OBVIOUS
<1>3. IsSum(jt, f, T)
    BY <1>1, <1>2, SumExists
<1>4. PICK kt : kt = [U \in SUBSET T |-> it[U]]
    OBVIOUS
<1>5. IsSum(kt, f, T)
    BY <1>4, SumRestricts
<1>6. jt[T] = kt[T]
    BY <1>1, <1>3, <1>5, SumUnique
<1> QED BY <1>2, <1>4, <1>6, SumDef

\* Sums of integers are integers, and a new element adds its own value.
LEMMA SumAdds ==
    ASSUME NEW S, IsFiniteSet(S), NEW f \in [S -> Int]
    PROVE  \A T \in SUBSET S :
              /\ SumFunctionOnSet(f, T) \in Int
              /\ \A x \in S \ T : SumFunctionOnSet(f, T \cup {x})
                                     = SumFunctionOnSet(f, T) + f[x]
<1>1. PICK it : IsSum(it, f, S)
    BY SumExists
<1>2. PICK G : G = {T \in SUBSET S : /\ it[T] \in Int
                                     /\ \A x \in S \ T : it[T \cup {x}] = it[T] + f[x]}
    OBVIOUS
<1>3. ASSUME NEW T \in SUBSET S, \A U \in SUBSET T : U # T => U \in G
      PROVE  T \in G
  <2>1. it[T] \in Int
    <3>1. CASE T = {}
        <4>1. it[T] = 0
            BY <1>1, <3>1, SumStep
        <4> QED BY <4>1
    <3>2. CASE T # {}
        <4>1. First(T) \in S /\ Rest(T) \in G
            BY <1>3, <3>2, FirstRest
        <4>2. f[First(T)] \in Int /\ it[Rest(T)] \in Int
            BY <1>2, <4>1
        <4> QED BY <1>1, <3>2, <4>2, SumStep
    <3> QED BY <3>1, <3>2
  <2>2. ASSUME NEW x \in S \ T
        PROVE  it[T \cup {x}] = it[T] + f[x]
    <3>1. PICK V : V = T \cup {x}
        OBVIOUS
    <3>2. V \in SUBSET S /\ V # {} /\ First(V) \in V
        BY <3>1, FirstRest
    <3>3. it[V] = f[First(V)] + it[Rest(V)]
        BY <1>1, <3>2, SumStep
    <3>4. CASE First(V) = x
      <4>1. Rest(V) = T
          BY <3>1, <3>4 DEF Rest
      <4> QED BY <2>1, <3>1, <3>3, <3>4, <4>1
    <3>5. CASE First(V) # x
      <4>1. PICK c : c = First(V)
          OBVIOUS
      <4>2. PICK U : U = T \ {c}
          OBVIOUS
      <4>3. c \in T /\ U \in SUBSET T /\ U # T
          BY <3>1, <3>2, <3>5, <4>1, <4>2
      <4>4. U \in G /\ c \in S \ U /\ x \in S \ U
          BY <1>3, <4>2, <4>3
      <4>5. /\ it[U] \in Int
            /\ it[U \cup {c}] = it[U] + f[c]
            /\ it[U \cup {x}] = it[U] + f[x]
          BY <1>2, <4>4
      <4>6. U \cup {c} = T /\ Rest(V) = U \cup {x}
          BY <3>1, <3>5, <4>1, <4>2, <4>3 DEF Rest
      <4>7. f[c] \in Int /\ f[x] \in Int
          BY <4>3
      <4>8. it[T] = it[U] + f[c] /\ it[Rest(V)] = it[U] + f[x]
          BY <4>5, <4>6
      <4>9. it[V] = it[T] + f[x]
          BY <3>3, <4>1, <4>5, <4>7, <4>8
      <4> QED BY <3>1, <4>9
    <3> QED BY <3>4, <3>5
  <2> QED BY <1>2, <2>1, <2>2
<1>4. \A T \in SUBSET S : T \in G
    BY <1>3, SetInduction
<1>5. \A T \in SUBSET S : SumFunctionOnSet(f, T) = it[T]
    BY <1>1, SumIs
<1>6. ASSUME NEW T \in SUBSET S
      PROVE  /\ SumFunctionOnSet(f, T) \in Int
             /\ \A x \in S \ T : SumFunctionOnSet(f, T \cup {x})
                                  = SumFunctionOnSet(f, T) + f[x]
  <2>1. /\ it[T] \in Int
        /\ \A x \in S \ T : it[T \cup {x}] = it[T] + f[x]
      BY <1>2, <1>4
  <2>2. SumFunctionOnSet(f, T) = it[T]
      BY <1>5
  <2>3. \A x \in S \ T : SumFunctionOnSet(f, T \cup {x}) = it[T \cup {x}]
      BY <1>5
  <2> QED BY <2>1, <2>2, <2>3
<1> QED BY <1>6

\* Nothing adds up to 0.
LEMMA SumEmpty ==
    ASSUME NEW f
    PROVE  SumFunctionOnSet(f, {}) = 0
<1>1. IsFiniteSet({})
    BY FS_EmptySet
<1>2. PICK it : IsSum(it, f, {})
    BY <1>1, SumExists
<1> QED BY <1>1, <1>2, SumIs, SumStep

\* Functions that agree on a set have one sum over it.
LEMMA SumAgrees ==
    ASSUME NEW S, IsFiniteSet(S), NEW f, NEW g, \A x \in S : f[x] = g[x]
    PROVE  SumFunctionOnSet(f, S) = SumFunctionOnSet(g, S)
<1>1. PICK it : IsSum(it, f, S)
    BY SumExists
<1>2. ASSUME NEW T \in SUBSET S
      PROVE  it[T] = IF T = {} THEN 0 ELSE g[First(T)] + it[Rest(T)]
  <2>1. T # {} => f[First(T)] = g[First(T)]
      BY FirstRest
  <2> QED BY <1>1, <2>1, SumStep
<1>3. it = [T \in SUBSET S |-> it[T]]
    BY <1>1 DEF IsSum
<1>4. IsSum(it, g, S)
    BY <1>2, <1>3 DEF IsSum
<1> QED BY <1>1, <1>4, SumIs

\* A sum changes with one of its terms.
LEMMA SumChanges ==
    ASSUME NEW S, IsFiniteSet(S), NEW f \in [S -> Int], NEW g \in [S -> Int],
           NEW x \in S, \A y \in S \ {x} : f[y] = g[y]
    PROVE  SumFunctionOnSet(g, S) = SumFunctionOnSet(f, S) - f[x] + g[x]
<1>1. PICK T : T = S \ {x}
    OBVIOUS
<1>2. T \in SUBSET S /\ x \in S \ T /\ T \cup {x} = S /\ IsFiniteSet(T)
    BY <1>1, FS_RemoveElement
<1>3. SumFunctionOnSet(f, T) = SumFunctionOnSet(g, T)
    BY <1>1, <1>2, SumAgrees
<1>4. /\ SumFunctionOnSet(f, T) \in Int
      /\ SumFunctionOnSet(f, S) = SumFunctionOnSet(f, T) + f[x]
    BY <1>2, SumAdds
<1>5. SumFunctionOnSet(g, S) = SumFunctionOnSet(g, T) + g[x]
    BY <1>2, SumAdds
<1>6. f[x] \in Int /\ g[x] \in Int
    OBVIOUS
<1> QED BY <1>3, <1>4, <1>5, <1>6

\* Zeros add up to 0.
LEMMA SumZero ==
    ASSUME NEW S, IsFiniteSet(S), NEW f, \A x \in S : f[x] = 0
    PROVE  SumFunctionOnSet(f, S) = 0
<1>1. PICK it : IsSum(it, f, S)
    BY SumExists
<1>2. PICK G : G = {T \in SUBSET S : it[T] = 0}
    OBVIOUS
<1>3. ASSUME NEW T \in SUBSET S, \A U \in SUBSET T : U # T => U \in G
      PROVE  T \in G
  <2>1. T # {} => f[First(T)] = 0 /\ it[Rest(T)] = 0
      BY <1>2, <1>3, FirstRest
  <2> QED BY <1>1, <1>2, <2>1, SumStep
<1>4. S \in G
    BY <1>3, SetInduction
<1> QED BY <1>1, <1>2, <1>4, SumIs

\* Natural numbers add up to one.
LEMMA SumNat ==
    ASSUME NEW S, IsFiniteSet(S), NEW f \in [S -> Nat]
    PROVE  \A T \in SUBSET S : SumFunctionOnSet(f, T) \in Nat
<1>1. f \in [S -> Int]
    OBVIOUS
<1>2. PICK G : G = {T \in SUBSET S : SumFunctionOnSet(f, T) \in Nat}
    OBVIOUS
<1>3. ASSUME NEW T \in SUBSET S, \A U \in SUBSET T : U # T => U \in G
      PROVE  T \in G
  <2>1. CASE T = {}
    <3>1. SumFunctionOnSet(f, {}) = 0
        BY SumEmpty
    <3> QED BY <1>2, <2>1, <3>1
  <2>2. CASE T # {}
    <3>1. PICK x \in T : TRUE
        BY <2>2
    <3>2. PICK U : U = T \ {x}
        OBVIOUS
    <3>3. U \in SUBSET S /\ x \in S \ U /\ U \in G
        BY <1>3, <3>1, <3>2
    <3>4. T = U \cup {x}
        BY <3>1, <3>2
    <3>5. SumFunctionOnSet(f, U \cup {x}) = SumFunctionOnSet(f, U) + f[x]
        BY <1>1, <3>3, SumAdds
    <3>6. PICK a : a = SumFunctionOnSet(f, U)
        OBVIOUS
    <3>7. PICK b : b = f[x]
        OBVIOUS
    <3>8. PICK c : c = SumFunctionOnSet(f, T)
        OBVIOUS
    <3>9. c = a + b
        BY <3>4, <3>5, <3>6, <3>7, <3>8
    <3>10. a \in Nat
        BY <1>2, <3>3, <3>6
    <3>11. b \in Nat
        BY <3>3, <3>7
    <3>12. c \in Nat
        BY ONLY <3>9, <3>10, <3>11
    <3>13. SumFunctionOnSet(f, T) \in Nat
        BY <3>8, <3>12, Zenon
    <3> QED BY <1>2, <3>13
  <2> QED BY <2>1, <2>2
<1>4. \A T \in SUBSET S : T \in G
    BY <1>3, SetInduction
<1> QED BY <1>2, <1>4

=============================================================================
