--------------------------- MODULE FefoStockProofs ---------------------------
(***************************************************************************)
(* Proofs about FefoStock: its types, its documents, the quantity on hand, *)
(* its deadlocks, and the balance of stock and documents.                  *)
(***************************************************************************)
EXTENDS FefoStock, FiniteSetTheorems, TLAPS

(***************************************************************************)
(* What the sums of the model are: a sum over a finite set does not depend *)
(* on the order its elements are taken in, so that it can be split,        *)
(* extended and compared.  SumFunctionOnSet of the community modules is a  *)
(* fold, a function defined by recursion on the subsets of its set; its    *)
(* existence and each fact about it follow by looking at a least set for   *)
(* which it would be false.                                                *)
(***************************************************************************)
(* A set of numbers has a least one. *)
LEMMA LeastNumber == ASSUME NEW N \in SUBSET Nat, N # {} PROVE \E a \in N : \A b \in N : a <= b
<1> DEFINE R == OpToRel(<, Nat)
<1>1. IsWellFoundedOn(R, Nat)
  BY NatLessThanWellFounded
<1>2. \A a, b \in Nat : b < a => <<b, a>> \in R
  BY DEF OpToRel
<1> HIDE DEF R
<1>3. PICK a \in N : \A b \in N : <<b, a>> \notin R
  BY <1>1, WFMin
<1>4. \A b \in N : ~(b < a)
  BY <1>2, <1>3
<1> QED BY <1>3, <1>4

(* If a set of subsets of S holds each one all of whose proper subsets it holds, it *)
(* holds S. *)
LEMMA SubsetInduction ==
  ASSUME NEW S, IsFiniteSet(S), NEW Good,
         \A T \in SUBSET S : (\A U \in SUBSET T : U # T => U \in Good) => T \in Good
  PROVE  \A T \in SUBSET S : T \in Good
<1> DEFINE Bad == {T \in SUBSET S : T \notin Good}
           Sizes == {Cardinality(T) : T \in Bad}
<1>1. SUFFICES ASSUME Bad # {} PROVE FALSE
  OBVIOUS
<1>2. \A T \in SUBSET S : IsFiniteSet(T) /\ Cardinality(T) \in Nat
  BY FS_Subset, FS_CardinalityType
<1>3. Sizes \in SUBSET Nat /\ Sizes # {}
  BY <1>1, <1>2
<1>4. PICK n \in Sizes : \A m \in Sizes : n <= m
  BY <1>3, LeastNumber
<1>5. PICK T \in Bad : n = Cardinality(T)
  BY <1>4
<1>6. ASSUME NEW U \in SUBSET T, U # T PROVE U \in Good
  <2>1. U \in SUBSET S
    BY <1>5
  <2>2. Cardinality(U) <= Cardinality(T) /\ Cardinality(U) # Cardinality(T)
    BY <1>2, <1>6, FS_Subset
  <2>3. U \in Bad => Cardinality(T) <= Cardinality(U)
    BY <1>4, <1>5
  <2>4. Cardinality(U) \in Nat /\ Cardinality(T) \in Nat
    BY <1>2, <2>1
  <2> QED BY <2>1, <2>2, <2>3, <2>4
<1> QED BY <1>5, <1>6

(* A finite set of numbers has a greatest one. *)
LEMMA GreatestNumber ==
  ASSUME NEW N \in SUBSET Nat, IsFiniteSet(N), N # {}
  PROVE  \E a \in N : \A b \in N : b <= a
<1> DEFINE Good == {T \in SUBSET N : T = {} \/ \E a \in T : \A b \in T : b <= a}
<1>1. ASSUME NEW T \in SUBSET N, \A U \in SUBSET T : U # T => U \in Good, T # {}
      PROVE  \E a \in T : \A b \in T : b <= a
  <2>1. PICK c : c \in T
    BY <1>1
  <2>2. T \ {c} \in Good
    BY <1>1, <2>1
  <2>3. CASE T \ {c} = {}
    BY <2>1, <2>3
  <2>4. CASE T \ {c} # {}
    <3>1. PICK a \in T \ {c} : \A b \in T \ {c} : b <= a
      BY <2>2, <2>4
    <3>2. CASE c <= a
      BY <3>1, <3>2
    <3>3. CASE ~(c <= a)
      BY <2>1, <3>1, <3>3
    <3> QED BY <3>2, <3>3
  <2> QED BY <2>3, <2>4
<1>2. \A T \in SUBSET N : (\A U \in SUBSET T : U # T => U \in Good) => T \in Good
  BY <1>1
<1> HIDE DEF Good
<1>3. N \in Good
  BY <1>2, SubsetInduction
<1> QED BY <1>3 DEF Good

(***************************************************************************)
(* The fold.                                                               *)
(***************************************************************************)
Chosen(s) == CHOOSE x \in s : TRUE
Others(s) == s \ {Chosen(s)}

IsSum(g, f, S) == g = [s \in SUBSET S |-> IF s = {} THEN 0 ELSE f[Chosen(s)] + g[Others(s)]]

LEMMA RestIsSmaller ==
  ASSUME NEW s, s # {}
  PROVE  Chosen(s) \in s /\ Others(s) \in SUBSET s /\ Others(s) # s
BY DEF Chosen, Others

LEMMA IsSumStep ==
  ASSUME NEW S, NEW f, NEW g, IsSum(g, f, S), NEW s \in SUBSET S
  PROVE  g[s] = IF s = {} THEN 0 ELSE f[Chosen(s)] + g[Others(s)]
<1>1. g = [u \in SUBSET S |-> IF u = {} THEN 0 ELSE f[Chosen(u)] + g[Others(u)]]
  BY DEF IsSum
<1> QED BY <1>1

Agree(f, e, U) == \A x \in U : f[x] = e[x]

(* Where two folds of the same values are both defined, they agree. *)
LEMMA SumUnique ==
  ASSUME NEW S, NEW T, NEW U, U \subseteq S, U \subseteq T, IsFiniteSet(U),
         NEW f, NEW e, Agree(f, e, U),
         NEW g, IsSum(g, f, S), NEW h, IsSum(h, e, T)
  PROVE  g[U] = h[U]
<1> DEFINE Good == {V \in SUBSET U : g[V] = h[V]}
<1>1. ASSUME NEW V \in SUBSET U, \A W \in SUBSET V : W # V => W \in Good
      PROVE  V \in Good
  <2>1. CASE V = {}
    BY <2>1, IsSumStep
  <2>2. CASE V # {}
    <3>1. Chosen(V) \in V /\ Others(V) \in SUBSET V /\ Others(V) # V
      BY <2>2, RestIsSmaller
    <3>2. g[Others(V)] = h[Others(V)]
      BY <1>1, <3>1
    <3>3. V \in SUBSET S /\ V \in SUBSET T
      OBVIOUS
    <3>4. g[V] = f[Chosen(V)] + g[Others(V)] /\ h[V] = e[Chosen(V)] + h[Others(V)]
      BY <2>2, <3>3, IsSumStep
    <3> QED BY <3>1, <3>2, <3>4 DEF Agree
  <2> QED BY <2>1, <2>2
<1>2. \A V \in SUBSET U : (\A W \in SUBSET V : W # V => W \in Good) => V \in Good
  BY <1>1
<1> HIDE DEF Good
<1>3. U \in Good
  BY <1>2, SubsetInduction
<1> QED BY <1>3 DEF Good

LEMMA SumExists ==
  ASSUME NEW S, IsFiniteSet(S), NEW f
  PROVE  \E g : IsSum(g, f, S)
<1> DEFINE Good == {T \in SUBSET S : \E g : IsSum(g, f, T)}
<1>1. ASSUME NEW T \in SUBSET S, \A U \in SUBSET T : U # T => U \in Good
      PROVE  T \in Good
  <2> DEFINE h == [U \in SUBSET T |-> CHOOSE g : IsSum(g, f, U)]
             g == [s \in SUBSET T |-> IF s = {} THEN 0
                                      ELSE f[Chosen(s)] + h[Others(s)][Others(s)]]
  <2>1. \A U \in SUBSET T : U # T => IsSum(h[U], f, U)
    BY <1>1
  <2> HIDE DEF h
  <2>2. ASSUME NEW s \in SUBSET T, s # {} PROVE g[Others(s)] = h[Others(s)][Others(s)]
    <3> DEFINE u == Others(s)
               v == Others(u)
    <3>1. u \in SUBSET T /\ u # T /\ IsFiniteSet(u)
      BY <2>2, RestIsSmaller, FS_Subset
    <3>2. IsSum(h[u], f, u) /\ u \in SUBSET u
      BY <2>1, <3>1
    <3>3. h[u][u] = IF u = {} THEN 0 ELSE f[Chosen(u)] + h[u][v]
      BY <3>2, IsSumStep
    <3>4. CASE u = {}
      BY <3>1, <3>3, <3>4
    <3>5. CASE u # {}
      <4>1. v \in SUBSET u /\ v # T
        BY <3>1, <3>5, RestIsSmaller
      <4>2. IsSum(h[v], f, v)
        BY <2>1, <3>1, <4>1
      <4>3. h[u][v] = h[v][v]
        <5>1. IsFiniteSet(v) /\ v \subseteq u /\ v \subseteq v /\ Agree(f, f, v)
          BY <3>1, <4>1, FS_Subset DEF Agree
        <5> QED BY <3>2, <4>2, <5>1, SumUnique
      <4>4. g[u] = f[Chosen(u)] + h[v][v]
        BY <3>1, <3>5
      <4> QED BY <3>3, <3>5, <4>3, <4>4
    <3> QED BY <3>4, <3>5
  <2>3. g = [s \in SUBSET T |-> IF s = {} THEN 0 ELSE f[Chosen(s)] + g[Others(s)]]
    BY <2>2
  <2> HIDE DEF g
  <2> QED BY <2>3 DEF IsSum
<1> HIDE DEF Good
<1>2. S \in Good
  BY <1>1, SubsetInduction
<1> QED BY <1>2 DEF Good

(* The fold of the community modules is such a function. *)
LEMMA SumIsFold ==
  ASSUME NEW S, IsFiniteSet(S), NEW f
  PROVE  \E g : IsSum(g, f, S) /\ SumFunctionOnSet(f, S) = g[S]
<1> DEFINE it == CHOOSE g : IsSum(g, f, S)
<1>1. IsSum(it, f, S)
  BY SumExists
<1>2. SumFunctionOnSet(f, S) = it[S]
  BY DEF SumFunctionOnSet, FoldFunctionOnSet, MapThenFoldSet, IsSum, Chosen, Others
<1> QED BY <1>1, <1>2

LEMMA SumIsAny ==
  ASSUME NEW S, IsFiniteSet(S), NEW f, NEW h, IsSum(h, f, S)
  PROVE  SumFunctionOnSet(f, S) = h[S]
<1>1. PICK g : IsSum(g, f, S) /\ SumFunctionOnSet(f, S) = g[S]
  BY SumIsFold
<1>2. S \subseteq S /\ Agree(f, f, S)
  BY DEF Agree
<1>3. g[S] = h[S]
  BY <1>1, <1>2, SumUnique
<1> QED BY <1>1, <1>3

(***************************************************************************)
(* Facts about sums.                                                       *)
(***************************************************************************)
LEMMA SumOfNone == ASSUME NEW f PROVE SumFunctionOnSet(f, {}) = 0
<1>1. IsFiniteSet({})
  BY FS_EmptySet
<1>2. PICK g : IsSum(g, f, {}) /\ SumFunctionOnSet(f, {}) = g[{}]
  BY <1>1, SumIsFold
<1> QED BY <1>2, IsSumStep

LEMMA SumSame ==
  ASSUME NEW S, IsFiniteSet(S), NEW f, NEW e, \A x \in S : f[x] = e[x]
  PROVE  SumFunctionOnSet(f, S) = SumFunctionOnSet(e, S)
<1>1. PICK g : IsSum(g, f, S) /\ SumFunctionOnSet(f, S) = g[S]
  BY SumIsFold
<1>2. PICK h : IsSum(h, e, S) /\ SumFunctionOnSet(e, S) = h[S]
  BY SumIsFold
<1>3. S \subseteq S /\ Agree(f, e, S)
  BY DEF Agree
<1>4. g[S] = h[S]
  BY <1>1, <1>2, <1>3, SumUnique
<1> QED BY <1>1, <1>2, <1>4

LEMMA SumStep ==
  ASSUME NEW S, IsFiniteSet(S), S # {}, NEW f
  PROVE  SumFunctionOnSet(f, S) = f[Chosen(S)] + SumFunctionOnSet(f, Others(S))
<1>1. Others(S) \in SUBSET S /\ IsFiniteSet(Others(S))
  BY RestIsSmaller, FS_Subset
<1>2. PICK g : IsSum(g, f, S) /\ SumFunctionOnSet(f, S) = g[S]
  BY SumIsFold
<1>3. PICK h : IsSum(h, f, Others(S)) /\ SumFunctionOnSet(f, Others(S)) = h[Others(S)]
  BY <1>1, SumIsFold
<1>4. Agree(f, f, Others(S)) /\ Others(S) \subseteq S /\ Others(S) \subseteq Others(S)
  BY <1>1 DEF Agree
<1>5. g[Others(S)] = h[Others(S)]
  BY <1>1, <1>2, <1>3, <1>4, SumUnique
<1>6. g[S] = f[Chosen(S)] + g[Others(S)]
  BY <1>2, IsSumStep
<1> QED BY <1>2, <1>3, <1>5, <1>6

LEMMA SumZero ==
  ASSUME NEW S, IsFiniteSet(S), NEW f, \A x \in S : f[x] = 0
  PROVE  SumFunctionOnSet(f, S) = 0
<1> DEFINE Good == {U \in SUBSET S : SumFunctionOnSet(f, U) = 0}
<1>1. ASSUME NEW U \in SUBSET S, \A V \in SUBSET U : V # U => V \in Good
      PROVE  U \in Good
  <2>1. CASE U = {}
    BY <2>1, SumOfNone
  <2>2. CASE U # {}
    <3>1. IsFiniteSet(U) /\ Chosen(U) \in U /\ Others(U) \in Good
      BY <1>1, <2>2, RestIsSmaller, FS_Subset
    <3>2. SumFunctionOnSet(f, U) = f[Chosen(U)] + SumFunctionOnSet(f, Others(U))
      BY <2>2, <3>1, SumStep
    <3> QED BY <3>1, <3>2
  <2> QED BY <2>1, <2>2
<1>2. \A U \in SUBSET S : (\A V \in SUBSET U : V # U => V \in Good) => U \in Good
  BY <1>1
<1> HIDE DEF Good
<1>3. S \in Good
  BY <1>2, SubsetInduction
<1> QED BY <1>3 DEF Good

LEMMA SumType ==
  ASSUME NEW S, IsFiniteSet(S), NEW f, \A x \in S : f[x] \in Int
  PROVE  SumFunctionOnSet(f, S) \in Int
<1> DEFINE Good == {T \in SUBSET S : SumFunctionOnSet(f, T) \in Int}
<1>1. ASSUME NEW T \in SUBSET S, \A U \in SUBSET T : U # T => U \in Good
      PROVE  T \in Good
  <2>1. CASE T = {}
    BY <2>1, SumOfNone
  <2>2. CASE T # {}
    <3>1. Chosen(T) \in T /\ Others(T) \in Good
      BY <1>1, <2>2, RestIsSmaller
    <3>2. SumFunctionOnSet(f, T) = f[Chosen(T)] + SumFunctionOnSet(f, Others(T))
      BY <2>2, FS_Subset, SumStep
    <3> QED BY <3>1, <3>2
  <2> QED BY <2>1, <2>2
<1>2. \A T \in SUBSET S : (\A U \in SUBSET T : U # T => U \in Good) => T \in Good
  BY <1>1
<1> HIDE DEF Good
<1>3. S \in Good
  BY <1>2, SubsetInduction
<1> QED BY <1>3 DEF Good

(* The elements of a sum may be taken in any order. *)
LEMMA SumPick ==
  ASSUME NEW S, IsFiniteSet(S), NEW f, \A x \in S : f[x] \in Int, NEW y \in S
  PROVE  SumFunctionOnSet(f, S) = f[y] + SumFunctionOnSet(f, S \ {y})
<1> DEFINE Tot(T) == SumFunctionOnSet(f, T)
           Good == {T \in SUBSET S : \A x \in T : Tot(T) = f[x] + Tot(T \ {x})}
<1>0. \A T \in SUBSET S : IsFiniteSet(T) /\ Tot(T) \in Int
  BY FS_Subset, SumType
<1>1. ASSUME NEW T \in SUBSET S, \A U \in SUBSET T : U # T => U \in Good, NEW x \in T
      PROVE  Tot(T) = f[x] + Tot(T \ {x})
  <2> DEFINE c == Chosen(T)
  <2>1. c \in T /\ Others(T) = T \ {c}
    BY RestIsSmaller DEF Others
  <2>2. Tot(T) = f[c] + Tot(T \ {c})
    BY <1>0, <2>1, SumStep
  <2>3. CASE x = c
    BY <2>2, <2>3
  <2>4. CASE x # c
    <3>1. T \ {c} \in Good /\ T \ {x} \in Good /\ x \in T \ {c} /\ c \in T \ {x}
      BY <1>1, <2>1, <2>4
    <3>2. (T \ {c}) \ {x} = (T \ {x}) \ {c}
      OBVIOUS
    <3>3. /\ Tot(T \ {c}) = f[x] + Tot((T \ {c}) \ {x})
          /\ Tot(T \ {x}) = f[c] + Tot((T \ {c}) \ {x})
      BY <3>1, <3>2
    <3>4. f[x] \in Int /\ f[c] \in Int /\ Tot((T \ {c}) \ {x}) \in Int
      BY <1>0, <2>1
    <3> HIDE DEF Tot, c
    <3> QED BY ONLY <2>2, <3>3, <3>4
  <2> QED BY <2>3, <2>4
<1>2. \A T \in SUBSET S : (\A U \in SUBSET T : U # T => U \in Good) => T \in Good
  BY <1>1
<1> HIDE DEF Good
<1>3. S \in Good
  BY <1>2, SubsetInduction
<1> QED BY <1>3 DEF Good

(* A sum splits into that of a part and that of the rest. *)
LEMMA SumSplit ==
  ASSUME NEW S, IsFiniteSet(S), NEW f, \A x \in S : f[x] \in Int, NEW P \in SUBSET S
  PROVE  SumFunctionOnSet(f, S) = SumFunctionOnSet(f, P) + SumFunctionOnSet(f, S \ P)
<1> DEFINE Tot(T) == SumFunctionOnSet(f, T)
           Good == {T \in SUBSET S : Tot(S) = Tot(T) + Tot(S \ T)}
<1>0. \A T \in SUBSET S : IsFiniteSet(T) /\ Tot(T) \in Int
  BY FS_Subset, SumType
<1>1. ASSUME NEW T \in SUBSET S, \A U \in SUBSET T : U # T => U \in Good
      PROVE  T \in Good
  <2>1. CASE T = {}
    <3>1. Tot({}) = 0 /\ S \ {} = S
      BY SumOfNone
    <3> QED BY <1>0, <2>1, <3>1
  <2>2. CASE T # {}
    <3> DEFINE c == Chosen(T)
               U == T \ {c}
    <3>1. c \in T /\ U \in Good
      BY <1>1, <2>2, RestIsSmaller DEF Others
    <3>2. Tot(S) = Tot(U) + Tot(S \ U)
      BY <3>1
    <3>3. Tot(T) = f[c] + Tot(U)
      BY <1>0, <3>1, SumPick
    <3>4. c \in S \ U /\ (S \ U) \ {c} = S \ T
      BY <3>1
    <3>5. Tot(S \ U) = f[c] + Tot(S \ T)
      BY <1>0, <3>4, SumPick
    <3>6. /\ f[c] \in Int /\ Tot(U) \in Int /\ Tot(S \ U) \in Int
          /\ Tot(T) \in Int /\ Tot(S \ T) \in Int /\ Tot(S) \in Int
      BY <1>0, <3>1
    <3> HIDE DEF Tot, c, U
    <3> QED BY <3>2, <3>3, <3>5, <3>6
  <2> QED BY <2>1, <2>2
<1>2. \A T \in SUBSET S : (\A U \in SUBSET T : U # T => U \in Good) => T \in Good
  BY <1>1
<1> HIDE DEF Good
<1>3. P \in Good
  BY <1>2, SubsetInduction, SMTT(20)
<1> QED BY <1>3 DEF Good

(* Sums compare and add up element by element. *)
LEMMA SumOrder ==
  ASSUME NEW S, IsFiniteSet(S), NEW f, NEW e,
         \A x \in S : f[x] \in Int /\ e[x] \in Int /\ f[x] <= e[x]
  PROVE  SumFunctionOnSet(f, S) <= SumFunctionOnSet(e, S)
<1> DEFINE Good == {T \in SUBSET S : SumFunctionOnSet(f, T) <= SumFunctionOnSet(e, T)}
<1>1. ASSUME NEW T \in SUBSET S, \A U \in SUBSET T : U # T => U \in Good
      PROVE  T \in Good
  <2>1. CASE T = {}
    BY <2>1, SumOfNone
  <2>2. CASE T # {}
    <3>1. Chosen(T) \in T /\ Others(T) \in Good /\ Others(T) \in SUBSET S
      BY <1>1, <2>2, RestIsSmaller
    <3>2. IsFiniteSet(T) /\ IsFiniteSet(Others(T))
      BY <3>1, FS_Subset
    <3>3. /\ SumFunctionOnSet(f, T) = f[Chosen(T)] + SumFunctionOnSet(f, Others(T))
          /\ SumFunctionOnSet(e, T) = e[Chosen(T)] + SumFunctionOnSet(e, Others(T))
      BY <2>2, <3>2, SumStep
    <3>4. SumFunctionOnSet(f, Others(T)) \in Int /\ SumFunctionOnSet(e, Others(T)) \in Int
      BY <3>1, <3>2, SumType
    <3>5. /\ f[Chosen(T)] \in Int /\ e[Chosen(T)] \in Int /\ f[Chosen(T)] <= e[Chosen(T)]
          /\ SumFunctionOnSet(f, Others(T)) <= SumFunctionOnSet(e, Others(T))
      BY <3>1
    <3> QED BY <3>3, <3>4, <3>5
  <2> QED BY <2>1, <2>2
<1>2. \A T \in SUBSET S : (\A U \in SUBSET T : U # T => U \in Good) => T \in Good
  BY <1>1
<1> HIDE DEF Good
<1>3. S \in Good
  BY <1>2, SubsetInduction
<1> QED BY <1>3 DEF Good

LEMMA SumPlus ==
  ASSUME NEW S, IsFiniteSet(S), NEW f, NEW e, NEW h,
         \A x \in S : f[x] \in Int /\ e[x] \in Int /\ h[x] = f[x] + e[x]
  PROVE  SumFunctionOnSet(h, S) = SumFunctionOnSet(f, S) + SumFunctionOnSet(e, S)
<1> DEFINE Good == {T \in SUBSET S : SumFunctionOnSet(h, T)
                                     = SumFunctionOnSet(f, T) + SumFunctionOnSet(e, T)}
<1>1. ASSUME NEW T \in SUBSET S, \A U \in SUBSET T : U # T => U \in Good
      PROVE  T \in Good
  <2>1. CASE T = {}
    BY <2>1, SumOfNone
  <2>2. CASE T # {}
    <3>1. Chosen(T) \in T /\ Others(T) \in Good /\ Others(T) \in SUBSET S
      BY <1>1, <2>2, RestIsSmaller
    <3>2. IsFiniteSet(T) /\ IsFiniteSet(Others(T))
      BY <3>1, FS_Subset
    <3>3. /\ SumFunctionOnSet(f, T) = f[Chosen(T)] + SumFunctionOnSet(f, Others(T))
          /\ SumFunctionOnSet(e, T) = e[Chosen(T)] + SumFunctionOnSet(e, Others(T))
          /\ SumFunctionOnSet(h, T) = h[Chosen(T)] + SumFunctionOnSet(h, Others(T))
      BY <2>2, <3>2, SumStep
    <3>4. SumFunctionOnSet(f, Others(T)) \in Int /\ SumFunctionOnSet(e, Others(T)) \in Int
      BY <3>1, <3>2, SumType
    <3>5. /\ f[Chosen(T)] \in Int /\ e[Chosen(T)] \in Int
          /\ h[Chosen(T)] = f[Chosen(T)] + e[Chosen(T)]
          /\ SumFunctionOnSet(h, Others(T))
              = SumFunctionOnSet(f, Others(T)) + SumFunctionOnSet(e, Others(T))
      BY <3>1
    <3> QED BY <3>3, <3>4, <3>5
  <2> QED BY <2>1, <2>2
<1>2. \A T \in SUBSET S : (\A U \in SUBSET T : U # T => U \in Good) => T \in Good
  BY <1>1
<1> HIDE DEF Good
<1>3. S \in Good
  BY <1>2, SubsetInduction
<1> QED BY <1>3 DEF Good

(* A sum of natural numbers is one, and no less than any of them. *)
LEMMA SumNat ==
  ASSUME NEW S, IsFiniteSet(S), NEW f, \A x \in S : f[x] \in Nat
  PROVE  /\ SumFunctionOnSet(f, S) \in Nat
         /\ \A x \in S : f[x] <= SumFunctionOnSet(f, S)
<1>1. ASSUME NEW T \in SUBSET S PROVE SumFunctionOnSet(f, T) \in Nat
  <2> DEFINE z == [x \in T |-> 0]
  <2>1. IsFiniteSet(T)
    BY FS_Subset
  <2>2. \A x \in T : z[x] = 0 /\ z[x] \in Int /\ f[x] \in Int /\ z[x] <= f[x]
    OBVIOUS
  <2> HIDE DEF z
  <2>3. SumFunctionOnSet(z, T) = 0
    BY <2>1, <2>2, SumZero
  <2>4. SumFunctionOnSet(z, T) <= SumFunctionOnSet(f, T)
    BY <2>1, <2>2, SumOrder
  <2>5. SumFunctionOnSet(f, T) \in Int
    BY <2>1, <2>2, SumType
  <2> QED BY <2>3, <2>4, <2>5
<1>2. ASSUME NEW x \in S PROVE f[x] <= SumFunctionOnSet(f, S)
  <2>1. SumFunctionOnSet(f, S) = f[x] + SumFunctionOnSet(f, S \ {x})
    BY SumPick
  <2> QED BY <1>1, <2>1
<1> QED BY <1>1, <1>2

(* One element changes. *)
LEMMA SumChange ==
  ASSUME NEW S, IsFiniteSet(S), NEW f, NEW e, NEW y \in S,
         \A x \in S : f[x] \in Int /\ e[x] \in Int,
         \A x \in S \ {y} : f[x] = e[x]
  PROVE  SumFunctionOnSet(e, S) = SumFunctionOnSet(f, S) - f[y] + e[y]
<1>1. IsFiniteSet(S \ {y})
  BY FS_Subset
<1>2. SumFunctionOnSet(e, S \ {y}) = SumFunctionOnSet(f, S \ {y})
  BY <1>1, SumSame
<1>3. SumFunctionOnSet(f, S \ {y}) \in Int
  BY <1>1, SumType
<1>4. /\ SumFunctionOnSet(e, S) = e[y] + SumFunctionOnSet(e, S \ {y})
      /\ SumFunctionOnSet(f, S) = f[y] + SumFunctionOnSet(f, S \ {y})
  BY SumPick
<1>5. f[y] \in Int /\ e[y] \in Int
  OBVIOUS
<1> QED BY ONLY <1>2, <1>3, <1>4, <1>5

(* Only a part of a sum counts; only one element does. *)
LEMMA SumPart ==
  ASSUME NEW S, IsFiniteSet(S), NEW f, \A x \in S : f[x] \in Int,
         NEW P \in SUBSET S, \A x \in S \ P : f[x] = 0
  PROVE  SumFunctionOnSet(f, S) = SumFunctionOnSet(f, P)
<1>1. IsFiniteSet(P) /\ IsFiniteSet(S \ P)
  BY FS_Subset, FS_Difference
<1>2. SumFunctionOnSet(f, S \ P) = 0
  BY <1>1, SumZero
<1>3. SumFunctionOnSet(f, S) = SumFunctionOnSet(f, P) + SumFunctionOnSet(f, S \ P)
  BY SumSplit
<1>4. SumFunctionOnSet(f, P) \in Int
  BY <1>1, SumType
<1> QED BY <1>2, <1>3, <1>4

LEMMA SumOfOne ==
  ASSUME NEW S, IsFiniteSet(S), NEW f, NEW y \in S, f[y] \in Int, \A x \in S \ {y} : f[x] = 0
  PROVE  SumFunctionOnSet(f, S) = f[y]
<1>1. IsFiniteSet(S \ {y})
  BY FS_Difference
<1>2. SumFunctionOnSet(f, S \ {y}) = 0
  BY <1>1, SumZero
<1>3. \A x \in S : f[x] \in Int
  OBVIOUS
<1>4. SumFunctionOnSet(f, S) = f[y] + SumFunctionOnSet(f, S \ {y})
  BY <1>3, SumPick
<1> QED BY <1>2, <1>4

(* A table has one sum, by rows and by columns. *)
LEMMA SumSwap ==
  ASSUME NEW S, IsFiniteSet(S), NEW T, IsFiniteSet(T),
         NEW g, \A x \in S : \A y \in T : g[x][y] \in Int
  PROVE  SumFunctionOnSet([x \in S |-> SumFunctionOnSet(g[x], T)], S)
           = SumFunctionOnSet([y \in T |-> SumFunctionOnSet([x \in S |-> g[x][y]], S)], T)
<1> DEFINE row == [x \in S |-> SumFunctionOnSet(g[x], T)]
           at == [y \in T |-> [x \in S |-> g[x][y]]]
           column(U) == [y \in T |-> SumFunctionOnSet(at[y], U)]
           Good == {U \in SUBSET S : SumFunctionOnSet(row, U) = SumFunctionOnSet(column(U), T)}
<1>1. \A x \in S : row[x] \in Int
  BY SumType
<1>2. \A y \in T : \A x \in S : at[y][x] = g[x][y]
  OBVIOUS
<1> HIDE DEF at
<1>3. ASSUME NEW U \in SUBSET S, \A V \in SUBSET U : V # U => V \in Good
      PROVE  U \in Good
  <2>1. CASE U = {}
    <3>1. \A y \in T : column(U)[y] = 0
      BY <2>1, SumOfNone
    <3> HIDE DEF column
    <3>2. SumFunctionOnSet(column(U), T) = 0
      BY <3>1, SumZero
    <3> QED BY <2>1, <3>2, SumOfNone
  <2>2. CASE U # {}
    <3> DEFINE c == Chosen(U)
               V == Others(U)
    <3>1. IsFiniteSet(U) /\ IsFiniteSet(V) /\ c \in U /\ V \in Good /\ V \in SUBSET S
      BY <1>3, <2>2, RestIsSmaller, FS_Subset
    <3>2. SumFunctionOnSet(row, U) = row[c] + SumFunctionOnSet(row, V)
      BY <2>2, <3>1, SumStep
    <3>3. ASSUME NEW y \in T
          PROVE  /\ g[c][y] \in Int /\ column(V)[y] \in Int
                 /\ column(U)[y] = g[c][y] + column(V)[y]
      <4>1. at[y][c] = g[c][y] /\ g[c][y] \in Int
        BY <1>2, <3>1
      <4>2. SumFunctionOnSet(at[y], V) \in Int
        <5>1. \A x \in V : at[y][x] \in Int
          BY <1>2, <3>1
        <5> QED BY <3>1, <5>1, SumType
      <4>3. SumFunctionOnSet(at[y], U) = at[y][c] + SumFunctionOnSet(at[y], V)
        BY <2>2, <3>1, SumStep
      <4> QED BY <4>1, <4>2, <4>3
    <3> HIDE DEF column, c, V
    <3>4. SumFunctionOnSet(column(U), T)
            = SumFunctionOnSet(g[c], T) + SumFunctionOnSet(column(V), T)
      BY <3>3, SumPlus
    <3>5. row[c] = SumFunctionOnSet(g[c], T)
      BY <3>1
    <3> QED BY <3>1, <3>2, <3>4, <3>5
  <2> QED BY <2>1, <2>2
<1>4. \A U \in SUBSET S : (\A V \in SUBSET U : V # U => V \in Good) => U \in Good
  BY <1>3
<1> HIDE DEF Good
<1>5. S \in Good
  BY <1>4, SubsetInduction
<1>6. column(S) = [y \in T |-> SumFunctionOnSet([x \in S |-> g[x][y]], S)]
  BY DEF at
<1> QED BY <1>5, <1>6 DEF Good

(***************************************************************************)
(* The inductive invariant.                                                *)
(***************************************************************************)
SaleRecords == [status : SaleStatuses, lines : Seq(Lines)]
Phases == {"idle", "load", "lock", "flip", "sum", "write", "commit", "return", "mark",
           "count", "post", "end", "done"}
HeldRows == UNION {[D -> Rows] : D \in SUBSET Lots}
Hands == UNION {[D -> Nat] : D \in SUBSET Products}
Transactions == [req : Requests \cup {NoRequest}, pc : Phases, line : Nat \ {0},
                 todo : SUBSET Lots, held : HeldRows, hand : Hands, total : Nat,
                 sold : Seq(Lines), behind : SUBSET Products]

(* The types, of the fields of a transaction too. *)
TypeInv ==
  /\ lot \in [Lots -> Rows]
  /\ onHand \in [Products -> Nat]
  /\ sale \in [Sales -> SaleRecords]
  /\ tx \in [Txs -> Transactions]
  /\ received \in [Lots -> Nat] /\ disposed \in [Lots -> Nat]
  /\ stale \subseteq Products /\ overlapped \subseteq Sales

(* The phases of each document. *)
Op(t) == tx[t].req.op
PhaseInv(t) ==
  \/ tx[t] = Idle \/ tx[t] = Ended
  \/ /\ tx[t].req \in Requests
     /\ \/ Op(t) = "sale" /\ tx[t].pc \in {"load", "lock", "flip", "sum", "write", "commit"}
        \/ Op(t) = "void" /\ tx[t].pc \in {"return", "flip", "sum", "write", "mark", "commit"}
        \/ Op(t) = "refund" /\ tx[t].pc \in {"count", "return", "flip", "sum", "write",
                                             "post", "end"}
        \/ Op(t) \in {"receive", "dispose"} /\ tx[t].pc \in {"flip", "sum", "write", "commit"}

(* The sales: what their status says of their lines. *)
SaleInv(s) ==
  /\ sale[s].status = "none" <=> sale[s].lines = <<>>
  /\ \A i \in DOMAIN sale[s].lines :
       /\ sale[s].lines[i].qty > 0
       /\ sale[s].lines[i].refunded <= sale[s].lines[i].qty
       /\ sale[s].status = "COMPLETED" => sale[s].lines[i].refunded = 0
       /\ sale[s].status = "VOID" /\ sale[s].lines[i].refunded > 0 => s \in overlapped
  /\ sale[s].lines # <<>> /\ FullyRefunded(sale[s].lines)
       => sale[s].status \in {"VOIDED_BY_RETURN", "VOID"}

(* A transaction that makes a sale, and the lines it has sold so far. *)
SoldLines(t) == IF tx[t].pc \in {"load", "lock"} THEN tx[t].line - 1 ELSE tx[t].line
SellInv(t) ==
  Op(t) = "sale" =>
    /\ sale[tx[t].req.sale].status = "none"
    /\ tx[t].line \in DOMAIN Cart[tx[t].req.sale]
    /\ tx[t].pc = "commit" => tx[t].line = Len(Cart[tx[t].req.sale])
    /\ Len(tx[t].sold) = SoldLines(t)
    /\ \A i \in DOMAIN tx[t].sold :
         /\ tx[t].sold[i].qty = Cart[tx[t].req.sale][i].qty
         /\ tx[t].sold[i].refunded = 0
         /\ ProductOf[tx[t].sold[i].lot] = Cart[tx[t].req.sale][i].product

(* One that voids a sale: it holds the lots of the lines it has restored, and from *)
(* its mark on the sale stays COMPLETED.                                           *)
RestoredLines(t) == IF tx[t].pc = "return" THEN 1..tx[t].line - 1 ELSE 1..tx[t].line
VoidInv(t) ==
  Op(t) = "void" =>
    /\ tx[t].line \in DOMAIN sale[tx[t].req.sale].lines
    /\ tx[t].pc \in {"mark", "commit"} => tx[t].line = Len(sale[tx[t].req.sale].lines)
    /\ \A i \in RestoredLines(t) : sale[tx[t].req.sale].lines[i].lot \in DOMAIN tx[t].held
    /\ tx[t].pc = "commit" => sale[tx[t].req.sale].status = "COMPLETED"

(* One that refunds a line: from its count on the quantity stays covered. *)
RefundInv(t) ==
  Op(t) = "refund" =>
    /\ tx[t].req.line \in DOMAIN sale[tx[t].req.sale].lines
    /\ tx[t].pc # "count" => tx[t].req.qty <= Left(tx[t].req)
    /\ tx[t].pc \notin {"count", "return"} => LineOf(t).lot \in DOMAIN tx[t].held
    /\ sale[tx[t].req.sale].status = "VOID" => tx[t].req.sale \in overlapped

(* Two transactions lock different lots, make different sales, count refunds of *)
(* different lines and mark different sales.                                    *)
ApartInv(t, u) ==
  /\ DOMAIN tx[t].held \cap DOMAIN tx[u].held = {}
  /\ Op(t) = "sale" => tx[t].req # tx[u].req
  /\ Op(t) = "refund" /\ tx[t].pc # "count" => ~HoldsItem(u, tx[t].req.sale, tx[t].req.line)
  /\ Op(t) = "void" /\ tx[t].pc = "commit" => ~HoldsSale(u, tx[t].req.sale)

DocInv == /\ \A s \in Sales : SaleInv(s)
          /\ \A t \in Txs : PhaseInv(t) /\ SellInv(t) /\ VoidInv(t) /\ RefundInv(t)
          /\ \A t \in Txs : \A u \in Txs \ {t} : ApartInv(t, u)

(* The quantity on hand.  Rows that a transaction changed belong to a product it has *)
(* synced, or is about to; what it wrote or summed holds as it sees the lots, unless *)
(* others have changed the product since.                                            *)
OnHand(p, row) == Sum({b \in LotsOf(p) : row[b].status = "ACTIVE"}, row)
Syncing(t, p) == tx[t].pc \in {"flip", "sum", "write"} /\ Product(t) = p
SyncInv(t) ==
  /\ \A b \in DOMAIN tx[t].held : \/ tx[t].held[b] = lot[b]
                                  \/ ProductOf[b] \in DOMAIN tx[t].hand
                                  \/ Syncing(t, ProductOf[b])
  /\ \A p \in DOMAIN tx[t].hand \ tx[t].behind :
       Syncing(t, p) \/ tx[t].hand[p] = OnHand(p, Seen(t))
  /\ tx[t].pc = "write" /\ Product(t) \notin tx[t].behind
       => tx[t].total = OnHand(Product(t), Seen(t))
OnHandInv == OnHandExcused /\ \A t \in Txs : SyncInv(t)

(* The order of locks: until its first product, a transaction holds lots before those *)
(* it still has to lock.                                                              *)
LockInv(t) ==
  /\ tx[t].pc = "count" => tx[t].hand = <<>>
  /\ tx[t].hand = <<>> =>
       /\ tx[t].pc \in {"load", "return", "count"} => DOMAIN tx[t].held = {}
       /\ tx[t].pc = "lock" => \A b \in DOMAIN tx[t].held : \A c \in tx[t].todo : b < c
LocksInv == \A t \in Txs : LockInv(t)

(* The stock: what a transaction has changed of a product is what its document says. *)
Change(t, p) == [b \in LotsOf(p) |-> Seen(t)[b].qty - lot[b].qty]
Changed(t, p) == SumFunctionOnSet(Change(t, p), LotsOf(p))
SumOf(lines, I, p) ==
  SumFunctionOnSet([i \in I |-> IF ProductOf[lines[i].lot] = p THEN lines[i].qty ELSE 0], I)
Moved(t, p) ==
  CASE Op(t) = "sale" -> - SumOf(tx[t].sold, DOMAIN tx[t].sold, p)
    [] Op(t) = "void" -> SumOf(sale[tx[t].req.sale].lines, RestoredLines(t), p)
    [] Op(t) = "refund" -> IF tx[t].pc \notin {"count", "return"} /\ Product(t) = p
                           THEN tx[t].req.qty ELSE 0
    [] Op(t) = "receive" -> IF Product(t) = p THEN tx[t].req.qty ELSE 0
    [] Op(t) = "dispose" -> IF Product(t) = p THEN - tx[t].req.qty ELSE 0
    [] OTHER -> 0
MovedInv(t) == \A p \in Products : Changed(t, p) = Moved(t, p)
StockInv == StockMatchesDocuments /\ \A t \in Txs : MovedInv(t)

(***************************************************************************)
(* Types.                                                                  *)
(***************************************************************************)
LEMMA TxFields ==
  ASSUME TypeInv, NEW t \in Txs
  PROVE  /\ tx[t] \in Transactions
         /\ tx[t].req \in Requests \cup {NoRequest} /\ tx[t].pc \in Phases
         /\ tx[t].line \in Nat \ {0} /\ tx[t].todo \in SUBSET Lots
         /\ DOMAIN tx[t].held \in SUBSET Lots /\ tx[t].held \in [DOMAIN tx[t].held -> Rows]
         /\ DOMAIN tx[t].hand \in SUBSET Products /\ tx[t].hand \in [DOMAIN tx[t].hand -> Nat]
         /\ tx[t].total \in Nat /\ tx[t].sold \in Seq(Lines) /\ tx[t].behind \in SUBSET Products
<1>1. tx[t] \in Transactions
  BY DEF TypeInv
<1>2. /\ tx[t].req \in Requests \cup {NoRequest} /\ tx[t].pc \in Phases
      /\ tx[t].line \in Nat \ {0} /\ tx[t].todo \in SUBSET Lots
      /\ tx[t].held \in HeldRows /\ tx[t].hand \in Hands
      /\ tx[t].total \in Nat /\ tx[t].sold \in Seq(Lines) /\ tx[t].behind \in SUBSET Products
  BY <1>1 DEF Transactions
<1>3. DOMAIN tx[t].held \in SUBSET Lots /\ tx[t].held \in [DOMAIN tx[t].held -> Rows]
  BY <1>2 DEF HeldRows
<1>4. DOMAIN tx[t].hand \in SUBSET Products /\ tx[t].hand \in [DOMAIN tx[t].hand -> Nat]
  BY <1>2 DEF Hands
<1> QED BY <1>1, <1>2, <1>3, <1>4

LEMMA HeldType ==
  ASSUME NEW D \in SUBSET Lots, NEW h \in [D -> Rows]
  PROVE  h \in HeldRows
BY DEF HeldRows

LEMMA HandType ==
  ASSUME NEW D \in SUBSET Products, NEW h \in [D -> Nat]
  PROVE  h \in Hands
BY DEF Hands

LEMMA NothingHeld == /\ <<>> \in HeldRows /\ <<>> \in Hands /\ <<>> \in Seq(Lines)
                     /\ DOMAIN <<>> = {}
<1>1. <<>> \in [{} -> Rows] /\ <<>> \in [{} -> Nat]
  OBVIOUS
<1>2. <<>> \in HeldRows
  BY <1>1, HeldType
<1>3. <<>> \in Hands
  BY <1>1, HandType
<1> QED BY <1>2, <1>3

LEMMA IdleTypes == Idle \in Transactions /\ Ended \in Transactions
<1>1. Idle \in Transactions
  BY NothingHeld DEF Idle, Transactions, Phases
<1>2. Ended \in Transactions
  <2>1. Ended = [Idle EXCEPT !.pc = "done"] /\ "done" \in Phases
    BY DEF Ended, Phases
  <2> QED BY <1>1, <2>1 DEF Transactions
<1> QED BY <1>1, <1>2

LEMMA RequestTypes ==
  ASSUME NEW r \in Requests
  PROVE  /\ r.op \in {"sale", "void", "refund", "receive", "dispose", "quarantine"}
         /\ r.op = "sale" => r \in [op : {"sale", "void"}, sale : Sales]
         /\ r.op \in {"sale", "void", "refund"} => r.sale \in Sales
         /\ r.op = "refund" => r.line \in Nat \ {0} /\ r.qty \in Nat \ {0}
         /\ r.op \in {"receive", "dispose"} => r.qty \in Nat \ {0}
         /\ r.op \in {"receive", "dispose", "quarantine"} => r.lot \in Lots
         /\ r.op = "sale" => Cart[r.sale] # <<>>
<1>1. r \in Documents
  BY RequestsAssumption
<1> QED BY <1>1, RequestsAssumption DEF Documents

(* What a transaction sees. *)
LEMMA SeenTypes ==
  ASSUME TypeInv, NEW t \in Txs
  PROVE  /\ Seen(t) \in [Lots -> Rows]
         /\ \A b \in Lots : /\ Seen(t)[b] = IF b \in DOMAIN tx[t].held THEN tx[t].held[b]
                                                                      ELSE lot[b]
                            /\ Seen(t)[b].qty \in Nat /\ Seen(t)[b].status \in Statuses
                            /\ Seen(t)[b] = [qty |-> Seen(t)[b].qty,
                                             status |-> Seen(t)[b].status]
<1>1. lot \in [Lots -> Rows] /\ tx[t].held \in [DOMAIN tx[t].held -> Rows]
  BY TxFields DEF TypeInv
<1>2. Seen(t) = [b \in Lots |-> IF b \in DOMAIN tx[t].held THEN tx[t].held[b] ELSE lot[b]]
  BY <1>1 DEF Seen, Override
<1>3. Seen(t) \in [Lots -> Rows]
  BY <1>1, <1>2
<1>4. \A b \in Lots : Seen(t)[b] \in Rows
  BY <1>3
<1>5. \A b \in Lots : Seen(t)[b].qty \in Nat /\ Seen(t)[b].status \in Statuses
                      /\ Seen(t)[b] = [qty |-> Seen(t)[b].qty, status |-> Seen(t)[b].status]
  BY <1>4 DEF Rows
<1> QED BY <1>2, <1>3, <1>5

(* The line and the product of an open transaction. *)
LEMMA SaleTypes ==
  ASSUME TypeInv, NEW s \in Sales
  PROVE  /\ sale[s] \in SaleRecords /\ sale[s].status \in SaleStatuses
         /\ sale[s].lines \in Seq(Lines)
         /\ \A i \in DOMAIN sale[s].lines :
              /\ sale[s].lines[i] \in Lines /\ sale[s].lines[i].lot \in Lots
              /\ sale[s].lines[i].qty \in Nat /\ sale[s].lines[i].refunded \in Nat
<1>1. sale[s] \in SaleRecords
  BY DEF TypeInv
<1>2. sale[s].status \in SaleStatuses /\ sale[s].lines \in Seq(Lines)
  BY <1>1 DEF SaleRecords
<1>3. \A i \in DOMAIN sale[s].lines : sale[s].lines[i] \in Lines
  BY <1>2
<1> QED BY <1>1, <1>2, <1>3 DEF Lines

LEMMA SeqElement ==
  ASSUME NEW S, NEW q \in Seq(S), NEW i \in DOMAIN q
  PROVE  q[i] \in S
OBVIOUS

LEMMA CartTypes ==
  ASSUME NEW s \in Sales, NEW i \in DOMAIN Cart[s]
  PROVE  /\ Cart[s] \in Seq([product : Products, qty : Nat \ {0}])
         /\ Cart[s][i].product \in Products /\ Cart[s][i].qty \in Nat \ {0}
<1>1. Cart[s] \in Seq([product : Products, qty : Nat \ {0}])
  BY SalesAssumption
<1>2. Cart[s][i] \in [product : Products, qty : Nat \ {0}]
  BY <1>1, SeqElement
<1> QED BY <1>1, <1>2

Open(t) == tx[t].pc \notin {"idle", "done"}
TxInv(t) == PhaseInv(t) /\ SellInv(t) /\ VoidInv(t) /\ RefundInv(t)

LEMMA OpenPhases ==
  ASSUME NEW t, PhaseInv(t), Open(t)
  PROVE  /\ tx[t].req \in Requests
         /\ \/ Op(t) = "sale" /\ tx[t].pc \in {"load", "lock", "flip", "sum", "write", "commit"}
            \/ Op(t) = "void" /\ tx[t].pc \in {"return", "flip", "sum", "write", "mark", "commit"}
            \/ Op(t) = "refund" /\ tx[t].pc \in {"count", "return", "flip", "sum", "write",
                                                 "post", "end"}
            \/ Op(t) \in {"receive", "dispose"} /\ tx[t].pc \in {"flip", "sum", "write", "commit"}
<1>1. Idle.pc = "idle" /\ Ended.pc = "done"
  BY DEF Idle, Ended
<1> QED BY <1>1 DEF PhaseInv, Open

LEMMA ProductTypes ==
  ASSUME TypeInv, NEW t \in Txs, TxInv(t), Open(t)
  PROVE  /\ Product(t) \in Products
         /\ Op(t) \in {"sale", "void", "refund"} => tx[t].req.sale \in Sales
         /\ Op(t) \in {"void", "refund"} =>
              LineOf(t) \in Lines /\ LineOf(t).lot \in Lots /\ LineOf(t).qty \in Nat
              /\ Product(t) = ProductOf[LineOf(t).lot]
         /\ Op(t) = "sale" => /\ Product(t) = Cart[tx[t].req.sale][tx[t].line].product
                              /\ Want(t) \in Nat \ {0}
         /\ Op(t) \in {"receive", "dispose"} => /\ tx[t].req.lot \in Lots
                                                /\ tx[t].req.qty \in Nat \ {0}
                                                /\ Product(t) = ProductOf[tx[t].req.lot]
<1> USE DEF Op
<1>1. tx[t].req \in Requests /\ Op(t) \in {"sale", "void", "refund", "receive", "dispose"}
  BY OpenPhases DEF TxInv
<1>2. CASE Op(t) = "sale"
  <2>1. tx[t].req.sale \in Sales /\ tx[t].line \in DOMAIN Cart[tx[t].req.sale]
    BY <1>1, <1>2, RequestTypes DEF TxInv, SellInv
  <2>2. Product(t) = Cart[tx[t].req.sale][tx[t].line].product
    BY <1>2 DEF Product
  <2> QED BY <1>2, <2>1, <2>2, CartTypes DEF Want
<1>3. CASE Op(t) \in {"void", "refund"}
  <2>1. tx[t].req.sale \in Sales
    BY <1>1, <1>3, RequestTypes
  <2>2. LineOf(t) \in Lines /\ LineOf(t).lot \in Lots /\ LineOf(t).qty \in Nat
    <3>1. CASE Op(t) = "void"
      BY <2>1, <3>1, SaleTypes DEF LineOf, TxInv, VoidInv
    <3>2. CASE Op(t) = "refund"
      BY <2>1, <3>2, SaleTypes DEF LineOf, TxInv, RefundInv
    <3> QED BY <1>3, <3>1, <3>2
  <2>3. Product(t) = ProductOf[LineOf(t).lot]
    BY <1>3 DEF Product
  <2> QED BY <1>3, <2>1, <2>2, <2>3, LotsAssumption
<1>4. CASE Op(t) \in {"receive", "dispose"}
  <2>1. tx[t].req.lot \in Lots /\ tx[t].req.qty \in Nat \ {0}
    BY <1>1, <1>4, RequestTypes
  <2>2. Product(t) = ProductOf[tx[t].req.lot]
    BY <1>4 DEF Product
  <2> QED BY <1>4, <2>1, <2>2, LotsAssumption
<1> QED BY <1>1, <1>2, <1>3, <1>4

LEMMA LotSets ==
  ASSUME NEW p
  PROVE  LotsOf(p) \in SUBSET Lots /\ IsFiniteSet(LotsOf(p))
BY LotsAssumption, FS_Subset DEF LotsOf

(* A sum over lots is that of the function of their quantities. *)
Quantities(S, row) == [b \in S |-> row[b].qty]

LEMMA SumIsSum ==
  ASSUME NEW S, IsFiniteSet(S), NEW row
  PROVE  Sum(S, row) = SumFunctionOnSet(Quantities(S, row), S)
BY DEF Sum, Quantities

LEMMA SumTypes ==
  ASSUME NEW S \in SUBSET Lots, NEW row \in [Lots -> Rows]
  PROVE  Sum(S, row) \in Nat /\ \A b \in S : row[b].qty <= Sum(S, row)
<1>1. IsFiniteSet(S)
  BY LotsAssumption, FS_Subset
<1>2. \A b \in S : Quantities(S, row)[b] = row[b].qty /\ row[b].qty \in Nat
  BY DEF Quantities, Rows
<1>3. /\ SumFunctionOnSet(Quantities(S, row), S) \in Nat
      /\ \A b \in S : Quantities(S, row)[b] <= SumFunctionOnSet(Quantities(S, row), S)
  BY <1>1, <1>2, SumNat
<1> QED BY <1>1, <1>2, <1>3, SumIsSum

(***************************************************************************)
(* What each action does to the transaction that takes it.                 *)
(***************************************************************************)
Frame == /\ lot' = lot /\ onHand' = onHand /\ sale' = sale /\ received' = received
         /\ disposed' = disposed /\ stale' = stale /\ overlapped' = overlapped
Local(t) == /\ Frame
            /\ \A u \in Txs \ {t} : tx'[u] = tx[u]
            /\ tx' \in [Txs -> Transactions]

LEMMA Becomes ==
  ASSUME TypeInv, NEW t \in Txs, NEW x \in Transactions, tx' = [tx EXCEPT ![t] = x], Frame
  PROVE  Local(t) /\ tx'[t] = x
BY DEF Local, TypeInv

LEMMA LocalTypes ==
  ASSUME TypeInv, NEW t \in Txs, Local(t)
  PROVE  TypeInv'
BY DEF TypeInv, Local, Frame

LEMMA EarliestIsLeast ==
  ASSUME NEW S \in SUBSET Lots, S # {}
  PROVE  Earliest(S) \in S /\ \A c \in S : Earliest(S) <= c
<1>1. \E b \in S : \A c \in S : b <= c
  BY LeastNumber, LotsAssumption
<1> QED BY <1>1 DEF Earliest

LEMMA NeededFree ==
  ASSUME NEW t \in Txs, NEW pc, Ready(t, pc)
  PROVE  tx[t].pc = pc /\ \A u \in Txs \ {t} : LotsNeeded(t) \cap DOMAIN tx[u].held = {}
BY DEF Ready, Waits

LEMMA SelectableLots ==
  ASSUME NEW t
  PROVE  Selectable(t) \in SUBSET LotsOf(Product(t)) /\ Selectable(t) \in SUBSET Lots
         /\ \A b \in Selectable(t) : CanSell(Seen(t)[b])
BY DEF Selectable, LotsOf

(* createSale *)
LEMMA LoadEffect ==
  ASSUME TypeInv, NEW t \in Txs, Load(t)
  PROVE  /\ Local(t) /\ tx[t].pc = "load"
         /\ tx'[t].req = tx[t].req /\ tx'[t].pc = "lock" /\ tx'[t].line = tx[t].line
         /\ tx'[t].todo = Selectable(t) /\ tx'[t].held = tx[t].held
         /\ tx'[t].hand = tx[t].hand /\ tx'[t].total = tx[t].total
         /\ tx'[t].sold = tx[t].sold /\ tx'[t].behind = tx[t].behind
<1> DEFINE x == [tx[t] EXCEPT !.todo = Selectable(t), !.pc = "lock"]
<1>1. tx[t].pc = "load" /\ Frame
  BY NeededFree DEF Load, Frame, history
<1>2. tx' = [tx EXCEPT ![t] = x]
  BY DEF Load, TypeInv
<1>3. tx[t] \in Transactions /\ Selectable(t) \in SUBSET Lots
  BY TxFields, SelectableLots
<1>4. x \in Transactions
  BY <1>3 DEF Transactions, Phases
<1>5. /\ x.req = tx[t].req /\ x.pc = "lock" /\ x.line = tx[t].line
      /\ x.todo = Selectable(t) /\ x.held = tx[t].held /\ x.hand = tx[t].hand
      /\ x.total = tx[t].total /\ x.sold = tx[t].sold /\ x.behind = tx[t].behind
  BY <1>3 DEF Transactions
<1> HIDE DEF x
<1> QED BY <1>1, <1>2, <1>4, <1>5, Becomes

LEMMA LockLotEffect ==
  ASSUME TypeInv, NEW t \in Txs, LockLot(t)
  PROVE  /\ Local(t) /\ tx[t].pc = "lock" /\ tx[t].todo # {}
         /\ Earliest(tx[t].todo) \in tx[t].todo
         /\ \A c \in tx[t].todo : Earliest(tx[t].todo) <= c
         /\ \A u \in Txs \ {t} : Earliest(tx[t].todo) \notin DOMAIN tx[u].held
         /\ tx'[t].req = tx[t].req /\ tx'[t].pc = "lock" /\ tx'[t].line = tx[t].line
         /\ tx'[t].todo = tx[t].todo \ {Earliest(tx[t].todo)}
         /\ DOMAIN tx[t].held \subseteq DOMAIN tx'[t].held
         /\ DOMAIN tx'[t].held \subseteq DOMAIN tx[t].held \cup {Earliest(tx[t].todo)}
         /\ \A b \in DOMAIN tx'[t].held : tx'[t].held[b] = Seen(t)[b]
         /\ tx'[t].hand = tx[t].hand /\ tx'[t].total = tx[t].total
         /\ tx'[t].sold = tx[t].sold /\ tx'[t].behind = tx[t].behind
<1> DEFINE b == Earliest(tx[t].todo)
           keep == IF CanSell(Seen(t)[b]) THEN {b} ELSE {}
           held == With(tx[t].held, keep, LAMBDA c : Seen(t)[c])
           x == [tx[t] EXCEPT !.todo = @ \ {b}, !.held = held]
<1>0. tx[t].todo # {} /\ tx[t].todo \in SUBSET Lots
  BY TxFields DEF LockLot
<1>1. tx[t].pc = "lock" /\ Frame
  BY NeededFree DEF LockLot, Frame, history
<1>2. b \in tx[t].todo /\ b \in Lots /\ \A c \in tx[t].todo : b <= c
  BY <1>0, EarliestIsLeast
<1>3. LotsNeeded(t) = {b}
  BY <1>0, <1>1 DEF LotsNeeded
<1>4. \A u \in Txs \ {t} : b \notin DOMAIN tx[u].held
  BY <1>3, NeededFree DEF LockLot
<1>5. tx' = [tx EXCEPT ![t] = x]
  BY DEF LockLot, TypeInv
<1> HIDE DEF b
<1>6. keep \in SUBSET {b}
  OBVIOUS
<1>7. held = [c \in DOMAIN tx[t].held \cup keep |-> IF c \in keep THEN Seen(t)[c]
                                                    ELSE tx[t].held[c]]
  BY DEF With
<1> HIDE DEF keep, held
<1>8. DOMAIN held = DOMAIN tx[t].held \cup keep /\ DOMAIN held \in SUBSET Lots
  BY <1>2, <1>6, <1>7, TxFields
<1>9. \A c \in DOMAIN held : held[c] = Seen(t)[c]
  BY <1>2, <1>6, <1>7, <1>8, TxFields, SeenTypes
<1>10. \A c \in DOMAIN held : held[c] \in Rows
  BY <1>8, <1>9, SeenTypes
<1>11. held \in HeldRows
  <2>1. held \in [DOMAIN held -> Rows]
    BY <1>7, <1>8, <1>10
  <2> QED BY <1>8, <2>1, HeldType
<1>12. tx[t] \in Transactions
  BY TxFields
<1>13. x \in Transactions
  BY <1>11, <1>12 DEF Transactions
<1>14. /\ x.req = tx[t].req /\ x.pc = tx[t].pc /\ x.line = tx[t].line
       /\ x.todo = tx[t].todo \ {b} /\ x.held = held /\ x.hand = tx[t].hand
       /\ x.total = tx[t].total /\ x.sold = tx[t].sold /\ x.behind = tx[t].behind
  BY <1>12 DEF Transactions
<1> HIDE DEF x
<1>15. Local(t) /\ tx'[t] = x
  BY <1>1, <1>5, <1>13, Becomes
<1>16. DOMAIN held \subseteq DOMAIN tx[t].held \cup {b}
  BY <1>6, <1>8
<1> QED BY <1>0, <1>1, <1>2, <1>4, <1>8, <1>9, <1>14, <1>15, <1>16 DEF b

(* A transaction's rows with the rows S replaced. *)
LEMMA RowsReplaced ==
  ASSUME TypeInv, NEW t \in Txs, NEW S \in SUBSET Lots, NEW r, \A b \in S : r[b] \in Rows, NEW h,
         h = [c \in DOMAIN tx[t].held \cup S |-> IF c \in S THEN r[c] ELSE tx[t].held[c]]
  PROVE  /\ h \in HeldRows /\ DOMAIN h = DOMAIN tx[t].held \cup S
         /\ \A b \in S : h[b] = r[b]
         /\ \A b \in DOMAIN tx[t].held \ S : h[b] = tx[t].held[b]
<1>1. DOMAIN h = DOMAIN tx[t].held \cup S /\ DOMAIN h \in SUBSET Lots
  BY TxFields
<1>2. h \in [DOMAIN h -> Rows]
  BY <1>1, TxFields
<1>3. h \in HeldRows
  BY <1>1, <1>2, HeldType
<1> QED BY <1>1, <1>3

(* The sums of what can be sold. *)
LEMMA SumGrows ==
  ASSUME NEW S \in SUBSET Lots, NEW P \in SUBSET S, NEW row \in [Lots -> Rows]
  PROVE  Sum(P, row) <= Sum(S, row)
<1>1. IsFiniteSet(S) /\ IsFiniteSet(P) /\ IsFiniteSet(S \ P)
  BY LotsAssumption, FS_Subset
<1> DEFINE f == Quantities(S, row)
<1>2. \A b \in S : f[b] = row[b].qty /\ f[b] \in Nat
  BY DEF Quantities, Rows
<1>3. \A b \in P : f[b] = Quantities(P, row)[b]
  BY <1>2 DEF Quantities
<1> HIDE DEF f
<1>4. SumFunctionOnSet(f, S) = SumFunctionOnSet(f, P) + SumFunctionOnSet(f, S \ P)
  BY <1>1, <1>2, SumSplit
<1>5. SumFunctionOnSet(f, S \ P) \in Nat /\ SumFunctionOnSet(f, P) \in Nat
  BY <1>1, <1>2, SumNat
<1>6. SumFunctionOnSet(f, P) = Sum(P, row)
  BY <1>1, <1>3, SumSame, SumIsSum
<1>7. SumFunctionOnSet(f, S) = Sum(S, row)
  BY <1>1, SumIsSum DEF f
<1> QED BY <1>4, <1>5, <1>6, <1>7

LEMMA TakenTypes ==
  ASSUME NEW S \in SUBSET Lots, NEW row \in [Lots -> Rows], NEW q \in Nat
  PROVE  \A b \in S : Taken(S, row, q)[b] \in Nat /\ Taken(S, row, q)[b] <= row[b].qty
<1>1. ASSUME NEW b \in S
      PROVE  Taken(S, row, q)[b] \in Nat /\ Taken(S, row, q)[b] <= row[b].qty
  <2> DEFINE before == Sum({c \in S : c < b}, row)
  <2>1. before \in Nat /\ row[b].qty \in Nat
    BY SumTypes DEF Rows
  <2>2. Taken(S, row, q)[b] = IF before >= q THEN 0 ELSE Less(row[b].qty, q - before)
    BY DEF Taken
  <2> QED BY <2>1, <2>2 DEF Less
<1> QED BY <1>1

LEMMA DeductEffect ==
  ASSUME TypeInv, NEW t \in Txs, TxInv(t), Deduct(t)
  PROVE  /\ Local(t) /\ tx[t].pc = "lock" /\ tx[t].todo = {} /\ Op(t) = "sale"
         /\ Selectable(t) # {} /\ Earliest(Selectable(t)) \in Selectable(t)
         /\ Want(t) <= Sum(Selectable(t), Seen(t))
         /\ \A u \in Txs \ {t} : Selectable(t) \cap DOMAIN tx[u].held = {}
         /\ tx'[t].req = tx[t].req /\ tx'[t].pc = "flip" /\ tx'[t].line = tx[t].line
         /\ tx'[t].todo = tx[t].todo
         /\ DOMAIN tx'[t].held = DOMAIN tx[t].held \cup Selectable(t)
         /\ \A b \in Selectable(t) :
              tx'[t].held[b].qty = Seen(t)[b].qty - Taken(Selectable(t), Seen(t), Want(t))[b]
         /\ \A b \in DOMAIN tx[t].held \ Selectable(t) : tx'[t].held[b] = tx[t].held[b]
         /\ tx'[t].hand = tx[t].hand /\ tx'[t].total = tx[t].total
         /\ tx'[t].sold = Append(tx[t].sold, [lot |-> Earliest(Selectable(t)), qty |-> Want(t),
                                              refunded |-> 0])
         /\ tx'[t].behind = tx[t].behind
<1> DEFINE S == Selectable(t)
           taken == Taken(S, Seen(t), Want(t))
           line == [lot |-> Earliest(S), qty |-> Want(t), refunded |-> 0]
           row(b) == IF taken[b] > 0 THEN Decrement(Seen(t)[b], taken[b]) ELSE Seen(t)[b]
           r == [b \in S |-> row(b)]
           held == With(tx[t].held, S, LAMBDA b : row(b))
           sold == Append(tx[t].sold, line)
           x == [tx[t] EXCEPT !.held = held, !.sold = sold, !.pc = "flip"]
<1>1. tx[t].pc = "lock" /\ tx[t].todo = {} /\ Frame
  BY NeededFree DEF Deduct, Frame, history
<1>2. Op(t) = "sale" /\ Want(t) \in Nat \ {0}
  <2>1. Open(t) /\ Op(t) = "sale"
    BY <1>1, OpenPhases DEF Open, TxInv
  <2> QED BY <2>1, ProductTypes
<1>3. S \in SUBSET Lots /\ Seen(t) \in [Lots -> Rows]
  BY SelectableLots, SeenTypes
<1>4. LotsNeeded(t) = S
  BY <1>1 DEF LotsNeeded
<1>5. \A u \in Txs \ {t} : S \cap DOMAIN tx[u].held = {}
  BY <1>4, NeededFree DEF Deduct
<1>6. Want(t) <= Sum(S, Seen(t))
  <2>1. Sum(LockedForSale(t), Seen(t)) >= Want(t)
    BY DEF Deduct
  <2>2. LockedForSale(t) \in SUBSET S
    BY DEF LockedForSale
  <2>3. Sum(LockedForSale(t), Seen(t)) <= Sum(S, Seen(t))
    BY <1>3, <2>2, SumGrows
  <2>4. Sum(LockedForSale(t), Seen(t)) \in Nat /\ Sum(S, Seen(t)) \in Nat
    BY <1>3, <2>2, SumTypes
  <2> HIDE DEF S
  <2> QED BY <1>2, <2>1, <2>3, <2>4
<1>7. S # {}
  <2>1. CASE S = {}
    <3>1. Sum({}, Seen(t)) = 0
      <4>1. IsFiniteSet({})
        BY FS_EmptySet
      <4> QED BY <4>1, SumIsSum, SumOfNone
    <3> HIDE DEF S
    <3> QED BY <1>2, <1>6, <2>1, <3>1
  <2> QED BY <2>1
<1>8. Earliest(S) \in S /\ line \in Lines
  BY <1>2, <1>3, <1>7, EarliestIsLeast DEF Lines
<1>9. tx' = [tx EXCEPT ![t] = x]
  BY DEF Deduct, TypeInv
<1>10. \A b \in S : taken[b] \in Nat /\ taken[b] <= Seen(t)[b].qty
  BY <1>2, <1>3, TakenTypes
<1> HIDE DEF taken, S
<1>11. \A b \in S : row(b) \in Rows /\ row(b).qty = Seen(t)[b].qty - taken[b]
  <2> SUFFICES ASSUME NEW b \in S PROVE row(b) \in Rows /\ row(b).qty = Seen(t)[b].qty - taken[b]
    OBVIOUS
  <2>1. Seen(t)[b].qty \in Nat /\ Seen(t)[b].status \in Statuses /\ Seen(t)[b] \in Rows
    BY <1>3 DEF Rows
  <2>2. CASE taken[b] > 0
    BY <1>10, <2>1, <2>2 DEF Decrement, Rows, Statuses
  <2>3. CASE ~(taken[b] > 0)
    BY <1>10, <2>1, <2>3
  <2> QED BY <2>2, <2>3
<1>12. held = [c \in DOMAIN tx[t].held \cup S |-> IF c \in S THEN r[c] ELSE tx[t].held[c]]
  BY DEF With
<1>13. \A b \in S : r[b] \in Rows /\ r[b].qty = Seen(t)[b].qty - taken[b]
  BY <1>11
<1> HIDE DEF r, held, row, line
<1>14. /\ held \in HeldRows /\ DOMAIN held = DOMAIN tx[t].held \cup S
       /\ \A b \in S : held[b] = r[b]
       /\ \A b \in DOMAIN tx[t].held \ S : held[b] = tx[t].held[b]
  <2>1. \A b \in S : r[b] \in Rows
    BY <1>13
  <2> QED BY ONLY <1>3, <1>12, <2>1, TypeInv, t \in Txs, RowsReplaced
<1>15. tx[t] \in Transactions /\ sold \in Seq(Lines)
  BY <1>8, TxFields
<1> HIDE DEF sold
<1>16. x \in Transactions
  BY <1>14, <1>15 DEF Transactions, Phases
<1>17. /\ x.req = tx[t].req /\ x.pc = "flip" /\ x.line = tx[t].line
       /\ x.todo = tx[t].todo /\ x.held = held /\ x.hand = tx[t].hand
       /\ x.total = tx[t].total /\ x.sold = sold /\ x.behind = tx[t].behind
  BY <1>15 DEF Transactions
<1> HIDE DEF x
<1>18. Local(t) /\ tx'[t] = x
  BY <1>1, <1>9, <1>16, Becomes
<1> QED BY <1>1, <1>2, <1>5, <1>6, <1>7, <1>8, <1>13, <1>14, <1>17, <1>18 DEF S, taken, sold, line

(* syncProductQuantity *)
LEMMA FlipEffect ==
  ASSUME TypeInv, NEW t \in Txs, FlipStatuses(t)
  PROVE  /\ Local(t) /\ tx[t].pc = "flip"
         /\ Misfits(t) \in SUBSET LotsOf(Product(t)) /\ Misfits(t) \in SUBSET Lots
         /\ \A u \in Txs \ {t} : Misfits(t) \cap DOMAIN tx[u].held = {}
         /\ tx'[t].req = tx[t].req /\ tx'[t].pc = "sum" /\ tx'[t].line = tx[t].line
         /\ tx'[t].todo = tx[t].todo
         /\ DOMAIN tx'[t].held = DOMAIN tx[t].held \cup Misfits(t)
         /\ \A b \in Misfits(t) : tx'[t].held[b].qty = Seen(t)[b].qty
         /\ \A b \in DOMAIN tx[t].held \ Misfits(t) : tx'[t].held[b] = tx[t].held[b]
         /\ tx'[t].hand = tx[t].hand /\ tx'[t].total = tx[t].total
         /\ tx'[t].sold = tx[t].sold /\ tx'[t].behind = tx[t].behind
<1> DEFINE S == Misfits(t)
           row(b) == [Seen(t)[b] EXCEPT !.status = IF @ = "ACTIVE" THEN "DEPLETED" ELSE "ACTIVE"]
           r == [b \in S |-> row(b)]
           held == With(tx[t].held, S, LAMBDA b : row(b))
           x == [tx[t] EXCEPT !.held = held, !.pc = "sum"]
<1>1. tx[t].pc = "flip" /\ Frame
  BY NeededFree DEF FlipStatuses, Frame, history
<1>2. S \in SUBSET LotsOf(Product(t)) /\ S \in SUBSET Lots
  BY DEF Misfits, LotsOf
<1>3. LotsNeeded(t) = S
  BY <1>1 DEF LotsNeeded
<1>4. \A u \in Txs \ {t} : S \cap DOMAIN tx[u].held = {}
  BY <1>3, NeededFree DEF FlipStatuses
<1>5. tx' = [tx EXCEPT ![t] = x]
  BY DEF FlipStatuses, TypeInv
<1> HIDE DEF S
<1>6. \A b \in S : row(b) \in Rows /\ row(b).qty = Seen(t)[b].qty
  <2> SUFFICES ASSUME NEW b \in S PROVE row(b) \in Rows /\ row(b).qty = Seen(t)[b].qty
    OBVIOUS
  <2>1. Seen(t)[b] \in Rows
    BY <1>2, SeenTypes
  <2> QED BY <2>1 DEF Rows, Statuses
<1>7. held = [c \in DOMAIN tx[t].held \cup S |-> IF c \in S THEN r[c] ELSE tx[t].held[c]]
  BY DEF With
<1>8. \A b \in S : r[b] \in Rows /\ r[b].qty = Seen(t)[b].qty
  BY <1>6
<1> HIDE DEF r, held, row
<1>9. /\ held \in HeldRows /\ DOMAIN held = DOMAIN tx[t].held \cup S
      /\ \A b \in S : held[b] = r[b]
      /\ \A b \in DOMAIN tx[t].held \ S : held[b] = tx[t].held[b]
  BY <1>2, <1>7, <1>8, RowsReplaced, SMTT(30)
<1>10. tx[t] \in Transactions
  BY TxFields
<1>11. x \in Transactions
  BY <1>9, <1>10 DEF Transactions, Phases
<1>12. /\ x.req = tx[t].req /\ x.pc = "sum" /\ x.line = tx[t].line
       /\ x.todo = tx[t].todo /\ x.held = held /\ x.hand = tx[t].hand
       /\ x.total = tx[t].total /\ x.sold = tx[t].sold /\ x.behind = tx[t].behind
  BY <1>10 DEF Transactions
<1> HIDE DEF x
<1>13. Local(t) /\ tx'[t] = x
  BY <1>1, <1>5, <1>11, Becomes
<1> QED BY <1>1, <1>2, <1>4, <1>8, <1>9, <1>12, <1>13 DEF S

LEMMA SumEffect ==
  ASSUME TypeInv, NEW t \in Txs, TxInv(t), SumLots(t)
  PROVE  /\ Local(t) /\ tx[t].pc = "sum"
         /\ tx'[t].req = tx[t].req /\ tx'[t].pc = "write" /\ tx'[t].line = tx[t].line
         /\ tx'[t].todo = tx[t].todo /\ tx'[t].held = tx[t].held /\ tx'[t].hand = tx[t].hand
         /\ tx'[t].total = OnHand(Product(t), Seen(t))
         /\ tx'[t].sold = tx[t].sold /\ tx'[t].behind = tx[t].behind \ {Product(t)}
<1> DEFINE total == OnHand(Product(t), Seen(t))
           x == [tx[t] EXCEPT !.total = total, !.behind = @ \ {Product(t)}, !.pc = "write"]
<1>1. tx[t].pc = "sum" /\ Frame
  BY NeededFree DEF SumLots, Frame, history
<1>2. tx' = [tx EXCEPT ![t] = x]
  BY DEF SumLots, TypeInv, OnHand
<1>3. tx[t] \in Transactions /\ total \in Nat
  BY TxFields, SeenTypes, SumTypes DEF OnHand, LotsOf
<1> HIDE DEF total
<1>4. x \in Transactions
  BY <1>3 DEF Transactions, Phases
<1>5. /\ x.req = tx[t].req /\ x.pc = "write" /\ x.line = tx[t].line
      /\ x.todo = tx[t].todo /\ x.held = tx[t].held /\ x.hand = tx[t].hand
      /\ x.total = total /\ x.sold = tx[t].sold /\ x.behind = tx[t].behind \ {Product(t)}
  BY <1>3 DEF Transactions
<1> HIDE DEF x
<1>6. Local(t) /\ tx'[t] = x
  BY <1>1, <1>2, <1>4, Becomes
<1> QED BY <1>1, <1>5, <1>6 DEF total

LEMMA WriteEffect ==
  ASSUME TypeInv, NEW t \in Txs, TxInv(t), WriteOnHand(t)
  PROVE  /\ Local(t) /\ tx[t].pc = "write"
         /\ tx'[t].req = tx[t].req /\ tx'[t].pc = AfterLine(t)
         /\ tx'[t].line = IF LastLine(t) THEN tx[t].line ELSE tx[t].line + 1
         /\ tx'[t].todo = tx[t].todo /\ tx'[t].held = tx[t].held
         /\ DOMAIN tx'[t].hand = DOMAIN tx[t].hand \cup {Product(t)}
         /\ tx'[t].hand[Product(t)] = tx[t].total
         /\ \A p \in DOMAIN tx[t].hand \ {Product(t)} : tx'[t].hand[p] = tx[t].hand[p]
         /\ tx'[t].total = 0
         /\ tx'[t].sold = tx[t].sold /\ tx'[t].behind = tx[t].behind
<1> DEFINE hand == With(tx[t].hand, {Product(t)}, LAMBDA p : tx[t].total)
           line == IF LastLine(t) THEN tx[t].line ELSE tx[t].line + 1
           x == [tx[t] EXCEPT !.hand = hand, !.total = 0, !.line = line, !.pc = AfterLine(t)]
<1>1. tx[t].pc = "write" /\ Frame
  BY NeededFree DEF WriteOnHand, Frame, history
<1>2. Product(t) \in Products
  BY <1>1, ProductTypes DEF Open
<1>3. tx' = [tx EXCEPT ![t] = x]
  BY DEF WriteOnHand, TypeInv
<1>4. hand = [p \in DOMAIN tx[t].hand \cup {Product(t)} |->
                IF p \in {Product(t)} THEN tx[t].total ELSE tx[t].hand[p]]
  BY DEF With
<1> HIDE DEF hand
<1>5. DOMAIN hand = DOMAIN tx[t].hand \cup {Product(t)} /\ DOMAIN hand \in SUBSET Products
  BY <1>2, <1>4, TxFields
<1>6. hand \in Hands
  <2>1. hand \in [DOMAIN hand -> Nat]
    BY <1>4, <1>5, TxFields
  <2> QED BY <1>5, <2>1, HandType
<1>7. tx[t] \in Transactions /\ line \in Nat \ {0} /\ AfterLine(t) \in Phases
  BY TxFields DEF AfterLine, Phases
<1> HIDE DEF line
<1>8. x \in Transactions
  BY <1>6, <1>7 DEF Transactions
<1>9. /\ x.req = tx[t].req /\ x.pc = AfterLine(t) /\ x.line = line
      /\ x.todo = tx[t].todo /\ x.held = tx[t].held /\ x.hand = hand
      /\ x.total = 0 /\ x.sold = tx[t].sold /\ x.behind = tx[t].behind
  BY <1>7 DEF Transactions
<1> HIDE DEF x
<1>10. Local(t) /\ tx'[t] = x
  BY <1>1, <1>3, <1>8, Becomes
<1>11. /\ hand[Product(t)] = tx[t].total
       /\ \A p \in DOMAIN tx[t].hand \ {Product(t)} : hand[p] = tx[t].hand[p]
  BY <1>4
<1> QED BY <1>1, <1>5, <1>9, <1>10, <1>11 DEF line

(* A step that only moves a transaction on. *)
LEMMA GotoEffect ==
  ASSUME TypeInv, NEW t \in Txs, NEW pc \in Phases, Goto(t, pc), Frame
  PROVE  /\ Local(t)
         /\ tx'[t].req = tx[t].req /\ tx'[t].pc = pc /\ tx'[t].line = tx[t].line
         /\ tx'[t].todo = tx[t].todo /\ tx'[t].held = tx[t].held
         /\ tx'[t].hand = tx[t].hand /\ tx'[t].total = tx[t].total
         /\ tx'[t].sold = tx[t].sold /\ tx'[t].behind = tx[t].behind
<1> DEFINE x == [tx[t] EXCEPT !.pc = pc]
<1>1. tx' = [tx EXCEPT ![t] = x]
  BY DEF Goto, TypeInv
<1>2. tx[t] \in Transactions
  BY TxFields
<1>3. x \in Transactions
  BY <1>2 DEF Transactions
<1>4. /\ x.req = tx[t].req /\ x.pc = pc /\ x.line = tx[t].line
      /\ x.todo = tx[t].todo /\ x.held = tx[t].held /\ x.hand = tx[t].hand
      /\ x.total = tx[t].total /\ x.sold = tx[t].sold /\ x.behind = tx[t].behind
  BY <1>2 DEF Transactions
<1> HIDE DEF x
<1> QED BY <1>1, <1>3, <1>4, Becomes

LEMMA FailEffect ==
  ASSUME TypeInv, NEW t \in Txs, Fail(t)
  PROVE  Local(t) /\ tx'[t] = Ended
BY IdleTypes, Becomes DEF Fail, Frame, history

(* voidSale and refundSale *)
LEMMA ReturnEffect ==
  ASSUME TypeInv, NEW t \in Txs, TxInv(t), ReturnLot(t)
  PROVE  /\ Local(t) /\ tx[t].pc = "return" /\ LineOf(t).lot \in Lots
         /\ \A u \in Txs \ {t} : LineOf(t).lot \notin DOMAIN tx[u].held
         /\ tx'[t].req = tx[t].req /\ tx'[t].pc = "flip" /\ tx'[t].line = tx[t].line
         /\ tx'[t].todo = tx[t].todo
         /\ DOMAIN tx'[t].held = DOMAIN tx[t].held \cup {LineOf(t).lot}
         /\ tx'[t].held[LineOf(t).lot].qty
              = Seen(t)[LineOf(t).lot].qty + (IF Op(t) = "void" THEN LineOf(t).qty
                                                                ELSE tx[t].req.qty)
         /\ \A b \in DOMAIN tx[t].held \ {LineOf(t).lot} : tx'[t].held[b] = tx[t].held[b]
         /\ tx'[t].hand = tx[t].hand /\ tx'[t].total = tx[t].total
         /\ tx'[t].sold = tx[t].sold /\ tx'[t].behind = tx[t].behind
<1> DEFINE a == LineOf(t).lot
           qty == IF Op(t) = "void" THEN LineOf(t).qty ELSE tx[t].req.qty
           r == [b \in {a} |-> Increase(Seen(t)[b], qty)]
           held == With(tx[t].held, {a}, LAMBDA b : Increase(Seen(t)[b], qty))
           x == [tx[t] EXCEPT !.held = held, !.pc = "flip"]
<1>1. tx[t].pc = "return" /\ Frame
  BY NeededFree DEF ReturnLot, Frame, history
<1>2. a \in Lots /\ qty \in Nat
  <2>1. Open(t) /\ tx[t].req \in Requests /\ Op(t) \in {"void", "refund"}
    BY <1>1, OpenPhases DEF Open, TxInv
  <2>2. Op(t) = "refund" => tx[t].req.qty \in Nat
    BY <2>1, RequestTypes DEF Op
  <2> QED BY <2>1, <2>2, ProductTypes
<1>3. LotsNeeded(t) = {a}
  BY <1>1 DEF LotsNeeded
<1>4. \A u \in Txs \ {t} : a \notin DOMAIN tx[u].held
  BY <1>3, NeededFree DEF ReturnLot
<1>5. tx' = [tx EXCEPT ![t] = x]
  BY DEF ReturnLot, TypeInv, Op
<1> HIDE DEF a, qty
<1>6. Increase(Seen(t)[a], qty) \in Rows /\ Increase(Seen(t)[a], qty).qty = Seen(t)[a].qty + qty
  BY <1>2, SeenTypes DEF Increase, Rows, Statuses
<1>7. held = [c \in DOMAIN tx[t].held \cup {a} |-> IF c \in {a} THEN r[c] ELSE tx[t].held[c]]
  BY DEF With
<1>8. \A b \in {a} : r[b] \in Rows
  BY <1>6
<1>9. r[a].qty = Seen(t)[a].qty + qty
  BY <1>6
<1> HIDE DEF r, held
<1>10. /\ held \in HeldRows /\ DOMAIN held = DOMAIN tx[t].held \cup {a}
       /\ \A b \in {a} : held[b] = r[b]
       /\ \A b \in DOMAIN tx[t].held \ {a} : held[b] = tx[t].held[b]
  <2> DEFINE S == {a}
  <2>1. S \in SUBSET Lots /\ (\A b \in S : r[b] \in Rows)
        /\ held = [c \in DOMAIN tx[t].held \cup S |-> IF c \in S THEN r[c] ELSE tx[t].held[c]]
    BY <1>2, <1>7, <1>8
  <2> HIDE DEF S
  <2>2. /\ held \in HeldRows /\ DOMAIN held = DOMAIN tx[t].held \cup S
        /\ \A b \in S : held[b] = r[b]
        /\ \A b \in DOMAIN tx[t].held \ S : held[b] = tx[t].held[b]
    BY <2>1, RowsReplaced
  <2> QED BY <2>2 DEF S
<1>11. tx[t] \in Transactions
  BY TxFields
<1>12. x \in Transactions
  BY <1>10, <1>11 DEF Transactions, Phases
<1>13. /\ x.req = tx[t].req /\ x.pc = "flip" /\ x.line = tx[t].line
       /\ x.todo = tx[t].todo /\ x.held = held /\ x.hand = tx[t].hand
       /\ x.total = tx[t].total /\ x.sold = tx[t].sold /\ x.behind = tx[t].behind
  BY <1>11 DEF Transactions
<1> HIDE DEF x
<1>14. Local(t) /\ tx'[t] = x
  BY <1>1, <1>5, <1>12, Becomes
<1> QED BY <1>1, <1>2, <1>4, <1>9, <1>10, <1>13, <1>14 DEF a, qty

(* A transaction begins. *)
LEMMA IdleFields ==
  ASSUME TypeInv, NEW t \in Txs, PhaseInv(t), tx[t].pc = "idle"
  PROVE  /\ tx[t] = Idle /\ tx[t].req = NoRequest /\ tx[t].line = 1 /\ tx[t].todo = {}
         /\ tx[t].held = <<>> /\ tx[t].hand = <<>> /\ tx[t].total = 0 /\ tx[t].sold = <<>>
         /\ tx[t].behind = {} /\ DOMAIN tx[t].held = {} /\ DOMAIN tx[t].hand = {}
<1>1. tx[t] = Idle
  BY DEF PhaseInv, Ended, Idle
<1> QED BY <1>1, NothingHeld DEF Idle

LEMMA BeginEffect ==
  ASSUME TypeInv, NEW t \in Txs, PhaseInv(t), NEW r \in Requests, NEW pc \in Phases,
         Begin(t, r, pc)
  PROVE  /\ Local(t) /\ tx[t].pc = "idle"
         /\ tx'[t].req = r /\ tx'[t].pc = pc /\ tx'[t].line = 1 /\ tx'[t].todo = {}
         /\ tx'[t].held = <<>> /\ tx'[t].hand = <<>> /\ tx'[t].total = 0
         /\ tx'[t].sold = <<>> /\ tx'[t].behind = {}
<1> DEFINE x == [tx[t] EXCEPT !.req = r, !.pc = pc]
<1>1. tx' = [tx EXCEPT ![t] = x] /\ Frame /\ tx[t].pc = "idle"
  BY DEF Begin, TypeInv, Frame, history
<1>2. tx[t] \in Transactions
  BY TxFields
<1>3. x \in Transactions
  BY <1>2 DEF Transactions
<1>4. /\ x.req = r /\ x.pc = pc /\ x.line = tx[t].line
      /\ x.todo = tx[t].todo /\ x.held = tx[t].held /\ x.hand = tx[t].hand
      /\ x.total = tx[t].total /\ x.sold = tx[t].sold /\ x.behind = tx[t].behind
  BY <1>2 DEF Transactions
<1> HIDE DEF x
<1> QED BY <1>1, <1>3, <1>4, IdleFields, Becomes

(* A transaction begins with one lot. *)
LEMMA BeginLotEffect ==
  ASSUME TypeInv, NEW t \in Txs, PhaseInv(t), NEW r \in Requests,
         NEW held \in HeldRows, tx[t].pc = "idle", Frame,
         tx' = [tx EXCEPT ![t].req = r, ![t].pc = "flip", ![t].held = held]
  PROVE  /\ Local(t)
         /\ tx'[t].req = r /\ tx'[t].pc = "flip" /\ tx'[t].line = 1 /\ tx'[t].todo = {}
         /\ tx'[t].held = held
         /\ tx'[t].hand = <<>> /\ tx'[t].total = 0 /\ tx'[t].sold = <<>> /\ tx'[t].behind = {}
<1> DEFINE x == [tx[t] EXCEPT !.req = r, !.pc = "flip", !.held = held]
<1>1. tx' = [tx EXCEPT ![t] = x]
  BY DEF TypeInv
<1>2. tx[t] \in Transactions
  BY TxFields
<1>4. x \in Transactions
  BY <1>2 DEF Transactions, Phases
<1>5. /\ x.req = r /\ x.pc = "flip" /\ x.line = tx[t].line
      /\ x.todo = tx[t].todo /\ x.held = held /\ x.hand = tx[t].hand
      /\ x.total = tx[t].total /\ x.sold = tx[t].sold /\ x.behind = tx[t].behind
  BY <1>2 DEF Transactions
<1> HIDE DEF x
<1> QED BY <1>1, <1>4, <1>5, IdleFields, Becomes

LEMMA ReceiveEffect ==
  ASSUME TypeInv, NEW t \in Txs, PhaseInv(t), NEW r \in Requests, Receive(t, r)
  PROVE  /\ Local(t) /\ tx[t].pc = "idle" /\ r.op = "receive" /\ r.lot \in Lots
         /\ \A u \in Txs : r.lot \notin DOMAIN tx[u].held
         /\ tx'[t].req = r /\ tx'[t].pc = "flip" /\ tx'[t].line = 1 /\ tx'[t].todo = {}
         /\ DOMAIN tx'[t].held = {r.lot} /\ tx'[t].held[r.lot].qty = lot[r.lot].qty + r.qty
         /\ tx'[t].hand = <<>> /\ tx'[t].total = 0 /\ tx'[t].sold = <<>> /\ tx'[t].behind = {}
<1> DEFINE held == With(tx[t].held, {r.lot}, LAMBDA b : Increase(lot[b], r.qty))
<1>1. /\ tx[t].pc = "idle" /\ r.op = "receive" /\ Frame
      /\ \A u \in Txs : r.lot \notin DOMAIN tx[u].held
  BY DEF Receive, Frame, history
<1>2. r.lot \in Lots /\ r.qty \in Nat
  BY <1>1, RequestTypes
<1>3. lot[r.lot] \in Rows
  BY <1>2 DEF TypeInv
<1>4. Increase(lot[r.lot], r.qty) \in Rows
      /\ Increase(lot[r.lot], r.qty).qty = lot[r.lot].qty + r.qty
  BY <1>2, <1>3 DEF Increase, Rows, Statuses
<1>5. held \in [{r.lot} -> Rows] /\ held[r.lot].qty = lot[r.lot].qty + r.qty
  BY <1>1, <1>4, IdleFields DEF With
<1>6. tx' = [tx EXCEPT ![t].req = r, ![t].pc = "flip", ![t].held = held]
  BY DEF Receive, TypeInv
<1>7. held \in HeldRows /\ DOMAIN held = {r.lot}
  <2>1. {r.lot} \in SUBSET Lots /\ DOMAIN held = {r.lot}
    BY <1>2, <1>5
  <2> QED BY <1>5, <2>1, HeldType
<1> HIDE DEF held
<1>8. /\ Local(t) /\ tx'[t].held = held
      /\ tx'[t].req = r /\ tx'[t].pc = "flip" /\ tx'[t].line = 1 /\ tx'[t].todo = {}
      /\ tx'[t].hand = <<>> /\ tx'[t].total = 0 /\ tx'[t].sold = <<>> /\ tx'[t].behind = {}
  <2>1. tx[t].pc = "idle" /\ Frame /\ held \in HeldRows
    BY <1>1, <1>7
  <2> QED BY <2>1, <1>6, BeginLotEffect, ZenonT(40)
<1> QED BY <1>1, <1>2, <1>5, <1>7, <1>8

LEMMA DisposeEffect ==
  ASSUME TypeInv, NEW t \in Txs, PhaseInv(t), NEW r \in Requests, Dispose(t, r)
  PROVE  /\ Local(t) /\ tx[t].pc = "idle" /\ r.op = "dispose" /\ r.lot \in Lots
         /\ \A u \in Txs : r.lot \notin DOMAIN tx[u].held
         /\ tx'[t].req = r /\ tx'[t].pc = "flip" /\ tx'[t].line = 1 /\ tx'[t].todo = {}
         /\ DOMAIN tx'[t].held = {r.lot} /\ tx'[t].held[r.lot].qty = lot[r.lot].qty - r.qty
         /\ tx'[t].hand = <<>> /\ tx'[t].total = 0 /\ tx'[t].sold = <<>> /\ tx'[t].behind = {}
<1> DEFINE held == With(tx[t].held, {r.lot}, LAMBDA b : Decrement(lot[b], r.qty))
<1>1. /\ tx[t].pc = "idle" /\ r.op = "dispose" /\ Frame /\ r.qty <= lot[r.lot].qty
      /\ \A u \in Txs : r.lot \notin DOMAIN tx[u].held
  BY DEF Dispose, Frame, history
<1>2. r.lot \in Lots /\ r.qty \in Nat
  BY <1>1, RequestTypes
<1>3. lot[r.lot] \in Rows
  BY <1>2 DEF TypeInv
<1>4. Decrement(lot[r.lot], r.qty) \in Rows
      /\ Decrement(lot[r.lot], r.qty).qty = lot[r.lot].qty - r.qty
  BY <1>1, <1>2, <1>3 DEF Decrement, Rows, Statuses
<1>5. held \in [{r.lot} -> Rows] /\ held[r.lot].qty = lot[r.lot].qty - r.qty
  BY <1>1, <1>4, IdleFields DEF With
<1>6. tx' = [tx EXCEPT ![t].req = r, ![t].pc = "flip", ![t].held = held]
  BY DEF Dispose, TypeInv
<1>7. held \in HeldRows /\ DOMAIN held = {r.lot}
  <2>1. {r.lot} \in SUBSET Lots /\ DOMAIN held = {r.lot}
    BY <1>2, <1>5
  <2> QED BY <1>5, <2>1, HeldType
<1> HIDE DEF held
<1>8. /\ Local(t) /\ tx'[t].held = held
      /\ tx'[t].req = r /\ tx'[t].pc = "flip" /\ tx'[t].line = 1 /\ tx'[t].todo = {}
      /\ tx'[t].hand = <<>> /\ tx'[t].total = 0 /\ tx'[t].sold = <<>> /\ tx'[t].behind = {}
  <2>1. tx[t].pc = "idle" /\ Frame /\ held \in HeldRows
    BY <1>1, <1>7
  <2> QED BY <2>1, <1>6, BeginLotEffect, ZenonT(40)
<1> QED BY <1>1, <1>2, <1>5, <1>7, <1>8

(* A commit. *)
KeptBut(u) == /\ tx'[u].req = tx[u].req /\ tx'[u].pc = tx[u].pc /\ tx'[u].line = tx[u].line
              /\ tx'[u].todo = tx[u].todo /\ tx'[u].held = tx[u].held
              /\ tx'[u].hand = tx[u].hand /\ tx'[u].total = tx[u].total
              /\ tx'[u].sold = tx[u].sold

LEMMA PublishEffect ==
  ASSUME TypeInv, NEW t \in Txs, NEW rows \in HeldRows, NEW hand \in Hands,
         NEW U \in SUBSET Products, Publish(t, rows, hand, U)
  PROVE  /\ lot' \in [Lots -> Rows]
         /\ \A b \in Lots : lot'[b] = IF b \in DOMAIN rows THEN rows[b] ELSE lot[b]
         /\ onHand' \in [Products -> Nat]
         /\ \A p \in Products : onHand'[p] = IF p \in DOMAIN hand THEN hand[p] ELSE onHand[p]
         /\ stale' = (stale \ DOMAIN hand) \cup U \cup (tx[t].behind \cap DOMAIN hand)
         /\ stale' \subseteq Products
         /\ tx' \in [Txs -> Transactions] /\ tx'[t] = Ended
         /\ \A u \in Txs \ {t} :
              /\ KeptBut(u)
              /\ tx[u].behind \subseteq tx'[u].behind
              /\ ~Open(u) => tx'[u] = tx[u]
              /\ Open(u) => \A b \in Lots : lot'[b] # lot[b] => ProductOf[b] \in tx'[u].behind
<1> DEFINE changed == {ProductOf[b] : b \in {c \in DOMAIN rows : rows[c] # lot[c]}}
           x(u) == [tx[u] EXCEPT !.behind = @ \cup changed]
<1>1. /\ lot' = Override(lot, rows)
      /\ onHand' = Override(onHand, hand)
      /\ stale' = (stale \ DOMAIN hand) \cup U \cup (tx[t].behind \cap DOMAIN hand)
      /\ tx' = [u \in Txs |-> IF u = t THEN Ended
                              ELSE IF tx[u].pc \in {"idle", "done"} THEN tx[u] ELSE x(u)]
  BY DEF Publish
<1>2. DOMAIN rows \in SUBSET Lots /\ rows \in [DOMAIN rows -> Rows]
  BY DEF HeldRows
<1>3. DOMAIN hand \in SUBSET Products /\ hand \in [DOMAIN hand -> Nat]
  BY DEF Hands
<1>4. /\ lot' \in [Lots -> Rows]
      /\ \A b \in Lots : lot'[b] = IF b \in DOMAIN rows THEN rows[b] ELSE lot[b]
  BY <1>1, <1>2 DEF Override, TypeInv
<1>5. /\ onHand' \in [Products -> Nat]
      /\ \A p \in Products : onHand'[p] = IF p \in DOMAIN hand THEN hand[p] ELSE onHand[p]
  BY <1>1, <1>3 DEF Override, TypeInv
<1>6. changed \in SUBSET Products
  BY <1>2, LotsAssumption
<1>7. stale' \subseteq Products
  BY <1>1, <1>3 DEF TypeInv
<1>8. \A b \in Lots : lot'[b] # lot[b] => ProductOf[b] \in changed
  BY <1>2, <1>4
<1> HIDE DEF changed
<1>9. ASSUME NEW u \in Txs
      PROVE  /\ x(u) \in Transactions
             /\ x(u).req = tx[u].req /\ x(u).pc = tx[u].pc /\ x(u).line = tx[u].line
             /\ x(u).todo = tx[u].todo /\ x(u).held = tx[u].held
             /\ x(u).hand = tx[u].hand /\ x(u).total = tx[u].total
             /\ x(u).sold = tx[u].sold /\ x(u).behind = tx[u].behind \cup changed
  <2>1. tx[u] \in Transactions
    BY TxFields
  <2>2. x(u) \in Transactions
    BY <1>6, <2>1 DEF Transactions
  <2> QED BY <2>1, <2>2 DEF Transactions
<1> HIDE DEF x
<1>10. \A u \in Txs : tx[u] \in Transactions
  BY TxFields
<1>11. tx' \in [Txs -> Transactions] /\ tx'[t] = Ended
  BY <1>1, <1>9, <1>10, IdleTypes
<1>12. ASSUME NEW u \in Txs \ {t}
       PROVE  /\ KeptBut(u)
              /\ tx[u].behind \subseteq tx'[u].behind
              /\ ~Open(u) => tx'[u] = tx[u]
              /\ Open(u) => \A b \in Lots : lot'[b] # lot[b] => ProductOf[b] \in tx'[u].behind
  <2>1. tx'[u] = IF tx[u].pc \in {"idle", "done"} THEN tx[u] ELSE x(u)
    BY <1>1
  <2>2. CASE Open(u)
    <3>1. tx'[u] = x(u)
      BY <2>1, <2>2 DEF Open
    <3>2. KeptBut(u) /\ tx'[u].behind = tx[u].behind \cup changed
      BY <1>9, <3>1 DEF KeptBut
    <3> QED BY <1>8, <2>2, <3>2
  <2>3. CASE ~Open(u)
    <3>1. tx'[u] = tx[u]
      BY <2>1, <2>3 DEF Open
    <3> QED BY <2>3, <3>1 DEF KeptBut
  <2> QED BY <2>2, <2>3
<1> QED BY <1>1, <1>4, <1>5, <1>7, <1>11, <1>12

LEMMA CommitEffect ==
  ASSUME TypeInv, NEW t \in Txs, CommitLots(t)
  PROVE  /\ lot' \in [Lots -> Rows] /\ lot' = Seen(t)
         /\ onHand' \in [Products -> Nat]
         /\ \A p \in Products : onHand'[p] = IF p \in DOMAIN tx[t].hand THEN tx[t].hand[p]
                                                                         ELSE onHand[p]
         /\ stale' = (stale \ DOMAIN tx[t].hand) \cup (tx[t].behind \cap DOMAIN tx[t].hand)
         /\ stale' \subseteq Products
         /\ tx' \in [Txs -> Transactions] /\ tx'[t] = Ended
         /\ \A u \in Txs \ {t} :
              /\ KeptBut(u)
              /\ tx[u].behind \subseteq tx'[u].behind
              /\ ~Open(u) => tx'[u] = tx[u]
              /\ Open(u) => \A b \in Lots : lot'[b] # lot[b] => ProductOf[b] \in tx'[u].behind
<1>1. tx[t].held \in HeldRows /\ tx[t].hand \in Hands /\ {} \in SUBSET Products
  BY TxFields, HeldType, HandType
<1>2. Publish(t, tx[t].held, tx[t].hand, {})
  BY DEF CommitLots
<1>3. lot' = Seen(t)
  BY <1>2 DEF Publish, Seen
<1>4. /\ lot' \in [Lots -> Rows]
      /\ onHand' \in [Products -> Nat]
      /\ \A p \in Products : onHand'[p] = IF p \in DOMAIN tx[t].hand THEN tx[t].hand[p]
                                                                     ELSE onHand[p]
      /\ stale' = (stale \ DOMAIN tx[t].hand) \cup {} \cup (tx[t].behind \cap DOMAIN tx[t].hand)
      /\ stale' \subseteq Products
      /\ tx' \in [Txs -> Transactions] /\ tx'[t] = Ended
      /\ \A u \in Txs \ {t} :
           /\ KeptBut(u)
           /\ tx[u].behind \subseteq tx'[u].behind
           /\ ~Open(u) => tx'[u] = tx[u]
           /\ Open(u) => \A b \in Lots : lot'[b] # lot[b] => ProductOf[b] \in tx'[u].behind
  BY <1>1, <1>2, PublishEffect
<1>5. stale' = (stale \ DOMAIN tx[t].hand) \cup (tx[t].behind \cap DOMAIN tx[t].hand)
  BY <1>4
<1> QED BY <1>3, <1>4, <1>5

LEMMA QuarantineEffect ==
  ASSUME TypeInv, NEW t \in Txs, PhaseInv(t), NEW r \in Requests, Quarantine(t, r)
  PROVE  /\ tx[t].pc = "idle" /\ r.lot \in Lots
         /\ \A u \in Txs : r.lot \notin DOMAIN tx[u].held
         /\ lot' \in [Lots -> Rows] /\ lot'[r.lot].qty = lot[r.lot].qty
         /\ \A b \in Lots \ {r.lot} : lot'[b] = lot[b]
         /\ onHand' = onHand /\ stale' = stale \cup {ProductOf[r.lot]}
         /\ stale' \subseteq Products
         /\ tx' \in [Txs -> Transactions] /\ tx'[t] = Ended
         /\ \A u \in Txs \ {t} :
              /\ KeptBut(u)
              /\ tx[u].behind \subseteq tx'[u].behind
              /\ ~Open(u) => tx'[u] = tx[u]
              /\ Open(u) => \A b \in Lots : lot'[b] # lot[b] => ProductOf[b] \in tx'[u].behind
         /\ sale' = sale /\ received' = received /\ disposed' = disposed
         /\ overlapped' = overlapped
<1> DEFINE a == r.lot
           rows == With(<<>>, {a}, LAMBDA b : [lot[b] EXCEPT !.status = "QUARANTINED"])
           U == {ProductOf[a]}
<1>1. /\ tx[t].pc = "idle" /\ r.op = "quarantine"
      /\ \A u \in Txs : a \notin DOMAIN tx[u].held
      /\ Publish(t, rows, <<>>, U)
      /\ sale' = sale /\ received' = received /\ disposed' = disposed
      /\ overlapped' = overlapped
  BY DEF Quarantine
<1>2. a \in Lots /\ U \in SUBSET Products /\ lot[a] \in Rows
  BY <1>1, RequestTypes, LotsAssumption DEF TypeInv
<1>3. rows \in [{a} -> Rows] /\ rows[a].qty = lot[a].qty
  <2>1. [lot[a] EXCEPT !.status = "QUARANTINED"] \in Rows
        /\ [lot[a] EXCEPT !.status = "QUARANTINED"].qty = lot[a].qty
    BY <1>2 DEF Rows, Statuses
  <2> QED BY <2>1, NothingHeld DEF With
<1>4. rows \in HeldRows /\ DOMAIN rows = {a}
  <2>1. {a} \in SUBSET Lots /\ DOMAIN rows = {a}
    BY <1>2, <1>3
  <2> QED BY <1>3, <2>1, HeldType
<1> HIDE DEF rows, U
<1>5. <<>> \in Hands /\ DOMAIN <<>> = {}
  BY NothingHeld
<1>6. /\ lot' \in [Lots -> Rows]
      /\ \A b \in Lots : lot'[b] = IF b \in DOMAIN rows THEN rows[b] ELSE lot[b]
      /\ onHand' \in [Products -> Nat]
      /\ \A p \in Products : onHand'[p] = IF p \in DOMAIN <<>> THEN <<>>[p] ELSE onHand[p]
      /\ stale' = (stale \ DOMAIN <<>>) \cup U \cup (tx[t].behind \cap DOMAIN <<>>)
      /\ stale' \subseteq Products
      /\ tx' \in [Txs -> Transactions] /\ tx'[t] = Ended
      /\ \A u \in Txs \ {t} :
           /\ KeptBut(u)
           /\ tx[u].behind \subseteq tx'[u].behind
           /\ ~Open(u) => tx'[u] = tx[u]
           /\ Open(u) => \A b \in Lots : lot'[b] # lot[b] => ProductOf[b] \in tx'[u].behind
  BY <1>1, <1>2, <1>4, <1>5, PublishEffect
<1>7. onHand' = onHand
  <2>1. \A p \in Products : onHand'[p] = onHand[p]
    BY <1>5, <1>6
  <2> QED BY <1>6, <2>1 DEF TypeInv
<1>8. stale' = stale \cup U
  BY <1>5, <1>6
<1> QED BY <1>1, <1>2, <1>3, <1>4, <1>6, <1>7, <1>8 DEF U

(***************************************************************************)
(* The documents: every step keeps DocInv.                                 *)
(***************************************************************************)
Inv1 == TypeInv /\ DocInv

LEMMA DocParts ==
  ASSUME DocInv, NEW t \in Txs
  PROVE  /\ TxInv(t) /\ PhaseInv(t) /\ SellInv(t) /\ VoidInv(t) /\ RefundInv(t)
         /\ \A u \in Txs \ {t} : ApartInv(t, u) /\ ApartInv(u, t)
BY DEF DocInv, TxInv

(* What a document reads of its sale stays as it was. *)
SameDoc(u) ==
  /\ Op(u) = "sale" => sale'[tx[u].req.sale].status = "none"
  /\ Op(u) \in {"void", "refund"} =>
       /\ DOMAIN sale'[tx[u].req.sale].lines = DOMAIN sale[tx[u].req.sale].lines
       /\ Len(sale'[tx[u].req.sale].lines) = Len(sale[tx[u].req.sale].lines)
       /\ \A i \in DOMAIN sale[tx[u].req.sale].lines :
            /\ sale'[tx[u].req.sale].lines[i].lot = sale[tx[u].req.sale].lines[i].lot
            /\ sale'[tx[u].req.sale].lines[i].qty = sale[tx[u].req.sale].lines[i].qty
  /\ Op(u) = "void" /\ tx[u].pc = "commit" => sale'[tx[u].req.sale].status = "COMPLETED"
  /\ Op(u) = "refund" /\ tx[u].pc # "count" =>
       sale'[tx[u].req.sale].lines[tx[u].req.line].refunded
         = sale[tx[u].req.sale].lines[tx[u].req.line].refunded
  /\ Op(u) = "refund" /\ sale'[tx[u].req.sale].status = "VOID" =>
       tx[u].req.sale \in overlapped'

LEMMA SameDocIfUnchanged ==
  ASSUME DocInv, NEW u \in Txs, sale' = sale, overlapped \subseteq overlapped'
  PROVE  SameDoc(u)
<1>1. SellInv(u) /\ VoidInv(u) /\ RefundInv(u)
  BY DocParts
<1> QED BY <1>1 DEF SameDoc, SellInv, VoidInv, RefundInv

LEMMA OtherKeeps ==
  ASSUME TypeInv, NEW u \in Txs, TxInv(u), KeptBut(u), ~Open(u) => tx'[u] = tx[u], SameDoc(u)
  PROVE  TxInv(u)'
<1>1. PhaseInv(u)'
  <2>1. CASE tx[u] = Idle \/ tx[u] = Ended
    <3>1. ~Open(u)
      BY <2>1 DEF Open, Idle, Ended
    <3> QED BY <2>1, <3>1 DEF PhaseInv
  <2>2. CASE ~(tx[u] = Idle \/ tx[u] = Ended)
    BY <2>2 DEF PhaseInv, TxInv, KeptBut, Op
  <2> QED BY <2>1, <2>2
<1>2. SellInv(u)'
  BY DEF TxInv, SellInv, SameDoc, KeptBut, Op, SoldLines
<1>3. VoidInv(u)'
  <2>1. ASSUME Op(u) = "void" PROVE VoidInv(u)'
    <3> DEFINE s == tx[u].req.sale
    <3>0. s \in Sales
      BY <2>1, RequestTypes DEF TxInv, PhaseInv, Op, Idle, Ended, NoRequest
    <3>1. /\ tx[u].line \in DOMAIN sale[s].lines
          /\ tx[u].pc \in {"mark", "commit"} => tx[u].line = Len(sale[s].lines)
          /\ \A i \in RestoredLines(u) : sale[s].lines[i].lot \in DOMAIN tx[u].held
      BY <2>1 DEF TxInv, VoidInv
    <3>2. /\ DOMAIN sale'[s].lines = DOMAIN sale[s].lines
          /\ Len(sale'[s].lines) = Len(sale[s].lines)
          /\ \A i \in DOMAIN sale[s].lines : sale'[s].lines[i].lot = sale[s].lines[i].lot
          /\ tx[u].pc = "commit" => sale'[s].status = "COMPLETED"
      BY <2>1 DEF SameDoc
    <3>3. RestoredLines(u)' = RestoredLines(u)
      BY DEF RestoredLines, KeptBut
    <3>4. RestoredLines(u) \subseteq DOMAIN sale[s].lines
      <4>1. DOMAIN sale[s].lines = 1..Len(sale[s].lines) /\ Len(sale[s].lines) \in Nat
        BY <3>0, SaleTypes
      <4>2. tx[u].line \in Nat
        BY TxFields
      <4> QED BY <3>1, <4>1, <4>2 DEF RestoredLines
    <3>5. \A i \in RestoredLines(u) : sale'[s].lines[i].lot \in DOMAIN tx[u].held
      BY <3>1, <3>2, <3>4
    <3>6. /\ tx'[u].req = tx[u].req /\ tx'[u].pc = tx[u].pc /\ tx'[u].line = tx[u].line
          /\ tx'[u].held = tx[u].held
      BY DEF KeptBut
    <3>7. /\ tx'[u].line \in DOMAIN sale'[s].lines
          /\ tx'[u].pc \in {"mark", "commit"} => tx'[u].line = Len(sale'[s].lines)
          /\ tx'[u].pc = "commit" => sale'[s].status = "COMPLETED"
      BY <3>1, <3>2, <3>6
    <3>8. \A i \in RestoredLines(u)' : sale'[s].lines[i].lot \in DOMAIN tx'[u].held
      BY <3>3, <3>5, <3>6
    <3>9. tx'[u].req.sale = s
      BY <3>6
    <3> HIDE DEF s
    <3> QED BY <3>7, <3>8, <3>9 DEF VoidInv
  <2>2. CASE Op(u) # "void"
    BY <2>2 DEF VoidInv, KeptBut, Op
  <2> QED BY <2>1, <2>2
<1>4. RefundInv(u)'
  BY DEF TxInv, RefundInv, SameDoc, KeptBut, Op, Left, LineOf
<1> QED BY <1>1, <1>2, <1>3, <1>4 DEF TxInv

LEMMA ApartTurned ==
  ASSUME NEW t \in Txs, NEW u \in Txs, PhaseInv(u)', ApartInv(t, u)'
  PROVE  ApartInv(u, t)'
<1>1. tx'[u].pc = "done" => Op(u)' = "none"
  BY DEF PhaseInv, Op, Ended, Idle, NoRequest
<1> QED BY <1>1 DEF ApartInv, HoldsItem, HoldsSale, Op

(* A step of one transaction that changes no table keeps DocInv if it keeps it for *)
(* that transaction.                                                               *)
LEMMA LocalKeeps ==
  ASSUME Inv1, NEW t \in Txs, Local(t), TxInv(t)', \A u \in Txs \ {t} : ApartInv(t, u)'
  PROVE  Inv1'
<1>1. sale' = sale /\ overlapped' = overlapped /\ \A u \in Txs \ {t} : tx'[u] = tx[u]
  BY DEF Local, Frame
<1>2. \A s \in Sales : SaleInv(s)'
  BY <1>1 DEF Inv1, DocInv, SaleInv
<1>3. ASSUME NEW u \in Txs PROVE TxInv(u)'
  <2>1. CASE u # t
    <3>1. tx'[u] = tx[u] /\ KeptBut(u)
      BY <1>1, <2>1 DEF KeptBut
    <3> QED BY <1>1, <3>1, SameDocIfUnchanged, OtherKeeps, DocParts DEF Inv1
  <2> QED BY <2>1
<1>4. ASSUME NEW v \in Txs, NEW u \in Txs \ {v} PROVE ApartInv(v, u)'
  <2>1. CASE v = t
    BY <2>1
  <2>2. CASE u = t
    <3>1. ApartInv(t, v)' /\ PhaseInv(v)'
      BY <1>3, <2>2 DEF TxInv
    <3> QED BY <2>2, <3>1, ApartTurned
  <2>3. CASE v # t /\ u # t
    <3>1. ApartInv(v, u)
      BY DocParts DEF Inv1
    <3>2. tx'[u] = tx[u] /\ tx'[v] = tx[v]
      BY <1>1, <2>3
    <3> QED BY <3>1, <3>2 DEF ApartInv, HoldsItem, HoldsSale, Op
  <2> QED BY <2>1, <2>2, <2>3
<1>5. TypeInv'
  BY LocalTypes DEF Inv1
<1> QED BY <1>2, <1>3, <1>4, <1>5 DEF Inv1, DocInv, TxInv

LEMMA ApartSameRequest ==
  ASSUME NEW t \in Txs, NEW u \in Txs \ {t}, ApartInv(t, u), tx'[u] = tx[u],
         tx'[t].req = tx[t].req, DOMAIN tx'[t].held \cap DOMAIN tx[u].held = {},
         Op(t) = "refund" /\ tx[t].pc = "count" /\ tx'[t].pc # "count"
           => ~HoldsItem(u, tx[t].req.sale, tx[t].req.line),
         Op(t) = "void" /\ tx'[t].pc = "commit" => ~HoldsSale(u, tx[t].req.sale)
  PROVE  ApartInv(t, u)'
BY DEF ApartInv, HoldsItem, HoldsSale, Op

LEMMA ApartEnded ==
  ASSUME NEW t \in Txs, NEW u \in Txs, tx'[t] = Ended
  PROVE  ApartInv(t, u)' /\ TxInv(t)'
<1>1. /\ tx'[t].req.op = "none" /\ tx'[t].pc = "done" /\ DOMAIN tx'[t].held = {}
  BY NothingHeld DEF Ended, Idle, NoRequest
<1> QED BY <1>1 DEF ApartInv, TxInv, PhaseInv, SellInv, VoidInv, RefundInv, Op

LEMMA FailKeeps == ASSUME Inv1, NEW t \in Txs, Fail(t) PROVE Inv1'
BY FailEffect, ApartEnded, LocalKeeps DEF Inv1

(* createSale *)
LEMMA StepRequest ==
  ASSUME Inv1, NEW t \in Txs, Open(t)
  PROVE  /\ tx[t].req \in Requests /\ TxInv(t) /\ tx[t] \in Transactions
         /\ Op(t) \in {"sale", "void", "refund", "receive", "dispose"}
         /\ tx[t].pc \in {"load", "lock"} => Op(t) = "sale"
         /\ tx[t].pc = "mark" => Op(t) = "void"
         /\ tx[t].pc \in {"count", "post", "end"} => Op(t) = "refund"
         /\ tx[t].pc = "return" => Op(t) \in {"void", "refund"}
         /\ tx[t].pc = "commit" => Op(t) \in {"sale", "void", "receive", "dispose"}
         /\ \A u \in Txs \ {t} : ApartInv(t, u) /\ DOMAIN tx[t].held \cap DOMAIN tx[u].held = {}
<1>1. TxInv(t) /\ \A u \in Txs \ {t} : ApartInv(t, u)
  BY DocParts DEF Inv1
<1>2. tx[t] \in Transactions
  BY TxFields DEF Inv1
<1> QED BY <1>1, <1>2, OpenPhases DEF TxInv, ApartInv

LEMMA LoadKeeps == ASSUME Inv1, NEW t \in Txs, Load(t) PROVE Inv1'
<1>1. /\ Local(t) /\ tx[t].pc = "load"
      /\ tx'[t].req = tx[t].req /\ tx'[t].pc = "lock" /\ tx'[t].line = tx[t].line
      /\ tx'[t].held = tx[t].held /\ tx'[t].sold = tx[t].sold
  BY LoadEffect DEF Inv1
<1>2. /\ Op(t) = "sale" /\ TxInv(t) /\ tx[t].req \in Requests
      /\ \A u \in Txs \ {t} : ApartInv(t, u) /\ DOMAIN tx[t].held \cap DOMAIN tx[u].held = {}
  BY <1>1, StepRequest DEF Open
<1>3. sale' = sale /\ \A u \in Txs \ {t} : tx'[u] = tx[u]
  BY <1>1 DEF Local, Frame
<1>4. TxInv(t)'
  BY <1>1, <1>2, <1>3 DEF TxInv, PhaseInv, SellInv, VoidInv, RefundInv, Op, SoldLines
<1>5. \A u \in Txs \ {t} : ApartInv(t, u)'
  BY <1>1, <1>2, <1>3, ApartSameRequest
<1> QED BY <1>1, <1>4, <1>5, LocalKeeps

LEMMA LockLotKeeps == ASSUME Inv1, NEW t \in Txs, LockLot(t) PROVE Inv1'
<1>1. /\ Local(t) /\ tx[t].pc = "lock"
      /\ tx'[t].req = tx[t].req /\ tx'[t].pc = "lock" /\ tx'[t].line = tx[t].line
      /\ tx'[t].sold = tx[t].sold
      /\ DOMAIN tx'[t].held \subseteq DOMAIN tx[t].held \cup {Earliest(tx[t].todo)}
      /\ \A u \in Txs \ {t} : Earliest(tx[t].todo) \notin DOMAIN tx[u].held
  BY LockLotEffect DEF Inv1
<1>2. /\ Op(t) = "sale" /\ TxInv(t) /\ tx[t].req \in Requests
      /\ \A u \in Txs \ {t} : ApartInv(t, u) /\ DOMAIN tx[t].held \cap DOMAIN tx[u].held = {}
  BY <1>1, StepRequest DEF Open
<1>3. sale' = sale /\ \A u \in Txs \ {t} : tx'[u] = tx[u]
  BY <1>1 DEF Local, Frame
<1>4. TxInv(t)'
  BY <1>1, <1>2, <1>3 DEF TxInv, PhaseInv, SellInv, VoidInv, RefundInv, Op, SoldLines
<1>5. \A u \in Txs \ {t} : DOMAIN tx'[t].held \cap DOMAIN tx[u].held = {}
  BY <1>1, <1>2
<1>6. \A u \in Txs \ {t} : ApartInv(t, u)'
  BY <1>1, <1>2, <1>3, <1>5, ApartSameRequest
<1> QED BY <1>1, <1>4, <1>6, LocalKeeps

LEMMA DeductKeeps == ASSUME Inv1, NEW t \in Txs, Deduct(t) PROVE Inv1'
<1> DEFINE s == tx[t].req.sale
           b == Earliest(Selectable(t))
           line == [lot |-> b, qty |-> Want(t), refunded |-> 0]
           n == Len(tx[t].sold)
<1>0. TypeInv /\ TxInv(t)
  BY DocParts DEF Inv1
<1>1. /\ Local(t) /\ tx[t].pc = "lock"
      /\ tx'[t].req = tx[t].req /\ tx'[t].pc = "flip" /\ tx'[t].line = tx[t].line
      /\ DOMAIN tx'[t].held = DOMAIN tx[t].held \cup Selectable(t)
      /\ tx'[t].sold = Append(tx[t].sold, line)
      /\ b \in Selectable(t)
      /\ \A u \in Txs \ {t} : Selectable(t) \cap DOMAIN tx[u].held = {}
  BY <1>0, DeductEffect
<1>2. /\ Op(t) = "sale" /\ tx[t].req \in Requests
      /\ \A u \in Txs \ {t} : ApartInv(t, u) /\ DOMAIN tx[t].held \cap DOMAIN tx[u].held = {}
  BY <1>1, StepRequest DEF Open
<1>3. sale' = sale /\ \A u \in Txs \ {t} : tx'[u] = tx[u]
  BY <1>1 DEF Local, Frame
<1>4. SellInv(t)'
  <2>1. /\ sale[s].status = "none" /\ tx[t].line \in DOMAIN Cart[s] /\ tx[t].line \in Nat
        /\ n = tx[t].line - 1
        /\ \A i \in DOMAIN tx[t].sold :
             /\ tx[t].sold[i].qty = Cart[s][i].qty
             /\ tx[t].sold[i].refunded = 0
             /\ ProductOf[tx[t].sold[i].lot] = Cart[s][i].product
    BY <1>0, <1>1, <1>2, TxFields DEF TxInv, SellInv, SoldLines
  <2>2. ProductOf[b] = Cart[s][tx[t].line].product
    <3>1. ProductOf[b] = Product(t)
      BY <1>1, SelectableLots DEF LotsOf
    <3>2. Product(t) = Cart[s][tx[t].line].product
      BY <1>0, <1>1, <1>2, ProductTypes DEF Open
    <3> QED BY <3>1, <3>2
  <2>3. /\ line.qty = Cart[s][tx[t].line].qty /\ line.refunded = 0
        /\ ProductOf[line.lot] = Cart[s][tx[t].line].product
    BY <2>2 DEF Want
  <2>4. line \in Lines /\ tx[t].sold \in Seq(Lines)
    <3>1. b \in Lots /\ Want(t) \in Nat
      BY <1>0, <1>1, <1>2, SelectableLots, ProductTypes DEF Open
    <3> QED BY <1>0, <3>1, TxFields DEF Lines
  <2> HIDE DEF line
  <2>5. /\ Len(tx'[t].sold) = n + 1 /\ DOMAIN tx'[t].sold = 1..n + 1 /\ DOMAIN tx[t].sold = 1..n
        /\ tx'[t].sold[n + 1] = line /\ \A i \in 1..n : tx'[t].sold[i] = tx[t].sold[i]
    BY <1>1, <2>4
  <2>6. \A i \in DOMAIN tx'[t].sold :
             /\ tx'[t].sold[i].qty = Cart[s][i].qty
             /\ tx'[t].sold[i].refunded = 0
             /\ ProductOf[tx'[t].sold[i].lot] = Cart[s][i].product
    <3> TAKE i \in DOMAIN tx'[t].sold
    <3>1. CASE i \in 1..n
      BY <2>1, <2>5, <3>1
    <3>2. CASE i = n + 1
      <4>1. n + 1 = tx[t].line
        BY <2>1
      <4>2. i = tx[t].line /\ tx'[t].sold[i] = line
        BY <2>5, <3>2, <4>1
      <4> QED BY <2>3, <4>2
    <3>3. n \in Nat
      BY <2>4
    <3> QED BY <2>5, <3>1, <3>2, <3>3
  <2> HIDE DEF n, s
  <2>7. Len(tx'[t].sold) = tx'[t].line
    BY <1>1, <2>1, <2>5
  <2> QED BY <1>1, <1>3, <2>1, <2>6, <2>7 DEF SellInv, SoldLines, s
<1>5. TxInv(t)'
  BY <1>0, <1>1, <1>2, <1>4 DEF TxInv, PhaseInv, VoidInv, RefundInv, Op
<1>6. \A u \in Txs \ {t} : DOMAIN tx'[t].held \cap DOMAIN tx[u].held = {}
  BY <1>1, <1>2
<1>7. \A u \in Txs \ {t} : ApartInv(t, u)'
  BY <1>1, <1>2, <1>3, <1>6, ApartSameRequest
<1> QED BY <1>1, <1>5, <1>7, LocalKeeps

(* syncProductQuantity *)
LEMMA SyncStepKeeps ==
  ASSUME Inv1, NEW t \in Txs, Local(t), tx[t].pc \in {"flip", "sum"},
         tx'[t].req = tx[t].req, tx'[t].pc \in {"sum", "write"}, tx'[t].line = tx[t].line,
         DOMAIN tx[t].held \subseteq DOMAIN tx'[t].held,
         \A u \in Txs \ {t} : DOMAIN tx'[t].held \cap DOMAIN tx[u].held = {},
         tx'[t].sold = tx[t].sold
  PROVE  Inv1'
<1>1. TxInv(t) /\ tx[t].req \in Requests /\ Open(t) /\ \A u \in Txs \ {t} : ApartInv(t, u)
  BY StepRequest DEF Open
<1>2. sale' = sale /\ overlapped' = overlapped /\ \A u \in Txs \ {t} : tx'[u] = tx[u]
  BY DEF Local, Frame
<1>3. PhaseInv(t)'
  BY <1>1, OpenPhases DEF TxInv, PhaseInv, Op
<1>4. SellInv(t)'
  BY <1>1, <1>2 DEF TxInv, SellInv, Op, SoldLines
<1>5. VoidInv(t)'
  <2>1. RestoredLines(t)' = RestoredLines(t)
    BY DEF RestoredLines
  <2> QED BY <1>1, <1>2, <2>1 DEF TxInv, VoidInv, Op
<1>6. RefundInv(t)'
  BY <1>1, <1>2 DEF TxInv, RefundInv, Op, Left, LineOf
<1>7. \A u \in Txs \ {t} : ApartInv(t, u)'
  BY <1>1, <1>2, ApartSameRequest
<1> QED BY <1>3, <1>4, <1>5, <1>6, <1>7, LocalKeeps DEF TxInv

LEMMA FlipKeeps == ASSUME Inv1, NEW t \in Txs, FlipStatuses(t) PROVE Inv1'
<1>1. /\ Local(t) /\ tx[t].pc = "flip"
      /\ tx'[t].req = tx[t].req /\ tx'[t].pc = "sum" /\ tx'[t].line = tx[t].line
      /\ DOMAIN tx'[t].held = DOMAIN tx[t].held \cup Misfits(t)
      /\ \A u \in Txs \ {t} : Misfits(t) \cap DOMAIN tx[u].held = {}
      /\ tx'[t].sold = tx[t].sold
  BY FlipEffect DEF Inv1
<1>2. \A u \in Txs \ {t} : DOMAIN tx[t].held \cap DOMAIN tx[u].held = {}
  BY <1>1, StepRequest DEF Open
<1>3. \A u \in Txs \ {t} : DOMAIN tx'[t].held \cap DOMAIN tx[u].held = {}
  BY <1>1, <1>2
<1> QED BY <1>1, <1>3, SyncStepKeeps

LEMMA SumKeeps == ASSUME Inv1, NEW t \in Txs, SumLots(t) PROVE Inv1'
<1>1. /\ Local(t) /\ tx[t].pc = "sum"
      /\ tx'[t].req = tx[t].req /\ tx'[t].pc = "write" /\ tx'[t].line = tx[t].line
      /\ tx'[t].held = tx[t].held /\ tx'[t].sold = tx[t].sold
  BY DocParts, SumEffect DEF Inv1
<1>2. \A u \in Txs \ {t} : DOMAIN tx[t].held \cap DOMAIN tx[u].held = {}
  BY <1>1, StepRequest DEF Open
<1> QED BY <1>1, <1>2, SyncStepKeeps

LEMMA WriteKeeps == ASSUME Inv1, NEW t \in Txs, WriteOnHand(t) PROVE Inv1'
<1>0. TypeInv /\ TxInv(t)
  BY DocParts DEF Inv1
<1>1. /\ Local(t) /\ tx[t].pc = "write"
      /\ tx'[t].req = tx[t].req /\ tx'[t].pc = AfterLine(t)
      /\ tx'[t].line = IF LastLine(t) THEN tx[t].line ELSE tx[t].line + 1
      /\ tx'[t].held = tx[t].held /\ tx'[t].sold = tx[t].sold
  BY <1>0, WriteEffect
<1>2. /\ tx[t].req \in Requests /\ Open(t) /\ tx[t].line \in Nat \ {0}
      /\ \A u \in Txs \ {t} : ApartInv(t, u) /\ DOMAIN tx[t].held \cap DOMAIN tx[u].held = {}
  BY <1>0, <1>1, StepRequest, TxFields DEF Open
<1>3. sale' = sale /\ overlapped' = overlapped /\ \A u \in Txs \ {t} : tx'[u] = tx[u]
  BY <1>1 DEF Local, Frame
<1>4. CASE Op(t) = "sale"
  <2> DEFINE s == tx[t].req.sale
  <2>1. /\ LastLine(t) <=> tx[t].line = Len(Cart[s])
        /\ AfterLine(t) = IF LastLine(t) THEN "commit" ELSE "load"
    BY <1>4 DEF LastLine, AfterLine, Op
  <2>2. /\ sale[s].status = "none" /\ tx[t].line \in DOMAIN Cart[s]
        /\ Len(tx[t].sold) = tx[t].line
    BY <1>0, <1>1, <1>4 DEF TxInv, SellInv, SoldLines
  <2>3. s \in Sales /\ DOMAIN Cart[s] = 1..Len(Cart[s]) /\ Len(Cart[s]) \in Nat
    BY <1>2, <1>4, RequestTypes, SalesAssumption DEF Op
  <2>4. tx'[t].line \in DOMAIN Cart[s]
    BY <1>1, <1>2, <2>1, <2>2, <2>3
  <2>5. Len(tx'[t].sold) = SoldLines(t)'
    BY <1>1, <1>2, <2>1, <2>2 DEF SoldLines
  <2>6. SellInv(t)'
    BY <1>0, <1>1, <1>3, <1>4, <2>1, <2>2, <2>4, <2>5 DEF TxInv, SellInv, Op
  <2> QED BY <1>1, <1>2, <1>3, <1>4, <2>1, <2>6, ApartSameRequest, LocalKeeps
          DEF TxInv, PhaseInv, VoidInv, RefundInv, Op
<1>5. CASE Op(t) = "void"
  <2> DEFINE s == tx[t].req.sale
  <2>1. /\ LastLine(t) <=> tx[t].line = Len(sale[s].lines)
        /\ AfterLine(t) = IF LastLine(t) THEN "mark" ELSE "return"
    BY <1>5 DEF LastLine, AfterLine, Op
  <2>2. /\ tx[t].line \in DOMAIN sale[s].lines
        /\ \A i \in RestoredLines(t) : sale[s].lines[i].lot \in DOMAIN tx[t].held
        /\ RestoredLines(t) = 1..tx[t].line
    BY <1>0, <1>1, <1>5 DEF TxInv, VoidInv, RestoredLines
  <2>3. DOMAIN sale[s].lines = 1..Len(sale[s].lines) /\ Len(sale[s].lines) \in Nat
    BY <1>0, <1>2, <1>5, RequestTypes, SaleTypes DEF Op
  <2>4. tx'[t].line \in DOMAIN sale[s].lines
    BY <1>1, <1>2, <2>1, <2>2, <2>3
  <2>5. RestoredLines(t)' = RestoredLines(t)
    BY <1>1, <1>2, <2>1, <2>2 DEF RestoredLines
  <2>6. VoidInv(t)'
    BY <1>1, <1>3, <2>1, <2>2, <2>4, <2>5 DEF VoidInv, Op
  <2> QED BY <1>1, <1>2, <1>3, <1>5, <2>1, <2>6, ApartSameRequest, LocalKeeps
          DEF TxInv, PhaseInv, SellInv, RefundInv, Op
<1>6. CASE Op(t) = "refund"
  <2>1. AfterLine(t) = "post"
    BY <1>6 DEF AfterLine, Op
  <2>2. RefundInv(t)'
    BY <1>0, <1>1, <1>3, <1>6, <2>1 DEF TxInv, RefundInv, Op, Left, LineOf
  <2> QED BY <1>1, <1>2, <1>3, <1>6, <2>1, <2>2, ApartSameRequest, LocalKeeps
          DEF TxInv, PhaseInv, SellInv, VoidInv, Op
<1>7. CASE Op(t) \in {"receive", "dispose"}
  <2>1. AfterLine(t) = "commit"
    BY <1>7 DEF AfterLine, Op
  <2> QED BY <1>1, <1>2, <1>3, <1>7, <2>1, ApartSameRequest, LocalKeeps
          DEF TxInv, PhaseInv, SellInv, VoidInv, RefundInv, Op
<1> QED BY <1>2, <1>4, <1>5, <1>6, <1>7, StepRequest

(* voidSale and refundSale *)
LEMMA CountKeeps == ASSUME Inv1, NEW t \in Txs, CountRefund(t) PROVE Inv1'
<1>0. TypeInv /\ TxInv(t) /\ tx[t].pc = "count" /\ Op(t) = "refund" /\ tx[t].req \in Requests
  <2>1. tx[t].pc = "count"
    BY DEF CountRefund, Ready
  <2> QED BY <2>1, StepRequest DEF Inv1, Open
<1>1. CASE Fail(t)
  BY <1>1, FailKeeps
<1>2. CASE ~Fail(t)
  <2>1. Goto(t, "return") /\ Frame /\ tx[t].req.qty <= Left(tx[t].req)
    BY <1>2 DEF CountRefund, Frame, history
  <2>2. /\ Local(t)
        /\ tx'[t].req = tx[t].req /\ tx'[t].pc = "return" /\ tx'[t].line = tx[t].line
        /\ tx'[t].held = tx[t].held /\ tx'[t].sold = tx[t].sold
    BY <1>0, <2>1, GotoEffect DEF Phases
  <2>3. sale' = sale /\ overlapped' = overlapped /\ \A u \in Txs \ {t} : tx'[u] = tx[u]
    BY <2>2 DEF Local, Frame
  <2>4. TxInv(t)'
    BY <1>0, <2>1, <2>2, <2>3
       DEF TxInv, PhaseInv, SellInv, VoidInv, RefundInv, Op, Left, LineOf
  <2>5. \A u \in Txs \ {t} : ~HoldsItem(u, tx[t].req.sale, tx[t].req.line)
    BY <1>0 DEF CountRefund, Ready, Waits
  <2>6. \A u \in Txs \ {t} : ApartInv(t, u) /\ DOMAIN tx[t].held \cap DOMAIN tx[u].held = {}
    BY <1>0, StepRequest DEF Open
  <2>7. \A u \in Txs \ {t} : ApartInv(t, u)'
    BY <1>0, <2>2, <2>3, <2>5, <2>6, ApartSameRequest
  <2> QED BY <2>2, <2>4, <2>7, LocalKeeps
<1> QED BY <1>1, <1>2

LEMMA ReturnKeeps == ASSUME Inv1, NEW t \in Txs, ReturnLot(t) PROVE Inv1'
<1> DEFINE a == LineOf(t).lot
<1>0. TypeInv /\ TxInv(t)
  BY DocParts DEF Inv1
<1>1. /\ Local(t) /\ tx[t].pc = "return"
      /\ \A u \in Txs \ {t} : a \notin DOMAIN tx[u].held
      /\ tx'[t].req = tx[t].req /\ tx'[t].pc = "flip" /\ tx'[t].line = tx[t].line
      /\ DOMAIN tx'[t].held = DOMAIN tx[t].held \cup {a}
      /\ tx'[t].sold = tx[t].sold
  BY <1>0, ReturnEffect
<1>2. /\ Op(t) \in {"void", "refund"} /\ tx[t].req \in Requests /\ tx[t].line \in Nat \ {0}
      /\ \A u \in Txs \ {t} : ApartInv(t, u) /\ DOMAIN tx[t].held \cap DOMAIN tx[u].held = {}
  BY <1>0, <1>1, StepRequest, TxFields DEF Open
<1>3. sale' = sale /\ overlapped' = overlapped /\ \A u \in Txs \ {t} : tx'[u] = tx[u]
  BY <1>1 DEF Local, Frame
<1>4. TxInv(t)'
  <2>1. CASE Op(t) = "void"
    <3> DEFINE s == tx[t].req.sale
    <3>1. /\ tx[t].line \in DOMAIN sale[s].lines
          /\ \A i \in 1..tx[t].line - 1 : sale[s].lines[i].lot \in DOMAIN tx[t].held
      BY <1>0, <1>1, <2>1 DEF TxInv, VoidInv, RestoredLines
    <3>2. a = sale[s].lines[tx[t].line].lot
      BY <2>1 DEF LineOf, Op
    <3>3. \A i \in 1..tx[t].line : sale[s].lines[i].lot \in DOMAIN tx'[t].held
      <4> TAKE i \in 1..tx[t].line
      <4>1. i \in 1..tx[t].line - 1 \/ i = tx[t].line
        BY <1>2
      <4> HIDE DEF a
      <4> QED BY <1>1, <3>1, <3>2, <4>1
    <3>4. VoidInv(t)'
      BY <1>1, <1>3, <3>1, <3>3 DEF VoidInv, RestoredLines, Op
    <3> QED BY <1>1, <1>2, <2>1, <3>4 DEF TxInv, PhaseInv, SellInv, RefundInv, Op
  <2>2. CASE Op(t) = "refund"
    BY <1>0, <1>1, <1>2, <1>3, <2>2
       DEF TxInv, PhaseInv, SellInv, VoidInv, RefundInv, Op, Left, LineOf
  <2> QED BY <1>2, <2>1, <2>2
<1>5. \A u \in Txs \ {t} : DOMAIN tx'[t].held \cap DOMAIN tx[u].held = {}
  BY <1>1, <1>2
<1>6. \A u \in Txs \ {t} : ApartInv(t, u)'
  BY <1>1, <1>2, <1>3, <1>5, ApartSameRequest
<1> QED BY <1>1, <1>4, <1>6, LocalKeeps

LEMMA MarkKeeps == ASSUME Inv1, NEW t \in Txs, MarkVoid(t) PROVE Inv1'
<1>0. TypeInv /\ TxInv(t) /\ tx[t].pc = "mark" /\ Op(t) = "void" /\ tx[t].req \in Requests
  <2>1. tx[t].pc = "mark"
    BY DEF MarkVoid, Ready
  <2> QED BY <2>1, StepRequest DEF Inv1, Open
<1>1. CASE Fail(t)
  BY <1>1, FailKeeps
<1>2. CASE ~Fail(t)
  <2>1. Goto(t, "commit") /\ Frame /\ sale[tx[t].req.sale].status = "COMPLETED"
    BY <1>2 DEF MarkVoid, Frame, history
  <2>2. /\ Local(t)
        /\ tx'[t].req = tx[t].req /\ tx'[t].pc = "commit" /\ tx'[t].line = tx[t].line
        /\ tx'[t].held = tx[t].held /\ tx'[t].sold = tx[t].sold
    BY <1>0, <2>1, GotoEffect DEF Phases
  <2>3. sale' = sale /\ overlapped' = overlapped /\ \A u \in Txs \ {t} : tx'[u] = tx[u]
    BY <2>2 DEF Local, Frame
  <2>4. TxInv(t)'
    BY <1>0, <2>1, <2>2, <2>3
       DEF TxInv, PhaseInv, SellInv, VoidInv, RefundInv, Op, RestoredLines
  <2>5. \A u \in Txs \ {t} : ~HoldsSale(u, tx[t].req.sale)
    BY <1>0 DEF MarkVoid, Ready, Waits
  <2>6. \A u \in Txs \ {t} : ApartInv(t, u) /\ DOMAIN tx[t].held \cap DOMAIN tx[u].held = {}
    BY <1>0, StepRequest DEF Open
  <2>7. \A u \in Txs \ {t} : ApartInv(t, u)'
    BY <1>0, <2>2, <2>3, <2>5, <2>6, ApartSameRequest
  <2> QED BY <2>2, <2>4, <2>7, LocalKeeps
<1> QED BY <1>1, <1>2

LEMMA PostKeeps == ASSUME Inv1, NEW t \in Txs, PostRefund(t) PROVE Inv1'
<1>0. TypeInv /\ TxInv(t) /\ tx[t].pc = "post" /\ Op(t) = "refund" /\ tx[t].req \in Requests
  <2>1. tx[t].pc = "post"
    BY DEF PostRefund, Ready
  <2> QED BY <2>1, StepRequest DEF Inv1, Open
<1>1. Goto(t, "end") /\ Frame
  BY DEF PostRefund, Frame, history
<1>2. /\ Local(t)
      /\ tx'[t].req = tx[t].req /\ tx'[t].pc = "end" /\ tx'[t].line = tx[t].line
      /\ tx'[t].held = tx[t].held /\ tx'[t].sold = tx[t].sold
  BY <1>0, <1>1, GotoEffect DEF Phases
<1>3. sale' = sale /\ overlapped' = overlapped /\ \A u \in Txs \ {t} : tx'[u] = tx[u]
  BY <1>2 DEF Local, Frame
<1>4. TxInv(t)'
  BY <1>0, <1>2, <1>3 DEF TxInv, PhaseInv, SellInv, VoidInv, RefundInv, Op, Left, LineOf
<1>5. \A u \in Txs \ {t} : ApartInv(t, u) /\ DOMAIN tx[t].held \cap DOMAIN tx[u].held = {}
  BY <1>0, StepRequest DEF Open
<1>6. \A u \in Txs \ {t} : ApartInv(t, u)'
  BY <1>0, <1>2, <1>3, <1>5, ApartSameRequest
<1> QED BY <1>2, <1>4, <1>6, LocalKeeps

(* The starts *)
LEMMA StartSaleKeeps ==
  ASSUME Inv1, NEW t \in Txs, NEW r \in Requests, StartSale(t, r) PROVE Inv1'
<1>0. TypeInv /\ PhaseInv(t) /\ \A u \in Txs \ {t} : ApartInv(t, u)
  BY DocParts DEF Inv1
<1>1. r.op = "sale" /\ sale[r.sale].status = "none" /\ \A u \in Txs : tx[u].req # r
  BY DEF StartSale
<1>2. /\ Local(t)
      /\ tx'[t].req = r /\ tx'[t].pc = "load" /\ tx'[t].line = 1
      /\ tx'[t].held = <<>> /\ tx'[t].sold = <<>>
  BY <1>0, BeginEffect DEF StartSale, Phases
<1>3. sale' = sale /\ overlapped' = overlapped /\ \A u \in Txs \ {t} : tx'[u] = tx[u]
  BY <1>2 DEF Local, Frame
<1>4. 1 \in DOMAIN Cart[r.sale]
  BY <1>1, RequestTypes, SalesAssumption
<1>5. Len(tx'[t].sold) = 0 /\ DOMAIN tx'[t].sold = {}
  BY <1>2, NothingHeld
<1>6. TxInv(t)'
  BY <1>1, <1>2, <1>3, <1>4, <1>5
     DEF TxInv, PhaseInv, SellInv, VoidInv, RefundInv, Op, SoldLines
<1>7. \A u \in Txs \ {t} : ApartInv(t, u)'
  BY <1>1, <1>2, <1>3, NothingHeld DEF ApartInv, Op
<1> QED BY <1>2, <1>6, <1>7, LocalKeeps

LEMMA ReadForVoidKeeps ==
  ASSUME Inv1, NEW t \in Txs, NEW r \in Requests, ReadForVoid(t, r) PROVE Inv1'
<1>0. TypeInv /\ PhaseInv(t)
  BY DocParts DEF Inv1
<1>1. r.op = "void" /\ sale[r.sale].status \in {"COMPLETED", "PARTIALLY_RETURNED"}
  BY DEF ReadForVoid
<1>2. /\ Local(t)
      /\ tx'[t].req = r /\ tx'[t].pc = "return" /\ tx'[t].line = 1 /\ tx'[t].held = <<>>
  BY <1>0, BeginEffect DEF ReadForVoid, Phases
<1>3. sale' = sale /\ overlapped' = overlapped /\ \A u \in Txs \ {t} : tx'[u] = tx[u]
  BY <1>2 DEF Local, Frame
<1>4. 1 \in DOMAIN sale[r.sale].lines
  <2>1. r.sale \in Sales
    BY <1>1, RequestTypes
  <2>2. sale[r.sale].lines # <<>> /\ sale[r.sale].lines \in Seq(Lines)
    BY <1>0, <1>1, <2>1, SaleTypes DEF Inv1, DocInv, SaleInv
  <2> QED BY <2>2
<1>5. RestoredLines(t)' = {}
  BY <1>2 DEF RestoredLines
<1>6. TxInv(t)'
  BY <1>1, <1>2, <1>3, <1>4, <1>5 DEF TxInv, PhaseInv, SellInv, VoidInv, RefundInv, Op
<1>7. \A u \in Txs \ {t} : ApartInv(t, u)'
  BY <1>1, <1>2, <1>3, NothingHeld DEF ApartInv, Op
<1> QED BY <1>2, <1>6, <1>7, LocalKeeps

LEMMA ReadForRefundKeeps ==
  ASSUME Inv1, NEW t \in Txs, NEW r \in Requests, ReadForRefund(t, r) PROVE Inv1'
<1>0. TypeInv /\ PhaseInv(t)
  BY DocParts DEF Inv1
<1>1. /\ r.op = "refund" /\ sale[r.sale].status \in {"COMPLETED", "PARTIALLY_RETURNED"}
      /\ r.line \in DOMAIN sale[r.sale].lines
  BY DEF ReadForRefund, Returnable
<1>2. /\ Local(t)
      /\ tx'[t].req = r /\ tx'[t].pc = "count" /\ tx'[t].line = 1 /\ tx'[t].held = <<>>
  BY <1>0, BeginEffect DEF ReadForRefund, Phases
<1>3. sale' = sale /\ overlapped' = overlapped /\ \A u \in Txs \ {t} : tx'[u] = tx[u]
  BY <1>2 DEF Local, Frame
<1>4. TxInv(t)'
  BY <1>1, <1>2, <1>3 DEF TxInv, PhaseInv, SellInv, VoidInv, RefundInv, Op
<1>5. \A u \in Txs \ {t} : ApartInv(t, u)'
  BY <1>1, <1>2, <1>3, NothingHeld DEF ApartInv, Op
<1> QED BY <1>2, <1>4, <1>5, LocalKeeps

LEMMA LotStartKeeps ==
  ASSUME Inv1, NEW t \in Txs, NEW r \in Requests, Receive(t, r) \/ Dispose(t, r) PROVE Inv1'
<1>0. TypeInv /\ PhaseInv(t)
  BY DocParts DEF Inv1
<1>1. /\ Local(t) /\ r.op \in {"receive", "dispose"}
      /\ \A u \in Txs : r.lot \notin DOMAIN tx[u].held
      /\ tx'[t].req = r /\ tx'[t].pc = "flip" /\ DOMAIN tx'[t].held = {r.lot}
  BY <1>0, ReceiveEffect, DisposeEffect
<1>2. \A u \in Txs \ {t} : tx'[u] = tx[u]
  BY <1>1 DEF Local
<1>3. TxInv(t)'
  BY <1>1 DEF TxInv, PhaseInv, SellInv, VoidInv, RefundInv, Op
<1>4. \A u \in Txs \ {t} : ApartInv(t, u)'
  BY <1>1, <1>2 DEF ApartInv, Op
<1> QED BY <1>1, <1>3, <1>4, LocalKeeps

(* The commits *)
LEMMA CommitKeeps ==
  ASSUME Inv1, NEW t \in Txs, TypeInv', tx'[t] = Ended,
         \A u \in Txs \ {t} : KeptBut(u) /\ (~Open(u) => tx'[u] = tx[u]) /\ SameDoc(u),
         \A s \in Sales : SaleInv(s)'
  PROVE  Inv1'
<1>1. ASSUME NEW u \in Txs PROVE TxInv(u)'
  <2>1. CASE u # t
    <3>1. KeptBut(u) /\ (~Open(u) => tx'[u] = tx[u]) /\ SameDoc(u) /\ TxInv(u) /\ TypeInv
      BY <2>1, DocParts DEF Inv1
    <3> QED BY <3>1, OtherKeeps
  <2>2. CASE u = t
    BY <2>2, ApartEnded
  <2> QED BY <2>1, <2>2
<1>2. ASSUME NEW v \in Txs, NEW u \in Txs \ {v} PROVE ApartInv(v, u)'
  <2>1. CASE v = t
    BY <2>1, ApartEnded
  <2>2. CASE u = t
    <3>1. ApartInv(t, v)' /\ PhaseInv(v)'
      BY <1>1, ApartEnded DEF TxInv
    <3> QED BY <2>2, <3>1, ApartTurned
  <2>3. CASE v # t /\ u # t
    <3>1. ApartInv(v, u)
      BY DocParts DEF Inv1
    <3>2. KeptBut(u) /\ KeptBut(v)
      BY <2>3
    <3> QED BY <3>1, <3>2 DEF ApartInv, HoldsItem, HoldsSale, Op, KeptBut
  <2> QED BY <2>1, <2>2, <2>3
<1> QED BY <1>1, <1>2 DEF Inv1, DocInv, TxInv

LEMMA PlainCommitKeeps ==
  ASSUME Inv1, NEW t \in Txs, TypeInv', tx'[t] = Ended, sale' = sale, overlapped' = overlapped,
         \A u \in Txs \ {t} : KeptBut(u) /\ (~Open(u) => tx'[u] = tx[u])
  PROVE  Inv1'
<1>1. \A u \in Txs \ {t} : SameDoc(u)
  BY SameDocIfUnchanged DEF Inv1
<1>2. \A s \in Sales : SaleInv(s)'
  BY DEF Inv1, DocInv, SaleInv
<1> QED BY <1>1, <1>2, CommitKeeps

LEMMA LotCommitKeeps ==
  ASSUME Inv1, NEW t \in Txs, CommitReceipt(t) \/ CommitDisposal(t) PROVE Inv1'
<1>1. CommitLots(t) /\ sale' = sale /\ overlapped' = overlapped /\ tx[t].pc = "commit"
      /\ Op(t) \in {"receive", "dispose"}
  BY DEF CommitReceipt, CommitDisposal, Ready, Op
<1>2. /\ lot' \in [Lots -> Rows] /\ onHand' \in [Products -> Nat] /\ stale' \subseteq Products
      /\ tx' \in [Txs -> Transactions] /\ tx'[t] = Ended
      /\ \A u \in Txs \ {t} : KeptBut(u) /\ (~Open(u) => tx'[u] = tx[u])
  BY <1>1, CommitEffect DEF Inv1
<1>3. tx[t].req.qty \in Nat /\ tx[t].req.lot \in Lots
  BY <1>1, StepRequest, RequestTypes DEF Open, Op
<1>4. received' \in [Lots -> Nat] /\ disposed' \in [Lots -> Nat]
  <2>1. received \in [Lots -> Nat] /\ disposed \in [Lots -> Nat]
    BY DEF Inv1, TypeInv
  <2>2. CASE CommitReceipt(t)
    BY <1>3, <2>1, <2>2 DEF CommitReceipt
  <2>3. CASE CommitDisposal(t)
    BY <1>3, <2>1, <2>3 DEF CommitDisposal
  <2> QED BY <2>2, <2>3
<1>5. TypeInv'
  BY <1>1, <1>2, <1>4 DEF Inv1, TypeInv
<1> QED BY <1>1, <1>2, <1>5, PlainCommitKeeps

LEMMA QuarantineKeeps ==
  ASSUME Inv1, NEW t \in Txs, NEW r \in Requests, Quarantine(t, r) PROVE Inv1'
<1>1. /\ lot' \in [Lots -> Rows] /\ onHand' = onHand /\ stale' \subseteq Products
      /\ tx' \in [Txs -> Transactions] /\ tx'[t] = Ended
      /\ \A u \in Txs \ {t} : KeptBut(u) /\ (~Open(u) => tx'[u] = tx[u])
      /\ sale' = sale /\ received' = received /\ disposed' = disposed
      /\ overlapped' = overlapped
  BY QuarantineEffect, DocParts DEF Inv1
<1>2. TypeInv'
  BY <1>1 DEF Inv1, TypeInv
<1> QED BY <1>1, <1>2, PlainCommitKeeps

LEMMA CommitSaleKeeps ==
  ASSUME Inv1, NEW t \in Txs, CommitSale(t)
  PROVE  Inv1' /\ \A u \in Txs \ {t} : SameDoc(u)
<1> DEFINE s == tx[t].req.sale
           new == [status |-> "COMPLETED", lines |-> tx[t].sold]
<1>1. /\ CommitLots(t) /\ overlapped' = overlapped /\ tx[t].pc = "commit" /\ Op(t) = "sale"
      /\ received' = received /\ disposed' = disposed
      /\ sale' = [sale EXCEPT ![s] = new]
  BY DEF CommitSale, Ready, Op
<1>2. /\ lot' \in [Lots -> Rows] /\ onHand' \in [Products -> Nat] /\ stale' \subseteq Products
      /\ tx' \in [Txs -> Transactions] /\ tx'[t] = Ended
      /\ \A u \in Txs \ {t} : KeptBut(u) /\ (~Open(u) => tx'[u] = tx[u])
  BY <1>1, CommitEffect DEF Inv1
<1>3. /\ tx[t].req \in Requests /\ TxInv(t) /\ s \in Sales
      /\ \A u \in Txs \ {t} : ApartInv(t, u)
  BY <1>1, StepRequest, RequestTypes DEF Open, Op
<1>4. tx[t].sold \in Seq(Lines) /\ sale \in [Sales -> SaleRecords]
  BY TxFields DEF Inv1, TypeInv
<1>5. /\ sale[s].status = "none" /\ sale[s].lines = <<>>
      /\ tx[t].line \in DOMAIN Cart[s] /\ tx[t].line = Len(Cart[s])
      /\ Len(tx[t].sold) = tx[t].line
      /\ \A i \in DOMAIN tx[t].sold :
           tx[t].sold[i].qty = Cart[s][i].qty /\ tx[t].sold[i].refunded = 0
  BY <1>1, <1>3 DEF TxInv, SellInv, SoldLines, Inv1, DocInv, SaleInv
<1>6. new \in SaleRecords /\ new.status = "COMPLETED" /\ new.lines = tx[t].sold
  BY <1>4 DEF SaleRecords, SaleStatuses
<1>7. sale' \in [Sales -> SaleRecords] /\ sale'[s] = new
      /\ \A v \in Sales \ {s} : sale'[v] = sale[v]
  BY <1>1, <1>3, <1>4, <1>6
<1> HIDE DEF new
<1>8. TypeInv'
  BY <1>1, <1>2, <1>7 DEF Inv1, TypeInv
<1>9. \A i \in DOMAIN tx[t].sold : tx[t].sold[i].qty > 0 /\ tx[t].sold[i].refunded = 0
  <2>1. Cart[s] \in Seq([product : Products, qty : Nat \ {0}])
    BY <1>3, SalesAssumption
  <2>2. DOMAIN tx[t].sold = 1..Len(tx[t].sold) /\ DOMAIN Cart[s] = 1..Len(Cart[s])
    BY <1>4, <2>1
  <2>3. \A i \in DOMAIN Cart[s] : Cart[s][i].qty \in Nat \ {0}
    BY <1>3, CartTypes
  <2> QED BY <1>5, <2>2, <2>3
<1>10. \A i \in DOMAIN tx[t].sold : tx[t].sold[i].qty \in Nat
  <2>1. \A i \in DOMAIN tx[t].sold : tx[t].sold[i] \in Lines
    BY <1>4, SeqElement
  <2> QED BY <2>1 DEF Lines
<1>11. tx[t].sold # <<>>
  <2>1. tx[t].line \in Nat \ {0}
    BY TxFields DEF Inv1
  <2> QED BY <1>4, <1>5, <2>1, NothingHeld
<1>12. ASSUME NEW v \in Sales PROVE SaleInv(v)'
  <2>1. CASE v = s
    <3>1. sale'[v].status = "COMPLETED" /\ sale'[v].lines = tx[t].sold
      BY <1>6, <1>7, <2>1
    <3>2. ~FullyRefunded(tx[t].sold)
      <4>1. 1 \in DOMAIN tx[t].sold
        BY <1>4, <1>11
      <4> QED BY <1>9, <1>10, <4>1 DEF FullyRefunded
    <3>3. \A i \in DOMAIN tx[t].sold : tx[t].sold[i].refunded <= tx[t].sold[i].qty
      BY <1>9, <1>10
    <3> QED BY <1>9, <1>11, <3>1, <3>2, <3>3 DEF SaleInv
  <2>2. CASE v # s
    BY <1>1, <1>7, <2>2 DEF Inv1, DocInv, SaleInv
  <2> QED BY <2>1, <2>2
<1>13. ASSUME NEW u \in Txs \ {t} PROVE SameDoc(u)
  <2>1. SellInv(u) /\ VoidInv(u) /\ RefundInv(u) /\ PhaseInv(u) /\ ApartInv(t, u)
    BY <1>3, DocParts DEF Inv1
  <2>2. Op(u) \in {"sale", "void", "refund"} => tx[u].req \in Requests /\ tx[u].req.sale \in Sales
    <3>1. Op(u) \in {"sale", "void", "refund"} => Open(u)
      BY <2>1 DEF PhaseInv, Open, Op, Idle, Ended, NoRequest
    <3> QED BY <3>1, StepRequest, RequestTypes DEF Op
  <2>3. Op(u) = "sale" => tx[u].req.sale # s
    <3>1. Op(u) = "sale" => tx[u].req # tx[t].req
      BY <1>1, <2>1 DEF ApartInv
    <3>2. Op(u) = "sale" /\ tx[u].req.sale = s => tx[u].req = tx[t].req
      BY <1>1, <1>3, <2>2, RequestTypes DEF Op
    <3> QED BY <3>1, <3>2
  <2>4. Op(u) \in {"void", "refund"} => tx[u].req.sale # s
    BY <1>5, <2>1, NothingHeld DEF VoidInv, RefundInv
  <2>5. Op(u) \in {"sale", "void", "refund"} => sale'[tx[u].req.sale] = sale[tx[u].req.sale]
    BY <1>7, <2>2, <2>3, <2>4
  <2> QED BY <1>1, <2>1, <2>5 DEF SameDoc, SellInv, VoidInv, RefundInv
<1> QED BY <1>2, <1>8, <1>12, <1>13, CommitKeeps

LEMMA CommitVoidKeeps ==
  ASSUME Inv1, NEW t \in Txs, CommitVoid(t)
  PROVE  Inv1' /\ \A u \in Txs \ {t} : SameDoc(u)
<1> DEFINE s == tx[t].req.sale
           new == [sale[s] EXCEPT !.status = "VOID"]
<1>1. /\ CommitLots(t) /\ tx[t].pc = "commit" /\ Op(t) = "void"
      /\ received' = received /\ disposed' = disposed
      /\ sale' = [sale EXCEPT ![s] = new]
      /\ overlapped' = overlapped \cup {v \in {s} : Refunding(v)}
  BY DEF CommitVoid, Ready, Op, Inv1, TypeInv
<1>2. /\ lot' \in [Lots -> Rows] /\ onHand' \in [Products -> Nat] /\ stale' \subseteq Products
      /\ tx' \in [Txs -> Transactions] /\ tx'[t] = Ended
      /\ \A u \in Txs \ {t} : KeptBut(u) /\ (~Open(u) => tx'[u] = tx[u])
  BY <1>1, CommitEffect DEF Inv1
<1>3. /\ tx[t].req \in Requests /\ TxInv(t) /\ s \in Sales
      /\ \A u \in Txs \ {t} : ApartInv(t, u)
  BY <1>1, StepRequest, RequestTypes DEF Open, Op
<1>4. sale[s] \in SaleRecords /\ sale \in [Sales -> SaleRecords] /\ overlapped \subseteq Sales
  BY <1>3, SaleTypes DEF Inv1, TypeInv
<1>5. sale[s].status = "COMPLETED"
  BY <1>1, <1>3 DEF TxInv, VoidInv
<1>6. new \in SaleRecords /\ new.status = "VOID" /\ new.lines = sale[s].lines
  BY <1>4 DEF SaleRecords, SaleStatuses
<1>7. sale' \in [Sales -> SaleRecords] /\ sale'[s] = new
      /\ \A v \in Sales \ {s} : sale'[v] = sale[v]
  BY <1>1, <1>3, <1>4, <1>6
<1> HIDE DEF new
<1>8. overlapped \subseteq overlapped' /\ overlapped' \subseteq Sales
  BY <1>1, <1>3, <1>4
<1>9. TypeInv'
  BY <1>1, <1>2, <1>7, <1>8 DEF Inv1, TypeInv
<1>10. ASSUME NEW v \in Sales PROVE SaleInv(v)'
  <2>0. SaleInv(v)
    BY DEF Inv1, DocInv
  <2>1. CASE v = s
    <3>1. sale'[v].status = "VOID" /\ sale'[v].lines = sale[v].lines /\ sale[v].status = "COMPLETED"
      BY <1>5, <1>6, <1>7, <2>1
    <3> QED BY <2>0, <3>1 DEF SaleInv
  <2>2. CASE v # s
    BY <1>7, <1>8, <2>0, <2>2 DEF SaleInv
  <2> QED BY <2>1, <2>2
<1>11. ASSUME NEW u \in Txs \ {t} PROVE SameDoc(u)
  <2>1. SellInv(u) /\ VoidInv(u) /\ RefundInv(u) /\ PhaseInv(u) /\ ApartInv(t, u)
    BY <1>3, DocParts DEF Inv1
  <2>2. Op(u) \in {"sale", "void", "refund"} => Open(u) /\ tx[u].req.sale \in Sales
    <3>1. Op(u) \in {"sale", "void", "refund"} => Open(u)
      BY <2>1 DEF PhaseInv, Open, Op, Idle, Ended, NoRequest
    <3> QED BY <3>1, StepRequest, RequestTypes DEF Op
  <2>3. Op(u) = "sale" => tx[u].req.sale # s
    BY <1>5, <2>1 DEF SellInv
  <2>4. Op(u) = "void" /\ tx[u].pc = "commit" => tx[u].req.sale # s
    BY <1>1, <2>1 DEF ApartInv, HoldsSale, Op
  <2>5. Op(u) = "refund" /\ tx[u].req.sale = s => s \in overlapped'
    BY <1>1, <2>2 DEF Refunding, Open, Op
  <2>6. Op(u) \in {"sale", "void", "refund"} =>
          /\ sale'[tx[u].req.sale].lines = sale[tx[u].req.sale].lines
          /\ tx[u].req.sale # s => sale'[tx[u].req.sale].status = sale[tx[u].req.sale].status
    BY <1>6, <1>7, <2>2
  <2> QED BY <1>8, <2>1, <2>3, <2>4, <2>5, <2>6 DEF SameDoc, SellInv, VoidInv, RefundInv
<1> QED BY <1>2, <1>9, <1>10, <1>11, CommitKeeps

LEMMA CommitRefundKeeps ==
  ASSUME Inv1, NEW t \in Txs, CommitRefund(t)
  PROVE  Inv1' /\ \A u \in Txs \ {t} : SameDoc(u)
<1> DEFINE r == tx[t].req
           s == r.sale
           lines == [sale[s].lines EXCEPT ![r.line].refunded = @ + r.qty]
           new == [status |-> Marked(sale[s].status, FullyRefunded(lines)), lines |-> lines]
           old == sale[s].lines
           l == old[r.line]
           x == [l EXCEPT !.refunded = @ + r.qty]
<1>1. /\ CommitLots(t) /\ tx[t].pc = "end" /\ overlapped' = overlapped
      /\ received' = received /\ disposed' = disposed
      /\ sale' = [sale EXCEPT ![s] = new]
  BY DEF CommitRefund, Ready, Inv1, TypeInv
<1>2. /\ lot' \in [Lots -> Rows] /\ onHand' \in [Products -> Nat] /\ stale' \subseteq Products
      /\ tx' \in [Txs -> Transactions] /\ tx'[t] = Ended
      /\ \A u \in Txs \ {t} : KeptBut(u) /\ (~Open(u) => tx'[u] = tx[u])
  BY <1>1, CommitEffect DEF Inv1
<1>3. /\ r \in Requests /\ TxInv(t) /\ Op(t) = "refund" /\ s \in Sales
      /\ r.line \in Nat /\ r.qty \in Nat \ {0}
      /\ \A u \in Txs \ {t} : ApartInv(t, u)
  BY <1>1, StepRequest, RequestTypes DEF Open, Op
<1>4. /\ sale[s].status \in SaleStatuses /\ old \in Seq(Lines)
      /\ sale \in [Sales -> SaleRecords] /\ DOMAIN old = 1..Len(old)
  BY <1>3, SaleTypes DEF Inv1, TypeInv
<1>5. r.line \in DOMAIN old /\ r.qty <= Left(r) /\ old # <<>>
  BY <1>1, <1>3, NothingHeld DEF TxInv, RefundInv
<1> HIDE DEF old
<1>6. l \in Lines /\ l.refunded \in Nat /\ l.qty \in Nat
  <2>1. l \in Lines
    BY <1>4, <1>5, SeqElement
  <2> HIDE DEF l
  <2> QED BY <2>1 DEF Lines
<1> HIDE DEF l
<1>7. x \in Lines /\ x.lot = l.lot /\ x.qty = l.qty /\ x.refunded = l.refunded + r.qty
  BY <1>3, <1>6 DEF Lines
<1>8. lines = [old EXCEPT ![r.line] = x]
  BY <1>4, <1>5 DEF old, l
<1> HIDE DEF x, lines
<1>9. /\ lines \in Seq(Lines) /\ Len(lines) = Len(old) /\ DOMAIN lines = DOMAIN old
      /\ lines[r.line] = x /\ \A i \in DOMAIN old \ {r.line} : lines[i] = old[i]
  BY <1>4, <1>5, <1>7, <1>8
<1>10. lines # <<>>
  <2>1. r.line \in DOMAIN lines
    BY <1>5, <1>9
  <2> QED BY <2>1, NothingHeld
<1>11. new \in SaleRecords /\ new.status = Marked(sale[s].status, FullyRefunded(lines))
       /\ new.lines = lines
  BY <1>4, <1>9 DEF SaleRecords, Marked, SaleStatuses
<1> HIDE DEF new
<1>12. sale' \in [Sales -> SaleRecords] /\ sale'[s] = new
       /\ \A v \in Sales \ {s} : sale'[v] = sale[v]
  BY <1>1, <1>3, <1>4, <1>11
<1>13. TypeInv'
  BY <1>1, <1>2, <1>12 DEF Inv1, TypeInv
<1>14. x.refunded <= x.qty /\ x.refunded > 0
  <2>1. r.qty <= l.qty - l.refunded
    BY <1>5 DEF Left, l, old
  <2> QED BY <1>3, <1>6, <1>7, <2>1
<1>15. ASSUME NEW v \in Sales, v = s PROVE SaleInv(v)'
  <2>1. /\ sale'[s].status = Marked(sale[s].status, FullyRefunded(lines))
        /\ sale'[s].lines = lines
    BY <1>11, <1>12
  <2>2. SaleInv(s)
    BY <1>3 DEF Inv1, DocInv
  <2>3. sale[s].status # "none" /\ (sale[s].status = "VOID" => s \in overlapped)
    BY <1>3, <1>5, <2>2 DEF TxInv, RefundInv, SaleInv, Op, old
  <2>4. \A i \in DOMAIN lines : lines[i].qty > 0 /\ lines[i].refunded <= lines[i].qty
    <3>1. \A i \in DOMAIN old : old[i].qty > 0 /\ old[i].refunded <= old[i].qty
      BY <2>2 DEF SaleInv, old
    <3> QED BY <1>5, <1>7, <1>9, <1>14, <3>1 DEF l
  <2>5. sale'[s].status # "COMPLETED" /\ sale'[s].status # "none"
    BY <2>1, <2>3 DEF Marked
  <2>6. sale'[s].status = "VOID" => sale[s].status = "VOID"
    BY <2>1 DEF Marked
  <2>7. FullyRefunded(lines) => sale'[s].status \in {"VOIDED_BY_RETURN", "VOID"}
    BY <1>4, <2>1, <2>3 DEF Marked, SaleStatuses
  <2>8. sale'[v].status = "none" <=> sale'[v].lines = <<>>
    BY <1>10, <1>15, <2>1, <2>5
  <2>9. \A i \in DOMAIN sale'[v].lines :
          /\ sale'[v].lines[i].qty > 0 /\ sale'[v].lines[i].refunded <= sale'[v].lines[i].qty
          /\ sale'[v].status = "COMPLETED" => sale'[v].lines[i].refunded = 0
          /\ sale'[v].status = "VOID" /\ sale'[v].lines[i].refunded > 0 => v \in overlapped'
    BY <1>1, <1>15, <2>1, <2>3, <2>4, <2>5, <2>6
  <2>10. sale'[v].lines # <<>> /\ FullyRefunded(sale'[v].lines)
           => sale'[v].status \in {"VOIDED_BY_RETURN", "VOID"}
    BY <1>15, <2>1, <2>7
  <2> QED BY <2>8, <2>9, <2>10 DEF SaleInv
<1>16. ASSUME NEW v \in Sales PROVE SaleInv(v)'
  <2>1. CASE v = s
    BY <1>15, <2>1
  <2>2. CASE v # s
    <3>1. sale'[v] = sale[v] /\ SaleInv(v)
      BY <1>12, <2>2 DEF Inv1, DocInv
    <3> QED BY <1>1, <3>1 DEF SaleInv
  <2> QED BY <2>1, <2>2
<1>17. ASSUME NEW u \in Txs \ {t} PROVE SameDoc(u)
  <2>1. SellInv(u) /\ VoidInv(u) /\ RefundInv(u) /\ PhaseInv(u) /\ ApartInv(t, u)
    BY <1>3, DocParts DEF Inv1
  <2>2. Op(u) \in {"sale", "void", "refund"} => Open(u) /\ tx[u].req.sale \in Sales
    <3>1. Op(u) \in {"sale", "void", "refund"} => Open(u)
      BY <2>1 DEF PhaseInv, Open, Op, Idle, Ended, NoRequest
    <3> QED BY <3>1, StepRequest, RequestTypes DEF Op
  <2>3. CASE Op(u) \notin {"sale", "void", "refund"}
    BY <2>3 DEF SameDoc
  <2>4. CASE Op(u) \in {"sale", "void", "refund"} /\ tx[u].req.sale # s
    <3>1. sale'[tx[u].req.sale] = sale[tx[u].req.sale]
      BY <1>12, <2>2, <2>4
    <3> QED BY <1>1, <2>1, <3>1 DEF SameDoc, SellInv, VoidInv, RefundInv
  <2>5. CASE Op(u) \in {"sale", "void", "refund"} /\ tx[u].req.sale = s
    <3>1. Op(u) # "sale"
      BY <1>3, <1>5, <2>1, <2>5 DEF SellInv, Inv1, DocInv, SaleInv, old
    <3>2. ~(Op(u) = "void" /\ tx[u].pc = "commit")
      <4>1. ~HoldsSale(u, s)
        BY DEF CommitRefund, Ready, Waits
      <4> QED BY <2>5, <4>1 DEF HoldsSale, Op
    <3>3. Op(u) = "refund" /\ tx[u].pc # "count" => tx[u].req.line # r.line
      <4>1. ~HoldsItem(u, s, r.line)
        BY <1>1, <1>3, <2>1 DEF ApartInv
      <4> QED BY <2>2, <2>5, <4>1 DEF HoldsItem, Op, Open
    <3>4. /\ sale'[s].lines = lines /\ DOMAIN lines = DOMAIN old /\ Len(lines) = Len(old)
          /\ \A i \in DOMAIN old : lines[i].lot = old[i].lot /\ lines[i].qty = old[i].qty
          /\ \A i \in DOMAIN old \ {r.line} : lines[i] = old[i]
      BY <1>5, <1>7, <1>9, <1>11, <1>12 DEF l
    <3>5. Op(u) = "refund" => tx[u].req.line \in DOMAIN old
      BY <2>1, <2>5 DEF RefundInv, old
    <3>6. sale'[s].status = "VOID" => s \in overlapped
      <4>1. sale'[s].status = "VOID" => sale[s].status = "VOID"
        BY <1>11, <1>12 DEF Marked
      <4> QED BY <1>3, <4>1 DEF TxInv, RefundInv
    <3> HIDE DEF s, r
    <3> QED BY <1>1, <2>5, <3>1, <3>2, <3>3, <3>4, <3>5, <3>6 DEF SameDoc, old
  <2> QED BY <2>3, <2>4, <2>5
<1> QED BY <1>2, <1>13, <1>16, <1>17, CommitKeeps

LEMMA SameInv1 == ASSUME Inv1, UNCHANGED vars PROVE Inv1'
<1>1. /\ lot' = lot /\ onHand' = onHand /\ sale' = sale /\ tx' = tx /\ received' = received
      /\ disposed' = disposed /\ stale' = stale /\ overlapped' = overlapped
  BY DEF vars, history
<1>2. TypeInv'
  BY <1>1 DEF Inv1, TypeInv
<1>3. \A s \in Sales : SaleInv(s)'
  BY <1>1 DEF Inv1, DocInv, SaleInv
<1>4. ASSUME NEW t \in Txs PROVE TxInv(t)'
  BY <1>1, SameDocIfUnchanged, OtherKeeps, DocParts DEF Inv1, KeptBut
<1>5. \A t \in Txs : \A u \in Txs \ {t} : ApartInv(t, u)'
  BY <1>1 DEF Inv1, DocInv, ApartInv, HoldsItem, HoldsSale, Op
<1> QED BY <1>2, <1>3, <1>4, <1>5 DEF Inv1, DocInv, TxInv

LEMMA Inv1Step == ASSUME Inv1, Next PROVE Inv1'
<1>1. ASSUME NEW t \in Txs, Steps(t) PROVE Inv1'
  <2>1. Shortfall(t) \/ Break(t) => Fail(t)
    BY DEF Shortfall, Break
  <2> QED BY <1>1, <2>1, LoadKeeps, LockLotKeeps, DeductKeeps, CommitSaleKeeps, FlipKeeps,
             SumKeeps, WriteKeeps, CountKeeps, ReturnKeeps, MarkKeeps, CommitVoidKeeps,
             PostKeeps, CommitRefundKeeps, LotCommitKeeps, FailKeeps
          DEF Steps
<1>2. ASSUME NEW t \in Txs, NEW r \in Requests, Starts(t, r) PROVE Inv1'
  BY <1>2, StartSaleKeeps, ReadForVoidKeeps, ReadForRefundKeeps, LotStartKeeps, QuarantineKeeps
     DEF Starts
<1>3. UNCHANGED vars => Inv1'
  BY SameInv1
<1> QED BY <1>1, <1>2, <1>3 DEF Next, Rest

(***************************************************************************)
(* The initial states, and the theorems about types and documents.         *)
(***************************************************************************)
(* The sales at the start. *)
LEMMA PastTypes ==
  /\ Past \in [Sales -> SaleRecords]
  /\ \A s \in Sales : /\ Past[s].status \in {"none", "COMPLETED"}
                      /\ Past[s].status = "none" <=> Past[s].lines = <<>>
                      /\ \A i \in DOMAIN Past[s].lines :
                           /\ Past[s].lines[i].qty \in Nat \ {0}
                           /\ Past[s].lines[i].refunded = 0
                           /\ Past[s].lines[i].lot \in Lots
<1> DEFINE Whole == [lot : Lots, qty : Nat \ {0}, refunded : {0}]
<1>1. Past \in [Sales -> [status : {"none", "COMPLETED"}, lines : Seq(Whole)]]
  BY SalesAssumption
<1>2. ASSUME NEW s \in Sales
      PROVE  /\ Past[s] \in SaleRecords /\ Past[s].status \in {"none", "COMPLETED"}
             /\ \A i \in DOMAIN Past[s].lines :
                  /\ Past[s].lines[i].qty \in Nat \ {0}
                  /\ Past[s].lines[i].refunded = 0 /\ Past[s].lines[i].lot \in Lots
  <2> DEFINE q == Past[s].lines
  <2>1. Past[s] \in [status : {"none", "COMPLETED"}, lines : Seq(Whole)]
    BY <1>1
  <2>2. q \in Seq(Whole)
    BY <2>1
  <2> HIDE DEF Whole
  <2>3. \A i \in DOMAIN q : q[i] \in Whole
    BY <2>2, SeqElement
  <2> HIDE DEF q
  <2>4. \A i \in DOMAIN q : q[i] \in Lines
    BY <2>3 DEF Lines, Whole
  <2>5. DOMAIN q = 1..Len(q) /\ Len(q) \in Nat /\ q = [i \in 1..Len(q) |-> q[i]]
    BY <2>2
  <2>6. q \in [1..Len(q) -> Lines]
    BY <2>4, <2>5
  <2>7. q \in Seq(Lines)
    BY <2>5, <2>6
  <2>8. Past[s] \in SaleRecords
    BY <2>1, <2>7 DEF SaleRecords, SaleStatuses, q
  <2> QED BY <2>1, <2>3, <2>8 DEF q, Whole
<1>3. Past \in [Sales -> SaleRecords]
  BY <1>1, <1>2
<1> QED BY <1>2, <1>3, SalesAssumption

LEMMA LinesFinite ==
  ASSUME NEW lines \in Seq(Lines)
  PROVE  /\ IsFiniteSet(DOMAIN lines) /\ DOMAIN lines = 1..Len(lines)
         /\ \A i \in DOMAIN lines : /\ lines[i] \in Lines /\ lines[i].lot \in Lots
                                   /\ lines[i].qty \in Nat /\ lines[i].refunded \in Nat
<1>1. DOMAIN lines = 1..Len(lines) /\ Len(lines) \in Nat
  OBVIOUS
<1>2. 1 \in Int /\ Len(lines) \in Int
  BY <1>1
<1>3. IsFiniteSet(1..Len(lines))
  BY <1>2, FS_Interval
<1>4. \A i \in DOMAIN lines : lines[i] \in Lines
  BY SeqElement
<1> QED BY <1>1, <1>3, <1>4 DEF Lines

LEMMA PastTakenTypes ==
  ASSUME NEW b \in Lots
  PROVE  /\ \A s \in Sales : TakenFrom(Past[s].lines, b) \in Nat
         /\ SumFunctionOnSet([s \in Sales |-> TakenFrom(Past[s].lines, b)], Sales) \in Nat
<1>1. ASSUME NEW s \in Sales PROVE TakenFrom(Past[s].lines, b) \in Nat
  <2> DEFINE lines == Past[s].lines
             f == [i \in DOMAIN lines |-> IF lines[i].lot = b THEN lines[i].qty ELSE 0]
  <2>1. lines \in Seq(Lines)
    BY PastTypes DEF SaleRecords
  <2> HIDE DEF lines
  <2>2. IsFiniteSet(DOMAIN lines) /\ \A i \in DOMAIN lines : f[i] \in Nat
    BY <2>1, LinesFinite
  <2> HIDE DEF f
  <2>3. SumFunctionOnSet(f, DOMAIN lines) \in Nat
    BY <2>2, SumNat
  <2> QED BY <2>3 DEF TakenFrom, f, lines
<1> DEFINE e == [s \in Sales |-> TakenFrom(Past[s].lines, b)]
<1>2. \A s \in Sales : e[s] \in Nat
  BY <1>1
<1> HIDE DEF e
<1>3. SumFunctionOnSet(e, Sales) \in Nat
  BY <1>2, SalesAssumption, SumNat
<1> QED BY <1>1, <1>3 DEF e

LEMMA OnlyIdle ==
  ASSUME NEW t, tx[t] = Idle
  PROVE  TxInv(t) /\ tx[t].held = <<>> /\ tx[t].hand = <<>> /\ tx[t].behind = {}
         /\ tx[t].pc = "idle" /\ Op(t) = "none"
<1>1. /\ tx[t].held = <<>> /\ tx[t].hand = <<>> /\ tx[t].behind = {} /\ tx[t].pc = "idle"
      /\ Op(t) = "none"
  BY DEF Idle, NoRequest, Op
<1> QED BY <1>1 DEF TxInv, PhaseInv, SellInv, VoidInv, RefundInv

LEMMA InitInv1 == ASSUME Init PROVE Inv1
<1>1. /\ lot = Opening /\ sale = Past /\ stale = {} /\ overlapped = {}
      /\ \A t \in Txs : tx[t] = Idle
      /\ lot \in [Lots -> Rows] /\ sale \in [Sales -> SaleRecords]
      /\ tx \in [Txs -> Transactions] /\ disposed \in [Lots -> Nat]
  BY PastTypes, LotsAssumption, IdleTypes DEF Init
<1>2. onHand \in [Products -> Nat]
  <2>1. ASSUME NEW p \in Products
        PROVE  Sum({b \in LotsOf(p) : Opening[b].status = "ACTIVE"}, Opening) \in Nat
    <3>1. {b \in LotsOf(p) : Opening[b].status = "ACTIVE"} \in SUBSET Lots
      BY DEF LotsOf
    <3> QED BY <3>1, SumTypes, LotsAssumption
  <2> QED BY <2>1 DEF Init
<1>3. received \in [Lots -> Nat]
  <2>1. ASSUME NEW b \in Lots
        PROVE  Opening[b].qty + SumFunctionOnSet(
                 [s \in Sales |-> TakenFrom(Past[s].lines, b)], Sales) \in Nat
    <3>1. Opening[b].qty \in Nat
      BY LotsAssumption DEF Rows
    <3> QED BY <3>1, PastTakenTypes
  <2> QED BY <2>1 DEF Init
<1>4. TypeInv
  BY <1>1, <1>2, <1>3 DEF TypeInv
<1>5. ASSUME NEW s \in Sales PROVE SaleInv(s)
  <2>1. sale[s].lines # <<>> => 1 \in DOMAIN sale[s].lines
    <3>1. sale[s].lines \in Seq(Lines)
      BY <1>4, SaleTypes
    <3> QED BY <3>1
  <2>2. sale[s].lines # <<>> => ~FullyRefunded(sale[s].lines)
    BY <1>1, <2>1, PastTypes DEF FullyRefunded
  <2> QED BY <1>1, <2>2, PastTypes DEF SaleInv
<1>6. \A t \in Txs : TxInv(t) /\ DOMAIN tx[t].held = {} /\ Op(t) = "none"
  BY <1>1, OnlyIdle, NothingHeld
<1>7. \A t \in Txs : \A u \in Txs \ {t} : ApartInv(t, u)
  BY <1>6 DEF ApartInv
<1> QED BY <1>4, <1>5, <1>6, <1>7 DEF Inv1, DocInv, TxInv

LEMMA Inv1Holds == Spec => []Inv1
<1>1. Init => Inv1
  BY InitInv1
<1>2. Inv1 /\ [Next]_vars => Inv1'
  <2>1. ASSUME Inv1, UNCHANGED vars PROVE Inv1'
    BY <2>1, SameInv1
  <2> QED BY <2>1, Inv1Step
<1> QED BY <1>1, <1>2, PTL DEF Spec

LEMMA TypeFollows == ASSUME Inv1 PROVE TypeOK
<1>1. TypeInv
  BY DEF Inv1
<1>2. \A s \in Sales : sale[s].status \in SaleStatuses /\ sale[s].lines \in Seq(Lines)
  BY <1>1, SaleTypes
<1>3. ASSUME NEW t \in Txs
      PROVE  /\ tx[t].req \in Requests \cup {NoRequest}
             /\ DOMAIN tx[t].held \subseteq Lots
             /\ tx[t].held \in [DOMAIN tx[t].held -> Rows]
             /\ DOMAIN tx[t].hand \subseteq Products
             /\ tx[t].hand \in [DOMAIN tx[t].hand -> Nat]
  BY <1>1, TxFields
<1> QED BY <1>1, <1>2, <1>3 DEF TypeOK, TypeInv

(* In every reachable state the rows, the sales, the open transactions and the history *)
(* are what TypeOK says: no quantity of a lot goes below zero (decrementMasterRemaining- *)
(* Quantity), whatever sales, disposals and returns run at once.                       *)
THEOREM TypeCorrect == Spec => []TypeOK
BY Inv1Holds, TypeFollows, PTL

(* voidSale and refundSale both read the sale without a lock; the status test of the   *)
(* refund and that of the update of the void leave one way for goods to come back by   *)
(* both: the refund was open when the void committed.                                  *)
THEOREM RefundedVoids == Spec => []RefundedVoidWasOverlapped
<1>1. Inv1 => RefundedVoidWasOverlapped
  BY DEF Inv1, DocInv, SaleInv, RefundedVoidWasOverlapped
<1> QED BY <1>1, Inv1Holds, PTL

(* isSaleFullyRefunded sees committed refunds and those of its own transaction only;   *)
(* still the last refund of a sale marks it VOIDED_BY_RETURN, and incrementRefundedQty *)
(* lets no line come back twice.                                                       *)
THEOREM FullReturns == Spec => []FullyReturnedIsMarked
<1>1. Inv1 => FullyReturnedIsMarked
  BY DEF Inv1, DocInv, SaleInv, FullyReturnedIsMarked
<1> QED BY <1>1, Inv1Holds, PTL

(***************************************************************************)
(* The quantity on hand.                                                   *)
(***************************************************************************)
LEMMA OverrideAt ==
  ASSUME NEW f, NEW g, NEW b \in DOMAIN f
  PROVE  Override(f, g)[b] = IF b \in DOMAIN g THEN g[b] ELSE f[b]
BY DEF Override

LEMMA SeenNext ==
  ASSUME lot' \in [Lots -> Rows], NEW t, NEW b \in Lots
  PROVE  Seen(t)'[b] = IF b \in DOMAIN tx'[t].held THEN tx'[t].held[b] ELSE lot'[b]
<1>1. DOMAIN lot' = Lots
  OBVIOUS
<1> QED BY <1>1 DEF Seen, Override

LEMMA OnHandSame ==
  ASSUME NEW p, NEW f, NEW g, \A b \in LotsOf(p) : f[b] = g[b]
  PROVE  OnHand(p, f) = OnHand(p, g)
<1> DEFINE S == {b \in LotsOf(p) : f[b].status = "ACTIVE"}
<1>1. S = {b \in LotsOf(p) : g[b].status = "ACTIVE"}
  OBVIOUS
<1>2. [b \in S |-> f[b].qty] = [b \in S |-> g[b].qty]
  OBVIOUS
<1> HIDE DEF S
<1>3. Sum(S, f) = Sum(S, g)
  BY <1>2 DEF Sum
<1> QED BY <1>1, <1>3 DEF OnHand, S

(* The product of a transaction stays, while its line does. *)
LEMMA SameProduct ==
  ASSUME NEW t, sale' = sale, tx'[t].req = tx[t].req, tx'[t].line = tx[t].line
  PROVE  Product(t)' = Product(t)
BY DEF Product, LineOf

LEMMA ProductKept ==
  ASSUME Inv1, NEW u \in Txs, Open(u), KeptBut(u), SameDoc(u)
  PROVE  Product(u)' = Product(u)
<1>1. TxInv(u) /\ Op(u) \in {"sale", "void", "refund", "receive", "dispose"}
  BY StepRequest
<1>2. CASE Op(u) \in {"sale", "receive", "dispose"}
  BY <1>2 DEF KeptBut, Product, Op
<1>3. CASE Op(u) = "void"
  <2>1. LineOf(u) = sale[tx[u].req.sale].lines[tx[u].line]
        /\ LineOf(u)' = sale'[tx[u].req.sale].lines[tx[u].line]
    BY <1>3 DEF LineOf, KeptBut, Op
  <2>2. tx[u].line \in DOMAIN sale[tx[u].req.sale].lines
    BY <1>1, <1>3 DEF TxInv, VoidInv
  <2>3. LineOf(u)'.lot = LineOf(u).lot
    BY <1>3, <2>1, <2>2 DEF SameDoc
  <2> QED BY <1>3, <2>3 DEF Product, KeptBut, Op
<1>4. CASE Op(u) = "refund"
  <2>1. LineOf(u) = sale[tx[u].req.sale].lines[tx[u].req.line]
        /\ LineOf(u)' = sale'[tx[u].req.sale].lines[tx[u].req.line]
    BY <1>4 DEF LineOf, KeptBut, Op
  <2>2. tx[u].req.line \in DOMAIN sale[tx[u].req.sale].lines
    BY <1>1, <1>4 DEF TxInv, RefundInv
  <2>3. LineOf(u)'.lot = LineOf(u).lot
    BY <1>4, <2>1, <2>2 DEF SameDoc
  <2> QED BY <1>4, <2>3 DEF Product, KeptBut, Op
<1> QED BY <1>1, <1>2, <1>3, <1>4

(* A transaction that has not begun, has begun with one product, or has ended. *)
LEMMA FreshSync ==
  ASSUME NEW t, tx'[t].hand = <<>>, tx'[t].pc # "write",
         \A b \in DOMAIN tx'[t].held : Syncing(t, ProductOf[b])'
  PROVE  SyncInv(t)'
BY NothingHeld DEF SyncInv

LEMMA EndedSync ==
  ASSUME NEW t, tx'[t] = Ended \/ tx'[t] = Idle
  PROVE  SyncInv(t)'
<1>1. tx'[t].hand = <<>> /\ tx'[t].pc # "write" /\ tx'[t].held = <<>>
  BY DEF Ended, Idle
<1> QED BY <1>1, FreshSync, NothingHeld

(* Another transaction commits what this one does not hold. *)
LEMMA OtherSync ==
  ASSUME Inv1, NEW u \in Txs, SyncInv(u), KeptBut(u), ~Open(u) => tx'[u] = tx[u], SameDoc(u),
         lot' \in [Lots -> Rows], \A b \in DOMAIN tx[u].held : lot'[b] = lot[b],
         tx[u].behind \subseteq tx'[u].behind,
         Open(u) => \A b \in Lots : lot'[b] # lot[b] => ProductOf[b] \in tx'[u].behind
  PROVE  SyncInv(u)'
<1>1. CASE ~Open(u)
  <2>1. tx[u] = Idle \/ tx[u] = Ended
    BY <1>1, DocParts DEF Inv1, PhaseInv, Open
  <2> QED BY <1>1, <2>1, EndedSync
<1>2. CASE Open(u)
  <2>1. Product(u)' = Product(u) /\ tx'[u].pc = tx[u].pc
    BY <1>2, ProductKept DEF KeptBut
  <2>2. \A p : Syncing(u, p)' <=> Syncing(u, p)
    BY <2>1 DEF Syncing
  <2>3. ASSUME NEW p, p \notin tx'[u].behind
        PROVE  OnHand(p, Seen(u)') = OnHand(p, Seen(u))
    <3>1. ASSUME NEW b \in LotsOf(p) PROVE Seen(u)'[b] = Seen(u)[b]
      <4>1. b \in Lots /\ ProductOf[b] = p /\ lot'[b] = lot[b]
        BY <1>2, <2>3 DEF LotsOf
      <4>2. Seen(u)'[b] = IF b \in DOMAIN tx'[u].held THEN tx'[u].held[b] ELSE lot'[b]
        BY <4>1, SeenNext
      <4>3. Seen(u)[b] = IF b \in DOMAIN tx[u].held THEN tx[u].held[b] ELSE lot[b]
        BY <4>1, SeenTypes DEF Inv1
      <4> QED BY <4>1, <4>2, <4>3 DEF KeptBut
    <3> HIDE DEF OnHand
    <3> QED BY <3>1, OnHandSame
  <2>4. \A b \in DOMAIN tx'[u].held : \/ tx'[u].held[b] = lot'[b]
                                      \/ ProductOf[b] \in DOMAIN tx'[u].hand
                                      \/ Syncing(u, ProductOf[b])'
    BY <2>2 DEF SyncInv, KeptBut
  <2>5. ASSUME NEW p \in DOMAIN tx'[u].hand \ tx'[u].behind
        PROVE  Syncing(u, p)' \/ tx'[u].hand[p] = OnHand(p, Seen(u)')
    <3>1. p \in DOMAIN tx[u].hand \ tx[u].behind /\ tx'[u].hand[p] = tx[u].hand[p]
      BY DEF KeptBut
    <3>2. Syncing(u, p) \/ tx[u].hand[p] = OnHand(p, Seen(u))
      BY <3>1 DEF SyncInv
    <3>3. OnHand(p, Seen(u)') = OnHand(p, Seen(u))
      BY <2>3
    <3> QED BY <2>2, <3>1, <3>2, <3>3
  <2>6. tx'[u].pc = "write" /\ Product(u)' \notin tx'[u].behind
          => tx'[u].total = OnHand(Product(u)', Seen(u)')
    <3>1. SUFFICES ASSUME tx'[u].pc = "write", Product(u)' \notin tx'[u].behind
                   PROVE  tx'[u].total = OnHand(Product(u)', Seen(u)')
      OBVIOUS
    <3>2. tx[u].total = OnHand(Product(u), Seen(u)) /\ tx'[u].total = tx[u].total
      BY <2>1, <3>1 DEF SyncInv, KeptBut
    <3>3. OnHand(Product(u), Seen(u)') = OnHand(Product(u), Seen(u))
      BY <2>1, <2>3, <3>1
    <3> QED BY <2>1, <3>2, <3>3
  <2>7. \A p : OnHand(p, Seen(u))' = OnHand(p, Seen(u)')
    BY DEF OnHand, Sum, LotsOf
  <2>8. OnHand(Product(u), Seen(u))' = OnHand(Product(u)', Seen(u)')
    BY DEF OnHand, Sum, LotsOf
  <2> HIDE DEF OnHand
  <2> QED BY <2>4, <2>5, <2>6, <2>7, <2>8 DEF SyncInv
<1> QED BY <1>1, <1>2

LEMMA LocalOnHand ==
  ASSUME Inv1, OnHandInv, NEW t \in Txs, Local(t), SyncInv(t)'
  PROVE  OnHandInv'
<1>1. lot' = lot /\ onHand' = onHand /\ stale' = stale /\ lot \in [Lots -> Rows]
  BY DEF Local, Frame, Inv1, TypeInv
<1>2. OnHandExcused'
  BY <1>1 DEF OnHandInv, OnHandExcused
<1>3. ASSUME NEW u \in Txs \ {t} PROVE SyncInv(u)'
  <2>1. tx'[u] = tx[u] /\ SyncInv(u) /\ KeptBut(u)
    BY DEF Local, OnHandInv, KeptBut
  <2>2. SameDoc(u)
    BY SameDocIfUnchanged DEF Local, Frame, Inv1
  <2> QED BY <1>1, <2>1, <2>2, OtherSync
<1> QED BY <1>2, <1>3 DEF OnHandInv

(* A step that changes no row a transaction sees, before or after its syncs. *)
LEMMA StillSync ==
  ASSUME Inv1, NEW t \in Txs, SyncInv(t), Local(t),
         tx[t].pc \notin {"flip", "sum", "write"}, tx'[t].pc \notin {"flip", "sum", "write"},
         \A b \in DOMAIN tx'[t].held : tx'[t].held[b] = Seen(t)[b],
         DOMAIN tx[t].held \subseteq DOMAIN tx'[t].held, DOMAIN tx'[t].held \subseteq Lots,
         tx'[t].hand = tx[t].hand, tx'[t].behind = tx[t].behind
  PROVE  SyncInv(t)'
<1>1. lot' = lot /\ lot' \in [Lots -> Rows]
  BY DEF Local, Frame, Inv1, TypeInv
<1>2. \A p : ~Syncing(t, p) /\ ~Syncing(t, p)'
  BY DEF Syncing
<1>3. \A b \in Lots : Seen(t)[b] = IF b \in DOMAIN tx[t].held THEN tx[t].held[b] ELSE lot[b]
  BY SeenTypes DEF Inv1
<1>4. ASSUME NEW p PROVE OnHand(p, Seen(t)') = OnHand(p, Seen(t))
  <2>1. ASSUME NEW b \in LotsOf(p) PROVE Seen(t)'[b] = Seen(t)[b]
    <3>1. b \in Lots
      BY DEF LotsOf
    <3>2. Seen(t)'[b] = IF b \in DOMAIN tx'[t].held THEN tx'[t].held[b] ELSE lot'[b]
      BY <1>1, <3>1, SeenNext
    <3> QED BY <1>1, <1>3, <3>1, <3>2
  <2> HIDE DEF OnHand
  <2> QED BY <2>1, OnHandSame
<1>5. \A b \in DOMAIN tx'[t].held : \/ tx'[t].held[b] = lot'[b]
                                    \/ ProductOf[b] \in DOMAIN tx'[t].hand
  BY <1>1, <1>2, <1>3 DEF SyncInv
<1>6. \A p \in DOMAIN tx'[t].hand \ tx'[t].behind : tx'[t].hand[p] = OnHand(p, Seen(t)')
  BY <1>2, <1>4 DEF SyncInv
<1>7. \A p : OnHand(p, Seen(t))' = OnHand(p, Seen(t)')
  BY DEF OnHand, Sum, LotsOf
<1> HIDE DEF OnHand
<1> QED BY <1>5, <1>6, <1>7 DEF SyncInv

(* A step that changes rows of the product of a line, on the way to its sync. *)
LEMMA RowsSync ==
  ASSUME Inv1, NEW t \in Txs, SyncInv(t), Local(t),
         NEW S, S \subseteq LotsOf(Product(t)),
         tx[t].pc \in {"lock", "flip", "return"}, tx'[t].pc \in {"flip", "sum"},
         tx'[t].req = tx[t].req, tx'[t].line = tx[t].line,
         DOMAIN tx'[t].held = DOMAIN tx[t].held \cup S,
         \A b \in DOMAIN tx[t].held \ S : tx'[t].held[b] = tx[t].held[b],
         tx'[t].hand = tx[t].hand, tx'[t].behind = tx[t].behind
  PROVE  SyncInv(t)'
<1>1. lot' = lot /\ lot' \in [Lots -> Rows] /\ sale' = sale
  BY DEF Local, Frame, Inv1, TypeInv
<1>2. Product(t)' = Product(t)
  BY <1>1, SameProduct
<1>3. \A p : (Syncing(t, p) => p = Product(t)) /\ (Syncing(t, p)' <=> p = Product(t))
  BY <1>2 DEF Syncing
<1>4. \A b \in S : ProductOf[b] = Product(t)
  BY DEF LotsOf
<1>5. ASSUME NEW p, p # Product(t) PROVE OnHand(p, Seen(t)') = OnHand(p, Seen(t))
  <2>1. ASSUME NEW b \in LotsOf(p) PROVE Seen(t)'[b] = Seen(t)[b]
    <3>1. b \in Lots /\ b \notin S
      BY <1>4, <1>5 DEF LotsOf
    <3>2. Seen(t)'[b] = IF b \in DOMAIN tx'[t].held THEN tx'[t].held[b] ELSE lot'[b]
      BY <1>1, <3>1, SeenNext
    <3>3. Seen(t)[b] = IF b \in DOMAIN tx[t].held THEN tx[t].held[b] ELSE lot[b]
      BY <3>1, SeenTypes DEF Inv1
    <3> QED BY <1>1, <3>1, <3>2, <3>3
  <2> HIDE DEF OnHand
  <2> QED BY <2>1, OnHandSame
<1>6. \A b \in DOMAIN tx'[t].held : \/ tx'[t].held[b] = lot'[b]
                                    \/ ProductOf[b] \in DOMAIN tx'[t].hand
                                    \/ Syncing(t, ProductOf[b])'
  BY <1>1, <1>3, <1>4 DEF SyncInv
<1>7. ASSUME NEW p \in DOMAIN tx'[t].hand \ tx'[t].behind
      PROVE  Syncing(t, p)' \/ tx'[t].hand[p] = OnHand(p, Seen(t)')
  BY <1>3, <1>5 DEF SyncInv
<1>8. tx'[t].pc # "write"
  OBVIOUS
<1>9. \A p : OnHand(p, Seen(t))' = OnHand(p, Seen(t)')
  BY DEF OnHand, Sum, LotsOf
<1> HIDE DEF OnHand
<1> QED BY <1>6, <1>7, <1>8, <1>9 DEF SyncInv

LEMMA LoadOnHand == ASSUME Inv1, OnHandInv, NEW t \in Txs, Load(t) PROVE OnHandInv'
<1>1. /\ Local(t) /\ tx[t].pc = "load" /\ tx'[t].pc = "lock" /\ tx'[t].held = tx[t].held
      /\ tx'[t].hand = tx[t].hand /\ tx'[t].behind = tx[t].behind
  BY LoadEffect DEF Inv1
<1>2. DOMAIN tx[t].held \subseteq Lots /\ \A b \in DOMAIN tx[t].held : tx[t].held[b] = Seen(t)[b]
  BY TxFields, SeenTypes DEF Inv1
<1>3. SyncInv(t)'
  BY <1>1, <1>2, StillSync DEF OnHandInv
<1> QED BY <1>1, <1>3, LocalOnHand

LEMMA LockLotOnHand == ASSUME Inv1, OnHandInv, NEW t \in Txs, LockLot(t) PROVE OnHandInv'
<1>1. /\ Local(t) /\ tx[t].pc = "lock" /\ tx'[t].pc = "lock"
      /\ DOMAIN tx[t].held \subseteq DOMAIN tx'[t].held
      /\ DOMAIN tx'[t].held \subseteq DOMAIN tx[t].held \cup {Earliest(tx[t].todo)}
      /\ Earliest(tx[t].todo) \in tx[t].todo
      /\ \A b \in DOMAIN tx'[t].held : tx'[t].held[b] = Seen(t)[b]
      /\ tx'[t].hand = tx[t].hand /\ tx'[t].behind = tx[t].behind
  BY LockLotEffect DEF Inv1
<1>2. DOMAIN tx'[t].held \subseteq Lots
  BY <1>1, TxFields DEF Inv1
<1>3. SyncInv(t)'
  BY <1>1, <1>2, StillSync DEF OnHandInv
<1> QED BY <1>1, <1>3, LocalOnHand

LEMMA GotoOnHand ==
  ASSUME Inv1, OnHandInv, NEW t \in Txs, NEW pc \in Phases \ {"flip", "sum", "write"},
         tx[t].pc \notin {"flip", "sum", "write"}, Goto(t, pc), Frame
  PROVE  OnHandInv'
<1>1. /\ Local(t) /\ tx'[t].pc = pc /\ tx'[t].held = tx[t].held
      /\ tx'[t].hand = tx[t].hand /\ tx'[t].behind = tx[t].behind
  BY GotoEffect DEF Inv1
<1>2. DOMAIN tx[t].held \subseteq Lots /\ \A b \in DOMAIN tx[t].held : tx[t].held[b] = Seen(t)[b]
  BY TxFields, SeenTypes DEF Inv1
<1>3. SyncInv(t)'
  BY <1>1, <1>2, StillSync DEF OnHandInv
<1> QED BY <1>1, <1>3, LocalOnHand

LEMMA RowsOnHand ==
  ASSUME Inv1, OnHandInv, NEW t \in Txs, Deduct(t) \/ FlipStatuses(t) \/ ReturnLot(t)
  PROVE  OnHandInv'
<1>0. SyncInv(t) /\ TypeInv /\ TxInv(t)
  BY DocParts DEF OnHandInv, Inv1
<1>1. CASE Deduct(t)
  <2>1. Selectable(t) \subseteq LotsOf(Product(t))
    BY SelectableLots
  <2>2. SyncInv(t)' /\ Local(t)
    BY <1>0, <1>1, <2>1, DeductEffect, RowsSync
  <2> QED BY <2>2, LocalOnHand
<1>2. CASE FlipStatuses(t)
  <2>1. SyncInv(t)' /\ Local(t)
    BY <1>0, <1>2, FlipEffect, RowsSync
  <2> QED BY <2>1, LocalOnHand
<1>3. CASE ReturnLot(t)
  <2>1. Local(t) /\ tx[t].pc = "return" /\ LineOf(t).lot \in Lots
    BY <1>0, <1>3, ReturnEffect
  <2>2. Open(t) /\ Op(t) \in {"void", "refund"}
    BY <2>1, StepRequest DEF Open
  <2>3. {LineOf(t).lot} \subseteq LotsOf(Product(t))
    BY <1>0, <2>1, <2>2, ProductTypes DEF LotsOf
  <2>4. /\ tx'[t].req = tx[t].req /\ tx'[t].pc = "flip" /\ tx'[t].line = tx[t].line
        /\ DOMAIN tx'[t].held = DOMAIN tx[t].held \cup {LineOf(t).lot}
        /\ \A b \in DOMAIN tx[t].held \ {LineOf(t).lot} : tx'[t].held[b] = tx[t].held[b]
        /\ tx'[t].hand = tx[t].hand /\ tx'[t].behind = tx[t].behind
    BY <1>0, <1>3, ReturnEffect
  <2>5. SyncInv(t)'
    BY <1>0, <2>1, <2>3, <2>4, RowsSync
  <2> QED BY <2>1, <2>5, LocalOnHand
<1> QED BY <1>1, <1>2, <1>3

LEMMA SumOnHand == ASSUME Inv1, OnHandInv, NEW t \in Txs, SumLots(t) PROVE OnHandInv'
<1>1. /\ Local(t) /\ tx[t].pc = "sum" /\ tx'[t].req = tx[t].req /\ tx'[t].pc = "write"
      /\ tx'[t].line = tx[t].line /\ tx'[t].held = tx[t].held /\ tx'[t].hand = tx[t].hand
      /\ tx'[t].total = OnHand(Product(t), Seen(t))
      /\ tx'[t].behind = tx[t].behind \ {Product(t)}
  BY SumEffect, DocParts DEF Inv1
<1>2. lot' = lot /\ sale' = sale
  BY <1>1 DEF Local, Frame
<1>3. Product(t)' = Product(t) /\ Seen(t)' = Seen(t)
  BY <1>1, <1>2, SameProduct DEF Seen
<1>4. \A p : (Syncing(t, p) <=> p = Product(t)) /\ (Syncing(t, p)' <=> p = Product(t))
  BY <1>1, <1>3 DEF Syncing
<1>5. \A p : OnHand(p, Seen(t))' = OnHand(p, Seen(t))
  BY <1>3 DEF OnHand, Sum, LotsOf
<1>6. OnHand(Product(t), Seen(t))' = OnHand(Product(t), Seen(t))
  BY <1>3 DEF OnHand, Sum, LotsOf
<1> HIDE DEF OnHand
<1>7. SyncInv(t)
  BY DEF OnHandInv
<1>8. SyncInv(t)'
  BY <1>1, <1>2, <1>4, <1>5, <1>6, <1>7 DEF SyncInv
<1> QED BY <1>1, <1>8, LocalOnHand

LEMMA WriteOnHandKept == ASSUME Inv1, OnHandInv, NEW t \in Txs, WriteOnHand(t) PROVE OnHandInv'
<1>0. TxInv(t) /\ TypeInv /\ SyncInv(t)
  BY DocParts DEF Inv1, OnHandInv
<1>1. /\ Local(t) /\ tx[t].pc = "write" /\ tx'[t].pc = AfterLine(t) /\ tx'[t].held = tx[t].held
      /\ DOMAIN tx'[t].hand = DOMAIN tx[t].hand \cup {Product(t)}
      /\ tx'[t].hand[Product(t)] = tx[t].total
      /\ \A p \in DOMAIN tx[t].hand \ {Product(t)} : tx'[t].hand[p] = tx[t].hand[p]
      /\ tx'[t].behind = tx[t].behind
  BY <1>0, WriteEffect
<1>2. tx'[t].pc \notin {"flip", "sum", "write"}
  BY <1>1 DEF AfterLine
<1>3. lot' = lot /\ Seen(t)' = Seen(t)
  BY <1>1 DEF Local, Frame, Seen
<1>4. \A p : (Syncing(t, p) <=> p = Product(t)) /\ ~Syncing(t, p)'
  BY <1>1, <1>2 DEF Syncing
<1>5. \A p : OnHand(p, Seen(t))' = OnHand(p, Seen(t))
  BY <1>3 DEF OnHand, Sum, LotsOf
<1> HIDE DEF OnHand
<1>6. \A p \in DOMAIN tx'[t].hand \ tx'[t].behind : tx'[t].hand[p] = OnHand(p, Seen(t))
  BY <1>0, <1>1, <1>4 DEF SyncInv
<1>7. \A b \in DOMAIN tx'[t].held : tx'[t].held[b] = lot'[b] \/ ProductOf[b] \in DOMAIN tx'[t].hand
  BY <1>0, <1>1, <1>3, <1>4 DEF SyncInv
<1>8. SyncInv(t)'
  BY <1>2, <1>5, <1>6, <1>7 DEF SyncInv
<1> QED BY <1>1, <1>8, LocalOnHand

(* The starts. *)
LEMMA StartOnHand ==
  ASSUME Inv1, OnHandInv, NEW t \in Txs, NEW r \in Requests,
         StartSale(t, r) \/ ReadForVoid(t, r) \/ ReadForRefund(t, r)
         \/ Receive(t, r) \/ Dispose(t, r)
  PROVE  OnHandInv'
<1>0. TypeInv /\ PhaseInv(t)
  BY DocParts DEF Inv1
<1>1. ASSUME NEW pc \in {"load", "return", "count"}, Begin(t, r, pc) PROVE OnHandInv'
  <2>1. pc \in Phases
    BY DEF Phases
  <2>2. Local(t) /\ tx'[t].pc = pc /\ tx'[t].held = <<>> /\ tx'[t].hand = <<>>
    BY <1>0, <1>1, <2>1, BeginEffect
  <2>3. SyncInv(t)'
    BY <2>2, FreshSync, NothingHeld
  <2> QED BY <2>2, <2>3, LocalOnHand
<1>2. StartSale(t, r) => Begin(t, r, "load")
  BY DEF StartSale
<1>3. ReadForVoid(t, r) => Begin(t, r, "return")
  BY DEF ReadForVoid
<1>4. ReadForRefund(t, r) => Begin(t, r, "count")
  BY DEF ReadForRefund
<1>5. CASE Receive(t, r) \/ Dispose(t, r)
  <2>1. /\ Local(t) /\ r.op \in {"receive", "dispose"} /\ tx'[t].req = r /\ tx'[t].pc = "flip"
        /\ DOMAIN tx'[t].held = {r.lot} /\ tx'[t].hand = <<>>
    BY <1>0, <1>5, ReceiveEffect, DisposeEffect
  <2>2. Syncing(t, ProductOf[r.lot])'
    BY <2>1 DEF Syncing, Product
  <2>3. \A b \in DOMAIN tx'[t].held : Syncing(t, ProductOf[b])'
    <3>1. ASSUME NEW b \in DOMAIN tx'[t].held PROVE Syncing(t, ProductOf[b])'
      <4>1. b = r.lot
        BY <2>1
      <4> QED BY <2>1, <4>1 DEF Syncing, Product
    <3> QED BY <3>1
  <2>4. SyncInv(t)'
    BY <2>1, <2>3, FreshSync
  <2> QED BY <2>1, <2>4, LocalOnHand
<1> QED BY <1>1, <1>2, <1>3, <1>4, <1>5

LEMMA FailOnHand == ASSUME Inv1, OnHandInv, NEW t \in Txs, Fail(t) PROVE OnHandInv'
<1>1. Local(t) /\ tx'[t] = Ended
  BY FailEffect DEF Inv1
<1> QED BY <1>1, EndedSync, LocalOnHand

(* The commits. *)
LEMMA CommitOnHand ==
  ASSUME Inv1, OnHandInv, NEW t \in Txs, CommitLots(t), Open(t),
         tx[t].pc \notin {"flip", "sum", "write"}, \A u \in Txs \ {t} : SameDoc(u)
  PROVE  OnHandInv'
<1>1. /\ lot' \in [Lots -> Rows] /\ lot' = Seen(t)
      /\ \A p \in Products : onHand'[p] = IF p \in DOMAIN tx[t].hand THEN tx[t].hand[p]
                                                                       ELSE onHand[p]
      /\ stale' = (stale \ DOMAIN tx[t].hand) \cup (tx[t].behind \cap DOMAIN tx[t].hand)
      /\ tx'[t] = Ended
      /\ \A u \in Txs \ {t} :
           /\ KeptBut(u)
           /\ tx[u].behind \subseteq tx'[u].behind
           /\ ~Open(u) => tx'[u] = tx[u]
           /\ Open(u) => \A b \in Lots : lot'[b] # lot[b] => ProductOf[b] \in tx'[u].behind
  BY CommitEffect DEF Inv1
<1>2. SyncInv(t) /\ \A p : ~Syncing(t, p)
  BY DEF OnHandInv, Syncing
<1>3. \A b \in Lots : lot'[b] = IF b \in DOMAIN tx[t].held THEN tx[t].held[b] ELSE lot[b]
  BY <1>1, SeenTypes DEF Inv1
<1>4. ASSUME NEW p \in Products \ stale' PROVE onHand'[p] = OnHand(p, lot')
  <2>1. CASE p \in DOMAIN tx[t].hand
    <3>1. p \notin tx[t].behind
      BY <1>1, <1>4, <2>1
    <3>2. tx[t].hand[p] = OnHand(p, Seen(t))
      BY <1>2, <2>1, <3>1 DEF SyncInv
    <3> HIDE DEF OnHand
    <3> QED BY <1>1, <2>1, <3>2
  <2>2. CASE p \notin DOMAIN tx[t].hand
    <3>1. p \notin stale
      BY <1>1, <1>4, <2>2
    <3>2. onHand[p] = OnHand(p, lot)
      BY <3>1 DEF OnHandInv, OnHandExcused, OnHand
    <3>3. ASSUME NEW b \in LotsOf(p) PROVE lot'[b] = lot[b]
      BY <1>2, <1>3, <2>2 DEF LotsOf, SyncInv
    <3> HIDE DEF OnHand
    <3>4. OnHand(p, lot') = OnHand(p, lot)
      BY <3>3, OnHandSame
    <3> QED BY <1>1, <2>2, <3>2, <3>4
  <2> QED BY <2>1, <2>2
<1>5. OnHandExcused'
  BY <1>4 DEF OnHandExcused, OnHand, Sum, LotsOf
<1>6. ASSUME NEW u \in Txs \ {t} PROVE SyncInv(u)'
  <2>1. DOMAIN tx[t].held \cap DOMAIN tx[u].held = {} /\ DOMAIN tx[u].held \subseteq Lots
    BY StepRequest, TxFields DEF Inv1
  <2>2. \A b \in DOMAIN tx[u].held : lot'[b] = lot[b]
    BY <1>3, <2>1
  <2> QED BY <1>1, <2>2, OtherSync DEF OnHandInv
<1>7. SyncInv(t)'
  BY <1>1, EndedSync
<1> QED BY <1>5, <1>6, <1>7 DEF OnHandInv

LEMMA CommitsOnHand ==
  ASSUME Inv1, OnHandInv, NEW t \in Txs,
         CommitSale(t) \/ CommitVoid(t) \/ CommitRefund(t) \/ CommitReceipt(t) \/ CommitDisposal(t)
  PROVE  OnHandInv'
<1>1. CommitLots(t) /\ tx[t].pc \in {"commit", "end"}
  BY DEF CommitSale, CommitVoid, CommitRefund, CommitReceipt, CommitDisposal, Ready
<1>2. \A u \in Txs \ {t} : SameDoc(u)
  <2>1. CASE CommitReceipt(t) \/ CommitDisposal(t)
    <3>1. sale' = sale /\ overlapped' = overlapped
      BY <2>1 DEF CommitReceipt, CommitDisposal
    <3> QED BY <3>1, SameDocIfUnchanged DEF Inv1
  <2> QED BY <2>1, CommitSaleKeeps, CommitVoidKeeps, CommitRefundKeeps
<1> QED BY <1>1, <1>2, CommitOnHand DEF Open

LEMMA QuarantineOnHand ==
  ASSUME Inv1, OnHandInv, NEW t \in Txs, NEW r \in Requests, Quarantine(t, r) PROVE OnHandInv'
<1>1. /\ tx[t].pc = "idle" /\ r.lot \in Lots
      /\ \A u \in Txs : r.lot \notin DOMAIN tx[u].held
      /\ lot' \in [Lots -> Rows]
      /\ \A b \in Lots \ {r.lot} : lot'[b] = lot[b]
      /\ onHand' = onHand /\ stale' = stale \cup {ProductOf[r.lot]}
      /\ tx'[t] = Ended
      /\ \A u \in Txs \ {t} :
           /\ KeptBut(u)
           /\ tx[u].behind \subseteq tx'[u].behind
           /\ ~Open(u) => tx'[u] = tx[u]
           /\ Open(u) => \A b \in Lots : lot'[b] # lot[b] => ProductOf[b] \in tx'[u].behind
      /\ sale' = sale /\ overlapped' = overlapped
  BY QuarantineEffect, DocParts DEF Inv1
<1>2. ASSUME NEW p \in Products \ stale' PROVE onHand'[p] = OnHand(p, lot')
  <2>1. p \notin stale /\ p # ProductOf[r.lot]
    BY <1>1, <1>2
  <2>2. onHand[p] = OnHand(p, lot)
    BY <2>1 DEF OnHandInv, OnHandExcused, OnHand
  <2>3. ASSUME NEW b \in LotsOf(p) PROVE lot'[b] = lot[b]
    BY <1>1, <2>1 DEF LotsOf
  <2> HIDE DEF OnHand
  <2>4. OnHand(p, lot') = OnHand(p, lot)
    BY <2>3, OnHandSame
  <2> QED BY <1>1, <2>2, <2>4
<1>3. OnHandExcused'
  BY <1>2 DEF OnHandExcused, OnHand, Sum, LotsOf
<1>4. ASSUME NEW u \in Txs \ {t} PROVE SyncInv(u)'
  <2>1. DOMAIN tx[u].held \subseteq Lots
    BY TxFields DEF Inv1
  <2>2. \A b \in DOMAIN tx[u].held : lot'[b] = lot[b]
    BY <1>1, <2>1
  <2>3. SameDoc(u)
    BY <1>1, SameDocIfUnchanged DEF Inv1
  <2> QED BY <1>1, <2>2, <2>3, OtherSync DEF OnHandInv
<1>5. SyncInv(t)'
  BY <1>1, EndedSync
<1> QED BY <1>3, <1>4, <1>5 DEF OnHandInv

LEMMA SameOnHand == ASSUME OnHandInv, UNCHANGED vars PROVE OnHandInv'
<1>1. lot' = lot /\ onHand' = onHand /\ sale' = sale /\ tx' = tx /\ stale' = stale
  BY DEF vars, history
<1>2. \A t : /\ Product(t)' = Product(t) /\ Seen(t)' = Seen(t)
             /\ \A p : OnHand(p, Seen(t))' = OnHand(p, Seen(t))
             /\ OnHand(Product(t), Seen(t))' = OnHand(Product(t), Seen(t))
  BY <1>1 DEF Product, LineOf, Seen, OnHand, Sum, LotsOf
<1>3. OnHandExcused'
  BY <1>1 DEF OnHandInv, OnHandExcused
<1> HIDE DEF OnHand
<1>4. \A t \in Txs : SyncInv(t)'
  BY <1>1, <1>2 DEF OnHandInv, SyncInv, Syncing
<1> QED BY <1>3, <1>4 DEF OnHandInv

LEMMA OnHandStep == ASSUME Inv1, OnHandInv, Next PROVE OnHandInv'
<1>1. ASSUME NEW t \in Txs, Steps(t) PROVE OnHandInv'
  <2>1. Shortfall(t) \/ Break(t) => Fail(t)
    BY DEF Shortfall, Break
  <2>2. CountRefund(t) => Fail(t) \/ (tx[t].pc = "count" /\ Goto(t, "return") /\ Frame)
    BY DEF CountRefund, Ready, Frame, history
  <2>3. MarkVoid(t) => Fail(t) \/ (tx[t].pc = "mark" /\ Goto(t, "commit") /\ Frame)
    BY DEF MarkVoid, Ready, Frame, history
  <2>4. PostRefund(t) => tx[t].pc = "post" /\ Goto(t, "end") /\ Frame
    BY DEF PostRefund, Ready, Frame, history
  <2>5. CountRefund(t) \/ MarkVoid(t) \/ PostRefund(t) => OnHandInv'
    BY <2>2, <2>3, <2>4, FailOnHand, GotoOnHand DEF Phases
  <2> QED BY <1>1, <2>1, <2>5, LoadOnHand, LockLotOnHand, RowsOnHand, SumOnHand,
             WriteOnHandKept, FailOnHand, CommitsOnHand
          DEF Steps
<1>2. ASSUME NEW t \in Txs, NEW r \in Requests, Starts(t, r) PROVE OnHandInv'
  BY <1>2, StartOnHand, QuarantineOnHand DEF Starts
<1>3. UNCHANGED vars => OnHandInv'
  BY SameOnHand
<1> QED BY <1>1, <1>2, <1>3 DEF Next, Rest

(* products.quantity_on_hand agrees with the lots for every product that is not stale: *)
(* syncProductQuantity reads the sum in one statement and writes it in the same, but    *)
(* waits for the row of the product between the two, so that only a product others have *)
(* changed since may be written wrong.                                                  *)
THEOREM OnHandAlwaysExcused == Spec => []OnHandExcused
<1>1. ASSUME Init PROVE OnHandInv
  <2>1. /\ lot = Opening /\ \A t \in Txs : tx[t] = Idle
        /\ onHand = [p \in Products |->
                       Sum({b \in LotsOf(p) : Opening[b].status = "ACTIVE"}, Opening)]
    BY <1>1 DEF Init
  <2>2. OnHandExcused
    BY <2>1 DEF OnHandExcused
  <2>3. ASSUME NEW t \in Txs PROVE SyncInv(t)
    <3>1. /\ tx[t].held = <<>> /\ tx[t].hand = <<>> /\ tx[t].pc = "idle"
      BY <2>1, OnlyIdle
    <3> QED BY <3>1, NothingHeld DEF SyncInv
  <2> QED BY <2>2, <2>3 DEF OnHandInv
<1>2. Inv1 /\ OnHandInv /\ [Next]_vars => OnHandInv'
  <2>1. ASSUME OnHandInv, UNCHANGED vars PROVE OnHandInv'
    BY <2>1, SameOnHand
  <2> QED BY <2>1, OnHandStep
<1>3. OnHandInv => OnHandExcused
  BY DEF OnHandInv
<1> QED BY <1>1, <1>2, <1>3, Inv1Holds, PTL DEF Spec

(***************************************************************************)
(* Who may wait for whom.                                                  *)
(***************************************************************************)
LEMMA LocalLocks ==
  ASSUME LocksInv, NEW t \in Txs, \A u \in Txs \ {t} : KeptBut(u), LockInv(t)'
  PROVE  LocksInv'
<1>1. ASSUME NEW u \in Txs \ {t} PROVE LockInv(u)'
  BY DEF LocksInv, LockInv, KeptBut
<1> QED BY <1>1 DEF LocksInv

(* A step out of the phases in which a transaction holds nothing or locks in order. *)
LEMMA PastLocks ==
  ASSUME NEW t, tx'[t].pc \notin {"load", "return", "count", "lock"}
  PROVE  LockInv(t)'
BY DEF LockInv

LEMMA SyncingLocks ==
  ASSUME Inv1, LocksInv, NEW t \in Txs,
         Deduct(t) \/ FlipStatuses(t) \/ SumLots(t) \/ ReturnLot(t)
  PROVE  LocksInv'
<1>1. TypeInv /\ TxInv(t)
  BY DocParts DEF Inv1
<1>2. Local(t) /\ tx'[t].pc \in {"flip", "sum", "write"}
  BY <1>1, DeductEffect, FlipEffect, SumEffect, ReturnEffect
<1>3. LockInv(t)'
  BY <1>2, PastLocks
<1> QED BY <1>2, <1>3, LocalLocks DEF Local, KeptBut

LEMMA LoadLocks == ASSUME Inv1, LocksInv, NEW t \in Txs, Load(t) PROVE LocksInv'
<1>1. /\ Local(t) /\ tx[t].pc = "load" /\ tx'[t].pc = "lock" /\ tx'[t].held = tx[t].held
      /\ tx'[t].hand = tx[t].hand
  BY LoadEffect DEF Inv1
<1>2. LockInv(t)'
  BY <1>1 DEF LocksInv, LockInv
<1> QED BY <1>1, <1>2, LocalLocks DEF Local, KeptBut

LEMMA LockLotLocks == ASSUME Inv1, LocksInv, NEW t \in Txs, LockLot(t) PROVE LocksInv'
<1> DEFINE b == Earliest(tx[t].todo)
<1>1. /\ Local(t) /\ tx[t].pc = "lock" /\ tx'[t].pc = "lock"
      /\ b \in tx[t].todo /\ \A c \in tx[t].todo : b <= c
      /\ tx'[t].todo = tx[t].todo \ {b}
      /\ DOMAIN tx'[t].held \subseteq DOMAIN tx[t].held \cup {b}
      /\ tx'[t].hand = tx[t].hand
  BY LockLotEffect DEF Inv1
<1>2. \A c \in tx[t].todo : c \in Nat
  BY TxFields, LotsAssumption DEF Inv1
<1> HIDE DEF b
<1>3. \A c \in tx'[t].todo : b < c
  BY <1>1, <1>2
<1>4. LockInv(t)'
  BY <1>1, <1>3 DEF LocksInv, LockInv
<1> QED BY <1>1, <1>4, LocalLocks DEF Local, KeptBut

LEMMA WriteLocks == ASSUME Inv1, LocksInv, NEW t \in Txs, WriteOnHand(t) PROVE LocksInv'
<1>1. TypeInv /\ TxInv(t)
  BY DocParts DEF Inv1
<1>2. /\ Local(t) /\ tx'[t].pc = AfterLine(t) /\ tx[t].pc = "write"
      /\ DOMAIN tx'[t].hand = DOMAIN tx[t].hand \cup {Product(t)}
  BY <1>1, WriteEffect
<1>3. tx'[t].hand # <<>> /\ tx'[t].pc # "count"
  BY <1>2, NothingHeld DEF AfterLine
<1>4. LockInv(t)'
  BY <1>3 DEF LockInv
<1> QED BY <1>2, <1>4, LocalLocks DEF Local, KeptBut

LEMMA GotoLocks ==
  ASSUME Inv1, LocksInv, NEW t \in Txs, CountRefund(t) \/ MarkVoid(t) \/ PostRefund(t)
  PROVE  LocksInv'
<1>1. CASE Fail(t)
  <2>1. Local(t) /\ tx'[t] = Ended
    BY <1>1, FailEffect DEF Inv1
  <2>2. LockInv(t)'
    BY <2>1, PastLocks DEF Ended, Idle
  <2> QED BY <2>1, <2>2, LocalLocks DEF Local, KeptBut
<1>2. CASE tx[t].pc = "count" /\ Goto(t, "return") /\ Frame
  <2>1. /\ Local(t) /\ tx'[t].pc = "return" /\ tx'[t].held = tx[t].held
        /\ tx'[t].hand = tx[t].hand
    BY <1>2, GotoEffect DEF Inv1, Phases
  <2>2. LockInv(t)'
    BY <1>2, <2>1 DEF LocksInv, LockInv
  <2> QED BY <2>1, <2>2, LocalLocks DEF Local, KeptBut
<1>3. ASSUME NEW pc \in {"commit", "end"}, Goto(t, pc), Frame PROVE LocksInv'
  <2>1. Local(t) /\ tx'[t].pc = pc
    BY <1>3, GotoEffect DEF Inv1, Phases
  <2>2. LockInv(t)'
    BY <2>1, PastLocks
  <2> QED BY <2>1, <2>2, LocalLocks DEF Local, KeptBut
<1> QED BY <1>1, <1>2, <1>3 DEF CountRefund, MarkVoid, PostRefund, Ready, Frame, history

LEMMA StartLocks ==
  ASSUME Inv1, LocksInv, NEW t \in Txs, NEW r \in Requests,
         StartSale(t, r) \/ ReadForVoid(t, r) \/ ReadForRefund(t, r)
         \/ Receive(t, r) \/ Dispose(t, r)
  PROVE  LocksInv'
<1>0. TypeInv /\ PhaseInv(t)
  BY DocParts DEF Inv1
<1>1. ASSUME NEW pc \in {"load", "return", "count"}, Begin(t, r, pc) PROVE LocksInv'
  <2>1. pc \in Phases
    BY DEF Phases
  <2>2. Local(t) /\ tx'[t].pc = pc /\ tx'[t].held = <<>> /\ tx'[t].hand = <<>>
    BY <1>0, <1>1, <2>1, BeginEffect
  <2>3. LockInv(t)'
    BY <2>2, NothingHeld DEF LockInv
  <2> QED BY <2>2, <2>3, LocalLocks DEF Local, KeptBut
<1>2. CASE Receive(t, r) \/ Dispose(t, r)
  <2>1. Local(t) /\ tx'[t].pc = "flip"
    BY <1>0, <1>2, ReceiveEffect, DisposeEffect
  <2>2. LockInv(t)'
    BY <2>1, PastLocks
  <2> QED BY <2>1, <2>2, LocalLocks DEF Local, KeptBut
<1> QED BY <1>1, <1>2 DEF StartSale, ReadForVoid, ReadForRefund

LEMMA EndLocks ==
  ASSUME Inv1, LocksInv, NEW t \in Txs,
         tx'[t] = Ended, \A u \in Txs \ {t} : KeptBut(u)
  PROVE  LocksInv'
<1>1. LockInv(t)'
  BY PastLocks DEF Ended, Idle
<1> QED BY <1>1, LocalLocks

LEMMA LocksStep == ASSUME Inv1, LocksInv, Next PROVE LocksInv'
<1>1. ASSUME NEW t \in Txs, Fail(t) PROVE LocksInv'
  <2>1. Local(t) /\ tx'[t] = Ended
    BY <1>1, FailEffect DEF Inv1
  <2> QED BY <2>1, EndLocks DEF Local, KeptBut
<1>2. ASSUME NEW t \in Txs, CommitLots(t) PROVE LocksInv'
  <2>1. tx'[t] = Ended /\ \A u \in Txs \ {t} : KeptBut(u)
    BY <1>2, CommitEffect DEF Inv1
  <2> QED BY <2>1, EndLocks
<1>3. ASSUME NEW t \in Txs, Steps(t) PROVE LocksInv'
  <2>1. Shortfall(t) \/ Break(t) => Fail(t)
    BY DEF Shortfall, Break
  <2>2. CommitSale(t) \/ CommitVoid(t) \/ CommitRefund(t) \/ CommitReceipt(t)
        \/ CommitDisposal(t) => CommitLots(t)
    BY DEF CommitSale, CommitVoid, CommitRefund, CommitReceipt, CommitDisposal
  <2> QED BY <1>1, <1>2, <1>3, <2>1, <2>2, LoadLocks, LockLotLocks, SyncingLocks, WriteLocks,
             GotoLocks
          DEF Steps
<1>4. ASSUME NEW t \in Txs, NEW r \in Requests, Starts(t, r) PROVE LocksInv'
  <2>1. CASE Quarantine(t, r)
    <3>1. tx'[t] = Ended /\ \A u \in Txs \ {t} : KeptBut(u)
      BY <2>1, QuarantineEffect, DocParts DEF Inv1
    <3> QED BY <3>1, EndLocks
  <2> QED BY <1>4, <2>1, StartLocks DEF Starts
<1>5. UNCHANGED vars => LocksInv'
  BY DEF vars, LocksInv, LockInv
<1> QED BY <1>3, <1>4, <1>5 DEF Next, Rest

(* What each phase can wait for. *)
LEMMA WhoWaits ==
  ASSUME NEW t, NEW u, Waits(t, u)
  PROVE  /\ u # t
         /\ \/ /\ tx[t].pc \in {"lock", "flip", "return"}
               /\ LotsNeeded(t) \cap DOMAIN tx[u].held # {}
            \/ tx[t].pc = "write" /\ Product(t) \in DOMAIN tx[u].hand
            \/ tx[t].pc = "count" /\ HoldsItem(u, tx[t].req.sale, tx[t].req.line)
            \/ tx[t].pc \in {"post", "commit"} /\ tx[u].pc = "end"
            \/ tx[t].pc \in {"end", "mark"} /\ HoldsSale(u, tx[t].req.sale)
BY DEF Waits, LotsNeeded, HoldsLedger

(* A void that has marked its sale holds every lot of it: who would wait for the sale *)
(* cannot have got past its lots.                                                     *)
LEMMA NoneWaitsForSale ==
  ASSUME Inv1, NEW t \in Txs, NEW u \in Txs, u # t, tx[t].pc \in {"end", "mark"}
  PROVE  ~HoldsSale(u, tx[t].req.sale)
<1> DEFINE s == tx[t].req.sale
<1>1. SUFFICES ASSUME HoldsSale(u, s) PROVE FALSE
  OBVIOUS
<1>2. Op(u) = "void" /\ tx[u].req.sale = s /\ tx[u].pc = "commit"
  BY <1>1 DEF HoldsSale, Op
<1>3. /\ TxInv(t) /\ TxInv(u) /\ DOMAIN tx[t].held \cap DOMAIN tx[u].held = {}
      /\ tx[t].pc = "end" => Op(t) = "refund"
      /\ tx[t].pc = "mark" => Op(t) = "void"
      /\ tx[t].req \in Requests
  BY <1>2, StepRequest DEF Open
<1>4. s \in Sales
  BY <1>3, RequestTypes DEF Op
<1>5. sale[s].lines \in Seq(Lines)
  BY <1>4, SaleTypes DEF Inv1
<1>6. \A i \in DOMAIN sale[s].lines : sale[s].lines[i].lot \in DOMAIN tx[u].held
  <2>1. tx[u].line = Len(sale[s].lines)
        /\ \A i \in 1..tx[u].line : sale[s].lines[i].lot \in DOMAIN tx[u].held
    BY <1>2, <1>3 DEF TxInv, VoidInv, RestoredLines
  <2> QED BY <1>5, <2>1
<1>7. \E i \in DOMAIN sale[s].lines : sale[s].lines[i].lot \in DOMAIN tx[t].held
  <2>1. CASE tx[t].pc = "end"
    <3>1. tx[t].req.line \in DOMAIN sale[s].lines /\ LineOf(t).lot \in DOMAIN tx[t].held
      BY <1>3, <2>1 DEF TxInv, RefundInv
    <3> QED BY <1>3, <2>1, <3>1 DEF LineOf, Op
  <2>2. CASE tx[t].pc = "mark"
    <3>1. tx[t].line \in DOMAIN sale[s].lines
          /\ \A i \in 1..tx[t].line : sale[s].lines[i].lot \in DOMAIN tx[t].held
      BY <1>3, <2>2 DEF TxInv, VoidInv, RestoredLines
    <3>2. tx[t].line \in 1..tx[t].line
      BY TxFields DEF Inv1
    <3> QED BY <3>1, <3>2
  <2> QED BY <2>1, <2>2
<1> QED BY <1>3, <1>6, <1>7

LEMMA CirclesExplained == ASSUME Inv1, LocksInv PROVE DeadlocksExplained
<1>1. SUFFICES ASSUME NEW C \in SUBSET Txs, Stuck(C),
                      \A t \in C : ~(SeveralLines(t) \/ tx[t].pc = "flip" \/ Reselects(t))
               PROVE  FALSE
  BY DEF DeadlocksExplained, Circles
<1>2. C # {} /\ \A t \in C : \E u \in C : Waits(t, u)
  BY <1>1 DEF Stuck
<1>3. ASSUME NEW t \in C PROVE tx[t].pc \notin {"end", "mark"}
  <2>1. PICK u \in C : Waits(t, u)
    BY <1>2
  <2> QED BY <2>1, WhoWaits, NoneWaitsForSale
<1>4. ASSUME NEW t \in C PROVE tx[t].pc \in {"lock", "return", "write", "count"}
  <2>1. PICK u \in C : Waits(t, u)
    BY <1>2
  <2> QED BY <1>1, <1>3, <2>1, WhoWaits
<1>5. ASSUME NEW t \in C PROVE tx[t].hand = <<>>
  <2>1. t \in Txs /\ LockInv(t)
    BY DEF LocksInv
  <2> QED BY <1>1, <1>4, <2>1 DEF SeveralLines, LockInv
<1>6. ASSUME NEW t \in C PROVE tx[t].pc # "write"
  <2>1. PICK u \in C : Waits(t, u)
    BY <1>2
  <2> QED BY <1>5, <2>1, WhoWaits, NothingHeld
<1>7. ASSUME NEW u \in C, DOMAIN tx[u].held # {} PROVE tx[u].pc = "lock"
  <2>1. u \in Txs /\ LockInv(u)
    BY DEF LocksInv
  <2> QED BY <1>4, <1>5, <1>6, <1>7, <2>1 DEF LockInv
<1>8. ASSUME NEW t \in C, tx[t].pc = "return" PROVE \E u \in C : tx[u].pc = "lock"
  <2>1. PICK u \in C : Waits(t, u)
    BY <1>2
  <2>2. DOMAIN tx[u].held # {}
    BY <1>8, <2>1, WhoWaits
  <2> QED BY <1>7, <2>2
<1>9. ASSUME NEW t \in C, tx[t].pc = "count" PROVE \E u \in C : tx[u].pc \in {"return", "lock"}
  <2>1. PICK u \in C : Waits(t, u)
    BY <1>2
  <2>2. HoldsItem(u, tx[t].req.sale, tx[t].req.line)
    BY <1>9, <2>1, WhoWaits
  <2> QED BY <1>4, <1>6, <2>2 DEF HoldsItem
<1>10. \E t \in C : tx[t].pc = "lock"
  BY <1>2, <1>4, <1>6, <1>8, <1>9
<1> DEFINE next == {Earliest(tx[t].todo) : t \in {u \in C : tx[u].pc = "lock"}}
<1>11. ASSUME NEW t \in C, tx[t].pc = "lock"
       PROVE  /\ tx[t].todo # {} /\ tx[t].todo \in SUBSET Lots
              /\ Earliest(tx[t].todo) \in tx[t].todo
  <2>1. tx[t].todo # {}
    BY <1>1, <1>11 DEF Reselects
  <2>2. tx[t].todo \in SUBSET Lots
    BY TxFields DEF Inv1
  <2> QED BY <2>1, <2>2, EarliestIsLeast
<1>12. next \in SUBSET Lots /\ next # {}
  BY <1>10, <1>11
<1>13. IsFiniteSet(next) /\ next \in SUBSET Nat
  BY <1>12, LotsAssumption, FS_Subset
<1> HIDE DEF next
<1>14. PICK m \in next : \A n \in next : n <= m
  BY <1>12, <1>13, GreatestNumber
<1>15. PICK t \in C : tx[t].pc = "lock" /\ m = Earliest(tx[t].todo)
  BY <1>14 DEF next
<1>16. PICK u \in C : Waits(t, u)
  BY <1>2
<1>17. m \in DOMAIN tx[u].held
  <2>1. LotsNeeded(t) = {m}
    BY <1>11, <1>15 DEF LotsNeeded
  <2> QED BY <1>15, <1>16, <2>1, WhoWaits
<1>18. tx[u].pc = "lock" /\ tx[u].hand = <<>>
  BY <1>5, <1>7, <1>17
<1>19. Earliest(tx[u].todo) \in next /\ Earliest(tx[u].todo) \in tx[u].todo
  BY <1>11, <1>18 DEF next
<1>20. m < Earliest(tx[u].todo)
  <2>1. u \in Txs /\ LockInv(u)
    BY DEF LocksInv
  <2> QED BY <1>17, <1>18, <1>19, <2>1 DEF LockInv
<1>21. Earliest(tx[u].todo) <= m /\ m \in Nat /\ Earliest(tx[u].todo) \in Nat
  BY <1>13, <1>14, <1>19
<1> QED BY <1>20, <1>21

(* Documents wait for each other in a circle only in the three ways listed there: the   *)
(* lots of a document are locked in FEFO order and before the row of their product, the *)
(* lock of the posting and the row of the sale come last.                               *)
THEOREM DeadlocksAlwaysExplained == Spec => []DeadlocksExplained
<1>1. Init => LocksInv
  <2>1. ASSUME Init, NEW t \in Txs PROVE LockInv(t)
    <3>1. tx[t] = Idle
      BY <2>1 DEF Init
    <3>2. tx[t].pc = "idle"
      BY <3>1, OnlyIdle
    <3> QED BY <3>2 DEF LockInv
  <2> QED BY <2>1 DEF LocksInv
<1>2. Inv1 /\ LocksInv /\ [Next]_vars => LocksInv'
  <2>1. UNCHANGED vars /\ LocksInv => LocksInv'
    BY DEF vars, LocksInv, LockInv
  <2> QED BY <2>1, LocksStep
<1>3. Inv1 /\ LocksInv => DeadlocksExplained
  BY CirclesExplained
<1> QED BY <1>1, <1>2, <1>3, Inv1Holds, PTL DEF Spec

(***************************************************************************)
(* The stock and the documents.                                            *)
(***************************************************************************)
LEMMA LotsOfTypes ==
  ASSUME NEW p
  PROVE  IsFiniteSet(LotsOf(p)) /\ \A b \in LotsOf(p) : b \in Lots /\ ProductOf[b] = p
BY LotSets DEF LotsOf

LEMMA ChangeTypes ==
  ASSUME TypeInv, NEW t \in Txs, NEW p
  PROVE  \A b \in LotsOf(p) : /\ Change(t, p)[b] = Seen(t)[b].qty - lot[b].qty
                              /\ Change(t, p)[b] \in Int /\ lot[b].qty \in Nat
                              /\ Seen(t)[b].qty \in Nat
<1>1. ASSUME NEW b \in LotsOf(p) PROVE Seen(t)[b].qty \in Nat /\ lot[b].qty \in Nat
  <2>1. b \in Lots
    BY LotsOfTypes
  <2> QED BY <2>1, SeenTypes DEF TypeInv, Rows
<1> QED BY <1>1 DEF Change

LEMMA ChangedSame ==
  ASSUME NEW t, NEW p,
         \A b \in LotsOf(p) : Seen(t)'[b].qty - lot'[b].qty = Seen(t)[b].qty - lot[b].qty
  PROVE  Changed(t, p)' = Changed(t, p)
<1>1. [b \in LotsOf(p) |-> Seen(t)'[b].qty - lot'[b].qty]
      = [b \in LotsOf(p) |-> Seen(t)[b].qty - lot[b].qty]
  OBVIOUS
<1>2. LotsOf(p)' = LotsOf(p)
  BY DEF LotsOf
<1> QED BY <1>1, <1>2 DEF Changed, Change

LEMMA NothingChanged ==
  ASSUME lot' \in [Lots -> Rows], NEW t, DOMAIN tx'[t].held = {}, NEW p
  PROVE  Changed(t, p)' = 0
<1> DEFINE f == [b \in LotsOf(p) |-> Seen(t)'[b].qty - lot'[b].qty]
<1>1. ASSUME NEW b \in LotsOf(p) PROVE f[b] = 0
  <2>1. b \in Lots
    BY LotsOfTypes
  <2>2. Seen(t)'[b] = lot'[b]
    BY <2>1, SeenNext
  <2>3. lot'[b].qty \in Nat
    BY <2>1 DEF Rows
  <2> QED BY <2>2, <2>3
<1>2. Changed(t, p)' = SumFunctionOnSet(f, LotsOf(p))
  BY DEF Changed, Change, LotsOf
<1> HIDE DEF f
<1> QED BY <1>1, <1>2, LotsOfTypes, SumZero

(* No line of a list belongs to none of its products. *)
LEMMA SumOfType ==
  ASSUME NEW lines \in Seq(Lines), NEW I \in SUBSET DOMAIN lines, NEW p
  PROVE  SumOf(lines, I, p) \in Int /\ IsFiniteSet(I)
<1> DEFINE f == [i \in I |-> IF ProductOf[lines[i].lot] = p THEN lines[i].qty ELSE 0]
<1>1. IsFiniteSet(I)
  BY LinesFinite, FS_Subset
<1>2. \A i \in I : f[i] \in Int
  BY LinesFinite
<1> HIDE DEF f
<1>3. SumFunctionOnSet(f, I) \in Int
  BY <1>1, <1>2, SumType
<1> QED BY <1>1, <1>3 DEF SumOf, f

LEMMA SumOfSame ==
  ASSUME NEW lines, NEW more, NEW I, NEW p,
         \A i \in I : lines[i].lot = more[i].lot /\ lines[i].qty = more[i].qty
  PROVE  SumOf(lines, I, p) = SumOf(more, I, p)
<1>1. [i \in I |-> IF ProductOf[lines[i].lot] = p THEN lines[i].qty ELSE 0]
      = [i \in I |-> IF ProductOf[more[i].lot] = p THEN more[i].qty ELSE 0]
  OBVIOUS
<1> QED BY <1>1 DEF SumOf

(* One more line. *)
LEMMA SumOfMore ==
  ASSUME NEW lines \in Seq(Lines), NEW I \in SUBSET DOMAIN lines, NEW j \in DOMAIN lines \ I,
         NEW p
  PROVE  SumOf(lines, I \cup {j}, p)
           = SumOf(lines, I, p) + IF ProductOf[lines[j].lot] = p THEN lines[j].qty ELSE 0
<1> DEFINE f == [i \in I \cup {j} |-> IF ProductOf[lines[i].lot] = p THEN lines[i].qty ELSE 0]
           e == [i \in I |-> IF ProductOf[lines[i].lot] = p THEN lines[i].qty ELSE 0]
<1>1. IsFiniteSet(I \cup {j}) /\ IsFiniteSet(I)
  <2>1. I \cup {j} \in SUBSET DOMAIN lines
    OBVIOUS
  <2> QED BY <2>1, LinesFinite, FS_Subset
<1>2. \A i \in I \cup {j} : f[i] \in Int
  BY LinesFinite
<1>3. /\ f[j] = IF ProductOf[lines[j].lot] = p THEN lines[j].qty ELSE 0
      /\ \A i \in I : f[i] = e[i]
  OBVIOUS
<1>4. (I \cup {j}) \ {j} = I
  OBVIOUS
<1>5. SumOf(lines, I \cup {j}, p) = SumFunctionOnSet(f, I \cup {j})
      /\ SumOf(lines, I, p) = SumFunctionOnSet(e, I)
  BY DEF SumOf
<1> HIDE DEF f, e
<1>6. SumFunctionOnSet(f, I \cup {j}) = f[j] + SumFunctionOnSet(f, I)
  <2>1. j \in I \cup {j}
    OBVIOUS
  <2> QED BY <1>1, <1>2, <1>4, <2>1, SumPick
<1>7. SumFunctionOnSet(f, I) = SumFunctionOnSet(e, I)
  BY <1>1, <1>3, SumSame
<1>8. f[j] \in Int /\ SumFunctionOnSet(e, I) \in Int
  BY <1>1, <1>2, <1>3, SumType
<1> QED BY <1>3, <1>5, <1>6, <1>7, <1>8

LEMMA SumOfNoLine == ASSUME NEW lines, NEW p PROVE SumOf(lines, {}, p) = 0
BY SumOfNone DEF SumOf

(* Transactions that do not take the step. *)
LEMMA OtherMoved ==
  ASSUME Inv1, NEW u \in Txs, MovedInv(u), KeptBut(u), ~Open(u) => tx'[u] = tx[u], SameDoc(u),
         lot' \in [Lots -> Rows], \A b \in DOMAIN tx[u].held : lot'[b] = lot[b]
  PROVE  MovedInv(u)'
<1>1. ASSUME NEW p PROVE Changed(u, p)' = Changed(u, p)
  <2>1. ASSUME NEW b \in LotsOf(p)
        PROVE  Seen(u)'[b].qty - lot'[b].qty = Seen(u)[b].qty - lot[b].qty
    <3>1. b \in Lots
      BY LotsOfTypes
    <3>2. Seen(u)'[b] = IF b \in DOMAIN tx'[u].held THEN tx'[u].held[b] ELSE lot'[b]
      BY <3>1, SeenNext
    <3>3. Seen(u)[b] = IF b \in DOMAIN tx[u].held THEN tx[u].held[b] ELSE lot[b]
      BY <3>1, SeenTypes DEF Inv1
    <3>4. lot[b].qty \in Nat /\ lot'[b].qty \in Nat
      BY <3>1 DEF Inv1, TypeInv, Rows
    <3> QED BY <3>2, <3>3, <3>4 DEF KeptBut
  <2> QED BY <2>1, ChangedSame
<1>2. Op(u)' = Op(u) /\ tx'[u].req = tx[u].req /\ tx'[u].pc = tx[u].pc /\ tx'[u].line = tx[u].line
      /\ tx'[u].sold = tx[u].sold /\ RestoredLines(u)' = RestoredLines(u)
  BY DEF KeptBut, Op, RestoredLines
<1>3. ASSUME NEW p PROVE Moved(u, p)' = Moved(u, p)
  <2>1. CASE ~Open(u)
    <3>1. tx[u] = Idle \/ tx[u] = Ended
      BY <2>1, DocParts DEF Inv1, PhaseInv, Open
    <3>2. Op(u) = "none"
      BY <3>1 DEF Idle, Ended, Op, NoRequest
    <3> QED BY <1>2, <3>2 DEF Moved
  <2>2. CASE Open(u)
    <3>1. Product(u)' = Product(u)
      BY <2>2, ProductKept
    <3>2. CASE Op(u) = "sale"
      BY <1>2, <3>2 DEF Moved, SumOf
    <3>3. CASE Op(u) = "void"
      <4>1. tx[u].req.sale \in Sales /\ VoidInv(u)
        BY <2>2, <3>3, StepRequest, RequestTypes DEF Op, TxInv
      <4>2. sale[tx[u].req.sale].lines \in Seq(Lines)
        BY <4>1, SaleTypes DEF Inv1
      <4>3. RestoredLines(u) \subseteq DOMAIN sale[tx[u].req.sale].lines
        BY <3>3, <4>1, <4>2 DEF VoidInv, RestoredLines
      <4>4. SumOf(sale'[tx[u].req.sale].lines, RestoredLines(u), p)
            = SumOf(sale[tx[u].req.sale].lines, RestoredLines(u), p)
        <5>1. \A i \in DOMAIN sale[tx[u].req.sale].lines :
                /\ sale'[tx[u].req.sale].lines[i].lot = sale[tx[u].req.sale].lines[i].lot
                /\ sale'[tx[u].req.sale].lines[i].qty = sale[tx[u].req.sale].lines[i].qty
          BY <3>3 DEF SameDoc
        <5>2. \A i \in RestoredLines(u) :
                /\ sale'[tx[u].req.sale].lines[i].lot = sale[tx[u].req.sale].lines[i].lot
                /\ sale'[tx[u].req.sale].lines[i].qty = sale[tx[u].req.sale].lines[i].qty
          BY <4>3, <5>1
        <5> QED BY <5>2, SumOfSame
      <4>5. Moved(u, p)' = SumOf(sale'[tx[u].req.sale].lines, RestoredLines(u), p)
        BY <1>2, <3>3 DEF Moved, SumOf
      <4> QED BY <3>3, <4>4, <4>5 DEF Moved
    <3>4. CASE Op(u) \notin {"sale", "void"}
      BY <1>2, <3>1, <3>4 DEF Moved
    <3> QED BY <3>2, <3>3, <3>4
  <2> QED BY <2>1, <2>2
<1> QED BY <1>1, <1>3 DEF MovedInv

LEMMA LocalStock ==
  ASSUME Inv1, StockInv, NEW t \in Txs, Local(t), MovedInv(t)'
  PROVE  StockInv'
<1>1. /\ lot' = lot /\ sale' = sale /\ received' = received /\ disposed' = disposed
      /\ lot \in [Lots -> Rows]
  BY DEF Local, Frame, Inv1, TypeInv
<1>2. StockMatchesDocuments'
  BY <1>1 DEF StockInv, StockMatchesDocuments
<1>3. ASSUME NEW u \in Txs \ {t} PROVE MovedInv(u)'
  <2>1. tx'[u] = tx[u] /\ MovedInv(u) /\ KeptBut(u)
    BY DEF Local, StockInv, KeptBut
  <2>2. SameDoc(u)
    BY SameDocIfUnchanged DEF Local, Frame, Inv1
  <2> QED BY <1>1, <2>1, <2>2, OtherMoved
<1> QED BY <1>2, <1>3 DEF StockInv

(* Steps that change no quantity. *)
LEMMA MovedKept ==
  ASSUME NEW t, sale' = sale, tx'[t].req = tx[t].req, tx'[t].sold = tx[t].sold,
         Op(t) = "void" => RestoredLines(t)' = RestoredLines(t),
         Op(t) = "refund" => (tx'[t].pc \in {"count", "return"} <=> tx[t].pc \in {"count", "return"})
  PROVE  \A p : Moved(t, p)' = Moved(t, p)
<1>1. Op(t)' = Op(t)
  BY DEF Op
<1>2. Op(t) \notin {"sale", "void"} => Product(t)' = Product(t)
  BY DEF Product, LineOf, Op
<1> QED BY <1>1, <1>2 DEF Moved, SumOf

LEMMA StillStock ==
  ASSUME Inv1, StockInv, NEW t \in Txs, Local(t),
         \A b \in Lots : Seen(t)'[b].qty = Seen(t)[b].qty,
         \A p : Moved(t, p)' = Moved(t, p)
  PROVE  StockInv'
<1>1. \A b \in Lots : Seen(t)'[b].qty - lot'[b].qty = Seen(t)[b].qty - lot[b].qty
  BY DEF Local, Frame
<1>2. \A p : Changed(t, p)' = Changed(t, p)
  <2>1. ASSUME NEW p PROVE Changed(t, p)' = Changed(t, p)
    BY <1>1, LotsOfTypes, ChangedSame
  <2> QED BY <2>1
<1>3. MovedInv(t)'
  BY <1>2 DEF StockInv, MovedInv
<1> QED BY <1>3, LocalStock

LEMMA SameRowsStock ==
  ASSUME Inv1, StockInv, NEW t \in Txs, Local(t), tx'[t].held = tx[t].held,
         \A p : Moved(t, p)' = Moved(t, p)
  PROVE  StockInv'
<1>1. Seen(t)' = Seen(t)
  BY DEF Local, Frame, Seen
<1> QED BY <1>1, StillStock

LEMMA LoadStock == ASSUME Inv1, StockInv, NEW t \in Txs, Load(t) PROVE StockInv'
<1>1. /\ Local(t) /\ tx[t].pc = "load" /\ tx'[t].held = tx[t].held /\ tx'[t].req = tx[t].req
      /\ tx'[t].sold = tx[t].sold
  BY LoadEffect DEF Inv1
<1>2. Op(t) = "sale"
  BY <1>1, StepRequest DEF Open
<1>3. \A p : Moved(t, p)' = Moved(t, p)
  BY <1>1, <1>2, MovedKept DEF Local, Frame
<1> QED BY <1>1, <1>3, SameRowsStock

LEMMA LockLotStock == ASSUME Inv1, StockInv, NEW t \in Txs, LockLot(t) PROVE StockInv'
<1>1. /\ Local(t) /\ tx[t].pc = "lock" /\ tx'[t].req = tx[t].req /\ tx'[t].sold = tx[t].sold
      /\ DOMAIN tx[t].held \subseteq DOMAIN tx'[t].held
      /\ \A b \in DOMAIN tx'[t].held : tx'[t].held[b] = Seen(t)[b]
  BY LockLotEffect DEF Inv1
<1>2. Op(t) = "sale"
  BY <1>1, StepRequest DEF Open
<1>3. \A p : Moved(t, p)' = Moved(t, p)
  BY <1>1, <1>2, MovedKept DEF Local, Frame
<1>4. lot' = lot /\ lot' \in [Lots -> Rows]
  BY <1>1 DEF Local, Frame, Inv1, TypeInv
<1>5. ASSUME NEW b \in Lots PROVE Seen(t)'[b].qty = Seen(t)[b].qty
  <2>1. Seen(t)'[b] = IF b \in DOMAIN tx'[t].held THEN tx'[t].held[b] ELSE lot'[b]
    BY <1>4, SeenNext
  <2>2. Seen(t)[b] = IF b \in DOMAIN tx[t].held THEN tx[t].held[b] ELSE lot[b]
    BY SeenTypes DEF Inv1
  <2> QED BY <1>1, <1>4, <2>1, <2>2
<1> QED BY <1>1, <1>3, <1>5, StillStock

LEMMA FlipStock == ASSUME Inv1, StockInv, NEW t \in Txs, FlipStatuses(t) PROVE StockInv'
<1>1. /\ Local(t) /\ tx[t].pc = "flip" /\ tx'[t].req = tx[t].req /\ tx'[t].pc = "sum"
      /\ tx'[t].line = tx[t].line /\ tx'[t].sold = tx[t].sold
      /\ DOMAIN tx'[t].held = DOMAIN tx[t].held \cup Misfits(t)
      /\ \A b \in Misfits(t) : tx'[t].held[b].qty = Seen(t)[b].qty
      /\ \A b \in DOMAIN tx[t].held \ Misfits(t) : tx'[t].held[b] = tx[t].held[b]
  BY FlipEffect DEF Inv1
<1>2. \A p : Moved(t, p)' = Moved(t, p)
  BY <1>1, MovedKept DEF Local, Frame, RestoredLines
<1>3. lot' = lot /\ lot' \in [Lots -> Rows]
  BY <1>1 DEF Local, Frame, Inv1, TypeInv
<1>4. ASSUME NEW b \in Lots PROVE Seen(t)'[b].qty = Seen(t)[b].qty
  <2>1. Seen(t)'[b] = IF b \in DOMAIN tx'[t].held THEN tx'[t].held[b] ELSE lot'[b]
    BY <1>3, SeenNext
  <2>2. Seen(t)[b] = IF b \in DOMAIN tx[t].held THEN tx[t].held[b] ELSE lot[b]
    BY SeenTypes DEF Inv1
  <2> QED BY <1>1, <1>3, <2>1, <2>2
<1> QED BY <1>1, <1>2, <1>4, StillStock

LEMMA SumStock == ASSUME Inv1, StockInv, NEW t \in Txs, SumLots(t) PROVE StockInv'
<1>1. /\ Local(t) /\ tx[t].pc = "sum" /\ tx'[t].req = tx[t].req /\ tx'[t].pc = "write"
      /\ tx'[t].line = tx[t].line /\ tx'[t].held = tx[t].held /\ tx'[t].sold = tx[t].sold
  BY SumEffect, DocParts DEF Inv1
<1>2. \A p : Moved(t, p)' = Moved(t, p)
  BY <1>1, MovedKept DEF Local, Frame, RestoredLines
<1> QED BY <1>1, <1>2, SameRowsStock

LEMMA WriteStock == ASSUME Inv1, StockInv, NEW t \in Txs, WriteOnHand(t) PROVE StockInv'
<1>1. /\ Local(t) /\ tx[t].pc = "write" /\ tx'[t].req = tx[t].req /\ tx'[t].pc = AfterLine(t)
      /\ tx'[t].line = IF LastLine(t) THEN tx[t].line ELSE tx[t].line + 1
      /\ tx'[t].held = tx[t].held /\ tx'[t].sold = tx[t].sold
  BY WriteEffect, DocParts DEF Inv1
<1>2. tx[t].line \in Nat
  BY TxFields DEF Inv1
<1>3. Op(t) = "void" => RestoredLines(t)' = RestoredLines(t)
  <2>1. SUFFICES ASSUME Op(t) = "void" PROVE RestoredLines(t)' = RestoredLines(t)
    OBVIOUS
  <2>2. AfterLine(t) = IF LastLine(t) THEN "mark" ELSE "return"
    BY <2>1 DEF AfterLine, Op
  <2>3. RestoredLines(t) = 1..tx[t].line
    BY <1>1 DEF RestoredLines
  <2>4. CASE LastLine(t)
    <3>1. tx'[t].pc = "mark" /\ tx'[t].line = tx[t].line
      BY <1>1, <2>2, <2>4
    <3> QED BY <2>3, <3>1 DEF RestoredLines
  <2>5. CASE ~LastLine(t)
    <3>1. tx'[t].pc = "return"
      BY <1>1, <2>2, <2>5
    <3>2. tx'[t].line = tx[t].line + 1
      BY <1>1, <2>5
    <3>3. tx'[t].line - 1 = tx[t].line
      BY <1>2, <3>2
    <3> QED BY <2>3, <3>1, <3>3 DEF RestoredLines
  <2> QED BY <2>4, <2>5
<1>4. Op(t) = "refund" => tx'[t].pc \notin {"count", "return"}
  BY <1>1 DEF AfterLine, Op
<1>5. \A p : Moved(t, p)' = Moved(t, p)
  BY <1>1, <1>3, <1>4, MovedKept DEF Local, Frame
<1> QED BY <1>1, <1>5, SameRowsStock

LEMMA EndedStock ==
  ASSUME Inv1, NEW t \in Txs, lot' \in [Lots -> Rows], tx'[t] = Ended
  PROVE  MovedInv(t)'
<1>1. DOMAIN tx'[t].held = {} /\ Op(t)' = "none"
  BY NothingHeld DEF Ended, Idle, Op, NoRequest
<1>2. \A p \in Products : Changed(t, p)' = 0 /\ Moved(t, p)' = 0
  <2>1. ASSUME NEW p \in Products PROVE Changed(t, p)' = 0 /\ Moved(t, p)' = 0
    BY <1>1, NothingChanged DEF Moved
  <2> QED BY <2>1
<1> QED BY <1>2 DEF MovedInv

LEMMA FailStock == ASSUME Inv1, StockInv, NEW t \in Txs, Fail(t) PROVE StockInv'
<1>1. Local(t) /\ tx'[t] = Ended
  BY FailEffect DEF Inv1
<1>2. MovedInv(t)'
  BY <1>1, EndedStock DEF Local, Frame, Inv1, TypeInv
<1> QED BY <1>1, <1>2, LocalStock

LEMMA GotoStock ==
  ASSUME Inv1, StockInv, NEW t \in Txs, CountRefund(t) \/ MarkVoid(t) \/ PostRefund(t)
  PROVE  StockInv'
<1>1. CASE Fail(t)
  BY <1>1, FailStock
<1>2. ASSUME NEW pc \in {"return", "commit", "end"}, Goto(t, pc), Frame,
             \/ tx[t].pc = "count" /\ pc = "return"
             \/ tx[t].pc = "mark" /\ pc = "commit"
             \/ tx[t].pc = "post" /\ pc = "end"
      PROVE  StockInv'
  <2>1. /\ Local(t) /\ tx'[t].pc = pc /\ tx'[t].req = tx[t].req /\ tx'[t].line = tx[t].line
        /\ tx'[t].held = tx[t].held /\ tx'[t].sold = tx[t].sold
    BY <1>2, GotoEffect DEF Inv1, Phases
  <2>2. Op(t) = "void" => tx[t].pc = "mark"
    BY <1>2, StepRequest DEF Open
  <2>3. \A p : Moved(t, p)' = Moved(t, p)
    BY <1>2, <2>1, <2>2, MovedKept DEF Frame, RestoredLines
  <2> QED BY <2>1, <2>3, SameRowsStock
<1> QED BY <1>1, <1>2 DEF CountRefund, MarkVoid, PostRefund, Ready, Frame, history

(* What selectLots takes: from the lots in FEFO order, as much as is wanted or there is. *)
LEMMA TakenSum ==
  ASSUME NEW S \in SUBSET Lots, NEW row \in [Lots -> Rows], NEW q \in Nat
  PROVE  SumFunctionOnSet(Taken(S, row, q), S) = Less(q, Sum(S, row))
<1> DEFINE Good == {T \in SUBSET S : SumFunctionOnSet(Taken(T, row, q), T)
                                     = Less(q, Sum(T, row))}
<1>0. IsFiniteSet(S) /\ S \in SUBSET Nat
  BY LotsAssumption, FS_Subset
<1>1. ASSUME NEW T \in SUBSET S, \A U \in SUBSET T : U # T => U \in Good
      PROVE  T \in Good
  <2>0. T \in SUBSET Nat /\ IsFiniteSet(T) /\ T \in SUBSET Lots
    BY <1>0, FS_Subset
  <2>1. CASE T = {}
    <3>1. SumFunctionOnSet(Taken(T, row, q), T) = 0 /\ Sum(T, row) = 0
      BY <2>1, SumOfNone DEF Sum
    <3> QED BY <3>1 DEF Less
  <2>2. CASE T # {}
    <3>1. PICK m \in T : \A b \in T : b <= m
      BY <2>0, <2>2, GreatestNumber
    <3> DEFINE U == T \ {m}
               f == Taken(T, row, q)
               e == Taken(U, row, q)
               r == Quantities(T, row)
    <3>2. U \in Good /\ U \in SUBSET Lots /\ IsFiniteSet(U)
      BY <1>1, <2>0, <3>1, FS_Subset
    <3>3. {c \in T : c < m} = U
      <4>1. \A c \in T : c < m <=> c # m
        BY <2>0, <3>1
      <4> QED BY <4>1
    <3>4. ASSUME NEW b \in U PROVE f[b] = e[b]
      <4>1. {c \in T : c < b} = {c \in U : c < b}
        BY <2>0, <3>1
      <4> QED BY <4>1 DEF Taken
    <3>5. f[m] = IF Sum(U, row) >= q THEN 0 ELSE Less(row[m].qty, q - Sum(U, row))
      BY <3>1, <3>3 DEF Taken
    <3>6. Sum(U, row) \in Nat /\ row[m].qty \in Nat
      BY <2>0, <3>1, <3>2, SumTypes DEF Rows
    <3>7. \A b \in T : f[b] \in Int
      BY <2>0, TakenTypes
    <3> HIDE DEF f, e
    <3>8. SumFunctionOnSet(f, T) = f[m] + SumFunctionOnSet(f, U)
      BY <2>0, <3>1, <3>7, SumPick
    <3>9. SumFunctionOnSet(f, U) = SumFunctionOnSet(e, U)
      BY <3>2, <3>4, SumSame
    <3>10. SumFunctionOnSet(e, U) = Less(q, Sum(U, row))
      BY <3>2 DEF e
    <3>11. Sum(T, row) = row[m].qty + Sum(U, row)
      <4>1. \A b \in T : r[b] = row[b].qty /\ r[b] \in Int
        BY <2>0 DEF Quantities, Rows
      <4>2. \A b \in U : r[b] = Quantities(U, row)[b]
        BY DEF Quantities
      <4> HIDE DEF r
      <4>3. SumFunctionOnSet(r, T) = r[m] + SumFunctionOnSet(r, U)
        BY <2>0, <3>1, <4>1, SumPick
      <4>4. SumFunctionOnSet(r, U) = Sum(U, row)
        BY <3>2, <4>2, SumSame, SumIsSum
      <4>5. SumFunctionOnSet(r, T) = Sum(T, row)
        BY <2>0, SumIsSum DEF r
      <4> QED BY <3>1, <4>1, <4>3, <4>4, <4>5
    <3> HIDE DEF U
    <3>12. f[m] + Less(q, Sum(U, row)) = Less(q, row[m].qty + Sum(U, row))
      BY <3>5, <3>6 DEF Less
    <3> QED BY <3>8, <3>9, <3>10, <3>11, <3>12 DEF f
  <2> QED BY <2>1, <2>2
<1>2. \A T \in SUBSET S : (\A U \in SUBSET T : U # T => U \in Good) => T \in Good
  BY <1>1
<1> HIDE DEF Good
<1>3. S \in Good
  BY <1>0, <1>2, SubsetInduction
<1> QED BY <1>3 DEF Good

LEMMA DeductStock == ASSUME Inv1, StockInv, NEW t \in Txs, Deduct(t) PROVE StockInv'
<1> DEFINE S == Selectable(t)
           q == Want(t)
           taken == Taken(S, Seen(t), q)
           new == [lot |-> Earliest(S), qty |-> q, refunded |-> 0]
<1>1. TypeInv /\ TxInv(t)
  BY DocParts DEF Inv1
<1>2. /\ Local(t) /\ tx[t].pc = "lock" /\ Op(t) = "sale"
      /\ Earliest(S) \in S /\ q <= Sum(S, Seen(t))
      /\ tx'[t].req = tx[t].req /\ tx'[t].pc = "flip" /\ tx'[t].line = tx[t].line
      /\ DOMAIN tx'[t].held = DOMAIN tx[t].held \cup S
      /\ \A b \in S : tx'[t].held[b].qty = Seen(t)[b].qty - taken[b]
      /\ \A b \in DOMAIN tx[t].held \ S : tx'[t].held[b] = tx[t].held[b]
      /\ tx'[t].sold = Append(tx[t].sold, new)
  BY <1>1, DeductEffect
<1>3. /\ lot' = lot /\ lot' \in [Lots -> Rows] /\ sale' = sale
      /\ tx'[t].sold \in Seq(Lines) /\ tx[t].sold \in Seq(Lines)
  <2>1. tx'[t] \in Transactions
    BY <1>2 DEF Local
  <2>2. tx'[t].sold \in Seq(Lines)
    BY <2>1 DEF Transactions
  <2> QED BY <1>1, <1>2, <2>2, TxFields DEF Local, Frame, TypeInv
<1>4. S \in SUBSET Lots /\ S \subseteq LotsOf(Product(t)) /\ IsFiniteSet(S)
  BY SelectableLots, LotsAssumption, FS_Subset
<1>5. q \in Nat /\ Product(t) \in Products
  BY <1>1, <1>2, ProductTypes DEF Open
<1>6. /\ Seen(t) \in [Lots -> Rows]
      /\ \A b \in Lots : Seen(t)[b] = IF b \in DOMAIN tx[t].held THEN tx[t].held[b] ELSE lot[b]
      /\ \A b \in Lots : Seen(t)[b].qty \in Nat
  BY <1>1, SeenTypes
<1>7. SumFunctionOnSet(taken, S) = q /\ \A b \in S : taken[b] \in Int
  <2>1. SumFunctionOnSet(taken, S) = Less(q, Sum(S, Seen(t)))
    BY <1>4, <1>5, <1>6, TakenSum
  <2>2. Less(q, Sum(S, Seen(t))) = q
    BY <1>2, <1>4, <1>5, <1>6, SumTypes DEF Less
  <2>3. \A b \in S : taken[b] \in Nat
    BY <1>4, <1>5, <1>6, TakenTypes
  <2> QED BY <2>1, <2>2, <2>3
<1> HIDE DEF taken, q
<1>8. ASSUME NEW b \in Lots
      PROVE  Seen(t)'[b].qty = IF b \in S THEN Seen(t)[b].qty - taken[b] ELSE Seen(t)[b].qty
  <2>1. Seen(t)'[b] = IF b \in DOMAIN tx'[t].held THEN tx'[t].held[b] ELSE lot'[b]
    BY <1>3, SeenNext
  <2> QED BY <1>2, <1>3, <1>6, <2>1
<1>9. ASSUME NEW p \in Products
       PROVE  Changed(t, p) = Changed(t, p)' + IF p = Product(t) THEN q ELSE 0
  <2> DEFINE f == Change(t, p)
             h == [b \in LotsOf(p) |-> Seen(t)'[b].qty - lot'[b].qty]
             e == [b \in LotsOf(p) |-> IF b \in S THEN taken[b] ELSE 0]
  <2>1. Changed(t, p) = SumFunctionOnSet(f, LotsOf(p))
    BY DEF Changed
  <2>2. Changed(t, p)' = SumFunctionOnSet(h, LotsOf(p))
    BY DEF Changed, Change, LotsOf
  <2>3. ASSUME NEW b \in LotsOf(p)
        PROVE  f[b] \in Int /\ h[b] \in Int /\ e[b] \in Int /\ f[b] = h[b] + e[b]
    <3>1. b \in Lots /\ h[b] = Seen(t)'[b].qty - lot'[b].qty
          /\ e[b] = IF b \in S THEN taken[b] ELSE 0
      BY LotsOfTypes
    <3>2. f[b] = Seen(t)[b].qty - lot[b].qty /\ lot[b].qty \in Nat /\ Seen(t)[b].qty \in Nat
      BY <1>1, ChangeTypes
    <3> QED BY <1>3, <1>7, <1>8, <3>1, <3>2
  <2>4. IsFiniteSet(LotsOf(p))
    BY LotsOfTypes
  <2>5. SumFunctionOnSet(e, LotsOf(p)) = IF p = Product(t) THEN q ELSE 0
    <3>1. CASE p = Product(t)
      <4>1. S \in SUBSET LotsOf(p) /\ (\A b \in S : e[b] = taken[b])
            /\ (\A b \in LotsOf(p) \ S : e[b] = 0) /\ (\A b \in LotsOf(p) : e[b] \in Int)
        BY <1>4, <1>7, <3>1
      <4> HIDE DEF e
      <4>2. SumFunctionOnSet(e, LotsOf(p)) = SumFunctionOnSet(e, S)
        BY <2>4, <4>1, SumPart
      <4>3. SumFunctionOnSet(e, S) = SumFunctionOnSet(taken, S)
        BY <1>4, <4>1, SumSame
      <4> QED BY <1>7, <3>1, <4>2, <4>3
    <3>2. CASE p # Product(t)
      <4>1. \A b \in LotsOf(p) : e[b] = 0
        BY <1>4, <3>2 DEF LotsOf
      <4> HIDE DEF e
      <4> QED BY <2>4, <3>2, <4>1, SumZero
    <3> QED BY <3>1, <3>2
  <2> HIDE DEF f, h, e
  <2> QED BY <2>1, <2>2, <2>3, <2>4, <2>5, SumPlus
<1>10. ASSUME NEW p \in Products
       PROVE  /\ Moved(t, p)' = Moved(t, p) - IF p = Product(t) THEN q ELSE 0
              /\ Moved(t, p) \in Int
  <2> DEFINE n == Len(tx[t].sold) + 1
             I == DOMAIN tx[t].sold
  <2>1. Len(tx[t].sold) \in Nat /\ I = 1..Len(tx[t].sold)
    BY <1>3
  <2>2. /\ DOMAIN tx'[t].sold = I \cup {n} /\ n \notin I /\ tx'[t].sold[n] = new
        /\ \A i \in I : tx'[t].sold[i] = tx[t].sold[i]
    BY <1>2, <1>3, <2>1
  <2>3. new.lot = Earliest(S) /\ new.qty = q /\ ProductOf[Earliest(S)] = Product(t)
    BY <1>2, <1>4 DEF LotsOf
  <2> HIDE DEF n, I
  <2>4. SumOf(tx'[t].sold, I \cup {n}, p)
        = SumOf(tx'[t].sold, I, p) + IF p = Product(t) THEN q ELSE 0
    <3>1. I \in SUBSET DOMAIN tx'[t].sold /\ n \in DOMAIN tx'[t].sold \ I
      BY <2>2
    <3>2. SumOf(tx'[t].sold, I \cup {n}, p)
          = SumOf(tx'[t].sold, I, p)
            + IF ProductOf[tx'[t].sold[n].lot] = p THEN tx'[t].sold[n].qty ELSE 0
      BY <1>3, <3>1, SumOfMore
    <3>3. tx'[t].sold[n].lot = Earliest(S) /\ tx'[t].sold[n].qty = q
      BY <2>2, <2>3
    <3> QED BY <2>3, <3>2, <3>3
  <2>5. SumOf(tx'[t].sold, I, p) = SumOf(tx[t].sold, I, p)
    BY <2>2, SumOfSame
  <2>6. SumOf(tx[t].sold, I, p) \in Int
    BY <1>3, SumOfType DEF I
  <2>7. Moved(t, p) = - SumOf(tx[t].sold, I, p)
    BY <1>2 DEF Moved, I
  <2>8. Moved(t, p)' = - SumOf(tx'[t].sold, I \cup {n}, p)
    BY <1>2, <2>2 DEF Moved, Op, SumOf
  <2> QED BY <1>5, <2>4, <2>5, <2>6, <2>7, <2>8
<1>11. ASSUME NEW p \in Products PROVE Changed(t, p)' = Moved(t, p)'
  <2>1. Changed(t, p) = Moved(t, p)
    BY DEF StockInv, MovedInv
  <2>2. Changed(t, p)' \in Int
    <3> DEFINE h == [b \in LotsOf(p) |-> Seen(t)'[b].qty - lot'[b].qty]
    <3>1. Changed(t, p)' = SumFunctionOnSet(h, LotsOf(p))
      BY DEF Changed, Change, LotsOf
    <3>2. \A b \in LotsOf(p) : h[b] \in Int
      <4>1. ASSUME NEW b \in LotsOf(p) PROVE h[b] \in Int
        <5>1. b \in Lots
          BY LotsOfTypes
        <5>2. lot'[b].qty \in Nat
          BY <1>3, <5>1 DEF Rows
        <5> QED BY <1>6, <1>7, <1>8, <5>1, <5>2
      <4> QED BY <4>1
    <3> HIDE DEF h
    <3> QED BY <3>1, <3>2, LotsOfTypes, SumType
  <2> QED BY <1>5, <1>9, <1>10, <2>1, <2>2
<1>12. MovedInv(t)'
  BY <1>11 DEF MovedInv
<1> QED BY <1>2, <1>12, LocalStock

(* The quantity of one lot changes. *)
LEMMA OneLotChanged ==
  ASSUME TypeInv, NEW t \in Txs, lot' = lot, NEW c \in Lots, NEW q \in Int,
         \A b \in Lots \ {c} : Seen(t)'[b].qty = Seen(t)[b].qty,
         Seen(t)'[c].qty = Seen(t)[c].qty + q,
         NEW p
  PROVE  Changed(t, p)' = Changed(t, p) + IF ProductOf[c] = p THEN q ELSE 0
<1> DEFINE f == Change(t, p)
           h == [b \in LotsOf(p) |-> Seen(t)'[b].qty - lot'[b].qty]
<1>1. Changed(t, p) = SumFunctionOnSet(f, LotsOf(p))
  BY DEF Changed
<1>2. Changed(t, p)' = SumFunctionOnSet(h, LotsOf(p))
  BY DEF Changed, Change, LotsOf
<1>3. ASSUME NEW b \in LotsOf(p)
      PROVE  /\ f[b] \in Int /\ h[b] \in Int
             /\ h[b] = IF b = c THEN f[b] + q ELSE f[b]
  <2>1. b \in Lots /\ h[b] = Seen(t)'[b].qty - lot[b].qty
    BY LotsOfTypes
  <2>2. f[b] = Seen(t)[b].qty - lot[b].qty /\ lot[b].qty \in Nat /\ Seen(t)[b].qty \in Nat
    BY ChangeTypes
  <2> QED BY <2>1, <2>2
<1>4. IsFiniteSet(LotsOf(p)) /\ (c \in LotsOf(p) <=> ProductOf[c] = p)
  BY LotsOfTypes DEF LotsOf
<1> HIDE DEF f, h
<1>5. SumFunctionOnSet(f, LotsOf(p)) \in Int
  BY <1>3, <1>4, SumType
<1>6. CASE ProductOf[c] = p
  <2>1. c \in LotsOf(p) /\ \A b \in LotsOf(p) \ {c} : f[b] = h[b]
    BY <1>3, <1>4, <1>6
  <2>2. SumFunctionOnSet(h, LotsOf(p)) = SumFunctionOnSet(f, LotsOf(p)) - f[c] + h[c]
    BY <1>3, <1>4, <2>1, SumChange
  <2>3. f[c] \in Int /\ h[c] = f[c] + q
    BY <1>3, <2>1
  <2> QED BY <1>1, <1>2, <1>5, <1>6, <2>2, <2>3
<1>7. CASE ProductOf[c] # p
  <2>1. \A b \in LotsOf(p) : f[b] = h[b]
    BY <1>3, <1>4, <1>7
  <2>2. SumFunctionOnSet(f, LotsOf(p)) = SumFunctionOnSet(h, LotsOf(p))
    BY <1>4, <2>1, SumSame
  <2> QED BY <1>1, <1>2, <1>5, <1>7, <2>2
<1> QED BY <1>6, <1>7

LEMMA ReturnStock == ASSUME Inv1, StockInv, NEW t \in Txs, ReturnLot(t) PROVE StockInv'
<1> DEFINE c == LineOf(t).lot
           q == IF Op(t) = "void" THEN LineOf(t).qty ELSE tx[t].req.qty
           lines == sale[tx[t].req.sale].lines
<1>1. TypeInv /\ TxInv(t)
  BY DocParts DEF Inv1
<1>2. /\ Local(t) /\ tx[t].pc = "return" /\ c \in Lots
      /\ tx'[t].req = tx[t].req /\ tx'[t].pc = "flip" /\ tx'[t].line = tx[t].line
      /\ DOMAIN tx'[t].held = DOMAIN tx[t].held \cup {c}
      /\ tx'[t].held[c].qty = Seen(t)[c].qty + q
      /\ \A b \in DOMAIN tx[t].held \ {c} : tx'[t].held[b] = tx[t].held[b]
  BY <1>1, ReturnEffect
<1>3. Op(t) \in {"void", "refund"} /\ tx[t].req \in Requests /\ Op(t)' = Op(t) /\ Open(t)
  BY <1>2, StepRequest DEF Open, Op
<1>4. lot' = lot /\ lot' \in [Lots -> Rows] /\ sale' = sale
  BY <1>1, <1>2 DEF Local, Frame, TypeInv
<1>5. /\ tx[t].req.sale \in Sales /\ LineOf(t).qty \in Nat /\ Product(t) = ProductOf[c]
      /\ lines \in Seq(Lines)
  BY <1>1, <1>3, ProductTypes, SaleTypes
<1>6. q \in Int
  BY <1>3, <1>5, RequestTypes DEF Op
<1>7. Product(t)' = Product(t)
  BY <1>2, <1>4, SameProduct
<1> HIDE DEF c
<1>8. /\ Seen(t)'[c].qty = Seen(t)[c].qty + q
      /\ \A b \in Lots \ {c} : Seen(t)'[b].qty = Seen(t)[b].qty
  <2>1. ASSUME NEW b \in Lots
        PROVE  /\ Seen(t)'[b] = IF b \in DOMAIN tx'[t].held THEN tx'[t].held[b] ELSE lot'[b]
               /\ Seen(t)[b] = IF b \in DOMAIN tx[t].held THEN tx[t].held[b] ELSE lot[b]
    BY <1>1, <1>4, SeenNext, SeenTypes
  <2>2. c \in DOMAIN tx'[t].held
    BY <1>2
  <2>3. Seen(t)'[c].qty = Seen(t)[c].qty + q
    BY <1>2, <2>1, <2>2
  <2>4. ASSUME NEW b \in Lots \ {c} PROVE Seen(t)'[b].qty = Seen(t)[b].qty
    BY <1>2, <1>4, <2>1
  <2> QED BY <2>3, <2>4
<1> HIDE DEF q
<1>9. ASSUME NEW p \in Products
      PROVE  Moved(t, p)' = Moved(t, p) + IF ProductOf[c] = p THEN q ELSE 0
  <2>1. CASE Op(t) = "void"
    <3> DEFINE n == tx[t].line
               I == 1..n - 1
    <3>1. n \in Nat \ {0} /\ n \in DOMAIN lines
      BY <1>1, <2>1, TxFields DEF TxInv, VoidInv
    <3>2. DOMAIN lines = 1..Len(lines) /\ Len(lines) \in Nat
      BY <1>5
    <3>3. I \in SUBSET DOMAIN lines /\ n \in DOMAIN lines \ I /\ I \cup {n} = 1..n
      BY <3>1, <3>2
    <3>4. lines[n].lot = c /\ lines[n].qty = q
      BY <2>1 DEF c, q, LineOf, Op
    <3>5. Moved(t, p) = SumOf(lines, I, p)
      BY <1>2, <2>1 DEF Moved, RestoredLines
    <3>6. Moved(t, p)' = SumOf(lines, 1..n, p)
      BY <1>2, <1>3, <1>4, <2>1 DEF Moved, RestoredLines, SumOf
    <3> HIDE DEF lines, n, I
    <3>7. SumOf(lines, I \cup {n}, p)
          = SumOf(lines, I, p) + IF ProductOf[lines[n].lot] = p THEN lines[n].qty ELSE 0
      BY <1>5, <3>3, SumOfMore
    <3> QED BY <3>3, <3>4, <3>5, <3>6, <3>7
  <2>2. CASE Op(t) = "refund"
    <3>1. Moved(t, p) = 0
      BY <1>2, <2>2 DEF Moved
    <3>2. Moved(t, p)' = IF Product(t) = p THEN tx[t].req.qty ELSE 0
      BY <1>2, <1>3, <1>7, <2>2 DEF Moved
    <3>3. q = tx[t].req.qty
      BY <2>2 DEF q
    <3> QED BY <1>5, <1>6, <3>1, <3>2, <3>3
  <2> QED BY <1>3, <2>1, <2>2
<1>10. ASSUME NEW p \in Products PROVE Changed(t, p)' = Moved(t, p)'
  <2>1. Changed(t, p) = Moved(t, p)
    BY DEF StockInv, MovedInv
  <2>2. Changed(t, p)' = Changed(t, p) + IF ProductOf[c] = p THEN q ELSE 0
    BY <1>1, <1>2, <1>4, <1>6, <1>8, OneLotChanged
  <2> QED BY <1>9, <2>1, <2>2
<1>11. MovedInv(t)'
  BY <1>10 DEF MovedInv
<1> QED BY <1>2, <1>11, LocalStock

LEMMA LotStartStock ==
  ASSUME Inv1, StockInv, NEW t \in Txs, NEW r \in Requests, Receive(t, r) \/ Dispose(t, r)
  PROVE  StockInv'
<1> DEFINE c == r.lot
           q == IF r.op = "receive" THEN r.qty ELSE - r.qty
<1>1. TypeInv /\ PhaseInv(t)
  BY DocParts DEF Inv1
<1>2. /\ Local(t) /\ tx[t].pc = "idle" /\ r.op \in {"receive", "dispose"} /\ c \in Lots
      /\ r.qty \in Nat
      /\ tx'[t].req = r /\ tx'[t].pc = "flip" /\ DOMAIN tx'[t].held = {c}
      /\ r.op = "receive" => tx'[t].held[c].qty = lot[c].qty + r.qty
      /\ r.op = "dispose" => tx'[t].held[c].qty = lot[c].qty - r.qty
  BY <1>1, ReceiveEffect, DisposeEffect, RequestTypes
<1>3. tx[t] = Idle /\ DOMAIN tx[t].held = {} /\ Op(t) = "none"
  BY <1>1, <1>2, IdleFields, OnlyIdle
<1>4. lot' = lot /\ lot' \in [Lots -> Rows] /\ lot[c].qty \in Nat
  BY <1>1, <1>2 DEF Local, Frame, TypeInv, Rows
<1>5. q \in Int /\ tx'[t].held[c].qty = lot[c].qty + q
  BY <1>2, <1>4
<1>6. Op(t)' = r.op /\ Product(t)' = ProductOf[c]
  BY <1>2 DEF Op, Product
<1>7. \A p : Moved(t, p)' = (IF ProductOf[c] = p THEN q ELSE 0) /\ Moved(t, p) = 0
  BY <1>2, <1>3, <1>6 DEF Moved
<1> HIDE DEF c, q
<1>8. /\ Seen(t)'[c].qty = Seen(t)[c].qty + q
      /\ \A b \in Lots \ {c} : Seen(t)'[b].qty = Seen(t)[b].qty
  <2>1. ASSUME NEW b \in Lots
        PROVE  /\ Seen(t)'[b] = IF b \in DOMAIN tx'[t].held THEN tx'[t].held[b] ELSE lot'[b]
               /\ Seen(t)[b] = IF b \in DOMAIN tx[t].held THEN tx[t].held[b] ELSE lot[b]
    BY <1>1, <1>4, SeenNext, SeenTypes
  <2>2. Seen(t)'[c].qty = Seen(t)[c].qty + q
    BY <1>2, <1>3, <1>5, <2>1
  <2>3. ASSUME NEW b \in Lots \ {c} PROVE Seen(t)'[b].qty = Seen(t)[b].qty
    BY <1>2, <1>3, <1>4, <2>1
  <2> QED BY <2>2, <2>3
<1>9. ASSUME NEW p \in Products PROVE Changed(t, p)' = Moved(t, p)'
  <2>1. Changed(t, p) = 0
    BY <1>7 DEF StockInv, MovedInv
  <2>2. Changed(t, p)' = Changed(t, p) + IF ProductOf[c] = p THEN q ELSE 0
    BY <1>1, <1>2, <1>4, <1>5, <1>8, OneLotChanged
  <2> QED BY <1>5, <1>7, <2>1, <2>2
<1>10. MovedInv(t)'
  BY <1>9 DEF MovedInv
<1> QED BY <1>2, <1>10, LocalStock

LEMMA BeginStock ==
  ASSUME Inv1, StockInv, NEW t \in Txs, NEW r \in Requests,
         StartSale(t, r) \/ ReadForVoid(t, r) \/ ReadForRefund(t, r)
  PROVE  StockInv'
<1>1. ASSUME NEW pc \in {"load", "return", "count"}, Begin(t, r, pc),
             \/ r.op = "sale" /\ pc = "load"
             \/ r.op = "void" /\ pc = "return"
             \/ r.op = "refund" /\ pc = "count"
      PROVE  StockInv'
  <2>1. /\ Local(t) /\ tx'[t].req = r /\ tx'[t].pc = pc /\ tx'[t].line = 1
        /\ tx'[t].held = <<>> /\ tx'[t].sold = <<>>
    BY <1>1, BeginEffect, DocParts DEF Inv1, Phases
  <2>2. lot' \in [Lots -> Rows]
    BY <2>1 DEF Local, Frame, Inv1, TypeInv
  <2>3. ASSUME NEW p PROVE Moved(t, p)' = 0
    <3>1. SumOf(tx'[t].sold, {}, p) = 0 /\ SumOf(sale'[r.sale].lines, {}, p) = 0
      BY SumOfNoLine
    <3>2. CASE r.op = "sale"
      <4>1. Moved(t, p)' = - SumOf(tx'[t].sold, {}, p)
        BY <2>1, <3>2, NothingHeld DEF Moved, Op, SumOf
      <4> QED BY <3>1, <4>1
    <3>3. CASE r.op = "void"
      <4>1. RestoredLines(t)' = {}
        BY <1>1, <2>1, <3>3 DEF RestoredLines
      <4> QED BY <2>1, <3>1, <3>3, <4>1 DEF Moved, Op, SumOf
    <3>4. CASE r.op = "refund"
      BY <1>1, <2>1, <3>4 DEF Moved, Op
    <3> QED BY <1>1, <3>2, <3>3, <3>4
  <2>4. MovedInv(t)'
    <3>1. \A p : Changed(t, p)' = 0
      <4>1. ASSUME NEW p PROVE Changed(t, p)' = 0
        BY <2>1, <2>2, NothingHeld, NothingChanged
      <4> QED BY <4>1
    <3> QED BY <2>3, <3>1 DEF MovedInv
  <2> QED BY <2>1, <2>4, LocalStock
<1> QED BY <1>1 DEF StartSale, ReadForVoid, ReadForRefund

(* The two sides of StockMatchesDocuments that commits change. *)
Came(p, in, out) == SumFunctionOnSet([b \in LotsOf(p) |-> in[b] - out[b]], LotsOf(p))
Gone(p, docs) == SumFunctionOnSet([s \in Sales |-> OutOf(docs[s], p)], Sales)
OutAt(doc, p) ==
  [i \in DOMAIN doc.lines |-> IF ProductOf[doc.lines[i].lot] = p
                              THEN Out(doc, doc.lines[i]) ELSE 0]

LEMMA OutTypes ==
  ASSUME NEW doc \in SaleRecords, NEW p
  PROVE  /\ IsFiniteSet(DOMAIN doc.lines) /\ doc.lines \in Seq(Lines)
         /\ \A i \in DOMAIN doc.lines :
              /\ doc.lines[i].qty \in Nat /\ doc.lines[i].refunded \in Nat
              /\ OutAt(doc, p)[i] \in Int
              /\ OutAt(doc, p)[i] = IF ProductOf[doc.lines[i].lot] = p
                                    THEN Out(doc, doc.lines[i]) ELSE 0
         /\ OutOf(doc, p) = SumFunctionOnSet(OutAt(doc, p), DOMAIN doc.lines)
         /\ OutOf(doc, p) \in Int
<1>1. doc.lines \in Seq(Lines)
  BY DEF SaleRecords
<1>2. /\ IsFiniteSet(DOMAIN doc.lines)
      /\ \A i \in DOMAIN doc.lines : doc.lines[i].qty \in Nat /\ doc.lines[i].refunded \in Nat
  BY <1>1, LinesFinite
<1>3. \A i \in DOMAIN doc.lines :
        /\ OutAt(doc, p)[i] = IF ProductOf[doc.lines[i].lot] = p
                              THEN Out(doc, doc.lines[i]) ELSE 0
        /\ OutAt(doc, p)[i] \in Int
  BY <1>2 DEF OutAt, Out
<1>4. OutOf(doc, p) = SumFunctionOnSet(OutAt(doc, p), DOMAIN doc.lines)
  BY DEF OutOf, OutAt
<1>5. SumFunctionOnSet(OutAt(doc, p), DOMAIN doc.lines) \in Int
  BY <1>2, <1>3, SumType
<1> QED BY <1>1, <1>2, <1>3, <1>4, <1>5

LEMMA GoneChange ==
  ASSUME NEW docs \in [Sales -> SaleRecords], NEW more \in [Sales -> SaleRecords],
         NEW s \in Sales, \A u \in Sales \ {s} : more[u] = docs[u], NEW p
  PROVE  /\ Gone(p, docs) \in Int /\ Gone(p, more) \in Int
         /\ Gone(p, more) = Gone(p, docs) - OutOf(docs[s], p) + OutOf(more[s], p)
         /\ OutOf(docs[s], p) \in Int /\ OutOf(more[s], p) \in Int
<1> DEFINE f == [u \in Sales |-> OutOf(docs[u], p)]
           e == [u \in Sales |-> OutOf(more[u], p)]
<1>1. \A u \in Sales : /\ f[u] = OutOf(docs[u], p) /\ e[u] = OutOf(more[u], p)
                       /\ f[u] \in Int /\ e[u] \in Int
  BY OutTypes
<1>2. \A u \in Sales \ {s} : f[u] = e[u]
  BY <1>1
<1>3. Gone(p, docs) = SumFunctionOnSet(f, Sales) /\ Gone(p, more) = SumFunctionOnSet(e, Sales)
  BY DEF Gone
<1> HIDE DEF f, e
<1>4. SumFunctionOnSet(e, Sales) = SumFunctionOnSet(f, Sales) - f[s] + e[s]
  <2>1. IsFiniteSet(Sales) /\ \A u \in Sales : f[u] \in Int /\ e[u] \in Int
    BY <1>1, SalesAssumption
  <2> QED BY <1>2, <2>1, SumChange
<1>5. SumFunctionOnSet(f, Sales) \in Int /\ SumFunctionOnSet(e, Sales) \in Int
  BY <1>1, SalesAssumption, SumType
<1> QED BY <1>1, <1>3, <1>4, <1>5

\* The same of a step.
LEMMA GoneStep ==
  ASSUME sale \in [Sales -> SaleRecords], sale' \in [Sales -> SaleRecords],
         NEW s \in Sales, \A u \in Sales \ {s} : sale'[u] = sale[u], NEW p
  PROVE  /\ Gone(p, sale) \in Int
         /\ Gone(p, sale') = Gone(p, sale) - OutOf(sale[s], p) + OutOf(sale'[s], p)
BY GoneChange

\* The other side: a step that changes what one lot received or lost.
LEMMA CameStep ==
  ASSUME received \in [Lots -> Nat], disposed \in [Lots -> Nat],
         received' \in [Lots -> Nat], disposed' \in [Lots -> Nat], NEW c \in Lots,
         \A b \in Lots \ {c} : received'[b] = received[b] /\ disposed'[b] = disposed[b], NEW p
  PROVE  /\ Came(p, received, disposed) \in Int
         /\ Came(p, received', disposed')
            = Came(p, received, disposed)
                + IF ProductOf[c] = p
                  THEN (received'[c] - disposed'[c]) - (received[c] - disposed[c]) ELSE 0
<1> DEFINE S == LotsOf(p)
           f == [b \in S |-> received[b] - disposed[b]]
           e == [b \in S |-> received'[b] - disposed'[b]]
<1>1. IsFiniteSet(S) /\ \A b \in S : b \in Lots /\ ProductOf[b] = p
  BY LotsOfTypes
<1>2. c \in S <=> ProductOf[c] = p
  BY DEF LotsOf
<1>3. /\ Came(p, received, disposed) = SumFunctionOnSet(f, S)
      /\ Came(p, received', disposed') = SumFunctionOnSet(e, S)
  BY DEF Came
<1> HIDE DEF S
<1>4. \A b \in S : f[b] \in Int /\ e[b] \in Int /\ (b # c => f[b] = e[b])
  BY <1>1
<1>5. c \in S => f[c] = received[c] - disposed[c] /\ e[c] = received'[c] - disposed'[c]
  OBVIOUS
<1> HIDE DEF f, e
<1>6. SumFunctionOnSet(f, S) \in Int /\ SumFunctionOnSet(e, S) \in Int
  BY <1>1, <1>4, SumType
<1>7. CASE c \in S
  <2>1. \A b \in S \ {c} : f[b] = e[b]
    BY <1>4
  <2>2. SumFunctionOnSet(e, S) = SumFunctionOnSet(f, S) - f[c] + e[c]
    <3>1. \A b \in S : f[b] \in Int /\ e[b] \in Int
      BY <1>4
    <3> DEFINE T == S \ {c}
    <3>2. IsFiniteSet(T) /\ \A b \in T : f[b] \in Int /\ e[b] \in Int
      BY <1>1, <3>1, FS_Subset
    <3> HIDE DEF T
    <3>3. SumFunctionOnSet(f, T) = SumFunctionOnSet(e, T)
      BY <2>1, <3>2, SumSame DEF T
    <3>4. SumFunctionOnSet(f, S) = f[c] + SumFunctionOnSet(f, T)
      BY <1>1, <1>7, <3>1, SumPick DEF T
    <3>5. SumFunctionOnSet(e, S) = e[c] + SumFunctionOnSet(e, T)
      BY <1>1, <1>7, <3>1, SumPick DEF T
    <3>6. SumFunctionOnSet(e, T) \in Int /\ f[c] \in Int /\ e[c] \in Int
      BY <1>7, <3>1, <3>2, SumType
    <3> QED BY <3>3, <3>4, <3>5, <3>6
  <2>3. /\ f[c] \in Int /\ e[c] \in Int
        /\ f[c] = received[c] - disposed[c] /\ e[c] = received'[c] - disposed'[c]
    BY <1>4, <1>7, <1>5
  <2> QED BY <1>2, <1>3, <1>6, <1>7, <2>2, <2>3
<1>8. CASE c \notin S
  <2>1. \A b \in S : f[b] = e[b]
    BY <1>4, <1>8
  <2>2. SumFunctionOnSet(f, S) = SumFunctionOnSet(e, S)
    BY <1>1, <2>1, SumSame
  <2> QED BY <1>2, <1>3, <1>6, <1>8, <2>2
<1> QED BY <1>7, <1>8

(* The sides have a type. *)
LEMMA SideTypes ==
  ASSUME NEW docs \in [Sales -> SaleRecords],
         NEW in \in [Lots -> Nat], NEW out \in [Lots -> Nat], NEW p
  PROVE  Gone(p, docs) \in Int /\ Came(p, in, out) \in Int
<1> DEFINE S == LotsOf(p)
           f == [b \in S |-> in[b] - out[b]]
           e == [u \in Sales |-> OutOf(docs[u], p)]
<1>1. IsFiniteSet(S) /\ \A b \in S : b \in Lots
  BY LotsOfTypes
<1>2. Came(p, in, out) = SumFunctionOnSet(f, S) /\ Gone(p, docs) = SumFunctionOnSet(e, Sales)
  BY DEF Came, Gone
<1>3. \A u \in Sales : e[u] \in Int
  BY OutTypes
<1> HIDE DEF S, e
<1>4. \A b \in S : f[b] \in Int
  BY <1>1
<1> HIDE DEF f
<1>5. SumFunctionOnSet(f, S) \in Int
  BY <1>1, <1>4, SumType
<1>6. SumFunctionOnSet(e, Sales) \in Int
  BY <1>3, SalesAssumption, SumType
<1> QED BY <1>2, <1>5, <1>6

(* A commit publishes what the transaction changed; if its documents move by as much, *)
(* stock and documents still match.                                                   *)
LEMMA CommitStock ==
  ASSUME Inv1, StockInv, TypeInv', NEW t \in Txs, CommitLots(t), Open(t),
         \A u \in Txs \ {t} : SameDoc(u),
         \A p \in Products : Came(p, received', disposed') - Gone(p, sale')
                             = Came(p, received, disposed) - Gone(p, sale) + Moved(t, p)
  PROVE  StockInv'
<1>1. /\ lot' \in [Lots -> Rows] /\ lot' = Seen(t) /\ tx'[t] = Ended
      /\ \A u \in Txs \ {t} : KeptBut(u) /\ (~Open(u) => tx'[u] = tx[u])
  BY CommitEffect DEF Inv1
<1>2. ASSUME NEW p \in Products
      PROVE  /\ Sum(LotsOf(p), lot') = Sum(LotsOf(p), lot) + Changed(t, p)
             /\ Sum(LotsOf(p), lot) \in Int /\ Changed(t, p) \in Int
  <2> DEFINE S == LotsOf(p)
             f == Quantities(S, lot)
             h == Quantities(S, lot')
             e == Change(t, p)
  <2>1. IsFiniteSet(S)
    BY LotsOfTypes
  <2>2. \A b \in S : f[b] \in Int /\ e[b] \in Int /\ h[b] = f[b] + e[b]
    BY <1>1, ChangeTypes DEF Inv1, Quantities
  <2>3. /\ Sum(S, lot) = SumFunctionOnSet(f, S) /\ Sum(S, lot') = SumFunctionOnSet(h, S)
        /\ Changed(t, p) = SumFunctionOnSet(e, S)
    BY <2>1, SumIsSum DEF Changed
  <2> HIDE DEF S, f, h, e
  <2>4. SumFunctionOnSet(h, S) = SumFunctionOnSet(f, S) + SumFunctionOnSet(e, S)
    BY <2>1, <2>2, SumPlus
  <2>5. SumFunctionOnSet(f, S) \in Int /\ SumFunctionOnSet(e, S) \in Int
    BY <2>1, <2>2, SumType
  <2> QED BY <2>3, <2>4, <2>5 DEF S
<1>3. ASSUME NEW p \in Products
      PROVE  Sum(LotsOf(p), lot') = Came(p, received', disposed') - Gone(p, sale')
  <2>1. Sum(LotsOf(p), lot) = Came(p, received, disposed) - Gone(p, sale)
    BY DEF StockInv, StockMatchesDocuments, Came, Gone
  <2>2. Changed(t, p) = Moved(t, p)
    BY DEF StockInv, MovedInv
  <2>3. /\ Came(p, received, disposed) \in Int /\ Gone(p, sale) \in Int
        /\ Came(p, received', disposed') \in Int /\ Gone(p, sale') \in Int
    BY SideTypes DEF Inv1, TypeInv
  <2> QED BY <1>2, <2>1, <2>2, <2>3
<1>4. StockMatchesDocuments'
  BY <1>3 DEF StockMatchesDocuments, Came, Gone, LotsOf, Sum, OutOf, Out
<1>5. ASSUME NEW u \in Txs \ {t} PROVE MovedInv(u)'
  <2>1. DOMAIN tx[t].held \cap DOMAIN tx[u].held = {} /\ DOMAIN tx[u].held \subseteq Lots
    BY StepRequest, TxFields DEF Inv1
  <2>2. \A b \in DOMAIN tx[u].held : lot'[b] = lot[b]
    BY <1>1, <2>1, SeenTypes, ZenonT(40) DEF Inv1
  <2> QED BY <1>1, <2>2, OtherMoved DEF StockInv
<1>6. MovedInv(t)'
  BY <1>1, EndedStock
<1> QED BY <1>4, <1>5, <1>6 DEF StockInv

(* The documents of a commit move by what it changed. *)
LEMMA SaleDocument ==
  ASSUME Inv1, NEW t \in Txs, CommitSale(t), NEW p \in Products
  PROVE  Gone(p, sale') = Gone(p, sale) - Moved(t, p) /\ Moved(t, p) \in Int
<1> DEFINE s == tx[t].req.sale
           sold == tx[t].sold
           new == [status |-> "COMPLETED", lines |-> sold]
<1>1. tx[t].pc = "commit" /\ Op(t) = "sale" /\ sale' = [sale EXCEPT ![s] = new]
  BY DEF CommitSale, Ready, Op
<1>2. TxInv(t) /\ s \in Sales
  BY <1>1, StepRequest, RequestTypes DEF Open, Op
<1>3. sold \in Seq(Lines) /\ sale \in [Sales -> SaleRecords]
  BY TxFields DEF Inv1, TypeInv
<1>4. sale[s].lines = <<>> /\ \A i \in DOMAIN sold : sold[i].refunded = 0
  BY <1>1, <1>2 DEF TxInv, SellInv, Inv1, DocInv, SaleInv
<1>5. Moved(t, p) = - SumOf(sold, DOMAIN sold, p)
  BY <1>1 DEF Moved
<1> HIDE DEF sold
<1>6. new \in SaleRecords /\ new.status = "COMPLETED" /\ new.lines = sold
  BY <1>3 DEF SaleRecords, SaleStatuses
<1> HIDE DEF new
<1>7. sale' \in [Sales -> SaleRecords] /\ sale'[s] = new
      /\ \A v \in Sales \ {s} : sale'[v] = sale[v]
  BY <1>1, <1>2, <1>3, <1>6
<1>8. /\ Gone(p, sale') = Gone(p, sale) - OutOf(sale[s], p) + OutOf(sale'[s], p)
      /\ Gone(p, sale) \in Int
  <2>1. sale' \in [Sales -> SaleRecords] /\ \A v \in Sales \ {s} : sale'[v] = sale[v]
    BY <1>7
  <2> HIDE DEF s
  <2> QED BY <1>2, <1>3, <2>1, GoneStep
<1>9. OutOf(sale[s], p) = 0
  <2>1. DOMAIN sale[s].lines = {}
    BY <1>4, NothingHeld
  <2>2. sale[s] \in SaleRecords
    BY <1>2, <1>3
  <2> QED BY <2>1, <2>2, OutTypes, SumOfNone
<1>10. OutOf(new, p) = SumOf(sold, DOMAIN sold, p)
  <2>1. \A i \in DOMAIN sold : sold[i].qty \in Nat
    BY <1>3, LinesFinite
  <2>2. [i \in DOMAIN sold |-> IF ProductOf[sold[i].lot] = p THEN Out(new, sold[i]) ELSE 0]
        = [i \in DOMAIN sold |-> IF ProductOf[sold[i].lot] = p THEN sold[i].qty ELSE 0]
    BY <1>4, <1>6, <2>1 DEF Out
  <2> QED BY <1>6, <2>2 DEF OutOf, SumOf
<1>11. SumOf(sold, DOMAIN sold, p) \in Int
  BY <1>3, SumOfType
<1> QED BY <1>5, <1>7, <1>8, <1>9, <1>10, <1>11

LEMMA VoidDocument ==
  ASSUME Inv1, NEW t \in Txs, CommitVoid(t), NEW p \in Products
  PROVE  Gone(p, sale') = Gone(p, sale) - Moved(t, p) /\ Moved(t, p) \in Int
<1> DEFINE s == tx[t].req.sale
           old == sale[s]
           new == [old EXCEPT !.status = "VOID"]
           lines == old.lines
<1>1. tx[t].pc = "commit" /\ Op(t) = "void" /\ sale' = [sale EXCEPT ![s].status = "VOID"]
  BY DEF CommitVoid, Ready, Op
<1>2. TxInv(t) /\ s \in Sales
  BY <1>1, StepRequest, RequestTypes DEF Open, Op
<1>3. sale \in [Sales -> SaleRecords] /\ old \in SaleRecords /\ lines \in Seq(Lines)
  BY <1>2, SaleTypes DEF Inv1, TypeInv
<1>4. /\ old.status = "COMPLETED" /\ tx[t].line = Len(lines)
      /\ \A i \in DOMAIN lines : lines[i].refunded = 0
  <2>1. SaleInv(s)
    BY <1>2 DEF Inv1, DocInv
  <2> QED BY <1>1, <1>2, <2>1 DEF TxInv, VoidInv, SaleInv
<1>5. Moved(t, p) = SumOf(lines, DOMAIN lines, p)
  <2>1. RestoredLines(t) = DOMAIN lines
    BY <1>1, <1>3, <1>4 DEF RestoredLines
  <2> QED BY <1>1, <2>1 DEF Moved
<1>6. sale' = [sale EXCEPT ![s] = new]
  BY <1>1
<1>7. new \in SaleRecords /\ new.status = "VOID" /\ new.lines = lines
  BY <1>3 DEF SaleRecords, SaleStatuses
<1> HIDE DEF new
<1>8. sale' \in [Sales -> SaleRecords] /\ sale'[s] = new
      /\ \A v \in Sales \ {s} : sale'[v] = sale[v]
  BY <1>2, <1>3, <1>6, <1>7
<1>9. /\ Gone(p, sale') = Gone(p, sale) - OutOf(sale[s], p) + OutOf(sale'[s], p)
      /\ Gone(p, sale) \in Int
  BY <1>2, <1>3, <1>8, GoneStep
<1> HIDE DEF lines
<1>10. OutOf(old, p) = SumOf(lines, DOMAIN lines, p)
  <2>1. \A i \in DOMAIN lines : lines[i].qty \in Nat
    BY <1>3, LinesFinite
  <2>2. [i \in DOMAIN lines |-> IF ProductOf[lines[i].lot] = p THEN Out(old, lines[i]) ELSE 0]
        = [i \in DOMAIN lines |-> IF ProductOf[lines[i].lot] = p THEN lines[i].qty ELSE 0]
    BY <1>4, <2>1 DEF Out
  <2>3. OutOf(old, p) = SumFunctionOnSet(
          [i \in DOMAIN lines |-> IF ProductOf[lines[i].lot] = p THEN Out(old, lines[i]) ELSE 0],
          DOMAIN lines)
    BY DEF OutOf, lines
  <2> QED BY <2>2, <2>3 DEF SumOf
<1>11. OutOf(new, p) = 0
  <2>1. \A i \in DOMAIN lines : OutAt(new, p)[i] = 0
    BY <1>4, <1>7, OutTypes DEF Out
  <2> QED BY <1>7, <2>1, OutTypes, SumZero
<1>12. SumOf(lines, DOMAIN lines, p) \in Int
  BY <1>3, SumOfType
<1> HIDE DEF old
<1>13. OutOf(sale[s], p) = SumOf(lines, DOMAIN lines, p)
  BY <1>10 DEF old
<1> QED BY <1>5, <1>8, <1>9, <1>11, <1>12, <1>13

LEMMA RefundDocument ==
  ASSUME Inv1, NEW t \in Txs, CommitRefund(t), NEW p \in Products
  PROVE  Gone(p, sale') = Gone(p, sale) - Moved(t, p) /\ Moved(t, p) \in Int
<1> DEFINE r == tx[t].req
           s == r.sale
           j == r.line
           doc == sale[s]
           old == doc.lines
           l == old[j]
           x == [l EXCEPT !.refunded = @ + r.qty]
           lines == [old EXCEPT ![j].refunded = @ + r.qty]
           new == [status |-> Marked(doc.status, FullyRefunded(lines)), lines |-> lines]
<1>1. tx[t].pc = "end" /\ sale' = [sale EXCEPT ![s] = new]
  BY DEF CommitRefund, Ready, Inv1, TypeInv
<1>2. TxInv(t) /\ Op(t) = "refund" /\ s \in Sales /\ r.qty \in Nat \ {0}
  BY <1>1, StepRequest, RequestTypes DEF Open, Op
<1>3. sale \in [Sales -> SaleRecords] /\ doc \in SaleRecords /\ old \in Seq(Lines)
      /\ doc.status \in SaleStatuses
  BY <1>2, SaleTypes DEF Inv1, TypeInv
<1>4. j \in DOMAIN old
  BY <1>2 DEF TxInv, RefundInv
<1>5. /\ Moved(t, p) = IF ProductOf[l.lot] = p THEN r.qty ELSE 0
  BY <1>1, <1>2 DEF Moved, Product, LineOf, Op
<1> HIDE DEF old
<1>6. l \in Lines
  BY <1>3, <1>4, SeqElement
<1> HIDE DEF l
<1>7. x \in Lines /\ x.lot = l.lot /\ x.qty = l.qty /\ x.refunded = l.refunded + r.qty
      /\ l.refunded \in Nat /\ l.qty \in Nat
  BY <1>2, <1>6 DEF Lines
<1>8. lines = [old EXCEPT ![j] = x]
  BY <1>3, <1>4 DEF l
<1> HIDE DEF x, lines
<1>9. /\ lines \in Seq(Lines) /\ DOMAIN lines = DOMAIN old /\ lines[j] = x
      /\ \A i \in DOMAIN old \ {j} : lines[i] = old[i]
  BY <1>3, <1>4, <1>7, <1>8
<1>10. /\ new \in SaleRecords /\ new.lines = lines
       /\ new.status = "VOID" <=> doc.status = "VOID"
  BY <1>3, <1>9 DEF SaleRecords, Marked, SaleStatuses
<1> HIDE DEF new
<1>11. sale' \in [Sales -> SaleRecords] /\ sale'[s] = new
       /\ \A v \in Sales \ {s} : sale'[v] = sale[v]
  BY <1>1, <1>2, <1>3, <1>10
<1>12. /\ Gone(p, sale') = Gone(p, sale) - OutOf(doc, p) + OutOf(new, p)
       /\ Gone(p, sale) \in Int
  <2>1. sale' \in [Sales -> SaleRecords] /\ \A v \in Sales \ {s} : sale'[v] = sale[v]
    BY <1>11
  <2> HIDE DEF s
  <2>2. /\ Gone(p, sale') = Gone(p, sale) - OutOf(sale[s], p) + OutOf(sale'[s], p)
        /\ Gone(p, sale) \in Int
    BY <1>2, <1>3, <2>1, GoneStep
  <2> QED BY <1>11, <2>2
<1> HIDE DEF doc
<1> DEFINE f == OutAt(doc, p)
           e == OutAt(new, p)
           Void == IF doc.status = "VOID" THEN 0 ELSE l.qty
<1>13. /\ OutOf(doc, p) = SumFunctionOnSet(f, DOMAIN old)
       /\ OutOf(new, p) = SumFunctionOnSet(e, DOMAIN old)
       /\ IsFiniteSet(DOMAIN old)
       /\ \A i \in DOMAIN old : f[i] \in Int /\ e[i] \in Int
  BY <1>3, <1>9, <1>10, OutTypes DEF old
<1>14. \A i \in DOMAIN old :
         /\ f[i] = IF ProductOf[old[i].lot] = p THEN Out(doc, old[i]) ELSE 0
         /\ e[i] = IF ProductOf[lines[i].lot] = p THEN Out(new, lines[i]) ELSE 0
  BY <1>3, <1>9, <1>10, OutTypes DEF old
<1> HIDE DEF f, e
<1>15. \A i \in DOMAIN old \ {j} : f[i] = e[i]
  BY <1>9, <1>10, <1>14 DEF Out
<1>16. e[j] = f[j] - IF ProductOf[l.lot] = p THEN r.qty ELSE 0
  <2>1. /\ f[j] = IF ProductOf[l.lot] = p THEN Void - l.refunded ELSE 0
        /\ e[j] = IF ProductOf[l.lot] = p THEN Void - (l.refunded + r.qty) ELSE 0
    <3>1. old[j] = l /\ lines[j] = x
      BY <1>9 DEF l
    <3> QED BY <1>4, <1>7, <1>10, <1>14, <3>1 DEF Out
  <2>2. Void \in Int /\ l.refunded \in Int /\ r.qty \in Int
    BY <1>2, <1>7
  <2> HIDE DEF Void, r
  <2> QED BY <2>1, <2>2
<1>17. SumFunctionOnSet(e, DOMAIN old) = SumFunctionOnSet(f, DOMAIN old) - f[j] + e[j]
  <2> DEFINE D == DOMAIN old
  <2>1. /\ IsFiniteSet(D) /\ j \in D /\ \A i \in D : f[i] \in Int /\ e[i] \in Int
        /\ \A i \in D \ {j} : f[i] = e[i]
    BY <1>4, <1>13, <1>15
  <2> HIDE DEF D, j
  <2>2. SumFunctionOnSet(e, D) = SumFunctionOnSet(f, D) - f[j] + e[j]
    BY <2>1, SumChange
  <2> QED BY <2>2 DEF D
<1>18. SumFunctionOnSet(f, DOMAIN old) \in Int /\ f[j] \in Int
  BY <1>4, <1>13, SumType
<1>19. Moved(t, p) \in Int
  BY <1>2, <1>5
<1> QED BY <1>5, <1>12, <1>13, <1>16, <1>17, <1>18, <1>19

LEMMA LotDocument ==
  ASSUME Inv1, NEW t \in Txs, CommitReceipt(t) \/ CommitDisposal(t), NEW p \in Products
  PROVE  /\ Came(p, received', disposed') = Came(p, received, disposed) + Moved(t, p)
         /\ Came(p, received, disposed) \in Int /\ Moved(t, p) \in Int
<1> DEFINE c == tx[t].req.lot
           q == IF Op(t) = "receive" THEN tx[t].req.qty ELSE - tx[t].req.qty
<1>1. tx[t].pc = "commit" /\ Op(t) \in {"receive", "dispose"}
  BY DEF CommitReceipt, CommitDisposal, Ready, Op
<1>2. c \in Lots /\ tx[t].req.qty \in Nat
  BY <1>1, StepRequest, RequestTypes DEF Open, Op
<1>3. received \in [Lots -> Nat] /\ disposed \in [Lots -> Nat]
  BY DEF Inv1, TypeInv
<1>4. received' \in [Lots -> Nat] /\ disposed' \in [Lots -> Nat]
  BY LotCommitKeeps DEF Inv1, TypeInv
<1>5. /\ received'[c] - disposed'[c] = received[c] - disposed[c] + q
      /\ \A b \in Lots \ {c} : received'[b] = received[b] /\ disposed'[b] = disposed[b]
  <2>1. CASE CommitReceipt(t)
    <3>1. /\ Op(t) = "receive" /\ disposed' = disposed
          /\ received' = [received EXCEPT ![c] = @ + tx[t].req.qty]
      BY <2>1 DEF CommitReceipt, Op
    <3> QED BY <1>2, <1>3, <3>1
  <2>2. CASE CommitDisposal(t)
    <3>1. /\ Op(t) = "dispose" /\ received' = received
          /\ disposed' = [disposed EXCEPT ![c] = @ + tx[t].req.qty]
      BY <2>2 DEF CommitDisposal, Op
    <3> QED BY <1>2, <1>3, <3>1
  <2> QED BY <2>1, <2>2
<1>6. Moved(t, p) = IF ProductOf[c] = p THEN q ELSE 0
  BY <1>1, <1>2 DEF Moved, Product, Op
<1>7. q \in Int
  BY <1>2
<1> HIDE DEF c, q
<1>8. /\ Came(p, received, disposed) \in Int
      /\ Came(p, received', disposed')
         = Came(p, received, disposed) + IF ProductOf[c] = p THEN q ELSE 0
  <2>1. /\ Came(p, received, disposed) \in Int
        /\ Came(p, received', disposed')
           = Came(p, received, disposed)
               + IF ProductOf[c] = p
                 THEN (received'[c] - disposed'[c]) - (received[c] - disposed[c]) ELSE 0
    <3>1. \A b \in Lots \ {c} : received'[b] = received[b] /\ disposed'[b] = disposed[b]
      BY <1>5
    <3> QED BY <1>2, <1>3, <1>4, <3>1, CameStep
  <2>2. received[c] \in Int /\ disposed[c] \in Int
    BY <1>2, <1>3
  <2> QED BY <1>5, <1>7, <2>1, <2>2
<1> QED BY <1>6, <1>7, <1>8

LEMMA CommitsStock ==
  ASSUME Inv1, StockInv, NEW t \in Txs,
         CommitSale(t) \/ CommitVoid(t) \/ CommitRefund(t) \/ CommitReceipt(t) \/ CommitDisposal(t)
  PROVE  StockInv'
<1>1. CommitLots(t) /\ Open(t)
  BY DEF CommitSale, CommitVoid, CommitRefund, CommitReceipt, CommitDisposal, Ready, Open
<1>2. /\ sale \in [Sales -> SaleRecords]
      /\ received \in [Lots -> Nat] /\ disposed \in [Lots -> Nat]
  BY DEF Inv1, TypeInv
<1>3. CASE CommitSale(t) \/ CommitVoid(t) \/ CommitRefund(t)
  <2>1. received' = received /\ disposed' = disposed
    BY <1>3 DEF CommitSale, CommitVoid, CommitRefund
  <2>2. Inv1' /\ \A u \in Txs \ {t} : SameDoc(u)
    BY <1>3, CommitSaleKeeps, CommitVoidKeeps, CommitRefundKeeps
  <2>3. ASSUME NEW p \in Products
        PROVE  Came(p, received', disposed') - Gone(p, sale')
               = Came(p, received, disposed) - Gone(p, sale) + Moved(t, p)
    <3>1. Gone(p, sale') = Gone(p, sale) - Moved(t, p) /\ Moved(t, p) \in Int
      BY <1>3, SaleDocument, VoidDocument, RefundDocument
    <3>2. Gone(p, sale) \in Int /\ Came(p, received, disposed) \in Int
      BY <1>2, SideTypes
    <3>3. Came(p, received', disposed') = Came(p, received, disposed)
      BY <2>1
    <3> QED BY <3>1, <3>2, <3>3
  <2> QED BY <1>1, <2>2, <2>3, CommitStock DEF Inv1
<1>4. CASE CommitReceipt(t) \/ CommitDisposal(t)
  <2>1. sale' = sale /\ overlapped' = overlapped
    BY <1>4 DEF CommitReceipt, CommitDisposal
  <2>2. Inv1' /\ \A u \in Txs \ {t} : SameDoc(u)
    BY <1>4, <2>1, LotCommitKeeps, SameDocIfUnchanged DEF Inv1
  <2>3. ASSUME NEW p \in Products
        PROVE  Came(p, received', disposed') - Gone(p, sale')
               = Came(p, received, disposed) - Gone(p, sale) + Moved(t, p)
    <3>1. /\ Came(p, received', disposed') = Came(p, received, disposed) + Moved(t, p)
          /\ Came(p, received, disposed) \in Int /\ Moved(t, p) \in Int
      BY <1>4, LotDocument
    <3>2. Gone(p, sale) \in Int
      BY <1>2, SideTypes
    <3>3. Gone(p, sale') = Gone(p, sale)
      BY <2>1
    <3> QED BY <3>1, <3>2, <3>3
  <2> QED BY <1>1, <2>2, <2>3, CommitStock DEF Inv1
<1> QED BY <1>3, <1>4

LEMMA QuarantineStock ==
  ASSUME Inv1, StockInv, NEW t \in Txs, NEW r \in Requests, Quarantine(t, r) PROVE StockInv'
<1>1. /\ r.lot \in Lots /\ \A u \in Txs : r.lot \notin DOMAIN tx[u].held
      /\ lot' \in [Lots -> Rows] /\ lot'[r.lot].qty = lot[r.lot].qty
      /\ \A b \in Lots \ {r.lot} : lot'[b] = lot[b]
      /\ tx'[t] = Ended
      /\ \A u \in Txs \ {t} : KeptBut(u) /\ (~Open(u) => tx'[u] = tx[u])
      /\ sale' = sale /\ received' = received /\ disposed' = disposed
      /\ overlapped' = overlapped
  BY QuarantineEffect, DocParts DEF Inv1
<1>2. ASSUME NEW p \in Products PROVE Sum(LotsOf(p), lot') = Sum(LotsOf(p), lot)
  <2>1. \A b \in LotsOf(p) : b \in Lots /\ lot'[b].qty = lot[b].qty
    BY <1>1, LotsOfTypes
  <2>2. [b \in LotsOf(p) |-> lot'[b].qty] = [b \in LotsOf(p) |-> lot[b].qty]
    BY <2>1
  <2> QED BY <2>2 DEF Sum
<1>3. StockMatchesDocuments'
  <2>1. \A p \in Products :
          Sum(LotsOf(p), lot) = Came(p, received, disposed) - Gone(p, sale)
    BY DEF StockInv, StockMatchesDocuments, Came, Gone
  <2>2. \A p \in Products :
          Sum(LotsOf(p), lot') = Came(p, received', disposed') - Gone(p, sale')
    BY <1>1, <1>2, <2>1
  <2> QED BY <2>2 DEF StockMatchesDocuments, Came, Gone, LotsOf, Sum, OutOf, Out
<1>4. ASSUME NEW u \in Txs \ {t} PROVE MovedInv(u)'
  <2>1. DOMAIN tx[u].held \subseteq Lots
    BY TxFields DEF Inv1
  <2>2. \A b \in DOMAIN tx[u].held : lot'[b] = lot[b]
    BY <1>1, <2>1
  <2>3. SameDoc(u)
    BY <1>1, SameDocIfUnchanged DEF Inv1
  <2> QED BY <1>1, <2>2, <2>3, OtherMoved DEF StockInv
<1>5. MovedInv(t)'
  BY <1>1, EndedStock
<1> QED BY <1>3, <1>4, <1>5 DEF StockInv

LEMMA SameStock == ASSUME StockInv, UNCHANGED vars PROVE StockInv'
<1>1. lot' = lot /\ sale' = sale /\ tx' = tx /\ received' = received /\ disposed' = disposed
  BY DEF vars, history
<1>2. StockMatchesDocuments'
  BY <1>1 DEF StockInv, StockMatchesDocuments
<1>3. ASSUME NEW t \in Txs, NEW p \in Products
      PROVE  Changed(t, p)' = Changed(t, p) /\ Moved(t, p)' = Moved(t, p)
  <2>1. Product(t)' = Product(t) /\ RestoredLines(t)' = RestoredLines(t) /\ Op(t)' = Op(t)
        /\ Seen(t)' = Seen(t)
    BY <1>1 DEF Product, LineOf, RestoredLines, Op, Seen
  <2>2. Changed(t, p)' = Changed(t, p)
    BY <1>1, <2>1 DEF Changed, Change, LotsOf
  <2>3. Moved(t, p)' = Moved(t, p)
    BY <1>1, <2>1 DEF Moved, SumOf
  <2> QED BY <2>2, <2>3
<1> QED BY <1>2, <1>3 DEF StockInv, MovedInv

LEMMA StockStep == ASSUME Inv1, StockInv, Next PROVE StockInv'
<1>1. ASSUME NEW t \in Txs, Steps(t) PROVE StockInv'
  <2>1. Shortfall(t) \/ Break(t) => Fail(t)
    BY DEF Shortfall, Break
  <2> QED BY <1>1, <2>1, LoadStock, LockLotStock, DeductStock, FlipStock, SumStock, WriteStock,
             FailStock, GotoStock, ReturnStock, CommitsStock
          DEF Steps
<1>2. ASSUME NEW t \in Txs, NEW r \in Requests, Starts(t, r) PROVE StockInv'
  BY <1>2, BeginStock, LotStartStock, QuarantineStock DEF Starts
<1>3. UNCHANGED vars => StockInv'
  BY SameStock
<1> QED BY <1>1, <1>2, <1>3 DEF Next, Rest

(* At the start: what the sales took from the lots of a product is what they are out. *)
LEMMA TakenIsOut ==
  ASSUME NEW s \in Sales, NEW p
  PROVE  SumFunctionOnSet([b \in LotsOf(p) |-> TakenFrom(Past[s].lines, b)], LotsOf(p))
           = OutOf(Past[s], p)
<1> DEFINE S == LotsOf(p)
           lines == Past[s].lines
           D == DOMAIN lines
           g == [b \in S |-> [i \in D |-> IF lines[i].lot = b THEN lines[i].qty ELSE 0]]
           h == [i \in D |-> [b \in S |-> g[b][i]]]
           e == [i \in D |-> IF ProductOf[lines[i].lot] = p THEN lines[i].qty ELSE 0]
<1>1. IsFiniteSet(S) /\ \A b \in S : b \in Lots /\ ProductOf[b] = p
  BY LotsOfTypes
<1>2. Past[s] \in SaleRecords /\ lines \in Seq(Lines)
  BY PastTypes DEF SaleRecords
<1>3. \A i \in D : /\ lines[i].lot \in Lots /\ lines[i].qty \in Nat /\ lines[i].refunded = 0
                   /\ lines[i].lot \in S <=> ProductOf[lines[i].lot] = p
  BY PastTypes DEF LotsOf
<1>4. Past[s].status # "VOID"
  BY PastTypes
<1> HIDE DEF S
<1>5. IsFiniteSet(D)
  BY <1>2, LinesFinite
<1>6. OutOf(Past[s], p) = SumFunctionOnSet(e, D)
  <2>1. [i \in D |-> IF ProductOf[lines[i].lot] = p THEN Out(Past[s], lines[i]) ELSE 0] = e
    BY <1>3, <1>4 DEF Out
  <2> QED BY <2>1 DEF OutOf
<1>7. [b \in S |-> TakenFrom(lines, b)] = [b \in S |-> SumFunctionOnSet(g[b], D)]
  <2>1. ASSUME NEW b \in S PROVE TakenFrom(lines, b) = SumFunctionOnSet(g[b], D)
    BY DEF TakenFrom
  <2> QED BY <2>1
<1> HIDE DEF lines, D
<1>8. \A b \in S : \A i \in D : g[b][i] = IF lines[i].lot = b THEN lines[i].qty ELSE 0
  OBVIOUS
<1> HIDE DEF g
<1>9. \A b \in S : \A i \in D : g[b][i] \in Int
  BY <1>3, <1>8
<1>10. SumFunctionOnSet([b \in S |-> SumFunctionOnSet(g[b], D)], S)
       = SumFunctionOnSet([i \in D |-> SumFunctionOnSet([b \in S |-> g[b][i]], S)], D)
  BY <1>1, <1>5, <1>9, SumSwap
<1>11. ASSUME NEW i \in D PROVE SumFunctionOnSet(h[i], S) = e[i]
  <2> DEFINE k == h[i]
             c == lines[i].lot
  <2>1. \A b \in S : k[b] = IF c = b THEN lines[i].qty ELSE 0
    BY <1>8
  <2>2. /\ e[i] = IF ProductOf[c] = p THEN lines[i].qty ELSE 0
        /\ lines[i].qty \in Int /\ (c \in S <=> ProductOf[c] = p)
    BY <1>3
  <2> HIDE DEF k, c, h, e
  <2>3. CASE c \in S
    <3>1. c \in S /\ k[c] = lines[i].qty /\ k[c] \in Int /\ \A b \in S \ {c} : k[b] = 0
      BY <2>1, <2>2, <2>3
    <3>2. SumFunctionOnSet(k, S) = k[c]
      BY <1>1, <3>1, SumOfOne
    <3> QED BY <2>2, <2>3, <3>1, <3>2 DEF k
  <2>4. CASE c \notin S
    <3>1. \A b \in S : k[b] = 0
      BY <2>1, <2>4
    <3>2. SumFunctionOnSet(k, S) = 0
      BY <1>1, <3>1, SumZero
    <3> QED BY <2>2, <2>4, <3>2 DEF k
  <2> QED BY <2>3, <2>4
<1>12. [i \in D |-> SumFunctionOnSet([b \in S |-> g[b][i]], S)] = e
  BY <1>11
<1> HIDE DEF e
<1> QED BY <1>6, <1>7, <1>10, <1>12 DEF S, lines

LEMMA InitStock == ASSUME Init PROVE StockInv
<1>1. /\ lot = Opening /\ sale = Past /\ \A t \in Txs : tx[t] = Idle
      /\ \A b \in Lots : /\ received[b] = Opening[b].qty + SumFunctionOnSet(
                              [s \in Sales |-> TakenFrom(Past[s].lines, b)], Sales)
                         /\ disposed[b] = 0
  BY DEF Init
<1>2. ASSUME NEW p \in Products
      PROVE  Sum(LotsOf(p), Opening) = Came(p, received, disposed) - Gone(p, Past)
  <2> DEFINE S == LotsOf(p)
             g == [b \in S |-> [s \in Sales |-> TakenFrom(Past[s].lines, b)]]
             f == Quantities(S, Opening)
             e == [b \in S |-> SumFunctionOnSet(g[b], Sales)]
             h == [b \in S |-> received[b] - disposed[b]]
             out == [s \in Sales |-> OutOf(Past[s], p)]
  <2>1. IsFiniteSet(S) /\ \A b \in S : b \in Lots
    BY LotsOfTypes
  <2>2. ASSUME NEW s \in Sales
        PROVE  SumFunctionOnSet([b \in S |-> TakenFrom(Past[s].lines, b)], S) = out[s]
    BY TakenIsOut
  <2>3. /\ Sum(S, Opening) = SumFunctionOnSet(f, S)
        /\ Came(p, received, disposed) = SumFunctionOnSet(h, S)
        /\ Gone(p, Past) = SumFunctionOnSet(out, Sales)
    BY <2>1, SumIsSum DEF Came, Gone
  <2>4. ASSUME NEW b \in S
        PROVE  /\ e[b] = SumFunctionOnSet([s \in Sales |-> TakenFrom(Past[s].lines, b)], Sales)
               /\ e[b] \in Int /\ f[b] \in Int /\ h[b] = f[b] + e[b]
               /\ \A s \in Sales : g[b][s] = TakenFrom(Past[s].lines, b) /\ g[b][s] \in Int
    <3>1. b \in Lots
      BY <2>1
    <3> HIDE DEF S
    <3>2. e[b] = SumFunctionOnSet([s \in Sales |-> TakenFrom(Past[s].lines, b)], Sales)
      OBVIOUS
    <3>3. f[b] = Opening[b].qty /\ f[b] \in Nat
      BY <3>1, LotsAssumption DEF Quantities, Rows
    <3>4. h[b] = received[b] - disposed[b]
      OBVIOUS
    <3>5. \A s \in Sales : g[b][s] = TakenFrom(Past[s].lines, b) /\ g[b][s] \in Int
      <4>1. \A s \in Sales : g[b][s] = TakenFrom(Past[s].lines, b)
        OBVIOUS
      <4>2. \A s \in Sales : TakenFrom(Past[s].lines, b) \in Nat
        BY <3>1, PastTakenTypes
      <4> HIDE DEF g
      <4> QED BY <4>1, <4>2
    <3>6. e[b] \in Nat
      BY <3>1, <3>2, PastTakenTypes
    <3> HIDE DEF e, f, h, g
    <3>7. h[b] = f[b] + e[b]
      BY <1>1, <3>1, <3>2, <3>3, <3>4, <3>6
    <3> QED BY <3>2, <3>3, <3>5, <3>6, <3>7
  <2> HIDE DEF S
  <2>5. [s \in Sales |-> SumFunctionOnSet([b \in S |-> g[b][s]], S)] = out
    <3>1. ASSUME NEW s \in Sales PROVE SumFunctionOnSet([b \in S |-> g[b][s]], S) = out[s]
      <4>1. [b \in S |-> g[b][s]] = [b \in S |-> TakenFrom(Past[s].lines, b)]
        OBVIOUS
      <4> HIDE DEF g
      <4> QED BY <2>2, <4>1
    <3> QED BY <3>1
  <2> HIDE DEF f, h, g, out
  <2>6. SumFunctionOnSet(e, S) = SumFunctionOnSet(out, Sales)
    <3>1. \A b \in S : \A s \in Sales : g[b][s] \in Int
      BY <2>4
    <3>2. IsFiniteSet(Sales)
      BY SalesAssumption
    <3>3. SumFunctionOnSet(e, S)
          = SumFunctionOnSet([s \in Sales |-> SumFunctionOnSet([b \in S |-> g[b][s]], S)], Sales)
      BY <2>1, <3>1, <3>2, SumSwap
    <3> QED BY <2>5, <3>3
  <2> HIDE DEF e
  <2>7. SumFunctionOnSet(h, S) = SumFunctionOnSet(f, S) + SumFunctionOnSet(e, S)
    <3>1. \A b \in S : f[b] \in Int /\ e[b] \in Int /\ h[b] = f[b] + e[b]
      BY <2>4
    <3> QED BY <2>1, <3>1, SumPlus
  <2>8. SumFunctionOnSet(f, S) \in Int /\ SumFunctionOnSet(e, S) \in Int
    BY <2>1, <2>4, SumType
  <2> QED BY <2>3, <2>6, <2>7, <2>8 DEF S
<1>3. StockMatchesDocuments
  BY <1>1, <1>2 DEF StockMatchesDocuments, Came, Gone
<1>4. ASSUME NEW t \in Txs, NEW p \in Products PROVE Changed(t, p) = Moved(t, p)
  <2>1. tx[t].held = <<>> /\ Op(t) = "none"
    BY <1>1, OnlyIdle
  <2>2. \A b \in LotsOf(p) : Change(t, p)[b] = 0
    <3>1. ASSUME NEW b \in LotsOf(p) PROVE Change(t, p)[b] = 0
      <4>1. b \in Lots /\ TypeInv
        BY LotsOfTypes, InitInv1 DEF Inv1
      <4>2. Seen(t)[b] = lot[b] /\ lot[b].qty \in Nat
        BY <2>1, <4>1, SeenTypes, NothingHeld DEF TypeInv, Rows
      <4> QED BY <4>1, <4>2, ChangeTypes
    <3> QED BY <3>1
  <2>3. Changed(t, p) = 0
    BY <2>2, LotsOfTypes, SumZero DEF Changed
  <2> QED BY <2>1, <2>3 DEF Moved
<1> QED BY <1>3, <1>4 DEF StockInv, MovedInv

(* Whatever runs at once, the stock of a product is what was received less what its      *)
(* documents took out: selectLots and consumeLot take from the lots exactly what the     *)
(* sale line says, voidSale and refundSale put back exactly what their lines say, and a  *)
(* transaction that is rolled back on the way (a second void, a deadlock) leaves nothing. *)
THEOREM StockAlwaysMatches == Spec => []StockMatchesDocuments
<1>1. Init => StockInv
  BY InitStock
<1>2. Inv1 /\ StockInv /\ [Next]_vars => StockInv'
  <2>1. ASSUME StockInv, UNCHANGED vars PROVE StockInv'
    BY <2>1, SameStock
  <2> QED BY <2>1, StockStep
<1>3. StockInv => StockMatchesDocuments
  BY DEF StockInv
<1> QED BY <1>1, <1>2, <1>3, Inv1Holds, PTL DEF Spec
=============================================================================
