---------------------------- MODULE Stock_proofs ----------------------------
(***************************************************************************)
(* Proofs about the two books of consumables, for any places, consumables, *)
(* lots, containers, users and quantities.                                 *)
(***************************************************************************)
EXTENDS LotIssues, FiniteSetTheorems, TLAPS

-----------------------------------------------------------------------------
(* Sums: what SumFunction of the library adds up does not depend on the    *)
(* order it is added up in.                                                *)

(* Of the subsets of a finite set that are bad, one has no smaller one.    *)
LEMMA SmallestSubset ==
    ASSUME NEW S, IsFiniteSet(S), NEW B, B \subseteq SUBSET S, B # {}
    PROVE  \E T \in B : \A U \in B : U \subseteq T => U = T
<1> DEFINE R == StrictSubsetOrdering(S)
<1>1. IsWellFoundedOn(R, SUBSET S)
  <2>1. FiniteSubsetsOf(S) = SUBSET S
    BY FS_FiniteSubsetsOfFinite
  <2>2. IsWellFoundedOn(R, FiniteSubsetsOf(S))
    BY FS_StrictSubsetOrderingWellFounded
  <2> HIDE DEF R
  <2> QED
    BY <2>1, <2>2
<1> HIDE DEF R
<1>2. B \subseteq SUBSET S
  OBVIOUS
<1>3. \E T \in B : \A U \in B : ~ (<<U, T>> \in R)
  <2> DEFINE all == SUBSET S
  <2>1. IsWellFoundedOn(R, all) /\ B \subseteq all
    BY <1>1, <1>2
  <2> HIDE DEF all
  <2>2. PICK x : x \in B
    OBVIOUS
  <2> QED
    BY <2>1, <2>2, WFMin
<1>x. PICK T \in B : \A U \in B : <<U, T>> \notin R
  BY <1>3
<1>4. \A U \in B : U \subseteq T => U = T
  BY <1>2, <1>x DEF R, StrictSubsetOrdering
<1> QED
  BY <1>4

(* How the library adds up: an element of the set, and then the others.    *)
Chosen(T) == CHOOSE x \in T : TRUE

AddsUp(g, f, S) ==
    g = [T \in SUBSET S |-> IF T = {} THEN 0 ELSE f[Chosen(T)] + g[T \ {Chosen(T)}]]

LEMMA ChosenOne == ASSUME NEW T, T # {} PROVE Chosen(T) \in T
  BY DEF Chosen

LEMMA SumUnfolds ==
    ASSUME NEW f, NEW S
    PROVE  SumFunctionOnSet(f, S) = (CHOOSE g : AddsUp(g, f, S))[S]
  BY DEF SumFunctionOnSet, FoldFunctionOnSet, MapThenFoldSet, AddsUp, Chosen

LEMMA AddsUpValue ==
    ASSUME NEW f, NEW S, NEW g, AddsUp(g, f, S), NEW T \in SUBSET S
    PROVE  /\ T = {} => g[T] = 0
           /\ T # {} => g[T] = f[Chosen(T)] + g[T \ {Chosen(T)}]
  BY DEF AddsUp

LEMMA AddsUpNone ==
    ASSUME NEW f, NEW S, NEW g, AddsUp(g, f, S)
    PROVE  g[{}] = 0
<1> DEFINE T == {}
<1>1. T \in SUBSET S /\ T = {}
  OBVIOUS
<1> HIDE DEF T
<1>2. g[T] = 0
  BY <1>1, AddsUpValue
<1> QED
  BY <1>1, <1>2

(* Two such functions agree on the sets they share. *)
LEMMA AddsUpUnique ==
    ASSUME NEW f, NEW S, NEW T, NEW U, IsFiniteSet(U), U \subseteq S, U \subseteq T,
           NEW g, AddsUp(g, f, S), NEW h, AddsUp(h, f, T)
    PROVE  g[U] = h[U]
<1> DEFINE B == {V \in SUBSET U : g[V] # h[V]}
<1> SUFFICES ASSUME B # {} PROVE FALSE
  OBVIOUS
<1>0. B \subseteq SUBSET U
  OBVIOUS
<1>1. PICK V \in B : \A W \in B : W \subseteq V => W = V
  <2> HIDE DEF B
  <2> QED
    BY <1>0, SmallestSubset
<1>2. V # {}
  BY <1>1, AddsUpNone
<1>3. V \ {Chosen(V)} \notin B
  BY <1>1, <1>2, ChosenOne
<1>4. g[V \ {Chosen(V)}] = h[V \ {Chosen(V)}]
  BY <1>1, <1>3
<1>5. g[V] = f[Chosen(V)] + g[V \ {Chosen(V)}] /\ h[V] = f[Chosen(V)] + h[V \ {Chosen(V)}]
  BY <1>1, <1>2, AddsUpValue
<1> QED
  BY <1>1, <1>4, <1>5

LEMMA AddsUpExists ==
    ASSUME NEW f, NEW S, IsFiniteSet(S)
    PROVE  \E g : AddsUp(g, f, S)
<1> DEFINE B == {T \in SUBSET S : ~ \E g : AddsUp(g, f, T)}
<1> SUFFICES ASSUME B # {} PROVE FALSE
  OBVIOUS
<1>0. B \subseteq SUBSET S
  OBVIOUS
<1>1. PICK T \in B : \A U \in B : U \subseteq T => U = T
  <2> HIDE DEF B
  <2> QED
    BY <1>0, SmallestSubset
<1> DEFINE of(U) == CHOOSE g : AddsUp(g, f, U)
           h == [U \in SUBSET T |-> IF U = {} THEN 0
                                    ELSE f[Chosen(U)] + of(U \ {Chosen(U)})[U \ {Chosen(U)}]]
<1>2. ASSUME NEW U \in SUBSET T, U # T PROVE AddsUp(of(U), f, U)
  <2>1. \E g : AddsUp(g, f, U)
    BY <1>1, <1>2
  <2> QED
    BY <2>1
<1>f. \A U \in SUBSET T : IsFiniteSet(U)
  BY <1>1, FS_Subset
<1> HIDE DEF of
<1>3. ASSUME NEW U \in SUBSET T, U # T PROVE of(U)[U] = h[U]
  <2>1. CASE U = {}
    BY <1>2, <1>3, <2>1, AddsUpNone
  <2>2. CASE U # {}
    <3> DEFINE V == U \ {Chosen(U)}
    <3>1. V \in SUBSET U /\ V # T /\ V \in SUBSET T
      BY <2>2, ChosenOne, <1>3
    <3>a. AddsUp(of(U), f, U) /\ AddsUp(of(V), f, V) /\ IsFiniteSet(V)
      BY <3>1, <1>2, <1>3, <1>f
    <3>2. of(U)[V] = of(V)[V]
      <4> HIDE DEF V
      <4> QED
        BY <3>1, <3>a, AddsUpUnique
    <3>3. of(U)[U] = f[Chosen(U)] + of(U)[V]
      <4> DEFINE g == of(U)
      <4>1. AddsUp(g, f, U) /\ U \in SUBSET U
        BY <3>a
      <4> HIDE DEF g, V
      <4>2. g[U] = f[Chosen(U)] + g[U \ {Chosen(U)}]
        BY <2>2, <4>1, AddsUpValue
      <4> QED
        BY <4>2 DEF g, V
    <3> QED
      BY <2>2, <3>2, <3>3
  <2> QED
    BY <2>1, <2>2
<1>4. ASSUME NEW U \in SUBSET T, U # {}
      PROVE  h[U] = f[Chosen(U)] + h[U \ {Chosen(U)}]
  <2> DEFINE V == U \ {Chosen(U)}
  <2>1. V \in SUBSET T /\ V # T
    BY <1>4, ChosenOne
  <2>2. of(V)[V] = h[V]
    BY <2>1, <1>3
  <2>3. h[U] = f[Chosen(U)] + of(V)[V]
    BY <1>4
  <2> QED
    BY <2>2, <2>3
<1>5. h[{}] = 0
  OBVIOUS
<1>6. h = [U \in SUBSET T |-> h[U]]
  OBVIOUS
<1> HIDE DEF h
<1>7. h = [U \in SUBSET T |-> IF U = {} THEN 0 ELSE f[Chosen(U)] + h[U \ {Chosen(U)}]]
  BY <1>4, <1>5, <1>6
<1>8. AddsUp(h, f, T)
  BY <1>7 DEF AddsUp
<1> QED
  BY <1>1, <1>8

(* The sums of subsets of a finite set, as values of one function.         *)
LEMMA SumsOfSubsets ==
    ASSUME NEW f, NEW S, IsFiniteSet(S)
    PROVE  \E g : AddsUp(g, f, S) /\ \A T \in SUBSET S : SumFunctionOnSet(f, T) = g[T]
<1>1. PICK g : AddsUp(g, f, S)
  BY AddsUpExists
<1>2. ASSUME NEW T \in SUBSET S PROVE SumFunctionOnSet(f, T) = g[T]
  <2>1. IsFiniteSet(T)
    BY FS_Subset
  <2>2. AddsUp(CHOOSE h : AddsUp(h, f, T), f, T)
    BY <2>1, AddsUpExists
  <2>3. (CHOOSE h : AddsUp(h, f, T))[T] = g[T]
    BY <1>1, <2>1, <2>2, AddsUpUnique
  <2> QED
    BY <2>3, SumUnfolds
<1> QED
  BY <1>1, <1>2

(* The sum of nothing; the sum of a set from the one without an element.   *)
LEMMA SumOfNone == ASSUME NEW f PROVE SumFunctionOnSet(f, {}) = 0
<1>1. PICK g : AddsUp(g, f, {}) /\ \A T \in SUBSET {} : SumFunctionOnSet(f, T) = g[T]
  BY SumsOfSubsets, FS_EmptySet
<1>2. g[{}] = 0
  BY <1>1, AddsUpNone
<1> QED
  BY <1>1, <1>2

LEMMA SumChosen ==
    ASSUME NEW f, NEW S, IsFiniteSet(S), S # {}
    PROVE  SumFunctionOnSet(f, S) = f[Chosen(S)] + SumFunctionOnSet(f, S \ {Chosen(S)})
<1>1. PICK g : AddsUp(g, f, S) /\ \A T \in SUBSET S : SumFunctionOnSet(f, T) = g[T]
  BY SumsOfSubsets
<1>2. g[S] = f[Chosen(S)] + g[S \ {Chosen(S)}]
  BY <1>1, AddsUpValue
<1> QED
  BY <1>1, <1>2

LEMMA SumInt ==
    ASSUME NEW f, NEW S, IsFiniteSet(S), \A x \in S : f[x] \in Int
    PROVE  SumFunctionOnSet(f, S) \in Int
<1> DEFINE B == {T \in SUBSET S : SumFunctionOnSet(f, T) \notin Int}
<1> SUFFICES ASSUME B # {} PROVE FALSE
  OBVIOUS
<1>0. B \subseteq SUBSET S
  OBVIOUS
<1>1. PICK T \in B : \A U \in B : U \subseteq T => U = T
  <2> HIDE DEF B
  <2> QED
    BY <1>0, SmallestSubset
<1>2. T # {}
  BY <1>1, SumOfNone, 0 \in Int
<1>3. T \ {Chosen(T)} \notin B /\ f[Chosen(T)] \in Int
  BY <1>1, <1>2, ChosenOne
<1>4. SumFunctionOnSet(f, T \ {Chosen(T)}) \in Int
  BY <1>1, <1>3
<1> QED
  BY <1>1, <1>2, <1>3, <1>4, SumChosen, FS_Subset

LEMMA SumWithout ==
    ASSUME NEW f, NEW S, IsFiniteSet(S), \A x \in S : f[x] \in Int, NEW x \in S
    PROVE  SumFunctionOnSet(f, S) = f[x] + SumFunctionOnSet(f, S \ {x})
<1> DEFINE B == {T \in SUBSET S : \E y \in T :
                    SumFunctionOnSet(f, T) # f[y] + SumFunctionOnSet(f, T \ {y})}
<1> SUFFICES ASSUME B # {} PROVE FALSE
  OBVIOUS
<1>0. B \subseteq SUBSET S
  OBVIOUS
<1>1. PICK T \in B : \A U \in B : U \subseteq T => U = T
  <2> HIDE DEF B
  <2> QED
    BY <1>0, SmallestSubset
<1>2. PICK y \in T : SumFunctionOnSet(f, T) # f[y] + SumFunctionOnSet(f, T \ {y})
  BY <1>1
<1>c. PICK c \in T : SumFunctionOnSet(f, T) = f[c] + SumFunctionOnSet(f, T \ {c})
  <2>1. IsFiniteSet(T) /\ T # {}
    BY <1>1, <1>2, FS_Subset
  <2> QED
    BY <2>1, ChosenOne, SumChosen
<1>3. \A U \in SUBSET T : U # T => \A z \in U : SumFunctionOnSet(f, U) = f[z] + SumFunctionOnSet(f, U \ {z})
  BY <1>1
<1>4. y # c
  BY <1>2, <1>c
<1>5. SumFunctionOnSet(f, T \ {c}) = f[y] + SumFunctionOnSet(f, (T \ {c}) \ {y})
  BY <1>3, <1>4
<1>6. SumFunctionOnSet(f, T \ {y}) = f[c] + SumFunctionOnSet(f, (T \ {y}) \ {c})
  BY <1>3, <1>4
<1>7. (T \ {y}) \ {c} = (T \ {c}) \ {y}
  OBVIOUS
<1>8. /\ f[y] \in Int /\ f[c] \in Int
      /\ SumFunctionOnSet(f, (T \ {c}) \ {y}) \in Int
  <2>1. IsFiniteSet((T \ {c}) \ {y}) /\ (T \ {c}) \ {y} \subseteq S
    BY <1>1, FS_Subset
  <2> QED
    BY <1>1, <2>1, SumInt
<1>9. f[c] + (f[y] + SumFunctionOnSet(f, (T \ {c}) \ {y})) = f[y] + (f[c] + SumFunctionOnSet(f, (T \ {c}) \ {y}))
  BY <1>8
<1> QED
  BY <1>2, <1>c, <1>5, <1>6, <1>7, <1>9

LEMMA SumsAgree ==
    ASSUME NEW f, NEW g, NEW S, IsFiniteSet(S), \A x \in S : f[x] = g[x]
    PROVE  SumFunctionOnSet(f, S) = SumFunctionOnSet(g, S)
<1> DEFINE B == {T \in SUBSET S : SumFunctionOnSet(f, T) # SumFunctionOnSet(g, T)}
<1> SUFFICES ASSUME B # {} PROVE FALSE
  OBVIOUS
<1>0. B \subseteq SUBSET S
  OBVIOUS
<1>1. PICK T \in B : \A U \in B : U \subseteq T => U = T
  <2> HIDE DEF B
  <2> QED
    BY <1>0, SmallestSubset
<1>2. IsFiniteSet(T) /\ T \subseteq S
  BY <1>1, FS_Subset
<1>3. T # {}
  BY <1>1, SumOfNone
<1>4. Chosen(T) \in T
  BY <1>3, ChosenOne
<1>5. SumFunctionOnSet(f, T \ {Chosen(T)}) = SumFunctionOnSet(g, T \ {Chosen(T)})
  BY <1>1, <1>4
<1>6. /\ SumFunctionOnSet(f, T) = f[Chosen(T)] + SumFunctionOnSet(f, T \ {Chosen(T)})
      /\ SumFunctionOnSet(g, T) = g[Chosen(T)] + SumFunctionOnSet(g, T \ {Chosen(T)})
  BY <1>2, <1>3, SumChosen
<1> QED
  BY <1>1, <1>2, <1>4, <1>5, <1>6

(* One more element; one value changed; one set beside another.            *)
LEMMA SumWith ==
    ASSUME NEW f, NEW S, IsFiniteSet(S), NEW x, x \notin S, \A y \in S \cup {x} : f[y] \in Int
    PROVE  SumFunctionOnSet(f, S \cup {x}) = f[x] + SumFunctionOnSet(f, S)
<1>1. IsFiniteSet(S \cup {x}) /\ (S \cup {x}) \ {x} = S
  BY FS_AddElement
<1> QED
  BY <1>1, SumWithout

LEMMA SumChanged ==
    ASSUME NEW f, NEW g, NEW S, IsFiniteSet(S), NEW x \in S,
           \A y \in S : f[y] \in Int /\ g[y] \in Int,
           \A y \in S \ {x} : g[y] = f[y]
    PROVE  SumFunctionOnSet(g, S) = SumFunctionOnSet(f, S) + (g[x] - f[x])
<1>1. IsFiniteSet(S \ {x})
  BY FS_Subset
<1>2. /\ SumFunctionOnSet(f, S) = f[x] + SumFunctionOnSet(f, S \ {x})
      /\ SumFunctionOnSet(g, S) = g[x] + SumFunctionOnSet(g, S \ {x})
  BY SumWithout
<1>3. SumFunctionOnSet(f, S \ {x}) = SumFunctionOnSet(g, S \ {x})
  BY <1>1, SumsAgree
<1>4. SumFunctionOnSet(f, S \ {x}) \in Int
  BY <1>1, SumInt
<1> QED
  BY <1>2, <1>3, <1>4

LEMMA SumUnion ==
    ASSUME NEW f, NEW S, IsFiniteSet(S), NEW T, IsFiniteSet(T), S \cap T = {},
           \A x \in S \cup T : f[x] \in Int
    PROVE  SumFunctionOnSet(f, S \cup T) = SumFunctionOnSet(f, S) + SumFunctionOnSet(f, T)
<1> DEFINE B == {U \in SUBSET T : SumFunctionOnSet(f, S \cup U) # SumFunctionOnSet(f, S) + SumFunctionOnSet(f, U)}
<1> SUFFICES ASSUME B # {} PROVE FALSE
  OBVIOUS
<1>0. B \subseteq SUBSET T
  OBVIOUS
<1>1. PICK U \in B : \A V \in B : V \subseteq U => V = U
  <2> HIDE DEF B
  <2> QED
    BY <1>0, SmallestSubset
<1>s. SumFunctionOnSet(f, S) \in Int
  BY SumInt
<1>2. U # {}
  <2>1. SUFFICES ASSUME U = {} PROVE FALSE
    OBVIOUS
  <2>2. SumFunctionOnSet(f, S \cup U) = SumFunctionOnSet(f, S) /\ SumFunctionOnSet(f, U) = 0
    BY <2>1, SumOfNone
  <2>3. SumFunctionOnSet(f, S) = SumFunctionOnSet(f, S) + 0
    BY <1>s
  <2> QED
    BY <1>1, <2>2, <2>3
<1>3. PICK x \in U : TRUE
  BY <1>2
<1> DEFINE V == U \ {x}
<1>4. SumFunctionOnSet(f, S \cup V) = SumFunctionOnSet(f, S) + SumFunctionOnSet(f, V)
  BY <1>1, <1>3
<1>5. IsFiniteSet(U) /\ IsFiniteSet(V) /\ IsFiniteSet(S \cup U)
  BY <1>1, FS_Subset, FS_Union
<1>6. (S \cup U) \ {x} = S \cup V
  BY <1>1, <1>3
<1>7. SumFunctionOnSet(f, S \cup U) = f[x] + SumFunctionOnSet(f, S \cup V)
  BY <1>1, <1>3, <1>5, <1>6, SumWithout
<1>8. SumFunctionOnSet(f, U) = f[x] + SumFunctionOnSet(f, V)
  BY <1>1, <1>3, <1>5, SumWithout
<1>9. SumFunctionOnSet(f, V) \in Int /\ f[x] \in Int
  BY <1>1, <1>3, <1>5, SumInt
<1> QED
  BY <1>1, <1>4, <1>7, <1>8, <1>9, <1>s

LEMMA SumNat ==
    ASSUME NEW f, NEW S, IsFiniteSet(S), \A x \in S : f[x] \in Nat
    PROVE  SumFunctionOnSet(f, S) \in Nat
<1> DEFINE B == {T \in SUBSET S : SumFunctionOnSet(f, T) \notin Nat}
<1> SUFFICES ASSUME B # {} PROVE FALSE
  OBVIOUS
<1>0. B \subseteq SUBSET S
  OBVIOUS
<1>1. PICK T \in B : \A U \in B : U \subseteq T => U = T
  <2> HIDE DEF B
  <2> QED
    BY <1>0, SmallestSubset
<1>2. T # {}
  BY <1>1, SumOfNone, 0 \in Nat
<1>3. T \ {Chosen(T)} \notin B /\ f[Chosen(T)] \in Nat
  BY <1>1, <1>2, ChosenOne
<1>4. SumFunctionOnSet(f, T \ {Chosen(T)}) \in Nat
  BY <1>1, <1>3
<1> QED
  BY <1>1, <1>2, <1>3, <1>4, SumChosen, FS_Subset

(* That all values are 0. *)
LEMMA SumOfZeros ==
    ASSUME NEW f, NEW S, IsFiniteSet(S), \A x \in S : f[x] = 0
    PROVE  SumFunctionOnSet(f, S) = 0
<1> DEFINE B == {T \in SUBSET S : SumFunctionOnSet(f, T) # 0}
<1> SUFFICES ASSUME B # {} PROVE FALSE
  OBVIOUS
<1>0. B \subseteq SUBSET S
  OBVIOUS
<1>1. PICK T \in B : \A U \in B : U \subseteq T => U = T
  <2> HIDE DEF B
  <2> QED
    BY <1>0, SmallestSubset
<1>2. T # {}
  BY <1>1, SumOfNone
<1>3. T \ {Chosen(T)} \notin B /\ f[Chosen(T)] = 0
  BY <1>1, <1>2, ChosenOne
<1>4. SumFunctionOnSet(f, T \ {Chosen(T)}) = 0
  BY <1>1, <1>3
<1> QED
  BY <1>1, <1>2, <1>3, <1>4, SumChosen, FS_Subset

(* The same for all values of a function.                                  *)
LEMMA TotalIsInt ==
    ASSUME NEW S, IsFiniteSet(S), NEW f \in [S -> Int]
    PROVE  SumFunction(f) \in Int
  BY SumInt DEF SumFunction

LEMMA TotalIsNat ==
    ASSUME NEW S, IsFiniteSet(S), NEW f \in [S -> Nat]
    PROVE  SumFunction(f) \in Nat
  BY SumNat DEF SumFunction

LEMMA TotalChanged ==
    ASSUME NEW S, IsFiniteSet(S), NEW f \in [S -> Int], NEW g \in [S -> Int], NEW x \in S,
           \A y \in S \ {x} : g[y] = f[y]
    PROVE  SumFunction(g) = SumFunction(f) + (g[x] - f[x])
  BY SumChanged DEF SumFunction

LEMMA TotalExtended ==
    ASSUME NEW T, IsFiniteSet(T), NEW x \in T, NEW g \in [T -> Int],
           NEW f \in [T \ {x} -> Int], \A y \in T \ {x} : g[y] = f[y]
    PROVE  SumFunction(g) = g[x] + SumFunction(f)
<1> DEFINE S == T \ {x}
<1>1. SumFunctionOnSet(g, T) = g[x] + SumFunctionOnSet(g, S)
  BY SumWithout
<1>2. IsFiniteSet(S)
  BY FS_Subset
<1>3. SumFunctionOnSet(g, S) = SumFunctionOnSet(f, S)
  BY <1>2, SumsAgree
<1> QED
  BY <1>1, <1>3 DEF SumFunction

(* The sum of two functions.                                               *)
LEMMA SumsAdd ==
    ASSUME NEW f, NEW g, NEW h, NEW S, IsFiniteSet(S),
           \A x \in S : f[x] \in Int /\ g[x] \in Int /\ h[x] = f[x] + g[x]
    PROVE  SumFunctionOnSet(h, S) = SumFunctionOnSet(f, S) + SumFunctionOnSet(g, S)
<1> DEFINE B == {T \in SUBSET S :
                    SumFunctionOnSet(h, T) # SumFunctionOnSet(f, T) + SumFunctionOnSet(g, T)}
<1> SUFFICES ASSUME B # {} PROVE FALSE
  OBVIOUS
<1>0. B \subseteq SUBSET S
  OBVIOUS
<1>1. PICK T \in B : \A U \in B : U \subseteq T => U = T
  <2> HIDE DEF B
  <2> QED
    BY <1>0, SmallestSubset
<1>2. T # {}
  <2>1. SUFFICES ASSUME T = {} PROVE FALSE
    OBVIOUS
  <2>2. SumFunctionOnSet(f, T) = 0 /\ SumFunctionOnSet(g, T) = 0 /\ SumFunctionOnSet(h, T) = 0
    BY <2>1, SumOfNone
  <2> QED
    BY <1>1, <2>2
<1> DEFINE x == Chosen(T)
           U == T \ {x}
<1>3. x \in T /\ x \in S
  BY <1>1, <1>2, ChosenOne
<1>4. SumFunctionOnSet(h, U) = SumFunctionOnSet(f, U) + SumFunctionOnSet(g, U)
  BY <1>1, <1>3
<1>5. IsFiniteSet(T) /\ IsFiniteSet(U) /\ T \subseteq S /\ U \subseteq S
  BY <1>1, FS_Subset
<1>6. /\ SumFunctionOnSet(f, T) = f[x] + SumFunctionOnSet(f, U)
      /\ SumFunctionOnSet(g, T) = g[x] + SumFunctionOnSet(g, U)
      /\ SumFunctionOnSet(h, T) = h[x] + SumFunctionOnSet(h, U)
  BY <1>2, <1>5, SumChosen
<1>7. SumFunctionOnSet(f, U) \in Int /\ SumFunctionOnSet(g, U) \in Int
  BY <1>5, SumInt
<1>8. f[x] \in Int /\ g[x] \in Int /\ h[x] = f[x] + g[x]
  BY <1>3
<1> HIDE DEF x, U
<1>9. SumFunctionOnSet(h, T) = SumFunctionOnSet(f, T) + SumFunctionOnSet(g, T)
  BY <1>4, <1>6, <1>7, <1>8
<1> QED
  BY <1>1, <1>9

LEMMA TotalsAdd ==
    ASSUME NEW S, IsFiniteSet(S), NEW f \in [S -> Int], NEW g \in [S -> Int], NEW h \in [S -> Int],
           \A x \in S : h[x] = f[x] + g[x]
    PROVE  SumFunction(h) = SumFunction(f) + SumFunction(g)
  BY SumsAdd DEF SumFunction

-----------------------------------------------------------------------------
LEMMA ExpiryIsNat ==
    ASSUME StockTypeOK, NEW c \in Consumables, NEW x \in Expiries[kind[c]]
    PROVE  x \in Nat
<1>1. kind[c] \in Kinds
  BY DEF StockTypeOK
<1> QED
  BY <1>1, StockConstants

(* What an operation takes from each lot is a quantity. *)
Takes == [LotIds -> Nat]

LEMMA OnlyTakes ==
    ASSUME NEW l, NEW q \in Nat
    PROVE  Only(l, q) \in Takes
  BY DEF Only, Takes

LEMMA PartIsQuantity ==
    ASSUME NEW take \in Takes, NEW p, NEW c, NEW key \in Keys
    PROVE  Part(p, c, take, key) \in Nat
  BY DEF Part, Takes, Keys

LEMMA QuantityIsNat == ASSUME NEW q \in Quantities PROVE q \in Nat /\ q > 0
  BY StockConstants DEF Quantities

(* The inductive invariant: nobody owes stock without a note.              *)
StockInv == StockTypeOK /\ NegativeOnlyByOverride

(* A posting keeps the balances in order: what leaves a place is covered,  *)
(* or noted.                                                               *)
LEMMA PostKeeps ==
    ASSUME StockInv, NEW p, NEW r, NEW c, NEW take \in Takes, NEW override \in BOOLEAN,
           Post(p, r, c, take, override)
    PROVE  /\ bal' \in [Keys -> Int] /\ opening' \in [Keys -> Nat]
           /\ overridden' \subseteq Keys /\ NegativeOnlyByOverride'
<1>1. \A key \in Keys : Part(p, c, take, key) \in Nat /\ Part(r, c, take, key) \in Nat
  BY PartIsQuantity
<1>2. bal \in [Keys -> Int] /\ overridden \subseteq Keys /\ opening \in [Keys -> Nat]
  BY DEF StockInv, StockTypeOK
<1>3. \A key \in Keys : bal'[key] = bal[key] - Part(p, c, take, key) + Part(r, c, take, key)
  BY DEF Post, Moved
<1>4. bal' \in [Keys -> Int]
  BY <1>1, <1>2 DEF Post, Moved
<1>5. overridden' = overridden \cup Noted(p, c, take, override) /\ UNCHANGED opening
  BY DEF Post
<1>6. overridden' \subseteq Keys
  BY <1>2, <1>5 DEF Noted
<1>7. ASSUME NEW key \in Keys, bal'[key] < 0
      PROVE  key \in overridden'
  <2>1. CASE bal[key] < 0
    BY <1>5, <2>1 DEF StockInv, NegativeOnlyByOverride
  <2>2. CASE bal[key] >= 0
    <3>1. Part(p, c, take, key) > 0 /\ bal[key] < Part(p, c, take, key)
      BY <1>1, <1>2, <1>3, <1>7, <2>2
    <3>2. override
      BY <1>1, <1>2, <3>1 DEF Post, Covered
    <3> QED
      BY <1>5, <3>1, <3>2 DEF Noted
  <2> QED
    BY <1>2, <2>1, <2>2
<1> QED
  BY <1>2, <1>4, <1>5, <1>6, <1>7 DEF NegativeOnlyByOverride

(* What is left to show of an operation that posts once. *)
LEMMA PostingPreserves ==
    ASSUME StockInv, NEW p, NEW r, NEW c, NEW take \in Takes, NEW override \in BOOLEAN,
           Post(p, r, c, take, override), UNCHANGED kind,
           lots' \in [Lots -> LotRow \cup {NoRow}],
           box' \in [Containers -> ContainerRow \cup {NoRow}]
    PROVE  StockInv'
<1>1. /\ bal' \in [Keys -> Int] /\ opening' \in [Keys -> Nat]
      /\ overridden' \subseteq Keys /\ NegativeOnlyByOverride'
  BY PostKeeps
<1> QED
  BY <1>1 DEF StockInv, StockTypeOK

LEMMA KeptRows ==
    ASSUME StockInv
    PROVE  /\ UNCHANGED lots => lots' \in [Lots -> LotRow \cup {NoRow}]
           /\ UNCHANGED box => box' \in [Containers -> ContainerRow \cup {NoRow}]
  BY DEF StockInv, StockTypeOK

(* A container that is somewhere holds some quantity of a lot. *)
LEMMA ContainerThere ==
    ASSUME StockInv, NEW p \in Places, NEW k \in Containers, ContainerAt(k, p)
    PROVE  box[k] \in ContainerRow /\ box[k].qty \in Nat
<1>1. box[k] \in ContainerRow \cup {NoRow}
  BY DEF StockInv, StockTypeOK
<1>2. box[k] # NoRow
  BY StockConstants DEF ContainerAt, NoRow
<1> QED
  BY <1>1, <1>2 DEF ContainerRow

-----------------------------------------------------------------------------
(* The operations. *)

LEMMA ReceivePreserves ==
    ASSUME StockInv, NEW p \in Offices \cup {Store}, NEW c \in Consumables, NEW l \in LotIds,
           NEW q \in Quantities, Received(p, c, l, q)
    PROVE  StockInv'
<1>1. q \in Nat /\ Only(l, q) \in Takes
  BY QuantityIsNat, OnlyTakes
<1>2. Post(Outside, p, c, Only(l, q), FALSE) /\ UNCHANGED kind
  BY DEF Received
<1>t. /\ lots \in [Lots -> LotRow \cup {NoRow}]
      /\ box \in [Containers -> ContainerRow \cup {NoRow}]
  BY DEF StockInv, StockTypeOK
<1>3. CASE LotTracked(c)
  <2>1. l \in Lots
    BY <1>3 DEF Received, LotIds
  <2>2. LotReceived(p, c, l, q)
    BY <1>3 DEF Received
  <2>3. ASSUME NEW x \in Expiries[kind[c]]
        PROVE  [item |-> c, expiry |-> x, received |-> q, available |-> q, place |-> p] \in LotRow
    <3>1. x \in Nat
      BY <2>3, ExpiryIsNat DEF StockInv
    <3> QED
      BY <1>1, <3>1 DEF LotRow
  <2>4. lots' \in [Lots -> LotRow \cup {NoRow}]
    BY <1>t, <2>1, <2>2, <2>3 DEF LotReceived
  <2>5. PICK S \in SUBSET {k \in Containers : box[k] = NoRow} :
             \E fill \in [S -> 1 .. q] : Filled(p, l, fill)
    BY <1>3 DEF Received
  <2>6. PICK fill \in [S -> 1 .. q] : Filled(p, l, fill)
    BY <2>5
  <2>7. ASSUME NEW k \in Containers
        PROVE  (IF k \in DOMAIN fill THEN [lot |-> l, place |-> p, qty |-> fill[k]] ELSE box[k])
                 \in ContainerRow \cup {NoRow}
    <3>1. CASE k \in S
      <4>1. fill[k] \in Nat /\ DOMAIN fill = S
        BY <1>1, <2>6, <3>1
      <4>2. [lot |-> l, place |-> p, qty |-> fill[k]] \in ContainerRow
        BY <2>1, <4>1 DEF ContainerRow, Places
      <4> QED
        BY <3>1, <4>1, <4>2
    <3>2. CASE k \notin S
      BY <1>t, <2>6, <3>2
    <3> QED
      BY <3>1, <3>2
  <2>8. box' \in [Containers -> ContainerRow \cup {NoRow}]
    BY <2>6, <2>7 DEF Filled
  <2> QED
    BY <1>1, <1>2, <2>4, <2>8, PostingPreserves
<1>4. CASE ~LotTracked(c)
  <2>1. UNCHANGED <<lots, box>>
    BY <1>4 DEF Received
  <2> QED
    BY <1>1, <1>2, <2>1, KeptRows, PostingPreserves
<1> QED
  BY <1>3, <1>4

(* What Transfer, ReturnToCentral and Consume take are the lots they pick. *)
LEMMA LotsPreserve ==
    ASSUME StockInv, NEW p, NEW r, NEW c, NEW override \in BOOLEAN,
           NEW take \in [LotIds -> 0 .. MaxQty], Post(p, r, c, take, override),
           UNCHANGED <<kind, lots, box>>
    PROVE  StockInv'
<1>1. take \in Takes
  BY StockConstants DEF Takes
<1> QED
  BY <1>1, KeptRows, PostingPreserves

LEMMA UsePreserves ==
    ASSUME StockInv, NEW p \in Places, NEW c \in Consumables, NEW q \in Quantities,
           NEW override \in BOOLEAN, UseStep(p, c, q, override)
    PROVE  StockInv'
<1>1. ASSUME NEW r, MoveLots(p, r, c, q, override)
      PROVE  StockInv'
  BY <1>1, LotsPreserve DEF MoveLots
<1>2. CASE Consume(p, c, q, override)
  BY <1>2, LotsPreserve DEF Consume
<1>3. ASSUME NEW l \in LotIds, Dispose(p, c, l, q, override) \/ Decrease(p, c, l, q, override)
      PROVE  StockInv'
  <2>1. Only(l, q) \in Takes
    BY QuantityIsNat, OnlyTakes
  <2>2. Post(p, Outside, c, Only(l, q), override) /\ UNCHANGED <<kind, lots, box>>
    BY <1>3 DEF Dispose, Decrease
  <2> QED
    BY <2>1, <2>2, KeptRows, PostingPreserves
<1>4. ASSUME NEW l \in LotIds, Increase(p, c, l, q, override)
      PROVE  StockInv'
  <2>1. Only(l, q) \in Takes
    BY QuantityIsNat, OnlyTakes
  <2>2. Post(Outside, p, c, Only(l, q), FALSE) /\ UNCHANGED <<kind, lots, box>>
    BY <1>4 DEF Increase
  <2> QED
    BY <2>1, <2>2, KeptRows, PostingPreserves
<1> QED
  BY <1>1, <1>2, <1>3, <1>4 DEF UseStep, Transfer, ReturnToCentral

(* A container moves, is used or is filled with the books. *)
LEMMA UseContainerPreserves ==
    ASSUME StockInv, NEW p \in Places, NEW k \in Containers, NEW override \in BOOLEAN,
           UseContainerStep(p, k, override)
    PROVE  StockInv'
<1>t. /\ box \in [Containers -> ContainerRow \cup {NoRow}]
      /\ box[k] \in ContainerRow /\ box[k].qty \in Nat
  BY ContainerThere DEF StockInv, StockTypeOK, UseContainerStep
<1>1. ASSUME NEW r \in Places, MoveContainer(p, r, k, override)
      PROVE  StockInv'
  <2>1. /\ Post(p, r, lots[box[k].lot].item, Only(box[k].lot, box[k].qty), override)
        /\ box' = [box EXCEPT ![k].place = r] /\ UNCHANGED <<kind, lots>>
    BY <1>1 DEF MoveContainer
  <2>2. [box[k] EXCEPT !.place = r] \in ContainerRow
    BY <1>t DEF ContainerRow
  <2>3. box' \in [Containers -> ContainerRow \cup {NoRow}]
    BY <1>t, <2>1, <2>2
  <2>4. Only(box[k].lot, box[k].qty) \in Takes
    BY <1>t, OnlyTakes
  <2> QED
    BY <2>1, <2>3, <2>4, KeptRows, PostingPreserves
<1>2. ASSUME NEW q \in Quantities, TakeFromContainer(p, k, q, override)
      PROVE  StockInv'
  <2> DEFINE left == IF q < box[k].qty THEN box[k].qty - q ELSE 0
  <2>1. /\ Post(p, Outside, lots[box[k].lot].item, Only(box[k].lot, q), override)
        /\ box' = [box EXCEPT ![k].qty = left] /\ UNCHANGED <<kind, lots>>
    BY <1>2 DEF TakeFromContainer, Drained
  <2>2. left \in Nat /\ q \in Nat
    BY <1>t, QuantityIsNat
  <2>3. [box[k] EXCEPT !.qty = left] \in ContainerRow
    BY <1>t, <2>2 DEF ContainerRow
  <2>4. box' \in [Containers -> ContainerRow \cup {NoRow}]
    BY <1>t, <2>1, <2>3
  <2>5. Only(box[k].lot, q) \in Takes
    BY <2>2, OnlyTakes
  <2> QED
    BY <2>1, <2>4, <2>5, KeptRows, PostingPreserves
<1>3. ASSUME NEW q \in Quantities, IncreaseContainer(p, k, q, override)
      PROVE  StockInv'
  <2>1. /\ Post(Outside, p, lots[box[k].lot].item, Only(box[k].lot, q), FALSE)
        /\ box' = [box EXCEPT ![k].qty = @ + q] /\ UNCHANGED <<kind, lots>>
    BY <1>3 DEF IncreaseContainer
  <2>2. q \in Nat /\ box[k].qty + q \in Nat
    BY <1>t, QuantityIsNat
  <2>3. [box[k] EXCEPT !.qty = @ + q] \in ContainerRow
    BY <1>t, <2>2 DEF ContainerRow
  <2>4. box' \in [Containers -> ContainerRow \cup {NoRow}]
    BY <1>t, <2>1, <2>3
  <2>5. Only(box[k].lot, q) \in Takes
    BY <2>2, OnlyTakes
  <2> QED
    BY <2>1, <2>4, <2>5, KeptRows, PostingPreserves
<1>4. Offices \subseteq Places /\ Store \in Places
  BY DEF Places
<1> QED
  BY <1>1, <1>2, <1>3, <1>4
     DEF UseContainerStep, TransferContainer, ReturnContainer, ConsumeContainer,
         DisposeContainer, DecreaseContainer

LEMMA OpeningPreserves ==
    ASSUME StockInv, NEW E \in SUBSET Openings, NEW q \in Quantities, OpeningBalance(E, q)
    PROVE  StockInv'
<1> USE DEF StockInv, StockTypeOK
<1>1. q \in Nat
  BY QuantityIsNat
<1>2. \A key \in Keys : bal'[key] = bal[key] \/ bal'[key] = bal[key] + q
  BY DEF OpeningBalance
<1>3. bal' \in [Keys -> Int] /\ opening' \in [Keys -> Nat] /\ UNCHANGED <<kind, lots, box, overridden>>
  BY <1>1 DEF OpeningBalance
<1>4. NegativeOnlyByOverride'
  BY <1>1, <1>2, <1>3 DEF NegativeOnlyByOverride
<1> QED
  BY <1>3, <1>4

LEMMA StockStepPreserves ==
    ASSUME StockInv, StockStep
    PROVE  StockInv'
<1>1. ASSUME NEW p \in Places, NEW override \in Overrides(p)
      PROVE  override \in BOOLEAN
  BY DEF Overrides
<1> QED
  BY <1>1, ReceivePreserves, UsePreserves, UseContainerPreserves, OpeningPreserves
     DEF StockStep, Receive, ReceiveOffice

LEMMA InitHolds == SInit => StockInv
  BY DEF SInit, StockInv, StockTypeOK, NegativeOnlyByOverride

(* The inductive invariant of the inventory. *)
THEOREM StockInvariant == SSpec => []StockInv
<1>1. StockInv /\ UNCHANGED svars => StockInv'
  BY DEF svars, StockInv, StockTypeOK, NegativeOnlyByOverride
<1> QED
  BY InitHolds, StockStepPreserves, <1>1, PTL DEF SSpec

(* Lots, containers, balances and notes keep their shape: of a container   *)
(* no more is ever taken than to leave it empty.                           *)
THEOREM StockTypesHold == SSpec => []StockTypeOK
<1>1. StockInv => StockTypeOK
  BY DEF StockInv
<1> QED
  BY <1>1, StockInvariant, PTL

(* updateBalance's 'Insufficient stock for requested operation' is enough: *)
(* whatever lots and containers an operation is charged to, a balance is   *)
(* below zero only after an override was noted there.                      *)
THEOREM DebtIsNoted == SSpec => []NegativeOnlyByOverride
<1>1. StockInv => NegativeOnlyByOverride
  BY DEF StockInv
<1> QED
  BY <1>1, StockInvariant, PTL
-----------------------------------------------------------------------------
(* The issue book: shapes first, then what it adds up to. *)

IssueInv == LotIssuesTypeOK /\ NegativeOnlyByOverride

LotTable == [Lots -> LotRow \cup {NoRow}]
Hands == [Accounts \X Consumables -> Int]

(* A lot that is somewhere was received. *)
LEMMA RowOfLot ==
    ASSUME NEW L \in LotTable, NEW l \in Lots
    PROVE  /\ L[l].place # Outside <=> L[l] # NoRow
           /\ L[l].place # Outside =>
                 /\ L[l] \in LotRow /\ L[l].item \in Consumables
                 /\ L[l].received \in Nat /\ L[l].available \in Nat
<1>1. L[l] \in LotRow \cup {NoRow}
  BY DEF LotTable
<1>2. Outside \notin Offices \cup {Store}
  BY StockConstants DEF Places
<1>3. ASSUME NEW row \in LotRow PROVE row.place # Outside
  BY <1>2, <1>3 DEF LotRow
<1>4. NoRow.place = Outside
  BY DEF NoRow
<1> QED
  BY <1>1, <1>3, <1>4 DEF LotRow

LEMMA LotChangedRow ==
    ASSUME NEW L \in LotTable, NEW l \in Lots, L[l].place # Outside, NEW n \in Nat
    PROVE  /\ [L EXCEPT ![l].available = n] \in LotTable
           /\ \A m \in Lots \ {l} : [L EXCEPT ![l].available = n][m] = L[m]
           /\ LET row == [L EXCEPT ![l].available = n][l]
              IN  /\ row.place = L[l].place /\ row.item = L[l].item
                  /\ row.received = L[l].received /\ row.available = n
<1>1. L[l] \in LotRow
  BY RowOfLot
<1>2. [L[l] EXCEPT !.available = n] \in LotRow
  BY <1>1 DEF LotRow
<1> QED
  BY <1>1, <1>2 DEF LotTable, LotRow

(* Between two steps of the issue book: who has what.                      *)
LEMMA HandsChanged ==
    ASSUME NEW a \in Accounts, NEW c \in Consumables, NEW q \in Nat,
           NEW h \in [Accounts \X Consumables -> Nat]
    PROVE  /\ AddIn(h, a, c, q) \in [Accounts \X Consumables -> Nat]
           /\ AddIn(h, a, c, q) = [h EXCEPT ![<<a, c>>] = h[<<a, c>>] + q]
           /\ h = onHand => AddOut(a, c, q) = [h EXCEPT ![<<a, c>>] = h[<<a, c>>] - q]
           /\ h = onHand /\ Enough(a, c, q) => AddOut(a, c, q) \in [Accounts \X Consumables -> Nat]
<1>1. <<a, c>> \in Accounts \X Consumables /\ h[<<a, c>>] \in Nat
  OBVIOUS
<1>2. AddIn(h, a, c, q) = [h EXCEPT ![<<a, c>>] = h[<<a, c>>] + q]
  BY DEF AddIn
<1>3. h = onHand => AddOut(a, c, q) = [h EXCEPT ![<<a, c>>] = h[<<a, c>>] - q]
  BY DEF AddOut
<1>4. h = onHand /\ Enough(a, c, q) => h[<<a, c>>] - q \in Nat
  BY <1>1 DEF Enough
<1>5. \A n \in Nat : [h EXCEPT ![<<a, c>>] = n] \in [Accounts \X Consumables -> Nat]
  OBVIOUS
<1>6. h[<<a, c>>] + q \in Nat
  BY <1>1
<1> QED
  BY <1>2, <1>3, <1>4, <1>5, <1>6

LEMMA IssuePreservesTypes ==
    ASSUME LotIssuesTypeOK, NEW q \in Quantities, NEW l \in Lots, lots[l] # NoRow,
           NEW a \in Accounts, Issue(l, a, q) \/ (a \in Offices /\ OfficeToStoreLot(a, l, q))
    PROVE  LotIssuesTypeOK'
<1>1. q \in Nat
  BY QuantityIsNat
<1>2. lots \in LotTable
  BY DEF LotIssuesTypeOK, StockTypeOK, LotTable
<1>3. lots[l].place # Outside /\ lots[l].item \in Consumables /\ lots[l].available \in Nat
  BY <1>2, RowOfLot
<1>4. \/ lots' = [lots EXCEPT ![l].available = lots[l].available - q] /\ lots[l].available >= q
      \/ lots' = [lots EXCEPT ![l].available = lots[l].available + q]
  BY DEF Issue, OfficeToStoreLot
<1>5. /\ lots[l].available >= q => lots[l].available - q \in Nat
      /\ lots[l].available + q \in Nat
  BY <1>1, <1>3
<1>6. lots' \in LotTable
  BY <1>2, <1>3, <1>4, <1>5, LotChangedRow
<1>7. onHand' \in [Accounts \X Consumables -> Nat]
  <2>1. onHand' = AddIn(onHand, a, lots[l].item, q)
        \/ (Enough(a, lots[l].item, q) /\ onHand' = AddOut(a, lots[l].item, q))
    BY DEF Issue, OfficeToStoreLot
  <2>2. PICK c \in Consumables : c = lots[l].item
    BY <1>3
  <2>3. onHand \in [Accounts \X Consumables -> Nat]
    BY DEF LotIssuesTypeOK
  <2>4. AddIn(onHand, a, c, q) \in [Accounts \X Consumables -> Nat]
    BY <1>1, <2>3, HandsChanged
  <2>5. Enough(a, c, q) => AddOut(a, c, q) \in [Accounts \X Consumables -> Nat]
    BY <1>1, <2>3, HandsChanged
  <2> QED
    BY <2>1, <2>2, <2>4, <2>5
<1>8. issued' \subseteq Lots \X Accounts
  BY DEF LotIssuesTypeOK, Issue, OfficeToStoreLot
<1>9. UNCHANGED <<kind, box, bal, opening, overridden, used>>
  BY DEF Issue, OfficeToStoreLot
<1> QED
  BY <1>6, <1>7, <1>8, <1>9 DEF LotIssuesTypeOK, StockTypeOK, LotTable

LEMMA UsePreservesTypes ==
    ASSUME LotIssuesTypeOK, NEW q \in Quantities, NEW c \in Consumables, NEW a \in Accounts,
           \/ RecordConsumption(a, c, q)
           \/ a \in Users /\ \E o \in Offices : UserToOffice(a, o, c, q)
    PROVE  LotIssuesTypeOK'
<1>1. q \in Nat
  BY QuantityIsNat
<1>2. CASE RecordConsumption(a, c, q)
  <2>1. onHand' \in [Accounts \X Consumables -> Nat]
    BY <1>1, <1>2, HandsChanged DEF LotIssuesTypeOK, RecordConsumption
  <2>2. used' \in [Consumables -> Nat]
    BY <1>1, <1>2 DEF LotIssuesTypeOK, RecordConsumption
  <2> QED
    BY <1>2, <2>1, <2>2 DEF LotIssuesTypeOK, StockTypeOK, RecordConsumption
<1>3. ASSUME NEW o \in Offices, UserToOffice(a, o, c, q)
      PROVE  LotIssuesTypeOK'
  <2>1. AddOut(a, c, q) \in [Accounts \X Consumables -> Nat] /\ o \in Accounts
    BY <1>1, <1>3, HandsChanged DEF LotIssuesTypeOK, UserToOffice, Accounts
  <2>2. onHand' \in [Accounts \X Consumables -> Nat]
    BY <1>1, <1>3, <2>1, HandsChanged DEF UserToOffice
  <2> QED
    BY <1>3, <2>2 DEF LotIssuesTypeOK, StockTypeOK, UserToOffice
<1> QED
  BY <1>2, <1>3

LEMMA IssueStepPreserves ==
    ASSUME IssueInv, IssueStep
    PROVE  IssueInv'
<1>1. LotIssuesTypeOK'
  <2>1. Offices \subseteq Accounts /\ LotIssuesTypeOK
    BY DEF Accounts, IssueInv
  <2> QED
    BY <2>1, IssuePreservesTypes, UsePreservesTypes DEF IssueStep
<1>2. UNCHANGED <<bal, overridden>>
  BY DEF IssueStep, Issue, OfficeToStoreLot, RecordConsumption, UserToOffice
<1> QED
  BY <1>1, <1>2 DEF IssueInv, NegativeOnlyByOverride

LEMMA LNextPreserves == IssueInv /\ [LNext]_ivars => IssueInv'
<1> SUFFICES ASSUME IssueInv, [LNext]_ivars PROVE IssueInv'
  OBVIOUS
<1>1. CASE StockStep /\ UNCHANGED <<onHand, issued, used>>
  <2>1. StockInv
    BY DEF IssueInv, LotIssuesTypeOK, StockInv
  <2>2. StockInv'
    BY <1>1, <2>1, StockStepPreserves
  <2> QED
    BY <1>1, <2>2 DEF IssueInv, LotIssuesTypeOK, StockInv
<1>2. CASE IssueStep
  BY <1>2, IssueStepPreserves
<1>3. CASE UNCHANGED ivars
  BY <1>3 DEF ivars, IssueInv, LotIssuesTypeOK, StockTypeOK, NegativeOnlyByOverride
<1> QED
  BY <1>1, <1>2, <1>3 DEF LNext

THEOREM IssueInvariant == LSpec => []IssueInv
<1>1. LInit => IssueInv
  BY InitHolds DEF LInit, IssueInv, LotIssuesTypeOK, StockInv
<1> QED
  BY <1>1, LNextPreserves, PTL DEF LSpec

(* Beside issues, returns and consumption too, everything keeps its shape: *)
(* nobody has less than nothing on hand, the filter of addOut is enough.   *)
THEOREM IssueTypesHold == LSpec => []LotIssuesTypeOK
<1>1. IssueInv => LotIssuesTypeOK
  BY DEF IssueInv
<1> QED
  BY <1>1, IssueInvariant, PTL

(* updateBalance's 'Insufficient stock for requested operation' stays      *)
(* enough when lots are issued beside it.                                  *)
THEOREM DebtIsNotedWithIssues == LSpec => []NegativeOnlyByOverride
<1>1. IssueInv => NegativeOnlyByOverride
  BY DEF IssueInv
<1> QED
  BY <1>1, IssueInvariant, PTL

-----------------------------------------------------------------------------
(* NothingLost adds up, for a consumable, the rows of its lots and what    *)
(* every account has of it; each step changes at most one term of a sum.   *)

Rows(L, c) == {l \in Lots : L[l].place # Outside /\ L[l].item = c}
AllReceived(L, c) == SumFunction([l \in Rows(L, c) |-> L[l].received])
AllAvailable(L, c) == SumFunction([l \in Rows(L, c) |-> L[l].available])
AllHeld(h, c) == SumFunction([a \in Accounts |-> h[<<a, c>>]])

Whole(c) == AllReceived(lots, c) = AllAvailable(lots, c) + AllHeld(onHand, c) + used[c]

LEMMA NothingLostIsWhole == NothingLost <=> \A c \in Consumables : Whole(c)
<1>1. \A c : {l \in Lots : LotOf(l, c)} = Rows(lots, c)
  BY DEF LotOf, Rows
<1> QED
  BY <1>1 DEF NothingLost, Whole, AllReceived, AllAvailable, AllHeld

LEMMA NothingLostNextIsWhole == NothingLost' <=> \A c \in Consumables : Whole(c)'
<1>1. \A c : {l \in Lots : LotOf(l, c)'} = Rows(lots', c)
  BY DEF LotOf, Rows
<1> QED
  BY <1>1 DEF NothingLost, Whole, AllReceived, AllAvailable, AllHeld

LEMMA HeldIsInt ==
    ASSUME IsFiniteSet(Accounts), NEW h \in Hands, NEW c \in Consumables
    PROVE  AllHeld(h, c) \in Int
<1> DEFINE f == [a \in Accounts |-> h[<<a, c>>]]
<1>1. f \in [Accounts -> Int]
  BY DEF Hands
<1>2. AllHeld(h, c) = SumFunction(f)
  BY DEF AllHeld
<1> HIDE DEF f
<1> QED
  BY <1>1, <1>2, TotalIsInt

LEMMA RowsAddUp ==
    ASSUME IsFiniteSet(Lots), NEW L \in LotTable, NEW c
    PROVE  /\ IsFiniteSet(Rows(L, c))
           /\ [l \in Rows(L, c) |-> L[l].received] \in [Rows(L, c) -> Int]
           /\ [l \in Rows(L, c) |-> L[l].available] \in [Rows(L, c) -> Int]
           /\ AllReceived(L, c) \in Int /\ AllAvailable(L, c) \in Int
<1>1. IsFiniteSet(Rows(L, c))
  BY FS_Subset DEF Rows
<1>2. \A l \in Rows(L, c) : L[l].received \in Int /\ L[l].available \in Int
  BY RowOfLot DEF Rows
<1>3. /\ [l \in Rows(L, c) |-> L[l].received] \in [Rows(L, c) -> Int]
      /\ [l \in Rows(L, c) |-> L[l].available] \in [Rows(L, c) -> Int]
  BY <1>2
<1>4. AllReceived(L, c) \in Int
  BY <1>1, <1>3, TotalIsInt DEF AllReceived
<1>5. AllAvailable(L, c) \in Int
  BY <1>1, <1>3, TotalIsInt DEF AllAvailable
<1> QED
  BY <1>1, <1>3, <1>4, <1>5

(* n more of lot l. *)
MoreInLot(L, M, l, n) ==
    /\ L \in LotTable /\ l \in Lots /\ L[l].place # Outside /\ n \in Int
    /\ L[l].available + n \in Nat
    /\ M = [L EXCEPT ![l].available = L[l].available + n]

LEMMA LotChanged ==
    ASSUME IsFiniteSet(Lots), NEW L, NEW M, NEW l, NEW n, MoreInLot(L, M, l, n), NEW c
    PROVE  /\ AllReceived(M, c) = AllReceived(L, c)
           /\ AllAvailable(M, c) = AllAvailable(L, c) + (IF L[l].item = c THEN n ELSE 0)
<1> DEFINE R == Rows(L, c)
           f == [k \in R |-> L[k].available]
           g == [k \in R |-> M[k].available]
<1>0. L \in LotTable /\ l \in Lots /\ L[l].place # Outside /\ n \in Int /\ L[l].available \in Int
  BY RowOfLot DEF MoreInLot
<1>1. /\ M \in LotTable /\ \A m \in Lots \ {l} : M[m] = L[m]
      /\ M[l].place = L[l].place /\ M[l].item = L[l].item
      /\ M[l].received = L[l].received /\ M[l].available = L[l].available + n
  <2>1. L[l] \in LotRow /\ L[l].available + n \in Nat
    BY <1>0, RowOfLot DEF MoreInLot
  <2>2. [L[l] EXCEPT !.available = L[l].available + n] \in LotRow
    BY <2>1 DEF LotRow
  <2> QED
    BY <1>0, <2>1, <2>2 DEF MoreInLot, LotTable, LotRow
<1>2. Rows(M, c) = R
  BY <1>1 DEF Rows
<1>3. \A k \in R : M[k].received = L[k].received
  BY <1>1 DEF Rows
<1>4. AllReceived(M, c) = AllReceived(L, c)
  <2>1. [k \in R |-> M[k].received] = [k \in R |-> L[k].received]
    BY <1>3
  <2> QED
    BY <1>2, <2>1 DEF AllReceived
<1>5. IsFiniteSet(R) /\ f \in [R -> Int] /\ g \in [R -> Int]
  BY <1>0, <1>1, <1>2, RowsAddUp
<1>6. AllAvailable(L, c) = SumFunction(f) /\ AllAvailable(M, c) = SumFunction(g)
  BY <1>2 DEF AllAvailable
<1>7. \A k \in R \ {l} : g[k] = f[k]
  BY <1>1 DEF Rows
<1>8. CASE l \in R
  <2>1. g[l] - f[l] = n
    BY <1>0, <1>1, <1>8
  <2>2. L[l].item = c
    BY <1>8 DEF Rows
  <2> HIDE DEF f, g, R
  <2>3. SumFunction(g) = SumFunction(f) + (g[l] - f[l])
    BY <1>5, <1>7, <1>8, TotalChanged
  <2> QED
    BY <1>4, <1>6, <2>1, <2>2, <2>3
<1>9. CASE l \notin R
  <2>1. L[l].item # c
    BY <1>0, <1>9 DEF Rows
  <2>2. f = g
    BY <1>7, <1>9
  <2>3. SumFunction(f) \in Int
    BY <1>5, TotalIsInt
  <2> HIDE DEF f, g, R
  <2>4. AllAvailable(M, c) = AllAvailable(L, c) + 0
    BY <1>6, <2>2, <2>3
  <2> QED
    BY <1>4, <2>1, <2>4
<1> QED
  BY <1>8, <1>9

(* A lot that was not there. *)
LEMMA LotAdded ==
    ASSUME IsFiniteSet(Lots), NEW L \in LotTable, NEW l \in Lots, L[l] = NoRow,
           NEW row \in LotRow, row.available = row.received, NEW c
    PROVE  LET M == [L EXCEPT ![l] = row]
           IN  \E n \in Int : /\ AllReceived(M, c) = n + AllReceived(L, c)
                              /\ AllAvailable(M, c) = n + AllAvailable(L, c)
<1> DEFINE M == [L EXCEPT ![l] = row]
           R == Rows(L, c)
           S == Rows(M, c)
           f == [k \in R |-> L[k].available]
           g == [k \in S |-> M[k].available]
           d == [k \in R |-> L[k].received]
           e == [k \in S |-> M[k].received]
<1>1. M \in LotTable /\ M[l] = row /\ \A m \in Lots \ {l} : M[m] = L[m]
  BY DEF LotTable
<1>2. row.place # Outside
  <2>1. M[l] \in LotRow
    BY <1>1
  <2>2. Outside \notin Offices \cup {Store}
    BY StockConstants DEF Places
  <2> QED
    BY <2>2 DEF LotRow
<1>3. l \notin R
  BY DEF Rows, NoRow
<1> HIDE DEF M
<1>4. S = IF row.item = c THEN R \cup {l} ELSE R
  BY <1>1, <1>2, <1>3 DEF Rows
<1>5. /\ IsFiniteSet(R) /\ f \in [R -> Int] /\ d \in [R -> Int]
      /\ g \in [S -> Int] /\ e \in [S -> Int]
  BY <1>1, RowsAddUp
<1>6. /\ AllAvailable(L, c) = SumFunction(f) /\ AllAvailable(M, c) = SumFunction(g)
      /\ AllReceived(L, c) = SumFunction(d) /\ AllReceived(M, c) = SumFunction(e)
  BY DEF AllAvailable, AllReceived
<1>7. \A k \in R : k \in Lots /\ M[k] = L[k]
  BY <1>1, <1>3 DEF Rows
<1>8. \A k \in R : g[k] = f[k] /\ e[k] = d[k]
  BY <1>4, <1>7
<1>9. CASE row.item = c
  <2>1. S = R \cup {l}
    BY <1>4, <1>9
  <2>2. g[l] = row.available /\ e[l] = row.received
    BY <1>1, <2>1
  <2> HIDE DEF f, g, d, e, R
  <2>a. S \ {l} = R /\ l \in S /\ IsFiniteSet(S)
    BY <1>1, <1>3, <2>1, RowsAddUp
  <2> HIDE DEF S
  <2>3. SumFunction(g) = g[l] + SumFunction(f)
    <3>1. f \in [S \ {l} -> Int]
      BY <1>5, <2>a
    <3>2. g \in [S -> Int]
      BY <1>5
    <3>3. \A k \in S \ {l} : g[k] = f[k]
      BY <1>8, <2>a
    <3> QED
      BY <2>a, <3>1, <3>2, <3>3, TotalExtended
  <2>4. SumFunction(e) = e[l] + SumFunction(d)
    <3>1. d \in [S \ {l} -> Int]
      BY <1>5, <2>a
    <3>2. e \in [S -> Int]
      BY <1>5
    <3>3. \A k \in S \ {l} : e[k] = d[k]
      BY <1>8, <2>a
    <3> QED
      BY <2>a, <3>1, <3>2, <3>3, TotalExtended
  <2>5. row.received \in Int
    BY DEF LotRow
  <2> QED
    BY <1>6, <2>2, <2>3, <2>4, <2>5 DEF M
<1>10. CASE row.item # c
  <2>1. f = g /\ d = e
    BY <1>4, <1>8, <1>10
  <2>2. SumFunction(f) \in Int /\ SumFunction(d) \in Int
    BY <1>5, TotalIsInt
  <2> HIDE DEF f, g, d, e, R, S
  <2>3. /\ AllReceived(M, c) = 0 + AllReceived(L, c)
        /\ AllAvailable(M, c) = 0 + AllAvailable(L, c)
    BY <1>6, <2>1, <2>2
  <2> QED
    BY <2>3, 0 \in Int DEF M
<1> QED
  BY <1>9, <1>10

(* n more of consumable c with account a. *)
MoreOnHand(h, k, a, c, n) ==
    /\ h \in Hands /\ a \in Accounts /\ c \in Consumables /\ n \in Int
    /\ k = [h EXCEPT ![<<a, c>>] = h[<<a, c>>] + n]

LEMMA HandAddsUp ==
    ASSUME IsFiniteSet(Accounts), NEW h, NEW k, NEW a, NEW c, NEW n, MoreOnHand(h, k, a, c, n),
           NEW d \in Consumables
    PROVE  /\ k \in Hands /\ AllHeld(h, d) \in Int
           /\ AllHeld(k, d) = AllHeld(h, d) + (IF c = d THEN n ELSE 0)
<1> DEFINE f == [b \in Accounts |-> h[<<b, d>>]]
           g == [b \in Accounts |-> k[<<b, d>>]]
<1>0. /\ h \in Hands /\ a \in Accounts /\ c \in Consumables /\ n \in Int
      /\ h[<<a, c>>] \in Int
  BY DEF MoreOnHand, Hands
<1>1. /\ k \in Hands /\ k[<<a, c>>] = h[<<a, c>>] + n
      /\ \A b \in Accounts : (b # a \/ d # c) => k[<<b, d>>] = h[<<b, d>>]
  BY <1>0 DEF MoreOnHand, Hands
<1>2. f \in [Accounts -> Int] /\ g \in [Accounts -> Int]
  BY <1>0, <1>1 DEF Hands
<1>3. \A b \in Accounts \ {a} : g[b] = f[b]
  BY <1>1
<1>4. g[a] - f[a] = IF c = d THEN n ELSE 0
  <2>1. CASE c = d
    BY <1>0, <1>1, <2>1
  <2>2. CASE c # d
    BY <1>0, <1>1, <1>2, <2>2
  <2> QED
    BY <2>1, <2>2
<1>5. AllHeld(h, d) = SumFunction(f) /\ AllHeld(k, d) = SumFunction(g)
  BY DEF AllHeld
<1> HIDE DEF f, g
<1>6. SumFunction(g) = SumFunction(f) + (g[a] - f[a])
  BY <1>0, <1>2, <1>3, TotalChanged
<1>7. SumFunction(f) \in Int
  BY <1>2, TotalIsInt
<1> QED
  BY <1>1, <1>4, <1>5, <1>6, <1>7

(* The inventory adds lots and changes none. *)
LEMMA StockAddsLots ==
    ASSUME StockTypeOK, StockStep
    PROVE  \/ UNCHANGED lots
           \/ \E l \in Lots, row \in LotRow :
                 lots[l] = NoRow /\ row.available = row.received
                 /\ lots' = [lots EXCEPT ![l] = row]
<1>1. ASSUME NEW p \in Offices \cup {Store}, NEW c \in Consumables, NEW l \in LotIds,
             NEW q \in Quantities, Received(p, c, l, q), lots' # lots
      PROVE  \E row \in LotRow : l \in Lots /\ lots[l] = NoRow /\ row.available = row.received
                                 /\ lots' = [lots EXCEPT ![l] = row]
  <2>1. LotTracked(c) /\ LotReceived(p, c, l, q) /\ l \in Lots
    BY <1>1 DEF Received, LotIds
  <2>2. PICK x \in Expiries[kind[c]] :
            lots' = [lots EXCEPT ![l] = [item |-> c, expiry |-> x, received |-> q,
                                         available |-> q, place |-> p]]
    BY <1>1, <2>1 DEF LotReceived
  <2> DEFINE row == [item |-> c, expiry |-> x, received |-> q, available |-> q, place |-> p]
  <2>3. row \in LotRow /\ row.available = row.received
    <3>1. x \in Nat /\ q \in Nat
      BY ExpiryIsNat, QuantityIsNat
    <3> QED
      BY <3>1 DEF LotRow
  <2>4. lots[l] = NoRow
    BY <1>1, <2>1 DEF LotReceived
  <2> QED
    BY <2>1, <2>2, <2>3, <2>4
<1>2. ASSUME NEW p \in Places, NEW override \in BOOLEAN, NEW c, NEW q, UseStep(p, c, q, override)
      PROVE  UNCHANGED lots
  BY <1>2 DEF UseStep, Consume, Transfer, ReturnToCentral, MoveLots, Dispose, Decrease, Increase
<1>3. ASSUME NEW p \in Places, NEW override \in BOOLEAN, NEW k, UseContainerStep(p, k, override)
      PROVE  UNCHANGED lots
  BY <1>3 DEF UseContainerStep, TransferContainer, ReturnContainer, MoveContainer, ConsumeContainer,
              DisposeContainer, DecreaseContainer, TakeFromContainer, IncreaseContainer
<1>4. ASSUME NEW E, NEW q, OpeningBalance(E, q)
      PROVE  UNCHANGED lots
  BY <1>4 DEF OpeningBalance
<1>5. ASSUME NEW p \in Places, NEW override \in Overrides(p)
      PROVE  override \in BOOLEAN
  BY DEF Overrides
<1>6. Store \in Offices \cup {Store} /\ Offices \subseteq Offices \cup {Store}
  OBVIOUS
<1> SUFFICES ASSUME lots' # lots
             PROVE  \E l \in Lots, row \in LotRow :
                       lots[l] = NoRow /\ row.available = row.received
                       /\ lots' = [lots EXCEPT ![l] = row]
  OBVIOUS
<1>7. PICK c \in Consumables, q \in Quantities, l \in LotIds, p \in Offices \cup {Store} :
          Received(p, c, l, q)
  BY <1>2, <1>3, <1>4, <1>5, <1>6 DEF StockStep, Receive, ReceiveOffice
<1> QED
  BY <1>1, <1>7

LEMMA StockKeepsWhole ==
    ASSUME IsFiniteSet(Lots), IsFiniteSet(Accounts), LotIssuesTypeOK, NothingLost,
           StockStep, UNCHANGED <<onHand, issued, used>>
    PROVE  NothingLost'
<1>1. lots \in LotTable /\ onHand \in Hands /\ used \in [Consumables -> Nat] /\ StockTypeOK
  BY DEF LotIssuesTypeOK, StockTypeOK, LotTable, Hands
<1>2. CASE UNCHANGED lots
  BY <1>2 DEF NothingLost, LotOf
<1>3. ASSUME NEW l \in Lots, NEW row \in LotRow, lots[l] = NoRow, row.available = row.received,
             lots' = [lots EXCEPT ![l] = row], NEW c \in Consumables
      PROVE  Whole(c)'
  <2>1. PICK n \in Int : /\ AllReceived(lots', c) = n + AllReceived(lots, c)
                         /\ AllAvailable(lots', c) = n + AllAvailable(lots, c)
    BY <1>1, <1>3, LotAdded
  <2>2. AllReceived(lots, c) = AllAvailable(lots, c) + AllHeld(onHand, c) + used[c]
    BY NothingLostIsWhole DEF Whole
  <2>3. AllReceived(lots, c) \in Int /\ AllAvailable(lots, c) \in Int
    BY <1>1, RowsAddUp
  <2>4. AllHeld(onHand, c) \in Int /\ used[c] \in Int
    BY <1>1, HeldIsInt
  <2>5. AllHeld(onHand', c) = AllHeld(onHand, c) /\ used' = used
    OBVIOUS
  <2>6. AllReceived(lots', c) = AllAvailable(lots', c) + AllHeld(onHand', c) + used'[c]
    BY <2>1, <2>2, <2>3, <2>4, <2>5
  <2> QED
    BY <2>6 DEF Whole, AllReceived, AllAvailable, AllHeld, Rows
<1>4. (\A c \in Consumables : Whole(c)') => NothingLost'
  BY NothingLostNextIsWhole
<1> QED
  BY <1>1, <1>2, <1>3, <1>4, StockAddsLots

(* What a step takes from one term of the whole it adds to another. *)
LEMMA StillWhole ==
    ASSUME IsFiniteSet(Lots), IsFiniteSet(Accounts), LotIssuesTypeOK, NEW c \in Consumables, Whole(c),
           NEW i \in Int, NEW j \in Int, NEW n \in Int,
           AllReceived(lots', c) = AllReceived(lots, c),
           AllAvailable(lots', c) = AllAvailable(lots, c) + i,
           AllHeld(onHand', c) = AllHeld(onHand, c) + j,
           used'[c] = used[c] + n, i + j + n = 0
    PROVE  Whole(c)'
<1>1. lots \in LotTable /\ onHand \in Hands /\ used[c] \in Int
  BY DEF LotIssuesTypeOK, StockTypeOK, LotTable, Hands
<1>2. /\ AllReceived(lots, c) \in Int /\ AllAvailable(lots, c) \in Int
      /\ AllHeld(onHand, c) \in Int
  BY <1>1, RowsAddUp, HeldIsInt
<1>3. AllReceived(lots, c) = AllAvailable(lots, c) + AllHeld(onHand, c) + used[c]
  BY DEF Whole
<1>4. AllReceived(lots', c) = AllAvailable(lots', c) + AllHeld(onHand', c) + used'[c]
  BY <1>1, <1>2, <1>3
<1> QED
  BY <1>4 DEF Whole, AllReceived, AllAvailable, AllHeld, Rows

(* Taking q is as adding -q. *)
LEMMA LessIsMore == ASSUME NEW i \in Int, NEW q \in Int PROVE -q \in Int /\ i - q = i + (-q)
  OBVIOUS

LEMMA IssueKeepsWhole ==
    ASSUME IsFiniteSet(Lots), IsFiniteSet(Accounts), LotIssuesTypeOK, NEW d \in Consumables, Whole(d),
           NEW q \in Quantities, NEW l \in Lots, lots[l] # NoRow, NEW a \in Accounts,
           Issue(l, a, q) \/ (a \in Offices /\ OfficeToStoreLot(a, l, q))
    PROVE  Whole(d)'
<1>1. /\ lots \in LotTable /\ onHand \in Hands /\ q \in Nat /\ -q \in Int
      /\ used[d] \in Int
  BY QuantityIsNat DEF LotIssuesTypeOK, StockTypeOK, LotTable, Hands
<1>2. lots[l].place # Outside /\ lots[l].item \in Consumables /\ lots[l].available \in Nat
  BY <1>1, RowOfLot
<1>3. PICK c \in Consumables : c = lots[l].item
  BY <1>2
<1>4. \E n \in Int : MoreInLot(lots, lots', l, -n) /\ MoreOnHand(onHand, onHand', a, c, n)
  <2>1. CASE Issue(l, a, q)
    <3>1. lots' = [lots EXCEPT ![l].available = lots[l].available + (-q)]
      BY <1>1, <1>2, <2>1, LessIsMore DEF Issue
    <3>2. onHand' = [onHand EXCEPT ![<<a, c>>] = onHand[<<a, c>>] + q]
      BY <1>3, <2>1 DEF Issue, AddIn
    <3>3. lots[l].available + (-q) \in Nat
      BY <1>1, <1>2, <2>1 DEF Issue
    <3>4. MoreInLot(lots, lots', l, -q)
      BY <1>1, <1>2, <3>1, <3>3 DEF MoreInLot
    <3>5. MoreOnHand(onHand, onHand', a, c, q)
      BY <1>1, <3>2 DEF MoreOnHand
    <3> QED
      BY <1>1, <3>4, <3>5
  <2>2. CASE OfficeToStoreLot(a, l, q)
    <3>1. onHand[<<a, c>>] \in Int
      BY <1>1 DEF Hands
    <3>2. onHand' = [onHand EXCEPT ![<<a, c>>] = onHand[<<a, c>>] - q]
      BY <1>3, <2>2 DEF OfficeToStoreLot, AddOut
    <3>3. onHand' = [onHand EXCEPT ![<<a, c>>] = onHand[<<a, c>>] + (-q)]
      BY <1>1, <3>1, <3>2, LessIsMore
    <3>4. lots' = [lots EXCEPT ![l].available = lots[l].available + (-(-q))]
      <4>1. -(-q) = q
        BY <1>1
      <4>2. lots' = [lots EXCEPT ![l].available = lots[l].available + q]
        BY <2>2 DEF OfficeToStoreLot
      <4> QED
        BY <4>1, <4>2
    <3>5. -(-q) \in Int /\ lots[l].available + (-(-q)) \in Nat
      BY <1>1, <1>2
    <3>6. MoreInLot(lots, lots', l, -(-q))
      BY <1>1, <1>2, <3>4, <3>5 DEF MoreInLot
    <3>7. MoreOnHand(onHand, onHand', a, c, -q)
      BY <1>1, <3>3 DEF MoreOnHand
    <3> QED
      BY <1>1, <3>6, <3>7
  <2> QED
    BY <2>1, <2>2
<1>5. PICK n \in Int : MoreInLot(lots, lots', l, -n) /\ MoreOnHand(onHand, onHand', a, c, n)
  BY <1>4
<1> DEFINE j == IF c = d THEN n ELSE 0
           i == IF c = d THEN -n ELSE 0
<1>7. /\ AllReceived(lots', d) = AllReceived(lots, d)
      /\ AllAvailable(lots', d) = AllAvailable(lots, d) + i
  BY <1>3, <1>5, LotChanged
<1>8. AllHeld(onHand', d) = AllHeld(onHand, d) + j
  BY <1>5, HandAddsUp
<1>9. i \in Int /\ j \in Int /\ i + j + 0 = 0
  BY <1>5
<1>10. used'[d] = used[d] + 0
  BY <1>1 DEF Issue, OfficeToStoreLot
<1> QED
  BY <1>7, <1>8, <1>9, <1>10, 0 \in Int, StillWhole

LEMMA UseKeepsWhole ==
    ASSUME IsFiniteSet(Lots), IsFiniteSet(Accounts), LotIssuesTypeOK, NEW d \in Consumables, Whole(d),
           NEW q \in Quantities, NEW c \in Consumables, NEW a \in Accounts,
           RecordConsumption(a, c, q)
    PROVE  Whole(d)'
<1>1. /\ lots \in LotTable /\ onHand \in Hands /\ q \in Int /\ -q \in Int
      /\ used \in [Consumables -> Int] /\ onHand[<<a, c>>] \in Int
  BY QuantityIsNat DEF LotIssuesTypeOK, StockTypeOK, LotTable, Hands
<1>2. /\ onHand' = [onHand EXCEPT ![<<a, c>>] = onHand[<<a, c>>] - q]
      /\ used' = [used EXCEPT ![c] = used[c] + q] /\ UNCHANGED lots
  BY DEF RecordConsumption, AddOut
<1>3. MoreOnHand(onHand, onHand', a, c, -q)
  BY <1>1, <1>2, LessIsMore DEF MoreOnHand
<1> DEFINE j == IF c = d THEN -q ELSE 0
           n == IF c = d THEN q ELSE 0
<1>4. AllHeld(onHand', d) = AllHeld(onHand, d) + j
  BY <1>3, HandAddsUp
<1>5. used'[d] = used[d] + n
  BY <1>1, <1>2
<1>6. /\ AllReceived(lots', d) = AllReceived(lots, d)
      /\ AllAvailable(lots', d) = AllAvailable(lots, d) + 0
  BY <1>1, <1>2, RowsAddUp
<1>7. j \in Int /\ n \in Int /\ 0 + j + n = 0
  BY <1>1
<1> QED
  BY <1>4, <1>5, <1>6, <1>7, 0 \in Int, StillWhole

LEMMA ReturnKeepsWhole ==
    ASSUME IsFiniteSet(Lots), IsFiniteSet(Accounts), LotIssuesTypeOK, NEW d \in Consumables, Whole(d),
           NEW q \in Quantities, NEW c \in Consumables, NEW u \in Users, NEW o \in Offices,
           UserToOffice(u, o, c, q)
    PROVE  Whole(d)'
<1>0. u \in Accounts /\ o \in Accounts
  BY DEF Accounts
<1>1. /\ lots \in LotTable /\ onHand \in Hands /\ q \in Int /\ -q \in Int
      /\ used \in [Consumables -> Int] /\ onHand[<<u, c>>] \in Int
  BY <1>0, QuantityIsNat DEF LotIssuesTypeOK, StockTypeOK, LotTable, Hands
<1>2. PICK h : h = [onHand EXCEPT ![<<u, c>>] = onHand[<<u, c>>] - q]
  OBVIOUS
<1>3. MoreOnHand(onHand, h, u, c, -q)
  BY <1>0, <1>1, <1>2, LessIsMore DEF MoreOnHand
<1>4. h \in Hands
  BY <1>3, HandAddsUp
<1>5. onHand' = [h EXCEPT ![<<o, c>>] = h[<<o, c>>] + q] /\ UNCHANGED <<lots, used>>
  BY <1>2 DEF UserToOffice, AddIn, AddOut
<1>6. MoreOnHand(h, onHand', o, c, q)
  BY <1>0, <1>1, <1>4, <1>5 DEF MoreOnHand
<1> DEFINE i == IF c = d THEN -q ELSE 0
           j == IF c = d THEN q ELSE 0
<1>7. AllHeld(h, d) = AllHeld(onHand, d) + i /\ AllHeld(onHand, d) \in Int
  BY <1>3, HandAddsUp
<1>8. AllHeld(onHand', d) = AllHeld(h, d) + j
  BY <1>6, HandAddsUp
<1>9. i \in Int /\ j \in Int /\ i + j = 0
  BY <1>1
<1>10. AllHeld(onHand', d) = AllHeld(onHand, d) + 0
  <2> HIDE DEF i, j
  <2> QED
    BY <1>7, <1>8, <1>9
<1>11. /\ AllReceived(lots', d) = AllReceived(lots, d)
       /\ AllAvailable(lots', d) = AllAvailable(lots, d) + 0
  BY <1>1, <1>5, RowsAddUp
<1>12. used'[d] = used[d] + 0 /\ 0 \in Int /\ 0 + 0 + 0 = 0
  BY <1>1, <1>5
<1> QED
  BY <1>10, <1>11, <1>12, StillWhole

LEMMA IssuesKeepWhole ==
    ASSUME IsFiniteSet(Lots), IsFiniteSet(Accounts), LotIssuesTypeOK, NothingLost, IssueStep
    PROVE  NothingLost'
<1>1. \A c \in Consumables : Whole(c)
  BY NothingLostIsWhole
<1>2. Offices \subseteq Accounts
  BY DEF Accounts
<1>3. ASSUME NEW c \in Consumables PROVE Whole(c)'
  BY <1>1, <1>2, IssueKeepsWhole, UseKeepsWhole, ReturnKeepsWhole DEF IssueStep
<1> QED
  BY <1>3, NothingLostNextIsWhole

(* issueConsumable, createConsumption and createReturn write a quantity    *)
(* off one document and on another in one transaction: whatever the order  *)
(* they come in, over any number of lots, offices and users, what was      *)
(* received in lots of a consumable is in lots, with somebody or used up.  *)
THEOREM NothingIsLost ==
    ASSUME IsFiniteSet(Lots), IsFiniteSet(Accounts)
    PROVE  LSpec => []NothingLost
<1>1. LInit => NothingLost
  <2> SUFFICES ASSUME LInit, NEW c \in Consumables PROVE Whole(c)
    BY NothingLostIsWhole
  <2>1. Rows(lots, c) = {}
    BY DEF LInit, SInit, Rows, NoRow
  <2>2. AllReceived(lots, c) = 0 /\ AllAvailable(lots, c) = 0
    BY <2>1, SumOfNone DEF AllReceived, AllAvailable, SumFunction
  <2>3. AllHeld(onHand, c) = 0
    <3> DEFINE f == [a \in Accounts |-> onHand[<<a, c>>]]
    <3>1. DOMAIN f = Accounts /\ \A a \in Accounts : f[a] = 0
      BY DEF LInit
    <3>2. AllHeld(onHand, c) = SumFunctionOnSet(f, Accounts)
      BY DEF AllHeld, SumFunction
    <3> HIDE DEF f
    <3> QED
      BY <3>1, <3>2, SumOfZeros
  <2>4. used[c] = 0
    BY DEF LInit
  <2> QED
    BY <2>2, <2>3, <2>4 DEF Whole
<1>2. IssueInv /\ NothingLost /\ [LNext]_ivars => NothingLost'
  <2> SUFFICES ASSUME IssueInv, NothingLost, [LNext]_ivars PROVE NothingLost'
    OBVIOUS
  <2>1. LotIssuesTypeOK
    BY DEF IssueInv
  <2>2. CASE UNCHANGED ivars
    BY <2>2 DEF ivars, NothingLost, LotOf
  <2> QED
    BY <2>1, <2>2, StockKeepsWhole, IssuesKeepWhole DEF LNext
<1> QED
  BY <1>1, <1>2, IssueInvariant, PTL DEF LSpec

-----------------------------------------------------------------------------
(* Containers.  The invariant behind StockIsInContainers: what is in a     *)
(* container is of a lot that was received, and of a lot of another item   *)
(* a place has no more on its books than was posted as opening balance.    *)

BoxTable == [Containers -> ContainerRow \cup {NoRow}]

Contents(b, p, l) == SumFunction([k \in {j \in Containers : b[j].place = p /\ b[j].lot = l} |-> b[k].qty])

(* What container k holds of lot l at place p *)
Share(b, p, l) == [k \in Containers |-> IF b[k].place = p /\ b[k].lot = l THEN b[k].qty ELSE 0]

TrackedIn(L, key) ==
    key[3] \in Lots /\ L[key[3]].place # Outside /\ L[key[3]].item = key[2]
BoxedOf(b, L, key) == IF TrackedIn(L, key) THEN Contents(b, key[1], key[3]) ELSE 0

LotsOfContainers ==
    \A k \in Containers : box[k].place # Outside =>
        box[k].lot \in Lots /\ lots[box[k].lot].place # Outside

StockIsBoxed ==
    \A key \in Keys : NeedsContainer(key[2]) => bal[key] <= opening[key] + BoxedOf(box, lots, key)

BoxInv == StockInv /\ LotsOfContainers /\ StockIsBoxed

LEMMA RowOfContainer ==
    ASSUME NEW b \in BoxTable, NEW k \in Containers
    PROVE  /\ b[k].place # Outside <=> b[k] # NoRow
           /\ b[k].place # Outside => /\ b[k] \in ContainerRow /\ b[k].qty \in Nat
                                      /\ b[k].lot \in Lots /\ b[k].place \in Places
<1>1. b[k] \in ContainerRow \cup {NoRow}
  BY DEF BoxTable
<1>2. Outside \notin Places
  BY StockConstants
<1>3. NoRow.place = Outside
  BY DEF NoRow
<1> QED
  BY <1>1, <1>2, <1>3 DEF ContainerRow

(* The contents are the sum of what each container holds.                  *)
LEMMA ContentsAddUp ==
    ASSUME IsFiniteSet(Containers), NEW b \in BoxTable, NEW p \in Places, NEW l
    PROVE  /\ Share(b, p, l) \in [Containers -> Nat]
           /\ Contents(b, p, l) = SumFunction(Share(b, p, l))
           /\ Contents(b, p, l) \in Nat
<1> DEFINE H == {j \in Containers : b[j].place = p /\ b[j].lot = l}
           O == Containers \ H
           f == Share(b, p, l)
           g == [k \in H |-> b[k].qty]
<1>0. Outside # p
  BY StockConstants
<1>1. f \in [Containers -> Nat]
  BY <1>0, RowOfContainer DEF Share
<1>2. Containers = H \cup O /\ H \cap O = {}
  OBVIOUS
<1>3. IsFiniteSet(H) /\ IsFiniteSet(O)
  BY FS_Subset
<1>4. \A k \in H : g[k] = f[k]
  BY DEF Share
<1>5. \A k \in O : f[k] = 0
  BY DEF Share
<1>6. DOMAIN f = Containers /\ DOMAIN g = H
  BY DEF Share
<1>7. Contents(b, p, l) = SumFunctionOnSet(g, H)
  BY <1>6 DEF Contents, SumFunction
<1> HIDE DEF f, g, H, O
<1>8. \A k \in H \cup O : f[k] \in Int
  BY <1>1, <1>2
<1>9. SumFunctionOnSet(f, H \cup O) = SumFunctionOnSet(f, H) + SumFunctionOnSet(f, O)
  BY <1>2, <1>3, <1>8, SumUnion
<1>10. SumFunctionOnSet(f, O) = 0
  BY <1>3, <1>5, SumOfZeros
<1>11. SumFunctionOnSet(g, H) = SumFunctionOnSet(f, H)
  BY <1>3, <1>4, SumsAgree
<1>12. SumFunctionOnSet(f, H) \in Nat
  BY <1>1, <1>2, <1>3, SumNat
<1>13. SumFunction(f) = SumFunctionOnSet(f, H \cup O)
  BY <1>2, <1>6 DEF SumFunction
<1>14. Contents(b, p, l) = SumFunction(f) /\ Contents(b, p, l) \in Nat
  BY <1>7, <1>9, <1>10, <1>11, <1>12, <1>13
<1> QED
  BY <1>1, <1>14 DEF f

(* Another row for one container. *)
OneContainer(b, d, k) ==
    b \in BoxTable /\ d \in BoxTable /\ k \in Containers /\ \A j \in Containers \ {k} : d[j] = b[j]

LEMMA ContainerChanged ==
    ASSUME IsFiniteSet(Containers), NEW b, NEW d, NEW k, OneContainer(b, d, k), NEW p \in Places, NEW l
    PROVE  Contents(d, p, l) = Contents(b, p, l) + (Share(d, p, l)[k] - Share(b, p, l)[k])
<1> DEFINE f == Share(b, p, l)
           g == Share(d, p, l)
<1>0. b \in BoxTable /\ d \in BoxTable /\ k \in Containers
  BY DEF OneContainer
<1>1. f \in [Containers -> Int] /\ g \in [Containers -> Int]
  BY <1>0, ContentsAddUp
<1>2. \A j \in Containers \ {k} : g[j] = f[j]
  BY DEF OneContainer, Share
<1>3. Contents(b, p, l) = SumFunction(f) /\ Contents(d, p, l) = SumFunction(g)
  BY <1>0, ContentsAddUp
<1> HIDE DEF f, g
<1>4. SumFunction(g) = SumFunction(f) + (g[k] - f[k])
  BY <1>0, <1>1, <1>2, TotalChanged
<1> QED
  BY <1>3, <1>4 DEF f, g

(* Containers that were not there, with what they come with. *)
NewContainers(b, d, p, l, fill, S) ==
    /\ b \in BoxTable /\ d \in BoxTable /\ p \in Places /\ S \subseteq Containers
    /\ \A k \in S : b[k] = NoRow /\ d[k].place = p /\ d[k].lot = l /\ d[k].qty = fill[k]
    /\ \A k \in Containers \ S : d[k] = b[k]

LEMMA ContainersAdded ==
    ASSUME IsFiniteSet(Containers), NEW b, NEW d, NEW p, NEW l, NEW S, NEW fill \in [S -> Nat],
           NewContainers(b, d, p, l, fill, S), NEW a \in Places, NEW m
    PROVE  Contents(d, a, m) = Contents(b, a, m) + (IF a = p /\ m = l THEN SumFunction(fill) ELSE 0)
<1> DEFINE f == Share(b, a, m)
           g == Share(d, a, m)
           O == Containers \ S
<1>0. /\ b \in BoxTable /\ d \in BoxTable /\ S \subseteq Containers /\ a # Outside
      /\ IsFiniteSet(S) /\ IsFiniteSet(O) /\ Containers = O \cup S /\ O \cap S = {}
  BY FS_Subset, StockConstants DEF NewContainers
<1>1. f \in [Containers -> Nat] /\ g \in [Containers -> Nat]
  BY <1>0, ContentsAddUp
<1>2. \A k \in O : g[k] = f[k]
  BY DEF NewContainers, Share
<1>3. \A k \in S : f[k] = 0
  BY <1>0 DEF NewContainers, Share, NoRow
<1>4. \A k \in S : g[k] = IF a = p /\ m = l THEN fill[k] ELSE 0
  BY <1>0 DEF NewContainers, Share
<1>5. Contents(b, a, m) = SumFunction(f) /\ Contents(d, a, m) = SumFunction(g)
  BY <1>0, ContentsAddUp
<1>6. DOMAIN f = Containers /\ DOMAIN g = Containers /\ DOMAIN fill = S
  BY DEF Share
<1> HIDE DEF f, g, O
<1>7. \A k \in O \cup S : f[k] \in Int /\ g[k] \in Int
  BY <1>0, <1>1
<1>8. /\ SumFunctionOnSet(f, O \cup S) = SumFunctionOnSet(f, O) + SumFunctionOnSet(f, S)
      /\ SumFunctionOnSet(g, O \cup S) = SumFunctionOnSet(g, O) + SumFunctionOnSet(g, S)
  BY <1>0, <1>7, SumUnion
<1>9. SumFunctionOnSet(f, O) = SumFunctionOnSet(g, O)
  BY <1>0, <1>2, SumsAgree
<1>10. SumFunctionOnSet(f, S) = 0
  BY <1>0, <1>3, SumOfZeros
<1>11. SumFunctionOnSet(g, S) = IF a = p /\ m = l THEN SumFunctionOnSet(fill, S) ELSE 0
  <2>1. CASE a = p /\ m = l
    BY <1>0, <1>4, <2>1, SumsAgree
  <2>2. CASE ~ (a = p /\ m = l)
    BY <1>0, <1>4, <2>2, SumOfZeros
  <2> QED
    BY <2>1, <2>2
<1>12. SumFunctionOnSet(g, O) \in Int /\ SumFunctionOnSet(g, S) \in Int
  BY <1>0, <1>7, SumInt
<1>13. /\ SumFunction(f) = SumFunctionOnSet(f, O \cup S) /\ SumFunction(g) = SumFunctionOnSet(g, O \cup S)
       /\ SumFunction(fill) = SumFunctionOnSet(fill, S)
  BY <1>0, <1>6 DEF SumFunction
<1> QED
  BY <1>5, <1>8, <1>9, <1>10, <1>11, <1>12, <1>13

LEMMA BoxedNext ==
    ASSUME UNCHANGED kind,
           \A key \in Keys : NeedsContainer(key[2]) =>
               bal'[key] <= opening'[key] + BoxedOf(box', lots', key)
    PROVE  StockIsBoxed'
  BY DEF StockIsBoxed, NeedsContainer, BoxedOf, TrackedIn, Contents

LEMMA BoxTypes ==
    ASSUME BoxInv
    PROVE  /\ box \in BoxTable /\ lots \in LotTable
           /\ bal \in [Keys -> Int] /\ opening \in [Keys -> Nat]
  BY DEF BoxInv, StockInv, StockTypeOK, BoxTable, LotTable

LEMMA BoxedIsNat ==
    ASSUME IsFiniteSet(Containers), NEW b \in BoxTable, NEW L, NEW key \in Keys
    PROVE  BoxedOf(b, L, key) \in Nat
<1>1. key[1] \in Places
  BY DEF Keys
<1> QED
  BY <1>1, ContentsAddUp, 0 \in Nat DEF BoxedOf

(* What a posting of one lot does to a key. *)
Hit(key, p, c, l, n) == IF key[1] = p /\ key[2] = c /\ key[3] = l THEN n ELSE 0

LEMMA PartOfOnly ==
    ASSUME NEW p, NEW c, NEW l, NEW n \in Int, NEW key \in Keys
    PROVE  Part(p, c, Only(l, n), key) = Hit(key, p, c, l, n) /\ Hit(key, p, c, l, n) \in Int
<1>1. key[3] \in LotIds
  BY DEF Keys
<1> QED
  BY <1>1 DEF Part, Only, Hit

LEMMA PostOfOnly ==
    ASSUME bal \in [Keys -> Int], NEW p, NEW r, NEW c, NEW l, NEW n \in Int,
           bal' = Moved(p, r, c, Only(l, n)), NEW key \in Keys
    PROVE  bal'[key] = bal[key] - Hit(key, p, c, l, n) + Hit(key, r, c, l, n)
<1>1. bal'[key] = bal[key] - Part(p, c, Only(l, n), key) + Part(r, c, Only(l, n), key)
  BY DEF Moved
<1> QED
  BY <1>1, PartOfOnly

(* An operation without containers is not on an item that must be in them. *)
LEMMA PostKeepsBoxed ==
    ASSUME BoxInv, NEW p, NEW r, NEW c, NEW take, NEW override, Post(p, r, c, take, override),
           ~NeedsContainer(c), UNCHANGED <<kind, lots, box>>
    PROVE  LotsOfContainers' /\ StockIsBoxed'
<1>1. LotsOfContainers'
  BY DEF BoxInv, LotsOfContainers
<1>2. ASSUME NEW key \in Keys, NeedsContainer(key[2])
      PROVE  bal'[key] <= opening'[key] + BoxedOf(box', lots', key)
  <2>1. key[2] # c
    BY <1>2
  <2>2. Part(p, c, take, key) = 0 /\ Part(r, c, take, key) = 0
    BY <2>1 DEF Part
  <2>3. bal'[key] = bal[key] - 0 + 0
    BY <2>2 DEF Post, Moved
  <2>4. bal'[key] = bal[key] /\ opening' = opening
    BY <2>3, BoxTypes DEF Post
  <2> QED
    BY <1>2, <2>4 DEF BoxInv, StockIsBoxed
<1> QED
  BY <1>1, <1>2, BoxedNext

LEMMA UseKeepsBoxed ==
    ASSUME BoxInv, NEW p \in Places, NEW c \in Consumables, NEW q \in Quantities,
           NEW override \in BOOLEAN, UseStep(p, c, q, override)
    PROVE  LotsOfContainers' /\ StockIsBoxed'
<1>1. \A take : take \in Allocations(p, c, q) => ~NeedsContainer(c)
  BY DEF Allocations
<1>2. \A l : Named(c, l) => ~NeedsContainer(c)
  BY DEF Named
<1>3. ASSUME NEW r, MoveLots(p, r, c, q, override)
      PROVE  LotsOfContainers' /\ StockIsBoxed'
  BY <1>1, <1>3, PostKeepsBoxed DEF MoveLots
<1>4. CASE Consume(p, c, q, override)
  BY <1>1, <1>4, PostKeepsBoxed DEF Consume
<1>5. ASSUME NEW l \in LotIds, Dispose(p, c, l, q, override) \/ Decrease(p, c, l, q, override)
      PROVE  LotsOfContainers' /\ StockIsBoxed'
  BY <1>2, <1>5, PostKeepsBoxed DEF Dispose, Decrease
<1>6. ASSUME NEW l \in LotIds, Increase(p, c, l, q, override)
      PROVE  LotsOfContainers' /\ StockIsBoxed'
  BY <1>2, <1>6, PostKeepsBoxed DEF Increase
<1> QED
  BY <1>3, <1>4, <1>5, <1>6 DEF UseStep, Transfer, ReturnToCentral

(* An operation on a container changes its row as it changes the books.    *)
Follow(k, l, c) ==
    \A key \in Keys :
        bal'[key] <= bal[key] + (IF key[2] = c /\ key[3] = l
                                   THEN Share(box', key[1], l)[k] - Share(box, key[1], l)[k]
                                   ELSE 0)

LEMMA RowAsBooks ==
    ASSUME IsFiniteSet(Containers), BoxInv, NEW k, NEW l, NEW c, OneContainer(box, box', k),
           box[k].place # Outside, box[k].lot = l, lots[l].item = c, box'[k].lot = l,
           UNCHANGED <<kind, lots, opening>>, bal' \in [Keys -> Int],
           Follow(k, l, c)
    PROVE  LotsOfContainers' /\ StockIsBoxed'
<1>0. /\ box \in BoxTable /\ box' \in BoxTable /\ k \in Containers /\ lots \in LotTable
      /\ bal \in [Keys -> Int] /\ opening \in [Keys -> Nat]
      /\ l \in Lots /\ lots[l].place # Outside
  BY BoxTypes DEF OneContainer, BoxInv, LotsOfContainers
<1>1. LotsOfContainers'
  BY <1>0 DEF BoxInv, LotsOfContainers, OneContainer
<1>2. ASSUME NEW key \in Keys, NeedsContainer(key[2])
      PROVE  bal'[key] <= opening'[key] + BoxedOf(box', lots', key)
  <2>1. key[1] \in Places
    BY DEF Keys
  <2>2. bal[key] <= opening[key] + BoxedOf(box, lots, key)
    BY <1>2 DEF BoxInv, StockIsBoxed
  <2>3. /\ BoxedOf(box, lots, key) \in Nat
        /\ bal[key] \in Int /\ bal'[key] \in Int /\ opening[key] \in Nat
    BY <1>0, BoxedIsNat
  <2>4. CASE key[2] = c /\ key[3] = l
    <3>1. TrackedIn(lots, key)
      BY <1>0, <2>4 DEF TrackedIn
    <3>2. /\ BoxedOf(box, lots, key) = Contents(box, key[1], l)
          /\ BoxedOf(box', lots', key) = Contents(box', key[1], l)
      BY <2>4, <3>1 DEF BoxedOf
    <3>3. PICK i \in Int : i = Share(box', key[1], l)[k] - Share(box, key[1], l)[k]
      <4>1. Share(box', key[1], l)[k] \in Nat
        BY <1>0, <2>1, ContentsAddUp
      <4>2. Share(box, key[1], l)[k] \in Nat
        BY <1>0, <2>1, ContentsAddUp
      <4> QED
        BY <4>1, <4>2
    <3>4. Contents(box', key[1], l) = Contents(box, key[1], l) + i
      BY <2>1, <3>3, ContainerChanged
    <3>5. bal'[key] <= bal[key] + i
      BY <2>4, <3>3 DEF Follow
    <3> QED
      BY <2>2, <2>3, <3>2, <3>3, <3>4, <3>5
  <2>5. CASE ~ (key[2] = c /\ key[3] = l)
    <3>1. bal'[key] <= bal[key] + 0
      BY <2>5 DEF Follow
    <3>2. BoxedOf(box', lots', key) = BoxedOf(box, lots, key)
      <4>1. SUFFICES ASSUME TrackedIn(lots, key)
                     PROVE  Contents(box', key[1], key[3]) = Contents(box, key[1], key[3])
        BY DEF BoxedOf
      <4>2. key[3] # l
        BY <2>5, <4>1 DEF TrackedIn
      <4>3. Share(box', key[1], key[3])[k] = 0 /\ Share(box, key[1], key[3])[k] = 0
        BY <1>0, <4>2 DEF Share
      <4>4. Contents(box', key[1], key[3]) = Contents(box, key[1], key[3]) + (0 - 0)
        BY <2>1, <4>3, ContainerChanged
      <4>5. Contents(box, key[1], key[3]) \in Nat
        BY <1>0, <2>1, ContentsAddUp
      <4> QED
        BY <4>4, <4>5
    <3> QED
      BY <2>2, <2>3, <3>1, <3>2
  <2> QED
    BY <2>4, <2>5
<1> QED
  BY <1>1, <1>2, BoxedNext

(* The row of a container at p, of lot l of item c. *)
LEMMA ContainerOfLot ==
    ASSUME BoxInv, NEW p \in Places, NEW k \in Containers, ContainerAt(k, p)
    PROVE  /\ box[k] \in ContainerRow /\ box[k].place # Outside /\ box[k].place = p
           /\ box[k].qty \in Nat /\ box[k].lot \in Lots
<1>1. p # Outside
  BY StockConstants
<1> QED
  BY <1>1, BoxTypes, RowOfContainer DEF ContainerAt

LEMMA MoveKeepsBoxed ==
    ASSUME IsFiniteSet(Containers), BoxInv, BoxInv => StockInv', NEW p \in Places, NEW r \in Places,
           NEW k \in Containers, NEW override \in BOOLEAN, MoveContainer(p, r, k, override)
    PROVE  LotsOfContainers' /\ StockIsBoxed'
<1>1. PICK l \in Lots, n \in Nat : l = box[k].lot /\ n = box[k].qty
  BY ContainerOfLot DEF MoveContainer
<1>2. PICK c : c = lots[l].item
  OBVIOUS
<1>3. /\ box[k] \in ContainerRow /\ box[k].place # Outside /\ box[k].place = p
      /\ box \in BoxTable /\ bal \in [Keys -> Int]
  BY ContainerOfLot, BoxTypes DEF MoveContainer
<1>4. /\ bal' = Moved(p, r, c, Only(l, n)) /\ UNCHANGED <<kind, lots>>
      /\ box' = [box EXCEPT ![k].place = r]
  BY <1>1, <1>2 DEF MoveContainer, Post
<1>5. box' \in BoxTable /\ bal' \in [Keys -> Int]
  BY DEF StockInv, StockTypeOK, BoxTable
<1>6. OneContainer(box, box', k) /\ box'[k].lot = l /\ box'[k].place = r /\ box'[k].qty = n
  BY <1>1, <1>3, <1>4, <1>5 DEF OneContainer, BoxTable, ContainerRow
<1>7. opening' = opening
  BY DEF MoveContainer, Post
<1>8. ASSUME NEW key \in Keys
      PROVE  bal'[key] <= bal[key] + (IF key[2] = c /\ key[3] = l
                                        THEN Share(box', key[1], l)[k] - Share(box, key[1], l)[k]
                                        ELSE 0)
  <2>1. bal'[key] = bal[key] - Hit(key, p, c, l, n) + Hit(key, r, c, l, n)
    BY <1>3, <1>4, PostOfOnly
  <2>2. bal[key] \in Int
    BY <1>3
  <2>3. CASE key[2] = c /\ key[3] = l
    <3>1. /\ Share(box', key[1], l)[k] = IF key[1] = r THEN n ELSE 0
          /\ Share(box, key[1], l)[k] = IF key[1] = p THEN n ELSE 0
      BY <1>1, <1>3, <1>6 DEF Share
    <3>2. /\ Hit(key, p, c, l, n) = IF key[1] = p THEN n ELSE 0
          /\ Hit(key, r, c, l, n) = IF key[1] = r THEN n ELSE 0
      BY <2>3 DEF Hit
    <3> QED
      BY <2>1, <2>2, <2>3, <3>1, <3>2
  <2>4. CASE ~ (key[2] = c /\ key[3] = l)
    BY <2>1, <2>2, <2>4 DEF Hit
  <2> QED
    BY <2>3, <2>4
<1>9. Follow(k, l, c)
  BY <1>8 DEF Follow
<1> QED
  BY <1>1, <1>2, <1>3, <1>4, <1>5, <1>6, <1>7, <1>9, RowAsBooks

(* Taken from a container: it is left with no less than the books are.     *)
LEMMA TakeKeepsBoxed ==
    ASSUME IsFiniteSet(Containers), BoxInv, BoxInv => StockInv', NEW p \in Places, NEW q \in Quantities,
           NEW k \in Containers, NEW override \in BOOLEAN, TakeFromContainer(p, k, q, override)
    PROVE  LotsOfContainers' /\ StockIsBoxed'
<1>1. PICK l \in Lots, n \in Nat : l = box[k].lot /\ n = box[k].qty
  BY ContainerOfLot DEF TakeFromContainer
<1>2. PICK c : c = lots[l].item
  OBVIOUS
<1>3. /\ box[k] \in ContainerRow /\ box[k].place # Outside /\ box[k].place = p
      /\ box \in BoxTable /\ bal \in [Keys -> Int] /\ q \in Nat
  BY ContainerOfLot, BoxTypes, QuantityIsNat DEF TakeFromContainer
<1>l. PICK left \in Nat : left = IF q < n THEN n - q ELSE 0
  BY <1>3
<1>4. /\ bal' = Moved(p, Outside, c, Only(l, q)) /\ UNCHANGED <<kind, lots>>
      /\ box' = [box EXCEPT ![k].qty = left]
  BY <1>1, <1>2, <1>l DEF TakeFromContainer, Drained, Post
<1>5. box' \in BoxTable /\ bal' \in [Keys -> Int]
  BY DEF StockInv, StockTypeOK, BoxTable
<1>6. OneContainer(box, box', k) /\ box'[k].lot = l /\ box'[k].place = p /\ box'[k].qty = left
  BY <1>1, <1>3, <1>4, <1>5 DEF OneContainer, BoxTable, ContainerRow
<1>7. opening' = opening
  BY DEF TakeFromContainer, Post
<1>8. ASSUME NEW key \in Keys
      PROVE  bal'[key] <= bal[key] + (IF key[2] = c /\ key[3] = l
                                        THEN Share(box', key[1], l)[k] - Share(box, key[1], l)[k]
                                        ELSE 0)
  <2>1. bal'[key] = bal[key] - Hit(key, p, c, l, q) + Hit(key, Outside, c, l, q)
    BY <1>3, <1>4, PostOfOnly
  <2>2. bal[key] \in Int /\ key[1] # Outside
    BY <1>3, StockConstants DEF Keys
  <2>h. Hit(key, Outside, c, l, q) = 0
    BY <2>2 DEF Hit
  <2>3. CASE key[2] = c /\ key[3] = l
    <3>1. /\ Share(box', key[1], l)[k] = IF key[1] = p THEN left ELSE 0
          /\ Share(box, key[1], l)[k] = IF key[1] = p THEN n ELSE 0
      BY <1>1, <1>3, <1>6 DEF Share
    <3>2. Hit(key, p, c, l, q) = IF key[1] = p THEN q ELSE 0
      BY <2>3 DEF Hit
    <3>3. left - n >= -q
      BY <1>3, <1>l
    <3> QED
      BY <1>3, <2>1, <2>2, <2>h, <2>3, <3>1, <3>2, <3>3
  <2>4. CASE ~ (key[2] = c /\ key[3] = l)
    BY <2>1, <2>2, <2>h, <2>4 DEF Hit
  <2> QED
    BY <2>3, <2>4
<1>9. Follow(k, l, c)
  BY <1>8 DEF Follow
<1> QED
  BY <1>1, <1>2, <1>3, <1>4, <1>5, <1>6, <1>7, <1>9, RowAsBooks

LEMMA FillKeepsBoxed ==
    ASSUME IsFiniteSet(Containers), BoxInv, BoxInv => StockInv', NEW p \in Places, NEW q \in Quantities,
           NEW k \in Containers, NEW override \in BOOLEAN, IncreaseContainer(p, k, q, override)
    PROVE  LotsOfContainers' /\ StockIsBoxed'
<1>1. PICK l \in Lots, n \in Nat : l = box[k].lot /\ n = box[k].qty
  BY ContainerOfLot DEF IncreaseContainer
<1>2. PICK c : c = lots[l].item
  OBVIOUS
<1>3. /\ box[k] \in ContainerRow /\ box[k].place # Outside /\ box[k].place = p
      /\ box \in BoxTable /\ bal \in [Keys -> Int] /\ q \in Nat
  BY ContainerOfLot, BoxTypes, QuantityIsNat DEF IncreaseContainer
<1>4. /\ bal' = Moved(Outside, p, c, Only(l, q)) /\ UNCHANGED <<kind, lots>>
      /\ box' = [box EXCEPT ![k].qty = n + q]
  BY <1>1, <1>2 DEF IncreaseContainer, Post
<1>5. box' \in BoxTable /\ bal' \in [Keys -> Int]
  BY DEF StockInv, StockTypeOK, BoxTable
<1>6. OneContainer(box, box', k) /\ box'[k].lot = l /\ box'[k].place = p /\ box'[k].qty = n + q
  BY <1>1, <1>3, <1>4, <1>5 DEF OneContainer, BoxTable, ContainerRow
<1>7. opening' = opening
  BY DEF IncreaseContainer, Post
<1>8. ASSUME NEW key \in Keys
      PROVE  bal'[key] <= bal[key] + (IF key[2] = c /\ key[3] = l
                                        THEN Share(box', key[1], l)[k] - Share(box, key[1], l)[k]
                                        ELSE 0)
  <2>1. bal'[key] = bal[key] - Hit(key, Outside, c, l, q) + Hit(key, p, c, l, q)
    BY <1>3, <1>4, PostOfOnly
  <2>2. bal[key] \in Int /\ key[1] # Outside
    BY <1>3, StockConstants DEF Keys
  <2>h. Hit(key, Outside, c, l, q) = 0
    BY <2>2 DEF Hit
  <2>3. CASE key[2] = c /\ key[3] = l
    <3>1. /\ Share(box', key[1], l)[k] = IF key[1] = p THEN n + q ELSE 0
          /\ Share(box, key[1], l)[k] = IF key[1] = p THEN n ELSE 0
      BY <1>1, <1>3, <1>6 DEF Share
    <3>2. Hit(key, p, c, l, q) = IF key[1] = p THEN q ELSE 0
      BY <2>3 DEF Hit
    <3> QED
      BY <1>3, <2>1, <2>2, <2>h, <2>3, <3>1, <3>2
  <2>4. CASE ~ (key[2] = c /\ key[3] = l)
    BY <2>1, <2>2, <2>h, <2>4 DEF Hit
  <2> QED
    BY <2>3, <2>4
<1>9. Follow(k, l, c)
  BY <1>8 DEF Follow
<1> QED
  BY <1>1, <1>2, <1>3, <1>4, <1>5, <1>6, <1>7, <1>9, RowAsBooks

LEMMA OpeningKeepsBoxed ==
    ASSUME IsFiniteSet(Containers), BoxInv, NEW E \in SUBSET Openings, NEW q \in Quantities,
           OpeningBalance(E, q)
    PROVE  LotsOfContainers' /\ StockIsBoxed'
<1>0. UNCHANGED <<kind, lots, box>>
  BY DEF OpeningBalance
<1>1. LotsOfContainers'
  BY <1>0 DEF BoxInv, LotsOfContainers
<1>2. ASSUME NEW key \in Keys, NeedsContainer(key[2])
      PROVE  bal'[key] <= opening'[key] + BoxedOf(box', lots', key)
  <2>1. PICK n \in {0, q} : bal'[key] = bal[key] + n /\ opening'[key] = opening[key] + n
    <3>1. bal[key] = bal[key] + 0 /\ opening[key] = opening[key] + 0
      BY BoxTypes
    <3> QED
      BY <1>2, <3>1 DEF OpeningBalance
  <2>2. n \in Nat /\ bal[key] \in Int /\ opening[key] \in Nat
    BY QuantityIsNat, BoxTypes
  <2>3. bal[key] <= opening[key] + BoxedOf(box, lots, key)
    BY <1>2 DEF BoxInv, StockIsBoxed
  <2>4. BoxedOf(box', lots', key) = BoxedOf(box, lots, key)
    BY <1>0
  <2>5. BoxedOf(box, lots, key) \in Int
    BY BoxTypes, BoxedIsNat
  <2> QED
    BY <2>1, <2>2, <2>3, <2>4, <2>5
<1> QED
  BY <1>0, <1>1, <1>2, BoxedNext

(* A receipt in containers fills as much as it books. *)
LEMMA ReceiptKeepsBoxed ==
    ASSUME IsFiniteSet(Containers), BoxInv, BoxInv => StockInv', NEW p \in Offices \cup {Store},
           NEW c \in Consumables, NEW l \in LotIds, NEW q \in Quantities, Received(p, c, l, q)
    PROVE  LotsOfContainers' /\ StockIsBoxed'
<1>0. /\ UNCHANGED <<kind, opening>> /\ bal' = Moved(Outside, p, c, Only(l, q))
      /\ q \in Nat /\ p \in Places /\ p # Outside
  BY QuantityIsNat, StockConstants DEF Received, Post, Places
<1>1. CASE ~LotTracked(c)
  <2>1. Post(Outside, p, c, Only(l, q), FALSE) /\ UNCHANGED <<kind, lots, box>>
    BY <1>1 DEF Received
  <2>2. ~NeedsContainer(c)
    BY <1>1 DEF LotTracked, NeedsContainer
  <2>3. \E override \in BOOLEAN : Post(Outside, p, c, Only(l, q), override)
    BY <2>1
  <2> QED
    BY <2>1, <2>2, <2>3, PostKeepsBoxed
<1>2. CASE LotTracked(c)
  <2>t. /\ box \in BoxTable /\ lots \in LotTable /\ box' \in BoxTable
        /\ bal \in [Keys -> Int] /\ opening \in [Keys -> Nat]
    BY BoxTypes DEF StockInv, StockTypeOK, BoxTable
  <2>1. l \in Lots /\ LotReceived(p, c, l, q)
    BY <1>2 DEF Received, LotIds
  <2>2. /\ lots'[l].place # Outside /\ lots'[l].item = c
        /\ lots[l].place # Outside => lots[l].item = c
        /\ \A m \in Lots \ {l} : lots'[m] = lots[m]
    <3>1. CASE lots[l] = NoRow
      <4>1. ~LotOf(l, c) /\ lots[l].place = Outside
        BY <3>1 DEF LotOf, NoRow
      <4>2. PICK x : lots' = [lots EXCEPT ![l] = [item |-> c, expiry |-> x, received |-> q,
                                                  available |-> q, place |-> p]]
        BY <2>1, <4>1 DEF LotReceived
      <4> QED
        BY <1>0, <2>t, <2>1, <4>1, <4>2 DEF LotTable
    <3>2. CASE lots[l] # NoRow
      BY <2>1, <3>2 DEF LotReceived, LotOf
    <3> QED
      BY <3>1, <3>2
  <2>3. PICK S \in SUBSET {k \in Containers : box[k] = NoRow} :
             \E fill \in [S -> 1 .. q] :
                /\ S = {} => ~ReceivedInContainers(c)
                /\ S # {} => SumFunction(fill) = q
                /\ Filled(p, l, fill)
    BY <1>2 DEF Received
  <2>4. PICK fill \in [S -> 1 .. q] :
                /\ S = {} => ~ReceivedInContainers(c)
                /\ S # {} => SumFunction(fill) = q
                /\ Filled(p, l, fill)
    BY <2>3
  <2>5. fill \in [S -> Nat]
    BY <1>0
  <2>6. NewContainers(box, box', p, l, fill, S)
    <3>1. DOMAIN fill = S /\ S \subseteq Containers
      OBVIOUS
    <3>2. \A k \in Containers : box'[k] = IF k \in S THEN [lot |-> l, place |-> p, qty |-> fill[k]]
                                                     ELSE box[k]
      BY <2>4, <3>1 DEF Filled
    <3> QED
      <4>1. \A k \in S : box[k] = NoRow
        OBVIOUS
      <4>2. \A k \in S : box'[k].place = p /\ box'[k].lot = l /\ box'[k].qty = fill[k]
        <5> TAKE k \in S
        <5>1. box'[k] = [lot |-> l, place |-> p, qty |-> fill[k]]
          BY <3>1, <3>2
        <5> QED
          BY <5>1
      <4>3. \A k \in Containers \ S : box'[k] = box[k]
        BY <3>2
      <4> QED
        BY <1>0, <2>t, <3>1, <4>1, <4>2, <4>3 DEF NewContainers
  <2>7. LotsOfContainers'
    <3> SUFFICES ASSUME NEW k \in Containers, box'[k].place # Outside
                 PROVE  box'[k].lot \in Lots /\ lots'[box'[k].lot].place # Outside
      BY DEF LotsOfContainers
    <3>1. CASE k \in S
      BY <2>1, <2>2, <2>6, <3>1 DEF NewContainers
    <3>2. CASE k \notin S
      <4>1. box'[k] = box[k]
        BY <2>6, <3>2 DEF NewContainers
      <4>2. box[k].lot \in Lots /\ lots[box[k].lot].place # Outside
        BY <4>1 DEF BoxInv, LotsOfContainers
      <4> QED
        BY <2>2, <4>1, <4>2
    <3> QED
      BY <3>1, <3>2
  <2>8. ASSUME NEW key \in Keys, NeedsContainer(key[2])
        PROVE  bal'[key] <= opening'[key] + BoxedOf(box', lots', key)
    <3>0. key[1] \in Places /\ key[1] # Outside
      BY StockConstants DEF Keys
    <3>1. bal'[key] = bal[key] - Hit(key, Outside, c, l, q) + Hit(key, p, c, l, q)
      BY <1>0, <2>t, PostOfOnly
    <3>2. Hit(key, Outside, c, l, q) = 0
      BY <3>0 DEF Hit
    <3>3. bal[key] <= opening[key] + BoxedOf(box, lots, key)
      BY <2>8 DEF BoxInv, StockIsBoxed
    <3>4. bal[key] \in Int /\ opening[key] \in Nat /\ BoxedOf(box, lots, key) \in Nat
      BY <2>t, BoxedIsNat
    <3>5. CASE key[3] = l /\ key[2] = c
      <4>1. TrackedIn(lots', key)
        BY <2>1, <2>2, <3>5 DEF TrackedIn
      <4>2. BoxedOf(box', lots', key) = Contents(box', key[1], l)
        BY <3>5, <4>1 DEF BoxedOf
      <4>3. SumFunction(fill) = q
        <5>1. ReceivedInContainers(c)
          BY <2>8, <3>5 DEF ReceivedInContainers, NeedsContainer
        <5> QED
          BY <2>4, <5>1
      <4>4. Contents(box', key[1], l) = Contents(box, key[1], l) + (IF key[1] = p THEN q ELSE 0)
        <5>1. Contents(box', key[1], l)
                = Contents(box, key[1], l)
                  + (IF key[1] = p /\ l = l THEN SumFunction(fill) ELSE 0)
          BY <2>5, <2>6, <3>0, ContainersAdded
        <5> QED
          BY <4>3, <5>1
      <4>5. Contents(box, key[1], l) \in Nat
        BY <2>t, <3>0, ContentsAddUp
      <4>6. BoxedOf(box, lots, key) <= Contents(box, key[1], l)
        BY <3>5, <4>5 DEF BoxedOf
      <4>7. Hit(key, p, c, l, q) = IF key[1] = p THEN q ELSE 0
        BY <3>5 DEF Hit
      <4> QED
        BY <1>0, <3>1, <3>2, <3>3, <3>4, <4>2, <4>4, <4>5, <4>6, <4>7
    <3>6. CASE ~ (key[3] = l /\ key[2] = c)
      <4>1. bal'[key] = bal[key]
        <5>1. Hit(key, p, c, l, q) = 0
          BY <3>6 DEF Hit
        <5> QED
          BY <3>1, <3>2, <3>4, <5>1
      <4>2. BoxedOf(box', lots', key) = BoxedOf(box, lots, key)
        <5>1. TrackedIn(lots', key) <=> TrackedIn(lots, key)
          BY <2>2, <3>6 DEF TrackedIn
        <5>2. CASE TrackedIn(lots, key)
          <6>1. key[3] # l
            BY <2>2, <3>6, <5>2 DEF TrackedIn
          <6>2. Contents(box', key[1], key[3])
                  = Contents(box, key[1], key[3])
                    + (IF key[1] = p /\ key[3] = l THEN SumFunction(fill) ELSE 0)
            BY <2>5, <2>6, <3>0, ContainersAdded
          <6>3. Contents(box, key[1], key[3]) \in Nat
            BY <2>t, <3>0, ContentsAddUp
          <6>4. Contents(box', key[1], key[3]) = Contents(box, key[1], key[3])
            BY <6>1, <6>2, <6>3
          <6> QED
            BY <5>1, <6>4 DEF BoxedOf
        <5>3. CASE ~TrackedIn(lots, key)
          BY <5>1, <5>3 DEF BoxedOf
        <5> QED
          BY <5>2, <5>3
      <4> QED
        BY <1>0, <3>3, <4>1, <4>2
    <3> QED
      BY <3>5, <3>6
  <2> QED
    BY <1>0, <2>7, <2>8, BoxedNext
<1> QED
  BY <1>1, <1>2

LEMMA StockKeepsBoxed ==
    ASSUME IsFiniteSet(Containers), BoxInv, StockStep
    PROVE  BoxInv'
<1>1. StockInv'
  BY StockStepPreserves DEF BoxInv
<1>2. ASSUME NEW p \in Places, NEW override \in Overrides(p)
      PROVE  override \in BOOLEAN
  BY DEF Overrides
<1>3. ASSUME NEW p \in Places, NEW override \in BOOLEAN, NEW k \in Containers,
             UseContainerStep(p, k, override)
      PROVE  LotsOfContainers' /\ StockIsBoxed'
  <2>1. Store \in Places
    BY DEF Places
  <2> QED
    BY <1>1, <1>3, <2>1, MoveKeepsBoxed, TakeKeepsBoxed, FillKeepsBoxed
       DEF UseContainerStep, TransferContainer, ReturnContainer, ConsumeContainer,
           DisposeContainer, DecreaseContainer
<1>4. LotsOfContainers' /\ StockIsBoxed'
  BY <1>1, <1>2, <1>3, ReceiptKeepsBoxed, UseKeepsBoxed, OpeningKeepsBoxed
     DEF StockStep, Receive, ReceiveOffice
<1> QED
  BY <1>1, <1>4 DEF BoxInv

LEMMA IssuesKeepBoxed ==
    ASSUME IsFiniteSet(Containers), BoxInv, IssueInv, IssueStep
    PROVE  BoxInv'
<1>1. /\ \A m \in Lots : lots'[m].place = lots[m].place /\ lots'[m].item = lots[m].item
      /\ UNCHANGED <<kind, box, bal, opening, overridden>>
  <2>1. ASSUME NEW l \in Lots, lots[l] # NoRow, NEW n, lots' = [lots EXCEPT ![l].available = n]
        PROVE  \A m \in Lots : lots'[m].place = lots[m].place /\ lots'[m].item = lots[m].item
    <3>1. lots \in LotTable /\ lots[l] \in LotRow
      BY <2>1, BoxTypes, RowOfLot
    <3> QED
      BY <2>1, <3>1 DEF LotTable, LotRow
  <2> QED
    BY <2>1 DEF IssueStep, Issue, OfficeToStoreLot, RecordConsumption, UserToOffice
<1>2. LotsOfContainers'
  BY <1>1 DEF BoxInv, LotsOfContainers
<1>3. ASSUME NEW key \in Keys, NeedsContainer(key[2])
      PROVE  bal'[key] <= opening'[key] + BoxedOf(box', lots', key)
  <2>1. BoxedOf(box', lots', key) = BoxedOf(box, lots, key)
    BY <1>1 DEF BoxedOf, TrackedIn
  <2>2. bal[key] <= opening[key] + BoxedOf(box, lots, key)
    BY <1>3 DEF BoxInv, StockIsBoxed
  <2> QED
    BY <1>1, <2>1, <2>2
<1>4. StockInv'
  <2>1. IssueInv'
    BY IssueStepPreserves
  <2> QED
    BY <2>1 DEF IssueInv, LotIssuesTypeOK, StockInv
<1> QED
  BY <1>1, <1>2, <1>3, <1>4, BoxedNext DEF BoxInv

LEMMA ContainersInvariant ==
    ASSUME IsFiniteSet(Containers)
    PROVE  LSpec => []BoxInv
<1>1. LInit => BoxInv
  <2> SUFFICES ASSUME LInit PROVE BoxInv
    OBVIOUS
  <2>1. StockInv
    BY InitHolds DEF LInit
  <2>2. LotsOfContainers
    BY DEF LInit, SInit, LotsOfContainers, NoRow
  <2>3. ASSUME NEW key \in Keys PROVE bal[key] <= opening[key] + BoxedOf(box, lots, key)
    <3>1. bal[key] = 0 /\ opening[key] = 0
      BY DEF LInit, SInit
    <3>2. ~TrackedIn(lots, key)
      BY DEF LInit, SInit, TrackedIn, NoRow
    <3> QED
      BY <3>1, <3>2 DEF BoxedOf
  <2> QED
    BY <2>1, <2>2, <2>3 DEF BoxInv, StockIsBoxed
<1>2. BoxInv /\ IssueInv /\ [LNext]_ivars => BoxInv'
  <2> SUFFICES ASSUME BoxInv, IssueInv, [LNext]_ivars PROVE BoxInv'
    OBVIOUS
  <2>1. CASE UNCHANGED ivars
    <3>1. LotsOfContainers' /\ StockInv'
      BY <2>1 DEF ivars, BoxInv, LotsOfContainers, StockInv, StockTypeOK, NegativeOnlyByOverride
    <3>2. \A key \in Keys : NeedsContainer(key[2]) =>
              bal'[key] <= opening'[key] + BoxedOf(box', lots', key)
      BY <2>1 DEF ivars, BoxInv, StockIsBoxed
    <3>3. StockIsBoxed'
      BY <2>1, <3>2, BoxedNext DEF ivars
    <3> QED
      BY <3>1, <3>3 DEF BoxInv
  <2> QED
    BY <2>1, StockKeepsBoxed, IssuesKeepBoxed DEF LNext
<1> QED
  BY <1>1, <1>2, IssueInvariant, PTL DEF LSpec

(* Receipts fill the containers they come in, transfers move a container   *)
(* with the books, and operations without containers are refused for an    *)
(* item that must be in them: over any sequence of operations, overrides   *)
(* and issues, no place has more of it on its books than its containers    *)
(* hold and was posted as opening balance.                                 *)
THEOREM ContainersHoldTheStock ==
    ASSUME IsFiniteSet(Containers)
    PROVE  LSpec => []StockIsInContainers
<1>1. BoxInv => StockIsInContainers
  <2> SUFFICES ASSUME BoxInv, NEW key \in Keys, NeedsContainer(key[2])
               PROVE  bal[key] <= opening[key] + Contents(box, key[1], key[3])
    BY DEF StockIsInContainers, ContainerAt, Contents
  <2>1. key[1] \in Places
    BY DEF Keys
  <2>2. Contents(box, key[1], key[3]) \in Nat
    BY <2>1, BoxTypes, ContentsAddUp
  <2>3. BoxedOf(box, lots, key) \in Nat /\ BoxedOf(box, lots, key) <= Contents(box, key[1], key[3])
    BY <2>2 DEF BoxedOf
  <2>4. bal[key] <= opening[key] + BoxedOf(box, lots, key)
    BY DEF BoxInv, StockIsBoxed
  <2> QED
    BY <2>2, <2>3, <2>4, BoxTypes
<1> QED
  BY <1>1, ContainersInvariant, PTL

-----------------------------------------------------------------------------
(* First expired first out: the lots are gone through in the order of      *)
(* their expiry, which the library folds over as it adds up sums.          *)
PickFrom(p, c, pick, l) ==
    LET n == Min({bal[<<p, c, l>>], pick.left})
    IN  [left |-> pick.left - n, take |-> [pick.take EXCEPT ![l] = n]]

NoPick(q) == [left |-> q, take |-> Only(NoLot, 0)]

Picking(g, p, c, q, s, S) ==
    g = [T \in SUBSET S |->
            IF T = {} THEN NoPick(q) ELSE PickFrom(p, c, g[T \ {Max(T)}], s[Max(T)])]

LEMMA FefoUnfolds ==
    ASSUME NEW p, NEW c, NEW q, NEW s
    PROVE  Fefo(p, c, q, s) = (CHOOSE g : Picking(g, p, c, q, s, DOMAIN s))[DOMAIN s]
  BY DEF Fefo, FoldLeft, MapThenFoldSet, Picking, PickFrom, NoPick

(* Positions in a sequence. *)
Positions(S) == IsFiniteSet(S) /\ S \subseteq Int

LEMMA PartOfPositions ==
    ASSUME NEW S, Positions(S), NEW T, T \subseteq S
    PROVE  Positions(T) /\ IsFiniteSet(T)
  BY FS_Subset DEF Positions

LEMMA MaxIsThere ==
    ASSUME NEW S, Positions(S), S # {}
    PROVE  Max(S) \in S /\ \A y \in S : y <= Max(S)
<1> DEFINE B == {T \in SUBSET S : T # {} /\ ~ \E x \in T : \A y \in T : x >= y}
<1>f. IsFiniteSet(S)
  BY DEF Positions
<1>i. S \subseteq Int
  BY DEF Positions
<1>1. B = {}
  <2> SUFFICES ASSUME B # {} PROVE FALSE
    OBVIOUS
  <2>0. B \subseteq SUBSET S
    OBVIOUS
  <2>1. PICK T \in B : \A U \in B : U \subseteq T => U = T
    <3> HIDE DEF B
    <3> QED
      BY <1>f, <2>0, SmallestSubset
  <2>2. PICK x \in T : TRUE
    BY <2>1
  <2>3. T \ {x} # {}
    BY <1>i, <2>1, <2>2
  <2>4. T \ {x} \notin B
    BY <2>1, <2>2
  <2>5. PICK y \in T \ {x} : \A z \in T \ {x} : y >= z
    BY <2>1, <2>3, <2>4
  <2>6. x \in Int /\ y \in Int /\ T \subseteq Int
    BY <1>i, <2>1, <2>2, <2>5
  <2>7. CASE y >= x
    BY <2>1, <2>5, <2>6, <2>7
  <2>8. CASE x >= y
    BY <2>1, <2>2, <2>5, <2>6, <2>8
  <2> QED
    BY <2>6, <2>7, <2>8
<1>2. \E x \in S : \A y \in S : x >= y
  BY <1>1
<1> QED
  BY <1>2 DEF Max

LEMMA MinOfTwo ==
    ASSUME NEW m \in Int, NEW n \in Int
    PROVE  Min({m, n}) = IF m <= n THEN m ELSE n
<1> DEFINE T == {m, n}
           k == IF m <= n THEN m ELSE n
<1>1. k \in T /\ \A y \in T : k <= y
  OBVIOUS
<1>2. \A x \in T : (\A y \in T : x <= y) => x = k
  OBVIOUS
<1> QED
  BY <1>1, <1>2 DEF Min

LEMMA PickingValue ==
    ASSUME NEW p, NEW c, NEW q, NEW s, NEW S, NEW g, Picking(g, p, c, q, s, S), NEW T \in SUBSET S
    PROVE  /\ T = {} => g[T] = NoPick(q)
           /\ T # {} => g[T] = PickFrom(p, c, g[T \ {Max(T)}], s[Max(T)])
  BY DEF Picking

LEMMA PickingNone ==
    ASSUME NEW p, NEW c, NEW q, NEW s, NEW S, NEW g, Picking(g, p, c, q, s, S)
    PROVE  g[{}] = NoPick(q)
<1>1. {} \in SUBSET S
  OBVIOUS
<1> QED
  BY <1>1 DEF Picking

(* Two such functions agree on the sets they share. *)
LEMMA PickingUnique ==
    ASSUME NEW p, NEW c, NEW q, NEW s, NEW S, NEW g, Picking(g, p, c, q, s, S),
           NEW T, NEW h, Picking(h, p, c, q, s, T),
           NEW U, U \subseteq S, U \subseteq T, Positions(U)
    PROVE  g[U] = h[U]
<1> DEFINE B == {V \in SUBSET U : g[V] # h[V]}
<1> SUFFICES ASSUME B # {} PROVE FALSE
  OBVIOUS
<1>0. B \subseteq SUBSET U
  OBVIOUS
<1>1. PICK V \in B : \A W \in B : W \subseteq V => W = V
  <2> HIDE DEF B
  <2> QED
    BY <1>0, PartOfPositions, SmallestSubset
<1>2. V # {}
  <2>1. g[{}] = h[{}]
    BY PickingNone
  <2> QED
    BY <1>1, <2>1
<1>f. Positions(V)
  BY <1>1, PartOfPositions
<1>m. Max(V) \in V
  BY <1>2, <1>f, MaxIsThere
<1>3. V \ {Max(V)} \notin B
  BY <1>1, <1>m
<1>4. g[V \ {Max(V)}] = h[V \ {Max(V)}]
  BY <1>1, <1>3
<1>5. g[V] = PickFrom(p, c, g[V \ {Max(V)}], s[Max(V)])
  <2>1. V \in SUBSET S
    BY <1>1
  <2> QED
    BY <1>2, <2>1 DEF Picking
<1>6. h[V] = PickFrom(p, c, h[V \ {Max(V)}], s[Max(V)])
  <2>1. V \in SUBSET T
    BY <1>1
  <2> QED
    BY <1>2, <2>1 DEF Picking
<1> QED
  BY <1>1, <1>4, <1>5, <1>6

LEMMA PickingExists ==
    ASSUME NEW p, NEW c, NEW q, NEW s, NEW S, Positions(S)
    PROVE  \E g : Picking(g, p, c, q, s, S)
<1> DEFINE B == {T \in SUBSET S : ~ \E g : Picking(g, p, c, q, s, T)}
<1> SUFFICES ASSUME B # {} PROVE FALSE
  OBVIOUS
<1>0. B \subseteq SUBSET S
  OBVIOUS
<1>1. PICK T \in B : \A U \in B : U \subseteq T => U = T
  <2> HIDE DEF B
  <2> QED
    BY <1>0, PartOfPositions, SmallestSubset
<1> DEFINE of(U) == CHOOSE g : Picking(g, p, c, q, s, U)
           h == [U \in SUBSET T |-> IF U = {} THEN NoPick(q)
                                    ELSE PickFrom(p, c, of(U \ {Max(U)})[U \ {Max(U)}], s[Max(U)])]
<1>2. ASSUME NEW U \in SUBSET T, U # T PROVE Picking(of(U), p, c, q, s, U)
  <2>1. \E g : Picking(g, p, c, q, s, U)
    BY <1>1, <1>2
  <2> QED
    BY <2>1
<1>f. \A U \in SUBSET T : Positions(U)
  BY <1>1, PartOfPositions
<1>m. \A U \in SUBSET T : U # {} => Max(U) \in U
  BY <1>f, MaxIsThere
<1> HIDE DEF of
<1>3. ASSUME NEW U \in SUBSET T, U # T PROVE of(U)[U] = h[U]
  <2>1. CASE U = {}
    BY <1>2, <1>3, <2>1, PickingNone
  <2>2. CASE U # {}
    <3> DEFINE V == U \ {Max(U)}
    <3>1. V \in SUBSET U /\ V # T /\ V \in SUBSET T
      BY <2>2, <1>m, <1>3
    <3>a. Picking(of(U), p, c, q, s, U) /\ Picking(of(V), p, c, q, s, V) /\ Positions(V)
      BY <3>1, <1>2, <1>3, <1>f
    <3>2. of(U)[V] = of(V)[V]
      <4> DEFINE g == of(U)
                 k == of(V)
      <4>1. Picking(g, p, c, q, s, U) /\ Picking(k, p, c, q, s, V)
        BY <3>a
      <4>2. Positions(V) /\ V \subseteq U /\ V \subseteq V
        BY <3>1, <3>a
      <4> HIDE DEF V, g, k
      <4>3. g[V] = k[V]
        BY <4>1, <4>2, PickingUnique
      <4> QED
        BY <4>3 DEF g, k
    <3>3. of(U)[U] = PickFrom(p, c, of(U)[V], s[Max(U)])
      <4> DEFINE g == of(U)
      <4>1. Picking(g, p, c, q, s, U) /\ U \in SUBSET U
        BY <3>a
      <4> HIDE DEF g, V
      <4>2. g[U] = PickFrom(p, c, g[U \ {Max(U)}], s[Max(U)])
        BY <2>2, <4>1, PickingValue
      <4> QED
        BY <4>2 DEF g, V
    <3> QED
      BY <2>2, <3>2, <3>3
  <2> QED
    BY <2>1, <2>2
<1>4. ASSUME NEW U \in SUBSET T, U # {}
      PROVE  h[U] = PickFrom(p, c, h[U \ {Max(U)}], s[Max(U)])
  <2> DEFINE V == U \ {Max(U)}
  <2>1. V \in SUBSET T /\ V # T
    BY <1>4, <1>m
  <2>2. of(V)[V] = h[V]
    BY <2>1, <1>3
  <2>3. h[U] = PickFrom(p, c, of(V)[V], s[Max(U)])
    BY <1>4
  <2> QED
    BY <2>2, <2>3
<1>5. h[{}] = NoPick(q)
  OBVIOUS
<1>6. h = [U \in SUBSET T |-> h[U]]
  OBVIOUS
<1> HIDE DEF h
<1>7. h = [U \in SUBSET T |-> IF U = {} THEN NoPick(q) ELSE PickFrom(p, c, h[U \ {Max(U)}], s[Max(U)])]
  BY <1>4, <1>5, <1>6
<1>8. Picking(h, p, c, q, s, T)
  BY <1>7 DEF Picking
<1> QED
  BY <1>1, <1>8

(* The lots at hand, first expired first. *)
FirstExpiredFirst(p, c, s) ==
    /\ \E n \in Nat : s \in [1 .. n -> Stocked(p, c)]
    /\ \A i, j \in DOMAIN s : i # j => s[i] # s[j]
    /\ \A i, j \in DOMAIN s : i < j => lots[s[i]].expiry <= lots[s[j]].expiry

LEMMA LotsAreSorted ==
    ASSUME IsFiniteSet(Lots), NEW p, NEW c, NEW s \in ByExpiry(p, c)
    PROVE  FirstExpiredFirst(p, c, s)
<1> DEFINE T == Stocked(p, c)
           n == Cardinality(T)
<1>1. n \in Nat
  <2>1. T \subseteq Lots
    BY DEF Stocked
  <2> QED
    BY <2>1, FS_Subset, FS_CardinalityType
<1>2. s \in SetToSeqs(T) /\ \A i, j \in DOMAIN s : i < j => lots[s[i]].expiry <= lots[s[j]].expiry
  BY DEF ByExpiry
<1>3. s \in [1 .. n -> T] /\ \A i, j \in 1 .. n : i # j => s[i] # s[j]
  BY <1>2 DEF SetToSeqs
<1>4. DOMAIN s = 1 .. n
  BY <1>3
<1> QED
  BY <1>1, <1>2, <1>3, <1>4 DEF FirstExpiredFirst

(* Where a pick stands once the first k lots of s were asked.              *)
PickedSoFar(v, p, c, q, s, k) ==
    /\ v.take \in Takes /\ v.left \in Nat
    /\ SumFunction(v.take) + v.left = q
    /\ \A l \in LotIds : v.take[l] > 0 => \E i \in 1 .. k : s[i] = l
    /\ v.left > 0 => \A i \in 1 .. k : v.take[s[i]] = bal[<<p, c, s[i]>>]
    /\ \A i, j \in 1 .. k : i < j /\ v.take[s[j]] > 0 => v.take[s[i]] = bal[<<p, c, s[i]>>]

LEMMA PicksNext ==
    ASSUME IsFiniteSet(Lots), StockTypeOK, NEW p, NEW c, NEW q \in Nat, NEW s, NEW n \in Nat,
           p \in Places, c \in Consumables,
           s \in [1 .. n -> Stocked(p, c)], \A i, j \in 1 .. n : i # j => s[i] # s[j],
           NEW k \in Nat, k + 1 <= n, NEW v, PickedSoFar(v, p, c, q, s, k)
    PROVE  PickedSoFar(PickFrom(p, c, v, s[k + 1]), p, c, q, s, k + 1)
<1> DEFINE l == s[k + 1]
           m == Min({bal[<<p, c, l>>], v.left})
           w == PickFrom(p, c, v, l)
<1>1. l \in Lots /\ l \in LotIds /\ bal[<<p, c, l>>] \in Nat
  <2>1. l \in Stocked(p, c)
    OBVIOUS
  <2>2. l \in Lots /\ l \in LotIds /\ bal[<<p, c, l>>] > 0
    BY <2>1 DEF Stocked, LotIds
  <2>3. <<p, c, l>> \in Keys
    BY <2>2 DEF Keys
  <2> QED
    BY <2>2, <2>3 DEF StockTypeOK
<1>2. v.take \in Takes /\ v.left \in Nat /\ SumFunction(v.take) + v.left = q
  BY DEF PickedSoFar
<1>3. m \in Nat /\ m <= v.left /\ (m < v.left => m = bal[<<p, c, l>>])
  BY <1>1, <1>2, MinOfTwo
<1>4. w.left = v.left - m /\ w.take = [v.take EXCEPT ![l] = m]
  BY DEF PickFrom
<1> HIDE DEF m, w
<1>5. w.take \in Takes /\ w.left \in Nat
  <2>1. w.left \in Nat
    BY <1>2, <1>3, <1>4
  <2>2. w.take \in Takes
    BY <1>2, <1>3, <1>4 DEF Takes
  <2> QED
    BY <2>1, <2>2
<1>6. v.take[l] = 0
  <2>1. \A i \in 1 .. k : s[i] # l
    OBVIOUS
  <2>2. ~(v.take[l] > 0)
    BY <1>1, <2>1 DEF PickedSoFar
  <2> QED
    BY <1>1, <1>2, <2>2 DEF Takes
<1>7. SumFunction(w.take) + w.left = q
  <2>1. IsFiniteSet(LotIds)
    BY FS_AddElement DEF LotIds
  <2>2. v.take \in [LotIds -> Int] /\ w.take \in [LotIds -> Int]
    BY <1>2, <1>5 DEF Takes
  <2>3. \A x \in LotIds \ {l} : w.take[x] = v.take[x]
    BY <1>4, <2>2
  <2>4. w.take[l] = m
    BY <1>1, <1>4, <2>2
  <2>5. SumFunction(w.take) = SumFunction(v.take) + (w.take[l] - v.take[l])
    <3> DEFINE f == v.take
               g == w.take
    <3>1. f \in [LotIds -> Int] /\ g \in [LotIds -> Int] /\ \A x \in LotIds \ {l} : g[x] = f[x]
      BY <2>2, <2>3
    <3> HIDE DEF f, g
    <3>2. SumFunction(g) = SumFunction(f) + (g[l] - f[l])
      BY <1>1, <2>1, <3>1, TotalChanged
    <3> QED
      BY <3>2 DEF f, g
  <2>6. SumFunction(v.take) \in Int
    BY <2>1, <2>2, TotalIsInt
  <2> QED
    BY <1>2, <1>3, <1>4, <1>6, <2>4, <2>5, <2>6
<1>8. \A i \in 1 .. k : s[i] \in LotIds /\ s[i] # l /\ w.take[s[i]] = v.take[s[i]]
  <2> TAKE i \in 1 .. k
  <2>1. s[i] \in Stocked(p, c) /\ s[i] # l
    OBVIOUS
  <2>2. s[i] \in LotIds
    BY <2>1 DEF Stocked, LotIds
  <2> QED
    BY <1>2, <1>4, <2>1, <2>2 DEF Takes
<1>9. w.take[l] = m
  BY <1>1, <1>2, <1>4 DEF Takes
<1>10. \A i \in 1 .. k + 1 : i \in 1 .. k \/ i = k + 1
  OBVIOUS
<1>11. ASSUME NEW x \in LotIds, w.take[x] > 0 PROVE \E i \in 1 .. k + 1 : s[i] = x
  <2>1. CASE x = l
    BY <2>1
  <2>2. CASE x # l
    <3>1. v.take[x] > 0
      BY <1>2, <1>4, <1>11, <2>2 DEF Takes
    <3>2. PICK i \in 1 .. k : s[i] = x
      BY <3>1 DEF PickedSoFar
    <3> QED
      BY <3>2
  <2> QED
    BY <2>1, <2>2
<1>12. ASSUME v.left > 0, NEW i \in 1 .. k PROVE w.take[s[i]] = bal[<<p, c, s[i]>>]
  BY <1>8, <1>12 DEF PickedSoFar
<1>13. ASSUME w.left > 0, NEW i \in 1 .. k + 1 PROVE w.take[s[i]] = bal[<<p, c, s[i]>>]
  <2>1. v.left > 0 /\ m = bal[<<p, c, l>>]
    BY <1>2, <1>3, <1>4, <1>13
  <2> QED
    BY <1>9, <1>10, <1>12, <2>1
<1>14. ASSUME NEW i \in 1 .. k + 1, NEW j \in 1 .. k + 1, i < j, w.take[s[j]] > 0
       PROVE  w.take[s[i]] = bal[<<p, c, s[i]>>]
  <2>1. i \in 1 .. k
    BY <1>14
  <2>2. CASE j = k + 1
    <3>1. v.left > 0
      BY <1>2, <1>3, <1>9, <1>14, <2>2
    <3> QED
      BY <1>12, <2>1, <3>1
  <2>3. CASE j \in 1 .. k
    <3>1. v.take[s[j]] > 0
      BY <1>8, <1>14, <2>3
    <3>2. v.take[s[i]] = bal[<<p, c, s[i]>>]
      BY <1>14, <2>1, <2>3, <3>1 DEF PickedSoFar
    <3> QED
      BY <1>8, <2>1, <3>2
  <2> QED
    BY <1>10, <2>2, <2>3
<1>15. PickedSoFar(w, p, c, q, s, k + 1)
  BY <1>5, <1>7, <1>11, <1>13, <1>14 DEF PickedSoFar
<1> QED
  BY <1>15 DEF w

(* What pickLotsByFefo picks: no more than there is of a lot, all of those *)
(* that expire before another one it picks from, and, unless it refuses,   *)
(* as much as it was asked for.                                            *)
LEMMA UptoNext ==
    ASSUME NEW k \in Nat
    PROVE  /\ Max(1 .. k + 1) = k + 1
           /\ (1 .. k + 1) \ {k + 1} = 1 .. k
           /\ 1 .. k + 1 # {}
<1>1. Positions(1 .. k + 1)
  BY FS_Interval DEF Positions
<1>2. k + 1 \in 1 .. k + 1 /\ 1 .. k + 1 # {}
  OBVIOUS
<1>3. Max(1 .. k + 1) \in 1 .. k + 1 /\ k + 1 <= Max(1 .. k + 1)
  BY <1>1, <1>2, MaxIsThere
<1> QED
  BY <1>2, <1>3

LEMMA PicksAll ==
    ASSUME IsFiniteSet(Lots), StockTypeOK, NEW p \in Places, NEW c \in Consumables, NEW q \in Nat,
           NEW s, NEW n \in Nat,
           s \in [1 .. n -> Stocked(p, c)], \A i, j \in 1 .. n : i # j => s[i] # s[j],
           NEW g, Picking(g, p, c, q, s, 1 .. n)
    PROVE  PickedSoFar(g[1 .. n], p, c, q, s, n)
<1> DEFINE B == {k \in 0 .. n : ~ PickedSoFar(g[1 .. k], p, c, q, s, k)}
<1>1. PickedSoFar(g[1 .. 0], p, c, q, s, 0)
  <2>1. 1 .. 0 = {}
    OBVIOUS
  <2>2. g[1 .. 0] = NoPick(q)
    BY <2>1, PickingNone
  <2>3. IsFiniteSet(LotIds)
    BY FS_AddElement DEF LotIds
  <2>4. Only(NoLot, 0) \in Takes /\ Only(NoLot, 0) \in [LotIds -> Int]
    BY DEF Only, Takes
  <2>5. SumFunction(Only(NoLot, 0)) = 0
    <3> DEFINE f == Only(NoLot, 0)
    <3>1. DOMAIN f = LotIds /\ \A l \in LotIds : f[l] = 0
      BY DEF Only
    <3> HIDE DEF f
    <3>2. SumFunctionOnSet(f, LotIds) = 0
      BY <2>3, <3>1, SumOfZeros
    <3>3. SumFunction(f) = 0
      BY <3>1, <3>2 DEF SumFunction
    <3> QED
      BY <3>3 DEF f
  <2>6. \A l \in LotIds : ~(Only(NoLot, 0)[l] > 0)
    BY DEF Only
  <2> QED
    BY <2>1, <2>2, <2>4, <2>5, <2>6 DEF NoPick, PickedSoFar
<1>2. ASSUME NEW k \in Nat, k + 1 <= n, PickedSoFar(g[1 .. k], p, c, q, s, k)
      PROVE  PickedSoFar(g[1 .. k + 1], p, c, q, s, k + 1)
  <2> DEFINE T == 1 .. k + 1
  <2>1. T \in SUBSET (1 .. n) /\ T # {} /\ Max(T) = k + 1 /\ T \ {Max(T)} = 1 .. k
    <3>1. Max(T) = k + 1 /\ T \ {k + 1} = 1 .. k /\ T # {}
      BY UptoNext
    <3>2. T \in SUBSET (1 .. n)
      BY <1>2
    <3> QED
      BY <3>1, <3>2
  <2> HIDE DEF T
  <2>2. g[T] = PickFrom(p, c, g[T \ {Max(T)}], s[Max(T)])
    BY <2>1, PickingValue
  <2>3. g[T] = PickFrom(p, c, g[1 .. k], s[k + 1])
    BY <2>1, <2>2
  <2>4. PickedSoFar(PickFrom(p, c, g[1 .. k], s[k + 1]), p, c, q, s, k + 1)
    BY <1>2, PicksNext
  <2> QED
    BY <2>3, <2>4 DEF T
<1>3. B = {}
  <2> SUFFICES ASSUME B # {} PROVE FALSE
    OBVIOUS
  <2>1. PICK m \in B : \A k \in B : m <= k
    <3> DEFINE S == {0 - k : k \in B}
    <3>1. S \in SUBSET ((0 - n) .. 0) /\ S # {}
      OBVIOUS
    <3>2. IsFiniteSet((0 - n) .. 0)
      <4> DEFINE a == 0 - n
      <4>1. a \in Int /\ 0 \in Int
        OBVIOUS
      <4> HIDE DEF a
      <4>2. IsFiniteSet(a .. 0)
        BY <4>1, FS_Interval
      <4> QED
        BY <4>2 DEF a
    <3>3. IsFiniteSet(S)
      BY <3>1, <3>2, FS_Subset
    <3>4. Positions(S)
      BY <3>1, <3>3 DEF Positions
    <3>5. PICK x \in S : \A y \in S : y <= x
      <4> HIDE DEF S
      <4> QED
        BY <3>1, <3>4, MaxIsThere
    <3>6. PICK m \in B : x = 0 - m
      BY <3>5
    <3>7. ASSUME NEW k \in B PROVE m <= k
      <4>1. 0 - k \in S
        OBVIOUS
      <4>2. k \in Int /\ m \in Int
        OBVIOUS
      <4> HIDE DEF S, B
      <4>3. 0 - k <= 0 - m
        BY <3>5, <3>6, <4>1
      <4> QED
        BY <4>2, <4>3
    <3> QED
      BY <3>7
  <2>2. m # 0
    BY <1>1, <2>1
  <2>3. m - 1 \in Nat /\ (m - 1) + 1 = m /\ m <= n /\ m - 1 \in 0 .. n /\ m - 1 \notin B
    BY <2>1, <2>2
  <2>4. PickedSoFar(g[1 .. m - 1], p, c, q, s, m - 1)
    BY <2>3
  <2>5. PickedSoFar(g[1 .. m], p, c, q, s, m)
    BY <1>2, <2>3, <2>4
  <2> QED
    BY <2>1, <2>5
<1>4. n \in 0 .. n
  OBVIOUS
<1> QED
  BY <1>3, <1>4

PickedInOrder(p, c, take) ==
    \A l \in Lots : \A m \in Lots \ {l} :
        take[l] > 0 /\ take[m] > 0 /\ lots[l].expiry < lots[m].expiry
           => take[l] = bal[<<p, c, l>>]

LEMMA FefoPicks ==
    ASSUME IsFiniteSet(Lots), StockTypeOK, NEW p \in Places, NEW c \in Consumables,
           NEW q \in Nat, NEW s \in ByExpiry(p, c)
    PROVE  LET pick == Fefo(p, c, q, s)
           IN  /\ pick.take \in Takes /\ pick.left \in Nat
               /\ SumFunction(pick.take) + pick.left = q
               /\ PickedInOrder(p, c, pick.take)
<1> DEFINE f == Fefo(p, c, q, s)
<1>1. FirstExpiredFirst(p, c, s)
  BY LotsAreSorted
<1>2. PICK n \in Nat : s \in [1 .. n -> Stocked(p, c)]
  BY <1>1 DEF FirstExpiredFirst
<1>3. f = (CHOOSE g : Picking(g, p, c, q, s, DOMAIN s))[DOMAIN s]
  BY FefoUnfolds
<1> HIDE DEF f
<1>4. DOMAIN s = 1 .. n
  BY <1>2
<1>5. Positions(1 .. n)
  BY FS_Interval DEF Positions
<1>6. \E g : Picking(g, p, c, q, s, 1 .. n)
  BY <1>5, PickingExists
<1> DEFINE g == CHOOSE h : Picking(h, p, c, q, s, 1 .. n)
<1>7. Picking(g, p, c, q, s, 1 .. n) /\ f = g[1 .. n]
  BY <1>3, <1>4, <1>6
<1> HIDE DEF g
<1>8. \A i, j \in 1 .. n : i # j => s[i] # s[j]
  BY <1>1, <1>4 DEF FirstExpiredFirst
<1>9. PickedSoFar(f, p, c, q, s, n)
  BY <1>2, <1>7, <1>8, PicksAll
<1>10. \A i, j \in 1 .. n : i < j => lots[s[i]].expiry <= lots[s[j]].expiry
  BY <1>1, <1>4 DEF FirstExpiredFirst
<1>11. ASSUME NEW l \in Lots, NEW m \in Lots \ {l}, f.take[l] > 0, f.take[m] > 0,
              lots[l].expiry < lots[m].expiry
       PROVE  f.take[l] = bal[<<p, c, l>>]
  <2>1. l \in LotIds /\ m \in LotIds
    BY DEF LotIds
  <2>2. PICK i \in 1 .. n : s[i] = l
    BY <1>9, <1>11, <2>1 DEF PickedSoFar
  <2>3. PICK j \in 1 .. n : s[j] = m
    BY <1>9, <1>11, <2>1 DEF PickedSoFar
  <2>4. lots[l].expiry \in Int /\ lots[m].expiry \in Int
    <3>1. \A k \in 1 .. n : s[k] \in Lots /\ lots[s[k]].expiry \in Int
      <4> TAKE k \in 1 .. n
      <4>1. s[k] \in Lots /\ lots[s[k]].place # Outside
        BY <1>2 DEF Stocked, LotOf
      <4>2. lots[s[k]] \in LotRow
        BY <4>1 DEF StockTypeOK, NoRow
      <4>4. lots[s[k]].expiry \in Nat
        BY <4>2 DEF LotRow
      <4> QED
        BY <4>1, <4>4
    <3> QED
      BY <2>2, <2>3, <3>1
  <2>5. i < j
    <3>1. ~(j < i)
      BY <1>10, <1>11, <2>2, <2>3, <2>4
    <3>2. i # j
      BY <1>11, <2>2, <2>3, <2>4
    <3> QED
      BY <3>1, <3>2
  <2> QED
    BY <1>9, <1>11, <2>2, <2>3, <2>5 DEF PickedSoFar
<1>12. PickedInOrder(p, c, f.take)
  BY <1>11 DEF PickedInOrder
<1>13. f.take \in Takes /\ f.left \in Nat /\ SumFunction(f.take) + f.left = q
  BY <1>9 DEF PickedSoFar
<1> QED
  BY <1>12, <1>13 DEF f

LEMMA LotIdsFinite == ASSUME IsFiniteSet(Lots) PROVE IsFiniteSet(LotIds)
  BY FS_AddElement DEF LotIds

LEMMA SumOfOnly ==
    ASSUME IsFiniteSet(Lots), NEW l \in LotIds, NEW q \in Nat
    PROVE  SumFunction(Only(l, q)) = q
<1> DEFINE f == Only(l, 0)
           g == Only(l, q)
<1>1. f \in [LotIds -> Int] /\ g \in [LotIds -> Int] /\ DOMAIN f = LotIds
  BY DEF Only
<1>2. \A m \in LotIds : f[m] = 0
  BY DEF Only
<1>3. g[l] = q /\ \A m \in LotIds \ {l} : g[m] = f[m]
  BY DEF Only
<1>4. SumFunctionOnSet(f, LotIds) = 0
  <2> HIDE DEF f
  <2> QED
    BY <1>2, LotIdsFinite, SumOfZeros
<1>5. SumFunction(f) = 0
  BY <1>1, <1>4 DEF SumFunction
<1> HIDE DEF f, g
<1>6. SumFunction(g) = SumFunction(f) + (g[l] - f[l])
  BY <1>1, <1>3, LotIdsFinite, TotalChanged
<1>7. SumFunction(g) = q
  BY <1>2, <1>3, <1>5, <1>6
<1> QED
  BY <1>7 DEF g

(* What an operation does to the balances: a quantity in all leaves p for  *)
(* r, one of which may be outside, and if it is picked it is in order.     *)
Posts(p, r, c, take, override) ==
    /\ Post(p, r, c, take, override)
    /\ SumFunction(take) > 0
    /\ p = Outside => r # Outside /\ ~override
    /\ p # Outside => PickedInOrder(p, c, take)

Sides == Places \cup {Outside}

Posting == \E p \in Sides, r \in Sides, c \in Consumables, take \in Takes, override \in BOOLEAN :
               Posts(p, r, c, take, override)

PostingTypes == StockInv /\ LotsOfContainers

LEMMA ExpiryOfLot ==
    ASSUME PostingTypes, NEW l \in Lots, lots[l].place # Outside
    PROVE  lots[l].expiry \in Nat /\ lots[l].item \in Consumables
<1>1. lots[l] \in LotRow
  BY DEF PostingTypes, StockInv, StockTypeOK, NoRow
<1> QED
  BY <1>1 DEF LotRow

LEMMA OnlyInOrder ==
    ASSUME NEW p, NEW c, NEW l \in LotIds, NEW q \in Nat
    PROVE  PickedInOrder(p, c, Only(l, q))
<1>1. \A m \in Lots : m \in LotIds
  BY DEF LotIds
<1>2. \A m \in Lots : Only(l, q)[m] > 0 => m = l
  BY <1>1 DEF Only
<1> QED
  BY <1>2 DEF PickedInOrder

LEMMA OnePosts ==
    ASSUME IsFiniteSet(Lots), PostingTypes, NEW p \in Sides, NEW r \in Sides, NEW c \in Consumables,
           NEW l \in LotIds, NEW q \in Nat, q > 0, NEW override \in BOOLEAN,
           Post(p, r, c, Only(l, q), override),
           p = Outside => r # Outside /\ ~override
    PROVE  Posting
<1>1. Only(l, q) \in Takes
  BY OnlyTakes
<1>2. SumFunction(Only(l, q)) > 0
  BY SumOfOnly
<1>3. p # Outside => PickedInOrder(p, c, Only(l, q))
  BY OnlyInOrder
<1>4. Posts(p, r, c, Only(l, q), override)
  BY <1>2, <1>3 DEF Posts
<1> QED
  BY <1>1, <1>4 DEF Posting

LEMMA AllocationsInOrder ==
    ASSUME IsFiniteSet(Lots), PostingTypes, NEW p \in Places, NEW c \in Consumables,
           NEW q \in Quantities, NEW take \in Allocations(p, c, q)
    PROVE  /\ take \in Takes /\ SumFunction(take) > 0 /\ PickedInOrder(p, c, take)
<1>q. q \in Nat /\ q > 0
  BY QuantityIsNat
<1>1. CASE take = Only(NoLot, q)
  <2>1. NoLot \in LotIds
    BY DEF LotIds
  <2> QED
    BY <1>1, <1>q, <2>1, OnlyInOrder, OnlyTakes, SumOfOnly
<1>2. ASSUME NEW l \in Lots, LotOf(l, c), take = Only(l, q)
      PROVE  take \in Takes /\ SumFunction(take) > 0 /\ PickedInOrder(p, c, take)
  <2>1. l \in LotIds
    BY <1>2 DEF LotIds
  <2> QED
    BY <1>2, <1>q, <2>1, OnlyInOrder, OnlyTakes, SumOfOnly
<1>3. ASSUME NEW s \in ByExpiry(p, c), take = Fefo(p, c, q, s).take, Fefo(p, c, q, s).left = 0
      PROVE  take \in Takes /\ SumFunction(take) > 0 /\ PickedInOrder(p, c, take)
  <2>1. StockTypeOK
    BY DEF PostingTypes, StockInv
  <2>2. IsFiniteSet(LotIds)
    BY LotIdsFinite
  <2>3. take \in Takes /\ SumFunction(take) + 0 = q /\ PickedInOrder(p, c, take)
    BY <1>3, <1>q, <2>1, FefoPicks
  <2>4. SumFunction(take) \in Nat
    BY <2>2, <2>3, TotalIsNat DEF Takes
  <2> QED
    BY <1>q, <2>3, <2>4
<1>4. \/ take = Only(NoLot, q)
      \/ \E l \in Lots : LotOf(l, c) /\ take = Only(l, q)
      \/ \E s \in ByExpiry(p, c) : take = Fefo(p, c, q, s).take /\ Fefo(p, c, q, s).left = 0
  BY DEF Allocations
<1> QED
  BY <1>1, <1>2, <1>3, <1>4

LEMMA LotsPost ==
    ASSUME IsFiniteSet(Lots), PostingTypes, NEW p \in Places, NEW r \in Sides, NEW c \in Consumables,
           NEW q \in Quantities, NEW override \in BOOLEAN, NEW take \in Allocations(p, c, q),
           Post(p, r, c, take, override)
    PROVE  Posting
<1>1. take \in Takes /\ SumFunction(take) > 0 /\ PickedInOrder(p, c, take)
  BY AllocationsInOrder
<1>2. p # Outside /\ p \in Sides
  BY StockConstants DEF Sides
<1>3. Posts(p, r, c, take, override)
  BY <1>1, <1>2 DEF Posts
<1> QED
  BY <1>1, <1>2, <1>3 DEF Posting

LEMMA UsePosts ==
    ASSUME IsFiniteSet(Lots), PostingTypes, NEW p \in Places, NEW c \in Consumables,
           NEW q \in Quantities, NEW override \in BOOLEAN, UseStep(p, c, q, override)
    PROVE  Posting
<1>s. /\ Outside \in Sides /\ Places \subseteq Sides /\ Store \in Places /\ p # Outside
  BY StockConstants DEF Sides, Places
<1>q. q \in Nat /\ q > 0
  BY QuantityIsNat
<1>1. ASSUME NEW r \in Places, MoveLots(p, r, c, q, override) PROVE Posting
  BY <1>s, <1>1, LotsPost DEF MoveLots
<1>2. CASE Consume(p, c, q, override)
  BY <1>s, <1>2, LotsPost DEF Consume
<1>3. ASSUME NEW l \in LotIds, Dispose(p, c, l, q, override) \/ Decrease(p, c, l, q, override)
      PROVE  Posting
  <2>1. Post(p, Outside, c, Only(l, q), override)
    BY <1>3 DEF Dispose, Decrease
  <2>2. p \in Sides /\ Outside \in Sides
    BY <1>s
  <2> QED
    BY <1>q, <1>s, <2>1, <2>2, OnePosts
<1>4. ASSUME NEW l \in LotIds, Increase(p, c, l, q, override) PROVE Posting
  <2>1. Post(Outside, p, c, Only(l, q), FALSE)
    BY <1>4 DEF Increase
  <2>2. p \in Sides /\ Outside \in Sides /\ FALSE \in BOOLEAN
    BY <1>s
  <2> QED
    BY <1>q, <1>s, <2>1, <2>2, OnePosts
<1> QED
  BY <1>s, <1>1, <1>2, <1>3, <1>4 DEF UseStep, Transfer, ReturnToCentral

LEMMA UseContainerPosts ==
    ASSUME IsFiniteSet(Lots), PostingTypes, NEW p \in Places, NEW k \in Containers,
           NEW override \in BOOLEAN, UseContainerStep(p, k, override)
    PROVE  Posting
<1> DEFINE l == box[k].lot
           c == lots[l].item
<1>s. /\ Outside \in Sides /\ p \in Sides /\ p # Outside /\ Store \in Places
      /\ \A r \in Places : r \in Sides /\ r # Outside
  BY StockConstants DEF Sides, Places
<1>t. /\ box[k].qty \in Nat /\ l \in Lots /\ l \in LotIds /\ lots[l].place # Outside
      /\ c \in Consumables
  <2>1. box[k].qty \in Nat
    BY ContainerThere DEF PostingTypes, UseContainerStep
  <2>2. box[k].place # Outside
    BY <1>s DEF UseContainerStep, ContainerAt
  <2>3. l \in Lots /\ lots[l].place # Outside
    BY <2>2 DEF PostingTypes, LotsOfContainers
  <2> QED
    BY <2>1, <2>3, ExpiryOfLot DEF LotIds
<1> HIDE DEF l, c
<1>1. ASSUME NEW r \in Places, MoveContainer(p, r, k, override) PROVE Posting
  <2>1. Post(p, r, c, Only(l, box[k].qty), override) /\ box[k].qty > 0
    BY <1>1 DEF MoveContainer, l, c
  <2> QED
    BY <1>s, <1>t, <2>1, OnePosts
<1>2. ASSUME NEW q \in Quantities, TakeFromContainer(p, k, q, override) PROVE Posting
  <2>1. Post(p, Outside, c, Only(l, q), override) /\ q \in Nat /\ q > 0
    BY <1>2, QuantityIsNat DEF TakeFromContainer, l, c
  <2> QED
    BY <1>s, <1>t, <2>1, OnePosts
<1>3. ASSUME NEW q \in Quantities, IncreaseContainer(p, k, q, override) PROVE Posting
  <2>1. Post(Outside, p, c, Only(l, q), FALSE) /\ q \in Nat /\ q > 0 /\ FALSE \in BOOLEAN
    BY <1>3, QuantityIsNat DEF IncreaseContainer, l, c
  <2> QED
    BY <1>s, <1>t, <2>1, OnePosts
<1> QED
  BY <1>s, <1>1, <1>2, <1>3
     DEF UseContainerStep, TransferContainer, ReturnContainer, ConsumeContainer,
         DisposeContainer, DecreaseContainer

LEMMA StockStepPosts ==
    ASSUME IsFiniteSet(Lots), PostingTypes, StockStep
    PROVE  Posting \/ \E E \in SUBSET Openings, q \in Quantities :
                          Cardinality(E) <= 2 /\ OpeningBalance(E, q)
<1>1. ASSUME NEW p \in Places, NEW override \in Overrides(p) PROVE override \in BOOLEAN
  BY DEF Overrides
<1>2. ASSUME NEW p \in Offices \cup {Store}, NEW c \in Consumables, NEW l \in LotIds,
             NEW q \in Quantities, Received(p, c, l, q)
      PROVE  Posting
  <2>1. p \in Sides /\ Outside \in Sides /\ p # Outside /\ FALSE \in BOOLEAN
    BY StockConstants DEF Sides, Places
  <2>2. Post(Outside, p, c, Only(l, q), FALSE) /\ q \in Nat /\ q > 0
    BY <1>2, QuantityIsNat DEF Received
  <2> QED
    BY <2>1, <2>2, OnePosts
<1> QED
  BY <1>1, <1>2, UsePosts, UseContainerPosts DEF StockStep, Receive, ReceiveOffice

-----------------------------------------------------------------------------
LEMMA BoxInvTypes == BoxInv => PostingTypes
  BY DEF BoxInv, PostingTypes

(* Under a posting, what falls is what the place it leaves is charged. *)
LEMMA PostingFalls ==
    ASSUME StockTypeOK, NEW p \in Sides, NEW r \in Sides, NEW c \in Consumables,
           NEW take \in Takes, NEW override \in BOOLEAN, Posts(p, r, c, take, override),
           NEW a \in Places, NEW d \in Consumables, NEW l \in LotIds,
           bal'[<<a, d, l>>] < bal[<<a, d, l>>]
    PROVE  /\ a = p /\ d = c /\ take[l] > 0 /\ p # Outside
           /\ bal'[<<a, d, l>>] = bal[<<a, d, l>>] - take[l]
<1> DEFINE key == <<a, d, l>>
<1>1. key \in Keys /\ key[1] = a /\ key[2] = d /\ key[3] = l
  BY DEF Keys
<1>2. bal'[key] = bal[key] - Part(p, c, take, key) + Part(r, c, take, key)
  BY <1>1 DEF Posts, Post, Moved
<1>3. bal[key] \in Int /\ take[l] \in Nat
  BY <1>1 DEF StockTypeOK, Takes
<1>4. Part(p, c, take, key) = IF a = p /\ d = c THEN take[l] ELSE 0
  BY <1>1 DEF Part
<1>5. Part(r, c, take, key) = IF a = r /\ d = c THEN take[l] ELSE 0
  BY <1>1 DEF Part
<1> HIDE DEF key
<1>6. bal'[key] < bal[key]
  BY DEF key
<1>7. a = p /\ d = c /\ ~(a = r /\ d = c)
  BY <1>2, <1>3, <1>4, <1>5, <1>6
<1>8. bal'[key] = bal[key] - take[l] /\ take[l] > 0
  BY <1>2, <1>3, <1>4, <1>5, <1>6, <1>7
<1> QED
  BY <1>7, <1>8, StockConstants DEF key

LEMMA OpeningRaises ==
    ASSUME StockTypeOK, NEW E \in SUBSET Openings, NEW q \in Quantities, OpeningBalance(E, q)
    PROVE  \A key \in Keys : bal'[key] >= bal[key] /\ bal'[key] \in Int
<1> SUFFICES ASSUME NEW key \in Keys PROVE bal'[key] >= bal[key] /\ bal'[key] \in Int
  OBVIOUS
<1>1. bal[key] \in Int /\ q \in Nat
  BY QuantityIsNat DEF StockTypeOK
<1>2. bal'[key] = IF key \in E THEN bal[key] + q ELSE bal[key]
  BY DEF OpeningBalance
<1> QED
  BY <1>1, <1>2

EarliestFinishes ==
    \A p \in Places, c \in Consumables : \A l \in Lots : \A m \in Lots \ {l} :
        /\ bal'[<<p, c, l>>] < bal[<<p, c, l>>] /\ bal'[<<p, c, m>>] < bal[<<p, c, m>>]
        /\ lots[l].expiry < lots[m].expiry
        => bal'[<<p, c, l>>] = 0

LEMMA PostingFinishes ==
    ASSUME StockTypeOK, Posting
    PROVE  EarliestFinishes
<1>1. PICK p \in Sides, r \in Sides, c \in Consumables, take \in Takes, override \in BOOLEAN :
         Posts(p, r, c, take, override)
  BY DEF Posting
<1> SUFFICES ASSUME NEW a \in Places, NEW d \in Consumables, NEW l \in Lots, NEW m \in Lots \ {l},
                    bal'[<<a, d, l>>] < bal[<<a, d, l>>], bal'[<<a, d, m>>] < bal[<<a, d, m>>],
                    lots[l].expiry < lots[m].expiry
             PROVE  bal'[<<a, d, l>>] = 0
  BY DEF EarliestFinishes
<1>2. l \in LotIds /\ m \in LotIds
  BY DEF LotIds
<1>3. /\ a = p /\ d = c /\ take[l] > 0 /\ p # Outside
      /\ bal'[<<a, d, l>>] = bal[<<a, d, l>>] - take[l]
  BY <1>1, <1>2, PostingFalls
<1>4. take[m] > 0
  BY <1>1, <1>2, PostingFalls
<1>5. take[l] = bal[<<p, c, l>>]
  BY <1>1, <1>3, <1>4 DEF Posts, PickedInOrder
<1>6. take[l] \in Nat
  BY <1>2 DEF Takes
<1> QED
  BY <1>3, <1>5, <1>6

(* pickLotsByFefo goes through the lots at hand in the order of their      *)
(* expiry and takes all there is of one before the next: whatever the      *)
(* quantity, the lots and the balances, a step that takes from two lots    *)
(* finishes the one that expires first.                                    *)
THEOREM FirstExpiredFirstOut ==
    ASSUME IsFiniteSet(Lots), IsFiniteSet(Containers)
    PROVE  LSpec => EarliestFirst
<1>1. BoxInv /\ [LNext]_ivars => [EarliestFinishes]_svars
  <2> SUFFICES ASSUME BoxInv, [LNext]_ivars PROVE [EarliestFinishes]_svars
    OBVIOUS
  <2>t. StockTypeOK /\ PostingTypes
    BY BoxInvTypes DEF PostingTypes, StockInv
  <2>1. CASE UNCHANGED bal
    <3>1. ASSUME NEW p \in Places, NEW c \in Consumables, NEW l \in Lots
          PROVE  ~(bal'[<<p, c, l>>] < bal[<<p, c, l>>])
      <4>1. <<p, c, l>> \in Keys
        BY DEF Keys, LotIds
      <4>2. bal[<<p, c, l>>] \in Int
        BY <2>t, <4>1 DEF StockTypeOK
      <4> QED
        BY <2>1, <4>2
    <3> QED
      BY <3>1 DEF EarliestFinishes
  <2>2. CASE Posting
    BY <2>t, <2>2, PostingFinishes
  <2>3. ASSUME NEW E \in SUBSET Openings, NEW q \in Quantities, OpeningBalance(E, q)
        PROVE  EarliestFinishes
    <3>1. ASSUME NEW p \in Places, NEW c \in Consumables, NEW l \in Lots
          PROVE  ~(bal'[<<p, c, l>>] < bal[<<p, c, l>>])
      <4>1. <<p, c, l>> \in Keys
        BY DEF Keys, LotIds
      <4>2. bal[<<p, c, l>>] \in Int /\ bal'[<<p, c, l>>] \in Int /\ bal'[<<p, c, l>>] >= bal[<<p, c, l>>]
        BY <2>t, <2>3, <4>1, OpeningRaises DEF StockTypeOK
      <4> QED
        BY <4>2
    <3> QED
      BY <3>1 DEF EarliestFinishes
  <2>4. IssueStep => UNCHANGED bal
    BY DEF IssueStep, Issue, OfficeToStoreLot, RecordConsumption, UserToOffice
  <2>5. CASE UNCHANGED ivars
    BY <2>5 DEF ivars, svars
  <2> QED
    BY <2>t, <2>1, <2>2, <2>3, <2>4, <2>5, StockStepPosts DEF LNext
<1>2. [][EarliestFinishes]_svars => EarliestFirst
  BY PTL DEF EarliestFirst, EarliestFinishes
<1> QED
  BY <1>1, <1>2, ContainersInvariant, PTL DEF LSpec

-----------------------------------------------------------------------------
(* The book of StockBook. *)

(* What place a[1] has of a[2], over the lots. *)
RowOf(b, a) == [l \in LotIds |-> b[<<a[1], a[2], l>>]]
Sums == Places \X Consumables

LEMMA KeyOf ==
    ASSUME NEW a \in Sums, NEW l \in LotIds
    PROVE  /\ <<a[1], a[2], l>> \in Keys
           /\ <<a[1], a[2], l>>[1] = a[1] /\ <<a[1], a[2], l>>[2] = a[2] /\ <<a[1], a[2], l>>[3] = l
  BY DEF Keys, Sums

LEMMA SumOfRow ==
    ASSUME NEW a \in Sums
    PROVE  AddedUp[a] = SumFunction(RowOf(bal, a)) /\ AddedUp'[a] = SumFunction(RowOf(bal', a))
  BY DEF AddedUp, RowOf, Sums

LEMMA RowIsInt ==
    ASSUME NEW b \in [Keys -> Int], NEW a \in Sums
    PROVE  RowOf(b, a) \in [LotIds -> Int] /\ \A l \in LotIds : RowOf(b, a)[l] = b[<<a[1], a[2], l>>]
  BY KeyOf DEF RowOf

LEMMA AddedUpTypes ==
    ASSUME IsFiniteSet(Lots), StockTypeOK, StockTypeOK'
    PROVE  AddedUp \in [Sums -> Int] /\ AddedUp' \in [Sums -> Int]
<1>1. ASSUME NEW a \in Sums
      PROVE  SumFunction(RowOf(bal, a)) \in Int /\ SumFunction(RowOf(bal', a)) \in Int
  BY LotIdsFinite, RowIsInt, TotalIsInt DEF StockTypeOK
<1> QED
  BY <1>1 DEF AddedUp, RowOf, Sums

(* A place that owes in all owes of some lot. *)
LEMMA OwingOfSome ==
    ASSUME IsFiniteSet(Lots), NEW b \in [Keys -> Int], NEW a \in Sums, SumFunction(RowOf(b, a)) < 0
    PROVE  \E l \in LotIds : b[<<a[1], a[2], l>>] < 0
<1> DEFINE f == RowOf(b, a)
<1> SUFFICES ASSUME \A l \in LotIds : ~(b[<<a[1], a[2], l>>] < 0) PROVE FALSE
  OBVIOUS
<1>1. f \in [LotIds -> Int] /\ \A l \in LotIds : f[l] = b[<<a[1], a[2], l>>]
  BY RowIsInt
<1>l. SumFunction(f) < 0
  OBVIOUS
<1> HIDE DEF f
<1>2. ASSUME NEW l \in LotIds PROVE f[l] \in Nat
  <2>1. ~(b[<<a[1], a[2], l>>] < 0) /\ f[l] = b[<<a[1], a[2], l>>] /\ f[l] \in Int
    BY <1>1
  <2> QED
    BY <2>1
<1>4. f \in [LotIds -> Nat]
  BY <1>1, <1>2
<1>3. SumFunction(f) \in Nat
  BY <1>4, LotIdsFinite, TotalIsNat
<1> QED
  BY <1>l, <1>3

LEMMA DebtsAreNoted ==
    ASSUME IsFiniteSet(Lots), StockInv', NEW a \in Sums, AddedUp'[a] < 0
    PROVE  a \in NotedAt'
<1>1. bal' \in [Keys -> Int] /\ \A key \in Keys : bal'[key] < 0 => key \in overridden'
  BY DEF StockInv, StockTypeOK, NegativeOnlyByOverride
<1>2. SumFunction(RowOf(bal', a)) < 0
  BY SumOfRow
<1> DEFINE b == bal'
<1>3. \E l \in LotIds : b[<<a[1], a[2], l>>] < 0
  <2>1. b \in [Keys -> Int] /\ SumFunction(RowOf(b, a)) < 0
    BY <1>1, <1>2
  <2> HIDE DEF b
  <2> QED
    BY <2>1, OwingOfSome
<1>4. \E l \in LotIds : <<a[1], a[2], l>> \in overridden'
  BY <1>1, <1>3, KeyOf
<1> QED
  BY <1>4 DEF NotedAt, Sums

(* What a posting does to the sums. *)
LEMMA PostChangesSums ==
    ASSUME IsFiniteSet(Lots), StockTypeOK, StockTypeOK',
           NEW p \in Sides, NEW r \in Sides, NEW c \in Consumables,
           NEW take \in Takes, NEW override \in BOOLEAN, Post(p, r, c, take, override),
           NEW a \in Sums
    PROVE  AddedUp'[a] = AddedUp[a] - (IF a = <<p, c>> THEN SumFunction(take) ELSE 0)
                                    + (IF a = <<r, c>> THEN SumFunction(take) ELSE 0)
<1> DEFINE f == RowOf(bal, a)
           g == RowOf(bal', a)
<1>1. a = <<a[1], a[2]>>
  BY DEF Sums
<1>2. /\ f \in [LotIds -> Int] /\ g \in [LotIds -> Int]
      /\ \A l \in LotIds : f[l] = bal[<<a[1], a[2], l>>]
  BY RowIsInt DEF StockTypeOK
<1>3. \A l \in LotIds : g[l] = bal'[<<a[1], a[2], l>>]
  BY DEF RowOf
<1>4. ASSUME NEW l \in LotIds
      PROVE  g[l] = f[l] - (IF a = <<p, c>> THEN take[l] ELSE 0)
                         + (IF a = <<r, c>> THEN take[l] ELSE 0)
  <2> DEFINE key == <<a[1], a[2], l>>
  <2>1. key \in Keys /\ key[1] = a[1] /\ key[2] = a[2] /\ key[3] = l
    BY KeyOf
  <2>2. bal'[key] = bal[key] - Part(p, c, take, key) + Part(r, c, take, key)
    BY <2>1 DEF Post, Moved
  <2>3. Part(p, c, take, key) = IF a = <<p, c>> THEN take[l] ELSE 0
    BY <1>1, <2>1 DEF Part
  <2>4. Part(r, c, take, key) = IF a = <<r, c>> THEN take[l] ELSE 0
    BY <1>1, <2>1 DEF Part
  <2>5. f[l] = bal[key] /\ g[l] = bal'[key]
    BY <1>2, <1>3
  <2> HIDE DEF f, g, key
  <2> QED
    BY <2>2, <2>3, <2>4, <2>5
<1>5. take \in [LotIds -> Int] /\ \A l \in LotIds : take[l] \in Nat
  BY DEF Takes
<1>6. AddedUp[a] = SumFunction(f) /\ AddedUp'[a] = SumFunction(g)
  BY SumOfRow
<1>7. SumFunction(f) \in Int /\ SumFunction(g) \in Int /\ SumFunction(take) \in Int
  <2> HIDE DEF f, g
  <2> QED
    BY <1>2, <1>5, LotIdsFinite, TotalIsInt
<1>f. IsFiniteSet(LotIds)
  BY LotIdsFinite
<1> HIDE DEF f, g
<1>8. CASE a = <<p, c>> /\ a # <<r, c>>
  <2>1. \A l \in LotIds : f[l] = g[l] + take[l]
    BY <1>2, <1>4, <1>5, <1>8
  <2>2. SumFunction(f) = SumFunction(g) + SumFunction(take)
    BY <1>f, <1>2, <1>5, <2>1, TotalsAdd
  <2> QED
    BY <1>6, <1>7, <1>8, <2>2
<1>9. CASE a # <<p, c>> /\ a = <<r, c>>
  <2>1. \A l \in LotIds : g[l] = f[l] + take[l]
    BY <1>2, <1>4, <1>5, <1>9
  <2>2. SumFunction(g) = SumFunction(f) + SumFunction(take)
    BY <1>f, <1>2, <1>5, <2>1, TotalsAdd
  <2> QED
    BY <1>6, <1>7, <1>9, <2>2
<1>10. CASE (a = <<p, c>>) <=> (a = <<r, c>>)
  <2>1. \A l \in LotIds : g[l] = f[l]
    BY <1>2, <1>4, <1>5, <1>10
  <2>2. g = f
    BY <1>2, <2>1
  <2> QED
    BY <1>6, <1>7, <1>10, <2>2
<1> QED
  BY <1>8, <1>9, <1>10

(* A quantity in all is a quantity of some lot. *)
LEMMA SomeIsTaken ==
    ASSUME IsFiniteSet(Lots), NEW take \in Takes, SumFunction(take) > 0
    PROVE  \E l \in LotIds : take[l] > 0
<1> SUFFICES ASSUME \A l \in LotIds : ~(take[l] > 0) PROVE FALSE
  OBVIOUS
<1>1. take \in [LotIds -> Nat] /\ DOMAIN take = LotIds
  BY DEF Takes
<1>2. \A l \in LotIds : take[l] = 0
  BY <1>1
<1>3. SumFunctionOnSet(take, LotIds) = 0
  BY <1>2, LotIdsFinite, SumOfZeros
<1> QED
  BY <1>1, <1>3 DEF SumFunction

(* Where it notes an override: at the account stock is taken from. *)
LEMMA PostNotes ==
    ASSUME IsFiniteSet(Lots), StockTypeOK, NEW p \in Sides, NEW r \in Sides, NEW c \in Consumables,
           NEW take \in Takes, NEW override \in BOOLEAN, Posts(p, r, c, take, override)
    PROVE  NotedAt' = IF override THEN NotedAt \cup {<<p, c>>} ELSE NotedAt
<1>1. overridden' = overridden \cup Noted(p, c, take, override)
  BY DEF Posts, Post
<1>2. CASE ~override
  <2>1. overridden' = overridden
    BY <1>1, <1>2 DEF Noted
  <2> QED
    BY <1>2, <2>1 DEF NotedAt
<1>3. CASE override
  <2>1. p \in Places
    BY <1>3 DEF Posts, Sides
  <2>2. PICK l \in LotIds : take[l] > 0
    BY SomeIsTaken DEF Posts
  <2>3. <<p, c, l>> \in Noted(p, c, take, override)
    BY <1>3, <2>1, <2>2 DEF Noted, Keys, Part
  <2>4. \A key \in Noted(p, c, take, override) : key[1] = p /\ key[2] = c
    <3> SUFFICES ASSUME NEW key \in Noted(p, c, take, override), ~(key[1] = p /\ key[2] = c) PROVE FALSE
      OBVIOUS
    <3>1. Part(p, c, take, key) = 0 /\ Part(p, c, take, key) > 0
      BY DEF Noted, Part
    <3> QED
      BY <3>1
  <2>5. <<p, c>> \in Sums
    BY <2>1 DEF Sums
  <2>6. ASSUME NEW a \in Sums, NEW m \in LotIds
        PROVE  <<a[1], a[2], m>> \in Noted(p, c, take, override) => a = <<p, c>>
    BY <2>4 DEF Sums
  <2>7. ASSUME NEW a \in Sums
        PROVE  a \in NotedAt' <=> a \in NotedAt \/ a = <<p, c>>
    <3>1. a \in NotedAt' <=> \E m \in LotIds : <<a[1], a[2], m>> \in overridden'
      BY DEF NotedAt, Sums
    <3>2. a \in NotedAt <=> \E m \in LotIds : <<a[1], a[2], m>> \in overridden
      BY DEF NotedAt, Sums
    <3>3. a = <<p, c>> => <<a[1], a[2], l>> \in Noted(p, c, take, override)
      BY <2>3
    <3> QED
      BY <1>1, <2>2, <2>6, <3>1, <3>2, <3>3
  <2>8. NotedAt' \subseteq Sums /\ NotedAt \subseteq Sums
    BY DEF NotedAt, Sums
  <2> QED
    BY <1>3, <2>5, <2>7, <2>8
<1> QED
  BY <1>2, <1>3

LEMMA PostingIsBooked ==
    ASSUME IsFiniteSet(Lots), StockInv, StockInv', Posting
    PROVE  Book!Next
<1>t. StockTypeOK /\ StockTypeOK'
  BY DEF StockInv
<1>1. PICK p \in Sides, r \in Sides, c \in Consumables, take \in Takes, override \in BOOLEAN :
         Posts(p, r, c, take, override)
  BY DEF Posting
<1> DEFINE n == SumFunction(take)
           A == <<p, c>>
           B == <<r, c>>
<1>2. n \in Nat /\ n > 0
  BY <1>1, LotIdsFinite, TotalIsNat DEF Posts, Takes
<1>3. AddedUp \in [Sums -> Int] /\ AddedUp' \in [Sums -> Int]
  BY <1>t, AddedUpTypes
<1>4. \A a \in Sums : AddedUp'[a] = AddedUp[a] - (IF a = A THEN n ELSE 0) + (IF a = B THEN n ELSE 0)
  BY <1>t, <1>1, PostChangesSums DEF Posts
<1>5. NotedAt' = IF override THEN NotedAt \cup {A} ELSE NotedAt
  BY <1>t, <1>1, PostNotes
<1>6. \A a \in Sums : AddedUp'[a] < 0 => a \in NotedAt'
  BY DebtsAreNoted
<1>7. /\ p = Outside => r # Outside /\ ~override
      /\ p # Outside => A \in Sums
      /\ r # Outside => B \in Sums
  BY <1>1 DEF Posts, Sides, Sums
<1>8. /\ p = Outside => \A a \in Sums : a # A
      /\ r = Outside => \A a \in Sums : a # B
  BY StockConstants DEF Sums
<1>9. (A = B) <=> (p = r)
  OBVIOUS
<1> HIDE DEF n
<1>10. CASE p = Outside
  <2>1. \A a \in Sums : AddedUp'[a] >= AddedUp[a]
    BY <1>2, <1>3, <1>4, <1>8, <1>10
  <2>2. UNCHANGED NotedAt
    BY <1>5, <1>7, <1>10
  <2> QED
    BY <1>3, <2>1, <2>2 DEF Book!Next, Book!Enter, Book!Accounts, Sums
<1>11. CASE p # Outside
  <2>1. A \in Sums
    BY <1>7, <1>11
  <2>2. Book!Owing(A)
    BY <1>5, <1>6, <2>1 DEF Book!Owing
  <2>3. CASE p = r \/ r = Outside
    <3>1. AddedUp'[A] <= AddedUp[A]
      BY <1>2, <1>3, <1>4, <1>8, <2>1, <2>3
    <3>2. \A a \in Sums \ {A} : AddedUp'[a] = AddedUp[a]
      BY <1>3, <1>4, <1>8, <1>9, <2>3
    <3>3. Book!Leave(A)
      BY <2>2, <3>1, <3>2 DEF Book!Leave, Book!Accounts, Sums
    <3> QED
      BY <1>3, <2>1, <3>3 DEF Book!Next, Book!Accounts, Sums
  <2>4. CASE p # r /\ r # Outside
    <3>1. B \in Sums /\ A # B /\ r \in Places \ {A[1]} /\ B = <<r, A[2]>>
      BY <1>7, <1>9, <2>4 DEF Sides
    <3>2. AddedUp'[A] < AddedUp[A] /\ AddedUp'[A] + AddedUp'[B] = AddedUp[A] + AddedUp[B]
      <4> HIDE DEF A, B
      <4>1. AddedUp'[A] = AddedUp[A] - n /\ AddedUp'[B] = AddedUp[B] + n
        BY <1>2, <1>3, <1>4, <2>1, <3>1
      <4> QED
        BY <1>2, <1>3, <2>1, <3>1, <4>1
    <3>3. \A a \in Sums \ {A, B} : AddedUp'[a] = AddedUp[a]
      BY <1>3, <1>4
    <3>4. Book!Move(A, B)
      BY <2>2, <3>2, <3>3 DEF Book!Move, Book!Accounts, Sums
    <3>5. Book!Move(A, <<r, A[2]>>)
      BY <3>1, <3>4
    <3> HIDE DEF A, B
    <3> QED
      BY <1>3, <2>1, <3>1, <3>5 DEF Book!Next, Book!Accounts, Sums
  <2> QED
    BY <2>3, <2>4
<1> QED
  BY <1>10, <1>11

(* An opening balance enters stock, under more than one account at once.   *)
LEMMA OpeningIsBooked ==
    ASSUME IsFiniteSet(Lots), StockInv, StockInv', NEW E \in SUBSET Openings, NEW q \in Quantities,
           OpeningBalance(E, q)
    PROVE  Book!Next
<1>t. StockTypeOK /\ StockTypeOK'
  BY DEF StockInv
<1>3. AddedUp \in [Sums -> Int] /\ AddedUp' \in [Sums -> Int]
  BY <1>t, AddedUpTypes
<1>4. ASSUME NEW a \in Sums PROVE AddedUp'[a] >= AddedUp[a]
  <2> DEFINE f == RowOf(bal, a)
             g == RowOf(bal', a)
             d == [l \in LotIds |-> g[l] - f[l]]
  <2>1. f \in [LotIds -> Int] /\ \A l \in LotIds : f[l] = bal[<<a[1], a[2], l>>]
    BY <1>t, RowIsInt DEF StockTypeOK
  <2>2. g \in [LotIds -> Int] /\ \A l \in LotIds : g[l] = bal'[<<a[1], a[2], l>>]
    <3> DEFINE b == bal'
    <3>1. b \in [Keys -> Int]
      BY <1>t DEF StockTypeOK
    <3> HIDE DEF b
    <3>2. RowOf(b, a) \in [LotIds -> Int] /\ \A l \in LotIds : RowOf(b, a)[l] = b[<<a[1], a[2], l>>]
      BY <3>1, RowIsInt
    <3> QED
      BY <3>2 DEF b
  <2>3. \A l \in LotIds : g[l] >= f[l]
    BY <1>t, <2>1, <2>2, KeyOf, OpeningRaises
  <2>6. AddedUp[a] = SumFunction(f) /\ AddedUp'[a] = SumFunction(g)
    BY SumOfRow
  <2> HIDE DEF f, g
  <2>4. d \in [LotIds -> Nat] /\ d \in [LotIds -> Int] /\ \A l \in LotIds : g[l] = f[l] + d[l]
    BY <2>1, <2>2, <2>3
  <2>5. IsFiniteSet(LotIds)
    BY LotIdsFinite
  <2> HIDE DEF d
  <2>7. SumFunction(g) = SumFunction(f) + SumFunction(d) /\ SumFunction(d) \in Nat
        /\ SumFunction(f) \in Int
    BY <2>1, <2>2, <2>4, <2>5, TotalsAdd, TotalIsNat, TotalIsInt
  <2> QED
    BY <2>6, <2>7
<1>5. UNCHANGED NotedAt
  BY DEF OpeningBalance, NotedAt
<1> QED
  BY <1>3, <1>4, <1>5 DEF Book!Next, Book!Enter, Book!Accounts, Sums

(* The inventory keeps the simple book: whatever the lots, containers and  *)
(* documents, and whatever the issues change at the same time, stock       *)
(* enters, leaves or moves, a move loses nothing on the way, and a place   *)
(* owes stock only after an override was noted there.                      *)
THEOREM InventoryKeepsStockBook ==
    ASSUME IsFiniteSet(Lots), IsFiniteSet(Containers)
    PROVE  LSpec => KeepsStockBook
<1>1. LInit => Book!Init
  <2> SUFFICES ASSUME LInit PROVE Book!Init
    OBVIOUS
  <2>1. ASSUME NEW a \in Sums PROVE AddedUp[a] = 0
    <3> DEFINE f == RowOf(bal, a)
    <3>1. \A l \in LotIds : f[l] = 0
      BY KeyOf DEF LInit, SInit, RowOf
    <3>2. DOMAIN f = LotIds
      BY DEF RowOf
    <3>3. AddedUp[a] = SumFunction(f)
      BY SumOfRow
    <3> HIDE DEF f
    <3>4. SumFunctionOnSet(f, LotIds) = 0
      BY <3>1, LotIdsFinite, SumOfZeros
    <3> QED
      BY <3>2, <3>3, <3>4 DEF SumFunction
  <2>2. AddedUp = [a \in Sums |-> AddedUp[a]]
    BY DEF AddedUp, Sums
  <2>3. AddedUp = [a \in Sums |-> 0]
    BY <2>1, <2>2
  <2>4. NotedAt = {}
    BY DEF LInit, SInit, NotedAt
  <2> QED
    BY <2>3, <2>4 DEF Book!Init, Book!Accounts, Sums
<1>2. BoxInv /\ BoxInv' /\ [LNext]_ivars => [Book!Next]_(Book!vars)
  <2> SUFFICES ASSUME BoxInv, BoxInv', [LNext]_ivars PROVE [Book!Next]_(Book!vars)
    OBVIOUS
  <2>t. PostingTypes /\ StockInv /\ StockInv'
    BY BoxInvTypes DEF PostingTypes, BoxInv
  <2>1. CASE UNCHANGED <<bal, overridden>>
    BY <2>1 DEF Book!vars, AddedUp, NotedAt
  <2>2. IssueStep => UNCHANGED <<bal, overridden>>
    BY DEF IssueStep, Issue, OfficeToStoreLot, RecordConsumption, UserToOffice
  <2>3. UNCHANGED ivars => UNCHANGED <<bal, overridden>>
    BY DEF ivars
  <2>4. StockStep => Book!Next
    BY <2>t, StockStepPosts, PostingIsBooked, OpeningIsBooked
  <2> QED
    BY <2>1, <2>2, <2>3, <2>4 DEF LNext
<1> QED
  BY <1>1, <1>2, ContainersInvariant, PTL DEF LSpec, KeepsStockBook, Book!Spec
=============================================================================
