----------------------------- MODULE SumTheorems -----------------------------
(***************************************************************************)
(* The sum of a function's values over a finite set, as the community      *)
(* modules fold it: what it is, and how it changes with the function and   *)
(* with the set.  An induction over the subsets of a finite set is carried *)
(* out as the choice of a smallest counterexample.                         *)
(***************************************************************************)
EXTENDS Integers, Functions, FiniteSetTheorems, TLAPS

Picked(s) == CHOOSE x \in s : TRUE

(* h adds up f over each subset of S, in the order in which the fold goes. *)
AddsUp(f, h, S) ==
  h = [s \in SUBSET S |-> IF s = {} THEN 0
                          ELSE f[Picked(s)] + h[s \ {Picked(s)}]]

-----------------------------------------------------------------------------
(* A set of subsets of a finite set has a smallest one.                    *)
LEMMA SmallestSubset ==
  ASSUME NEW S, IsFiniteSet(S), NEW B \in SUBSET (SUBSET S), B # {}
  PROVE  \E s \in B : \A t \in B : t \subseteq s => t = s
<1>1. IsWellFoundedOn(StrictSubsetOrdering(S), SUBSET S)
  BY FS_StrictSubsetOrderingWellFounded, FS_FiniteSubsetsOfFinite
<1>2. PICK s \in B : \A t \in B : <<t, s>> \notin StrictSubsetOrdering(S)
  BY <1>1, WFMin
<1>3. \A t \in B : t \subseteq s => t = s
  BY <1>2 DEF StrictSubsetOrdering
<1> QED
  BY <1>3

(* A nonempty set without the element picked from it is smaller.           *)
LEMMA PickedOne ==
  ASSUME NEW s, s # {}
  PROVE  Picked(s) \in s /\ s \ {Picked(s)} # s
BY DEF Picked

(* There is one way to add up.                                             *)
LEMMA AddsUpUnique ==
  ASSUME NEW f, NEW g, NEW h, NEW S, NEW T, IsFiniteSet(S),
         AddsUp(f, g, S), AddsUp(f, h, T)
  PROVE  \A s \in SUBSET (S \cap T) : g[s] = h[s]
<1> DEFINE U == S \cap T
           B == {s \in SUBSET U : g[s] # h[s]}
<1>1. SUFFICES ASSUME B # {} PROVE FALSE
  OBVIOUS
<1>2. IsFiniteSet(U)
  BY FS_Intersection
<1>3. PICK s \in B : \A t \in B : t \subseteq s => t = s
  <2> HIDE DEF B
  <2>1. B \in SUBSET (SUBSET U)
    BY DEF B
  <2> QED
    BY <1>1, <1>2, <2>1, SmallestSubset
<1> DEFINE t == s \ {Picked(s)}
<1>4. s \in SUBSET S /\ s \in SUBSET T /\ t \in SUBSET U
  OBVIOUS
<1>5. CASE s = {}
  <2>1. g[s] = 0 /\ h[s] = 0
    BY <1>4, <1>5 DEF AddsUp
  <2> QED
    BY <2>1
<1>6. CASE s # {}
  <2>1. t # s
    BY <1>6, PickedOne
  <2>2. g[t] = h[t]
    BY <1>3, <1>4, <2>1
  <2>3. g[s] = f[Picked(s)] + g[t]
    BY <1>4, <1>6 DEF AddsUp
  <2>4. h[s] = f[Picked(s)] + h[t]
    BY <1>4, <1>6 DEF AddsUp
  <2> QED
    BY <2>2, <2>3, <2>4
<1> QED
  BY <1>5, <1>6

(* There is a way to add up.                                               *)
LEMMA AddsUpExists ==
  ASSUME NEW f, NEW S, IsFiniteSet(S)
  PROVE  \E h : AddsUp(f, h, S)
<1> DEFINE B == {T \in SUBSET S : ~ \E h : AddsUp(f, h, T)}
<1>1. SUFFICES ASSUME B # {} PROVE FALSE
  OBVIOUS
<1>2. PICK T \in B : \A t \in B : t \subseteq T => t = T
  <2> HIDE DEF B
  <2>1. B \in SUBSET (SUBSET S)
    BY DEF B
  <2> QED
    BY <1>1, <2>1, SmallestSubset
<1> DEFINE H == [u \in (SUBSET T) \ {T} |-> CHOOSE h : AddsUp(f, h, u)]
           h == [s \in SUBSET T |-> IF s = {} THEN 0
                                    ELSE f[Picked(s)] + H[s \ {Picked(s)}][s \ {Picked(s)}]]
<1>3. \A u \in (SUBSET T) \ {T} : AddsUp(f, H[u], u)
  <2> SUFFICES ASSUME NEW u \in (SUBSET T) \ {T} PROVE AddsUp(f, H[u], u)
    OBVIOUS
  <2>1. \E k : AddsUp(f, k, u)
    BY <1>2
  <2>2. H[u] = CHOOSE k : AddsUp(f, k, u)
    OBVIOUS
  <2> HIDE DEF H
  <2> QED
    BY <2>1, <2>2
<1> HIDE DEF H
<1>4. ASSUME NEW u \in (SUBSET T) \ {T}
      PROVE  h[u] = H[u][u]
  <2>1. AddsUp(f, H[u], u)
    BY <1>3
  <2>2. CASE u = {}
    <3>1. H[u][u] = 0
      BY <2>1, <2>2 DEF AddsUp
    <3> QED
      BY <2>2, <3>1
  <2>3. CASE u # {}
    <3> DEFINE v == u \ {Picked(u)}
    <3>1. v \in (SUBSET T) \ {T} /\ v \in SUBSET u
      OBVIOUS
    <3>2. AddsUp(f, H[v], v) /\ IsFiniteSet(u)
      BY <1>3, <3>1, FS_Subset
    <3>3. H[u][v] = H[v][v]
      <4>1. v \in SUBSET (u \cap v)
        OBVIOUS
      <4> HIDE DEF v
      <4> QED
        BY <2>1, <3>2, <4>1, AddsUpUnique
    <3>4. H[u][u] = f[Picked(u)] + H[u][v]
      BY <2>1, <2>3 DEF AddsUp
    <3>5. h[u] = f[Picked(u)] + H[v][v]
      BY <2>3
    <3> QED
      BY <3>3, <3>4, <3>5
  <2> QED
    BY <2>2, <2>3
<1>5. ASSUME NEW s \in SUBSET T, s # {}
      PROVE  h[s] = f[Picked(s)] + h[s \ {Picked(s)}]
  <2> DEFINE v == s \ {Picked(s)}
  <2>1. v \in (SUBSET T) \ {T}
    BY <1>5, PickedOne
  <2>2. h[v] = H[v][v]
    BY <1>4, <2>1
  <2>3. h[s] = f[Picked(s)] + H[v][v]
    BY <1>5
  <2> HIDE DEF h
  <2> QED
    BY <2>2, <2>3
<1>6. AddsUp(f, h, T)
  <2>1. h[{}] = 0
    OBVIOUS
  <2>2. h = [s \in SUBSET T |-> h[s]]
    OBVIOUS
  <2> HIDE DEF h
  <2> QED
    BY <1>5, <2>1, <2>2 DEF AddsUp
<1> QED
  BY <1>2, <1>6

-----------------------------------------------------------------------------
(* What the community modules call the sum is what adds up.                *)
LEMMA SumAddsUp ==
  ASSUME NEW f, NEW S, IsFiniteSet(S), NEW h, AddsUp(f, h, S)
  PROVE  SumFunctionOnSet(f, S) = h[S]
<1> DEFINE k == CHOOSE k : AddsUp(f, k, S)
<1>1. SumFunctionOnSet(f, S) = k[S]
  BY DEF SumFunctionOnSet, FoldFunctionOnSet, MapThenFoldSet, AddsUp, Picked
<1>2. AddsUp(f, k, S)
  OBVIOUS
<1> HIDE DEF k
<1> QED
  BY <1>1, <1>2, AddsUpUnique

(* The sum over no element, and over one more than picked ones.            *)
LEMMA SumOfNone ==
  ASSUME NEW f
  PROVE  SumFunctionOnSet(f, {}) = 0
<1>1. PICK h : AddsUp(f, h, {})
  BY AddsUpExists, FS_EmptySet
<1>2. h[{}] = 0
  BY <1>1 DEF AddsUp
<1> QED
  BY <1>1, <1>2, SumAddsUp, FS_EmptySet

LEMMA SumPicked ==
  ASSUME NEW f, NEW S, IsFiniteSet(S), S # {}
  PROVE  SumFunctionOnSet(f, S)
           = f[Picked(S)] + SumFunctionOnSet(f, S \ {Picked(S)})
<1> DEFINE T == S \ {Picked(S)}
<1>1. PICK h : AddsUp(f, h, S)
  BY AddsUpExists
<1>2. PICK k : AddsUp(f, k, T) /\ IsFiniteSet(T)
  BY AddsUpExists, FS_RemoveElement
<1>3. h[T] = k[T]
  <2>1. T \in SUBSET (S \cap T)
    OBVIOUS
  <2> HIDE DEF T
  <2> QED
    BY <1>1, <1>2, <2>1, AddsUpUnique
<1>4. h[S] = f[Picked(S)] + h[T]
  BY <1>1 DEF AddsUp
<1> HIDE DEF T
<1>5. SumFunctionOnSet(f, S) = h[S] /\ SumFunctionOnSet(f, T) = k[T]
  BY <1>1, <1>2, SumAddsUp
<1> QED
  BY <1>3, <1>4, <1>5 DEF T

-----------------------------------------------------------------------------
(* Nothing adds up to nothing.                                             *)
LEMMA SumOfZeros ==
  ASSUME NEW f, NEW S, IsFiniteSet(S), \A x \in S : f[x] = 0
  PROVE  SumFunctionOnSet(f, S) = 0
<1> DEFINE B == {s \in SUBSET S : SumFunctionOnSet(f, s) # 0}
<1>1. SUFFICES ASSUME B # {} PROVE FALSE
  OBVIOUS
<1>2. PICK s \in B : \A t \in B : t \subseteq s => t = s
  <2> HIDE DEF B
  <2>1. B \in SUBSET (SUBSET S)
    BY DEF B
  <2> QED
    BY <1>1, <2>1, SmallestSubset
<1>3. s # {}
  BY SumOfNone
<1>4. Picked(s) \in s /\ s \ {Picked(s)} # s /\ IsFiniteSet(s)
  BY <1>3, PickedOne, FS_Subset
<1>5. SumFunctionOnSet(f, s \ {Picked(s)}) = 0
  BY <1>2, <1>4
<1>6. f[Picked(s)] = 0
  BY <1>4
<1>7. SumFunctionOnSet(f, s) = 0
  BY <1>3, <1>4, <1>5, <1>6, SumPicked
<1> QED
  BY <1>7

(* A sum of integers is an integer.                                        *)
LEMMA SumType ==
  ASSUME NEW f, NEW S, IsFiniteSet(S), \A x \in S : f[x] \in Int
  PROVE  SumFunctionOnSet(f, S) \in Int
<1> DEFINE B == {s \in SUBSET S : SumFunctionOnSet(f, s) \notin Int}
<1>1. SUFFICES ASSUME B # {} PROVE FALSE
  OBVIOUS
<1>2. PICK s \in B : \A t \in B : t \subseteq s => t = s
  <2> HIDE DEF B
  <2>1. B \in SUBSET (SUBSET S)
    BY DEF B
  <2> QED
    BY <1>1, <2>1, SmallestSubset
<1>3. s # {}
  BY SumOfNone
<1>4. Picked(s) \in s /\ s \ {Picked(s)} # s /\ IsFiniteSet(s)
  BY <1>3, PickedOne, FS_Subset
<1>5. SumFunctionOnSet(f, s \ {Picked(s)}) \in Int
  BY <1>2, <1>4
<1>6. SumFunctionOnSet(f, s) \in Int
  BY <1>3, <1>4, <1>5, SumPicked
<1> QED
  BY <1>6

(* A sum of numbers that are not negative is not negative.                 *)
LEMMA SumNatural ==
  ASSUME NEW f, NEW S, IsFiniteSet(S), \A x \in S : f[x] \in Nat
  PROVE  SumFunctionOnSet(f, S) \in Nat
<1> DEFINE B == {s \in SUBSET S : SumFunctionOnSet(f, s) \notin Nat}
<1>1. SUFFICES ASSUME B # {} PROVE FALSE
  OBVIOUS
<1>2. PICK s \in B : \A t \in B : t \subseteq s => t = s
  <2> HIDE DEF B
  <2>1. B \in SUBSET (SUBSET S)
    BY DEF B
  <2> QED
    BY <1>1, <2>1, SmallestSubset
<1>3. s # {}
  BY SumOfNone
<1>4. Picked(s) \in s /\ s \ {Picked(s)} # s /\ IsFiniteSet(s)
  BY <1>3, PickedOne, FS_Subset
<1>5. SumFunctionOnSet(f, s \ {Picked(s)}) \in Nat
  BY <1>2, <1>4
<1>6. SumFunctionOnSet(f, s) \in Nat
  BY <1>3, <1>4, <1>5, SumPicked
<1> QED
  BY <1>6

(* Any element can be taken out of a sum.                                  *)
LEMMA SumElement ==
  ASSUME NEW f, NEW S, IsFiniteSet(S), \A x \in S : f[x] \in Int, NEW e \in S
  PROVE  SumFunctionOnSet(f, S) = f[e] + SumFunctionOnSet(f, S \ {e})
<1> DEFINE Total(s) == SumFunctionOnSet(f, s)
           B == {s \in SUBSET S : \E x \in s : Total(s) # f[x] + Total(s \ {x})}
<1>1. SUFFICES ASSUME B # {} PROVE FALSE
  OBVIOUS
<1>2. PICK s \in B : \A t \in B : t \subseteq s => t = s
  <2> HIDE DEF B
  <2>1. B \in SUBSET (SUBSET S)
    BY DEF B
  <2> QED
    BY <1>1, <2>1, SmallestSubset
<1>3. PICK x \in s : Total(s) # f[x] + Total(s \ {x})
  OBVIOUS
<1> DEFINE c == Picked(s)
<1>4. c \in s /\ IsFiniteSet(s)
  BY <1>3, PickedOne, FS_Subset
<1>5. Total(s) = f[c] + Total(s \ {c})
  BY <1>3, <1>4, SumPicked
<1>6. c # x
  BY <1>3, <1>5
<1>7. Total(s \ {c}) = f[x] + Total((s \ {c}) \ {x})
  <2>1. s \ {c} \in SUBSET S /\ s \ {c} \subseteq s /\ s \ {c} # s /\ x \in s \ {c}
    BY <1>4, <1>6
  <2> QED
    BY <1>2, <2>1
<1>8. Total(s \ {x}) = f[c] + Total((s \ {x}) \ {c})
  <2>1. s \ {x} \in SUBSET S /\ s \ {x} \subseteq s /\ s \ {x} # s /\ c \in s \ {x}
    BY <1>4, <1>6
  <2> QED
    BY <1>2, <2>1
<1>9. (s \ {c}) \ {x} = (s \ {x}) \ {c}
  OBVIOUS
<1>10. f[c] \in Int /\ f[x] \in Int /\ Total((s \ {x}) \ {c}) \in Int
  <2>1. IsFiniteSet((s \ {x}) \ {c})
    BY <1>4, FS_RemoveElement
  <2> QED
    BY <1>4, <2>1, SumType
<1>11. Total(s) = f[x] + Total(s \ {x})
  <2> DEFINE fc == f[c]
             fx == f[x]
             rest == Total((s \ {x}) \ {c})
  <2>1. fc \in Int /\ fx \in Int /\ rest \in Int
    BY <1>10
  <2>2. Total(s) = fc + Total(s \ {c})
    BY <1>5
  <2>3. Total(s \ {c}) = fx + rest
    BY <1>7, <1>9
  <2>4. Total(s \ {x}) = fc + rest
    BY <1>8
  <2>5. fc + (fx + rest) = fx + (fc + rest)
    <3> HIDE DEF fc, fx, rest
    <3> QED
      BY <2>1
  <2> QED
    BY <2>2, <2>3, <2>4, <2>5, Zenon
<1> QED
  BY <1>3, <1>11

(* Only the values on the set count.                                       *)
LEMMA SumAgrees ==
  ASSUME NEW f, NEW g, NEW S, IsFiniteSet(S), \A x \in S : f[x] = g[x]
  PROVE  SumFunctionOnSet(f, S) = SumFunctionOnSet(g, S)
<1> DEFINE B == {s \in SUBSET S : SumFunctionOnSet(f, s) # SumFunctionOnSet(g, s)}
<1>1. SUFFICES ASSUME B # {} PROVE FALSE
  OBVIOUS
<1>2. PICK s \in B : \A t \in B : t \subseteq s => t = s
  <2> HIDE DEF B
  <2>1. B \in SUBSET (SUBSET S)
    BY DEF B
  <2> QED
    BY <1>1, <2>1, SmallestSubset
<1>3. s # {}
  BY SumOfNone
<1>4. Picked(s) \in s /\ s \ {Picked(s)} # s /\ IsFiniteSet(s)
  BY <1>3, PickedOne, FS_Subset
<1>5. SumFunctionOnSet(f, s \ {Picked(s)}) = SumFunctionOnSet(g, s \ {Picked(s)})
  BY <1>2, <1>4
<1>6. f[Picked(s)] = g[Picked(s)]
  BY <1>4
<1>7. SumFunctionOnSet(f, s) = SumFunctionOnSet(g, s)
  BY <1>3, <1>4, <1>5, <1>6, SumPicked
<1> QED
  BY <1>7

(* A sum changes by as much as the one value that changes.                 *)
LEMMA SumChange ==
  ASSUME NEW f, NEW g, NEW S, IsFiniteSet(S), NEW e \in S,
         \A x \in S : f[x] \in Int, g[e] \in Int,
         \A x \in S \ {e} : g[x] = f[x]
  PROVE  SumFunctionOnSet(g, S) = SumFunctionOnSet(f, S) + (g[e] - f[e])
<1> DEFINE T == S \ {e}
<1>1. IsFiniteSet(T)
  BY FS_RemoveElement
<1>2. SumFunctionOnSet(g, T) = SumFunctionOnSet(f, T)
  BY <1>1, SumAgrees
<1>3. SumFunctionOnSet(f, S) = f[e] + SumFunctionOnSet(f, T)
  BY SumElement
<1>4. SumFunctionOnSet(g, S) = g[e] + SumFunctionOnSet(g, T)
  <2>1. \A x \in S : g[x] \in Int
    OBVIOUS
  <2> QED
    BY <2>1, SumElement
<1>5. SumFunctionOnSet(f, T) \in Int
  BY <1>1, SumType
<1> HIDE DEF T
<1> QED
  BY <1>2, <1>3, <1>4, <1>5

(* A sum grows by the value of an element that is added to the set.        *)
LEMMA SumAdded ==
  ASSUME NEW f, NEW S, IsFiniteSet(S), NEW e, e \notin S,
         \A x \in S \cup {e} : f[x] \in Int
  PROVE  SumFunctionOnSet(f, S \cup {e}) = f[e] + SumFunctionOnSet(f, S)
<1> DEFINE T == S \cup {e}
<1>1. IsFiniteSet(T)
  BY FS_AddElement
<1>2. e \in T /\ T \ {e} = S /\ \A x \in T : f[x] \in Int
  OBVIOUS
<1> HIDE DEF T
<1>3. SumFunctionOnSet(f, T) = f[e] + SumFunctionOnSet(f, T \ {e})
  BY <1>1, <1>2, SumElement
<1> QED
  BY <1>2, <1>3 DEF T

(* What an element gains, or loses, if it is the one meant.                *)
At(x, a, n) == IF x = a THEN n ELSE 0

(* A sum changes by what two elements, or one of them twice, gain.         *)
LEMMA SumTwoChange ==
  ASSUME NEW f, NEW g, NEW S, IsFiniteSet(S), NEW p \in S, NEW q \in S,
         NEW a \in Int, NEW b \in Int,
         \A x \in S : f[x] \in Int,
         \A x \in S : g[x] = (f[x] + At(x, p, a)) + At(x, q, b)
  PROVE  SumFunctionOnSet(g, S) = SumFunctionOnSet(f, S) + (a + b)
<1> DEFINE h == [x \in S |-> f[x] + At(x, p, a)]
<1>1. \A x \in S : h[x] \in Int /\ h[x] = f[x] + At(x, p, a)
  BY DEF At
<1>2. \A x \in S : g[x] = h[x] + At(x, q, b)
  BY <1>1
<1> HIDE DEF h
<1>3. h[p] = f[p] + a /\ h[p] \in Int /\ \A x \in S \ {p} : h[x] = f[x]
  BY <1>1 DEF At
<1>4. g[q] = h[q] + b /\ g[q] \in Int /\ \A x \in S \ {q} : g[x] = h[x]
  BY <1>1, <1>2 DEF At
<1>5. SumFunctionOnSet(h, S) = SumFunctionOnSet(f, S) + (h[p] - f[p])
  BY <1>3, SumChange
<1>6. SumFunctionOnSet(g, S) = SumFunctionOnSet(h, S) + (g[q] - h[q])
  BY <1>1, <1>4, SumChange
<1>7. SumFunctionOnSet(f, S) \in Int
  BY SumType
<1>8. h[p] - f[p] = a /\ g[q] - h[q] = b
  BY <1>1, <1>3, <1>4
<1> QED
  BY <1>5, <1>6, <1>7, <1>8
==============================================================================
