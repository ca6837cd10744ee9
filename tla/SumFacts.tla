------------------------------ MODULE SumFacts ------------------------------
(***************************************************************************)
(* Sums over finite sets.  The models add up commissions, charges and      *)
(* transfers with SumFunctionOnSet of the community modules, a fold whose  *)
(* recursive function has to be shown to exist before it can be reasoned   *)
(* about.  Induction over the subsets of a finite set is stated as: every  *)
(* non-empty set of subsets has a minimal one, so a smallest               *)
(* counterexample may be picked.                                           *)
(***************************************************************************)
EXTENDS Integers, FiniteSets, Functions, FiniteSetTheorems, WellFoundedInduction, TLAPS

(* A set of subsets of a finite set has one that contains no other. *)
LEMMA SmallestSubset ==
    ASSUME NEW S, IsFiniteSet(S), NEW T, T \subseteq SUBSET S, T # {}
    PROVE  \E U \in T : \A V \in T : ~(V \subseteq U /\ V # U)
<1>1. T \subseteq FiniteSubsetsOf(S)
  BY FS_FiniteSubsetsOfFinite
<1>2. \E x \in T : \A y \in T : ~ (<<y, x>> \in StrictSubsetOrdering(S))
  BY <1>1, FS_StrictSubsetOrderingWellFounded, WFMin
<1> QED BY <1>2 DEF StrictSubsetOrdering

(* The element the fold takes first, and the equation of its function. *)
Foremost(s) == CHOOSE x \in s : TRUE
Adds(g, f, S) ==
    g = [s \in SUBSET S |-> IF s = {} THEN 0 ELSE f[Foremost(s)] + g[s \ {Foremost(s)}]]

LEMMA ForemostIsElement == ASSUME NEW s, s # {} PROVE Foremost(s) \in s
BY DEF Foremost

LEMMA SumByEquation ==
    ASSUME NEW f, NEW S
    PROVE  SumFunctionOnSet(f, S) = (CHOOSE g : Adds(g, f, S))[S]
BY DEF SumFunctionOnSet, FoldFunctionOnSet, MapThenFoldSet, Adds, Foremost

LEMMA AddsAt ==
    ASSUME NEW g, NEW f, NEW S, Adds(g, f, S), NEW s \in SUBSET S
    PROVE  g[s] = IF s = {} THEN 0 ELSE f[Foremost(s)] + g[s \ {Foremost(s)}]
BY DEF Adds

(* Two functions that add up f agree where both are defined. *)
LEMMA AddsAgree ==
    ASSUME NEW f, NEW A, NEW B, IsFiniteSet(A), NEW g, NEW h,
           Adds(g, f, A), Adds(h, f, B), NEW s, s \subseteq A, s \subseteq B
    PROVE  g[s] = h[s]
<1> DEFINE Bad == {u \in SUBSET A : u \subseteq B /\ g[u] # h[u]}
<1> SUFFICES ASSUME Bad # {} PROVE FALSE
  OBVIOUS
<1>1. PICK u \in Bad : \A v \in Bad : ~(v \subseteq u /\ v # u)
  <2> HIDE DEF Bad
  <2>1. Bad \subseteq SUBSET A
    BY DEF Bad
  <2> QED BY <2>1, SmallestSubset
<1>2. g[u] = (IF u = {} THEN 0 ELSE f[Foremost(u)] + g[u \ {Foremost(u)}])
  BY AddsAt
<1>3. h[u] = (IF u = {} THEN 0 ELSE f[Foremost(u)] + h[u \ {Foremost(u)}])
  BY AddsAt
<1>4. u # {}
  BY <1>2, <1>3
<1>5. g[u \ {Foremost(u)}] = h[u \ {Foremost(u)}]
  <2>1. Foremost(u) \in u
    BY <1>4, ForemostIsElement
  <2> QED BY <1>1, <2>1
<1> QED BY <1>2, <1>3, <1>5

(* Such a function exists for every finite set. *)
LEMMA AddsExists ==
    ASSUME NEW f, NEW S, IsFiniteSet(S)
    PROVE  \E g : Adds(g, f, S)
<1> DEFINE Bad == {u \in SUBSET S : ~\E g : Adds(g, f, u)}
<1> SUFFICES ASSUME Bad # {} PROVE FALSE
  OBVIOUS
<1>1. PICK u \in Bad : \A v \in Bad : ~(v \subseteq u /\ v # u)
  <2> HIDE DEF Bad
  <2>1. Bad \subseteq SUBSET S
    BY DEF Bad
  <2> QED BY <2>1, SmallestSubset
<1> DEFINE F(v) == CHOOSE g : Adds(g, f, v)
           Low(v) == F(v)[v]
           G == [v \in SUBSET u |-> IF v = {} THEN 0
                                    ELSE f[Foremost(v)] + Low(v \ {Foremost(v)})]
<1>2. ASSUME NEW v \in SUBSET u, v # u PROVE Adds(F(v), f, v) /\ IsFiniteSet(v)
  <2>1. \E g : Adds(g, f, v)
    BY <1>1, <1>2
  <2>2. IsFiniteSet(v)
    BY FS_Subset
  <2> QED BY <2>1, <2>2
<1>3. ASSUME NEW v \in SUBSET u, v # {} PROVE G[v \ {Foremost(v)}] = Low(v \ {Foremost(v)})
  <2> DEFINE w == v \ {Foremost(v)}
  <2>1. Foremost(v) \in v
    BY <1>3, ForemostIsElement
  <2>2. w \in SUBSET u /\ w # u
    BY <2>1
  <2>3. G[w] = IF w = {} THEN 0 ELSE f[Foremost(w)] + Low(w \ {Foremost(w)})
    BY <2>2
  <2>4. Low(w) = IF w = {} THEN 0 ELSE f[Foremost(w)] + F(w)[w \ {Foremost(w)}]
    BY <1>2, <2>2, AddsAt
  <2>5. ASSUME w # {} PROVE Low(w \ {Foremost(w)}) = F(w)[w \ {Foremost(w)}]
    <3> DEFINE x == w \ {Foremost(w)}
    <3>1. Foremost(w) \in w
      BY <2>5, ForemostIsElement
    <3>2. x \in SUBSET u /\ x # u /\ x \subseteq w
      BY <2>2, <3>1
    <3> HIDE DEF F, x, w
    <3>3. Adds(F(x), f, x) /\ IsFiniteSet(x) /\ Adds(F(w), f, w)
      BY <1>2, <2>2, <3>2
    <3>4. F(x)[x] = F(w)[x]
      BY <3>2, <3>3, AddsAgree
    <3> QED BY <3>4 DEF x
  <2> HIDE DEF F, G
  <2> QED BY <2>3, <2>4, <2>5
<1>4. Adds(G, f, u)
  <2> HIDE DEF F
  <2>1. \A v \in SUBSET u : v # {} => G[v \ {Foremost(v)}] = Low(v \ {Foremost(v)})
    BY <1>3
  <2> QED BY <2>1 DEF Adds
<1> QED BY <1>1, <1>4

(* The sum of a finite set, one element after the other. *)
LEMMA SumSteps ==
    ASSUME NEW f, NEW S, IsFiniteSet(S)
    PROVE  SumFunctionOnSet(f, S) =
             IF S = {} THEN 0 ELSE f[Foremost(S)] + SumFunctionOnSet(f, S \ {Foremost(S)})
<1> DEFINE F(v) == CHOOSE g : Adds(g, f, v)
           T == S \ {Foremost(S)}
<1>1. IsFiniteSet(T)
  BY FS_Subset
<1>2. Adds(F(S), f, S) /\ Adds(F(T), f, T)
  BY <1>1, AddsExists
<1>3. F(S)[S] = IF S = {} THEN 0 ELSE f[Foremost(S)] + F(S)[T]
  BY <1>2, AddsAt
<1>4. F(S)[T] = F(T)[T]
  <2> HIDE DEF F
  <2> QED BY <1>1, <1>2, AddsAgree
<1>5. SumFunctionOnSet(f, S) = F(S)[S] /\ SumFunctionOnSet(f, T) = F(T)[T]
  BY SumByEquation
<1> HIDE DEF F
<1> QED BY <1>3, <1>4, <1>5
-----------------------------------------------------------------------------
LEMMA SumOfNone == ASSUME NEW f PROVE SumFunctionOnSet(f, {}) = 0
BY SumSteps, FS_EmptySet

(* Sums of natural numbers are natural numbers, of integers integers. *)
LEMMA SumIsNat ==
    ASSUME NEW f, NEW S, IsFiniteSet(S), \A x \in S : f[x] \in Nat
    PROVE  SumFunctionOnSet(f, S) \in Nat
<1> DEFINE Bad == {u \in SUBSET S : SumFunctionOnSet(f, u) \notin Nat}
<1> SUFFICES ASSUME Bad # {} PROVE FALSE
  OBVIOUS
<1>1. PICK u \in Bad : \A v \in Bad : ~(v \subseteq u /\ v # u)
  <2> HIDE DEF Bad
  <2>1. Bad \subseteq SUBSET S
    BY DEF Bad
  <2> QED BY <2>1, SmallestSubset
<1>2. IsFiniteSet(u)
  BY FS_Subset
<1>3. SumFunctionOnSet(f, u) =
        IF u = {} THEN 0 ELSE f[Foremost(u)] + SumFunctionOnSet(f, u \ {Foremost(u)})
  BY <1>2, SumSteps
<1>4. u # {}
  BY <1>3
<1>5. Foremost(u) \in u
  BY <1>4, ForemostIsElement
<1>6. SumFunctionOnSet(f, u \ {Foremost(u)}) \in Nat
  BY <1>1, <1>5
<1> QED BY <1>3, <1>4, <1>5, <1>6

LEMMA SumIsInt ==
    ASSUME NEW f, NEW S, IsFiniteSet(S), \A x \in S : f[x] \in Int
    PROVE  SumFunctionOnSet(f, S) \in Int
<1> DEFINE Bad == {u \in SUBSET S : SumFunctionOnSet(f, u) \notin Int}
<1> SUFFICES ASSUME Bad # {} PROVE FALSE
  OBVIOUS
<1>1. PICK u \in Bad : \A v \in Bad : ~(v \subseteq u /\ v # u)
  <2> HIDE DEF Bad
  <2>1. Bad \subseteq SUBSET S
    BY DEF Bad
  <2> QED BY <2>1, SmallestSubset
<1>2. IsFiniteSet(u)
  BY FS_Subset
<1>3. SumFunctionOnSet(f, u) =
        IF u = {} THEN 0 ELSE f[Foremost(u)] + SumFunctionOnSet(f, u \ {Foremost(u)})
  BY <1>2, SumSteps
<1>4. u # {}
  BY <1>3
<1>5. Foremost(u) \in u
  BY <1>4, ForemostIsElement
<1>6. SumFunctionOnSet(f, u \ {Foremost(u)}) \in Int
  BY <1>1, <1>5
<1> QED BY <1>3, <1>4, <1>5, <1>6

(* The order does not matter: any element may be taken out first. *)
LEMMA SumTakeOut ==
    ASSUME NEW f, NEW S, IsFiniteSet(S), \A y \in S : f[y] \in Int, NEW x \in S
    PROVE  SumFunctionOnSet(f, S) = f[x] + SumFunctionOnSet(f, S \ {x})
<1> DEFINE Bad == {u \in SUBSET S :
                     \E y \in u : SumFunctionOnSet(f, u) # f[y] + SumFunctionOnSet(f, u \ {y})}
<1> SUFFICES ASSUME Bad # {} PROVE FALSE
  OBVIOUS
<1>1. PICK u \in Bad : \A v \in Bad : ~(v \subseteq u /\ v # u)
  <2> HIDE DEF Bad
  <2>1. Bad \subseteq SUBSET S
    BY DEF Bad
  <2> QED BY <2>1, SmallestSubset
<1>2. PICK y \in u : SumFunctionOnSet(f, u) # f[y] + SumFunctionOnSet(f, u \ {y})
  OBVIOUS
<1> DEFINE p == Foremost(u)
           rest == (u \ {p}) \ {y}
<1>3. p \in u
  BY <1>2, ForemostIsElement
<1>4. SumFunctionOnSet(f, u) = f[p] + SumFunctionOnSet(f, u \ {p})
  <2>1. IsFiniteSet(u)
    BY FS_Subset
  <2> QED BY <1>2, <2>1, SumSteps
<1>5. y # p
  BY <1>2, <1>4
<1>6. SumFunctionOnSet(f, u \ {p}) = f[y] + SumFunctionOnSet(f, rest)
  <2>1. u \ {p} \notin Bad
    BY <1>1, <1>3
  <2> QED BY <1>5, <2>1
<1>7. SumFunctionOnSet(f, u \ {y}) = f[p] + SumFunctionOnSet(f, rest)
  <2>1. rest = (u \ {y}) \ {p}
    OBVIOUS
  <2>2. u \ {y} \notin Bad
    BY <1>1
  <2> QED BY <1>3, <1>5, <2>1, <2>2
<1>8. f[p] \in Int /\ f[y] \in Int /\ SumFunctionOnSet(f, rest) \in Int
  <2>1. IsFiniteSet(rest)
    BY FS_Subset
  <2>2. \A z \in rest : f[z] \in Int
    OBVIOUS
  <2> QED BY <1>3, <2>1, <2>2, SumIsInt
<1> QED BY <1>2, <1>4, <1>6, <1>7, <1>8

(* Only the values met matter. *)
LEMMA SumOfSame ==
    ASSUME NEW f, NEW g, NEW S, IsFiniteSet(S), \A x \in S : f[x] = g[x]
    PROVE  SumFunctionOnSet(f, S) = SumFunctionOnSet(g, S)
<1> DEFINE Bad == {u \in SUBSET S : SumFunctionOnSet(f, u) # SumFunctionOnSet(g, u)}
<1> SUFFICES ASSUME Bad # {} PROVE FALSE
  OBVIOUS
<1>1. PICK u \in Bad : \A v \in Bad : ~(v \subseteq u /\ v # u)
  <2> HIDE DEF Bad
  <2>1. Bad \subseteq SUBSET S
    BY DEF Bad
  <2> QED BY <2>1, SmallestSubset
<1>2. IsFiniteSet(u)
  BY FS_Subset
<1>3. /\ SumFunctionOnSet(f, u) =
           IF u = {} THEN 0 ELSE f[Foremost(u)] + SumFunctionOnSet(f, u \ {Foremost(u)})
      /\ SumFunctionOnSet(g, u) =
           IF u = {} THEN 0 ELSE g[Foremost(u)] + SumFunctionOnSet(g, u \ {Foremost(u)})
  BY <1>2, SumSteps
<1>4. u # {}
  BY <1>3
<1>5. Foremost(u) \in u
  BY <1>4, ForemostIsElement
<1> QED BY <1>1, <1>3, <1>4, <1>5

(* An element more. *)
LEMMA SumOneMore ==
    ASSUME NEW f, NEW S, IsFiniteSet(S), NEW x, x \notin S,
           \A y \in S \cup {x} : f[y] \in Int
    PROVE  SumFunctionOnSet(f, S \cup {x}) = f[x] + SumFunctionOnSet(f, S)
<1>1. IsFiniteSet(S \cup {x})
  BY FS_AddElement
<1>2. (S \cup {x}) \ {x} = S
  OBVIOUS
<1> QED BY <1>1, <1>2, SumTakeOut

(* The sum of what two functions add up to is the sum of their sums. *)
LEMMA SumOfSums ==
    ASSUME NEW f, NEW g, NEW h, NEW S, IsFiniteSet(S),
           \A x \in S : f[x] \in Int /\ g[x] \in Int /\ h[x] = f[x] + g[x]
    PROVE  SumFunctionOnSet(h, S) = SumFunctionOnSet(f, S) + SumFunctionOnSet(g, S)
<1> DEFINE Bad == {u \in SUBSET S : SumFunctionOnSet(h, u) #
                                     SumFunctionOnSet(f, u) + SumFunctionOnSet(g, u)}
<1> SUFFICES ASSUME Bad # {} PROVE FALSE
  OBVIOUS
<1>1. PICK u \in Bad : \A v \in Bad : ~(v \subseteq u /\ v # u)
  <2> HIDE DEF Bad
  <2>1. Bad \subseteq SUBSET S
    BY DEF Bad
  <2> QED BY <2>1, SmallestSubset
<1> DEFINE w == u \ {Foremost(u)}
<1>2. IsFiniteSet(u) /\ IsFiniteSet(w)
  BY FS_Subset
<1>3. /\ SumFunctionOnSet(f, u) = IF u = {} THEN 0 ELSE f[Foremost(u)] + SumFunctionOnSet(f, w)
      /\ SumFunctionOnSet(g, u) = IF u = {} THEN 0 ELSE g[Foremost(u)] + SumFunctionOnSet(g, w)
      /\ SumFunctionOnSet(h, u) = IF u = {} THEN 0 ELSE h[Foremost(u)] + SumFunctionOnSet(h, w)
  BY <1>2, SumSteps
<1>4. u # {}
  BY <1>3
<1>5. Foremost(u) \in u
  BY <1>4, ForemostIsElement
<1>6. SumFunctionOnSet(h, w) = SumFunctionOnSet(f, w) + SumFunctionOnSet(g, w)
  BY <1>1, <1>5
<1>7. SumFunctionOnSet(f, w) \in Int /\ SumFunctionOnSet(g, w) \in Int
  BY <1>2, SumIsInt
<1>8. f[Foremost(u)] \in Int /\ g[Foremost(u)] \in Int
      /\ h[Foremost(u)] = f[Foremost(u)] + g[Foremost(u)]
  BY <1>5
<1> QED BY <1>1, <1>3, <1>4, <1>6, <1>7, <1>8

(* One value changes. *)
LEMMA SumOfOneChange ==
    ASSUME NEW f, NEW g, NEW S, IsFiniteSet(S), NEW x \in S,
           \A y \in S : f[y] \in Int /\ g[y] \in Int,
           \A y \in S \ {x} : f[y] = g[y]
    PROVE  SumFunctionOnSet(g, S) = SumFunctionOnSet(f, S) - f[x] + g[x]
<1>1. IsFiniteSet(S \ {x})
  BY FS_Subset
<1>2. SumFunctionOnSet(f, S) = f[x] + SumFunctionOnSet(f, S \ {x})
  BY SumTakeOut
<1>3. SumFunctionOnSet(g, S) = g[x] + SumFunctionOnSet(g, S \ {x})
  BY SumTakeOut
<1>4. SumFunctionOnSet(f, S \ {x}) = SumFunctionOnSet(g, S \ {x})
  BY <1>1, SumOfSame
<1>5. SumFunctionOnSet(f, S \ {x}) \in Int
  BY <1>1, SumIsInt
<1> QED BY <1>2, <1>3, <1>4, <1>5

(* Zeros add up to zero: their sum is twice itself. *)
LEMMA SumOfZeros ==
    ASSUME NEW f, NEW S, IsFiniteSet(S), \A x \in S : f[x] = 0
    PROVE  SumFunctionOnSet(f, S) = 0
<1> DEFINE zero == [x \in S |-> 0]
<1>1. \A x \in S : zero[x] \in Nat /\ f[x] \in Nat /\ f[x] = zero[x] + f[x] /\ f[x] = zero[x]
  OBVIOUS
<1> HIDE DEF zero
<1>2. /\ SumFunctionOnSet(f, S) = SumFunctionOnSet(zero, S) + SumFunctionOnSet(f, S)
      /\ SumFunctionOnSet(f, S) = SumFunctionOnSet(zero, S)
      /\ SumFunctionOnSet(f, S) \in Nat
  BY <1>1, SumOfSums, SumOfSame, SumIsNat
<1>3. \A a \in Nat : a = a + a => a = 0
  OBVIOUS
<1> QED BY <1>2, <1>3

(* A sequence that is one element longer. *)
LEMMA SumOfLonger ==
    ASSUME NEW n \in Nat, NEW f, NEW g, DOMAIN f = 1..n, DOMAIN g = 1..(n + 1),
           \A i \in 1..n : f[i] \in Int /\ g[i] = f[i], g[n + 1] \in Int
    PROVE  SumFunction(g) = SumFunction(f) + g[n + 1] /\ SumFunction(f) \in Int
<1>1. IsFiniteSet(1..n)
  BY FS_Interval
<1>2. 1..(n + 1) = (1..n) \cup {n + 1} /\ n + 1 \notin 1..n
  OBVIOUS
<1>3. SumFunctionOnSet(f, 1..n) = SumFunctionOnSet(g, 1..n) /\ SumFunctionOnSet(f, 1..n) \in Int
  BY <1>1, SumOfSame, SumIsInt
<1>4. \A i \in (1..n) \cup {n + 1} : g[i] \in Int
  OBVIOUS
<1>5. SumFunctionOnSet(g, (1..n) \cup {n + 1}) = g[n + 1] + SumFunctionOnSet(g, 1..n)
  BY <1>1, <1>2, <1>4, SumOneMore
<1>6. SumFunction(f) = SumFunctionOnSet(f, 1..n)
  BY DEF SumFunction
<1>7. SumFunction(g) = SumFunctionOnSet(g, (1..n) \cup {n + 1})
  BY <1>2, Zenon DEF SumFunction
<1>8. \A a, b, c, d : a \in Int /\ d \in Int /\ c = a /\ b = d + c => b = a + d
  OBVIOUS
<1> QED BY <1>3, <1>5, <1>6, <1>7, <1>8
=============================================================================
