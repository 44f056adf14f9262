----------------------------- MODULE SumTheorems -----------------------------
(***************************************************************************)
(* Facts about SumFunctionOnSet and SumFunction, the sums with which the   *)
(* modules total bytes over packets and over queues.  The fold takes the   *)
(* elements in an order fixed by CHOOSE; for integers the order does not   *)
(* matter (SumAnyOrder), and the rest follows.                             *)
(*                                                                         *)
(* The library's induction rules take an operator; here induction is the   *)
(* absence of a least counterexample, a set, under strict inclusion.       *)
(***************************************************************************)
EXTENDS Integers, FiniteSets, Functions, FiniteSetTheorems, WellFoundedInduction, TLAPS

(* g is the recursive function that SumFunctionOnSet(f, S) applies to S.     *)
Recursion(f, S, g) ==
  g = [s \in SUBSET S |->
         IF s = {} THEN 0 ELSE LET x == CHOOSE x \in s : TRUE IN f[x] + g[s \ {x}]]

Picked(s) == CHOOSE x \in s : TRUE

-----------------------------------------------------------------------------
(* Induction over the subsets of a finite set *)

(* A nonempty family of subsets of a finite set has an inclusion-least one.  *)
LEMMA LeastSubset ==
  ASSUME NEW S, IsFiniteSet(S), NEW F, F \subseteq SUBSET S, F # {}
  PROVE  \E s \in F : \A t \in F : t \subseteq s => t = s
<1>1. IsWellFoundedOn(StrictSubsetOrdering(S), FiniteSubsetsOf(S))
  BY FS_StrictSubsetOrderingWellFounded
<1>2. F \subseteq FiniteSubsetsOf(S)
  BY FS_Subset DEF FiniteSubsetsOf
<1>3. PICK s \in F : \A t \in F : ~(<<t, s>> \in StrictSubsetOrdering(S))
  BY <1>1, <1>2, WFMin, Zenon
<1>4. \A t \in F : t \subseteq s => t = s
  BY <1>3 DEF StrictSubsetOrdering
<1> QED
  BY <1>4

(* F holds {} and every other subset of S all of whose subsets one element   *)
(* smaller it holds.                                                         *)
Inductive(F, S) ==
  /\ {} \in F
  /\ \A s \in SUBSET S : s # {} /\ (\A x \in s : s \ {x} \in F) => s \in F

(* Induction on finite sets.                                                 *)
LEMMA OneElementLess ==
  ASSUME NEW S, IsFiniteSet(S), NEW F, Inductive(F, S)
  PROVE  S \in F
<1> SUFFICES ASSUME S \notin F PROVE FALSE
  OBVIOUS
<1> DEFINE Bad == {s \in SUBSET S : s \notin F}
<1>1. Bad \subseteq SUBSET S /\ Bad # {}
  OBVIOUS
<1>2. PICK s \in Bad : \A t \in Bad : t \subseteq s => t = s
  <2> HIDE DEF Bad
  <2> QED BY <1>1, LeastSubset, SMT
<1>3. s # {} /\ s \in SUBSET S
  BY <1>2 DEF Inductive
<1>4. ASSUME NEW x \in s PROVE s \ {x} \notin Bad
  BY <1>2
<1> QED
  BY <1>2, <1>3, <1>4 DEF Inductive

-----------------------------------------------------------------------------
(* The recursive function exists and is unique *)

LEMMA SumIsRecursive ==
  ASSUME NEW f, NEW S
  PROVE  SumFunctionOnSet(f, S) = (CHOOSE g : Recursion(f, S, g))[S]
BY DEF SumFunctionOnSet, FoldFunctionOnSet, MapThenFoldSet, Recursion

(* What a recursion returns for the empty set and for any other.            *)
LEMMA RecursionStep ==
  ASSUME NEW f, NEW S, NEW g, Recursion(f, S, g), NEW s \in SUBSET S
  PROVE  /\ s = {} => g[s] = 0
         /\ s # {} => g[s] = f[Picked(s)] + g[s \ {Picked(s)}]
BY DEF Recursion, Picked

(* The element taken out first is one of the set.                           *)
LEMMA PickedInSet ==
  ASSUME NEW s, s # {}
  PROVE  Picked(s) \in s
BY DEF Picked

(* Recursions over two sets agree on the subsets of both.                    *)
LEMMA RecursionUnique ==
  ASSUME NEW f, NEW S, NEW T, IsFiniteSet(T), T \subseteq S,
         NEW g, Recursion(f, S, g), NEW h, Recursion(f, T, h)
  PROVE  \A s \in SUBSET T : g[s] = h[s]
<1> SUFFICES ASSUME {s \in SUBSET T : g[s] # h[s]} # {} PROVE FALSE
  OBVIOUS
<1>1. PICK s \in SUBSET T : /\ g[s] # h[s]
                            /\ \A t \in SUBSET T : g[t] # h[t] /\ t \subseteq s => t = s
  <2> DEFINE Bad == {s \in SUBSET T : g[s] # h[s]}
  <2>1. Bad # {} /\ Bad \subseteq SUBSET T
    OBVIOUS
  <2>2. \E s \in Bad : \A t \in Bad : t \subseteq s => t = s
    <3> HIDE DEF Bad
    <3> QED BY <2>1, LeastSubset, SMT
  <2> QED BY <2>2
<1>2. s # {}
  BY <1>1, RecursionStep
<1> DEFINE t == s \ {Picked(s)}
<1>3. t \in SUBSET T /\ t \subseteq s /\ t # s
  BY <1>2, PickedInSet
<1>4. g[t] = h[t]
  BY <1>1, <1>3
<1>5. g[s] = f[Picked(s)] + g[t] /\ h[s] = f[Picked(s)] + h[t]
  <2>1. s \in SUBSET S /\ s \in SUBSET T
    BY <1>1
  <2> QED BY <1>2, <2>1, RecursionStep, SMT
<1> QED
  BY <1>1, <1>4, <1>5

(* There is a recursion over every finite set: were there none over some    *)
(* part of it, there would be a smallest such part.                         *)
LEMMA RecursionExists ==
  ASSUME NEW f, NEW S, IsFiniteSet(S)
  PROVE  \E g : Recursion(f, S, g)
<1> SUFFICES ASSUME {T \in SUBSET S : ~ \E g : Recursion(f, T, g)} # {} PROVE FALSE
  OBVIOUS
<1>1. PICK T \in SUBSET S :
        /\ ~ \E g : Recursion(f, T, g)
        /\ \A t \in SUBSET S : (~ \E g : Recursion(f, t, g)) /\ t \subseteq T => t = T
  <2> DEFINE Bad == {s \in SUBSET S : ~ \E g : Recursion(f, s, g)}
  <2>1. Bad # {} /\ Bad \subseteq SUBSET S
    OBVIOUS
  <2>2. \E s \in Bad : \A t \in Bad : t \subseteq s => t = s
    <3> HIDE DEF Bad
    <3> QED BY <2>1, LeastSubset, SMT
  <2> QED BY <2>2
<1> DEFINE R(t) == CHOOSE g : Recursion(f, t, g)
           Value(s) == IF s = {} THEN 0
                       ELSE f[Picked(s)] + R(s \ {Picked(s)})[s \ {Picked(s)}]
           h == [s \in SUBSET T |-> Value(s)]
<1>2. \A t \in SUBSET T : t # T => Recursion(f, t, R(t))
  BY <1>1
<1>3. ASSUME NEW s \in SUBSET T
      PROVE  h[s] = IF s = {} THEN 0 ELSE f[Picked(s)] + h[s \ {Picked(s)}]
  <2>1. CASE s = {}
    BY <2>1
  <2>2. CASE s # {}
    <3> DEFINE t == s \ {Picked(s)}
    <3>1. t \in SUBSET T /\ t # T
      BY <2>2, PickedInSet
    <3>2. Recursion(f, t, R(t))
      BY <3>1, <1>2
    <3>3. h[t] = R(t)[t]
      <4>1. CASE t = {}
        <5>1. R(t)[t] = 0
          BY <3>2, <4>1, RecursionStep
        <5> QED BY <5>1, <4>1, <3>1
      <4>2. CASE t # {}
        <5> DEFINE u == t \ {Picked(t)}
        <5>1. u \in SUBSET T /\ u # T /\ u \subseteq t /\ u \in SUBSET u
          BY <4>2, <3>1, PickedInSet
        <5>2. Recursion(f, u, R(u)) /\ IsFiniteSet(u)
          BY <5>1, <1>2, FS_Subset
        <5>3. R(t)[u] = R(u)[u]
          BY <5>1, <5>2, <3>2, RecursionUnique
        <5>4. R(t)[t] = f[Picked(t)] + R(t)[u]
          <6>1. t \in SUBSET t
            OBVIOUS
          <6> HIDE DEF t, R
          <6> QED BY <3>2, <4>2, <6>1, RecursionStep, SMT
        <5>5. h[t] = f[Picked(t)] + R(u)[u]
          BY <3>1, <4>2
        <5> HIDE DEF h, R, u, t
        <5> QED BY <5>3, <5>4, <5>5
      <4> QED BY <4>1, <4>2
    <3>4. h[s] = f[Picked(s)] + R(t)[t]
      BY <2>2
    <3> QED BY <2>2, <3>3, <3>4
  <2> QED BY <2>1, <2>2
<1>4. Recursion(f, T, h)
  <2>1. h = [s \in SUBSET T |-> h[s]]
    OBVIOUS
  <2> HIDE DEF h
  <2>2. h = [s \in SUBSET T |-> IF s = {} THEN 0
                                ELSE LET x == CHOOSE x \in s : TRUE IN f[x] + h[s \ {x}]]
    BY <2>1, <1>3, Zenon DEF Picked
  <2> QED BY <2>2 DEF Recursion
<1> QED
  BY <1>1, <1>4
-----------------------------------------------------------------------------
(* Sums *)

(* The empty sum is 0, and a sum is one element and the sum of the others.   *)
LEMMA SumUnfold ==
  ASSUME NEW f, NEW S, IsFiniteSet(S)
  PROVE  /\ S = {} => SumFunctionOnSet(f, S) = 0
         /\ S # {} => SumFunctionOnSet(f, S)
                        = f[Picked(S)] + SumFunctionOnSet(f, S \ {Picked(S)})
<1> DEFINE t == S \ {Picked(S)}
           G == CHOOSE g : Recursion(f, S, g)
           H == CHOOSE g : Recursion(f, t, g)
<1>1. IsFiniteSet(t) /\ t \subseteq S /\ t \in SUBSET t
  BY FS_Subset
<1>2. Recursion(f, S, G)
  BY RecursionExists
<1>3. Recursion(f, t, H)
  BY <1>1, RecursionExists
<1>4. SumFunctionOnSet(f, S) = G[S] /\ SumFunctionOnSet(f, t) = H[t]
  BY SumIsRecursive
<1>5. S \in SUBSET S
  OBVIOUS
<1> HIDE DEF t, G, H
<1>6. G[t] = H[t]
  BY <1>1, <1>2, <1>3, RecursionUnique
<1>7. S = {} => G[S] = 0
  BY <1>2, <1>5, RecursionStep, SMT
<1>8. S # {} => G[S] = f[Picked(S)] + G[t]
  BY <1>2, <1>5, RecursionStep, SMT DEF t
<1>9. SumFunctionOnSet(f, t) = SumFunctionOnSet(f, S \ {Picked(S)})
  BY DEF t
<1> QED
  BY <1>4, <1>6, <1>7, <1>8, <1>9

(* The sum over nothing is zero.                                            *)
LEMMA SumEmpty ==
  ASSUME NEW f
  PROVE  SumFunctionOnSet(f, {}) = 0
BY SumUnfold, FS_EmptySet

(* A sum of integers is an integer.                                          *)
LEMMA SumInt ==
  ASSUME NEW S, IsFiniteSet(S), NEW f, \A x \in S : f[x] \in Int
  PROVE  SumFunctionOnSet(f, S) \in Int
<1> DEFINE F == {s \in SUBSET S : SumFunctionOnSet(f, s) \in Int}
<1>1. {} \in F
  BY SumEmpty
<1>2. ASSUME NEW s \in SUBSET S, s # {}, \A x \in s : s \ {x} \in F
      PROVE  s \in F
  <2>1. Picked(s) \in s /\ IsFiniteSet(s)
    BY <1>2, PickedInSet, FS_Subset
  <2>2. SumFunctionOnSet(f, s) = f[Picked(s)] + SumFunctionOnSet(f, s \ {Picked(s)})
    BY <1>2, <2>1, SumUnfold
  <2>3. SumFunctionOnSet(f, s \ {Picked(s)}) \in Int
    BY <1>2, <2>1
  <2> QED BY <2>1, <2>2, <2>3
<1>3. Inductive(F, S)
  <2> HIDE DEF F
  <2> QED BY <1>1, <1>2 DEF Inductive
<1>4. S \in F
  <2> HIDE DEF F
  <2> QED BY <1>3, OneElementLess
<1> QED
  BY <1>4

(* The element taken first does not matter.                                  *)
LEMMA SumAnyOrder ==
  ASSUME NEW S, IsFiniteSet(S), NEW f, \A x \in S : f[x] \in Int, NEW x \in S
  PROVE  SumFunctionOnSet(f, S) = f[x] + SumFunctionOnSet(f, S \ {x})
<1> DEFINE Sum(s) == SumFunctionOnSet(f, s)
           F == {s \in SUBSET S : \A y \in s : Sum(s) = f[y] + Sum(s \ {y})}
<1>1. {} \in F
  OBVIOUS
<1>2. ASSUME NEW s \in SUBSET S, s # {}, \A y \in s : s \ {y} \in F
      PROVE  s \in F
  <2> SUFFICES ASSUME NEW y \in s PROVE Sum(s) = f[y] + Sum(s \ {y})
    OBVIOUS
  <2> DEFINE c == Picked(s)
  <2>1. c \in s /\ IsFiniteSet(s)
    BY <1>2, PickedInSet, FS_Subset
  <2>2. Sum(s) = f[c] + Sum(s \ {c})
    BY <1>2, <2>1, SumUnfold
  <2>3. CASE y = c
    BY <2>2, <2>3
  <2>4. CASE y # c
    <3>1. y \in s \ {c} /\ c \in s \ {y}
      BY <2>1, <2>4
    <3>2. s \ {c} \in F /\ s \ {y} \in F
      BY <1>2, <2>1
    <3>3. Sum(s \ {c}) = f[y] + Sum((s \ {c}) \ {y})
      BY <3>1, <3>2
    <3>4. Sum(s \ {y}) = f[c] + Sum((s \ {y}) \ {c})
      BY <3>1, <3>2
    <3>5. (s \ {c}) \ {y} = (s \ {y}) \ {c}
      OBVIOUS
    <3>6. IsFiniteSet((s \ {c}) \ {y})
      BY <2>1, FS_Subset
    <3>7. Sum((s \ {c}) \ {y}) \in Int
      BY <3>6, SumInt
    <3>8. f[c] \in Int /\ f[y] \in Int
      BY <2>1
    <3> DEFINE rest == (s \ {c}) \ {y}
    <3>9. Sum(s \ {c}) = f[y] + Sum(rest) /\ Sum(s \ {y}) = f[c] + Sum(rest)
      BY <3>3, <3>4, <3>5
    <3> HIDE DEF Sum, F, c, rest
    <3> QED BY <2>2, <3>9, <3>7, <3>8 DEF rest
  <2> QED BY <2>3, <2>4
<1>3. Inductive(F, S)
  <2> HIDE DEF F
  <2> QED BY <1>1, <1>2 DEF Inductive
<1>4. S \in F
  <2> HIDE DEF F
  <2> QED BY <1>3, OneElementLess
<1> QED
  BY <1>4

(* A sum of naturals is a natural.                                           *)
LEMMA SumNat ==
  ASSUME NEW S, IsFiniteSet(S), NEW f, \A x \in S : f[x] \in Nat
  PROVE  SumFunctionOnSet(f, S) \in Nat
<1> DEFINE F == {s \in SUBSET S : SumFunctionOnSet(f, s) \in Nat}
<1>1. {} \in F
  BY SumEmpty
<1>2. ASSUME NEW s \in SUBSET S, s # {}, \A x \in s : s \ {x} \in F
      PROVE  s \in F
  <2>1. Picked(s) \in s /\ IsFiniteSet(s)
    BY <1>2, PickedInSet, FS_Subset
  <2>2. SumFunctionOnSet(f, s) = f[Picked(s)] + SumFunctionOnSet(f, s \ {Picked(s)})
    BY <1>2, <2>1, SumUnfold
  <2>3. SumFunctionOnSet(f, s \ {Picked(s)}) \in Nat
    BY <1>2, <2>1
  <2> QED BY <2>1, <2>2, <2>3
<1>3. Inductive(F, S)
  <2> HIDE DEF F
  <2> QED BY <1>1, <1>2 DEF Inductive
<1>4. S \in F
  <2> HIDE DEF F
  <2> QED BY <1>3, OneElementLess
<1> QED
  BY <1>4

(* Sums grow with their terms; equal terms have equal sums.                  *)
LEMMA SumMonotone ==
  ASSUME NEW S, IsFiniteSet(S), NEW f, NEW g,
         \A x \in S : f[x] \in Int /\ g[x] \in Int /\ f[x] <= g[x]
  PROVE  SumFunctionOnSet(f, S) <= SumFunctionOnSet(g, S)
<1> DEFINE F == {s \in SUBSET S : SumFunctionOnSet(f, s) <= SumFunctionOnSet(g, s)}
<1>1. {} \in F
  BY SumEmpty
<1>2. ASSUME NEW s \in SUBSET S, s # {}, \A x \in s : s \ {x} \in F
      PROVE  s \in F
  <2> DEFINE c == Picked(s)
  <2>1. c \in s /\ IsFiniteSet(s) /\ IsFiniteSet(s \ {c})
    BY <1>2, PickedInSet, FS_Subset
  <2>2. SumFunctionOnSet(f, s) = f[c] + SumFunctionOnSet(f, s \ {c})
    BY <1>2, <2>1, SumUnfold
  <2>3. SumFunctionOnSet(g, s) = g[c] + SumFunctionOnSet(g, s \ {c})
    BY <1>2, <2>1, SumUnfold
  <2>4. SumFunctionOnSet(f, s \ {c}) <= SumFunctionOnSet(g, s \ {c})
    BY <1>2, <2>1
  <2>5. SumFunctionOnSet(f, s \ {c}) \in Int /\ SumFunctionOnSet(g, s \ {c}) \in Int
    BY <2>1, SumInt
  <2>6. f[c] \in Int /\ g[c] \in Int /\ f[c] <= g[c]
    BY <2>1
  <2>7. SumFunctionOnSet(f, s) <= SumFunctionOnSet(g, s)
    <3> HIDE DEF c
    <3> QED BY <2>2, <2>3, <2>4, <2>5, <2>6
  <2> QED BY <2>7
<1>3. Inductive(F, S)
  <2> HIDE DEF F
  <2> QED BY <1>1, <1>2 DEF Inductive
<1>4. S \in F
  <2> HIDE DEF F
  <2> QED BY <1>3, OneElementLess
<1> QED
  BY <1>4

(* Functions that agree on a set have the same sum over it.                 *)
LEMMA SumSame ==
  ASSUME NEW S, IsFiniteSet(S), NEW f, NEW g, \A x \in S : f[x] \in Int /\ g[x] = f[x]
  PROVE  SumFunctionOnSet(g, S) = SumFunctionOnSet(f, S)
<1>1. SumFunctionOnSet(g, S) <= SumFunctionOnSet(f, S)
  BY SumMonotone
<1>2. SumFunctionOnSet(f, S) <= SumFunctionOnSet(g, S)
  BY SumMonotone
<1>3. SumFunctionOnSet(f, S) \in Int /\ SumFunctionOnSet(g, S) \in Int
  BY SumInt
<1> QED
  BY <1>1, <1>2, <1>3

(* Changing one term changes the sum by as much.                             *)
LEMMA SumChange ==
  ASSUME NEW S, IsFiniteSet(S), NEW f, NEW g, NEW x \in S,
         \A y \in S : f[y] \in Int /\ g[y] \in Int,
         \A y \in S : y # x => g[y] = f[y]
  PROVE  SumFunctionOnSet(g, S) = SumFunctionOnSet(f, S) + (g[x] - f[x])
<1>1. IsFiniteSet(S \ {x})
  BY FS_Subset
<1>2. SumFunctionOnSet(g, S \ {x}) = SumFunctionOnSet(f, S \ {x})
  BY <1>1, SumSame
<1>3. SumFunctionOnSet(f, S \ {x}) \in Int
  BY <1>1, SumInt
<1>4. SumFunctionOnSet(f, S) = f[x] + SumFunctionOnSet(f, S \ {x})
  BY SumAnyOrder
<1>5. SumFunctionOnSet(g, S) = g[x] + SumFunctionOnSet(g, S \ {x})
  BY SumAnyOrder
<1> QED
  BY <1>2, <1>3, <1>4, <1>5

(* Every term of a sum of naturals is at most the sum.                       *)
LEMMA TermWithinSum ==
  ASSUME NEW S, IsFiniteSet(S), NEW f, \A x \in S : f[x] \in Nat, NEW x \in S
  PROVE  f[x] <= SumFunctionOnSet(f, S)
<1>1. IsFiniteSet(S \ {x})
  BY FS_Subset
<1>2. SumFunctionOnSet(f, S \ {x}) \in Nat
  BY <1>1, SumNat
<1>3. SumFunctionOnSet(f, S) = f[x] + SumFunctionOnSet(f, S \ {x})
  BY SumAnyOrder
<1> QED
  BY <1>2, <1>3

(* The sum over two sets without a common element.                           *)
LEMMA SumDisjoint ==
  ASSUME NEW S, IsFiniteSet(S), NEW T, IsFiniteSet(T), S \cap T = {},
         NEW f, \A x \in S \cup T : f[x] \in Int
  PROVE  SumFunctionOnSet(f, S \cup T) = SumFunctionOnSet(f, S) + SumFunctionOnSet(f, T)
<1> DEFINE Sum(s) == SumFunctionOnSet(f, s)
           F == {s \in SUBSET S : Sum(s \cup T) = Sum(s) + Sum(T)}
<1>0. Sum(T) \in Int
  BY SumInt
<1>1. {} \in F
  <2>1. {} \cup T = T
    OBVIOUS
  <2>2. Sum({}) = 0
    BY SumEmpty
  <2>3. Sum({} \cup T) = Sum({}) + Sum(T)
    <3> HIDE DEF Sum
    <3> QED BY <1>0, <2>1, <2>2
  <2> QED BY <2>3
<1>2. ASSUME NEW s \in SUBSET S, s # {}, \A x \in s : s \ {x} \in F
      PROVE  s \in F
  <2>1. PICK x : x \in s
    BY <1>2
  <2>2. IsFiniteSet(s) /\ IsFiniteSet(s \ {x}) /\ IsFiniteSet(s \cup T)
    BY FS_Subset, FS_Union
  <2>3. (s \cup T) \ {x} = (s \ {x}) \cup T
    BY <2>1
  <2>4. Sum(s) = f[x] + Sum(s \ {x})
    BY <2>1, <2>2, SumAnyOrder
  <2>5. Sum(s \cup T) = f[x] + Sum((s \cup T) \ {x})
    BY <2>1, <2>2, SumAnyOrder
  <2>6. Sum((s \ {x}) \cup T) = Sum(s \ {x}) + Sum(T)
    BY <1>2, <2>1
  <2>7. Sum(s \ {x}) \in Int /\ f[x] \in Int
    BY <2>1, <2>2, SumInt
  <2> DEFINE r == s \ {x}
  <2>8. Sum(s \cup T) = f[x] + (Sum(r) + Sum(T))
    BY <2>3, <2>5, <2>6
  <2>9. Sum(s) = f[x] + Sum(r) /\ Sum(r) \in Int /\ f[x] \in Int
    BY <2>4, <2>7
  <2>10. Sum(s \cup T) = Sum(s) + Sum(T)
    <3> HIDE DEF Sum, r
    <3> QED BY <1>0, <2>8, <2>9
  <2> QED BY <2>10
<1>3. Inductive(F, S)
  <2> HIDE DEF F
  <2> QED BY <1>1, <1>2 DEF Inductive
<1>4. S \in F
  <2> HIDE DEF F
  <2> QED BY <1>3, OneElementLess
<1> QED
  BY <1>4

(* A part of a sum of naturals is at most the sum.                           *)
LEMMA PartWithinSum ==
  ASSUME NEW S, IsFiniteSet(S), NEW f, \A x \in S : f[x] \in Nat, NEW T \in SUBSET S
  PROVE  SumFunctionOnSet(f, T) <= SumFunctionOnSet(f, S)
<1>1. IsFiniteSet(T) /\ IsFiniteSet(S \ T) /\ T \cap (S \ T) = {} /\ T \cup (S \ T) = S
  BY FS_Subset
<1>2. SumFunctionOnSet(f, T) \in Nat /\ SumFunctionOnSet(f, S \ T) \in Nat
  BY <1>1, SumNat
<1>3. SumFunctionOnSet(f, S) = SumFunctionOnSet(f, T) + SumFunctionOnSet(f, S \ T)
  BY <1>1, SumDisjoint
<1> QED
  BY <1>2, <1>3

(* Terms that are all 0 sum to 0.                                            *)
LEMMA SumZero ==
  ASSUME NEW S, IsFiniteSet(S), NEW f, \A x \in S : f[x] = 0
  PROVE  SumFunctionOnSet(f, S) = 0
<1> DEFINE F == {s \in SUBSET S : SumFunctionOnSet(f, s) = 0}
<1>1. {} \in F
  BY SumEmpty
<1>2. ASSUME NEW s \in SUBSET S, s # {}, \A x \in s : s \ {x} \in F
      PROVE  s \in F
  <2>1. Picked(s) \in s /\ IsFiniteSet(s)
    BY <1>2, PickedInSet, FS_Subset
  <2>2. SumFunctionOnSet(f, s) = f[Picked(s)] + SumFunctionOnSet(f, s \ {Picked(s)})
    BY <1>2, <2>1, SumUnfold
  <2>3. SumFunctionOnSet(f, s \ {Picked(s)}) = 0 /\ f[Picked(s)] = 0
    BY <1>2, <2>1
  <2> QED BY <2>2, <2>3
<1>3. Inductive(F, S)
  <2> HIDE DEF F
  <2> QED BY <1>1, <1>2 DEF Inductive
<1>4. S \in F
  <2> HIDE DEF F
  <2> QED BY <1>3, OneElementLess
<1> QED
  BY <1>4

(* Terms indexed by I, each at most the sum of the elements with that key,   *)
(* sum to no more than the elements with a key in I.                         *)
LEMMA SumByKey ==
  ASSUME NEW I, IsFiniteSet(I), NEW S, IsFiniteSet(S), NEW key,
         NEW f, \A i \in I : f[i] \in Nat, NEW g, \A x \in S : g[x] \in Nat,
         \A i \in I : f[i] <= SumFunctionOnSet(g, {x \in S : key[x] = i})
  PROVE  SumFunctionOnSet(f, I) <= SumFunctionOnSet(g, {x \in S : key[x] \in I})
<1> DEFINE Part(i) == {x \in S : key[x] = i}
           Parts(J) == {x \in S : key[x] \in J}
           Sum(s) == SumFunctionOnSet(g, s)
           F == {J \in SUBSET I : SumFunctionOnSet(f, J) <= Sum(Parts(J))}
<1>1. {} \in F
  <2>1. Parts({}) = {}
    OBVIOUS
  <2>2. Sum(Parts({})) = 0 /\ SumFunctionOnSet(f, {}) = 0
    BY <2>1, SumEmpty, Zenon
  <2> QED BY <2>2
<1>2. ASSUME NEW J \in SUBSET I, J # {}, \A i \in J : J \ {i} \in F
      PROVE  J \in F
  <2>1. PICK i : i \in J
    BY <1>2
  <2> DEFINE K == J \ {i}
  <2>2. IsFiniteSet(J) /\ IsFiniteSet(K)
    BY FS_Subset
  <2>3. SumFunctionOnSet(f, J) = f[i] + SumFunctionOnSet(f, K)
    BY <2>1, <2>2, SumAnyOrder
  <2>4. SumFunctionOnSet(f, K) \in Nat /\ f[i] \in Nat
    BY <2>1, <2>2, SumNat
  <2>5. Parts(J) = Part(i) \cup Parts(K) /\ Part(i) \cap Parts(K) = {}
    BY <2>1
  <2>6. IsFiniteSet(Part(i)) /\ IsFiniteSet(Parts(K))
    BY FS_Subset
  <2>7. Sum(Part(i) \cup Parts(K)) = Sum(Part(i)) + Sum(Parts(K))
    BY <2>5, <2>6, SumDisjoint
  <2>8. Sum(Part(i)) \in Nat /\ Sum(Parts(K)) \in Nat
    BY <2>6, SumNat
  <2>9. SumFunctionOnSet(f, K) <= Sum(Parts(K))
    BY <1>2, <2>1
  <2>10. f[i] <= Sum(Part(i))
    BY <2>1
  <2>11. Sum(Parts(J)) = Sum(Part(i)) + Sum(Parts(K))
    BY <2>5, <2>7, Zenon
  <2>12. SumFunctionOnSet(f, J) <= Sum(Parts(J))
    <3> HIDE DEF Sum, Parts, Part, K
    <3> QED BY <2>3, <2>4, <2>8, <2>9, <2>10, <2>11
  <2> QED BY <2>12
<1>3. Inductive(F, I)
  <2> HIDE DEF F
  <2> QED BY <1>1, <1>2 DEF Inductive
<1>4. I \in F
  <2> HIDE DEF F
  <2> QED BY <1>3, OneElementLess
<1> QED
  BY <1>4

-----------------------------------------------------------------------------
(* Sums over the positions of a sequence *)

(* Renaming the indices does not change a sum.                               *)
LEMMA SumReindex ==
  ASSUME NEW S, IsFiniteSet(S), NEW h, \A x, y \in S : h[x] = h[y] => x = y,
         NEW f, NEW g, \A x \in S : g[x] \in Int /\ f[h[x]] = g[x],
         NEW T, \A y : y \in T <=> \E x \in S : y = h[x]
  PROVE  SumFunctionOnSet(f, T) = SumFunctionOnSet(g, S)
<1> DEFINE Renamed(s) == {h[x] : x \in s}
           F == {s \in SUBSET S :
                   SumFunctionOnSet(f, Renamed(s)) = SumFunctionOnSet(g, s)}
<1>1. {} \in F
  <2>1. Renamed({}) = {}
    OBVIOUS
  <2> QED BY <2>1, SumEmpty
<1>2. ASSUME NEW s \in SUBSET S, s # {}, \A x \in s : s \ {x} \in F
      PROVE  s \in F
  <2>1. PICK x : x \in s
    BY <1>2
  <2> DEFINE r == s \ {x}
             R == Renamed(s)
  <2>2. IsFiniteSet(s) /\ IsFiniteSet(R)
    <3>1. IsFiniteSet(s)
      BY FS_Subset
    <3>2. [y \in s |-> h[y]] \in Surjection(s, R)
      BY DEF Surjection
    <3> HIDE DEF R
    <3> QED BY <3>1, <3>2, FS_Surjection, Zenon
  <2>3. h[x] \in R /\ R \ {h[x]} = Renamed(r)
    BY <2>1
  <2>4. \A t \in R : f[t] \in Int
    OBVIOUS
  <2>5. SumFunctionOnSet(f, R) = f[h[x]] + SumFunctionOnSet(f, R \ {h[x]})
    <3>1. h[x] \in R
      BY <2>3
    <3> HIDE DEF R
    <3> QED BY <2>2, <2>4, <3>1, SumAnyOrder
  <2>6. SumFunctionOnSet(g, s) = g[x] + SumFunctionOnSet(g, r)
    BY <2>1, <2>2, SumAnyOrder
  <2>7. SumFunctionOnSet(f, Renamed(r)) = SumFunctionOnSet(g, r)
    BY <1>2, <2>1
  <2>8. SumFunctionOnSet(f, R \ {h[x]}) = SumFunctionOnSet(g, r)
    BY <2>3, <2>7, Zenon
  <2>9. f[h[x]] = g[x]
    BY <2>1
  <2> QED BY <2>5, <2>6, <2>8, <2>9, Zenon
<1>3. Inductive(F, S)
  <2> HIDE DEF F
  <2> QED BY <1>1, <1>2 DEF Inductive
<1>4. S \in F
  <2> HIDE DEF F
  <2> QED BY <1>3, OneElementLess
<1>5. T = Renamed(S)
  OBVIOUS
<1> QED
  BY <1>4, <1>5

(* The last term and the others.                                             *)
LEMMA SumLast ==
  ASSUME NEW n \in Nat, NEW f, \A i \in 1..(n + 1) : f[i] \in Int,
         NEW g, \A i \in 1..n : g[i] = f[i]
  PROVE  SumFunctionOnSet(f, 1..(n + 1)) = f[n + 1] + SumFunctionOnSet(g, 1..n)
<1>1. IsFiniteSet(1..(n + 1)) /\ IsFiniteSet(1..n)
  BY FS_Interval
<1>2. n + 1 \in 1..(n + 1) /\ (1..(n + 1)) \ {n + 1} = 1..n
  OBVIOUS
<1>3. SumFunctionOnSet(f, 1..(n + 1)) = f[n + 1] + SumFunctionOnSet(f, 1..n)
  <2>1. SumFunctionOnSet(f, 1..(n + 1))
          = f[n + 1] + SumFunctionOnSet(f, (1..(n + 1)) \ {n + 1})
    BY <1>1, <1>2, SumAnyOrder
  <2> QED BY <1>2, <2>1, Zenon
<1>4. SumFunctionOnSet(g, 1..n) = SumFunctionOnSet(f, 1..n)
  <2>1. \A i \in 1..n : f[i] \in Int /\ g[i] = f[i]
    OBVIOUS
  <2> QED BY <1>1, <2>1, SumSame
<1> QED
  BY <1>3, <1>4, Zenon

(* The first term and the others, each a position earlier.                   *)
LEMMA SumFirst ==
  ASSUME NEW n \in Nat, NEW f, \A i \in 1..(n + 1) : f[i] \in Int,
         NEW g, \A i \in 1..n : g[i] = f[i + 1]
  PROVE  SumFunctionOnSet(f, 1..(n + 1)) = f[1] + SumFunctionOnSet(g, 1..n)
<1> DEFINE h == [i \in 1..n |-> i + 1]
<1>1. IsFiniteSet(1..(n + 1)) /\ IsFiniteSet(1..n)
  BY FS_Interval
<1>2. 1 \in 1..(n + 1) /\ \A i \in 1..n : i + 1 \in 1..(n + 1)
  OBVIOUS
<1>3. \A j : j \in (1..(n + 1)) \ {1} <=> \E i \in 1..n : j = h[i]
  <2>1. \A j \in (1..(n + 1)) \ {1} : \E i \in 1..n : j = i + 1
    <3> SUFFICES ASSUME NEW j \in (1..(n + 1)) \ {1} PROVE \E i \in 1..n : j = i + 1
      OBVIOUS
    <3>1. j - 1 \in 1..n /\ j = (j - 1) + 1
      OBVIOUS
    <3> QED BY <3>1
  <2>2. \A i \in 1..n : i + 1 \in (1..(n + 1)) \ {1} /\ h[i] = i + 1
    OBVIOUS
  <2> HIDE DEF h
  <2> QED BY <2>1, <2>2
<1>4. SumFunctionOnSet(f, 1..(n + 1)) = f[1] + SumFunctionOnSet(f, (1..(n + 1)) \ {1})
  BY <1>1, <1>2, SumAnyOrder
<1>5. SumFunctionOnSet(f, (1..(n + 1)) \ {1}) = SumFunctionOnSet(g, 1..n)
  <2>1. \A i, j \in 1..n : h[i] = h[j] => i = j
    OBVIOUS
  <2>2. \A i \in 1..n : g[i] \in Int /\ f[h[i]] = g[i]
    BY <1>2
  <2> DEFINE S == 1..n
  <2>3. IsFiniteSet(S) /\ \A i, j \in S : h[i] = h[j] => i = j
    BY <1>1, <2>1
  <2>4. \A i \in S : g[i] \in Int /\ f[h[i]] = g[i]
    BY <2>2
  <2> DEFINE T == (1..(n + 1)) \ {1}
  <2>5. \A j : j \in T <=> \E i \in S : j = h[i]
    BY <1>3
  <2> HIDE DEF h, S, T
  <2>6. SumFunctionOnSet(f, T) = SumFunctionOnSet(g, S)
    BY <2>3, <2>4, <2>5, SumReindex
  <2> QED BY <2>6 DEF S, T
<1> QED
  BY <1>4, <1>5, Zenon

=============================================================================
