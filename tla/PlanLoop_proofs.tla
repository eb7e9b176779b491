--------------------------- MODULE PlanLoop_proofs ---------------------------
(***************************************************************************)
(* Proofs about the planner: what is true of every plan that is acted on,  *)
(* for every battery, forecast, price and setting.                         *)
(*                                                                         *)
(* The invariant of the loop, LoopInv, is small: the battery is between    *)
(* empty and full, the last request is one a plan can be built from        *)
(* (RequestOK), and until the world moves on the plan is FinalPlan of that *)
(* request.  What makes a plan right is therefore proved of FinalPlan, one *)
(* lemma for each pass it goes through: PlanSound says of a plan in the    *)
(* middle of the passes what the validator will ask of it at the end, the  *)
(* passes that remove charging only thin it out (Thins), and each pass     *)
(* that adds charging is followed by the one that bounds it again.         *)
(*                                                                         *)
(* Three definitions of the model are recursive.  Sums are those of the    *)
(* library, over finite sets, and their lemmas go by the size of the set;  *)
(* the projection and the kept cycles are functions of the slots, each     *)
(* value made from the one before it (IsWalk).  Both inductions rest on    *)
(* the least element of a set of naturals (SmallestOf, CountingUp).        *)
(***************************************************************************)
EXTENDS PlanLoop, FiniteSetTheorems, WellFoundedInduction, TLAPS

-----------------------------------------------------------------------------
(* Sums over finite sets.                                                  *)

\* A set of naturals that is not empty has a least element.
LEMMA SmallestOf ==
    ASSUME NEW S, S \subseteq Nat, S # {}
    PROVE  \E m \in S : \A s \in S : m <= s
<1> DEFINE R == OpToRel(<, Nat)
<1>1. IsWellFoundedOn(R, Nat)
  BY NatLessThanWellFounded
<1>2. R = {ss \in Nat \X Nat : ss[1] < ss[2]}
  BY DEF OpToRel
<1> HIDE DEF R
<1>3. PICK m \in S : \A s \in S : ~(<<s, m>> \in R)
  BY <1>1, WFMin
<1>4. \A s \in S : ~(s < m)
  BY <1>2, <1>3
<1> QED
  BY <1>4

\* Induction over the naturals, without a library theorem that would take
\* an operator.
LEMMA CountingUp ==
    ASSUME NEW S, S \subseteq Nat, 0 \in S, \A n \in S : n + 1 \in S
    PROVE  \A n \in Nat : n \in S
<1>1. SUFFICES ASSUME Nat \ S # {} PROVE FALSE
  OBVIOUS
<1>2. PICK n \in Nat \ S : \A m \in Nat \ S : n <= m
  BY <1>1, SmallestOf
<1>3. n - 1 \in Nat /\ ~(n <= n - 1)
  BY <1>2
<1>4. n - 1 \in S /\ n = (n - 1) + 1
  BY <1>2, <1>3
<1> QED
  BY <1>2, <1>4

(* One step of the sum: the chosen element and the rest.                   *)
Chosen(s) == CHOOSE x \in s : TRUE
SumStep(f, rest, s) == IF s = {} THEN 0 ELSE f[Chosen(s)] + rest[s \ {Chosen(s)}]
PartSums(f, U) == CHOOSE iter : iter = [s \in SUBSET U |-> SumStep(f, iter, s)]

LEMMA SumIsPartSum ==
    ASSUME NEW f, NEW U
    PROVE  SumFunctionOnSet(f, U) = PartSums(f, U)[U]
  BY DEF SumFunctionOnSet, FoldFunctionOnSet, MapThenFoldSet, PartSums, SumStep, Chosen

LEMMA ChosenOut ==
    ASSUME NEW s, IsFiniteSet(s), s # {}
    PROVE  /\ Chosen(s) \in s /\ IsFiniteSet(s \ {Chosen(s)})
           /\ Cardinality(s \ {Chosen(s)}) = Cardinality(s) - 1
<1>1. Chosen(s) \in s
  BY DEF Chosen
<1> QED
  BY <1>1, FS_RemoveElement

\* The recursion that defines the sums over the parts of a finite set has a
\* solution, built up by the size of the parts.
LEMMA PartSumsExist ==
    ASSUME NEW f, NEW U, IsFiniteSet(U)
    PROVE  \E g : g = [s \in SUBSET U |-> SumStep(f, g, s)]
<1> DEFINE Level(n) == {s \in SUBSET U : Cardinality(s) <= n}
           A == {n \in Nat : \E g : g = [s \in Level(n) |-> SumStep(f, g, s)]}
<1>1. \A s \in SUBSET U : IsFiniteSet(s) /\ Cardinality(s) \in Nat /\ Cardinality(s) <= Cardinality(U)
  BY FS_Subset, FS_CardinalityType
<1>2. 0 \in A
  <2> DEFINE g == [s \in Level(0) |-> 0]
  <2>1. \A s \in Level(0) : s = {}
    BY <1>1, FS_EmptySet
  <2>2. g = [s \in Level(0) |-> SumStep(f, g, s)]
    BY <2>1 DEF SumStep
  <2> HIDE DEF g
  <2> QED
    BY <2>2
<1>3. ASSUME NEW n \in A PROVE n + 1 \in A
  <2>1. PICK g : g = [s \in Level(n) |-> SumStep(f, g, s)]
    OBVIOUS
  <2> DEFINE h == [s \in Level(n + 1) |-> SumStep(f, g, s)]
  <2>2. \A s \in Level(n) : g[s] = SumStep(f, g, s)
    BY <2>1
  <2>3. ASSUME NEW s \in Level(n + 1), s # {}
        PROVE  s \ {Chosen(s)} \in Level(n) /\ s \ {Chosen(s)} \in Level(n + 1)
    <3>1. Cardinality(s \ {Chosen(s)}) = Cardinality(s) - 1
      BY <1>1, <2>3, ChosenOut
    <3>2. Cardinality(s) \in Nat /\ Cardinality(s) <= n + 1 /\ n \in Nat
      BY <1>1
    <3> QED
      BY <3>1, <3>2
  <2>4. \A s \in Level(n) : s \in Level(n + 1) /\ h[s] = g[s]
    <3>1. ASSUME NEW s \in Level(n) PROVE s \in Level(n + 1)
      BY <1>1
    <3> QED
      BY <3>1, <2>2
  <2>5. \A s \in Level(n + 1) : SumStep(f, g, s) = SumStep(f, h, s)
    <3> HIDE DEF h
    <3> QED
      BY <2>3, <2>4 DEF SumStep
  <2>6. h = [s \in Level(n + 1) |-> SumStep(f, h, s)]
    BY <2>5
  <2>7. n + 1 \in Nat
    OBVIOUS
  <2> HIDE DEF h, Level
  <2>8. \E k : k = [s \in Level(n + 1) |-> SumStep(f, k, s)]
    BY <2>6
  <2> QED
    BY <2>7, <2>8
<1>4. Cardinality(U) \in A
  <2> HIDE DEF A
  <2>1. A \subseteq Nat
    BY DEF A
  <2>2. \A n \in A : n + 1 \in A
    BY <1>3
  <2> QED
    BY <1>2, <2>1, <2>2, CountingUp, <1>1
<1>5. Level(Cardinality(U)) = SUBSET U
  BY <1>1
<1> QED
  BY <1>4, <1>5

LEMMA PartSumsStep ==
    ASSUME NEW f, NEW U, IsFiniteSet(U)
    PROVE  \A s \in SUBSET U : PartSums(f, U)[s] = SumStep(f, PartSums(f, U), s)
<1>1. PartSums(f, U) = [s \in SUBSET U |-> SumStep(f, PartSums(f, U), s)]
  BY PartSumsExist DEF PartSums
<1> HIDE DEF PartSums
<1> QED
  BY <1>1

(* Induction over the subsets of a finite set, by their size.              *)
LEMMA BySize ==
    ASSUME NEW U, IsFiniteSet(U), NEW Good, {} \in Good,
           \A s \in SUBSET U : s # {} /\ (\A x \in s : s \ {x} \in Good) => s \in Good
    PROVE  \A s \in SUBSET U : s \in Good
<1> DEFINE A == {n \in Nat : \A s \in SUBSET U : Cardinality(s) = n => s \in Good}
<1>1. \A s \in SUBSET U : IsFiniteSet(s) /\ Cardinality(s) \in Nat
  BY FS_Subset, FS_CardinalityType
<1>2. 0 \in A
  BY <1>1, FS_EmptySet
<1>3. ASSUME NEW n \in A PROVE n + 1 \in A
  <2>1. SUFFICES ASSUME NEW s \in SUBSET U, Cardinality(s) = n + 1 PROVE s \in Good
    OBVIOUS
  <2>2. s # {}
    <3>1. n + 1 # 0
      OBVIOUS
    <3> QED
      BY <2>1, <3>1, FS_EmptySet
  <2>3. ASSUME NEW x \in s PROVE s \ {x} \in Good
    <3>1. Cardinality(s \ {x}) = Cardinality(s) - 1
      BY <1>1, FS_RemoveElement
    <3>2. Cardinality(s \ {x}) = n
      BY <3>1, <2>1
    <3> QED
      BY <3>2
  <2> QED
    BY <2>2, <2>3
<1>4. \A n \in Nat : n \in A
  <2>1. A \subseteq Nat
    OBVIOUS
  <2> HIDE DEF A
  <2> QED
    BY <1>2, <1>3, <2>1, CountingUp
<1> QED
  BY <1>1, <1>4

\* The sum over a part does not depend on the set it is a part of.
LEMMA PartSumsAgree ==
    ASSUME NEW f, NEW U, IsFiniteSet(U), NEW V \in SUBSET U
    PROVE  PartSums(f, U)[V] = PartSums(f, V)[V]
<1> DEFINE Good == {s \in SUBSET V : PartSums(f, U)[s] = PartSums(f, V)[s]}
<1>1. IsFiniteSet(V)
  BY FS_Subset
<1>2. {} \in Good
  BY <1>1, PartSumsStep DEF SumStep
<1>3. ASSUME NEW s \in SUBSET V, s # {}, \A x \in s : s \ {x} \in Good
      PROVE  s \in Good
  <2>1. PICK x \in s : x = Chosen(s)
    BY <1>3 DEF Chosen
  <2>2. PartSums(f, U)[s] = f[x] + PartSums(f, U)[s \ {x}]
    BY <1>3, <2>1, PartSumsStep DEF SumStep
  <2>3. PartSums(f, V)[s] = f[x] + PartSums(f, V)[s \ {x}]
    BY <1>1, <1>3, <2>1, PartSumsStep DEF SumStep
  <2> QED
    BY <2>1, <2>2, <2>3, <1>3
<1> HIDE DEF Good
<1>4. \A s \in SUBSET V : s \in Good
  BY <1>1, <1>2, <1>3, BySize
<1> QED
  BY <1>4 DEF Good

LEMMA SumEmpty ==
    ASSUME NEW f
    PROVE  SumFunctionOnSet(f, {}) = 0
  BY SumIsPartSum, PartSumsStep, FS_EmptySet DEF SumStep

LEMMA SumChosen ==
    ASSUME NEW f, NEW U, IsFiniteSet(U), U # {}
    PROVE  \E x \in U : SumFunctionOnSet(f, U) = f[x] + SumFunctionOnSet(f, U \ {x})
<1>1. PICK x \in U : x = Chosen(U)
  BY DEF Chosen
<1>2. PartSums(f, U)[U] = f[x] + PartSums(f, U)[U \ {x}]
  BY <1>1, PartSumsStep DEF SumStep
<1>3. PartSums(f, U)[U \ {x}] = PartSums(f, U \ {x})[U \ {x}]
  BY PartSumsAgree
<1> QED
  BY <1>2, <1>3, SumIsPartSum

(* A sum of integers is one.                                               *)
LEMMA SumInt ==
    ASSUME NEW U, IsFiniteSet(U), NEW f, \A x \in U : f[x] \in Int
    PROVE  SumFunctionOnSet(f, U) \in Int
<1> DEFINE Good == {s \in SUBSET U : SumFunctionOnSet(f, s) \in Int}
<1>1. {} \in Good
  BY SumEmpty
<1>2. ASSUME NEW s \in SUBSET U, s # {}, \A x \in s : s \ {x} \in Good
      PROVE  s \in Good
  <2>1. PICK x \in s : SumFunctionOnSet(f, s) = f[x] + SumFunctionOnSet(f, s \ {x})
    BY <1>2, FS_Subset, SumChosen
  <2> QED
    BY <1>2, <2>1
<1> HIDE DEF Good
<1>3. \A s \in SUBSET U : s \in Good
  BY <1>1, <1>2, BySize
<1> QED
  BY <1>3 DEF Good

(* Any one element may be taken out of a sum.                              *)
LEMMA SumOneOut ==
    ASSUME NEW U, IsFiniteSet(U), NEW f, \A x \in U : f[x] \in Int, NEW x \in U
    PROVE  SumFunctionOnSet(f, U) = f[x] + SumFunctionOnSet(f, U \ {x})
<1> DEFINE Good == {s \in SUBSET U : \A y \in s :
                      SumFunctionOnSet(f, s) = f[y] + SumFunctionOnSet(f, s \ {y})}
<1>1. {} \in Good
  OBVIOUS
<1>2. ASSUME NEW s \in SUBSET U, s # {}, \A y \in s : s \ {y} \in Good
      PROVE  s \in Good
  <2>1. PICK c \in s : SumFunctionOnSet(f, s) = f[c] + SumFunctionOnSet(f, s \ {c})
    BY <1>2, FS_Subset, SumChosen
  <2>2. ASSUME NEW y \in s, y # c
        PROVE  SumFunctionOnSet(f, s) = f[y] + SumFunctionOnSet(f, s \ {y})
    <3>1. SumFunctionOnSet(f, s \ {c}) = f[y] + SumFunctionOnSet(f, (s \ {c}) \ {y})
      BY <1>2, <2>2
    <3>2. SumFunctionOnSet(f, s \ {y}) = f[c] + SumFunctionOnSet(f, (s \ {y}) \ {c})
      BY <1>2, <2>2
    <3>3. (s \ {c}) \ {y} = (s \ {y}) \ {c}
      OBVIOUS
    <3>4. SumFunctionOnSet(f, (s \ {y}) \ {c}) \in Int
      BY FS_Subset, SumInt
    <3>5. f[y] \in Int /\ f[c] \in Int
      OBVIOUS
    <3> DEFINE a == SumFunctionOnSet(f, s)
               b == SumFunctionOnSet(f, s \ {c})
               d == SumFunctionOnSet(f, s \ {y})
               e == SumFunctionOnSet(f, (s \ {y}) \ {c})
    <3>6. a = f[c] + b /\ b = f[y] + e /\ d = f[c] + e /\ e \in Int
      BY <2>1, <3>1, <3>2, <3>3, <3>4
    <3> HIDE DEF a, b, d, e
    <3>7. a = f[y] + d
      BY <3>5, <3>6
    <3> QED
      BY <3>7 DEF a, d
  <2> QED
    BY <2>1, <2>2
<1> HIDE DEF Good
<1>3. \A s \in SUBSET U : s \in Good
  BY <1>1, <1>2, BySize
<1> QED
  BY <1>3 DEF Good

(* Less of less adds up to less.                                           *)
LEMMA SumMonotone ==
    ASSUME NEW U, IsFiniteSet(U), NEW V \in SUBSET U,
           NEW f, \A x \in U : f[x] \in Nat, NEW g, \A x \in V : g[x] \in Nat /\ g[x] <= f[x]
    PROVE  SumFunctionOnSet(g, V) <= SumFunctionOnSet(f, U)
<1> DEFINE Good == {s \in SUBSET U : SumFunctionOnSet(g, s \cap V) <= SumFunctionOnSet(f, s)}
<1>1. {} \in Good
  BY SumEmpty
<1>2. ASSUME NEW s \in SUBSET U, s # {}, \A x \in s : s \ {x} \in Good
      PROVE  s \in Good
  <2>1. PICK x \in s : SumFunctionOnSet(f, s) = f[x] + SumFunctionOnSet(f, s \ {x})
    BY <1>2, FS_Subset, SumChosen
  <2>2. SumFunctionOnSet(g, (s \ {x}) \cap V) <= SumFunctionOnSet(f, s \ {x})
    BY <1>2
  <2>3. f[x] \in Nat /\ SumFunctionOnSet(f, s \ {x}) \in Int
    <3>1. IsFiniteSet(s \ {x}) /\ \A y \in s \ {x} : f[y] \in Int
      BY FS_Subset
    <3> QED
      BY <3>1, SumInt
  <2>4. SumFunctionOnSet(g, (s \ {x}) \cap V) \in Int
    BY FS_Subset, SumInt
  <2> DEFINE F == SumFunctionOnSet(f, s)
             F1 == SumFunctionOnSet(f, s \ {x})
             G == SumFunctionOnSet(g, s \cap V)
             G1 == SumFunctionOnSet(g, (s \ {x}) \cap V)
  <2>5. F = f[x] + F1 /\ G1 <= F1 /\ f[x] \in Nat /\ F1 \in Int /\ G1 \in Int
    BY <2>1, <2>2, <2>3, <2>4
  <2>6. CASE x \notin V
    <3>1. G = G1
      <4>1. (s \ {x}) \cap V = s \cap V
        BY <2>6
      <4> QED
        BY <4>1
    <3> HIDE DEF F, F1, G, G1
    <3>2. G <= F
      BY <2>5, <3>1
    <3> QED
      BY <3>2 DEF F, G
  <2>7. CASE x \in V
    <3>1. (s \cap V) \ {x} = (s \ {x}) \cap V
      OBVIOUS
    <3>2. SumFunctionOnSet(g, s \cap V) = g[x] + SumFunctionOnSet(g, (s \cap V) \ {x})
      BY <2>7, FS_Subset, SumOneOut
    <3>3. g[x] \in Nat /\ g[x] <= f[x]
      BY <2>7
    <3>4. G = g[x] + G1
      BY <3>1, <3>2
    <3> HIDE DEF F, F1, G, G1
    <3>5. G <= F
      BY <2>5, <3>3, <3>4
    <3> QED
      BY <3>5 DEF F, G
  <2> QED
    BY <2>6, <2>7
<1> HIDE DEF Good
<1>3. \A s \in SUBSET U : s \in Good
  BY <1>1, <1>2, BySize
<1>4. U \in Good /\ U \cap V = V
  BY <1>3
<1> QED
  BY <1>4 DEF Good

LEMMA SumNat ==
    ASSUME NEW U, IsFiniteSet(U), NEW f, \A x \in U : f[x] \in Nat
    PROVE  SumFunctionOnSet(f, U) \in Nat
<1>1. SumFunctionOnSet(f, {}) <= SumFunctionOnSet(f, U)
  BY SumMonotone
<1> QED
  BY <1>1, SumEmpty, SumInt

\* Terms that agree have the same sum.
LEMMA SumOfEqual ==
    ASSUME NEW U, IsFiniteSet(U), NEW c \in Nat, NEW f, \A x \in U : f[x] = c
    PROVE  SumFunctionOnSet(f, U) = Cardinality(U) * c
<1> DEFINE Good == {s \in SUBSET U : SumFunctionOnSet(f, s) = Cardinality(s) * c}
<1>1. {} \in Good
  BY SumEmpty, FS_EmptySet
<1>2. ASSUME NEW s \in SUBSET U, s # {}, \A x \in s : s \ {x} \in Good
      PROVE  s \in Good
  <2>1. IsFiniteSet(s)
    BY FS_Subset
  <2>2. PICK x \in s : SumFunctionOnSet(f, s) = f[x] + SumFunctionOnSet(f, s \ {x})
    BY <1>2, <2>1, SumChosen
  <2>3. Cardinality(s \ {x}) = Cardinality(s) - 1 /\ Cardinality(s) \in Nat
    BY <2>1, FS_RemoveElement, FS_CardinalityType
  <2>4. SumFunctionOnSet(f, s \ {x}) = Cardinality(s \ {x}) * c /\ f[x] = c
    BY <1>2
  <2>5. c + (Cardinality(s) - 1) * c = Cardinality(s) * c
    BY <2>3
  <2> QED
    BY <2>2, <2>3, <2>4, <2>5
<1> HIDE DEF Good
<1>3. \A s \in SUBSET U : s \in Good
  BY <1>1, <1>2, BySize
<1> QED
  BY <1>3 DEF Good
-----------------------------------------------------------------------------
(* Numbers and sets of slots.                                              *)

\* What the assumptions make of the battery's constants.
LEMMA Constants ==
    /\ Midnight \in Nat /\ Usable \in Nat /\ ChargeAC \in Nat /\ OutAC \in Nat
    /\ EtaNum \in Nat /\ EtaDen \in Nat /\ EtaNum > 0 /\ EtaDen > 0 /\ ChargeAC > 0 /\ OutAC > 0
    /\ Floor \in Nat /\ Margin \in Nat /\ Wear \in Nat /\ Fee \in Nat /\ SavingsAC \in Nat
    /\ Buffer \in Nat /\ PeakHorizon \in Nat /\ Floor <= Usable /\ EtaNum <= EtaDen
  BY PlanAssumption

\* A division by a positive number rounds towards smaller numbers.
LEMMA Quotient ==
    ASSUME NEW a \in Int, NEW b \in Nat, b > 0
    PROVE  a \div b \in Int /\ (a >= 0 => a \div b >= 0)
  OBVIOUS

LEMMA StoredType ==
    ASSUME NEW x \in Int
    PROVE  Stored(x) \in Int /\ (x >= 0 => Stored(x) >= 0)
<1>1. x * EtaNum \in Int /\ (x >= 0 => x * EtaNum >= 0)
  BY Constants
<1> QED
  BY <1>1, Constants, Quotient DEF Stored

LEMMA DrawnType ==
    ASSUME NEW x \in Int
    PROVE  Drawn(x) \in Int /\ (x >= 0 => Drawn(x) >= 0)
<1>1. x * EtaDen \in Int /\ (x >= 0 => x * EtaDen >= 0)
  BY Constants
<1> QED
  BY <1>1, Constants, Quotient DEF Drawn

LEMMA SlotDCType == SlotDC \in Nat
  BY StoredType, Constants DEF SlotDC

LEMMA AheadType ==
    ASSUME NEW q, NEW i, NEW x \in Int
    PROVE  Ahead(q, i, x) \in Int /\ (x >= 0 => Ahead(q, i, x) >= 0)
  BY Quotient DEF Ahead

(* The extremes of a finite set of integers.                               *)
LEMMA MaxOf ==
    ASSUME NEW S, S \subseteq Int, IsFiniteSet(S), S # {}
    PROVE  Max(S) \in S /\ \A x \in S : x <= Max(S)
<1> DEFINE Good == {s \in SUBSET S : s # {} => \E m \in s : \A x \in s : x <= m}
<1>1. {} \in Good
  OBVIOUS
<1>2. ASSUME NEW s \in SUBSET S, s # {}, \A x \in s : s \ {x} \in Good
      PROVE  s \in Good
  <2>1. PICK y \in s : TRUE
    BY <1>2
  <2>2. CASE s \ {y} = {}
    BY <2>1, <2>2
  <2>3. CASE s \ {y} # {}
    <3>1. PICK m \in s \ {y} : \A x \in s \ {y} : x <= m
      BY <1>2, <2>1, <2>3
    <3>2. \E k \in s : \A x \in s : x <= k
      <4>1. CASE y <= m
        BY <2>1, <3>1, <4>1
      <4>2. CASE ~(y <= m)
        <5>1. m \in Int /\ y \in Int /\ \A x \in s : x \in Int
          OBVIOUS
        <5>2. \A x \in s : x <= y
          BY <3>1, <4>2, <5>1
        <5> QED
          BY <2>1, <5>2
      <4> QED
        BY <4>1, <4>2
    <3> QED
      BY <3>2
  <2> QED
    BY <2>2, <2>3
<1> HIDE DEF Good
<1>3. S \in Good
  BY <1>1, <1>2, BySize
<1>4. \E m \in S : \A x \in S : x <= m
  BY <1>3 DEF Good
<1>5. \A x, m \in S : x <= m <=> m >= x
  OBVIOUS
<1>6. \E m \in S : \A x \in S : m >= x
  BY <1>4, <1>5
<1> QED
  BY <1>5, <1>6 DEF Max

LEMMA MinOf ==
    ASSUME NEW S, S \subseteq Int, IsFiniteSet(S), S # {}
    PROVE  Min(S) \in S /\ \A x \in S : Min(S) <= x
<1> DEFINE Good == {s \in SUBSET S : s # {} => \E m \in s : \A x \in s : m <= x}
<1>1. {} \in Good
  OBVIOUS
<1>2. ASSUME NEW s \in SUBSET S, s # {}, \A x \in s : s \ {x} \in Good
      PROVE  s \in Good
  <2>1. PICK y \in s : TRUE
    BY <1>2
  <2>2. CASE s \ {y} = {}
    BY <2>1, <2>2
  <2>3. CASE s \ {y} # {}
    <3>1. PICK m \in s \ {y} : \A x \in s \ {y} : m <= x
      BY <1>2, <2>1, <2>3
    <3>2. m \in Int /\ y \in Int /\ \A x \in s : x \in Int
      OBVIOUS
    <3>3. CASE m <= y
      BY <3>1, <3>3
    <3>4. CASE ~(m <= y)
      <4>1. \A x \in s : y <= x
        BY <3>1, <3>2, <3>4
      <4> QED
        BY <4>1
    <3> QED
      BY <3>3, <3>4
  <2> QED
    BY <2>2, <2>3
<1> HIDE DEF Good
<1>3. S \in Good
  BY <1>1, <1>2, BySize
<1>4. \E m \in S : \A x \in S : m <= x
  BY <1>3 DEF Good
<1> QED
  BY <1>4 DEF Min

\* The values of a finite function are finitely many.
LEMMA ImageFinite ==
    ASSUME NEW S, IsFiniteSet(S), NEW f
    PROVE  IsFiniteSet({f[x] : x \in S})
<1> DEFINE g == [x \in S |-> f[x]]
<1>1. g \in Surjection(S, {f[x] : x \in S})
  BY DEF Surjection
<1> QED
  BY <1>1, FS_Surjection

LEMMA SlotsFinite ==
    ASSUME NEW q, q.now \in Nat, q.known \in Nat
    PROVE  IsFiniteSet(Slots(q)) /\ Slots(q) \subseteq Nat
<1>1. q.now \in Int /\ q.known \in Int
  OBVIOUS
<1>2. IsFiniteSet(q.now .. q.known)
  BY <1>1, FS_Interval
<1>3. q.now .. q.known \subseteq Nat
  OBVIOUS
<1> QED
  BY <1>2, <1>3 DEF Slots

-----------------------------------------------------------------------------
(* A walk over the slots: each value is made from the one before it.       *)

IsWalk(lo, hi, v, h, f) ==
    f = [i \in (lo - 1) .. hi |-> IF i < lo THEN v ELSE h[i][f[i - 1]]]

\* A walk over the slots exists when each step stays in range.
LEMMA WalkExists ==
    ASSUME NEW lo \in Nat, NEW hi \in Int, lo - 1 <= hi, NEW V, NEW v \in V, NEW h,
           \A i \in lo .. hi : \A x \in V : h[i][x] \in V
    PROVE  \E f \in [(lo - 1) .. hi -> V] : IsWalk(lo, hi, v, h, f)
<1> DEFINE Walks(n, f) == /\ f \in [(lo - 1) .. (lo - 1 + n) -> V]
                          /\ f = [i \in (lo - 1) .. (lo - 1 + n) |->
                                    IF i < lo THEN v ELSE h[i][f[i - 1]]]
           A == {n \in Nat : lo - 1 + n <= hi => \E f : Walks(n, f)}
<1>1. 0 \in A
  <2> DEFINE f == [i \in (lo - 1) .. (lo - 1) |-> v]
  <2>1. f \in [(lo - 1) .. (lo - 1 + 0) -> V]
    OBVIOUS
  <2>2. f = [i \in (lo - 1) .. (lo - 1 + 0) |-> IF i < lo THEN v ELSE h[i][f[i - 1]]]
    <3>1. \A i \in (lo - 1) .. (lo - 1 + 0) : i < lo
      OBVIOUS
    <3> QED
      BY <3>1
  <2> QED
    BY <2>1, <2>2
<1>2. ASSUME NEW n \in A PROVE n + 1 \in A
  <2>1. SUFFICES ASSUME lo - 1 + (n + 1) <= hi PROVE \E f : Walks(n + 1, f)
    OBVIOUS
  <2>2. PICK g : Walks(n, g)
    <3>1. lo - 1 + n <= hi
      BY <2>1
    <3> QED
      BY <3>1
  <2> DEFINE D == (lo - 1) .. (lo - 1 + n)
             E == (lo - 1) .. (lo - 1 + (n + 1))
             f == [i \in E |-> IF i < lo THEN v ELSE h[i][g[i - 1]]]
  <2>3. \A i \in E : i >= lo => i - 1 \in D /\ i \in lo .. hi
    BY <2>1
  <2>4. g \in [D -> V] /\ \A i \in D : g[i] = IF i < lo THEN v ELSE h[i][g[i - 1]]
    <3>1. g = [i \in D |-> IF i < lo THEN v ELSE h[i][g[i - 1]]]
      BY <2>2
    <3> QED
      BY <2>2, <3>1
  <2>5. \A i \in D : i \in E /\ f[i] = g[i]
    <3>1. \A i \in D : i \in E
      OBVIOUS
    <3> QED
      BY <2>4, <3>1
  <2>6. f \in [E -> V]
    <3>1. \A i \in E : (IF i < lo THEN v ELSE h[i][g[i - 1]]) \in V
      BY <2>3, <2>4
    <3> QED
      BY <3>1
  <2>7. \A i \in E : f[i] = IF i < lo THEN v ELSE h[i][f[i - 1]]
    <3>1. \A i \in E : f[i] = IF i < lo THEN v ELSE h[i][g[i - 1]]
      OBVIOUS
    <3>2. \A i \in E : i >= lo => f[i - 1] = g[i - 1]
      BY <2>3, <2>5
    <3>3. \A i \in E : i < lo \/ i >= lo
      OBVIOUS
    <3> HIDE DEF f
    <3> QED
      BY <3>1, <3>2, <3>3
  <2>8. f = [i \in E |-> IF i < lo THEN v ELSE h[i][f[i - 1]]]
    <3>1. f = [i \in E |-> f[i]]
      OBVIOUS
    <3> HIDE DEF f
    <3> QED
      BY <2>7, <3>1
  <2> QED
    BY <2>6, <2>8
<1>3. hi - (lo - 1) \in A
  <2>1. A \subseteq Nat
    OBVIOUS
  <2>2. hi - (lo - 1) \in Nat
    OBVIOUS
  <2> HIDE DEF A
  <2> QED
    BY <1>1, <1>2, <2>1, <2>2, CountingUp
<1>4. lo - 1 + (hi - (lo - 1)) = hi
  OBVIOUS
<1> QED
  BY <1>3, <1>4 DEF IsWalk

\* There is one walk only, so a CHOOSE of a walk is that walk.
LEMMA WalkUnique ==
    ASSUME NEW lo \in Nat, NEW hi \in Int, NEW v, NEW h, NEW f, NEW g,
           IsWalk(lo, hi, v, h, f), IsWalk(lo, hi, v, h, g)
    PROVE  f = g
<1> DEFINE S == (lo - 1) .. hi
           D == {i \in S : f[i] # g[i]}
<1>1. \A i \in S : f[i] = IF i < lo THEN v ELSE h[i][f[i - 1]]
  BY DEF IsWalk
<1>2. \A i \in S : g[i] = IF i < lo THEN v ELSE h[i][g[i - 1]]
  BY DEF IsWalk
<1>3. \A i \in D : i \in Nat /\ i >= lo /\ i - 1 \in S
  BY <1>1, <1>2
<1>4. D = {}
  <2>1. SUFFICES ASSUME D # {} PROVE FALSE
    OBVIOUS
  <2>2. PICK m \in D : \A i \in D : m <= i
    <3>1. D \subseteq Nat
      BY <1>3
    <3> HIDE DEF D
    <3> QED
      BY <2>1, <3>1, SmallestOf
  <2>3. m - 1 \in S /\ ~(m - 1 \in D)
    <3>1. m \in Nat /\ m - 1 \in S
      BY <1>3
    <3>2. ~(m <= m - 1)
      BY <3>1
    <3> QED
      BY <3>1, <3>2, <2>2
  <2>4. f[m - 1] = g[m - 1]
    BY <2>3
  <2>5. f[m] = h[m][f[m - 1]] /\ g[m] = h[m][g[m - 1]]
    <3>1. m \in S /\ ~(m < lo)
      BY <1>3
    <3> QED
      BY <3>1, <1>1, <1>2
  <2> QED
    BY <2>4, <2>5
<1>5. f = [i \in S |-> f[i]] /\ g = [i \in S |-> g[i]]
  BY DEF IsWalk
<1> QED
  BY <1>4, <1>5

-----------------------------------------------------------------------------
(* The choice of slots: a slot is chosen from those offered, and there are *)
(* no more of them than asked for.                                         *)

Dearer(S, price, i) ==
    {j \in S : price[j] > price[i] \/ (price[j] = price[i] /\ j < i)}

LEMMA DearestSize ==
    ASSUME NEW S, IsFiniteSet(S), S \subseteq Nat, NEW n \in Nat, NEW price,
           \A i \in S : price[i] \in Int
    PROVE  Cardinality(Dearest(S, n, price)) <= n
<1> DEFINE D == Dearest(S, n, price)
           rank == [i \in D |-> Cardinality(Dearer(S, price, i))]
<1>1. D \subseteq S /\ \A i \in D : Cardinality(Dearer(S, price, i)) < n
  BY DEF Dearest, Dearer
<1>2. \A i \in S : IsFiniteSet(Dearer(S, price, i)) /\ Cardinality(Dearer(S, price, i)) \in Nat
  <2>1. \A i \in S : Dearer(S, price, i) \in SUBSET S
    BY DEF Dearer
  <2> QED
    BY <2>1, FS_Subset, FS_CardinalityType
<1>3. ASSUME NEW i \in S, NEW k \in S, k \in Dearer(S, price, i)
      PROVE  Cardinality(Dearer(S, price, k)) < Cardinality(Dearer(S, price, i))
  <2>1. Dearer(S, price, k) \subseteq Dearer(S, price, i) \ {k}
    <3>1. SUFFICES ASSUME NEW j \in Dearer(S, price, k)
                   PROVE  j \in Dearer(S, price, i) /\ j # k
      OBVIOUS
    <3>2. j \in S /\ {i, j, k} \subseteq Nat /\ {price[i], price[j], price[k]} \subseteq Int
      BY DEF Dearer
    <3>3. price[j] > price[k] \/ (price[j] = price[k] /\ j < k)
      BY DEF Dearer
    <3>4. price[k] > price[i] \/ (price[k] = price[i] /\ k < i)
      BY <1>3 DEF Dearer
    <3>5. (price[j] > price[i] \/ (price[j] = price[i] /\ j < i)) /\ j # k
      BY <3>2, <3>3, <3>4
    <3> QED
      BY <3>2, <3>5 DEF Dearer
  <2>2. /\ Cardinality(Dearer(S, price, i) \ {k}) = Cardinality(Dearer(S, price, i)) - 1
        /\ IsFiniteSet(Dearer(S, price, i) \ {k})
    BY <1>2, <1>3, FS_RemoveElement
  <2>3. Cardinality(Dearer(S, price, k)) <= Cardinality(Dearer(S, price, i) \ {k})
    BY <2>1, <2>2, FS_Subset
  <2> QED
    BY <2>2, <2>3, <1>2
<1>4. ASSUME NEW i \in S, NEW k \in S, i # k
      PROVE  Cardinality(Dearer(S, price, i)) # Cardinality(Dearer(S, price, k))
  <2>1. i \in Nat /\ k \in Nat /\ price[i] \in Int /\ price[k] \in Int
    OBVIOUS
  <2>2. k \in Dearer(S, price, i) \/ i \in Dearer(S, price, k)
    BY <2>1, <1>4 DEF Dearer
  <2> QED
    BY <2>2, <1>2, <1>3
<1>5. rank \in [D -> 0 .. (n - 1)]
  <2>1. ASSUME NEW i \in D PROVE Cardinality(Dearer(S, price, i)) \in 0 .. (n - 1)
    <3>1. i \in S /\ Cardinality(Dearer(S, price, i)) < n
      BY <1>1
    <3>2. Cardinality(Dearer(S, price, i)) \in Nat
      BY <1>2, <3>1
    <3> QED
      BY <3>1, <3>2
  <2> QED
    BY <2>1
<1>6. rank \in Injection(D, 0 .. (n - 1))
  <2>1. \A i, k \in D : rank[i] = rank[k] => i = k
    <3>1. \A i \in D : i \in S /\ rank[i] = Cardinality(Dearer(S, price, i))
      BY <1>1
    <3> HIDE DEF rank
    <3> QED
      BY <1>4, <3>1
  <2> HIDE DEF rank
  <2> QED
    BY <1>5, <2>1 DEF Injection, IsInjective
<1>7. IsFiniteSet(0 .. (n - 1)) /\ Cardinality(0 .. (n - 1)) = n
  BY FS_Interval
<1> HIDE DEF rank, D
<1>8. Cardinality(D) <= Cardinality(0 .. (n - 1))
  BY <1>6, <1>7, FS_Injection
<1> QED
  BY <1>7, <1>8 DEF D

LEMMA DearestSome ==
    ASSUME NEW S, IsFiniteSet(S), S \subseteq Nat, S # {}, NEW n \in Nat, n > 0, NEW price,
           \A i \in S : price[i] \in Int
    PROVE  Dearest(S, n, price) # {}
<1> DEFINE P == {price[i] : i \in S}
<1>1. IsFiniteSet(P) /\ P \subseteq Int /\ P # {}
  BY ImageFinite
<1> HIDE DEF P
<1>2. Max(P) \in P /\ \A x \in P : x <= Max(P)
  BY <1>1, MaxOf
<1> DEFINE T == {i \in S : price[i] = Max(P)}
<1>3. T # {} /\ T \subseteq Nat
  BY <1>2 DEF P
<1>4. PICK m \in T : \A i \in T : m <= i
  BY <1>3, SmallestOf
<1>5. {j \in S : price[j] > price[m] \/ (price[j] = price[m] /\ j < m)} = {}
  <2>1. SUFFICES ASSUME NEW j \in S, price[j] > price[m] \/ (price[j] = price[m] /\ j < m)
                 PROVE  FALSE
    OBVIOUS
  <2>2. price[j] <= price[m] /\ price[j] \in Int /\ price[m] \in Int /\ j \in Nat /\ m \in Nat
    BY <1>2 DEF P
  <2>3. price[j] = price[m] /\ j < m
    BY <2>1, <2>2
  <2>4. j \in T
    BY <2>3
  <2>5. m <= j
    BY <1>4, <2>4
  <2> QED
    BY <2>2, <2>3, <2>5
<1>6. m \in Dearest(S, n, price)
  BY <1>5, FS_EmptySet DEF Dearest
<1> QED
  BY <1>6

\* What late packing chooses is among the slots offered.
LEMMA LatePackIn ==
    ASSUME NEW S, IsFiniteSet(S), S \subseteq Nat, NEW n, NEW price,
           \A i \in S : price[i] \in Int
    PROVE  LatePack(S, n, price) \subseteq S
<1> DEFINE Run(i) == i .. (i + n - 1)
           Cost(i) == SumFunction([j \in Run(i) |-> price[j]])
           Runs == {i \in S : Run(i) \subseteq S}
           Best == {i \in Runs : \A j \in Runs : Cost(i) <= Cost(j)}
<1>1. \A i \in Runs : Cost(i) \in Int
  <2>1. SUFFICES ASSUME NEW i \in Runs PROVE Cost(i) \in Int
    OBVIOUS
  <2>2. IsFiniteSet(Run(i)) /\ Run(i) \subseteq S
    BY FS_Subset
  <2> DEFINE f == [j \in Run(i) |-> price[j]]
  <2>3. \A j \in Run(i) : f[j] \in Int
    BY <2>2
  <2>4. DOMAIN f = Run(i)
    OBVIOUS
  <2> HIDE DEF f, Run
  <2>5. SumFunction(f) \in Int
    BY <2>2, <2>3, <2>4, SumInt DEF SumFunction
  <2> QED
    BY <2>5 DEF f
<1>2. ASSUME Runs # {} PROVE Best # {}
  <2> DEFINE c == [i \in Runs |-> Cost(i)]
             C == {c[i] : i \in Runs}
  <2>1. IsFiniteSet(Runs)
    BY FS_Subset
  <2> HIDE DEF Cost, Runs
  <2>2. C \subseteq Int /\ C # {}
    BY <1>1, <1>2
  <2>3. IsFiniteSet(C)
    <3> HIDE DEF c
    <3> QED
      BY <2>1, ImageFinite
  <2> HIDE DEF C
  <2>4. Min(C) \in C /\ \A x \in C : Min(C) <= x
    BY <2>2, <2>3, MinOf
  <2>5. PICK i \in Runs : c[i] = Min(C)
    BY <2>4 DEF C
  <2>6. \A j \in Runs : Cost(i) <= Cost(j)
    BY <2>4, <2>5 DEF C
  <2> QED
    BY <2>6
<1>3. ASSUME Runs # {} PROVE Run(Max(Best)) \subseteq S
  <2>1. Best \subseteq S /\ IsFiniteSet(Best) /\ Best \subseteq Int
    <3>1. Best \subseteq S
      OBVIOUS
    <3> HIDE DEF Best
    <3>2. IsFiniteSet(Best)
      BY <3>1, FS_Subset
    <3>3. Best \subseteq Int
      BY <3>1
    <3> QED
      BY <3>1, <3>2, <3>3
  <2>2. \A i \in Best : Run(i) \subseteq S
    OBVIOUS
  <2> HIDE DEF Best, Run
  <2> QED
    BY <1>2, <1>3, <2>1, <2>2, MaxOf
<1>4. Cheapest(S, n, price) \subseteq S
  BY DEF Cheapest
<1>5. LatePack(S, n, price) = IF n <= 0 THEN {} ELSE IF Runs # {} THEN Run(Max(Best))
                                                 ELSE Cheapest(S, n, price)
  BY DEF LatePack
<1> HIDE DEF Runs, Run, Best
<1> QED
  BY <1>3, <1>4, <1>5

-----------------------------------------------------------------------------
(* What a request and a plan look like, and what is true of every plan on  *)
(* its way through the passes.                                             *)

USE DEF Unset

Intents == {Charge, SelfUse, ForLoad, Hold, Export}

LEMMA IntentsDiffer ==
    /\ Charge # SelfUse /\ Charge # ForLoad /\ Charge # Hold /\ Charge # Export
    /\ SelfUse # ForLoad /\ SelfUse # Hold /\ SelfUse # Export
    /\ ForLoad # Hold /\ ForLoad # Export /\ Hold # Export
  BY DEF Charge, SelfUse, ForLoad, Hold, Export

Reasons ==
    {"no_trade", "self", "cheap", "peak", "keep", "evening", "shave", "paid", "trade", "must",
     "resident", "cap", "cycles", "savings", "stale", "catch_up", "superseded", "floor"}

SlotType ==
    [intent : Intents, target : Int, power : Int, floor : Int, deadline : Int, why : Reasons]

PlanType(q) ==
    [slots : [Slots(q) -> SlotType], strategy : {"winter", "summer", "trading", "auto"},
     target : Int, deadline : Int,
     pool : [state : {"none", "not_needed", "empty", "open", "cap"}, shortfall : Int]]

RequestOK(q) ==
    /\ q.now \in Nat /\ q.known \in Nat /\ q.now <= q.known
    /\ \A i \in Slots(q) : /\ q.price[i] \in Int /\ q.load[i] \in Nat /\ q.solar[i] \in Nat
                           /\ q.lowSolar[i] \in Nat \union {Unset}
    /\ q.soc \in 0 .. Usable /\ q.ev \in Nat
    /\ {q.mustTarget, q.resident} \subseteq {Unset} \union 0 .. Usable
    /\ {q.residentBy, q.bought, q.throughput, q.mustMax} \subseteq Int
    /\ {q.cap, q.cycles, q.trade.cap} \subseteq Nat

\* A later slot earns back what a purchase costs.
Pays(q, i) == \E d \in Slots(q) : d > i /\ WithinMaxBuy(q.price[i], ImportPrice(q, d))

\* A slot the validator lets pass; free: a catch-up may buy at any price.
SlotSound(q, i, s, strategy, free) ==
    /\ s.intent = Charge => /\ s.target \in Floor .. Usable /\ s.power = ChargeAC
                            /\ s.floor \in {Unset, Floor}
    /\ s.intent # Charge => s.power <= OutAC \/ (strategy = "summer" /\ Net(q, i) > OutAC)
    /\ s.intent = Export => s.power = OutAC /\ s.floor >= Floor
    /\ IsMustCharge(s) => s.intent = Charge /\ s.deadline # Unset /\ i < s.deadline
    /\ (i = q.now /\ strategy = "winter" /\ s.intent = Charge
          /\ (s.why = "cheap" \/ (s.why = "catch_up" /\ ~free))) => Pays(q, i)

ExportsFit(q, S) == q.trade.cap > 0 => Cardinality(S) * OutAC <= q.trade.cap

PlanSound(q, p, free) ==
    /\ p \in PlanType(q)
    /\ \A i \in Slots(q) : SlotSound(q, i, p.slots[i], p.strategy, free)
    /\ ExportsFit(q, With(p, Export))
    /\ p.target \in {Unset} \union Floor .. Usable

\* No slot has a floor of its own yet.
Plain(q, p) == \A i \in Slots(q) : p.slots[i].floor \in {Unset, Floor}

\* The day cap is kept on every day that charges.
CapKept(q, p) ==
    q.cap > 0 => \A d \in {Day(i) : i \in With(p, Charge)} :
        GridEnergy(q, p, {i \in With(p, Charge) : Day(i) = d}) <= DayBudget(q, d)

\* What a pass that takes charging out of a plan makes of it.
Thins(q, p, r, free) ==
    /\ PlanSound(q, r, free) /\ r.strategy = p.strategy
    /\ With(r, Charge) \subseteq With(p, Charge)
    /\ Plain(q, p) => Plain(q, r)

\* The fields of a plan's slot.
LEMMA SlotOf ==
    ASSUME NEW q, NEW p \in PlanType(q), NEW i \in Slots(q)
    PROVE  /\ DOMAIN p.slots = Slots(q) /\ p.slots[i] \in SlotType
           /\ p.slots[i].intent \in Intents /\ p.slots[i].target \in Int
           /\ p.slots[i].power \in Int /\ p.slots[i].floor \in Int
           /\ p.slots[i].deadline \in Int /\ p.slots[i].why \in Reasons
<1>1. p.slots \in [Slots(q) -> SlotType]
  BY DEF PlanType
<1>2. DOMAIN p.slots = Slots(q) /\ p.slots[i] \in SlotType
  BY <1>1
<1> QED
  BY <1>2 DEF SlotType

LEMMA WithIn ==
    ASSUME NEW q, NEW p \in PlanType(q), NEW intent
    PROVE  With(p, intent) = {i \in Slots(q) : p.slots[i].intent = intent}
<1>1. p.slots \in [Slots(q) -> SlotType]
  BY DEF PlanType
<1> QED
  BY <1>1 DEF With

LEMMA FewerExports ==
    ASSUME NEW q, NEW S, NEW T, IsFiniteSet(S), T \subseteq S, ExportsFit(q, S),
           q.trade.cap \in Nat
    PROVE  ExportsFit(q, T)
<1>1. Cardinality(T) \in Nat /\ Cardinality(S) \in Nat /\ Cardinality(T) <= Cardinality(S)
  BY FS_Subset, FS_CardinalityType
<1>2. Cardinality(T) * OutAC <= Cardinality(S) * OutAC
  BY <1>1, Constants
<1>3. Cardinality(T) * OutAC \in Int /\ Cardinality(S) * OutAC \in Int
  BY <1>1, Constants
<1> QED
  BY <1>2, <1>3 DEF ExportsFit

(* A plan with other slots is sound when the slots are.                    *)
LEMMA Reslotted ==
    ASSUME NEW q, RequestOK(q), NEW p, NEW free, PlanSound(q, p, free),
           NEW f \in [Slots(q) -> SlotType],
           \A i \in Slots(q) : SlotSound(q, i, f[i], p.strategy, free),
           \A i \in Slots(q) : f[i].intent = Export => p.slots[i].intent = Export
    PROVE  PlanSound(q, [p EXCEPT !.slots = f], free)
<1> DEFINE r == [p EXCEPT !.slots = f]
<1>1. p \in PlanType(q)
  BY DEF PlanSound
<1>2. r \in PlanType(q) /\ r.slots = f /\ r.strategy = p.strategy /\ r.target = p.target
  BY <1>1 DEF PlanType
<1>3. With(r, Export) \subseteq With(p, Export) /\ IsFiniteSet(With(p, Export))
  <2>1. With(p, Export) \subseteq Slots(q)
    BY <1>1, WithIn
  <2>2. IsFiniteSet(Slots(q))
    BY SlotsFinite DEF RequestOK
  <2> HIDE DEF r
  <2>3. /\ With(r, Export) = {i \in Slots(q) : f[i].intent = Export}
        /\ With(p, Export) = {i \in Slots(q) : p.slots[i].intent = Export}
    BY <1>1, <1>2, WithIn
  <2> QED
    BY <2>1, <2>2, <2>3, FS_Subset
<1>4. ExportsFit(q, With(r, Export))
  BY <1>3, FewerExports DEF PlanSound, RequestOK
<1> HIDE DEF r
<1> QED
  BY <1>2, <1>4 DEF PlanSound, r

\* A slot whose charging is refused for a reason is sound.
LEMMA RefusedSound ==
    ASSUME NEW q, NEW i, NEW s \in SlotType, NEW strategy, NEW free,
           SlotSound(q, i, s, strategy, free), NEW why \in {"cap", "cycles", "savings"}
    PROVE  /\ Refused(s, why) \in SlotType /\ SlotSound(q, i, Refused(s, why), strategy, free)
           /\ Refused(s, why).floor = s.floor /\ Refused(s, why).intent = SelfUse
<1> DEFINE r == Refused(s, why)
<1>1. /\ r \in SlotType /\ r.intent = SelfUse /\ r.power = Unset /\ r.why = why
      /\ r.floor = s.floor
  <2>1. SelfUse \in Intents
    BY DEF Intents
  <2>3. why \in Reasons
    BY DEF Reasons
  <2>2. r = [s EXCEPT !.intent = SelfUse, !.power = Unset, !.why = why]
    BY DEF Refused
  <2> HIDE DEF r
  <2> QED
    <3>1. r.intent = SelfUse
      BY <2>2 DEF SlotType
    <3>2. r.power = Unset
      BY <2>2 DEF SlotType
    <3>3. r.why = why
      BY <2>2 DEF SlotType
    <3>4. r.floor = s.floor
      BY <2>2 DEF SlotType
    <3>5. r \in SlotType
      <4> DEFINE a == [s EXCEPT !.intent = SelfUse]
                 b == [a EXCEPT !.power = Unset]
      <4>1. a \in SlotType
        BY <2>1 DEF SlotType
      <4> HIDE DEF a
      <4>2. b \in SlotType
        BY <4>1 DEF SlotType
      <4> HIDE DEF b
      <4>3. [b EXCEPT !.why = why] \in SlotType
        BY <4>2, <2>3 DEF SlotType
      <4> QED
        BY <2>2, <4>3 DEF a, b
    <3> QED
      BY <3>1, <3>2, <3>3, <3>4, <3>5
<1> HIDE DEF r
<1>2. SlotSound(q, i, r, strategy, free)
  BY <1>1, Constants, IntentsDiffer DEF SlotSound, IsMustCharge
<1> QED
  BY <1>1, <1>2 DEF r

\* Taking slots out of a plan thins it.
LEMMA WithoutThins ==
    ASSUME NEW q, RequestOK(q), NEW p, NEW free, PlanSound(q, p, free), NEW refused,
           NEW why \in {"cap", "cycles", "savings"}
    PROVE  /\ Thins(q, p, Without(p, refused, why), free)
           /\ Without(p, refused, why) \in PlanType(q)
           /\ \A i \in Slots(q) : Without(p, refused, why).slots[i]
                 = IF i \in refused THEN Refused(p.slots[i], why) ELSE p.slots[i]
<1> DEFINE f == [i \in DOMAIN p.slots |->
                   IF i \in refused THEN Refused(p.slots[i], why) ELSE p.slots[i]]
           r == [p EXCEPT !.slots = f]
<1>1. p \in PlanType(q) /\ DOMAIN p.slots = Slots(q)
  BY DEF PlanSound, PlanType
<1>2. \A i \in Slots(q) : p.slots[i] \in SlotType /\ SlotSound(q, i, p.slots[i], p.strategy, free)
  BY <1>1, SlotOf DEF PlanSound
<1>3. \A i \in Slots(q) : /\ f[i] \in SlotType /\ SlotSound(q, i, f[i], p.strategy, free)
                          /\ f[i].floor = p.slots[i].floor
                          /\ f[i].intent \in {SelfUse, p.slots[i].intent}
  <2>1. SUFFICES ASSUME NEW i \in Slots(q)
                 PROVE  /\ f[i] \in SlotType /\ SlotSound(q, i, f[i], p.strategy, free)
                        /\ f[i].floor = p.slots[i].floor
                        /\ f[i].intent \in {SelfUse, p.slots[i].intent}
    OBVIOUS
  <2>2. f[i] = IF i \in refused THEN Refused(p.slots[i], why) ELSE p.slots[i]
    BY <1>1
  <2> HIDE DEF f
  <2>3. /\ Refused(p.slots[i], why) \in SlotType
        /\ SlotSound(q, i, Refused(p.slots[i], why), p.strategy, free)
        /\ Refused(p.slots[i], why).floor = p.slots[i].floor
        /\ Refused(p.slots[i], why).intent = SelfUse
    <3>1. p.slots[i] \in SlotType /\ SlotSound(q, i, p.slots[i], p.strategy, free)
      BY <1>2
    <3> QED
      BY <3>1, RefusedSound
  <2> QED
    BY <1>2, <2>2, <2>3
<1>4. f \in [Slots(q) -> SlotType]
  BY <1>1, <1>3
<1> HIDE DEF f
<1>5. \A i \in Slots(q) : f[i].intent = Export => p.slots[i].intent = Export
  BY <1>3, IntentsDiffer
<1>6. PlanSound(q, r, free)
  BY <1>3, <1>4, <1>5, Reslotted
<1>7. r.slots = f /\ r.strategy = p.strategy /\ r \in PlanType(q)
  BY <1>1, <1>4 DEF PlanType
<1>8. With(r, Charge) \subseteq With(p, Charge)
  <2> HIDE DEF r
  <2>1. /\ With(r, Charge) = {i \in Slots(q) : f[i].intent = Charge}
        /\ With(p, Charge) = {i \in Slots(q) : p.slots[i].intent = Charge}
    BY <1>1, <1>7, WithIn
  <2> QED
    BY <1>3, <2>1, IntentsDiffer
<1>9. Plain(q, p) => Plain(q, r)
  BY <1>3, <1>7 DEF Plain
<1>10. Without(p, refused, why) = r
  BY DEF Without, r, f
<1> HIDE DEF r
<1>11. \A i \in Slots(q) : f[i] = IF i \in refused THEN Refused(p.slots[i], why) ELSE p.slots[i]
  BY <1>1 DEF f
<1> QED
  BY <1>6, <1>7, <1>8, <1>9, <1>10, <1>11 DEF Thins

-----------------------------------------------------------------------------
(* The passes that take charging out of a plan.                            *)

LEMMA Charging ==
    ASSUME NEW q, NEW p, NEW free, PlanSound(q, p, free), NEW i \in With(p, Charge)
    PROVE  i \in Slots(q) /\ p.slots[i].power = ChargeAC /\ p.slots[i].intent = Charge
  BY WithIn DEF PlanSound, SlotSound

LEMMA WithFinite ==
    ASSUME NEW q, RequestOK(q), NEW p, NEW free, PlanSound(q, p, free), NEW intent
    PROVE  IsFiniteSet(With(p, intent)) /\ With(p, intent) \subseteq Slots(q)
<1>1. With(p, intent) \subseteq Slots(q)
  BY WithIn DEF PlanSound
<1>2. IsFiniteSet(Slots(q))
  BY SlotsFinite DEF RequestOK
<1> QED
  BY <1>1, <1>2, FS_Subset

\* Fewer slots of charging take less from the grid.
LEMMA EnergyBelow ==
    ASSUME NEW q, RequestOK(q), NEW free, NEW p, PlanSound(q, p, free),
           NEW r, PlanSound(q, r, free),
           NEW S, S \subseteq With(p, Charge), NEW T, T \subseteq S, T \subseteq With(r, Charge)
    PROVE  /\ GridEnergy(q, r, T) <= GridEnergy(q, p, S)
           /\ GridEnergy(q, r, T) \in Int /\ GridEnergy(q, p, S) \in Int
<1> DEFINE f == [i \in S |-> Ahead(q, i, p.slots[i].power)]
           g == [i \in T |-> Ahead(q, i, r.slots[i].power)]
<1>1. \A i \in S : f[i] = Ahead(q, i, ChargeAC)
  BY Charging
<1>2. \A i \in T : g[i] = Ahead(q, i, ChargeAC)
  BY Charging
<1>3. \A i \in S : f[i] \in Nat
  BY <1>1, Constants, AheadType
<1>4. \A i \in T : g[i] \in Nat /\ g[i] <= f[i]
  BY <1>1, <1>2, <1>3
<1>5. IsFiniteSet(S) /\ IsFiniteSet(T) /\ T \in SUBSET S
  BY WithFinite, FS_Subset
<1>6. DOMAIN f = S /\ DOMAIN g = T
  OBVIOUS
<1> HIDE DEF f, g
<1>7. SumFunctionOnSet(g, T) <= SumFunctionOnSet(f, S)
  BY <1>3, <1>4, <1>5, SumMonotone
<1>8. SumFunctionOnSet(f, S) \in Int /\ SumFunctionOnSet(g, T) \in Int
  BY <1>3, <1>4, <1>5, SumNat
<1>9. GridEnergy(q, p, S) = SumFunctionOnSet(f, S) /\ GridEnergy(q, r, T) = SumFunctionOnSet(g, T)
  BY <1>6 DEF GridEnergy, SumFunction, f, g
<1> QED
  BY <1>7, <1>8, <1>9

LEMMA BudgetType ==
    ASSUME NEW q, RequestOK(q), NEW d
    PROVE  DayBudget(q, d) \in Int
  BY DEF RequestOK, DayBudget

\* A plan that charges less keeps a day cap that was kept.
LEMMA CapStays ==
    ASSUME NEW q, RequestOK(q), NEW free, NEW p, PlanSound(q, p, free), CapKept(q, p),
           NEW r, PlanSound(q, r, free), With(r, Charge) \subseteq With(p, Charge)
    PROVE  CapKept(q, r)
<1>1. SUFFICES ASSUME q.cap > 0, NEW c \in With(r, Charge)
               PROVE  GridEnergy(q, r, {i \in With(r, Charge) : Day(i) = Day(c)})
                        <= DayBudget(q, Day(c))
  BY DEF CapKept
<1> DEFINE S == {i \in With(p, Charge) : Day(i) = Day(c)}
           T == {i \in With(r, Charge) : Day(i) = Day(c)}
<1>2. GridEnergy(q, p, S) <= DayBudget(q, Day(c))
  BY <1>1 DEF CapKept
<1>3. S \subseteq With(p, Charge) /\ T \subseteq S /\ T \subseteq With(r, Charge)
  OBVIOUS
<1> HIDE DEF S, T
<1>4. /\ GridEnergy(q, r, T) <= GridEnergy(q, p, S)
      /\ GridEnergy(q, r, T) \in Int /\ GridEnergy(q, p, S) \in Int
  BY <1>3, EnergyBelow
<1>5. GridEnergy(q, r, T) <= DayBudget(q, Day(c))
  BY <1>2, <1>4, BudgetType
<1> QED
  BY <1>5 DEF T

LEMMA ThinsRefl ==
    ASSUME NEW q, NEW free, NEW p, PlanSound(q, p, free)
    PROVE  Thins(q, p, p, free)
  BY DEF Thins

LEMMA ClampedPlan ==
    ASSUME NEW q, NEW p \in PlanType(q), NEW free, PlanSound(q, p, free)
    PROVE  LET r == [p EXCEPT !.pool.state = "cap"]
           IN  /\ r \in PlanType(q) /\ r.slots = p.slots /\ r.strategy = p.strategy
               /\ r.target = p.target /\ PlanSound(q, r, free)
               /\ \A intent : With(r, intent) = With(p, intent)
<1> DEFINE r == [p EXCEPT !.pool.state = "cap"]
<1>1. r \in PlanType(q) /\ r.slots = p.slots /\ r.strategy = p.strategy /\ r.target = p.target
  BY DEF PlanType
<1> HIDE DEF r
<1>2. \A intent : With(r, intent) = With(p, intent)
  BY <1>1 DEF With
<1>3. PlanSound(q, r, free)
  BY <1>1, <1>2 DEF PlanSound
<1> QED
  BY <1>1, <1>2, <1>3 DEF r

\* What is left of the charging of a day stays under the day's budget.
LEMMA ClampGridChargeThins ==
    ASSUME NEW q, RequestOK(q), NEW p, NEW free, PlanSound(q, p, free)
    PROVE  Thins(q, p, ClampGridCharge(q, p), free) /\ CapKept(q, ClampGridCharge(q, p))
<1> DEFINE C == With(p, Charge)
           UpTo(i) == GridEnergy(q, p, {j \in C : j <= i /\ Day(j) = Day(i)})
           Over == {i \in C : UpTo(i) > DayBudget(q, Day(i))}
           capped == Without(p, Over, "cap")
           r == ClampGridCharge(q, p)
<1>1. /\ r = IF q.cap <= 0 \/ Over = {} THEN p
             ELSE IF p.pool = NoPool THEN capped ELSE [capped EXCEPT !.pool.state = "cap"]
  BY DEF ClampGridCharge
<1> HIDE DEF Over
<1>2. /\ Thins(q, p, capped, free) /\ capped \in PlanType(q)
      /\ \A i \in Slots(q) : capped.slots[i] = IF i \in Over THEN Refused(p.slots[i], "cap")
                                               ELSE p.slots[i]
  BY WithoutThins
<1> HIDE DEF capped, r
<1>3. Thins(q, p, r, free) /\ (r = p \/ (\A intent : With(r, intent) = With(capped, intent)))
  <2>1. CASE r = p
    BY <2>1, ThinsRefl
  <2>2. CASE r = capped
    BY <2>2, <1>2
  <2>3. CASE r = [capped EXCEPT !.pool.state = "cap"]
    <3>1. PlanSound(q, capped, free)
      BY <1>2 DEF Thins
    <3>2. /\ r \in PlanType(q) /\ r.slots = capped.slots /\ r.strategy = capped.strategy
          /\ PlanSound(q, r, free) /\ \A intent : With(r, intent) = With(capped, intent)
      BY <1>2, <2>3, <3>1, ClampedPlan
    <3> QED
      BY <1>2, <3>2 DEF Thins, Plain
  <2> QED
    BY <1>1, <2>1, <2>2, <2>3
<1>4. ASSUME q.cap > 0 PROVE With(r, Charge) \cap Over = {}
  <2>1. CASE Over = {}
    BY <2>1
  <2>2. CASE Over # {}
    <3>1. r # p \/ r = p
      OBVIOUS
    <3>2. ~(q.cap <= 0)
      BY <1>4 DEF RequestOK
    <3>3. With(r, Charge) = With(capped, Charge)
      <4>1. CASE r = capped
        BY <4>1
      <4>2. CASE r = [capped EXCEPT !.pool.state = "cap"]
        <5>1. PlanSound(q, capped, free)
          BY <1>2 DEF Thins
        <5> QED
          BY <1>2, <4>2, <5>1, ClampedPlan
      <4> QED
        BY <1>1, <2>2, <3>2, <4>1, <4>2
    <3>4. \A i \in Over : i \in Slots(q) => capped.slots[i].intent = SelfUse
      <4>1. SUFFICES ASSUME NEW i \in Over, i \in Slots(q)
                     PROVE  capped.slots[i].intent = SelfUse
        OBVIOUS
      <4>2. p.slots[i] \in SlotType /\ SlotSound(q, i, p.slots[i], p.strategy, free)
        BY <4>1, SlotOf DEF PlanSound
      <4>3. capped.slots[i] = Refused(p.slots[i], "cap")
        BY <1>2, <4>1
      <4> QED
        BY <4>2, <4>3, RefusedSound
    <3>5. With(capped, Charge) = {i \in Slots(q) : capped.slots[i].intent = Charge}
      BY <1>2, WithIn
    <3> QED
      BY <3>3, <3>4, <3>5, IntentsDiffer
  <2> QED
    BY <2>1, <2>2
<1>5. ASSUME q.cap > 0, NEW c \in With(r, Charge)
      PROVE  GridEnergy(q, r, {i \in With(r, Charge) : Day(i) = Day(c)}) <= DayBudget(q, Day(c))
  <2> DEFINE T == {i \in With(r, Charge) : Day(i) = Day(c)}
             m == Max(T)
             S == {j \in C : j <= m /\ Day(j) = Day(m)}
  <2>1. PlanSound(q, r, free) /\ With(r, Charge) \subseteq C
    BY <1>3 DEF Thins
  <2>2. T \subseteq With(r, Charge) /\ c \in T /\ IsFiniteSet(T) /\ T \subseteq Int
    <3>1. T \subseteq With(r, Charge) /\ c \in T
      OBVIOUS
    <3>2. IsFiniteSet(With(r, Charge)) /\ With(r, Charge) \subseteq Slots(q)
      BY <2>1, WithFinite
    <3>3. Slots(q) \subseteq Int
      BY SlotsFinite DEF RequestOK
    <3> HIDE DEF T
    <3>4. IsFiniteSet(T)
      BY <3>1, <3>2, FS_Subset
    <3> QED
      BY <3>1, <3>2, <3>3, <3>4
  <2> HIDE DEF T
  <2>3. m \in T /\ \A i \in T : i <= m
    BY <2>2, MaxOf
  <2> HIDE DEF m
  <2>4. Day(m) = Day(c) /\ \A i \in T : Day(i) = Day(c)
    BY <2>3 DEF T
  <2>5. m \in C /\ m \notin Over
    BY <1>4, <1>5, <2>1, <2>2, <2>3
  <2>6. S \subseteq C /\ T \subseteq S
    BY <2>1, <2>2, <2>3, <2>4
  <2>7. /\ GridEnergy(q, r, T) <= GridEnergy(q, p, S)
        /\ GridEnergy(q, r, T) \in Int /\ GridEnergy(q, p, S) \in Int
    <3> HIDE DEF S
    <3> QED
      BY <2>1, <2>2, <2>6, EnergyBelow
  <2>8. ~(GridEnergy(q, p, S) > DayBudget(q, Day(m)))
    BY <2>5 DEF Over
  <2> HIDE DEF S
  <2>9. GridEnergy(q, r, T) <= DayBudget(q, Day(c))
    BY <2>4, <2>7, <2>8, BudgetType
  <2> QED
    BY <2>9 DEF T
<1>6. CapKept(q, r)
  BY <1>5 DEF CapKept
<1> QED
  BY <1>3, <1>6 DEF r

\* The cycle clamp thins a plan (base.py, clamp_cycle_budget).
LEMMA ClampCycleBudgetThins ==
    ASSUME NEW q, RequestOK(q), NEW p, NEW free, PlanSound(q, p, free)
    PROVE  /\ Thins(q, p, ClampCycleBudget(q, p), free)
           /\ CapKept(q, p) => CapKept(q, ClampCycleBudget(q, p))
<1>1. PICK S : ClampCycleBudget(q, p) = Without(p, S, "cycles")
  BY DEF ClampCycleBudget
<1>2. Thins(q, p, Without(p, S, "cycles"), free)
  BY WithoutThins
<1> QED
  BY <1>1, <1>2, CapStays DEF Thins

\* The minimum-savings floor thins a plan too (economics.py).
LEMMA SavingsFloorThins ==
    ASSUME NEW q, RequestOK(q), NEW p, NEW free, PlanSound(q, p, free)
    PROVE  /\ Thins(q, p, SavingsFloor(q, p), free)
           /\ CapKept(q, p) => CapKept(q, SavingsFloor(q, p))
<1>1. PICK S : SavingsFloor(q, p) = p \/ SavingsFloor(q, p) = Without(p, S, "savings")
  BY DEF SavingsFloor
<1>2. Thins(q, p, Without(p, S, "savings"), free) /\ Thins(q, p, p, free)
  BY WithoutThins, ThinsRefl
<1> QED
  BY <1>1, <1>2, CapStays DEF Thins

-----------------------------------------------------------------------------
(* The passes that put charging into a plan.                               *)

LEMMA SoundWhen ==
    ASSUME NEW q, RequestOK(q), NEW p, NEW free, PlanSound(q, p, free), NEW r \in PlanType(q),
           r.target \in {Unset} \union Floor .. Usable,
           \A i \in Slots(q) : SlotSound(q, i, r.slots[i], r.strategy, free),
           \A i \in Slots(q) : r.slots[i].intent = Export => p.slots[i].intent = Export
    PROVE  PlanSound(q, r, free)
<1>1. /\ With(r, Export) = {i \in Slots(q) : r.slots[i].intent = Export}
      /\ With(p, Export) = {i \in Slots(q) : p.slots[i].intent = Export}
  BY WithIn DEF PlanSound
<1>2. IsFiniteSet(With(p, Export)) /\ With(r, Export) \subseteq With(p, Export)
  BY <1>1, WithFinite
<1>3. ExportsFit(q, With(r, Export))
  BY <1>2, FewerExports DEF PlanSound, RequestOK
<1> QED
  BY <1>3 DEF PlanSound

Retargeted(p, target, deadline, f) ==
    [p EXCEPT !.target = target, !.deadline = deadline, !.slots = f]

LEMMA RetargetedType ==
    ASSUME NEW q, NEW p \in PlanType(q), NEW f \in [Slots(q) -> SlotType],
           NEW target \in Int, NEW deadline \in Int
    PROVE  /\ Retargeted(p, target, deadline, f) \in PlanType(q)
           /\ Retargeted(p, target, deadline, f).slots = f
           /\ Retargeted(p, target, deadline, f).target = target
           /\ Retargeted(p, target, deadline, f).deadline = deadline
           /\ Retargeted(p, target, deadline, f).strategy = p.strategy
<1> DEFINE a == [p EXCEPT !.target = target]
           b == [a EXCEPT !.deadline = deadline]
           r == [b EXCEPT !.slots = f]
<1>1. a \in PlanType(q) /\ a.target = target /\ a.strategy = p.strategy
  BY DEF PlanType
<1> HIDE DEF a
<1>2. b \in PlanType(q) /\ b.target = target /\ b.strategy = p.strategy /\ b.deadline = deadline
  BY <1>1 DEF PlanType
<1> HIDE DEF b
<1>3. /\ r \in PlanType(q) /\ r.slots = f /\ r.target = target
      /\ r.deadline = deadline /\ r.strategy = p.strategy
  BY <1>2 DEF PlanType
<1> QED
  BY <1>3 DEF a, b, Retargeted

LEMMA FillBeforeIn ==
    ASSUME NEW q, RequestOK(q), NEW target, NEW deadline, NEW maxPrice,
           NEW i \in FillBefore(q, target, deadline, maxPrice)
    PROVE  i \in Slots(q) /\ i < deadline /\ ~(target < Floor)
<1> DEFINE S == {k \in Slots(q) : k < deadline /\ q.price[k] <= maxPrice}
           n == Slices(target - Greater(Floor, q.soc))
<1>1. IsFiniteSet(Slots(q)) /\ Slots(q) \subseteq Nat
  BY SlotsFinite DEF RequestOK
<1>2. S \subseteq Slots(q) /\ \A k \in S : k < deadline
  OBVIOUS
<1>3. ~(target < Floor) /\ i \in LatePack(S, n, q.price)
  BY DEF FillBefore
<1> HIDE DEF S, n
<1>4. IsFiniteSet(S) /\ S \subseteq Nat /\ \A k \in S : q.price[k] \in Int
  BY <1>1, <1>2, FS_Subset DEF RequestOK
<1>5. LatePack(S, n, q.price) \subseteq S
  BY <1>4, LatePackIn
<1> QED
  BY <1>2, <1>3, <1>5

\* A slot that is made to charge is sound when its target is.
LEMMA ChargeSlotSound ==
    ASSUME NEW q, NEW i \in Nat, NEW s \in SlotType, NEW strategy, NEW free,
           s.floor \in {Unset, Floor}, NEW target \in Floor .. Usable,
           NEW deadline \in Int, i < deadline, NEW why \in {"must", "resident"}
    PROVE  LET c == ChargeSlot(s, target, deadline, why)
           IN  /\ c \in SlotType /\ SlotSound(q, i, c, strategy, free)
               /\ c.floor = Floor /\ c.intent = Charge
<1> DEFINE c == ChargeSlot(s, target, deadline, why)
<1>1. /\ c.intent = Charge /\ c.target = target /\ c.power = ChargeAC /\ c.floor = Floor
      /\ c.deadline = deadline /\ c.why = why
  BY DEF ChargeSlot
<1>2. why \in Reasons /\ Charge \in Intents /\ target \in Int /\ ChargeAC \in Int /\ Floor \in Int
  BY Constants DEF Reasons, Intents
<1>3. c \in SlotType
  <2>1. (IF s.floor # Unset THEN s.floor ELSE Floor) = Floor
    OBVIOUS
  <2> QED
    BY <1>2, <2>1 DEF ChargeSlot, SlotType
<1> HIDE DEF c
<1>4. deadline # Unset
  OBVIOUS
<1>5. SlotSound(q, i, c, strategy, free)
  BY <1>1, <1>4, Constants, IntentsDiffer DEF SlotSound, IsMustCharge
<1> QED
  BY <1>1, <1>3, <1>5 DEF c

\* The slots of a precaution put into a plan.
FillIn(p, S, target, deadline, why) ==
    [i \in DOMAIN p.slots |->
        IF i \in S THEN ChargeSlot(p.slots[i], target, deadline, why) ELSE p.slots[i]]

\* Slots filled in leave a plan sound.
LEMMA FillInSound ==
    ASSUME NEW q, RequestOK(q), NEW p, NEW free, PlanSound(q, p, free), Plain(q, p),
           NEW S, NEW target \in Int, NEW deadline \in Int, NEW why \in {"must", "resident"},
           \A i \in S : i < deadline /\ target \in Floor .. Usable
    PROVE  /\ FillIn(p, S, target, deadline, why) \in [Slots(q) -> SlotType]
           /\ \A i \in Slots(q) :
                /\ SlotSound(q, i, FillIn(p, S, target, deadline, why)[i], p.strategy, free)
                /\ FillIn(p, S, target, deadline, why)[i].floor \in {Unset, Floor}
                /\ FillIn(p, S, target, deadline, why)[i].intent = Export
                     => p.slots[i].intent = Export
<1> DEFINE f == FillIn(p, S, target, deadline, why)
<1>1. p \in PlanType(q) /\ DOMAIN p.slots = Slots(q) /\ Slots(q) \subseteq Nat
  BY SlotsFinite DEF PlanSound, PlanType, RequestOK
<1>2. ASSUME NEW i \in Slots(q)
      PROVE  /\ f[i] \in SlotType /\ SlotSound(q, i, f[i], p.strategy, free)
             /\ f[i].floor \in {Unset, Floor}
             /\ f[i].intent = Export => p.slots[i].intent = Export
  <2>1. f[i] = IF i \in S THEN ChargeSlot(p.slots[i], target, deadline, why) ELSE p.slots[i]
    BY <1>1 DEF FillIn
  <2> HIDE DEF f
  <2>2. /\ p.slots[i] \in SlotType /\ SlotSound(q, i, p.slots[i], p.strategy, free)
        /\ p.slots[i].floor \in {Unset, Floor} /\ i \in Nat
    BY <1>1, SlotOf DEF PlanSound, Plain
  <2>3. CASE i \in S
    <3>1. f[i] = ChargeSlot(p.slots[i], target, deadline, why)
      BY <2>1, <2>3
    <3>2. i < deadline /\ target \in Floor .. Usable
      BY <2>3
    <3>3. /\ f[i] \in SlotType /\ SlotSound(q, i, f[i], p.strategy, free)
          /\ f[i].floor = Floor /\ f[i].intent = Charge
      BY <2>2, <3>1, <3>2, ChargeSlotSound
    <3> QED
      BY <3>3, IntentsDiffer
  <2>4. CASE i \notin S
    BY <2>1, <2>2, <2>4
  <2> QED
    BY <2>3, <2>4
<1>3. f \in [Slots(q) -> SlotType]
  BY <1>1, <1>2 DEF FillIn
<1> HIDE DEF f
<1>4. \A i \in Slots(q) : /\ SlotSound(q, i, f[i], p.strategy, free)
                          /\ f[i].floor \in {Unset, Floor}
                          /\ f[i].intent = Export => p.slots[i].intent = Export
  BY <1>2
<1> QED
  BY <1>3, <1>4 DEF f

\* The must-charge pass leaves a plan sound: its slots lie before their
\* deadline (must_charge.py).
LEMMA MustChargeSound ==
    ASSUME NEW q, RequestOK(q), NEW p, NEW free, PlanSound(q, p, free), Plain(q, p)
    PROVE  /\ PlanSound(q, ApplyMustCharge(q, p), free) /\ Plain(q, ApplyMustCharge(q, p))
           /\ ApplyMustCharge(q, p).strategy = p.strategy
<1> DEFINE peaks == PrecautionPeaks(q, p)
           deadline == Min(peaks)
           target == Greater(Floor, q.mustTarget)
           starts == IF q.mustTarget = Unset \/ peaks = {} THEN {}
                     ELSE FillBefore(q, target, deadline, q.mustMax)
           f == FillIn(p, starts, target, deadline, "must")
           r == Retargeted(p, target, deadline, f)
<1>1. ApplyMustCharge(q, p) = IF starts = {} THEN p ELSE r
  BY DEF ApplyMustCharge, FillIn, Retargeted
<1>2. CASE starts = {}
  BY <1>1, <1>2
<1>3. CASE starts # {}
  <2>1. q.mustTarget \in 0 .. Usable /\ peaks # {}
    BY <1>3 DEF RequestOK
  <2>2. deadline \in Int
    <3>1. peaks \subseteq With(p, ForLoad)
      BY DEF PrecautionPeaks
    <3>2. IsFiniteSet(With(p, ForLoad)) /\ With(p, ForLoad) \subseteq Slots(q)
      BY WithFinite
    <3>3. Slots(q) \subseteq Int
      BY SlotsFinite DEF RequestOK
    <3> HIDE DEF peaks
    <3>4. IsFiniteSet(peaks) /\ peaks \subseteq Int
      BY <3>1, <3>2, <3>3, FS_Subset
    <3> QED
      BY <2>1, <3>4, MinOf
  <2>3. target \in Floor .. Usable /\ target \in Int
    BY <2>1, Constants DEF Greater
  <2> HIDE DEF deadline, target
  <2>4. starts = FillBefore(q, target, deadline, q.mustMax)
    BY <1>3
  <2> HIDE DEF starts
  <2>5. \A i \in starts : i < deadline
    BY <2>4, FillBeforeIn
  <2>6. p \in PlanType(q)
    BY DEF PlanSound
  <2>7. /\ f \in [Slots(q) -> SlotType]
        /\ \A i \in Slots(q) : /\ SlotSound(q, i, f[i], p.strategy, free)
                               /\ f[i].floor \in {Unset, Floor}
                               /\ f[i].intent = Export => p.slots[i].intent = Export
    BY <2>2, <2>3, <2>5, FillInSound
  <2> HIDE DEF f
  <2>8. /\ r \in PlanType(q) /\ r.slots = f /\ r.target = target /\ r.strategy = p.strategy
    BY <2>2, <2>3, <2>6, <2>7, RetargetedType
  <2> HIDE DEF r
  <2>9. PlanSound(q, r, free)
    BY <2>3, <2>7, <2>8, SoundWhen
  <2>10. Plain(q, r)
    BY <2>7, <2>8 DEF Plain
  <2> QED
    BY <1>1, <1>3, <2>8, <2>9, <2>10
<1> QED
  BY <1>2, <1>3

\* The resident's override leaves a plan sound.
LEMMA ResidentSound ==
    ASSUME NEW q, RequestOK(q), NEW p, NEW free, PlanSound(q, p, free), Plain(q, p)
    PROVE  /\ PlanSound(q, ApplyResidentOverlay(q, p), free)
           /\ Plain(q, ApplyResidentOverlay(q, p))
           /\ ApplyResidentOverlay(q, p).strategy = p.strategy
<1> DEFINE starts == IF q.resident = Unset THEN {}
                     ELSE FillBefore(q, q.resident, q.residentBy, q.mustMax)
           f == FillIn(p, starts, q.resident, q.residentBy, "resident")
           r == [p EXCEPT !.slots = f]
<1>1. ApplyResidentOverlay(q, p) = r
  BY DEF ApplyResidentOverlay, FillIn
<1>2. ASSUME NEW i \in starts PROVE i < q.residentBy /\ q.resident \in Floor .. Usable
  <2>1. q.resident # Unset /\ i \in FillBefore(q, q.resident, q.residentBy, q.mustMax)
    BY <1>2
  <2>2. i < q.residentBy /\ ~(q.resident < Floor)
    BY <2>1, FillBeforeIn
  <2>3. q.resident \in 0 .. Usable
    BY <2>1 DEF RequestOK
  <2> QED
    BY <2>2, <2>3, Constants
<1>3. q.resident \in Int /\ q.residentBy \in Int
  BY Constants DEF RequestOK
<1> HIDE DEF starts
<1>4. /\ f \in [Slots(q) -> SlotType]
      /\ \A i \in Slots(q) : /\ SlotSound(q, i, f[i], p.strategy, free)
                             /\ f[i].floor \in {Unset, Floor}
                             /\ f[i].intent = Export => p.slots[i].intent = Export
  BY <1>2, <1>3, FillInSound
<1> HIDE DEF f
<1>5. PlanSound(q, r, free)
  BY <1>4, Reslotted
<1>6. r.slots = f /\ r.strategy = p.strategy
  BY <1>4 DEF PlanSound, PlanType
<1> HIDE DEF r
<1> QED
  BY <1>1, <1>4, <1>5, <1>6 DEF Plain

-----------------------------------------------------------------------------
(* The seasons' plans.                                                     *)

LEMMA SlotMade ==
    ASSUME NEW intent \in Intents, NEW target \in Int, NEW power \in Int, NEW floor \in Int,
           NEW deadline \in Int, NEW why \in Reasons
    PROVE  LET s == Slot(intent, target, power, floor, deadline, why)
           IN  /\ s \in SlotType /\ s.intent = intent /\ s.target = target /\ s.power = power
               /\ s.floor = floor /\ s.deadline = deadline /\ s.why = why
  BY DEF Slot, SlotType

\* A slot that neither charges nor exports asks for nothing the validator minds.
LEMMA QuietSound ==
    ASSUME NEW q, NEW i, NEW s, NEW strategy, NEW free,
           s.intent # Charge, s.intent # Export, s.why \notin {"must", "resident"},
           s.power <= OutAC \/ (strategy = "summer" /\ Net(q, i) > OutAC)
    PROVE  SlotSound(q, i, s, strategy, free)
  BY DEF SlotSound, IsMustCharge

LEMMA BuiltSound ==
    ASSUME NEW q, RequestOK(q), NEW free, NEW r \in PlanType(q),
           r.target \in {Unset} \union Floor .. Usable,
           \A i \in Slots(q) : SlotSound(q, i, r.slots[i], r.strategy, free)
                               /\ r.slots[i].intent # Export
    PROVE  PlanSound(q, r, free)
<1>1. With(r, Export) = {}
  BY WithIn
<1>2. Cardinality(With(r, Export)) * OutAC = 0
  BY <1>1, FS_EmptySet, Constants
<1>3. ExportsFit(q, With(r, Export))
  BY <1>2 DEF ExportsFit, RequestOK
<1> QED
  BY <1>3 DEF PlanSound

\* The plan without trades is sound.
LEMMA AllAutoSound ==
    ASSUME NEW q, RequestOK(q), NEW free
    PROVE  /\ PlanSound(q, AllAuto(q), free) /\ Plain(q, AllAuto(q))
           /\ AllAuto(q).strategy = "winter"
<1> DEFINE s == Slot(SelfUse, Unset, Unset, Unset, Unset, "no_trade")
           r == AllAuto(q)
<1>1. /\ s \in SlotType /\ s.intent = SelfUse /\ s.power = Unset /\ s.floor = Unset
      /\ s.why = "no_trade"
  <2>1. SelfUse \in Intents /\ "no_trade" \in Reasons
    BY DEF Intents, Reasons
  <2> QED
    BY <2>1, SlotMade
<1> HIDE DEF s
<1>2. r = [slots |-> [i \in Slots(q) |-> s], strategy |-> "winter", target |-> Unset,
           deadline |-> Unset, pool |-> NoPool]
  BY DEF AllAuto, s
<1> HIDE DEF r
<1>3. /\ r \in PlanType(q) /\ r.strategy = "winter" /\ r.target = Unset
      /\ r.slots = [i \in Slots(q) |-> s]
  BY <1>1, <1>2 DEF PlanType, NoPool
<1>4. SlotSound(q, 0, s, "winter", free) /\ \A i : SlotSound(q, i, s, "winter", free)
  BY <1>1, IntentsDiffer, Constants, QuietSound
<1>5. \A i \in Slots(q) : SlotSound(q, i, r.slots[i], r.strategy, free)
                          /\ r.slots[i].intent # Export
  BY <1>1, <1>3, <1>4, IntentsDiffer
<1>6. PlanSound(q, r, free)
  BY <1>3, <1>5, BuiltSound
<1>7. Plain(q, r)
  BY <1>1, <1>3 DEF Plain
<1> QED
  BY <1>3, <1>6, <1>7 DEF r

\* The evening's reserve only turns discharging into holding.
LEMMA HeldSound ==
    ASSUME NEW q, NEW i, NEW s \in SlotType, NEW strategy, NEW free, s.intent = ForLoad,
           SlotSound(q, i, s, strategy, free)
    PROVE  LET h == [s EXCEPT !.intent = Hold, !.why = "evening"]
           IN  /\ h \in SlotType /\ SlotSound(q, i, h, strategy, free)
               /\ h.floor = s.floor /\ h.intent = Hold
<1> DEFINE a == [s EXCEPT !.intent = Hold]
           h == [a EXCEPT !.why = "evening"]
<1>1. Hold \in Intents /\ "evening" \in Reasons
  BY DEF Intents, Reasons
<1>2. a \in SlotType /\ a.intent = Hold /\ a.floor = s.floor /\ a.power = s.power
  BY <1>1 DEF SlotType
<1> HIDE DEF a
<1>3. /\ h \in SlotType /\ h.intent = Hold /\ h.floor = s.floor /\ h.power = s.power
      /\ h.why = "evening"
  BY <1>1, <1>2 DEF SlotType
<1>4. s.power <= OutAC \/ (strategy = "summer" /\ Net(q, i) > OutAC)
  BY IntentsDiffer DEF SlotSound
<1> HIDE DEF h
<1>5. SlotSound(q, i, h, strategy, free)
  BY <1>3, <1>4, IntentsDiffer, QuietSound
<1> QED
  BY <1>3, <1>5 DEF h, a

\* Keeping the evening's reserve only puts slots on hold, never on charge
\* (adaptive.py and rule_based.py, the evening reserve).
LEMMA EveningReserveSound ==
    ASSUME NEW q, RequestOK(q), NEW p, NEW free, PlanSound(q, p, free), Plain(q, p), NEW out
    PROVE  /\ PlanSound(q, EveningReserve(q, p, out), free) /\ Plain(q, EveningReserve(q, p, out))
           /\ EveningReserve(q, p, out).strategy = p.strategy
<1> DEFINE evening == EveningSlots(p)
           need == EveningNeed(q, p, out)
           target == IF p.target = Unset THEN Usable ELSE p.target
           After1(i, s) == After(p.slots[i].intent, s, q.load[i], target, out)
           Spares(i, s) == i \in With(p, ForLoad) /\ i < Min(evening) /\ q.load[i] > 0
                           /\ TouchesReserve(s, After1(i, s), need)
           level[i \in (q.now - 1) .. q.known] ==
               IF i < q.now THEN q.soc
               ELSE IF Spares(i, level[i - 1]) THEN level[i - 1] ELSE After1(i, level[i - 1])
           f == [i \in DOMAIN p.slots |->
                   IF Spares(i, level[i - 1])
                   THEN [p.slots[i] EXCEPT !.intent = Hold, !.why = "evening"] ELSE p.slots[i]]
           r == [p EXCEPT !.slots = f]
<1>1. EveningReserve(q, p, out) = IF evening = {} \/ need = 0 THEN p ELSE r
  BY DEF EveningReserve
<1>2. p \in PlanType(q) /\ DOMAIN p.slots = Slots(q)
  BY DEF PlanSound, PlanType
<1>3. \A i \in Slots(q) : f[i] = p.slots[i]
         \/ (p.slots[i].intent = ForLoad /\ f[i] = [p.slots[i] EXCEPT !.intent = Hold, !.why = "evening"])
  <2>1. SUFFICES ASSUME NEW i \in Slots(q)
                 PROVE f[i] = p.slots[i] \/ (p.slots[i].intent = ForLoad
                          /\ f[i] = [p.slots[i] EXCEPT !.intent = Hold, !.why = "evening"])
    OBVIOUS
  <2>2. Spares(i, level[i - 1]) => p.slots[i].intent = ForLoad
    BY DEF With
  <2>3. f[i] = IF Spares(i, level[i - 1])
               THEN [p.slots[i] EXCEPT !.intent = Hold, !.why = "evening"] ELSE p.slots[i]
    BY <1>2
  <2> HIDE DEF Spares, level, f
  <2> QED
    BY <2>2, <2>3
<1>4. DOMAIN f = Slots(q) /\ f = [i \in DOMAIN f |-> f[i]]
  BY <1>2
<1> HIDE DEF Spares, level, f, evening, need
<1>5. ASSUME NEW i \in Slots(q)
      PROVE  /\ f[i] \in SlotType /\ SlotSound(q, i, f[i], p.strategy, free)
             /\ f[i].floor \in {Unset, Floor} /\ (f[i].intent = Export => p.slots[i].intent = Export)
  <2>1. /\ p.slots[i] \in SlotType /\ SlotSound(q, i, p.slots[i], p.strategy, free)
        /\ p.slots[i].floor \in {Unset, Floor}
    BY <1>2, SlotOf DEF PlanSound, Plain
  <2>2. CASE f[i] = p.slots[i]
    BY <2>1, <2>2
  <2>3. CASE p.slots[i].intent = ForLoad
             /\ f[i] = [p.slots[i] EXCEPT !.intent = Hold, !.why = "evening"]
    <3> DEFINE s == p.slots[i]
    <3>1. s \in SlotType /\ s.intent = ForLoad /\ SlotSound(q, i, s, p.strategy, free)
      BY <2>1, <2>3
    <3> HIDE DEF s
    <3>2. LET h == [s EXCEPT !.intent = Hold, !.why = "evening"]
          IN  /\ h \in SlotType /\ SlotSound(q, i, h, p.strategy, free)
              /\ h.floor = s.floor /\ h.intent = Hold
      BY <3>1, HeldSound
    <3>3. f[i] = [s EXCEPT !.intent = Hold, !.why = "evening"]
      BY <2>3 DEF s
    <3>4. /\ f[i] \in SlotType /\ SlotSound(q, i, f[i], p.strategy, free)
          /\ f[i].floor = s.floor /\ f[i].intent = Hold
      BY <3>2, <3>3
    <3> QED
      BY <2>1, <3>4, IntentsDiffer DEF s
  <2> QED
    BY <1>3, <2>2, <2>3
<1>6. f \in [Slots(q) -> SlotType]
  BY <1>4, <1>5
<1>7. PlanSound(q, r, free)
  BY <1>5, <1>6, Reslotted
<1>8. r.slots = f /\ r.strategy = p.strategy
  BY <1>2, <1>6 DEF PlanType
<1>9. Plain(q, r)
  BY <1>5, <1>8 DEF Plain
<1> HIDE DEF r
<1> QED
  BY <1>1, <1>7, <1>8, <1>9

LEMMA TimesMonotone ==
    ASSUME NEW k \in Nat, NEW x \in Int, NEW y \in Int, x <= y
    PROVE  k * x <= k * y /\ k * x \in Int /\ k * y \in Int
  OBVIOUS

\* A lower price is paid for by a higher peak.
LEMMA MaxBuyMonotone ==
    ASSUME NEW a \in Int, NEW b \in Int, a <= b, NEW x \in Int, NEW y \in Int, x <= y,
           WithinMaxBuy(b, x)
    PROVE  WithinMaxBuy(a, y)
<1> DEFINE k == EtaDen * EtaDen
           l == EtaNum * EtaNum
<1>1. k \in Nat /\ l \in Nat
  BY Constants
<1>2. k * b <= l * (x - Wear)
  BY DEF WithinMaxBuy
<1> HIDE DEF k, l
<1>3. x - Wear \in Int /\ y - Wear \in Int /\ x - Wear <= y - Wear
  BY Constants
<1>4. k * a <= k * b /\ k * a \in Int /\ k * b \in Int
  BY <1>1, TimesMonotone
<1>5. /\ l * (x - Wear) <= l * (y - Wear)
      /\ l * (x - Wear) \in Int /\ l * (y - Wear) \in Int
  BY <1>1, <1>3, TimesMonotone
<1>6. k * a <= l * (y - Wear)
  BY <1>2, <1>4, <1>5
<1> QED
  BY <1>6 DEF WithinMaxBuy, k, l

LEMMA ImportPriceType ==
    ASSUME NEW q, RequestOK(q), NEW i \in Slots(q)
    PROVE  ImportPrice(q, i) \in Int /\ q.price[i] \in Int /\ q.price[i] <= ImportPrice(q, i)
  BY Constants DEF RequestOK, ImportPrice

LEMMA SpareType ==
    ASSUME NEW q, RequestOK(q)
    PROVE  Spare(q) \in Nat /\ q.soc - Floor \in Int
  BY Constants DEF RequestOK, Spare, AtLeast0

CheapestPeak(q, peaks) == Min({ImportPrice(q, i) : i \in peaks})

\* What one slot of a winter plan is, for a purchase the cheapest peak pays.
LEMMA WinterSlotSound ==
    ASSUME NEW q, RequestOK(q), NEW free, NEW peaks, peaks \subseteq Slots(q), NEW buys,
           NEW target \in Floor .. Usable, NEW i \in Slots(q),
           i \in buys => WithinMaxBuy(ImportPrice(q, i), CheapestPeak(q, peaks))
    PROVE  /\ WinterSlot(q, peaks, buys, target, i) \in SlotType
           /\ SlotSound(q, i, WinterSlot(q, peaks, buys, target, i), "winter", free)
           /\ WinterSlot(q, peaks, buys, target, i).floor = Floor
           /\ WinterSlot(q, peaks, buys, target, i).intent # Export
<1> DEFINE later == {d \in peaks : d > i}
           s == WinterSlot(q, peaks, buys, target, i)
<1>1. {"cheap", "peak", "keep", "self"} \subseteq Reasons
      /\ {Charge, ForLoad, Hold, SelfUse} \subseteq Intents
  BY DEF Reasons, Intents
<1>2. target \in Int /\ ChargeAC \in Int /\ Floor \in Int /\ Unset \in Int
  BY Constants
<1>3. \/ i \in buys /\ later # {} /\ s = Slot(Charge, target, ChargeAC, Floor, Min(later), "cheap")
      \/ s = Slot(ForLoad, Unset, Unset, Floor, Unset, "peak")
      \/ s = Slot(Hold, Unset, Unset, Floor, Unset, "keep")
      \/ s = Slot(SelfUse, Unset, Unset, Floor, Unset, "self")
  BY DEF WinterSlot
<1> HIDE DEF s
<1>4. IsFiniteSet(Slots(q)) /\ Slots(q) \subseteq Nat /\ Slots(q) \subseteq Int
  BY SlotsFinite DEF RequestOK
<1>5. CASE i \in buys /\ later # {} /\ s = Slot(Charge, target, ChargeAC, Floor, Min(later), "cheap")
  <2>1. later \subseteq peaks /\ \A d \in later : d > i
    OBVIOUS
  <2> HIDE DEF later
  <2>2. IsFiniteSet(later) /\ later \subseteq Int
    BY <2>1, <1>4, FS_Subset
  <2>3. Min(later) \in later /\ Min(later) \in Int
    BY <1>5, <2>2, MinOf
  <2>4. /\ s \in SlotType /\ s.intent = Charge /\ s.target = target /\ s.power = ChargeAC
        /\ s.floor = Floor /\ s.why = "cheap"
    BY <1>1, <1>2, <1>5, <2>3, SlotMade
  <2>5. Pays(q, i)
    <3> DEFINE price == [k \in peaks |-> ImportPrice(q, k)]
               P == {price[k] : k \in peaks}
    <3>1. P = {ImportPrice(q, k) : k \in peaks}
      OBVIOUS
    <3>2. IsFiniteSet(P)
      <4>1. IsFiniteSet(peaks)
        BY <1>4, FS_Subset
      <4> HIDE DEF price
      <4> QED
        BY <4>1, ImageFinite
    <3>3. P \subseteq Int /\ \A k \in peaks : ImportPrice(q, k) \in P
      BY <3>1, ImportPriceType
    <3> HIDE DEF P
    <3>4. PICK d \in later : d \in peaks /\ d > i
      BY <1>5, <2>1
    <3>5. Min(P) \in Int /\ Min(P) <= ImportPrice(q, d)
      BY <3>2, <3>3, <3>4, MinOf
    <3>6. /\ ImportPrice(q, d) \in Int /\ ImportPrice(q, i) \in Int
          /\ q.price[i] \in Int /\ q.price[i] <= ImportPrice(q, i) /\ d \in Slots(q)
      BY <3>4, ImportPriceType
    <3>7. WithinMaxBuy(ImportPrice(q, i), Min(P))
      BY <1>5, <3>1 DEF CheapestPeak
    <3>8. WithinMaxBuy(q.price[i], ImportPrice(q, d))
      BY <3>5, <3>6, <3>7, MaxBuyMonotone
    <3> QED
      BY <3>4, <3>6, <3>8 DEF Pays
  <2>6. SlotSound(q, i, s, "winter", free)
    BY <2>4, <2>5, IntentsDiffer DEF SlotSound, IsMustCharge
  <2> QED
    BY <2>4, <2>6, IntentsDiffer DEF s
<1>6. ASSUME NEW intent \in {ForLoad, Hold, SelfUse}, NEW why \in {"peak", "keep", "self"},
             s = Slot(intent, Unset, Unset, Floor, Unset, why)
      PROVE  /\ s \in SlotType /\ SlotSound(q, i, s, "winter", free)
             /\ s.floor = Floor /\ s.intent # Export
  <2>1. /\ s \in SlotType /\ s.intent = intent /\ s.power = Unset /\ s.floor = Floor /\ s.why = why
    <3>1. intent \in Intents /\ why \in Reasons
      BY <1>1
    <3> QED
      BY <1>2, <1>6, <3>1, SlotMade
  <2>2. s.intent # Charge /\ s.intent # Export
    BY <2>1, IntentsDiffer
  <2>3. s.why \notin {"must", "resident"} /\ s.power <= OutAC
    BY <2>1, Constants
  <2> QED
    BY <2>1, <2>2, <2>3, QuietSound
<1> QED
  BY <1>3, <1>5, <1>6 DEF s

LEMMA SumOverSlots ==
    ASSUME NEW q, RequestOK(q), NEW S, S \subseteq Slots(q), NEW f, DOMAIN f = S,
           \A i \in S : f[i] \in Nat
    PROVE  SumFunction(f) \in Nat
<1>1. IsFiniteSet(S)
  BY SlotsFinite, FS_Subset DEF RequestOK
<1> QED
  BY <1>1, SumNat DEF SumFunction

LEMMA PoolType ==
    ASSUME NEW n, NEW shortfall \in Int, NEW pool
    PROVE  PoolOf(n, shortfall, pool)
             \in [state : {"none", "not_needed", "empty", "open", "cap"}, shortfall : Int]
  BY DEF PoolOf

\* The winter plan is sound, and every cheap slot of it is bought for one of
\* its peaks (rule_based.py).
LEMMA WinterSound ==
    ASSUME NEW q, RequestOK(q), NEW free
    PROVE  PlanSound(q, PlanWinter(q), free) /\ Plain(q, PlanWinter(q))
           /\ PlanWinter(q).strategy = "winter"
<1> DEFINE peaks == WinterPeaks(q)
           load == SumFunction([i \in peaks |-> q.load[i]])
           shortfall == AtLeast0(Drawn(load + q.ev) - Spare(q))
           pool == WinterPool(q, peaks)
           buys == LatePack(pool, Slices(shortfall), q.price)
           stored == Lesser(shortfall, Cardinality(buys) * SlotDC)
           target == Lesser(Usable, Floor + Spare(q) + stored)
           f == [i \in Slots(q) |-> WinterSlot(q, peaks, buys, target, i)]
           info == PoolOf(Slices(shortfall), shortfall, pool)
           r == [slots |-> f, strategy |-> "winter", target |-> target,
                 deadline |-> Min(peaks), pool |-> info]
<1>1. PlanWinter(q) = IF peaks = {} \/ load = 0 THEN AllAuto(q) ELSE EveningReserve(q, r, ChargeAC)
  BY DEF PlanWinter
<1>2. IsFiniteSet(Slots(q)) /\ Slots(q) \subseteq Nat /\ Slots(q) \subseteq Int
  BY SlotsFinite DEF RequestOK
<1>3. peaks \subseteq Slots(q) /\ IsFiniteSet(peaks) /\ peaks \subseteq Int
  <2>1. peaks \subseteq Slots(q)
    BY DEF WinterPeaks, Dearest
  <2> HIDE DEF peaks
  <2> QED
    BY <1>2, <2>1, FS_Subset
<1> HIDE DEF peaks
<1>4. load \in Nat
  <2> DEFINE g == [i \in peaks |-> q.load[i]]
  <2>1. DOMAIN g = peaks /\ \A i \in peaks : g[i] \in Nat
    BY <1>3 DEF RequestOK
  <2> HIDE DEF g
  <2>2. SumFunction(g) \in Nat
    BY <1>3, <2>1, SumOverSlots
  <2> QED
    BY <2>2 DEF g
<1> HIDE DEF load
<1>5. shortfall \in Nat
  <2>1. load + q.ev \in Int
    BY <1>4 DEF RequestOK
  <2>2. Drawn(load + q.ev) \in Int
    BY <2>1, DrawnType
  <2> QED
    BY <2>2, SpareType DEF AtLeast0
<1> HIDE DEF shortfall
<1>6. pool \subseteq Slots(q)
      /\ \A i \in pool : WithinMaxBuy(ImportPrice(q, i), CheapestPeak(q, peaks))
  BY DEF WinterPool, CheapestPeak
<1> HIDE DEF pool
<1>7. buys \subseteq pool /\ IsFiniteSet(buys)
  <2>1. IsFiniteSet(pool) /\ pool \subseteq Nat /\ \A i \in pool : q.price[i] \in Int
    BY <1>2, <1>6, FS_Subset DEF RequestOK
  <2>2. buys \subseteq pool
    BY <2>1, LatePackIn
  <2> HIDE DEF buys
  <2> QED
    BY <2>1, <2>2, FS_Subset
<1> HIDE DEF buys
<1>8. stored \in Nat
  <2>1. Cardinality(buys) * SlotDC \in Nat
    BY <1>7, FS_CardinalityType, SlotDCType
  <2> QED
    BY <1>5, <2>1 DEF Lesser
<1> HIDE DEF stored
<1>9. target \in Floor .. Usable /\ target \in Int
  BY <1>8, SpareType, Constants DEF Lesser
<1> HIDE DEF target
<1>10. \A i \in Slots(q) : /\ f[i] \in SlotType /\ SlotSound(q, i, f[i], "winter", free)
                           /\ f[i].floor = Floor /\ f[i].intent # Export
  <2>1. SUFFICES ASSUME NEW i \in Slots(q)
                 PROVE  /\ f[i] \in SlotType /\ SlotSound(q, i, f[i], "winter", free)
                        /\ f[i].floor = Floor /\ f[i].intent # Export
    OBVIOUS
  <2>2. i \in buys => WithinMaxBuy(ImportPrice(q, i), CheapestPeak(q, peaks))
    BY <1>6, <1>7
  <2>3. f[i] = WinterSlot(q, peaks, buys, target, i)
    OBVIOUS
  <2>4. peaks \subseteq Slots(q) /\ target \in Floor .. Usable
    BY <1>3, <1>9
  <2> HIDE DEF f
  <2>5. /\ WinterSlot(q, peaks, buys, target, i) \in SlotType
        /\ SlotSound(q, i, WinterSlot(q, peaks, buys, target, i), "winter", free)
        /\ WinterSlot(q, peaks, buys, target, i).floor = Floor
        /\ WinterSlot(q, peaks, buys, target, i).intent # Export
    BY <2>2, <2>4, WinterSlotSound
  <2> QED
    BY <2>3, <2>5
<1>11. f \in [Slots(q) -> SlotType]
  BY <1>10
<1>12. info \in [state : {"none", "not_needed", "empty", "open", "cap"}, shortfall : Int]
  BY <1>5, PoolType
<1> HIDE DEF f, info
<1>13. CASE peaks = {} \/ load = 0
  BY <1>1, <1>13, AllAutoSound
<1>14. CASE ~(peaks = {} \/ load = 0)
  <2>1. Min(peaks) \in Int
    BY <1>3, <1>14, MinOf
  <2>2. r \in PlanType(q) /\ r.slots = f /\ r.strategy = "winter" /\ r.target = target
    BY <1>9, <1>11, <1>12, <2>1 DEF PlanType
  <2> HIDE DEF r
  <2>3. PlanSound(q, r, free)
    BY <1>9, <1>10, <2>2, BuiltSound
  <2>4. Plain(q, r)
    BY <1>10, <2>2 DEF Plain
  <2>5. PlanWinter(q) = EveningReserve(q, r, ChargeAC)
    BY <1>1, <1>14
  <2> QED
    BY <2>2, <2>3, <2>4, <2>5, EveningReserveSound
<1> QED
  BY <1>13, <1>14

LEMMA NetType ==
    ASSUME NEW q, RequestOK(q), NEW i \in Slots(q)
    PROVE  Net(q, i) \in Int /\ q.load[i] \in Nat /\ CountedSolar(q, i) - q.load[i] \in Int
<1>1. q.load[i] \in Nat /\ q.solar[i] \in Nat /\ q.lowSolar[i] \in Nat \union {Unset}
  BY DEF RequestOK
<1>2. (q.solar[i] * ConfNum) \div ConfDen \in Int
  <2>1. ConfNum \in Nat /\ ConfDen \in Nat /\ ConfDen > 0
    BY SeasonAssumption
  <2>2. q.solar[i] * ConfNum \in Int
    BY <1>1, <2>1
  <2> QED
    BY <2>1, <2>2, Quotient
<1>3. CountedSolar(q, i) \in Int
  BY <1>1, <1>2 DEF CountedSolar, Lesser
<1> QED
  BY <1>1, <1>3 DEF Net

LEMMA AdaptiveSlotSound ==
    ASSUME NEW q, RequestOK(q), NEW free, NEW target \in Floor .. Usable, NEW deadline \in Int,
           NEW i \in Slots(q), NEW intent \in {Charge, ForLoad, Hold, SelfUse}
    PROVE  /\ AdaptiveSlot(q, intent, target, deadline, i) \in SlotType
           /\ SlotSound(q, i, AdaptiveSlot(q, intent, target, deadline, i), "summer", free)
           /\ AdaptiveSlot(q, intent, target, deadline, i).floor = Floor
           /\ AdaptiveSlot(q, intent, target, deadline, i).intent # Export
<1> DEFINE s == AdaptiveSlot(q, intent, target, deadline, i)
<1>1. /\ {"cheap", "shave", "self"} \subseteq Reasons
      /\ {Charge, ForLoad, Hold, SelfUse} \subseteq Intents
  BY DEF Reasons, Intents
<1>2. /\ target \in Int /\ ChargeAC \in Int /\ Floor \in Int /\ Unset \in Int
      /\ Net(q, i) \in Int /\ OutAC \in Nat
  BY Constants, NetType
<1>3. \/ intent = Charge /\ s = Slot(Charge, target, ChargeAC, Floor, deadline, "cheap")
      \/ intent = ForLoad /\ s = Slot(ForLoad, Unset, Net(q, i), Floor, deadline, "shave")
      \/ intent \notin {Charge, ForLoad} /\ s = Slot(intent, target, Unset, Floor, deadline, "self")
  BY IntentsDiffer DEF AdaptiveSlot
<1> HIDE DEF s
<1>4. CASE intent = Charge /\ s = Slot(Charge, target, ChargeAC, Floor, deadline, "cheap")
  <2>1. /\ s \in SlotType /\ s.intent = Charge /\ s.target = target /\ s.power = ChargeAC
        /\ s.floor = Floor /\ s.why = "cheap"
    BY <1>1, <1>2, <1>4, SlotMade
  <2>2. SlotSound(q, i, s, "summer", free)
    BY <2>1, IntentsDiffer DEF SlotSound, IsMustCharge
  <2> QED
    BY <2>1, <2>2, IntentsDiffer DEF s
<1>5. CASE intent = ForLoad /\ s = Slot(ForLoad, Unset, Net(q, i), Floor, deadline, "shave")
  <2>1. /\ s \in SlotType /\ s.intent = ForLoad /\ s.power = Net(q, i)
        /\ s.floor = Floor /\ s.why = "shave"
    BY <1>1, <1>2, <1>5, SlotMade
  <2>2. s.power <= OutAC \/ Net(q, i) > OutAC
    BY <1>2, <2>1
  <2>3. SlotSound(q, i, s, "summer", free)
    BY <2>1, <2>2, IntentsDiffer DEF SlotSound, IsMustCharge
  <2> QED
    BY <2>1, <2>3, IntentsDiffer DEF s
<1>6. CASE /\ intent \notin {Charge, ForLoad}
           /\ s = Slot(intent, target, Unset, Floor, deadline, "self")
  <2>1. /\ s \in SlotType /\ s.intent = intent /\ s.power = Unset
        /\ s.floor = Floor /\ s.why = "self"
    <3>1. intent \in Intents /\ "self" \in Reasons
      BY <1>1
    <3>2. Slot(intent, target, Unset, Floor, deadline, "self") \in SlotType
      BY <1>2, <3>1, SlotMade
    <3> QED
      BY <1>6, <3>2, SlotMade DEF Slot
  <2>2. s.power <= OutAC /\ s.intent # Export /\ s.intent # Charge
    BY <1>2, <1>6, <2>1, IntentsDiffer
  <2>3. SlotSound(q, i, s, "summer", free)
    BY <2>1, <2>2, QuietSound
  <2> QED
    BY <2>1, <2>2, <2>3 DEF s
<1> QED
  BY <1>3, <1>4, <1>5, <1>6

\* The summer plan is sound; its peaks ask for the house's whole load
\* (adaptive.py).
LEMMA AdaptiveSound ==
    ASSUME NEW q, RequestOK(q), NEW free
    PROVE  PlanSound(q, PlanAdaptive(q), free) /\ Plain(q, PlanAdaptive(q))
           /\ PlanAdaptive(q).strategy = "summer"
<1> DEFINE peaks == AdaptivePeaks(q)
           deficit == SumFunction([i \in Slots(q) |-> AtLeast0(Net(q, i))])
           surplus == SumFunction([i \in Slots(q) |-> AtLeast0(CountedSolar(q, i) - q.load[i])])
           coverable == Lesser(Drawn(deficit), Usable - Floor)
           sun == Stored(surplus)
           shortfall == AtLeast0(coverable - Spare(q) - sun)
           pool == AdaptivePool(q, peaks)
           buys == LatePack(pool, Slices(shortfall), q.price)
           target == Lesser(Usable, Floor + coverable)
           deadline == IF peaks = {} THEN Unset ELSE Max(peaks)
           level[i \in (q.now - 1) .. q.known] ==
               IF i < q.now THEN q.soc
               ELSE AdaptiveNext(q, AdaptiveIntent(q, peaks, buys, level[i - 1], i), level[i - 1],
                                 target, i)
           intent(i) == AdaptiveIntent(q, peaks, buys, level[i - 1], i)
           f == [i \in Slots(q) |-> AdaptiveSlot(q, intent(i), target, deadline, i)]
           info == PoolOf(Slices(shortfall), shortfall, pool)
           r == [slots |-> f, strategy |-> "summer", target |-> target,
                 deadline |-> deadline, pool |-> info]
<1>1. PlanAdaptive(q) = r
  BY DEF PlanAdaptive
<1>2. IsFiniteSet(Slots(q)) /\ Slots(q) \subseteq Nat
  BY SlotsFinite DEF RequestOK
<1>3. \A i \in Slots(q) : intent(i) \in {Charge, ForLoad, Hold, SelfUse}
  <2> HIDE DEF level, buys, peaks
  <2> QED
    BY DEF AdaptiveIntent
<1> HIDE DEF level, intent
<1>4. deadline \in Int
  <2>1. peaks \subseteq Slots(q)
    BY DEF AdaptivePeaks
  <2> HIDE DEF peaks
  <2>2. IsFiniteSet(peaks) /\ peaks \subseteq Int
    BY <1>2, <2>1, FS_Subset
  <2>3. peaks # {} => Max(peaks) \in Int
    BY <2>2, MaxOf
  <2> QED
    BY <2>3
<1> HIDE DEF deadline
<1>5. deficit \in Nat
  <2> DEFINE g == [i \in Slots(q) |-> AtLeast0(Net(q, i))]
  <2>1. DOMAIN g = Slots(q) /\ \A i \in Slots(q) : g[i] \in Nat
    BY NetType DEF AtLeast0
  <2> HIDE DEF g
  <2>2. SumFunction(g) \in Nat
    BY <2>1, SumOverSlots
  <2> QED
    BY <2>2 DEF g
<1>6. surplus \in Nat
  <2> DEFINE g == [i \in Slots(q) |-> AtLeast0(CountedSolar(q, i) - q.load[i])]
  <2>1. DOMAIN g = Slots(q) /\ \A i \in Slots(q) : g[i] \in Nat
    BY NetType DEF AtLeast0
  <2> HIDE DEF g
  <2>2. SumFunction(g) \in Nat
    BY <2>1, SumOverSlots
  <2> QED
    BY <2>2 DEF g
<1> HIDE DEF deficit, surplus
<1>7. coverable \in Int /\ coverable >= 0
  <2>1. Drawn(deficit) \in Int /\ Drawn(deficit) >= 0
    BY <1>5, DrawnType
  <2> QED
    BY <2>1, Constants DEF Lesser
<1>8. sun \in Int
  BY <1>6, StoredType
<1> HIDE DEF coverable, sun
<1>9. shortfall \in Int
  BY <1>7, <1>8, SpareType DEF AtLeast0
<1> HIDE DEF shortfall
<1>10. info \in [state : {"none", "not_needed", "empty", "open", "cap"}, shortfall : Int]
  <2> HIDE DEF pool
  <2> QED
    BY <1>9, PoolType
<1> HIDE DEF info
<1>11. target \in Floor .. Usable /\ target \in Int
  BY <1>7, Constants DEF Lesser
<1> HIDE DEF target
<1>12. \A i \in Slots(q) : /\ f[i] \in SlotType /\ SlotSound(q, i, f[i], "summer", free)
                           /\ f[i].floor = Floor /\ f[i].intent # Export
  <2>1. SUFFICES ASSUME NEW i \in Slots(q)
                 PROVE  /\ f[i] \in SlotType /\ SlotSound(q, i, f[i], "summer", free)
                        /\ f[i].floor = Floor /\ f[i].intent # Export
    OBVIOUS
  <2>2. f[i] = AdaptiveSlot(q, intent(i), target, deadline, i)
    OBVIOUS
  <2> HIDE DEF f
  <2>3. intent(i) \in {Charge, ForLoad, Hold, SelfUse}
    BY <1>3
  <2> DEFINE it == intent(i)
  <2>4. it = intent(i)
    OBVIOUS
  <2> HIDE DEF it
  <2>5. /\ AdaptiveSlot(q, it, target, deadline, i) \in SlotType
        /\ SlotSound(q, i, AdaptiveSlot(q, it, target, deadline, i), "summer", free)
        /\ AdaptiveSlot(q, it, target, deadline, i).floor = Floor
        /\ AdaptiveSlot(q, it, target, deadline, i).intent # Export
    BY <1>4, <1>11, <2>3, <2>4, AdaptiveSlotSound
  <2> QED
    BY <2>2, <2>4, <2>5
<1>13. f \in [Slots(q) -> SlotType]
  BY <1>12
<1> HIDE DEF f
<1>14. r \in PlanType(q) /\ r.slots = f /\ r.strategy = "summer" /\ r.target = target
  BY <1>4, <1>10, <1>11, <1>13 DEF PlanType
<1> HIDE DEF r
<1>15. PlanSound(q, r, free)
  BY <1>11, <1>12, <1>14, BuiltSound
<1>16. Plain(q, r)
  BY <1>12, <1>14 DEF Plain
<1> QED
  BY <1>1, <1>14, <1>15, <1>16

LEMMA PaidSound ==
    ASSUME NEW q, NEW i, NEW s \in SlotType, NEW strategy, NEW free,
           NEW floor \in {Unset, Floor}
    PROVE  LET c == Slot(Charge, Usable, ChargeAC, floor, s.deadline, "paid")
           IN  /\ c \in SlotType /\ SlotSound(q, i, c, strategy, free)
               /\ c.floor \in {Unset, Floor} /\ c.intent = Charge
<1> DEFINE c == Slot(Charge, Usable, ChargeAC, floor, s.deadline, "paid")
<1>1. /\ c \in SlotType /\ c.intent = Charge /\ c.target = Usable /\ c.power = ChargeAC
      /\ c.floor = floor /\ c.why = "paid"
  <2>1. Charge \in Intents /\ "paid" \in Reasons /\ s.deadline \in Int
    BY DEF Intents, Reasons, SlotType
  <2>2. Usable \in Int /\ ChargeAC \in Int /\ floor \in Int
    BY Constants
  <2> QED
    BY <2>1, <2>2, SlotMade
<1> HIDE DEF c
<1>2. SlotSound(q, i, c, strategy, free)
  BY <1>1, IntentsDiffer, Constants DEF SlotSound, IsMustCharge
<1> QED
  BY <1>1, <1>2 DEF c

\* The solar soak leaves a plan sound.
LEMMA SoakSound ==
    ASSUME NEW q, RequestOK(q), NEW p, NEW free, PlanSound(q, p, free), Plain(q, p)
    PROVE  PlanSound(q, Soak(q, p), free) /\ Plain(q, Soak(q, p))
           /\ Soak(q, p).strategy = p.strategy
<1> DEFINE floor(s) == IF q.strategy = "winter" THEN s.floor ELSE Floor
           paid(s) == Slot(Charge, Usable, ChargeAC, floor(s), s.deadline, "paid")
           f == [i \in DOMAIN p.slots |->
                   IF q.price[i] < 0 THEN paid(p.slots[i]) ELSE p.slots[i]]
           r == [p EXCEPT !.slots = f]
<1>1. Soak(q, p) = IF ~q.soak THEN p ELSE r
  BY DEF Soak
<1>2. p \in PlanType(q) /\ DOMAIN p.slots = Slots(q)
  BY DEF PlanSound, PlanType
<1>3. ASSUME NEW i \in Slots(q)
      PROVE  /\ f[i] \in SlotType /\ SlotSound(q, i, f[i], p.strategy, free)
             /\ f[i].floor \in {Unset, Floor} /\ f[i].intent \in {Charge, p.slots[i].intent}
  <2> DEFINE s == p.slots[i]
  <2>1. /\ s \in SlotType /\ SlotSound(q, i, s, p.strategy, free) /\ s.floor \in {Unset, Floor}
    BY <1>2, SlotOf DEF PlanSound, Plain
  <2>2. f[i] = IF q.price[i] < 0 THEN paid(s) ELSE s
    BY <1>2
  <2>3. floor(s) \in {Unset, Floor}
    BY <2>1
  <2>4. paid(s) = Slot(Charge, Usable, ChargeAC, floor(s), s.deadline, "paid")
    OBVIOUS
  <2>5. s = p.slots[i]
    OBVIOUS
  <2> HIDE DEF f, s, paid
  <2> DEFINE g == floor(s)
  <2>6. g \in {Unset, Floor} /\ paid(s) = Slot(Charge, Usable, ChargeAC, g, s.deadline, "paid")
    BY <2>3, <2>4
  <2> HIDE DEF g, floor
  <2>7. LET c == Slot(Charge, Usable, ChargeAC, g, s.deadline, "paid")
        IN  /\ c \in SlotType /\ SlotSound(q, i, c, p.strategy, free)
            /\ c.floor \in {Unset, Floor} /\ c.intent = Charge
    BY <2>1, <2>6, PaidSound
  <2>8. /\ paid(s) \in SlotType /\ SlotSound(q, i, paid(s), p.strategy, free)
        /\ paid(s).floor \in {Unset, Floor} /\ paid(s).intent = Charge
    BY <2>6, <2>7
  <2> QED
    BY <2>1, <2>2, <2>5, <2>8
<1>4. f \in [Slots(q) -> SlotType]
  BY <1>2, <1>3
<1> HIDE DEF f
<1>5. PlanSound(q, r, free)
  BY <1>3, <1>4, IntentsDiffer, Reslotted
<1>6. r.slots = f /\ r.strategy = p.strategy
  BY <1>2, <1>4 DEF PlanType
<1>7. Plain(q, r)
  BY <1>3, <1>6 DEF Plain
<1> HIDE DEF r
<1> QED
  BY <1>1, <1>5, <1>6, <1>7

\* The plan of the season is sound.
LEMMA SeasonSound ==
    ASSUME NEW q, RequestOK(q), NEW free
    PROVE  PlanSound(q, SeasonPlan(q), free) /\ Plain(q, SeasonPlan(q))
<1> DEFINE p == IF q.strategy = "winter" THEN PlanWinter(q) ELSE PlanAdaptive(q)
           s == Soak(q, p)
           c == ClampGridCharge(q, s)
<1>1. SeasonPlan(q) = ClampCycleBudget(q, c)
  BY DEF SeasonPlan
<1>2. PlanSound(q, p, free) /\ Plain(q, p)
  BY WinterSound, AdaptiveSound
<1> HIDE DEF p
<1>3. PlanSound(q, s, free) /\ Plain(q, s)
  BY <1>2, SoakSound
<1> HIDE DEF s
<1>4. Thins(q, s, c, free)
  BY <1>3, ClampGridChargeThins
<1> HIDE DEF c
<1>5. PlanSound(q, c, free) /\ Plain(q, c)
  BY <1>3, <1>4 DEF Thins
<1>6. Thins(q, c, ClampCycleBudget(q, c), free)
  BY <1>5, ClampCycleBudgetThins
<1> QED
  BY <1>1, <1>5, <1>6 DEF Thins

-----------------------------------------------------------------------------
(* Trading.                                                                *)

\* The plan of a trading pass that finds nothing to trade is sound.
LEMMA NoTradeSound ==
    ASSUME NEW q, RequestOK(q), NEW free
    PROVE  PlanSound(q, NoTrade(q), free) /\ Plain(q, NoTrade(q))
<1> DEFINE s == Slot(SelfUse, Unset, Unset, Unset, Unset, "no_trade")
           h == [s EXCEPT !.floor = Floor]
           r == NoTrade(q)
<1>1. s \in SlotType /\ s.intent = SelfUse /\ s.power = Unset /\ s.why = "no_trade"
  <2>1. SelfUse \in Intents /\ "no_trade" \in Reasons
    BY DEF Intents, Reasons
  <2> QED
    BY <2>1, SlotMade
<1>2. AllAuto(q) = [slots |-> [i \in Slots(q) |-> s], strategy |-> "winter", target |-> Unset,
                    deadline |-> Unset, pool |-> NoPool]
  BY DEF AllAuto
<1> HIDE DEF s
<1>3. /\ h \in SlotType /\ h.intent = SelfUse /\ h.power = Unset /\ h.floor = Floor
      /\ h.why = "no_trade"
  BY <1>1, Constants DEF SlotType
<1>4. NoTrade(q) = [AllAuto(q) EXCEPT !.strategy = "auto", !.slots = [i \in Slots(q) |-> h]]
  <2> DEFINE z == [i \in Slots(q) |-> s]
  <2>1. DOMAIN z = Slots(q) /\ [i \in DOMAIN z |-> [z[i] EXCEPT !.floor = Floor]]
                                 = [i \in Slots(q) |-> h]
    OBVIOUS
  <2>2. AllAuto(q).slots = z
    BY <1>2
  <2>3. NoTrade(q) = [AllAuto(q) EXCEPT !.strategy = "auto",
                        !.slots = [i \in DOMAIN z |-> [z[i] EXCEPT !.floor = Floor]]]
    BY <1>2, <2>2 DEF NoTrade
  <2> QED
    BY <2>1, <2>3
<1> HIDE DEF h
<1>5. AllAuto(q) \in PlanType(q) /\ AllAuto(q).target = Unset
  BY <1>1, <1>2 DEF PlanType, NoPool
<1>6. /\ r \in PlanType(q) /\ r.strategy = "auto" /\ r.target = Unset
      /\ r.slots = [i \in Slots(q) |-> h]
  <2> DEFINE a == AllAuto(q)
             b == [a EXCEPT !.strategy = "auto"]
             f == [i \in Slots(q) |-> h]
  <2>1. a \in PlanType(q) /\ a.target = Unset
    BY <1>5
  <2>2. r = [b EXCEPT !.slots = f]
    BY <1>4
  <2>3. f \in [Slots(q) -> SlotType]
    BY <1>3
  <2> HIDE DEF a, f
  <2>4. b \in PlanType(q) /\ b.target = Unset /\ b.strategy = "auto"
    BY <2>1 DEF PlanType
  <2> HIDE DEF b, r
  <2>5. r \in PlanType(q) /\ r.target = Unset /\ r.strategy = "auto" /\ r.slots = f
    BY <2>2, <2>3, <2>4 DEF PlanType
  <2> QED
    BY <2>5 DEF f
<1> HIDE DEF r
<1>7. \A i : SlotSound(q, i, h, "auto", free)
  BY <1>3, IntentsDiffer, Constants, QuietSound
<1>8. \A i \in Slots(q) : SlotSound(q, i, r.slots[i], r.strategy, free)
                          /\ r.slots[i].intent # Export
  BY <1>3, <1>6, <1>7, IntentsDiffer
<1>9. PlanSound(q, r, free)
  BY <1>6, <1>8, BuiltSound
<1>10. Plain(q, r)
  BY <1>3, <1>6 DEF Plain
<1> QED
  BY <1>9, <1>10 DEF r

LEMMA TradeSlotSound ==
    ASSUME NEW q, RequestOK(q), NEW free, NEW exports, NEW buys,
           NEW target \in Floor .. Usable, NEW first \in Int, NEW i \in Slots(q)
    PROVE  /\ TradeSlot(q, exports, buys, target, first, i) \in SlotType
           /\ SlotSound(q, i, TradeSlot(q, exports, buys, target, first, i), "trading", free)
           /\ TradeSlot(q, exports, buys, target, first, i).floor = Floor
           /\ TradeSlot(q, exports, buys, target, first, i).intent = Export => i \in exports
<1> DEFINE s == TradeSlot(q, exports, buys, target, first, i)
<1>1. /\ "trade" \in Reasons /\ "self" \in Reasons /\ Charge \in Intents
      /\ Export \in Intents /\ Hold \in Intents /\ SelfUse \in Intents
  BY DEF Reasons, Intents
<1>2. target \in Int /\ ChargeAC \in Int /\ Floor \in Int /\ Unset \in Int /\ OutAC \in Nat
  BY Constants
<1>3. \/ s = Slot(Charge, target, ChargeAC, Floor, first, "trade")
      \/ i \in exports /\ s = Slot(Export, Unset, OutAC, Floor, Unset, "trade")
      \/ s = Slot(Hold, Unset, Unset, Floor, Unset, "trade")
      \/ s = Slot(SelfUse, Unset, Unset, Floor, Unset, "self")
  BY DEF TradeSlot
<1> HIDE DEF s
<1>4. CASE s = Slot(Charge, target, ChargeAC, Floor, first, "trade")
  <2>1. /\ s \in SlotType /\ s.intent = Charge /\ s.target = target /\ s.power = ChargeAC
        /\ s.floor = Floor /\ s.why = "trade"
    BY <1>1, <1>2, <1>4, SlotMade
  <2>2. SlotSound(q, i, s, "trading", free)
    BY <2>1, IntentsDiffer DEF SlotSound, IsMustCharge
  <2> QED
    BY <2>1, <2>2, IntentsDiffer DEF s
<1>5. CASE i \in exports /\ s = Slot(Export, Unset, OutAC, Floor, Unset, "trade")
  <2>1. /\ s \in SlotType /\ s.intent = Export /\ s.power = OutAC
        /\ s.floor = Floor /\ s.why = "trade"
    BY <1>1, <1>2, <1>5, SlotMade
  <2>2. SlotSound(q, i, s, "trading", free)
    BY <1>2, <2>1, IntentsDiffer DEF SlotSound, IsMustCharge
  <2> QED
    BY <1>5, <2>1, <2>2 DEF s
<1>6. ASSUME NEW intent \in {Hold, SelfUse}, NEW why \in {"trade", "self"},
             s = Slot(intent, Unset, Unset, Floor, Unset, why)
      PROVE  /\ s \in SlotType /\ SlotSound(q, i, s, "trading", free)
             /\ s.floor = Floor /\ s.intent # Export
  <2>1. /\ s \in SlotType /\ s.intent = intent /\ s.power = Unset /\ s.floor = Floor /\ s.why = why
    <3>1. intent \in Intents /\ why \in Reasons
      BY <1>1
    <3> QED
      BY <1>2, <1>6, <3>1, SlotMade
  <2>2. s.intent # Charge /\ s.intent # Export
    BY <2>1, IntentsDiffer
  <2>3. s.why \notin {"must", "resident"} /\ s.power <= OutAC
    BY <2>1, <1>2
  <2> QED
    BY <2>1, <2>2, <2>3, QuietSound
<1> QED
  BY <1>3, <1>4, <1>5, <1>6 DEF s

\* The slots a trading plan buys and sells are sound, and its exports fit
\* the cap (trading.py).
LEMMA TradedSound ==
    ASSUME NEW q, RequestOK(q), NEW free, NEW count, count.first \in Int,
           NEW exports, exports \subseteq Slots(q), ExportsFit(q, exports), NEW buys,
           NEW stored \in Nat
    PROVE  PlanSound(q, Traded(q, count, exports, buys, stored).plan, free)
           /\ Plain(q, Traded(q, count, exports, buys, stored).plan)
<1> DEFINE target == Lesser(Usable, Floor + Spare(q) + stored)
           f == [i \in Slots(q) |-> TradeSlot(q, exports, buys, target, count.first, i)]
           r == [slots |-> f, strategy |-> "trading", target |-> target,
                 deadline |-> count.first, pool |-> NoPool]
<1>1. Traded(q, count, exports, buys, stored).plan = r
  BY DEF Traded
<1>2. target \in Floor .. Usable /\ target \in Int
  BY SpareType, Constants DEF Lesser
<1> HIDE DEF target
<1>3. \A i \in Slots(q) : /\ f[i] \in SlotType /\ SlotSound(q, i, f[i], "trading", free)
                          /\ f[i].floor = Floor /\ (f[i].intent = Export => i \in exports)
  <2>1. SUFFICES ASSUME NEW i \in Slots(q)
                 PROVE  /\ f[i] \in SlotType /\ SlotSound(q, i, f[i], "trading", free)
                        /\ f[i].floor = Floor /\ (f[i].intent = Export => i \in exports)
    OBVIOUS
  <2>2. f[i] = TradeSlot(q, exports, buys, target, count.first, i)
    OBVIOUS
  <2> DEFINE first == count.first
  <2>3. first \in Int /\ f[i] = TradeSlot(q, exports, buys, target, first, i)
    BY <2>2
  <2> HIDE DEF f, first
  <2>4. /\ TradeSlot(q, exports, buys, target, first, i) \in SlotType
        /\ SlotSound(q, i, TradeSlot(q, exports, buys, target, first, i), "trading", free)
        /\ TradeSlot(q, exports, buys, target, first, i).floor = Floor
        /\ TradeSlot(q, exports, buys, target, first, i).intent = Export => i \in exports
    BY <1>2, <2>3, TradeSlotSound
  <2> QED
    BY <2>3, <2>4
<1>4. f \in [Slots(q) -> SlotType]
  BY <1>3
<1> HIDE DEF f
<1>5. r \in PlanType(q) /\ r.slots = f /\ r.strategy = "trading" /\ r.target = target
  BY <1>2, <1>4 DEF PlanType, NoPool
<1> HIDE DEF r
<1>6. ExportsFit(q, With(r, Export))
  <2>1. With(r, Export) \subseteq exports
    BY <1>3, <1>5, WithIn
  <2>2. IsFiniteSet(exports)
    BY SlotsFinite, FS_Subset DEF RequestOK
  <2> QED
    BY <2>1, <2>2, FewerExports DEF RequestOK
<1>7. \A i \in Slots(q) : SlotSound(q, i, r.slots[i], r.strategy, free)
  BY <1>3, <1>5
<1>8. r.target \in {Unset} \union Floor .. Usable
  BY <1>2, <1>5
<1>9. PlanSound(q, r, free)
  BY <1>5, <1>6, <1>7, <1>8 DEF PlanSound
<1>10. Plain(q, r)
  BY <1>3, <1>5 DEF Plain
<1> QED
  BY <1>1, <1>9, <1>10

LEMMA PartFinite ==
    ASSUME NEW T, IsFiniteSet(T), T \subseteq Int, NEW S, S \subseteq T
    PROVE  IsFiniteSet(S) /\ S \subseteq Int
<1>1. IsFiniteSet(S)
  BY FS_Subset
<1> QED
  BY <1>1

LEMMA ExportRankIn ==
    ASSUME NEW q, RequestOK(q)
    PROVE  IsFiniteSet(ExportRank(q)) /\ ExportRank(q) \subseteq Slots(q)
           /\ ExportRank(q) \subseteq Nat
           /\ \A i \in ExportRank(q) : q.price[i] \in Int
<1>1. ExportRank(q) \subseteq Slots(q)
  BY DEF ExportRank, Dearest
<1>2. IsFiniteSet(Slots(q)) /\ Slots(q) \subseteq Nat
  BY SlotsFinite DEF RequestOK
<1> QED
  BY <1>1, <1>2, FS_Subset DEF RequestOK

\* The slots taken can all be exported in.
LEMMA TakenType ==
    ASSUME NEW q, NEW ranked, IsFiniteSet(ranked)
    PROVE  /\ Taken(q, ranked) \in 0 .. Cardinality(ranked)
           /\ \A k \in 1 .. Taken(q, ranked) : Exportable(q, k)
<1> DEFINE S == {n \in 0 .. Cardinality(ranked) : \A k \in 1 .. n : Exportable(q, k)}
<1>1. Cardinality(ranked) \in Nat
  BY FS_CardinalityType
<1>2. S \subseteq 0 .. Cardinality(ranked) /\ 0 \in S
  BY <1>1
<1>3. \A n \in S : \A k \in 1 .. n : Exportable(q, k)
  OBVIOUS
<1>4. Taken(q, ranked) = Max(S)
  BY DEF Taken
<1> HIDE DEF S
<1>5. IsFiniteSet(0 .. Cardinality(ranked))
  BY <1>1, FS_Interval
<1>6. IsFiniteSet(S) /\ S \subseteq Int /\ S # {}
  <2>1. 0 .. Cardinality(ranked) \subseteq Int
    BY <1>1
  <2> QED
    BY <1>2, <1>5, <2>1, PartFinite
<1>7. Max(S) \in S
  BY <1>6, MaxOf
<1> QED
  BY <1>2, <1>3, <1>4, <1>7

LEMMA TrimmedType ==
    ASSUME NEW q, NEW first \in Int, NEW taken \in Nat, NEW stored,
           \A k \in 1 .. taken : Exportable(q, k)
    PROVE  /\ Trimmed(q, first, taken, stored).first \in Int
           /\ Trimmed(q, first, taken, stored).slots \in Nat
           /\ \/ Trimmed(q, first, taken, stored).slots = 0
              \/ Exportable(q, Trimmed(q, first, taken, stored).slots)
<1> DEFINE S == {n \in 0 .. taken : n = 0 \/ Fits(q, n, stored)}
           kept == Max(S)
<1>1. S \subseteq 0 .. taken /\ 0 \in S
  OBVIOUS
<1>2. \/ Trimmed(q, first, taken, stored) = NoExport
      \/ Trimmed(q, first, taken, stored) = [slots |-> kept, first |-> first]
  BY DEF Trimmed
<1> HIDE DEF S
<1>3. IsFiniteSet(0 .. taken)
  BY FS_Interval
<1>4. IsFiniteSet(S) /\ S \subseteq Int /\ S # {}
  <2>1. 0 .. taken \subseteq Int
    OBVIOUS
  <2> QED
    BY <1>1, <1>3, <2>1, PartFinite
<1>5. kept \in 0 .. taken
  BY <1>1, <1>4, MaxOf
<1> HIDE DEF kept
<1>6. kept = 0 \/ Exportable(q, kept)
  BY <1>5
<1> QED
  BY <1>2, <1>5, <1>6 DEF NoExport

LEMMA ExportCountType ==
    ASSUME NEW q, RequestOK(q)
    PROVE  /\ ExportCount(q).first \in Int /\ ExportCount(q).slots \in Nat
           /\ ExportCount(q).slots = 0 \/ Exportable(q, ExportCount(q).slots)
<1> DEFINE ranked == ExportRank(q)
           taken == Taken(q, ranked)
           D == Dearest(ranked, taken, q.price)
           first == Min(D)
           stored == StoredDC(q, first, taken)
<1>1. \/ ExportCount(q) = NoExport
      \/ taken # 0 /\ ExportCount(q) = Trimmed(q, first, taken, stored)
  BY DEF ExportCount, Filled
<1>2. IsFiniteSet(ranked) /\ ranked \subseteq Nat /\ \A i \in ranked : q.price[i] \in Int
  BY ExportRankIn
<1>3. Cardinality(ranked) \in Nat /\ taken \in 0 .. Cardinality(ranked)
      /\ \A k \in 1 .. taken : Exportable(q, k)
  BY <1>2, TakenType, FS_CardinalityType
<1> HIDE DEF ranked, taken
<1>4. CASE taken # 0 /\ ExportCount(q) = Trimmed(q, first, taken, stored)
  <2>1. ranked # {}
    BY <1>3, <1>4, FS_EmptySet
  <2>2. taken \in Nat /\ taken > 0
    BY <1>3, <1>4
  <2>3. D # {}
    BY <1>2, <2>1, <2>2, DearestSome
  <2>4. D \subseteq ranked
    BY DEF Dearest
  <2> HIDE DEF D
  <2>5. IsFiniteSet(D) /\ D \subseteq Int
    <3>1. ranked \subseteq Int
      BY <1>2
    <3> QED
      BY <1>2, <2>4, <3>1, PartFinite
  <2>6. first \in Int
    BY <2>3, <2>5, MinOf
  <2> HIDE DEF first, stored
  <2>7. /\ Trimmed(q, first, taken, stored).first \in Int
        /\ Trimmed(q, first, taken, stored).slots \in Nat
        /\ \/ Trimmed(q, first, taken, stored).slots = 0
           \/ Exportable(q, Trimmed(q, first, taken, stored).slots)
    BY <1>3, <2>2, <2>6, TrimmedType
  <2> QED
    BY <1>4, <2>7
<1> QED
  BY <1>1, <1>4 DEF NoExport

LEMMA StoredDCType ==
    ASSUME NEW q, RequestOK(q), NEW first, NEW n \in Nat
    PROVE  StoredDC(q, first, n) \in Nat
<1>1. n * OutAC \in Int
  BY Constants
<1>2. Drawn(n * OutAC) \in Int
  BY <1>1, DrawnType
<1>3. BuyDC(q, n) \in Nat
  BY <1>2, SpareType, Constants DEF BuyDC, AtLeast0, Lesser
<1>4. IsFiniteSet(BuySlots(q, first, n))
  <2>1. BuySlots(q, first, n) \subseteq Slots(q)
    BY DEF BuySlots, TradePool, Cheapest
  <2> QED
    BY <2>1, SlotsFinite, FS_Subset DEF RequestOK
<1>5. Cardinality(BuySlots(q, first, n)) * SlotDC \in Nat
  BY <1>4, SlotDCType, FS_CardinalityType
<1> QED
  BY <1>3, <1>5 DEF StoredDC, Lesser

\* What the trading pass works out is sound, whatever rank it gives a slot.
LEMMA PathSound ==
    ASSUME NEW q, RequestOK(q), NEW free
    PROVE  PlanSound(q, PathT(q).plan, free) /\ Plain(q, PathT(q).plan)
<1> DEFINE count == ExportCount(q)
           n == count.slots
           first == count.first
           exports == Dearest(ExportRank(q), n, q.price)
           buys == BuySlots(q, first, n)
           stored == StoredDC(q, first, n)
<1>1. PathT(q) = Traded(q, count, exports, buys, stored)
  BY DEF PathT, Path
<1>2. first \in Int /\ n \in Nat /\ (n = 0 \/ Exportable(q, n))
  BY ExportCountType
<1>3. stored \in Nat
  BY <1>2, StoredDCType
<1>4. exports \subseteq Slots(q) /\ IsFiniteSet(exports)
  <2>1. exports \subseteq ExportRank(q)
    BY DEF Dearest
  <2> QED
    BY <2>1, ExportRankIn, FS_Subset
<1>5. Cardinality(exports) <= n /\ Cardinality(exports) \in Nat
  <2>1. Cardinality(exports) <= n
    BY <1>2, ExportRankIn, DearestSize
  <2> QED
    BY <1>4, <2>1, FS_CardinalityType
<1> HIDE DEF exports
<1>6. ExportsFit(q, exports)
  <2>1. SUFFICES ASSUME q.trade.cap > 0
                 PROVE  Cardinality(exports) * OutAC <= q.trade.cap
    BY DEF ExportsFit
  <2>2. n * OutAC <= q.trade.cap
    <3>1. CASE n = 0
      <4>1. n * OutAC = 0 /\ q.trade.cap \in Nat
        BY <3>1, Constants DEF RequestOK
      <4> HIDE DEF n
      <4> QED
        BY <2>1, <4>1
    <3>2. CASE Exportable(q, n)
      BY <2>1, <3>2 DEF Exportable, RequestOK
    <3> QED
      BY <1>2, <3>1, <3>2
  <2>3. /\ Cardinality(exports) * OutAC <= n * OutAC
        /\ Cardinality(exports) * OutAC \in Int /\ n * OutAC \in Int
    BY <1>2, <1>5, Constants
  <2>4. q.trade.cap \in Nat
    BY DEF RequestOK
  <2> HIDE DEF n
  <2> QED
    BY <2>2, <2>3, <2>4
<1>7. count.first \in Int
  BY <1>2
<1> HIDE DEF count, buys, stored
<1>8. /\ PlanSound(q, Traded(q, count, exports, buys, stored).plan, free)
      /\ Plain(q, Traded(q, count, exports, buys, stored).plan)
  BY <1>3, <1>4, <1>6, <1>7, TradedSound
<1> QED
  BY <1>1, <1>8

LEMMA MaybeTradeSound ==
    ASSUME NEW q, RequestOK(q), NEW z, NEW free, PlanSound(q, z, free), Plain(q, z)
    PROVE  PlanSound(q, MaybeTrade(q, z), free) /\ Plain(q, MaybeTrade(q, z))
<1>1. MaybeTrade(q, z) \in {z, NoTrade(q), PathT(q).plan}
  BY Zenon DEF MaybeTrade, Overlay
<1> QED
  BY <1>1, NoTradeSound, PathSound

-----------------------------------------------------------------------------
(* What every plan goes through before it is acted on.                     *)

LEMMA CyclesThins ==
    ASSUME NEW q, RequestOK(q), NEW p, NEW free, PlanSound(q, p, free)
    PROVE  Thins(q, p, Cycles(q, p), free) /\ (CapKept(q, p) => CapKept(q, Cycles(q, p)))
<1>1. Cycles(q, p) \in {p, ClampCycleBudget(q, p)}
  BY DEF Cycles
<1> QED
  BY <1>1, ThinsRefl, ClampCycleBudgetThins

\* The planner's own plan is sound and keeps the day cap.
LEMMA BuildPlanSound ==
    ASSUME NEW q, RequestOK(q), NEW free
    PROVE  PlanSound(q, BuildPlan(q), free) /\ CapKept(q, BuildPlan(q))
<1> DEFINE a == MaybeTrade(q, SeasonPlan(q))
           b == Limits(q, a)
           c == Cycles(q, b)
           d == ApplyMustCharge(q, c)
           e == ApplyResidentOverlay(q, d)
           f == Limits(q, e)
           g == Cycles(q, f)
<1>1. BuildPlan(q) = SavingsFloor(q, g)
  BY DEF BuildPlan, Precautions
<1>2. PlanSound(q, a, free) /\ Plain(q, a)
  BY SeasonSound, MaybeTradeSound
<1> HIDE DEF a
<1>3. PlanSound(q, b, free) /\ Plain(q, b)
  BY <1>2, ClampGridChargeThins DEF Thins, Limits
<1> HIDE DEF b
<1>4. PlanSound(q, c, free) /\ Plain(q, c)
  BY <1>3, CyclesThins DEF Thins
<1> HIDE DEF c
<1>5. PlanSound(q, d, free) /\ Plain(q, d)
  BY <1>4, MustChargeSound
<1> HIDE DEF d
<1>6. PlanSound(q, e, free)
  BY <1>5, ResidentSound
<1> HIDE DEF e
<1>7. PlanSound(q, f, free) /\ CapKept(q, f)
  BY <1>6, ClampGridChargeThins DEF Thins, Limits
<1> HIDE DEF f
<1>8. PlanSound(q, g, free) /\ CapKept(q, g)
  BY <1>7, CyclesThins DEF Thins
<1> HIDE DEF g
<1>9. PlanSound(q, SavingsFloor(q, g), free) /\ CapKept(q, SavingsFloor(q, g))
  BY <1>8, SavingsFloorThins DEF Thins
<1> QED
  BY <1>1, <1>9

Paused(s) == [s EXCEPT !.intent = Hold, !.power = Unset, !.why = "stale"]
Raised(s, floor) == [s EXCEPT !.floor = Greater(@, floor)]

(* A slot that charges stays as it is when the meter is stale, another one *)
(* may hold and carries the raised floor.                                  *)
LEMMA CautiousSound ==
    ASSUME NEW q, NEW i, NEW s \in SlotType, NEW strategy, NEW free,
           SlotSound(q, i, s, strategy, free), s.intent # Charge, NEW raised \in Int,
           NEW h \in {s, Paused(s)}
    PROVE  /\ Raised(h, raised) \in SlotType
           /\ SlotSound(q, i, Raised(h, raised), strategy, free)
           /\ Raised(h, raised).intent \in {s.intent, Hold}
<1> DEFINE r == Raised(h, raised)
<1>1. /\ h \in SlotType /\ h.intent \in {s.intent, Hold}
      /\ h.floor = s.floor /\ h.power \in {s.power, Unset} /\ h.why \in {s.why, "stale"}
      /\ h.intent # s.intent => h.power = Unset
      /\ h.intent = Export => h = s
  <2>1. CASE h = s
    BY <2>1
  <2>2. CASE h = Paused(s)
    <3>1. Hold \in Intents /\ "stale" \in Reasons
      BY DEF Intents, Reasons
    <3> DEFINE a == [s EXCEPT !.intent = Hold]
               b == [a EXCEPT !.power = Unset]
    <3>2. a \in SlotType /\ a.intent = Hold /\ a.floor = s.floor
      BY <3>1 DEF SlotType
    <3>3. h = [b EXCEPT !.why = "stale"]
      BY <2>2 DEF Paused
    <3> HIDE DEF a
    <3>4. b \in SlotType /\ b.intent = Hold /\ b.floor = s.floor /\ b.power = Unset
      BY <3>2 DEF SlotType
    <3> HIDE DEF b
    <3>5. /\ h \in SlotType /\ h.intent = Hold /\ h.floor = s.floor /\ h.power = Unset
          /\ h.why = "stale"
      BY <3>1, <3>3, <3>4 DEF SlotType
    <3> QED
      BY <3>5, IntentsDiffer
  <2> QED
    BY <2>1, <2>2
<1>2. /\ r \in SlotType /\ r.intent = h.intent /\ r.power = h.power /\ r.why = h.why
      /\ r.floor = Greater(h.floor, raised)
  <2>1. h.floor \in Int
    BY <1>1 DEF SlotType
  <2>2. Greater(h.floor, raised) \in Int
    BY <2>1 DEF Greater
  <2> QED
    BY <1>1, <2>2 DEF SlotType, Raised
<1> HIDE DEF r
<1>3. r.intent # Charge /\ ~IsMustCharge(r)
  BY <1>1, <1>2, IntentsDiffer DEF SlotSound, IsMustCharge
<1>4. r.power <= OutAC \/ (strategy = "summer" /\ Net(q, i) > OutAC)
  BY <1>1, <1>2, Constants DEF SlotSound
<1>5. r.intent = Export => r.power = OutAC /\ r.floor >= Floor
  <2>1. s.floor \in Int
    BY DEF SlotType
  <2>2. h.intent = Export => s.power = OutAC /\ s.floor >= Floor /\ h = s
    BY <1>1 DEF SlotSound
  <2>3. h = s => r.power = s.power /\ r.floor >= s.floor
    BY <1>2, <2>1 DEF Greater
  <2>4. r.floor \in Int
    BY <1>2 DEF SlotType
  <2> QED
    BY <1>2, <2>1, <2>2, <2>3, <2>4, Constants
<1>6. SlotSound(q, i, r, strategy, free)
  BY <1>3, <1>4, <1>5 DEF SlotSound
<1> QED
  BY <1>1, <1>2, <1>6 DEF r

\* A stale meter only raises floors and stops discharging.
LEMMA StaleCautionSound ==
    ASSUME NEW q, RequestOK(q), NEW p, NEW free, PlanSound(q, p, free), CapKept(q, p)
    PROVE  PlanSound(q, StaleCaution(q, p), free) /\ CapKept(q, StaleCaution(q, p))
<1> DEFINE raised == Lesser(Usable, Floor + Buffer)
           Target(i) == IF p.slots[i].target # Unset THEN p.slots[i].target ELSE Usable
           Step(i, intent, w) ==
               After(intent, w, q.load[i] - q.solar[i], Target(i), ChargeAC)
           Holds(i, w) ==
               LET next == Step(i, p.slots[i].intent, w)
               IN  /\ next < raised /\ next < w
                   /\ MayDischarge(p.slots[i])
           level[i \in (q.now - 1) .. q.known] ==
               IF i < q.now THEN q.soc
               ELSE Step(i, IF Holds(i, level[i - 1]) THEN Hold ELSE p.slots[i].intent, level[i - 1])
           cautious(i) == IF Holds(i, level[i - 1]) THEN Paused(p.slots[i]) ELSE p.slots[i]
           f == [i \in DOMAIN p.slots |->
                   IF p.slots[i].intent = Charge THEN p.slots[i]
                   ELSE Raised(cautious(i), raised)]
           r == [p EXCEPT !.slots = f]
<1>1. StaleCaution(q, p) = r
  BY DEF StaleCaution, Paused, Raised
<1>2. p \in PlanType(q) /\ DOMAIN p.slots = Slots(q)
  BY DEF PlanSound, PlanType
<1>3. \A i \in Slots(q) : cautious(i) \in {p.slots[i], Paused(p.slots[i])}
  <2> HIDE DEF Holds, level
  <2> QED
    OBVIOUS
<1> HIDE DEF cautious
<1>4. raised \in Int
  BY Constants DEF Lesser
<1> HIDE DEF raised
<1>5. ASSUME NEW i \in Slots(q)
      PROVE  /\ f[i] \in SlotType /\ SlotSound(q, i, f[i], p.strategy, free)
             /\ f[i].intent \in {Hold, p.slots[i].intent}
  <2> DEFINE s == p.slots[i]
             h == cautious(i)
             strategy == p.strategy
  <2>1. s \in SlotType /\ SlotSound(q, i, s, strategy, free)
    BY <1>2, SlotOf DEF PlanSound
  <2>2. h \in {s, Paused(s)}
    BY <1>3
  <2>3. f[i] = IF s.intent = Charge THEN s ELSE Raised(h, raised)
    BY <1>2
  <2> HIDE DEF f, s, h, strategy
  <2>4. CASE s.intent = Charge
    BY <2>1, <2>3, <2>4 DEF s, strategy
  <2>5. CASE s.intent # Charge
    <3>1. /\ Raised(h, raised) \in SlotType
          /\ SlotSound(q, i, Raised(h, raised), strategy, free)
          /\ Raised(h, raised).intent \in {s.intent, Hold}
      BY <1>4, <2>1, <2>2, <2>5, CautiousSound
    <3>2. f[i] \in SlotType /\ SlotSound(q, i, f[i], strategy, free) /\ f[i].intent \in {s.intent, Hold}
      BY <2>3, <2>5, <3>1
    <3> QED
      BY <3>2 DEF s, strategy
  <2> QED
    BY <2>4, <2>5
<1>6. f \in [Slots(q) -> SlotType]
  BY <1>2, <1>5
<1> HIDE DEF f
<1>7. PlanSound(q, r, free)
  BY <1>5, <1>6, IntentsDiffer, Reslotted
<1>8. r.slots = f /\ r \in PlanType(q)
  BY <1>2, <1>6 DEF PlanType
<1> HIDE DEF r
<1>9. With(r, Charge) \subseteq With(p, Charge)
  <2>1. /\ With(r, Charge) = {i \in Slots(q) : f[i].intent = Charge}
        /\ With(p, Charge) = {i \in Slots(q) : p.slots[i].intent = Charge}
    BY <1>2, <1>8, WithIn
  <2> QED
    BY <1>5, <2>1, IntentsDiffer
<1> QED
  BY <1>1, <1>7, <1>9, CapStays

\* The plan before recovery.
LEMMA PlanForSound ==
    ASSUME NEW q, RequestOK(q), NEW free
    PROVE  PlanSound(q, PlanFor(q), free) /\ CapKept(q, PlanFor(q))
<1>1. PlanFor(q) \in {BuildPlan(q), StaleCaution(q, BuildPlan(q))}
  BY DEF PlanFor, Careful
<1> QED
  BY <1>1, BuildPlanSound, StaleCautionSound

-----------------------------------------------------------------------------
(* The catch-up.                                                           *)

\* The slot that is running is paid for by a peak, when there is one left.
LEMMA CatchUpPays ==
    ASSUME NEW q, RequestOK(q), NEW p \in PlanType(q), With(p, ForLoad) # {},
           q.now \in CatchUpSlots(q, p)
    PROVE  Pays(q, q.now)
<1> DEFINE peaks == With(p, ForLoad)
           price == [k \in peaks |-> q.price[k]]
           P == {price[k] : k \in peaks}
<1>1. peaks \subseteq Slots(q)
  BY WithIn
<1>2. q.now \notin peaks /\ WithinMaxBuy(q.price[q.now], Min(P)) /\ q.now \in Slots(q)
  <2>1. P = {q.price[i] : i \in peaks}
    OBVIOUS
  <2> QED
    BY <2>1 DEF CatchUpSlots
<1>3. IsFiniteSet(P)
  <2>1. IsFiniteSet(peaks)
    BY <1>1, SlotsFinite, FS_Subset DEF RequestOK
  <2> HIDE DEF price, peaks
  <2> QED
    BY <2>1, ImageFinite
<1>4. P \subseteq Int /\ \A k \in peaks : q.price[k] \in P
  BY <1>1 DEF RequestOK
<1> HIDE DEF P
<1>5. PICK d : d \in peaks
  OBVIOUS
<1>6. d \in Slots(q) /\ d > q.now
  BY <1>1, <1>2, <1>5 DEF Slots, RequestOK
<1>7. Min(P) \in Int /\ Min(P) <= q.price[d]
  BY <1>3, <1>4, <1>5, MinOf
<1>8. /\ ImportPrice(q, d) \in Int /\ q.price[d] \in Int /\ q.price[d] <= ImportPrice(q, d)
      /\ q.price[q.now] \in Int
  BY <1>2, <1>6, ImportPriceType
<1>9. Min(P) <= ImportPrice(q, d)
  BY <1>7, <1>8
<1>10. WithinMaxBuy(q.price[q.now], ImportPrice(q, d))
  BY <1>2, <1>7, <1>8, <1>9, MaxBuyMonotone
<1> QED
  BY <1>6, <1>10 DEF Pays

\* A slot recovered by the catch-up is sound.
LEMMA RecoveredSound ==
    ASSUME NEW q, NEW i, NEW free, NEW reached \in Floor .. Usable, NEW last \in Int,
           ~free /\ i = q.now => Pays(q, i)
    PROVE  LET s == Slot(Charge, reached, ChargeAC, Floor, last, "catch_up")
           IN  s \in SlotType /\ SlotSound(q, i, s, "winter", free) /\ s.intent = Charge
<1> DEFINE s == Slot(Charge, reached, ChargeAC, Floor, last, "catch_up")
<1>1. /\ s \in SlotType /\ s.intent = Charge /\ s.target = reached /\ s.power = ChargeAC
      /\ s.floor = Floor /\ s.why = "catch_up"
  <2>1. Charge \in Intents /\ "catch_up" \in Reasons
    BY DEF Intents, Reasons
  <2>2. reached \in Int /\ ChargeAC \in Int /\ Floor \in Int
    BY Constants
  <2> QED
    BY <2>1, <2>2, SlotMade
<1> HIDE DEF s
<1>2. SlotSound(q, i, s, "winter", free)
  BY <1>1, IntentsDiffer DEF SlotSound, IsMustCharge
<1> QED
  BY <1>1, <1>2 DEF s

\* A slot the catch-up supersedes is sound.
LEMMA SupersededSound ==
    ASSUME NEW q, NEW i, NEW free, NEW strategy, NEW floor \in Int
    PROVE  LET s == Slot(SelfUse, Unset, Unset, floor, Unset, "superseded")
           IN  s \in SlotType /\ SlotSound(q, i, s, strategy, free) /\ s.intent = SelfUse
<1> DEFINE s == Slot(SelfUse, Unset, Unset, floor, Unset, "superseded")
<1>1. /\ s \in SlotType /\ s.intent = SelfUse /\ s.power = Unset /\ s.why = "superseded"
  <2>1. SelfUse \in Intents /\ "superseded" \in Reasons
    BY DEF Intents, Reasons
  <2> QED
    BY <2>1, SlotMade
<1> HIDE DEF s
<1>2. SlotSound(q, i, s, strategy, free)
  BY <1>1, IntentsDiffer, Constants, QuietSound
<1> QED
  BY <1>1, <1>2 DEF s

\* The plan with its catch-up is sound, and pays for itself when the plan it
\* makes up for has a peak (recovery.py, build_catch_up_plan).
LEMMA CaughtUpSound ==
    ASSUME NEW q, RequestOK(q), NEW p, NEW free, PlanSound(q, p, free), p.strategy = "winter",
           p.target # Unset, With(p, ForLoad) # {} \/ free
    PROVE  PlanSound(q, CaughtUp(q, p), free) /\ CaughtUp(q, p).strategy = "winter"
<1> DEFINE needed == Slices(p.target - q.soc)
           chosen == Cheapest(CatchUpSlots(q, p), needed, q.price)
           reached == IF Cardinality(chosen) >= needed THEN p.target
                      ELSE Lesser(p.target, Greater(Floor, q.soc + Cardinality(chosen) * SlotDC))
           last == LastPeak(p)
           f == [i \in DOMAIN p.slots |->
                   IF i \in chosen THEN Slot(Charge, reached, ChargeAC, Floor, last, "catch_up")
                   ELSE IF i \in With(p, Charge)
                        THEN Slot(SelfUse, Unset, Unset, p.slots[i].floor, Unset, "superseded")
                   ELSE p.slots[i]]
           r == Retargeted(p, reached, last, f)
<1>1. CaughtUp(q, p) = r
  BY DEF CaughtUp, Retargeted
<1>2. p \in PlanType(q) /\ DOMAIN p.slots = Slots(q)
  BY DEF PlanSound, PlanType
<1>3. p.target \in Floor .. Usable
  BY DEF PlanSound
<1>4. chosen \subseteq CatchUpSlots(q, p) /\ chosen \subseteq Slots(q)
  BY DEF Cheapest, CatchUpSlots
<1>5. Cardinality(chosen) * SlotDC \in Int
  <2>1. IsFiniteSet(chosen)
    BY <1>4, SlotsFinite, FS_Subset DEF RequestOK
  <2> QED
    BY <2>1, SlotDCType, FS_CardinalityType
<1>6. reached \in Floor .. Usable
  <2>1. q.soc + Cardinality(chosen) * SlotDC \in Int
    BY <1>5 DEF RequestOK
  <2> DEFINE g == Greater(Floor, q.soc + Cardinality(chosen) * SlotDC)
  <2>2. g \in Int /\ g >= Floor
    BY <2>1, Constants DEF Greater
  <2> HIDE DEF g, needed, chosen
  <2>3. Lesser(p.target, g) \in Floor .. Usable
    BY <1>3, <2>2, Constants DEF Lesser
  <2> QED
    BY <1>3, <2>3 DEF g
<1>7. last \in Int
  <2> DEFINE S == {p.deadline} \union With(p, ForLoad)
  <2>1. IsFiniteSet(With(p, ForLoad)) /\ With(p, ForLoad) \subseteq Slots(q)
    BY WithFinite
  <2>2. Slots(q) \subseteq Int
    BY SlotsFinite DEF RequestOK
  <2>3. p.deadline \in Int
    BY <1>2 DEF PlanType
  <2>4. S \subseteq Int /\ S # {}
    BY <2>1, <2>2, <2>3
  <2>5. IsFiniteSet(S)
    BY <2>1, FS_AddElement
  <2>6. last = Max(S)
    BY DEF LastPeak
  <2> HIDE DEF S, last
  <2> QED
    BY <2>4, <2>5, <2>6, MaxOf
<1>8. q.now \in chosen /\ ~free => Pays(q, q.now)
  <2> HIDE DEF chosen
  <2> QED
    BY <1>2, <1>4, CatchUpPays
<1> HIDE DEF needed, chosen, reached, last
<1>9. ASSUME NEW i \in Slots(q)
      PROVE  /\ f[i] \in SlotType /\ SlotSound(q, i, f[i], "winter", free)
             /\ f[i].intent = Export => p.slots[i].intent = Export
  <2> DEFINE s == p.slots[i]
             floor == p.slots[i].floor
             c == Slot(Charge, reached, ChargeAC, Floor, last, "catch_up")
             x == Slot(SelfUse, Unset, Unset, floor, Unset, "superseded")
  <2>1. s \in SlotType /\ SlotSound(q, i, s, "winter", free) /\ floor \in Int
    BY <1>2, SlotOf DEF PlanSound
  <2>2. \/ i \in chosen /\ f[i] = c
        \/ f[i] = x
        \/ f[i] = s
    BY <1>2
  <2> HIDE DEF f, s, floor
  <2>3. i \in chosen => c \in SlotType /\ SlotSound(q, i, c, "winter", free) /\ c.intent = Charge
    BY <1>6, <1>7, <1>8, RecoveredSound
  <2>4. x \in SlotType /\ SlotSound(q, i, x, "winter", free) /\ x.intent = SelfUse
    BY <2>1, SupersededSound
  <2> HIDE DEF c, x
  <2> QED
    BY <2>1, <2>2, <2>3, <2>4, IntentsDiffer DEF s
<1>10. f \in [Slots(q) -> SlotType]
  BY <1>2, <1>9
<1>11. reached \in Int
  BY <1>6, Constants
<1> HIDE DEF f
<1>12. r \in PlanType(q) /\ r.slots = f /\ r.target = reached /\ r.strategy = "winter"
  BY <1>2, <1>7, <1>10, <1>11, RetargetedType
<1> HIDE DEF r
<1>13. PlanSound(q, r, free)
  <2>1. r.target \in {Unset} \union Floor .. Usable
    BY <1>6, <1>12
  <2>2. \A i \in Slots(q) : SlotSound(q, i, r.slots[i], r.strategy, free)
    BY <1>9, <1>12
  <2>3. \A i \in Slots(q) : r.slots[i].intent = Export => p.slots[i].intent = Export
    BY <1>9, <1>12
  <2> QED
    BY <1>12, <2>1, <2>2, <2>3, SoundWhen
<1> QED
  BY <1>1, <1>12, <1>13

\* The plan before its last passes: what a catch-up may buy at any price is
\* bought only when the plan it makes up for has no peak left.
LEMMA RecoverSound ==
    ASSUME NEW q, RequestOK(q)
    PROVE  LET free == With(PlanFor(q), ForLoad) = {}
           IN  PlanSound(q, Recover(q, PlanFor(q)), free) /\ CapKept(q, Recover(q, PlanFor(q)))
<1> DEFINE p == PlanFor(q)
           free == With(p, ForLoad) = {}
<1>1. PlanSound(q, p, free) /\ CapKept(q, p)
  BY PlanForSound
<1>2. With(p, ForLoad) # {} \/ free
  OBVIOUS
<1> HIDE DEF p, free
<1>3. CASE CatchesUp(q, p)
  <2>1. p.strategy = "winter" /\ p.target # Unset
    BY <1>3 DEF CatchesUp, Missed
  <2>2. PlanSound(q, CaughtUp(q, p), free)
    BY <1>1, <1>2, <2>1, CaughtUpSound
  <2>3. /\ Thins(q, CaughtUp(q, p), ClampGridCharge(q, CaughtUp(q, p)), free)
        /\ CapKept(q, ClampGridCharge(q, CaughtUp(q, p)))
    BY <2>2, ClampGridChargeThins
  <2> QED
    BY <1>3, <2>3 DEF Recover, CatchUp, Thins, p, free
<1>4. CASE ~CatchesUp(q, p)
  BY <1>1, <1>4 DEF Recover, p, free
<1> QED
  BY <1>3, <1>4

-----------------------------------------------------------------------------
(* The projection: where a plan takes the battery.                         *)

Levels(q) == Lesser(Floor, q.soc) .. Usable

LEMMA RangeType ==
    ASSUME NEW q, RequestOK(q)
    PROVE  Levels(q) \subseteq Nat /\ q.soc \in Levels(q)
  BY Constants DEF RequestOK, Levels, Lesser

\* A slot leaves the battery between its floor, or where it already was
\* below it, and full.
LEMMA AfterRange ==
    ASSUME NEW q, RequestOK(q), NEW intent, NEW w \in Levels(q), NEW net \in Int
    PROVE  /\ After(intent, w, net, Usable, OutAC) \in Levels(q)
           /\ net <= 0 /\ intent \notin {Charge, Export}
                => After(intent, w, net, Usable, OutAC) = After(Hold, w, net, Usable, OutAC)
           /\ net > 0 => After(Hold, w, net, Usable, OutAC) = w
<1> DEFINE low == Lesser(Floor, q.soc)
           room == Usable - w
           above == AtLeast0(w - Floor)
           a == Lesser(SlotDC, Lesser(room, AtLeast0(Usable - w)))
           b == Lesser(Drawn(Lesser(net, OutAC)), above)
           c == Lesser(Stored(-net), Lesser(SlotDC, room))
           r == After(intent, w, net, Usable, OutAC)
<1>1. /\ low \in Int /\ low <= Floor /\ w \in Int /\ low <= w /\ w <= Usable
      /\ Usable \in Nat /\ Floor \in Nat /\ SlotDC \in Nat
  BY Constants, SlotDCType DEF RequestOK, Levels, Lesser
<1>2. /\ r = CASE intent = Charge -> w + a
               [] intent # Charge /\ net > 0 /\ intent # Hold -> w - b
               [] intent \notin {Charge, Export} /\ net < 0 -> w + c
               [] OTHER -> w
      /\ After(Hold, w, net, Usable, OutAC) = IF net < 0 THEN w + c ELSE w
  BY IntentsDiffer DEF After
<1>3. a \in Int /\ 0 <= a /\ a <= Usable - w
  BY <1>1 DEF Lesser, AtLeast0
<1>4. net > 0 => b \in Int /\ w - b >= low /\ b >= 0
  <2>1. SUFFICES ASSUME net > 0 PROVE b \in Int /\ w - b >= low /\ b >= 0
    OBVIOUS
  <2>2. Lesser(net, OutAC) \in Int /\ Lesser(net, OutAC) >= 0
    BY <2>1, Constants DEF Lesser
  <2>3. Drawn(Lesser(net, OutAC)) \in Int /\ Drawn(Lesser(net, OutAC)) >= 0
    BY <2>2, DrawnType
  <2>4. above \in Int /\ above >= 0 /\ w - above >= low
    BY <1>1 DEF AtLeast0
  <2> DEFINE d == Drawn(Lesser(net, OutAC))
  <2>5. d \in Int /\ d >= 0 /\ b = Lesser(d, above)
    BY <2>3
  <2> HIDE DEF d, above, b, low
  <2> QED
    BY <1>1, <2>4, <2>5 DEF Lesser
<1>5. net < 0 => c \in Int /\ 0 <= c /\ c <= Usable - w
  <2>1. SUFFICES ASSUME net < 0 PROVE c \in Int /\ 0 <= c /\ c <= Usable - w
    OBVIOUS
  <2>2. Stored(-net) \in Int /\ Stored(-net) >= 0
    BY <2>1, StoredType
  <2> QED
    BY <1>1, <2>2 DEF Lesser
<1> HIDE DEF a, b, c, r
<1>6. r \in low .. Usable
  <2>1. \/ r = w + a \/ (net > 0 /\ r = w - b) \/ (net < 0 /\ r = w + c) \/ r = w
    BY <1>2
  <2> HIDE DEF low
  <2> QED
    BY <1>1, <1>3, <1>4, <1>5, <2>1
<1>7. net <= 0 /\ intent \notin {Charge, Export} => r = IF net < 0 THEN w + c ELSE w
  BY <1>2
<1> QED
  BY <1>2, <1>6, <1>7 DEF Levels, r

Walked(q, p, f) ==
    f = [i \in (q.now - 1) .. q.known |->
            IF i < q.now THEN q.soc
            ELSE After(p.slots[i].intent, f[i - 1], q.load[i] - q.solar[i], Usable, OutAC)]

StepOf(q, p) ==
    [i \in Slots(q) |-> [w \in Levels(q) |->
        After(p.slots[i].intent, w, q.load[i] - q.solar[i], Usable, OutAC)]]

LEMMA LoadType ==
    ASSUME NEW q, RequestOK(q), NEW i \in Slots(q)
    PROVE  q.load[i] - q.solar[i] \in Int
  BY DEF RequestOK

\* Within the battery's range the projection is the walk with these steps.
LEMMA WalkedSteps ==
    ASSUME NEW q, RequestOK(q), NEW p, NEW f \in [(q.now - 1) .. q.known -> Levels(q)]
    PROVE  Walked(q, p, f) <=> IsWalk(q.now, q.known, q.soc, StepOf(q, p), f)
<1>1. q.now \in Nat /\ q.known \in Nat /\ q.now <= q.known
  BY DEF RequestOK
<1>2. ASSUME NEW i \in (q.now - 1) .. q.known
      PROVE  (IF i < q.now THEN q.soc ELSE StepOf(q, p)[i][f[i - 1]])
               = (IF i < q.now THEN q.soc
                  ELSE After(p.slots[i].intent, f[i - 1], q.load[i] - q.solar[i], Usable, OutAC))
  <2>1. CASE i < q.now
    BY <2>1
  <2>2. CASE ~(i < q.now)
    <3>1. i \in Slots(q) /\ i - 1 \in (q.now - 1) .. q.known
      BY <1>1, <2>2 DEF Slots
    <3>2. f[i - 1] \in Levels(q)
      BY <3>1
    <3> QED
      BY <3>1, <3>2 DEF StepOf
  <2> QED
    BY <2>1, <2>2
<1> QED
  BY <1>2 DEF Walked, IsWalk

\* The projection stays between the floor, or where the battery is below it,
\* and full, and is the walk with the plan's slots.
LEMMA ProjectWalks ==
    ASSUME NEW q, RequestOK(q), NEW p
    PROVE  /\ Project(q, p) \in [(q.now - 1) .. q.known -> Levels(q)]
           /\ Walked(q, p, Project(q, p))
           /\ \A f \in [(q.now - 1) .. q.known -> Levels(q)] :
                Walked(q, p, f) => f = Project(q, p)
<1> DEFINE T == [(q.now - 1) .. q.known -> Levels(q)]
           h == StepOf(q, p)
<1>1. q.now \in Nat /\ q.known \in Int /\ q.now - 1 <= q.known /\ q.soc \in Levels(q)
  BY RangeType DEF RequestOK
<1>2. \A i \in q.now .. q.known : \A x \in Levels(q) : h[i][x] \in Levels(q)
  <2>1. SUFFICES ASSUME NEW i \in Slots(q), NEW x \in Levels(q) PROVE h[i][x] \in Levels(q)
    BY DEF Slots
  <2>2. h[i][x] = After(p.slots[i].intent, x, q.load[i] - q.solar[i], Usable, OutAC)
    BY DEF StepOf
  <2> QED
    BY <2>2, LoadType, AfterRange
<1> HIDE DEF h
<1>3. PICK g \in T : IsWalk(q.now, q.known, q.soc, h, g)
  BY <1>1, <1>2, WalkExists
<1>4. Walked(q, p, g)
  BY <1>3, WalkedSteps DEF h
<1>5. Project(q, p) = CHOOSE f : Walked(q, p, f)
  BY DEF Project, Walked
<1>6. Walked(q, p, Project(q, p))
  BY <1>4, <1>5
<1>7. Project(q, p) \in T
  <2> DEFINE f == Project(q, p)
             S == {n \in Nat : q.now - 1 + n <= q.known => f[q.now - 1 + n] \in Levels(q)}
  <2>1. f = [i \in (q.now - 1) .. q.known |->
               IF i < q.now THEN q.soc
               ELSE After(p.slots[i].intent, f[i - 1], q.load[i] - q.solar[i], Usable, OutAC)]
    BY <1>6 DEF Walked
  <2> HIDE DEF f
  <2>2. 0 \in S
    BY <1>1, <2>1
  <2>3. ASSUME NEW n \in S PROVE n + 1 \in S
    <3>1. SUFFICES ASSUME q.now + n <= q.known PROVE f[q.now + n] \in Levels(q)
      <4>1. n + 1 \in Nat /\ q.now - 1 + (n + 1) = q.now + n
        BY <1>1
      <4> QED
        BY <3>1, <4>1
    <3>2. q.now + n \in Slots(q) /\ q.now + n - 1 = q.now - 1 + n
      BY <1>1, <3>1 DEF Slots
    <3>3. f[q.now + n - 1] \in Levels(q)
      BY <1>1, <3>1, <3>2
    <3> DEFINE i == q.now + n
    <3>4. i \in Slots(q) /\ i \in (q.now - 1) .. q.known /\ ~(i < q.now) /\ f[i - 1] \in Levels(q)
      BY <1>1, <3>1, <3>2, <3>3
    <3> HIDE DEF i
    <3>5. f[i] = After(p.slots[i].intent, f[i - 1], q.load[i] - q.solar[i], Usable, OutAC)
      BY <2>1, <3>4
    <3>6. f[i] \in Levels(q)
      BY <3>4, <3>5, LoadType, AfterRange
    <3> QED
      BY <3>6 DEF i
  <2>4. \A n \in Nat : n \in S
    <3> HIDE DEF S
    <3>1. S \subseteq Nat
      BY DEF S
    <3> QED
      BY <2>2, <2>3, <3>1, CountingUp
  <2>5. ASSUME NEW i \in (q.now - 1) .. q.known PROVE f[i] \in Levels(q)
    <3>1. i - (q.now - 1) \in Nat /\ q.now - 1 + (i - (q.now - 1)) = i /\ i <= q.known
      BY <1>1
    <3> QED
      BY <2>4, <3>1
  <2> QED
    BY <2>1, <2>5 DEF f
<1>8. ASSUME NEW f \in T, Walked(q, p, f) PROVE f = Project(q, p)
  <2> DEFINE z == Project(q, p)
  <2>1. IsWalk(q.now, q.known, q.soc, h, f) /\ IsWalk(q.now, q.known, q.soc, h, z)
    BY <1>6, <1>7, <1>8, WalkedSteps DEF h
  <2> HIDE DEF z
  <2> QED
    <3>1. f = z
      BY <1>1, <2>1, WalkUnique
    <3> QED
      BY <3>1 DEF z
<1> QED
  BY <1>6, <1>7, <1>8

-----------------------------------------------------------------------------
(* The passes that make a plan say what the projection says.               *)

FloorHold(s) ==
    [s EXCEPT !.intent = Hold, !.why = "floor", !.floor = IF @ = Unset THEN Floor ELSE @]

LEMMA FloorHoldSound ==
    ASSUME NEW q, NEW i, NEW s \in SlotType, NEW strategy, NEW free, s.intent = ForLoad,
           SlotSound(q, i, s, strategy, free)
    PROVE  /\ FloorHold(s) \in SlotType /\ SlotSound(q, i, FloorHold(s), strategy, free)
           /\ FloorHold(s).intent = Hold
<1> DEFINE a == [s EXCEPT !.intent = Hold]
           b == [a EXCEPT !.why = "floor"]
           floor == IF s.floor = Unset THEN Floor ELSE s.floor
           h == [b EXCEPT !.floor = floor]
<1>1. Hold \in Intents /\ "floor" \in Reasons /\ floor \in Int
  BY Constants DEF Intents, Reasons, SlotType
<1>2. FloorHold(s) = h
  BY DEF FloorHold, SlotType
<1>3. a \in SlotType /\ a.intent = Hold /\ a.power = s.power
  BY <1>1 DEF SlotType
<1> HIDE DEF a, floor
<1>4. b \in SlotType /\ b.intent = Hold /\ b.power = s.power /\ b.why = "floor"
  BY <1>1, <1>3 DEF SlotType
<1> HIDE DEF b
<1>5. h \in SlotType /\ h.intent = Hold /\ h.power = s.power /\ h.why = "floor"
  BY <1>1, <1>4 DEF SlotType
<1>6. s.power <= OutAC \/ (strategy = "summer" /\ Net(q, i) > OutAC)
  BY IntentsDiffer DEF SlotSound
<1> HIDE DEF h
<1>7. SlotSound(q, i, h, strategy, free)
  BY <1>5, <1>6, IntentsDiffer, QuietSound
<1> QED
  BY <1>2, <1>5, <1>7

OnFloor(p, w, i) == i \in With(p, ForLoad) /\ w[i] = w[i - 1] /\ w[i - 1] <= Floor

\* Marking the slots that rest on the floor keeps a plan sound, and the day
\* cap with it.
LEMMA FloorHoldsSound ==
    ASSUME NEW q, RequestOK(q), NEW p, NEW free, PlanSound(q, p, free), NEW w
    PROVE  /\ PlanSound(q, MarkFloorHolds(q, p, w), free)
           /\ MarkFloorHolds(q, p, w).strategy = p.strategy
           /\ MarkFloorHolds(q, p, w).target = p.target
           /\ MarkFloorHolds(q, p, w).deadline = p.deadline
           /\ With(MarkFloorHolds(q, p, w), Charge) = With(p, Charge)
           /\ \A i \in Slots(q) :
                /\ MarkFloorHolds(q, p, w).slots[i].intent
                     = IF OnFloor(p, w, i) THEN Hold ELSE p.slots[i].intent
                /\ OnFloor(p, w, i) => p.slots[i].intent = ForLoad
<1> DEFINE f == [i \in DOMAIN p.slots |->
                   IF OnFloor(p, w, i) THEN FloorHold(p.slots[i]) ELSE p.slots[i]]
           r == [p EXCEPT !.slots = f]
<1>1. MarkFloorHolds(q, p, w) = r
  BY DEF MarkFloorHolds, FloorHold, OnFloor
<1>2. p \in PlanType(q) /\ DOMAIN p.slots = Slots(q)
  BY DEF PlanSound, PlanType
<1>3. ASSUME NEW i \in Slots(q)
      PROVE  /\ f[i] \in SlotType /\ SlotSound(q, i, f[i], p.strategy, free)
             /\ f[i].intent = IF OnFloor(p, w, i) THEN Hold ELSE p.slots[i].intent
             /\ OnFloor(p, w, i) => p.slots[i].intent = ForLoad
  <2> DEFINE s == p.slots[i]
             strategy == p.strategy
  <2>1. s \in SlotType /\ SlotSound(q, i, s, strategy, free)
    BY <1>2, SlotOf DEF PlanSound
  <2>2. f[i] = IF OnFloor(p, w, i) THEN FloorHold(s) ELSE s
    BY <1>2
  <2>3. OnFloor(p, w, i) => s.intent = ForLoad
    BY DEF OnFloor, With
  <2> HIDE DEF f, s, strategy
  <2>4. s.intent = ForLoad => /\ FloorHold(s) \in SlotType
                              /\ SlotSound(q, i, FloorHold(s), strategy, free)
                              /\ FloorHold(s).intent = Hold
    BY <2>1, FloorHoldSound
  <2> QED
    BY <2>1, <2>2, <2>3, <2>4 DEF s, strategy
<1>4. f \in [Slots(q) -> SlotType]
  BY <1>2, <1>3
<1> HIDE DEF f
<1>5. \A i \in Slots(q) : f[i].intent = Export => p.slots[i].intent = Export
  BY <1>3, IntentsDiffer
<1>6. PlanSound(q, r, free)
  BY <1>3, <1>4, <1>5, Reslotted
<1>7. r.slots = f /\ r \in PlanType(q) /\ r.strategy = p.strategy /\ r.target = p.target
      /\ r.deadline = p.deadline
  BY <1>2, <1>4 DEF PlanType
<1> HIDE DEF r
<1>8. With(r, Charge) = With(p, Charge)
  <2>1. /\ With(r, Charge) = {i \in Slots(q) : f[i].intent = Charge}
        /\ With(p, Charge) = {i \in Slots(q) : p.slots[i].intent = Charge}
    BY <1>2, <1>7, WithIn
  <2> QED
    BY <1>3, <2>1, IntentsDiffer
<1> QED
  BY <1>1, <1>3, <1>6, <1>7, <1>8

\* A plan whose slots move the battery alike is projected alike.
LEMMA SameProjection ==
    ASSUME NEW q, RequestOK(q), NEW p, NEW r,
           \A i \in Slots(q) :
              After(r.slots[i].intent, Project(q, p)[i - 1], q.load[i] - q.solar[i], Usable, OutAC)
                = After(p.slots[i].intent, Project(q, p)[i - 1], q.load[i] - q.solar[i], Usable, OutAC)
    PROVE  Project(q, r) = Project(q, p)
<1> DEFINE f == Project(q, p)
<1>1. f \in [(q.now - 1) .. q.known -> Levels(q)] /\ Walked(q, p, f)
  BY ProjectWalks
<1>2. \A i \in Slots(q) :
         After(r.slots[i].intent, f[i - 1], q.load[i] - q.solar[i], Usable, OutAC)
           = After(p.slots[i].intent, f[i - 1], q.load[i] - q.solar[i], Usable, OutAC)
  OBVIOUS
<1> HIDE DEF f
<1>3. Walked(q, r, f)
  <2>1. ASSUME NEW i \in (q.now - 1) .. q.known
        PROVE  (IF i < q.now THEN q.soc
                ELSE After(p.slots[i].intent, f[i - 1], q.load[i] - q.solar[i], Usable, OutAC))
               = (IF i < q.now THEN q.soc
                  ELSE After(r.slots[i].intent, f[i - 1], q.load[i] - q.solar[i], Usable, OutAC))
    <3>1. i < q.now \/ i \in Slots(q)
      BY DEF Slots, RequestOK
    <3> QED
      BY <1>2, <3>1
  <2> QED
    BY <1>1, <2>1 DEF Walked
<1>4. f = Project(q, r)
  BY <1>1, <1>3, ProjectWalks
<1> QED
  BY <1>4 DEF f

\* Marking them changes nothing in what the plan projects.
LEMMA FloorHoldsProject ==
    ASSUME NEW q, RequestOK(q), NEW p, NEW free, PlanSound(q, p, free)
    PROVE  Project(q, MarkFloorHolds(q, p, Project(q, p))) = Project(q, p)
<1> DEFINE w == Project(q, p)
           r == MarkFloorHolds(q, p, w)
<1>1. w \in [(q.now - 1) .. q.known -> Levels(q)] /\ Walked(q, p, w)
  BY ProjectWalks
<1>2. w = Project(q, p)
  OBVIOUS
<1> HIDE DEF w
<1>3. \A i \in Slots(q) :
         /\ r.slots[i].intent = IF OnFloor(p, w, i) THEN Hold ELSE p.slots[i].intent
         /\ OnFloor(p, w, i) => p.slots[i].intent = ForLoad
  BY FloorHoldsSound
<1> HIDE DEF r
<1>4. ASSUME NEW i \in Slots(q)
      PROVE  After(r.slots[i].intent, w[i - 1], q.load[i] - q.solar[i], Usable, OutAC)
             = After(p.slots[i].intent, w[i - 1], q.load[i] - q.solar[i], Usable, OutAC)
  <2>1. CASE ~OnFloor(p, w, i)
    BY <1>3, <2>1
  <2>2. CASE OnFloor(p, w, i)
    <3> DEFINE net == q.load[i] - q.solar[i]
    <3>1. p.slots[i].intent = ForLoad /\ r.slots[i].intent = Hold /\ w[i] = w[i - 1]
      BY <1>3, <2>2 DEF OnFloor
    <3>2. i \in (q.now - 1) .. q.known /\ i - 1 \in (q.now - 1) .. q.known /\ ~(i < q.now)
          /\ net \in Int
      BY LoadType DEF Slots, RequestOK
    <3>3. w[i] = After(ForLoad, w[i - 1], net, Usable, OutAC)
      BY <1>1, <3>1, <3>2 DEF Walked
    <3>4. w[i - 1] \in Levels(q)
      BY <1>1, <3>2
    <3> HIDE DEF net
    <3>5. After(Hold, w[i - 1], net, Usable, OutAC) = After(ForLoad, w[i - 1], net, Usable, OutAC)
      <4>1. CASE net <= 0
        BY <3>2, <3>4, <4>1, AfterRange, IntentsDiffer
      <4>2. CASE net > 0
        BY <3>1, <3>2, <3>3, <3>4, <4>2, AfterRange
      <4> QED
        BY <3>2, <4>1, <4>2
    <3> QED
      BY <3>1, <3>5 DEF net
  <2> QED
    BY <2>1, <2>2
<1>5. Project(q, r) = Project(q, p)
  BY <1>2, <1>4, SameProjection
<1> QED
  BY <1>2, <1>5 DEF r

LoweredTo(q, w, d) == Greater(Floor, w[Lesser(d - 1, q.known)])

ShortOf(q, p, w, i) ==
    CommitDeadline(p, i) > q.now
    /\ FallsShort(w[Lesser(CommitDeadline(p, i) - 1, q.known)], CommitTarget(p, i))

ShortDeadlines(q, p, w) ==
    {CommitDeadline(p, i) : i \in {j \in With(p, Charge) : ShortOf(q, p, w, j)}}

Promised(s, target) == [s EXCEPT !.target = target]

LEMMA PromisedSound ==
    ASSUME NEW q, NEW i, NEW s \in SlotType, NEW strategy, NEW free,
           NEW target \in Floor .. Usable, SlotSound(q, i, s, strategy, free)
    PROVE  /\ Promised(s, target) \in SlotType
           /\ SlotSound(q, i, Promised(s, target), strategy, free)
           /\ Promised(s, target).target = target /\ Promised(s, target).intent = s.intent
           /\ Promised(s, target).deadline = s.deadline
<1> DEFINE r == Promised(s, target)
<1>1. target \in Int
  BY Constants
<1>2. /\ r \in SlotType /\ r.intent = s.intent /\ r.power = s.power /\ r.floor = s.floor
      /\ r.deadline = s.deadline /\ r.why = s.why /\ r.target = target
  BY <1>1 DEF Promised, SlotType
<1> HIDE DEF r
<1>3. SlotSound(q, i, r, strategy, free)
  BY <1>2 DEF SlotSound, IsMustCharge
<1> QED
  BY <1>2, <1>3 DEF r

LEMMA LoweredType ==
    ASSUME NEW q, RequestOK(q), NEW w \in [(q.now - 1) .. q.known -> Levels(q)],
           NEW d \in Int, d > q.now
    PROVE  LoweredTo(q, w, d) \in Floor .. Usable
<1> DEFINE k == Lesser(d - 1, q.known)
<1>1. k \in (q.now - 1) .. q.known
  BY DEF RequestOK, Lesser
<1> HIDE DEF k
<1>2. w[k] \in Levels(q)
  BY <1>1
<1>3. w[k] \in Int /\ w[k] <= Usable
  BY <1>2, Constants DEF Levels, Lesser, RequestOK
<1>4. LoweredTo(q, w, d) = Greater(Floor, w[k])
  BY DEF LoweredTo, k
<1> QED
  BY <1>3, <1>4, Constants DEF Greater

\* What the honest partial makes of a plan: the promises that fall short are
\* lowered to what the projection reaches, and nothing else changes.
LEMMA HonestPartialSound ==
    ASSUME NEW q, RequestOK(q), NEW p, NEW free, PlanSound(q, p, free),
           NEW w \in [(q.now - 1) .. q.known -> Levels(q)]
    PROVE  LET r == HonestPartial(q, p, w)
               short == ShortDeadlines(q, p, w)
           IN  /\ PlanSound(q, r, free) /\ r.strategy = p.strategy /\ r.deadline = p.deadline
               /\ With(r, Charge) = With(p, Charge)
               /\ \A i \in Slots(q) : r.slots[i].intent = p.slots[i].intent
                                      /\ r.slots[i].deadline = p.slots[i].deadline
               /\ (p.strategy = "winter" /\ r.target # Unset /\ p.deadline # Unset) =>
                     \A i \in With(p, Charge) :
                        IF CommitDeadline(p, i) \in short
                        THEN r.slots[i].target = LoweredTo(q, w, CommitDeadline(p, i))
                        ELSE r.slots[i].target = p.slots[i].target
<1> DEFINE short == ShortDeadlines(q, p, w)
           target == IF p.deadline \in short THEN LoweredTo(q, w, p.deadline)
                     ELSE Min({LoweredTo(q, w, d) : d \in short})
           late(i) == i \in With(p, Charge) /\ CommitDeadline(p, i) \in short
           f == [i \in DOMAIN p.slots |->
                   IF late(i) THEN Promised(p.slots[i], LoweredTo(q, w, CommitDeadline(p, i)))
                   ELSE p.slots[i]]
           r == Retargeted(p, target, p.deadline, f)
           asis == p.strategy # "winter" \/ p.target = Unset \/ p.deadline = Unset \/ short = {}
<1>1. p \in PlanType(q) /\ DOMAIN p.slots = Slots(q) /\ p.deadline \in Int
  BY DEF PlanSound, PlanType
<1>2. HonestPartial(q, p, w) = IF asis THEN p ELSE r
  <2> DEFINE z == [p EXCEPT !.target = target, !.slots = f]
  <2>1. HonestPartial(q, p, w) = IF asis THEN p ELSE z
    BY DEF HonestPartial, ShortDeadlines, ShortOf, LoweredTo, Promised
  <2>2. z = r
    <3> HIDE DEF target, f
    <3> QED
      BY <1>1 DEF Retargeted, PlanType
  <2> QED
    BY <2>1, <2>2
<1>3. \A d \in short : d \in Int /\ d > q.now
  <2>1. SUFFICES ASSUME NEW i \in With(p, Charge), CommitDeadline(p, i) > q.now
                 PROVE  CommitDeadline(p, i) \in Int
    BY DEF ShortDeadlines, ShortOf
  <2>2. i \in Slots(q)
    BY <1>1, WithIn
  <2>3. p.slots[i].deadline \in Int
    BY <1>1, <2>2, SlotOf
  <2> QED
    BY <1>1, <2>3 DEF CommitDeadline
<1>4. \A d \in short : LoweredTo(q, w, d) \in Floor .. Usable
  BY <1>3, LoweredType
<1>5. IsFiniteSet(short)
  <2> DEFINE C == {j \in With(p, Charge) : ShortOf(q, p, w, j)}
             g == [i \in C |-> CommitDeadline(p, i)]
  <2>1. IsFiniteSet(With(p, Charge))
    BY WithFinite
  <2>2. IsFiniteSet(C)
    BY <2>1, FS_Subset
  <2>3. short = {g[i] : i \in C}
    BY DEF ShortDeadlines
  <2> HIDE DEF C, g, short
  <2> QED
    BY <2>2, <2>3, ImageFinite
<1> HIDE DEF short
<1>6. short # {} => target \in Floor .. Usable
  <2> DEFINE g == [d \in short |-> LoweredTo(q, w, d)]
             L == {g[d] : d \in short}
  <2>1. IsFiniteSet(L)
    <3> HIDE DEF g
    <3> QED
      BY <1>5, ImageFinite
  <2>2. L = {LoweredTo(q, w, d) : d \in short}
    OBVIOUS
  <2>3. L \subseteq Floor .. Usable /\ (short # {} => L # {})
    BY <1>4
  <2> HIDE DEF L
  <2>4. L \subseteq Int
    BY <2>3, Constants
  <2>5. L # {} => Min(L) \in L
    BY <2>1, <2>4, MinOf
  <2> QED
    BY <1>4, <2>2, <2>3, <2>5
<1>7. ASSUME NEW i \in Slots(q)
      PROVE  /\ f[i] \in SlotType /\ SlotSound(q, i, f[i], p.strategy, free)
             /\ f[i].intent = p.slots[i].intent /\ f[i].deadline = p.slots[i].deadline
             /\ late(i) => f[i].target = LoweredTo(q, w, CommitDeadline(p, i))
             /\ ~late(i) => f[i].target = p.slots[i].target
  <2> DEFINE s == p.slots[i]
             strategy == p.strategy
             to == LoweredTo(q, w, CommitDeadline(p, i))
  <2>1. s \in SlotType /\ SlotSound(q, i, s, strategy, free)
    BY <1>1, SlotOf DEF PlanSound
  <2>2. f[i] = IF late(i) THEN Promised(s, to) ELSE s
    BY <1>1
  <2>3. late(i) => to \in Floor .. Usable
    BY <1>4
  <2> HIDE DEF f, s, strategy, to, late
  <2>4. to \in Floor .. Usable =>
          /\ Promised(s, to) \in SlotType /\ SlotSound(q, i, Promised(s, to), strategy, free)
          /\ Promised(s, to).target = to /\ Promised(s, to).intent = s.intent
          /\ Promised(s, to).deadline = s.deadline
    BY <2>1, PromisedSound
  <2> QED
    BY <2>1, <2>2, <2>3, <2>4 DEF s, strategy, to
<1>8. f \in [Slots(q) -> SlotType]
  BY <1>1, <1>7
<1> HIDE DEF f, target
<1>9. CASE ~asis
  <2>1. target \in Floor .. Usable /\ target \in Int
    BY <1>6, <1>9, Constants
  <2>2. /\ r \in PlanType(q) /\ r.slots = f /\ r.target = target /\ r.strategy = p.strategy
        /\ r.deadline = p.deadline
    BY <1>1, <1>8, <2>1, RetargetedType
  <2> HIDE DEF r
  <2>3. PlanSound(q, r, free)
    <3>1. r.target \in {Unset} \union Floor .. Usable
      BY <2>1, <2>2
    <3>2. \A i \in Slots(q) : SlotSound(q, i, r.slots[i], r.strategy, free)
      BY <1>7, <2>2
    <3>3. \A i \in Slots(q) : r.slots[i].intent = Export => p.slots[i].intent = Export
      BY <1>7, <2>2
    <3> QED
      BY <2>2, <3>1, <3>2, <3>3, SoundWhen
  <2>4. With(r, Charge) = With(p, Charge)
    <3>1. /\ With(r, Charge) = {i \in Slots(q) : f[i].intent = Charge}
          /\ With(p, Charge) = {i \in Slots(q) : p.slots[i].intent = Charge}
      BY <1>1, <2>2, WithIn
    <3> QED
      BY <1>7, <3>1
  <2>5. With(p, Charge) \subseteq Slots(q)
    BY <1>1, WithIn
  <2>6. \A i \in With(p, Charge) :
           IF CommitDeadline(p, i) \in short
           THEN r.slots[i].target = LoweredTo(q, w, CommitDeadline(p, i))
           ELSE r.slots[i].target = p.slots[i].target
    BY <1>7, <2>2, <2>5
  <2>7. HonestPartial(q, p, w) = r
    BY <1>2, <1>9
  <2> QED
    BY <1>7, <2>2, <2>3, <2>4, <2>6, <2>7 DEF short
<1>10. CASE asis
  <2>1. HonestPartial(q, p, w) = p
    BY <1>2, <1>10
  <2>2. (p.strategy = "winter" /\ p.target # Unset /\ p.deadline # Unset) => short = {}
    BY <1>10
  <2> QED
    BY <2>1, <2>2 DEF short
<1> QED
  BY <1>9, <1>10

-----------------------------------------------------------------------------
(* The cycle budget.                                                       *)

Restricted(p) == With(p, Charge) \union With(p, Export)
CycleSum(q, p, S) == SumFunction([j \in S |-> SlotCycle(q, j, p.slots[j])])
SameDay(i, S) == {j \in S : Day(j) = Day(i)}
Spent(q, p, i) ==
    CycleSum(q, p, SameDay(i, DOMAIN p.slots \ Restricted(p)))
    + (IF Day(i) = Day(q.now) /\ q.throughput # Unset THEN q.throughput ELSE 0)

Affordable(q, p, i, K) ==
    Spent(q, p, i) + CycleSum(q, p, SameDay(i, K)) + SlotCycle(q, i, p.slots[i]) <= q.cycles

KeepStep(q, p, i, K) == IF i \in Restricted(p) /\ Affordable(q, p, i, K) THEN K \union {i} ELSE K

KeepsAll(q, p, f) ==
    f = [i \in (q.now - 1) .. q.known |-> IF i < q.now THEN {} ELSE KeepStep(q, p, i, f[i - 1])]

\* The cycle clamp keeps what one walk over the slots kept.
LEMMA CycleBudgetIs ==
    ASSUME NEW q, NEW p
    PROVE  ClampCycleBudget(q, p)
             = Without(p, Restricted(p) \ (CHOOSE f : KeepsAll(q, p, f))[q.known], "cycles")
  BY DEF ClampCycleBudget, KeepsAll, KeepStep, Affordable, Spent, SameDay, CycleSum, Restricted

\* The walk of the kept cycles exists.
LEMMA KeptExists ==
    ASSUME NEW q, RequestOK(q), NEW p
    PROVE  KeepsAll(q, p, CHOOSE f : KeepsAll(q, p, f))
<1> DEFINE V == SUBSET Slots(q)
           h == [i \in Slots(q) |-> [K \in V |-> KeepStep(q, p, i, K)]]
<1>1. q.now \in Nat /\ q.known \in Int /\ q.now - 1 <= q.known /\ {} \in V
  BY DEF RequestOK
<1>2. \A i \in q.now .. q.known : \A x \in V : h[i][x] \in V
  <2>1. SUFFICES ASSUME NEW i \in Slots(q), NEW x \in V PROVE h[i][x] \in V
    BY DEF Slots
  <2>2. h[i][x] = KeepStep(q, p, i, x)
    OBVIOUS
  <2> HIDE DEF h
  <2> QED
    BY <2>2 DEF KeepStep
<1> HIDE DEF h
<1>3. PICK g \in [(q.now - 1) .. q.known -> V] : IsWalk(q.now, q.known, {}, h, g)
  <2> HIDE DEF V
  <2> QED
    BY <1>1, <1>2, WalkExists
<1>4. KeepsAll(q, p, g)
  <2>1. ASSUME NEW i \in (q.now - 1) .. q.known
        PROVE  (IF i < q.now THEN {} ELSE h[i][g[i - 1]])
                 = (IF i < q.now THEN {} ELSE KeepStep(q, p, i, g[i - 1]))
    <3>1. CASE i < q.now
      BY <3>1
    <3>2. CASE ~(i < q.now)
      <4>1. i \in Slots(q) /\ i - 1 \in (q.now - 1) .. q.known
        BY <1>1, <3>2 DEF Slots
      <4>2. g[i - 1] \in V
        BY <4>1
      <4> QED
        BY <4>1, <4>2 DEF h
    <3> QED
      BY <3>1, <3>2
  <2> QED
    BY <1>3, <2>1 DEF IsWalk, KeepsAll
<1> QED
  BY <1>4

\* What is kept of the running slot was affordable with nothing kept before.
LEMMA KeptNow ==
    ASSUME NEW q, RequestOK(q), NEW p, NEW f, KeepsAll(q, p, f), q.now \in f[q.known]
    PROVE  Affordable(q, p, q.now, {})
<1>1. q.now \in Nat /\ q.known \in Nat /\ q.now <= q.known
  BY DEF RequestOK
<1>2. \A i \in (q.now - 1) .. q.known :
         f[i] = IF i < q.now THEN {} ELSE KeepStep(q, p, i, f[i - 1])
  BY DEF KeepsAll
<1>3. f[q.now - 1] = {}
  BY <1>1, <1>2
<1>4. SUFFICES ASSUME ~Affordable(q, p, q.now, {}) PROVE FALSE
  OBVIOUS
<1> DEFINE S == {n \in Nat : q.now - 1 + n <= q.known => q.now \notin f[q.now - 1 + n]}
<1>5. 0 \in S
  BY <1>1, <1>3
<1>6. ASSUME NEW n \in S PROVE n + 1 \in S
  <2>1. SUFFICES ASSUME q.now + n <= q.known PROVE q.now \notin f[q.now + n]
    <3>1. n + 1 \in Nat /\ q.now - 1 + (n + 1) = q.now + n
      BY <1>1
    <3> QED
      BY <2>1, <3>1
  <2> DEFINE i == q.now + n
  <2>2. i \in Int /\ i >= q.now /\ i <= q.known /\ i - 1 = q.now - 1 + n
    BY <1>1, <2>1
  <2>3. q.now \notin f[i - 1]
    BY <1>1, <2>1, <2>2
  <2> HIDE DEF i
  <2>4. f[i] = KeepStep(q, p, i, f[i - 1])
    BY <1>1, <1>2, <2>2
  <2>5. i = q.now => ~Affordable(q, p, i, f[i - 1])
    BY <1>3, <1>4
  <2>6. q.now \notin f[i]
    BY <2>3, <2>4, <2>5 DEF KeepStep
  <2> QED
    BY <2>6 DEF i
<1>7. q.known - (q.now - 1) \in S
  <2>1. S \subseteq Nat /\ q.known - (q.now - 1) \in Nat
    BY <1>1
  <2> HIDE DEF S
  <2> QED
    BY <1>5, <1>6, <2>1, CountingUp
<1> QED
  BY <1>1, <1>7

\* What is charged or sold in the running slot stays within the cycles.
LEMMA CyclesOfNow ==
    ASSUME NEW q, RequestOK(q), NEW p, NEW free, PlanSound(q, p, free), q.throughput # Unset,
           ClampCycleBudget(q, p).slots[q.now].intent \in {Charge, Export}
    PROVE  q.throughput + SlotCycle(q, q.now, ClampCycleBudget(q, p).slots[q.now]) <= q.cycles
<1> DEFINE kept == CHOOSE f : KeepsAll(q, p, f)
           refused == Restricted(p) \ kept[q.known]
           r == Without(p, refused, "cycles")
           s == p.slots[q.now]
<1>1. ClampCycleBudget(q, p) = r
  BY CycleBudgetIs
<1>2. q.now \in Slots(q) /\ p \in PlanType(q) /\ DOMAIN p.slots = Slots(q)
  BY DEF Slots, RequestOK, PlanSound, PlanType
<1>3. KeepsAll(q, p, kept)
  BY KeptExists
<1> HIDE DEF kept
<1>4. r.slots[q.now] = IF q.now \in refused THEN Refused(s, "cycles") ELSE s
  <2> HIDE DEF refused
  <2> QED
    BY <1>2, WithoutThins
<1>5. s \in SlotType /\ SlotSound(q, q.now, s, p.strategy, free)
  BY <1>2, SlotOf DEF PlanSound
<1>6. q.now \notin refused
  <2>1. Refused(s, "cycles").intent = SelfUse
    BY <1>5, RefusedSound
  <2> QED
    BY <1>1, <1>4, <2>1, IntentsDiffer
<1>7. r.slots[q.now] = s
  BY <1>4, <1>6
<1>8. q.now \in Restricted(p)
  BY <1>1, <1>2, <1>7, WithIn DEF Restricted
<1>9. Affordable(q, p, q.now, {})
  BY <1>3, <1>6, <1>8, KeptNow
<1>10. CycleSum(q, p, SameDay(q.now, {})) = 0
  <2> DEFINE g == [j \in {} |-> SlotCycle(q, j, p.slots[j])]
  <2>1. SameDay(q.now, {}) = {} /\ DOMAIN g = {}
    BY DEF SameDay
  <2> HIDE DEF g
  <2>2. SumFunctionOnSet(g, {}) = 0
    BY SumEmpty
  <2> QED
    BY <2>1, <2>2 DEF CycleSum, SumFunction, g
<1>11. CycleSum(q, p, SameDay(q.now, Slots(q) \ Restricted(p))) \in Nat
  <2> DEFINE D == SameDay(q.now, Slots(q) \ Restricted(p))
             g == [j \in D |-> SlotCycle(q, j, p.slots[j])]
  <2>1. ASSUME NEW j \in D PROVE SlotCycle(q, j, p.slots[j]) \in Nat
    <3> DEFINE t == p.slots[j]
    <3>1. j \in Slots(q) /\ j \notin Restricted(p)
      BY DEF SameDay
    <3>2. t.intent # Charge /\ t.intent # Export /\ t.power \in Int
      BY <1>2, <3>1, WithIn, SlotOf DEF Restricted
    <3> HIDE DEF t
    <3>3. t.power > 0 => Drawn(t.power) \in Int /\ Drawn(t.power) >= 0
      BY <3>2, DrawnType
    <3>4. t.power > 0 => Ahead(q, j, Drawn(t.power)) \in Nat
      BY <3>3, AheadType
    <3>5. SlotCycle(q, j, t) \in Nat
      BY <3>2, <3>4 DEF SlotCycle
    <3> QED
      BY <3>5 DEF t
  <2>2. DOMAIN g = D /\ \A j \in D : g[j] \in Nat
    BY <2>1
  <2>3. D \subseteq Slots(q)
    BY DEF SameDay
  <2> HIDE DEF g, D
  <2>4. SumFunction(g) \in Nat
    BY <2>2, <2>3, SumOverSlots
  <2> QED
    BY <2>4 DEF CycleSum, g, D
<1>12. SlotCycle(q, q.now, s) \in Int
  <2>1. s.power \in Int /\ s.intent \in Intents
    BY <1>5 DEF SlotType
  <2>2. Stored(s.power) \in Int /\ Drawn(s.power) \in Int
    BY <2>1, StoredType, DrawnType
  <2>3. Ahead(q, q.now, Stored(s.power)) \in Int /\ Ahead(q, q.now, Drawn(s.power)) \in Int
    BY <2>2, AheadType
  <2> HIDE DEF s
  <2> QED
    BY <2>3, IntentsDiffer DEF SlotCycle
<1>13. q.throughput \in Int /\ q.cycles \in Nat
  BY DEF RequestOK
<1> DEFINE a == CycleSum(q, p, SameDay(q.now, Slots(q) \ Restricted(p)))
           b == SlotCycle(q, q.now, s)
<1>14. a + q.throughput + 0 + b <= q.cycles
  BY <1>2, <1>9, <1>10 DEF Affordable, Spent
<1>15. a \in Nat /\ b \in Int
  BY <1>11, <1>12
<1> HIDE DEF a, b
<1>16. q.throughput + b <= q.cycles
  BY <1>13, <1>14, <1>15
<1> QED
  BY <1>1, <1>7, <1>16 DEF b

-----------------------------------------------------------------------------
(* The plan that is acted on.                                              *)

NoPeaks(q) == With(PlanFor(q), ForLoad) = {}

\* The passes that follow recovery keep a plan sound and within the cap.
LEMMA SettledSound ==
    ASSUME NEW q, RequestOK(q), NEW p, NEW free, PlanSound(q, p, free), CapKept(q, p)
    PROVE  /\ PlanSound(q, Shown(q, p), free) /\ CapKept(q, Shown(q, p))
           /\ PlanSound(q, HonestPartial(q, MarkFloorHolds(q, p, Project(q, p)), Project(q, p)), free)
<1> DEFINE w == Project(q, p)
           m == MarkFloorHolds(q, p, w)
           h == HonestPartial(q, m, w)
<1>1. Shown(q, p) = ClampCycleBudget(q, h)
  BY DEF Shown, Settled
<1>2. w \in [(q.now - 1) .. q.known -> Levels(q)]
  BY ProjectWalks
<1> HIDE DEF w
<1>3. PlanSound(q, m, free) /\ With(m, Charge) \subseteq With(p, Charge)
  BY FloorHoldsSound
<1> HIDE DEF m
<1>4. PlanSound(q, h, free) /\ With(h, Charge) \subseteq With(m, Charge)
  BY <1>2, <1>3, HonestPartialSound
<1> HIDE DEF h
<1>5. CapKept(q, h)
  BY <1>3, <1>4, CapStays
<1>6. PlanSound(q, ClampCycleBudget(q, h), free) /\ CapKept(q, ClampCycleBudget(q, h))
  BY <1>4, <1>5, ClampCycleBudgetThins DEF Thins
<1> QED
  BY <1>1, <1>4, <1>6 DEF h, m, w

\* The plan that is acted on is sound and keeps the day cap.
LEMMA FinalPlanSound ==
    ASSUME NEW q, RequestOK(q)
    PROVE  PlanSound(q, FinalPlan(q), NoPeaks(q)) /\ CapKept(q, FinalPlan(q))
<1> DEFINE p == Recover(q, PlanFor(q))
           free == NoPeaks(q)
<1>1. PlanSound(q, p, free) /\ CapKept(q, p)
  BY RecoverSound DEF NoPeaks
<1>2. FinalPlan(q) = Shown(q, p)
  BY DEF FinalPlan
<1> HIDE DEF p, free
<1>3. PlanSound(q, Shown(q, p), free) /\ CapKept(q, Shown(q, p))
  BY <1>1, SettledSound
<1> QED
  BY <1>2, <1>3 DEF free

\* Its running slot keeps the day's cycles.
LEMMA FinalCycles ==
    ASSUME NEW q, RequestOK(q), q.throughput # Unset,
           FinalPlan(q).slots[q.now].intent \in {Charge, Export}
    PROVE  q.throughput + SlotCycle(q, q.now, FinalPlan(q).slots[q.now]) <= q.cycles
<1> DEFINE p == Recover(q, PlanFor(q))
           free == NoPeaks(q)
           h == HonestPartial(q, MarkFloorHolds(q, p, Project(q, p)), Project(q, p))
<1>1. PlanSound(q, p, free) /\ CapKept(q, p)
  BY RecoverSound DEF NoPeaks
<1>2. FinalPlan(q) = ClampCycleBudget(q, h)
  BY DEF FinalPlan, Shown, Settled
<1> HIDE DEF p, free
<1>3. PlanSound(q, h, free)
  BY <1>1, SettledSound
<1> HIDE DEF h
<1> QED
  BY <1>2, <1>3, CyclesOfNow

-----------------------------------------------------------------------------
(* The validator lets every sound plan pass.                               *)

\* The targets of a sound plan are between the floor and full.
LEMMA TargetsPass ==
    ASSUME NEW q, RequestOK(q), NEW p, NEW free, PlanSound(q, p, free)
    PROVE  ~TargetRefused(p, Floor)
<1>1. SUFFICES ASSUME NEW i \in With(p, Charge)
               PROVE  /\ p.slots[i].target \in Floor .. Usable
                      /\ p.slots[i].floor \in {Unset, Floor}
  <2>1. \A i \in With(p, Charge) : /\ p.slots[i].target \in 0 .. Usable
                                   /\ ~(p.slots[i].target < Floor)
                                   /\ ~(p.slots[i].target < IF p.slots[i].floor # Unset
                                                            THEN p.slots[i].floor ELSE Floor)
    BY <1>1, Constants
  <2> QED
    BY <2>1 DEF TargetRefused
<1>2. i \in Slots(q) /\ p.slots[i].intent = Charge
  BY Charging
<1> QED
  BY <1>2 DEF PlanSound, SlotSound

\* Its power is the battery's, but for a summer peak above it.
LEMMA PowersPass ==
    ASSUME NEW q, RequestOK(q), NEW p, NEW free, PlanSound(q, p, free), PowerRefused(p)
    PROVE  p.strategy = "summer" /\ \E i \in Slots(q) : Net(q, i) > OutAC
<1>1. DOMAIN p.slots = Slots(q) /\ p \in PlanType(q)
  BY DEF PlanSound, PlanType
<1>2. PICK i \in Slots(q) : p.slots[i].power >
                              (IF p.slots[i].intent = Charge THEN ChargeAC ELSE OutAC)
  BY <1>1 DEF PowerRefused
<1>3. SlotSound(q, i, p.slots[i], p.strategy, free) /\ p.slots[i].power \in Int
  BY <1>1, SlotOf DEF PlanSound
<1>4. p.slots[i].intent # Charge
  BY <1>2, <1>3, Constants DEF SlotSound
<1>5. ~(p.slots[i].power <= OutAC)
  BY <1>2, <1>3, <1>4, Constants
<1> QED
  BY <1>3, <1>4, <1>5 DEF SlotSound

\* Its exports are what the settings allow.
LEMMA ExportsPass ==
    ASSUME NEW q, RequestOK(q), NEW p, NEW free, PlanSound(q, p, free)
    PROVE  ~ExportRefused(q, p, TRUE)
<1> DEFINE E == With(p, Export)
           f == [i \in E |-> p.slots[i].power]
<1>1. IsFiniteSet(E) /\ E \subseteq Slots(q) /\ \A i \in E : p.slots[i].intent = Export
  BY WithFinite, WithIn DEF PlanSound
<1>2. \A i \in E : p.slots[i].power = OutAC /\ p.slots[i].floor >= Floor
  BY <1>1 DEF PlanSound, SlotSound
<1>3. SumFunction(f) = Cardinality(E) * OutAC
  <2>1. DOMAIN f = E /\ \A i \in E : f[i] = OutAC
    BY <1>2
  <2> HIDE DEF f, E
  <2>2. SumFunctionOnSet(f, E) = Cardinality(E) * OutAC
    BY <1>1, <2>1, SumOfEqual, Constants
  <2> QED
    BY <2>1, <2>2 DEF SumFunction
<1>4. q.trade.cap > 0 => Cardinality(E) * OutAC <= q.trade.cap
  BY DEF PlanSound, ExportsFit
<1>5. Cardinality(E) * OutAC \in Int /\ q.trade.cap \in Int
  BY <1>1, FS_CardinalityType, Constants DEF RequestOK
<1>6. \A i \in E : p.slots[i].floor \in Int
  BY <1>1, SlotOf DEF PlanSound
<1>7. ~(\E i \in E : p.slots[i].floor # Unset /\ p.slots[i].floor < Floor)
  BY <1>2, <1>6, Constants
<1>8. ~(q.trade.cap > 0 /\ SumFunction(f) > q.trade.cap)
  <2> DEFINE n == Cardinality(E) * OutAC
  <2>1. n \in Int /\ SumFunction(f) = n /\ (q.trade.cap > 0 => n <= q.trade.cap)
    BY <1>3, <1>4, <1>5
  <2> HIDE DEF n, f, E
  <2> QED
    BY <1>5, <2>1
<1> QED
  BY <1>7, <1>8 DEF ExportRefused

\* Each day's purchases keep the cap.
LEMMA DayCapPasses ==
    ASSUME NEW q, RequestOK(q), NEW p, NEW free, PlanSound(q, p, free), CapKept(q, p)
    PROVE  ~DayCapRefused(q, p)
<1> DEFINE planned(d) == GridEnergy(q, p, {i \in With(p, Charge) : Day(i) = d})
           had == IF q.bought = Unset THEN q.cap ELSE q.bought
           left(d) == q.cap - (IF d = Day(q.now) THEN had ELSE 0)
<1>1. SUFFICES ASSUME q.cap > 0, NEW d \in {Day(i) : i \in With(p, Charge)},
                      planned(d) > left(d)
               PROVE  FALSE
  BY DEF DayCapRefused
<1>2. planned(d) <= DayBudget(q, d)
  BY <1>1 DEF CapKept
<1>3. left(d) = DayBudget(q, d)
  BY DEF DayBudget, RequestOK
<1>4. planned(d) \in Int
  <2> DEFINE S == {i \in With(p, Charge) : Day(i) = d}
  <2>1. S \subseteq With(p, Charge)
    OBVIOUS
  <2> HIDE DEF S
  <2>2. GridEnergy(q, p, S) \in Int
    BY <2>1, EnergyBelow
  <2> QED
    BY <2>2 DEF S
<1>5. DayBudget(q, d) \in Int
  BY BudgetType
<1> HIDE DEF planned, left
<1> QED
  BY <1>1, <1>2, <1>3, <1>4, <1>5

\* Its precautions come before their deadlines.
LEMMA MustChargesPass ==
    ASSUME NEW q, RequestOK(q), NEW p, NEW free, PlanSound(q, p, free)
    PROVE  ~MustChargeRefused(p)
<1>1. DOMAIN p.slots = Slots(q) /\ p \in PlanType(q) /\ Slots(q) \subseteq Nat
  BY SlotsFinite DEF PlanSound, PlanType, RequestOK
<1>2. SUFFICES ASSUME NEW i \in Slots(q), IsMustCharge(p.slots[i])
               PROVE  /\ p.slots[i].target # Unset /\ p.slots[i].deadline # Unset
                      /\ ~(i > p.slots[i].deadline)
  BY <1>1 DEF MustChargeRefused
<1>3. SlotSound(q, i, p.slots[i], p.strategy, free) /\ p.slots[i].deadline \in Int
  BY <1>1, SlotOf DEF PlanSound
<1>4. /\ p.slots[i].intent = Charge /\ p.slots[i].deadline # Unset /\ i < p.slots[i].deadline
      /\ p.slots[i].target \in Floor .. Usable
  BY <1>2, <1>3 DEF SlotSound
<1> QED
  BY <1>1, <1>3, <1>4, Constants

\* A projection never goes below the floor.
LEMMA ProjectionPasses ==
    ASSUME NEW q, RequestOK(q), NEW p
    PROVE  ~ProjectionRefused(q, p)
<1>1. SUFFICES ASSUME NEW i \in Slots(q) PROVE ~(Project(q, p)[i] < Lesser(Floor, q.soc))
  BY DEF ProjectionRefused
<1>2. i \in (q.now - 1) .. q.known
  BY DEF Slots, RequestOK
<1>3. Project(q, p)[i] \in Levels(q)
  BY <1>2, ProjectWalks
<1>4. Lesser(Floor, q.soc) \in Int /\ Usable \in Int
  BY Constants DEF RequestOK, Lesser
<1> QED
  BY <1>3, <1>4 DEF Levels

\* The promises of the plan that is acted on.
LEMMA PromiseKept ==
    ASSUME NEW q, RequestOK(q), NEW h, NEW free, PlanSound(q, h, free), NEW m,
           PlanSound(q, m, free), NEW w \in [(q.now - 1) .. q.known -> Levels(q)],
           h = HonestPartial(q, m, w),
           h.strategy = "winter", h.target # Unset, h.deadline # Unset,
           NEW i \in With(h, Charge), CommitDeadline(h, i) > q.now
    PROVE  \/ w[Lesser(CommitDeadline(h, i) - 1, q.known)] >= CommitTarget(h, i) - Margin
           \/ CommitTarget(h, i) = Floor
<1> DEFINE short == ShortDeadlines(q, m, w)
           d == CommitDeadline(m, i)
           k == Lesser(d - 1, q.known)
<1>1. /\ h.strategy = m.strategy /\ h.deadline = m.deadline
      /\ With(h, Charge) = With(m, Charge)
      /\ \A j \in Slots(q) : h.slots[j].intent = m.slots[j].intent
                             /\ h.slots[j].deadline = m.slots[j].deadline
      /\ (m.strategy = "winter" /\ h.target # Unset /\ m.deadline # Unset) =>
           \A j \in With(m, Charge) :
              IF CommitDeadline(m, j) \in short
              THEN h.slots[j].target = LoweredTo(q, w, CommitDeadline(m, j))
              ELSE h.slots[j].target = m.slots[j].target
  BY HonestPartialSound
<1>2. i \in Slots(q) /\ i \in With(m, Charge)
  BY <1>1, WithIn DEF PlanSound
<1>3. CommitDeadline(h, i) = d /\ d > q.now
  BY <1>1, <1>2 DEF CommitDeadline
<1>4. d \in Int
  <2>1. m \in PlanType(q) /\ m.deadline \in Int /\ m.slots[i].deadline \in Int
    BY <1>2, SlotOf DEF PlanSound, PlanType
  <2> QED
    BY <2>1 DEF CommitDeadline
<1>5. w[k] \in Int
  <2>1. k \in (q.now - 1) .. q.known
    <3>1. q.now \in Nat /\ q.known \in Nat /\ q.now <= q.known
      BY DEF RequestOK
    <3>2. d - 1 \in Int /\ d - 1 >= q.now
      BY <1>3, <1>4, <3>1
    <3> HIDE DEF d
    <3> QED
      BY <3>1, <3>2 DEF Lesser
  <2> HIDE DEF k
  <2>2. w[k] \in Levels(q)
    BY <2>1
  <2> QED
    BY <2>2, RangeType
<1>6. CommitTarget(h, i) = h.slots[i].target /\ CommitTarget(m, i) = m.slots[i].target
      /\ m.slots[i].target \in Int
  <2>1. h.slots[i].target \in Floor .. Usable /\ m.slots[i].target \in Floor .. Usable
    BY <1>2, WithIn DEF PlanSound, SlotSound
  <2>2. h.slots[i].target # Unset /\ m.slots[i].target # Unset /\ m.slots[i].target \in Int
    BY <2>1, Constants
  <2> QED
    BY <2>2 DEF CommitTarget
<1>7. CASE d \in short
  <2>1. h.slots[i].target = Greater(Floor, w[k])
    BY <1>1, <1>2, <1>7 DEF LoweredTo
  <2>2. h.slots[i].target = Floor \/ h.slots[i].target = w[k]
    BY <2>1 DEF Greater
  <2>3. w[k] >= w[k] - Margin
    BY <1>5, Constants
  <2> QED
    BY <1>3, <1>6, <2>2, <2>3
<1>8. CASE d \notin short
  <2>1. h.slots[i].target = m.slots[i].target
    BY <1>1, <1>2, <1>8
  <2>2. ~FallsShort(w[k], m.slots[i].target)
    BY <1>2, <1>3, <1>6, <1>8 DEF ShortDeadlines, ShortOf
  <2>3. w[k] >= m.slots[i].target - Margin
    BY <1>5, <1>6, <2>2, Constants DEF FallsShort
  <2> QED
    BY <1>3, <1>6, <2>1, <2>3
<1> QED
  BY <1>7, <1>8

\* The running plan's promise is its own projection's, or the floor.
LEMMA FinalPromise ==
    ASSUME NEW q, RequestOK(q), NEW r, r = FinalPlan(q),
           r.strategy = "winter", r.target # Unset, r.deadline # Unset,
           \A i \in Slots(q) : r.slots[i].why # "cycles",
           NEW i \in With(r, Charge), CommitDeadline(r, i) > q.now
    PROVE  \/ Project(q, r)[Lesser(CommitDeadline(r, i) - 1, q.known)]
                >= CommitTarget(r, i) - Margin
           \/ CommitTarget(r, i) = Floor
<1> DEFINE p == Recover(q, PlanFor(q))
           free == NoPeaks(q)
           w == Project(q, p)
           m == MarkFloorHolds(q, p, w)
           h == HonestPartial(q, m, w)
           refused == Restricted(h) \ (CHOOSE f : KeepsAll(q, h, f))[q.known]
<1>1. PlanSound(q, p, free) /\ CapKept(q, p)
  BY RecoverSound DEF NoPeaks
<1>2. r = ClampCycleBudget(q, h)
  BY DEF FinalPlan, Shown, Settled
<1> HIDE DEF p, free
<1>3. PlanSound(q, h, free) /\ PlanSound(q, m, free)
  BY <1>1, SettledSound, FloorHoldsSound
<1>4. w \in [(q.now - 1) .. q.known -> Levels(q)] /\ Project(q, m) = w
  BY <1>1, ProjectWalks, FloorHoldsProject
<1> HIDE DEF w, m
<1>5. Project(q, h) = w
  <2>1. \A j \in Slots(q) : h.slots[j].intent = m.slots[j].intent
    BY <1>3, <1>4, HonestPartialSound
  <2> HIDE DEF h
  <2>2. Project(q, h) = Project(q, m)
    BY <2>1, SameProjection
  <2> QED
    BY <1>4, <2>2
<1>6. h = HonestPartial(q, m, w)
  OBVIOUS
<1> HIDE DEF h
<1>7. r = Without(h, refused, "cycles")
  BY <1>2, CycleBudgetIs
<1> HIDE DEF refused
<1>8. h \in PlanType(q) /\ DOMAIN h.slots = Slots(q)
  BY <1>3 DEF PlanSound, PlanType
<1>9. \A j \in Slots(q) : r.slots[j] = IF j \in refused THEN Refused(h.slots[j], "cycles")
                                       ELSE h.slots[j]
  BY <1>3, <1>7, WithoutThins
<1>10. \A j \in Slots(q) : j \notin refused
  <2>1. SUFFICES ASSUME NEW j \in Slots(q) PROVE Refused(h.slots[j], "cycles").why = "cycles"
    BY <1>9
  <2>2. h.slots[j] \in SlotType
    BY <1>8, SlotOf
  <2> QED
    BY <2>2 DEF Refused, SlotType
<1>11. \A j \in Slots(q) : r.slots[j] = h.slots[j]
  BY <1>9, <1>10
<1>12. r.target = h.target /\ r.deadline = h.deadline /\ r.strategy = h.strategy
       /\ r \in PlanType(q)
  <2>1. r.target = h.target /\ r.deadline = h.deadline /\ r.strategy = h.strategy
    BY <1>7, <1>8 DEF Without, PlanType
  <2> QED
    BY <1>3, <1>7, <2>1, WithoutThins
<1>13. Project(q, r) = w
  <2>1. Project(q, r) = Project(q, h)
    BY <1>11, SameProjection
  <2> QED
    BY <1>5, <2>1
<1>14. i \in Slots(q) /\ i \in With(h, Charge)
  BY <1>8, <1>11, <1>12, WithIn
<1>15. CommitDeadline(r, i) = CommitDeadline(h, i) /\ CommitTarget(r, i) = CommitTarget(h, i)
  BY <1>11, <1>12, <1>14 DEF CommitDeadline, CommitTarget
<1> DEFINE d == CommitDeadline(h, i)
           t == CommitTarget(h, i)
<1>16. h.target # Unset /\ h.deadline # Unset /\ h.strategy = "winter" /\ d > q.now
  BY <1>12, <1>15
<1>17. w[Lesser(d - 1, q.known)] >= t - Margin \/ t = Floor
  BY <1>3, <1>4, <1>6, <1>14, <1>16, PromiseKept
<1> QED
  BY <1>13, <1>15, <1>17

-----------------------------------------------------------------------------
(* The loop.                                                               *)

LastOf(d) == Max(DOMAIN d.price)

ScenarioOK(d) ==
    /\ LastOf(d) \in Nat /\ Midnight <= LastOf(d) + 1
    /\ d.price \in [0 .. LastOf(d) -> Int]
    /\ d.load \in [0 .. LastOf(d) -> Nat] /\ d.solar \in [0 .. LastOf(d) -> Nat]
    /\ d.lowSolar \in [0 .. LastOf(d) -> Nat \union {Unset}]
    /\ d.soc \in 0 .. Usable
    /\ {d.must, d.resident} \subseteq {Unset} \union 0 .. Usable
    /\ d.ev \in Nat /\ d.cap \in Nat /\ d.cycles \in Nat /\ d.trade.cap \in Nat
    /\ d.mustMax \in Int /\ d.residentBy \in Int

\* Scenarios are what the settings and feeds let in.
LEMMA ScenarioType ==
    ASSUME NEW d \in Scenarios
    PROVE  ScenarioOK(d)
  BY ScenarioAssumption DEF ScenarioOK, LastOf

\* Until the world moves on the battery does what the last plan says.
PlanIsOfRequest ==
    (~due /\ request.now = now /\ request.half = half)
        => plan = FinalPlan(request) /\ mode = plan.slots[now]

LoopType ==
    /\ day \in Scenarios /\ now \in Nat /\ half \in BOOLEAN
    /\ known \in Nat /\ known <= LastOf(day)
    /\ soc \in 0 .. Usable /\ counted \in Int /\ throughput \in Int
    /\ sampled \in [battery : Int, grid : Int, n : Nat]
    /\ mode.target \in Int

LoopInv ==
    /\ LoopType
    /\ request.now = -1 \/ (RequestOK(request) /\ request.now <= known)
    /\ PlanIsOfRequest

\* The loop starts in the invariant.
LEMMA LoopStarts ==
    ASSUME Init
    PROVE  LoopInv
<1>1. ScenarioOK(day)
  BY ScenarioType DEF Init
<1>2. LoopType
  <2>1. Midnight - 1 \in Nat /\ Midnight - 1 <= LastOf(day)
    <3>1. Midnight > 0
      BY PlanAssumption
    <3> QED
      BY <1>1, <3>1, Constants DEF ScenarioOK
  <2>2. NoSample \in [battery : Int, grid : Int, n : Nat]
    BY DEF NoSample
  <2>3. mode.target = Unset
    BY DEF Init, Idle
  <2>4. day \in Scenarios /\ now \in Nat /\ half \in BOOLEAN
    BY DEF Init
  <2>5. known \in Nat /\ known <= LastOf(day)
    BY <2>1 DEF Init
  <2>6. soc \in 0 .. Usable
    BY <1>1 DEF Init, ScenarioOK
  <2>7. /\ counted \in Int /\ throughput \in Int
        /\ sampled \in [battery : Int, grid : Int, n : Nat]
    BY <2>2 DEF Init
  <2>8. mode.target \in Int
    BY <2>3
  <2> QED
    BY <2>4, <2>5, <2>6, <2>7, <2>8 DEF LoopType
<1>3. request.now = -1 /\ now # request.now
  BY DEF Init
<1> QED
  BY <1>2, <1>3 DEF LoopInv, PlanIsOfRequest

\* What the samples of a slot tell is a number, without samples too.
LEMMA SlotBoughtType ==
    ASSUME NEW s \in [battery : Int, grid : Int, n : Nat], NEW halves \in Nat
    PROVE  SlotBought(s, halves) \in Int
<1> DEFINE x == Lesser(AtLeast0(-s.battery), AtLeast0(s.grid))
<1>1. s.battery \in Int /\ s.grid \in Int /\ s.n \in Nat
  OBVIOUS
<1>2. x \in Int
  BY <1>1 DEF Lesser, AtLeast0
<1>3. s.n # 0 => (halves * x) \div s.n \in Int
  <2> HIDE DEF x
  <2>1. halves * x \in Int
    BY <1>2
  <2> QED
    BY <1>1, <2>1, Quotient
<1> HIDE DEF x
<1>4. SlotBought(s, halves) = IF s.n = 0 THEN 0 ELSE (halves * x) \div s.n
  BY DEF SlotBought, x
<1> QED
  BY <1>3, <1>4

\* A request is what a plan can be built from.
LEMMA RequestIsOK ==
    ASSUME LoopType, now <= known, NEW a \in BOOLEAN, NEW b \in BOOLEAN, NEW c \in BOOLEAN
    PROVE  /\ RequestOK(RequestFor(a, b, c)) /\ RequestFor(a, b, c).now = now
           /\ RequestFor(a, b, c).half = half
<1> DEFINE q == RequestFor(a, b, c)
<1>1. ScenarioOK(day)
  BY ScenarioType DEF LoopType
<1>2. BoughtToday \in Int
  BY SlotBoughtType DEF LoopType, BoughtToday
<1>3. /\ q.now = now /\ q.half = half /\ q.known = known /\ q.price = day.price
      /\ q.load = day.load /\ q.solar = day.solar /\ q.lowSolar = day.lowSolar
      /\ q.soc = soc /\ q.ev = day.ev /\ q.trade = day.trade /\ q.cap = day.cap
      /\ q.cycles = day.cycles /\ q.mustTarget = day.must /\ q.mustMax = day.mustMax
      /\ q.residentBy = day.residentBy
      /\ q.bought \in {BoughtToday, Unset} /\ q.throughput \in {throughput, Unset}
      /\ q.resident \in {day.resident, Unset}
  BY DEF RequestFor
<1> HIDE DEF q
<1>4. Slots(q) \subseteq 0 .. LastOf(day)
  <2>1. LastOf(day) \in Nat
    BY <1>1 DEF ScenarioOK
  <2>2. now \in Nat /\ known \in Nat /\ known <= LastOf(day)
    BY DEF LoopType
  <2>3. Slots(q) = now .. known
    BY <1>3 DEF Slots
  <2> QED
    BY <2>1, <2>2, <2>3
<1>5. \A i \in Slots(q) : /\ q.price[i] \in Int /\ q.load[i] \in Nat /\ q.solar[i] \in Nat
                          /\ q.lowSolar[i] \in Nat \union {Unset}
  BY <1>1, <1>3, <1>4 DEF ScenarioOK
<1>6. q.now \in Nat /\ q.known \in Nat /\ q.now <= q.known /\ q.soc \in 0 .. Usable
  BY <1>3 DEF LoopType
<1>7. {q.residentBy, q.bought, q.throughput, q.mustMax} \subseteq Int
  <2>1. day.residentBy \in Int /\ day.mustMax \in Int
    BY <1>1 DEF ScenarioOK
  <2>2. throughput \in Int
    BY DEF LoopType
  <2>3. q.bought \in Int /\ q.throughput \in Int
    BY <1>2, <1>3, <2>2
  <2> QED
    BY <1>3, <2>1, <2>3
<1>8. {q.mustTarget, q.resident} \subseteq {Unset} \union 0 .. Usable
  BY <1>1, <1>3 DEF ScenarioOK
<1>9. {q.cap, q.cycles, q.trade.cap} \subseteq Nat /\ q.ev \in Nat
  BY <1>1, <1>3 DEF ScenarioOK
<1>10. RequestOK(q)
  BY <1>5, <1>6, <1>7, <1>8, <1>9 DEF RequestOK
<1> QED
  BY <1>3, <1>10 DEF q

\* Half a slot keeps the battery between empty and full.
LEMMA MovedType ==
    ASSUME soc \in 0 .. Usable, NEW told, told.target \in Int, NEW net \in Int
    PROVE  Moved(told, net) \in Int /\ soc + Moved(told, net) \in 0 .. Usable
<1> DEFINE room == Usable - soc
           above == AtLeast0(soc - Floor)
           chargeDC == SlotDC \div 2
           outAC == OutAC \div 2
           a == Lesser(chargeDC, Lesser(room, AtLeast0(told.target - soc)))
           b == Lesser(Drawn(outAC), above)
           c == Lesser(Drawn(Lesser(net, outAC)), above)
           d == Lesser(Stored(-net), Lesser(chargeDC, room))
           r == Moved(told, net)
<1>1. Usable \in Nat /\ Floor \in Nat /\ soc \in Nat /\ soc <= Usable
  BY Constants
<1>2. room \in Nat /\ above \in Nat /\ above <= soc
  BY <1>1 DEF AtLeast0
<1>3. chargeDC \in Nat /\ outAC \in Nat
  BY SlotDCType, Constants
<1>4. \/ r = a
      \/ r = -b
      \/ net > 0 /\ r = -c
      \/ net < 0 /\ r = d
      \/ r = 0
  BY DEF Moved
<1> HIDE DEF r
<1>5. a \in Int /\ 0 <= a /\ a <= room
  <2> HIDE DEF room, chargeDC
  <2>1. AtLeast0(told.target - soc) \in Nat
    BY <1>1 DEF AtLeast0
  <2> QED
    BY <1>2, <1>3, <2>1 DEF Lesser
<1>6. b \in Int /\ 0 <= b /\ b <= above
  <2> HIDE DEF above, outAC
  <2>1. Drawn(outAC) \in Int /\ Drawn(outAC) >= 0
    BY <1>3, DrawnType
  <2> QED
    BY <1>2, <2>1 DEF Lesser
<1>7. net > 0 => c \in Int /\ 0 <= c /\ c <= above
  <2> HIDE DEF above, outAC
  <2>1. SUFFICES ASSUME net > 0 PROVE c \in Int /\ 0 <= c /\ c <= above
    OBVIOUS
  <2>2. Lesser(net, outAC) \in Int /\ Lesser(net, outAC) >= 0
    BY <1>3, <2>1 DEF Lesser
  <2>3. Drawn(Lesser(net, outAC)) \in Int /\ Drawn(Lesser(net, outAC)) >= 0
    BY <2>2, DrawnType
  <2> DEFINE x == Drawn(Lesser(net, outAC))
  <2>4. x \in Int /\ x >= 0 /\ c = Lesser(x, above)
    BY <2>3
  <2> HIDE DEF x, c
  <2> QED
    BY <1>2, <2>4 DEF Lesser
<1>8. net < 0 => d \in Int /\ 0 <= d /\ d <= room
  <2> HIDE DEF room, chargeDC
  <2>1. SUFFICES ASSUME net < 0 PROVE d \in Int /\ 0 <= d /\ d <= room
    OBVIOUS
  <2>2. Stored(-net) \in Int /\ Stored(-net) >= 0
    BY <2>1, StoredType
  <2> QED
    BY <1>2, <1>3, <2>2 DEF Lesser
<1> HIDE DEF a, b, c, d, above
<1>9. r \in Int /\ soc + r >= 0 /\ soc + r <= Usable
  BY <1>1, <1>2, <1>4, <1>5, <1>6, <1>7, <1>8
<1> QED
  BY <1>1, <1>9 DEF r

LEMMA AtMeterType ==
    ASSUME NEW x \in Int
    PROVE  AtMeter(x) \in Int
  BY StoredType, DrawnType DEF AtMeter

\* Half a slot leaves the battery between empty and full.
LEMMA LiveType ==
    ASSUME LoopType, NEW told, told.target \in Int, NEW net \in Int, NEW sampling \in BOOLEAN,
           Live(told, net, sampling), mode'.target \in Int
    PROVE  LoopType' /\ due' = TRUE /\ UNCHANGED <<known, request, plan>>
<1> DEFINE moved == Moved(told, net)
           battery == AtMeter(moved)
           grid == net - battery
           samples == IF sampling
                      THEN [battery |-> sampled.battery + battery, grid |-> sampled.grid + grid,
                            n |-> sampled.n + 1]
                      ELSE sampled
           newDay == half /\ now + 1 = Midnight
<1>1. moved \in Int /\ soc + moved \in 0 .. Usable
  BY MovedType DEF LoopType
<1>2. /\ soc' = soc + moved /\ half' = ~half
      /\ now' = IF half THEN now + 1 ELSE now
      /\ sampled' = IF half THEN NoSample ELSE samples
      /\ counted' = IF newDay THEN 0
                    ELSE IF half THEN counted + SlotBought(samples, 2) ELSE counted
      /\ throughput' = IF newDay THEN 0
                       ELSE throughput + (IF moved > 0 THEN moved ELSE -moved)
      /\ due' = TRUE
      /\ UNCHANGED <<day, known, request, plan>>
  BY DEF Live
<1> HIDE DEF moved
<1>3. battery \in Int
  BY <1>1, AtMeterType
<1> HIDE DEF battery
<1>4. samples \in [battery : Int, grid : Int, n : Nat]
  BY <1>3 DEF LoopType
<1> HIDE DEF samples, newDay
<1>5. SlotBought(samples, 2) \in Int
  BY <1>4, SlotBoughtType
<1>6. NoSample \in [battery : Int, grid : Int, n : Nat]
  BY DEF NoSample
<1>7. sampled' \in [battery : Int, grid : Int, n : Nat] /\ counted' \in Int
  BY <1>2, <1>4, <1>5, <1>6 DEF LoopType
<1>8. throughput' \in Int /\ now' \in Nat /\ half' \in BOOLEAN /\ soc' \in 0 .. Usable
  BY <1>1, <1>2 DEF LoopType
<1>9. day' = day /\ known' = known
  BY <1>2
<1>10. LoopType'
  BY <1>7, <1>8, <1>9 DEF LoopType
<1> QED
  BY <1>2, <1>10

LEMMA ForecastType ==
    ASSUME LoopType, now <= Last
    PROVE  Forecast \in Int
<1>1. ScenarioOK(day)
  BY ScenarioType DEF LoopType
<1>2. now \in 0 .. LastOf(day)
  BY <1>1 DEF LoopType, ScenarioOK, Last, LastOf
<1>3. day.load \in [0 .. LastOf(day) -> Nat] /\ day.solar \in [0 .. LastOf(day) -> Nat]
  BY <1>1 DEF ScenarioOK
<1>4. \A f : f \in [0 .. LastOf(day) -> Nat] => f[now] \in Int
  BY <1>2
<1>5. day.load[now] \in Int /\ day.solar[now] \in Int
  BY <1>3, <1>4, Zenon
<1> QED
  BY <1>5 DEF Forecast

\* No step leaves the invariant.
LEMMA LoopSteps ==
    ASSUME LoopInv, [Next]_vars
    PROVE  LoopInv'
<1> DEFINE RequestFits == request.now = -1 \/ (RequestOK(request) /\ request.now <= known)
<1>1. LoopType /\ RequestFits /\ PlanIsOfRequest
  BY DEF LoopInv
<1>2. SUFFICES LoopType' /\ RequestFits' /\ PlanIsOfRequest'
  BY DEF LoopInv
<1>3. CASE Publish
  <2>1. known' = LastOf(day) /\ due' = TRUE /\ UNCHANGED <<world, request, mode>> /\ known < Last
    BY <1>3 DEF Publish, Last, LastOf
  <2>2. LastOf(day) \in Nat /\ known \in Nat /\ known <= LastOf(day)
    BY <1>1, ScenarioType DEF LoopType, ScenarioOK
  <2>3. LoopType'
    BY <1>1, <2>1, <2>2 DEF LoopType, world
  <2>4. RequestFits'
    <3>1. request' = request /\ known' >= known
      BY <2>1, <2>2
    <3>2. RequestOK(request) => request.now \in Nat
      BY DEF RequestOK
    <3> QED
      BY <1>1, <2>1, <2>2, <3>1, <3>2
  <2> QED
    BY <2>1, <2>3, <2>4 DEF PlanIsOfRequest
<1>4. ASSUME NEW a \in BOOLEAN, NEW b \in BOOLEAN, NEW c \in BOOLEAN, Replan(a, b, c)
      PROVE  LoopType' /\ RequestFits' /\ PlanIsOfRequest'
  <2>1. /\ now <= known /\ request' = RequestFor(a, b, c) /\ plan' = FinalPlan(request')
        /\ mode' = plan'.slots[now] /\ UNCHANGED <<world, known>>
    BY <1>4 DEF Replan
  <2>2. RequestOK(request') /\ request'.now = now /\ request'.half = half
    BY <1>1, <2>1, RequestIsOK
  <2> DEFINE q == request'
  <2>3. RequestOK(q) /\ q.now = now /\ plan' = FinalPlan(q)
    BY <2>1, <2>2
  <2> HIDE DEF q
  <2>4. mode'.target \in Int
    <3>1. PlanSound(q, FinalPlan(q), NoPeaks(q))
      BY <2>3, FinalPlanSound
    <3>2. now \in Slots(q)
      BY <2>3 DEF RequestOK, Slots
    <3>3. FinalPlan(q).slots[now].target \in Int
      BY <3>1, <3>2, SlotOf DEF PlanSound
    <3> QED
      BY <2>1, <2>3, <3>3
  <2>5. LoopType'
    BY <1>1, <2>1, <2>4 DEF LoopType, world
  <2>6. RequestFits'
    BY <2>1, <2>2 DEF world
  <2>7. PlanIsOfRequest'
    BY <2>1 DEF PlanIsOfRequest, world
  <2> QED
    BY <2>5, <2>6, <2>7
<1>5. CASE NoPlan
  <2>1. now > known /\ mode' = Idle /\ UNCHANGED <<world, known, request>>
    BY <1>5 DEF NoPlan
  <2>2. LoopType'
    BY <1>1, <2>1 DEF LoopType, world, Idle
  <2>3. request'.now # now'
    <3>1. now \in Nat /\ known \in Nat /\ request' = request /\ now' = now
      BY <1>1, <2>1 DEF LoopType, world
    <3>2. RequestOK(request) => request.now \in Nat
      BY DEF RequestOK
    <3> QED
      BY <1>1, <2>1, <3>1, <3>2
  <2> QED
    BY <1>1, <2>1, <2>2, <2>3 DEF PlanIsOfRequest
<1>6. ASSUME NEW off \in {-Surprise, 0, Surprise}, Follow(off)
      PROVE  LoopType' /\ RequestFits' /\ PlanIsOfRequest'
  <2>1. now <= Last /\ Live(mode, Forecast + off, TRUE) /\ mode' = mode
    BY <1>6 DEF Follow
  <2>2. Surprise \in Int
    BY ScenarioAssumption
  <2>3. Forecast + off \in Int
    BY <1>1, <2>1, <2>2, ForecastType
  <2>4. mode.target \in Int /\ mode'.target \in Int
    BY <1>1, <2>1 DEF LoopType
  <2>5. LoopType' /\ due' = TRUE /\ UNCHANGED <<known, request, plan>>
    BY <1>1, <2>1, <2>3, <2>4, LiveType
  <2> QED
    BY <1>1, <2>5 DEF PlanIsOfRequest
<1>7. CASE Outage
  <2>1. now <= Last /\ mode' \in {mode, Idle} /\ Live(mode', Forecast, FALSE)
    BY <1>7 DEF Outage
  <2>2. mode'.target \in Int
    BY <1>1, <2>1 DEF LoopType, Idle
  <2>3. Forecast \in Int
    BY <1>1, <2>1, ForecastType
  <2>4. LoopType' /\ due' = TRUE /\ UNCHANGED <<known, request, plan>>
    BY <1>1, <2>1, <2>2, <2>3, LiveType
  <2> QED
    BY <1>1, <2>4 DEF PlanIsOfRequest
<1>8. CASE UNCHANGED vars
  <2>1. LoopType'
    BY <1>1, <1>8 DEF LoopType, vars
  <2>2. PlanIsOfRequest'
    BY <1>1, <1>8 DEF PlanIsOfRequest, vars
  <2>3. RequestFits'
    BY <1>1, <1>8 DEF vars
  <2> QED
    BY <2>1, <2>2, <2>3
<1> QED
  BY <1>3, <1>4, <1>5, <1>6, <1>7, <1>8 DEF Next

\* The loop: the battery stays between empty and full, every request is one
\* a plan can be built from, and between two changes of the world the battery
\* does what the plan of the last request says (service.py, the plan cache).
THEOREM LoopInvariant == Spec => []LoopInv
<1>1. Init => LoopInv
  BY LoopStarts
<1>2. LoopInv /\ [Next]_vars => LoopInv'
  BY LoopSteps
<1> QED
  BY <1>1, <1>2, PTL DEF Spec

-----------------------------------------------------------------------------
(* What the plans of a day are.                                            *)

\* A plan that is acted on is the final plan of a request.
LEMMA PlannedIs ==
    ASSUME LoopInv, Planned
    PROVE  /\ RequestOK(request) /\ request.now = now /\ now \in Slots(request)
           /\ plan = FinalPlan(request) /\ mode = plan.slots[now]
           /\ PlanSound(request, plan, NoPeaks(request)) /\ CapKept(request, plan)
<1>1. request.now = now /\ plan = FinalPlan(request) /\ mode = plan.slots[now]
  BY DEF Planned, LoopInv, PlanIsOfRequest
<1>2. RequestOK(request)
  <2>1. request.now # -1
    BY <1>1 DEF LoopInv, LoopType
  <2> QED
    BY <2>1 DEF LoopInv
<1>3. now \in Slots(request)
  BY <1>1, <1>2 DEF RequestOK, Slots
<1> QED
  BY <1>1, <1>2, <1>3, FinalPlanSound

\* The validator never has to stop a plan of the planner's own, except for
\* the power of a summer peak (validator.py against all of the passes).
THEOREM PlansAreSafe == Spec => []PlansValidate
<1>1. LoopInv => PlansValidate
  <2> SUFFICES ASSUME LoopInv, Planned
               PROVE  /\ ~TargetRefused(plan, Floor) /\ ~ExportRefused(request, plan, TRUE)
                      /\ ~DayCapRefused(request, plan) /\ ~MustChargeRefused(plan)
                      /\ ~ProjectionRefused(request, plan)
                      /\ PowerRefused(plan) =>
                            plan.strategy = "summer" /\ \E i \in Slots(request) : Net(request, i) > OutAC
    BY DEF PlansValidate
  <2>1. /\ RequestOK(request) /\ PlanSound(request, plan, NoPeaks(request))
        /\ CapKept(request, plan)
    BY PlannedIs
  <2> QED
    BY <2>1, TargetsPass, PowersPass, ExportsPass, DayCapPasses, MustChargesPass, ProjectionPasses
<1> QED
  BY <1>1, LoopInvariant, PTL

\* Nothing is charged or sold now that takes the day over its cycles, the
\* recovered purchases and the trading plan's included (base.py,
\* clamp_cycle_budget, and the order the service calls the passes in).
THEOREM CyclesAreKept == Spec => []CyclesHold
<1>1. LoopInv => CyclesHold
  <2> SUFFICES ASSUME LoopInv, Planned, request.throughput # Unset, mode.intent \in {Charge, Export}
               PROVE  request.throughput + SlotCycle(request, now, mode) <= request.cycles
    BY DEF CyclesHold
  <2>1. RequestOK(request) /\ request.now = now /\ plan = FinalPlan(request)
        /\ mode = plan.slots[now]
    BY PlannedIs
  <2> QED
    BY <2>1, FinalCycles
<1> QED
  BY <1>1, LoopInvariant, PTL

\* A winter plan that charges promises what its own projection reaches, or
\* the floor (projection.py, honest_partial_from_projection), whatever the
\* catch-up and the floor holds made of the plan before.
THEOREM PromisesAreHonest == Spec => []HonestPromise
<1>1. LoopInv => HonestPromise
  <2> SUFFICES ASSUME LoopInv, Planned, plan.strategy = "winter", plan.target # Unset,
                      plan.deadline # Unset, ~RefusedFor({"cycles"}),
                      NEW i \in With(plan, Charge), CommitDeadline(plan, i) > now
               PROVE  \/ Projected[Lesser(CommitDeadline(plan, i) - 1, request.known)]
                           >= CommitTarget(plan, i) - Margin
                      \/ CommitTarget(plan, i) = Floor
    BY DEF HonestPromise
  <2>1. /\ RequestOK(request) /\ request.now = now /\ plan = FinalPlan(request)
        /\ PlanSound(request, plan, NoPeaks(request))
    BY PlannedIs
  <2>2. \A j \in Slots(request) : plan.slots[j].why # "cycles"
    <3>1. DOMAIN plan.slots = Slots(request)
      BY <2>1 DEF PlanSound, PlanType
    <3> QED
      BY <3>1 DEF RefusedFor
  <2> QED
    BY <2>1, <2>2, FinalPromise DEF Projected
<1> QED
  BY <1>1, LoopInvariant, PTL

\* Every winter purchase that is no precaution has a later slot that earns it
\* back, the catch-up's too as long as the plan it makes up for has a peak
\* (rule_based.py and recovery.py against economics.py, max_buy_price).
THEOREM PurchasesPay == Spec => []BoughtForAPeak
<1>1. LoopInv => BoughtForAPeak
  <2> SUFFICES ASSUME LoopInv, Planned, plan.strategy = "winter", mode.intent = Charge,
                      \/ mode.why = "cheap"
                      \/ mode.why = "catch_up" /\ With(PlanFor(request), ForLoad) # {}
               PROVE  \E d \in Slots(request) :
                         d > now /\ WithinMaxBuy(request.price[now], ImportPrice(request, d))
    BY DEF BoughtForAPeak
  <2>1. /\ request.now = now /\ now \in Slots(request) /\ mode = plan.slots[now]
        /\ PlanSound(request, plan, NoPeaks(request))
    BY PlannedIs
  <2>2. SlotSound(request, now, mode, "winter", NoPeaks(request))
    BY <2>1 DEF PlanSound
  <2>3. Pays(request, now)
    BY <2>1, <2>2 DEF SlotSound, NoPeaks
  <2> QED
    BY <2>3 DEF Pays
<1> QED
  BY <1>1, LoopInvariant, PTL

=============================================================================
