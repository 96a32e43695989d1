--------------------------- MODULE ClosureLemmas ---------------------------
(***************************************************************************)
(* What recursive functions on finite sets return, where RunQueueData,      *)
(* TaskData and PrepareRunQueue use them: the least set that is closed      *)
(* under something, whether a graph has loops, and sums.                    *)
(***************************************************************************)
EXTENDS Naturals, FiniteSets, FiniteSetTheorems, WellFoundedInduction, TLAPS

(* A non-empty set of natural numbers has a least element.                  *)
LEMMA LeastNat ==
  ASSUME NEW T, T \subseteq Nat, T # {}
  PROVE  \E x \in T : \A y \in T : x <= y
<1>1. PICK x \in T : \A y \in T : ~ (<<y, x>> \in OpToRel(<, Nat))
  BY NatLessThanWellFounded, WFMin
<1>2. ASSUME NEW y \in T PROVE x <= y
  <2>1. ~ (<<y, x>> \in OpToRel(<, Nat))
    BY <1>1
  <2>2. ~ (y < x)
    BY <2>1 DEF OpToRel
  <2> QED
    BY <2>2
<1> QED
  BY <1>2

(* Of the sets in a family of subsets of a finite set one is the largest: no *)
(* other of them contains it.                                               *)
LEMMA LargestSubset ==
  ASSUME NEW U, IsFiniteSet(U), NEW F, F \subseteq SUBSET U, F # {}
  PROVE  \E D \in F : \A E \in F : D \subseteq E => E = D
<1> DEFINE T == {Cardinality(U \ D) : D \in F}
<1>1. \A D \in F : IsFiniteSet(U \ D) /\ Cardinality(U \ D) \in Nat
  BY FS_Difference, FS_CardinalityType
<1>2. T \subseteq Nat /\ T # {}
  BY <1>1
<1>3. PICK n \in T : \A m \in T : n <= m
  BY <1>2, LeastNat
<1>4. PICK D \in F : n = Cardinality(U \ D)
  BY <1>3
<1>5. ASSUME NEW E \in F, D \subseteq E PROVE E = D
  <2>1. n <= Cardinality(U \ E)
    BY <1>3
  <2>2. (U \ E) \subseteq (U \ D)
    BY <1>5
  <2>3. CASE (U \ E) # (U \ D)
    <3>1. Cardinality(U \ E) < Cardinality(U \ D)
      <4>1. Cardinality(U \ E) <= Cardinality(U \ D) /\ Cardinality(U \ E) # Cardinality(U \ D)
        BY <1>1, <2>2, <2>3, FS_Subset
      <4> QED
        BY <1>1, <4>1
    <3> QED
      BY <1>1, <1>4, <2>1, <3>1
  <2> QED
    BY <1>5, <2>3
<1> QED
  BY <1>5

(* The other way round: one contains no other.                              *)
LEMMA SmallestSubset ==
  ASSUME NEW U, IsFiniteSet(U), NEW F, F \subseteq SUBSET U, F # {}
  PROVE  \E D \in F : \A E \in F : E \subseteq D => E = D
<1> DEFINE Rests == {R \in SUBSET U : U \ R \in F}
<1>1. ASSUME NEW D \in F PROVE U \ D \in Rests
  <2>1. U \ (U \ D) = D
    OBVIOUS
  <2> QED
    BY <2>1
<1>2. Rests \subseteq SUBSET U /\ Rests # {}
  <2>1. PICK D : D \in F
    OBVIOUS
  <2> QED
    BY <1>1, <2>1
<1>3. PICK R \in Rests : \A E \in Rests : R \subseteq E => E = R
  <2> HIDE DEF Rests
  <2> QED
    BY <1>2, LargestSubset
<1>4. ASSUME NEW E \in F, E \subseteq U \ R PROVE E = U \ R
  <2>1. E \subseteq U /\ R \subseteq U
    BY <1>3
  <2>2. U \ E = R
    <3>1. R \subseteq U \ E /\ U \ E \in Rests
      BY <1>1, <1>4, <2>1
    <3> HIDE DEF Rests
    <3> QED
      BY <1>3, <3>1
  <2> QED
    BY <2>1, <2>2
<1>5. U \ R \in F
  BY <1>3
<1> QED
  BY <1>4, <1>5

(* A set that grows by m of itself until that adds nothing more: a function   *)
(* is defined by this recursion, and what it returns contains what it was    *)
(* given, and is the least such set that m adds nothing to.                  *)
GrowsBy(U, m, f) == f = [D \in SUBSET U |-> IF m[D] \subseteq D THEN D ELSE f[D \cup m[D]]]

LeastFixed(U, m) ==
  [D \in SUBSET U |-> {x \in U : \A C \in SUBSET U : D \subseteq C /\ m[C] \subseteq C => x \in C}]

LEMMA GrowthDefined ==
  ASSUME NEW U, NEW m \in [SUBSET U -> SUBSET U],
         \A D, E \in SUBSET U : D \subseteq E => m[D] \subseteq m[E]
  PROVE  GrowsBy(U, m, LeastFixed(U, m))
<1> DEFINE least == LeastFixed(U, m)
<1>1. ASSUME NEW D \in SUBSET U
      PROVE  least[D] = IF m[D] \subseteq D THEN D ELSE least[D \cup m[D]]
  <2>1. m[D] \in SUBSET U /\ D \cup m[D] \in SUBSET U
    OBVIOUS
  <2>2. CASE m[D] \subseteq D
    <3>1. least[D] = D
      BY <2>2 DEF LeastFixed
    <3> QED
      BY <2>1, <2>2, <3>1
  <2>3. CASE ~(m[D] \subseteq D)
    <3>1. ASSUME NEW C \in SUBSET U, m[C] \subseteq C
          PROVE  D \subseteq C <=> D \cup m[D] \subseteq C
      BY <3>1
    <3>2. least[D] = least[D \cup m[D]]
      BY <2>1, <3>1 DEF LeastFixed
    <3> QED
      BY <2>1, <2>3, <3>2
  <2> QED
    BY <2>2, <2>3
<1> DEFINE other == [D \in SUBSET U |-> IF m[D] \subseteq D THEN D ELSE least[D \cup m[D]]]
<1>2. \A D \in SUBSET U : least[D] = other[D]
  BY <1>1
<1>3. least = other
  BY <1>2 DEF LeastFixed
<1> QED
  BY <1>3 DEF GrowsBy

LEMMA GrowthEnds ==
  ASSUME NEW U, IsFiniteSet(U), NEW m \in [SUBSET U -> SUBSET U],
         \A D, E \in SUBSET U : D \subseteq E => m[D] \subseteq m[E],
         NEW f, GrowsBy(U, m, f), NEW S \in SUBSET U
  PROVE  /\ S \subseteq f[S] /\ f[S] \subseteq U /\ m[f[S]] \subseteq f[S]
         /\ \A C \in SUBSET U : S \subseteq C /\ m[C] \subseteq C => f[S] \subseteq C
<1> DEFINE least == LeastFixed(U, m)
<1>1. ASSUME NEW D \in SUBSET U
      PROVE  /\ m[D] \in SUBSET U /\ D \cup m[D] \in SUBSET U
             /\ least[D] = IF m[D] \subseteq D THEN D ELSE least[D \cup m[D]]
             /\ f[D] = IF m[D] \subseteq D THEN D ELSE f[D \cup m[D]]
  <2>1. GrowsBy(U, m, least)
    BY GrowthDefined
  <2> HIDE DEF least
  <2>2. least[D] = IF m[D] \subseteq D THEN D ELSE least[D \cup m[D]]
    BY <2>1 DEF GrowsBy
  <2>3. f[D] = IF m[D] \subseteq D THEN D ELSE f[D \cup m[D]]
    BY DEF GrowsBy
  <2> QED
    BY <2>2, <2>3
<1>2. /\ S \subseteq least[S] /\ least[S] \subseteq U
      /\ \A C \in SUBSET U : S \subseteq C /\ m[C] \subseteq C => least[S] \subseteq C
  BY DEF LeastFixed
<1>3. m[least[S]] \subseteq least[S]
  <2> SUFFICES ASSUME NEW C \in SUBSET U, S \subseteq C, m[C] \subseteq C
               PROVE  m[least[S]] \subseteq C
    BY <1>1, <1>2 DEF LeastFixed
  <2>1. least[S] \in SUBSET U /\ least[S] \subseteq C
    BY <1>2
  <2> HIDE DEF least
  <2> QED
    BY <2>1
<1> HIDE DEF least
<1>4. f[S] = least[S]
  <2> DEFINE Bad == {D \in SUBSET U : f[D] # least[D]}
  <2>1. SUFFICES ASSUME Bad # {} PROVE FALSE
    OBVIOUS
  <2>2. PICK D \in Bad : \A E \in Bad : D \subseteq E => E = D
    <3>1. Bad \subseteq SUBSET U
      OBVIOUS
    <3> HIDE DEF Bad
    <3> QED
      BY <2>1, <3>1, LargestSubset
  <2>3. ~(m[D] \subseteq D)
    BY <1>1, <2>2
  <2>4. D \cup m[D] \in Bad
    BY <1>1, <2>2, <2>3
  <2> QED
    BY <2>2, <2>3, <2>4
<1> QED
  BY <1>2, <1>3, <1>4

(* The least set that contains S and, with t, all of next[t], as it is        *)
(* computed (Closure in RunQueueData, Reach in PrepareRunQueue).             *)
LeastClosure(next, S) ==
  LET grow[D \in SUBSET DOMAIN next] ==
        LET more == UNION {next[t] : t \in D}
        IN  IF more \subseteq D THEN D ELSE grow[D \cup more]
  IN  grow[S]

(* LeastClosure(next, S) is the least set that contains S and is closed under      *)
(* next: the recursive function that computes it is defined, contains what it *)
(* is given, and stops nowhere but at the least such set.                    *)
LEMMA LeastClosureIs ==
  ASSUME NEW U, IsFiniteSet(U), NEW next \in [U -> SUBSET U], NEW S \in SUBSET U
  PROVE  /\ S \subseteq LeastClosure(next, S) /\ LeastClosure(next, S) \subseteq U
         /\ \A t \in LeastClosure(next, S) : next[t] \subseteq LeastClosure(next, S)
         /\ \A C \in SUBSET U : S \subseteq C /\ (\A t \in C : next[t] \subseteq C)
              => LeastClosure(next, S) \subseteq C
<1> DEFINE m == [D \in SUBSET U |-> UNION {next[t] : t \in D}]
           grow[D \in SUBSET DOMAIN next] ==
             LET below == UNION {next[t] : t \in D}
             IN  IF below \subseteq D THEN D ELSE grow[D \cup below]
<1>1. m \in [SUBSET U -> SUBSET U] /\ \A D, E \in SUBSET U : D \subseteq E => m[D] \subseteq m[E]
  OBVIOUS
<1>2. \A C \in SUBSET U : m[C] \subseteq C <=> \A t \in C : next[t] \subseteq C
  OBVIOUS
<1>3. LeastClosure(next, S) = grow[S]
  BY DEF LeastClosure
<1> DEFINE Is(f) == f = [D \in SUBSET DOMAIN next |->
                           LET below == UNION {next[t] : t \in D}
                           IN  IF below \subseteq D THEN D ELSE f[D \cup below]]
<1>4. ASSUME NEW f PROVE GrowsBy(U, m, f) <=> Is(f)
  <2> DEFINE one   == [D \in SUBSET U |-> IF m[D] \subseteq D THEN D ELSE f[D \cup m[D]]]
             other == [D \in SUBSET DOMAIN next |->
                         LET below == UNION {next[t] : t \in D}
                         IN  IF below \subseteq D THEN D ELSE f[D \cup below]]
  <2>1. DOMAIN one = DOMAIN other /\ \A D \in SUBSET U : one[D] = other[D]
    OBVIOUS
  <2>2. one = other
    BY <2>1
  <2> QED
    BY <2>2 DEF GrowsBy
<1> HIDE DEF m
<1>5. GrowsBy(U, m, LeastFixed(U, m))
  BY <1>1, GrowthDefined
<1>6. GrowsBy(U, m, grow)
  <2> HIDE DEF Is
  <2>1. Is(LeastFixed(U, m))
    BY <1>4, <1>5
  <2>2. \E f : Is(f)
    BY <2>1
  <2>3. Is(grow)
    BY <2>2 DEF Is
  <2> HIDE DEF grow
  <2> QED
    BY <1>4, <2>3
<1> HIDE DEF grow
<1>7. /\ S \subseteq grow[S] /\ grow[S] \subseteq U /\ m[grow[S]] \subseteq grow[S]
      /\ \A C \in SUBSET U : S \subseteq C /\ m[C] \subseteq C => grow[S] \subseteq C
  BY <1>1, <1>6, GrowthEnds
<1> QED
  BY <1>2, <1>3, <1>7
-----------------------------------------------------------------------------
(* Loops.                                                                   *)

NoneStuck(depends, S) ==
  \A C \in SUBSET S : C # {} => \E t \in C : depends[t] \cap C = {}

\* Taking away again and again what depends on nothing left leaves nothing.
PeelsOff(U, depends, S) ==
  LET peel[D \in SUBSET U] ==
        LET free == {t \in D : depends[t] \cap D = {}}
        IN  IF free = {} THEN D = {} ELSE peel[D \ free]
  IN  peel[S]

(* It does if and only if no set of them is stuck, each of it depending on  *)
(* another of it.                                                           *)
LEMMA PeelsOffIs ==
  ASSUME NEW U, IsFiniteSet(U), NEW depends, NEW S \in SUBSET U
  PROVE  PeelsOff(U, depends, S) <=> NoneStuck(depends, S)
<1> DEFINE free(D) == {t \in D : depends[t] \cap D = {}}
           Is(f) == f = [D \in SUBSET U |->
                           LET one == {t \in D : depends[t] \cap D = {}}
                           IN  IF one = {} THEN D = {} ELSE f[D \ one]]
           peel[D \in SUBSET U] ==
             LET one == {t \in D : depends[t] \cap D = {}}
             IN  IF one = {} THEN D = {} ELSE peel[D \ one]
           unstuck == [D \in SUBSET U |-> NoneStuck(depends, D)]
<1>1. ASSUME NEW D \in SUBSET U
      PROVE  NoneStuck(depends, D) <=> IF free(D) = {} THEN D = {}
                                       ELSE NoneStuck(depends, D \ free(D))
  <2>1. CASE free(D) = {}
    BY <2>1 DEF NoneStuck
  <2>2. CASE free(D) # {}
    <3>1. ASSUME NoneStuck(depends, D \ free(D)), NEW C \in SUBSET D, C # {}
          PROVE  \E t \in C : depends[t] \cap C = {}
      <4>1. CASE C \cap free(D) = {}
        BY <3>1, <4>1 DEF NoneStuck
      <4>2. CASE C \cap free(D) # {}
        BY <3>1, <4>2
      <4> QED
        BY <4>1, <4>2
    <3> QED
      BY <2>2, <3>1 DEF NoneStuck
  <2> QED
    BY <2>1, <2>2
<1>2. Is(unstuck)
  <2> DEFINE other == [D \in SUBSET U |->
                         LET one == {t \in D : depends[t] \cap D = {}}
                         IN  IF one = {} THEN D = {} ELSE unstuck[D \ one]]
  <2>1. ASSUME NEW D \in SUBSET U PROVE unstuck[D] = other[D]
    <3>1. D \ free(D) \in SUBSET U
      OBVIOUS
    <3>2. unstuck[D] = NoneStuck(depends, D)
          /\ unstuck[D \ free(D)] = NoneStuck(depends, D \ free(D))
      BY <3>1
    <3>3. other[D] = IF free(D) = {} THEN D = {} ELSE unstuck[D \ free(D)]
      OBVIOUS
    <3> HIDE DEF unstuck, other, free
    <3>6. NoneStuck(depends, D) \in BOOLEAN /\ NoneStuck(depends, D \ free(D)) \in BOOLEAN
      BY DEF NoneStuck
    <3>4. CASE free(D) = {}
      <4>1. NoneStuck(depends, D) = (D = {})
        BY <1>1, <3>4, <3>6
      <4> QED
        BY <3>2, <3>3, <3>4, <4>1
    <3>5. CASE free(D) # {}
      <4>1. NoneStuck(depends, D) = NoneStuck(depends, D \ free(D))
        BY <1>1, <3>5, <3>6
      <4> QED
        BY <3>2, <3>3, <3>5, <4>1
    <3> QED
      BY <3>4, <3>5
  <2>2. unstuck = other
    <3>1. DOMAIN unstuck = SUBSET U /\ DOMAIN other = SUBSET U
      OBVIOUS
    <3> QED
      BY <2>1
  <2> QED
    BY <2>2
<1>3. Is(peel)
  <2>1. \E f : Is(f)
    <3> HIDE DEF Is, unstuck
    <3> QED
      BY <1>2
  <2> QED
    BY <2>1
<1>4. PeelsOff(U, depends, S) = peel[S]
  BY DEF PeelsOff
<1>5. ASSUME NEW D \in SUBSET U
      PROVE  peel[D] = IF free(D) = {} THEN D = {} ELSE peel[D \ free(D)]
  <2> HIDE DEF peel
  <2> QED
    BY <1>3
<1> HIDE DEF peel, Is
<1>6. \A D \in SUBSET U : peel[D] = NoneStuck(depends, D)
  <2> DEFINE Bad == {D \in SUBSET U : peel[D] # NoneStuck(depends, D)}
  <2>1. SUFFICES ASSUME Bad # {} PROVE FALSE
    OBVIOUS
  <2>2. PICK D \in Bad : \A E \in Bad : E \subseteq D => E = D
    <3>1. Bad \subseteq SUBSET U
      OBVIOUS
    <3> HIDE DEF Bad
    <3> QED
      BY <2>1, <3>1, SmallestSubset
  <2>3. CASE free(D) = {}
    <3>1. peel[D] = (D = {})
      BY <1>5, <2>2, <2>3
    <3>2. NoneStuck(depends, D) <=> D = {}
      BY <1>1, <2>2, <2>3
    <3>3. NoneStuck(depends, D) \in BOOLEAN
      BY DEF NoneStuck
    <3> QED
      BY <2>2, <3>1, <3>2, <3>3
  <2>4. CASE free(D) # {}
    <3>1. D \ free(D) \in SUBSET U /\ D \ free(D) # D
      BY <2>2, <2>4
    <3>2. peel[D \ free(D)] = NoneStuck(depends, D \ free(D))
      <4>1. D \ free(D) \notin Bad
        <5> HIDE DEF free, Bad
        <5> QED
          BY <2>2, <3>1
      <4> HIDE DEF free
      <4> QED
        BY <3>1, <4>1
    <3>3. peel[D] = peel[D \ free(D)]
      BY <1>5, <2>2, <2>4
    <3>4. NoneStuck(depends, D) <=> NoneStuck(depends, D \ free(D))
      BY <1>1, <2>2, <2>4
    <3>5. NoneStuck(depends, D) \in BOOLEAN /\ NoneStuck(depends, D \ free(D)) \in BOOLEAN
      BY DEF NoneStuck
    <3> QED
      BY <2>2, <3>2, <3>3, <3>4, <3>5
  <2> QED
    BY <2>3, <2>4
<1>7. peel[S] = NoneStuck(depends, S)
  BY <1>6
<1> QED
  BY <1>4, <1>7

(* Where each is waited for by another of the set, some of them are stuck:  *)
(* what can be followed up for ever can be followed down for ever.          *)
LEMMA UpAndDown ==
  ASSUME NEW C, IsFiniteSet(C), C # {}, NEW depends,
         \A t \in C : \E r \in C : t \in depends[r]
  PROVE  ~NoneStuck(depends, C)
<1> SUFFICES ASSUME NoneStuck(depends, C) PROVE FALSE
  OBVIOUS
<1> DEFINE Lower == {B \in SUBSET C : B # C /\ \A t \in B : depends[t] \cap C \subseteq B}
<1>1. Lower \subseteq SUBSET C /\ {} \in Lower
  OBVIOUS
<1>2. PICK B \in Lower : \A E \in Lower : B \subseteq E => E = B
  <2> HIDE DEF Lower
  <2> QED
    BY <1>1, LargestSubset
<1>3. PICK t \in C \ B : depends[t] \cap (C \ B) = {}
  BY <1>2 DEF NoneStuck
<1>4. B \cup {t} = C
  <2>1. B \cup {t} \notin Lower
    <3> HIDE DEF Lower
    <3> QED
      BY <1>2, <1>3
  <2>2. \A r \in B \cup {t} : depends[r] \cap C \subseteq B \cup {t}
    BY <1>2, <1>3
  <2> QED
    BY <1>2, <1>3, <2>1, <2>2
<1>5. PICK r \in C : t \in depends[r]
  BY <1>3
<1> QED
  BY <1>2, <1>3, <1>4, <1>5

-----------------------------------------------------------------------------
(* Sums.                                                                    *)

SumOf(w, S) ==
  LET iter[s \in SUBSET S] ==
        IF s = {} THEN 0
        ELSE LET x == CHOOSE y \in s : TRUE
             IN  w[x] + iter[s \ {x}]
  IN  iter[S]

(* A sum of natural numbers is one, and no less than any of them.           *)
LEMMA SumOfIs ==
  ASSUME NEW S, IsFiniteSet(S), NEW w, \A x \in S : w[x] \in Nat
  PROVE  /\ SumOf(w, S) \in Nat /\ (S = {} => SumOf(w, S) = 0)
         /\ \A x \in S : w[x] <= SumOf(w, S)
<1> DEFINE first(s) == CHOOSE y \in s : TRUE
           Good(F, g) == /\ g \in [F -> Nat]
                         /\ \A s \in F : IF s = {} THEN g[s] = 0
                              ELSE s \ {first(s)} \in F /\ g[s] = w[first(s)] + g[s \ {first(s)}]
           Fam == {F \in SUBSET SUBSET S : \E g : Good(F, g)}
           iter[s \in SUBSET S] ==
             IF s = {} THEN 0
             ELSE LET x == CHOOSE y \in s : TRUE
                  IN  w[x] + iter[s \ {x}]
           Is(f) == f = [s \in SUBSET S |->
                           IF s = {} THEN 0
                           ELSE LET x == CHOOSE y \in s : TRUE
                                IN  w[x] + f[s \ {x}]]
<1>1. ASSUME NEW s, s # {} PROVE first(s) \in s
  BY <1>1
<1> HIDE DEF first
<1>2. IsFiniteSet(SUBSET S)
  BY FS_SUBSET
<1>3. PICK F \in Fam : \A E \in Fam : F \subseteq E => E = F
  <2>1. Good({}, [x \in {} |-> 0])
    OBVIOUS
  <2>2. Fam \subseteq SUBSET SUBSET S /\ {} \in Fam
    <3>1. {} \in SUBSET SUBSET S /\ \E g : Good({}, g)
      <4> HIDE DEF Good
      <4> QED
        BY <2>1
    <3> QED
      BY <3>1
  <2> HIDE DEF Fam
  <2> QED
    BY <1>2, <2>2, LargestSubset
<1>4. PICK g : Good(F, g)
  BY <1>3
<1>5. F = SUBSET S
  <2> SUFFICES ASSUME (SUBSET S) \ F # {} PROVE FALSE
    BY <1>3
  <2>1. PICK s \in (SUBSET S) \ F : \A e \in (SUBSET S) \ F : e \subseteq s => e = s
    <3> DEFINE Out == (SUBSET S) \ F
    <3>1. Out \subseteq SUBSET S /\ Out # {}
      OBVIOUS
    <3>2. \E s \in Out : \A e \in Out : e \subseteq s => e = s
      <4> HIDE DEF Out
      <4> QED
        BY <3>1, SmallestSubset
    <3> QED
      BY <3>2
  <2> DEFINE value == IF s = {} THEN 0 ELSE w[first(s)] + g[s \ {first(s)}]
             h == [x \in F \cup {s} |-> IF x = s THEN value ELSE g[x]]
  <2>2. s # {} => s \ {first(s)} \in F /\ first(s) \in S
    BY <1>1, <2>1
  <2>3. value \in Nat
    BY <1>4, <2>2
  <2> HIDE DEF value
  <2>4. h \in [F \cup {s} -> Nat] /\ h[s] = value /\ \A x \in F : h[x] = g[x]
    BY <1>4, <2>1, <2>3
  <2> HIDE DEF h
  <2>5. Good(F \cup {s}, h)
    <3> SUFFICES ASSUME NEW x \in F \cup {s}
                 PROVE  IF x = {} THEN h[x] = 0
                        ELSE x \ {first(x)} \in F \cup {s} /\ h[x] = w[first(x)] + h[x \ {first(x)}]
      BY <2>4
    <3>1. CASE x = s
      BY <2>2, <2>4, <3>1 DEF value
    <3>2. CASE x \in F
      BY <1>4, <2>4, <3>2
    <3> QED
      BY <3>1, <3>2
  <2>6. F \cup {s} \in Fam
    <3> HIDE DEF Good
    <3> QED
      BY <1>3, <2>1, <2>5
  <2> HIDE DEF Fam
  <2> QED
    BY <1>3, <2>1, <2>6
<1>6. Is(g)
  <2> DEFINE other == [s \in SUBSET S |->
                         IF s = {} THEN 0
                         ELSE LET x == CHOOSE y \in s : TRUE
                              IN  w[x] + g[s \ {x}]]
  <2>1. DOMAIN other = SUBSET S /\ \A s \in SUBSET S : g[s] = other[s]
    BY <1>4, <1>5 DEF first
  <2>2. g = [s \in SUBSET S |-> g[s]]
    BY <1>4, <1>5
  <2>3. [s \in SUBSET S |-> g[s]] = other
    BY <2>1
  <2>4. g = other
    BY <2>2, <2>3
  <2> QED
    BY <2>4
<1>7. Is(iter)
  <2>1. \E f : Is(f)
    <3> HIDE DEF Is
    <3> QED
      BY <1>6
  <2> QED
    BY <2>1
<1>8. SumOf(w, S) = iter[S]
  BY DEF SumOf
<1> HIDE DEF iter
<1>9. ASSUME NEW s \in SUBSET S
      PROVE  iter[s] = IF s = {} THEN 0 ELSE w[first(s)] + iter[s \ {first(s)}]
  BY <1>7 DEF first
<1> HIDE DEF Is
<1> DEFINE Fine(s) == iter[s] \in Nat /\ \A x \in s : w[x] <= iter[s]
<1>10. \A s \in SUBSET S : Fine(s)
  <2> DEFINE Bad == {s \in SUBSET S : ~Fine(s)}
  <2>1. SUFFICES ASSUME Bad # {} PROVE FALSE
    OBVIOUS
  <2>2. PICK s \in Bad : \A e \in Bad : e \subseteq s => e = s
    <3>1. Bad \subseteq SUBSET S
      OBVIOUS
    <3> HIDE DEF Bad
    <3> QED
      BY <2>1, <3>1, SmallestSubset
  <2>3. s # {}
    <3> SUFFICES ASSUME s = {} PROVE FALSE
      OBVIOUS
    <3>1. iter[s] = 0
      BY <1>9
    <3> QED
      BY <2>2, <3>1
  <2>4. first(s) \in s /\ s \ {first(s)} \in SUBSET S
    BY <1>1, <2>2, <2>3
  <2>5. Fine(s \ {first(s)})
    <3>1. s \ {first(s)} \notin Bad
      <4> HIDE DEF Bad
      <4> QED
        BY <2>2, <2>4
    <3> HIDE DEF Fine
    <3> QED
      BY <2>4, <3>1
  <2>6. iter[s] = w[first(s)] + iter[s \ {first(s)}] /\ w[first(s)] \in Nat
    BY <1>9, <2>2, <2>3, <2>4
  <2>9. /\ iter[s \ {first(s)}] \in Nat
        /\ \A x \in s \ {first(s)} : w[x] <= iter[s \ {first(s)}]
    BY <2>5
  <2>7. ASSUME NEW x \in s PROVE w[x] <= iter[s]
    <3>1. w[x] \in Nat
      BY <2>2
    <3>2. CASE x = first(s)
      BY <2>6, <2>9, <3>1, <3>2
    <3>3. CASE x # first(s)
      <4>1. w[x] <= iter[s \ {first(s)}]
        BY <2>9, <3>3
      <4> QED
        BY <2>6, <2>9, <3>1, <4>1
    <3> QED
      BY <3>2, <3>3
  <2>8. iter[s] \in Nat
    BY <2>6, <2>9
  <2> QED
    BY <2>2, <2>7, <2>8
<1> QED
  BY <1>8, <1>9, <1>10
=============================================================================
