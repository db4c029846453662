------------------------------- MODULE Recursion -------------------------------
(***************************************************************************)
(* Recursive functions on a set whose elements have ranks: the length of a *)
(* sequence, the depth of a type.  Def(f, d) is the value at d of the      *)
(* function f that is being defined.  A module that proves something of a  *)
(* recursive function instantiates this one with the body of its           *)
(* definition.                                                             *)
(***************************************************************************)
EXTENDS Naturals, WellFoundedInduction, TLAPS

CONSTANT Def(_, _)

Less == {ss \in Nat \X Nat : ss[1] < ss[2]}

\* The natural numbers are well founded, for a relation the provers understand.
LEMMA LessWellFounded == IsWellFoundedOn(Less, Nat)
BY NatLessThanWellFounded DEF OpToRel, Less

\* A set that is not empty has an element of least rank.
LEMMA LeastRank ==
  ASSUME NEW D, NEW rank \in [D -> Nat], NEW T \in SUBSET D, T # {}
  PROVE  \E d \in T : \A e \in T : ~(rank[e] < rank[d])
<1> DEFINE N == {rank[d] : d \in T}
<1>1. N \subseteq Nat /\ N # {}
  OBVIOUS
<1> HIDE DEF N
<1>2. PICK m \in N : \A k \in N : ~(<<k, m>> \in Less)
  BY <1>1, LessWellFounded, WFMin
<1>3. \A k \in N : ~(k < m)
  BY <1>1, <1>2 DEF Less
<1> QED
  BY <1>2, <1>3 DEF N

\* Induction: a set contains all of D if it contains an element whenever it
\* contains those of a lower rank.
LEMMA RankInduction ==
  ASSUME NEW D, NEW rank \in [D -> Nat], NEW S,
         \A d \in D : (\A e \in D : rank[e] < rank[d] => e \in S) => d \in S
  PROVE  D \subseteq S
<1> DEFINE T == D \ S
<1> SUFFICES ASSUME T # {} PROVE FALSE
  OBVIOUS
<1>1. PICK d \in T : \A e \in T : ~(rank[e] < rank[d])
  <2> T \in SUBSET D
    OBVIOUS
  <2> HIDE DEF T
  <2> QED
    BY LeastRank
<1> QED
  BY <1>1

\* The value at an element is determined by the values at lower ranks.
Grounded(D, rank) ==
  \A d \in D : \A g, h :
    (\A e \in D : rank[e] < rank[d] => g[e] = h[e]) => Def(g, d) = Def(h, d)

UpTo(D, rank, d) == {e \in D : rank[e] <= rank[d]}
Solves(g, E)     == g = [e \in E |-> Def(g, e)]

\* Two solutions up to an element are equal.
LEMMA SolutionsAgree ==
  ASSUME NEW D, NEW rank \in [D -> Nat], Grounded(D, rank), NEW d \in D,
         NEW g, Solves(g, UpTo(D, rank, d)), NEW h, Solves(h, UpTo(D, rank, d))
  PROVE  g = h
<1> DEFINE E == UpTo(D, rank, d)
           T == {e \in E : g[e] # h[e]}
<1>1. E \subseteq D /\ \A e \in E, c \in D : rank[c] < rank[e] => c \in E
  BY DEF UpTo
<1>2. /\ g = [e \in E |-> g[e]] /\ \A e \in E : g[e] = Def(g, e)
      /\ h = [e \in E |-> h[e]] /\ \A e \in E : h[e] = Def(h, e)
  BY DEF Solves
<1> HIDE DEF E
<1>3. T = {}
  <2> SUFFICES ASSUME T # {} PROVE FALSE
    OBVIOUS
  <2>1. PICK e \in T : \A c \in T : ~(rank[c] < rank[e])
    BY <1>1, LeastRank
  <2>2. \A c \in D : rank[c] < rank[e] => g[c] = h[c]
    BY <1>1, <2>1
  <2>3. Def(g, e) = Def(h, e)
    BY <1>1, <2>2 DEF Grounded
  <2> QED
    BY <1>2, <2>3
<1> QED
  BY <1>2, <1>3

\* A recursive definition that looks only at lower ranks defines what it says.
LEMMA RankRecursion ==
  ASSUME NEW D, NEW rank \in [D -> Nat], Grounded(D, rank),
         NEW f, f = CHOOSE g : g = [d \in D |-> Def(g, d)]
  PROVE  f = [d \in D |-> Def(f, d)]
<1> DEFINE F(d) == CHOOSE g : Solves(g, UpTo(D, rank, d))
           w    == [d \in D |-> F(d)[d]]
           S    == {d \in D : w[d] = Def(w, d)}
<1>1. ASSUME NEW d \in D, \A e \in D : rank[e] < rank[d] => e \in S
      PROVE  d \in S
  <2> DEFINE E == UpTo(D, rank, d)
             g == [e \in E |-> Def(w, e)]
  <2>1. ASSUME NEW e \in E PROVE Def(w, e) = Def(g, e)
    <3>1. e \in D /\ rank[e] <= rank[d]
      BY DEF UpTo
    <3>2. ASSUME NEW c \in D, rank[c] < rank[e] PROVE w[c] = g[c]
      <4>1. rank[c] \in Nat /\ rank[e] \in Nat /\ rank[d] \in Nat
        BY <3>1, <3>2
      <4>2. rank[c] < rank[d]
        BY <3>1, <3>2, <4>1
      <4>3. c \in E
        BY <3>2, <4>1, <4>2 DEF UpTo
      <4> QED
        BY <1>1, <3>2, <4>2, <4>3
    <3> HIDE DEF g, w
    <3> QED
      BY <3>1, <3>2 DEF Grounded
  <2>2. Solves(g, E)
    BY <2>1 DEF Solves
  <2>3. Solves(F(d), E)
    BY <2>2
  <2> HIDE DEF g
  <2>4. F(d) = g
    BY <2>2, <2>3, SolutionsAgree
  <2>5. d \in E
    BY DEF UpTo
  <2>6. w[d] = g[d]
    BY <2>4
  <2> QED
    BY <2>5, <2>6 DEF g
<1> HIDE DEF S, w
<1>2. D \subseteq S
  BY <1>1, RankInduction
<1>3. w = [d \in D |-> Def(w, d)]
  BY <1>2 DEF S, w
<1> QED
  BY <1>3
=============================================================================
