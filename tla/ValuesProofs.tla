----------------------------- MODULE ValuesProofs -----------------------------
(***************************************************************************)
(* What the converters of Values make of every term and every value, for   *)
(* any types: they are recursive functions over types, terms and values,   *)
(* so each proof is an induction over how deep these are nested.           *)
(***************************************************************************)
EXTENDS Values, TLAPS

-----------------------------------------------------------------------------
(* Levels of terms and values.                                              *)

\* TermsUpTo and ValsUpTo as Recursion wants them: each level made from the one below.
TermLevel(f, n) == IF n = 0 THEN {} ELSE TermsOver(f[n - 1])
ValLevel(f, n)  == IF n = 0 THEN {} ELSE ValsOver(f[n - 1])

OfTermLevels == INSTANCE Recursion WITH Def <- TermLevel
OfValLevels  == INSTANCE Recursion WITH Def <- ValLevel

\* What is built from fewer parts can be built from more.
LEMMA MoreTerms == ASSUME NEW S, NEW T, S \subseteq T PROVE TermsOver(S) \subseteq TermsOver(T)
<1>1. Seq(S) \subseteq Seq(T) /\ SUBSET (S \X S) \subseteq SUBSET (T \X T)
  OBVIOUS
<1> QED
  BY <1>1 DEF TermsOver

\* The same for values.
LEMMA MoreVals == ASSUME NEW S, NEW T, S \subseteq T PROVE ValsOver(S) \subseteq ValsOver(T)
<1>1. Seq(S) \subseteq Seq(T) /\ SUBSET (Texts \X S) \subseteq SUBSET (Texts \X T)
  OBVIOUS
<1> QED
  BY <1>1 DEF ValsOver

\* A level holds what is built from the level below; level 0 is empty.
LEMMA TermLevelIs ==
  ASSUME NEW n \in Nat PROVE TermsUpTo[n] = IF n = 0 THEN {} ELSE TermsOver(TermsUpTo[n - 1])
<1> DEFINE id == [k \in Nat |-> k]
<1>1. ASSUME NEW k \in Nat, NEW g, NEW h, \A e \in Nat : id[e] < id[k] => g[e] = h[e]
      PROVE  TermLevel(g, k) = TermLevel(h, k)
  <2>1. CASE k = 0
    BY <2>1 DEF TermLevel
  <2>2. CASE k # 0
    <3>1. k - 1 \in Nat /\ id[k - 1] < id[k]
      BY <2>2
    <3> QED
      BY <1>1, <3>1 DEF TermLevel
  <2> QED
    BY <2>1, <2>2
<1>2. id \in [Nat -> Nat]
  OBVIOUS
<1> HIDE DEF id
<1>3. OfTermLevels!Grounded(Nat, id)
  BY <1>1 DEF OfTermLevels!Grounded
<1>4. TermsUpTo = CHOOSE f : f = [k \in Nat |-> TermLevel(f, k)]
  BY DEF TermsUpTo, TermLevel
<1>5. TermsUpTo = [k \in Nat |-> TermLevel(TermsUpTo, k)]
  BY <1>2, <1>3, <1>4, OfTermLevels!RankRecursion
<1> QED
  BY <1>5 DEF TermLevel

\* The levels of values are built alike.
LEMMA ValLevelIs ==
  ASSUME NEW n \in Nat PROVE ValsUpTo[n] = IF n = 0 THEN {} ELSE ValsOver(ValsUpTo[n - 1])
<1> DEFINE id == [k \in Nat |-> k]
<1>1. ASSUME NEW k \in Nat, NEW g, NEW h, \A e \in Nat : id[e] < id[k] => g[e] = h[e]
      PROVE  ValLevel(g, k) = ValLevel(h, k)
  <2>1. CASE k = 0
    BY <2>1 DEF ValLevel
  <2>2. CASE k # 0
    <3>1. k - 1 \in Nat /\ id[k - 1] < id[k]
      BY <2>2
    <3> QED
      BY <1>1, <3>1 DEF ValLevel
  <2> QED
    BY <2>1, <2>2
<1>2. id \in [Nat -> Nat]
  OBVIOUS
<1> HIDE DEF id
<1>3. OfValLevels!Grounded(Nat, id)
  BY <1>1 DEF OfValLevels!Grounded
<1>4. ValsUpTo = CHOOSE f : f = [k \in Nat |-> ValLevel(f, k)]
  BY DEF ValsUpTo, ValLevel
<1>5. ValsUpTo = [k \in Nat |-> ValLevel(ValsUpTo, k)]
  BY <1>2, <1>3, <1>4, OfValLevels!RankRecursion
<1> QED
  BY <1>5 DEF ValLevel

\* Levels, each of which contains the one before.
Grows(L) == L[0] = {} /\ \A k \in Nat : L[k] \subseteq L[k + 1]

\* Every level contains the one below.
LEMMA TermLevelsGrow == Grows(TermsUpTo)
<1> DEFINE id == [k \in Nat |-> k]
           S  == {k \in Nat : TermsUpTo[k] \subseteq TermsUpTo[k + 1]}
<1>1. ASSUME NEW k \in Nat, \A e \in Nat : id[e] < id[k] => e \in S PROVE k \in S
  <2>1. CASE k = 0
    BY <2>1, TermLevelIs
  <2>2. CASE k # 0
    <3>1. k - 1 \in Nat /\ k + 1 \in Nat /\ k + 1 # 0 /\ (k + 1) - 1 = k /\ (k - 1) + 1 = k
      BY <2>2
    <3>2. TermsUpTo[k - 1] \subseteq TermsUpTo[k]
      BY <1>1, <3>1
    <3>3. TermsUpTo[k] = TermsOver(TermsUpTo[k - 1]) /\ TermsUpTo[k + 1] = TermsOver(TermsUpTo[k])
      BY <2>2, <3>1, TermLevelIs
    <3> QED
      BY <3>2, <3>3, MoreTerms
  <2> QED
    BY <2>1, <2>2
<1>2. id \in [Nat -> Nat]
  OBVIOUS
<1> HIDE DEF id, S
<1>3. Nat \subseteq S
  BY <1>1, <1>2, OfTermLevels!RankInduction
<1>4. 0 \in Nat
  OBVIOUS
<1> QED
  BY <1>3, <1>4, TermLevelIs DEF Grows, S

\* So do those of values.
LEMMA ValLevelsGrow == Grows(ValsUpTo)
<1> DEFINE id == [k \in Nat |-> k]
           S  == {k \in Nat : ValsUpTo[k] \subseteq ValsUpTo[k + 1]}
<1>1. ASSUME NEW k \in Nat, \A e \in Nat : id[e] < id[k] => e \in S PROVE k \in S
  <2>1. CASE k = 0
    BY <2>1, ValLevelIs
  <2>2. CASE k # 0
    <3>1. k - 1 \in Nat /\ k + 1 \in Nat /\ k + 1 # 0 /\ (k + 1) - 1 = k /\ (k - 1) + 1 = k
      BY <2>2
    <3>2. ValsUpTo[k - 1] \subseteq ValsUpTo[k]
      BY <1>1, <3>1
    <3>3. ValsUpTo[k] = ValsOver(ValsUpTo[k - 1]) /\ ValsUpTo[k + 1] = ValsOver(ValsUpTo[k])
      BY <2>2, <3>1, ValLevelIs
    <3> QED
      BY <3>2, <3>3, MoreVals
  <2> QED
    BY <2>1, <2>2
<1>2. id \in [Nat -> Nat]
  OBVIOUS
<1> HIDE DEF id, S
<1>3. Nat \subseteq S
  BY <1>1, <1>2, OfValLevels!RankInduction
<1>4. 0 \in Nat
  OBVIOUS
<1> QED
  BY <1>3, <1>4, ValLevelIs DEF Grows, S

\* A level contains all levels below.
LEMMA LevelsContain ==
  ASSUME NEW L, Grows(L), NEW m \in Nat, NEW n \in Nat, m <= n PROVE L[m] \subseteq L[n]
<1> DEFINE id == [k \in Nat |-> k]
           S  == {k \in Nat : m <= k => L[m] \subseteq L[k]}
<1>1. ASSUME NEW k \in Nat, \A e \in Nat : id[e] < id[k] => e \in S PROVE k \in S
  <2>1. CASE m <= k /\ m # k
    <3>1. k - 1 \in Nat /\ m <= k - 1 /\ (k - 1) + 1 = k /\ k - 1 < k
      BY <2>1
    <3>2. L[m] \subseteq L[k - 1]
      BY <1>1, <3>1
    <3>3. L[k - 1] \subseteq L[k]
      BY <3>1 DEF Grows
    <3> QED
      BY <3>2, <3>3
  <2> QED
    BY <2>1
<1>2. id \in [Nat -> Nat]
  OBVIOUS
<1> HIDE DEF id, S
<1>3. Nat \subseteq S
  BY <1>1, <1>2, OfTermLevels!RankInduction
<1> QED
  BY <1>3 DEF S

\* The rank of an element is the first level it is at.
Rank(L, m) == [x \in L[m] |-> CHOOSE n \in Nat : n # 0 /\ x \in L[n] /\ x \notin L[n - 1]]

\* Every element has a rank, and what is in the level below its own ranks lower.
LEMMA Ranks ==
  ASSUME NEW L, Grows(L), NEW m \in Nat
  PROVE  /\ Rank(L, m) \in [L[m] -> Nat]
         /\ \A x \in L[m] : LET n == Rank(L, m)[x]
                            IN  /\ n \in 1..m /\ n - 1 \in 0..m /\ x \in L[n]
                                /\ L[n - 1] \subseteq L[m]
                                /\ \A y \in L[n - 1] : Rank(L, m)[y] < n
<1> DEFINE First(x, n) == n # 0 /\ x \in L[n] /\ x \notin L[n - 1]
           id == [k \in Nat |-> k]
<1>1. ASSUME NEW x \in L[m] PROVE \E n \in Nat : First(x, n)
  <2> DEFINE T == {k \in Nat : x \in L[k]}
  <2>1. T \in SUBSET Nat /\ T # {}
    OBVIOUS
  <2>2. id \in [Nat -> Nat]
    OBVIOUS
  <2>3. PICK n \in T : \A e \in T : ~(id[e] < id[n])
    <3> HIDE DEF T, id
    <3> QED
      BY <2>1, <2>2, OfTermLevels!LeastRank
  <2>4. n # 0
    BY DEF Grows
  <2>5. n - 1 \in Nat /\ id[n - 1] < id[n]
    BY <2>4
  <2>6. x \notin L[n - 1]
    BY <2>3, <2>5
  <2> QED
    BY <2>4, <2>6
<1>2. ASSUME NEW x \in L[m] PROVE Rank(L, m)[x] \in Nat /\ First(x, Rank(L, m)[x])
  <2>1. Rank(L, m)[x] = CHOOSE n \in Nat : First(x, n)
    BY DEF Rank
  <2> HIDE DEF First
  <2> QED
    BY <1>1, <2>1
<1>3. Rank(L, m) \in [L[m] -> Nat]
  BY <1>2 DEF Rank
<1>4. ASSUME NEW x \in L[m], NEW k \in Nat, x \in L[k] PROVE Rank(L, m)[x] <= k
  <2> DEFINE n == Rank(L, m)[x]
  <2>1. n \in Nat /\ First(x, n)
    BY <1>2
  <2> HIDE DEF n
  <2>2. ASSUME ~(n <= k) PROVE FALSE
    <3>1. n - 1 \in Nat /\ k <= n - 1
      BY <2>1, <2>2
    <3> QED
      BY <1>4, <2>1, <3>1, LevelsContain
  <2> QED
    BY <2>2 DEF n
<1>5. ASSUME NEW x \in L[m]
      PROVE  LET n == Rank(L, m)[x]
             IN  /\ n \in 1..m /\ n - 1 \in 0..m /\ x \in L[n] /\ L[n - 1] \subseteq L[m]
                 /\ \A y \in L[n - 1] : Rank(L, m)[y] < n
  <2> DEFINE n == Rank(L, m)[x]
  <2>1. n \in Nat /\ First(x, n) /\ n <= m
    BY <1>2, <1>4
  <2> HIDE DEF n
  <2>2. n - 1 \in Nat /\ n - 1 <= m
    BY <2>1
  <2>3. L[n - 1] \subseteq L[m]
    BY <2>2, LevelsContain
  <2>4. ASSUME NEW y \in L[n - 1] PROVE Rank(L, m)[y] < n
    <3>1. Rank(L, m)[y] \in Nat /\ Rank(L, m)[y] <= n - 1
      BY <1>2, <1>4, <2>2, <2>3
    <3> QED
      BY <2>1, <3>1
  <2> QED
    BY <2>1, <2>2, <2>3, <2>4 DEF n
<1> QED
  BY <1>3, <1>5

\* How deep a term or a value is nested: the least level that has it.
TermRank == Rank(TermsUpTo, MaxDepth + 1)
ValRank  == Rank(ValsUpTo, MaxDepth)

\* What is inside a term or a value is one, and nested less.
LEMMA TermsInside ==
  /\ TermRank \in [Terms -> Nat]
  /\ \A t \in Terms : \E S \in SUBSET Terms : t \in TermsOver(S) /\ \A s \in S : TermRank[s] < TermRank[t]
<1>1. MaxDepth + 1 \in Nat
  BY TypesType
<1>2. TermRank \in [Terms -> Nat]
  BY <1>1, Ranks, TermLevelsGrow DEF Terms, TermRank
<1>3. ASSUME NEW t \in Terms
      PROVE  \E S \in SUBSET Terms : t \in TermsOver(S) /\ \A s \in S : TermRank[s] < TermRank[t]
  <2> DEFINE n == TermRank[t]
  <2>1. /\ n \in 1..(MaxDepth + 1) /\ t \in TermsUpTo[n] /\ TermsUpTo[n - 1] \subseteq Terms
        /\ \A s \in TermsUpTo[n - 1] : TermRank[s] < n
    BY <1>1, Ranks, TermLevelsGrow DEF Terms, TermRank
  <2> HIDE DEF n
  <2>2. n \in Nat /\ n # 0
    BY <1>1, <2>1
  <2>3. t \in TermsOver(TermsUpTo[n - 1])
    BY <2>1, <2>2, TermLevelIs
  <2> QED
    BY <2>1, <2>3 DEF n
<1> QED
  BY <1>2, <1>3

\* The same for values.
LEMMA ValsInside ==
  /\ ValRank \in [Vals -> Nat]
  /\ \A v \in Vals : \E S \in SUBSET Vals : v \in ValsOver(S) /\ \A w \in S : ValRank[w] < ValRank[v]
<1>1. MaxDepth \in Nat
  BY TypesType
<1>2. ValRank \in [Vals -> Nat]
  BY <1>1, Ranks, ValLevelsGrow DEF Vals, ValRank
<1>3. ASSUME NEW v \in Vals
      PROVE  \E S \in SUBSET Vals : v \in ValsOver(S) /\ \A w \in S : ValRank[w] < ValRank[v]
  <2> DEFINE n == ValRank[v]
  <2>1. /\ n \in 1..MaxDepth /\ v \in ValsUpTo[n] /\ ValsUpTo[n - 1] \subseteq Vals
        /\ \A w \in ValsUpTo[n - 1] : ValRank[w] < n
    BY <1>1, Ranks, ValLevelsGrow DEF Vals, ValRank
  <2> HIDE DEF n
  <2>2. n \in Nat /\ n # 0
    BY <1>1, <2>1
  <2>3. v \in ValsOver(ValsUpTo[n - 1])
    BY <2>1, <2>2, ValLevelIs
  <2> QED
    BY <2>1, <2>3 DEF n
<1> QED
  BY <1>2, <1>3

\* A term is of one of these shapes.
LEMMA TermShape ==
  ASSUME NEW S, NEW t \in TermsOver(S)
  PROVE  /\ t = <<Kind(t), Body(t)>>
         /\ Kind(t) \in {"integer", "float", "atom", "binary", "list", "tuple", "map"}
         /\ Kind(t) = "integer" => Body(t) \in Int
         /\ Kind(t) = "float" => Body(t) \in Floats
         /\ Kind(t) = "atom" => Body(t) \in Texts
         /\ Kind(t) = "binary" => Body(t) \in STRING
         /\ Kind(t) \in {"list", "tuple"} => Body(t) \in Seq(S)
         /\ Kind(t) = "map" => /\ Body(t) = <<Body(t)[1], Entries(t)>>
                               /\ Body(t)[1] \in {"atom", "binary"}
                               /\ Entries(t) \subseteq S \X S
BY DEF TermsOver, Kind, Body, Entries

\* And a value of one of these.
LEMMA ValShape ==
  ASSUME NEW S, NEW v \in ValsOver(S)
  PROVE  /\ v = <<Kind(v), Body(v)>>
         /\ Kind(v) \in {"int", "single", "double", "bool", "string", "enum", "char", "ref", "resource",
                         "flags", "list", "tuple", "record", "option", "result", "variant"}
         /\ Kind(v) = "int" => Body(v) \in Int
         /\ Kind(v) = "single" => Body(v) \in {"short", "rounded"}
         /\ Kind(v) = "double" => Body(v) \in Floats
         /\ Kind(v) = "bool" => Body(v) \in BOOLEAN
         /\ Kind(v) \in {"string", "enum"} => Body(v) \in Texts
         /\ Kind(v) = "char" => Body(v) \in Scalars
         /\ Kind(v) = "flags" => Body(v) \subseteq Texts
         /\ Kind(v) \in {"list", "tuple"} => Body(v) \in Seq(S)
         /\ Kind(v) = "record" => Body(v) \subseteq Texts \X S
         /\ Kind(v) \in {"option", "result", "variant"} =>
              Body(v) = <<Body(v)[1], Body(v)[2]>> /\ Body(v)[1] \in Texts /\ Body(v)[2] \in Seq(S)
BY DEF ValsOver, Kind, Body

-----------------------------------------------------------------------------
(* The recursive functions have the values their definitions say.           *)

\* What a type is made of is a type, and nested less.
LEMMA TypesInside ==
  ASSUME NEW ty \in Types
  PROVE  /\ \A p \in Inside(ty) : p \in Types /\ Depth[p] < Depth[ty] /\ Kind(p) \notin CoreKinds
         /\ Kind(ty) \in {"list", "option", "alias"} => Body(ty) \in Inside(ty)
         /\ Kind(ty) = "tuple" =>
              Body(ty) \in Seq(Types) /\ \A i \in DOMAIN Body(ty) : Body(ty)[i] \in Inside(ty)
         /\ Kind(ty) = "record" => \A name \in DOMAIN Body(ty) : Body(ty)[name] \in Inside(ty)
         /\ Kind(ty) \in {"option", "result", "variant"} =>
              \A tag \in DOMAIN Cases(ty) : Cases(ty)[tag] # NoType => Cases(ty)[tag] \in Inside(ty)
<1>1. IsType(ty)
  BY TypesType
<1>2. NoType \notin Types
  <2> SUFFICES ASSUME NoType \in Types PROVE FALSE
    OBVIOUS
  <2>1. IsType(NoType)
    BY TypesType
  <2> QED
    BY <2>1 DEF IsType, NoType, Kind, CoreKinds, Prims
<1>3. \A p \in Inside(ty) : p \in Types /\ Depth[p] < Depth[ty] /\ Kind(p) \notin CoreKinds
  BY <1>1 DEF IsType
<1>4. Kind(ty) \in {"list", "option", "alias"} => Body(ty) \in Inside(ty)
  BY DEF Inside
<1>5. CASE Kind(ty) = "tuple"
  <2>1. Inside(ty) = Range(Body(ty)) \ {NoType} /\ Body(ty) \in Seq(Types)
    BY <1>1, <1>5 DEF Inside, IsType
  <2> QED
    BY <1>2, <1>3, <1>5, <2>1 DEF Range
<1>6. CASE Kind(ty) = "record"
  <2>1. Inside(ty) = Range(Body(ty)) \ {NoType} /\ Body(ty) \in [DOMAIN Body(ty) -> Types]
    BY <1>1, <1>6 DEF Inside, IsType
  <2> QED
    BY <1>2, <1>3, <1>6, <2>1 DEF Range
<1>7. CASE Kind(ty) \in {"result", "variant"}
  <2>1. Inside(ty) = Range(Body(ty)) \ {NoType} /\ Cases(ty) = Body(ty)
    BY <1>7 DEF Inside, Cases
  <2> QED
    BY <1>3, <1>7, <2>1 DEF Range
<1>8. CASE Kind(ty) = "option"
  <2>1. Inside(ty) = {Body(ty)} /\ Cases(ty) = [none |-> NoType, some |-> Body(ty)]
    BY <1>8 DEF Inside, Cases
  <2> QED
    BY <1>3, <1>8, <2>1
<1> QED
  BY <1>3, <1>4, <1>5, <1>6, <1>7, <1>8

\* The bodies of the recursive functions of Values, with the function as a parameter.
ToValRow(f, ty)   == [t \in Terms |-> ToVal(f, ty, t)]
ResultRow(f, ty)  == [t \in Terms |-> ConvertResult(f, ty, t)]
FitsRow(f, ty)    == [v \in Vals |-> Fits(f, ty, v)]
PartsRow(f, ty)   == {ty} \cup UNION {f[p] : p \in Inside(ty)}
WitNames(f, t)    == ConvertNames(f, t, WitKey)
ElixirNames(f, t) == ConvertNames(f, t, ElixirKey)

OfTermToVal   == INSTANCE Recursion WITH Def <- ToValRow
OfResultToVal == INSTANCE Recursion WITH Def <- ResultRow
OfHasType     == INSTANCE Recursion WITH Def <- FitsRow
OfParts       == INSTANCE Recursion WITH Def <- PartsRow
OfValToTerm   == INSTANCE Recursion WITH Def <- ToTerm
OfToWit       == INSTANCE Recursion WITH Def <- WitNames
OfToElixir    == INSTANCE Recursion WITH Def <- ElixirNames

\* Types are ranked by how deep they are nested.
LEMMA DepthIsRank == Depth \in [Types -> Nat]
BY TypesType

\* term_to_val depends on itself only at what is inside the type.
LEMMA SameToVal ==
  ASSUME NEW ty \in Types, NEW g, NEW h, \A p \in Inside(ty) : g[p] = h[p], NEW t
  PROVE  ToVal(g, ty, t) = ToVal(h, ty, t)
<1>1. CASE Kind(ty) = "list"
  <2>1. ListToVal(g, ty, t) = ListToVal(h, ty, t)
    BY <1>1, TypesInside DEF ListToVal
  <2> QED
    BY <1>1, <2>1 DEF ToVal, Prims
<1>2. CASE Kind(ty) = "tuple"
  <2>1. \A i \in Paired(Body(ty), Body(t)) : i \in DOMAIN Body(ty)
    BY <1>2, TypesInside DEF Paired
  <2>2. TupleToVal(g, ty, t) = TupleToVal(h, ty, t)
    BY <1>2, <2>1, TypesInside DEF TupleToVal
  <2> QED
    BY <1>2, <2>2 DEF ToVal, Prims
<1>3. CASE Kind(ty) = "record"
  <2>1. RecordToVal(g, ty, t) = RecordToVal(h, ty, t)
    BY <1>3, TypesInside DEF RecordToVal
  <2> QED
    BY <1>3, <2>1 DEF ToVal, Prims
<1>4. CASE Kind(ty) = "option"
  <2>1. OptionToVal(g, ty, t) = OptionToVal(h, ty, t)
    BY <1>4, TypesInside DEF OptionToVal
  <2> QED
    BY <1>4, <2>1 DEF ToVal, Prims
<1>5. CASE Kind(ty) = "result"
  <2>1. Cases(ty) = Body(ty) /\ DOMAIN Body(ty) = {"ok", "error"}
    BY <1>5, TypesType DEF Cases, IsType
  <2>2. ResultTypeToVal(g, ty, t) = ResultTypeToVal(h, ty, t)
    BY <1>5, <2>1, TypesInside DEF ResultTypeToVal, Tagged, Atom, Body
  <2> QED
    BY <1>5, <2>2 DEF ToVal, Prims
<1>6. CASE Kind(ty) = "variant"
  <2>1. Cases(ty) = Body(ty)
    BY <1>6 DEF Cases
  <2>2. VariantToVal(g, ty, t) = VariantToVal(h, ty, t)
    BY <1>6, <2>1, TypesInside DEF VariantToVal
  <2> QED
    BY <1>6, <2>2 DEF ToVal, Prims
<1>7. CASE Kind(ty) = "alias"
  BY <1>7, TypesInside DEF ToVal, Prims
<1>8. CASE Kind(ty) \notin {"list", "tuple", "record", "option", "result", "variant", "alias"}
  BY <1>8 DEF ToVal
<1> QED
  BY <1>1, <1>2, <1>3, <1>4, <1>5, <1>6, <1>7, <1>8

\* So does convert_result_term,
LEMMA SameResult ==
  ASSUME NEW ty \in Types, NEW g, NEW h, \A p \in Inside(ty) : g[p] = h[p], NEW t
  PROVE  ConvertResult(g, ty, t) = ConvertResult(h, ty, t)
<1>1. CASE Kind(ty) = "list"
  <2>1. ResultToList(g, ty, t) = ResultToList(h, ty, t)
    BY <1>1, TypesInside DEF ResultToList, ListToVal
  <2> QED
    BY <1>1, <2>1 DEF ConvertResult, ConvertComplexResult, Prims
<1>2. CASE Kind(ty) = "tuple"
  <2>1. \A i \in Paired(Body(ty), Body(t)) : i \in DOMAIN Body(ty)
    BY <1>2, TypesInside DEF Paired
  <2>2. ResultToTuple(g, ty, t) = ResultToTuple(h, ty, t)
    BY <1>2, <2>1, TypesInside DEF ResultToTuple, TupleToVal
  <2> QED
    BY <1>2, <2>2 DEF ConvertResult, ConvertComplexResult, Prims
<1>3. CASE Kind(ty) = "record"
  <2>1. ResultToRecord(g, ty, t) = ResultToRecord(h, ty, t)
    BY <1>3, TypesInside DEF ResultToRecord
  <2> QED
    BY <1>3, <2>1 DEF ConvertResult, ConvertComplexResult, Prims
<1>4. CASE Kind(ty) = "option"
  <2>1. ResultToOption(g, ty, t) = ResultToOption(h, ty, t)
    BY <1>4, TypesInside DEF ResultToOption, OptionToVal
  <2> QED
    BY <1>4, <2>1 DEF ConvertResult, ConvertComplexResult, Prims
<1>5. CASE Kind(ty) = "result"
  <2>1. Cases(ty) = Body(ty) /\ DOMAIN Body(ty) = {"ok", "error"}
    BY <1>5, TypesType DEF Cases, IsType
  <2>2. \A s \in {"ok", "error"} : Body(ty)[s] # NoType => g[Body(ty)[s]] = h[Body(ty)[s]]
    BY <1>5, <2>1, TypesInside
  <2>3. ResultToResult(g, ty, t) = ResultToResult(h, ty, t)
    BY <2>2 DEF ResultToResult
  <2> QED
    BY <1>5, <2>3 DEF ConvertResult, ConvertComplexResult, Prims
<1>6. CASE Kind(ty) = "variant"
  <2>1. Cases(ty) = Body(ty)
    BY <1>6 DEF Cases
  <2>2. ResultToVariant(g, ty, t) = ResultToVariant(h, ty, t)
    BY <1>6, <2>1, TypesInside DEF ResultToVariant
  <2> QED
    BY <1>6, <2>2 DEF ConvertResult, ConvertComplexResult, Prims
<1>7. CASE Kind(ty) = "alias"
  BY <1>7, TypesInside DEF ConvertResult, ConvertComplexResult, Prims
<1>8. CASE Kind(ty) \notin {"list", "tuple", "record", "option", "result", "variant", "alias"}
  BY <1>8 DEF ConvertResult, ConvertComplexResult
<1> QED
  BY <1>1, <1>2, <1>3, <1>4, <1>5, <1>6, <1>7, <1>8

\* and so does what wasmtime accepts.
LEMMA SameFits ==
  ASSUME NEW ty \in Types, NEW g, NEW h, \A p \in Inside(ty) : g[p] = h[p], NEW v \in Vals
  PROVE  Fits(g, ty, v) = Fits(h, ty, v)
<1>0. Kind(ty) \notin {"i32", "i64", "v128", "f32", "f64"} => Kind(ty) \notin DOMAIN CoreRange
  BY CoreRangeType
<1>1. CASE Kind(ty) = "list"
  BY <1>0, <1>1, TypesInside DEF Fits
<1>2. CASE Kind(ty) = "tuple"
  <2>1. Kind(v) = "tuple" => Body(v) \in Seq(Vals)
    BY ValsInside, ValShape
  <2>2. Kind(v) = "tuple" /\ Len(Body(v)) = Len(Body(ty)) =>
          \A i \in DOMAIN Body(v) : g[Body(ty)[i]] = h[Body(ty)[i]]
    BY <1>2, <2>1, TypesInside
  <2> QED
    BY <1>0, <1>2, <2>2 DEF Fits
<1>3. CASE Kind(ty) = "record"
  <2>1. {f[1] : f \in Body(v)} = DOMAIN Body(ty) =>
          \A f \in Body(v) : g[Body(ty)[f[1]]] = h[Body(ty)[f[1]]]
    BY <1>3, TypesInside
  <2> QED
    BY <1>0, <1>3, <2>1 DEF Fits
<1>4. CASE Kind(ty) \in {"option", "result", "variant"}
  <2>1. \A tag \in DOMAIN Cases(ty) : Cases(ty)[tag] # NoType => g[Cases(ty)[tag]] = h[Cases(ty)[tag]]
    BY <1>4, TypesInside
  <2> QED
    BY <1>0, <1>4, <2>1 DEF Fits
<1>5. CASE Kind(ty) = "alias"
  BY <1>0, <1>5, TypesInside DEF Fits
<1>6. CASE Kind(ty) \notin {"list", "tuple", "record", "option", "result", "variant", "alias"}
  BY <1>6 DEF Fits
<1> QED
  BY <1>1, <1>2, <1>3, <1>4, <1>5, <1>6

\* Each recursive function therefore satisfies its definition.
LEMMA TermToValIs == \A ty \in Types, t \in Terms : TermToVal[ty][t] = ToVal(TermToVal, ty, t)
<1>1. ASSUME NEW ty \in Types, NEW g, NEW h, \A e \in Types : Depth[e] < Depth[ty] => g[e] = h[e]
      PROVE  ToValRow(g, ty) = ToValRow(h, ty)
  <2>1. \A p \in Inside(ty) : g[p] = h[p]
    BY <1>1, TypesInside
  <2>2. \A t : ToVal(g, ty, t) = ToVal(h, ty, t)
    BY <2>1, SameToVal
  <2> QED
    BY <2>2 DEF ToValRow
<1>2. OfTermToVal!Grounded(Types, Depth)
  BY <1>1 DEF OfTermToVal!Grounded
<1>3. TermToVal = CHOOSE f : f = [ty \in Types |-> ToValRow(f, ty)]
  BY DEF TermToVal, ToValRow
<1>4. TermToVal = [ty \in Types |-> ToValRow(TermToVal, ty)]
  BY <1>2, <1>3, DepthIsRank, OfTermToVal!RankRecursion
<1> QED
  BY <1>4 DEF ToValRow

\* convert_result_term satisfies its definition.
LEMMA ResultToValIs == \A ty \in Types, t \in Terms : ResultToVal[ty][t] = ConvertResult(ResultToVal, ty, t)
<1>1. ASSUME NEW ty \in Types, NEW g, NEW h, \A e \in Types : Depth[e] < Depth[ty] => g[e] = h[e]
      PROVE  ResultRow(g, ty) = ResultRow(h, ty)
  <2>1. \A p \in Inside(ty) : g[p] = h[p]
    BY <1>1, TypesInside
  <2>2. \A t : ConvertResult(g, ty, t) = ConvertResult(h, ty, t)
    BY <2>1, SameResult
  <2> QED
    BY <2>2 DEF ResultRow
<1>2. OfResultToVal!Grounded(Types, Depth)
  BY <1>1 DEF OfResultToVal!Grounded
<1>3. ResultToVal = CHOOSE f : f = [ty \in Types |-> ResultRow(f, ty)]
  BY DEF ResultToVal, ResultRow
<1>4. ResultToVal = [ty \in Types |-> ResultRow(ResultToVal, ty)]
  BY <1>2, <1>3, DepthIsRank, OfResultToVal!RankRecursion
<1> QED
  BY <1>4 DEF ResultRow

\* What wasmtime accepts satisfies its definition.
LEMMA HasTypeIs == \A ty \in Types, v \in Vals : HasType[ty][v] = Fits(HasType, ty, v)
<1>1. ASSUME NEW ty \in Types, NEW g, NEW h, \A e \in Types : Depth[e] < Depth[ty] => g[e] = h[e]
      PROVE  FitsRow(g, ty) = FitsRow(h, ty)
  <2>1. \A p \in Inside(ty) : g[p] = h[p]
    BY <1>1, TypesInside
  <2>2. \A v \in Vals : Fits(g, ty, v) = Fits(h, ty, v)
    BY <2>1, SameFits
  <2> QED
    BY <2>2 DEF FitsRow
<1>2. OfHasType!Grounded(Types, Depth)
  BY <1>1 DEF OfHasType!Grounded
<1>3. HasType = CHOOSE f : f = [ty \in Types |-> FitsRow(f, ty)]
  BY DEF HasType, FitsRow
<1>4. HasType = [ty \in Types |-> FitsRow(HasType, ty)]
  BY <1>2, <1>3, DepthIsRank, OfHasType!RankRecursion
<1> QED
  BY <1>4 DEF FitsRow

\* The parts of a type are itself and the parts of what is inside.
LEMMA PartsIs == \A ty \in Types : Parts[ty] = {ty} \cup UNION {Parts[p] : p \in Inside(ty)}
<1>1. ASSUME NEW ty \in Types, NEW g, NEW h, \A e \in Types : Depth[e] < Depth[ty] => g[e] = h[e]
      PROVE  PartsRow(g, ty) = PartsRow(h, ty)
  <2>1. \A p \in Inside(ty) : g[p] = h[p]
    BY <1>1, TypesInside
  <2>2. {g[p] : p \in Inside(ty)} = {h[p] : p \in Inside(ty)}
    BY <2>1
  <2> QED
    BY <2>2 DEF PartsRow
<1>2. OfParts!Grounded(Types, Depth)
  BY <1>1 DEF OfParts!Grounded
<1>3. Parts = CHOOSE f : f = [ty \in Types |-> PartsRow(f, ty)]
  BY DEF Parts, PartsRow
<1>4. Parts = [ty \in Types |-> PartsRow(Parts, ty)]
  BY <1>2, <1>3, DepthIsRank, OfParts!RankRecursion
<1> QED
  BY <1>4 DEF PartsRow

\* val_to_term satisfies its definition: it calls itself on the members of a value.
LEMMA ValToTermIs == \A v \in Vals : ValToTerm[v] = ToTerm(ValToTerm, v)
<1>1. ASSUME NEW v \in Vals, NEW g, NEW h, \A w \in Vals : ValRank[w] < ValRank[v] => g[w] = h[w]
      PROVE  ToTerm(g, v) = ToTerm(h, v)
  <2>1. PICK S \in SUBSET Vals : v \in ValsOver(S) /\ \A w \in S : ValRank[w] < ValRank[v]
    BY ValsInside
  <2>2. \A w \in S : g[w] = h[w]
    BY <1>1, <2>1
  <2>3. CASE Kind(v) \in {"list", "tuple"}
    <3>1. \A i \in DOMAIN Body(v) : g[Body(v)[i]] = h[Body(v)[i]]
      BY <2>1, <2>2, <2>3, ValShape
    <3> QED
      BY <2>3, <3>1 DEF ToTerm
  <2>4. CASE Kind(v) = "record"
    <3>1. \A f \in Body(v) : g[f[2]] = h[f[2]]
      BY <2>1, <2>2, <2>4, ValShape
    <3>2. {<<Atom(f[1]), g[f[2]]>> : f \in Body(v)} = {<<Atom(f[1]), h[f[2]]>> : f \in Body(v)}
      BY <3>1
    <3> QED
      BY <2>4, <3>2 DEF ToTerm
  <2>5. CASE Kind(v) \in {"option", "result", "variant"}
    <3>1. Body(v)[2] # <<>> => g[Body(v)[2][1]] = h[Body(v)[2][1]]
      BY <2>1, <2>2, <2>5, ValShape
    <3> QED
      BY <2>5, <3>1 DEF ToTerm
  <2>6. CASE Kind(v) \notin {"list", "tuple", "record", "option", "result", "variant"}
    BY <2>6 DEF ToTerm
  <2> QED
    BY <2>3, <2>4, <2>5, <2>6
<1>2. OfValToTerm!Grounded(Vals, ValRank)
  BY <1>1 DEF OfValToTerm!Grounded
<1>3. ValToTerm = CHOOSE f : f = [v \in Vals |-> ToTerm(f, v)]
  BY DEF ValToTerm
<1>4. ValToTerm = [v \in Vals |-> ToTerm(ValToTerm, v)]
  BY <1>2, <1>3, ValsInside, OfValToTerm!RankRecursion
<1> QED
  BY <1>4

\* The field converter depends on itself only at the members of a list.
LEMMA SameNames ==
  ASSUME NEW t \in Terms, NEW to, NEW g, NEW h,
         \A e \in Terms : TermRank[e] < TermRank[t] => g[e] = h[e]
  PROVE  ConvertNames(g, t, to) = ConvertNames(h, t, to)
<1>1. PICK S \in SUBSET Terms : t \in TermsOver(S) /\ \A s \in S : TermRank[s] < TermRank[t]
  BY TermsInside
<1>2. CASE Kind(t) = "list"
  <2>1. \A i \in DOMAIN Body(t) : g[Body(t)[i]] = h[Body(t)[i]]
    BY <1>1, <1>2, TermShape
  <2> QED
    BY <1>2, <2>1 DEF ConvertNames
<1>3. CASE Kind(t) # "list"
  BY <1>3 DEF ConvertNames
<1> QED
  BY <1>2, <1>3

\* to_wit satisfies its definition.
LEMMA ToWitIs == \A t \in Terms : ToWit[t] = ConvertNames(ToWit, t, WitKey)
<1>1. OfToWit!Grounded(Terms, TermRank)
  BY SameNames DEF OfToWit!Grounded, WitNames
<1>2. ToWit = CHOOSE f : f = [t \in Terms |-> WitNames(f, t)]
  BY DEF ToWit, WitNames
<1>3. ToWit = [t \in Terms |-> WitNames(ToWit, t)]
  BY <1>1, <1>2, TermsInside, OfToWit!RankRecursion
<1> QED
  BY <1>3 DEF WitNames

\* to_elixir satisfies its definition.
LEMMA ToElixirIs == \A t \in Terms : ToElixir[t] = ConvertNames(ToElixir, t, ElixirKey)
<1>1. OfToElixir!Grounded(Terms, TermRank)
  BY SameNames DEF OfToElixir!Grounded, ElixirNames
<1>2. ToElixir = CHOOSE f : f = [t \in Terms |-> ElixirNames(f, t)]
  BY DEF ToElixir, ElixirNames
<1>3. ToElixir = [t \in Terms |-> ElixirNames(ToElixir, t)]
  BY <1>1, <1>2, TermsInside, OfToElixir!RankRecursion
<1> QED
  BY <1>3 DEF ElixirNames

-----------------------------------------------------------------------------
(* Types: what the converters return are terms and values again.            *)

\* The part of the assumption on texts that the proofs need, named in pieces.
LEMMA TextsType ==
  /\ Texts \subseteq STRING
  /\ {"nil", "true", "false", "none", "some", "ok", "error"} \subseteq Texts
  /\ {"Unsupported type", "unable_to_convert"} \subseteq Texts
  /\ \A c \in Scalars : \E text \in Texts : CodePoints[text] = <<c>>
  /\ \A text \in Texts : CodePoints[text] \in Seq(Scalars)
BY CodePointsType

\* Terms of each shape.
LEMMA BuildTerms ==
  ASSUME NEW S
  PROVE  /\ \A n \in Int : <<"integer", n>> \in TermsOver(S)
         /\ \A c \in Floats : <<"float", c>> \in TermsOver(S)
         /\ \A s \in Texts : Atom(s) \in TermsOver(S)
         /\ \A s \in STRING : <<"binary", s>> \in TermsOver(S)
         /\ \A s \in Seq(S) : <<"list", s>> \in TermsOver(S) /\ <<"tuple", s>> \in TermsOver(S)
         /\ \A k \in {"atom", "binary"}, E \in SUBSET (S \X S) : <<"map", <<k, E>>>> \in TermsOver(S)
BY DEF TermsOver, Atom

\* Values of each shape.
LEMMA BuildVals ==
  ASSUME NEW S
  PROVE  /\ \A n \in Int : <<"int", n>> \in ValsOver(S)
         /\ \A c \in {"short", "rounded"} : <<"single", c>> \in ValsOver(S)
         /\ \A c \in Floats : <<"double", c>> \in ValsOver(S)
         /\ \A b \in BOOLEAN : <<"bool", b>> \in ValsOver(S)
         /\ \A s \in Texts : <<"string", s>> \in ValsOver(S) /\ <<"enum", s>> \in ValsOver(S)
         /\ \A c \in Scalars : <<"char", c>> \in ValsOver(S)
         /\ \A s \in SUBSET Texts : <<"flags", s>> \in ValsOver(S)
         /\ \A s \in Seq(S) : <<"list", s>> \in ValsOver(S) /\ <<"tuple", s>> \in ValsOver(S)
         /\ \A s \in SUBSET (Texts \X S) : <<"record", s>> \in ValsOver(S)
         /\ \A k \in {"option", "result", "variant"}, s \in Texts, p \in Seq(S) :
              <<k, <<s, p>>>> \in ValsOver(S)
BY DEF ValsOver

\* A level that is not empty has all leaves.
LEMMA LevelAbove ==
  ASSUME NEW n \in Nat, NEW t \in TermsUpTo[n]
  PROVE  n - 1 \in Nat /\ TermsUpTo[n] = TermsOver(TermsUpTo[n - 1])
<1>1. n # 0
  BY TermLevelIs
<1> QED
  BY <1>1, TermLevelIs

\* Renaming a key gives a term nested no deeper.
LEMMA KeysType ==
  ASSUME NEW n \in Nat, n <= MaxDepth + 1, NEW k \in TermsUpTo[n]
  PROVE  WitKey[k] \in TermsUpTo[n] /\ ElixirKey[k] \in TermsUpTo[n]
<1>1. n - 1 \in Nat /\ TermsUpTo[n] = TermsOver(TermsUpTo[n - 1])
  BY LevelAbove
<1>2. k \in Terms
  BY TypesType, LevelsContain, TermLevelsGrow DEF Terms
<1>3. Kind(k) = "atom" => Body(k) \in Texts
  BY <1>1, TermShape
<1>4. ASSUME NEW s \in Texts PROVE WitName(s) \in Texts /\ ElixirName(s) \in Texts
  BY KebabType DEF WitName, ElixirName, Range
<1>5. Texts \subseteq STRING
  BY TextsType
<1>6. WitKey[k] \in TermsUpTo[n]
  BY <1>1, <1>2, <1>3, <1>4, <1>5, BuildTerms DEF WitKey
<1>7. ElixirKey[k] \in TermsUpTo[n]
  BY <1>1, <1>2, <1>3, <1>4, BuildTerms DEF ElixirKey, IsUtf8
<1> QED
  BY <1>6, <1>7

\* Converting field names keeps a term in its level, if it does so below.
LEMMA ConvertNamesType ==
  ASSUME NEW n \in Nat, NEW t \in TermsUpTo[n], NEW conv, NEW to,
         \A s \in TermsUpTo[n - 1] : conv[s] \in TermsUpTo[n - 1] /\ to[s] \in TermsUpTo[n - 1]
  PROVE  ConvertNames(conv, t, to) \in TermsUpTo[n]
<1> DEFINE S == TermsUpTo[n - 1]
<1>1. TermsUpTo[n] = TermsOver(S)
  BY LevelAbove
<1>2. \A s \in S : conv[s] \in S /\ to[s] \in S
  OBVIOUS
<1> HIDE DEF S
<1>3. CASE Kind(t) = "list"
  <2>1. Body(t) \in Seq(S)
    BY <1>1, <1>3, TermShape
  <2>2. [i \in DOMAIN Body(t) |-> conv[Body(t)[i]]] \in Seq(S)
    BY <1>2, <2>1
  <2>3. ConvertNames(conv, t, to) = <<"list", [i \in DOMAIN Body(t) |-> conv[Body(t)[i]]]>>
    BY <1>3 DEF ConvertNames
  <2> QED
    BY <1>1, <2>2, <2>3, BuildTerms
<1>4. CASE Kind(t) = "map"
  <2>1. Body(t)[1] \in {"atom", "binary"} /\ Entries(t) \subseteq S \X S
    BY <1>1, <1>4, TermShape
  <2> DEFINE same(key) == {e \in Entries(t) : to[e[1]] = key}
             last(key) == CHOOSE e \in same(key) :
                            (\E f \in same(key) : Kind(f[1]) = "binary") => Kind(e[1]) = "binary"
             E == {<<key, last(key)[2]>> : key \in {to[e[1]] : e \in Entries(t)}}
  <2>2. ASSUME NEW key \in {to[e[1]] : e \in Entries(t)} PROVE <<key, last(key)[2]>> \in S \X S
    <3>1. PICK e \in Entries(t) : key = to[e[1]]
      OBVIOUS
    <3>2. key \in S
      BY <1>2, <2>1, <3>1
    <3>3. \E f \in same(key) : (\E g \in same(key) : Kind(g[1]) = "binary") => Kind(f[1]) = "binary"
      BY <3>1
    <3>4. last(key) \in same(key)
      BY <3>3
    <3> QED
      BY <2>1, <3>2, <3>4
  <2>3. E \subseteq S \X S
    BY <2>2
  <2>4. ConvertNames(conv, t, to) = Rename(t, to)
    BY <1>4 DEF ConvertNames
  <2>5. Rename(t, to) = <<"map", <<Body(t)[1], E>>>>
    BY Zenon DEF Rename
  <2> HIDE DEF E
  <2> QED
    BY <1>1, <2>1, <2>3, <2>4, <2>5, BuildTerms
<1>5. CASE Kind(t) = "tuple" /\ Len(Body(t)) = 2
  <2>1. Body(t) \in Seq(S)
    BY <1>1, <1>5, TermShape
  <2>2. Body(t)[1] \in S /\ Body(t)[2] \in S
    <3> DEFINE b == Body(t)
    <3>1. b \in Seq(S) /\ Len(b) = 2
      BY <1>5, <2>1
    <3> HIDE DEF b
    <3>2. b[1] \in S /\ b[2] \in S
      BY <3>1
    <3> QED
      BY <3>2 DEF b
  <2>3. <<to[Body(t)[1]], Body(t)[2]>> \in Seq(S)
    BY <1>2, <2>2
  <2>4. ConvertNames(conv, t, to) = <<"tuple", <<to[Body(t)[1]], Body(t)[2]>>>>
    BY <1>5 DEF ConvertNames
  <2> QED
    BY <1>1, <2>3, <2>4, BuildTerms
<1>6. CASE Kind(t) \notin {"list", "map"} /\ ~(Kind(t) = "tuple" /\ Len(Body(t)) = 2)
  BY <1>6 DEF ConvertNames
<1> QED
  BY <1>3, <1>4, <1>5, <1>6

\* The field converter makes terms of terms.
LEMMA NamesType == \A t \in Terms : ToWit[t] \in Terms /\ ToElixir[t] \in Terms
<1> DEFINE id == [k \in Nat |-> k]
           S  == {n \in Nat : n <= MaxDepth + 1 =>
                    \A t \in TermsUpTo[n] : ToWit[t] \in TermsUpTo[n] /\ ToElixir[t] \in TermsUpTo[n]}
<1>1. MaxDepth \in Nat
  BY TypesType
<1>2. ASSUME NEW n \in Nat, \A e \in Nat : id[e] < id[n] => e \in S, n <= MaxDepth + 1,
             NEW t \in TermsUpTo[n]
      PROVE  ToWit[t] \in TermsUpTo[n] /\ ToElixir[t] \in TermsUpTo[n]
  <2>1. n - 1 \in Nat /\ n - 1 < n /\ n - 1 <= MaxDepth + 1
    BY <1>1, <1>2, LevelAbove
  <2>2. t \in Terms
    BY <1>1, <1>2, LevelsContain, TermLevelsGrow DEF Terms
  <2>3. \A s \in TermsUpTo[n - 1] : ToWit[s] \in TermsUpTo[n - 1] /\ ToElixir[s] \in TermsUpTo[n - 1]
    BY <1>2, <2>1
  <2>4. \A s \in TermsUpTo[n - 1] : WitKey[s] \in TermsUpTo[n - 1] /\ ElixirKey[s] \in TermsUpTo[n - 1]
    BY <2>1, KeysType
  <2>5. ConvertNames(ToWit, t, WitKey) \in TermsUpTo[n] /\ ConvertNames(ToElixir, t, ElixirKey) \in TermsUpTo[n]
    BY <2>3, <2>4, ConvertNamesType
  <2> QED
    BY <2>2, <2>5, ToWitIs, ToElixirIs
<1>3. \A n \in Nat : (\A e \in Nat : id[e] < id[n] => e \in S) => n \in S
  BY <1>2
<1>4. id \in [Nat -> Nat]
  OBVIOUS
<1> HIDE DEF id, S
<1>5. Nat \subseteq S
  BY <1>3, <1>4, OfTermLevels!RankInduction
<1>6. MaxDepth + 1 \in S
  BY <1>1, <1>5
<1> QED
  BY <1>1, <1>6 DEF S, Terms

\* What is inside a term is a term, and of a value a value.
LEMMA TermsOfTerms == Terms \subseteq TermsOver(Terms)
BY TermsInside, MoreTerms

\* The same for values.
LEMMA ValsOfVals == Vals \subseteq ValsOver(Vals)
BY ValsInside, MoreVals

\* A value becomes a term at most one level deeper: flags are a map.
LEMMA ToTermType ==
  ASSUME NEW S, NEW v \in ValsOver(S), NEW T, NEW conv, \A w \in S : conv[w] \in T,
         S # {} \/ Kind(v) = "flags" => \A s \in Texts : Atom(s) \in T
  PROVE  ToTerm(conv, v) \in TermsOver(T)
<1>1. ASSUME NEW i, NEW s \in Seq(S), i \in DOMAIN s PROVE s[i] \in S
  BY <1>1
<1>2. CASE Kind(v) \in {"list", "tuple"}
  <2>1. Body(v) \in Seq(S)
    BY <1>2, ValShape
  <2>2. [i \in DOMAIN Body(v) |-> conv[Body(v)[i]]] \in Seq(T)
    BY <2>1
  <2>3. ToTerm(conv, v) = <<Kind(v), [i \in DOMAIN Body(v) |-> conv[Body(v)[i]]]>>
    BY <1>2 DEF ToTerm
  <2> QED
    BY <1>2, <2>2, <2>3, BuildTerms
<1>3. CASE Kind(v) = "record"
  <2> DEFINE E == {<<Atom(f[1]), conv[f[2]]>> : f \in Body(v)}
  <2>1. Body(v) \subseteq Texts \X S
    BY <1>3, ValShape
  <2>2. E \subseteq T \X T
    BY <2>1
  <2>3. ToTerm(conv, v) = <<"map", <<"atom", E>>>>
    BY <1>3 DEF ToTerm
  <2> HIDE DEF E
  <2> QED
    BY <2>2, <2>3, BuildTerms
<1>4. CASE Kind(v) = "flags"
  <2> DEFINE E == {<<Atom(name), Atom("true")>> : name \in Body(v)}
  <2>1. Body(v) \subseteq Texts
    BY <1>4, ValShape
  <2>2. E \subseteq T \X T
    <3>1. "true" \in Texts /\ \A s \in Texts : Atom(s) \in T
      BY <1>4, TextsType
    <3> QED
      BY <2>1, <3>1
  <2>3. ToTerm(conv, v) = <<"map", <<"atom", E>>>>
    BY <1>4 DEF ToTerm
  <2> HIDE DEF E
  <2> QED
    BY <2>2, <2>3, BuildTerms
<1>5. CASE Kind(v) \in {"option", "result", "variant"}
  <2>1. Body(v)[1] \in Texts /\ Body(v)[2] \in Seq(S)
    BY <1>5, ValShape
  <2>2. CASE Body(v)[2] = <<>>
    <3>1. ToTerm(conv, v) = Atom(Body(v)[1])
      BY <1>5, <2>2 DEF ToTerm
    <3> QED
      BY <2>1, <3>1, BuildTerms
  <2>3. CASE Body(v)[2] # <<>>
    <3>1. Body(v)[2][1] \in S
      BY <2>1, <2>3
    <3>2. <<Atom(Body(v)[1]), conv[Body(v)[2][1]]>> \in Seq(T)
      BY <2>1, <3>1
    <3>3. ToTerm(conv, v) = <<"tuple", <<Atom(Body(v)[1]), conv[Body(v)[2][1]]>>>>
      BY <1>5, <2>3 DEF ToTerm
    <3> QED
      BY <3>2, <3>3, BuildTerms
  <2> QED
    BY <2>2, <2>3
<1>6. CASE Kind(v) = "char"
  <2>1. Body(v) \in Scalars
    BY <1>6, ValShape
  <2>2. (CHOOSE text \in Texts : CodePoints[text] = <<Body(v)>>) \in STRING
    BY <2>1, TextsType
  <2> QED
    BY <1>6, <2>2, BuildTerms DEF ToTerm
<1>7. CASE Kind(v) \in {"string", "bool", "int", "single", "double", "enum"}
  <2>1. /\ Kind(v) \in {"string", "enum"} => Body(v) \in Texts
        /\ Kind(v) = "bool" => Body(v) \in BOOLEAN
        /\ Kind(v) = "int" => Body(v) \in Int
        /\ Kind(v) \in {"single", "double"} => Body(v) \in Floats
    BY <1>7, ValShape DEF Floats
  <2> QED
    BY <1>7, <2>1, TextsType, BuildTerms DEF ToTerm
<1>8. CASE Kind(v) \in {"ref", "resource"}
  BY <1>8, TextsType, BuildTerms DEF ToTerm
<1> QED
  BY <1>2, <1>3, <1>4, <1>5, <1>6, <1>7, <1>8, ValShape

\* val_to_term makes a term of every value.
LEMMA ValToTermType == \A v \in Vals : ValToTerm[v] \in Terms
<1> DEFINE id == [k \in Nat |-> k]
           S  == {n \in Nat : n <= MaxDepth => \A v \in ValsUpTo[n] : ValToTerm[v] \in TermsUpTo[n + 1]}
<1>1. MaxDepth \in Nat
  BY TypesType
<1>2. ASSUME NEW n \in Nat, \A e \in Nat : id[e] < id[n] => e \in S, n <= MaxDepth, NEW v \in ValsUpTo[n]
      PROVE  ValToTerm[v] \in TermsUpTo[n + 1]
  <2>1. n # 0
    BY <1>2, ValLevelIs
  <2>2. n - 1 \in Nat /\ n - 1 < n /\ n - 1 <= MaxDepth /\ (n - 1) + 1 = n
    BY <1>1, <1>2, <2>1
  <2>3. v \in Vals
    BY <1>1, <1>2, LevelsContain, ValLevelsGrow DEF Vals
  <2>4. v \in ValsOver(ValsUpTo[n - 1])
    BY <1>2, <2>1, ValLevelIs
  <2>5. \A w \in ValsUpTo[n - 1] : ValToTerm[w] \in TermsUpTo[n]
    BY <1>2, <2>2
  <2>6. TermsUpTo[n] = TermsOver(TermsUpTo[n - 1]) /\ TermsUpTo[n + 1] = TermsOver(TermsUpTo[n])
    <3>1. n + 1 \in Nat /\ n + 1 # 0 /\ (n + 1) - 1 = n
      OBVIOUS
    <3> QED
      BY <2>1, <3>1, TermLevelIs
  <2>7. \A s \in Texts : Atom(s) \in TermsUpTo[n]
    BY <2>6, BuildTerms
  <2>8. ToTerm(ValToTerm, v) \in TermsOver(TermsUpTo[n])
    BY <2>4, <2>5, <2>7, ToTermType
  <2> QED
    BY <2>3, <2>6, <2>8, ValToTermIs
<1>3. \A n \in Nat : (\A e \in Nat : id[e] < id[n] => e \in S) => n \in S
  BY <1>2
<1>4. id \in [Nat -> Nat]
  OBVIOUS
<1> HIDE DEF id, S
<1>5. Nat \subseteq S
  BY <1>3, <1>4, OfTermLevels!RankInduction
<1>6. MaxDepth \in S
  BY <1>1, <1>5
<1> QED
  BY <1>1, <1>6 DEF S, Terms, Vals

\* Collections of values or failures.
LEMMA CollectType ==
  ASSUME NEW S, NEW n \in Nat, NEW vs \in [1..n -> S \cup {Err}], NEW kind
  PROVE  /\ Err \notin Range(vs) => vs \in Seq(S) /\ Collect(kind, vs) = <<kind, vs>>
         /\ Err \in Range(vs) => Collect(kind, vs) = Err
<1>1. Err \notin Range(vs) => vs \in [1..n -> S]
  BY DEF Range
<1> QED
  BY <1>1 DEF Collect

\* A collected list or tuple is a value or a failure.
LEMMA CollectedType ==
  ASSUME NEW S, NEW n \in Nat, NEW vs \in [1..n -> S \cup {Err}], NEW kind \in {"list", "tuple"}
  PROVE  Collect(kind, vs) \in ValsOver(S) \cup {Err}
<1>1. CASE Err \in Range(vs)
  BY <1>1, CollectType
<1>2. CASE Err \notin Range(vs)
  <2>1. vs \in Seq(S) /\ Collect(kind, vs) = <<kind, vs>>
    BY <1>2, CollectType
  <2> QED
    BY <2>1, BuildVals
<1> QED
  BY <1>1, <1>2

\* A field that is found is the value of an entry with its name.
LEMMA FieldIs ==
  ASSUME NEW map, NEW name, Named(map, name) # {}
  PROVE  \E e \in Named(map, name) : Field(map, name) = e[2]
<1> DEFINE met == {e \in Named(map, name) : Kind(e[1]) = Body(map)[1]}
<1>1. \E e \in Named(map, name) : met # {} => e \in met
  BY Zenon
<1>2. Field(map, name) = (CHOOSE e \in Named(map, name) : met # {} => e \in met)[2]
  BY Zenon DEF Field
<1> HIDE DEF met
<1> QED
  BY <1>1, <1>2

\* A field that is found is a term.
LEMMA FieldType ==
  ASSUME NEW t \in Terms, Kind(t) = "map", NEW name, Named(t, name) # {}
  PROVE  Field(t, name) \in Terms
<1>1. Entries(t) \subseteq Terms \X Terms
  BY TermsOfTerms, TermShape
<1> QED
  BY <1>1, FieldIs DEF Named

\* Collected fields are a record or a failure.
LEMMA FieldsType ==
  ASSUME NEW S, NEW names \in SUBSET Texts, NEW vs \in [names -> S \cup {Err}]
  PROVE  CollectFields(vs) \in ValsOver(S) \cup {Err}
<1>1. CASE Err \in Range(vs)
  BY <1>1 DEF CollectFields
<1>2. CASE Err \notin Range(vs)
  <2>1. {<<name, vs[name]>> : name \in names} \subseteq Texts \X S
    BY <1>2 DEF Range
  <2>2. CollectFields(vs) = <<"record", {<<name, vs[name]>> : name \in names}>>
    BY <1>2 DEF CollectFields
  <2> QED
    BY <2>1, <2>2, BuildVals
<1> QED
  BY <1>1, <1>2

\* A payload becomes a value with a tag or a failure.
LEMMA PayloadType ==
  ASSUME NEW S, NEW kind \in {"option", "result", "variant"}, NEW tag \in Texts, NEW v \in S \cup {Err}
  PROVE  Payload(kind, tag, v) \in ValsOver(S) \cup {Err}
<1>1. CASE v = Err
  BY <1>1 DEF Payload
<1>2. CASE v # Err
  <2>1. <<v>> \in Seq(S)
    BY <1>2
  <2>2. Payload(kind, tag, v) = <<kind, <<tag, <<v>>>>>>
    BY <1>2 DEF Payload
  <2> QED
    BY <2>1, <2>2, BuildVals
<1> QED
  BY <1>1, <1>2

\* A primitive type makes a value of any term or fails.
LEMMA PrimType ==
  ASSUME NEW ty \in Types, Kind(ty) \in Prims, NEW t \in Terms, NEW S
  PROVE  PrimToVal(ty, t) \in ValsOver(S) \cup {Err} /\ PrimResult(ty, t) \in ValsOver(S) \cup {Err}
<1>1. /\ Kind(t) = "integer" => Body(t) \in Int
      /\ Kind(t) = "float" => Body(t) \in Floats
      /\ Kind(t) = "atom" => Body(t) \in Texts
      /\ Kind(t) = "list" => Body(t) \in Seq(Terms)
  BY TermsOfTerms, TermShape
<1>2. IsType(ty)
  BY TypesType
<1>3. DecodeString(t) \in ValsOver(S) \cup {Err}
  BY BuildVals DEF DecodeString, IsUtf8
<1>4. CASE Kind(ty) = "bool"
  <2>1. PrimToVal(ty, t) = <<"bool", IsTruthy(t)>> /\ PrimResult(ty, t) = PrimToVal(ty, t)
    BY <1>4 DEF PrimToVal, PrimResult
  <2>2. IsTruthy(t) \in BOOLEAN
    BY DEF IsTruthy
  <2> QED
    BY <2>1, <2>2, BuildVals
<1>5. CASE Kind(ty) = "int"
  <2>1. PrimToVal(ty, t) = DecodeInt(t, Body(ty)[1], Body(ty)[2]) /\ PrimResult(ty, t) = PrimToVal(ty, t)
    BY <1>5 DEF PrimToVal, PrimResult
  <2> QED
    BY <1>1, <2>1, BuildVals DEF DecodeInt
<1>6. CASE Kind(ty) = "float"
  <2>1. PrimToVal(ty, t) = DecodeFloat(t, Body(ty)) /\ PrimResult(ty, t) = PrimToVal(ty, t)
    BY <1>6 DEF PrimToVal, PrimResult
  <2>2. Body(ty) \in {"f32", "f64"}
    BY <1>2, <1>6 DEF IsType
  <2> QED
    <3>1. CASE Kind(t) # "float"
      <4>1. DecodeFloat(t, Body(ty)) = Err
        BY <3>1 DEF DecodeFloat
      <4> QED
        BY <2>1, <4>1
    <3>2. CASE Kind(t) = "float" /\ Body(ty) = "f64"
      <4>1. DecodeFloat(t, Body(ty)) = <<"double", Body(t)>>
        BY <3>2 DEF DecodeFloat
      <4> QED
        BY <1>1, <2>1, <3>2, <4>1, BuildVals
    <3>3. CASE Kind(t) = "float" /\ Body(ty) = "f32"
      <4>1. Body(t) \in {"short", "rounded", "precise", "huge"}
        BY <1>1, <3>3 DEF Floats
      <4>2. DecodeFloat(t, Body(ty)) \in {Err, <<"single", "rounded">>, <<"single", "short">>}
        BY <3>3, <4>1 DEF DecodeFloat
      <4>3. <<"single", "rounded">> \in ValsOver(S) /\ <<"single", "short">> \in ValsOver(S)
        BY BuildVals
      <4> QED
        BY <2>1, <4>2, <4>3
    <3> QED
      BY <2>2, <3>1, <3>2, <3>3
<1>7. CASE Kind(ty) = "string"
  <2>1. /\ PrimToVal(ty, t) = (IF Kind(t) = "atom" THEN <<"string", Body(t)>> ELSE DecodeString(t))
        /\ PrimResult(ty, t) = DecodeString(t)
    BY <1>7 DEF PrimToVal, PrimResult
  <2> QED
    BY <1>1, <1>3, <2>1, BuildVals
<1>8. CASE Kind(ty) = "char"
  <2> DEFINE cs == Chars(t)
  <2>1. PrimToVal(ty, t) = IF Len(cs) = 1 /\ cs[1] \in Scalars THEN <<"char", cs[1]>> ELSE Err
    BY <1>8 DEF PrimToVal
  <2>2. PrimToVal(ty, t) \in ValsOver(S) \cup {Err}
    BY <2>1, BuildVals
  <2>3. CASE IsUtf8(t)
    <3>1. cs = CodePoints[Body(t)] /\ CodePoints[Body(t)] \in Seq(Scalars)
      BY <2>3, TextsType DEF Chars, IsUtf8
    <3>2. PrimResult(ty, t) = IF cs # <<>> THEN <<"char", Head(cs)>> ELSE Err
      BY <1>8, <2>3 DEF PrimResult
    <3> HIDE DEF cs
    <3>3. cs # <<>> => Head(cs) \in Scalars
      BY <3>1
    <3> QED
      BY <2>2, <3>2, <3>3, BuildVals
  <2>4. CASE ~IsUtf8(t)
    <3>1. PrimResult(ty, t) = PrimToVal(ty, t)
      BY <1>8, <2>4 DEF PrimResult
    <3> QED
      BY <2>2, <3>1
  <2> QED
    BY <2>3, <2>4
<1> QED
  BY <1>4, <1>5, <1>6, <1>7, <1>8 DEF Prims

\* A converter that makes values of S, or fails, of what is inside a type.
Into(S, conv, ty) == \A p \in Inside(ty), s \in Terms : conv[p][s] \in S \cup {Err}

\* The two first members of a pair are terms.
LEMMA PairType == ASSUME NEW t \in Terms, IsPair(t) PROVE Body(t)[1] \in Terms /\ Body(t)[2] \in Terms
<1>1. Body(t) \in Seq(Terms) /\ Len(Body(t)) >= 2
  BY TermsOfTerms, TermShape DEF IsPair
<1> QED
  BY <1>1

\* A list makes a list of values or fails.
LEMMA ListType ==
  ASSUME NEW ty \in Types, Kind(ty) = "list", NEW t \in Terms, NEW S, NEW conv, Into(S, conv, ty)
  PROVE  ListToVal(conv, ty, t) \in ValsOver(S) \cup {Err}
<1>1. CASE Kind(t) = "list"
  <2> DEFINE vs == [i \in DOMAIN Body(t) |-> conv[Body(ty)][Body(t)[i]]]
  <2>1. Body(t) \in Seq(Terms) /\ Body(ty) \in Inside(ty)
    BY <1>1, TermsOfTerms, TermShape, TypesInside
  <2>2. Len(Body(t)) \in Nat /\ vs \in [1..Len(Body(t)) -> S \cup {Err}]
    BY <2>1 DEF Into
  <2>3. ListToVal(conv, ty, t) = Collect("list", vs)
    BY <1>1 DEF ListToVal
  <2> HIDE DEF vs
  <2> QED
    BY <2>2, <2>3, CollectedType
<1>2. CASE Kind(t) # "list"
  BY <1>2 DEF ListToVal
<1> QED
  BY <1>1, <1>2

\* A tuple makes a tuple of values or fails, whatever the lengths.
LEMMA TupleType ==
  ASSUME NEW ty \in Types, Kind(ty) = "tuple", NEW t \in Terms, NEW S, NEW conv, Into(S, conv, ty)
  PROVE  TupleToVal(conv, ty, t) \in ValsOver(S) \cup {Err}
<1>1. CASE Kind(t) = "tuple"
  <2> DEFINE n  == IF Len(Body(ty)) < Len(Body(t)) THEN Len(Body(ty)) ELSE Len(Body(t))
             vs == [i \in 1..n |-> conv[Body(ty)[i]][Body(t)[i]]]
  <2>1. /\ Body(t) \in Seq(Terms) /\ Body(ty) \in Seq(Types)
        /\ \A i \in DOMAIN Body(ty) : Body(ty)[i] \in Inside(ty)
    BY <1>1, TermsOfTerms, TermShape, TypesInside
  <2>2. n \in Nat /\ \A i \in 1..n : i \in DOMAIN Body(ty) /\ i \in DOMAIN Body(t)
    BY <2>1
  <2>3. Paired(Body(ty), Body(t)) = 1..n
    BY DEF Paired
  <2> HIDE DEF n
  <2>4. vs \in [1..n -> S \cup {Err}]
    BY <2>1, <2>2 DEF Into
  <2>5. TupleToVal(conv, ty, t) = Collect("tuple", vs)
    BY <1>1, <2>3 DEF TupleToVal
  <2> HIDE DEF vs
  <2> QED
    BY <2>2, <2>4, <2>5, CollectedType
<1>2. CASE Kind(t) # "tuple"
  BY <1>2 DEF TupleToVal
<1> QED
  BY <1>1, <1>2

\* A record, of all fields of its type or of those a map has.
LEMMA RecordType ==
  ASSUME NEW ty \in Types, Kind(ty) = "record", NEW t \in Terms, Kind(t) = "map", NEW S, NEW conv,
         Into(S, conv, ty), NEW names \in SUBSET DOMAIN Body(ty), \A n \in names : Named(t, n) # {}
  PROVE  CollectFields([name \in names |-> conv[Body(ty)[name]][Field(t, name)]]) \in ValsOver(S) \cup {Err}
<1> DEFINE vs == [name \in names |-> conv[Body(ty)[name]][Field(t, name)]]
<1>1. DOMAIN Body(ty) \subseteq Texts /\ \A name \in DOMAIN Body(ty) : Body(ty)[name] \in Inside(ty)
  BY TypesType, TypesInside DEF IsType
<1>2. \A name \in names : Field(t, name) \in Terms
  BY FieldType
<1>3. vs \in [names -> S \cup {Err}] /\ names \in SUBSET Texts
  BY <1>1, <1>2 DEF Into
<1> HIDE DEF vs
<1>4. CollectFields(vs) \in ValsOver(S) \cup {Err}
  BY <1>3, FieldsType
<1> QED
  BY <1>4 DEF vs

\* The three outcomes of an option.
LEMMA OptionIs ==
  ASSUME NEW conv, NEW ty, NEW t
  PROVE  OptionToVal(conv, ty, t) \in {<<"option", <<"none", <<>>>>>>, Err,
                                       Payload("option", "some", conv[Body(ty)][Body(t)[2]])}
BY DEF OptionToVal

\* An option makes an option or fails.
LEMMA OptionType ==
  ASSUME NEW ty \in Types, Kind(ty) = "option", NEW t \in Terms, NEW S, NEW conv, Into(S, conv, ty)
  PROVE  OptionToVal(conv, ty, t) \in ValsOver(S) \cup {Err}
<1>1. "none" \in Texts /\ "some" \in Texts
  BY TextsType
<1>2. <<>> \in Seq(S)
  OBVIOUS
<1>3. CASE ~Tagged(t, "some")
  <2>1. OptionToVal(conv, ty, t) \in {Err, <<"option", <<"none", <<>>>>>>}
    BY <1>3 DEF OptionToVal
  <2> QED
    BY <1>1, <1>2, <2>1, BuildVals
<1>4. CASE Tagged(t, "some")
  <2>1. conv[Body(ty)][Body(t)[2]] \in S \cup {Err}
    BY <1>4, PairType, TypesInside DEF Tagged, Into
  <2>2. Payload("option", "some", conv[Body(ty)][Body(t)[2]]) \in ValsOver(S) \cup {Err}
    BY <1>1, <2>1, PayloadType
  <2> QED
    BY <1>1, <1>2, <2>2, OptionIs, BuildVals
<1> QED
  BY <1>3, <1>4

\* A map makes flags of the type or fails.
LEMMA FlagsType ==
  ASSUME NEW ty \in Types, Kind(ty) = "flags", NEW t \in Terms, NEW S
  PROVE  FlagsToVal(ty, t) \in ValsOver(S) \cup {Err}
<1>1. Body(ty) \subseteq Texts
  BY TypesType DEF IsType
<1> DEFINE names == {TermToFieldName(e[1]) : e \in {f \in Entries(t) : f[2] = Atom("true")}}
<1>2. CASE FlagsToVal(ty, t) # Err
  <2>1. FlagsToVal(ty, t) = <<"flags", names>> /\ names \subseteq Body(ty)
    BY <1>2 DEF FlagsToVal
  <2> HIDE DEF names
  <2> QED
    BY <1>1, <2>1, BuildVals
<1> QED
  BY <1>2

\* The two converters of a component, given that what is inside becomes values of
\* S, make a value over S or fail.
LEMMA ToValType ==
  ASSUME NEW ty \in Types, NEW t \in Terms, NEW S, S \subseteq ValsOver(S), NEW conv, Into(S, conv, ty)
  PROVE  ToVal(conv, ty, t) \in ValsOver(S) \cup {Err}
<1>1. IsType(ty) /\ t \in TermsOver(Terms)
  BY TypesType, TermsOfTerms
<1>2. CASE Kind(ty) \in Prims
  <2>1. ToVal(conv, ty, t) = PrimToVal(ty, t)
    BY <1>2 DEF ToVal, Prims
  <2> QED
    BY <1>2, <2>1, PrimType
<1>3. CASE Kind(ty) \in {"list", "tuple", "option", "flags"}
  <2>1. /\ Kind(ty) = "list" => ToVal(conv, ty, t) = ListToVal(conv, ty, t)
        /\ Kind(ty) = "tuple" => ToVal(conv, ty, t) = TupleToVal(conv, ty, t)
        /\ Kind(ty) = "option" => ToVal(conv, ty, t) = OptionToVal(conv, ty, t)
        /\ Kind(ty) = "flags" => ToVal(conv, ty, t) = FlagsToVal(ty, t)
    BY DEF ToVal, Prims
  <2> QED
    BY <1>3, <2>1, ListType, TupleType, OptionType, FlagsType
<1>4. CASE Kind(ty) = "record"
  <2>1. ToVal(conv, ty, t) = RecordToVal(conv, ty, t)
    BY <1>4 DEF ToVal, Prims
  <2>2. CASE Kind(t) = "map" /\ \A name \in DOMAIN Body(ty) : Named(t, name) # {}
    <3>1. RecordToVal(conv, ty, t) =
            CollectFields([name \in DOMAIN Body(ty) |-> conv[Body(ty)[name]][Field(t, name)]])
      BY <2>2 DEF RecordToVal
    <3> QED
      BY <1>4, <2>1, <2>2, <3>1, RecordType
  <2>3. CASE ~(Kind(t) = "map" /\ \A name \in DOMAIN Body(ty) : Named(t, name) # {})
    BY <2>1, <2>3 DEF RecordToVal
  <2> QED
    BY <2>2, <2>3
<1>5. CASE Kind(ty) = "enum"
  <2>1. ToVal(conv, ty, t) = EnumToVal(ty, t) /\ Body(ty) \subseteq Texts
    BY <1>1, <1>5 DEF ToVal, Prims, IsType
  <2> QED
    BY <2>1, BuildVals DEF EnumToVal
<1>6. CASE Kind(ty) = "result"
  <2>1. ToVal(conv, ty, t) = ResultTypeToVal(conv, ty, t) /\ Cases(ty) = Body(ty) /\ DOMAIN Body(ty) = {"ok", "error"}
    BY <1>1, <1>6 DEF ToVal, Prims, IsType, Cases
  <2>2. "ok" \in Texts /\ "error" \in Texts
    BY TextsType
  <2> <<>> \in Seq(S)
    OBVIOUS
  <2>3. CASE \E s \in {"ok", "error"} : t = Atom(s) /\ Body(ty)[s] = NoType
    <3>1. ~IsPair(t) /\ Body(t) \in {"ok", "error"}
      BY <2>3 DEF Atom, Body, IsPair, Kind
    <3>2. ResultTypeToVal(conv, ty, t) = <<"result", <<Body(t), <<>>>>>>
      BY <2>3, <3>1 DEF ResultTypeToVal, Tagged
    <3>3. Body(t) \in Texts
      BY <2>2, <3>1
    <3>4. <<"result", <<Body(t), <<>>>>>> \in ValsOver(S)
      BY <3>3, BuildVals
    <3> QED
      BY <2>1, <3>2, <3>4
  <2>4. CASE \E s \in {"ok", "error"} : Tagged(t, s) /\ Body(ty)[s] # NoType
    <3> DEFINE s == Body(Body(t)[1])
               v == conv[Body(ty)[s]][Body(t)[2]]
    <3>1. s \in {"ok", "error"} /\ Body(ty)[s] # NoType /\ IsPair(t) /\ t \notin {Atom("ok"), Atom("error")}
      BY <2>4 DEF Tagged, Atom, Body, IsPair, Kind
    <3>2. ResultTypeToVal(conv, ty, t) = Payload("result", s, v)
      BY <2>4, <3>1 DEF ResultTypeToVal
    <3> HIDE DEF s
    <3>3. v \in S \cup {Err}
      BY <1>6, <2>1, <3>1, PairType, TypesInside DEF Into
    <3> HIDE DEF v
    <3> QED
      BY <2>1, <2>2, <3>1, <3>2, <3>3, PayloadType
  <2>5. CASE /\ ~\E s \in {"ok", "error"} : t = Atom(s) /\ Body(ty)[s] = NoType
             /\ ~\E s \in {"ok", "error"} : Tagged(t, s) /\ Body(ty)[s] # NoType
    BY <2>1, <2>5 DEF ResultTypeToVal
  <2> QED
    BY <2>3, <2>4, <2>5
<1>7. CASE Kind(ty) = "variant"
  <2> DEFINE name == IF IsPair(t) THEN Body(Body(t)[1]) ELSE Body(t)
             v    == conv[Body(ty)[name]][Body(t)[2]]
  <2>1. ToVal(conv, ty, t) = VariantToVal(conv, ty, t) /\ Cases(ty) = Body(ty) /\ DOMAIN Body(ty) \subseteq Texts
    BY <1>1, <1>7 DEF ToVal, Prims, IsType, Cases
  <2>2. <<>> \in Seq(S)
    OBVIOUS
  <2>3. \/ VariantToVal(conv, ty, t) = Err
        \/ name \in DOMAIN Body(ty) /\ VariantToVal(conv, ty, t) = <<"variant", <<name, <<>>>>>>
        \/ /\ name \in DOMAIN Body(ty) /\ Body(ty)[name] # NoType /\ IsPair(t)
           /\ VariantToVal(conv, ty, t) = Payload("variant", name, v)
    BY DEF VariantToVal, IsUtf8, IsPair
  <2> HIDE DEF name
  <2>4. CASE name \in DOMAIN Body(ty) /\ Body(ty)[name] # NoType /\ IsPair(t)
    <3>1. v \in S \cup {Err}
      BY <1>7, <2>1, <2>4, PairType, TypesInside DEF Into
    <3> HIDE DEF v
    <3>2. Payload("variant", name, v) \in ValsOver(S) \cup {Err}
      BY <2>1, <2>4, <3>1, PayloadType
    <3> QED
      BY <2>1, <2>2, <2>3, <3>2, BuildVals
  <2> QED
    BY <2>1, <2>2, <2>3, <2>4, BuildVals
<1>8. CASE Kind(ty) = "alias"
  <2>1. ToVal(conv, ty, t) = conv[Body(ty)][t]
    BY <1>8 DEF ToVal, Prims
  <2> QED
    BY <1>8, <2>1, TypesInside DEF Into
<1>9. CASE Kind(ty) \in CoreKinds \cup {"resource"}
  BY <1>9 DEF ToVal, CoreKinds, Prims
<1> QED
  BY <1>1, <1>2, <1>3, <1>4, <1>5, <1>6, <1>7, <1>8, <1>9 DEF IsType

\* The same for the results of callbacks.
LEMMA ConvertResultType ==
  ASSUME NEW ty \in Types, NEW t \in Terms, NEW S, S \subseteq ValsOver(S), NEW conv, Into(S, conv, ty)
  PROVE  ConvertResult(conv, ty, t) \in ValsOver(S) \cup {Err}
<1>1. IsType(ty) /\ t \in TermsOver(Terms)
  BY TypesType, TermsOfTerms
<1>2. CASE Kind(ty) \in Prims
  <2>1. ConvertResult(conv, ty, t) = PrimResult(ty, t)
    BY <1>2 DEF ConvertResult
  <2> QED
    BY <1>2, <2>1, PrimType
<1>3. CASE Kind(ty) \in {"list", "tuple", "option", "flags"}
  <2>1. /\ Kind(ty) = "list" => ConvertResult(conv, ty, t) = ListToVal(conv, ty, t)
        /\ Kind(ty) = "tuple" => ConvertResult(conv, ty, t) = TupleToVal(conv, ty, t)
        /\ Kind(ty) = "option" => ConvertResult(conv, ty, t) = OptionToVal(conv, ty, t)
        /\ Kind(ty) = "flags" => ConvertResult(conv, ty, t) = FlagsToVal(ty, t)
    BY DEF ConvertResult, ConvertComplexResult, Prims, ResultToList, ResultToTuple, ResultToOption,
           ResultToFlags
  <2> QED
    BY <1>3, <2>1, ListType, TupleType, OptionType, FlagsType
<1>4. CASE Kind(ty) = "record"
  <2>1. ConvertResult(conv, ty, t) = ResultToRecord(conv, ty, t)
    BY <1>4 DEF ConvertResult, ConvertComplexResult, Prims
  <2>2. CASE Kind(t) = "map"
    <3> DEFINE names == {n \in DOMAIN Body(ty) : Named(t, n) # {}}
    <3>1. ResultToRecord(conv, ty, t) =
            CollectFields([name \in names |-> conv[Body(ty)[name]][Field(t, name)]])
      BY <2>2 DEF ResultToRecord
    <3>2. names \in SUBSET DOMAIN Body(ty) /\ \A n \in names : Named(t, n) # {}
      OBVIOUS
    <3> HIDE DEF names
    <3> QED
      BY <1>4, <2>1, <2>2, <3>1, <3>2, RecordType
  <2>3. CASE Kind(t) # "map"
    BY <2>1, <2>3 DEF ResultToRecord
  <2> QED
    BY <2>2, <2>3
<1>5. CASE Kind(ty) = "enum"
  <2>1. ConvertResult(conv, ty, t) = ResultToEnum(ty, t) /\ Body(ty) \subseteq Texts
    BY <1>1, <1>5 DEF ConvertResult, ConvertComplexResult, Prims, IsType
  <2> QED
    BY <2>1, BuildVals DEF ResultToEnum
<1>6. CASE Kind(ty) = "result"
  <2>1. /\ ConvertResult(conv, ty, t) = ResultToResult(conv, ty, t)
        /\ Cases(ty) = Body(ty) /\ DOMAIN Body(ty) = {"ok", "error"}
    BY <1>1, <1>6 DEF ConvertResult, ConvertComplexResult, Prims, IsType, Cases
  <2>2. "ok" \in Texts /\ "error" \in Texts
    BY TextsType
  <2> <<>> \in Seq(S)
    OBVIOUS
  <2>3. \A s \in {"ok", "error"} : <<"result", <<s, <<>>>>>> \in ValsOver(S)
    BY <2>2, BuildVals
  <2>4. CASE IsPair(t)
    <3> DEFINE s == IF Body(Body(t)[1]) = "ok" THEN "ok" ELSE "error"
               v == conv[Body(ty)[s]][Body(t)[2]]
    <3>1. s \in {"ok", "error"} /\ t \notin {Atom("ok"), Atom("error")}
      BY <2>4 DEF Atom, Body, IsPair, Kind
    <3>2. \/ ResultToResult(conv, ty, t) \in {Err, <<"result", <<s, <<>>>>>>}
          \/ Body(ty)[s] # NoType /\ ResultToResult(conv, ty, t) = Payload("result", s, v)
      BY <3>1 DEF ResultToResult
    <3> HIDE DEF s
    <3>3. CASE Body(ty)[s] # NoType
      <4>1. v \in S \cup {Err}
        BY <1>6, <2>1, <2>4, <3>1, <3>3, PairType, TypesInside DEF Into
      <4> HIDE DEF v
      <4>2. Payload("result", s, v) \in ValsOver(S) \cup {Err}
        BY <2>2, <3>1, <4>1, PayloadType
      <4> QED
        BY <2>1, <2>3, <3>1, <3>2, <4>2
    <3> QED
      BY <2>1, <2>3, <3>1, <3>2, <3>3
  <2>5. CASE ~IsPair(t)
    <3>1. ResultToResult(conv, ty, t) \in {Err} \cup {<<"result", <<s, <<>>>>>> : s \in {"ok", "error"}}
      BY <2>5 DEF ResultToResult, Atom
    <3> QED
      BY <2>1, <2>3, <3>1
  <2> QED
    BY <2>4, <2>5
<1>7. CASE Kind(ty) = "variant"
  <2> DEFINE isTuple == Kind(t) = "tuple" /\ Body(t) # <<>> /\ Kind(Body(t)[1]) = "atom"
             name    == IF isTuple THEN Body(Body(t)[1]) ELSE Body(t)
             v       == conv[Body(ty)[name]][Body(t)[2]]
  <2>1. /\ ConvertResult(conv, ty, t) = ResultToVariant(conv, ty, t)
        /\ Cases(ty) = Body(ty) /\ DOMAIN Body(ty) \subseteq Texts
    BY <1>1, <1>7 DEF ConvertResult, ConvertComplexResult, Prims, IsType, Cases
  <2>2. <<>> \in Seq(S)
    OBVIOUS
  <2>3. \/ ResultToVariant(conv, ty, t) = Err
        \/ name \in DOMAIN Body(ty) /\ ResultToVariant(conv, ty, t) = <<"variant", <<name, <<>>>>>>
        \/ /\ name \in DOMAIN Body(ty) /\ Body(ty)[name] # NoType /\ IsPair(t)
           /\ ResultToVariant(conv, ty, t) = Payload("variant", name, v)
    BY DEF ResultToVariant
  <2> HIDE DEF name
  <2>4. CASE name \in DOMAIN Body(ty) /\ Body(ty)[name] # NoType /\ IsPair(t)
    <3>1. v \in S \cup {Err}
      BY <1>7, <2>1, <2>4, PairType, TypesInside DEF Into
    <3> HIDE DEF v
    <3>2. Payload("variant", name, v) \in ValsOver(S) \cup {Err}
      BY <2>1, <2>4, <3>1, PayloadType
    <3> QED
      BY <2>1, <2>2, <2>3, <3>2, BuildVals
  <2> QED
    BY <2>1, <2>2, <2>3, <2>4, BuildVals
<1>8. CASE Kind(ty) = "alias"
  <2>1. ConvertResult(conv, ty, t) = conv[Body(ty)][t]
    BY <1>8 DEF ConvertResult, ConvertComplexResult, Prims
  <2> QED
    BY <1>8, <2>1, TypesInside DEF Into
<1>9. CASE Kind(ty) \in CoreKinds \cup {"resource"}
  BY <1>9 DEF ConvertResult, ConvertComplexResult, CoreKinds, Prims
<1> QED
  BY <1>1, <1>2, <1>3, <1>4, <1>5, <1>6, <1>7, <1>8, <1>9 DEF IsType

\* What a term becomes is a value, nested no deeper than its type.
LEMMA ConvertedType ==
  \A ty \in Types, t \in Terms : TermToVal[ty][t] \in Vals \cup {Err} /\ ResultToVal[ty][t] \in Vals \cup {Err}
<1> DEFINE Made(ty, S) == \A t \in Terms : TermToVal[ty][t] \in S \cup {Err} /\ ResultToVal[ty][t] \in S \cup {Err}
           D == {ty \in Types : Made(ty, ValsUpTo[Depth[ty]])}
<1>1. ASSUME NEW ty \in Types, \A p \in Types : Depth[p] < Depth[ty] => p \in D
      PROVE  ty \in D
  <2> DEFINE n == Depth[ty] - 1
             S == ValsUpTo[n]
  <2>1. n \in Nat /\ n + 1 = Depth[ty] /\ Depth[ty] # 0
    BY TypesType
  <2>2. S \subseteq ValsUpTo[n + 1] /\ ValsUpTo[Depth[ty]] = ValsOver(S)
    BY <2>1, ValLevelIs, ValLevelsGrow DEF Grows
  <2>3. ASSUME NEW p \in Inside(ty) PROVE Made(p, S)
    <3>1. p \in Types /\ Depth[p] \in Nat /\ Depth[p] <= n
      BY <2>1, TypesInside, DepthIsRank
    <3>2. Depth[p] < Depth[ty]
      BY <2>1, <3>1
    <3>3. Made(p, ValsUpTo[Depth[p]])
      BY <1>1, <3>1, <3>2
    <3>4. ValsUpTo[Depth[p]] \subseteq S
      BY <2>1, <3>1, LevelsContain, ValLevelsGrow
    <3> QED
      BY <3>3, <3>4
  <2>4. Into(S, TermToVal, ty) /\ Into(S, ResultToVal, ty)
    BY <2>3 DEF Into
  <2> HIDE DEF S
  <2>5. \A t \in Terms : /\ ToVal(TermToVal, ty, t) \in ValsOver(S) \cup {Err}
                         /\ ConvertResult(ResultToVal, ty, t) \in ValsOver(S) \cup {Err}
    BY <2>1, <2>2, <2>4, ToValType, ConvertResultType
  <2> QED
    BY <2>2, <2>5, TermToValIs, ResultToValIs
<1> HIDE DEF D
<1>2. Types \subseteq D
  BY <1>1, DepthIsRank, OfTermToVal!RankInduction
<1>3. \A ty \in Types : ValsUpTo[Depth[ty]] \subseteq Vals
  <2> SUFFICES ASSUME NEW ty \in Types PROVE ValsUpTo[Depth[ty]] \subseteq ValsUpTo[MaxDepth]
    BY DEF Vals
  <2>1. Depth[ty] \in Nat /\ MaxDepth \in Nat /\ Depth[ty] <= MaxDepth
    BY TypesType
  <2> QED
    BY <2>1, LevelsContain, ValLevelsGrow
<1> QED
  BY <1>2, <1>3 DEF D

-----------------------------------------------------------------------------
(* Where both converters accept a term they make the same value of it.      *)

\* Two converters fail, at least one of them, or make the same value.
Same(v, w) == v = Err \/ w = Err \/ v = w

\* Collections agree if their members do.
LEMMA CollectSame ==
  ASSUME NEW I, NEW vs, NEW ws, vs = [i \in I |-> vs[i]], ws = [i \in I |-> ws[i]],
         \A i \in I : Same(vs[i], ws[i])
  PROVE  /\ \A kind : Same(Collect(kind, vs), Collect(kind, ws))
         /\ Same(CollectFields(vs), CollectFields(ws))
<1>1. CASE Err \in Range(vs) \/ Err \in Range(ws)
  BY <1>1 DEF Collect, CollectFields, Same
<1>2. CASE Err \notin Range(vs) /\ Err \notin Range(ws)
  <2>1. vs = ws
    BY <1>2 DEF Same, Range
  <2> QED
    BY <2>1 DEF Same
<1> QED
  BY <1>1, <1>2

\* Payloads agree if what they hold does.
LEMMA SamePayload ==
  ASSUME NEW v, NEW w, Same(v, w), NEW kind, NEW tag
  PROVE  Same(Payload(kind, tag, v), Payload(kind, tag, w))
BY DEF Same, Payload

\* The converters differ in strings and chars, but never make two values of a term.
LEMMA SamePrim ==
  ASSUME NEW ty \in Types, Kind(ty) \in Prims, NEW t
  PROVE  Same(PrimToVal(ty, t), PrimResult(ty, t))
<1>1. CASE Kind(ty) = "string"
  <2>1. CASE Kind(t) = "atom"
    BY <1>1, <2>1 DEF PrimResult, DecodeString, IsUtf8, Same
  <2>2. CASE Kind(t) # "atom"
    BY <1>1, <2>2 DEF PrimToVal, PrimResult, Same
  <2> QED
    BY <2>1, <2>2
<1>2. CASE Kind(ty) = "char" /\ IsUtf8(t)
  <2>1. PrimResult(ty, t) = IF Chars(t) # <<>> THEN <<"char", Head(Chars(t))>> ELSE Err
    BY <1>2 DEF PrimResult
  <2>2. PrimToVal(ty, t) = IF Len(Chars(t)) = 1 /\ Chars(t)[1] \in Scalars THEN <<"char", Chars(t)[1]>> ELSE Err
    BY <1>2 DEF PrimToVal
  <2>3. Chars(t) \in Seq(Scalars)
    BY <1>2, TextsType DEF Chars, IsUtf8
  <2>4. Head(Chars(t)) = Chars(t)[1]
    BY <2>3
  <2> QED
    BY <2>1, <2>2, <2>4 DEF Same
<1>3. CASE Kind(ty) # "string" /\ ~(Kind(ty) = "char" /\ IsUtf8(t))
  BY <1>3 DEF PrimResult, Same
<1> QED
  BY <1>1, <1>2, <1>3

\* If they agree on what is inside, the two converters agree on a term.
LEMMA SameValue ==
  ASSUME NEW ty \in Types, NEW t \in Terms, NEW f, NEW g,
         \A p \in Inside(ty), s \in Terms : Same(f[p][s], g[p][s])
  PROVE  Same(ToVal(f, ty, t), ConvertResult(g, ty, t))
<1>1. IsType(ty) /\ t \in TermsOver(Terms)
  BY TypesType, TermsOfTerms
<1>2. CASE Kind(ty) \in Prims
  <2>1. ToVal(f, ty, t) = PrimToVal(ty, t) /\ ConvertResult(g, ty, t) = PrimResult(ty, t)
    BY <1>2 DEF ToVal, ConvertResult, Prims
  <2> QED
    BY <1>2, <2>1, SamePrim
<1>3. CASE Kind(ty) = "list"
  <2>1. ToVal(f, ty, t) = ListToVal(f, ty, t) /\ ConvertResult(g, ty, t) = ListToVal(g, ty, t)
    BY <1>3 DEF ToVal, ConvertResult, ConvertComplexResult, Prims, ResultToList
  <2>2. CASE Kind(t) = "list"
    <3> DEFINE I  == DOMAIN Body(t)
               vs == [i \in I |-> f[Body(ty)][Body(t)[i]]]
               ws == [i \in I |-> g[Body(ty)][Body(t)[i]]]
    <3>1. Body(t) \in Seq(Terms) /\ Body(ty) \in Inside(ty)
      BY <1>1, <1>3, <2>2, TermShape, TypesInside
    <3>2. \A i \in I : Same(vs[i], ws[i])
      BY <3>1
    <3>3. ListToVal(f, ty, t) = Collect("list", vs) /\ ListToVal(g, ty, t) = Collect("list", ws)
      BY <2>2 DEF ListToVal
    <3> HIDE DEF I
    <3>4. vs = [i \in I |-> vs[i]] /\ ws = [i \in I |-> ws[i]]
      OBVIOUS
    <3> HIDE DEF vs, ws
    <3> QED
      BY <2>1, <3>2, <3>3, <3>4, CollectSame
  <2>3. CASE Kind(t) # "list"
    BY <2>1, <2>3 DEF ListToVal, Same
  <2> QED
    BY <2>2, <2>3
<1>4. CASE Kind(ty) = "tuple"
  <2>1. ToVal(f, ty, t) = TupleToVal(f, ty, t) /\ ConvertResult(g, ty, t) = TupleToVal(g, ty, t)
    BY <1>4 DEF ToVal, ConvertResult, ConvertComplexResult, Prims, ResultToTuple
  <2>2. CASE Kind(t) = "tuple"
    <3> DEFINE I  == Paired(Body(ty), Body(t))
               vs == [i \in I |-> f[Body(ty)[i]][Body(t)[i]]]
               ws == [i \in I |-> g[Body(ty)[i]][Body(t)[i]]]
    <3>1. /\ Body(t) \in Seq(Terms) /\ Body(ty) \in Seq(Types)
          /\ \A i \in DOMAIN Body(ty) : Body(ty)[i] \in Inside(ty)
      BY <1>1, <1>4, <2>2, TermShape, TypesInside
    <3>2. \A i \in I : Body(ty)[i] \in Inside(ty) /\ Body(t)[i] \in Terms
      BY <3>1 DEF Paired
    <3>3. TupleToVal(f, ty, t) = Collect("tuple", vs) /\ TupleToVal(g, ty, t) = Collect("tuple", ws)
      BY <2>2 DEF TupleToVal
    <3> HIDE DEF I
    <3>4. vs = [i \in I |-> vs[i]] /\ ws = [i \in I |-> ws[i]]
      OBVIOUS
    <3>5. \A i \in I : Same(vs[i], ws[i])
      BY <3>2
    <3> HIDE DEF vs, ws
    <3> QED
      BY <2>1, <3>3, <3>4, <3>5, CollectSame
  <2>3. CASE Kind(t) # "tuple"
    BY <2>1, <2>3 DEF TupleToVal, Same
  <2> QED
    BY <2>2, <2>3
<1>5. CASE Kind(ty) = "record"
  <2>1. ToVal(f, ty, t) = RecordToVal(f, ty, t) /\ ConvertResult(g, ty, t) = ResultToRecord(g, ty, t)
    BY <1>5 DEF ToVal, ConvertResult, ConvertComplexResult, Prims
  <2>2. CASE Kind(t) = "map" /\ \A name \in DOMAIN Body(ty) : Named(t, name) # {}
    <3> DEFINE I  == DOMAIN Body(ty)
               vs == [name \in I |-> f[Body(ty)[name]][Field(t, name)]]
               ws == [name \in I |-> g[Body(ty)[name]][Field(t, name)]]
    <3>1. \A name \in I : Body(ty)[name] \in Inside(ty) /\ Field(t, name) \in Terms
      BY <1>5, <2>2, TypesInside, FieldType
    <3>2. RecordToVal(f, ty, t) = CollectFields(vs)
      BY <2>2 DEF RecordToVal
    <3>3. ResultToRecord(g, ty, t) = CollectFields(ws)
      <4>1. {n \in DOMAIN Body(ty) : Named(t, n) # {}} = I
        BY <2>2
      <4> QED
        BY <2>2, <4>1 DEF ResultToRecord
    <3> HIDE DEF I
    <3>4. vs = [i \in I |-> vs[i]] /\ ws = [i \in I |-> ws[i]]
      OBVIOUS
    <3>5. \A i \in I : Same(vs[i], ws[i])
      BY <3>1
    <3> HIDE DEF vs, ws
    <3> QED
      BY <2>1, <3>2, <3>3, <3>4, <3>5, CollectSame
  <2>3. CASE ~(Kind(t) = "map" /\ \A name \in DOMAIN Body(ty) : Named(t, name) # {})
    BY <2>1, <2>3 DEF RecordToVal, Same
  <2> QED
    BY <2>2, <2>3
<1>6. CASE Kind(ty) = "option"
  <2>1. ToVal(f, ty, t) = OptionToVal(f, ty, t) /\ ConvertResult(g, ty, t) = OptionToVal(g, ty, t)
    BY <1>6 DEF ToVal, ConvertResult, ConvertComplexResult, Prims, ResultToOption
  <2>2. CASE Tagged(t, "some")
    <3> DEFINE v == f[Body(ty)][Body(t)[2]]
               w == g[Body(ty)][Body(t)[2]]
    <3>1. t # Atom("none")
      BY <2>2 DEF Tagged, IsPair, Atom, Kind
    <3>2. /\ OptionToVal(f, ty, t) = Payload("option", "some", v)
          /\ OptionToVal(g, ty, t) = Payload("option", "some", w)
      BY <2>2, <3>1 DEF OptionToVal
    <3>3. Same(v, w)
      BY <1>6, <2>2, PairType, TypesInside DEF Tagged
    <3> HIDE DEF v, w
    <3> QED
      BY <2>1, <3>2, <3>3, SamePayload
  <2>3. CASE ~Tagged(t, "some")
    <3>1. OptionToVal(f, ty, t) = OptionToVal(g, ty, t)
      BY <2>3 DEF OptionToVal
    <3> QED
      BY <2>1, <3>1 DEF Same
  <2> QED
    BY <2>2, <2>3
<1>7. CASE Kind(ty) = "enum"
  <2>1. ToVal(f, ty, t) = EnumToVal(ty, t) /\ ConvertResult(g, ty, t) = ResultToEnum(ty, t)
    BY <1>7 DEF ToVal, ConvertResult, ConvertComplexResult, Prims
  <2> QED
    BY <2>1 DEF EnumToVal, ResultToEnum, Same
<1>8. CASE Kind(ty) = "result"
  <2>1. /\ ToVal(f, ty, t) = ResultTypeToVal(f, ty, t) /\ ConvertResult(g, ty, t) = ResultToResult(g, ty, t)
        /\ Cases(ty) = Body(ty) /\ DOMAIN Body(ty) = {"ok", "error"}
    BY <1>1, <1>8 DEF ToVal, ConvertResult, ConvertComplexResult, Prims, IsType, Cases
  <2>2. CASE \E s \in {"ok", "error"} : t = Atom(s) /\ Body(ty)[s] = NoType
    <3>1. PICK s \in {"ok", "error"} : t = Atom(s) /\ Body(ty)[s] = NoType
      BY <2>2
    <3>2. ~IsPair(t) /\ Body(t) = s /\ \A r \in {"ok", "error"} : t = Atom(r) => r = s
      BY <3>1 DEF Atom, Body, IsPair, Kind
    <3>3. ResultTypeToVal(f, ty, t) = <<"result", <<s, <<>>>>>>
      BY <2>2, <3>2 DEF ResultTypeToVal, Tagged
    <3>4. ResultToResult(g, ty, t) = <<"result", <<s, <<>>>>>>
      BY <3>1, <3>2 DEF ResultToResult
    <3> QED
      BY <2>1, <3>3, <3>4 DEF Same
  <2>3. CASE \E s \in {"ok", "error"} : Tagged(t, s) /\ Body(ty)[s] # NoType
    <3>1. PICK s \in {"ok", "error"} : Tagged(t, s) /\ Body(ty)[s] # NoType
      BY <2>3
    <3> DEFINE v == f[Body(ty)[s]][Body(t)[2]]
               w == g[Body(ty)[s]][Body(t)[2]]
    <3>2. /\ IsPair(t) /\ t \notin {Atom("ok"), Atom("error")}
          /\ Kind(Body(t)[1]) = "atom" /\ Body(Body(t)[1]) = s
      BY <3>1 DEF Tagged, Atom, Body, IsPair, Kind
    <3>3. ResultTypeToVal(f, ty, t) = Payload("result", s, v)
      BY <2>3, <3>2 DEF ResultTypeToVal
    <3>4. ResultToResult(g, ty, t) = Payload("result", s, w)
      BY <3>1, <3>2 DEF ResultToResult
    <3>5. Same(v, w)
      BY <1>8, <2>1, <3>1, <3>2, PairType, TypesInside
    <3> HIDE DEF v, w
    <3> QED
      BY <2>1, <3>3, <3>4, <3>5, SamePayload
  <2>4. CASE /\ ~\E s \in {"ok", "error"} : t = Atom(s) /\ Body(ty)[s] = NoType
             /\ ~\E s \in {"ok", "error"} : Tagged(t, s) /\ Body(ty)[s] # NoType
    BY <2>1, <2>4 DEF ResultTypeToVal, Same
  <2> QED
    BY <2>2, <2>3, <2>4
<1>9. CASE Kind(ty) = "variant"
  <2>1. /\ ToVal(f, ty, t) = VariantToVal(f, ty, t) /\ ConvertResult(g, ty, t) = ResultToVariant(g, ty, t)
        /\ Cases(ty) = Body(ty)
    BY <1>9 DEF ToVal, ConvertResult, ConvertComplexResult, Prims, Cases
  <2>2. CASE IsPair(t) /\ Kind(Body(t)[1]) = "atom"
    <3> DEFINE name == Body(Body(t)[1])
               v    == f[Body(ty)[name]][Body(t)[2]]
               w    == g[Body(ty)[name]][Body(t)[2]]
    <3>1. Kind(t) = "tuple" /\ Body(t) # <<>>
      <4>1. Len(Body(t)) >= 2
        BY <2>2 DEF IsPair
      <4>2. Len(<<>>) = 0
        OBVIOUS
      <4> QED
        BY <2>2, <4>1, <4>2 DEF IsPair
    <3>2. VariantToVal(f, ty, t) = IF name \notin DOMAIN Body(ty) THEN Err
                                   ELSE IF Body(ty)[name] = NoType THEN <<"variant", <<name, <<>>>>>>
                                   ELSE Payload("variant", name, v)
      BY <2>2, <3>1 DEF VariantToVal
    <3>3. ResultToVariant(g, ty, t) = IF name \notin DOMAIN Body(ty) THEN Err
                                      ELSE IF Body(ty)[name] = NoType THEN <<"variant", <<name, <<>>>>>>
                                      ELSE Payload("variant", name, w)
      BY <2>2, <3>1 DEF ResultToVariant
    <3> HIDE DEF name
    <3>4. name \in DOMAIN Body(ty) /\ Body(ty)[name] # NoType => Same(v, w)
      BY <1>9, <2>1, <2>2, PairType, TypesInside
    <3> HIDE DEF v, w
    <3> QED
      BY <2>1, <3>2, <3>3, <3>4, SamePayload DEF Same
  <2>3. CASE Kind(t) = "atom"
    <3>1. ~IsPair(t)
      BY <2>3 DEF IsPair
    <3> DEFINE name == Body(t)
    <3>2. VariantToVal(f, ty, t) = IF name \notin DOMAIN Body(ty) THEN Err ELSE <<"variant", <<name, <<>>>>>>
      BY <2>3, <3>1 DEF VariantToVal
    <3>3. ResultToVariant(g, ty, t) = IF name \in DOMAIN Body(ty) /\ Body(ty)[name] = NoType
                                        THEN <<"variant", <<name, <<>>>>>> ELSE Err
      BY <2>3, <3>1 DEF ResultToVariant
    <3> QED
      BY <2>1, <3>2, <3>3 DEF Same
  <2>4. CASE Kind(t) = "binary"
    BY <2>1, <2>4 DEF ResultToVariant, Same
  <2>5. CASE Kind(t) \notin {"atom", "binary"} /\ ~(IsPair(t) /\ Kind(Body(t)[1]) = "atom")
    BY <2>1, <2>5 DEF VariantToVal, IsUtf8, Same
  <2> QED
    BY <2>2, <2>3, <2>4, <2>5
<1>10. CASE Kind(ty) = "flags"
  <2>1. ToVal(f, ty, t) = FlagsToVal(ty, t) /\ ConvertResult(g, ty, t) = FlagsToVal(ty, t)
    BY <1>10 DEF ToVal, ConvertResult, ConvertComplexResult, Prims, ResultToFlags
  <2> QED
    BY <2>1 DEF Same
<1>11. CASE Kind(ty) = "alias"
  <2>1. ToVal(f, ty, t) = f[Body(ty)][t] /\ ConvertResult(g, ty, t) = g[Body(ty)][t]
    BY <1>11 DEF ToVal, ConvertResult, ConvertComplexResult, Prims
  <2> QED
    BY <1>11, <2>1, TypesInside
<1>12. CASE Kind(ty) \in CoreKinds \cup {"resource"}
  BY <1>12 DEF ToVal, Prims, CoreKinds, Same
<1> QED
  BY <1>1, <1>2, <1>3, <1>4, <1>5, <1>6, <1>7, <1>8, <1>9, <1>10, <1>11, <1>12 DEF IsType

\* By induction over the depth of types, they agree on every type and term.
LEMMA ConvertersMakeTheSame == \A ty \in Types, t \in Terms : Same(TermToVal[ty][t], ResultToVal[ty][t])
<1> DEFINE D == {ty \in Types : \A t \in Terms : Same(TermToVal[ty][t], ResultToVal[ty][t])}
<1>1. ASSUME NEW ty \in Types, \A p \in Types : Depth[p] < Depth[ty] => p \in D
      PROVE  ty \in D
  <2>1. \A p \in Inside(ty), s \in Terms : Same(TermToVal[p][s], ResultToVal[p][s])
    BY <1>1, TypesInside
  <2>2. \A t \in Terms : Same(ToVal(TermToVal, ty, t), ConvertResult(ResultToVal, ty, t))
    BY <2>1, SameValue
  <2> QED
    BY <2>2, TermToValIs, ResultToValIs
<1> HIDE DEF D
<1>2. Types \subseteq D
  BY <1>1, DepthIsRank, OfTermToVal!RankInduction
<1> QED
  BY <1>2 DEF D

-----------------------------------------------------------------------------
(* The values the converters make have the type, but for its shape.         *)

\* The mark of a case without a payload is not a type.
LEMMA NoTypeIsNone == NoType \notin Types
<1> SUFFICES ASSUME NoType \in Types PROVE FALSE
  OBVIOUS
<1>1. IsType(NoType)
  BY TypesType
<1> QED
  BY <1>1 DEF IsType, NoType, Kind, CoreKinds, Prims

\* A payload of its type makes a value of the type,
LEMMA PayloadFits ==
  ASSUME NEW has, NEW ty, Kind(ty) \in {"option", "result", "variant"}, NEW tag \in DOMAIN Cases(ty),
         Cases(ty)[tag] # NoType, NEW v, v # Err, has[Cases(ty)[tag]][v]
  PROVE  Fits(has, ty, Payload(Kind(ty), tag, v))
<1> DEFINE w == <<Kind(ty), <<tag, <<v>>>>>>
<1>1. Payload(Kind(ty), tag, v) = w
  BY DEF Payload
<1>2. Kind(w) = Kind(ty) /\ Body(w)[1] = tag /\ Body(w)[2] = <<v>> /\ Len(<<v>>) = 1 /\ <<v>>[1] = v
  BY DEF Kind, Body
<1> HIDE DEF w
<1>3. Fits(has, ty, w)
  BY <1>2, CoreRangeType DEF Fits
<1> QED
  BY <1>1, <1>3

\* and so does a case without one.
LEMMA BareFits ==
  ASSUME NEW has, NEW ty, Kind(ty) \in {"option", "result", "variant"}, NEW tag \in DOMAIN Cases(ty),
         Cases(ty)[tag] = NoType
  PROVE  Fits(has, ty, <<Kind(ty), <<tag, <<>>>>>>)
<1> DEFINE w == <<Kind(ty), <<tag, <<>>>>>>
<1>1. Kind(w) = Kind(ty) /\ Body(w)[1] = tag /\ Body(w)[2] = <<>>
  BY DEF Kind, Body
<1> HIDE DEF w
<1>2. Fits(has, ty, w)
  BY <1>1, CoreRangeType DEF Fits
<1> QED
  BY <1>2 DEF w

\* What is converted is of its type.
Right(conv, has, ty) == \A p \in Inside(ty), s \in Terms : conv[p][s] # Err => has[p][conv[p][s]]

\* What a primitive type lets through is of the type.
LEMMA PrimFits ==
  ASSUME NEW ty \in Types, Kind(ty) \in Prims, NEW t \in Terms, NEW has
  PROVE  /\ PrimToVal(ty, t) # Err => Fits(has, ty, PrimToVal(ty, t))
         /\ PrimResult(ty, t) # Err => Fits(has, ty, PrimResult(ty, t))
<1>1. CASE Kind(ty) = "int"
  <2> DEFINE v == PrimToVal(ty, t)
  <2>1. v = DecodeInt(t, Body(ty)[1], Body(ty)[2]) /\ PrimResult(ty, t) = v
    BY <1>1 DEF PrimToVal, PrimResult
  <2>2. v # Err => Kind(v) = "int" /\ Body(v) \in Body(ty)[1]..Body(ty)[2]
    BY <2>1 DEF DecodeInt, Kind, Body
  <2> HIDE DEF v
  <2>3. v # Err => Fits(has, ty, v)
    BY <1>1, <2>2, CoreRangeType DEF Fits
  <2> QED
    BY <2>1, <2>3 DEF v
<1>2. CASE Kind(ty) = "float"
  <2> DEFINE v == PrimToVal(ty, t)
  <2>1. v = DecodeFloat(t, Body(ty)) /\ PrimResult(ty, t) = v
    BY <1>2 DEF PrimToVal, PrimResult
  <2>2. Body(ty) \in {"f32", "f64"}
    BY <1>2, TypesType DEF IsType
  <2>3. v # Err => Kind(v) = IF Body(ty) = "f32" THEN "single" ELSE "double"
    BY <2>1, <2>2 DEF DecodeFloat, Kind
  <2> HIDE DEF v
  <2>4. v # Err => Fits(has, ty, v)
    BY <1>2, <2>3, CoreRangeType DEF Fits
  <2> QED
    BY <2>1, <2>4 DEF v
<1>3. CASE Kind(ty) \in {"bool", "string", "char"}
  <2>1. \A v : Kind(v) = Kind(ty) => Fits(has, ty, v)
    BY <1>3, CoreRangeType DEF Fits
  <2>2. PrimToVal(ty, t) # Err => Kind(PrimToVal(ty, t)) = Kind(ty)
    BY <1>3 DEF PrimToVal, DecodeString, Kind
  <2>3. PrimResult(ty, t) # Err => Kind(PrimResult(ty, t)) = Kind(ty)
    <3>1. CASE Kind(ty) = "char" /\ IsUtf8(t)
      BY <3>1 DEF PrimResult, Kind
    <3>2. CASE Kind(ty) = "string"
      BY <3>2 DEF PrimResult, DecodeString, Kind
    <3>3. CASE Kind(ty) # "string" /\ ~(Kind(ty) = "char" /\ IsUtf8(t))
      BY <2>2, <3>3 DEF PrimResult
    <3> QED
      BY <3>1, <3>2, <3>3
  <2> QED
    BY <2>1, <2>2, <2>3
<1> QED
  BY <1>1, <1>2, <1>3 DEF Prims

\* A list whose members are of their type is of its type.
LEMMA ListFits ==
  ASSUME NEW ty \in Types, Kind(ty) = "list", NEW t \in Terms, NEW conv, NEW has, Right(conv, has, ty),
         ListToVal(conv, ty, t) # Err
  PROVE  Fits(has, ty, ListToVal(conv, ty, t))
<1> DEFINE vs == [i \in DOMAIN Body(t) |-> conv[Body(ty)][Body(t)[i]]]
           v  == <<"list", vs>>
<1>1. Kind(t) = "list" /\ ListToVal(conv, ty, t) = Collect("list", vs)
  BY DEF ListToVal
<1>2. Body(t) \in Seq(Terms) /\ Body(ty) \in Inside(ty)
  BY <1>1, TermsOfTerms, TermShape, TypesInside
<1>3. Err \notin Range(vs) /\ ListToVal(conv, ty, t) = v
  BY <1>1 DEF Collect
<1>4. \A i \in DOMAIN vs : has[Body(ty)][vs[i]]
  BY <1>2, <1>3 DEF Range, Right
<1> HIDE DEF vs
<1>5. Kind(v) = "list" /\ Body(v) = vs
  BY DEF Kind, Body
<1> HIDE DEF v
<1>6. Fits(has, ty, v)
  BY <1>4, <1>5, CoreRangeType DEF Fits
<1> QED
  BY <1>3, <1>6

\* So is a record of term_to_val, which finds all fields,
LEMMA RecordFits ==
  ASSUME NEW ty \in Types, Kind(ty) = "record", NEW t \in Terms, NEW conv, NEW has, Right(conv, has, ty),
         RecordToVal(conv, ty, t) # Err
  PROVE  Fits(has, ty, RecordToVal(conv, ty, t))
<1> DEFINE I  == DOMAIN Body(ty)
           vs == [name \in I |-> conv[Body(ty)[name]][Field(t, name)]]
           fs == {<<name, vs[name]>> : name \in I}
           v  == <<"record", fs>>
<1>1. /\ Kind(t) = "map" /\ \A name \in I : Named(t, name) # {}
      /\ RecordToVal(conv, ty, t) = CollectFields(vs)
  BY DEF RecordToVal
<1>2. \A name \in I : Body(ty)[name] \in Inside(ty) /\ Field(t, name) \in Terms
  BY <1>1, FieldType, TypesInside
<1>3. Err \notin Range(vs) /\ RecordToVal(conv, ty, t) = v
  BY <1>1 DEF CollectFields
<1>4. \A name \in I : has[Body(ty)[name]][vs[name]]
  BY <1>2, <1>3 DEF Range, Right
<1> HIDE DEF vs
<1>5. /\ {f[1] : f \in fs} = I
      /\ \A e, f \in fs : e[1] = f[1] => e = f
      /\ \A f \in fs : has[Body(ty)[f[1]]][f[2]]
  <2>1. \A f \in fs : f[1] \in I /\ f[2] = vs[f[1]] /\ f = <<f[1], vs[f[1]]>>
    OBVIOUS
  <2>2. \A name \in I : <<name, vs[name]>> \in fs /\ <<name, vs[name]>>[1] = name
    OBVIOUS
  <2> HIDE DEF fs
  <2>3. {f[1] : f \in fs} = I
    BY <2>1, <2>2
  <2>4. \A e, f \in fs : e[1] = f[1] => e = f
    BY <2>1
  <2>5. \A f \in fs : has[Body(ty)[f[1]]][f[2]]
    BY <1>4, <2>1
  <2> QED
    BY <2>3, <2>4, <2>5
<1> HIDE DEF fs
<1>6. Kind(v) = "record" /\ Body(v) = fs
  BY DEF Kind, Body
<1> HIDE DEF v
<1>7. Fits(has, ty, v)
  BY <1>5, <1>6, CoreRangeType DEF Fits
<1> QED
  BY <1>3, <1>7

\* an option,
LEMMA OptionFits ==
  ASSUME NEW ty \in Types, Kind(ty) = "option", NEW t \in Terms, NEW conv, NEW has, Right(conv, has, ty),
         OptionToVal(conv, ty, t) # Err
  PROVE  Fits(has, ty, OptionToVal(conv, ty, t))
<1>1. Cases(ty) = [none |-> NoType, some |-> Body(ty)] /\ Body(ty) # NoType
  BY NoTypeIsNone, TypesInside DEF Cases
<1>2. CASE Tagged(t, "some")
  <2> DEFINE v == conv[Body(ty)][Body(t)[2]]
  <2>1. t # Atom("none")
    BY <1>2 DEF Tagged, IsPair, Atom, Kind
  <2>2. OptionToVal(conv, ty, t) = Payload("option", "some", v)
    BY <1>2, <2>1 DEF OptionToVal
  <2>3. v # Err
    BY <2>2 DEF Payload
  <2>4. has[Body(ty)][v]
    BY <1>2, <2>3, PairType, TypesInside DEF Tagged, Right
  <2> HIDE DEF v
  <2> QED
    BY <1>1, <2>2, <2>3, <2>4, PayloadFits
<1>3. CASE ~Tagged(t, "some")
  <2>1. OptionToVal(conv, ty, t) = <<"option", <<"none", <<>>>>>>
    BY <1>3 DEF OptionToVal
  <2> QED
    BY <1>1, <2>1, BareFits
<1> QED
  BY <1>2, <1>3

\* and flags.
LEMMA FlagsFits ==
  ASSUME NEW ty \in Types, Kind(ty) = "flags", NEW t, NEW has, FlagsToVal(ty, t) # Err
  PROVE  Fits(has, ty, FlagsToVal(ty, t))
<1> DEFINE names == {TermToFieldName(e[1]) : e \in {f \in Entries(t) : f[2] = Atom("true")}}
           v     == <<"flags", names>>
<1>1. FlagsToVal(ty, t) = v /\ names \subseteq Body(ty)
  BY DEF FlagsToVal
<1> HIDE DEF names
<1>2. Kind(v) = "flags" /\ Body(v) = names
  BY DEF Kind, Body
<1> HIDE DEF v
<1>3. Fits(has, ty, v)
  BY <1>1, <1>2, CoreRangeType DEF Fits
<1> QED
  BY <1>1, <1>3

\* In a call, every type but tuples and variants with a payload.
LEMMA ToValFits ==
  ASSUME NEW ty \in Types, NEW t \in Terms, NEW conv, NEW has, Right(conv, has, ty), Kind(ty) # "tuple",
         Kind(ty) = "variant" => \A c \in Range(Body(ty)) : c = NoType, ToVal(conv, ty, t) # Err
  PROVE  Fits(has, ty, ToVal(conv, ty, t))
<1>1. IsType(ty)
  BY TypesType
<1>2. CASE Kind(ty) \in Prims
  <2>1. ToVal(conv, ty, t) = PrimToVal(ty, t)
    BY <1>2 DEF ToVal, Prims
  <2> QED
    BY <1>2, <2>1, PrimFits
<1>3. CASE Kind(ty) \in {"list", "record", "option", "flags"}
  <2>1. /\ Kind(ty) = "list" => ToVal(conv, ty, t) = ListToVal(conv, ty, t)
        /\ Kind(ty) = "record" => ToVal(conv, ty, t) = RecordToVal(conv, ty, t)
        /\ Kind(ty) = "option" => ToVal(conv, ty, t) = OptionToVal(conv, ty, t)
        /\ Kind(ty) = "flags" => ToVal(conv, ty, t) = FlagsToVal(ty, t)
    BY DEF ToVal, Prims
  <2> QED
    BY <1>3, <2>1, ListFits, RecordFits, OptionFits, FlagsFits
<1>4. CASE Kind(ty) = "enum"
  <2> DEFINE v == EnumToVal(ty, t)
  <2>1. ToVal(conv, ty, t) = v
    BY <1>4 DEF ToVal, Prims
  <2>2. Kind(v) = "enum" /\ Body(v) \in Body(ty)
    BY <2>1 DEF EnumToVal, Kind, Body
  <2> HIDE DEF v
  <2>3. Fits(has, ty, v)
    BY <1>4, <2>2, CoreRangeType DEF Fits
  <2> QED
    BY <2>1, <2>3
<1>5. CASE Kind(ty) = "result"
  <2>1. ToVal(conv, ty, t) = ResultTypeToVal(conv, ty, t) /\ Cases(ty) = Body(ty) /\ DOMAIN Body(ty) = {"ok", "error"}
    BY <1>1, <1>5 DEF ToVal, Prims, IsType, Cases
  <2>2. CASE \E s \in {"ok", "error"} : t = Atom(s) /\ Body(ty)[s] = NoType
    <3>1. PICK s \in {"ok", "error"} : t = Atom(s) /\ Body(ty)[s] = NoType
      BY <2>2
    <3>2. ~IsPair(t) /\ Body(t) = s
      BY <3>1 DEF Atom, Body, IsPair, Kind
    <3>3. ResultTypeToVal(conv, ty, t) = <<"result", <<s, <<>>>>>>
      BY <2>2, <3>2 DEF ResultTypeToVal, Tagged
    <3> QED
      BY <1>5, <2>1, <3>1, <3>3, BareFits
  <2>3. CASE \E s \in {"ok", "error"} : Tagged(t, s) /\ Body(ty)[s] # NoType
    <3>1. PICK s \in {"ok", "error"} : Tagged(t, s) /\ Body(ty)[s] # NoType
      BY <2>3
    <3> DEFINE v == conv[Body(ty)[s]][Body(t)[2]]
    <3>2. IsPair(t) /\ t \notin {Atom("ok"), Atom("error")} /\ Body(Body(t)[1]) = s
      BY <3>1 DEF Tagged, Atom, Body, IsPair, Kind
    <3>3. ResultTypeToVal(conv, ty, t) = Payload("result", s, v)
      BY <2>3, <3>2 DEF ResultTypeToVal
    <3>4. v # Err
      BY <2>1, <3>3 DEF Payload
    <3>5. has[Body(ty)[s]][v]
      BY <1>5, <2>1, <3>1, <3>2, <3>4, PairType, TypesInside DEF Right
    <3> HIDE DEF v
    <3> QED
      BY <1>5, <2>1, <3>1, <3>3, <3>4, <3>5, PayloadFits
  <2>4. CASE /\ ~\E s \in {"ok", "error"} : t = Atom(s) /\ Body(ty)[s] = NoType
             /\ ~\E s \in {"ok", "error"} : Tagged(t, s) /\ Body(ty)[s] # NoType
    BY <2>1, <2>4 DEF ResultTypeToVal
  <2> QED
    BY <2>2, <2>3, <2>4
<1>6. CASE Kind(ty) = "variant"
  <2> DEFINE name == IF IsPair(t) THEN Body(Body(t)[1]) ELSE Body(t)
  <2>1. ToVal(conv, ty, t) = VariantToVal(conv, ty, t) /\ Cases(ty) = Body(ty)
    BY <1>6 DEF ToVal, Prims, Cases
  <2>2. \A n \in DOMAIN Body(ty) : Body(ty)[n] = NoType
    BY <1>6 DEF Range
  <2>3. name \in DOMAIN Body(ty) /\ VariantToVal(conv, ty, t) = <<"variant", <<name, <<>>>>>>
    BY <2>1, <2>2 DEF VariantToVal
  <2> HIDE DEF name
  <2> QED
    BY <1>6, <2>1, <2>2, <2>3, BareFits
<1>7. CASE Kind(ty) = "alias"
  <2>1. ToVal(conv, ty, t) = conv[Body(ty)][t]
    BY <1>7 DEF ToVal, Prims
  <2>2. has[Body(ty)][ToVal(conv, ty, t)]
    BY <1>7, <2>1, TypesInside DEF Right
  <2> QED
    BY <1>7, <2>2, CoreRangeType DEF Fits
<1>8. CASE Kind(ty) \in CoreKinds \cup {"resource"}
  BY <1>8 DEF ToVal, CoreKinds, Prims
<1> QED
  BY <1>1, <1>2, <1>3, <1>4, <1>5, <1>6, <1>7, <1>8 DEF IsType

\* In the result of a callback, every type but tuples and records.
LEMMA ConvertResultFits ==
  ASSUME NEW ty \in Types, NEW t \in Terms, NEW conv, NEW has, Right(conv, has, ty),
         Kind(ty) \notin {"tuple", "record"}, ConvertResult(conv, ty, t) # Err
  PROVE  Fits(has, ty, ConvertResult(conv, ty, t))
<1>1. IsType(ty)
  BY TypesType
<1>2. CASE Kind(ty) \in Prims
  <2>1. ConvertResult(conv, ty, t) = PrimResult(ty, t)
    BY <1>2 DEF ConvertResult
  <2> QED
    BY <1>2, <2>1, PrimFits
<1>3. CASE Kind(ty) \in {"list", "option", "flags"}
  <2>1. /\ Kind(ty) = "list" => ConvertResult(conv, ty, t) = ListToVal(conv, ty, t)
        /\ Kind(ty) = "option" => ConvertResult(conv, ty, t) = OptionToVal(conv, ty, t)
        /\ Kind(ty) = "flags" => ConvertResult(conv, ty, t) = FlagsToVal(ty, t)
    BY DEF ConvertResult, ConvertComplexResult, Prims, ResultToList, ResultToOption, ResultToFlags
  <2> QED
    BY <1>3, <2>1, ListFits, OptionFits, FlagsFits
<1>4. CASE Kind(ty) = "enum"
  <2> DEFINE v == ResultToEnum(ty, t)
  <2>1. ConvertResult(conv, ty, t) = v
    BY <1>4 DEF ConvertResult, ConvertComplexResult, Prims
  <2>2. Kind(v) = "enum" /\ Body(v) \in Body(ty)
    BY <2>1 DEF ResultToEnum, Kind, Body
  <2> HIDE DEF v
  <2>3. Fits(has, ty, v)
    BY <1>4, <2>2, CoreRangeType DEF Fits
  <2> QED
    BY <2>1, <2>3
<1>5. CASE Kind(ty) = "result"
  <2>1. /\ ConvertResult(conv, ty, t) = ResultToResult(conv, ty, t)
        /\ Cases(ty) = Body(ty) /\ DOMAIN Body(ty) = {"ok", "error"}
    BY <1>1, <1>5 DEF ConvertResult, ConvertComplexResult, Prims, IsType, Cases
  <2>2. CASE IsPair(t)
    <3> DEFINE s == IF Body(Body(t)[1]) = "ok" THEN "ok" ELSE "error"
               v == conv[Body(ty)[s]][Body(t)[2]]
    <3>1. s \in {"ok", "error"} /\ t \notin {Atom("ok"), Atom("error")}
      BY <2>2 DEF Atom, Body, IsPair, Kind
    <3>2. \/ Body(ty)[s] = NoType /\ ResultToResult(conv, ty, t) = <<"result", <<s, <<>>>>>>
          \/ Body(ty)[s] # NoType /\ ResultToResult(conv, ty, t) = Payload("result", s, v)
      BY <2>1, <3>1 DEF ResultToResult
    <3> HIDE DEF s
    <3>3. CASE Body(ty)[s] # NoType
      <4>1. v # Err
        BY <2>1, <3>2, <3>3 DEF Payload
      <4>2. has[Body(ty)[s]][v]
        BY <1>5, <2>1, <2>2, <3>1, <3>3, <4>1, PairType, TypesInside DEF Right
      <4> HIDE DEF v
      <4> QED
        BY <1>5, <2>1, <3>1, <3>2, <3>3, <4>1, <4>2, PayloadFits
    <3>4. CASE Body(ty)[s] = NoType
      BY <1>5, <2>1, <3>1, <3>2, <3>4, BareFits
    <3> QED
      BY <3>3, <3>4
  <2>3. CASE ~IsPair(t)
    <3>1. \E s \in {"ok", "error"} :
            Body(ty)[s] = NoType /\ ResultToResult(conv, ty, t) = <<"result", <<s, <<>>>>>>
      BY <2>1, <2>3 DEF ResultToResult, Atom
    <3> QED
      BY <1>5, <2>1, <3>1, BareFits
  <2> QED
    BY <2>2, <2>3
<1>6. CASE Kind(ty) = "variant"
  <2> DEFINE isTuple == Kind(t) = "tuple" /\ Body(t) # <<>> /\ Kind(Body(t)[1]) = "atom"
             name    == IF isTuple THEN Body(Body(t)[1]) ELSE Body(t)
             v       == conv[Body(ty)[name]][Body(t)[2]]
  <2>1. ConvertResult(conv, ty, t) = ResultToVariant(conv, ty, t) /\ Cases(ty) = Body(ty)
    BY <1>6 DEF ConvertResult, ConvertComplexResult, Prims, Cases
  <2>2. /\ name \in DOMAIN Body(ty)
        /\ \/ Body(ty)[name] = NoType /\ ResultToVariant(conv, ty, t) = <<"variant", <<name, <<>>>>>>
           \/ /\ Body(ty)[name] # NoType /\ IsPair(t)
              /\ ResultToVariant(conv, ty, t) = Payload("variant", name, v)
    BY <2>1 DEF ResultToVariant
  <2> HIDE DEF name
  <2>3. CASE Body(ty)[name] # NoType
    <3>1. v # Err
      BY <2>1, <2>2, <2>3 DEF Payload
    <3>2. has[Body(ty)[name]][v]
      BY <1>6, <2>1, <2>2, <2>3, <3>1, PairType, TypesInside DEF Right
    <3> HIDE DEF v
    <3> QED
      BY <1>6, <2>1, <2>2, <2>3, <3>1, <3>2, PayloadFits
  <2>4. CASE Body(ty)[name] = NoType
    BY <1>6, <2>1, <2>2, <2>4, BareFits
  <2> QED
    BY <2>3, <2>4
<1>7. CASE Kind(ty) = "alias"
  <2>1. ConvertResult(conv, ty, t) = conv[Body(ty)][t]
    BY <1>7 DEF ConvertResult, ConvertComplexResult, Prims
  <2>2. has[Body(ty)][ConvertResult(conv, ty, t)]
    BY <1>7, <2>1, TypesInside DEF Right
  <2> QED
    BY <1>7, <2>2, CoreRangeType DEF Fits
<1>8. CASE Kind(ty) \in CoreKinds \cup {"resource"}
  BY <1>8 DEF ConvertResult, ConvertComplexResult, CoreKinds, Prims
<1> QED
  BY <1>1, <1>2, <1>3, <1>4, <1>5, <1>6, <1>7, <1>8 DEF IsType

\* Parts of a type in which a shape is left unchecked.
LooseInCall(p)   == Kind(p) = "tuple" \/ (Kind(p) = "variant" /\ \E c \in Range(Body(p)) : c # NoType)
LooseInAnswer(p) == Kind(p) \in {"tuple", "record"}

\* By induction, what is converted is of its type, unless a part of the type is loose.
LEMMA ConvertedFits ==
  ASSUME NEW ty0 \in Types, NEW t0 \in Terms
  PROVE  /\ \/ \E p \in Parts[ty0] : LooseInCall(p)
            \/ TermToVal[ty0][t0] = Err
            \/ HasType[ty0][TermToVal[ty0][t0]]
         /\ \/ \E p \in Parts[ty0] : LooseInAnswer(p)
            \/ ResultToVal[ty0][t0] = Err
            \/ HasType[ty0][ResultToVal[ty0][t0]]
<1> DEFINE Fine(conv, ty) == \A t \in Terms : conv[ty][t] # Err => HasType[ty][conv[ty][t]]
           Called(ty)   == (\E p \in Parts[ty] : LooseInCall(p)) \/ Fine(TermToVal, ty)
           Answered(ty) == (\E p \in Parts[ty] : LooseInAnswer(p)) \/ Fine(ResultToVal, ty)
           D == {ty \in Types : Called(ty) /\ Answered(ty)}
<1>1. ASSUME NEW ty \in Types, \A p \in Types : Depth[p] < Depth[ty] => p \in D
      PROVE  ty \in D
  <2>1. ty \in Parts[ty] /\ \A p \in Inside(ty) : Parts[p] \subseteq Parts[ty]
    BY PartsIs
  <2>2. \A p \in Inside(ty) : p \in Types /\ Called(p) /\ Answered(p)
    BY <1>1, TypesInside
  <2>3. ASSUME ~\E p \in Parts[ty] : LooseInCall(p) PROVE Fine(TermToVal, ty)
    <3>1. Right(TermToVal, HasType, ty)
      BY <2>1, <2>2, <2>3 DEF Right
    <3>2. Kind(ty) # "tuple" /\ (Kind(ty) = "variant" => \A c \in Range(Body(ty)) : c = NoType)
      BY <2>1, <2>3 DEF LooseInCall
    <3>3. \A t \in Terms : ToVal(TermToVal, ty, t) # Err => Fits(HasType, ty, ToVal(TermToVal, ty, t))
      BY <3>1, <3>2, ToValFits
    <3> QED
      BY <3>3, TermToValIs, HasTypeIs, ConvertedType
  <2>4. ASSUME ~\E p \in Parts[ty] : LooseInAnswer(p) PROVE Fine(ResultToVal, ty)
    <3>1. Right(ResultToVal, HasType, ty)
      BY <2>1, <2>2, <2>4 DEF Right
    <3>2. Kind(ty) \notin {"tuple", "record"}
      BY <2>1, <2>4 DEF LooseInAnswer
    <3>3. \A t \in Terms : ConvertResult(ResultToVal, ty, t) # Err => Fits(HasType, ty, ConvertResult(ResultToVal, ty, t))
      BY <3>1, <3>2, ConvertResultFits
    <3> QED
      BY <3>3, ResultToValIs, HasTypeIs, ConvertedType
  <2> QED
    BY <2>3, <2>4
<1> HIDE DEF D
<1>2. Types \subseteq D
  BY <1>1, DepthIsRank, OfTermToVal!RankInduction
<1>3. Called(ty0) /\ Answered(ty0)
  BY <1>2 DEF D
<1> QED
  BY <1>3

-----------------------------------------------------------------------------
(* The converters undo val_to_term.                                         *)

\* A failure is not a value.
LEMMA ErrIsNone == Err \notin Vals
BY ValsOfVals, ValShape DEF Err

\* A converter gives back what it is given encoded.
Undoes(conv, enc, has, ty) == \A p \in Inside(ty), w \in Vals : has[p][w] => conv[p][enc[w]] = w

\* Primitive values come back.
LEMMA PrimBack ==
  ASSUME NEW ty \in Types, Kind(ty) \in Prims, NEW v \in Vals, NEW has, Fits(has, ty, v), NEW enc
  PROVE  PrimToVal(ty, ToTerm(enc, v)) = v /\ PrimResult(ty, ToTerm(enc, v)) = v
<1> DEFINE t == ToTerm(enc, v)
<1>1. v \in ValsOver(Vals) /\ v = <<Kind(v), Body(v)>> /\ IsType(ty)
  BY ValsOfVals, ValShape, TypesType
<1>2. CASE Kind(ty) = "bool"
  <2>1. Kind(v) = "bool"
    BY <1>2, CoreRangeType DEF Fits
  <2>2. Body(v) \in BOOLEAN
    BY <1>1, <2>1, ValShape
  <2>3. t = Atom(IF Body(v) THEN "true" ELSE "false")
    BY <2>1 DEF ToTerm
  <2>4. IsTruthy(t) = Body(v)
    BY <2>2, <2>3 DEF IsTruthy, Atom
  <2> QED
    BY <1>1, <1>2, <2>1, <2>4 DEF PrimToVal, PrimResult
<1>3. CASE Kind(ty) = "int"
  <2>1. Kind(v) = "int" /\ Body(v) \in Body(ty)[1]..Body(ty)[2]
    BY <1>3, CoreRangeType DEF Fits
  <2>2. t = <<"integer", Body(v)>>
    BY <2>1 DEF ToTerm
  <2>3. DecodeInt(t, Body(ty)[1], Body(ty)[2]) = v
    BY <1>1, <2>1, <2>2 DEF DecodeInt, Kind, Body
  <2> QED
    BY <1>3, <2>3 DEF PrimToVal, PrimResult
<1>4. CASE Kind(ty) = "float"
  <2>1. Kind(v) = IF Body(ty) = "f32" THEN "single" ELSE "double"
    BY <1>4, CoreRangeType DEF Fits
  <2>2. Body(ty) \in {"f32", "f64"} /\ (Kind(v) = "single" => Body(v) \in {"short", "rounded"})
    BY <1>1, <1>4, ValShape DEF IsType
  <2>3. t = <<"float", Body(v)>>
    BY <2>1 DEF ToTerm
  <2>4. Kind(t) = "float" /\ Body(t) = Body(v)
    BY <2>3 DEF Kind, Body
  <2>5. DecodeFloat(t, Body(ty)) = v
    BY <1>1, <2>1, <2>2, <2>4 DEF DecodeFloat
  <2> QED
    BY <1>4, <2>5 DEF PrimToVal, PrimResult
<1>5. CASE Kind(ty) = "string"
  <2>1. Kind(v) = "string"
    BY <1>5, CoreRangeType DEF Fits
  <2>2. Body(v) \in Texts
    BY <1>1, <2>1, ValShape
  <2>3. t = <<"binary", Body(v)>>
    BY <2>1 DEF ToTerm
  <2>4. Kind(t) = "binary" /\ Body(t) = Body(v)
    BY <2>3 DEF Kind, Body
  <2>5. DecodeString(t) = v
    BY <1>1, <2>1, <2>2, <2>4 DEF DecodeString, IsUtf8
  <2> QED
    BY <1>5, <2>4, <2>5 DEF PrimToVal, PrimResult
<1>6. CASE Kind(ty) = "char"
  <2> DEFINE text == CHOOSE s \in Texts : CodePoints[s] = <<Body(v)>>
             cs   == Chars(t)
  <2>1. Kind(v) = "char"
    BY <1>6, CoreRangeType DEF Fits
  <2>2. Body(v) \in Scalars
    BY <1>1, <2>1, ValShape
  <2>3. text \in Texts /\ CodePoints[text] = <<Body(v)>>
    BY <2>2, TextsType
  <2>4. t = <<"binary", text>>
    BY <2>1 DEF ToTerm
  <2>5. IsUtf8(t) /\ Kind(t) = "binary" /\ Body(t) = text
    BY <2>3, <2>4 DEF IsUtf8, Kind, Body
  <2>6. cs = <<Body(v)>>
    BY <2>3, <2>5 DEF Chars
  <2>7. /\ PrimToVal(ty, t) = IF Len(cs) = 1 /\ cs[1] \in Scalars THEN <<"char", cs[1]>> ELSE Err
        /\ PrimResult(ty, t) = IF cs # <<>> THEN <<"char", Head(cs)>> ELSE Err
    BY <1>6, <2>5 DEF PrimToVal, PrimResult
  <2> HIDE DEF cs
  <2>8. Len(cs) = 1 /\ cs[1] = Body(v) /\ cs # <<>> /\ Head(cs) = Body(v)
    BY <2>6
  <2> QED
    BY <1>1, <2>1, <2>2, <2>7, <2>8
<1> QED
  BY <1>2, <1>3, <1>4, <1>5, <1>6 DEF Prims

\* A list comes back if its members do.
LEMMA ListBack ==
  ASSUME NEW ty \in Types, Kind(ty) = "list", NEW v \in Vals, NEW has, Fits(has, ty, v), NEW enc, NEW conv,
         Undoes(conv, enc, has, ty)
  PROVE  ListToVal(conv, ty, ToTerm(enc, v)) = v
<1> DEFINE t  == ToTerm(enc, v)
           s  == [i \in DOMAIN Body(v) |-> enc[Body(v)[i]]]
           vs == [i \in DOMAIN s |-> conv[Body(ty)][s[i]]]
<1>1. Kind(v) = "list" /\ \A i \in DOMAIN Body(v) : has[Body(ty)][Body(v)[i]]
  BY CoreRangeType DEF Fits
<1>2. v = <<"list", Body(v)>> /\ Body(v) \in Seq(Vals) /\ Body(ty) \in Inside(ty)
  BY <1>1, ValsOfVals, ValShape, TypesInside
<1>3. t = <<"list", s>>
  BY <1>1 DEF ToTerm
<1>4. Kind(t) = "list" /\ Body(t) = s
  BY <1>3 DEF Kind, Body
<1>5. ListToVal(conv, ty, t) = Collect("list", vs)
  BY <1>4 DEF ListToVal
<1>6. \A i \in DOMAIN Body(v) : Body(v)[i] \in Vals /\ conv[Body(ty)][enc[Body(v)[i]]] = Body(v)[i]
  BY <1>1, <1>2 DEF Undoes
<1>7. vs = Body(v)
  BY <1>2, <1>6
<1>8. Err \notin Range(Body(v))
  BY <1>6, ErrIsNone DEF Range
<1> HIDE DEF vs, t
<1>9. Collect("list", vs) = v
  BY <1>2, <1>7, <1>8 DEF Collect
<1> QED
  BY <1>5, <1>9 DEF t

\* A tuple comes back: its length is that of its type.
LEMMA TupleBack ==
  ASSUME NEW ty \in Types, Kind(ty) = "tuple", NEW v \in Vals, NEW has, Fits(has, ty, v), NEW enc, NEW conv,
         Undoes(conv, enc, has, ty)
  PROVE  TupleToVal(conv, ty, ToTerm(enc, v)) = v
<1> DEFINE t  == ToTerm(enc, v)
           s  == [i \in DOMAIN Body(v) |-> enc[Body(v)[i]]]
           I  == Paired(Body(ty), s)
           vs == [i \in I |-> conv[Body(ty)[i]][s[i]]]
<1>1. /\ Kind(v) = "tuple" /\ Len(Body(v)) = Len(Body(ty))
      /\ \A i \in DOMAIN Body(v) : has[Body(ty)[i]][Body(v)[i]]
  BY CoreRangeType DEF Fits
<1>2. /\ v = <<"tuple", Body(v)>> /\ Body(v) \in Seq(Vals) /\ Body(ty) \in Seq(Types)
      /\ \A i \in DOMAIN Body(ty) : Body(ty)[i] \in Inside(ty)
  BY <1>1, ValsOfVals, ValShape, TypesInside
<1>3. t = <<"tuple", s>>
  BY <1>1 DEF ToTerm
<1>4. Kind(t) = "tuple" /\ Body(t) = s
  BY <1>3 DEF Kind, Body
<1>5. TupleToVal(conv, ty, t) = Collect("tuple", vs)
  BY <1>4 DEF TupleToVal
<1>6. \A i \in DOMAIN Body(v) : Body(v)[i] \in Vals /\ conv[Body(ty)[i]][enc[Body(v)[i]]] = Body(v)[i]
  BY <1>1, <1>2 DEF Undoes
<1>7. Len(s) = Len(Body(v))
  BY <1>2
<1>8. I = DOMAIN Body(v)
  BY <1>1, <1>2, <1>7 DEF Paired
<1> HIDE DEF I
<1>9. vs = Body(v)
  BY <1>2, <1>6, <1>8
<1>10. Err \notin Range(Body(v))
  BY <1>6, ErrIsNone DEF Range
<1> HIDE DEF vs, t
<1>11. Collect("tuple", vs) = v
  BY <1>2, <1>9, <1>10 DEF Collect
<1> QED
  BY <1>5, <1>11 DEF t

\* Both ways to read a record find all of its fields.
LEMMA RecordBack ==
  ASSUME NEW ty \in Types, Kind(ty) = "record", NEW v \in Vals, NEW has, Fits(has, ty, v), NEW enc, NEW conv,
         Undoes(conv, enc, has, ty)
  PROVE  LET t == ToTerm(enc, v)
         IN  /\ Kind(t) = "map" /\ \A name \in DOMAIN Body(ty) : Named(t, name) # {}
             /\ CollectFields([name \in DOMAIN Body(ty) |-> conv[Body(ty)[name]][Field(t, name)]]) = v
<1> DEFINE t  == ToTerm(enc, v)
           es == {<<Atom(f[1]), enc[f[2]]>> : f \in Body(v)}
           I  == DOMAIN Body(ty)
           vs == [name \in I |-> conv[Body(ty)[name]][Field(t, name)]]
<1>1. /\ Kind(v) = "record"
      /\ {f[1] : f \in Body(v)} = I
      /\ \A e, f \in Body(v) : e[1] = f[1] => e = f
      /\ \A f \in Body(v) : has[Body(ty)[f[1]]][f[2]]
  BY CoreRangeType DEF Fits
<1>2. /\ v = <<"record", Body(v)>> /\ Body(v) \subseteq Texts \X Vals
      /\ \A name \in I : Body(ty)[name] \in Inside(ty)
  BY <1>1, ValsOfVals, ValShape, TypesInside
<1>3. t = <<"map", <<"atom", es>>>>
  BY <1>1 DEF ToTerm
<1>4. Kind(t) = "map" /\ Entries(t) = es
  BY <1>3 DEF Kind, Body, Entries
<1>5. ASSUME NEW f \in Body(v)
      PROVE  Named(t, f[1]) = {<<Atom(f[1]), enc[f[2]]>>}
  <2>1. ASSUME NEW e \in Body(v) PROVE TermToFieldName(<<Atom(e[1]), enc[e[2]]>>[1]) = e[1]
    BY DEF TermToFieldName, Atom, Kind, Body
  <2> HIDE DEF t
  <2>2. Named(t, f[1]) = {e \in es : TermToFieldName(e[1]) = f[1]}
    BY <1>4 DEF Named
  <2>3. \A e \in Body(v) : e[1] = f[1] => e = f
    BY <1>1
  <2> QED
    BY <2>1, <2>2, <2>3
<1> HIDE DEF t
<1>6. ASSUME NEW f \in Body(v)
      PROVE  Field(t, f[1]) = enc[f[2]]
  <2>1. Named(t, f[1]) # {}
    BY <1>5
  <2>2. \E e \in Named(t, f[1]) : Field(t, f[1]) = e[2]
    BY <2>1, FieldIs
  <2> QED
    BY <1>5, <2>2
<1>7. ASSUME NEW f \in Body(v)
      PROVE  f[1] \in I /\ vs[f[1]] = f[2] /\ f[2] \in Vals /\ f = <<f[1], f[2]>>
  <2>1. f[1] \in I /\ f[2] \in Vals /\ f = <<f[1], f[2]>>
    BY <1>1, <1>2
  <2>2. conv[Body(ty)[f[1]]][enc[f[2]]] = f[2]
    BY <1>1, <1>2, <2>1 DEF Undoes
  <2> QED
    BY <1>6, <2>1, <2>2
<1>8. ASSUME NEW name \in I PROVE \E f \in Body(v) : name = f[1]
  BY <1>1
<1>9. DOMAIN vs = I
  OBVIOUS
<1> HIDE DEF vs, I
<1>10. Err \notin Range(vs)
  BY <1>7, <1>8, <1>9, ErrIsNone DEF Range
<1>11. {<<name, vs[name]>> : name \in I} = Body(v)
  <2>1. \A name \in I : <<name, vs[name]>> \in Body(v)
    BY <1>7, <1>8
  <2>2. \A f \in Body(v) : f \in {<<name, vs[name]>> : name \in I}
    BY <1>7
  <2> QED
    BY <2>1, <2>2
<1>12. CollectFields(vs) = v
  BY <1>2, <1>9, <1>10, <1>11 DEF CollectFields
<1>13. \A name \in I : Named(t, name) # {}
  BY <1>5, <1>8
<1> QED
  BY <1>4, <1>12, <1>13 DEF vs, I, t

\* What an option, a result or a variant is encoded as.
LEMMA CaseBack ==
  ASSUME NEW ty \in Types, Kind(ty) \in {"option", "result", "variant"}, NEW v \in Vals, NEW has,
         Fits(has, ty, v), NEW enc
  PROVE  LET t == ToTerm(enc, v)
             tag == Body(v)[1]
             w == Body(v)[2][1]
         IN  /\ tag \in DOMAIN Cases(ty)
             /\ Cases(ty)[tag] = NoType =>
                  v = <<Kind(ty), <<tag, <<>>>>>> /\ t = Atom(tag)
             /\ Cases(ty)[tag] # NoType =>
                  /\ v = <<Kind(ty), <<tag, <<w>>>>>> /\ t = <<"tuple", <<Atom(tag), enc[w]>>>>
                  /\ w \in Vals /\ w # Err /\ has[Cases(ty)[tag]][w] /\ Cases(ty)[tag] \in Inside(ty)
<1> DEFINE t == ToTerm(enc, v)
           tag == Body(v)[1]
           ws == Body(v)[2]
           w == Body(v)[2][1]
<1>1. /\ Kind(v) = Kind(ty) /\ tag \in DOMAIN Cases(ty)
      /\ IF Cases(ty)[tag] = NoType THEN ws = <<>> ELSE Len(ws) = 1 /\ has[Cases(ty)[tag]][w]
  BY CoreRangeType DEF Fits
<1>2. v = <<Kind(v), Body(v)>> /\ Body(v) = <<tag, ws>> /\ ws \in Seq(Vals)
  BY <1>1, ValsOfVals, ValShape
<1>3. t = IF ws = <<>> THEN Atom(tag) ELSE <<"tuple", <<Atom(tag), enc[w]>>>>
  BY <1>1 DEF ToTerm
<1> HIDE DEF t, tag
<1>4. CASE Cases(ty)[tag] = NoType
  BY <1>1, <1>2, <1>3, <1>4 DEF t, tag
<1>5. CASE Cases(ty)[tag] # NoType
  <2>1. ws # <<>> /\ ws = <<w>> /\ w \in Vals
    BY <1>1, <1>2, <1>5
  <2>2. Cases(ty)[tag] \in Inside(ty)
    BY <1>1, <1>5, TypesInside
  <2>3. w # Err
    BY <2>1, ErrIsNone
  <2> HIDE DEF ws, w
  <2>4. v = <<Kind(ty), <<tag, <<w>>>>>> /\ t = <<"tuple", <<Atom(tag), enc[w]>>>>
    BY <1>1, <1>2, <1>3, <2>1
  <2> QED
    BY <1>1, <1>5, <2>1, <2>2, <2>3, <2>4 DEF t, tag, w
<1> QED
  BY <1>4, <1>5

\* A pair that starts with an atom.
LEMMA PairIs ==
  ASSUME NEW s, NEW x
  PROVE  LET t == <<"tuple", <<Atom(s), x>>>>
         IN  /\ Kind(t) = "tuple" /\ Body(t) # <<>> /\ IsPair(t) /\ Body(t)[1] = Atom(s) /\ Body(t)[2] = x
             /\ Kind(Atom(s)) = "atom" /\ Body(Atom(s)) = s /\ ~IsUtf8(t)
             /\ \A r : t # Atom(r)
<1> DEFINE p == <<Atom(s), x>>
           t == <<"tuple", p>>
<1>1. Len(p) = 2 /\ p[1] = Atom(s) /\ p[2] = x /\ p # <<>>
  OBVIOUS
<1>2. Kind(t) = "tuple" /\ Body(t) = p /\ \A r : t # Atom(r)
  BY DEF Kind, Body, Atom
<1>3. Kind(Atom(s)) = "atom" /\ Body(Atom(s)) = s
  BY DEF Kind, Body, Atom
<1> QED
  BY <1>1, <1>2, <1>3 DEF IsPair, IsUtf8

\* An atom.
LEMMA AtomIs ==
  ASSUME NEW s
  PROVE  Kind(Atom(s)) = "atom" /\ Body(Atom(s)) = s /\ ~IsPair(Atom(s)) /\ ~IsUtf8(Atom(s))
BY DEF Kind, Body, Atom, IsPair, IsUtf8

\* An option comes back.
LEMMA OptionBack ==
  ASSUME NEW ty \in Types, Kind(ty) = "option", NEW v \in Vals, NEW has, Fits(has, ty, v), NEW enc, NEW conv,
         Undoes(conv, enc, has, ty)
  PROVE  OptionToVal(conv, ty, ToTerm(enc, v)) = v
<1> DEFINE t == ToTerm(enc, v)
           tag == Body(v)[1]
           w == Body(v)[2][1]
<1>1. Cases(ty) = [none |-> NoType, some |-> Body(ty)] /\ Body(ty) # NoType
  BY NoTypeIsNone, TypesInside DEF Cases
<1>2. /\ tag \in DOMAIN Cases(ty)
      /\ Cases(ty)[tag] = NoType => v = <<"option", <<tag, <<>>>>>> /\ t = Atom(tag)
      /\ Cases(ty)[tag] # NoType =>
           /\ v = <<"option", <<tag, <<w>>>>>> /\ t = <<"tuple", <<Atom(tag), enc[w]>>>>
           /\ w \in Vals /\ w # Err /\ has[Cases(ty)[tag]][w] /\ Cases(ty)[tag] \in Inside(ty)
  BY CaseBack
<1> HIDE DEF t, tag, w
<1>3. CASE tag = "none"
  <2>1. t = Atom("none") /\ v = <<"option", <<"none", <<>>>>>>
    BY <1>1, <1>2, <1>3
  <2>2. ~Tagged(t, "some")
    BY <2>1, AtomIs DEF Tagged
  <2>3. OptionToVal(conv, ty, t) = v
    BY <2>1, <2>2 DEF OptionToVal
  <2> QED
    BY <2>3 DEF t
<1>4. CASE tag = "some"
  <2>1. /\ v = <<"option", <<"some", <<w>>>>>> /\ t = <<"tuple", <<Atom("some"), enc[w]>>>>
        /\ w # Err /\ conv[Body(ty)][enc[w]] = w
    BY <1>1, <1>2, <1>4 DEF Undoes
  <2>2. Tagged(t, "some") /\ t # Atom("none") /\ Body(t)[2] = enc[w]
    BY <2>1, PairIs DEF Tagged
  <2>3. OptionToVal(conv, ty, t) = Payload("option", "some", w)
    BY <2>1, <2>2 DEF OptionToVal
  <2>4. OptionToVal(conv, ty, t) = v
    BY <2>1, <2>3 DEF Payload
  <2> QED
    BY <2>4 DEF t
<1> QED
  BY <1>1, <1>2, <1>3, <1>4

\* Flags come back: the map holds those that are set, each with true.
LEMMA FlagsBack ==
  ASSUME NEW ty \in Types, Kind(ty) = "flags", NEW v \in Vals, NEW has, Fits(has, ty, v), NEW enc
  PROVE  FlagsToVal(ty, ToTerm(enc, v)) = v
<1> DEFINE t  == ToTerm(enc, v)
           es == {<<Atom(name), Atom("true")>> : name \in Body(v)}
<1>1. Kind(v) = "flags" /\ Body(v) \subseteq Body(ty)
  BY CoreRangeType DEF Fits
<1>2. v = <<"flags", Body(v)>>
  BY <1>1, ValsOfVals, ValShape
<1>3. t = <<"map", <<"atom", es>>>>
  BY <1>1 DEF ToTerm
<1>4. Kind(t) = "map" /\ Entries(t) = es
  BY <1>3 DEF Kind, Body, Entries
<1>5. \A e \in es : \E name \in Body(v) : e = <<Atom(name), Atom("true")>>
  OBVIOUS
<1>6. \A name \in Body(v) : <<Atom(name), Atom("true")>> \in es
  OBVIOUS
<1>7. \A name : TermToFieldName(Atom(name)) = name
  BY AtomIs DEF TermToFieldName
<1> HIDE DEF t, es
<1>8. \A e \in es : TermToFieldName(e[1]) \in Body(v) /\ e[2] = Atom("true")
  BY <1>5, <1>7
<1>9. \A name \in Body(v) : \E e \in es : TermToFieldName(e[1]) = name
  <2> SUFFICES ASSUME NEW name \in Body(v) PROVE \E e \in es : TermToFieldName(e[1]) = name
    OBVIOUS
  <2>1. TermToFieldName(<<Atom(name), Atom("true")>>[1]) = name
    BY <1>7
  <2> QED
    BY <1>6, <2>1
<1> DEFINE set == {e \in es : e[2] = Atom("true")}
<1>10. set = es
  BY <1>8
<1>11. {TermToFieldName(e[1]) : e \in es} = Body(v)
  BY <1>8, <1>9
<1>12. FlagsToVal(ty, t) = <<"flags", {TermToFieldName(e[1]) : e \in set}>>
  BY <1>1, <1>4, <1>8 DEF FlagsToVal
<1> HIDE DEF set
<1> QED
  BY <1>2, <1>10, <1>11, <1>12 DEF t

\* A value sent back as the argument of a call.
LEMMA ToValBack ==
  ASSUME NEW ty \in Types, Kind(ty) \notin CoreKinds \cup {"resource"}, NEW v \in Vals, NEW has,
         Fits(has, ty, v), NEW enc, enc[v] = ToTerm(enc, v), NEW conv,
         Undoes(conv, enc, has, ty)
  PROVE  ToVal(conv, ty, ToTerm(enc, v)) = v
<1> DEFINE t == ToTerm(enc, v)
           tag == Body(v)[1]
           w == Body(v)[2][1]
<1>1. IsType(ty)
  BY TypesType
<1>2. CASE Kind(ty) \in Prims
  <2>1. ToVal(conv, ty, t) = PrimToVal(ty, t)
    BY <1>2 DEF ToVal, Prims
  <2> QED
    BY <1>2, <2>1, PrimBack
<1>3. CASE Kind(ty) \in {"list", "tuple", "option", "flags"}
  <2>1. /\ Kind(ty) = "list" => ToVal(conv, ty, t) = ListToVal(conv, ty, t)
        /\ Kind(ty) = "tuple" => ToVal(conv, ty, t) = TupleToVal(conv, ty, t)
        /\ Kind(ty) = "option" => ToVal(conv, ty, t) = OptionToVal(conv, ty, t)
        /\ Kind(ty) = "flags" => ToVal(conv, ty, t) = FlagsToVal(ty, t)
    BY DEF ToVal, Prims
  <2> HIDE DEF t
  <2> QED
    BY <1>3, <2>1, ListBack, TupleBack, OptionBack, FlagsBack DEF t
<1>4. CASE Kind(ty) = "record"
  <2>1. ToVal(conv, ty, t) = RecordToVal(conv, ty, t)
    BY <1>4 DEF ToVal, Prims
  <2>2. /\ Kind(t) = "map" /\ \A name \in DOMAIN Body(ty) : Named(t, name) # {}
        /\ CollectFields([name \in DOMAIN Body(ty) |-> conv[Body(ty)[name]][Field(t, name)]]) = v
    BY <1>4, RecordBack
  <2> HIDE DEF t
  <2> QED
    BY <2>1, <2>2 DEF RecordToVal, t
<1>5. CASE Kind(ty) = "enum"
  <2>1. ToVal(conv, ty, t) = EnumToVal(ty, t)
    BY <1>5 DEF ToVal, Prims
  <2>2. Kind(v) = "enum" /\ Body(v) \in Body(ty)
    BY <1>5, CoreRangeType DEF Fits
  <2>3. v = <<"enum", Body(v)>> /\ t = Atom(Body(v))
    BY <2>2, ValsOfVals, ValShape DEF ToTerm
  <2> QED
    BY <2>1, <2>2, <2>3, AtomIs DEF EnumToVal
<1>6. CASE Kind(ty) \in {"result", "variant"}
  <2>1. /\ Cases(ty) = Body(ty)
        /\ tag \in DOMAIN Body(ty)
        /\ Body(ty)[tag] = NoType => v = <<Kind(ty), <<tag, <<>>>>>> /\ t = Atom(tag)
        /\ Body(ty)[tag] # NoType =>
             /\ v = <<Kind(ty), <<tag, <<w>>>>>> /\ t = <<"tuple", <<Atom(tag), enc[w]>>>>
             /\ w \in Vals /\ w # Err /\ has[Body(ty)[tag]][w] /\ Body(ty)[tag] \in Inside(ty)
    <3>1. Cases(ty) = Body(ty)
      BY <1>6 DEF Cases
    <3> QED
      BY <1>6, <3>1, CaseBack
  <2> HIDE DEF t, tag, w
  <2>2. Body(ty)[tag] # NoType => conv[Body(ty)[tag]][enc[w]] = w
    BY <2>1 DEF Undoes
  <2>3. CASE Kind(ty) = "result"
    <3>1. ToVal(conv, ty, t) = ResultTypeToVal(conv, ty, t) /\ tag \in {"ok", "error"}
      BY <1>1, <2>1, <2>3 DEF ToVal, Prims, IsType
    <3>2. CASE Body(ty)[tag] = NoType
      <4>1. t = Atom(tag) /\ Body(t) = tag /\ ~IsPair(t)
        BY <2>1, <3>2, AtomIs
      <4>2. ResultTypeToVal(conv, ty, t) = <<"result", <<Body(t), <<>>>>>>
        BY <3>1, <3>2, <4>1 DEF ResultTypeToVal, Tagged
      <4> QED
        BY <2>1, <2>3, <3>1, <3>2, <4>1, <4>2 DEF t
    <3>3. CASE Body(ty)[tag] # NoType
      <4>1. /\ IsPair(t) /\ Body(t)[1] = Atom(tag) /\ Body(t)[2] = enc[w] /\ Body(Body(t)[1]) = tag
            /\ \A r : t # Atom(r)
        BY <2>1, <3>3, PairIs
      <4>2. ResultTypeToVal(conv, ty, t) = Payload("result", tag, w)
        BY <2>2, <3>1, <3>3, <4>1 DEF ResultTypeToVal, Tagged
      <4> QED
        BY <2>1, <2>3, <3>1, <3>3, <4>2 DEF Payload, t
    <3> QED
      BY <3>2, <3>3
  <2>4. CASE Kind(ty) = "variant"
    <3>1. ToVal(conv, ty, t) = VariantToVal(conv, ty, t)
      BY <2>4 DEF ToVal, Prims
    <3>2. CASE Body(ty)[tag] = NoType
      <4>1. Kind(t) = "atom" /\ Body(t) = tag /\ ~IsPair(t)
        BY <2>1, <3>2, AtomIs
      <4>2. VariantToVal(conv, ty, t) = <<"variant", <<tag, <<>>>>>>
        BY <2>1, <4>1 DEF VariantToVal
      <4> QED
        BY <2>1, <2>4, <3>1, <3>2, <4>2 DEF t
    <3>3. CASE Body(ty)[tag] # NoType
      <4>1. /\ Kind(t) = "tuple" /\ IsPair(t) /\ Body(t)[2] = enc[w]
            /\ Kind(Body(t)[1]) = "atom" /\ Body(Body(t)[1]) = tag
        BY <2>1, <3>3, PairIs
      <4>2. VariantToVal(conv, ty, t) = Payload("variant", tag, w)
        BY <2>1, <2>2, <3>3, <4>1 DEF VariantToVal
      <4> QED
        BY <2>1, <2>4, <3>1, <3>3, <4>2 DEF Payload, t
    <3> QED
      BY <3>2, <3>3
  <2> QED
    BY <1>6, <2>3, <2>4
<1>7. CASE Kind(ty) = "alias"
  <2>1. ToVal(conv, ty, t) = conv[Body(ty)][t]
    BY <1>7 DEF ToVal, Prims
  <2>2. has[Body(ty)][v]
    BY <1>7, CoreRangeType DEF Fits
  <2> QED
    BY <1>7, <2>1, <2>2, TypesInside DEF Undoes
<1> QED
  BY <1>1, <1>2, <1>3, <1>4, <1>5, <1>6, <1>7 DEF IsType

\* A value sent back as the result of a callback.
LEMMA ConvertResultBack ==
  ASSUME NEW ty \in Types, Kind(ty) \notin CoreKinds \cup {"resource"}, NEW v \in Vals, NEW has,
         Fits(has, ty, v), NEW enc, enc[v] = ToTerm(enc, v), NEW conv,
         Undoes(conv, enc, has, ty)
  PROVE  ConvertResult(conv, ty, ToTerm(enc, v)) = v
<1> DEFINE t == ToTerm(enc, v)
           tag == Body(v)[1]
           w == Body(v)[2][1]
<1>1. IsType(ty)
  BY TypesType
<1>2. CASE Kind(ty) \in Prims
  <2>1. ConvertResult(conv, ty, t) = PrimResult(ty, t)
    BY <1>2 DEF ConvertResult
  <2> QED
    BY <1>2, <2>1, PrimBack
<1>3. CASE Kind(ty) \in {"list", "tuple", "option", "flags"}
  <2>1. /\ Kind(ty) = "list" => ConvertResult(conv, ty, t) = ListToVal(conv, ty, t)
        /\ Kind(ty) = "tuple" => ConvertResult(conv, ty, t) = TupleToVal(conv, ty, t)
        /\ Kind(ty) = "option" => ConvertResult(conv, ty, t) = OptionToVal(conv, ty, t)
        /\ Kind(ty) = "flags" => ConvertResult(conv, ty, t) = FlagsToVal(ty, t)
    BY DEF ConvertResult, ConvertComplexResult, Prims, ResultToList, ResultToTuple, ResultToOption,
           ResultToFlags
  <2> HIDE DEF t
  <2> QED
    BY <1>3, <2>1, ListBack, TupleBack, OptionBack, FlagsBack DEF t
<1>4. CASE Kind(ty) = "record"
  <2>1. ConvertResult(conv, ty, t) = ResultToRecord(conv, ty, t)
    BY <1>4 DEF ConvertResult, ConvertComplexResult, Prims
  <2>2. /\ Kind(t) = "map" /\ \A name \in DOMAIN Body(ty) : Named(t, name) # {}
        /\ CollectFields([name \in DOMAIN Body(ty) |-> conv[Body(ty)[name]][Field(t, name)]]) = v
    BY <1>4, RecordBack
  <2> HIDE DEF t
  <2>3. {n \in DOMAIN Body(ty) : Named(t, n) # {}} = DOMAIN Body(ty)
    BY <2>2
  <2> QED
    BY <2>1, <2>2, <2>3 DEF ResultToRecord, t
<1>5. CASE Kind(ty) = "enum"
  <2>1. ConvertResult(conv, ty, t) = ResultToEnum(ty, t)
    BY <1>5 DEF ConvertResult, ConvertComplexResult, Prims
  <2>2. Kind(v) = "enum" /\ Body(v) \in Body(ty)
    BY <1>5, CoreRangeType DEF Fits
  <2>3. v = <<"enum", Body(v)>> /\ t = Atom(Body(v))
    BY <2>2, ValsOfVals, ValShape DEF ToTerm
  <2> QED
    BY <2>1, <2>2, <2>3, AtomIs DEF ResultToEnum
<1>6. CASE Kind(ty) \in {"result", "variant"}
  <2>1. /\ Cases(ty) = Body(ty)
        /\ tag \in DOMAIN Body(ty)
        /\ Body(ty)[tag] = NoType => v = <<Kind(ty), <<tag, <<>>>>>> /\ t = Atom(tag)
        /\ Body(ty)[tag] # NoType =>
             /\ v = <<Kind(ty), <<tag, <<w>>>>>> /\ t = <<"tuple", <<Atom(tag), enc[w]>>>>
             /\ w \in Vals /\ w # Err /\ has[Body(ty)[tag]][w] /\ Body(ty)[tag] \in Inside(ty)
    <3>1. Cases(ty) = Body(ty)
      BY <1>6 DEF Cases
    <3> QED
      BY <1>6, <3>1, CaseBack
  <2> HIDE DEF t, tag, w
  <2>2. Body(ty)[tag] # NoType => conv[Body(ty)[tag]][enc[w]] = w
    BY <2>1 DEF Undoes
  <2>3. CASE Kind(ty) = "result"
    <3>1. ConvertResult(conv, ty, t) = ResultToResult(conv, ty, t) /\ tag \in {"ok", "error"}
      BY <1>1, <2>1, <2>3 DEF ConvertResult, ConvertComplexResult, Prims, IsType
    <3>2. CASE Body(ty)[tag] = NoType
      <4>1. t = Atom(tag) /\ Body(t) = tag /\ ~IsPair(t)
        BY <2>1, <3>2, AtomIs
      <4>2. ResultToResult(conv, ty, t) = <<"result", <<tag, <<>>>>>>
        BY <3>1, <3>2, <4>1, AtomIs DEF ResultToResult
      <4> QED
        BY <2>1, <2>3, <3>1, <3>2, <4>2 DEF t
    <3>3. CASE Body(ty)[tag] # NoType
      <4>1. /\ IsPair(t) /\ Body(t)[2] = enc[w] /\ Kind(Body(t)[1]) = "atom" /\ Body(Body(t)[1]) = tag
            /\ \A r : t # Atom(r)
        BY <2>1, <3>3, PairIs
      <4>2. (IF tag = "ok" THEN "ok" ELSE "error") = tag
        BY <3>1
      <4>3. ResultToResult(conv, ty, t) = Payload("result", tag, w)
        BY <2>2, <3>3, <4>1, <4>2 DEF ResultToResult
      <4> QED
        BY <2>1, <2>3, <3>1, <3>3, <4>3 DEF Payload, t
    <3> QED
      BY <3>2, <3>3
  <2>4. CASE Kind(ty) = "variant"
    <3>1. ConvertResult(conv, ty, t) = ResultToVariant(conv, ty, t)
      BY <2>4 DEF ConvertResult, ConvertComplexResult, Prims
    <3>2. CASE Body(ty)[tag] = NoType
      <4>1. Kind(t) = "atom" /\ Body(t) = tag
        BY <2>1, <3>2, AtomIs
      <4>2. ResultToVariant(conv, ty, t) = <<"variant", <<tag, <<>>>>>>
        BY <2>1, <3>2, <4>1 DEF ResultToVariant
      <4> QED
        BY <2>1, <2>4, <3>1, <3>2, <4>2 DEF t
    <3>3. CASE Body(ty)[tag] # NoType
      <4>1. /\ Kind(t) = "tuple" /\ IsPair(t) /\ Body(t) # <<>> /\ Body(t)[2] = enc[w]
            /\ Kind(Body(t)[1]) = "atom" /\ Body(Body(t)[1]) = tag
        BY <2>1, <3>3, PairIs
      <4>2. ResultToVariant(conv, ty, t) = Payload("variant", tag, w)
        BY <2>1, <2>2, <3>3, <4>1 DEF ResultToVariant
      <4> QED
        BY <2>1, <2>4, <3>1, <3>3, <4>2 DEF Payload, t
    <3> QED
      BY <3>2, <3>3
  <2> QED
    BY <1>6, <2>3, <2>4
<1>7. CASE Kind(ty) = "alias"
  <2>1. ConvertResult(conv, ty, t) = conv[Body(ty)][t]
    BY <1>7 DEF ConvertResult, ConvertComplexResult, Prims
  <2>2. has[Body(ty)][v]
    BY <1>7, CoreRangeType DEF Fits
  <2> QED
    BY <1>7, <2>1, <2>2, TypesInside DEF Undoes
<1> QED
  BY <1>1, <1>2, <1>3, <1>4, <1>5, <1>6, <1>7 DEF IsType

\* No part of the type is a reference or a resource.
NoHandle(ty) == \A p \in Parts[ty] : Kind(p) \notin {"ref", "resource"}

\* By induction, both converters of a component undo val_to_term.
LEMMA ValuesBack ==
  ASSUME NEW ty0 \in Types, Kind(ty0) \notin CoreKinds, NoHandle(ty0), NEW v0 \in Vals, HasType[ty0][v0]
  PROVE  TermToVal[ty0][ValToTerm[v0]] = v0 /\ ResultToVal[ty0][ValToTerm[v0]] = v0
<1> DEFINE Back(conv, ty) == \A v \in Vals : HasType[ty][v] => conv[ty][ValToTerm[v]] = v
           D == {ty \in Types : Kind(ty) \notin CoreKinds /\ NoHandle(ty) =>
                                  Back(TermToVal, ty) /\ Back(ResultToVal, ty)}
<1>1. ASSUME NEW ty \in Types, \A p \in Types : Depth[p] < Depth[ty] => p \in D,
             Kind(ty) \notin CoreKinds, NoHandle(ty)
      PROVE  Back(TermToVal, ty) /\ Back(ResultToVal, ty)
  <2>1. ty \in Parts[ty] /\ \A p \in Inside(ty) : Parts[p] \subseteq Parts[ty]
    BY PartsIs
  <2>2. \A p \in Inside(ty) : Back(TermToVal, p) /\ Back(ResultToVal, p)
    BY <1>1, <2>1, TypesInside DEF NoHandle
  <2>3. Kind(ty) \notin CoreKinds \cup {"resource"}
    BY <1>1, <2>1 DEF NoHandle
  <2>4. Undoes(TermToVal, ValToTerm, HasType, ty) /\ Undoes(ResultToVal, ValToTerm, HasType, ty)
    BY <2>2 DEF Undoes
  <2>5. ASSUME NEW v \in Vals, HasType[ty][v]
        PROVE  TermToVal[ty][ValToTerm[v]] = v /\ ResultToVal[ty][ValToTerm[v]] = v
    <3>1. Fits(HasType, ty, v) /\ ValToTerm[v] = ToTerm(ValToTerm, v) /\ ValToTerm[v] \in Terms
      BY <2>5, HasTypeIs, ValToTermIs, ValToTermType
    <3>2. ToVal(TermToVal, ty, ValToTerm[v]) = v /\ ConvertResult(ResultToVal, ty, ValToTerm[v]) = v
      BY <2>3, <2>4, <3>1, ToValBack, ConvertResultBack
    <3> QED
      BY <3>1, <3>2, TermToValIs, ResultToValIs
  <2> QED
    BY <2>5
<1>2. \A ty \in Types : (\A p \in Types : Depth[p] < Depth[ty] => p \in D) => ty \in D
  BY <1>1
<1> HIDE DEF D
<1>3. Types \subseteq D
  BY <1>2, DepthIsRank, OfTermToVal!RankInduction
<1> QED
  BY <1>3 DEF D

-----------------------------------------------------------------------------
(* Core values.                                                             *)

\* Values and terms of every leaf shape exist.
LEMMA Leaves ==
  /\ \E S \in SUBSET Vals : Vals = ValsOver(S)
  /\ \E S \in SUBSET Terms : Terms = TermsOver(S) /\ \E R : S = TermsOver(R)
<1>1. Depth[<<"ref", "r">>] \in 1..MaxDepth /\ MaxDepth \in Nat
  BY TypesType
<1> HIDE DEF Vals, Terms
<1>2. /\ MaxDepth # 0 /\ MaxDepth - 1 \in Nat /\ (MaxDepth - 1) + 1 = MaxDepth
      /\ MaxDepth + 1 \in Nat /\ MaxDepth + 1 # 0 /\ (MaxDepth + 1) - 1 = MaxDepth
  BY <1>1
<1>3. Vals = ValsOver(ValsUpTo[MaxDepth - 1]) /\ ValsUpTo[MaxDepth - 1] \subseteq Vals
  BY <1>1, <1>2, ValLevelIs, ValLevelsGrow DEF Vals, Grows
<1>4. Terms = TermsOver(TermsUpTo[MaxDepth]) /\ TermsUpTo[MaxDepth] \subseteq Terms
  BY <1>1, <1>2, TermLevelIs, TermLevelsGrow DEF Terms, Grows
<1>5. TermsUpTo[MaxDepth] = TermsOver(TermsUpTo[MaxDepth - 1])
  BY <1>1, <1>2, TermLevelIs
<1> QED
  BY <1>3, <1>4, <1>5

\* The converter of instance.rs lets through what is of the type.
LEMMA CoreConverted ==
  ASSUME NEW ty \in Types, NEW t \in Terms, DecodeTermAsWasmValue(ty, t) # Err
  PROVE  DecodeTermAsWasmValue(ty, t) \in Vals /\ HasType[ty][DecodeTermAsWasmValue(ty, t)]
<1> DEFINE v == DecodeTermAsWasmValue(ty, t)
<1>1. PICK S : Vals = ValsOver(S)
  BY Leaves
<1>2. Kind(t) = "integer" => Body(t) \in Int
  BY TermsOfTerms, TermShape
<1>3. Kind(t) = "float" => Body(t) \in Floats
  BY TermsOfTerms, TermShape
<1>4. CASE Kind(ty) \in DOMAIN CoreRange
  <2>1. v = DecodeInt(t, CoreRange[Kind(ty)][1], CoreRange[Kind(ty)][2])
    BY <1>4, CoreRangeType DEF DecodeTermAsWasmValue
  <2>2. v = <<"int", Body(t)>> /\ Kind(t) = "integer" /\ Body(t) \in CoreRange[Kind(ty)][1]..CoreRange[Kind(ty)][2]
    BY <2>1 DEF DecodeInt
  <2>3. v \in Vals
    BY <1>1, <1>2, <2>2, BuildVals
  <2>4. Kind(v) = "int" /\ Body(v) = Body(t)
    BY <2>2 DEF Kind, Body
  <2> HIDE DEF v
  <2>5. Fits(HasType, ty, v)
    BY <1>4, <2>2, <2>4, CoreRangeType DEF Fits
  <2> QED
    BY <2>3, <2>5, HasTypeIs DEF v
<1>5. CASE Kind(ty) \in {"f32", "f64"}
  <2>1. v = DecodeFloat(t, Kind(ty))
    BY <1>5, CoreRangeType DEF DecodeTermAsWasmValue
  <2>2. Kind(t) = "float" /\ Body(t) \in {"short", "rounded", "precise", "huge"}
    BY <1>3, <2>1 DEF DecodeFloat, Floats
  <2>3. /\ Kind(ty) = "f64" => v = <<"double", Body(t)>>
        /\ Kind(ty) = "f32" => v \in {<<"single", "short">>, <<"single", "rounded">>}
    BY <2>1, <2>2 DEF DecodeFloat
  <2>4. \A s \in {"short", "rounded"} : <<"single", s>> \in Vals
    BY <1>1, BuildVals
  <2>5. <<"double", Body(t)>> \in Vals
    BY <1>1, <1>3, <2>2, BuildVals
  <2>6. v \in Vals
    BY <1>5, <2>3, <2>4, <2>5
  <2>7. Kind(v) = IF Kind(ty) = "f32" THEN "single" ELSE "double"
    BY <1>5, <2>3 DEF Kind
  <2> HIDE DEF v
  <2>8. Fits(HasType, ty, v)
    BY <1>5, <2>7, CoreRangeType DEF Fits
  <2> QED
    BY <2>6, <2>8, HasTypeIs DEF v
<1>6. CASE Kind(ty) \notin DOMAIN CoreRange \cup {"f32", "f64"}
  BY <1>6 DEF DecodeTermAsWasmValue
<1> QED
  BY <1>4, <1>5, <1>6

\* And undoes the encoders.
LEMMA CoreBack ==
  ASSUME NEW ty \in Types, Kind(ty) \in CoreKinds \ {"ref"}, NEW v \in Vals, HasType[ty][v]
  PROVE  DecodeTermAsWasmValue(ty, EncodeParam(v)) = v
<1> DEFINE t == EncodeParam(v)
<1>1. Fits(HasType, ty, v) /\ v \in ValsOver(Vals)
  BY HasTypeIs, ValsOfVals
<1>2. v = <<Kind(v), Body(v)>> /\ (Kind(v) = "single" => Body(v) \in {"short", "rounded"})
  BY <1>1, ValShape
<1>3. CASE Kind(ty) \in DOMAIN CoreRange
  <2>1. Kind(v) = "int" /\ Body(v) \in CoreRange[Kind(ty)][1]..CoreRange[Kind(ty)][2]
    BY <1>1, <1>3, CoreRangeType DEF Fits
  <2>2. t = <<"integer", Body(v)>>
    BY <2>1 DEF EncodeParam
  <2>3. Kind(t) = "integer" /\ Body(t) = Body(v)
    BY <2>2 DEF Kind, Body
  <2> HIDE DEF t
  <2> QED
    BY <1>2, <1>3, <2>1, <2>3, CoreRangeType DEF DecodeTermAsWasmValue, DecodeInt, t
<1>4. CASE Kind(ty) \in {"f32", "f64"}
  <2>1. Kind(v) = IF Kind(ty) = "f32" THEN "single" ELSE "double"
    BY <1>1, <1>4, CoreRangeType DEF Fits
  <2>2. t = <<"float", Body(v)>>
    BY <2>1 DEF EncodeParam
  <2>3. Kind(t) = "float" /\ Body(t) = Body(v)
    BY <2>2 DEF Kind, Body
  <2> HIDE DEF t
  <2>4. DecodeFloat(t, Kind(ty)) = v
    BY <1>2, <1>4, <2>1, <2>3 DEF DecodeFloat
  <2>5. DecodeTermAsWasmValue(ty, t) = DecodeFloat(t, Kind(ty))
    BY <1>4, CoreRangeType DEF DecodeTermAsWasmValue
  <2> QED
    BY <2>4, <2>5 DEF t
<1> QED
  BY <1>3, <1>4, CoreRangeType DEF CoreKinds

\* A core value is encoded as a term, a reference as an error.
LEMMA EncodeParamType == \A v \in Vals : EncodeParam(v) \in Terms
<1> SUFFICES ASSUME NEW v \in Vals PROVE EncodeParam(v) \in Terms
  OBVIOUS
<1>1. PICK S \in SUBSET Terms : Terms = TermsOver(S) /\ \E R : S = TermsOver(R)
  BY Leaves
<1>2. /\ Kind(v) = "int" => Body(v) \in Int
      /\ Kind(v) \in {"single", "double"} => Body(v) \in Floats
  BY ValsOfVals, ValShape DEF Floats
<1>3. CASE Kind(v) \in {"int", "single", "double"}
  BY <1>1, <1>2, <1>3, BuildTerms DEF EncodeParam
<1>4. CASE Kind(v) \notin {"int", "single", "double"}
  <2>1. Atom("error") \in S /\ <<"binary", "unable_to_convert">> \in S
    BY <1>1, TextsType, BuildTerms
  <2>2. <<Atom("error"), <<"binary", "unable_to_convert">>>> \in Seq(S)
    BY <2>1
  <2> QED
    BY <1>1, <1>4, <2>2, BuildTerms DEF EncodeParam
<1> QED
  BY <1>3, <1>4

-----------------------------------------------------------------------------
(* The journey.                                                             *)

\* Converted arguments are an error or values, one for each that was converted.
LEMMA ArgsType ==
  ASSUME NEW n \in Nat, NEW vs \in [1..n -> Vals \cup {Err}], Collect("args", vs) # Err
  PROVE  /\ Body(Collect("args", vs)) = vs /\ vs \in Seq(Vals) /\ Len(vs) = n
         /\ \A i \in 1..n : vs[i] \in Vals /\ vs[i] # Err
<1>1. Err \notin Range(vs) /\ vs \in Seq(Vals) /\ Collect("args", vs) = <<"args", vs>>
  BY CollectType
<1>2. Body(<<"args", vs>>) = vs
  BY DEF Body
<1>3. Len(vs) = n
  BY <1>1
<1>4. \A i \in 1..n : vs[i] \in Vals /\ vs[i] # Err
  BY <1>1, ErrIsNone DEF Range
<1> QED
  BY <1>1, <1>2, <1>3, <1>4

\* What instance.rs converts has the types of the signature.
LEMMA CoreArgs ==
  ASSUME NEW tys \in Seq(Types), NEW ts \in Seq(Terms), DecodeFunctionParamTerms(tys, ts) # Err
  PROVE  LET vs == Body(DecodeFunctionParamTerms(tys, ts))
         IN  vs \in Seq(Vals) /\ HaveTypes(vs, tys)
<1> DEFINE vs == [i \in 1..Len(tys) |-> DecodeTermAsWasmValue(tys[i], ts[i])]
<1>1. Len(tys) = Len(ts) /\ DecodeFunctionParamTerms(tys, ts) = Collect("args", vs)
  BY DEF DecodeFunctionParamTerms
<1>2. Len(tys) \in Nat /\ \A i \in 1..Len(tys) : tys[i] \in Types /\ ts[i] \in Terms
  BY <1>1
<1>3. vs \in [1..Len(tys) -> Vals \cup {Err}]
  BY <1>2, CoreConverted
<1>4. \A i \in 1..Len(tys) : vs[i] # Err => HasType[tys[i]][vs[i]]
  BY <1>2, CoreConverted
<1> HIDE DEF vs
<1>5. /\ Body(Collect("args", vs)) = vs /\ vs \in Seq(Vals) /\ Len(vs) = Len(tys)
      /\ \A i \in 1..Len(tys) : vs[i] # Err
  BY <1>1, <1>2, <1>3, ArgsType
<1>6. HaveTypes(vs, tys)
  BY <1>4, <1>5 DEF HaveTypes
<1> QED
  BY <1>1, <1>5, <1>6

\* What convert_params converts: as many as both sides have.
LEMMA ComponentArgs ==
  ASSUME NEW tys \in Seq(Types), NEW ts \in Seq(Terms), ConvertParams(tys, ts) # Err
  PROVE  LET vs == Body(ConvertParams(tys, ts))
             n  == IF Len(tys) < Len(ts) THEN Len(tys) ELSE Len(ts)
         IN  /\ vs \in Seq(Vals) /\ Len(vs) = n
             /\ \A i \in 1..n : vs[i] = TermToVal[tys[i]][ts[i]] /\ vs[i] # Err
<1> DEFINE n  == IF Len(tys) < Len(ts) THEN Len(tys) ELSE Len(ts)
           vs == [i \in 1..n |-> TermToVal[tys[i]][ts[i]]]
<1>1. ConvertParams(tys, ts) = Collect("args", vs)
  BY DEF ConvertParams, Paired
<1>2. n \in Nat /\ \A i \in 1..n : tys[i] \in Types /\ ts[i] \in Terms
  OBVIOUS
<1> HIDE DEF n
<1>3. vs \in [1..n -> Vals \cup {Err}]
  BY <1>2, ConvertedType
<1>4. \A i \in 1..n : vs[i] = TermToVal[tys[i]][ts[i]]
  OBVIOUS
<1> HIDE DEF vs
<1>5. /\ Body(Collect("args", vs)) = vs /\ vs \in Seq(Vals) /\ Len(vs) = n
      /\ \A i \in 1..n : vs[i] # Err
  BY <1>1, <1>2, <1>3, ArgsType
<1> QED
  BY <1>1, <1>4, <1>5 DEF n

\* The same for one.
LEMMA OneArg ==
  ASSUME NEW v \in Vals \cup {Err}, Collect("args", <<v>>) # Err
  PROVE  v \in Vals /\ v # Err /\ Body(Collect("args", <<v>>)) = <<v>>
<1>1. <<v>> \in [1..1 -> Vals \cup {Err}]
  OBVIOUS
<1>2. /\ Body(Collect("args", <<v>>)) = <<v>>
      /\ \A i \in 1..1 : <<v>>[i] \in Vals /\ <<v>>[i] # Err
  BY <1>1, ArgsType
<1> QED
  BY <1>2

\* A step that takes terms into Wasm: what was converted.
Typed(converted) ==
  converted # Err => /\ Body(converted) \in Seq(Vals)
                     /\ core => HaveTypes(Body(converted), signature)

\* If it has not the types, a shape was left unchecked.
Shaped(nif, converted) ==
  converted # Err /\ ~core /\ ~HaveTypes(Body(converted), signature) =>
    \/ nif = "call" /\ Len(terms) < Len(signature)
    \/ nif = "call" /\ \E i \in DOMAIN signature : \E p \in Parts[signature[i]] : LooseInCall(p)
    \/ nif = "answer" /\ \E i \in DOMAIN signature : \E p \in Parts[signature[i]] : LooseInAnswer(p)

\* What the host received from Wasm is still in the terms.
Encode(v) == IF core THEN EncodeParam(v) ELSE ValToTerm[v]
Echo ==
  /\ HaveTypes(sent, signature)
  /\ Len(terms) = Len(sent) /\ \A i \in DOMAIN sent : terms[i] = Encode(sent[i])

\* What comes back from the host is what Wasm had handed over.
Echoed(converted) ==
  ~ConvertFieldNames /\ sent # <<>> /\ Handles(signature) = {} /\ Echo =>
    converted # Err /\ Body(converted) = sent

\* All that the proofs say of such a step.
In(nif, converted) ==
  Arrive(nif, converted) /\ Typed(converted) /\ Shaped(nif, converted) /\ Echoed(converted)

\* What an echo says of each of its terms.
LEMMA EchoOf ==
  ASSUME TypeOK, NEW i \in DOMAIN sent, Handles(signature) = {}, Echo
  PROVE  /\ i \in DOMAIN signature /\ i \in DOMAIN terms /\ signature[i] \in Types /\ sent[i] \in Vals
         /\ HasType[signature[i]][sent[i]] /\ NoHandle(signature[i]) /\ terms[i] = Encode(sent[i])
         /\ Kind(signature[i]) # "ref"
<1>1. signature \in Seq(Types) /\ sent \in Seq(Vals) /\ terms \in Seq(Terms)
  BY DEF TypeOK
<1>2. /\ Len(sent) = Len(signature) /\ HasType[signature[i]][sent[i]]
      /\ Len(terms) = Len(sent) /\ terms[i] = Encode(sent[i])
  BY DEF Echo, HaveTypes
<1>3. i \in DOMAIN signature /\ i \in DOMAIN terms /\ signature[i] \in Types /\ sent[i] \in Vals
  BY <1>1, <1>2
<1>4. NoHandle(signature[i])
  BY <1>3 DEF Handles, NoHandle
<1>5. signature[i] \in Parts[signature[i]]
  BY <1>3, PartsIs
<1> QED
  BY <1>2, <1>3, <1>4, <1>5 DEF NoHandle

\* The arguments of a core function.
LEMMA CoreIn ==
  ASSUME TypeOK, core
  PROVE  LET c == DecodeFunctionParamTerms(signature, terms) IN Typed(c) /\ Echoed(c)
<1> DEFINE c == DecodeFunctionParamTerms(signature, terms)
<1>1. signature \in Seq(Types) /\ terms \in Seq(Terms) /\ sent \in Seq(Vals)
  BY DEF TypeOK
<1>2. Typed(c)
  BY <1>1, CoreArgs DEF Typed
<1>3. ASSUME Handles(signature) = {}, Echo PROVE c # Err /\ Body(c) = sent
  <2> DEFINE vs == [i \in DOMAIN signature |-> DecodeTermAsWasmValue(signature[i], terms[i])]
  <2>1. Len(signature) = Len(terms) /\ Len(signature) = Len(sent)
    BY <1>3 DEF Echo, HaveTypes
  <2>2. c = Collect("args", vs)
    BY <2>1 DEF DecodeFunctionParamTerms
  <2>3. ASSUME NEW i \in DOMAIN sent PROVE DecodeTermAsWasmValue(signature[i], terms[i]) = sent[i]
    <3>1. /\ i \in DOMAIN signature /\ signature[i] \in Types /\ sent[i] \in Vals
          /\ HasType[signature[i]][sent[i]] /\ terms[i] = Encode(sent[i]) /\ Kind(signature[i]) # "ref"
      BY <1>3, EchoOf
    <3>2. Kind(signature[i]) \in CoreKinds /\ terms[i] = EncodeParam(sent[i])
      BY <3>1 DEF TypeOK, Uniform, Encode
    <3> QED
      BY <3>1, <3>2, CoreBack
  <2>4. DOMAIN signature = DOMAIN sent
    BY <1>1, <2>1
  <2>5. vs = sent
    BY <1>1, <2>3, <2>4
  <2>6. Err \notin Range(sent)
    BY <1>1, ErrIsNone DEF Range
  <2> HIDE DEF vs
  <2>7. c = <<"args", sent>>
    BY <2>2, <2>5, <2>6 DEF Collect
  <2> HIDE DEF c
  <2> QED
    BY <2>7 DEF Body, Err
<1> QED
  BY <1>2, <1>3 DEF Echoed

\* A call, of a core or a component function, takes terms in as In says.
LEMMA CallIn ==
  ASSUME TypeOK, CallFunction
  PROVE  \E c : In("call", c)
<1> DEFINE args == MaybeConvertArgs(terms)
           c    == IF core THEN DecodeFunctionParamTerms(signature, terms)
                   ELSE ConvertParams(signature, args)
<1>1. signature \in Seq(Types) /\ terms \in Seq(Terms) /\ sent \in Seq(Vals)
  BY DEF TypeOK
<1>2. args \in Seq(Terms) /\ Len(args) = Len(terms) /\ (~ConvertFieldNames => args = terms)
  BY <1>1, NamesType DEF MaybeConvertArgs
<1>3. Arrive("call", c)
  BY DEF CallFunction
<1>4. CASE core
  <2>1. c = DecodeFunctionParamTerms(signature, terms)
    BY <1>4
  <2> HIDE DEF c
  <2>2. Typed(c) /\ Echoed(c) /\ Shaped("call", c)
    BY <1>4, <2>1, CoreIn DEF Shaped
  <2> QED
    BY <1>3, <2>2 DEF In
<1>5. CASE ~core
  <2> DEFINE vs == Body(ConvertParams(signature, args))
             n  == IF Len(signature) < Len(args) THEN Len(signature) ELSE Len(args)
  <2>1. c = ConvertParams(signature, args)
    BY <1>5
  <2> HIDE DEF c, args
  <2>2. c # Err => /\ vs \in Seq(Vals) /\ Len(vs) = n
                   /\ \A i \in 1..n : vs[i] = TermToVal[signature[i]][args[i]] /\ vs[i] # Err
    BY <1>1, <1>2, <2>1, ComponentArgs
  <2>3. Body(c) = vs
    BY <2>1
  <2>4. Typed(c)
    BY <1>5, <2>2, <2>3 DEF Typed
  <2> HIDE DEF vs
  <2>5. ASSUME c # Err, ~HaveTypes(vs, signature), ~(Len(terms) < Len(signature))
        PROVE  \E i \in DOMAIN signature : \E p \in Parts[signature[i]] : LooseInCall(p)
    <3>1. n = Len(signature) /\ DOMAIN signature = 1..n
      BY <1>1, <1>2, <2>5
    <3> HIDE DEF n
    <3>2. PICK i \in 1..n : ~HasType[signature[i]][vs[i]]
      BY <2>2, <2>5, <3>1 DEF HaveTypes
    <3>3. signature[i] \in Types /\ args[i] \in Terms
      BY <1>1, <1>2, <2>5, <3>1
    <3>4. \E p \in Parts[signature[i]] : LooseInCall(p)
      BY <2>2, <2>5, <3>2, <3>3, ConvertedFits
    <3> QED
      BY <3>1, <3>4
  <2>6. Shaped("call", c)
    BY <2>3, <2>5 DEF Shaped
  <2>7. ASSUME ~ConvertFieldNames, sent # <<>>, Handles(signature) = {}, Echo
        PROVE  c # Err /\ Body(c) = sent
    <3>1. Len(signature) = Len(args) /\ Len(signature) = Len(sent) /\ args = terms
      BY <1>2, <2>7 DEF Echo, HaveTypes
    <3>2. /\ n = Len(sent) /\ DOMAIN sent = 1..n
          /\ Paired(signature, args) = DOMAIN sent
      BY <1>1, <3>1 DEF Paired
    <3> HIDE DEF n
    <3>3. \A i \in DOMAIN signature : Kind(signature[i]) \notin CoreKinds
      BY <1>1, <1>5, <2>7, <3>1 DEF TypeOK, Uniform
    <3>4. ASSUME NEW i \in DOMAIN sent PROVE TermToVal[signature[i]][args[i]] = sent[i]
      <4>1. /\ i \in DOMAIN signature /\ signature[i] \in Types /\ sent[i] \in Vals
            /\ HasType[signature[i]][sent[i]] /\ NoHandle(signature[i]) /\ terms[i] = Encode(sent[i])
        BY <2>7, EchoOf
      <4>2. args[i] = ValToTerm[sent[i]]
        BY <1>5, <3>1, <4>1 DEF Encode
      <4> QED
        BY <3>3, <4>1, <4>2, ValuesBack
    <3> DEFINE ws == [i \in Paired(signature, args) |-> TermToVal[signature[i]][args[i]]]
    <3>5. ws = sent
      BY <1>1, <3>2, <3>4
    <3>6. Err \notin Range(sent)
      BY <1>1, ErrIsNone DEF Range
    <3>7. c = Collect("args", ws)
      BY <2>1 DEF ConvertParams
    <3> HIDE DEF ws
    <3>8. c = <<"args", sent>>
      BY <3>5, <3>6, <3>7 DEF Collect
    <3> QED
      BY <3>8 DEF Body, Err
  <2>8. Echoed(c)
    BY <2>7 DEF Echoed
  <2> QED
    BY <1>3, <2>4, <2>6, <2>8 DEF In, c
<1> QED
  BY <1>4, <1>5

\* So does the result of an imported core function,
LEMMA CallbackResultIn ==
  ASSUME TypeOK, ReceiveCallbackResult
  PROVE  \E c : In("answer", c)
<1> DEFINE c == DecodeFunctionParamTerms(signature, terms)
<1>1. Arrive("answer", c) /\ core
  BY DEF ReceiveCallbackResult
<1>2. Typed(c) /\ Echoed(c) /\ Shaped("answer", c)
  BY <1>1, CoreIn DEF Shaped
<1> QED
  BY <1>1, <1>2 DEF In

\* that of an imported component function,
LEMMA ReturnValuesIn ==
  ASSUME TypeOK, ConvertReturnValues
  PROVE  \E c : In("answer", c)
<1> DEFINE v == ResultToVal[signature[1]][terms[1]]
           c == IF signature = <<>> THEN <<"args", <<>>>> ELSE Collect("args", <<v>>)
<1>1. signature \in Seq(Types) /\ terms \in Seq(Terms) /\ sent \in Seq(Vals)
  BY DEF TypeOK
<1>2. Arrive("answer", c) /\ ~core /\ Len(signature) <= 1 /\ Len(terms) = 1
  BY DEF ConvertReturnValues
<1>3. CASE signature = <<>>
  <2>1. c = <<"args", <<>>>>
    BY <1>3
  <2> HIDE DEF c
  <2>2. Body(c) = <<>> /\ <<>> \in Seq(Vals)
    BY <2>1 DEF Body
  <2>3. HaveTypes(<<>>, signature)
    BY <1>3 DEF HaveTypes
  <2>4. Echo => sent = <<>>
    BY <1>1, <1>3 DEF Echo, HaveTypes
  <2>5. Typed(c) /\ Shaped("answer", c) /\ Echoed(c)
    BY <1>2, <2>2, <2>3, <2>4 DEF Typed, Shaped, Echoed
  <2> QED
    BY <1>2, <2>5 DEF In, c
<1>4. CASE signature # <<>>
  <2>1. Len(signature) = 1 /\ signature = <<signature[1]>> /\ signature[1] \in Types /\ terms[1] \in Terms
    BY <1>1, <1>2, <1>4
  <2>2. v \in Vals \cup {Err}
    BY <2>1, ConvertedType
  <2>3. c = Collect("args", <<v>>)
    BY <1>4
  <2> HIDE DEF c
  <2>4. c # Err => v \in Vals /\ v # Err /\ Body(c) = <<v>>
    BY <2>2, <2>3, OneArg
  <2>5. Typed(c)
    <3>1. c # Err => Body(c) \in Seq(Vals)
      BY <2>4
    <3> QED
      BY <1>2, <3>1 DEF Typed
  <2>6. ASSUME c # Err, ~HaveTypes(Body(c), signature)
        PROVE  \E i \in DOMAIN signature : \E p \in Parts[signature[i]] : LooseInAnswer(p)
    <3>1. Len(<<v>>) = 1 /\ DOMAIN <<v>> = {1} /\ <<v>>[1] = v /\ 1 \in DOMAIN signature
      BY <1>1, <2>1
    <3>2. ~HasType[signature[1]][v]
      BY <2>1, <2>4, <2>6, <3>1 DEF HaveTypes
    <3>3. \E p \in Parts[signature[1]] : LooseInAnswer(p)
      BY <2>1, <2>4, <2>6, <3>2, ConvertedFits
    <3> QED
      BY <3>1, <3>3
  <2>7. Shaped("answer", c)
    BY <2>6 DEF Shaped
  <2>8. ASSUME sent # <<>>, Handles(signature) = {}, Echo
        PROVE  c # Err /\ Body(c) = sent
    <3>1. Len(sent) = 1 /\ sent = <<sent[1]>> /\ 1 \in DOMAIN sent
      BY <1>1, <2>1, <2>8 DEF Echo, HaveTypes
    <3>2. /\ 1 \in DOMAIN signature /\ sent[1] \in Vals
          /\ HasType[signature[1]][sent[1]] /\ NoHandle(signature[1]) /\ terms[1] = Encode(sent[1])
      BY <2>8, <3>1, EchoOf
    <3>3. Kind(signature[1]) \notin CoreKinds
      BY <1>1, <1>2, <1>4, <2>8, <3>2 DEF TypeOK, Uniform
    <3>4. v = sent[1]
      BY <1>2, <2>1, <3>2, <3>3, ValuesBack DEF Encode
    <3>5. v # Err /\ <<v>> = sent
      BY <3>1, <3>2, <3>4, ErrIsNone
    <3>6. Err \notin Range(<<v>>)
      BY <3>5 DEF Range
    <3> HIDE DEF v
    <3>7. c = <<"args", sent>>
      BY <2>3, <3>5, <3>6 DEF Collect
    <3> QED
      BY <3>7 DEF Body, Err
  <2>9. Echoed(c)
    BY <2>8 DEF Echoed
  <2> QED
    BY <1>2, <2>5, <2>7, <2>9 DEF In, c
<1> QED
  BY <1>3, <1>4

\* and the value of a global.
LEMMA SetGlobalIn ==
  ASSUME TypeOK, SetGlobalValue
  PROVE  \E c : In("set", c)
<1> DEFINE c == DecodeFunctionParamTerms(signature, terms)
<1>1. core /\ Len(signature) = 1 /\ Len(terms) = 1 /\ signature \in Seq(Types)
  BY DEF SetGlobalValue, TypeOK
<1>2. [i \in DOMAIN signature |-> DecodeTermAsWasmValue(signature[i], terms[i])]
        = <<DecodeTermAsWasmValue(signature[1], terms[1])>>
  BY <1>1
<1>3. c = Collect("args", <<DecodeTermAsWasmValue(signature[1], terms[1])>>)
  BY <1>1, <1>2 DEF DecodeFunctionParamTerms
<1>4. Arrive("set", c)
  BY <1>3 DEF SetGlobalValue
<1>5. Typed(c) /\ Echoed(c) /\ Shaped("set", c)
  BY <1>1, CoreIn DEF Shaped
<1> QED
  BY <1>4, <1>5 DEF In

\* A step that hands the host some of the values Wasm holds.
Out(chosen, encoded) ==
  /\ Leave(chosen, encoded)
  /\ chosen \in Seq(DOMAIN vals) /\ encoded \in Seq(Terms)
  /\ chosen # <<>> => Len(encoded) = Len(chosen)
  /\ ~ConvertFieldNames => \A j \in DOMAIN chosen : encoded[j] = Encode(vals[chosen[j]])

\* Handing over all values by the encoder of the signature.
LEMMA AllOut ==
  ASSUME TypeOK, NEW encoded, encoded = [i \in DOMAIN vals |-> Encode(vals[i])], Leave(All, encoded)
  PROVE  Out(All, encoded)
<1>1. vals \in Seq(Vals)
  BY DEF TypeOK
<1>2. All \in Seq(DOMAIN vals) /\ Len(All) = Len(vals) /\ \A i \in DOMAIN vals : All[i] = i
  BY <1>1 DEF All
<1>3. \A i \in DOMAIN vals : Encode(vals[i]) \in Terms
  BY <1>1, ValToTermType, EncodeParamType DEF Encode
<1>4. encoded \in Seq(Terms) /\ Len(encoded) = Len(vals)
  BY <1>1, <1>3
<1>5. DOMAIN All = DOMAIN vals
  BY DEF All
<1> QED
  BY <1>2, <1>4, <1>5 DEF Out

\* The arguments of a callback are handed out as Out says,
LEMMA InvokeOut ==
  ASSUME TypeOK, InvokeCallback
  PROVE  \E chosen, encoded : Out(chosen, encoded)
<1> DEFINE encoded == [i \in DOMAIN vals |-> Encode(vals[i])]
<1>1. Leave(All, encoded)
  BY DEF InvokeCallback, Encode
<1> HIDE DEF encoded
<1> QED
  BY <1>1, AllOut DEF encoded

\* so are the results of a core function, unless a reference is among them,
LEMMA ReturnCoreOut ==
  ASSUME TypeOK, ReturnCore
  PROVE  \/ \E chosen, encoded : Out(chosen, encoded)
         \/ /\ at' = "refused" /\ Handles(signature) # {}
            /\ UNCHANGED <<core, by, signature, terms, vals, sent>>
<1> DEFINE encoded == [i \in DOMAIN vals |-> EncodeParam(vals[i])]
<1>1. CASE Leave(All, encoded)
  <2>1. encoded = [i \in DOMAIN vals |-> Encode(vals[i])]
    BY DEF ReturnCore, Encode
  <2> HIDE DEF encoded
  <2> QED
    BY <1>1, <2>1, AllOut
<1>2. CASE ~Leave(All, encoded)
  BY <1>2 DEF ReturnCore
<1> QED
  BY <1>1, <1>2

\* and the result of a component function.
LEMMA EncodeResultOut ==
  ASSUME TypeOK, EncodeResult
  PROVE  \E chosen, encoded : Out(chosen, encoded)
<1>1. vals \in Seq(Vals) /\ ~core
  BY DEF TypeOK, EncodeResult
<1>2. \A t \in Terms : MaybeConvertResult(t) \in Terms /\ (~ConvertFieldNames => MaybeConvertResult(t) = t)
  BY NamesType DEF MaybeConvertResult
<1>3. CASE \E i \in DOMAIN vals : Leave(<<i>>, <<MaybeConvertResult(ValToTerm[vals[i]])>>)
  <2>1. PICK i \in DOMAIN vals : Leave(<<i>>, <<MaybeConvertResult(ValToTerm[vals[i]])>>)
    BY <1>3
  <2> DEFINE t == MaybeConvertResult(ValToTerm[vals[i]])
  <2>2. ValToTerm[vals[i]] \in Terms
    BY <1>1, ValToTermType
  <2>3. t \in Terms /\ (~ConvertFieldNames => t = Encode(vals[i]))
    BY <1>1, <1>2, <2>2 DEF Encode
  <2>4. Leave(<<i>>, <<t>>)
    BY <2>1
  <2> HIDE DEF t
  <2>5. <<i>> \in Seq(DOMAIN vals) /\ <<t>> \in Seq(Terms) /\ Len(<<t>>) = Len(<<i>>)
    BY <2>3
  <2>6. DOMAIN <<i>> = {1} /\ <<i>>[1] = i /\ <<t>>[1] = t
    OBVIOUS
  <2>7. Out(<<i>>, <<t>>)
    BY <2>3, <2>4, <2>5, <2>6 DEF Out
  <2> QED
    BY <2>7
<1>4. CASE Leave(<<>>, <<MaybeConvertResult(<<"list", <<>>>>)>>)
  <2> DEFINE t == MaybeConvertResult(<<"list", <<>>>>)
  <2>1. <<"list", <<>>>> \in Terms
    <3>1. PICK S \in SUBSET Terms : Terms = TermsOver(S)
      BY Leaves
    <3>2. <<>> \in Seq(S)
      OBVIOUS
    <3> QED
      BY <3>1, <3>2, BuildTerms
  <2>2. t \in Terms
    BY <1>2, <2>1
  <2> HIDE DEF t
  <2>3. <<>> \in Seq(DOMAIN vals) /\ <<t>> \in Seq(Terms) /\ DOMAIN <<>> = {}
    BY <2>2
  <2>4. Out(<<>>, <<t>>)
    BY <1>4, <2>3 DEF Out, t
  <2> QED
    BY <2>4
<1> QED
  BY <1>3, <1>4 DEF EncodeResult

\* Every step takes terms in, hands values out, or refuses references.
LEMMA Steps ==
  ASSUME TypeOK, Next
  PROVE  \/ \E nif \in {"call", "answer", "set"} : \E converted : In(nif, converted)
         \/ \E chosen, encoded : Out(chosen, encoded)
         \/ /\ at' = "refused" /\ Handles(signature) # {}
            /\ UNCHANGED <<core, by, signature, terms, vals, sent>>
<1>1. CASE CallFunction
  BY <1>1, CallIn
<1>2. CASE ReceiveCallbackResult
  BY <1>2, CallbackResultIn
<1>3. CASE ConvertReturnValues
  BY <1>3, ReturnValuesIn
<1>4. CASE SetGlobalValue
  BY <1>4, SetGlobalIn
<1>5. CASE InvokeCallback
  BY <1>5, InvokeOut
<1>6. CASE ReturnCore \/ GetGlobalValue
  BY <1>6, ReturnCoreOut DEF GetGlobalValue
<1>7. CASE EncodeResult
  BY <1>7, EncodeResultOut
<1> QED
  BY <1>1, <1>2, <1>3, <1>4, <1>5, <1>6, <1>7 DEF Next

\* What is chosen of well-typed values is well-typed.
LEMMA ChosenHaveTypes ==
  ASSUME NEW tys \in Seq(Types), NEW vs \in Seq(Vals), HaveTypes(vs, tys), NEW chosen \in Seq(DOMAIN vs)
  PROVE  LET ts == [j \in DOMAIN chosen |-> tys[chosen[j]]]
             ws == [j \in DOMAIN chosen |-> vs[chosen[j]]]
         IN  /\ ts \in Seq(Types) /\ ws \in Seq(Vals) /\ HaveTypes(ws, ts)
             /\ Len(ts) = Len(chosen) /\ Len(ws) = Len(chosen)
<1> DEFINE ts == [j \in DOMAIN chosen |-> tys[chosen[j]]]
           ws == [j \in DOMAIN chosen |-> vs[chosen[j]]]
<1>1. Len(vs) = Len(tys) /\ \A i \in DOMAIN vs : HasType[tys[i]][vs[i]]
  BY DEF HaveTypes
<1>2. \A j \in DOMAIN chosen : chosen[j] \in DOMAIN vs
  OBVIOUS
<1>3. \A i \in DOMAIN vs : tys[i] \in Types /\ vs[i] \in Vals
  BY <1>1
<1>4. ts \in Seq(Types) /\ ws \in Seq(Vals) /\ Len(ts) = Len(chosen) /\ Len(ws) = Len(chosen)
  <2>1. \A j \in 1..Len(chosen) : tys[chosen[j]] \in Types /\ vs[chosen[j]] \in Vals
    BY <1>2, <1>3
  <2>2. Len(chosen) \in Nat /\ DOMAIN chosen = 1..Len(chosen)
    OBVIOUS
  <2>3. ts \in Seq(Types) /\ Len(ts) = Len(chosen)
    BY <2>1, <2>2
  <2>4. ws \in Seq(Vals) /\ Len(ws) = Len(chosen)
    BY <2>1, <2>2
  <2> QED
    BY <2>3, <2>4
<1>5. \A j \in DOMAIN ws : HasType[ts[j]][ws[j]]
  BY <1>1, <1>2
<1> HIDE DEF ts, ws
<1>6. HaveTypes(ws, ts)
  BY <1>4, <1>5 DEF HaveTypes
<1> QED
  BY <1>4, <1>6 DEF ts, ws

\* What is chosen of core values is core, of a component's values a component's.
LEMMA ChosenSort ==
  ASSUME TypeOK, NEW chosen \in Seq(DOMAIN vals), NEW encoded, Leave(chosen, encoded)
  PROVE  core' = core /\ Uniform'
<1>1. signature \in Seq(Types) /\ vals \in Seq(Vals) /\ Len(vals) = Len(signature)
  BY DEF TypeOK, Leave, HaveTypes
<1>2. core' = core /\ signature' = [j \in DOMAIN chosen |-> signature[chosen[j]]]
  BY DEF Leave
<1>3. \A j \in DOMAIN chosen : chosen[j] \in DOMAIN signature
  BY <1>1
<1>4. \A i \in DOMAIN signature : core <=> Kind(signature[i]) \in CoreKinds
  BY DEF TypeOK, Uniform
<1> HIDE DEF Kind
<1>5. DOMAIN signature' = DOMAIN chosen /\ \A j \in DOMAIN chosen : signature'[j] = signature[chosen[j]]
  BY <1>2
<1> QED
  BY <1>2, <1>3, <1>4, <1>5 DEF Uniform

\* The type invariant of Values, inductive as it is: what the converters of
\* component_type_conversion.rs and instance.rs make of any term is a value, and
\* what Wasm holds has the types of its signature.
THEOREM TypeCorrect == Spec => []TypeOK
<1>1. Init => TypeOK
  <2> SUFFICES ASSUME Init PROVE TypeOK
    OBVIOUS
  <2>0. core \in BOOLEAN /\ Uniform
    BY DEF Init
  <2>1. CASE at = "host"
    <3>1. signature \in Seq(Types) /\ terms \in Seq(Terms) /\ vals = <<>> /\ sent = <<>> /\ by = "call"
      BY <2>1, SignaturesType, ArgumentsType DEF Init
    <3> QED
      BY <2>0, <2>1, <3>1 DEF TypeOK
  <2>2. CASE at = "wasm"
    <3>1. PICK h \in {<<"ref", "r">>, <<"resource", "r">>} : signature = <<h>> /\ vals = <<h>>
      BY <2>2 DEF Init
    <3>2. terms = <<>> /\ sent = <<>> /\ by = "call"
      BY <2>2 DEF Init
    <3>3. h \in Types /\ Kind(h) \in {"ref", "resource"}
      BY TypesType DEF Kind
    <3>4. h \in Vals
      BY Leaves DEF ValsOver
    <3>5. Fits(HasType, h, h)
      BY <3>3, CoreRangeType DEF Fits
    <3>6. HasType[h][h]
      BY <3>3, <3>4, <3>5, HasTypeIs
    <3>7. HaveTypes(<<h>>, <<h>>)
      <4>1. Len(<<h>>) = Len(<<h>>) /\ DOMAIN <<h>> = {1} /\ <<h>>[1] = h
        OBVIOUS
      <4> QED
        BY <3>6, <4>1 DEF HaveTypes
    <3>8. <<h>> \in Seq(Types) /\ <<h>> \in Seq(Vals) /\ <<>> \in Seq(Terms) /\ <<>> \in Seq(Vals)
      BY <3>3, <3>4
    <3> QED
      BY <2>0, <2>2, <3>1, <3>2, <3>7, <3>8 DEF TypeOK
  <2> QED
    BY <2>1, <2>2 DEF Init
<1>2. TypeOK /\ [Next]_vars => TypeOK'
  <2> SUFFICES ASSUME TypeOK, [Next]_vars PROVE TypeOK'
    OBVIOUS
  <2>1. ASSUME NEW nif \in {"call", "answer", "set"}, NEW converted, In(nif, converted) PROVE TypeOK'
    <3>1. Arrive(nif, converted) /\ Typed(converted)
      BY <2>1 DEF In
    <3>2. /\ at = "host" /\ by' = nif /\ at' \in {"refused", "trapped", "wasm"}
          /\ core' = core /\ signature' = signature /\ terms' = terms /\ sent' = sent
          /\ vals' = IF at' = "wasm" THEN Body(converted) ELSE <<>>
      BY <3>1 DEF Arrive
    <3>3. at' = "wasm" => converted # Err /\ (core \/ HaveTypes(Body(converted), signature))
      BY <3>1 DEF Arrive
    <3>4. at' = "wasm" => Body(converted) \in Seq(Vals) /\ HaveTypes(Body(converted), signature)
      BY <3>1, <3>3 DEF Typed
    <3>5. vals' \in Seq(Vals) /\ (at' = "wasm" => HaveTypes(vals', signature'))
      BY <3>2, <3>4
    <3> QED
      BY <3>2, <3>5 DEF TypeOK, Uniform, HaveTypes
  <2>2. ASSUME NEW chosen, NEW encoded, Out(chosen, encoded) PROVE TypeOK'
    <3>1. /\ chosen \in Seq(DOMAIN vals) /\ encoded \in Seq(Terms)
          /\ chosen # <<>> => Len(encoded) = Len(chosen)
          /\ Leave(chosen, encoded)
      BY <2>2 DEF Out
    <3>2. /\ at = "wasm" /\ at' = "host" /\ by' = by /\ terms' = encoded /\ vals' = <<>>
          /\ signature' = [j \in DOMAIN chosen |-> signature[chosen[j]]]
          /\ sent' = [j \in DOMAIN chosen |-> vals[chosen[j]]]
      BY <3>1 DEF Leave
    <3>3. signature' \in Seq(Types) /\ sent' \in Seq(Vals) /\ Len(signature') = Len(chosen)
      BY <3>1, <3>2, ChosenHaveTypes DEF TypeOK
    <3>4. chosen = <<>> => signature' = <<>>
      BY <3>1, <3>3
    <3>5. core' = core /\ Uniform'
      BY <3>1, ChosenSort DEF TypeOK
    <3> QED
      BY <3>1, <3>2, <3>3, <3>4, <3>5 DEF TypeOK
  <2>3. CASE at' = "refused" /\ UNCHANGED <<core, by, signature, terms, vals, sent>>
    BY <2>3 DEF TypeOK, Uniform, HaveTypes
  <2>4. CASE UNCHANGED vars
    BY <2>4 DEF TypeOK, Uniform, HaveTypes, vars
  <2> QED
    BY <2>1, <2>2, <2>3, <2>4, Steps
<1> QED
  BY <1>1, <1>2, PTL DEF Spec

\* A call and a callback never disagree on what a term means: where term_to_val
\* and convert_result_term both accept a term they make the same value of it.
THEOREM OneMeaning == Spec => []ConvertersAgree
<1>1. TypeOK => ConvertersAgree
  <2> SUFFICES ASSUME TypeOK, Len(signature) = 1, Len(terms) = 1
               PROVE  Same(TermToVal[signature[1]][terms[1]], ResultToVal[signature[1]][terms[1]])
    BY DEF ConvertersAgree, Same
  <2>1. signature \in Seq(Types) /\ terms \in Seq(Terms)
    BY DEF TypeOK
  <2>2. signature[1] \in Types /\ terms[1] \in Terms
    <3>1. signature[1] \in Types
      BY <2>1
    <3>2. terms[1] \in Terms
      BY <2>1
    <3> QED
      BY <3>1, <3>2
  <2> QED
    BY <2>2, ConvertersMakeTheSame
<1> QED
  BY <1>1, TypeCorrect, PTL

\* Of the values term_to_val and convert_result_term let through, wasmtime only
\* refuses those whose shape they leave unchecked: any other mismatch between a
\* term and a type is an error of the converter, with a reason.
THEOREM OnlyShapesTrap == Spec => []TrapsOnlyOnShape
<1>1. Init => TrapsOnlyOnShape
  BY DEF Init, TrapsOnlyOnShape
<1>2. TypeOK /\ TrapsOnlyOnShape /\ [Next]_vars => TrapsOnlyOnShape'
  <2> SUFFICES ASSUME TypeOK, TrapsOnlyOnShape, [Next]_vars PROVE TrapsOnlyOnShape'
    OBVIOUS
  <2>1. ASSUME NEW nif \in {"call", "answer", "set"}, NEW converted, In(nif, converted)
        PROVE  TrapsOnlyOnShape'
    <3>1. Arrive(nif, converted) /\ Shaped(nif, converted)
      BY <2>1 DEF In
    <3>2. by' = nif /\ signature' = signature /\ terms' = terms
      BY <3>1 DEF Arrive
    <3>3. at' = "trapped" => converted # Err /\ ~core /\ ~HaveTypes(Body(converted), signature)
      BY <3>1 DEF Arrive
    <3>4. at' = "trapped" =>
            \/ nif = "call" /\ Len(terms) < Len(signature)
            \/ nif = "call" /\ \E i \in DOMAIN signature : \E p \in Parts[signature[i]] : LooseInCall(p)
            \/ nif = "answer" /\ \E i \in DOMAIN signature : \E p \in Parts[signature[i]] : LooseInAnswer(p)
      BY <3>1, <3>3 DEF Shaped
    <3> QED
      BY <3>2, <3>4 DEF TrapsOnlyOnShape, LooseInCall, LooseInAnswer
  <2>2. ASSUME NEW chosen, NEW encoded, Out(chosen, encoded) PROVE TrapsOnlyOnShape'
    BY <2>2 DEF Out, Leave, TrapsOnlyOnShape
  <2>3. CASE at' = "refused"
    BY <2>3 DEF TrapsOnlyOnShape
  <2>4. CASE UNCHANGED vars
    BY <2>4 DEF TrapsOnlyOnShape, vars
  <2> QED
    BY <2>1, <2>2, <2>3, <2>4, Steps
<1> QED
  BY <1>1, <1>2, TypeCorrect, PTL DEF Spec

\* While the host has not sent back what it received, its terms are the encoded
\* values, all by the same converter.
EchoInv ==
  sent # <<>> /\ Handles(signature) = {} =>
    /\ at \in {"host", "wasm"}
    /\ at = "host" => Echo
    /\ at = "wasm" => vals = sent

\* What the host received from Wasm and sends back, in a call or from a callback,
\* is the value Wasm had handed over, unless it holds a reference or a resource:
\* for functions that do not convert field names.  (With the default option of a
\* ComponentServer it is false, as the run field_names shows.)
THEOREM EchoReturns == ASSUME ~ConvertFieldNames PROVE Spec => []EchoComesBack
<1>1. Init => EchoInv
  BY DEF Init, EchoInv
<1>2. TypeOK /\ EchoInv /\ [Next]_vars => EchoInv'
  <2> SUFFICES ASSUME TypeOK, EchoInv, [Next]_vars PROVE EchoInv'
    OBVIOUS
  <2>1. ASSUME NEW nif \in {"call", "answer", "set"}, NEW converted, In(nif, converted) PROVE EchoInv'
    <3>1. Arrive(nif, converted) /\ Echoed(converted)
      BY <2>1 DEF In
    <3>2. at = "host" /\ signature' = signature /\ terms' = terms /\ sent' = sent
      BY <3>1 DEF Arrive
    <3>3. ASSUME sent # <<>>, Handles(signature) = {} PROVE at' = "wasm" /\ vals' = sent
      <4>1. Echo
        BY <3>2, <3>3 DEF EchoInv
      <4>2. converted # Err /\ Body(converted) = sent /\ HaveTypes(sent, signature)
        BY <3>1, <3>3, <4>1 DEF Echoed, Echo
      <4> QED
        BY <3>1, <4>2 DEF Arrive
    <3>4. Handles(signature)' = Handles(signature)
      BY <3>2 DEF Handles
    <3> QED
      BY <3>2, <3>3, <3>4 DEF EchoInv
  <2>2. ASSUME NEW chosen, NEW encoded, Out(chosen, encoded) PROVE EchoInv'
    <3>1. /\ chosen \in Seq(DOMAIN vals) /\ encoded \in Seq(Terms)
          /\ chosen # <<>> => Len(encoded) = Len(chosen)
          /\ Leave(chosen, encoded)
          /\ \A j \in DOMAIN chosen : encoded[j] = Encode(vals[chosen[j]])
      BY <2>2 DEF Out
    <3>2. /\ at = "wasm" /\ at' = "host" /\ by' = by /\ terms' = encoded /\ vals' = <<>>
          /\ signature' = [j \in DOMAIN chosen |-> signature[chosen[j]]]
          /\ sent' = [j \in DOMAIN chosen |-> vals[chosen[j]]]
      BY <3>1 DEF Leave
    <3>3. /\ signature' \in Seq(Types) /\ sent' \in Seq(Vals) /\ HaveTypes(sent', signature')
          /\ Len(signature') = Len(chosen) /\ Len(sent') = Len(chosen)
      BY <3>1, <3>2, ChosenHaveTypes DEF TypeOK
    <3>4. core' = core
      BY <3>1 DEF Leave
    <3>5. ASSUME sent' # <<>> PROVE Echo'
      <4>1. chosen # <<>> /\ DOMAIN sent' = DOMAIN chosen
        BY <3>1, <3>2, <3>3, <3>5
      <4>2. \A j \in DOMAIN sent' : terms'[j] = Encode(vals[chosen[j]]) /\ sent'[j] = vals[chosen[j]]
        BY <3>1, <3>2, <4>1
      <4>3. Len(terms') = Len(sent')
        BY <3>1, <3>2, <3>3, <4>1
      <4>4. \A j \in DOMAIN sent' : terms'[j] = Encode(sent[j])'
        BY <3>4, <4>2 DEF Encode
      <4> QED
        BY <3>3, <4>3, <4>4 DEF Echo
    <3> QED
      BY <3>2, <3>5 DEF EchoInv
  <2>3. CASE at' = "refused" /\ Handles(signature) # {} /\ UNCHANGED <<core, by, signature, terms, vals, sent>>
    BY <2>3 DEF EchoInv, Handles
  <2>4. CASE UNCHANGED vars
    BY <2>4 DEF EchoInv, Handles, Echo, Encode, HaveTypes, vars
  <2> QED
    BY <2>1, <2>2, <2>3, <2>4, Steps
<1>3. EchoInv => EchoComesBack
  BY DEF EchoInv, EchoComesBack
<1> QED
  BY <1>1, <1>2, <1>3, TypeCorrect, PTL DEF Spec
=============================================================================
