------------------------------ MODULE LinkOrder ------------------------------
(***************************************************************************)
(* The modules Wasmex.start_link hands to instance_new, and in what order  *)
(* (wasmex.ex).  A link is given under a key, an atom or a string, with a  *)
(* module and the links of its own; the entries of a map of links come in  *)
(* an order of the map's.  Keys are made names when nothing is left to do  *)
(* but to hand the links over: an atom and a string are different keys of  *)
(* one name.                                                               *)
(***************************************************************************)
EXTENDS Naturals, SequencesExt

CONSTANTS
  Names,       \* names under which modules are linked
  Keys,        \* atoms and strings given for them
  Stringify,   \* key -> its name
  Modules,
  Imports,     \* module -> the names of linked modules it imports from
  Forests,     \* what may be given as links, and as the links of a link
  Height       \* how deep links are nested

Links == [name : Names, module : Modules]
Keyed == [key : Keys, module : Modules]
Trees == [key : Keys, module : Modules, links : Forests]

ASSUME StringifyType == Stringify \in [Keys -> Names]
ASSUME ImportsType == Imports \in [Modules -> SUBSET Names]
ASSUME ForestsType == Forests \subseteq Seq(Trees)
ASSUME HeightType ==
  /\ Height \in [Forests -> Nat]
  /\ \A links \in Forests : \A i \in DOMAIN links : Height[links[i].links] < Height[links]

\* flat_map: a link, then everything below it.
Concat[ss \in Seq(Seq(Keyed))] == IF ss = <<>> THEN <<>> ELSE Head(ss) \o Concat[Tail(ss)]

Own(tree) == [key |-> tree.key, module |-> tree.module]

FlattenLinks[links \in Forests] ==
  Concat[[i \in DOMAIN links |-> <<Own(links[i])>> \o FlattenLinks[links[i].links]]]

KeysOf(links) == {links[i].key : i \in DOMAIN links}

\* Enum.uniq_by keeps the first link of a key.
UniqByKey[links \in Seq(Keyed)] ==
  IF links = <<>> THEN <<>>
  ELSE LET kept == UniqByKey[Front(links)]
       IN  IF Last(links).key \in KeysOf(kept) THEN kept ELSE Append(kept, Last(links))

\* build_compiled_links
NameOf(link) == Stringify[link.key]
Compiled(link) == [name |-> NameOf(link), module |-> link.module]
CompileLinks(links) == [i \in DOMAIN links |-> Compiled(links[i])]

\* Mutant: keys are made unique before the order is reversed.
MutCompiledLinks(links) == CompileLinks(Reverse(UniqByKey[FlattenLinks[links]]))

CompiledLinks(links) == CompileLinks(UniqByKey[Reverse(FlattenLinks[links])])
=============================================================================
