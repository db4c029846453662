------------------------------ MODULE MCHostNifs ------------------------------
EXTENDS HostNifsProofs, TLC
CONSTANTS main, calc, utils, greeting, s1, c1, p1

\* main imports from calc and utils, calc from utils; the start function of
\* greeting calls the host.
MCImports == main :> {"calc", "utils"} @@ calc :> {"utils"} @@ utils :> {} @@ greeting :> {}
MCStoreOf  == c1 :> s1
MCServerOf == c1 :> p1

\* The atoms and the string that links are given under.
MCKeys      == {":calc", ":utils", "utils", ":greeting"}
MCNames     == {"calc", "utils", "greeting"}
MCStringify == ":calc" :> "calc" @@ ":utils" :> "utils" @@ "utils" :> "utils"
               @@ ":greeting" :> "greeting"

Link(key, module, links) == [key |-> key, module |-> module, links |-> links]
Utils    == Link(":utils", utils, <<>>)
Strings  == Link("utils", utils, <<>>)
Calc     == Link(":calc", calc, <<Utils>>)
Greeting == Link(":greeting", greeting, <<>>)

\* A map has its entries in any order.  In the last one, utils stays twice.
MCForests == {<<>>, <<Utils>>, <<Calc, Utils>>, <<Utils, Calc>>, <<Greeting>>, <<Strings, Calc>>}
MCHeight  == [links \in MCForests |-> IF links = <<>> THEN 0 ELSE IF Calc \in Range(links) THEN 2 ELSE 1]

MCRequests ==
  {[main |-> r[1], links |-> CompiledLinks(r[2])] :
     r \in {<<main, <<Utils, Calc>>>>, <<main, <<Strings, Calc>>>>,
            <<utils, <<Greeting>>>>}}

\* The hypothesis of LinksResolve.
ASSUME Complete
=============================================================================
