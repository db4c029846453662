------------------------------- MODULE MCValues -------------------------------
(* Small types and the terms that tell their converters apart.               *)
EXTENDS Values, TLC

U8   == <<"int", <<0, 255>>>>
Char == <<"char", "">>
Bool == <<"bool", "">>

Primitives == {U8, <<"int", <<-128, 127>>>>, Char, Bool, <<"string", "">>,
               <<"float", "f32">>, <<"float", "f64">>}

Containers(S) ==
  {<<k, t>> : k \in {"list", "option", "alias"}, t \in S}
    \cup {<<"record", "a-b" :> t @@ "c" :> U8>> : t \in S}
    \cup {<<"tuple", <<t, U8>>>> : t \in S}
    \cup {<<"result", [ok |-> t, error |-> NoType]>> : t \in S}
    \cup {<<"result", [ok |-> NoType, error |-> t]>> : t \in S}
    \cup {<<"variant", [none |-> NoType, foo |-> t]>> : t \in S}

Once  == Containers({U8, Char, Bool})
Twice == Containers(Containers({U8}) \ {<<"alias", U8>>})

ComponentTypes == Primitives \cup Once \cup Twice \cup
  {<<"enum", {"ok", "foo"}>>, <<"flags", {"a-b", "c"}>>,
   <<"result", [ok |-> NoType, error |-> NoType]>>, <<"result", [ok |-> U8, error |-> Char]>>,
   <<"resource", "r">>}

CoreTypes == {<<k, "">> : k \in {"i32", "i64", "f32", "f64", "v128"}} \cup {<<"ref", "r">>}

MCTypes == ComponentTypes \cup CoreTypes

MCDepth[ty \in MCTypes] == 1 + Max({0} \cup {MCDepth[p] : p \in Inside(ty)})

MCSignatures ==
  {<<ty>> : ty \in MCTypes}
    \cup {<<>>, <<U8, Bool>>, <<Char, <<"list", U8>>>>, <<<<"i32", "">>, <<"f32", "">>>>}

\* Scaled down: i32 to 3 bits, i64 to 4 and v128 to 5.
MCCoreRange == [i32 |-> <<-4, 3>>, i64 |-> <<-8, 7>>, v128 |-> <<0, 31>>]

MCKebab == "a_b" :> "a-b"

MCCodePoints ==
  "-" :> <<45>> @@ "_" :> <<95>> @@ "a" :> <<97>> @@ "b" :> <<98>> @@ "c" :> <<99>>
    @@ "e" :> <<101>> @@ "f" :> <<102>> @@ "i" :> <<105>> @@ "k" :> <<107>>
    @@ "l" :> <<108>> @@ "m" :> <<109>> @@ "n" :> <<110>> @@ "o" :> <<111>>
    @@ "r" :> <<114>> @@ "s" :> <<115>> @@ "t" :> <<116>> @@ "u" :> <<117>> @@ "" :> <<>>
    @@ "ab" :> <<97, 98>> @@ "a-b" :> <<97, 45, 98>> @@ "a_b" :> <<97, 95, 98>>
    @@ "foo" :> <<102, 111, 111>> @@ "none" :> <<110, 111, 110, 101>>
    @@ "ok" :> <<111, 107>> @@ "error" :> <<101, 114, 114, 111, 114>>
    @@ "some" :> <<115, 111, 109, 101>> @@ "true" :> <<116, 114, 117, 101>>
    @@ "false" :> <<102, 97, 108, 115, 101>> @@ "nil" :> <<110, 105, 108>>
    @@ "Unsupported type" :> <<63, 63>> @@ "unable_to_convert" :> <<63, 63, 63>> @@ "NUL" :> <<0>> @@ "SOH" :> <<1>>
    @@ "STX" :> <<2>> @@ "ETX" :> <<3>> @@ "EOT" :> <<4>> @@ "BEL" :> <<7>>
    @@ "BS" :> <<8>> @@ "US" :> <<31>> @@ "SP" :> <<32>> @@ "?" :> <<63>>
    @@ "DEL" :> <<127>> @@ "PAD" :> <<128>> @@ "y-umlaut" :> <<255>>
    @@ "A-macron" :> <<256>>

\* Scaled down to the characters that are texts of their own.
MCScalars == {MCCodePoints[text][1] : text \in {s \in DOMAIN MCCodePoints : Len(MCCodePoints[s]) = 1}}

Num(n) == <<"integer", n>>
Bin(s) == <<"binary", s>>

Atoms    == {Atom(s) : s \in {"ok", "error", "none", "some", "foo", "true", "false", "nil"}}
Numbers  == {Num(n) : n \in {-129, -128, -9, -8, -5, -4, -1, 0, 3, 4, 7, 8, 31, 32, 97, 127, 128,
                             255, 256, 55296, 1114112}}
              \cup {<<"float", c>> : c \in {"short", "precise", "rounded", "huge"}}
Bins     == {Bin(s) : s \in {"", "a", "ab", "none", "foo", "not UTF-8"}}
Leaves   == Atoms \cup Numbers \cup Bins

Few  == {Num(1), Bin("a"), Atom("true")}
Keys == {Atom("a-b"), Bin("a-b"), Atom("c"), Bin("c"), Atom("a_b")}

Pairs(S) == {<<"tuple", <<Atom(s), t>>>> : s \in {"ok", "error", "none", "some", "foo"}, t \in S}
Map(entries) == <<"map", <<"atom", entries>>>>
Maps(S)  == {Map({<<a, x>>, <<c, Num(1)>>}) : a \in {Atom("a-b"), Bin("a-b"), Atom("a_b")},
                                              c \in {Atom("c"), Bin("c")}, x \in S}

Nested == Pairs({Num(1)}) \cup Maps({Num(1)})
            \cup {<<"list", <<Num(1)>>>>, <<"tuple", <<Num(1), Num(2)>>>>, Atom("none"), Atom("ok")}

SomeTerms ==
  Leaves \cup Pairs(Few \cup Nested) \cup Maps(Few \cup Nested)
    \cup {<<"list", <<>>>>, <<"list", <<Num(97), Num(97)>>>>, <<"list", <<Num(1), Atom("foo")>>>>,
          <<"list", <<Num(-1)>>>>, <<"tuple", <<>>>>, <<"tuple", <<Atom("none")>>>>,
          <<"tuple", <<Bin("foo"), Num(1)>>>>, <<"tuple", <<Atom("foo"), Num(1), Num(2)>>>>}
    \cup {<<"list", <<t>>>> : t \in Few \cup Nested}
    \cup {<<"tuple", <<t, Num(1)>>>> : t \in Few \cup Nested}
    \cup {Map({<<a, v>>}) : a \in Keys, v \in {Num(1), Atom("true"), Atom("false"), Bin("foo")}}
    \cup {Map({<<Atom("a-b"), v>>, <<Bin("c"), v>>}) : v \in {Atom("true"), Atom("false")}}
    \cup {Map({})}

\* A field is given twice, and the HashMap comes to either first.
Ambiguous ==
  {<<"map", <<kind, {<<Atom("a-b"), x>>, <<Bin("a-b"), y>>, <<Atom("c"), y>>}>>>> :
     kind \in {"atom", "binary"}, x, y \in {Num(1), Num(2), Atom("true")}}

MCArguments ==
  {<<t>> : t \in SomeTerms \cup Ambiguous} \cup
    {<<>>, <<Num(1), Atom("nil")>>, <<Bin("a"), <<"list", <<Num(1)>>>>>>,
     <<Num(1), <<"float", "precise">>>>, <<Num(1), Num(2), Num(3)>>}
=============================================================================
