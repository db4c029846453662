-------------------------------- MODULE Values --------------------------------
(***************************************************************************)
(* The conversions between Elixir terms and Wasm values.  Core Wasm has    *)
(* one converter per direction (native/wasmex/src/instance.rs,             *)
(* environment.rs).  Components have two converters from a term to a       *)
(* value, written separately: TermToVal for the arguments of a call, by    *)
(* the types of wasmtime, and ResultToVal for what a callback returns, by  *)
(* the types of the WIT parser (component_type_conversion.rs).             *)
(*                                                                         *)
(* The state machine is a journey: terms go into Wasm as the arguments of  *)
(* a call or the result of a callback, Wasm hands one of its values back   *)
(* as a result or as an argument of a callback, and the host sends what it *)
(* received into Wasm again.                                               *)
(*                                                                         *)
(* Types, terms and values are pairs <<kind, body>>.                       *)
(***************************************************************************)
EXTENDS Integers, SequencesExt

CONSTANTS
  Types,       \* of parameters and results, with every type the parts of which it is made
  Depth,       \* how deep a type is nested
  MaxDepth,
  Signatures,  \* sequences of parameter types, all core or all component
  Arguments,   \* sequences of terms the host sends
  ConvertFieldNames, \* the functions of a ComponentServer, with its default option
  Kebab,       \* Elixir name -> WIT name, for the names with an underscore
  CodePoints,  \* binary -> its code points, for the binaries that are UTF-8
  Scalars,     \* the code points that are characters
  CoreRange    \* core integer type -> <<least, greatest>>

VARIABLES
  core,        \* the functions are of core Wasm, or of a component
  at,          \* "host", "wasm", "refused" by a converter, "trapped" by wasmtime
  by,          \* the NIF that last took the terms: "call" or "answer"
  signature,   \* the types of the terms or values under way
  terms, vals,
  sent         \* the values Wasm last handed to the host, <<>> before that

vars == <<core, at, by, signature, terms, vals, sent>>

Kind(x) == x[1]
Body(x) == x[2]
Err     == <<"error">>
NoType  == <<"no type">>
Atom(s) == <<"atom", s>>

Texts     == DOMAIN CodePoints
CoreKinds == {"i32", "i64", "f32", "f64", "v128", "ref"}
Prims     == {"bool", "int", "float", "string", "char"}

\* The types a type is made of: the fields of a record, the cases of an option, a
\* result or a variant, by name; the members of a tuple.
Cases(ty) == IF Kind(ty) = "option" THEN [none |-> NoType, some |-> Body(ty)] ELSE Body(ty)
Inside(ty) ==
  CASE Kind(ty) \in {"list", "option", "alias"} -> {Body(ty)}
    [] Kind(ty) \in {"tuple", "record", "result", "variant"} -> Range(Body(ty)) \ {NoType}
    [] OTHER -> {}

IsType(ty) ==
  /\ Kind(ty) \in CoreKinds \cup Prims \cup {"list", "option", "alias", "tuple", "record", "result",
                                             "variant", "enum", "flags", "resource"}
  /\ Kind(ty) = "int"    => Body(ty) \in Int \X Int
  /\ Kind(ty) = "float"  => Body(ty) \in {"f32", "f64"}
  /\ Kind(ty) = "tuple"  => Body(ty) \in Seq(Types)
  /\ Kind(ty) = "result" => DOMAIN Body(ty) = {"ok", "error"}
  /\ Kind(ty) = "record" => Body(ty) \in [DOMAIN Body(ty) -> Types]
  /\ Kind(ty) \in {"record", "variant"} => DOMAIN Body(ty) \subseteq Texts
  /\ Kind(ty) \in {"enum", "flags"}     => Body(ty) \subseteq Texts
  /\ \A p \in Inside(ty) : p \in Types /\ Kind(p) \notin CoreKinds /\ Depth[p] < Depth[ty]

ASSUME TypesType ==
  /\ \A ty \in Types : IsType(ty)
  /\ {<<"ref", "r">>, <<"resource", "r">>} \subseteq Types
  /\ MaxDepth \in Nat /\ Depth \in [Types -> 1..MaxDepth]
ASSUME SignaturesType == Signatures \subseteq Seq(Types)
ASSUME ScalarsType == \A c \in Scalars : c \in 0..1114111 /\ c \notin 55296..57343
\* Each character is a text of its own, and so is what the code itself spells.
ASSUME CodePointsType ==
  /\ CodePoints \in [Texts -> Seq(Scalars)]
  /\ \A c \in Scalars : \E text \in Texts : CodePoints[text] = <<c>>
  /\ {"nil", "true", "false", "none", "some", "ok", "error"} \subseteq Texts
  /\ {"Unsupported type", "unable_to_convert"} \subseteq Texts
  /\ Texts \subseteq STRING
ASSUME KebabType ==
  DOMAIN Kebab \subseteq Texts /\ Range(Kebab) \subseteq Texts /\ ConvertFieldNames \in BOOLEAN
ASSUME CoreRangeType ==
  /\ DOMAIN CoreRange = {"i32", "i64", "v128"}
  /\ \A kind \in DOMAIN CoreRange : CoreRange[kind] \in Int \X Int

\* Terms and values by how deep they are nested.  Floats are told apart by how
\* much of a double they need.  A map is its entries and the kind of the keys its
\* HashMap comes to first.
Floats == {"short", "rounded", "precise", "huge"}

TermsOver(S) ==
  ({"integer"} \X Int) \cup ({"float"} \X Floats) \cup ({"atom"} \X Texts) \cup ({"binary"} \X STRING)
    \cup ({"list", "tuple"} \X Seq(S))
    \cup ({"map"} \X ({"atom", "binary"} \X SUBSET (S \X S)))
TermsUpTo[n \in Nat] == IF n = 0 THEN {} ELSE TermsOver(TermsUpTo[n - 1])
Terms == TermsUpTo[MaxDepth + 1]

ASSUME ArgumentsType == Arguments \subseteq Seq(Terms)

ValsOver(S) ==
  ({"int"} \X Int) \cup ({"single"} \X {"short", "rounded"}) \cup ({"double"} \X Floats)
    \cup ({"bool"} \X BOOLEAN) \cup ({"string", "enum"} \X Texts) \cup ({"char"} \X Scalars)
    \cup ({"ref", "resource"} \X {"r"}) \cup ({"flags"} \X SUBSET Texts)
    \cup ({"list", "tuple"} \X Seq(S)) \cup ({"record"} \X SUBSET (Texts \X S))
    \cup ({"option", "result", "variant"} \X (Texts \X Seq(S)))
ValsUpTo[n \in Nat] == IF n = 0 THEN {} ELSE ValsOver(ValsUpTo[n - 1])
Vals == ValsUpTo[MaxDepth]

\* `?` on the members of a collection: one failure fails the whole.
Collect(kind, vs) == IF Err \in Range(vs) THEN Err ELSE <<kind, vs>>
\* A record is the set of its named values.
CollectFields(vs) ==
  IF Err \in Range(vs) THEN Err ELSE <<"record", {<<name, vs[name]>> : name \in DOMAIN vs}>>
\* A payload is a sequence of no or one value.
Payload(kind, tag, v) == IF v = Err THEN Err ELSE <<kind, <<tag, <<v>>>>>>

-----------------------------------------------------------------------------
(* Core Wasm: instance.rs and environment.rs.                               *)

DecodeInt(t, lo, hi) ==
  IF Kind(t) = "integer" /\ Body(t) \in lo..hi THEN <<"int", Body(t)>> ELSE Err

\* Floats by how much of a double they need: f32 rounds and does not overflow.
DecodeFloat(t, size) ==
  IF Kind(t) # "float" \/ (size = "f32" /\ Body(t) = "huge") THEN Err
  ELSE IF size = "f64" THEN <<"double", Body(t)>>
  ELSE <<"single", IF Body(t) = "precise" THEN "rounded" ELSE Body(t)>>

\* A v128 is an unsigned integer of at most 16 bytes.  References never come in.
DecodeTermAsWasmValue(ty, t) ==
  CASE Kind(ty) \in DOMAIN CoreRange -> DecodeInt(t, CoreRange[Kind(ty)][1], CoreRange[Kind(ty)][2])
    [] Kind(ty) \in {"f32", "f64"}   -> DecodeFloat(t, Kind(ty))
    [] OTHER                         -> Err

\* Mutant: the terms are zipped with the types, as in ConvertParams.
MutDecodeFunctionParamTerms(tys, ts) ==
  Collect("args", [i \in 1..(IF Len(tys) < Len(ts) THEN Len(tys) ELSE Len(ts)) |->
                     DecodeTermAsWasmValue(tys[i], ts[i])])

DecodeFunctionParamTerms(tys, ts) ==
  IF Len(tys) # Len(ts) THEN Err
  ELSE Collect("args", [i \in DOMAIN tys |-> DecodeTermAsWasmValue(tys[i], ts[i])])

\* Integers and floats are encoded as they are; a reference as {:error, reason}.
EncodeParam(v) ==
  CASE Kind(v) = "int"                -> <<"integer", Body(v)>>
    [] Kind(v) \in {"single", "double"} -> <<"float", Body(v)>>
    [] OTHER -> <<"tuple", <<Atom("error"), <<"binary", "unable_to_convert">>>>>>

-----------------------------------------------------------------------------
(* Component arguments: term_to_val.                                        *)

\* A converter calls itself, as conv, for what is inside: type -> (term -> value).

IsUtf8(t)   == Kind(t) = "binary" /\ Body(t) \in Texts
IsTruthy(t) == t \notin {Atom("nil"), Atom("false")}

DecodeString(t) == IF IsUtf8(t) THEN <<"string", Body(t)>> ELSE Err

\* The code points a term offers for a char: an integer, a binary, a charlist.
Chars(t) ==
  CASE Kind(t) = "integer" -> <<Body(t)>>
    [] Kind(t) = "list"    -> [i \in DOMAIN Body(t) |->
                                 IF Kind(Body(t)[i]) = "integer" THEN Body(Body(t)[i]) ELSE -1]
    [] IsUtf8(t)           -> CodePoints[Body(t)]
    [] OTHER               -> <<>>

PrimToVal(ty, t) ==
  CASE Kind(ty) = "bool"   -> <<"bool", IsTruthy(t)>>
    [] Kind(ty) = "int"    -> DecodeInt(t, Body(ty)[1], Body(ty)[2])
    [] Kind(ty) = "float"  -> DecodeFloat(t, Body(ty))
    [] Kind(ty) = "string" -> IF Kind(t) = "atom" THEN <<"string", Body(t)>> ELSE DecodeString(t)
    [] Kind(ty) = "char"   -> LET cs == Chars(t)
                              IN  IF Len(cs) = 1 /\ cs[1] \in Scalars THEN <<"char", cs[1]>> ELSE Err

\* The members of a tuple are zipped with their types: surplus ones on either
\* side are dropped.
Paired(tys, ts) == 1..(IF Len(tys) < Len(ts) THEN Len(tys) ELSE Len(ts))

ListToVal(conv, ty, t) ==
  IF Kind(t) # "list" THEN Err
  ELSE Collect("list", [i \in DOMAIN Body(t) |-> conv[Body(ty)][Body(t)[i]]])

TupleToVal(conv, ty, t) ==
  IF Kind(t) # "tuple" THEN Err
  ELSE Collect("tuple", [i \in Paired(Body(ty), Body(t)) |-> conv[Body(ty)[i]][Body(t)[i]]])

TermToFieldName(key) == IF Kind(key) = "atom" \/ IsUtf8(key) THEN Body(key) ELSE ""

Entries(map) == Body(map)[2]
Named(map, name) == {e \in Entries(map) : TermToFieldName(e[1]) = name}

\* `find` on the entries of a HashMap: the one met first.
Field(map, name) ==
  LET met == {e \in Named(map, name) : Kind(e[1]) = Body(map)[1]}
  IN  (CHOOSE e \in Named(map, name) : met # {} => e \in met)[2]

\* Mutant: a field the map lacks is left out, as in ResultToRecord.
MutRecordToVal(conv, ty, t) ==
  IF Kind(t) # "map" THEN Err
  ELSE CollectFields([name \in {n \in DOMAIN Body(ty) : Named(t, n) # {}} |->
                        conv[Body(ty)[name]][Field(t, name)]])

\* Every field of the type is needed; the surplus ones of the map are ignored.
RecordToVal(conv, ty, t) ==
  IF Kind(t) # "map" \/ \E name \in DOMAIN Body(ty) : Named(t, name) = {} THEN Err
  ELSE CollectFields([name \in DOMAIN Body(ty) |-> conv[Body(ty)[name]][Field(t, name)]])

IsPair(t)    == Kind(t) = "tuple" /\ Len(Body(t)) >= 2
Tagged(t, s) == IsPair(t) /\ Body(t)[1] = Atom(s)

OptionToVal(conv, ty, t) ==
  CASE t = Atom("none")  -> <<"option", <<"none", <<>>>>>>
    [] Tagged(t, "some") -> Payload("option", "some", conv[Body(ty)][Body(t)[2]])
    [] OTHER             -> Err

EnumToVal(ty, t) ==
  IF (Kind(t) = "atom" \/ IsUtf8(t)) /\ Body(t) \in Body(ty) THEN <<"enum", Body(t)>> ELSE Err

\* An atom for a side without a payload, a pair for a side with one.
ResultTypeToVal(conv, ty, t) ==
  CASE \E s \in {"ok", "error"} : t = Atom(s) /\ Body(ty)[s] = NoType
         -> <<"result", <<Body(t), <<>>>>>>
    [] \E s \in {"ok", "error"} : Tagged(t, s) /\ Body(ty)[s] # NoType
         -> LET s == Body(Body(t)[1]) IN Payload("result", s, conv[Body(ty)[s]][Body(t)[2]])
    [] OTHER -> Err

\* A bare name is taken for any case, also for one with a payload; the payload
\* of a case without one is dropped.
VariantToVal(conv, ty, t) ==
  LET name == IF IsPair(t) THEN Body(Body(t)[1]) ELSE Body(t)
  IN  IF ~(Kind(t) = "atom" \/ IsUtf8(t) \/ (IsPair(t) /\ Kind(Body(t)[1]) = "atom")) THEN Err
      ELSE IF name \notin DOMAIN Body(ty) THEN Err
      ELSE IF Kind(t) = "tuple" /\ Body(ty)[name] # NoType
        THEN Payload("variant", name, conv[Body(ty)[name]][Body(t)[2]])
        ELSE <<"variant", <<name, <<>>>>>>

FlagsToVal(ty, t) ==
  IF /\ Kind(t) = "map"
     /\ \A e \in Entries(t) : /\ TermToFieldName(e[1]) \in Body(ty)
                              /\ e[2] \in {Atom("true"), Atom("false")}
    THEN LET set == {e \in Entries(t) : e[2] = Atom("true")}
         IN  <<"flags", {TermToFieldName(e[1]) : e \in set}>>
    ELSE Err

\* wasmtime has followed an alias before the NIF sees the type.
ToVal(conv, ty, t) ==
  CASE Kind(ty) \in Prims    -> PrimToVal(ty, t)
    [] Kind(ty) = "list"     -> ListToVal(conv, ty, t)
    [] Kind(ty) = "tuple"    -> TupleToVal(conv, ty, t)
    [] Kind(ty) = "record"   -> RecordToVal(conv, ty, t)
    [] Kind(ty) = "option"   -> OptionToVal(conv, ty, t)
    [] Kind(ty) = "enum"     -> EnumToVal(ty, t)
    [] Kind(ty) = "result"   -> ResultTypeToVal(conv, ty, t)
    [] Kind(ty) = "variant"  -> VariantToVal(conv, ty, t)
    [] Kind(ty) = "flags"    -> FlagsToVal(ty, t)
    [] Kind(ty) = "alias"    -> conv[Body(ty)][t]
    [] OTHER                 -> Err

TermToVal[ty \in Types] == [t \in Terms |-> ToVal(TermToVal, ty, t)]

\* The terms are zipped with the types; only wasmtime counts the arguments.
ConvertParams(tys, ts) ==
  Collect("args", [i \in Paired(tys, ts) |-> TermToVal[tys[i]][ts[i]]])

-----------------------------------------------------------------------------
(* Results of component callbacks: convert_result_term.                     *)

\* A string of several characters is a char here: the first one.
PrimResult(ty, t) ==
  CASE Kind(ty) = "string" -> DecodeString(t)
    [] Kind(ty) = "char" /\ IsUtf8(t) ->
         IF Chars(t) # <<>> THEN <<"char", Head(Chars(t))>> ELSE Err
    [] OTHER -> PrimToVal(ty, t)

ResultToList(conv, ty, t) == ListToVal(conv, ty, t)

\* The fields the map lacks are left out.
ResultToRecord(conv, ty, t) ==
  IF Kind(t) # "map" THEN Err
  ELSE CollectFields([name \in {n \in DOMAIN Body(ty) : Named(t, n) # {}} |->
                        conv[Body(ty)[name]][Field(t, name)]])

ResultToTuple(conv, ty, t) == TupleToVal(conv, ty, t)

\* Mutant: the payload of an error is converted by the type of ok.
MutResultToResult(conv, ty, t) ==
  CASE t = Atom("ok") /\ Body(ty).ok = NoType       -> <<"result", <<"ok", <<>>>>>>
    [] t = Atom("error") /\ Body(ty).error = NoType -> <<"result", <<"error", <<>>>>>>
    [] IsPair(t) /\ Kind(Body(t)[1]) = "atom" ->
         LET s == IF Body(Body(t)[1]) = "ok" THEN "ok" ELSE "error"
         IN  IF Body(ty).ok = NoType THEN <<"result", <<s, <<>>>>>>
             ELSE Payload("result", s, conv[Body(ty).ok][Body(t)[2]])
    [] OTHER -> Err

\* A pair whose first element is any atom but :ok is an error, and the payload
\* of a side without one is dropped.
ResultToResult(conv, ty, t) ==
  CASE t = Atom("ok") /\ Body(ty).ok = NoType       -> <<"result", <<"ok", <<>>>>>>
    [] t = Atom("error") /\ Body(ty).error = NoType -> <<"result", <<"error", <<>>>>>>
    [] IsPair(t) /\ Kind(Body(t)[1]) = "atom" ->
         LET s == IF Body(Body(t)[1]) = "ok" THEN "ok" ELSE "error"
         IN  IF Body(ty)[s] = NoType THEN <<"result", <<s, <<>>>>>>
             ELSE Payload("result", s, conv[Body(ty)[s]][Body(t)[2]])
    [] OTHER -> Err

ResultToOption(conv, ty, t) == OptionToVal(conv, ty, t)

ResultToEnum(ty, t) ==
  IF Kind(t) = "atom" /\ Body(t) \in Body(ty) THEN <<"enum", Body(t)>> ELSE Err

\* A case without a payload may come as a tuple of any length but zero.
ResultToVariant(conv, ty, t) ==
  LET isTuple == Kind(t) = "tuple" /\ Body(t) # <<>> /\ Kind(Body(t)[1]) = "atom"
      name    == IF isTuple THEN Body(Body(t)[1]) ELSE Body(t)
  IN  IF ~(isTuple \/ Kind(t) = "atom") \/ name \notin DOMAIN Body(ty) THEN Err
      ELSE IF Body(ty)[name] = NoType THEN <<"variant", <<name, <<>>>>>>
      ELSE IF IsPair(t) THEN Payload("variant", name, conv[Body(ty)[name]][Body(t)[2]])
      ELSE Err

\* Mutant: a flag is set by its presence in the map.
MutResultToFlags(ty, t) ==
  IF Kind(t) = "map" /\ \A e \in Entries(t) : TermToFieldName(e[1]) \in Body(ty)
    THEN <<"flags", {TermToFieldName(e[1]) : e \in Entries(t)}>>
    ELSE Err

ResultToFlags(ty, t) == FlagsToVal(ty, t)

ConvertComplexResult(conv, ty, t) ==
  CASE Kind(ty) = "list"    -> ResultToList(conv, ty, t)
    [] Kind(ty) = "record"  -> ResultToRecord(conv, ty, t)
    [] Kind(ty) = "tuple"   -> ResultToTuple(conv, ty, t)
    [] Kind(ty) = "result"  -> ResultToResult(conv, ty, t)
    [] Kind(ty) = "option"  -> ResultToOption(conv, ty, t)
    [] Kind(ty) = "enum"    -> ResultToEnum(ty, t)
    [] Kind(ty) = "flags"   -> ResultToFlags(ty, t)
    [] Kind(ty) = "variant" -> ResultToVariant(conv, ty, t)
    [] Kind(ty) = "alias"   -> conv[Body(ty)][t]
    [] OTHER                -> Err

ConvertResult(conv, ty, t) ==
  IF Kind(ty) \in Prims THEN PrimResult(ty, t) ELSE ConvertComplexResult(conv, ty, t)

ResultToVal[ty \in Types] == [t \in Terms |-> ConvertResult(ResultToVal, ty, t)]

-----------------------------------------------------------------------------
(* From Wasm to the host: val_to_term.                                      *)

ToTerm(conv, v) ==
  CASE Kind(v) = "string" -> <<"binary", Body(v)>>
    [] Kind(v) = "bool"   -> Atom(IF Body(v) THEN "true" ELSE "false")
    [] Kind(v) = "int"    -> <<"integer", Body(v)>>
    [] Kind(v) \in {"single", "double"} -> <<"float", Body(v)>>
    [] Kind(v) = "char"   -> <<"binary", CHOOSE text \in Texts : CodePoints[text] = <<Body(v)>>>>
    [] Kind(v) \in {"list", "tuple"} -> <<Kind(v), [i \in DOMAIN Body(v) |-> conv[Body(v)[i]]]>>
    [] Kind(v) = "record" -> <<"map", <<"atom", {<<Atom(f[1]), conv[f[2]]>> : f \in Body(v)}>>>>
    [] Kind(v) = "enum"   -> Atom(Body(v))
    [] Kind(v) = "flags"  -> <<"map", <<"atom", {<<Atom(name), Atom("true")>> : name \in Body(v)}>>>>
    [] Kind(v) \in {"option", "result", "variant"} ->
         IF Body(v)[2] = <<>> THEN Atom(Body(v)[1])
         ELSE <<"tuple", <<Atom(Body(v)[1]), conv[Body(v)[2][1]]>>>>
    [] OTHER -> <<"binary", "Unsupported type">>

ValToTerm[v \in Vals] == ToTerm(ValToTerm, v)

-----------------------------------------------------------------------------
(* The functions a ComponentServer generates: field_converter.ex.           *)

WitName(s)    == IF s \in DOMAIN Kebab THEN Kebab[s] ELSE s
ElixirName(s) == IF s \in Range(Kebab) THEN CHOOSE e \in DOMAIN Kebab : Kebab[e] = s ELSE s

\* Keys that become equal keep the value of the one Elixir orders last.
Rename(map, to) ==
  LET same(key) == {e \in Entries(map) : to[e[1]] = key}
      last(key) == CHOOSE e \in same(key) :
                     (\E f \in same(key) : Kind(f[1]) = "binary") => Kind(e[1]) = "binary"
  IN  <<"map", <<Body(map)[1], {<<key, last(key)[2]>> : key \in {to[e[1]] : e \in Entries(map)}}>>>>

WitKey[k \in Terms]    == IF Kind(k) = "atom" THEN <<"binary", WitName(Body(k))>> ELSE k
ElixirKey[k \in Terms] == IF Kind(k) = "atom" \/ IsUtf8(k) THEN Atom(ElixirName(Body(k))) ELSE k

\* A pair that starts with an atom, or comes back with a binary, is taken for an
\* entry of a map; what is inside a map or a tuple stays as it is.
ConvertNames(conv, t, to) ==
  CASE Kind(t) = "list" -> <<"list", [i \in DOMAIN Body(t) |-> conv[Body(t)[i]]]>>
    [] Kind(t) = "map"  -> Rename(t, to)
    [] Kind(t) = "tuple" /\ Len(Body(t)) = 2 -> <<"tuple", <<to[Body(t)[1]], Body(t)[2]>>>>
    [] OTHER -> t

ToWit[t \in Terms]    == ConvertNames(ToWit, t, WitKey)
ToElixir[t \in Terms] == ConvertNames(ToElixir, t, ElixirKey)

MaybeConvertArgs(ts)  == IF ConvertFieldNames THEN [i \in DOMAIN ts |-> ToWit[ts[i]]] ELSE ts
MaybeConvertResult(t) == IF ConvertFieldNames THEN ToElixir[t] ELSE t

-----------------------------------------------------------------------------
(* What wasmtime accepts for a type.                                        *)

Fits(has, ty, v) ==
  CASE Kind(ty) \in DOMAIN CoreRange ->
         Kind(v) = "int" /\ Body(v) \in CoreRange[Kind(ty)][1]..CoreRange[Kind(ty)][2]
    [] Kind(ty) = "f32"     -> Kind(v) = "single"
    [] Kind(ty) = "f64"     -> Kind(v) = "double"
    [] Kind(ty) = "int"     -> Kind(v) = "int" /\ Body(v) \in Body(ty)[1]..Body(ty)[2]
    [] Kind(ty) = "float"   -> Kind(v) = (IF Body(ty) = "f32" THEN "single" ELSE "double")
    [] Kind(ty) = "list"    -> Kind(v) = "list" /\ \A i \in DOMAIN Body(v) : has[Body(ty)][Body(v)[i]]
    [] Kind(ty) = "tuple"   -> /\ Kind(v) = "tuple"
                               /\ Len(Body(v)) = Len(Body(ty))
                               /\ \A i \in DOMAIN Body(v) : has[Body(ty)[i]][Body(v)[i]]
    [] Kind(ty) = "record"  -> /\ Kind(v) = "record"
                               /\ {f[1] : f \in Body(v)} = DOMAIN Body(ty)
                               /\ \A e, f \in Body(v) : e[1] = f[1] => e = f
                               /\ \A f \in Body(v) : has[Body(ty)[f[1]]][f[2]]
    [] Kind(ty) = "enum"    -> Kind(v) = "enum" /\ Body(v) \in Body(ty)
    [] Kind(ty) = "flags"   -> Kind(v) = "flags" /\ Body(v) \subseteq Body(ty)
    [] Kind(ty) \in {"option", "result", "variant"} ->
         LET tag == Body(v)[1]
             payload == Body(v)[2]
         IN  /\ Kind(v) = Kind(ty) /\ tag \in DOMAIN Cases(ty)
             /\ IF Cases(ty)[tag] = NoType THEN payload = <<>>
                ELSE Len(payload) = 1 /\ has[Cases(ty)[tag]][payload[1]]
    [] Kind(ty) = "alias"   -> has[Body(ty)][v]
    [] OTHER -> Kind(v) = Kind(ty)

HasType[ty \in Types] == [v \in Vals |-> Fits(HasType, ty, v)]

HaveTypes(vs, tys) == Len(vs) = Len(tys) /\ \A i \in DOMAIN vs : HasType[tys[i]][vs[i]]

\* The types a type is made of, to the last, itself included.
Parts[ty \in Types] == {ty} \cup UNION {Parts[p] : p \in Inside(ty)}

-----------------------------------------------------------------------------
(* The journey.                                                             *)

\* A function of core Wasm has core types only, one of a component none.
Uniform == \A i \in DOMAIN signature : core <=> Kind(signature[i]) \in CoreKinds
Handles(tys) == {i \in DOMAIN tys : \E p \in Parts[tys[i]] : Kind(p) \in {"ref", "resource"}}

\* The host has terms for a signature, or Wasm holds a reference or a resource.
Init ==
  /\ core \in BOOLEAN
  /\ by = "call"
  /\ sent = <<>>
  /\ \/ /\ at = "host"
        /\ signature \in Signatures
        /\ terms \in Arguments
        /\ vals = <<>>
     \/ /\ at = "wasm"
        /\ signature \in {<<<<"ref", "r">>>>, <<<<"resource", "r">>>>}
        /\ vals = signature
        /\ terms = <<>>
  /\ Uniform

\* What comes of converted terms: an error of the converter, a trap when
\* wasmtime finds that a value has not the type, or values in Wasm.
Arrive(nif, converted) ==
  /\ at = "host"
  /\ by' = nif
  /\ at' = IF converted = Err THEN "refused"
           ELSE IF ~core /\ ~HaveTypes(Body(converted), signature) THEN "trapped"
           ELSE "wasm"
  /\ vals' = IF at' = "wasm" THEN Body(converted) ELSE <<>>
  /\ UNCHANGED <<core, signature, terms, sent>>

\* call_exported_function: the arguments of a call.
CallFunction ==
  Arrive("call", IF core THEN DecodeFunctionParamTerms(signature, terms)
                 ELSE ConvertParams(signature, MaybeConvertArgs(terms)))

\* receive_callback_result of instance.rs: a list of results.
ReceiveCallbackResult ==
  /\ core
  /\ Arrive("answer", DecodeFunctionParamTerms(signature, terms))

\* convert_return_values of component_instance.rs: one term, or any for no result.
ConvertReturnValues ==
  /\ ~core /\ Len(signature) <= 1 /\ Len(terms) = 1
  /\ Arrive("answer", IF signature = <<>> THEN <<"args", <<>>>>
                      ELSE Collect("args", <<ResultToVal[signature[1]][terms[1]]>>))

SetGlobalValue ==
  /\ core /\ Len(signature) = 1 /\ Len(terms) = 1
  /\ Arrive("set", Collect("args", <<DecodeTermAsWasmValue(signature[1], terms[1])>>))

\* Wasm hands over values it holds.
Leave(chosen, encoded) ==
  /\ at = "wasm"
  /\ at' = "host"
  /\ signature' = [i \in DOMAIN chosen |-> signature[chosen[i]]]
  /\ sent' = [i \in DOMAIN chosen |-> vals[chosen[i]]]
  /\ terms' = encoded
  /\ vals' = <<>>
  /\ UNCHANGED <<core, by>>

All == [i \in DOMAIN vals |-> i]

\* vals_to_terms and the wrapper of environment.rs: arguments of a callback.
InvokeCallback ==
  Leave(All, [i \in DOMAIN vals |->
                IF core THEN EncodeParam(vals[i]) ELSE ValToTerm[vals[i]]])

\* The results of a call and the value of a global: a reference is an error.
ReturnCore ==
  /\ core
  /\ \/ /\ Handles(signature) = {}
        /\ Leave(All, [i \in DOMAIN vals |-> EncodeParam(vals[i])])
     \/ /\ Handles(signature) # {}
        /\ at = "wasm"
        /\ at' = "refused"
        /\ UNCHANGED <<core, by, signature, terms, vals, sent>>

GetGlobalValue == Len(signature) = 1 /\ ReturnCore

\* encode_result: a component function has one result, or none and returns [].
EncodeResult ==
  /\ ~core
  /\ \/ \E i \in DOMAIN vals : Leave(<<i>>, <<MaybeConvertResult(ValToTerm[vals[i]])>>)
     \/ Leave(<<>>, <<MaybeConvertResult(<<"list", <<>>>>)>>)

Next ==
  \/ CallFunction \/ ReceiveCallbackResult \/ ConvertReturnValues \/ SetGlobalValue
  \/ InvokeCallback \/ ReturnCore \/ GetGlobalValue \/ EncodeResult

Spec == Init /\ [][Next]_vars
-----------------------------------------------------------------------------
(* Properties.                                                              *)

\* Type invariant.  What Wasm holds has the types of the signature; for core Wasm
\* the converters alone ensure it (instance.rs:354-451 counts and checks), for
\* components wasmtime does.
TypeOK ==
  /\ core \in BOOLEAN /\ Uniform
  /\ at \in {"host", "wasm", "refused", "trapped"}
  /\ by \in {"call", "answer", "set"}
  /\ signature \in Seq(Types) /\ terms \in Seq(Terms) /\ vals \in Seq(Vals) /\ sent \in Seq(Vals)
  /\ at = "wasm" => HaveTypes(vals, signature)
  /\ at = "host" /\ signature # <<>> /\ sent # <<>> => Len(terms) = Len(signature)

\* What the host received from Wasm it can send back, as an argument or as the
\* result of a callback, and Wasm gets the value it had handed over: the two
\* converters of component_type_conversion.rs (term_to_val, convert_result_term)
\* and the one of instance.rs undo what the encoders do.  References and
\* resources have no term and are left out.
EchoComesBack ==
  sent # <<>> /\ Handles(signature) = {} =>
    at \in {"host", "wasm"} /\ (at = "wasm" => vals = sent)

\* The two converters of component_type_conversion.rs are written separately and
\* accept different terms, but where both accept a term they make the same
\* value of it: a callback and a call never disagree on what a term means.
ConvertersAgree ==
  at = "host" /\ ~core /\ Len(signature) = 1 /\ Len(terms) = 1 =>
    LET called == TermToVal[signature[1]][terms[1]]
        answered == ResultToVal[signature[1]][terms[1]]
    IN  Err \in {called, answered} \/ called = answered

\* Of the values the converters let through, wasmtime only ever refuses those
\* whose shape they leave unchecked: too few arguments or tuple members (zip), a
\* case of a variant without its payload in a call, a record with fields
\* missing in the result of a callback (component_type_conversion.rs:511, 91,
\* 296, 675).  Every other mismatch is an error with a reason.
TrapsOnlyOnShape ==
  at = "trapped" =>
    \/ by = "call" /\ Len(terms) < Len(signature)
    \/ \E i \in DOMAIN signature : \E p \in Parts[signature[i]] :
         \/ Kind(p) = "tuple"
         \/ by = "answer" /\ Kind(p) = "record"
         \/ by = "call" /\ Kind(p) = "variant" /\ \E c \in Range(Body(p)) : c # NoType

=============================================================================
