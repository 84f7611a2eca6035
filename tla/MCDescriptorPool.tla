-------------------------- MODULE MCDescriptorPool --------------------------
(***************************************************************************)
(* Small instances of DescriptorPool: families of up to three files that   *)
(* import one another.                                                     *)
(***************************************************************************)
EXTENDS DescriptorPool

None == <<>>    \* no overrides

F(name, number, label, type, typeName) ==
    [name |-> name, number |-> number, label |-> label, type |-> type,
     typeName |-> typeName, oneof |-> 0, proto3Optional |-> FALSE,
     default |-> FALSE, packed |-> "unset", json |-> Absent, feats |-> None,
     extendee |-> <<>>]
X(name, number, type, typeName, extendee) ==
    [F(name, number, "optional", type, typeName) EXCEPT !.extendee = extendee]
M(name, fields) ==
    [name |-> name, fields |-> fields, oneofs |-> <<>>, nested |-> <<>>,
     enums |-> <<>>, extensions |-> <<>>, ranges |-> <<>>,
     reservedNames |-> <<>>, reservedRanges |-> <<>>, mapEntry |-> FALSE,
     messageSet |-> FALSE, legacyJson |-> FALSE, feats |-> None]
E(name, values) ==
    [name |-> name, values |-> values, reservedNames |-> <<>>,
     reservedRanges |-> <<>>, allowAlias |-> FALSE, feats |-> None]
V(name, number) == [name |-> name, number |-> number]
File(name, syntax, deps) ==
    [name |-> name, syntax |-> syntax, edition |-> "2023", package |-> <<"p">>,
     deps |-> deps, public |-> <<>>, weak |-> <<>>, feats |-> None,
     messages |-> <<>>, enums |-> <<>>, services |-> <<>>, extensions |-> <<>>]

MCJsonName(n) == IF n = "a_b" THEN "aB" ELSE n
MCEntryName(n) == IF n = "f" THEN "FEntry" ELSE "Entry"

-----------------------------------------------------------------------------
\* A field of file a uses an enum of file b, which a imports itself, through
\* file c, or not at all.
EnumUses ==
    {<<"optional", "enum">>, <<"repeated", "enum">>, <<"repeated", "map">>}
Entry(value) ==
    [M("FEntry", <<F("key", 1, "optional", "int32", <<>>),
                   [value EXCEPT !.name = "value", !.number = 2,
                                 !.label = "optional"]>>) EXCEPT !.mapEntry = TRUE]
MapOf(msg) == F("f", 1, "repeated", "message", <<"p", msg, "FEntry">>)
UsesEnum(use, over) ==
    LET fld == [F("f", 1, use[1], "enum", <<"p", "E">>) EXCEPT !.feats = over]
    IN  IF use[2] = "enum" THEN M("A", <<fld>>)
        ELSE [M("A", <<MapOf("A")>>) EXCEPT !.nested = <<Entry(fld)>>]
AFile(syntax, deps, use, over, feats) ==
    [File("a", syntax, deps) EXCEPT !.messages = <<UsesEnum(use, over)>>,
                                    !.feats = feats]
BFile(syntax, n) ==
    [File("b", syntax, <<>>) EXCEPT !.enums = <<E("E", <<V("V0", n)>>)>>]
CFile(public, weak) ==
    [File("c", "proto2", <<"b">>) EXCEPT !.public = public, !.weak = weak]

Direct == {{AFile(syntax, <<"b">>, use, over, feats), BFile(bsyntax, n)} :
    syntax \in {"proto2", "proto3", "editions"}, use \in EnumUses,
    over \in {None, [enum |-> "open"]},
    feats \in {None, [presence |-> "implicit"], [presence |-> "unknown"]},
    bsyntax \in {"proto2", "proto3"}, n \in {0, 1}}
Indirect == {{AFile("proto2", deps, use, None, None), BFile("proto3", 0),
              CFile(public, weak)} :
    deps \in {<<>>, <<"c">>, <<"a", "c">>}, use \in EnumUses,
    public \in {<<>>, <<1>>, <<2>>}, weak \in {<<>>, <<1>>, <<0>>}}

-----------------------------------------------------------------------------
\* File d declares extension ranges, definitions in definitions and a oneof;
\* file e extends it, at the edges of its ranges, and has a service over it.
Deep(ext) ==
    [M("N", <<F("a_b", 1, "optional", "message", <<"p", "D">>)>>) EXCEPT
        !.nested = <<M("K", <<F("aB", 1, "optional", Absent, <<"p", "D", "N">>)>>),
                     M("L", <<>>)>>,
        !.enums = <<[E("Z", <<V("Z0", 0), V("Z1", 1)>>)
                       EXCEPT !.reservedRanges = <<<<2, 2>>>>]>>,
        !.extensions = ext]
DEntry == Entry(F("v", 1, "optional", "message", <<"p", "T">>))
DFile(ext, number, set) ==
    [File("d", "proto2", <<>>) EXCEPT
        !.messages =
            <<[M("D", IF set THEN <<>>
                      ELSE <<MapOf("D"),
                             [F("o", 2, "optional", "string", <<>>) EXCEPT !.oneof = 1],
                             [F("g", number, "optional", "group", <<"p", "D", "N">>)
                                EXCEPT !.oneof = 1]>>)
                 EXCEPT !.nested = <<Deep(ext), DEntry, M("N2", <<>>)>>,
                        !.oneofs = IF set THEN <<>> ELSE <<"one">>,
                        !.ranges = <<<<5, 7>>, <<8, 9>>>>,
                        !.reservedNames = <<"old">>,
                        !.reservedRanges = <<<<3, 5>>>>,
                        !.messageSet = set],
              M("T", <<>>)>>]
Inner == X("x", 5, "enum", <<"p", "D", "N", "Z">>, <<"p", "D">>)
EFile(syntax, number, type, typeName) ==
    [File("e", syntax, <<"d">>) EXCEPT
        !.extensions = <<X("y", number, type, typeName, <<"p", "D">>)>>,
        !.services = <<[name |-> "S", methods |->
            <<[name |-> "Call", input |-> <<"p", "D">>, output |-> <<"p", "T">>]>>]>>]
Extended ==
    {{d, EFile(syntax, at, use[1], use[2])} :
        d \in {DFile(ext, number, FALSE) : ext \in {<<>>, <<Inner>>},
                                          number \in {3, 5, 7}}
                \cup {DFile(<<>>, 7, TRUE)},
        syntax \in {"proto2", "proto3", "editions"}, at \in {5, 7, 8, 9},
        use \in {<<"int32", <<>>>>, <<"message", <<"p", "T">>>>,
                 <<"message", <<"p", "D", "FEntry">>>>,
                 <<"enum", <<"p", "D", "N", "Z">>>>}}

-----------------------------------------------------------------------------
\* Files that disagree over a name, or are refused for themselves.
One(name, syntax, msg) == [File(name, syntax, <<>>) EXCEPT !.messages = <<msg>>]
Named ==
    [File("n", "proto2", <<>>) EXCEPT
        !.messages = <<M("Q", <<>>), [M("O", <<>>) EXCEPT !.ranges = <<<<5, 7>>>>]>>]
Json(name, legacy) ==
    [M("R", <<[F("t", 2, "optional", "int32", <<>>) EXCEPT !.json = name]>>)
        EXCEPT !.legacyJson = legacy]
Others ==
    {One("n", "proto3", M("R", <<>>)),
     One("u", "proto3", M("Q", <<>>)),
     One(Absent, "proto2", M("R", <<>>)),
     [One("u", "editions", M("R", <<>>)) EXCEPT !.edition = "unknown"],
     [One("u", "editions", M("R", <<>>)) EXCEPT !.edition = "future"],
     [File("u", "proto2", <<"n", "missing">>) EXCEPT !.weak = <<2>>],
     [File("u", "proto2", <<"n", "missing">>) EXCEPT !.public = <<2>>],
     [File("u", "proto2", <<>>) EXCEPT
        !.enums = <<E("E", <<V("Q", 0)>>), E("G", <<V("W", 0), V("W1", 0)>>)>>],
     [File("u", "proto3", <<>>) EXCEPT !.enums = <<E("E", <<V("W", 0)>>)>>,
        !.services = <<[name |-> "Q", methods |-> <<>>]>>],
     One("u", "proto3", M("R", <<F("a_b", 1, "optional", "int32", <<>>),
                                 F("aB", 2, "optional", "int32", <<>>)>>)),
     One("u", "proto3",
         [M("R", <<[F("s", 1, "optional", "int32", <<>>) EXCEPT
                      !.oneof = 1, !.proto3Optional = TRUE]>>) EXCEPT
            !.oneofs = <<"_s">>]),
     One("u", "proto2",
         [M("R", <<[F("s", 1, "optional", "int32", <<>>) EXCEPT !.oneof = 1],
                   F("t", 2, "required", "int32", <<>>),
                   [F("v", 3, "optional", "int32", <<>>) EXCEPT !.oneof = 1]>>)
            EXCEPT !.oneofs = <<"one">>]),
     One("u", "editions", M("R", <<F("t", 2, "required", "int32", <<>>)>>)),
     One("u", "proto2", M("R", <<[F("t", 2, "repeated", "string", <<>>)
                                    EXCEPT !.packed = "true"]>>)),
     One("u", "proto2", [M("R", <<F("t", 6, "optional", "int32", <<>>)>>)
                           EXCEPT !.ranges = <<<<2, 4>>, <<3, 5>>>>]),
     One("u", "proto2", [M("R", <<>>) EXCEPT !.ranges = <<<<2, 4>>, <<3, 5>>>>]),
     One("u", "proto3", Json("[k]", FALSE)), One("u", "proto3", Json("[k]", TRUE)),
     One("u", "proto3", Json("NUL", TRUE)),
     [File("u", "proto3", <<"n">>) EXCEPT
        !.extensions = <<X("y", 5, "int32", <<>>, <<"p", "O">>)>>]}
Clashes == {{Named, o} : o \in Others}

MCScenarios == Direct \cup Indirect \cup Extended \cup Clashes

Outermost == UNION {Range(file.messages) : file \in UNION MCScenarios}
NestedIn(msgs) == UNION {Range(msg.nested) : msg \in msgs}
MCMessageDefs ==
    Outermost \cup NestedIn(Outermost) \cup NestedIn(NestedIn(Outermost))

MCOptionsMessages == {<<"p", "O">>}

MCLinkOptions ==
    {[importVisibility |-> v, requiredDependencies |-> r] :
        v \in BOOLEAN, r \in BOOLEAN}
=============================================================================
