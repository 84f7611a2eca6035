--------------------------- MODULE MCExtensionSet ---------------------------
(***************************************************************************)
(* A small instance of ExtensionSet, and the store it has to implement.    *)
(***************************************************************************)
EXTENDS ExtensionSet, RecordCosts

Ext(num, elem, card) ==
    [num |-> num, elem |-> elem, card |-> card, default |-> <<>>, extendee |-> Carrier]
Foreign == [Ext(5, "int", "one") EXCEPT !.extendee = "other"]

\* The extensions of a MessageSet are optional messages.
MCExts ==
    ("plain" :> {[Ext(5, "int", "one") EXCEPT !.default = <<3>>], Foreign,
                 Ext(6, "string", "one"), Ext(7, "msg", "one"),
                 Ext(8, "group", "one"), Ext(9, "msg", "list"),
                 Ext(10, "int", "packed")}
  @@ "set"   :> {Ext(1, "msg", "one"), Ext(7, "msg", "one"), Foreign})

Message(a, subs, unk) == [a |-> a, subs |-> subs, unk |-> unk]
Nest(n) == IF n = 1 THEN G(3, <<>>) ELSE G(3, <<G(3, <<G(3, <<>>)>>)>>)
Times(n, x) == [i \in 1 .. n |-> x]
Big   == Message(0, <<<<L(4, Times(5, V(5, 1)))>>>>, <<>>)
Small == Message(1, <<<<V(1, 1)>>>>, <<V(3, 1)>>)

MCValues(e) ==
    CASE e.card = "packed" -> {<<>>, <<1, 2>>}
      [] e.card = "list"   -> {<<>>, <<Small, Big>>, Times(2, Small), Times(4, EmptyMsg)}
      [] e.elem = "int"    -> {0, 2}
      [] e.elem = "string" -> {<<>>, <<V(1, 1)>>}
      [] OTHER             ->
            {EmptyMsg, Small, Big, Message(2, Times(4, <<>>), <<>>),
             Message(0, <<>>, <<Nest(2)>>), Message(0, <<>>, Times(4, V(3, 1)))}
MCUtf8(body) == \A i \in DOMAIN body : body[i] # Bad

Ints   == {<<V(5, 1)>>, <<V(5, 6), L(5, <<>>)>>, <<L(6, <<V(1, 2)>>), V(6, 1)>>,
           <<L(6, <<V(1, 1)>>), L(6, <<Bad>>)>>,
           <<V(10, 1), L(10, <<V(0, 2), Bad, V(0, 1)>>), L(10, <<V(0, 3)>>)>>}
Msgs   == {<<L(7, <<V(1, 6), L(2, <<>>)>>)>>, <<L(7, <<Bad>>)>>, <<V(7, 1)>>,
           <<L(7, <<L(2, <<V(1, 1), V(4, 1)>>), L(2, <<>>)>>)>>,
           <<G(8, <<V(1, 2), V(3, 1)>>)>>, <<G(8, <<V(3, 1), Nest(2)>>)>>,
           <<G(8, <<L(2, <<Bad>>)>>), V(8, 1)>>}
Lists  == {<<L(9, <<V(1, 1)>>), L(9, <<L(2, <<>>)>>)>>, <<L(9, <<Bad>>)>>,
           <<L(9, <<V(3, 1), V(3, 1)>>)>>, <<L(9, <<Nest(2)>>), G(9, <<>>)>>}
Others == {<<V(12, 1)>>, <<V(12, 2), Bad>>, Times(4, V(12, 3))}

Item(parts) == G(1, parts)
Id(n) == V(2, n)
Payload == L(3, <<V(1, 1)>>)
Items == {<<Item(<<Id(7), Payload>>)>>, <<Item(<<L(3, <<V(4, 1)>>), Id(7)>>)>>,
          <<Item(<<Id(1), Payload>>)>>, <<Item(<<Id(7)>>)>>, <<Item(<<Payload>>)>>,
          <<Item(<<Payload, Id(7), L(3, <<L(2, <<>>)>>), Id(9)>>)>>,
          <<Item(<<Id(0), Payload>>)>>, <<Item(<<Id(10), Payload, Id(7)>>)>>,
          <<Item(<<Id(7), L(3, <<Bad>>)>>)>>, <<Item(<<Id(7), Bad>>)>>,
          <<Item(<<Id(7), Nest(1), Payload>>), V(12, 1)>>,
          <<Item(<<Id(7), Nest(2)>>)>>, <<L(7, <<V(1, 2)>>), V(7, 1)>>,
          <<L(1, <<V(1, 2)>>)>>, <<G(7, <<Id(7), Payload>>)>>,
          <<Item(<<Id(7), Payload>>), V(12, 3), V(12, 3), V(12, 3)>>}
MCBuffers == ("plain" :> Ints \cup Msgs \cup Lists \cup Others
           @@ "set"   :> Items \cup Others)

MCUnknownSlots(r) == Slots(<<r>>)
MCChargedSlots(r, depth) == ChargedUntil(<<r>>, depth)
MCSkipError(r, depth) == Skip(<<r>>, depth)
MCRecordsLen(recs) == Size(recs)

-----------------------------------------------------------------------------
(***************************************************************************)
(* The carrier is a store of extensions.                                   *)
(***************************************************************************)
Value == INSTANCE ExtensionValue WITH Utf8 <- MCUtf8, UnknownSlots <- MCUnknownSlots,
                                      SkipError <- MCSkipError
Own == {e \in Exts[kind] : Declared(e)}
Numbers == {e.num : e \in Own}
MCHeld == [n \in Numbers |->
             LET e == CHOOSE x \in Own : x.num = n
             IN  Value!Arrived(e, Value!Nothing, fields)]
MCShown ==
    [e \in Exts[kind] |->
        [get |-> Extension(e), has |-> HasExtension(e),
         orDefault |-> IF e.card = "one" THEN ExtensionOrDefault(e) ELSE <<>>]]

Store == INSTANCE ExtensionStore WITH
    Utf8 <- MCUtf8, UnknownSlots <- MCUnknownSlots, SkipError <- MCSkipError,
    RecordsLen <- MCRecordsLen, Values <- MCValues, Encoded <- EncodeMsg,
    held <- MCHeld, shown <- MCShown,
    rest <- SelectSeq(fields, LAMBDA f : f.num \notin Numbers)
ImplementsExtensionStore == Store!Spec
=============================================================================
