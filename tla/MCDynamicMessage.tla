-------------------------- MODULE MCDynamicMessage --------------------------
(***************************************************************************)
(* A small instance of DynamicMessage, in which sub-messages are merged    *)
(* and encoded like the message itself, and the content it has to have.    *)
(***************************************************************************)
EXTENDS DynamicMessage, RecordCosts

F(card, elem) ==
    [card |-> card, elem |-> elem, of |-> "B", oneof |-> 0, implicit |-> FALSE,
     packed |-> FALSE, delimited |-> FALSE]
Member(elem) == [F("one", elem) EXCEPT !.oneof = 1]

MCSchema ==
    ("A" :> (1 :> Member("int") @@ 2 :> Member("msg") @@ 3 :> Member("enum")
               @@ 4 :> [F("list", "int") EXCEPT !.packed = TRUE]
               @@ 5 :> F("list", "enum") @@ 6 :> F("map", "msg")
               @@ 7 :> F("map", "enum") @@ 8 :> [F("one", "int") EXCEPT !.implicit = TRUE]
               @@ 9 :> [F("list", "msg") EXCEPT !.delimited = TRUE])
  @@ "B" :> (1 :> F("one", "int") @@ 2 :> F("one", "msg") @@ 3 :> F("map", "int")))

\* Number 20 of both types is an extension in the message's pool only.
MCExtensionRange == ("A" :> {20, 21} @@ "B" :> {20})
MCExtensions ==
    ("home" :> ("A" :> (20 :> F("one", "int")) @@ "B" :> (20 :> F("one", "int")))
  @@ "other" :> ("A" :> <<>> @@ "B" :> <<>>))

-----------------------------------------------------------------------------
(***************************************************************************)
(* The recursive calls, for messages two levels below the message: the     *)
(* deepest that the buffers and the values have.                           *)
(***************************************************************************)
NoMerge(d, recs, depth) == [d EXCEPT !.err = "bottom"]
NoEncode(m) == <<>>
NoLen(m) == 0
Deepest == INSTANCE FieldMerge WITH
    MergeNested <- NoMerge, EncodeNested <- NoEncode, NestedLen <- NoLen
MergeDeepest(d, recs, depth) == Deepest!MergeBuf(d, recs, depth)
EncodeDeepest(m) == Deepest!EncodeMessage(m)
DeepestLen(m) == Deepest!EncodedLen(m)
Inner == INSTANCE FieldMerge WITH
    MergeNested <- MergeDeepest, EncodeNested <- EncodeDeepest,
    NestedLen <- DeepestLen
MCMergeNested(d, recs, depth) == Inner!MergeBuf(d, recs, depth)
MCEncodeNested(m) == Inner!EncodeMessage(m)
MCNestedLen(m) == Inner!EncodedLen(m)

MCUnknownSlots(r) == Slots(<<r>>)
MCSkipError(r, depth) == Skip(<<r>>, depth)
MCRecordsLen(recs) == Size(recs)

-----------------------------------------------------------------------------
(***************************************************************************)
(* What the values of a message mean.                                      *)
(***************************************************************************)
CONSTANT Tampered

RECURSIVE Content(_)
ContentSingular(f, v) == IF f.elem = "msg" THEN Content(v.m) ELSE v.v
ContentValue(f, v, pool) ==
    IF ~ValidShape(f, v, pool) THEN Tampered
    ELSE CASE f.card = "one"  -> ContentSingular(f, v)
           [] f.card = "list" -> [i \in DOMAIN v.items |-> ContentSingular(f, v.items[i])]
           [] f.card = "map"  -> [k \in DOMAIN v.sorted |-> ContentSingular(f, v.sorted[k])]
Content(m) ==
    [fields |-> [n \in {k \in DOMAIN m.fields : Resolves(m, k)
                           /\ IsPresent(FieldOf(m, k), m.fields[k])} |->
                    ContentValue(FieldOf(m, n), m.fields[n], m.pool)],
     extra  |-> m.unknown]

\* A set closed enum whose number the enum does not know goes out as it is and
\* comes back as an unknown field.
HoldsStray(f, v) ==
    /\ f.elem = "enum"
    /\ CASE f.card = "one"  -> v.v \notin EnumValues
         [] f.card = "list" -> \E i \in DOMAIN v.items : v.items[i].v \notin EnumValues
         [] f.card = "map"  -> \E k \in DOMAIN v.sorted : v.sorted[k].v \notin EnumValues

Ample == [depth |-> 9, unk |-> 99, mem |-> 99]
Transcoded(m) ==
    MergeBuf(Fresh(m.pool, m.type), EncodeMessage(m), Ample.depth)

\* Between calls: encoded_len is the length of what is encoded; and decoding it
\* gives back every set field, extensions and other fields' failures
\* notwithstanding, but those written in place with a wrong shape, and every
\* unknown field in order.
TranscodePreserves ==
    ~Merging =>
        LET r == Transcoded(msg)
            c == Content(msg)
            stray == {n \in DOMAIN c.fields : c.fields[n] # Tampered
                         /\ HoldsStray(FieldOf(msg, n), msg.fields[n])}
            kept == {n \in DOMAIN c.fields \ stray : c.fields[n] # Tampered}
        IN  /\ EncodedLen(msg) = Size(EncodeMessage(msg))
            /\ r.err = ""
            /\ kept = DOMAIN Content(r.msg).fields \ stray
            /\ \A n \in kept : Content(r.msg).fields[n] = c.fields[n]
            /\ IsSuffix(msg.unknown, r.msg.unknown)
            /\ stray = {} => r.msg.unknown = msg.unknown

-----------------------------------------------------------------------------
(***************************************************************************)
(* The buffers and the values.                                             *)
(***************************************************************************)
UnkGroup == G(30, <<V(1, 1), G(2, <<V(7, 1)>>)>>)
Recs ==
    {V(1, 1), L(2, <<V(1, 1), L(3, <<V(1, 1), V(2, 1)>>), Bad>>), V(3, 1), V(3, 6),
     L(2, <<V(20, 1), L(3, <<V(1, 1), V(2, 2)>>)>>), G(2, <<L(2, <<V(1, 2)>>)>>),
     L(4, <<V(0, 1), V(0, 2)>>), L(5, <<V(0, 1), V(0, 2), V(0, 0)>>), V(4, 3),
     L(6, <<V(1, 1), L(2, <<V(1, 1)>>), L(2, <<V(30, 1)>>)>>), L(6, <<L(2, <<Bad>>)>>),
     L(7, <<V(1, 1), V(2, 1)>>), L(7, <<V(1, 1), V(2, 2)>>), L(7, <<V(2, 2), V(2, 0)>>),
     V(8, 0), G(9, <<V(1, 1)>>), L(9, <<Bad>>), V(20, 2), V(21, 1), V(2, 1), UnkGroup}
Lim(depth, unk, mem) == [depth |-> depth, unk |-> unk, mem |-> mem]
\* Any record, and any two of the same field or oneof; and any record under
\* tight limits.
Meet(a, b) == a.num = b.num \/ {a.num, b.num} \subseteq {1, 2, 3}
MCBuffers ==
    ({<<>>} \cup {<<r>> : r \in Recs}
       \cup {p \in Recs \X Recs : Meet(p[1], p[2])}) \X {Lim(3, 9, 9)}
      \cup {<<r>> : r \in Recs} \X {Lim(1, 1, 3)}

Other(fields, unknown) ==
    [NewMessage("other", "B") EXCEPT !.fields = fields, !.unknown = unknown]
MsgB == Msg([NewMessage("home", "B") EXCEPT !.fields = (1 :> Num(1))])
Foreigner == Msg(Other(1 :> Num(2) @@ 2 :> Msg(Other(<<>>, <<>>)), <<V(20, 3)>>))
MCWrites ==
    {1, 20} \X {"home"} \X {Num(0), Num(3), MsgB}
      \cup {2} \X {"home"} \X {MsgB, Foreigner, Num(1),
                               Msg(NewMessage("other", "A"))}
      \cup {3} \X {"home", "other"} \X {Enum(1), Enum(2)}
      \cup {4} \X {"home"} \X {List(<<Num(4)>>), List(<<>>), List(<<Enum(1)>>)}
      \cup {6} \X {"home"} \X {Map(1 :> Foreigner @@ 2 :> MsgB, <<>>),
                               Map(1 :> Num(1), <<>>)}
      \cup {8} \X {"home"} \X {Num(0), Num(5), List(<<MsgB>>)}
      \cup {9} \X {"home"} \X {List(<<Foreigner, MsgB>>)}
      \cup {21} \X {"home"} \X {Num(1)}

-----------------------------------------------------------------------------
(***************************************************************************)
(* The message is a FieldStore: a running merge has not happened yet.      *)
(***************************************************************************)
MCFields ==
    [t \in DOMAIN MCSchema |-> MCSchema[t] @@ MCExtensions["home"][t]]

\* The content of a value for field f: a message from another pool is what the
\* message's own pool reads in its bytes.
Reread(f, v) ==
    IF v.shape # "msg" \/ f.elem # "msg" \/ v.m.type # f.of THEN v
    ELSE Msg(MCMergeNested(Fresh(Home, f.of), MCEncodeNested(v.m), Ample.depth).msg)
RereadAll(f, v) ==
    CASE v.shape = "list" -> List([i \in DOMAIN v.items |-> Reread(f, v.items[i])])
      [] v.shape = "map"  ->
            Map([k \in DOMAIN v.sorted |-> Reread(f, v.sorted[k])], <<>>)
      [] OTHER            -> Reread(f, v)
MCMeant(n, v) ==
    IF n \notin DOMAIN MCFields[Root] THEN Tampered
    ELSE ContentValue(MCFields[Root][n], RereadAll(MCFields[Root][n], v), Home)
MCHeld(n, v) == ContentValue(MCFields[Root][n], v, Home)

Outcome ==
    IF result = "" THEN "ok" ELSE IF result \in {"some", "none"} THEN result
    ELSE "error"
Shown == Content(IF Merging THEN before ELSE msg)

MCMerges == {b[1] : b \in MCBuffers}
MCStoreWrites == {<<w[1], w[3]>> : w \in MCWrites}

Store == INSTANCE FieldStore WITH
    Fields <- MCFields, Merges <- MCMerges, Writes <- MCStoreWrites,
    Meant <- MCMeant, Held <- MCHeld, store <- Shown.fields,
    extra <- Shown.extra, busy <- Merging, result <- Outcome
ImplementsFieldStore == Store!Spec
=============================================================================
