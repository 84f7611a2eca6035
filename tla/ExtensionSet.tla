---------------------------- MODULE ExtensionSet ----------------------------
(***************************************************************************)
(* Extensions: a message keeps the records it has no field for, and an     *)
(* extension is a typed view of the records of its number.  A MessageSet   *)
(* has only extensions, each of which travels in a group of its own.       *)
(***************************************************************************)
EXTENDS Records, SequencesExt

CONSTANTS
    Exts,               \* Exts[kind]: the extensions used with that carrier,
                        \* records of num, elem, card, default and extendee
    Carrier,            \* the full name of the carrier
    Buffers,            \* Buffers[kind]: what is merged into it
    Values(_),          \* the values an extension is set to
    Utf8(_),            \* a payload is valid UTF-8
    ChargedSlots(_, _), SkipError(_, _), RecordsLen(_), \* of unknown records
    MaxTypeId, IntMod, MaxMessage, DepthLimit, UnknownLimit, ElementLimit,
    MaxCalls            \* bound: calls on the carrier

ASSUME LimitsAssumption ==
    {DepthLimit, UnknownLimit, ElementLimit, MaxMessage} \subseteq Nat \ {0}

VARIABLES
    kind,       \* the carrier is a plain message or a MessageSet
    fields,     \* its unknown fields
    call,       \* the last call, and what it returned: "", an error or "panic"
    result,
    calls       \* calls so far
vars == <<kind, fields, call, result, calls>>

Fail(d, e) == [d EXCEPT !.err = e]
\* Runs Op over a buffer until it fails.
Loop(Op(_, _), d, recs) ==
    LET after[i \in 0 .. Len(recs)] ==
            IF i = 0 THEN d
            ELSE LET s == after[i - 1] IN IF s.err # "" THEN s ELSE Op(s, recs[i])
    IN  after[Len(recs)]

\* decode_unknown_field, but for storing the field.  What was charged before a
\* failure stays charged.
Charge(d, r, depth) ==
    LET slots == ChargedSlots(r, depth) IN
    IF d.unk < slots THEN Fail([d EXCEPT !.unk = 0], "unknown_limit")
    ELSE Fail([d EXCEPT !.unk = @ - slots], SkipError(r, depth))

-----------------------------------------------------------------------------
(***************************************************************************)
(* The messages that extensions hold: an int, a list of messages that are  *)
(* all unknown fields, and unknown fields.                                 *)
(***************************************************************************)
EmptyMsg == [a |-> 0, subs |-> <<>>, unk |-> <<>>]

\* An element is paid for before it is decoded, and stays paid for.
MergeSub(d, body) ==
    LET paid == [d EXCEPT !.mem = @ - 1]
        sub  == Loop(LAMBDA s, r : Charge(s, r, DepthLimit - 1), paid, body)
    IN  IF d.mem = 0 THEN Fail(d, "element_limit")
        ELSE IF sub.err # "" THEN sub
        ELSE [sub EXCEPT !.m.subs = Append(@, body)]
MergeUnknown(d, r) ==
    LET c == Charge(d, r, DepthLimit)
    IN  IF c.err # "" THEN c ELSE [c EXCEPT !.m.unk = Append(@, r)]
MergeMsgField(d, r) ==
    CASE r.num = 1 -> IF r.wt = "varint" THEN [d EXCEPT !.m.a = r.v % IntMod]
                      ELSE Fail(d, "mismatch")
      [] r.num = 2 -> IF r.wt = "len" THEN MergeSub(d, r.body)
                      ELSE Fail(d, "mismatch")
      [] OTHER     -> MergeUnknown(d, r)
MergeMsg(d, recs) == Loop(MergeMsgField, d, recs)

EncodeMsg(m) ==
    (IF m.a = 0 THEN <<>> ELSE <<V(1, m.a)>>)
      \o [i \in DOMAIN m.subs |-> L(2, m.subs[i])] \o m.unk

-----------------------------------------------------------------------------
(***************************************************************************)
(* Codecs.  An element is an int, a string, a message or a group; a list   *)
(* of them may be written packed.                                          *)
(***************************************************************************)
WireOf(elem) ==
    CASE elem = "int" -> "varint" [] elem = "group" -> "group"
      [] elem \in {"string", "msg"} -> "len"
IsMsg(e) == e.elem \in {"msg", "group"}

\* extension_decode_cells
Fresh == [m |-> EmptyMsg, unk |-> UnknownLimit, mem |-> ElementLimit, err |-> ""]

\* All records of the message are one: a malformed one spoils it.
ReadMessage(typed) ==
    LET d == Loop(LAMBDA s, f : MergeMsg(s, f.body), Fresh, typed)
    IN  IF typed = <<>> \/ d.err # "" THEN <<>> ELSE <<d.m>>

\* <<>> or the value: of the records with the right wire type, the last counts.
ReadSingular(e, recs) ==
    LET typed == SelectSeq(recs, LAMBDA f : f.wt = WireOf(e.elem)) IN
    IF IsMsg(e) THEN ReadMessage(typed)
    ELSE IF typed = <<>> THEN <<>>
    ELSE IF e.elem = "int" THEN <<Last(typed).v % IntMod>>
    ELSE IF Utf8(Last(typed).body) THEN <<Last(typed).body>> ELSE <<>>

\* A message of a list.  After one that exceeds the element budget, none is read.
ReadElement(s, f) ==
    LET d == MergeMsg([m |-> EmptyMsg, unk |-> s.unk, mem |-> s.mem - 1,
                       err |-> ""], f.body)
    IN  IF s.mem = 0 \/ d.err = "element_limit" THEN [s EXCEPT !.mem = 0, !.done = TRUE]
        ELSE [s EXCEPT !.unk = d.unk, !.mem = d.mem,
                       !.items = IF d.err = "" THEN Append(@, d.m) ELSE @,
                       !.done = d.err # "" /\ d.mem = 0]

\* decode_packed: the numbers before the first malformed one.
Unpacked(body) ==
    LET good == SelectSeq(body, LAMBDA x : x.wt = "varint")
        cut  == {i \in DOMAIN body : body[i].wt # "varint"}
        n    == IF cut = {} THEN Len(body) ELSE (CHOOSE i \in cut : \A j \in cut : i <= j) - 1
    IN  [i \in 1 .. n |-> good[i].v % IntMod]

ReadRecord(e, s, f) ==
    CASE s.done -> s
      [] ~s.done /\ f.wt # WireOf(e.elem) ->
            IF IsMsg(e) THEN [s EXCEPT !.done = s.mem = 0]
            ELSE IF e.elem = "int" /\ f.wt = "len"
              THEN [s EXCEPT !.items = @ \o Unpacked(f.body)]
            ELSE s
      [] ~s.done /\ f.wt = WireOf(e.elem) ->
            IF IsMsg(e) THEN ReadElement(s, f)
            ELSE IF e.elem = "int" THEN [s EXCEPT !.items = Append(@, f.v % IntMod)]
            ELSE IF Utf8(f.body) THEN [s EXCEPT !.items = Append(@, f.body)] ELSE s
ReadRepeated(e, recs) ==
    FoldLeft(LAMBDA s, f : ReadRecord(e, s, f),
             [items |-> <<>>, unk |-> UnknownLimit, mem |-> ElementLimit,
              done |-> FALSE], recs).items

\* ExtensionCodec::decode
Decode(e, recs) ==
    LET own == SelectSeq(recs, LAMBDA f : f.num = e.num)
    IN  IF e.card = "one" THEN ReadSingular(e, own) ELSE ReadRepeated(e, own)

\* try_encode_one: a group is encoded and decoded again as unknown fields, and
\* the code takes it that this does not fail.
Overflow(recs) ==
    Loop(LAMBDA s, r : Charge(s, r, DepthLimit), [unk |-> UnknownLimit, err |-> ""],
         recs).err # ""
EncodeError(e, v) ==
    IF ~IsMsg(e) THEN ""
    ELSE IF RecordsLen(EncodeMsg(v)) > MaxMessage THEN "too_large"
    ELSE IF e.elem = "group" /\ Overflow(EncodeMsg(v)) THEN "panic"
    ELSE ""
EncodeOne(e, v) ==
    CASE e.elem = "int"    -> V(e.num, v)
      [] e.elem = "string" -> L(e.num, v)
      [] e.elem = "msg"    -> L(e.num, EncodeMsg(v))
      [] e.elem = "group"  -> G(e.num, EncodeMsg(v))

\* ExtensionCodec::try_encode into scratch space.
TryEncode(e, v) ==
    LET push(s, x) == [recs |-> Append(s.recs, EncodeOne(e, x)),
                       err |-> EncodeError(e, x)]
    IN  CASE e.card = "one"    -> push([recs |-> <<>>], v)
          [] e.card = "list"   -> Loop(push, [recs |-> <<>>, err |-> ""], v)
          [] e.card = "packed" ->
                [recs |-> IF v = <<>> THEN <<>>
                          ELSE <<L(e.num, [i \in DOMAIN v |-> V(0, v[i])])>>,
                 err |-> ""]

-----------------------------------------------------------------------------
(***************************************************************************)
(* The carrier: what its generated code does with records it does not      *)
(* know, which are all in this model.                                      *)
(***************************************************************************)
\* Mutant: a type id starts the item anew.
ItemFieldAnew(s, r) ==
    CASE r.wt = "varint" /\ r.num = 2 ->
            IF r.v \in 1 .. MaxTypeId THEN [s EXCEPT !.id = r.v, !.body = <<>>]
            ELSE Fail(s, "type_id")
      [] r.wt = "len" /\ r.num = 3 -> [s EXCEPT !.body = @ \o r.body]
      [] OTHER -> Fail(s, SkipError(r, DepthLimit - 1))

\* merge_item: in any order, the last type id and all payloads count.
ItemField(s, r) ==
    CASE r.wt = "varint" /\ r.num = 2 ->
            IF r.v \in 1 .. MaxTypeId THEN [s EXCEPT !.id = r.v]
            ELSE Fail(s, "type_id")
      [] r.wt = "len" /\ r.num = 3 -> [s EXCEPT !.body = @ \o r.body]
      [] OTHER -> Fail(s, SkipError(r, DepthLimit - 1))
MergeItem(d, r) ==
    LET item == Loop(ItemField, [id |-> 0, body |-> <<>>, err |-> ""], r.body) IN
    IF d.unk = 0 THEN Fail(d, "unknown_limit")
    ELSE IF item.err # "" THEN Fail(d, item.err)
    ELSE IF item.id = 0 THEN Fail(d, "no_type_id")
    ELSE [d EXCEPT !.unk = @ - 1, !.fields = Append(@, L(item.id, item.body))]

IsItem(r) == kind = "set" /\ r.num = 1 /\ r.wt = "group"
MergeField(d, r) ==
    LET c == Charge(d, r, DepthLimit) IN
    IF IsItem(r) THEN MergeItem(d, r)
    ELSE IF c.err # "" THEN c ELSE [c EXCEPT !.fields = Append(@, r)]
MergeBuffer(old, recs) ==
    Loop(MergeField, [fields |-> old, unk |-> UnknownLimit, err |-> ""], recs)

\* Mutant: in a MessageSet everything is an item.
EncodeFieldItem(f) ==
    IF kind = "set" THEN G(1, <<V(2, f.num), L(3, f.body)>>) ELSE f

EncodeField(f) ==
    IF kind = "set" /\ f.wt = "len" THEN G(1, <<V(2, f.num), L(3, f.body)>>) ELSE f
EncodeFields == [i \in DOMAIN fields |-> EncodeField(fields[i])]

\* item_encoded_len and UnknownField::encoded_len, for numbers of one byte.
FieldLen(f) ==
    IF kind = "set" /\ f.wt = "len" THEN 4 + 1 + 1 + RecordsLen(f.body)
    ELSE RecordsLen(<<f>>)
FieldsLen == FoldLeft(LAMBDA n, f : n + FieldLen(f), 0, fields)

-----------------------------------------------------------------------------
(***************************************************************************)
(* Calls.  Those that read change nothing: extension, has_extension,       *)
(* extension_or_default.                                                   *)
(***************************************************************************)
Declared(e) == e.extendee = Carrier

Extension(e) == IF Declared(e) THEN Decode(e, fields) ELSE "panic"
HasExtension(e) == Declared(e) /\ \E i \in DOMAIN fields : fields[i].num = e.num
ExtensionOrDefault(e) ==
    IF ~Declared(e) THEN "panic"
    ELSE IF Extension(e) # <<>> THEN Extension(e)
    ELSE IF e.default # <<>> THEN e.default
    ELSE <<CASE e.elem = "int" -> 0 [] e.elem = "string" -> <<>> [] IsMsg(e) -> EmptyMsg>>

Init ==
    /\ kind \in DOMAIN Exts
    /\ fields = <<>> /\ call = <<"new">> /\ result = "" /\ calls = 0

Call(c) ==
    /\ calls < MaxCalls
    /\ calls' = calls + 1 /\ call' = c
    /\ UNCHANGED kind
Return(new, res) == fields' = new /\ result' = res

Merge(recs) ==
    /\ Call(<<"merge", recs>>)
    /\ LET d == MergeBuffer(fields, recs) IN Return(d.fields, d.err)

Without(n) == SelectSeq(fields, LAMBDA f : f.num # n)

TrySetExtension(e, v) ==
    /\ Call(<<"set", e, v>>)
    /\ LET staged == TryEncode(e, v) IN
       IF ~Declared(e) THEN Return(fields, "panic")
       ELSE IF staged.err # "" THEN Return(fields, staged.err)
       ELSE Return(Without(e.num) \o staged.recs, "")

ClearExtension(e) ==
    /\ Call(<<"clear", e>>)
    /\ IF Declared(e) THEN Return(Without(e.num), "") ELSE Return(fields, "panic")

Idle == calls = MaxCalls /\ UNCHANGED vars

Next ==
    \/ \E recs \in Buffers[kind] : Merge(recs)
    \/ \E e \in Exts[kind] : \E v \in Values(e) : TrySetExtension(e, v)
    \/ \E e \in Exts[kind] : ClearExtension(e)
    \/ Idle

Spec == Init /\ [][Next]_vars

-----------------------------------------------------------------------------
\* What a carrier is encoded to is as long as announced and decodes to the same
\* unknown fields in the same order, whatever was set, cleared and merged: a
\* payload of a MessageSet goes back into an item, a record that was none does not
\* become one.
ReencodePreserves ==
    LET d == Loop(MergeField, [fields |-> <<>>, unk |-> 99, err |-> ""], EncodeFields)
    IN  FieldsLen = RecordsLen(EncodeFields) /\ d.err = "" /\ d.fields = fields
=============================================================================
