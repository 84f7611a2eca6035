----------------------------- MODULE ViewDecode -----------------------------
(***************************************************************************)
(* The three decoders generated for a message: the owned one, the eager    *)
(* view, which borrows from the buffer and converts later, and the lazy    *)
(* view, which keeps a message field as undecoded fragments with the depth *)
(* and the budgets that were left where it met them.                       *)
(*                                                                         *)
(* WireDecode has the owned decoder byte by byte; here a buffer is a       *)
(* sequence of records.  A slice knows at which byte it starts, because    *)
(* the unknown fields of a view are spans of the buffer.                   *)
(***************************************************************************)
EXTENDS RecordCosts, SequencesExt

CONSTANTS
    Types,
    Schema,         \* Schema[t][n] = [kind, of]: field n of type t
    EnumValues,     \* the numbers the closed enum knows
    IntMod,         \* an int32 keeps a varint modulo this
    Inputs,         \* <<type, records, limits>>
    ElementCost,    \* size_of one element: [owned, eager, lazy]
    Sentinel        \* u32::MAX and usize::MAX

\* emsg is a message of another crate, which a lazy view decodes eagerly; oint
\* and omsg are members of the type's oneof; menum and mmsg are maps from int.
Kinds == {"int", "enum", "renum", "msg", "rmsg", "emsg", "group", "oint", "omsg",
          "menum", "mmsg"}
Families == {"owned", "eager", "lazy"}

ASSUME ViewSchemaAssumption ==
    /\ \A t \in Types : \A n \in DOMAIN Schema[t] :
          Schema[t][n].kind \in Kinds /\ Schema[t][n].of \in Types
    /\ \A i \in Inputs : i[1] \in Types
    /\ \A i \in Inputs : \A k \in {"depth", "unk", "mem"} : i[3][k] < Sentinel
    /\ ElementCost["lazy"] <= ElementCost["eager"]

-----------------------------------------------------------------------------
(***************************************************************************)
(* Slices.                                                                 *)
(***************************************************************************)
\* The first n bytes of a slice, as records; a record cut in two is bad.
RECURSIVE Cut(_, _)
Cut(recs, n) ==
    IF n = 0 \/ recs = <<>> THEN <<>>
    ELSE IF Size(<<Head(recs)>>) > n THEN <<Bad>>
    ELSE <<Head(recs)>> \o Cut(Tail(recs), n - Size(<<Head(recs)>>))

\* A slice of the buffer: the byte it starts at, and its records.
Slice(at, recs) == [at |-> at, recs |-> recs]
Rest(buf) == Slice(buf.at + Size(<<Head(buf.recs)>>), Tail(buf.recs))
Body(buf) == Slice(buf.at + Header(Head(buf.recs)), Head(buf.recs).body)

-----------------------------------------------------------------------------
(***************************************************************************)
(* A decode in progress: s.val is the message so far, s.unk and s.mem the  *)
(* budgets of the DecodeContext, s.err the error it returned.              *)
(***************************************************************************)
Fail(s, e) == [s EXCEPT !.err = e]
Put(s, n, x) == [s EXCEPT !.val.fields[n] = x]

RegisterElement(s, cost) ==
    IF cost > s.mem THEN Fail(s, "element_limit") ELSE [s EXCEPT !.mem = @ - cost]

-----------------------------------------------------------------------------
(***************************************************************************)
(* UnknownFieldsView: spans of the buffer, and records made up for the     *)
(* elements of a packed enum.                                              *)
(***************************************************************************)
\* A span is `len` bytes at the head of a slice that goes on to the end of its
\* buffer; a made-up record has no tail.  `last` is the slice of the last span.
NoUnknownView == [spans |-> <<>>, last |-> <<>>, budget |-> 0, depth |-> 0]
Span(tail, len) == [tail |-> <<tail>>, len |-> len, owned |-> <<>>]
SpanRecs(sp) == IF sp.tail = <<>> THEN sp.owned ELSE Cut(sp.tail[1].recs, sp.len)

\* Mutant: any span grows, whatever came between.
ExtendsAlways(u, buf) == u.spans # <<>> /\ u.last # <<>>

\* The record at the head of buf starts where the last span ends.
Extends(u, buf) ==
    /\ u.spans # <<>> /\ Last(u.spans).tail # <<>> /\ u.last # <<>>
    /\ u.last[1].at + Last(u.spans).len = buf.at
    /\ Size(u.last[1].recs) >= Last(u.spans).len + Size(<<Head(buf.recs)>>)

AddSpan(u, buf) ==
    LET len == Size(<<Head(buf.recs)>>) IN
    IF Extends(u, buf)
      THEN [u EXCEPT !.spans = Front(@) \o <<Span(u.last[1], Last(@).len + len)>>]
      ELSE [u EXCEPT !.spans = Append(@, Span(buf, len)), !.last = <<buf>>]

\* What a conversion may use up again.
Accumulate(u, slots, depth) ==
    [u EXCEPT !.budget = @ + slots, !.depth = Max({@, depth})]

\* Mutant: only the record itself is charged, not the ones in its group.
PushRecordOuter(s, buf) ==
    IF s.unk < 1 THEN Fail(s, "unknown_limit")
    ELSE [s EXCEPT !.unk = @ - 1,
                   !.val.unk = AddSpan(Accumulate(@, 1,
                                   GroupDepth(<<Head(buf.recs)>>)), buf)]

PushRecord(s, buf) ==
    LET one == <<Head(buf.recs)>> IN
    IF s.unk < Slots(one) THEN Fail(s, "unknown_limit")
    ELSE [s EXCEPT !.unk = @ - Slots(one),
                   !.val.unk = AddSpan(Accumulate(@, Slots(one), GroupDepth(one)),
                                       buf)]

PushVarint(s, num, v) ==
    IF s.unk < 1 THEN Fail(s, "unknown_limit")
    ELSE [s EXCEPT !.unk = @ - 1,
                   !.val.unk = [Accumulate(@, 1, 0) EXCEPT
                       !.spans = Append(@, [tail |-> <<>>, len |-> 0,
                                            owned |-> <<V(num, v)>>]),
                       !.last = <<>>]]

\* to_owned: parse the spans again under what they were charged.
UnknownToOwned(u) ==
    LET recs == FlattenSeq([i \in DOMAIN u.spans |-> SpanRecs(u.spans[i])]) IN
    IF Skip(recs, u.depth) # "" THEN [err |-> Skip(recs, u.depth), val |-> <<>>]
    ELSE IF Slots(recs) > u.budget THEN [err |-> "unknown_limit", val |-> <<>>]
    ELSE [err |-> "", val |-> recs]

\* The same record kept by the owned decoder.
PushOwned(s, r) ==
    IF s.unk < Slots(<<r>>) THEN Fail(s, "unknown_limit")
    ELSE [s EXCEPT !.unk = @ - Slots(<<r>>), !.val.unk = Append(@, r)]

\* An unrecognised field or enum value: the record as it stands.
Keep(fam, s, buf) ==
    IF fam = "owned" THEN PushOwned(s, Head(buf.recs)) ELSE PushRecord(s, buf)

\* A number of a closed enum that it does not know: the owned decoder keeps the
\* int32 it read, a view the record.
KeepNumber(fam, s, num, raw, buf) ==
    IF fam = "owned" THEN PushOwned(s, V(num, raw)) ELSE PushRecord(s, buf)

-----------------------------------------------------------------------------
(***************************************************************************)
(* Message values.                                                         *)
(***************************************************************************)
\* The fragments of a lazy field, with the least depth and allowances of all.
Unset == [frags |-> <<>>, depth |-> Sentinel, unk |-> Sentinel, mem |-> Sentinel]
IsDeferred(fam, kind) == fam = "lazy" /\ kind \in {"msg", "rmsg"}

EmptyValue(fam, kind) ==
    IF kind = "int" THEN 0 ELSE IF IsDeferred(fam, kind) THEN Unset ELSE <<>>
Empty(fam, t) ==
    [fields |-> [n \in DOMAIN Schema[t] |-> EmptyValue(fam, Schema[t][n].kind)],
     oneof  |-> <<>>,
     unk    |-> IF fam = "owned" THEN <<>> ELSE NoUnknownView]

\* Mutant: an access has the default recursion limit.
PushFragmentFresh(f, frag, depth, s) ==
    [frags |-> Append(f.frags, frag), depth |-> 100,
     unk |-> Min({f.unk, s.unk}), mem |-> Min({f.mem, s.mem})]

PushFragment(f, frag, depth, s) ==
    [frags |-> Append(f.frags, frag), depth |-> Min({f.depth, depth}),
     unk |-> Min({f.unk, s.unk}), mem |-> Min({f.mem, s.mem})]

\* A map as the owned decoder keeps it; a view keeps every entry.
Insert(map, k, x) ==
    [j \in DOMAIN map \cup {k} |-> IF j = k THEN x ELSE map[j]]
StoreEntry(fam, map, k, x) ==
    IF fam = "owned" THEN Insert(map, k, x) ELSE Append(map, <<k, x>>)

-----------------------------------------------------------------------------
(***************************************************************************)
(* One field merged into a message.                                        *)
(***************************************************************************)
RECURSIVE Merge(_, _, _, _, _)

WireOf(kind) ==
    CASE kind \in {"int", "enum", "oint"} -> "varint"
      [] kind = "group"                   -> "group"
      [] OTHER                            -> "len"

\* The result r of a nested decode: its budgets, its error, and on success its
\* value where store puts it.
Absorb(s, r, store) ==
    IF r.err # "" THEN Fail(s, r.err)
    ELSE [store EXCEPT !.unk = r.unk, !.mem = r.mem]

\* The decode of a nested message, into `old` or into an empty one.
Nested(fam, of, old, s, depth, buf) ==
    Merge(fam, of, [s EXCEPT !.val = IF old = <<>> THEN Empty(fam, of) ELSE old[1]],
          depth - 1, Body(buf))

\* The family of the messages in a map, a oneof or another crate.
Inner(fam) == IF fam = "lazy" THEN "eager" ELSE fam

MergeSingular(fam, n, f, s, depth, buf) ==
    LET r == Nested(Inner(fam), f.of, s.val.fields[n], s, depth, buf)
    IN  Absorb(s, r, Put(s, n, <<r.val>>))

\* The end of a group is looked for before its fields are decoded.
MergeGroup(fam, n, f, s, depth, buf) ==
    IF fam # "owned" /\ Skip(Body(buf).recs, depth - 1) # ""
      THEN Fail(s, Skip(Body(buf).recs, depth - 1))
      ELSE MergeSingular(fam, n, f, s, depth, buf)

PushElement(fam, n, f, s, depth, buf) ==
    IF s.err # "" THEN s
    ELSE LET r == Nested(fam, f.of, <<>>, s, depth, buf)
         IN  Absorb(s, r, Put(s, n, Append(s.val.fields[n], r.val)))

\* A oneof member that is already this one is merged into.
MergeMember(fam, n, f, s, depth, buf) ==
    LET old == IF s.val.oneof # <<>> /\ s.val.oneof[1] = n
                 THEN <<s.val.oneof[2]>> ELSE <<>>
        r   == Nested(Inner(fam), f.of, old, s, depth, buf)
    IN  Absorb(s, r, [s EXCEPT !.val.oneof = <<n, r.val>>])

\* A fragment or an element that is decoded on access.
Defer(n, s, depth, buf) ==
    IF s.err # "" THEN s
    ELSE Put(s, n, PushFragment(s.val.fields[n], Body(buf), depth - 1, s))

Elements(fam, n, f, s, depth, buf) ==
    IF IsDeferred(fam, f.kind) THEN Defer(n, s, depth, buf)
    ELSE PushElement(fam, n, f, s, depth, buf)

MergeMessage(fam, n, f, s, depth, buf) ==
    IF depth = 0 THEN Fail(s, "recursion")
    ELSE CASE f.kind = "rmsg" \/ IsDeferred(fam, f.kind) ->
                 Elements(fam, n, f, RegisterElement(s, ElementCost[fam]),
                          depth, buf)
           [] f.kind = "omsg"  -> MergeMember(fam, n, f, s, depth, buf)
           [] f.kind = "group" -> MergeGroup(fam, n, f, s, depth, buf)
           [] OTHER            -> MergeSingular(fam, n, f, s, depth, buf)

MergeEnum(fam, n, s, buf) ==
    LET raw == Head(buf.recs).v % IntMod IN
    IF raw \in EnumValues THEN Put(s, n, <<raw>>)
    ELSE KeepNumber(fam, s, n, raw, buf)

\* The elements of a packed payload.
RECURSIVE MergePacked(_, _, _, _)
MergePacked(fam, n, s, recs) ==
    IF s.err # "" \/ recs = <<>> THEN s
    ELSE LET raw == Head(recs).v % IntMod IN
         IF Head(recs).wt # "varint" THEN Fail(s, "eof")
         ELSE MergePacked(fam, n,
                CASE raw \in EnumValues ->
                       Put(s, n, Append(s.val.fields[n], raw))
                  [] fam = "owned" -> PushOwned(s, V(n, raw))
                  [] OTHER         -> PushVarint(s, n, raw), Tail(recs))

MergeRepeatedEnum(fam, n, s, buf) ==
    LET r == Head(buf.recs) IN
    CASE r.wt = "len" -> MergePacked(fam, n, s, r.body)
      [] r.wt = "varint" /\ r.v % IntMod \in EnumValues ->
            Put(s, n, Append(s.val.fields[n], r.v % IntMod))
      [] r.wt = "varint" -> KeepNumber(fam, s, n, r.v % IntMod, buf)
      [] OTHER           -> Fail(s, "mismatch")

\* A map entry: e.key, e.val and whether its last enum number is unknown.
EntryField(fam, f, e, depth, buf) ==
    LET r == Head(buf.recs) IN
    CASE r.wt = "bad" \/ r.num = 0 -> Fail(e, "eof")
      [] r.num \notin {1, 2}       -> Fail(e, Skip(<<r>>, depth))
      [] r.num = 1 -> IF r.wt # "varint" THEN Fail(e, "mismatch")
                      ELSE [e EXCEPT !.key = r.v % IntMod]
      [] f.kind = "menum" ->
            IF r.wt # "varint" THEN Fail(e, "mismatch")
            ELSE IF r.v % IntMod \in EnumValues
              THEN [e EXCEPT !.val = r.v % IntMod, !.known = TRUE]
            ELSE [e EXCEPT !.known = FALSE]
      [] OTHER ->
            IF r.wt # "len" THEN Fail(e, "mismatch")
            ELSE IF depth = 0 THEN Fail(e, "recursion")
            ELSE LET m == Merge(fam, f.of, [val |-> e.val, unk |-> e.unk,
                                            mem |-> e.mem, err |-> ""],
                                depth - 1, Body(buf))
                 IN  [e EXCEPT !.val = m.val, !.unk = m.unk, !.mem = m.mem,
                               !.err = m.err]

RECURSIVE MergeEntry(_, _, _, _, _)
MergeEntry(fam, f, e, depth, buf) ==
    IF e.err # "" \/ buf.recs = <<>> THEN e
    ELSE MergeEntry(fam, f, EntryField(fam, f, e, depth, buf), depth, Rest(buf))

FinishEntry(fam, n, s, e, buf) ==
    IF e.err # "" THEN Fail(s, e.err)
    ELSE IF ~ e.known THEN Keep(fam, [s EXCEPT !.unk = e.unk, !.mem = e.mem], buf)
    ELSE Put([s EXCEPT !.unk = e.unk, !.mem = e.mem], n,
             StoreEntry(fam, s.val.fields[n], e.key, e.val))

MergeMap(fam, n, f, s, depth, buf) ==
    IF s.err # "" THEN s
    ELSE FinishEntry(fam, n, s,
           MergeEntry(Inner(fam), f,
             [key |-> 0, known |-> TRUE, unk |-> s.unk, mem |-> s.mem, err |-> "",
              val |-> IF f.kind = "menum" THEN 0 ELSE Empty(Inner(fam), f.of)],
             depth, Body(buf)), buf)

MergeKnown(fam, n, f, s, depth, buf) ==
    LET r == Head(buf.recs) IN
    CASE f.kind = "renum"      -> MergeRepeatedEnum(fam, n, s, buf)
      [] r.wt # WireOf(f.kind) -> Fail(s, "mismatch")
      [] f.kind = "int"        -> Put(s, n, r.v % IntMod)
      [] f.kind = "oint"       ->
            [s EXCEPT !.val.oneof = <<n, r.v % IntMod>>]
      [] f.kind = "enum"       -> MergeEnum(fam, n, s, buf)
      [] f.kind \in {"menum", "mmsg"} ->
            MergeMap(fam, n, f, RegisterElement(s, ElementCost[Inner(fam)]),
                     depth, buf)
      [] OTHER                 -> MergeMessage(fam, n, f, s, depth, buf)

\* An unrecognised field is skipped over, then kept.
MergeUnknown(fam, s, depth, buf) ==
    LET e == Skip(<<Head(buf.recs)>>, depth) IN
    IF e # "" THEN Fail(s, e) ELSE Keep(fam, s, buf)

MergeField(fam, t, s, depth, buf) ==
    LET r == Head(buf.recs) IN
    IF r.wt = "bad" \/ r.num = 0 THEN Fail(s, "eof")
    ELSE IF r.num \in DOMAIN Schema[t]
      THEN MergeKnown(fam, r.num, Schema[t][r.num], s, depth, buf)
      ELSE MergeUnknown(fam, s, depth, buf)

\* The loop of Message::merge, merge_into_view and _merge_lazy.
Merge(fam, t, s, depth, buf) ==
    IF s.err # "" \/ buf.recs = <<>> THEN s
    ELSE Merge(fam, t, MergeField(fam, t, s, depth, buf), depth, Rest(buf))

\* A fresh message decoded from some slices under given limits.
RECURSIVE MergeAll(_, _, _, _, _)
MergeAll(fam, t, s, depth, bufs) ==
    IF bufs = <<>> THEN s
    ELSE MergeAll(fam, t, Merge(fam, t, s, depth, Head(bufs)), depth, Tail(bufs))
Decode(fam, t, bufs, limits) ==
    MergeAll(fam, t, [val |-> Empty(fam, t), unk |-> limits.unk,
                      mem |-> limits.mem, err |-> ""], limits.depth, bufs)

\* LazyMessageFieldView::get of a field that is set.
Get(of, f) == Decode("lazy", of, f.frags, f)

\* LazyRepeatedView::get.
GetElement(of, f, i) == Decode("lazy", of, <<f.frags[i]>>, f)

-----------------------------------------------------------------------------
(***************************************************************************)
(* to_owned_message of the two views.                                      *)
(***************************************************************************)
Ok(x) == [err |-> "", val |-> x]
Err(e) == [err |-> e, val |-> <<>>]

\* Results collected, or the first error.
Collect(rs) ==
    LET bad == {i \in DOMAIN rs : rs[i].err # ""} IN
    IF bad # {} THEN Err(rs[CHOOSE i \in bad : \A j \in bad : i <= j].err)
    ELSE Ok([i \in DOMAIN rs |-> rs[i].val])

RECURSIVE ToOwned(_, _, _)

\* A decode that is converted if it succeeded.
ConvertDecoded(fam, of, r) ==
    IF r.err # "" THEN Err(r.err) ELSE ToOwned(fam, of, r.val)

MapToOwned(f, entries) ==
    LET vals == Collect([i \in DOMAIN entries |->
                   IF f.kind = "menum" THEN Ok(entries[i][2])
                   ELSE ToOwned("eager", f.of, entries[i][2])])
        into(map, i) == Insert(map, entries[i][1], vals.val[i])
    IN  IF vals.err # "" THEN vals
        ELSE Ok(FoldLeft(into, <<>>, [i \in DOMAIN entries |-> i]))

FieldToOwned(fam, f, x) ==
    CASE f.kind \in {"int", "enum", "renum"} -> Ok(x)
      [] f.kind \in {"menum", "mmsg"} -> MapToOwned(f, x)
      [] IsDeferred(fam, f.kind) ->
            IF f.kind = "rmsg"
              THEN Collect([i \in DOMAIN x.frags |->
                      ConvertDecoded(fam, f.of, GetElement(f.of, x, i))])
            ELSE IF x.frags = <<>> THEN Ok(<<>>)
            ELSE Collect(<<ConvertDecoded(fam, f.of, Get(f.of, x))>>)
      [] OTHER -> Collect([i \in DOMAIN x |->
                      ToOwned(IF f.kind = "rmsg" THEN fam ELSE Inner(fam),
                              f.of, x[i])])

OneofToOwned(t, oneof) ==
    IF oneof = <<>> \/ Schema[t][oneof[1]].kind = "oint" THEN Ok(oneof)
    ELSE LET r == ToOwned("eager", Schema[t][oneof[1]].of, oneof[2])
         IN  IF r.err # "" THEN r ELSE Ok(<<oneof[1], r.val>>)

OwnedFrom(fields, oneof, unk) ==
    IF fields.err # "" THEN fields
    ELSE IF oneof.err # "" THEN oneof
    ELSE IF unk.err # "" THEN unk
    ELSE Ok([fields |-> fields.val, oneof |-> oneof.val, unk |-> unk.val])

ToOwned(fam, t, val) ==
    OwnedFrom(Collect([n \in DOMAIN Schema[t] |->
                  FieldToOwned(fam, Schema[t][n], val.fields[n])]),
              OneofToOwned(t, val.oneof), UnknownToOwned(val.unk))

-----------------------------------------------------------------------------
(***************************************************************************)
(* ViewEncode: fields by number, a oneof at its least one, then the        *)
(* unknown fields.                                                         *)
(***************************************************************************)
RECURSIVE Encode(_, _, _)

EntryRec(n, f, e) ==
    L(n, <<V(1, e[1]), IF f.kind = "menum" THEN V(2, e[2])
                       ELSE L(2, Encode("eager", f.of, e[2]))>>)

FieldRecs(fam, n, f, x) ==
    CASE f.kind = "int"   -> IF x = 0 THEN <<>> ELSE <<V(n, x)>>
      [] f.kind = "enum"  -> [i \in DOMAIN x |-> V(n, x[i])]
      [] f.kind = "renum" ->
            IF x = <<>> THEN <<>> ELSE <<L(n, [i \in DOMAIN x |-> V(0, x[i])])>>
      [] f.kind \in {"menum", "mmsg"} ->
            [i \in DOMAIN x |-> EntryRec(n, f, x[i])]
      [] IsDeferred(fam, f.kind) ->
            [i \in DOMAIN x.frags |-> L(n, x.frags[i].recs)]
      [] f.kind = "group" -> [i \in DOMAIN x |-> G(n, Encode(Inner(fam), f.of, x[i]))]
      [] OTHER -> [i \in DOMAIN x |->
             L(n, Encode(IF f.kind = "rmsg" THEN fam ELSE Inner(fam), f.of, x[i]))]

OneofRecs(t, oneof) ==
    IF oneof = <<>> THEN <<>>
    ELSE IF Schema[t][oneof[1]].kind = "oint" THEN <<V(oneof[1], oneof[2])>>
    ELSE <<L(oneof[1], Encode("eager", Schema[t][oneof[1]].of, oneof[2]))>>

Encode(fam, t, val) ==
    LET members == {n \in DOMAIN Schema[t] : Schema[t][n].kind \in {"oint", "omsg"}}
        order == SetToSortSeq(DOMAIN Schema[t], LAMBDA a, b : a < b)
        recs(n) ==
            IF n \notin members THEN FieldRecs(fam, n, Schema[t][n], val.fields[n])
            ELSE IF n = Min(members) THEN OneofRecs(t, val.oneof) ELSE <<>>
    IN  FlattenSeq([i \in DOMAIN order |-> recs(order[i])]
           \o [i \in DOMAIN val.unk.spans |-> SpanRecs(val.unk.spans[i])])

-----------------------------------------------------------------------------
(***************************************************************************)
(* The calls: one buffer given to the three decoders, then the fields of   *)
(* the lazy view accessed, and the eager view followed along.              *)
(***************************************************************************)
VARIABLES
    input,      \* the type, the buffer and the limits
    phase,      \* "owned", "eager", "lazy": the decoder whose turn it is; "open"
    owned, eager, lazy,     \* what they returned
    at,         \* the type of the message the two views are at
    path        \* how it was reached

vars == <<input, phase, owned, eager, lazy, at, path>>

Root == input[1]
Wire == Slice(0, input[2])
Limits == input[3]

Init ==
    /\ input \in Inputs
    /\ phase = "owned"
    /\ owned = Err("none") /\ eager = Err("none") /\ lazy = Err("none")
    /\ at = input[1]
    /\ path = <<>>

DecodeOwned ==
    /\ phase = "owned"
    /\ owned' = Decode("owned", Root, <<Wire>>, Limits)
    /\ phase' = "eager"
    /\ UNCHANGED <<input, eager, lazy, at, path>>

DecodeView ==
    /\ phase = "eager"
    /\ eager' = Decode("eager", Root, <<Wire>>, Limits)
    /\ phase' = "lazy"
    /\ UNCHANGED <<input, owned, lazy, at, path>>

DecodeLazyView ==
    /\ phase = "lazy"
    /\ lazy' = Decode("lazy", Root, <<Wire>>, Limits)
    /\ phase' = "open"
    /\ UNCHANGED <<input, owned, eager, at, path>>

\* The views go on to a message of field n.
Enter(n, child, twin) ==
    /\ lazy' = child
    /\ eager' = IF eager.err = "" THEN Ok(twin) ELSE eager
    /\ at' = Schema[at][n].of
    /\ path' = Append(path, n)
    /\ UNCHANGED <<input, phase, owned>>

Access(n) ==
    /\ phase = "open" /\ lazy.err = ""
    /\ Schema[at][n].kind = "msg"
    /\ LET f == lazy.val.fields[n] IN
       /\ f.frags # <<>>
       /\ Enter(n, Get(Schema[at][n].of, f),
                IF eager.err = "" THEN eager.val.fields[n][1] ELSE <<>>)

AccessElement(n) ==
    /\ phase = "open" /\ lazy.err = ""
    /\ Schema[at][n].kind = "rmsg"
    /\ \E i \in DOMAIN lazy.val.fields[n].frags :
          Enter(n, GetElement(Schema[at][n].of, lazy.val.fields[n], i),
                IF eager.err = "" THEN eager.val.fields[n][i] ELSE <<>>)

Open == phase = "open" /\ UNCHANGED vars

Next ==
    \/ DecodeOwned \/ DecodeView \/ DecodeLazyView
    \/ \E n \in DOMAIN Schema[at] : Access(n) \/ AccessElement(n)
    \/ Open

Spec == Init /\ [][Next]_vars

-----------------------------------------------------------------------------
(***************************************************************************)
(* Properties.                                                             *)
(***************************************************************************)
\* The numbers of a closed enum among the unknown fields cut down to an int32:
\* a view keeps the record and the owned decoder what it read from it.
RECURSIVE Canonical(_, _)
CanonicalUnknown(t, unk) ==
    [i \in DOMAIN unk |->
        IF unk[i].num \in DOMAIN Schema[t] THEN [unk[i] EXCEPT !.v = @ % IntMod]
        ELSE unk[i]]
CanonicalField(f, x) ==
    IF f.kind \in {"int", "enum", "renum", "menum"} THEN x
    ELSE [i \in DOMAIN x |-> Canonical(f.of, x[i])]
Canonical(t, val) ==
    [fields |-> [n \in DOMAIN Schema[t] |->
                    CanonicalField(Schema[t][n], val.fields[n])],
     oneof  |-> IF val.oneof = <<>> \/ Schema[t][val.oneof[1]].kind = "oint"
                  THEN val.oneof
                  ELSE <<val.oneof[1],
                         Canonical(Schema[t][val.oneof[1]].of, val.oneof[2])>>,
     unk    |-> CanonicalUnknown(t, val.unk)]

Agree(t, a, b) == Canonical(t, a) = Canonical(t, b)

\* An eager view and the owned decoder accept the same buffers, but for the
\* memory of elements, whose sizes differ.  An accepted view always converts --
\* its unknown fields never exceed what their decode was charged, wherever its
\* spans were joined -- and to what the owned decoder returns.
ViewMatchesOwned ==
    phase \notin {"owned", "eager"} =>
        LET c == ConvertDecoded("eager", at, eager) IN
        /\ eager.err = "" => c.err = ""
        /\ path = <<>> =>
              /\ eager.err = "" =>
                    \/ owned.err = "element_limit"
                    \/ owned.err = "" /\ Agree(at, c.val, owned.val)
              /\ owned.err = "" => eager.err \in {"", "element_limit"}

\* A lazy view is the eager one, later: wherever the eager decode succeeds, what
\* an access to any depth returns converts to the same, unless the fragments do
\* not fit; and a buffer the eager decode refuses for anything but a budget,
\* recursion included, is one a full traversal refuses.
LazyMatchesEager ==
    phase = "open" =>
        LET c == ConvertDecoded("lazy", at, lazy) IN
        /\ eager.err = "" =>
              \/ c.err = "element_limit"
              \/ c.err = "" /\ c.val = ConvertDecoded("eager", at, eager).val
        /\ path = <<>> /\ c.err = "" =>
              eager.err \in {"", "unknown_limit", "element_limit"}

\* A view encodes to what decodes to the same message as its own buffer; and a
\* lazy view, whose fragments go out unread, even to what fails like it.
ReencodePreserves ==
    phase = "open" /\ path = <<>> =>
        LET again(fam, val) ==
              Decode("owned", at, <<Slice(0, Encode(fam, at, val))>>, Limits)
            same(r) ==
              \/ "element_limit" \in {owned.err, r.err}
              \/ owned.err = "" /\ r.err = "" /\ Agree(at, owned.val, r.val)
        IN  /\ eager.err = "" => same(again("eager", eager.val))
            /\ lazy.err = "" /\ owned.err = "" => same(again("lazy", lazy.val))
            /\ lazy.err = "" /\ owned.err # "" => again("lazy", lazy.val).err # ""
=============================================================================
