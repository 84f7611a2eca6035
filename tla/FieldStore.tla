----------------------------- MODULE FieldStore -----------------------------
(***************************************************************************)
(* What a reflective message promises: the content of its set fields, and  *)
(* the unknown fields.  A merge counts at once, and what it leaves is said *)
(* of the whole buffer: the last value of a field, all elements of a list, *)
(* the last entry of a key, one message merged from all of its parts, and  *)
(* of a oneof the member that comes last.                                  *)
(***************************************************************************)
EXTENDS Records, SequencesExt

CONSTANTS
    Root, Fields,       \* Fields[t][n]: the fields and extensions of type t
    EnumValues, IntMod,
    Merges, Writes,     \* the buffers that are merged, the <<n, value>> written
    Meant(_, _), Held(_, _),    \* the content of a value given for field n, or
                                \* written in place there
    Tampered            \* the content of a value that has not its field's shape

VARIABLES store, extra, call, busy, result
vars == <<store, extra, call, busy, result>>

Empty == [fields |-> <<>>, extra |-> <<>>]

-----------------------------------------------------------------------------
Compatible(f, wt) ==
    CASE f.card = "map"  -> wt = "len"
      [] f.elem = "msg"  -> wt \in {"len", "group"}
      [] f.card = "list" -> wt \in {"len", "varint"}
      [] OTHER           -> wt = "varint"
IsField(t, r) == r.num \in DOMAIN Fields[t] /\ Compatible(Fields[t][r.num], r.wt)

Foreign(e) == e.v % IntMod \notin EnumValues
Numbered(recs, n) == SelectSeq(recs, LAMBDA r : r.num = n)

\* The records that hold no value of the enum they are of, as they are kept.
Strays(t, r) ==
    LET f == Fields[t][r.num]
        e == IF r.wt = "len" THEN r.body ELSE <<r>>
        odd == SelectSeq(e, Foreign)
        vals == Numbered(r.body, 2)
    IN  IF f.elem # "enum" THEN <<>>
        ELSE IF f.card = "map"
          THEN IF vals # <<>> /\ Foreign(Last(vals)) THEN <<r>> ELSE <<>>
        ELSE [i \in DOMAIN odd |-> V(r.num, odd[i].v % IntMod)]
Leaves(t, r) == IF IsField(t, r) THEN Strays(t, r) ELSE <<r>>

\* r sets its field.
Carries(t, r) ==
    IsField(t, r) /\ (Fields[t][r.num].card = "list" \/ Strays(t, r) = <<>>)

SiblingsOf(t, n) ==
    {k \in DOMAIN Fields[t] \ {n} :
        Fields[t][n].oneof # 0 /\ Fields[t][k].oneof = Fields[t][n].oneof}

\* The last record that ends what field n of a oneof held, or 0.
Cutoff(t, n, recs) ==
    Max({0} \cup {i \in DOMAIN recs :
                    recs[i].num \in SiblingsOf(t, n) /\ Carries(t, recs[i])})

RECURSIVE Merged(_, _, _)

Elements(f, r) ==
    LET e == IF r.wt = "len" THEN r.body ELSE <<r>> IN
    CASE f.elem = "int"  -> [i \in DOMAIN e |-> e[i].v]
      [] f.elem = "enum" -> LET known == SelectSeq(e, LAMBDA x : ~Foreign(x))
                            IN  [i \in DOMAIN known |-> known[i].v % IntMod]
      [] f.elem = "msg"  -> <<Merged(f.of, Empty, r.body)>>

EntryKey(r) ==
    IF Numbered(r.body, 1) = <<>> THEN 0 ELSE Last(Numbered(r.body, 1)).v
EntryContent(f, r) ==
    LET vals == Numbered(r.body, 2) IN
    CASE f.elem = "msg" ->
            Merged(f.of, Empty, FlattenSeq([i \in DOMAIN vals |-> vals[i].body]))
      [] vals = <<>>     -> 0
      [] f.elem = "int"  -> Last(vals).v
      [] f.elem = "enum" -> Last(vals).v % IntMod

\* Field f after the records `own`, one or more; prior is <<>> or its content.
FieldAfter(f, prior, own) ==
    CASE f.card = "list" ->
            (IF prior = <<>> THEN <<>> ELSE prior[1])
              \o FlattenSeq([i \in DOMAIN own |-> Elements(f, own[i])])
      [] f.card = "map" ->
            LET old == IF prior = <<>> THEN <<>> ELSE prior[1]
                keys == {EntryKey(own[i]) : i \in DOMAIN own}
                last(k) == Last(SelectSeq(own, LAMBDA r : EntryKey(r) = k))
            IN  [k \in DOMAIN old \cup keys |->
                    IF k \in keys THEN EntryContent(f, last(k)) ELSE old[k]]
      [] f.elem = "msg" ->
            Merged(f.of, IF prior = <<>> THEN Empty ELSE prior[1],
                   FlattenSeq([i \in DOMAIN own |-> own[i].body]))
      [] f.elem = "int"  -> Last(own).v
      [] f.elem = "enum" -> Last(own).v % IntMod

\* A list or a map without elements, and an implicit zero, are as good as unset.
Unset(f, x) == IF f.card = "one" THEN f.implicit /\ x = 0 ELSE DOMAIN x = {}

Merged(t, c, recs) ==
    LET cut(n) == Cutoff(t, n, recs)
        own(n) == SelectSeq(SubSeq(recs, cut(n) + 1, Len(recs)),
                            LAMBDA r : r.num = n /\ Carries(t, r))
        prior(n) == IF n \in DOMAIN c.fields /\ cut(n) = 0
                      THEN <<c.fields[n]>> ELSE <<>>
        after(n) == IF own(n) = <<>> THEN prior(n)
                    ELSE <<FieldAfter(Fields[t][n], prior(n), own(n))>>
        isSet(n, x) == x # <<>> /\ (own(n) = <<>> \/ ~Unset(Fields[t][n], x[1]))
    IN  [fields |-> [n \in {k \in DOMAIN Fields[t] : isSet(k, after(k))} |->
                        after(n)[1]],
         extra  |-> c.extra \o FlattenSeq([i \in DOMAIN recs |-> Leaves(t, recs[i])])]

-----------------------------------------------------------------------------
SetOf(fields, n, x) == [k \in DOMAIN fields \cup {n} |->
                           IF k = n THEN x ELSE fields[k]]
Unsets(fields, gone) == [k \in DOMAIN fields \ gone |-> fields[k]]
SameBut(a, b, loose) ==
    /\ DOMAIN a \ loose = DOMAIN b \ loose
    /\ \A n \in DOMAIN a \ loose : a[n] = b[n]

Init ==
    /\ store = <<>> /\ extra = <<>>
    /\ call = <<"new">> /\ busy = FALSE /\ result = "ok"

Call(c) == ~busy /\ call' = c
Answer(fields, res) == store' = fields /\ result' = res /\ UNCHANGED <<extra, busy>>

Ask(recs) ==
    /\ Call(<<"merge", recs>>)
    /\ busy' = TRUE
    /\ UNCHANGED <<store, extra, result>>

\* A tampered field that the buffer names may be merged into or start anew.
MergeAll ==
    /\ busy /\ busy' = FALSE /\ UNCHANGED call
    /\ result' = "ok"
    /\ LET recs  == call[2]
           loose == {n \in DOMAIN store : store[n] = Tampered
                        /\ \E i \in DOMAIN recs : recs[i].num = n}
           c     == Merged(Root, [fields |-> Unsets(store, loose), extra |-> extra],
                           recs)
       IN  SameBut(store', c.fields, loose) /\ extra' = c.extra

\* The records before the one that failed count; that one may have changed its
\* own field, and left some of the numbers it held as unknown fields.
MergeSome ==
    /\ busy /\ busy' = FALSE /\ UNCHANGED call
    /\ result' = "error"
    /\ \E i \in DOMAIN call[2] :
          LET recs  == SubSeq(call[2], 1, i - 1)
              loose == {n \in DOMAIN store : store[n] = Tampered
                           /\ \E j \in DOMAIN recs : recs[j].num = n}
              c     == Merged(Root, [fields |-> Unsets(store, loose),
                                     extra |-> extra], recs)
          IN  /\ SameBut(store', c.fields, loose \cup {call[2][i].num})
              /\ \E j \in 0 .. Len(call[2][i].body) :
                    extra' = c.extra \o SubSeq(Leaves(Root, call[2][i]), 1, j)

Set(n, v) ==
    /\ Call(<<"set", n, v>>)
    /\ LET x == Meant(n, v)
           rest == Unsets(store, SiblingsOf(Root, n))
       IN  \/ /\ x # Tampered /\ n \in DOMAIN Fields[Root]
              /\ Answer(IF Unset(Fields[Root][n], x) THEN Unsets(rest, {n})
                        ELSE SetOf(rest, n, x), "ok")
           \/ Answer(store, "error")

Clear(n) ==
    /\ Call(<<"clear", n>>)
    /\ Answer(Unsets(store, {n}), "ok") \/ Answer(store, "error")

Take(n) ==
    /\ Call(<<"take", n>>)
    /\ Answer(Unsets(store, {n}), IF n \in DOMAIN store THEN "some" ELSE "none")

\* A value written in place, of any shape, may be one that reads as unset.
Write(n, v) ==
    /\ Call(<<"write", n, v>>)
    /\ DOMAIN store \cap SiblingsOf(Root, n) = {}
    /\ LET x == Held(n, v) IN
       \/ Answer(SetOf(store, n, x), "ok")
       \/ /\ x = Tampered \/ Unset(Fields[Root][n], x)
          /\ Answer(Unsets(store, {n}), "ok")

Next ==
    \/ \E recs \in Merges : Ask(recs)
    \/ MergeAll
    \/ MergeSome
    \/ \E w \in Writes : Set(w[1], w[2]) \/ Write(w[1], w[2])
    \/ \E w \in Writes : Clear(w[1]) \/ Take(w[1])

Spec == Init /\ [][Next]_vars
=============================================================================
