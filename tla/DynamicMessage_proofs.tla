----------------------- MODULE DynamicMessage_proofs -----------------------
(***************************************************************************)
(* Proofs about DynamicMessage: it stays well formed, and a record that    *)
(* fails to merge touches no field but its own, for every schema the pool  *)
(* accepts, every buffer and whatever sub-messages hold.                   *)
(***************************************************************************)
EXTENDS DynamicMessage, TLAPS

(***************************************************************************)
(* The inductive invariant: the message keeps its type and its pool, with  *)
(* which its numbers resolve and its oneofs are exclusive.                 *)
(***************************************************************************)
IsMessage(m) == {"pool", "type", "fields", "unknown"} \subseteq DOMAIN m
IsDecode(d) == {"msg", "unk", "mem", "err"} \subseteq DOMAIN d

Exclusive(m) ==
    \A n \in DOMAIN m.fields :
        Resolves(m, n) /\ DOMAIN m.fields \cap Siblings(m, n) = {}
Good(m) == IsMessage(m) /\ m.type = Root /\ m.pool = Home /\ Exclusive(m)
GoodDecode(d) == IsDecode(d) /\ Good(d.msg)

SameBut(m, o, n) ==
    /\ DOMAIN m.fields \ {n} = DOMAIN o.fields \ {n}
    /\ \A k \in DOMAIN m.fields \ {n} : o.fields[k] = m.fields[k]

\* What a record for field n may make of the decode d.
Step(d, e, n) == GoodDecode(e) /\ (e.err # "" => SameBut(d.msg, e.msg, n))

IsContext == Merging => {"depth", "unk", "mem", "err"} \subseteq DOMAIN ctx
IInv == Good(msg) /\ IsContext /\ MapsSorted

-----------------------------------------------------------------------------
(***************************************************************************)
(* Descriptors.                                                            *)
(***************************************************************************)
LEMMA FieldLemma ==
    ASSUME NEW m, NEW n, m.type = Root, m.pool = Home, Resolves(m, n)
    PROVE  /\ FieldOf(m, n).card \in {"one", "list", "map"}
           /\ FieldOf(m, n).elem \in {"int", "enum", "msg"}
           /\ n \notin DOMAIN Schema[Root] => FieldOf(m, n).oneof = 0
           /\ FieldOf(m, n).card # "one" => FieldOf(m, n).oneof = 0
  BY DescriptorAssumption
     DEF SchemaAssumption, ExtensionAssumption, Resolves, Registered, FieldOf

LEMMA SiblingsSymmetric ==
    ASSUME NEW m, NEW n, NEW k \in Siblings(m, n),
           m.type = Root, m.pool = Home, Resolves(m, n)
    PROVE  n \in Siblings(m, k) /\ k # n
  <1>1. n \in DOMAIN Schema[Root]
    BY FieldLemma DEF Siblings
  <1> QED
    BY <1>1 DEF Siblings, FieldOf

LEMMA SameDescriptors ==
    ASSUME NEW m, NEW o, NEW n, m.type = o.type, m.pool = o.pool
    PROVE  /\ Resolves(m, n) <=> Resolves(o, n)
           /\ FieldOf(m, n) = FieldOf(o, n)
           /\ Siblings(m, n) = Siblings(o, n)
  BY DEF Resolves, Registered, FieldOf, Siblings

-----------------------------------------------------------------------------
(***************************************************************************)
(* Changes of a message.                                                   *)
(***************************************************************************)
LEMMA InsertLemma ==
    ASSUME NEW m, NEW n, NEW v, IsMessage(m)
    PROVE  /\ IsMessage(Insert(m, n, v))
           /\ Insert(m, n, v).type = m.type
           /\ Insert(m, n, v).pool = m.pool
           /\ DOMAIN Insert(m, n, v).fields = DOMAIN m.fields \cup {n}
           /\ Insert(m, n, v).fields[n] = v
           /\ SameBut(m, Insert(m, n, v), n)
  BY DEF Insert, IsMessage, SameBut

LEMMA WithoutLemma ==
    ASSUME NEW m, NEW gone, IsMessage(m)
    PROVE  /\ IsMessage(Without(m, gone))
           /\ Without(m, gone).type = m.type
           /\ Without(m, gone).pool = m.pool
           /\ DOMAIN Without(m, gone).fields = DOMAIN m.fields \ gone
           /\ \A k \in DOMAIN m.fields \ gone :
                 Without(m, gone).fields[k] = m.fields[k]
  BY DEF Without, IsMessage

LEMMA WithoutGood ==
    ASSUME NEW m, NEW gone, Good(m)
    PROVE  Good(Without(m, gone))
  BY WithoutLemma, SameDescriptors DEF Good, Exclusive

\* A value goes in beside no sibling.
LEMMA InsertGood ==
    ASSUME NEW m, NEW n, NEW v, Good(m), Resolves(m, n),
           DOMAIN m.fields \cap Siblings(m, n) = {}
    PROVE  Good(Insert(m, n, v))
  <1> DEFINE o == Insert(m, n, v)
  <1>1. IsMessage(o) /\ o.type = Root /\ o.pool = Home
        /\ DOMAIN o.fields = DOMAIN m.fields \cup {n}
    BY InsertLemma DEF Good
  <1>2. ASSUME NEW k \in DOMAIN o.fields
        PROVE  Resolves(o, k) /\ DOMAIN o.fields \cap Siblings(o, k) = {}
    <2>1. Resolves(m, k) /\ DOMAIN m.fields \cap Siblings(m, k) = {}
      BY <1>1, <1>2 DEF Good, Exclusive
    <2>2. n \notin Siblings(m, k)
      <3>1. CASE k = n
        BY <3>1 DEF Siblings
      <3>2. CASE k # n
        BY <3>2, <2>1, <1>1, SiblingsSymmetric DEF Good
      <3> QED
        BY <3>1, <3>2
    <2> HIDE DEF o
    <2> QED
      BY <2>1, <2>2, <1>1, SameDescriptors DEF Good
  <1> QED
    BY <1>1, <1>2 DEF Good, Exclusive

LEMMA ClearGood ==
    ASSUME NEW m, NEW n, Good(m)
    PROVE  /\ Good(ClearOneofSiblings(m, n))
           /\ DOMAIN ClearOneofSiblings(m, n).fields
                 \cap Siblings(ClearOneofSiblings(m, n), n) = {}
           /\ Resolves(m, n) => Resolves(ClearOneofSiblings(m, n), n)
           /\ n \in DOMAIN m.fields =>
                 SameBut(m, ClearOneofSiblings(m, n), n)
  <1> DEFINE o == ClearOneofSiblings(m, n)
  <1>1. Good(o)
    BY WithoutGood DEF ClearOneofSiblings
  <1>2. /\ DOMAIN o.fields = DOMAIN m.fields \ Siblings(m, n)
        /\ \A k \in DOMAIN m.fields \ Siblings(m, n) : o.fields[k] = m.fields[k]
        /\ Siblings(o, n) = Siblings(m, n)
        /\ Resolves(m, n) => Resolves(o, n)
    BY WithoutLemma, SameDescriptors DEF ClearOneofSiblings, Good
  <1>3. n \in DOMAIN m.fields => DOMAIN m.fields \cap Siblings(m, n) = {}
    BY DEF Good, Exclusive
  <1> HIDE DEF o
  <1>4. n \in DOMAIN m.fields => SameBut(m, o, n)
    BY <1>2, <1>3 DEF SameBut
  <1> QED
    BY <1>1, <1>2, <1>4 DEF o

LEMMA InsertMemberGood ==
    ASSUME NEW m, NEW n, NEW v, Good(m), Resolves(m, n)
    PROVE  Good(InsertMember(m, n, v))
  BY ClearGood, InsertGood DEF InsertMember

-----------------------------------------------------------------------------
(***************************************************************************)
(* Changes of a decode.                                                    *)
(***************************************************************************)
LEMMA SameButSelf == ASSUME NEW m, NEW n PROVE SameBut(m, m, n)
  BY DEF SameBut

LEMMA FailLemma ==
    ASSUME NEW d, NEW err, GoodDecode(d)
    PROVE  GoodDecode(Fail(d, err)) /\ Fail(d, err).msg = d.msg
  BY DEF Fail, GoodDecode, IsDecode

LEMMA SpentLemma ==
    ASSUME NEW d, NEW inner, GoodDecode(d)
    PROVE  /\ GoodDecode(Spent(d, inner))
           /\ Spent(d, inner).msg = d.msg
           /\ Spent(d, inner).err = d.err
  BY DEF Spent, GoodDecode, IsDecode

LEMMA WithUnknownLemma ==
    ASSUME NEW d, NEW unknown, GoodDecode(d)
    PROVE  /\ GoodDecode(WithUnknown(d, unknown))
           /\ WithUnknown(d, unknown).msg.fields = d.msg.fields
           /\ WithUnknown(d, unknown).err = d.err
  <1> DEFINE m == [d.msg EXCEPT !.unknown = unknown]
  <1>1. IsMessage(m) /\ m.type = Root /\ m.pool = Home /\ m.fields = d.msg.fields
    BY DEF GoodDecode, Good, IsMessage
  <1>2. WithUnknown(d, unknown) = [d EXCEPT !.msg = m]
    BY DEF WithUnknown
  <1> HIDE DEF m
  <1>3. Good(m)
    BY <1>1, SameDescriptors DEF GoodDecode, Good, Exclusive
  <1> QED
    BY <1>1, <1>2, <1>3 DEF GoodDecode, IsDecode

LEMMA PutLemma ==
    ASSUME NEW d, NEW n, NEW v, GoodDecode(d), Resolves(d.msg, n),
           DOMAIN d.msg.fields \cap Siblings(d.msg, n) = {}
    PROVE  /\ GoodDecode(Put(d, n, v))
           /\ SameBut(d.msg, Put(d, n, v).msg, n)
           /\ Put(d, n, v).err = d.err
  <1>1. Good(Insert(d.msg, n, v)) /\ SameBut(d.msg, Insert(d.msg, n, v), n)
    BY InsertGood, InsertLemma DEF GoodDecode, Good
  <1> QED
    BY <1>1 DEF Put, GoodDecode, IsDecode

LEMMA PutMemberLemma ==
    ASSUME NEW d, NEW n, NEW v, GoodDecode(d), Resolves(d.msg, n)
    PROVE  GoodDecode(PutMember(d, n, v)) /\ PutMember(d, n, v).err = d.err
  <1>1. Good(InsertMember(d.msg, n, v))
    BY InsertMemberGood DEF GoodDecode
  <1> QED
    BY <1>1 DEF PutMember, GoodDecode, IsDecode

LEMMA RecordUnknownStep ==
    ASSUME NEW d, NEW r, NEW slots, NEW n, GoodDecode(d)
    PROVE  Step(d, RecordUnknown(d, r, slots), n)
  <1>1. CASE d.unk < slots
    BY <1>1, FailLemma, SameButSelf DEF RecordUnknown, Step
  <1>2. CASE ~(d.unk < slots)
    <2> DEFINE c == [d EXCEPT !.unk = @ - slots]
    <2>1. GoodDecode(c) /\ c.msg = d.msg
      BY DEF GoodDecode, IsDecode
    <2>2. RecordUnknown(d, r, slots) = WithUnknown(c, Append(d.msg.unknown, r))
      BY <1>2 DEF RecordUnknown
    <2> HIDE DEF c
    <2> DEFINE e == WithUnknown(c, Append(d.msg.unknown, r))
    <2>3. GoodDecode(e) /\ e.msg.fields = d.msg.fields
      BY <2>1, WithUnknownLemma
    <2> HIDE DEF e
    <2>4. Step(d, e, n)
      BY <2>3 DEF Step, SameBut
    <2> QED
      BY <2>2, <2>4 DEF e
  <1> QED
    BY <1>1, <1>2

LEMMA PushUnknownStep ==
    ASSUME NEW d, NEW r, NEW depth, NEW n, GoodDecode(d)
    PROVE  Step(d, PushUnknown(d, r, depth), n)
  BY FailLemma, SameButSelf, RecordUnknownStep DEF PushUnknown, Step

-----------------------------------------------------------------------------
(***************************************************************************)
(* Each way to merge a record.  What a sub-message comes to is any value.  *)
(***************************************************************************)
LEMMA MergeEnumStep ==
    ASSUME NEW d, NEW n, NEW r, GoodDecode(d), d.err = "", Resolves(d.msg, n)
    PROVE  Step(d, MergeEnum(d, n, r), n)
  BY PutMemberLemma, RecordUnknownStep DEF MergeEnum, Step

LEMMA MergeInPlaceStep ==
    ASSUME NEW d, NEW n, NEW r, NEW depth, GoodDecode(d), n \in DOMAIN d.msg.fields
    PROVE  Step(d, MergeInPlace(d, n, r, depth), n)
  <1> DEFINE c == ClearSiblings(d, n)
             inner == Descend(c, c.msg.fields[n].m, r.body, depth)
             p == Put(Spent(c, inner), n, Msg(inner.msg))
  <1>1. Resolves(d.msg, n)
    BY DEF GoodDecode, Good, Exclusive
  <1>2. /\ GoodDecode(c) /\ Resolves(c.msg, n)
        /\ DOMAIN c.msg.fields \cap Siblings(c.msg, n) = {}
        /\ SameBut(d.msg, c.msg, n)
    BY <1>1, ClearGood DEF ClearSiblings, GoodDecode, IsDecode
  <1> HIDE DEF c, inner
  <1>3. GoodDecode(p) /\ SameBut(c.msg, p.msg, n)
    BY <1>2, SpentLemma, PutLemma
  <1>4. MergeInPlace(d, n, r, depth) = Fail(p, inner.err)
    BY DEF MergeInPlace, c, inner
  <1> HIDE DEF p
  <1>5. SameBut(d.msg, p.msg, n)
    BY <1>2, <1>3 DEF SameBut
  <1> QED
    BY <1>3, <1>4, <1>5, FailLemma DEF Step

LEMMA MergeReplaceStep ==
    ASSUME NEW d, NEW n, NEW f, NEW r, NEW depth,
           GoodDecode(d), d.err = "", Resolves(d.msg, n)
    PROVE  Step(d, MergeReplace(d, n, f, r, depth), n)
  <1> DEFINE inner == DescendNew(d, f, r.body, depth)
  <1>1. CASE inner.err # ""
    BY <1>1, FailLemma, SameButSelf DEF MergeReplace, Step
  <1>2. CASE inner.err = ""
    <2>1. MergeReplace(d, n, f, r, depth) = PutMember(Spent(d, inner), n, Msg(inner.msg))
      BY <1>2 DEF MergeReplace
    <2> HIDE DEF inner
    <2>2. /\ GoodDecode(Spent(d, inner)) /\ Spent(d, inner).err = ""
          /\ Resolves(Spent(d, inner).msg, n)
      BY SpentLemma
    <2>3. ASSUME NEW v
          PROVE  /\ GoodDecode(PutMember(Spent(d, inner), n, v))
                 /\ PutMember(Spent(d, inner), n, v).err = ""
      BY <2>2, PutMemberLemma
    <2> QED
      BY <2>1, <2>3 DEF Step
  <1> QED
    BY <1>1, <1>2

LEMMA MergeSingularStep ==
    ASSUME NEW d, NEW n, NEW r, NEW depth,
           GoodDecode(d), d.err = "", Resolves(d.msg, n)
    PROVE  Step(d, MergeSingular(d, n, FieldOf(d.msg, n), r, depth), n)
  <1> DEFINE f == FieldOf(d.msg, n)
  <1>1. CASE f.elem = "enum"
    BY <1>1, MergeEnumStep DEF MergeSingular
  <1>2. CASE f.elem = "int"
    <2>1. MergeSingular(d, n, f, r, depth) = PutMember(d, n, Num(r.v))
      BY <1>2 DEF MergeSingular
    <2>2. /\ GoodDecode(PutMember(d, n, Num(r.v)))
          /\ PutMember(d, n, Num(r.v)).err = ""
      BY PutMemberLemma
    <2> QED
      BY <2>1, <2>2 DEF Step
  <1>3. CASE f.elem = "msg"
    BY <1>3, MergeInPlaceStep, MergeReplaceStep DEF MergeSingular
  <1> QED
    BY <1>1, <1>2, <1>3, FieldLemma DEF GoodDecode, Good

\* A list and a map are in no oneof.
LEMMA NoSiblings ==
    ASSUME NEW m, NEW n, Good(m), Resolves(m, n), FieldOf(m, n).card # "one"
    PROVE  Siblings(m, n) = {}
  BY FieldLemma DEF Siblings, Good

LEMMA PutStep ==
    ASSUME NEW d, NEW c, NEW n, NEW v, GoodDecode(d), Resolves(d.msg, n),
           FieldOf(d.msg, n).card # "one",
           GoodDecode(c), c.msg.fields = d.msg.fields
    PROVE  /\ GoodDecode(Put(c, n, v))
           /\ SameBut(d.msg, Put(c, n, v).msg, n)
           /\ Put(c, n, v).err = c.err
  <1>1. Resolves(c.msg, n) /\ Siblings(c.msg, n) = {}
    BY NoSiblings, SameDescriptors DEF GoodDecode, Good
  <1> QED
    BY <1>1, PutLemma DEF SameBut

LEMMA MergeNumbersStep ==
    ASSUME NEW d, NEW n, NEW f, NEW r, GoodDecode(d), Resolves(d.msg, n),
           FieldOf(d.msg, n).card # "one"
    PROVE  Step(d, MergeNumbers(d, n, f, r), n)
  <1> DEFINE s == Scan(d, n, f, IF r.wt = "len" THEN r.body ELSE <<r>>)
             kept == Fail(WithUnknown(Spent(d, s), d.msg.unknown \o s.strays), s.err)
  <1>1. \/ MergeNumbers(d, n, f, r) = kept
        \/ MergeNumbers(d, n, f, r) = Put(kept, n, List(Items(d, n) \o s.items))
    BY DEF MergeNumbers
  <1> HIDE DEF s
  <1>2. GoodDecode(kept) /\ kept.msg.fields = d.msg.fields
    BY SpentLemma, WithUnknownLemma, FailLemma
  <1> HIDE DEF kept
  <1>3. Step(d, kept, n)
    BY <1>2 DEF Step, SameBut
  <1>4. ASSUME NEW v PROVE Step(d, Put(kept, n, v), n)
    BY <1>2, PutStep DEF Step
  <1> QED
    BY <1>1, <1>3, <1>4

LEMMA MergeElementStep ==
    ASSUME NEW d, NEW n, NEW f, NEW r, NEW depth, GoodDecode(d), Resolves(d.msg, n),
           FieldOf(d.msg, n).card # "one"
    PROVE  Step(d, MergeElement(d, n, f, r, depth), n)
  <1> DEFINE opened == Put(d, n, List(Items(d, n)))
             inner  == DescendNew(d, f, r.body, depth)
             paid   == [Spent(d, inner) EXCEPT !.mem = @ - 1]
  <1>1. \/ \E err : MergeElement(d, n, f, r, depth) = Fail(opened, err)
        \/ MergeElement(d, n, f, r, depth)
              = Put(paid, n, List(Append(Items(d, n), Msg(inner.msg))))
    BY DEF MergeElement
  <1>2. GoodDecode(opened) /\ SameBut(d.msg, opened.msg, n)
    BY PutStep
  <1> HIDE DEF opened, inner
  <1>3. GoodDecode(Spent(d, inner)) /\ Spent(d, inner).msg = d.msg
    BY SpentLemma
  <1>4. GoodDecode(paid) /\ paid.msg = d.msg
    BY <1>3 DEF GoodDecode, IsDecode
  <1> HIDE DEF paid
  <1>5. ASSUME NEW err PROVE Step(d, Fail(opened, err), n)
    BY <1>2, FailLemma DEF Step
  <1>6. ASSUME NEW v PROVE Step(d, Put(paid, n, v), n)
    BY <1>4, PutStep DEF Step
  <1> QED
    BY <1>1, <1>5, <1>6

LEMMA PushEntryStep ==
    ASSUME NEW d, NEW c, NEW n, NEW k, NEW v, GoodDecode(d), Resolves(d.msg, n),
           FieldOf(d.msg, n).card # "one", GoodDecode(c), c.msg = d.msg
    PROVE  Step(d, PushEntry(c, n, k, v), n)
  <1> DEFINE paid == [c EXCEPT !.mem = @ - 2]
  <1>1. \/ PushEntry(c, n, k, v) = Fail(c, "element_limit")
        \/ \E x : PushEntry(c, n, k, v) = Put(paid, n, x)
    BY DEF PushEntry
  <1>2. GoodDecode(paid) /\ paid.msg = d.msg
    BY DEF GoodDecode, IsDecode
  <1> HIDE DEF paid
  <1>3. ASSUME NEW x PROVE Step(d, Put(paid, n, x), n)
    BY <1>2, PutStep DEF Step
  <1>4. Step(d, Fail(c, "element_limit"), n)
    BY FailLemma, SameButSelf DEF Step
  <1> QED
    BY <1>1, <1>3, <1>4

LEMMA MergeMapStep ==
    ASSUME NEW d, NEW n, NEW f, NEW r, NEW depth, GoodDecode(d), Resolves(d.msg, n),
           FieldOf(d.msg, n).card # "one"
    PROVE  Step(d, MergeMap(d, n, f, r, depth), n)
  <1> DEFINE e == ReadEntry(d, f, r.body, depth)
  <1>1. \/ MergeMap(d, n, f, r, depth) = Fail(d, e.err)
        \/ MergeMap(d, n, f, r, depth) = RecordUnknown(d, r, 1)
        \/ \E v : MergeMap(d, n, f, r, depth) = PushEntry(Spent(d, e), n, e.key, v)
    BY DEF MergeMap
  <1> HIDE DEF e
  <1>2. Step(d, Fail(d, e.err), n)
    BY FailLemma, SameButSelf DEF Step
  <1>3. Step(d, RecordUnknown(d, r, 1), n)
    BY RecordUnknownStep
  <1>4. GoodDecode(Spent(d, e)) /\ Spent(d, e).msg = d.msg
    BY SpentLemma
  <1>5. ASSUME NEW v PROVE Step(d, PushEntry(Spent(d, e), n, e.key, v), n)
    BY <1>4, PushEntryStep
  <1> QED
    BY <1>1, <1>2, <1>3, <1>5

LEMMA MergeOneFieldStep ==
    ASSUME NEW d, NEW r, NEW depth, GoodDecode(d), d.err = ""
    PROVE  Step(d, MergeOneField(d, r, depth), r.num)
  <1> DEFINE n == r.num
             f == FieldOf(d.msg, n)
  <1>1. CASE r.wt = "bad" \/ r.num = 0
    BY <1>1, FailLemma, SameButSelf DEF MergeOneField, Step
  <1>2. CASE /\ ~(r.wt = "bad" \/ r.num = 0)
             /\ Resolves(d.msg, n) /\ WireTypeCompatible(f, r.wt)
    <2>1. MergeOneField(d, r, depth) = MergeKnown(d, n, f, r, depth)
      BY <1>2 DEF MergeOneField
    <2>2. CASE f.card = "one"
      BY <2>1, <2>2, <1>2, MergeSingularStep DEF MergeKnown
    <2>3. CASE f.card = "map"
      BY <2>1, <2>3, <1>2, MergeMapStep DEF MergeKnown
    <2>4. CASE f.card = "list"
      BY <2>1, <2>4, <1>2, MergeElementStep, MergeNumbersStep DEF MergeKnown
    <2> QED
      BY <1>2, <2>2, <2>3, <2>4, FieldLemma DEF GoodDecode, Good
  <1>3. CASE /\ ~(r.wt = "bad" \/ r.num = 0)
             /\ ~(Resolves(d.msg, n) /\ WireTypeCompatible(f, r.wt))
    BY <1>3, PushUnknownStep DEF MergeOneField
  <1> QED
    BY <1>1, <1>2, <1>3

-----------------------------------------------------------------------------
(***************************************************************************)
(* The end of a merge, and values from outside.                            *)
(***************************************************************************)
LEMMA NormalizedGood ==
    ASSUME NEW m, Good(m)
    PROVE  /\ Good(Normalized(m))
           /\ \A n \in DOMAIN Normalized(m).fields :
                 Normalized(m).fields[n].shape = "map" =>
                    Normalized(m).fields[n].tail = <<>>
  <1> DEFINE o == Normalized(m)
  <1>1. /\ IsMessage(o) /\ o.type = Root /\ o.pool = Home
        /\ DOMAIN o.fields = DOMAIN m.fields
        /\ \A n \in DOMAIN m.fields :
              o.fields[n] = IF m.fields[n].shape = "map" THEN Normalize(m.fields[n])
                            ELSE m.fields[n]
    BY DEF Normalized, Good, IsMessage
  <1>2. \A v : Normalize(v).tail = <<>>
    BY DEF Normalize, Map
  <1> HIDE DEF o
  <1>3. Good(o)
    BY <1>1, SameDescriptors DEF Good, Exclusive
  <1> QED
    BY <1>1, <1>2, <1>3 DEF o

LEMMA AdoptSorted ==
    ASSUME NEW f, NEW v, NEW pool, f.elem \in {"int", "enum", "msg"}
    PROVE  Adopt(f, v, pool).shape = "map" => Adopt(f, v, pool).tail = <<>>
  <1>1. AdoptSingular(f, v, pool).shape # "map"
    BY DEF AdoptSingular, ValidSingular, Rehome, Mismatch, Msg
  <1>2. \A items : AdoptItems(f, items, pool).shape # "map"
    BY DEF AdoptItems, Mismatch, List
  <1>3. \A entries : \/ AdoptEntries(f, entries, pool) = Mismatch
                     \/ AdoptEntries(f, entries, pool).tail = <<>>
    BY DEF AdoptEntries, Map
  <1> QED
    BY <1>1, <1>2, <1>3 DEF Adopt, Mismatch

-----------------------------------------------------------------------------
(***************************************************************************)
(* The invariant.                                                          *)
(***************************************************************************)
SortedFields(m) ==
    \A n \in DOMAIN m.fields :
        m.fields[n].shape = "map" => m.fields[n].tail = <<>>

LEMMA InsertSorted ==
    ASSUME NEW m, NEW n, NEW v, IsMessage(m), SortedFields(m),
           v.shape = "map" => v.tail = <<>>
    PROVE  SortedFields(Insert(m, n, v))
  BY InsertLemma DEF SortedFields, SameBut

LEMMA WithoutSorted ==
    ASSUME NEW m, NEW gone, IsMessage(m), SortedFields(m)
    PROVE  SortedFields(Without(m, gone))
  BY WithoutLemma DEF SortedFields

LEMMA InitInv == Init => IInv
  <1> SUFFICES ASSUME Init PROVE IInv
    OBVIOUS
  <1>1. IsMessage(msg) /\ msg.type = Root /\ msg.pool = Home /\ msg.fields = <<>>
    BY DEF Init, NewMessage, IsMessage
  <1>2. DOMAIN msg.fields = {}
    <2>1. DOMAIN <<>> = {}
      OBVIOUS
    <2> QED
      BY <1>1, <2>1
  <1> QED
    BY <1>1, <1>2 DEF Init, IInv, Good, Exclusive, IsContext, Merging, MapsSorted

LEMMA MergeFieldInv ==
    ASSUME IInv, MergeField
    PROVE  /\ Good(msg') /\ IsContext' /\ Merging'
           /\ ctx'.err # "" => SameBut(msg, msg', Head(todo).num)
  <1> DEFINE d == [msg |-> msg, unk |-> ctx.unk, mem |-> ctx.mem, err |-> ""]
             e == MergeOneField(d, Head(todo), ctx.depth)
  <1>1. GoodDecode(d) /\ d.err = "" /\ d.msg = msg
    BY DEF IInv, GoodDecode, IsDecode
  <1> HIDE DEF d
  <1>2. Step(d, e, Head(todo).num)
    BY <1>1, MergeOneFieldStep
  <1>3. /\ msg' = e.msg
        /\ ctx' = [ctx EXCEPT !.unk = e.unk, !.mem = e.mem, !.err = e.err]
    BY DEF MergeField, d
  <1> HIDE DEF e
  <1>4. DOMAIN ctx' = DOMAIN ctx /\ ctx'.err = e.err /\ "err" \in DOMAIN ctx
    BY <1>3 DEF MergeField, IInv, IsContext
  <1>5. IsContext' /\ Merging'
    <2>1. "err" \in DOMAIN ctx'
      BY <1>4
    <2>2. ctx' # <<>>
      BY <2>1
    <2> QED
      BY <1>4, <2>2 DEF IsContext, Merging, IInv, MergeField
  <1> QED
    BY <1>1, <1>2, <1>3, <1>4, <1>5 DEF Step, GoodDecode

LEMMA NextInv == IInv /\ [Next]_vars => IInv'
  <1> SUFFICES ASSUME IInv, [Next]_vars PROVE IInv'
    OBVIOUS
  <1> USE DEF IInv
  <1>0. MapsSorted <=> (~Merging => SortedFields(msg))
    BY DEF MapsSorted, SortedFields
  <1>01. MapsSorted' <=> (~Merging' => SortedFields(msg'))
    BY DEF MapsSorted, SortedFields
  <1>02. IsMessage(msg)
    BY DEF Good
  <1>1. ASSUME NEW b \in Buffers, StartMerge(b[1], b[2]) PROVE IInv'
    <2>1. msg' = msg /\ SortedFields(msg)
      BY <1>1, <1>0 DEF StartMerge, Call
    <2>2. DOMAIN ctx' = {"depth", "unk", "mem", "err"}
      BY <1>1 DEF StartMerge
    <2> QED
      BY <2>1, <2>2, <1>01 DEF IsContext
  <1>2. CASE MergeField
    BY <1>2, <1>01, MergeFieldInv
  <1>3. CASE FinishMerge
    <2>1. Good(msg') /\ SortedFields(msg')
      BY <1>3, NormalizedGood DEF FinishMerge, SortedFields
    <2> QED
      BY <2>1, <1>3, <1>01 DEF FinishMerge, IsContext, Merging
  <1>4. ASSUME ~Merging, ctx' = ctx, msg' = msg PROVE IInv'
    BY <1>4 DEF IsContext, Merging, MapsSorted
  <1>5. ASSUME ~Merging, ctx' = ctx, Good(msg'), SortedFields(msg') PROVE IInv'
    BY <1>5, <1>01 DEF IsContext, Merging
  <1>6. ASSUME NEW w \in Writes, TrySet(w[1], w[2], w[3]) PROVE IInv'
    <2> DEFINE v == Adopt(FieldOf(msg, w[1]), w[3], msg.pool)
    <2>1. ~Merging /\ ctx' = ctx /\ SortedFields(msg)
      BY <1>6, <1>0 DEF TrySet, Call, Return
    <2>2. \/ msg' = msg
          \/ Resolves(msg, w[1]) /\ msg' = InsertMember(msg, w[1], v)
      BY <1>6 DEF TrySet, Return, IsMember
    <2>3. ASSUME Resolves(msg, w[1]), msg' = InsertMember(msg, w[1], v)
          PROVE  Good(msg') /\ SortedFields(msg')
      <3>1. v.shape = "map" => v.tail = <<>>
        BY <2>3, FieldLemma, AdoptSorted DEF Good
      <3> HIDE DEF v
      <3>2. SortedFields(InsertMember(msg, w[1], v))
        BY <3>1, <2>1, <1>02, WithoutSorted, WithoutLemma, InsertSorted
           DEF InsertMember, ClearOneofSiblings
      <3> QED
        BY <3>2, <2>3, InsertMemberGood
    <2> HIDE DEF v
    <2> QED
      BY <2>1, <2>2, <2>3, <1>5
  <1>7. ASSUME NEW w \in Writes, WriteInPlace(w[1], w[3]) PROVE IInv'
    <2>1. ~Merging /\ ctx' = ctx /\ SortedFields(msg)
      BY <1>7, <1>0 DEF WriteInPlace, Call, Return
    <2>2. w[1] \in DOMAIN msg.fields /\ msg' = Insert(msg, w[1], w[3])
      BY <1>7 DEF WriteInPlace, Return
    <2>3. w[3].shape = "map" => w[3].tail = <<>>
      BY DescriptorAssumption DEF WritesAssumption
    <2>4. Good(msg')
      BY <2>2, InsertGood DEF Good, Exclusive
    <2> QED
      BY <2>1, <2>2, <2>3, <2>4, <1>02, <1>5, InsertSorted
  <1>8. ASSUME NEW n, msg' = Without(msg, {n}), ~Merging, ctx' = ctx PROVE IInv'
    BY <1>8, <1>0, <1>02, <1>5, WithoutGood, WithoutSorted
  <1>9. ASSUME NEW w \in Writes, TryClear(w[1], w[2]) \/ TakeFieldByNumber(w[1])
        PROVE  IInv'
    <2>1. ~Merging /\ ctx' = ctx
      BY <1>9 DEF TryClear, TakeFieldByNumber, Call, Return
    <2>2. msg' = msg \/ msg' = Without(msg, {w[1]})
      BY <1>9 DEF TryClear, TakeFieldByNumber, Return
    <2> QED
      BY <2>1, <2>2, <1>4, <1>8
  <1>10. CASE UNCHANGED vars
    BY <1>10 DEF vars, IsContext, Merging, MapsSorted
  <1> QED
    BY <1>1, <1>2, <1>3, <1>6, <1>7, <1>9, <1>10 DEF Next, Idle

\* A message stays well formed: its numbers resolve, a oneof has one member at
\* most, and no map is out of order between calls.
THEOREM WellFormedInv == Spec => []WellFormed
  <1>1. IInv => WellFormed
    BY DEF IInv, Good, Exclusive, WellFormed, OneofsExclusive, NumbersResolve
  <1> QED
    BY InitInv, NextInv, <1>1, PTL DEF Spec

\* A record that fails to merge leaves the other fields as they were.
THEOREM ErrorConfinedStep == Spec => ErrorConfined
  <1> DEFINE Confined ==
        MergeField /\ ctx'.err # "" =>
          /\ DOMAIN msg.fields \ {Head(todo).num} =
                DOMAIN msg'.fields \ {Head(todo).num}
          /\ \A n \in DOMAIN msg.fields \ {Head(todo).num} :
                msg'.fields[n] = msg.fields[n]
  <1>1. IInv /\ [Next]_vars => [Confined]_vars
    BY MergeFieldInv DEF SameBut
  <1>2. Spec => []IInv
    BY InitInv, NextInv, PTL DEF Spec
  <1> QED
    BY <1>1, <1>2, PTL DEF Spec, ErrorConfined
=============================================================================
