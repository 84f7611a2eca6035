--------------------------- MODULE ExtensionStore ---------------------------
(***************************************************************************)
(* What extensions promise: each is a value of its own, set, cleared and   *)
(* merged like a declared field, and read as the records that arrived for  *)
(* it say when they are taken as one; records of other numbers stay.       *)
(***************************************************************************)
EXTENDS ExtensionValue

CONSTANTS
    Exts, Carrier, Buffers, Values(_), RecordsLen(_),   \* as in ExtensionSet
    Encoded(_),         \* the records of a message
    MaxTypeId, MaxMessage, UnknownLimit, ElementLimit

VARIABLES
    kind,
    held,       \* by number: what has arrived for an extension
    rest,       \* the records of other numbers
    shown,      \* by extension: what reading it returns
    call, result
vars == <<kind, held, rest, shown, call, result>>

Fits(c) == c.slots <= UnknownLimit /\ c.mem <= ElementLimit

\* The answers to a read.  The budgets cut a list short where an element does not
\* fit, and leave out the elements whose unknown fields do not.
Reads(e, c, x) ==
    IF ~IsMsg(e) THEN x = c.val
    ELSE IF e.card = "one" THEN x = IF c.sound /\ Fits(c) THEN c.val ELSE <<>>
    ELSE /\ (Fits(c) => x = c.val)
         /\ c.slots <= UnknownLimit => IsPrefix(x, c.val)
         /\ ToSet(x) \subseteq ToSet(c.val) /\ Len(x) <= ElementLimit

Own(e) == e.extendee = Carrier
Zero(e) == CASE e.elem = "int" -> 0 [] e.elem = "string" -> <<>> [] IsMsg(e) -> Empty
OrDefault(e, x) ==
    IF x # <<>> THEN x ELSE IF e.default # <<>> THEN e.default ELSE <<Zero(e)>>
\* The singletons make TLC evaluate both functions once.
Shows ==
    \E s \in {shown}, h \in {held} : \A e \in Exts[kind] :
        IF Own(e)
          THEN /\ Reads(e, h[e.num], s[e].get) /\ s[e].has = h[e.num].any
               /\ (e.card = "one" => s[e].orDefault = OrDefault(e, s[e].get))
          ELSE s[e] = [get |-> "panic", has |-> FALSE, orDefault |-> "panic"]

-----------------------------------------------------------------------------
(***************************************************************************)
(* Merging.                                                                *)
(***************************************************************************)
\* An item is one payload under one number, whatever the order of its parts.
IsItem(r) == kind = "set" /\ r.num = 1 /\ r.wt = "group"
Part(r) == <<r.num, r.wt>> \in {<<2, "varint">>, <<3, "len">>}
Ids(r) == SelectSeq(r.body, LAMBDA x : x.num = 2 /\ x.wt = "varint")
Payloads(r) == SelectSeq(r.body, LAMBDA x : x.num = 3 /\ x.wt = "len")
Acceptable(r) ==
    IF IsItem(r)
      THEN /\ Ids(r) # <<>>
           /\ \A i \in DOMAIN Ids(r) : Ids(r)[i].v \in 1 .. MaxTypeId
           /\ Skips(SelectSeq(r.body, LAMBDA x : ~Part(x)), DepthLimit - 1)
      ELSE SkipError(r, DepthLimit) = ""
Unwrapped(r) ==
    IF ~IsItem(r) THEN r
    ELSE L(Last(Ids(r)).v,
           FlattenSeq([i \in DOMAIN Payloads(r) |-> Payloads(r)[i].body]))
Taken(recs, n) ==
    /\ \A i \in 1 .. n : Acceptable(recs[i])
    /\ Total(LAMBDA r : IF IsItem(r) THEN 1 ELSE UnknownSlots(r), SubSeq(recs, 1, n))
          <= UnknownLimit

-----------------------------------------------------------------------------
Init ==
    /\ kind \in DOMAIN Exts
    /\ held = [n \in {e.num : e \in {x \in Exts[kind] : Own(x)}} |-> Nothing]
    /\ rest = <<>> /\ Shows
    /\ call = <<"new">> /\ result = ""

Of(n) == CHOOSE e \in Exts[kind] : e.num = n /\ Own(e)

Merge(recs) ==
    /\ call' = <<"merge", recs>>
    /\ \E n \in 0 .. Len(recs) :
          LET got == [i \in 1 .. n |-> Unwrapped(recs[i])] IN
          /\ Taken(recs, n) /\ (n < Len(recs) => ~Taken(recs, n + 1))
          /\ (n = Len(recs)) = (result' = "")
          /\ held' = [k \in DOMAIN held |-> Arrived(Of(k), held[k], got)]
          /\ rest' = rest \o SelectSeq(got, LAMBDA r : r.num \notin DOMAIN held)

\* A message is refused if it is too large; a group's value panics if it holds
\* more records, or nests them deeper, than a decode takes.
Refusals(e, x) ==
    IF ~IsMsg(e) THEN {}
    ELSE {err \in {"too_large", "panic"} :
            IF err = "too_large" THEN RecordsLen(Encoded(x)) > MaxMessage
            ELSE /\ e.elem = "group"
                 /\ \/ ~Skips(Encoded(x), DepthLimit)
                    \/ Total(UnknownSlots, Encoded(x)) > UnknownLimit}
Items(e, v) == IF e.card = "one" THEN <<v>> ELSE v
Content(e, v) ==
    LET vals  == Items(e, v)
        slots(m) == Total(UnknownSlots, m.unk \o FlattenSeq(m.subs))
    IN  [val   |-> vals, any |-> vals # <<>>,
         sound |-> IsMsg(e) => \A i \in DOMAIN vals : Sound(Encoded(vals[i])),
         slots |-> IF IsMsg(e) THEN Total(slots, vals) ELSE 0,
         mem   |-> IF ~IsMsg(e) THEN 0
                   ELSE Total(LAMBDA m : Len(m.subs), vals)
                          + (IF e.card = "one" THEN 0 ELSE Len(vals))]
Set(e, v) ==
    /\ call' = <<"set", e, v>>
    /\ LET no == UNION {Refusals(e, Items(e, v)[i]) : i \in DOMAIN Items(e, v)} IN
       IF ~Own(e) THEN result' = "panic" /\ UNCHANGED held
       ELSE IF no = {} THEN result' = "" /\ held' = [held EXCEPT ![e.num] = Content(e, v)]
       ELSE result' \in no /\ UNCHANGED held
    /\ UNCHANGED rest
Clear(e) ==
    /\ call' = <<"clear", e>>
    /\ IF Own(e) THEN result' = "" /\ held' = [held EXCEPT ![e.num] = Nothing]
       ELSE result' = "panic" /\ UNCHANGED held
    /\ UNCHANGED rest

Next ==
    /\ \/ \E recs \in Buffers[kind] : Merge(recs)
       \/ \E e \in Exts[kind] : Clear(e) \/ \E v \in Values(e) : Set(e, v)
    /\ Shows' /\ UNCHANGED kind
Spec == Init /\ [][Next]_vars
=============================================================================
