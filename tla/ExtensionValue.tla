--------------------------- MODULE ExtensionValue ---------------------------
(***************************************************************************)
(* What the records of an extension amount to, taken as one: the content   *)
(* and what it takes of the budgets of a decode.                           *)
(***************************************************************************)
EXTENDS Records, SequencesExt

CONSTANTS
    IntMod, Utf8(_), DepthLimit,                \* as in ExtensionSet
    UnknownSlots(_), SkipError(_, _)            \* of an unknown record

IsMsg(e) == e.elem \in {"msg", "group"}
Total(Cost(_), recs) == FoldLeft(LAMBDA n, r : n + Cost(r), 0, recs)
Numbered(recs, n) == SelectSeq(recs, LAMBDA r : r.num = n)

-----------------------------------------------------------------------------
(***************************************************************************)
(* Messages.                                                               *)
(***************************************************************************)
Empty == [a |-> 0, subs |-> <<>>, unk |-> <<>>]
Merged(m, recs) ==
    LET subs == Numbered(recs, 2)
    IN  [a |-> IF Numbered(recs, 1) = <<>> THEN m.a
               ELSE Last(Numbered(recs, 1)).v % IntMod,
         subs |-> m.subs \o [i \in DOMAIN subs |-> subs[i].body],
         unk |-> m.unk \o SelectSeq(recs, LAMBDA r : r.num \notin {1, 2})]
Skips(recs, depth) == \A i \in DOMAIN recs : SkipError(recs[i], depth) = ""
Sound(recs) ==
    \A i \in DOMAIN recs : LET r == recs[i] IN
        CASE r.num = 1 -> r.wt = "varint"
          [] r.num = 2 -> r.wt = "len" /\ Skips(r.body, DepthLimit - 1)
          [] OTHER     -> SkipError(r, DepthLimit) = ""
Slots(recs) ==
    Total(LAMBDA r : CASE r.num = 1 -> 0 [] r.num = 2 -> Total(UnknownSlots, r.body)
                       [] OTHER -> UnknownSlots(r), recs)
Elements(recs) == Len(Numbered(recs, 2))

-----------------------------------------------------------------------------
(***************************************************************************)
(* What has arrived for an extension: the value if there were no budgets,  *)
(* what it would take of them, whether all of it was well formed, and      *)
(* whether there was anything.                                             *)
(***************************************************************************)
Nothing == [val |-> <<>>, slots |-> 0, mem |-> 0, sound |-> TRUE, any |-> FALSE]

Paid(c, recs, own) ==
    [c EXCEPT !.slots = @ + Slots(recs), !.mem = @ + own + Elements(recs),
              !.sound = @ /\ Sound(recs)]
AbsorbOne(e, c, r) ==
    CASE e.elem = "int"    -> [c EXCEPT !.val = <<r.v % IntMod>>]
      [] e.elem = "string" -> [c EXCEPT !.val = IF Utf8(r.body) THEN <<r.body>> ELSE <<>>]
      [] IsMsg(e)          ->
            [Paid(c, r.body, 0) EXCEPT
                !.val = <<Merged(IF c.val = <<>> THEN Empty ELSE c.val[1], r.body)>>]
AbsorbElement(e, c, r) ==
    CASE e.elem = "int"    -> [c EXCEPT !.val = Append(@, r.v % IntMod)]
      [] e.elem = "string" -> [c EXCEPT !.val = IF Utf8(r.body) THEN Append(@, r.body) ELSE @]
      [] IsMsg(e)          ->
            [Paid(c, r.body, 1) EXCEPT
                !.val = IF Sound(r.body) THEN Append(@, Merged(Empty, r.body)) ELSE @]
Numbers(body) ==
    LET ends == {i \in DOMAIN body : body[i].wt # "varint"}
    IN  IF ends = {} THEN body ELSE SubSeq(body, 1, Min(ends) - 1)
Absorb(e, c, r) ==
    LET own == CASE e.elem = "int" -> "varint" [] e.elem = "group" -> "group"
                 [] OTHER -> "len"
        new == IF e.card = "one" /\ r.wt = own THEN AbsorbOne(e, c, r)
               ELSE IF r.wt = own THEN AbsorbElement(e, c, r)
               ELSE IF e.card # "one" /\ e.elem = "int" /\ r.wt = "len"
                 THEN [c EXCEPT !.val = @ \o [i \in DOMAIN Numbers(r.body) |->
                                                 r.body[i].v % IntMod]]
               ELSE c
    IN  [new EXCEPT !.any = TRUE]

\* What arrived in the records of a buffer that decoded.
Arrived(e, c, recs) ==
    FoldLeft(LAMBDA x, r : Absorb(e, x, r), c, Numbered(recs, e.num))
=============================================================================
