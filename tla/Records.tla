------------------------------ MODULE Records ------------------------------
(***************************************************************************)
(* A buffer as a sequence of records, for the decoders that are compared   *)
(* record by record.  WireFormat has the same bytes one at a time.         *)
(***************************************************************************)
EXTENDS Naturals, Sequences

\* A record's wire type is varint, len, group or bad: bytes that are no record.
\* The elements of a packed payload are varints with number 0.
Rec(num, wt, v, body) == [num |-> num, wt |-> wt, v |-> v, body |-> body]
V(num, v) == Rec(num, "varint", v, <<>>)
L(num, body) == Rec(num, "len", 0, body)
G(num, body) == Rec(num, "group", 0, body)
Bad == Rec(0, "bad", 0, <<>>)

\* The bytes around the body of a record: a tag, and a length, a number or an
\* end tag.  An element has no tag.
Header(r) == IF r.wt = "len" THEN 2 ELSE IF r.num = 0 THEN 0 ELSE 1
Trailer(r) == IF r.wt = "len" THEN 0 ELSE 1
=============================================================================
