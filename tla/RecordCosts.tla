---------------------------- MODULE RecordCosts ----------------------------
(***************************************************************************)
(* What the records of a buffer take: bytes on the wire, and when they are *)
(* kept as unknown fields, slots and levels of nesting.                    *)
(***************************************************************************)
EXTENDS Records, FiniteSetsExt

\* The bytes of a sequence of records.
RECURSIVE Size(_)
Size(recs) ==
    IF recs = <<>> THEN 0
    ELSE Header(Head(recs)) + Size(Head(recs).body) + Trailer(Head(recs))
           + Size(Tail(recs))

\* skip_field_depth over records, with `depth` levels left: the error or "".
RECURSIVE Skip(_, _)
Skip(recs, depth) ==
    IF recs = <<>> THEN ""
    ELSE LET r == Head(recs) IN
         IF r.wt = "bad" \/ r.num = 0 THEN "eof"
         ELSE IF r.wt = "group" /\ depth = 0 THEN "recursion"
         ELSE IF r.wt = "group" /\ Skip(r.body, depth - 1) # ""
           THEN Skip(r.body, depth - 1)
         ELSE Skip(Tail(recs), depth)

\* The slots an unknown record costs, one for each record in a group, and the
\* deepest nesting of its groups.
RECURSIVE Slots(_)
Slots(recs) ==
    IF recs = <<>> THEN 0
    ELSE 1 + (IF Head(recs).wt = "group" THEN Slots(Head(recs).body) ELSE 0)
           + Slots(Tail(recs))

\* The slots that decoding the records charges until it fails, if it does.
RECURSIVE ChargedUntil(_, _)
ChargedUntil(recs, depth) ==
    IF recs = <<>> \/ Head(recs).num = 0 THEN 0
    ELSE LET r == Head(recs) IN
         1 + (IF r.wt = "group" /\ depth > 0 THEN ChargedUntil(r.body, depth - 1) ELSE 0)
           + (IF Skip(<<r>>, depth) = "" THEN ChargedUntil(Tail(recs), depth) ELSE 0)

RECURSIVE GroupDepth(_)
GroupDepth(recs) ==
    IF recs = <<>> THEN 0
    ELSE Max({IF Head(recs).wt = "group" THEN 1 + GroupDepth(Head(recs).body)
              ELSE 0, GroupDepth(Tail(recs))})
=============================================================================
