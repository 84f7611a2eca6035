--------------------------- MODULE WireRoundTrip ---------------------------
(***************************************************************************)
(* A decoded message is encoded and decoded again: what a proxy that only  *)
(* passes messages on relies on.                                           *)
(***************************************************************************)
EXTENDS WireEncode

\* The message that was accepted goes back through write_to and decode, the
\* second time with the types in ts decoded by tables.
Reencode(ts) ==
    /\ phase = "begin"
    /\ first # NoResult /\ first.err = "ok"
    /\ data' = WriteTo(root, first.val[1])
    /\ cut' = Len(data')
    /\ tables' = ts
    /\ stack' = <<RootFrame(Len(data'), Len(data'), EmptyMsg(root))>>
    /\ pos' = 1
    /\ phase' = "running"
    /\ unkLeft' = UnknownLimit /\ memLeft' = ElementLimit
    /\ complete' = {}
    /\ UNCHANGED <<root, entry, tag, err, first>>

Rejected ==
    /\ phase = "begin"
    /\ first # NoResult /\ first.err # "ok"
    /\ phase' = "done"
    /\ UNCHANGED <<data, root, entry, cut, tables, stack, pos, tag, unkLeft,
                   memLeft, err, first, complete>>

RoundTripNext ==
    \/ BeginGenerated \/ Rejected
    \/ \E ts \in TableSets : Reencode(ts)
    \/ Fields \/ Ends
    \/ Returned

RoundTripSpec == Init /\ [][RoundTripNext]_vars

-----------------------------------------------------------------------------
\* The length compute_size announces is the length write_to puts out, for every
\* message a decode can produce.
SizeExact ==
    first # NoResult /\ first.err = "ok" /\ phase = "begin" =>
        ComputeSize(root, first.val[1]) = Len(WriteTo(root, first.val[1]))

\* Encoding an accepted message takes the bytes it announced, and decoding them
\* gives the message back: unknown fields with their order and nesting, enum
\* numbers the schema does not know, oneof members and map entries included,
\* and within the limits the first decode was held to.
RoundTrips ==
    /\ SizeExact
    /\ phase = "done" /\ first.err = "ok" =>
           err = "ok" /\ <<stack[1].val>> = first.val

RECURSIVE UnknownRecords(_), Kept(_, _), Elements(_, _)

UnknownRecords(unknowns) ==
    LET records(u) == 1 + UnknownRecords(u.group) IN SumLen(records, unknowns)

\* The messages directly below a message, with their types.
Nested1(t, msg) ==
    LET below(n) ==
          LET f == Schema[t][n]
              x == msg.fields[n]
          IN  CASE f.kind \in {"msg", "rmsg", "group", "rgroup"} ->
                      [i \in 1 .. Len(x) |-> <<f.of, x[i]>>]
                [] f.kind = "mmsg" ->
                      LET keys == Ascending(DOMAIN x)
                      IN  [i \in 1 .. Len(keys) |-> <<f.of, x[keys[i]]>>]
                [] f.kind = "omsg" /\ msg.oneof # <<>> /\ msg.oneof[1] = n ->
                      <<<<f.of, msg.oneof[2]>>>>
                [] OTHER -> <<>>
    IN  Cat(below, Ascending(DOMAIN Schema[t]))

\* Unknown records and charged elements anywhere in a message.
Kept(t, msg) ==
    LET below(m) == Kept(m[1], m[2])
    IN  UnknownRecords(msg.unk) + SumLen(below, Nested1(t, msg))

Elements(t, msg) ==
    LET below(m) == Elements(m[1], m[2])
        own(n) == CASE Schema[t][n].kind \in {"rmsg", "rbytes", "rgroup"} ->
                         Len(msg.fields[n])
                    [] Schema[t][n].kind \in MapKinds ->
                         Cardinality(DOMAIN msg.fields[n])
                    [] OTHER -> 0
    IN  SumLen(own, Ascending(DOMAIN Schema[t]))
          + SumLen(below, Nested1(t, msg))

\* What a call stores it has paid for: every unknown record, at any depth of
\* groups and messages, and every element of a repeated field or map.  So one
\* call never builds more of either than its limits say, whatever it reads.
StoredIsCharged ==
    first # NoResult /\ first.err = "ok" /\ phase = "begin" =>
        /\ Kept(root, first.val[1]) <= UnknownLimit - first.unk
        /\ Elements(root, first.val[1]) <= ElementLimit - first.mem
=============================================================================
