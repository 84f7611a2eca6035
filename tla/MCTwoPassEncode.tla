-------------------------- MODULE MCTwoPassEncode --------------------------
(***************************************************************************)
(* Small instance of TwoPassEncode: a two-slot array, a base-4 varint, an  *)
(* eight-bit-like u32 and messages of every framing, chosen so that slots  *)
(* spill, prefixes change length, sizes saturate and the limits are met    *)
(* exactly and passed by one.                                              *)
(***************************************************************************)
EXTENDS TwoPassEncode

Leaf(k) == [kind |-> "leaf", tl |-> 1, n |-> k, of |-> 1]
Nest(k, m) == [kind |-> k, tl |-> 1, n |-> 1, of |-> m]

\* Message m nests only messages with a smaller number.
MCFields ==
    << <<>>,                                              \* 1: empty
       <<Leaf(2)>>,                                       \* 2
       <<Nest("msg", 2), Leaf(1), Nest("msg", 1)>>,       \* 3: siblings
       <<Nest("group", 3), Nest("map", 2)>>,              \* 4: slots in a group
       <<Nest("mapomit", 1), Nest("mapomit", 2), Nest("msg", 3)>>,
       <<Leaf(19), Nest("msg", 1)>>,                      \* 6: 21 bytes
       <<Leaf(20), Nest("msg", 1)>>,                      \* 7: 22 bytes
       <<Leaf(30)>>,                                      \* 8: past u32
       <<Nest("group", 8), Nest("msg", 8)>>               \* 9: saturates twice
    >>

MCMsg == DOMAIN MCFields

\* The reference functions, from the innermost messages outwards.
MCLenUpTo ==
    LET up[m \in MCMsg] ==
          LET sum[i \in 0 .. Len(MCFields[m])] ==
                IF i = 0 THEN 0
                ELSE sum[i - 1] + LET f == MCFields[m][i] IN
                       IF f.kind = "leaf" THEN f.n
                       ELSE FieldLen(f, up[f.of][Len(MCFields[f.of])])
          IN  sum
    IN  up

MCPre ==
    LET pre[m \in MCMsg] ==
          LET cat[i \in 0 .. Len(MCFields[m])] ==
                IF i = 0 THEN <<>>
                ELSE cat[i - 1] \o LET f == MCFields[m][i] IN
                       CASE f.kind = "leaf"  -> <<>>
                         [] f.kind = "group" -> pre[f.of]
                         [] OTHER            -> <<f.of>> \o pre[f.of]
          IN  cat[Len(MCFields[m])]
    IN  pre

MCSlotsUpTo ==
    [m \in MCMsg |-> [i \in 0 .. Len(MCFields[m]) |->
        LET upto[j \in 0 .. i] ==
              IF j = 0 THEN 0
              ELSE upto[j - 1] + LET f == MCFields[m][j] IN
                     IF f.kind = "leaf" THEN 0
                     ELSE OwnSlot(f) + Len(MCPre[f.of])
        IN  upto[i]]]
=============================================================================
