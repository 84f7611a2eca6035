---------------------------- MODULE MCViewDecode ----------------------------
(***************************************************************************)
(* A small instance of ViewDecode.                                         *)
(***************************************************************************)
EXTENDS ViewDecode, TLC

F(k, t) == [kind |-> k, of |-> t]

\* A: messages of every kind that a lazy view defers or does not.  B: a oneof
\* and maps.  C: closed enums.
MCSchema ==
    ("A" :> (1 :> F("msg", "A") @@ 2 :> F("rmsg", "C") @@ 3 :> F("emsg", "C")
               @@ 4 :> F("group", "C") @@ 5 :> F("int", "A"))
  @@ "B" :> (1 :> F("msg", "A") @@ 2 :> F("oint", "B") @@ 3 :> F("omsg", "C")
               @@ 4 :> F("menum", "B") @@ 5 :> F("mmsg", "C"))
  @@ "C" :> (1 :> F("enum", "C") @@ 2 :> F("renum", "C")))

MCCost == [owned |-> 3, eager |-> 2, lazy |-> 1]

\* Enum numbers 0 and 1 are known, 2 is not, and 6 is 2 in an int32.
Unk == V(9, 1)
UnkGroup == G(9, <<V(1, 1), G(2, <<V(7, 1)>>)>>)
LeafC == {<<>>, <<V(1, 1)>>, <<V(1, 6)>>, <<Unk>>, <<Bad>>}
RecsC ==
    {V(1, 1), V(1, 2), V(1, 6), V(2, 0), V(2, 6), Unk, UnkGroup, L(9, <<Bad>>),
     L(2, <<V(0, 1), V(0, 2), V(0, 0)>>), L(2, <<V(0, 6)>>), L(1, <<>>), Bad}
\* Messages in messages, down to the recursion limit and past it.
LeafA == {<<>>, <<V(5, 1), Unk>>, <<L(2, <<V(1, 6)>>)>>, <<L(1, <<L(1, <<>>)>>)>>,
          <<L(1, <<Unk>>), L(3, <<Unk>>)>>, <<Bad>>}
RecsA ==
    {L(1, b) : b \in LeafA} \cup {L(2, b) : b \in LeafC}
      \cup {L(3, <<V(1, 1)>>), L(3, <<Bad>>), G(4, <<V(1, 2)>>), V(5, 1), V(5, 4),
            Unk, UnkGroup}
RecsB ==
    {L(1, <<V(5, 1)>>), V(2, 1), L(3, <<V(1, 1)>>), L(3, <<V(1, 6), Unk>>),
     L(4, <<V(1, 1), V(2, 1)>>), L(4, <<V(2, 2)>>), L(4, <<V(2, 2), V(2, 1)>>),
     L(5, <<V(1, 1), L(2, <<V(1, 1)>>), L(2, <<V(2, 1)>>)>>),
     L(5, <<V(1, 1), V(3, 1)>>), L(5, <<L(2, <<Unk>>)>>), Unk}

CONSTANTS MaxA, MaxB, MaxC
Buffers(recs, max) == UNION {[1 .. n -> recs] : n \in 0 .. max}

Lim(depth, unk, mem) == [depth |-> depth, unk |-> unk, mem |-> mem]
MCInputs ==
    ({"A"} \X Buffers(RecsA, MaxA)
       \X {Lim(3, 9, 20), Lim(2, 9, 20), Lim(3, 2, 20), Lim(3, 9, 4)})
      \cup ({"B"} \X Buffers(RecsB, MaxB) \X {Lim(2, 9, 20), Lim(1, 2, 6)})
      \cup ({"C"} \X Buffers(RecsC, MaxC) \X {Lim(2, 9, 20), Lim(1, 4, 20)})
=============================================================================
