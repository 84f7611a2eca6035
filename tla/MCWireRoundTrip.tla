-------------------------- MODULE MCWireRoundTrip --------------------------
(***************************************************************************)
(* Small instances of WireRoundTrip, with varints of three 7-bit bytes, as *)
(* in MCWireDecode.                                                        *)
(***************************************************************************)
EXTENDS WireRoundTrip

F(k, t) == [kind |-> k, of |-> t]

\* T, U: two types with every kind of nested field between them; T keeps
\* unknown fields.  F: the repeated and singular kinds of bytes and ints, and
\* maps to the enum.
MCSchema ==
    ("T" :> (1 :> F("oint", "T") @@ 2 :> F("rmsg", "T") @@ 3 :> F("omsg", "U")
               @@ 4 :> F("enum", "T") @@ 6 :> F("mmsg", "T"))
  @@ "U" :> (1 :> F("int", "U") @@ 2 :> F("group", "U")
               @@ 3 :> F("renum", "T") @@ 4 :> F("menum", "T"))
  @@ "F" :> (1 :> F("renum", "F") @@ 2 :> F("rint", "F") @@ 3 :> F("rbytes", "F")
               @@ 4 :> F("bytes", "F") @@ 5 :> F("menum", "F")))

\* All buffers up to MaxLen bytes, for T also those with one byte more that
\* start with a tag in LongFirst.
CONSTANTS MaxLen, LongFirst, AlphabetT, AlphabetF

Buffers(alphabet) == UNION {[1 .. n -> alphabet] : n \in 0 .. MaxLen}
MCInputs ==
    ({"T"} \X {"plain"} \X Buffers(AlphabetT))
      \cup {<<"T", "plain", <<t>> \o s>> :
               t \in LongFirst, s \in [1 .. MaxLen -> AlphabetT]}
      \cup ({"F"} \X {"plain"} \X Buffers(AlphabetF))
=============================================================================
