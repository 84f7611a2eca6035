---------------------------- MODULE MCWireDecode ----------------------------
(***************************************************************************)
(* Small instances of WireDecode.  A byte carries 7 bits as in the code,   *)
(* a varint has three bytes (15 bits) and an int 13, fixed-width payloads  *)
(* one and two bytes.                                                      *)
(***************************************************************************)
EXTENDS WireDecode, TLC

F(k, t) == [kind |-> k, of |-> t]

\* T, U: messages in messages, typed groups, unknown groups.  T keeps its
\* unknown fields, among them groups with number 3; U skips them, and number 3
\* is a group field there.
\* F: a oneof of an int and a message, a closed enum, single and repeated,
\* repeated ints and bytes.
\* M, N: maps from int to the enum and to a message, in a type that keeps
\* unknown fields and in one that does not.
MCSchema ==
    ("T" :> (1 :> F("int", "T") @@ 2 :> F("rmsg", "T") @@ 4 :> F("msg", "U"))
  @@ "U" :> (2 :> F("omsg", "T") @@ 3 :> F("rgroup", "U"))
  @@ "F" :> (1 :> F("oint", "F") @@ 2 :> F("omsg", "F") @@ 3 :> F("enum", "F")
               @@ 4 :> F("renum", "F") @@ 5 :> F("rbytes", "F")
               @@ 6 :> F("rint", "F") @@ 7 :> F("bytes", "F"))
  @@ "M" :> (1 :> F("menum", "M") @@ 2 :> F("mmsg", "N"))
  @@ "N" :> (1 :> F("menum", "N") @@ 3 :> F("group", "N")))

\* All buffers over an alphabet of the type's tags, lengths and values, for T
\* also behind a length prefix, for M those that start with a map field, and
\* one longer than MaxSize.
CONSTANTS MaxLenT, MaxLenF, MaxLenM, AlphabetT, AlphabetF, AlphabetM

Buffers(alphabet, max) == UNION {[1 .. n -> alphabet] : n \in 0 .. max}
MCInputs ==
    ({"T"} \X {"plain", "delimited"} \X Buffers(AlphabetT, MaxLenT))
      \cup ({"F"} \X {"plain"} \X Buffers(AlphabetF, MaxLenF))
      \cup {<<"M", "plain", <<t>> \o s>> :
               t \in {10, 18}, s \in Buffers(AlphabetM, MaxLenM - 1)}
      \cup {<<"T", "plain", [i \in 1 .. MaxSize + 1 |-> 0]>>}
=============================================================================
