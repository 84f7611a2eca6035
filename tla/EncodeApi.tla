----------------------------- MODULE EncodeApi -----------------------------
(***************************************************************************)
(* What the encode entry points promise their caller, whatever happens     *)
(* between the call and the return: a message that fits is measured and    *)
(* written exactly, one that does not is refused before a byte is written, *)
(* the 2 GiB limit being reported ahead of the caller's own budget.        *)
(***************************************************************************)
EXTENDS MessageTree

CONSTANT Budgets    \* the max_bytes values callers pass

ASSUME BudgetsAssumption == Budgets \subseteq Nat

\* op: which entry point; src: where its SizeCache comes from; sink: whether
\* the bytes go through a window of exactly the declared length.
\*   len        try_encoded_len          plain  try_encode(_with_cache)
\*   bounded    try_encode_bounded       vec    try_encode_to_vec
\*   delimited  try_encode_length_delimited
\*   raw        Message::compute_size called directly on the caller's cache
Calls ==
    {c \in [op   : {"len", "plain", "bounded", "delimited", "vec", "raw"},
            src  : {"fresh", "kept", "pool"},
            sink : {"presized", "perwrite"},
            root : Msg,
            max  : Budgets \cup {MaxMessage}] :
        /\ c.src = "kept" => c.op \in {"plain", "bounded", "raw"}
        /\ c.src = "pool" => c.op \in {"len", "plain", "bounded"}
        /\ c.src = "fresh" => c.op # "raw"
        /\ c.op = "vec" => c.sink = "presized"
        /\ c.op \in {"len", "raw"} => c.sink = "perwrite"
        /\ c.op # "bounded" => c.max = MaxMessage}

NoCall == [op |-> "none"]
NoOutcome == [status |-> "none"]

Outcome ==
    [status : {"ok", "too_large", "over_budget"}, len : Nat, written : Nat]

Refused(why) == [status |-> why, len |-> 0, written |-> 0]

\* The answer to call c.
Answer(c) ==
    LET n == TrueLen(c.root) IN
    IF c.op = "raw"
      THEN [status |-> "ok", len |-> SaturateSize(n), written |-> 0]
    ELSE IF n > MaxMessage THEN Refused("too_large")
    ELSE IF c.op = "bounded" /\ n > c.max THEN Refused("over_budget")
    ELSE [status  |-> "ok",
          len     |-> n,
          written |-> IF c.op = "len" THEN 0
                      ELSE IF c.op = "delimited" THEN VarintLen(n) + n
                      ELSE n]

VARIABLES call, outcome
apiVars == <<call, outcome>>

ApiInit == call = NoCall /\ outcome = NoOutcome

ApiCall ==
    /\ call = NoCall
    /\ call' \in Calls
    /\ outcome' = NoOutcome

ApiReturn ==
    /\ call # NoCall
    /\ call' = NoCall
    /\ outcome' = Answer(call)

ApiSafety == ApiInit /\ [][ApiCall \/ ApiReturn]_apiVars

ApiSpec == ApiSafety /\ WF_apiVars(ApiReturn)
=============================================================================
