--------------------------- MODULE ContiguousSink ---------------------------
(***************************************************************************)
(* How a message of an announced size gets into a sink: through a cursor   *)
(* over uninitialised space of exactly that size, in the sink's own buffer *)
(* or in a new Vec, or write by write where the sink is segmented or not a *)
(* BufMut.  write_to may be a manual implementation that writes more or    *)
(* less than compute_size announced, and it may panic; the caller can      *)
(* catch that and go on with the sink.  The bytes of each message are      *)
(* numbered from 1.                                                        *)
(***************************************************************************)
EXTENDS Naturals, Sequences

CONSTANTS
    Sizes,          \* what compute_size announces
    PutSizes,       \* lengths of put_slice and the like
    Chunks,         \* spare space a BufMut offers at once (chunk_mut)
    MaxProduced,    \* bound: bytes write_to produces
    MaxMessages     \* bound: messages encoded into the sink

ASSUME SinkAssumption ==
    /\ Sizes \subseteq Nat /\ PutSizes \subseteq Nat /\ Chunks \subseteq Nat
    /\ MaxProduced \in Nat /\ MaxMessages \in Nat

Uninit == 0
Kinds == {"bufmut", "perwrite"}

VARIABLES
    kind,       \* the sink
    debug,      \* whether debug_assertions are on
    published,  \* the messages in it: what each one left there
    path,       \* "idle", "window" (chunk_mut), "scratch" (a new Vec),
                \* "perwrite"
    size,       \* the announced size
    window,     \* the space of the cursor
    cursor,     \* PreSized::pos
    produced,   \* bytes write_to has produced
    outcomes    \* how each message ended: "ok" or "panic"

vars == <<kind, debug, published, path, size, window, cursor, produced, outcomes>>

Init ==
    /\ kind \in Kinds /\ debug \in BOOLEAN
    /\ published = <<>> /\ outcomes = <<>>
    /\ path = "idle"
    /\ size = 0 /\ window = <<>> /\ cursor = 0 /\ produced = 0

\* write_contiguous; a window of the sink's own is used if it is long enough,
\* and for a message of size 0 no space is asked for.
WriteContiguous(n, chunk) ==
    /\ path = "idle" /\ Len(outcomes) < MaxMessages
    /\ size' = n
    /\ cursor' = 0 /\ produced' = 0
    /\ IF kind = "perwrite" THEN path' = "perwrite" /\ window' = <<>>
       ELSE /\ path' = IF n = 0 \/ chunk >= n THEN "window" ELSE "scratch"
            /\ window' = [i \in 1 .. n |-> Uninit]
    /\ published' = IF kind = "perwrite" THEN Append(published, <<>>)
                    ELSE published
    /\ UNCHANGED <<kind, debug, outcomes>>

Pre == path \in {"window", "scratch"}

\* The message is over.  An unwinding panic skips advance_mut and set_len: what
\* the cursor wrote stays in space that is not part of the sink.
End(outcome, bytes) ==
    /\ path' = "idle"
    /\ outcomes' = Append(outcomes, outcome)
    /\ published' = IF Pre THEN Append(published, bytes) ELSE published
    /\ window' = <<>> /\ cursor' = 0
    /\ UNCHANGED <<kind, debug, size, produced>>

Panic == End("panic", <<>>)

\* The slice get_mut hands out.
Fits(n) == cursor + n <= Len(window)

\* One put of n bytes by write_to.
Put(n) ==
    /\ path # "idle"
    /\ IF ~ Pre
         THEN /\ published' = [published EXCEPT ![Len(published)] =
                                  @ \o [i \in 1 .. n |-> produced + i]]
              /\ produced' = produced + n
              /\ UNCHANGED <<kind, debug, path, size, window, cursor, outcomes>>
       ELSE IF ~ Fits(n) THEN Panic
       ELSE /\ window' = [i \in 1 .. Len(window) |->
                             IF i \in cursor + 1 .. cursor + n
                               THEN produced + (i - cursor) ELSE window[i]]
            /\ cursor' = cursor + n
            /\ produced' = produced + n
            /\ UNCHANGED <<kind, debug, published, path, size, outcomes>>

\* Mutant: the announced size is published, not what was written.
WrittenAnnounced == window

\* PreSized::written, the length that advance_mut and set_len publish.
Written == SubSeq(window, 1, cursor)

\* write_to returns.
Finish ==
    /\ path # "idle"
    /\ IF Pre /\ debug /\ cursor # size THEN Panic ELSE End("ok", Written)

\* write_to panics on its own.
Unwind == path # "idle" /\ Panic

Full == path = "idle" /\ Len(outcomes) = MaxMessages /\ UNCHANGED vars

Next ==
    \/ \E n \in Sizes, chunk \in Chunks : WriteContiguous(n, chunk)
    \/ \E n \in PutSizes : produced + n <= MaxProduced /\ Put(n)
    \/ Finish \/ Unwind \/ Full

Spec == Init /\ [][Next]_vars

-----------------------------------------------------------------------------
\* No byte that was not written reaches the sink, whatever write_to does: a
\* short one publishes less than was announced, never what the space held.
NothingUninitialised ==
    \A m \in 1 .. Len(published) :
        \A i \in 1 .. Len(published[m]) : published[m][i] = i

\* A message of a BufMut is published whole or not at all, in all of its bytes
\* when write_to returned and none when it panicked, and never with more than
\* was announced.
AllOrNothing ==
    [][path # "idle" /\ path' = "idle" /\ kind = "bufmut" =>
          LET last == published'[Len(published')] IN
          /\ outcomes'[Len(outcomes')] = "panic" => last = <<>>
          /\ outcomes'[Len(outcomes')] = "ok" => Len(last) = produced
          /\ Len(last) <= size]_vars
=============================================================================
