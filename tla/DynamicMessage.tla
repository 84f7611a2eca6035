--------------------------- MODULE DynamicMessage ---------------------------
(***************************************************************************)
(* One reflective message: values by field number, changed by merging a    *)
(* buffer or through the API.  A merge takes the records of its buffer one *)
(* at a time; any other call is one step.                                  *)
(***************************************************************************)
EXTENDS Records, SequencesExt

CONSTANTS
    Schema, ExtensionRange, Extensions, EnumValues, IntMod,
    UnknownSlots(_), SkipError(_, _), RecordsLen(_), DefaultLimits,
    SubMerge(_, _, _), SubEncode(_), SubLen(_),     \* in a sub-message
    Root, Home,         \* the type and the pool of the message
    Buffers,            \* <<records, limits>> that are merged
    Writes,             \* <<n, from, value>>: values set through a descriptor
                        \* of pool `from`, or written in place
    MaxCalls            \* bound: calls on the message

INSTANCE FieldMerge WITH MergeNested <- SubMerge, EncodeNested <- SubEncode,
    NestedLen <- SubLen

\* The pool rejects a oneof member that is repeated or required, and takes an
\* extension out of the oneof it claims.  A MapValue from outside is in order.
SchemaAssumption ==
    \A t \in DOMAIN Schema : \A n \in DOMAIN Schema[t] :
        /\ Schema[t][n].card \in {"one", "list", "map"}
        /\ Schema[t][n].elem \in {"int", "enum", "msg"}
        /\ Schema[t][n].card # "one" => Schema[t][n].oneof = 0
ExtensionAssumption ==
    \A pool \in DOMAIN Extensions : \A t \in DOMAIN Extensions[pool] :
        \A n \in DOMAIN Extensions[pool][t] :
            /\ Extensions[pool][t][n].card \in {"one", "list", "map"}
            /\ Extensions[pool][t][n].elem \in {"int", "enum", "msg"}
            /\ Extensions[pool][t][n].oneof = 0
WritesAssumption == \A w \in Writes : w[3].shape = "map" => w[3].tail = <<>>
ASSUME DescriptorAssumption ==
    /\ Root \in DOMAIN Schema
    /\ Home \in DOMAIN Extensions /\ Root \in DOMAIN Extensions[Home]
    /\ SchemaAssumption /\ ExtensionAssumption /\ WritesAssumption

VARIABLES
    msg,        \* the message
    call,       \* the last call
    todo,       \* records a merge has not taken
    ctx,        \* its depth, budgets and error; <<>> when none runs
    result,     \* what the last call returned: "" or an error; some or none
    calls,      \* calls so far
    before      \* not in the code: the message when the last call came

vars == <<msg, call, todo, ctx, result, calls, before>>

Merging == ctx # <<>>

Init ==
    /\ msg = NewMessage(Home, Root)
    /\ before = msg
    /\ call = <<"new">> /\ todo = <<>> /\ ctx = <<>> /\ result = "" /\ calls = 0

Call(c) ==
    /\ ~Merging /\ calls < MaxCalls
    /\ calls' = calls + 1
    /\ call' = c
    /\ before' = msg

StartMerge(recs, limits) ==
    /\ Call(<<"merge", recs>>)
    /\ todo' = recs
    /\ ctx' = [depth |-> limits.depth, unk |-> limits.unk, mem |-> limits.mem,
               err |-> ""]
    /\ UNCHANGED <<msg, result>>

MergeField ==
    /\ Merging /\ ctx.err = "" /\ todo # <<>>
    /\ LET d == MergeOneField([msg |-> msg, unk |-> ctx.unk, mem |-> ctx.mem,
                               err |-> ""], Head(todo), ctx.depth)
       IN  /\ msg' = d.msg
           /\ ctx' = [ctx EXCEPT !.unk = d.unk, !.mem = d.mem, !.err = d.err]
    /\ todo' = Tail(todo)
    /\ UNCHANGED <<call, result, calls, before>>

FinishMerge ==
    /\ Merging /\ (ctx.err # "" \/ todo = <<>>)
    /\ msg' = Normalized(msg)
    /\ result' = ctx.err
    /\ todo' = <<>> /\ ctx' = <<>>
    /\ UNCHANGED <<call, calls, before>>

\* The call returned, with the message m.
Return(m, res) ==
    /\ msg' = m
    /\ result' = res
    /\ UNCHANGED <<todo, ctx>>

\* A descriptor of another pool, or of a number that is no field, is no member.
IsMember(n, from) == from = msg.pool /\ Resolves(msg, n)

TrySet(n, from, v) ==
    /\ Call(<<"set", n, v>>)
    /\ IF ~IsMember(n, from) THEN Return(msg, "not_member")
       ELSE IF Adopt(FieldOf(msg, n), v, msg.pool) = Mismatch
         THEN Return(msg, "wrong_kind")
         ELSE Return(InsertMember(msg, n, Adopt(FieldOf(msg, n), v, msg.pool)), "")

TryClear(n, from) ==
    /\ Call(<<"clear", n>>)
    /\ IF ~IsMember(n, from) THEN Return(msg, "not_member")
       ELSE Return(Without(msg, {n}), "")

TakeFieldByNumber(n) ==
    /\ Call(<<"take", n>>)
    /\ Return(Without(msg, {n}),
              IF /\ n \in DOMAIN msg.fields /\ Resolves(msg, n)
                 /\ IsPresent(FieldOf(msg, n), msg.fields[n])
                THEN "some" ELSE "none")

\* A value written through field_by_number_mut: no shape is checked.
WriteInPlace(n, v) ==
    /\ n \in DOMAIN msg.fields
    /\ Call(<<"write", n, v>>)
    /\ Return(Insert(msg, n, v), "")

Idle == ~Merging /\ UNCHANGED vars

Next ==
    \/ \E b \in Buffers : StartMerge(b[1], b[2])
    \/ MergeField
    \/ FinishMerge
    \/ \E w \in Writes : TrySet(w[1], w[2], w[3]) \/ WriteInPlace(w[1], w[3])
    \/ \E w \in Writes : TryClear(w[1], w[2]) \/ TakeFieldByNumber(w[1])
    \/ Idle

Spec == Init /\ [][Next]_vars

-----------------------------------------------------------------------------
(***************************************************************************)
(* Properties.                                                             *)
(***************************************************************************)
\* Every stored number is a field or a registered extension of the message; at
\* most one member of a oneof is stored, whichever of the decoder's paths or
\* calls stored it; and between calls, after a failed merge too, no map has
\* entries out of order, which lookups would miss.
OneofsExclusive ==
    \A n \in DOMAIN msg.fields : DOMAIN msg.fields \cap Siblings(msg, n) = {}
NumbersResolve == \A n \in DOMAIN msg.fields : Resolves(msg, n)
MapsSorted ==
    ~Merging => \A n \in DOMAIN msg.fields :
                   msg.fields[n].shape = "map" => msg.fields[n].tail = <<>>
WellFormed == OneofsExclusive /\ NumbersResolve /\ MapsSorted

\* A record that fails to merge leaves every field but its own as it was, the
\* member of a oneof that it would have replaced among them.
ErrorConfined ==
    [][MergeField /\ ctx'.err # "" =>
          /\ DOMAIN msg.fields \ {Head(todo).num} =
                DOMAIN msg'.fields \ {Head(todo).num}
          /\ \A n \in DOMAIN msg.fields \ {Head(todo).num} :
                msg'.fields[n] = msg.fields[n]]_vars
=============================================================================
