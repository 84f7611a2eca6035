# buffa: a TLA+ model

buffa is a Protocol Buffers implementation in Rust: a runtime library (`buffa`),
the well-known types (`buffa-types`), descriptors and reflection
(`buffa-descriptor`), a code generator (`buffa-codegen`) and its front ends.  This
directory models the parts of it where a mistake is hard to find by testing,
checks the models with TLC on small instances, and proves the central results
with TLAPS for every instance.

Paths in this file are relative to the repository.  `PROJECT.json` maps every
definition to the lines it models, lists the runs with their properties, the
hazards each property is for, and one mutant per property: a small change of the
model, of the kind a careless edit of the code would make, that the run must
refute.

- [The system](#the-system)
- [Modules](#modules)
- [Runs](#runs)
- [Fairness](#fairness)
- [Proofs](#proofs)
- [What is only model-checked](#what-is-only-model-checked)
- [What is not modelled](#what-is-not-modelled)
- [Plan](#plan)

## The system

A user compiles `.proto` files into Rust types.  A message is a struct; encoding
it takes two passes, decoding it is a merge into an existing value.  At run time
there are a few pieces of shared or long-lived state: caches of sizes and a pool
of their buffers, the installed type registry, and descriptor pools.

| Component | Source | State | Operations | What is hard |
|---|---|---|---|---|
| Size cache, two-pass encode | `buffa/src/size_cache.rs`, `message.rs`, `table/size.rs`, `table/encode.rs` | inline slots (uninitialised at first), spill vector, length, cursor; a free list of spill buffers | `compute_size`, `write_to`, `encode*`, `try_encode*` (plain, bounded, length-delimited, to `Vec` or `Bytes`), `encoded_len`, pool acquire and release | the write pass finds sizes by position only; a cache survives errors and is used again; sizes saturate |
| Varint codec | `buffa/src/encoding.rs` | a buffer in chunks | `decode_varint`, its packed twin, the unrolled slice decoder, the byte loop, `read_varint`, `encode_varint`, `varint_len` | five readers that must agree; unchecked indexing |
| Wire primitives | `buffa/src/encoding.rs`, `types.rs` | none | tags, spans, fixed-width values, packed runs, skipping | ends of spans, 2 GiB lengths |
| Decode and merge | `buffa/src/message.rs`, `encoding.rs`, `unknown_fields.rs`, `buffa-codegen/src/impl_message.rs` | the message, the position, depth, budgets of a `DecodeContext` | `merge*`, `decode*`, one merge arm per field kind, unknown fields | nesting by length, groups by end tag; failure in the middle; budgets shared by all levels |
| Table codec | `buffa/src/table/*.rs`, `buffa-codegen/src/table_*.rs` | tables of slots | the same, by interpretation; bridges to generated code | must not be told apart from generated code, and is mixed with it |
| Map fields | `buffa/src/map_codec.rs`, `table/map.rs` | an entry in progress | decode an entry, keep it whole if its enum is unknown | decided after the key has been read |
| Encode sinks | `buffa/src/encode_sink.rs` | segments and a tail; a window over uninitialised memory | `put_*`, splice, `into_buf`, `advance`, `copy_to_bytes`, `write_contiguous` | order of tail and segments; panics of a user's `write_to` |
| Type registry | `buffa/src/type_registry.rs`, `any_registry.rs`, `extension_registry.rs` | maps by URL, by name, by number | `register_*`, lookups | two indexes over one set, re-registration |
| Registry installation, Any expansion | the same, `buffa-types/src/any_ext.rs` | four global pointers, a depth counter | `set_type_registry`, serialise a nested Any | lock-free, process-wide without `std` |
| Descriptor pool | `buffa-descriptor/src/pool.rs`, `desc.rs`, `features.rs` | vectors of linked descriptors and six indexes over them | `add_file_descriptor_set`, lookups | several passes, any of which may fail; order of files; visibility through public imports |
| Views, lazy views | `buffa/src/view.rs`, `buffa-codegen/src/view.rs`, `lazy_view.rs`, `owned_view.rs` | borrowed spans, deferred fields with the depth and budgets they were met with | `decode_view`, access to a deferred field, `to_owned_message`, encoding | decoding that is resumed later, twice or never; spans of unknown records that are joined |
| Extensions, message sets | `buffa/src/extension.rs`, `message_set.rs` | unknown fields, read as typed ones | get, set, has, clear; items decoded and encoded | parts in any order, repeated; a value that fails to encode; budgets over several records |
| Reflection | `buffa-descriptor/src/reflect/*` | `DynamicMessage`: values by field number, unknown fields, the pool | merge, encode, set, clear, take, write in place, JSON | a third decoder, with presence and oneofs at run time; a merge that fails half way; messages of another pool |
| Text format, JSON | `buffa/src/text/*`, `json*.rs` | tokenizer, options | parse and print | nesting, process-wide options |
| Well-known types | `buffa-types/src/*_ext.rs` | none | conversions | signs and borrow |
| Code generation | `buffa-codegen/src/*` | a context of names | one Rust module per package | name collisions |
| Build, plugins, derive, YAML | `buffa-build`, `protoc-gen-buffa*`, `buffa-remote-derive`, `buffa-yaml` | none | input and output | |

How they interact: generated code (or a table) calls the runtime's primitives for
every field and calls itself, or the other engine, for every nested message; the
size cache is the only channel between the two passes; a sink sees only the write
pass; the JSON side of `Any` reaches the registry through the installed pointer;
the code generator and the reflection layer both work from linked descriptors.

What makes each part correct, in a sentence:

* *encode*: the length written before a payload is the payload's length, no
  encode panics, and a call answers with exactly the bytes, or the refusal, that
  its documentation promises, whatever was done before with the same cache or pool;
* *decode*: never outside the buffer or the enclosing message, never deeper or
  larger than the limits, the same result from both engines, the same message from
  one merge as from two, nothing half-decoded left after an error;
* *round trip*: what is decoded is written again in the bytes that were announced
  and decodes to the same message, unknown fields included;
* *sinks*: bytes come out once and in order, and never one that was not written;
* *registry*: a lookup finds the latest registration that applies, indexes agree;
  a thread never uses a registry that is gone, and the Any depth neither leaks nor
  exceeds its cap;
* *views*: a view, a lazy view and the owned decoder accept the same buffers, show
  the same message and are written as one that decodes to it;
* *reflection*: a dynamic message is well formed whatever failed before, and its
  calls are those of a store of fields;
* *extensions*: each is a field of its own kept in the unknown fields, and a call
  that fails leaves it as it was;
* *descriptor pool*: a call that fails changes nothing, the order of files does
  not matter, and what is linked obeys the rules of the language.

The `hazards` of `PROJECT.json` name the lines where each of these could go wrong.

## Modules

```
SizeCache    MessageTree          Varint ---------> VarintPaths
    |            |                   |
    |        EncodeApi           WireFormat
    |            |                   |
    +--> TwoPassEncode           WireDecode --> WireEncode --> WireRoundTrip
               |                     |                              |
        MCTwoPassEncode        MCWireDecode                  MCWireRoundTrip

TypeRegistry     AnyExpansion     Rope     ContiguousSink

DescriptorLink --> DescriptorPool --> MCDescriptorPool

Records --> RecordCosts --> ViewDecode --> MCViewDecode
  |             |
  |             +------------> MCDynamicMessage, MCExtensionSet
  |
  +--> FieldMerge . . . . > DynamicMessage
  +--> FieldStore . . . . > MCDynamicMessage <-- DynamicMessage
  |
  +--> ExtensionSet --> MCExtensionSet
  +--> ExtensionValue --> ExtensionStore . . > MCExtensionSet
```

A solid arrow is `EXTENDS`, a dotted one `INSTANCE ... WITH`.  There are three
refinements, each from a detailed module to an abstract one that says what the
component promises: `TwoPassEncode` implements `EncodeApi`, `DynamicMessage`
implements `FieldStore`, and `ExtensionSet` implements `ExtensionStore`.

The proofs are in modules of their own, which extend what they are about:

```
TwoPassEncode ---> TwoPassEncode_proofs
DynamicMessage --> DynamicMessage_proofs
TypeRegistry, AnyExpansion ---> Registries_proofs

Varint ----------> Varint_proofs --+--> VarintPaths_proofs <----- VarintPaths
                                   +--> WireDecode_proofs <------ WireDecode
                                   +--> EncodeSinks_proofs <----- Rope, ContiguousSink
                                   +--> DescriptorPool_proofs <-- DescriptorPool
```

From `Varint_proofs` the others take what it derives about induction and recursion.
One module of proofs may be about two components, which is why the specification of
`AnyExpansion` is called `ExpansionSpec`, beside the `Spec` of `TypeRegistry`.

### Encoding

**SizeCache** is `SizeCache` and `SizeCachePool` as operators on records: the
inline array with its uninitialised slots, the spill vector with its capacity,
`len` and `cursor`; `Reserve`, `SetSlot`, `ConsumeNext`, `Clear`, and the pool's
acquire and release.  `CanSet` and `CanConsume` are the conditions under which the
code does not panic or read an uninitialised slot.

**MessageTree** is what an encode walks over: a message is the sequence of its
present fields, a field a leaf of so many bytes or a nested message in one of four
framings (length-prefixed, group, map entry, map entry that leaves out defaults).
`LenUpTo`, `SlotsUpTo` and `Pre` are the reference: the bytes of the first fields
of a message, the slots they need, and the order in which the nested messages
appear.  They are constants constrained by their defining equations, so that they
can be reasoned about without recursive operators; when no message contains itself
the equations have exactly one solution.

**EncodeApi** is the abstract specification: a call is made, and returns what
`Answer` says.  The answer depends on the message and the limits alone.

**TwoPassEncode** is the implementation.  `BeginCall` chooses the entry point, the
message, and where the cache comes from (new, the caller's own, a pool's).  The
recursion of `compute_size` is the stack `sizing`, with `SizeLeaf`, `SizeOpen`
(reserve a slot, descend), `SizeClose` (fill it) and `SizeDone`; `CheckSize` is
the refusal between the passes; the recursion of `write_to` is the stack
`writing`, with `WriteLeaf`, `WriteOpen` (take the next slot), `WriteOpenGroup`,
`WriteClose`, `WriteDone`; `Return` ends the call and `PoolRelease` gives a buffer
back.  A raw `compute_size` on a kept cache, which leaves its slots behind, is a
call too.  What is abstracted: the bytes of leaves (`WireEncode` has those).

**Rope** is the segmented sink and the `Buf` made of it; **ContiguousSink** is the
pre-sized window over uninitialised memory, with a `write_to` that may write too
little, too much, or panic at any point.  Bytes are numbered in the order they are
written, which is all these properties tell apart.  The specification of the rope
is `RopeSpec`, so that one module can speak of both sinks.

### Decoding

**Varint** says what a varint is, **VarintPaths** how the code reads one: one byte
inline, else the unrolled decoder where the chunk permits, else byte by byte
across chunks, and the `io::Read` variant.  The number of values of a group is a
parameter (128 in the code, seven bits), and so is the length of the longest varint
(10).

**WireFormat** has tags, spans, fixed-width values, sign extension and packed runs.

**WireDecode** is the merge loop.  `stack` holds one frame per activation: its
type, where it must end, the value built so far, and how it will be attached to
the frame below (field, element, oneof member, map value, map entry, unknown
group, skipped group).  `DecodeTag` reads a tag; one action per field kind stores
a value or opens a frame; `CloseMessage`, `CloseEntry` and `CloseGroup` attach it;
`Fail` and `Unwind` are the error path, which keeps what the code keeps.  `unkLeft`
and `memLeft` are the budgets for unknown fields and elements.  The types in
`tables` are decoded by the table engine, the others by generated code: the
engines differ in how a nested message is bounded, what is charged before and
after, and how a oneof member or a map entry is built.  `BeginParts` decodes a
buffer in two calls of `merge`.

**WireEncode** gives the bytes of a value and the size announced for it, by
separate recursions as in the code; **WireRoundTrip** decodes, encodes and decodes
again, by either engine.

### Registries

**TypeRegistry** registers `Any` entries and extension entries in any order.  A
type URL is a prefix and a name, or has no slash, or no name.

**AnyExpansion** runs threads that serialise nested `Any` values while registries
are installed.  The four stores of an installation are four steps; so are the load
of the pointer, the lookup, the load of the counter, and its compare-exchange,
which may fail spuriously.  The specification is `ExpansionSpec`.  `shared` chooses between the process-wide counter
(`no_std`) and one per thread.

### Descriptors

**DescriptorLink** is one operator per linking rule, returning the error of the
first check that fails, or what is added: features, ranges, registration, name
resolution, fields, oneofs, map entries, messages, enums, services, extensions,
finalisation.  The members of a message, an enum or a service are not added one by
one: each is checked against those before it, and all are added if no check fails,
which is the same because an error drops the clone.  **DescriptorPool** is the call
that uses them: set checks
(`Add`), `RegisterMessage` and `RegisterEnum`, then `LinkNextMessage` and
`LinkNextEnum` in a second walk that counts along, `LinkNextService`,
`LinkNextExtension`, `LinkNestedExtensions`, `Finalize`, `IndexNext`, `Commit`.
`link_field`, the longest of the code's functions, is `LinkField` with one operator
per group of checks (`LabelErr`, `TypeErr`, `OptionErr`) and one per resolved
property of the field, applied in the order of the code.
All work on a clone; `Return` drops it, `Commit` makes it the pool.  After a first
outcome the model may add the same files to a clone of the first pool in another
order, or in several calls, and compares.  Names are sequences of components; two
conversions of names (the JSON name and the map entry's name) are constants, and so
are the sets of files (`Scenarios`) and the messages they define at any depth
(`MessageDefs`).

### Views

**Records** is a second, coarser picture of the wire, for what is compared record
by record: a buffer is a sequence of records, each with a number, a wire type and a
value or a body of records, or bytes that are no record (`Bad`).  **RecordCosts**
has what a record takes: bytes, slots of the unknown-field budget, levels.  The
bytes themselves are `WireFormat`'s.

**ViewDecode** has the three decoders that are generated for a message as one
family of operators, with a parameter for the family: `owned`, `eager` (a view) or
`lazy`.  A slice of the buffer knows the byte it starts at, because the unknown
fields of a view are spans of the buffer: `PushRecord` extends the last span when
the next record adjoins it.  A lazy view defers a message field: `PushFragment`
keeps the slice and, of several, the smallest depth and budgets; `Get` and
`GetElement` decode the fragments later.  The actions are the three decodes of one
buffer and then accesses to any depth (`Access`, `AccessElement`), in step in the
eager and the lazy view.  `ToOwned` and `Encode` are the conversions.

Points a reader should know, all of them what the code does:

* A view keeps the record of a closed enum's unknown number as it stands; the owned
  decoder keeps the number truncated to an `int32`.  `Canonical` identifies the two.
* What an element costs is the size of its Rust type and differs between families,
  so `element_limit` is excepted from their agreement.
* The budgets of deferred fields are per subtree: each resumes with what was left
  where it was met.  So a lazy view may succeed where the eager decode ran out.
* A lazy view that is encoded replays fragments it never read, faulty ones too.

### Reflection

**FieldMerge** is what one record does to a dynamic message, and what it encodes
to: wire type checks, oneofs (`InsertMember`), singular messages merged in place
(`MergeReplace` otherwise decodes first and stores then), lists, packed or not, map
entries appended to an unsorted tail, closed enums, extensions found through the
pool, `Adopt` for a value that comes from outside, `ShouldSkip` for what is not
written.  Recursion into sub-messages is by the constants `MergeNested`,
`EncodeNested` and `NestedLen`: the instance supplies the operators of the next
level, and the proofs are about any.

**DynamicMessage** is the message and its calls.  A merge takes one record a step
(`MergeField`) and ends, in success or failure, by putting the maps in order
(`FinishMerge`).  `TrySet`, `TryClear`, `TakeFieldByNumber` and `WriteInPlace` (a
value written through a mutable reference, which checks no shape) are one step.

**FieldStore** says what this amounts to: a merge is one step, and its effect is
said of the whole buffer (the last value, all elements, the last entry of a key, one
message out of all parts, the member of a oneof that comes last).  A failed merge
has merged the records before the one that failed, and perhaps part of the field of
that one.  A value in place with a wrong shape (`Tampered`) is skipped when the
message is encoded, and the next merge into it may keep or replace it.  A number
of a closed enum that the enum does not know can be set; it is written, and comes
back as an unknown field, which `TranscodePreserves` excepts (`HoldsStray`).

### Extensions

**ExtensionSet** is a carrier's unknown fields and the calls on them.  `Decode` and
`TryEncode` are the codecs (optional, repeated, packed; integers, strings,
messages, groups), `MergeItem` and `EncodeField` the items of a MessageSet.  Reading
is part of no action: what each extension reads as is shown in every state and
compared with the abstract module.

**ExtensionValue** says what the records of an extension amount to taken as one,
without decoding them one after the other, and what they take of the budgets;
**ExtensionStore** is the store: `held` is what has arrived for each extension,
`rest` the other records.  Reads are compared by `Shows`: where the budgets suffice
they are exactly the value; where they do not, a single message reads as unset and a
list is cut short.  So a value that is set may read back as unset, when it is larger
than the default budgets: the code documents the budgets but not this.

A group's value is encoded and decoded again as unknown fields, and the code
`expect`s that to succeed ("re-decoding freshly-encoded message bytes failed",
`buffa/src/extension.rs:1052`).  A message that nests groups deeper, or holds
more unknown records, than one decode takes fails there: the call panics, also
`try_set_extension`.  The model has it as the result `"panic"` and `ExtensionStore`
allows it (`Refusals`).  `set_extension` is `try_set_extension` with any error made
a panic, so the model has the one.

## Runs

All figures are for two workers on a small machine.

| Run | Instance | Distinct states | What it shows |
|---|---|---|---|
| `two_pass` | nine messages, inline capacity 2, base-4 varints, limit 21, `u32` up to 25, one pooled buffer | 247,604 | `NoPanic`, `PrefixExact`, `AllSlotsConsumed`, `PoolBounded`, and that the entry points implement `EncodeApi` |
| `varint_paths` | 2-bit groups, 3 bytes at most, all buffers up to 4 bytes, all splits | 233,846 | all readers agree; the unrolled one stays in its chunk |
| `wire_decode` | 5 message types, all buffers of up to 6, 4 and 6 bytes over alphabets of tags, lengths and values | 3,339,377 | bounds, depth and budgets, agreement of engines, merging, partial failure |
| `roundtrip` | 3 message types, all buffers of up to 5 or 6 bytes | 2,338,103 | the round trip, exact sizes, budgets are charged for what is stored |
| `type_registry` | 4 calls over 2 prefixes and names, 2 by 2 extension numbers, 3 names | 68,341 | latest wins, indexes are inverse |
| `any_expansion` | 2 threads, 2 installers, cap 2, 2 `Any`s each, 1 spurious failure | 1,014,627 | counter exact, capped, drained; pointers live; installation whole |
| `rope` | up to 7 bytes in pieces of 0 to 3 | 8,314 | order, `Buf` contract |
| `contiguous_sink` | 3 messages of announced size 0, 2, 3 | 11,501 | no uninitialised byte, all or nothing |
| `descriptor_pool` | four families of 2 or 3 files, 4 combinations of options | 528,074 | consistency, the two walks, independence of order, visibility, legality |
| `views` | 3 message types, all buffers of up to 3 records out of 18, 11 and 12, eight combinations of type and limits | 167,908 | views and the owned decoder agree, lazy access is the eager decode later, re-encoding |
| `reflection` | 2 calls; 21 records, alone and in pairs that meet, ample and tight limits; 27 values | 29,864 | well-formed, failures confined, transcoding, implements `FieldStore` |
| `extensions` | 2 calls; a plain carrier with 7 extensions, a MessageSet with 3 | 2,374 | implements `ExtensionStore`, re-encoding |

Why the bounds are enough for the cases that matter:

* `two_pass`.  Two inline slots make a message with three sub-messages spill;
  base 4 makes a length prefix grow within a few bytes; the messages meet the limit
  exactly, pass it by one, saturate once and saturate twice; slots below a group,
  map entries with and without left-out parts, and empty messages all appear.  A
  pool of one buffer is empty, full, and offered a buffer that is too large.
  `MaxKeptSlots` bounds how many slots raw calls may collect in a kept cache.
* `varint_paths`.  With three bytes there is a first, a middle and a last one, and
  four bytes of input leave room for a varint that is too long and for one behind
  another.  `VarintLenFormula` checks the `varint_len` formula for every 64-bit
  top bit.
* `wire_decode`.  The alphabets hold every tag of the type, end tags that match
  and do not, lengths that fit, overlap and overrun, and the byte of a negative
  enum.  Six bytes nest three messages; the recursion limit of two and budgets of
  two are exceeded.  `MaxMessage` is 4, so an announced length over the limit
  occurs.  Type `F` is decoded in two parts at every cut.  `Fixed32Len` and
  `Fixed64Len` are 1 and 2: only that they differ and may run out matters.
  Varints are three bytes long, and integers are told apart modulo 2^13, so that
  sign extension has bits to extend into.
* `roundtrip`.  One byte more for the buffers that begin with a nested field, so
  that a message in a message in a map is reached; limits of three.
* `any_expansion`.  Two threads compete for one counter with cap 2: a thread may
  be refused for the other's depth with a shared counter, and only for its own
  otherwise.  Two installers overlap in every way.
* `descriptor_pool`.  *Direct*: a field uses an enum of an imported file, open or
  closed, singular, repeated or as a map value, under each syntax.  *Indirect*: the
  import goes through a third file, public, weak or neither.  *Extended*: extensions,
  nested ones too, at the ends of ranges and on a field's number.  *Clashes*: two
  files that define the same names, or one that violates a rule.  Each is added in
  every partition and order, with import visibility and the other options on and
  off; about thirty different verdicts are reached.  A symbol has at most four
  components and field numbers go up to nine, so the limits on both are met.

* `views`.  Three records are enough for an unknown span, a record of another field
  and another span, and for a repeated field between two fragments of a deferred
  one; bodies nest to the recursion limit and past it, and the limits are chosen so
  that depth, unknown and element budgets each run out somewhere.  Enum numbers 0
  and 1 are known, 2 is not, and 6 is 2 in an `int32` modulo 4.
* `reflection`.  Two calls cover a merge over what a call set, a call after a failed
  merge, and two merges; two records in one buffer cover a member replaced by
  another, an entry replaced, and a failure behind a success.  Messages nest two
  levels, and the values include messages of another pool, which lacks the
  extension, and of another type.  Wrong shapes are written at the root only.
* `extensions`.  Two calls cover a set over merged records, a failed set, and a
  merge over a set value.  Budgets are three and the depth limit two, so that a
  value can exceed each; the largest type id is 9, and an item with id 10 or 0 is
  refused.

No run switches deadlock checking off; where a bounded history ends, the module
says so with an explicit stuttering action (`Filled`, `Finished`, `Drained`,
`Full`, `Rest`, `Returned`).  No run expects a violation.  The one place where the
code goes against its own comment is the panic described under
[Extensions](#extensions), which the model has as an outcome of the call.

## Fairness

* `TwoPassEncode`: `WF_vars(Run)`.  An encode runs on its caller's thread, takes no
  lock and never waits, so a call that has begun continues.  Nothing forces a
  caller to make a call, and nothing forces it to return a pooled cache.
* `AnyExpansion`: `WF_vars(Step(t))` for each thread: threads are scheduled.  A
  spurious failure of the compare-exchange is bounded; a real one means another
  thread made progress.  Installers have no fairness, so `Drains` does not depend on
  an installation being finished.

The other modules check safety only and state none.

## Proofs

Five hundred and ninety-two theorems and lemmas in eight modules, all checked to the last leaf.  Each
result has the same three parts: an invariant that is inductive, proved with one
lemma per action, and the property in a state (or a step) of it.  What follows says
what the invariants add to the properties, which is what makes them inductive.

**TwoPassEncode_proofs** begins with the size cache: each operation keeps its type
and `WellFormed` (no slot below `len` is uninitialised, the spill holds exactly the
slots beyond the inline ones, the cursor is within `len`), `SetSlot` and `Reserve`
keep the slots they do not name, and the pool keeps its bounds.  Then, for every
message graph, cache and pool size and limit,

* `TypeCorrect`, `CachesReadable`, `PoolStaysBounded`;
* `NeverPanics`, `PrefixesExact`, `SlotsConsumed`;
* `Refines`: every step is a step of `EncodeApi` or a stutter (its safety part;
  that a call returns is checked by TLC).

None of `NoPanic`, `PrefixExact` and `AllSlotsConsumed` is inductive: the write pass
trusts what the size pass left in the cache, so the invariant has to say where both
passes stand.  `IInv` adds to the types, phases and cache shapes

* `SizeInv`: each frame of the size pass has counted `LenUpTo` of the fields behind
  it, up to saturation, has reserved `SlotsUpTo` of them, and every finished slot
  holds the length of the nested message `Pre` assigns to it; slots of enclosing
  frames lie before those of inner ones, so that filling a slot cannot disturb a
  finished one;
* `SizedInv`: between the passes the cache holds the whole message's slots;
* `WriteInv`: each frame of the write pass is at the slot and the byte that the
  reference gives for its position, and its end lies within every frame around it,
  which bounds the window;
* `ReturnInv`: what a finished call has written.

`TypeCorrect` and `CachesReadable` are stated of no run: `NoPanic`, which the run
checks, fails if a slot that is not readable is ever read.

**Varint_proofs** is about the recursive functions of `Varint`.  `Weight` and
`GroupSum` are defined by recursion, and the library's theorems about recursion and
induction take an operator as a parameter, which the provers cannot instantiate.
The module therefore derives both for sets and functions: `Least` (a nonempty set of
natural numbers has a least element), `Induction` (a set with 0 that is closed under
successor holds every natural number) and `Recursion` (for a first value and a
function from numbers and values to values there is exactly one function that
follows them), from the least elements of sets of numbers.  With these,
`ReadVarintFacts` and the lemmas after it say what reading a varint yields: an error,
or the sum of its groups and a next position that lies within the bound.

**VarintPaths_proofs**: `SliceStaysInChunk` and `PathsEquivalent`, for every size of a
group, longest varint, buffer and split.  The reference is `PlainRounds[n]`, the result
of reading `n` plain varints from the whole buffer.  While there is no error, the values
so far are those of as many rounds and the next varint starts where the next round
would (`AtStart`); after an error, the next round fails with the same one (`Failed`);
and in the byte-at-a-time loop the bytes read all have the continuation bit and the
accumulated value is `GroupSum` of them (`PartlyRead`).

**WireDecode_proofs**: `ReadsInBounds`, `LimitsHold` and `FailedMergeIsWhole`, for every
schema, choice of engine per type, buffer and limit.  Two invariants carry them.

* `IInv`.  Neighbouring frames are related (`Under`): a frame is bounded within the one
  below it, and is one level deeper unless it is that of a map entry, which costs
  none and is never in another entry's; the outermost one has the whole recursion
  limit.  `DepthBounded`, which counts the frames from the bottom, follows by
  induction along the stack.  By itself a frame lies within the buffer and, if the
  table engine decodes it, ends where it is bounded (`Within`): the engines differ in
  this, and each may open a frame of the other.  `pos` is at most one beyond the bound of the top
  frame.
* `KeptInv`.  What is in the value of the outermost frame is complete: every element
  of a repeated message field, and the member of a message oneof, was decoded to its
  end (`Kept`).  The frame above it is for one of its fields and does not touch those
  (`InField`), so that unwinding, which drops all frames but the outermost, drops all
  that is half decoded; the exception the code makes is a oneof member that is
  already there and is merged into, which stays.

**EncodeSinks_proofs**: `RopeInOrder`, `RopeBufContract`, `SinkInitialised` and
`SinkAllOrNothing`, for every sequence of writes, segments of any length and any
threshold.  `RopeInv` says that the segments that are left and the tail are
consecutive intervals (`Pieces`): each begins where the one before it ends, and
together they run from what was read to what was written.  The lemmas before it
relate this to `Flatten` and `SumLen`, which are recursive: cutting, joining and
dropping intervals.  `SinkInv` says of
the window of the contiguous sink that the cursor is at the bytes produced, within
the size that was announced, and that everything before it was written
(`CursorInv`), and that the last message of a sink that publishes each write is what
was produced so far (`PerWriteInv`).

**Registries_proofs**, of `TypeRegistry`: `ExtIndexesInverse`, from the two directions of the
property together with the fact that the entry under a number carries that number
(`KeysMatch`): without it, displacing an entry by name could remove another's
number.  `ExtLatestWins`, from the same invariant and the equation between what is
found and the registrations that stand; the step lemma says what one registration
does to each side.  `AnyLookups`, from `EntriesOK` (under a URL is its last
registration) and `IndexOK` (under a name is the last registration of that name),
for both maps at once.

Of `AnyExpansion` it has `ExpansionBounded`, `RefusalIsOwn`, `SearchedIsLive` and
`InstalledFromOne`, for any number of threads, installers and nested `Any`s, any cap,
and either kind of counter.  `DepthInv` says that a counter is the number of the
expansions that hold it; that the sets counted are finite has to be carried along
(`HeldFinite`), since the set of threads may be infinite; and `OwnLevel`, that with a
counter per thread what a thread read is what it holds.  `GlobalLive` says that
the parts that are installed were not freed; a thread loads an installed one, and no
step frees one, so what it loaded stays live.  `HalfInstalled` is about the one call
that is under way when calls do not overlap: the parts it has stored are its own, and
the others are still those of one registry.

**DescriptorPool_proofs**: `WalkStaysInSync`, `PoolStaysConsistent`,
`ImportsStayRespected` and `PoolStaysLegal`, for any files with any nesting of
definitions, any options and any calls, failed ones among them.  The proof first
says of each operator of `DescriptorLink` what it changes of a pool and what holds if
it returns no error (`MessageAdded`, `MessageMade`, `FieldLinked`, ...), then of each
action which of these it does to the staged pool (`MessageComes`, `MessageGets`,
`ItemOwned`, ...); the invariants are proved from these effects.  `PoolInv` is

* `BaseInv`: the shape of the pools, of what a worklist holds in each pass, and of what
  a second round begins with;
* `TypesInv`: names lead to their messages and enums, and the walk that links goes
  along the walk that registered.  A walk is written down as a *trace*, the row of
  its worklists and slots; while names are registered there is a trace that has led
  to here, each message and enum visited on it has its entry at its slot, and while
  they are linked there is such a trace from the first item to the last, of which the
  present worklist and `linked` are a member.  This is the argument that the comment
  at the assertion in `link_message` makes, and `WalkInSync` is one case of it;
* `TablesInv`: the same for services, extensions and files;
* `DefsInv`: what fields, extensions and methods refer to exists and is of the right
  kind, and the numbers of a message's fields and extensions differ.  What a field says
  of an enum may be unknown until the fields are settled;
* `OwnersInv`: each pass visits the least set of items that has its roots and what they
  enclose (`LeastOf`), whatever the order; and a symbol is in the pool if and only if
  an item that was visited claims it.  The last pass visits the items of the first
  ones and those of the services, so it indexes exactly what they registered.

`PoolStaysLegal` adds `LegalInv`, the rules on enums in the pools a caller has, which
the last check of a call establishes for the new messages.  `PoolStaysConsistent` and
`OwnersInv` are also what `ImportsStayRespected` needs: it is stated by
the file that a *symbol* is found in, and `SeenInv` says that what a definition refers
to, the file of its symbol may see.  `VisibleFiles`, a number of rounds, is shown to be
within `MaySee`, which has no rounds, and `MaySee` is shown to be kept when a pool gets more
files.

**DynamicMessage_proofs**: `WellFormedInv` and `ErrorConfinedStep`, for every
schema, buffer, set of values, limit, and whatever the recursive calls into
sub-messages return.  The invariant `IInv` says that the numbers of the message
resolve and its oneofs have one member (`Good`), that a running merge has a context
(`IsContext`), and that maps are in order between calls (`MapsSorted`); it needs the
message's type and pool to stay what they are, which `Good` holds too.  The lemmas
follow `FieldMerge` operator by operator: each keeps a decode good and changes the
message in one field and that field's oneof only (`Step`), or, where it fails,
in the one field (`SameBut`), which is `ErrorConfinedStep`.

### Assumptions

The proofs assume what the modules assume of their constants, and TLC evaluates
those assumptions in the runs.

* Capacities, limits, budgets and lengths are natural numbers; a group has at least two
  values and a varint may have at least two bytes (`VarintAssumption`); `Uninit`
  is not a number and `Null` not a registry; `NoSlash` and `EmptyName` are not among
  the prefixes and names.
* `MessageTree`: `Fields` gives sequences of fields, the limit on messages is below
  the one on `u32`, and the reference functions satisfy their equations.
* `WireDecode`: `SchemaAssumption`, fields have positive numbers and the kinds there
  are, and inputs are sequences of bytes; `TablesAssumption`, types with groups have no
  table, which is how the generator emits them.
* `DescriptorPool`: `FilesAssumption`, files are made of sequences of definitions, of
  numbers that are integers, and of features that are set to a value of their enum;
  messages are nested to any depth.
* `DynamicMessage`: `DescriptorAssumption`, cardinalities and element kinds are the
  ones there are, a oneof member is singular, an extension is in no oneof (the
  descriptor pool rejects the one and drops the other, see `DescriptorLink`), and a
  map that is handed over is in order.

## What is only model-checked

* Liveness: `Drains`, and that every encode call returns (part of `ImplementsApi`).
  The prover has no ENABLED.
* `TablesAgree` and `MergeIsConcatenation` of `WireDecode`.  They relate two runs, one
  by each engine or one in each number of calls, and the model runs them one after
  the other, comparing results at the end.  A proof would have to carry the
  whole first run as a function of the input through the second.
* `StoredIsCharged` and `RoundTrips` of `WireRoundTrip`, all of `ViewDecode` and
  `ExtensionSet`, `ImplementsFieldStore` and `TranscodePreserves` of `DynamicMessage`: they
  are stated with RECURSIVE operators over message values, with which the prover
  loses its SMT backend.  The induction of `Varint_proofs` is over numbers and
  functions on them and does not reach them.
* `OrderIrrelevant` of `DescriptorPool`.  It too relates two rounds of calls: the
  proof would have to carry a description of the first result by its files alone,
  whatever their order, through the second round.
* That the equations of `MessageTree` have one solution when no message contains
  itself.

## What is not modelled

* UTF-8 validation, floats and zig-zag: strings are byte strings and integers one
  kind, since no control flow but an error depends on them.
* The pointer arithmetic of tables, and their construction at compile time.
* Scalars of views other than `int32`, and the pinning of the buffer by `OwnedView`:
  a matter of lifetimes and of `unsafe` code, below the level of these models.
* The text format and JSON, for messages and for dynamic ones
  (`reflect/json.rs`): most of that code is tokens, escapes and number formats, that
  is formatting; its recursion limit is the one of `WireDecode`, its registries
  are in `TypeRegistry` and `AnyExpansion`.  Not covered is the set-once state of the
  parse options without `std` (`buffa/src/json.rs`).
* Well-known types: stateless conversions of one value, such as the second that a
  timestamp before the epoch borrows (`buffa-types/src/timestamp_ext.rs`).
* Name resolution, token generation, comments and files of the code generator, build
  integration and plugins: input and output without a protocol.  What the generated
  code does is modelled through the statements that the generator emits.
* The derive macros, YAML and option crates: syntactic transformations.
* Generated descriptor types: covered by the model of what the generator emits.

In lines, most of the repository is outside the model: generated code alone is a
fifth of it, and unit tests are a large part of most source files.

## Plan

Done: encode, varints, decode by two engines, sinks, registries, installation and
Any expansion, reflection, and the descriptor pool, all with proofs; round trip, views,
extensions and message sets, checked.

Next, in this order:

1. **Proofs** of `StoredIsCharged`, once the cost of a value is a recursive function,
   and of `OrderIrrelevant`.
2. **Text format and JSON**: nesting in the tokenizer, groups of extension and `Any`
   names, the parse options and their scope with and without `std`.
3. **Well-known types**: timestamp and duration arithmetic against a reference on
   integers, field masks, nesting of `Value`.
4. **Code generation**: names, collisions and module paths; feature overrides.
