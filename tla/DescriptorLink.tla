--------------------------- MODULE DescriptorLink ---------------------------
(***************************************************************************)
(* How one definition of a .proto file becomes a descriptor: feature       *)
(* inheritance, name registration and the linking of fields, messages,     *)
(* enums, services and extensions (buffa-descriptor/src/pool.rs and        *)
(* features.rs).  The operators take the pool P as it is at that moment    *)
(* and return the error, "ok" for none, with what is added.                  *)
(*                                                                         *)
(* A full name is the sequence of its components; <<>> stands for a type   *)
(* name that is absent or empty.  Indexes count from 1, 0 stands for none. *)
(* The checks stand in the order of the code: `First` picks the error that *)
(* is reported.                                                            *)
(***************************************************************************)
EXTENDS Integers, Sequences, FiniteSets, SequencesExt

CONSTANTS
    DeriveJsonName(_),  \* derive_json_name
    MapEntryName(_),    \* map_entry_name
    BadJsonNames,       \* names with a NUL
    BracketNames,       \* names that look like an extension's key
    OptionsMessages,    \* full names of the messages proto3 may extend
    MaxFieldNumber,     \* MAX_FIELD_NUMBER
    ReservedNumbers,    \* FIRST_.. to LAST_RESERVED_FIELD_NUMBER
    MaxFields,          \* u16::MAX
    MaxSymbolLen        \* MAX_SYMBOL_LEN, here in components

Absent == "absent"  \* what a field of a descriptor holds that is not set

First(errs) ==
    IF \A i \in DOMAIN errs : errs[i] = "ok" THEN "ok"
    ELSE errs[CHOOSE i \in DOMAIN errs :
                 errs[i] # "ok" /\ \A j \in 1 .. i - 1 : errs[j] = "ok"]
Check(cond, e) == IF cond THEN e ELSE "ok"

Put(map, k, v) == [x \in DOMAIN map \cup {k} |-> IF x = k THEN v ELSE map[x]]
Distinct(s) == Cardinality(Range(s)) = Len(s)

-----------------------------------------------------------------------------
(***************************************************************************)
(* Features.  An override is a function on the features it mentions;       *)
(* "unknown" is the zero value of each feature's enum.                     *)
(***************************************************************************)
Edition2023 ==
    [presence |-> "explicit", enum |-> "open", repeated |-> "packed",
     encoding |-> "length_prefixed", json |-> "allow"]
Proto3Defaults == [Edition2023 EXCEPT !.presence = "implicit"]
Proto2Defaults ==
    [Edition2023 EXCEPT !.enum = "closed", !.repeated = "expanded",
                        !.json = "legacy_best_effort"]

\* merge, resolve_child.
Merge(parent, override) ==
    [k \in DOMAIN parent |->
        IF k \in DOMAIN override /\ override[k] # "unknown"
          THEN override[k] ELSE parent[k]]

\* for_file, for_edition.
ForFile(file) ==
    LET like == IF file.syntax = "editions" THEN file.edition ELSE file.syntax
        base == CASE like \in {Absent, "proto2", "legacy"} -> Proto2Defaults
                  [] like = "proto3"                  -> Proto3Defaults
                  [] OTHER                            -> Edition2023
    IN  Merge(base, file.feats)

-----------------------------------------------------------------------------
(***************************************************************************)
(* Ranges are pairs <<start, end>>, the end excluded; in an enum's         *)
(* reserved ranges it is included.                                         *)
(***************************************************************************)
ValidRange(r) == r[1] > 0 /\ r[1] < r[2]
Overlap(r, s) == r[1] < s[2] /\ s[1] < r[2]
Overlapping(rs) ==
    \E i, j \in DOMAIN rs : i < j /\ Overlap(rs[i], rs[j])

\* Mutant: the end of a range belongs to it.
InRangesClosed(rs, n) == \E i \in DOMAIN rs : rs[i][1] <= n /\ n <= rs[i][2]

\* ReservedRanges::contains, in_extension_range.
InRanges(rs, n) == \E i \in DOMAIN rs : rs[i][1] <= n /\ n < rs[i][2]
HalfOpen(rs) == [i \in DOMAIN rs |-> <<rs[i][1], rs[i][2] + 1>>]

\* What ReservedRanges::for_message and for_enum refuse.
MessageReservedErr(rs) ==
    First(<<Check(\E i \in DOMAIN rs : ~ ValidRange(rs[i]),
                  "InvalidMessageReservedRange"),
            Check(Overlapping(rs), "OverlappingMessageReservedRange")>>)
EnumReservedErr(rs) ==
    First(<<Check(\E i \in DOMAIN rs : rs[i][1] > rs[i][2],
                  "InvalidEnumReservedRange"),
            Check(Overlapping(HalfOpen(rs)), "OverlappingEnumReservedRange")>>)

-----------------------------------------------------------------------------
\* register_symbol, where the symbols `taken` are registered.
SymbolErr(taken, fqn, kind) ==
    First(<<Check(kind \notin {"field", "oneof"} /\ Len(fqn) > MaxSymbolLen,
                  "NameTooLong"),
            Check(fqn \in taken, "DuplicateName")>>)
WithSymbols(P, names, kind) ==
    [P EXCEPT !.symbols = [x \in DOMAIN P.symbols \cup names |->
                              IF x \in names THEN kind ELSE P.symbols[x]]]
WithSymbol(P, fqn, kind) == WithSymbols(P, {fqn}, kind)

\* register_message: a placeholder that only has its name and options.
MessageOptions(msg) ==
    [mapEntry |-> msg.mapEntry, messageSet |-> msg.messageSet]
Placeholder(fqn, msg) ==
    [fullName |-> fqn, fields |-> <<>>, oneofs |-> <<>>, ranges |-> <<>>,
     options |-> MessageOptions(msg)]
RegisteredMessage(P, fqn, msg, file) ==
    [WithSymbol(P, fqn, "message") EXCEPT
        !.byName = Put(@, fqn, [k |-> "message", i |-> Len(P.messages) + 1]),
        !.messages = Append(@, Placeholder(fqn, msg)),
        !.messageFile = Append(@, file)]

\* register_enum: open until it is linked.
RegisteredEnum(P, fqn, file) ==
    [WithSymbol(P, fqn, "enum") EXCEPT
        !.byName = Put(@, fqn, [k |-> "enum", i |-> Len(P.enums) + 1]),
        !.enums = Append(@, [fullName |-> fqn, values |-> <<>>, type |-> "open"]),
        !.enumFile = Append(@, file)]

-----------------------------------------------------------------------------
(***************************************************************************)
(* Type names.  scope is a LinkScope: [file, proto3, allowsRequired,       *)
(* visible].                                                               *)
(***************************************************************************)
IsScalar(type) == type \notin {"message", "group", "enum"}
Scalar(type) ==     \* an absent type is the default, TYPE_DOUBLE
    [k |-> "scalar", t |-> IF type = Absent THEN "double" ELSE type, i |-> 0]

Definition(P, name) ==
    IF name \in DOMAIN P.byName THEN P.byName[name] ELSE [k |-> "none", i |-> 0]
DefFile(P, def) ==
    CASE def.k = "message" -> P.messageFile[def.i]
      [] def.k = "enum"    -> P.enumFile[def.i]
      [] OTHER             -> 0

\* resolve_message_type_name.
MessageNameErr(P, scope, name) ==
    LET def == Definition(P, name)
    IN  First(<<Check(name = <<>>, "MissingTypeName"),
                Check(def.k = "enum", "WrongTypeKind"),
                Check(def.k = "none", "UnresolvedTypeName"),
                Check(DefFile(P, def) \notin scope.visible, "TypeNotImported")>>)

\* resolve_singular.
ResolveSingular(P, scope, type, name) ==
    LET def == Definition(P, name)
        fits == \/ def.k = "message" /\ type \in {Absent, "message", "group"}
                \/ def.k = "enum" /\ type \in {Absent, "enum"}
    IN  IF IsScalar(type) /\ name = <<>>
          THEN [err |-> "ok", kind |-> Scalar(type)]
          ELSE [err |-> First(<<
                    Check(IsScalar(type) /\ type # Absent, "UnexpectedTypeName"),
                    Check(name = <<>>, "MissingTypeName"),
                    Check(def.k = "none", "UnresolvedTypeName"),
                    Check(~ fits, "WrongTypeKind"),
                    Check(DefFile(P, def) \notin scope.visible,
                          "TypeNotImported")>>),
                kind |-> [k |-> def.k, t |-> "none", i |-> def.i]]

\* find_map_entry: the nested type that makes the field a map, if any.
FindMapEntry(P, fqn, msg, f, midx) ==
    {entry \in Range(msg.nested) :
        /\ f.label = "repeated" /\ f.type \in {Absent, "message"}
        /\ P.messages[midx].fullName = Append(fqn, MapEntryName(f.name))
        /\ entry.name = MapEntryName(f.name)
        /\ entry.mapEntry}

\* resolve_map_entry.
EntryFieldOk(f, name, number) ==
    f.name = name /\ f.number = number /\ f.label = "optional"
ResolveMapEntry(P, scope, entry) ==
    LET fs == entry.fields
        wellFormed ==
            /\ entry.extensions = <<>> /\ entry.ranges = <<>>
            /\ entry.nested = <<>> /\ entry.enums = <<>>
            /\ Len(fs) = 2
            /\ EntryFieldOk(fs[1], "key", 1) /\ EntryFieldOk(fs[2], "value", 2)
            /\ IsScalar(fs[1].type)
            /\ Scalar(fs[1].type).t \notin {"double", "float", "bytes"}
        value == ResolveSingular(P, scope, fs[2].type, fs[2].typeName)
    IN  IF ~ wellFormed
          THEN [err |-> "MalformedMapEntry", kind |-> Scalar(Absent),
                feats |-> <<>>, isMap |-> TRUE]
          ELSE [err |-> value.err, kind |-> value.kind, feats |-> fs[2].feats,
                isMap |-> TRUE]

-----------------------------------------------------------------------------
\* Mutant: the enum's own type is taken at once, linked or not.
FieldEnumTypeEarly(P, feats, kind) ==
    CASE kind.k # "enum" -> "none"
      [] kind.k = "enum" /\ "enum" \in DOMAIN feats /\ feats.enum = "open"
           -> "open"
      [] OTHER -> P.enums[kind.i].type

\* resolve_field_enum_type: only a feature of the field itself counts; the
\* enum it names may not be linked yet.
FieldEnumType(P, feats, kind) ==
    IF kind.k = "enum" /\ "enum" \in DOMAIN feats /\ feats.enum = "open"
      THEN "open" ELSE "none"

(***************************************************************************)
(* link_field, of a field f of `containing` (a sequence with the message,  *)
(* empty for an extension).  feats are the features that hold for f, elem  *)
(* is what its type name stands for, and map what stands behind a map      *)
(* field: [err, kind, feats, isMap].                                       *)
(***************************************************************************)
IsMessageType(elem) == elem.err = "ok" /\ elem.kind.k = "message"

FieldMap(P, scope, fqn, f, containing, elem) ==
    LET entries == IF IsMessageType(elem) /\ containing # <<>>
                     THEN FindMapEntry(P, fqn, containing[1], f, elem.kind.i)
                     ELSE {}
    IN  IF entries = {}
          THEN [err |-> "ok", kind |-> elem.kind, feats |-> f.feats, isMap |-> FALSE]
          ELSE ResolveMapEntry(P, scope, CHOOSE e \in entries : TRUE)

FieldCard(f, map) ==
    CASE map.isMap -> "map"
      [] ~ map.isMap /\ f.label = "repeated" -> "list"
      [] OTHER -> "singular"

Required(f, feats) ==
    f.label = "required" \/ feats.presence = "legacy_required"

Presence(f, feats, containing, elem) ==
    CASE f.label = "repeated" -> "implicit"
      [] f.label # "repeated" /\ Required(f, feats) -> "legacy_required"
      [] OTHER -> IF \/ containing = <<>> \/ f.proto3Optional \/ f.oneof # 0
                     \/ IsMessageType(elem)
                    THEN "explicit" ELSE feats.presence

Packable(card, kind) ==
    /\ card = "list"
    /\ \/ kind.k = "enum"
       \/ kind.k = "scalar" /\ kind.t \notin {"string", "bytes"}

\* The json name of a field is given or derived.
JsonName(f) == IF f.json = Absent THEN DeriveJsonName(f.name) ELSE f.json

\* The override as written counts here, "unknown" too.
EncodingApplies(f, packable) ==
    f.label = "repeated" /\ (packable \/ f.feats.repeated # "packed")

\* The checks of the label, before the type is resolved.
LabelErr(scope, f, feats, inMessage) ==
    First(<<
      Check(f.proto3Optional /\ ~ scope.proto3, "Proto3OptionalOutsideProto3"),
      Check(f.proto3Optional /\ f.label # "optional",
            "InvalidProto3OptionalCardinality"),
      Check(f.proto3Optional /\ inMessage /\ f.oneof = 0,
            "Proto3OptionalWithoutOneof"),
      Check(inMessage /\ f.oneof # 0 /\ f.label # "optional",
            "InvalidOneofCardinality"),
      Check(f.label = "required" /\ ~ scope.allowsRequired,
            "RequiredLabelOutsideProto2"),
      Check(~ inMessage /\ Required(f, feats), "RequiredExtension"),
      Check(f.label = "repeated" /\ f.default, "RepeatedFieldWithDefault")>>)

\* The checks that need the type.
TypeErr(P, scope, f, containing, elem, map) ==
    First(<<
      elem.err,
      Check(IsMessageType(elem) /\ f.default, "MessageFieldWithDefault"),
      Check(scope.proto3 /\ f.default, "Proto3FieldWithDefault"),
      Check(scope.proto3 /\ f.type = "group", "GroupFieldInProto3"),
      Check(/\ IsMessageType(elem) /\ containing # <<>> /\ ~ map.isMap
            /\ P.messages[elem.kind.i].options.mapEntry, "InvalidMapEntryUse"),
      map.err>>)

\* The checks of the linked field fd, and of its options as written.
OptionErr(f, containing, fd, packable) ==
    First(<<
      Check(f.label # "repeated" /\ fd.presence = "implicit" /\ f.default,
            "ImplicitPresenceFieldWithDefault"),
      Check(f.packed = "true" /\ ~ packable, "InvalidPackedOption"),
      Check(/\ "repeated" \in DOMAIN f.feats /\ ~ EncodingApplies(f, packable)
            /\ ~ (containing # <<>> /\ containing[1].mapEntry),
            "InvalidRepeatedFieldEncoding"),
      Check(\/ fd.json \in BadJsonNames
            \/ /\ containing # <<>> /\ ~ containing[1].legacyJson
               /\ fd.json \in BracketNames,
            "InvalidJsonName"),
      Check(f.number \notin 1 .. MaxFieldNumber, "InvalidFieldNumber"),
      Check(f.number \in ReservedNumbers, "ReservedFieldNumber")>>)

FieldDescriptor(P, f, feats, containing, elem, map, packable) ==
    [name |-> f.name, json |-> JsonName(f), number |-> f.number,
     card |-> FieldCard(f, map), kind |-> map.kind,
     presence |-> Presence(f, feats, containing, elem),
     packed |-> /\ packable
                /\ \/ f.packed = "true"
                   \/ f.packed = "unset" /\ feats.repeated = "packed",
     delimited |-> \/ f.type = "group"
                   \/ IsMessageType(elem) /\ feats.encoding = "delimited",
     oneof |-> f.oneof,
     enumType |-> FieldEnumType(P, map.feats, map.kind)]

CheckedField(f, containing, earlier, fd, packable) ==
    [err |-> First(<<earlier, OptionErr(f, containing, fd, packable)>>), fd |-> fd]

TypedField(P, scope, f, feats, containing, elem, map) ==
    CheckedField(f, containing,
        First(<<LabelErr(scope, f, feats, containing # <<>>),
                TypeErr(P, scope, f, containing, elem, map)>>),
        FieldDescriptor(P, f, feats, containing, elem, map,
                        Packable(FieldCard(f, map), map.kind)),
        Packable(FieldCard(f, map), map.kind))

ResolvedField(P, scope, fqn, f, feats, containing, elem) ==
    TypedField(P, scope, f, feats, containing, elem,
               FieldMap(P, scope, fqn, f, containing, elem))

LinkField(P, scope, fqn, f, parent, containing) ==
    ResolvedField(P, scope, fqn, f, Merge(parent, f.feats), containing,
                  ResolveSingular(P, scope, f.type, f.typeName))

-----------------------------------------------------------------------------
(***************************************************************************)
(* link_message.  Each member is checked against those before it.  One     *)
(* that repeats an earlier name is refused for that, so that its symbol is *)
(* only looked up among those from outside its list.                       *)
(***************************************************************************)
OneofNamesErr(P, fqn, names) ==
    First([i \in DOMAIN names |-> First(<<
        Check(\E j \in 1 .. i - 1 : names[j] = names[i], "DuplicateOneofName"),
        SymbolErr(DOMAIN P.symbols, Append(fqn, names[i]), "oneof")>>)])

\* The json name of a field counts if such names are enforced.
NewJson(msg, feats, fd) ==
    feats.json = "allow" /\ ~ msg.legacyJson /\ fd.json # fd.name
NamesTaken(msg, feats, fd) ==
    {fd.name} \cup {name \in {fd.json} : NewJson(msg, feats, fd)}

FieldErr(taken, fqn, msg, feats, linked, i) ==
    LET f == msg.fields[i]
        fd == linked[i].fd
        names == UNION {NamesTaken(msg, feats, linked[j].fd) : j \in 1 .. i - 1}
    IN  First(<<
      Check(f.oneof # 0 /\ f.oneof \notin DOMAIN msg.oneofs, "InvalidOneofIndex"),
      linked[i].err,
      Check(fd.name \in Range(msg.reservedNames), "ReservedMessageFieldName"),
      Check(InRanges(msg.reservedRanges, fd.number), "ReservedMessageFieldNumber"),
      Check(\E j \in 1 .. i - 1 : linked[j].fd.number = fd.number,
            "DuplicateFieldNumber"),
      Check(fd.name \in names, "DuplicateFieldName"),
      SymbolErr(taken, Append(fqn, fd.name), "field"),
      Check(NewJson(msg, feats, fd) /\ fd.json \in names, "DuplicateFieldName")>>)

\* A oneof has members, one after the other, and one that stands for a proto3
\* optional field has that field only; those come last.
Members(fields, o) == {i \in DOMAIN fields : fields[i].oneof = o}
OneofErr(msg, fields) ==
    LET oneofs == DOMAIN msg.oneofs
        synthetic == {o \in oneofs : \E i \in Members(fields, o) :
                                        msg.fields[i].proto3Optional}
        gap(o) == \E i, j \in Members(fields, o) :
                    i < j /\ \E k \in i .. j : k \notin Members(fields, o)
    IN  First(
          [o \in oneofs |->
              First(<<Check(Members(fields, o) = {}, "EmptyOneof"),
                      Check(gap(o), "NonconsecutiveOneofFields")>>)]
          \o <<Check(\E o \in synthetic : Cardinality(Members(fields, o)) # 1,
                     "Proto3OptionalOneofHasMultipleMembers"),
               Check(\E o \in synthetic, r \in oneofs \ synthetic : o < r,
                     "RealOneofAfterSyntheticOneof")>>)

ExtensionRangesErr(msg, fields) ==
    First(
      [i \in DOMAIN msg.ranges |->
          LET r == msg.ranges[i]
          IN  First(<<Check(~ ValidRange(r), "InvalidExtensionRange"),
                      Check(r[2] > MaxFieldNumber + 1 /\ ~ msg.messageSet,
                            "ExtensionRangeEndTooLarge"),
                      Check(\E s \in Range(msg.reservedRanges) : Overlap(r, s),
                            "ReservedExtensionRange")>>)]
      \o <<Check(Overlapping(msg.ranges), "OverlappingExtensionRange"),
           Check(\E i \in DOMAIN fields : InRanges(msg.ranges, fields[i].number),
                 "FieldNumberInExtensionRange")>>)

Inside(scope, ds) == {Append(scope, ds[i].name) : i \in DOMAIN ds}
OneofSymbols(fqn, msg) == {Append(fqn, o) : o \in Range(msg.oneofs)}

MessageErr(P, scope, fqn, msg, feats, linked, fields) ==
    First(<<
        Check(scope.proto3 /\ msg.ranges = <<>> /\ msg.messageSet,
              "MessageSetInProto3"),
        Check(scope.proto3 /\ msg.ranges # <<>>, "ExtensionRangeInProto3"),
        Check(msg.fields # <<>> /\ msg.messageSet, "MessageSetWithFields"),
        Check(Len(msg.fields) > MaxFields, "TooManyFields"),
        OneofNamesErr(P, fqn, msg.oneofs),
        Check(~ Distinct(msg.reservedNames), "DuplicateMessageReservedName"),
        MessageReservedErr(msg.reservedRanges),
        First([i \in DOMAIN fields |->
                  FieldErr(DOMAIN P.symbols \cup OneofSymbols(fqn, msg),
                           fqn, msg, feats, linked, i)]),
        OneofErr(msg, fields),
        ExtensionRangesErr(msg, fields)>>)

\* The message goes to the slot `next` (the assertion is WalkInSync).
WithMessage(P, fqn, msg, fields, next) ==
    [WithSymbols(WithSymbols(P, OneofSymbols(fqn, msg), "oneof"),
                 Inside(fqn, msg.fields), "field") EXCEPT
        !.messages[next] = [fullName |-> fqn, fields |-> fields,
                            oneofs |-> msg.oneofs, ranges |-> msg.ranges,
                            options |-> P.messages[next].options]]

LinkedMessage(P, scope, fqn, msg, feats, linked, fields, next) ==
    [err |-> MessageErr(P, scope, fqn, msg, feats, linked, fields),
     P   |-> WithMessage(P, fqn, msg, fields, next)]

LinkMessage(P, scope, fqn, msg, feats, next) ==
    LET linked == [i \in DOMAIN msg.fields |->
                      LinkField(P, scope, fqn, msg.fields[i], feats, <<msg>>)]
    IN  LinkedMessage(P, scope, fqn, msg, feats, linked,
                      [i \in DOMAIN linked |-> linked[i].fd], next)

-----------------------------------------------------------------------------
\* link_enum.  The values are siblings of the enum, not inside it.
ValueErr(P, parent, enum, i) ==
    LET v == enum.values[i]
        fqn == Append(parent, v.name)
    IN  First(<<
          Check(\E j \in 1 .. i - 1 : enum.values[j].name = v.name,
                "DuplicateEnumValueName"),
          Check(v.name \in Range(enum.reservedNames), "ReservedEnumValueName"),
          Check(InRanges(HalfOpen(enum.reservedRanges), v.number),
                "ReservedEnumValueNumber"),
          Check(~ enum.allowAlias
                  /\ \E j \in 1 .. i - 1 : enum.values[j].number = v.number,
                "DuplicateEnumValueNumber"),
          Check(fqn \in DOMAIN P.symbols
                  /\ P.symbols[fqn] = "value", "DuplicateEnumValueName"),
          SymbolErr(DOMAIN P.symbols, fqn, "value")>>)

EnumErr(P, parent, enum, feats) ==
    First(<<
      Check(enum.values = <<>>, "EmptyEnum"),
      Check(/\ enum.values # <<>> /\ feats.enum = "open"
            /\ Head(enum.values).number # 0, "OpenEnumFirstValueNotZero"),
      Check(~ Distinct(enum.reservedNames), "DuplicateEnumReservedName"),
      EnumReservedErr(enum.reservedRanges),
      First([i \in DOMAIN enum.values |-> ValueErr(P, parent, enum, i)])>>)

LinkEnum(P, parent, enum, feats) ==
    LET fqn == Append(parent, enum.name)
    IN  [err |-> EnumErr(P, parent, enum, feats),
         P   |-> [WithSymbols(P, Inside(parent, enum.values), "value") EXCEPT
                    !.enums[P.byName[fqn].i] =
                        [fullName |-> fqn, values |-> enum.values,
                         type |-> feats.enum]]]

-----------------------------------------------------------------------------
\* link_service: the methods' names are registered before the service's own.
MethodErr(P, scope, fqn, methods, i) ==
    LET m == methods[i]
    IN  First(<<Check(\E j \in 1 .. i - 1 : methods[j].name = m.name,
                      "DuplicateMethodName"),
                SymbolErr(DOMAIN P.symbols, Append(fqn, m.name), "method"),
                MessageNameErr(P, scope, m.input),
                MessageNameErr(P, scope, m.output)>>)

LinkedMethod(P, m) ==
    [name |-> m.name, input |-> Definition(P, m.input).i,
     output |-> Definition(P, m.output).i]

LinkService(P, scope, parent, svc) ==
    LET fqn == Append(parent, svc.name)
        members == Inside(fqn, svc.methods)
    IN  [err |-> First(<<
            First([i \in DOMAIN svc.methods |->
                      MethodErr(P, scope, fqn, svc.methods, i)]),
            SymbolErr(DOMAIN P.symbols \cup members, fqn, "service")>>),
         P   |-> [WithSymbol(WithSymbols(P, members, "method"), fqn, "service")
                    EXCEPT
                    !.serviceByName = Put(@, fqn, Len(P.services) + 1),
                    !.services = Append(@, [fullName |-> fqn,
                        methods |-> [i \in DOMAIN svc.methods |->
                                        LinkedMethod(P, svc.methods[i])]])]]

-----------------------------------------------------------------------------
\* check_proto3_closed_enum.
ClosedEnumIn(P, fd) ==
    /\ fd.card # "map" /\ fd.kind.k = "enum"
    /\ (IF fd.enumType = "none" THEN P.enums[fd.kind.i].type ELSE fd.enumType)
         = "closed"

\* link_extension, its name registered and its extendee resolved.
ExtensionErr(P, scope, target, key, linked, fd) ==
    First(<<
      Check(scope.proto3 /\ target.fullName \notin OptionsMessages,
            "Proto3ExtensionTargetNotOptions"),
      linked.err,
      Check(fd.kind.k = "message" /\ P.messages[fd.kind.i].options.mapEntry,
            "ExtensionWithMapEntryType"),
      Check(scope.proto3 /\ ClosedEnumIn(P, fd), "Proto3ClosedEnumField"),
      Check(/\ target.options.messageSet
            /\ fd.delimited \/ fd.card # "singular" \/ fd.kind.k # "message",
            "InvalidMessageSetExtension"),
      Check(~ InRanges(target.ranges, fd.number), "InvalidFieldNumber"),
      Check(key \in DOMAIN P.extensionByExtendee, "DuplicateExtensionNumber")>>)

WithExtension(P, scope, fqn, extendee, linked) ==
    LET fd == [linked.fd EXCEPT !.oneof = 0]
        key == <<extendee, fd.number>>
        idx == Len(P.extensions) + 1
    IN  [err |-> ExtensionErr(P, scope, P.messages[extendee], key, linked, fd),
         P   |-> [P EXCEPT
                    !.extensionByName = Put(@, fqn, idx),
                    !.extensionByExtendee = Put(@, key, idx),
                    !.extensions = Append(@, [fullName |-> fqn, field |-> fd,
                                              extendee |-> extendee])]]

LinkExtension(P, scope, parent, ext, feats) ==
    LET fqn == Append(parent, ext.name)
        Q == WithSymbol(P, fqn, "extension")
        err == First(<<SymbolErr(DOMAIN P.symbols, fqn, "extension"),
                       MessageNameErr(Q, scope, ext.extendee)>>)
    IN  IF err # "ok" THEN [err |-> err, P |-> P]
        ELSE WithExtension(Q, scope, fqn, Definition(Q, ext.extendee).i,
                           LinkField(Q, scope, parent, ext, feats, <<>>))

-----------------------------------------------------------------------------
\* finalize_field_enum_types, once every enum is linked.
FinalField(P, fd) ==
    IF fd.enumType = "none" /\ fd.kind.k = "enum"
      THEN [fd EXCEPT !.enumType = P.enums[fd.kind.i].type] ELSE fd
FinalMessage(P, m) ==
    [m EXCEPT !.fields = [i \in DOMAIN m.fields |-> FinalField(P, m.fields[i])]]
FinalExtension(P, x) == [x EXCEPT !.field = FinalField(P, x.field)]
Finalized(P, firstMessage, firstExtension) ==
    [P EXCEPT
        !.messages = [m \in DOMAIN P.messages |->
            IF m < firstMessage THEN P.messages[m]
            ELSE FinalMessage(P, P.messages[m])],
        !.extensions = [x \in DOMAIN P.extensions |->
            IF x < firstExtension THEN P.extensions[x]
            ELSE FinalExtension(P, P.extensions[x])]]

\* check_linked_enum_fields, of one message in a file.
EnumFieldErr(P, fd, proto3) ==
    First(<<
      Check(/\ fd.card = "map" /\ fd.kind.k = "enum"
            /\ P.enums[fd.kind.i].values # <<>>
            /\ Head(P.enums[fd.kind.i].values).number # 0,
            "MapEnumFirstValueNotZero"),
      Check(proto3 /\ ClosedEnumIn(P, fd), "Proto3ClosedEnumField"),
      Check(/\ ~ proto3 /\ fd.card = "singular" /\ fd.kind.k = "enum"
            /\ fd.presence = "implicit" /\ fd.enumType = "closed",
            "ImplicitPresenceClosedEnum")>>)
LinkedEnumErr(P, firstMessage) ==
    First([m \in 1 .. Len(P.messages) - firstMessage + 1 |->
        LET msg == P.messages[firstMessage + m - 1]
            proto3 == P.files[P.messageFile[firstMessage + m - 1]].syntax = "proto3"
        IN  First([i \in DOMAIN msg.fields |->
                      EnumFieldErr(P, msg.fields[i], proto3)])])
=============================================================================
