--------------------------- MODULE DescriptorPool ---------------------------
(***************************************************************************)
(* A DescriptorPool and the calls of add_file_descriptor_set on it.  A     *)
(* call works on a clone: it registers the names of all messages and enums *)
(* of the new files, then links messages and enums in the same walk, then  *)
(* services and extensions, and only a call that ends well replaces the    *)
(* pool.  The recursion over nested definitions is the worklist `todo`.    *)
(*                                                                         *)
(* A caller may clone a pool, add files, and add them to the clone in      *)
(* another order or in several calls: `past` is the first outcome, `again` *)
(* what the second round has still to add.                                 *)
(***************************************************************************)
EXTENDS DescriptorLink

CONSTANTS
    Scenarios,      \* sets of files a caller may hand over
    MessageDefs,    \* the messages defined in them, nested ones too
    LinkOptions,    \* [importVisibility, requiredDependencies]
    MaxFiles        \* bound: files in a pool that is added to

\* A feature is set to a value of its enum; numbers are numbers.
Overrides(feats) ==
    "enum" \in DOMAIN feats => feats.enum \in {"open", "closed", "unknown"}
IsSeq(s) == s \in Seq(Range(s))
Encloses(x) ==
    /\ Overrides(x.feats)
    /\ IsSeq(x.enums)
    /\ \A enum \in Range(x.enums) : Overrides(enum.feats) /\ IsSeq(enum.values)
    /\ IsSeq(x.extensions) /\ \A f \in Range(x.extensions) : f.number \in Int
ASSUME FilesAssumption ==
    /\ \A files \in Scenarios : \A file \in files :
          /\ Encloses(file)
          /\ file.messages \in Seq(MessageDefs)
          /\ IsSeq(file.services) /\ \A svc \in Range(file.services) : IsSeq(svc.methods)
    /\ \A msg \in MessageDefs :
          /\ Encloses(msg)
          /\ msg.nested \in Seq(MessageDefs) /\ IsSeq(msg.oneofs)
          /\ IsSeq(msg.fields) /\ \A f \in Range(msg.fields) : f.number \in Int
          /\ IsSeq(msg.ranges) /\ \A r \in Range(msg.ranges) : r \in Int \X Int

VARIABLES
    scenario, opts,
    pool,           \* the caller's pool
    staged,         \* the clone that a call works on
    pass,           \* "idle" or the pass of the call
    news,           \* the new files of the call
    todo,           \* the definitions the pass has still to visit
    linked,         \* the slot the next message is linked into
    verdict,        \* how the last call ended: "ok" or the error
    past,           \* the first round: [before, added, whole, verdict, after]
    again           \* the files left to add in the second round

roundVars == <<scenario, opts, past, again>>
vars == <<scenario, opts, pool, staged, pass, news, todo, linked, verdict,
          past, again>>

EmptyPool ==
    [files |-> <<>>, messages |-> <<>>, enums |-> <<>>, services |-> <<>>,
     extensions |-> <<>>, byName |-> <<>>, symbols |-> <<>>,
     serviceByName |-> <<>>, extensionByName |-> <<>>,
     extensionByExtendee |-> <<>>, fileByName |-> <<>>, symbolFile |-> <<>>,
     messageFile |-> <<>>, enumFile |-> <<>>]

NoPast == [before |-> EmptyPool, added |-> {}, whole |-> FALSE,
           verdict |-> "none", after |-> EmptyPool]

Init ==
    /\ scenario \in Scenarios /\ opts \in LinkOptions
    /\ pool = EmptyPool /\ staged = EmptyPool
    /\ pass = "idle" /\ news = <<>> /\ todo = <<>> /\ linked = 0
    /\ verdict = "none" /\ past = NoPast /\ again = {}

-----------------------------------------------------------------------------
(***************************************************************************)
(* The files of a call.                                                    *)
(***************************************************************************)
IsNew(P, file) == file.name = Absent \/ file.name \notin DOMAIN P.fileByName

\* has_edition: an edition that this build has no name for counts.
HasEdition(file) == file.edition # "unknown"

IndexErr(file) ==   \* validate_dependency_indices
    First(<<Check(\E i \in Range(file.public) : i \notin DOMAIN file.deps,
                  "InvalidPublicDependencyIndex"),
            Check(\E i \in Range(file.weak) : i \notin DOMAIN file.deps,
                  "InvalidWeakDependencyIndex")>>)

\* The checks of add_file_descriptor_set, file by file, on the new ones.
SetErr(P, set) ==
    First([i \in DOMAIN set |->
        IF ~ IsNew(P, set[i]) THEN "ok" ELSE First(<<
          Check(/\ set[i].name # Absent
                /\ \E j \in 1 .. i - 1 : set[j].name = set[i].name,
                "DuplicateFileName"),
          Check(set[i].syntax = "editions" /\ ~ HasEdition(set[i]),
                "MissingEdition"),
          Check(set[i].syntax \notin {Absent, "proto2", "proto3", "editions"},
                "UnrecognizedSyntax"),
          IndexErr(set[i])>>)])

\* check_dependencies_present: a weak dependency may be missing.
DependencyErr(P, file) ==
    Check(/\ opts.requiredDependencies
          /\ \E i \in DOMAIN file.deps :
                /\ file.deps[i] \notin DOMAIN P.fileByName
                /\ i \notin Range(file.weak),
          "DependencyNotFound")

NewFiles(P, set) ==
    LET new[i \in Nat] ==
          IF i = 0 THEN <<>>
          ELSE IF i <= Len(set) /\ IsNew(P, set[i]) THEN Append(new[i - 1], set[i])
               ELSE new[i - 1]
    IN  new[Len(set)]
Base == Len(staged.files)
FileAt(i) == IF i > Base THEN news[i - Base] ELSE staged.files[i]

\* The files that a pool has under names.
Known(P, names) == {P.fileByName[n] : n \in names \cap DOMAIN P.fileByName}

\* Mutant: every dependency of an imported file is looked through.
ReexportsAll(i) == Known(staged, Range(FileAt(i).deps))

\* visible_files: the file, what it imports, and what that re-exports.
Imports(i) == Known(staged, Range(FileAt(i).deps))
Reexports(i) ==
    Known(staged, {FileAt(i).deps[p] : p \in Range(FileAt(i).public)})
VisibleFiles(i) ==
    LET grow[n \in Nat] ==
          IF n = 0 THEN Imports(i)
          ELSE LET seen == grow[n - 1]
               IN  seen \cup UNION {Reexports(j) : j \in seen \ {i}}
    IN  {i} \cup grow[Base + Len(news)]

\* LinkScope::for_file; where visibility is not enforced everything is visible.
Scope(i) ==
    LET syntax == FileAt(i).syntax IN
    [file |-> i,
     proto3 |-> syntax = "proto3",
     allowsRequired |-> syntax \notin {"proto3", "editions"},
     visible |-> IF opts.importVisibility THEN VisibleFiles(i)
                 ELSE 1 .. Base + Len(news)]

-----------------------------------------------------------------------------
(***************************************************************************)
(* The walks.  An item is a definition d of kind k, in the scope `parent`, *)
(* of file number `file`, with the features of what encloses it.           *)
(***************************************************************************)
Items(k, ds, parent, file, feats) ==
    [i \in DOMAIN ds |-> [k |-> k, d |-> ds[i], parent |-> parent,
                          file |-> file, feats |-> feats]]
Types(file, i) ==
    Items("message", file.messages, file.package, i, ForFile(file))
      \o Items("enum", file.enums, file.package, i, ForFile(file))
Declarations(file, i) ==
    Items("service", file.services, file.package, i, ForFile(file))
      \o Items("extension", file.extensions, file.package, i, ForFile(file))

\* What the passes begin with, in the order of the files.
AllTypes(files) ==
    FlattenSeq([i \in DOMAIN files |-> Types(files[i], Len(pool.files) + i)])
AllServices(files) ==
    FlattenSeq([i \in DOMAIN files |->
        Declarations(files[i], Len(pool.files) + i)
          \o Items("nested", files[i].messages, files[i].package,
                   Len(pool.files) + i, ForFile(files[i]))])
AllDefinitions(files) ==
    FlattenSeq([i \in DOMAIN files |->
        Types(files[i], Len(pool.files) + i)
          \o Declarations(files[i], Len(pool.files) + i)])

Item == Head(todo)
Fqn(item) == Append(item.parent, item.d.name)
ItemFeats(item) == Merge(item.feats, item.d.feats)
NestedTypes(item) ==
    Items("message", item.d.nested, Fqn(item), item.file, ItemFeats(item))
      \o Items("enum", item.d.enums, Fqn(item), item.file, ItemFeats(item))

Visiting(p, k) == pass = p /\ todo # <<>> /\ Item.k = k

\* Mutant: the call works on the pool itself.
ReturnInPlace(e) ==
    /\ verdict' = e
    /\ pass' = "idle" /\ staged' = EmptyPool
    /\ news' = <<>> /\ todo' = <<>> /\ linked' = 0
    /\ pool' = IF pass = "idle" THEN pool ELSE [staged EXCEPT !.files = @ \o news]

\* The call ends without a change; its clone is dropped.
Return(e) ==
    /\ verdict' = e
    /\ pass' = "idle" /\ staged' = EmptyPool
    /\ news' = <<>> /\ todo' = <<>> /\ linked' = 0
    /\ pool' = pool

\* One item is done: the call goes on with P and with the items in front.
GoOn(err, P, front) ==
    IF err # "ok" THEN Return(err)
    ELSE /\ staged' = P
         /\ todo' = front \o Tail(todo)
         /\ linked' = IF Visiting("link", "message") THEN linked + 1 ELSE linked
         /\ UNCHANGED <<pool, pass, news, verdict>>

Switch(from, to, items) ==
    /\ pass = from /\ todo = <<>>
    /\ pass' = to
    /\ todo' = items

-----------------------------------------------------------------------------
(***************************************************************************)
(* add_file_descriptor_set.                                                *)
(***************************************************************************)
\* The call up to the first pass.  A set without a new file is a no-op.
Add(set) ==
    LET fresh == NewFiles(pool, set)
        named == [pool EXCEPT !.fileByName =
                    [n \in (DOMAIN @ \cup {f.name : f \in Range(fresh)}) \ {Absent} |->
                        IF n \in DOMAIN @ THEN @[n]
                        ELSE Len(pool.files)
                               + (CHOOSE i \in DOMAIN fresh : fresh[i].name = n)]]
        err == First(<<SetErr(pool, set)>>
                     \o [i \in DOMAIN fresh |-> DependencyErr(named, fresh[i])])
    IN  IF err # "ok" \/ fresh = <<>> THEN Return(err)
        ELSE /\ staged' = named
             /\ news' = fresh
             /\ pass' = "register"
             /\ todo' = AllTypes(fresh)
             /\ verdict' = "none"
             /\ UNCHANGED <<pool, linked>>

\* Mutant: nested definitions are registered after their enclosing siblings.
NestedLast(err, P, front) ==
    IF err # "ok" THEN Return(err)
    ELSE /\ staged' = P
         /\ todo' = Tail(todo) \o front
         /\ UNCHANGED <<pool, pass, news, verdict, linked>>

Register(err, P, front) == GoOn(err, P, front)

RegisterMessage ==
    /\ Visiting("register", "message")
    /\ Register(SymbolErr(DOMAIN staged.symbols, Fqn(Item), "message"),
                RegisteredMessage(staged, Fqn(Item), Item.d, Item.file),
                NestedTypes(Item))
    /\ UNCHANGED roundVars

RegisterEnum ==
    /\ Visiting("register", "enum")
    /\ Register(SymbolErr(DOMAIN staged.symbols, Fqn(Item), "enum"),
                RegisteredEnum(staged, Fqn(Item), Item.file), <<>>)
    /\ UNCHANGED roundVars

StartLinking ==
    /\ Switch("register", "link", AllTypes(news))
    /\ linked' = Len(pool.messages) + 1
    /\ UNCHANGED <<pool, staged, news, verdict, roundVars>>

LinkNextMessage ==
    /\ Visiting("link", "message")
    /\ LET r == LinkMessage(staged, Scope(Item.file), Fqn(Item), Item.d,
                            ItemFeats(Item), linked)
       IN  GoOn(r.err, r.P, NestedTypes(Item))
    /\ UNCHANGED roundVars

LinkNextEnum ==
    /\ Visiting("link", "enum")
    /\ LET r == LinkEnum(staged, Item.parent, Item.d, ItemFeats(Item))
       IN  GoOn(r.err, r.P, <<>>)
    /\ UNCHANGED roundVars

StartServices ==
    /\ Switch("link", "services", AllServices(news))
    /\ UNCHANGED <<pool, staged, news, linked, verdict, roundVars>>

LinkNextService ==
    /\ Visiting("services", "service")
    /\ LET r == LinkService(staged, Scope(Item.file), Item.parent, Item.d)
       IN  GoOn(r.err, r.P, <<>>)
    /\ UNCHANGED roundVars

LinkNextExtension ==
    /\ Visiting("services", "extension")
    /\ LET r == LinkExtension(staged, Scope(Item.file), Item.parent, Item.d,
                              Item.feats)
       IN  GoOn(r.err, r.P, <<>>)
    /\ UNCHANGED roundVars

LinkNestedExtensions ==
    /\ Visiting("services", "nested")
    /\ GoOn("ok", staged,
            Items("extension", Item.d.extensions, Fqn(Item), Item.file,
                  ItemFeats(Item))
              \o Items("nested", Item.d.nested, Fqn(Item), Item.file,
                       ItemFeats(Item)))
    /\ UNCHANGED roundVars

Finalize ==
    /\ Switch("services", "index", AllDefinitions(news))
    /\ staged' = Finalized(staged, Len(pool.messages) + 1,
                           Len(pool.extensions) + 1)
    /\ UNCHANGED <<pool, news, linked, verdict, roundVars>>

\* index_file_symbols, index_message_symbols, index_enum_symbols.
SymbolsOf(item) ==
    {Fqn(item)} \cup
      CASE item.k = "message" ->
              Inside(Fqn(item), item.d.fields) \cup Inside(Fqn(item), item.d.extensions)
                \cup {Append(Fqn(item), o) : o \in Range(item.d.oneofs)}
        [] item.k = "enum"    -> Inside(item.parent, item.d.values)
        [] item.k = "service" -> Inside(Fqn(item), item.d.methods)
        [] OTHER              -> {}

IndexNext ==
    /\ pass = "index" /\ todo # <<>>
    /\ GoOn("ok", [staged EXCEPT !.symbolFile =
                    [s \in DOMAIN @ \cup SymbolsOf(Item) |->
                        IF s \in SymbolsOf(Item) THEN Item.file ELSE @[s]]],
            IF Item.k = "message" THEN NestedTypes(Item) ELSE <<>>)
    /\ UNCHANGED roundVars

\* The files are added, the last check is made, and the clone is the pool.
Commit ==
    /\ pass = "index" /\ todo = <<>>
    /\ LET P == [staged EXCEPT !.files = @ \o news]
           err == LinkedEnumErr(P, Len(pool.messages) + 1)
       IN  IF err # "ok" THEN Return(err)
           ELSE /\ pool' = P
                /\ verdict' = "ok"
                /\ pass' = "idle" /\ staged' = EmptyPool
                /\ news' = <<>> /\ todo' = <<>> /\ linked' = 0
    /\ UNCHANGED roundVars

-----------------------------------------------------------------------------
(***************************************************************************)
(* What a pool says, without the order of its vectors.                     *)
(***************************************************************************)
TypeNamed(P, kind) ==
    CASE kind.k = "message" -> P.messages[kind.i].fullName
      [] kind.k = "enum"    -> P.enums[kind.i].fullName
      [] OTHER              -> <<kind.t>>
FieldMeaning(P, fd) == <<[fd EXCEPT !.kind.i = 0], TypeNamed(P, fd.kind)>>
MessageMeaning(P, m) ==
    [m EXCEPT !.fields = [i \in DOMAIN @ |-> FieldMeaning(P, @[i])]]
Meaning(P) ==
    [messages |-> {MessageMeaning(P, m) : m \in Range(P.messages)},
     enums |-> Range(P.enums),
     services |-> {[s EXCEPT !.methods = [i \in DOMAIN @ |->
                       <<@[i].name, P.messages[@[i].input].fullName,
                         P.messages[@[i].output].fullName>>]] :
                     s \in Range(P.services)},
     extensions |-> {<<x.fullName, FieldMeaning(P, x.field),
                       P.messages[x.extendee].fullName>> :
                       x \in Range(P.extensions)},
     symbols |-> P.symbols,
     owners |-> [s \in DOMAIN P.symbolFile |-> P.files[P.symbolFile[s]]]]

\* The sets a caller may build; a file may be in one twice.
Batches(files) == UNION {[1 .. n -> files] : n \in 1 .. Cardinality(files)}
FirstRound == past.verdict = "none"

AddFirst(set) ==
    /\ pass = "idle" /\ FirstRound
    /\ Len(pool.files) < MaxFiles
    /\ Add(set)
    /\ past' = [NoPast EXCEPT !.before = pool, !.added = Range(set),
                              !.whole = Distinct([i \in DOMAIN set |-> set[i].name])]
    /\ UNCHANGED <<scenario, opts, again>>

\* The caller turns to its clone.  Two files of one name are an error in one
\* call and not in two, so they are left out of the comparison.
Again ==
    /\ pass = "idle" /\ FirstRound /\ past.whole
    /\ past' = [past EXCEPT !.verdict = verdict, !.after = Meaning(pool)]
    /\ again' = past.added
    /\ pool' = past.before
    /\ verdict' = "ok"
    /\ UNCHANGED <<scenario, opts, staged, pass, news, todo, linked>>

AddAgain(set) ==
    /\ pass = "idle" /\ ~ FirstRound /\ verdict = "ok"
    /\ Range(set) \subseteq again /\ Distinct(set)
    /\ Add(set)
    /\ again' = again \ Range(set)
    /\ past' = [past EXCEPT !.whole = Range(set) = past.added]
    /\ UNCHANGED <<scenario, opts>>

Rest ==
    /\ pass = "idle"
    /\ UNCHANGED vars

Next ==
    \/ \E set \in Batches(scenario) : AddFirst(set)
    \/ RegisterMessage \/ RegisterEnum
    \/ StartLinking \/ LinkNextMessage \/ LinkNextEnum
    \/ StartServices \/ LinkNextService \/ LinkNextExtension
    \/ LinkNestedExtensions
    \/ Finalize \/ IndexNext \/ Commit
    \/ Again
    \/ \E set \in Batches(again) : AddAgain(set)
    \/ Rest

Spec == Init /\ [][Next]_vars

-----------------------------------------------------------------------------
NamesLead(P) ==
    /\ DOMAIN P.byName = {m.fullName : m \in Range(P.messages)}
                            \cup {e.fullName : e \in Range(P.enums)}
    /\ \A n \in DOMAIN P.byName : TypeNamed(P, P.byName[n]) = n
    /\ \A n \in DOMAIN P.serviceByName :
          P.services[P.serviceByName[n]].fullName = n
    /\ \A n \in DOMAIN P.fileByName : P.files[P.fileByName[n]].name = n

FilesKnown(P) ==
    /\ Len(P.messageFile) = Len(P.messages)
    /\ Len(P.enumFile) = Len(P.enums)
    /\ DOMAIN P.symbolFile = DOMAIN P.symbols
    /\ Range(P.symbolFile) \subseteq DOMAIN P.files

Refers(P, fd) ==
    CASE fd.kind.k = "message" -> fd.kind.i \in DOMAIN P.messages
      [] fd.kind.k = "enum"    -> fd.kind.i \in DOMAIN P.enums
                                    /\ fd.enumType # "none"
      [] OTHER                 -> fd.kind.k = "scalar"
FieldsRefer(P) ==
    /\ \A m \in Range(P.messages) : \A fd \in Range(m.fields) : Refers(P, fd)
    /\ \A x \in Range(P.extensions) : Refers(P, x.field)

ExtensionsIndexed(P) ==
    /\ Range(P.extensionByExtendee) = DOMAIN P.extensions
    /\ Range(P.extensionByName) = DOMAIN P.extensions
    /\ \A i \in DOMAIN P.extensions :
          LET x == P.extensions[i] IN
          /\ P.extensionByName[x.fullName] = i
          /\ P.extensionByExtendee[<<x.extendee, x.field.number>>] = i

\* The tables of a pool that a caller can see describe the same definitions:
\* every name leads to the entry of that name, every entry has its file, every
\* reference leads to an entry, and a symbol that a lookup by symbol finds is
\* one that was registered, and the other way round.  A call that fails in any
\* pass leaves no trace of its files.
PoolConsistent ==
    pass = "idle" =>
        /\ NamesLead(pool) /\ FilesKnown(pool)
        /\ FieldsRefer(pool) /\ ExtensionsIndexed(pool)

\* The assertion of link_message: the slot a message is linked into is the one
\* that was registered for it.
WalkInSync ==
    Visiting("link", "message") => staged.messages[linked].fullName = Fqn(Item)

\* The order of the files in a set does not matter: it is accepted in every
\* order or in none, with the same result.  Files that are accepted one set
\* after another are accepted as one set, with the same result.
OrderIrrelevant ==
    pass = "idle" /\ ~ FirstRound =>
        /\ verdict = "ok" /\ again = {} =>
              past.verdict = "ok" /\ Meaning(pool) = past.after
        /\ verdict # "ok" /\ past.whole => past.verdict # "ok"

\* What the definitions of a file refer to, as pairs of files.
FieldReferences(P, file, fields) ==
    {<<file, DefFile(P, fd.kind)>> :
        fd \in {x \in Range(fields) : x.kind.k # "scalar"}}
MethodReferences(P, file, methods) ==
    {<<file, P.messageFile[m.input]>> : m \in Range(methods)}
      \cup {<<file, P.messageFile[m.output]>> : m \in Range(methods)}
References(P) ==
    (UNION {FieldReferences(P, P.messageFile[m], P.messages[m].fields) :
               m \in DOMAIN P.messages})
      \cup {<<P.symbolFile[x.fullName], P.messageFile[x.extendee]>> :
                x \in Range(P.extensions)}
      \cup (UNION {FieldReferences(P, P.symbolFile[x.fullName], <<x.field>>) :
                x \in Range(P.extensions)})
      \cup (UNION {MethodReferences(P, P.symbolFile[s.fullName], s.methods) :
                s \in Range(P.services)})

\* File b is in every set that has the imports of a and, with a file, what the
\* file imports publicly.
Public(P, i) == Known(P, {P.files[i].deps[p] : p \in Range(P.files[i].public)})
MaySee(P, a, b) ==
    \/ a = b
    \/ \A S \in SUBSET DOMAIN P.files :
          Known(P, Range(P.files[a].deps)) \subseteq S
            /\ (\A i \in S : Public(P, i) \subseteq S) => b \in S

\* With import visibility on, no definition refers to a file that its own file
\* does not import, directly or through public imports: fields, map values,
\* extendees and the types of methods alike.
ImportsRespected ==
    pass = "idle" /\ opts.importVisibility =>
        \A r \in References(pool) : MaySee(pool, r[1], r[2])

NumbersLegal(P, m) ==
    LET msg == P.messages[m]
        exts == {x \in Range(P.extensions) : x.extendee = m}
    IN  /\ Cardinality({fd.number : fd \in Range(msg.fields)}
                          \cup {x.field.number : x \in exts})
              = Len(msg.fields) + Cardinality(exts)
        /\ \A x \in exts : \E r \in Range(msg.ranges) :
              x.field.number \in r[1] .. r[2] - 1
EnumsLegal(P, m) ==
    \A fd \in {f \in Range(P.messages[m].fields) : f.kind.k = "enum"} :
        LET enum == P.enums[fd.kind.i]
            closed == enum.type = "closed" /\ fd.enumType = "closed"
            proto3 == P.files[P.messageFile[m]].syntax = "proto3"
        IN  /\ fd.card # "map" /\ proto3 => ~ closed
            /\ fd.card = "singular" /\ fd.presence = "implicit" => ~ closed
            /\ fd.card = "map" => Head(enum.values).number = 0

\* What the passes check one by one holds of the pool as a whole, whatever was
\* linked before what: no two fields or extensions of a message share a number
\* and every extension lies in a range its extendee declares; a field of a
\* proto3 message has no closed enum, nor has one without presence, and an enum
\* that is a map's value starts at zero; no extension is of a map entry.
PoolLegal ==
    pass = "idle" =>
        /\ \A m \in DOMAIN pool.messages :
              NumbersLegal(pool, m) /\ EnumsLegal(pool, m)
        /\ \A x \in Range(pool.extensions) :
              x.field.kind.k = "message" =>
                  ~ pool.messages[x.field.kind.i].options.mapEntry
=============================================================================
