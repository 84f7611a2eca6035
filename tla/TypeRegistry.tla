---------------------------- MODULE TypeRegistry ----------------------------
(***************************************************************************)
(* The maps of a TypeRegistry while it is being filled: the entries for    *)
(* Any, one map for JSON and one for text, and the entries for extensions. *)
(* Generated register_types functions may register the same thing twice,   *)
(* and different files may disagree, so what a lookup finds depends on the *)
(* order of the calls.                                                     *)
(***************************************************************************)
EXTENDS Naturals, Sequences, FiniteSets

CONSTANTS
    Prefixes,       \* what stands before the last slash of a type URL
    Names,          \* message full names
    Extendees, Numbers,
    ExtNames,       \* extension full names
    MaxCalls        \* bound: registrations

ASSUME MaxCallsAssumption == MaxCalls \in Nat

\* A type URL: its prefix, or NoSlash, and the name after the slash, which may
\* be empty.
NoSlash == "noslash"
EmptyName == "empty"
Urls == [prefix : Prefixes \cup {NoSlash}, name : Names \cup {EmptyName}]

ASSUME NamesAssumption == NoSlash \notin Prefixes /\ EmptyName \notin Names

ExtKeys == [extendee : Extendees, number : Numbers]

VARIABLES
    anyCalls,       \* the URLs registered so far; an entry is known by its call
    jsonEntries, jsonByName,    \* AnyRegistry: URL -> call, name -> URL
    textEntries, textByName,    \* TextAnyMap
    extCalls,       \* the extensions registered so far: [key, name]
    byNumber,       \* ExtensionRegistry and TextExtMap: key -> call
    byName          \* extension name -> key

anyVars == <<anyCalls, jsonEntries, jsonByName, textEntries, textByName>>
extVars == <<extCalls, byNumber, byName>>
vars == <<anyVars, extVars>>

Calls == Len(anyCalls) + Len(extCalls)

Put(map, k, v) == [x \in DOMAIN map \cup {k} |-> IF x = k THEN v ELSE map[x]]

Remove(map, k) == [x \in DOMAIN map \ {k} |-> map[x]]
None == 0

-----------------------------------------------------------------------------
(***************************************************************************)
(* Any entries.  JSON takes a URL without a slash for the name itself,     *)
(* text for no name at all.                                                *)
(***************************************************************************)
\* message_name and any_type_name: the name a URL is indexed under, if any.
JsonName(url) == {url.name} \ {EmptyName}
TextName(url) == IF url.prefix = NoSlash THEN {} ELSE {url.name} \ {EmptyName}

\* Mutant: the first URL registered for a name stays the one it stands for.
IndexedFirst(index, names, url) ==
    IF \E n \in names : n \notin DOMAIN index
      THEN Put(index, CHOOSE n \in names : TRUE, url) ELSE index

\* The name now stands for this URL.
Indexed(index, names, url) ==
    IF names = {} THEN index ELSE Put(index, CHOOSE n \in names : TRUE, url)

RegisterAny(url) ==
    /\ Calls < MaxCalls
    /\ anyCalls' = Append(anyCalls, url)
    /\ jsonEntries' = Put(jsonEntries, url, Len(anyCalls'))
    /\ jsonByName' = Indexed(jsonByName, JsonName(url), url)
    /\ textEntries' = Put(textEntries, url, Len(anyCalls'))
    /\ textByName' = Indexed(textByName, TextName(url), url)
    /\ UNCHANGED extVars

\* The registered URL first, then the name.
Lookup(entries, index, names, url) ==
    CASE url \in DOMAIN entries -> entries[url]
      [] url \notin DOMAIN entries /\ names \cap DOMAIN index # {} ->
            LET known == index[CHOOSE n \in names : TRUE]
            IN  IF known \in DOMAIN entries THEN entries[known] ELSE None
      [] OTHER -> None

JsonLookup(url) == Lookup(jsonEntries, jsonByName, JsonName(url), url)
TextLookup(url) == Lookup(textEntries, textByName, TextName(url), url)

-----------------------------------------------------------------------------
(***************************************************************************)
(* Extension entries, by (extendee, number) and by name.                   *)
(***************************************************************************)
\* Mutant: the name of the entry that is replaced stays.
DisplacedByNumberKeepsName(key, names) == names

\* The entry at the key goes, and with it its name.
DisplacedByNumber(key, names) ==
    IF key \in DOMAIN byNumber
      THEN Remove(names, extCalls[byNumber[key]].name) ELSE names

\* Mutant: the entry that had the name stays where its number puts it.
DisplacedByNameStays(name, names, numbers) == numbers

\* The entry that had the name goes.
DisplacedByName(name, names, numbers) ==
    IF name \in DOMAIN names THEN Remove(numbers, names[name]) ELSE numbers

RegisterExt(key, name) ==
    /\ Calls < MaxCalls
    /\ extCalls' = Append(extCalls, [key |-> key, name |-> name])
    /\ LET names == DisplacedByNumber(key, byName)
           numbers == DisplacedByName(name, names, Remove(byNumber, key))
       IN  /\ byName' = Put(Remove(names, name), name, key)
           /\ byNumber' = Put(numbers, key, Len(extCalls'))
    /\ UNCHANGED anyVars

ByNumber(key) == IF key \in DOMAIN byNumber THEN byNumber[key] ELSE None
ByName(name) == IF name \in DOMAIN byName THEN ByNumber(byName[name]) ELSE None

-----------------------------------------------------------------------------
EmptyMap == <<>>

Init ==
    /\ anyCalls = <<>> /\ extCalls = <<>>
    /\ jsonEntries = EmptyMap /\ jsonByName = EmptyMap
    /\ textEntries = EmptyMap /\ textByName = EmptyMap
    /\ byNumber = EmptyMap /\ byName = EmptyMap

Filled == Calls = MaxCalls /\ UNCHANGED vars

Next ==
    \/ \E url \in Urls : RegisterAny(url)
    \/ \E key \in ExtKeys, name \in ExtNames : RegisterExt(key, name)
    \/ Filled

Spec == Init /\ [][Next]_vars

-----------------------------------------------------------------------------
\* The two indexes of the extensions are inverse to each other: the entry under
\* a number has a name that leads back to it, and no name leads anywhere but to
\* an entry of that name.  JSON writes an extension by its number and reads it
\* by its name, so an entry that is in one index only breaks a round trip.
IndexesInverse ==
    /\ \A key \in DOMAIN byNumber :
          LET name == extCalls[byNumber[key]].name
          IN  name \in DOMAIN byName /\ byName[name] = key
    /\ \A name \in DOMAIN byName :
          /\ byName[name] \in DOMAIN byNumber
          /\ extCalls[byNumber[byName[name]]].name = name

\* The calls whose entry no later call took the number or the name of.
Standing ==
    {i \in 1 .. Len(extCalls) :
        \A j \in i + 1 .. Len(extCalls) :
            /\ extCalls[j].key # extCalls[i].key
            /\ extCalls[j].name # extCalls[i].name}

\* A registration lasts until a later one takes its number or its name, and not
\* longer: both lookups find exactly the standing entries.
LatestWins ==
    /\ {byNumber[key] : key \in DOMAIN byNumber} = Standing
    /\ \A key \in ExtKeys :
          ByNumber(key) # None => extCalls[ByNumber(key)].key = key
    /\ \A name \in ExtNames :
          ByName(name) # None => extCalls[ByName(name)].name = name

\* The last of the calls in S, or None.
Last(S) == IF S = {} THEN None ELSE CHOOSE i \in S : \A j \in S : j <= i

\* A registered URL finds its own entry, the last one; any other finds the last
\* entry registered under a URL that ends in the same name.
AnyLookupReference(name(_), url) ==
    LET own == {i \in 1 .. Len(anyCalls) : anyCalls[i] = url}
        same == {i \in 1 .. Len(anyCalls) :
                    name(anyCalls[i]) \cap name(url) # {}}
    IN  IF own # {} THEN Last(own) ELSE Last(same)

\* Lookups of Any types, in JSON and in text, find the most recent registration
\* that the documentation promises, whatever was registered between.
AnyLookupLatest ==
    \A url \in Urls :
        /\ JsonLookup(url) = AnyLookupReference(JsonName, url)
        /\ TextLookup(url) = AnyLookupReference(TextName, url)
=============================================================================
