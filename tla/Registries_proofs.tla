-------------------------- MODULE Registries_proofs --------------------------
(***************************************************************************)
(* What the maps of a type registry hold, for any number of extendees,     *)
(* numbers, names and registrations; and that the expansion counter bounds *)
(* every thread's nesting, and a registry that a thread has loaded stays   *)
(* whole and unfreed, for any number of threads, installers and Any values *)
(* and any cap.                                                            *)
(***************************************************************************)
EXTENDS TypeRegistry, AnyExpansion, FiniteSetTheorems, TLAPS

-----------------------------------------------------------------------------
(***************************************************************************)
(* The maps of a registry.                                                 *)
(***************************************************************************)
\* What is left of a map after remove.
LEMMA RemoveFacts ==
    ASSUME NEW map, NEW k
    PROVE  /\ DOMAIN Remove(map, k) = DOMAIN map \ {k}
           /\ \A x \in DOMAIN map \ {k} : Remove(map, k)[x] = map[x]
  BY DEF Remove

\* An entry is found under the number it was registered with.
KeysMatch ==
    \A key \in DOMAIN byNumber : extCalls[byNumber[key]].key = key

ExtTypeOK ==
    /\ extCalls \in Seq([key : ExtKeys, name : ExtNames])
    /\ DOMAIN byNumber \subseteq ExtKeys
    /\ \A key \in DOMAIN byNumber : byNumber[key] \in 1 .. Len(extCalls)
    /\ DOMAIN byName \subseteq ExtNames
    /\ \A name \in DOMAIN byName : byName[name] \in ExtKeys

\* The strengthening: an entry of byNumber is one the calls registered there.
IInv == ExtTypeOK /\ IndexesInverse /\ KeysMatch

-----------------------------------------------------------------------------
(***************************************************************************)
(* One registration of an extension.                                       *)
(***************************************************************************)
\* The maps after RegisterExt(key, name), entry by entry: a number other than
\* `key` stays unless its entry has the name `name`, and a name other than
\* `name` stays unless its entry has the number `key`.
ExtEffect(key, name) ==
    /\ extCalls' = Append(extCalls, [key |-> key, name |-> name])
    /\ Len(extCalls') = Len(extCalls) + 1
    /\ \A i \in 1 .. Len(extCalls) : extCalls'[i] = extCalls[i]
    /\ extCalls'[Len(extCalls) + 1] = [key |-> key, name |-> name]
    /\ DOMAIN byNumber' =
          {k \in DOMAIN byNumber :
              k # key /\ extCalls[byNumber[k]].name # name} \cup {key}
    /\ byNumber'[key] = Len(extCalls) + 1
    /\ \A k \in DOMAIN byNumber' : k # key => byNumber'[k] = byNumber[k]
    /\ DOMAIN byName' =
          {n \in DOMAIN byName : n # name /\ byName[n] # key} \cup {name}
    /\ byName'[name] = key
    /\ \A n \in DOMAIN byName' : n # name => byName'[n] = byName[n]

LEMMA ExtStep ==
    ASSUME IInv, NEW key \in ExtKeys, NEW name \in ExtNames,
           RegisterExt(key, name)
    PROVE  ExtEffect(key, name)
  <1> DEFINE names == DisplacedByNumber(key, byName)
             numbers == DisplacedByName(name, names, Remove(byNumber, key))
  <1>1. /\ extCalls' = Append(extCalls, [key |-> key, name |-> name])
        /\ byName' = Put(Remove(names, name), name, key)
        /\ byNumber' = Put(numbers, key, Len(extCalls'))
    BY DEF RegisterExt
  <1>2. /\ Len(extCalls') = Len(extCalls) + 1
        /\ \A i \in 1 .. Len(extCalls) : extCalls'[i] = extCalls[i]
        /\ extCalls'[Len(extCalls) + 1] = [key |-> key, name |-> name]
    <2>1. extCalls \in Seq([key : ExtKeys, name : ExtNames])
      BY DEF IInv, ExtTypeOK
    <2>. QED  BY <1>1, <2>1
  <1>3. /\ DOMAIN names = {n \in DOMAIN byName : byName[n] # key}
        /\ \A n \in DOMAIN names : names[n] = byName[n]
    <2>1. CASE key \in DOMAIN byNumber
      <3>1. names = Remove(byName, extCalls[byNumber[key]].name)
        BY <2>1 DEF DisplacedByNumber
      <3>2. \A n \in DOMAIN byName :
                byName[n] = key <=> n = extCalls[byNumber[key]].name
        BY <2>1 DEF IInv, IndexesInverse
      <3>3. /\ DOMAIN names = DOMAIN byName \ {extCalls[byNumber[key]].name}
            /\ \A n \in DOMAIN names : names[n] = byName[n]
        BY <3>1 DEF Remove
      <3>. HIDE DEF names
      <3>. QED  BY <3>2, <3>3
    <2>2. CASE key \notin DOMAIN byNumber
      <3>1. names = byName
        BY <2>2 DEF DisplacedByNumber
      <3>2. \A n \in DOMAIN byName : byName[n] # key
        BY <2>2 DEF IInv, IndexesInverse
      <3>. QED  BY <3>1, <3>2
    <2>. QED  BY <2>1, <2>2
  <1>4. /\ DOMAIN numbers = {k \in DOMAIN byNumber :
                                k # key /\ extCalls[byNumber[k]].name # name}
        /\ \A k \in DOMAIN numbers : numbers[k] = byNumber[k]
    <2> DEFINE rest == Remove(byNumber, key)
    <2>0. /\ DOMAIN rest = DOMAIN byNumber \ {key}
          /\ \A k \in DOMAIN rest : rest[k] = byNumber[k]
      BY RemoveFacts
    <2>1. CASE name \in DOMAIN names
      <3>1. numbers = Remove(rest, names[name])
        BY <2>1 DEF DisplacedByName
      <3>2. names[name] = byName[name] /\ name \in DOMAIN byName
        BY <1>3, <2>1
      <3>3. \A k \in DOMAIN byNumber :
                extCalls[byNumber[k]].name = name <=> k = byName[name]
        BY <3>2 DEF IInv, IndexesInverse
      <3>. HIDE DEF rest, names, numbers
      <3>4. /\ DOMAIN numbers = DOMAIN rest \ {names[name]}
            /\ \A k \in DOMAIN rest \ {names[name]} : numbers[k] = rest[k]
        BY <3>1, RemoveFacts
      <3>. QED  BY <2>0, <3>2, <3>3, <3>4
    <2>2. CASE name \notin DOMAIN names
      <3>1. numbers = rest
        BY <2>2 DEF DisplacedByName
      <3>2. \A k \in DOMAIN byNumber :
                k # key => extCalls[byNumber[k]].name # name
        <4>1. name \notin DOMAIN byName \/ byName[name] = key
          BY <1>3, <2>2
        <4>. QED  BY <4>1 DEF IInv, IndexesInverse
      <3>. HIDE DEF rest, names, numbers
      <3>. QED  BY <2>0, <3>1, <3>2
    <2>. QED  BY <2>1, <2>2
  <1>. HIDE DEF names, numbers
  <1>5. /\ DOMAIN byNumber' = DOMAIN numbers \cup {key}
        /\ byNumber'[key] = Len(extCalls')
        /\ \A k \in DOMAIN numbers : k # key => byNumber'[k] = numbers[k]
    BY <1>1 DEF Put
  <1>6. /\ DOMAIN byName' = DOMAIN Remove(names, name) \cup {name}
        /\ byName'[name] = key
        /\ \A n \in DOMAIN Remove(names, name) :
              n # name => byName'[n] = Remove(names, name)[n]
    BY <1>1 DEF Put
  <1>7. /\ DOMAIN Remove(names, name) = DOMAIN names \ {name}
        /\ \A n \in DOMAIN names \ {name} : Remove(names, name)[n] = names[n]
    BY RemoveFacts
  <1>8. /\ DOMAIN byNumber' = {k \in DOMAIN byNumber :
                k # key /\ extCalls[byNumber[k]].name # name} \cup {key}
        /\ \A k \in DOMAIN byNumber' : k # key => byNumber'[k] = byNumber[k]
    BY <1>4, <1>5
  <1>9. /\ DOMAIN byName' = {n \in DOMAIN byName : n # name /\ byName[n] # key}
                              \cup {name}
        /\ \A n \in DOMAIN byName' : n # name => byName'[n] = byName[n]
    BY <1>3, <1>6, <1>7
  <1>. QED  BY <1>1, <1>2, <1>5, <1>6, <1>8, <1>9 DEF ExtEffect

LEMMA InitIInv == Init => IInv
  BY DEF Init, IInv, ExtTypeOK, IndexesInverse, KeysMatch, EmptyMap

LEMMA ExtKeepsIInv ==
    ASSUME IInv, NEW key \in ExtKeys, NEW name \in ExtNames,
           RegisterExt(key, name)
    PROVE  IInv'
  <1>e. ExtEffect(key, name)
    BY ExtStep
  <1>0. Len(extCalls) \in Nat
    BY DEF IInv, ExtTypeOK
  <1>1. ExtTypeOK'
    <2>1. extCalls' \in Seq([key : ExtKeys, name : ExtNames])
      <3>1. [key |-> key, name |-> name] \in [key : ExtKeys, name : ExtNames]
        OBVIOUS
      <3>. QED  BY <3>1, <1>e DEF ExtEffect, IInv, ExtTypeOK
    <2>2. DOMAIN byNumber' \subseteq ExtKeys
      BY <1>e DEF ExtEffect, IInv, ExtTypeOK
    <2>3. \A k \in DOMAIN byNumber' : byNumber'[k] \in 1 .. Len(extCalls')
      BY <1>0, <1>e DEF ExtEffect, IInv, ExtTypeOK
    <2>4. /\ DOMAIN byName' \subseteq ExtNames
          /\ \A n \in DOMAIN byName' : byName'[n] \in ExtKeys
      BY <1>e DEF ExtEffect, IInv, ExtTypeOK
    <2>. QED  BY <2>1, <2>2, <2>3, <2>4 DEF ExtTypeOK
  <1>2. KeysMatch'
    BY <1>0, <1>e DEF ExtEffect, KeysMatch, IInv, ExtTypeOK
  <1>3. IndexesInverse'
    <2>1. ASSUME NEW k \in DOMAIN byNumber'
          PROVE  LET n == extCalls'[byNumber'[k]].name
                 IN  n \in DOMAIN byName' /\ byName'[n] = k
      <3>1. CASE k = key
        BY <1>0, <3>1, <1>e DEF ExtEffect
      <3>2. CASE k # key
        <4>1. /\ k \in DOMAIN byNumber /\ byNumber'[k] = byNumber[k]
              /\ extCalls[byNumber[k]].name # name
              /\ byNumber[k] \in 1 .. Len(extCalls)
          BY <3>2, <1>e DEF ExtEffect, IInv, ExtTypeOK
        <4>2. extCalls'[byNumber'[k]] = extCalls[byNumber[k]]
          BY <4>1, <1>e DEF ExtEffect
        <4>3. LET n == extCalls[byNumber[k]].name
              IN  n \in DOMAIN byName /\ byName[n] = k
          BY <4>1 DEF IInv, IndexesInverse
        <4>4. LET n == extCalls[byNumber[k]].name
              IN  n \in DOMAIN byName'
          BY <3>2, <4>1, <4>3, <1>e DEF ExtEffect
        <4>. QED  BY <4>1, <4>2, <4>3, <4>4, <1>e DEF ExtEffect
      <3>. QED  BY <3>1, <3>2
    <2>2. ASSUME NEW n \in DOMAIN byName'
          PROVE  /\ byName'[n] \in DOMAIN byNumber'
                 /\ extCalls'[byNumber'[byName'[n]]].name = n
      <3>1. CASE n = name
        BY <1>0, <3>1, <1>e DEF ExtEffect
      <3>2. CASE n # name
        <4>1. n \in DOMAIN byName /\ byName'[n] = byName[n] /\ byName[n] # key
          BY <3>2, <1>e DEF ExtEffect
        <4>2. /\ byName[n] \in DOMAIN byNumber
              /\ extCalls[byNumber[byName[n]]].name = n
              /\ byNumber[byName[n]] \in 1 .. Len(extCalls)
          BY <4>1 DEF IInv, IndexesInverse, ExtTypeOK
        <4>3. byName[n] \in DOMAIN byNumber'
          BY <3>2, <4>1, <4>2, <1>e DEF ExtEffect
        <4>4. byNumber'[byName[n]] = byNumber[byName[n]]
          BY <4>1, <4>3, <1>e DEF ExtEffect
        <4>. QED  BY <4>1, <4>2, <4>3, <4>4, <1>e DEF ExtEffect
      <3>. QED  BY <3>1, <3>2
    <2>. QED  BY <2>1, <2>2 DEF IndexesInverse
  <1>. QED  BY <1>1, <1>2, <1>3 DEF IInv

LEMMA StutterKeepsIInv ==
    ASSUME IInv, UNCHANGED extVars
    PROVE  IInv'
  BY DEF IInv, ExtTypeOK, IndexesInverse, KeysMatch, extVars

LEMMA NextKeepsIInv == IInv /\ [Next]_vars => IInv'
  <1> SUFFICES ASSUME IInv, [Next]_vars PROVE IInv'
    OBVIOUS
  <1>1. ASSUME NEW url \in Urls, RegisterAny(url) PROVE IInv'
    BY <1>1, StutterKeepsIInv DEF RegisterAny
  <1>2. ASSUME NEW key \in ExtKeys, NEW name \in ExtNames,
               RegisterExt(key, name)
        PROVE  IInv'
    BY <1>2, ExtKeepsIInv
  <1>3. ASSUME Filled \/ UNCHANGED vars PROVE IInv'
    BY <1>3, StutterKeepsIInv DEF Filled, vars
  <1>. QED  BY <1>1, <1>2, <1>3 DEF Next

\* The two indexes of the extension registries stay inverse to each other
\* however the registrations come.
THEOREM ExtIndexesInverse == Spec => []IndexesInverse
  <1>1. IInv => IndexesInverse
    BY DEF IInv
  <1>. QED  BY <1>1, InitIInv, NextKeepsIInv, PTL DEF Spec

-----------------------------------------------------------------------------
(***************************************************************************)
(* Which registrations stand.                                              *)
(***************************************************************************)
Found == {byNumber[k] : k \in DOMAIN byNumber}

\* A registration ends the ones that share its number or its name.
LEMMA StandingStep ==
    ASSUME IInv, NEW key \in ExtKeys, NEW name \in ExtNames,
           RegisterExt(key, name)
    PROVE  Standing' = {i \in Standing : extCalls[i].key # key
                                            /\ extCalls[i].name # name}
                          \cup {Len(extCalls) + 1}
  <1> DEFINE n == Len(extCalls)
             last == [key |-> key, name |-> name]
  <1>1. /\ n \in Nat
        /\ Len(extCalls') = n + 1
        /\ \A i \in 1 .. n : extCalls'[i] = extCalls[i]
        /\ extCalls'[n + 1] = last
    <2>1. ExtEffect(key, name)
      BY ExtStep
    <2>. QED  BY <2>1 DEF ExtEffect, IInv, ExtTypeOK
  <1>2. last.key = key /\ last.name = name
    OBVIOUS
  <1>. HIDE DEF n, last
  <1>3. ASSUME NEW i \in 1 .. n
        PROVE  i \in Standing' <=> /\ i \in Standing
                                   /\ extCalls[i].key # key
                                   /\ extCalls[i].name # name
    <2>1. i + 1 .. n + 1 = (i + 1 .. n) \cup {n + 1}
      BY <1>1
    <2>2. \A j \in i + 1 .. n : j \in 1 .. n
      BY <1>1
    <2>3. i \in Standing' <=>
            \A j \in i + 1 .. n + 1 : /\ extCalls'[j].key # extCalls'[i].key
                                      /\ extCalls'[j].name # extCalls'[i].name
      BY <1>1 DEF Standing
    <2>4. i \in Standing <=>
            \A j \in i + 1 .. n : /\ extCalls[j].key # extCalls[i].key
                                  /\ extCalls[j].name # extCalls[i].name
      BY <1>1 DEF Standing, n
    <2>. QED  BY <1>1, <1>2, <2>1, <2>2, <2>3, <2>4
  <1>4. n + 1 \in Standing'
    <2>1. n + 2 .. n + 1 = {}
      BY <1>1
    <2>. QED  BY <1>1, <2>1 DEF Standing
  <1>5. Standing' \subseteq 1 .. n + 1 /\ Standing \subseteq 1 .. n
    BY <1>1 DEF Standing, n
  <1>6. 1 .. n + 1 = (1 .. n) \cup {n + 1}
    BY <1>1
  <1>. QED  BY <1>1, <1>3, <1>4, <1>5, <1>6 DEF n

LEMMA FoundStep ==
    ASSUME IInv, NEW key \in ExtKeys, NEW name \in ExtNames,
           RegisterExt(key, name)
    PROVE  Found' = {i \in Found : extCalls[i].key # key
                                      /\ extCalls[i].name # name}
                       \cup {Len(extCalls) + 1}
  <1>1. ExtEffect(key, name)
    BY ExtStep
  <1>2. \A k \in DOMAIN byNumber : extCalls[byNumber[k]].key = k
    BY DEF IInv, KeysMatch
  <1>3. Found' = {byNumber[k] : k \in DOMAIN byNumber' \ {key}}
                    \cup {Len(extCalls) + 1}
    BY <1>1 DEF ExtEffect, Found
  <1>4. DOMAIN byNumber' \ {key} =
            {k \in DOMAIN byNumber :
                k # key /\ extCalls[byNumber[k]].name # name}
    BY <1>1 DEF ExtEffect
  <1>5. {byNumber[k] : k \in DOMAIN byNumber' \ {key}} =
            {i \in Found : extCalls[i].key # key /\ extCalls[i].name # name}
    BY <1>2, <1>4 DEF Found
  <1>. QED  BY <1>3, <1>5

WinsInv == IInv /\ Found = Standing

LEMMA WinsInitially == Init => WinsInv
  <1>1. ASSUME Init PROVE Found = {} /\ Standing = {}
    BY <1>1 DEF Init, Found, Standing, EmptyMap
  <1>. QED  BY <1>1, InitIInv DEF WinsInv

LEMMA NextKeepsWins == WinsInv /\ [Next]_vars => WinsInv'
  <1> SUFFICES ASSUME WinsInv, [Next]_vars PROVE (Found = Standing)'
    BY NextKeepsIInv DEF WinsInv
  <1>1. ASSUME UNCHANGED extVars PROVE (Found = Standing)'
    BY <1>1 DEF WinsInv, Found, Standing, extVars
  <1>2. ASSUME NEW key \in ExtKeys, NEW name \in ExtNames,
               RegisterExt(key, name)
        PROVE  (Found = Standing)'
    <2>1. IInv /\ Found = Standing
      BY DEF WinsInv
    <2>2. Found' = {i \in Found : extCalls[i].key # key
                                    /\ extCalls[i].name # name}
                     \cup {Len(extCalls) + 1}
      BY <1>2, <2>1, FoundStep
    <2>3. Standing' = {i \in Standing : extCalls[i].key # key
                                          /\ extCalls[i].name # name}
                        \cup {Len(extCalls) + 1}
      BY <1>2, <2>1, StandingStep
    <2>. QED  BY <2>1, <2>2, <2>3
  <1>3. ASSUME NEW url \in Urls, RegisterAny(url) PROVE (Found = Standing)'
    BY <1>1, <1>3 DEF RegisterAny
  <1>4. ASSUME Filled \/ UNCHANGED vars PROVE (Found = Standing)'
    BY <1>1, <1>4 DEF Filled, vars
  <1>. QED  BY <1>2, <1>3, <1>4 DEF Next

LEMMA WinsImplies == WinsInv => LatestWins
  <1> SUFFICES ASSUME WinsInv PROVE LatestWins
    OBVIOUS
  <1>1. {byNumber[key] : key \in DOMAIN byNumber} = Standing
    BY DEF WinsInv, Found
  <1>2. \A key \in ExtKeys :
            ByNumber(key) # None => extCalls[ByNumber(key)].key = key
    BY DEF WinsInv, IInv, KeysMatch, ByNumber
  <1>3. \A name \in ExtNames :
            ByName(name) # None => extCalls[ByName(name)].name = name
    BY DEF WinsInv, IInv, IndexesInverse, ByName, ByNumber
  <1>. QED  BY <1>1, <1>2, <1>3 DEF LatestWins

\* Both lookups of an extension find exactly the registrations whose number and
\* name no later one took.
THEOREM ExtLatestWins == Spec => []LatestWins
  BY WinsInitially, NextKeepsWins, WinsImplies, PTL DEF Spec

-----------------------------------------------------------------------------
(***************************************************************************)
(* The entries of Any types.  JSON and text differ only in the name a URL  *)
(* is indexed under, so what holds of the maps is stated once, for the     *)
(* function `names` from a URL to the set of its name, which may be empty. *)
(***************************************************************************)
NamesOK(names) ==
    /\ names \in [Urls -> SUBSET Names]
    /\ \A url \in Urls : \A m, n \in names[url] : m = n

\* k is the last of the calls with the URL, or with the name.
LastWithUrl(calls, url, k) ==
    /\ k \in 1 .. Len(calls) /\ calls[k] = url
    /\ \A j \in 1 .. Len(calls) : calls[j] = url => j <= k
LastWithName(names, calls, n, k) ==
    /\ k \in 1 .. Len(calls) /\ n \in names[calls[k]]
    /\ \A j \in 1 .. Len(calls) : n \in names[calls[j]] => j <= k

\* Each URL has its last call, and each name the URL of its last one.
EntriesOK(calls, entries) ==
    /\ \A i \in 1 .. Len(calls) : calls[i] \in DOMAIN entries
    /\ \A url \in DOMAIN entries : LastWithUrl(calls, url, entries[url])
IndexOK(names, calls, index) ==
    /\ \A i \in 1 .. Len(calls) : names[calls[i]] \subseteq DOMAIN index
    /\ \A n \in DOMAIN index :
          \E k \in 1 .. Len(calls) :
              LastWithName(names, calls, n, k) /\ index[n] = calls[k]

LEMMA EntriesStep ==
    ASSUME NEW calls \in Seq(Urls), NEW entries, EntriesOK(calls, entries),
           NEW url \in Urls
    PROVE  EntriesOK(Append(calls, url), Put(entries, url, Len(calls) + 1))
  <1> DEFINE more == Append(calls, url)
             last == Len(calls) + 1
             map == Put(entries, url, last)
  <1>1. /\ Len(more) = last /\ last \in Nat /\ Len(calls) \in Nat
        /\ more[last] = url
        /\ \A i \in 1 .. Len(calls) : more[i] = calls[i]
        /\ 1 .. last = (1 .. Len(calls)) \cup {last}
    OBVIOUS
  <1>2. /\ DOMAIN map = DOMAIN entries \cup {url} /\ map[url] = last
        /\ \A u \in DOMAIN entries \ {url} : map[u] = entries[u]
    BY DEF Put
  <1> HIDE DEF more, last, map
  <1>3. \A i \in 1 .. Len(more) : more[i] \in DOMAIN map
    BY <1>1, <1>2 DEF EntriesOK
  <1>4. LastWithUrl(more, url, map[url])
    BY <1>1, <1>2 DEF LastWithUrl
  <1>5. ASSUME NEW u \in DOMAIN entries \ {url}
        PROVE  LastWithUrl(more, u, map[u])
    <2>1. LastWithUrl(calls, u, entries[u]) /\ map[u] = entries[u]
      BY <1>2, <1>5 DEF EntriesOK
    <2>2. Len(calls) \in Nat /\ u # url
      OBVIOUS
    <2> QED BY <1>1, <2>1, <2>2 DEF LastWithUrl
  <1>6. EntriesOK(more, map)
    BY <1>2, <1>3, <1>4, <1>5 DEF EntriesOK
  <1> QED BY <1>6 DEF more, map, last

LEMMA IndexStep ==
    ASSUME NEW names, NamesOK(names), NEW calls \in Seq(Urls), NEW index,
           IndexOK(names, calls, index), NEW url \in Urls
    PROVE  IndexOK(names, Append(calls, url), Indexed(index, names[url], url))
  <1> DEFINE more == Append(calls, url)
             last == Len(calls) + 1
             map == Indexed(index, names[url], url)
  <1>1. /\ Len(more) = last /\ last \in Nat /\ Len(calls) \in Nat
        /\ more[last] = url
        /\ \A i \in 1 .. Len(calls) : more[i] = calls[i]
        /\ 1 .. last = (1 .. Len(calls)) \cup {last}
    OBVIOUS
  <1>2. /\ DOMAIN map = DOMAIN index \cup names[url]
        /\ \A n \in names[url] : map[n] = url
        /\ \A n \in DOMAIN index \ names[url] : map[n] = index[n]
    <2>1. CASE names[url] = {}
      BY <2>1 DEF Indexed
    <2>2. CASE names[url] # {}
      <3>1. PICK n : n = CHOOSE m \in names[url] : TRUE
        OBVIOUS
      <3>2. names[url] = {n}
        BY <2>2, <3>1 DEF NamesOK
      <3>3. map = Put(index, n, url)
        BY <2>2, <3>1 DEF Indexed
      <3> QED BY <3>2, <3>3 DEF Put
    <2> QED BY <2>1, <2>2
  <1> HIDE DEF more, last, map
  <1>3. \A i \in 1 .. Len(more) : names[more[i]] \subseteq DOMAIN map
    BY <1>1, <1>2 DEF IndexOK
  <1>4. ASSUME NEW n \in names[url]
        PROVE  LastWithName(names, more, n, last) /\ map[n] = more[last]
    BY <1>1, <1>2 DEF LastWithName
  <1>5. ASSUME NEW n \in DOMAIN index \ names[url]
        PROVE  \E k \in 1 .. Len(more) :
                  LastWithName(names, more, n, k) /\ map[n] = more[k]
    <2>1. PICK k \in 1 .. Len(calls) :
              LastWithName(names, calls, n, k) /\ index[n] = calls[k]
      BY DEF IndexOK
    <2>2. k \in 1 .. Len(more) /\ map[n] = more[k]
      BY <1>1, <1>2, <2>1
    <2>3. LastWithName(names, more, n, k)
      BY <1>1, <2>1, <2>2 DEF LastWithName
    <2> QED BY <2>2, <2>3
  <1>6. last \in 1 .. Len(more)
    BY <1>1
  <1>7. IndexOK(names, more, map)
    BY <1>2, <1>3, <1>4, <1>5, <1>6 DEF IndexOK
  <1> QED BY <1>7 DEF more, map

\* The reference of a lookup, for a function of names.
Reference(names, calls, url) ==
    LET own == {i \in 1 .. Len(calls) : calls[i] = url}
        same == {i \in 1 .. Len(calls) : names[calls[i]] \cap names[url] # {}}
    IN  IF own # {} THEN Last(own) ELSE Last(same)

LEMMA LastIs ==
    ASSUME NEW S \in SUBSET Nat, NEW k \in S, \A j \in S : j <= k
    PROVE  Last(S) = k
  <1>1. Last(S) = CHOOSE i \in S : \A j \in S : j <= i
    BY DEF Last
  <1>2. \A i \in S : (\A j \in S : j <= i) => i = k
    <2> SUFFICES ASSUME NEW i \in S, \A j \in S : j <= i PROVE i = k
      OBVIOUS
    <2>1. i <= k /\ k <= i /\ i \in Nat /\ k \in Nat
      OBVIOUS
    <2> QED BY <2>1
  <1> QED BY <1>1, <1>2

\* Maps kept so give the lookup the reference describes.
LEMMA LookupIsReference ==
    ASSUME NEW names, NamesOK(names), NEW calls \in Seq(Urls), NEW entries,
           NEW index, EntriesOK(calls, entries), IndexOK(names, calls, index),
           NEW url \in Urls
    PROVE  Lookup(entries, index, names[url], url) = Reference(names, calls, url)
  <1> DEFINE own == {i \in 1 .. Len(calls) : calls[i] = url}
             same == {i \in 1 .. Len(calls) :
                         names[calls[i]] \cap names[url] # {}}
  <1>1. Len(calls) \in Nat /\ own \in SUBSET Nat /\ same \in SUBSET Nat
    OBVIOUS
  <1>2. CASE url \in DOMAIN entries
    <2>1. LastWithUrl(calls, url, entries[url])
      BY <1>2 DEF EntriesOK
    <2>2. entries[url] \in own /\ \A j \in own : j <= entries[url]
      BY <2>1 DEF LastWithUrl
    <2>3. Last(own) = entries[url]
      BY <1>1, <2>2, LastIs
    <2> QED BY <1>2, <2>2, <2>3 DEF Lookup, Reference
  <1>3. CASE url \notin DOMAIN entries /\ names[url] \cap DOMAIN index # {}
    <2>1. own = {}
      BY <1>3 DEF EntriesOK
    <2>2. PICK n \in names[url] \cap DOMAIN index : TRUE
      BY <1>3
    <2>3. names[url] = {n}
      BY <2>2 DEF NamesOK
    <2>4. PICK k \in 1 .. Len(calls) :
              LastWithName(names, calls, n, k) /\ index[n] = calls[k]
      BY <2>2 DEF IndexOK
    <2>5. calls[k] \in DOMAIN entries
      BY <2>4 DEF EntriesOK
    <2>6. entries[calls[k]] = k
      <3>1. LastWithUrl(calls, calls[k], entries[calls[k]])
        BY <2>5 DEF EntriesOK
      <3>2. k <= entries[calls[k]] /\ entries[calls[k]] \in 1 .. Len(calls)
        BY <3>1 DEF LastWithUrl
      <3>3. entries[calls[k]] <= k
        BY <2>4, <3>1 DEF LastWithUrl, LastWithName
      <3> QED BY <1>1, <3>2, <3>3
    <2>7. k \in same /\ \A j \in same : j <= k
      BY <2>3, <2>4 DEF LastWithName
    <2>8. Last(same) = k
      BY <1>1, <2>7, LastIs
    <2>9. (CHOOSE m \in names[url] : TRUE) = n
      BY <2>3
    <2> QED BY <1>3, <2>1, <2>4, <2>5, <2>6, <2>8, <2>9 DEF Lookup, Reference
  <1>4. CASE url \notin DOMAIN entries /\ names[url] \cap DOMAIN index = {}
    <2>1. own = {} /\ same = {}
      BY <1>4 DEF EntriesOK, IndexOK
    <2>2. Last(same) = None
      BY <2>1 DEF Last
    <2> QED BY <1>4, <2>1, <2>2 DEF Lookup, Reference
  <1> QED BY <1>2, <1>3, <1>4

JsonNames == [url \in Urls |-> JsonName(url)]
TextNames == [url \in Urls |-> TextName(url)]

\* A URL has at most one name in either format.
LEMMA FormatsOK == NamesOK(JsonNames) /\ NamesOK(TextNames)
  BY DEF NamesOK, JsonNames, TextNames, JsonName, TextName, Urls

AnyInv ==
    /\ anyCalls \in Seq(Urls)
    /\ EntriesOK(anyCalls, jsonEntries)
    /\ IndexOK(JsonNames, anyCalls, jsonByName)
    /\ EntriesOK(anyCalls, textEntries)
    /\ IndexOK(TextNames, anyCalls, textByName)

LEMMA InitAny == Init => AnyInv
  BY DEF Init, AnyInv, EntriesOK, IndexOK, EmptyMap

LEMMA NextKeepsAny == AnyInv /\ [Next]_vars => AnyInv'
  <1> SUFFICES ASSUME AnyInv, [Next]_vars PROVE AnyInv'
    OBVIOUS
  <1>1. ASSUME NEW url \in Urls, RegisterAny(url) PROVE AnyInv'
    <2>1. /\ anyCalls' = Append(anyCalls, url) /\ anyCalls' \in Seq(Urls)
          /\ Len(anyCalls') = Len(anyCalls) + 1
      BY <1>1 DEF RegisterAny, AnyInv
    <2>2. /\ jsonByName' = Indexed(jsonByName, JsonNames[url], url)
          /\ textByName' = Indexed(textByName, TextNames[url], url)
          /\ jsonEntries' = Put(jsonEntries, url, Len(anyCalls) + 1)
          /\ textEntries' = Put(textEntries, url, Len(anyCalls) + 1)
      BY <1>1, <2>1 DEF RegisterAny, JsonNames, TextNames
    <2>3. /\ EntriesOK(anyCalls', jsonEntries')
          /\ EntriesOK(anyCalls', textEntries')
      BY <2>1, <2>2, EntriesStep DEF AnyInv
    <2>4. /\ IndexOK(JsonNames, anyCalls', jsonByName')
          /\ IndexOK(TextNames, anyCalls', textByName')
      BY <2>1, <2>2, IndexStep, FormatsOK DEF AnyInv
    <2> QED BY <2>1, <2>3, <2>4 DEF AnyInv
  <1>2. CASE UNCHANGED anyVars
    BY <1>2 DEF AnyInv, anyVars
  <1> QED BY <1>1, <1>2 DEF Next, RegisterExt, Filled, vars

LEMMA AnyImplies == AnyInv => AnyLookupLatest
  <1> SUFFICES ASSUME AnyInv, NEW url \in Urls
               PROVE  /\ JsonLookup(url) = AnyLookupReference(JsonName, url)
                      /\ TextLookup(url) = AnyLookupReference(TextName, url)
    BY DEF AnyLookupLatest
  <1>1. /\ JsonLookup(url) = Reference(JsonNames, anyCalls, url)
        /\ TextLookup(url) = Reference(TextNames, anyCalls, url)
    <2>1. JsonNames[url] = JsonName(url) /\ TextNames[url] = TextName(url)
      BY DEF JsonNames, TextNames
    <2> QED BY <2>1, LookupIsReference, FormatsOK
            DEF AnyInv, JsonLookup, TextLookup
  <1>2. \A i \in 1 .. Len(anyCalls) : anyCalls[i] \in Urls
    BY DEF AnyInv
  <1>3. AnyLookupReference(JsonName, url) = Reference(JsonNames, anyCalls, url)
    BY <1>2 DEF AnyLookupReference, Reference, JsonNames
  <1>4. AnyLookupReference(TextName, url) = Reference(TextNames, anyCalls, url)
    BY <1>2 DEF AnyLookupReference, Reference, TextNames
  <1> QED BY <1>1, <1>3, <1>4

\* In JSON and in text, a registered URL finds its last registration and any
\* other URL the last one that was indexed under its name, however many calls
\* there were and in whatever order.
THEOREM AnyLookups == Spec => []AnyLookupLatest
  BY InitAny, NextKeepsAny, AnyImplies, PTL DEF Spec

-----------------------------------------------------------------------------
(***************************************************************************)
(* Expansion of Any values and installation of registries.                 *)
(***************************************************************************)
Registries == Installers \cup {Null}
Labels == {"any", "lookup", "enter", "exchange", "decode", "return", "fail",
           "done"}

InstallTypeOK ==
    /\ shared \in BOOLEAN
    /\ global \in [Slots -> Registries]
    /\ installed \in [Installers -> 0 .. 4]
    /\ overlap \in BOOLEAN

ThreadTypeOK ==
    /\ depth \in [Counters -> Nat]
    /\ pc \in [Threads -> Labels]
    /\ ptr \in [Threads -> Registries]
    /\ cur \in [Threads -> Nat]
    /\ guards \in [Threads -> Nat]
    /\ refusedAt \in [Threads -> Nat]

TypeOK == InstallTypeOK /\ ThreadTypeOK

\* The counter counts the guards: a finite number of them, and a number that
\* is still that of the thread's own level where the thread has a cell of its
\* own and is between its load and its exchange.
HeldFinite == \A c \in Counters : IsFiniteSet(Held(c))
OwnLevel ==
    ~ shared => \A t \in Threads : At(t, "exchange") => cur[t] = guards[t]
DepthInv ==
    /\ HeldFinite /\ CounterExact /\ NestingCapped
    /\ OwnLevel /\ RefusedForOwnDepth

\* An installed part was not freed, so neither was the one a thread loaded.
GlobalLive == \A s \in Slots : global[s] # Null => <<global[s], s>> \in live
LiveInv == GlobalLive /\ LoadedIsLive

\* Without overlap at most one call is under way; the parts it has stored are
\* its own and the others are still those of one registry.
OneInstalling ==
    \A i, j \in Installers : Installing(i) /\ Installing(j) => i = j
HalfInstalled ==
    \A i \in Installers : Installing(i) =>
        /\ \A s \in 1 .. installed[i] : global[s] = i
        /\ \A s, u \in (installed[i] + 1) .. 4 : global[s] = global[u]
WholeInv == ~ overlap => OneInstalling /\ HalfInstalled /\ InstalledWhole

ExpansionInv == TypeOK /\ DepthInv /\ LiveInv /\ WholeInv

-----------------------------------------------------------------------------
(***************************************************************************)
(* Types.                                                                  *)
(***************************************************************************)
LEMMA CounterOfType ==
    ASSUME InstallTypeOK, NEW t \in Threads
    PROVE  CounterOf(t) \in Counters
  BY DEF CounterOf, Counters, InstallTypeOK

LEMMA InitTypeOK == ExpansionInit => TypeOK
  <1> SUFFICES ASSUME ExpansionInit PROVE TypeOK
    OBVIOUS
  <1>1. InstallTypeOK
    <2>1. shared \in BOOLEAN /\ overlap \in BOOLEAN
      BY Zenon DEF ExpansionInit
    <2>2. global \in [Slots -> Registries] /\ installed \in [Installers -> 0 .. 4]
      BY DEF ExpansionInit, Registries
    <2> QED BY <2>1, <2>2 DEF InstallTypeOK
  <1>2. Cap + 1 \in Nat
    BY ExpansionAssumption
  <1>3. ThreadTypeOK
    BY <1>2 DEF ExpansionInit, ThreadTypeOK, Registries, Labels
  <1> QED BY <1>1, <1>3 DEF TypeOK

LEMMA StepInstallType ==
    ASSUME InstallTypeOK, [ExpansionNext]_expansionVars
    PROVE  InstallTypeOK'
  <1>1. ASSUME NEW i \in Installers, Install(i)
        PROVE  InstallTypeOK'
    <2>1. installed[i] \in 0 .. 3 /\ installed[i] + 1 \in Slots
      BY <1>1 DEF Install, InstallTypeOK, Slots
    <2> QED BY <1>1, <2>1
            DEF Install, InstallTypeOK, Swap, Registries, Installing
  <1>2. CASE UNCHANGED installVars
    BY <1>2 DEF InstallTypeOK, installVars
  <1> QED
    BY <1>1, <1>2 DEF ExpansionNext, Step, Rest, expansionVars, Load, Search,
                      EnterLoad, Refuse,
                      Exchange, ExchangeFailed, Decode, Leave, Done

\* Each step of a thread changes that thread's entries only.
LEMMA StepThreadType ==
    ASSUME TypeOK, [ExpansionNext]_expansionVars
    PROVE  ThreadTypeOK'
  <1>1. UNCHANGED shared /\ Counters' = Counters
    BY DEF ExpansionNext, Step, Rest, expansionVars, installVars, Install, Load, Search,
           EnterLoad, Refuse, Exchange, ExchangeFailed, Decode, Leave, Done,
           Counters
  <1>2. ASSUME NEW i \in Installers, Install(i)
        PROVE  ThreadTypeOK'
    BY <1>1, <1>2 DEF Install, TypeOK, ThreadTypeOK, threadVars
  <1>3. ASSUME NEW t \in Threads, Step(t)
        PROVE  ThreadTypeOK'
    <2>1. CounterOf(t) \in Counters /\ depth[CounterOf(t)] \in Nat
      BY CounterOfType DEF TypeOK, ThreadTypeOK
    <2>2. CASE Load(t)
      <3>1. global[JsonAny] \in Registries
        BY DEF TypeOK, InstallTypeOK, JsonAny, Slots
      <3> QED BY <1>1, <2>2, <3>1
              DEF Load, TypeOK, ThreadTypeOK, Goto, Labels, Registries
    <2>3. CASE Search(t)
      BY <1>1, <2>3 DEF Search, TypeOK, ThreadTypeOK, Goto, Labels, Registries
    <2>4. CASE EnterLoad(t)
      BY <1>1, <2>1, <2>4 DEF EnterLoad, TypeOK, ThreadTypeOK, Goto, Labels
    <2>5. CASE Refuse(t)
      BY <1>1, <2>5 DEF Refuse, TypeOK, ThreadTypeOK, Goto, Labels
    <2>6. CASE Exchange(t)
      BY <1>1, <2>1, <2>6 DEF Exchange, TypeOK, ThreadTypeOK, Goto, Labels
    <2>7. CASE ExchangeFailed(t)
      BY <1>1, <2>1, <2>7 DEF ExchangeFailed, TypeOK, ThreadTypeOK
    <2>8. CASE Decode(t)
      BY <1>1, <2>8 DEF Decode, NextAny, TypeOK, ThreadTypeOK, Goto, Labels
    <2>9. CASE Leave(t)
      <3>1. Left(t) \in Nat /\ guards[t] - 1 \in Nat
        BY <2>1, <2>9 DEF Left, Leave, TypeOK, ThreadTypeOK
      <3>2. pc' \in [Threads -> Labels]
        BY <2>9 DEF Leave, NextAny, Goto, TypeOK, ThreadTypeOK, Labels
      <3> QED BY <1>1, <2>1, <2>9, <3>1, <3>2 DEF Leave, TypeOK, ThreadTypeOK
    <2>10. CASE Done(t)
      BY <1>1, <2>10 DEF Done, TypeOK, ThreadTypeOK, Goto, Labels
    <2> QED BY <1>3, <2>2, <2>3, <2>4, <2>5, <2>6, <2>7, <2>8, <2>9, <2>10
            DEF Step
  <1>4. CASE UNCHANGED expansionVars
    BY <1>1, <1>4 DEF expansionVars, threadVars, TypeOK, ThreadTypeOK
  <1> QED BY <1>2, <1>3, <1>4 DEF ExpansionNext, Rest

-----------------------------------------------------------------------------
(***************************************************************************)
(* Counting the guards.                                                    *)
(***************************************************************************)
LEMMA HeldMember ==
    ASSUME NEW c, NEW x
    PROVE  x \in Held(c) <=>
              \E t \in Threads : /\ CounterOf(t) = c
                                /\ \E n \in 1 .. guards[t] : x = <<t, n>>
  BY DEF Held

LEMMA HeldSame ==
    ASSUME UNCHANGED <<shared, guards>>, NEW c
    PROVE  Held(c)' = Held(c)
  BY DEF Held, CounterOf

\* Taking a guard adds one to its own counter's set, and to no other.
LEMMA HeldAdd ==
    ASSUME TypeOK, UNCHANGED shared, NEW t \in Threads,
           guards' = [guards EXCEPT ![t] = @ + 1], NEW c
    PROVE  /\ c = CounterOf(t) =>
                 /\ Held(c)' = Held(c) \cup {<<t, guards[t] + 1>>}
                 /\ <<t, guards[t] + 1>> \notin Held(c)
           /\ c # CounterOf(t) => Held(c)' = Held(c)
  <1>1. /\ guards[t] \in Nat
        /\ 1 .. guards'[t] = (1 .. guards[t]) \cup {guards[t] + 1}
        /\ \A u \in Threads \ {t} : guards'[u] = guards[u]
    BY DEF TypeOK, ThreadTypeOK
  <1>2. \A u \in Threads : CounterOf(u)' = CounterOf(u)
    BY DEF CounterOf
  <1>3. <<t, guards[t] + 1>> \notin Held(c)
    BY <1>1, HeldMember
  <1>4. ASSUME NEW x
        PROVE  x \in Held(c)' <=>
                  x \in Held(c) \/ (c = CounterOf(t) /\ x = <<t, guards[t] + 1>>)
    <2>1. x \in Held(c)' <=>
              \E u \in Threads : /\ CounterOf(u) = c
                                /\ \E n \in 1 .. guards'[u] : x = <<u, n>>
      BY <1>2 DEF Held
    <2> QED BY <1>1, <2>1, HeldMember
  <1> QED BY <1>3, <1>4

LEMMA HeldRemove ==
    ASSUME TypeOK, UNCHANGED shared, NEW t \in Threads, guards[t] > 0,
           guards' = [guards EXCEPT ![t] = @ - 1], NEW c
    PROVE  /\ c = CounterOf(t) =>
                 /\ Held(c)' = Held(c) \ {<<t, guards[t]>>}
                 /\ <<t, guards[t]>> \in Held(c)
           /\ c # CounterOf(t) => Held(c)' = Held(c)
  <1>1. /\ guards[t] \in Nat /\ guards[t] \in 1 .. guards[t]
        /\ 1 .. guards'[t] = (1 .. guards[t]) \ {guards[t]}
        /\ \A u \in Threads \ {t} : guards'[u] = guards[u]
    BY DEF TypeOK, ThreadTypeOK
  <1>2. \A u \in Threads : CounterOf(u)' = CounterOf(u)
    BY DEF CounterOf
  <1>3. c = CounterOf(t) => <<t, guards[t]>> \in Held(c)
    BY <1>1, HeldMember
  <1>4. ASSUME NEW x
        PROVE  x \in Held(c)' <=> x \in Held(c) /\ x # <<t, guards[t]>>
    <2>1. x \in Held(c)' <=>
              \E u \in Threads : /\ CounterOf(u) = c
                                /\ \E n \in 1 .. guards'[u] : x = <<u, n>>
      BY <1>2 DEF Held
    <2> QED BY <1>1, <2>1, HeldMember
  <1>5. c # CounterOf(t) => <<t, guards[t]>> \notin Held(c)
    BY HeldMember
  <1> QED BY <1>3, <1>4, <1>5

\* A thread's guards are among those of its counter, and are all of them
\* where the cell is its own.
LEMMA OwnGuards ==
    ASSUME TypeOK, HeldFinite, CounterExact, NEW t \in Threads
    PROVE  /\ guards[t] <= depth[CounterOf(t)]
           /\ ~ shared => depth[CounterOf(t)] = guards[t]
  <1> DEFINE own == {t} \X (1 .. guards[t])
             c == CounterOf(t)
  <1>1. c \in Counters /\ guards[t] \in Nat
    BY CounterOfType DEF TypeOK, ThreadTypeOK
  <1>2. IsFiniteSet(Held(c)) /\ depth[c] = Cardinality(Held(c))
    BY <1>1 DEF HeldFinite, CounterExact
  <1>3. /\ IsFiniteSet({t}) /\ Cardinality({t}) = 1
        /\ IsFiniteSet(1 .. guards[t]) /\ Cardinality(1 .. guards[t]) = guards[t]
    <2>1. guards[t] \in Int /\ 1 \in Int
      BY <1>1
    <2>2. /\ IsFiniteSet(1 .. guards[t])
          /\ Cardinality(1 .. guards[t]) =
                IF 1 > guards[t] THEN 0 ELSE guards[t] - 1 + 1
      BY <2>1, FS_Interval
    <2>3. Cardinality(1 .. guards[t]) = guards[t]
      BY <1>1, <2>2
    <2> QED BY <2>2, <2>3, FS_Singleton
  <1>4. Cardinality(own) = guards[t]
    <2> HIDE DEF own
    <2>2. Cardinality(own) = Cardinality({t}) * Cardinality(1 .. guards[t])
      BY <1>3, FS_Product DEF own
    <2>1. Cardinality(own) = 1 * guards[t]
      BY <1>3, <2>2
    <2> QED BY <1>1, <2>1
  <1>5. own \subseteq Held(c)
    BY HeldMember
  <1>6. ~ shared => Held(c) = own
    BY <1>5, HeldMember DEF CounterOf
  <1>7. guards[t] <= depth[c]
    BY <1>2, <1>4, <1>5, FS_Subset
  <1> QED BY <1>2, <1>4, <1>6, <1>7

-----------------------------------------------------------------------------
(***************************************************************************)
(* The depth counter.                                                      *)
(***************************************************************************)
LEMMA InitDepth == ExpansionInit => DepthInv
  <1> SUFFICES ASSUME ExpansionInit PROVE DepthInv
    OBVIOUS
  <1>1. \A c : Held(c) = {}
    BY HeldMember DEF ExpansionInit
  <1>2. HeldFinite /\ CounterExact
    BY <1>1, FS_EmptySet DEF ExpansionInit, HeldFinite, CounterExact
  <1>3. NestingCapped /\ OwnLevel
    BY ExpansionAssumption DEF ExpansionInit, NestingCapped, OwnLevel, At
  <1>4. RefusedForOwnDepth
    BY ExpansionAssumption DEF ExpansionInit, RefusedForOwnDepth
  <1> QED BY <1>2, <1>3, <1>4 DEF DepthInv

\* Neither the counters nor the guards change.
LEMMA DepthSame ==
    ASSUME HeldFinite, CounterExact, NestingCapped,
           UNCHANGED <<shared, depth, guards>>
    PROVE  HeldFinite' /\ CounterExact' /\ NestingCapped'
  <1>1. Counters' = Counters /\ \A c : Held(c)' = Held(c)
    BY HeldSame DEF Counters
  <1>2. HeldFinite'
    BY <1>1 DEF HeldFinite
  <1>3. CounterExact'
    BY <1>1 DEF CounterExact
  <1> QED BY <1>2, <1>3 DEF NestingCapped

\* Entering counts the new guard, which the cap allows: the counter it was
\* checked on is the one it is exchanged for.
LEMMA ExchangeDepth ==
    ASSUME TypeOK, DepthInv, NEW t \in Threads, Exchange(t)
    PROVE  HeldFinite' /\ CounterExact' /\ NestingCapped'
  <1> DEFINE new == <<t, guards[t] + 1>>
  <1>0. PICK own \in Counters : own = CounterOf(t)
    BY CounterOfType DEF TypeOK
  <1>1. /\ UNCHANGED shared /\ Counters' = Counters
        /\ guards' = [guards EXCEPT ![t] = @ + 1]
        /\ depth[own] = cur[t] /\ ~ AtCap(cur[t])
        /\ depth' = [depth EXCEPT ![own] = depth[own] + 1]
    BY <1>0 DEF Exchange, installVars, Counters
  <1>2. own \in Counters /\ depth[own] \in Nat /\ depth \in [Counters -> Nat]
    BY DEF TypeOK, ThreadTypeOK
  <1>3. /\ Held(own)' = Held(own) \cup {new} /\ new \notin Held(own)
        /\ \A c : c # own => Held(c)' = Held(c)
    BY <1>0, <1>1, HeldAdd
  <1>4. /\ IsFiniteSet(Held(own)')
        /\ Cardinality(Held(own)') = Cardinality(Held(own)) + 1
    <2>1. IsFiniteSet(Held(own))
      BY <1>2 DEF DepthInv, HeldFinite
    <2>2. /\ IsFiniteSet(Held(own) \cup {new})
          /\ Cardinality(Held(own) \cup {new}) = Cardinality(Held(own)) + 1
      BY <1>3, <2>1, FS_AddElement
    <2> QED BY <1>3, <2>2
  <1>5. HeldFinite'
    BY <1>1, <1>3, <1>4 DEF DepthInv, HeldFinite
  <1>6. CounterExact'
    BY <1>1, <1>2, <1>3, <1>4 DEF DepthInv, CounterExact
  <1>7. NestingCapped'
    <2>1. guards[t] <= depth[own] /\ guards \in [Threads -> Nat]
      BY <1>0, OwnGuards DEF DepthInv, TypeOK, ThreadTypeOK
    <2>2. guards[t] + 1 <= Cap
      BY <1>1, <1>2, <2>1, ExpansionAssumption DEF AtCap
    <2> QED BY <1>1, <2>1, <2>2 DEF NestingCapped, DepthInv
  <1> QED BY <1>5, <1>6, <1>7

\* Leaving never saturates: the guard that is dropped is in the count.
LEMMA LeaveDepth ==
    ASSUME TypeOK, DepthInv, NEW t \in Threads, Leave(t)
    PROVE  HeldFinite' /\ CounterExact' /\ NestingCapped'
  <1> DEFINE last == <<t, guards[t]>>
  <1>0. PICK own \in Counters : own = CounterOf(t)
    BY CounterOfType DEF TypeOK
  <1>1. /\ UNCHANGED shared /\ Counters' = Counters /\ guards[t] > 0
        /\ guards' = [guards EXCEPT ![t] = @ - 1]
        /\ depth' = [depth EXCEPT ![own] = Left(t)]
    BY <1>0 DEF Leave, installVars, Counters
  <1>2. /\ own \in Counters /\ depth[own] \in Nat /\ depth \in [Counters -> Nat]
        /\ guards \in [Threads -> Nat]
    BY DEF TypeOK, ThreadTypeOK
  <1>3. Left(t) = depth[own] - 1
    BY <1>0, <1>1, <1>2, OwnGuards DEF Left, DepthInv
  <1>4. /\ Held(own)' = Held(own) \ {last} /\ last \in Held(own)
        /\ \A c : c # own => Held(c)' = Held(c)
    BY <1>0, <1>1, HeldRemove
  <1>5. /\ IsFiniteSet(Held(own)')
        /\ Cardinality(Held(own)') = Cardinality(Held(own)) - 1
    <2>1. IsFiniteSet(Held(own))
      BY <1>2 DEF DepthInv, HeldFinite
    <2>2. /\ IsFiniteSet(Held(own) \ {last})
          /\ Cardinality(Held(own) \ {last}) = Cardinality(Held(own)) - 1
      BY <1>4, <2>1, FS_RemoveElement
    <2> QED BY <1>4, <2>2
  <1>6. HeldFinite'
    BY <1>1, <1>4, <1>5 DEF DepthInv, HeldFinite
  <1>7. CounterExact'
    BY <1>1, <1>2, <1>3, <1>4, <1>5 DEF DepthInv, CounterExact
  <1>8. NestingCapped'
    BY <1>1, <1>2, ExpansionAssumption DEF NestingCapped, DepthInv
  <1> QED BY <1>6, <1>7, <1>8

\* A thread with a cell of its own exchanges, and is refused, at its own level:
\* nobody else writes the cell in between.
LEMMA StepOwnLevel ==
    ASSUME TypeOK, DepthInv, NEW t \in Threads, Step(t)
    PROVE  OwnLevel' /\ RefusedForOwnDepth'
  <1> SUFFICES ASSUME ~ shared'
               PROVE  /\ \A u \in Threads :
                            At(u, "exchange")' => cur'[u] = guards'[u]
                      /\ \A u \in Threads :
                            refusedAt'[u] <= Cap => refusedAt'[u] = Cap
    BY DEF OwnLevel, RefusedForOwnDepth
  <1>1. ~ shared
    BY DEF Step, installVars, Load, Search, EnterLoad, Refuse, Exchange,
           ExchangeFailed, Decode, Leave, Done
  <1>2. /\ \A u \in Threads : At(u, "exchange") => cur[u] = guards[u]
        /\ \A u \in Threads : refusedAt[u] <= Cap => refusedAt[u] = Cap
    BY <1>1 DEF DepthInv, OwnLevel, RefusedForOwnDepth
  <1>3. depth[CounterOf(t)] = guards[t]
    BY <1>1, OwnGuards DEF DepthInv
  <1>4. /\ pc \in [Threads -> Labels] /\ cur \in [Threads -> Nat]
        /\ guards \in [Threads -> Nat] /\ refusedAt \in [Threads -> Nat]
    BY DEF TypeOK, ThreadTypeOK
  <1>5. CASE Load(t)
    BY <1>2, <1>4, <1>5 DEF Load, At, Goto
  <1>6. CASE Search(t)
    BY <1>2, <1>4, <1>6 DEF Search, At, Goto
  <1>7. CASE EnterLoad(t)
    BY <1>2, <1>3, <1>4, <1>7 DEF EnterLoad, At, Goto
  <1>8. CASE Refuse(t)
    <2>1. guards[t] <= Cap /\ guards[t] >= Cap
      BY <1>2, <1>8 DEF Refuse, AtCap, DepthInv, NestingCapped
    <2>2. guards[t] = Cap
      BY <1>4, <2>1, ExpansionAssumption
    <2> QED BY <1>2, <1>4, <1>8, <2>2 DEF Refuse, At, Goto
  <1>9. CASE Exchange(t)
    BY <1>2, <1>4, <1>9 DEF Exchange, At, Goto
  <1>10. CASE ExchangeFailed(t)
    BY <1>2, <1>3, <1>4, <1>10 DEF ExchangeFailed, At
  <1>11. CASE Decode(t)
    BY <1>2, <1>4, <1>11 DEF Decode, NextAny, At, Goto
  <1>12. CASE Leave(t)
    BY <1>2, <1>4, <1>12 DEF Leave, NextAny, At, Goto
  <1>13. CASE Done(t)
    BY <1>2, <1>4, <1>13 DEF Done, At, Goto
  <1> QED BY <1>5, <1>6, <1>7, <1>8, <1>9, <1>10, <1>11, <1>12, <1>13 DEF Step

LEMMA StepDepth ==
    ASSUME TypeOK, DepthInv, [ExpansionNext]_expansionVars
    PROVE  DepthInv'
  <1>1. CASE UNCHANGED <<shared, depth, threadVars>>
    <2>1. HeldFinite' /\ CounterExact' /\ NestingCapped'
      BY <1>1, DepthSame DEF DepthInv, threadVars
    <2> QED BY <1>1, <2>1
            DEF DepthInv, OwnLevel, RefusedForOwnDepth, At, threadVars
  <1>2. ASSUME NEW t \in Threads, Step(t)
        PROVE  DepthInv'
    <2>1. CASE Exchange(t)
      BY <1>2, <2>1, ExchangeDepth, StepOwnLevel DEF DepthInv
    <2>2. CASE Leave(t)
      BY <1>2, <2>2, LeaveDepth, StepOwnLevel DEF DepthInv
    <2>3. CASE UNCHANGED <<shared, depth, guards>>
      BY <1>2, <2>3, DepthSame, StepOwnLevel DEF DepthInv
    <2> QED BY <1>2, <2>1, <2>2, <2>3
            DEF Step, Load, Search, EnterLoad, Refuse, ExchangeFailed, Decode,
                Done, installVars
  <1> QED BY <1>1, <1>2 DEF ExpansionNext, Rest, Install, expansionVars, installVars

-----------------------------------------------------------------------------
(***************************************************************************)
(* The installed registries.                                               *)
(***************************************************************************)
LEMMA StepLive ==
    ASSUME TypeOK, LiveInv, [ExpansionNext]_expansionVars
    PROVE  LiveInv'
  <1>1. /\ \A s \in Slots : global[s] # Null => <<global[s], s>> \in live
        /\ \A t \in Threads :
              At(t, "lookup") /\ ptr[t] # Null => <<ptr[t], JsonAny>> \in live
        /\ pc \in [Threads -> Labels] /\ ptr \in [Threads -> Registries]
    BY DEF LiveInv, GlobalLive, LoadedIsLive, TypeOK, ThreadTypeOK
  <1>2. ASSUME NEW i \in Installers, Install(i)
        PROVE  LiveInv'
    <2> DEFINE next == installed[i] + 1
    <2>0. /\ next \in Slots
          /\ global' = [global EXCEPT ![next] = i]
          /\ live' = live \cup {<<i, next>>}
      <3>1. installed[i] \in 0 .. 4 /\ installed[i] < 4
        BY <1>2 DEF Install, TypeOK, InstallTypeOK
      <3>2. next \in Slots
        BY <3>1 DEF Slots
      <3> QED BY <1>2, <3>2 DEF Install, Swap, Live
    <2>1. PICK slot \in Slots : /\ global' = [global EXCEPT ![slot] = i]
                                /\ live' = live \cup {<<i, slot>>}
      <3> HIDE DEF next
      <3> QED BY <2>0
    <2>2. GlobalLive'
      BY <1>1, <2>1 DEF GlobalLive, TypeOK, InstallTypeOK
    <2>3. LoadedIsLive'
      BY <1>1, <1>2, <2>1 DEF LoadedIsLive, Install, threadVars, At
    <2> QED BY <2>2, <2>3 DEF LiveInv
  <1>3. ASSUME NEW t \in Threads, Load(t)
        PROVE  LiveInv'
    BY <1>1, <1>3 DEF Load, LiveInv, GlobalLive, LoadedIsLive, At, Goto,
                      installVars, Slots, JsonAny
  <1>4. ASSUME NEW t \in Threads, Search(t)
        PROVE  LiveInv'
    BY <1>1, <1>4 DEF Search, LiveInv, GlobalLive, LoadedIsLive, At, Goto,
                      installVars
  <1>5. ASSUME NEW t \in Threads, UNCHANGED <<installVars, ptr>>,
               \A u \in Threads : At(u, "lookup")' => At(u, "lookup")
        PROVE  LiveInv'
    BY <1>1, <1>5 DEF LiveInv, GlobalLive, LoadedIsLive, installVars
  <1>6. ASSUME NEW t \in Threads, Step(t), ~ Load(t), ~ Search(t)
        PROVE  /\ UNCHANGED <<installVars, ptr>>
               /\ \A u \in Threads : At(u, "lookup")' => At(u, "lookup")
    BY <1>1, <1>6 DEF Step, EnterLoad, Refuse, Exchange, ExchangeFailed, Decode,
                      NextAny, Leave, Done, At, Goto, Labels
  <1>7. CASE UNCHANGED expansionVars
    BY <1>1, <1>7 DEF LiveInv, GlobalLive, LoadedIsLive, At, expansionVars, installVars,
                      threadVars
  <1> QED BY <1>2, <1>3, <1>4, <1>5, <1>6, <1>7 DEF ExpansionNext, Rest

LEMMA InstallWhole ==
    ASSUME TypeOK, WholeInv, NEW i \in Installers, Install(i)
    PROVE  WholeInv'
  <1> SUFFICES ASSUME ~ overlap'
               PROVE  OneInstalling' /\ HalfInstalled' /\ InstalledWhole'
    BY DEF WholeInv
  <1>1. /\ ~ overlap /\ \A j \in Installers \ {i} : ~ Installing(j)
        /\ installed[i] \in 0 .. 3
        /\ installed' = [installed EXCEPT ![i] = installed[i] + 1]
        /\ global' = [global EXCEPT ![installed[i] + 1] = i]
        /\ global \in [Slots -> Registries]
        /\ installed \in [Installers -> 0 .. 4]
    <2>1. ~ overlap /\ \A j \in Installers \ {i} : ~ Installing(j)
      BY DEF Install
    <2>2. installed[i] \in 0 .. 4 /\ installed[i] < 4
      BY DEF Install, TypeOK, InstallTypeOK
    <2> QED BY <2>1, <2>2 DEF Install, Swap, TypeOK, InstallTypeOK
  <1>2. HalfInstalled /\ InstalledWhole
    BY <1>1 DEF WholeInv
  <1>3. \A j \in Installers \ {i} : ~ Installing(j)'
    BY <1>1 DEF Installing
  <1>4. /\ \A s \in 1 .. installed[i] : global[s] = i
        /\ \A s, u \in (installed[i] + 1) .. 4 : global[s] = global[u]
    <2>1. CASE installed[i] = 0
      BY <1>1, <1>2, <2>1 DEF InstalledWhole, Installing, Slots
    <2>2. CASE installed[i] # 0
      BY <1>1, <1>2, <2>2 DEF HalfInstalled, Installing
    <2> QED BY <2>1, <2>2
  <1>5. /\ \A s \in 1 .. installed'[i] : global'[s] = i
        /\ \A s, u \in (installed'[i] + 1) .. 4 : global'[s] = global'[u]
    BY <1>1, <1>4 DEF Slots
  <1>6. OneInstalling' /\ HalfInstalled'
    BY <1>3, <1>5 DEF OneInstalling, HalfInstalled
  <1>7. InstalledWhole'
    <2> SUFFICES ASSUME ~ Installing(i)'
                 PROVE  \A s, u \in Slots : global'[s] = global'[u]
      BY DEF InstalledWhole
    <2>1. installed'[i] = 4
      BY <1>1 DEF Installing
    <2> QED BY <1>5, <2>1 DEF Slots
  <1> QED BY <1>6, <1>7

LEMMA StepWhole ==
    ASSUME TypeOK, WholeInv, [ExpansionNext]_expansionVars
    PROVE  WholeInv'
  <1>1. CASE UNCHANGED installVars
    BY <1>1 DEF WholeInv, OneInstalling, HalfInstalled, InstalledWhole,
                Installing, installVars
  <1> QED BY <1>1, InstallWhole
          DEF ExpansionNext, Step, Rest, expansionVars, Load, Search, EnterLoad,
              Refuse, Exchange,
              ExchangeFailed, Decode, Leave, Done

-----------------------------------------------------------------------------
LEMMA InitExpansionInv == ExpansionInit => ExpansionInv
  <1> SUFFICES ASSUME ExpansionInit PROVE ExpansionInv
    OBVIOUS
  <1>1. LiveInv
    BY DEF ExpansionInit, LiveInv, GlobalLive, LoadedIsLive
  <1>2. WholeInv
    BY DEF ExpansionInit, WholeInv, OneInstalling, HalfInstalled, InstalledWhole,
           Installing
  <1> QED BY <1>1, <1>2, InitTypeOK, InitDepth DEF ExpansionInv

LEMMA StepExpansionInv ==
    ExpansionInv /\ [ExpansionNext]_expansionVars => ExpansionInv'
  BY StepInstallType, StepThreadType, StepDepth, StepLive, StepWhole
     DEF ExpansionInv, TypeOK

LEMMA SpecExpansionInv == ExpansionSpec => []ExpansionInv
  BY InitExpansionInv, StepExpansionInv, PTL DEF ExpansionSpec

\* Whatever the number of threads that share a counter, however their loads
\* and exchanges interleave, and however expansions end, the counter is the
\* number of guards that are held and no thread holds more than the cap.
THEOREM ExpansionBounded == ExpansionSpec => []NestingBounded
  <1>1. ExpansionInv => NestingBounded
    BY DEF ExpansionInv, DepthInv, NestingBounded
  <1> QED BY <1>1, SpecExpansionInv, PTL

\* A thread with a counter of its own is refused exactly at the cap.
THEOREM RefusalIsOwn == ExpansionSpec => []RefusedForOwnDepth
  <1>1. ExpansionInv => RefusedForOwnDepth
    BY DEF ExpansionInv, DepthInv
  <1> QED BY <1>1, SpecExpansionInv, PTL

\* A registry is searched only while it is allocated, whatever is installed
\* over it between the load and the search.
THEOREM SearchedIsLive == ExpansionSpec => []LoadedIsLive
  <1>1. ExpansionInv => LoadedIsLive
    BY DEF ExpansionInv, LiveInv
  <1> QED BY <1>1, SpecExpansionInv, PTL

\* Any number of installations, one after another, leave the four globals
\* from one registry.
THEOREM InstalledFromOne == ExpansionSpec => []InstalledWhole
  <1>1. ExpansionInv => InstalledWhole
    BY DEF ExpansionInv, WholeInv, InstalledWhole
  <1> QED BY <1>1, SpecExpansionInv, PTL
=============================================================================
