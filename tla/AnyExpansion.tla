---------------------------- MODULE AnyExpansion ----------------------------
(***************************************************************************)
(* Threads that write messages with nested Any values as JSON while others *)
(* install type registries.  Each Any is looked up in the registry that is *)
(* installed at that moment, its payload decoded and written, which may    *)
(* lead to the next Any; a counter bounds how deep this goes.  The counter *)
(* is a thread-local cell with std and one process-wide atomic without.    *)
(***************************************************************************)
EXTENDS Naturals, FiniteSets

CONSTANTS
    Threads,        \* threads that serialize
    Installers,     \* calls of set_type_registry; each stands for its registry
    Knows,          \* the installers whose registry has the payloads' type
    Cap,            \* MAX_ANY_EXPANSION_DEPTH
    MaxAnys,        \* bound: Any values in one document
    MaxSpurious     \* bound: spurious failures of compare_exchange_weak

ASSUME ExpansionAssumption ==
    /\ Knows \subseteq Installers
    /\ Cap \in Nat /\ MaxAnys \in Nat /\ MaxSpurious \in Nat

Null == "null"
ASSUME NullAssumption == Null \notin Installers

\* The globals, in the order set_type_registry stores to them.
Slots == 1 .. 4
JsonAny == 1

VARIABLES
    shared,         \* a no_std build: one counter for all threads
    global,         \* Slots -> the registry whose part is installed, or Null
    installed,      \* Installers -> how many of its parts are installed
    overlap,        \* two calls of set_type_registry have overlapped
    live,           \* the installed parts that were not freed
    depth,          \* DEPTH
    pc, ptr, cur,   \* a thread: where it is, the registry it loaded and the
                    \* counter as it last saw it (while it uses them)
    guards,         \* the AnyExpansionGuards it holds, one in another
    anys,           \* the Any values its document still has
    spurious,       \* spurious failures that may still happen
    refusedAt       \* the guards it held when it was refused, or Cap + 1

installVars == <<shared, global, installed, overlap, live>>
threadVars == <<pc, ptr, cur, guards, anys, spurious, refusedAt>>
expansionVars == <<installVars, depth, threadVars>>

\* The counters of the build, and the one a thread uses.
Counters == IF shared THEN {"global"} ELSE Threads

\* Mutant: the threads use one cell although it is meant to be thread-local.
CounterOfAll(t) == CHOOSE c \in Counters : TRUE

CounterOf(t) == IF shared THEN "global" ELSE t

-----------------------------------------------------------------------------
(***************************************************************************)
(* set_type_registry: four stores, each atomic, the old parts leaked.      *)
(***************************************************************************)
Installing(i) == installed[i] \in 1 .. 3

\* Mutant: the part that is replaced is freed.
LiveFreed(i, slot) == (live \ {<<global[slot], slot>>}) \cup {<<i, slot>>}

Live(i, slot) == live \cup {<<i, slot>>}

\* Mutant: the text halves stay as they were.
SwapJsonOnly(i, slot) ==
    IF slot > 2 THEN global ELSE [global EXCEPT ![slot] = i]

Swap(i, slot) == [global EXCEPT ![slot] = i]

Install(i) ==
    /\ installed[i] < 4
    /\ LET slot == installed[i] + 1 IN
       /\ global' = Swap(i, slot)
       /\ live' = Live(i, slot)
       /\ installed' = [installed EXCEPT ![i] = slot]
    /\ overlap' = (overlap \/ \E j \in Installers \ {i} : Installing(j))
    /\ UNCHANGED <<shared, depth, threadVars>>

-----------------------------------------------------------------------------
(***************************************************************************)
(* Serialize for Any.                                                      *)
(***************************************************************************)
At(t, label) == pc[t] = label
Goto(t, label) == pc' = [pc EXCEPT ![t] = label]

\* with_any_registry: the pointer, to be used after this.
Load(t) ==
    /\ At(t, "any")
    /\ ptr' = [ptr EXCEPT ![t] = global[JsonAny]]
    /\ Goto(t, "lookup")
    /\ UNCHANGED <<installVars, depth, cur, guards, anys, spurious, refusedAt>>

\* A type that is not registered is written as base64 and expands no further.
Search(t) ==
    /\ At(t, "lookup")
    /\ ptr' = [ptr EXCEPT ![t] = Null]
    /\ Goto(t, IF ptr[t] \in Knows THEN "enter" ELSE "return")
    /\ UNCHANGED <<installVars, depth, cur, guards, anys, spurious, refusedAt>>

\* any_depth::enter: a load, then compare-exchange until it succeeds.
EnterLoad(t) ==
    /\ At(t, "enter")
    /\ cur' = [cur EXCEPT ![t] = depth[CounterOf(t)]]
    /\ Goto(t, "exchange")
    /\ UNCHANGED <<installVars, depth, ptr, guards, anys, spurious, refusedAt>>

AtCap(n) == n >= Cap

Refuse(t) ==
    /\ At(t, "exchange") /\ AtCap(cur[t])
    /\ refusedAt' = [refusedAt EXCEPT ![t] = guards[t]]
    /\ cur' = [cur EXCEPT ![t] = 0]
    /\ Goto(t, "fail")
    /\ UNCHANGED <<installVars, depth, ptr, guards, anys, spurious>>

Exchange(t) ==
    /\ At(t, "exchange") /\ ~ AtCap(cur[t])
    /\ depth[CounterOf(t)] = cur[t]
    /\ depth' = [depth EXCEPT ![CounterOf(t)] = cur[t] + 1]
    /\ guards' = [guards EXCEPT ![t] = @ + 1]
    /\ cur' = [cur EXCEPT ![t] = 0]
    /\ Goto(t, "decode")
    /\ UNCHANGED <<installVars, ptr, anys, spurious, refusedAt>>

ExchangeFailed(t) ==
    /\ At(t, "exchange") /\ ~ AtCap(cur[t])
    /\ \/ depth[CounterOf(t)] # cur[t] /\ UNCHANGED spurious
       \/ /\ shared /\ spurious > 0
          /\ spurious' = spurious - 1
    /\ cur' = [cur EXCEPT ![t] = depth[CounterOf(t)]]
    /\ UNCHANGED <<installVars, depth, pc, ptr, guards, anys, refusedAt>>

\* The next Any at this level, if the document has one.
NextAny(t) ==
    /\ anys[t] > 0
    /\ anys' = [anys EXCEPT ![t] = @ - 1]
    /\ Goto(t, "any")

\* to_json: the payload does not decode, has an Any in it, or has none.
Decode(t) ==
    /\ At(t, "decode")
    /\ \/ NextAny(t)
       \/ Goto(t, "return") /\ UNCHANGED anys
       \/ Goto(t, "fail") /\ UNCHANGED anys
    /\ UNCHANGED <<installVars, depth, ptr, cur, guards, spurious, refusedAt>>

\* Mutants: the counter is set back to what it was on entry; a failed
\* expansion keeps its level.
LeftRestored(t) == guards[t] - 1
LeftOnSuccess(t) ==
    IF pc[t] = "fail" THEN depth[CounterOf(t)] ELSE depth[CounterOf(t)] - 1

\* any_depth::leave, saturating.
Left(t) == IF depth[CounterOf(t)] = 0 THEN 0 ELSE depth[CounterOf(t)] - 1

\* The guard of a level is dropped whether its expansion failed or not; after
\* it the level above may have another Any.
Leave(t) ==
    /\ guards[t] > 0
    /\ \/ At(t, "fail") /\ UNCHANGED <<pc, anys>>
       \/ At(t, "return") /\ UNCHANGED <<pc, anys>>
       \/ At(t, "return") /\ NextAny(t)
    /\ depth' = [depth EXCEPT ![CounterOf(t)] = Left(t)]
    /\ guards' = [guards EXCEPT ![t] = @ - 1]
    /\ UNCHANGED <<installVars, ptr, cur, spurious, refusedAt>>

\* The document is written, or the error is returned.
Done(t) ==
    /\ guards[t] = 0 /\ (At(t, "return") \/ At(t, "fail"))
    /\ Goto(t, "done")
    /\ UNCHANGED <<installVars, depth, ptr, cur, guards, anys, spurious,
                   refusedAt>>

Step(t) ==
    \/ Load(t) \/ Search(t)
    \/ EnterLoad(t) \/ Refuse(t) \/ Exchange(t) \/ ExchangeFailed(t)
    \/ Decode(t) \/ Leave(t) \/ Done(t)

-----------------------------------------------------------------------------
ExpansionInit ==
    /\ shared \in BOOLEAN
    /\ global = [s \in Slots |-> Null]
    /\ installed = [i \in Installers |-> 0]
    /\ overlap = FALSE
    /\ live = {}
    /\ depth = [c \in Counters |-> 0]
    /\ pc = [t \in Threads |-> "any"]
    /\ ptr = [t \in Threads |-> Null]
    /\ cur = [t \in Threads |-> 0]
    /\ guards = [t \in Threads |-> 0]
    /\ anys = [t \in Threads |-> MaxAnys]
    /\ spurious = MaxSpurious
    /\ refusedAt = [t \in Threads |-> Cap + 1]

AllDone == \A t \in Threads : At(t, "done")
Rest ==
    /\ AllDone /\ (\A i \in Installers : installed[i] = 4)
    /\ UNCHANGED expansionVars

ExpansionNext ==
    \/ \E i \in Installers : Install(i)
    \/ \E t \in Threads : Step(t)
    \/ Rest

\* Every thread is scheduled.
ExpansionSpec ==
    /\ ExpansionInit /\ [][ExpansionNext]_expansionVars
    /\ \A t \in Threads : WF_expansionVars(Step(t))

-----------------------------------------------------------------------------
\* The guards held by the threads that use a counter, <<t, n>> for the n-th of t.
Held(c) == UNION {{t} \X (1 .. guards[t]) :
                      t \in {u \in Threads : CounterOf(u) = c}}

\* The counter is exactly the number of guards that are held, by whichever
\* threads, on success, failure and refusal alike: it neither leaks a level,
\* which would in time refuse every document, nor loses one, which would lift
\* the bound.
CounterExact == \A c \in Counters : depth[c] = Cardinality(Held(c))

\* No thread ever nests expansions deeper than the cap, however the threads
\* that share a counter interleave: this is what bounds the native stack.
NestingCapped == \A t \in Threads : guards[t] <= Cap

\* So the depth counter bounds what it is there to bound.
NestingBounded == CounterExact /\ NestingCapped

\* With thread-local counters a document is refused only for its own depth.
RefusedForOwnDepth ==
    ~ shared => \A t \in Threads : refusedAt[t] <= Cap => refusedAt[t] = Cap

\* The registry a thread has loaded and is about to search was not freed by a
\* later set_type_registry.
LoadedIsLive ==
    \A t \in Threads :
        At(t, "lookup") /\ ptr[t] # Null => <<ptr[t], JsonAny>> \in live

\* As long as no two calls overlap, a call that returned has installed its whole
\* registry: JSON and text, types and extensions come from the same one.
InstalledWhole ==
    ~ overlap /\ (\A i \in Installers : ~ Installing(i)) =>
        \A s, u \in Slots : global[s] = global[u]

\* Every document is written or refused in the end, and then no level is left
\* behind in any counter.
Drains == <>[](AllDone /\ \A c \in Counters : depth[c] = 0)
=============================================================================
