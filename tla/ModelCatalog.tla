---------------------------- MODULE ModelCatalog ----------------------------
(***************************************************************************)
(* The configuration (config.go) and the model catalogue built from it     *)
(* (agy.go): host calls that list models, resolve a model name or          *)
(* reconfigure the plugin, all at the same time.                           *)
(*                                                                         *)
(* A discovery holds the catalogue's mutex while `agy models` runs, and a  *)
(* catalogue is served again for a minute to any request with the same     *)
(* binary.  Its content is abstracted to where it came from: the binary,   *)
(* the working directory it ran in, and whether the listing was complete   *)
(* (it is not when agy fails, prints half of it or is killed after 15 s;   *)
(* discoverModels looks at none of that).                                  *)
(***************************************************************************)
EXTENDS Naturals

CONSTANTS
    Threads,      \* the host's calling threads
    Binaries,     \* values of binary_path
    Dirs,         \* values of workdir
    NoBinary,     \* the empty binary path of an invalid catalogue
    NoThread,     \* nobody holds the mutex
    TTL,          \* the minute a catalogue lives, in ticks
    MaxChanges    \* bound: how often the plugin is reconfigured

ASSUME BinariesAssumption == NoBinary \notin Binaries
ASSUME ThreadsAssumption  == NoThread \notin Threads
ASSUME BoundsAssumption   == TTL \in Nat \ {0} /\ MaxChanges \in Nat

Config == [bin : Binaries, dir : Dirs]

\* What discoverModels stores: models and nativeByID always come together.
Content == [bin : Binaries, dir : Dirs, complete : BOOLEAN]
NoContent == [bin |-> NoBinary]

VARIABLES
    config,        \* configState.value
    changes,       \* how often it was set
    lock,          \* the holder of modelCatalog's mutex
    age,           \* ticks since fetchedAt; TTL stands for all older times
    binaryPath,    \* modelCatalog.binaryPath
    content,       \* modelCatalog.models and modelCatalog.nativeByID
    healthy,       \* whether `agy models` works
    pc, cfg,       \* where a thread is, and the configuration it read
    got,           \* the catalogue a thread's call was answered from
    overlapped     \* the calls that met a reconfiguration, or a call of another binary

catalog == <<age, binaryPath, content>>
vars    == <<config, changes, lock, catalog, healthy, pc, cfg, got, overlapped>>

Control == {"idle", "invalidate", "list", "resolve", "fetchList", "fetchResolve",
            "lookup", "listed", "resolved"}

\* A thread in a discovery, and in the fetch it makes with the mutex held.
Discovering == {"list", "resolve"}
Fetching    == {"fetchList", "fetchResolve"}

\* A thread in a call that lists or resolves.
Calling == Control \ {"idle", "invalidate"}

Init ==
    /\ config \in Config /\ changes = 0
    /\ lock = NoThread
    /\ age = TTL /\ binaryPath = NoBinary /\ content = NoContent
    /\ healthy \in BOOLEAN
    /\ pc = [t \in Threads |-> "idle"]
    /\ cfg = [t \in Threads |-> config]
    /\ got = [t \in Threads |-> NoContent]
    /\ overlapped = {}

Goto(t, to) == pc' = [pc EXCEPT ![t] = to]

\* What a discovery does with its catalogue: a listing returns it, a resolution
\* drops it and looks into the shared one later.
Answer(t, how, value) ==
    /\ Goto(t, IF how = "list" THEN "listed" ELSE "lookup")
    /\ got' = [got EXCEPT ![t] = value]

-----------------------------------------------------------------------------

\* setConfig, first half: the value, under configState's own lock.
SetConfig(t) ==
    /\ pc[t] = "idle"
    /\ changes < MaxChanges
    /\ config' \in Config
    /\ changes' = changes + 1
    /\ Goto(t, "invalidate")
    /\ overlapped' = {s \in Threads : pc[s] \in Calling}
    /\ UNCHANGED <<lock, catalog, healthy, cfg, got>>

\* setConfig, second half: invalidateModels, which waits for a discovery.
InvalidateModels(t) ==
    /\ pc[t] = "invalidate"
    /\ lock = NoThread
    /\ age' = TTL /\ binaryPath' = NoBinary /\ content' = NoContent
    /\ Goto(t, "idle")
    /\ UNCHANGED <<config, changes, lock, healthy, cfg, got, overlapped>>

\* Mutant: the call keeps the binary and forgets the rest.
ReadBinary(t) ==
    /\ pc[t] = "idle"
    /\ \E how \in Discovering : Goto(t, how)
    /\ cfg' = [cfg EXCEPT ![t] = [bin |-> config.bin]]
    /\ UNCHANGED <<config, changes, lock, catalog, healthy, got, overlapped>>

\* A reconfiguration that has still to clear the catalogue, or a call that was
\* configured with another binary, is under way.
OthersUnderWay ==
    \E s \in Threads : pc[s] = "invalidate" \/ (pc[s] \in Calling /\ cfg[s].bin # config.bin)

\* A call reads the configuration once and keeps its copy.
ReadConfig(t) ==
    /\ pc[t] = "idle"
    /\ \E how \in Discovering : Goto(t, how)
    /\ cfg' = [cfg EXCEPT ![t] = config]
    /\ overlapped' = IF OthersUnderWay THEN overlapped \union {t} ELSE overlapped
    /\ UNCHANGED <<config, changes, lock, catalog, healthy, got>>

\* Mutant: the catalogue of any binary will do.
AnyHit(t) == age < TTL /\ content # NoContent

CacheHit(t) == binaryPath = cfg[t].bin /\ age < TTL /\ content # NoContent

\* Mutant: a hit starts the minute again.
HitRefreshes(t) ==
    /\ pc[t] \in Discovering
    /\ lock = NoThread
    /\ CacheHit(t)
    /\ Answer(t, pc[t], content)
    /\ age' = 0
    /\ UNCHANGED <<config, changes, lock, binaryPath, content, healthy, cfg, overlapped>>

\* discoverModels answers from the cache.
Hit(t) ==
    /\ pc[t] \in Discovering
    /\ lock = NoThread
    /\ CacheHit(t)
    /\ Answer(t, pc[t], content)
    /\ UNCHANGED <<config, changes, lock, catalog, healthy, cfg, overlapped>>

\* Mutant: the catalogue is cleared, and the mutex released while agy runs.
FetchUnlocked(t) ==
    /\ pc[t] \in Discovering
    /\ lock = NoThread
    /\ ~CacheHit(t)
    /\ content' = NoContent
    /\ Goto(t, IF pc[t] = "list" THEN "fetchList" ELSE "fetchResolve")
    /\ UNCHANGED <<config, changes, lock, age, binaryPath, healthy, cfg, got, overlapped>>

\* discoverModels starts `agy models` and keeps the mutex.
StartFetch(t) ==
    /\ pc[t] \in Discovering
    /\ lock = NoThread
    /\ ~CacheHit(t)
    /\ lock' = t
    /\ Goto(t, IF pc[t] = "list" THEN "fetchList" ELSE "fetchResolve")
    /\ UNCHANGED <<config, changes, catalog, healthy, cfg, got, overlapped>>

\* Mutant: the mutex is not released.
StoreKeepsLock(t) ==
    /\ pc[t] \in Fetching
    /\ content' = [bin |-> cfg[t].bin, dir |-> cfg[t].dir, complete |-> healthy]
    /\ binaryPath' = cfg[t].bin
    /\ age' = 0
    /\ Answer(t, IF pc[t] = "fetchList" THEN "list" ELSE "resolve", content')
    /\ UNCHANGED <<config, changes, lock, healthy, cfg, overlapped>>

\* Whatever came back is stored as the catalogue of the minute.
Store(t) ==
    /\ pc[t] \in Fetching
    /\ \E complete \in {healthy, TRUE} :
          content' = [bin |-> cfg[t].bin, dir |-> cfg[t].dir, complete |-> complete]
    /\ binaryPath' = cfg[t].bin
    /\ age' = 0
    /\ lock' = NoThread
    /\ Answer(t, IF pc[t] = "fetchList" THEN "list" ELSE "resolve", content')
    /\ UNCHANGED <<config, changes, healthy, cfg, overlapped>>

\* resolveNativeModel takes the mutex again and looks into whatever is there.
Lookup(t) ==
    /\ pc[t] = "lookup"
    /\ lock = NoThread
    /\ Goto(t, "resolved")
    /\ got' = [got EXCEPT ![t] = content]
    /\ UNCHANGED <<config, changes, lock, catalog, healthy, cfg, overlapped>>

Return(t) ==
    /\ pc[t] \in {"listed", "resolved"}
    /\ Goto(t, "idle")
    /\ got' = [got EXCEPT ![t] = NoContent]
    /\ overlapped' = overlapped \ {t}
    /\ UNCHANGED <<config, changes, lock, catalog, healthy, cfg>>

Tick ==
    /\ age < TTL
    /\ age' = age + 1
    /\ UNCHANGED <<config, changes, lock, binaryPath, content, healthy, pc, cfg, got, overlapped>>

\* agy gets or loses what `agy models` needs: a login, the network, time.
AgyChanges ==
    /\ healthy' = ~healthy
    /\ UNCHANGED <<config, changes, lock, catalog, pc, cfg, got, overlapped>>

Step(t) == \/ InvalidateModels(t) \/ Hit(t) \/ StartFetch(t) \/ Store(t)
           \/ Lookup(t) \/ Return(t)

Next ==
    \/ \E t \in Threads : SetConfig(t) \/ ReadConfig(t) \/ Step(t)
    \/ Tick
    \/ AgyChanges

Spec == Init /\ [][Next]_vars

\* A thread that waits for the mutex gets it: Go's mutex hands itself over to a
\* waiter that starves.  `agy models` is killed after 15 seconds, and time passes.
Fairness ==
    /\ \A t \in Threads : SF_vars(Step(t))
    /\ WF_vars(Tick)

FairSpec == Spec /\ Fairness

-----------------------------------------------------------------------------
(* Properties. *)

\* Every variable has its type.
TypeOK ==
    /\ config \in Config
    /\ changes \in 0 .. MaxChanges
    /\ lock \in Threads \union {NoThread}
    /\ age \in 0 .. TTL
    /\ binaryPath \in Binaries \union {NoBinary}
    /\ content \in Content \union {NoContent}
    /\ healthy \in BOOLEAN
    /\ pc \in [Threads -> Control]
    /\ cfg \in [Threads -> Config]
    /\ got \in [Threads -> Content \union {NoContent}]
    /\ overlapped \subseteq Threads

\* A discovery answers from the catalogue of the binary its call was configured
\* with, whatever other calls store or invalidate meanwhile.
AnswersMatchBinary ==
    \A t \in Threads : pc[t] \in {"listed", "lookup"} => got[t].bin = cfg[t].bin

\* A resolution looks into a catalogue of its own binary, however many calls
\* discover, expire and fetch at once and whatever was configured before: only a
\* reconfiguration, or a call of another binary, that runs at the same time can put
\* another catalogue there, or none, between the discovery and the lookup.
ResolvesFromItsCatalogue ==
    \A t \in Threads \ overlapped : pc[t] = "resolved" => got[t].bin = cfg[t].bin

\* Every call returns: nobody waits for the mutex for ever.
CallsReturn == \A t \in Threads : pc[t] # "idle" ~> pc[t] = "idle"

\* A stale catalogue (another binary's, another directory's or an incomplete
\* one) is served for a minute at most: once agy works for good and the last
\* reconfiguration is over, all that is served is right.
CatalogueHeals ==
    <>[]healthy =>
        <>[](age < TTL => content = [bin |-> config.bin, dir |-> config.dir, complete |-> TRUE])

-----------------------------------------------------------------------------
(* The inductive invariant. *)

\* The mutex is held by the one thread that fetches.
OneFetch == \A t \in Threads : pc[t] \in Fetching <=> lock = t

\* The key of the catalogue is the binary it came from.
KeyMatches == content.bin = binaryPath

Inv ==
    /\ TypeOK
    /\ OneFetch
    /\ KeyMatches
    /\ AnswersMatchBinary

\* A call that overlaps with nothing has the configuration in force, as has every
\* other call the binary, nobody is about to clear the catalogue, and what its
\* lookup will find is there.
LeftAlone ==
    \A t \in Threads \ overlapped : pc[t] \in Calling =>
        /\ cfg[t].bin = config.bin
        /\ \A s \in Threads : /\ pc[s] # "invalidate"
                              /\ pc[s] \in Calling => cfg[s].bin = config.bin
        /\ pc[t] = "lookup" => content.bin = cfg[t].bin

Undisturbed == LeftAlone /\ ResolvesFromItsCatalogue
=============================================================================
