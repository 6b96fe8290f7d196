------------------------- MODULE ModelCatalogProofs -------------------------
(***************************************************************************)
(* Proofs about ModelCatalog, for every set of threads, binaries and       *)
(* directories and for every lifetime of the catalogue.                    *)
(***************************************************************************)
EXTENDS ModelCatalog, TLAPS

Stored == Content \union {NoContent}

\* The type of everything but the flag healthy, which no step reads as data.
StateOK ==
    /\ config \in Config
    /\ changes \in 0 .. MaxChanges
    /\ lock \in Threads \union {NoThread}
    /\ age \in 0 .. TTL
    /\ binaryPath \in Binaries \union {NoBinary}
    /\ content \in Stored
    /\ pc \in [Threads -> Control]
    /\ cfg \in [Threads -> Config]
    /\ got \in [Threads -> Stored]
    /\ overlapped \subseteq Threads

LEMMA TypeSplit == TypeOK <=> StateOK /\ healthy \in BOOLEAN
  BY DEF TypeOK, StateOK, Stored

\* A fetch stores a catalogue of the configuration its thread read.
LEMMA StoreContent ==
    ASSUME StateOK, healthy \in BOOLEAN, NEW t \in Threads, Store(t)
    PROVE  /\ content' \in Content
           /\ content'.bin = cfg[t].bin
           /\ cfg[t].bin \in Binaries
<1>1. cfg[t] \in Config
  BY DEF StateOK
<1>2. cfg[t].bin \in Binaries /\ cfg[t].dir \in Dirs
  BY <1>1 DEF Config
<1>3. PICK b \in {healthy, TRUE} :
         content' = [bin |-> cfg[t].bin, dir |-> cfg[t].dir, complete |-> b]
  BY DEF Store
<1>4. b \in BOOLEAN
  OBVIOUS
<1>5. QED
  BY <1>2, <1>3, <1>4 DEF Content

LEMMA StateStep ==
    ASSUME StateOK, healthy \in BOOLEAN, [Next]_vars
    PROVE  StateOK'
<1>. USE DEF catalog, Goto, Answer, Discovering, Fetching
<1>0. NoContent \in Stored
  BY DEF Stored
<1>1. ASSUME NEW t \in Threads, SetConfig(t) PROVE StateOK'
  BY <1>1, BoundsAssumption DEF SetConfig, StateOK, Control
<1>2. ASSUME NEW t \in Threads, ReadConfig(t) PROVE StateOK'
  BY <1>2 DEF ReadConfig, StateOK, Control
<1>3. ASSUME NEW t \in Threads, InvalidateModels(t) PROVE StateOK'
  BY <1>0, <1>3, BoundsAssumption DEF InvalidateModels, StateOK, Control
<1>4. ASSUME NEW t \in Threads, Hit(t) PROVE StateOK'
  BY <1>4 DEF Hit, StateOK, Control
<1>5. ASSUME NEW t \in Threads, StartFetch(t) PROVE StateOK'
  BY <1>5 DEF StartFetch, StateOK, Control
<1>6. ASSUME NEW t \in Threads, Store(t) PROVE StateOK'
  <2>1. content' \in Stored /\ cfg[t].bin \in Binaries
    BY <1>6, StoreContent DEF Stored
  <2>2. QED
    BY <1>6, <2>1, BoundsAssumption DEF Store, StateOK, Control
<1>7. ASSUME NEW t \in Threads, Lookup(t) \/ Return(t) PROVE StateOK'
  BY <1>0, <1>7 DEF Lookup, Return, StateOK, Control
<1>8. CASE Tick \/ AgyChanges \/ UNCHANGED vars
  BY <1>8, BoundsAssumption DEF Tick, AgyChanges, vars, StateOK
<1>9. QED
  BY <1>1, <1>2, <1>3, <1>4, <1>5, <1>6, <1>7, <1>8 DEF Next, Step

LEMMA HealthyStep ==
    ASSUME healthy \in BOOLEAN, [Next]_vars
    PROVE  healthy' \in BOOLEAN
<1>1. healthy' = healthy \/ healthy' = ~healthy
  BY DEF Next, Step, SetConfig, ReadConfig, InvalidateModels, Hit, StartFetch, Store, Lookup,
     Return, Tick, AgyChanges, vars
<1>2. QED
  BY <1>1

LEMMA TypeStep == TypeOK /\ [Next]_vars => TypeOK'
<1>. SUFFICES ASSUME TypeOK, [Next]_vars PROVE TypeOK'
  OBVIOUS
<1>1. StateOK /\ healthy \in BOOLEAN
  BY TypeSplit
<1>2. StateOK' /\ healthy' \in BOOLEAN
  BY <1>1, StateStep, HealthyStep
<1>3. QED
  BY <1>2 DEF TypeOK, StateOK, Stored

LEMMA TypeInit == Init => TypeOK
<1>. SUFFICES ASSUME Init PROVE TypeOK
  OBVIOUS
<1>1. StateOK
  BY BoundsAssumption DEF Init, StateOK, Stored, Control
<1>2. healthy \in BOOLEAN
  BY DEF Init
<1>3. QED
  BY <1>1, <1>2, TypeSplit

\* Every variable of the catalogue and its callers keeps its type.
THEOREM TypeCorrect == Spec => []TypeOK
  BY TypeInit, TypeStep, PTL DEF Spec

-----------------------------------------------------------------------------

LEMMA InvInit == Init => Inv
<1>. SUFFICES ASSUME Init PROVE Inv
  OBVIOUS
<1>1. OneFetch /\ KeyMatches /\ AnswersMatchBinary
  BY ThreadsAssumption DEF Init, OneFetch, KeyMatches, AnswersMatchBinary, NoContent, Fetching
<1>2. QED
  BY <1>1, TypeInit DEF Inv

LEMMA InvStep ==
    ASSUME Inv, [Next]_vars
    PROVE  OneFetch' /\ KeyMatches' /\ AnswersMatchBinary'
<1>. USE DEF catalog, Goto, Answer, Discovering, Fetching
<1>0. StateOK /\ healthy \in BOOLEAN /\ OneFetch /\ KeyMatches /\ AnswersMatchBinary
  BY TypeSplit DEF Inv
<1>1. ASSUME NEW t \in Threads, SetConfig(t) \/ ReadConfig(t)
      PROVE  OneFetch' /\ KeyMatches' /\ AnswersMatchBinary'
  BY <1>0, <1>1 DEF SetConfig, ReadConfig, StateOK, OneFetch, KeyMatches, AnswersMatchBinary
<1>2. ASSUME NEW t \in Threads, InvalidateModels(t)
      PROVE  OneFetch' /\ KeyMatches' /\ AnswersMatchBinary'
  BY <1>0, <1>2 DEF InvalidateModels, StateOK, OneFetch, KeyMatches, AnswersMatchBinary, NoContent
<1>3. ASSUME NEW t \in Threads, Hit(t)
      PROVE  OneFetch' /\ KeyMatches' /\ AnswersMatchBinary'
  <2>1. content.bin = cfg[t].bin
    BY <1>0, <1>3 DEF Hit, CacheHit, KeyMatches
  <2>2. pc[t] \notin Fetching
    BY <1>3 DEF Hit
  <2>3. QED
    BY <1>0, <1>3, <2>1, <2>2 DEF Hit, StateOK, OneFetch, KeyMatches, AnswersMatchBinary
<1>4. ASSUME NEW t \in Threads, StartFetch(t)
      PROVE  OneFetch' /\ KeyMatches' /\ AnswersMatchBinary'
  <2>1. lock = NoThread /\ t # NoThread /\ lock' = t
    BY <1>4, ThreadsAssumption DEF StartFetch
  <2>2. \A s \in Threads : pc[s] \notin Fetching
    BY <1>0, <2>1, ThreadsAssumption DEF OneFetch
  <2>3. QED
    BY <1>0, <1>4, <2>1, <2>2 DEF StartFetch, StateOK, OneFetch, KeyMatches, AnswersMatchBinary
<1>5. ASSUME NEW t \in Threads, Store(t)
      PROVE  OneFetch' /\ KeyMatches' /\ AnswersMatchBinary'
  <2>1. content'.bin = cfg[t].bin /\ binaryPath' = cfg[t].bin /\ lock' = NoThread
    BY <1>0, <1>5, StoreContent DEF Store
  <2>2. pc' = [pc EXCEPT ![t] = pc'[t]] /\ pc'[t] \in {"listed", "lookup"}
        /\ got' = [got EXCEPT ![t] = content'] /\ cfg' = cfg
    BY <1>0, <1>5 DEF Store, StateOK
  <2>3. lock = t
    BY <1>0, <1>5 DEF Store, OneFetch
  <2>4. OneFetch'
    BY <1>0, <2>1, <2>2, <2>3, ThreadsAssumption DEF OneFetch, StateOK
  <2>5. KeyMatches'
    BY <2>1 DEF KeyMatches
  <2>6. AnswersMatchBinary'
    BY <1>0, <2>1, <2>2 DEF AnswersMatchBinary, StateOK
  <2>7. QED
    BY <2>4, <2>5, <2>6
<1>6. ASSUME NEW t \in Threads, Lookup(t) \/ Return(t)
      PROVE  OneFetch' /\ KeyMatches' /\ AnswersMatchBinary'
  BY <1>0, <1>6 DEF Lookup, Return, StateOK, OneFetch, KeyMatches, AnswersMatchBinary
<1>7. CASE Tick \/ AgyChanges \/ UNCHANGED vars
  BY <1>0, <1>7 DEF Tick, AgyChanges, vars, OneFetch, KeyMatches, AnswersMatchBinary
<1>8. QED
  BY <1>1, <1>2, <1>3, <1>4, <1>5, <1>6, <1>7 DEF Next, Step

\* The inductive invariant holds throughout.
THEOREM Invariant == Spec => []Inv
<1>1. Inv /\ [Next]_vars => Inv'
  BY InvStep, TypeStep DEF Inv
<1>2. QED
  BY <1>1, InvInit, PTL DEF Spec

\* A discovery answers from the catalogue of the binary its call read.
THEOREM DiscoveryMatchesBinary == Spec => []AnswersMatchBinary
<1>1. Inv => AnswersMatchBinary
  BY DEF Inv
<1>2. QED
  BY <1>1, Invariant, PTL

-----------------------------------------------------------------------------
(* Calls that nothing of another configuration overlaps. *)

LEMMA UndisturbedInit == Init => Undisturbed
  BY DEF Init, Undisturbed, LeftAlone, ResolvesFromItsCatalogue, Calling, Control

LEMMA UndisturbedStep ==
    ASSUME Inv, Undisturbed, [Next]_vars
    PROVE  Undisturbed'
<1>. USE DEF catalog, Goto, Answer, Discovering, Fetching, Calling, Control,
             Undisturbed, LeftAlone, ResolvesFromItsCatalogue
<1>0. StateOK /\ healthy \in BOOLEAN /\ KeyMatches
  BY TypeSplit DEF Inv
<1>1. ASSUME NEW t \in Threads, SetConfig(t) PROVE Undisturbed'
  BY <1>0, <1>1 DEF SetConfig, StateOK
<1>2. ASSUME NEW t \in Threads, ReadConfig(t) PROVE Undisturbed'
  BY <1>0, <1>2 DEF ReadConfig, OthersUnderWay, StateOK
<1>3. ASSUME NEW t \in Threads, InvalidateModels(t) PROVE Undisturbed'
  BY <1>0, <1>3 DEF InvalidateModels, StateOK
<1>4. ASSUME NEW t \in Threads, Hit(t) PROVE Undisturbed'
  <2>1. content.bin = cfg[t].bin
    BY <1>0, <1>4 DEF Hit, CacheHit, KeyMatches
  <2> QED
    BY <1>0, <1>4, <2>1 DEF Hit, StateOK
<1>5. ASSUME NEW t \in Threads, StartFetch(t) PROVE Undisturbed'
  BY <1>0, <1>5 DEF StartFetch, StateOK
<1>6. ASSUME NEW t \in Threads, Store(t) PROVE Undisturbed'
  <2>1. content'.bin = cfg[t].bin
    BY <1>0, <1>6, StoreContent
  <2>2. /\ pc[t] \in Fetching
        /\ pc' = [pc EXCEPT ![t] = pc'[t]] /\ pc'[t] \in {"listed", "lookup"}
        /\ got' = [got EXCEPT ![t] = content'] /\ cfg' = cfg /\ config' = config
        /\ overlapped' = overlapped
    BY <1>0, <1>6 DEF Store, StateOK
  <2> QED
    BY <1>0, <2>1, <2>2 DEF StateOK
<1>7. ASSUME NEW t \in Threads, Lookup(t) PROVE Undisturbed'
  BY <1>0, <1>7 DEF Lookup, StateOK
<1>8. ASSUME NEW t \in Threads, Return(t) PROVE Undisturbed'
  BY <1>0, <1>8 DEF Return, StateOK
<1>9. CASE Tick \/ AgyChanges \/ UNCHANGED vars
  BY <1>9 DEF Tick, AgyChanges, vars
<1>10. QED
  BY <1>1, <1>2, <1>3, <1>4, <1>5, <1>6, <1>7, <1>8, <1>9 DEF Next, Step

\* A resolution that overlaps with no reconfiguration and no call of another binary
\* looks into a catalogue of its own binary, never into a foreign or an empty one.
THEOREM ResolutionMatches == Spec => []ResolvesFromItsCatalogue
<1>1. Undisturbed => ResolvesFromItsCatalogue
  BY DEF Undisturbed
<1>2. Init => Undisturbed
  BY UndisturbedInit
<1>3. Inv /\ Undisturbed /\ [Next]_vars => Undisturbed'
  BY UndisturbedStep
<1>4. QED
  BY <1>1, <1>2, <1>3, Invariant, PTL DEF Spec
=============================================================================
