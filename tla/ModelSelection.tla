--------------------------- MODULE ModelSelection ---------------------------
(***************************************************************************)
(* From the model and the effort a request asks for to the flags of agy:   *)
(* discoverModels builds the mapping out of what `agy models` lists, in    *)
(* the order in which Go walks a map, which is any order; then             *)
(* resolveExecutionOptions and agyArgs choose --model and --effort.        *)
(***************************************************************************)
EXTENDS ModelNames

CONSTANTS
    Builtin,     \* the slugs that are known without agy (none spells medium "med")
    Listings,    \* what `agy models` may print
    Requests,    \* the requests
    Configured   \* values of reasoning_effort in the configuration

\* The places a request may name an effort in, besides the model's own suffix.
Request == [model : Name \union {NoName}, colon : RawEffort, payload : RawEffort,
            agyHeader : RawEffort, header : RawEffort,
            reasoningMeta : RawEffort, effortMeta : RawEffort]

ASSUME BuiltinAssumption    == Builtin \subseteq {n \in Name : n.form = "slug" /\ n.effort # "med"}
ASSUME ListingsAssumption   == Listings \subseteq Seq(ListingLine)
ASSUME RequestsAssumption   == Requests \subseteq Request
ASSUME ConfiguredAssumption == Configured \subseteq Effort \union {""}

VARIABLES
    listing, request, configured,   \* fixed when the request comes
    todo,        \* the entries of the parsed mapping not walked yet
    nativeByID,  \* the mapping as far as it is built
    pc,
    flags        \* what agy is given

inputs == <<listing, request, configured>>
vars   == <<inputs, todo, nativeByID, pc, flags>>

Listed == Parse(listing)

\* The mapping discoverModels starts from.
BuiltinNative ==
    [k \in {Plain(s) : s \in Builtin} \union {Plain(Label(s)) : s \in Builtin}
       |-> [k.name EXCEPT !.form = "slug"]]

NoFlags == [model |-> NoName, effort |-> ""]

Init ==
    /\ listing \in Listings /\ request \in Requests /\ configured \in Configured
    /\ todo = DOMAIN Listed.native
    /\ nativeByID = BuiltinNative
    /\ pc = "discover"
    /\ flags = NoFlags

-----------------------------------------------------------------------------
(* The effort: the first place that names one. *)

FirstOf(efforts) ==
    LET first == {i \in DOMAIN efforts :
                     efforts[i] # "" /\ \A j \in 1 .. (i - 1) : efforts[j] = ""}
    IN  IF first = {} THEN "" ELSE efforts[CHOOSE i \in first : TRUE]

\* What is left of the requested name once its suffix has been read.
BaseModel == StripEffort(request.model)

\* Mutant: the configuration is asked before headers and metadata.
EffortConfigFirst ==
    LET effort == FirstOf(<<
            NormalizeEffort(request.colon), EffortSuffix(request.model),
            NormalizeEffort(request.payload), configured,
            NormalizeEffort(FirstOf(<<request.agyHeader, request.header>>)),
            NormalizeEffort(FirstOf(<<request.reasoningMeta, request.effortMeta>>)),
            DefaultEffort(BaseModel)>>)
    IN  IF SupportsEffort(BaseModel) THEN effort ELSE ""

\* resolveExecutionOptions.  Of the two headers, and of the two metadata fields,
\* the first that is there counts, even if what it says is no effort.
ReasoningEffort ==
    LET effort == FirstOf(<<
            NormalizeEffort(request.colon), EffortSuffix(request.model),
            NormalizeEffort(request.payload),
            NormalizeEffort(FirstOf(<<request.agyHeader, request.header>>)),
            NormalizeEffort(FirstOf(<<request.reasoningMeta, request.effortMeta>>)),
            configured, DefaultEffort(BaseModel)>>)
    IN  IF SupportsEffort(BaseModel) THEN effort ELSE ""

\* Mutant: a model keeps its suffix beside the effort.
ModelUnguarded(native) == native

\* agyArgs: a model that names another effort than the one asked for loses it.
ModelFlag(native) ==
    IF EffortSuffix(native) # "" /\ ReasoningEffort # ""
       /\ EffortSuffix(native) # ReasoningEffort
    THEN StripEffort(native) ELSE native

-----------------------------------------------------------------------------

\* The loop of discoverModels takes any entry of the mapping.
MapEntry(id) ==
    /\ pc = "discover"
    /\ id \in todo
    /\ todo' = todo \ {id}
    /\ nativeByID' = Override(nativeByID, Assignments(id, Listed.native[id]))
    /\ UNCHANGED <<inputs, pc, flags>>

\* Mutant: the effort suffix is asked for as a model of its own.
SelectUnstripped ==
    /\ pc = "discover" /\ todo = {}
    /\ LET model == ModelFlag(NativeName(nativeByID, request.model))
       IN  flags' = [model  |-> model,
                     effort |-> IF SupportsEffort(model) THEN ReasoningEffort ELSE ""]
    /\ pc' = "selected"
    /\ UNCHANGED <<inputs, todo, nativeByID>>

Select ==
    /\ pc = "discover" /\ todo = {}
    /\ LET model == ModelFlag(NativeName(nativeByID, BaseModel))
       IN  flags' = [model  |-> model,
                     effort |-> IF SupportsEffort(model) THEN ReasoningEffort ELSE ""]
    /\ pc' = "selected"
    /\ UNCHANGED <<inputs, todo, nativeByID>>

Next == (\E id \in todo : MapEntry(id)) \/ Select

Spec == Init /\ [][Next]_vars

-----------------------------------------------------------------------------
(* Properties. *)

\* Every variable has its type.
TypeOK ==
    /\ listing \in Listings /\ request \in Requests /\ configured \in Configured
    /\ todo \subseteq DOMAIN Listed.native
    /\ DOMAIN nativeByID \subseteq Key
    /\ \A k \in DOMAIN nativeByID : nativeByID[k] \in Name
    /\ pc \in {"discover", "selected"}
    /\ flags \in [model : Name \union {NoName}, effort : Effort \union {""}]

\* agy lists slugs, as it does today; the base of one, and the built-in models,
\* may be listed as well.
SlugListing == \A i \in DOMAIN listing : listing[i].kind = "slug"

Slugs == {listing[i].slug : i \in DOMAIN listing}

\* The slugs agy knows: those listed, their bases, and the built-in ones.
KnownSlugs == Slugs \union {StripEffort(s) : s \in Slugs} \union Builtin

\* In whatever order the mapping was built, a listed slug and its base stand for
\* themselves, and the label of either for a slug that agy knows and that is shown
\* by this label (two are, if agy spells medium in both ways).
ListedNamesResolve ==
    pc = "selected" /\ SlugListing =>
        \A s \in Slugs \union {StripEffort(t) : t \in Slugs} :
            /\ NativeName(nativeByID, s) = s
            /\ LET native == NativeName(nativeByID, Label(s))
               IN  native \in KnownSlugs /\ Label(native) = Label(s)

\* A request that names a slug gets the clean base model and, besides, an effort
\* (README, "routes to the clean base model").
RoutesToBase ==
    pc = "selected" /\ SlugListing /\ request.model.form = "slug" =>
        flags.model = StripEffort(request.model)

\* The effort a model name carries, as a suffix or in its label.
NamedEffort(name) == NormalizeEffort(name.effort)

\* The efforts the request asks for, in whatever place.
Wishes ==
    {NormalizeEffort(e) :
        e \in {request.model.effort, request.colon, request.payload, request.agyHeader,
               request.header, request.reasoningMeta, request.effortMeta}} \ {""}

\* Those the code takes for one: not what a label says, and not what stands behind
\* a header, or a metadata field, that says no effort.
Heard ==
    ({EffortSuffix(request.model)} \union
     {NormalizeEffort(e) :
        e \in {request.colon, request.payload, request.agyHeader, request.reasoningMeta}
              \union (IF request.agyHeader = "bogus" THEN {} ELSE {request.header})
              \union (IF request.reasoningMeta = "bogus" THEN {} ELSE {request.effortMeta})})
    \ {""}

\* The effort in the requested label, which agy gets with the model's name.
LabelEffort == IF request.model.form = "label" THEN NamedEffort(request.model) ELSE ""

\* Nothing is heard, and the label says nothing or the configuration another effort:
\* then the default wins, and takes the label's effort off the model (agy.go:717).
Overruled == Heard = {} /\ (LabelEffort = "" \/ configured \notin {"", LabelEffort})

\* The effort agy is given, by the flag or else by the name of the model.
EffortGiven == IF flags.effort # "" THEN flags.effort ELSE NamedEffort(flags.model)

\* No default, neither the configured one nor the model's, beats an effort that the
\* request asks for, but in the two cases of Overruled; one of those asked for is
\* given to agy, or the model supports none.
WishesBeatDefaults ==
    pc = "selected" /\ Wishes # {} /\ ~Overruled =>
        \/ EffortGiven \in Wishes
        \/ flags.effort = "" /\ ~(SupportsEffort(BaseModel) /\ SupportsEffort(flags.model))

\* While agy lists slugs, it is never given a model of one effort and the flag
\* of another, not even for a label (a listed one) that hides its effort.
FlagsAgree ==
    /\ pc = "selected" /\ SlugListing
    /\ request.model.form = "label" => Plain(request.model) \in DOMAIN Listed.native
    => flags.effort = "" \/ NamedEffort(flags.model) \in {"", flags.effort}

-----------------------------------------------------------------------------
(* Why they hold. *)

\* A name and the slug it may stand for.
StandsFor(name, native) ==
    /\ native \in Name /\ native.form = "slug" /\ native.base = name.base
    /\ IF name.form = "slug" THEN native = name ELSE NamedEffort(native) = name.effort

\* While agy lists slugs, every name the mapping knows stands for the slug it is
\* or shows, so that no order of the walk can put another in its place; agy knows
\* that slug; and what is listed is known or still to be walked.
MappingStands ==
    SlugListing =>
        /\ \A k \in DOMAIN nativeByID :
               StandsFor(k.name, nativeByID[k]) /\ nativeByID[k] \in KnownSlugs
        /\ DOMAIN Listed.native \subseteq DOMAIN nativeByID \union todo

\* Whatever agy lists, a label stands for a name of the effort it shows.
LabelsShow ==
    \A k \in DOMAIN nativeByID :
        k.name.form = "label" => NamedEffort(nativeByID[k]) = k.name.effort

\* The flags are those that follow from the whole mapping.
FlagsFollow ==
    pc = "selected" =>
        /\ todo = {}
        /\ flags.model = ModelFlag(NativeName(nativeByID, BaseModel))
        /\ flags.effort = IF SupportsEffort(flags.model) THEN ReasoningEffort ELSE ""

Inv == TypeOK /\ MappingStands /\ LabelsShow /\ FlagsFollow
=============================================================================
