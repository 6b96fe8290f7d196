----------------------------- MODULE ModelNames -----------------------------
(***************************************************************************)
(* Names of models and what agy.go reads off them.                         *)
(*                                                                         *)
(* A model is known by a slug (gemini-3.8-flash-high) or by a label        *)
(* (Gemini 3.8 Flash (High)); either is a base and, perhaps, an effort.    *)
(* Letters, blanks and the spelling of a base are abstracted away, and the *)
(* prefixes agy/ and antigravity/ of a requested name are taken off.       *)
(***************************************************************************)
EXTENDS Naturals, Sequences

CONSTANTS
    Bases,      \* the model families, without an effort
    Gemini,     \* those named gemini-...
    GptOss,     \* those named gpt-oss-...
    Claude      \* those named claude-...

ASSUME FamiliesAssumption ==
    /\ Gemini \union GptOss \union Claude \subseteq Bases
    /\ Gemini \intersect GptOss = {} /\ Gemini \intersect Claude = {}
    /\ GptOss \intersect Claude = {}
ASSUME BasesAssumption == "" \notin Bases

Effort == {"low", "medium", "high"}

\* What may stand where an effort is expected; "" is nothing, "bogus" is
\* anything else.
RawEffort == Effort \union {"", "med", "bogus"}

Name == [form : {"slug", "label"}, base : Bases, effort : Effort \union {"", "med"}]

\* No name at all: agy's own default model.
NoName == [form |-> "none", base |-> "", effort |-> ""]

-----------------------------------------------------------------------------

\* normalizeEffort
NormalizeEffort(raw) ==
    IF raw \in Effort THEN raw ELSE IF raw = "med" THEN "medium" ELSE ""

\* extractEffortSuffix: a label ends in a parenthesis, so it has no suffix.
EffortSuffix(name) == IF name.form = "slug" THEN NormalizeEffort(name.effort) ELSE ""

\* stripEffortSuffix
StripEffort(name) == IF name.form = "slug" THEN [name EXCEPT !.effort = ""] ELSE name

\* stripEffortLabel and humanizeModelName: how a slug is shown.
Label(slug) == [slug EXCEPT !.form = "label", !.effort = NormalizeEffort(@)]

\* supportsEffort and defaultEffortForModel look at the beginning of a slug.
SupportsEffort(name) == ~(name.form = "slug" /\ name.base \in Claude)

DefaultEffort(name) ==
    CASE name.form = "slug" /\ name.base \in GptOss -> "medium"
      [] name.form = "slug" /\ name.base \in Gemini -> "high"
      [] OTHER -> ""

-----------------------------------------------------------------------------
(* The mapping from the names a request may use to those agy knows.        *)
(*                                                                         *)
(* Its keys are names, with the prefix agy/ or without.  The entries with  *)
(* the prefix antigravity/ are never read and are left out.                *)

Key == [prefixed : BOOLEAN, name : Name]

Plain(name) == [prefixed |-> FALSE, name |-> name]
AgyId(name) == [prefixed |-> TRUE, name |-> name]

\* A line of `agy models`: a slug with its label, or (an older agy) the label.
\* In both cases `slug' is the slug that the line ends up with.  GPT-OSS has no
\* label lines: the hyphen makes the first word of one pass for a slug.
ListingLine ==
    {line \in [slug : {n \in Name : n.form = "slug"}, kind : {"slug", "label"}] :
        line.kind = "label" => line.slug.base \notin GptOss}

NativeOf(line) == IF line.kind = "slug" THEN line.slug ELSE Label(line.slug)

\* The assignments of over, and those of base for the other keys.
Override(base, over) ==
    [k \in DOMAIN base \union DOMAIN over |-> IF k \in DOMAIN over THEN over[k] ELSE base[k]]

\* The first slug of a name brings the names that stand for it.
AddName(parsed, id, native) ==
    IF id \in parsed.ids THEN parsed
    ELSE [ids    |-> parsed.ids \union {id},
          native |-> Override(parsed.native,
                              [k \in {AgyId(id), Plain(Label(id))} |-> native])]

\* One line in parseAgyModelLines: a slug brings its base along.
AddLine(parsed, line) ==
    LET base  == StripEffort(line.slug)
        added == AddName(parsed, line.slug, NativeOf(line))
    IN  IF base = line.slug THEN added ELSE AddName(added, base, base)

\* parseAgyModelLines: the ids it lists and the mapping it returns.
Parse(listing) ==
    LET upTo[i \in 0 .. Len(listing)] ==
            IF i = 0 THEN [ids |-> {}, native |-> << >>]
            ELSE AddLine(upTo[i - 1], listing[i])
    IN  upTo[Len(listing)]

\* Mutant: the base stands for the native name with its suffix.
AssignmentsUnstripped(id, native) ==
    [k \in {id} \union {AgyId(StripEffort(id.name)), Plain(StripEffort(id.name))} |-> native]

\* The assignments discoverModels makes for one entry of that mapping.
Assignments(id, native) ==
    LET base == StripEffort(id.name)
    IN  [k \in {id, Plain(id.name)}
               \union (IF base = id.name THEN {} ELSE {AgyId(base), Plain(base)})
           |-> IF k.name = id.name THEN native ELSE StripEffort(native)]

\* resolveNativeModel: the name itself when the mapping does not know it.
NativeName(nativeByID, name) ==
    LET known == {k \in {Plain(name), AgyId(name)} : k \in DOMAIN nativeByID}
    IN  IF name = NoName \/ known = {} THEN name
        ELSE nativeByID[IF Plain(name) \in known THEN Plain(name) ELSE AgyId(name)]
=============================================================================
