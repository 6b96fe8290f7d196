--------------------------- MODULE SettingsProofs ---------------------------
(***************************************************************************)
(* What holds of the settings the plugin is given, in two parts: of        *)
(* ModelSelection for any listing of `agy models`, any request and any     *)
(* order in which the mapping is built, and of ConfigFile for any files,   *)
(* with values as long as they like.                                       *)
(*                                                                         *)
(* The idea of the first is MappingStands: while agy lists slugs, a name   *)
(* can only be given the slug that it is or shows, whichever assignment    *)
(* comes last.  That of the second is LineReads: stripping, trimming and   *)
(* unquoting give back the value that was written, in any style.  Both     *)
(* rest on recursions, over the lines of a listing and the characters of   *)
(* a text, so the proofs start with induction over the naturals.           *)
(***************************************************************************)
EXTENDS ModelSelection, ConfigFile, WellFoundedInduction, TLAPS

-----------------------------------------------------------------------------
(* Induction. *)

Before == {p \in Nat \X Nat : p[1] < p[2]}

\* The order of the naturals is well-founded, ...
LEMMA NaturalsWellFounded == IsWellFoundedOn(Before, Nat)
BY NatLessThanWellFounded DEF OpToRel, Before

\* ... so a set of them has a least member, ...
LEMMA LeastMember ==
    ASSUME NEW S \in SUBSET Nat, S # {}
    PROVE  \E m \in S : \A k \in S : m <= k
<1>1. PICK m \in S : \A k \in S : <<k, m>> \notin Before
  BY NaturalsWellFounded, WFMin
<1>2. \A k \in S : ~(k < m)
  BY <1>1 DEF Before
<1> QED
  BY <1>2

\* ... and one that has 0 and every successor has them all.
LEMMA Induction ==
    ASSUME NEW S, 0 \in S, \A n \in Nat : n \in S => n + 1 \in S
    PROVE  Nat \subseteq S
<1> SUFFICES ASSUME Nat \ S # {} PROVE FALSE
  OBVIOUS
<1>1. PICK m \in Nat \ S : \A k \in Nat \ S : m <= k
  BY LeastMember
<1>2. m # 0 /\ m - 1 \in Nat
  BY <1>1
<1>3. m - 1 \in S
  BY <1>1, <1>2
<1>4. (m - 1) + 1 \in S
  BY <1>2, <1>3
<1> QED
  BY <1>1, <1>4

-----------------------------------------------------------------------------
(* Names. *)

\* A record of three fields is told by them.
LEMMA RecordsEqual ==
    ASSUME NEW A, NEW B, NEW C,
           NEW m \in [form : A, base : B, effort : C],
           NEW n \in [form : A, base : B, effort : C],
           m.form = n.form, m.base = n.base, m.effort = n.effort
    PROVE  m = n
OBVIOUS

LEMMA NamesEqual ==
    ASSUME NEW m \in Name, NEW n \in Name,
           m.form = n.form, m.base = n.base, m.effort = n.effort
    PROVE  m = n
<1>1. \E A, B, C : Name = [form : A, base : B, effort : C]
  BY DEF Name
<1> QED
  BY <1>1, RecordsEqual

\* What can be written as an effort is one or none.
LEMMA NormalizeEffortType ==
    /\ \A e : NormalizeEffort(e) \in Effort \union {""}
    /\ \A e \in Effort : NormalizeEffort(e) = e
    /\ NormalizeEffort("") = "" /\ NormalizeEffort("med") = "medium"
BY DEF NormalizeEffort, Effort

\* What is done to a name leaves one.
LEMMA NamesStay ==
    ASSUME NEW n \in Name
    PROVE  /\ StripEffort(n) \in Name /\ Label(n) \in Name
           /\ StripEffort(n).form = n.form /\ StripEffort(n).base = n.base
           /\ n.form = "slug" => StripEffort(n).effort = ""
           /\ StripEffort(StripEffort(n)) = StripEffort(n)
           /\ Label(n).form = "label" /\ Label(n).base = n.base
           /\ Label(n).effort = NormalizeEffort(n.effort)
<1>1. NormalizeEffort(n.effort) \in Effort \union {""}
  BY NormalizeEffortType
<1> QED
  BY <1>1 DEF StripEffort, Label, Name

\* A slug stands for itself and for its label, ...
LEMMA SlugStands ==
    ASSUME NEW s \in Name, s.form = "slug"
    PROVE  StandsFor(s, s) /\ StandsFor(Label(s), s)
BY NamesStay DEF StandsFor, NamedEffort

\* ... and the base of a slug for the base of what the slug stands for.
LEMMA BaseStands ==
    ASSUME NEW s \in Name, NEW native, StandsFor(s, native), StripEffort(s) # s
    PROVE  StandsFor(StripEffort(s), StripEffort(native))
<1>1. s.form = "slug"
  BY DEF StripEffort
<1>2. native = s
  BY <1>1 DEF StandsFor
<1>3. StripEffort(s) \in Name /\ StripEffort(s).form = "slug"
  BY <1>1, NamesStay
<1> QED
  BY <1>2, <1>3, SlugStands

-----------------------------------------------------------------------------
(* Parsing. *)

Nothing == [ids |-> {}, native |-> << >>]

\* The recursion of Parse over the first n lines.
Steps(f, l, n) ==
    f = [i \in 0 .. n |-> IF i = 0 THEN Nothing ELSE AddLine(f[i - 1], l[i])]

\* There is such a function for any number of lines, so Parse follows one.
LEMMA ParseSteps ==
    ASSUME NEW l \in Seq(ListingLine)
    PROVE  \E f : Steps(f, l, Len(l)) /\ Parse(l) = f[Len(l)]
<1> DEFINE S == {n \in Nat : \E f : Steps(f, l, n)}
<1>1. 0 \in S
  <2>1. Steps([i \in 0 .. 0 |-> Nothing], l, 0)
    BY DEF Steps
  <2> QED
    BY <2>1
<1>2. ASSUME NEW n \in Nat, n \in S PROVE n + 1 \in S
  <2>1. PICK f : Steps(f, l, n)
    BY <1>2
  <2> DEFINE g == [i \in 0 .. (n + 1) |-> IF i <= n THEN f[i] ELSE AddLine(f[n], l[n + 1])]
  <2>2. f = [i \in 0 .. n |-> IF i = 0 THEN Nothing ELSE AddLine(f[i - 1], l[i])]
    BY <2>1 DEF Steps
  <2>3. f[0] = Nothing /\ \A i \in 1 .. n : f[i] = AddLine(f[i - 1], l[i])
    BY <2>2
  <2>4. ASSUME NEW i \in 0 .. (n + 1)
        PROVE  g[i] = IF i = 0 THEN Nothing ELSE AddLine(g[i - 1], l[i])
    <3>1. CASE i = 0
      BY <3>1, <2>3
    <3>2. CASE i \in 1 .. n
      <4>1. g[i] = f[i] /\ g[i - 1] = f[i - 1]
        BY <3>2
      <4> QED
        BY <3>2, <4>1, <2>3
    <3>3. CASE i = n + 1
      <4>1. g[i - 1] = f[n]
        BY <3>3
      <4> QED
        BY <3>3, <4>1
    <3> QED
      BY <3>1, <3>2, <3>3
  <2>5. Steps(g, l, n + 1)
    BY <2>4 DEF Steps
  <2> QED
    BY <2>5
<1>3. Len(l) \in S
  <2> HIDE DEF S
  <2>1. \A n \in Nat : n \in S => n + 1 \in S
    BY <1>2
  <2> QED
    BY <1>1, <2>1, Induction
<1> DEFINE upTo == CHOOSE f : Steps(f, l, Len(l))
<1>4. Steps(upTo, l, Len(l))
  BY <1>3
<1>5. Parse(l) = upTo[Len(l)]
  BY DEF Parse, Steps, Nothing
<1> QED
  BY <1>4, <1>5

\* What holds of nothing, and after each line if it held before it, holds of
\* what is parsed.  (P[n] is the set of all that is right after n lines.)
LEMMA ParseKeeps ==
    ASSUME NEW l \in Seq(ListingLine), NEW P,
           Nothing \in P[0],
           \A n \in 1 .. Len(l) : \A p \in P[n - 1] : AddLine(p, l[n]) \in P[n]
    PROVE  Parse(l) \in P[Len(l)]
<1>1. PICK f : Steps(f, l, Len(l)) /\ Parse(l) = f[Len(l)]
  BY ParseSteps
<1>2. f[0] = Nothing /\ \A i \in 1 .. Len(l) : f[i] = AddLine(f[i - 1], l[i])
  BY <1>1 DEF Steps
<1> DEFINE S == {n \in Nat : n <= Len(l) => f[n] \in P[n]}
<1>3. 0 \in S
  BY <1>2
<1>4. ASSUME NEW n \in Nat, n \in S PROVE n + 1 \in S
  <2> SUFFICES ASSUME n + 1 <= Len(l) PROVE f[n + 1] \in P[n + 1]
    OBVIOUS
  <2>1. f[n] \in P[n] /\ n + 1 \in 1 .. Len(l) /\ (n + 1) - 1 = n
    BY <1>4
  <2>2. f[n + 1] = AddLine(f[n], l[n + 1])
    BY <1>2, <2>1
  <2> QED
    BY <2>1, <2>2
<1>5. Len(l) \in S
  <2> HIDE DEF S
  <2>1. \A n \in Nat : n \in S => n + 1 \in S
    BY <1>4
  <2> QED
    BY <1>3, <2>1, Induction
<1> QED
  BY <1>1, <1>5

Mapping == UNION {[D -> Name] : D \in SUBSET Key}
Parsed == [ids : SUBSET Name, native : Mapping]

\* In a mapping a key is a key, and a name stands behind it.
LEMMA MappingType ==
    ASSUME NEW m \in Mapping
    PROVE  DOMAIN m \subseteq Key /\ \A k \in DOMAIN m : m[k] \in Name
BY DEF Mapping

LEMMA OverrideType ==
    ASSUME NEW b \in Mapping, NEW o \in Mapping
    PROVE  Override(b, o) \in Mapping
<1> DEFINE D == DOMAIN b \union DOMAIN o
<1>1. D \in SUBSET Key
  BY MappingType
<1>2. Override(b, o) \in [D -> Name]
  BY MappingType DEF Override
<1> QED
  BY <1>1, <1>2 DEF Mapping

LEMMA KeysType ==
    ASSUME NEW n \in Name
    PROVE  Plain(n) \in Key /\ AgyId(n) \in Key /\ Plain(n).name = n /\ AgyId(n).name = n
BY DEF Plain, AgyId, Key

LEMMA AddNameType ==
    ASSUME NEW p \in Parsed, NEW id \in Name, NEW native \in Name
    PROVE  /\ AddName(p, id, native) \in Parsed
           /\ p.ids \subseteq AddName(p, id, native).ids
           /\ id \in AddName(p, id, native).ids
<1>1. CASE id \in p.ids
  BY <1>1 DEF AddName
<1>2. CASE id \notin p.ids
  <2> DEFINE D == {AgyId(id), Plain(Label(id))}
             new == [k \in D |-> native]
  <2>1. D \in SUBSET Key
    BY KeysType, NamesStay
  <2>2. new \in Mapping
    <3> HIDE DEF D
    <3>1. new \in [D -> Name]
      OBVIOUS
    <3> QED
      BY <2>1, <3>1 DEF Mapping
  <2>3. p.native \in Mapping /\ p.ids \in SUBSET Name
    BY DEF Parsed
  <2>4. Override(p.native, new) \in Mapping
    BY <2>2, <2>3, OverrideType
  <2>5. AddName(p, id, native) = [ids |-> p.ids \union {id}, native |-> Override(p.native, new)]
    BY <1>2 DEF AddName
  <2> HIDE DEF new
  <2> QED
    BY <2>3, <2>4, <2>5 DEF Parsed
<1> QED
  BY <1>1, <1>2

\* A mapping whose names stand for slugs, with the label of every id.
Sound(p) ==
    /\ \A k \in DOMAIN p.native : StandsFor(k.name, p.native[k])
    /\ \A id \in p.ids : Plain(Label(id)) \in DOMAIN p.native

LEMMA AddNameSound ==
    ASSUME NEW p \in Parsed, Sound(p), NEW id \in Name, id.form = "slug"
    PROVE  Sound(AddName(p, id, id))
<1>1. CASE id \in p.ids
  BY <1>1 DEF AddName
<1>2. CASE id \notin p.ids
  <2> DEFINE new == [k \in {AgyId(id), Plain(Label(id))} |-> id]
  <2> DEFINE q == AddName(p, id, id)
  <2>1. q.ids = p.ids \union {id} /\ q.native = Override(p.native, new)
    BY <1>2 DEF AddName
  <2>2. /\ DOMAIN q.native = DOMAIN p.native \union {AgyId(id), Plain(Label(id))}
        /\ \A k \in DOMAIN q.native :
               q.native[k] = IF k \in {AgyId(id), Plain(Label(id))} THEN id ELSE p.native[k]
    BY <2>1 DEF Override
  <2>3. StandsFor(AgyId(id).name, id) /\ StandsFor(Plain(Label(id)).name, id)
    BY SlugStands, KeysType, NamesStay
  <2> HIDE DEF q
  <2>4. \A k \in DOMAIN q.native : StandsFor(k.name, q.native[k])
    BY <2>2, <2>3 DEF Sound
  <2>5. \A d \in q.ids : Plain(Label(d)) \in DOMAIN q.native
    BY <2>1, <2>2 DEF Sound
  <2> QED
    BY <2>4, <2>5 DEF Sound, q
<1> QED
  BY <1>1, <1>2

LEMMA LineType ==
    ASSUME NEW line \in ListingLine
    PROVE  /\ line.slug \in Name /\ line.slug.form = "slug"
           /\ NativeOf(line) \in Name
           /\ line.kind = "slug" => NativeOf(line) = line.slug
BY NamesStay DEF ListingLine, NativeOf

LEMMA AddLineType ==
    ASSUME NEW p \in Parsed, NEW line \in ListingLine
    PROVE  /\ AddLine(p, line) \in Parsed
           /\ p.ids \subseteq AddLine(p, line).ids
           /\ StripEffort(line.slug) \in AddLine(p, line).ids
           /\ line.slug \in AddLine(p, line).ids
<1> DEFINE base == StripEffort(line.slug)
           added == AddName(p, line.slug, NativeOf(line))
<1>1. base \in Name
  BY LineType, NamesStay
<1>2. added \in Parsed /\ p.ids \subseteq added.ids /\ line.slug \in added.ids
  BY LineType, AddNameType
<1>3. AddLine(p, line) = IF base = line.slug THEN added ELSE AddName(added, base, base)
  BY DEF AddLine
<1> HIDE DEF base, added
<1>4. /\ AddName(added, base, base) \in Parsed
      /\ added.ids \subseteq AddName(added, base, base).ids
      /\ base \in AddName(added, base, base).ids
  BY <1>1, <1>2, AddNameType
<1> QED
  BY <1>2, <1>3, <1>4 DEF base

LEMMA AddLineSound ==
    ASSUME NEW p \in Parsed, Sound(p), NEW line \in ListingLine, line.kind = "slug"
    PROVE  Sound(AddLine(p, line))
<1> DEFINE base == StripEffort(line.slug)
           added == AddName(p, line.slug, line.slug)
<1>1. base \in Name /\ base.form = "slug"
  BY LineType, NamesStay
<1>2. added \in Parsed /\ Sound(added)
  BY LineType, AddNameType, AddNameSound
<1>3. AddLine(p, line) = IF base = line.slug THEN added ELSE AddName(added, base, base)
  BY LineType DEF AddLine
<1> HIDE DEF base, added
<1> QED
  BY <1>1, <1>2, <1>3, AddNameSound

\* What is parsed is a mapping, and every listed slug has an id, and its base.
LEMMA ParseType ==
    ASSUME NEW l \in Seq(ListingLine)
    PROVE  /\ Parse(l) \in Parsed
           /\ \A i \in DOMAIN l : {l[i].slug, StripEffort(l[i].slug)} \subseteq Parse(l).ids
<1> DEFINE P == [n \in 0 .. Len(l) |->
                    {p \in Parsed : \A j \in 1 .. n :
                        {l[j].slug, StripEffort(l[j].slug)} \subseteq p.ids}]
<1>1. Nothing \in P[0]
  <2>1. << >> \in [{} -> Name]
    OBVIOUS
  <2>2. << >> \in Mapping
    BY <2>1 DEF Mapping
  <2> QED
    BY <2>2 DEF Nothing, Parsed
<1>2. ASSUME NEW n \in 1 .. Len(l), NEW p \in P[n - 1] PROVE AddLine(p, l[n]) \in P[n]
  <2>1. /\ p \in Parsed
        /\ \A j \in 1 .. (n - 1) : {l[j].slug, StripEffort(l[j].slug)} \subseteq p.ids
    BY <1>2
  <2>2. l[n] \in ListingLine
    OBVIOUS
  <2>3. \A j \in 1 .. n : j \in 1 .. (n - 1) \/ j = n
    OBVIOUS
  <2>4. \A j \in 1 .. n : {l[j].slug, StripEffort(l[j].slug)} \subseteq AddLine(p, l[n]).ids
    BY <2>1, <2>2, <2>3, AddLineType
  <2>5. AddLine(p, l[n]) \in Parsed
    BY <2>1, <2>2, AddLineType
  <2> QED
    BY <2>4, <2>5
<1>3. Parse(l) \in P[Len(l)]
  <2> HIDE DEF P
  <2> QED
    BY <1>1, <1>2, ParseKeeps
<1> QED
  BY <1>3

\* While only slugs are listed, each name stands for the slug it is or shows, and
\* every id is known by its label.
LEMMA ParseSound ==
    ASSUME NEW l \in Seq(ListingLine), \A i \in DOMAIN l : l[i].kind = "slug"
    PROVE  Sound(Parse(l))
<1> DEFINE P == [n \in 0 .. Len(l) |-> {p \in Parsed : Sound(p)}]
<1>1. Nothing \in P[0]
  <2>1. << >> \in [{} -> Name]
    OBVIOUS
  <2>2. << >> \in Mapping
    BY <2>1 DEF Mapping
  <2>3. Sound(Nothing)
    BY DEF Nothing, Sound
  <2> QED
    BY <2>2, <2>3 DEF Nothing, Parsed
<1>2. ASSUME NEW n \in 1 .. Len(l), NEW p \in P[n - 1] PROVE AddLine(p, l[n]) \in P[n]
  <2>1. p \in Parsed /\ Sound(p)
    BY <1>2
  <2>2. l[n] \in ListingLine /\ l[n].kind = "slug"
    OBVIOUS
  <2> QED
    BY <2>1, <2>2, AddLineType, AddLineSound
<1>3. Parse(l) \in P[Len(l)]
  <2> HIDE DEF P
  <2> QED
    BY <1>1, <1>2, ParseKeeps
<1> QED
  BY <1>3

\* A mapping whose labels stand for names of the effort they show, all of S.
Shown(m, S) ==
    \A k \in DOMAIN m :
        m[k] \in S /\ (k.name.form = "label" => NamedEffort(m[k]) = k.name.effort)

LEMMA AddNameShows ==
    ASSUME NEW S, NEW p, Shown(p.native, S), NEW id \in Name, id.form = "slug",
           NEW native \in S, NormalizeEffort(native.effort) = NormalizeEffort(id.effort)
    PROVE  Shown(AddName(p, id, native).native, S)
<1>1. CASE id \in p.ids
  BY <1>1 DEF AddName
<1>2. CASE id \notin p.ids
  <2> DEFINE new == [k \in {AgyId(id), Plain(Label(id))} |-> native]
  <2> DEFINE m == AddName(p, id, native).native
  <2>1. m = Override(p.native, new)
    BY <1>2 DEF AddName
  <2>2. /\ DOMAIN m = DOMAIN p.native \union {AgyId(id), Plain(Label(id))}
        /\ \A k \in DOMAIN m :
               m[k] = IF k \in {AgyId(id), Plain(Label(id))} THEN native ELSE p.native[k]
    BY <2>1 DEF Override
  <2>3. /\ AgyId(id).name = id /\ Plain(Label(id)).name = Label(id)
        /\ Label(id).effort = NormalizeEffort(id.effort)
    BY NamesStay, KeysType
  <2>4. NamedEffort(native) = Label(id).effort
    BY <2>3 DEF NamedEffort
  <2> HIDE DEF m
  <2>5. ASSUME NEW k \in DOMAIN m
        PROVE  m[k] \in S /\ (k.name.form = "label" => NamedEffort(m[k]) = k.name.effort)
    <3>1. CASE k \in {AgyId(id), Plain(Label(id))}
      BY <2>2, <2>3, <2>4, <3>1
    <3>2. CASE k \notin {AgyId(id), Plain(Label(id))}
      BY <2>2, <3>2 DEF Shown
    <3> QED
      BY <3>1, <3>2
  <2>6. Shown(m, S)
    BY <2>5 DEF Shown
  <2> QED
    BY <2>6 DEF m
<1> QED
  BY <1>1, <1>2

LEMMA AddLineShows ==
    ASSUME NEW S, NEW p, Shown(p.native, S), NEW line \in ListingLine,
           NativeOf(line) \in S, StripEffort(line.slug) \in S
    PROVE  Shown(AddLine(p, line).native, S)
<1> DEFINE base == StripEffort(line.slug)
           added == AddName(p, line.slug, NativeOf(line))
<1>1. base \in Name /\ base.form = "slug" /\ base \in S
  <2>1. line.slug \in Name /\ line.slug.form = "slug"
    BY LineType
  <2>2. StripEffort(line.slug) \in Name /\ StripEffort(line.slug).form = "slug"
    BY <2>1, NamesStay
  <2> QED
    BY <2>2
<1>2. NormalizeEffort(NativeOf(line).effort) = NormalizeEffort(line.slug.effort)
  <2>1. line.slug \in Name /\ Label(line.slug).effort = NormalizeEffort(line.slug.effort)
    BY LineType, NamesStay
  <2>2. NormalizeEffort(NormalizeEffort(line.slug.effort)) = NormalizeEffort(line.slug.effort)
    BY NormalizeEffortType
  <2> QED
    BY <2>1, <2>2 DEF NativeOf
<1>3. Shown(added.native, S)
  BY <1>2, LineType, AddNameShows
<1>4. AddLine(p, line) = IF base = line.slug THEN added ELSE AddName(added, base, base)
  BY DEF AddLine
<1> HIDE DEF base, added
<1>5. Shown(AddName(added, base, base).native, S)
  BY <1>1, <1>3, AddNameShows
<1> QED
  BY <1>3, <1>4, <1>5

\* Labels show the effort they stand for, and only what is listed is parsed.
LEMMA ParseShows ==
    ASSUME NEW l \in Seq(ListingLine), NEW S,
           \A i \in DOMAIN l : NativeOf(l[i]) \in S /\ StripEffort(l[i].slug) \in S
    PROVE  Shown(Parse(l).native, S)
<1> DEFINE P == [n \in 0 .. Len(l) |-> {p \in Parsed : Shown(p.native, S)}]
<1>1. Nothing \in P[0]
  <2>1. << >> \in [{} -> Name]
    OBVIOUS
  <2>2. << >> \in Mapping
    BY <2>1 DEF Mapping
  <2>3. Shown(Nothing.native, S)
    BY DEF Nothing, Shown
  <2> QED
    BY <2>2, <2>3 DEF Nothing, Parsed
<1>2. ASSUME NEW n \in 1 .. Len(l), NEW p \in P[n - 1] PROVE AddLine(p, l[n]) \in P[n]
  <2>1. p \in Parsed /\ Shown(p.native, S)
    BY <1>2
  <2>2. l[n] \in ListingLine /\ NativeOf(l[n]) \in S /\ StripEffort(l[n].slug) \in S
    OBVIOUS
  <2> QED
    BY <2>1, <2>2, AddLineType, AddLineShows
<1>3. Parse(l) \in P[Len(l)]
  <2> HIDE DEF P
  <2> QED
    BY <1>1, <1>2, ParseKeeps
<1> QED
  BY <1>3

-----------------------------------------------------------------------------
(* The effort and the model that are asked for. *)

\* The first of some efforts that is one, or none when there is none.
LEMMA FirstOfIs ==
    ASSUME NEW S, NEW efforts \in Seq(S)
    PROVE  \/ FirstOf(efforts) = "" /\ \A i \in DOMAIN efforts : efforts[i] = ""
           \/ \E i \in DOMAIN efforts : /\ FirstOf(efforts) = efforts[i] /\ efforts[i] # ""
                                        /\ \A j \in 1 .. (i - 1) : efforts[j] = ""
<1> DEFINE given == {i \in DOMAIN efforts : efforts[i] # ""}
           first == {i \in DOMAIN efforts :
                        efforts[i] # "" /\ \A j \in 1 .. (i - 1) : efforts[j] = ""}
<1>1. FirstOf(efforts) = IF first = {} THEN "" ELSE efforts[CHOOSE i \in first : TRUE]
  BY DEF FirstOf
<1>n. DOMAIN efforts = 1 .. Len(efforts) /\ Len(efforts) \in Nat
  OBVIOUS
<1>2. CASE given = {}
  <2>1. first = {}
    BY <1>2
  <2> QED
    BY <1>1, <1>2, <2>1
<1>3. CASE given # {}
  <2>1. given \in SUBSET Nat
    <3>1. given \subseteq DOMAIN efforts
      OBVIOUS
    <3> HIDE DEF given
    <3> QED
      BY <1>n, <3>1
  <2>2. PICK m \in given : \A k \in given : m <= k
    BY <1>3, <2>1, LeastMember
  <2>a. m \in 1 .. Len(efforts)
    BY <1>n
  <2>3. \A j \in 1 .. (m - 1) : j \in DOMAIN efforts /\ j \notin given
    <3> HIDE DEF given
    <3>1. \A j \in 1 .. (m - 1) : j \in 1 .. Len(efforts) /\ ~(m <= j)
      BY <1>n, <2>a
    <3> QED
      BY <1>n, <2>2, <3>1
  <2>4. m \in first
    BY <2>3
  <2>5. PICK i \in first : FirstOf(efforts) = efforts[i]
    BY <1>1, <2>4
  <2> QED
    BY <2>5
<1> QED
  BY <1>2, <1>3

\* The seven places an effort may come from.
Places == <<NormalizeEffort(request.colon), EffortSuffix(request.model),
            NormalizeEffort(request.payload),
            NormalizeEffort(FirstOf(<<request.agyHeader, request.header>>)),
            NormalizeEffort(FirstOf(<<request.reasoningMeta, request.effortMeta>>)),
            configured, DefaultEffort(BaseModel)>>

LEMMA SevenType ==
    ASSUME NEW S, NEW a \in S, NEW b \in S, NEW c \in S, NEW d \in S, NEW e \in S,
           NEW f \in S, NEW g \in S
    PROVE  /\ <<a, b, c, d, e, f, g>> \in Seq(S)
           /\ DOMAIN <<a, b, c, d, e, f, g>> = 1 .. 7
OBVIOUS

LEMMA PlacesType ==
    ASSUME configured \in Configured
    PROVE  /\ Places \in Seq(Effort \union {""}) /\ DOMAIN Places = 1 .. 7
           /\ ReasoningEffort = IF SupportsEffort(BaseModel) THEN FirstOf(Places) ELSE ""
<1>1. EffortSuffix(request.model) \in Effort \union {""}
  BY NormalizeEffortType DEF EffortSuffix
<1>2. configured \in Effort \union {""}
  BY ConfiguredAssumption
<1>3. DefaultEffort(BaseModel) \in Effort \union {""}
  BY DEF DefaultEffort, Effort
<1>4. /\ NormalizeEffort(request.colon) \in Effort \union {""}
      /\ NormalizeEffort(request.payload) \in Effort \union {""}
      /\ NormalizeEffort(FirstOf(<<request.agyHeader, request.header>>)) \in Effort \union {""}
      /\ NormalizeEffort(FirstOf(<<request.reasoningMeta, request.effortMeta>>))
            \in Effort \union {""}
  BY NormalizeEffortType
<1>5. Places \in Seq(Effort \union {""}) /\ DOMAIN Places = 1 .. 7
  <2> DEFINE E == Effort \union {""}
             b == EffortSuffix(request.model)
             d == NormalizeEffort(FirstOf(<<request.agyHeader, request.header>>))
             e == NormalizeEffort(FirstOf(<<request.reasoningMeta, request.effortMeta>>))
             a == NormalizeEffort(request.colon)
             c == NormalizeEffort(request.payload)
             g == DefaultEffort(BaseModel)
  <2>1. /\ a \in E /\ b \in E /\ c \in E /\ d \in E /\ e \in E /\ g \in E
        /\ configured \in E
    BY <1>1, <1>2, <1>3, <1>4
  <2>2. Places = <<a, b, c, d, e, configured, g>>
    BY DEF Places
  <2> HIDE DEF E, a, b, c, d, e, g
  <2>3. Places \in Seq(E) /\ DOMAIN Places = 1 .. 7
    BY <2>1, <2>2, SevenType
  <2> QED
    BY <2>3 DEF E
<1>6. ReasoningEffort = IF SupportsEffort(BaseModel) THEN FirstOf(Places) ELSE ""
  BY DEF ReasoningEffort, Places
<1> QED
  BY <1>5, <1>6

LEMMA ReasoningEffortType ==
    ASSUME configured \in Configured
    PROVE  ReasoningEffort \in Effort \union {""}
<1>1. FirstOf(Places) = "" \/ \E i \in DOMAIN Places : FirstOf(Places) = Places[i]
  BY PlacesType, FirstOfIs
<1>2. \A S : \A f \in Seq(S) : \A i \in DOMAIN f : f[i] \in S
  OBVIOUS
<1> QED
  BY <1>1, <1>2, PlacesType

Asked == Name \union {NoName}

\* No model at all is left as it is.
LEMMA AskedType ==
    ASSUME NEW n \in Asked
    PROVE  /\ StripEffort(n) \in Asked
           /\ n \in Name => n # NoName /\ n.form \in {"slug", "label"}
           /\ n \notin Name =>
                 n = NoName /\ n.form = "none" /\ n.effort = "" /\ StripEffort(n) = n
<1>1. NoName.form = "none" /\ NoName.effort = ""
  BY DEF NoName
<1>2. StripEffort(NoName) = NoName
  BY <1>1 DEF StripEffort
<1>3. n \in Name => n.form \in {"slug", "label"}
  BY DEF Name
<1>4. n \in Name => StripEffort(n) \in Name
  BY NamesStay
<1> QED
  BY <1>1, <1>2, <1>3, <1>4 DEF Asked

LEMMA NativeNameType ==
    ASSUME NEW m, NEW n \in Asked,
           \A k \in DOMAIN m : m[k] \in Name
    PROVE  NativeName(m, n) \in Asked
BY DEF NativeName, Asked

\* A slug that is known stands for itself, as one that is not known does; a
\* label that is known stands for a slug that it shows.
LEMMA NativeNameStands ==
    ASSUME NEW m, NEW n \in Asked,
           \A k \in DOMAIN m : StandsFor(k.name, m[k])
    PROVE  /\ n.form # "label" => NativeName(m, n) = n
           /\ n.form = "label" /\ Plain(n) \in DOMAIN m => StandsFor(n, NativeName(m, n))
<1>1. Plain(n).name = n /\ AgyId(n).name = n
  BY DEF Plain, AgyId
<1>2. CASE n = NoName
  BY <1>2 DEF NativeName, NoName
<1>3. CASE n \in Name
  <2>1. n.form \in {"slug", "label"} /\ n # NoName
    BY <1>3, AskedType
  <2>2. NativeName(m, n) = n \/ StandsFor(n, NativeName(m, n))
    BY <1>1 DEF NativeName
  <2>3. n.form = "slug" => NativeName(m, n) = n
    BY <2>2 DEF StandsFor
  <2>4. Plain(n) \in DOMAIN m => NativeName(m, n) = m[Plain(n)]
    BY <2>1 DEF NativeName
  <2> QED
    BY <1>1, <2>1, <2>3, <2>4
<1> QED
  BY <1>2, <1>3 DEF Asked

-----------------------------------------------------------------------------
(* Building the mapping. *)

LEMMA AssignmentsType ==
    ASSUME NEW id \in Key, NEW native \in Name
    PROVE  LET new == Assignments(id, native)
           IN  id \in DOMAIN new /\ DOMAIN new \subseteq Key /\ \A k \in DOMAIN new : new[k] \in Name
<1>1. id.name \in Name
  BY DEF Key
<1>2. StripEffort(id.name) \in Name /\ StripEffort(native) \in Name
  BY <1>1, NamesStay
<1> QED
  BY <1>1, <1>2, KeysType DEF Assignments

LEMMA AssignmentsStand ==
    ASSUME NEW id \in Key, NEW native \in Name, StandsFor(id.name, native)
    PROVE  LET new == Assignments(id, native)
           IN  \A k \in DOMAIN new : StandsFor(k.name, new[k])
<1> DEFINE base == StripEffort(id.name)
           new  == Assignments(id, native)
<1>1. id.name \in Name /\ base \in Name
  BY NamesStay DEF Key
<1>2. ASSUME NEW k \in DOMAIN new
      PROVE  /\ k.name = id.name \/ (k.name = base /\ base # id.name)
             /\ new[k] = IF k.name = id.name THEN native ELSE StripEffort(native)
  BY <1>1, KeysType DEF Assignments
<1>3. base # id.name => StandsFor(base, StripEffort(native))
  BY <1>1, BaseStands
<1> HIDE DEF base, new
<1>4. \A k \in DOMAIN new : StandsFor(k.name, new[k])
  BY <1>2, <1>3
<1> QED
  BY <1>4 DEF new

LEMMA AssignmentsShow ==
    ASSUME NEW S, NEW id \in Key, NEW native \in S, StripEffort(native) \in S,
           id.name.form = "label" => NamedEffort(native) = id.name.effort
    PROVE  Shown(Assignments(id, native), S)
<1> DEFINE base == StripEffort(id.name)
           new  == Assignments(id, native)
<1>1. id.name \in Name /\ base \in Name
  BY NamesStay DEF Key
<1>2. ASSUME NEW k \in DOMAIN new
      PROVE  /\ k.name = id.name \/ (k.name = base /\ base # id.name)
             /\ new[k] = IF k.name = id.name THEN native ELSE StripEffort(native)
  BY <1>1, KeysType DEF Assignments
<1>3. base # id.name => base.form # "label"
  BY <1>1, NamesStay DEF StripEffort, Name
<1> HIDE DEF base, new
<1>4. Shown(new, S)
  BY <1>2, <1>3 DEF Shown
<1> QED
  BY <1>4 DEF new

\* The names known without agy stand for built-in slugs.
LEMMA BuiltinStands ==
    /\ DOMAIN BuiltinNative \subseteq Key
    /\ \A k \in DOMAIN BuiltinNative :
           /\ BuiltinNative[k] \in Builtin /\ BuiltinNative[k] \in Name
           /\ StandsFor(k.name, BuiltinNative[k])
           /\ k.name.form = "label" => NamedEffort(BuiltinNative[k]) = k.name.effort
<1> SUFFICES ASSUME NEW k \in DOMAIN BuiltinNative
             PROVE  /\ k \in Key /\ BuiltinNative[k] \in Builtin /\ BuiltinNative[k] \in Name
                    /\ StandsFor(k.name, BuiltinNative[k])
                    /\ k.name.form = "label" => NamedEffort(BuiltinNative[k]) = k.name.effort
  OBVIOUS
<1>1. PICK s \in Builtin : k = Plain(s) \/ k = Plain(Label(s))
  BY DEF BuiltinNative
<1>2. s \in Name /\ s.form = "slug" /\ s.effort # "med"
  BY BuiltinAssumption
<1>3. BuiltinNative[k] = [k.name EXCEPT !.form = "slug"]
  BY DEF BuiltinNative
<1>4. Label(s) \in Name /\ Label(s).form = "label" /\ Label(s).base = s.base
      /\ Label(s).effort = NormalizeEffort(s.effort)
  BY <1>2, NamesStay
<1>5. NormalizeEffort(s.effort) = s.effort
  BY <1>2, NormalizeEffortType DEF Name
<1>6. k \in Key /\ k.name \in {s, Label(s)} /\ k.name \in Name
  BY <1>1, <1>2, <1>4, KeysType
<1>7. k.name.base = s.base /\ k.name.effort = s.effort
  BY <1>4, <1>5, <1>6
<1>8. /\ BuiltinNative[k] \in Name /\ BuiltinNative[k].form = "slug"
      /\ BuiltinNative[k].base = k.name.base /\ BuiltinNative[k].effort = k.name.effort
  BY <1>3, <1>6 DEF Name
<1>9. BuiltinNative[k] = s
  BY <1>2, <1>7, <1>8, NamesEqual
<1>10. StandsFor(k.name, s)
  BY <1>2, <1>6, SlugStands
<1>11. NamedEffort(s) = k.name.effort
  BY <1>5, <1>7 DEF NamedEffort
<1> QED
  BY <1>2, <1>6, <1>9, <1>10, <1>11

\* The listed slugs and their bases.
SlugsAndBases == Slugs \union {StripEffort(s) : s \in Slugs}

LEMMA SlugsType ==
    ASSUME listing \in Listings
    PROVE  /\ listing \in Seq(ListingLine)
           /\ SlugsAndBases \subseteq {n \in Name : n.form = "slug"}
           /\ \A s \in SlugsAndBases : StripEffort(s) \in SlugsAndBases
<1>1. listing \in Seq(ListingLine)
  BY ListingsAssumption
<1>2. ASSUME NEW s \in Slugs PROVE s \in Name /\ s.form = "slug"
  <2>1. PICK i \in DOMAIN listing : s = listing[i].slug
    BY DEF Slugs
  <2>2. listing[i] \in ListingLine
    BY <1>1
  <2> QED
    BY <2>1, <2>2, LineType
<1>3. ASSUME NEW s \in SlugsAndBases
      PROVE  s \in Name /\ s.form = "slug" /\ StripEffort(s) \in SlugsAndBases
  <2>1. CASE s \in Slugs
    BY <1>2, <2>1 DEF SlugsAndBases
  <2>2. CASE s \notin Slugs
    <3>1. PICK t \in Slugs : s = StripEffort(t)
      BY <2>2 DEF SlugsAndBases
    <3>2. StripEffort(s) = s /\ s \in Name /\ s.form = "slug"
      BY <1>2, <3>1, NamesStay
    <3> QED
      BY <3>2
  <2> QED
    BY <2>1, <2>2
<1> QED
  BY <1>1, <1>3

\* What is listed, whatever agy prints.
LEMMA ListedType ==
    ASSUME listing \in Listings
    PROVE  /\ DOMAIN Listed.native \subseteq Key
           /\ Shown(Listed.native, Name)
           /\ SlugListing => /\ \A k \in DOMAIN Listed.native : StandsFor(k.name, Listed.native[k])
                             /\ Shown(Listed.native, SlugsAndBases)
                             /\ \A s \in SlugsAndBases : Plain(Label(s)) \in DOMAIN Listed.native
<1>1. listing \in Seq(ListingLine)
  BY ListingsAssumption
<1>2. Listed \in Parsed /\ SlugsAndBases \subseteq Listed.ids
  BY <1>1, ParseType DEF Listed, Slugs, SlugsAndBases
<1>3. Listed.native \in Mapping
  BY <1>2 DEF Parsed
<1>4. SlugListing => Sound(Listed)
  BY <1>1, ParseSound DEF SlugListing, Listed
<1>5. \A i \in DOMAIN listing : listing[i] \in ListingLine /\ listing[i].slug \in Slugs
  BY <1>1 DEF Slugs
<1>6. Shown(Listed.native, Name)
  <2>1. \A i \in DOMAIN listing :
           NativeOf(listing[i]) \in Name /\ StripEffort(listing[i].slug) \in Name
    BY <1>5, LineType, NamesStay
  <2> QED
    BY <1>1, <2>1, ParseShows DEF Listed
<1>7. SlugListing => Shown(Listed.native, SlugsAndBases)
  <2> SUFFICES ASSUME SlugListing PROVE Shown(Listed.native, SlugsAndBases)
    OBVIOUS
  <2>1. \A i \in DOMAIN listing : /\ NativeOf(listing[i]) \in SlugsAndBases
                                 /\ StripEffort(listing[i].slug) \in SlugsAndBases
    BY <1>5, LineType DEF SlugListing, SlugsAndBases
  <2> QED
    BY <1>1, <2>1, ParseShows DEF Listed
<1> QED
  BY <1>2, <1>3, <1>4, <1>6, <1>7, MappingType DEF Sound

LEMMA InvInit == Init => Inv
<1> SUFFICES ASSUME Init PROVE Inv
  OBVIOUS
<1>1. listing \in Listings /\ todo = DOMAIN Listed.native /\ nativeByID = BuiltinNative
  BY DEF Init
<1>2. TypeOK
  BY <1>1, ListedType, BuiltinStands DEF Init, TypeOK, NoFlags
<1>3. MappingStands /\ LabelsShow
  BY <1>1, BuiltinStands DEF MappingStands, LabelsShow, KnownSlugs
<1>4. FlagsFollow
  BY DEF Init, FlagsFollow
<1> QED
  BY <1>2, <1>3, <1>4 DEF Inv

\* One entry of the walk.
LEMMA MapEntryStep ==
    ASSUME Inv, NEW id \in todo, MapEntry(id)
    PROVE  Inv'
<1> DEFINE new == Assignments(id, Listed.native[id])
<1>1. /\ TypeOK /\ pc = "discover" /\ pc' = pc /\ flags' = flags /\ inputs' = inputs
      /\ todo' = todo \ {id} /\ nativeByID' = Override(nativeByID, new)
  BY DEF Inv, MapEntry
<1>2. listing \in Listings /\ listing' = listing /\ request' = request /\ configured' = configured
  BY <1>1 DEF inputs, TypeOK
<1>3. Listed' = Listed /\ SlugListing' = SlugListing /\ KnownSlugs' = KnownSlugs
  BY <1>2 DEF Listed, SlugListing, KnownSlugs, Slugs
<1>4. id \in Key /\ id \in DOMAIN Listed.native /\ Listed.native[id] \in Name
  BY <1>1, <1>2, ListedType DEF TypeOK, Shown
<1>s. /\ Shown(new, Name)
      /\ SlugListing => Shown(new, SlugsAndBases)
  <2>1. /\ id.name.form = "label" => NamedEffort(Listed.native[id]) = id.name.effort
        /\ SlugListing => Listed.native[id] \in SlugsAndBases
    BY <1>2, <1>4, ListedType DEF Shown
  <2>2. StripEffort(Listed.native[id]) \in Name
    BY <1>4, NamesStay
  <2>3. Shown(new, Name)
    BY <1>4, <2>1, <2>2, AssignmentsShow
  <2>4. SlugListing => Shown(new, SlugsAndBases)
    BY <1>2, <1>4, <2>1, SlugsType, AssignmentsShow
  <2> QED
    BY <2>3, <2>4
<1>5. /\ id \in DOMAIN new /\ DOMAIN new \subseteq Key
      /\ \A k \in DOMAIN new : new[k] \in Name
      /\ StandsFor(id.name, Listed.native[id]) => \A k \in DOMAIN new : StandsFor(k.name, new[k])
  BY <1>4, AssignmentsType, AssignmentsStand
<1> HIDE DEF new
<1>6. /\ DOMAIN nativeByID' = DOMAIN nativeByID \union DOMAIN new
      /\ \A k \in DOMAIN nativeByID' :
             nativeByID'[k] = IF k \in DOMAIN new THEN new[k] ELSE nativeByID[k]
  BY <1>1 DEF Override
<1>7. TypeOK'
  <2>1. DOMAIN nativeByID' \subseteq Key /\ \A k \in DOMAIN nativeByID' : nativeByID'[k] \in Name
    BY <1>1, <1>5, <1>6 DEF TypeOK
  <2>2. todo' \subseteq DOMAIN Listed'.native
    BY <1>1, <1>3 DEF TypeOK
  <2> QED
    BY <1>1, <1>2, <2>1, <2>2 DEF TypeOK
<1>8. MappingStands'
  <2> SUFFICES ASSUME SlugListing
               PROVE  /\ \A k \in DOMAIN nativeByID' : /\ StandsFor(k.name, nativeByID'[k])
                                                       /\ nativeByID'[k] \in KnownSlugs
                      /\ DOMAIN Listed.native \subseteq DOMAIN nativeByID' \union todo'
    BY <1>3 DEF MappingStands
  <2>1. /\ \A k \in DOMAIN nativeByID :
               StandsFor(k.name, nativeByID[k]) /\ nativeByID[k] \in KnownSlugs
        /\ DOMAIN Listed.native \subseteq DOMAIN nativeByID \union todo
    BY DEF Inv, MappingStands
  <2>2. \A k \in DOMAIN new : StandsFor(k.name, new[k]) /\ new[k] \in KnownSlugs
    <3>1. \A k \in DOMAIN new : StandsFor(k.name, new[k])
      BY <1>2, <1>4, <1>5, ListedType DEF TypeOK
    <3> QED
      <4>1. \A k \in DOMAIN new : new[k] \in SlugsAndBases
        BY <1>s DEF Shown
      <4>2. SlugsAndBases \subseteq KnownSlugs
        BY DEF KnownSlugs, SlugsAndBases
      <4> QED
        BY <3>1, <4>1, <4>2
  <2>3. \A k \in DOMAIN nativeByID' :
            StandsFor(k.name, nativeByID'[k]) /\ nativeByID'[k] \in KnownSlugs
    BY <1>6, <2>1, <2>2
  <2>4. DOMAIN Listed.native \subseteq DOMAIN nativeByID' \union todo'
    BY <1>1, <1>5, <1>6, <2>1
  <2> QED
    BY <2>3, <2>4
<1>9. FlagsFollow'
  BY <1>1 DEF FlagsFollow
<1>10. LabelsShow'
  <2>1. \A k \in DOMAIN nativeByID :
           k.name.form = "label" => NamedEffort(nativeByID[k]) = k.name.effort
    BY DEF Inv, LabelsShow
  <2>2. \A k \in DOMAIN new : k.name.form = "label" => NamedEffort(new[k]) = k.name.effort
    BY <1>s DEF Shown
  <2>3. \A k \in DOMAIN nativeByID' :
           k.name.form = "label" => NamedEffort(nativeByID'[k]) = k.name.effort
    BY <1>6, <2>1, <2>2
  <2> QED
    BY <2>3 DEF LabelsShow
<1> QED
  BY <1>7, <1>8, <1>9, <1>10 DEF Inv

\* The choice depends on the request alone and on the mapping.
LEMMA ChoiceSteady ==
    ASSUME inputs' = inputs
    PROVE  /\ Listed' = Listed /\ SlugListing' = SlugListing
           /\ BaseModel' = BaseModel /\ ReasoningEffort' = ReasoningEffort
           /\ KnownSlugs' = KnownSlugs
           /\ \A n : ModelFlag(n)' = ModelFlag(n)
<1>1. listing' = listing /\ request' = request /\ configured' = configured
  BY DEF inputs
<1>2. BaseModel' = BaseModel
  BY <1>1 DEF BaseModel
<1>3. ReasoningEffort' = ReasoningEffort
  BY <1>1, <1>2 DEF ReasoningEffort
<1> QED
  BY <1>1, <1>2, <1>3 DEF Listed, SlugListing, ModelFlag, KnownSlugs, Slugs

LEMMA RequestType ==
    ASSUME TypeOK
    PROVE  /\ request.model \in Asked /\ BaseModel \in Asked
           /\ ReasoningEffort \in Effort \union {""}
           /\ \A n \in Asked : ModelFlag(n) \in Asked
<1>1. request.model \in Asked
  BY RequestsAssumption DEF TypeOK, Request, Asked
<1>2. BaseModel \in Asked
  BY <1>1, AskedType DEF BaseModel
<1>3. \A n \in Asked : ModelFlag(n) \in Asked
  BY AskedType DEF ModelFlag
<1> QED
  BY <1>1, <1>2, <1>3, ReasoningEffortType DEF TypeOK

\* The choice is made from the whole mapping.
LEMMA SelectStep ==
    ASSUME Inv, Select
    PROVE  Inv'
<1> DEFINE model == ModelFlag(NativeName(nativeByID, BaseModel))
           effort == IF SupportsEffort(model) THEN ReasoningEffort ELSE ""
<1>1. /\ inputs' = inputs /\ todo' = todo /\ nativeByID' = nativeByID
      /\ todo = {} /\ pc' = "selected"
      /\ flags' = [model |-> model, effort |-> effort]
  BY DEF Select
<1>2. TypeOK /\ listing' = listing /\ request' = request /\ configured' = configured
  BY <1>1 DEF Inv, inputs
<1>3. NativeName(nativeByID, BaseModel) \in Asked
  BY <1>2, RequestType, NativeNameType DEF TypeOK
<1>4. model \in Asked /\ effort \in Effort \union {""}
  BY <1>2, <1>3, RequestType
<1>5. flags'.model = model /\ flags'.effort = effort
  BY <1>1
<1>6. /\ Listed' = Listed /\ SlugListing' = SlugListing
      /\ BaseModel' = BaseModel /\ ReasoningEffort' = ReasoningEffort
      /\ KnownSlugs' = KnownSlugs
      /\ \A n : ModelFlag(n)' = ModelFlag(n)
  BY <1>1, ChoiceSteady
<1>7. model = ModelFlag(NativeName(nativeByID, BaseModel))'
  BY <1>1, <1>2 DEF ModelFlag, NativeName, BaseModel, ReasoningEffort
<1>8. flags' \in [model : Asked, effort : Effort \union {""}]
  <2> HIDE DEF model, effort
  <2> QED
    BY <1>1, <1>4
<1>9. TypeOK'
  BY <1>1, <1>2, <1>6, <1>8 DEF TypeOK, Asked
<1>10. MappingStands' /\ LabelsShow'
  BY <1>1, <1>6 DEF Inv, MappingStands, LabelsShow
<1>11. FlagsFollow'
  BY <1>1, <1>5, <1>6, <1>7 DEF FlagsFollow
<1> QED
  BY <1>9, <1>10, <1>11 DEF Inv

LEMMA InvStep == Inv /\ [Next]_vars => Inv'
<1> SUFFICES ASSUME Inv, [Next]_vars PROVE Inv'
  OBVIOUS
<1>1. ASSUME NEW id \in todo, MapEntry(id) PROVE Inv'
  BY <1>1, MapEntryStep
<1>2. CASE Select
  BY <1>2, SelectStep
<1>3. CASE UNCHANGED vars
  <2>1. /\ inputs' = inputs /\ todo' = todo /\ nativeByID' = nativeByID /\ pc' = pc /\ flags' = flags
        /\ listing' = listing /\ request' = request /\ configured' = configured
    BY <1>3 DEF vars, inputs
  <2>2. TypeOK'
    BY <2>1 DEF Inv, TypeOK, Listed
  <2>3. MappingStands' /\ LabelsShow'
    BY <2>1 DEF Inv, MappingStands, LabelsShow, SlugListing, Listed, KnownSlugs, Slugs
  <2>4. FlagsFollow'
    BY <2>1 DEF Inv, FlagsFollow, ModelFlag, NativeName, BaseModel, ReasoningEffort
  <2> QED
    BY <2>2, <2>3, <2>4 DEF Inv
<1> QED
  BY <1>1, <1>2, <1>3 DEF Next

\* Whatever is listed, in whatever order it is walked: the mapping is made of names,
\* and of slugs for what they show while agy lists slugs; the flags follow from it.
THEOREM SelectionInvariant == Spec => []Inv
<1>1. Init => Inv
  BY InvInit
<1>2. Inv /\ [Next]_vars => Inv'
  BY InvStep
<1> QED
  BY <1>1, <1>2, PTL DEF Spec

-----------------------------------------------------------------------------
(* What follows from it. *)

\* Every listed slug and its base stand for themselves, and the label of either for
\* a slug of that label that agy knows, whatever the order in which discoverModels
\* walks the mapping.
THEOREM NamesResolve == Spec => []ListedNamesResolve
<1>1. Inv => ListedNamesResolve
  <2> SUFFICES ASSUME Inv, pc = "selected", SlugListing, NEW s \in SlugsAndBases
               PROVE  /\ NativeName(nativeByID, s) = s
                      /\ LET native == NativeName(nativeByID, Label(s))
                         IN  native \in KnownSlugs /\ Label(native) = Label(s)
    BY DEF ListedNamesResolve, SlugsAndBases
  <2> DEFINE native == NativeName(nativeByID, Label(s))
  <2>1. s \in Name /\ s.form = "slug"
    BY SlugsType DEF Inv, TypeOK
  <2>2. /\ Label(s) \in Name /\ Label(s).form = "label" /\ Label(s).base = s.base
        /\ Label(s).effort = NormalizeEffort(s.effort)
    BY <2>1, NamesStay
  <2>3. \A k \in DOMAIN nativeByID :
           StandsFor(k.name, nativeByID[k]) /\ nativeByID[k] \in KnownSlugs
    BY DEF Inv, MappingStands
  <2>4. Plain(Label(s)) \in DOMAIN nativeByID
    <3>1. Plain(Label(s)) \in DOMAIN Listed.native
      BY ListedType DEF Inv, TypeOK
    <3> QED
      BY <3>1 DEF Inv, MappingStands, FlagsFollow
  <2>5. s \in Asked /\ Label(s) \in Asked
    BY <2>1, <2>2 DEF Asked
  <2>6. NativeName(nativeByID, s) = s /\ StandsFor(Label(s), native)
    BY <2>1, <2>2, <2>3, <2>4, <2>5, NativeNameStands
  <2>7. native = nativeByID[Plain(Label(s))]
    BY <2>2, <2>4, <2>5, AskedType DEF NativeName
  <2>8. native \in KnownSlugs
    BY <2>3, <2>4, <2>7
  <2> HIDE DEF native
  <2>9. native \in Name /\ native.base = s.base /\ NormalizeEffort(native.effort) = Label(s).effort
    BY <2>2, <2>6 DEF StandsFor, NamedEffort
  <2>10. /\ Label(native) \in Name /\ Label(native).form = "label"
         /\ Label(native).base = native.base
         /\ Label(native).effort = NormalizeEffort(native.effort)
    BY <2>9, NamesStay
  <2>11. Label(native) = Label(s)
    BY <2>2, <2>9, <2>10, NamesEqual
  <2> QED
    BY <2>6, <2>8, <2>11 DEF native
<1> QED
  BY <1>1, SelectionInvariant, PTL

\* A request that names a slug gets the clean base of it.
THEOREM BaseIsAsked == Spec => []RoutesToBase
<1>1. Inv => RoutesToBase
  <2> SUFFICES ASSUME Inv, pc = "selected", SlugListing, request.model.form = "slug"
               PROVE  flags.model = StripEffort(request.model)
    BY DEF RoutesToBase
  <2>1. request.model \in Asked
    BY RequestType DEF Inv
  <2>2. request.model \in Name
    BY <2>1, AskedType
  <2>3. BaseModel \in Name /\ BaseModel.form = "slug" /\ BaseModel.effort = ""
    BY <2>2, NamesStay DEF BaseModel
  <2>4. NativeName(nativeByID, BaseModel) = BaseModel
    BY <2>3, NativeNameStands DEF Inv, MappingStands, Asked
  <2>5. EffortSuffix(BaseModel) = ""
    BY <2>3, NormalizeEffortType DEF EffortSuffix
  <2>6. flags.model = BaseModel
    BY <2>4, <2>5 DEF Inv, FlagsFollow, ModelFlag
  <2> QED
    BY <2>6 DEF BaseModel
<1> QED
  BY <1>1, SelectionInvariant, PTL

\* agy is not given a model of one effort and the flag of another.
THEOREM EffortsAgree == Spec => []FlagsAgree
<1>1. Inv => FlagsAgree
  <2> SUFFICES ASSUME Inv, pc = "selected", SlugListing,
                      request.model.form = "label" => Plain(request.model) \in DOMAIN Listed.native
               PROVE  flags.effort = "" \/ NamedEffort(flags.model) \in {"", flags.effort}
    BY DEF FlagsAgree
  <2> DEFINE native == NativeName(nativeByID, BaseModel)
  <2>1. /\ flags.model = ModelFlag(native)
        /\ flags.effort = "" \/ flags.effort = ReasoningEffort
    BY DEF Inv, FlagsFollow
  <2>2. \A k \in DOMAIN nativeByID : StandsFor(k.name, nativeByID[k])
    BY DEF Inv, MappingStands
  <2>3. request.model \in Asked /\ BaseModel \in Asked
    BY RequestType DEF Inv
  <2>4. CASE request.model.form = "label"
    <3>1. BaseModel = request.model
      BY <2>4 DEF BaseModel, StripEffort
    <3>2. Plain(BaseModel) \in DOMAIN nativeByID
      BY <2>4, <3>1 DEF Inv, MappingStands, FlagsFollow
    <3>3. native.form = "slug" /\ native \in Name
      BY <2>2, <2>3, <2>4, <3>1, <3>2, NativeNameStands DEF StandsFor
    <3>4. EffortSuffix(native) = NamedEffort(native)
      BY <3>3 DEF EffortSuffix, NamedEffort
    <3>5. NamedEffort(StripEffort(native)) = ""
      BY <3>3, NamesStay, NormalizeEffortType DEF NamedEffort
    <3> HIDE DEF native
    <3> QED
      BY <2>1, <3>4, <3>5 DEF ModelFlag
  <2>5. CASE request.model.form # "label"
    <3>1. BaseModel.effort = "" /\ BaseModel.form # "label"
      BY <2>3, <2>5, AskedType, NamesStay DEF BaseModel
    <3>2. native = BaseModel
      BY <2>2, <2>3, <3>1, NativeNameStands
    <3>3. EffortSuffix(BaseModel) = "" /\ NamedEffort(BaseModel) = ""
      BY <3>1, NormalizeEffortType DEF EffortSuffix, NamedEffort
    <3>4. flags.model = BaseModel
      BY <2>1, <3>2, <3>3 DEF ModelFlag
    <3> QED
      BY <3>3, <3>4
  <2> QED
    BY <2>4, <2>5
<1> QED
  BY <1>1, SelectionInvariant, PTL

\* Of two places the first that says something counts.
LEMMA FirstOfTwo ==
    ASSUME NEW a, NEW b
    PROVE  FirstOf(<<a, b>>) = IF a # "" THEN a ELSE b
<1> DEFINE e == <<a, b>>
<1>1. e \in Seq({a, b}) /\ DOMAIN e = 1 .. 2 /\ e[1] = a /\ e[2] = b
  OBVIOUS
<1> HIDE DEF e
<1>d. 1 \in 1 .. 2 /\ 2 \in 1 .. 2 /\ \A i \in 1 .. 2 : i = 1 \/ i = 2
  OBVIOUS
<1>2. \/ FirstOf(e) = "" /\ \A i \in DOMAIN e : e[i] = ""
      \/ \E i \in DOMAIN e : /\ FirstOf(e) = e[i] /\ e[i] # ""
                             /\ \A j \in 1 .. (i - 1) : e[j] = ""
  BY <1>1, FirstOfIs
<1>3. CASE a # ""
  <2>1. 1 \in DOMAIN e /\ e[1] # ""
    BY <1>1, <1>3, <1>d, Zenon
  <2>2. PICK i \in DOMAIN e : FirstOf(e) = e[i] /\ \A j \in 1 .. (i - 1) : e[j] = ""
    BY <1>2, <2>1
  <2>3. i = 1 \/ i = 2
    BY <1>1, <1>d
  <2>4. i # 2
    <3> SUFFICES ASSUME i = 2 PROVE FALSE
      OBVIOUS
    <3>1. 1 \in 1 .. (i - 1)
      OBVIOUS
    <3> QED
      BY <2>1, <2>2, <3>1
  <2>5. FirstOf(e) = a
    BY <1>1, <2>2, <2>3, <2>4
  <2> QED
    BY <1>3, <2>5 DEF e
<1>4. CASE a = ""
  <2>1. CASE \A i \in DOMAIN e : e[i] = ""
    <3>1. 2 \in DOMAIN e
      BY <1>1, <1>d
    <3>2. FirstOf(e) = "" /\ b = ""
      BY <1>1, <1>2, <2>1, <3>1
    <3> QED
      BY <1>4, <3>2 DEF e
  <2>2. CASE ~ \A i \in DOMAIN e : e[i] = ""
    <3>1. PICK i \in DOMAIN e : FirstOf(e) = e[i] /\ e[i] # ""
      BY <1>2, <2>2
    <3>2. i = 1 \/ i = 2
      BY <1>1, <1>d
    <3>3. FirstOf(e) = b
      BY <1>1, <1>4, <3>1, <3>2
    <3> QED
      BY <1>4, <3>3 DEF e
  <2> QED
    BY <2>1, <2>2
<1> QED
  BY <1>3, <1>4

\* Unless the first place says no effort, an effort in either is found.
LEMMA TwoPlaces ==
    ASSUME NEW a \in RawEffort, NEW b \in RawEffort, a # "bogus"
    PROVE  LET e == NormalizeEffort(FirstOf(<<a, b>>))
           IN  /\ e \in {NormalizeEffort(a), NormalizeEffort(b)}
               /\ e = "" => NormalizeEffort(a) = "" /\ NormalizeEffort(b) = ""
<1>1. a = "" \/ NormalizeEffort(a) # ""
  BY NormalizeEffortType DEF RawEffort, Effort
<1>2. FirstOf(<<a, b>>) = IF a # "" THEN a ELSE b
  BY FirstOfTwo
<1> QED
  BY <1>1, <1>2, NormalizeEffortType

\* Of two places an effort is found when either says one that is not hidden.
LEMMA HeardPlaces ==
    \A a, b \in RawEffort :
        /\ \/ NormalizeEffort(FirstOf(<<a, b>>)) = ""
           \/ NormalizeEffort(FirstOf(<<a, b>>)) = NormalizeEffort(a)
           \/ a # "bogus" /\ NormalizeEffort(FirstOf(<<a, b>>)) = NormalizeEffort(b)
        /\ NormalizeEffort(FirstOf(<<a, b>>)) = ""
              => NormalizeEffort(a) = "" /\ (a = "bogus" \/ NormalizeEffort(b) = "")
<1> SUFFICES ASSUME NEW a \in RawEffort, NEW b \in RawEffort
             PROVE  LET e == NormalizeEffort(FirstOf(<<a, b>>))
                    IN  /\ \/ e = "" \/ e = NormalizeEffort(a)
                           \/ a # "bogus" /\ e = NormalizeEffort(b)
                        /\ e = "" => /\ NormalizeEffort(a) = ""
                                     /\ a = "bogus" \/ NormalizeEffort(b) = ""
  OBVIOUS
<1>1. CASE a = "bogus"
  <2>1. NormalizeEffort(a) = "" /\ FirstOf(<<a, b>>) = a
    BY <1>1, FirstOfTwo DEF NormalizeEffort, Effort
  <2> QED
    BY <1>1, <2>1
<1>2. CASE a # "bogus"
  BY <1>2, TwoPlaces
<1> QED
  BY <1>1, <1>2

\* What is heard comes from one of the first five places, and they come first.
LEMMA HeardCounts ==
    ASSUME TypeOK, Heard # {}
    PROVE  FirstOf(Places) \in Heard
<1> DEFINE wish == {Places[1], Places[2], Places[3], Places[4], Places[5]}
           a == request.agyHeader
           b == request.header
           c == request.reasoningMeta
           d == request.effortMeta
<1>1. Places \in Seq(Effort \union {""}) /\ DOMAIN Places = 1 .. 7
  BY PlacesType DEF TypeOK
<1>2. a \in RawEffort /\ b \in RawEffort /\ c \in RawEffort /\ d \in RawEffort
  BY RequestsAssumption DEF TypeOK, Request
<1>3. Heard = {EffortSuffix(request.model), NormalizeEffort(request.colon),
               NormalizeEffort(request.payload), NormalizeEffort(a), NormalizeEffort(c),
               IF a = "bogus" THEN "" ELSE NormalizeEffort(b),
               IF c = "bogus" THEN "" ELSE NormalizeEffort(d)} \ {""}
  BY DEF Heard
<1>4. /\ Places[1] = NormalizeEffort(request.colon) /\ Places[2] = EffortSuffix(request.model)
      /\ Places[3] = NormalizeEffort(request.payload)
      /\ Places[4] = NormalizeEffort(FirstOf(<<a, b>>))
      /\ Places[5] = NormalizeEffort(FirstOf(<<c, d>>))
  BY DEF Places
<1> HIDE DEF a, b, c, d
<1>5. /\ \/ Places[4] = "" \/ Places[4] = NormalizeEffort(a)
         \/ a # "bogus" /\ Places[4] = NormalizeEffort(b)
      /\ Places[4] = "" => /\ NormalizeEffort(a) = ""
                           /\ a = "bogus" \/ NormalizeEffort(b) = ""
  <2>1. \/ Places[4] = "" \/ Places[4] = NormalizeEffort(a)
        \/ a # "bogus" /\ Places[4] = NormalizeEffort(b)
    BY <1>2, <1>4, HeardPlaces, Zenon
  <2>2. NormalizeEffort(FirstOf(<<a, b>>)) = ""
        => NormalizeEffort(a) = "" /\ (a = "bogus" \/ NormalizeEffort(b) = "")
    BY <1>2, HeardPlaces, Zenon
  <2>3. Places[4] = "" => NormalizeEffort(a) = "" /\ (a = "bogus" \/ NormalizeEffort(b) = "")
    BY <1>4, <2>2, Zenon
  <2> QED
    BY <2>1, <2>3
<1>6. /\ \/ Places[5] = "" \/ Places[5] = NormalizeEffort(c)
         \/ c # "bogus" /\ Places[5] = NormalizeEffort(d)
      /\ Places[5] = "" => /\ NormalizeEffort(c) = ""
                           /\ c = "bogus" \/ NormalizeEffort(d) = ""
  <2>1. \/ Places[5] = "" \/ Places[5] = NormalizeEffort(c)
        \/ c # "bogus" /\ Places[5] = NormalizeEffort(d)
    BY <1>2, <1>4, HeardPlaces, Zenon
  <2>2. NormalizeEffort(FirstOf(<<c, d>>)) = ""
        => NormalizeEffort(c) = "" /\ (c = "bogus" \/ NormalizeEffort(d) = "")
    BY <1>2, HeardPlaces, Zenon
  <2>3. Places[5] = "" => NormalizeEffort(c) = "" /\ (c = "bogus" \/ NormalizeEffort(d) = "")
    BY <1>4, <2>2, Zenon
  <2> QED
    BY <2>1, <2>3
<1>7. wish \ {""} \subseteq Heard
  BY <1>3, <1>4, <1>5, <1>6
<1>8. PICK k \in 1 .. 5 : Places[k] # ""
  <2>0. 1 \in 1 .. 5 /\ 2 \in 1 .. 5 /\ 3 \in 1 .. 5 /\ 4 \in 1 .. 5 /\ 5 \in 1 .. 5
    OBVIOUS
  <2> SUFFICES ASSUME \A k \in 1 .. 5 : Places[k] = "" PROVE FALSE
    OBVIOUS
  <2>1. /\ Places[1] = "" /\ Places[2] = "" /\ Places[3] = "" /\ Places[4] = ""
        /\ Places[5] = ""
    BY <2>0, Zenon
  <2>2. Heard = {}
    BY <1>3, <1>4, <1>5, <1>6, <2>1
  <2> QED
    BY <2>2
<1>9. PICK i \in 1 .. 7 : /\ FirstOf(Places) = Places[i] /\ Places[i] # ""
                          /\ \A j \in 1 .. (i - 1) : Places[j] = ""
  <2>1. \/ FirstOf(Places) = "" /\ \A i \in DOMAIN Places : Places[i] = ""
        \/ \E i \in DOMAIN Places : /\ FirstOf(Places) = Places[i] /\ Places[i] # ""
                                    /\ \A j \in 1 .. (i - 1) : Places[j] = ""
    BY <1>1, FirstOfIs
  <2>2. k \in 1 .. 7
    OBVIOUS
  <2> QED
    BY <1>1, <1>8, <2>1, <2>2
<1>10. i \in 1 .. 5
  <2>1. ~(k \in 1 .. (i - 1))
    BY <1>8, <1>9
  <2> QED
    BY <2>1
<1>11. Places[i] \in wish
  BY <1>10
<1> QED
  BY <1>7, <1>9, <1>11

\* When nothing is heard, the first five places say nothing.
LEMMA NothingHeard ==
    ASSUME TypeOK, Heard = {}
    PROVE  Places[1] = "" /\ Places[2] = "" /\ Places[3] = "" /\ Places[4] = "" /\ Places[5] = ""
<1> DEFINE a == request.agyHeader
           b == request.header
           c == request.reasoningMeta
           d == request.effortMeta
<1>1. a \in RawEffort /\ b \in RawEffort /\ c \in RawEffort /\ d \in RawEffort
  BY RequestsAssumption DEF TypeOK, Request
<1>2. /\ Places[1] = NormalizeEffort(request.colon) /\ Places[2] = EffortSuffix(request.model)
      /\ Places[3] = NormalizeEffort(request.payload)
      /\ Places[4] = NormalizeEffort(FirstOf(<<a, b>>))
      /\ Places[5] = NormalizeEffort(FirstOf(<<c, d>>))
  BY DEF Places
<1>3. /\ EffortSuffix(request.model) = "" /\ NormalizeEffort(request.colon) = ""
      /\ NormalizeEffort(request.payload) = ""
      /\ NormalizeEffort(a) = "" /\ NormalizeEffort(c) = ""
      /\ a # "bogus" => NormalizeEffort(b) = ""
      /\ c # "bogus" => NormalizeEffort(d) = ""
  BY DEF Heard
<1> HIDE DEF a, b, c, d
<1>4. Places[4] = ""
  <2>1. /\ \/ Places[4] = "" \/ Places[4] = NormalizeEffort(a)
           \/ a # "bogus" /\ Places[4] = NormalizeEffort(b)
    BY <1>1, <1>2, HeardPlaces, Zenon
  <2> QED
    BY <1>3, <2>1
<1>5. Places[5] = ""
  <2>1. /\ \/ Places[5] = "" \/ Places[5] = NormalizeEffort(c)
           \/ c # "bogus" /\ Places[5] = NormalizeEffort(d)
    BY <1>1, <1>2, HeardPlaces, Zenon
  <2> QED
    BY <1>3, <2>1
<1> QED
  BY <1>2, <1>3, <1>4, <1>5

LEMMA SevenPlaces == \A i \in 1 .. 7 : i \in {1, 2, 3, 4, 5, 6, 7}
OBVIOUS

\* A label of which nothing else is said keeps its effort: without a default of the
\* configuration, or with the same, agy gets it.
LEMMA LabelCounts ==
    ASSUME Inv, pc = "selected", Heard = {}, LabelEffort # "",
           configured \in {"", LabelEffort},
           SupportsEffort(BaseModel), SupportsEffort(flags.model)
    PROVE  EffortGiven = LabelEffort
<1> DEFINE native == NativeName(nativeByID, BaseModel)
<1>1. request.model.form = "label" /\ LabelEffort = NormalizeEffort(request.model.effort)
  BY DEF LabelEffort, NamedEffort
<1>2. BaseModel = request.model /\ request.model \in Name
  BY <1>1, RequestType, AskedType DEF Inv, BaseModel, StripEffort
<1>3. /\ flags.model = ModelFlag(native)
      /\ flags.effort = FirstOf(Places) /\ ReasoningEffort = FirstOf(Places)
  BY PlacesType DEF Inv, FlagsFollow, TypeOK
<1>4. FirstOf(Places) \in {"", configured}
  <2>1. /\ Places \in Seq(Effort \union {""}) /\ DOMAIN Places = 1 .. 7
    BY PlacesType DEF Inv, TypeOK
  <2>2. Places[1] = "" /\ Places[2] = "" /\ Places[3] = "" /\ Places[4] = "" /\ Places[5] = ""
    BY NothingHeard DEF Inv
  <2>3. Places[6] = configured /\ Places[7] = ""
    BY <1>1, <1>2 DEF Places, DefaultEffort
  <2>4. \A i \in 1 .. 7 : Places[i] \in {"", configured}
    BY <2>2, <2>3, SevenPlaces
  <2>5. FirstOf(Places) = "" \/ \E i \in DOMAIN Places : FirstOf(Places) = Places[i]
    BY <2>1, FirstOfIs
  <2> QED
    BY <2>1, <2>4, <2>5
<1>5. CASE FirstOf(Places) # ""
  BY <1>3, <1>4, <1>5 DEF EffortGiven
<1>6. CASE FirstOf(Places) = ""
  <2>1. flags.model = native
    BY <1>3, <1>6 DEF ModelFlag
  <2>2. native = request.model \/ NamedEffort(native) = request.model.effort
    <3>1. request.model # NoName
      BY <1>2, AskedType DEF Asked
    <3>2. \A k \in DOMAIN nativeByID :
             k.name.form = "label" => NamedEffort(nativeByID[k]) = k.name.effort
      BY DEF Inv, LabelsShow
    <3>3. Plain(request.model).name = request.model /\ AgyId(request.model).name = request.model
      BY DEF Plain, AgyId
    <3> QED
      BY <1>1, <1>2, <3>1, <3>2, <3>3 DEF NativeName
  <2>3. NamedEffort(native) = request.model.effort
        => NamedEffort(native) = NormalizeEffort(request.model.effort)
    <3>1. NormalizeEffort(NamedEffort(native)) = NamedEffort(native)
      BY NormalizeEffortType DEF NamedEffort
    <3> QED
      BY <3>1
  <2>4. NamedEffort(native) = LabelEffort
    BY <1>1, <2>2, <2>3 DEF NamedEffort
  <2> QED
    BY <1>3, <1>6, <2>1, <2>4 DEF EffortGiven
<1> QED
  BY <1>5, <1>6

\* An effort that the request asks for comes before every default, but for one that
\* only a label says against the configuration, or only a place behind another that
\* says no effort.
THEOREM WishesCount == Spec => []WishesBeatDefaults
<1>1. Inv => WishesBeatDefaults
  <2> SUFFICES ASSUME Inv, pc = "selected", ~Overruled,
                      SupportsEffort(BaseModel), SupportsEffort(flags.model)
               PROVE  EffortGiven \in Wishes
    <3>1. Inv /\ pc = "selected" /\ ~(SupportsEffort(BaseModel) /\ SupportsEffort(flags.model))
          => flags.effort = ""
      BY PlacesType DEF Inv, FlagsFollow, TypeOK
    <3> QED
      BY <3>1 DEF WishesBeatDefaults
  <2>1. CASE Heard # {}
    <3>1. FirstOf(Places) \in Heard
      BY <2>1, HeardCounts DEF Inv
    <3>2. flags.effort = FirstOf(Places)
      BY PlacesType DEF Inv, FlagsFollow, TypeOK
    <3>3. EffortSuffix(request.model) \in {"", NormalizeEffort(request.model.effort)}
      BY DEF EffortSuffix
    <3>4. Heard \subseteq Wishes /\ "" \notin Heard
      BY <3>3 DEF Heard, Wishes
    <3> QED
      BY <3>1, <3>2, <3>4 DEF EffortGiven
  <2>2. CASE Heard = {}
    <3>1. LabelEffort # "" /\ configured \in {"", LabelEffort}
      BY <2>2 DEF Overruled
    <3>2. EffortGiven = LabelEffort
      BY <2>2, <3>1, LabelCounts
    <3>3. LabelEffort = NormalizeEffort(request.model.effort)
      BY <3>1 DEF LabelEffort, NamedEffort
    <3> QED
      BY <3>1, <3>2, <3>3 DEF Wishes
  <2> QED
    BY <2>1, <2>2
<1> QED
  BY <1>1, SelectionInvariant, PTL

-----------------------------------------------------------------------------
(* Sequences and scanners. *)

\* What holds of no character, and of one more, holds of every text.
LEMMA TextInduction ==
    ASSUME NEW A, NEW S, << >> \in S,
           \A v \in Seq(A) : \A c \in A : v \in S => Append(v, c) \in S
    PROVE  Seq(A) \subseteq S
<1> DEFINE L == {n \in Nat : \A v \in Seq(A) : Len(v) = n => v \in S}
<1>1. 0 \in L
  <2>1. \A v \in Seq(A) : Len(v) = 0 => v = << >>
    OBVIOUS
  <2> QED
    BY <2>1
<1>2. ASSUME NEW n \in Nat, n \in L PROVE n + 1 \in L
  <2> SUFFICES ASSUME NEW v \in Seq(A), Len(v) = n + 1 PROVE v \in S
    OBVIOUS
  <2> DEFINE front == SubSeq(v, 1, n)
  <2>1. front \in Seq(A) /\ Len(front) = n /\ v[n + 1] \in A
    OBVIOUS
  <2>2. v = Append(front, v[n + 1])
    OBVIOUS
  <2>3. front \in S
    BY <1>2, <2>1
  <2> HIDE DEF front
  <2> QED
    BY <2>1, <2>2, <2>3
<1>3. Nat \subseteq L
  <2> HIDE DEF L
  <2>1. \A n \in Nat : n \in L => n + 1 \in L
    BY <1>2
  <2> QED
    BY <1>1, <2>1, Induction
<1> SUFFICES ASSUME NEW v \in Seq(A) PROVE v \in S
  OBVIOUS
<1>4. Len(v) \in Nat
  OBVIOUS
<1> QED
  BY <1>3, <1>4

\* The recursion of Scan over the first n characters.
Scans(f, text, scanner, start, n) ==
    f = [i \in 0 .. n |-> IF i = 0 THEN Go(start, << >>)
                          ELSE Read(scanner, f[i - 1], text[i])]

LEMMA ScanSteps ==
    ASSUME NEW text, Len(text) \in Nat, NEW scanner, NEW start
    PROVE  \E f : /\ Scans(f, text, scanner, start, Len(text))
                  /\ Scan(text, scanner, start) = f[Len(text)]
<1> DEFINE S == {n \in Nat : \E f : Scans(f, text, scanner, start, n)}
<1>1. 0 \in S
  <2>1. Scans([i \in 0 .. 0 |-> Go(start, << >>)], text, scanner, start, 0)
    BY DEF Scans
  <2> QED
    BY <2>1
<1>2. ASSUME NEW n \in Nat, n \in S PROVE n + 1 \in S
  <2>1. PICK f : Scans(f, text, scanner, start, n)
    BY <1>2
  <2> DEFINE g == [i \in 0 .. (n + 1) |-> IF i <= n THEN f[i] ELSE Read(scanner, f[n], text[n + 1])]
  <2>2. f[0] = Go(start, << >>) /\ \A i \in 1 .. n : f[i] = Read(scanner, f[i - 1], text[i])
    BY <2>1 DEF Scans
  <2>3. ASSUME NEW i \in 0 .. (n + 1)
        PROVE  g[i] = IF i = 0 THEN Go(start, << >>) ELSE Read(scanner, g[i - 1], text[i])
    <3>1. CASE i = 0
      BY <3>1, <2>2
    <3>2. CASE i \in 1 .. n
      <4>1. g[i] = f[i] /\ g[i - 1] = f[i - 1]
        BY <3>2
      <4> QED
        BY <3>2, <4>1, <2>2
    <3>3. CASE i = n + 1
      <4>1. g[i - 1] = f[n]
        BY <3>3
      <4> QED
        BY <3>3, <4>1
    <3> QED
      BY <3>1, <3>2, <3>3
  <2>4. Scans(g, text, scanner, start, n + 1)
    BY <2>3 DEF Scans
  <2> QED
    BY <2>4
<1>3. Len(text) \in S
  <2> HIDE DEF S
  <2>1. \A n \in Nat : n \in S => n + 1 \in S
    BY <1>2
  <2> QED
    BY <1>1, <2>1, Induction
<1> DEFINE upTo == CHOOSE f : Scans(f, text, scanner, start, Len(text))
<1>4. Scans(upTo, text, scanner, start, Len(text))
  BY <1>3
<1>5. Scan(text, scanner, start) = upTo[Len(text)]
  BY DEF Scan, Scans
<1> QED
  BY <1>4, <1>5

\* A scanner that has read nothing has written nothing, ...
LEMMA ScanNothing ==
    ASSUME NEW scanner, NEW start
    PROVE  Scan(<< >>, scanner, start) = Go(start, << >>)
<1>1. Len(<< >>) = 0
  OBVIOUS
<1>2. PICK f : Scans(f, << >>, scanner, start, 0) /\ Scan(<< >>, scanner, start) = f[0]
  BY <1>1, ScanSteps
<1> QED
  BY <1>2 DEF Scans

\* ... and goes on with the next character from where it was.
LEMMA ScanAppend ==
    ASSUME NEW A, NEW text \in Seq(A), NEW c, NEW scanner, NEW start
    PROVE  LET before == Scan(text, scanner, start)
           IN  Scan(Append(text, c), scanner, start)
                   = Read(scanner, before, c)
<1> DEFINE n == Len(text)
           longer == Append(text, c)
<1>1. /\ n \in Nat /\ Len(longer) = n + 1 /\ longer[n + 1] = c
      /\ \A i \in 1 .. n : longer[i] = text[i]
  OBVIOUS
<1>2. PICK f : Scans(f, text, scanner, start, n) /\ Scan(text, scanner, start) = f[n]
  BY <1>1, ScanSteps
<1> HIDE DEF longer
<1>3. PICK g : Scans(g, longer, scanner, start, n + 1) /\ Scan(longer, scanner, start) = g[n + 1]
  <2>1. Len(longer) \in Nat
    BY <1>1
  <2> QED
    BY <1>1, <2>1, ScanSteps
<1>4. f[0] = Go(start, << >>) /\ \A i \in 1 .. n : f[i] = Read(scanner, f[i - 1], text[i])
  BY <1>1, <1>2 DEF Scans
<1>5. g[0] = Go(start, << >>) /\ \A i \in 1 .. (n + 1) : g[i] = Read(scanner, g[i - 1], longer[i])
  BY <1>1, <1>3 DEF Scans
<1> HIDE DEF n
<1> DEFINE S == {i \in Nat : i <= n => f[i] = g[i]}
<1>6. 0 \in S
  BY <1>4, <1>5
<1>7. ASSUME NEW i \in Nat, i \in S PROVE i + 1 \in S
  <2> SUFFICES ASSUME i + 1 <= n PROVE f[i + 1] = g[i + 1]
    OBVIOUS
  <2>1. i + 1 \in 1 .. n /\ i + 1 \in 1 .. (n + 1) /\ (i + 1) - 1 = i /\ f[i] = g[i]
    BY <1>1, <1>7
  <2>2. f[i + 1] = Read(scanner, f[i], text[i + 1])
    BY <1>4, <2>1
  <2>3. g[i + 1] = Read(scanner, g[i], longer[i + 1])
    BY <1>5, <2>1
  <2>4. longer[i + 1] = text[i + 1]
    BY <1>1, <2>1
  <2> QED
    BY <2>1, <2>2, <2>3, <2>4
<1>8. n \in S
  <2> HIDE DEF S
  <2>1. \A i \in Nat : i \in S => i + 1 \in S
    BY <1>7
  <2> QED
    BY <1>1, <1>6, <2>1, Induction
<1>9. g[n + 1] = Read(scanner, g[n], c)
  <2>1. n + 1 \in 1 .. (n + 1) /\ (n + 1) - 1 = n
    BY <1>1
  <2> QED
    BY <1>1, <1>5, <2>1
<1> QED
  BY <1>1, <1>2, <1>3, <1>8, <1>9 DEF longer

-----------------------------------------------------------------------------
(* The scanners of ConfigFile. *)

LEMMA CharType ==
    /\ Text = Seq(Char) /\ << >> \in Text
    /\ \A c \in Char : <<c>> \in Text /\ <<c, c>> \in Text /\ <<"bs", c>> \in Text
    /\ "sq" \in Char /\ "dq" \in Char /\ "bs" \in Char /\ "hash" \in Char /\ "blank" \in Char
    /\ "junk" \in Char
BY DEF Text, Char, Word

LEMMA GoFields ==
    ASSUME NEW m, NEW o
    PROVE  Go(m, o).mode = m /\ Go(m, o).out = o
BY DEF Go

\* What a scanner writes is a text, and it stays in its modes.
LEMMA ScanType ==
    ASSUME NEW Modes, NEW scanner, NEW start \in Modes, NEW text \in Text,
           \A m \in Modes : \A c \in Char : \E n \in Modes : \E o \in Text : scanner[m][c] = Go(n, o)
    PROVE  \E n \in Modes : \E o \in Text : Scan(text, scanner, start) = Go(n, o)
<1> DEFINE S == {v \in Text : \E n \in Modes : \E o \in Text : Scan(v, scanner, start) = Go(n, o)}
<1>1. << >> \in S
  <2>1. << >> \in Text
    BY CharType
  <2>2. Scan(<< >>, scanner, start) = Go(start, << >>)
    BY ScanNothing
  <2>3. \E n \in Modes : \E o \in Text : Scan(<< >>, scanner, start) = Go(n, o)
    BY <2>1, <2>2
  <2> QED
    BY <2>1, <2>3
<1>2. ASSUME NEW v \in Seq(Char), NEW c \in Char, v \in S PROVE Append(v, c) \in S
  <2>1. PICK n \in Modes, o \in Text : Scan(v, scanner, start) = Go(n, o)
    BY <1>2
  <2>2. PICK m \in Modes, p \in Text : scanner[n][c] = Go(m, p)
    OBVIOUS
  <2>3. Scan(Append(v, c), scanner, start) = Read(scanner, Go(n, o), c)
    BY <2>1, ScanAppend
  <2>4. Read(scanner, Go(n, o), c) = Go(m, o \o p)
    BY <2>2, GoFields DEF Read
  <2>5. o \o p \in Text /\ Append(v, c) \in Text
    BY CharType
  <2> QED
    BY <2>3, <2>4, <2>5
<1>3. Seq(Char) \subseteq S
  <2> HIDE DEF S
  <2>1. \A v \in Seq(Char) : \A c \in Char : v \in S => Append(v, c) \in S
    BY <1>2
  <2> QED
    BY <1>1, <2>1, TextInduction
<1> QED
  BY <1>3, CharType

\* stripYAMLComment keeps a character as long as it is not in a comment.
LEMMA StripRead ==
    ASSUME NEW m \in {"plain", "single", "double", "escape", "comment"}, NEW c \in Char,
           NEW x \in Text
    PROVE  Read(Stripping, Go(m, x), c)
               = Go(ScanMode(m, c), IF ScanMode(m, c) = "comment" THEN x ELSE Append(x, c))
<1>1. Stripping[m][c] = Go(ScanMode(m, c), IF ScanMode(m, c) = "comment" THEN << >> ELSE <<c>>)
  BY DEF Stripping
<1>2. x \o << >> = x /\ x \o <<c>> = Append(x, c)
  BY DEF Text
<1>3. /\ Stripping[m][c].mode = ScanMode(m, c)
      /\ Stripping[m][c].out = IF ScanMode(m, c) = "comment" THEN << >> ELSE <<c>>
  BY <1>1, GoFields
<1>4. Read(Stripping, Go(m, x), c) = Go(ScanMode(m, c), x \o Stripping[m][c].out)
  BY <1>3, GoFields DEF Read
<1> QED
  BY <1>2, <1>3, <1>4

LEMMA StripStep ==
    ASSUME NEW m \in {"plain", "single", "double", "escape", "comment"}, NEW c \in Char,
           NEW t \in Text, NEW x \in Text, Scan(t, Stripping, "plain") = Go(m, x)
    PROVE  Scan(Append(t, c), Stripping, "plain")
               = Go(ScanMode(m, c), IF ScanMode(m, c) = "comment" THEN x ELSE Append(x, c))
<1>1. Scan(Append(t, c), Stripping, "plain") = Read(Stripping, Go(m, x), c)
  BY CharType, ScanAppend
<1> QED
  BY <1>1, StripRead

\* A line whose quotes are closed keeps all that is before its comment.
LEMMA StripLine ==
    ASSUME NEW x \in Text, Scan(x, Stripping, "plain") = Go("plain", x)
    PROVE  /\ stripYAMLComment(x) = x
           /\ stripYAMLComment(x \o Comment) = Append(x, "blank")
<1> DEFINE y == Append(x, "blank")
<1>1. y \in Text
  BY CharType
<1>2. Scan(y, Stripping, "plain") = Go("plain", y)
  BY CharType, StripStep DEF ScanMode
<1> HIDE DEF y
<1>3. Scan(Append(y, "hash"), Stripping, "plain") = Go("comment", y)
  BY <1>1, <1>2, CharType, StripStep DEF ScanMode
<1>4. \A t \in Text, c \in Char :
          Scan(t, Stripping, "plain") = Go("comment", y)
          => Append(t, c) \in Text /\ Scan(Append(t, c), Stripping, "plain") = Go("comment", y)
  BY <1>1, CharType, StripStep DEF ScanMode
<1> DEFINE z == Append(y, "hash")
<1>5. z \in Text /\ Scan(z, Stripping, "plain") = Go("comment", y)
  BY <1>1, <1>3, CharType
<1> HIDE DEF z
<1>6. Scan(Append(Append(Append(z, "blank"), "junk"), "sq"), Stripping, "plain") = Go("comment", y)
  BY <1>4, <1>5, CharType
<1>7. x \o Comment = Append(Append(Append(z, "blank"), "junk"), "sq")
  BY CharType DEF Comment, z, y
<1>8. Scan(x \o Comment, Stripping, "plain") = Go("comment", y)
  BY <1>6, <1>7
<1>9. stripYAMLComment(x) = x
  BY GoFields DEF stripYAMLComment
<1>10. stripYAMLComment(x \o Comment) = y
  BY <1>8, GoFields DEF stripYAMLComment
<1> QED
  BY <1>9, <1>10 DEF y

\* The scanners that write a quoted text stay in their one mode.
LEMMA DoublingStep ==
    ASSUME NEW v \in Text, NEW c \in Char
    PROVE  LET d == Scan(v, Doubling, "text").out
           IN  /\ d \in Text /\ Scan(v, Doubling, "text") = Go("text", d)
               /\ Scan(Append(v, c), Doubling, "text")
                      = Go("text", d \o (IF c = "sq" THEN <<c, c>> ELSE <<c>>))
<1>1. \A b \in Char : Doubling["text"][b] = Go("text", IF b = "sq" THEN <<b, b>> ELSE <<b>>)
  BY DEF Doubling
<1>2. \A b \in Char : (IF b = "sq" THEN <<b, b>> ELSE <<b>>) \in Text
  BY CharType
<1>3. PICK d \in Text : Scan(v, Doubling, "text") = Go("text", d)
  <2> DEFINE M == {"text"}
  <2>1. \A m \in M : \A b \in Char : \E n \in M : \E o \in Text : Doubling[m][b] = Go(n, o)
    BY <1>1, <1>2
  <2>2. "text" \in M /\ \A m \in M : m = "text"
    OBVIOUS
  <2> HIDE DEF M
  <2>3. \E n \in M : \E o \in Text : Scan(v, Doubling, "text") = Go(n, o)
    BY <2>1, <2>2, ScanType
  <2> QED
    BY <2>2, <2>3
<1>4. Scan(Append(v, c), Doubling, "text") = Read(Doubling, Go("text", d), c)
  BY <1>3, CharType, ScanAppend
<1>5. Read(Doubling, Go("text", d), c) = Go("text", d \o (IF c = "sq" THEN <<c, c>> ELSE <<c>>))
  BY <1>1, GoFields DEF Read
<1> QED
  BY <1>3, <1>4, <1>5, GoFields

LEMMA EscapingStep ==
    ASSUME NEW v \in Text, NEW c \in Char
    PROVE  LET d == Scan(v, Escaping, "text").out
           IN  /\ d \in Text /\ Scan(v, Escaping, "text") = Go("text", d)
               /\ Scan(Append(v, c), Escaping, "text")
                      = Go("text", d \o (IF c \in {"dq", "bs"} THEN <<"bs", c>> ELSE <<c>>))
<1>1. \A b \in Char : Escaping["text"][b]
                          = Go("text", IF b \in {"dq", "bs"} THEN <<"bs", b>> ELSE <<b>>)
  BY DEF Escaping
<1>2. \A b \in Char : (IF b \in {"dq", "bs"} THEN <<"bs", b>> ELSE <<b>>) \in Text
  BY CharType
<1>3. PICK d \in Text : Scan(v, Escaping, "text") = Go("text", d)
  <2> DEFINE M == {"text"}
  <2>1. \A m \in M : \A b \in Char : \E n \in M : \E o \in Text : Escaping[m][b] = Go(n, o)
    BY <1>1, <1>2
  <2>2. "text" \in M /\ \A m \in M : m = "text"
    OBVIOUS
  <2> HIDE DEF M
  <2>3. \E n \in M : \E o \in Text : Scan(v, Escaping, "text") = Go(n, o)
    BY <2>1, <2>2, ScanType
  <2> QED
    BY <2>2, <2>3
<1>4. Scan(Append(v, c), Escaping, "text") = Read(Escaping, Go("text", d), c)
  BY <1>3, CharType, ScanAppend
<1>5. Read(Escaping, Go("text", d), c)
          = Go("text", d \o (IF c \in {"dq", "bs"} THEN <<"bs", c>> ELSE <<c>>))
  BY <1>1, GoFields DEF Read
<1> QED
  BY <1>3, <1>4, <1>5, GoFields

\* Some texts put together.
LEMMA Joins ==
    ASSUME NEW x \in Text, NEW d \in Text, NEW b \in Char, NEW c \in Char
    PROVE  /\ x \o Append(d, c) = Append(x \o d, c)
           /\ x \o Append(Append(d, b), c) = Append(Append(x \o d, b), c)
           /\ x \o d \in Text /\ Append(x, c) \in Text
           /\ d \o <<c>> = Append(d, c) /\ d \o <<b, c>> = Append(Append(d, b), c)
           /\ x \o << >> = x
<1>1. d \o <<c>> = Append(d, c) /\ d \o <<b, c>> = Append(Append(d, b), c)
  BY DEF Text
<1>2. x \o Append(d, c) = Append(x \o d, c)
  BY DEF Text
<1>3. x \o Append(Append(d, b), c) = Append(Append(x \o d, b), c)
  BY DEF Text
<1>4. x \o d \in Text /\ Append(x, c) \in Text /\ x \o << >> = x
  BY DEF Text
<1> QED
  BY <1>1, <1>2, <1>3, <1>4

LEMMA ScanStep ==
    ASSUME NEW t \in Text, NEW c, NEW scanner, NEW start, NEW m, NEW x,
           Scan(t, scanner, start) = Go(m, x)
    PROVE  Scan(Append(t, c), scanner, start) = Read(scanner, Go(m, x), c)
BY CharType, ScanAppend

\* A text that the scan has kept as it is.
Kept(t, m) == t \in Text /\ Scan(t, Stripping, "plain") = Go(m, t)

LEMMA ModeSteps ==
    /\ \A c \in Char : /\ ScanMode("single", c) = IF c = "sq" THEN "plain" ELSE "single"
                       /\ ScanMode("escape", c) = "double"
                       /\ c \notin {"dq", "bs"} => ScanMode("double", c) = "double"
    /\ ScanMode("double", "dq") = "plain" /\ ScanMode("double", "bs") = "escape"
    /\ ScanMode("plain", "sq") = "single" /\ ScanMode("plain", "dq") = "double"
    /\ \A c \in Word \union {"blank"} : ScanMode("plain", c) = "plain"
<1>1. \A c \in Char : /\ ScanMode("single", c) = IF c = "sq" THEN "plain" ELSE "single"
                      /\ ScanMode("escape", c) = "double"
                      /\ c \notin {"dq", "bs"} => ScanMode("double", c) = "double"
  BY DEF ScanMode
<1>2. ScanMode("double", "dq") = "plain" /\ ScanMode("double", "bs") = "escape"
  BY DEF ScanMode
<1>3. ScanMode("plain", "sq") = "single" /\ ScanMode("plain", "dq") = "double"
  BY DEF ScanMode
<1>4. \A c \in Word \union {"blank"} : ScanMode("plain", c) = "plain"
  BY DEF ScanMode, Word
<1> QED
  BY <1>1, <1>2, <1>3, <1>4

LEMMA KeptStep ==
    ASSUME NEW m \in {"plain", "single", "double", "escape"},
           NEW n \in {"plain", "single", "double", "escape"}, NEW c \in Char,
           ScanMode(m, c) = n, NEW t, Kept(t, m)
    PROVE  Kept(Append(t, c), n)
<1>1. t \in Text /\ Append(t, c) \in Text
  BY CharType, Joins DEF Kept
<1>2. Scan(Append(t, c), Stripping, "plain") = Go(n, Append(t, c))
  BY <1>1, StripStep DEF Kept
<1> QED
  BY <1>1, <1>2 DEF Kept

\* The scan goes through the blank and the quote before a value.
LEMMA KeptOpening ==
    /\ Kept(<<"blank">>, "plain")
    /\ Kept(<<"blank">> \o <<"sq">>, "single") /\ Kept(<<"blank">> \o <<"dq">>, "double")
<1>1. Kept(<< >>, "plain")
  BY CharType, ScanNothing DEF Kept
<1>2. Append(<< >>, "blank") = <<"blank">>
  OBVIOUS
<1>3. /\ <<"blank">> \o <<"sq">> = Append(<<"blank">>, "sq")
      /\ <<"blank">> \o <<"dq">> = Append(<<"blank">>, "dq")
  BY CharType, Joins
<1>4. Kept(<<"blank">>, "plain")
  BY <1>1, <1>2, CharType, ModeSteps, KeptStep
<1>5. Kept(<<"blank">> \o <<"sq">>, "single")
  BY <1>3, <1>4, CharType, ModeSteps, KeptStep
<1>6. Kept(<<"blank">> \o <<"dq">>, "double")
  BY <1>3, <1>4, CharType, ModeSteps, KeptStep
<1> QED
  BY <1>4, <1>5, <1>6

\* What doubling and escaping write, character by character.
Doubled(v) == Scan(v, Doubling, "text").out
Escaped(v) == Scan(v, Escaping, "text").out

LEMMA DoubledSteps ==
    /\ Doubled(<< >>) = << >>
    /\ \A w \in Text : Doubled(w) \in Text
    /\ \A w \in Text, c \in Char :
           /\ c # "sq" => Doubled(Append(w, c)) = Append(Doubled(w), c)
           /\ c = "sq" => Doubled(Append(w, c)) = Append(Append(Doubled(w), c), c)
<1>1. Doubled(<< >>) = << >>
  BY ScanNothing, GoFields DEF Doubled
<1>2. ASSUME NEW w \in Text, NEW c \in Char
      PROVE  /\ Doubled(w) \in Text
             /\ c # "sq" => Doubled(Append(w, c)) = Append(Doubled(w), c)
             /\ c = "sq" => Doubled(Append(w, c)) = Append(Append(Doubled(w), c), c)
  <2> DEFINE d == Doubled(w)
             e == Scan(Append(w, c), Doubling, "text")
  <2>1. d \in Text /\ e = Go("text", d \o (IF c = "sq" THEN <<c, c>> ELSE <<c>>))
    BY DoublingStep DEF Doubled
  <2> HIDE DEF d, e
  <2>2. e.out = d \o (IF c = "sq" THEN <<c, c>> ELSE <<c>>)
    BY <2>1, GoFields
  <2>3. d \o <<c>> = Append(d, c) /\ d \o <<c, c>> = Append(Append(d, c), c)
    BY <2>1, CharType, Joins
  <2>4. c # "sq" => e.out = Append(d, c)
    BY <2>2, <2>3
  <2>5. c = "sq" => e.out = Append(Append(d, c), c)
    BY <2>2, <2>3
  <2> QED
    BY <2>1, <2>4, <2>5 DEF d, e, Doubled
<1>3. "sq" \in Char
  BY CharType
<1> QED
  BY <1>1, <1>2, <1>3

LEMMA EscapedSteps ==
    /\ Escaped(<< >>) = << >>
    /\ \A w \in Text : Escaped(w) \in Text
    /\ \A w \in Text, c \in Char :
           /\ c \notin {"dq", "bs"} => Escaped(Append(w, c)) = Append(Escaped(w), c)
           /\ c \in {"dq", "bs"} => Escaped(Append(w, c)) = Append(Append(Escaped(w), "bs"), c)
<1>1. Escaped(<< >>) = << >>
  BY ScanNothing, GoFields DEF Escaped
<1>2. ASSUME NEW w \in Text, NEW c \in Char
      PROVE  /\ Escaped(w) \in Text
             /\ c \notin {"dq", "bs"} => Escaped(Append(w, c)) = Append(Escaped(w), c)
             /\ c \in {"dq", "bs"} => Escaped(Append(w, c)) = Append(Append(Escaped(w), "bs"), c)
  <2> DEFINE d == Escaped(w)
             e == Scan(Append(w, c), Escaping, "text")
  <2>1. d \in Text /\ e = Go("text", d \o (IF c \in {"dq", "bs"} THEN <<"bs", c>> ELSE <<c>>))
    BY EscapingStep DEF Escaped
  <2> HIDE DEF d, e
  <2>2. e.out = d \o (IF c \in {"dq", "bs"} THEN <<"bs", c>> ELSE <<c>>)
    BY <2>1, GoFields
  <2>3. d \o <<c>> = Append(d, c) /\ d \o <<"bs", c>> = Append(Append(d, "bs"), c)
    BY <2>1, CharType, Joins
  <2>4. c \notin {"dq", "bs"} => e.out = Append(d, c)
    BY <2>2, <2>3
  <2>5. c \in {"dq", "bs"} => e.out = Append(Append(d, "bs"), c)
    BY <2>2, <2>3
  <2> QED
    BY <2>1, <2>4, <2>5 DEF d, e, Escaped
<1>3. "sq" \in Char
  BY CharType
<1> QED
  BY <1>1, <1>2, <1>3

\* Inside of single quotes a doubled text is kept up to its end, ...
LEMMA KeptDoubled ==
    ASSUME NEW v \in Text
    PROVE  Kept((<<"blank">> \o <<"sq">>) \o Doubled(v), "single")
<1> DEFINE pre == <<"blank">> \o <<"sq">>
           S == {w \in Text : Kept(pre \o Doubled(w), "single")}
<1>0. pre \in Text /\ Kept(pre, "single")
  BY KeptOpening DEF Kept
<1> HIDE DEF pre
<1>1. << >> \in S
  <2>1. pre \o << >> = pre
    BY <1>0, CharType
  <2> QED
    BY <1>0, <2>1, CharType, DoubledSteps
<1>2. ASSUME NEW w \in Seq(Char), NEW c \in Char, w \in S PROVE Append(w, c) \in S
  <2>1. w \in Text /\ Append(w, c) \in Text
    BY CharType
  <2> DEFINE x == pre \o Doubled(w)
  <2>2. Kept(x, "single")
    BY <1>2
  <2>3. Doubled(w) \in Text
    BY DoubledSteps, <2>1
  <2>4. CASE c # "sq"
    <3>1. Doubled(Append(w, c)) = Append(Doubled(w), c)
      BY DoubledSteps, <2>1, <2>4
    <3>2. pre \o Doubled(Append(w, c)) = Append(x, c)
      BY <1>0, <2>3, <3>1, Joins
    <3> HIDE DEF x
    <3>3. Kept(Append(x, c), "single")
      BY <2>2, <2>4, KeptStep, ModeSteps
    <3> QED
      BY <2>1, <3>2, <3>3
  <2>5. CASE c = "sq"
    <3>1. Doubled(Append(w, c)) = Append(Append(Doubled(w), c), c)
      BY DoubledSteps, <2>1, <2>5
    <3>2. pre \o Doubled(Append(w, c)) = Append(Append(x, c), c)
      BY <1>0, <2>3, <3>1, Joins
    <3> HIDE DEF x
    <3>3. Kept(Append(x, c), "plain")
      BY <2>2, <2>5, KeptStep, ModeSteps
    <3>4. Kept(Append(Append(x, c), c), "single")
      BY <2>5, <3>3, KeptStep, ModeSteps
    <3> QED
      BY <2>1, <3>2, <3>4
  <2> QED
    BY <2>4, <2>5
<1>3. Seq(Char) \subseteq S
  <2> HIDE DEF S
  <2>1. \A w \in Seq(Char) : \A c \in Char : w \in S => Append(w, c) \in S
    BY <1>2
  <2> QED
    BY <1>1, <2>1, TextInduction
<1>4. v \in S
  BY <1>3, CharType
<1> QED
  BY <1>4 DEF pre

\* ... and inside of double quotes an escaped one.
LEMMA KeptEscaped ==
    ASSUME NEW v \in Text
    PROVE  Kept((<<"blank">> \o <<"dq">>) \o Escaped(v), "double")
<1> DEFINE pre == <<"blank">> \o <<"dq">>
           S == {w \in Text : Kept(pre \o Escaped(w), "double")}
<1>0. pre \in Text /\ Kept(pre, "double")
  BY KeptOpening DEF Kept
<1> HIDE DEF pre
<1>1. << >> \in S
  <2>1. pre \o << >> = pre
    BY <1>0, CharType
  <2> QED
    BY <1>0, <2>1, CharType, EscapedSteps
<1>2. ASSUME NEW w \in Seq(Char), NEW c \in Char, w \in S PROVE Append(w, c) \in S
  <2>1. w \in Text /\ Append(w, c) \in Text
    BY CharType
  <2> DEFINE x == pre \o Escaped(w)
  <2>2. Kept(x, "double")
    BY <1>2
  <2>3. Escaped(w) \in Text
    BY EscapedSteps, <2>1
  <2>4. CASE c \notin {"dq", "bs"}
    <3>1. Escaped(Append(w, c)) = Append(Escaped(w), c)
      BY EscapedSteps, <2>1, <2>4
    <3>2. pre \o Escaped(Append(w, c)) = Append(x, c)
      BY <1>0, <2>3, <3>1, Joins
    <3> HIDE DEF x
    <3>3. Kept(Append(x, c), "double")
      BY <2>2, <2>4, KeptStep, ModeSteps
    <3> QED
      BY <2>1, <3>2, <3>3
  <2>5. CASE c \in {"dq", "bs"}
    <3>1. Escaped(Append(w, c)) = Append(Append(Escaped(w), "bs"), c)
      BY EscapedSteps, <2>1, <2>5
    <3>0. "bs" \in Char
      BY CharType
    <3>2. pre \o Escaped(Append(w, c)) = Append(Append(x, "bs"), c)
      <4>1. \A b \in Char : pre \o Append(Append(Escaped(w), b), c)
                                 = Append(Append(pre \o Escaped(w), b), c)
        BY <1>0, <2>3, Joins
      <4>2. pre \o Append(Append(Escaped(w), "bs"), c)
                = Append(Append(pre \o Escaped(w), "bs"), c)
        BY <3>0, <4>1
      <4> QED
        BY <3>1, <4>2
    <3> HIDE DEF x
    <3>3. Kept(Append(x, "bs"), "escape")
      BY <2>2, CharType, KeptStep, ModeSteps
    <3>4. Kept(Append(Append(x, "bs"), c), "double")
      BY <3>3, KeptStep, ModeSteps
    <3> QED
      BY <2>1, <3>2, <3>4
  <2> QED
    BY <2>4, <2>5
<1>3. Seq(Char) \subseteq S
  <2> HIDE DEF S
  <2>1. \A w \in Seq(Char) : \A c \in Char : w \in S => Append(w, c) \in S
    BY <1>2
  <2> QED
    BY <1>1, <2>1, TextInduction
<1>4. v \in S
  BY <1>3, CharType
<1> QED
  BY <1>4 DEF pre

\* How the two readers go on.
LEMMA UndoublingReads ==
    ASSUME NEW x \in Text, NEW c \in Char
    PROVE  /\ c # "sq" => Read(Undoubling, Go("text", x), c) = Go("text", Append(x, c))
           /\ c = "sq" => Read(Undoubling, Go("text", x), c) = Go("quote", Append(x, c))
           /\ c = "sq" => Read(Undoubling, Go("quote", x), c) = Go("text", x)
<1>1. /\ c # "sq" => Undoubling["text"][c] = Go("text", <<c>>)
      /\ c = "sq" => Undoubling["text"][c] = Go("quote", <<c>>)
      /\ c = "sq" => Undoubling["quote"][c] = Go("text", << >>)
  BY DEF Undoubling
<1>2. ASSUME NEW m, NEW n, NEW o, Undoubling[m][c] = Go(n, o)
      PROVE  Read(Undoubling, Go(m, x), c) = Go(n, x \o o)
  BY <1>2, GoFields DEF Read
<1>3. x \o <<c>> = Append(x, c) /\ x \o << >> = x
  BY Joins
<1> QED
  BY <1>1, <1>2, <1>3

LEMMA UnescapingReads ==
    ASSUME NEW x \in Text, NEW c \in Char
    PROVE  /\ c \notin {"dq", "bs"} => Read(Unescaping, Go("text", x), c) = Go("text", Append(x, c))
           /\ Read(Unescaping, Go("text", x), "bs") = Go("escape", x)
           /\ c \in {"dq", "bs"} => Read(Unescaping, Go("escape", x), c) = Go("text", Append(x, c))
<1>1. ASSUME NEW m \in {"text", "escape"}, NEW d \in Char, NEW n, NEW o \in Text,
             Unescaping[m][d] = Go(n, o)
      PROVE  Read(Unescaping, Go(m, x), d) = Go(n, x \o o)
  BY <1>1, GoFields DEF Read
<1>2. x \o <<c>> = Append(x, c) /\ x \o << >> = x
  BY Joins
<1>3. <<c>> \in Text /\ << >> \in Text /\ "bs" \in Char
  BY CharType
<1>4. ASSUME c \notin {"dq", "bs"}
      PROVE  Read(Unescaping, Go("text", x), c) = Go("text", Append(x, c))
  <2>1. Unescaping["text"][c] = Go("text", <<c>>)
    BY <1>4 DEF Unescaping
  <2>2. Read(Unescaping, Go("text", x), c) = Go("text", x \o <<c>>)
    BY <1>1, <1>3, <2>1
  <2> QED
    BY <1>2, <2>2
<1>5. Read(Unescaping, Go("text", x), "bs") = Go("escape", x)
  <2>1. Unescaping["text"]["bs"] = Go("escape", << >>)
    BY <1>3 DEF Unescaping
  <2>2. Read(Unescaping, Go("text", x), "bs") = Go("escape", x \o << >>)
    BY <1>1, <1>3, <2>1
  <2> QED
    BY <1>2, <2>2
<1>6. ASSUME c \in {"dq", "bs"}
      PROVE  Read(Unescaping, Go("escape", x), c) = Go("text", Append(x, c))
  <2>1. Unescaping["escape"][c] = Go("text", <<c>>)
    BY <1>6 DEF Unescaping
  <2>2. Read(Unescaping, Go("escape", x), c) = Go("text", x \o <<c>>)
    BY <1>1, <1>3, <2>1
  <2> QED
    BY <1>2, <2>2
<1> QED
  BY <1>4, <1>5, <1>6

\* What doubling writes is read back, ...
LEMMA Undoubles ==
    ASSUME NEW v \in Text
    PROVE  Scan(Doubled(v), Undoubling, "text") = Go("text", v)
<1> DEFINE S == {w \in Text : Scan(Doubled(w), Undoubling, "text") = Go("text", w)}
<1>1. << >> \in S
  BY DoubledSteps, ScanNothing, CharType
<1>2. ASSUME NEW w \in Text, NEW c \in Char, Scan(Doubled(w), Undoubling, "text") = Go("text", w)
      PROVE  Scan(Doubled(Append(w, c)), Undoubling, "text") = Go("text", Append(w, c))
  <2>1. Append(w, c) \in Text /\ Doubled(w) \in Text
    BY Joins, DoubledSteps
  <2>2. Scan(Append(Doubled(w), c), Undoubling, "text") = Read(Undoubling, Go("text", w), c)
    BY <1>2, <2>1, ScanStep
  <2>3. CASE c # "sq"
    <3>1. Doubled(Append(w, c)) = Append(Doubled(w), c)
      BY <2>3, DoubledSteps
    <3> QED
      BY <2>2, <2>3, <3>1, UndoublingReads
  <2>4. CASE c = "sq"
    <3>1. Doubled(Append(w, c)) = Append(Append(Doubled(w), c), c)
      BY <2>4, DoubledSteps
    <3>2. Scan(Append(Doubled(w), c), Undoubling, "text") = Go("quote", Append(w, c))
      BY <2>2, <2>4, UndoublingReads
    <3>3. Append(Doubled(w), c) \in Text
      BY <2>1, Joins
    <3>4. Scan(Append(Append(Doubled(w), c), c), Undoubling, "text")
              = Read(Undoubling, Go("quote", Append(w, c)), c)
      BY <3>2, <3>3, ScanStep
    <3> QED
      BY <2>1, <2>4, <3>1, <3>4, UndoublingReads
  <2> QED
    BY <2>3, <2>4
<1>3. ASSUME NEW w \in Seq(Char), NEW c \in Char, w \in S PROVE Append(w, c) \in S
  <2>1. w \in Text /\ Append(w, c) \in Text
    BY CharType, Joins
  <2> QED
    BY <1>2, <1>3, <2>1
<1>4. Seq(Char) \subseteq S
  <2> HIDE DEF S
  <2>1. \A w \in Seq(Char) : \A c \in Char : w \in S => Append(w, c) \in S
    BY <1>3
  <2> QED
    BY <1>1, <2>1, TextInduction
<1> QED
  BY <1>4, CharType

\* ... and what escaping writes.
LEMMA Unescapes ==
    ASSUME NEW v \in Text
    PROVE  Scan(Escaped(v), Unescaping, "text") = Go("text", v)
<1> DEFINE S == {w \in Text : Scan(Escaped(w), Unescaping, "text") = Go("text", w)}
<1>1. << >> \in S
  BY EscapedSteps, ScanNothing, CharType
<1>2. ASSUME NEW w \in Text, NEW c \in Char, Scan(Escaped(w), Unescaping, "text") = Go("text", w)
      PROVE  Scan(Escaped(Append(w, c)), Unescaping, "text") = Go("text", Append(w, c))
  <2>1. Append(w, c) \in Text /\ Escaped(w) \in Text
    BY Joins, EscapedSteps
  <2>2. CASE c \notin {"dq", "bs"}
    <3>1. Escaped(Append(w, c)) = Append(Escaped(w), c)
      BY <2>2, EscapedSteps
    <3>2. Scan(Append(Escaped(w), c), Unescaping, "text") = Read(Unescaping, Go("text", w), c)
      BY <1>2, <2>1, ScanStep
    <3> QED
      BY <2>2, <3>1, <3>2, UnescapingReads
  <2>3. CASE c \in {"dq", "bs"}
    <3>1. Escaped(Append(w, c)) = Append(Append(Escaped(w), "bs"), c)
      BY <2>3, EscapedSteps
    <3>2. Scan(Append(Escaped(w), "bs"), Unescaping, "text") = Read(Unescaping, Go("text", w), "bs")
      BY <1>2, <2>1, ScanStep
    <3>3. Scan(Append(Escaped(w), "bs"), Unescaping, "text") = Go("escape", w)
      BY <3>2, UnescapingReads
    <3>4. Append(Escaped(w), "bs") \in Text
      BY <2>1, CharType, Joins
    <3>5. Scan(Append(Append(Escaped(w), "bs"), c), Unescaping, "text")
              = Read(Unescaping, Go("escape", w), c)
      BY <3>3, <3>4, ScanStep
    <3> QED
      BY <2>3, <3>1, <3>5, UnescapingReads
  <2> QED
    BY <2>2, <2>3
<1>3. ASSUME NEW w \in Seq(Char), NEW c \in Char, w \in S PROVE Append(w, c) \in S
  <2>1. w \in Text /\ Append(w, c) \in Text
    BY CharType, Joins
  <2> QED
    BY <1>2, <1>3, <2>1
<1>4. Seq(Char) \subseteq S
  <2> HIDE DEF S
  <2>1. \A w \in Seq(Char) : \A c \in Char : w \in S => Append(w, c) \in S
    BY <1>3
  <2> QED
    BY <1>1, <2>1, TextInduction
<1> QED
  BY <1>4, CharType

-----------------------------------------------------------------------------
(* What a line says is what is read of it. *)

LEMMA CutType ==
    ASSUME NEW v \in Text, NEW a \in 1 .. Len(v), NEW b \in 1 .. Len(v), a <= b
    PROVE  LET w == SubSeq(v, a, b)
           IN  /\ w \in Text /\ Len(w) = b - a + 1
               /\ \A i \in 1 .. Len(w) : w[i] = v[a + i - 1]
BY DEF Text

\* TrimSpace cuts at the first and the last solid character.
LEMMA TrimIs ==
    ASSUME NEW v \in Text, NEW a \in 1 .. Len(v), NEW b \in 1 .. Len(v),
           v[a] # "blank", v[b] # "blank",
           \A i \in 1 .. Len(v) : v[i] # "blank" => a <= i /\ i <= b
    PROVE  TrimSpace(v) = SubSeq(v, a, b)
<1> DEFINE solid == {i \in DOMAIN v : v[i] # "blank"}
<1>1. DOMAIN v = 1 .. Len(v)
  BY DEF Text
<1>2. a \in solid /\ b \in solid /\ \A i \in solid : i \in Int /\ a <= i /\ i <= b
  BY <1>1
<1> HIDE DEF solid
<1>3. (CHOOSE i \in solid : \A j \in solid : i <= j) = a
  <2> DEFINE c == CHOOSE i \in solid : \A j \in solid : i <= j
  <2>1. c \in solid /\ \A j \in solid : c <= j
    BY <1>2
  <2> HIDE DEF c
  <2>2. c = a
    BY <1>2, <2>1
  <2> QED
    BY <2>2 DEF c
<1>4. (CHOOSE i \in solid : \A j \in solid : j <= i) = b
  <2> DEFINE c == CHOOSE i \in solid : \A j \in solid : j <= i
  <2>1. c \in solid /\ \A j \in solid : j <= c
    BY <1>2
  <2> HIDE DEF c
  <2>2. c = b
    BY <1>2, <2>1
  <2> QED
    BY <2>2 DEF c
<1>5. solid # {}
  BY <1>2
<1> QED
  BY <1>3, <1>4, <1>5 DEF TrimSpace, solid

LEMMA TrimBlank ==
    ASSUME NEW v \in Text, \A i \in 1 .. Len(v) : v[i] = "blank"
    PROVE  TrimSpace(v) = << >>
<1>1. DOMAIN v = 1 .. Len(v)
  BY DEF Text
<1> QED
  BY <1>1 DEF TrimSpace

\* Where there is something solid, TrimSpace cuts a piece out of the text.
LEMMA TrimCuts ==
    ASSUME NEW v \in Text, \E i \in 1 .. Len(v) : v[i] # "blank"
    PROVE  \E a, b \in 1 .. Len(v) :
              /\ a <= b /\ v[a] # "blank" /\ v[b] # "blank"
              /\ \A i \in 1 .. Len(v) : v[i] # "blank" => a <= i /\ i <= b
              /\ TrimSpace(v) = SubSeq(v, a, b)
<1> DEFINE S == {i \in 1 .. Len(v) : v[i] # "blank"}
           D == {k \in 0 .. Len(v) : Len(v) - k \in S}
<1>0. Len(v) \in Nat
  BY DEF Text
<1>1. PICK a \in S : \A i \in S : a <= i
  <2>1. S \in SUBSET Nat /\ S # {}
    BY <1>0
  <2> HIDE DEF S
  <2> QED
    BY <2>1, LeastMember
<1>2. D # {}
  <2>1. Len(v) - (Len(v) - a) = a /\ Len(v) - a \in 0 .. Len(v)
    BY <1>0
  <2> QED
    BY <1>1, <2>1
<1>3. PICK d \in D : \A k \in D : d <= k
  <2>1. D \in SUBSET Nat
    BY <1>0
  <2> HIDE DEF D
  <2> QED
    BY <1>2, <2>1, LeastMember
<1> DEFINE b == Len(v) - d
<1>4. b \in S /\ \A i \in S : i <= b
  <2>1. \A i \in S : Len(v) - i \in 0 .. Len(v) /\ Len(v) - (Len(v) - i) = i
    BY <1>0
  <2>2. \A i \in S : Len(v) - i \in D
    BY <2>1
  <2>3. \A i \in S : d <= Len(v) - i
    BY <1>3, <2>2
  <2>4. d \in Nat
    BY <1>0, <1>3
  <2> QED
    BY <1>0, <1>3, <2>3, <2>4
<1>5. /\ a \in 1 .. Len(v) /\ b \in 1 .. Len(v) /\ a <= b
      /\ v[a] # "blank" /\ v[b] # "blank"
      /\ \A i \in 1 .. Len(v) : v[i] # "blank" => a <= i /\ i <= b
  BY <1>1, <1>4
<1> HIDE DEF b
<1>6. TrimSpace(v) = SubSeq(v, a, b)
  BY <1>5, TrimIs
<1> QED
  BY <1>5, <1>6

\* What is trimmed is a text, and trimming it again changes nothing.
LEMMA TrimType ==
    ASSUME NEW v \in Text
    PROVE  TrimSpace(v) \in Text /\ TrimSpace(TrimSpace(v)) = TrimSpace(v)
<1>1. Len(v) \in Nat
  BY DEF Text
<1>2. CASE \A i \in 1 .. Len(v) : v[i] = "blank"
  <2>1. TrimSpace(v) = << >>
    BY <1>2, TrimBlank
  <2>2. << >> \in Text /\ \A i \in 1 .. Len(<< >>) : << >>[i] = "blank"
    BY CharType
  <2> QED
    BY <2>1, <2>2, TrimBlank
<1>3. CASE \E i \in 1 .. Len(v) : v[i] # "blank"
  <2>5. PICK a \in 1 .. Len(v), b \in 1 .. Len(v) :
            /\ a <= b /\ v[a] # "blank" /\ v[b] # "blank"
            /\ TrimSpace(v) = SubSeq(v, a, b)
    BY <1>3, TrimCuts
  <2> DEFINE w == SubSeq(v, a, b)
  <2>6. TrimSpace(v) = w
    BY <2>5
  <2>7. /\ w \in Text /\ Len(w) = b - a + 1
        /\ \A i \in 1 .. Len(w) : w[i] = v[a + i - 1]
    BY <2>5, CutType
  <2> HIDE DEF w
  <2>8. 1 \in 1 .. Len(w) /\ Len(w) \in 1 .. Len(w) /\ a + 1 - 1 = a /\ a + Len(w) - 1 = b
    BY <1>1, <2>5, <2>7
  <2>9. w[1] # "blank" /\ w[Len(w)] # "blank"
    BY <2>5, <2>7, <2>8
  <2>10. TrimSpace(w) = SubSeq(w, 1, Len(w))
    <3>1. \A i \in 1 .. Len(w) : 1 <= i /\ i <= Len(w)
      BY <2>7
    <3>2. \A n \in 1 .. Len(w) : n = Len(w) => TrimSpace(w) = SubSeq(w, 1, n)
      BY <2>7, <2>8, <2>9, <3>1, TrimIs
    <3> QED
      BY <2>8, <3>2
  <2>11. SubSeq(w, 1, Len(w)) = w
    BY <2>7 DEF Text
  <2> QED
    BY <2>6, <2>7, <2>10, <2>11
<1> QED
  BY <1>2, <1>3

\* A text that begins with something solid keeps its beginning.
LEMMA TrimLeads ==
    ASSUME NEW v \in Text, 1 \in 1 .. Len(v), v[1] # "blank"
    PROVE  TrimSpace(v)[1] = v[1]
<1>1. PICK a \in 1 .. Len(v), b \in 1 .. Len(v) :
          /\ a <= b
          /\ \A i \in 1 .. Len(v) : v[i] # "blank" => a <= i /\ i <= b
          /\ TrimSpace(v) = SubSeq(v, a, b)
  BY TrimCuts
<1>2. a = 1
  BY <1>1
<1>3. /\ Len(SubSeq(v, a, b)) = b - a + 1
      /\ \A i \in 1 .. Len(SubSeq(v, a, b)) : SubSeq(v, a, b)[i] = v[a + i - 1]
  BY <1>1, CutType
<1>4. 1 \in 1 .. Len(SubSeq(v, a, b)) /\ a + 1 - 1 = 1
  BY <1>1, <1>2, <1>3
<1> QED
  BY <1>1, <1>3, <1>4

\* The blanks around a text go, and only they.
LEMMA TrimPadded ==
    ASSUME NEW q \in Text, q # << >> => q[1] # "blank" /\ q[Len(q)] # "blank"
    PROVE  /\ TrimSpace(<<"blank">> \o q) = q
           /\ TrimSpace(Append(<<"blank">> \o q, "blank")) = q
<1> DEFINE x == <<"blank">> \o q
           y == Append(x, "blank")
<1>0. Len(q) \in Nat /\ (q = << >> <=> Len(q) = 0)
  BY DEF Text
<1>1. /\ x \in Text /\ Len(x) = Len(q) + 1 /\ x[1] = "blank"
      /\ \A i \in 1 .. Len(q) : x[i + 1] = q[i]
  BY CharType
<1>2. /\ y \in Text /\ Len(y) = Len(q) + 2 /\ y[1] = "blank" /\ y[Len(q) + 2] = "blank"
      /\ \A i \in 1 .. Len(q) : y[i + 1] = q[i]
  <2> HIDE DEF x
  <2> QED
    BY <1>0, <1>1, CharType
<1> HIDE DEF x, y
<1>3. CASE q = << >>
  <2>1. \A i \in 1 .. Len(x) : x[i] = "blank"
    BY <1>0, <1>1, <1>3
  <2>2. \A i \in 1 .. Len(y) : y[i] = "blank"
    BY <1>0, <1>2, <1>3
  <2>3. TrimSpace(x) = << >> /\ TrimSpace(y) = << >>
    BY <1>1, <1>2, <2>1, <2>2, TrimBlank
  <2> QED
    BY <1>3, <2>3 DEF x, y
<1>4. CASE q # << >>
  <2>1. ASSUME NEW z \in Text, Len(z) \in {Len(q) + 1, Len(q) + 2}, z[1] = "blank",
               Len(z) = Len(q) + 2 => z[Len(q) + 2] = "blank",
               \A i \in 1 .. Len(q) : z[i + 1] = q[i]
        PROVE  TrimSpace(z) = q
    <3>1. 2 \in 1 .. Len(z) /\ Len(q) + 1 \in 1 .. Len(z) /\ 2 <= Len(q) + 1
      BY <1>0, <1>4, <2>1
    <3>2. 1 \in 1 .. Len(q) /\ Len(q) \in 1 .. Len(q)
      BY <1>0, <1>4
    <3>3. z[1 + 1] = q[1] /\ z[Len(q) + 1] = q[Len(q)]
      BY <2>1, <3>2
    <3>4. z[2] # "blank" /\ z[Len(q) + 1] # "blank"
      BY <1>4, <3>3
    <3>5. \A i \in 1 .. Len(z) : z[i] # "blank" => 2 <= i /\ i <= Len(q) + 1
      BY <1>0, <2>1
    <3>6. TrimSpace(z) = SubSeq(z, 2, Len(q) + 1)
      BY <3>1, <3>4, <3>5, TrimIs
    <3> DEFINE w == SubSeq(z, 2, Len(q) + 1)
    <3>7. w \in Text /\ Len(w) = Len(q) /\ \A i \in 1 .. Len(w) : w[i] = z[2 + i - 1]
      BY <1>0, <3>1, CutType
    <3> HIDE DEF w
    <3>8. \A i \in 1 .. Len(q) : 2 + i - 1 = i + 1
      BY <1>0
    <3>9. \A i \in 1 .. Len(q) : w[i] = q[i]
      BY <2>1, <3>7, <3>8
    <3>10. w = q
      BY <3>7, <3>9 DEF Text
    <3> QED
      BY <3>6, <3>10 DEF w
  <2>2. TrimSpace(x) = q
    BY <1>0, <1>1, <2>1
  <2>3. TrimSpace(y) = q
    BY <1>0, <1>2, <2>1
  <2> QED
    BY <2>2, <2>3 DEF x, y
<1> QED
  BY <1>3, <1>4

\* A text in quotes.
LEMMA Wrapped ==
    ASSUME NEW a \in Char, NEW b \in Char, NEW d \in Text
    PROVE  LET q == <<a>> \o d \o <<b>>
           IN  /\ q \in Text /\ Len(q) >= 2 /\ q[1] = a /\ q[Len(q)] = b
               /\ SubSeq(q, 2, Len(q) - 1) = d
               /\ <<"blank">> \o q = Append((<<"blank">> \o <<a>>) \o d, b)
<1> DEFINE q == <<a>> \o d \o <<b>>
<1>0. Len(d) \in Nat /\ "blank" \in Char
  BY CharType
<1>1. q \in Text /\ Len(q) = Len(d) + 2 /\ q[1] = a /\ q[Len(d) + 2] = b
  BY <1>0, CharType
<1>2. \A i \in 1 .. Len(d) : q[i + 1] = d[i]
  BY <1>0, CharType
<1>3. <<"blank">> \o q = Append((<<"blank">> \o <<a>>) \o d, b)
  BY <1>0, CharType
<1> HIDE DEF q
<1>4. SubSeq(q, 2, Len(q) - 1) = d
  <2> DEFINE w == SubSeq(q, 2, Len(q) - 1)
  <2>1. CASE Len(d) = 0
    <3>1. d = << >> /\ Len(q) - 1 = 1
      BY <1>1, <2>1 DEF Text
    <3>2. SubSeq(q, 2, 1) = << >>
      BY <1>1 DEF Text
    <3> QED
      BY <3>1, <3>2
  <2>2. CASE Len(d) # 0
    <3>1. 2 \in 1 .. Len(q) /\ Len(q) - 1 \in 1 .. Len(q) /\ 2 <= Len(q) - 1
      BY <1>0, <1>1, <2>2
    <3>2. w \in Text /\ Len(w) = Len(d) /\ \A i \in 1 .. Len(w) : w[i] = q[2 + i - 1]
      BY <1>0, <1>1, <3>1, CutType
    <3> HIDE DEF w
    <3>3. \A i \in 1 .. Len(d) : 2 + i - 1 = i + 1
      BY <1>0
    <3>4. \A i \in 1 .. Len(d) : w[i] = d[i]
      BY <1>2, <3>2, <3>3
    <3>5. w = d
      BY <3>2, <3>4 DEF Text
    <3> QED
      BY <3>5 DEF w
  <2> QED
    BY <2>1, <2>2
<1>5. Len(q) >= 2 /\ q[Len(q)] = b
  BY <1>0, <1>1
<1> QED
  BY <1>1, <1>3, <1>4, <1>5 DEF q

\* What a style makes of the value of a line.
LEMMA Styles ==
    ASSUME NEW e \in Line
    PROVE  /\ e.value \in Text /\ e.key \in ConfigKey /\ e.comment \in BOOLEAN
           /\ e.style \in {"none", "plain", "single", "double"}
           /\ e.style = "none" => e.value = << >> /\ Quoted(e) = << >>
           /\ e.style = "plain" => Quoted(e) = e.value /\ \E c \in Word : e.value = <<c>>
           /\ e.style = "single" => Quoted(e) = <<"sq">> \o Doubled(e.value) \o <<"sq">>
           /\ e.style = "double" => Quoted(e) = <<"dq">> \o Escaped(e.value) \o <<"dq">>
<1>1. /\ e.value \in Text /\ e.key \in ConfigKey /\ e.comment \in BOOLEAN
      /\ e.style \in {"none", "plain", "single", "double"}
      /\ e.style = "none" => e.value = << >>
      /\ e.style = "plain" => Len(e.value) = 1 /\ e.value[1] \in Word
  BY DEF Line
<1>2. /\ e.style \in {"none", "plain"} => Quoted(e) = e.value
      /\ e.style = "single" => Quoted(e) = <<"sq">> \o Doubled(e.value) \o <<"sq">>
      /\ e.style = "double" => Quoted(e) = <<"dq">> \o Escaped(e.value) \o <<"dq">>
  BY DEF Quoted, Doubled, Escaped
<1>3. ASSUME Len(e.value) = 1, e.value[1] \in Word PROVE \E c \in Word : e.value = <<c>>
  <2>1. e.value = <<e.value[1]>>
    BY <1>1, <1>3 DEF Text
  <2> QED
    BY <1>3, <2>1
<1> QED
  BY <1>1, <1>2, <1>3

\* What is written of a value begins and ends solid, the scan keeps it, and
\* unquoting gives the value back.
LEMMA QuotedReads ==
    ASSUME NEW e \in Line
    PROVE  LET q == Quoted(e)
           IN  /\ q \in Text /\ Kept(<<"blank">> \o q, "plain")
               /\ q # << >> => q[1] # "blank" /\ q[Len(q)] # "blank"
               /\ q = << >> <=> e.style = "none"
               /\ e.style # "none" => unquoteYAMLScalar(q) = e.value
<1> DEFINE q == Quoted(e)
           v == e.value
<1>0. v \in Text /\ e.style \in {"none", "plain", "single", "double"}
  BY Styles
<1>1. CASE e.style = "none"
  <2>1. q = << >>
    BY <1>1, Styles
  <2>2. <<"blank">> \o << >> = <<"blank">>
    BY CharType, Joins
  <2> QED
    BY <1>1, <2>1, <2>2, CharType, KeptOpening
<1>2. CASE e.style = "plain"
  <2>1. PICK c \in Word : v = <<c>>
    BY <1>2, Styles
  <2>2. q = <<c>>
    BY <1>2, <2>1, Styles
  <2>3. c \in Char /\ c # "blank" /\ c # "sq" /\ c # "dq"
    BY DEF Char, Word
  <2>4. <<"blank">> \o <<c>> = Append(<<"blank">>, c)
    BY <2>3, CharType, Joins
  <2>5. Kept(Append(<<"blank">>, c), "plain")
    BY <2>3, KeptOpening, KeptStep, ModeSteps
  <2>6. <<c>> \in Text /\ Len(<<c>>) = 1 /\ <<c>>[1] = c /\ <<c>> # << >>
    BY <2>3, CharType
  <2>7. unquoteYAMLScalar(<<c>>) = <<c>>
    BY <2>6 DEF unquoteYAMLScalar
  <2> HIDE DEF q, v
  <2>8. q[1] # "blank" /\ q[Len(q)] # "blank"
    BY <2>2, <2>3, <2>6
  <2>9. Kept(<<"blank">> \o q, "plain")
    BY <2>2, <2>4, <2>5
  <2>10. q \in Text /\ q # << >> /\ unquoteYAMLScalar(q) = v
    BY <2>1, <2>2, <2>6, <2>7
  <2> QED
    BY <1>2, <2>8, <2>9, <2>10 DEF q, v
<1>3. CASE e.style = "single"
  <2>1. q = <<"sq">> \o Doubled(v) \o <<"sq">>
    BY <1>3, Styles
  <2>2. Doubled(v) \in Text /\ "sq" \in Char
    BY <1>0, DoubledSteps, CharType
  <2>3. /\ q \in Text /\ Len(q) >= 2 /\ q[1] = "sq" /\ q[Len(q)] = "sq"
        /\ SubSeq(q, 2, Len(q) - 1) = Doubled(v)
        /\ <<"blank">> \o q = Append((<<"blank">> \o <<"sq">>) \o Doubled(v), "sq")
    <3>1. ASSUME NEW d \in Text, q = <<"sq">> \o d \o <<"sq">>
          PROVE  /\ q \in Text /\ Len(q) >= 2 /\ q[1] = "sq" /\ q[Len(q)] = "sq"
                 /\ SubSeq(q, 2, Len(q) - 1) = d
                 /\ <<"blank">> \o q = Append((<<"blank">> \o <<"sq">>) \o d, "sq")
      <4> HIDE DEF q
      <4> QED
        BY <2>2, <3>1, Wrapped
    <3> HIDE DEF q
    <3> QED
      BY <2>1, <2>2, <3>1
  <2>4. Kept(<<"blank">> \o q, "plain")
    BY <1>0, <2>2, <2>3, KeptDoubled, KeptStep, ModeSteps
  <2> HIDE DEF q, v
  <2>5. Scan(SubSeq(q, 2, Len(q) - 1), Undoubling, "text").out = v
    <3>1. Scan(Doubled(v), Undoubling, "text").out = v
      BY <1>0, Undoubles, GoFields
    <3> QED
      BY <2>3, <3>1, Zenon
  <2>6. unquoteYAMLScalar(q) = Scan(SubSeq(q, 2, Len(q) - 1), Undoubling, "text").out
    BY <2>3 DEF unquoteYAMLScalar
  <2>7. q # << >>
    BY <2>3
  <2> QED
    BY <1>3, <2>3, <2>4, <2>5, <2>6, <2>7 DEF q, v
<1>4. CASE e.style = "double"
  <2>1. q = <<"dq">> \o Escaped(v) \o <<"dq">>
    BY <1>4, Styles
  <2>2. Escaped(v) \in Text /\ "dq" \in Char
    BY <1>0, EscapedSteps, CharType
  <2>3. /\ q \in Text /\ Len(q) >= 2 /\ q[1] = "dq" /\ q[Len(q)] = "dq"
        /\ SubSeq(q, 2, Len(q) - 1) = Escaped(v)
        /\ <<"blank">> \o q = Append((<<"blank">> \o <<"dq">>) \o Escaped(v), "dq")
    <3>1. ASSUME NEW d \in Text, q = <<"dq">> \o d \o <<"dq">>
          PROVE  /\ q \in Text /\ Len(q) >= 2 /\ q[1] = "dq" /\ q[Len(q)] = "dq"
                 /\ SubSeq(q, 2, Len(q) - 1) = d
                 /\ <<"blank">> \o q = Append((<<"blank">> \o <<"dq">>) \o d, "dq")
      <4> HIDE DEF q
      <4> QED
        BY <2>2, <3>1, Wrapped
    <3> HIDE DEF q
    <3> QED
      BY <2>1, <2>2, <3>1
  <2>4. Kept(<<"blank">> \o q, "plain")
    BY <1>0, <2>2, <2>3, KeptEscaped, KeptStep, ModeSteps
  <2> HIDE DEF q, v
  <2>5. /\ Scan(SubSeq(q, 2, Len(q) - 1), Unescaping, "text").out = v
        /\ Scan(SubSeq(q, 2, Len(q) - 1), Unescaping, "text").mode = "text"
    <3>1. /\ Scan(Escaped(v), Unescaping, "text").out = v
          /\ Scan(Escaped(v), Unescaping, "text").mode = "text"
      BY <1>0, Unescapes, GoFields
    <3> QED
      BY <2>3, <3>1, Zenon
  <2>6. unquoteYAMLScalar(q) = Scan(SubSeq(q, 2, Len(q) - 1), Unescaping, "text").out
    BY <2>3, <2>5 DEF unquoteYAMLScalar
  <2>7. q # << >>
    BY <2>3
  <2> QED
    BY <1>4, <2>3, <2>4, <2>5, <2>6, <2>7 DEF q, v
<1> QED
  BY <1>0, <1>1, <1>2, <1>3, <1>4

\* A line reads as what was meant.
LEMMA LineReads ==
    ASSUME NEW e \in Line
    PROVE  LET scalar == TrimSpace(stripYAMLComment(Written(e)))
           IN  /\ scalar = << >> <=> e.style = "none"
               /\ e.style # "none" => unquoteYAMLScalar(scalar) = e.value
<1> DEFINE q == Quoted(e)
           x == <<"blank">> \o q
<1>1. /\ q \in Text /\ x \in Text /\ Scan(x, Stripping, "plain") = Go("plain", x)
      /\ q # << >> => q[1] # "blank" /\ q[Len(q)] # "blank"
      /\ q = << >> <=> e.style = "none"
      /\ e.style # "none" => unquoteYAMLScalar(q) = e.value
  BY QuotedReads DEF Kept
<1>2. Written(e) = x \o (IF e.comment THEN Comment ELSE << >>)
  BY DEF Written
<1> HIDE DEF q
<1>3. TrimSpace(x) = q /\ TrimSpace(Append(x, "blank")) = q
  BY <1>1, TrimPadded
<1> HIDE DEF x
<1>4. stripYAMLComment(x) = x /\ stripYAMLComment(x \o Comment) = Append(x, "blank")
  BY <1>1, StripLine
<1>5. x \o << >> = x
  BY <1>1, CharType, Joins
<1>6. Written(e) = x \/ Written(e) = x \o Comment
  BY <1>2, <1>5, Styles
<1>7. TrimSpace(stripYAMLComment(Written(e))) = q
  BY <1>3, <1>4, <1>6
<1> QED
  BY <1>1, <1>7 DEF q

-----------------------------------------------------------------------------
(* The reading of a file. *)

LEMMA SettingType ==
    /\ \A e \in Line : SettingOf(e.key) \in Setting \union {"none"}
    /\ "none" \notin Setting /\ "binary" \in Setting
    /\ \A v : Skipped("none", v)
    /\ defaultConfig \in Config
<1>1. \A k : SettingOf(k) \in Setting \union {"none"}
  BY DEF SettingOf, Setting
<1>2. <<"w1">> \in Text /\ <<"w2">> \in Text /\ << >> \in Text
  BY DEF Text, Char, Word
<1>3. \A s \in Setting : defaultConfig[s] \in Text
  BY <1>2 DEF defaultConfig
<1>4. defaultConfig \in Config
  BY <1>3 DEF defaultConfig, Config
<1>5. "none" \notin Setting /\ "binary" \in Setting
  BY DEF Setting
<1>6. \A v : Skipped("none", v)
  BY DEF Skipped
<1> QED
  BY <1>1, <1>4, <1>5, <1>6

\* A setting keeps what it has accepted.
LEMMA StoredType ==
    ASSUME NEW s \in Setting, NEW v \in Text
    PROVE  Stored(s, v) \in Text /\ (~Refused(s, v) => ~Refused(s, Stored(s, v)))
<1>1. TrimSpace(v) \in Text /\ TrimSpace(TrimSpace(v)) = TrimSpace(v)
  BY TrimType
<1>2. CASE s = "workdir"
  <2> DEFINE d == TrimSpace(v)
             x == <<"cwd">> \o d
  <2>1. Stored(s, v) = IF d = << >> \/ d[1] \in {"w1", "cwd"} THEN d ELSE x
    BY <1>2 DEF Stored, Absolute
  <2>2. x \in Text /\ 1 \in 1 .. Len(x) /\ x[1] = "cwd"
    <3>1. "cwd" \in Char
      BY DEF Char, Word
    <3> HIDE DEF d
    <3>2. d \in Seq(Char) /\ Len(d) \in Nat
      BY <1>1 DEF Text, d
    <3>3. x \in Seq(Char) /\ Len(x) = 1 + Len(d) /\ x[1] = "cwd"
      BY <3>1, <3>2
    <3> QED
      BY <3>2, <3>3 DEF Text
  <2> HIDE DEF d, x
  <2>3. TrimSpace(x)[1] = "cwd"
    BY <2>2, TrimLeads
  <2>4. TrimSpace(x) # <<"junk">>
    BY <2>3
  <2>5. d \in Text /\ TrimSpace(d) = d
    BY <1>1 DEF d
  <2>6. ~Refused(s, v) => d # <<"junk">>
    BY <1>2 DEF Refused, d
  <2>7. \A u : TrimSpace(u) # <<"junk">> => ~Refused(s, u)
    BY <1>2 DEF Refused
  <2> QED
    BY <2>1, <2>2, <2>4, <2>5, <2>6, <2>7
<1>3. CASE s = "effort"
  BY <1>1, <1>3 DEF Stored, Refused
<1>4. CASE s \notin {"workdir", "effort"}
  BY <1>4 DEF Stored
<1> QED
  BY <1>2, <1>3, <1>4

\* What one more line means.
LEMMA MeantStep ==
    ASSUME NEW f \in Seq(Line), NEW s \in Setting
    PROVE  /\ MeantBy(f, 0, s) = defaultConfig[s]
           /\ \A n \in 0 .. Len(f) - 1 :
                  MeantBy(f, n + 1, s) = IF Says(f[n + 1], s) THEN Stored(s, f[n + 1].value)
                                         ELSE MeantBy(f, n, s)
<1> DEFINE L(n) == {i \in 1 .. n : Says(f[i], s)}
<1>1. MeantBy(f, 0, s) = defaultConfig[s]
  <2>1. {i \in 1 .. 0 : Says(f[i], s)} = {}
    OBVIOUS
  <2> QED
    BY <2>1 DEF MeantBy
<1>2. ASSUME NEW n \in 0 .. Len(f) - 1, Says(f[n + 1], s)
      PROVE  MeantBy(f, n + 1, s) = Stored(s, f[n + 1].value)
  <2>0. n \in Nat
    OBVIOUS
  <2>1. n + 1 \in L(n + 1) /\ \A i \in L(n + 1) : i \in Nat /\ i <= n + 1
    BY <1>2, <2>0
  <2> DEFINE c == CHOOSE i \in L(n + 1) : \A j \in L(n + 1) : j <= i
  <2>2. c \in L(n + 1) /\ \A j \in L(n + 1) : j <= c
    <3> HIDE DEF L
    <3> QED
      BY <2>1
  <2>3. c = n + 1
    <3> HIDE DEF c, L
    <3> QED
      BY <2>0, <2>1, <2>2
  <2>4. L(n + 1) # {}
    BY <2>1
  <2>5. MeantBy(f, n + 1, s) = IF L(n + 1) = {} THEN defaultConfig[s] ELSE Stored(s, f[c].value)
    BY DEF MeantBy
  <2> HIDE DEF c, L
  <2> QED
    BY <2>3, <2>4, <2>5
<1>3. ASSUME NEW n \in 0 .. Len(f) - 1, ~Says(f[n + 1], s)
      PROVE  MeantBy(f, n + 1, s) = MeantBy(f, n, s)
  <2>1. L(n + 1) = L(n)
    <3>1. \A i : i \in 1 .. n + 1 <=> i \in 1 .. n \/ i = n + 1
      OBVIOUS
    <3> QED
      BY <1>3, <3>1
  <2>2. \A m : MeantBy(f, m, s) = IF L(m) = {} THEN defaultConfig[s]
               ELSE Stored(s, f[CHOOSE i \in L(m) : \A j \in L(m) : j <= i].value)
    BY DEF MeantBy
  <2> HIDE DEF L
  <2> QED
    BY <2>1, <2>2
<1> QED
  BY <1>1, <1>2, <1>3

\* What a step of the reading finds.
LEMMA NextLineReads ==
    ASSUME ConfigTypeOK, ReadSoFar, Reading
    PROVE  /\ file \in Files /\ file \in Seq(Line) /\ Len(file) \in Nat
           /\ at \in 0 .. Len(file) - 1 /\ at + 1 \in 0 .. Len(file)
           /\ NextLine \in Line
           /\ Scalar = << >> <=> NextLine.style = "none"
           /\ NextLine.style # "none" => Value = NextLine.value
           /\ Named \in Setting \union {"none"}
<1>1. phase = "reading" /\ at < Len(file) /\ at \in 0 .. Len(file) /\ file \in Files
  BY DEF Reading, ReadSoFar, ConfigTypeOK
<1>2. file \in Seq(Line)
  BY <1>1, FilesAssumption
<1>3. at \in 0 .. Len(file) - 1 /\ at + 1 \in 1 .. Len(file) /\ Len(file) \in Nat
  BY <1>1, <1>2
<1>4. NextLine \in Line
  BY <1>2, <1>3 DEF NextLine
<1>5. Scalar = << >> <=> NextLine.style = "none"
  BY <1>4, LineReads DEF Scalar
<1>6. NextLine.style # "none" => Value = NextLine.value
  BY <1>4, LineReads DEF Scalar, Value
<1>7. Named \in Setting \union {"none"}
  BY <1>4, SettingType DEF Named
<1> QED
  BY <1>1, <1>2, <1>3, <1>4, <1>5, <1>6, <1>7

LEMMA NoneRefusedStep ==
    ASSUME NEW f \in Seq(Line), NEW n \in Nat, NoneRefused(f, n),
           f[n + 1].style # "none" => ~Refused(SettingOf(f[n + 1].key), f[n + 1].value)
    PROVE  NoneRefused(f, n + 1)
<1>1. \A i \in 1 .. n + 1 : i \in 1 .. n \/ i = n + 1
  OBVIOUS
<1> QED
  BY <1>1 DEF NoneRefused

LEMMA ConfigStart == ConfigInit => ConfigInv
<1> SUFFICES ASSUME ConfigInit PROVE ConfigInv
  OBVIOUS
<1> USE DEF ConfigInit
<1>1. \A s \in Setting : MeantBy(<< >>, 0, s) = defaultConfig[s]
  <2>1. << >> \in Seq(Line)
    OBVIOUS
  <2> QED
    BY <2>1, MeantStep
<1>2. ConfigTypeOK
  BY SettingType DEF ConfigTypeOK, Accepted
<1>3. ActiveIsOneFile
  BY <1>1 DEF ActiveIsOneFile, Meant, NoneRefused
<1>4. ReadSoFar
  BY DEF ReadSoFar
<1> QED
  BY <1>2, <1>3, <1>4 DEF ConfigInv

\* A line that sets nothing leaves every setting as the lines before it meant.
LEMMA SkipKeeps ==
    ASSUME ConfigInv, SkipLine
    PROVE  ConfigInv'
<1>1. ConfigTypeOK /\ ReadSoFar /\ ActiveIsOneFile /\ Reading
  BY DEF ConfigInv, SkipLine
<1>2. at' = at + 1 /\ UNCHANGED <<phase, file, cfg, active, taken>> /\ Scalar = << >>
  BY DEF SkipLine
<1>3. /\ file \in Seq(Line) /\ at \in 0 .. Len(file) - 1 /\ at + 1 \in 0 .. Len(file)
      /\ NextLine.style = "none"
  BY <1>1, <1>2, NextLineReads
<1>4. at \in Nat /\ phase = "reading"
  BY <1>1, <1>3 DEF Reading
<1>5. /\ file \in Files /\ NoneRefused(file, at) /\ Accepted(cfg)
      /\ \A s \in Setting : cfg[s] = MeantBy(file, at, s)
  BY <1>1, <1>4 DEF ReadSoFar
<1>6. \A s \in Setting : cfg[s] = MeantBy(file, at + 1, s)
  <2>1. \A s : ~Says(file[at + 1], s)
    BY <1>3 DEF Says, NextLine
  <2> QED
    BY <1>3, <1>5, <2>1, MeantStep
<1>7. NoneRefused(file, at + 1)
  BY <1>3, <1>4, <1>5, NoneRefusedStep DEF NextLine
<1>8. ReadSoFar'
  BY <1>2, <1>4, <1>5, <1>6, <1>7 DEF ReadSoFar
<1>9. ConfigTypeOK'
  BY <1>1, <1>2, <1>3 DEF ConfigTypeOK
<1>10. ActiveIsOneFile'
  BY <1>1, <1>2 DEF ActiveIsOneFile
<1> QED
  BY <1>8, <1>9, <1>10 DEF ConfigInv

\* A line that sets something is the last that says it.
LEMMA TakeKeeps ==
    ASSUME ConfigInv, TakeLine
    PROVE  ConfigInv'
<1>1. ConfigTypeOK /\ ReadSoFar /\ ActiveIsOneFile /\ Reading
  BY DEF ConfigInv, TakeLine
<1>2. /\ at' = at + 1 /\ UNCHANGED <<phase, file, active, taken>> /\ Scalar # << >>
      /\ ~Refused(Named, Value)
      /\ cfg' = IF Skipped(Named, Value) THEN cfg
                ELSE [cfg EXCEPT ![Named] = Stored(Named, Value)]
  BY DEF TakeLine, Take
<1>3. /\ file \in Seq(Line) /\ at \in 0 .. Len(file) - 1 /\ at + 1 \in 0 .. Len(file)
      /\ NextLine \in Line /\ NextLine.style # "none" /\ Value = NextLine.value
      /\ Named \in Setting \union {"none"}
  BY <1>1, <1>2, NextLineReads
<1>4. at \in Nat /\ phase = "reading"
  BY <1>1, <1>3 DEF Reading
<1>5. /\ file \in Files /\ NoneRefused(file, at) /\ Accepted(cfg)
      /\ \A s \in Setting : cfg[s] = MeantBy(file, at, s)
  BY <1>1, <1>4 DEF ReadSoFar
<1>6. Value \in Text /\ cfg \in Config
  BY <1>1, <1>3, Styles DEF ConfigTypeOK
<1>7. Skipped(Named, Value) \/ Named \in Setting
  BY <1>3, SettingType
<1> DEFINE new == [cfg EXCEPT ![Named] = Stored(Named, Value)]
<1>8. /\ new \in Config /\ Accepted(new)
      /\ \A s \in Setting : new[s] = IF s = Named THEN Stored(Named, Value) ELSE cfg[s]
  <2>0. CASE Named \in Setting
    <3>1. Stored(Named, Value) \in Text /\ ~Refused(Named, Stored(Named, Value))
      BY <1>2, <1>6, <2>0, StoredType
    <3>2. \A s \in Setting : new[s] = IF s = Named THEN Stored(Named, Value) ELSE cfg[s]
      BY <1>6 DEF Config
    <3>3. new \in Config
      BY <1>6, <3>1 DEF Config
    <3> HIDE DEF new
    <3>4. Accepted(new)
      BY <1>5, <3>1, <3>2 DEF Accepted
    <3> QED
      BY <3>2, <3>3, <3>4
  <2>1. CASE Named \notin Setting
    <3>1. new = cfg
      BY <1>6, <2>1 DEF Config
    <3> HIDE DEF new
    <3>2. \A s \in Setting : s # Named
      BY <2>1
    <3> QED
      BY <1>5, <1>6, <3>1, <3>2
  <2> QED
    BY <2>0, <2>1
<1>9. cfg' \in Config /\ Accepted(cfg')
  <2> HIDE DEF new
  <2> QED
    BY <1>2, <1>5, <1>6, <1>8 DEF new
<1>10. \A s \in Setting : cfg'[s] = MeantBy(file, at + 1, s)
  <2> SUFFICES ASSUME NEW s \in Setting PROVE cfg'[s] = MeantBy(file, at + 1, s)
    OBVIOUS
  <2>1. Says(file[at + 1], s) <=> Named = s /\ ~Skipped(s, Value)
    BY <1>3 DEF Says, NextLine, Named
  <2>2. cfg[s] = MeantBy(file, at, s) /\ file[at + 1].value = Value
    BY <1>3, <1>5 DEF NextLine
  <2>3. MeantBy(file, at + 1, s) = IF Named = s /\ ~Skipped(s, Value) THEN Stored(s, Value)
                                   ELSE cfg[s]
    BY <1>3, <2>1, <2>2, MeantStep
  <2>4. new[s] = IF s = Named THEN Stored(Named, Value) ELSE cfg[s]
    BY <1>8
  <2> HIDE DEF new
  <2> QED
    BY <1>2, <2>3, <2>4 DEF new
<1>11. NoneRefused(file, at + 1)
  BY <1>2, <1>3, <1>4, <1>5, NoneRefusedStep DEF NextLine, Named
<1> HIDE DEF new
<1>12. ReadSoFar'
  BY <1>2, <1>4, <1>5, <1>9, <1>10, <1>11 DEF ReadSoFar
<1>13. ConfigTypeOK'
  BY <1>1, <1>2, <1>3, <1>9 DEF ConfigTypeOK
<1>14. ActiveIsOneFile'
  BY <1>1, <1>2 DEF ActiveIsOneFile
<1> QED
  BY <1>12, <1>13, <1>14 DEF ConfigInv

\* Giving up or reaching the end: the active configuration stays or is what the
\* file meant.
LEMMA EndKeeps ==
    ASSUME ConfigInv, Idle, phase = "reading",
           \/ UNCHANGED <<active, taken>>
           \/ at = Len(file) /\ active' = cfg /\ taken' = file
    PROVE  ConfigInv'
<1>1. ConfigTypeOK /\ ActiveIsOneFile
  BY DEF ConfigInv
<1>2. /\ file \in Files /\ NoneRefused(file, at) /\ Accepted(cfg) /\ cfg \in Config
      /\ \A s \in Setting : cfg[s] = MeantBy(file, at, s)
  BY DEF ConfigInv, ConfigTypeOK, ReadSoFar
<1>3. ReadSoFar'
  BY DEF ReadSoFar, Idle
<1>4. ConfigTypeOK'
  <2>1. /\ taken' \in Files \union {<< >>} /\ active' \in Config /\ Accepted(active')
    BY <1>1, <1>2 DEF ConfigTypeOK
  <2>2. phase' = "idle" /\ file' = << >> /\ at' = 0 /\ cfg' \in Config /\ Len(<< >>) = 0
    BY SettingType DEF Idle
  <2> QED
    BY <2>1, <2>2 DEF ConfigTypeOK
<1>5. ActiveIsOneFile'
  <2>1. CASE UNCHANGED <<active, taken>>
    BY <1>1, <2>1 DEF ActiveIsOneFile
  <2>2. CASE at = Len(file) /\ active' = cfg /\ taken' = file
    BY <1>2, <2>2 DEF ActiveIsOneFile, Meant
  <2> QED
    BY <2>1, <2>2
<1> QED
  BY <1>3, <1>4, <1>5 DEF ConfigInv

LEMMA ConfigStep == ConfigInv /\ [ConfigNext]_configVars => ConfigInv'
<1> SUFFICES ASSUME ConfigInv, [ConfigNext]_configVars PROVE ConfigInv'
  OBVIOUS
<1>1. CASE Begin
  <2>1. ConfigTypeOK /\ ActiveIsOneFile
    BY DEF ConfigInv
  <2>2. file' \in Files /\ file' \in Seq(Line) /\ Len(file') \in Nat
    BY <1>1, FilesAssumption DEF Begin
  <2>3. \A s \in Setting : MeantBy(file', 0, s) = defaultConfig[s]
    BY <2>2, MeantStep
  <2>4. ReadSoFar'
    <3>1. NoneRefused(file', 0) /\ Accepted(defaultConfig)
      BY DEF NoneRefused, Accepted
    <3> QED
      BY <1>1, <2>2, <2>3, <3>1
         DEF Begin, ReadSoFar
  <2>5. ConfigTypeOK'
    BY <1>1, <2>1, <2>2, SettingType DEF Begin, ConfigTypeOK
  <2>6. ActiveIsOneFile'
    BY <1>1, <2>1 DEF Begin, ActiveIsOneFile
  <2> QED
    BY <2>4, <2>5, <2>6 DEF ConfigInv
<1>2. CASE SkipLine
  BY <1>2, SkipKeeps
<1>3. CASE TakeLine
  BY <1>3, TakeKeeps
<1>4. CASE RefuseFile
  BY <1>4, EndKeeps DEF RefuseFile, BadLine, Reading
<1>5. CASE EndOfFile
  BY <1>5, EndKeeps DEF EndOfFile
<1>6. CASE UNCHANGED configVars
  BY <1>6 DEF configVars, ConfigInv, ConfigTypeOK, ActiveIsOneFile, ReadSoFar
<1> QED
  BY <1>1, <1>2, <1>3, <1>4, <1>5, <1>6 DEF ConfigNext

\* What has been read of a file is what its lines meant, and the active
\* configuration is one that every setting accepts.
THEOREM ConfigInvariant == ConfigSpec => []ConfigInv
<1> QED
  BY ConfigStart, ConfigStep, PTL DEF ConfigSpec

THEOREM ConfigTypes == ConfigSpec => []ConfigTypeOK
<1>1. ConfigInv => ConfigTypeOK
  BY DEF ConfigInv
<1> QED
  BY <1>1, ConfigInvariant, PTL

\* However its lines are quoted and commented, the active configuration is what one
\* file meant, whole.
THEOREM FilesAreRead == ConfigSpec => []ActiveIsOneFile
<1>1. ConfigInv => ActiveIsOneFile
  BY DEF ConfigInv
<1> QED
  BY <1>1, ConfigInvariant, PTL

\* The deadline comes after agy's own timeout, whatever was configured.
THEOREM DeadlineIsLast == ConfigSpec => []AgyStopsFirst
<1>1. AgyStopsFirst
  <2> DEFINE d == Duration(active["timeout"])
  <2>1. d \in {60, LongTimeout, 0, -10}
    BY DEF Duration, DefaultTimeout
  <2>2. commandTimeout(active["timeout"]) = Plus(IF d <= 0 THEN 60 ELSE d, 1)
    BY DEF commandTimeout, DefaultTimeout, Grace
  <2> HIDE DEF d
  <2>3. d <= MaxDuration - 1 => Plus(IF d <= 0 THEN 60 ELSE d, 1) > d
                                /\ Plus(IF d <= 0 THEN 60 ELSE d, 1) > 0
    BY <2>1, DurationAssumption DEF Plus
  <2> QED
    BY <2>2, <2>3 DEF AgyStopsFirst, Grace, d
<1> QED
  BY <1>1, PTL
=============================================================================
