----------------------------- MODULE ConfigFile -----------------------------
(***************************************************************************)
(* Registration and reconfiguration: how the text of the configuration     *)
(* becomes the active one (parsePluginConfig and its helpers, config.go),  *)
(* and the deadline that follows from it (commandTimeout, agy.go).         *)
(*                                                                         *)
(* A file is what somebody meant to write: lines with a key, a value, a    *)
(* style of quoting and maybe a comment.  The model writes each line as    *)
(* YAML wants it and reads it as the code does, so that what is read can   *)
(* be compared with what was meant.  A text is a row of words, blanks,     *)
(* quotes, backslashes and hashes; a word does not begin with a letter     *)
(* that a backslash turns into a control character.  What setConfig does   *)
(* to the catalogue is ModelCatalog's.                                     *)
(***************************************************************************)
EXTENDS Integers, Sequences

CONSTANTS
    Files,         \* the files the plugin is given
    LongTimeout,   \* the duration of the second word, in units of 30 seconds
    MaxDuration    \* the largest value of time.Duration in these units

\* The words mean something to every setting but workdir, where any text is a
\* directory: "w1" is agy, 30m, true or low; "w2" antigravity, LongTimeout, false
\* or high; "past" a negative duration and "zero" none; "junk" nothing, or a
\* file's path.  "w1" and "cwd", the directory the host runs in, are absolute paths.
Word == {"w1", "w2", "past", "zero", "cwd", "junk"}
Char == Word \union {"blank", "sq", "dq", "bs", "hash"}
Text == Seq(Char)

ConfigKey == {"binary_path", "Binary-Path", "workdir", "print_timeout", "sandbox",
        "dangerously-skip-permissions", "effort", "reasoning_effort", "store"}

\* A plain value is a word: any other must be quoted to be read.  "none" is a
\* key with nothing after its colon.
Line == {e \in [key : ConfigKey, style : {"none", "plain", "single", "double"},
                value : Text, comment : BOOLEAN] :
            /\ e.style = "none" => e.value = << >>
            /\ e.style = "plain" => Len(e.value) = 1 /\ e.value[1] \in Word}

ASSUME FilesAssumption == Files \subseteq Seq(Line)
ASSUME DurationAssumption ==
    /\ LongTimeout \in Nat \ {0} /\ MaxDuration \in Nat
    /\ LongTimeout <= MaxDuration /\ 61 <= MaxDuration

VARIABLES
    phase,        \* "idle" or "reading"
    file,      \* the file of the call
    at,        \* how many of its lines were read
    cfg,       \* what they have set so far
    active,    \* the configuration of the plugin
    taken      \* history: the file it came from

configVars == <<phase, file, at, cfg, active, taken>>

Setting == {"binary", "workdir", "timeout", "skip", "sandbox", "effort"}

defaultConfig ==
    [s \in Setting |-> IF s \in {"binary", "timeout"} THEN <<"w1">>
                       ELSE IF s \in {"skip", "sandbox"} THEN <<"w2">> ELSE << >>]

ConfigInit ==
    /\ phase = "idle" /\ file = << >> /\ at = 0
    /\ cfg = defaultConfig /\ active = defaultConfig
    /\ taken = << >>

-----------------------------------------------------------------------------
(* Scanning a text. *)

\* A scanner says for each mode and character the mode it goes to and what it
\* writes.
Go(mode, out) == [mode |-> mode, out |-> out]

Read(scanner, before, c) ==
    LET step == scanner[before.mode][c]
    IN  Go(step.mode, before.out \o step.out)

\* Where a scanner is after text, and what it has written.
Scan(text, scanner, start) ==
    LET upTo[i \in 0 .. Len(text)] ==
            IF i = 0 THEN Go(start, << >>) ELSE Read(scanner, upTo[i - 1], text[i])
    IN  upTo[Len(text)]

-----------------------------------------------------------------------------
(* How a line is written. *)

Doubling ==
    [m \in {"text"} |-> [c \in Char |-> Go(m, IF c = "sq" THEN <<c, c>> ELSE <<c>>)]]

Escaping ==
    [m \in {"text"} |->
        [c \in Char |-> Go(m, IF c \in {"dq", "bs"} THEN <<"bs", c>> ELSE <<c>>)]]

Comment == <<"blank", "hash", "blank", "junk", "sq">>

\* The value in its quotes.
Quoted(e) ==
    CASE e.style \in {"none", "plain"} -> e.value
      [] e.style = "single" -> <<"sq">> \o Scan(e.value, Doubling, "text").out \o <<"sq">>
      [] e.style = "double" -> <<"dq">> \o Scan(e.value, Escaping, "text").out \o <<"dq">>

Written(e) == <<"blank">> \o Quoted(e) \o (IF e.comment THEN Comment ELSE << >>)

-----------------------------------------------------------------------------
(* How it is read. *)

\* Where the scan of stripYAMLComment is after one more character.
ScanMode(mode, c) ==
    CASE mode = "plain"   -> (CASE c = "sq" -> "single" [] c = "dq" -> "double"
                                [] c = "hash" -> "comment" [] OTHER -> "plain")
      [] mode = "single"  -> IF c = "sq" THEN "plain" ELSE "single"
      [] mode = "double"  -> (CASE c = "dq" -> "plain" [] c = "bs" -> "escape"
                                [] OTHER -> "double")
      [] mode = "escape"  -> "double"
      [] mode = "comment" -> "comment"

Stripping ==
    [m \in {"plain", "single", "double", "escape", "comment"} |-> [c \in Char |->
        Go(ScanMode(m, c), IF ScanMode(m, c) = "comment" THEN << >> ELSE <<c>>)]]

stripYAMLComment(text) == Scan(text, Stripping, "plain").out

TrimSpace(text) ==
    LET solid == {i \in DOMAIN text : text[i] # "blank"}
    IN  IF solid = {} THEN << >>
        ELSE SubSeq(text, CHOOSE i \in solid : \A j \in solid : i <= j,
                          CHOOSE i \in solid : \A j \in solid : j <= i)

\* strings.ReplaceAll: of two quotes in a row the second goes.
Undoubling ==
    [m \in {"text", "quote"} |-> [c \in Char |->
        IF c # "sq" THEN Go("text", <<c>>)
        ELSE IF m = "text" THEN Go("quote", <<c>>) ELSE Go("text", << >>)]]

\* strconv.Unquote: no quote without a backslash, no backslash before anything
\* but a quote or a backslash.
Unescaping ==
    [m \in {"text", "escape", "error"} |-> [c \in Char |->
        IF m = "text" /\ c = "bs" THEN Go("escape", << >>)
        ELSE IF (m = "text" /\ c # "dq") \/ (m = "escape" /\ c \in {"dq", "bs"})
        THEN Go("text", <<c>>)
        ELSE Go("error", << >>)]]

unquoteYAMLScalar(text) ==
    LET n    == Len(text)
        body == SubSeq(text, 2, n - 1)
        In(q) == n >= 2 /\ text[1] = q /\ text[n] = q
    IN  IF In("sq") THEN Scan(body, Undoubling, "text").out
        ELSE IF In("dq") /\ Scan(body, Unescaping, "text").mode = "text"
        THEN Scan(body, Unescaping, "text").out
        ELSE text

\* normalizeConfigKey and the switch over the keys: "none" is any other key.
SettingOf(key) ==
    CASE key \in {"binary_path", "Binary-Path"} -> "binary"
      [] key = "workdir" -> "workdir"
      [] key = "print_timeout" -> "timeout"
      [] key = "sandbox" -> "sandbox"
      [] key = "dangerously-skip-permissions" -> "skip"
      [] key \in {"effort", "reasoning_effort"} -> "effort"
      [] OTHER -> "none"

IsBinary(v) == TrimSpace(v) \in {<<"w1">>, <<"w2">>}

\* The setting refuses the value, and the whole file with it.
Refused(s, v) ==
    CASE s = "binary" -> v # << >> /\ ~IsBinary(v)
      [] s = "workdir" -> TrimSpace(v) = <<"junk">>
      [] s = "timeout" -> v # << >> /\ v \notin {<<"w1">>, <<"w2">>, <<"past">>, <<"zero">>}
      [] s \in {"skip", "sandbox"} -> v \notin {<<"w1">>, <<"w2">>}
      [] s = "effort" -> TrimSpace(v) \notin {<<"w1">>, <<"w2">>}
      [] s = "none" -> FALSE

\* A value that leaves its setting alone.
Skipped(s, v) == s = "none" \/ (s \in {"binary", "timeout"} /\ v = << >>)

\* filepath.Clean and filepath.Abs: what does not begin with an absolute path is one
\* in the directory the host runs in.
Absolute(dir) ==
    IF dir = << >> \/ dir[1] \in {"w1", "cwd"} THEN dir ELSE <<"cwd">> \o dir

\* A binary keeps the blanks it was quoted with, a directory does not.
Stored(s, v) ==
    CASE s = "workdir" -> Absolute(TrimSpace(v))
      [] s = "effort" -> TrimSpace(v)
      [] OTHER -> v

-----------------------------------------------------------------------------
(* The call. *)

Begin ==
    /\ phase = "idle"
    /\ file' \in Files
    /\ phase' = "reading" /\ at' = 0 /\ cfg' = defaultConfig
    /\ UNCHANGED <<active, taken>>

\* The next line and what comes after its colon.
NextLine == file[at + 1]
Scalar == TrimSpace(stripYAMLComment(Written(NextLine)))
Named == SettingOf(NextLine.key)
Value == unquoteYAMLScalar(Scalar)

Reading == phase = "reading" /\ at < Len(file)

\* Nothing after the colon, or a nested mapping.
SkipLine ==
    /\ Reading /\ Scalar = << >>
    /\ at' = at + 1
    /\ UNCHANGED <<phase, file, cfg, active, taken>>

\* What a line sets.
Take ==
    /\ cfg' = IF Skipped(Named, Value) THEN cfg ELSE [cfg EXCEPT ![Named] = Stored(Named, Value)]
    /\ at' = at + 1
    /\ UNCHANGED <<phase, file, active, taken>>

\* Mutant: a value is taken unseen.
TakeUnchecked == Reading /\ Scalar # << >> /\ Take

TakeLine == Reading /\ Scalar # << >> /\ ~Refused(Named, Value) /\ Take

BadLine == Reading /\ Scalar # << >> /\ Refused(Named, Value)

Idle == phase' = "idle" /\ file' = << >> /\ at' = 0 /\ cfg' = defaultConfig

\* Mutant: a bad line is skipped.
SkipBadLine ==
    /\ BadLine
    /\ at' = at + 1
    /\ UNCHANGED <<phase, file, cfg, active, taken>>

\* The call fails and the active configuration stays.
RefuseFile ==
    /\ BadLine
    /\ Idle
    /\ UNCHANGED <<active, taken>>

\* The last look at the binary, and setConfig.
EndOfFile ==
    /\ phase = "reading" /\ at = Len(file)
    /\ IF IsBinary(cfg["binary"])
       THEN active' = cfg /\ taken' = file
       ELSE UNCHANGED <<active, taken>>
    /\ Idle

ConfigNext == Begin \/ SkipLine \/ TakeLine \/ RefuseFile \/ EndOfFile

ConfigSpec == ConfigInit /\ [][ConfigNext]_configVars

-----------------------------------------------------------------------------
(* The deadline of a command. *)

Grace == 1
DefaultTimeout == 60

Duration(v) == CASE v = <<"w1">> -> DefaultTimeout
                 [] v = <<"w2">> -> LongTimeout
                 [] v = <<"zero">> -> 0
                 [] OTHER -> -10

\* Addition of time.Duration, a signed integer that wraps around.
Plus(a, b) == IF a + b > MaxDuration THEN a + b - 2 * (MaxDuration + 1) ELSE a + b

\* Mutant: the printed timeout is taken whatever its sign.
TimeoutAsWritten(v) == Plus(Duration(v), Grace)

commandTimeout(v) ==
    Plus(IF Duration(v) <= 0 THEN DefaultTimeout ELSE Duration(v), Grace)

-----------------------------------------------------------------------------
(* Properties. *)

Config == [Setting -> Text]

\* No setting refuses what it has.
Accepted(c) == \A s \in Setting : c[s] # defaultConfig[s] => ~Refused(s, c[s])

\* Every variable has its type, and the active configuration is one that every
\* setting accepts.
ConfigTypeOK ==
    /\ phase \in {"idle", "reading"}
    /\ file \in Files \union {<< >>} /\ taken \in Files \union {<< >>}
    /\ at \in 0 .. Len(file)
    /\ cfg \in Config /\ active \in Config
    /\ Accepted(active)

\* The last line of a file that says something about a setting, by what was
\* meant.
Says(e, s) == SettingOf(e.key) = s /\ e.style # "none" /\ ~Skipped(s, e.value)

\* What the first n lines of a file meant.
MeantBy(f, n, s) ==
    LET lines == {i \in 1 .. n : Says(f[i], s)}
    IN  IF lines = {} THEN defaultConfig[s]
        ELSE Stored(s, f[CHOOSE i \in lines : \A j \in lines : j <= i].value)

Meant(f, s) == MeantBy(f, Len(f), s)

\* None of the first n lines has a value that its setting refuses.
NoneRefused(f, n) ==
    \A i \in 1 .. n : f[i].style # "none" => ~Refused(SettingOf(f[i].key), f[i].value)

\* The active configuration is what one file meant, none of whose lines has a value
\* that its setting refuses: the last line for each setting with the value that was
\* written, whatever quotes, hashes and backslashes are in it and in the comment
\* behind it, and the default for a setting the file does not name, whatever an
\* earlier file said.
ActiveIsOneFile ==
    /\ \A s \in Setting : active[s] = Meant(taken, s)
    /\ NoneRefused(taken, Len(taken))

\* agy's own timeout comes before the deadline that kills it, and the deadline
\* lies ahead, even for a timeout that has passed; but for one within the grace
\* of the largest duration, whose sum wraps around.
AgyStopsFirst ==
    LET limit == Duration(active["timeout"]) IN
    limit <= MaxDuration - Grace
    => commandTimeout(active["timeout"]) > limit /\ commandTimeout(active["timeout"]) > 0

-----------------------------------------------------------------------------
(* Why they hold. *)

\* What a reading has so far is what the lines behind it meant, and no setting
\* of it is one that the last look would have to refuse.
ReadSoFar ==
    IF phase = "idle" THEN cfg = defaultConfig
    ELSE /\ file \in Files
         /\ \A s \in Setting : cfg[s] = MeantBy(file, at, s)
         /\ NoneRefused(file, at)
         /\ Accepted(cfg)

ConfigInv == ConfigTypeOK /\ ActiveIsOneFile /\ ReadSoFar
=============================================================================
