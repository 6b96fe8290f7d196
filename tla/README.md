# Verification of cliproxy-antigravity

This directory holds TLA+ models of the plugin in this repository, the TLC
configurations that check them on small instances, and TLAPS proofs of what
matters most for instances of every size. The models are written from the Go
code; a doc or a comment only enters as a claim to be compared with it.

`PROJECT.json` is the index: components, runs, mutants, theorems, hazards,
findings, and for every definition the source lines it stands for.

## The system

The plugin is a C shared library inside CLIProxyAPI. The host calls it from its
own threads (`main.go`, `plugin.go`); the plugin runs the `agy` command line tool
and answers, or, for a streaming request, starts a goroutine that calls the host
back for every chunk.

| Component | State it keeps | Operations | Talks to |
| --- | --- | --- | --- |
| Streaming execution (`agy.go` `executeStream`) | the goroutine's locals: text so far, held-back flag, terminal result, conversation id; the process; the pipe | start, register, emit, scan an event, wait, settle, close, kill | agy (pipe, signals), the host (emit, close), the registry |
| Tool-call recognition (`openai.go`, prefix test in `agy.go`) | none | `extractToolCalls`, the prefix test | used by both executions |
| Process registry (`agy.go`, `process_unix.go`) | `activeProcesses.cmds` under a mutex; process groups of the system | add, remove, `killAll`, `killProcessTree`, `cmd.Cancel` | every execution, discovery, shutdown |
| Configuration and catalogue (`config.go`, `agy.go`) | `configState`, `modelCatalog`, each with a lock | `setConfig`, `currentConfig`, `discoverModels`, `resolveNativeModel`, `invalidateModels` | every call of the host; runs `agy models` |
| Names and efforts (`agy.go`) | the mapping `nativeByID` | parse a listing, build the mapping, resolve a name, choose an effort, build the flags | catalogue, executions |
| Image staging (`openai.go` `stageImage`) | the files of the image cache | stat, write, return a path | prompts; agy reads the files |
| Prompt building (`openai.go`, `agy.go`) | none; agy keeps sessions, the client its history | `buildPrompt`, the conversation ids of `resolveExecutionOptions` | executions, token count |
| Configuration parsing (`config.go`) | none beyond the active configuration | `parsePluginConfig`, comment stripper, unquoting, validators, `commandTimeout` | dispatch |
| Non-streaming execution (`agy.go`) | the call's locals, its process, the buffers of its output | `runAgyJSON`, `parseAgyJSONOutput`, `makeChatCompletion` | registry |
| Method dispatch (`plugin.go`), C ABI (`main.go`) | none; buffers handed over | `handleMethod`, `callHost` | everything |

What is hard about it:

* **Concurrency.** Host threads, stream goroutines, the goroutine `os/exec` uses
  to watch a context, and the shutdown run side by side. Registry, configuration
  and catalogue have a lock each; a discovery keeps its lock while agy runs; the
  image cache has none.
* **Failure.** agy may print anything, hang, exit with an error, or leave helpers
  that keep its pipes open; the host may refuse any chunk; a write of an image may
  fail half way; the host process may be killed.
* **Order.** The deadline races the result; a kill by number races the end of the
  process; chunks already sent cannot be taken back; Go walks maps in any order.

## Modules

| Module | What it is | Code |
| --- | --- | --- |
| `ToolCalls` | texts as sequences of delta tokens; the two recognisers | `extractToolCalls`, prefix test |
| `RunContract` | abstract: an answer for a clean run, an error for any other | – |
| `StreamContract` | abstract: what a stream promises the host | – |
| `StreamExecution` | one stream with its process, pipe, helpers, deadline, host | `executeStream`, `emit…`, `close…`, `makeSSEChunk` |
| `CompletionExecution` | one non-streaming call with its process, on either build | `runAgyJSON`, `parseAgyJSONOutput`, `makeChatCompletion`, `process_windows.go` |
| `ConversationHistory` | a chat over many requests, with agy's sessions | `buildPrompt`, the conversation of `resolveExecutionOptions` |
| `ProcessRegistry` | several calls, process numbers, kills, shutdown | `processRegistry`, `process_unix.go` |
| `ModelCatalog` | configuration and catalogue under concurrent calls | `config.go`, `discoverModels`, `resolveNativeModel` |
| `ModelNames`, `ModelSelection` | names, mapping, effort and flags | `parseAgyModelLines`, the mapping loop, `resolveExecutionOptions`, `agyArgs` |
| `ImageStaging` | concurrent stagings and the files they share | `stageImage` |
| `ConfigFile` | files of the configuration, line by line, and the deadline | `parsePluginConfig` and helpers, `commandTimeout` |
| `PluginCalls` | calls in and out, blocks of memory, goroutines of streams | `main.go`, `handleMethod` |
| `MC…` | lines, helpers, names, files for TLC | – |
| `…Proofs` | theorems and proofs of the module they are named after | – |
| `SettingsProofs` | theorems and proofs of `ModelSelection` and `ConfigFile` | – |

`RunContract` ties the two executions together: `StreamExecution` and
`CompletionExecution` each map their variables to "how the run went" and "what the
client was told" and implement it, so a stream and a completion agree on which
outcomes of agy are answers. `PluginCalls` is the frame around them: its stream is
`StreamExecution` reduced to its calls of the host and the end of its command's output.

### StreamExecution

`pc` is where the goroutine is; there is one action per statement that starts,
reads, waits, emits or closes, so every early return of `executeStream` is an
action of its own and the deferred `remove` is `Return`, which all of them pass.
`Emit` is a call of the host: the chunk is appended to `wire`, or its kind is put
into `lost` and the action goes on where the code goes on after an error, which
for the chunks of a tool call and for held text is the same place. `proc` and
`exit` are the process as the kernel sees it (`zombie` until `cmd.Wait`), `helper`
is a process that agy left behind: whether it stayed in the group, and which
pipes it keeps open. `Timeout` and `ShutdownKill` send the group kill at any
moment between. `WaitDelayElapses` is what `os/exec` does five seconds after the
deadline: it closes its ends of the pipes if it is still copying stderr or stdin
("stderr" stands for both); the pipe of `StdoutPipe` is read by the scanner and
not copied, so alone it is not a reason to close anything.

A line of agy is reduced to what the event switch looks at, a delta to one token
of `ToolCalls`. The tokens are exactly the pieces at which the two recognisers
part: a whole fence, `` ```json ``, the halves of either when a delta boundary cuts it,
a bracket, a brace, a closed and named call, prose. Blanks around a text and the arguments of
a call are not modelled.

`StreamContract` says what a consumer can rely on: the role first, content, one
ending, nothing after it, and an error and a finished answer exclude each other.
Refused chunks are lost; a refusal ends the stream, except of held-back content
or in a tool call. `ImplementsContract` maps the wire to the kinds on it.

`EveryStreamEnds` holds but for one kind of helper (`Unreachable`): one that left
agy's group and holds stdout and nothing else, for ever. `SECURITY.md:25` makes no
such exception. `OpenersAreHeld` says which tool calls are never seen as text: exactly
those whose first delta is an opener of the prefix test, and those that come in the result
alone. All others are seen as text first: a bare object (a call for `extractToolCalls`,
no opener for the prefix test), a call with prose before its fence, and one whose fence a
delta cuts. `AnswerDelivered` excepts the answer whose first delta cuts a fence.

### CompletionExecution

The same process, helper and kills as in `StreamExecution`, but `os/exec` copies both
pipes, so after `Reap` the call waits for the copies (`Drained`) or for the wait delay
(`DelayElapses`), on which `cmd.Wait` returns an error. `unix` chooses the build: on
Windows the kill takes agy alone, so helpers survive it. `Settle` is everything after
`cmd.Wait`: last object with a status, its status, the error of the wait, and the
choice between message and tool calls.

### ConversationHistory

The client's list of messages, the session agy keeps under each id, and one request at
a time. `Ask` computes the conversation twice, as the code does: for `--conversation`
(`ConversationOf`) and again for the prompt (`PromptConversation`); a shape says in
which of the eight places the request names it, and where it puts blanks. A message is
a number and a role. The client may write several messages, answers of its own among
them, change any message where it stands (`Edit`), take messages back from the end
(`Retract`) and ask again after a failure, with or without the id it saw. History
variables say what it did: `repeated` are the messages it knowingly asks twice,
`rewritten` those it put before an answer, or as an answer, after the fact.

What stands before the last answer is left out of a resumed prompt, as if agy had it.
So agy does miss what is `rewritten`, and all that stands before an answer it never gave.
`AgyMissesOnlyRewrites` says that it misses nothing else. A message that disappears from
the middle of the list is not modelled: agy's session has it still.

A list that ends with an assistant message is sent as a whole, though resumed: the
code looks for messages after the last answer, finds none and keeps all.
`OnlyTheNewTurn` leaves this case out, which `README.md:226` does not mention.

### ProcessRegistry

A call is any of the three callers of `cmd.Start`; a stream may also kill on a
refused chunk, and waits for its command only when its scan loop is over (`ScanEnds`):
`output` tells what keeps the command's output open, in particular a helper out of the
group, with a pipe that `os/exec` copies and closes after the wait delay (`copied`) or
with nothing but the pipe of `StdoutPipe`, which nobody closes (`stuck`). A stream may wait
for that one for ever; `CallsAndShutdownEnd` names the exception. `started` is the gap between `Start` and `add`; `reaped` the gap
between the end of `Process.Wait` and that of `cmd.Wait`, in which the context is
still watched. Numbers come from a small set and go back when neither the leader
nor a member of the group is left, and other processes of the system take them
too: that is how a late kill can stray. `killed`, `doomed` and `strays` are
history. Group kills act on the number, as the system call does.

### ModelCatalog

Threads call `setConfig`, list models or resolve a name. `setConfig` is two steps
with the lock of the catalogue taken in the second; a discovery is a hit, or a
fetch that keeps the mutex from `StartFetch` to `Store`. The content of the
catalogue is abstracted to its origin: binary, directory, whether the listing was
complete. `age` stands for the time since `fetchedAt`, up to `TTL`.

A resolution throws away what its discovery answered and looks into the shared catalogue
under a second lock. `ResolvesFromItsCatalogue` is about all that may happen in between.
`overlapped` is history: the calls during which a reconfiguration or a call of another
binary was under way. These may find another binary's catalogue there or none, so that
the requested name may go to agy as it is spelt; every other call finds its own.

### ModelNames and ModelSelection

A name is a form (slug or label), a base and an effort. `AddLine` is the body of
the parsing loop (first line wins, the base comes along), folded over the listing.
`MapEntry` is one round of the mapping loop for any entry not walked yet.
`ReasoningEffort` is the chain of places that may name an effort. `WishesBeatDefaults`
asks that one of the efforts the request names, in whatever place, be given to agy; it
excepts `Overruled`, what the code does not hear: the effort in a requested label when the
configuration has another, and an effort behind a header or a metadata field that names
none. `ListedNamesResolve` covers listed slugs, their bases and the labels of both; two
slugs that spell medium differently share a label, which then stands for either. Upper case,
double suffixes (`x-high-low`) and labels that do not belong to their slug are
outside the model; keys with `antigravity/` are never read and left out. Names and
mapping are written as functions over the lines (`Parse`, `Override`) so that they can
be reasoned about, not only evaluated.

### ImageStaging

`Stat`, `Open` (which truncates), `WriteBlock` and `CloseFile` are the system
calls of `os.Stat` and `os.WriteFile`; a file is the set of blocks that hold the
right bytes, so a hole left by a truncation under an open writer is a missing
block. `Crash` ends every call in progress and leaves the files.

`SettledFilesAreWhole` is about writes that were not cut short. `SettledFilesStay` is about
all: what exists and is not being written is never written again. That is what makes the
cache sound, and what makes a file that was cut short stay so: `Stat` finds it, and every
later request with the image is answered with its path.

### ConfigFile

A line is what somebody meant (key, value, quotes, comment). `Written` is the text that
YAML wants for it; what is read of that text by the code's scanner is then compared
with what was meant. A text is a row of words, blanks, quotes, backslashes and hashes:
the characters the scanner and the unquoting tell apart. A word stands for a value:
the same two good words serve every setting, and any text is a directory, which a relative
one becomes with the host's own in front (`Absolute`). A scanner is a
table (mode and character give the next mode and what is written); `Scan` runs one over
a text. There are five: `Stripping`, `Undoubling` and `Unescaping` are the code's,
`Doubling` and `Escaping` write a value as YAML wants it. The variable `phase` and the names
`ConfigKey`, `ConfigInit`, `ConfigNext`, `ConfigSpec` only keep the module apart from
`ModelSelection` in the proofs. Values without quotes are single words (an apostrophe in a
longer one swallows a comment, where YAML would not).

`TakeLine` and `RefuseFile` are one round of the loop, `EndOfFile` the last look at
the binary and `setConfig`. Time is counted in the 30 seconds `commandTimeout` adds,
and wraps at `MaxDuration`.

### PluginCalls

A call is a host thread in `cliproxyPluginCall`; `HandleFails` and the actions per
method are `handleMethod`, `Respond` is `writeResponse`, `HostFrees` the host's
`cliproxyPluginFree`. The goroutine of an accepted stream reads the configuration for
itself and builds its prompt again (which may fail this time: `CloseEarly`), starts its
command, emits, and closes once the command's output has ended (`OutputEnds`), which it
need not (`AcceptedStreamsEnd` names the exception). Each call of the host is four steps: `CallHost` allocates
the two blocks, `HostReplies` may hand over a block, an empty one or none,
`FreeReply` gives it back, and `ReturnFromHost` stands for all returns of `callHost`
with their deferred frees. `live` holds the blocks that exist, `strayed` remembers a
second free or one by the wrong side. Allocation does not fail (`C.CBytes` does not
return without a block), the host's table has a `free_buffer` if it exists, and sizes
are left out.

## Runs

Every run ends within three minutes with two workers. Deadlock checking is off
where the system may stop (a stream or a completion ends; calls are over and the
plugin is down; every staging is done; a request has its flags; all messages are
written); the catalogue and the reconfigurations never stop.

| Run | Question | Bounds |
| --- | --- | --- |
| `stream_protocol` | finished after a clean run and only then (`RunContract`); nothing left behind; host told; conversation kept; every stream ends | 3 lines of 9 kinds, every helper, pipe of 1 |
| `stream_tools` | the answer arrives whole and once; which calls are seen as text; the stream contract | 4 lines of 13: every token, four results |
| `completion_runs` | answered if and only if the run was clean; every call is answered | 3 lines, every helper, both builds |
| `conversation_turns` | agy misses only what the client rewrote; nothing is sent twice; prompt and flag agree; tools are offered | 5 messages, 2 sessions (symmetric), 6 shapes of a request, one rewrite (`FewRewrites`) |
| `registry_calls` | kills are final, shutdown reaches the registered, strays are late; calls and shutdown end | 2 calls, 2 numbers, other processes |
| `catalog_calls` | answers come from the right catalogue; the mutex is not starved; a bad catalogue is gone after its minute | 2 threads, 2 binaries, 2 directories, 2 reconfigurations |
| `models_selected` | names resolve in every map order; flags agree; defaults beat wishes only where `Overruled` says so | 2 listed slugs of 4, or a label listing; 455 requests; 2 configurations |
| `images_staged` | overlapping writes settle to the image; what has settled stays | 3 calls, 2 images, 3 blocks |
| `config_files` | the active configuration is what one file meant; a bad line refuses its file; the deadline is behind agy's | 2 lines of 19; 107 texts in both quotes with a comment |
| `plugin_calls` | blocks are freed once by their owner; refused streams are silent; accepted streams end | 2 calls, 1 chunk |

Why the bounds are enough. A stream treats all lines alike but for the last
result, the first refusal and the text so far; three lines give an event before,
between and after each of these, and four give a fence, a call and text on either
side. A pipe of one line already blocks the writer. Five messages are a turn, its
answer, and a second turn of up to three messages, which may be cut back, fail and be
asked again, in the first session or a second; one rewritten message before an answer, or
one answer of the client's own, is enough for each exception of `AgyMissesOnlyRewrites`,
and the proof has no such bound. Two calls with two numbers
give every reuse of a number, by the other call or by a stranger. Two threads put
a reconfiguration, a fetch or a hit between any two steps of a resolution, and two
reconfigurations let one be over when a call begins and another overlap it; both safety
properties are proved for any number of them. Three
overlapping writers are a stat, a truncation and a write in any order. Two listed
lines give an entry of the mapping that overwrites keys of another, in both orders.
Two lines of a file give a later line for the same setting, and a good line before and
after a bad one; three characters give every neighbourhood of a quote, a backslash or
a hash. Two calls are two streams, or a stream and any other call at each of its steps; one
chunk is accepted or refused before and after the output has ended.

Fairness. Of the plugin only: goroutines and calls run (`WF` on the steps of a call, a
stream or a completion), contexts expire and wait delays elapse (`WF`), a thread that
waits for a Go mutex gets it in the end (`SF` on a thread's step, since the mutex hands
itself to a starving waiter), and time passes. `plugin_calls` also takes it that the
host returns from its callbacks; the streams' own models count a callback as one step,
with the same assumption. Nothing is assumed of agy, of its helpers, of the host's
refusals or of the beginning of a shutdown: the output of a command need not end, which
`EveryStreamEnds`, `CallsAndShutdownEnd` and `AcceptedStreamsEnd` except by name. `CatalogueHeals` supposes, as part of the property, that
agy works for good from some moment on.

### Disagreements the runs show

Each of these is a run that TLC must find violated.

| Run | What the code does |
| --- | --- |
| `stream_tool_finish` | with `include_usage`, a tool call has no finish reason |
| `completion_unasked_tools` | an answer that looks like a tool call becomes one for a client that offered no tools, when it does not stream |

Others were met while modelling and have no run of their own. The models do what the code
does, and where a property touches one of these its formula and its comment name the
exception:

* a fence cut by a delta boundary makes the first delta arrive twice, if the answer is
  no tool call after all (`agy.go:1051`; `AnswerDelivered` names the exception);
* a bare object is a tool call for `extractToolCalls` (`openai.go:298`), but the test that
  is to buffer what looks like one (`agy.go:955`) does not know its brace: the object is
  streamed raw and then sent again as tool calls; so is an answer with prose before its
  fence, and one whose fence is cut by a delta (`OpenersAreHeld` states both sides);
* a helper outside the group that holds stdout alone keeps its stream for ever
  (`SECURITY.md:25`; `EveryStreamEnds`, `CallsAndShutdownEnd` and `AcceptedStreamsEnd` name
  the exception);
* a command between `Start` and `add`, or one that starts after the snapshot, is not
  seen by the shutdown (`SECURITY.md:24`);
* a worker that agy left in its group outlives a call that ends by itself: nothing is
  signalled on completion (`SECURITY.md:23` says it is);
* agy may be pointed at an image that another request still writes; and one whose write
  was cut short is never written again, and passed for the image by every later request
  (`README.md:182`; `SettledFilesAreWhole` excepts it, `SettledFilesStay` shows that it
  stays);
* what a client changes before the last answer of a resumed conversation, and all that
  stands before an answer agy never gave (edited, or the client's own), is left out of the
  prompt though agy does not have it: `openai.go:87` takes it for stored in the session
  (`AgyMissesOnlyRewrites` names the exceptions);
* a resumed conversation that ends with an assistant message is sent as a whole
  (`README.md:226`; `OnlyTheNewTurn` excepts it);
* a resolution looks into the catalogue under a second lock (`agy.go:412`): a
  reconfiguration, or a call of another binary, that comes in between leaves it another
  catalogue or none, and agy may be given the name as the request spells it
  (`ResolvesFromItsCatalogue` excepts these calls);
* the handler of a stream and its goroutine read the configuration each for itself
  (`plugin.go:224`, `agy.go:886`): a prompt accepted under one may fail under the other,
  after the answer was "ok" (`AcceptedStreamsEnd`: the host is told then);
* the effort in a requested label yields to a configured default that differs, which also
  strips the model of it (`agy.go:717`), and an effort behind a header or a metadata field
  that names none is not looked at; a suffix, a payload field or a header that names one
  does come before the default (`WishesBeatDefaults` excepts both as `Overruled`);
* when agy lists labels, the order of the map walk decides whether the base model
  stands for a label with an effort, which the guard of `agyArgs` (`agy.go:714`) does
  not see;
* a Claude model requested by a label that agy lists is given `--effort`
  (`README.md:236` says the flag is omitted);
* a working directory that does not exist is accepted (`SECURITY.md:43` says it is
  verified to exist);
* keys inside of a nested mapping are read as if they stood at the top, and an
  apostrophe in a value without quotes swallows the comment behind it;
* a timeout within 30 seconds of the largest duration makes a deadline in the past
  (`AgyStopsFirst` excepts it).

## Proofs

TLAPS proves these for every value of the constants, under the assumptions the
modules name (lines and helpers are of their types, an id is not the absent id,
bounds are numbers; a model has no other).

* **StreamExecutionProofs.** `Inv` is `TypeOK` and three relations: the place in
  the goroutine tells the state of the process (`ProcessFollows`), of the
  registry entry (`RegistryFollows`), and what the host has been sent
  (`HostFollows`). `OnlyCleanRunsFinish` is not inductive by itself: that the
  finishing chunks come after a clean run follows from `waitErr` being false where
  the answer is settled, which only `Wait` can set. From `Inv` follow
  `FinishesOnlyCleanRuns`, `LeavesNothingBehind`, `TellsTheHost` and, step by step,
  `KeepsTheContract`: every emitting action is a `Send`, every close a
  `CloseFinished` or `CloseFailed`, and all else a stutter. `ConversationIsKept` has
  an invariant of its own: once a chunk named a conversation, the goroutine knows
  one, and no event makes it forget.
  `WireFollows` and `AnswerFollows` relate the chunks to the text: until the answer is
  settled the wire holds the role and, one by one, the deltas that were not held back,
  an answer whose first delta is an opener was held back from that delta on, and of any
  other the first delta went out at once. From them follow `OpenersHold`, in both
  directions, and `AnswersArrive`, unless the first delta cuts a fence: that exception is
  the code's, not the proof's (see the disagreements), and `stream_tools` has such deltas.
  `KeepsTheRunContract` maps the same steps to the contract it shares with a
  completion: what ends well was a clean run that was waited for.
* **CompletionExecutionProofs.** `CommandFollows` tells the state of the command from
  the step of the call: a call settles only with a reaped command, and with `errWait`
  false only after a clean exit before the deadline. `KeepsTheContract` then maps
  every step to one of `RunContract` or a stutter. The last object with a status
  decides the answer, and nothing is assumed of the lines of agy.
* **ConversationHistoryProofs.** `SessionFollows` relates the client's list to the session
  it names. `GapsAreTheClients`: of what has an answer behind it agy knows all but what the
  client put there later, and what stands before an answer of the client's own that agy
  does not know. `KnownWasAsked`: what agy knows beyond the last answer was asked again.
  An answer keeps both, because what the prompt leaves out is only such a gap
  (`LeftOut`, `GapsOfTheRun`); a failure may only add what is repeated; an edit makes its
  message one of the client's, and a retraction shortens the list. With `RunFollows` (the
  prompt is the one built from the list) this gives `MissesRewrites`, `OnlyNewMessages` and
  `PromptFits`, for any shapes of requests and any number of messages and rewrites.
* **PluginCallsProofs.** `BlocksFollow` says exactly which C blocks live at each place
  of a call and of its goroutine; hence no block is freed twice and none stays
  (`BlocksReturn`). A goroutine exists only for a stream that is, or is about to be,
  answered "ok" (`StreamsAreAccepted`); hence `RejectedStaySilent`.
* **ProcessRegistryProofs.** The heart is `OneGroupPerPid`: a number leads one group
  at a time, so a kill by number of a command that is not reaped hits its own group
  and no other. With `CommandFollows` (the step of a call tells the state of its
  command) this gives `KillsAreFinal`, `ShutdownKills`, `RegistryIsSound` and
  `StraysComeLate`.
* **ModelCatalogProofs.** The mutex is held by the one thread that fetches
  (`OneFetch`) and the key is the binary of the content (`KeyMatches`); hence
  `DiscoveryMatchesBinary`. `LeftAlone` is what a call that overlaps with no
  reconfiguration and no other binary can count on: every call under way has its binary,
  nobody is about to clear the catalogue, and after its discovery the catalogue is its
  own, whoever expires and fetches it again. Any reconfiguration makes every call under
  way an overlapped one, and a call that begins beside another binary's is one at once;
  hence `ResolutionMatches`.
* **ImageStagingProofs.** `MissingIsAhead`: the call that truncated a file last has
  written every block up to its offset since, so what the file lacks lies ahead of
  it; when no call writes, nothing is lacking (`FilesSettle`). `SettledStays` is an action
  property: only calls that found no file truncate one, so a file nobody is on the way to
  write keeps its bytes, whether a write was cut short or not.

* **SettingsProofs**, of `ModelSelection`. `MappingStands`: while agy lists slugs, a
  key of the mapping stands only for the slug that it is, or whose base and effort it
  shows, so an entry that overwrites another writes the same slug and the order of the
  walk does not matter. That a listing is parsed to such a mapping is an induction over
  its lines (`ParseKeeps`), and so is that a label is never mapped to a name of another
  effort (`ParseShows`, `LabelsShow`). `FlagsFollow` says that the flags come from the
  whole mapping. Hence `NamesResolve`, `BaseIsAsked` and `EffortsAgree`, for listings of
  any length and any request. `WishesCount` takes the places one by one: where one is
  heard, the first that is wins (`HeardCounts`); where none is, the label's effort reaches
  agy with the model unless another default is set (`LabelCounts`).
* **SettingsProofs**, of `ConfigFile`. `LineReads`: for values of any length, stripping the
  comment, trimming and unquoting give back what was written. It rests on an induction
  over the text for each quoting: the comment scanner keeps a quoted text and is back
  outside of quotes at its end (`KeptDoubled`, `KeptEscaped`), and unquoting undoes what
  the quoting wrote (`Undoubles`, `Unescapes`). `ReadSoFar` is then inductive: what a
  reading has is what the lines behind it meant, and none of them was refused; hence
  `FilesAreRead`, for any set of files. A setting accepts what it stores because trimming
  twice is trimming once (`TrimType`, `TrimLeads`). `DeadlineIsLast` is arithmetic that wraps, for any
  `LongTimeout` and `MaxDuration`.

The inductions need no rule with an operator as its parameter: the order of the
naturals is well-founded (a fact of the library), so the set of counterexamples has a
least member (`LeastMember`), and a set with 0 and every successor holds all naturals
(`Induction`); a text is reached through its length (`TextInduction`).

Every invariant, action property and refinement that a run checks is a theorem. Only
model-checked are the six liveness properties (TLAPS has no rules for fairness here).

## Not modelled

* Formatting and wording: chunk bodies, ids, token counts, labels, error messages and
  their classification (a search for words), descriptions of models, the registration.
* The text of prompts beyond which messages and instructions they hold, and the walk
  over content blocks; of images, the references that are passed through.
* The build and smoke-test scripts, which are no part of the running plugin.
* Sizes: of blocks at the boundary, of lines but for the scanner's limit, of files.
* What a host does with its table after the shutdown.
* The kills of the Windows build outside of `CompletionExecution`.

## Plan

The runs are kept to a dozen, so a new question joins a run that exists. What is left:

1. What the two contracts promise by themselves (`StreamContract`: one ending, nothing
   after it; `RunContract`: one answer), proved of the abstract specifications, so that
   the refinements carry it over to both executions.
2. That for a slug listing the flags are a function of the listing and the request alone,
   whichever order the map is walked in: `MappingStands` gives the values, what is missing
   is that the walk always ends with the same names.
3. The safety half of the liveness properties: who holds a mutex, or is waited for, has
   a step to take (its guard holds).
