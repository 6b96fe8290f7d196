------------------------ MODULE ConversationHistory ------------------------
(***************************************************************************)
(* A chat over many requests: the client's list of messages, the sessions  *)
(* that agy keeps under conversation ids, and between them the plugin,     *)
(* which decides with every request which messages agy is sent             *)
(* (buildPrompt, openai.go) and which session it is told to resume         *)
(* (resolveExecutionOptions, agy.go).                                      *)
(*                                                                         *)
(* The client sends its whole list each time, and names the conversation   *)
(* of the last answer or none.  The list is its own: it may edit any of    *)
(* it, answers too, and write answers that agy never gave; only to remove  *)
(* a message from the middle is left out.  agy remembers what it was sent  *)
(* in a session, and names the session only when it has the prompt.        *)
(***************************************************************************)
EXTENDS Naturals, Sequences

CONSTANTS
    Conversations,  \* the ids agy gives to its sessions
    NoConv,         \* no id (the empty string)
    Blank,          \* an id made of blanks
    Shapes,         \* which places of a request name the conversation
    MaxMessages     \* bound: the messages the client and agy ever write

ASSUME ConvAssumption  == NoConv \notin Conversations /\ Blank \notin Conversations
ASSUME BlankAssumption == Blank # NoConv
ASSUME BoundAssumption == MaxMessages \in Nat

\* The roles the code tells apart; "other" is a system message or the result of
\* a tool.
Message == [id : 1 .. MaxMessages, role : {"user", "other", "assistant"}]

Mark == {"none", "blank", "named"}

\* Body fields, headers and metadata, each in the order they are looked at.
Shape == [conversationID : Mark, sessionID : Mark, headers : Seq(Mark), metadata : Seq(Mark)]

ASSUME ShapesAssumption == Shapes \subseteq Shape

Prompt == [resumed : BOOLEAN, bare : BOOLEAN, messages : Seq(Message), tools : BOOLEAN]

NoPrompt == [resumed |-> FALSE, bare |-> FALSE, messages |-> << >>, tools |-> FALSE]

VARIABLES
    history,     \* the client's messages
    conv,        \* the conversation the client knows of
    nextId,
    pc,          \* "client", or "running" while agy has the prompt
    hasTools,    \* the request that runs offers tools
    conversationID,  \* the session agy is told to resume (--conversation)
    prompt,
    session,     \* what agy was sent, or answered, in each of its sessions
    repeated,    \* messages the client asks again after a failure or an edit
    rewritten    \* history: what the client put before, or as, an answer

chat == <<history, conv, nextId>>
run  == <<pc, hasTools, conversationID, prompt>>
past == <<repeated, rewritten>>
vars == <<chat, run, session, past>>

Init ==
    /\ history = << >> /\ conv = NoConv /\ nextId = 1
    /\ pc = "client" /\ hasTools = FALSE /\ conversationID = NoConv
    /\ prompt = NoPrompt
    /\ session = [c \in Conversations |-> {}]
    /\ repeated = {} /\ rewritten = {}

Ids(messages) == {messages[i].id : i \in DOMAIN messages}

LastRole(messages) == messages[Len(messages)].role

-----------------------------------------------------------------------------
(* The conversation of a request. *)

Trim(id) == IF id = Blank THEN NoConv ELSE id

First(ids) ==
    LET at == {i \in DOMAIN ids : ids[i] # NoConv /\ \A j \in 1 .. (i - 1) : ids[j] = NoConv}
    IN  IF at = {} THEN NoConv ELSE ids[CHOOSE i \in at : TRUE]

Id(mark) == CASE mark = "named" -> conv [] mark = "blank" -> Blank [] OTHER -> NoConv

Given(marks) == First([i \in DOMAIN marks |-> Id(marks[i])])

\* Mutant: session_id of the body is forgotten here, but not in buildPrompt.
ConversationWithoutSession(shape) ==
    First(<<Trim(Id(shape.conversationID)),
            Trim(Given(shape.headers)), Trim(Given(shape.metadata))>>)

\* resolveExecutionOptions.  The first header that is there counts, even if it
\* is blank, and so does the first metadata field.
ConversationOf(shape) ==
    First(<<Trim(Id(shape.conversationID)), Trim(Id(shape.sessionID)),
            Trim(Given(shape.headers)), Trim(Given(shape.metadata))>>)

\* buildPrompt asks the options first, then the body once more.
PromptConversation(shape) ==
    First(<<Trim(ConversationOf(shape)), Trim(Id(shape.conversationID)),
            Trim(Id(shape.sessionID))>>)

-----------------------------------------------------------------------------
(* The prompt. *)

LastAssistant(messages) ==
    LET at == {i \in DOMAIN messages :
                  /\ messages[i].role = "assistant"
                  /\ \A j \in (i + 1) .. Len(messages) : messages[j].role # "assistant"}
    IN  IF at = {} THEN 0 ELSE CHOOSE i \in at : TRUE

\* Mutant: only the last message counts as the new turn.
LastMessage(resumed) ==
    IF resumed THEN <<history[Len(history)]>> ELSE history

\* Mutant: a resumed conversation is sent from its last answer on.
FromLastAssistant(resumed) ==
    LET last == LastAssistant(history)
    IN  IF resumed /\ last > 0 THEN SubSeq(history, last, Len(history)) ELSE history

\* What follows the last answer, or all of it when nothing does.
NewMessages(resumed) ==
    LET last == LastAssistant(history)
    IN  IF resumed /\ last \in 1 .. (Len(history) - 1)
        THEN SubSeq(history, last + 1, Len(history))
        ELSE history

\* A lone user message of a resumed conversation is sent as it is.
IsBare(resumed, tools) ==
    /\ resumed /\ Len(NewMessages(resumed)) = 1
    /\ LastRole(history) = "user" /\ ~tools

BuildPrompt(resumed, tools) ==
    [resumed  |-> resumed,
     bare     |-> IsBare(resumed, tools),
     messages |-> NewMessages(resumed),
     tools    |-> tools /\ ~IsBare(resumed, tools)]

\* A request that reaches agy.  Without messages, or with a content to send that
\* messageContentText cannot read, it is rejected and nothing changes.
Ask(shape, tools) ==
    /\ pc = "client"
    /\ history # << >>
    /\ prompt' = BuildPrompt(PromptConversation(shape) # NoConv, tools)
    /\ conversationID' = ConversationOf(shape)
    /\ hasTools' = tools
    /\ pc' = "running"
    /\ UNCHANGED <<chat, session, past>>

-----------------------------------------------------------------------------
(* The client and agy. *)

\* The client writes on; an answer may be an example, or the beginning of one.
Say(role) ==
    /\ pc = "client"
    /\ nextId <= MaxMessages
    /\ history' = Append(history, [id |-> nextId, role |-> role])
    /\ nextId' = nextId + 1
    /\ rewritten' = rewritten \union (IF role = "assistant" THEN {nextId} ELSE {})
    /\ UNCHANGED <<conv, run, session, repeated>>

\* The client changes a message where it stands.
Edit(i) ==
    /\ pc = "client"
    /\ nextId <= MaxMessages
    /\ history' = [history EXCEPT ![i] = [id |-> nextId, role |-> history[i].role]]
    /\ nextId' = nextId + 1
    /\ rewritten' = rewritten \union
           {nextId : j \in {k \in i .. Len(history) : history[k].role = "assistant"}}
    /\ UNCHANGED <<conv, run, session, repeated>>

\* The client takes messages back from the end, to ask or to write them again.
Retract(n) ==
    /\ pc = "client"
    /\ history' = SubSeq(history, 1, n)
    /\ repeated' = repeated \union
           {history[i].id : i \in (LastAssistant(SubSeq(history, 1, n)) + 1) .. n}
    /\ UNCHANGED <<conv, nextId, run, session, rewritten>>

\* The session a run works in: the one it resumes, or one never used before.
Works(c) == IF conversationID # NoConv THEN c = conversationID ELSE session[c] = {}

\* What is local to a request is gone with it.
RequestEnds ==
    /\ pc' = "client" /\ hasTools' = FALSE /\ conversationID' = NoConv
    /\ prompt' = NoPrompt

Answer(c) ==
    /\ pc = "running"
    /\ Works(c)
    /\ nextId <= MaxMessages
    /\ session' = [session EXCEPT ![c] = @ \union Ids(prompt.messages) \union {nextId}]
    /\ history' = Append(history, [id |-> nextId, role |-> "assistant"])
    /\ nextId' = nextId + 1
    /\ conv' = c
    /\ RequestEnds
    /\ UNCHANGED past

\* The run fails before agy has the prompt.
FailEarly ==
    /\ pc = "running"
    /\ RequestEnds
    /\ UNCHANGED <<chat, session, past>>

\* It fails after that; the client may have seen the id in a chunk.
FailLate(c) ==
    /\ pc = "running"
    /\ Works(c)
    /\ session' = [session EXCEPT ![c] = @ \union Ids(prompt.messages)]
    /\ repeated' = repeated \union Ids(prompt.messages)
    /\ conv' \in {conv, c}
    /\ RequestEnds
    /\ UNCHANGED <<history, nextId, rewritten>>

Next ==
    \/ \E shape \in Shapes, tools \in BOOLEAN : Ask(shape, tools)
    \/ \E role \in {"user", "other", "assistant"} : Say(role)
    \/ \E i \in DOMAIN history : Edit(i) \/ Retract(i)
    \/ \E c \in Conversations : Answer(c) \/ FailLate(c)
    \/ FailEarly

Spec == Init /\ [][Next]_vars

-----------------------------------------------------------------------------
(* Properties. *)

\* Every variable has its type.
TypeOK ==
    /\ history \in Seq(Message)
    /\ conv \in Conversations \union {NoConv}
    /\ nextId \in 1 .. (MaxMessages + 1)
    /\ pc \in {"client", "running"}
    /\ hasTools \in BOOLEAN
    /\ conversationID \in Conversations \union {NoConv}
    /\ prompt \in Prompt
    /\ session \in [Conversations -> SUBSET (1 .. MaxMessages)]
    /\ repeated \subseteq 1 .. MaxMessages
    /\ rewritten \subseteq 1 .. MaxMessages

Remembered == IF conversationID = NoConv THEN {} ELSE session[conversationID]

\* Message i of the client's list is in neither the prompt nor the session.
Misses(i) == history[i].id \notin Ids(prompt.messages) \union Remembered

\* When agy starts to answer it knows all that the client's list says, from the
\* prompt or from the session it resumes, but for what the client changed after
\* the fact: a message it put before an answer, and whatever stands before an
\* answer of the client's own.  Those are left out as if agy had them
\* (openai.go:87), and are missed as long as the session is resumed.
AgyMissesOnlyRewrites ==
    pc = "running" =>
        \A i \in DOMAIN history : Misses(i) =>
            \/ history[i].id \in rewritten
            \/ \E j \in i .. Len(history) :
                  /\ history[j].role = "assistant"
                  /\ history[j].id \in rewritten /\ Misses(j)

\* The prompt fits the run it is for: it is written for a resumed conversation
\* exactly when agy is told to resume one, wherever the request named it, and it
\* asks agy for tool calls whenever the stream will look for them (HasTools).
PromptMatchesRun ==
    pc = "running" =>
        /\ prompt.resumed <=> conversationID # NoConv
        /\ hasTools => prompt.tools

\* A resumed session is sent nothing it already has (README, "only sends the new
\* turn"), but for what the client asks again after a failure or an edit, and but
\* for a list that ends with an answer, which is sent as a whole.
OnlyTheNewTurn ==
    pc = "running" /\ LastRole(history) # "assistant" =>
        Ids(prompt.messages) \intersect Remembered \subseteq repeated

-----------------------------------------------------------------------------
(* The inductive invariant. *)

\* agy knows message i of the client's list from the session the client names.
Known(i) == history[i].id \in session[conv]

\* Ids are given out once.
IdsFollow ==
    /\ \A i \in DOMAIN history : history[i].id < nextId
    /\ \A i, j \in DOMAIN history : history[i].id = history[j].id => i = j
    /\ \A c \in Conversations : \A id \in session[c] : id < nextId

\* The client wrote answer j itself, and agy does not know it.
Foreign(j) ==
    history[j].role = "assistant" /\ history[j].id \in rewritten /\ ~Known(j)

\* Of what has an answer behind it agy knows all but what the client put there
\* later, and but what stands before a foreign answer.
GapsAreTheClients ==
    \A i \in DOMAIN history : \A k \in i .. Len(history) :
        ~Known(i) /\ history[k].role = "assistant" =>
            history[i].id \in rewritten \/ \E j \in i .. k : Foreign(j)

\* What agy knows beyond the last answer was asked again.
KnownWasAsked ==
    \A i \in (LastAssistant(history) + 1) .. Len(history) :
        Known(i) => history[i].id \in repeated

SessionFollows == conv # NoConv => GapsAreTheClients /\ KnownWasAsked

RunFollows ==
    pc = "running" =>
        /\ history # << >>
        /\ conversationID \in {NoConv, conv}
        /\ prompt.messages = NewMessages(conversationID # NoConv)
        /\ PromptMatchesRun

Inv == TypeOK /\ IdsFollow /\ SessionFollows /\ RunFollows
=============================================================================
