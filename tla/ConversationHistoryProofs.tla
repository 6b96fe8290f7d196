---------------------- MODULE ConversationHistoryProofs ----------------------
(***************************************************************************)
(* What holds of ConversationHistory for chats of any length, any shapes   *)
(* of requests and any number of sessions.                                 *)
(*                                                                         *)
(* The one idea is SessionFollows: before every answer in the client's     *)
(* list, agy knows what stands there, unless the client put it there later *)
(* or wrote an answer of its own in between.                               *)
(***************************************************************************)
EXTENDS ConversationHistory, TLAPS

-----------------------------------------------------------------------------
(* The helpers of the model. *)

\* The last answer of a list is one, and lies in it.
LEMMA LastAssistantType ==
    ASSUME NEW m \in Seq(Message)
    PROVE  /\ LastAssistant(m) \in 0 .. Len(m)
           /\ LastAssistant(m) # 0 =>
                 /\ m[LastAssistant(m)].role = "assistant"
                 /\ \A j \in (LastAssistant(m) + 1) .. Len(m) : m[j].role # "assistant"
<1> DEFINE at == {i \in DOMAIN m :
                     /\ m[i].role = "assistant"
                     /\ \A j \in (i + 1) .. Len(m) : m[j].role # "assistant"}
<1>1. LastAssistant(m) = IF at = {} THEN 0 ELSE CHOOSE i \in at : TRUE
  BY DEF LastAssistant
<1>2. at \subseteq 1 .. Len(m)
  OBVIOUS
<1>3. CASE at = {}
  BY <1>1, <1>3
<1>4. CASE at # {}
  <2>1. LastAssistant(m) \in at
    BY <1>1, <1>4
  <2> QED
    BY <1>2, <2>1
<1> QED
  BY <1>3, <1>4

\* With an answer at its end, that is the last one.
LEMMA LastAssistantAnswered ==
    ASSUME NEW m \in Seq(Message), NEW a \in Message, a.role = "assistant"
    PROVE  LastAssistant(Append(m, a)) = Len(m) + 1
<1> DEFINE n == Append(m, a)
<1> DEFINE at == {i \in DOMAIN n :
                     /\ n[i].role = "assistant"
                     /\ \A j \in (i + 1) .. Len(n) : n[j].role # "assistant"}
<1>1. LastAssistant(n) = IF at = {} THEN 0 ELSE CHOOSE i \in at : TRUE
  BY DEF LastAssistant
<1>2. Len(n) = Len(m) + 1 /\ DOMAIN n = 1 .. (Len(m) + 1) /\ n[Len(m) + 1] = a
  OBVIOUS
<1>3. at = {Len(m) + 1}
  BY <1>2
<1> QED
  BY <1>1, <1>3

\* Any other message leaves the last answer where it is.
LEMMA LastAssistantSaid ==
    ASSUME NEW m \in Seq(Message), NEW a \in Message, a.role # "assistant"
    PROVE  LastAssistant(Append(m, a)) = LastAssistant(m)
<1> DEFINE n == Append(m, a)
<1> DEFINE at(s) == {i \in DOMAIN s :
                     /\ s[i].role = "assistant"
                     /\ \A j \in (i + 1) .. Len(s) : s[j].role # "assistant"}
<1>1. /\ LastAssistant(n) = IF at(n) = {} THEN 0 ELSE CHOOSE i \in at(n) : TRUE
      /\ LastAssistant(m) = IF at(m) = {} THEN 0 ELSE CHOOSE i \in at(m) : TRUE
  BY DEF LastAssistant
<1>2. /\ DOMAIN n = 1 .. (Len(m) + 1) /\ DOMAIN m = 1 .. Len(m) /\ Len(m) \in Nat
      /\ Len(n) = Len(m) + 1
      /\ \A i \in 1 .. Len(m) : n[i] = m[i]
      /\ n[Len(m) + 1] = a
  OBVIOUS
<1>3. at(n) \subseteq at(m)
  BY <1>2
<1>4. at(m) \subseteq at(n)
  BY <1>2
<1>5. at(n) = at(m)
  BY <1>3, <1>4
<1> HIDE DEF at
<1> QED
  BY <1>1, <1>5

\* An edit leaves the last answer where it is.
LEMMA LastAssistantEdited ==
    ASSUME NEW m \in Seq(Message), NEW n \in Seq(Message), Len(n) = Len(m),
           \A i \in 1 .. Len(m) : n[i].role = m[i].role
    PROVE  LastAssistant(n) = LastAssistant(m)
<1> DEFINE at(s) == {i \in DOMAIN s :
                     /\ s[i].role = "assistant"
                     /\ \A j \in (i + 1) .. Len(s) : s[j].role # "assistant"}
<1>1. /\ LastAssistant(n) = IF at(n) = {} THEN 0 ELSE CHOOSE i \in at(n) : TRUE
      /\ LastAssistant(m) = IF at(m) = {} THEN 0 ELSE CHOOSE i \in at(m) : TRUE
  BY DEF LastAssistant
<1>2. DOMAIN n = 1 .. Len(m) /\ DOMAIN m = 1 .. Len(m) /\ Len(m) \in Nat
  OBVIOUS
<1>3. at(n) \subseteq at(m) /\ at(m) \subseteq at(n)
  BY <1>2
<1>4. at(n) = at(m)
  BY <1>3
<1> HIDE DEF at
<1> QED
  BY <1>1, <1>4

\* What is sent: all messages, or those after the last answer.
Sent(resumed) ==
    IF resumed /\ LastAssistant(history) \in 1 .. (Len(history) - 1)
    THEN (LastAssistant(history) + 1) .. Len(history)
    ELSE 1 .. Len(history)

LEMMA NewMessagesAre ==
    ASSUME history \in Seq(Message), NEW resumed \in BOOLEAN
    PROVE  /\ NewMessages(resumed) \in Seq(Message)
           /\ Ids(NewMessages(resumed)) = {history[i].id : i \in Sent(resumed)}
           /\ Sent(resumed) \subseteq 1 .. Len(history)
<1> DEFINE last == LastAssistant(history)
<1>1. last \in 0 .. Len(history) /\ Len(history) \in Nat /\ DOMAIN history = 1 .. Len(history)
  BY LastAssistantType
<1> HIDE DEF last
<1>2. CASE resumed /\ last \in 1 .. (Len(history) - 1)
  <2> DEFINE new == SubSeq(history, last + 1, Len(history))
  <2>1. NewMessages(resumed) = new /\ Sent(resumed) = (last + 1) .. Len(history)
    BY <1>2 DEF NewMessages, Sent, last
  <2>2. /\ new \in Seq(Message) /\ DOMAIN new = 1 .. (Len(history) - last)
        /\ \A i \in 1 .. (Len(history) - last) : new[i] = history[last + i]
    BY <1>1, <1>2
  <2>3. \A i \in (last + 1) .. Len(history) :
           i - last \in DOMAIN new /\ new[i - last] = history[i]
    BY <1>1, <2>2
  <2>4. Ids(new) = {history[i].id : i \in (last + 1) .. Len(history)}
    <3>1. ASSUME NEW k \in DOMAIN new
          PROVE  new[k].id \in {history[i].id : i \in (last + 1) .. Len(history)}
      <4>1. last + k \in (last + 1) .. Len(history) /\ new[k] = history[last + k]
        BY <1>1, <2>2
      <4> QED
        BY <4>1
    <3>2. ASSUME NEW i \in (last + 1) .. Len(history)
          PROVE  history[i].id \in Ids(new)
      BY <2>3 DEF Ids
    <3> QED
      BY <3>1, <3>2 DEF Ids
  <2> QED
    BY <1>1, <2>1, <2>2, <2>4
<1>3. CASE ~(resumed /\ last \in 1 .. (Len(history) - 1))
  BY <1>1, <1>3 DEF NewMessages, Sent, Ids, last
<1> QED
  BY <1>2, <1>3

\* First of a list is none of its ids or one of them.
LEMMA FirstIsOne ==
    ASSUME NEW n \in Nat, NEW ids \in [1 .. n -> Conversations \union {NoConv, Blank}]
    PROVE  First(ids) = NoConv \/ \E i \in 1 .. n : First(ids) = ids[i]
  BY DEF First

\* It is none only if all are.
LEMMA FirstOfThree ==
    ASSUME NEW a, NEW b, NEW c
    PROVE  /\ First(<<a, b, c>>) \in {NoConv, a, b, c}
           /\ First(<<a, b, c>>) = NoConv <=> (a = NoConv /\ b = NoConv /\ c = NoConv)
<1> DEFINE ids == <<a, b, c>>
<1> DEFINE at == {i \in DOMAIN ids : ids[i] # NoConv /\ \A j \in 1 .. (i - 1) : ids[j] = NoConv}
<1>1. First(ids) = IF at = {} THEN NoConv ELSE ids[CHOOSE i \in at : TRUE]
  BY DEF First
<1>2. DOMAIN ids = 1 .. 3 /\ ids[1] = a /\ ids[2] = b /\ ids[3] = c
  OBVIOUS
<1>3. a # NoConv => 1 \in at
  BY <1>2
<1>4. a = NoConv /\ b # NoConv => 2 \in at
  BY <1>2
<1>5. a = NoConv /\ b = NoConv /\ c # NoConv => 3 \in at
  BY <1>2
<1>6. \A i \in at : ids[i] \in {a, b, c} /\ ids[i] # NoConv
  BY <1>2
<1>7. at # {} => (CHOOSE i \in at : TRUE) \in at
  OBVIOUS
<1> HIDE DEF at
<1>8. CASE at = {}
  BY <1>1, <1>3, <1>4, <1>5, <1>8
<1>9. CASE at # {}
  BY <1>1, <1>6, <1>7, <1>9
<1> QED
  BY <1>8, <1>9

LEMMA FirstOfFour ==
    ASSUME NEW a, NEW b, NEW c, NEW d
    PROVE  /\ First(<<a, b, c, d>>) \in {NoConv, a, b, c, d}
           /\ First(<<a, b, c, d>>) = NoConv <=>
                 (a = NoConv /\ b = NoConv /\ c = NoConv /\ d = NoConv)
<1> DEFINE ids == <<a, b, c, d>>
<1> DEFINE at == {i \in DOMAIN ids : ids[i] # NoConv /\ \A j \in 1 .. (i - 1) : ids[j] = NoConv}
<1>1. First(ids) = IF at = {} THEN NoConv ELSE ids[CHOOSE i \in at : TRUE]
  BY DEF First
<1>2. DOMAIN ids = 1 .. 4 /\ ids[1] = a /\ ids[2] = b /\ ids[3] = c /\ ids[4] = d
  OBVIOUS
<1>3. a # NoConv => 1 \in at
  BY <1>2
<1>4. a = NoConv /\ b # NoConv => 2 \in at
  BY <1>2
<1>5. a = NoConv /\ b = NoConv /\ c # NoConv => 3 \in at
  BY <1>2
<1>6. a = NoConv /\ b = NoConv /\ c = NoConv /\ d # NoConv => 4 \in at
  BY <1>2
<1>7. \A i \in at : ids[i] \in {a, b, c, d} /\ ids[i] # NoConv
  BY <1>2
<1>8. at # {} => (CHOOSE i \in at : TRUE) \in at
  OBVIOUS
<1> HIDE DEF at
<1>9. CASE at = {}
  BY <1>1, <1>3, <1>4, <1>5, <1>6, <1>9
<1>10. CASE at # {}
  BY <1>1, <1>7, <1>8, <1>10
<1> QED
  BY <1>9, <1>10

\* A place that names the conversation gives that of the client, blanks, or none.
LEMMA GivenType ==
    ASSUME TypeOK, NEW marks \in Seq(Mark)
    PROVE  Given(marks) \in {NoConv, conv, Blank}
<1> DEFINE ids == [i \in DOMAIN marks |-> Id(marks[i])]
<1>1. \A mark : Id(mark) \in {NoConv, conv, Blank}
  BY DEF Id
<1>2. DOMAIN marks = 1 .. Len(marks) /\ Len(marks) \in Nat
  OBVIOUS
<1>3. ids \in [1 .. Len(marks) -> Conversations \union {NoConv, Blank}]
  BY <1>1, <1>2 DEF TypeOK
<1>4. First(ids) = NoConv \/ \E i \in 1 .. Len(marks) : First(ids) = ids[i]
  BY <1>2, <1>3, FirstIsOne
<1> QED
  BY <1>1, <1>2, <1>4 DEF Given

\* The two computations of the conversation agree on whether there is one.
LEMMA BothAgree ==
    ASSUME TypeOK, NEW shape \in Shapes
    PROVE  /\ ConversationOf(shape) \in {NoConv, conv}
           /\ PromptConversation(shape) # NoConv <=> ConversationOf(shape) # NoConv
<1> USE ConvAssumption, BlankAssumption
<1>1. shape \in Shape
  BY ShapesAssumption
<1>2. Given(shape.headers) \in {NoConv, conv, Blank} /\ Given(shape.metadata) \in {NoConv, conv, Blank}
  BY <1>1, GivenType DEF Shape
<1>3. \A id \in {NoConv, conv, Blank} : Trim(id) \in {NoConv, conv} /\ Trim(id) # Blank
  BY DEF Trim, TypeOK
<1>4. \A mark : Id(mark) \in {NoConv, conv, Blank}
  BY DEF Id
<1> DEFINE a == Trim(Id(shape.conversationID))
           b == Trim(Id(shape.sessionID))
           c == Trim(Given(shape.headers))
           d == Trim(Given(shape.metadata))
<1>5. a \in {NoConv, conv} /\ b \in {NoConv, conv} /\ c \in {NoConv, conv} /\ d \in {NoConv, conv}
  BY <1>2, <1>3, <1>4
<1>6. ConversationOf(shape) = First(<<a, b, c, d>>)
  BY DEF ConversationOf
<1>7. PromptConversation(shape) = First(<<Trim(ConversationOf(shape)), a, b>>)
  BY DEF PromptConversation
<1> HIDE DEF a, b, c, d
<1>8. ConversationOf(shape) \in {NoConv, conv}
  BY <1>5, <1>6, FirstOfFour
<1>9. Trim(ConversationOf(shape)) = ConversationOf(shape)
  BY <1>8 DEF Trim, TypeOK
<1>10. ConversationOf(shape) = NoConv => a = NoConv /\ b = NoConv
  <2>1. First(<<a, b, c, d>>) = NoConv <=>
            (a = NoConv /\ b = NoConv /\ c = NoConv /\ d = NoConv)
    BY FirstOfFour
  <2> QED
    BY <1>6, <2>1
<1> QED
  BY <1>7, <1>8, <1>9, <1>10, FirstOfThree

-----------------------------------------------------------------------------
(* The types. *)

LEMMA NoPromptType == NoPrompt \in Prompt
<1>1. << >> \in Seq(Message)
  OBVIOUS
<1> QED
  BY <1>1 DEF NoPrompt, Prompt

\* The ids of a list of messages are numbers of messages.
LEMMA IdsType == ASSUME NEW m \in Seq(Message) PROVE Ids(m) \subseteq 1 .. MaxMessages
<1> SUFFICES ASSUME NEW i \in DOMAIN m PROVE m[i].id \in 1 .. MaxMessages
  BY DEF Ids
<1>1. m[i] \in Message
  OBVIOUS
<1> QED
  BY <1>1 DEF Message

\* What an edit does to the list.
LEMMA EditedList ==
    ASSUME TypeOK, NEW m \in DOMAIN history, Edit(m)
    PROVE  /\ history' \in Seq(Message) /\ Len(history') = Len(history)
           /\ DOMAIN history' = 1 .. Len(history) /\ m \in 1 .. Len(history)
           /\ history'[m].id = nextId
           /\ \A i \in 1 .. Len(history) : i # m => history'[i] = history[i]
           /\ \A i \in 1 .. Len(history) : history'[i].role = history[i].role
<1> DEFINE new == [id |-> nextId, role |-> history[m].role]
<1>1. history \in Seq(Message) /\ DOMAIN history = 1 .. Len(history) /\ history[m] \in Message
  BY DEF TypeOK
<1>2. new \in Message /\ new.id = nextId /\ new.role = history[m].role
  BY <1>1, BoundAssumption DEF Edit, TypeOK, Message
<1>3. history' = [history EXCEPT ![m] = new]
  BY DEF Edit
<1> HIDE DEF new
<1> QED
  BY <1>1, <1>2, <1>3

\* Every step keeps the types.
LEMMA StepKeepsTypes == TypeOK /\ [Next]_vars => TypeOK'
<1> SUFFICES ASSUME TypeOK, [Next]_vars PROVE TypeOK'
  OBVIOUS
<1> USE DEF chat, run, past
<1>1. ASSUME NEW shape \in Shapes, NEW tools \in BOOLEAN, Ask(shape, tools) PROVE TypeOK'
  <2>1. \A r \in BOOLEAN : NewMessages(r) \in Seq(Message)
    BY NewMessagesAre DEF TypeOK
  <2>2. \A r \in BOOLEAN : BuildPrompt(r, tools) \in Prompt
    BY <2>1 DEF BuildPrompt, IsBare, Prompt
  <2>3. prompt' \in Prompt
    BY <1>1, <2>2 DEF Ask
  <2>4. conversationID' \in Conversations \union {NoConv}
    BY <1>1, BothAgree DEF Ask, TypeOK
  <2> QED
    BY <1>1, <2>3, <2>4 DEF TypeOK, Ask
<1>2. ASSUME NEW role \in {"user", "other", "assistant"}, Say(role) PROVE TypeOK'
  <2>1. [id |-> nextId, role |-> role] \in Message
    BY <1>2, BoundAssumption DEF TypeOK, Say, Message
  <2>2. history' \in Seq(Message) /\ nextId' \in 1 .. (MaxMessages + 1)
    BY <1>2, <2>1, BoundAssumption DEF TypeOK, Say
  <2>3. nextId \in 1 .. MaxMessages
    BY <1>2, BoundAssumption DEF TypeOK, Say
  <2>4. rewritten' \subseteq 1 .. MaxMessages
    BY <1>2, <2>3 DEF TypeOK, Say
  <2> QED
    BY <1>2, <2>2, <2>4 DEF TypeOK, Say
<1>8. ASSUME NEW i \in DOMAIN history, Edit(i) PROVE TypeOK'
  <2>1. nextId \in 1 .. MaxMessages
    BY <1>8, BoundAssumption DEF TypeOK, Edit
  <2>2. history' \in Seq(Message)
    BY <1>8, EditedList DEF Edit, TypeOK
  <2>3. rewritten' \subseteq 1 .. MaxMessages
    BY <1>8, <2>1 DEF TypeOK, Edit
  <2>4. nextId' \in 1 .. (MaxMessages + 1)
    BY <1>8, <2>1, BoundAssumption DEF Edit
  <2> QED
    BY <1>8, <2>2, <2>3, <2>4 DEF TypeOK, Edit
<1>3. ASSUME NEW n \in DOMAIN history, Retract(n) PROVE TypeOK'
  <2>1. history' \in Seq(Message)
    BY <1>3 DEF TypeOK, Retract
  <2>2. \A i \in 1 .. n : history[i].id \in 1 .. MaxMessages
    <3> SUFFICES ASSUME NEW i \in 1 .. n PROVE history[i].id \in 1 .. MaxMessages
      OBVIOUS
    <3>1. history[i] \in Message
      BY DEF TypeOK
    <3> QED
      BY <3>1 DEF Message
  <2>3. LastAssistant(history') \in Nat
    BY <2>1, LastAssistantType
  <2>4. repeated' \subseteq 1 .. MaxMessages
    <3>1. repeated' = repeated \union
              {history[i].id : i \in (LastAssistant(history') + 1) .. n}
      BY <1>3 DEF Retract
    <3>2. (LastAssistant(history') + 1) .. n \subseteq 1 .. n
      BY <2>3
    <3> QED
      BY <2>2, <3>1, <3>2 DEF TypeOK
  <2> QED
    BY <1>3, <2>1, <2>4 DEF TypeOK, Retract
<1>4. ASSUME NEW c \in Conversations, Answer(c) PROVE TypeOK'
  <2>1. [id |-> nextId, role |-> "assistant"] \in Message
    BY <1>4, BoundAssumption DEF TypeOK, Answer, Message
  <2>2. history' \in Seq(Message) /\ nextId' \in 1 .. (MaxMessages + 1)
    BY <1>4, <2>1, BoundAssumption DEF TypeOK, Answer
  <2>3. Ids(prompt.messages) \union {nextId} \subseteq 1 .. MaxMessages
    BY <1>4, IdsType, BoundAssumption DEF TypeOK, Prompt, Answer
  <2>4. session' \in [Conversations -> SUBSET (1 .. MaxMessages)]
    BY <1>4, <2>3 DEF TypeOK, Answer
  <2> QED
    BY <1>4, <2>2, <2>4, NoPromptType DEF TypeOK, Answer, RequestEnds
<1>5. ASSUME NEW c \in Conversations, FailLate(c) PROVE TypeOK'
  <2>1. Ids(prompt.messages) \subseteq 1 .. MaxMessages
    BY IdsType DEF TypeOK, Prompt
  <2> QED
    BY <1>5, <2>1, NoPromptType DEF TypeOK, FailLate, RequestEnds
<1>6. CASE FailEarly
  BY <1>6, NoPromptType DEF TypeOK, FailEarly, RequestEnds
<1>7. CASE UNCHANGED vars
  BY <1>7 DEF TypeOK, vars
<1> QED
  BY <1>1, <1>2, <1>3, <1>4, <1>5, <1>6, <1>7, <1>8 DEF Next

-----------------------------------------------------------------------------
(* What agy knows. *)

\* What a prompt leaves out stands before the last answer, in a session that is
\* resumed.
LEMMA LeftOut ==
    ASSUME Inv, pc = "running", NEW i \in DOMAIN history, Misses(i)
    PROVE  /\ conversationID = conv /\ conv # NoConv
           /\ LastAssistant(history) \in i .. (Len(history) - 1)
           /\ Ids(prompt.messages) =
                 {history[k].id : k \in (LastAssistant(history) + 1) .. Len(history)}
<1> DEFINE r == conversationID # NoConv
<1> DEFINE last == LastAssistant(history)
<1>1. /\ history \in Seq(Message) /\ DOMAIN history = 1 .. Len(history) /\ Len(history) \in Nat
      /\ i \in 1 .. Len(history)
  BY DEF Inv, TypeOK
<1>2. Ids(prompt.messages) = {history[k].id : k \in Sent(r)}
  BY <1>1, NewMessagesAre DEF Inv, RunFollows
<1>3. i \notin Sent(r)
  BY <1>2 DEF Misses
<1>4. r /\ last \in 1 .. (Len(history) - 1) /\ Sent(r) = (last + 1) .. Len(history)
  BY <1>1, <1>3 DEF Sent
<1>5. last \in i .. (Len(history) - 1)
  BY <1>1, <1>3, <1>4
<1>6. conversationID = conv /\ conv # NoConv
  BY <1>4 DEF Inv, RunFollows
<1> QED
  BY <1>2, <1>4, <1>5, <1>6

\* Up to any answer, what agy misses is the client's doing.
LEMMA GapsOfTheRun ==
    ASSUME Inv, pc = "running", NEW i \in DOMAIN history, Misses(i),
           NEW k \in i .. Len(history), history[k].role = "assistant"
    PROVE  \/ history[i].id \in rewritten
           \/ \E j \in i .. k :
                 /\ history[j].role = "assistant"
                 /\ history[j].id \in rewritten /\ Misses(j)
<1> DEFINE last == LastAssistant(history)
<1>1. history \in Seq(Message) /\ DOMAIN history = 1 .. Len(history) /\ Len(history) \in Nat
  BY DEF Inv, TypeOK
<1>2. /\ conversationID = conv /\ conv # NoConv
      /\ last \in i .. (Len(history) - 1)
      /\ Ids(prompt.messages) = {history[n].id : n \in (last + 1) .. Len(history)}
  BY LeftOut
<1>3. k <= last
  BY <1>1, <1>2, LastAssistantType
<1>4. ~Known(i)
  BY <1>2 DEF Misses, Known, Remembered
<1>5. SUFFICES ASSUME NEW j \in i .. k, Foreign(j) PROVE Misses(j)
  BY <1>2, <1>4 DEF Inv, SessionFollows, GapsAreTheClients, Foreign
<1> HIDE DEF last
<1>6. history[j].id \notin Remembered
  BY <1>2, <1>5 DEF Foreign, Known, Remembered
<1>7. ASSUME NEW n \in (last + 1) .. Len(history) PROVE history[j].id # history[n].id
  <2>1. j \in DOMAIN history /\ n \in DOMAIN history /\ j # n
    BY <1>1, <1>2, <1>3
  <2> QED
    BY <2>1 DEF Inv, IdsFollow
<1> QED
  BY <1>2, <1>6, <1>7 DEF Misses

\* Whatever agy misses, the client put there later or wrote an answer behind it.
LEMMA MissesOnlyRewrites == Inv => AgyMissesOnlyRewrites
<1> SUFFICES ASSUME Inv, pc = "running", NEW i \in DOMAIN history, Misses(i)
             PROVE  \/ history[i].id \in rewritten
                    \/ \E j \in i .. Len(history) :
                          /\ history[j].role = "assistant"
                          /\ history[j].id \in rewritten /\ Misses(j)
  BY DEF AgyMissesOnlyRewrites
<1> DEFINE last == LastAssistant(history)
<1>1. history \in Seq(Message) /\ DOMAIN history = 1 .. Len(history) /\ Len(history) \in Nat
  BY DEF Inv, TypeOK
<1>2. last \in i .. (Len(history) - 1) /\ i \in 1 .. Len(history)
  BY <1>1, LeftOut
<1>3. history[last].role = "assistant" /\ last \in i .. Len(history)
  BY <1>1, <1>2, LastAssistantType
<1> HIDE DEF last
<1>4. i .. last \subseteq i .. Len(history)
  BY <1>1, <1>2
<1> QED
  BY <1>3, <1>4, GapsOfTheRun

\* What follows the last answer is always sent.
LEMMA NewIsSent ==
    ASSUME Inv, pc = "running", NEW i \in (LastAssistant(history) + 1) .. Len(history)
    PROVE  history[i].id \in Ids(prompt.messages)
<1> DEFINE r == conversationID # NoConv
<1>1. history \in Seq(Message) /\ LastAssistant(history) \in 0 .. Len(history)
  BY LastAssistantType DEF Inv, TypeOK
<1>2. Ids(prompt.messages) = {history[k].id : k \in Sent(r)}
  BY <1>1, NewMessagesAre DEF Inv, RunFollows
<1>3. i \in Sent(r)
  BY <1>1 DEF Sent
<1> QED
  BY <1>2, <1>3

\* What a prompt repeats was asked again.
LEMMA SendsOnlyTheNew == Inv => OnlyTheNewTurn
<1> SUFFICES ASSUME Inv, pc = "running", LastRole(history) # "assistant",
                    NEW id \in Ids(prompt.messages), id \in Remembered
             PROVE  id \in repeated
  BY DEF OnlyTheNewTurn
<1> DEFINE last == LastAssistant(history)
<1>1. conversationID # NoConv /\ conversationID = conv
  BY DEF Inv, RunFollows, Remembered
<1>2. history \in Seq(Message) /\ Len(history) \in Nat /\ history # << >>
  BY DEF Inv, TypeOK, RunFollows
<1>3. last \in 0 .. Len(history) /\ last # Len(history)
  <2>1. last \in 0 .. Len(history) /\ (last # 0 => history[last].role = "assistant")
    BY <1>2, LastAssistantType
  <2>2. Len(history) # 0
    BY <1>2
  <2> QED
    BY <2>1, <2>2 DEF LastRole
<1>4. Ids(prompt.messages) = {history[k].id : k \in Sent(TRUE)}
  BY <1>1, <1>2, NewMessagesAre DEF Inv, RunFollows
<1>5. Sent(TRUE) = (last + 1) .. Len(history)
  BY <1>2, <1>3 DEF Sent
<1> HIDE DEF last
<1>6. PICK k \in (last + 1) .. Len(history) : id = history[k].id
  BY <1>4, <1>5
<1>7. Known(k)
  BY <1>1, <1>6 DEF Known, Remembered
<1> QED
  BY <1>1, <1>6, <1>7 DEF Inv, SessionFollows, KnownWasAsked, last

-----------------------------------------------------------------------------
(* The invariant. *)

LEMMA InitInv == Init => Inv
<1> SUFFICES ASSUME Init PROVE Inv
  OBVIOUS
<1>1. TypeOK
  <2>1. nextId \in 1 .. (MaxMessages + 1) /\ history \in Seq(Message)
    BY BoundAssumption DEF Init
  <2>2. session \in [Conversations -> SUBSET (1 .. MaxMessages)]
    BY DEF Init
  <2> QED
    BY <2>1, <2>2, NoPromptType, Zenon DEF Init, TypeOK
<1>2. IdsFollow /\ SessionFollows /\ RunFollows
  BY DEF Init, IdsFollow, SessionFollows, RunFollows
<1> QED
  BY <1>1, <1>2 DEF Inv

\* What a prompt holds has an id given out before.
LEMMA PromptIds ==
    ASSUME Inv, pc = "running" PROVE \A id \in Ids(prompt.messages) : id < nextId
<1> DEFINE r == conversationID # NoConv
<1>1. history \in Seq(Message) /\ DOMAIN history = 1 .. Len(history)
  BY DEF Inv, TypeOK
<1>2. Ids(prompt.messages) = {history[k].id : k \in Sent(r)}
  BY <1>1, NewMessagesAre DEF Inv, RunFollows
<1>3. Sent(r) \subseteq DOMAIN history
  BY <1>1, NewMessagesAre
<1> QED
  BY <1>2, <1>3 DEF Inv, IdsFollow

\* Ids keep growing.
LEMMA StepKeepsIds == Inv /\ [Next]_vars => IdsFollow'
<1> SUFFICES ASSUME Inv, [Next]_vars PROVE IdsFollow'
  OBVIOUS
<1> USE DEF chat, run, past
<1>t. /\ TypeOK /\ TypeOK' /\ IdsFollow /\ nextId \in Nat /\ history \in Seq(Message)
      /\ \A i \in DOMAIN history : history[i].id \in Nat
      /\ \A c \in Conversations : \A id \in session[c] : id \in Nat
  <2>1. TypeOK /\ TypeOK' /\ IdsFollow
    BY StepKeepsTypes DEF Inv
  <2>2. nextId \in Nat /\ history \in Seq(Message)
    BY <2>1 DEF TypeOK
  <2>3. \A i \in DOMAIN history : history[i].id \in Nat
    <3> SUFFICES ASSUME NEW i \in DOMAIN history PROVE history[i].id \in Nat
      OBVIOUS
    <3>1. history[i] \in Message
      BY <2>2
    <3> QED
      BY <3>1 DEF Message
  <2>4. \A c \in Conversations : \A id \in session[c] : id \in Nat
    <3> SUFFICES ASSUME NEW c \in Conversations PROVE session[c] \subseteq Nat
      OBVIOUS
    <3>1. session[c] \subseteq 1 .. MaxMessages
      BY <2>1 DEF TypeOK
    <3> QED
      BY <3>1
  <2> QED
    BY <2>1, <2>2, <2>3, <2>4
<1>1. ASSUME UNCHANGED <<history, nextId, session>> PROVE IdsFollow'
  BY <1>t, <1>1 DEF IdsFollow
<1>2. ASSUME NEW role \in {"user", "other", "assistant"}, Say(role) PROVE IdsFollow'
  BY <1>t, <1>2 DEF IdsFollow, Say
<1>6. ASSUME NEW m \in DOMAIN history, Edit(m) PROVE IdsFollow'
  <2>1. /\ DOMAIN history' = DOMAIN history /\ history'[m].id = nextId
        /\ \A i \in DOMAIN history : i # m => history'[i] = history[i]
    BY <1>t, <1>6, EditedList
  <2> QED
    BY <1>t, <1>6, <2>1 DEF IdsFollow, Edit
<1>3. ASSUME NEW n \in DOMAIN history, Retract(n) PROVE IdsFollow'
  BY <1>t, <1>3 DEF IdsFollow, Retract
<1>4. ASSUME NEW c \in Conversations, Answer(c) PROVE IdsFollow'
  <2>1. \A id \in Ids(prompt.messages) : id < nextId /\ id \in Nat
    BY <1>4, <1>t, PromptIds, IdsType DEF Answer, TypeOK, Prompt
  <2>2. \A d \in Conversations : \A id \in session'[d] :
            id \in session[d] \/ id \in Ids(prompt.messages) \/ id = nextId
    BY <1>4, <1>t DEF Answer, TypeOK
  <2>3. \A d \in Conversations : \A id \in session'[d] : id < nextId'
    BY <1>4, <1>t, <2>1, <2>2 DEF IdsFollow, Answer
  <2>4. \A i \in DOMAIN history' : history'[i].id < nextId'
    BY <1>4, <1>t DEF IdsFollow, Answer
  <2>5. \A i, j \in DOMAIN history' : history'[i].id = history'[j].id => i = j
    BY <1>4, <1>t DEF IdsFollow, Answer
  <2> QED
    BY <2>3, <2>4, <2>5 DEF IdsFollow
<1>5. ASSUME NEW c \in Conversations, FailLate(c) PROVE IdsFollow'
  <2>1. \A id \in Ids(prompt.messages) : id < nextId
    BY <1>5, PromptIds DEF FailLate
  <2> QED
    BY <1>5, <1>t, <2>1 DEF IdsFollow, FailLate, TypeOK
<1> QED
  BY <1>1, <1>2, <1>3, <1>4, <1>5, <1>6 DEF Next, Ask, FailEarly, vars

\* A request that runs keeps to what was decided for it.
LEMMA StepKeepsRun == Inv /\ [Next]_vars => RunFollows'
<1> SUFFICES ASSUME Inv, [Next]_vars PROVE RunFollows'
  OBVIOUS
<1> USE DEF chat, run, past
<1>1. ASSUME NEW shape \in Shapes, NEW tools \in BOOLEAN, Ask(shape, tools) PROVE RunFollows'
  <2>1. /\ conversationID' \in {NoConv, conv}
        /\ (PromptConversation(shape) # NoConv) <=> (conversationID' # NoConv)
    BY <1>1, BothAgree DEF Ask, Inv
  <2> DEFINE r == PromptConversation(shape) # NoConv
  <2>2. prompt' = BuildPrompt(r, tools) /\ hasTools' = tools /\ history' = history /\ conv' = conv
    BY <1>1 DEF Ask
  <2>3. prompt'.messages = NewMessages(r) /\ prompt'.resumed = r
    BY <2>2 DEF BuildPrompt
  <2>4. prompt'.tools = (tools /\ ~IsBare(r, tools))
    BY <2>2 DEF BuildPrompt
  <2>5. tools => ~IsBare(r, tools)
    BY DEF IsBare
  <2>7. r = (conversationID' # NoConv)
    BY <2>1
  <2>8. prompt'.messages = NewMessages(conversationID # NoConv)'
    BY <2>2, <2>3, <2>7 DEF NewMessages
  <2>9. (prompt'.resumed <=> conversationID' # NoConv) /\ (hasTools' => prompt'.tools)
    BY <2>2, <2>3, <2>4, <2>5, <2>7
  <2> QED
    BY <1>1, <2>1, <2>2, <2>8, <2>9 DEF RunFollows, PromptMatchesRun, Ask
<1>2. CASE pc' # "running"
  BY <1>2 DEF RunFollows
<1>3. CASE UNCHANGED vars
  BY <1>3 DEF Inv, RunFollows, PromptMatchesRun, NewMessages, vars
<1> QED
  BY <1>1, <1>2, <1>3 DEF Next, Say, Edit, Retract, Answer, FailLate, FailEarly, RequestEnds

\* A message more at the end of the list.
LEMMA Appended ==
    ASSUME TypeOK, NEW a \in Message, history' = Append(history, a)
    PROVE  /\ Len(history') = Len(history) + 1
           /\ DOMAIN history' = 1 .. (Len(history) + 1)
           /\ \A i \in 1 .. Len(history) : history'[i] = history[i]
           /\ history'[Len(history) + 1] = a
  BY DEF TypeOK

\* What the client writes agy does not know yet.
LEMMA SayKeepsSession ==
    ASSUME Inv, NEW role \in {"user", "other", "assistant"}, Say(role), conv # NoConv
    PROVE  GapsAreTheClients' /\ KnownWasAsked'
<1> DEFINE said == [id |-> nextId, role |-> role]
<1>0. PICK len \in Nat : len = Len(history)
  BY DEF Inv, TypeOK
<1>1. /\ TypeOK /\ history \in Seq(Message) /\ len \in Nat /\ DOMAIN history = 1 .. len
      /\ conv \in Conversations
  BY <1>0 DEF Inv, TypeOK
<1>2. said \in Message /\ said.id = nextId /\ said.role = role
  BY <1>0, <1>1, BoundAssumption DEF Message, Say, TypeOK
<1>3. /\ history' = Append(history, said) /\ conv' = conv /\ session' = session
      /\ repeated' = repeated /\ rewritten \subseteq rewritten'
      /\ role = "assistant" => nextId \in rewritten'
  BY DEF Say
<1> HIDE DEF said
<1>4. /\ Len(history') = len + 1 /\ DOMAIN history' = 1 .. (len + 1)
      /\ \A i \in 1 .. len : history'[i] = history[i]
      /\ history'[len + 1] = said
  BY <1>0, <1>1, <1>2, <1>3, Appended
<1>5. ~Known(len + 1)'
  <2>1. \A id \in session[conv] : id < nextId /\ id \in Nat
    BY <1>0, <1>1 DEF Inv, IdsFollow, TypeOK
  <2> QED
    BY <1>2, <1>3, <1>4, <2>1 DEF Known
<1>6. \A i \in 1 .. len : Known(i)' <=> Known(i)
  BY <1>3, <1>4 DEF Known
<1>f. \A i \in 1 .. len : Foreign(i) => Foreign(i)'
  BY <1>3, <1>4, <1>6 DEF Foreign
<1>7. GapsAreTheClients /\ KnownWasAsked
  BY DEF Inv, SessionFollows
<1>8. GapsAreTheClients'
  <2> SUFFICES ASSUME NEW i \in 1 .. (len + 1), NEW k \in i .. (len + 1),
                      ~Known(i)', history'[k].role = "assistant"
               PROVE  history'[i].id \in rewritten' \/ \E j \in i .. k : Foreign(j)'
    BY <1>4 DEF GapsAreTheClients
  <2>1. CASE k = len + 1
    BY <1>2, <1>3, <1>4, <1>5, <2>1 DEF Foreign
  <2>2. CASE k # len + 1
    <3>1. i \in 1 .. len /\ k \in i .. len
      BY <1>0, <1>1, <2>2
    <3>2. ~Known(i) /\ history[k].role = "assistant" /\ history'[i] = history[i]
      BY <1>4, <1>6, <3>1
    <3>3. history[i].id \in rewritten \/ \E j \in i .. k : Foreign(j)
      BY <1>0, <1>1, <1>7, <3>1, <3>2 DEF GapsAreTheClients
    <3>4. \A j \in i .. k : j \in 1 .. len
      BY <1>0, <1>1, <3>1
    <3> QED
      BY <1>3, <1>f, <3>2, <3>3, <3>4
  <2> QED
    BY <2>1, <2>2
<1>9. KnownWasAsked'
  <2>1. CASE role = "assistant"
    <3>1. LastAssistant(history') = len + 1
      BY <1>0, <1>1, <1>2, <1>3, <2>1, LastAssistantAnswered
    <3> QED
      BY <1>0, <1>1, <1>4, <3>1 DEF KnownWasAsked
  <2>2. CASE role # "assistant"
    <3>1. LastAssistant(history') = LastAssistant(history)
      BY <1>0, <1>1, <1>2, <1>3, <2>2, LastAssistantSaid
    <3>2. LastAssistant(history) \in 0 .. len
      BY <1>0, <1>1, LastAssistantType
    <3> SUFFICES ASSUME NEW i \in (LastAssistant(history) + 1) .. (len + 1), Known(i)'
                 PROVE  history'[i].id \in repeated'
      BY <1>4, <3>1 DEF KnownWasAsked
    <3>3. i \in (LastAssistant(history) + 1) .. len /\ i \in 1 .. len
      BY <1>0, <1>1, <1>5, <3>2
    <3> QED
      BY <1>0, <1>3, <1>4, <1>6, <1>7, <3>3 DEF KnownWasAsked
  <2> QED
    BY <2>1, <2>2
<1> QED
  BY <1>8, <1>9

\* An edited message is not known any more.
LEMMA EditKeepsSession ==
    ASSUME Inv, NEW m \in DOMAIN history, Edit(m), conv # NoConv
    PROVE  GapsAreTheClients' /\ KnownWasAsked'
<1>0. PICK len \in Nat : len = Len(history)
  BY DEF Inv, TypeOK
<1>1. /\ TypeOK /\ history \in Seq(Message) /\ len \in Nat /\ DOMAIN history = 1 .. len
      /\ conv \in Conversations
  BY <1>0 DEF Inv, TypeOK
<1>2. /\ history' \in Seq(Message) /\ Len(history') = len
      /\ DOMAIN history' = 1 .. len /\ m \in 1 .. len
      /\ history'[m].id = nextId
      /\ \A i \in 1 .. len : i # m => history'[i] = history[i]
      /\ \A i \in 1 .. len : history'[i].role = history[i].role
  BY <1>0, <1>1, EditedList
<1>3. /\ conv' = conv /\ session' = session /\ repeated' = repeated
      /\ rewritten \subseteq rewritten'
      /\ (\E k \in m .. len : history[k].role = "assistant") => nextId \in rewritten'
  BY <1>0 DEF Edit
<1>4. LastAssistant(history') = LastAssistant(history) /\ LastAssistant(history) \in 0 .. len
  BY <1>0, <1>1, <1>2, LastAssistantEdited, LastAssistantType
<1>5. ~Known(m)'
  <2>1. \A id \in session[conv] : id < nextId /\ id \in Nat
    BY <1>0, <1>1 DEF Inv, IdsFollow, TypeOK
  <2> QED
    BY <1>2, <1>3, <2>1 DEF Known
<1>6. \A i \in 1 .. len : i # m => (Known(i)' <=> Known(i))
  BY <1>2, <1>3 DEF Known
<1>8. \A i \in 1 .. len : Foreign(i) => Foreign(i)'
  <2> SUFFICES ASSUME NEW i \in 1 .. len, Foreign(i) PROVE Foreign(i)'
    OBVIOUS
  <2>1. CASE i = m
    <3>1. history[m].role = "assistant" /\ m \in m .. len
      BY <1>0, <1>1, <1>2, <2>1 DEF Foreign
    <3> QED
      BY <1>2, <1>3, <1>5, <2>1, <3>1 DEF Foreign
  <2>2. CASE i # m
    BY <1>2, <1>3, <1>6, <2>2 DEF Foreign
  <2> QED
    BY <2>1, <2>2
<1>9. GapsAreTheClients /\ KnownWasAsked
  BY DEF Inv, SessionFollows
<1>10. GapsAreTheClients'
  <2> SUFFICES ASSUME NEW i \in 1 .. len, NEW k \in i .. len,
                      ~Known(i)', history'[k].role = "assistant"
               PROVE  history'[i].id \in rewritten' \/ \E j \in i .. k : Foreign(j)'
    BY <1>2 DEF GapsAreTheClients
  <2>1. history[k].role = "assistant" /\ k \in 1 .. len
    BY <1>0, <1>1, <1>2
  <2>2. CASE i = m
    BY <1>2, <1>3, <2>1, <2>2
  <2>3. CASE i # m
    <3>1. ~Known(i) /\ history'[i] = history[i]
      BY <1>2, <1>6, <2>3
    <3>2. history[i].id \in rewritten \/ \E j \in i .. k : Foreign(j)
      BY <1>0, <1>1, <1>9, <2>1, <3>1 DEF GapsAreTheClients
    <3>3. \A j \in i .. k : j \in 1 .. len
      BY <1>0, <1>1
    <3> QED
      BY <1>3, <1>8, <3>1, <3>2, <3>3
  <2> QED
    BY <2>2, <2>3
<1>11. KnownWasAsked'
  <2> SUFFICES ASSUME NEW i \in (LastAssistant(history) + 1) .. len, Known(i)'
               PROVE  history'[i].id \in repeated'
    BY <1>2, <1>4 DEF KnownWasAsked
  <2>1. i \in 1 .. len /\ i # m
    BY <1>0, <1>1, <1>4, <1>5
  <2> QED
    BY <1>0, <1>2, <1>3, <1>6, <1>9, <2>1 DEF KnownWasAsked
<1> QED
  BY <1>10, <1>11

\* What is taken back is forgotten; what is left to ask was asked already.
LEMMA RetractKeepsSession ==
    ASSUME Inv, NEW n \in DOMAIN history, Retract(n), conv # NoConv
    PROVE  GapsAreTheClients' /\ KnownWasAsked'
<1>1. /\ TypeOK /\ history \in Seq(Message) /\ Len(history) \in Nat
      /\ DOMAIN history = 1 .. Len(history)
  BY DEF Inv, TypeOK
<1>2. /\ history' = SubSeq(history, 1, n) /\ conv' = conv /\ session' = session
      /\ rewritten' = rewritten
      /\ repeated' = repeated \union
            {history[i].id : i \in (LastAssistant(history') + 1) .. n}
  BY DEF Retract
<1>3. /\ history' \in Seq(Message) /\ Len(history') = n /\ DOMAIN history' = 1 .. n
      /\ n \in 1 .. Len(history)
      /\ \A i \in 1 .. n : history'[i] = history[i]
  BY <1>1, <1>2
<1>4. LastAssistant(history') \in 0 .. n
  BY <1>3, LastAssistantType
<1>5. \A i \in 1 .. n : (Known(i)' <=> Known(i)) /\ (Foreign(i)' <=> Foreign(i))
  BY <1>2, <1>3 DEF Known, Foreign
<1>6. GapsAreTheClients'
  <2> SUFFICES ASSUME NEW i \in 1 .. n, NEW k \in i .. n,
                      ~Known(i)', history'[k].role = "assistant"
               PROVE  history'[i].id \in rewritten' \/ \E j \in i .. k : Foreign(j)'
    BY <1>3 DEF GapsAreTheClients
  <2>1. i \in DOMAIN history /\ k \in i .. Len(history) /\ k \in 1 .. n
        /\ \A j \in i .. k : j \in 1 .. n
    BY <1>1, <1>3
  <2>2. history[i].id \in rewritten \/ \E j \in i .. k : Foreign(j)
    BY <1>3, <1>5, <2>1 DEF Inv, SessionFollows, GapsAreTheClients
  <2> QED
    BY <1>2, <1>3, <1>5, <2>1, <2>2
<1>7. KnownWasAsked'
  <2> SUFFICES ASSUME NEW i \in (LastAssistant(history') + 1) .. n
               PROVE  history'[i].id \in repeated'
    BY <1>3 DEF KnownWasAsked
  <2>1. i \in 1 .. n
    BY <1>3, <1>4
  <2> QED
    BY <1>2, <1>3, <2>1
<1> QED
  BY <1>6, <1>7

\* The session a run works in holds, before it, what the run remembers.
LEMMA WorksInRemembered ==
    ASSUME NEW c \in Conversations, Works(c) PROVE session[c] = Remembered
  BY DEF Works, Remembered

\* agy has answered: it knows what it was sent, and its answer.
LEMMA AnswerKeepsSession ==
    ASSUME Inv, NEW c \in Conversations, Answer(c)
    PROVE  GapsAreTheClients' /\ KnownWasAsked'
<1> DEFINE said == [id |-> nextId, role |-> "assistant"]
<1>0. PICK len \in Nat : len = Len(history)
  BY DEF Inv, TypeOK
<1>1. /\ TypeOK /\ history \in Seq(Message) /\ len \in Nat /\ DOMAIN history = 1 .. len
  BY <1>0 DEF Inv, TypeOK
<1>2. said \in Message /\ said.id = nextId /\ said.role = "assistant"
  BY <1>0, <1>1, BoundAssumption DEF Message, Answer, TypeOK
<1>3. /\ history' = Append(history, said) /\ conv' = c /\ rewritten' = rewritten
      /\ session'[c] = session[c] \union Ids(prompt.messages) \union {nextId}
      /\ pc = "running" /\ Works(c)
  BY <1>0, <1>1 DEF Answer, TypeOK, past
<1> HIDE DEF said
<1>4. /\ Len(history') = len + 1 /\ DOMAIN history' = 1 .. (len + 1)
      /\ \A i \in 1 .. len : history'[i] = history[i]
      /\ history'[len + 1] = said
  BY <1>0, <1>1, <1>2, <1>3, Appended
<1>5. ASSUME NEW i \in 1 .. len PROVE Known(i)' <=> ~Misses(i)
  <2>1. history[i].id # nextId
    <3>1. history[i] \in Message
      BY <1>0, <1>1, <1>5
    <3>2. history[i].id < nextId /\ history[i].id \in Nat /\ nextId \in Nat
      BY <1>0, <1>1, <1>5, <3>1 DEF Inv, IdsFollow, Message, TypeOK
    <3> QED
      BY <3>2
  <2>2. session[c] = Remembered
    BY <1>3, WorksInRemembered
  <2> QED
    BY <1>3, <1>4, <1>5, <2>1, <2>2 DEF Known, Misses
<1>6. Known(len + 1)'
  BY <1>2, <1>3, <1>4 DEF Known
<1>7. LastAssistant(history') = len + 1
  BY <1>0, <1>1, <1>2, <1>3, LastAssistantAnswered
<1>8. GapsAreTheClients'
  <2> SUFFICES ASSUME NEW i \in 1 .. (len + 1), NEW k \in i .. (len + 1),
                      ~Known(i)', history'[k].role = "assistant"
               PROVE  history'[i].id \in rewritten' \/ \E j \in i .. k : Foreign(j)'
    BY <1>4 DEF GapsAreTheClients
  <2>1. i \in 1 .. len /\ Misses(i)
    <3>1. i # len + 1
      BY <1>6
    <3>2. i \in 1 .. len
      BY <1>0, <1>1, <3>1
    <3> QED
      BY <1>5, <3>2
  <2>2. PICK n \in i .. len : n <= k /\ history[n].role = "assistant"
    <3>1. LastAssistant(history) \in i .. (len - 1)
      BY <1>0, <1>1, <1>3, <2>1, LeftOut
    <3>2. history[LastAssistant(history)].role = "assistant"
      BY <1>0, <1>1, <2>1, <3>1, LastAssistantType
    <3>3. CASE k = len + 1
      BY <1>0, <1>1, <3>1, <3>2, <3>3
    <3>4. CASE k # len + 1
      <4>1. k \in i .. len /\ k \in 1 .. len
        BY <1>0, <1>1, <2>1, <3>4
      <4> QED
        BY <1>4, <4>1
    <3> QED
      BY <3>3, <3>4
  <2>3. \/ history[i].id \in rewritten
        \/ \E j \in i .. n : /\ history[j].role = "assistant"
                             /\ history[j].id \in rewritten /\ Misses(j)
    BY <1>0, <1>1, <1>3, <2>1, <2>2, GapsOfTheRun
  <2>4. \A j \in i .. n : j \in 1 .. len /\ j \in i .. k
    BY <1>0, <1>1, <2>1, <2>2
  <2>5. \A j \in i .. n : history[j].role = "assistant" /\ history[j].id \in rewritten /\ Misses(j)
                          => Foreign(j)'
    BY <1>3, <1>4, <1>5, <2>4 DEF Foreign
  <2> QED
    BY <1>3, <1>4, <2>1, <2>3, <2>4, <2>5
<1>9. KnownWasAsked'
  BY <1>0, <1>1, <1>4, <1>7 DEF KnownWasAsked
<1> QED
  BY <1>8, <1>9

\* A run failed after it was sent: the client will ask again.
LEMMA FailKeepsSession ==
    ASSUME Inv, NEW c \in Conversations, FailLate(c), conv' # NoConv
    PROVE  GapsAreTheClients' /\ KnownWasAsked'
<1>0. PICK len \in Nat : len = Len(history)
  BY DEF Inv, TypeOK
<1>1. /\ TypeOK /\ history \in Seq(Message) /\ len \in Nat /\ DOMAIN history = 1 .. len
  BY <1>0 DEF Inv, TypeOK
<1>2. /\ history' = history /\ rewritten' = rewritten
      /\ repeated' = repeated \union Ids(prompt.messages)
      /\ conv' = conv \/ conv' = c
      /\ session'[c] = session[c] \union Ids(prompt.messages)
      /\ \A d \in Conversations \ {c} : session'[d] = session[d]
      /\ pc = "running" /\ Works(c)
  BY <1>0, <1>1 DEF FailLate, TypeOK
<1>3. CASE conv' # c
  <2>1. conv' = conv /\ session'[conv] = session[conv] /\ GapsAreTheClients /\ KnownWasAsked
    BY <1>0, <1>1, <1>2, <1>3 DEF TypeOK, Inv, SessionFollows
  <2> QED
    BY <1>2, <2>1 DEF GapsAreTheClients, KnownWasAsked, Foreign, Known
<1>4. CASE conv' = c
  <2>1. session[c] = Remembered
    BY <1>2, WorksInRemembered
  <2>2. \A i \in 1 .. len : Known(i)' <=> ~Misses(i)
    BY <1>2, <1>4, <2>1 DEF Known, Misses
  <2>3. GapsAreTheClients'
    <3> SUFFICES ASSUME NEW i \in 1 .. len, NEW k \in i .. len,
                        ~Known(i)', history[k].role = "assistant"
                 PROVE  history[i].id \in rewritten' \/ \E j \in i .. k : Foreign(j)'
      BY <1>0, <1>1, <1>2 DEF GapsAreTheClients
    <3>1. \/ history[i].id \in rewritten
          \/ \E j \in i .. k : /\ history[j].role = "assistant"
                               /\ history[j].id \in rewritten /\ Misses(j)
      BY <1>0, <1>1, <1>2, <2>2, GapsOfTheRun
    <3>2. \A j \in i .. k : j \in 1 .. len
      BY <1>0, <1>1
    <3>3. \A j \in i .. k : history[j].role = "assistant" /\ history[j].id \in rewritten
                            /\ Misses(j) => Foreign(j)'
      BY <1>2, <2>2, <3>2 DEF Foreign
    <3> QED
      BY <1>2, <3>1, <3>3
  <2>4. KnownWasAsked'
    BY <1>2, NewIsSent DEF KnownWasAsked
  <2> QED
    BY <2>3, <2>4
<1> QED
  BY <1>3, <1>4

\* What agy knows keeps following the client's list.
LEMMA StepKeepsSession == Inv /\ [Next]_vars => SessionFollows'
<1> SUFFICES ASSUME Inv, [Next]_vars, conv' # NoConv
             PROVE  GapsAreTheClients' /\ KnownWasAsked'
  BY DEF SessionFollows
<1>1. ASSUME UNCHANGED <<chat, session, past>> PROVE GapsAreTheClients' /\ KnownWasAsked'
  <2>1. GapsAreTheClients /\ KnownWasAsked
    BY <1>1 DEF Inv, SessionFollows, chat
  <2> QED
    BY <1>1, <2>1 DEF GapsAreTheClients, KnownWasAsked, Foreign, Known, chat, past
<1>2. ASSUME NEW role \in {"user", "other", "assistant"}, Say(role)
      PROVE  GapsAreTheClients' /\ KnownWasAsked'
  BY <1>2, SayKeepsSession DEF Say
<1>3. ASSUME NEW i \in DOMAIN history, Edit(i) PROVE GapsAreTheClients' /\ KnownWasAsked'
  BY <1>3, EditKeepsSession DEF Edit
<1>4. ASSUME NEW i \in DOMAIN history, Retract(i) PROVE GapsAreTheClients' /\ KnownWasAsked'
  BY <1>4, RetractKeepsSession DEF Retract
<1>5. ASSUME NEW c \in Conversations, Answer(c) PROVE GapsAreTheClients' /\ KnownWasAsked'
  BY <1>5, AnswerKeepsSession
<1>6. ASSUME NEW c \in Conversations, FailLate(c) PROVE GapsAreTheClients' /\ KnownWasAsked'
  BY <1>6, FailKeepsSession
<1> QED
  BY <1>1, <1>2, <1>3, <1>4, <1>5, <1>6 DEF Next, Ask, FailEarly, vars

\* Every step keeps the invariant.
LEMMA StepKeepsInv == Inv /\ [Next]_vars => Inv'
  BY StepKeepsTypes, StepKeepsIds, StepKeepsRun, StepKeepsSession DEF Inv

\* The inductive invariant holds throughout.
THEOREM Invariant == Spec => []Inv
  BY InitInv, StepKeepsInv, PTL DEF Spec

\* When agy starts to answer, it knows all that the client's list says but for what
\* the client put before an answer, or before an answer of its own.
THEOREM MissesRewrites == Spec => []AgyMissesOnlyRewrites
  BY Invariant, MissesOnlyRewrites, PTL

\* The prompt is written for a resumed session exactly when one is resumed, and
\* asks for tool calls whenever the stream will look for them.
THEOREM PromptFits == Spec => []PromptMatchesRun
<1>1. Inv => PromptMatchesRun
  BY DEF Inv, RunFollows, PromptMatchesRun
<1> QED
  BY <1>1, Invariant, PTL

\* A resumed session is sent nothing it has, but for what was asked again and
\* but for a list that ends with an answer.
THEOREM OnlyNewMessages == Spec => []OnlyTheNewTurn
  BY Invariant, SendsOnlyTheNew, PTL
=============================================================================
