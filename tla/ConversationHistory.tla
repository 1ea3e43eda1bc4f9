-------------------------- MODULE ConversationHistory --------------------------
(***************************************************************************)
(* The message history that a conversation handler sends to Bedrock.       *)
(*                                                                         *)
(* Every message that a user writes starts an invocation of the handler.   *)
(* The invocation lists the conversation, which may not show the latest    *)
(* writes yet, and falls back to a get for the message it is about.  It    *)
(* puts each answer behind the message it answers, whatever their times,   *)
(* and takes the tool blocks of earlier turns out.  Invocations for        *)
(* several messages run at once.                                           *)
(***************************************************************************)
EXTENDS Integers, SequencesExt

CONSTANTS
    MaxMessages,    \* bound: messages of the conversation
    Concurrent,     \* the user may write while an answer is being made
    Abandons,       \* the user may leave a requested client tool unanswered
    StaleLists      \* a list may miss messages that were just written

ASSUME MaxMessagesAssumption == MaxMessages \in Nat \ {0}
ASSUME SwitchesAssumption == {Concurrent, Abandons, StaleLists} \subseteq BOOLEAN

MessageIds == 1..MaxMessages

\* A content block: where it was written, and for a tool result the message
\* that asked for it.  aiContext is one more text block and left out.
Blocks == [kind : {"text", "toolUse", "toolResult"}, of : MessageIds, use : 0..MaxMessages]
MessageBlock(kind, id, use) == [kind |-> kind, of |-> id, use |-> use]

VARIABLES
    conversation,   \* the messages; an id is the place in order of createdAt
    visible,        \* messages that a list returns
    invocation,     \* phase of the invocation of each user message
    asked,          \* the latest history sent to Bedrock, and the message it is for
    orderly         \* history variable: so far the user waited for every answer and
                    \* answered every tool use, and lists missed nothing

historyVars == <<conversation, visible, invocation, asked, orderly>>

Phases == {"none", "invoked", "asking", "answered", "failed"}

HistoryTypeOK ==
    /\ Len(conversation) \in 0..MaxMessages
    /\ \A i \in DOMAIN conversation :
          /\ conversation[i].id = i
          /\ conversation[i].role \in {"user", "assistant"}
          /\ conversation[i].associatedUserMessageId \in 0..(i - 1)
          /\ \A b \in Range(conversation[i].content) : b \in Blocks /\ b.of = i
    /\ visible \subseteq DOMAIN conversation
    /\ invocation \in [MessageIds -> Phases]
    /\ asked.current \in 0..MaxMessages
    /\ orderly \in BOOLEAN

HistoryInit ==
    /\ conversation = <<>>
    /\ visible = {}
    /\ invocation = [i \in MessageIds |-> "none"]
    /\ asked = [current |-> 0, messages |-> <<>>]
    /\ orderly = TRUE

-----------------------------------------------------------------------------
(* The retriever: pure functions of what the queries return.                *)

\* The elements of s at these places, in their order.
Those(s, places) ==
    FlattenSeq([k \in DOMAIN s |-> IF k \in places THEN <<s[k]>> ELSE <<>>])

\* listMessages.  The repair of null properties and serialized JSON is left out.
ListMessages == Those(conversation, visible)

GetCurrentMessage(current) == conversation[current]

\* Mutant: the current message is fetched whether or not it was listed.
RetrieveAlwaysFetching(current) == Append(ListMessages, GetCurrentMessage(current))

\* The listed messages, and the current one when the list misses it.
Retrieve(current) ==
    IF current \in visible THEN ListMessages
    ELSE Append(ListMessages, GetCurrentMessage(current))

IsAnswer(m, id) == m.role = "assistant" /\ m.associatedUserMessageId = id

\* Where the answers to a message are; the last of them counts.
AnswersTo(messages, id) == {k \in DOMAIN messages : IsAnswer(messages[k], id)}

\* User messages that are current or answered.
IsKept(messages, m, current) ==
    m.role = "user" /\ (m.id = current \/ AnswersTo(messages, m.id) # {})

Strip(m) == [role |-> m.role, content |-> m.content]

WithAnswer(messages, m) ==
    LET answers == AnswersTo(messages, m.id)
    IN  IF answers = {} THEN <<Strip(m)>> ELSE <<Strip(m), Strip(messages[Max(answers)])>>

\* Mutant: messages are taken in chronological order.
InOrderOfCreation(messages, current) ==
    FlattenSeq([k \in DOMAIN messages |->
        IF messages[k].role = "assistant" \/ IsKept(messages, messages[k], current)
        THEN <<Strip(messages[k])>> ELSE <<>>])

\* The messages kept, each followed by its answer.
Ordered(messages, current) ==
    FlattenSeq([k \in DOMAIN messages |->
        IF IsKept(messages, messages[k], current) THEN WithAnswer(messages, messages[k]) ELSE <<>>])

IsNonToolBlock(block) == block.kind = "text"
NonToolContent(content) ==
    Those(content, {k \in DOMAIN content : IsNonToolBlock(content[k])})

\* Appends a message of an earlier turn, without its tool blocks.
Squash(squashed, m) ==
    LET content == NonToolContent(m.content)
    IN  IF content = <<>> THEN squashed
        ELSE IF squashed # <<>> /\ Last(squashed).role = m.role
        THEN [squashed EXCEPT ![Len(squashed)].content = @ \o content]
        ELSE Append(squashed, [m EXCEPT !.content = content])

\* The first n messages.
Squashed(messages, n) ==
    LET squashed[k \in 0..n] ==
            IF k = 0 THEN <<>> ELSE Squash(squashed[k - 1], messages[k])
    IN  squashed[n]

\* Mutant: the current turn starts at the last user message.
AtLastUserMessage(messages) ==
    Max({0} \union {k \in DOMAIN messages : messages[k].role = "user"})

\* The current turn starts at the last user message that is not about tools.
CurrentTurnBegins(messages) ==
    Max({0} \union {k \in DOMAIN messages :
        messages[k].role = "user" /\ \E b \in Range(messages[k].content) : IsNonToolBlock(b)})

SquashNonCurrentTurns(messages) ==
    LET begins == CurrentTurnBegins(messages)
    IN  IF begins <= 1 THEN messages
        ELSE Squashed(messages, begins - 1) \o SubSeq(messages, begins, Len(messages))

GetMessageHistory(current) ==
    SquashNonCurrentTurns(Ordered(Retrieve(current), current))

-----------------------------------------------------------------------------
(* The conversation.                                                        *)

AnswerInProgress == \E i \in MessageIds : invocation[i] \in {"invoked", "asking"}

\* Client tools that an answer asked for, whose result is still to be written:
\* none was, or its invocation failed.
OpenToolUses ==
    {i \in DOMAIN conversation :
        /\ \E b \in Range(conversation[i].content) : b.kind = "toolUse"
        /\ \A j \in DOMAIN conversation : \A b \in Range(conversation[j].content) :
              b.use = i => invocation[j] = "failed"}

Write(role, content, answered) ==
    LET id == Len(conversation) + 1
        message == [id |-> id, role |-> role, associatedUserMessageId |-> answered,
                    content |-> content]
    IN  /\ id <= MaxMessages
        /\ conversation' = Append(conversation, message)
        /\ visible' = IF StaleLists THEN visible ELSE visible \union {id}

\* A user writes a text or the results of a client tool; the handler is invoked.
UserWrites ==
    LET id == Len(conversation) + 1
    IN  /\ AnswerInProgress => Concurrent
        /\ \/ /\ OpenToolUses # {} => Abandons
              /\ Write("user", <<MessageBlock("text", id, 0)>>, 0)
              /\ orderly' = (orderly /\ ~AnswerInProgress /\ OpenToolUses = {})
           \/ /\ \E use \in OpenToolUses :
                    Write("user", <<MessageBlock("toolResult", id, use)>>, 0)
              /\ orderly' = (orderly /\ ~AnswerInProgress)
        /\ invocation' = [invocation EXCEPT ![id] = "invoked"]
        /\ UNCHANGED asked

\* A write becomes visible to lists.
BecomesVisible(i) ==
    /\ i \in DOMAIN conversation \ visible
    /\ visible' = visible \union {i}
    /\ UNCHANGED <<conversation, invocation, asked, orderly>>

\* The invocation retrieves the history and sends it.
AsksBedrock(i) ==
    /\ invocation[i] = "invoked"
    /\ asked' = [current |-> i, messages |-> GetMessageHistory(i)]
    /\ orderly' = (orderly /\ visible = DOMAIN conversation)
    /\ invocation' = [invocation EXCEPT ![i] = "asking"]
    /\ UNCHANGED <<conversation, visible>>

\* Mutant: the answer is associated with itself.
AnsweredItself(i) ==
    LET id == Len(conversation) + 1
    IN  /\ invocation[i] = "asking"
        /\ Write("assistant", <<MessageBlock("text", id, 0)>>, id)
        /\ invocation' = [invocation EXCEPT ![i] = "answered"]
        /\ UNCHANGED <<asked, orderly>>

\* The answer is written: a text, a use of client tools, or both.
Answered(i) ==
    LET id == Len(conversation) + 1
        text == MessageBlock("text", id, 0)
        toolUse == MessageBlock("toolUse", id, 0)
    IN  /\ invocation[i] = "asking"
        /\ \E content \in {<<text>>, <<toolUse>>, <<text, toolUse>>} :
              Write("assistant", content, i)
        /\ invocation' = [invocation EXCEPT ![i] = "answered"]
        /\ UNCHANGED <<asked, orderly>>

\* The invocation ends with an error, which is not a message.
InvocationFails(i) ==
    /\ invocation[i] \in {"invoked", "asking"}
    /\ invocation' = [invocation EXCEPT ![i] = "failed"]
    /\ UNCHANGED <<conversation, visible, asked, orderly>>

HistoryNext ==
    \/ UserWrites
    \/ \E i \in MessageIds : BecomesVisible(i) \/ AsksBedrock(i) \/ Answered(i) \/ InvocationFails(i)

HistorySpec == HistoryInit /\ [][HistoryNext]_historyVars

-----------------------------------------------------------------------------
AskedBlocks ==
    FlattenSeq([k \in DOMAIN asked.messages |-> asked.messages[k].content])

Alternates(messages) ==
    \A k \in DOMAIN messages : messages[k].role = IF k % 2 = 1 THEN "user" ELSE "assistant"

\* "Bedrock expects that message history is user->assistant->user->assistant->...
\* and so on": the comment over orderedMessages, for every conversation.
HistoryAlwaysAlternates == Alternates(asked.messages)

ToolResultsFollowUses(messages) ==
    \A k \in DOMAIN messages : \A b \in Range(messages[k].content) :
        b.kind = "toolResult" =>
            /\ k > 1
            /\ \E c \in Range(messages[k - 1].content) : c.kind = "toolUse" /\ c.of = b.use

\* Bedrock accepts the history, when the user waits for answers and answers tool
\* uses and the lists are complete, whichever turns failed: user and assistant
\* alternate, and a tool result comes right behind the message that asked for it
\* (squashNonCurrentTurns).
BedrockAcceptsHistory ==
    orderly => Alternates(asked.messages) /\ ToolResultsFollowUses(asked.messages)

\* Whatever overlaps and whatever lists miss: the text of the current message
\* is sent, and no block of the conversation is sent twice.
CurrentTextSentAndNothingTwice ==
    /\ asked.current # 0 =>
        \A b \in Range(conversation[asked.current].content) :
            b.kind = "text" => b \in Range(AskedBlocks)
    /\ \A j, k \in DOMAIN AskedBlocks : AskedBlocks[j] = AskedBlocks[k] => j = k

IsQuestion(b) == b.kind = "text" /\ conversation[b.of].role = "user"

\* Whatever overlaps: the answer to a question comes behind it, without another
\* question in between that it could be taken to answer.  (The question of an
\* answer to tool results is not sent as a text.)
AnswersFollowTheirQuestions ==
    LET blocks == AskedBlocks
        questions == {b.of : b \in {c \in Range(blocks) : IsQuestion(c)}}
    IN  \A k \in DOMAIN blocks :
            LET question == conversation[blocks[k].of].associatedUserMessageId
            IN  question \in questions =>
                    \E j \in 1..k :
                        /\ IsQuestion(blocks[j]) /\ blocks[j].of = question
                        /\ \A l \in (j + 1)..k : ~IsQuestion(blocks[l])

===============================================================================
