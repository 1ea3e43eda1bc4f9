------------------------ MODULE ConversationHistoryProofs ------------------------
(***************************************************************************)
(* Theorems about the history of a conversation for every value of its     *)
(* constants: what is sent to Bedrock whatever overlaps, and what Bedrock  *)
(* accepts while the user waits for answers.                               *)
(***************************************************************************)
EXTENDS MCConversation, SequenceLemmas

-----------------------------------------------------------------------------
(* The types of a conversation. *)

Messages == [id : MessageIds, role : {"user", "assistant"},
             associatedUserMessageId : 0..MaxMessages, content : Seq(Blocks)]

\* An answer names the message it answers, which was written before it; every
\* block knows the message it is in.
MessageInv(i) ==
    /\ conversation[i].id = i
    /\ conversation[i].associatedUserMessageId < i
    /\ \A b \in Range(conversation[i].content) : b.of = i

\* Only messages that were written have invocations.
HistoryTypeInv ==
    /\ conversation \in Seq(Messages) /\ Len(conversation) <= MaxMessages
    /\ \A i \in 1..Len(conversation) : MessageInv(i)
    /\ visible \subseteq 1..Len(conversation)
    /\ invocation \in [MessageIds -> Phases]
    /\ \A i \in MessageIds : invocation[i] # "none" => i <= Len(conversation)
    /\ asked.current \in 0..MaxMessages
    /\ orderly \in BOOLEAN

LEMMA HistoryTypeInvImplies == HistoryTypeInv => HistoryTypeOK
<1> SUFFICES ASSUME HistoryTypeInv PROVE HistoryTypeOK
  OBVIOUS
<1>1. Len(conversation) \in 0..MaxMessages /\ DOMAIN conversation = 1..Len(conversation)
  BY MaxMessagesAssumption DEF HistoryTypeInv
<1>2. ASSUME NEW i \in 1..Len(conversation)
      PROVE  /\ conversation[i].id = i
             /\ conversation[i].role \in {"user", "assistant"}
             /\ conversation[i].associatedUserMessageId \in 0..(i - 1)
             /\ \A b \in Range(conversation[i].content) : b \in Blocks /\ b.of = i
  <2>1. conversation[i] \in Messages /\ MessageInv(i)
    BY DEF HistoryTypeInv
  <2>2. conversation[i].content \in Seq(Blocks) /\ conversation[i].associatedUserMessageId \in 0..MaxMessages
    BY <2>1 DEF Messages
  <2>3. Range(conversation[i].content) \subseteq Blocks
    BY <2>2, RangeInType
  <2>4. conversation[i].associatedUserMessageId \in 0..(i - 1)
    BY <2>1, <2>2, MaxMessagesAssumption DEF MessageInv
  <2> QED BY <2>1, <2>3, <2>4 DEF MessageInv, Messages
<1> QED BY <1>1, <1>2 DEF HistoryTypeOK, HistoryTypeInv

\* A message is written behind the others, in the order of its id.
LEMMA WriteTypes ==
    ASSUME HistoryTypeInv, NEW role \in {"user", "assistant"}, NEW content \in Seq(Blocks),
           \A b \in Range(content) : b.of = Len(conversation) + 1,
           NEW answered \in 0..Len(conversation), Write(role, content, answered)
    PROVE  /\ Len(conversation) + 1 \in MessageIds
           /\ conversation' \in Seq(Messages) /\ Len(conversation') = Len(conversation) + 1
           /\ \A i \in 1..Len(conversation') : MessageInv(i)'
           /\ visible' \subseteq 1..Len(conversation')
<1> DEFINE id == Len(conversation) + 1
           message == [id |-> id, role |-> role, associatedUserMessageId |-> answered, content |-> content]
<1>1. Len(conversation) \in Nat /\ id \in MessageIds /\ answered \in 0..MaxMessages
  BY MaxMessagesAssumption DEF HistoryTypeInv, Write, MessageIds
<1>2. message \in Messages
  BY <1>1 DEF Messages
<1>3. conversation' = Append(conversation, message)
  BY DEF Write
<1> HIDE DEF message
<1>4. /\ conversation' \in Seq(Messages) /\ Len(conversation') = id
      /\ \A i \in 1..Len(conversation) : conversation'[i] = conversation[i]
      /\ conversation'[id] = message
  BY <1>1, <1>2, <1>3 DEF HistoryTypeInv
<1>5. ASSUME NEW i \in 1..id PROVE MessageInv(i)'
  <2>1. CASE i = id
    BY <1>1, <1>4, <2>1 DEF MessageInv, message
  <2>2. CASE i # id
    <3>1. i \in 1..Len(conversation)
      BY <1>1, <2>2
    <3> QED BY <1>4, <3>1 DEF MessageInv, HistoryTypeInv
  <2> QED BY <2>1, <2>2
<1>6. visible' \subseteq 1..id
  <2>1. visible \subseteq 1..Len(conversation) /\ visible' \subseteq visible \union {id}
    BY DEF HistoryTypeInv, Write
  <2> QED BY <1>1, <2>1
<1> QED BY <1>1, <1>4, <1>5, <1>6

\* The contents of messages: a block written where it says.
LEMMA ContentTypes ==
    ASSUME NEW id \in MessageIds, NEW use \in 0..MaxMessages
    PROVE  /\ <<MessageBlock("text", id, 0)>> \in Seq(Blocks)
           /\ <<MessageBlock("toolUse", id, 0)>> \in Seq(Blocks)
           /\ <<MessageBlock("toolResult", id, use)>> \in Seq(Blocks)
           /\ <<MessageBlock("text", id, 0), MessageBlock("toolUse", id, 0)>> \in Seq(Blocks)
           /\ \A kind : \A b \in Range(<<MessageBlock(kind, id, use)>>) : b.of = id
           /\ \A b \in Range(<<MessageBlock("text", id, 0), MessageBlock("toolUse", id, 0)>>) : b.of = id
<1>1. 0 \in 0..MaxMessages
  BY MaxMessagesAssumption
<1>2. /\ MessageBlock("text", id, 0) \in Blocks
      /\ MessageBlock("toolUse", id, 0) \in Blocks
      /\ MessageBlock("toolResult", id, use) \in Blocks
  BY <1>1 DEF MessageBlock, Blocks
<1>3. \A a : Range(<<a>>) = {a}
  BY DEF Range
<1>4. \A a, b : Range(<<a, b>>) = {a, b}
  BY DEF Range
<1>5. \A kind, u : MessageBlock(kind, id, u).of = id
  BY DEF MessageBlock
<1> QED BY <1>2, <1>3, <1>4, <1>5

\* A message is written, and only the invocation of a message there is changes.
LEMMA WrittenTypes ==
    ASSUME HistoryTypeInv, NEW role \in {"user", "assistant"}, NEW content \in Seq(Blocks),
           \A b \in Range(content) : b.of = Len(conversation) + 1,
           NEW answered \in 0..Len(conversation), Write(role, content, answered),
           NEW i \in 1..(Len(conversation) + 1), NEW phase \in Phases,
           invocation' = [invocation EXCEPT ![i] = phase],
           UNCHANGED asked, orderly' \in BOOLEAN
    PROVE  HistoryTypeInv'
<1>1. /\ Len(conversation) \in Nat /\ Len(conversation) + 1 \in MessageIds
      /\ conversation' \in Seq(Messages) /\ Len(conversation') = Len(conversation) + 1
      /\ \A j \in 1..Len(conversation') : MessageInv(j)'
      /\ visible' \subseteq 1..Len(conversation')
  <2>1. Len(conversation) \in Nat
    BY DEF HistoryTypeInv
  <2> QED BY <2>1, WriteTypes
<1>2. Len(conversation') <= MaxMessages /\ i <= Len(conversation')
  BY <1>1 DEF MessageIds
<1>3. invocation' \in [MessageIds -> Phases]
  BY DEF HistoryTypeInv
<1>4. \A j \in MessageIds : invocation'[j] # "none" => j <= Len(conversation')
  <2>1. \A j \in MessageIds : invocation[j] # "none" => j <= Len(conversation)
    BY DEF HistoryTypeInv
  <2>2. \A j \in MessageIds : j # i => invocation'[j] = invocation[j]
    BY DEF HistoryTypeInv
  <2> QED BY <1>1, <1>2, <2>1, <2>2 DEF MessageIds
<1> QED BY <1>1, <1>2, <1>3, <1>4 DEF HistoryTypeInv

LEMMA HistoryTypesPreserved == HistoryTypeInv /\ [HistoryNext]_historyVars => HistoryTypeInv'
<1> SUFFICES ASSUME HistoryTypeInv, [HistoryNext]_historyVars PROVE HistoryTypeInv'
  OBVIOUS
<1> DEFINE id == Len(conversation) + 1
<1>1. CASE UserWrites
  <2>1. /\ \/ Write("user", <<MessageBlock("text", id, 0)>>, 0)
           \/ \E use \in OpenToolUses : Write("user", <<MessageBlock("toolResult", id, use)>>, 0)
        /\ invocation' = [invocation EXCEPT ![id] = "invoked"]
        /\ UNCHANGED asked /\ orderly' \in BOOLEAN
    BY <1>1 DEF UserWrites, HistoryTypeInv
  <2>2. id <= MaxMessages
    BY <2>1 DEF Write
  <2>3. id \in MessageIds /\ 0 \in 0..Len(conversation) /\ id \in 1..id
    BY <2>2, MaxMessagesAssumption DEF MessageIds, HistoryTypeInv
  <2>4. OpenToolUses \subseteq 0..MaxMessages
    <3>1. DOMAIN conversation \subseteq 0..MaxMessages
      BY MaxMessagesAssumption DEF HistoryTypeInv
    <3> QED BY <3>1 DEF OpenToolUses
  <2>5. 0 \in 0..MaxMessages /\ "invoked" \in Phases /\ "user" \in {"user", "assistant"}
    BY MaxMessagesAssumption DEF Phases
  <2>6. ASSUME NEW use \in 0..MaxMessages, NEW kind \in {"text", "toolResult"},
               Write("user", <<MessageBlock(kind, id, use)>>, 0), kind = "text" => use = 0
        PROVE  HistoryTypeInv'
    <3> DEFINE content == <<MessageBlock(kind, id, use)>>
    <3>1. content \in Seq(Blocks) /\ \A b \in Range(content) : b.of = id
      BY <2>3, <2>6, ContentTypes
    <3>2. Write("user", content, 0)
      BY <2>6
    <3> HIDE DEF content
    <3> QED BY <2>1, <2>3, <2>5, <3>1, <3>2, WrittenTypes
  <2> QED BY <2>1, <2>4, <2>5, <2>6
<1>2. ASSUME NEW i \in MessageIds, BecomesVisible(i) PROVE HistoryTypeInv'
  <2>1. visible' \subseteq 1..Len(conversation)
    <3>1. DOMAIN conversation = 1..Len(conversation) /\ visible \subseteq 1..Len(conversation)
      BY DEF HistoryTypeInv
    <3> QED BY <1>2, <3>1 DEF BecomesVisible
  <2>2. \A j \in 1..Len(conversation) : MessageInv(j)'
    BY <1>2 DEF BecomesVisible, HistoryTypeInv, MessageInv
  <2> QED BY <1>2, <2>1, <2>2 DEF BecomesVisible, HistoryTypeInv
<1>3. ASSUME NEW i \in MessageIds, AsksBedrock(i) PROVE HistoryTypeInv'
  <2>1. asked'.current = i /\ i \in 0..MaxMessages
    BY <1>3 DEF AsksBedrock, MessageIds
  <2>2. orderly' \in BOOLEAN
    BY <1>3 DEF AsksBedrock
  <2> QED BY <1>3, <2>1, <2>2 DEF AsksBedrock, HistoryTypeInv, MessageInv, Phases
<1>4. ASSUME NEW i \in MessageIds, Answered(i) PROVE HistoryTypeInv'
  <2>1. i \in 0..Len(conversation) /\ i \in 1..id
    BY <1>4 DEF Answered, HistoryTypeInv, MessageIds
  <2>2. PICK content \in {<<MessageBlock("text", id, 0)>>, <<MessageBlock("toolUse", id, 0)>>,
                          <<MessageBlock("text", id, 0), MessageBlock("toolUse", id, 0)>>} :
            Write("assistant", content, i)
    BY <1>4 DEF Answered
  <2>3. id \in MessageIds /\ 0 \in 0..MaxMessages
    BY <2>1, <2>2, MaxMessagesAssumption DEF Write, MessageIds, HistoryTypeInv
  <2>4. content \in Seq(Blocks) /\ \A b \in Range(content) : b.of = id
    BY <2>2, <2>3, ContentTypes
  <2>5. invocation' = [invocation EXCEPT ![i] = "answered"] /\ UNCHANGED asked /\ orderly' \in BOOLEAN
    BY <1>4 DEF Answered, HistoryTypeInv
  <2> QED BY <2>1, <2>2, <2>4, <2>5, WrittenTypes DEF Phases
<1>5. ASSUME NEW i \in MessageIds, InvocationFails(i) PROVE HistoryTypeInv'
  BY <1>5 DEF InvocationFails, HistoryTypeInv, MessageInv, Phases
<1>6. CASE UNCHANGED historyVars
  BY <1>6 DEF historyVars, HistoryTypeInv, MessageInv
<1> QED BY <1>1, <1>2, <1>3, <1>4, <1>5, <1>6 DEF HistoryNext

LEMMA HistoryTypesInitially == HistoryInit \/ HistoryIdle => HistoryTypeInv
<1>1. HistoryInit => HistoryTypeInv
  BY MaxMessagesAssumption DEF HistoryInit, HistoryTypeInv, MessageIds, Phases
<1>2. ASSUME HistoryIdle PROVE HistoryTypeInv
  <2>1. MessageIds = 1..MaxMessages /\ MaxMessages \in Nat
    BY MaxMessagesAssumption DEF MessageIds
  <2>2. \A i \in MessageIds : <<MessageBlock("text", i, 0)>> \in Seq(Blocks)
            /\ \A b \in Range(<<MessageBlock("text", i, 0)>>) : b.of = i
    BY <2>1, ContentTypes, 0 \in 0..MaxMessages
  <2>3. conversation = [i \in 1..MaxMessages |->
            [id |-> i, role |-> "user", associatedUserMessageId |-> 0,
             content |-> <<MessageBlock("text", i, 0)>>]]
    BY <1>2, <2>1 DEF HistoryIdle
  <2>4. \A i \in 1..MaxMessages :
            /\ conversation[i] = [id |-> i, role |-> "user", associatedUserMessageId |-> 0,
                                  content |-> <<MessageBlock("text", i, 0)>>]
            /\ conversation[i] \in Messages
    BY <2>1, <2>2, <2>3 DEF Messages
  <2>5. conversation \in Seq(Messages) /\ Len(conversation) = MaxMessages
    <3>1. conversation \in [1..MaxMessages -> Messages]
      BY <2>3, <2>4
    <3> QED BY <2>1, <3>1
  <2>6. \A i \in 1..MaxMessages : MessageInv(i)
    <3> SUFFICES ASSUME NEW i \in 1..MaxMessages PROVE MessageInv(i)
      OBVIOUS
    <3>1. /\ conversation[i].id = i /\ conversation[i].associatedUserMessageId = 0
          /\ conversation[i].content = <<MessageBlock("text", i, 0)>>
      <4> DEFINE content == <<MessageBlock("text", i, 0)>>
      <4>1. conversation[i] = [id |-> i, role |-> "user", associatedUserMessageId |-> 0, content |-> content]
        BY <2>4
      <4> HIDE DEF content
      <4>2. /\ conversation[i].id = i /\ conversation[i].associatedUserMessageId = 0
            /\ conversation[i].content = content
        BY <4>1
      <4> QED BY <4>2 DEF content
    <3>2. 0 < i
      BY <2>1
    <3> QED BY <2>1, <2>2, <3>1, <3>2 DEF MessageInv
  <2>7. /\ visible = 1..MaxMessages /\ orderly = FALSE
        /\ invocation = [i \in MessageIds |-> "failed"] /\ "failed" \in Phases
    BY <1>2, <2>1 DEF HistoryIdle, Phases
  <2>8. asked.current = 0 /\ 0 \in 0..MaxMessages
    BY <1>2, <2>1 DEF HistoryIdle
  <2>9. /\ invocation \in [MessageIds -> Phases] /\ \A i \in MessageIds : i <= MaxMessages
        /\ orderly \in BOOLEAN
    <3>1. invocation \in [MessageIds -> Phases]
      BY <2>7
    <3>2. \A i \in MessageIds : i <= MaxMessages
      BY <2>1
    <3> QED BY <2>7, <3>1, <3>2
  <2> QED BY <2>1, <2>5, <2>6, <2>7, <2>8, <2>9 DEF HistoryTypeInv
<1> QED BY <1>1, <1>2

-----------------------------------------------------------------------------
(* What is written. *)

UserContents(id) ==
    {<<MessageBlock("text", id, 0)>>}
    \union {<<MessageBlock("toolResult", id, use)>> : use \in 1..(id - 1)}
AnswerContents(id) ==
    {<<MessageBlock("text", id, 0)>>, <<MessageBlock("toolUse", id, 0)>>,
     <<MessageBlock("text", id, 0), MessageBlock("toolUse", id, 0)>>}

\* A user message has an invocation and a single block; an answer is to a user
\* message before it.
Written(i) ==
    /\ conversation[i].role = "user" =>
          /\ conversation[i].associatedUserMessageId = 0
          /\ conversation[i].content \in UserContents(i)
          /\ invocation[i] # "none"
    /\ conversation[i].role = "assistant" =>
          /\ conversation[i].associatedUserMessageId \in 1..(i - 1)
          /\ conversation[i].content \in AnswerContents(i)

WrittenInv ==
    /\ HistoryTypeInv
    /\ \A i \in 1..Len(conversation) : Written(i)
    /\ \A i \in MessageIds :
          invocation[i] # "none" => i \in 1..Len(conversation) /\ conversation[i].role = "user"

\* What Write does to the messages.
LEMMA WriteAppends ==
    ASSUME HistoryTypeInv, NEW role, NEW content, NEW answered, Write(role, content, answered)
    PROVE  /\ Len(conversation) \in Nat /\ Len(conversation) + 1 \in MessageIds
           /\ Len(conversation') = Len(conversation) + 1
           /\ \A j \in 1..Len(conversation) : conversation'[j] = conversation[j]
           /\ conversation'[Len(conversation) + 1] =
                  [id |-> Len(conversation) + 1, role |-> role,
                   associatedUserMessageId |-> answered, content |-> content]
<1> DEFINE message == [id |-> Len(conversation) + 1, role |-> role,
                       associatedUserMessageId |-> answered, content |-> content]
           A == Messages \union {message}
<1>1. conversation \in Seq(Messages) /\ Len(conversation) \in Nat
  BY DEF HistoryTypeInv
<1>2. conversation \in Seq(A) /\ message \in A
  BY <1>1
<1>3. conversation' = Append(conversation, message) /\ Len(conversation) + 1 <= MaxMessages
  BY DEF Write
<1>4. Len(conversation) + 1 \in MessageIds
  BY <1>1, <1>3, MaxMessagesAssumption DEF MessageIds
<1> HIDE DEF message, A
<1>5. /\ Len(conversation') = Len(conversation) + 1
      /\ \A j \in 1..Len(conversation) : conversation'[j] = conversation[j]
      /\ conversation'[Len(conversation) + 1] = message
  BY <1>2, <1>3
<1> QED BY <1>1, <1>4, <1>5 DEF message

\* Tool uses are asked for by answers.
LEMMA ToolUseIsAnswer ==
    ASSUME NEW id, NEW content \in UserContents(id), NEW b \in Range(content)
    PROVE  b.kind \in {"text", "toolResult"} /\ b.of = id /\ b.use \in {0} \union 1..(id - 1)
<1>1. \A a : Range(<<a>>) = {a}
  BY DEF Range
<1>2. CASE content = <<MessageBlock("text", id, 0)>>
  BY <1>1, <1>2 DEF MessageBlock
<1>3. ASSUME NEW use \in 1..(id - 1), content = <<MessageBlock("toolResult", id, use)>>
      PROVE  b.kind \in {"text", "toolResult"} /\ b.of = id /\ b.use \in {0} \union 1..(id - 1)
  BY <1>1, <1>3 DEF MessageBlock
<1> QED BY <1>2, <1>3 DEF UserContents

LEMMA WrittenPreserved == WrittenInv /\ [HistoryNext]_historyVars => WrittenInv'
<1> SUFFICES ASSUME WrittenInv, [HistoryNext]_historyVars PROVE WrittenInv'
  OBVIOUS
<1> DEFINE n == Len(conversation)
           id == n + 1
<1>1. HistoryTypeInv /\ HistoryTypeInv'
  BY HistoryTypesPreserved DEF WrittenInv
<1>2. /\ n \in Nat /\ invocation \in [MessageIds -> Phases]
      /\ \A i \in 1..n : i \in MessageIds
  <2>1. n \in Nat /\ n <= MaxMessages /\ invocation \in [MessageIds -> Phases]
    BY <1>1 DEF HistoryTypeInv
  <2> QED BY <2>1, MaxMessagesAssumption DEF MessageIds
<1>3. ASSUME UNCHANGED conversation,
             \A i \in MessageIds : invocation'[i] = "none" <=> invocation[i] = "none"
      PROVE  WrittenInv'
  <2>1. \A i \in 1..n : Written(i)'
    BY <1>2, <1>3 DEF WrittenInv, Written
  <2> QED BY <1>1, <1>3, <2>1 DEF WrittenInv
<1>4. CASE UserWrites
  <2>1. PICK content :
           /\ Write("user", content, 0)
           /\ \/ content = <<MessageBlock("text", id, 0)>>
              \/ \E use \in OpenToolUses : content = <<MessageBlock("toolResult", id, use)>>
    BY <1>4 DEF UserWrites
  <2>2. content \in UserContents(id)
    <3>1. OpenToolUses \subseteq 1..(id - 1)
      <4>1. DOMAIN conversation = 1..n
        BY <1>1 DEF HistoryTypeInv
      <4> QED BY <1>2, <4>1 DEF OpenToolUses
    <3> QED BY <2>1, <3>1 DEF UserContents
  <2>3. /\ id \in MessageIds /\ Len(conversation') = id
        /\ \A j \in 1..n : conversation'[j] = conversation[j]
        /\ conversation'[id] = [id |-> id, role |-> "user", associatedUserMessageId |-> 0, content |-> content]
    BY <1>1, <2>1, WriteAppends
  <2>4. invocation' = [invocation EXCEPT ![id] = "invoked"]
    BY <1>4 DEF UserWrites
  <2>5. invocation'[id] = "invoked" /\ \A j \in MessageIds : j # id => invocation'[j] = invocation[j]
    BY <1>2, <2>3, <2>4
  <2>6. ASSUME NEW i \in 1..id PROVE Written(i)'
    <3>1. CASE i = id
      BY <2>2, <2>3, <2>5, <3>1 DEF Written
    <3>2. CASE i # id
      <4>1. i \in 1..n /\ i \in MessageIds
        BY <1>2, <3>2
      <4>2. Written(i)
        BY <4>1 DEF WrittenInv
      <4> QED BY <2>3, <2>5, <3>2, <4>1, <4>2 DEF Written
    <3> QED BY <3>1, <3>2
  <2>7. \A i \in MessageIds : invocation'[i] # "none" => i \in 1..id /\ conversation'[i].role = "user"
    BY <1>2, <2>3, <2>5 DEF WrittenInv
  <2> HIDE DEF n, id
  <2> QED BY <1>1, <2>3, <2>6, <2>7 DEF WrittenInv
<1>5. ASSUME NEW i \in MessageIds, Answered(i) PROVE WrittenInv'
  <2>1. PICK content \in AnswerContents(id) : Write("assistant", content, i)
    BY <1>5 DEF Answered, AnswerContents
  <2>2. invocation[i] = "asking" /\ invocation' = [invocation EXCEPT ![i] = "answered"]
    BY <1>5 DEF Answered
  <2>3. /\ id \in MessageIds /\ Len(conversation') = id
        /\ \A j \in 1..n : conversation'[j] = conversation[j]
        /\ conversation'[id] = [id |-> id, role |-> "assistant", associatedUserMessageId |-> i, content |-> content]
    BY <1>1, <2>1, WriteAppends
  <2>4. i \in 1..n
    BY <2>2 DEF WrittenInv
  <2>5. \A j \in MessageIds : invocation'[j] = "none" <=> invocation[j] = "none"
    BY <1>2, <2>2
  <2>6. ASSUME NEW j \in 1..id PROVE Written(j)'
    <3>1. CASE j = id
      <4>1. i \in 1..(id - 1)
        BY <1>2, <2>4
      <4> QED BY <2>1, <2>3, <3>1, <4>1 DEF Written
    <3>2. CASE j # id
      <4>1. j \in 1..n /\ j \in MessageIds
        BY <1>2, <3>2
      <4>2. Written(j)
        BY <4>1 DEF WrittenInv
      <4> QED BY <2>3, <2>5, <3>2, <4>1, <4>2 DEF Written
    <3> QED BY <3>1, <3>2
  <2>7. \A j \in MessageIds : invocation'[j] # "none" => j \in 1..id /\ conversation'[j].role = "user"
    <3>1. \A j \in 1..n : j \in 1..id
      BY <1>2
    <3> QED BY <2>3, <2>5, <3>1 DEF WrittenInv
  <2> HIDE DEF n, id
  <2> QED BY <1>1, <2>3, <2>6, <2>7 DEF WrittenInv
<1>6. ASSUME NEW i \in MessageIds, BecomesVisible(i) \/ AsksBedrock(i) \/ InvocationFails(i) PROVE WrittenInv'
  BY <1>2, <1>3, <1>6 DEF BecomesVisible, AsksBedrock, InvocationFails
<1>7. CASE UNCHANGED historyVars
  BY <1>3, <1>7 DEF historyVars
<1> QED BY <1>4, <1>5, <1>6, <1>7 DEF HistoryNext

LEMMA WrittenInitially == HistoryInit => WrittenInv
<1> SUFFICES ASSUME HistoryInit PROVE WrittenInv
  OBVIOUS
<1>1. HistoryTypeInv
  BY HistoryTypesInitially
<1>2. Len(conversation) = 0 /\ \A i \in MessageIds : invocation[i] = "none"
  BY DEF HistoryInit
<1> QED BY <1>1, <1>2 DEF WrittenInv

\* What a message holds knows its message, and nothing twice.
LEMMA ContentWritten ==
    ASSUME WrittenInv, NEW i \in 1..Len(conversation)
    PROVE  /\ conversation[i] \in Messages /\ conversation[i].id = i
           /\ Len(conversation[i].content) \in Nat \ {0}
           /\ conversation[i].content \in Seq(Blocks)
           /\ \A j \in 1..Len(conversation[i].content) : conversation[i].content[j].of = i
           /\ IsInjective(conversation[i].content)
           /\ conversation[i].role = "user" \/ conversation[i].role = "assistant"
<1> DEFINE content == conversation[i].content
<1>1. conversation[i] \in Messages /\ MessageInv(i) /\ Written(i)
  BY DEF WrittenInv, HistoryTypeInv
<1>2. /\ content \in Seq(Blocks) /\ \A b \in Range(content) : b.of = i
      /\ conversation[i].role \in {"user", "assistant"}
  BY <1>1 DEF Messages, MessageInv
<1>3. content \in UserContents(i) \/ content \in AnswerContents(i)
  BY <1>1, <1>2 DEF Written
<1> DEFINE first == MessageBlock("text", i, 0)
           second == MessageBlock("toolUse", i, 0)
<1>4. (\E a : content = <<a>>) \/ content = <<first, second>>
  BY <1>3 DEF UserContents, AnswerContents
<1>5. first # second
  <2>1. first.kind = "text" /\ second.kind = "toolUse"
    BY DEF MessageBlock
  <2> QED BY <2>1
<1> HIDE DEF content, first, second
<1>6. Len(content) \in Nat \ {0} /\ IsInjective(content)
  <2>1. \A a : Len(<<a>>) = 1 /\ IsInjective(<<a>>)
    BY DEF IsInjective
  <2>2. Len(<<first, second>>) = 2 /\ IsInjective(<<first, second>>)
    BY <1>5 DEF IsInjective
  <2> QED BY <1>4, <2>1, <2>2
<1>7. \A j \in 1..Len(content) : content[j] \in Range(content)
  <2>1. DOMAIN content = 1..Len(content)
    BY <1>2
  <2> QED BY <2>1 DEF Range
<1> QED BY <1>1, <1>2, <1>6, <1>7 DEF content, MessageInv

-----------------------------------------------------------------------------
(* What is retrieved. *)

LEMMA ThoseSequences ==
    ASSUME NEW A, NEW s \in Seq(A), NEW places
    PROVE  /\ [k \in DOMAIN s |-> IF k \in places THEN <<s[k]>> ELSE <<>>] \in Seq(Seq(A))
           /\ Len([k \in DOMAIN s |-> IF k \in places THEN <<s[k]>> ELSE <<>>]) = Len(s)
<1> DEFINE seqs == [k \in DOMAIN s |-> IF k \in places THEN <<s[k]>> ELSE <<>>]
<1>1. Len(s) \in Nat /\ DOMAIN s = 1..Len(s) /\ \A k \in 1..Len(s) : s[k] \in A
  OBVIOUS
<1>2. \A a \in A : <<a>> \in Seq(A)
  OBVIOUS
<1>3. <<>> \in Seq(A)
  OBVIOUS
<1>4. seqs \in [1..Len(s) -> Seq(A)]
  BY <1>1, <1>2, <1>3
<1> HIDE DEF seqs
<1>5. seqs \in Seq(Seq(A)) /\ Len(seqs) = Len(s)
  BY <1>1, <1>4, FunctionIsSequence
<1> QED BY <1>5 DEF seqs

\* The elements at the places, each once.
LEMMA ThoseAre ==
    ASSUME NEW A, NEW s \in Seq(A), NEW places
    PROVE  /\ Those(s, places) \in Seq(A)
           /\ \A e : e \in Range(Those(s, places)) <=> \E k \in 1..Len(s) : k \in places /\ e = s[k]
           /\ IsInjective(s) => IsInjective(Those(s, places))
<1> DEFINE seqs == [k \in DOMAIN s |-> IF k \in places THEN <<s[k]>> ELSE <<>>]
<1>1. seqs \in Seq(Seq(A)) /\ Len(seqs) = Len(s)
  BY ThoseSequences
<1>2. Len(s) \in Nat /\ DOMAIN s = 1..Len(s)
  OBVIOUS
<1>3. \A k \in 1..Len(s) : seqs[k] = IF k \in places THEN <<s[k]>> ELSE <<>>
  BY <1>2
<1>4. Those(s, places) = FlattenSeq(seqs)
  BY DEF Those
<1> HIDE DEF seqs
<1>5. /\ \A a : Range(<<a>>) = {a} /\ IsInjective(<<a>>)
      /\ Range(<<>>) = {} /\ IsInjective(<<>>)
  BY DEF Range, IsInjective
<1>6. \A k \in 1..Len(s) : IsInjective(seqs[k]) /\ Range(seqs[k]) = IF k \in places THEN {s[k]} ELSE {}
  BY <1>3, <1>5
<1>7. FlattenSeq(seqs) \in Seq(A)
  BY <1>1, FlattenType
<1>8. \A e : e \in Range(FlattenSeq(seqs)) <=> \E m \in 1..Len(seqs) : e \in Range(seqs[m])
  BY <1>1, FlattenRange
<1>9. \A e : e \in Range(FlattenSeq(seqs)) <=> \E k \in 1..Len(s) : k \in places /\ e = s[k]
  <2> SUFFICES ASSUME NEW e
               PROVE  e \in Range(FlattenSeq(seqs)) <=> \E k \in 1..Len(s) : k \in places /\ e = s[k]
    OBVIOUS
  <2>1. e \in Range(FlattenSeq(seqs)) <=> \E m \in 1..Len(s) : e \in Range(seqs[m])
    BY <1>1, <1>8
  <2>2. \A m \in 1..Len(s) : e \in Range(seqs[m]) <=> (m \in places /\ e = s[m])
    BY <1>6
  <2> QED BY <2>1, <2>2
<1>10. ASSUME IsInjective(s) PROVE IsInjective(FlattenSeq(seqs))
  <2>1. \A m, k \in 1..Len(seqs) : m # k => Range(seqs[m]) \intersect Range(seqs[k]) = {}
    <3> SUFFICES ASSUME NEW m \in 1..Len(s), NEW k \in 1..Len(s), m # k,
                        NEW e, e \in Range(seqs[m]), e \in Range(seqs[k])
                 PROVE  FALSE
      BY <1>1
    <3>1. e = s[m] /\ e = s[k]
      BY <1>6
    <3> QED BY <1>2, <1>10, <3>1 DEF IsInjective
  <2>2. \A m \in 1..Len(seqs) : IsInjective(seqs[m])
    BY <1>1, <1>6
  <2> QED BY <1>1, <2>1, <2>2, FlattenInjective
<1> QED BY <1>4, <1>7, <1>9, <1>10

\* All of the elements are the sequence itself.
LEMMA ThoseAll ==
    ASSUME NEW A, NEW s \in Seq(A)
    PROVE  Those(s, DOMAIN s) = s
<1> DEFINE n == Len(s)
           all == DOMAIN s
           One(k) == IF k \in all THEN <<s[k]>> ELSE <<>>
           T == {m \in 0..n : FlattenSeq([k \in 1..m |-> One(k)]) = [k \in 1..m |-> s[k]]}
<1>1. n \in Nat /\ all = 1..n /\ [k \in 1..n |-> s[k]] = s
  OBVIOUS
<1>2. [k \in DOMAIN s |-> One(k)] \in Seq(Seq(A)) /\ Len([k \in DOMAIN s |-> One(k)]) = n
  BY ThoseSequences
<1> DEFINE seqs == [k \in DOMAIN s |-> One(k)]
<1>3. \A k \in 1..n : seqs[k] = <<s[k]>> /\ seqs[k] = One(k)
  BY <1>1
<1>4. 0 \in T
  <2>1. [k \in 1..0 |-> One(k)] = <<>> /\ [k \in 1..0 |-> s[k]] = <<>>
    OBVIOUS
  <2> QED BY <1>1, <2>1, FlattenEmpty
<1>5. ASSUME NEW m \in 0..(n - 1), m \in T PROVE m + 1 \in T
  <2>1. m \in Nat /\ m < n /\ m + 1 \in 1..n /\ m + 1 \in 0..n
    BY <1>1
  <2>2. \A j \in 0..n : [k \in 1..j |-> One(k)] = [k \in 1..j |-> seqs[k]]
    BY <1>1, <1>3
  <2> DEFINE prefix == [k \in 1..m |-> seqs[k]]
             sofar == [k \in 1..m |-> s[k]]
  <2>3. FlattenSeq(prefix) = sofar
    <3>1. m \in 0..n
      BY <2>1
    <3> QED BY <1>5, <2>2, <3>1
  <2> HIDE DEF One, seqs
  <2>4. /\ prefix \in Seq(Seq(A)) /\ seqs[m + 1] \in Seq(A)
        /\ [k \in 1..(m + 1) |-> seqs[k]] = Append(prefix, seqs[m + 1])
    BY <1>2, <2>1, PrefixAppend DEF seqs
  <2>5. /\ sofar \in Seq(A) /\ s[m + 1] \in A
        /\ [k \in 1..(m + 1) |-> s[k]] = Append(sofar, s[m + 1])
    BY <2>1, PrefixAppend
  <2> HIDE DEF prefix, sofar
  <2>6. FlattenSeq(Append(prefix, seqs[m + 1])) = FlattenSeq(prefix) \o seqs[m + 1]
    BY <2>4, FlattenAppend
  <2>7. sofar \o <<s[m + 1]>> = Append(sofar, s[m + 1])
    BY <2>5, AppendIsConcat
  <2>8. seqs[m + 1] = <<s[m + 1]>>
    BY <1>3, <2>1
  <2> QED BY <2>1, <2>2, <2>3, <2>4, <2>5, <2>6, <2>7, <2>8
<1> HIDE DEF T
<1>6. \A m \in 0..n : m \in T
  BY <1>1, <1>4, <1>5, InductionUpTo
<1>7. n \in T
  BY <1>1, <1>6
<1>8. FlattenSeq([k \in 1..n |-> One(k)]) = s
  BY <1>1, <1>7 DEF T
<1>9. DOMAIN s = 1..n
  OBVIOUS
<1>10. Those(s, DOMAIN s) = FlattenSeq([k \in 1..n |-> One(k)])
  BY <1>9 DEF Those
<1> QED BY <1>8, <1>10

\* Messages of the conversation, each once, and the current one among them.
Retrieved(list, current) ==
    /\ list \in Seq(Messages)
    /\ \A k \in 1..Len(list) :
          list[k].id \in 1..Len(conversation) /\ list[k] = conversation[list[k].id]
    /\ \A j, k \in 1..Len(list) : list[j].id = list[k].id => j = k
    /\ \E k \in 1..Len(list) : list[k].id = current

LEMMA RetrieveIs ==
    ASSUME WrittenInv, NEW i \in 1..Len(conversation)
    PROVE  Retrieved(Retrieve(i), i)
<1> DEFINE list == Those(conversation, visible)
<1>1. /\ conversation \in Seq(Messages) /\ DOMAIN conversation = 1..Len(conversation)
      /\ visible \subseteq 1..Len(conversation)
  BY DEF WrittenInv, HistoryTypeInv
<1>2. \A k \in 1..Len(conversation) : conversation[k] \in Messages /\ conversation[k].id = k
  BY ContentWritten
<1>3. IsInjective(conversation)
  <2> SUFFICES ASSUME NEW j \in 1..Len(conversation), NEW k \in 1..Len(conversation),
                      conversation[j] = conversation[k]
               PROVE  j = k
    BY <1>1 DEF IsInjective
  <2>1. conversation[j].id = j /\ conversation[k].id = k
    BY <1>2
  <2> QED BY <2>1
<1>4. /\ list \in Seq(Messages) /\ IsInjective(list)
      /\ \A e : e \in Range(list) <=> \E k \in 1..Len(conversation) : k \in visible /\ e = conversation[k]
  BY <1>1, <1>3, ThoseAre
<1> HIDE DEF list
<1>5. DOMAIN list = 1..Len(list) /\ Len(list) \in Nat
  BY <1>4
<1>6. ASSUME NEW k \in 1..Len(list)
      PROVE  list[k].id \in visible /\ list[k] = conversation[list[k].id] /\ list[k].id \in 1..Len(conversation)
  <2>1. list[k] \in Range(list)
    BY <1>5 DEF Range
  <2>2. PICK j \in 1..Len(conversation) : j \in visible /\ list[k] = conversation[j]
    BY <1>4, <2>1
  <2>3. list[k].id = j
    BY <1>2, <2>2
  <2> QED BY <2>2, <2>3
<1>7. ASSUME NEW j \in 1..Len(list), NEW k \in 1..Len(list), list[j].id = list[k].id PROVE j = k
  <2>1. list[j] = list[k]
    BY <1>6, <1>7
  <2> QED BY <1>4, <1>5, <2>1 DEF IsInjective
<1>8. CASE i \in visible
  <2>1. conversation[i] \in Range(list)
    BY <1>4, <1>8
  <2>2. PICK k \in 1..Len(list) : conversation[i] = list[k]
    BY <1>5, <2>1 DEF Range
  <2>3. list[k].id = i
    BY <1>2, <2>2
  <2>4. Retrieve(i) = list
    BY <1>8 DEF Retrieve, ListMessages, list
  <2>5. Retrieved(list, i)
    BY <1>4, <1>6, <1>7, <2>3 DEF Retrieved
  <2> QED BY <2>4, <2>5
<1>9. CASE i \notin visible
  <2> DEFINE more == Append(list, conversation[i])
             n == Len(list)
  <2>1. Retrieve(i) = more
    BY <1>9 DEF Retrieve, ListMessages, GetCurrentMessage, list
  <2>2. conversation[i] \in Messages /\ conversation[i].id = i
    BY <1>2
  <2>3. /\ more \in Seq(Messages) /\ Len(more) = n + 1 /\ n \in Nat
        /\ more[n + 1] = conversation[i]
        /\ \A k \in 1..n : more[k] = list[k]
    BY <1>4, <2>2
  <2> HIDE DEF more, n
  <2>4. \A k \in 1..(n + 1) : k \in 1..n \/ k = n + 1
    BY <2>3
  <2>5. \A k \in 1..n : list[k].id # i
    BY <1>6, <1>9 DEF n
  <2>6. \A k \in 1..(n + 1) : more[k].id \in 1..Len(conversation) /\ more[k] = conversation[more[k].id]
    BY <1>6, <2>2, <2>3, <2>4 DEF n
  <2>7. \A j, k \in 1..(n + 1) : more[j].id = more[k].id => j = k
    BY <1>7, <2>2, <2>3, <2>4, <2>5 DEF n
  <2>8. n + 1 \in 1..(n + 1) /\ more[n + 1].id = i
    BY <2>2, <2>3
  <2>9. Retrieved(more, i)
    BY <2>3, <2>6, <2>7, <2>8 DEF Retrieved
  <2> QED BY <2>1, <2>9
<1> QED BY <1>8, <1>9

-----------------------------------------------------------------------------
(* What is ordered. *)

Stripped == [role : {"user", "assistant"}, content : Seq(Blocks)]

\* The message that a stripped one was: its blocks know.
Origin(m) == m.content[1].of

LEMMA StripIs ==
    ASSUME WrittenInv, NEW i \in 1..Len(conversation)
    PROVE  /\ Strip(conversation[i]) \in Stripped /\ Origin(Strip(conversation[i])) = i
           /\ Strip(conversation[i]).role = conversation[i].role
           /\ Strip(conversation[i]).content = conversation[i].content
<1>1. /\ conversation[i].content \in Seq(Blocks) /\ Len(conversation[i].content) \in Nat \ {0}
      /\ \A j \in 1..Len(conversation[i].content) : conversation[i].content[j].of = i
      /\ conversation[i].role \in {"user", "assistant"}
  BY ContentWritten
<1>2. 1 \in 1..Len(conversation[i].content)
  BY <1>1
<1>3. /\ Strip(conversation[i]).role = conversation[i].role
      /\ Strip(conversation[i]).content = conversation[i].content
  BY DEF Strip
<1>4. Strip(conversation[i]) \in Stripped
  BY <1>1 DEF Strip, Stripped
<1> QED BY <1>1, <1>2, <1>3, <1>4 DEF Origin

\* Messages of the conversation, each once, the current one among them, and every
\* answer right behind the message it answers.
OrderedHistory(ordered, current) ==
    /\ ordered \in Seq(Stripped)
    /\ \A p \in 1..Len(ordered) :
          /\ Origin(ordered[p]) \in 1..Len(conversation)
          /\ ordered[p] = Strip(conversation[Origin(ordered[p])])
          /\ ordered[p].role = "assistant" =>
                /\ p > 1 /\ ordered[p - 1].role = "user"
                /\ conversation[Origin(ordered[p])].associatedUserMessageId = Origin(ordered[p - 1])
    /\ \A p, q \in 1..Len(ordered) : Origin(ordered[p]) = Origin(ordered[q]) => p = q
    /\ \E p \in 1..Len(ordered) : Origin(ordered[p]) = current

\* Two messages of the conversation, one of them the answer to the other, or one.
LEMMA WithAnswerIs ==
    ASSUME WrittenInv, NEW current, NEW list, Retrieved(list, current),
           NEW k \in 1..Len(list), list[k].role = "user"
    PROVE  \/ WithAnswer(list, list[k]) = <<Strip(list[k])>>
           \/ \E a \in 1..Len(list) : /\ IsAnswer(list[a], list[k].id)
                                      /\ WithAnswer(list, list[k]) = <<Strip(list[k]), Strip(list[a])>>
<1> DEFINE answers == AnswersTo(list, list[k].id)
<1>1. Len(list) \in Nat /\ DOMAIN list = 1..Len(list)
  BY DEF Retrieved
<1>2. answers \in SUBSET (0..Len(list)) /\ \A a \in answers : a \in 1..Len(list) /\ IsAnswer(list[a], list[k].id)
  BY <1>1 DEF AnswersTo
<1>3. CASE answers = {}
  BY <1>3 DEF WithAnswer
<1>4. CASE answers # {}
  <2>1. WithAnswer(list, list[k]) = <<Strip(list[k]), Strip(list[Max(answers)])>>
    BY <1>4 DEF WithAnswer
  <2> HIDE DEF answers
  <2>2. Max(answers) \in answers
    BY <1>1, <1>2, <1>4, GreatestElement
  <2> QED BY <1>2, <2>1, <2>2
<1> QED BY <1>3, <1>4

Groups(list, current) ==
    [k \in DOMAIN list |-> IF IsKept(list, list[k], current) THEN WithAnswer(list, list[k]) ELSE <<>>]

\* A group is empty, or a user message, or that and its answer.
GroupIs(group, user) ==
    /\ group \in Seq(Stripped) /\ Len(group) \in {0, 1, 2}
    /\ Len(group) >= 1 => user.role = "user" /\ group[1] = Strip(user)
    /\ Len(group) = 2 => \E a \in 1..Len(conversation) :
           IsAnswer(conversation[a], user.id) /\ group[2] = Strip(conversation[a])

LEMMA GroupsAre ==
    ASSUME WrittenInv, NEW current, NEW list, Retrieved(list, current)
    PROVE  /\ Groups(list, current) \in Seq(Seq(Stripped)) /\ Len(Groups(list, current)) = Len(list)
           /\ \A k \in 1..Len(list) : GroupIs(Groups(list, current)[k], list[k])
           /\ \A k \in 1..Len(list) :
                 list[k].role = "user" /\ list[k].id = current => Len(Groups(list, current)[k]) >= 1
<1> DEFINE groups == Groups(list, current)
<1>1. /\ Len(list) \in Nat /\ DOMAIN list = 1..Len(list)
      /\ \A k \in 1..Len(list) : list[k].id \in 1..Len(conversation) /\ list[k] = conversation[list[k].id]
  BY DEF Retrieved
<1>2. groups = [k \in 1..Len(list) |-> IF IsKept(list, list[k], current) THEN WithAnswer(list, list[k]) ELSE <<>>]
  BY <1>1 DEF Groups
<1>3. \A k \in 1..Len(list) : Strip(list[k]) \in Stripped
  BY <1>1, StripIs
<1>4. ASSUME NEW k \in 1..Len(list)
      PROVE  /\ GroupIs(groups[k], list[k])
             /\ list[k].role = "user" /\ list[k].id = current => Len(groups[k]) >= 1
  <2>1. CASE ~IsKept(list, list[k], current)
    <3>1. groups[k] = <<>>
      BY <1>2, <2>1
    <3>2. <<>> \in Seq(Stripped) /\ Len(<<>>) = 0
      OBVIOUS
    <3>3. ~(list[k].role = "user" /\ list[k].id = current)
      BY <2>1 DEF IsKept
    <3> QED BY <3>1, <3>2, <3>3 DEF GroupIs
  <2>2. CASE IsKept(list, list[k], current)
    <3>1. groups[k] = WithAnswer(list, list[k]) /\ list[k].role = "user"
      BY <1>2, <2>2 DEF IsKept
    <3> DEFINE user == Strip(list[k])
    <3>2. user \in Stripped
      BY <1>3
    <3>3. CASE groups[k] = <<user>>
      <4> HIDE DEF user
      <4>1. <<user>> \in Seq(Stripped) /\ Len(<<user>>) = 1 /\ <<user>>[1] = user
        BY <3>2
      <4> QED BY <3>1, <3>3, <4>1 DEF GroupIs, user
    <3>4. ASSUME NEW a \in 1..Len(list), IsAnswer(list[a], list[k].id), groups[k] = <<user, Strip(list[a])>>
          PROVE  GroupIs(groups[k], list[k]) /\ Len(groups[k]) >= 1
      <4> DEFINE answer == Strip(list[a])
                 at == list[a].id
      <4>1. answer \in Stripped /\ at \in 1..Len(conversation) /\ list[a] = conversation[at]
        BY <1>1, <1>3
      <4>2. IsAnswer(conversation[at], list[k].id) /\ answer = Strip(conversation[at])
        BY <3>4, <4>1
      <4>3. groups[k] = <<user, answer>>
        BY <3>4
      <4> HIDE DEF user, answer, at
      <4>4. <<user, answer>> \in Seq(Stripped) /\ Len(<<user, answer>>) = 2
        BY <3>2, <4>1
      <4>5. <<user, answer>>[1] = user /\ <<user, answer>>[2] = answer
        OBVIOUS
      <4> QED BY <3>1, <4>1, <4>2, <4>3, <4>4, <4>5 DEF GroupIs, user
    <3> HIDE DEF groups
    <3> QED BY <3>1, <3>3, <3>4, WithAnswerIs
  <2> QED BY <2>1, <2>2
<1>5. \A k \in 1..Len(list) : groups[k] \in Seq(Stripped)
  BY <1>4 DEF GroupIs
<1>6. groups \in [1..Len(list) -> Seq(Stripped)]
  BY <1>2, <1>5
<1> HIDE DEF groups
<1>7. groups \in Seq(Seq(Stripped)) /\ Len(groups) = Len(list)
  BY <1>1, <1>6, FunctionIsSequence
<1> QED BY <1>4, <1>7 DEF groups

\* No message comes from two groups, and each comes from where it says.
Apart(groups, list) ==
    /\ \A k \in 1..Len(groups) : IsInjective(groups[k])
    /\ \A j, k \in 1..Len(groups) : j # k => Range(groups[j]) \intersect Range(groups[k]) = {}
    /\ \A k \in 1..Len(groups) : \A p \in 1..Len(groups[k]) :
          /\ Origin(groups[k][p]) \in 1..Len(conversation)
          /\ groups[k][p] = Strip(conversation[Origin(groups[k][p])])
          /\ p = 1 => groups[k][p].role = "user" /\ Origin(groups[k][p]) = list[k].id
          /\ p = 2 => /\ groups[k][p].role = "assistant"
                      /\ conversation[Origin(groups[k][p])].associatedUserMessageId = list[k].id

LEMMA GroupsApart ==
    ASSUME WrittenInv, NEW current, NEW list, Retrieved(list, current)
    PROVE  Apart(Groups(list, current), list)
<1> DEFINE groups == Groups(list, current)
           n == Len(list)
<1>1. /\ Len(groups) = n /\ \A k \in 1..n : GroupIs(groups[k], list[k])
  BY GroupsAre
<1>2. /\ n \in Nat
      /\ \A k \in 1..n : list[k].id \in 1..Len(conversation) /\ list[k] = conversation[list[k].id]
      /\ \A j, k \in 1..n : list[j].id = list[k].id => j = k
  BY DEF Retrieved
<1> HIDE DEF groups, n
<1>3. ASSUME NEW k \in 1..n, NEW p \in 1..Len(groups[k])
      PROVE  /\ p \in {1, 2} /\ Origin(groups[k][p]) \in 1..Len(conversation)
             /\ groups[k][p] = Strip(conversation[Origin(groups[k][p])])
             /\ p = 1 => groups[k][p].role = "user" /\ Origin(groups[k][p]) = list[k].id
             /\ p = 2 => /\ groups[k][p].role = "assistant"
                         /\ conversation[Origin(groups[k][p])].associatedUserMessageId = list[k].id
  <2>1. GroupIs(groups[k], list[k]) /\ Len(groups[k]) \in {1, 2} /\ p \in {1, 2}
        /\ (p = 2 => Len(groups[k]) = 2) /\ Len(groups[k]) >= 1
    <3>1. GroupIs(groups[k], list[k])
      BY <1>1
    <3>2. Len(groups[k]) \in {0, 1, 2}
      BY <3>1 DEF GroupIs
    <3>3. Len(groups[k]) # 0
      OBVIOUS
    <3>4. CASE Len(groups[k]) = 1
      BY <3>1, <3>4
    <3>5. CASE Len(groups[k]) = 2
      BY <3>1, <3>5
    <3> QED BY <3>2, <3>3, <3>4, <3>5
  <2>2. CASE p = 1
    <3>1. groups[k][p] = Strip(conversation[list[k].id]) /\ conversation[list[k].id].role = "user"
      BY <1>2, <2>1, <2>2 DEF GroupIs
    <3>2. Origin(groups[k][p]) = list[k].id /\ groups[k][p].role = "user"
      BY <1>2, <3>1, StripIs
    <3> QED BY <1>2, <2>2, <3>1, <3>2
  <2>3. CASE p = 2
    <3>1. Len(groups[k]) = 2
      BY <2>1, <2>3
    <3>2. PICK a \in 1..Len(conversation) :
              IsAnswer(conversation[a], list[k].id) /\ groups[k][2] = Strip(conversation[a])
      BY <2>1, <3>1 DEF GroupIs
    <3>3. Origin(groups[k][p]) = a /\ groups[k][p].role = "assistant"
      BY <2>3, <3>2, StripIs DEF IsAnswer
    <3> QED BY <2>3, <3>2, <3>3 DEF IsAnswer
  <2> QED BY <2>1, <2>2, <2>3
<1>4. \A k \in 1..n : groups[k] \in Seq(Stripped) /\ DOMAIN groups[k] = 1..Len(groups[k])
  BY <1>1 DEF GroupIs
<1>5. ASSUME NEW k \in 1..n PROVE IsInjective(groups[k])
  <2> SUFFICES ASSUME NEW p \in 1..Len(groups[k]), NEW q \in 1..Len(groups[k]), groups[k][p] = groups[k][q]
               PROVE  p = q
    BY <1>4 DEF IsInjective
  <2> QED BY <1>3
<1>6. ASSUME NEW j \in 1..n, NEW k \in 1..n, j # k
      PROVE  Range(groups[j]) \intersect Range(groups[k]) = {}
  <2> SUFFICES ASSUME NEW p \in 1..Len(groups[j]), NEW q \in 1..Len(groups[k]), groups[j][p] = groups[k][q]
               PROVE  FALSE
    BY <1>4 DEF Range
  <2> DEFINE e == groups[j][p]
             f == groups[k][q]
  <2>2. /\ p \in {1, 2}
        /\ p = 1 => e.role = "user" /\ Origin(e) = list[j].id
        /\ p = 2 => e.role = "assistant" /\ conversation[Origin(e)].associatedUserMessageId = list[j].id
    BY <1>3
  <2>3. /\ q \in {1, 2}
        /\ q = 1 => f.role = "user" /\ Origin(f) = list[k].id
        /\ q = 2 => f.role = "assistant" /\ conversation[Origin(f)].associatedUserMessageId = list[k].id
    BY <1>3
  <2>4. e = f
    OBVIOUS
  <2> HIDE DEF e, f
  <2>5. p = q
    BY <2>2, <2>3, <2>4
  <2>1. list[j].id = list[k].id
    BY <2>2, <2>3, <2>4, <2>5
  <2> QED BY <1>2, <1>6, <2>1
<1>7. Apart(groups, list)
  BY <1>1, <1>3, <1>5, <1>6 DEF Apart
<1> QED BY <1>7 DEF groups

LEMMA OrderedIs ==
    ASSUME WrittenInv, NEW i \in 1..Len(conversation), conversation[i].role = "user",
           NEW list, Retrieved(list, i)
    PROVE  OrderedHistory(Ordered(list, i), i)
<1> DEFINE groups == Groups(list, i)
           ordered == FlattenSeq(groups)
           n == Len(list)
<1>1. groups \in Seq(Seq(Stripped)) /\ Len(groups) = n
  BY GroupsAre
<1>2. \A k \in 1..n : list[k].role = "user" /\ list[k].id = i => Len(groups[k]) >= 1
  BY GroupsAre
<1>3a. Apart(groups, list)
  BY GroupsApart
<1>3. /\ \A k \in 1..n : IsInjective(groups[k])
      /\ \A j, k \in 1..n : j # k => Range(groups[j]) \intersect Range(groups[k]) = {}
      /\ \A k \in 1..n : \A p \in 1..Len(groups[k]) :
            /\ Origin(groups[k][p]) \in 1..Len(conversation)
            /\ groups[k][p] = Strip(conversation[Origin(groups[k][p])])
            /\ p = 1 => groups[k][p].role = "user" /\ Origin(groups[k][p]) = list[k].id
            /\ p = 2 => /\ groups[k][p].role = "assistant"
                        /\ conversation[Origin(groups[k][p])].associatedUserMessageId = list[k].id
  <2> HIDE DEF groups, n
  <2> QED BY <1>1, <1>3a DEF Apart
<1>4. \A k \in 1..n : Len(groups[k]) \in {0, 1, 2}
  BY GroupsAre DEF GroupIs
<1>5. Ordered(list, i) = ordered
  BY DEF Ordered, Groups
<1> HIDE DEF groups
<1>6. ordered \in Seq(Stripped)
  BY <1>1, FlattenType
<1>7. PICK off : Places(off, groups, ordered)
  BY <1>1, FlattenPlaces
<1>8. IsInjective(ordered)
  BY <1>1, <1>3, FlattenInjective
<1> HIDE DEF ordered, n
<1>9. DOMAIN ordered = 1..Len(ordered) /\ Len(ordered) \in Nat /\ n \in Nat
  BY <1>1, <1>6
<1>10. /\ \A m \in 1..n : \A j \in 1..Len(groups[m]) :
             off[m - 1] + j \in 1..Len(ordered) /\ ordered[off[m - 1] + j] = groups[m][j]
       /\ \A p \in 1..Len(ordered) : \E m \in 1..n : \E j \in 1..Len(groups[m]) : p = off[m - 1] + j
       /\ \A m \in 1..n : off[m - 1] \in Nat
  <2>1. off \in [0..n -> Nat] /\ \A m \in 1..n : m - 1 \in 0..n
    BY <1>1, <1>7, <1>9 DEF Places
  <2> QED BY <1>1, <1>7, <2>1 DEF Places
<1>11. ASSUME NEW p \in 1..Len(ordered)
       PROVE  /\ Origin(ordered[p]) \in 1..Len(conversation)
              /\ ordered[p] = Strip(conversation[Origin(ordered[p])])
              /\ ordered[p].role = "assistant" =>
                    /\ p > 1 /\ ordered[p - 1].role = "user"
                    /\ conversation[Origin(ordered[p])].associatedUserMessageId = Origin(ordered[p - 1])
  <2>1. PICK m \in 1..n : \E j \in 1..Len(groups[m]) : p = off[m - 1] + j
    BY <1>10
  <2>2. PICK j \in 1..Len(groups[m]) : p = off[m - 1] + j
    BY <2>1
  <2>3. ordered[p] = groups[m][j]
    BY <1>10, <2>2
  <2>4. j = 1 \/ (j = 2 /\ 1 \in 1..Len(groups[m]))
    <3>1. Len(groups[m]) \in {0, 1, 2}
      BY <1>4
    <3>2. CASE Len(groups[m]) = 0
      BY <3>2
    <3>3. CASE Len(groups[m]) = 1
      BY <3>3
    <3>4. CASE Len(groups[m]) = 2
      BY <3>4
    <3> QED BY <3>1, <3>2, <3>3, <3>4
  <2>5. CASE j = 1
    BY <1>3, <2>3, <2>5
  <2>6. CASE j = 2 /\ 1 \in 1..Len(groups[m])
    <3>1. off[m - 1] \in Nat
      BY <1>10
    <3>2. p > 1 /\ p - 1 = off[m - 1] + 1
      BY <2>2, <2>6, <3>1
    <3>3. ordered[p - 1] = groups[m][1]
      BY <1>10, <2>6, <3>2
    <3>4. groups[m][1].role = "user" /\ Origin(groups[m][1]) = list[m].id
      BY <1>3, <2>6
    <3>5. conversation[Origin(groups[m][j])].associatedUserMessageId = list[m].id
      BY <1>3, <2>6
    <3>6. Origin(groups[m][j]) \in 1..Len(conversation) /\ groups[m][j] = Strip(conversation[Origin(groups[m][j])])
      BY <1>3
    <3> QED BY <2>3, <3>2, <3>3, <3>4, <3>5, <3>6
  <2> QED BY <2>4, <2>5, <2>6
<1>12. ASSUME NEW p \in 1..Len(ordered), NEW q \in 1..Len(ordered), Origin(ordered[p]) = Origin(ordered[q])
       PROVE  p = q
  <2>1. ordered[p] = ordered[q]
    BY <1>11, <1>12
  <2> QED BY <1>8, <1>9, <2>1 DEF IsInjective
<1>13. \E p \in 1..Len(ordered) : Origin(ordered[p]) = i
  <2>1. PICK k \in 1..n : list[k].id = i /\ list[k] = conversation[i]
    BY DEF Retrieved, n
  <2>2. Len(groups[k]) >= 1 /\ Len(groups[k]) \in {0, 1, 2}
    BY <1>2, <1>4, <2>1
  <2>3. 1 \in 1..Len(groups[k])
    BY <2>2
  <2>4. off[k - 1] + 1 \in 1..Len(ordered) /\ ordered[off[k - 1] + 1] = groups[k][1]
    BY <1>10, <2>3
  <2>5. Origin(groups[k][1]) = i
    BY <1>3, <2>1, <2>3
  <2> QED BY <2>4, <2>5
<1>14. OrderedHistory(ordered, i)
  BY <1>6, <1>11, <1>12, <1>13 DEF OrderedHistory
<1> QED BY <1>5, <1>14

-----------------------------------------------------------------------------
(* What is squashed. *)

\* The function that Squashed defines.
Squashes(f, n, ms) ==
    f = [k \in 0..n |-> IF k = 0 THEN <<>> ELSE Squash(f[k - 1], ms[k])]

LEMMA SquashesStep ==
    ASSUME NEW n \in Nat, NEW ms, NEW f, Squashes(f, n, ms)
    PROVE  f[0] = <<>> /\ \A m \in 0..(n - 1) : f[m + 1] = Squash(f[m], ms[m + 1])
<1>1. \A k \in 0..n : f[k] = IF k = 0 THEN <<>> ELSE Squash(f[k - 1], ms[k])
  BY DEF Squashes
<1>2. \A m \in 0..(n - 1) : m + 1 \in 0..n /\ (m + 1) - 1 = m /\ m + 1 # 0
  OBVIOUS
<1> QED BY <1>1, <1>2

LEMMA SquashesExists ==
    ASSUME NEW ms, NEW n \in Nat
    PROVE  \E f : Squashes(f, n, ms)
<1> DEFINE T == {m \in 0..n : \E f : Squashes(f, m, ms)}
<1>1. 0 \in T
  <2> DEFINE f == [k \in 0..0 |-> <<>>]
  <2>1. Squashes(f, 0, ms)
    BY DEF Squashes
  <2> HIDE DEF f
  <2> QED BY <2>1
<1>2. ASSUME NEW m \in 0..(n - 1), m \in T PROVE m + 1 \in T
  <2>1. PICK f : Squashes(f, m, ms)
    BY <1>2
  <2> DEFINE next == Squash(f[m], ms[m + 1])
             g == [k \in 0..(m + 1) |-> IF k = m + 1 THEN next ELSE f[k]]
  <2>2. \A k \in 0..m : f[k] = IF k = 0 THEN <<>> ELSE Squash(f[k - 1], ms[k])
    BY <2>1 DEF Squashes
  <2> HIDE DEF next
  <2>3. g[m + 1] = next /\ \A k \in 0..m : g[k] = f[k]
    OBVIOUS
  <2>4. \A k \in 1..(m + 1) : k - 1 \in 0..m
    OBVIOUS
  <2>5. g = [k \in 0..(m + 1) |-> g[k]]
    OBVIOUS
  <2> HIDE DEF g
  <2>6. \A k \in 0..(m + 1) : g[k] = IF k = 0 THEN <<>> ELSE Squash(g[k - 1], ms[k])
    <3> SUFFICES ASSUME NEW k \in 0..(m + 1)
                 PROVE  g[k] = IF k = 0 THEN <<>> ELSE Squash(g[k - 1], ms[k])
      OBVIOUS
    <3>1. CASE k = m + 1
      <4>1. k # 0 /\ k - 1 = m /\ m \in 0..m
        BY <3>1
      <4> QED BY <2>3, <3>1, <4>1 DEF next
    <3>2. CASE k = 0
      BY <2>2, <2>3, <3>2
    <3>3. CASE k # 0 /\ k # m + 1
      <4>1. k \in 0..m /\ k - 1 \in 0..m
        BY <3>3
      <4> QED BY <2>2, <2>3, <3>3, <4>1
    <3> QED BY <3>1, <3>2, <3>3
  <2>7. Squashes(g, m + 1, ms)
    BY <2>5, <2>6 DEF Squashes
  <2> QED BY <2>7
<1> HIDE DEF T
<1>3. n \in T
  BY <1>1, <1>2, InductionUpTo
<1> QED BY <1>3 DEF T

LEMMA SquashedIsLast ==
    ASSUME NEW ms, NEW n \in Nat
    PROVE  \E f : Squashes(f, n, ms) /\ Squashed(ms, n) = f[n]
<1>1. \E f : f = [k \in 0..n |-> IF k = 0 THEN <<>> ELSE Squash(f[k - 1], ms[k])]
  BY SquashesExists DEF Squashes
<1> DEFINE squashed == CHOOSE f :
               f = [k \in 0..n |-> IF k = 0 THEN <<>> ELSE Squash(f[k - 1], ms[k])]
<1>2. Squashes(squashed, n, ms)
  BY <1>1 DEF Squashes
<1>3. Squashed(ms, n) = squashed[n]
  BY DEF Squashed
<1> QED BY <1>2, <1>3

LEMMA SquashedNone == ASSUME NEW ms PROVE Squashed(ms, 0) = <<>>
<1>1. PICK f : Squashes(f, 0, ms) /\ Squashed(ms, 0) = f[0]
  BY SquashedIsLast
<1> QED BY <1>1, SquashesStep

\* A message more is squashed into what the messages before it made.
LEMMA SquashedNext ==
    ASSUME NEW ms, NEW n \in Nat
    PROVE  Squashed(ms, n + 1) = Squash(Squashed(ms, n), ms[n + 1])
<1>1. PICK f : Squashes(f, n, ms) /\ Squashed(ms, n) = f[n]
  BY SquashedIsLast
<1>2. PICK g : Squashes(g, n + 1, ms) /\ Squashed(ms, n + 1) = g[n + 1]
  BY SquashedIsLast
<1>3. f[0] = <<>> /\ \A m \in 0..(n - 1) : f[m + 1] = Squash(f[m], ms[m + 1])
  BY <1>1, SquashesStep
<1>4. g[0] = <<>> /\ \A m \in 0..n : g[m + 1] = Squash(g[m], ms[m + 1])
  <2>1. n + 1 \in Nat /\ (n + 1) - 1 = n
    OBVIOUS
  <2> QED BY <1>2, <2>1, SquashesStep
<1> DEFINE T == {m \in 0..n : f[m] = g[m]}
<1>5. 0 \in T
  BY <1>3, <1>4
<1>6. ASSUME NEW m \in 0..(n - 1), m \in T PROVE m + 1 \in T
  <2>1. m \in 0..n /\ m + 1 \in 0..n
    OBVIOUS
  <2> QED BY <1>3, <1>4, <1>6, <2>1
<1> HIDE DEF T
<1>7. n \in T
  <2>1. \A m \in 0..n : m \in T
    BY <1>5, <1>6, InductionUpTo
  <2> QED BY <2>1
<1>8. f[n] = g[n]
  BY <1>7 DEF T
<1> QED BY <1>1, <1>2, <1>4, <1>8

\* The blocks of messages, in their order.
BlocksIn(ms) == FlattenSeq([k \in DOMAIN ms |-> ms[k].content])

LEMMA ContentsAre ==
    ASSUME NEW ms \in Seq(Stripped)
    PROVE  /\ [k \in DOMAIN ms |-> ms[k].content] \in Seq(Seq(Blocks))
           /\ Len([k \in DOMAIN ms |-> ms[k].content]) = Len(ms)
<1> DEFINE contents == [k \in DOMAIN ms |-> ms[k].content]
<1>1. Len(ms) \in Nat /\ DOMAIN ms = 1..Len(ms) /\ \A k \in 1..Len(ms) : ms[k].content \in Seq(Blocks)
  <2>1. \A m \in Stripped : m.content \in Seq(Blocks)
    BY DEF Stripped
  <2> QED BY <2>1
<1>2. contents \in [1..Len(ms) -> Seq(Blocks)]
  BY <1>1
<1> HIDE DEF contents
<1>3. contents \in Seq(Seq(Blocks)) /\ Len(contents) = Len(ms)
  BY <1>1, <1>2, FunctionIsSequence
<1> QED BY <1>3 DEF contents

\* A message more puts its blocks behind the others.
LEMMA BlocksInAppend ==
    ASSUME NEW ms \in Seq(Stripped), NEW m \in Stripped
    PROVE  BlocksIn(Append(ms, m)) = BlocksIn(ms) \o m.content
<1> DEFINE more == Append(ms, m)
           contents == [k \in DOMAIN ms |-> ms[k].content]
           all == [k \in DOMAIN more |-> more[k].content]
           n == Len(ms)
<1>1. /\ n \in Nat /\ DOMAIN ms = 1..n /\ DOMAIN more = 1..(n + 1) /\ more[n + 1] = m
      /\ \A k \in 1..n : more[k] = ms[k]
  OBVIOUS
<1>2. contents \in Seq(Seq(Blocks)) /\ Len(contents) = n
  BY ContentsAre
<1>3. m.content \in Seq(Blocks)
  BY DEF Stripped
<1>4. /\ all = [k \in 1..(n + 1) |-> all[k]] /\ all[n + 1] = m.content
      /\ \A k \in 1..n : all[k] = contents[k]
  BY <1>1
<1> HIDE DEF contents, all, more, n
<1>5. \A k \in 1..(n + 1) : all[k] = IF k = n + 1 THEN m.content ELSE contents[k]
  <2>1. \A k \in 1..(n + 1) : k = n + 1 \/ k \in 1..n
    BY <1>1
  <2>2. n + 1 \notin 1..n
    BY <1>1
  <2> QED BY <1>4, <2>1, <2>2
<1>6. Append(contents, m.content) =
          [k \in 1..(Len(contents) + 1) |-> IF k = Len(contents) + 1 THEN m.content ELSE contents[k]]
  BY <1>2, <1>3, AppendIsFunction
<1>7. all = Append(contents, m.content)
  BY <1>2, <1>4, <1>5, <1>6
<1>8. FlattenSeq(Append(contents, m.content)) = FlattenSeq(contents) \o m.content
  BY <1>2, <1>3, FlattenAppend
<1> QED BY <1>7, <1>8 DEF BlocksIn, more, all, contents

LEMMA NonToolContentIs ==
    ASSUME NEW content \in Seq(Blocks)
    PROVE  /\ NonToolContent(content) \in Seq(Blocks)
           /\ \A b : b \in Range(NonToolContent(content)) <=> b \in Range(content) /\ b.kind = "text"
           /\ IsInjective(content) => IsInjective(NonToolContent(content))
<1> DEFINE places == {k \in DOMAIN content : IsNonToolBlock(content[k])}
<1>1. NonToolContent(content) = Those(content, places)
  BY DEF NonToolContent
<1>2. /\ DOMAIN content = 1..Len(content)
      /\ \A k : k \in places <=> k \in 1..Len(content) /\ content[k].kind = "text"
  BY DEF IsNonToolBlock
<1> HIDE DEF places
<1>3. /\ Those(content, places) \in Seq(Blocks)
      /\ \A e : e \in Range(Those(content, places)) <=>
            \E k \in 1..Len(content) : k \in places /\ e = content[k]
      /\ IsInjective(content) => IsInjective(Those(content, places))
  BY ThoseAre
<1>4. \A b : b \in Range(content) <=> \E k \in 1..Len(content) : b = content[k]
  BY <1>2 DEF Range
<1>5. \A b : b \in Range(NonToolContent(content)) <=> b \in Range(content) /\ b.kind = "text"
  BY <1>1, <1>2, <1>3, <1>4
<1> QED BY <1>1, <1>3, <1>5

\* What is squashed are the blocks that are not about tools.
LEMMA SquashIs ==
    ASSUME NEW sq \in Seq(Stripped), NEW m \in Stripped
    PROVE  /\ Squash(sq, m) \in Seq(Stripped)
           /\ BlocksIn(Squash(sq, m)) = BlocksIn(sq) \o NonToolContent(m.content)
<1> DEFINE content == NonToolContent(m.content)
           n == Len(sq)
<1>1. m.content \in Seq(Blocks) /\ m.role \in {"user", "assistant"}
  BY DEF Stripped
<1>2. content \in Seq(Blocks)
  BY <1>1, NonToolContentIs
<1>3. BlocksIn(sq) \in Seq(Blocks)
  BY ContentsAre, FlattenType DEF BlocksIn
<1>4. Squash(sq, m) = IF content = <<>> THEN sq
                      ELSE IF sq # <<>> /\ Last(sq).role = m.role
                      THEN [sq EXCEPT ![n].content = @ \o content]
                      ELSE Append(sq, [m EXCEPT !.content = content])
  BY DEF Squash
<1> HIDE DEF content
<1>5. CASE content = <<>>
  BY <1>3, <1>4, <1>5 DEF content
<1>6. CASE content # <<>> /\ sq # <<>> /\ Last(sq).role = m.role
  <2> DEFINE front == [k \in 1..(n - 1) |-> sq[k]]
             last == sq[n]
             longer == [last EXCEPT !.content = @ \o content]
             more == [sq EXCEPT ![n].content = @ \o content]
  <2>1. n \in Nat /\ n > 0 /\ last \in Stripped /\ n - 1 \in Nat
    BY <1>6
  <2>2. front \in Seq(Stripped) /\ Len(front) = n - 1
    BY <2>1
  <2>3. longer \in Stripped /\ longer.content = last.content \o content /\ last.content \in Seq(Blocks)
    <3>1. last.content \in Seq(Blocks) /\ last = [role |-> last.role, content |-> last.content]
          /\ last.role \in {"user", "assistant"}
      BY <2>1 DEF Stripped
    <3> DEFINE both == last.content \o content
    <3>2. both \in Seq(Blocks)
      BY <1>2, <3>1
    <3> HIDE DEF both, last
    <3>3. [last EXCEPT !.content = both] = [role |-> last.role, content |-> both]
      BY <3>1
    <3>4. longer = [role |-> last.role, content |-> both]
      BY <3>3 DEF both
    <3>5. longer \in Stripped
      BY <3>1, <3>2, <3>4 DEF Stripped
    <3> HIDE DEF longer
    <3> QED BY <3>1, <3>4, <3>5 DEF both
  <2>4. more = [k \in 1..n |-> IF k = n THEN longer ELSE sq[k]] /\ sq = [k \in 1..n |-> sq[k]]
    <3>1. DOMAIN sq = 1..n
      OBVIOUS
    <3>2. sq = [k \in 1..n |-> sq[k]]
      BY <3>1
    <3> HIDE DEF n
    <3>3. more = [k \in DOMAIN sq |-> IF k = n THEN longer ELSE sq[k]]
      BY <2>1, <3>1, <3>2
    <3> QED BY <3>1, <3>2, <3>3
  <2> HIDE DEF last, longer, more
  <2>5. /\ Append(front, last) = [k \in 1..n |-> IF k = n THEN last ELSE front[k]]
        /\ Append(front, longer) = [k \in 1..n |-> IF k = n THEN longer ELSE front[k]]
    <3>1. Len(front) + 1 = n
      BY <2>1, <2>2
    <3> HIDE DEF front, n
    <3> QED BY <2>2, <2>1, <2>3, <3>1, AppendIsFunction
  <2>6. \A k \in 1..n : k # n => front[k] = sq[k]
    BY <2>1
  <2>7. sq = Append(front, last) /\ more = Append(front, longer)
    BY <2>4, <2>5, <2>6 DEF last
  <2> HIDE DEF front, n
  <2>8. /\ BlocksIn(Append(front, last)) = BlocksIn(front) \o last.content
        /\ BlocksIn(Append(front, longer)) = BlocksIn(front) \o longer.content
    BY <2>1, <2>2, <2>3, BlocksInAppend
  <2>9. BlocksIn(front) \in Seq(Blocks)
    BY <2>2, ContentsAre, FlattenType DEF BlocksIn
  <2>10. (BlocksIn(front) \o last.content) \o content = BlocksIn(front) \o (last.content \o content)
    <3> DEFINE before == BlocksIn(front)
               own == last.content
    <3>1. before \in Seq(Blocks) /\ own \in Seq(Blocks)
      BY <2>3, <2>9
    <3> HIDE DEF before, own
    <3>2. (before \o own) \o content = before \o (own \o content)
      BY <1>2, <3>1, ConcatAssociative
    <3> QED BY <3>2 DEF before, own
  <2>11. Squash(sq, m) = more /\ more \in Seq(Stripped)
    <3>1. Append(front, longer) \in Seq(Stripped)
      BY <2>2, <2>3
    <3> QED BY <1>4, <1>6, <2>7, <3>1 DEF more
  <2> QED BY <2>3, <2>7, <2>8, <2>10, <2>11 DEF content
<1>7. CASE content # <<>> /\ ~(sq # <<>> /\ Last(sq).role = m.role)
  <2> DEFINE cut == [m EXCEPT !.content = content]
  <2>1. cut \in Stripped /\ cut.content = content
    BY <1>1, <1>2 DEF Stripped
  <2> HIDE DEF cut
  <2>2. Squash(sq, m) = Append(sq, cut)
    BY <1>4, <1>7 DEF cut
  <2>3. BlocksIn(Append(sq, cut)) = BlocksIn(sq) \o cut.content
    BY <2>1, BlocksInAppend
  <2> QED BY <2>1, <2>2, <2>3 DEF content
<1> QED BY <1>5, <1>6, <1>7

\* What the first messages leave.
NonTool(ordered) == [k \in DOMAIN ordered |-> NonToolContent(ordered[k].content)]

LEMMA NonToolIs ==
    ASSUME NEW ordered \in Seq(Stripped)
    PROVE  NonTool(ordered) \in Seq(Seq(Blocks)) /\ Len(NonTool(ordered)) = Len(ordered)
<1>1. /\ Len(ordered) \in Nat /\ DOMAIN ordered = 1..Len(ordered)
      /\ \A k \in 1..Len(ordered) : ordered[k].content \in Seq(Blocks)
  <2>1. \A m \in Stripped : m.content \in Seq(Blocks)
    BY DEF Stripped
  <2> QED BY <2>1
<1>2. \A k \in 1..Len(ordered) : NonToolContent(ordered[k].content) \in Seq(Blocks)
  BY <1>1, NonToolContentIs
<1>3. NonTool(ordered) \in [1..Len(ordered) -> Seq(Blocks)]
  BY <1>1, <1>2 DEF NonTool
<1> QED BY <1>1, <1>3, FunctionIsSequence

LEMMA SquashedIs ==
    ASSUME NEW ordered \in Seq(Stripped), NEW n \in 0..Len(ordered)
    PROVE  /\ Squashed(ordered, n) \in Seq(Stripped)
           /\ BlocksIn(Squashed(ordered, n)) = FlattenSeq([k \in 1..n |-> NonTool(ordered)[k]])
<1> DEFINE seqs == NonTool(ordered)
           Prefix(m) == [k \in 1..m |-> seqs[k]]
           T == {m \in 0..n : /\ Squashed(ordered, m) \in Seq(Stripped)
                              /\ BlocksIn(Squashed(ordered, m)) = FlattenSeq(Prefix(m))}
<1>1. seqs \in Seq(Seq(Blocks)) /\ Len(seqs) = Len(ordered)
  BY NonToolIs
<1>2. n \in Nat /\ Len(ordered) \in Nat
  OBVIOUS
<1>3. \A k \in 1..Len(ordered) : seqs[k] = NonToolContent(ordered[k].content) /\ ordered[k] \in Stripped
  BY DEF NonTool
<1> HIDE DEF seqs
<1>4. 0 \in T
  <2>1. Squashed(ordered, 0) = <<>>
    BY SquashedNone
  <2>2. Prefix(0) = <<>> /\ [k \in DOMAIN <<>> |-> <<>>[k].content] = <<>> /\ <<>> \in Seq(Stripped)
    OBVIOUS
  <2>3. BlocksIn(<<>>) = <<>> /\ FlattenSeq(Prefix(0)) = <<>>
    BY <2>2, FlattenEmpty DEF BlocksIn
  <2> DEFINE nothing == Squashed(ordered, 0)
             sofar == FlattenSeq(Prefix(0))
  <2>4. nothing \in Seq(Stripped) /\ BlocksIn(nothing) = sofar
    BY <2>1, <2>2, <2>3
  <2>5. 0 \in 0..n
    BY <1>2
  <2> HIDE DEF Prefix
  <2> QED BY <2>4, <2>5
<1>5. ASSUME NEW m \in 0..(n - 1), m \in T PROVE m + 1 \in T
  <2> DEFINE sq == Squashed(ordered, m)
             e == ordered[m + 1]
  <2>1. m \in Nat /\ m + 1 \in 1..Len(ordered) /\ m < Len(seqs) /\ m + 1 \in 0..n
    BY <1>1, <1>2
  <2>2. sq \in Seq(Stripped) /\ BlocksIn(sq) = FlattenSeq(Prefix(m))
    BY <1>5
  <2>3. Squashed(ordered, m + 1) = Squash(sq, e)
    BY <2>1, SquashedNext
  <2>4. e \in Stripped /\ seqs[m + 1] = NonToolContent(e.content)
    BY <1>3, <2>1
  <2>5. Prefix(m) \in Seq(Seq(Blocks)) /\ Prefix(m + 1) = Append(Prefix(m), seqs[m + 1]) /\ seqs[m + 1] \in Seq(Blocks)
    BY <1>1, <2>1, PrefixAppend
  <2> HIDE DEF sq, e, Prefix
  <2>6. Squash(sq, e) \in Seq(Stripped) /\ BlocksIn(Squash(sq, e)) = BlocksIn(sq) \o NonToolContent(e.content)
    BY <2>2, <2>4, SquashIs
  <2>7. FlattenSeq(Append(Prefix(m), seqs[m + 1])) = FlattenSeq(Prefix(m)) \o seqs[m + 1]
    BY <2>5, FlattenAppend
  <2> QED BY <2>1, <2>2, <2>3, <2>4, <2>5, <2>6, <2>7
<1> HIDE DEF T
<1>6. n \in T
  <2>1. \A m \in 0..n : m \in T
    BY <1>2, <1>4, <1>5, InductionUpTo
  <2> QED BY <1>2, <2>1
<1> QED BY <1>6 DEF T, seqs

\* What each message leaves in the history.
Cuts(ordered) ==
    [k \in DOMAIN ordered |->
        IF k < CurrentTurnBegins(ordered) THEN NonToolContent(ordered[k].content) ELSE ordered[k].content]

\* The current turn begins at a user message with a text; behind it are none.
LEMMA CurrentTurnIs ==
    ASSUME NEW ordered \in Seq(Stripped)
    PROVE  /\ CurrentTurnBegins(ordered) \in 0..Len(ordered)
           /\ \A k \in 1..Len(ordered) :
                 ordered[k].role = "user" /\ (\E b \in Range(ordered[k].content) : b.kind = "text")
                     => k <= CurrentTurnBegins(ordered)
           /\ CurrentTurnBegins(ordered) # 0 =>
                 /\ ordered[CurrentTurnBegins(ordered)].role = "user"
                 /\ \E b \in Range(ordered[CurrentTurnBegins(ordered)].content) : b.kind = "text"
<1> DEFINE texts == {k \in DOMAIN ordered : ordered[k].role = "user" /\ \E b \in Range(ordered[k].content) : IsNonToolBlock(b)}
           T == {0} \union texts
<1>1. CurrentTurnBegins(ordered) = Max(T)
  BY DEF CurrentTurnBegins
<1>2. DOMAIN ordered = 1..Len(ordered) /\ Len(ordered) \in Nat
  OBVIOUS
<1>3. \A k : k \in texts <=> k \in 1..Len(ordered) /\ ordered[k].role = "user"
                             /\ \E b \in Range(ordered[k].content) : b.kind = "text"
  BY <1>2 DEF IsNonToolBlock
<1> HIDE DEF texts
<1>4. T \in SUBSET (0..Len(ordered)) /\ T # {}
  BY <1>2, <1>3
<1>5. Max(T) \in T /\ \A y \in T : y <= Max(T)
  BY <1>2, <1>4, GreatestElement
<1> QED BY <1>1, <1>2, <1>3, <1>4, <1>5

LEMMA CutsAre ==
    ASSUME NEW ordered \in Seq(Stripped)
    PROVE  /\ Cuts(ordered) \in Seq(Seq(Blocks)) /\ Len(Cuts(ordered)) = Len(ordered)
           /\ SquashNonCurrentTurns(ordered) \in Seq(Stripped)
           /\ BlocksIn(SquashNonCurrentTurns(ordered)) = FlattenSeq(Cuts(ordered))
<1> DEFINE begins == CurrentTurnBegins(ordered)
           cuts == Cuts(ordered)
           n == Len(ordered)
           contents == [k \in DOMAIN ordered |-> ordered[k].content]
<1>1. n \in Nat /\ DOMAIN ordered = 1..n /\ begins \in 0..n
  BY CurrentTurnIs
<1>2. NonTool(ordered) \in Seq(Seq(Blocks)) /\ Len(NonTool(ordered)) = n
  BY NonToolIs
<1>3. contents \in Seq(Seq(Blocks)) /\ Len(contents) = n
  BY ContentsAre
<1>4. cuts = [k \in 1..n |-> IF k < begins THEN NonTool(ordered)[k] ELSE contents[k]]
  BY <1>1 DEF Cuts, NonTool
<1>5. contents = [k \in 1..n |-> contents[k]] /\ BlocksIn(ordered) = FlattenSeq(contents)
  BY <1>1 DEF BlocksIn
<1> HIDE DEF begins, cuts, n, contents
<1>6. cuts \in [1..n -> Seq(Blocks)]
  <2>1. \A k \in 1..n : NonTool(ordered)[k] \in Seq(Blocks) /\ contents[k] \in Seq(Blocks)
    BY <1>2, <1>3
  <2> QED BY <1>4, <2>1
<1>7. cuts \in Seq(Seq(Blocks)) /\ Len(cuts) = n
  BY <1>1, <1>6, FunctionIsSequence
<1>8. CASE begins <= 1
  <2>1. \A k \in 1..n : ~(k < begins)
    BY <1>1, <1>8
  <2>2. cuts = contents
    BY <1>4, <1>5, <2>1
  <2>3. SquashNonCurrentTurns(ordered) = ordered
    BY <1>8 DEF SquashNonCurrentTurns, begins
  <2> QED BY <1>5, <1>7, <2>2, <2>3 DEF cuts, n
<1>9. CASE begins > 1
  <2> DEFINE m == begins - 1
             sq == Squashed(ordered, m)
             rest == SubSeq(ordered, begins, n)
             before == [k \in DOMAIN sq |-> sq[k].content]
             after == [k \in DOMAIN rest |-> rest[k].content]
             prefix == [k \in 1..m |-> NonTool(ordered)[k]]
             history == sq \o rest
             all == [k \in DOMAIN history |-> history[k].content]
  <2>1. m \in 0..n /\ m \in Nat /\ begins = m + 1
    BY <1>1, <1>9
  <2>2. SquashNonCurrentTurns(ordered) = history
    <3>1. ~(begins <= 1)
      BY <1>1, <1>9
    <3>2. SquashNonCurrentTurns(ordered) =
              IF begins <= 1 THEN ordered ELSE Squashed(ordered, begins - 1) \o SubSeq(ordered, begins, n)
      BY DEF SquashNonCurrentTurns, begins, n
    <3> QED BY <3>1, <3>2
  <2>3. sq \in Seq(Stripped) /\ BlocksIn(sq) = FlattenSeq(prefix)
    BY <2>1, SquashedIs DEF n
  <2>4. rest \in Seq(Stripped) /\ Len(rest) = n - m /\ \A k \in 1..(n - m) : rest[k] = ordered[m + k]
    <3>1. \A k \in begins..n : ordered[k] \in Stripped
      BY <1>1, <2>1
    <3> QED BY <1>1, <2>1, <3>1, SubSeqProperties
  <2>5. before \in Seq(Seq(Blocks)) /\ Len(before) = Len(sq) /\ BlocksIn(sq) = FlattenSeq(before)
    BY <2>3, ContentsAre DEF BlocksIn
  <2>6. after \in Seq(Seq(Blocks)) /\ Len(after) = n - m
    BY <2>4, ContentsAre
  <2>7. history \in Seq(Stripped)
    BY <2>3, <2>4
  <2>8. \A k \in 1..(n - m) : after[k] = contents[m + k]
    <3>1. \A k \in 1..(n - m) : k \in DOMAIN rest /\ m + k \in DOMAIN ordered
      BY <1>1, <2>1, <2>4
    <3> QED BY <2>4, <3>1 DEF contents
  <2> HIDE DEF m, sq, rest
  <2>9. all = before \o after
    <3>1. /\ DOMAIN history = 1..(Len(sq) + Len(rest)) /\ Len(sq) \in Nat /\ Len(rest) \in Nat
          /\ \A k \in 1..(Len(sq) + Len(rest)) : history[k] = IF k <= Len(sq) THEN sq[k] ELSE rest[k - Len(sq)]
      BY <2>3, <2>4
    <3>2. \A k \in 1..(Len(sq) + Len(rest)) : k <= Len(sq) => k \in DOMAIN sq
      BY <2>3, <3>1
    <3>3. \A k \in 1..(Len(sq) + Len(rest)) : ~(k <= Len(sq)) => k - Len(sq) \in DOMAIN rest
      BY <2>4, <3>1
    <3>4. all = [k \in 1..(Len(sq) + Len(rest)) |-> history[k].content]
      BY <3>1
    <3>5. \A k \in 1..(Len(sq) + Len(rest)) :
              history[k].content = IF k <= Len(sq) THEN before[k] ELSE after[k - Len(sq)]
      BY <3>1, <3>2, <3>3
    <3> HIDE DEF all, history
    <3>6. Len(after) = Len(rest)
      BY <2>4, <2>6
    <3> HIDE DEF before, after
    <3>7. before \o after = [k \in 1..(Len(sq) + Len(rest)) |-> IF k <= Len(sq) THEN before[k] ELSE after[k - Len(sq)]]
      <4>1. before \in Seq(Seq(Blocks))
        BY <2>5
      <4>2. after \in Seq(Seq(Blocks))
        BY <2>6
      <4>3. before \o after = [k \in 1..(Len(before) + Len(after)) |->
                                  IF k <= Len(before) THEN before[k] ELSE after[k - Len(before)]]
        BY ONLY <4>1, <4>2, ConcatIsFunction
      <4>4. Len(before) = Len(sq)
        BY <2>5
      <4> QED BY <3>6, <4>3, <4>4
    <3> QED BY <3>4, <3>5, <3>7
  <2>10. BlocksIn(history) = FlattenSeq(all)
    BY DEF BlocksIn
  <2> HIDE DEF history, all, before, after
  <2>11. FlattenSeq(before \o after) = FlattenSeq(before) \o FlattenSeq(after)
    BY <2>5, <2>6, FlattenConcat
  <2>12. prefix \in Seq(Seq(Blocks)) /\ Len(prefix) = m
    <3>1. prefix \in [1..m -> Seq(Blocks)]
      BY <1>1, <1>2, <2>1
    <3> HIDE DEF prefix
    <3> QED BY <2>1, <3>1, FunctionIsSequence
  <2>13. cuts = prefix \o after
    <3>1. \A k \in 1..n : k < begins => k \in 1..m /\ prefix[k] = NonTool(ordered)[k]
      BY <1>1, <2>1
    <3>2. \A k \in 1..n : ~(k < begins) => k - m \in 1..(n - m) /\ contents[k] = after[k - m]
      <4>1. \A k \in 1..n : ~(k < begins) => k - m \in 1..(n - m) /\ m + (k - m) = k
        BY <1>1, <2>1
      <4> QED BY <2>8, <4>1
    <3>3. \A k \in 1..n : k < begins <=> k <= m
      BY <1>1, <2>1
    <3> HIDE DEF prefix
    <3>4. cuts = [k \in 1..n |-> IF k <= m THEN prefix[k] ELSE after[k - m]]
      BY <1>4, <3>1, <3>2, <3>3
    <3>5. m + (n - m) = n
      BY <1>1, <2>1
    <3>6. prefix \o after = [k \in 1..n |-> IF k <= m THEN prefix[k] ELSE after[k - m]]
      <4>1. prefix \in Seq(Seq(Blocks))
        BY <2>12
      <4>2. after \in Seq(Seq(Blocks))
        BY <2>6
      <4>3. prefix \o after = [k \in 1..(Len(prefix) + Len(after)) |->
                                  IF k <= Len(prefix) THEN prefix[k] ELSE after[k - Len(prefix)]]
        BY ONLY <4>1, <4>2, ConcatIsFunction
      <4>4. Len(prefix) = m /\ Len(prefix) + Len(after) = n
        BY <2>6, <2>12, <3>5
      <4> QED BY <4>3, <4>4
    <3> QED BY <3>4, <3>6
  <2> HIDE DEF prefix
  <2>14. FlattenSeq(prefix \o after) = FlattenSeq(prefix) \o FlattenSeq(after)
    BY <2>6, <2>12, FlattenConcat
  <2>15. BlocksIn(history) = FlattenSeq(cuts)
    BY <2>3, <2>5, <2>9, <2>10, <2>11, <2>13, <2>14
  <2> QED BY <1>7, <2>2, <2>7, <2>15 DEF cuts, n
<1> QED BY <1>1, <1>8, <1>9

-----------------------------------------------------------------------------
(* What is sent. *)

\* The history of a message that is being answered is that of its ordered messages.
LEMMA HistoryIs ==
    ASSUME WrittenInv, NEW i \in 1..Len(conversation), conversation[i].role = "user"
    PROVE  /\ OrderedHistory(Ordered(Retrieve(i), i), i)
           /\ GetMessageHistory(i) = SquashNonCurrentTurns(Ordered(Retrieve(i), i))
<1>1. Retrieved(Retrieve(i), i)
  BY RetrieveIs
<1>2. OrderedHistory(Ordered(Retrieve(i), i), i)
  BY <1>1, OrderedIs
<1> QED BY <1>2 DEF GetMessageHistory

\* A message leaves blocks of its own, each once, and all of its text.
LEMMA CutIs ==
    ASSUME WrittenInv, NEW i, NEW ordered, OrderedHistory(ordered, i), NEW p \in 1..Len(ordered)
    PROVE  /\ IsInjective(Cuts(ordered)[p])
           /\ \A b \in Range(Cuts(ordered)[p]) :
                 /\ b.of = Origin(ordered[p])
                 /\ b \in Range(conversation[Origin(ordered[p])].content)
           /\ \A b \in Range(conversation[Origin(ordered[p])].content) :
                 b.kind = "text" => b \in Range(Cuts(ordered)[p])
<1> DEFINE at == Origin(ordered[p])
           content == conversation[at].content
<1>1. /\ at \in 1..Len(conversation) /\ ordered[p] = Strip(conversation[at]) /\ p \in DOMAIN ordered
  BY DEF OrderedHistory
<1>2. /\ content \in Seq(Blocks) /\ IsInjective(content)
      /\ \A j \in 1..Len(content) : content[j].of = at
  BY <1>1, ContentWritten
<1>3. ordered[p].content = content
  BY <1>1, StripIs
<1>4. Cuts(ordered)[p] = IF p < CurrentTurnBegins(ordered) THEN NonToolContent(content) ELSE content
  BY <1>1, <1>3 DEF Cuts
<1> HIDE DEF at, content
<1>5. \A b \in Range(content) : b.of = at
  BY <1>2 DEF Range
<1>6. /\ \A b : b \in Range(NonToolContent(content)) <=> b \in Range(content) /\ b.kind = "text"
      /\ IsInjective(NonToolContent(content))
  BY <1>2, NonToolContentIs
<1>7. Cuts(ordered)[p] = NonToolContent(content) \/ Cuts(ordered)[p] = content
  BY <1>4
<1> QED BY <1>2, <1>5, <1>6, <1>7 DEF at, content

\* Of blocks sent from messages: an answer comes behind its question, with no
\* other in between.
Question(b, ms) == b.kind = "text" /\ ms[b.of].role = "user"

Follow(blocks, ms) ==
    \A k \in 1..Len(blocks) :
        (\E c \in Range(blocks) : Question(c, ms) /\ c.of = ms[blocks[k].of].associatedUserMessageId) =>
            \E j \in 1..k :
                /\ Question(blocks[j], ms) /\ blocks[j].of = ms[blocks[k].of].associatedUserMessageId
                /\ \A l \in (j + 1)..k : ~Question(blocks[l], ms)

SentWell(current, blocks, ms) ==
    /\ blocks \in Seq(Blocks) /\ IsInjective(blocks)
    /\ \A k \in 1..Len(blocks) : blocks[k].of \in 1..Len(ms)
    /\ current # 0 => \A b \in Range(ms[current].content) :
                          b.kind = "text" => b \in Range(blocks)
    /\ Follow(blocks, ms)

\* The blocks sent are those that the messages leave, one after the other.
LEMMA SentAre ==
    ASSUME WrittenInv, NEW i \in 1..Len(conversation),
           NEW ordered, OrderedHistory(ordered, i)
    PROVE  SentWell(i, BlocksIn(SquashNonCurrentTurns(ordered)), conversation)
<1> DEFINE cuts == Cuts(ordered)
           n == Len(ordered)
           sentBlocks == BlocksIn(SquashNonCurrentTurns(ordered))
<1>1. ordered \in Seq(Stripped)
  BY DEF OrderedHistory
<1>2. /\ cuts \in Seq(Seq(Blocks)) /\ Len(cuts) = n /\ sentBlocks = FlattenSeq(cuts)
  BY <1>1, CutsAre
<1>3. /\ n \in Nat
      /\ \A p \in 1..n : /\ Origin(ordered[p]) \in 1..Len(conversation)
                         /\ ordered[p] = Strip(conversation[Origin(ordered[p])])
      /\ \A p \in 1..n : ordered[p].role = "assistant" =>
            /\ p > 1 /\ ordered[p - 1].role = "user"
            /\ conversation[Origin(ordered[p])].associatedUserMessageId = Origin(ordered[p - 1])
      /\ \A p, q \in 1..n : Origin(ordered[p]) = Origin(ordered[q]) => p = q
      /\ \E p \in 1..n : Origin(ordered[p]) = i
  BY <1>1 DEF OrderedHistory
<1>4. \A p \in 1..n :
          /\ IsInjective(cuts[p])
          /\ \A b \in Range(cuts[p]) :
                b.of = Origin(ordered[p]) /\ b \in Range(conversation[Origin(ordered[p])].content)
          /\ \A b \in Range(conversation[Origin(ordered[p])].content) :
                b.kind = "text" => b \in Range(cuts[p])
  BY CutIs
<1>5. \A p \in 1..n : ordered[p].role = conversation[Origin(ordered[p])].role
  BY <1>3, StripIs
<1> HIDE DEF cuts, n, sentBlocks
<1>6. sentBlocks \in Seq(Blocks)
  BY <1>2, FlattenType
<1>7. \A e : e \in Range(sentBlocks) <=> \E m \in 1..n : e \in Range(cuts[m])
  BY <1>2, FlattenRange
<1>8. \A m, k \in 1..n : m # k => Range(cuts[m]) \intersect Range(cuts[k]) = {}
  <2> SUFFICES ASSUME NEW m \in 1..n, NEW k \in 1..n, m # k,
                      NEW b, b \in Range(cuts[m]), b \in Range(cuts[k])
               PROVE  FALSE
    OBVIOUS
  <2>1. b.of = Origin(ordered[m]) /\ b.of = Origin(ordered[k])
    BY <1>4
  <2> QED BY <1>3, <2>1
<1>9. IsInjective(sentBlocks)
  BY <1>2, <1>4, <1>8, FlattenInjective
<1>10. PICK off : Places(off, cuts, sentBlocks)
  BY <1>2, FlattenPlaces
<1>11. /\ Len(sentBlocks) \in Nat /\ DOMAIN sentBlocks = 1..Len(sentBlocks)
       /\ \A k \in 1..Len(sentBlocks) : sentBlocks[k] \in Range(sentBlocks)
  BY <1>6 DEF Range
<1>12. \A k \in 1..Len(sentBlocks) : sentBlocks[k].of \in 1..Len(conversation)
  BY <1>3, <1>4, <1>7, <1>11
<1>13. ASSUME NEW b \in Range(conversation[i].content), b.kind = "text" PROVE b \in Range(sentBlocks)
  BY <1>3, <1>4, <1>7, <1>13
\* The place of a block among the blocks sent.
<1>14. /\ \A m \in 0..n : off[m] \in Nat
       /\ \A m \in 1..n : /\ m - 1 \in 0..n /\ off[m] = off[m - 1] + Len(cuts[m]) /\ Len(cuts[m]) \in Nat
                          /\ DOMAIN cuts[m] = 1..Len(cuts[m])
  <2>1. off \in [0..n -> Nat] /\ \A m \in 1..n : off[m] = off[m - 1] + Len(cuts[m])
    BY <1>2, <1>10 DEF Places
  <2>2. \A m \in 1..n : cuts[m] \in Seq(Blocks) /\ m - 1 \in 0..n
    BY <1>2, <1>3
  <2> QED BY <2>1, <2>2
<1>15. ASSUME NEW k \in 1..Len(sentBlocks)
       PROVE  \E m \in 1..n : off[m - 1] < k /\ k <= off[m] /\ sentBlocks[k] \in Range(cuts[m])
  <2>1. PICK m \in 1..n : \E j \in 1..Len(cuts[m]) : k = off[m - 1] + j
    BY <1>2, <1>10 DEF Places
  <2>2. PICK j \in 1..Len(cuts[m]) : k = off[m - 1] + j
    BY <2>1
  <2>3. sentBlocks[k] = cuts[m][j]
    BY <1>2, <1>10, <2>2 DEF Places
  <2>4. cuts[m][j] \in Range(cuts[m])
    BY <1>14 DEF Range
  <2>5. off[m - 1] < k /\ k <= off[m]
    <3>1. m - 1 \in 0..n /\ off[m] = off[m - 1] + Len(cuts[m]) /\ Len(cuts[m]) \in Nat
      BY <1>14
    <3>2. off[m - 1] \in Nat
      BY <1>14, <3>1
    <3> QED BY <2>2, <3>1, <3>2
  <2> QED BY <2>3, <2>4, <2>5
<1>16. \A a \in 0..n : \A b \in a..n : off[a] <= off[b]
  BY <1>2, <1>10, PlacesInOrder
<1>17. \A p, q \in 1..n : \A x, y \in Nat :
            off[p - 1] < x /\ y <= off[q] /\ x <= y => p <= q
  <2> SUFFICES ASSUME NEW p \in 1..n, NEW q \in 1..n, NEW x \in Nat, NEW y \in Nat,
                      off[p - 1] < x, y <= off[q], x <= y, ~(p <= q)
               PROVE  FALSE
    OBVIOUS
  <2>1. q \in 0..n /\ p - 1 \in q..n
    BY <1>3
  <2>2. off[q] <= off[p - 1]
    BY <1>16, <2>1
  <2>3. off[q] \in Nat /\ off[p - 1] \in Nat
    BY <1>3, <1>14
  <2> QED BY <2>2, <2>3
<1>18. Follow(sentBlocks, conversation)
  <2> SUFFICES ASSUME NEW k \in 1..Len(sentBlocks), NEW c \in Range(sentBlocks), Question(c, conversation),
                      c.of = conversation[sentBlocks[k].of].associatedUserMessageId
               PROVE  \E j \in 1..k : /\ Question(sentBlocks[j], conversation) /\ sentBlocks[j].of = c.of
                                      /\ \A l \in (j + 1)..k : ~Question(sentBlocks[l], conversation)
    BY DEF Follow
  <2>1. PICK p \in 1..n : off[p - 1] < k /\ k <= off[p] /\ sentBlocks[k] \in Range(cuts[p])
    BY <1>15
  <2>2. PICK j \in 1..Len(sentBlocks) : c = sentBlocks[j]
    BY <1>11 DEF Range
  <2>3. PICK q \in 1..n : off[q - 1] < j /\ j <= off[q] /\ c \in Range(cuts[q])
    BY <1>15, <2>2
  <2> DEFINE at == Origin(ordered[p])
             question == Origin(ordered[q])
  <2>4. /\ sentBlocks[k].of = at /\ c.of = question /\ question = conversation[at].associatedUserMessageId
        /\ at \in 1..Len(conversation) /\ question \in 1..Len(conversation)
    BY <1>3, <1>4, <2>1, <2>3
  <2>5. conversation[at].role = "assistant"
    <3>1. conversation[at].role = "user" => conversation[at].associatedUserMessageId = 0
      BY <2>4 DEF WrittenInv, Written
    <3>2. question # 0
      BY <2>4
    <3>3. conversation[at].role = "user" \/ conversation[at].role = "assistant"
      BY <2>4, ContentWritten
    <3> QED BY <2>4, <3>1, <3>2, <3>3
  <2>6. p > 1 /\ p - 1 \in 1..n /\ question = Origin(ordered[p - 1])
    <3>1. ordered[p].role = "assistant"
      BY <1>5, <2>5
    <3>2. p > 1 /\ conversation[Origin(ordered[p])].associatedUserMessageId = Origin(ordered[p - 1])
      BY <1>3, <3>1
    <3> QED BY <1>3, <2>4, <3>2
  <2>7. q = p - 1
    BY <1>3, <2>6
  <2>8. j \in 1..k /\ j < k
    <3>1. p \in Nat /\ ~(p <= q)
      BY <1>3, <2>7
    <3>2. k <= j => p <= q
      <4>1. k \in Nat /\ j \in Nat
        BY <1>11
      <4> QED BY <1>17, <2>1, <2>3, <4>1
    <3> QED BY <1>11, <3>1, <3>2
  <2>9. ASSUME NEW l \in (j + 1)..k, Question(sentBlocks[l], conversation) PROVE FALSE
    <3>1. l \in 1..Len(sentBlocks) /\ l # j
      BY <1>11, <2>8
    <3>2. PICK m \in 1..n : off[m - 1] < l /\ l <= off[m] /\ sentBlocks[l] \in Range(cuts[m])
      BY <1>15, <3>1
    <3>3. q <= m /\ m <= p
      <4>1. j <= l /\ l <= k /\ j \in Nat /\ l \in Nat /\ k \in Nat
        BY <1>11, <2>8
      <4>2. q <= m
        BY <1>17, <2>3, <3>2, <4>1
      <4>3. m <= p
        BY <1>17, <2>1, <3>2, <4>1
      <4> QED BY <4>2, <4>3
    <3>4. m # p
      <4>1. conversation[sentBlocks[l].of].role = "user"
        BY <2>9 DEF Question
      <4>2. sentBlocks[l].of = Origin(ordered[m])
        BY <1>4, <3>2
      <4> QED BY <2>5, <4>1, <4>2
    <3>5. m = q
      BY <1>3, <2>7, <3>3, <3>4
    <3>6. c \in Range(conversation[question].content) /\ sentBlocks[l] \in Range(conversation[question].content)
      BY <1>4, <2>3, <3>2, <3>5
    <3>7. conversation[question].role = "user"
      BY <2>4 DEF Question
    <3>8. conversation[question].content \in UserContents(question)
      BY <2>4, <3>7 DEF WrittenInv, Written
    <3>9. \E a : conversation[question].content = <<a>>
      BY <3>8 DEF UserContents
    <3>10. \A a : Range(<<a>>) = {a}
      BY DEF Range
    <3>11. c = sentBlocks[l]
      BY <3>6, <3>9, <3>10
    <3> QED BY <1>9, <1>11, <2>2, <3>1, <3>11 DEF IsInjective
  <2> QED BY <2>2, <2>8, <2>9
<1>19. i # 0
  OBVIOUS
<1>20. SentWell(i, sentBlocks, conversation)
  BY <1>6, <1>9, <1>12, <1>13, <1>18 DEF SentWell
<1> QED BY <1>20 DEF sentBlocks

SentInv ==
    /\ WrittenInv
    /\ asked.current \in 0..Len(conversation)
    /\ SentWell(asked.current, AskedBlocks, conversation)

\* What was sent stays so while messages are written behind the others.
LEMMA SentStays ==
    ASSUME NEW current, NEW blocks, NEW ms, SentWell(current, blocks, ms),
           Len(ms) \in Nat, current \in 0..Len(ms),
           NEW more, \A j \in 1..Len(ms) : more[j] = ms[j],
           Len(more) \in Nat, Len(more) >= Len(ms)
    PROVE  SentWell(current, blocks, more)
<1>1. DOMAIN blocks = 1..Len(blocks) /\ Len(blocks) \in Nat
  BY DEF SentWell
<1>2. \A k \in 1..Len(blocks) : more[blocks[k].of] = ms[blocks[k].of] /\ blocks[k].of \in 1..Len(more)
  BY DEF SentWell
<1>3. \A k \in 1..Len(blocks) : Question(blocks[k], more) <=> Question(blocks[k], ms)
  BY <1>2 DEF Question
<1>4. \A c : c \in Range(blocks) <=> \E k \in 1..Len(blocks) : c = blocks[k]
  BY <1>1 DEF Range
<1>5. Follow(blocks, more)
  <2> SUFFICES ASSUME NEW k \in 1..Len(blocks), NEW c \in Range(blocks), Question(c, more),
                      c.of = more[blocks[k].of].associatedUserMessageId
               PROVE  \E j \in 1..k :
                          /\ Question(blocks[j], more)
                          /\ blocks[j].of = more[blocks[k].of].associatedUserMessageId
                          /\ \A l \in (j + 1)..k : ~Question(blocks[l], more)
    BY DEF Follow
  <2>1. Question(c, ms) /\ c.of = ms[blocks[k].of].associatedUserMessageId
    BY <1>2, <1>3, <1>4
  <2>2. PICK j \in 1..k : /\ Question(blocks[j], ms)
                          /\ blocks[j].of = ms[blocks[k].of].associatedUserMessageId
                          /\ \A l \in (j + 1)..k : ~Question(blocks[l], ms)
    BY <2>1 DEF SentWell, Follow
  <2>3. j \in 1..Len(blocks) /\ \A l \in (j + 1)..k : l \in 1..Len(blocks)
    BY <1>1
  <2> QED BY <1>2, <1>3, <2>2, <2>3
<1>6. current # 0 => more[current] = ms[current]
  OBVIOUS
<1> QED BY <1>2, <1>5, <1>6 DEF SentWell

LEMMA SentInitially == HistoryInit => SentInv
<1> SUFFICES ASSUME HistoryInit PROVE SentInv
  OBVIOUS
<1>1. WrittenInv
  BY WrittenInitially
<1>2. asked.current = 0 /\ asked.messages = <<>> /\ Len(conversation) = 0
  BY DEF HistoryInit
<1>3. [k \in DOMAIN <<>> |-> <<>>[k].content] = <<>>
  OBVIOUS
<1>4. AskedBlocks = <<>>
  BY <1>2, <1>3, FlattenEmpty DEF AskedBlocks
<1>5. <<>> \in Seq(Blocks) /\ Len(<<>>) = 0 /\ IsInjective(<<>>)
  BY DEF IsInjective
<1>6. Follow(<<>>, conversation)
  BY <1>5 DEF Follow
<1>7. SentWell(0, <<>>, conversation)
  BY <1>5, <1>6 DEF SentWell
<1> QED BY <1>1, <1>2, <1>4, <1>7 DEF SentInv

LEMMA SentPreserved == SentInv /\ [HistoryNext]_historyVars => SentInv'
<1> SUFFICES ASSUME SentInv, [HistoryNext]_historyVars PROVE SentInv'
  OBVIOUS
<1>1. WrittenInv /\ WrittenInv'
  BY WrittenPreserved DEF SentInv
<1>2. /\ Len(conversation) \in Nat /\ Len(conversation') \in Nat
      /\ asked.current \in 0..Len(conversation) /\ SentWell(asked.current, AskedBlocks, conversation)
  BY <1>1 DEF SentInv, WrittenInv, HistoryTypeInv
<1>3. ASSUME UNCHANGED asked, Len(conversation') >= Len(conversation),
             \A j \in 1..Len(conversation) : conversation'[j] = conversation[j]
      PROVE  SentInv'
  <2>1. AskedBlocks' = AskedBlocks
    BY <1>3 DEF AskedBlocks
  <2>2. SentWell(asked.current, AskedBlocks, conversation')
    BY <1>2, <1>3, SentStays
  <2>3. asked'.current \in 0..Len(conversation')
    BY <1>2, <1>3
  <2> QED BY <1>1, <1>3, <2>1, <2>2, <2>3 DEF SentInv
<1>4. ASSUME NEW role, NEW content, NEW answered, Write(role, content, answered), UNCHANGED asked
      PROVE  SentInv'
  <2>1. HistoryTypeInv
    BY <1>1 DEF WrittenInv
  <2>2. /\ Len(conversation') = Len(conversation) + 1
        /\ \A j \in 1..Len(conversation) : conversation'[j] = conversation[j]
    BY <1>4, <2>1, WriteAppends
  <2> QED BY <1>2, <1>3, <1>4, <2>2
<1>5. CASE UserWrites
  BY <1>4, <1>5 DEF UserWrites
<1>6. ASSUME NEW i \in MessageIds, Answered(i) PROVE SentInv'
  BY <1>4, <1>6 DEF Answered
<1>7. ASSUME NEW i \in MessageIds, AsksBedrock(i) PROVE SentInv'
  <2>1. i \in 1..Len(conversation) /\ conversation[i].role = "user"
    BY <1>1, <1>7 DEF AsksBedrock, WrittenInv
  <2> DEFINE ordered == Ordered(Retrieve(i), i)
  <2>2. OrderedHistory(ordered, i) /\ GetMessageHistory(i) = SquashNonCurrentTurns(ordered)
    BY <1>1, <2>1, HistoryIs
  <2> HIDE DEF ordered
  <2>3. SentWell(i, BlocksIn(GetMessageHistory(i)), conversation)
    BY <1>1, <2>1, <2>2, SentAre
  <2>4. asked' = [current |-> i, messages |-> GetMessageHistory(i)] /\ UNCHANGED conversation
    BY <1>7 DEF AsksBedrock
  <2>5. asked'.current = i /\ AskedBlocks' = BlocksIn(GetMessageHistory(i))
    BY <2>4 DEF AskedBlocks, BlocksIn
  <2>6. i \in 0..Len(conversation)
    BY <1>2, <2>1
  <2> QED BY <1>1, <2>3, <2>4, <2>5, <2>6 DEF SentInv
<1>8. ASSUME NEW i \in MessageIds, BecomesVisible(i) \/ InvocationFails(i) PROVE SentInv'
  BY <1>2, <1>3, <1>8 DEF BecomesVisible, InvocationFails
<1>9. CASE UNCHANGED historyVars
  BY <1>2, <1>3, <1>9 DEF historyVars
<1> QED BY <1>5, <1>6, <1>7, <1>8, <1>9 DEF HistoryNext

\* Whatever overlaps and whatever lists miss, the handler sends the text of the
\* message it answers, and no block of the conversation twice.
THEOREM SentCorrect == HistorySpec => []CurrentTextSentAndNothingTwice
<1>1. SentInv => CurrentTextSentAndNothingTwice
  <2> SUFFICES ASSUME SentInv PROVE CurrentTextSentAndNothingTwice
    OBVIOUS
  <2>1. IsInjective(AskedBlocks)
        /\ (asked.current # 0 => \A b \in Range(conversation[asked.current].content) :
                                    b.kind = "text" => b \in Range(AskedBlocks))
    BY DEF SentInv, SentWell
  <2> QED BY <2>1 DEF CurrentTextSentAndNothingTwice, IsInjective
<1> QED BY <1>1, SentInitially, SentPreserved, PTL DEF HistorySpec

\* Whatever overlaps, an answer is sent right behind its question.
THEOREM FollowCorrect == HistorySpec => []AnswersFollowTheirQuestions
<1>1. SentInv => AnswersFollowTheirQuestions
  <2> SUFFICES ASSUME SentInv PROVE AnswersFollowTheirQuestions
    OBVIOUS
  <2>1. AskedBlocks \in Seq(Blocks) /\ Follow(AskedBlocks, conversation)
    BY DEF SentInv, SentWell
  <2>2. DOMAIN AskedBlocks = 1..Len(AskedBlocks)
    BY <2>1
  <2>3. \A b : IsQuestion(b) <=> Question(b, conversation)
    BY DEF IsQuestion, Question
  <2> QED BY <2>1, <2>2, <2>3 DEF AnswersFollowTheirQuestions, Follow
<1> QED BY <1>1, SentInitially, SentPreserved, PTL DEF HistorySpec

-----------------------------------------------------------------------------
(* A user who waits. *)

Holds(m, kind) == \E b \in Range(m.content) : b.kind = kind
Results(m, use) == \E b \in Range(m.content) : b.kind = "toolResult" /\ b.use = use

\* Messages as they are written: a user message is a text or a tool result, an
\* answer holds texts and tool uses.
IsUserBlock(b, i) == b.kind = "text" \/ (b.kind = "toolResult" /\ b.use \in 1..(i - 1))

Shapes(ms) ==
    \A i \in 1..Len(ms) :
        /\ ms[i].role = "user" \/ ms[i].role = "assistant"
        /\ ms[i].role = "user" => \E b : Range(ms[i].content) = {b} /\ IsUserBlock(b, i)
        /\ ms[i].role = "assistant" =>
              \A b \in Range(ms[i].content) : b.of = i /\ (b.kind = "text" \/ b.kind = "toolUse")

LEMMA ShapesAre == ASSUME WrittenInv PROVE Shapes(conversation)
<1> SUFFICES ASSUME NEW i \in 1..Len(conversation)
             PROVE  /\ conversation[i].role = "user" \/ conversation[i].role = "assistant"
                    /\ conversation[i].role = "user" =>
                          \E b : Range(conversation[i].content) = {b} /\ IsUserBlock(b, i)
                    /\ conversation[i].role = "assistant" =>
                          \A b \in Range(conversation[i].content) :
                              b.of = i /\ (b.kind = "text" \/ b.kind = "toolUse")
  BY DEF Shapes
<1>1. conversation[i].role = "user" \/ conversation[i].role = "assistant"
  BY ContentWritten
<1>2. /\ \A a : Range(<<a>>) = {a}
      /\ \A a, b : Range(<<a, b>>) = {a, b}
  BY DEF Range
<1>3. ASSUME conversation[i].role = "user"
      PROVE  \E b : Range(conversation[i].content) = {b} /\ IsUserBlock(b, i)
  <2>1. conversation[i].content \in UserContents(i)
    BY <1>3 DEF WrittenInv, Written
  <2>2. CASE conversation[i].content = <<MessageBlock("text", i, 0)>>
    BY <1>2, <2>2 DEF MessageBlock, IsUserBlock
  <2>3. ASSUME NEW use \in 1..(i - 1), conversation[i].content = <<MessageBlock("toolResult", i, use)>>
        PROVE  \E b : Range(conversation[i].content) = {b} /\ IsUserBlock(b, i)
    BY <1>2, <2>3 DEF MessageBlock, IsUserBlock
  <2> QED BY <2>1, <2>2, <2>3 DEF UserContents
<1>4. ASSUME conversation[i].role = "assistant", NEW b \in Range(conversation[i].content)
      PROVE  b.of = i /\ (b.kind = "text" \/ b.kind = "toolUse")
  <2>1. conversation[i].content \in AnswerContents(i)
    BY <1>4 DEF WrittenInv, Written
  <2>2. b = MessageBlock("text", i, 0) \/ b = MessageBlock("toolUse", i, 0)
    BY <1>2, <1>4, <2>1 DEF AnswerContents
  <2> QED BY <2>2 DEF MessageBlock
<1> QED BY <1>1, <1>3, <1>4

IsAnswerAt(ms, a) == a \in 1..Len(ms) /\ ms[a].role = "assistant"
InProgress(phase) == phase = "invoked" \/ phase = "asking"

\* Only the last message is being answered.
Waits(ms, phases) ==
    \A i \in 1..Len(ms) : InProgress(phases[i]) => i = Len(ms)

\* An answer comes right behind the message it answers.
AnswersNext(ms, phases) ==
    /\ \A a \in 1..Len(ms) : ms[a].role = "assistant" =>
          /\ a > 1 /\ ms[a].associatedUserMessageId = a - 1 /\ phases[a - 1] = "answered"
    /\ \A i \in 1..Len(ms) : phases[i] = "answered" => IsAnswerAt(ms, i + 1)

\* A question comes behind an answer to each tool use before it.
QuestionsWait(ms) ==
    \A q \in 1..Len(ms) : ms[q].role = "user" /\ Holds(ms[q], "text") =>
        \A a \in 1..(q - 1) : Holds(ms[a], "toolUse") => \E l \in (a + 1)..(q - 1) : IsAnswerAt(ms, l)

\* A tool result is for the latest answer.
ResultsNext(ms) ==
    \A r \in 1..Len(ms) : \A use : Results(ms[r], use) =>
        /\ use \in 1..(r - 1) /\ ms[use].role = "assistant" /\ Holds(ms[use], "toolUse")
        /\ \A a \in (use + 1)..(r - 1) : ~IsAnswerAt(ms, a)

\* The tool uses of an answer were answered before the next one.
UsesAnswered(ms, phases) ==
    \A a \in 1..Len(ms) : Holds(ms[a], "toolUse") =>
        \A l \in (a + 1)..Len(ms) : IsAnswerAt(ms, l) =>
            \E j \in (a + 1)..(l - 1) : Results(ms[j], a) /\ phases[j] = "answered"

InTurn(ms, phases) ==
    /\ Waits(ms, phases)
    /\ AnswersNext(ms, phases)
    /\ QuestionsWait(ms)
    /\ ResultsNext(ms)
    /\ UsesAnswered(ms, phases)

\* It stays so while invocations proceed or fail.
LEMMA InTurnStays ==
    ASSUME NEW ms, Len(ms) \in Nat, NEW phases, NEW later, InTurn(ms, phases),
           \A i \in 1..Len(ms) : InProgress(later[i]) => InProgress(phases[i]),
           \A i \in 1..Len(ms) : later[i] = "answered" <=> phases[i] = "answered"
    PROVE  InTurn(ms, later)
<1>1. Waits(ms, later)
  BY DEF InTurn, Waits
<1>2. AnswersNext(ms, later)
  BY DEF InTurn, AnswersNext
<1>3. UsesAnswered(ms, later)
  <2> SUFFICES ASSUME NEW a \in 1..Len(ms), Holds(ms[a], "toolUse"),
                      NEW l \in (a + 1)..Len(ms), IsAnswerAt(ms, l)
               PROVE  \E j \in (a + 1)..(l - 1) : Results(ms[j], a) /\ later[j] = "answered"
    BY DEF UsesAnswered
  <2>1. PICK j \in (a + 1)..(l - 1) : Results(ms[j], a) /\ phases[j] = "answered"
    BY DEF InTurn, UsesAnswered
  <2> QED BY <2>1
<1> QED BY <1>1, <1>2, <1>3 DEF InTurn

\* It stays so when the user writes a question while no tool use is open, or the
\* result of an open one.
LEMMA InTurnAsked ==
    ASSUME NEW ms, Len(ms) \in Nat, NEW phases, InTurn(ms, phases), Shapes(ms),
           \A i \in 1..Len(ms) : ~InProgress(phases[i]),
           NEW more, Len(more) = Len(ms) + 1, Shapes(more),
           \A i \in 1..Len(ms) : more[i] = ms[i],
           more[Len(ms) + 1].role = "user",
           \A a \in 1..Len(ms) : Holds(more[Len(ms) + 1], "text") /\ Holds(ms[a], "toolUse") =>
               \E j \in 1..Len(ms) : Results(ms[j], a) /\ phases[j] = "answered",
           \A use : Results(more[Len(ms) + 1], use) =>
               /\ use \in 1..Len(ms) /\ Holds(ms[use], "toolUse")
               /\ \A j \in 1..Len(ms) : Results(ms[j], use) => phases[j] # "answered",
           NEW later, later[Len(ms) + 1] = "invoked",
           \A i \in 1..Len(ms) : later[i] = phases[i]
    PROVE  InTurn(more, later)
<1> DEFINE n == Len(ms)
           id == n + 1
<1>1. /\ n \in Nat /\ Len(more) = id /\ id \notin 1..n /\ \A i \in 1..id : i = id \/ i \in 1..n
  OBVIOUS
<1>2. \A l \in 1..n : IsAnswerAt(more, l) <=> IsAnswerAt(ms, l)
  BY <1>1 DEF IsAnswerAt
<1>3. ~IsAnswerAt(more, id)
  BY DEF IsAnswerAt
<1>4. ~Holds(more[id], "toolUse")
  <2>1. id \in 1..Len(more)
    BY <1>1
  <2>2. PICK b : Range(more[id].content) = {b} /\ IsUserBlock(b, id)
    BY <2>1 DEF Shapes
  <2> QED BY <2>2 DEF Holds, IsUserBlock
<1>5. \A a \in 1..n : Holds(ms[a], "toolUse") => ms[a].role = "assistant"
  <2> SUFFICES ASSUME NEW a \in 1..n, ms[a].role = "user", Holds(ms[a], "toolUse") PROVE FALSE
    BY DEF Shapes
  <2>1. PICK b : Range(ms[a].content) = {b} /\ IsUserBlock(b, a)
    BY DEF Shapes
  <2> QED BY <2>1 DEF Holds, IsUserBlock
<1> HIDE DEF n, id
<1>6. Waits(more, later)
  BY <1>1 DEF Waits, InProgress, n, id
<1>7. AnswersNext(more, later)
  <2>1. ASSUME NEW a \in 1..id, more[a].role = "assistant"
        PROVE  a > 1 /\ more[a].associatedUserMessageId = a - 1 /\ later[a - 1] = "answered"
    <3>1. a \in 1..n /\ ms[a].role = "assistant" /\ more[a] = ms[a]
      BY <1>1, <2>1 DEF n, id
    <3>2. a > 1 /\ ms[a].associatedUserMessageId = a - 1 /\ phases[a - 1] = "answered"
      BY <3>1 DEF InTurn, AnswersNext, n
    <3>3. a - 1 \in 1..n
      BY <1>1, <3>1, <3>2
    <3> QED BY <3>1, <3>2, <3>3 DEF n
  <2>2. ASSUME NEW i \in 1..id, later[i] = "answered" PROVE IsAnswerAt(more, i + 1)
    <3>1. i \in 1..n /\ phases[i] = "answered"
      BY <1>1, <2>2 DEF n, id
    <3>2. IsAnswerAt(ms, i + 1)
      BY <3>1 DEF InTurn, AnswersNext, n
    <3>3. i + 1 \in 1..n
      BY <3>2 DEF IsAnswerAt, n
    <3> QED BY <1>2, <3>2, <3>3
  <2> QED BY <1>1, <2>1, <2>2 DEF AnswersNext
<1>8. QuestionsWait(more)
  <2> SUFFICES ASSUME NEW q \in 1..id, more[q].role = "user", Holds(more[q], "text"),
                      NEW a \in 1..(q - 1), Holds(more[a], "toolUse")
               PROVE  \E l \in (a + 1)..(q - 1) : IsAnswerAt(more, l)
    BY <1>1 DEF QuestionsWait
  <2>1. a \in 1..n /\ more[a] = ms[a]
    BY <1>1 DEF n, id
  <2>2. CASE q \in 1..n
    <3>1. PICK l \in (a + 1)..(q - 1) : IsAnswerAt(ms, l)
      BY <2>1, <2>2 DEF InTurn, QuestionsWait, n
    <3>2. l \in 1..n
      BY <1>1, <2>1, <2>2
    <3> QED BY <1>2, <3>1, <3>2
  <2>3. CASE q = id
    <3>1. PICK j \in 1..n : Results(ms[j], a) /\ phases[j] = "answered"
      BY <2>1, <2>3 DEF n, id
    <3>2. a \in 1..(j - 1) /\ IsAnswerAt(ms, j + 1)
      BY <3>1 DEF InTurn, ResultsNext, AnswersNext, n
    <3>3. j + 1 \in 1..n /\ j + 1 \in (a + 1)..(q - 1)
      BY <1>1, <2>1, <2>3, <3>2 DEF IsAnswerAt, n, id
    <3> QED BY <1>2, <3>2, <3>3
  <2> QED BY <1>1, <2>2, <2>3
<1>9. ResultsNext(more)
  <2> SUFFICES ASSUME NEW r \in 1..id, NEW use, Results(more[r], use)
               PROVE  /\ use \in 1..(r - 1) /\ more[use].role = "assistant" /\ Holds(more[use], "toolUse")
                      /\ \A a \in (use + 1)..(r - 1) : ~IsAnswerAt(more, a)
    BY <1>1 DEF ResultsNext
  <2>1. CASE r \in 1..n
    <3>1. Results(ms[r], use)
      BY <2>1 DEF n
    <3>2. /\ use \in 1..(r - 1) /\ ms[use].role = "assistant" /\ Holds(ms[use], "toolUse")
          /\ \A a \in (use + 1)..(r - 1) : ~IsAnswerAt(ms, a)
      BY <2>1, <3>1 DEF InTurn, ResultsNext, n
    <3>3. use \in 1..n /\ \A a \in (use + 1)..(r - 1) : a \in 1..n
      BY <1>1, <2>1, <3>2
    <3> QED BY <1>2, <3>2, <3>3 DEF n
  <2>2. CASE r = id
    <3>1. /\ use \in 1..n /\ Holds(ms[use], "toolUse")
          /\ \A j \in 1..n : Results(ms[j], use) => phases[j] # "answered"
      BY <2>2 DEF n, id
    <3>2. ms[use].role = "assistant" /\ more[use] = ms[use] /\ use \in 1..(r - 1)
      BY <1>1, <1>5, <2>2, <3>1 DEF n, id
    <3>3. ASSUME NEW a \in (use + 1)..n, IsAnswerAt(ms, a) PROVE FALSE
      <4>1. PICK j \in (use + 1)..(a - 1) : Results(ms[j], use) /\ phases[j] = "answered"
        BY <3>1, <3>3 DEF InTurn, UsesAnswered, n
      <4>2. j \in 1..n
        BY <1>1, <3>1
      <4> QED BY <3>1, <4>1, <4>2
    <3>4. \A a \in (use + 1)..(r - 1) : a \in (use + 1)..n /\ a \in 1..n
      BY <1>1, <2>2, <3>1 DEF id
    <3> QED BY <1>2, <3>1, <3>2, <3>3, <3>4
  <2> QED BY <1>1, <2>1, <2>2
<1>10. UsesAnswered(more, later)
  <2> SUFFICES ASSUME NEW a \in 1..id, Holds(more[a], "toolUse"),
                      NEW l \in (a + 1)..id, IsAnswerAt(more, l)
               PROVE  \E j \in (a + 1)..(l - 1) : Results(more[j], a) /\ later[j] = "answered"
    BY <1>1 DEF UsesAnswered
  <2>1. a \in 1..n /\ l \in (a + 1)..n /\ l \in 1..n
    <3>1. a # id /\ l # id
      BY <1>3, <1>4
    <3> QED BY <1>1, <3>1 DEF id
  <2>2. Holds(ms[a], "toolUse") /\ IsAnswerAt(ms, l)
    BY <1>2, <2>1 DEF n
  <2>3. PICK j \in (a + 1)..(l - 1) : Results(ms[j], a) /\ phases[j] = "answered"
    BY <2>1, <2>2 DEF InTurn, UsesAnswered, n
  <2>4. j \in 1..n
    BY <1>1, <2>1
  <2> QED BY <2>3, <2>4 DEF n
<1> QED BY <1>6, <1>7, <1>8, <1>9, <1>10 DEF InTurn

\* It stays so when the last message is answered.
LEMMA InTurnAnswered ==
    ASSUME NEW ms, Len(ms) \in Nat, NEW phases, InTurn(ms, phases), Shapes(ms),
           NEW i \in 1..Len(ms), phases[i] = "asking", ms[i].role = "user",
           NEW more, Len(more) = Len(ms) + 1, Shapes(more),
           \A j \in 1..Len(ms) : more[j] = ms[j],
           more[Len(ms) + 1].role = "assistant",
           more[Len(ms) + 1].associatedUserMessageId = i,
           NEW later, later[i] = "answered", ~InProgress(later[Len(ms) + 1]), later[Len(ms) + 1] # "answered",
           \A j \in 1..Len(ms) : j # i => later[j] = phases[j]
    PROVE  InTurn(more, later)
<1> DEFINE n == Len(ms)
           id == n + 1
<1>1. /\ n \in Nat /\ Len(more) = id /\ id \notin 1..n /\ \A j \in 1..id : j = id \/ j \in 1..n
      /\ n \in 1..n
  OBVIOUS
<1>2. i = n
  BY DEF InTurn, Waits, InProgress
<1>3. \A l \in 1..n : IsAnswerAt(more, l) <=> IsAnswerAt(ms, l)
  BY <1>1 DEF IsAnswerAt
<1>4. IsAnswerAt(more, id)
  BY <1>1 DEF IsAnswerAt
<1>5. \A a \in 1..n : Holds(ms[a], "toolUse") => ms[a].role = "assistant"
  <2> SUFFICES ASSUME NEW a \in 1..n, ms[a].role = "user", Holds(ms[a], "toolUse") PROVE FALSE
    BY DEF Shapes
  <2>1. PICK b : Range(ms[a].content) = {b} /\ IsUserBlock(b, a)
    BY DEF Shapes
  <2> QED BY <2>1 DEF Holds, IsUserBlock
<1>6. \A j \in 1..n : phases[j] = "answered" => later[j] = "answered"
  OBVIOUS
<1> HIDE DEF n, id
<1>7. Waits(more, later)
  <2> SUFFICES ASSUME NEW j \in 1..id, InProgress(later[j]) PROVE FALSE
    BY <1>1 DEF Waits
  <2>1. j \in 1..n /\ j # n
    <3>1. j # id
      BY DEF id, n
    <3>2. j # n
      BY <1>2 DEF InProgress
    <3> QED BY <1>1, <3>1, <3>2
  <2>2. InProgress(phases[j])
    BY <1>2, <2>1 DEF n
  <2> QED BY <2>1, <2>2 DEF InTurn, Waits, n
<1>8. AnswersNext(more, later)
  <2>1. ASSUME NEW a \in 1..id, more[a].role = "assistant"
        PROVE  a > 1 /\ more[a].associatedUserMessageId = a - 1 /\ later[a - 1] = "answered"
    <3>1. CASE a \in 1..n
      <4>1. a > 1 /\ ms[a].associatedUserMessageId = a - 1 /\ phases[a - 1] = "answered"
        BY <2>1, <3>1 DEF InTurn, AnswersNext, n
      <4>2. a - 1 \in 1..n
        BY <1>1, <3>1, <4>1
      <4> QED BY <1>6, <3>1, <4>1, <4>2 DEF n
    <3>2. CASE a = id
      <4>1. a > 1 /\ a - 1 = n
        BY <1>1, <3>2 DEF id
      <4> QED BY <1>2, <3>2, <4>1 DEF n, id
    <3> QED BY <1>1, <3>1, <3>2
  <2>2. ASSUME NEW j \in 1..id, later[j] = "answered" PROVE IsAnswerAt(more, j + 1)
    <3>1. CASE j = n
      BY <1>4, <3>1 DEF id
    <3>2. CASE j # n
      <4>1. j # id
        BY <2>2 DEF id, n
      <4>2. j \in 1..n /\ phases[j] = "answered"
        BY <1>1, <1>2, <2>2, <3>2, <4>1 DEF n
      <4>3. IsAnswerAt(ms, j + 1)
        BY <4>2 DEF InTurn, AnswersNext, n
      <4>4. j + 1 \in 1..n
        BY <4>3 DEF IsAnswerAt, n
      <4> QED BY <1>3, <4>3, <4>4
    <3> QED BY <3>1, <3>2
  <2> QED BY <1>1, <2>1, <2>2 DEF AnswersNext
<1>9. QuestionsWait(more)
  <2> SUFFICES ASSUME NEW q \in 1..id, more[q].role = "user", Holds(more[q], "text"),
                      NEW a \in 1..(q - 1), Holds(more[a], "toolUse")
               PROVE  \E l \in (a + 1)..(q - 1) : IsAnswerAt(more, l)
    BY <1>1 DEF QuestionsWait
  <2>1. q # id
    BY DEF id, n
  <2>2. q \in 1..n /\ a \in 1..n
    BY <1>1, <2>1
  <2>3. PICK l \in (a + 1)..(q - 1) : IsAnswerAt(ms, l)
    BY <2>2 DEF InTurn, QuestionsWait, n
  <2>4. l \in 1..n
    BY <1>1, <2>2
  <2> QED BY <1>3, <2>3, <2>4
<1>10. ResultsNext(more)
  <2> SUFFICES ASSUME NEW r \in 1..id, NEW use, Results(more[r], use)
               PROVE  /\ use \in 1..(r - 1) /\ more[use].role = "assistant" /\ Holds(more[use], "toolUse")
                      /\ \A a \in (use + 1)..(r - 1) : ~IsAnswerAt(more, a)
    BY <1>1 DEF ResultsNext
  <2>1. r # id
    <3>1. \A b \in Range(more[id].content) : b.kind = "text" \/ b.kind = "toolUse"
      BY <1>1 DEF Shapes, id, n
    <3> QED BY <3>1 DEF Results
  <2>2. r \in 1..n /\ Results(ms[r], use)
    BY <1>1, <2>1 DEF n
  <2>3. /\ use \in 1..(r - 1) /\ ms[use].role = "assistant" /\ Holds(ms[use], "toolUse")
        /\ \A a \in (use + 1)..(r - 1) : ~IsAnswerAt(ms, a)
    BY <2>2 DEF InTurn, ResultsNext, n
  <2>4. use \in 1..n /\ \A a \in (use + 1)..(r - 1) : a \in 1..n
    BY <1>1, <2>2, <2>3
  <2> QED BY <1>3, <2>3, <2>4 DEF n
<1>11. UsesAnswered(more, later)
  <2> SUFFICES ASSUME NEW a \in 1..id, Holds(more[a], "toolUse"),
                      NEW l \in (a + 1)..id, IsAnswerAt(more, l)
               PROVE  \E j \in (a + 1)..(l - 1) : Results(more[j], a) /\ later[j] = "answered"
    BY <1>1 DEF UsesAnswered
  <2>1. a \in 1..n /\ Holds(ms[a], "toolUse") /\ l \in 1..id
    <3>1. a \in 1..n /\ l \in 1..id
      BY <1>1 DEF id
    <3> QED BY <3>1 DEF n
  <2>2. ASSUME NEW m \in 1..n, m \in (a + 1)..l, IsAnswerAt(ms, m)
        PROVE  \E j \in (a + 1)..(l - 1) : Results(more[j], a) /\ later[j] = "answered"
    <3>1. PICK j \in (a + 1)..(m - 1) : Results(ms[j], a) /\ phases[j] = "answered"
      <4>1. m \in (a + 1)..n
        BY <2>2
      <4> QED BY <2>1, <2>2, <4>1 DEF InTurn, UsesAnswered, n
    <3>2. j \in 1..n /\ j \in (a + 1)..(l - 1)
      BY <1>1, <2>1, <2>2
    <3> QED BY <1>6, <3>1, <3>2 DEF n
  <2>3. CASE l \in 1..n
    BY <1>3, <2>2, <2>3
  <2>4. CASE l = id /\ \A m \in (a + 1)..n : ~IsAnswerAt(ms, m)
    <3>1. PICK b : Range(ms[n].content) = {b} /\ IsUserBlock(b, n)
      BY <1>2 DEF Shapes, n
    <3>2. ms[a].role = "assistant" /\ a # n /\ IsAnswerAt(ms, a)
      BY <1>2, <1>5, <2>1 DEF n, IsAnswerAt
    <3>3. a \in 1..(n - 1)
      BY <1>1, <2>1, <3>2
    <3>4. b.kind # "text"
      <4> SUFFICES ASSUME b.kind = "text" PROVE FALSE
        OBVIOUS
      <4>1. ms[n].role = "user" /\ Holds(ms[n], "text")
        BY <1>2, <3>1 DEF Holds
      <4>2. PICK m \in (a + 1)..(n - 1) : IsAnswerAt(ms, m)
        BY <1>1, <2>1, <3>3, <4>1 DEF InTurn, QuestionsWait, n
      <4>3. m \in (a + 1)..n
        BY <1>1, <2>1
      <4> QED BY <2>4, <4>2, <4>3
    <3>5. Results(ms[n], b.use)
      BY <3>1, <3>4 DEF Results, IsUserBlock
    <3>6. /\ b.use \in 1..(n - 1) /\ ms[b.use].role = "assistant"
          /\ \A m \in (b.use + 1)..(n - 1) : ~IsAnswerAt(ms, m)
      BY <1>1, <3>5 DEF InTurn, ResultsNext, n
    <3>7. IsAnswerAt(ms, b.use)
      BY <1>1, <3>6 DEF IsAnswerAt, n
    <3>8. b.use = a
      <4>1. ~(b.use \in (a + 1)..n)
        BY <2>4, <3>7
      <4>2. ~(a \in (b.use + 1)..(n - 1))
        BY <3>2, <3>6
      <4> QED BY <1>1, <3>3, <3>6, <4>1, <4>2
    <3>9. Results(more[n], a) /\ later[n] = "answered"
      BY <1>1, <1>2, <3>5, <3>8 DEF n
    <3>10. n \in (a + 1)..(l - 1)
      BY <1>1, <2>4, <3>3 DEF id
    <3> QED BY <3>9, <3>10
  <2>5. CASE l = id /\ \E m \in (a + 1)..n : IsAnswerAt(ms, m)
    <3>1. PICK m \in (a + 1)..n : IsAnswerAt(ms, m)
      BY <2>5
    <3>2. m \in 1..n /\ m \in (a + 1)..l
      BY <1>1, <2>1, <2>5 DEF id
    <3> QED BY <2>2, <3>1, <3>2
  <2> QED BY <1>1, <2>1, <2>3, <2>4, <2>5
<1> QED BY <1>7, <1>8, <1>9, <1>10, <1>11 DEF InTurn

OrderlyInv == orderly => InTurn(conversation, invocation)

LEMMA UseIsResult ==
    ASSUME WrittenInv, NEW j \in 1..Len(conversation), NEW b \in Range(conversation[j].content), b.use # 0
    PROVE  conversation[j].role = "user" /\ b.kind = "toolResult"
<1>1. /\ \A a : Range(<<a>>) = {a}
      /\ \A a, c : Range(<<a, c>>) = {a, c}
  BY DEF Range
<1>2. conversation[j].role = "user" \/ conversation[j].role = "assistant"
  BY ContentWritten
<1>3. CASE conversation[j].role = "user"
  <2>1. conversation[j].content \in UserContents(j)
    BY <1>3 DEF WrittenInv, Written
  <2>2. b = MessageBlock("text", j, 0) \/ \E use : b = MessageBlock("toolResult", j, use)
    BY <1>1, <2>1 DEF UserContents
  <2> QED BY <1>3, <2>2 DEF MessageBlock
<1>4. CASE conversation[j].role = "assistant"
  <2>1. conversation[j].content \in AnswerContents(j)
    BY <1>4 DEF WrittenInv, Written
  <2>2. b = MessageBlock("text", j, 0) \/ b = MessageBlock("toolUse", j, 0)
    BY <1>1, <2>1 DEF AnswerContents
  <2> QED BY <2>2 DEF MessageBlock
<1> QED BY <1>2, <1>3, <1>4

LEMMA ShapesAlways == WrittenInv => Shapes(conversation)
  BY ShapesAre

LEMMA OrderlyInitially == HistoryInit => OrderlyInv
<1> SUFFICES ASSUME HistoryInit PROVE InTurn(conversation, invocation)
  BY DEF OrderlyInv
<1>1. Len(conversation) = 0
  BY DEF HistoryInit
<1> QED BY <1>1 DEF InTurn, Waits, AnswersNext, QuestionsWait, ResultsNext, UsesAnswered

LEMMA OrderlyPreserved == WrittenInv /\ OrderlyInv /\ [HistoryNext]_historyVars => OrderlyInv'
<1> SUFFICES ASSUME WrittenInv, OrderlyInv, [HistoryNext]_historyVars, orderly'
             PROVE  InTurn(conversation', invocation')
  BY DEF OrderlyInv
<1> DEFINE ms == conversation
           phases == invocation
           n == Len(ms)
           id == n + 1
<1>1. orderly
  BY DEF HistoryNext, UserWrites, BecomesVisible, AsksBedrock, Answered, InvocationFails, historyVars,
         WrittenInv, HistoryTypeInv
<1>2. /\ InTurn(ms, phases) /\ Shapes(ms) /\ Len(ms) \in Nat
      /\ \A i \in 1..n : i \in MessageIds
      /\ phases \in [MessageIds -> Phases]
  <2>1. n \in Nat /\ n <= MaxMessages /\ phases \in [MessageIds -> Phases]
    BY DEF WrittenInv, HistoryTypeInv
  <2>2. InTurn(ms, phases)
    BY <1>1 DEF OrderlyInv
  <2> QED BY <2>1, <2>2, ShapesAre, MaxMessagesAssumption DEF MessageIds
<1>3. WrittenInv' /\ HistoryTypeInv
  BY WrittenPreserved DEF WrittenInv
<1>4. Shapes(conversation')
  <2>1. Shapes(conversation)'
    BY <1>3, ShapesAlways, PTL
  <2> QED BY <2>1
<1>5. ASSUME UNCHANGED conversation,
             \A i \in 1..n : InProgress(invocation'[i]) => InProgress(phases[i]),
             \A i \in 1..n : invocation'[i] = "answered" <=> phases[i] = "answered"
      PROVE  InTurn(conversation', invocation')
  BY <1>2, <1>5, InTurnStays
<1>6. CASE UserWrites
  <2>1. PICK content :
           /\ Write("user", content, 0)
           /\ \/ content = <<MessageBlock("text", id, 0)>> /\ OpenToolUses = {}
              \/ \E use \in OpenToolUses : content = <<MessageBlock("toolResult", id, use)>>
    BY <1>6 DEF UserWrites
  <2>2. /\ id \in MessageIds /\ Len(conversation') = id
        /\ \A j \in 1..n : conversation'[j] = ms[j]
        /\ conversation'[id].role = "user" /\ conversation'[id].content = content
    <3>1. Write("user", content, 0)
      BY <2>1
    <3>2. HistoryTypeInv
      BY <1>3
    <3>3. /\ id \in MessageIds /\ Len(conversation') = id
          /\ \A j \in 1..n : conversation'[j] = ms[j]
          /\ conversation'[id] = [id |-> id, role |-> "user", associatedUserMessageId |-> 0, content |-> content]
      BY <3>1, <3>2, WriteAppends
    <3> QED BY <3>3
  <2>3. invocation' = [phases EXCEPT ![id] = "invoked"] /\ ~AnswerInProgress
    BY <1>6 DEF UserWrites
  <2>4. invocation'[id] = "invoked" /\ \A j \in 1..n : invocation'[j] = phases[j]
    BY <1>2, <2>2, <2>3
  <2>5. \A j \in 1..n : ~InProgress(phases[j])
    BY <1>2, <2>3 DEF AnswerInProgress, InProgress
  <2>6. /\ \A a : Range(<<a>>) = {a}
        /\ \A kind, use : MessageBlock(kind, id, use).kind = kind /\ MessageBlock(kind, id, use).use = use
    BY DEF Range, MessageBlock
  <2>7. ASSUME NEW a \in 1..n, Holds(conversation'[id], "text"), Holds(ms[a], "toolUse")
        PROVE  \E j \in 1..n : Results(ms[j], a) /\ phases[j] = "answered"
    <3>1. OpenToolUses = {}
      <4>1. PICK b \in Range(content) : b.kind = "text"
        BY <2>2, <2>7 DEF Holds
      <4>2. \A use : content # <<MessageBlock("toolResult", id, use)>>
        BY <2>6, <4>1
      <4> QED BY <2>1, <4>2
    <3>2. PICK j \in 1..n : \E b \in Range(ms[j].content) : b.use = a /\ phases[j] # "failed"
      <4>1. DOMAIN conversation = 1..n
        BY <1>3 DEF HistoryTypeInv
      <4>2. \E b \in Range(conversation[a].content) : b.kind = "toolUse"
        BY <2>7 DEF Holds
      <4> QED BY <3>1, <4>1, <4>2 DEF OpenToolUses
    <3>3. PICK b \in Range(ms[j].content) : b.use = a /\ phases[j] # "failed"
      BY <3>2
    <3>4. ms[j].role = "user" /\ b.kind = "toolResult"
      BY <3>3, UseIsResult
    <3>5. phases[j] # "none"
      BY <3>4 DEF WrittenInv, Written
    <3>6. phases[j] \in Phases
      BY <1>2
    <3>7. phases[j] = "answered"
      BY <2>5, <3>3, <3>5, <3>6 DEF Phases, InProgress
    <3> QED BY <3>3, <3>4, <3>7 DEF Results
  <2>8. ASSUME NEW use, Results(conversation'[id], use)
        PROVE  /\ use \in 1..n /\ Holds(ms[use], "toolUse")
               /\ \A j \in 1..n : Results(ms[j], use) => phases[j] # "answered"
    <3>1. PICK b \in Range(content) : b.kind = "toolResult" /\ b.use = use
      BY <2>2, <2>8 DEF Results
    <3>2. use \in OpenToolUses
      BY <2>1, <2>6, <3>1
    <3>3. DOMAIN conversation = 1..n
      BY <1>3 DEF HistoryTypeInv
    <3> QED BY <3>2, <3>3 DEF OpenToolUses, Holds, Results
  <2> HIDE DEF ms, phases, n, id
  <2>9. Len(conversation') = n + 1
    BY <2>2 DEF id
  <2>10. Len(ms) \in Nat /\ Len(conversation') = Len(ms) + 1
    BY <1>2, <2>9 DEF n
  <2>11. InTurn(ms, phases) /\ Shapes(ms) /\ Shapes(conversation')
    BY <1>2, <1>4
  <2>12. \A j \in 1..Len(ms) : ~InProgress(phases[j])
    BY <2>5 DEF n
  <2>13. \A j \in 1..Len(ms) : conversation'[j] = ms[j]
    BY <2>2 DEF n
  <2>14. conversation'[Len(ms) + 1].role = "user" /\ invocation'[Len(ms) + 1] = "invoked"
    BY <2>2, <2>4 DEF n, id
  <2>15. \A a \in 1..Len(ms) : Holds(conversation'[Len(ms) + 1], "text") /\ Holds(ms[a], "toolUse") =>
             \E j \in 1..Len(ms) : Results(ms[j], a) /\ phases[j] = "answered"
    BY <2>7 DEF n, id
  <2>16. \A use : Results(conversation'[Len(ms) + 1], use) =>
             /\ use \in 1..Len(ms) /\ Holds(ms[use], "toolUse")
             /\ \A j \in 1..Len(ms) : Results(ms[j], use) => phases[j] # "answered"
    BY <2>8 DEF n, id
  <2>17. \A j \in 1..Len(ms) : invocation'[j] = phases[j]
    BY <2>4 DEF n
  <2> QED BY <2>10, <2>11, <2>12, <2>13, <2>14, <2>15, <2>16, <2>17, InTurnAsked
<1>7. ASSUME NEW i \in MessageIds, Answered(i) PROVE InTurn(conversation', invocation')
  <2>1. PICK content : Write("assistant", content, i)
    BY <1>7 DEF Answered
  <2>2. /\ id \in MessageIds /\ Len(conversation') = n + 1
        /\ \A j \in 1..n : conversation'[j] = ms[j]
        /\ conversation'[n + 1].role = "assistant" /\ conversation'[n + 1].associatedUserMessageId = i
    <3>1. HistoryTypeInv
      BY <1>3
    <3>2. /\ id \in MessageIds /\ Len(conversation') = n + 1
          /\ \A j \in 1..n : conversation'[j] = ms[j]
          /\ conversation'[n + 1] = [id |-> n + 1, role |-> "assistant", associatedUserMessageId |-> i, content |-> content]
      BY <2>1, <3>1, WriteAppends
    <3> QED BY <3>2
  <2>3. phases[i] = "asking" /\ invocation' = [phases EXCEPT ![i] = "answered"]
    BY <1>7 DEF Answered
  <2>4. i \in 1..n /\ ms[i].role = "user"
    BY <2>3 DEF WrittenInv
  <2>5. /\ invocation'[i] = "answered" /\ \A j \in 1..n : j # i => invocation'[j] = phases[j]
        /\ invocation'[id] = phases[id]
    BY <1>2, <2>2, <2>3, <2>4
  <2>6. phases[id] = "none"
    <3>1. id \notin 1..n
      BY <1>2
    <3> QED BY <2>2, <3>1 DEF WrittenInv
  <2>7. ~InProgress(invocation'[n + 1]) /\ invocation'[n + 1] # "answered"
    BY <2>5, <2>6 DEF InProgress
  <2> HIDE DEF ms, phases, n, id
  <2>8. Len(ms) \in Nat /\ i \in 1..Len(ms)
    BY <1>2, <2>4 DEF n
  <2>9. phases[i] = "asking"
    BY <2>3
  <2>10. ms[i].role = "user"
    BY <2>4
  <2>11. InTurn(ms, phases) /\ Shapes(ms) /\ Shapes(conversation')
    BY <1>2, <1>4
  <2>12. Len(conversation') = Len(ms) + 1 /\ \A j \in 1..Len(ms) : conversation'[j] = ms[j]
    BY <2>2 DEF n
  <2>13. /\ conversation'[Len(ms) + 1].role = "assistant"
         /\ conversation'[Len(ms) + 1].associatedUserMessageId = i
    BY <2>2 DEF n
  <2>14. invocation'[i] = "answered"
    BY <2>5
  <2>15. \A j \in 1..Len(ms) : j # i => invocation'[j] = phases[j]
    BY <2>5 DEF n
  <2>16. ~InProgress(invocation'[Len(ms) + 1])
    BY <2>7 DEF n
  <2>17. invocation'[Len(ms) + 1] # "answered"
    BY <2>7 DEF n
  <2> QED BY <2>8, <2>9, <2>10, <2>11, <2>12, <2>13, <2>14, <2>15, <2>16, <2>17, InTurnAnswered
<1>8. ASSUME NEW i \in MessageIds, BecomesVisible(i) \/ AsksBedrock(i) \/ InvocationFails(i)
      PROVE  InTurn(conversation', invocation')
  BY <1>2, <1>5, <1>8 DEF BecomesVisible, AsksBedrock, InvocationFails, InProgress
<1>9. CASE UNCHANGED historyVars
  BY <1>5, <1>9 DEF historyVars
<1> QED BY <1>6, <1>7, <1>8, <1>9 DEF HistoryNext

\* A user who waits is sent whole turns: a message and its answer, and the message
\* to answer as the last.
LEMMA TurnsAre ==
    ASSUME WrittenInv, InTurn(conversation, invocation),
           NEW i \in 1..Len(conversation), invocation[i] = "invoked"
    PROVE  /\ i = Len(conversation)
           /\ \A k \in 1..Len(conversation) : Len(Groups(conversation, i)[k]) = 1 => k = i
           /\ \A a \in 1..Len(conversation) : conversation[a].role = "assistant" =>
                 a - 1 \in 1..Len(conversation) /\ Len(Groups(conversation, i)[a - 1]) = 2
<1> DEFINE n == Len(conversation)
           groups == Groups(conversation, i)
<1>1. n \in Nat /\ DOMAIN conversation = 1..n
  BY DEF WrittenInv, HistoryTypeInv
<1>2. i = n
  BY DEF InTurn, Waits, InProgress
<1>3. \A k \in 1..n : conversation[k].id = k
  BY ContentWritten
<1>4. \A k \in 1..n : groups[k] = IF IsKept(conversation, conversation[k], i)
                                  THEN WithAnswer(conversation, conversation[k]) ELSE <<>>
  BY <1>1 DEF Groups
<1>5. /\ Len(<<>>) = 0
      /\ \A x, y : Len(<<x>>) = 1 /\ Len(<<x, y>>) = 2
  OBVIOUS
<1> HIDE DEF groups, n
<1>6. ASSUME NEW k \in 1..n, Len(groups[k]) = 1 PROVE k = i
  <2>1. groups[k] # <<>>
    BY <1>5, <1>6
  <2>2. IsKept(conversation, conversation[k], i) /\ groups[k] = WithAnswer(conversation, conversation[k])
    BY <1>4, <2>1
  <2>3. AnswersTo(conversation, conversation[k].id) = {}
    <3> SUFFICES ASSUME AnswersTo(conversation, conversation[k].id) # {} PROVE FALSE
      OBVIOUS
    <3>1. \E x, y : groups[k] = <<x, y>>
      BY <2>2 DEF WithAnswer
    <3> QED BY <1>5, <1>6, <3>1
  <2> QED BY <1>3, <2>2, <2>3 DEF IsKept
<1>7. ASSUME NEW a \in 1..n, conversation[a].role = "assistant"
      PROVE  a - 1 \in 1..n /\ Len(groups[a - 1]) = 2
  <2>1. a > 1 /\ conversation[a].associatedUserMessageId = a - 1 /\ invocation[a - 1] = "answered"
    BY <1>7 DEF InTurn, AnswersNext, n
  <2>2. a - 1 \in 1..n
    BY <1>1, <2>1
  <2>3. conversation[a - 1].role = "user"
    <3>1. a - 1 \in MessageIds
      BY <2>2, MaxMessagesAssumption DEF MessageIds, WrittenInv, HistoryTypeInv, n
    <3> QED BY <2>1, <3>1 DEF WrittenInv
  <2>4. a \in AnswersTo(conversation, conversation[a - 1].id)
    BY <1>1, <1>3, <1>7, <2>1, <2>2 DEF AnswersTo, IsAnswer
  <2>5. IsKept(conversation, conversation[a - 1], i)
    BY <2>3, <2>4 DEF IsKept
  <2>6. \E x, y : WithAnswer(conversation, conversation[a - 1]) = <<x, y>>
    BY <2>4 DEF WithAnswer
  <2> QED BY <1>4, <1>5, <2>2, <2>5, <2>6
<1> QED BY <1>2, <1>6, <1>7 DEF n, groups

LEMMA ListedAll ==
    ASSUME WrittenInv, visible = DOMAIN conversation, NEW i \in 1..Len(conversation)
    PROVE  Retrieve(i) = conversation
<1>1. conversation \in Seq(Messages) /\ DOMAIN conversation = 1..Len(conversation)
  BY DEF WrittenInv, HistoryTypeInv
<1>2. Those(conversation, DOMAIN conversation) = conversation
  BY <1>1, ThoseAll
<1> QED BY <1>1, <1>2 DEF Retrieve, ListMessages

\* The messages sent in turns: an answer follows each user message but the last,
\* and it is the latest before the next.
TurnByTurn(ordered) ==
    \A p \in 1..Len(ordered) : ordered[p].role = "user" =>
        /\ p < Len(ordered) => ordered[p + 1].role = "assistant"
        /\ p > 1 => Origin(ordered[p - 1]) < Origin(ordered[p])
        /\ \A a \in 1..Len(conversation) :
              conversation[a].role = "assistant" /\ a < Origin(ordered[p]) =>
                  p > 1 /\ a <= Origin(ordered[p - 1])

LEMMA OrderedInTurn ==
    ASSUME WrittenInv, InTurn(conversation, invocation), visible = DOMAIN conversation,
           NEW i \in 1..Len(conversation), invocation[i] = "invoked"
    PROVE  TurnByTurn(Ordered(Retrieve(i), i))
<1> DEFINE groups == Groups(conversation, i)
           ordered == FlattenSeq(groups)
           n == Len(conversation)
<1>1. Retrieve(i) = conversation /\ Retrieved(conversation, i)
  <2>1. Retrieve(i) = conversation
    BY ListedAll
  <2>2. Retrieved(Retrieve(i), i)
    BY RetrieveIs
  <2> QED BY <2>1, <2>2
<1>2. groups \in Seq(Seq(Stripped)) /\ Len(groups) = n /\ \A k \in 1..n : GroupIs(groups[k], conversation[k])
  BY <1>1, GroupsAre
<1>3. Apart(groups, conversation)
  BY <1>1, GroupsApart
<1>4. /\ i = n
      /\ \A k \in 1..n : Len(groups[k]) = 1 => k = n
      /\ \A a \in 1..n : conversation[a].role = "assistant" => a - 1 \in 1..n /\ Len(groups[a - 1]) = 2
  BY TurnsAre
<1>5. Ordered(Retrieve(i), i) = ordered
  BY <1>1 DEF Ordered, Groups
<1>6. \A k \in 1..n : conversation[k].id = k
  BY ContentWritten
<1> HIDE DEF groups
<1>7. ordered \in Seq(Stripped)
  BY <1>2, FlattenType
<1>8. PICK off : Places(off, groups, ordered)
  BY <1>2, FlattenPlaces
<1> HIDE DEF ordered, n
<1>9. DOMAIN ordered = 1..Len(ordered) /\ Len(ordered) \in Nat /\ n \in Nat
  BY <1>2, <1>7
<1>10. \A k \in 1..n : Len(groups[k]) \in {0, 1, 2}
  BY <1>2 DEF GroupIs
<1>11. \A k \in 1..n : \A j \in 1..Len(groups[k]) :
          /\ j \in {1, 2}
          /\ j = 1 => groups[k][j].role = "user" /\ Origin(groups[k][j]) = k
          /\ j = 2 => groups[k][j].role = "assistant" /\ Origin(groups[k][j]) = k + 1
                      /\ conversation[k + 1].role = "assistant" /\ k + 1 \in 1..n
  <2> SUFFICES ASSUME NEW k \in 1..n, NEW j \in 1..Len(groups[k])
               PROVE  /\ j \in {1, 2}
                      /\ j = 1 => groups[k][j].role = "user" /\ Origin(groups[k][j]) = k
                      /\ j = 2 => /\ groups[k][j].role = "assistant" /\ Origin(groups[k][j]) = k + 1
                                  /\ conversation[k + 1].role = "assistant" /\ k + 1 \in 1..n
    OBVIOUS
  <2> DEFINE e == groups[k][j]
             at == Origin(e)
  <2>1. /\ at \in 1..n /\ e = Strip(conversation[at])
        /\ j = 1 => e.role = "user" /\ at = conversation[k].id
        /\ j = 2 => e.role = "assistant" /\ conversation[at].associatedUserMessageId = conversation[k].id
    BY <1>2, <1>3 DEF Apart, n
  <2>2. j \in {1, 2}
    <3>1. Len(groups[k]) \in {0, 1, 2}
      BY <1>10
    <3>2. CASE Len(groups[k]) = 0
      BY <3>2
    <3>3. CASE Len(groups[k]) = 1
      BY <3>3
    <3>4. CASE Len(groups[k]) = 2
      BY <3>4
    <3> QED BY <3>1, <3>2, <3>3, <3>4
  <2> HIDE DEF e, at
  <2>3. ASSUME j = 2 PROVE at = k + 1 /\ conversation[at].role = "assistant"
    <3>1. conversation[at].role = "assistant" /\ conversation[at].associatedUserMessageId = k
      BY <1>6, <2>1, <2>3, StripIs DEF n
    <3>2. conversation[at].associatedUserMessageId = at - 1
      BY <2>1, <3>1 DEF InTurn, AnswersNext, n
    <3> QED BY <1>9, <2>1, <3>1, <3>2
  <2> QED BY <1>6, <2>1, <2>2, <2>3 DEF e, at
<1> DEFINE Start(m) == off[m - 1]
           End(m) == off[m]
           Size(m) == Len(groups[m])
<1>12. /\ \A m \in 1..n : /\ Start(m) \in Nat /\ End(m) \in Nat /\ Size(m) \in {0, 1, 2}
                          /\ End(m) = Start(m) + Size(m)
       /\ End(n) = Len(ordered)
  <2>1. off \in [0..n -> Nat] /\ off[n] = Len(ordered)
        /\ \A m \in 1..n : off[m] = off[m - 1] + Len(groups[m])
    BY <1>2, <1>8 DEF Places
  <2>2. \A m \in 1..n : m - 1 \in 0..n /\ m \in 0..n
    BY <1>9
  <2> QED BY <1>10, <2>1, <2>2
<1>13. \A m \in 1..n : \A j \in 1..Size(m) :
          Start(m) + j \in 1..Len(ordered) /\ ordered[Start(m) + j] = groups[m][j]
  BY <1>2, <1>8 DEF Places
<1>14. \A p \in 1..Len(ordered) : \E m \in 1..n : \E j \in 1..Size(m) : p = Start(m) + j
  BY <1>2, <1>8 DEF Places
<1>15. \A a, b \in 1..n : a < b => End(a) <= Start(b)
  <2>1. \A a \in 0..n : \A b \in a..n : off[a] <= off[b]
    BY <1>2, <1>8, PlacesInOrder
  <2>2. \A a, b \in 1..n : a < b => a \in 0..n /\ b - 1 \in a..n
    BY <1>9
  <2> QED BY <2>1, <2>2
<1>16. \A k \in 1..n : Size(k) = 1 => k = n
  BY <1>4
<1>17. \A a \in 1..n : conversation[a].role = "assistant" => a - 1 \in 1..n /\ Size(a - 1) = 2
  BY <1>4
<1>18. \A k \in 1..n : \A j \in 1..Size(k) :
          /\ j \in {1, 2}
          /\ j = 1 => groups[k][j].role = "user" /\ Origin(groups[k][j]) = k
          /\ j = 2 => /\ groups[k][j].role = "assistant" /\ Origin(groups[k][j]) = k + 1
                      /\ conversation[k + 1].role = "assistant" /\ k + 1 \in 1..n
  BY <1>11
<1> HIDE DEF Start, End, Size
<1>20. \A s : s \in {0, 1, 2} => s \in Nat
  OBVIOUS
<1>19. ASSUME NEW p \in 1..Len(ordered), ordered[p].role = "user"
       PROVE  /\ p < Len(ordered) => ordered[p + 1].role = "assistant"
              /\ p > 1 => Origin(ordered[p - 1]) < Origin(ordered[p])
              /\ \A a \in 1..n :
                    conversation[a].role = "assistant" /\ a < Origin(ordered[p]) =>
                        p > 1 /\ a <= Origin(ordered[p - 1])
  <2>1. PICK m \in 1..n : \E j \in 1..Size(m) : p = Start(m) + j
    BY <1>14
  <2>2. PICK j \in 1..Size(m) : p = Start(m) + j
    BY <2>1
  <2>3. ordered[p] = groups[m][j]
    BY <1>13, <2>2
  <2>4. j = 1 /\ Origin(ordered[p]) = m
    <3>1. j # 2
      BY <1>18, <1>19, <2>3
    <3>2. j = 1
      BY <1>18, <3>1
    <3> QED BY <1>18, <2>3, <3>2
  <2>5. /\ m \in Nat /\ Start(m) \in Nat /\ End(m) \in Nat /\ End(m) = Start(m) + Size(m)
        /\ Size(m) \in {0, 1, 2} /\ p \in Nat
    BY <1>9, <1>12
  <2>6. p = Start(m) + 1 /\ p - 1 = Start(m) /\ p + 1 = Start(m) + 2
    BY <2>2, <2>4, <2>5
  <2>7. ASSUME p < Len(ordered) PROVE ordered[p + 1].role = "assistant"
    <3>1. Size(m) # 1
      <4> SUFFICES ASSUME Size(m) = 1 PROVE FALSE
        OBVIOUS
      <4>1. m = n
        BY <1>16
      <4>2. End(m) = Len(ordered)
        BY <1>12, <4>1
      <4> QED BY <2>5, <2>6, <2>7, <4>2
    <3>2. Size(m) # 0
      OBVIOUS
    <3>3. 2 \in 1..Size(m)
      BY <2>5, <3>1, <3>2
    <3>4. ordered[Start(m) + 2] = groups[m][2]
      BY <1>13, <3>3
    <3> QED BY <1>18, <2>6, <3>3, <3>4
  <2>8. ASSUME p > 1
        PROVE  \E q \in 1..(m - 1) : \E x \in 1..Size(q) :
                   ordered[p - 1] = groups[q][x] /\ p - 1 = Start(q) + x
    <3>1. p - 1 \in 1..Len(ordered)
      BY <1>9, <2>8
    <3>2. PICK q \in 1..n : \E x \in 1..Size(q) : p - 1 = Start(q) + x
      BY <1>14, <3>1
    <3>3. PICK x \in 1..Size(q) : p - 1 = Start(q) + x
      BY <3>2
    <3>4. q \in Nat /\ Start(q) \in Nat /\ Size(q) \in Nat /\ End(q) = Start(q) + Size(q)
      <4>1. Size(q) \in {0, 1, 2} /\ Start(q) \in Nat /\ End(q) = Start(q) + Size(q)
        BY <1>12
      <4>2. Size(q) \in Nat
        BY <1>20, <4>1, Zenon
      <4>3. q \in Nat
        BY <1>9
      <4> QED BY <4>1, <4>2, <4>3
    <3>5. Start(q) < Start(m)
      BY <2>5, <2>6, <3>3, <3>4
    <3>6. ~(m < q)
      <4>1. m < q => End(m) <= Start(q)
        BY <1>15
      <4>2. Start(m) <= End(m)
        BY <2>5
      <4> QED BY <2>5, <3>4, <3>5, <4>1, <4>2
    <3>7. q # m
      BY <2>5, <3>5
    <3>8. q \in 1..(m - 1)
      BY <2>5, <3>4, <3>6, <3>7
    <3> QED BY <1>13, <3>3, <3>8
  <2>9. conversation[m].role = "user"
    <3>1. /\ Origin(groups[m][j]) \in 1..n
          /\ groups[m][j] = Strip(conversation[Origin(groups[m][j])])
      BY <1>2, <1>3 DEF Apart, n, Size
    <3>2. ordered[p] = Strip(conversation[m])
      BY <2>3, <2>4, <3>1
    <3> QED BY <1>19, <3>2, StripIs DEF n
  <2>10. ASSUME p > 1 PROVE Origin(ordered[p - 1]) < Origin(ordered[p])
    <3>1. PICK q \in 1..(m - 1) : \E x \in 1..Size(q) : ordered[p - 1] = groups[q][x]
      BY <2>8, <2>10
    <3>2. PICK x \in 1..Size(q) : ordered[p - 1] = groups[q][x]
      BY <3>1
    <3>3. q \in 1..n /\ q < m /\ q \in Nat
      BY <1>9, <2>5
    <3>4. Origin(ordered[p - 1]) = q \/ (Origin(ordered[p - 1]) = q + 1 /\ conversation[q + 1].role = "assistant")
      BY <1>18, <3>2, <3>3
    <3>5. q + 1 # m \/ conversation[q + 1].role # "assistant"
      BY <2>9
    <3> QED BY <2>4, <2>5, <3>3, <3>4, <3>5
  <2>11. ASSUME NEW a \in 1..n, conversation[a].role = "assistant", a < m
         PROVE  p > 1 /\ a <= Origin(ordered[p - 1])
    <3>1. PICK k \in 1..n : k = a - 1
      BY <1>17, <2>11
    <3>2. a = k + 1 /\ a \in Nat /\ k \in Nat /\ k < m
      BY <1>9, <2>11, <3>1
    <3>3. Size(k) = 2 /\ End(k) = Start(k) + 2 /\ Start(k) \in Nat /\ End(k) \in Nat /\ End(k) <= Start(m)
      <4>1. Size(k) = 2
        BY <1>17, <2>11, <3>1
      <4>2. End(k) = Start(k) + Size(k) /\ Start(k) \in Nat /\ End(k) \in Nat
        BY <1>12
      <4>3. End(k) <= Start(m)
        BY <1>15, <3>2
      <4> QED BY <4>1, <4>2, <4>3
    <3>4. p > 1
      BY <2>5, <2>6, <3>3
    <3>5. PICK q \in 1..(m - 1) : \E x \in 1..Size(q) :
              ordered[p - 1] = groups[q][x] /\ p - 1 = Start(q) + x
      BY <2>8, <3>4
    <3>6. PICK x \in 1..Size(q) : ordered[p - 1] = groups[q][x] /\ p - 1 = Start(q) + x
      BY <3>5
    <3>7. q \in 1..n /\ q \in Nat
      BY <1>9, <2>5
    <3>8. End(q) = Start(q) + Size(q) /\ Start(q) \in Nat /\ End(q) \in Nat /\ Size(q) \in {0, 1, 2}
      BY <1>12, <3>7
    <3>9. x \in {1, 2} /\ x <= Size(q)
      <4>1. x \in {1, 2}
        BY <1>18, <3>7
      <4> QED BY <3>8, <4>1
    <3>10. ~(q < k)
      <4>1. q < k => End(q) <= Start(k)
        BY <1>15, <3>7
      <4>2. Start(m) <= End(q)
        <5>1. p - 1 = Start(m)
          BY <2>6
        <5>2. Start(m) = Start(q) + x
          BY <3>6, <5>1
        <5>3. Size(q) \in Nat
          BY <1>20, <3>8, Zenon
        <5>4. x \in {0, 1, 2}
          BY <3>9, Zenon
        <5>5. x \in Nat
          BY <1>20, <5>4, Zenon
        <5>6. x <= Size(q) /\ Start(q) \in Nat /\ End(q) = Start(q) + Size(q)
          BY <3>8, <3>9
        <5> HIDE DEF Start, End, Size
        <5>7. \A s, e, z, u, v : s \in Nat /\ z \in Nat /\ u \in Nat /\ u <= z /\ e = s + z /\ v = s + u => v <= e
          OBVIOUS
        <5> QED BY <5>2, <5>3, <5>5, <5>6, <5>7, Zenon
      <4> QED BY <2>5, <3>3, <3>8, <4>1, <4>2
    <3>11. CASE k < q
      <4>1. Origin(ordered[p - 1]) = q \/ Origin(ordered[p - 1]) = q + 1
        BY <1>18, <3>6, <3>7, <3>9
      <4> QED BY <3>2, <3>4, <3>7, <3>11, <4>1
    <3>12. CASE k = q
      <4>1. Start(m) = Start(q) + x
        BY <2>5, <2>6, <3>6
      <4>2. x = 2
        BY <2>5, <3>3, <3>8, <3>9, <3>12, <4>1
      <4>3. Origin(ordered[p - 1]) = q + 1
        BY <1>18, <3>6, <3>7, <4>2
      <4> QED BY <3>2, <3>4, <3>12, <4>3
    <3> QED BY <3>2, <3>7, <3>10, <3>11, <3>12
  <2> QED BY <2>4, <2>7, <2>10, <2>11
<1>21. TurnByTurn(ordered)
  BY <1>19 DEF TurnByTurn, n
<1> QED BY <1>5, <1>21

HoldsOnly(m, kind) == \A b \in Range(m.content) : b.kind = kind

\* A question behind a text, or a tool result behind the use of the tool.
UserAt(ms, p) ==
    /\ ms[p].role = "user"
    /\ \E b : /\ Range(ms[p].content) = {b}
              /\ \/ b.kind = "text" /\ (p > 1 => HoldsOnly(ms[p - 1], "text"))
                 \/ /\ b.kind = "toolResult" /\ p > 1
                    /\ \E c \in Range(ms[p - 1].content) : c.kind = "toolUse" /\ c.of = b.use

AnswerAt(ms, p) ==
    /\ ms[p].role = "assistant" /\ ms[p].content # <<>>
    /\ \A b \in Range(ms[p].content) : b.kind = "text" \/ b.kind = "toolUse"

\* What a user who waits is sent, before earlier turns are squashed.
Proper(ms) ==
    \A p \in 1..Len(ms) : (p % 2 = 1 => UserAt(ms, p)) /\ (p % 2 = 0 => AnswerAt(ms, p))

LEMMA OrderedProper ==
    ASSUME WrittenInv, InTurn(conversation, invocation),
           NEW i, NEW ordered, OrderedHistory(ordered, i), TurnByTurn(ordered)
    PROVE  Proper(ordered)
<1> DEFINE n == Len(ordered)
           At(p) == Origin(ordered[p])
<1>1. /\ n \in Nat /\ Len(conversation) \in Nat
      /\ \A p \in 1..n : /\ At(p) \in 1..Len(conversation) /\ At(p) \in Nat
                         /\ ordered[p].role = conversation[At(p)].role
                         /\ ordered[p].content = conversation[At(p)].content
  <2>1. /\ ordered \in Seq(Stripped)
        /\ \A p \in 1..n : At(p) \in 1..Len(conversation) /\ ordered[p] = Strip(conversation[At(p)])
    BY DEF OrderedHistory
  <2>2. Len(conversation) \in Nat
    BY DEF WrittenInv, HistoryTypeInv
  <2> QED BY <2>1, <2>2, StripIs
<1>2. \A p \in 1..n : ordered[p].role = "assistant" => p > 1 /\ ordered[p - 1].role = "user"
  BY DEF OrderedHistory
<1>3. \A p \in 1..n : ordered[p].role = "user" =>
          /\ p < n => ordered[p + 1].role = "assistant"
          /\ p > 1 => At(p - 1) < At(p)
          /\ \A a \in 1..Len(conversation) :
                conversation[a].role = "assistant" /\ a < At(p) => p > 1 /\ a <= At(p - 1)
  BY DEF TurnByTurn
<1>4. Shapes(conversation)
  BY ShapesAre
<1> HIDE DEF n, At
<1>5. \A p \in 1..n : ordered[p].role = "user" \/ ordered[p].role = "assistant"
  BY <1>1, <1>4 DEF Shapes
<1>6. \A p \in 1..n : ordered[p].role = IF p % 2 = 1 THEN "user" ELSE "assistant"
  <2> DEFINE Rolled(p) == ordered[p].role = IF p % 2 = 1 THEN "user" ELSE "assistant"
             T == {p \in 0..n : p # 0 => Rolled(p)}
  <2>1. 0 \in T
    BY <1>1
  <2>2. ASSUME NEW p \in 0..(n - 1), p \in T PROVE p + 1 \in T
    <3>1. p + 1 \in 1..n /\ p + 1 \in 0..n /\ p \in Nat /\ (p + 1) - 1 = p
      BY <1>1
    <3>2. CASE p = 0
      <4>1. ordered[p + 1].role = "user"
        BY <1>2, <1>5, <3>1, <3>2
      <4> QED BY <3>1, <3>2, <4>1
    <3>3. CASE p # 0 /\ p % 2 = 1
      <4>1. p \in 1..n /\ p < n /\ Rolled(p)
        BY <1>1, <2>2, <3>1, <3>3
      <4>2. ordered[p + 1].role = "assistant"
        BY <1>3, <3>3, <4>1
      <4>3. (p + 1) % 2 # 1
        BY <3>1, <3>3
      <4> QED BY <3>1, <4>2, <4>3
    <3>4. CASE p # 0 /\ p % 2 # 1
      <4>1. Rolled(p)
        BY <2>2, <3>4
      <4>2. ordered[p + 1].role = "user"
        BY <1>2, <1>5, <3>1, <3>4, <4>1
      <4>3. (p + 1) % 2 = 1
        BY <3>1, <3>4
      <4> QED BY <3>1, <4>2, <4>3
    <3> QED BY <3>2, <3>3, <3>4
  <2> HIDE DEF T
  <2>3. \A p \in 0..n : p \in T
    BY <1>1, <2>1, <2>2, InductionUpTo
  <2> QED BY <1>1, <2>3 DEF T
<1>7. ASSUME NEW p \in 1..n, p % 2 = 1 PROVE UserAt(ordered, p)
  <2> DEFINE q == At(p)
             a == At(p - 1)
  <2>1. q \in 1..Len(conversation) /\ ordered[p].role = "user" /\ ordered[p].content = conversation[q].content
    BY <1>1, <1>6, <1>7
  <2>2. PICK b : Range(ordered[p].content) = {b} /\ IsUserBlock(b, q)
    BY <1>1, <1>4, <2>1 DEF Shapes
  <2>3. ASSUME p > 1
        PROVE  /\ a \in 1..(q - 1) /\ IsAnswerAt(conversation, a)
               /\ ordered[p - 1].content = conversation[a].content
               /\ \A l \in 1..(q - 1) : IsAnswerAt(conversation, l) => l <= a
    <3>1. p - 1 \in 1..n /\ (p - 1) % 2 # 1
      BY <1>1, <1>7, <2>3
    <3>2. /\ a \in 1..Len(conversation) /\ ordered[p - 1].content = conversation[a].content
          /\ conversation[a].role = "assistant"
      BY <1>1, <1>6, <3>1
    <3>3. a < q
      BY <1>3, <2>1, <2>3
    <3>4. \A l \in 1..(q - 1) : IsAnswerAt(conversation, l) => l <= a
      BY <1>1, <1>3, <2>1 DEF IsAnswerAt
    <3> QED BY <1>1, <2>1, <3>2, <3>3, <3>4 DEF IsAnswerAt
  <2>4. \A kind : Holds(conversation[q], kind) <=> b.kind = kind
    BY <2>1, <2>2 DEF Holds
  <2>5. ASSUME b.kind = "text", p > 1 PROVE HoldsOnly(ordered[p - 1], "text")
    <3> SUFFICES ASSUME NEW c \in Range(ordered[p - 1].content), c.kind # "text" PROVE FALSE
      BY DEF HoldsOnly
    <3>1. /\ a \in 1..(q - 1) /\ IsAnswerAt(conversation, a)
          /\ ordered[p - 1].content = conversation[a].content
          /\ \A l \in 1..(q - 1) : IsAnswerAt(conversation, l) => l <= a
      BY <2>3, <2>5
    <3>2. c.kind = "toolUse"
      BY <1>4, <3>1 DEF Shapes, IsAnswerAt
    <3>3. Holds(conversation[a], "toolUse")
      BY <3>1, <3>2 DEF Holds
    <3>4. Holds(conversation[q], "text") /\ conversation[q].role = "user"
      BY <1>1, <2>1, <2>4, <2>5
    <3>5. PICK l \in (a + 1)..(q - 1) : IsAnswerAt(conversation, l)
      BY <2>1, <3>1, <3>3, <3>4 DEF InTurn, QuestionsWait
    <3> QED BY <1>1, <2>1, <3>1, <3>5
  <2>6. ASSUME b.kind = "toolResult"
        PROVE  p > 1 /\ \E c \in Range(ordered[p - 1].content) : c.kind = "toolUse" /\ c.of = b.use
    <3>1. Results(conversation[q], b.use)
      BY <2>1, <2>2, <2>6 DEF Results
    <3>2. /\ b.use \in 1..(q - 1) /\ conversation[b.use].role = "assistant"
          /\ Holds(conversation[b.use], "toolUse")
          /\ \A l \in (b.use + 1)..(q - 1) : ~IsAnswerAt(conversation, l)
      BY <2>1, <3>1 DEF InTurn, ResultsNext
    <3>3. b.use \in 1..Len(conversation) /\ b.use < q
      BY <1>1, <2>1, <3>2
    <3>4. p > 1 /\ b.use <= a
      BY <1>3, <2>1, <3>2, <3>3
    <3>5. /\ a \in 1..(q - 1) /\ IsAnswerAt(conversation, a)
          /\ ordered[p - 1].content = conversation[a].content
      BY <2>3, <3>4
    <3>6. a = b.use
      BY <1>1, <2>1, <3>2, <3>3, <3>4, <3>5
    <3>7. PICK c \in Range(conversation[a].content) : c.kind = "toolUse"
      BY <3>2, <3>6 DEF Holds
    <3>8. c.of = a
      BY <1>4, <3>5, <3>7 DEF Shapes, IsAnswerAt
    <3> QED BY <3>4, <3>5, <3>6, <3>7, <3>8
  <2> QED BY <2>1, <2>2, <2>5, <2>6 DEF UserAt, IsUserBlock
<1>8. ASSUME NEW p \in 1..n, p % 2 = 0 PROVE AnswerAt(ordered, p)
  <2>1. At(p) \in 1..Len(conversation) /\ ordered[p].role = "assistant"
    BY <1>1, <1>6, <1>8
  <2>2. conversation[At(p)].role = "assistant" /\ ordered[p].content = conversation[At(p)].content
    BY <1>1, <2>1
  <2>3. conversation[At(p)].content # <<>>
    <3>1. Len(conversation[At(p)].content) # 0
      BY <2>1, ContentWritten
    <3> QED BY <3>1
  <2> QED BY <1>4, <2>1, <2>2, <2>3 DEF AnswerAt, Shapes
<1> QED BY <1>7, <1>8 DEF Proper, n

\* The two ways in which a message is squashed, when it has a text.
LEMMA SquashCases ==
    ASSUME NEW sq \in Seq(Stripped), NEW m \in Stripped
    PROVE  /\ NonToolContent(m.content) = <<>> => Squash(sq, m) = sq
           /\ NonToolContent(m.content) # <<>> /\ Len(sq) # 0 /\ sq[Len(sq)].role = m.role =>
                 /\ Len(Squash(sq, m)) = Len(sq)
                 /\ \A k \in 1..Len(sq) :
                       /\ Squash(sq, m)[k].role = sq[k].role
                       /\ Range(Squash(sq, m)[k].content) \subseteq
                              Range(sq[k].content) \union Range(NonToolContent(m.content))
           /\ NonToolContent(m.content) # <<>> /\ ~(Len(sq) # 0 /\ sq[Len(sq)].role = m.role) =>
                 Squash(sq, m) = Append(sq, [role |-> m.role, content |-> NonToolContent(m.content)])
<1> DEFINE content == NonToolContent(m.content)
           n == Len(sq)
<1>1. m \in [role : {"user", "assistant"}, content : Seq(Blocks)] /\ content \in Seq(Blocks)
  <2>1. m \in [role : {"user", "assistant"}, content : Seq(Blocks)]
    BY DEF Stripped
  <2>2. m.content \in Seq(Blocks)
    BY <2>1
  <2> QED BY <2>1, <2>2, NonToolContentIs
<1>2. Squash(sq, m) = IF content = <<>> THEN sq
                      ELSE IF sq # <<>> /\ Last(sq).role = m.role
                      THEN [sq EXCEPT ![n].content = @ \o content]
                      ELSE Append(sq, [m EXCEPT !.content = content])
  BY DEF Squash
<1>3. /\ n \in Nat /\ DOMAIN sq = 1..n /\ (sq # <<>> <=> n # 0)
      /\ \A k \in 1..n : sq[k] \in [role : {"user", "assistant"}, content : Seq(Blocks)]
  <2>1. n \in Nat /\ DOMAIN sq = 1..n /\ \A k \in 1..n : sq[k] \in Stripped
    OBVIOUS
  <2>2. sq # <<>> <=> n # 0
    OBVIOUS
  <2>3. \A k \in 1..n : sq[k] \in [role : {"user", "assistant"}, content : Seq(Blocks)]
    BY <2>1 DEF Stripped
  <2> QED BY <2>1, <2>2, <2>3
<1>7. n \in Nat /\ DOMAIN sq = 1..n /\ (sq # <<>> <=> n # 0)
  BY <1>3
<1>4. Last(sq) = sq[n]
  BY DEF Last
<1> HIDE DEF content
<1>5. ASSUME content # <<>>, n # 0, sq[n].role = m.role
      PROVE  /\ Len(Squash(sq, m)) = n
             /\ \A k \in 1..n : /\ Squash(sq, m)[k].role = sq[k].role
                                /\ Range(Squash(sq, m)[k].content) \subseteq
                                       Range(sq[k].content) \union Range(content)
  <2> DEFINE last == sq[n]
             longer == [last EXCEPT !.content = @ \o content]
  <2>1. Squash(sq, m) = [sq EXCEPT ![n] = longer]
    BY <1>2, <1>3, <1>4, <1>5
  <2>2. n \in 1..n /\ last \in [role : {"user", "assistant"}, content : Seq(Blocks)]
    BY <1>3, <1>5
  <2> HIDE DEF last
  <2>3. longer.role = last.role /\ longer.content = last.content \o content
    BY <2>2
  <2>4. last.content \in Seq(Blocks)
    BY <2>2
  <2>5. Range(last.content \o content) \subseteq Range(last.content) \union Range(content)
    BY <1>1, <2>4 DEF Range
  <2> HIDE DEF longer
  <2>6. [sq EXCEPT ![n] = longer] \in [1..n -> {sq[k] : k \in 1..n} \union {longer}]
    BY <1>3
  <2>7. Len([sq EXCEPT ![n] = longer]) = n
    BY <1>3, <2>6, FunctionIsSequence
  <2>8. ASSUME NEW k \in 1..n
        PROVE  /\ Squash(sq, m)[k].role = sq[k].role
               /\ Range(Squash(sq, m)[k].content) \subseteq Range(sq[k].content) \union Range(content)
    <3>1. CASE k = n
      <4>1. Squash(sq, m)[k] = longer
        BY <1>7, <2>1, <3>1
      <4>2. sq[k] = last
        BY <3>1 DEF last
      <4> QED BY <2>3, <2>5, <4>1, <4>2
    <3>2. CASE k # n
      <4>1. Squash(sq, m)[k] = sq[k]
        <5>1. \A f, d, v, x : x \in DOMAIN f /\ x # d => [f EXCEPT ![d] = v][x] = f[x]
          OBVIOUS
        <5>2. k \in DOMAIN sq
          BY <1>7
        <5> QED BY <2>1, <3>2, <5>1, <5>2, Zenon
      <4> QED BY <4>1
    <3> QED BY <3>1, <3>2
  <2>9. Len(Squash(sq, m)) = n
    BY <2>1, <2>7
  <2> QED BY <2>8, <2>9, Zenon
<1>6. ASSUME content # <<>>, ~(n # 0 /\ sq[n].role = m.role)
      PROVE  Squash(sq, m) = Append(sq, [role |-> m.role, content |-> content])
  <2>1. [m EXCEPT !.content = content] = [role |-> m.role, content |-> content]
    BY <1>1
  <2>2. ~(sq # <<>> /\ Last(sq).role = m.role)
    BY <1>4, <1>6, <1>7
  <2> QED BY <1>2, <1>6, <2>1, <2>2
<1> QED BY <1>2, <1>5, <1>6 DEF content

Texts(ms) == \A k \in 1..Len(ms) : HoldsOnly(ms[k], "text")

\* What a message that is squashed adds to texts of users and answers in turns.
LEMMA SquashInTurn ==
    ASSUME NEW sq \in Seq(Stripped), NEW m \in Stripped, Alternates(sq), Texts(sq)
    PROVE  /\ (m.role = "user" /\ Len(sq) % 2 = 0) \/ (m.role = "assistant" /\ Len(sq) # 0) =>
                 Alternates(Squash(sq, m))
           /\ Texts(Squash(sq, m))
           /\ Len(sq) # 0 \/ NonToolContent(m.content) # <<>> => Len(Squash(sq, m)) # 0
           /\ NonToolContent(m.content) = <<>> => Squash(sq, m) = sq
           /\ m.role = "assistant" /\ NonToolContent(m.content) # <<>> /\ Len(sq) # 0 =>
                 Len(Squash(sq, m)) % 2 = 0
<1> DEFINE content == NonToolContent(m.content)
           n == Len(sq)
           next == Squash(sq, m)
           more == [role |-> m.role, content |-> content]
<1>1. m.role \in {"user", "assistant"} /\ content \in Seq(Blocks) /\ \A b \in Range(content) : b.kind = "text"
  <2>1. m \in [role : {"user", "assistant"}, content : Seq(Blocks)]
    BY DEF Stripped
  <2>2. m.content \in Seq(Blocks) /\ m.role \in {"user", "assistant"}
    BY <2>1
  <2> QED BY <2>2, NonToolContentIs
<1>2. /\ content = <<>> => next = sq
      /\ content # <<>> /\ n # 0 /\ sq[n].role = m.role =>
            /\ Len(next) = n
            /\ \A k \in 1..n : next[k].role = sq[k].role
                               /\ Range(next[k].content) \subseteq Range(sq[k].content) \union Range(content)
      /\ content # <<>> /\ ~(n # 0 /\ sq[n].role = m.role) => next = Append(sq, more)
  BY SquashCases
<1>3. n \in Nat /\ DOMAIN sq = 1..n
  OBVIOUS
<1>4. more.role = m.role /\ more.content = content
  OBVIOUS
<1>5. next \in Seq(Stripped)
  BY SquashIs
<1> HIDE DEF content, next, more
<1>6. \A k \in 1..n : sq[k].role = IF k % 2 = 1 THEN "user" ELSE "assistant"
  BY <1>3 DEF Alternates
<1>7. \A k \in 1..n : \A b \in Range(sq[k].content) : b.kind = "text"
  BY DEF Texts, HoldsOnly
<1>8. CASE content = <<>>
  BY <1>2, <1>8 DEF content, next, n
<1>9. CASE content # <<>> /\ n # 0 /\ sq[n].role = m.role
  <2>1. /\ Len(next) = n
        /\ \A k \in 1..n : next[k].role = sq[k].role
                           /\ Range(next[k].content) \subseteq Range(sq[k].content) \union Range(content)
    BY <1>2, <1>9
  <2>2. DOMAIN next = 1..n
    BY <1>5, <2>1
  <2>3. Alternates(next)
    BY <1>6, <2>1, <2>2 DEF Alternates
  <2>4. Texts(next)
    BY <1>1, <1>7, <2>1 DEF Texts, HoldsOnly
  <2>5. m.role = "assistant" => n % 2 = 0
    <3>1. n \in 1..n
      BY <1>3, <1>9
    <3> QED BY <1>3, <1>6, <1>9, <3>1
  <2> QED BY <1>9, <2>1, <2>3, <2>4, <2>5 DEF content, next
<1>10. CASE content # <<>> /\ ~(n # 0 /\ sq[n].role = m.role)
  <2>1. next = Append(sq, more)
    BY <1>2, <1>10
  <2>2. Len(next) = n + 1 /\ DOMAIN next = 1..(n + 1) /\ next[n + 1] = more /\ \A k \in 1..n : next[k] = sq[k]
    BY <2>1
  <2>3. ASSUME m.role = "assistant", n # 0 PROVE n % 2 = 1
    <3>1. n \in 1..n
      BY <1>3, <2>3
    <3> QED BY <1>3, <1>6, <1>10, <2>3, <3>1
  <2>4. ASSUME (m.role = "user" /\ n % 2 = 0) \/ (m.role = "assistant" /\ n # 0) PROVE Alternates(next)
    <3> SUFFICES ASSUME NEW k \in 1..(n + 1)
                 PROVE  next[k].role = IF k % 2 = 1 THEN "user" ELSE "assistant"
      BY <2>2 DEF Alternates
    <3>1. CASE k \in 1..n
      BY <1>6, <2>2, <3>1
    <3>2. CASE k = n + 1
      <4>1. next[k].role = m.role
        BY <1>4, <2>2, <3>2
      <4>2. (n % 2 = 0 <=> (n + 1) % 2 = 1) /\ (n % 2 = 1 <=> (n + 1) % 2 = 0)
        BY <1>3
      <4> QED BY <1>3, <2>3, <2>4, <3>2, <4>1, <4>2
    <3> QED BY <1>3, <3>1, <3>2
  <2>5. Texts(next)
    <3> SUFFICES ASSUME NEW k \in 1..(n + 1), NEW b \in Range(next[k].content) PROVE b.kind = "text"
      BY <2>2 DEF Texts, HoldsOnly
    <3>1. k \in 1..n \/ k = n + 1
      BY <1>3
    <3> QED BY <1>1, <1>4, <1>7, <2>2, <3>1
  <2>6. m.role = "assistant" /\ n # 0 => (n + 1) % 2 = 0
    BY <1>3, <2>3
  <2>7. n + 1 # 0
    BY <1>3
  <2> QED BY <1>10, <2>2, <2>4, <2>5, <2>6, <2>7 DEF content, next
<1> QED BY <1>8, <1>9, <1>10

\* The texts of the first n messages: whole turns, when the last of them is an
\* answer without tool uses.
SquashedWell(sq, ms, n) ==
    /\ sq \in Seq(Stripped)
    /\ Alternates(sq)
    /\ Texts(sq)
    /\ n # 0 => Len(sq) # 0
    /\ n % 2 = 0 /\ (n # 0 => HoldsOnly(ms[n], "text")) => Len(sq) % 2 = 0

LEMMA NextSquashedWell ==
    ASSUME NEW ms \in Seq(Stripped), Proper(ms), NEW m \in 0..(Len(ms) - 1),
           NEW sq, SquashedWell(sq, ms, m)
    PROVE  SquashedWell(Squash(sq, ms[m + 1]), ms, m + 1)
<1> DEFINE p == m + 1
           e == ms[p]
           next == Squash(sq, e)
<1>1. m \in Nat /\ p \in Nat /\ p \in 1..Len(ms) /\ p # 0 /\ p - 1 = m
      /\ (p % 2 = 1 <=> m % 2 = 0) /\ (p % 2 = 0 <=> m % 2 = 1) /\ (p % 2 = 0 \/ p % 2 = 1)
      /\ (p > 1 <=> m # 0)
  OBVIOUS
<1>2. e \in Stripped
  BY <1>1
<1>3. /\ sq \in Seq(Stripped) /\ Alternates(sq) /\ Texts(sq)
      /\ m # 0 => Len(sq) # 0
      /\ m % 2 = 0 /\ (m # 0 => HoldsOnly(ms[m], "text")) => Len(sq) % 2 = 0
  BY DEF SquashedWell
<1>4. next \in Seq(Stripped)
  BY <1>2, <1>3, SquashIs
<1>5. /\ (e.role = "user" /\ Len(sq) % 2 = 0) \/ (e.role = "assistant" /\ Len(sq) # 0) => Alternates(next)
      /\ Texts(next)
      /\ Len(sq) # 0 \/ NonToolContent(e.content) # <<>> => Len(next) # 0
      /\ NonToolContent(e.content) = <<>> => next = sq
      /\ e.role = "assistant" /\ NonToolContent(e.content) # <<>> /\ Len(sq) # 0 => Len(next) % 2 = 0
  BY <1>2, <1>3, SquashInTurn
<1>6. NonToolContent(e.content) # <<>> <=> \E b \in Range(e.content) : b.kind = "text"
  <2>1. e.content \in Seq(Blocks)
    BY <1>2 DEF Stripped
  <2>2. /\ NonToolContent(e.content) \in Seq(Blocks)
        /\ \A b : b \in Range(NonToolContent(e.content)) <=> b \in Range(e.content) /\ b.kind = "text"
    BY <2>1, NonToolContentIs
  <2>3. \A s \in Seq(Blocks) : s # <<>> <=> \E b : b \in Range(s)
    <3>1. \A s \in Seq(Blocks) : s # <<>> => 1 \in DOMAIN s
      OBVIOUS
    <3>2. \A s : 1 \in DOMAIN s => s[1] \in Range(s)
      BY DEF Range
    <3>3. Range(<<>>) = {}
      BY DEF Range
    <3> QED BY <3>1, <3>2, <3>3
  <2> QED BY <2>2, <2>3
<1>7. (p % 2 = 1 => UserAt(ms, p)) /\ (p % 2 = 0 => AnswerAt(ms, p))
  BY <1>1 DEF Proper
<1> HIDE DEF p, e, next
<1>8. CASE p % 2 = 1
  <2>1. e.role = "user"
    BY <1>7, <1>8 DEF UserAt, e
  <2>2. PICK b : /\ Range(e.content) = {b}
                 /\ \/ b.kind = "text" /\ (p > 1 => HoldsOnly(ms[p - 1], "text"))
                    \/ b.kind = "toolResult" /\ p > 1
    BY <1>7, <1>8 DEF UserAt, e
  <2>3. CASE b.kind = "text"
    <3>1. Len(sq) % 2 = 0
      BY <1>1, <1>3, <1>8, <2>2, <2>3
    <3>2. NonToolContent(e.content) # <<>>
      BY <1>6, <2>2, <2>3
    <3>3. Alternates(next) /\ Texts(next) /\ Len(next) # 0
      BY <1>5, <2>1, <3>1, <3>2
    <3> QED BY <1>4, <1>8, <3>3 DEF SquashedWell, p, e, next
  <2>4. CASE b.kind = "toolResult"
    <3>1. NonToolContent(e.content) = <<>>
      BY <1>6, <2>2, <2>4
    <3>2. next = sq
      BY <1>5, <3>1
    <3>3. Alternates(next) /\ Texts(next) /\ Len(next) # 0
      BY <1>1, <1>3, <2>2, <2>4, <3>2
    <3> QED BY <1>4, <1>8, <3>3 DEF SquashedWell, p, e, next
  <2> QED BY <2>2, <2>3, <2>4
<1>9. CASE p % 2 = 0
  <2>1. /\ e.role = "assistant" /\ e.content # <<>>
    BY <1>7, <1>9 DEF AnswerAt, e
  <2>2. Len(sq) # 0
    BY <1>1, <1>3, <1>9
  <2>3. Alternates(next) /\ Texts(next) /\ Len(next) # 0
    BY <1>5, <2>1, <2>2
  <2>4. ASSUME HoldsOnly(e, "text") PROVE Len(next) % 2 = 0
    <3>1. \E b : b \in Range(e.content)
      <4>1. e.content \in Seq(Blocks)
        BY <1>2 DEF Stripped
      <4>2. 1 \in DOMAIN e.content
        BY <2>1, <4>1
      <4> QED BY <4>2 DEF Range
    <3>2. NonToolContent(e.content) # <<>>
      BY <1>6, <2>4, <3>1 DEF HoldsOnly
    <3> QED BY <1>5, <2>1, <2>2, <3>2
  <2> QED BY <1>1, <1>4, <2>3, <2>4 DEF SquashedWell, p, e, next
<1> QED BY <1>1, <1>8, <1>9

LEMMA SquashedInTurn ==
    ASSUME NEW ms \in Seq(Stripped), Proper(ms), NEW n \in 0..Len(ms)
    PROVE  SquashedWell(Squashed(ms, n), ms, n)
<1> DEFINE T == {m \in 0..n : SquashedWell(Squashed(ms, m), ms, m)}
<1>1. n \in Nat /\ Len(ms) \in Nat
  OBVIOUS
<1>2. 0 \in T
  <2>1. Squashed(ms, 0) = <<>>
    BY SquashedNone
  <2>2. <<>> \in Seq(Stripped) /\ Len(<<>>) = 0 /\ DOMAIN <<>> = {} /\ 0 % 2 = 0
    OBVIOUS
  <2>3. SquashedWell(<<>>, ms, 0)
    BY <2>2 DEF SquashedWell, Alternates, Texts
  <2> QED BY <1>1, <2>1, <2>3
<1>3. ASSUME NEW m \in 0..(n - 1), m \in T PROVE m + 1 \in T
  <2> DEFINE sq == Squashed(ms, m)
  <2>1. SquashedWell(sq, ms, m) /\ m \in 0..(Len(ms) - 1) /\ m \in Nat /\ m + 1 \in 0..n
    BY <1>1, <1>3
  <2>2. Squashed(ms, m + 1) = Squash(sq, ms[m + 1])
    BY <2>1, SquashedNext
  <2> HIDE DEF sq
  <2>3. SquashedWell(Squash(sq, ms[m + 1]), ms, m + 1)
    BY <2>1, NextSquashedWell
  <2> QED BY <2>1, <2>2, <2>3
<1> HIDE DEF T
<1>4. \A m \in 0..n : m \in T
  BY <1>1, <1>2, <1>3, InductionUpTo
<1>5. n \in T
  BY <1>1, <1>4
<1> QED BY <1>5 DEF T

\* Earlier turns without their tools, and the current turn with them: accepted.
LEMMA ProperIsAccepted ==
    ASSUME NEW ms \in Seq(Stripped), Proper(ms)
    PROVE  /\ Alternates(SquashNonCurrentTurns(ms))
           /\ ToolResultsFollowUses(SquashNonCurrentTurns(ms))
<1>9. \A k, z, u, l \in Nat : k > z /\ k <= z + ((l - u) + 1) /\ 1 <= u /\ u <= l =>
          /\ (k - z) + (u - 1) \in u..l /\ k - z \in 1..((l - u) + 1)
          /\ z + (k - z) = k /\ (u + (k - z)) - 1 = (k - z) + (u - 1)
  OBVIOUS
<1> DEFINE begins == CurrentTurnBegins(ms)
           n == Len(ms)
           history == SquashNonCurrentTurns(ms)
           sq == Squashed(ms, begins - 1)
<1>1. n \in Nat /\ DOMAIN ms = 1..n /\ \A p \in 1..n : p % 2 = 0 \/ p % 2 = 1
  OBVIOUS
<1>2. \A p \in 1..n : (p % 2 = 1 => UserAt(ms, p)) /\ (p % 2 = 0 => AnswerAt(ms, p))
  BY DEF Proper
<1>3. /\ begins \in 0..n
      /\ begins # 0 => /\ ms[begins].role = "user"
                       /\ \E b \in Range(ms[begins].content) : b.kind = "text"
  BY CurrentTurnIs
<1>4. history = IF begins <= 1 THEN ms ELSE sq \o SubSeq(ms, begins, n)
  BY DEF SquashNonCurrentTurns
<1> HIDE DEF begins, n, history, sq
<1>5. \A p \in 1..n : ms[p].role = IF p % 2 = 1 THEN "user" ELSE "assistant"
  BY <1>1, <1>2 DEF UserAt, AnswerAt
<1>6. \A p \in 1..n : \A b \in Range(ms[p].content) : b.kind = "toolResult" =>
          /\ p > 1 /\ Range(ms[p].content) = {b}
          /\ \E c \in Range(ms[p - 1].content) : c.kind = "toolUse" /\ c.of = b.use
  <2> SUFFICES ASSUME NEW p \in 1..n, NEW b \in Range(ms[p].content), b.kind = "toolResult"
               PROVE  /\ p > 1 /\ Range(ms[p].content) = {b}
                      /\ \E c \in Range(ms[p - 1].content) : c.kind = "toolUse" /\ c.of = b.use
    OBVIOUS
  <2>1. UserAt(ms, p)
    BY <1>1, <1>2 DEF AnswerAt
  <2>2. PICK d : /\ Range(ms[p].content) = {d}
                 /\ \/ d.kind = "text"
                    \/ /\ d.kind = "toolResult" /\ p > 1
                       /\ \E c \in Range(ms[p - 1].content) : c.kind = "toolUse" /\ c.of = d.use
    BY <2>1 DEF UserAt
  <2>3. d = b
    BY <2>2
  <2> QED BY <2>2, <2>3
<1>7. CASE begins <= 1
  <2>1. history = ms
    BY <1>4, <1>7
  <2> QED BY <1>1, <1>5, <1>6, <2>1 DEF Alternates, ToolResultsFollowUses, history
<1>8. CASE begins > 1
  <2> DEFINE size == Len(sq)
             rest == SubSeq(ms, begins, n)
             At(k) == (k - size) + (begins - 1)
  <2>1. begins \in 1..n /\ begins \in Nat /\ begins - 1 \in 0..n /\ begins - 1 # 0 /\ begins # 0
    BY <1>1, <1>3, <1>8
  <2>2. begins % 2 = 1 /\ (begins - 1) % 2 = 0
    <3>1. begins % 2 = 1
      BY <1>3, <1>5, <2>1
    <3> QED BY <2>1, <3>1
  <2>3. HoldsOnly(ms[begins - 1], "text") /\ \A b \in Range(ms[begins].content) : b.kind = "text"
    <3>1. UserAt(ms, begins)
      BY <1>2, <2>1, <2>2
    <3>2. PICK b \in Range(ms[begins].content) : b.kind = "text"
      BY <1>3, <2>1
    <3>3. PICK d : /\ Range(ms[begins].content) = {d}
                   /\ \/ d.kind = "text" /\ (begins > 1 => HoldsOnly(ms[begins - 1], "text"))
                      \/ d.kind = "toolResult"
      BY <3>1 DEF UserAt
    <3>4. d = b
      BY <3>2, <3>3
    <3> QED BY <1>8, <3>2, <3>3, <3>4
  <2>4. SquashedWell(sq, ms, begins - 1)
    BY <2>1, SquashedInTurn DEF sq, n
  <2>5. sq \in Seq(Stripped) /\ Alternates(sq) /\ Texts(sq) /\ size \in Nat /\ size % 2 = 0
    BY <2>1, <2>2, <2>3, <2>4 DEF SquashedWell
  <2>6. /\ rest \in Seq(Stripped) /\ Len(rest) = (n - begins) + 1
        /\ \A j \in 1..((n - begins) + 1) : rest[j] = ms[(begins + j) - 1]
    <3>1. begins \in 1..(n + 1) /\ n \in 0..Len(ms) /\ n = Len(ms)
      BY <1>1, <2>1 DEF n
    <3> QED BY <2>1, <3>1
  <2>7. history = sq \o rest
    <3>1. ~(begins <= 1)
      BY <1>8, <2>1
    <3> QED BY <1>4, <3>1
  <2> HIDE DEF rest
  <2>8. /\ DOMAIN history = 1..(size + Len(rest))
        /\ \A k \in 1..size : history[k] = sq[k]
        /\ \A j \in 1..Len(rest) : history[size + j] = rest[j]
    BY <2>5, <2>6, <2>7, ConcatIsFunction
  <2> HIDE DEF size, At
  <2>13. size \in Nat
    BY <2>5
  <2>14. begins \in Nat /\ 1 <= begins /\ begins <= n
    BY <1>1, <2>1
  <2>9. \A k \in DOMAIN history :
           \/ k \in 1..size /\ history[k] = sq[k]
           \/ /\ k > size /\ k \in Nat /\ At(k) \in begins..n /\ history[k] = ms[At(k)]
              /\ At(k) > begins => At(k - 1) = At(k) - 1 /\ k - 1 > size /\ k - 1 \in DOMAIN history
    <3> SUFFICES ASSUME NEW k \in DOMAIN history, k \notin 1..size
                 PROVE  /\ k > size /\ k \in Nat /\ At(k) \in begins..n /\ history[k] = ms[At(k)]
                        /\ At(k) > begins => /\ At(k - 1) = At(k) - 1 /\ k - 1 > size
                                             /\ k - 1 \in DOMAIN history
      BY <2>8
    <3>1. k \in 1..(size + ((n - begins) + 1)) /\ DOMAIN history = 1..(size + ((n - begins) + 1))
      BY <2>6, <2>8
    <3>5. k \in Nat /\ k > size /\ k <= size + ((n - begins) + 1)
      BY <1>1, <2>13, <2>14, <3>1
    <3>2. k > size /\ k \in Nat /\ At(k) \in begins..n /\ k - size \in 1..((n - begins) + 1)
      BY <1>1, <1>9, <2>13, <2>14, <3>5 DEF At
    <3>3. history[k] = ms[At(k)]
      <4> DEFINE j == k - size
      <4>1. j \in 1..((n - begins) + 1) /\ size + j = k /\ (begins + j) - 1 = At(k)
        BY <1>1, <1>9, <2>13, <2>14, <3>5 DEF At
      <4> HIDE DEF j
      <4>2. history[size + j] = rest[j] /\ rest[j] = ms[(begins + j) - 1]
        BY <2>6, <2>8, <4>1
      <4> QED BY <4>1, <4>2
    <3>4. At(k) > begins => At(k - 1) = At(k) - 1 /\ k - 1 > size /\ k - 1 \in DOMAIN history
      BY <1>1, <2>13, <2>14, <3>1, <3>5 DEF At
    <3> QED BY <3>2, <3>3, <3>4
  <2>10. \A k \in Nat : k > size => At(k) % 2 = k % 2
    BY <2>1, <2>2, <2>5 DEF At
  <2>11. Alternates(history)
    <3> SUFFICES ASSUME NEW k \in DOMAIN history
                 PROVE  history[k].role = IF k % 2 = 1 THEN "user" ELSE "assistant"
      BY DEF Alternates
    <3>1. CASE k \in 1..size /\ history[k] = sq[k]
      <4>1. k \in DOMAIN sq
        BY <2>5, <3>1 DEF size
      <4> QED BY <2>5, <3>1, <4>1 DEF Alternates
    <3>2. CASE k > size /\ k \in Nat /\ At(k) \in begins..n /\ history[k] = ms[At(k)]
      <4>1. At(k) \in 1..n /\ At(k) % 2 = k % 2
        BY <1>1, <2>1, <2>10, <3>2
      <4> QED BY <1>5, <3>2, <4>1
    <3> QED BY <2>9, <3>1, <3>2
  <2>12. ToolResultsFollowUses(history)
    <3> SUFFICES ASSUME NEW k \in DOMAIN history, NEW b \in Range(history[k].content), b.kind = "toolResult"
                 PROVE  k > 1 /\ \E c \in Range(history[k - 1].content) : c.kind = "toolUse" /\ c.of = b.use
      BY DEF ToolResultsFollowUses
    <3>1. ~(k \in 1..size /\ history[k] = sq[k])
      BY <2>5 DEF Texts, HoldsOnly, size
    <3>2. /\ k > size /\ k \in Nat /\ At(k) \in begins..n /\ history[k] = ms[At(k)]
          /\ At(k) > begins => At(k - 1) = At(k) - 1 /\ k - 1 > size /\ k - 1 \in DOMAIN history
      BY <2>9, <3>1
    <3>3. At(k) \in 1..n /\ At(k) # begins
      BY <1>1, <2>1, <2>3, <3>2
    <3>7. At(k) > begins
      BY <1>1, <2>14, <3>2, <3>3
    <3>8. k - 1 > size /\ k \in Nat
      BY <3>2, <3>7
    <3>4. At(k - 1) = At(k) - 1 /\ k - 1 > size /\ k - 1 \in DOMAIN history /\ k > 1
      BY <2>13, <3>2, <3>7, <3>8
    <3>5. history[k - 1] = ms[At(k - 1)]
      <4>1. ~(k - 1 \in 1..size)
        BY <2>13, <3>8
      <4> QED BY <2>9, <3>4, <4>1
    <3>6. \E c \in Range(ms[At(k) - 1].content) : c.kind = "toolUse" /\ c.of = b.use
      BY <1>6, <3>2, <3>3
    <3> QED BY <3>4, <3>5, <3>6
  <2> QED BY <2>11, <2>12 DEF history
<1> QED BY <1>1, <1>3, <1>7, <1>8

\* What Bedrock was sent last, it accepts; and the turns of the conversation that
\* make it so.
AcceptedInv ==
    /\ WrittenInv
    /\ OrderlyInv
    /\ BedrockAcceptsHistory

LEMMA AcceptedPreserved == AcceptedInv /\ [HistoryNext]_historyVars => AcceptedInv'
<1> SUFFICES ASSUME AcceptedInv, [HistoryNext]_historyVars PROVE AcceptedInv'
  OBVIOUS
<1>1. WrittenInv' /\ OrderlyInv'
  BY WrittenPreserved, OrderlyPreserved DEF AcceptedInv
<1>2. ASSUME orderly' => orderly, UNCHANGED asked PROVE BedrockAcceptsHistory'
  BY <1>2 DEF AcceptedInv, BedrockAcceptsHistory
<1>3. ASSUME NEW i \in MessageIds, AsksBedrock(i) PROVE BedrockAcceptsHistory'
  <2> SUFFICES ASSUME orderly' PROVE Alternates(asked'.messages) /\ ToolResultsFollowUses(asked'.messages)
    BY DEF BedrockAcceptsHistory
  <2>1. /\ invocation[i] = "invoked" /\ orderly /\ visible = DOMAIN conversation
        /\ asked'.messages = GetMessageHistory(i)
    BY <1>3 DEF AsksBedrock
  <2>2. WrittenInv /\ InTurn(conversation, invocation)
    BY <2>1 DEF AcceptedInv, OrderlyInv
  <2>3. i \in 1..Len(conversation) /\ conversation[i].role = "user"
    BY <2>1, <2>2 DEF WrittenInv
  <2> DEFINE ordered == Ordered(Retrieve(i), i)
  <2>4. TurnByTurn(ordered)
    BY <2>1, <2>2, <2>3, OrderedInTurn
  <2>5. OrderedHistory(ordered, i) /\ GetMessageHistory(i) = SquashNonCurrentTurns(ordered)
    BY <2>2, <2>3, HistoryIs
  <2> HIDE DEF ordered
  <2>6. Proper(ordered)
    BY <2>2, <2>4, <2>5, OrderedProper
  <2>7. ordered \in Seq(Stripped)
    BY <2>5 DEF OrderedHistory
  <2> QED BY <2>1, <2>5, <2>6, <2>7, ProperIsAccepted
<1>4. ASSUME UserWrites PROVE BedrockAcceptsHistory'
  BY <1>2, <1>4 DEF UserWrites
<1>5. ASSUME NEW i \in MessageIds, BecomesVisible(i) \/ Answered(i) \/ InvocationFails(i)
      PROVE  BedrockAcceptsHistory'
  BY <1>2, <1>5 DEF BecomesVisible, Answered, InvocationFails
<1>6. ASSUME UNCHANGED historyVars PROVE BedrockAcceptsHistory'
  BY <1>2, <1>6 DEF historyVars
<1> QED BY <1>1, <1>3, <1>4, <1>5, <1>6 DEF HistoryNext, AcceptedInv

\* For every conversation of a user who waits for answers and answers tool uses:
\* user and assistant alternate in what is sent, and a tool result comes right
\* behind the message that asked for it.
THEOREM AcceptedCorrect == HistorySpec => []BedrockAcceptsHistory
<1>1. HistoryInit => AcceptedInv
  <2> SUFFICES ASSUME HistoryInit PROVE AcceptedInv
    OBVIOUS
  <2>1. WrittenInv /\ OrderlyInv
    BY WrittenInitially, OrderlyInitially
  <2>2. asked.messages = <<>> /\ DOMAIN <<>> = {}
    BY DEF HistoryInit
  <2>3. BedrockAcceptsHistory
    BY <2>2 DEF BedrockAcceptsHistory, Alternates, ToolResultsFollowUses
  <2> QED BY <2>1, <2>3 DEF AcceptedInv
<1>2. AcceptedInv => BedrockAcceptsHistory
  BY DEF AcceptedInv
<1> QED BY <1>1, <1>2, AcceptedPreserved, PTL DEF HistorySpec

==================================================================================
