---------------------------- MODULE ConversationTurn ----------------------------
(***************************************************************************)
(* One invocation of the conversation handler: it asks Bedrock, sends the  *)
(* answer to AppSync, in one piece or chunk by chunk, runs the tools that  *)
(* the model asks for and asks again, and reports errors.                  *)
(*                                                                         *)
(* Bedrock is the environment: it chooses the blocks, the number of deltas *)
(* of each and the stop reason, and may fail at any point.  A delta's text *)
(* is known by its number in the turn, a tool by its name.  The executor   *)
(* pulls the generator: a chunk is sent before the next one is read.       *)
(***************************************************************************)
EXTENDS Integers, SequencesExt

CONSTANTS
    ExecutableTools,    \* names of the tools that the handler runs
    ClientTools,        \* names of the tools that the client runs
    UnknownTools,       \* names that are no tool's
    MaxDeltas,          \* bound: text deltas of a turn
    MaxBlocks,          \* bound: blocks of a turn
    MaxRequests,        \* bound: requests to Bedrock of a turn
    BedrockFails        \* requests and streams may fail

Tools == ExecutableTools \union ClientTools \union UnknownTools
Names == Tools \union {"text"}

\* The adapter's constructor rejects duplicate names.
DuplicateTools == ExecutableTools \intersect ClientTools

ASSUME ToolsAssumption ==
    /\ {"text", "none"} \intersect Tools = {}
    /\ UnknownTools \intersect (ExecutableTools \union ClientTools) = {}
ASSUME BoundsAssumption == {MaxDeltas, MaxBlocks} \subseteq Nat /\ MaxRequests \in Nat \ {0}
ASSUME FailuresAssumption == BedrockFails \in BOOLEAN

\* A block: a text, with its deltas, or the use of a tool.
Block(name, deltas) == [name |-> name, deltas |-> deltas]

\* The blocks of these names, in their order.
BlocksOf(names, blocks) ==
    FlattenSeq([k \in DOMAIN blocks |->
        IF blocks[k].name \in names THEN <<blocks[k]>> ELSE <<>>])

ToolUses(blocks) == BlocksOf(Tools, blocks)
ClientToolUses(blocks) == BlocksOf(ClientTools, blocks)

VARIABLES
    pc,             \* where the turn is
    streamResponse, \* of the event
    appSyncFails,   \* mutations of this turn may fail
    block,          \* block being received: "none", "text" or a tool
    said,           \* numbers of deltas and blocks that Bedrock began
    text,           \* deltas of the text being received
    blockIndex, lastBlockIndex, blockDeltaIndex, lastBlockDeltaIndex,
    stopReason,
    clientToolsRequested,
    accumulatedTurnContent,         \* blocks for the client, of the whole turn
    accumulatedAssistantMessage,    \* blocks of the response being received
    messages,       \* what the turn added to the history: responses and tool results
    requests,       \* requests made
    pending,        \* chunk or response that is being sent
    sent,           \* chunks or response that AppSync took
    reported        \* AppSync took the error

indexes == <<blockIndex, lastBlockIndex, blockDeltaIndex, lastBlockDeltaIndex>>
received == <<block, said, text, clientToolsRequested, accumulatedAssistantMessage>>
fixed == <<streamResponse, appSyncFails>>
vars == <<pc, fixed, indexes, received, stopReason, accumulatedTurnContent,
          messages, requests, pending, sent, reported>>

StopReasons == {"tool_use", "end_turn", "max_tokens"}
NoReason == ""

\* Kinds of chunk: a delta, the end of a text block, a client tool use, the end
\* of the turn, and the whole response when it is not streamed.
NoChunk == [kind |-> "none"]
Chunk(kind, index, content, detail) ==
    [kind |-> kind, contentBlockIndex |-> index, accumulatedTurnContent |-> content,
     detail |-> detail]

TypeOK ==
    /\ pc \in {"request", "stream", "respond", "tools", "finish", "error", "done", "failed"}
    /\ streamResponse \in BOOLEAN
    /\ appSyncFails \in BOOLEAN
    /\ block \in Names \union {"none"}
    /\ said \in [deltas : 0..MaxDeltas, blocks : 0..MaxBlocks]
    /\ Range(text) \subseteq 1..MaxDeltas
    /\ {blockIndex, lastBlockIndex} \subseteq 0..MaxBlocks
    /\ {blockDeltaIndex, lastBlockDeltaIndex} \subseteq 0..MaxDeltas
    /\ stopReason \in StopReasons \union {NoReason}
    /\ clientToolsRequested \in BOOLEAN
    /\ requests \in 0..MaxRequests
    /\ pending # NoChunk => pc \in {"stream", "finish"}
    /\ reported \in BOOLEAN

Init ==
    /\ pc = IF DuplicateTools = {} THEN "request" ELSE "error"
    /\ streamResponse \in BOOLEAN
    /\ appSyncFails \in BOOLEAN
    /\ block = "none"
    /\ said = [deltas |-> 0, blocks |-> 0]
    /\ text = <<>>
    /\ blockIndex = 0 /\ lastBlockIndex = 0
    /\ blockDeltaIndex = 0 /\ lastBlockDeltaIndex = 0
    /\ stopReason = NoReason
    /\ clientToolsRequested = FALSE
    /\ accumulatedTurnContent = <<>>
    /\ accumulatedAssistantMessage = <<>>
    /\ messages = <<>>
    /\ requests = 0
    /\ pending = NoChunk
    /\ sent = <<>>
    /\ reported = FALSE

\* The request is sent; the variables of the loop's body start anew.
Request ==
    /\ pc = "request"
    /\ pc' = IF streamResponse THEN "stream" ELSE "respond"
    /\ requests' = requests + 1
    /\ block' = "none"
    /\ text' = <<>>
    /\ blockDeltaIndex' = 0 /\ lastBlockDeltaIndex' = 0
    /\ clientToolsRequested' = FALSE
    /\ accumulatedAssistantMessage' = <<>>
    /\ UNCHANGED <<fixed, said, blockIndex, lastBlockIndex, stopReason,
                   accumulatedTurnContent, messages, pending, sent, reported>>

Reading == pc = "stream" /\ pending = NoChunk

ContentBlockStart(name) ==
    /\ Reading /\ block = "none" /\ said.blocks < MaxBlocks
    /\ block' = name
    /\ said' = [said EXCEPT !.blocks = @ + 1]
    /\ blockDeltaIndex' = 0 /\ lastBlockDeltaIndex' = 0
    /\ UNCHANGED <<pc, fixed, text, clientToolsRequested, blockIndex, lastBlockIndex,
                   stopReason, accumulatedTurnContent, accumulatedAssistantMessage,
                   messages, requests, pending, sent, reported>>

\* Mutant: a delta chunk holds the text of its block only.
DeltaWithoutTurn ==
    /\ Reading /\ block = "text" /\ said.deltas < MaxDeltas
    /\ said' = [said EXCEPT !.deltas = @ + 1]
    /\ text' = Append(text, said.deltas + 1)
    /\ pending' = Chunk("delta", blockIndex, <<Block("text", text')>>, blockDeltaIndex)
    /\ lastBlockDeltaIndex' = blockDeltaIndex
    /\ blockDeltaIndex' = blockDeltaIndex + 1
    /\ UNCHANGED <<pc, fixed, block, clientToolsRequested, blockIndex, lastBlockIndex,
                   stopReason, accumulatedTurnContent, accumulatedAssistantMessage,
                   messages, requests, sent, reported>>

\* A delta of a text is yielded with the turn's content so far.
ContentBlockDelta ==
    /\ Reading /\ block = "text" /\ said.deltas < MaxDeltas
    /\ said' = [said EXCEPT !.deltas = @ + 1]
    /\ text' = Append(text, said.deltas + 1)
    /\ pending' = Chunk("delta", blockIndex,
                        Append(accumulatedTurnContent, Block("text", text')), blockDeltaIndex)
    /\ lastBlockDeltaIndex' = blockDeltaIndex
    /\ blockDeltaIndex' = blockDeltaIndex + 1
    /\ UNCHANGED <<pc, fixed, block, clientToolsRequested, blockIndex, lastBlockIndex,
                   stopReason, accumulatedTurnContent, accumulatedAssistantMessage,
                   messages, requests, sent, reported>>

\* A block that the client is shown ends: it is yielded and takes an index.
Shows(kind, shown, detail) ==
    /\ accumulatedTurnContent' = Append(accumulatedTurnContent, shown)
    /\ pending' = Chunk(kind, blockIndex, accumulatedTurnContent', detail)
    /\ lastBlockIndex' = blockIndex
    /\ blockIndex' = blockIndex + 1

\* A tool use ends: the client sees those of its own tools.
ToolUseStop ==
    /\ Reading /\ block \in Tools
    /\ accumulatedAssistantMessage' = Append(accumulatedAssistantMessage, Block(block, <<>>))
    /\ IF block \in ClientTools
       THEN Shows("toolUse", Block(block, <<>>), 0) /\ clientToolsRequested' = TRUE
       ELSE UNCHANGED <<clientToolsRequested, accumulatedTurnContent, pending,
                        blockIndex, lastBlockIndex>>
    /\ block' = "none"
    /\ UNCHANGED <<pc, fixed, said, text, blockDeltaIndex, lastBlockDeltaIndex,
                   stopReason, messages, requests, sent, reported>>

\* Mutant: the text is not added to the turn's content.
TextStopUnshown ==
    /\ Reading /\ block = "text"
    /\ accumulatedAssistantMessage' = Append(accumulatedAssistantMessage, Block("text", text))
    /\ pending' = Chunk("textDone", blockIndex, accumulatedTurnContent, lastBlockDeltaIndex)
    /\ lastBlockIndex' = blockIndex
    /\ blockIndex' = blockIndex + 1
    /\ text' = <<>>
    /\ block' = "none"
    /\ UNCHANGED <<pc, fixed, said, clientToolsRequested, blockDeltaIndex,
                   lastBlockDeltaIndex, stopReason, accumulatedTurnContent, messages, requests,
                   sent, reported>>

TextStop ==
    /\ Reading /\ block = "text"
    /\ accumulatedAssistantMessage' = Append(accumulatedAssistantMessage, Block("text", text))
    /\ Shows("textDone", Block("text", text), lastBlockDeltaIndex)
    /\ text' = <<>>
    /\ block' = "none"
    /\ UNCHANGED <<pc, fixed, said, clientToolsRequested, blockDeltaIndex,
                   lastBlockDeltaIndex, stopReason, messages, requests, sent, reported>>

\* Bedrock stops for a tool when it asked for one, and within its bounds.
MayStop(reason, blocks) ==
    /\ reason = "tool_use" => ToolUses(blocks) # <<>> /\ requests < MaxRequests
    /\ reason = "end_turn" => ToolUses(blocks) = <<>>

\* Mutant: the end of every response is yielded.
MessageStopYieldingEnd(reason) ==
    /\ Reading /\ block = "none" /\ MayStop(reason, accumulatedAssistantMessage)
    /\ stopReason' = reason
    /\ pc' = IF clientToolsRequested \/ reason # "tool_use" THEN "finish" ELSE "tools"
    /\ pending' = Chunk("end", lastBlockIndex, accumulatedTurnContent, 0)
    /\ messages' = IF clientToolsRequested THEN messages
                   ELSE Append(messages, accumulatedAssistantMessage)
    /\ UNCHANGED <<fixed, indexes, received, accumulatedTurnContent, requests,
                   sent, reported>>

\* The stream ends: the turn is over when the client has to run a tool or the
\* model asks for none.
MessageStop(reason) ==
    /\ Reading /\ block = "none" /\ MayStop(reason, accumulatedAssistantMessage)
    /\ stopReason' = reason
    /\ IF clientToolsRequested \/ reason # "tool_use"
       THEN /\ pc' = "finish"
            /\ pending' = Chunk("end", lastBlockIndex, accumulatedTurnContent, 0)
       ELSE pc' = "tools" /\ UNCHANGED pending
    /\ messages' = IF clientToolsRequested THEN messages
                   ELSE Append(messages, accumulatedAssistantMessage)
    /\ UNCHANGED <<fixed, indexes, received, accumulatedTurnContent, requests,
                   sent, reported>>

\* askBedrock: the response comes in one piece.
Responds(names, reason) ==
    LET blocks == [k \in DOMAIN names |-> Block(names[k], <<>>)]
        clientToolUses == ClientToolUses(blocks)
    IN  /\ pc = "respond" /\ MayStop(reason, blocks)
        /\ said' = [said EXCEPT !.blocks = @ + Len(names)]
        /\ stopReason' = reason
        /\ messages' = Append(messages, blocks)
        /\ IF reason = "tool_use" /\ clientToolUses = <<>>
           THEN pc' = "tools" /\ UNCHANGED pending
           ELSE /\ pc' = "finish"
                /\ pending' = Chunk("single", 0,
                       IF reason = "tool_use" THEN clientToolUses ELSE blocks, 0)
        /\ UNCHANGED <<fixed, indexes, block, text, clientToolsRequested,
                       accumulatedAssistantMessage, accumulatedTurnContent, requests,
                       sent, reported>>

\* Mutant: only the first tool is run.
RunFirstTool ==
    LET uses == ToolUses(Last(messages))
    IN  /\ pc = "tools"
        /\ IF uses[1].name \in ExecutableTools
           THEN messages' = Append(messages, <<uses[1]>>) /\ pc' = "request"
           ELSE pc' = "error" /\ UNCHANGED messages
        /\ UNCHANGED <<fixed, indexes, received, stopReason, accumulatedTurnContent,
                       requests, pending, sent, reported>>

\* executeTool for each use: a tool that fails gives a result too, an unknown
\* one ends the turn.
RunTools ==
    LET uses == ToolUses(Last(messages))
    IN  /\ pc = "tools"
        /\ IF \A u \in Range(uses) : u.name \in ExecutableTools
           THEN messages' = Append(messages, uses) /\ pc' = "request"
           ELSE pc' = "error" /\ UNCHANGED messages
        /\ UNCHANGED <<fixed, indexes, received, stopReason, accumulatedTurnContent,
                       requests, pending, sent, reported>>

\* sendResponseChunk, sendResponse: the mutation succeeds.
SendChunk ==
    /\ pending # NoChunk
    /\ sent' = Append(sent, pending)
    /\ pending' = NoChunk
    /\ pc' = IF pc = "finish" THEN "done" ELSE pc
    /\ UNCHANGED <<fixed, indexes, received, stopReason, accumulatedTurnContent,
                   messages, requests, reported>>

\* The mutation is rejected, the request or the stream fails, or the input of a
\* tool use is cut off and does not parse.
TurnFails ==
    /\ \/ appSyncFails /\ pending # NoChunk
       \/ BedrockFails /\ (pc \in {"request", "respond"} \/ Reading)
    /\ pc' = "error"
    /\ pending' = NoChunk
    /\ UNCHANGED <<fixed, indexes, received, stopReason, accumulatedTurnContent,
                   messages, requests, sent, reported>>

\* Mutant: the error is only rethrown.
RethrowError ==
    /\ pc = "error"
    /\ pc' = "failed"
    /\ UNCHANGED <<fixed, indexes, received, stopReason, accumulatedTurnContent,
                   messages, requests, pending, sent, reported>>

\* tryForwardError, and the error is rethrown in any case.
ForwardError ==
    /\ pc = "error"
    /\ reported' \in IF appSyncFails THEN BOOLEAN ELSE {TRUE}
    /\ pc' = "failed"
    /\ UNCHANGED <<fixed, indexes, received, stopReason, accumulatedTurnContent,
                   messages, requests, pending, sent>>

Next ==
    \/ Request
    \/ \E name \in Names : ContentBlockStart(name)
    \/ ContentBlockDelta \/ ToolUseStop \/ TextStop
    \/ \E reason \in StopReasons : MessageStop(reason)
    \/ \E names \in SeqOf(Names, MaxBlocks - said.blocks), reason \in StopReasons :
          Responds(names, reason)
    \/ RunTools \/ SendChunk \/ TurnFails \/ ForwardError

Spec == Init /\ [][Next]_vars

\* Bedrock and AppSync answer every call, if only by an error, and the handler
\* goes on.
FairSpec == Spec /\ WF_vars(Next)

-----------------------------------------------------------------------------
\* What a client makes of the chunks alone.
Assembled(content, chunk) ==
    LET n == chunk.contentBlockIndex + 1
        known == IF n = Len(content) + 1 THEN Append(content, Block("text", <<>>)) ELSE content
    IN  CASE chunk.kind = "delta" ->
                 [known EXCEPT ![n].deltas = Append(@, chunk.detail)]
          [] chunk.kind = "textDone" -> known
          [] chunk.kind = "toolUse" -> Append(content, Block("toolUse", <<>>))
          [] OTHER -> content

Assembly(chunks) ==
    LET content[k \in 0..Len(chunks)] ==
            IF k = 0 THEN <<>> ELSE Assembled(content[k - 1], chunks[k])
    IN  content[Len(chunks)]

Shape(blocks) ==
    [k \in DOMAIN blocks |->
        Block(IF blocks[k].name = "text" THEN "text" ELSE "toolUse",
              [d \in DOMAIN blocks[k].deltas |-> d - 1])]

IsDelta(chunk, index) == chunk.kind = "delta" /\ chunk.contentBlockIndex = index

\* The end of a block names the last delta sent for it, the end of the turn the
\* last block.
EndsNameTheLast(chunks) ==
    \A k \in DOMAIN chunks :
        LET index == chunks[k].contentBlockIndex
        IN  /\ chunks[k].kind = "textDone" =>
                   \A j \in 1..(k - 1) :
                      /\ IsDelta(chunks[j], index)
                      /\ \A i \in (j + 1)..(k - 1) : ~IsDelta(chunks[i], index)
                      => chunks[k].detail = chunks[j].detail
            /\ chunks[k].kind = "end" /\ k > 1 => index = chunks[k - 1].contentBlockIndex

\* "So that upstream can persist full message at the end of the streaming"
\* (accumulatedTurnContent), in spite of "our own indexing for blocks": at every
\* moment the chunks sent so far, put together by their indexes, are the content
\* that came with the last of them, over all requests of the turn; and each end
\* tells a client how much it should have received.
ChunksMakeTheContent ==
    /\ streamResponse /\ sent # <<>> =>
          Assembly(sent) = Shape(Last(sent).accumulatedTurnContent)
    /\ EndsNameTheLast(sent)

\* The responses in the history, one after the other, and the one received that
\* is not there: it is not finished, or its tools are the client's.
Recorded == FlattenSeq([k \in 1..((Len(messages) + 1) \div 2) |-> messages[2 * k - 1]])
Unrecorded ==
    IF pc \in {"tools", "request"} \/ (pc = "finish" /\ ~clientToolsRequested)
    THEN <<>> ELSE accumulatedAssistantMessage

\* The client is shown every text and client tool use of the turn, those of the
\* responses before a tool ran included, in order and nothing else.
ClientSeesAllResponses ==
    streamResponse /\ pc \in {"request", "stream", "tools", "finish"} =>
        accumulatedTurnContent = BlocksOf(ClientTools \union {"text"}, Recorded \o Unrecorded)

\* A request carries a result for every tool use of every response before it:
\* Bedrock rejects a history in which a use has none.
EveryToolUseHasItsResult ==
    pc = "request" =>
        /\ Len(messages) % 2 = 0
        /\ \A k \in DOMAIN messages :
              k % 2 = 1 => messages[k + 1] = ToolUses(messages[k])

Ended == sent # <<>> /\ Last(sent).kind \in {"end", "single"}

\* A turn that ended well has told the client so, once and last; one that failed
\* leaves the client without an end.
EndedIffDone ==
    /\ pc = "done" <=> Ended
    /\ \A k \in DOMAIN sent : sent[k].kind \in {"end", "single"} => k = Len(sent)

\* "We're deferring dependency initialization here so that we can capture all
\* validation errors": whatever fails in Bedrock or in the tools, the client gets
\* an end or an error, unless AppSync itself fails.
TurnIsAnswered == ~appSyncFails => <>(Ended \/ reported)

===============================================================================
