---------------------------- MODULE ConversationProofs ----------------------------
(***************************************************************************)
(* Theorems about the conversation runtime for every value of its          *)
(* constants: the types of both models; of a turn, the results of tools,   *)
(* what the client is shown, what it puts together from the chunks, and    *)
(* the end.                                                                *)
(***************************************************************************)
EXTENDS ConversationHistoryProofs

IsSeq(s) == \E A : s \in Seq(A)

\* What Append does to a sequence of anything.
LEMMA Appended ==
    ASSUME NEW s, IsSeq(s), NEW e
    PROVE  /\ IsSeq(Append(s, e)) /\ Append(s, e) # <<>>
           /\ Len(s) \in Nat /\ Len(Append(s, e)) = Len(s) + 1
           /\ DOMAIN s = 1..Len(s) /\ DOMAIN Append(s, e) = 1..(Len(s) + 1)
           /\ \A k \in 1..Len(s) : Append(s, e)[k] = s[k]
           /\ Append(s, e)[Len(s) + 1] = e
<1>1. PICK A : s \in Seq(A)
  BY DEF IsSeq
<1>2. s \in Seq(A \union {e}) /\ e \in A \union {e}
  BY <1>1
<1>3. Append(s, e) \in Seq(A \union {e})
  BY <1>2
<1>4. IsSeq(Append(s, e))
  BY <1>3 DEF IsSeq
<1> QED BY <1>2, <1>3, <1>4

-----------------------------------------------------------------------------
(* Every tool use has its result. *)

\* The responses are at the odd places.  Between the tools and the next response
\* the history is complete; a response that waits for its tools is its last.
ResultsInv ==
    /\ IsSeq(messages)
    /\ pc \in {"request", "stream", "respond"} => Len(messages) % 2 = 0
    /\ pc = "tools" => Len(messages) % 2 = 1
    /\ pc \in {"request", "stream", "respond", "tools"} =>
           \A k \in 1..Len(messages) :
               k % 2 = 1 /\ k < Len(messages) => messages[k + 1] = ToolUses(messages[k])

\* A response comes after all of the results before it.
LEMMA ResponseAppended ==
    ASSUME ResultsInv, NEW response, messages' = Append(messages, response),
           pc \in {"stream", "respond"}, pc' \in {"tools", "finish"}
    PROVE  ResultsInv'
<1> DEFINE n == Len(messages)
           longer == Append(messages, response)
<1>1. IsSeq(messages) /\ n % 2 = 0 /\ messages' = longer
      /\ \A k \in 1..n : k % 2 = 1 /\ k < n => messages[k + 1] = ToolUses(messages[k])
  BY DEF ResultsInv
<1>2. /\ IsSeq(longer) /\ n \in Nat /\ Len(longer) = n + 1
      /\ \A k \in 1..n : longer[k] = messages[k]
  BY <1>1, Appended
<1> HIDE DEF n, longer
<1>3. (n + 1) % 2 = 1
  BY <1>1, <1>2
<1>4. ASSUME NEW k \in 1..(n + 1), k % 2 = 1, k < n + 1
      PROVE  longer[k + 1] = ToolUses(longer[k])
  <2>1. k \in 1..n /\ k + 1 \in 1..n /\ k < n
    BY <1>1, <1>2, <1>4
  <2> QED BY <1>1, <1>2, <1>4, <2>1
<1>5. IsSeq(messages')
  BY <1>1, <1>2 DEF IsSeq
<1> QED BY <1>1, <1>2, <1>3, <1>4, <1>5 DEF ResultsInv

LEMMA ResultsPreserved == ResultsInv /\ [Next]_vars => ResultsInv'
<1> SUFFICES ASSUME ResultsInv, [Next]_vars PROVE ResultsInv'
  OBVIOUS
<1>1. CASE UNCHANGED messages /\ (UNCHANGED pc \/ pc' \in {"error", "done", "failed", "finish"})
  BY <1>1 DEF ResultsInv
<1>2. CASE Request
  BY <1>2 DEF Request, ResultsInv
<1>3. ASSUME NEW reason \in StopReasons, MessageStop(reason) PROVE ResultsInv'
  <2>1. CASE UNCHANGED messages /\ pc' = "finish"
    BY <2>1, <1>1
  <2>2. pc = "stream"
        /\ \/ UNCHANGED messages /\ pc' = "finish"
           \/ messages' = Append(messages, accumulatedAssistantMessage) /\ pc' \in {"tools", "finish"}
    BY <1>3 DEF MessageStop, Reading
  <2> QED BY <2>1, <2>2, ResponseAppended
<1>4. ASSUME NEW names, NEW reason \in StopReasons, Responds(names, reason) PROVE ResultsInv'
  <2>1. PICK blocks : messages' = Append(messages, blocks)
    BY <1>4 DEF Responds
  <2>2. pc = "respond" /\ pc' \in {"tools", "finish"}
    BY <1>4 DEF Responds
  <2> QED BY <2>1, <2>2, ResponseAppended
<1>5. CASE RunTools
  <2> DEFINE n == Len(messages)
  <2>1. /\ pc = "tools"
        /\ \/ pc' = "error" /\ UNCHANGED messages
           \/ pc' = "request" /\ messages' = Append(messages, ToolUses(messages[n]))
    BY <1>5 DEF RunTools, Last
  <2>2. CASE pc' = "request" /\ messages' = Append(messages, ToolUses(messages[n]))
    <3>1. n \in Nat /\ n % 2 = 1 /\ Len(messages') = n + 1
      BY <2>1, <2>2, Appended DEF ResultsInv
    <3>2. \A k \in 1..n : messages'[k] = messages[k]
      BY <2>2, Appended DEF ResultsInv
    <3>3. messages'[n + 1] = ToolUses(messages[n])
      BY <2>2, Appended DEF ResultsInv
    <3>4. ASSUME NEW k \in 1..(n + 1), k % 2 = 1, k < n + 1
          PROVE  messages'[k + 1] = ToolUses(messages'[k])
      <4>1. CASE k = n
        BY <3>1, <3>2, <3>3, <4>1
      <4>2. CASE k < n
        <5>1. k \in 1..n /\ k + 1 \in 1..n
          BY <3>1, <4>2
        <5>2. messages[k + 1] = ToolUses(messages[k])
          BY <2>1, <3>4, <4>2, <5>1 DEF ResultsInv
        <5> QED BY <3>2, <5>1, <5>2
      <4> QED BY <3>1, <3>4, <4>1, <4>2
    <3>5. IsSeq(messages')
      BY <2>2, Appended DEF ResultsInv
    <3> QED BY <2>2, <3>1, <3>4, <3>5 DEF ResultsInv, IsSeq
  <2> QED BY <1>1, <2>1, <2>2
<1>6. \/ UNCHANGED messages /\ (UNCHANGED pc \/ pc' \in {"error", "done", "failed", "finish"})
      \/ Request \/ RunTools
      \/ \E reason \in StopReasons : MessageStop(reason) \/ \E names : Responds(names, reason)
  BY DEF Next, vars, ContentBlockStart, ContentBlockDelta, ToolUseStop, TextStop, SendChunk,
         TurnFails, ForwardError
<1> QED BY <1>1, <1>2, <1>3, <1>4, <1>5, <1>6

LEMMA ResultsInitially == Init \/ TurnIdle => ResultsInv
<1> SUFFICES ASSUME Init \/ TurnIdle PROVE ResultsInv
  OBVIOUS
<1>1. messages = <<>> /\ pc # "tools"
  BY DEF Init, TurnIdle
<1>2. IsSeq(<<>>)
  <2>1. <<>> \in Seq({})
    OBVIOUS
  <2> QED BY <2>1 DEF IsSeq
<1>3. Len(messages) = 0
  BY <1>1
<1> QED BY <1>1, <1>2, <1>3 DEF ResultsInv

\* A request carries a result for every tool use of every response before it
\* (executeTool for each of them), for any number of requests, blocks and tools.
THEOREM ToolResultsCorrect == Spec => []EveryToolUseHasItsResult
<1>1. Init => ResultsInv
  BY ResultsInitially
<1>2. ResultsInv => EveryToolUseHasItsResult
  <2> SUFFICES ASSUME ResultsInv, pc = "request" PROVE EveryToolUseHasItsResult
    BY DEF EveryToolUseHasItsResult
  <2>1. Len(messages) \in Nat /\ DOMAIN messages = 1..Len(messages)
    BY Appended DEF ResultsInv
  <2> QED BY <2>1 DEF ResultsInv, EveryToolUseHasItsResult
<1> QED BY <1>1, <1>2, ResultsPreserved, PTL DEF Spec

-----------------------------------------------------------------------------
(* The end of a turn. *)

Closing == {"end", "single"}

\* Nothing sent closes the turn before it is done; what waits to be sent closes
\* it exactly when the turn is to finish.
EndInv ==
    /\ IsSeq(sent)
    /\ pc = "finish" => pending # NoChunk
    /\ pending # NoChunk => (pc = "finish" <=> pending.kind \in Closing)
    /\ pc \in {"done", "failed", "error", "request", "respond", "tools"} => pending = NoChunk
    /\ \A k \in 1..Len(sent) :
           sent[k].kind \in Closing <=> (pc = "done" /\ k = Len(sent))
    /\ pc = "done" => sent # <<>>

\* A chunk is something, and it is of its kind.
LEMMA ChunkHasKind ==
    ASSUME NEW kind, kind # "none", NEW index, NEW content, NEW detail
    PROVE  /\ Chunk(kind, index, content, detail).kind = kind
           /\ Chunk(kind, index, content, detail) # NoChunk
<1>1. Chunk(kind, index, content, detail).kind = kind
  BY DEF Chunk
<1>2. NoChunk.kind = "none"
  BY DEF NoChunk
<1> QED BY <1>1, <1>2

LEMMA EndPreserved == EndInv /\ [Next]_vars => EndInv'
<1> SUFFICES ASSUME EndInv, [Next]_vars PROVE EndInv'
  OBVIOUS
<1>1. CASE UNCHANGED sent /\ pc # "done" /\ pending' = NoChunk /\ pc' \notin {"done", "finish"}
  BY <1>1 DEF EndInv
<1>2. CASE UNCHANGED <<sent, pc, pending>>
  BY <1>2 DEF EndInv
<1>3. CASE UNCHANGED <<sent, pc>> /\ pc = "stream" /\ pending' # NoChunk /\ pending'.kind \notin Closing
  BY <1>3 DEF EndInv
<1>4. CASE UNCHANGED sent /\ pc # "done" /\ pc' = "finish" /\ pending' # NoChunk /\ pending'.kind \in Closing
  BY <1>4 DEF EndInv
<1>5. CASE SendChunk
  <2>1. pending # NoChunk /\ sent' = Append(sent, pending) /\ pending' = NoChunk
        /\ pc' = (IF pc = "finish" THEN "done" ELSE pc) /\ pc # "done"
    BY <1>5 DEF SendChunk, EndInv
  <2>2. IsSeq(sent') /\ sent' # <<>> /\ Len(sent) \in Nat /\ Len(sent') = Len(sent) + 1
        /\ (\A k \in 1..Len(sent) : sent'[k] = sent[k]) /\ sent'[Len(sent) + 1] = pending
    BY <2>1, Appended DEF EndInv
  <2>3. ASSUME NEW k \in 1..Len(sent')
        PROVE  sent'[k].kind \in Closing <=> (pc' = "done" /\ k = Len(sent'))
    <3>1. CASE k = Len(sent')
      BY <2>1, <2>2, <3>1 DEF EndInv
    <3>2. CASE k # Len(sent')
      <4>1. k \in 1..Len(sent)
        BY <2>2, <3>2
      <4> QED BY <2>1, <2>2, <3>2, <4>1 DEF EndInv
    <3> QED BY <3>1, <3>2
  <2> QED BY <2>1, <2>2, <2>3 DEF EndInv
<1>6. CASE Request \/ RunTools \/ TurnFails \/ ForwardError
  <2>1. UNCHANGED sent /\ pc' \notin {"done", "finish"}
    BY <1>6 DEF Request, RunTools, TurnFails, ForwardError
  <2>2. pc # "done" /\ pending' = NoChunk
    BY <1>6 DEF Request, RunTools, TurnFails, ForwardError, Reading, EndInv
  <2> QED BY <1>1, <2>1, <2>2
<1>7. ASSUME NEW name \in Names, ContentBlockStart(name) PROVE EndInv'
  BY <1>2, <1>7 DEF ContentBlockStart
<1>8. CASE ContentBlockDelta \/ TextStop
  <2>1. UNCHANGED <<sent, pc>> /\ pc = "stream"
        /\ \E kind \in {"delta", "textDone"} : \E index, content, detail :
              pending' = Chunk(kind, index, content, detail)
    BY <1>8 DEF ContentBlockDelta, TextStop, Reading, Shows
  <2> QED BY <1>3, <2>1, ChunkHasKind DEF Closing
<1>9. CASE ToolUseStop
  <2>1. UNCHANGED <<sent, pc>> /\ pc = "stream"
        /\ \/ UNCHANGED pending
           \/ \E index, content, detail : pending' = Chunk("toolUse", index, content, detail)
    BY <1>9 DEF ToolUseStop, Reading, Shows
  <2> QED BY <1>2, <1>3, <2>1, ChunkHasKind DEF Closing
<1>10. ASSUME NEW reason \in StopReasons, MessageStop(reason) PROVE EndInv'
  <2>1. UNCHANGED sent /\ pc = "stream" /\ pending = NoChunk
        /\ \/ pc' = "tools" /\ UNCHANGED pending
           \/ pc' = "finish" /\ \E index, content, detail : pending' = Chunk("end", index, content, detail)
    BY <1>10 DEF MessageStop, Reading
  <2> QED BY <1>1, <1>4, <2>1, ChunkHasKind DEF Closing
<1>11. ASSUME NEW names, NEW reason \in StopReasons, Responds(names, reason) PROVE EndInv'
  <2>1. UNCHANGED sent /\ pc = "respond"
        /\ \/ pc' = "tools" /\ UNCHANGED pending
           \/ pc' = "finish" /\ \E index, content, detail : pending' = Chunk("single", index, content, detail)
    BY <1>11 DEF Responds
  <2>2. pending = NoChunk
    BY <2>1 DEF EndInv
  <2> QED BY <1>1, <1>4, <2>1, <2>2, ChunkHasKind DEF Closing
<1>12. CASE UNCHANGED vars
  BY <1>2, <1>12 DEF vars
<1> QED BY <1>5, <1>6, <1>7, <1>8, <1>9, <1>10, <1>11, <1>12 DEF Next

\* A turn that ended well has told the client so, once and last, and one that
\* failed leaves it without an end (sendResponse, sendResponseChunk), for any
\* number of requests, blocks and deltas.
THEOREM EndCorrect == Spec => []EndedIffDone
<1>1. Init => EndInv
  <2> SUFFICES ASSUME Init PROVE EndInv
    OBVIOUS
  <2>1. sent = <<>> /\ pending = NoChunk /\ pc \in {"request", "error"}
    BY DEF Init
  <2>2. IsSeq(<<>>)
    <3>1. <<>> \in Seq({})
      OBVIOUS
    <3> QED BY <3>1 DEF IsSeq
  <2> QED BY <2>1, <2>2 DEF EndInv
<1>2. EndInv => EndedIffDone
  <2> SUFFICES ASSUME EndInv PROVE EndedIffDone
    OBVIOUS
  <2>1. Len(sent) \in Nat /\ DOMAIN sent = 1..Len(sent)
    BY Appended DEF EndInv
  <2>2. sent # <<>> => Len(sent) \in 1..Len(sent)
    <3>1. PICK A : sent \in Seq(A)
      BY DEF EndInv, IsSeq
    <3> QED BY <3>1
  <2>3. pc = "done" <=> sent # <<>> /\ sent[Len(sent)].kind \in Closing
    BY <2>1, <2>2 DEF EndInv
  <2> QED BY <2>1, <2>3 DEF EndInv, EndedIffDone, Ended, Last, Closing
<1> QED BY <1>1, <1>2, EndPreserved, PTL DEF Spec

-----------------------------------------------------------------------------
(* The types of a turn. *)

BlockSet == [name : Names, deltas : Seq(1..MaxDeltas)]
Contents == Seq(BlockSet)
Chunks == [kind : {"delta", "textDone", "toolUse", "end", "single"}, contentBlockIndex : Nat,
           accumulatedTurnContent : Contents, detail : Nat]

\* What the turn keeps and sends are sequences of blocks and of chunks.
ContentsInv ==
    /\ text \in Seq(1..MaxDeltas)
    /\ accumulatedTurnContent \in Contents
    /\ accumulatedAssistantMessage \in Contents
    /\ messages \in Seq(Contents)
    /\ pending \in Chunks \union {NoChunk}
    /\ sent \in Seq(Chunks)

\* The adapter's indexes count what Bedrock began; tools are run only to ask again.
CountsInv ==
    /\ block = "none" => blockIndex <= said.blocks
    /\ block # "none" => blockIndex < said.blocks
    /\ lastBlockIndex <= blockIndex
    /\ blockDeltaIndex <= said.deltas
    /\ lastBlockDeltaIndex <= blockDeltaIndex
    /\ pc \in {"request", "tools"} => requests < MaxRequests

TurnTypeInv == TypeOK /\ ContentsInv /\ CountsInv

\* A block is one, whatever its name and deltas.
LEMMA BlocksAreBlocks ==
    ASSUME NEW name \in Names, NEW deltas \in Seq(1..MaxDeltas)
    PROVE  Block(name, deltas) \in BlockSet
  BY DEF Block, BlockSet

LEMMA ChunksAreChunks ==
    ASSUME NEW kind \in {"delta", "textDone", "toolUse", "end", "single"}, NEW index \in Nat,
           NEW content \in Contents, NEW detail \in Nat
    PROVE  /\ Chunk(kind, index, content, detail) \in Chunks
           /\ Chunk(kind, index, content, detail) # NoChunk
<1>1. Chunk(kind, index, content, detail) \in Chunks
  BY DEF Chunk, Chunks
<1> QED BY <1>1, ChunkHasKind

\* The blocks of some names are blocks; with one block more, they are those and
\* it, if its name is among the names.
Part(names, b) == IF b.name \in names THEN <<b>> ELSE <<>>

LEMMA PartsOfBlocks ==
    ASSUME NEW names, NEW blocks \in Contents
    PROVE  /\ [k \in DOMAIN blocks |-> Part(names, blocks[k])] \in Seq(Seq(BlockSet))
           /\ BlocksOf(names, blocks) = FlattenSeq([k \in DOMAIN blocks |-> Part(names, blocks[k])])
<1>1. \A b \in BlockSet : Part(names, b) \in Seq(BlockSet)
  BY DEF Part
<1>2. DOMAIN blocks = 1..Len(blocks) /\ Len(blocks) \in Nat /\ \A k \in DOMAIN blocks : blocks[k] \in BlockSet
  BY DEF Contents
<1>3. [k \in DOMAIN blocks |-> Part(names, blocks[k])] \in [1..Len(blocks) -> Seq(BlockSet)]
  BY <1>1, <1>2
<1>4. [k \in DOMAIN blocks |-> Part(names, blocks[k])] \in Seq(Seq(BlockSet))
  BY <1>2, <1>3
<1> QED BY <1>4 DEF BlocksOf, Part

LEMMA BlocksOfAreBlocks ==
    ASSUME NEW names, NEW blocks \in Contents
    PROVE  BlocksOf(names, blocks) \in Contents
  BY PartsOfBlocks, FlattenType DEF Contents

LEMMA BlocksOfAppend ==
    ASSUME NEW names, NEW blocks \in Contents, NEW b \in BlockSet
    PROVE  BlocksOf(names, Append(blocks, b)) =
               IF b.name \in names THEN Append(BlocksOf(names, blocks), b) ELSE BlocksOf(names, blocks)
<1> DEFINE seqs == [k \in DOMAIN blocks |-> Part(names, blocks[k])]
           more == [k \in DOMAIN Append(blocks, b) |-> Part(names, Append(blocks, b)[k])]
<1>1. seqs \in Seq(Seq(BlockSet)) /\ Part(names, b) \in Seq(BlockSet)
  <2>1. Part(names, b) \in Seq(BlockSet)
    BY DEF Part
  <2> QED BY <2>1, PartsOfBlocks
<1>2. more = Append(seqs, Part(names, b))
  <2>1. /\ Len(blocks) \in Nat /\ DOMAIN blocks = 1..Len(blocks)
        /\ DOMAIN Append(blocks, b) = 1..(Len(blocks) + 1)
        /\ \A k \in 1..Len(blocks) : Append(blocks, b)[k] = blocks[k]
        /\ Append(blocks, b)[Len(blocks) + 1] = b
    BY DEF Contents
  <2>2. seqs = [k \in 1..Len(blocks) |-> Part(names, blocks[k])]
    BY <2>1
  <2>3. Len(seqs) = Len(blocks)
    BY <1>1, <2>1, <2>2
  <2>4. Append(seqs, Part(names, b)) =
            [k \in 1..(Len(blocks) + 1) |-> IF k = Len(blocks) + 1 THEN Part(names, b) ELSE seqs[k]]
    <3> HIDE DEF seqs
    <3> QED BY <1>1, <2>3, AppendIsFunction
  <2> QED BY <2>1, <2>2, <2>4
<1>3. FlattenSeq(more) = FlattenSeq(seqs) \o Part(names, b) /\ FlattenSeq(seqs) \in Seq(BlockSet)
  <2> HIDE DEF seqs, more
  <2> QED BY <1>1, <1>2, FlattenAppend, FlattenType
<1>4. BlocksOf(names, Append(blocks, b)) = FlattenSeq(more) /\ BlocksOf(names, blocks) = FlattenSeq(seqs)
  <2>1. Append(blocks, b) \in Contents
    BY DEF Contents
  <2> QED BY <2>1, PartsOfBlocks
<1>5. \A s \in Seq(BlockSet) : s \o Part(names, b) = IF b.name \in names THEN Append(s, b) ELSE s
  BY DEF Part
<1> HIDE DEF seqs, more
<1> QED BY <1>3, <1>4, <1>5

\* The numbers of a turn, in the form that arithmetic wants.
NumbersInv ==
    /\ said.deltas \in 0..MaxDeltas /\ said.blocks \in 0..MaxBlocks
    /\ blockIndex \in 0..MaxBlocks /\ lastBlockIndex \in 0..MaxBlocks
    /\ blockDeltaIndex \in 0..MaxDeltas /\ lastBlockDeltaIndex \in 0..MaxDeltas
    /\ requests \in 0..MaxRequests

\* The other variables.
KindsInv ==
    /\ pc \in {"request", "stream", "respond", "tools", "finish", "error", "done", "failed"}
    /\ streamResponse \in BOOLEAN
    /\ appSyncFails \in BOOLEAN
    /\ block \in Names \union {"none"}
    /\ said \in [deltas : Nat, blocks : Nat]
    /\ stopReason \in StopReasons \union {NoReason}
    /\ clientToolsRequested \in BOOLEAN
    /\ pending # NoChunk => pc \in {"stream", "finish"}
    /\ reported \in BOOLEAN

LEMMA TypeOKInParts == TypeOK => NumbersInv /\ KindsInv
  BY BoundsAssumption DEF TypeOK, NumbersInv, KindsInv

LEMMA PartsGiveTypeOK ==
    ASSUME NumbersInv', KindsInv', ContentsInv'
    PROVE  TypeOK'
<1>1. Range(text') \subseteq 1..MaxDeltas
  BY RangeInType DEF ContentsInv
<1>2. said' \in [deltas : 0..MaxDeltas, blocks : 0..MaxBlocks]
  BY DEF NumbersInv, KindsInv
<1>3. /\ {blockIndex, lastBlockIndex}' \subseteq 0..MaxBlocks
      /\ {blockDeltaIndex, lastBlockDeltaIndex}' \subseteq 0..MaxDeltas
      /\ requests' \in 0..MaxRequests
  BY DEF NumbersInv
<1> QED BY <1>1, <1>2, <1>3 DEF TypeOK, KindsInv

LEMMA RequestTypes == TurnTypeInv /\ Request => TurnTypeInv'
<1> SUFFICES ASSUME TurnTypeInv, Request PROVE TurnTypeInv'
  OBVIOUS
<1>1. ContentsInv'
  BY DEF TurnTypeInv, ContentsInv, Contents, Request
<1>2. NumbersInv /\ KindsInv
  BY TypeOKInParts DEF TurnTypeInv
<1>3. NumbersInv' /\ CountsInv'
  BY <1>2, BoundsAssumption DEF TurnTypeInv, NumbersInv, CountsInv, Request
<1>4. KindsInv'
  BY <1>2 DEF KindsInv, Request, fixed
<1> QED BY <1>1, <1>3, <1>4, PartsGiveTypeOK DEF TurnTypeInv

LEMMA BlockStartTypes ==
    ASSUME TurnTypeInv, NEW name \in Names, ContentBlockStart(name)
    PROVE  TurnTypeInv'
<1>1. ContentsInv'
  BY DEF TurnTypeInv, ContentsInv, ContentBlockStart
<1>2. NumbersInv /\ KindsInv
  BY TypeOKInParts DEF TurnTypeInv
<1>3. /\ said'.deltas = said.deltas /\ said'.blocks = said.blocks + 1
      /\ said' \in [deltas : Nat, blocks : Nat]
  BY <1>2 DEF ContentBlockStart, KindsInv
<1>4. name # "none"
  BY ToolsAssumption DEF Names
<1>5. NumbersInv' /\ CountsInv'
  BY <1>2, <1>3, <1>4, BoundsAssumption DEF TurnTypeInv, NumbersInv, CountsInv, ContentBlockStart, Reading
<1>6. KindsInv'
  BY <1>2, <1>3 DEF KindsInv, ContentBlockStart, Reading, fixed
<1> QED BY <1>1, <1>5, <1>6, PartsGiveTypeOK DEF TurnTypeInv

LEMMA BlockDeltaTypes == TurnTypeInv /\ ContentBlockDelta => TurnTypeInv'
<1> SUFFICES ASSUME TurnTypeInv, ContentBlockDelta PROVE TurnTypeInv'
  OBVIOUS
<1>2. NumbersInv /\ KindsInv
  BY TypeOKInParts DEF TurnTypeInv
<1>3. /\ said'.deltas = said.deltas + 1 /\ said'.blocks = said.blocks
      /\ said' \in [deltas : Nat, blocks : Nat] /\ said.deltas + 1 \in 1..MaxDeltas
  BY <1>2, BoundsAssumption DEF ContentBlockDelta, KindsInv, NumbersInv
<1>4. text' \in Seq(1..MaxDeltas)
  BY <1>3 DEF TurnTypeInv, ContentsInv, ContentBlockDelta
<1>5. Append(accumulatedTurnContent, Block("text", text')) \in Contents
  <2>1. "text" \in Names
    BY DEF Names
  <2> QED BY <1>4, <2>1, BlocksAreBlocks DEF TurnTypeInv, ContentsInv, Contents
<1>6. pending' \in Chunks /\ pending' # NoChunk
  <2>1. pending' = Chunk("delta", blockIndex, Append(accumulatedTurnContent, Block("text", text')), blockDeltaIndex)
    BY DEF ContentBlockDelta
  <2>2. blockIndex \in Nat /\ blockDeltaIndex \in Nat
    BY <1>2 DEF NumbersInv
  <2> QED BY <1>5, <2>1, <2>2, ChunksAreChunks
<1>7. ContentsInv'
  BY <1>4, <1>6 DEF TurnTypeInv, ContentsInv, ContentBlockDelta
<1>8. NumbersInv' /\ CountsInv'
  BY <1>2, <1>3, BoundsAssumption DEF TurnTypeInv, NumbersInv, CountsInv, ContentBlockDelta, Reading
<1>9. KindsInv'
  BY <1>2, <1>3 DEF KindsInv, ContentBlockDelta, Reading, fixed
<1> QED BY <1>7, <1>8, <1>9, PartsGiveTypeOK DEF TurnTypeInv

\* A block is shown: its kind of chunk has a block's index and the content.
LEMMA ShowsTypes ==
    ASSUME TurnTypeInv, NEW kind \in {"textDone", "toolUse"}, NEW shown \in BlockSet,
           NEW detail \in Nat, Shows(kind, shown, detail)
    PROVE  /\ accumulatedTurnContent' \in Contents /\ pending' \in Chunks /\ pending' # NoChunk
           /\ lastBlockIndex' = blockIndex /\ blockIndex' = blockIndex + 1
<1>1. accumulatedTurnContent' \in Contents
  BY DEF TurnTypeInv, ContentsInv, Contents, Shows
<1>2. blockIndex \in Nat
  BY TypeOKInParts DEF TurnTypeInv, NumbersInv
<1> QED BY <1>1, <1>2, ChunksAreChunks DEF Shows

LEMMA ToolUseStopTypes == TurnTypeInv /\ ToolUseStop => TurnTypeInv'
<1> SUFFICES ASSUME TurnTypeInv, ToolUseStop PROVE TurnTypeInv'
  OBVIOUS
<1>2. NumbersInv /\ KindsInv
  BY TypeOKInParts DEF TurnTypeInv
<1>3. Block(block, <<>>) \in BlockSet /\ block # "none"
  <2>1. block \in Names /\ <<>> \in Seq(1..MaxDeltas)
    BY DEF ToolUseStop, Names
  <2> QED BY <2>1, BlocksAreBlocks, ToolsAssumption DEF ToolUseStop
<1>4. accumulatedAssistantMessage' \in Contents
  BY <1>3 DEF TurnTypeInv, ContentsInv, Contents, ToolUseStop
<1>5. /\ accumulatedTurnContent' \in Contents /\ pending' \in Chunks \union {NoChunk}
      /\ clientToolsRequested' \in BOOLEAN
      /\ \/ UNCHANGED <<blockIndex, lastBlockIndex>>
         \/ lastBlockIndex' = blockIndex /\ blockIndex' = blockIndex + 1
  <2>1. CASE block \in ClientTools
    <3>1. Shows("toolUse", Block(block, <<>>), 0) /\ clientToolsRequested' = TRUE
      BY <2>1 DEF ToolUseStop
    <3> QED BY <1>3, <3>1, ShowsTypes
  <2>2. CASE block \notin ClientTools
    BY <1>2, <2>2 DEF ToolUseStop, TurnTypeInv, ContentsInv, KindsInv
  <2> QED BY <2>1, <2>2
<1>6. ContentsInv'
  BY <1>4, <1>5 DEF TurnTypeInv, ContentsInv, ToolUseStop
<1>7. NumbersInv' /\ CountsInv'
  <2>1. pc' = "stream" /\ block' = "none"
        /\ UNCHANGED <<said, blockDeltaIndex, lastBlockDeltaIndex, requests>>
    BY DEF ToolUseStop, Reading
  <2>2. blockIndex < said.blocks /\ lastBlockIndex <= blockIndex /\ blockDeltaIndex <= said.deltas
        /\ lastBlockDeltaIndex <= blockDeltaIndex
    BY <1>3 DEF TurnTypeInv, CountsInv
  <2>3. blockIndex' \in 0..MaxBlocks /\ lastBlockIndex' \in 0..MaxBlocks
        /\ blockIndex' <= said.blocks /\ lastBlockIndex' <= blockIndex'
    BY <1>2, <1>5, <2>2, BoundsAssumption DEF NumbersInv
  <2>4. NumbersInv'
    BY <1>2, <2>1, <2>3 DEF NumbersInv
  <2> QED BY <2>1, <2>2, <2>3, <2>4 DEF CountsInv
<1>8. KindsInv'
  BY <1>2, <1>5 DEF KindsInv, ToolUseStop, Reading, fixed
<1> QED BY <1>6, <1>7, <1>8, PartsGiveTypeOK DEF TurnTypeInv

LEMMA TextStopTypes == TurnTypeInv /\ TextStop => TurnTypeInv'
<1> SUFFICES ASSUME TurnTypeInv, TextStop PROVE TurnTypeInv'
  OBVIOUS
<1>2. NumbersInv /\ KindsInv
  BY TypeOKInParts DEF TurnTypeInv
<1>3. Block("text", text) \in BlockSet
  BY BlocksAreBlocks DEF Names, TurnTypeInv, ContentsInv
<1>4. accumulatedAssistantMessage' \in Contents
  BY <1>3 DEF TurnTypeInv, ContentsInv, Contents, TextStop
<1>5. /\ accumulatedTurnContent' \in Contents /\ pending' \in Chunks
      /\ lastBlockIndex' = blockIndex /\ blockIndex' = blockIndex + 1
  <2>1. Shows("textDone", Block("text", text), lastBlockDeltaIndex) /\ lastBlockDeltaIndex \in Nat
    BY <1>2 DEF TextStop, NumbersInv
  <2> QED BY <1>3, <2>1, ShowsTypes
<1>6. ContentsInv'
  BY <1>4, <1>5 DEF TurnTypeInv, ContentsInv, TextStop
<1>7. NumbersInv' /\ CountsInv'
  BY <1>2, <1>5, BoundsAssumption DEF TurnTypeInv, NumbersInv, CountsInv, TextStop, Reading
<1>8. KindsInv'
  BY <1>2 DEF KindsInv, TextStop, Reading, fixed
<1> QED BY <1>6, <1>7, <1>8, PartsGiveTypeOK DEF TurnTypeInv

LEMMA MessageStopTypes ==
    ASSUME TurnTypeInv, NEW reason \in StopReasons, MessageStop(reason)
    PROVE  TurnTypeInv'
<1>2. NumbersInv /\ KindsInv
  BY TypeOKInParts DEF TurnTypeInv
<1>3. messages' \in Seq(Contents)
  BY DEF TurnTypeInv, ContentsInv, MessageStop
<1>4. \/ pc' = "finish" /\ pending' \in Chunks
      \/ pc' = "tools" /\ reason = "tool_use" /\ pending' = NoChunk
  <2>1. Chunk("end", lastBlockIndex, accumulatedTurnContent, 0) \in Chunks
    BY <1>2, ChunksAreChunks DEF NumbersInv, TurnTypeInv, ContentsInv
  <2> QED BY <2>1 DEF MessageStop, Reading
<1>5. ContentsInv'
  BY <1>3, <1>4 DEF TurnTypeInv, ContentsInv, MessageStop, received
<1>6. NumbersInv'
  BY <1>2 DEF NumbersInv, MessageStop, received, indexes
<1>7. CountsInv'
  BY <1>2, <1>4 DEF TurnTypeInv, CountsInv, MessageStop, MayStop, received, indexes
<1>8. KindsInv'
  BY <1>2, <1>4 DEF KindsInv, MessageStop, fixed, received
<1> QED BY <1>5, <1>6, <1>7, <1>8, PartsGiveTypeOK DEF TurnTypeInv

\* A response in one piece: its blocks, and what the client is sent of them.
LEMMA RespondsTypes ==
    ASSUME TurnTypeInv, NEW names \in SeqOf(Names, MaxBlocks - said.blocks), NEW reason \in StopReasons,
           Responds(names, reason)
    PROVE  TurnTypeInv'
<1> DEFINE blocks == [k \in DOMAIN names |-> Block(names[k], <<>>)]
<1>2. NumbersInv /\ KindsInv
  BY TypeOKInParts DEF TurnTypeInv
<1>3. names \in Seq(Names) /\ Len(names) \in 0..(MaxBlocks - said.blocks)
  <2>1. MaxBlocks - said.blocks \in Nat
    BY <1>2, BoundsAssumption DEF NumbersInv
  <2> QED BY <2>1 DEF SeqOf
<1>4. blocks \in Contents
  <2>1. \A name \in Names : Block(name, <<>>) \in BlockSet
    BY BlocksAreBlocks, <<>> \in Seq(1..MaxDeltas)
  <2>2. DOMAIN names = 1..Len(names) /\ Len(names) \in Nat /\ \A k \in 1..Len(names) : names[k] \in Names
    BY <1>3
  <2>3. blocks \in [1..Len(names) -> BlockSet]
    BY <2>1, <2>2
  <2> QED BY <2>2, <2>3 DEF Contents
<1> HIDE DEF blocks
<1>5. /\ pc = "respond" /\ MayStop(reason, blocks)
      /\ said' = [said EXCEPT !.blocks = @ + Len(names)]
      /\ stopReason' = reason
      /\ messages' = Append(messages, blocks)
      /\ \/ reason = "tool_use" /\ pc' = "tools" /\ UNCHANGED pending
         \/ pc' = "finish" /\ \E content \in {blocks, ClientToolUses(blocks)} :
                pending' = Chunk("single", 0, content, 0)
      /\ UNCHANGED <<fixed, indexes, block, text, clientToolsRequested,
                     accumulatedAssistantMessage, accumulatedTurnContent, requests, sent, reported>>
  BY DEF Responds, blocks
<1>6. said'.deltas = said.deltas /\ said'.blocks = said.blocks + Len(names)
      /\ said' \in [deltas : Nat, blocks : Nat]
  BY <1>2, <1>3, <1>5 DEF KindsInv
<1>7. \/ pc' = "tools" /\ reason = "tool_use" /\ UNCHANGED pending
      \/ pc' = "finish" /\ pending' \in Chunks
  <2>1. \A content \in Contents : Chunk("single", 0, content, 0) \in Chunks
    BY ChunksAreChunks
  <2>2. ClientToolUses(blocks) \in Contents
    BY <1>4, BlocksOfAreBlocks DEF ClientToolUses
  <2> QED BY <1>4, <1>5, <2>1, <2>2
<1>8. ContentsInv'
  BY <1>4, <1>5, <1>7 DEF TurnTypeInv, ContentsInv
<1>9. NumbersInv'
  BY <1>2, <1>3, <1>5, <1>6, BoundsAssumption DEF NumbersInv, indexes
<1>10. CountsInv'
  BY <1>2, <1>3, <1>5, <1>6, <1>7 DEF TurnTypeInv, CountsInv, NumbersInv, MayStop, indexes
<1>11. KindsInv'
  <2>1. pending = NoChunk
    BY <1>2, <1>5 DEF KindsInv
  <2> QED BY <1>2, <1>5, <1>6, <1>7, <2>1 DEF KindsInv, fixed
<1> QED BY <1>8, <1>9, <1>10, <1>11, PartsGiveTypeOK DEF TurnTypeInv

\* The last response was made of blocks.
LEMMA LastResponse ==
    ASSUME TurnTypeInv, messages # <<>>
    PROVE  Last(messages) \in Contents
  BY DEF TurnTypeInv, ContentsInv, Last

LEMMA RunToolsTypes == TurnTypeInv /\ ResultsInv /\ RunTools => TurnTypeInv'
<1> SUFFICES ASSUME TurnTypeInv, ResultsInv, RunTools PROVE TurnTypeInv'
  OBVIOUS
<1>2. NumbersInv /\ KindsInv
  BY TypeOKInParts DEF TurnTypeInv
<1>3. ToolUses(Last(messages)) \in Contents
  <2>1. messages # <<>>
    BY DEF ResultsInv, RunTools
  <2> QED BY <2>1, LastResponse, BlocksOfAreBlocks DEF ToolUses
<1>4. /\ pc = "tools"
      /\ \/ messages' = Append(messages, ToolUses(Last(messages))) /\ pc' = "request"
         \/ pc' = "error" /\ UNCHANGED messages
      /\ UNCHANGED <<fixed, indexes, received, stopReason, accumulatedTurnContent,
                     requests, pending, sent, reported>>
  BY DEF RunTools
<1>5. ContentsInv'
  <2>1. messages' \in Seq(Contents)
    <3>1. \A m \in Seq(Contents), u \in Contents : Append(m, u) \in Seq(Contents)
      OBVIOUS
    <3>2. messages \in Seq(Contents)
      BY DEF TurnTypeInv, ContentsInv
    <3> QED BY <1>3, <1>4, <3>1, <3>2
  <2> QED BY <1>4, <2>1 DEF TurnTypeInv, ContentsInv, received
<1>6. NumbersInv' /\ CountsInv'
  BY <1>2, <1>4 DEF TurnTypeInv, NumbersInv, CountsInv, received, indexes
<1>7. KindsInv'
  BY <1>2, <1>4 DEF KindsInv, received, fixed
<1> QED BY <1>5, <1>6, <1>7, PartsGiveTypeOK DEF TurnTypeInv

LEMMA OtherTurnTypes == TurnTypeInv /\ (SendChunk \/ TurnFails \/ ForwardError) => TurnTypeInv'
<1> SUFFICES ASSUME TurnTypeInv, SendChunk \/ TurnFails \/ ForwardError PROVE TurnTypeInv'
  OBVIOUS
<1>2. NumbersInv /\ KindsInv
  BY TypeOKInParts DEF TurnTypeInv
<1>3. /\ UNCHANGED <<fixed, indexes, received, stopReason, accumulatedTurnContent, messages, requests>>
      /\ \/ sent' = Append(sent, pending) /\ pending # NoChunk
         \/ UNCHANGED sent
      /\ pending' = NoChunk
      /\ reported' \in BOOLEAN
      /\ \/ UNCHANGED pc /\ pc \notin {"request", "tools"}
         \/ pc' \in {"done", "error", "failed"}
  <2>1. CASE SendChunk
    BY <1>2, <2>1 DEF SendChunk, KindsInv
  <2>2. CASE TurnFails
    BY <1>2, <2>2 DEF TurnFails, KindsInv
  <2>3. CASE ForwardError
    BY <1>2, <2>3 DEF ForwardError, KindsInv
  <2> QED BY <2>1, <2>2, <2>3
<1>4. pending' = NoChunk
  BY <1>3
<1>5. ContentsInv'
  <2>1. sent' \in Seq(Chunks)
    BY <1>3 DEF TurnTypeInv, ContentsInv
  <2> QED BY <1>3, <1>4, <2>1 DEF TurnTypeInv, ContentsInv, received
<1>6. NumbersInv' /\ CountsInv'
  BY <1>2, <1>3 DEF TurnTypeInv, NumbersInv, CountsInv, received, indexes
<1>7. KindsInv'
  BY <1>2, <1>3, <1>4 DEF KindsInv, received, fixed
<1> QED BY <1>5, <1>6, <1>7, PartsGiveTypeOK DEF TurnTypeInv

LEMMA TurnTypesPreserved == TurnTypeInv /\ ResultsInv /\ [Next]_vars => TurnTypeInv'
<1> SUFFICES ASSUME TurnTypeInv, ResultsInv, [Next]_vars PROVE TurnTypeInv'
  OBVIOUS
<1>1. CASE UNCHANGED vars
  BY <1>1 DEF vars, fixed, indexes, received, TurnTypeInv, TypeOK, ContentsInv, CountsInv
<1>2. CASE Next
  BY <1>2, RequestTypes, BlockStartTypes, BlockDeltaTypes, ToolUseStopTypes, TextStopTypes,
     MessageStopTypes, RespondsTypes, RunToolsTypes, OtherTurnTypes DEF Next
<1> QED BY <1>1, <1>2

LEMMA TurnTypesInitially == Init \/ TurnIdle => TurnTypeInv
<1> SUFFICES ASSUME Init \/ TurnIdle PROVE TurnTypeInv
  OBVIOUS
<1>1. /\ pc \in {"request", "error", "failed"}
      /\ streamResponse \in BOOLEAN /\ appSyncFails \in BOOLEAN /\ reported = FALSE
      /\ block = "none" /\ text = <<>> /\ stopReason = NoReason
      /\ clientToolsRequested = FALSE
      /\ blockIndex = 0 /\ lastBlockIndex = 0 /\ blockDeltaIndex = 0 /\ lastBlockDeltaIndex = 0
      /\ accumulatedTurnContent = <<>> /\ accumulatedAssistantMessage = <<>>
      /\ messages = <<>> /\ requests = 0 /\ pending = NoChunk /\ sent = <<>>
      /\ said \in {[deltas |-> 0, blocks |-> 0], [deltas |-> MaxDeltas, blocks |-> MaxBlocks]}
  BY DEF Init, TurnIdle
<1>2. said \in [deltas : 0..MaxDeltas, blocks : 0..MaxBlocks]
  BY <1>1, BoundsAssumption
<1>3. ContentsInv
  BY <1>1 DEF ContentsInv, Contents
<1>4. TypeOK
  <2>1. Range(text) \subseteq 1..MaxDeltas
    BY <1>3, RangeInType DEF ContentsInv
  <2>2. clientToolsRequested \in BOOLEAN /\ reported \in BOOLEAN
    BY <1>1
  <2>3. /\ {blockIndex, lastBlockIndex} \subseteq 0..MaxBlocks
        /\ {blockDeltaIndex, lastBlockDeltaIndex} \subseteq 0..MaxDeltas
        /\ requests \in 0..MaxRequests
    BY <1>1, BoundsAssumption
  <2> QED BY <1>1, <1>2, <2>1, <2>2, <2>3 DEF TypeOK
<1>5. CountsInv
  BY <1>1, <1>2, BoundsAssumption DEF CountsInv
<1> QED BY <1>3, <1>4, <1>5 DEF TurnTypeInv

-----------------------------------------------------------------------------
(* The types of history and turn. *)

\* Every variable of the history and of the turn keeps its type: an answer is
\* written behind the message it answers (associatedUserMessageId), the adapter's
\* indexes stay within what Bedrock began, and something is being sent only while
\* the turn streams or finishes; for every number of messages, blocks and requests.
THEOREM ConversationTypeCorrect == ConversationSpec => []ConversationTypeOK
<1> DEFINE Inv == HistoryTypeInv /\ TurnTypeInv /\ ResultsInv
<1>1. ConversationInit => Inv
  <2>1. Init \/ TurnIdle => ResultsInv
    BY ResultsInitially
  <2> QED BY <2>1, HistoryTypesInitially, TurnTypesInitially DEF ConversationInit
<1>2. Inv /\ [ConversationNext]_<<historyVars, vars>> => Inv'
  <2> SUFFICES ASSUME Inv, [ConversationNext]_<<historyVars, vars>> PROVE Inv'
    OBVIOUS
  <2>1. [HistoryNext]_historyVars /\ [Next]_vars
    BY DEF ConversationNext
  <2> QED BY <2>1, HistoryTypesPreserved, TurnTypesPreserved, ResultsPreserved
<1>3. Inv => ConversationTypeOK
  BY HistoryTypeInvImplies DEF ConversationTypeOK, TurnTypeInv
<1> QED BY <1>1, <1>2, <1>3, PTL DEF ConversationSpec

-----------------------------------------------------------------------------
(* What the client is shown. *)

AtOddPlaces(ms) == [k \in 1..((Len(ms) + 1) \div 2) |-> ms[2 * k - 1]]
Visible == ClientTools \union {"text"}

\* A response is at an odd place, the results of its tools are not.
LEMMA OddPlacesAppend ==
    ASSUME NEW ms \in Seq(Contents), NEW m \in Contents
    PROVE  /\ AtOddPlaces(ms) \in Seq(Contents)
           /\ Len(ms) % 2 = 0 => AtOddPlaces(Append(ms, m)) = Append(AtOddPlaces(ms), m)
           /\ Len(ms) % 2 = 1 => AtOddPlaces(Append(ms, m)) = AtOddPlaces(ms)
<1> DEFINE n == Len(ms)
           h == (n + 1) \div 2
<1>1. /\ n \in Nat /\ \A k \in 1..n : ms[k] \in Contents
      /\ Len(Append(ms, m)) = n + 1
      /\ \A k \in 1..n : Append(ms, m)[k] = ms[k]
      /\ Append(ms, m)[n + 1] = m
  OBVIOUS
<1> HIDE DEF n
<1>2. h \in Nat /\ \A k \in 1..h : 2 * k - 1 \in 1..n
  BY <1>1
<1>3. AtOddPlaces(ms) = [k \in 1..h |-> ms[2 * k - 1]]
  BY DEF AtOddPlaces, n
<1>4. AtOddPlaces(ms) \in [1..h -> Contents]
  BY <1>1, <1>2, <1>3
<1>5. AtOddPlaces(ms) \in Seq(Contents) /\ Len(AtOddPlaces(ms)) = h
  BY <1>2, <1>4, FunctionIsSequence
<1>6. AtOddPlaces(Append(ms, m)) = [k \in 1..((n + 2) \div 2) |-> Append(ms, m)[2 * k - 1]]
  <2>1. (n + 1) + 1 = n + 2
    BY <1>1
  <2> QED BY <1>1, <2>1 DEF AtOddPlaces
<1>7. CASE n % 2 = 0
  <2>1. (n + 2) \div 2 = h + 1 /\ 2 * (h + 1) - 1 = n + 1
    BY <1>1, <1>7
  <2>2. Append(AtOddPlaces(ms), m) = [k \in 1..(h + 1) |-> IF k = h + 1 THEN m ELSE AtOddPlaces(ms)[k]]
    BY <1>5, AppendIsFunction
  <2>3. \A k \in 1..(h + 1) : Append(ms, m)[2 * k - 1] = IF k = h + 1 THEN m ELSE AtOddPlaces(ms)[k]
    <3> SUFFICES ASSUME NEW k \in 1..(h + 1)
                 PROVE  Append(ms, m)[2 * k - 1] = IF k = h + 1 THEN m ELSE AtOddPlaces(ms)[k]
      OBVIOUS
    <3>1. CASE k = h + 1
      BY <1>1, <2>1, <3>1
    <3>2. CASE k # h + 1
      <4>1. k \in 1..h
        BY <1>2, <3>2
      <4> QED BY <1>1, <1>2, <1>3, <3>2, <4>1
    <3> QED BY <3>1, <3>2
  <2>4. AtOddPlaces(Append(ms, m)) = [k \in 1..(h + 1) |-> Append(ms, m)[2 * k - 1]]
    BY <1>6, <2>1
  <2>5. n % 2 # 1
    BY <1>7
  <2> QED BY <1>5, <2>2, <2>3, <2>4, <2>5 DEF n
<1>8. CASE n % 2 # 0
  <2>1. (n + 2) \div 2 = h
    BY <1>1, <1>8
  <2>2. \A k \in 1..h : Append(ms, m)[2 * k - 1] = ms[2 * k - 1]
    BY <1>1, <1>2
  <2> QED BY <1>3, <1>5, <1>6, <1>8, <2>1, <2>2 DEF n
<1> QED BY <1>7, <1>8

\* Until the turn ends, a streamed one has shown what of its responses is for the
\* client.
SeesInv ==
    streamResponse =>
        /\ pc # "respond"
        /\ pc \in {"request", "stream", "tools", "finish"} =>
              accumulatedTurnContent = BlocksOf(Visible, Recorded \o Unrecorded)

LEMMA RecordedAppend ==
    ASSUME messages \in Seq(Contents)
    PROVE  /\ Recorded \in Contents
           /\ \A m \in Contents : messages' = Append(messages, m) =>
                 Recorded' = IF Len(messages) % 2 = 0 THEN Recorded \o m ELSE Recorded
<1>1. Recorded = FlattenSeq(AtOddPlaces(messages)) /\ Recorded' = FlattenSeq(AtOddPlaces(messages'))
  BY DEF Recorded, AtOddPlaces
<1>2. AtOddPlaces(messages) \in Seq(Seq(BlockSet))
  BY OddPlacesAppend, <<>> \in Contents DEF Contents
<1>3. ASSUME NEW m \in Contents, messages' = Append(messages, m)
      PROVE  Recorded' = IF Len(messages) % 2 = 0 THEN Recorded \o m ELSE Recorded
  <2>1. CASE Len(messages) % 2 = 0
    <3>1. AtOddPlaces(messages') = Append(AtOddPlaces(messages), m)
      BY <1>3, <2>1, OddPlacesAppend
    <3> QED BY <1>1, <1>2, <2>1, <3>1, FlattenAppend DEF Contents
  <2>2. CASE Len(messages) % 2 # 0
    <3>1. Len(messages) % 2 = 1
      BY <2>2
    <3>2. AtOddPlaces(messages') = AtOddPlaces(messages)
      BY <1>3, <3>1, OddPlacesAppend
    <3> QED BY <1>1, <2>2, <3>2
  <2> QED BY <2>1, <2>2
<1> QED BY <1>1, <1>2, <1>3, FlattenType DEF Contents

\* A block more of the response is shown when it is for the client.
LEMMA OneMoreShown ==
    ASSUME TurnTypeInv, SeesInv, streamResponse, pc = "stream", UNCHANGED <<pc, messages>>,
           NEW b \in BlockSet,
           accumulatedAssistantMessage' = Append(accumulatedAssistantMessage, b),
           accumulatedTurnContent' = IF b.name \in Visible THEN Append(accumulatedTurnContent, b)
                                     ELSE accumulatedTurnContent
    PROVE  SeesInv'
<1>1. Recorded \in Contents /\ Recorded' = Recorded
  BY RecordedAppend DEF TurnTypeInv, ContentsInv, Recorded
<1>2. Unrecorded = accumulatedAssistantMessage /\ Unrecorded' = accumulatedAssistantMessage'
  BY DEF Unrecorded
<1>3. accumulatedAssistantMessage \in Contents
  BY DEF TurnTypeInv, ContentsInv
<1>4. Recorded \o accumulatedAssistantMessage \in Contents
      /\ Recorded \o Append(accumulatedAssistantMessage, b) = Append(Recorded \o accumulatedAssistantMessage, b)
  <2>1. \A r, a \in Seq(BlockSet) : r \o a \in Seq(BlockSet)
    OBVIOUS
  <2> QED BY <1>1, <1>3, <2>1, ConcatAppend DEF Contents
<1>5. accumulatedTurnContent = BlocksOf(Visible, Recorded \o accumulatedAssistantMessage)
  BY <1>2 DEF SeesInv
<1>6. BlocksOf(Visible, Recorded' \o Unrecorded') =
          IF b.name \in Visible THEN Append(accumulatedTurnContent, b) ELSE accumulatedTurnContent
  BY <1>1, <1>2, <1>4, <1>5, BlocksOfAppend
<1> QED BY <1>6 DEF SeesInv

LEMMA SeesPreserved == TurnTypeInv /\ ResultsInv /\ SeesInv /\ [Next]_vars => SeesInv'
<1> SUFFICES ASSUME TurnTypeInv, ResultsInv, SeesInv, [Next]_vars, streamResponse'
             PROVE  SeesInv'
  BY DEF SeesInv
<1>1. streamResponse /\ pc # "respond"
  <2>1. UNCHANGED streamResponse
    BY DEF Next, vars, fixed, Request, ContentBlockStart, ContentBlockDelta, ToolUseStop, TextStop,
           MessageStop, Responds, RunTools, SendChunk, TurnFails, ForwardError
  <2> QED BY <2>1 DEF SeesInv
<1>2. CASE UNCHANGED <<pc, messages, accumulatedTurnContent, accumulatedAssistantMessage,
                       clientToolsRequested>>
  BY <1>1, <1>2 DEF SeesInv, Recorded, Unrecorded
<1>3. CASE pc' \in {"error", "done", "failed"}
  BY <1>3 DEF SeesInv
<1>4. CASE Request
  <2>1. /\ pc = "request" /\ pc' = "stream" /\ accumulatedAssistantMessage' = <<>>
        /\ UNCHANGED <<messages, accumulatedTurnContent>>
    BY <1>1, <1>4 DEF Request
  <2>2. Recorded' = Recorded /\ Unrecorded = <<>> /\ Unrecorded' = <<>>
    BY <2>1 DEF Recorded, Unrecorded
  <2> QED BY <1>1, <2>1, <2>2 DEF SeesInv
<1>5. CASE ToolUseStop
  <2>1. Block(block, <<>>) \in BlockSet /\ Block(block, <<>>).name = block /\ block # "text"
    <3>1. block \in Names /\ <<>> \in Seq(1..MaxDeltas)
      BY <1>5 DEF ToolUseStop, Names
    <3> QED BY <1>5, <3>1, BlocksAreBlocks, ToolsAssumption DEF ToolUseStop, Block
  <2>2. /\ pc = "stream" /\ UNCHANGED <<pc, messages>>
        /\ accumulatedAssistantMessage' = Append(accumulatedAssistantMessage, Block(block, <<>>))
    BY <1>5 DEF ToolUseStop, Reading
  <2>3. accumulatedTurnContent' = IF block \in ClientTools THEN Append(accumulatedTurnContent, Block(block, <<>>))
                                  ELSE accumulatedTurnContent
    BY <1>5 DEF ToolUseStop, Shows
  <2>4. block \in Visible <=> block \in ClientTools
    BY <2>1 DEF Visible
  <2> QED BY <1>1, <2>1, <2>2, <2>3, <2>4, OneMoreShown
<1>6. CASE TextStop
  <2>1. Block("text", text) \in BlockSet /\ Block("text", text).name \in Visible
    BY BlocksAreBlocks DEF Names, TurnTypeInv, ContentsInv, Block, Visible
  <2>2. /\ pc = "stream" /\ UNCHANGED <<pc, messages>>
        /\ accumulatedAssistantMessage' = Append(accumulatedAssistantMessage, Block("text", text))
        /\ accumulatedTurnContent' = Append(accumulatedTurnContent, Block("text", text))
    BY <1>6 DEF TextStop, Reading, Shows
  <2> QED BY <1>1, <2>1, <2>2, OneMoreShown
<1>7. ASSUME NEW reason \in StopReasons, MessageStop(reason) PROVE SeesInv'
  <2>1. /\ pc = "stream" /\ pc' \in {"finish", "tools"}
        /\ UNCHANGED <<accumulatedTurnContent, accumulatedAssistantMessage, clientToolsRequested>>
        /\ clientToolsRequested => pc' = "finish"
        /\ messages' = IF clientToolsRequested THEN messages
                       ELSE Append(messages, accumulatedAssistantMessage)
    BY <1>7 DEF MessageStop, Reading, received
  <2>2. Unrecorded = accumulatedAssistantMessage
    BY <2>1 DEF Unrecorded
  <2>3. CASE clientToolsRequested
    <3>1. Unrecorded' = accumulatedAssistantMessage /\ Recorded' = Recorded
      BY <2>1, <2>3 DEF Unrecorded, Recorded
    <3> QED BY <1>1, <2>1, <2>2, <3>1 DEF SeesInv
  <2>4. CASE ~clientToolsRequested
    <3>1. Unrecorded' = <<>>
      BY <2>1, <2>4 DEF Unrecorded
    <3>2. Recorded \in Contents /\ Recorded' = Recorded \o accumulatedAssistantMessage
          /\ accumulatedAssistantMessage \in Contents
      BY <2>1, <2>4, RecordedAppend DEF TurnTypeInv, ContentsInv, ResultsInv
    <3>3. Recorded' \o <<>> = Recorded'
      <4>1. \A s, t \in Seq(BlockSet) : (s \o t) \o <<>> = s \o t
        OBVIOUS
      <4> QED BY <3>2, <4>1 DEF Contents
    <3> QED BY <1>1, <2>1, <2>2, <3>1, <3>2, <3>3 DEF SeesInv
  <2> QED BY <2>3, <2>4
<1>8. ASSUME RunTools, pc' = "request" PROVE SeesInv'
  <2>1. /\ pc = "tools" /\ UNCHANGED accumulatedTurnContent
        /\ messages' = Append(messages, ToolUses(Last(messages)))
    BY <1>8 DEF RunTools
  <2>2. messages # <<>> /\ Len(messages) % 2 # 0
    BY <2>1 DEF ResultsInv
  <2>3. ToolUses(Last(messages)) \in Contents
    BY <2>2, LastResponse, BlocksOfAreBlocks DEF ToolUses
  <2>4. Recorded' = Recorded
    BY <2>1, <2>2, <2>3, RecordedAppend DEF TurnTypeInv, ContentsInv
  <2>5. Unrecorded = <<>> /\ Unrecorded' = <<>>
    BY <1>8, <2>1 DEF Unrecorded
  <2> QED BY <1>1, <1>8, <2>1, <2>4, <2>5 DEF SeesInv
<1>9. ASSUME NEW name \in Names, ContentBlockStart(name) PROVE SeesInv'
  BY <1>2, <1>9 DEF ContentBlockStart, fixed
<1>10. CASE ContentBlockDelta
  BY <1>2, <1>10 DEF ContentBlockDelta, fixed
<1>11. CASE SendChunk
  <2>1. pc' = "done" \/ UNCHANGED pc
    BY <1>11 DEF SendChunk
  <2> QED BY <1>2, <1>3, <1>11, <2>1 DEF SendChunk, fixed, received
<1>12. CASE TurnFails \/ ForwardError
  BY <1>3, <1>12 DEF TurnFails, ForwardError
<1>13. RunTools => pc' \in {"request", "error"}
  BY DEF RunTools
<1>14. CASE UNCHANGED vars
  <2>1. UNCHANGED <<pc, messages, accumulatedTurnContent, accumulatedAssistantMessage,
                    clientToolsRequested>>
    BY <1>14 DEF vars, received
  <2> QED BY <1>2, <2>1
<1>15. ASSUME NEW names, NEW reason, Responds(names, reason) PROVE FALSE
  BY <1>1, <1>15 DEF Responds
<1> QED BY <1>3, <1>4, <1>5, <1>6, <1>7, <1>8, <1>9, <1>10, <1>11, <1>12, <1>13, <1>14, <1>15 DEF Next

\* The client of a streamed turn is shown every text and every use of its tools
\* (accumulatedTurnContent), those of the responses before the tools of the
\* handler ran included, in order and nothing else; for any number of requests,
\* blocks and deltas.
THEOREM ShownCorrect == Spec => []ClientSeesAllResponses
<1> DEFINE Inv == TurnTypeInv /\ ResultsInv /\ SeesInv
<1>1. Init => Inv
  <2> SUFFICES ASSUME Init PROVE SeesInv
    BY TurnTypesInitially, ResultsInitially
  <2>1. /\ messages = <<>> /\ accumulatedTurnContent = <<>> /\ accumulatedAssistantMessage = <<>>
        /\ pc \in {"request", "error"}
    BY DEF Init
  <2>2. Recorded = <<>>
    <3>1. (0 + 1) \div 2 = 0 /\ Len(<<>>) = 0
      OBVIOUS
    <3>2. [k \in 1..((Len(messages) + 1) \div 2) |-> messages[2 * k - 1]] = <<>>
      BY <2>1, <3>1
    <3> QED BY <3>2, FlattenEmpty DEF Recorded
  <2>3. Unrecorded = <<>>
    BY <2>1 DEF Unrecorded
  <2>4. <<>> \o <<>> = <<>>
    OBVIOUS
  <2>5. BlocksOf(Visible, <<>>) = <<>>
    <3>1. [k \in DOMAIN <<>> |-> IF <<>>[k].name \in Visible THEN << <<>>[k] >> ELSE <<>>] = <<>>
      OBVIOUS
    <3> QED BY <3>1, FlattenEmpty DEF BlocksOf
  <2> QED BY <2>1, <2>2, <2>3, <2>4, <2>5 DEF SeesInv
<1>2. Inv /\ [Next]_vars => Inv'
  BY TurnTypesPreserved, ResultsPreserved, SeesPreserved
<1>3. Inv => ClientSeesAllResponses
  BY DEF SeesInv, ClientSeesAllResponses, Visible
<1> QED BY <1>1, <1>2, <1>3, PTL DEF Spec

-----------------------------------------------------------------------------
(* What the client makes of the chunks. *)

\* The function that Assembly defines.
Assembles(f, n, chunks) ==
    f = [k \in 0..n |-> IF k = 0 THEN <<>> ELSE Assembled(f[k - 1], chunks[k])]

LEMMA AssemblesStep ==
    ASSUME NEW n \in Nat, NEW chunks, NEW f, Assembles(f, n, chunks)
    PROVE  f[0] = <<>> /\ \A m \in 0..(n - 1) : f[m + 1] = Assembled(f[m], chunks[m + 1])
<1>1. \A k \in 0..n : f[k] = IF k = 0 THEN <<>> ELSE Assembled(f[k - 1], chunks[k])
  BY DEF Assembles
<1>2. \A m \in 0..(n - 1) : m + 1 \in 0..n /\ (m + 1) - 1 = m /\ m + 1 # 0
  OBVIOUS
<1> QED BY <1>1, <1>2

LEMMA AssemblesExists ==
    ASSUME NEW chunks, NEW n \in Nat
    PROVE  \E f : Assembles(f, n, chunks)
<1> DEFINE T == {m \in 0..n : \E f : Assembles(f, m, chunks)}
<1>1. 0 \in T
  <2> DEFINE f == [k \in 0..0 |-> <<>>]
  <2>1. Assembles(f, 0, chunks)
    BY DEF Assembles
  <2> HIDE DEF f
  <2> QED BY <2>1
<1>2. ASSUME NEW m \in 0..(n - 1), m \in T PROVE m + 1 \in T
  <2>1. PICK f : Assembles(f, m, chunks)
    BY <1>2
  <2> DEFINE next == Assembled(f[m], chunks[m + 1])
             g == [k \in 0..(m + 1) |-> IF k = m + 1 THEN next ELSE f[k]]
  <2>2. \A k \in 0..m : f[k] = IF k = 0 THEN <<>> ELSE Assembled(f[k - 1], chunks[k])
    BY <2>1 DEF Assembles
  <2> HIDE DEF next
  <2>3. g[m + 1] = next /\ \A k \in 0..m : g[k] = f[k]
    OBVIOUS
  <2>4. \A k \in 1..(m + 1) : k - 1 \in 0..m
    OBVIOUS
  <2>5. g = [k \in 0..(m + 1) |-> g[k]]
    OBVIOUS
  <2> HIDE DEF g
  <2>6. \A k \in 0..(m + 1) : g[k] = IF k = 0 THEN <<>> ELSE Assembled(g[k - 1], chunks[k])
    <3> SUFFICES ASSUME NEW k \in 0..(m + 1)
                 PROVE  g[k] = IF k = 0 THEN <<>> ELSE Assembled(g[k - 1], chunks[k])
      OBVIOUS
    <3>1. CASE k = m + 1
      <4>1. k # 0 /\ k - 1 = m /\ m \in 0..m
        BY <3>1
      <4> QED BY <2>3, <3>1, <4>1 DEF next
    <3>2. CASE k = 0
      BY <2>2, <2>3, <3>2
    <3>3. CASE k # 0 /\ k # m + 1
      <4>1. k \in 0..m /\ k - 1 \in 0..m
        BY <3>3
      <4> QED BY <2>2, <2>3, <3>3, <4>1
    <3> QED BY <3>1, <3>2, <3>3
  <2>7. Assembles(g, m + 1, chunks)
    BY <2>5, <2>6 DEF Assembles
  <2> QED BY <2>7
<1> HIDE DEF T
<1>3. n \in T
  BY <1>1, <1>2, InductionUpTo
<1> QED BY <1>3 DEF T

LEMMA AssemblyIsLast ==
    ASSUME NEW chunks, Len(chunks) \in Nat
    PROVE  \E f : Assembles(f, Len(chunks), chunks) /\ Assembly(chunks) = f[Len(chunks)]
<1>1. \E f : f = [k \in 0..Len(chunks) |-> IF k = 0 THEN <<>> ELSE Assembled(f[k - 1], chunks[k])]
  BY AssemblesExists DEF Assembles
<1> DEFINE content == CHOOSE f :
               f = [k \in 0..Len(chunks) |-> IF k = 0 THEN <<>> ELSE Assembled(f[k - 1], chunks[k])]
<1>2. Assembles(content, Len(chunks), chunks)
  BY <1>1 DEF Assembles
<1>3. Assembly(chunks) = content[Len(chunks)]
  BY DEF Assembly
<1> QED BY <1>2, <1>3

\* A chunk more is put to what the chunks before it made.
LEMMA AssemblyAppend ==
    ASSUME NEW chunks \in Seq(Chunks), NEW c \in Chunks
    PROVE  Assembly(Append(chunks, c)) = Assembled(Assembly(chunks), c)
<1> DEFINE n == Len(chunks)
           more == Append(chunks, c)
<1>1. n \in Nat /\ Len(more) = n + 1 /\ more[n + 1] = c /\ \A k \in 1..n : more[k] = chunks[k]
  OBVIOUS
<1> HIDE DEF n, more
<1>2. PICK f : Assembles(f, n, chunks) /\ Assembly(chunks) = f[n]
  BY <1>1, AssemblyIsLast DEF n
<1>3. PICK g : Assembles(g, n + 1, more) /\ Assembly(more) = g[n + 1]
  BY <1>1, AssemblyIsLast
<1>4. f[0] = <<>> /\ \A m \in 0..(n - 1) : f[m + 1] = Assembled(f[m], chunks[m + 1])
  BY <1>1, <1>2, AssemblesStep
<1>5. g[0] = <<>> /\ \A m \in 0..n : g[m + 1] = Assembled(g[m], more[m + 1])
  <2>1. n + 1 \in Nat /\ (n + 1) - 1 = n
    BY <1>1
  <2> QED BY <1>3, <2>1, AssemblesStep
<1> DEFINE T == {m \in 0..n : f[m] = g[m]}
<1>6. 0 \in T
  BY <1>1, <1>4, <1>5
<1>7. ASSUME NEW m \in 0..(n - 1), m \in T PROVE m + 1 \in T
  <2>1. m \in 0..n /\ m + 1 \in 1..n /\ m + 1 \in 0..n
    BY <1>1
  <2> QED BY <1>1, <1>4, <1>5, <1>7, <2>1
<1> HIDE DEF T
<1>8. \A m \in 0..n : m \in T
  BY <1>1, <1>6, <1>7, InductionUpTo
<1>9. g[n + 1] = Assembled(f[n], c)
  <2>1. n \in T /\ n \in 0..n
    BY <1>1, <1>8
  <2> QED BY <1>1, <1>5, <2>1 DEF T
<1> QED BY <1>2, <1>3, <1>9 DEF more

LEMMA AssemblyEmpty == Assembly(<<>>) = <<>>
<1>1. Len(<<>>) = 0
  OBVIOUS
<1>2. PICK f : Assembles(f, 0, <<>>) /\ Assembly(<<>>) = f[0]
  BY <1>1, AssemblyIsLast
<1> QED BY <1>2, AssemblesStep

\* Shapes of blocks.
ShapeSet == [name : {"text", "toolUse"}, deltas : Seq(Nat)]
Numbered(m) == [d \in 1..m |-> d - 1]
ShapeOf(b) == Block(IF b.name = "text" THEN "text" ELSE "toolUse", Numbered(Len(b.deltas)))

LEMMA NumbersAreSequences ==
    ASSUME NEW m \in Nat
    PROVE  Numbered(m) \in Seq(Nat) /\ Len(Numbered(m)) = m
<1>1. Numbered(m) \in [1..m -> Nat]
  BY DEF Numbered
<1> QED BY <1>1, FunctionIsSequence

LEMMA NumbersAreShapes ==
    ASSUME NEW name \in {"text", "toolUse"}, NEW m \in Nat
    PROVE  Block(name, Numbered(m)) \in ShapeSet
  BY NumbersAreSequences DEF Block, ShapeSet

LEMMA NumberedAppend ==
    ASSUME NEW m \in Nat
    PROVE  Append(Numbered(m), m) = Numbered(m + 1)
<1>1. Append(Numbered(m), m) = [k \in 1..(m + 1) |-> IF k = m + 1 THEN m ELSE Numbered(m)[k]]
  <2>1. Numbered(m) \in Seq(Nat) /\ Len(Numbered(m)) = m
    BY NumbersAreSequences
  <2>2. Append(Numbered(m), m) =
            [k \in 1..(Len(Numbered(m)) + 1) |->
                IF k = Len(Numbered(m)) + 1 THEN m ELSE Numbered(m)[k]]
    BY <2>1, AppendIsFunction
  <2> QED BY <2>1, <2>2
<1>2. \A k \in 1..(m + 1) : k # m + 1 => k \in 1..m
  OBVIOUS
<1>3. \A k \in 1..m : Numbered(m)[k] = k - 1
  BY DEF Numbered
<1>4. \A k \in 1..(m + 1) : (IF k = m + 1 THEN m ELSE Numbered(m)[k]) = k - 1
  BY <1>2, <1>3
<1> QED BY <1>1, <1>4 DEF Numbered

LEMMA ShapesOfBlocks ==
    ASSUME NEW blocks \in Contents
    PROVE  /\ Shape(blocks) = [k \in 1..Len(blocks) |-> ShapeOf(blocks[k])]
           /\ Shape(blocks) \in Seq(ShapeSet) /\ Len(Shape(blocks)) = Len(blocks)
<1>1. /\ DOMAIN blocks = 1..Len(blocks) /\ Len(blocks) \in Nat
      /\ \A k \in 1..Len(blocks) : blocks[k] \in BlockSet
  BY DEF Contents
<1>2. \A b \in BlockSet : DOMAIN b.deltas = 1..Len(b.deltas) /\ Len(b.deltas) \in Nat
  BY DEF BlockSet
<1>3. \A b \in BlockSet : ShapeOf(b) \in ShapeSet
  BY <1>2, NumbersAreShapes DEF ShapeOf
<1>4. Shape(blocks) = [k \in 1..Len(blocks) |-> ShapeOf(blocks[k])]
  BY <1>1, <1>2 DEF Shape, ShapeOf, Numbered
<1>5. [k \in 1..Len(blocks) |-> ShapeOf(blocks[k])] \in [1..Len(blocks) -> ShapeSet]
  BY <1>1, <1>3
<1> QED BY <1>1, <1>4, <1>5, FunctionIsSequence

\* One block more is one shape more.
LEMMA ShapeAppend ==
    ASSUME NEW blocks \in Contents, NEW b \in BlockSet
    PROVE  Shape(Append(blocks, b)) = Append(Shape(blocks), ShapeOf(b)) /\ ShapeOf(b) \in ShapeSet
<1>1. /\ Append(blocks, b) \in Contents /\ Len(Append(blocks, b)) = Len(blocks) + 1
      /\ Len(blocks) \in Nat /\ Append(blocks, b)[Len(blocks) + 1] = b
      /\ \A k \in 1..Len(blocks) : Append(blocks, b)[k] = blocks[k]
  BY DEF Contents
<1>2. ShapeOf(b) \in ShapeSet
  <2>1. Len(b.deltas) \in Nat
    BY DEF BlockSet
  <2> QED BY <2>1, NumbersAreShapes DEF ShapeOf
<1>3. /\ Shape(Append(blocks, b)) = [k \in 1..(Len(blocks) + 1) |-> ShapeOf(Append(blocks, b)[k])]
      /\ Shape(blocks) = [k \in 1..Len(blocks) |-> ShapeOf(blocks[k])]
      /\ Shape(blocks) \in Seq(ShapeSet) /\ Len(Shape(blocks)) = Len(blocks)
  BY <1>1, ShapesOfBlocks
<1>4. Append(Shape(blocks), ShapeOf(b)) =
          [k \in 1..(Len(blocks) + 1) |-> IF k = Len(blocks) + 1 THEN ShapeOf(b) ELSE Shape(blocks)[k]]
  BY <1>2, <1>3, AppendIsFunction
<1>5. \A k \in 1..(Len(blocks) + 1) :
          ShapeOf(Append(blocks, b)[k]) = IF k = Len(blocks) + 1 THEN ShapeOf(b) ELSE Shape(blocks)[k]
  <2>1. \A k \in 1..(Len(blocks) + 1) : k # Len(blocks) + 1 => k \in 1..Len(blocks)
    BY <1>1
  <2>2. \A k \in 1..Len(blocks) : Shape(blocks)[k] = ShapeOf(blocks[k])
    BY <1>3
  <2> QED BY <1>1, <2>1, <2>2
<1> QED BY <1>2, <1>3, <1>4, <1>5

\* A delta makes the last block longer, or begins it.
LEMMA DeltaAssembled ==
    ASSUME NEW shapes \in Seq(ShapeSet), NEW m \in Nat, NEW content,
           content = IF m = 0 THEN shapes ELSE Append(shapes, Block("text", Numbered(m))),
           NEW c, c.kind = "delta", c.contentBlockIndex = Len(shapes), c.detail = m
    PROVE  Assembled(content, c) = Append(shapes, Block("text", Numbered(m + 1)))
<1> DEFINE n == Len(shapes) + 1
           old == Block("text", Numbered(m))
           new == Block("text", Numbered(m + 1))
           known == Append(shapes, old)
<1>1. n \in Nat /\ old \in ShapeSet /\ new \in ShapeSet
  BY NumbersAreShapes
<1>2. [old EXCEPT !.deltas = Append(@, m)] = new
  <2>1. Append(old.deltas, m) = new.deltas
    BY NumberedAppend DEF Block
  <2>2. [old EXCEPT !.deltas = new.deltas] = new
    BY DEF Block
  <2> HIDE DEF old, new
  <2> QED BY <2>1, <2>2
<1>3. Numbered(0) = <<>>
  BY DEF Numbered
<1>4. (IF n = Len(content) + 1 THEN Append(content, Block("text", <<>>)) ELSE content) = known
  <2>1. CASE m = 0
    BY <1>3, <2>1
  <2>2. CASE m # 0
    <3>1. content = known /\ Len(known) = n
      BY <1>1, <2>2
    <3> QED BY <1>1, <3>1
  <2> QED BY <2>1, <2>2
<1>5. Assembled(content, c) = [known EXCEPT ![n].deltas = Append(@, m)]
  BY <1>4 DEF Assembled
<1>6. /\ known = [k \in 1..n |-> IF k = n THEN old ELSE shapes[k]]
      /\ Append(shapes, new) = [k \in 1..n |-> IF k = n THEN new ELSE shapes[k]]
  <2> HIDE DEF old, new
  <2> QED BY <1>1, AppendIsFunction
<1> HIDE DEF known, old, new
<1>7. n \in 1..n
  BY <1>1
<1>8. [known EXCEPT ![n].deltas = Append(@, m)] = [known EXCEPT ![n] = new]
  BY <1>2, <1>6, <1>7
<1>9. [known EXCEPT ![n] = new] = Append(shapes, new)
  BY <1>6, <1>7
<1> QED BY <1>5, <1>8, <1>9 DEF new

\* The content of the turn, the text being received included.
Live(content, deltas) == IF deltas = <<>> THEN content ELSE Append(content, Block("text", deltas))

\* The chunks tell this content: put together, by their last one's own account
\* and by what their ends say.
Tells(chunks, content, deltas, index, lastIndex, lastDelta) ==
    /\ EndsNameTheLast(chunks)
    /\ Assembly(chunks) = Shape(Live(content, deltas))
    /\ chunks # <<>> => Last(chunks).accumulatedTurnContent = Live(content, deltas)
    /\ deltas # <<>> =>
          /\ chunks # <<>>
          /\ IsDelta(Last(chunks), index) /\ Last(chunks).detail = lastDelta
    /\ deltas = <<>> /\ chunks # <<>> => Last(chunks).contentBlockIndex = lastIndex
    /\ \A k \in DOMAIN chunks : chunks[k].kind = "delta" =>
          \/ chunks[k].contentBlockIndex < index
          \/ chunks[k].contentBlockIndex = index /\ deltas # <<>>

LEMMA ChunksAppend ==
    ASSUME NEW chunks \in Seq(Chunks), NEW c \in Chunks
    PROVE  /\ Append(chunks, c) \in Seq(Chunks) /\ Append(chunks, c) # <<>>
           /\ Len(chunks) \in Nat
           /\ DOMAIN chunks = 1..Len(chunks) /\ DOMAIN Append(chunks, c) = 1..(Len(chunks) + 1)
           /\ \A k \in 1..Len(chunks) : Append(chunks, c)[k] = chunks[k]
           /\ Append(chunks, c)[Len(chunks) + 1] = c
           /\ Last(Append(chunks, c)) = c
           /\ chunks # <<>> => Last(chunks) = chunks[Len(chunks)] /\ Len(chunks) \in 1..Len(chunks)
<1>1. /\ Append(chunks, c) \in Seq(Chunks) /\ Len(Append(chunks, c)) = Len(chunks) + 1
      /\ Len(chunks) \in Nat /\ DOMAIN chunks = 1..Len(chunks)
      /\ DOMAIN Append(chunks, c) = 1..(Len(chunks) + 1)
  OBVIOUS
<1>2. Append(chunks, c)[Len(chunks) + 1] = c /\ \A k \in 1..Len(chunks) : Append(chunks, c)[k] = chunks[k]
  OBVIOUS
<1>3. chunks # <<>> => Len(chunks) \in 1..Len(chunks)
  OBVIOUS
<1>4. Append(chunks, c) # <<>>
  <2>1. Len(<<>>) = 0
    OBVIOUS
  <2> QED BY <1>1, <2>1
<1> QED BY <1>1, <1>2, <1>3, <1>4 DEF Last

\* An end that names the last behind chunks whose ends do.
LEMMA EndsAppend ==
    ASSUME NEW chunks \in Seq(Chunks), NEW c \in Chunks, EndsNameTheLast(chunks),
           c.kind = "textDone" =>
              \A j \in 1..Len(chunks) :
                 /\ IsDelta(chunks[j], c.contentBlockIndex)
                 /\ \A i \in (j + 1)..Len(chunks) : ~IsDelta(chunks[i], c.contentBlockIndex)
                 => c.detail = chunks[j].detail,
           c.kind = "end" /\ chunks # <<>> => c.contentBlockIndex = Last(chunks).contentBlockIndex
    PROVE  EndsNameTheLast(Append(chunks, c))
<1> DEFINE n == Len(chunks)
           more == Append(chunks, c)
<1>1. /\ n \in Nat /\ DOMAIN chunks = 1..n /\ DOMAIN more = 1..(n + 1)
      /\ \A k \in 1..n : more[k] = chunks[k]
      /\ more[n + 1] = c
      /\ n # 0 => chunks # <<>> /\ Last(chunks) = chunks[n]
  <2>1. n # 0 => chunks # <<>>
    OBVIOUS
  <2> QED BY <2>1, ChunksAppend
<1> SUFFICES ASSUME NEW k \in DOMAIN more
             PROVE  /\ more[k].kind = "textDone" =>
                           \A j \in 1..(k - 1) :
                              /\ IsDelta(more[j], more[k].contentBlockIndex)
                              /\ \A i \in (j + 1)..(k - 1) : ~IsDelta(more[i], more[k].contentBlockIndex)
                              => more[k].detail = more[j].detail
                    /\ more[k].kind = "end" /\ k > 1 =>
                           more[k].contentBlockIndex = more[k - 1].contentBlockIndex
  BY DEF EndsNameTheLast
<1>2. \A i \in 1..(k - 1) : more[i] = chunks[i] /\ i \in 1..n
  <2> HIDE DEF more, n
  <2> QED BY <1>1
<1>3. \A j \in 1..(k - 1) : \A i \in (j + 1)..(k - 1) : i \in 1..(k - 1)
  <2> HIDE DEF more, n
  <2> QED BY <1>1
<1>4. k > 1 => k - 1 \in 1..(k - 1)
  <2> HIDE DEF more, n
  <2> QED BY <1>1
<1>5. CASE k = n + 1
  <2>1. more[k] = c /\ k - 1 = n
    <3> HIDE DEF more, n
    <3> QED BY <1>1, <1>5
  <2>2. c.kind = "textDone" =>
            \A j \in 1..(k - 1) :
               /\ IsDelta(more[j], c.contentBlockIndex)
               /\ \A i \in (j + 1)..(k - 1) : ~IsDelta(more[i], c.contentBlockIndex)
               => c.detail = more[j].detail
    <3> SUFFICES ASSUME c.kind = "textDone", NEW j \in 1..(k - 1),
                        IsDelta(more[j], c.contentBlockIndex),
                        \A i \in (j + 1)..(k - 1) : ~IsDelta(more[i], c.contentBlockIndex)
                 PROVE  c.detail = more[j].detail
      OBVIOUS
    <3>1. IsDelta(chunks[j], c.contentBlockIndex) /\ more[j] = chunks[j] /\ j \in 1..Len(chunks)
      BY <1>2
    <3>2. \A i \in (j + 1)..Len(chunks) : ~IsDelta(chunks[i], c.contentBlockIndex)
      BY <1>2, <1>3, <2>1
    <3> HIDE DEF more
    <3> QED BY <3>1, <3>2
  <2>3. c.kind = "end" /\ k > 1 => c.contentBlockIndex = more[k - 1].contentBlockIndex
    <3> HIDE DEF more, n
    <3> QED BY <1>1, <1>2, <1>4, <1>5, <2>1
  <2> HIDE DEF more, n
  <2> QED BY <2>1, <2>2, <2>3
<1>6. CASE k # n + 1
  <2>1. k \in DOMAIN chunks /\ more[k] = chunks[k]
    <3> HIDE DEF more, n
    <3> QED BY <1>1, <1>6
  <2>2. /\ chunks[k].kind = "textDone" =>
              \A j \in 1..(k - 1) :
                 /\ IsDelta(chunks[j], chunks[k].contentBlockIndex)
                 /\ \A i \in (j + 1)..(k - 1) : ~IsDelta(chunks[i], chunks[k].contentBlockIndex)
                 => chunks[k].detail = chunks[j].detail
        /\ chunks[k].kind = "end" /\ k > 1 =>
              chunks[k].contentBlockIndex = chunks[k - 1].contentBlockIndex
    BY <2>1 DEF EndsNameTheLast
  <2> HIDE DEF more, n
  <2>3. chunks[k].kind = "end" /\ k > 1 =>
            chunks[k].contentBlockIndex = more[k - 1].contentBlockIndex
    BY <1>2, <1>4, <2>2
  <2> QED BY <1>2, <1>3, <2>1, <2>2, <2>3
<1> QED BY <1>5, <1>6

\* A chunk that is no delta, with the content that it completes.
LEMMA TellsAppend ==
    ASSUME NEW chunks \in Seq(Chunks), NEW c \in Chunks, c.kind # "delta",
           NEW content \in Contents, NEW deltas, NEW index \in Nat, NEW lastIndex, NEW lastDelta,
           Tells(chunks, content, deltas, index, lastIndex, lastDelta),
           NEW next \in Nat, index < next \/ (index = next /\ deltas = <<>>), NEW otherDelta,
           EndsNameTheLast(Append(chunks, c)),
           Assembled(Assembly(chunks), c) = Shape(c.accumulatedTurnContent)
    PROVE  Tells(Append(chunks, c), c.accumulatedTurnContent, <<>>, next,
                 c.contentBlockIndex, otherDelta)
<1> DEFINE more == Append(chunks, c)
<1>1. /\ more # <<>> /\ Last(more) = c /\ DOMAIN chunks = 1..Len(chunks)
      /\ DOMAIN more = 1..(Len(chunks) + 1) /\ Len(chunks) \in Nat
      /\ more[Len(chunks) + 1] = c /\ \A k \in 1..Len(chunks) : more[k] = chunks[k]
  BY ChunksAppend
<1>2. Assembly(more) = Shape(c.accumulatedTurnContent)
  BY AssemblyAppend
<1>3. \A k \in DOMAIN more : more[k].kind = "delta" => more[k].contentBlockIndex < next
  <2> SUFFICES ASSUME NEW k \in DOMAIN more, more[k].kind = "delta"
               PROVE  more[k].contentBlockIndex < next
    OBVIOUS
  <2> HIDE DEF more
  <2>1. k \in 1..Len(chunks)
    BY <1>1
  <2>2. more[k] = chunks[k] /\ chunks[k] \in Chunks
    BY <1>1, <2>1
  <2>3. chunks[k].contentBlockIndex \in Nat
    BY <2>2 DEF Chunks
  <2>4. chunks[k].contentBlockIndex < index \/ (chunks[k].contentBlockIndex = index /\ deltas # <<>>)
    BY <1>1, <2>1, <2>2 DEF Tells
  <2> QED BY <2>2, <2>3, <2>4
<1> HIDE DEF more
<1>4. EndsNameTheLast(more)
  BY DEF more
<1> QED BY <1>1, <1>2, <1>3, <1>4 DEF Tells, Live, more

LEMMA TextDoneTells ==
    ASSUME NEW chunks \in Seq(Chunks), NEW content \in Contents, NEW deltas \in Seq(1..MaxDeltas),
           NEW lastIndex, NEW lastDelta \in Nat, NEW otherDelta,
           Tells(chunks, content, deltas, Len(content), lastIndex, lastDelta)
    PROVE  LET shown == Append(content, Block("text", deltas))
           IN  Tells(Append(chunks, Chunk("textDone", Len(content), shown, lastDelta)),
                     shown, <<>>, Len(content) + 1, Len(content), otherDelta)
<1> DEFINE b == Block("text", deltas)
           shown == Append(content, b)
           n == Len(content)
           c == Chunk("textDone", n, shown, lastDelta)
<1>1. b \in BlockSet
  <2>1. "text" \in Names
    BY DEF Names
  <2> QED BY <2>1, BlocksAreBlocks
<1>2. shown \in Contents /\ n \in Nat /\ n + 1 \in Nat
  <2> HIDE DEF b
  <2> QED BY <1>1 DEF Contents
<1>3. c \in Chunks /\ c.kind = "textDone" /\ c.contentBlockIndex = n
      /\ c.accumulatedTurnContent = shown /\ c.detail = lastDelta
  <2>1. c \in Chunks
    <3> HIDE DEF shown, n
    <3> QED BY <1>2, ChunksAreChunks
  <2> HIDE DEF shown, n
  <2> QED BY <2>1 DEF Chunk
<1> HIDE DEF c
<1>4. Assembly(chunks) = Shape(Live(content, deltas))
  BY DEF Tells
<1>5. Assembled(Assembly(chunks), c) = Shape(shown)
  <2>1. Assembled(Assembly(chunks), c) =
            IF n + 1 = Len(Assembly(chunks)) + 1
            THEN Append(Assembly(chunks), Block("text", <<>>)) ELSE Assembly(chunks)
    <3> HIDE DEF n
    <3> QED BY <1>3 DEF Assembled
  <2>2. CASE deltas = <<>>
    <3>1. Assembly(chunks) = Shape(content) /\ Len(Shape(content)) = n
      BY <1>4, <2>2, ShapesOfBlocks DEF Live
    <3>2. Shape(shown) = Append(Shape(content), ShapeOf(b))
      <4> HIDE DEF b
      <4> QED BY <1>1, ShapeAppend
    <3>3. ShapeOf(b) = Block("text", <<>>)
      BY <2>2 DEF ShapeOf, Block, Numbered
    <3> HIDE DEF b, shown, n
    <3> QED BY <2>1, <3>1, <3>2, <3>3
  <2>3. CASE deltas # <<>>
    <3>1. Assembly(chunks) = Shape(shown)
      BY <1>4, <2>3 DEF Live
    <3>2. Len(Shape(shown)) = n + 1
      <4>1. Len(shown) = n + 1
        <5> HIDE DEF b
        <5> QED BY <1>1 DEF Contents
      <4> HIDE DEF shown, n
      <4> QED BY <1>2, <4>1, ShapesOfBlocks
    <3> HIDE DEF b, shown, n
    <3> QED BY <1>2, <2>1, <3>1, <3>2
  <2> QED BY <2>2, <2>3
<1>6. \A j \in 1..Len(chunks) :
          /\ IsDelta(chunks[j], n)
          /\ \A i \in (j + 1)..Len(chunks) : ~IsDelta(chunks[i], n)
          => lastDelta = chunks[j].detail
  <2> SUFFICES ASSUME NEW j \in 1..Len(chunks), IsDelta(chunks[j], n),
                      \A i \in (j + 1)..Len(chunks) : ~IsDelta(chunks[i], n)
               PROVE  lastDelta = chunks[j].detail
    OBVIOUS
  <2> HIDE DEF n
  <2>1. j \in DOMAIN chunks /\ Len(chunks) \in Nat /\ chunks # <<>>
    <3>1. Len(<<>>) = 0
      OBVIOUS
    <3> QED BY <3>1
  <2>2. deltas # <<>>
    <3>1. chunks[j].contentBlockIndex < n \/ deltas # <<>>
      BY <2>1 DEF Tells, IsDelta, n
    <3> QED BY <1>2, <3>1 DEF IsDelta
  <2>3. IsDelta(Last(chunks), n) /\ Last(chunks).detail = lastDelta
    BY <2>2 DEF Tells, n
  <2>4. Last(chunks) = chunks[Len(chunks)]
    BY DEF Last
  <2>5. j = Len(chunks)
    <3>1. j # Len(chunks) => Len(chunks) \in (j + 1)..Len(chunks)
      BY <2>1
    <3> QED BY <2>3, <2>4, <3>1
  <2> QED BY <2>3, <2>4, <2>5
<1>7. EndsNameTheLast(chunks)
  BY DEF Tells
<1> HIDE DEF n, shown
<1>8. EndsNameTheLast(Append(chunks, c))
  <2>1. c.kind # "end" /\ \A j \in 1..Len(chunks) :
            /\ IsDelta(chunks[j], c.contentBlockIndex)
            /\ \A i \in (j + 1)..Len(chunks) : ~IsDelta(chunks[i], c.contentBlockIndex)
            => c.detail = chunks[j].detail
    BY <1>3, <1>6
  <2> QED BY <1>3, <1>7, <2>1, EndsAppend
<1>9. Tells(chunks, content, deltas, n, lastIndex, lastDelta) /\ n < n + 1
  BY <1>2 DEF n
<1>10. Tells(Append(chunks, c), c.accumulatedTurnContent, <<>>, n + 1, c.contentBlockIndex, otherDelta)
  <2>1. c.kind # "delta" /\ Assembled(Assembly(chunks), c) = Shape(c.accumulatedTurnContent)
    BY <1>3, <1>5
  <2> QED BY <1>2, <1>3, <1>8, <1>9, <2>1, TellsAppend
<1>11. Tells(Append(chunks, c), shown, <<>>, n + 1, n, otherDelta)
  BY <1>3, <1>10
<1> QED BY <1>11 DEF c, n, shown

LEMMA ToolUseTells ==
    ASSUME NEW chunks \in Seq(Chunks), NEW content \in Contents, NEW name \in ClientTools,
           NEW lastIndex, NEW lastDelta, NEW otherDelta,
           Tells(chunks, content, <<>>, Len(content), lastIndex, lastDelta)
    PROVE  LET shown == Append(content, Block(name, <<>>))
           IN  Tells(Append(chunks, Chunk("toolUse", Len(content), shown, 0)),
                     shown, <<>>, Len(content) + 1, Len(content), otherDelta)
<1> DEFINE b == Block(name, <<>>)
           shown == Append(content, b)
           n == Len(content)
           c == Chunk("toolUse", n, shown, 0)
<1>1. b \in BlockSet /\ ShapeOf(b) = Block("toolUse", <<>>)
  <2>1. name \in Names /\ name # "text"
    BY ToolsAssumption DEF Names, Tools
  <2>2. <<>> \in Seq(1..MaxDeltas)
    OBVIOUS
  <2>3. ShapeOf(b) = Block("toolUse", <<>>)
    BY <2>1 DEF ShapeOf, Block, Numbered
  <2> QED BY <2>1, <2>2, <2>3, BlocksAreBlocks
<1>2. shown \in Contents /\ n \in Nat /\ n + 1 \in Nat
  <2> HIDE DEF b
  <2> QED BY <1>1 DEF Contents
<1>3. c \in Chunks /\ c.kind = "toolUse" /\ c.contentBlockIndex = n
      /\ c.accumulatedTurnContent = shown
  <2>1. c \in Chunks
    <3> HIDE DEF shown, n
    <3> QED BY <1>2, ChunksAreChunks
  <2> HIDE DEF shown, n
  <2> QED BY <2>1 DEF Chunk
<1> HIDE DEF c
<1>4. Assembly(chunks) = Shape(content) /\ EndsNameTheLast(chunks)
  BY DEF Tells, Live
<1>5. Assembled(Assembly(chunks), c) = Shape(shown)
  <2>1. Shape(shown) = Append(Shape(content), ShapeOf(b))
    <3> HIDE DEF b
    <3> QED BY <1>1, ShapeAppend
  <2> HIDE DEF b, shown, n
  <2>2. Assembled(Assembly(chunks), c) = Append(Assembly(chunks), Block("toolUse", <<>>))
    BY <1>3 DEF Assembled
  <2> QED BY <1>1, <1>4, <2>1, <2>2
<1> HIDE DEF n, shown
<1>6. EndsNameTheLast(Append(chunks, c))
  <2>1. c.kind # "end" /\ c.kind # "textDone"
    BY <1>3
  <2> QED BY <1>3, <1>4, <2>1, EndsAppend
<1>7. Tells(chunks, content, <<>>, n, lastIndex, lastDelta) /\ n < n + 1
  BY <1>2 DEF n
<1>8. Tells(Append(chunks, c), c.accumulatedTurnContent, <<>>, n + 1, c.contentBlockIndex, otherDelta)
  <2>1. c.kind # "delta" /\ Assembled(Assembly(chunks), c) = Shape(c.accumulatedTurnContent)
    BY <1>3, <1>5
  <2> QED BY <1>2, <1>3, <1>6, <1>7, <2>1, TellsAppend
<1>9. Tells(Append(chunks, c), shown, <<>>, n + 1, n, otherDelta)
  BY <1>3, <1>8
<1> QED BY <1>9 DEF c, n, shown

LEMMA EndTells ==
    ASSUME NEW chunks \in Seq(Chunks), NEW content \in Contents, NEW index \in Nat,
           NEW lastIndex \in Nat, NEW lastDelta, NEW otherDelta,
           Tells(chunks, content, <<>>, index, lastIndex, lastDelta)
    PROVE  Tells(Append(chunks, Chunk("end", lastIndex, content, 0)),
                 content, <<>>, index, lastIndex, otherDelta)
<1> DEFINE c == Chunk("end", lastIndex, content, 0)
<1>1. c \in Chunks /\ c.kind = "end" /\ c.contentBlockIndex = lastIndex
      /\ c.accumulatedTurnContent = content
  <2>1. c \in Chunks
    BY ChunksAreChunks
  <2> QED BY <2>1 DEF Chunk
<1> HIDE DEF c
<1>2. /\ Assembly(chunks) = Shape(content) /\ EndsNameTheLast(chunks)
      /\ chunks # <<>> => Last(chunks).contentBlockIndex = lastIndex
  BY DEF Tells, Live
<1>3. Assembled(Assembly(chunks), c) = Shape(content)
  BY <1>1, <1>2 DEF Assembled
<1>4. EndsNameTheLast(Append(chunks, c))
  <2>1. c.kind # "textDone" /\ (c.kind = "end" /\ chunks # <<>> =>
            c.contentBlockIndex = Last(chunks).contentBlockIndex)
    BY <1>1, <1>2
  <2> QED BY <1>1, <1>2, <2>1, EndsAppend
<1>5. Tells(Append(chunks, c), c.accumulatedTurnContent, <<>>, index, c.contentBlockIndex, otherDelta)
  <2>1. c.kind # "delta" /\ Assembled(Assembly(chunks), c) = Shape(c.accumulatedTurnContent)
    BY <1>1, <1>3
  <2> QED BY <1>1, <1>4, <2>1, TellsAppend
<1>6. Tells(Append(chunks, c), content, <<>>, index, lastIndex, otherDelta)
  BY <1>1, <1>5
<1> QED BY <1>6 DEF c

LEMMA DeltaTells ==
    ASSUME NEW chunks \in Seq(Chunks), NEW content \in Contents, NEW deltas \in Seq(1..MaxDeltas),
           NEW d \in 1..MaxDeltas, NEW lastIndex, NEW lastDelta, NEW otherIndex,
           Tells(chunks, content, deltas, Len(content), lastIndex, lastDelta)
    PROVE  LET live == Append(content, Block("text", Append(deltas, d)))
           IN  Tells(Append(chunks, Chunk("delta", Len(content), live, Len(deltas))),
                     content, Append(deltas, d), Len(content), otherIndex, Len(deltas))
<1> DEFINE longer == Append(deltas, d)
           b == Block("text", longer)
           live == Append(content, b)
           n == Len(content)
           m == Len(deltas)
           c == Chunk("delta", n, live, m)
           more == Append(chunks, c)
<1>1. longer \in Seq(1..MaxDeltas) /\ Len(longer) = m + 1 /\ m \in Nat /\ longer # <<>>
  <2>1. longer \in Seq(1..MaxDeltas) /\ Len(longer) = m + 1 /\ m \in Nat
    OBVIOUS
  <2>2. Len(<<>>) = 0
    OBVIOUS
  <2> HIDE DEF longer, m
  <2> QED BY <2>1, <2>2
<1> HIDE DEF longer
<1>2. b \in BlockSet
  <2>1. "text" \in Names
    BY DEF Names
  <2> QED BY <1>1, <2>1, BlocksAreBlocks
<1>3. live \in Contents /\ n \in Nat
  <2> HIDE DEF b
  <2> QED BY <1>2 DEF Contents
<1>4. c \in Chunks /\ c.kind = "delta" /\ c.contentBlockIndex = n
      /\ c.accumulatedTurnContent = live /\ c.detail = m
  <2>1. c \in Chunks
    <3> HIDE DEF live, n, m
    <3> QED BY <1>1, <1>3, ChunksAreChunks
  <2> HIDE DEF live, n, m
  <2> QED BY <2>1 DEF Chunk
<1>5. Live(content, longer) = live
  BY <1>1 DEF Live
<1> HIDE DEF c
<1>6. Assembly(chunks) = IF m = 0 THEN Shape(content)
                         ELSE Append(Shape(content), Block("text", Numbered(m)))
  <2>1. Assembly(chunks) = Shape(Live(content, deltas))
    BY DEF Tells
  <2>2. m = 0 <=> deltas = <<>>
    OBVIOUS
  <2>3. CASE deltas = <<>>
    BY <2>1, <2>2, <2>3 DEF Live
  <2>4. CASE deltas # <<>>
    <3> DEFINE last == Block("text", deltas)
    <3>1. last \in BlockSet /\ ShapeOf(last) = Block("text", Numbered(m))
      <4>1. "text" \in Names
        BY DEF Names
      <4>2. last \in BlockSet
        BY <4>1, BlocksAreBlocks
      <4>3. last.name = "text" /\ last.deltas = deltas
        BY DEF Block
      <4> HIDE DEF last
      <4> QED BY <4>2, <4>3 DEF ShapeOf
    <3>2. Live(content, deltas) = Append(content, last)
      BY <2>4 DEF Live
    <3> HIDE DEF last, m
    <3> QED BY <2>1, <2>2, <2>4, <3>1, <3>2, ShapeAppend
  <2> QED BY <2>3, <2>4
<1>7. Assembly(more) = Shape(live)
  <2>1. Shape(content) \in Seq(ShapeSet) /\ Len(Shape(content)) = n
    BY ShapesOfBlocks
  <2>2. Shape(live) = Append(Shape(content), ShapeOf(b))
    <3> HIDE DEF b
    <3> QED BY <1>2, ShapeAppend
  <2>3. ShapeOf(b) = Block("text", Numbered(m + 1))
    <3>1. b.name = "text" /\ b.deltas = longer
      BY DEF Block
    <3> HIDE DEF b
    <3> QED BY <1>1, <3>1 DEF ShapeOf
  <2> HIDE DEF b, live, n, m
  <2>4. Assembly(more) = Assembled(Assembly(chunks), c)
    BY <1>4, AssemblyAppend
  <2>5. Assembled(Assembly(chunks), c) = Append(Shape(content), Block("text", Numbered(m + 1)))
    <3>1. c.contentBlockIndex = Len(Shape(content))
      BY <1>4, <2>1
    <3> QED BY <1>1, <1>4, <1>6, <2>1, <3>1, DeltaAssembled
  <2> QED BY <2>2, <2>3, <2>4, <2>5
<1>8. EndsNameTheLast(more)
  <2>1. c.kind # "end" /\ c.kind # "textDone" /\ EndsNameTheLast(chunks)
    BY <1>4 DEF Tells
  <2> HIDE DEF n, live
  <2> QED BY <1>4, <2>1, EndsAppend
<1>9. /\ more # <<>> /\ Last(more) = c /\ DOMAIN chunks = 1..Len(chunks)
      /\ DOMAIN more = 1..(Len(chunks) + 1) /\ Len(chunks) \in Nat
      /\ more[Len(chunks) + 1] = c /\ \A k \in 1..Len(chunks) : more[k] = chunks[k]
  BY <1>4, ChunksAppend
<1>10. \A k \in DOMAIN more : more[k].kind = "delta" =>
           more[k].contentBlockIndex < n \/ more[k].contentBlockIndex = n
  <2> SUFFICES ASSUME NEW k \in DOMAIN more, more[k].kind = "delta"
               PROVE  more[k].contentBlockIndex < n \/ more[k].contentBlockIndex = n
    OBVIOUS
  <2>1. Tells(chunks, content, deltas, n, lastIndex, lastDelta)
    OBVIOUS
  <2> HIDE DEF more, n
  <2>2. k \in 1..Len(chunks) \/ k = Len(chunks) + 1
    BY <1>9
  <2>3. CASE k \in 1..Len(chunks)
    BY <1>9, <2>1, <2>3 DEF Tells
  <2>4. CASE k = Len(chunks) + 1
    BY <1>4, <1>9, <2>4
  <2> QED BY <2>2, <2>3, <2>4
<1> HIDE DEF more, live, n, m
<1>11. Tells(more, content, longer, n, otherIndex, m)
  BY <1>1, <1>4, <1>5, <1>7, <1>8, <1>9, <1>10 DEF Tells, IsDelta
<1> QED BY <1>11 DEF more, c, live, longer, n, m

Yielded == IF pending = NoChunk THEN sent ELSE Append(sent, pending)
Going == {"request", "stream", "tools", "finish"}

Told(chunks) ==
    /\ chunks # <<>> => Assembly(chunks) = Shape(Last(chunks).accumulatedTurnContent)
    /\ EndsNameTheLast(chunks)

\* While a streamed turn goes on, the chunks that are sent or about to be tell the
\* content of the turn, and the adapter's indexes count its blocks and deltas.
YieldInv ==
    /\ Tells(Yielded, accumulatedTurnContent, text, blockIndex, lastBlockIndex, lastBlockDeltaIndex)
    /\ Len(accumulatedTurnContent) = blockIndex
    /\ block = "text" => Len(text) = blockDeltaIndex
    /\ block # "text" => text = <<>>
    /\ pc # "stream" => block = "none"

StreamInv == streamResponse => Told(sent) /\ pc # "respond" /\ (pc \in Going => YieldInv)

\* Without streaming there is nothing but whole responses.
SingleInv ==
    ~streamResponse =>
       /\ pc # "stream"
       /\ pending # NoChunk => pending.kind = "single"
       /\ \A k \in DOMAIN sent : sent[k].kind = "single"

LEMMA TellsIsTold ==
    ASSUME NEW chunks, NEW content, NEW deltas, NEW index, NEW lastIndex, NEW lastDelta,
           Tells(chunks, content, deltas, index, lastIndex, lastDelta)
    PROVE  Told(chunks)
  BY DEF Tells, Told

\* The number of the last delta does not matter when there is none.
LEMMA TellsWithoutDeltas ==
    ASSUME NEW chunks, NEW content, NEW index, NEW lastIndex, NEW lastDelta, NEW otherDelta,
           Tells(chunks, content, <<>>, index, lastIndex, lastDelta)
    PROVE  Tells(chunks, content, <<>>, index, lastIndex, otherDelta)
  BY DEF Tells

LEMMA PendingIsChunk ==
    ASSUME NEW kind \in {"delta", "textDone", "toolUse", "end", "single"}, NEW index \in Nat,
           NEW content \in Contents, NEW detail \in Nat,
           pending' = Chunk(kind, index, content, detail), UNCHANGED sent
    PROVE  Yielded' = Append(sent, Chunk(kind, index, content, detail))
  BY ChunksAreChunks DEF Yielded

LEMMA SinglePreserved == TurnTypeInv /\ SingleInv /\ [Next]_vars => SingleInv'
<1> SUFFICES ASSUME TurnTypeInv, SingleInv, [Next]_vars, ~streamResponse' PROVE SingleInv'
  BY DEF SingleInv
<1>1. streamResponse' = streamResponse
  BY DEF Next, vars, fixed, Request, ContentBlockStart, ContentBlockDelta, ToolUseStop, TextStop,
         MessageStop, Responds, RunTools, SendChunk, TurnFails, ForwardError
<1>2. /\ pc # "stream" /\ (pending # NoChunk => pending.kind = "single")
      /\ \A k \in DOMAIN sent : sent[k].kind = "single"
      /\ sent \in Seq(Chunks) /\ pending \in Chunks \union {NoChunk}
  BY <1>1 DEF SingleInv, TurnTypeInv, ContentsInv
<1>3. CASE Request
  BY <1>1, <1>2, <1>3 DEF Request, SingleInv
<1>4. ASSUME NEW names, NEW reason, Responds(names, reason) PROVE SingleInv'
  <2>1. /\ pc' # "stream" /\ UNCHANGED sent
        /\ UNCHANGED pending \/ \E content : pending' = Chunk("single", 0, content, 0)
    BY <1>4 DEF Responds
  <2>2. UNCHANGED pending \/ pending'.kind = "single"
    BY <2>1 DEF Chunk
  <2> QED BY <1>2, <2>1, <2>2 DEF SingleInv
<1>5. CASE RunTools
  BY <1>2, <1>5 DEF RunTools, SingleInv
<1>6. CASE SendChunk
  <2>1. pending \in Chunks /\ sent' = Append(sent, pending) /\ pending.kind = "single"
        /\ pending' = NoChunk /\ pc' # "stream"
    BY <1>2, <1>6 DEF SendChunk
  <2>2. \A k \in DOMAIN Append(sent, pending) : Append(sent, pending)[k].kind = "single"
    BY <1>2, <2>1
  <2> QED BY <2>1, <2>2 DEF SingleInv
<1>7. CASE TurnFails
  BY <1>2, <1>7 DEF TurnFails, SingleInv
<1>8. CASE ForwardError
  BY <1>2, <1>8 DEF ForwardError, SingleInv
<1>9. CASE UNCHANGED vars
  BY <1>2, <1>9 DEF vars, SingleInv
<1>10. ASSUME NEW name \in Names, ContentBlockStart(name) PROVE FALSE
  BY <1>2, <1>10 DEF ContentBlockStart, Reading
<1>11. ASSUME NEW reason \in StopReasons, MessageStop(reason) PROVE FALSE
  BY <1>2, <1>11 DEF MessageStop, Reading
<1>12. CASE ContentBlockDelta \/ ToolUseStop \/ TextStop
  BY <1>2, <1>12 DEF ContentBlockDelta, ToolUseStop, TextStop, Reading
<1> QED BY <1>3, <1>4, <1>5, <1>6, <1>7, <1>8, <1>9, <1>10, <1>11, <1>12 DEF Next

LEMMA BlockDeltaStreams ==
    TurnTypeInv /\ YieldInv /\ ContentBlockDelta => YieldInv'
<1> SUFFICES ASSUME TurnTypeInv, YieldInv, ContentBlockDelta PROVE YieldInv'
  OBVIOUS
<1>1. /\ text \in Seq(1..MaxDeltas) /\ accumulatedTurnContent \in Contents /\ sent \in Seq(Chunks)
      /\ blockIndex \in Nat /\ blockDeltaIndex \in Nat /\ said.deltas \in 0..MaxDeltas
  BY BoundsAssumption DEF TurnTypeInv, TypeOK, ContentsInv
<1>2. /\ pending = NoChunk /\ block = "text" /\ said.deltas < MaxDeltas /\ pc = "stream"
      /\ text' = Append(text, said.deltas + 1)
      /\ pending' = Chunk("delta", blockIndex,
                          Append(accumulatedTurnContent, Block("text", text')), blockDeltaIndex)
      /\ lastBlockDeltaIndex' = blockDeltaIndex /\ blockDeltaIndex' = blockDeltaIndex + 1
      /\ UNCHANGED <<pc, block, blockIndex, lastBlockIndex, accumulatedTurnContent, sent>>
  BY DEF ContentBlockDelta, Reading
<1>3. /\ Yielded = sent /\ blockIndex = Len(accumulatedTurnContent) /\ blockDeltaIndex = Len(text)
      /\ Tells(sent, accumulatedTurnContent, text, Len(accumulatedTurnContent),
               lastBlockIndex, lastBlockDeltaIndex)
  BY <1>2 DEF YieldInv, Yielded
<1> DEFINE d == said.deltas + 1
<1>4. d \in 1..MaxDeltas
  <2>1. \A x \in 0..MaxDeltas : x < MaxDeltas => x + 1 \in 1..MaxDeltas
    BY BoundsAssumption
  <2> QED BY <1>1, <1>2, <2>1
<1> HIDE DEF d
<1>5. /\ text' = Append(text, d)
      /\ pending' = Chunk("delta", blockIndex,
                          Append(accumulatedTurnContent, Block("text", Append(text, d))),
                          blockDeltaIndex)
  BY <1>2 DEF d
<1> DEFINE live == Append(accumulatedTurnContent, Block("text", Append(text, d)))
<1>6. live \in Contents /\ Len(Append(text, d)) = Len(text) + 1
  <2>1. Append(text, d) \in Seq(1..MaxDeltas) /\ Len(Append(text, d)) = Len(text) + 1
    BY <1>1, <1>4
  <2>2. Block("text", Append(text, d)) \in BlockSet
    <3>1. "text" \in Names
      BY DEF Names
    <3> QED BY <2>1, <3>1, BlocksAreBlocks
  <2> QED BY <1>1, <2>1, <2>2 DEF Contents
<1>7. Tells(Append(sent, Chunk("delta", Len(accumulatedTurnContent), live, Len(text))),
            accumulatedTurnContent, Append(text, d), Len(accumulatedTurnContent),
            lastBlockIndex, Len(text))
  BY <1>1, <1>3, <1>4, DeltaTells
<1> HIDE DEF live
<1>8. Yielded' = Append(sent, Chunk("delta", blockIndex, live, blockDeltaIndex))
  <2>1. pending' = Chunk("delta", blockIndex, live, blockDeltaIndex) /\ UNCHANGED sent
    BY <1>2, <1>5 DEF live
  <2> QED BY <1>1, <1>6, <2>1, PendingIsChunk
<1>9. Tells(Yielded', accumulatedTurnContent', text', blockIndex', lastBlockIndex',
            lastBlockDeltaIndex')
  BY <1>2, <1>3, <1>5, <1>7, <1>8
<1>10. Len(text') = blockDeltaIndex'
  BY <1>1, <1>2, <1>3, <1>5, <1>6
<1> QED BY <1>2, <1>3, <1>9, <1>10 DEF YieldInv

LEMMA TextStopStreams == TurnTypeInv /\ YieldInv /\ TextStop => YieldInv'
<1> SUFFICES ASSUME TurnTypeInv, YieldInv, TextStop PROVE YieldInv'
  OBVIOUS
<1>1. /\ text \in Seq(1..MaxDeltas) /\ accumulatedTurnContent \in Contents /\ sent \in Seq(Chunks)
      /\ blockIndex \in Nat /\ lastBlockDeltaIndex \in Nat
  BY BoundsAssumption DEF TurnTypeInv, TypeOK, ContentsInv
<1> DEFINE shown == Append(accumulatedTurnContent, Block("text", text))
<1>2. /\ pending = NoChunk /\ block = "text" /\ pc = "stream"
      /\ accumulatedTurnContent' = shown
      /\ pending' = Chunk("textDone", blockIndex, shown, lastBlockDeltaIndex)
      /\ text' = <<>> /\ block' = "none"
      /\ lastBlockIndex' = blockIndex /\ blockIndex' = blockIndex + 1
      /\ UNCHANGED <<pc, blockDeltaIndex, lastBlockDeltaIndex, sent>>
  BY DEF TextStop, Shows, Reading
<1>3. /\ Yielded = sent /\ blockIndex = Len(accumulatedTurnContent)
      /\ Tells(sent, accumulatedTurnContent, text, Len(accumulatedTurnContent),
               lastBlockIndex, lastBlockDeltaIndex)
  BY <1>2 DEF YieldInv, Yielded
<1>4. Tells(Append(sent, Chunk("textDone", Len(accumulatedTurnContent), shown, lastBlockDeltaIndex)),
            shown, <<>>, Len(accumulatedTurnContent) + 1, Len(accumulatedTurnContent),
            lastBlockDeltaIndex)
  BY <1>1, <1>3, TextDoneTells
<1>5. shown \in Contents /\ Len(shown) = Len(accumulatedTurnContent) + 1
  <2>1. Block("text", text) \in BlockSet
    <3>1. "text" \in Names
      BY DEF Names
    <3> QED BY <1>1, <3>1, BlocksAreBlocks
  <2> QED BY <1>1, <2>1 DEF Contents
<1> HIDE DEF shown
<1>6. Yielded' = Append(sent, Chunk("textDone", blockIndex, shown, lastBlockDeltaIndex))
  BY <1>1, <1>2, <1>5, PendingIsChunk
<1> QED BY <1>2, <1>3, <1>4, <1>5, <1>6 DEF YieldInv

LEMMA ToolUseStopStreams == TurnTypeInv /\ YieldInv /\ ToolUseStop => YieldInv'
<1> SUFFICES ASSUME TurnTypeInv, YieldInv, ToolUseStop PROVE YieldInv'
  OBVIOUS
<1>1. /\ accumulatedTurnContent \in Contents /\ sent \in Seq(Chunks) /\ blockIndex \in Nat
  BY BoundsAssumption DEF TurnTypeInv, TypeOK, ContentsInv
<1>2. /\ pending = NoChunk /\ block \in Tools /\ block # "text" /\ pc = "stream" /\ block' = "none"
      /\ UNCHANGED <<pc, text, blockDeltaIndex, lastBlockDeltaIndex, sent>>
  BY ToolsAssumption DEF ToolUseStop, Reading
<1>3. /\ Yielded = sent /\ blockIndex = Len(accumulatedTurnContent) /\ text = <<>>
      /\ Tells(sent, accumulatedTurnContent, <<>>, Len(accumulatedTurnContent),
               lastBlockIndex, lastBlockDeltaIndex)
  BY <1>2 DEF YieldInv, Yielded
<1>4. CASE block \in ClientTools
  <2> DEFINE shown == Append(accumulatedTurnContent, Block(block, <<>>))
  <2>1. /\ accumulatedTurnContent' = shown
        /\ pending' = Chunk("toolUse", blockIndex, shown, 0)
        /\ lastBlockIndex' = blockIndex /\ blockIndex' = blockIndex + 1
    BY <1>4 DEF ToolUseStop, Shows
  <2>2. Tells(Append(sent, Chunk("toolUse", Len(accumulatedTurnContent), shown, 0)),
              shown, <<>>, Len(accumulatedTurnContent) + 1, Len(accumulatedTurnContent),
              lastBlockDeltaIndex)
    BY <1>1, <1>3, <1>4, ToolUseTells
  <2>3. shown \in Contents /\ Len(shown) = Len(accumulatedTurnContent) + 1
    <3>1. Block(block, <<>>) \in BlockSet
      <4>1. block \in Names /\ <<>> \in Seq(1..MaxDeltas)
        BY <1>2 DEF Names
      <4> QED BY <4>1, BlocksAreBlocks
    <3> QED BY <1>1, <3>1 DEF Contents
  <2> HIDE DEF shown
  <2>4. Yielded' = Append(sent, Chunk("toolUse", blockIndex, shown, 0))
    BY <1>1, <1>2, <2>1, <2>3, PendingIsChunk
  <2> QED BY <1>2, <1>3, <2>1, <2>2, <2>3, <2>4 DEF YieldInv
<1>5. CASE block \notin ClientTools
  <2>1. UNCHANGED <<accumulatedTurnContent, pending, blockIndex, lastBlockIndex>>
    BY <1>5 DEF ToolUseStop
  <2>2. Yielded' = Yielded
    BY <1>2, <2>1 DEF Yielded
  <2> QED BY <1>2, <1>3, <2>1, <2>2 DEF YieldInv
<1> QED BY <1>4, <1>5

LEMMA MessageStopStreams ==
    ASSUME NEW reason \in StopReasons, TurnTypeInv, YieldInv, MessageStop(reason)
    PROVE  YieldInv'
<1>1. /\ accumulatedTurnContent \in Contents /\ sent \in Seq(Chunks) /\ blockIndex \in Nat
      /\ lastBlockIndex \in Nat
  BY BoundsAssumption DEF TurnTypeInv, TypeOK, ContentsInv
<1>2. /\ pending = NoChunk /\ block = "none"
      /\ UNCHANGED <<block, text, blockIndex, lastBlockIndex, blockDeltaIndex,
                     lastBlockDeltaIndex, accumulatedTurnContent, sent>>
      /\ UNCHANGED pending \/ pending' = Chunk("end", lastBlockIndex, accumulatedTurnContent, 0)
  BY DEF MessageStop, Reading, indexes, received
<1>3. /\ Yielded = sent /\ text = <<>>
      /\ Tells(sent, accumulatedTurnContent, <<>>, blockIndex, lastBlockIndex, lastBlockDeltaIndex)
  BY <1>2 DEF YieldInv, Yielded
<1>4. CASE UNCHANGED pending
  <2>1. Yielded' = Yielded
    BY <1>2, <1>4 DEF Yielded
  <2> QED BY <1>2, <1>3, <2>1 DEF YieldInv
<1>5. CASE pending' = Chunk("end", lastBlockIndex, accumulatedTurnContent, 0)
  <2>1. Yielded' = Append(sent, Chunk("end", lastBlockIndex, accumulatedTurnContent, 0))
    BY <1>1, <1>2, <1>5, PendingIsChunk
  <2>2. Tells(Append(sent, Chunk("end", lastBlockIndex, accumulatedTurnContent, 0)),
              accumulatedTurnContent, <<>>, blockIndex, lastBlockIndex, lastBlockDeltaIndex)
    BY <1>1, <1>3, EndTells
  <2> QED BY <1>2, <1>3, <2>1, <2>2 DEF YieldInv
<1> QED BY <1>2, <1>4, <1>5

LEMMA StreamPreserved == TurnTypeInv /\ StreamInv /\ [Next]_vars => StreamInv'
<1> SUFFICES ASSUME TurnTypeInv, StreamInv, [Next]_vars, streamResponse' PROVE StreamInv'
  BY DEF StreamInv
<1>1. streamResponse
  BY DEF Next, vars, fixed, Request, ContentBlockStart, ContentBlockDelta, ToolUseStop, TextStop,
         MessageStop, Responds, RunTools, SendChunk, TurnFails, ForwardError
<1>2. Told(sent) /\ pc # "respond" /\ (pc \in Going => YieldInv)
  BY <1>1 DEF StreamInv
<1>3. ASSUME pc \in Going, YieldInv', UNCHANGED sent, pc' # "respond" PROVE StreamInv'
  <2>1. Told(sent)'
    BY <1>2, <1>3 DEF Told, EndsNameTheLast
  <2> QED BY <1>3, <2>1 DEF StreamInv
<1>4. ASSUME pc' \notin Going, UNCHANGED sent, pc' # "respond" PROVE StreamInv'
  <2>1. Told(sent)'
    BY <1>2, <1>4 DEF Told, EndsNameTheLast
  <2> QED BY <1>4, <2>1 DEF StreamInv
<1>5. CASE Request
  <2>1. /\ pc \in Going /\ pc' = "stream" /\ pc = "request" /\ block' = "none" /\ text' = <<>>
        /\ UNCHANGED <<blockIndex, lastBlockIndex, accumulatedTurnContent, sent, pending>>
    BY <1>1, <1>5 DEF Request, Going
  <2>2. text = <<>> /\ Yielded' = Yielded
    BY <1>2, <2>1 DEF YieldInv, Yielded
  <2>3. Tells(Yielded, accumulatedTurnContent, <<>>, blockIndex, lastBlockIndex,
              lastBlockDeltaIndex')
    BY <1>2, <2>1, <2>2, TellsWithoutDeltas DEF YieldInv
  <2>4. YieldInv'
    BY <1>2, <2>1, <2>2, <2>3 DEF YieldInv
  <2> QED BY <1>3, <2>1, <2>4
<1>6. ASSUME NEW name \in Names, ContentBlockStart(name) PROVE StreamInv'
  <2>1. /\ pc \in Going /\ pc' = "stream" /\ block = "none" /\ block' = name
        /\ blockDeltaIndex' = 0
        /\ UNCHANGED <<text, blockIndex, lastBlockIndex, accumulatedTurnContent, sent, pending>>
    BY <1>6 DEF ContentBlockStart, Reading, Going
  <2>2. text = <<>> /\ Yielded' = Yielded
    BY <1>2, <2>1 DEF YieldInv, Yielded
  <2>3. Tells(Yielded, accumulatedTurnContent, <<>>, blockIndex, lastBlockIndex,
              lastBlockDeltaIndex')
    BY <1>2, <2>1, <2>2, TellsWithoutDeltas DEF YieldInv
  <2>4. Len(text') = blockDeltaIndex' /\ text' = <<>>
    BY <2>1, <2>2
  <2>5. YieldInv'
    BY <1>2, <2>1, <2>2, <2>3, <2>4 DEF YieldInv
  <2> QED BY <1>3, <2>1, <2>5
<1>7. CASE ContentBlockDelta
  <2>1. pc \in Going /\ UNCHANGED <<pc, sent>>
    BY <1>7 DEF ContentBlockDelta, Reading, Going
  <2> QED BY <1>2, <1>3, <1>7, <2>1, BlockDeltaStreams
<1>8. CASE ToolUseStop
  <2>1. pc \in Going /\ UNCHANGED <<pc, sent>>
    BY <1>8 DEF ToolUseStop, Reading, Going
  <2> QED BY <1>2, <1>3, <1>8, <2>1, ToolUseStopStreams
<1>9. CASE TextStop
  <2>1. pc \in Going /\ UNCHANGED <<pc, sent>>
    BY <1>9 DEF TextStop, Reading, Going
  <2> QED BY <1>2, <1>3, <1>9, <2>1, TextStopStreams
<1>10. ASSUME NEW reason \in StopReasons, MessageStop(reason) PROVE StreamInv'
  <2>1. pc \in Going /\ UNCHANGED sent /\ pc' \in {"finish", "tools"}
    BY <1>10 DEF MessageStop, Reading, Going
  <2> QED BY <1>2, <1>3, <1>10, <2>1, MessageStopStreams
<1>11. CASE RunTools
  <2>1. /\ pc = "tools" /\ pc' \in {"request", "error"}
        /\ UNCHANGED <<block, text, blockIndex, lastBlockIndex, blockDeltaIndex,
                       lastBlockDeltaIndex, accumulatedTurnContent, sent, pending>>
    BY <1>11 DEF RunTools, indexes, received
  <2>2. Yielded' = Yielded
    BY <2>1 DEF Yielded
  <2>3. YieldInv'
    BY <1>2, <2>1, <2>2 DEF YieldInv, Going
  <2> QED BY <1>3, <2>1, <2>3 DEF Going
<1>12. CASE SendChunk
  <2>1. /\ pending # NoChunk /\ sent' = Append(sent, pending) /\ pending' = NoChunk
        /\ pc' = IF pc = "finish" THEN "done" ELSE pc
        /\ UNCHANGED <<block, text, blockIndex, lastBlockIndex, blockDeltaIndex,
                       lastBlockDeltaIndex, accumulatedTurnContent>>
    BY <1>12 DEF SendChunk, indexes, received
  <2>2. pc \in {"stream", "finish"}
    BY <2>1 DEF TurnTypeInv, TypeOK
  <2>3. Yielded' = Yielded /\ sent' = Yielded
    BY <2>1 DEF Yielded
  <2>4. YieldInv
    BY <1>2, <2>2 DEF Going
  <2>5. Told(sent')
    BY <2>3, <2>4, TellsIsTold DEF YieldInv
  <2>6. pc' = "stream" => YieldInv'
    BY <2>1, <2>3, <2>4 DEF YieldInv
  <2>7. pc' \in {"stream", "done"}
    BY <2>1, <2>2
  <2> QED BY <2>5, <2>6, <2>7 DEF StreamInv, Going, Told, EndsNameTheLast
<1>13. CASE TurnFails
  BY <1>4, <1>13 DEF TurnFails, Going
<1>14. CASE ForwardError
  BY <1>4, <1>14 DEF ForwardError, Going
<1>15. CASE UNCHANGED vars
  <2>1. UNCHANGED <<pc, block, text, blockIndex, lastBlockIndex, blockDeltaIndex,
                    lastBlockDeltaIndex, accumulatedTurnContent, sent, pending>>
    BY <1>15 DEF vars, indexes, received
  <2>2. CASE pc \in Going
    <3>1. YieldInv /\ Yielded' = Yielded
      BY <1>2, <2>1, <2>2 DEF Yielded
    <3>2. YieldInv'
      BY <2>1, <3>1 DEF YieldInv
    <3> QED BY <1>2, <1>3, <2>1, <2>2, <3>2
  <2>3. CASE pc \notin Going
    BY <1>2, <1>4, <2>1, <2>3
  <2> QED BY <2>2, <2>3
<1>16. ASSUME NEW names, NEW reason, Responds(names, reason) PROVE FALSE
  BY <1>2, <1>16 DEF Responds
<1> QED BY <1>5, <1>6, <1>7, <1>8, <1>9, <1>10, <1>11, <1>12, <1>13, <1>14, <1>15, <1>16 DEF Next

\* The chunks that AppSync took, put together by their indexes, are at every moment
\* the content that came with the last of them, and each end names the last delta
\* or block before it; over all requests of the turn, for any number of requests,
\* blocks and deltas.
THEOREM ChunksCorrect == Spec => []ChunksMakeTheContent
<1> DEFINE Inv == TurnTypeInv /\ ResultsInv /\ StreamInv /\ SingleInv
<1>1. Init => Inv
  <2> SUFFICES ASSUME Init PROVE StreamInv /\ SingleInv
    BY TurnTypesInitially, ResultsInitially
  <2>1. /\ pc \in {"request", "error"} /\ sent = <<>> /\ pending = NoChunk /\ text = <<>>
        /\ block = "none" /\ blockIndex = 0 /\ accumulatedTurnContent = <<>>
    BY DEF Init
  <2>2. DOMAIN <<>> = {} /\ Len(<<>>) = 0
    OBVIOUS
  <2>3. EndsNameTheLast(<<>>)
    BY <2>2 DEF EndsNameTheLast
  <2>4. Shape(<<>>) = <<>>
    <3>1. [k \in DOMAIN <<>> |-> Block(IF <<>>[k].name = "text" THEN "text" ELSE "toolUse",
                                       [d \in DOMAIN <<>>[k].deltas |-> d - 1])] = <<>>
      OBVIOUS
    <3> QED BY <3>1 DEF Shape
  <2>5. Tells(<<>>, <<>>, <<>>, 0, lastBlockIndex, lastBlockDeltaIndex)
    BY <2>2, <2>3, <2>4, AssemblyEmpty DEF Tells, Live
  <2>6. YieldInv
    BY <2>1, <2>2, <2>5 DEF YieldInv, Yielded
  <2>7. Told(sent)
    BY <2>1, <2>5, TellsIsTold
  <2> QED BY <2>1, <2>2, <2>6, <2>7 DEF StreamInv, SingleInv
<1>2. Inv /\ [Next]_vars => Inv'
  BY TurnTypesPreserved, ResultsPreserved, StreamPreserved, SinglePreserved
<1>3. Inv => ChunksMakeTheContent
  <2> SUFFICES ASSUME Inv PROVE ChunksMakeTheContent
    OBVIOUS
  <2>1. CASE streamResponse
    BY <2>1 DEF StreamInv, Told, ChunksMakeTheContent
  <2>2. CASE ~streamResponse
    <3>1. \A k \in DOMAIN sent : sent[k].kind = "single"
      BY <2>2 DEF SingleInv
    <3>2. EndsNameTheLast(sent)
      BY <3>1 DEF EndsNameTheLast
    <3> QED BY <2>2, <3>2 DEF ChunksMakeTheContent
  <2>3. streamResponse \in BOOLEAN
    BY DEF TurnTypeInv, TypeOK
  <2> QED BY <2>1, <2>2, <2>3
<1> QED BY <1>1, <1>2, <1>3, PTL DEF Spec

===============================================================================
