----------------------------- MODULE MCConversation -----------------------------
(***************************************************************************)
(* The two models of the conversation runtime, for TLC: the history that a *)
(* turn starts from, over many turns, and one turn.  They share no state:  *)
(* in a behaviour only one of them moves.                                  *)
(***************************************************************************)
EXTENDS ConversationHistory, ConversationTurn

\* No message can be written any more; the turn has failed before it began.
HistoryIdle ==
    /\ conversation = [i \in MessageIds |->
           [id |-> i, role |-> "user", associatedUserMessageId |-> 0,
            content |-> <<MessageBlock("text", i, 0)>>]]
    /\ visible = MessageIds
    /\ invocation = [i \in MessageIds |-> "failed"]
    /\ asked = [current |-> 0, messages |-> <<>>]
    /\ orderly = FALSE

TurnIdle ==
    /\ pc = "failed" /\ streamResponse = FALSE /\ appSyncFails = TRUE
    /\ block = "none" /\ said = [deltas |-> MaxDeltas, blocks |-> MaxBlocks]
    /\ text = <<>>
    /\ blockIndex = 0 /\ lastBlockIndex = 0
    /\ blockDeltaIndex = 0 /\ lastBlockDeltaIndex = 0
    /\ stopReason = NoReason /\ clientToolsRequested = FALSE
    /\ accumulatedTurnContent = <<>> /\ accumulatedAssistantMessage = <<>>
    /\ messages = <<>> /\ requests = 0
    /\ pending = NoChunk /\ sent = <<>> /\ reported = FALSE

ConversationInit ==
    \/ HistoryInit /\ TurnIdle
    \/ HistoryIdle /\ Init

ConversationNext ==
    \/ HistoryNext /\ UNCHANGED vars
    \/ Next /\ UNCHANGED historyVars

\* The fairness of a turn, FairSpec; nothing makes the user write.
ConversationSpec ==
    /\ ConversationInit
    /\ [][ConversationNext]_<<historyVars, vars>>
    /\ WF_vars(Next /\ UNCHANGED historyVars)

\* The variables of both have their types: ids follow the order of writing, and
\* a chunk is only being sent while the turn can still fail.
ConversationTypeOK == HistoryTypeOK /\ TypeOK
=================================================================================
