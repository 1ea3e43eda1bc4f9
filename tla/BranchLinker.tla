------------------------------ MODULE BranchLinker ------------------------------
(***************************************************************************)
(* The custom resource that links a branch of an Amplify app to the stack  *)
(* of its backend: AmplifyBranchLinkerCustomResourceEventHandler, which    *)
(* gets the branch, sets or unsets its backend.stackArn and puts the whole *)
(* branch back.                                                            *)
(*                                                                         *)
(* External: CloudFormation, which makes one stack of the branch after the *)
(* other, waits for the response to an event, takes a timeout for a        *)
(* failure and may deliver an event twice; the console, where the branch   *)
(* is edited, disconnected and connected again.                            *)
(***************************************************************************)
EXTENDS Integers

CONSTANTS
    MaxStacks,      \* bound: stacks of the branch
    MaxDeliveries,  \* bound: deliveries of events
    MaxEdits        \* bound: edits of the branch in the console

ASSUME LinkerBoundsAssumption == {MaxStacks, MaxDeliveries, MaxEdits} \subseteq Nat

Deliveries == 1..MaxDeliveries
EventTypes == {"Create", "Update", "Delete"}

\* The edit that the settings are of, the stage ("NONE" until it is chosen), and
\* the number of the stack in stackArn, 0 for none.
Branches == [settings : 0..MaxEdits, stage : {"NONE", "PRODUCTION"}, stackArn : 0..MaxStacks]
NewBranch == [settings |-> 0, stage |-> "NONE", stackArn |-> 0]

VARIABLES
    connected,      \* the branch exists
    branch,         \* as the Amplify service has it
    edits,          \* edits of this branch so far
    stack,          \* number of the latest stack
    status,         \* of the stack
    event,          \* what CloudFormation waits for, and its first delivery
    deliveries,     \* deliveries of all events so far
    handlers,       \* the invocation of each delivery
    disturbed,      \* ghost: a handler wrote after CloudFormation had gone on, or the branch
                    \* was disconnected while it had a stack
    raced           \* ghost: an edit came between the two calls of a handler

linkerVars == <<connected, branch, edits, stack, status, event, deliveries, handlers, disturbed,
                raced>>

NoEvent == [type |-> "none", first |-> 0]
Ended == [pc |-> "ended", type |-> "none", stack |-> 0, read |-> NewBranch]
Invocations == [pc : {"ended", "get", "update"}, type : EventTypes \union {"none"},
                stack : 0..MaxStacks, read : Branches]

LinkerTypeOK ==
    /\ connected \in BOOLEAN
    /\ branch \in Branches
    /\ edits \in 0..MaxEdits
    /\ stack \in 0..MaxStacks
    /\ status \in {"none", "creating", "created", "updating", "deleting", "deleteFailed"}
    /\ event \in [type : EventTypes, first : 1..(MaxDeliveries + 1)] \union {NoEvent}
    /\ deliveries \in 0..MaxDeliveries
    /\ handlers \in [Deliveries -> Invocations]
    /\ disturbed \in BOOLEAN
    /\ raced \in BOOLEAN

LinkerInit ==
    /\ connected = TRUE
    /\ branch = NewBranch
    /\ edits = 0
    /\ stack = 0
    /\ status = "none"
    /\ event = NoEvent
    /\ deliveries = 0
    /\ handlers = [d \in Deliveries |-> Ended]
    /\ disturbed = FALSE
    /\ raced = FALSE

-----------------------------------------------------------------------------
(* CloudFormation and the console.                                          *)

\* A deployment of the branch, one that changes the resource, a deletion or the
\* rollback of a creation that failed elsewhere.
Sends(type, during) ==
    /\ event = NoEvent
    /\ event' = [type |-> type, first |-> deliveries + 1]
    /\ status' = during
    /\ UNCHANGED <<connected, branch, edits, deliveries, handlers, disturbed, raced>>

CreateStack ==
    /\ status = "none" /\ stack < MaxStacks
    /\ stack' = stack + 1
    /\ Sends("Create", "creating")

UpdateStack == status = "created" /\ Sends("Update", "updating") /\ UNCHANGED stack

DeleteStack ==
    status \in {"created", "deleteFailed"} /\ Sends("Delete", "deleting") /\ UNCHANGED stack

\* An event is delivered, if need be again.
Deliver ==
    /\ event # NoEvent /\ deliveries < MaxDeliveries
    /\ deliveries' = deliveries + 1
    /\ handlers' = [handlers EXCEPT ![deliveries + 1] =
                       [pc |-> "get", type |-> event.type, stack |-> stack, read |-> NewBranch]]
    /\ UNCHANGED <<connected, branch, edits, stack, status, event, disturbed, raced>>

\* The event is over.  A linker that could not be created is not deleted either.
GoesOn(success) ==
    /\ event' = NoEvent
    /\ status' = CASE event.type = "Create" /\ ~success -> "none"
                   [] event.type = "Delete" /\ success -> "none"
                   [] event.type = "Delete" /\ ~success -> "deleteFailed"
                   [] OTHER -> "created"

LeavesLink == event.type = "Create" /\ branch.stackArn = stack

\* No response: the Lambda timed out, or its response was lost.
EventTimesOut ==
    /\ event # NoEvent
    /\ GoesOn(FALSE)
    /\ disturbed' = (disturbed \/ LeavesLink)
    /\ UNCHANGED <<connected, branch, edits, stack, deliveries, handlers, raced>>

Edit(stage) ==
    /\ connected /\ edits < MaxEdits
    /\ edits' = edits + 1
    /\ branch' = [branch EXCEPT !.settings = edits + 1, !.stage = stage]
    /\ branch.stage # "NONE" => stage # "NONE"
    /\ raced' = (raced \/ \E d \in Deliveries : handlers[d].pc = "update")
    /\ UNCHANGED <<connected, stack, status, event, deliveries, handlers, disturbed>>

Disconnect ==
    /\ connected
    /\ connected' = FALSE
    /\ disturbed' = (disturbed \/ status # "none")
    /\ UNCHANGED <<branch, edits, stack, status, event, deliveries, handlers, raced>>

\* Another branch of the same name; who still writes what it read of the old one
\* has raced.
Connect ==
    /\ ~connected
    /\ connected' = TRUE
    /\ branch' = NewBranch
    /\ edits' = 0
    /\ raced' = (raced \/ \E d \in Deliveries : handlers[d].pc = "update")
    /\ UNCHANGED <<stack, status, event, deliveries, handlers, disturbed>>

-----------------------------------------------------------------------------
(* AmplifyBranchLinkerCustomResourceEventHandler                            *)

Late(d) == event = NoEvent \/ d < event.first

\* The response counts when CloudFormation still waits for it.
Responds(d, success) ==
    /\ handlers' = [handlers EXCEPT ![d] = Ended]
    /\ IF Late(d) THEN UNCHANGED <<status, event>> ELSE GoesOn(success)

\* handleCustomResourceEvent catches NotFoundException for Delete only.
NotFound(d) ==
    /\ ~connected
    /\ handlers[d].pc # "ended"
    /\ Responds(d, handlers[d].type = "Delete")
    /\ UNCHANGED <<connected, branch, edits, stack, deliveries, disturbed, raced>>

\* Any other error of the service, before anything is written.
Fails(d) ==
    /\ handlers[d].pc # "ended"
    /\ Responds(d, FALSE)
    /\ disturbed' = (disturbed \/ (~Late(d) /\ LeavesLink))
    /\ UNCHANGED <<connected, branch, edits, stack, deliveries, raced>>

GetBranch(d) ==
    /\ handlers[d].pc = "get" /\ connected
    /\ handlers' = [handlers EXCEPT ![d].pc = "update", ![d].read = branch]
    /\ UNCHANGED <<connected, branch, edits, stack, status, event, deliveries, disturbed, raced>>

\* Mutant: whatever the event, the link is set.
StackArnAlways(invocation) == invocation.stack

\* Set by Create and Update, unset by Delete, whosever it is.
StackArn(invocation) == IF invocation.type = "Delete" THEN 0 ELSE invocation.stack

\* Mutant: the input has the link only, and the rest gets its default.
UpdatedBackendOnly(invocation) == [NewBranch EXCEPT !.stackArn = StackArn(invocation)]

\* Mutant: a Delete takes the whole of `backend` from the branch.
UpdatedNoBackend(invocation) ==
    IF invocation.type # "Delete" THEN [invocation.read EXCEPT !.stackArn = invocation.stack]
    ELSE [settings |-> invocation.read.settings, stage |-> invocation.read.stage]

\* updateBranchCommandInput: what was read, but a stage 'NONE' is not sent.
Updated(invocation) ==
    [invocation.read EXCEPT
        !.stackArn = StackArn(invocation),
        !.stage = IF @ = "NONE" THEN branch.stage ELSE @]

\* UpdateBranchCommand; the response may get lost.
UpdateBranch(d) ==
    /\ handlers[d].pc = "update" /\ connected
    /\ branch' = Updated(handlers[d])
    /\ \/ Responds(d, TRUE)
       \/ handlers' = [handlers EXCEPT ![d] = Ended] /\ UNCHANGED <<status, event>>
    /\ disturbed' = (disturbed \/ Late(d))
    /\ UNCHANGED <<connected, edits, stack, deliveries, raced>>

LinkerNext ==
    \/ CreateStack \/ UpdateStack \/ DeleteStack \/ Deliver \/ EventTimesOut
    \/ \E stage \in {"NONE", "PRODUCTION"} : Edit(stage)
    \/ Disconnect \/ Connect
    \/ \E d \in Deliveries : NotFound(d) \/ Fails(d) \/ GetBranch(d) \/ UpdateBranch(d)

LinkerSpec == LinkerInit /\ [][LinkerNext]_linkerVars

-----------------------------------------------------------------------------
(* Properties. *)

AtRest == event = NoEvent /\ \A d \in Deliveries : handlers[d].pc = "ended"

\* "links and un-links branch deployments" (AmplifyBranchLinkerConstruct): when
\* all is at rest the branch names its stack, and no stack when it has none,
\* over stacks made and deleted one after the other, events delivered twice,
\* errors and lost responses; unless a handler wrote after CloudFormation had
\* gone on (the handler does not look whose link it unsets), or a creation was
\* given up after its handler had written, or the branch was disconnected.
LinkFollowsStack ==
    connected /\ AtRest /\ ~disturbed =>
        /\ status = "created" => branch.stackArn = stack
        /\ status = "none" => branch.stackArn = 0

\* "Populate update command input with existing values, so we don't lose them"
\* (updateOrUnsetStackReference): no edit of the branch gets lost, unless it was
\* made between the two calls of a handler.
EditsSurvive == connected /\ ~raced => branch.settings = edits

=================================================================================
