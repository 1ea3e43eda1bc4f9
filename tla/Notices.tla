-------------------------------- MODULE Notices --------------------------------
(***************************************************************************)
(* Notices of the CLI: a manifest fetched from a website and cached, the   *)
(* acknowledgements of the developer and the times of printing, in two     *)
(* configuration files that all processes of the CLI share.                *)
(*                                                                         *)
(* A process keeps what it once read of a file for the rest of its life,   *)
(* and writes a file whole; writing is not atomic, and the process may be  *)
(* killed in between.  In a sandbox the notices after a command and after  *)
(* its deployments overlap in one process.  One project; all notices are   *)
(* in their validity period.  A tick of the clock is both the end of the   *)
(* manifest's time to live and the next day.                               *)
(***************************************************************************)
EXTENDS Naturals

CONSTANTS
    Processes,      \* process ids, used again after an exit
    Slots,          \* bound: activations of a process at once
    Ids,            \* notices that may be published
    Frequency,      \* Frequency[n]: the notice's frequency
    MaxTicks,       \* bound: ticks of the clock
    MaxActivations  \* bound: activations in all

Frequencies == {"command", "deployment", "once", "daily"}
ASSUME FrequencyAssumption == Frequency \in [Ids -> Frequencies]
ASSUME NoticesBoundsAssumption == MaxTicks \in Nat \ {0} /\ MaxActivations \in Nat

\* An activation of acknowledge is told from others by the notice in its event.
ASSUME IdsAssumption == Ids \intersect {"postCommand", "postDeployment", "list", "listAll"} = {}

Activations == Processes \X Slots
ProcessOf(a) == a[1]

\* Contents of the two files; printTimes[n] = 0 stands for no entry.
Metadata == [printTimes : [Ids -> 0..MaxTicks], manifest : SUBSET Ids, refreshedAt : 0..MaxTicks]
DefaultMetadata == [printTimes |-> [n \in Ids |-> 0], manifest |-> {}, refreshedAt |-> 0]
Absent == [state |-> "absent"]
Torn == [state |-> "torn"]
Content(value) == [state |-> "content", value |-> value]

VARIABLES
    clock,          \* Date.now()
    published,      \* the manifest on the website
    disk,           \* the two files
    running,        \* what each process runs
    memory,         \* ZodSchemaTypedConfigurationFile.data of each process, and its
                    \* fetcher's cachedManifest and refreshedAt
    work,           \* the activations
    started,        \* number of activations so far
    asked,          \* ghost: notices the developer asked to acknowledge
    acknowledged,   \* ghost: acknowledgements that were confirmed
    known,          \* ghost: acknowledged when the process started
    reappeared,     \* ghost: notices shown although known, without list --all
    printed,        \* ghost: notices printed ever
    unseen,         \* ghost: notices once left out after a command as acknowledged or
                    \* printed, that were neither asked to be nor printed
    disturbed       \* ghost: acknowledgements overlapped, or a write of them was cut off or
                    \* read half-way

fixed == <<clock, published, started>>
ghosts == <<asked, acknowledged, reappeared, printed, unseen, disturbed>>
noticesVars == <<fixed, disk, running, memory, work, known, ghosts>>

NoWork == [pc |-> "none"]
Idle(a) == work[a] = NoWork
Steps == {"fetch", "network", "caching", "filter", "show", "record", "recording",
          "acknowledge", "ackWrite", "acking"}
Events == {"postCommand", "postDeployment", "list", "listAll"} \union Ids

NoMemory == [ack |-> Absent, meta |-> Absent, manifest |-> {}, refreshedAt |-> 0]

NoticesTypeOK ==
    /\ clock \in 1..MaxTicks
    /\ published \subseteq Ids
    /\ disk.ack \in {Absent, Torn} \union {Content(v) : v \in SUBSET Ids}
    /\ disk.meta \in {Absent, Torn} \/ disk.meta.value \in Metadata
    /\ running \in [Processes -> {"none", "command", "sandbox"}]
    /\ \A p \in Processes :
          /\ memory[p].manifest \subseteq Ids /\ memory[p].refreshedAt \in 0..clock
          /\ running[p] = "none" => memory[p] = NoMemory
    /\ \A a \in Activations : ~Idle(a) =>
          /\ running[ProcessOf(a)] # "none"
          /\ work[a].pc \in Steps /\ work[a].event \in Events /\ work[a].notices \subseteq Ids
    /\ started \in 0..MaxActivations

NoticesInit ==
    /\ clock = 1
    /\ published = Ids
    /\ disk = [ack |-> Absent, meta |-> Absent]
    /\ running = [p \in Processes |-> "none"]
    /\ memory = [p \in Processes |-> NoMemory]
    /\ work = [a \in Activations |-> NoWork]
    /\ started = 0
    /\ asked = {} /\ acknowledged = {} /\ reappeared = {} /\ printed = {} /\ unseen = {}
    /\ known = [p \in Processes |-> {}]
    /\ disturbed = FALSE

-----------------------------------------------------------------------------
(* Processes and the world around them.                                     *)

\* Time passes, and the notices on the website may be others.
Tick ==
    /\ clock < MaxTicks
    /\ clock' = clock + 1
    /\ published' \in SUBSET Ids
    /\ UNCHANGED <<started, disk, running, memory, work, known, ghosts>>

Starts(a, event) ==
    /\ started < MaxActivations
    /\ started' = started + 1
    /\ work' = [work EXCEPT ![a] = [pc |-> "fetch", event |-> event, notices |-> {}, data |-> {}]]
    /\ asked' = asked \union ({event} \intersect Ids)
    /\ UNCHANGED <<clock, published, disk, memory, acknowledged, reappeared, printed, unseen,
                   disturbed>>

\* The notices after any command but those about notices; list; acknowledge.
StartProcess(p, kind, event) ==
    /\ running[p] = "none"
    /\ event = "postDeployment" => kind = "sandbox"
    /\ event \in {"list", "listAll"} \union Ids => kind = "command"
    /\ running' = [running EXCEPT ![p] = kind]
    /\ known' = [known EXCEPT ![p] = acknowledged]
    /\ \E slot \in Slots : Starts(<<p, slot>>, event)

\* In a sandbox: the end of the start handler, and the handlers of deployments,
\* which nobody awaits.
Activate(a, event) ==
    /\ running[ProcessOf(a)] = "sandbox" /\ Idle(a)
    /\ event \in {"postCommand", "postDeployment"}
    /\ Starts(a, event)
    /\ UNCHANGED <<running, known>>

\* An activation goes on, with what its process has in memory by now, ...
Continues(a, activation, contents) ==
    /\ work' = [work EXCEPT ![a] = activation]
    /\ memory' = contents
    /\ UNCHANGED <<running, known>>

Leaves(p, contents) ==
    /\ running' = [running EXCEPT ![p] = "none"]
    /\ memory' = [contents EXCEPT ![p] = NoMemory]
    /\ known' = [known EXCEPT ![p] = {}]

\* ... or ends, and with it the process, unless it is a sandbox.
Ends(a, contents) ==
    IF running[ProcessOf(a)] = "sandbox" THEN Continues(a, NoWork, contents)
    ELSE Leaves(ProcessOf(a), contents) /\ work' = [work EXCEPT ![a] = NoWork]

\* A sandbox is stopped, or a process is killed while it is at work.
Stopped(p) ==
    LET killed == {work[a].pc : a \in {b \in Activations : ProcessOf(b) = p}}
    IN  /\ running[p] # "none"
        /\ Leaves(p, memory)
        /\ work' = [a \in Activations |-> IF ProcessOf(a) = p THEN NoWork ELSE work[a]]
        /\ disturbed' = (disturbed \/ "acking" \in killed)
        /\ UNCHANGED <<fixed, disk, asked, acknowledged, reappeared, printed, unseen>>

-----------------------------------------------------------------------------
(* ZodSchemaTypedConfigurationFile.                                         *)

\* What read() returns: what the process read or wrote before; otherwise the
\* file's content, or the default when there is none or it does not parse.
Read(p, file) ==
    IF memory[p][file] # Absent THEN memory[p][file].value
    ELSE IF disk[file].state = "content" THEN disk[file].value
    ELSE IF file = "ack" THEN {} ELSE DefaultMetadata

HasRead(p, file) == [memory EXCEPT ![p][file] = Content(Read(p, file))]

\* writeFile truncates the file ...
Truncated(file) == disk' = [disk EXCEPT ![file] = Torn]

\* ... and then fills it.  When another write ended in between, the shorter
\* content may be followed by the rest of the longer one.
Written(a, file) ==
    disk' \in {[disk EXCEPT ![file] = c] :
        c \in {Content(work[a].data)} \union (IF disk[file] = Torn THEN {} ELSE {Torn})}

HasWritten(a, file) == [memory EXCEPT ![ProcessOf(a)][file] = Content(work[a].data)]

-----------------------------------------------------------------------------
(* NoticesManifestFetcher.                                                  *)

Fresh(refreshedAt) == refreshedAt # 0 /\ refreshedAt >= clock

\* What follows the fetch: getApplicableNotices, or acknowledge.
Fetched(activation, manifest) ==
    [activation EXCEPT
        !.pc = CASE activation.event \in Ids -> "acknowledge"
                 [] activation.event = "listAll" -> "show"
                 [] OTHER -> "filter",
        !.notices = manifest, !.data = {}]

\* fetchNoticesManifest: from memory, or from the file if that is fresh.
FetchManifest(a) ==
    LET p == ProcessOf(a)
        m == Read(p, "meta")
        loaded == [HasRead(p, "meta") EXCEPT ![p].manifest = m.manifest,
                                             ![p].refreshedAt = m.refreshedAt]
    IN  /\ work[a].pc = "fetch"
        /\ \/ /\ Fresh(memory[p].refreshedAt)
              /\ Continues(a, Fetched(work[a], memory[p].manifest), memory)
           \/ /\ ~Fresh(memory[p].refreshedAt) /\ Fresh(m.refreshedAt)
              /\ Continues(a, Fetched(work[a], m.manifest), loaded)
           \/ /\ ~Fresh(memory[p].refreshedAt) /\ ~Fresh(m.refreshedAt)
              /\ Continues(a, [work[a] EXCEPT !.pc = "network"], loaded)
        /\ UNCHANGED <<fixed, disk, ghosts>>

\* The website does not answer, or not with a valid manifest: a rendering is
\* given up without a word, the command fails.
FetchFails(a) ==
    /\ work[a].pc = "network"
    /\ Ends(a, memory)
    /\ UNCHANGED <<fixed, disk, ghosts>>

\* loadManifestFromWebsiteAndCache: the process has read the file before, so
\* that nothing of other processes comes between the answer and the write.
ManifestFetched(a) ==
    LET p == ProcessOf(a)
        metadata == [Read(p, "meta") EXCEPT !.manifest = published, !.refreshedAt = clock]
    IN  /\ work[a].pc = "network"
        /\ Continues(a, [work[a] EXCEPT !.pc = "caching", !.data = metadata],
                     [HasRead(p, "meta") EXCEPT ![p].manifest = published,
                                                ![p].refreshedAt = clock])
        /\ Truncated("meta")
        /\ UNCHANGED <<fixed, ghosts>>

ManifestCached(a) ==
    /\ work[a].pc = "caching"
    /\ Written(a, "meta")
    /\ Continues(a, Fetched(work[a], memory[ProcessOf(a)].manifest), HasWritten(a, "meta"))
    /\ UNCHANGED <<fixed, ghosts>>

-----------------------------------------------------------------------------
(* NoticesController and NoticesRenderer.                                   *)

Unseen(notices) == {n \in notices : Frequency[n] = "once"} \ (printed \union asked)

FilterAcknowledged(a) ==
    LET p == ProcessOf(a)
        acknowledgements == Read(p, "ack")
    IN  /\ work[a].pc = "filter"
        /\ Continues(a, [work[a] EXCEPT !.pc = "show", !.notices = @ \ acknowledgements],
                     HasRead(p, "ack"))
        /\ unseen' = unseen \union Unseen(work[a].notices \intersect acknowledgements)
        /\ disturbed' = (disturbed \/ (memory[p].ack = Absent /\ disk.ack = Torn))
        /\ UNCHANGED <<fixed, disk, asked, acknowledged, reappeared, printed>>

\* applyFrequency
Included(event, n, printTimes) ==
    CASE event \in {"list", "listAll"} -> TRUE
      [] event = "postDeployment" -> Frequency[n] = "deployment"
      [] event = "postCommand" /\ Frequency[n] = "once" -> printTimes[n] = 0
      [] event = "postCommand" /\ Frequency[n] = "daily" -> printTimes[n] # clock
      [] OTHER -> TRUE

\* applyFrequency and applyPredicates, and then print.  matching: the notices
\* whose predicates hold of this process and its error.
Show(a) ==
    LET p == ProcessOf(a)
        event == work[a].event
        included == {n \in work[a].notices : Included(event, n, Read(p, "meta").printTimes)}
        renders == event \in {"postCommand", "postDeployment"}
    IN  /\ work[a].pc = "show"
        /\ \E matching \in SUBSET included :
              /\ IF renders /\ matching # {}
                 THEN Continues(a, [work[a] EXCEPT !.pc = "record", !.notices = matching],
                                HasRead(p, "meta"))
                 ELSE Ends(a, IF renders THEN HasRead(p, "meta") ELSE memory)
              /\ printed' = printed \union matching
              /\ reappeared' = IF event = "listAll" THEN reappeared
                               ELSE reappeared \union (matching \intersect known[p])
        /\ unseen' = IF event = "postCommand"
                     THEN unseen \union Unseen(work[a].notices \ included) ELSE unseen
        /\ UNCHANGED <<fixed, disk, asked, acknowledged, disturbed>>

\* recordPrintingTimes of the notices given; the process has read the file.
Records(a, notices) ==
    /\ work[a].pc = "record"
    /\ Continues(a,
          [work[a] EXCEPT !.pc = "recording", !.notices = {},
              !.data = [Read(ProcessOf(a), "meta") EXCEPT !.printTimes =
                  [n \in Ids |-> IF n \in notices THEN clock ELSE @[n]]]],
          HasRead(ProcessOf(a), "meta"))
    /\ Truncated("meta")
    /\ UNCHANGED <<fixed, ghosts>>

\* Mutant: every notice of the manifest is recorded, shown or not.
RecordManifest(a) == Records(a, memory[ProcessOf(a)].manifest)

RecordPrintingTimes(a) == Records(a, work[a].notices)

PrintingTimesRecorded(a) ==
    /\ work[a].pc = "recording"
    /\ Written(a, "meta")
    /\ Ends(a, HasWritten(a, "meta"))
    /\ UNCHANGED <<fixed, ghosts>>

Overlaps(a) == \E b \in Activations \ {a} : work[b].pc \in {"ackWrite", "acking"}

\* Mutant: the acknowledgements before are forgotten.
AcknowledgeOnly(a) ==
    /\ work[a].pc = "acknowledge"
    /\ IF work[a].event \in work[a].notices
       THEN Continues(a, [work[a] EXCEPT !.pc = "ackWrite", !.notices = {},
                                         !.data = {work[a].event}], memory)
       ELSE Ends(a, memory)
    /\ disturbed' = (disturbed \/ Overlaps(a))
    /\ UNCHANGED <<fixed, disk, asked, acknowledged, reappeared, printed, unseen>>

\* acknowledge, up to the write.  A notice that is not in the manifest is an error.
Acknowledge(a) ==
    LET p == ProcessOf(a)
    IN  /\ work[a].pc = "acknowledge"
        /\ IF work[a].event \in work[a].notices
           THEN Continues(a, [work[a] EXCEPT !.pc = "ackWrite", !.notices = {},
                                             !.data = Read(p, "ack") \union {work[a].event}],
                          HasRead(p, "ack"))
           ELSE Ends(a, memory)
        /\ disturbed' = (disturbed \/ Overlaps(a))
        /\ UNCHANGED <<fixed, disk, asked, acknowledged, reappeared, printed, unseen>>

AcknowledgementWriteBegins(a) ==
    /\ work[a].pc = "ackWrite"
    /\ Truncated("ack")
    /\ Continues(a, [work[a] EXCEPT !.pc = "acking"], memory)
    /\ UNCHANGED <<fixed, ghosts>>

\* "Notice ... has been acknowledged."
Acknowledged(a) ==
    /\ work[a].pc = "acking"
    /\ Written(a, "ack")
    /\ Ends(a, HasWritten(a, "ack"))
    /\ acknowledged' = acknowledged \union {work[a].event}
    /\ UNCHANGED <<fixed, asked, reappeared, printed, unseen, disturbed>>

NoticesNext ==
    \/ Tick
    \/ \E p \in Processes :
          \/ \E kind \in {"command", "sandbox"}, event \in Events : StartProcess(p, kind, event)
          \/ Stopped(p)
    \/ \E a \in Activations :
          \/ \E event \in Events : Activate(a, event)
          \/ FetchManifest(a) \/ FetchFails(a) \/ ManifestFetched(a) \/ ManifestCached(a)
          \/ FilterAcknowledged(a) \/ Show(a)
          \/ RecordPrintingTimes(a) \/ PrintingTimesRecorded(a)
          \/ Acknowledge(a) \/ AcknowledgementWriteBegins(a) \/ Acknowledged(a)

NoticesSpec == NoticesInit /\ [][NoticesNext]_noticesVars

-----------------------------------------------------------------------------
(* Properties. *)

\* "If you don't want to see a notice anymore, use ... acknowledge"
\* (NoticesPrinter.print): a process that starts after the acknowledgement does
\* not show it, and later acknowledgements leave it in the file, unless
\* acknowledgements of several processes overlapped, or one was cut off or read
\* in the middle of its write.
AcknowledgedStaysAway ==
    ~disturbed =>
        /\ reappeared = {}
        /\ disk.ack # Torn => acknowledged \subseteq
              IF disk.ack = Absent THEN {} ELSE disk.ack.value

\* Whatever overlaps, is killed or gets torn (recordPrintingTimes after print):
\* a notice to be shown once is left out only if the developer has seen it or
\* asked for it to be acknowledged; nothing is recorded that was not printed.
NothingWithheldUnseen ==
    /\ unseen = {}
    /\ disk.meta.state = "content" =>
          \A n \in Ids : disk.meta.value.printTimes[n] # 0 => n \in printed

================================================================================
