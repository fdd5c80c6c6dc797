--------------------------- MODULE FirmwareSession ---------------------------
(***************************************************************************)
(* One firmware update session of the core (internal/core/firmware.go,     *)
(* transfer_task.go, firmware_session.go, broadcaster.go): the handle that *)
(* PreflightFirmware creates, the calls that move it on, the goroutine     *)
(* that transfers the image, the event broadcaster and its subscribers.    *)
(*                                                                         *)
(* A process is one goroutine running one call.  A confirmer whose call    *)
(* succeeds becomes the transfer goroutine (`go runTransferTask` is the    *)
(* last thing ConfirmFirmware does).  Whatever runs under handle.mu or     *)
(* under the broadcaster's mutex without leaving it is one step; what the  *)
(* code does after an unlock is another.  So publishing an event is a step *)
(* that stamps it (handle.mu) and a step that delivers it (b.mu), and      *)
(* other goroutines run in between.                                        *)
(***************************************************************************)
EXTENDS Naturals, Sequences, FiniteSets

CONSTANTS
    Starters,       \* calls of StartFirmware
    Confirmers,     \* calls of ConfirmFirmware
    Cancellers,     \* calls of CancelFirmware
    Subscribers,    \* calls of SubscribeEvents
    Images,         \* what the image file may hold
    ChunksTotal,    \* chunks the image is cut into
    EnterCommands,  \* commands that enter the bootloader: 1 (JP108, U2) or 3
    Capacity        \* buffer of a subscriber's channel: 128 in the code

Callers == Starters \cup Confirmers \cup Cancellers

ASSUME CallersAssumption ==
    /\ Starters \cap Confirmers = {}
    /\ Starters \cap Cancellers = {}
    /\ Confirmers \cap Cancellers = {}

ASSUME TransferAssumption ==
    /\ ChunksTotal \in Nat \ {0}
    /\ EnterCommands \in Nat \ {0}

\* Room for the terminal event and for one event of each call that may still
\* be publishing when it is sent.
ASSUME CapacityAssumption ==
    /\ IsFiniteSet(Starters \cup Cancellers)
    /\ Capacity \in Nat
    /\ Capacity > Cardinality(Starters \cup Cancellers)

VARIABLES
    state,              \* handle.state, "none" before PreflightFirmware
    sequence,           \* handle.sequence
    cancelRequested,    \* handle.cancelRequested
    report,             \* handle.report
    mock,               \* config.MockMode
    onDisk,             \* what the image file holds now
    planned,            \* the content whose hash the plan records
    pc,                 \* where each goroutine is
    pending,            \* the event each goroutine is publishing
    task,               \* the locals of each transfer goroutine
    answer,             \* the report each CancelFirmware returned
    subscribed,         \* broadcaster.subs
    channel,            \* the buffered channel of each subscriber
    heard,              \* subscribers that received the terminal event
    device,             \* the device, as far as the commands sent to it go
    askedAt,            \* history: chunks sent when cancelRequested was set
    owed,               \* history: who was subscribed when the end was sent
    raced               \* history: who lost an event while its buffer had room

handleVars == <<state, cancelRequested, report>>
fileVars == <<onDisk, planned>>
eventVars == <<sequence, subscribed, channel, heard, owed, raced>>
vars == <<handleVars, fileVars, eventVars, mock, pc, pending, task, answer,
          device, askedAt>>

-----------------------------------------------------------------------------
Terminal == {"Completed", "Cancelled", "Failed"}
States == {"none", "Preflight", "AwaitingConfirmation", "Running"} \cup Terminal
Outcomes == {"Completed", "CompletedUnverified", "Cancelled", "Failed"}

\* The stage of an event; a terminal event is named by the outcome it reports.
Stages == {"awaiting_confirmation", "cancel_requested", "bootloader", "transfer",
           "commit", "exit", "verify", "cancel_recovery"} \cup Outcomes

NoReport == [status |-> "none", sent |-> 0]
Reports == [status : Outcomes, sent : Nat]

NoEvent == [stage |-> "none", seq |-> 0, full |-> {}]
Event == [stage : Stages, seq : Nat]
Pending == {NoEvent} \cup [stage : Stages, seq : Nat, full : SUBSET Subscribers]

Task == [entered : Nat, sent : Nat, image : SUBSET Images,
         verdict : Reports \cup {NoReport}]

Device == [present : BOOLEAN, mode : {"app", "entering", "boot"}, fed : SUBSET Images,
           chunks : Nat, image : {"old", "partial", "new"}]

Working == {"read", "open", "enter", "check", "send", "commit", "failed", "exit",
            "cancel_exit", "verify", "mock_check", "mock_verify", "finalize"}
PCs == {"idle", "refused", "returned", "decide", "poll", "gave_up", "ended"} \cup Working

NotAsked == ChunksTotal + 1

TypeOK ==
    /\ state \in States
    /\ sequence \in Nat
    /\ cancelRequested \in BOOLEAN
    /\ report \in Reports \cup {NoReport}
    /\ mock \in BOOLEAN
    /\ onDisk \in Images
    /\ planned \in Images
    /\ pc \in [Callers -> PCs]
    /\ pending \in [Callers -> Pending]
    /\ task \in [Confirmers -> Task]
    /\ answer \in [Cancellers -> Reports \cup {NoReport}]
    /\ subscribed \subseteq Subscribers
    /\ channel \in [Subscribers -> Seq(Event)]
    /\ heard \subseteq Subscribers
    /\ device \in Device
    /\ askedAt \in Nat
    /\ owed \subseteq Subscribers
    /\ raced \subseteq Subscribers

Init ==
    /\ state = "none"
    /\ sequence = 0
    /\ cancelRequested = FALSE
    /\ report = NoReport
    /\ mock \in BOOLEAN
    /\ onDisk \in Images
    /\ planned = onDisk
    /\ pc = [p \in Callers |-> "idle"]
    /\ pending = [p \in Callers |-> NoEvent]
    /\ task = [t \in Confirmers |->
                 [entered |-> 0, sent |-> 0, image |-> {}, verdict |-> NoReport]]
    /\ answer = [c \in Cancellers |-> NoReport]
    /\ subscribed = {}
    /\ channel = [s \in Subscribers |-> <<>>]
    /\ heard = {}
    /\ device = [present |-> TRUE, mode |-> "app", fed |-> {}, chunks |-> 0, image |-> "old"]
    /\ askedAt = NotAsked
    /\ owed = {}
    /\ raced = {}

-----------------------------------------------------------------------------
(* The event broadcaster.                                                  *)

\* p is at line l and not in the middle of eventsPublish.
At(p, l) == pc[p] = l /\ pending[p] = NoEvent
Goto(p, l) == pc' = [pc EXCEPT ![p] = l]

\* p calls eventsPublish: Stamp, Deliver and Evict do the rest.
Publish(p, stage) ==
    pending' = [pending EXCEPT ![p] = [stage |-> stage, seq |-> 0, full |-> {}]]

\* Nobody is between a full buffer and its eviction: b.mu is free.
BroadcasterFree == \A q \in Callers : pending[q].full = {}

NextNumber == sequence + 1

Stamp(p) ==
    /\ pending[p] # NoEvent
    /\ pending[p].seq = 0
    /\ sequence' = NextNumber
    /\ pending' = [pending EXCEPT ![p].seq = NextNumber]
    /\ UNCHANGED <<handleVars, fileVars, subscribed, channel, heard, owed, raced, mock, pc,
                   task, answer, device, askedAt>>

\* publish: the event goes into every buffer with room; a publisher that finds
\* full ones goes on holding the mutex.
Deliver(p) ==
    LET event == [stage |-> pending[p].stage, seq |-> pending[p].seq]
        full  == {s \in subscribed : Len(channel[s]) = Capacity}
    IN  /\ pending[p].seq > 0
        /\ BroadcasterFree
        /\ channel' = [s \in Subscribers |->
                         IF s \in subscribed \ full THEN Append(channel[s], event)
                                                    ELSE channel[s]]
        /\ pending' = [pending EXCEPT ![p] = IF full = {} THEN NoEvent
                                                          ELSE [@ EXCEPT !.full = full]]
        /\ owed' = IF event.stage \in Outcomes THEN subscribed ELSE owed
        /\ UNCHANGED <<handleVars, fileVars, sequence, subscribed, heard, raced, mock, pc,
                       task, answer, device, askedAt>>

\* A full buffer loses its oldest event to the new one.  The subscriber may have
\* received in between: the publisher evicts all the same.
EvictedMutant(queue) == IF queue = <<>> THEN queue ELSE SubSeq(queue, 1, Len(queue) - 1)
Evicted(queue) == IF queue = <<>> THEN queue ELSE Tail(queue)

Evict(p) ==
    LET event == [stage |-> pending[p].stage, seq |-> pending[p].seq]
    IN  /\ pending[p].full # {}
        /\ channel' = [s \in Subscribers |->
                         IF s \in pending[p].full THEN Append(Evicted(channel[s]), event)
                                                  ELSE channel[s]]
        /\ pending' = [pending EXCEPT ![p] = NoEvent]
        /\ raced' = raced \cup {s \in pending[p].full : Len(channel[s]) < Capacity}
        /\ UNCHANGED <<handleVars, fileVars, sequence, subscribed, heard, owed, mock, pc,
                       task, answer, device, askedAt>>

SubscribeEvents(s) ==
    /\ state # "none"
    /\ BroadcasterFree
    /\ s \notin subscribed
    /\ subscribed' = subscribed \cup {s}
    /\ UNCHANGED <<handleVars, fileVars, sequence, channel, heard, owed, raced, mock, pc,
                   pending, task, answer, device, askedAt>>

\* cmdListenFirmwareEvents, which is called again until the terminal event.
Receive(s) ==
    /\ s \in subscribed \ heard
    /\ channel[s] # <<>>
    /\ channel' = [channel EXCEPT ![s] = Tail(@)]
    /\ heard' = IF Head(channel[s]).stage \in Outcomes THEN heard \cup {s} ELSE heard
    /\ UNCHANGED <<handleVars, fileVars, sequence, subscribed, owed, raced, mock, pc,
                   pending, task, answer, device, askedAt>>

-----------------------------------------------------------------------------
(* The calls.                                                              *)

\* The session id is returned after the "preflight" event was published, so
\* nobody can be subscribed to it: only its number is used up.
PreflightFirmware ==
    /\ state = "none"
    /\ state' = "Preflight"
    /\ planned' = onDisk
    /\ sequence' = NextNumber
    /\ UNCHANGED <<cancelRequested, report, onDisk, subscribed, channel, heard, owed, raced,
                   mock, pc, pending, task, answer, device, askedAt>>

StartFirmware(p) ==
    /\ state # "none"
    /\ At(p, "idle")
    /\ \/ /\ state = "Preflight"
          /\ state' = "AwaitingConfirmation"
          /\ Publish(p, "awaiting_confirmation")
          /\ Goto(p, "returned")
       \/ /\ state # "Preflight"
          /\ Goto(p, "refused")
          /\ UNCHANGED <<state, pending>>
    /\ UNCHANGED <<cancelRequested, report, fileVars, eventVars, mock, task, answer,
                   device, askedAt>>

Confirmable == state = "AwaitingConfirmation"

ConfirmFirmware(t) ==
    /\ state # "none"
    /\ At(t, "idle")
    /\ \E acknowledgedRisk \in BOOLEAN :
         \/ /\ acknowledgedRisk /\ Confirmable
            /\ state' = "Running"
            /\ cancelRequested' = FALSE
            /\ Goto(t, "read")
         \/ /\ ~acknowledgedRisk \/ ~Confirmable
            /\ Goto(t, "refused")
            /\ UNCHANGED <<state, cancelRequested>>
    /\ UNCHANGED <<report, fileVars, eventVars, mock, pending, task, answer, device,
                   askedAt>>

\* CancelFirmware up to its first unlock.
CancelFirmware(c) ==
    /\ state # "none"
    /\ At(c, "idle")
    /\ \/ /\ state \in Terminal /\ report # NoReport
          /\ answer' = [answer EXCEPT ![c] = report]
          /\ Goto(c, "returned")
          /\ UNCHANGED pending
       \/ /\ state \notin Terminal \/ report = NoReport
          /\ Publish(c, "cancel_requested")
          /\ Goto(c, "decide")
          /\ UNCHANGED answer
    /\ UNCHANGED <<handleVars, fileVars, eventVars, mock, task, device, askedAt>>

\* Its second critical section: whatever happened since the first.
BeforeTransferMutant == state \notin Terminal
BeforeTransfer == state \in {"Preflight", "AwaitingConfirmation"}

CancelDecide(c) ==
    /\ At(c, "decide")
    /\ \/ /\ BeforeTransfer
          /\ state' = "Cancelled"
          /\ report' = [status |-> "Cancelled", sent |-> 0]
          /\ answer' = [answer EXCEPT ![c] = report']
          /\ Publish(c, "Cancelled")
          /\ Goto(c, "returned")
          /\ UNCHANGED <<cancelRequested, askedAt>>
       \/ /\ ~BeforeTransfer
          /\ cancelRequested' = TRUE
          /\ askedAt' = IF askedAt = NotAsked THEN device.chunks ELSE askedAt
          /\ Goto(c, "poll")
          /\ UNCHANGED <<state, report, answer, pending>>
    /\ UNCHANGED <<fileVars, eventVars, mock, task, device>>

ReportReadyMutant == report.status \in {"Cancelled", "Completed"}
ReportReady == report # NoReport

PollReport(c) ==
    /\ At(c, "poll")
    /\ ReportReady
    /\ answer' = [answer EXCEPT ![c] = report]
    /\ Goto(c, "returned")
    /\ UNCHANGED <<handleVars, fileVars, eventVars, mock, pending, task, device, askedAt>>

\* ctx.Done: the caller's context ends first.
GiveUp(c) ==
    /\ At(c, "poll")
    /\ Goto(c, "gave_up")
    /\ UNCHANGED <<handleVars, fileVars, eventVars, mock, pending, task, answer, device,
                   askedAt>>

-----------------------------------------------------------------------------
(* The device.                                                             *)

\* A command: accepted, with its effect; or it fails, and a device that is
\* still there may have obeyed it all the same (the answer was lost).
Accepted(effect) == device.present /\ device' = effect
Errored(effect) == \/ device' = device
                   \/ device.present /\ device' = effect

Entering(n) == [device EXCEPT !.mode = IF n = EnterCommands THEN "boot" ELSE "entering"]
Fed(bytes) == [device EXCEPT !.chunks = @ + 1, !.image = "partial", !.fed = @ \cup bytes]
Committed == [device EXCEPT !.image = "new"]
Exited == [device EXCEPT !.mode = "app"]

Unplug ==
    /\ device.present
    /\ device' = [device EXCEPT !.present = FALSE]
    /\ UNCHANGED <<handleVars, fileVars, eventVars, mock, pc, pending, task, answer, askedAt>>

\* The file is a path from preflight to transfer: it may change under it.
Overwrite ==
    /\ \E i \in Images \ {onDisk} : onDisk' = i
    /\ UNCHANGED <<handleVars, planned, eventVars, mock, pc, pending, task, answer,
                   device, askedAt>>

-----------------------------------------------------------------------------
(* The transfer goroutine: runTransferTask.                                *)

taskFrame == <<handleVars, fileVars, eventVars, mock, answer, askedAt>>

\* What remains to be done is finalizeX(status): see Finalize.
End(t, status) ==
    /\ task' = [task EXCEPT ![t].verdict = [status |-> status, sent |-> task[t].sent]]
    /\ Goto(t, "finalize")
    /\ UNCHANGED pending

\* On to the next line, publishing an event on the way.
Proceed(t, l, stage) == Goto(t, l) /\ Publish(t, stage)

ImageUnchangedMutant == TRUE
ImageUnchanged == onDisk = planned

ReadImage(t) ==
    /\ At(t, "read")
    /\ \/ /\ ImageUnchanged
          /\ task' = [task EXCEPT ![t].image = {onDisk}]
          /\ Goto(t, IF mock THEN "mock_check" ELSE "open")
          /\ UNCHANGED pending
       \/ End(t, "Failed")      \* unreadable, or not the content preflight hashed
    /\ UNCHANGED <<taskFrame, device>>

OpenSession(t) ==
    /\ At(t, "open")
    /\ \/ /\ device.present
          /\ Proceed(t, "enter", "bootloader")
          /\ UNCHANGED task
       \/ End(t, "Failed")
    /\ UNCHANGED <<taskFrame, device>>

\* One of the commands of EnterBootloader.  A failure is reported as it is:
\* commands already accepted are not undone.
EnterBootloader(t) ==
    LET n == task[t].entered + 1
    IN  /\ At(t, "enter")
        /\ \/ /\ Accepted(Entering(n))
              /\ task' = [task EXCEPT ![t].entered = n]
              /\ Goto(t, IF n = EnterCommands THEN "check" ELSE "enter")
              /\ UNCHANGED pending
           \/ /\ Errored(Entering(n))
              /\ End(t, "Failed")
        /\ UNCHANGED taskFrame

cancelRequestedNowMutant == FALSE
cancelRequestedNow == cancelRequested

AllSent(t) == task[t].sent = ChunksTotal

\* The head of the chunk loop.  Past the last chunk nobody looks any more.
CheckCancel(t) ==
    /\ At(t, "check")
    /\ \/ /\ AllSent(t)
          /\ Proceed(t, "commit", "commit")
       \/ /\ ~AllSent(t) /\ cancelRequestedNow
          /\ Proceed(t, "cancel_exit", "cancel_recovery")
       \/ /\ ~AllSent(t) /\ ~cancelRequestedNow
          /\ Goto(t, "send")
          /\ UNCHANGED pending
    /\ UNCHANGED <<taskFrame, task, device>>

SendFirmwareChunk(t) ==
    /\ At(t, "send")
    /\ \/ /\ Accepted(Fed(task[t].image))
          /\ task' = [task EXCEPT ![t].sent = @ + 1]
          /\ Proceed(t, "check", "transfer")
       \/ /\ Errored(Fed(task[t].image))
          /\ Goto(t, "failed")
          /\ UNCHANGED <<pending, task>>
    /\ UNCHANGED taskFrame

FirmwareCommit(t) ==
    /\ At(t, "commit")
    /\ \/ /\ Accepted(Committed)
          /\ Proceed(t, "exit", "exit")
       \/ /\ Errored(Committed)
          /\ Goto(t, "failed")
          /\ UNCHANGED pending
    /\ UNCHANGED <<taskFrame, task>>

\* A chunk or the commit failed.  A device that is gone is only reported...
ReportDisconnect(t) ==
    /\ At(t, "failed")
    /\ ~device.present
    /\ End(t, "Failed")
    /\ UNCHANGED <<taskFrame, device>>

\* ... from one that is still there the bootloader is left, if it lets us.
RecoverExit(t) ==
    /\ At(t, "failed")
    /\ device.present
    /\ Accepted(Exited) \/ Errored(Exited)
    /\ End(t, "Failed")
    /\ UNCHANGED taskFrame

ExitBootloader(t) ==
    /\ At(t, "exit")
    /\ \/ /\ Accepted(Exited)
          /\ Proceed(t, "verify", "verify")
          /\ UNCHANGED task
       \/ /\ Errored(Exited)
          /\ End(t, "Failed")
    /\ UNCHANGED taskFrame

CancelRunningTransferMutant(t) ==
    /\ At(t, "cancel_exit")
    /\ End(t, "Cancelled")
    /\ UNCHANGED <<taskFrame, device>>

CancelRunningTransfer(t) ==
    /\ At(t, "cancel_exit")
    /\ \/ /\ Accepted(Exited)
          /\ End(t, "Cancelled")
       \/ /\ Errored(Exited)
          /\ End(t, "Failed")
    /\ UNCHANGED taskFrame

VerifyPostFlash(t) ==
    /\ At(t, "verify")
    /\ \/ /\ device.present
          /\ End(t, "Completed")
       \/ End(t, "CompletedUnverified")
    /\ UNCHANGED <<taskFrame, device>>

\* runMockTransferTask: the same loop without a device.
MockChunk(t) ==
    /\ At(t, "mock_check")
    /\ \/ /\ AllSent(t)
          /\ Proceed(t, "mock_verify", "verify")
          /\ UNCHANGED task
       \/ /\ ~AllSent(t) /\ cancelRequestedNow
          /\ End(t, "Cancelled")
       \/ /\ ~AllSent(t) /\ ~cancelRequestedNow
          /\ task' = [task EXCEPT ![t].sent = @ + 1]
          /\ Proceed(t, "mock_check", "transfer")
    /\ UNCHANGED <<taskFrame, device>>

MockVerify(t) ==
    /\ At(t, "mock_verify")
    /\ End(t, "Completed")
    /\ UNCHANGED <<taskFrame, device>>

\* A call into the transport panics; the deferred recover reports a failure.
PanicMutant(t) ==
    /\ At(t, "send")
    /\ Goto(t, "ended")
    /\ UNCHANGED <<taskFrame, task, pending, device>>

Panic(t) ==
    /\ pc[t] \in {"open", "enter", "send", "commit", "failed", "exit", "cancel_exit", "verify"}
    /\ pending[t] = NoEvent
    /\ End(t, "Failed")
    /\ UNCHANGED <<taskFrame, device>>

\* finalizeCompleted, ...Unverified, finalizeFailure and finalizeCancelled.
StateOfMutant(status) == status
StateOf(status) == IF status = "CompletedUnverified" THEN "Completed" ELSE status

Finalize(t) ==
    /\ At(t, "finalize")
    /\ state' = StateOf(task[t].verdict.status)
    /\ report' = task[t].verdict
    /\ Proceed(t, "ended", task[t].verdict.status)
    /\ UNCHANGED <<cancelRequested, fileVars, eventVars, mock, task, answer, device, askedAt>>

-----------------------------------------------------------------------------
Broadcast(p) == Stamp(p) \/ Deliver(p) \/ Evict(p)

Transfer(t) ==
    \/ ReadImage(t) \/ OpenSession(t) \/ EnterBootloader(t) \/ CheckCancel(t)
    \/ SendFirmwareChunk(t) \/ FirmwareCommit(t) \/ ReportDisconnect(t) \/ RecoverExit(t)
    \/ ExitBootloader(t) \/ CancelRunningTransfer(t) \/ VerifyPostFlash(t)
    \/ MockChunk(t) \/ MockVerify(t) \/ Panic(t) \/ Finalize(t)

Next ==
    \/ PreflightFirmware
    \/ \E p \in Starters : StartFirmware(p)
    \/ \E t \in Confirmers : ConfirmFirmware(t) \/ Transfer(t)
    \/ \E c \in Cancellers : CancelFirmware(c) \/ CancelDecide(c) \/ PollReport(c) \/ GiveUp(c)
    \/ \E p \in Callers : Broadcast(p)
    \/ \E s \in Subscribers : SubscribeEvents(s) \/ Receive(s)
    \/ Unplug
    \/ Overwrite

\* Goroutines run and every device command times out; nobody has to make a call.
Fairness ==
    /\ \A p \in Callers : WF_vars(Broadcast(p))
    /\ \A t \in Confirmers : WF_vars(Transfer(t))
    /\ \A c \in Cancellers : WF_vars(CancelDecide(c)) /\ WF_vars(PollReport(c))
    /\ \A s \in Subscribers : WF_vars(Receive(s))

Spec == Init /\ [][Next]_vars /\ Fairness

-----------------------------------------------------------------------------
(* Safety.                                                                 *)

\* The confirmers that have become transfers, and those still at work.
Launched == {t \in Confirmers : pc[t] \notin {"idle", "refused"}}
Transferring == {t \in Confirmers : pc[t] \in Working}

\* The state and the report change together although a session ends in six
\* places: whoever reads a terminal state finds the report that goes with it,
\* which CancelFirmware relies on when it skips the wait (firmware.go:271-276).
ReportMatchesState ==
    IF state \in Terminal THEN report # NoReport /\ state = StateOf(report.status)
                          ELSE report = NoReport

\* However many calls of ConfirmFirmware race, one transfer writes the device:
\* the state check and the move to Running share a critical section.
OneTransfer ==
    /\ \A t, u \in Launched : t = u
    /\ state = "Running" <=> Transferring # {}

\* A report of success is about a device that received every chunk of the image
\* the plan was made for, the commit, and the command to leave the bootloader.
CompletedMeansFlashed ==
    (~mock /\ state = "Completed") =>
        /\ report.sent = ChunksTotal
        /\ device.chunks = ChunksTotal
        /\ device.fed = {planned}
        /\ device.image = "new"
        /\ device.mode = "app"

\* "Cancelled" is never reported of a device left in its bootloader or with a
\* committed image, wherever in the transfer the request arrives.
CancelledMeansOut ==
    state = "Cancelled" => device.mode = "app" /\ device.image # "new"

\* What the report says of the device is so, wherever a failure, an unplugging or
\* a cancellation caught the transfer (transfer_task.go:58-310).
ReportIsTrue == CompletedMeansFlashed /\ CancelledMeansOut

\* Nothing is written to the device but the content preflight hashed, although
\* only a path travels from one to the other (transfer_task.go:40-56).
OnlyPlannedBytes == device.fed \subseteq {planned}

\* Once CancelFirmware has made its request the transfer sends at most the chunk
\* it had already decided on, and commits only what was past its last check.
CancelStopsTransfer ==
    askedAt # NotAsked =>
        /\ device.chunks <= askedAt + 1
        /\ device.image = "new" => askedAt + 1 >= ChunksTotal

\* The slow subscriber loses old progress, never the end: the terminal event
\* stays in its buffer until it is received, although calls of CancelFirmware
\* and StartFirmware may still publish behind it and evict.  The one exception is
\* a publisher that evicts from a buffer the subscriber emptied meanwhile.
TerminalKept ==
    \A s \in owed \ (heard \cup raced) :
        \/ \E i \in DOMAIN channel[s] : channel[s][i].stage \in Outcomes
        \/ \E p \in Callers : s \in pending[p].full /\ pending[p].stage \in Outcomes

\* Events of the transfer itself are queued in the order they were numbered,
\* whatever other callers publish in between.
TransferStages == Stages \ {"awaiting_confirmation", "cancel_requested"}

TransferEventsInOrder ==
    \A s \in Subscribers : \A i, j \in DOMAIN channel[s] :
        /\ i < j
        /\ channel[s][i].stage \in TransferStages
        /\ channel[s][j].stage \in TransferStages
        => channel[s][i].seq < channel[s][j].seq

\* A subscriber slower than the transfer is told how it ended, after what came
\* before the end (broadcaster.go:28-50).
SubscriberIsTold == TerminalKept /\ TransferEventsInOrder

\* The first report is the last: no second end overwrites it, whether two
\* cancellations race or a cancellation races the end of the transfer.
ReportIsFinal == [][report # NoReport => UNCHANGED <<state, report>>]_vars

-----------------------------------------------------------------------------
(* Liveness.                                                               *)

\* A confirmed transfer always ends in a report, whatever the device does and
\* even if the transfer panics (transfer_task.go:13-21).
TransferEnds == state = "Running" ~> report # NoReport

-----------------------------------------------------------------------------
(* FirmwareSession implements FirmwareUpdate.                              *)

phaseBar ==
    CASE state \in {"none", "Preflight"}    -> "planned"
      [] state = "AwaitingConfirmation"     -> "awaiting"
      [] state = "Running"                  -> "running"
      [] state \in Terminal                 -> "done"

callBar == [c \in Cancellers |->
    CASE pc[c] = "idle"               -> "none"
      [] pc[c] \in {"decide", "poll"} -> "waiting"
      [] pc[c] = "gave_up"            -> "left"
      [] OTHER                        -> answer[c].status]

Update == INSTANCE FirmwareUpdate
            WITH phase <- phaseBar, outcome <- report.status, call <- callBar

\* The session keeps the promise of FirmwareUpdate, fairness included: every
\* caller of CancelFirmware is told the one outcome or leaves by itself.
ImplementsUpdate == Update!Spec
=============================================================================
