------------------------ MODULE FirmwareSessionProofs ------------------------
(***************************************************************************)
(* What holds of a firmware session for any number of calls, chunks,       *)
(* subscribers and images.                                                 *)
(***************************************************************************)
EXTENDS FirmwareSession, TLAPS, FiniteSetTheorems, SequenceTheorems

-----------------------------------------------------------------------------
(* What the helpers of the specification return.                           *)

LEMMA GotoType ==
    ASSUME TypeOK, NEW p \in Callers, NEW l \in PCs, Goto(p, l)
    PROVE  pc' \in [Callers -> PCs]
BY DEF TypeOK, Goto

LEMMA PublishType ==
    ASSUME TypeOK, NEW p \in Callers, NEW stage \in Stages, Publish(p, stage)
    PROVE  pending' \in [Callers -> Pending]
BY DEF TypeOK, Publish, Pending

LEMMA EndType ==
    ASSUME TypeOK, NEW t \in Confirmers, NEW status \in Outcomes, End(t, status)
    PROVE  /\ task' \in [Confirmers -> Task]
           /\ pc' \in [Callers -> PCs]
           /\ pending' = pending
<1>1. task' \in [Confirmers -> Task]
    BY DEF TypeOK, End, Task, Reports
<1>2. t \in Callers /\ "finalize" \in PCs
    BY DEF Callers, PCs, Working
<1> QED
    BY <1>1, <1>2, GotoType DEF End

\* Whatever a command does, the device stays a device.
LEMMA FedType ==
    ASSUME device \in Device, NEW bytes \in SUBSET Images
    PROVE  Fed(bytes) \in Device
<1> DEFINE counted == [device EXCEPT !.chunks = @ + 1]
           started == [counted EXCEPT !.image = "partial"]
<1>1. counted \in Device
    BY DEF Device
<1>2. started \in Device
  <2> HIDE DEF counted
  <2> QED BY <1>1 DEF Device
<1>3. [started EXCEPT !.fed = @ \cup bytes] \in Device
  <2> HIDE DEF started
  <2> QED BY <1>2 DEF Device
<1> QED
    BY <1>3 DEF Fed

LEMMA CommandTypes ==
    ASSUME device \in Device
    PROVE  /\ Committed \in Device
           /\ Exited \in Device
           /\ \A n : Entering(n) \in Device
BY DEF Committed, Exited, Entering, Device

LEMMA CommandKeepsType ==
    ASSUME device \in Device, NEW effect \in Device, Accepted(effect) \/ Errored(effect)
    PROVE  device' \in Device
BY DEF Accepted, Errored

-----------------------------------------------------------------------------
(* Types.                                                                  *)

\* Type correctness needs one thing of the control: who is about to finalize
\* knows with which report.
VerdictReady == \A t \in Confirmers : pc[t] = "finalize" => task[t].verdict \in Reports

SameVerdicts == \A t \in Confirmers : task'[t].verdict = task[t].verdict

LEMMA CountedType ==
    ASSUME TypeOK, NEW t \in Confirmers, NEW n \in Nat,
           \/ task' = [task EXCEPT ![t].sent = n]
           \/ task' = [task EXCEPT ![t].entered = n]
    PROVE  task' \in [Confirmers -> Task] /\ SameVerdicts
<1>1. task[t] \in Task
    BY DEF TypeOK
<1>2. /\ [task[t] EXCEPT !.sent = n] \in Task
      /\ [task[t] EXCEPT !.entered = n] \in Task
      /\ [task[t] EXCEPT !.sent = n].verdict = task[t].verdict
      /\ [task[t] EXCEPT !.entered = n].verdict = task[t].verdict
    BY <1>1 DEF Task
<1> QED
    BY <1>2 DEF TypeOK, SameVerdicts

Locals ==
    /\ VerdictReady'
    /\ task' \in [Confirmers -> Task]
    /\ pc' \in [Callers -> PCs]
    /\ pending' \in [Callers -> Pending]
    /\ device' \in Device

LEMMA ProceedType ==
    ASSUME TypeOK, NEW t \in Confirmers, NEW l \in PCs, NEW stage \in Stages,
           Proceed(t, l, stage)
    PROVE  /\ pc' \in [Callers -> PCs]
           /\ pending' \in [Callers -> Pending]
BY GotoType, PublishType DEF Proceed, Callers

LEMMA TransferLocals ==
    ASSUME TypeOK, VerdictReady, NEW t \in Confirmers, Transfer(t)
    PROVE  Locals
<1>0. /\ t \in Callers
      /\ task \in [Confirmers -> Task]
      /\ task[t].image \in SUBSET Images
      /\ pc \in [Callers -> PCs]
      /\ pending \in [Callers -> Pending]
      /\ device \in Device
      /\ onDisk \in Images
    BY DEF Callers, TypeOK, Task
<1>a. /\ {"open", "enter", "check", "send", "commit", "failed", "exit", "cancel_exit",
           "verify", "mock_check", "mock_verify", "ended"} \subseteq PCs \ {"finalize"}
      /\ {"bootloader", "commit", "cancel_recovery", "transfer", "exit", "verify"}
           \cup Outcomes \subseteq Stages
      /\ {"Failed", "Completed", "CompletedUnverified", "Cancelled"} \subseteq Outcomes
    BY DEF PCs, Working, Stages, Outcomes
<1>b. ASSUME \E status \in Outcomes : End(t, status), device' \in Device
      PROVE  Locals
  <2>1. PICK status \in Outcomes : End(t, status)
    BY <1>b
  <2>2. [status |-> status, sent |-> task[t].sent] \in Reports
    BY <1>0 DEF Reports, Task
  <2>3. VerdictReady'
    BY <1>0, <2>1, <2>2 DEF VerdictReady, End, Goto, Task, Callers
  <2> QED
    BY <1>0, <1>b, <2>1, <2>3, EndType DEF Locals
<1>c. ASSUME NEW l \in PCs \ {"finalize"}, NEW stage \in Stages, Proceed(t, l, stage),
             task' \in [Confirmers -> Task], SameVerdicts, device' \in Device
      PROVE  Locals
  <2>1. VerdictReady'
    BY <1>0, <1>c DEF VerdictReady, SameVerdicts, Proceed, Goto, Callers
  <2> QED
    BY <1>c, <2>1, ProceedType DEF Locals
<1>d. ASSUME NEW l \in PCs \ {"finalize"}, Goto(t, l), pending' = pending,
             task' \in [Confirmers -> Task], SameVerdicts, device' \in Device
      PROVE  Locals
  <2>1. VerdictReady'
    BY <1>0, <1>d DEF VerdictReady, SameVerdicts, Goto, Callers
  <2> QED
    BY <1>0, <1>d, <2>1, GotoType DEF Locals
<1>e. UNCHANGED task => SameVerdicts
    BY DEF SameVerdicts
<1>1. CASE ReadImage(t)
  <2>1. CASE End(t, "Failed")
    BY <1>0, <1>a, <1>b, <1>1, <2>1 DEF ReadImage
  <2>2. CASE ~End(t, "Failed")
    <3>1. task' \in [Confirmers -> Task] /\ SameVerdicts
      BY <1>0, <1>1, <2>2 DEF ReadImage, Task, SameVerdicts
    <3> QED
      BY <1>0, <1>a, <1>d, <1>1, <2>2, <3>1 DEF ReadImage
  <2> QED
    BY <2>1, <2>2
<1>2. CASE OpenSession(t)
  <2>1. CASE End(t, "Failed")
    BY <1>0, <1>a, <1>b, <1>2, <2>1 DEF OpenSession
  <2> QED
    BY <1>0, <1>a, <1>c, <1>e, <1>2, <2>1 DEF OpenSession
<1>3. CASE EnterBootloader(t)
  <2> DEFINE n == task[t].entered + 1
  <2>1. device' \in Device
    BY <1>0, <1>3, CommandTypes, CommandKeepsType DEF EnterBootloader
  <2>2. CASE End(t, "Failed")
    BY <1>a, <1>b, <2>1, <2>2
  <2>3. CASE ~End(t, "Failed")
    <3>1. n \in Nat
      BY <1>0 DEF Task
    <3>2. task' = [task EXCEPT ![t].entered = n]
      BY <1>3, <2>3 DEF EnterBootloader
    <3>3. task' \in [Confirmers -> Task] /\ SameVerdicts
      BY <3>1, <3>2, CountedType
    <3> QED
      BY <1>a, <1>d, <1>3, <2>1, <2>3, <3>3 DEF EnterBootloader
  <2> QED
    BY <2>2, <2>3
<1>4. CASE CheckCancel(t)
    BY <1>0, <1>a, <1>c, <1>d, <1>e, <1>4 DEF CheckCancel
<1>5. CASE SendFirmwareChunk(t)
  <2>1. device' \in Device
    BY <1>0, <1>5, FedType, CommandKeepsType DEF SendFirmwareChunk
  <2>2. task' \in [Confirmers -> Task] /\ SameVerdicts
    <3>1. task[t].sent + 1 \in Nat
      BY <1>0 DEF Task
    <3>2. task' = [task EXCEPT ![t].sent = task[t].sent + 1] \/ UNCHANGED task
      BY <1>5 DEF SendFirmwareChunk
    <3> QED
      BY <1>0, <1>e, <3>1, <3>2, CountedType
  <2> QED
    BY <1>a, <1>c, <1>d, <1>5, <2>1, <2>2 DEF SendFirmwareChunk
<1>6. CASE FirmwareCommit(t)
  <2>1. device' \in Device
    BY <1>0, <1>6, CommandTypes, CommandKeepsType DEF FirmwareCommit
  <2> QED
    BY <1>0, <1>a, <1>c, <1>d, <1>e, <1>6, <2>1 DEF FirmwareCommit
<1>7. CASE ReportDisconnect(t) \/ VerifyPostFlash(t) \/ MockVerify(t) \/ Panic(t)
    BY <1>0, <1>a, <1>b, <1>7 DEF ReportDisconnect, VerifyPostFlash, MockVerify, Panic
<1>8. CASE RecoverExit(t) \/ CancelRunningTransfer(t)
  <2>1. device' \in Device
    BY <1>0, <1>8, CommandTypes, CommandKeepsType DEF RecoverExit, CancelRunningTransfer
  <2> QED
    BY <1>a, <1>b, <1>8, <2>1 DEF RecoverExit, CancelRunningTransfer
<1>9. CASE ExitBootloader(t)
  <2>1. device' \in Device
    BY <1>0, <1>9, CommandTypes, CommandKeepsType DEF ExitBootloader
  <2> QED
    BY <1>0, <1>a, <1>b, <1>c, <1>e, <1>9, <2>1 DEF ExitBootloader
<1>10. CASE MockChunk(t)
  <2>1. \/ task' \in [Confirmers -> Task] /\ SameVerdicts
        \/ End(t, "Cancelled")
    <3>1. task[t].sent + 1 \in Nat
      BY <1>0 DEF Task
    <3>2. \/ task' = [task EXCEPT ![t].sent = task[t].sent + 1] \/ UNCHANGED task
          \/ End(t, "Cancelled")
      BY <1>10 DEF MockChunk
    <3> QED
      BY <1>0, <1>e, <3>1, <3>2, CountedType
  <2> QED
    BY <1>0, <1>a, <1>b, <1>c, <1>10, <2>1 DEF MockChunk
<1>11. CASE Finalize(t)
  <2>1. task[t].verdict.status \in Stages
    BY <1>a, <1>11 DEF Finalize, VerdictReady, Reports, At
  <2> QED
    BY <1>0, <1>a, <1>c, <1>e, <1>11, <2>1 DEF Finalize
<1> QED
    BY <1>1, <1>2, <1>3, <1>4, <1>5, <1>6, <1>7, <1>8, <1>9, <1>10, <1>11 DEF Transfer

LEMMA TransferKeepsTypes ==
    ASSUME TypeOK, VerdictReady, NEW t \in Confirmers, Transfer(t)
    PROVE  TypeOK' /\ VerdictReady'
<1>1. Locals
    BY TransferLocals
<1>2. CASE Finalize(t)
  <2>1. task[t].verdict \in Reports
    BY <1>2 DEF Finalize, VerdictReady, At
  <2>2. StateOf(task[t].verdict.status) \in States
    BY <2>1 DEF Reports, Outcomes, StateOf, States, Terminal
  <2> QED
    BY <1>1, <1>2, <2>1, <2>2 DEF Finalize, TypeOK, Locals, fileVars, eventVars
<1>3. CASE UNCHANGED taskFrame
    BY <1>1, <1>3 DEF taskFrame, handleVars, fileVars, eventVars, TypeOK, Locals
<1> QED
    BY <1>2, <1>3 DEF Transfer, ReadImage, OpenSession, EnterBootloader, CheckCancel,
        SendFirmwareChunk, FirmwareCommit, ReportDisconnect, RecoverExit, ExitBootloader,
        CancelRunningTransfer, VerifyPostFlash, MockChunk, MockVerify, Panic

LEMMA BroadcastKeepsTypes ==
    ASSUME TypeOK, NEW p \in Callers, Broadcast(p)
    PROVE  TypeOK'
<1> DEFINE event == [stage |-> pending[p].stage, seq |-> pending[p].seq]
<1>1. pending[p] \in Pending
    BY DEF TypeOK
<1>2. pending[p] # NoEvent => event \in Event
    BY <1>1 DEF Pending, Event
<1>3. CASE Stamp(p)
  <2>1. [pending[p] EXCEPT !.seq = NextNumber] \in Pending
    <3>1. pending[p] \in [stage : Stages, seq : Nat, full : SUBSET Subscribers]
      BY <1>1, <1>3 DEF Stamp, Pending
    <3>2. NextNumber \in Nat
      BY DEF NextNumber, TypeOK
    <3> QED
      BY <3>1, <3>2 DEF Pending
  <2> QED
    BY <1>3, <2>1 DEF Stamp, TypeOK, NextNumber, handleVars, fileVars
<1>4. CASE Deliver(p)
  <2>1. pending[p] # NoEvent
    BY <1>4 DEF Deliver, NoEvent
  <2>2. channel' \in [Subscribers -> Seq(Event)]
    BY <1>2, <1>4, <2>1 DEF Deliver, TypeOK
  <2>3. [pending[p] EXCEPT !.full = {s \in subscribed : Len(channel[s]) = Capacity}] \in Pending
    BY <1>1, <2>1 DEF Pending, TypeOK
  <2>4. pending' \in [Callers -> Pending]
    BY <1>4, <2>3 DEF Deliver, TypeOK, Pending
  <2> QED
    BY <1>4, <2>2, <2>4 DEF Deliver, TypeOK, handleVars, fileVars
<1>5. CASE Evict(p)
  <2>1. pending[p] # NoEvent
    BY <1>5 DEF Evict, NoEvent
  <2>2. \A s \in Subscribers : Evicted(channel[s]) \in Seq(Event)
    BY DEF TypeOK, Evicted
  <2>3. channel' \in [Subscribers -> Seq(Event)]
    BY <1>2, <1>5, <2>1, <2>2 DEF Evict, TypeOK
  <2> QED
    BY <1>1, <1>5, <2>1, <2>3 DEF Evict, TypeOK, Pending, handleVars, fileVars
<1> QED
    BY <1>3, <1>4, <1>5 DEF Broadcast

LEMMA CallsKeepTypes ==
    ASSUME TypeOK,
           \/ PreflightFirmware
           \/ \E p \in Starters : StartFirmware(p)
           \/ \E t \in Confirmers : ConfirmFirmware(t)
           \/ \E c \in Cancellers :
                CancelFirmware(c) \/ CancelDecide(c) \/ PollReport(c) \/ GiveUp(c)
    PROVE  TypeOK'
<1>0. /\ {"returned", "refused", "read", "decide", "poll", "gave_up"} \subseteq PCs
      /\ {"awaiting_confirmation", "cancel_requested", "Cancelled"} \subseteq Stages
      /\ Starters \subseteq Callers /\ Confirmers \subseteq Callers /\ Cancellers \subseteq Callers
      /\ {"Preflight", "AwaitingConfirmation", "Running", "Cancelled"} \subseteq States
      /\ [status |-> "Cancelled", sent |-> 0] \in Reports
    BY DEF PCs, Working, Stages, Outcomes, Callers, States, Terminal, Reports
<1>1. CASE PreflightFirmware
    BY <1>0, <1>1 DEF PreflightFirmware, NextNumber, TypeOK
<1>2. ASSUME NEW p \in Starters, StartFirmware(p)
      PROVE  TypeOK'
    BY <1>0, <1>2, GotoType, PublishType DEF StartFirmware, fileVars, eventVars, TypeOK
<1>3. ASSUME NEW t \in Confirmers, ConfirmFirmware(t)
      PROVE  TypeOK'
    BY <1>0, <1>3, GotoType DEF ConfirmFirmware, fileVars, eventVars, TypeOK
<1>4. ASSUME NEW c \in Cancellers,
             CancelFirmware(c) \/ CancelDecide(c) \/ PollReport(c) \/ GiveUp(c)
      PROVE  TypeOK'
  <2>1. CASE CancelFirmware(c)
      BY <1>0, <2>1, GotoType, PublishType
         DEF CancelFirmware, fileVars, eventVars, handleVars, TypeOK
  <2>2. CASE CancelDecide(c)
    <3>1. device.chunks \in Nat
      BY DEF TypeOK, Device
    <3>2. CASE BeforeTransfer
      BY <1>0, <2>2, <3>2, GotoType, PublishType DEF CancelDecide, fileVars, eventVars, TypeOK
    <3>3. CASE ~BeforeTransfer
      BY <1>0, <2>2, <3>1, <3>3, GotoType DEF CancelDecide, fileVars, eventVars, TypeOK
    <3> QED
      BY <3>2, <3>3
  <2>3. CASE PollReport(c) \/ GiveUp(c)
      BY <1>0, <2>3, GotoType
         DEF PollReport, GiveUp, fileVars, eventVars, handleVars, TypeOK
  <2> QED
      BY <1>4, <2>1, <2>2, <2>3
<1> QED
    BY <1>1, <1>2, <1>3, <1>4

LEMMA RestKeepsTypes ==
    ASSUME TypeOK,
           \/ \E s \in Subscribers : SubscribeEvents(s) \/ Receive(s)
           \/ Unplug
           \/ Overwrite
    PROVE  TypeOK'
<1>1. ASSUME NEW s \in Subscribers, SubscribeEvents(s)
      PROVE  TypeOK'
    BY <1>1 DEF SubscribeEvents, TypeOK, handleVars, fileVars
<1>2. ASSUME NEW s \in Subscribers, Receive(s)
      PROVE  TypeOK'
    BY <1>2 DEF Receive, TypeOK, handleVars, fileVars
<1>3. CASE Unplug
    BY <1>3 DEF Unplug, TypeOK, Device, handleVars, fileVars, eventVars
<1>4. CASE Overwrite
    BY <1>4 DEF Overwrite, TypeOK, handleVars, eventVars
<1> QED
    BY <1>1, <1>2, <1>3, <1>4

LEMMA VerdictReadyStep ==
    ASSUME TypeOK, VerdictReady, [Next]_vars, \A t \in Confirmers : ~Transfer(t)
    PROVE  VerdictReady'
<1> USE CallersAssumption DEF VerdictReady, Callers, TypeOK
<1>1. ASSUME NEW p \in Callers, Broadcast(p)
      PROVE  VerdictReady'
    BY <1>1 DEF Broadcast, Stamp, Deliver, Evict
<1>2. CASE \/ PreflightFirmware
           \/ \E p \in Starters : StartFirmware(p)
           \/ \E t \in Confirmers : ConfirmFirmware(t)
    BY <1>2 DEF PreflightFirmware, StartFirmware, ConfirmFirmware, Goto
<1>3. CASE \E c \in Cancellers :
             CancelFirmware(c) \/ CancelDecide(c) \/ PollReport(c) \/ GiveUp(c)
    BY <1>3 DEF CancelFirmware, CancelDecide, PollReport, GiveUp, Goto
<1>4. CASE \/ \E s \in Subscribers : SubscribeEvents(s) \/ Receive(s)
           \/ Unplug
           \/ Overwrite
           \/ UNCHANGED vars
    BY <1>4 DEF SubscribeEvents, Receive, Unplug, Overwrite, vars
<1> QED
    BY <1>1, <1>2, <1>3, <1>4 DEF Next

\* The type invariant holds of every session, whatever the number of calls.
THEOREM TypeCorrect == Spec => [](TypeOK /\ VerdictReady)
<1>1. Init => TypeOK /\ VerdictReady
  <2> SUFFICES ASSUME Init
               PROVE  TypeOK /\ VerdictReady
    OBVIOUS
  <2>1. pc \in [Callers -> PCs] /\ pending \in [Callers -> Pending] /\ VerdictReady
    BY DEF Init, PCs, Pending, VerdictReady, Callers
  <2>2. task \in [Confirmers -> Task]
    BY DEF Init, Task
  <2>3. device \in Device /\ askedAt \in Nat
    BY TransferAssumption DEF Init, Device, NotAsked
  <2>4. channel \in [Subscribers -> Seq(Event)]
    BY DEF Init
  <2> QED
    BY <2>1, <2>2, <2>3, <2>4 DEF Init, TypeOK, States
<1>2. TypeOK /\ VerdictReady /\ [Next]_vars => (TypeOK /\ VerdictReady)'
  <2> SUFFICES ASSUME TypeOK, VerdictReady, [Next]_vars
               PROVE  TypeOK' /\ VerdictReady'
    OBVIOUS
  <2>1. CASE \E t \in Confirmers : Transfer(t)
    BY <2>1, TransferKeepsTypes
  <2>2. CASE \A t \in Confirmers : ~Transfer(t)
    <3>1. TypeOK'
      <4>1. CASE UNCHANGED vars
        BY <4>1 DEF vars, handleVars, fileVars, eventVars, TypeOK
      <4> QED
        BY <2>2, <4>1, BroadcastKeepsTypes, CallsKeepTypes, RestKeepsTypes DEF Next
    <3> QED
      BY <2>2, <3>1, VerdictReadyStep
  <2> QED
    BY <2>1, <2>2
<1> QED
    BY <1>1, <1>2, PTL DEF Spec

-----------------------------------------------------------------------------
(* One transfer, one report.                                               *)

\* Before the session is Running nobody transfers; when it is, exactly one
\* confirmer does; and the report is there exactly when the session is over.
ControlInv ==
    /\ ReportMatchesState
    /\ OneTransfer
    /\ state \in {"none", "Preflight", "AwaitingConfirmation"} => Launched = {}

LEMMA ControlOfTransfer ==
    ASSUME TypeOK, VerdictReady, ControlInv, NEW t \in Confirmers, Transfer(t)
    PROVE  /\ ControlInv'
           /\ report = NoReport
           /\ state = "Running"
<1>0. pc[t] \in Working /\ t \in Callers
    BY DEF Transfer, ReadImage, OpenSession, EnterBootloader, CheckCancel,
        SendFirmwareChunk, FirmwareCommit, ReportDisconnect, RecoverExit, ExitBootloader,
        CancelRunningTransfer, VerifyPostFlash, MockChunk, MockVerify, Panic, Finalize,
        At, Working, Callers
<1>1. t \in Transferring /\ t \in Launched
    BY <1>0 DEF Transferring, Launched, Working
<1>2. state = "Running" /\ report = NoReport
    BY <1>1 DEF ControlInv, OneTransfer, ReportMatchesState, Terminal
<1>3. \A u \in Launched : u = t
    BY <1>1 DEF ControlInv, OneTransfer
<1>4. ASSUME NEW l \in Working, Goto(t, l), UNCHANGED handleVars
      PROVE  ControlInv'
  <2>1. Launched' = Launched
    BY <1>0, <1>4 DEF Goto, Launched, Working, TypeOK
  <2>2. t \in Transferring'
    BY <1>0, <1>4 DEF Goto, Transferring, TypeOK
  <2> QED
    BY <1>2, <1>4, <2>1, <2>2
       DEF ControlInv, OneTransfer, ReportMatchesState, handleVars, StateOf
<1>5. CASE Finalize(t)
  <2>1. task[t].verdict \in Reports
    BY <1>5 DEF Finalize, VerdictReady, At
  <2>2. /\ report' # NoReport
        /\ state' \in Terminal
        /\ state' = StateOf(report'.status)
    BY <1>5, <2>1 DEF Finalize, Reports, NoReport, Outcomes, StateOf, Terminal
  <2>3. Launched' = Launched /\ Transferring' = {}
    BY <1>0, <1>3, <1>5 DEF Finalize, Proceed, Goto, Launched, Transferring, Working, TypeOK
  <2> QED
    BY <1>2, <2>2, <2>3 DEF ControlInv, OneTransfer, ReportMatchesState, Terminal, StateOf
<1>6. ASSUME ~Finalize(t)
      PROVE  UNCHANGED handleVars /\ \E l \in Working : Goto(t, l)
    BY <1>6 DEF Transfer, ReadImage, OpenSession, EnterBootloader, CheckCancel,
        SendFirmwareChunk, FirmwareCommit, ReportDisconnect, RecoverExit, ExitBootloader,
        CancelRunningTransfer, VerifyPostFlash, MockChunk, MockVerify, Panic,
        End, Proceed, taskFrame, Working
<1> QED
    BY <1>2, <1>4, <1>5, <1>6

LEMMA ControlOfCalls ==
    ASSUME TypeOK, ControlInv, [Next]_vars, \A t \in Confirmers : ~Transfer(t)
    PROVE  /\ ControlInv'
           /\ report # NoReport => UNCHANGED <<state, report>>
<1> DEFINE Claim == /\ ControlInv'
                    /\ report # NoReport => UNCHANGED <<state, report>>
<1>0. ASSUME UNCHANGED handleVars, \A t \in Confirmers : pc'[t] = pc[t]
      PROVE  Claim
  <2>1. Launched' = Launched /\ Transferring' = Transferring
    BY <1>0 DEF Launched, Transferring
  <2> QED
    BY <1>0, <2>1 DEF ControlInv, OneTransfer, ReportMatchesState, handleVars, StateOf
<1>1. CASE PreflightFirmware
  <2>1. Launched' = {} /\ Transferring' = {}
    BY <1>1 DEF PreflightFirmware, ControlInv, Launched, Transferring, Working
  <2> QED
    BY <1>1, <2>1 DEF PreflightFirmware, ControlInv, OneTransfer, ReportMatchesState, Terminal
<1>2. ASSUME NEW p \in Starters, StartFirmware(p)
      PROVE  Claim
  <2>1. \A t \in Confirmers : pc'[t] = pc[t]
    BY <1>2, CallersAssumption DEF StartFirmware, Goto, TypeOK, Callers
  <2>2. Launched' = Launched /\ Transferring' = Transferring
    BY <2>1 DEF Launched, Transferring
  <2> QED
    BY <1>2, <2>2 DEF StartFirmware, ControlInv, OneTransfer, ReportMatchesState, Terminal, StateOf
<1>3. ASSUME NEW t \in Confirmers, ConfirmFirmware(t)
      PROVE  Claim
  <2>1. CASE UNCHANGED state
    <3>1. pc' = [pc EXCEPT ![t] = "refused"] /\ UNCHANGED handleVars
      BY <1>3, <2>1 DEF ConfirmFirmware, Goto, handleVars, Confirmable
    <3>2. Launched' = Launched /\ Transferring' = Transferring
      BY <1>3, <3>1 DEF ConfirmFirmware, At, Launched, Transferring, Working, TypeOK
    <3> QED
      BY <3>1, <3>2 DEF ControlInv, OneTransfer, ReportMatchesState, handleVars, StateOf
  <2>2. CASE state' # state
    <3>1. /\ state = "AwaitingConfirmation"
          /\ state' = "Running"
          /\ UNCHANGED report
          /\ pc' = [pc EXCEPT ![t] = "read"]
      BY <1>3, <2>2 DEF ConfirmFirmware, Goto, Confirmable
    <3>2. Launched = {}
      BY <3>1 DEF ControlInv
    <3>3. Launched' = {t} /\ Transferring' = {t}
      BY <3>1, <3>2 DEF Launched, Transferring, Working, TypeOK, Callers
    <3> QED
      BY <3>1, <3>3 DEF ControlInv, OneTransfer, ReportMatchesState, Terminal
  <2> QED
    BY <2>1, <2>2
<1>4. ASSUME NEW c \in Cancellers,
             CancelFirmware(c) \/ CancelDecide(c) \/ PollReport(c) \/ GiveUp(c)
      PROVE  Claim
  <2>1. \A t \in Confirmers : pc'[t] = pc[t]
    BY <1>4, CallersAssumption
       DEF CancelFirmware, CancelDecide, PollReport, GiveUp, Goto, TypeOK, Callers
  <2>2. Launched' = Launched /\ Transferring' = Transferring
    BY <2>1 DEF Launched, Transferring
  <2>3. CASE CancelDecide(c) /\ BeforeTransfer
    <3>1. /\ state' = "Cancelled"
          /\ report' = [status |-> "Cancelled", sent |-> 0]
      BY <2>3 DEF CancelDecide
    <3> QED
      BY <2>2, <2>3, <3>1
         DEF BeforeTransfer, ControlInv, OneTransfer, ReportMatchesState, Terminal, StateOf,
             NoReport, Transferring, Launched, Working
  <2>4. CASE UNCHANGED <<state, report>>
    BY <2>2, <2>4 DEF ControlInv, OneTransfer, ReportMatchesState, StateOf
  <2> QED
    BY <1>4, <2>3, <2>4 DEF CancelFirmware, CancelDecide, PollReport, GiveUp, handleVars
<1>5. CASE \/ \E p \in Callers : Broadcast(p)
           \/ \E s \in Subscribers : SubscribeEvents(s) \/ Receive(s)
           \/ Unplug
           \/ Overwrite
           \/ UNCHANGED vars
    BY <1>0, <1>5 DEF Broadcast, Stamp, Deliver, Evict, SubscribeEvents, Receive, Unplug,
        Overwrite, vars
<1> QED
    BY <1>1, <1>2, <1>3, <1>4, <1>5 DEF Next

\* However many calls race: one transfer at most, a report exactly when the
\* session is over, and the first report is the last.
THEOREM OneReport ==
    Spec => /\ []ReportMatchesState
            /\ []OneTransfer
            /\ ReportIsFinal
<1>1. Init => ControlInv
    BY DEF Init, ControlInv, ReportMatchesState, OneTransfer, Terminal, Launched,
        Transferring, Working, Callers
<1>2. /\ TypeOK /\ VerdictReady /\ ControlInv /\ [Next]_vars
      => /\ ControlInv'
         /\ report # NoReport => UNCHANGED <<state, report>>
    BY ControlOfTransfer, ControlOfCalls
<1>3. [](TypeOK /\ VerdictReady) /\ Spec => []ControlInv
    BY <1>1, <1>2, PTL DEF Spec
<1>4. ControlInv => ReportMatchesState /\ OneTransfer
    BY DEF ControlInv
<1> QED
    BY <1>2, <1>3, <1>4, TypeCorrect, PTL DEF Spec, ReportIsFinal

-----------------------------------------------------------------------------
(* What the transfer has done to the device.                               *)

Pre == {"none", "Preflight", "AwaitingConfirmation"}
OnDevice == {"open", "enter", "check", "send", "commit", "failed", "exit", "cancel_exit", "verify"}

Blank == device.chunks = 0 /\ device.fed = {} /\ device.image = "old"
Untouched == Blank /\ device.mode = "app"
Full == device.chunks = ChunksTotal /\ device.fed = {planned}
Flashed == Full /\ device.image = "new" /\ device.mode = "app"
Out == device.mode = "app" /\ device.image # "new"

\* What goroutine t knows of the device where it stands.
Progress(t) ==
    /\ pc[t] = "read" => task[t].sent = 0 /\ Untouched
    /\ pc[t] \in {"mock_check", "mock_verify"} => mock
    /\ pc[t] \in OnDevice => ~mock /\ task[t].image = {planned}
    /\ pc[t] \in {"open", "enter"} => task[t].sent = 0 /\ Blank
    /\ pc[t] \in {"check", "send"} =>
         /\ task[t].sent = device.chunks
         /\ device.chunks # 0 => device.fed = {planned}
    /\ pc[t] = "send" => task[t].sent # ChunksTotal
    /\ pc[t] \in {"check", "send", "commit", "cancel_exit"} => device.image # "new"
    /\ pc[t] \in {"commit", "exit", "verify"} => Full /\ task[t].sent = ChunksTotal
    /\ pc[t] \in {"exit", "verify"} => device.image = "new"
    /\ pc[t] = "verify" => device.mode = "app"
    /\ pc[t] = "finalize" =>
         /\ task[t].verdict.status \in {"Completed", "CompletedUnverified"} /\ ~mock =>
              Flashed /\ task[t].verdict.sent = ChunksTotal
         /\ task[t].verdict.status = "Cancelled" => Out

Sane ==
    /\ mock => Untouched
    /\ device.chunks <= ChunksTotal
    /\ device.image = "new" => device.chunks = ChunksTotal

\* Until the transfer nothing has been written, and nobody has made a call before
\* preflight.
BeforeIsClean ==
    /\ state \in Pre => Untouched
    /\ \A t \in Confirmers : state \in Pre => task[t].sent = 0 /\ task[t].image = {}
    /\ \A p \in Callers : state = "none" => pc[p] = "idle"

DeviceInv ==
    /\ OnlyPlannedBytes
    /\ Sane
    /\ BeforeIsClean
    /\ \A t \in Confirmers : Progress(t)
    /\ ReportIsTrue

CancelInv ==
    /\ CancelStopsTransfer
    /\ askedAt # NotAsked =>
         /\ cancelRequested /\ state \notin Pre
         /\ \A t \in Confirmers :
              /\ pc[t] = "send" => device.chunks <= askedAt
              /\ pc[t] = "commit" => askedAt + 1 >= ChunksTotal

-----------------------------------------------------------------------------
LEMMA CommandEffects ==
    ASSUME device \in Device, NEW bytes \in SUBSET Images
    PROVE  /\ device.chunks \in Nat
           /\ Fed(bytes).chunks = device.chunks + 1
           /\ Fed(bytes).image = "partial"
           /\ Fed(bytes).fed = device.fed \cup bytes
           /\ Fed(bytes).mode = device.mode
           /\ Committed.chunks = device.chunks /\ Committed.fed = device.fed
           /\ Committed.image = "new" /\ Committed.mode = device.mode
           /\ Exited.chunks = device.chunks /\ Exited.fed = device.fed
           /\ Exited.image = device.image /\ Exited.mode = "app"
           /\ \A n : Entering(n).chunks = device.chunks /\ Entering(n).fed = device.fed
                       /\ Entering(n).image = device.image
BY DEF Fed, Committed, Exited, Entering, Device

\* While one confirmer transfers, the others were refused or have not called.
LEMMA TransferIsAlone ==
    ASSUME TypeOK, VerdictReady, ControlInv, NEW t \in Confirmers, Transfer(t)
    PROVE  /\ pc[t] \in Working /\ pending[t] = NoEvent
           /\ pc' = [pc EXCEPT ![t] = pc'[t]] /\ pc'[t] \in Working \cup {"ended"}
           /\ \A u \in Confirmers \ {t} : pc[u] \in {"idle", "refused"}
           /\ state = "Running"
           /\ ~Finalize(t) => UNCHANGED taskFrame
           /\ UNCHANGED <<mock, planned, askedAt, cancelRequested>>
<1>0. pc[t] \in Working /\ t \in Callers
    BY DEF Transfer, ReadImage, OpenSession, EnterBootloader, CheckCancel,
        SendFirmwareChunk, FirmwareCommit, ReportDisconnect, RecoverExit, ExitBootloader,
        CancelRunningTransfer, VerifyPostFlash, MockChunk, MockVerify, Panic, Finalize,
        At, Working, Callers
<1>1. pending[t] = NoEvent
    BY DEF Transfer, ReadImage, OpenSession, EnterBootloader, CheckCancel,
        SendFirmwareChunk, FirmwareCommit, ReportDisconnect, RecoverExit, ExitBootloader,
        CancelRunningTransfer, VerifyPostFlash, MockChunk, MockVerify, Panic, Finalize, At
<1>2. \E l \in Working \cup {"ended"} : Goto(t, l)
    BY DEF Transfer, ReadImage, OpenSession, EnterBootloader, CheckCancel,
        SendFirmwareChunk, FirmwareCommit, ReportDisconnect, RecoverExit, ExitBootloader,
        CancelRunningTransfer, VerifyPostFlash, MockChunk, MockVerify, Panic, Finalize,
        End, Proceed, Working
<1>3. ~Finalize(t) => UNCHANGED taskFrame
    BY DEF Transfer, ReadImage, OpenSession, EnterBootloader, CheckCancel,
        SendFirmwareChunk, FirmwareCommit, ReportDisconnect, RecoverExit, ExitBootloader,
        CancelRunningTransfer, VerifyPostFlash, MockChunk, MockVerify, Panic
<1>4. UNCHANGED <<mock, planned, askedAt, cancelRequested>>
    BY <1>3 DEF Finalize, taskFrame, fileVars, handleVars
<1>5. t \in Launched
    BY <1>0 DEF Launched, Working
<1>6. \A u \in Confirmers \ {t} : pc[u] \in {"idle", "refused"}
    BY <1>5 DEF ControlInv, OneTransfer, Launched
<1>7. pc' = [pc EXCEPT ![t] = pc'[t]] /\ pc'[t] \in Working \cup {"ended"}
    BY <1>0, <1>2 DEF Goto, TypeOK
<1> QED
    BY <1>0, <1>1, <1>3, <1>4, <1>6, <1>7, ControlOfTransfer

LEMMA ProgressOfTransfer ==
    ASSUME TypeOK, VerdictReady, ControlInv, DeviceInv, NEW t \in Confirmers, Transfer(t)
    PROVE  Progress(t)' /\ Sane' /\ OnlyPlannedBytes'
<1> DEFINE Claim == Progress(t)' /\ Sane' /\ OnlyPlannedBytes'
<1>0. /\ device \in Device /\ device.chunks \in Nat
      /\ task \in [Confirmers -> Task] /\ task[t].sent \in Nat /\ task[t].image \in SUBSET Images
      /\ pc \in [Callers -> PCs] /\ t \in Callers
      /\ ChunksTotal \in Nat \ {0}
      /\ Progress(t) /\ Sane /\ device.fed \subseteq {planned}
      /\ UNCHANGED <<mock, planned>>
    BY TransferAssumption, TransferIsAlone
       DEF TypeOK, Device, Task, Callers, DeviceInv, OnlyPlannedBytes
<1>end. ASSUME NEW status, End(t, status)
        PROVE  /\ pc'[t] = "finalize"
               /\ task'[t].verdict.status = status
               /\ task'[t].verdict.sent = task[t].sent
    BY <1>0, <1>end DEF End, Goto, Task
<1>goto. ASSUME NEW l, Goto(t, l)
         PROVE  pc'[t] = l
    BY <1>0, <1>goto DEF Goto
<1>1. CASE ReadImage(t)
  <2>1. CASE End(t, "Failed")
    BY <1>0, <1>1, <1>end, <2>1
       DEF ReadImage, Progress, Sane, OnlyPlannedBytes, Untouched, Blank, OnDevice
  <2>2. CASE ~End(t, "Failed")
    <3>1. /\ task' = [task EXCEPT ![t].image = {planned}]
          /\ pc'[t] = IF mock THEN "mock_check" ELSE "open"
          /\ pc[t] = "read" /\ device' = device
      BY <1>0, <1>1, <1>goto, <2>2 DEF ReadImage, ImageUnchanged, At
    <3>2. task'[t].image = {planned} /\ task'[t].sent = task[t].sent
      BY <1>0, <3>1 DEF Task
    <3> QED
      BY <1>0, <3>1, <3>2 DEF Progress, Sane, OnlyPlannedBytes, Untouched, Blank, OnDevice
  <2> QED
    BY <2>1, <2>2
<1>2. CASE OpenSession(t)
    BY <1>0, <1>2, <1>end, <1>goto
       DEF OpenSession, Proceed, At, Progress, Sane, OnlyPlannedBytes, Untouched, Blank, OnDevice
<1>3. CASE EnterBootloader(t)
  <2> DEFINE n == task[t].entered + 1
  <2>0. pc[t] = "enter" /\ ~mock
    BY <1>0, <1>3 DEF EnterBootloader, At, Progress, OnDevice
  <2>1. /\ device'.chunks = device.chunks /\ device'.fed = device.fed
        /\ device'.image = device.image
    BY <1>0, <1>3, CommandEffects DEF EnterBootloader, Accepted, Errored
  <2>2. CASE End(t, "Failed")
    BY <1>0, <1>end, <2>0, <2>1, <2>2
       DEF Progress, Sane, OnlyPlannedBytes, Untouched, Blank, OnDevice
  <2>3. CASE ~End(t, "Failed")
    <3>1. task' = [task EXCEPT ![t].entered = n] /\ pc'[t] \in {"check", "enter"}
      BY <1>3, <1>goto, <2>3 DEF EnterBootloader
    <3>2. task'[t].sent = task[t].sent /\ task'[t].image = task[t].image
      BY <1>0, <3>1 DEF Task
    <3> QED
      BY <1>0, <2>0, <2>1, <3>1, <3>2
         DEF Progress, Sane, OnlyPlannedBytes, Untouched, Blank, OnDevice
  <2> QED
    BY <2>2, <2>3
<1>4. CASE CheckCancel(t)
  <2>1. /\ pc[t] = "check" /\ device' = device /\ task' = task /\ ~mock
        /\ \/ pc'[t] = "commit" /\ task[t].sent = ChunksTotal
           \/ pc'[t] = "cancel_exit"
           \/ pc'[t] = "send" /\ task[t].sent # ChunksTotal
    BY <1>0, <1>4, <1>goto DEF CheckCancel, Proceed, At, AllSent, Progress, OnDevice
  <2> QED
    BY <1>0, <2>1 DEF Progress, Sane, OnlyPlannedBytes, OnDevice, Full
<1>5. CASE SendFirmwareChunk(t)
  <2>0. pc[t] = "send" /\ ~mock /\ task[t].image = {planned}
        /\ task[t].sent = device.chunks /\ device.chunks # ChunksTotal
    BY <1>0, <1>5 DEF SendFirmwareChunk, At, Progress, OnDevice
  <2> DEFINE fed == Fed({planned})
  <2>1. /\ fed.chunks = device.chunks + 1
        /\ fed.fed = {planned}
        /\ fed.image = "partial"
    BY <1>0, <2>0, CommandEffects DEF Sane
  <2>2. CASE Goto(t, "failed")
    <3>1. pc'[t] = "failed" /\ (device' = device \/ device' = fed)
      BY <1>5, <1>goto, <2>0, <2>2 DEF SendFirmwareChunk, Accepted, Errored
    <3>2. task' = task
      BY <1>0, <1>5, <1>goto, <3>1 DEF SendFirmwareChunk, Proceed
    <3> HIDE DEF fed
    <3> QED
      BY <1>0, <2>0, <2>1, <3>1, <3>2 DEF Progress, Sane, OnlyPlannedBytes, OnDevice
  <2>3. CASE ~Goto(t, "failed")
    <3>1. /\ pc'[t] = "check" /\ device' = fed
          /\ task' = [task EXCEPT ![t].sent = task[t].sent + 1]
      BY <1>5, <1>goto, <2>0, <2>3 DEF SendFirmwareChunk, Accepted, Proceed
    <3>2. task'[t].sent = task[t].sent + 1 /\ task'[t].image = task[t].image
      BY <1>0, <3>1 DEF Task
    <3> HIDE DEF fed
    <3> QED
      BY <1>0, <2>0, <2>1, <3>1, <3>2 DEF Progress, Sane, OnlyPlannedBytes, OnDevice
  <2> QED
    BY <2>2, <2>3
<1>6. CASE FirmwareCommit(t)
  <2>0. pc[t] = "commit" /\ ~mock /\ Full /\ task[t].sent = ChunksTotal /\ task' = task
    BY <1>0, <1>6 DEF FirmwareCommit, At, Progress, OnDevice
  <2>1. /\ Committed.chunks = device.chunks
        /\ Committed.fed = device.fed
        /\ Committed.image = "new"
    BY <1>0, CommandEffects
  <2>2. \/ pc'[t] = "exit" /\ device' = Committed
        \/ pc'[t] = "failed" /\ (device' = device \/ device' = Committed)
    BY <1>6, <1>goto DEF FirmwareCommit, Proceed, Accepted, Errored
  <2> QED
    BY <1>0, <2>0, <2>1, <2>2 DEF Progress, Sane, OnlyPlannedBytes, OnDevice, Full
<1>7. CASE ReportDisconnect(t) \/ Panic(t)
  <2>1. pc'[t] = "finalize" /\ task'[t].verdict.status = "Failed" /\ device' = device
    BY <1>7, <1>end DEF ReportDisconnect, Panic
  <2> QED
    BY <1>0, <2>1 DEF Progress, Sane, OnlyPlannedBytes, Untouched, Blank, OnDevice
<1>8. CASE RecoverExit(t) \/ ExitBootloader(t) \/ CancelRunningTransfer(t)
  <2>0. /\ pc[t] \in {"failed", "exit", "cancel_exit"} /\ ~mock
        /\ pc[t] = "exit" => Full /\ task[t].sent = ChunksTotal /\ device.image = "new"
        /\ pc[t] = "cancel_exit" => device.image # "new"
    BY <1>0, <1>8 DEF RecoverExit, ExitBootloader, CancelRunningTransfer, At, Progress, OnDevice
  <2>1. /\ Exited.chunks = device.chunks /\ Exited.fed = device.fed
        /\ Exited.image = device.image /\ Exited.mode = "app"
    BY <1>0, CommandEffects
  <2>2. /\ device' = device \/ device' = Exited
        /\ \/ pc'[t] = "finalize" /\ task'[t].verdict.status = "Failed"
           \/ /\ pc[t] = "cancel_exit" /\ device' = Exited
              /\ pc'[t] = "finalize" /\ task'[t].verdict.status = "Cancelled"
           \/ /\ pc[t] = "exit" /\ device' = Exited
              /\ pc'[t] = "verify" /\ task' = task
    BY <1>8, <1>end, <1>goto
       DEF RecoverExit, ExitBootloader, CancelRunningTransfer, Proceed, Accepted, Errored, At
  <2> QED
    BY <1>0, <2>0, <2>1, <2>2
       DEF Progress, Sane, OnlyPlannedBytes, OnDevice, Full, Out
<1>9. CASE VerifyPostFlash(t) \/ MockVerify(t)
  <2>1. /\ pc'[t] = "finalize" /\ device' = device
        /\ task'[t].verdict.sent = task[t].sent
        /\ task'[t].verdict.status \in {"Completed", "CompletedUnverified"}
        /\ pc[t] \in {"verify", "mock_verify"}
    BY <1>9, <1>end DEF VerifyPostFlash, MockVerify, At
  <2> QED
    BY <1>0, <2>1 DEF Progress, Sane, OnlyPlannedBytes, OnDevice, Flashed, Full, Untouched, Blank
<1>10. CASE MockChunk(t)
  <2>1. /\ pc[t] = "mock_check" /\ device' = device
        /\ \/ pc'[t] \in {"mock_check", "mock_verify"}
           \/ pc'[t] = "finalize" /\ task'[t].verdict.status = "Cancelled"
    BY <1>10, <1>end, <1>goto DEF MockChunk, Proceed, At
  <2> QED
    BY <1>0, <2>1 DEF Progress, Sane, OnlyPlannedBytes, OnDevice, Out, Untouched, Blank
<1>11. CASE Finalize(t)
  <2>1. pc'[t] = "ended" /\ device' = device
    BY <1>11, <1>goto DEF Finalize, Proceed
  <2> QED
    BY <1>0, <2>1 DEF Progress, Sane, OnlyPlannedBytes, OnDevice, Untouched, Blank
<1> QED
    BY <1>1, <1>2, <1>3, <1>4, <1>5, <1>6, <1>7, <1>8, <1>9, <1>10, <1>11 DEF Transfer

LEMMA DeviceOfTransfer ==
    ASSUME TypeOK, VerdictReady, ControlInv, DeviceInv, NEW t \in Confirmers, Transfer(t)
    PROVE  DeviceInv'
<1>0. /\ pc \in [Callers -> PCs] /\ Confirmers \subseteq Callers
      /\ pc' = [pc EXCEPT ![t] = pc'[t]]
      /\ \A u \in Confirmers \ {t} : pc[u] \in {"idle", "refused"}
      /\ Progress(t)' /\ Sane' /\ OnlyPlannedBytes'
    BY TransferIsAlone, ProgressOfTransfer DEF TypeOK, Callers
<1>1. \A u \in Confirmers : Progress(u)'
  <2> SUFFICES ASSUME NEW u \in Confirmers \ {t}
               PROVE  Progress(u)'
    BY <1>0
  <2>1. pc'[u] \in {"idle", "refused"}
    BY <1>0
  <2> QED
    BY <2>1 DEF Progress, OnDevice
<1>2. CASE ~Finalize(t)
  <2>1. state' = "Running"
    BY <1>2, TransferIsAlone DEF taskFrame, handleVars
  <2> QED
    BY <1>0, <1>1, <2>1
       DEF DeviceInv, BeforeIsClean, Pre, ReportIsTrue, CompletedMeansFlashed, CancelledMeansOut
<1>3. CASE Finalize(t)
  <2>1. /\ pc[t] = "finalize" /\ task[t].verdict \in Reports
        /\ report' = task[t].verdict /\ state' = StateOf(report'.status)
        /\ UNCHANGED <<device, mock, planned>>
    BY <1>3 DEF Finalize, At, VerdictReady, fileVars
  <2>2. state' \in Terminal /\ state' \notin Pre
    BY <2>1 DEF Reports, Outcomes, StateOf, Terminal, Pre
  <2>3. BeforeIsClean'
    BY <2>2 DEF BeforeIsClean, Pre
  <2>4. ReportIsTrue'
    BY <2>1 DEF DeviceInv, Progress, ReportIsTrue, CompletedMeansFlashed, CancelledMeansOut,
        Flashed, Full, Out, StateOf, Reports, Outcomes
  <2> QED
    BY <1>0, <1>1, <2>3, <2>4 DEF DeviceInv
<1> QED
    BY <1>2, <1>3

\* What every other step leaves alone.
LEMMA DeviceOfCalls ==
    ASSUME TypeOK, ControlInv, DeviceInv, [Next]_vars, \A t \in Confirmers : ~Transfer(t)
    PROVE  DeviceInv'
<1> USE DEF TypeOK
<1>0. /\ Starters \subseteq Callers /\ Confirmers \subseteq Callers /\ Cancellers \subseteq Callers
      /\ device \in Device
    BY DEF Callers
<1>same. ASSUME UNCHANGED <<state, report, device, mock, task, planned>>,
                \A t \in Confirmers : pc'[t] = pc[t] \/ pc'[t] = "refused",
                state = "none" => pc' = pc
         PROVE  DeviceInv'
  <2>1. /\ OnlyPlannedBytes' /\ Sane' /\ BeforeIsClean'
    BY <1>same DEF DeviceInv, OnlyPlannedBytes, Sane, BeforeIsClean, Untouched, Blank
  <2>2. \A t \in Confirmers : Progress(t)'
    BY <1>same DEF DeviceInv, Progress, Untouched, Blank, Full, Flashed, Out, OnDevice
  <2>3. ReportIsTrue'
    BY <1>same DEF DeviceInv, ReportIsTrue, CompletedMeansFlashed, CancelledMeansOut
  <2> QED
    BY <2>1, <2>2, <2>3 DEF DeviceInv
<1>1. CASE PreflightFirmware
  <2>1. /\ \A t \in Confirmers : pc'[t] = "idle"
        /\ UNCHANGED <<device, mock, task>> /\ Untouched /\ state' = "Preflight"
        /\ \A t \in Confirmers : task[t].sent = 0 /\ task[t].image = {}
    BY <1>0, <1>1 DEF PreflightFirmware, DeviceInv, BeforeIsClean, Pre
  <2>2. OnlyPlannedBytes' /\ Sane' /\ BeforeIsClean'
    BY <2>1 DEF DeviceInv, OnlyPlannedBytes, Sane, BeforeIsClean, Untouched, Blank, Pre
  <2>3. \A t \in Confirmers : Progress(t)'
    BY <2>1 DEF Progress, OnDevice
  <2>4. ReportIsTrue'
    BY <2>1 DEF ReportIsTrue, CompletedMeansFlashed, CancelledMeansOut
  <2> QED
    BY <2>2, <2>3, <2>4 DEF DeviceInv
<1>2. ASSUME NEW p \in Starters, StartFirmware(p)
      PROVE  DeviceInv'
  <2>1. \A t \in Confirmers : pc'[t] = pc[t]
    BY <1>0, <1>2, CallersAssumption DEF StartFirmware, Goto
  <2>2. UNCHANGED <<report, device, mock, task, planned>> /\ state # "none"
    BY <1>2 DEF StartFirmware, fileVars
  <2>3. CASE UNCHANGED state
    BY <1>same, <2>1, <2>2, <2>3
  <2>4. CASE state = "Preflight" /\ state' = "AwaitingConfirmation"
    <3>1. OnlyPlannedBytes' /\ Sane' /\ BeforeIsClean'
      BY <2>2, <2>4 DEF DeviceInv, OnlyPlannedBytes, Sane, BeforeIsClean, Untouched, Blank, Pre
    <3>2. \A t \in Confirmers : Progress(t)'
      BY <2>1, <2>2 DEF DeviceInv, Progress, Untouched, Blank, Full, Flashed, Out, OnDevice
    <3>3. ReportIsTrue'
      BY <2>4 DEF ReportIsTrue, CompletedMeansFlashed, CancelledMeansOut
    <3> QED
      BY <3>1, <3>2, <3>3 DEF DeviceInv
  <2> QED
    BY <1>2, <2>3, <2>4 DEF StartFirmware
<1>3. ASSUME NEW t \in Confirmers, ConfirmFirmware(t)
      PROVE  DeviceInv'
  <2>1. UNCHANGED <<report, device, mock, task, planned>> /\ state # "none"
    BY <1>3 DEF ConfirmFirmware, fileVars
  <2>2. CASE pc' = [pc EXCEPT ![t] = "refused"] /\ UNCHANGED state
    BY <1>0, <1>same, <2>1, <2>2
  <2>3. CASE /\ state = "AwaitingConfirmation" /\ state' = "Running"
             /\ pc' = [pc EXCEPT ![t] = "read"]
    <3>1. /\ Untouched /\ task[t].sent = 0
          /\ \A u \in Confirmers \ {t} : pc[u] \in {"idle", "refused"}
      BY <2>3 DEF DeviceInv, BeforeIsClean, Pre, ControlInv, Launched
    <3>2. \A u \in Confirmers : Progress(u)'
      BY <1>0, <2>1, <2>3, <3>1 DEF Progress, OnDevice, Untouched, Blank
    <3>3. OnlyPlannedBytes' /\ Sane' /\ BeforeIsClean'
      BY <2>1, <2>3 DEF DeviceInv, OnlyPlannedBytes, Sane, BeforeIsClean, Untouched, Blank, Pre
    <3>4. ReportIsTrue'
      BY <2>3 DEF ReportIsTrue, CompletedMeansFlashed, CancelledMeansOut
    <3> QED
      BY <3>2, <3>3, <3>4 DEF DeviceInv
  <2> QED
    BY <1>3, <2>2, <2>3 DEF ConfirmFirmware, Confirmable, Goto
<1>4. ASSUME NEW c \in Cancellers,
             CancelFirmware(c) \/ CancelDecide(c) \/ PollReport(c) \/ GiveUp(c)
      PROVE  DeviceInv'
  <2>1. /\ \A t \in Confirmers : pc'[t] = pc[t]
        /\ UNCHANGED <<device, mock, task, planned>>
        /\ state # "none"
    BY <1>0, <1>4, CallersAssumption
       DEF CancelFirmware, CancelDecide, PollReport, GiveUp, Goto, fileVars,
           DeviceInv, BeforeIsClean, At
  <2>2. CASE CancelDecide(c) /\ BeforeTransfer
    <3>1. /\ state' = "Cancelled" /\ Untouched
          /\ \A t \in Confirmers : pc[t] \in {"idle", "refused"}
      BY <2>2 DEF CancelDecide, BeforeTransfer, DeviceInv, BeforeIsClean, Pre, ControlInv, Launched
    <3>2. \A u \in Confirmers : Progress(u)'
      BY <2>1, <3>1 DEF Progress, OnDevice
    <3>3. OnlyPlannedBytes' /\ Sane' /\ BeforeIsClean'
      BY <2>1, <3>1 DEF DeviceInv, OnlyPlannedBytes, Sane, BeforeIsClean, Untouched, Blank, Pre
    <3>4. ReportIsTrue'
      BY <2>1, <3>1 DEF ReportIsTrue, CompletedMeansFlashed, CancelledMeansOut, Untouched, Blank
    <3> QED
      BY <3>2, <3>3, <3>4 DEF DeviceInv
  <2>3. CASE UNCHANGED <<state, report>>
    BY <1>same, <2>1, <2>3
  <2> QED
    BY <1>4, <2>2, <2>3 DEF CancelFirmware, CancelDecide, PollReport, GiveUp, handleVars
<1>5. CASE \/ \E p \in Callers : Broadcast(p)
           \/ \E s \in Subscribers : SubscribeEvents(s) \/ Receive(s)
           \/ Overwrite
           \/ UNCHANGED vars
  <2>1. UNCHANGED <<state, report, device, mock, task, planned, pc>>
    BY <1>5 DEF Broadcast, Stamp, Deliver, Evict, SubscribeEvents, Receive, Overwrite, vars,
        handleVars, fileVars
  <2> QED
    BY <1>same, <2>1
<1>6. CASE Unplug
  <2>1. /\ UNCHANGED <<state, report, mock, task, planned, pc>>
        /\ device'.chunks = device.chunks /\ device'.fed = device.fed
        /\ device'.image = device.image /\ device'.mode = device.mode
    BY <1>0, <1>6 DEF Unplug, handleVars, fileVars, Device
  <2>2. /\ OnlyPlannedBytes' /\ Sane' /\ BeforeIsClean'
    BY <2>1 DEF DeviceInv, OnlyPlannedBytes, Sane, BeforeIsClean, Untouched, Blank
  <2>3. \A t \in Confirmers : Progress(t)'
    BY <2>1 DEF DeviceInv, Progress, Untouched, Blank, Full, Flashed, Out
  <2>4. ReportIsTrue'
    BY <2>1 DEF DeviceInv, ReportIsTrue, CompletedMeansFlashed, CancelledMeansOut
  <2> QED
    BY <2>2, <2>3, <2>4 DEF DeviceInv
<1> QED
    BY <1>1, <1>2, <1>3, <1>4, <1>5, <1>6 DEF Next

LEMMA ReportInit ==
    ASSUME Init
    PROVE  ControlInv /\ DeviceInv
<1>1. ControlInv
    BY DEF Init, ControlInv, ReportMatchesState, OneTransfer, Terminal, Launched,
        Transferring, Working, Callers
<1>2. Sane /\ OnlyPlannedBytes /\ BeforeIsClean /\ ReportIsTrue
    BY TransferAssumption DEF Init, Sane, OnlyPlannedBytes, BeforeIsClean, Untouched, Blank,
        ReportIsTrue, CompletedMeansFlashed, CancelledMeansOut, Callers
<1>3. \A t \in Confirmers : Progress(t)
    BY DEF Init, Progress, OnDevice, Callers
<1> QED
    BY <1>1, <1>2, <1>3 DEF DeviceInv

LEMMA DeviceAlways == Spec => [](ControlInv /\ DeviceInv)
<1>1. Init => ControlInv /\ DeviceInv
    BY ReportInit
<1>2. TypeOK /\ VerdictReady /\ ControlInv /\ DeviceInv /\ [Next]_vars => ControlInv' /\ DeviceInv'
    BY ControlOfTransfer, ControlOfCalls, DeviceOfTransfer, DeviceOfCalls
<1> QED
    BY <1>1, <1>2, TypeCorrect, PTL DEF Spec

\* Wherever a failure, an unplugging or a cancellation catches the transfer, the
\* report tells the truth about the device.
THEOREM DeviceIsAsReported == Spec => []ReportIsTrue
<1>1. ControlInv /\ DeviceInv => ReportIsTrue
    BY DEF DeviceInv
<1> QED
    BY <1>1, DeviceAlways, PTL

\* The device is fed nothing but the content preflight hashed, although the image file
\* is read again after the user confirmed.
THEOREM OnlyThePlan == Spec => []OnlyPlannedBytes
<1>1. ControlInv /\ DeviceInv => OnlyPlannedBytes
    BY DEF DeviceInv
<1> QED
    BY <1>1, DeviceAlways, PTL

-----------------------------------------------------------------------------
(* A request to cancel stops the transfer.                                 *)

LEMMA CancelOfTransfer ==
    ASSUME TypeOK, VerdictReady, ControlInv, DeviceInv, CancelInv,
           NEW t \in Confirmers, Transfer(t)
    PROVE  CancelInv'
<1>0. /\ pc \in [Callers -> PCs] /\ t \in Callers /\ Confirmers \subseteq Callers
      /\ pc' = [pc EXCEPT ![t] = pc'[t]]
      /\ \A u \in Confirmers \ {t} : pc[u] \in {"idle", "refused"}
      /\ UNCHANGED <<askedAt, cancelRequested>>
      /\ device \in Device /\ device.chunks \in Nat /\ askedAt \in Nat
      /\ task[t].image \in SUBSET Images
      /\ ChunksTotal \in Nat
      /\ Progress(t)
    BY TransferAssumption, TransferIsAlone DEF TypeOK, Callers, Device, Task, DeviceInv
<1>1. state' \notin Pre
  <2>1. CASE Finalize(t)
    BY <2>1 DEF Finalize, At, VerdictReady, Reports, Outcomes, StateOf, Pre
  <2>2. CASE ~Finalize(t)
    BY <2>2, TransferIsAlone DEF taskFrame, handleVars, Pre
  <2> QED
    BY <2>1, <2>2
<1>2. SUFFICES ASSUME askedAt # NotAsked
               PROVE  /\ CancelStopsTransfer'
                      /\ pc'[t] = "send" => device'.chunks <= askedAt
                      /\ pc'[t] = "commit" => askedAt + 1 >= ChunksTotal
  <2>1. \A u \in Confirmers \ {t} : pc'[u] \notin {"send", "commit"}
    BY <1>0
  <2> QED
    BY <1>0, <1>1, <1>2, <2>1 DEF CancelInv, CancelStopsTransfer, NotAsked
<1>3. /\ cancelRequested
      /\ device.chunks <= askedAt + 1
      /\ device.image = "new" => askedAt + 1 >= ChunksTotal
      /\ pc[t] = "send" => device.chunks <= askedAt
      /\ pc[t] = "commit" => askedAt + 1 >= ChunksTotal
    BY <1>2 DEF CancelInv, CancelStopsTransfer
<1>4. CASE SendFirmwareChunk(t)
  <2>0. pc[t] = "send" /\ pc'[t] \in {"check", "failed"}
    BY <1>0, <1>4 DEF SendFirmwareChunk, At, Proceed, Goto
  <2>1. \/ device' = device
        \/ device'.chunks = device.chunks + 1 /\ device'.image = "partial"
    BY <1>0, <1>4, CommandEffects DEF SendFirmwareChunk, Accepted, Errored
  <2> QED
    BY <1>0, <1>3, <2>0, <2>1 DEF CancelStopsTransfer
<1>5. CASE FirmwareCommit(t)
  <2>0. pc[t] = "commit" /\ pc'[t] \in {"exit", "failed"}
    BY <1>0, <1>5 DEF FirmwareCommit, At, Proceed, Goto
  <2>1. device' = device \/ (device'.chunks = device.chunks /\ device'.image = "new")
    BY <1>0, <1>5, CommandEffects DEF FirmwareCommit, Accepted, Errored
  <2> QED
    BY <1>0, <1>3, <2>0, <2>1 DEF CancelStopsTransfer
<1>6. CASE CheckCancel(t)
  <2>1. /\ pc[t] = "check" /\ device' = device
        /\ \/ pc'[t] = "commit" /\ task[t].sent = ChunksTotal
           \/ pc'[t] = "cancel_exit"
    BY <1>0, <1>3, <1>6 DEF CheckCancel, At, Proceed, Goto, AllSent, cancelRequestedNow
  <2>2. task[t].sent = device.chunks
    BY <1>0, <2>1 DEF Progress
  <2> QED
    BY <1>0, <1>3, <2>1, <2>2 DEF CancelStopsTransfer
<1>7. CASE EnterBootloader(t) \/ RecoverExit(t) \/ ExitBootloader(t) \/ CancelRunningTransfer(t)
  <2>1. device'.chunks = device.chunks /\ device'.image = device.image
    BY <1>0, <1>7, CommandEffects
       DEF EnterBootloader, RecoverExit, ExitBootloader, CancelRunningTransfer, Accepted, Errored
  <2>2. pc'[t] \in {"enter", "check", "verify", "finalize"}
    BY <1>0, <1>7
       DEF EnterBootloader, RecoverExit, ExitBootloader, CancelRunningTransfer, End, Proceed, Goto
  <2> QED
    BY <1>0, <1>3, <2>1, <2>2 DEF CancelStopsTransfer
<1>8. CASE \/ ReadImage(t) \/ OpenSession(t) \/ ReportDisconnect(t) \/ VerifyPostFlash(t)
           \/ MockChunk(t) \/ MockVerify(t) \/ Panic(t) \/ Finalize(t)
  <2>1. device' = device
    BY <1>8 DEF ReadImage, OpenSession, ReportDisconnect, VerifyPostFlash, MockChunk, MockVerify,
        Panic, Finalize
  <2>2. pc'[t] \in {"mock_check", "open", "enter", "mock_verify", "finalize", "ended"}
    BY <1>0, <1>8 DEF ReadImage, OpenSession, ReportDisconnect, VerifyPostFlash, MockChunk,
        MockVerify, Panic, Finalize, End, Proceed, Goto
  <2> QED
    BY <1>0, <1>3, <2>1, <2>2 DEF CancelStopsTransfer
<1> QED
    BY <1>4, <1>5, <1>6, <1>7, <1>8 DEF Transfer

LEMMA CancelOfCalls ==
    ASSUME TypeOK, ControlInv, DeviceInv, CancelInv, [Next]_vars,
           \A t \in Confirmers : ~Transfer(t)
    PROVE  CancelInv'
<1> USE DEF TypeOK
<1>0. /\ Starters \subseteq Callers /\ Confirmers \subseteq Callers /\ Cancellers \subseteq Callers
      /\ device \in Device /\ device.chunks \in Nat /\ ChunksTotal \in Nat
    BY TransferAssumption DEF Callers, Device
<1>same. ASSUME UNCHANGED <<askedAt, cancelRequested>>,
                device'.chunks = device.chunks, device'.image = device.image,
                \A t \in Confirmers : pc'[t] = pc[t] \/ pc'[t] = "refused",
                state' \in Pre => state \in Pre
         PROVE  CancelInv'
    BY <1>same DEF CancelInv, CancelStopsTransfer, NotAsked
<1>1. CASE PreflightFirmware
  <2>1. state \in Pre /\ UNCHANGED askedAt
    BY <1>1 DEF PreflightFirmware, Pre
  <2> QED
    BY <2>1 DEF CancelInv, CancelStopsTransfer, NotAsked
<1>2. ASSUME NEW t \in Confirmers, ConfirmFirmware(t)
      PROVE  CancelInv'
  <2>1. CASE state = "AwaitingConfirmation"
    BY <1>2, <2>1 DEF ConfirmFirmware, CancelInv, CancelStopsTransfer, NotAsked, Pre
  <2>2. CASE state # "AwaitingConfirmation"
    <3>1. pc' = [pc EXCEPT ![t] = "refused"] /\ UNCHANGED <<state, askedAt, cancelRequested, device>>
      BY <1>2, <2>2 DEF ConfirmFirmware, Confirmable, Goto
    <3> QED
      BY <1>0, <1>same, <3>1
  <2> QED
    BY <2>1, <2>2
<1>3. ASSUME NEW p \in Starters, StartFirmware(p)
      PROVE  CancelInv'
  <2>1. \A t \in Confirmers : pc'[t] = pc[t]
    BY <1>0, <1>3, CallersAssumption DEF StartFirmware, Goto
  <2> QED
    BY <1>3, <1>same, <2>1 DEF StartFirmware, Pre
<1>4. ASSUME NEW c \in Cancellers,
             CancelFirmware(c) \/ CancelDecide(c) \/ PollReport(c) \/ GiveUp(c)
      PROVE  CancelInv'
  <2>1. \A t \in Confirmers : pc'[t] = pc[t]
    BY <1>0, <1>4, CallersAssumption DEF CancelFirmware, CancelDecide, PollReport, GiveUp, Goto
  <2>2. CASE UNCHANGED <<askedAt, cancelRequested, state>> /\ UNCHANGED device
    BY <1>same, <2>1, <2>2
  <2>3. CASE CancelDecide(c) /\ BeforeTransfer
    BY <1>same, <2>1, <2>3 DEF CancelDecide, Pre
  <2>4. CASE CancelDecide(c) /\ ~BeforeTransfer
    <3>1. /\ cancelRequested' /\ UNCHANGED <<state, device>>
          /\ askedAt' = IF askedAt = NotAsked THEN device.chunks ELSE askedAt
      BY <2>4 DEF CancelDecide
    <3>2. state \notin Pre
      BY <1>0, <2>4 DEF CancelDecide, At, DeviceInv, BeforeIsClean, BeforeTransfer, Pre
    <3>3. CASE askedAt # NotAsked
      BY <2>1, <3>1, <3>2, <3>3 DEF CancelInv, CancelStopsTransfer, NotAsked
    <3>4. CASE askedAt = NotAsked
      <4>1. \A t \in Confirmers : pc[t] = "commit" => device.chunks = ChunksTotal
        BY DEF DeviceInv, Progress, Full
      <4>2. device.image = "new" => device.chunks = ChunksTotal
        BY DEF DeviceInv, Sane
      <4> QED
        BY <1>0, <2>1, <3>1, <3>2, <3>4, <4>1, <4>2 DEF CancelInv, CancelStopsTransfer, NotAsked
    <3> QED
      BY <3>3, <3>4
  <2> QED
    BY <1>4, <2>2, <2>3, <2>4 DEF CancelFirmware, CancelDecide, PollReport, GiveUp, handleVars
<1>5. CASE \/ \E p \in Callers : Broadcast(p)
           \/ \E s \in Subscribers : SubscribeEvents(s) \/ Receive(s)
           \/ Overwrite
           \/ UNCHANGED vars
  <2>1. UNCHANGED <<state, cancelRequested, askedAt, device, pc>>
    BY <1>5 DEF Broadcast, Stamp, Deliver, Evict, SubscribeEvents, Receive, Overwrite, vars,
        handleVars
  <2> QED
    BY <1>same, <2>1
<1>6. CASE Unplug
  <2>1. /\ UNCHANGED <<state, cancelRequested, askedAt, pc>>
        /\ device'.chunks = device.chunks /\ device'.image = device.image
    BY <1>0, <1>6 DEF Unplug, handleVars, Device
  <2> QED
    BY <1>same, <2>1
<1> QED
    BY <1>1, <1>2, <1>3, <1>4, <1>5, <1>6 DEF Next

\* A cancel that was granted stops the transfer: at most the chunk under way still
\* goes out, and the image is never committed unless all of it was already sent.
THEOREM CancelIsObeyed == Spec => []CancelStopsTransfer
<1>1. Init => ControlInv /\ DeviceInv /\ CancelInv
    BY ReportInit DEF Init, CancelInv, CancelStopsTransfer
<1>2. /\ TypeOK /\ VerdictReady /\ ControlInv /\ DeviceInv /\ CancelInv /\ [Next]_vars
      => ControlInv' /\ DeviceInv' /\ CancelInv'
    BY ControlOfTransfer, ControlOfCalls, DeviceOfTransfer, DeviceOfCalls, CancelOfTransfer,
       CancelOfCalls
<1>3. [](TypeOK /\ VerdictReady) /\ Spec => [](ControlInv /\ DeviceInv /\ CancelInv)
    BY <1>1, <1>2, PTL DEF Spec
<1>4. CancelInv => CancelStopsTransfer
    BY DEF CancelInv
<1> QED
    BY <1>3, <1>4, TypeCorrect, PTL

-----------------------------------------------------------------------------
(* Who may be publishing.                                                  *)

Publishers == Starters \cup Cancellers

\* One goroutine at a time publishes an event of the transfer; a session that is
\* over publishes nothing new, and of a transfer only its end.
PublisherInv ==
    /\ \A t \in Confirmers : pending[t] # NoEvent =>
         t \in Launched /\ (state \in Terminal => pending[t].stage \in Outcomes)
    /\ \A c \in Publishers : pending[c].stage \in TransferStages => Launched = {} /\ state \in Terminal
    /\ \A p, q \in Callers :
         pending[p].stage \in TransferStages /\ pending[q].stage \in TransferStages => p = q
    /\ \A p \in Callers :
         /\ pending[p].stage \in Outcomes => state \in Terminal
         /\ pending[p].seq <= sequence
         /\ pending[p].full # {} => pending[p].seq > 0

(* The order of a queue. *)
Ordered(queue) ==
    \A i, j \in DOMAIN queue :
        i < j /\ queue[i].stage \in TransferStages /\ queue[j].stage \in TransferStages
            => queue[i].seq < queue[j].seq
Older(queue, n) == \A i \in DOMAIN queue : queue[i].stage \in TransferStages => queue[i].seq < n
Numbered(queue, n) == \A i \in DOMAIN queue : queue[i].seq <= n

QueueInv ==
    /\ \A s \in Subscribers : Ordered(channel[s]) /\ Numbered(channel[s], sequence)
    /\ \A p \in Callers : pending[p].stage \in TransferStages /\ pending[p].seq > 0 =>
         \A s \in Subscribers :
            pending[p].full = {} \/ s \in pending[p].full => Older(channel[s], pending[p].seq)

(* The end in a queue. *)
Behind(s) ==
    {p \in Publishers : pending[p] # NoEvent /\ (pending[p].full = {} \/ s \in pending[p].full)}

Holds(s) == \E i \in DOMAIN channel[s] :
    /\ channel[s][i].stage \in Outcomes
    /\ Len(channel[s]) - i + Cardinality(Behind(s)) <= Cardinality(Publishers)

Evicting(s) == \E p \in Callers : s \in pending[p].full /\ pending[p].stage \in Outcomes

KeptInv ==
    /\ owed # {} => state \in Terminal
    /\ owed \subseteq subscribed
    /\ \A s \in owed \ (heard \cup raced) : Holds(s) \/ Evicting(s)

-----------------------------------------------------------------------------
NewEvent(stage) == [stage |-> stage, seq |-> 0, full |-> {}]

LEMMA PendingFields ==
    ASSUME TypeOK, NEW p \in Callers
    PROVE  /\ pending \in [Callers -> Pending] /\ sequence \in Nat
           /\ pending[p].seq \in Nat
           /\ pending[p].full \in SUBSET Subscribers
           /\ pending[p] = NoEvent => pending[p].stage \notin TransferStages
           /\ pending[p] # NoEvent =>
                pending[p] \in [stage : Stages, seq : Nat, full : SUBSET Subscribers]
           /\ Outcomes \subseteq TransferStages /\ TransferStages \subseteq Stages
BY DEF TypeOK, Pending, NoEvent, TransferStages, Stages, Outcomes

LEMMA TransferPublishes ==
    ASSUME TypeOK, VerdictReady, NEW t \in Confirmers, Transfer(t)
    PROVE  \/ pending' = pending /\ ~Finalize(t)
           \/ ~Finalize(t) /\ \E stage \in TransferStages \ Outcomes : Publish(t, stage)
           \/ Finalize(t) /\ \E stage \in Outcomes : Publish(t, stage) /\ state' \in Terminal
<1>1. {"bootloader", "commit", "cancel_recovery", "transfer", "exit", "verify"}
        \subseteq TransferStages \ Outcomes
    BY DEF TransferStages, Stages, Outcomes
<1>2. CASE Finalize(t)
  <2>1. task[t].verdict \in Reports /\ state' = StateOf(task[t].verdict.status)
    BY <1>2 DEF Finalize, VerdictReady, At
  <2>2. task[t].verdict.status \in Outcomes /\ state' \in Terminal
    BY <2>1 DEF Reports, Outcomes, StateOf, Terminal
  <2> QED
    BY <1>2, <2>2 DEF Finalize, Proceed
<1>3. CASE ~Finalize(t)
    BY <1>1, <1>3 DEF Transfer, ReadImage, OpenSession, EnterBootloader, CheckCancel,
        SendFirmwareChunk, FirmwareCommit, ReportDisconnect, RecoverExit, ExitBootloader,
        CancelRunningTransfer, VerifyPostFlash, MockChunk, MockVerify, Panic, End, Proceed
<1> QED
    BY <1>2, <1>3

\* Once a session is over its state stays and nobody begins to publish.
LEMMA OverIsQuiet ==
    ASSUME TypeOK, VerdictReady, ControlInv, [Next]_vars, state \in Terminal
    PROVE  /\ state' = state /\ Launched' = Launched
           /\ \/ pending' = pending
              \/ \E p \in Callers : Broadcast(p)
<1>1. report # NoReport /\ state # "Running"
    BY DEF ControlInv, ReportMatchesState, Terminal
<1>2. \A t \in Confirmers : ~Transfer(t)
    BY <1>1, ControlOfTransfer
<1>3. state' = state
    BY <1>1, <1>2, ControlOfCalls
<1>4. Confirmers \subseteq Callers /\ pc \in [Callers -> PCs]
    BY DEF TypeOK, Callers
<1>5. CASE \/ PreflightFirmware
           \/ \E p \in Starters : StartFirmware(p)
           \/ \E t \in Confirmers : ConfirmFirmware(t)
  <2>1. pending' = pending
    BY <1>5 DEF PreflightFirmware, StartFirmware, ConfirmFirmware, Terminal
  <2>2. Launched' = Launched
    <3>1. \A t \in Confirmers : pc'[t] = pc[t] \/ (pc[t] = "idle" /\ pc'[t] = "refused")
      BY <1>4, <1>5, CallersAssumption
         DEF PreflightFirmware, StartFirmware, ConfirmFirmware, Terminal, Confirmable, Goto, At,
             Callers
    <3> QED
      BY <3>1 DEF Launched
  <2> QED
    BY <1>3, <2>1, <2>2
<1>6. CASE \E c \in Cancellers :
             CancelFirmware(c) \/ CancelDecide(c) \/ PollReport(c) \/ GiveUp(c)
  <2>1. pending' = pending
    BY <1>1, <1>6 DEF CancelFirmware, CancelDecide, PollReport, GiveUp, Terminal, BeforeTransfer
  <2>2. \A t \in Confirmers : pc'[t] = pc[t]
    BY <1>4, <1>6, CallersAssumption
       DEF CancelFirmware, CancelDecide, PollReport, GiveUp, Goto, Callers
  <2> QED
    BY <1>3, <2>1, <2>2 DEF Launched
<1>7. CASE \E p \in Callers : Broadcast(p)
  <2>1. pc' = pc
    BY <1>7 DEF Broadcast, Stamp, Deliver, Evict
  <2> QED
    BY <1>3, <1>7, <2>1 DEF Launched
<1>8. CASE \/ \E s \in Subscribers : SubscribeEvents(s) \/ Receive(s)
           \/ Unplug
           \/ Overwrite
           \/ UNCHANGED vars
  <2>1. pc' = pc /\ pending' = pending
    BY <1>8 DEF SubscribeEvents, Receive, Unplug, Overwrite, vars
  <2> QED
    BY <1>3, <2>1 DEF Launched
<1> QED
    BY <1>2, <1>5, <1>6, <1>7, <1>8 DEF Next

\* A broadcast moves one event on; its stage stays.
LEMMA BroadcastOfPending ==
    ASSUME TypeOK, PublisherInv, NEW p \in Callers, Broadcast(p)
    PROVE  /\ pending[p] # NoEvent
           /\ \A q \in Callers \ {p} : pending'[q] = pending[q]
           /\ \/ pending'[p] = NoEvent
              \/ /\ pending'[p] # NoEvent
                 /\ pending'[p].stage = pending[p].stage
                 /\ pending'[p].seq <= sequence'
                 /\ pending'[p].seq > 0
           /\ sequence' \in Nat /\ sequence <= sequence'
           /\ UNCHANGED <<state, pc>>
<1>0. pending \in [Callers -> Pending] /\ sequence \in Nat /\ pending[p].seq <= sequence
    BY DEF TypeOK, PublisherInv
<1>1. CASE Stamp(p)
  <2>1. pending[p] \in [stage : Stages, seq : Nat, full : SUBSET Subscribers]
    BY <1>1, PendingFields DEF Stamp
  <2>2. /\ pending'[p].stage = pending[p].stage
        /\ pending'[p].seq = sequence + 1 /\ sequence' = sequence + 1
    BY <1>0, <1>1, <2>1 DEF Stamp, NextNumber
  <2> QED
    BY <1>0, <1>1, <2>2 DEF Stamp, handleVars, NoEvent
<1>2. CASE Deliver(p)
  <2> DEFINE full == {s \in subscribed : Len(channel[s]) = Capacity}
  <2>0. pending[p].seq > 0 /\ pending[p] # NoEvent
    BY <1>2 DEF Deliver, NoEvent
  <2>1. pending[p] \in [stage : Stages, seq : Nat, full : SUBSET Subscribers]
    BY <2>0, PendingFields
  <2>2. pending' = [pending EXCEPT ![p] = IF full = {} THEN NoEvent
                                                      ELSE [pending[p] EXCEPT !.full = full]]
    BY <1>2 DEF Deliver
  <2>3. CASE full = {}
    BY <1>0, <1>2, <2>0, <2>2, <2>3 DEF Deliver, handleVars
  <2>4. CASE full # {}
    <3>1. pending'[p] = [pending[p] EXCEPT !.full = full]
      BY <1>0, <2>2, <2>4
    <3>2. pending'[p].stage = pending[p].stage /\ pending'[p].seq = pending[p].seq
      BY <2>1, <3>1
    <3> QED
      BY <1>0, <1>2, <2>0, <2>2, <3>2 DEF Deliver, handleVars, NoEvent
  <2> QED
    BY <2>3, <2>4
<1>3. CASE Evict(p)
    BY <1>0, <1>3 DEF Evict, handleVars, NoEvent
<1> QED
    BY <1>1, <1>2, <1>3 DEF Broadcast

LEMMA PublisherStep ==
    ASSUME TypeOK, VerdictReady, ControlInv, PublisherInv, [Next]_vars
    PROVE  PublisherInv'
<1>0. /\ Starters \subseteq Callers /\ Confirmers \subseteq Callers /\ Cancellers \subseteq Callers
      /\ Publishers \subseteq Callers /\ Callers \subseteq Publishers \cup Confirmers
      /\ Publishers \cap Confirmers = {}
      /\ pending \in [Callers -> Pending] /\ pc \in [Callers -> PCs] /\ sequence \in Nat
      /\ \A p \in Callers : pending[p].seq \in Nat
      /\ Outcomes \subseteq TransferStages
      /\ NoEvent.stage \notin TransferStages /\ NoEvent.seq = 0 /\ NoEvent.full = {}
    BY CallersAssumption, PendingFields
       DEF TypeOK, Callers, Publishers, NoEvent, TransferStages, Stages, Outcomes
<1>same. ASSUME UNCHANGED <<pending, state>>, Launched' = Launched, sequence' \in Nat,
                sequence <= sequence'
         PROVE  PublisherInv'
    BY <1>0, <1>same DEF PublisherInv
<1>1. ASSUME NEW t \in Confirmers, Transfer(t)
      PROVE  PublisherInv'
  <2>0. /\ pending[t] = NoEvent /\ state = "Running" /\ state \notin Terminal
        /\ t \in Launched /\ Launched' = Launched
        /\ \A u \in Launched : u = t
        /\ sequence' = sequence
    BY <1>0, <1>1, TransferIsAlone
       DEF Launched, Working, Terminal, taskFrame, eventVars, Finalize
  <2>1. \A q \in Callers : pending[q].stage \notin TransferStages
    BY <1>0, <2>0 DEF PublisherInv
  <2>2. \A u \in Confirmers \ {t} : pending[u] = NoEvent
    BY <2>0 DEF PublisherInv
  <2>3. CASE pending' = pending /\ ~Finalize(t)
    <3>1. UNCHANGED state
      BY <1>1, <2>3, TransferIsAlone DEF taskFrame, handleVars
    <3> QED
      BY <1>0, <1>same, <2>0, <2>3, <3>1
  <2>4. ASSUME NEW stage \in TransferStages, Publish(t, stage),
               stage \in Outcomes <=> state' \in Terminal
        PROVE  PublisherInv'
    <3>1. /\ pending'[t] = NewEvent(stage)
          /\ \A q \in Callers \ {t} : pending'[q] = pending[q]
      BY <1>0, <2>4 DEF Publish, NewEvent
    <3> QED
      BY <1>0, <2>0, <2>1, <2>2, <2>4, <3>1 DEF PublisherInv, NewEvent
  <2>5. ~Finalize(t) => state' \notin Terminal
    BY <1>1, <2>0, TransferIsAlone DEF taskFrame, handleVars
  <2> QED
    BY <1>0, <1>1, <2>3, <2>4, <2>5, TransferPublishes
<1>2. ASSUME NEW p \in Callers, Broadcast(p)
      PROVE  PublisherInv'
  <2>1. Launched' = Launched
    BY <1>2, BroadcastOfPending DEF Launched
  <2>2. \A q \in Callers : \/ pending'[q] = NoEvent
                           \/ /\ pending[q] # NoEvent
                              /\ pending'[q].stage = pending[q].stage
                              /\ pending'[q].seq <= sequence'
                              /\ pending'[q].full # {} => pending'[q].seq > 0
    BY <1>0, <1>2, BroadcastOfPending DEF PublisherInv
  <2> QED
    BY <1>0, <1>2, <2>1, <2>2, BroadcastOfPending DEF PublisherInv
<1>3. CASE PreflightFirmware
  <2>1. Launched' = Launched /\ pending' = pending /\ sequence' = sequence + 1
        /\ state \notin Terminal /\ state' \notin Terminal
    BY <1>3 DEF PreflightFirmware, Launched, Terminal, NextNumber
  <2> QED
    BY <1>0, <2>1 DEF PublisherInv
<1>4. ASSUME NEW p \in Starters, StartFirmware(p)
      PROVE  PublisherInv'
  <2>1. Launched' = Launched /\ sequence' = sequence
    BY <1>0, <1>4, CallersAssumption DEF StartFirmware, Launched, Goto, eventVars
  <2>2. CASE UNCHANGED <<state, pending>>
    BY <1>0, <1>same, <2>1, <2>2
  <2>3. CASE /\ state = "Preflight" /\ state' = "AwaitingConfirmation"
             /\ Publish(p, "awaiting_confirmation")
    <3>1. /\ pending'[p] = NewEvent("awaiting_confirmation")
          /\ \A q \in Callers \ {p} : pending'[q] = pending[q]
          /\ "awaiting_confirmation" \notin TransferStages
          /\ state \notin Terminal /\ state' \notin Terminal
      BY <1>0, <2>3 DEF Publish, NewEvent, TransferStages, Terminal
    <3>2. p \in Publishers
      BY DEF Publishers
    <3> QED
      BY <1>0, <2>1, <3>1, <3>2 DEF PublisherInv, NewEvent
  <2> QED
    BY <1>4, <2>2, <2>3 DEF StartFirmware
<1>5. ASSUME NEW t \in Confirmers, ConfirmFirmware(t)
      PROVE  PublisherInv'
  <2>1. pending' = pending /\ sequence' = sequence
    BY <1>5 DEF ConfirmFirmware, eventVars
  <2>2. CASE UNCHANGED state /\ Goto(t, "refused")
    <3>1. Launched' = Launched
      BY <1>0, <1>5, <2>2 DEF ConfirmFirmware, At, Launched, Goto
    <3> QED
      BY <1>0, <1>same, <2>1, <2>2, <3>1
  <2>3. CASE state = "AwaitingConfirmation" /\ state' = "Running"
    <3>1. state \notin Terminal /\ state' \notin Terminal /\ Launched = {}
      BY <2>3 DEF Terminal, ControlInv
    <3> QED
      BY <1>0, <2>1, <3>1 DEF PublisherInv
  <2> QED
    BY <1>5, <2>2, <2>3 DEF ConfirmFirmware, Confirmable
<1>6. ASSUME NEW c \in Cancellers,
             CancelFirmware(c) \/ CancelDecide(c) \/ PollReport(c) \/ GiveUp(c)
      PROVE  PublisherInv'
  <2>1. Launched' = Launched /\ sequence' = sequence
    BY <1>0, <1>6, CallersAssumption
       DEF CancelFirmware, CancelDecide, PollReport, GiveUp, Launched, Goto, eventVars
  <2>2. CASE UNCHANGED <<state, pending>>
    BY <1>0, <1>same, <2>1, <2>2
  <2>3. CASE CancelFirmware(c) /\ Publish(c, "cancel_requested")
    <3>1. /\ pending'[c] = NewEvent("cancel_requested")
          /\ \A q \in Callers \ {c} : pending'[q] = pending[q]
          /\ "cancel_requested" \notin TransferStages
          /\ state' = state
      BY <1>0, <2>3 DEF CancelFirmware, Publish, NewEvent, TransferStages, handleVars
    <3>2. c \in Publishers
      BY DEF Publishers
    <3> QED
      BY <1>0, <2>1, <3>1, <3>2 DEF PublisherInv, NewEvent
  <2>4. CASE CancelDecide(c) /\ BeforeTransfer
    <3>1. /\ pending'[c] = NewEvent("Cancelled") /\ state' = "Cancelled"
          /\ \A q \in Callers \ {c} : pending'[q] = pending[q]
      BY <1>0, <2>4 DEF CancelDecide, Publish, NewEvent
    <3>2. state' \in Terminal /\ Launched = {} /\ state \notin Terminal
      BY <2>4, <3>1 DEF BeforeTransfer, Terminal, ControlInv
    <3>3. c \in Publishers /\ "Cancelled" \in TransferStages
      BY DEF Publishers, TransferStages, Stages, Outcomes
    <3>4. /\ \A q \in Callers : pending[q].stage \notin TransferStages
          /\ \A t \in Confirmers : pending[t] = NoEvent
      BY <1>0, <3>2 DEF PublisherInv
    <3> QED
      BY <1>0, <2>1, <3>1, <3>2, <3>3, <3>4 DEF PublisherInv, NewEvent
  <2> QED
    BY <1>6, <2>2, <2>3, <2>4 DEF CancelFirmware, CancelDecide, PollReport, GiveUp, handleVars
<1>7. CASE \/ \E s \in Subscribers : SubscribeEvents(s) \/ Receive(s)
           \/ Unplug
           \/ Overwrite
           \/ UNCHANGED vars
  <2>1. UNCHANGED <<pending, state, sequence, pc>>
    BY <1>7 DEF SubscribeEvents, Receive, Unplug, Overwrite, vars, handleVars, eventVars
  <2>2. Launched' = Launched
    BY <2>1 DEF Launched
  <2> QED
    BY <1>0, <1>same, <2>1, <2>2
<1> QED
    BY <1>1, <1>2, <1>3, <1>4, <1>5, <1>6, <1>7 DEF Next

-----------------------------------------------------------------------------
(* Queues.                                                                 *)

LEMMA QueueAppend ==
    ASSUME NEW queue \in Seq(Event), NEW event \in Event
    PROVE  /\ Append(queue, event) \in Seq(Event)
           /\ Len(Append(queue, event)) = Len(queue) + 1
           /\ DOMAIN queue = 1..Len(queue) /\ Len(queue) \in Nat
           /\ DOMAIN Append(queue, event) = 1..(Len(queue) + 1)
           /\ \A i \in 1..Len(queue) : Append(queue, event)[i] = queue[i]
           /\ Append(queue, event)[Len(queue) + 1] = event
OBVIOUS

LEMMA QueueTail ==
    ASSUME NEW queue \in Seq(Event), queue # <<>>
    PROVE  /\ Tail(queue) \in Seq(Event)
           /\ Len(Tail(queue)) = Len(queue) - 1
           /\ DOMAIN queue = 1..Len(queue) /\ Len(queue) \in Nat \ {0}
           /\ DOMAIN Tail(queue) = 1..(Len(queue) - 1)
           /\ \A i \in 1..(Len(queue) - 1) : Tail(queue)[i] = queue[i + 1]
           /\ Head(queue) = queue[1]
<1>1. DOMAIN queue = 1..Len(queue) /\ Len(queue) \in Nat \ {0}
    OBVIOUS
<1> QED
    BY <1>1, HeadTailProperties

LEMMA QueueElements ==
    ASSUME NEW queue \in Seq(Event), NEW i \in DOMAIN queue
    PROVE  queue[i] \in Event /\ queue[i].seq \in Nat /\ queue[i].stage \in Stages
<1>1. i \in 1..Len(queue)
    OBVIOUS
<1>2. queue[i] \in Event
    BY <1>1, ElementOfSeq
<1> QED
    BY <1>2 DEF Event

\* Losing the oldest event disturbs no order.
LEMMA TailOrder ==
    ASSUME NEW queue \in Seq(Event), queue # <<>>, NEW n \in Nat
    PROVE  /\ Ordered(queue) => Ordered(Tail(queue))
           /\ Older(queue, n) => Older(Tail(queue), n)
           /\ Numbered(queue, n) => Numbered(Tail(queue), n)
<1>0. \A i \in DOMAIN Tail(queue) : i \in Int /\ i + 1 \in DOMAIN queue /\ Tail(queue)[i] = queue[i + 1]
    BY QueueTail
<1>1. Older(queue, n) => Older(Tail(queue), n)
    BY <1>0 DEF Older
<1>2. Numbered(queue, n) => Numbered(Tail(queue), n)
    BY <1>0 DEF Numbered
<1>3. ASSUME Ordered(queue)
      PROVE  Ordered(Tail(queue))
  <2> SUFFICES ASSUME NEW i \in DOMAIN Tail(queue), NEW j \in DOMAIN Tail(queue), i < j,
                      Tail(queue)[i].stage \in TransferStages,
                      Tail(queue)[j].stage \in TransferStages
               PROVE  Tail(queue)[i].seq < Tail(queue)[j].seq
    BY DEF Ordered
  <2>1. i + 1 < j + 1
    BY <1>0
  <2> QED
    BY <1>0, <1>3, <2>1 DEF Ordered
<1> QED
    BY <1>1, <1>2, <1>3

LEMMA EvictedOrder ==
    ASSUME NEW queue \in Seq(Event), NEW n \in Nat
    PROVE  /\ Evicted(queue) \in Seq(Event)
           /\ Ordered(queue) => Ordered(Evicted(queue))
           /\ Older(queue, n) => Older(Evicted(queue), n)
           /\ Numbered(queue, n) => Numbered(Evicted(queue), n)
BY TailOrder, QueueTail DEF Evicted

\* An event newer than all of the transfer in the queue goes to its end.
LEMMA AppendOrder ==
    ASSUME NEW queue \in Seq(Event), NEW event \in Event, NEW n \in Nat
    PROVE  /\ Ordered(queue) /\ (event.stage \in TransferStages => Older(queue, event.seq))
                => Ordered(Append(queue, event))
           /\ Older(queue, n) /\ event.stage \notin TransferStages => Older(Append(queue, event), n)
           /\ Numbered(queue, n) /\ event.seq <= n => Numbered(Append(queue, event), n)
BY QueueAppend DEF Ordered, Older, Numbered

LEMMA QueueStep ==
    ASSUME TypeOK, VerdictReady, ControlInv, PublisherInv, QueueInv, [Next]_vars
    PROVE  QueueInv'
<1>0. /\ channel \in [Subscribers -> Seq(Event)] /\ sequence \in Nat
      /\ pending \in [Callers -> Pending]
      /\ \A p \in Callers : pending[p].seq \in Nat
      /\ NoEvent.stage \notin TransferStages
    BY PendingFields DEF TypeOK, NoEvent, TransferStages, Stages, Outcomes
<1>1. ASSUME channel' = channel, sequence' \in Nat, sequence <= sequence',
             \A p \in Callers : \/ pending'[p] = pending[p]
                                \/ pending'[p].stage \notin TransferStages
                                \/ pending'[p].seq = 0
      PROVE  QueueInv'
  <2>1. \A s \in Subscribers : Ordered(channel'[s]) /\ Numbered(channel'[s], sequence')
    <3> SUFFICES ASSUME NEW s \in Subscribers
                 PROVE  Numbered(channel'[s], sequence')
      BY <1>1 DEF QueueInv
    <3>1. \A i \in DOMAIN channel[s] : channel[s][i].seq \in Nat
      BY <1>0, QueueElements
    <3> QED
      BY <1>0, <1>1, <3>1 DEF QueueInv, Numbered
  <2>2. ASSUME NEW p \in Callers, pending'[p].stage \in TransferStages, pending'[p].seq > 0,
               NEW s \in Subscribers, pending'[p].full = {} \/ s \in pending'[p].full
        PROVE  Older(channel'[s], pending'[p].seq)
    BY <1>1, <2>2 DEF QueueInv
  <2> QED
    BY <2>1, <2>2 DEF QueueInv
<1>2. ASSUME NEW p \in Callers, Stamp(p)
      PROVE  QueueInv'
  <2>1. /\ pending[p] \in [stage : Stages, seq : Nat, full : SUBSET Subscribers]
        /\ sequence' = sequence + 1 /\ channel' = channel
        /\ pending' = [pending EXCEPT ![p].seq = sequence + 1]
    BY <1>2, PendingFields DEF Stamp, NextNumber
  <2>2. /\ pending'[p].seq = sequence + 1 /\ pending'[p].stage = pending[p].stage
        /\ \A q \in Callers \ {p} : pending'[q] = pending[q]
    BY <1>0, <2>1
  <2>3. \A s \in Subscribers : Older(channel[s], sequence + 1) /\ Numbered(channel'[s], sequence')
    <3> SUFFICES ASSUME NEW s \in Subscribers
                 PROVE  Older(channel[s], sequence + 1) /\ Numbered(channel'[s], sequence')
      OBVIOUS
    <3>1. \A i \in DOMAIN channel[s] : channel[s][i].seq \in Nat
      BY <1>0, QueueElements
    <3> QED
      BY <1>0, <2>1, <3>1 DEF QueueInv, Numbered, Older
  <2> QED
    BY <1>0, <2>1, <2>2, <2>3 DEF QueueInv
<1>3. ASSUME NEW p \in Callers, Deliver(p)
      PROVE  QueueInv'
  <2> DEFINE event == [stage |-> pending[p].stage, seq |-> pending[p].seq]
             full == {s \in subscribed : Len(channel[s]) = Capacity}
  <2>0. /\ pending[p] \in [stage : Stages, seq : Nat, full : SUBSET Subscribers]
        /\ event \in Event /\ event.seq <= sequence
        /\ \A q \in Callers : pending[q].full = {}
        /\ event.seq > 0
        /\ sequence' = sequence
    BY <1>3, PendingFields DEF Deliver, NoEvent, Event, PublisherInv, BroadcasterFree
  <2>1. /\ \A s \in Subscribers : \/ s \in subscribed \ full /\ channel'[s] = Append(channel[s], event)
                                  \/ s \notin subscribed \ full /\ channel'[s] = channel[s]
        /\ \A q \in Callers \ {p} : pending'[q] = pending[q]
        /\ pending'[p] = NoEvent \/ pending'[p] = [pending[p] EXCEPT !.full = full]
    BY <1>0, <1>3 DEF Deliver
  <2>2. event.stage \in TransferStages =>
           /\ \A s \in Subscribers : Older(channel[s], event.seq)
           /\ \A q \in Callers \ {p} : pending[q].stage \notin TransferStages
    BY <1>0, <2>0 DEF QueueInv, PublisherInv
  <2>3. ASSUME NEW s \in Subscribers
        PROVE  Ordered(channel'[s]) /\ Numbered(channel'[s], sequence')
    <3>1. Ordered(channel[s]) /\ Numbered(channel[s], sequence) /\ channel[s] \in Seq(Event)
      BY <1>0 DEF QueueInv
    <3>2. event.stage \in TransferStages => Older(channel[s], event.seq)
      BY <2>2
    <3>3. Ordered(channel'[s]) /\ Numbered(channel'[s], sequence)
      <4> HIDE DEF event, full
      <4>1. /\ Ordered(Append(channel[s], event))
            /\ Numbered(Append(channel[s], event), sequence)
        BY <1>0, <2>0, <3>1, <3>2, AppendOrder
      <4> QED
        BY <2>1, <3>1, <4>1
    <3> QED
      BY <2>0, <3>3
  <2>4. ASSUME NEW q \in Callers \ {p}, pending[q].stage \in TransferStages, pending[q].seq > 0,
               NEW s \in Subscribers
        PROVE  Older(channel'[s], pending[q].seq)
    <3>1. event.stage \notin TransferStages /\ Older(channel[s], pending[q].seq)
      BY <2>0, <2>2, <2>4 DEF QueueInv
    <3>2. channel[s] \in Seq(Event) /\ pending[q].seq \in Nat
      BY <1>0
    <3> HIDE DEF event, full
    <3> QED
      BY <2>0, <2>1, <3>1, <3>2, AppendOrder
  <2>5. ASSUME pending'[p].stage \in TransferStages, NEW s \in Subscribers,
               pending'[p].full = {} \/ s \in pending'[p].full, pending'[p].seq > 0
        PROVE  Older(channel'[s], pending'[p].seq)
    <3>1. pending'[p] = [pending[p] EXCEPT !.full = full]
      BY <1>0, <2>1, <2>5
    <3>2. /\ pending'[p].stage = event.stage /\ pending'[p].seq = event.seq
          /\ pending'[p].full = full
      BY <2>0, <3>1
    <3>3. full # {}
      BY <1>0, <1>3, <2>5 DEF Deliver
    <3> QED
      BY <2>1, <2>2, <2>5, <3>2, <3>3
  <2> QED
    BY <2>1, <2>3, <2>4, <2>5 DEF QueueInv
<1>4. ASSUME NEW p \in Callers, Evict(p)
      PROVE  QueueInv'
  <2> DEFINE event == [stage |-> pending[p].stage, seq |-> pending[p].seq]
             full == pending[p].full
  <2>0. /\ pending[p] \in [stage : Stages, seq : Nat, full : SUBSET Subscribers]
        /\ event \in Event /\ event.seq <= sequence /\ event.seq > 0
        /\ sequence' = sequence
    BY <1>4, PendingFields DEF Evict, NoEvent, Event, PublisherInv
  <2>1. /\ \A s \in Subscribers : \/ s \in full /\ channel'[s] = Append(Evicted(channel[s]), event)
                                  \/ s \notin full /\ channel'[s] = channel[s]
        /\ \A q \in Callers \ {p} : pending'[q] = pending[q]
        /\ pending'[p] = NoEvent
    BY <1>0, <1>4 DEF Evict
  <2>2. event.stage \in TransferStages =>
           /\ \A s \in full : Older(channel[s], event.seq)
           /\ \A q \in Callers \ {p} : pending[q].stage \notin TransferStages
    BY <1>0, <2>0 DEF QueueInv, PublisherInv
  <2>3. ASSUME NEW s \in Subscribers
        PROVE  Ordered(channel'[s]) /\ Numbered(channel'[s], sequence')
    <3>1. Ordered(channel[s]) /\ Numbered(channel[s], sequence) /\ channel[s] \in Seq(Event)
      BY <1>0 DEF QueueInv
    <3>2. event.stage \in TransferStages /\ s \in full => Older(channel[s], event.seq)
      BY <2>2
    <3>3. Ordered(channel'[s]) /\ Numbered(channel'[s], sequence)
      <4>0. event.seq \in Nat
        BY <2>0
      <4> HIDE DEF event, full
      <4> DEFINE kept == Evicted(channel[s])
      <4>1. /\ kept \in Seq(Event) /\ Ordered(kept) /\ Numbered(kept, sequence)
            /\ event.stage \in TransferStages /\ s \in full => Older(kept, event.seq)
        BY <1>0, <3>1, <3>2, <4>0, EvictedOrder
      <4> HIDE DEF kept
      <4>2. s \in full => Ordered(Append(kept, event)) /\ Numbered(Append(kept, event), sequence)
        BY <1>0, <2>0, <4>1, AppendOrder
      <4> QED
        BY <2>1, <3>1, <4>2 DEF kept
    <3> QED
      BY <2>0, <3>3
  <2>4. ASSUME NEW q \in Callers \ {p}, pending[q].stage \in TransferStages, pending[q].seq > 0,
               NEW s \in Subscribers, pending[q].full = {} \/ s \in pending[q].full
        PROVE  Older(channel'[s], pending[q].seq)
    <3>1. event.stage \notin TransferStages /\ Older(channel[s], pending[q].seq)
      BY <2>0, <2>2, <2>4 DEF QueueInv
    <3>2. channel[s] \in Seq(Event) /\ pending[q].seq \in Nat
      BY <1>0
    <3> HIDE DEF event, full
    <3> QED
      BY <1>0, <2>0, <2>1, <3>1, <3>2, EvictedOrder, AppendOrder
  <2> QED
    BY <1>0, <2>1, <2>3, <2>4 DEF QueueInv
<1>5. ASSUME NEW s0 \in Subscribers, Receive(s0)
      PROVE  QueueInv'
  <2>0. /\ channel[s0] \in Seq(Event) /\ channel[s0] # <<>>
        /\ channel' = [channel EXCEPT ![s0] = Tail(channel[s0])]
        /\ UNCHANGED <<pending, sequence>>
    BY <1>0, <1>5 DEF Receive
  <2>1. ASSUME NEW s \in Subscribers
        PROVE  /\ Ordered(channel'[s]) /\ Numbered(channel'[s], sequence)
               /\ \A n \in Nat : Older(channel[s], n) => Older(channel'[s], n)
    <3>1. Ordered(channel[s]) /\ Numbered(channel[s], sequence)
      BY DEF QueueInv
    <3> QED
      BY <1>0, <2>0, <3>1, TailOrder
  <2>2. \A s \in Subscribers : Numbered(channel'[s], sequence')
    BY <2>0, <2>1 DEF Numbered
  <2> QED
    BY <1>0, <2>0, <2>1, <2>2 DEF QueueInv
<1>6. ASSUME NEW p \in Callers, NEW stage, Publish(p, stage), UNCHANGED <<channel, sequence>>
      PROVE  QueueInv'
  <2>1. pending'[p].seq = 0 /\ \A q \in Callers \ {p} : pending'[q] = pending[q]
    BY <1>0, <1>6 DEF Publish
  <2> QED
    BY <1>0, <1>1, <1>6, <2>1
<1>7. ASSUME NEW t \in Confirmers, Transfer(t)
      PROVE  QueueInv'
  <2>1. UNCHANGED <<channel, sequence>> /\ t \in Callers
    BY <1>7, TransferIsAlone DEF Finalize, taskFrame, eventVars, Callers
  <2> QED
    BY <1>0, <1>1, <1>6, <1>7, <2>1, TransferPublishes
<1>8. CASE \/ \E p \in Starters : StartFirmware(p)
           \/ \E t \in Confirmers : ConfirmFirmware(t)
           \/ \E c \in Cancellers :
                CancelFirmware(c) \/ CancelDecide(c) \/ PollReport(c) \/ GiveUp(c)
  <2>1. UNCHANGED <<channel, sequence>>
    BY <1>8 DEF StartFirmware, ConfirmFirmware, CancelFirmware, CancelDecide, PollReport, GiveUp,
        eventVars
  <2>2. \/ pending' = pending
        \/ \E p \in Callers, stage \in Stages : Publish(p, stage)
    BY <1>8 DEF StartFirmware, ConfirmFirmware, CancelFirmware, CancelDecide, PollReport, GiveUp,
        Callers, Stages, Outcomes
  <2> QED
    BY <1>0, <1>1, <1>6, <2>1, <2>2
<1>9. CASE \/ PreflightFirmware
           \/ \E s \in Subscribers : SubscribeEvents(s)
           \/ Unplug
           \/ Overwrite
           \/ UNCHANGED vars
  <2>1. UNCHANGED <<channel, pending>> /\ sequence' \in {sequence, sequence + 1}
    BY <1>9 DEF PreflightFirmware, NextNumber, SubscribeEvents, Unplug, Overwrite, vars, eventVars
  <2> QED
    BY <1>0, <1>1, <2>1
<1> QED
    BY <1>2, <1>3, <1>4, <1>5, <1>7, <1>8, <1>9 DEF Next, Broadcast

-----------------------------------------------------------------------------
(* The end stays in the queue.                                             *)

LEMMA BehindIsFinite ==
    ASSUME NEW S \in SUBSET Publishers
    PROVE  /\ IsFiniteSet(S) /\ Cardinality(S) \in Nat
           /\ Cardinality(Publishers) \in Nat /\ Capacity \in Nat
           /\ Cardinality(S) <= Cardinality(Publishers)
           /\ Cardinality(Publishers) < Capacity
           /\ \A p \in S : Cardinality(S \ {p}) = Cardinality(S) - 1
<1>1. IsFiniteSet(Publishers) /\ Capacity \in Nat /\ Capacity > Cardinality(Publishers)
    BY CapacityAssumption DEF Publishers
<1>2. IsFiniteSet(S) /\ Cardinality(S) <= Cardinality(Publishers)
    BY <1>1, FS_Subset
<1>3. Cardinality(S) \in Nat /\ Cardinality(Publishers) \in Nat
    BY <1>1, <1>2, FS_CardinalityType
<1>4. \A p \in S : Cardinality(S \ {p}) = Cardinality(S) - 1
    BY <1>2, FS_RemoveElement
<1> QED
    BY <1>1, <1>2, <1>3, <1>4

\* An end that was just queued has room for all that may still come.
LEMMA FreshEnd ==
    ASSUME TypeOK', NEW s \in Subscribers, NEW queue \in Seq(Event), NEW event \in Event,
           event.stage \in Outcomes, channel'[s] = Append(queue, event)
    PROVE  Holds(s)'
<1>1. /\ Len(queue) + 1 \in DOMAIN channel'[s]
      /\ channel'[s][Len(queue) + 1] = event
      /\ Len(channel'[s]) = Len(queue) + 1 /\ Len(queue) \in Nat
    BY QueueAppend
<1>2. Cardinality(Behind(s)') <= Cardinality(Publishers) /\ Cardinality(Behind(s)') \in Nat
  <2>1. Behind(s)' \in SUBSET Publishers
    BY DEF Behind
  <2> QED
    BY <2>1, BehindIsFinite
<1>3. Cardinality(Behind(s))' = Cardinality(Behind(s)')
    OBVIOUS
<1> QED
    BY <1>1, <1>2, <1>3, BehindIsFinite DEF Holds

LEMMA KeptByDeliver ==
    ASSUME TypeOK, TypeOK', PublisherInv, KeptInv, NEW p \in Callers, Deliver(p)
    PROVE  KeptInv'
<1> DEFINE event == [stage |-> pending[p].stage, seq |-> pending[p].seq]
           full == {s \in subscribed : Len(channel[s]) = Capacity}
<1>0. /\ channel \in [Subscribers -> Seq(Event)] /\ pending \in [Callers -> Pending]
      /\ subscribed \in SUBSET Subscribers
      /\ pending[p] \in [stage : Stages, seq : Nat, full : SUBSET Subscribers]
      /\ pending[p] # NoEvent
      /\ event \in Event
      /\ \A q \in Callers : pending[q].full = {}
      /\ UNCHANGED <<state, subscribed, heard, raced>>
  <2>1. channel \in [Subscribers -> Seq(Event)] /\ subscribed \in SUBSET Subscribers
    BY DEF TypeOK
  <2>2. pending[p] # NoEvent
    BY DEF Deliver, NoEvent
  <2>3. pending[p] \in [stage : Stages, seq : Nat, full : SUBSET Subscribers]
    BY <2>2, PendingFields
  <2>4. event \in Event
    BY <2>3 DEF Event
  <2>5. (\A q \in Callers : pending[q].full = {}) /\ UNCHANGED <<state, subscribed, heard, raced>>
    BY DEF Deliver, BroadcasterFree, handleVars
  <2> QED
    BY <2>1, <2>2, <2>3, <2>4, <2>5, PendingFields
<1>1. /\ \A s \in Subscribers : \/ s \in subscribed \ full /\ channel'[s] = Append(channel[s], event)
                                \/ s \notin subscribed \ full /\ channel'[s] = channel[s]
      /\ \A q \in Callers \ {p} : pending'[q] = pending[q]
      /\ pending'[p] = IF full = {} THEN NoEvent ELSE [pending[p] EXCEPT !.full = full]
    BY <1>0 DEF Deliver
<1>2. full # {} => pending'[p].stage = pending[p].stage /\ pending'[p].full = full
                     /\ pending'[p] # NoEvent
    BY <1>0, <1>1 DEF NoEvent
<1>3. CASE event.stage \in Outcomes
  <2>1. owed' = subscribed /\ state \in Terminal
    BY <1>3 DEF Deliver, PublisherInv
  <2>2. ASSUME NEW s \in subscribed
        PROVE  Holds(s)' \/ Evicting(s)'
    <3>1. CASE s \in full
      BY <1>2, <1>3, <3>1 DEF Evicting
    <3>2. CASE s \notin full
      <4>1. channel'[s] = Append(channel[s], event) /\ channel[s] \in Seq(Event) /\ s \in Subscribers
        BY <1>0, <1>1, <2>2, <3>2
      <4> HIDE DEF event
      <4> QED
        BY <1>0, <1>3, <4>1, FreshEnd
    <3> QED
      BY <3>1, <3>2
  <2> QED
    BY <1>0, <2>1, <2>2 DEF KeptInv
<1>4. CASE event.stage \notin Outcomes
  <2>1. owed' = owed
    BY <1>4 DEF Deliver
  <2>2. ASSUME NEW s \in owed \ (heard \cup raced)
        PROVE  Holds(s)'
    <3>1. /\ state \in Terminal /\ s \in subscribed /\ s \in Subscribers /\ Holds(s)
          /\ p \in Publishers
      BY <1>0, <1>4, <2>2 DEF KeptInv, Evicting, PublisherInv, Callers, Publishers
    <3>2. PICK i \in DOMAIN channel[s] :
            /\ channel[s][i].stage \in Outcomes
            /\ Len(channel[s]) - i + Cardinality(Behind(s)) <= Cardinality(Publishers)
      BY <3>1 DEF Holds
    <3>3. /\ channel[s] \in Seq(Event) /\ i \in 1..Len(channel[s]) /\ Len(channel[s]) \in Nat
      BY <1>0, <3>1, <3>2
    <3>4. p \in Behind(s) /\ Behind(s) \in SUBSET Publishers /\ Publishers \subseteq Callers
      BY <1>0, <3>1 DEF Behind, Publishers, Callers
    <3>5. CASE s \in full
      <4>1. channel'[s] = channel[s] /\ Behind(s)' = Behind(s)
        BY <1>0, <1>1, <1>2, <3>1, <3>4, <3>5 DEF Behind
      <4> QED
        BY <3>2, <4>1 DEF Holds
    <3>6. CASE s \notin full
      <4>1. Behind(s)' = Behind(s) \ {p}
        BY <1>0, <1>1, <1>2, <3>4, <3>6 DEF Behind, NoEvent
      <4>2. Cardinality(Behind(s)') = Cardinality(Behind(s)) - 1 /\ Cardinality(Behind(s)) \in Nat
        BY <3>4, <4>1, BehindIsFinite
      <4>3. channel'[s] = Append(channel[s], event)
        BY <1>1, <3>1, <3>6
      <4>4. /\ i \in DOMAIN channel'[s] /\ channel'[s][i] = channel[s][i]
            /\ Len(channel'[s]) = Len(channel[s]) + 1
        <5> HIDE DEF event
        <5> QED BY <1>0, <3>3, <4>3, QueueAppend
      <4>5. Len(channel'[s]) - i + Cardinality(Behind(s)') <= Cardinality(Publishers)
        BY <3>2, <3>3, <4>2, <4>4, BehindIsFinite
      <4> QED
        BY <3>2, <4>4, <4>5 DEF Holds
    <3> QED
      BY <3>5, <3>6
  <2> QED
    BY <1>0, <2>1, <2>2 DEF KeptInv
<1> QED
    BY <1>3, <1>4

LEMMA KeptByEvict ==
    ASSUME TypeOK, TypeOK', PublisherInv, KeptInv, NEW p \in Callers, Evict(p)
    PROVE  KeptInv'
<1> DEFINE event == [stage |-> pending[p].stage, seq |-> pending[p].seq]
           full == pending[p].full
<1>0. /\ channel \in [Subscribers -> Seq(Event)] /\ pending \in [Callers -> Pending]
      /\ subscribed \in SUBSET Subscribers
      /\ pending[p] \in [stage : Stages, seq : Nat, full : SUBSET Subscribers]
      /\ pending[p] # NoEvent /\ full # {}
      /\ event \in Event
      /\ UNCHANGED <<state, subscribed, heard, owed>>
      /\ raced' = raced \cup {s \in full : Len(channel[s]) < Capacity}
  <2>1. channel \in [Subscribers -> Seq(Event)] /\ subscribed \in SUBSET Subscribers
    BY DEF TypeOK
  <2>2. pending[p] # NoEvent /\ full # {}
    BY DEF Evict, NoEvent
  <2>3. pending[p] \in [stage : Stages, seq : Nat, full : SUBSET Subscribers]
    BY <2>2, PendingFields
  <2>4. event \in Event
    BY <2>3 DEF Event
  <2>5. /\ UNCHANGED <<state, subscribed, heard, owed>>
        /\ raced' = raced \cup {s \in full : Len(channel[s]) < Capacity}
    BY DEF Evict, handleVars
  <2> QED
    BY <2>1, <2>2, <2>3, <2>4, <2>5, PendingFields
<1>1. /\ \A s \in Subscribers : \/ s \in full /\ channel'[s] = Append(Evicted(channel[s]), event)
                                \/ s \notin full /\ channel'[s] = channel[s]
      /\ \A q \in Callers \ {p} : pending'[q] = pending[q]
      /\ pending'[p] = NoEvent
    BY <1>0 DEF Evict
<1>2. ASSUME NEW s \in owed \ (heard \cup raced)', s \notin full
      PROVE  Holds(s)' \/ Evicting(s)'
  <2>1. s \in Subscribers /\ s \in owed \ (heard \cup raced) /\ channel'[s] = channel[s]
    BY <1>0, <1>1, <1>2 DEF KeptInv
  <2>2. Behind(s)' = Behind(s)
    BY <1>0, <1>1, <1>2 DEF Behind, Publishers, Callers, NoEvent
  <2>3. Holds(s) => Holds(s)'
    BY <2>1, <2>2 DEF Holds
  <2>4. Evicting(s) => Evicting(s)'
    BY <1>1, <1>2 DEF Evicting
  <2> QED
    BY <2>1, <2>3, <2>4 DEF KeptInv
<1>3. ASSUME NEW s \in owed \ (heard \cup raced)', s \in full
      PROVE  Holds(s)' \/ Evicting(s)'
  <2>1. /\ s \in Subscribers /\ s \in owed \ (heard \cup raced)
        /\ channel[s] \in Seq(Event)
        /\ channel'[s] = Append(Evicted(channel[s]), event)
        /\ ~(Len(channel[s]) < Capacity)
        /\ state \in Terminal
    BY <1>0, <1>1, <1>3 DEF KeptInv
  <2>2. CASE event.stage \in Outcomes
    <3>1. Evicted(channel[s]) \in Seq(Event)
      BY <2>1, QueueTail DEF Evicted
    <3> HIDE DEF event
    <3> QED
      BY <1>0, <2>1, <2>2, <3>1, FreshEnd
  <2>3. CASE event.stage \notin Outcomes /\ Evicting(s)
    BY <1>1, <2>3 DEF Evicting
  <2>4. CASE event.stage \notin Outcomes /\ Holds(s)
    <3>1. PICK i \in DOMAIN channel[s] :
            /\ channel[s][i].stage \in Outcomes
            /\ Len(channel[s]) - i + Cardinality(Behind(s)) <= Cardinality(Publishers)
      BY <2>4 DEF Holds
    <3>2. p \in Publishers
      BY <1>0, <2>1, <2>4 DEF PublisherInv, Callers, Publishers
    <3>3. p \in Behind(s) /\ Behind(s) \in SUBSET Publishers /\ Publishers \subseteq Callers
      BY <1>0, <1>3, <3>2 DEF Behind, Publishers, Callers
    <3>4. /\ Cardinality(Behind(s)) \in Nat /\ Cardinality(Behind(s) \ {p}) \in Nat
          /\ Cardinality(Behind(s) \ {p}) = Cardinality(Behind(s)) - 1
          /\ Cardinality(Publishers) \in Nat /\ Capacity \in Nat
          /\ Cardinality(Publishers) < Capacity
      BY <3>3, BehindIsFinite
    <3>5. i \in 1..Len(channel[s]) /\ Len(channel[s]) \in Nat /\ channel[s] # <<>>
      BY <2>1, <3>1
    <3>6. i > 1
      BY <2>1, <3>1, <3>4, <3>5
    <3> DEFINE kept == Tail(channel[s])
    <3>7. /\ kept \in Seq(Event) /\ Len(kept) = Len(channel[s]) - 1
          /\ i - 1 \in 1..Len(kept) /\ kept[i - 1] = channel[s][i]
      BY <2>1, <3>5, <3>6, QueueTail
    <3>8. channel'[s] = Append(kept, event)
      BY <2>1, <3>5 DEF Evicted
    <3>9. /\ i - 1 \in DOMAIN channel'[s] /\ channel'[s][i - 1] = channel[s][i]
          /\ Len(channel'[s]) = Len(channel[s])
      <4> HIDE DEF event, kept
      <4> QED BY <1>0, <3>5, <3>7, <3>8, QueueAppend
    <3>10. Behind(s)' = Behind(s) \ {p}
      BY <1>1, <3>3 DEF Behind, NoEvent
    <3>11. Len(channel'[s]) - (i - 1) + Cardinality(Behind(s)') <= Cardinality(Publishers)
      BY <3>1, <3>4, <3>5, <3>9, <3>10
    <3> QED
      BY <3>1, <3>9, <3>11 DEF Holds
  <2> QED
    BY <2>1, <2>2, <2>3, <2>4 DEF KeptInv
<1> QED
    BY <1>0, <1>2, <1>3 DEF KeptInv

LEMMA KeptByReceive ==
    ASSUME TypeOK, KeptInv, NEW s0 \in Subscribers, Receive(s0)
    PROVE  KeptInv'
<1>0. /\ channel \in [Subscribers -> Seq(Event)]
      /\ channel' = [channel EXCEPT ![s0] = Tail(channel[s0])] /\ channel[s0] # <<>>
      /\ heard' = IF Head(channel[s0]).stage \in Outcomes THEN heard \cup {s0} ELSE heard
      /\ UNCHANGED <<state, pending, subscribed, owed, raced>>
      /\ subscribed \in SUBSET Subscribers
    BY DEF Receive, TypeOK, handleVars
<1>1. ASSUME NEW s \in owed \ (heard \cup raced)'
      PROVE  Holds(s)' \/ Evicting(s)'
  <2>1. s \in owed \ (heard \cup raced) /\ s \in Subscribers
    BY <1>0, <1>1 DEF KeptInv
  <2>2. Behind(s)' = Behind(s)
    BY <1>0 DEF Behind
  <2>3. CASE Evicting(s)
    BY <1>0, <2>3 DEF Evicting
  <2>4. CASE Holds(s) /\ s # s0
    BY <1>0, <2>1, <2>2, <2>4 DEF Holds
  <2>5. CASE Holds(s) /\ s = s0
    <3>1. PICK i \in DOMAIN channel[s] :
            /\ channel[s][i].stage \in Outcomes
            /\ Len(channel[s]) - i + Cardinality(Behind(s)) <= Cardinality(Publishers)
      BY <2>5 DEF Holds
    <3> DEFINE queue == channel[s]
    <3>2. queue \in Seq(Event) /\ queue # <<>> /\ channel'[s] = Tail(queue) /\ i \in DOMAIN queue
      BY <1>0, <2>1, <2>5
    <3>3. Head(queue).stage \notin Outcomes
      BY <1>0, <1>1, <2>5
    <3>4. /\ Len(Tail(queue)) = Len(queue) - 1 /\ Len(queue) \in Nat
          /\ i \in 1..Len(queue) /\ i # 1
          /\ i - 1 \in DOMAIN Tail(queue) /\ Tail(queue)[i - 1] = queue[i]
      <4> HIDE DEF queue
      <4>1. /\ DOMAIN queue = 1..Len(queue) /\ Len(queue) \in Nat \ {0} /\ Head(queue) = queue[1]
            /\ Len(Tail(queue)) = Len(queue) - 1
            /\ DOMAIN Tail(queue) = 1..(Len(queue) - 1)
            /\ \A k \in 1..(Len(queue) - 1) : Tail(queue)[k] = queue[k + 1]
        BY <3>2, QueueTail
      <4>2. i # 1
        BY <3>1, <3>3, <4>1 DEF queue
      <4> QED
        BY <3>2, <4>1, <4>2
    <3>5. Cardinality(Behind(s)) \in Nat /\ Cardinality(Publishers) \in Nat
      <4>1. Behind(s) \in SUBSET Publishers
        BY DEF Behind
      <4> QED
        BY <4>1, BehindIsFinite
    <3>6. Len(channel'[s]) - (i - 1) + Cardinality(Behind(s)') <= Cardinality(Publishers)
      BY <2>2, <3>1, <3>2, <3>4, <3>5
    <3> QED
      BY <3>1, <3>2, <3>4, <3>6 DEF Holds
  <2> QED
    BY <2>1, <2>3, <2>4, <2>5 DEF KeptInv
<1> QED
    BY <1>0, <1>1 DEF KeptInv

LEMMA KeptStep ==
    ASSUME TypeOK, TypeOK', VerdictReady, ControlInv, PublisherInv, KeptInv, [Next]_vars
    PROVE  KeptInv'
<1>0. subscribed \in SUBSET Subscribers
    BY DEF TypeOK
<1>1. CASE \E p \in Callers : Deliver(p) \/ Evict(p)
    BY <1>1, KeptByDeliver, KeptByEvict
<1>2. CASE \E s \in Subscribers : Receive(s)
    BY <1>2, KeptByReceive
<1>3. CASE /\ \A p \in Callers : ~Deliver(p) /\ ~Evict(p)
           /\ \A s \in Subscribers : ~Receive(s)
  <2>1. UNCHANGED <<channel, heard, owed, raced>> /\ subscribed \subseteq subscribed'
    <3>1. CASE \E t \in Confirmers : Transfer(t)
      BY <3>1, TransferIsAlone DEF taskFrame, eventVars, Finalize
    <3>2. CASE \A t \in Confirmers : ~Transfer(t)
      BY <1>3, <3>2 DEF Next, Broadcast, Stamp, PreflightFirmware, StartFirmware, ConfirmFirmware,
         CancelFirmware, CancelDecide, PollReport, GiveUp, SubscribeEvents, Unplug, Overwrite,
         vars, eventVars
    <3> QED
      BY <3>1, <3>2
  <2>2. CASE owed = {}
    BY <2>1, <2>2 DEF KeptInv
  <2>3. CASE owed # {}
    <3>1. state \in Terminal /\ state' = state
      BY <2>3, OverIsQuiet DEF KeptInv
    <3>2. \/ pending' = pending
          \/ \E p \in Callers : Stamp(p)
      BY <1>3, <3>1, OverIsQuiet DEF Broadcast
    <3>3. \A q \in Callers : /\ pending'[q] # NoEvent <=> pending[q] # NoEvent
                             /\ pending'[q].full = pending[q].full
                             /\ pending'[q].stage = pending[q].stage
      <4>1. ASSUME NEW p \in Callers, Stamp(p)
            PROVE  /\ \A q \in Callers \ {p} : pending'[q] = pending[q]
                   /\ pending'[p] # NoEvent /\ pending[p] # NoEvent
                   /\ pending'[p].full = pending[p].full
                   /\ pending'[p].stage = pending[p].stage
        <5>1. pending[p] \in [stage : Stages, seq : Nat, full : SUBSET Subscribers]
          BY <4>1, PendingFields DEF Stamp
        <5>2. pending' = [pending EXCEPT ![p].seq = sequence + 1] /\ sequence \in Nat
          BY <4>1, PendingFields DEF Stamp, NextNumber
        <5> QED
          BY <4>1, <5>1, <5>2, PendingFields DEF Stamp, NoEvent
      <4> QED
        BY <3>2, <4>1
    <3>4. ASSUME NEW s \in owed \ (heard \cup raced)
          PROVE  Holds(s)' \/ Evicting(s)'
      <4>1. Behind(s)' = Behind(s)
        BY <3>3 DEF Behind, Publishers, Callers
      <4>2. Holds(s) => Holds(s)'
        BY <2>1, <4>1 DEF Holds
      <4>3. Evicting(s) => Evicting(s)'
        BY <3>3 DEF Evicting
      <4> QED
        BY <4>2, <4>3 DEF KeptInv
    <3> QED
      BY <2>1, <3>1, <3>4 DEF KeptInv
  <2> QED
    BY <2>2, <2>3
<1> QED
    BY <1>1, <1>2, <1>3

\* However slow it reads, a subscriber is told that the session is over, or has it in
\* its queue, and is told the events of the transfer in the order they were published.
THEOREM EndIsTold == Spec => []SubscriberIsTold
<1> DEFINE IInv == ControlInv /\ PublisherInv /\ QueueInv /\ KeptInv
<1>1. Init => IInv
  <2> SUFFICES ASSUME Init
               PROVE  IInv
    OBVIOUS
  <2>1. \A p \in Callers : pending[p] = NoEvent
    BY DEF Init
  <2>2. Publishers \subseteq Callers /\ Confirmers \subseteq Callers
    BY DEF Publishers, Callers
  <2>3. PublisherInv
    BY <2>1, <2>2 DEF Init, PublisherInv, NoEvent, TransferStages, Stages, Outcomes
  <2>4. \A s \in Subscribers : Ordered(channel[s]) /\ Numbered(channel[s], sequence)
    BY DEF Init, Ordered, Numbered
  <2>5. QueueInv
    BY <2>1, <2>4 DEF QueueInv, NoEvent
  <2> QED
    BY <2>3, <2>5, ReportInit DEF Init, KeptInv
<1>2. TypeOK /\ TypeOK' /\ VerdictReady /\ IInv /\ [Next]_vars => IInv'
    BY ControlOfTransfer, ControlOfCalls, PublisherStep, QueueStep, KeptStep
<1>3. IInv => SubscriberIsTold
    BY DEF SubscriberIsTold, TerminalKept, TransferEventsInOrder, QueueInv, Ordered, KeptInv,
       Holds, Evicting
<1>4. [](TypeOK /\ VerdictReady) /\ Spec => []IInv
  <2> HIDE DEF IInv
  <2> QED
    BY <1>1, <1>2, PTL DEF Spec
<1> QED
  <2> HIDE DEF IInv
  <2> QED
    BY <1>3, <1>4, TypeCorrect, PTL

-----------------------------------------------------------------------------
(* What a session is to its callers: the steps of FirmwareUpdate.          *)

\* A canceller that has got beyond its first critical section.
Asking(c) == pc[c] \in {"poll", "gave_up", "returned"}
Asked == \E c \in Cancellers : Asking(c)

\* Nobody is cancelled who was not asked to be, and who returned has an answer.
AskInv ==
    /\ \A c \in Cancellers :
         /\ pc[c] \in {"idle", "decide", "poll", "gave_up", "returned"}
         /\ pc[c] = "returned" => answer[c].status \in Outcomes
    /\ cancelRequested => Asked
    /\ \A t \in Confirmers :
         /\ pc[t] = "cancel_exit" => Asked
         /\ pc[t] = "finalize" /\ task[t].verdict.status = "Cancelled" => Asked

\* Where a transfer is led by a cancellation, one was asked for.
LEMMA CancelledByRequest ==
    ASSUME TypeOK, VerdictReady, ControlInv, NEW t \in Confirmers, Transfer(t)
    PROVE  /\ pc'[t] = "cancel_exit" => cancelRequested
           /\ pc'[t] = "finalize" /\ task'[t].verdict.status = "Cancelled" =>
                cancelRequested \/ pc[t] = "cancel_exit"
<1>0. /\ pc \in [Callers -> PCs] /\ t \in Callers /\ task \in [Confirmers -> Task]
      /\ UNCHANGED cancelRequested
    BY TransferIsAlone DEF TypeOK, Callers
<1>1. ASSUME NEW status \in Outcomes, End(t, status)
      PROVE  pc'[t] = "finalize" /\ task'[t].verdict.status = status
    BY <1>0, <1>1 DEF End, Goto, Task
<1>2. \A l, stage : Goto(t, l) \/ Proceed(t, l, stage) => pc'[t] = l
    BY <1>0 DEF Goto, Proceed
<1>3. {"Failed", "Cancelled", "Completed", "CompletedUnverified"} \subseteq Outcomes
    BY DEF Outcomes
<1>4. CASE CheckCancel(t)
    BY <1>2, <1>4 DEF CheckCancel, cancelRequestedNow
<1>5. CASE MockChunk(t)
    BY <1>2, <1>5 DEF MockChunk, cancelRequestedNow
<1>6. CASE CancelRunningTransfer(t)
    BY <1>1, <1>3, <1>6 DEF CancelRunningTransfer, At
<1>7. CASE ReadImage(t) \/ OpenSession(t) \/ EnterBootloader(t) \/ ExitBootloader(t)
    BY <1>1, <1>2, <1>3, <1>7 DEF ReadImage, OpenSession, EnterBootloader, ExitBootloader
<1>8. CASE SendFirmwareChunk(t) \/ FirmwareCommit(t) \/ Finalize(t)
    BY <1>2, <1>8 DEF SendFirmwareChunk, FirmwareCommit, Finalize
<1>9. CASE ReportDisconnect(t) \/ RecoverExit(t) \/ VerifyPostFlash(t) \/ MockVerify(t) \/ Panic(t)
    BY <1>1, <1>3, <1>9 DEF ReportDisconnect, RecoverExit, VerifyPostFlash, MockVerify, Panic
<1> QED
    BY <1>4, <1>5, <1>6, <1>7, <1>8, <1>9 DEF Transfer

\* Who transfers or does nothing of its own leaves the cancellers where they are.
LEMMA AskOfTransfer ==
    ASSUME TypeOK, VerdictReady, ControlInv, AskInv, NEW t \in Confirmers, Transfer(t)
    PROVE  /\ AskInv' /\ answer' = answer
           /\ \A c \in Cancellers : pc'[c] = pc[c]
<1>0. /\ pc \in [Callers -> PCs] /\ t \in Callers /\ Cancellers \subseteq Callers /\ t \notin Cancellers
      /\ Confirmers \subseteq Callers
      /\ pc' = [pc EXCEPT ![t] = pc'[t]] /\ UNCHANGED cancelRequested
      /\ \A u \in Confirmers \ {t} : pc[u] \in {"idle", "refused"}
    BY TransferIsAlone, CallersAssumption DEF TypeOK, Callers
<1>1. \A c \in Cancellers : pc'[c] = pc[c]
    BY <1>0
<1>2. answer' = answer
    BY TransferIsAlone DEF taskFrame, Finalize
<1>3. Asked' <=> Asked
    BY <1>1 DEF Asked, Asking
<1>4. \A u \in Confirmers \ {t} : pc'[u] \in {"idle", "refused"}
    BY <1>0
<1>5. /\ pc'[t] = "cancel_exit" => Asked
      /\ pc'[t] = "finalize" /\ task'[t].verdict.status = "Cancelled" => Asked
    BY CancelledByRequest DEF AskInv
<1> QED
    BY <1>0, <1>1, <1>2, <1>3, <1>4, <1>5 DEF AskInv

LEMMA AskOfCalls ==
    ASSUME TypeOK, ControlInv, AskInv, [Next]_vars, \A t \in Confirmers : ~Transfer(t)
    PROVE  AskInv'
<1> USE DEF TypeOK
<1>0. /\ Starters \subseteq Callers /\ Confirmers \subseteq Callers /\ Cancellers \subseteq Callers
    BY DEF Callers
<1>same. ASSUME \A c \in Cancellers : pc'[c] = pc[c], answer' = answer, task' = task,
                cancelRequested' => cancelRequested,
                \A t \in Confirmers : pc'[t] = pc[t] \/ pc'[t] \in {"read", "refused"}
         PROVE  AskInv'
  <2>1. Asked' <=> Asked
    BY <1>same DEF Asked, Asking
  <2> QED
    BY <1>same, <2>1 DEF AskInv
<1>1. CASE PreflightFirmware
    BY <1>1, <1>same DEF PreflightFirmware
<1>2. ASSUME NEW p \in Starters, StartFirmware(p)
      PROVE  AskInv'
  <2>1. /\ \A c \in Cancellers : pc'[c] = pc[c]
        /\ \A t \in Confirmers : pc'[t] = pc[t]
    BY <1>0, <1>2, CallersAssumption DEF StartFirmware, Goto
  <2> QED
    BY <1>2, <1>same, <2>1 DEF StartFirmware
<1>3. ASSUME NEW t \in Confirmers, ConfirmFirmware(t)
      PROVE  AskInv'
  <2>1. /\ \A c \in Cancellers : pc'[c] = pc[c]
        /\ \A u \in Confirmers : pc'[u] = pc[u] \/ pc'[u] \in {"read", "refused"}
    BY <1>0, <1>3, CallersAssumption DEF ConfirmFirmware, Goto
  <2>2. cancelRequested' => cancelRequested
    BY <1>3 DEF ConfirmFirmware
  <2> QED
    BY <1>3, <1>same, <2>1, <2>2 DEF ConfirmFirmware
<1>4. ASSUME NEW c \in Cancellers,
             CancelFirmware(c) \/ CancelDecide(c) \/ PollReport(c) \/ GiveUp(c)
      PROVE  AskInv'
  <2>1. \A t \in Confirmers : pc'[t] = pc[t]
    BY <1>0, <1>4, CallersAssumption DEF CancelFirmware, CancelDecide, PollReport, GiveUp, Goto
  <2>2. task' = task
    BY <1>4 DEF CancelFirmware, CancelDecide, PollReport, GiveUp
  <2>3. \A d \in Cancellers \ {c} : pc'[d] = pc[d] /\ answer'[d] = answer[d]
    BY <1>0, <1>4 DEF CancelFirmware, CancelDecide, PollReport, GiveUp, Goto
  <2>4. report # NoReport => report.status \in Outcomes
    BY DEF Reports
  <2>5. CASE CancelFirmware(c)
    <3>1. /\ pc[c] = "idle" /\ UNCHANGED cancelRequested
          /\ \/ pc'[c] = "returned" /\ answer'[c] = report /\ report # NoReport
             \/ pc'[c] = "decide"
      BY <1>0, <2>5 DEF CancelFirmware, At, Goto, handleVars
    <3>2. Asked => Asked'
      BY <2>3, <3>1 DEF Asked, Asking
    <3> QED
      BY <2>1, <2>2, <2>3, <2>4, <3>1, <3>2 DEF AskInv
  <2>6. CASE CancelDecide(c)
    <3>1. Asking(c)' /\ pc'[c] \in {"poll", "returned"}
      BY <1>0, <2>6 DEF CancelDecide, Goto, Asking
    <3>2. Asked'
      BY <3>1 DEF Asked
    <3>3. pc'[c] = "returned" => answer'[c].status \in Outcomes
      BY <1>0, <2>6 DEF CancelDecide, Goto, Outcomes
    <3> QED
      BY <2>3, <3>1, <3>2, <3>3 DEF AskInv
  <2>7. CASE PollReport(c) \/ GiveUp(c)
    <3>1. /\ UNCHANGED cancelRequested
          /\ \/ pc'[c] = "returned" /\ answer'[c] = report /\ report # NoReport
             \/ pc'[c] = "gave_up"
      BY <1>0, <2>7 DEF PollReport, GiveUp, Goto, ReportReady, handleVars
    <3>2. Asked'
      BY <3>1 DEF Asked, Asking
    <3> QED
      BY <2>3, <2>4, <3>1, <3>2 DEF AskInv
  <2> QED
    BY <1>4, <2>5, <2>6, <2>7
<1>5. CASE \/ \E p \in Callers : Broadcast(p)
           \/ \E s \in Subscribers : SubscribeEvents(s) \/ Receive(s)
           \/ Unplug
           \/ Overwrite
           \/ UNCHANGED vars
  <2>1. UNCHANGED <<cancelRequested, pc, answer, task>>
    BY <1>5 DEF Broadcast, Stamp, Deliver, Evict, SubscribeEvents, Receive, Overwrite, Unplug, vars,
        handleVars
  <2> QED
    BY <1>same, <2>1
<1> QED
    BY <1>1, <1>2, <1>3, <1>4, <1>5 DEF Next

\* How far the update has come, seen from outside.
LEMMA Phases ==
    /\ state \in {"none", "Preflight"} => phaseBar = "planned"
    /\ state = "AwaitingConfirmation" => phaseBar = "awaiting"
    /\ state = "Running" => phaseBar = "running"
    /\ state \in Terminal => phaseBar = "done"
BY DEF phaseBar, Terminal

LEMMA PhasesNext ==
    /\ state' \in {"none", "Preflight"} => phaseBar' = "planned"
    /\ state' = "AwaitingConfirmation" => phaseBar' = "awaiting"
    /\ state' = "Running" => phaseBar' = "running"
    /\ state' \in Terminal => phaseBar' = "done"
BY DEF phaseBar, Terminal

\* What a caller of CancelFirmware has been told.
ToldOf(l, status) ==
    IF l = "idle" THEN "none"
    ELSE IF l \in {"decide", "poll"} THEN "waiting"
    ELSE IF l = "gave_up" THEN "left" ELSE status

LEMMA Calls ==
    /\ callBar = [c \in Cancellers |-> ToldOf(pc[c], answer[c].status)]
    /\ callBar' = [c \in Cancellers |-> ToldOf(pc'[c], answer'[c].status)]
BY DEF callBar, ToldOf

\* A step of a canceller is one of what it may be told (firmware.go:262-309).
LEMMA CallIsUpdate ==
    ASSUME TypeOK, ControlInv, AskInv, NEW c \in Cancellers,
           CancelFirmware(c) \/ CancelDecide(c) \/ PollReport(c) \/ GiveUp(c)
    PROVE  Update!Next \/ UNCHANGED Update!vars
<1>0. pc \in [Callers -> PCs] /\ c \in Callers /\ answer \in [Cancellers -> Reports \cup {NoReport}]
    BY DEF TypeOK, Callers
<1>1. ASSUME NEW l \in PCs, NEW told, pc' = [pc EXCEPT ![c] = l], answer' = [answer EXCEPT ![c] = told]
      PROVE  callBar' = [callBar EXCEPT ![c] = ToldOf(l, told.status)]
    BY <1>0, <1>1, Calls DEF Callers
<1>2. ASSUME NEW l \in PCs, pc' = [pc EXCEPT ![c] = l], answer' = answer
      PROVE  callBar' = [callBar EXCEPT ![c] = ToldOf(l, answer[c].status)]
    BY <1>0, <1>2, Calls DEF Callers
<1>3. callBar[c] = ToldOf(pc[c], answer[c].status)
    BY Calls
<1>4. ASSUME report # NoReport
      PROVE  phaseBar = "done"
    BY <1>4, Phases DEF ControlInv, ReportMatchesState
<1>5. ASSUME UNCHANGED <<state, report>>
      PROVE  phaseBar' = phaseBar
    BY <1>5 DEF phaseBar
<1>6. {"returned", "decide", "poll", "gave_up"} \subseteq PCs
    BY DEF PCs
<1>7. CASE CancelFirmware(c)
  <2>0. pc[c] = "idle" /\ UNCHANGED <<state, report>>
    BY <1>7 DEF CancelFirmware, At, handleVars
  <2>1. CASE report # NoReport /\ answer' = [answer EXCEPT ![c] = report] /\ Goto(c, "returned")
    <3>1. callBar' = [callBar EXCEPT ![c] = report.status]
      BY <1>1, <1>6, <2>1 DEF Goto, ToldOf
    <3>2. Update!Answer(c)
      BY <1>3, <1>4, <1>5, <2>0, <2>1, <3>1 DEF Update!Answer, ToldOf
    <3> QED
      BY <3>2 DEF Update!Next
  <2>2. CASE Goto(c, "decide") /\ answer' = answer
    <3>1. callBar' = [callBar EXCEPT ![c] = "waiting"]
      BY <1>2, <1>6, <2>2 DEF Goto, ToldOf
    <3>2. Update!Ask(c)
      BY <1>3, <1>5, <2>0, <3>1 DEF Update!Ask, ToldOf
    <3> QED
      BY <3>2 DEF Update!Next
  <2> QED
    BY <1>7, <2>1, <2>2 DEF CancelFirmware
<1>8. CASE CancelDecide(c)
  <2>0. pc[c] = "decide" /\ callBar[c] = "waiting"
    BY <1>3, <1>8 DEF CancelDecide, At, ToldOf
  <2>1. CASE BeforeTransfer
    <3>1. /\ state' = "Cancelled" /\ report' = [status |-> "Cancelled", sent |-> 0]
          /\ answer' = [answer EXCEPT ![c] = report'] /\ Goto(c, "returned")
      BY <1>8, <2>1 DEF CancelDecide
    <3>2. callBar' = [callBar EXCEPT ![c] = "Cancelled"]
      BY <1>1, <1>6, <3>1 DEF Goto, ToldOf
    <3>3. phaseBar \in {"planned", "awaiting"} /\ phaseBar' = "done"
      BY <2>1, <3>1, Phases, PhasesNext DEF BeforeTransfer, Terminal
    <3>4. Update!Abandon(c)
      BY <2>0, <3>1, <3>2, <3>3 DEF Update!Abandon
    <3> QED
      BY <3>4 DEF Update!Next
  <2>2. CASE ~BeforeTransfer
    <3>1. UNCHANGED <<state, report, answer>> /\ Goto(c, "poll")
      BY <1>8, <2>2 DEF CancelDecide
    <3>2. callBar' = [callBar EXCEPT ![c] = "waiting"]
      BY <1>2, <1>6, <3>1 DEF Goto, ToldOf
    <3>3. callBar' = callBar
      BY <2>0, <3>2, Calls
    <3> QED
      BY <1>5, <3>1, <3>3 DEF Update!vars
  <2> QED
    BY <2>1, <2>2
<1>9. CASE PollReport(c)
  <2>1. /\ pc[c] = "poll" /\ UNCHANGED <<state, report>> /\ report # NoReport
        /\ answer' = [answer EXCEPT ![c] = report] /\ Goto(c, "returned")
    BY <1>9 DEF PollReport, At, ReportReady, handleVars
  <2>2. callBar' = [callBar EXCEPT ![c] = report.status]
    BY <1>1, <1>6, <2>1 DEF Goto, ToldOf
  <2>3. Update!Answer(c)
    BY <1>3, <1>4, <1>5, <2>1, <2>2 DEF Update!Answer, ToldOf
  <2> QED
    BY <2>3 DEF Update!Next
<1>10. CASE GiveUp(c)
  <2>1. pc[c] = "poll" /\ UNCHANGED <<state, report, answer>> /\ Goto(c, "gave_up")
    BY <1>10 DEF GiveUp, At, handleVars
  <2>2. callBar' = [callBar EXCEPT ![c] = "left"]
    BY <1>2, <1>6, <2>1 DEF Goto, ToldOf
  <2>3. Update!Leave(c)
    BY <1>3, <1>5, <2>1, <2>2 DEF Update!Leave, ToldOf
  <2> QED
    BY <2>3 DEF Update!Next
<1> QED
    BY <1>7, <1>8, <1>9, <1>10

\* The end of a transfer is the end of the update (transfer_task.go).
LEMMA TransferIsUpdate ==
    ASSUME TypeOK, VerdictReady, ControlInv, AskInv, NEW t \in Confirmers, Transfer(t)
    PROVE  Update!Next \/ UNCHANGED Update!vars
<1>1. answer' = answer /\ \A c \in Cancellers : pc'[c] = pc[c]
    BY AskOfTransfer
<1>2. callBar' = callBar
    BY <1>1, Calls
<1>3. CASE ~Finalize(t)
  <2>1. UNCHANGED <<state, report>>
    BY <1>3, TransferIsAlone DEF taskFrame, handleVars
  <2>2. phaseBar' = phaseBar
    BY <2>1 DEF phaseBar
  <2> QED
    BY <1>2, <2>1, <2>2 DEF Update!vars
<1>4. CASE Finalize(t)
  <2> DEFINE o == task[t].verdict.status
  <2>1. /\ pc[t] = "finalize" /\ task[t].verdict \in Reports
        /\ state' = StateOf(o) /\ report' = task[t].verdict
    BY <1>4 DEF Finalize, At, VerdictReady
  <2>2. o \in Outcomes
    BY <2>1 DEF Reports
  <2>3. phaseBar = "running"
    BY Phases, TransferIsAlone
  <2>4. state' \in Terminal
    BY <2>1, <2>2 DEF StateOf, Outcomes, Terminal
  <2>5. phaseBar' = "done"
    BY <2>4, PhasesNext
  <2>6. o = "Cancelled" => \E c \in Cancellers : callBar[c] # "none"
    <3>1. SUFFICES ASSUME o = "Cancelled" PROVE \E c \in Cancellers : callBar[c] # "none"
      OBVIOUS
    <3>2. PICK c \in Cancellers : Asking(c)
      BY <2>1, <3>1 DEF AskInv, Asked
    <3>3. pc[c] = "returned" => answer[c].status \in Outcomes
      BY DEF AskInv
    <3>4. callBar[c] = ToldOf(pc[c], answer[c].status)
      BY Calls
    <3> QED
      BY <3>2, <3>3, <3>4 DEF Asking, ToldOf, Outcomes
  <2>7. Update!Finish(o)
    BY <1>2, <2>1, <2>3, <2>5, <2>6 DEF Update!Finish
  <2> QED
    BY <2>2, <2>7 DEF Update!Next, Update!Outcomes, Outcomes
<1> QED
    BY <1>3, <1>4

LEMMA StepIsUpdate ==
    ASSUME TypeOK, VerdictReady, ControlInv, AskInv, [Next]_vars
    PROVE  [Update!Next]_(Update!vars)
<1> USE DEF TypeOK
<1>0. /\ Starters \subseteq Callers /\ Confirmers \subseteq Callers /\ Cancellers \subseteq Callers
    BY DEF Callers
<1>1. ASSUME UNCHANGED <<report, answer>>, \A c \in Cancellers : pc'[c] = pc[c]
      PROVE  UNCHANGED <<report.status, callBar>>
    BY <1>1, Calls
<1>2. CASE PreflightFirmware
  <2>1. UNCHANGED <<report, answer, pc>> /\ state = "none" /\ state' = "Preflight"
    BY <1>2 DEF PreflightFirmware
  <2>2. phaseBar' = phaseBar
    BY <2>1, Phases, PhasesNext
  <2> QED
    BY <1>1, <2>1, <2>2 DEF Update!vars
<1>3. ASSUME NEW p \in Starters, StartFirmware(p)
      PROVE  Update!Next \/ UNCHANGED Update!vars
  <2>1. UNCHANGED <<report, answer>> /\ \A c \in Cancellers : pc'[c] = pc[c]
    BY <1>0, <1>3, CallersAssumption DEF StartFirmware, Goto
  <2>2. CASE state = "Preflight"
    <3>1. phaseBar = "planned" /\ phaseBar' = "awaiting"
      BY <1>3, <2>2, Phases, PhasesNext DEF StartFirmware
    <3> QED
      BY <1>1, <2>1, <3>1 DEF Update!Next, Update!Start
  <2>3. CASE state # "Preflight"
    <3>1. state' = state
      BY <1>3, <2>3 DEF StartFirmware
    <3>2. phaseBar' = phaseBar
      BY <3>1 DEF phaseBar
    <3> QED
      BY <1>1, <2>1, <3>2 DEF Update!vars
  <2> QED
    BY <2>2, <2>3
<1>4. ASSUME NEW t \in Confirmers, ConfirmFirmware(t)
      PROVE  Update!Next \/ UNCHANGED Update!vars
  <2>1. UNCHANGED <<report, answer>> /\ \A c \in Cancellers : pc'[c] = pc[c]
    BY <1>0, <1>4, CallersAssumption DEF ConfirmFirmware, Goto
  <2>2. CASE Confirmable /\ state' = "Running"
    <3>1. phaseBar = "awaiting" /\ phaseBar' = "running"
      BY <2>2, Phases, PhasesNext DEF Confirmable
    <3> QED
      BY <1>1, <2>1, <3>1 DEF Update!Next, Update!Confirm
  <2>3. CASE state' = state
    <3>2. phaseBar' = phaseBar
      BY <2>3 DEF phaseBar
    <3> QED
      BY <1>1, <2>1, <3>2 DEF Update!vars
  <2> QED
    BY <1>4, <2>2, <2>3 DEF ConfirmFirmware
<1>5. CASE \/ \E p \in Callers : Broadcast(p)
           \/ \E s \in Subscribers : SubscribeEvents(s) \/ Receive(s)
           \/ Unplug
           \/ Overwrite
           \/ UNCHANGED vars
  <2>1. UNCHANGED <<state, report, pc, answer>>
    BY <1>5 DEF Broadcast, Stamp, Deliver, Evict, SubscribeEvents, Receive, Overwrite, Unplug, vars,
        handleVars
  <2>2. phaseBar' = phaseBar
    BY <2>1 DEF phaseBar
  <2> QED
    BY <1>1, <2>1, <2>2 DEF Update!vars
<1> QED
    BY <1>2, <1>3, <1>4, <1>5, CallIsUpdate, TransferIsUpdate DEF Next

\* The safety part of ImplementsUpdate: whatever callers race, a session starts as
\* an update does and takes only its steps, so nobody is told of an outcome it did
\* not have, and it is cancelled only if someone asked.
THEOREM SessionIsUpdate == Spec => Update!Init /\ [][Update!Next]_(Update!vars)
<1>1. Init => ControlInv /\ AskInv
  <2>1. Init => ControlInv
    BY DEF Init, ControlInv, ReportMatchesState, OneTransfer, Terminal, Launched,
        Transferring, Working, Callers
  <2>2. Init => AskInv
    BY DEF Init, AskInv, Callers
  <2> QED
    BY <2>1, <2>2
<1>2. Init => Update!Init
  <2>1. Init => callBar = [c \in Cancellers |-> "none"]
    BY Calls DEF Init, ToldOf, Callers
  <2>2. Init => phaseBar = "planned" /\ report.status = "none"
    BY Phases DEF Init, NoReport
  <2> QED
    BY <2>1, <2>2 DEF Update!Init
<1>3. TypeOK /\ VerdictReady /\ ControlInv /\ AskInv /\ [Next]_vars => ControlInv' /\ AskInv'
    BY ControlOfTransfer, ControlOfCalls, AskOfTransfer, AskOfCalls
<1>4. TypeOK /\ VerdictReady /\ ControlInv /\ AskInv /\ [Next]_vars => [Update!Next]_(Update!vars)
    BY StepIsUpdate
<1>5. [](TypeOK /\ VerdictReady) /\ Spec => [](ControlInv /\ AskInv)
    BY <1>1, <1>3, PTL DEF Spec
<1> QED
    BY <1>2, <1>4, <1>5, TypeCorrect, PTL DEF Spec
=============================================================================
