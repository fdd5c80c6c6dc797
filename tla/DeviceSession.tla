---------------------------- MODULE DeviceSession ----------------------------
(***************************************************************************)
(* One command at a time over HID: DeviceSession.sendRow                   *)
(* (internal/protocol/session_transport.go) on HidTransport                *)
(* (internal/protocol/hid_transport.go), against a device that obeys its   *)
(* requests in order, each at any later time or never, and may send        *)
(* reports nobody asked for.                                               *)
(*                                                                         *)
(* The device keeps one value, which writes set and reads report: enough   *)
(* to ask what an acknowledgement and a read-back are worth.  A reply is   *)
(* recognised by its length and its first bytes only, some commands take   *)
(* almost any report for theirs, and a reply to some reads comes in two    *)
(* reports.                                                                *)
(***************************************************************************)
EXTENDS Naturals, Sequences, SequencesExt

CONSTANTS
    Reads,          \* commands of safety class SafeRead
    Writes,         \* the others
    Mute,           \* commands whose expected response is "none"
    Split,          \* reads answered in two reports
    Answers,        \* Answers[c]: the first bytes of a reply to c
    Accepts,        \* Accepts[c]: the first bytes ValidateResponse takes for a reply to c
    Unasked,        \* the first bytes of a report that begins no reply: a stray one, or the
                    \* second of two
    Suffices,       \* Suffices[c]: the reports that have minimumResponseLen(c) bytes by
                    \* themselves: "whole", a reply in one; "first", "rest", half of one
    Values,         \* what the device can hold
    None,           \* no command, no value
    Sessions,       \* the sessions: the commands sent on it, whether its handle is a
                    \* timedReader (hidraw is, macOS and Windows are not), whether reports
                    \* nobody asked for come, and the calls made on it (a bound)
    MaxAttempts,    \* RetryPolicy.MaxAttempts
    MaxDrained,     \* maxDrainedReports
    MaxQueued       \* reports the host keeps for a handle

Commands == Reads \cup Writes

ASSUME CommandsAssumption ==
    /\ Reads \cap Writes = {}
    /\ Mute \subseteq Commands
    /\ Split \subseteq Reads \ Mute
    /\ None \notin Commands \cup Values
    /\ \A c \in Commands \ Mute : Answers[c] \in Accepts[c] /\ "whole" \in Suffices[c]
    /\ \A c \in Split : "first" \notin Suffices[c]
    /\ \A s \in Sessions :
         /\ s.commands \subseteq Commands
         /\ {s.timed, s.strays} \subseteq BOOLEAN
         /\ s.calls \in Nat

ASSUME LimitsAssumption ==
    /\ MaxAttempts \in Nat \ {0}
    /\ MaxDrained \in Nat /\ MaxQueued \in Nat \ {0}

VARIABLES
    calls,      \* commands sent so far
    cmd, arg,   \* the one under way, and the value it writes
    pc,         \* where sendRow is
    attempt,
    sends,      \* how often its request was written
    drained,    \* reports DrainInput has discarded
    raw,        \* what readResponseReassembled has so far
    frame,      \* what the last command returned; empty when it failed or had no reply
    session,    \* the session
    abandoned,  \* readers that outlived their timeout and still wait for a report
    inbox,      \* reports the host holds for the handle
    requests,   \* sent, and not handled by the device yet
    rest,       \* the second report of a reply, on its way
    value,      \* what the device holds
    claim,      \* the value of the write that was acknowledged last
    verified,   \* that a read right after it returned that value
    failures,   \* commands that failed, up to two
    troubled,   \* whether any command was not answered at once
    guessed     \* whether any took, or may take, a report that begins no reply

localVars == <<cmd, arg, attempt, sends, drained, raw>>
callerVars == <<calls, frame, claim, verified, failures, troubled, guessed>>
hostVars == <<session, abandoned, inbox>>
deviceVars == <<requests, rest, value>>
vars == <<pc, localVars, callerVars, hostVars, deviceVars>>

Option(S) == S \cup {None}

Beginnings == Unasked \cup UNION {Accepts[c] : c \in Commands \ Mute}

\* A report: the call it answers (0 for none), its command, its first bytes, the value
\* it carries, and whether it came after the latest drain began.
Reports == [of : 0..session.calls, cmd : Option(Commands), part : {"whole", "first", "rest"},
            begins : Beginnings, value : Option(Values), fresh : BOOLEAN]

TypeOK ==
    /\ calls \in 0..session.calls
    /\ cmd \in Option(Commands)
    /\ arg \in Option(Values)
    /\ pc \in {"idle", "drain", "write", "read", "again"}
    /\ attempt \in 1..MaxAttempts
    /\ sends \in 0..MaxAttempts
    /\ drained \in 0..MaxDrained
    /\ {raw, frame} \subseteq Seq(Reports) /\ Len(raw) <= 2
    /\ session \in Sessions
    /\ abandoned \in 0..(session.calls * MaxAttempts)
    /\ inbox \in Seq(Reports) /\ Len(inbox) <= MaxQueued
    /\ requests \in Seq([of : 1..session.calls, cmd : Commands, arg : Option(Values)])
    /\ rest \in Seq(Reports)
    /\ value \in Values
    /\ claim \in Option(Values)
    /\ verified \in BOOLEAN
    /\ failures \in 0..2
    /\ {troubled, guessed} \subseteq BOOLEAN

Init ==
    /\ calls = 0
    /\ cmd = None
    /\ arg = None
    /\ pc = "idle"
    /\ attempt = 1
    /\ sends = 0
    /\ drained = 0
    /\ raw = <<>>
    /\ frame = <<>>
    /\ session \in Sessions
    /\ abandoned = 0
    /\ inbox = <<>>
    /\ requests = <<>>
    /\ rest = <<>>
    /\ value \in Values
    /\ claim = None
    /\ verified = FALSE
    /\ failures = 0
    /\ troubled = FALSE
    /\ guessed = FALSE

-----------------------------------------------------------------------------
(* A command ends.                                                         *)

\* With the reports it returns, or none.
Return(ok, reports) ==
    LET got == IF reports = <<>> THEN None ELSE Head(reports).value IN
        /\ pc' = "idle"
        /\ frame' = reports
        /\ claim' = IF ~ok \/ cmd \in Mute THEN None ELSE IF cmd \in Writes THEN arg ELSE claim
        /\ verified' = (ok /\ cmd \in Reads \ Mute /\ claim # None /\ got = claim)
        /\ failures' = IF ok \/ failures = 2 THEN failures ELSE failures + 1
        /\ troubled' = (troubled \/ ~ok)
        /\ cmd' = None
        /\ arg' = None
        /\ attempt' = 1
        /\ sends' = 0
        /\ drained' = 0
        /\ raw' = <<>>
        /\ UNCHANGED <<calls, guessed>>

Continue(l) ==
    /\ pc' = l
    /\ UNCHANGED <<cmd, arg, callerVars>>

-----------------------------------------------------------------------------
(* DrainInput, then the request.                                           *)

\* What is queued when DrainInput begins came before the request.  Where nothing is
\* drained, no report is told from another by its age.
StartDrain ==
    inbox' = IF session.timed THEN [i \in DOMAIN inbox |-> [inbox[i] EXCEPT !.fresh = FALSE]] ELSE inbox

\* Whether a report that begins no reply may be taken for the reply to c.
Guesses(c) ==
    /\ c \notin Mute
    /\ Accepts[c] \cap Unasked # {}
    /\ session.strays \/ session.commands \cap Split # {}

SendCommand(c, v) ==
    /\ pc = "idle"
    /\ calls < session.calls
    /\ calls' = calls + 1
    /\ cmd' = c
    /\ arg' = v
    /\ frame' = <<>>
    /\ verified' = FALSE
    /\ guessed' = (guessed \/ Guesses(c))
    /\ pc' = "drain"
    /\ StartDrain
    /\ UNCHANGED <<attempt, sends, drained, raw, session, abandoned, claim, failures, troubled,
                   deviceVars>>

\* Reading a report discards it; a quiet handle or the limit ends it.
CountedMutant == drained
Counted == drained + 1

DrainableMutant == inbox # <<>> /\ drained < MaxDrained - 1
DrainableOnceMoreMutant == inbox # <<>> /\ drained <= MaxDrained
Drainable == inbox # <<>> /\ drained < MaxDrained

DrainReport ==
    /\ pc = "drain"
    /\ session.timed
    /\ Drainable
    /\ inbox' = Tail(inbox)
    /\ drained' = Counted
    /\ Continue("drain")
    /\ UNCHANGED <<attempt, sends, raw, session, abandoned, deviceVars>>

\* A handle that cannot time out its own read is not drained.
Drained ==
    /\ pc = "drain"
    /\ ~session.timed \/ ~Drainable
    /\ drained' = 0
    /\ Continue("write")
    /\ UNCHANGED <<attempt, sends, raw, hostVars, deviceVars>>

Write ==
    /\ pc = "write"
    /\ requests' = Append(requests, [of |-> calls, cmd |-> cmd, arg |-> arg])
    /\ IF cmd \in Mute
       THEN Return(TRUE, <<>>)
       ELSE /\ sends' = sends + 1
            /\ Continue("read")
            /\ UNCHANGED <<attempt, drained, raw>>
    /\ UNCHANGED <<hostVars, rest, value>>

WriteFails ==
    /\ pc = "write"
    /\ Return(FALSE, <<>>)
    /\ UNCHANGED <<hostVars, deviceVars>>

-----------------------------------------------------------------------------
(* The reply.                                                              *)

\* minimumResponseLen: two reports are always as long as a reply, one alone is for some
\* commands.
Enough(reports) == Len(reports) = 2 \/ Head(reports).part \in Suffices[cmd]

\* ValidateResponse: long enough, and beginning as the command's reply may.  Whose
\* reply it is, or whether it is one, it cannot see.
ValidateResponseMutant(reports) == Enough(reports)
ValidateResponse(reports) ==
    /\ Enough(reports)
    /\ Head(reports).begins \in Accepts[cmd]

\* An attempt ended without an answer: another one, or the command fails.
TryAgain ==
    IF attempt < MaxAttempts
    THEN /\ pc' = "again"
         /\ troubled' = TRUE
         /\ raw' = <<>>
         /\ UNCHANGED <<cmd, arg, attempt, sends, drained, calls, frame, claim, verified, failures,
                         guessed>>
    ELSE Return(FALSE, <<>>)

Judge(reports) == IF ValidateResponse(reports) THEN Return(TRUE, reports) ELSE TryAgain

ReadReport ==
    /\ pc = "read"
    /\ inbox # <<>>
    /\ inbox' = Tail(inbox)
    /\ LET reports == Append(raw, Head(inbox)) IN
         IF Enough(reports)
         THEN Judge(reports)
         ELSE /\ raw' = reports
              /\ Continue("read")
              /\ UNCHANGED <<attempt, sends, drained>>
    /\ UNCHANGED <<session, abandoned, deviceVars>>

\* A handle that cannot time out its own read leaves its reader waiting.
Abandon == abandoned' = IF session.timed THEN abandoned ELSE abandoned + 1

\* The timeout passes with no report there.  What has arrived is judged.
ReadTimesOut ==
    /\ pc = "read"
    /\ inbox = <<>>
    /\ Abandon
    /\ IF raw = <<>> THEN TryAgain ELSE Judge(raw)
    /\ UNCHANGED <<session, inbox, deviceVars>>

\* A transport error, or the context ends and the reader stays.
ReadFails ==
    /\ pc = "read"
    /\ Abandon \/ UNCHANGED abandoned
    /\ Return(FALSE, <<>>)
    /\ UNCHANGED <<session, inbox, deviceVars>>

\* A report goes to a reader nobody waits for any more.
Swallow ==
    /\ abandoned > 0
    /\ inbox # <<>>
    /\ inbox' = Tail(inbox)
    /\ abandoned' = abandoned - 1
    /\ UNCHANGED <<pc, localVars, callerVars, session, deviceVars>>

\* A read is sent again; a write is not, only its acknowledgement awaited again.
ResendsMutant == TRUE
Resends == cmd \in Reads

Retry ==
    /\ pc = "again"
    /\ attempt' = attempt + 1
    /\ IF Resends
       THEN /\ Continue("drain")
            /\ StartDrain
       ELSE /\ Continue("read")
            /\ UNCHANGED inbox
    /\ UNCHANGED <<sends, drained, raw, session, abandoned, deviceVars>>

\* The context ends during the back-off.
BackoffCancelled ==
    /\ pc = "again"
    /\ Return(FALSE, <<>>)
    /\ UNCHANGED <<hostVars, deviceVars>>

\* Close, and NewDeviceSession on the same device.
Reopen ==
    /\ pc = "idle"
    /\ inbox' = <<>>
    /\ abandoned' = 0
    /\ frame' = <<>>
    /\ claim' = None
    /\ verified' = FALSE
    /\ UNCHANGED <<pc, localVars, calls, failures, troubled, guessed, session, deviceVars>>

-----------------------------------------------------------------------------
(* The device, from how the code uses it.                                  *)

\* A full queue drops what arrives.
Arrive(report) == inbox' = IF Len(inbox) < MaxQueued THEN Append(inbox, report) ELSE inbox

Report(request, part, begins) ==
    [of |-> request.of, cmd |-> request.cmd, part |-> part, begins |-> begins, fresh |-> TRUE,
     value |-> IF request.cmd \in Reads THEN value ELSE None]

\* A reply begins as one to its command does; of two reports the second begins anyhow.
Reply(request, part) == Report(request, part, Answers[request.cmd])

\* It obeys its oldest request and answers, or its answer is lost.
Obey ==
    /\ requests # <<>>
    /\ rest = <<>>
    /\ LET request == Head(requests) IN
         /\ value' = IF request.cmd \in Writes /\ request.arg # None THEN request.arg ELSE value
         /\ \/ UNCHANGED <<inbox, rest>>
            \/ /\ request.cmd \notin Mute
               /\ IF request.cmd \in Split
                  THEN /\ Arrive(Reply(request, "first"))
                       /\ \E begins \in Unasked : rest' = <<Report(request, "rest", begins)>>
                  ELSE /\ Arrive(Reply(request, "whole"))
                       /\ UNCHANGED rest
    /\ requests' = Tail(requests)
    /\ UNCHANGED <<session, abandoned, pc, localVars, callerVars>>

Drop ==
    /\ requests # <<>>
    /\ requests' = Tail(requests)
    /\ UNCHANGED <<rest, value, hostVars, pc, localVars, callerVars>>

SecondReport ==
    /\ rest # <<>>
    /\ rest' = <<>>
    /\ Arrive(rest[1])
    /\ UNCHANGED <<requests, value, session, abandoned, pc, localVars, callerVars>>

Stray ==
    /\ session.strays
    /\ \E begins \in Unasked :
         Arrive([of |-> 0, cmd |-> None, part |-> "whole", begins |-> begins, value |-> None,
                 fresh |-> TRUE])
    /\ UNCHANGED <<session, abandoned, deviceVars, pc, localVars, callerVars>>

-----------------------------------------------------------------------------
Step ==
    \/ DrainReport \/ Drained \/ Write \/ ReadReport \/ ReadTimesOut \/ Retry

Next ==
    \/ \E c \in session.commands \cap (Reads \cup Mute) : SendCommand(c, None)
    \/ \E c \in session.commands \cap (Writes \ Mute), v \in Values : SendCommand(c, v)
    \/ Step
    \/ WriteFails \/ ReadFails \/ BackoffCancelled \/ Swallow \/ Reopen
    \/ Obey \/ Drop \/ SecondReport \/ Stray

\* The session's own steps; the device may stay silent.
Fairness == WF_vars(Step)

Spec == Init /\ [][Next]_vars /\ Fairness

-----------------------------------------------------------------------------
(* Properties.                                                             *)

\* Nothing that was queued when a request was about to be sent answers it, in
\* whole or in part (session_transport.go:150-152).
NothingStaleAnswers ==
    session.timed /\ MaxQueued <= MaxDrained => \A i \in DOMAIN frame : frame[i].fresh

\* However often its acknowledgement is awaited, a write is sent once
\* (session_transport.go:47-49).
WrittenOnce == cmd \in Writes => sends <= 1

\* An answer begins with another command's report, or with nobody's, only if a command
\* timed out or failed, or one was sent whose reply is not told from a report nobody asked
\* for: GetPid's and a record command's are, Idle's, ReadProfile's or SetModeDInput's is any
\* report beginning 02 (validation.go:356-360, 375-376), and one that takes such a report
\* leaves its own reply to the next command.
OwnReply == ~troubled /\ ~guessed /\ frame # <<>> => Head(frame).of = calls

\* Write and read back: a value that was acknowledged and read back is what the
\* device holds, although either reply may be another command's.
VerifiedIsHeld == verified /\ failures <= 1 => value = claim

\* A command ends however silent the device is, or however talkative.
CommandEnds == pc # "idle" ~> pc = "idle"
=============================================================================
