------------------------- MODULE DeviceSessionProofs -------------------------
(***************************************************************************)
(* What holds of a session on a HID handle for any commands, any number of *)
(* attempts and any length of its queues.                                  *)
(***************************************************************************)
EXTENDS DeviceSession, TLAPS, SequenceTheorems

-----------------------------------------------------------------------------
(* Queues.                                                                 *)

LEMMA Tails ==
    ASSUME NEW S, NEW queue \in Seq(S), queue # <<>>
    PROVE  /\ Tail(queue) \in Seq(S) /\ Len(Tail(queue)) = Len(queue) - 1
           /\ Head(queue) = queue[1] /\ 1 \in DOMAIN queue /\ Head(queue) \in S
           /\ \A i \in DOMAIN Tail(queue) :
                /\ i \in Nat \ {0} /\ i + 1 \in DOMAIN queue
                /\ Tail(queue)[i] = queue[i + 1]
           /\ \A i \in DOMAIN queue : i \in Nat \ {0} /\ (i # 1 => i - 1 \in DOMAIN Tail(queue))
<1>1. DOMAIN queue = 1..Len(queue) /\ Len(queue) \in Nat \ {0}
    OBVIOUS
<1>2. /\ Tail(queue) \in Seq(S) /\ Len(Tail(queue)) = Len(queue) - 1
      /\ DOMAIN Tail(queue) = 1..(Len(queue) - 1)
      /\ \A i \in 1..(Len(queue) - 1) : Tail(queue)[i] = queue[i + 1]
    BY <1>1, HeadTailProperties
<1>3. Head(queue) = queue[1] /\ Head(queue) \in S
    BY <1>1, HeadTailProperties
<1> QED
    BY <1>1, <1>2, <1>3

LEMMA Appends ==
    ASSUME NEW S, NEW queue \in Seq(S), NEW x \in S
    PROVE  /\ Append(queue, x) \in Seq(S) /\ Len(Append(queue, x)) = Len(queue) + 1
           /\ Len(queue) \in Nat
           /\ Len(queue) + 1 \in DOMAIN Append(queue, x)
           /\ Append(queue, x)[Len(queue) + 1] = x
           /\ \A i \in DOMAIN queue : /\ i \in Nat \ {0} /\ i <= Len(queue)
                                      /\ i \in DOMAIN Append(queue, x)
                                      /\ Append(queue, x)[i] = queue[i]
           /\ \A i \in DOMAIN Append(queue, x) : i \in DOMAIN queue \/ i = Len(queue) + 1
OBVIOUS

LEMMA Elements ==
    ASSUME NEW S, NEW queue \in Seq(S), NEW i \in DOMAIN queue
    PROVE  queue[i] \in S /\ i \in Nat \ {0} /\ i <= Len(queue) /\ Len(queue) \in Nat
<1>1. i \in 1..Len(queue) /\ Len(queue) \in Nat
    OBVIOUS
<1> QED
    BY <1>1, ElementOfSeq

-----------------------------------------------------------------------------
(* The types.                                                              *)

\* The readers n calls may have left behind.
Spent(n) == n * MaxAttempts

\* Where a call stands.
CallInv ==
    /\ pc = "idle" => cmd = None /\ attempt = 1 /\ sends = 0
    /\ pc # "idle" => cmd \in Commands /\ calls > 0
    /\ pc # "drain" => drained = 0
    /\ pc \in {"drain", "write"} => sends < attempt
    /\ pc \in {"read", "again"} => sends <= attempt /\ cmd \notin Mute
    /\ pc = "again" => attempt < MaxAttempts
    /\ cmd \in Writes /\ pc \in {"drain", "write"} => sends = 0
    /\ cmd \in Writes /\ pc \in {"read", "again"} => sends = 1
    /\ cmd \in Writes \ Mute => arg \in Values
    /\ cmd \notin Writes \ Mute => arg = None
    /\ raw # <<>> => pc = "read" /\ Len(raw) = 1 /\ raw[1].part \notin Suffices[cmd]
    /\ pc = "idle" => abandoned <= Spent(calls)
    /\ pc = "again" => abandoned <= Spent(calls - 1) + attempt
    /\ pc \notin {"idle", "again"} => abandoned < Spent(calls - 1) + attempt

LEMMA SpentGrows ==
    /\ Spent(0) = 0
    /\ \A n \in Nat : Spent(n) \in Nat /\ Spent(n + 1) = Spent(n) + MaxAttempts
    /\ \A m, n \in Nat : m <= n => Spent(m) <= Spent(n)
<1>1. MaxAttempts \in Nat
    BY LimitsAssumption
<1>2. Spent(0) = 0
    BY <1>1 DEF Spent
<1>3. ASSUME NEW n \in Nat
      PROVE  Spent(n) \in Nat /\ Spent(n + 1) = Spent(n) + MaxAttempts
    BY <1>1 DEF Spent
<1>4. ASSUME NEW m \in Nat, NEW n \in Nat, m <= n
      PROVE  Spent(m) <= Spent(n)
  <2>1. PICK d \in Nat : n = m + d
    BY <1>4
  <2>2. n * MaxAttempts = m * MaxAttempts + d * MaxAttempts
    BY <1>1, <2>1
  <2>3. d * MaxAttempts \in Nat /\ m * MaxAttempts \in Nat
    BY <1>1
  <2> QED
    BY <2>2, <2>3 DEF Spent
<1> QED
    BY <1>2, <1>3, <1>4

LEMMA SessionStays ==
    ASSUME [Next]_vars
    PROVE  session' = session /\ Reports' = Reports
<1>1. session' = session
    BY DEF Next, Step, vars, hostVars, SendCommand, DrainReport, Drained, Write, WriteFails,
        ReadReport, ReadTimesOut, ReadFails, Swallow, Retry, BackoffCancelled, Reopen,
        Obey, Drop, SecondReport, Stray
<1> QED
    BY <1>1 DEF Reports

LEMMA ReturnType ==
    ASSUME TypeOK, CallInv, session' = session, NEW ok \in BOOLEAN, NEW reports \in Seq(Reports),
           Return(ok, reports), cmd \in Commands
    PROVE  /\ calls' = calls /\ cmd' = None /\ arg' = None /\ pc' = "idle" /\ attempt' = 1
           /\ sends' = 0 /\ drained' = 0 /\ raw' = <<>> /\ frame' = reports
           /\ claim' \in Option(Values) /\ verified' \in BOOLEAN /\ failures' \in 0..2
           /\ troubled' \in BOOLEAN /\ guessed' \in BOOLEAN
           /\ troubled' = (troubled \/ ~ok)
<1>1. /\ arg \in Option(Values) /\ claim \in Option(Values) /\ failures \in 0..2
      /\ troubled \in BOOLEAN /\ guessed \in BOOLEAN
    BY DEF TypeOK
<1>2. claim' \in Option(Values)
    BY <1>1 DEF Return, Option
<1>3. failures' \in 0..2
    BY <1>1 DEF Return
<1>4. verified' \in BOOLEAN
    BY DEF Return
<1>5. troubled' \in BOOLEAN /\ troubled' = (troubled \/ ~ok) /\ guessed' \in BOOLEAN
    BY <1>1 DEF Return
<1> QED
    BY <1>2, <1>3, <1>4, <1>5 DEF Return

LEMMA ReportFields ==
    ASSUME TypeOK, NEW r \in Reports
    PROVE  /\ r.of \in 0..session.calls /\ r.cmd \in Option(Commands)
           /\ r.part \in {"whole", "first", "rest"} /\ r.value \in Option(Values)
           /\ r.begins \in Beginnings /\ r.fresh \in BOOLEAN
           /\ [r EXCEPT !.fresh = FALSE] \in Reports
BY DEF Reports

LEMMA StartDrainEffect ==
    ASSUME TypeOK, StartDrain
    PROVE  /\ inbox' \in Seq(Reports) /\ Len(inbox') = Len(inbox) /\ DOMAIN inbox' = DOMAIN inbox
           /\ \A i \in DOMAIN inbox :
                /\ inbox'[i].of = inbox[i].of /\ inbox'[i].cmd = inbox[i].cmd
                /\ inbox'[i].part = inbox[i].part /\ inbox'[i].value = inbox[i].value
                /\ inbox'[i].begins = inbox[i].begins
<1>1. inbox \in Seq(Reports) /\ \A i \in DOMAIN inbox : inbox[i] \in Reports
    BY Elements DEF TypeOK
<1>2. CASE session.timed
  <2>1. inbox' = [i \in DOMAIN inbox |-> [inbox[i] EXCEPT !.fresh = FALSE]]
    BY <1>2 DEF StartDrain
  <2>2. \A i \in DOMAIN inbox : inbox'[i] = [inbox[i] EXCEPT !.fresh = FALSE] /\ inbox'[i] \in Reports
    BY <1>1, <2>1, ReportFields
  <2>3. DOMAIN inbox = 1..Len(inbox) /\ Len(inbox) \in Nat /\ DOMAIN inbox' = 1..Len(inbox)
    BY <1>1, <2>1
  <2>4. inbox' \in [1..Len(inbox) -> Reports]
    BY <2>1, <2>2, <2>3
  <2>5. inbox' \in Seq(Reports) /\ Len(inbox') = Len(inbox)
    BY <2>3, <2>4
  <2>6. \A i \in DOMAIN inbox :
          /\ inbox'[i].of = inbox[i].of /\ inbox'[i].cmd = inbox[i].cmd
          /\ inbox'[i].part = inbox[i].part /\ inbox'[i].value = inbox[i].value
          /\ inbox'[i].begins = inbox[i].begins
    BY <1>1, <2>2 DEF Reports
  <2> QED
    BY <2>3, <2>5, <2>6
<1>3. CASE ~session.timed
    BY <1>1, <1>3 DEF StartDrain
<1> QED
    BY <1>2, <1>3

LEMMA ArriveEffect ==
    ASSUME TypeOK, NEW r \in Reports, Arrive(r)
    PROVE  /\ inbox' \in Seq(Reports) /\ Len(inbox') <= MaxQueued
           /\ \/ inbox' = inbox
              \/ inbox' = Append(inbox, r)
BY Appends, LimitsAssumption DEF TypeOK, Arrive

\* Reading, discarding and losing a report take the oldest.
LEMMA TakeEffect ==
    ASSUME TypeOK, inbox # <<>>
    PROVE  /\ Tail(inbox) \in Seq(Reports) /\ Len(Tail(inbox)) <= MaxQueued
           /\ Head(inbox) \in Reports /\ Head(inbox) = inbox[1] /\ 1 \in DOMAIN inbox
<1>1. inbox \in Seq(Reports) /\ Len(inbox) <= MaxQueued /\ MaxQueued \in Nat /\ Len(inbox) \in Nat
    BY LimitsAssumption DEF TypeOK
<1> QED
    BY <1>1, Tails

Request == [of : 1..session.calls, cmd : Commands, arg : Option(Values)]

LEMMA ReportType ==
    ASSUME TypeOK, NEW request \in Request, NEW part \in {"whole", "first", "rest"},
           NEW begins \in Beginnings
    PROVE  Report(request, part, begins) \in Reports
BY DEF TypeOK, Request, Report, Reports, Option

LEMMA ReplyType ==
    ASSUME TypeOK, NEW request \in Request, request.cmd \notin Mute,
           NEW part \in {"whole", "first", "rest"}
    PROVE  Reply(request, part) \in Reports
<1>1. request.cmd \in Commands \ Mute
    BY DEF Request
<1>2. Answers[request.cmd] \in Beginnings
    BY <1>1, CommandsAssumption DEF Beginnings
<1> QED
    BY <1>2, ReportType DEF Reply

\* What a stray report is like.
StrayReport(begins) ==
    [of |-> 0, cmd |-> None, part |-> "whole", begins |-> begins, value |-> None, fresh |-> TRUE]

LEMMA StrayType ==
    ASSUME TypeOK, NEW begins \in Unasked
    PROVE  StrayReport(begins) \in Reports
<1>1. session.calls \in Nat /\ begins \in Beginnings
    BY CommandsAssumption DEF TypeOK, Beginnings
<1> QED
    BY <1>1 DEF StrayReport, Reports, Option

LEMMA StrayArrives ==
    ASSUME Stray
    PROVE  \E begins \in Unasked : Arrive(StrayReport(begins))
BY DEF Stray, StrayReport

\* How the wait for a reply may go on.
LEMMA ReplyCases ==
    ASSUME TypeOK, CallInv, ReadReport \/ ReadTimesOut
    PROVE  /\ pc = "read"
           /\ \/ /\ ReadReport /\ inbox # <<>> /\ inbox' = Tail(inbox)
              \/ ReadTimesOut /\ inbox = <<>> /\ inbox' = inbox
           /\ \/ /\ inbox # <<>>
                 /\ LET reports == Append(raw, Head(inbox)) IN
                       /\ reports \in Seq(Reports) /\ Len(reports) <= 2 /\ reports # <<>>
                       /\ reports[1] = IF raw = <<>> THEN inbox[1] ELSE raw[1]
                       /\ \/ ValidateResponse(reports) /\ Return(TRUE, reports)
                          \/ ~Enough(reports) /\ raw = <<>> /\ raw' = reports /\ Continue("read")
                               /\ UNCHANGED <<attempt, sends, drained>>
              \/ TryAgain
<1>1. pc = "read"
    BY DEF ReadReport, ReadTimesOut
<1>2. /\ raw \in Seq(Reports) /\ Len(raw) \in Nat
      /\ raw # <<>> => Len(raw) = 1 /\ raw[1].part \notin Suffices[cmd] /\ Head(raw) = raw[1]
      /\ raw = <<>> => Len(raw) = 0
    BY DEF TypeOK, CallInv
<1>3. ASSUME ReadReport
      PROVE  LET reports == Append(raw, Head(inbox)) IN
               /\ inbox # <<>> /\ inbox' = Tail(inbox)
               /\ reports \in Seq(Reports) /\ Len(reports) <= 2 /\ reports # <<>>
               /\ reports[1] = IF raw = <<>> THEN inbox[1] ELSE raw[1]
               /\ \/ ValidateResponse(reports) /\ Return(TRUE, reports)
                  \/ ~Enough(reports) /\ raw = <<>> /\ raw' = reports /\ Continue("read")
                       /\ UNCHANGED <<attempt, sends, drained>>
                  \/ TryAgain
  <2> DEFINE reports == Append(raw, Head(inbox))
  <2>1. inbox # <<>> /\ inbox' = Tail(inbox)
    BY <1>3 DEF ReadReport
  <2>2. Head(inbox) \in Reports /\ Head(inbox) = inbox[1]
    BY <2>1, TakeEffect
  <2>3. /\ reports \in Seq(Reports) /\ Len(reports) = Len(raw) + 1
        /\ reports[Len(raw) + 1] = inbox[1]
        /\ \A i \in DOMAIN raw : reports[i] = raw[i]
    BY <1>2, <2>2, Appends
  <2>4. reports[1] = IF raw = <<>> THEN inbox[1] ELSE raw[1]
    BY <1>2, <2>3
  <2>5. /\ Enough(reports) => Judge(reports)
        /\ ~Enough(reports) => raw' = reports /\ Continue("read") /\ UNCHANGED <<attempt, sends, drained>>
    BY <1>3 DEF ReadReport
  <2>6. ~Enough(reports) => raw = <<>>
    BY <1>2, <2>3 DEF Enough
  <2>7. reports # <<>> /\ Len(reports) <= 2
    <3>1. Len(raw) \in {0, 1}
      BY <1>2
    <3>2. Len(reports) = 1 \/ Len(reports) = 2
      BY <2>3, <3>1
    <3> HIDE DEF reports
    <3>3. Len(reports) <= 2 /\ Len(reports) # 0
      BY <3>2
    <3> QED
      BY <3>3, EmptySeq, <2>3
  <2> HIDE DEF reports
  <2>8. Judge(reports) => \/ ValidateResponse(reports) /\ Return(TRUE, reports)
                          \/ TryAgain
    BY Zenon DEF Judge
  <2>9. \/ ValidateResponse(reports) /\ Return(TRUE, reports)
        \/ ~Enough(reports) /\ raw = <<>> /\ raw' = reports /\ Continue("read")
             /\ UNCHANGED <<attempt, sends, drained>>
        \/ TryAgain
    BY <2>5, <2>6, <2>8
  <2> QED
    BY <2>1, <2>3, <2>4, <2>7, <2>9 DEF reports
<1>4. ASSUME ReadTimesOut
      PROVE  inbox = <<>> /\ inbox' = inbox /\ TryAgain
  <2>1. raw # <<>> => ~Enough(raw)
    BY <1>2 DEF Enough
  <2> QED
    BY <1>4, <2>1 DEF ReadTimesOut, Judge, ValidateResponse
<1> QED
    BY <1>1, <1>3, <1>4

LEMMA NoReports == <<>> \in Seq(Reports) /\ Len(<<>>) = 0
OBVIOUS

\* All of TypeOK but the bound on the readers left behind.
Typed ==
    /\ calls \in 0..session.calls
    /\ cmd \in Option(Commands)
    /\ arg \in Option(Values)
    /\ pc \in {"idle", "drain", "write", "read", "again"}
    /\ attempt \in 1..MaxAttempts
    /\ sends \in 0..MaxAttempts
    /\ drained \in 0..MaxDrained
    /\ {raw, frame} \subseteq Seq(Reports) /\ Len(raw) <= 2
    /\ session \in Sessions
    /\ abandoned \in Nat
    /\ inbox \in Seq(Reports) /\ Len(inbox) <= MaxQueued
    /\ requests \in Seq(Request)
    /\ rest \in Seq(Reports)
    /\ value \in Values
    /\ claim \in Option(Values)
    /\ verified \in BOOLEAN
    /\ failures \in 0..2
    /\ troubled \in BOOLEAN /\ guessed \in BOOLEAN

LEMMA TypedIsTypeOK ==
    /\ Typed /\ CallInv => TypeOK
    /\ TypeOK => Typed
<1>1. TypeOK => Typed
  <2> SUFFICES ASSUME TypeOK
               PROVE  Typed
    OBVIOUS
  <2>1. abandoned \in Nat
    BY DEF TypeOK
  <2> QED
    BY <2>1 DEF TypeOK, Typed, Request
<1>2. ASSUME Typed, CallInv
      PROVE  abandoned \in 0..(session.calls * MaxAttempts)
  <2>1. /\ calls \in Nat /\ session.calls \in Nat /\ calls <= session.calls /\ abandoned \in Nat
        /\ attempt \in Nat /\ attempt <= MaxAttempts /\ MaxAttempts \in Nat
    BY <1>2, CommandsAssumption, LimitsAssumption DEF Typed
  <2>2. /\ Spent(calls) \in Nat /\ Spent(calls) <= Spent(session.calls) /\ Spent(session.calls) \in Nat
        /\ calls > 0 => /\ Spent(calls) = Spent(calls - 1) + MaxAttempts
                        /\ Spent(calls - 1) \in Nat
    <3>1. calls > 0 => calls - 1 \in Nat /\ (calls - 1) + 1 = calls
      BY <2>1
    <3> QED
      BY <2>1, <3>1, SpentGrows
  <2>3. abandoned <= Spent(calls)
    BY <1>2, <2>1, <2>2 DEF CallInv
  <2>4. abandoned \in 0..Spent(session.calls)
    BY <2>1, <2>2, <2>3
  <2> QED
    BY <2>4 DEF Spent
<1>3. ASSUME Typed, CallInv
      PROVE  TypeOK
    BY <1>2, <1>3 DEF Typed, TypeOK, Request
<1> QED
    BY <1>1, <1>3

LEMMA Numbers ==
    ASSUME TypeOK, CallInv
    PROVE  /\ session \in Sessions /\ session.calls \in Nat
           /\ MaxAttempts \in Nat \ {0} /\ MaxQueued \in Nat \ {0} /\ MaxDrained \in Nat
           /\ calls \in Nat /\ calls <= session.calls
           /\ attempt \in Nat \ {0} /\ attempt <= MaxAttempts /\ sends \in Nat /\ drained \in Nat
           /\ abandoned \in Nat
           /\ Spent(calls) \in Nat
           /\ calls > 0 => calls - 1 \in Nat /\ Spent(calls - 1) \in Nat
                            /\ Spent(calls) = Spent(calls - 1) + MaxAttempts
<1>1. /\ session \in Sessions /\ session.calls \in Nat
      /\ MaxAttempts \in Nat \ {0} /\ MaxQueued \in Nat \ {0} /\ MaxDrained \in Nat
    BY CommandsAssumption, LimitsAssumption DEF TypeOK
<1>3. /\ calls \in Nat /\ calls <= session.calls
      /\ attempt \in Nat \ {0} /\ attempt <= MaxAttempts /\ sends \in Nat /\ drained \in Nat
      /\ abandoned \in Nat
    BY <1>1, TypedIsTypeOK DEF Typed
<1>4. Spent(calls) \in Nat
    BY <1>1, <1>3, SpentGrows
<1>6. ASSUME calls > 0
      PROVE  /\ calls - 1 \in Nat /\ Spent(calls - 1) \in Nat
             /\ Spent(calls) = Spent(calls - 1) + MaxAttempts
  <2>1. calls - 1 \in Nat /\ (calls - 1) + 1 = calls
    BY <1>3, <1>6
  <2> QED
    BY <2>1, SpentGrows
<1> QED
    BY <1>1, <1>3, <1>4, <1>6

LEMMA ReturnKeeps ==
    ASSUME TypeOK, CallInv, session' = session, NEW ok \in BOOLEAN, NEW reports \in Seq(Reports),
           Return(ok, reports), cmd \in Commands, Len(reports) <= 2,
           pc # "idle", abandoned' <= abandoned + 1, pc = "again" => abandoned' = abandoned,
           inbox' \in Seq(Reports), Len(inbox') <= MaxQueued, abandoned' \in Nat,
           requests' \in Seq(Request), UNCHANGED <<rest, value>>
    PROVE  Typed' /\ CallInv'
<1>T. Typed
    BY TypedIsTypeOK
<1>0. Reports' = Reports
    BY DEF Reports
<1>1. /\ calls' = calls /\ cmd' = None /\ arg' = None /\ pc' = "idle" /\ attempt' = 1
      /\ sends' = 0 /\ drained' = 0 /\ raw' = <<>> /\ frame' = reports
      /\ claim' \in Option(Values) /\ verified' \in BOOLEAN /\ failures' \in 0..2
      /\ troubled' \in BOOLEAN /\ guessed' \in BOOLEAN
    BY ReturnType
<1>2. calls > 0 /\ abandoned' <= Spent(calls)
  <2>1. calls > 0
    BY DEF CallInv
  <2>2. /\ pc = "again" => abandoned <= Spent(calls - 1) + attempt
        /\ pc # "again" => abandoned < Spent(calls - 1) + attempt
    BY DEF CallInv
  <2>3. /\ MaxAttempts \in Nat /\ attempt \in Nat /\ attempt <= MaxAttempts /\ abandoned \in Nat
    BY Numbers
  <2>4. Spent(calls - 1) \in Nat /\ Spent(calls) = Spent(calls - 1) + MaxAttempts
    BY <2>1, Numbers
  <2> QED
    BY <2>1, <2>2, <2>3, <2>4
<1>5. CallInv'
  <2>1. None \notin Commands /\ Writes \subseteq Commands
    BY CommandsAssumption DEF Commands
  <2> QED
    BY <1>1, <1>2, <2>1 DEF CallInv
<1>6. {raw', frame'} \subseteq Seq(Reports) /\ Len(raw') <= 2
    BY <1>1, NoReports
<1>7. /\ calls' \in 0..session.calls /\ cmd' \in Option(Commands) /\ arg' \in Option(Values)
      /\ pc' \in {"idle", "drain", "write", "read", "again"} /\ attempt' \in 1..MaxAttempts
      /\ sends' \in 0..MaxAttempts /\ drained' \in 0..MaxDrained /\ session' \in Sessions
      /\ rest' \in Seq(Reports) /\ value' \in Values
    BY <1>T, <1>1, Numbers DEF Typed, Option
<1> QED
    BY <1>0, <1>1, <1>5, <1>6, <1>7 DEF Typed, Request

LEMMA NothingReturned ==
    ASSUME TypeOK, CallInv, session' = session, NEW ok \in BOOLEAN,
           Return(ok, <<>>), cmd \in Commands,
           pc # "idle", abandoned' <= abandoned + 1, pc = "again" => abandoned' = abandoned,
           inbox' \in Seq(Reports), Len(inbox') <= MaxQueued, abandoned' \in Nat,
           requests' \in Seq(Request), UNCHANGED <<rest, value>>
    PROVE  Typed' /\ CallInv'
<1> DEFINE nothing == <<>>
<1>1. nothing \in Seq(Reports) /\ Len(nothing) <= 2 /\ Return(ok, nothing)
    BY NoReports
<1> HIDE DEF nothing
<1> QED
    BY <1>1, ReturnKeeps

LEMMA TypedNext == Typed' /\ CallInv' => TypeOK'
BY TypedIsTypeOK, PTL

LEMMA CallStep ==
    ASSUME TypeOK, CallInv, [Next]_vars
    PROVE  TypeOK' /\ CallInv'
<1> SUFFICES Typed' /\ CallInv'
    BY TypedNext
<1>T. Typed
    BY TypedIsTypeOK
<1>0. /\ session' = session /\ Reports' = Reports /\ Request' = Request
      /\ inbox \in Seq(Reports) /\ Len(inbox) <= MaxQueued /\ Len(inbox) \in Nat
      /\ raw \in Seq(Reports) /\ rest \in Seq(Reports) /\ requests \in Seq(Request)
      /\ None \notin Commands
  <2>1. session' = session /\ Reports' = Reports /\ Request' = Request
    BY SessionStays DEF Request
  <2> QED
    BY <2>1, CommandsAssumption, LimitsAssumption, <1>T DEF Typed, Request
<1>n. /\ session.calls \in Nat /\ calls \in Nat /\ calls <= session.calls
      /\ MaxAttempts \in Nat /\ MaxAttempts > 0 /\ MaxQueued \in Nat /\ MaxQueued > 0 /\ MaxDrained \in Nat
      /\ attempt \in Nat /\ attempt > 0 /\ attempt <= MaxAttempts /\ sends \in Nat /\ drained \in Nat
      /\ abandoned \in Nat /\ Spent(calls) \in Nat
    BY Numbers
<1>k. calls > 0 => /\ calls - 1 \in Nat /\ Spent(calls - 1) \in Nat
                    /\ Spent(calls) = Spent(calls - 1) + MaxAttempts
    BY Numbers
<1>1. ASSUME NEW c \in Commands, NEW v \in Option(Values), SendCommand(c, v),
             c \in Writes \ Mute => v \in Values, c \notin Writes \ Mute => v = None
      PROVE  Typed' /\ CallInv'
  <2>1. c # None
    BY <1>0
  <2>2. inbox' \in Seq(Reports) /\ Len(inbox') = Len(inbox)
    BY <1>1, StartDrainEffect DEF SendCommand
  <2>3. /\ pc = "idle" /\ pc' = "drain" /\ calls' = calls + 1 /\ calls < session.calls
        /\ attempt = 1 /\ sends = 0 /\ drained = 0 /\ raw = <<>> /\ abandoned <= Spent(calls)
        /\ Spent(calls) \in Nat /\ calls' - 1 = calls
    BY <1>T, <1>0, <1>n, <1>1, SpentGrows DEF SendCommand, CallInv
  <2>4. Typed'
    <3>1. /\ calls' \in 0..session.calls /\ cmd' \in Option(Commands) /\ arg' \in Option(Values)
          /\ frame' = <<>> /\ verified' = FALSE /\ guessed' \in BOOLEAN
          /\ UNCHANGED <<attempt, sends, drained, raw, session, abandoned, claim, failures, troubled,
                         requests, rest, value>>
      BY <1>n, <1>1, <2>1, <2>3 DEF SendCommand, Option, deviceVars, Guesses
    <3>2. frame' \in Seq(Reports)
      BY <3>1, NoReports
    <3> QED
      BY <1>T, <1>0, <2>2, <2>3, <3>1, <3>2 DEF Typed, Request
  <2> QED
    BY <1>T, <1>0, <1>n, <1>1, <2>1, <2>3, <2>4 DEF SendCommand, CallInv
<1>2. CASE DrainReport
  <2>1. inbox' = Tail(inbox) /\ inbox' \in Seq(Reports) /\ Len(inbox') <= MaxQueued
    BY <1>2, TakeEffect DEF DrainReport, Drainable
  <2> QED
    BY <1>T, <1>0, <1>n, <1>2, <2>1 DEF DrainReport, Drainable, Counted, Continue, Typed, CallInv, callerVars,
        deviceVars
<1>3. CASE Drained
    BY <1>T, <1>0, <1>n, <1>3 DEF Drained, Continue, Typed, CallInv, callerVars, hostVars, deviceVars
<1>4. CASE Write
  <2>1. /\ cmd \in Commands /\ calls > 0
        /\ [of |-> calls, cmd |-> cmd, arg |-> arg] \in Request
    BY <1>T, <1>0, <1>n, <1>4 DEF Write, CallInv, Typed, Request
  <2>2. requests' \in Seq(Request)
    BY <1>T, <1>0, <1>n, <1>4, <2>1, Appends DEF Write
  <2>3. CASE cmd \in Mute
    <3>1. Return(TRUE, <<>>) /\ UNCHANGED <<hostVars, rest, value>>
      BY <1>4, <2>3 DEF Write
    <3>2. /\ pc # "idle" /\ pc # "again" /\ UNCHANGED <<abandoned, inbox, rest, value>>
          /\ abandoned' \in Nat /\ abandoned' <= abandoned + 1
      BY <1>n, <1>4, <3>1 DEF Write, hostVars
    <3> QED
      BY <1>0, <2>1, <2>2, <3>1, <3>2, NothingReturned
  <2>4. CASE cmd \notin Mute
    BY <1>T, <1>0, <1>n, <1>4, <2>1, <2>2, <2>4
       DEF Write, Continue, Typed, CallInv, callerVars, hostVars, Request
  <2> QED
    BY <2>3, <2>4
<1>5. CASE WriteFails \/ ReadFails \/ BackoffCancelled
  <2>1. /\ Return(FALSE, <<>>) /\ cmd \in Commands /\ pc # "idle"
        /\ UNCHANGED <<inbox, requests, rest, value>>
    BY <1>5 DEF WriteFails, ReadFails, BackoffCancelled, CallInv, hostVars, deviceVars
  <2>2. /\ abandoned' \in Nat /\ abandoned' <= abandoned + 1
        /\ pc = "again" => abandoned' = abandoned
    <3>1. \/ abandoned' = abandoned
          \/ pc # "again" /\ abandoned' = abandoned + 1
      BY <1>5 DEF WriteFails, ReadFails, BackoffCancelled, hostVars, Abandon
    <3> QED
      BY <1>n, <3>1
  <2> QED
    BY <1>T, <1>0, <1>n, <2>1, <2>2, NothingReturned
<1>6. CASE ReadReport \/ ReadTimesOut
  <2>0. /\ UNCHANGED <<requests, rest, value>> /\ pc = "read" /\ cmd \in Commands
        /\ abandoned' \in Nat /\ abandoned' <= abandoned + 1
    BY <1>T, <1>0, <1>n, <1>6 DEF ReadReport, ReadTimesOut, Abandon, CallInv, deviceVars
  <2>1. inbox' \in Seq(Reports) /\ Len(inbox') <= MaxQueued
    BY <1>T, <1>0, <1>n, <1>6, ReplyCases, TakeEffect
  <2> DEFINE reports == Append(raw, Head(inbox))
  <2>2. CASE /\ inbox # <<>> /\ reports \in Seq(Reports) /\ Len(reports) <= 2
             /\ Return(TRUE, reports)
    <3> HIDE DEF reports
    <3> QED
      BY <1>T, <1>0, <1>n, <2>0, <2>1, <2>2, ReturnKeeps
  <2>3. CASE /\ ReadReport /\ ~Enough(reports) /\ reports \in Seq(Reports) /\ Len(reports) <= 2
             /\ reports # <<>> /\ raw' = reports /\ Continue("read") /\ UNCHANGED <<attempt, sends, drained>>
    <3>1. abandoned' = abandoned
      BY <2>3 DEF ReadReport
    <3> HIDE DEF reports
    <3>2. Len(reports) = 1 /\ reports[1].part \notin Suffices[cmd]
      <4>1. Len(reports) \in Nat \ {0} /\ Len(reports) <= 2
        BY <2>3, EmptySeq
      <4>2. Len(reports) # 2
        BY <2>3 DEF Enough
      <4>3. Len(reports) = 1
        <5>1. \A n \in Nat \ {0} : n <= 2 /\ n # 2 => n = 1
          OBVIOUS
        <5> QED
          BY <4>1, <4>2, <5>1, Zenon
      <4>4. Head(reports) = reports[1] /\ Head(reports).part \notin Suffices[cmd]
        BY <2>3 DEF Enough
      <4> QED
        BY <4>3, <4>4
    <3>3. Typed'
      BY <1>T, <1>0, <1>n, <2>0, <2>1, <2>3, <3>1 DEF Typed, Continue, callerVars, Request
    <3> QED
      BY <1>T, <1>0, <1>n, <2>0, <2>3, <3>1, <3>2, <3>3 DEF CallInv, Continue, callerVars
  <2>4. CASE TryAgain /\ attempt < MaxAttempts
    <3>1. /\ pc' = "again" /\ troubled' = TRUE /\ raw' = <<>>
          /\ UNCHANGED <<cmd, arg, attempt, sends, drained, calls, frame, claim, verified, failures,
                          guessed>>
      BY <2>4 DEF TryAgain
    <3>2. abandoned < Spent(calls - 1) + attempt /\ calls > 0
      BY <2>0 DEF CallInv
    <3>3. abandoned' <= Spent(calls - 1) + attempt
      BY <1>n, <1>k, <2>0, <3>2
    <3>4. Typed'
      BY <1>T, <1>0, <1>n, <2>0, <2>1, <3>1, <3>3, NoReports DEF Typed, Request
    <3> QED
      BY <1>T, <1>0, <1>n, <2>0, <2>4, <3>1, <3>3, <3>4 DEF CallInv
  <2>5. CASE TryAgain /\ ~(attempt < MaxAttempts)
    <3>1. Return(FALSE, <<>>)
      BY <2>5 DEF TryAgain
    <3> QED
      BY <1>T, <1>0, <1>n, <2>0, <2>1, <3>1, NothingReturned
  <2> QED
    BY <1>6, <2>2, <2>3, <2>4, <2>5, ReplyCases
<1>7. CASE Retry
  <2>1. /\ pc = "again" /\ attempt' = attempt + 1 /\ cmd \in Commands
        /\ UNCHANGED <<sends, drained, raw, abandoned, requests, rest, value, cmd, arg, calls, frame,
                        claim, verified, failures, troubled, guessed>>
        /\ \/ cmd \in Reads /\ cmd \notin Writes /\ pc' = "drain"
           \/ cmd \in Writes /\ pc' = "read"
    <3>1. pc = "again" /\ cmd \in Commands
      BY <1>7 DEF Retry, CallInv
    <3> QED
      BY <1>7, <3>1, CommandsAssumption DEF Retry, Resends, Continue, callerVars, deviceVars, Commands
  <2>2. inbox' \in Seq(Reports) /\ Len(inbox') <= MaxQueued
    BY <1>T, <1>0, <1>n, <1>7, StartDrainEffect DEF Retry
  <2>3. Typed'
    BY <1>T, <1>0, <1>n, <2>1, <2>2 DEF Typed, CallInv, Request
  <2>4. Spent(calls - 1) \in Nat
    BY <1>T, <1>0, <1>n, <2>1, SpentGrows DEF CallInv
  <2> QED
    BY <1>T, <1>0, <1>n, <2>1, <2>3, <2>4 DEF CallInv
<1>8. CASE Swallow \/ Reopen
  <2>1. inbox' \in Seq(Reports) /\ Len(inbox') <= MaxQueued
    <3>1. \/ inbox # <<>> /\ inbox' = Tail(inbox)
          \/ inbox' = <<>>
      BY <1>8 DEF Swallow, Reopen
    <3> QED
      <4>1. inbox' = <<>> => inbox' \in Seq(Reports) /\ Len(inbox') = 0
        BY NoReports
      <4> QED
        BY <1>n, <3>1, <4>1, TakeEffect
  <2>2. abandoned' \in Nat /\ abandoned' <= abandoned
    BY <1>T, <1>0, <1>n, <1>8 DEF Swallow, Reopen
  <2>3. /\ UNCHANGED <<pc, calls, cmd, arg, attempt, sends, drained, raw, requests, rest, value>>
    BY <1>8 DEF Swallow, Reopen, localVars, callerVars, deviceVars
  <2>4. Typed'
    BY <1>T, <1>0, <1>n, <1>8, <2>1, <2>2, <2>3, NoReports DEF Swallow, Reopen, Typed, callerVars, Option, Request
  <2> QED
    BY <1>n, <1>k, <2>2, <2>3, <2>4 DEF CallInv
<1>9. CASE Obey \/ Drop \/ SecondReport \/ Stray
  <2>1. UNCHANGED <<session, abandoned, pc, localVars, callerVars>>
    BY <1>9 DEF Obey, Drop, SecondReport, Stray, hostVars
  <2>2. CallInv'
    BY <2>1 DEF CallInv, localVars, callerVars
  <2>3. CASE Obey
    <3> DEFINE request == Head(requests)
    <3>1. request \in Request /\ requests' = Tail(requests) /\ requests' \in Seq(Request)
      BY <1>T, <1>0, <1>n, <2>3, Tails DEF Obey
    <3> HIDE DEF request
    <3>3. \/ UNCHANGED <<inbox, rest>>
          \/ /\ request.cmd \notin Mute /\ Arrive(Reply(request, "first"))
             /\ \E begins \in Unasked : rest' = <<Report(request, "rest", begins)>>
          \/ request.cmd \notin Mute /\ Arrive(Reply(request, "whole")) /\ rest' = rest
      BY <2>3 DEF Obey, request
    <3>2. /\ request.cmd \notin Mute => \A part \in {"whole", "first"} : Reply(request, part) \in Reports
          /\ \A begins \in Unasked : Report(request, "rest", begins) \in Reports
      <4>1. Unasked \subseteq Beginnings
        BY DEF Beginnings
      <4> QED
        BY <3>1, <4>1, ReportType, ReplyType
    <3>v. value' \in Values
      BY <1>T, <2>3, <3>1 DEF Obey, Typed, Request, request, Option
    <3>4. inbox' \in Seq(Reports) /\ Len(inbox') <= MaxQueued
      BY <1>T, <1>0, <1>n, <3>2, <3>3, ArriveEffect
    <3>5. rest' \in Seq(Reports)
      <4>1. \A begins \in Unasked : <<Report(request, "rest", begins)>> \in Seq(Reports)
        BY <3>2
      <4> QED
        BY <1>T, <1>0, <1>n, <3>3, <4>1
    <3> QED
      BY <1>T, <1>0, <1>n, <2>1, <2>2, <3>1, <3>v, <3>4, <3>5 DEF Typed, localVars, callerVars, Request
  <2>4. CASE Drop
    <3>1. requests' \in Seq(Request)
      BY <1>T, <1>0, <1>n, <2>4, Tails DEF Drop
    <3> QED
      BY <1>T, <1>0, <1>n, <2>1, <2>2, <2>4, <3>1 DEF Drop, Typed, localVars, callerVars, hostVars, Request
  <2>5. CASE SecondReport \/ Stray
    <3>1. inbox' \in Seq(Reports) /\ Len(inbox') <= MaxQueued
      <4>1. SecondReport => rest[1] \in Reports
        BY <1>T, <1>0, <1>n, Tails DEF SecondReport
      <4>2. Stray => \E r \in Reports : Arrive(r)
        BY StrayArrives, StrayType
      <4> QED
        BY <2>5, <4>1, <4>2, ArriveEffect DEF SecondReport
    <3>2. rest' \in Seq(Reports) /\ UNCHANGED <<requests, value>>
      BY <1>T, <1>0, <1>n, <2>5, NoReports DEF SecondReport, Stray, deviceVars
    <3> QED
      BY <1>T, <1>0, <1>n, <2>1, <2>2, <3>1, <3>2 DEF Typed, localVars, callerVars, Request
  <2> QED
    BY <1>9, <2>3, <2>4, <2>5
<1>10. CASE UNCHANGED vars
    BY <1>T, <1>0, <1>n, <1>10 DEF vars, localVars, callerVars, hostVars, deviceVars, Typed, CallInv
<1> QED
  <2>1. ASSUME NEW c \in session.commands \cap (Reads \cup Mute), SendCommand(c, None)
        PROVE  Typed' /\ CallInv'
    <3>1. c \in Commands /\ None \in Option(Values) /\ c \notin Writes \ Mute
      BY <2>1, CommandsAssumption DEF Commands, Option
    <3> QED
      BY <1>1, <2>1, <3>1
  <2>2. ASSUME NEW c \in session.commands \cap (Writes \ Mute), NEW v \in Values, SendCommand(c, v)
        PROVE  Typed' /\ CallInv'
    <3>1. c \in Commands /\ v \in Option(Values)
      BY <2>2 DEF Commands, Option
    <3> QED
      BY <1>1, <2>2, <3>1
  <2> QED
    BY <1>2, <1>3, <1>4, <1>5, <1>6, <1>7, <1>8, <1>9, <1>10, <2>1, <2>2 DEF Next, Step

LEMMA FirstState ==
    ASSUME Init
    PROVE  TypeOK /\ CallInv
<1>1. /\ session \in Sessions /\ session.calls \in Nat /\ None \notin Commands
      /\ MaxAttempts \in Nat \ {0} /\ MaxDrained \in Nat /\ MaxQueued \in Nat
    BY CommandsAssumption, LimitsAssumption DEF Init
<1>2. /\ <<>> \in Seq(Request) /\ <<>> \in Seq(Reports) /\ Len(<<>>) = 0
    BY NoReports
<1>3. Typed
  <2>1. {raw, frame} \subseteq Seq(Reports) /\ Len(raw) <= 2 /\ rest \in Seq(Reports)
    BY <1>2 DEF Init
  <2>2. inbox \in Seq(Reports) /\ Len(inbox) <= MaxQueued /\ requests \in Seq(Request)
    BY <1>1, <1>2 DEF Init
  <2>3. calls \in 0..session.calls /\ attempt \in 1..MaxAttempts
    BY <1>1 DEF Init
  <2>4. /\ cmd \in Option(Commands) /\ arg \in Option(Values) /\ claim \in Option(Values)
        /\ sends \in 0..MaxAttempts /\ drained \in 0..MaxDrained /\ failures \in 0..2
        /\ abandoned \in Nat
    BY <1>1 DEF Init, Option
  <2>5. /\ value \in Values /\ verified \in BOOLEAN /\ troubled \in BOOLEAN /\ guessed \in BOOLEAN
        /\ pc \in {"idle", "drain", "write", "read", "again"} /\ session \in Sessions
    BY DEF Init
  <2> QED
    BY <2>1, <2>2, <2>3, <2>4, <2>5 DEF Typed
<1>4. Writes \subseteq Commands /\ Spent(calls) \in Nat /\ Spent(0) = 0
    BY SpentGrows DEF Commands, Init
<1>5. CallInv
    BY <1>1, <1>4 DEF Init, CallInv
<1> QED
    BY <1>3, <1>5, TypedIsTypeOK

\* The counters and queues of a session stay in their bounds, the readers left
\* behind on a handle that cannot time out a read among them.
THEOREM TypeCorrect == Spec => []TypeOK
<1>1. Init => TypeOK /\ CallInv
    BY FirstState
<1>2. TypeOK /\ CallInv /\ [Next]_vars => TypeOK' /\ CallInv'
    BY CallStep
<1> QED
    BY <1>1, <1>2, PTL DEF Spec

\* A write goes out once, however often its acknowledgement is awaited: a controller
\* is never made to store a setting twice.
THEOREM WriteGoesOutOnce == Spec => []WrittenOnce
<1>1. Init => TypeOK /\ CallInv
    BY FirstState
<1>2. TypeOK /\ CallInv /\ [Next]_vars => TypeOK' /\ CallInv'
    BY CallStep
<1>3. TypeOK /\ CallInv => WrittenOnce
    BY CommandsAssumption DEF CallInv, WrittenOnce, TypeOK, Commands
<1> QED
    BY <1>1, <1>2, <1>3, PTL DEF Spec

-----------------------------------------------------------------------------
(* What is in flight.                                                      *)

\* A report that can be the first of an answer.
Lead(r) == r.of # 0 /\ r.part # "rest"

\* A report of one of the first n calls, or one that nobody asked for.
Known(r, n) ==
    /\ r.of <= n
    /\ IF Lead(r) THEN r.begins = Answers[r.cmd] ELSE r.begins \in Unasked
    /\ r.cmd = None => r.of = 0 /\ r.part = "whole"
    /\ r.cmd # None => r.of # 0 /\ r.cmd \notin Mute
    /\ r.part # "whole" => r.cmd \in Split

\* A request of one of the first n calls.
Asked(q, n) ==
    /\ q.of <= n
    /\ q.cmd \notin Writes \ Mute => q.arg = None
    /\ q.cmd \in Writes \ Mute => q.arg \in Values

InFlight(n) ==
    /\ \A i \in DOMAIN inbox : Known(inbox[i], n)
    /\ \A k \in DOMAIN requests : Asked(requests[k], n)
    /\ \A l \in DOMAIN rest : Known(rest[l], n) /\ rest[l].part = "rest" /\ rest[l].fresh

FlightInv ==
    /\ InFlight(calls)
    /\ \A i \in DOMAIN raw : Known(raw[i], calls)
    /\ cmd \in Writes /\ pc \in {"drain", "write"} => InFlight(calls - 1)

\* The device takes its oldest request and answers it, or does not.
LEMMA ObeyCases ==
    ASSUME TypeOK, Obey
    PROVE  LET request == requests[1] IN
             /\ requests # <<>> /\ requests' = Tail(requests) /\ rest = <<>>
             /\ 1 \in DOMAIN requests /\ request \in Request
             /\ value' = IF request.cmd \in Writes /\ request.arg # None THEN request.arg ELSE value
             /\ UNCHANGED <<session, abandoned, pc, localVars, callerVars>>
             /\ \/ UNCHANGED <<inbox, rest>>
                \/ \E part \in {"whole", "first"} :
                     /\ request.cmd \notin Mute /\ (part = "first" <=> request.cmd \in Split)
                     /\ Reply(request, part) \in Reports
                     /\ inbox' \in {inbox, Append(inbox, Reply(request, part))}
                     /\ \/ part = "whole" /\ rest' = rest
                        \/ /\ part = "first"
                           /\ \E begins \in Unasked : rest' = <<Report(request, "rest", begins)>>
<1> DEFINE request == Head(requests)
<1>1. requests # <<>> /\ requests \in Seq(Request) /\ requests' = Tail(requests) /\ rest = <<>>
    BY DEF Obey, TypeOK, Request
<1>2. request = requests[1] /\ request \in Request /\ 1 \in DOMAIN requests
    BY <1>1, Tails
<1>3. /\ value' = IF request.cmd \in Writes /\ request.arg # None THEN request.arg ELSE value
      /\ UNCHANGED <<session, abandoned, pc, localVars, callerVars>>
      /\ \/ UNCHANGED <<inbox, rest>>
         \/ /\ request.cmd \notin Mute
            /\ IF request.cmd \in Split
               THEN /\ Arrive(Reply(request, "first"))
                    /\ \E begins \in Unasked : rest' = <<Report(request, "rest", begins)>>
               ELSE Arrive(Reply(request, "whole")) /\ UNCHANGED rest
    BY DEF Obey
<1> HIDE DEF request
<1>4. ASSUME NEW part \in {"whole", "first"}, request.cmd \notin Mute, Arrive(Reply(request, part))
      PROVE  /\ Reply(request, part) \in Reports
             /\ inbox' \in {inbox, Append(inbox, Reply(request, part))}
  <2>1. Reply(request, part) \in Reports
    BY <1>2, <1>4, ReplyType
  <2> QED
    BY <1>4, <2>1, ArriveEffect
<1> QED
    BY <1>1, <1>2, <1>3, <1>4

LEMMA KnownLater ==
    ASSUME NEW r, NEW n \in Nat, NEW m \in Nat, n <= m, r.of \in Nat, Known(r, n)
    PROVE  Known(r, m)
BY DEF Known

LEMMA InFlightStep ==
    ASSUME TypeOK, CallInv, [Next]_vars, NEW n \in Nat, InFlight(n), Write => calls <= n
    PROVE  InFlight(n)'
<1>0. inbox \in Seq(Reports) /\ requests \in Seq(Request) /\ rest \in Seq(Reports)
    BY DEF TypeOK, Request
<1>1. CASE StartDrain /\ UNCHANGED <<requests, rest>>
  <2>1. \A i \in DOMAIN inbox' : Known(inbox'[i], n)
    BY <1>1, StartDrainEffect DEF InFlight, Known, Lead
  <2> QED
    BY <1>1, <2>1 DEF InFlight
<1>2. CASE inbox # <<>> /\ inbox' = Tail(inbox) /\ UNCHANGED <<requests, rest>>
  <2>1. \A i \in DOMAIN inbox' : Known(inbox'[i], n)
    BY <1>0, <1>2, Tails DEF InFlight
  <2> QED
    BY <1>2, <2>1 DEF InFlight
<1>3. CASE UNCHANGED <<inbox, requests, rest>>
    BY <1>3 DEF InFlight
<1>4. CASE Reopen
  <2>1. DOMAIN inbox' = {} /\ UNCHANGED <<requests, rest>>
    BY <1>4 DEF Reopen, deviceVars
  <2> QED
    BY <2>1 DEF InFlight
<1>5. CASE Write
  <2>1. /\ [of |-> calls, cmd |-> cmd, arg |-> arg] \in Request
        /\ Asked([of |-> calls, cmd |-> cmd, arg |-> arg], n)
    <3>1. calls \in 1..session.calls /\ cmd \in Commands /\ arg \in Option(Values)
      BY <1>5, Numbers DEF Write, CallInv, TypeOK
    <3>2. /\ cmd \in Writes \ Mute => arg \in Values
          /\ cmd \notin Writes \ Mute => arg = None
      BY DEF CallInv
    <3> QED
      BY <1>5, <3>1, <3>2 DEF Request, Asked
  <2>2. \A k \in DOMAIN requests' : Asked(requests'[k], n)
    <3> DEFINE request == [of |-> calls, cmd |-> cmd, arg |-> arg]
    <3>1. requests' = Append(requests, request)
      BY <1>5 DEF Write
    <3> HIDE DEF request
    <3>2. request \in Request /\ Asked(request, n)
      BY <2>1 DEF request
    <3> QED
      BY <1>0, <3>1, <3>2, Appends DEF InFlight
  <2>3. UNCHANGED <<inbox, rest>>
    BY <1>5 DEF Write, hostVars
  <2> QED
    BY <2>2, <2>3 DEF InFlight
<1>6. CASE requests # <<>> /\ requests' = Tail(requests) /\ UNCHANGED <<inbox, rest>>
  <2>1. \A k \in DOMAIN requests' : Asked(requests'[k], n)
    BY <1>0, <1>6, Tails DEF InFlight
  <2> QED
    BY <1>6, <2>1 DEF InFlight
<1>7. CASE Obey
  <2> DEFINE request == requests[1]
  <2>1. /\ requests # <<>> /\ requests' = Tail(requests) /\ 1 \in DOMAIN requests
        /\ request \in Request /\ request.of # 0 /\ request.cmd # None
    BY <1>7, ObeyCases, CommandsAssumption DEF Request
  <2>2. Asked(request, n)
    BY <2>1 DEF InFlight
  <2>3. /\ \A part \in {"whole", "first"} :
              request.cmd \notin Mute /\ (part = "first" => request.cmd \in Split)
                => Known(Reply(request, part), n)
        /\ \A begins \in Unasked :
              request.cmd \in Split \ Mute
                => /\ Known(Report(request, "rest", begins), n)
                   /\ Report(request, "rest", begins).part = "rest"
                   /\ Report(request, "rest", begins).fresh
    BY <2>1, <2>2 DEF Report, Reply, Known, Asked, Lead
  <2>4. CASE UNCHANGED <<inbox, rest>>
    BY <1>6, <2>1, <2>4
  <2>5. ASSUME NEW part \in {"whole", "first"},
               request.cmd \notin Mute /\ (part = "first" <=> request.cmd \in Split),
               Reply(request, part) \in Reports,
               inbox' \in {inbox, Append(inbox, Reply(request, part))},
               \/ part = "whole" /\ rest' = rest
               \/ part = "first" /\ \E begins \in Unasked : rest' = <<Report(request, "rest", begins)>>
        PROVE  InFlight(n)'
    <3>0. Known(Reply(request, part), n)
      BY <2>3, <2>5
    <3>1. \A i \in DOMAIN inbox' : Known(inbox'[i], n)
      <4> DEFINE report == Reply(request, part)
      <4>1. report \in Reports /\ inbox' \in {inbox, Append(inbox, report)} /\ Known(report, n)
        BY <2>5, <3>0
      <4> HIDE DEF report, request
      <4>2. CASE inbox' = inbox
        BY <4>2 DEF InFlight
      <4>3. CASE inbox' = Append(inbox, report)
        BY <1>0, <4>1, <4>3, Appends DEF InFlight
      <4> QED
        BY <4>1, <4>2, <4>3
    <3>2. \A k \in DOMAIN requests' : Asked(requests'[k], n)
      BY <1>0, <2>1, Tails DEF InFlight
    <3>3. \A l \in DOMAIN rest' : Known(rest'[l], n) /\ rest'[l].part = "rest" /\ rest'[l].fresh
      <4>1. CASE rest' = rest
        BY <4>1 DEF InFlight
      <4>2. ASSUME NEW begins \in Unasked, part = "first", rest' = <<Report(request, "rest", begins)>>
            PROVE  \A l \in DOMAIN rest' : Known(rest'[l], n) /\ rest'[l].part = "rest" /\ rest'[l].fresh
        <5> HIDE DEF request
        <5>1. DOMAIN rest' = {1} /\ rest'[1] = Report(request, "rest", begins)
          BY <4>2
        <5> QED
          BY <2>3, <2>5, <4>2, <5>1
      <4> QED
        BY <2>5, <4>1, <4>2
    <3> QED
      BY <3>1, <3>2, <3>3 DEF InFlight
  <2> HIDE DEF request
  <2> QED
    BY <1>7, <2>4, <2>5, ObeyCases DEF request
<1>8. CASE SecondReport \/ Stray
  <2>1. PICK r \in Reports : Arrive(r) /\ Known(r, n)
    <3>1. CASE SecondReport
      <4>1. rest[1] \in Reports /\ 1 \in DOMAIN rest /\ Arrive(rest[1])
        BY <1>0, <3>1, Tails DEF SecondReport
      <4> QED
        BY <4>1 DEF InFlight
    <3>2. CASE Stray
      <4>1. PICK begins \in Unasked : Arrive(StrayReport(begins))
        BY <3>2, StrayArrives
      <4>2. Known(StrayReport(begins), n)
        BY DEF Known, StrayReport, Lead
      <4> QED
        BY <4>1, <4>2, StrayType
    <3> QED
      BY <1>8, <3>1, <3>2
  <2>2. inbox' = inbox \/ inbox' = Append(inbox, r)
    BY <2>1, ArriveEffect
  <2>3. \A i \in DOMAIN inbox' : Known(inbox'[i], n)
    <3>1. CASE inbox' = inbox
      BY <3>1 DEF InFlight
    <3>2. CASE inbox' = Append(inbox, r)
      BY <1>0, <2>1, <3>2, Appends DEF InFlight
    <3> QED
      BY <2>2, <3>1, <3>2
  <2>4. requests' = requests /\ (rest' = rest \/ DOMAIN rest' = {})
    BY <1>8 DEF SecondReport, Stray, deviceVars
  <2> QED
    BY <2>3, <2>4 DEF InFlight
<1>9. ASSUME NEW c, NEW v, SendCommand(c, v)
      PROVE  StartDrain /\ UNCHANGED <<requests, rest>>
    BY <1>9 DEF SendCommand, deviceVars
<1>10. CASE DrainReport \/ ReadReport \/ Swallow
    BY <1>2, <1>10 DEF DrainReport, Drainable, ReadReport, Swallow, deviceVars
<1>11. CASE \/ Drained \/ ReadTimesOut \/ WriteFails \/ ReadFails \/ BackoffCancelled \/ UNCHANGED vars
    BY <1>3, <1>11 DEF Drained, ReadTimesOut, WriteFails, ReadFails, BackoffCancelled, vars,
        hostVars, deviceVars
<1>12. CASE Retry
    BY <1>1, <1>3, <1>12 DEF Retry, deviceVars
<1>13. CASE Drop
    BY <1>6, <1>13 DEF Drop, hostVars
<1> QED
    BY <1>1, <1>4, <1>5, <1>7, <1>8, <1>9, <1>10, <1>11, <1>12, <1>13 DEF Next, Step

\* What is returned leaves no call under way.
LEMMA Returned ==
    ASSUME NEW ok, NEW reports, Return(ok, reports)
    PROVE  pc' = "idle" /\ cmd' = None /\ raw' = <<>> /\ calls' = calls
BY DEF Return

LEMMA CallerCases ==
    ASSUME TypeOK, CallInv, [Next]_vars
    PROVE  \/ \E c \in Commands, v \in Option(Values) :
                /\ c \in session.commands /\ SendCommand(c, v)
                /\ calls' = calls + 1 /\ cmd' = c /\ raw' = raw /\ pc' = "drain"
           \/ /\ calls' = calls
              /\ cmd' \in {cmd, None}
              /\ \/ raw' \in {<<>>, raw}
                 \/ inbox # <<>> /\ raw = <<>> /\ raw' = Append(raw, Head(inbox))
              /\ pc' \in {"drain", "write"} =>
                   \/ cmd' = cmd /\ pc \in {"drain", "write"} /\ ~Write
                   \/ cmd' \in Reads
<1>1. ASSUME NEW c, NEW v, SendCommand(c, v)
      PROVE  calls' = calls + 1 /\ cmd' = c /\ raw' = raw /\ pc' = "drain"
    BY <1>1 DEF SendCommand
<1>2. CASE WriteFails \/ ReadFails \/ BackoffCancelled
    BY <1>2, Returned DEF WriteFails, ReadFails, BackoffCancelled
<1>3. CASE Write
  <2>1. CASE Return(TRUE, <<>>)
    BY <2>1, Returned
  <2>2. CASE Continue("read") /\ UNCHANGED <<attempt, drained, raw>>
    BY <2>2 DEF Continue, callerVars
  <2> QED
    BY <1>3, <2>1, <2>2 DEF Write
<1>4. CASE ReadReport \/ ReadTimesOut
  <2>1. CASE TryAgain
    <3>1. CASE attempt < MaxAttempts
      BY <2>1, <3>1 DEF TryAgain
    <3>2. CASE ~(attempt < MaxAttempts)
      BY <2>1, <3>2, Returned DEF TryAgain
    <3> QED
      BY <3>1, <3>2
  <2>2. ASSUME NEW reports, Return(TRUE, reports)
        PROVE  pc' = "idle" /\ cmd' = None /\ raw' = <<>> /\ calls' = calls
    BY <2>2, Returned
  <2>3. CASE /\ inbox # <<>> /\ raw = <<>> /\ raw' = Append(raw, Head(inbox)) /\ Continue("read")
    BY <2>3 DEF Continue, callerVars
  <2> QED
    BY <1>4, <2>1, <2>2, <2>3, ReplyCases
<1>5. CASE DrainReport \/ Drained
    BY <1>5 DEF DrainReport, Drained, Continue, callerVars, Write
<1>6. CASE Retry
    BY <1>6 DEF Retry, Resends, Continue, callerVars
<1>7. CASE Swallow \/ Reopen \/ Obey \/ Drop \/ SecondReport \/ Stray \/ UNCHANGED vars
  <2>1. UNCHANGED <<pc, calls, cmd, raw, sends>>
    BY <1>7 DEF Swallow, Reopen, Obey, Drop, SecondReport, Stray, vars, localVars, callerVars
  <2>2. ~Write
    <3>1. CASE cmd \in Mute
      BY <2>1, <3>1, Returned DEF Write
    <3>2. CASE cmd \notin Mute
      BY <2>1, <3>2 DEF Write, Continue
    <3> QED
      BY <3>1, <3>2
  <2> QED
    BY <2>1, <2>2
<1>8. ASSUME NEW c \in session.commands \cap (Reads \cup Mute)
      PROVE  c \in Commands /\ None \in Option(Values)
    BY <1>8, CommandsAssumption DEF Commands, Option
<1>9. ASSUME NEW c \in session.commands \cap (Writes \ Mute), NEW v \in Values
      PROVE  c \in Commands /\ v \in Option(Values)
    BY <1>9 DEF Commands, Option
<1> QED
    BY <1>1, <1>2, <1>3, <1>4, <1>5, <1>6, <1>7, <1>8, <1>9 DEF Next, Step

LEMMA FieldsInFlight ==
    ASSUME TypeOK
    PROVE  /\ \A i \in DOMAIN inbox : inbox[i] \in Reports /\ inbox[i].of \in Nat /\ i \in Nat \ {0}
           /\ \A i \in DOMAIN raw : raw[i] \in Reports /\ raw[i].of \in Nat
           /\ \A l \in DOMAIN rest : rest[l] \in Reports /\ rest[l].of \in Nat
           /\ \A k \in DOMAIN requests :
                requests[k] \in Request /\ requests[k].of \in Nat \ {0} /\ k \in Nat \ {0}
<1>1. /\ inbox \in Seq(Reports) /\ raw \in Seq(Reports) /\ rest \in Seq(Reports)
      /\ requests \in Seq(Request) /\ session.calls \in Nat
    BY CommandsAssumption DEF TypeOK, Request
<1>2. /\ \A r \in Reports : r.of \in Nat
      /\ \A q \in Request : q.of \in Nat \ {0}
    BY <1>1 DEF Reports, Request
<1>3. \A i \in DOMAIN inbox : inbox[i] \in Reports /\ i \in Nat \ {0}
    BY <1>1, Elements
<1>4. \A i \in DOMAIN raw : raw[i] \in Reports
    BY <1>1, Elements
<1>5. \A i \in DOMAIN rest : rest[i] \in Reports
    BY <1>1, Elements
<1>6. \A k \in DOMAIN requests : requests[k] \in Request /\ k \in Nat \ {0}
    BY <1>1, Elements
<1> QED
    BY <1>2, <1>3, <1>4, <1>5, <1>6

Later == \A n \in Nat, m \in Nat : TypeOK /\ n <= m /\ InFlight(n) => InFlight(m)

LEMMA InFlightLater == Later
BY FieldsInFlight DEF Later, InFlight, Known, Asked

LEMMA InFlightNext == Later'
BY InFlightLater, PTL

LEMMA FlightStep ==
    ASSUME TypeOK, TypeOK', CallInv, FlightInv, [Next]_vars
    PROVE  FlightInv'
<1>0. calls \in Nat /\ calls' \in Nat /\ inbox \in Seq(Reports) /\ raw \in Seq(Reports)
    BY Numbers, CommandsAssumption DEF TypeOK
<1>1. InFlight(calls)' /\ calls <= calls'
  <2>1. InFlight(calls)
    BY DEF FlightInv
  <2>2. \A n \in Nat : n = calls => InFlight(n)'
    BY <1>0, <2>1, InFlightStep
  <2>3. calls' \in {calls, calls + 1}
    BY CallerCases
  <2>4. calls <= calls'
    BY <1>0, <2>3
  <2>5. \A n \in Nat : n = calls' => InFlight(n)'
    BY <1>0, <2>2, <2>4, InFlightNext DEF Later
  <2> QED
    BY <1>0, <2>4, <2>5 DEF InFlight
<1>2. \A i \in DOMAIN raw' : Known(raw'[i], calls')
  <2>1. \A i \in DOMAIN raw : Known(raw[i], calls') /\ raw[i] \in Reports
    <3>1. \A i \in DOMAIN raw : raw[i] \in Reports /\ raw[i].of \in Nat /\ Known(raw[i], calls)
      BY FieldsInFlight DEF FlightInv
    <3> QED
      BY <1>0, <1>1, <3>1, KnownLater
  <2>2. CASE raw' = raw
    BY <2>1, <2>2
  <2>3. CASE raw' = <<>>
    BY <2>3
  <2>4. CASE inbox # <<>> /\ raw = <<>> /\ raw' = Append(raw, Head(inbox))
    <3>1. Head(inbox) = inbox[1] /\ 1 \in DOMAIN inbox /\ Head(inbox) \in Reports
      BY <2>4, TakeEffect
    <3>2. Known(Head(inbox), calls')
      <4>1. Known(Head(inbox), calls) /\ Head(inbox).of \in Nat
        BY <3>1, Numbers DEF FlightInv, InFlight, Reports
      <4> QED
        BY <1>0, <1>1, <4>1, KnownLater
    <3> QED
      BY <1>0, <2>1, <2>4, <3>1, <3>2, Appends
  <2> QED
    BY <2>2, <2>3, <2>4, CallerCases
<1>3. ASSUME cmd' \in Writes, pc' \in {"drain", "write"}
      PROVE  InFlight(calls - 1)'
  <2>1. CASE calls' = calls + 1 /\ ~Write
    <3>1. calls' - 1 = calls
      BY <1>0, <2>1
    <3>2. InFlight(calls)
      BY DEF FlightInv
    <3>3. \A n \in Nat : n = calls => InFlight(n)'
      BY <1>0, <2>1, <3>2, InFlightStep
    <3> QED
      BY <1>0, <3>1, <3>3 DEF InFlight
  <2>2. CASE calls' = calls /\ cmd' = cmd /\ pc \in {"drain", "write"} /\ ~Write
    <3>1. calls - 1 \in Nat /\ calls' - 1 = calls - 1
      BY <2>2, Numbers DEF CallInv
    <3>2. InFlight(calls - 1)
      BY <1>3, <2>2 DEF FlightInv
    <3>3. \A n \in Nat : n = calls - 1 => InFlight(n)'
      BY <2>2, <3>1, <3>2, InFlightStep
    <3> QED
      BY <3>1, <3>3 DEF InFlight
  <2>3. ASSUME NEW c, NEW v, SendCommand(c, v)
        PROVE  ~Write
    BY <2>3 DEF SendCommand, Write
  <2> QED
    BY <1>0, <1>3, <2>1, <2>2, <2>3, CallerCases, CommandsAssumption
<1> QED
  BY <1>1, <1>2, <1>3 DEF FlightInv

-----------------------------------------------------------------------------
(* Nothing stale answers.                                                  *)

\* The reports that were queued when the drain began are the first of the queue, and
\* the drain has not reached its limit before it has discarded them all.
FreshInv ==
    session.timed /\ MaxQueued <= MaxDrained =>
        /\ \A i \in DOMAIN inbox :
             ~inbox[i].fresh => pc = "idle" \/ (pc = "drain" /\ i <= MaxDrained - drained)
        /\ \A i \in DOMAIN raw : raw[i].fresh
        /\ \A i \in DOMAIN frame : frame[i].fresh

LEMMA FreshStep ==
    ASSUME TypeOK, CallInv, FlightInv, FreshInv, [Next]_vars
    PROVE  FreshInv'
<1> SUFFICES ASSUME session.timed, MaxQueued <= MaxDrained
             PROVE  FreshInv'
    BY SessionStays DEF FreshInv
<1>0. /\ inbox \in Seq(Reports) /\ Len(inbox) <= MaxQueued /\ raw \in Seq(Reports)
      /\ MaxDrained \in Nat /\ MaxQueued \in Nat /\ drained \in Nat /\ Len(inbox) \in Nat
      /\ drained <= MaxDrained
      /\ \A i \in DOMAIN inbox : i \in Nat /\ i <= Len(inbox)
    BY Numbers, Elements DEF TypeOK
<1>1. /\ \A i \in DOMAIN inbox :
           ~inbox[i].fresh => pc = "idle" \/ (pc = "drain" /\ i <= MaxDrained - drained)
      /\ \A i \in DOMAIN raw : raw[i].fresh
      /\ \A i \in DOMAIN frame : frame[i].fresh
    BY DEF FreshInv
\* A report that arrives is fresh.
<1>2. ASSUME NEW r \in Reports, Arrive(r), r.fresh, UNCHANGED <<pc, drained, raw, frame>>
      PROVE  FreshInv'
  <2>1. CASE inbox' = inbox
    BY <1>1, <1>2, <2>1 DEF FreshInv
  <2>2. CASE inbox' = Append(inbox, r)
    <3>1. \A i \in DOMAIN inbox' : inbox'[i] = r \/ (i \in DOMAIN inbox /\ inbox'[i] = inbox[i])
      BY <1>0, <2>2, Appends
    <3> QED
      BY <1>1, <1>2, <3>1 DEF FreshInv
  <2> QED
    BY <1>2, <2>1, <2>2, ArriveEffect
<1>3. CASE UNCHANGED <<inbox, pc, drained, raw, frame>>
    BY <1>1, <1>3 DEF FreshInv
\* The oldest report goes, to nobody or to the drain.
<1>4. CASE /\ inbox # <<>> /\ inbox' = Tail(inbox) /\ pc' = pc /\ UNCHANGED <<raw, frame>>
           /\ drained' = drained \/ drained' = drained + 1
  <2>1. \A i \in DOMAIN inbox' : i + 1 \in DOMAIN inbox /\ inbox'[i] = inbox[i + 1] /\ i \in Nat
    BY <1>0, <1>4, Tails
  <2>2. \A i \in DOMAIN inbox' :
          ~inbox'[i].fresh => pc' = "idle" \/ (pc' = "drain" /\ i <= MaxDrained - drained')
    BY <1>0, <1>1, <1>4, <2>1
  <2> QED
    BY <1>1, <1>4, <2>2 DEF FreshInv
<1>5. ASSUME NEW c, NEW v, SendCommand(c, v) \/ (Retry /\ Resends)
      PROVE  FreshInv'
  <2>1. /\ DOMAIN inbox' = DOMAIN inbox /\ pc' = "drain" /\ drained' = 0 /\ raw' = raw
        /\ frame' = <<>> \/ frame' = frame
    BY <1>5, StartDrainEffect DEF SendCommand, Retry, CallInv, Continue, callerVars
  <2>2. \A i \in DOMAIN inbox' : i <= MaxDrained - drained'
    BY <1>0, <2>1
  <2> QED
    BY <1>1, <2>1, <2>2 DEF FreshInv
\* What comes before the request has all been discarded.
<1>6. CASE Drained
  <2>1. \A i \in DOMAIN inbox : inbox[i].fresh
    <3>1. pc = "drain" /\ (inbox = <<>> \/ ~(drained < MaxDrained))
      BY <1>6 DEF Drained, Drainable
    <3> QED
      BY <1>0, <1>1, <3>1, Elements
  <2> QED
    BY <1>1, <1>6, <2>1 DEF Drained, FreshInv, Continue, hostVars, callerVars
<1>7. CASE pc \in {"write", "read", "again"} /\ pc' \in {"read", "again", "idle"} /\ inbox' = inbox
           /\ raw' \in {raw, <<>>} /\ frame' \in {frame, <<>>}
    BY <1>1, <1>7 DEF FreshInv
<1>8. CASE Write \/ WriteFails \/ ReadFails \/ BackoffCancelled \/ (Retry /\ ~Resends)
  <2>1. inbox' = inbox /\ pc \in {"write", "read", "again"}
    BY <1>8 DEF Write, WriteFails, ReadFails, BackoffCancelled, Retry, hostVars
  <2>2. ASSUME NEW ok, Return(ok, <<>>)
        PROVE  pc' = "idle" /\ raw' = <<>> /\ frame' = <<>>
    BY <2>2 DEF Return
  <2>3. ASSUME Continue("read"), raw' = raw
        PROVE  pc' = "read" /\ frame' = frame
    BY <2>3 DEF Continue, callerVars
  <2> QED
    BY <1>7, <1>8, <2>1, <2>2, <2>3 DEF Write, WriteFails, ReadFails, BackoffCancelled, Retry
<1>9. CASE ReadReport \/ ReadTimesOut
  <2>0. pc = "read" /\ \A i \in DOMAIN inbox : inbox[i].fresh
    BY <1>1, <1>9 DEF ReadReport, ReadTimesOut
  <2>1. \A i \in DOMAIN inbox' : inbox'[i].fresh
    <3>1. inbox' = inbox \/ (inbox # <<>> /\ inbox' = Tail(inbox))
      BY <1>9 DEF ReadReport, ReadTimesOut
    <3>2. CASE inbox # <<>> /\ inbox' = Tail(inbox)
      <4>1. \A i \in DOMAIN inbox' : i + 1 \in DOMAIN inbox /\ inbox'[i] = inbox[i + 1]
        BY <1>0, <3>2, Tails
      <4> QED
        BY <2>0, <4>1
    <3> QED
      BY <2>0, <3>1, <3>2
  <2> DEFINE reports == Append(raw, Head(inbox))
  <2>2. inbox # <<>> => \A i \in DOMAIN reports : reports[i].fresh
    BY <1>0, <1>1, <2>0, TakeEffect, Appends
  <2> HIDE DEF reports
  <2>3. CASE inbox # <<>> /\ Return(TRUE, reports)
    <3>1. raw' = <<>> /\ frame' = reports
      BY <2>3 DEF Return
    <3> QED
      BY <2>1, <2>2, <2>3, <3>1 DEF FreshInv
  <2>4. CASE inbox # <<>> /\ raw' = reports /\ Continue("read")
    BY <1>1, <2>1, <2>2, <2>4 DEF FreshInv, Continue, callerVars
  <2>5. CASE TryAgain
    <3>1. raw' = <<>> /\ frame' \in {frame, <<>>}
      BY <2>5 DEF TryAgain, Return
    <3> QED
      BY <1>1, <2>1, <3>1 DEF FreshInv
  <2> QED
    BY <1>9, <2>3, <2>4, <2>5, ReplyCases DEF reports
<1>10. CASE DrainReport \/ Swallow
    BY <1>4, <1>10 DEF DrainReport, Drainable, Counted, Swallow, Continue, localVars, callerVars
<1>11. CASE Reopen
    BY <1>1, <1>11 DEF Reopen, FreshInv, localVars
<1>12. CASE Obey
  <2>1. UNCHANGED <<pc, drained, raw, frame>>
    BY <1>12 DEF Obey, localVars, callerVars
  <2>2. ASSUME NEW request, NEW part, Reply(request, part) \in Reports, Arrive(Reply(request, part))
        PROVE  FreshInv'
    BY <1>2, <2>1, <2>2 DEF Report, Reply
  <2>3. CASE inbox' = inbox
    BY <1>3, <2>1, <2>3
  <2>4. /\ Head(requests) \in Request
        /\ \/ inbox' = inbox
           \/ /\ Head(requests).cmd \notin Mute
              /\ \E part \in {"first", "whole"} : Arrive(Reply(Head(requests), part))
    BY <1>12, Tails DEF Obey, TypeOK, Request
  <2> QED
    BY <2>2, <2>3, <2>4, ReplyType
<1>13. CASE SecondReport
  <2>1. rest[1] \in Reports /\ rest[1].fresh /\ Arrive(rest[1])
    BY <1>13, Tails DEF SecondReport, TypeOK, FlightInv, InFlight
  <2> QED
    BY <1>2, <1>13, <2>1 DEF SecondReport, localVars, callerVars
<1>14. CASE Stray
  <2>1. PICK begins \in Unasked : Arrive(StrayReport(begins))
    BY <1>14, StrayArrives
  <2>2. StrayReport(begins) \in Reports /\ StrayReport(begins).fresh
    BY StrayType DEF StrayReport
  <2> QED
    BY <1>2, <1>14, <2>1, <2>2 DEF Stray, localVars, callerVars
<1>15. CASE Drop \/ UNCHANGED vars
    BY <1>3, <1>15 DEF Drop, vars, localVars, callerVars, hostVars
<1> QED
    BY <1>5, <1>6, <1>8, <1>9, <1>10, <1>11, <1>12, <1>13, <1>14, <1>15 DEF Next, Step

\* Where a read can time out, no report that was queued before a request is taken for
\* an answer to it, as long as the host keeps no more reports than a drain discards.
THEOREM AnswersAreFresh == Spec => []NothingStaleAnswers
<1> DEFINE IInv == TypeOK /\ CallInv /\ FlightInv /\ FreshInv
<1>1. Init => IInv
  <2> SUFFICES ASSUME Init
               PROVE  IInv
    OBVIOUS
  <2>1. DOMAIN inbox = {} /\ DOMAIN requests = {} /\ DOMAIN rest = {} /\ DOMAIN raw = {} /\ DOMAIN frame = {}
    BY DEF Init
  <2> QED
    BY <2>1, FirstState DEF FlightInv, InFlight, FreshInv
<1>2. IInv /\ [Next]_vars => IInv'
    BY CallStep, FlightStep, FreshStep
<1>3. IInv => NothingStaleAnswers
    BY DEF FreshInv, NothingStaleAnswers
<1> QED
  <2> HIDE DEF IInv
  <2> QED
    BY <1>1, <1>2, <1>3, PTL DEF Spec

-----------------------------------------------------------------------------
(* Whose reply it is.                                                      *)

RawLeads == raw # <<>> /\ Lead(raw[1])

\* Where a report that begins no answer comes from: nobody asked for it, or a command of
\* the session is answered in two.
Source(r, s) == IF r.cmd = None THEN s.strays ELSE r.cmd \in s.commands

\* The commands and the reports of a session are its own, and a command that may take
\* a report that begins no answer is known to.
SourceInv ==
    /\ pc # "idle" => cmd \in session.commands /\ (Guesses(cmd) => guessed)
    /\ \A k \in DOMAIN requests : requests[k].cmd \in session.commands
    /\ \A i \in DOMAIN inbox : Source(inbox[i], session)
    /\ \A i \in DOMAIN raw : Source(raw[i], session)
    /\ \A l \in DOMAIN rest : Source(rest[l], session)

LEMMA GuessedStays ==
    ASSUME [Next]_vars, guessed
    PROVE  guessed'
<1>1. ASSUME NEW ok, NEW reports, Return(ok, reports)
      PROVE  guessed'
    BY <1>1 DEF Return
<1>2. ASSUME NEW l, Continue(l)
      PROVE  guessed'
    BY <1>2 DEF Continue, callerVars
<1>3. CASE TryAgain
  <2>1. CASE attempt < MaxAttempts
    BY <1>3, <2>1 DEF TryAgain
  <2>2. CASE ~(attempt < MaxAttempts)
    BY <1>1, <1>3, <2>2 DEF TryAgain
  <2> QED
    BY <2>1, <2>2
<1>4. ASSUME NEW reports, Judge(reports)
      PROVE  guessed'
    BY <1>1, <1>3, <1>4 DEF Judge
<1>5. ASSUME NEW c, NEW v, SendCommand(c, v)
      PROVE  guessed'
    BY <1>5 DEF SendCommand
<1>6. CASE Step
  <2>1. CASE Write
    <3>1. CASE cmd \in Mute
      BY <1>1, <2>1, <3>1 DEF Write
    <3>2. CASE cmd \notin Mute
      BY <1>2, <2>1, <3>2 DEF Write
    <3> QED
      BY <3>1, <3>2
  <2>2. CASE ReadReport
    <3>1. \E reports : Judge(reports) \/ Continue("read")
      BY <2>2 DEF ReadReport
    <3> QED
      BY <1>2, <1>4, <3>1
  <2>3. CASE ReadTimesOut
    BY <1>3, <1>4, <2>3 DEF ReadTimesOut
  <2>4. CASE Retry
    BY <1>2, <2>4 DEF Retry
  <2>5. CASE DrainReport \/ Drained
    BY <1>2, <2>5 DEF DrainReport, Drained
  <2> QED
    BY <1>6, <2>1, <2>2, <2>3, <2>4, <2>5 DEF Step
<1>7. CASE WriteFails \/ ReadFails \/ BackoffCancelled
    BY <1>1, <1>7 DEF WriteFails, ReadFails, BackoffCancelled
<1>8. CASE Swallow \/ Reopen \/ Obey \/ Drop \/ SecondReport \/ Stray \/ UNCHANGED vars
    BY <1>8 DEF Swallow, Reopen, Obey, Drop, SecondReport, Stray, callerVars, vars
<1> QED
    BY <1>5, <1>6, <1>7, <1>8 DEF Next

LEMMA SourceStep ==
    ASSUME TypeOK, CallInv, CallInv', SourceInv, [Next]_vars
    PROVE  SourceInv'
<1>0. /\ inbox \in Seq(Reports) /\ raw \in Seq(Reports) /\ rest \in Seq(Reports)
      /\ requests \in Seq(Request) /\ session' = session /\ None \notin Commands
    BY SessionStays, CommandsAssumption DEF TypeOK, Request
<1>1. pc' # "idle" => cmd' \in session'.commands /\ (Guesses(cmd)' => guessed')
  <2>1. ASSUME NEW c \in Commands, NEW v, c \in session.commands, SendCommand(c, v), cmd' = c
        PROVE  cmd' \in session'.commands /\ (Guesses(cmd)' => guessed')
    BY <1>0, <2>1 DEF SendCommand, Guesses
  <2>2. ASSUME cmd' \in {cmd, None}, pc' # "idle"
        PROVE  cmd' \in session'.commands /\ (Guesses(cmd)' => guessed')
    <3>1. cmd' \in Commands
      BY <2>2 DEF CallInv
    <3>2. cmd' = cmd /\ cmd # None
      BY <1>0, <2>2, <3>1
    <3>3. pc # "idle"
      BY <3>2 DEF CallInv
    <3>4. guessed => guessed'
      BY GuessedStays
    <3> QED
      BY <1>0, <3>2, <3>3, <3>4 DEF SourceInv, Guesses
  <2> QED
    BY <2>1, <2>2, CallerCases
\* The oldest report goes, or none does.
<1>2. ASSUME UNCHANGED <<inbox, rest>> \/ (inbox # <<>> /\ inbox' = Tail(inbox) /\ rest' = rest)
      PROVE  /\ \A i \in DOMAIN inbox' : Source(inbox'[i], session')
             /\ \A l \in DOMAIN rest' : Source(rest'[l], session')
  <2>1. CASE UNCHANGED <<inbox, rest>>
    BY <1>0, <2>1 DEF SourceInv
  <2>2. CASE inbox # <<>> /\ inbox' = Tail(inbox) /\ rest' = rest
    <3>1. \A i \in DOMAIN inbox' : i + 1 \in DOMAIN inbox /\ inbox'[i] = inbox[i + 1]
      BY <1>0, <2>2, Tails
    <3>2. \A i \in DOMAIN inbox' : Source(inbox'[i], session)
      BY <3>1 DEF SourceInv
    <3> QED
      BY <1>0, <2>2, <3>2 DEF SourceInv
  <2> QED
    BY <1>2, <2>1, <2>2
<1>3. ASSUME StartDrain, rest' = rest
      PROVE  /\ \A i \in DOMAIN inbox' : Source(inbox'[i], session')
             /\ \A l \in DOMAIN rest' : Source(rest'[l], session')
    BY <1>0, <1>3, StartDrainEffect DEF SourceInv, Source
\* A report arrives.
<1>4. ASSUME NEW r \in Reports, Source(r, session), inbox' \in {inbox, Append(inbox, r)}
      PROVE  \A i \in DOMAIN inbox' : Source(inbox'[i], session')
  <2>1. CASE inbox' = inbox
    BY <1>0, <2>1 DEF SourceInv, Source
  <2>2. CASE inbox' = Append(inbox, r)
    BY <1>0, <1>4, <2>2, Appends DEF SourceInv, Source
  <2> QED
    BY <1>4, <2>1, <2>2
<1>5. /\ \A i \in DOMAIN inbox' : Source(inbox'[i], session')
      /\ \A l \in DOMAIN rest' : Source(rest'[l], session')
  <2>1. ASSUME NEW c, NEW v, SendCommand(c, v)
        PROVE  StartDrain /\ rest' = rest
    BY <2>1 DEF SendCommand, deviceVars
  <2>2. CASE Retry
    BY <1>2, <1>3, <2>2 DEF Retry, deviceVars
  <2>3. CASE DrainReport \/ Swallow \/ ReadReport
    BY <1>2, <2>3 DEF DrainReport, Drainable, Swallow, ReadReport, deviceVars
  <2>4. CASE Drained \/ Write \/ WriteFails \/ ReadTimesOut \/ ReadFails \/ BackoffCancelled \/ Drop
              \/ UNCHANGED vars
    BY <1>2, <2>4 DEF Drained, Write, WriteFails, ReadTimesOut, ReadFails, BackoffCancelled, Drop, vars,
        hostVars, deviceVars
  <2>5. CASE Reopen
    <3>1. DOMAIN inbox' = {} /\ rest' = rest
      BY <2>5 DEF Reopen, deviceVars
    <3> QED
      BY <1>0, <3>1 DEF SourceInv, Source
  <2>6. CASE Obey
    <3> DEFINE request == requests[1]
    <3>1. request \in Request /\ request.cmd \in session.commands /\ request.cmd # None
      BY <1>0, <2>6, ObeyCases DEF SourceInv, Request
    <3>2. /\ \A part : Source(Reply(request, part), session)
          /\ \A begins : Source(Report(request, "rest", begins), session)
      BY <3>1 DEF Source, Report, Reply
    <3>3. CASE UNCHANGED <<inbox, rest>>
      BY <1>2, <3>3
    <3>4. ASSUME NEW part \in {"whole", "first"}, NEW begins, Reply(request, part) \in Reports,
                 inbox' \in {inbox, Append(inbox, Reply(request, part))},
                 rest' \in {rest, <<Report(request, "rest", begins)>>}
          PROVE  /\ \A i \in DOMAIN inbox' : Source(inbox'[i], session')
                 /\ \A l \in DOMAIN rest' : Source(rest'[l], session')
      <4> DEFINE report == Reply(request, part)
                 second == Report(request, "rest", begins)
      <4>1. report \in Reports /\ Source(report, session) /\ Source(second, session)
        BY <3>2, <3>4
      <4>2. inbox' \in {inbox, Append(inbox, report)} /\ rest' \in {rest, <<second>>}
        BY <3>4
      <4> HIDE DEF report, second, request
      <4>3. \A i \in DOMAIN inbox' : Source(inbox'[i], session')
        BY <1>4, <4>1, <4>2
      <4>4. \A l \in DOMAIN rest' : (l \in DOMAIN rest /\ rest'[l] = rest[l]) \/ rest'[l] = second
        BY <4>2
      <4> QED
        BY <1>0, <4>1, <4>3, <4>4 DEF SourceInv, Source
    <3> HIDE DEF request
    <3> QED
      BY <2>6, <3>3, <3>4, ObeyCases DEF request
  <2>7. CASE SecondReport
    <3>1. /\ rest[1] \in Reports /\ 1 \in DOMAIN rest /\ Arrive(rest[1]) /\ DOMAIN rest' = {}
      BY <1>0, <2>7, Tails DEF SecondReport
    <3> QED
      BY <1>4, <3>1, ArriveEffect DEF SourceInv
  <2>8. CASE Stray
    <3>1. PICK begins \in Unasked : Arrive(StrayReport(begins))
      BY <2>8, StrayArrives
    <3>2. StrayReport(begins) \in Reports /\ Source(StrayReport(begins), session) /\ rest' = rest
      BY <2>8, StrayType DEF StrayReport, Source, Stray, deviceVars
    <3> QED
      BY <1>0, <1>4, <3>1, <3>2, ArriveEffect DEF SourceInv, Source
  <2> QED
    BY <1>3, <2>1, <2>2, <2>3, <2>4, <2>5, <2>6, <2>7, <2>8 DEF Next, Step
<1>6. \A i \in DOMAIN raw' : Source(raw'[i], session')
  <2>1. CASE raw' \in {raw, <<>>}
    BY <1>0, <2>1 DEF SourceInv, Source
  <2>2. CASE inbox # <<>> /\ raw = <<>> /\ raw' = Append(raw, Head(inbox))
    <3>1. Head(inbox) = inbox[1] /\ 1 \in DOMAIN inbox /\ Head(inbox) \in Reports
      BY <2>2, TakeEffect
    <3>2. \A i \in DOMAIN raw' : raw'[i] = inbox[1]
      BY <1>0, <2>2, <3>1, Appends
    <3> QED
      BY <1>0, <3>1, <3>2 DEF SourceInv, Source
  <2> QED
    BY <2>1, <2>2, CallerCases
<1>7. \A k \in DOMAIN requests' : requests'[k].cmd \in session'.commands
  <2>1. CASE requests' = requests
    BY <1>0, <2>1 DEF SourceInv
  <2>2. CASE requests # <<>> /\ requests' = Tail(requests)
    BY <1>0, <2>2, Tails DEF SourceInv
  <2>3. CASE Write
    <3> DEFINE request == [of |-> calls, cmd |-> cmd, arg |-> arg]
    <3>1. requests' = Append(requests, request) /\ cmd \in session.commands
      BY <2>3 DEF Write, SourceInv
    <3>2. request \in Request /\ request.cmd = cmd
      BY <2>3, Numbers DEF Write, CallInv, TypeOK, Request
    <3> HIDE DEF request
    <3> QED
      BY <1>0, <3>1, <3>2, Appends DEF SourceInv
  <2>4. requests' = requests \/ (requests # <<>> /\ requests' = Tail(requests)) \/ Write
    BY DEF Next, Step, SendCommand, DrainReport, Drained, WriteFails, ReadReport, ReadTimesOut,
        ReadFails, Swallow, Retry, BackoffCancelled, Reopen, Obey, Drop, SecondReport, Stray,
        deviceVars, vars
  <2> QED
    BY <2>1, <2>2, <2>3, <2>4
<1> QED
    BY <1>1, <1>5, <1>6, <1>7 DEF SourceInv

\* As long as every command was answered at once, and none may take a report that begins
\* no answer, one answer at most is on its way: as a request, as a report, or as the first
\* report that was read.
QuietInv ==
    ~troubled /\ ~guessed =>
       /\ pc # "again"
       /\ \A i \in DOMAIN inbox : Lead(inbox[i]) =>
            /\ pc = "read" /\ inbox[i].of = calls /\ ~RawLeads
            /\ \A j \in DOMAIN inbox \ {i} : ~Lead(inbox[j])
            /\ \A k \in DOMAIN requests : requests[k].cmd \in Mute
       /\ \A k \in DOMAIN requests : requests[k].cmd \notin Mute =>
            /\ pc = "read" /\ requests[k].of = calls /\ ~RawLeads
            /\ \A l \in DOMAIN requests \ {k} : requests[l].cmd \in Mute
       /\ RawLeads => raw[1].of = calls
       /\ frame # <<>> => frame[1].of = calls

LEMMA QuietStep ==
    ASSUME TypeOK, CallInv, FlightInv, SourceInv, QuietInv, [Next]_vars
    PROVE  QuietInv'
<1> SUFFICES ASSUME ~troubled, ~troubled', ~guessed, ~guessed'
             PROVE  QuietInv'
  <2>1. troubled' \/ guessed' => QuietInv'
    BY DEF QuietInv
  <2>2. troubled => troubled'
    BY DEF Next, Step, SendCommand, DrainReport, Drained, Write, WriteFails, ReadReport, ReadTimesOut,
        ReadFails, Swallow, Retry, BackoffCancelled, Reopen, Obey, Drop, SecondReport, Stray, Return,
        Continue, TryAgain, Judge, callerVars, vars
  <2> QED
    BY <2>1, <2>2, GuessedStays
<1>0. inbox \in Seq(Reports) /\ raw \in Seq(Reports) /\ requests \in Seq(Request)
    BY DEF TypeOK, Request
<1>1. /\ pc # "again"
      /\ \A i \in DOMAIN inbox : Lead(inbox[i]) =>
           /\ pc = "read" /\ inbox[i].of = calls /\ ~RawLeads
           /\ \A j \in DOMAIN inbox \ {i} : ~Lead(inbox[j])
           /\ \A k \in DOMAIN requests : requests[k].cmd \in Mute
      /\ \A k \in DOMAIN requests : requests[k].cmd \notin Mute =>
           /\ pc = "read" /\ requests[k].of = calls /\ ~RawLeads
           /\ \A l \in DOMAIN requests \ {k} : requests[l].cmd \in Mute
      /\ RawLeads => raw[1].of = calls
      /\ frame # <<>> => frame[1].of = calls
    BY DEF QuietInv
<1>2. raw # <<>> => pc = "read"
    BY DEF CallInv
\* No answer is on its way before the request is sent.
<1>3. pc # "read" => /\ \A i \in DOMAIN inbox : ~Lead(inbox[i])
                     /\ \A k \in DOMAIN requests : requests[k].cmd \in Mute
    BY <1>1
<1>4. ASSUME NEW c, NEW v, SendCommand(c, v)
      PROVE  QuietInv'
  <2>1. /\ pc = "idle" /\ pc' = "drain" /\ frame' = <<>> /\ raw' = raw /\ requests' = requests
        /\ StartDrain
    BY <1>4 DEF SendCommand, deviceVars
  <2>2. \A i \in DOMAIN inbox' : ~Lead(inbox'[i])
    BY <1>3, <2>1, StartDrainEffect DEF Lead
  <2>3. raw' = <<>>
    BY <1>2, <2>1
  <2> QED
    BY <1>3, <2>1, <2>2, <2>3 DEF QuietInv, RawLeads
\* The oldest report goes.
<1>5. CASE /\ inbox # <<>> /\ inbox' = Tail(inbox)
           /\ UNCHANGED <<pc, calls, raw, frame, requests>>
  <2>1. \A i \in DOMAIN inbox' : i \in Nat /\ i + 1 \in DOMAIN inbox /\ inbox'[i] = inbox[i + 1]
    BY <1>0, <1>5, Tails
  <2>2. RawLeads' = RawLeads
    BY <1>5 DEF RawLeads
  <2>3. ASSUME NEW i \in DOMAIN inbox', Lead(inbox'[i])
        PROVE  /\ pc' = "read" /\ inbox'[i].of = calls' /\ ~RawLeads'
               /\ \A j \in DOMAIN inbox' \ {i} : ~Lead(inbox'[j])
               /\ \A k \in DOMAIN requests' : requests'[k].cmd \in Mute
    <3>1. \A j \in DOMAIN inbox' \ {i} : j + 1 # i + 1
      BY <2>1
    <3> QED
      BY <1>1, <1>5, <2>1, <2>2, <2>3, <3>1
  <2> QED
    BY <1>1, <1>5, <2>2, <2>3 DEF QuietInv
<1>6. CASE Drained
    BY <1>1, <1>3, <1>6 DEF Drained, QuietInv, RawLeads, Continue, hostVars, callerVars, deviceVars
<1>7. CASE Write
  <2> DEFINE request == [of |-> calls, cmd |-> cmd, arg |-> arg]
  <2>1. /\ pc = "write" /\ requests' = Append(requests, request) /\ inbox' = inbox /\ raw = <<>>
    BY <1>2, <1>7 DEF Write, hostVars
  <2>2. request \in Request
    BY <1>7, Numbers DEF Write, CallInv, TypeOK, Request
  <2>3. request.of = calls /\ request.cmd = cmd
    OBVIOUS
  <2> HIDE DEF request
  <2>4. \A k \in DOMAIN requests' : \/ requests'[k].cmd \in Mute
                                    \/ k = Len(requests) + 1 /\ requests'[k] = request
    <3>1. \A k \in DOMAIN requests : requests[k].cmd \in Mute
      BY <1>3, <2>1
    <3>2. \A k \in DOMAIN requests' :
              \/ k \in DOMAIN requests /\ requests'[k] = requests[k]
              \/ k = Len(requests) + 1 /\ requests'[k] = request
      BY <1>0, <2>1, <2>2, Appends
    <3> QED
      BY <3>1, <3>2
  <2>5. CASE cmd \in Mute
    <3>1. frame' = <<>> /\ raw' = <<>>
      BY <1>7, <2>5 DEF Write, Return
    <3> QED
      BY <1>3, <2>1, <2>3, <2>4, <2>5, <3>1, Returned, <1>7 DEF QuietInv, RawLeads, Write
  <2>6. CASE cmd \notin Mute
    <3>1. pc' = "read" /\ UNCHANGED <<calls, frame, raw>>
      BY <1>7, <2>6 DEF Write, Continue, callerVars
    <3>2. ~RawLeads'
      BY <2>1, <3>1 DEF RawLeads
    <3> QED
      BY <1>1, <1>3, <2>1, <2>3, <2>4, <3>1, <3>2 DEF QuietInv
  <2> QED
    BY <2>5, <2>6
<1>8. CASE WriteFails \/ ReadFails \/ BackoffCancelled
    BY <1>8 DEF WriteFails, ReadFails, BackoffCancelled, Return
<1>9. CASE ReadReport \/ ReadTimesOut
  <2>1. ~TryAgain
    BY DEF TryAgain, Return
  <2> DEFINE reports == Append(raw, Head(inbox))
  <2>2. /\ pc = "read" /\ inbox # <<>> /\ inbox' = Tail(inbox) /\ requests' = requests
        /\ reports \in Seq(Reports) /\ reports # <<>>
        /\ reports[1] = IF raw = <<>> THEN inbox[1] ELSE raw[1]
        /\ \/ ValidateResponse(reports) /\ Return(TRUE, reports)
           \/ raw = <<>> /\ raw' = reports /\ Continue("read")
    <3>1. requests' = requests
      BY <1>9 DEF ReadReport, ReadTimesOut, deviceVars
    <3> QED
      BY <1>9, <2>1, <3>1, ReplyCases
  <2> HIDE DEF reports
  <2>3. 1 \in DOMAIN inbox /\ \A i \in DOMAIN inbox' :
            i \in Nat \ {0} /\ i + 1 \in DOMAIN inbox /\ inbox'[i] = inbox[i + 1] /\ i + 1 # 1
    BY <1>0, <2>2, Tails
  <2>4. CASE ValidateResponse(reports) /\ Return(TRUE, reports)
    <3>1. Lead(reports[1])
      <4>1. Head(reports) = reports[1] /\ reports[1].begins \in Accepts[cmd]
        BY <2>2, <2>4, Tails DEF ValidateResponse
      <4>2. Known(reports[1], calls) /\ Source(reports[1], session)
        <5>1. raw # <<>> => 1 \in DOMAIN raw
          BY <1>0, Tails
        <5> QED
          BY <2>2, <2>3, <5>1 DEF FlightInv, InFlight, SourceInv
      <4>3. ~Guesses(cmd) /\ cmd \notin Mute
        BY <2>2 DEF SourceInv, CallInv
      <4>4. SUFFICES ASSUME ~Lead(reports[1])
                     PROVE  FALSE
        OBVIOUS
      <4>5. reports[1].begins \in Accepts[cmd] \cap Unasked
        BY <4>1, <4>2, <4>4 DEF Known
      <4>6. session.strays \/ session.commands \cap Split # {}
        <5>1. CASE reports[1].cmd = None
          BY <4>2, <5>1 DEF Source
        <5>2. CASE reports[1].cmd # None
          BY <4>2, <4>4, <5>2 DEF Source, Known, Lead
        <5> QED
          BY <5>1, <5>2
      <4> QED
        BY <4>3, <4>5, <4>6 DEF Guesses
    <3>2. /\ reports[1].of = calls
          /\ \A i \in DOMAIN inbox' : ~Lead(inbox'[i])
          /\ \A k \in DOMAIN requests' : requests'[k].cmd \in Mute
      <4>1. CASE raw = <<>>
        BY <1>1, <2>2, <2>3, <3>1, <4>1
      <4>2. CASE raw # <<>>
        <5>1. RawLeads
          BY <2>2, <3>1, <4>2 DEF RawLeads
        <5> QED
          BY <1>1, <2>2, <2>3, <4>2, <5>1
      <4> QED
        BY <4>1, <4>2
    <3>3. frame' = reports /\ raw' = <<>> /\ calls' = calls /\ pc' = "idle"
      BY <2>4 DEF Return
    <3> QED
      BY <3>2, <3>3 DEF QuietInv, RawLeads
  <2>5. CASE raw = <<>> /\ raw' = reports /\ Continue("read")
    <3>1. raw'[1] = inbox[1] /\ pc' = "read" /\ UNCHANGED <<calls, frame>>
      BY <2>2, <2>5 DEF Continue, callerVars
    <3>2. ~RawLeads
      BY <2>5 DEF RawLeads
    <3>3. CASE Lead(inbox[1])
      <4>1. /\ \A i \in DOMAIN inbox' : ~Lead(inbox'[i])
            /\ \A k \in DOMAIN requests' : requests'[k].cmd \in Mute
            /\ raw'[1].of = calls
        BY <1>1, <2>2, <2>3, <3>1, <3>3
      <4> QED
        BY <1>1, <3>1, <4>1 DEF QuietInv
    <3>4. CASE ~Lead(inbox[1])
      <4>1. ~RawLeads'
        BY <3>1, <3>4 DEF RawLeads
      <4>2. ASSUME NEW i \in DOMAIN inbox', Lead(inbox'[i])
            PROVE  /\ inbox'[i].of = calls'
                   /\ \A j \in DOMAIN inbox' \ {i} : ~Lead(inbox'[j])
                   /\ \A k \in DOMAIN requests' : requests'[k].cmd \in Mute
        <5>1. \A j \in DOMAIN inbox' \ {i} : j + 1 # i + 1
          BY <2>3
        <5> QED
          BY <1>1, <2>2, <2>3, <3>1, <4>2, <5>1
      <4> QED
        BY <1>1, <2>2, <3>1, <4>1, <4>2 DEF QuietInv
    <3> QED
      BY <3>3, <3>4
  <2> QED
    BY <2>2, <2>4, <2>5
<1>10. CASE Retry
    BY <1>1, <1>10 DEF Retry
<1>11. CASE DrainReport \/ Swallow
    BY <1>5, <1>11 DEF DrainReport, Drainable, Swallow, Continue, localVars, callerVars, deviceVars
<1>12. CASE Reopen
  <2>1. /\ pc = "idle" /\ pc' = pc /\ DOMAIN inbox' = {} /\ frame' = <<>>
        /\ UNCHANGED <<raw, requests>>
    BY <1>12 DEF Reopen, localVars, deviceVars
  <2> QED
    BY <1>2, <1>3, <2>1 DEF QuietInv, RawLeads
\* A request becomes a report, and a report that cannot lead joins the queue.
<1>13. ASSUME NEW r \in Reports, ~Lead(r), inbox' \in {inbox, Append(inbox, r)},
              UNCHANGED <<pc, calls, raw, frame, requests>>
       PROVE  QuietInv'
  <2>1. \A i \in DOMAIN inbox' : (i \in DOMAIN inbox /\ inbox'[i] = inbox[i]) \/ ~Lead(inbox'[i])
    <3>1. CASE inbox' = inbox
      BY <3>1
    <3>2. CASE inbox' = Append(inbox, r)
      BY <1>0, <1>13, <3>2, Appends
    <3> QED
      BY <1>13, <3>1, <3>2
  <2>2. RawLeads' = RawLeads
    BY <1>13 DEF RawLeads
  <2> QED
    BY <1>1, <1>13, <2>1, <2>2 DEF QuietInv
<1>14. CASE /\ requests # <<>> /\ requests' = Tail(requests)
            /\ UNCHANGED <<inbox, pc, calls, raw, frame>>
  <2>1. \A k \in DOMAIN requests' : k \in Nat /\ k + 1 \in DOMAIN requests /\ requests'[k] = requests[k + 1]
    BY <1>0, <1>14, Tails
  <2>2. RawLeads' = RawLeads
    BY <1>14 DEF RawLeads
  <2>3. ASSUME NEW k \in DOMAIN requests', requests'[k].cmd \notin Mute
        PROVE  /\ pc' = "read" /\ requests'[k].of = calls' /\ ~RawLeads'
               /\ \A l \in DOMAIN requests' \ {k} : requests'[l].cmd \in Mute
    <3>1. \A l \in DOMAIN requests' \ {k} : l + 1 # k + 1
      BY <2>1
    <3> QED
      BY <1>1, <1>14, <2>1, <2>2, <2>3, <3>1
  <2>4. \A i \in DOMAIN inbox' : Lead(inbox'[i]) =>
           /\ pc' = "read" /\ inbox'[i].of = calls' /\ ~RawLeads'
           /\ \A j \in DOMAIN inbox' \ {i} : ~Lead(inbox'[j])
           /\ \A k \in DOMAIN requests' : requests'[k].cmd \in Mute
    BY <1>1, <1>14, <2>1, <2>2
  <2> QED
    BY <1>1, <1>14, <2>2, <2>3, <2>4 DEF QuietInv
<1>15. CASE Obey
  <2> DEFINE request == requests[1]
  <2>1. /\ requests # <<>> /\ requests' = Tail(requests) /\ 1 \in DOMAIN requests
        /\ UNCHANGED <<pc, calls, raw, frame>> /\ request \in Request
        /\ \/ UNCHANGED inbox
           \/ \E part \in {"whole", "first"} :
                /\ request.cmd \notin Mute /\ Reply(request, part) \in Reports
                /\ inbox' \in {inbox, Append(inbox, Reply(request, part))}
    BY <1>15, ObeyCases DEF localVars, callerVars
  <2>2. ASSUME NEW part \in {"whole", "first"}, request.cmd \notin Mute, Reply(request, part) \in Reports,
               inbox' = Append(inbox, Reply(request, part))
        PROVE  QuietInv'
    <3> DEFINE report == Reply(request, part)
    <3>1. report \in Reports /\ inbox' = Append(inbox, report)
      BY <2>2
    <3>2. report.of = request.of
      BY DEF Report, Reply
    <3> HIDE DEF report, request
    <3>3. /\ pc = "read" /\ request.of = calls /\ ~RawLeads
          /\ \A l \in DOMAIN requests \ {1} : requests[l].cmd \in Mute
          /\ \A i \in DOMAIN inbox : ~Lead(inbox[i])
      BY <1>1, <2>1, <2>2 DEF request
    <3>4. \A k \in DOMAIN requests' : requests'[k].cmd \in Mute
      <4>1. \A k \in DOMAIN requests' : k \in Nat \ {0} /\ k + 1 \in DOMAIN requests
                                        /\ requests'[k] = requests[k + 1] /\ k + 1 # 1
        BY <1>0, <2>1, Tails
      <4> QED
        BY <3>3, <4>1
    <3>5. \A i \in DOMAIN inbox' : \/ ~Lead(inbox'[i])
                                   \/ i = Len(inbox) + 1 /\ inbox'[i] = report
      BY <1>0, <3>1, <3>3, Appends
    <3>6. ~RawLeads'
      BY <2>1, <3>3 DEF RawLeads
    <3> QED
      BY <1>1, <2>1, <3>2, <3>3, <3>4, <3>5, <3>6 DEF QuietInv
  <2>3. CASE inbox' = inbox
    BY <1>14, <2>1, <2>3
  <2> HIDE DEF request
  <2> QED
    BY <2>1, <2>2, <2>3
<1>16. CASE SecondReport
  <2>1. rest[1] \in Reports /\ ~Lead(rest[1]) /\ Arrive(rest[1])
    BY <1>16, Tails DEF SecondReport, TypeOK, FlightInv, InFlight, Lead
  <2>2. UNCHANGED <<pc, calls, raw, frame, requests>>
    BY <1>16 DEF SecondReport, localVars, callerVars
  <2> QED
    BY <1>13, <2>1, <2>2, ArriveEffect
<1>17. CASE Stray
  <2>1. PICK begins \in Unasked : Arrive(StrayReport(begins))
    BY <1>17, StrayArrives
  <2>2. UNCHANGED <<pc, calls, raw, frame, requests>>
    BY <1>17 DEF Stray, localVars, callerVars, deviceVars
  <2>3. StrayReport(begins) \in Reports /\ ~Lead(StrayReport(begins))
    BY StrayType DEF StrayReport, Lead
  <2> QED
    BY <1>13, <2>1, <2>2, <2>3, ArriveEffect
<1>18. CASE Drop
    BY <1>14, <1>18 DEF Drop, localVars, callerVars, hostVars
<1>19. CASE UNCHANGED vars
    BY <1>1, <1>19 DEF vars, localVars, callerVars, hostVars, deviceVars, QuietInv, RawLeads
<1> QED
    BY <1>4, <1>6, <1>7, <1>8, <1>9, <1>10, <1>11, <1>12, <1>15, <1>16, <1>17, <1>18, <1>19 DEF Next, Step

\* Unless a command was not answered at once, or one was sent that takes a report nobody
\* asked for, every command returns its own reply and never another's, although a reply is
\* only known by its first bytes.
THEOREM ReplyIsOwn == Spec => []OwnReply
<1> DEFINE IInv == TypeOK /\ CallInv /\ FlightInv /\ SourceInv /\ QuietInv
<1>1. Init => IInv
  <2> SUFFICES ASSUME Init
               PROVE  IInv
    OBVIOUS
  <2>1. /\ DOMAIN inbox = {} /\ DOMAIN requests = {} /\ DOMAIN rest = {} /\ DOMAIN raw = {}
        /\ raw = <<>> /\ frame = <<>>
    BY DEF Init
  <2> QED
    BY <2>1, FirstState DEF Init, FlightInv, InFlight, SourceInv, QuietInv, RawLeads
<1>2. IInv /\ [Next]_vars => IInv'
    BY CallStep, FlightStep, SourceStep, QuietStep
<1>3. IInv => OwnReply
    BY Tails DEF QuietInv, OwnReply, TypeOK
<1> QED
  <2> HIDE DEF IInv
  <2> QED
    BY <1>1, <1>2, <1>3, PTL DEF Spec

-----------------------------------------------------------------------------
(* What a read-back is worth.                                              *)

\* Nothing but the reply to a write is taken for one.  So it is with the keyboards of the
\* 52/54 reports (54 8x and 54 E4 08 in registry_generated.go), not with controllers, mice
\* or keyboards with a record, and not with SetModeDInput or WriteProfile, whose reply is
\* any report beginning 02.
AcknowledgedApart ==
    \A w \in Writes \ Mute :
      /\ Accepts[w] \cap Unasked = {}
      /\ \A r \in Reads \ Mute : Answers[r] \notin Accepts[w]

\* The write under way has been sent.
Writing == cmd \in Writes \ Mute /\ sends = 1

\* Where the acknowledgements are, and the writes the device has not handled yet.
Acks == {i \in DOMAIN inbox : inbox[i].cmd \in Writes}
Pending == {k \in DOMAIN requests : requests[k].cmd \in Writes \ Mute}

\* What is reported behind the ith report is so.
UpToDate(i) == \A j \in DOMAIN inbox : inbox[j].cmd \in Reads /\ i < j => inbox[j].value = value

\* Only a read is answered with a value, and what is still to come of an answer is so.
ValueInv ==
    /\ \A i \in DOMAIN inbox : inbox[i].cmd \notin Reads => inbox[i].value = None
    /\ \A i \in DOMAIN raw : raw[i].cmd \notin Reads => raw[i].value = None
    /\ \A l \in DOMAIN rest : rest[l].value = value

\* What is on its way of the writes before, while none awaits its acknowledgement: the
\* last one, if a command has failed.
RestingInv ==
    /\ failures = 0 => Acks = {} /\ Pending = {}
    /\ \A i, j \in Acks : i = j
    /\ \A k, l \in Pending : k = l
    /\ Acks # {} => Pending = {}
    /\ \A i \in Acks : UpToDate(i)
    /\ claim # None =>
         /\ \A k \in Pending : requests[k].arg = claim
         /\ \/ value = claim
            \/ /\ \A i \in DOMAIN inbox : inbox[i].cmd \in Reads => inbox[i].value = value
               /\ \A i \in DOMAIN raw : raw[i].cmd \in Reads => raw[i].value = value
    /\ verified => claim # None /\ value = claim

\* While a write awaits its acknowledgement there are at most its own and, behind a
\* failure, that of the write before.
WritingInv ==
    /\ \A i, j \in Acks : i < j => inbox[i].of # calls /\ inbox[j].of = calls
    /\ \A k, l \in Pending : k < l => requests[k].of # calls /\ requests[l].of = calls
    /\ Acks # {} => \A k \in Pending : requests[k].of = calls
    /\ \A k \in Pending : requests[k].of = calls => requests[k].arg = arg
    /\ \A i \in Acks : /\ inbox[i].of = calls => Pending = {} /\ UpToDate(i)
                       /\ inbox[i].of # calls => value = arg \/ UpToDate(i)
    /\ failures = 0 => /\ \A i \in Acks : inbox[i].of = calls
                       /\ \A k \in Pending : requests[k].of = calls

HeldInv ==
    /\ ValueInv
    /\ verified => pc = "idle"
    /\ failures <= 1 => IF Writing THEN WritingInv ELSE RestingInv

\* A step after which the queue holds what it held, but for its first d reports, and
\* what is so; and the device has not obeyed a write.
ReportsStay(d) ==
    /\ \A i \in DOMAIN inbox' :
         \/ /\ i + d \in DOMAIN inbox
            /\ inbox'[i].of = inbox[i + d].of /\ inbox'[i].cmd = inbox[i + d].cmd
            /\ inbox'[i].value = inbox[i + d].value
         \/ inbox'[i].cmd = None /\ inbox'[i].value = None
         \/ inbox'[i].cmd \in Reads /\ inbox'[i].value = value
    /\ \A i \in DOMAIN raw' : \/ i \in DOMAIN raw /\ raw'[i] = raw[i]
                              \/ \E j \in DOMAIN inbox : raw'[i] = inbox[j]
    /\ \A l \in DOMAIN rest' : rest'[l].value = value
    /\ value' = value

RequestsStay(e) ==
    \A k \in DOMAIN requests' : requests'[k].cmd \in Writes \ Mute =>
        k + e \in DOMAIN requests /\ requests'[k] = requests[k + e]

Indices ==
    TypeOK => /\ \A i \in DOMAIN inbox : i \in Nat \ {0}
              /\ \A k \in DOMAIN requests : k \in Nat \ {0}

LEMMA IndicesAlways == Indices
BY FieldsInFlight DEF Indices

LEMMA IndicesNext == Indices'
BY IndicesAlways, PTL

LEMMA Fewer ==
    ASSUME TypeOK, TypeOK', HeldInv, NEW d \in {0, 1}, NEW e \in {0, 1},
           ReportsStay(d), RequestsStay(e),
           Writing => Writing', Writing' => Writing,
           Writing => calls' = calls /\ arg' = arg,
           failures <= failures', claim' \in {claim, None},
           verified' => pc' = "idle",
           failures' <= 1 /\ verified' => ~Writing' /\ claim' # None /\ value = claim'
    PROVE  HeldInv'
<1>0. /\ \A i \in DOMAIN inbox : i \in Nat
      /\ \A k \in DOMAIN requests : k \in Nat
      /\ \A i \in DOMAIN inbox' : i \in Nat
      /\ \A k \in DOMAIN requests' : k \in Nat
      /\ d \in Nat /\ e \in Nat /\ value' = value
      /\ failures \in 0..2 /\ failures' \in 0..2
  <2>1. failures \in 0..2 /\ failures' \in 0..2
    BY DEF TypeOK
  <2>2. /\ \A i \in DOMAIN inbox : i \in Nat
        /\ \A k \in DOMAIN requests : k \in Nat
        /\ \A i \in DOMAIN inbox' : i \in Nat
        /\ \A k \in DOMAIN requests' : k \in Nat
    BY IndicesAlways, IndicesNext DEF Indices
  <2> QED
    BY <2>1, <2>2 DEF ReportsStay
<1>1. ValueInv'
    BY DEF HeldInv, ValueInv, ReportsStay
<1>2. \A i \in DOMAIN inbox' : inbox'[i].cmd \in Writes =>
        /\ i + d \in DOMAIN inbox
        /\ inbox'[i].of = inbox[i + d].of /\ inbox'[i].cmd = inbox[i + d].cmd
  <2>1. None \notin Writes /\ Reads \cap Writes = {}
    BY CommandsAssumption DEF Commands
  <2> QED
    BY <2>1 DEF ReportsStay
<1>3. \A i \in Acks' : i + d \in Acks /\ inbox'[i].of = inbox[i + d].of
    BY <1>2 DEF Acks
<1>4. \A k \in Pending' : k + e \in Pending /\ requests'[k] = requests[k + e]
    BY DEF Pending, RequestsStay
<1>5. ASSUME NEW i \in Acks', UpToDate(i + d)
      PROVE  UpToDate(i)'
  <2> SUFFICES ASSUME NEW j \in DOMAIN inbox', inbox'[j].cmd \in Reads, i < j
               PROVE  inbox'[j].value = value
    BY <1>0 DEF UpToDate
  <2>1. i \in Nat /\ j \in Nat /\ i + d < j + d
    BY <1>0 DEF Acks
  <2>2. CASE /\ j + d \in DOMAIN inbox
             /\ inbox'[j].cmd = inbox[j + d].cmd /\ inbox'[j].value = inbox[j + d].value
    BY <1>5, <2>1, <2>2 DEF UpToDate
  <2>3. None \notin Reads
    BY CommandsAssumption DEF Commands
  <2> QED
    BY <2>2, <2>3 DEF ReportsStay
<1>6. ASSUME failures' <= 1, Writing
      PROVE  WritingInv'
  <2>1. WritingInv /\ calls' = calls /\ arg' = arg /\ (failures' = 0 => failures = 0)
    BY <1>0, <1>6 DEF HeldInv
  <2>2. \A i, j \in Acks' : i < j => inbox'[i].of # calls /\ inbox'[j].of = calls
    <3> SUFFICES ASSUME NEW i \in Acks', NEW j \in Acks', i < j
                 PROVE  inbox'[i].of # calls /\ inbox'[j].of = calls
      OBVIOUS
    <3>1. i \in Nat /\ j \in Nat /\ i + d < j + d
      BY <1>0 DEF Acks
    <3> QED
      BY <1>3, <2>1, <3>1 DEF WritingInv
  <2>3. \A k, l \in Pending' : k < l => requests'[k].of # calls /\ requests'[l].of = calls
    <3> SUFFICES ASSUME NEW k \in Pending', NEW l \in Pending', k < l
                 PROVE  requests'[k].of # calls /\ requests'[l].of = calls
      OBVIOUS
    <3>1. k \in Nat /\ l \in Nat /\ k + e < l + e
      BY <1>0 DEF Pending
    <3> QED
      BY <1>4, <2>1, <3>1 DEF WritingInv
  <2>4. Acks' # {} => \A k \in Pending' : requests'[k].of = calls
    BY <1>3, <1>4, <2>1 DEF WritingInv
  <2>5. \A k \in Pending' : requests'[k].of = calls => requests'[k].arg = arg
    BY <1>4, <2>1 DEF WritingInv
  <2>6. \A i \in Acks' : /\ inbox'[i].of = calls => Pending' = {} /\ UpToDate(i)'
                         /\ inbox'[i].of # calls => value = arg \/ UpToDate(i)'
    BY <1>3, <1>4, <1>5, <2>1 DEF WritingInv
  <2>7. failures' = 0 => /\ \A i \in Acks' : inbox'[i].of = calls
                         /\ \A k \in Pending' : requests'[k].of = calls
    BY <1>3, <1>4, <2>1 DEF WritingInv
  <2> QED
    BY <1>0, <2>1, <2>2, <2>3, <2>4, <2>5, <2>6, <2>7 DEF WritingInv
<1>7. ASSUME failures' <= 1, ~Writing
      PROVE  RestingInv'
  <2>1. RestingInv /\ (failures' = 0 => failures = 0) /\ (claim' # None => claim' = claim)
    BY <1>0, <1>7 DEF HeldInv
  <2>2. /\ failures' = 0 => Acks' = {} /\ Pending' = {}
        /\ Acks' # {} => Pending' = {}
    BY <1>3, <1>4, <2>1 DEF RestingInv
  <2>3. \A i, j \in Acks' : i = j
    <3> SUFFICES ASSUME NEW i \in Acks', NEW j \in Acks'
                 PROVE  i = j
      OBVIOUS
    <3>1. i \in Nat /\ j \in Nat /\ i + d = j + d
      BY <1>0, <1>3, <2>1 DEF Acks, RestingInv
    <3> QED
      BY <1>0, <3>1
  <2>4. \A k, l \in Pending' : k = l
    <3> SUFFICES ASSUME NEW k \in Pending', NEW l \in Pending'
                 PROVE  k = l
      OBVIOUS
    <3>1. k \in Nat /\ l \in Nat /\ k + e = l + e
      BY <1>0, <1>4, <2>1 DEF Pending, RestingInv
    <3> QED
      BY <1>0, <3>1
  <2>5. \A i \in Acks' : UpToDate(i)'
    BY <1>3, <1>5, <2>1 DEF RestingInv
  <2>6. claim' # None =>
          /\ \A k \in Pending' : requests'[k].arg = claim'
          /\ \/ value = claim'
             \/ /\ \A i \in DOMAIN inbox' : inbox'[i].cmd \in Reads => inbox'[i].value = value
                /\ \A i \in DOMAIN raw' : raw'[i].cmd \in Reads => raw'[i].value = value
    <3> SUFFICES ASSUME claim' # None
                 PROVE  /\ \A k \in Pending' : requests'[k].arg = claim
                        /\ \/ value = claim
                           \/ /\ \A i \in DOMAIN inbox' : inbox'[i].cmd \in Reads => inbox'[i].value = value
                              /\ \A i \in DOMAIN raw' : raw'[i].cmd \in Reads => raw'[i].value = value
      BY <2>1
    <3>1. claim # None
      BY <2>1
    <3>2. \A k \in Pending' : requests'[k].arg = claim
      BY <1>4, <2>1, <3>1 DEF RestingInv
    <3>3. ASSUME value # claim, NEW i \in DOMAIN inbox', inbox'[i].cmd \in Reads
          PROVE  inbox'[i].value = value
      <4>1. None \notin Reads
        BY CommandsAssumption DEF Commands
      <4>2. \A j \in DOMAIN inbox : inbox[j].cmd \in Reads => inbox[j].value = value
        BY <2>1, <3>1, <3>3 DEF RestingInv
      <4>3. CASE /\ i + d \in DOMAIN inbox
                 /\ inbox'[i].cmd = inbox[i + d].cmd /\ inbox'[i].value = inbox[i + d].value
        BY <3>3, <4>2, <4>3
      <4> QED
        BY <3>3, <4>1, <4>3 DEF ReportsStay
    <3>4. ASSUME value # claim, NEW i \in DOMAIN raw', raw'[i].cmd \in Reads
          PROVE  raw'[i].value = value
      BY <2>1, <3>1, <3>4 DEF RestingInv, ReportsStay
    <3> QED
      BY <3>2, <3>3, <3>4
  <2> QED
    BY <1>0, <1>7, <2>2, <2>3, <2>4, <2>5, <2>6 DEF RestingInv
<1> QED
    BY <1>1, <1>6, <1>7 DEF HeldInv

\* A write goes out.
LEMMA WriteUnderWay ==
    ASSUME TypeOK, TypeOK', CallInv, FlightInv, HeldInv, Write, cmd \in Writes \ Mute
    PROVE  HeldInv'
<1> DEFINE request == [of |-> calls, cmd |-> cmd, arg |-> arg]
<1>1. /\ pc = "write" /\ sends = 0 /\ ~Writing /\ raw = <<>> /\ InFlight(calls - 1)
      /\ requests \in Seq(Request) /\ calls \in Nat \ {0}
      /\ failures \in 0..2
  <2>1. pc = "write"
    BY DEF Write
  <2>2. calls \in Nat \ {0}
    BY <2>1, Numbers DEF CallInv
  <2> QED
    BY <2>1, <2>2 DEF CallInv, FlightInv, Writing, TypeOK, Request
<1>2. /\ requests' = Append(requests, request) /\ sends' = 1 /\ pc' = "read"
      /\ UNCHANGED <<cmd, arg, calls, frame, claim, verified, failures, raw, inbox, rest, value>>
    BY <1>1 DEF Write, Continue, callerVars, hostVars
<1>3. request \in Request /\ request.of = calls /\ request.arg = arg
  <2>1. calls \in 1..session.calls /\ cmd \in Commands
    BY <1>1, Numbers DEF CallInv
  <2>2. arg \in Option(Values)
    BY DEF TypeOK
  <2> QED
    BY <2>1, <2>2 DEF Request
<1> HIDE DEF request
<1>4. /\ \A i \in DOMAIN inbox : i \in Nat /\ inbox[i].of # calls
      /\ \A k \in DOMAIN requests : k \in Nat /\ requests[k].of # calls
  <2>1. /\ \A i \in DOMAIN inbox : inbox[i].of <= calls - 1 /\ inbox[i].of \in Nat /\ i \in Nat
        /\ \A k \in DOMAIN requests : requests[k].of <= calls - 1 /\ requests[k].of \in Nat /\ k \in Nat
    BY <1>1, FieldsInFlight DEF InFlight, Known, Asked
  <2> QED
    BY <1>1, <2>1
<1>5. /\ \A k \in DOMAIN requests' :
           \/ k \in DOMAIN requests /\ requests'[k] = requests[k] /\ k <= Len(requests)
           \/ k = Len(requests) + 1 /\ requests'[k] = request
      /\ Len(requests) \in Nat
    BY <1>1, <1>2, <1>3, Appends
<1>6. ValueInv' /\ (verified' => pc' = "idle") /\ Writing'
    BY <1>1, <1>2 DEF HeldInv, ValueInv, Writing
<1>7. ASSUME failures <= 1
      PROVE  WritingInv'
  <2>1. RestingInv
    BY <1>1, <1>7 DEF HeldInv
  <2>2. Acks' = Acks /\ calls' = calls /\ arg' = arg /\ failures' = failures /\ inbox' = inbox
        /\ value' = value
    BY <1>2 DEF Acks
  <2>3. \A k \in Pending' :
           \/ k \in Pending /\ requests'[k].of # calls /\ k <= Len(requests) /\ k \in Nat
           \/ /\ k = Len(requests) + 1
              /\ requests'[k].of = calls /\ requests'[k].arg = arg
    BY <1>3, <1>4, <1>5 DEF Pending
  <2>4. \A i, j \in Acks' : i < j => inbox'[i].of # calls /\ inbox'[j].of = calls
    <3>1. \A i, j \in Acks : i = j /\ i \in Nat
      BY <1>4, <2>1 DEF RestingInv, Acks
    <3>2. \A i \in Nat : ~(i < i)
      OBVIOUS
    <3> QED
      BY <2>2, <3>1, <3>2
  <2>5. \A k, l \in Pending' : k < l => requests'[k].of # calls /\ requests'[l].of = calls
    <3> SUFFICES ASSUME NEW k \in Pending', NEW l \in Pending', k < l
                 PROVE  requests'[k].of # calls /\ requests'[l].of = calls
      OBVIOUS
    <3>1. k \in Pending /\ l \in Pending => k = l
      BY <2>1 DEF RestingInv
    <3> QED
      BY <1>5, <2>3, <3>1
  <2>6. Acks # {} => \A k \in Pending' : requests'[k].of = calls
    BY <2>1, <2>3 DEF RestingInv
  <2>7. \A k \in Pending' : requests'[k].of = calls => requests'[k].arg = arg
    BY <2>3
  <2>8. \A i \in Acks' : inbox'[i].of # calls /\ UpToDate(i)'
    BY <1>4, <2>1, <2>2 DEF RestingInv, Acks, UpToDate
  <2>9. failures = 0 => /\ Acks' = {}
                        /\ \A k \in Pending' : requests'[k].of = calls
    BY <2>1, <2>2, <2>3 DEF RestingInv
  <2> QED
    BY <2>2, <2>4, <2>5, <2>6, <2>7, <2>8, <2>9 DEF WritingInv
<1> QED
    BY <1>2, <1>6, <1>7 DEF HeldInv

\* A write ends without an acknowledgement: the first command that fails.
LEMMA WriteGivenUp ==
    ASSUME TypeOK, TypeOK', CallInv, HeldInv, Writing, Return(FALSE, <<>>),
           NEW d \in {0, 1}, ReportsStay(d), RequestsStay(0)
    PROVE  HeldInv'
<1>1. /\ cmd' = None /\ claim' = None /\ verified' = FALSE /\ raw' = <<>> /\ pc' = "idle"
      /\ failures' = IF failures = 2 THEN failures ELSE failures + 1
      /\ calls' = calls
    BY DEF Return
<1>2. ~Writing' /\ value' = value /\ failures \in 0..2 /\ d \in Nat
    BY <1>1, CommandsAssumption DEF Writing, ReportsStay, Commands, TypeOK
<1>3. ValueInv'
    BY DEF HeldInv, ValueInv, ReportsStay
<1>4. ASSUME failures' <= 1
      PROVE  RestingInv'
  <2>1. failures = 0 /\ failures' = 1 /\ WritingInv
    BY <1>1, <1>2, <1>4 DEF HeldInv
  <2>2. /\ \A i \in DOMAIN inbox : i \in Nat
        /\ \A k \in DOMAIN requests : k \in Nat
        /\ \A i \in DOMAIN inbox' : i \in Nat
        /\ \A k \in DOMAIN requests' : k \in Nat
    BY IndicesAlways, IndicesNext DEF Indices
  <2>3. None \notin Writes /\ Reads \cap Writes = {} /\ None \notin Reads
    BY CommandsAssumption DEF Commands
  <2>4. \A i \in Acks' : i + d \in Acks /\ i \in Nat
    BY <2>2, <2>3 DEF ReportsStay, Acks
  <2>5. \A k \in Pending' : k \in Pending /\ k \in Nat
    BY <2>2 DEF RequestsStay, Pending
  <2>6. \A i, j \in Acks : ~(i < j)
    BY <2>1 DEF WritingInv
  <2>7. \A k, l \in Pending : ~(k < l)
    BY <2>1 DEF WritingInv
  <2>8. \A i, j \in Acks' : i = j
    <3> SUFFICES ASSUME NEW i \in Acks', NEW j \in Acks'
                 PROVE  i = j
      OBVIOUS
    <3>1. i \in Nat /\ j \in Nat /\ ~(i + d < j + d) /\ ~(j + d < i + d)
      BY <2>4, <2>6
    <3> QED
      BY <1>2, <3>1
  <2>9. \A k, l \in Pending' : k = l
    <3> SUFFICES ASSUME NEW k \in Pending', NEW l \in Pending'
                 PROVE  k = l
      OBVIOUS
    <3>1. k \in Nat /\ l \in Nat /\ ~(k < l) /\ ~(l < k)
      BY <2>5, <2>7
    <3> QED
      BY <3>1
  <2>10. Acks # {} => Pending = {} /\ \A i \in Acks : UpToDate(i)
    BY <2>1 DEF WritingInv
  <2>11. \A i \in Acks' : UpToDate(i)'
    <3> SUFFICES ASSUME NEW i \in Acks', NEW j \in DOMAIN inbox', inbox'[j].cmd \in Reads, i < j
                 PROVE  inbox'[j].value = value
      BY <1>2 DEF UpToDate
    <3>1. i \in Nat /\ j \in Nat /\ i + d < j + d /\ i + d \in Acks
      BY <1>2, <2>2, <2>4
    <3>2. CASE /\ j + d \in DOMAIN inbox
               /\ inbox'[j].cmd = inbox[j + d].cmd /\ inbox'[j].value = inbox[j + d].value
      BY <2>10, <3>1, <3>2 DEF UpToDate
    <3> QED
      BY <2>3, <3>2 DEF ReportsStay
  <2> QED
    BY <1>1, <2>1, <2>4, <2>5, <2>8, <2>9, <2>10, <2>11 DEF RestingInv
<1> QED
    BY <1>1, <1>2, <1>3, <1>4 DEF HeldInv

\* A write is acknowledged: by its own reply, or by that of the write before.
LEMMA WriteAcknowledged ==
    ASSUME TypeOK, TypeOK', CallInv, FlightInv, HeldInv, AcknowledgedApart, Writing,
           ReadReport, NEW reports \in Seq(Reports), Return(TRUE, reports),
           ValidateResponse(reports), reports # <<>>, inbox # <<>>, inbox' = Tail(inbox),
           reports[1] = IF raw = <<>> THEN inbox[1] ELSE raw[1]
    PROVE  HeldInv'
<1>1. /\ inbox \in Seq(Reports) /\ raw \in Seq(Reports) /\ failures \in 0..2
      /\ None \notin Commands /\ Reads \cap Writes = {} /\ None \notin Values
      /\ Writes \subseteq Commands /\ Split \subseteq Reads /\ cmd \in Writes \ Mute
    BY CommandsAssumption DEF TypeOK, Writing, Commands
<1>2. /\ requests' = requests /\ rest' = rest /\ value' = value
    BY DEF ReadReport, deviceVars
<1>3. /\ cmd' = None /\ claim' = arg /\ verified' = FALSE /\ raw' = <<>> /\ pc' = "idle"
      /\ failures' = failures /\ calls' = calls
    BY <1>1 DEF Return
<1>K. Known(reports[1], calls)
  <2>1. 1 \in DOMAIN inbox /\ (raw # <<>> => 1 \in DOMAIN raw)
    BY <1>1, Tails
  <2> QED
    BY <2>1 DEF FlightInv, InFlight
<1>4. /\ reports[1].cmd # None /\ reports[1].cmd \notin Mute
      /\ Answers[reports[1].cmd] \in Accepts[cmd]
  <2>1. Head(reports) = reports[1] /\ reports[1].begins \in Accepts[cmd]
    BY Tails DEF ValidateResponse
  <2>2. Lead(reports[1])
    BY <1>1, <1>K, <2>1 DEF Known, AcknowledgedApart
  <2> QED
    BY <1>K, <2>1, <2>2 DEF Known, Lead
<1>5. /\ 1 \in DOMAIN inbox /\ inbox[1] \in Reports
      /\ \A i \in DOMAIN inbox' : /\ i \in Nat \ {0} /\ i + 1 \in DOMAIN inbox
                                  /\ inbox'[i] = inbox[i + 1]
  <2>1. 1 \in DOMAIN inbox /\ Head(inbox) = inbox[1] /\ Head(inbox) \in Reports
    BY <1>1, Tails
  <2> QED
    BY <1>1, <2>1, Tails
<1>6. reports[1] \in Reports /\ reports[1].cmd \in Commands
  <2>1. Head(reports) = reports[1] /\ Head(reports) \in Reports
    BY Tails
  <2> QED
    BY <1>4, <2>1, ReportFields DEF Option
<1>7. raw = <<>>
  <2> SUFFICES ASSUME raw # <<>>
               PROVE  FALSE
    OBVIOUS
  <2>1. 1 \in DOMAIN raw /\ raw[1].part # "whole" /\ reports[1] = raw[1]
    BY <1>1, CommandsAssumption, Tails DEF CallInv
  <2>2. reports[1].cmd \in Reads \ Mute
    BY <1>1, <1>4, <2>1 DEF FlightInv, Known
  <2> QED
    BY <1>1, <1>4, <2>2 DEF AcknowledgedApart
<1>8. 1 \in Acks
  <2>1. reports[1].cmd \notin Mute
    BY <1>4, <1>5, <1>7 DEF FlightInv, InFlight, Known
  <2>2. reports[1].cmd \in Writes
    BY <1>1, <1>4, <1>6, <2>1 DEF AcknowledgedApart, Commands
  <2> QED
    BY <1>5, <1>7, <2>2 DEF Acks
<1>9. ValueInv' /\ ~Writing'
  <2>1. ~Writing'
    BY <1>1, <1>3 DEF Writing
  <2> QED
    BY <1>2, <1>3, <1>5, <2>1 DEF HeldInv, ValueInv
<1>10. ASSUME failures <= 1
       PROVE  RestingInv'
  <2>1. WritingInv /\ arg \in Values
    BY <1>1, <1>10 DEF HeldInv, CallInv
  <2>2. \A i \in Acks' : /\ i \in Nat /\ i + 1 \in Acks /\ 1 < i + 1 /\ inbox'[i] = inbox[i + 1]
                         /\ inbox[i + 1].of = calls /\ inbox[1].of # calls
    BY <1>5, <1>8, <2>1 DEF Acks, WritingInv
  <2>3. Pending' = Pending /\ \A k \in Pending : k \in Nat /\ requests[k].of = calls
    <3>1. \A k \in Pending : k \in Nat
      BY IndicesAlways DEF Indices, Pending
    <3> QED
      BY <1>2, <1>8, <2>1, <3>1 DEF Pending, WritingInv
  <2>4. \A i, j \in Acks' : i = j
    <3> SUFFICES ASSUME NEW i \in Acks', NEW j \in Acks', i # j
                 PROVE  FALSE
      OBVIOUS
    <3>1. i + 1 < j + 1 \/ j + 1 < i + 1
      BY <2>2
    <3> QED
      BY <2>1, <2>2, <3>1 DEF WritingInv
  <2>5. \A k, l \in Pending : k = l
    <3> SUFFICES ASSUME NEW k \in Pending, NEW l \in Pending, k # l
                 PROVE  FALSE
      OBVIOUS
    <3>1. k < l \/ l < k
      BY <2>3
    <3> QED
      BY <2>1, <2>3, <3>1 DEF WritingInv
  <2>6. Acks' # {} => Pending = {}
    BY <2>1, <2>2 DEF WritingInv
  <2>7. \A i \in Acks' : UpToDate(i)'
    <3> SUFFICES ASSUME NEW i \in Acks', NEW j \in DOMAIN inbox', inbox'[j].cmd \in Reads, i < j
                 PROVE  inbox'[j].value = value
      BY <1>2 DEF UpToDate
    <3>1. UpToDate(i + 1) /\ i \in Nat /\ j \in Nat /\ i + 1 < j + 1
      BY <1>5, <2>1, <2>2 DEF WritingInv
    <3> QED
      BY <1>5, <3>1 DEF UpToDate
  <2>8. value = arg \/ UpToDate(1)
    BY <1>8, <2>1 DEF WritingInv
  <2>9. UpToDate(1) => \A i \in DOMAIN inbox' : inbox'[i].cmd \in Reads => inbox'[i].value = value
    <3>1. \A i \in DOMAIN inbox' : 1 < i + 1
      BY <1>5
    <3> QED
      BY <1>5, <3>1 DEF UpToDate
  <2>10. failures = 0 => Acks' = {} /\ Pending = {}
    BY <1>8, <2>1, <2>2 DEF WritingInv
  <2>11. \A k \in Pending : requests[k].arg = arg
    BY <2>1, <2>3 DEF WritingInv
  <2> QED
    BY <1>1, <1>2, <1>3, <2>1, <2>3, <2>4, <2>5, <2>6, <2>7, <2>8, <2>9, <2>10, <2>11 DEF RestingInv
<1> QED
    BY <1>3, <1>9, <1>10 DEF HeldInv

\* The device obeys a write.
LEMMA WriteObeyed ==
    ASSUME TypeOK, TypeOK', FlightInv, HeldInv, Obey, requests[1].cmd \in Writes \ Mute
    PROVE  HeldInv'
<1> DEFINE request == requests[1]
           report == Reply(request, "whole")
<1>1. /\ requests # <<>> /\ requests' = Tail(requests) /\ 1 \in DOMAIN requests
      /\ request \in Request /\ request.cmd \in Writes \ Mute /\ request.arg \in Values
      /\ value' = request.arg /\ rest = <<>> /\ rest' = <<>>
      /\ inbox' \in {inbox, Append(inbox, report)} /\ report \in Reports
      /\ UNCHANGED <<pc, localVars, callerVars>>
  <2>1. /\ 1 \in DOMAIN requests /\ request.arg \in Values /\ None \notin Values
        /\ request.cmd \notin Split /\ report \in Reports
    BY ObeyCases, ReplyType, CommandsAssumption DEF FlightInv, InFlight, Asked
  <2> QED
    BY <2>1, ObeyCases
<1>2. report.of = request.of /\ report.cmd = request.cmd /\ report.value = None
    BY <1>1, CommandsAssumption DEF Report, Reply
<1>3. /\ inbox \in Seq(Reports) /\ requests \in Seq(Request) /\ failures \in 0..2
      /\ Reads \cap Writes = {} /\ Len(inbox) \in Nat
  <2>1. inbox \in Seq(Reports) /\ requests \in Seq(Request) /\ failures \in 0..2
    BY DEF TypeOK, Request
  <2> QED
    BY <2>1, CommandsAssumption
<1>4. 1 \in Pending
    BY <1>1 DEF Pending
<1> HIDE DEF report, request
<1>5. \A i \in DOMAIN inbox' :
        \/ i \in DOMAIN inbox /\ inbox'[i] = inbox[i] /\ i \in Nat /\ i <= Len(inbox)
        \/ i = Len(inbox) + 1 /\ inbox'[i] = report
  <2>1. CASE inbox' = inbox
    BY <1>3, <2>1, Elements
  <2>2. CASE inbox' = Append(inbox, report)
    BY <1>1, <1>3, <2>2, Appends
  <2> QED
    BY <1>1, <2>1, <2>2
<1>6. \A k \in Pending' : /\ k \in Nat /\ k + 1 \in Pending /\ 1 < k + 1
                          /\ requests'[k] = requests[k + 1]
  <2>1. \A k \in DOMAIN requests' : /\ k \in Nat \ {0} /\ k + 1 \in DOMAIN requests
                                    /\ requests'[k] = requests[k + 1]
    BY <1>1, <1>3, Tails
  <2> QED
    BY <2>1 DEF Pending
<1>7. \A i \in Acks' :
        \/ i \in Acks /\ inbox'[i] = inbox[i] /\ i \in Nat /\ i <= Len(inbox)
        \/ i = Len(inbox) + 1 /\ inbox'[i] = report
    BY <1>5 DEF Acks
<1>8. \A i \in Acks' : i = Len(inbox) + 1 => UpToDate(i)'
  <2>1. \A j \in DOMAIN inbox' : ~(Len(inbox) + 1 < j)
    BY <1>3, <1>5
  <2> QED
    BY <2>1 DEF UpToDate
<1>9. /\ Writing' = Writing /\ calls' = calls /\ arg' = arg /\ failures' = failures
      /\ claim' = claim /\ verified' = verified /\ raw' = raw /\ pc' = pc
    BY <1>1 DEF localVars, callerVars, Writing
<1>10. ValueInv' /\ (verified' => pc' = "idle")
  <2>1. \A i \in DOMAIN inbox' : inbox'[i].cmd \notin Reads => inbox'[i].value = None
    BY <1>2, <1>5 DEF HeldInv, ValueInv
  <2>2. DOMAIN rest' = {}
    BY <1>1
  <2> QED
    BY <1>9, <2>1, <2>2 DEF HeldInv, ValueInv
<1>11. ASSUME failures <= 1, ~Writing
       PROVE  RestingInv'
  <2>1. RestingInv /\ failures # 0 /\ Acks = {}
    BY <1>3, <1>4, <1>11 DEF HeldInv, RestingInv
  <2>2. Pending' = {}
    <3>1. \A k \in Pending' : k + 1 = 1
      BY <1>4, <1>6, <2>1 DEF RestingInv
    <3> QED
      BY <1>6, <3>1
  <2>3. \A i \in Acks' : i = Len(inbox) + 1
    BY <1>7, <2>1
  <2>4. claim # None => value' = claim
    BY <1>1, <1>4, <2>1 DEF RestingInv, request
  <2> QED
    BY <1>8, <1>9, <2>1, <2>2, <2>3, <2>4 DEF RestingInv
<1>12. ASSUME failures <= 1, Writing
       PROVE  WritingInv'
  <2>1. WritingInv
    BY <1>12 DEF HeldInv
  <2>2. \A k \in Pending' : requests'[k].of = calls
    BY <1>4, <1>6, <2>1 DEF WritingInv
  <2>3. \A k, l \in Pending' : ~(k < l)
    <3> SUFFICES ASSUME NEW k \in Pending', NEW l \in Pending', k < l
                 PROVE  FALSE
      OBVIOUS
    <3>1. k + 1 < l + 1
      BY <1>6
    <3> QED
      BY <1>6, <2>1, <2>2, <3>1 DEF WritingInv
  <2>4. \A k \in Pending' : requests'[k].arg = arg
    BY <1>6, <2>1, <2>2 DEF WritingInv
  <2>5. CASE request.of = calls
    <3>1. request.arg = arg /\ Pending' = {}
      BY <1>4, <1>6, <2>1, <2>5 DEF WritingInv, request
    <3>2. \A i \in Acks : inbox[i].of # calls
      BY <1>4, <2>1 DEF WritingInv
    <3>3. \A i, j \in Acks : ~(i < j)
      BY <2>1, <3>2 DEF WritingInv
    <3>4. \A i, j \in Acks' : i < j => inbox'[i].of # calls /\ inbox'[j].of = calls
      <4> SUFFICES ASSUME NEW i \in Acks', NEW j \in Acks', i < j
                   PROVE  inbox'[i].of # calls /\ inbox'[j].of = calls
        OBVIOUS
      <4>1. i # Len(inbox) + 1
        BY <1>3, <1>7
      <4>2. i \in Acks /\ inbox'[i] = inbox[i]
        BY <1>7, <4>1
      <4>3. j \notin Acks
        BY <3>3, <4>2
      <4> QED
        BY <1>2, <1>7, <2>5, <3>2, <4>2, <4>3
    <3>5. \A i \in Acks' : inbox'[i].of = calls => UpToDate(i)'
      BY <1>7, <1>8, <3>2
    <3>6. failures = 0 => \A i \in Acks' : inbox'[i].of = calls
      BY <1>2, <1>7, <2>1, <2>5 DEF WritingInv
    <3> QED
      BY <1>1, <1>9, <3>1, <3>4, <3>5, <3>6 DEF WritingInv
  <2>6. CASE request.of # calls
    <3>1. Acks = {} /\ failures # 0
      BY <1>4, <2>1, <2>6 DEF WritingInv, request
    <3>2. \A i \in Acks' : i = Len(inbox) + 1 /\ inbox'[i].of # calls
      BY <1>2, <1>7, <2>6, <3>1
    <3>3. \A i, j \in Acks' : ~(i < j)
      BY <1>3, <3>2
    <3> QED
      BY <1>8, <1>9, <2>2, <2>3, <2>4, <3>1, <3>2, <3>3 DEF WritingInv
  <2> QED
    BY <2>5, <2>6
<1> QED
    BY <1>9, <1>10, <1>11, <1>12 DEF HeldInv

LEMMA HeldStep ==
    ASSUME TypeOK, TypeOK', CallInv, FlightInv, HeldInv, AcknowledgedApart, [Next]_vars
    PROVE  HeldInv'
<1>0. /\ inbox \in Seq(Reports) /\ requests \in Seq(Request) /\ raw \in Seq(Reports)
      /\ rest \in Seq(Reports) /\ failures \in 0..2 /\ failures' \in 0..2
      /\ None \notin Commands \cup Values /\ Reads \cap Writes = {} /\ Writes \subseteq Commands
      /\ Reads \subseteq Commands /\ Split \subseteq Reads
    BY CommandsAssumption DEF TypeOK, Request, Commands
<1>1. /\ \A l \in DOMAIN rest : rest[l].value = value
      /\ verified => pc = "idle"
      /\ pc = "idle" => cmd = None
      /\ failures <= 1 /\ verified => ~Writing /\ claim # None /\ value = claim
  <2>1. verified => ~Writing
    BY <1>0 DEF HeldInv, CallInv, Writing
  <2> QED
    BY <2>1 DEF HeldInv, ValueInv, RestingInv, CallInv
\* Where the reports and the requests are after a step.
<1>2. ASSUME UNCHANGED <<inbox, rest, value>>, raw' \in {raw, <<>>}
      PROVE  ReportsStay(0)
  <2>1. \A i \in DOMAIN inbox : i + 0 = i
    BY <1>0, Elements
  <2>2. \A i \in DOMAIN raw' : i \in DOMAIN raw /\ raw'[i] = raw[i]
    BY <1>2
  <2> QED
    BY <1>1, <1>2, <2>1, <2>2 DEF ReportsStay
<1>3. ASSUME inbox # <<>>, inbox' = Tail(inbox), UNCHANGED <<rest, value>>,
             \/ raw' \in {raw, <<>>}
             \/ raw = <<>> /\ raw' = Append(raw, Head(inbox))
      PROVE  ReportsStay(1)
  <2>1. /\ \A i \in DOMAIN inbox' : i + 1 \in DOMAIN inbox /\ inbox'[i] = inbox[i + 1]
        /\ 1 \in DOMAIN inbox /\ Head(inbox) = inbox[1] /\ Head(inbox) \in Reports
    BY <1>0, <1>3, Tails
  <2>2. \A i \in DOMAIN raw' : \/ i \in DOMAIN raw /\ raw'[i] = raw[i]
                               \/ raw'[i] = inbox[1]
    <3>1. CASE raw' \in {raw, <<>>}
      BY <3>1
    <3>2. CASE raw' = Append(raw, Head(inbox))
      BY <1>0, <2>1, <3>2, Appends
    <3> QED
      BY <1>3, <3>1, <3>2
  <2> QED
    BY <1>1, <1>3, <2>1, <2>2 DEF ReportsStay
<1>4. ASSUME StartDrain, UNCHANGED <<rest, value, raw>>
      PROVE  ReportsStay(0)
  <2>1. \A i \in DOMAIN inbox' : /\ i + 0 = i /\ i \in DOMAIN inbox
                                 /\ inbox'[i].of = inbox[i].of /\ inbox'[i].cmd = inbox[i].cmd
                                 /\ inbox'[i].value = inbox[i].value
    BY <1>0, <1>4, Elements, StartDrainEffect
  <2> QED
    BY <1>1, <1>4, <2>1 DEF ReportsStay
<1>5. ASSUME NEW r \in Reports, inbox' \in {inbox, Append(inbox, r)}, UNCHANGED <<value, raw>>,
             \A l \in DOMAIN rest' : rest'[l].value = value,
             (r.cmd = None /\ r.value = None) \/ (r.cmd \in Reads /\ r.value = value)
      PROVE  ReportsStay(0)
  <2>1. \A i \in DOMAIN inbox' : \/ i + 0 \in DOMAIN inbox /\ inbox'[i] = inbox[i + 0]
                                 \/ inbox'[i] = r
    <3>1. CASE inbox' = inbox
      BY <1>0, <3>1, Elements
    <3>2. CASE inbox' = Append(inbox, r)
      BY <1>0, <3>2, Appends
    <3> QED
      BY <1>5, <3>1, <3>2
  <2> QED
    BY <1>5, <2>1 DEF ReportsStay
<1>6. requests' = requests => RequestsStay(0)
  <2>1. \A k \in DOMAIN requests : k + 0 = k
    BY <1>0, Elements
  <2> QED
    BY <2>1 DEF RequestsStay
<1>7. requests # <<>> /\ requests' = Tail(requests) => RequestsStay(1)
    BY <1>0, Tails DEF RequestsStay
<1>8. ASSUME NEW q \in Request, q.cmd \notin Writes \ Mute, requests' = Append(requests, q)
      PROVE  RequestsStay(0)
  <2>1. \A k \in DOMAIN requests' : \/ k + 0 \in DOMAIN requests /\ requests'[k] = requests[k + 0]
                                    \/ requests'[k] = q
    BY <1>0, <1>8, Appends
  <2> QED
    BY <1>8, <2>1 DEF RequestsStay
\* What keeps the caller where it is, and what goes on with the command.
<1>9. ASSUME UNCHANGED <<pc, localVars, callerVars>>
      PROVE  /\ Writing' = Writing /\ calls' = calls /\ arg' = arg /\ failures <= failures'
             /\ claim' = claim /\ (verified' => pc' = "idle") /\ raw' = raw
             /\ value' = value =>
                  (failures' <= 1 /\ verified' => ~Writing' /\ claim' # None /\ value = claim')
    BY <1>0, <1>1, <1>9 DEF localVars, callerVars, Writing
<1>10. ASSUME pc # "idle", UNCHANGED <<cmd, arg, calls, claim, verified, failures>>,
              cmd \in Writes \ Mute => sends' = sends
       PROVE  /\ Writing' = Writing /\ calls' = calls /\ arg' = arg /\ failures <= failures'
              /\ claim' = claim /\ ~verified'
    BY <1>0, <1>1, <1>10 DEF Writing
<1>11. ASSUME ~Writing, NEW reports, Return(FALSE, reports)
       PROVE  /\ ~Writing' /\ failures <= failures' /\ claim' = None /\ ~verified' /\ raw' = <<>>
  <2>1. /\ cmd' = None /\ claim' = None /\ ~verified' /\ raw' = <<>>
        /\ failures' = IF failures = 2 THEN failures ELSE failures + 1
    BY <1>11 DEF Return
  <2>2. failures <= failures'
    BY <1>0, <2>1
  <2> QED
    BY <1>0, <2>1, <2>2 DEF Writing
<1>12. ASSUME NEW c, NEW v, SendCommand(c, v)
       PROVE  HeldInv'
  <2>1. /\ pc = "idle" /\ cmd = None /\ sends = 0 /\ sends' = 0
        /\ ~verified' /\ claim' = claim /\ failures' = failures /\ requests' = requests
        /\ StartDrain /\ UNCHANGED <<rest, value, raw>>
    BY <1>12 DEF SendCommand, CallInv, deviceVars
  <2>2. ~Writing /\ ~Writing' /\ failures <= failures'
    BY <1>0, <2>1 DEF Writing
  <2>3. ReportsStay(0) /\ RequestsStay(0)
    BY <1>4, <1>6, <2>1
  <2> QED
    BY <2>1, <2>2, <2>3, Fewer
<1>13. CASE DrainReport
  <2>1. /\ pc # "idle" /\ UNCHANGED <<cmd, arg, calls, claim, verified, failures, sends, raw>>
        /\ inbox # <<>> /\ inbox' = Tail(inbox) /\ UNCHANGED <<requests, rest, value>>
    BY <1>13 DEF DrainReport, Drainable, Continue, callerVars, deviceVars
  <2>2. ReportsStay(1) /\ RequestsStay(0)
    BY <1>3, <1>6, <2>1
  <2> QED
    BY <1>10, <2>1, <2>2, Fewer
<1>14. CASE Drained
  <2>1. /\ pc # "idle" /\ UNCHANGED <<cmd, arg, calls, claim, verified, failures, sends, raw>>
        /\ UNCHANGED <<inbox, requests, rest, value>>
    BY <1>14 DEF Drained, Continue, callerVars, hostVars, deviceVars
  <2>2. ReportsStay(0) /\ RequestsStay(0)
    BY <1>2, <1>6, <2>1
  <2> QED
    BY <1>10, <2>1, <2>2, Fewer
<1>15. CASE Write
  <2> DEFINE request == [of |-> calls, cmd |-> cmd, arg |-> arg]
  <2>1. request \in Request /\ request.cmd = cmd /\ pc = "write"
    BY <1>15, Numbers DEF Write, CallInv, TypeOK, Request
  <2>2. requests' = Append(requests, request) /\ UNCHANGED <<inbox, rest, value>>
    BY <1>15 DEF Write, hostVars
  <2> HIDE DEF request
  <2>3. CASE cmd \in Mute
    <3>1. Return(TRUE, <<>>) /\ ~Writing
      BY <1>15, <2>3 DEF Write, Writing
    <3>2. /\ ~Writing' /\ failures' = failures /\ claim' = None /\ ~verified' /\ raw' = <<>>
      BY <1>0, <2>3, <3>1 DEF Return, Writing
    <3>3. ReportsStay(0) /\ RequestsStay(0)
      BY <1>2, <1>8, <2>1, <2>2, <2>3, <3>2
    <3> QED
      BY <1>0, <3>1, <3>2, <3>3, Fewer
  <2>4. CASE cmd \in Reads \ Mute
    <3>1. UNCHANGED <<cmd, arg, calls, claim, verified, failures, raw>>
      BY <1>15, <2>4 DEF Write, Continue, callerVars
    <3>2. ReportsStay(0) /\ RequestsStay(0)
      BY <1>0, <1>2, <1>8, <2>1, <2>2, <2>4, <3>1
    <3>3. cmd \notin Writes \ Mute
      BY <1>0, <2>4
    <3> QED
      BY <1>10, <2>1, <3>1, <3>2, <3>3, Fewer
  <2>5. CASE cmd \in Writes \ Mute
    BY <1>15, <2>5, WriteUnderWay
  <2>6. cmd \in Commands
    BY <2>1 DEF CallInv
  <2> QED
    BY <2>3, <2>4, <2>5, <2>6 DEF Commands
\* A command fails.
<1>16. ASSUME Return(FALSE, <<>>), NEW d \in {0, 1}, ReportsStay(d), RequestsStay(0)
       PROVE  HeldInv'
  <2>1. CASE Writing
    BY <1>16, <2>1, WriteGivenUp
  <2>2. CASE ~Writing
    BY <1>11, <1>16, <2>2, Fewer
  <2> QED
    BY <2>1, <2>2
<1>17. CASE WriteFails \/ ReadFails \/ BackoffCancelled
  <2>1. Return(FALSE, <<>>) /\ UNCHANGED <<inbox, requests, rest, value>>
    BY <1>17 DEF WriteFails, ReadFails, BackoffCancelled, hostVars, deviceVars
  <2>2. raw' = <<>>
    BY <2>1 DEF Return
  <2>3. ReportsStay(0) /\ RequestsStay(0)
    BY <1>2, <1>6, <2>1, <2>2
  <2> QED
    BY <1>16, <2>1, <2>3
<1>18. CASE ReadReport \/ ReadTimesOut
  <2> DEFINE reports == Append(raw, Head(inbox))
  <2>1. /\ UNCHANGED <<requests, rest, value>> /\ pc = "read" /\ cmd \in Commands \ Mute
    BY <1>18 DEF ReadReport, ReadTimesOut, CallInv, deviceVars
  <2>2. ASSUME raw' = <<>>
        PROVE  \E d \in {0, 1} : ReportsStay(d)
    <3>1. CASE inbox # <<>> /\ inbox' = Tail(inbox)
      BY <1>3, <2>1, <2>2, <3>1
    <3>2. CASE inbox' = inbox
      BY <1>2, <2>1, <2>2, <3>2
    <3> QED
      BY <1>18, <3>1, <3>2, ReplyCases
  <2>3. CASE TryAgain /\ attempt < MaxAttempts
    <3>1. /\ raw' = <<>>
          /\ UNCHANGED <<cmd, arg, attempt, sends, calls, claim, verified, failures>>
      BY <2>3 DEF TryAgain
    <3>2. PICK d \in {0, 1} : ReportsStay(d)
      BY <2>2, <3>1
    <3> QED
      BY <1>6, <1>10, <2>1, <3>1, <3>2, Fewer
  <2>4. CASE TryAgain /\ ~(attempt < MaxAttempts)
    <3>1. Return(FALSE, <<>>)
      BY <2>4 DEF TryAgain
    <3>2. raw' = <<>>
      BY <3>1 DEF Return
    <3>3. PICK d \in {0, 1} : ReportsStay(d)
      BY <2>2, <3>2
    <3> QED
      BY <1>6, <1>16, <2>1, <3>1, <3>3
  <2>5. CASE /\ inbox # <<>> /\ raw = <<>> /\ raw' = reports /\ Continue("read")
             /\ UNCHANGED <<attempt, sends, drained>>
    <3>1. UNCHANGED <<cmd, arg, calls, claim, verified, failures>> /\ inbox' = Tail(inbox)
      BY <1>18, <2>5, ReplyCases DEF Continue, callerVars
    <3>2. ReportsStay(1) /\ RequestsStay(0)
      BY <1>3, <1>6, <2>1, <2>5, <3>1
    <3> QED
      BY <1>10, <2>1, <2>5, <3>1, <3>2, Fewer
  <2>6. CASE /\ inbox # <<>> /\ reports \in Seq(Reports) /\ reports # <<>>
             /\ reports[1] = (IF raw = <<>> THEN inbox[1] ELSE raw[1])
             /\ ValidateResponse(reports) /\ Return(TRUE, reports)
    <3> HIDE DEF reports
    <3>0. ReadReport /\ inbox' = Tail(inbox)
      BY <1>18, <2>6, ReplyCases
    <3>1. CASE Writing
      BY <2>6, <3>0, <3>1, WriteAcknowledged
    <3>2. CASE ~Writing
      <4>1. cmd \in Reads \ Mute /\ cmd \notin Writes
        BY <1>0, <2>1, <3>2 DEF Writing, CallInv, Commands
      <4>2. /\ ~Writing' /\ failures' = failures /\ claim' = claim /\ raw' = <<>> /\ pc' = "idle"
            /\ verified' = (claim # None /\ reports[1].value = claim)
        <5>1. Head(reports) = reports[1] /\ reports # <<>>
          BY <2>6, Tails
        <5> QED
          BY <1>0, <2>6, <4>1, <5>1 DEF Return, Writing
      <4>3. ReportsStay(1) /\ RequestsStay(0)
        BY <1>3, <1>6, <2>1, <2>6, <3>0, <4>2
      <4>4. 1 \in DOMAIN inbox /\ (raw # <<>> => 1 \in DOMAIN raw)
        BY <1>0, <2>6, Tails
      <4>5. reports[1].cmd \notin Reads => reports[1].value = None
        BY <2>6, <4>4 DEF HeldInv, ValueInv
      <4>6. ASSUME failures <= 1, verified'
            PROVE  claim # None /\ value = claim
        <5>1. RestingInv /\ claim # None /\ reports[1].value = claim /\ reports[1].cmd \in Reads
          BY <3>2, <4>2, <4>5, <4>6 DEF HeldInv
        <5> QED
          BY <2>6, <4>4, <5>1 DEF RestingInv
      <4> QED
        BY <1>0, <3>2, <4>2, <4>3, <4>6, Fewer
    <3> QED
      BY <3>1, <3>2
  <2>7. \/ TryAgain
        \/ /\ inbox # <<>> /\ reports \in Seq(Reports) /\ reports # <<>>
           /\ reports[1] = (IF raw = <<>> THEN inbox[1] ELSE raw[1])
           /\ ValidateResponse(reports) /\ Return(TRUE, reports)
        \/ /\ inbox # <<>> /\ raw = <<>> /\ raw' = reports /\ Continue("read")
           /\ UNCHANGED <<attempt, sends, drained>>
    BY <1>18, ReplyCases
  <2> HIDE DEF reports
  <2> QED
    BY <2>3, <2>4, <2>5, <2>6, <2>7
<1>19. CASE Retry
  <2>1. /\ pc # "idle" /\ UNCHANGED <<cmd, arg, calls, claim, verified, failures, sends, raw>>
        /\ UNCHANGED <<requests, rest, value>> /\ (StartDrain \/ inbox' = inbox)
    BY <1>19 DEF Retry, Continue, callerVars, deviceVars
  <2>2. ReportsStay(0) /\ RequestsStay(0)
    BY <1>2, <1>4, <1>6, <2>1
  <2> QED
    BY <1>10, <2>1, <2>2, Fewer
<1>20. CASE Swallow
  <2>1. /\ UNCHANGED <<pc, localVars, callerVars>> /\ UNCHANGED <<requests, rest, value>>
        /\ inbox # <<>> /\ inbox' = Tail(inbox)
    BY <1>20 DEF Swallow, deviceVars
  <2>2. ReportsStay(1) /\ RequestsStay(0)
    BY <1>3, <1>6, <1>9, <2>1
  <2> QED
    BY <1>9, <2>1, <2>2, Fewer
<1>21. CASE Reopen
  <2>1. /\ ~verified' /\ claim' = None /\ DOMAIN inbox' = {} /\ UNCHANGED <<requests, rest, value>>
        /\ UNCHANGED <<cmd, arg, sends, calls, failures, raw>>
    BY <1>21 DEF Reopen, localVars, deviceVars
  <2>2. ReportsStay(0) /\ RequestsStay(0)
    BY <1>1, <1>6, <2>1 DEF ReportsStay
  <2>3. Writing' = Writing /\ failures <= failures'
    BY <1>0, <2>1 DEF Writing
  <2> QED
    BY <2>1, <2>2, <2>3, Fewer
<1>22. CASE Obey
  <2> DEFINE request == requests[1]
  <2>1. /\ requests # <<>> /\ requests' = Tail(requests) /\ 1 \in DOMAIN requests
        /\ request \in Request /\ UNCHANGED <<pc, localVars, callerVars>> /\ rest = <<>>
    BY <1>22, ObeyCases
  <2>2. CASE request.cmd \in Writes \ Mute
    BY <1>22, <2>2, WriteObeyed
  <2>3. CASE request.cmd \notin Writes \ Mute
    <3>1. value' = value
      <4>1. request.arg = None
        BY <2>1, <2>3 DEF FlightInv, InFlight, Asked
      <4> QED
        BY <1>22, <4>1, ObeyCases
    <3>2. raw' = raw
      BY <2>1 DEF localVars
    <3>3. CASE UNCHANGED <<inbox, rest>>
      <4>1. ReportsStay(0)
        BY <1>2, <3>1, <3>2, <3>3
      <4> QED
        BY <1>7, <1>9, <2>1, <3>1, <4>1, Fewer
    <3>4. ASSUME NEW part \in {"whole", "first"}, NEW begins, request.cmd \notin Mute,
                 Reply(request, part) \in Reports,
                 inbox' \in {inbox, Append(inbox, Reply(request, part))},
                 rest' \in {rest, <<Report(request, "rest", begins)>>}
          PROVE  HeldInv'
      <4> DEFINE report == Reply(request, part)
                 second == Report(request, "rest", begins)
      <4>1. request.cmd \in Reads
        BY <2>1, <2>3, <3>4 DEF Request, Commands
      <4>2. report.cmd = request.cmd /\ report.value = value /\ second.value = value
        BY <4>1 DEF Report, Reply
      <4>3. report \in Reports /\ inbox' \in {inbox, Append(inbox, report)}
            /\ (rest' = rest \/ rest' = <<second>>)
        BY <3>4
      <4> HIDE DEF report, second, request
      <4>4. \A l \in DOMAIN rest' : rest'[l].value = value
        BY <1>1, <4>2, <4>3
      <4>5. ReportsStay(0)
        BY <1>5, <3>1, <3>2, <4>1, <4>2, <4>3, <4>4
      <4> QED
        BY <1>7, <1>9, <2>1, <3>1, <4>5, Fewer
    <3> QED
      BY <1>22, <3>3, <3>4, ObeyCases
  <2> QED
    BY <2>2, <2>3
<1>23. CASE Drop
  <2>1. /\ UNCHANGED <<pc, localVars, callerVars>> /\ UNCHANGED <<inbox, rest, value>>
        /\ requests # <<>> /\ requests' = Tail(requests)
    BY <1>23 DEF Drop, hostVars
  <2>2. ReportsStay(0) /\ RequestsStay(1)
    BY <1>2, <1>7, <1>9, <2>1
  <2> QED
    BY <1>9, <2>1, <2>2, Fewer
<1>24. CASE SecondReport
  <2>1. /\ UNCHANGED <<pc, localVars, callerVars>> /\ UNCHANGED <<requests, value>>
        /\ rest # <<>> /\ rest' = <<>> /\ Arrive(rest[1])
    BY <1>24 DEF SecondReport
  <2>2. /\ 1 \in DOMAIN rest /\ rest[1] \in Reports /\ DOMAIN rest' = {}
    BY <1>0, <2>1, Tails
  <2>3. rest[1].cmd \in Reads /\ rest[1].value = value
    BY <1>0, <1>1, <2>2 DEF FlightInv, InFlight, Known
  <2>4. ReportsStay(0) /\ RequestsStay(0)
    BY <1>5, <1>6, <1>9, <2>1, <2>2, <2>3, ArriveEffect
  <2> QED
    BY <1>9, <2>1, <2>4, Fewer
<1>25. CASE Stray
  <2>1. PICK stray \in Reports : Arrive(stray) /\ stray.cmd = None /\ stray.value = None
    <3>1. \A begins \in Unasked : StrayReport(begins).cmd = None /\ StrayReport(begins).value = None
      BY DEF StrayReport
    <3> QED
      BY <1>25, <3>1, StrayArrives, StrayType
  <2>2. UNCHANGED <<pc, localVars, callerVars>> /\ UNCHANGED <<requests, rest, value>>
    BY <1>25 DEF Stray, deviceVars
  <2>3. /\ \A l \in DOMAIN rest' : rest'[l].value = value
        /\ inbox' \in {inbox, Append(inbox, stray)} /\ raw' = raw
    BY <1>1, <1>9, <2>1, <2>2, ArriveEffect
  <2>4. ReportsStay(0) /\ RequestsStay(0)
    BY <1>5, <1>6, <2>1, <2>2, <2>3
  <2> QED
    BY <1>9, <2>2, <2>4, Fewer
<1>26. CASE UNCHANGED vars
  <2>1. UNCHANGED <<pc, localVars, callerVars>> /\ UNCHANGED <<inbox, requests, rest, value>>
    BY <1>26 DEF vars, hostVars, deviceVars
  <2>2. ReportsStay(0) /\ RequestsStay(0)
    BY <1>2, <1>6, <1>9, <2>1
  <2> QED
    BY <1>9, <2>1, <2>2, Fewer
<1> QED
    BY <1>12, <1>13, <1>14, <1>15, <1>17, <1>18, <1>19, <1>20, <1>21, <1>22, <1>23, <1>24, <1>25, <1>26
       DEF Next, Step

\* Where nothing but a write's reply is taken for one, a value that was acknowledged and read
\* back is what the device holds, for as long as no more than one command has failed.
THEOREM ReadBackIsHeld ==
    ASSUME AcknowledgedApart
    PROVE  Spec => []VerifiedIsHeld
<1> DEFINE IInv == TypeOK /\ CallInv /\ FlightInv /\ HeldInv
<1>1. Init => IInv
  <2> SUFFICES ASSUME Init
               PROVE  IInv
    OBVIOUS
  <2>1. DOMAIN inbox = {} /\ DOMAIN requests = {} /\ DOMAIN rest = {} /\ DOMAIN raw = {}
    BY DEF Init
  <2>2. HeldInv
    BY <2>1, CommandsAssumption
       DEF Init, HeldInv, ValueInv, RestingInv, Writing, Acks, Pending, Commands
  <2> QED
    BY <2>1, <2>2, FirstState DEF FlightInv, InFlight
<1>2. IInv /\ [Next]_vars => IInv'
    BY CallStep, FlightStep, HeldStep
<1>3. IInv => VerifiedIsHeld
    BY CommandsAssumption DEF HeldInv, RestingInv, VerifiedIsHeld, CallInv, Writing, Commands
<1> QED
  <2> HIDE DEF IInv
  <2> QED
    BY <1>1, <1>2, <1>3, PTL DEF Spec
=============================================================================
