------------------------------ MODULE PadWrite ------------------------------
(***************************************************************************)
(* Writing a controller's profile (internal/core/pad.go and pad_macro.go   *)
(* with the commands of internal/protocol/u2.go): reading one, PadApply    *)
(* and RestoreBackup, command by command.  For every platform a controller *)
(* keeps a record and, apart from it, the steps of its macros; a macro's   *)
(* header in the record says that its steps are there.  The platform that  *)
(* commands address is selected when a session opens.  Writes wait for a   *)
(* commit, erasing the steps does not.  Any command may fail, obeyed or    *)
(* not, and an acknowledged one may not have taken.                        *)
(*                                                                         *)
(* A header holds 0, no macro, or the macro's name and trigger.  Garbage   *)
(* is what erased or half written steps read as; 0 stands for no steps,    *)
(* which is how a macro without a header reads.  All step lists have one   *)
(* length, so a header never cuts one short.                               *)
(***************************************************************************)
EXTENDS Naturals, FiniteSets

CONSTANTS
    Platforms,          \* a profile is kept for each
    Slots,              \* profile slots
    MacroIds,           \* places for macros, in the order of their storage
    SlotOf,             \* the slot each belongs to
    Values,             \* what a part may hold
    Garbage,            \* steps that are not whole
    InitialProfiles,    \* what the controller may hold at first
    Requests,           \* the edits PadApply may be asked for
    MaxCalls            \* bound: calls in a behaviour

Settings == {"slot"} \X Slots
Headers == {"header"} \X MacroIds
Storage == {"steps"} \X MacroIds
Light == <<"light", 0>>
Sections == Settings \cup Headers       \* the record
Parts == Sections \cup Storage \cup {Light}

Header(x) == <<"header", x[2]>>         \* of the steps x

Profile == [Parts -> Values]
Kept == [on : Platforms, profile : Profile]
Changes == UNION {[S -> Values] : S \in SUBSET Parts}

ASSUME ValuesAssumption ==
    /\ Slots \subseteq Nat
    /\ MacroIds \subseteq Nat
    /\ SlotOf \in [MacroIds -> Slots]
    /\ {0, Garbage} \subseteq Values
    /\ Garbage # 0

\* At first every header has its steps.  The light effect is one for all
\* platforms.
ASSUME ProfilesAssumption ==
    /\ InitialProfiles \subseteq Profile
    /\ Requests \subseteq Changes
    /\ \A p \in InitialProfiles : \A x \in Storage :
         p[Header(x)] # 0 => p[x] \notin {0, Garbage}
    /\ \A p, q \in InitialProfiles : p[Light] = q[Light]

ASSUME CallsAssumption == MaxCalls \in Nat

VARIABLES
    held,       \* what the controller holds, by platform
    selected,   \* the platform that commands address
    staged,     \* what it was sent since the last commit
    whole,      \* whether this model (an Ultimate Bluetooth) is only ever sent its
                \* whole record, and leaves the platform to its user
    read,       \* the profile that was read to be edited
    backups,    \* core.backups
    op,         \* the call under way
    pc,         \* where it is
    before,     \* the profile as the call read it
    asked,      \* the profile to establish, of which platform: edited, or the backup
    goal,       \* what this pass writes
    from,       \* what it compares that with
    jobs,       \* what is left of this pass
    todo,       \* what is left to send of the job under way
    undoing,    \* whether this is the rollback
    dirty,      \* whether an earlier call's uncommitted steps were still staged
    told,       \* how the last call ended
    calls       \* calls made so far

vars == <<held, selected, staged, whole, read, backups, op, pc, before, asked, goal, from, jobs, todo, undoing,
          dirty, told, calls>>

SpansJob == <<"spans", 0>>
LightJob == <<"light", 0>>
StepsJobs(slots) == {"steps"} \X slots

TypeOK ==
    /\ held \in [Platforms -> Profile]
    /\ selected \in Platforms
    /\ DOMAIN staged \subseteq Sections \cup Storage
    /\ \A x \in DOMAIN staged : staged[x] \in Values
    /\ whole \in BOOLEAN
    /\ read \subseteq Kept
    /\ backups \subseteq Kept
    /\ op \in {"none", "apply", "restore"}
    /\ pc \in {"idle", "next", "erase", "write", "span", "commit", "check", "light",
               "check_light"}
    /\ {before, goal, from} \subseteq Profile
    /\ asked \in Kept
    /\ jobs \subseteq StepsJobs(Slots) \cup {SpansJob, LightJob}
    /\ todo \subseteq Sections \cup Storage
    /\ pc \in {"next", "commit", "check"} => todo = {}
    /\ undoing \in BOOLEAN
    /\ dirty \in BOOLEAN
    /\ told \in {"nothing", "refused", "applied", "rolled_back", "rollback_failed", "restored",
                 "restore_failed"}
    /\ calls \in 0..MaxCalls

Nothing == [x \in {} |-> 0]

-----------------------------------------------------------------------------
(* Profiles.                                                               *)

Overlay(p, changes) == [x \in Parts |-> IF x \in DOMAIN changes THEN changes[x] ELSE p[x]]

\* What the commands of the session read and write.
Addressed == held[selected]

\* readPadProfile: the steps of a macro are read when its header says so.
Read(p) == [x \in Parts |-> IF x \in Storage /\ p[Header(x)] = 0 THEN 0 ELSE p[x]]

Differing(p, q, among) == {x \in among : p[x] # q[x]}

StepsOf(slot) == {x \in Storage : SlotOf[x[2]] = slot}

\* The slots one of whose macros differs.
MacroSlots(p, q) == {SlotOf[x[2]] : x \in Differing(p, q, Headers \cup Storage)}

\* PadMacro.validate, of every macro of a slot that was edited.
Valid(edited, was) ==
    \A slot \in MacroSlots(edited, was) : \A x \in StepsOf(slot) :
        IF edited[Header(x)] = 0 THEN edited[x] = 0 ELSE edited[x] \notin {0, Garbage}

\* What there is to do to make one profile the other, by PadApply.
Jobs(p, q) ==
    StepsJobs(MacroSlots(p, q))
        \cup {j \in {SpansJob} : Differing(p, q, Sections) # {}}
        \cup {j \in {LightJob} : p[Light] # q[Light]}

\* By restorePadBackup, which leaves the light effect alone.
RestoreJobs(p, q) == StepsJobs(Slots) \cup {j \in {SpansJob} : Differing(p, q, Sections) # {}}

\* "Steps go first: a header must never describe steps that are not there"; the
\* rollback has its own order.
Rank(kind) ==
    CASE kind = "light" -> 3
      [] kind = "spans" -> (IF undoing THEN 1 ELSE 2)
      [] kind = "steps" -> (IF undoing THEN 2 ELSE 1)

Job ==
    CHOOSE j \in jobs : \A i \in jobs \ {j} :
        Rank(j[1]) < Rank(i[1]) \/ (Rank(j[1]) = Rank(i[1]) /\ j[2] < i[2])

\* The order of the record, and of macro storage.
Precedes(x, y) == (x[1] = "slot" /\ y[1] = "header") \/ (x[1] = y[1] /\ x[2] < y[2])

Current == CHOOSE x \in todo : \A y \in todo \ {x} : Precedes(x, y)

\* The macros of a slot whose steps are written: those that differ and are not
\* empty.
Rewritten(slot) == {x \in StepsOf(slot) : goal[x] # from[x] /\ goal[x] # 0}

SpansMutant == Differing(goal, from, Parts)
Spans == Differing(goal, from, Sections)

-----------------------------------------------------------------------------
Init ==
    /\ held \in [Platforms -> InitialProfiles]
    /\ selected \in Platforms
    /\ staged = Nothing
    /\ whole \in BOOLEAN
    /\ read = {}
    /\ backups = {}
    /\ op = "none"
    /\ pc = "idle"
    /\ before = Addressed
    /\ asked = [on |-> selected, profile |-> Addressed]
    /\ goal = Addressed
    /\ from = Addressed
    /\ jobs = {}
    /\ todo = {}
    /\ undoing = FALSE
    /\ dirty = FALSE
    /\ told = "nothing"
    /\ calls = 0

callFrame == <<selected, whole, read, backups, op, before, asked, dirty, calls>>
passFrame == <<goal, from, undoing, told>>

\* padPlatform: a controller says which platform its switch is on, unless the
\* user says it; that one's choice may not have taken.
Selectable(chosen) == IF whole THEN {chosen, selected} ELSE Platforms

\* padSession.  Selecting the platform drops what was staged of the record;
\* whether it drops what was staged of the steps is not known.
Open(chosen) ==
    /\ pc = "idle"
    /\ selected' \in Selectable(chosen)
    /\ staged' \in {Nothing, [x \in DOMAIN staged \cap Storage |-> staged[x]]}
    /\ UNCHANGED <<held, whole>>

\* holdsPlatform, and the check that "the controller's mode switch moved since
\* this profile was read".
Holds(platform) == selected' = platform

Call(which, platform) ==
    /\ Open(platform)
    /\ calls < MaxCalls
    /\ calls' = calls + 1
    /\ op' = which
    /\ before' = Read(held[selected'])
    /\ dirty' = (DOMAIN staged' # {})
    /\ undoing' = FALSE
    /\ UNCHANGED read

End(how) ==
    /\ pc' = "idle"
    /\ jobs' = {}
    /\ todo' = {}
    /\ told' = how
    /\ UNCHANGED <<goal, from>>

Write(what, over, which) ==
    /\ goal' = what
    /\ from' = over
    /\ jobs' = which
    /\ todo' = {}
    /\ pc' = "next"
    /\ told' = "nothing"

\* storeBackup: the record says which platform it is of.
Backup == [on |-> selected', profile |-> before']

PadReadProfile(chosen) ==
    /\ Open(chosen)
    /\ \/ /\ whole => Holds(chosen)
          /\ read' = {[on |-> selected', profile |-> Read(held[selected'])]}
       \/ UNCHANGED read
    /\ op' = "none"
    /\ told' = "nothing"
    /\ UNCHANGED <<backups, pc, before, asked, goal, from, jobs, todo, undoing, dirty, calls>>

\* beginArcadeProSync, which only an Arcade Controller Pro needs, may fail after
\* the backup.
SyncRefused == ~whole /\ End("refused")

\* Up to the first write: the gates, the session, reading the profile and
\* encoding the edit, any of which may refuse the call.
PadApply(request) == \E profile \in read :
    LET edited == Overlay(profile.profile, request)
        which == Jobs(edited, before')
    IN  /\ Call("apply", profile.on)
        /\ asked' = [on |-> profile.on, profile |-> edited]
        /\ \/ End("refused") /\ UNCHANGED backups
           \/ /\ Holds(profile.on)
              /\ Valid(edited, before')
              /\ backups' = backups \cup {Backup}
              /\ \/ which = {} /\ End("applied")
                 \/ which # {} /\ (Write(edited, before', which) \/ SyncRefused)

RestoreBackup(backup) ==
    /\ Call("restore", backup.on)
    /\ asked' = backup
    /\ UNCHANGED backups
    /\ \/ End("refused")
       \/ Holds(backup.on) /\ Write(backup.profile, before', RestoreJobs(backup.profile, before'))

-----------------------------------------------------------------------------
(* A pass.                                                                 *)

FirstFailure == op = "apply" /\ ~undoing

UndoJobsMutant == jobs
UndoJobs == Jobs(asked.profile, before)

PutBack ==
    /\ FirstFailure
    /\ undoing' = TRUE
    /\ Write(before, asked.profile, UndoJobs)

GiveUp ==
    /\ ~FirstFailure
    /\ End(IF op = "apply" THEN "rollback_failed" ELSE "restore_failed")
    /\ UNCHANGED undoing

Fail == (PutBack \/ GiveUp) /\ UNCHANGED callFrame

Onward(l, rest) ==
    /\ pc' = l
    /\ todo' = rest
    /\ UNCHANGED <<callFrame, passFrame, jobs>>

JobDone ==
    /\ pc' = "next"
    /\ jobs' = jobs \ {Job}
    /\ UNCHANGED <<callFrame, passFrame, todo>>

\* writePadMacroSteps and writePadSpans, up to their first command.
NextJob ==
    /\ pc = "next"
    /\ jobs # {}
    /\ CASE Job[1] = "steps" -> IF Rewritten(Job[2]) = {} THEN JobDone
                                ELSE Onward("erase", Rewritten(Job[2]))
         [] Job[1] = "spans" -> Onward("span", IF whole THEN Sections ELSE Spans)
         [] Job[1] = "light" -> Onward("light", {})
    /\ UNCHANGED <<held, staged>>

Erase ==
    /\ pc = "erase"
    /\ held' \in {held, [held EXCEPT ![selected][Current] = Garbage]}
    /\ (Onward("write", todo) \/ Fail)
    /\ UNCHANGED staged

Stage(x, v) == [y \in DOMAIN staged \cup {x} |-> IF y = x THEN v ELSE staged[y]]

\* Steps written over others are garbage, and so are steps not written to their
\* end; a backup may hold garbage to begin with.
WriteSteps ==
    /\ pc = "write"
    /\ \E v \in {goal[Current], Garbage} :
         /\ staged' \in {staged, Stage(Current, v)}
         /\ \/ /\ v = goal[Current] => Addressed[Current] \in {Garbage, v}
               /\ v # goal[Current] => Addressed[Current] # goal[Current]
               /\ LET rest == todo \ {Current}
                  IN  Onward(IF rest = {} THEN "commit" ELSE "erase", rest)
            \/ Fail
    /\ UNCHANGED held

WriteSpan ==
    /\ pc = "span"
    /\ staged' \in {staged, Stage(Current, goal[Current])}
    /\ \/ LET rest == todo \ {Current} IN Onward(IF rest = {} THEN "commit" ELSE "span", rest)
       \/ Fail
    /\ UNCHANGED held

Committed == held' = [held EXCEPT ![selected] = Overlay(@, staged)] /\ staged' = Nothing

\* A commit that is acknowledged has taken place: "makes the writes since the
\* last commit take effect and persist".
Commit ==
    /\ pc = "commit"
    /\ \/ Committed /\ Onward("check", {})
       \/ Committed /\ Fail
       \/ UNCHANGED <<held, staged>> /\ Fail

Matches(S) == \A x \in S : Addressed[x] = goal[x]

Check ==
    /\ pc = "check"
    /\ \/ Matches(IF Job = SpansJob THEN Spans ELSE Rewritten(Job[2])) /\ JobDone
       \/ Fail
    /\ UNCHANGED <<held, staged>>

SetLightEffect ==
    /\ pc = "light"
    /\ held' \in {held, [p \in Platforms |-> [held[p] EXCEPT ![Light] = goal[Light]]]}
    /\ (Onward("check_light", {}) \/ Fail)
    /\ UNCHANGED staged

CheckLight ==
    /\ pc = "check_light"
    /\ \/ Matches({Light}) /\ JobDone
       \/ Fail
    /\ UNCHANGED <<held, staged>>

Done ==
    /\ pc = "next"
    /\ jobs = {}
    /\ End(IF op = "restore" THEN "restored"
           ELSE IF undoing THEN "rolled_back" ELSE "applied")
    /\ UNCHANGED <<callFrame, held, staged, undoing>>

-----------------------------------------------------------------------------
Step ==
    \/ NextJob \/ Erase \/ WriteSteps \/ WriteSpan \/ Commit \/ Check
    \/ SetLightEffect \/ CheckLight \/ Done

Next ==
    \/ \E chosen \in Platforms : PadReadProfile(chosen)
    \/ \E request \in Requests : PadApply(request)
    \/ \E backup \in backups : RestoreBackup(backup)
    \/ Step

Spec == Init /\ [][Next]_vars

-----------------------------------------------------------------------------
(* Properties.  Those of what a call leaves behind exclude the calls that  *)
(* found an earlier call's steps staged: their commit completes that call. *)

\* "Applied" means that the controller reads as the edited profile, record,
\* macros and light effect, on the platform that profile was read from and
\* wherever the controller's switch is by now (pad.go:733-735, 795-811).
AppliedIsHeld == told = "applied" /\ ~dirty => Read(held[asked.on]) = asked.profile

\* A rollback reported as done leaves the controller reading as it did, macros
\* the failed pass erased included (pad.go:813-830).
RollbackPutsBack == told = "rolled_back" /\ ~dirty => Read(Addressed) = before

\* A restored backup is what the controller reads as on the backup's platform,
\* macros whose header or whose steps were lost since included; but not its
\* light effect (pad.go:861-932).
RestoreIsComplete ==
    told = "restored" /\ ~dirty =>
        \A x \in Parts \ {Light} : Read(held[asked.on])[x] = asked.profile[x]

\* Nothing changes on the controller before what it held has been stored, with
\* the platform it is of (pad.go:777, 799).
BackupFirst ==
    op = "apply" /\ Read(Addressed) # before =>
        [on |-> selected, profile |-> before] \in backups

\* At no moment of a call, of its rollback or of a restore does the header of a
\* macro that was not there before describe steps that are not there
\* (pad.go:796), unless the restored backup is of a controller on which they
\* were not whole.
HeadersAfterSteps ==
    op # "none" => \A x \in Storage :
        before[Header(x)] = 0 /\ Addressed[Header(x)] # 0 /\ Addressed[x] = Garbage
            => op = "restore" /\ asked.profile[x] = Garbage

\* What a write report and a backup promise of a controller, and the order of
\* writing that a controller read by somebody in between relies on.
KeepsPromise ==
    /\ AppliedIsHeld /\ RollbackPutsBack /\ RestoreIsComplete /\ BackupFirst
    /\ HeadersAfterSteps
=============================================================================
