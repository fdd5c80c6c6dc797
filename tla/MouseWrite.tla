----------------------------- MODULE MouseWrite -----------------------------
(***************************************************************************)
(* Writing a mouse's profile (internal/core/mouse.go with the commands of  *)
(* internal/protocol/mouse.go): MouseApply and RestoreBackup.  A Retro R8  *)
(* has a command for each setting, read back one by one; a Riviera mouse   *)
(* keeps one record, of which spans are written and then all read back.    *)
(* Any command may fail, obeyed or not, and an acknowledged one may not    *)
(* have taken.                                                             *)
(*                                                                         *)
(* A Retro R8 without a name holds no profile; a record has a flag for     *)
(* that.  The value of a macro that has no records is 0, and Garbage is    *)
(* what a name or a macro sent in several reports reads as when some of    *)
(* them did not arrive.  "x" is the whole table of stages along that axis, *)
(* and "y" the mask of the other.  "setting" is any one-command setting.   *)
(***************************************************************************)
EXTENDS Naturals, FiniteSets

CONSTANTS
    Buttons,            \* the buttons that can play a macro, in their order
    Stages,             \* DPI stages
    Values,             \* what a part may hold
    Garbage,            \* a value that is not whole
    Plays,              \* the assignment of a button that plays its macro
    EnabledIn,          \* the stages a table of stages has switched on
    DpiIn,              \* the DPI it gives each
    Defaults,           \* the profile shown for a mouse that holds none
    InitialProfiles,    \* what the mouse may hold at first
    Requests,           \* the edits MouseApply may be asked for
    MaxCalls            \* bound: calls in a behaviour

Flag == <<"flag", 0>>
Name == <<"name", 0>>
Setting == <<"setting", 0>>
X == <<"x", 0>>
Y == <<"y", 0>>
Stage == <<"stage", 0>>
Assigned(b) == <<"button", b>>
Macro(b) == <<"macro", b>>

Macros == {Macro(b) : b \in Buttons}
Assignments == {Assigned(b) : b \in Buttons}
Parts == {Flag, Name, Setting, X, Y, Stage} \cup Assignments \cup Macros

Profile == [Parts -> Values]

ASSUME ValuesAssumption ==
    /\ Buttons \subseteq Nat
    /\ Values \subseteq Nat
    /\ Stages \subseteq Values
    /\ {0, 1, Garbage, Plays} \subseteq Values
    /\ Garbage # 0 /\ Plays # 0
    /\ EnabledIn \in [Values -> SUBSET Stages]
    /\ DpiIn \in [Values -> [Stages -> Nat]]

\* The default profile has no macros and no table for the other axis.
ASSUME ProfilesAssumption ==
    /\ Defaults \in Profile
    /\ \A x \in {Flag, Name, Y} \cup Macros : Defaults[x] = 0
    /\ Defaults[Stage] \in EnabledIn[Defaults[X]]
    /\ InitialProfiles \subseteq Profile
    /\ \A r \in Requests :
         /\ DOMAIN r \subseteq Parts \ {Flag}
         /\ \A x \in DOMAIN r : r[x] \in Values

ASSUME CallsAssumption == MaxCalls \in Nat

VARIABLES
    held,       \* what the mouse holds
    stageDpi,   \* the DPI sent along with the stage in use
    record,     \* whether it keeps one record
    backups,    \* core.backups
    op,         \* the call under way
    pc,         \* where it is
    before,     \* the profile as the call read it
    fitted,     \* whether the stage in use was an enabled one then, at its DPI
    missed,     \* whether a stage was acknowledged and not taken since
    asked,      \* the profile to establish: edited, or the backup
    goal,       \* what this pass writes
    parts,      \* the parts it writes
    todo,       \* those it is not done with
    undoing,    \* whether this is the rollback
    told,       \* how the last call ended
    calls       \* calls made so far

vars == <<held, stageDpi, record, backups, op, pc, before, fitted, missed, asked, goal, parts,
          todo, undoing, told, calls>>

TypeOK ==
    /\ held \in Profile
    /\ stageDpi \in Nat
    /\ record \in BOOLEAN
    /\ backups \subseteq Profile
    /\ op \in {"none", "apply", "restore"}
    /\ pc \in {"idle", "write", "check", "clear", "check_clear"}
    /\ {before, asked, goal} \subseteq Profile
    /\ fitted \in BOOLEAN /\ missed \in BOOLEAN
    /\ todo \subseteq parts /\ parts \subseteq Parts
    /\ record => parts \cap ({Y} \cup Macros) = {} /\ pc \notin {"clear", "check_clear"}
    /\ undoing \in BOOLEAN
    /\ told \in {"nothing", "refused", "applied", "rolled_back", "rollback_failed", "restored",
                 "restore_failed"}
    /\ calls \in 0..MaxCalls

-----------------------------------------------------------------------------
(* Profiles.                                                               *)

InUse(p) == IF record THEN p[Flag] = 1 ELSE p[Name] # 0

\* The macros of the buttons that play one: no other is read.
OnlyPlayed(p) ==
    [x \in Parts |-> IF x \in Macros /\ p[Assigned(x[2])] # Plays THEN 0 ELSE p[x]]

\* readMouseProfile.
Read(p) == IF record THEN p ELSE IF InUse(p) THEN OnlyPlayed(p) ELSE Defaults

\* mouseRecordBase, decodeMouseRetro.
Shown(p) == IF InUse(p) THEN Read(p) ELSE Defaults

Overlay(p, changes) == [x \in Parts |-> IF x \in DOMAIN changes THEN changes[x] ELSE p[x]]

Differing(p, q, among) == {x \in among : p[x] # q[x]}

\* checkMouseCommon and what encodeMouseRetro adds to it.  Anything unchanged
\* is left alone, whatever it holds.
Valid(edited, was) ==
    /\ edited[Name] # 0
    /\ Differing(edited, was, {X, Y}) # {} => EnabledIn[edited[X]] # {}
    /\ edited[Stage] # was[Stage] => edited[Stage] \in Stages
    /\ edited[Stage] \in Stages \ EnabledIn[edited[X]] =>
         edited[Stage] = was[Stage] /\ was[Stage] \notin EnabledIn[was[X]]
    /\ \A b \in Buttons :
         IF edited[Assigned(b)] = Plays THEN edited[Macro(b)] # 0
         ELSE edited[Macro(b)] \in {0, was[Macro(b)]}

\* The stage in use is sent with its DPI.
StageSentMutant(want, have) == want[Stage] \in Stages /\ want[Stage] # have[Stage]
StageSent(want, have) ==
    /\ want[Stage] \in Stages
    /\ \/ Differing(want, have, {Stage, Y}) # {}
       \/ EnabledIn[want[X]] # EnabledIn[have[X]]
       \/ DpiIn[want[X]][want[Stage]] # DpiIn[have[X]][want[Stage]]

\* mouseRetroParts.
RetroParts(want, have, all) ==
    LET settings == {Name, Setting, X, Y} \cup Assignments
    IN  (IF all THEN settings ELSE Differing(want, have, settings))
          \cup {x \in {Stage} : StageSent(want, have)}
          \cup {x \in Macros :
                  /\ want[Assigned(x[2])] = Plays
                  /\ want[x] # 0
                  /\ all \/ have[Assigned(x[2])] # Plays \/ want[x] # have[x]}

RecordPartsMutant == Parts
RecordParts == Parts \ ({Y} \cup Macros)

\* A mouse without a profile is given a whole one.
PartsToApply(edited, was) ==
    IF record
    THEN LET changed == Differing(edited, Shown(was), RecordParts)
         IN  IF changed # {} /\ ~InUse(was) THEN RecordParts ELSE changed
    ELSE LET changed == RetroParts(edited, was, FALSE)
         IN  IF changed # {} /\ ~InUse(was) THEN RetroParts(edited, was, TRUE) ELSE changed

\* What a pass writes next: the order of mouseRetroParts, and that of the
\* record.
Rank(x) ==
    CASE x = Flag -> 0
      [] x = Name -> 1
      [] x = Stage -> IF record THEN 2 ELSE 6
      [] x = X -> IF record THEN 3 ELSE 4
      [] x = Setting -> IF record THEN 4 ELSE 2
      [] x \in Assignments -> IF record THEN 5 ELSE 3
      [] x = Y -> 5
      [] x \in Macros -> 7

Precedes(x, y) == Rank(x) < Rank(y) \/ (Rank(x) = Rank(y) /\ x[2] < y[2])

Current == CHOOSE x \in todo : \A y \in todo \ {x} : Precedes(x, y)

\* The stage in use is one that is switched on, at the DPI its table gives it.
Fits == held[Stage] \in EnabledIn[held[X]] /\ stageDpi = DpiIn[held[X]][held[Stage]]

-----------------------------------------------------------------------------
Init ==
    /\ held \in InitialProfiles
    /\ record \in BOOLEAN
    /\ record => \A x \in {Y} \cup Macros : held[x] = 0
    /\ ~record => held[Flag] = 0
    /\ stageDpi = IF held[Stage] \in Stages THEN DpiIn[held[X]][held[Stage]] ELSE 0
    /\ backups = {}
    /\ op = "none"
    /\ pc = "idle"
    /\ before = Read(held)
    /\ fitted = Fits
    /\ missed = FALSE
    /\ asked = before
    /\ goal = before
    /\ parts = {}
    /\ todo = {}
    /\ undoing = FALSE
    /\ told = "nothing"
    /\ calls = 0

callFrame == <<record, backups, op, before, fitted, asked, calls>>

Call(which) ==
    /\ pc = "idle"
    /\ calls < MaxCalls
    /\ calls' = calls + 1
    /\ op' = which
    /\ before' = Read(held)
    /\ fitted' = Fits
    /\ missed' = FALSE
    /\ undoing' = FALSE
    /\ UNCHANGED <<held, stageDpi, record>>

End(how) ==
    /\ pc' = "idle"
    /\ told' = how
    /\ parts' = {}
    /\ todo' = {}
    /\ UNCHANGED goal

Write(what, which) ==
    /\ goal' = what
    /\ parts' = which
    /\ todo' = which
    /\ pc' = "write"
    /\ told' = "nothing"

\* The first half of undoMouseRetro.
Clear ==
    /\ goal' = Defaults
    /\ parts' = {}
    /\ todo' = {}
    /\ pc' = "clear"
    /\ told' = "nothing"

\* storeBackup.
Kept == backups \cup {Read(held)}

\* A record that is given a whole profile is also marked as in use.
Edited(request) ==
    LET edited == Overlay(Shown(held), request)
    IN  IF record THEN [edited EXCEPT ![Flag] = 1] ELSE edited

\* Up to the first write: the gates, the session, the receiver's link, reading
\* the profile and encoding the edit, any of which may refuse the call.
MouseApply(request) ==
    LET edited == Edited(request)
        which == PartsToApply(edited, Read(held))
    IN  /\ Call("apply")
        /\ record => DOMAIN request \subseteq RecordParts
        /\ asked' = IF which = {} THEN Read(held) ELSE edited
        /\ \/ End("refused") /\ UNCHANGED backups
           \/ /\ Valid(edited, Shown(held))
              /\ backups' = Kept
              /\ \/ which = {} /\ End("applied")
                 \/ which # {} /\ Write(edited, which)

\* restoreMouseBackup.
RestoreAll == ~InUse(held)

RestoreBackup(backup) ==
    /\ Call("restore")
    /\ asked' = backup
    /\ UNCHANGED backups
    /\ \/ End("refused")
       \/ record /\ Write(backup, Differing(backup, held, RecordParts))
       \/ /\ ~record /\ InUse(backup)
          /\ Write(backup, RetroParts(backup, Read(held), RestoreAll))
       \/ ~record /\ ~InUse(backup) /\ ~InUse(held) /\ End("restored")
       \/ ~record /\ ~InUse(backup) /\ InUse(held) /\ Clear

-----------------------------------------------------------------------------
(* A pass.                                                                 *)

FirstFailure == op = "apply" /\ ~undoing

\* Those written and the one that failed; "a macro no button played before is
\* left as it is".
UndoPartsMutant == parts \ todo
UndoParts ==
    IF record THEN parts
    ELSE LET done == parts \ (todo \ {Current})
         IN  {x \in done : x \in Macros => before[x] # 0}

PutBack ==
    /\ FirstFailure
    /\ undoing' = TRUE
    /\ \/ (record \/ InUse(before)) /\ Write(before, UndoParts)
       \/ ~record /\ ~InUse(before) /\ Clear

GiveUp ==
    /\ ~FirstFailure
    /\ End(IF op = "apply" THEN "rollback_failed" ELSE "restore_failed")
    /\ UNCHANGED undoing

Fail == (PutBack \/ GiveUp) /\ UNCHANGED callFrame

Onward(l, rest) ==
    /\ pc' = l
    /\ todo' = rest
    /\ UNCHANGED <<callFrame, goal, parts, undoing, told>>

Finish ==
    /\ End(IF op = "restore" THEN "restored" ELSE IF undoing THEN "rolled_back" ELSE "applied")
    /\ UNCHANGED <<callFrame, undoing>>

\* What the mouse may hold of a part after the commands that write it: a name
\* and a macro take several, and the first of a macro's empties it.
Stored(x) ==
    {held[x], goal[x]}
        \cup (CASE x = Name /\ ~record -> {Garbage}
                [] x \in Macros -> {0, Garbage}
                [] OTHER -> {})

\* What it may hold after that command, and the DPI that came with a stage.
Obeyed ==
    \/ /\ \E v \in Stored(Current) : held' = [held EXCEPT ![Current] = v]
       /\ UNCHANGED stageDpi
       /\ Current = Stage /\ ~record => held' = held
    \/ /\ Current = Stage /\ ~record
       /\ held' = [held EXCEPT ![Stage] = goal[Stage]]
       /\ stageDpi' = DpiIn[goal[X]][goal[Stage]]

\* The writing of writeMouseRetroPart and writeMouseRecordSpans.
WritePart ==
    /\ pc = "write"
    /\ todo # {}
    /\ record \/ Current # Stage \/ goal[Stage] \in Stages
    /\ Obeyed
    /\ \/ /\ ~record /\ Onward("check", todo)
          /\ missed' = (missed \/ (Current = Stage /\ ~Fits'))
       \/ LET rest == todo \ {Current}
          IN  /\ record /\ Onward(IF rest = {} THEN "check" ELSE "write", rest)
              /\ UNCHANGED missed
       \/ Fail /\ UNCHANGED missed

\* "there is no stage": what a mouse was found using cannot be asked for.
NoSuchStage ==
    /\ pc = "write"
    /\ ~record /\ todo # {} /\ Current = Stage /\ goal[Stage] \notin Stages
    /\ Fail
    /\ UNCHANGED <<held, stageDpi, missed>>

KeptIt(S) == \A x \in S : held[x] = goal[x]

\* A Retro R8's part is read back before the next is written, a record's spans
\* when all have been.
CheckParts ==
    /\ pc = "check"
    /\ \/ record /\ KeptIt(parts) /\ Finish
       \/ ~record /\ KeptIt({Current}) /\ Onward("write", todo \ {Current})
       \/ Fail
    /\ UNCHANGED <<held, stageDpi, missed>>

\* Nothing was left to write, or nothing is any longer.
Done ==
    /\ pc = "write"
    /\ todo = {}
    /\ Finish
    /\ UNCHANGED <<held, stageDpi, missed>>

\* MouseClearProfile: what becomes of the settings is not known.
ClearProfile ==
    /\ pc = "clear"
    /\ held' \in {held, Defaults, [held EXCEPT ![Name] = 0]}
    /\ stageDpi' \in {stageDpi, DpiIn[Defaults[X]][Defaults[Stage]]}
    /\ (Onward("check_clear", {}) \/ Fail)
    /\ UNCHANGED missed

CheckCleared ==
    /\ pc = "check_clear"
    /\ (held[Name] = 0 /\ Finish) \/ Fail
    /\ UNCHANGED <<held, stageDpi, missed>>

-----------------------------------------------------------------------------
Step == WritePart \/ NoSuchStage \/ CheckParts \/ Done \/ ClearProfile \/ CheckCleared

Next ==
    \/ \E request \in Requests : MouseApply(request)
    \/ \E backup \in backups : RestoreBackup(backup)
    \/ Step

Spec == Init /\ [][Next]_vars

-----------------------------------------------------------------------------
(* Properties.                                                             *)

\* A mouse may be found playing a macro that has no records, or using a stage
\* there is none of; neither can be written.
NoMacro(p, x) == ~record /\ x \in Macros /\ p[Assigned(x[2])] = Plays /\ p[x] = 0
NoStage(p, x) == ~record /\ x = Stage /\ p[x] \notin Stages

\* The stage in use is not read from a mouse that holds no profile, nor always
\* sent to it.
Comparable == IF record \/ InUse(before) THEN Parts ELSE Parts \ {Stage}

Reads(p, among) == \A x \in among : Read(held)[x] = p[x]

\* "Applied" means that the mouse reads as the edited profile, whichever
\* commands were ignored on the way (mouse.go:1118-1167).
AppliedIsHeld == told = "applied" => Reads(Read(asked), Comparable)

\* A rollback reported as done leaves the mouse reading as it did, a mouse that
\* held no profile holding none (mouse.go:1168-1202).
RollbackPutsBack ==
    told = "rolled_back" => Reads(before, {x \in Parts : ~NoMacro(before, x)})

\* A restored backup is what the mouse reads as, "wherever the mouse's now
\* differs from it" (mouse.go:1204-1251).
RestoreIsComplete ==
    told = "restored" =>
        Reads(asked, {x \in IF InUse(asked) THEN Comparable ELSE Parts :
                        ~NoMacro(asked, x) /\ ~NoStage(asked, x)})

\* Nothing changes on the mouse before what it held has been stored
\* (mouse.go:1157).
BackupFirst == op = "apply" /\ Read(held) # before => before \in backups

\* What a write report and a backup promise of a mouse.
KeepsPromise == AppliedIsHeld /\ RollbackPutsBack /\ RestoreIsComplete /\ BackupFirst

\* The stage in use and the DPI that was sent with it follow the table of
\* stages through an edit, its rollback and a restore (mouse.go:666-675), but
\* for a stage that was acknowledged and ignored: its DPI is not read back.
StageFollows ==
    ~record /\ fitted /\ ~missed /\ InUse(before) /\ InUse(held)
        /\ (told \in {"applied", "rolled_back"} \/ (told = "restored" /\ ~NoStage(asked, Stage)))
        => Fits

-----------------------------------------------------------------------------
(* MouseWrite implements RecoverableWrite.                                 *)

\* What the promise is about: the parts that are always compared.
Promised == {Name, Setting, X, Y} \cup Assignments

Seen(p) == [x \in Promised |-> p[x]]

profileBar == Seen(IF pc = "idle" THEN Read(held) ELSE before)

Promise == INSTANCE RecoverableWrite
             WITH Settings <- Promised, profile <- profileBar,
                  backups <- {Seen(b) : b \in backups}, request <- Seen(Read(asked))

\* A call looks like one step that happens entirely or not at all, or warns.
ImplementsPromise == Promise!Spec
=============================================================================
