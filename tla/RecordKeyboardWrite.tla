------------------------ MODULE RecordKeyboardWrite ------------------------
(***************************************************************************)
(* Writing the profile of a keyboard that keeps it in one record, a block  *)
(* of per-key colours and slots of macro storage (internal/core/kbrecord.go*)
(* with the commands of internal/protocol/kbrecord.go): RecordKeyboardApply*)
(* and RestoreBackup, command by command.  The colour block and a macro    *)
(* slot are erased before they are written ("prepared"); the record is     *)
(* not.  Any command may fail, obeyed or not, and an acknowledged one may  *)
(* not have taken.                                                         *)
(*                                                                         *)
(* What the keyboard holds is a value for every part.  A key's entry holds *)
(* 0, "not a macro", or the slot of the macro it plays; a slot holds 0, no *)
(* macro, or one macro with its name and play mode.  Garbage stands for    *)
(* what an erased or half written block reads as.                          *)
(***************************************************************************)
EXTENDS Naturals, FiniteSets

CONSTANTS
    Keys,               \* entries of the key table, in its order
    Slots,              \* macro slots
    Values,             \* what a part may hold
    Garbage,            \* the value of a block that is not whole
    InitialProfiles,    \* what the keyboard may hold at first
    Requests,           \* the edits RecordKeyboardApply may be asked for
    MaxCalls            \* bound: calls in a behaviour

Flag == <<"flag", 0>>           \* 1: the keyboard holds a profile
Setting == <<"setting", 0>>     \* the sections of the record that are not keys
Lights == <<"lights", 0>>
Entries == {"key"} \X Keys
Macros == {"macro"} \X Slots
Sections == {Flag, Setting} \cup Entries
Parts == Sections \cup {Lights} \cup Macros

Profile == [Parts -> Values]
Changes == UNION {[S -> Values] : S \in SUBSET (Parts \ {Flag})}

ASSUME ValuesAssumption ==
    /\ Keys \subseteq Nat
    /\ Slots \subseteq Values \ {0, Garbage}
    /\ Values \subseteq Nat
    /\ {0, 1, Garbage} \subseteq Values
    /\ Garbage \notin {0, 1}

\* Nobody asks for a block that is not whole.
ASSUME ProfilesAssumption ==
    /\ InitialProfiles \subseteq Profile
    /\ Requests \subseteq Changes
    /\ \A r \in Requests : \A x \in DOMAIN r : r[x] # Garbage

ASSUME CallsAssumption == MaxCalls \in Nat

VARIABLES
    held,       \* what the keyboard holds
    backups,    \* core.backups
    op,         \* the call under way
    pc,         \* where it is
    before,     \* what the keyboard held when the call began
    asked,      \* the profile to establish: edited, or the backup
    goal,       \* what this pass writes
    parts,      \* the parts this pass writes
    todo,       \* those it has not written, or not read back, yet
    undoing,    \* whether this is the rollback
    told,       \* how the last call ended
    calls       \* calls made so far

vars == <<held, backups, op, pc, before, asked, goal, parts, todo, undoing, told, calls>>

TypeOK ==
    /\ held \in Profile
    /\ backups \subseteq Profile
    /\ op \in {"none", "apply", "restore"}
    /\ pc \in {"idle", "record", "lights", "write_lights", "check_lights", "plan", "macros",
               "header", "steps", "check_macro"}
    /\ before \in Profile
    /\ asked \in Profile
    /\ goal \in Profile
    /\ parts \subseteq Parts
    /\ todo \subseteq parts
    /\ pc \in {"plan", "macros", "header", "steps", "check_macro"} => todo \subseteq Macros
    /\ undoing \in BOOLEAN
    /\ told \in {"nothing", "refused", "applied", "rolled_back", "rollback_failed", "restored",
                 "restore_failed"}
    /\ calls \in 0..MaxCalls

Init ==
    /\ held \in InitialProfiles
    /\ backups = {}
    /\ op = "none"
    /\ pc = "idle"
    /\ before = held
    /\ asked = held
    /\ goal = held
    /\ parts = {}
    /\ todo = {}
    /\ undoing = FALSE
    /\ told = "nothing"
    /\ calls = 0

-----------------------------------------------------------------------------
(* Profiles and macros.                                                    *)

Overlay(p, changes) == [x \in Parts |-> IF x \in DOMAIN changes THEN changes[x] ELSE p[x]]

\* The keys that play the macro in slot s.
Players(p, s) == {k \in Keys : p[<<"key", k>>] = s}

\* A keyboard without a profile is shown the default one, in which no key
\* plays a macro.
Shown(p) ==
    [x \in Parts |-> IF x \in Sections \ {Flag} /\ p[Flag] = 0 THEN 0 ELSE p[x]]

\* readKbRecordProfile: a slot that no key plays reads as empty.
Read(p) ==
    LET shown == Shown(p)
    IN  [x \in Parts |-> IF x \in Macros /\ Players(shown, x[2]) = {} THEN 0 ELSE shown[x]]

\* kbRecordMacroImages: the stored form names the first key that plays it.
NoImage == <<0, 0>>

Image(p, s) ==
    IF Players(p, s) = {} \/ p[<<"macro", s>>] = 0 THEN NoImage
    ELSE <<CHOOSE k \in Players(p, s) : \A j \in Players(p, s) : k <= j, p[<<"macro", s>>]>>

\* planKbRecordMacros: the slots to write so that was becomes edited.
Planned(edited, was) ==
    {s \in Slots :
        /\ Players(edited, s) # {}
        /\ ~(Image(edited, s) = Image(was, s) /\ Players(was, s) # {})}

\* What it refuses: a macro that two keys play or that cannot be stored.
CanPlan(edited, was) ==
    \A s \in Planned(edited, was) :
        /\ Cardinality(Players(edited, s)) = 1
        /\ edited[<<"macro", s>>] \notin {0, Garbage}

MacroParts(slots) == {"macro"} \X slots

Differing(p, q, among) == {x \in among : p[x] # q[x]}

\* The order of the record's spans, and of the macros.
Rank == [flag |-> 0, setting |-> 1, key |-> 2, macro |-> 3]

Precedes(x, y) == Rank[x[1]] < Rank[y[1]] \/ (Rank[x[1]] = Rank[y[1]] /\ x[2] < y[2])

FirstOf(S) == CHOOSE x \in S : \A y \in S \ {x} : Precedes(x, y)

-----------------------------------------------------------------------------
(* The calls.                                                              *)

callFrame == <<backups, op, before, asked, calls>>
passFrame == <<goal, parts, undoing, told>>

Call(which) ==
    /\ pc = "idle"
    /\ calls < MaxCalls
    /\ calls' = calls + 1
    /\ op' = which
    /\ before' = held
    /\ undoing' = FALSE
    /\ UNCHANGED held

End(how) ==
    /\ pc' = "idle"
    /\ todo' = {}
    /\ told' = how
    /\ UNCHANGED <<goal, parts>>

Write(what, which) ==
    /\ goal' = what
    /\ parts' = which
    /\ todo' = which
    /\ pc' = "record"
    /\ told' = "nothing"

\* storeBackup.
Kept == backups \cup {held}

\* A keyboard without a profile is given a whole one rather than single fields.
Whole(p, changed) == IF p[Flag] = 0 /\ changed # {} THEN Sections \cup changed ELSE changed

\* What RecordKeyboardApply has to write to a keyboard that holds p.
ToWrite(p, edited) ==
    LET was == Read(p)
    IN  Whole(p, Differing(edited, was, Sections \cup {Lights})
                   \cup MacroParts(Planned(edited, was)))

\* Up to the first write: the gates, the session, reading the profile and
\* encoding the edit, any of which may refuse the call.
RecordKeyboardApply(request) ==
    LET edited == Overlay(Read(held), request)
        which == ToWrite(held, edited)
    IN  /\ Call("apply")
        /\ asked' = edited
        /\ \/ End("refused") /\ UNCHANGED backups
           \/ /\ CanPlan(edited, Read(held))
              /\ backups' = Kept
              /\ IF which = {} THEN End("applied")
                 ELSE Write([edited EXCEPT ![Flag] = 1], which)

\* restoreKbRecordBackup: "wherever the keyboard's now differs from it".
RestoredParts(p, backup) == Differing(p, backup, Sections \cup {Lights})

RestoreBackup(backup) ==
    /\ Call("restore")
    /\ asked' = backup
    /\ UNCHANGED backups
    /\ \/ End("refused")
       \/ Write(backup, RestoredParts(held, backup))

\* Its macros are planned once the record and the colours are written.
Plan ==
    /\ pc = "plan"
    /\ IF CanPlan(Read(asked), Read(before))
       THEN /\ parts' = parts \cup MacroParts(Planned(Read(asked), Read(before)))
            /\ todo' = MacroParts(Planned(Read(asked), Read(before)))
            /\ pc' = "macros"
            /\ UNCHANGED <<goal, told>>
       ELSE End("restore_failed")
    /\ UNCHANGED <<callFrame, held, undoing>>

-----------------------------------------------------------------------------
(* A pass: the record, then the colours, then each macro.                  *)

FirstFailure == op = "apply" /\ ~undoing

\* "A slot no key played before is left as it is."
UndoMutant == parts \ todo
Undo == {x \in parts : x \in Macros => Read(before)[x] # 0}

PutBack ==
    /\ FirstFailure
    /\ undoing' = TRUE
    /\ Write(before, Undo)

GiveUp ==
    /\ ~FirstFailure
    /\ End(IF op = "apply" THEN "rollback_failed" ELSE "restore_failed")
    /\ UNCHANGED undoing

Fail == (PutBack \/ GiveUp) /\ UNCHANGED callFrame

Onward(l) == pc' = l /\ UNCHANGED <<callFrame, passFrame, todo>>

Written(x, l) ==
    /\ todo' = todo \ {x}
    /\ pc' = l
    /\ UNCHANGED <<callFrame, passFrame>>

\* The part holds one of these once the command has ended, or what it held.
Sent(x, outcomes) == \E v \in outcomes \cup {held[x]} : held' = [held EXCEPT ![x] = v]

SpansMutant == todo \cap Entries
Spans == todo \cap Sections

WriteSpan ==
    /\ pc = "record"
    /\ Spans # {}
    /\ LET x == FirstOf(Spans) IN
         /\ Sent(x, {goal[x]})
         /\ (Written(x, "record") \/ Fail)

Matches(S) == \A x \in S : held[x] = goal[x]

CheckSpans ==
    /\ pc = "record"
    /\ Spans = {}
    /\ \/ Matches(parts \cap Sections) /\ Onward("lights")
       \/ parts \cap Sections # {} /\ Fail
    /\ UNCHANGED held

NextLabel == IF op = "restore" THEN "plan" ELSE "macros"

NoLights ==
    /\ pc = "lights"
    /\ Lights \notin todo
    /\ Onward(NextLabel)
    /\ UNCHANGED held

PrepareLights ==
    /\ pc = "lights"
    /\ Lights \in todo
    /\ Sent(Lights, {Garbage})
    /\ (Onward("write_lights") \/ Fail)

WriteLights ==
    /\ pc = "write_lights"
    /\ Sent(Lights, {goal[Lights], Garbage})
    /\ (Onward("check_lights") \/ Fail)

CheckLights ==
    /\ pc = "check_lights"
    /\ \/ Matches({Lights}) /\ Written(Lights, NextLabel)
       \/ Fail
    /\ UNCHANGED held

Slot == FirstOf(todo)

PrepareMacro ==
    /\ pc = "macros"
    /\ todo # {}
    /\ Sent(Slot, {0})
    /\ (Onward("header") \/ Fail)

\* A header without its steps.
WriteHeader ==
    /\ pc = "header"
    /\ Sent(Slot, {Garbage})
    /\ (Onward("steps") \/ Fail)

\* Steps without a header are no macro; written over others they are garbage.
WriteSteps ==
    /\ pc = "steps"
    /\ Sent(Slot, CASE held[Slot] = 0 -> {}
                    [] held[Slot] = Garbage -> {goal[Slot]}
                    [] OTHER -> {Garbage})
    /\ (Onward("check_macro") \/ Fail)

CheckMacro ==
    /\ pc = "check_macro"
    /\ \/ Matches({Slot}) /\ Written(Slot, "macros")
       \/ Fail
    /\ UNCHANGED held

Done ==
    /\ pc = "macros"
    /\ todo = {}
    /\ End(IF op = "restore" THEN "restored"
           ELSE IF undoing THEN "rolled_back" ELSE "applied")
    /\ UNCHANGED <<callFrame, held, undoing>>

-----------------------------------------------------------------------------
Step ==
    \/ WriteSpan \/ CheckSpans \/ NoLights \/ PrepareLights \/ WriteLights \/ CheckLights
    \/ Plan \/ PrepareMacro \/ WriteHeader \/ WriteSteps \/ CheckMacro \/ Done

Next ==
    \/ \E request \in Requests : RecordKeyboardApply(request)
    \/ \E backup \in backups : RestoreBackup(backup)
    \/ Step

Spec == Init /\ [][Next]_vars

-----------------------------------------------------------------------------
(* Properties.  They compare what a read of the keyboard shows: a slot     *)
(* that no key plays is free, whatever was left in it.                     *)

\* "Applied" means that reading the keyboard shows the edited profile, part by
\* part, whatever the commands on the way did and whether or not the keyboard
\* held a profile before; that a macro a key is to play is in its slot; and that
\* the macros nobody edited survive the writing of the others
\* (kbrecord.go:912-945, 1213-1234).
AppliedIsHeld ==
    told = "applied" =>
        /\ \A x \in Parts \ ({Flag} \cup Macros) : Read(held)[x] = asked[x]
        /\ \A s \in Slots : Players(asked, s) # {} => held[<<"macro", s>>] = asked[<<"macro", s>>]

\* A rollback reported as done leaves the keyboard showing what it showed before,
\* parts the failed pass erased or never reached included; except for the slots
\* that keys played although they were empty (kbrecord.go:947-965).
RollbackPutsBack ==
    told = "rolled_back" =>
        \A x \in Parts :
            (x \in Macros /\ Players(before, x[2]) # {} => before[x] # 0)
                => Read(held)[x] = Read(before)[x]

\* A backup reported as restored is what the keyboard shows again
\* (kbrecord.go:1003-1048).
RestoreIsComplete == told = "restored" => Read(held) = Read(asked)

\* Nothing is changed on the keyboard before what it held has been stored
\* (kbrecord.go:927, 936).
BackupFirst == op = "apply" /\ held # before => before \in backups

\* What a write report and a backup promise of a keyboard.
KeepsPromise == AppliedIsHeld /\ RollbackPutsBack /\ RestoreIsComplete /\ BackupFirst

-----------------------------------------------------------------------------
(* RecordKeyboardWrite implements RecoverableWrite.                        *)

\* What the promise is about: all that a read shows but the macros, of which
\* RollbackPutsBack has an exception.
Promised == {Setting, Lights} \cup Entries

Seen(p) == [x \in Promised |-> Read(p)[x]]

profileBar == Seen(IF pc = "idle" THEN held ELSE before)

Promise == INSTANCE RecoverableWrite
             WITH Settings <- Promised, profile <- profileBar,
                  backups <- {Seen(b) : b \in backups}, request <- [x \in Promised |-> asked[x]]

\* A call looks like one step that happens entirely or not at all, or warns.
ImplementsPromise == Promise!Spec
=============================================================================
