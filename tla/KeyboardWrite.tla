---------------------------- MODULE KeyboardWrite ----------------------------
(***************************************************************************)
(* Writing a keyboard's profile (internal/core/keyboard.go,                *)
(* internal/core/mapping.go, internal/protocol/jp108.go, jp108_macro.go):  *)
(* KeyboardApply, KeyboardClearProfile and RestoreBackup, command by       *)
(* command.  Any command may fail, with or without having been obeyed, and *)
(* an acknowledged write may not have taken: "a bare status byte ... says  *)
(* the frame arrived, not that the mapping took" (mapping.go:112-115).     *)
(*                                                                         *)
(* A profile maps every setting to a value; 0 is "no name", "the key does  *)
(* what is printed on it", "no macro", "no lock" and, for the volume, a    *)
(* level outside 1-5.  A macro's name travels in a command of its own just *)
(* before its value: a failure of it is a failure of the value's command   *)
(* without effect, so the two are one here.                                *)
(***************************************************************************)
EXTENDS Naturals, FiniteSets

CONSTANTS
    Keys,               \* ids of the keys that can be assigned
    MacroKeys,          \* ids of the keys that can play a macro
    MacroSlots,         \* macros a keyboard holds: 8 in the code
    Values,             \* 0 and what a setting may be set to
    InitialProfiles,    \* what the keyboard may hold at first
    Requests,           \* the changes KeyboardApply may be asked for
    MaxCalls            \* bound: calls in a behaviour

Name == <<"name", 0>>
Locks == <<"locks", 0>>
Volume == <<"volume", 0>>
Mappings == {"key"} \X Keys
Macros == {"macro"} \X MacroKeys
Settings == {Name, Locks, Volume} \cup Mappings \cup Macros

Profile == [Settings -> Values]
Changes == UNION {[S -> Values] : S \in SUBSET Settings}

DefaultName == 1    \* jp108DefaultProfileName

ASSUME KeysAssumption == Keys \subseteq Nat /\ MacroKeys \subseteq Nat

ASSUME ValuesAssumption == {0, DefaultName} \subseteq Values

\* Mappings live in a named profile: without a name there are none.
ASSUME ProfilesAssumption ==
    /\ InitialProfiles \subseteq Profile
    /\ \A p \in InitialProfiles :
         p[Name] = 0 => \A s \in Mappings \cup Macros : p[s] = 0

\* KeyboardApply refuses a volume outside 1-5 before it opens a session.
ASSUME RequestsAssumption ==
    /\ Requests \subseteq Changes
    /\ \A r \in Requests : Volume \in DOMAIN r => r[Volume] # 0

ASSUME CallsAssumption == MaxCalls \in Nat

VARIABLES
    held,       \* what the keyboard holds
    renameDrops,\* whether naming the profile empties it: "the keyboard's business"
    advanced,   \* core.AdvancedMode, or a simulated keyboard
    backups,    \* core.backups
    op,         \* the call under way
    pc,         \* where it is
    changes,    \* the settings the call is to establish
    before,     \* what the keyboard held when the call began
    goal,       \* what writeKeyboardChanges is to write
    todo,       \* the settings of goal it has not written yet
    undoing,    \* whether this is the rollback
    told,       \* how the last call ended
    calls       \* calls made so far

vars == <<held, renameDrops, advanced, backups, op, pc, changes, before, goal, todo, undoing,
          told, calls>>

Told == {"nothing", "refused", "applied", "rolled_back", "rollback_failed", "restored",
         "restore_failed", "cleared", "clear_failed"}

TypeOK ==
    /\ held \in Profile
    /\ renameDrops \in BOOLEAN
    /\ advanced \in BOOLEAN
    /\ backups \subseteq Profile
    /\ op \in {"none", "apply", "restore", "clear"}
    /\ pc \in {"idle", "start", "clear_macro", "ensure", "default_name", "put", "check", "clear"}
    /\ changes \in Changes
    /\ before \in Profile
    /\ goal \in Changes
    /\ todo \subseteq DOMAIN goal
    /\ undoing \in BOOLEAN
    /\ told \in Told
    /\ calls \in 0..MaxCalls

Nothing == [s \in {} |-> 0]

Init ==
    /\ held \in InitialProfiles
    /\ renameDrops \in BOOLEAN
    /\ advanced \in BOOLEAN
    /\ backups = {}
    /\ op = "none"
    /\ pc = "idle"
    /\ changes = Nothing
    /\ before = held
    /\ goal = Nothing
    /\ todo = {}
    /\ undoing = FALSE
    /\ told = "nothing"
    /\ calls = 0

-----------------------------------------------------------------------------
(* What is written.                                                        *)

Mapped(p) == {s \in Mappings \cup Macros : p[s] # 0}

\* A rename writes everything that is there again, "the same either way".
MergedMutant(asked, p) == asked
Merged(asked, p) ==
    LET all == DOMAIN asked \cup (IF Name \in DOMAIN asked THEN Mapped(p) ELSE {})
    IN  [s \in all |-> IF s \in DOMAIN asked THEN asked[s] ELSE p[s]]

\* undoOf: a name that was not there is left, and so is a volume that was not valid.
UndoOf(written, p) ==
    [s \in {x \in DOMAIN written : x \in {Name, Volume} => p[x] # 0} |-> p[s]]

\* restoreKeyboardBackup: what is mapped now and was not goes back to default.
RestoreOf(backup, now) ==
    [s \in Mapped(now) \cup Mapped(backup) \cup {Locks}
             \cup {x \in {Name, Volume} : backup[x] # 0} |-> backup[s]]

\* The order of writeKeyboardChanges.
Rank == [name |-> 1, key |-> 2, macro |-> 3, locks |-> 4, volume |-> 5]

Precedes(r, s) == Rank[r[1]] < Rank[s[1]] \/ (Rank[r[1]] = Rank[s[1]] /\ r[2] < s[2])

Current == CHOOSE s \in todo : \A r \in todo \ {s} : Precedes(s, r)

-----------------------------------------------------------------------------
(* The keyboard, from how the code uses it.                                *)

\* What it may hold after it was sent v for s.
NameStored(v) ==
    [s \in Settings |-> IF s = Name THEN v
                        ELSE IF renameDrops /\ s \in Mappings \cup Macros THEN 0
                        ELSE held[s]]

Stored(s, v) ==
    IF s = Name THEN NameStored(v)
    ELSE IF s \in Mappings \cup Macros /\ held[Name] = 0 THEN held
    ELSE [held EXCEPT ![s] = v]

Cleared == [s \in Settings |-> IF s \in {Locks, Volume} THEN held[s] ELSE 0]

Sent(profile) == held' \in {held, profile}

SlotsFull == Cardinality({s \in Macros : held[s] # 0}) >= MacroSlots

-----------------------------------------------------------------------------
(* The calls.                                                              *)

callFrame == <<renameDrops, advanced, backups, op, changes, before, calls>>
passFrame == <<callFrame, goal, todo, undoing, told>>

\* storeBackup.
KeptMutant == backups
Kept == backups \cup {held}

Call(which) ==
    /\ pc = "idle"
    /\ calls < MaxCalls
    /\ calls' = calls + 1
    /\ op' = which
    /\ before' = held
    /\ undoing' = FALSE
    /\ UNCHANGED <<held, renameDrops, advanced>>

Write(what) ==
    /\ goal' = what
    /\ todo' = DOMAIN what
    /\ pc' = "start"
    /\ told' = "nothing"

Refused ==
    /\ goal' = Nothing
    /\ todo' = {}
    /\ pc' = "idle"
    /\ told' = "refused"

\* Macros are not written to a real keyboard outside advanced mode.
Gated(asked) == ~advanced /\ DOMAIN asked \cap Macros # {}

EmptyName(asked) == Name \in DOMAIN asked /\ asked[Name] = 0

\* Up to the first write: the gates, reading the profile (any of whose commands
\* may fail) and keeping it.
KeyboardApply(asked) ==
    /\ Call("apply")
    /\ changes' = asked
    /\ \/ Refused /\ UNCHANGED backups      \* a gate, or the profile cannot be read
       \/ /\ ~Gated(asked)
          /\ backups' = Kept
          /\ IF EmptyName(asked) THEN Refused ELSE Write(Merged(asked, held))

RestoreBackup(backup) ==
    /\ Call("restore")
    /\ changes' = backup
    /\ UNCHANGED backups
    /\ \/ Write(RestoreOf(backup, held))
       \/ Refused                            \* the profile cannot be read

KeyboardClearProfile ==
    /\ Call("clear")
    /\ UNCHANGED changes
    /\ goal' = Nothing
    /\ todo' = {}
    /\ \/ /\ backups' = Kept
          /\ pc' = "clear"
          /\ told' = "nothing"
       \/ /\ UNCHANGED backups
          /\ pc' = "idle"
          /\ told' = "refused"

ClearProfile ==
    /\ pc = "clear"
    /\ Sent(Cleared)
    /\ pc' = "idle"
    /\ told' \in {"cleared", "clear_failed"}
    /\ UNCHANGED <<callFrame, goal, todo, undoing>>

-----------------------------------------------------------------------------
(* writeKeyboardChanges.                                                   *)

\* A write failed or did not read back: what was written is put back, once.
FirstFailureMutant == op = "apply"
FirstFailure == op = "apply" /\ ~undoing

GiveUp ==
    /\ ~FirstFailure
    /\ pc' = "idle"
    /\ told' = IF op = "apply" THEN "rollback_failed" ELSE "restore_failed"
    /\ UNCHANGED <<goal, todo, undoing>>

PutBackMutant ==
    /\ FirstFailure
    /\ undoing' = TRUE
    /\ goal' = UndoOf(goal, before)
    /\ pc' = "start"
    /\ UNCHANGED <<todo, told>>

PutBack ==
    /\ FirstFailure
    /\ undoing' = TRUE
    /\ Write(UndoOf(goal, before))

Fail == PutBack \/ GiveUp

Written ==
    /\ todo' = todo \ {Current}
    /\ pc' = "start"
    /\ UNCHANGED <<goal, undoing, told>>

Onward(l) == pc' = l /\ UNCHANGED <<goal, todo, undoing, told>>

\* The first command of the next setting, decided by what the setting is.
\* JP108WriteMacro reads the list of macros; its slots are as many as it shows.
Start ==
    /\ pc = "start"
    /\ todo # {}
    /\ LET s == Current IN
         \/ s \in {Name, Volume} /\ Onward("put")
         \/ s \in Mappings \cup {Locks} /\ Onward("ensure")
         \/ s \in Macros /\ goal[s] = 0 /\ Onward("put")
         \/ s \in Macros /\ goal[s] # 0 /\ held[s] # 0 /\ Onward("clear_macro")
         \/ s \in Macros /\ goal[s] # 0 /\ held[s] = 0 /\ ~SlotsFull /\ Onward("ensure")
         \/ s \in Macros /\ goal[s] # 0 /\ held[s] = 0 /\ SlotsFull /\ Fail
         \/ s \in Macros /\ goal[s] # 0 /\ Fail   \* the list cannot be read
    /\ UNCHANGED <<callFrame, held>>

\* JP108WriteMacro clears the macro the key already plays.
ClearMacro ==
    /\ pc = "clear_macro"
    /\ Sent([held EXCEPT ![Current] = 0])
    /\ (Onward("ensure") \/ Fail)
    /\ UNCHANGED callFrame

\* jp108EnsureProfile.
UnnamedMutant == TRUE
Unnamed == held[Name] = 0

EnsureProfile ==
    /\ pc = "ensure"
    /\ (Onward(IF Unnamed THEN "default_name" ELSE "put") \/ Fail)
    /\ UNCHANGED <<callFrame, held>>

WriteDefaultName ==
    /\ pc = "default_name"
    /\ Sent(Stored(Name, DefaultName))
    /\ (Onward("put") \/ Fail)
    /\ UNCHANGED callFrame

\* A profile name is not read back.
Put ==
    /\ pc = "put"
    /\ Sent(Stored(Current, goal[Current]))
    /\ \/ Current = Name /\ Written
       \/ Current # Name /\ Onward("check")
       \/ Fail
    /\ UNCHANGED callFrame

Matches(s) == held[s] = goal[s]

Check ==
    /\ pc = "check"
    /\ \/ Matches(Current) /\ Written
       \/ Fail                                 \* it differs, or cannot be read
    /\ UNCHANGED <<callFrame, held>>

\* Everything was written.
Done ==
    /\ pc = "start"
    /\ todo = {}
    /\ pc' = "idle"
    /\ told' = IF op = "restore" THEN "restored"
               ELSE IF undoing THEN "rolled_back" ELSE "applied"
    /\ UNCHANGED <<callFrame, held, goal, todo, undoing>>
-----------------------------------------------------------------------------
Step ==
    \/ Start \/ ClearMacro \/ EnsureProfile \/ WriteDefaultName \/ Put \/ Check \/ Done
    \/ ClearProfile

Next ==
    \/ \E asked \in Requests : KeyboardApply(asked)
    \/ \E backup \in backups : RestoreBackup(backup)
    \/ KeyboardClearProfile
    \/ Step

\* A command ends: with its answer or when its timeout has passed.
Fairness == WF_vars(Step)

Spec == Init /\ [][Next]_vars /\ Fairness

-----------------------------------------------------------------------------
(* Safety.                                                                 *)

\* The settings that are read back when they are written.
Verified == Settings \ {Name}

\* "Applied" means applied: whatever commands failed or were ignored on the way,
\* every verified setting holds what was asked for, and the ones nobody asked to
\* change survive, also when a rename empties the profile (keyboard.go:260-279).
AppliedIsHeld ==
    told = "applied" =>
        \A s \in Verified :
            held[s] = IF s \in DOMAIN changes THEN changes[s] ELSE before[s]

\* A rollback that is reported as done has put back every verified setting, those
\* the failed pass never reached included (keyboard.go:288-296).
RollbackPutsBack ==
    told = "rolled_back" =>
        \A s \in Verified : (s = Volume => before[s] # 0) => held[s] = before[s]

\* A restored backup is the profile it was made from: what was mapped since is
\* gone and what a rename emptied is back (keyboard.go:416-452).
RestoreIsComplete ==
    told = "restored" =>
        \A s \in Verified : (s = Volume => changes[s] # 0) => held[s] = changes[s]

\* KeyboardApply and KeyboardClearProfile change nothing on the keyboard before
\* they have stored what it held (keyboard.go:250-254, 405-409).
BackupFirst == op \in {"apply", "clear"} /\ held # before => before \in backups

\* Without a rename no command of the call, of its rollback or of the profile it
\* names on the way disturbs a setting that was not asked for, at any moment.
OthersUntouched ==
    op = "apply" /\ Name \notin DOMAIN changes =>
        \A s \in Verified \ DOMAIN changes : held[s] = before[s]

\* Every call ends: a keyboard that fails every command cannot make the rollback
\* start over (keyboard.go:288-297).
CallEnds == pc # "idle" ~> pc = "idle"

-----------------------------------------------------------------------------
(* KeyboardWrite implements RecoverableWrite.                              *)

\* What the promise is about: the settings that are both verified and undone.
Promised == Mappings \cup Macros \cup {Locks}

Restrict(f) == [s \in DOMAIN f \cap Promised |-> f[s]]

profileBar == Restrict(IF pc = "idle" THEN held ELSE before)

Promise == INSTANCE RecoverableWrite
             WITH Settings <- Promised, profile <- profileBar,
                  backups <- {Restrict(b) : b \in backups}, request <- Restrict(changes)

\* A call looks like one step that happens entirely or not at all, or warns.
ImplementsPromise == Promise!Spec
=============================================================================
