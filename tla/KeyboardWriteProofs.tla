-------------------------- MODULE KeyboardWriteProofs --------------------------
(***************************************************************************)
(* What holds of a keyboard write for any keys, macros, values, requests   *)
(* and number of calls: the types, that a backup precedes every change,    *)
(* that what the caller is told at the end of a call agrees with the       *)
(* keyboard, and that a write implements RecoverableWrite.                 *)
(***************************************************************************)
EXTENDS KeyboardWrite, WellFoundedInduction, TLAPS

-----------------------------------------------------------------------------
(* The invariant.                                                          *)

Mappable == Mappings \cup Macros

AtSetting == pc \in {"clear_macro", "ensure", "default_name", "put", "check"}
Writing == AtSetting \/ pc = "start"

TypeInv == TypeOK /\ (AtSetting => todo # {})

\* Where a pass stands, whatever its commands did: what it has written and read
\* back is held, what it is not to write is as it was.
WrittenHeld(h) == \A s \in Verified : s \in DOMAIN goal /\ s \notin todo => h[s] = goal[s]

OthersHeld(h) ==
    \A s \in Verified :
        s \notin DOMAIN goal /\ (undoing /\ s = Volume => before[s] # 0) => h[s] = before[s]

\* A keyboard without a profile name has nothing mapped.
NamedHeld(h) == h[Name] = 0 => \A s \in Mappable : h[s] = 0

Sound(h) == WrittenHeld(h) /\ OthersHeld(h) /\ NamedHeld(h)

\* Unless the pass names the profile, a command reaches nothing but its setting.
Aside(h) == Name \notin DOMAIN goal => \A s \in Verified \ DOMAIN goal : h[s] = held[s]

\* What a pass writes.
GoalInv ==
    /\ op \in {"apply", "restore"}
    /\ op = "apply" => goal = IF undoing THEN UndoOf(Merged(changes, before), before)
                                         ELSE Merged(changes, before)
    /\ op = "restore" => goal = RestoreOf(changes, before) /\ changes \in Profile /\ ~undoing

\* A pass that names the profile does so first, and writes all that was mapped.
NamesInv ==
    /\ Name \in DOMAIN goal =>
         goal[Name] # 0 /\ \A s \in Mappable : s \notin DOMAIN goal => before[s] = 0
    /\ Name \in todo => todo = DOMAIN goal

PassPart ==
    /\ NamedHeld(held)
    /\ Writing => GoalInv /\ NamesInv /\ WrittenHeld(held) /\ OthersHeld(held)
    /\ pc # "idle" => told = "nothing"

PassInv ==
    /\ PassPart
    /\ pc = "default_name" => held[Name] = 0
    /\ pc = "clear_macro" => Current \in Macros
    /\ pc = "clear" => op = "clear"

Outcomes == AppliedIsHeld /\ RollbackPutsBack /\ RestoreIsComplete

-----------------------------------------------------------------------------
(* The order in which settings are written.                                *)

Less == OpToRel(<, Nat)

LEMMA LessWellFounded == IsWellFoundedOn(Less, Nat)
BY NatLessThanWellFounded DEF Less

LEMMA LessPairs == \A x, y \in Nat : y < x => <<y, x>> \in Less
BY DEF OpToRel, Less

LEMMA Smallest ==
    ASSUME NEW T, T \subseteq Nat, T # {}
    PROVE  \E x \in T : \A y \in T : x <= y
<1>1. PICK x \in T : \A y \in T : <<y, x>> \notin Less
    BY LessWellFounded, WFMin
<1>2. \A y \in T : ~(y < x)
    BY <1>1, LessPairs
<1> QED
    BY <1>2

LEMMA KindType ==
    \A s \in Settings :
        /\ s[1] \in {"name", "key", "macro", "locks", "volume"}
        /\ s[2] \in Nat
        /\ s = <<s[1], s[2]>>
        /\ s[1] = "name" => s = Name
<1> SUFFICES ASSUME NEW s \in Settings
             PROVE  /\ s[1] \in {"name", "key", "macro", "locks", "volume"}
                    /\ s[2] \in Nat
                    /\ s = <<s[1], s[2]>>
                    /\ s[1] = "name" => s = Name
    OBVIOUS
<1>1. CASE s \in {Name, Locks, Volume}
    BY <1>1 DEF Name, Locks, Volume
<1>2. CASE s \in Mappings
  <2>1. PICK k \in Keys : s = <<"key", k>>
      BY <1>2 DEF Mappings
  <2> QED
      BY <2>1, KeysAssumption
<1>3. CASE s \in Macros
  <2>1. PICK k \in MacroKeys : s = <<"macro", k>>
      BY <1>3 DEF Macros
  <2> QED
      BY <2>1, KeysAssumption
<1> QED
    BY <1>1, <1>2, <1>3 DEF Settings

LEMMA RankType ==
    /\ \A s \in Settings : Rank[s[1]] \in Nat
    /\ \A r, s \in Settings : Rank[r[1]] = Rank[s[1]] => r[1] = s[1]
    /\ \A s \in Settings : s # Name => Rank[Name[1]] < Rank[s[1]]
<1>1. /\ Rank["name"] = 1 /\ Rank["key"] = 2 /\ Rank["macro"] = 3
      /\ Rank["locks"] = 4 /\ Rank["volume"] = 5
    BY DEF Rank
<1>2. Name[1] = "name"
    BY DEF Name
<1> QED
    BY <1>1, <1>2, KindType

\* There always is a next setting, and the name comes before all others.
LEMMA CurrentFirst ==
    ASSUME todo \subseteq Settings, todo # {}
    PROVE  /\ Current \in todo
           /\ Name \in todo => Current = Name
<1> DEFINE ranks == {Rank[s[1]] : s \in todo}
<1>1. PICK a \in ranks : \A b \in ranks : a <= b
  <2>1. ranks \subseteq Nat /\ ranks # {}
      BY RankType
  <2> QED
      BY <2>1, Smallest
<1> DEFINE ids == {s[2] : s \in {r \in todo : Rank[r[1]] = a}}
<1>2. PICK i \in ids : \A j \in ids : i <= j
  <2>1. ids \subseteq Nat /\ ids # {}
      BY <1>1, KindType
  <2> QED
      BY <2>1, Smallest
<1>3. PICK s \in todo : Rank[s[1]] = a /\ s[2] = i
    BY <1>2
<1>4. \A r \in todo \ {s} : Precedes(s, r)
  <2> SUFFICES ASSUME NEW r \in todo, r # s
               PROVE  Precedes(s, r)
      OBVIOUS
  <2>1. Rank[s[1]] <= Rank[r[1]]
      BY <1>1, <1>3
  <2>2. CASE Rank[s[1]] = Rank[r[1]]
    <3>1. s[1] = r[1] /\ s[2] <= r[2]
        BY <2>2, <1>2, <1>3, RankType
    <3>2. s[2] # r[2]
        BY <3>1, r # s, KindType
    <3> QED
        BY <2>2, <3>1, <3>2, RankType, KindType DEF Precedes
  <2>3. CASE Rank[s[1]] # Rank[r[1]]
      BY <2>1, <2>3, RankType DEF Precedes
  <2> QED
      BY <2>2, <2>3
<1>5. Current \in todo /\ \A r \in todo \ {Current} : Precedes(Current, r)
    BY <1>4 DEF Current
<1>6. ASSUME Name \in todo, Current # Name
      PROVE  FALSE
  <2>1. Precedes(Current, Name)
      BY <1>5, <1>6
  <2>2. Rank[Name[1]] < Rank[Current[1]]
      BY <1>5, <1>6, RankType
  <2> QED
      BY <2>1, <2>2, <1>5, <1>6, RankType DEF Precedes
<1> QED
    BY <1>5, <1>6

-----------------------------------------------------------------------------
(* Types.                                                                  *)

LEMMA ChangesType ==
    /\ \A S \in SUBSET Settings : \A f \in [S -> Values] : f \in Changes
    /\ \A f \in Changes : DOMAIN f \subseteq Settings /\ f \in [DOMAIN f -> Values]
BY DEF Changes

LEMMA KindsAreSettings ==
    /\ Mappable \subseteq Settings
    /\ {Name, Locks, Volume} \subseteq Settings
    /\ \A s \in Mappable : s \notin {Name, Locks, Volume}
    /\ Name # Locks /\ Name # Volume /\ Locks # Volume
    /\ Verified = Settings \ {Name}
    /\ Mappable \subseteq Verified
BY DEF Mappable, Settings, Mappings, Macros, Name, Locks, Volume, Verified

LEMMA NothingType == Nothing \in Changes /\ DOMAIN Nothing = {}
BY ChangesType DEF Nothing

LEMMA MergedType ==
    ASSUME NEW asked \in Changes, NEW p \in Profile
    PROVE  /\ Merged(asked, p) \in Changes
           /\ DOMAIN Merged(asked, p) =
                DOMAIN asked \cup (IF Name \in DOMAIN asked THEN Mapped(p) ELSE {})
           /\ \A s \in DOMAIN Merged(asked, p) :
                Merged(asked, p)[s] = IF s \in DOMAIN asked THEN asked[s] ELSE p[s]
<1> DEFINE all == DOMAIN asked \cup (IF Name \in DOMAIN asked THEN Mapped(p) ELSE {})
<1>1. all \in SUBSET Settings
    BY ChangesType, KindsAreSettings DEF Mapped, Mappable
<1>2. Merged(asked, p) \in [all -> Values]
  <2>1. \A s \in all : (IF s \in DOMAIN asked THEN asked[s] ELSE p[s]) \in Values
      BY <1>1, ChangesType DEF Profile
  <2> QED
      BY <2>1 DEF Merged
<1> QED
    BY <1>1, <1>2, ChangesType DEF Merged

LEMMA UndoOfType ==
    ASSUME NEW written \in Changes, NEW p \in Profile
    PROVE  /\ UndoOf(written, p) \in Changes
           /\ DOMAIN UndoOf(written, p) =
                {s \in DOMAIN written : s \in {Name, Volume} => p[s] # 0}
           /\ \A s \in DOMAIN UndoOf(written, p) : UndoOf(written, p)[s] = p[s]
<1> DEFINE all == {s \in DOMAIN written : s \in {Name, Volume} => p[s] # 0}
<1>1. all \in SUBSET Settings
    BY ChangesType
<1>2. UndoOf(written, p) \in [all -> Values]
    BY <1>1 DEF UndoOf, Profile
<1> QED
    BY <1>1, <1>2, ChangesType DEF UndoOf

LEMMA RestoreOfType ==
    ASSUME NEW backup \in Profile, NEW now \in Profile
    PROVE  /\ RestoreOf(backup, now) \in Changes
           /\ DOMAIN RestoreOf(backup, now) =
                Mapped(now) \cup Mapped(backup) \cup {Locks}
                  \cup {s \in {Name, Volume} : backup[s] # 0}
           /\ \A s \in DOMAIN RestoreOf(backup, now) : RestoreOf(backup, now)[s] = backup[s]
<1> DEFINE all == Mapped(now) \cup Mapped(backup) \cup {Locks}
                    \cup {s \in {Name, Volume} : backup[s] # 0}
<1>1. all \in SUBSET Settings
    BY KindsAreSettings DEF Mapped, Mappable
<1>2. RestoreOf(backup, now) \in [all -> Values]
    BY <1>1 DEF RestoreOf, Profile
<1> QED
    BY <1>1, <1>2, ChangesType DEF RestoreOf

LEMMA ProfileIsChanges == Profile \subseteq Changes
BY ChangesType DEF Profile

\* The keyboard holds a profile after any command.
LEMMA NameStoredType ==
    ASSUME held \in Profile, NEW v \in Values
    PROVE  /\ NameStored(v) \in Profile
           /\ NameStored(v)[Name] = v
           /\ \A s \in Verified : NameStored(v)[s] = held[s] \/ (s \in Mappable /\ NameStored(v)[s] = 0)
<1>1. \A s \in Settings : held[s] \in Values /\ 0 \in Values
    BY ValuesAssumption DEF Profile
<1> QED
    BY <1>1, KindsAreSettings DEF NameStored, Profile, Mappable

LEMMA ClearedType ==
    ASSUME held \in Profile
    PROVE  Cleared \in Profile /\ NamedHeld(Cleared)
<1>1. \A s \in Settings : held[s] \in Values /\ 0 \in Values
    BY ValuesAssumption DEF Profile
<1>2. Cleared \in Profile
    BY <1>1 DEF Cleared, Profile
<1>3. \A s \in Mappable : Cleared[s] = 0
  <2>1. \A s \in Mappable : s \in Settings /\ s \notin {Locks, Volume}
      BY KindsAreSettings
  <2> QED
      BY <2>1 DEF Cleared
<1> QED
    BY <1>2, <1>3 DEF NamedHeld

LEMMA OneSettingType ==
    ASSUME held \in Profile, NEW s \in Settings, NEW v \in Values
    PROVE  /\ [held EXCEPT ![s] = v] \in Profile
           /\ \A r \in Settings : [held EXCEPT ![s] = v][r] = IF r = s THEN v ELSE held[r]
BY DEF Profile

LEMMA TypeInit ==
    ASSUME Init
    PROVE  TypeInv
<1>1. held \in Profile /\ before \in Profile
    BY ProfilesAssumption DEF Init
<1>2. changes \in Changes /\ goal \in Changes /\ todo \subseteq DOMAIN goal
    BY NothingType DEF Init
<1>3. 0 \in 0..MaxCalls
    BY CallsAssumption
<1> QED
    BY <1>1, <1>2, <1>3 DEF Init, TypeInv, TypeOK, AtSetting, Told

\* Starting a call.
LEMMA CallType ==
    ASSUME TypeInv, NEW which \in {"apply", "restore", "clear"}, Call(which),
           backups' \subseteq Profile, changes' \in Changes,
           \/ \E what \in Changes : Write(what)
           \/ Refused
           \/ /\ goal' = Nothing /\ todo' = {}
              /\ pc' \in {"clear", "idle"} /\ told' \in {"nothing", "refused"}
    PROVE  TypeInv'
<1>1. /\ held' \in Profile /\ before' \in Profile
      /\ renameDrops' \in BOOLEAN /\ advanced' \in BOOLEAN
      /\ op' \in {"none", "apply", "restore", "clear"}
      /\ undoing' \in BOOLEAN
    BY DEF TypeInv, TypeOK, Call
<1>2. calls' \in 0..MaxCalls
  <2>1. calls \in 0..MaxCalls /\ calls < MaxCalls /\ calls' = calls + 1
      BY DEF TypeInv, TypeOK, Call
  <2> QED
      BY <2>1, CallsAssumption
<1>3. /\ goal' \in Changes /\ todo' \subseteq DOMAIN goal'
      /\ pc' \in {"start", "clear", "idle"}
      /\ told' \in {"nothing", "refused"}
    BY NothingType DEF Write, Refused
<1> QED
    BY <1>1, <1>2, <1>3 DEF TypeInv, TypeOK, AtSetting, Told

LEMMA CallsType ==
    ASSUME TypeInv,
           \/ \E asked \in Requests : KeyboardApply(asked)
           \/ \E backup \in backups : RestoreBackup(backup)
           \/ KeyboardClearProfile
    PROVE  TypeInv'
<1>1. held \in Profile /\ Kept \subseteq Profile /\ backups \subseteq Profile
    BY DEF TypeInv, TypeOK, Kept
<1>2. ASSUME NEW asked \in Requests, KeyboardApply(asked)
      PROVE  TypeInv'
  <2>1. asked \in Changes /\ Merged(asked, held) \in Changes
      BY <1>1, RequestsAssumption, MergedType
  <2> QED
      BY <1>1, <1>2, <2>1, CallType DEF KeyboardApply
<1>3. ASSUME NEW backup \in backups, RestoreBackup(backup)
      PROVE  TypeInv'
  <2>1. backup \in Changes /\ RestoreOf(backup, held) \in Changes
      BY <1>1, ProfileIsChanges, RestoreOfType
  <2> QED
      BY <1>1, <1>3, <2>1, CallType DEF RestoreBackup
<1>4. ASSUME KeyboardClearProfile
      PROVE  TypeInv'
  <2>1. changes' \in Changes
      BY <1>4 DEF KeyboardClearProfile, TypeInv, TypeOK
  <2> QED
      BY <1>1, <1>4, <2>1, CallType DEF KeyboardClearProfile
<1> QED
    BY <1>2, <1>3, <1>4

\* What a command of a pass may leave in held.
LEMMA SettingType ==
    ASSUME TypeInv, AtSetting
    PROVE  /\ Current \in todo /\ Current \in Settings
           /\ goal[Current] \in Values
           /\ Stored(Current, goal[Current]) \in Profile
           /\ Stored(Name, DefaultName) \in Profile
           /\ [held EXCEPT ![Current] = 0] \in Profile
<1>1. held \in Profile /\ goal \in Changes /\ todo \subseteq DOMAIN goal /\ todo # {}
    BY DEF TypeInv, TypeOK
<1>2. todo \subseteq Settings
    BY <1>1, ChangesType
<1>3. Current \in todo
    BY <1>1, <1>2, CurrentFirst
<1>4. goal[Current] \in Values
    BY <1>1, <1>3, ChangesType
<1>5. 0 \in Values /\ DefaultName \in Values
    BY ValuesAssumption
<1>6. [held EXCEPT ![Current] = 0] \in Profile /\ [held EXCEPT ![Current] = goal[Current]] \in Profile
    BY <1>1, <1>2, <1>3, <1>4, <1>5, OneSettingType
<1> QED
    BY <1>1, <1>2, <1>3, <1>4, <1>5, <1>6, NameStoredType DEF Stored

LEMMA PassType ==
    ASSUME TypeInv, Writing, held' \in Profile, UNCHANGED callFrame,
           \/ Fail
           \/ Written
           \/ todo # {} /\ \E l \in {"put", "ensure", "clear_macro", "default_name", "check"} : Onward(l)
    PROVE  TypeInv'
<1>1. /\ renameDrops' \in BOOLEAN /\ advanced' \in BOOLEAN /\ backups' \subseteq Profile
      /\ op' \in {"none", "apply", "restore", "clear"} /\ changes' \in Changes
      /\ before' \in Profile /\ calls' \in 0..MaxCalls
    BY DEF TypeInv, TypeOK, callFrame
<1>2. /\ goal' \in Changes /\ todo' \subseteq DOMAIN goal'
      /\ undoing' \in BOOLEAN /\ told' \in Told
      /\ pc' \in {"idle", "start", "clear_macro", "ensure", "default_name", "put", "check"}
      /\ pc' \in {"idle", "start"} \/ todo' # {}
  <2>1. CASE PutBack
    <3>1. UndoOf(goal, before) \in Changes
        BY UndoOfType DEF TypeInv, TypeOK
    <3> QED
        BY <2>1, <3>1 DEF PutBack, Write, Told
  <2>2. CASE GiveUp
      BY <2>2 DEF GiveUp, TypeInv, TypeOK, Told
  <2>3. CASE Written
      BY <2>3 DEF Written, TypeInv, TypeOK
  <2>4. CASE todo # {} /\ \E l \in {"put", "ensure", "clear_macro", "default_name", "check"} : Onward(l)
      BY <2>4 DEF Onward, TypeInv, TypeOK
  <2> QED
      BY <2>1, <2>2, <2>3, <2>4 DEF Fail
<1> QED
    BY <1>1, <1>2 DEF TypeInv, TypeOK, AtSetting

LEMMA StepType ==
    ASSUME TypeInv, Step
    PROVE  TypeInv'
<1> USE DEF TypeInv
<1>0. held \in Profile
    BY DEF TypeOK
<1>1. CASE Start
  <2>1. held' \in Profile /\ todo # {} /\ Writing
      BY <1>0, <1>1 DEF Start, Writing
  <2> QED
      BY <1>1, <2>1, PassType DEF Start
<1>2. CASE ClearMacro
  <2>1. AtSetting /\ Writing
      BY <1>2 DEF ClearMacro, AtSetting, Writing
  <2>2. held' \in Profile
      BY <1>0, <1>2, <2>1, SettingType DEF ClearMacro, Sent
  <2> QED
      BY <1>2, <2>1, <2>2, PassType DEF ClearMacro
<1>3. CASE EnsureProfile
  <2>1. AtSetting /\ Writing /\ held' \in Profile
      BY <1>0, <1>3 DEF EnsureProfile, AtSetting, Writing
  <2> QED
      BY <1>3, <2>1, PassType DEF EnsureProfile
<1>4. CASE WriteDefaultName
  <2>1. AtSetting /\ Writing
      BY <1>4 DEF WriteDefaultName, AtSetting, Writing
  <2>2. held' \in Profile
      BY <1>0, <1>4, <2>1, SettingType DEF WriteDefaultName, Sent
  <2> QED
      BY <1>4, <2>1, <2>2, PassType DEF WriteDefaultName
<1>5. CASE Put
  <2>1. AtSetting /\ Writing
      BY <1>5 DEF Put, AtSetting, Writing
  <2>2. held' \in Profile
      BY <1>0, <1>5, <2>1, SettingType DEF Put, Sent
  <2> QED
      BY <1>5, <2>1, <2>2, PassType DEF Put
<1>6. CASE Check
  <2>1. AtSetting /\ Writing /\ held' \in Profile
      BY <1>0, <1>6 DEF Check, AtSetting, Writing
  <2> QED
      BY <1>6, <2>1, PassType DEF Check
<1>7. CASE Done
    BY <1>7 DEF Done, callFrame, TypeOK, AtSetting, Told
<1>8. CASE ClearProfile
  <2>1. held' \in Profile
      BY <1>0, <1>8, ClearedType DEF ClearProfile, Sent
  <2> QED
      BY <1>8, <2>1 DEF ClearProfile, callFrame, TypeOK, AtSetting, Told
<1> QED
    BY <1>1, <1>2, <1>3, <1>4, <1>5, <1>6, <1>7, <1>8 DEF Step

LEMMA TypeAlways == Spec => []TypeInv
<1>1. ASSUME TypeInv, [Next]_vars
      PROVE  TypeInv'
  <2>1. CASE Next
      BY <1>1, <2>1, CallsType, StepType DEF Next
  <2>2. CASE UNCHANGED vars
      BY <1>1, <2>2 DEF vars, TypeInv, TypeOK, AtSetting
  <2> QED
      BY <1>1, <2>1, <2>2
<1> QED
    BY <1>1, TypeInit, PTL DEF Spec

\* The keyboard, the backups and the progress of a call keep their types for any
\* keys, values and requests: what is put back and what is restored are writes the
\* keyboard can be asked for, and a command always has a setting it is for.
THEOREM TypeCorrect == Spec => []TypeOK
<1>1. TypeInv => TypeOK
    BY DEF TypeInv
<1> QED
    BY <1>1, TypeAlways, PTL
-----------------------------------------------------------------------------
(* What a command may leave on the keyboard.                               *)

\* Naming the profile: first of all, or where there was no name and so nothing mapped.
LEMMA NamingIsSound ==
    ASSUME TypeInv, AtSetting, Sound(held), NamesInv, NEW v \in Values, v # 0,
           Name \in todo \/ held[Name] = 0
    PROVE  Sound(NameStored(v)) /\ Aside(NameStored(v))
<1>1. held \in Profile /\ goal \in Changes /\ todo \subseteq DOMAIN goal
    BY DEF TypeInv, TypeOK
<1>2. /\ NameStored(v)[Name] = v
      /\ \A s \in Verified :
           NameStored(v)[s] = held[s] \/ (s \in Mappable /\ NameStored(v)[s] = 0)
    BY <1>1, NameStoredType
<1>3. NamedHeld(NameStored(v))
    BY <1>2 DEF NamedHeld
<1>4. CASE held[Name] = 0
  <2>1. \A s \in Verified : NameStored(v)[s] = held[s]
      BY <1>2, <1>4 DEF Sound, NamedHeld
  <2> QED
      BY <1>3, <2>1 DEF Sound, WrittenHeld, OthersHeld, Aside
<1>5. CASE Name \in todo
  <2>1. todo = DOMAIN goal /\ \A s \in Mappable : s \notin DOMAIN goal => before[s] = 0
      BY <1>1, <1>5 DEF NamesInv
  <2>2. WrittenHeld(NameStored(v))
      BY <2>1 DEF WrittenHeld
  <2>3. OthersHeld(NameStored(v))
      BY <1>2, <2>1 DEF Sound, OthersHeld
  <2>4. Aside(NameStored(v))
      BY <1>5, <2>1 DEF Aside
  <2> QED
      BY <1>3, <2>2, <2>3, <2>4 DEF Sound
<1> QED
    BY <1>4, <1>5

LEMMA SettingIsSound ==
    ASSUME TypeInv, AtSetting, Sound(held), NEW v \in Values, Current # Name,
           v = 0 \/ Current \notin Mappable \/ held[Name] # 0
    PROVE  Sound([held EXCEPT ![Current] = v]) /\ Aside([held EXCEPT ![Current] = v])
<1> DEFINE h == [held EXCEPT ![Current] = v]
<1>1. Current \in todo /\ Current \in Settings /\ todo \subseteq DOMAIN goal
    BY SettingType DEF TypeInv, TypeOK
<1>2. \A r \in Settings : h[r] = IF r = Current THEN v ELSE held[r]
    BY <1>1, OneSettingType DEF TypeInv, TypeOK
<1>3. WrittenHeld(h)
    BY <1>1, <1>2, KindsAreSettings DEF Sound, WrittenHeld
<1>4. OthersHeld(h)
    BY <1>1, <1>2, KindsAreSettings DEF Sound, OthersHeld
<1>5. NamedHeld(h)
  <2>1. h[Name] = held[Name] /\ \A s \in Mappable : h[s] = IF s = Current THEN v ELSE held[s]
      BY <1>2, KindsAreSettings
  <2> QED
      BY <2>1 DEF Sound, NamedHeld
<1>6. Aside(h)
    BY <1>1, <1>2, KindsAreSettings DEF Aside
<1> QED
    BY <1>3, <1>4, <1>5, <1>6 DEF Sound

LEMMA StoringIsSound ==
    ASSUME TypeInv, AtSetting, Sound(held), NamesInv
    PROVE  Sound(Stored(Current, goal[Current])) /\ Aside(Stored(Current, goal[Current]))
<1>1. Current \in todo /\ goal[Current] \in Values /\ todo \subseteq DOMAIN goal
    BY SettingType DEF TypeInv, TypeOK
<1>2. CASE Current = Name
  <2>1. Stored(Current, goal[Current]) = NameStored(goal[Current])
      BY <1>2 DEF Stored
  <2>2. goal[Current] # 0
      BY <1>1, <1>2 DEF NamesInv
  <2> QED
      BY <1>1, <1>2, <2>1, <2>2, NamingIsSound
<1>3. CASE Current # Name /\ Current \in Mappable /\ held[Name] = 0
  <2>1. Stored(Current, goal[Current]) = held
      BY <1>3 DEF Stored, Mappable
  <2> QED
      BY <2>1 DEF Aside
<1>4. CASE Current # Name /\ ~(Current \in Mappable /\ held[Name] = 0)
  <2>1. Stored(Current, goal[Current]) = [held EXCEPT ![Current] = goal[Current]]
      BY <1>4 DEF Stored, Mappable
  <2> QED
      BY <1>1, <1>4, <2>1, SettingIsSound
<1> QED
    BY <1>2, <1>3, <1>4

-----------------------------------------------------------------------------
(* What a step makes of a pass.                                            *)

LEMMA FailKeeps ==
    ASSUME TypeInv, Writing, GoalInv, NamesInv, told = "nothing", held' \in Profile,
           Sound(held'), Fail, UNCHANGED callFrame
    PROVE  PassPart' /\ Outcomes' /\ pc' \in {"idle", "start"}
<1>1. CASE PutBack
  <2>1. /\ op = "apply" /\ ~undoing /\ undoing' /\ pc' = "start" /\ told' = "nothing"
        /\ goal = Merged(changes, before)
        /\ goal' = UndoOf(Merged(changes, before), before) /\ todo' = DOMAIN goal'
        /\ op' = op /\ changes' = changes /\ before' = before
      BY <1>1 DEF PutBack, Write, FirstFailure, GoalInv, TypeInv, TypeOK, callFrame
  <2>2. /\ DOMAIN goal' = {s \in DOMAIN goal : s \in {Name, Volume} => before[s] # 0}
        /\ \A s \in DOMAIN goal' : goal'[s] = before[s]
      BY <2>1, UndoOfType DEF TypeInv, TypeOK
  <2>3. GoalInv'
      BY <2>1 DEF GoalInv
  <2>4. NamesInv'
    <3>1. Name \in DOMAIN goal' => goal'[Name] # 0
        BY <2>2
    <3>2. Name \in DOMAIN goal' => \A s \in Mappable : s \notin DOMAIN goal' => before[s] = 0
        BY <2>2, KindsAreSettings DEF NamesInv
    <3> QED
        BY <2>1, <3>1, <3>2 DEF NamesInv, Mappable
  <2>5. WrittenHeld(held)'
      BY <2>1 DEF WrittenHeld
  <2>6. OthersHeld(held)'
    <3> SUFFICES ASSUME NEW s \in Verified, s \notin DOMAIN goal', s = Volume => before[s] # 0
                 PROVE  held'[s] = before[s]
        BY <2>1 DEF OthersHeld, Verified, Settings
    <3>1. s \notin DOMAIN goal
        BY <2>2, KindsAreSettings
    <3> QED
        BY <2>1, <3>1 DEF Sound, OthersHeld
  <2> QED
      BY <2>1, <2>3, <2>4, <2>5, <2>6
         DEF PassPart, Sound, NamedHeld, Outcomes, AppliedIsHeld, RollbackPutsBack, RestoreIsComplete
<1>2. CASE GiveUp
  <2>1. pc' = "idle" /\ told' \in {"rollback_failed", "restore_failed"}
      BY <1>2 DEF GiveUp
  <2> QED
      BY <2>1 DEF PassPart, Sound, NamedHeld, Writing, AtSetting, Outcomes, AppliedIsHeld,
                  RollbackPutsBack, RestoreIsComplete
<1> QED
    BY <1>1, <1>2 DEF Fail

LEMMA WrittenKeeps ==
    ASSUME TypeInv, AtSetting, GoalInv, NamesInv, told = "nothing", held' \in Profile,
           Sound(held'), Written, UNCHANGED callFrame,
           Current # Name => held'[Current] = goal[Current]
    PROVE  PassPart' /\ Outcomes' /\ pc' = "start"
<1>1. /\ todo' = todo \ {Current} /\ pc' = "start" /\ goal' = goal /\ undoing' = undoing
      /\ told' = "nothing" /\ op' = op /\ changes' = changes /\ before' = before
    BY DEF Written, callFrame
<1>2. Name \notin todo'
  <2>1. todo \subseteq Settings /\ todo # {}
      BY ChangesType DEF TypeInv, TypeOK
  <2> QED
      BY <1>1, <2>1, CurrentFirst
<1>3. GoalInv' /\ NamesInv'
    BY <1>1, <1>2 DEF GoalInv, NamesInv
<1>4. WrittenHeld(held)'
    BY <1>1, KindsAreSettings DEF Sound, WrittenHeld
<1>5. OthersHeld(held)' /\ NamedHeld(held)'
    BY <1>1 DEF Sound, OthersHeld, NamedHeld
<1> QED
    BY <1>1, <1>3, <1>4, <1>5
       DEF PassPart, Outcomes, AppliedIsHeld, RollbackPutsBack, RestoreIsComplete

LEMMA OnwardKeeps ==
    ASSUME GoalInv, NamesInv, told = "nothing", Sound(held'), NEW l, Onward(l),
           UNCHANGED callFrame
    PROVE  PassPart' /\ Outcomes' /\ pc' = l /\ Current' = Current
<1>1. /\ goal' = goal /\ todo' = todo /\ undoing' = undoing /\ told' = "nothing" /\ pc' = l
      /\ op' = op /\ changes' = changes /\ before' = before
    BY DEF Onward, callFrame
<1>2. GoalInv' /\ NamesInv'
    BY <1>1 DEF GoalInv, NamesInv
<1>3. WrittenHeld(held)' /\ OthersHeld(held)' /\ NamedHeld(held)'
    BY <1>1 DEF Sound, WrittenHeld, OthersHeld, NamedHeld
<1> QED
    BY <1>1, <1>2, <1>3
       DEF PassPart, Outcomes, AppliedIsHeld, RollbackPutsBack, RestoreIsComplete, Current
LEMMA PassBegins ==
    ASSUME TypeInv, told' \in {"nothing", "refused"}, pc' \in {"start", "clear", "idle"},
           held' = held, NamedHeld(held), NEW which \in {"apply", "restore", "clear"}, Call(which),
           \/ pc' = "idle"
           \/ pc' = "clear" /\ which = "clear" /\ told' = "nothing"
           \/ /\ pc' = "start" /\ told' = "nothing" /\ todo' = DOMAIN goal'
              /\ GoalInv'
              /\ Name \in DOMAIN goal' =>
                   goal'[Name] # 0 /\ \A s \in Mappable : s \notin DOMAIN goal' => held[s] = 0
    PROVE  PassInv' /\ Outcomes'
<1>1. /\ Outcomes' /\ (pc' # "idle" => told' = "nothing" \/ pc' = "start")
      /\ pc' = "clear" => op' = "clear"
      /\ NamedHeld(held)'
    BY DEF Outcomes, AppliedIsHeld, RollbackPutsBack, RestoreIsComplete, NamedHeld, Call
<1>2. pc' = "start" => NamesInv' /\ WrittenHeld(held)' /\ OthersHeld(held)'
  <2>1. before' = held
      BY DEF Call
  <2> QED
      BY <2>1 DEF NamesInv, WrittenHeld, OthersHeld, Mappable, Mappings, Macros, Name
<1> QED
    BY <1>1, <1>2 DEF PassInv, PassPart, Writing, AtSetting

LEMMA CallsKeep ==
    ASSUME TypeInv, PassInv,
           \/ \E asked \in Requests : KeyboardApply(asked)
           \/ \E backup \in backups : RestoreBackup(backup)
           \/ KeyboardClearProfile
    PROVE  PassInv' /\ Outcomes'
<1>0. held \in Profile /\ backups \subseteq Profile /\ NamedHeld(held)
    BY DEF TypeInv, TypeOK, PassInv, PassPart
<1>1. ASSUME NEW asked \in Requests, KeyboardApply(asked)
      PROVE  PassInv' /\ Outcomes'
  <2>1. Call("apply") /\ changes' = asked /\ before' = held /\ op' = "apply" /\ ~undoing' /\ held' = held
      BY <1>1 DEF KeyboardApply, Call
  <2>2. CASE Refused
      BY <1>0, <2>1, <2>2, PassBegins DEF Refused
  <2>3. CASE ~EmptyName(asked) /\ Write(Merged(asked, held))
    <3>1. goal' = Merged(asked, held) /\ todo' = DOMAIN goal' /\ pc' = "start" /\ told' = "nothing"
        BY <2>3 DEF Write
    <3>2. GoalInv'
        BY <2>1, <3>1 DEF GoalInv
    <3>3. asked \in Changes
        BY RequestsAssumption
    <3>4. ASSUME Name \in DOMAIN goal'
          PROVE  goal'[Name] # 0 /\ \A s \in Mappable : s \notin DOMAIN goal' => held[s] = 0
      <4>1. Name \in DOMAIN asked
          BY <1>0, <3>1, <3>3, <3>4, MergedType, KindsAreSettings DEF Mapped, Mappable
      <4>2. goal'[Name] # 0
          BY <1>0, <2>3, <3>1, <3>3, <3>4, <4>1, MergedType DEF EmptyName
      <4>3. \A s \in Mappable : s \notin DOMAIN goal' => held[s] = 0
        <5>1. DOMAIN goal' = DOMAIN asked \cup Mapped(held)
            BY <1>0, <3>1, <3>3, <4>1, MergedType
        <5> QED
            BY <5>1 DEF Mapped, Mappable
      <4> QED
          BY <4>2, <4>3
    <3> QED
        BY <1>0, <2>1, <3>1, <3>2, <3>4, PassBegins
  <2> QED
      BY <1>1, <2>2, <2>3 DEF KeyboardApply
<1>2. ASSUME NEW backup \in backups, RestoreBackup(backup)
      PROVE  PassInv' /\ Outcomes'
  <2>1. /\ Call("restore") /\ changes' = backup /\ before' = held /\ op' = "restore"
        /\ ~undoing' /\ held' = held
      BY <1>2 DEF RestoreBackup, Call
  <2>2. CASE Refused
      BY <1>0, <2>1, <2>2, PassBegins DEF Refused
  <2>3. CASE Write(RestoreOf(backup, held))
    <3>1. goal' = RestoreOf(backup, held) /\ todo' = DOMAIN goal' /\ pc' = "start" /\ told' = "nothing"
        BY <2>3 DEF Write
    <3>2. backup \in Profile /\ GoalInv'
        BY <1>0, <2>1, <3>1 DEF GoalInv
    <3>3. Name \in DOMAIN goal' => goal'[Name] # 0
      <4>1. /\ DOMAIN goal' = Mapped(held) \cup Mapped(backup) \cup {Locks}
                               \cup {s \in {Name, Volume} : backup[s] # 0}
            /\ \A s \in DOMAIN goal' : goal'[s] = backup[s]
          BY <1>0, <3>1, <3>2, RestoreOfType
      <4>2. Name \notin Mapped(held) \cup Mapped(backup) \cup {Locks}
          BY KindsAreSettings DEF Mapped, Mappable
      <4> QED
          BY <4>1, <4>2
    <3>4. \A s \in Mappable : s \notin DOMAIN goal' => held[s] = 0
        BY <1>0, <3>1, <3>2, RestoreOfType DEF Mapped, Mappable
    <3> QED
        BY <1>0, <2>1, <3>1, <3>2, <3>3, <3>4, PassBegins
  <2> QED
      BY <1>2, <2>2, <2>3 DEF RestoreBackup
<1>3. ASSUME KeyboardClearProfile
      PROVE  PassInv' /\ Outcomes'
  <2>1. Call("clear") /\ held' = held
      BY <1>3 DEF KeyboardClearProfile, Call
  <2> QED
      BY <1>0, <1>3, <2>1, PassBegins DEF KeyboardClearProfile
<1> QED
    BY <1>1, <1>2, <1>3

LEMMA StepKeeps ==
    ASSUME TypeInv, PassInv, Step
    PROVE  PassInv' /\ Outcomes'
<1>0. held \in Profile
    BY DEF TypeInv, TypeOK
<1>1. Writing => GoalInv /\ NamesInv /\ Sound(held) /\ told = "nothing"
    BY DEF PassInv, PassPart, Sound, Writing, AtSetting
\* A step that fails, writes its setting or goes on, leaving a sound profile.
<1>2. ASSUME AtSetting, held' \in Profile, Sound(held'), UNCHANGED callFrame,
             \/ Fail
             \/ Written /\ (Current # Name => held'[Current] = goal[Current])
             \/ \E l \in {"put", "ensure", "check"} : Onward(l)
             \/ Onward("default_name") /\ held'[Name] = 0
      PROVE  PassInv' /\ Outcomes'
  <2>1. Writing
      BY <1>2 DEF Writing
  <2>2. CASE Fail
      BY <1>1, <1>2, <2>1, <2>2, FailKeeps DEF PassInv
  <2>3. CASE Written /\ (Current # Name => held'[Current] = goal[Current])
      BY <1>1, <1>2, <2>1, <2>3, WrittenKeeps DEF PassInv
  <2>4. ASSUME NEW l \in {"put", "ensure", "check"}, Onward(l)
        PROVE  PassInv' /\ Outcomes'
      BY <1>1, <1>2, <2>1, <2>4, OnwardKeeps DEF PassInv
  <2>5. CASE Onward("default_name") /\ held'[Name] = 0
      BY <1>1, <1>2, <2>1, <2>5, OnwardKeeps DEF PassInv
  <2> QED
      BY <1>2, <2>2, <2>3, <2>4, <2>5
<1>3. CASE Start
  <2>1. Writing /\ held' = held /\ UNCHANGED callFrame
      BY <1>3 DEF Start, Writing
  <2>2. Sound(held') /\ held' \in Profile
      BY <1>0, <1>1, <2>1
  <2>3. CASE Fail
      BY <1>1, <2>1, <2>2, <2>3, FailKeeps DEF PassInv
  <2>4. ASSUME NEW l \in {"put", "ensure"}, Onward(l)
        PROVE  PassInv' /\ Outcomes'
      BY <1>1, <2>1, <2>2, <2>4, OnwardKeeps DEF PassInv
  <2>5. CASE Onward("clear_macro") /\ Current \in Macros
      BY <1>1, <2>1, <2>2, <2>5, OnwardKeeps DEF PassInv
  <2> QED
      BY <1>3, <2>3, <2>4, <2>5 DEF Start
<1>4. CASE ClearMacro
  <2>1. AtSetting /\ Writing /\ Current \in Macros
      BY <1>4 DEF ClearMacro, AtSetting, Writing, PassInv
  <2>2. Sound([held EXCEPT ![Current] = 0])
      BY <1>1, <2>1, SettingIsSound, ValuesAssumption, KindsAreSettings DEF Mappable
  <2>3. held' \in Profile /\ Sound(held')
      BY <1>0, <1>1, <1>4, <2>1, <2>2, SettingType DEF ClearMacro, Sent
  <2> QED
      BY <1>2, <1>4, <2>1, <2>3 DEF ClearMacro
<1>5. CASE EnsureProfile
  <2>1. AtSetting /\ Writing /\ held' = held
      BY <1>5 DEF EnsureProfile, AtSetting, Writing
  <2> QED
      BY <1>0, <1>1, <1>2, <1>5, <2>1 DEF EnsureProfile, Unnamed
<1>6. CASE WriteDefaultName
  <2>1. AtSetting /\ Writing /\ held[Name] = 0
      BY <1>6 DEF WriteDefaultName, AtSetting, Writing, PassInv
  <2>2. Stored(Name, DefaultName) = NameStored(DefaultName) /\ DefaultName # 0
      BY DEF Stored, DefaultName
  <2>3. Sound(NameStored(DefaultName))
      BY <1>1, <2>1, <2>2, NamingIsSound, ValuesAssumption
  <2>4. held' \in Profile /\ Sound(held')
      BY <1>0, <1>1, <1>6, <2>1, <2>2, <2>3, SettingType DEF WriteDefaultName, Sent
  <2> QED
      BY <1>2, <1>6, <2>1, <2>4 DEF WriteDefaultName
<1>7. CASE Put
  <2>1. AtSetting /\ Writing
      BY <1>7 DEF Put, AtSetting, Writing
  <2>2. held' \in Profile /\ Sound(held')
      BY <1>0, <1>1, <1>7, <2>1, SettingType, StoringIsSound DEF Put, Sent
  <2> QED
      BY <1>2, <1>7, <2>1, <2>2 DEF Put
<1>8. CASE Check
  <2>1. AtSetting /\ Writing /\ held' = held
      BY <1>8 DEF Check, AtSetting, Writing
  <2> QED
      BY <1>0, <1>1, <1>2, <1>8, <2>1 DEF Check, Matches
<1>9. CASE Done
  <2>1. /\ Writing /\ todo = {} /\ held' = held /\ pc' = "idle" /\ UNCHANGED callFrame
        /\ told' = IF op = "restore" THEN "restored" ELSE IF undoing THEN "rolled_back" ELSE "applied"
      BY <1>9 DEF Done, Writing
  <2>2. /\ GoalInv /\ changes \in Changes /\ before \in Profile
        /\ changes' = changes /\ before' = before
      BY <1>1, <2>1 DEF TypeInv, TypeOK, callFrame
  <2>3. /\ \A s \in Verified : s \in DOMAIN goal => held'[s] = goal[s]
        /\ \A s \in Verified :
             s \notin DOMAIN goal /\ (undoing /\ s = Volume => before[s] # 0) => held'[s] = before[s]
      BY <1>1, <2>1 DEF Sound, WrittenHeld, OthersHeld
  <2>4. AppliedIsHeld'
    <3> SUFFICES ASSUME told' = "applied"
                 PROVE  \A s \in Verified :
                          held'[s] = IF s \in DOMAIN changes THEN changes[s] ELSE before[s]
        BY <2>2 DEF AppliedIsHeld
    <3>1. ~undoing /\ goal = Merged(changes, before)
        BY <2>1, <2>2 DEF GoalInv, TypeInv, TypeOK
    <3> QED
        BY <2>2, <2>3, <3>1, MergedType
  <2>5. RollbackPutsBack'
    <3> SUFFICES ASSUME told' = "rolled_back"
                 PROVE  \A s \in Verified : (s = Volume => before[s] # 0) => held'[s] = before[s]
        BY <2>2 DEF RollbackPutsBack
    <3>1. goal = UndoOf(Merged(changes, before), before)
        BY <2>1, <2>2 DEF GoalInv
    <3>2. \A s \in DOMAIN goal : goal[s] = before[s]
      <4>1. Merged(changes, before) \in Changes
          BY <2>2, MergedType
      <4> QED
          BY <2>2, <3>1, <4>1, UndoOfType
    <3> QED
        BY <2>3, <3>2
  <2>6. RestoreIsComplete'
    <3> SUFFICES ASSUME told' = "restored"
                 PROVE  \A s \in Verified : (s = Volume => changes[s] # 0) => held'[s] = changes[s]
        BY <2>2 DEF RestoreIsComplete
    <3>1. goal = RestoreOf(changes, before) /\ changes \in Profile /\ ~undoing
        BY <2>1, <2>2 DEF GoalInv
    <3>2. /\ DOMAIN goal = Mapped(before) \cup Mapped(changes) \cup {Locks}
                             \cup {s \in {Name, Volume} : changes[s] # 0}
          /\ \A s \in DOMAIN goal : goal[s] = changes[s]
        BY <2>2, <3>1, RestoreOfType
    <3>3. ASSUME NEW s \in Verified, s = Volume => changes[s] # 0
          PROVE  held'[s] = changes[s]
      <4>1. CASE s \in DOMAIN goal
          BY <2>3, <3>2, <4>1
      <4>2. CASE s \notin DOMAIN goal
        <5>1. s \in Mappable
            BY <3>2, <3>3, <4>2 DEF Verified, Settings, Mappable
        <5>2. before[s] = 0 /\ changes[s] = 0
            BY <3>2, <4>2, <5>1 DEF Mapped, Mappable
        <5> QED
            BY <2>3, <3>1, <4>2, <5>2
      <4> QED
          BY <4>1, <4>2
    <3> QED
        BY <3>3
  <2>7. NamedHeld(held)'
      BY <1>1, <2>1 DEF Sound, NamedHeld
  <2> QED
      BY <2>1, <2>4, <2>5, <2>6, <2>7 DEF Outcomes, PassInv, PassPart, Writing, AtSetting
<1>10. CASE ClearProfile
  <2>1. held' \in {held, Cleared} /\ pc' = "idle" /\ told' \in {"cleared", "clear_failed"}
      BY <1>10 DEF ClearProfile, Sent
  <2>2. NamedHeld(held')
      BY <1>0, <2>1, ClearedType DEF PassInv, PassPart
  <2> QED
      BY <2>1, <2>2 DEF Outcomes, AppliedIsHeld, RollbackPutsBack, RestoreIsComplete, PassInv,
                        PassPart, NamedHeld, Writing, AtSetting
<1> QED
    BY <1>3, <1>4, <1>5, <1>6, <1>7, <1>8, <1>9, <1>10 DEF Step

LEMMA PassInit ==
    ASSUME Init
    PROVE  PassInv /\ Outcomes
<1>1. NamedHeld(held)
    BY ProfilesAssumption DEF Init, NamedHeld, Mappable
<1> QED
    BY <1>1 DEF Init, PassInv, PassPart, Writing, AtSetting, Outcomes, AppliedIsHeld,
                RollbackPutsBack, RestoreIsComplete

LEMMA PassAlways == Spec => [](PassInv /\ Outcomes)
<1>1. ASSUME TypeInv, PassInv, Outcomes, [Next]_vars
      PROVE  PassInv' /\ Outcomes'
  <2>1. CASE Next
      BY <1>1, <2>1, CallsKeep, StepKeeps DEF Next
  <2>2. CASE UNCHANGED vars
    <3>1. PassInv'
        BY <1>1, <2>2 DEF vars, PassInv, PassPart, NamedHeld, WrittenHeld, OthersHeld, GoalInv,
                          NamesInv, Writing, AtSetting, Current
    <3>2. Outcomes'
        BY <1>1, <2>2 DEF vars, Outcomes, AppliedIsHeld, RollbackPutsBack, RestoreIsComplete
    <3> QED
        BY <3>1, <3>2
  <2> QED
      BY <1>1, <2>1, <2>2
<1> QED
    BY <1>1, PassInit, TypeAlways, PTL DEF Spec

\* Whatever commands fail, are ignored or are obeyed without an answer, what a call
\* ends up saying agrees with the keyboard: applied settings hold what was asked for
\* and nothing else moved, a rollback put back everything that is read back, and a
\* restored profile is the backup's.
THEOREM OutcomesAreHeld ==
    Spec => [](AppliedIsHeld /\ RollbackPutsBack /\ RestoreIsComplete)
<1>1. Outcomes => AppliedIsHeld /\ RollbackPutsBack /\ RestoreIsComplete
    BY DEF Outcomes
<1> QED
    BY <1>1, PassAlways, PTL

-----------------------------------------------------------------------------
(* The backup, and the settings nobody asked for.                          *)

LEMMA StepFrame ==
    ASSUME Step
    PROVE  pc # "idle" /\ UNCHANGED callFrame
BY DEF Step, Start, ClearMacro, EnsureProfile, WriteDefaultName, Put, Check, Done, ClearProfile

\* KeyboardApply and KeyboardClearProfile store what the keyboard holds before they
\* change any of it, and no later call takes the backup away.
THEOREM BackupPrecedesChange == Spec => []BackupFirst
<1> DEFINE Stays == /\ op \in {"apply", "clear"} /\ pc # "idle" => before \in backups
                    /\ BackupFirst
<1>1. Init => Stays
    BY DEF Init, BackupFirst
<1>2. ASSUME Stays, [Next]_vars
      PROVE  Stays'
  <2>1. ASSUME NEW asked \in Requests, KeyboardApply(asked)
        PROVE  Stays'
    <3>1. before' = held /\ held' = held
        BY <2>1 DEF KeyboardApply, Call
    <3>2. pc' # "idle" => before' \in backups'
        BY <2>1, <3>1 DEF KeyboardApply, Refused, Kept
    <3> QED
        BY <3>1, <3>2 DEF BackupFirst
  <2>2. ASSUME NEW backup \in backups, RestoreBackup(backup)
        PROVE  Stays'
      BY <2>2 DEF RestoreBackup, Call, BackupFirst
  <2>3. CASE KeyboardClearProfile
    <3>1. before' = held /\ held' = held
        BY <2>3 DEF KeyboardClearProfile, Call
    <3>2. pc' # "idle" => before' \in backups'
        BY <2>3, <3>1 DEF KeyboardClearProfile, Kept
    <3> QED
        BY <3>1, <3>2 DEF BackupFirst
  <2>4. CASE Step
      BY <1>2, <2>4, StepFrame DEF callFrame, BackupFirst
  <2>5. CASE UNCHANGED vars
      BY <1>2, <2>5 DEF vars, BackupFirst
  <2> QED
      BY <1>2, <2>1, <2>2, <2>3, <2>4, <2>5 DEF Next
<1>3. Stays => BackupFirst
    OBVIOUS
<1> QED
    BY <1>1, <1>2, <1>3, PTL DEF Spec

LEMMA StepAside ==
    ASSUME TypeInv, PassInv, Step, op = "apply"
    PROVE  Writing /\ Aside(held')
<1>1. Aside(held)
    BY DEF Aside
<1>2. Writing => GoalInv /\ NamesInv /\ Sound(held)
    BY DEF PassInv, PassPart, Sound
<1>3. CASE Start \/ EnsureProfile \/ Check \/ Done
    BY <1>1, <1>3 DEF Start, EnsureProfile, Check, Done, Writing, AtSetting
<1>4. CASE ClearMacro
  <2>1. AtSetting /\ Writing /\ Current \in Macros
      BY <1>4 DEF ClearMacro, AtSetting, Writing, PassInv
  <2>2. Aside([held EXCEPT ![Current] = 0])
      BY <1>2, <2>1, SettingIsSound, ValuesAssumption, KindsAreSettings DEF Mappable
  <2> QED
      BY <1>1, <1>4, <2>1, <2>2 DEF ClearMacro, Sent
<1>5. CASE WriteDefaultName
  <2>1. AtSetting /\ Writing /\ held[Name] = 0
      BY <1>5 DEF WriteDefaultName, AtSetting, Writing, PassInv
  <2>2. Stored(Name, DefaultName) = NameStored(DefaultName) /\ DefaultName # 0
      BY DEF Stored, DefaultName
  <2>3. Aside(NameStored(DefaultName))
      BY <1>2, <2>1, <2>2, NamingIsSound, ValuesAssumption
  <2> QED
      BY <1>1, <1>5, <2>1, <2>2, <2>3 DEF WriteDefaultName, Sent
<1>6. CASE Put
  <2>1. AtSetting /\ Writing
      BY <1>6 DEF Put, AtSetting, Writing
  <2> QED
      BY <1>1, <1>2, <1>6, <2>1, StoringIsSound DEF Put, Sent
<1>7. ~ClearProfile
    BY DEF ClearProfile, PassInv
<1> QED
    BY <1>3, <1>4, <1>5, <1>6, <1>7 DEF Step

\* A call that does not rename the profile never disturbs, at any moment of it or of
\* its rollback, a setting it was not asked to change.
THEOREM OthersStay == Spec => []OthersUntouched
<1>1. Init => OthersUntouched
    BY DEF Init, OthersUntouched
<1>2. ASSUME TypeInv, PassInv, OthersUntouched, [Next]_vars
      PROVE  OthersUntouched'
  <2>1. ASSUME NEW asked \in Requests, KeyboardApply(asked)
        PROVE  OthersUntouched'
      BY <2>1 DEF KeyboardApply, Call, OthersUntouched
  <2>2. CASE (\E backup \in backups : RestoreBackup(backup)) \/ KeyboardClearProfile
      BY <2>2 DEF RestoreBackup, KeyboardClearProfile, Call, OthersUntouched
  <2>3. CASE Step
    <3> SUFFICES ASSUME op' = "apply", Name \notin DOMAIN changes',
                        NEW s \in Verified \ DOMAIN changes'
                 PROVE  held'[s] = before'[s]
        BY DEF OthersUntouched
    <3>1. op = "apply" /\ changes' = changes /\ before' = before
        BY <2>3, StepFrame DEF callFrame
    <3>2. Writing /\ Aside(held')
        BY <1>2, <2>3, <3>1, StepAside
    <3>3. changes \in Changes /\ before \in Profile
        BY <1>2 DEF TypeInv, TypeOK
    <3>4. DOMAIN Merged(changes, before) = DOMAIN changes
        BY <3>1, <3>3, MergedType
    <3>5. DOMAIN goal \subseteq DOMAIN changes
      <4>1. \/ goal = Merged(changes, before)
            \/ goal = UndoOf(Merged(changes, before), before)
          BY <1>2, <3>1, <3>2 DEF PassInv, PassPart, GoalInv, TypeInv, TypeOK
      <4>2. Merged(changes, before) \in Changes
          BY <3>3, MergedType
      <4>3. DOMAIN UndoOf(Merged(changes, before), before) \subseteq DOMAIN Merged(changes, before)
          BY <3>3, <4>2, UndoOfType
      <4> QED
          BY <3>4, <4>1, <4>3
    <3>6. held'[s] = held[s]
        BY <3>1, <3>2, <3>5 DEF Aside
    <3> QED
        BY <1>2, <3>1, <3>6 DEF OthersUntouched
  <2>4. CASE UNCHANGED vars
      BY <1>2, <2>4 DEF vars, OthersUntouched
  <2> QED
      BY <1>2, <2>1, <2>2, <2>3, <2>4 DEF Next
<1> QED
    BY <1>1, <1>2, PassAlways, TypeAlways, PTL DEF Spec

-----------------------------------------------------------------------------
(* The promise: seen from its caller, a call keeps the profile and then    *)
(* changes it entirely or not at all, or warns (RecoverableWrite).         *)

\* What a call has kept or restores from while it runs.
KeptInv ==
    /\ op \in {"apply", "clear"} /\ pc # "idle" => before \in backups
    /\ op = "restore" => changes \in backups

LEMMA KeptAlways == Spec => []KeptInv
<1>1. Init => KeptInv
    BY DEF Init, KeptInv
<1>2. ASSUME KeptInv, [Next]_vars
      PROVE  KeptInv'
  <2>1. ASSUME NEW asked \in Requests, KeyboardApply(asked)
        PROVE  KeptInv'
    <3>1. before' = held /\ op' = "apply" /\ (pc' # "idle" => held \in backups')
        BY <2>1 DEF KeyboardApply, Call, Refused, Kept
    <3> QED
        BY <3>1 DEF KeptInv
  <2>2. ASSUME NEW backup \in backups, RestoreBackup(backup)
        PROVE  KeptInv'
      BY <2>2 DEF RestoreBackup, Call, KeptInv
  <2>3. CASE KeyboardClearProfile
    <3>1. before' = held /\ op' = "clear" /\ (pc' # "idle" => held \in backups')
        BY <2>3 DEF KeyboardClearProfile, Call, Kept
    <3> QED
        BY <3>1 DEF KeptInv
  <2>4. CASE Step
      BY <1>2, <2>4, StepFrame DEF callFrame, KeptInv
  <2>5. CASE UNCHANGED vars
      BY <1>2, <2>5 DEF vars, KeptInv
  <2> QED
      BY <1>2, <2>1, <2>2, <2>3, <2>4, <2>5 DEF Next
<1> QED
    BY <1>1, <1>2, PTL DEF Spec

-----------------------------------------------------------------------------
(* The mapping.                                                            *)

LEMMA PromisedType == Promised \subseteq Verified /\ Volume \notin Promised
BY DEF Promised, Verified, Settings, Mappings, Macros, Name, Locks, Volume

LEMMA RestrictProfile ==
    ASSUME NEW p \in Profile
    PROVE  Restrict(p) = [s \in Promised |-> p[s]] /\ Restrict(p) \in Promise!Profiles
<1>1. DOMAIN p \cap Promised = Promised
    BY PromisedType DEF Profile, Verified
<1>2. \A s \in Promised : p[s] \in Values
    BY PromisedType DEF Profile, Verified
<1> QED
    BY <1>1, <1>2 DEF Restrict, Promise!Profiles

LEMMA RestrictChanges ==
    ASSUME NEW f \in Changes
    PROVE  /\ \E S \in SUBSET Promised : Restrict(f) \in [S -> Values]
           /\ DOMAIN Restrict(f) = DOMAIN f \cap Promised
           /\ \A s \in DOMAIN Restrict(f) : Restrict(f)[s] = f[s]
<1>1. f \in [DOMAIN f -> Values]
    BY ChangesType
<1>2. Restrict(f) \in [DOMAIN f \cap Promised -> Values]
    BY <1>1 DEF Restrict
<1> QED
    BY <1>2 DEF Restrict

LEMMA InitPromise == Init => Promise!Init
<1> SUFFICES ASSUME Init PROVE Promise!Init
    OBVIOUS
<1>1. held \in Profile
    BY ProfilesAssumption DEF Init
<1>2. profileBar \in Promise!Profiles
    BY <1>1, RestrictProfile DEF Init, profileBar
<1>3. {Restrict(b) : b \in backups} = {}
    BY DEF Init
<1>4. Restrict(changes) \in Promise!Changes
    BY NothingType, RestrictChanges DEF Init, Promise!Changes
<1> QED
    BY <1>2, <1>3, <1>4 DEF Init, Promise!Init

\* A call begins, or is refused at once.
LEMMA CallIsAsked ==
    ASSUME TypeInv, NEW which, Call(which), changes' \in Changes, backups' \in {backups, Kept},
           told' \in {"nothing", "refused"}
    PROVE  Promise!Next
<1>1. profileBar = Restrict(held) /\ profileBar' = Restrict(held)
    BY DEF Call, profileBar
<1>2. Promise!Asked
    BY RestrictChanges DEF Promise!Asked
<1>3. \/ {Restrict(b) : b \in backups}' = {Restrict(b) : b \in backups}
      \/ {Restrict(b) : b \in backups}' = {Restrict(b) : b \in backups} \cup {Restrict(held)}
    BY DEF Kept
<1> QED
    BY <1>1, <1>2, <1>3 DEF Promise!Next, Promise!Ask, Promise!Refuse, Promise!Keep

\* The call goes on: its caller sees nothing.
LEMMA GoingOnIsUnseen ==
    ASSUME PassInv, Step, pc' # "idle"
    PROVE  UNCHANGED Promise!vars
<1>1. pc # "idle" /\ UNCHANGED callFrame
    BY StepFrame
<1>2. told' = told
    BY <1>1 DEF PassInv, PassPart, Step, Start, ClearMacro, EnsureProfile, WriteDefaultName, Put,
                Check, Done, ClearProfile, Onward, Written, Fail, PutBack, GiveUp, Write
<1> QED
    BY <1>1, <1>2 DEF callFrame, profileBar, Promise!vars

\* The call ends.
LEMMA EndIsPromised ==
    ASSUME TypeInv, PassInv, KeptInv, Step, pc' = "idle", TypeInv', Outcomes'
    PROVE  Promise!Next
<1>1. /\ pc # "idle" /\ changes' = changes /\ before' = before /\ backups' = backups /\ op' = op
      /\ changes \in Changes /\ before \in Profile /\ held' \in Profile
      /\ op \in {"none", "apply", "restore", "clear"}
    BY StepFrame DEF callFrame, TypeInv, TypeOK
<1>2. /\ profileBar = Restrict(before) /\ profileBar' = Restrict(held')
      /\ {Restrict(b) : b \in backups}' = {Restrict(b) : b \in backups}
      /\ Restrict(changes)' = Restrict(changes)
    BY <1>1 DEF profileBar
<1>3. profileBar' \in Promise!Profiles
    BY <1>1, <1>2, RestrictProfile
<1>4. op \in {"apply", "clear"} => profileBar \in {Restrict(b) : b \in backups}
    BY <1>1, <1>2 DEF KeptInv
<1>5. \/ told' \in {"applied", "rolled_back"} /\ op = "apply"
      \/ told' = "restored" /\ op = "restore"
      \/ told' = "rollback_failed" /\ op = "apply"
      \/ told' = "restore_failed"
      \/ told' \in {"cleared", "clear_failed"} /\ op = "clear"
  <2>1. Writing => op \in {"apply", "restore"}
      BY DEF PassInv, PassPart, GoalInv
  <2>2. CASE ClearProfile
      BY <2>2 DEF ClearProfile, PassInv
  <2>3. CASE Done
      BY <2>1, <2>3 DEF Done, Writing
  <2>4. CASE GiveUp
      BY <2>4, <2>1, <1>1 DEF GiveUp, PassInv, Step, Start, ClearMacro, EnsureProfile,
            WriteDefaultName, Put, Check, Done, ClearProfile, Writing, AtSetting
  <2>5. ClearProfile \/ Done \/ GiveUp
      BY <1>1 DEF Step, Start, ClearMacro, EnsureProfile, WriteDefaultName, Put, Check, Onward,
            Written, Fail, PutBack, Write
  <2> QED
      BY <2>2, <2>3, <2>4, <2>5
<1>6. CASE told' = "applied"
  <2>1. Restrict(held') = Promise!Overlay(Restrict(before), Restrict(changes))
    <3>1. \A s \in Promised : held'[s] = IF s \in DOMAIN changes THEN changes[s] ELSE before[s]
        BY <1>1, <1>6, PromisedType DEF Outcomes, AppliedIsHeld
    <3>2. /\ Restrict(held') = [s \in Promised |-> held'[s]]
          /\ Restrict(before) = [s \in Promised |-> before[s]]
        BY <1>1, RestrictProfile
    <3>3. /\ DOMAIN Restrict(changes) = DOMAIN changes \cap Promised
          /\ \A s \in DOMAIN Restrict(changes) : Restrict(changes)[s] = changes[s]
        BY <1>1, RestrictChanges
    <3> QED
        BY <3>1, <3>2, <3>3 DEF Promise!Overlay
  <2> QED
      BY <1>2, <1>4, <1>5, <1>6, <2>1 DEF Promise!Next, Promise!Apply
<1>7. CASE told' = "rolled_back"
  <2>1. \A s \in Promised : held'[s] = before[s]
      BY <1>1, <1>7, PromisedType DEF Outcomes, RollbackPutsBack
  <2>2. Restrict(held') = Restrict(before)
      BY <1>1, <2>1, RestrictProfile
  <2> QED
      BY <1>2, <1>4, <1>5, <1>7, <2>2 DEF Promise!Next, Promise!RollBack
<1>8. CASE told' = "restored"
  <2>1. changes \in backups /\ changes \in Profile
      BY <1>5, <1>8 DEF KeptInv, TypeInv, TypeOK
  <2>2. \A s \in Promised : held'[s] = changes[s]
      BY <1>1, <1>8, PromisedType DEF Outcomes, RestoreIsComplete
  <2>3. Restrict(held') = Restrict(changes)
      BY <1>1, <2>1, <2>2, RestrictProfile
  <2>4. profileBar' \in {Restrict(b) : b \in backups}
      BY <1>2, <2>1, <2>3
  <2> QED
      BY <1>2, <1>8, <2>4 DEF Promise!Next, Promise!Restore
<1>9. CASE told' \in {"rollback_failed", "restore_failed", "cleared", "clear_failed"}
    BY <1>2, <1>3, <1>4, <1>5, <1>9 DEF Promise!Next, Promise!Warn
<1> QED
    BY <1>5, <1>6, <1>7, <1>8, <1>9

\* KeyboardApply, RestoreBackup and KeyboardClearProfile, for any keys, values and
\* requests and with commands failing anywhere, look to their caller like one step:
\* the profile is stored as a backup and then changed entirely or not at all, or the
\* caller is warned and has the backup.
THEOREM KeyboardKeepsPromise == Spec => ImplementsPromise
<1>1. ASSUME TypeInv, PassInv, KeptInv, TypeInv', Outcomes', [Next]_vars
      PROVE  [Promise!Next]_(Promise!vars)
  <2>0. held \in Profile /\ backups \subseteq Profile
      BY <1>1 DEF TypeInv, TypeOK
  <2>1. ASSUME NEW asked \in Requests, KeyboardApply(asked)
        PROVE  Promise!Next
    <3>1. changes' \in Changes
        BY <2>1, RequestsAssumption DEF KeyboardApply
    <3> QED
        BY <1>1, <2>1, <3>1, CallIsAsked DEF KeyboardApply, Refused, Write
  <2>2. ASSUME NEW backup \in backups, RestoreBackup(backup)
        PROVE  Promise!Next
    <3>1. changes' \in Changes
        BY <2>0, <2>2, ProfileIsChanges DEF RestoreBackup
    <3> QED
        BY <1>1, <2>2, <3>1, CallIsAsked DEF RestoreBackup, Refused, Write
  <2>3. CASE KeyboardClearProfile
    <3>1. changes' \in Changes
        BY <1>1, <2>3 DEF KeyboardClearProfile, TypeInv, TypeOK
    <3> QED
        BY <1>1, <2>3, <3>1, CallIsAsked DEF KeyboardClearProfile
  <2>4. CASE Step
      BY <1>1, <2>4, GoingOnIsUnseen, EndIsPromised
  <2>5. CASE UNCHANGED vars
      BY <2>5 DEF vars, profileBar, Promise!vars
  <2> QED
      BY <1>1, <2>1, <2>2, <2>3, <2>4, <2>5 DEF Next
<1>2. Promise!Init /\ [][Promise!Next]_(Promise!vars) => ImplementsPromise
    BY DEF ImplementsPromise, Promise!Spec
<1> QED
    BY <1>1, <1>2, InitPromise, TypeAlways, PassAlways, KeptAlways, PTL DEF Spec
=============================================================================
