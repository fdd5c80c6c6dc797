--------------------------- MODULE MouseWriteProofs ---------------------------
(***************************************************************************)
(* What holds of the writes to a mouse, for any buttons, stages, values,   *)
(* edits and number of calls.                                              *)
(***************************************************************************)
EXTENDS MouseWrite, WellFoundedInduction, TLAPS

-----------------------------------------------------------------------------
(* Parts and their order.                                                  *)

Singles == {Flag, Name, Setting, X, Y, Stage}

LEMMA Kinds ==
    /\ Parts = Singles \cup Assignments \cup Macros
    /\ \A x \in Singles : x[2] = 0
    /\ Flag[1] = "flag" /\ Name[1] = "name" /\ Setting[1] = "setting"
    /\ X[1] = "x" /\ Y[1] = "y" /\ Stage[1] = "stage"
    /\ \A x \in Assignments : x[1] = "button" /\ x[2] \in Buttons /\ x = Assigned(x[2])
    /\ \A x \in Macros : x[1] = "macro" /\ x[2] \in Buttons /\ x = Macro(x[2])
    /\ \A b \in Buttons : /\ Assigned(b) \in Assignments /\ Macro(b) \in Macros
                          /\ Assigned(b)[2] = b /\ Macro(b)[2] = b
<1>1. ASSUME NEW x \in Assignments
      PROVE  x[1] = "button" /\ x[2] \in Buttons /\ x = Assigned(x[2])
  <2>1. PICK b \in Buttons : x = <<"button", b>>
    BY DEF Assignments, Assigned
  <2> QED
    BY <2>1 DEF Assigned
<1>2. ASSUME NEW x \in Macros
      PROVE  x[1] = "macro" /\ x[2] \in Buttons /\ x = Macro(x[2])
  <2>1. PICK b \in Buttons : x = <<"macro", b>>
    BY DEF Macros, Macro
  <2> QED
    BY <2>1 DEF Macro
<1>3. \A b \in Buttons : /\ Assigned(b) \in Assignments /\ Macro(b) \in Macros
                         /\ Assigned(b)[2] = b /\ Macro(b)[2] = b
    BY DEF Assignments, Assigned, Macros, Macro
<1>4. /\ Flag[1] = "flag" /\ Name[1] = "name" /\ Setting[1] = "setting"
      /\ X[1] = "x" /\ Y[1] = "y" /\ Stage[1] = "stage"
      /\ \A x \in Singles : x[2] = 0
    BY DEF Singles, Flag, Name, Setting, X, Y, Stage
<1> QED
    BY <1>1, <1>2, <1>3, <1>4 DEF Parts, Singles

\* The kinds are apart.
LEMMA Apart ==
    /\ Singles \cap (Assignments \cup Macros) = {}
    /\ Assignments \cap Macros = {}
    /\ Flag \notin {Name, Setting, X, Y, Stage} /\ Name \notin {Setting, X, Y, Stage}
    /\ Setting \notin {X, Y, Stage} /\ X \notin {Y, Stage} /\ Y # Stage
    /\ Singles \subseteq Parts /\ Assignments \subseteq Parts /\ Macros \subseteq Parts
    /\ \A b \in Buttons : Assigned(b) \in Parts /\ Macro(b) \in Parts
<1>1. \A x \in Singles : x[1] \notin {"button", "macro"}
    BY Kinds DEF Singles
<1> QED
    BY <1>1, Kinds

LEMMA Ranks ==
    /\ Rank(Flag) = 0 /\ Rank(Name) = 1
    /\ Rank(Stage) = IF record THEN 2 ELSE 6
    /\ Rank(X) = IF record THEN 3 ELSE 4
    /\ Rank(Setting) = IF record THEN 4 ELSE 2
    /\ \A x \in Assignments : Rank(x) = IF record THEN 5 ELSE 3
    /\ Rank(Y) = 5
    /\ \A x \in Macros : Rank(x) = 7
<1>1. \A x \in Assignments : x \notin Singles /\ x \notin Macros
    BY Apart
<1>2. \A x \in Macros : x \notin Singles /\ x \notin Assignments
    BY Apart
<1>3. \A x \in Singles : x \notin Macros /\ x \notin Assignments
    BY Apart
<1>4. \A x \in Assignments : Rank(x) = IF record THEN 5 ELSE 3
    BY <1>1 DEF Rank, Singles
<1>5. \A x \in Macros : Rank(x) = 7
    BY <1>2 DEF Rank, Singles
<1>6. /\ Rank(Flag) = 0 /\ Rank(Name) = 1
      /\ Rank(Stage) = IF record THEN 2 ELSE 6
      /\ Rank(X) = IF record THEN 3 ELSE 4
      /\ Rank(Setting) = IF record THEN 4 ELSE 2
      /\ Rank(Y) = 5
    BY <1>3, Apart DEF Rank, Singles
<1> QED
    BY <1>4, <1>5, <1>6

Less == OpToRel(<, Nat)

LEMMA Smallest ==
    ASSUME NEW T, T \subseteq Nat, T # {}
    PROVE  \E x \in T : \A y \in T : x <= y
<1>1. IsWellFoundedOn(Less, Nat)
    BY NatLessThanWellFounded DEF Less
<1>2. PICK x \in T : \A y \in T : <<y, x>> \notin Less
    BY <1>1, WFMin
<1>3. \A m, n \in Nat : m < n => <<m, n>> \in Less
    BY DEF OpToRel, Less
<1>4. \A y \in T : ~(y < x)
    BY <1>2, <1>3
<1> QED
    BY <1>4

\* The part that is written next is one of those that are left, and comes
\* before the others.
LEMMA CurrentIsFirst ==
    TypeOK /\ todo # {} =>
        Current \in todo /\ \A y \in todo \ {Current} : Precedes(Current, y)
<1> SUFFICES ASSUME TypeOK, todo # {}
             PROVE  Current \in todo /\ \A y \in todo \ {Current} : Precedes(Current, y)
    OBVIOUS
<1>1. todo \subseteq Parts /\ (record => Y \notin todo)
    BY DEF TypeOK
<1>2. \A x \in Parts : Rank(x) \in Nat /\ x[2] \in Nat
  <2>1. \A x \in Assignments \cup Macros : Rank(x) \in Nat
    BY Ranks
  <2>2. \A x \in Singles : Rank(x) \in Nat
    BY Ranks DEF Singles
  <2>3. \A x \in Assignments \cup Macros : x[2] \in Nat
    BY Kinds, ValuesAssumption
  <2>4. \A x \in Singles : x[2] \in Nat
    BY Kinds
  <2> QED
    BY <2>1, <2>2, <2>3, <2>4, Kinds
<1>3. \A x, y \in todo : Rank(x) = Rank(y) /\ x[2] = y[2] => x = y
  <2>1. SUFFICES ASSUME NEW x \in todo, NEW y \in todo, Rank(x) = Rank(y), x[2] = y[2]
                 PROVE  x = y
      OBVIOUS
  <2>2. CASE x \in Assignments /\ y \in Assignments
    BY <2>1, <2>2, Kinds
  <2>3. CASE x \in Macros /\ y \in Macros
    BY <2>1, <2>3, Kinds
  <2>4. CASE x \in Singles /\ y \in Singles
    BY <1>1, <2>1, <2>4, Ranks DEF Singles
  <2>5. \A u \in todo, v \in Assignments : Rank(u) = Rank(v) => u \notin Singles \cup Macros
    BY <1>1, Ranks DEF Singles
  <2>6. \A u \in todo, v \in Macros : Rank(u) = Rank(v) => u \notin Singles \cup Assignments
    BY <1>1, Ranks DEF Singles
  <2>7. x \in Singles \cup Assignments \cup Macros /\ y \in Singles \cup Assignments \cup Macros
    BY <1>1, Kinds
  <2> QED
    BY <2>1, <2>2, <2>3, <2>4, <2>5, <2>6, <2>7
<1> DEFINE ranks == {Rank(x) : x \in todo}
<1>4. PICK a \in ranks : \A b \in ranks : a <= b
  <2>1. ranks \subseteq Nat /\ ranks # {}
    BY <1>1, <1>2
  <2> QED
    BY <2>1, Smallest
<1> DEFINE ids == {x[2] : x \in {y \in todo : Rank(y) = a}}
<1>5. PICK i \in ids : \A j \in ids : i <= j
  <2>1. ids \subseteq Nat /\ ids # {}
    BY <1>1, <1>2, <1>4
  <2> QED
    BY <2>1, Smallest
<1>6. PICK x \in todo : Rank(x) = a /\ x[2] = i
    BY <1>5
<1>7. ASSUME NEW y \in todo \ {x}
      PROVE  Precedes(x, y)
  <2>1. Rank(y) \in ranks /\ a <= Rank(y) /\ a \in Nat /\ Rank(y) \in Nat
    BY <1>1, <1>2, <1>4, <1>6
  <2>2. CASE Rank(y) = a
    <3>1. y[2] \in ids /\ i <= y[2] /\ i \in Nat /\ y[2] \in Nat
      BY <1>1, <1>2, <1>5, <1>6, <2>2
    <3>2. y[2] # i
      BY <1>3, <1>6, <1>7, <2>2
    <3> QED
      BY <1>6, <2>2, <3>1, <3>2 DEF Precedes
  <2> QED
    BY <1>6, <2>1, <2>2 DEF Precedes
<1> QED
    BY <1>7 DEF Current

\* Once it is the stage's turn the table of stages has been written.
LEMMA TableBeforeStage ==
    ASSUME TypeOK, ~record, todo # {}, Current = Stage
    PROVE  X \notin todo
<1>1. X # Stage /\ Stage \in Parts /\ X \in Parts
    BY Apart DEF Singles
<1>2. X \in todo => Precedes(Stage, X)
    BY <1>1, CurrentIsFirst
<1>3. Rank(Stage) = 6 /\ Rank(X) = 4
    BY Ranks
<1> QED
    BY <1>2, <1>3 DEF Precedes

-----------------------------------------------------------------------------
(* What a read shows.                                                      *)

\* A profile as it is read.
Fitting(p) == IF record THEN \A x \in {Y} \cup Macros : p[x] = 0 ELSE p[Flag] = 0
Whole(p) == Fitting(p) /\ Read(p) = p
LEMMA ReadOf ==
    ASSUME NEW p \in Profile
    PROVE  /\ Read(p) \in Profile /\ Shown(p) \in Profile
           /\ Read(Read(p)) = Read(p) /\ (InUse(Read(p)) <=> InUse(p))
           /\ Fitting(p) => Whole(Read(p)) /\ Fitting(Shown(p))
           /\ ~record => Shown(p) = Read(p)
           /\ ~record /\ ~InUse(p) => Read(p) = Defaults
           /\ ~record /\ InUse(p) => /\ \A x \in Parts \ Macros : Read(p)[x] = p[x]
                                     /\ \A x \in Macros : Read(p)[x] = IF p[Assigned(x[2])] = Plays
                                                                     THEN p[x] ELSE 0
<1>1. Defaults \in Profile /\ \A x \in {Flag, Name, Y} \cup Macros : Defaults[x] = 0
    BY ProfilesAssumption
<1>2. /\ Flag \in Parts /\ Name \in Parts /\ Flag \notin Macros /\ Name \notin Macros
      /\ Macros \subseteq Parts
      /\ \A x \in Macros : Assigned(x[2]) \in Parts /\ Assigned(x[2]) \notin Macros
    BY Apart, Kinds DEF Singles
<1>3. /\ OnlyPlayed(p) \in Profile
      /\ \A x \in Parts \ Macros : OnlyPlayed(p)[x] = p[x]
      /\ \A x \in Macros : OnlyPlayed(p)[x] = IF p[Assigned(x[2])] = Plays THEN p[x] ELSE 0
    BY <1>2, ValuesAssumption DEF OnlyPlayed, Profile
<1>4. OnlyPlayed(OnlyPlayed(p)) = OnlyPlayed(p)
    BY <1>2, <1>3 DEF OnlyPlayed, Profile
<1>5. Read(p) \in Profile /\ Shown(p) \in Profile
    BY <1>1, <1>3 DEF Read, Shown
<1>6. InUse(Read(p)) <=> InUse(p)
    BY <1>1, <1>2, <1>3 DEF InUse, Read
<1>7. Read(Read(p)) = Read(p)
    BY <1>1, <1>2, <1>3, <1>4, <1>6 DEF Read
<1>8. ~record => Shown(p) = Read(p)
    BY DEF Shown, Read
<1>9. Fitting(p) => Fitting(Read(p)) /\ Fitting(Shown(p))
    BY <1>1, <1>2, <1>3, <1>8 DEF Fitting, Read, Shown
<1> QED
    BY <1>3, <1>5, <1>6, <1>7, <1>8, <1>9 DEF Read, Whole

-----------------------------------------------------------------------------
(* The inductive invariant.                                                *)

FormInv == Fitting(held) /\ Whole(before) /\ \A b \in backups : Whole(b)

Active == pc # "idle"
Clearing == pc \in {"clear", "check_clear"}

\* What this pass has sent, or may have.
Behind ==
    IF record \/ undoing THEN parts
    ELSE parts \ (IF pc = "check" THEN todo \ {Current} ELSE todo)

\* The macros a read does not show, or that no button played.
Unread(x) ==
    /\ ~record /\ x \in Macros
    /\ before[Assigned(x[2])] # Plays \/ (undoing /\ before[x] = 0)

OthersHeld(h) ==
    ~Clearing /\ (record \/ InUse(before)) =>
        \A x \in Parts \ Behind : h[x] = before[x] \/ Unread(x)

GoalHeld(h) == ~record => \A x \in parts \ todo : h[x] = goal[x]

\* What a call writes.
WhatInv ==
    /\ told = "nothing"
    /\ op \in {"apply", "restore"}
    /\ op = "apply" =>
         /\ before \in backups
         /\ Fitting(asked)
         /\ ~undoing => /\ ~Clearing /\ goal = asked
                        /\ parts # {} /\ parts = PartsToApply(asked, before)
                        /\ ~record => Valid(asked, before)
         /\ undoing => /\ Clearing <=> ~record /\ ~InUse(before)
                       /\ goal = IF Clearing THEN Defaults ELSE before
    /\ op = "restore" =>
         /\ ~undoing
         /\ Whole(asked)
         /\ Clearing => ~InUse(asked)
         /\ ~Clearing => /\ goal = asked
                         /\ record => parts = Differing(asked, before, RecordParts)
                         /\ ~record => /\ InUse(asked)
                                       /\ parts = RetroParts(asked, before, ~InUse(before))

PlaceInv ==
    /\ Clearing => ~record /\ parts = {}
    /\ record /\ pc = "write" /\ todo = {} => parts = {}
    /\ pc = "check" => (record <=> todo = {})

\* The stage in use and its DPI are those found, or have been sent and taken.
StageFound ==
    /\ held[Stage] = before[Stage]
    /\ before[Stage] \in EnabledIn[before[X]]
    /\ stageDpi = DpiIn[before[X]][before[Stage]]

StageInv ==
    ~Clearing /\ ~record /\ fitted /\ ~missed /\ InUse(before) =>
        IF Stage \notin Behind THEN StageFound
        ELSE (Stage \in todo => pc = "check" /\ Current = Stage) => Fits /\ X \notin todo

ActiveInv ==
    Active => WhatInv /\ OthersHeld(held) /\ GoalHeld(held) /\ PlaceInv /\ StageInv

Outcomes == AppliedIsHeld /\ RollbackPutsBack /\ RestoreIsComplete /\ StageFollows

IInv == TypeOK /\ FormInv /\ ActiveInv /\ Outcomes /\ BackupFirst

-----------------------------------------------------------------------------
(* What a pass that went through has established.                          *)

Settings == {Name, Setting, X, Y} \cup Assignments

LEMMA RetroPartsOf ==
    ASSUME NEW want, NEW have, NEW all \in BOOLEAN
    PROVE  /\ RetroParts(want, have, all) \subseteq Parts \ {Flag}
           /\ \A x \in Settings : x \in RetroParts(want, have, all) <=> all \/ want[x] # have[x]
           /\ Stage \in RetroParts(want, have, all) <=> StageSent(want, have)
           /\ \A x \in Macros :
                x \in RetroParts(want, have, all) <=>
                   /\ want[Assigned(x[2])] = Plays
                   /\ want[x] # 0
                   /\ all \/ have[Assigned(x[2])] # Plays \/ want[x] # have[x]
<1>1. /\ Settings \cap Macros = {} /\ Stage \notin Settings /\ Stage \notin Macros
      /\ Settings \subseteq Parts \ {Flag} /\ Macros \subseteq Parts \ {Flag} /\ Stage \in Parts \ {Flag}
    BY Apart DEF Settings, Singles
<1> QED
    BY <1>1 DEF RetroParts, Settings, Differing

\* The settings, the stage in use and the macros of a Retro R8.
LEMMA RetroHeld ==
    ASSUME NEW h \in Profile, NEW p \in Profile, NEW want \in Profile,
           ~record, Fitting(h), Fitting(want), InUse(want),
           NEW S, S = RetroParts(want, p, ~InUse(p)),
           \A x \in S : h[x] = want[x],
           InUse(p) => \A x \in Parts \ S :
                           h[x] = p[x] \/ (x \in Macros /\ p[Assigned(x[2])] # Plays)
    PROVE  /\ InUse(h)
           /\ \A x \in Parts :
                (x = Stage => InUse(p) /\ (want[Stage] \in Stages \/ want[Stage] = p[Stage]))
                    => NoMacro(want, x) \/ Read(h)[x] = Read(want)[x]
<1> DEFINE all == ~InUse(p)
<1>1. all \in BOOLEAN /\ S = RetroParts(want, p, all) /\ (all <=> ~InUse(p))
  <2>1. (p[Name] # 0) \in BOOLEAN /\ (~(p[Name] # 0)) \in BOOLEAN
    OBVIOUS
  <2>2. InUse(p) = (p[Name] # 0)
    BY DEF InUse
  <2> QED
    BY <2>1, <2>2
<1> HIDE DEF all
<1>2. /\ \A x \in Settings : x \in S <=> ~InUse(p) \/ want[x] # p[x]
      /\ Stage \in S <=> StageSent(want, p)
      /\ \A x \in Macros :
           x \in S <=> /\ want[Assigned(x[2])] = Plays
                       /\ want[x] # 0
                       /\ ~InUse(p) \/ p[Assigned(x[2])] # Plays \/ want[x] # p[x]
    BY <1>1, RetroPartsOf
<1>3. /\ Settings \subseteq Parts /\ Settings \cap Macros = {} /\ Stage \in Parts /\ Stage \notin Macros
      /\ Assignments \subseteq Settings /\ Name \in Settings /\ Macros \subseteq Parts
      /\ Parts = Settings \cup {Flag, Stage} \cup Macros /\ Flag \notin Macros
    BY Apart, Kinds DEF Settings, Singles
<1>4. \A x \in Settings : h[x] = want[x]
    BY <1>2, <1>3
<1>5. InUse(h)
    BY <1>3, <1>4 DEF InUse
<1>6. h[Flag] = want[Flag]
    BY DEF Fitting
<1>7. InUse(p) /\ (want[Stage] \in Stages \/ want[Stage] = p[Stage]) => h[Stage] = want[Stage]
    BY <1>2, <1>3, Apart DEF StageSent, Differing, Singles
<1>8. ASSUME NEW x \in Macros, want[Assigned(x[2])] = Plays, ~NoMacro(want, x)
      PROVE  h[x] = want[x]
  <2>1. want[x] # 0
    BY <1>8 DEF NoMacro
  <2> QED
    BY <1>2, <1>3, <1>8, <2>1
<1>9. \A x \in Macros : Assigned(x[2]) \in Settings
    BY <1>3, Kinds
<1>10. ASSUME NEW x \in Macros, ~NoMacro(want, x)
       PROVE  Read(h)[x] = Read(want)[x]
  <2>1. h[Assigned(x[2])] = want[Assigned(x[2])]
    BY <1>4, <1>9
  <2> QED
    BY <1>5, <1>8, <1>10, <2>1, ReadOf
<1>11. \A x \in Settings \cup {Flag, Stage} : Read(h)[x] = h[x] /\ Read(want)[x] = want[x]
    BY <1>3, <1>5, ReadOf
<1> QED
    BY <1>3, <1>4, <1>5, <1>6, <1>7, <1>10, <1>11

\* The profile before, written back.
LEMMA RetroBack ==
    ASSUME NEW h \in Profile, NEW p \in Profile, ~record, Whole(p), InUse(p),
           \A x \in Parts : \/ h[x] = p[x]
                            \/ x \in Macros /\ (p[Assigned(x[2])] # Plays \/ p[x] = 0)
    PROVE  \A x \in Parts : NoMacro(p, x) \/ Read(h)[x] = p[x]
<1>1. /\ Name \in Parts /\ Name \notin Macros /\ Macros \subseteq Parts
      /\ Assignments \subseteq Parts /\ Assignments \cap Macros = {}
    BY Apart DEF Singles
<1>2. \A x \in Parts \ Macros : h[x] = p[x]
    OBVIOUS
<1>3. InUse(h)
    BY <1>1, <1>2 DEF InUse
<1>4. \A x \in Parts \ Macros : Read(h)[x] = Read(p)[x]
    BY <1>2, <1>3, ReadOf
<1>5. ASSUME NEW x \in Macros, ~NoMacro(p, x)
      PROVE  Read(h)[x] = Read(p)[x]
  <2>1. Assigned(x[2]) \in Parts \ Macros
    BY <1>1, Kinds
  <2>2. h[Assigned(x[2])] = p[Assigned(x[2])]
    BY <1>2, <2>1
  <2>3. p[Assigned(x[2])] = Plays => p[x] # 0
    BY <1>5 DEF NoMacro
  <2>4. p[Assigned(x[2])] = Plays => h[x] = p[x]
    BY <1>1, <2>3
  <2> QED
    BY <1>3, <2>2, <2>4, ReadOf
<1> QED
    BY <1>4, <1>5 DEF Whole

\* The record of a Riviera mouse.
LEMMA RecordHeld ==
    ASSUME NEW h \in Profile, NEW p \in Profile, NEW want \in Profile,
           record, Fitting(h), Fitting(want),
           NEW S, \A x \in S : h[x] = want[x], \A x \in Parts \ S : h[x] = p[x],
           \/ S = Differing(want, p, RecordParts)
           \/ S = PartsToApply(want, p) /\ S # {}
    PROVE  h = want
<1>1. \A x \in RecordParts : h[x] = want[x]
  <2>1. RecordParts \subseteq Parts
    BY DEF RecordParts
  <2>2. CASE S = Differing(want, p, RecordParts)
    BY <2>1, <2>2 DEF Differing
  <2>3. CASE S = PartsToApply(want, p) /\ S # {} /\ ~InUse(p)
    <3>1. S = RecordParts
      BY <2>3 DEF PartsToApply
    <3> QED
      BY <3>1
  <2>4. CASE S = PartsToApply(want, p) /\ InUse(p)
    <3>1. S = Differing(want, p, RecordParts)
      BY <2>4 DEF PartsToApply, Shown, Read
    <3> QED
      BY <2>1, <3>1 DEF Differing
  <2> QED
    BY <2>2, <2>3, <2>4
<1>2. \A x \in {Y} \cup Macros : h[x] = want[x]
    BY DEF Fitting
<1>3. \A x \in Parts : h[x] = want[x]
    BY <1>1, <1>2 DEF RecordParts
<1> QED
    BY <1>3 DEF Profile

\* What of the edit no command sent was there already.
LEMMA EditedParts ==
    ASSUME ~record, NEW want, NEW p, PartsToApply(want, p) # {}
    PROVE  PartsToApply(want, p) = RetroParts(want, p, ~InUse(p))
<1>1. CASE InUse(p)
    BY <1>1 DEF PartsToApply, InUse
<1>2. CASE ~InUse(p)
    BY <1>2 DEF PartsToApply, InUse
<1> QED
    BY <1>1, <1>2

\* The stage in use follows its table: what was found fitted still does, or the
\* stage has been sent since.
LEMMA StageFits ==
    ASSUME TypeOK, FormInv, WhatInv, OthersHeld(held), GoalHeld(held), StageInv,
           pc = "write", todo = {}, ~record, fitted, ~missed, InUse(before),
           op = "restore" => asked[Stage] \in Stages
    PROVE  Fits
<1>1. Behind = parts /\ ~Clearing
    BY DEF Behind, Clearing
<1>2. CASE Stage \in parts
    BY <1>1, <1>2 DEF StageInv
<1>3. CASE Stage \notin parts
  <2>1. StageFound
    BY <1>1, <1>3 DEF StageInv
  <2>2. X \in Parts /\ X \notin Macros /\ X # Stage
    BY Apart DEF Singles
  <2>3. held[X] = IF X \in parts THEN goal[X] ELSE before[X]
    BY <1>1, <2>2 DEF GoalHeld, OthersHeld, Unread
  <2>4. CASE undoing
    BY <1>1, <2>1, <2>3, <2>4 DEF WhatInv, StageFound, Fits
  <2>5. CASE ~undoing
    <3>1. parts = RetroParts(asked, before, FALSE) /\ goal = asked
      BY <1>1, <2>5, EditedParts DEF WhatInv, InUse
    <3>2. ~StageSent(asked, before)
      BY <1>3, <3>1, RetroPartsOf
    <3>3. before[X] \in Values
      BY <2>2 DEF TypeOK, Profile
    <3>4. before[Stage] \in Stages
      BY <2>1, <3>3, ValuesAssumption DEF StageFound
    <3>5. asked[Stage] \in Stages
      <4>1. CASE op = "apply"
        BY <2>5, <3>4, <4>1 DEF WhatInv, Valid
      <4>2. CASE op = "restore"
        BY <4>2
      <4> QED
        BY <4>1, <4>2 DEF WhatInv
    <3>6. /\ asked[Stage] = before[Stage]
          /\ EnabledIn[asked[X]] = EnabledIn[before[X]]
          /\ DpiIn[asked[X]][asked[Stage]] = DpiIn[before[X]][asked[Stage]]
      BY <3>2, <3>5 DEF StageSent, Differing
    <3> QED
      BY <2>1, <2>3, <3>1, <3>6 DEF StageFound, Fits
  <2> QED
    BY <2>4, <2>5
<1> QED
    BY <1>2, <1>3

-----------------------------------------------------------------------------
(* Every step keeps the invariant.                                         *)

LEMMA Started == Init => IInv
<1> SUFFICES ASSUME Init PROVE IInv
    OBVIOUS
<1>1. held \in Profile /\ 0 \in 0..MaxCalls /\ record \in BOOLEAN /\ Fitting(held)
    BY ProfilesAssumption, CallsAssumption DEF Init, Fitting
<1>2. Read(held) \in Profile /\ Whole(Read(held))
    BY <1>1, ReadOf
<1>3. stageDpi \in Nat
  <2>1. held[X] \in Values /\ held[Stage] \in Values
    BY <1>1, Apart DEF Profile, Singles
  <2> QED
    BY <2>1, ValuesAssumption DEF Init
<1>4. fitted \in BOOLEAN
    BY DEF Init, Fits
<1>5. TypeOK
    BY <1>1, <1>2, <1>3, <1>4 DEF Init, TypeOK
<1>6. FormInv
    BY <1>1, <1>2 DEF Init, FormInv
<1> QED
    BY <1>5, <1>6 DEF Init, IInv, ActiveInv, Active, Outcomes, AppliedIsHeld, RollbackPutsBack,
        RestoreIsComplete, StageFollows, BackupFirst

LEMMA FormKept ==
    ASSUME FormInv, record' = record, before' = before, backups' = backups, Fitting(held)'
    PROVE  FormInv'
    BY DEF FormInv, Whole, Fitting, Read, InUse, OnlyPlayed

\* What the outcomes say is not at stake before a pass has ended well.
LEMMA NoOutcome ==
    ASSUME told' \in {"nothing", "refused", "rollback_failed", "restore_failed"}
    PROVE  Outcomes'
    BY DEF Outcomes, AppliedIsHeld, RollbackPutsBack, RestoreIsComplete, StageFollows

\* What this pass is to put back should the command at hand fail.
Scope == IF record THEN parts ELSE parts \ (todo \ {Current})

LEMMA Failing ==
    ASSUME IInv, Active, Fail, held' \in Profile, stageDpi' \in Nat, missed' = missed,
           Fitting(held)',
           ~Clearing => \A x \in Parts \ Scope : held'[x] = held[x],
           ~Clearing => stageDpi' = stageDpi \/ Stage \in Scope
    PROVE  IInv'
<1>1. TypeOK /\ FormInv /\ WhatInv /\ OthersHeld(held) /\ StageInv /\ BackupFirst
    BY DEF IInv, ActiveInv
<1>2. UNCHANGED <<record, backups, op, before, fitted, asked, calls>>
    BY DEF Fail, callFrame
<1>3. FormInv'
    BY <1>1, <1>2, FormKept
<1>4. BackupFirst'
    BY <1>1, <1>2 DEF BackupFirst, WhatInv
<1>5. /\ Stage \in Parts /\ Stage \notin Macros /\ parts \subseteq Parts
      /\ Defaults \in Profile
    BY <1>1, Apart, ProfilesAssumption DEF Singles, TypeOK
<1>6. CASE PutBack /\ Write(before, UndoParts) /\ (record \/ InUse(before))
  <2>1. /\ op = "apply" /\ ~undoing /\ undoing' = TRUE
        /\ goal' = before /\ parts' = UndoParts /\ todo' = UndoParts /\ pc' = "write"
        /\ told' = "nothing"
    BY <1>6 DEF PutBack, FirstFailure, Write
  <2>2. ~Clearing /\ ~Clearing'
    BY <1>1, <2>1 DEF WhatInv, Clearing
  <2>3. UndoParts = {x \in Scope : ~record => (x \in Macros => before[x] # 0)}
    BY DEF UndoParts, Scope
  <2>4. Scope \subseteq parts
    BY DEF Scope
  <2>5. TypeOK'
    BY <1>1, <1>2, <2>1, <2>3, <2>4 DEF TypeOK
  <2>6. WhatInv'
    <3>1. ~(~record /\ ~InUse(before))'
      BY <1>2, <1>6 DEF InUse
    <3>2. Fitting(asked)'
      BY <1>1, <1>2, <2>1 DEF WhatInv, Fitting
    <3> QED
      BY <1>1, <1>2, <2>1, <2>2, <3>1, <3>2 DEF WhatInv
  <2>7. Behind' = parts'
    BY <2>1 DEF Behind
  <2>8. \A x \in Parts \ Scope : x \notin Behind
    BY <2>1 DEF Scope, Behind
  <2>9. OthersHeld(held)'
    <3>1. ASSUME NEW x \in Parts \ UndoParts
          PROVE  held'[x] = before[x] \/ Unread(x)'
      <4>1. CASE x \notin Scope
        <5>1. held'[x] = held[x]
          BY <2>2, <3>1, <4>1
        <5>2. held[x] = before[x] \/ Unread(x)
          BY <1>1, <1>6, <2>2, <2>8, <3>1, <4>1 DEF OthersHeld
        <5> QED
          BY <1>2, <2>1, <5>1, <5>2 DEF Unread
      <4>2. CASE x \in Scope
        BY <1>2, <2>1, <2>3, <3>1, <4>2 DEF Unread
      <4> QED
        BY <4>1, <4>2
    <3> QED
      BY <1>2, <2>1, <2>7, <3>1 DEF OthersHeld
  <2>10. GoalHeld(held)' /\ PlaceInv'
    BY <2>1, <2>2 DEF GoalHeld, PlaceInv
  <2>11. StageInv'
    <3>1. Stage \notin UndoParts => Stage \notin Scope
      BY <1>5, <2>3
    <3>2. ASSUME Stage \notin UndoParts, ~record, fitted, ~missed, InUse(before)
          PROVE  StageFound'
      <4>1. StageFound
        BY <1>1, <1>5, <2>2, <2>8, <3>1, <3>2 DEF StageInv
      <4> QED
        BY <1>2, <1>5, <2>2, <3>1, <3>2, <4>1 DEF StageFound
    <3>3. InUse(before)' <=> InUse(before)
      BY <1>2 DEF InUse
    <3> QED
      BY <1>2, <2>1, <2>7, <3>2, <3>3 DEF StageInv
  <2>12. Outcomes'
    BY <2>1, NoOutcome
  <2> QED
    BY <1>3, <1>4, <2>1, <2>5, <2>6, <2>9, <2>10, <2>11, <2>12 DEF IInv, ActiveInv
<1>7. CASE PutBack /\ Clear /\ ~record /\ ~InUse(before)
  <2>1. /\ op = "apply" /\ undoing' = TRUE
        /\ goal' = Defaults /\ parts' = {} /\ todo' = {} /\ pc' = "clear" /\ told' = "nothing"
    BY <1>7 DEF PutBack, FirstFailure, Clear
  <2>2. Clearing'
    BY <2>1 DEF Clearing
  <2>3. TypeOK'
    BY <1>1, <1>2, <1>5, <1>7, <2>1 DEF TypeOK
  <2>4. WhatInv'
    <3>1. (~record /\ ~InUse(before))'
      BY <1>2, <1>7 DEF InUse
    <3>2. Fitting(asked)'
      BY <1>1, <1>2, <2>1 DEF WhatInv, Fitting
    <3> QED
      BY <1>1, <1>2, <2>1, <2>2, <3>1, <3>2 DEF WhatInv
  <2>5. OthersHeld(held)' /\ GoalHeld(held)' /\ PlaceInv' /\ StageInv'
    BY <1>2, <1>7, <2>1, <2>2 DEF OthersHeld, GoalHeld, PlaceInv, StageInv
  <2>6. Outcomes'
    BY <2>1, NoOutcome
  <2> QED
    BY <1>3, <1>4, <2>3, <2>4, <2>5, <2>6 DEF IInv, ActiveInv
<1>8. CASE GiveUp
  <2>1. /\ undoing' = undoing /\ goal' = goal /\ parts' = {} /\ todo' = {} /\ pc' = "idle"
        /\ told' \in {"rollback_failed", "restore_failed"}
    BY <1>8 DEF GiveUp, End
  <2>2. TypeOK'
    BY <1>1, <1>2, <2>1 DEF TypeOK
  <2>3. Outcomes'
    BY <2>1, NoOutcome
  <2> QED
    BY <1>3, <1>4, <2>1, <2>2, <2>3 DEF IInv, ActiveInv, Active
<1> QED
    BY <1>6, <1>7, <1>8 DEF Fail, PutBack

\* A command that goes on to the next.
LEMMA Moving ==
    ASSUME IInv, Active, UNCHANGED <<callFrame, goal, parts, undoing, told>>,
           held' \in Profile, stageDpi' \in Nat, missed' \in BOOLEAN, Fitting(held)',
           pc' \in {"write", "check", "clear", "check_clear"}, Clearing' <=> Clearing,
           todo' \subseteq todo,
           OthersHeld(held)', GoalHeld(held)', PlaceInv', StageInv'
    PROVE  IInv'
<1>1. TypeOK /\ FormInv /\ WhatInv /\ PlaceInv
    BY DEF IInv, ActiveInv
<1>2. UNCHANGED <<record, backups, op, before, fitted, asked, calls, goal, parts, undoing, told>>
    BY DEF callFrame
<1>3. FormInv'
    BY <1>1, <1>2, FormKept
<1>4. BackupFirst'
    BY <1>1, <1>2 DEF BackupFirst, WhatInv
<1>5. TypeOK'
  <2>1. record' => pc' \notin {"clear", "check_clear"}
    BY <1>1, <1>2 DEF PlaceInv, Clearing
  <2> QED
    BY <1>1, <1>2, <2>1 DEF TypeOK
<1>6. WhatInv'
  <2>1. /\ InUse(before)' <=> InUse(before)
        /\ InUse(asked)' <=> InUse(asked)
        /\ Fitting(asked)' <=> Fitting(asked)
        /\ Whole(asked)' <=> Whole(asked)
        /\ Valid(asked, before)' <=> Valid(asked, before)
        /\ PartsToApply(asked, before)' = PartsToApply(asked, before)
        /\ RetroParts(asked, before, ~InUse(before))' = RetroParts(asked, before, ~InUse(before))
    BY <1>2 DEF InUse, Fitting, Whole, Read, OnlyPlayed, Valid, PartsToApply, Shown, RetroParts
  <2> QED
    BY <1>1, <1>2, <2>1 DEF WhatInv
<1>7. told' = "nothing"
    BY <1>1, <1>2 DEF WhatInv
<1>8. Outcomes'
    BY <1>7, NoOutcome
<1> QED
    BY <1>3, <1>4, <1>5, <1>6, <1>8 DEF IInv, ActiveInv

\* What a command that may be obeyed leaves behind.
LEMMA Obeying ==
    ASSUME IInv, ActiveInv, Active, ~Clearing, todo # {}, Obeyed,
           record \/ Current # Stage \/ goal[Stage] \in Stages, record' = record
    PROVE  /\ Current \in todo /\ Current \in parts /\ Current \in Parts
           /\ held' \in Profile /\ stageDpi' \in Nat /\ Fitting(held)'
           /\ \A x \in Parts \ {Current} : held'[x] = held[x]
           /\ stageDpi' = stageDpi \/ (Current = Stage /\ ~record)
<1>1. TypeOK /\ FormInv /\ WhatInv
    BY DEF IInv, ActiveInv
<1>2. Current \in todo /\ Current \in parts /\ Current \in Parts
    BY <1>1, CurrentIsFirst DEF TypeOK
<1>3. /\ Flag \in Parts /\ Stage \in Parts /\ X \in Parts /\ Flag # Name /\ Flag \notin Macros
      /\ Y \in Parts /\ Macros \subseteq Parts
    BY Apart DEF Singles
<1>4. Stored(Current) \subseteq Values
    BY <1>1, <1>2, ValuesAssumption DEF Stored, TypeOK, Profile
<1>5. goal[X] \in Values /\ goal[Current] \in Values
    BY <1>1, <1>2, <1>3 DEF TypeOK, Profile
<1>6. /\ held' \in Profile
      /\ \A x \in Parts \ {Current} : held'[x] = held[x]
      /\ held' = held \/ held'[Current] \in Stored(Current) \cup {goal[Current]}
    BY <1>1, <1>2, <1>4, <1>5 DEF Obeyed, TypeOK, Profile
<1>7. stageDpi' \in Nat /\ (stageDpi' = stageDpi \/ (Current = Stage /\ ~record))
  <2>1. \A v \in Values, d \in Stages : DpiIn[v][d] \in Nat
    BY ValuesAssumption
  <2>2. stageDpi \in Nat
    BY <1>1 DEF TypeOK
  <2>3. CASE stageDpi' = stageDpi
    BY <2>2, <2>3
  <2>4. CASE Current = Stage /\ ~record /\ stageDpi' = DpiIn[goal[X]][goal[Stage]]
    BY <1>5, <2>1, <2>4
  <2> QED
    BY <2>3, <2>4 DEF Obeyed
<1>8. Fitting(held)'
  <2>1. CASE record
    <3>1. Current \notin {Y} \cup Macros
      BY <1>1, <1>2, <2>1 DEF TypeOK
    <3> QED
      BY <1>1, <1>3, <1>6, <2>1, <3>1 DEF FormInv, Fitting
  <2>2. CASE ~record
    <3>1. goal[Flag] = 0
      BY <1>1, <2>2 DEF WhatInv, FormInv, Whole, Fitting
    <3>2. held'[Flag] = 0
      <4>1. CASE Current = Flag
        <5>1. Stored(Flag) = {held[Flag], goal[Flag]}
          BY <1>3 DEF Stored
        <5> QED
          BY <1>1, <1>6, <2>2, <3>1, <4>1, <5>1 DEF FormInv, Fitting
      <4>2. CASE Current # Flag
        BY <1>1, <1>3, <1>6, <2>2, <4>2 DEF FormInv, Fitting
      <4> QED
        BY <4>1, <4>2
    <3> QED
      BY <2>2, <3>2 DEF Fitting
  <2> QED
    BY <2>1, <2>2
<1> QED
    BY <1>2, <1>6, <1>7, <1>8

\* The next part stays the next while nothing is done with.
LEMMA SameCurrent ==
    ASSUME todo' = todo, record' = record
    PROVE  Current' = Current
    BY DEF Current, Precedes, Rank

LEMMA Writing ==
    ASSUME IInv, WritePart
    PROVE  IInv'
<1>1. /\ pc = "write" /\ todo # {} /\ Obeyed
      /\ record \/ Current # Stage \/ goal[Stage] \in Stages
      /\ \/ /\ ~record /\ Onward("check", todo)
            /\ missed' = (missed \/ (Current = Stage /\ ~Fits'))
         \/ /\ record /\ missed' = missed
            /\ Onward(IF todo \ {Current} = {} THEN "check" ELSE "write", todo \ {Current})
         \/ Fail /\ missed' = missed
    BY DEF WritePart
<1>2. Active /\ ~Clearing /\ ActiveInv /\ TypeOK
    BY <1>1 DEF Active, Clearing, IInv
<1>3. WhatInv /\ OthersHeld(held) /\ GoalHeld(held) /\ PlaceInv /\ StageInv
    BY <1>2 DEF ActiveInv
<1>4. record' = record
    BY <1>1 DEF Onward, Fail, callFrame
<1>5. /\ Current \in todo /\ Current \in parts /\ Current \in Parts
      /\ held' \in Profile /\ stageDpi' \in Nat /\ Fitting(held)'
      /\ \A x \in Parts \ {Current} : held'[x] = held[x]
      /\ stageDpi' = stageDpi \/ (Current = Stage /\ ~record)
    BY <1>1, <1>2, <1>4, Obeying
<1>6. CASE Fail /\ missed' = missed
  <2>1. Current \in Scope
    BY <1>5 DEF Scope
  <2> QED
    BY <1>2, <1>5, <1>6, <2>1, Failing
<1>7. CASE record /\ missed' = missed
             /\ Onward(IF todo \ {Current} = {} THEN "check" ELSE "write", todo \ {Current})
  <2> DEFINE rest == todo \ {Current}
  <2>1. /\ pc' = (IF rest = {} THEN "check" ELSE "write") /\ todo' = rest
        /\ UNCHANGED <<callFrame, goal, parts, undoing, told>>
    BY <1>7 DEF Onward
  <2>2. Clearing' <=> Clearing
    BY <1>2, <2>1 DEF Clearing
  <2>3. Behind = parts /\ Behind' = parts
    BY <1>4, <1>7, <2>1 DEF Behind
  <2>4. OthersHeld(held)'
    <3>1. \A x \in Parts \ parts : held'[x] = before[x]
      BY <1>2, <1>3, <1>5, <1>7, <2>3 DEF OthersHeld, Unread
    <3> QED
      BY <2>1, <2>3, <3>1 DEF OthersHeld, callFrame
  <2>5. GoalHeld(held)' /\ StageInv'
    BY <1>4, <1>7 DEF GoalHeld, StageInv
  <2>6. PlaceInv'
    BY <1>2, <1>4, <1>7, <2>1, <2>2 DEF PlaceInv
  <2>7. missed' \in BOOLEAN
    BY <1>2, <1>7 DEF TypeOK
  <2> QED
    BY <1>2, <1>5, <2>1, <2>2, <2>4, <2>5, <2>6, <2>7, Moving
<1>8. CASE /\ ~record /\ Onward("check", todo)
           /\ missed' = (missed \/ (Current = Stage /\ ~Fits'))
  <2>1. /\ pc' = "check" /\ todo' = todo
        /\ UNCHANGED <<record, backups, op, before, fitted, asked, calls, goal, parts, undoing, told>>
    BY <1>8 DEF Onward, callFrame
  <2>2. Current' = Current /\ ~Clearing'
    BY <2>1, SameCurrent DEF Clearing
  <2>3. Behind = (IF undoing THEN parts ELSE parts \ todo)
    BY <1>1, <1>8 DEF Behind
  <2>4. Behind' = (IF undoing THEN parts ELSE parts \ (todo \ {Current}))
    BY <1>8, <2>1, <2>2 DEF Behind
  <2>5. Current \in Behind' /\ \A x \in Parts \ Behind' : x \notin Behind /\ x # Current
    BY <1>5, <2>3, <2>4
  <2>6. OthersHeld(held)'
    <3>1. ASSUME InUse(before), NEW x \in Parts \ Behind'
          PROVE  held'[x] = before[x] \/ Unread(x)
      BY <1>2, <1>3, <1>5, <2>5, <3>1 DEF OthersHeld
    <3>2. \A x : Unread(x)' <=> Unread(x)
      BY <2>1 DEF Unread
    <3> QED
      BY <1>8, <2>1, <3>1, <3>2 DEF OthersHeld, InUse
  <2>7. GoalHeld(held)'
    BY <1>2, <1>3, <1>5, <1>8, <2>1 DEF GoalHeld, TypeOK
  <2>8. PlaceInv'
    BY <1>1, <1>8, <2>1, <2>2 DEF PlaceInv
  <2>9. StageInv'
    <3>1. SUFFICES ASSUME fitted, ~missed, ~missed', InUse(before)
                   PROVE  IF Stage \notin Behind' THEN StageFound'
                          ELSE (Stage \in todo => Current = Stage) => Fits' /\ X \notin todo
      BY <1>8, <2>1, <2>2 DEF StageInv, InUse
    <3>2. Stage \in Parts /\ X \in Parts /\ Stage # X
      BY Apart DEF Singles
    <3>3. CASE Stage \notin Behind'
      <4>1. Stage # Current /\ StageFound
        BY <1>2, <1>3, <1>8, <2>5, <3>1, <3>2, <3>3 DEF StageInv
      <4>2. held'[Stage] = held[Stage] /\ stageDpi' = stageDpi /\ before' = before
        BY <1>5, <2>1, <3>2, <4>1
      <4>3. StageFound'
        BY <4>1, <4>2 DEF StageFound
      <4> QED
        BY <3>3, <4>3
    <3>4. CASE Stage \in Behind' /\ Current = Stage
      <4>1. Fits'
        BY <1>8, <3>1, <3>4
      <4> QED
        BY <1>1, <1>2, <1>8, <3>4, <4>1, TableBeforeStage
    <3>5. CASE Stage \in Behind' /\ Current # Stage /\ Stage \notin todo
      <4>1. Stage \in Behind
        BY <2>3, <2>4, <3>5
      <4>2. Fits /\ X \notin todo
        BY <1>2, <1>3, <1>8, <3>1, <3>5, <4>1 DEF StageInv
      <4>3. held'[X] = held[X] /\ held'[Stage] = held[Stage] /\ stageDpi' = stageDpi
        BY <1>5, <3>2, <3>5, <4>2
      <4> QED
        BY <3>5, <4>2, <4>3 DEF Fits
    <3> QED
      BY <3>3, <3>4, <3>5
  <2>10. UNCHANGED <<callFrame, goal, parts, undoing, told>> /\ (Clearing' <=> Clearing)
    BY <1>2, <2>1, <2>2 DEF callFrame
  <2>11. missed' \in BOOLEAN
    BY <1>2, <1>8 DEF TypeOK
  <2> QED
    BY <1>2, <1>5, <2>1, <2>6, <2>7, <2>8, <2>9, <2>10, <2>11, Moving
<1> QED
    BY <1>1, <1>6, <1>7, <1>8

\* A failure that follows no command.
LEMMA FailingCheck ==
    ASSUME IInv, Active, Fail, UNCHANGED <<held, stageDpi, missed>>
    PROVE  IInv'
<1>1. held' \in Profile /\ stageDpi' \in Nat /\ missed' = missed
    BY DEF IInv, TypeOK
<1>2. record' = record
    BY DEF Fail, callFrame
<1>3. Fitting(held)'
    BY <1>2 DEF IInv, FormInv, Fitting
<1> QED
    BY <1>1, <1>3, Failing

PutBackAll == \A x \in Parts : NoMacro(before, x) \/ Read(held)[x] = before[x]
RestoredAll ==
    \A x \in Parts :
        \/ InUse(asked) /\ x \notin Comparable
        \/ NoMacro(asked, x) \/ NoStage(asked, x)
        \/ Read(held)[x] = asked[x]

\* What the outcomes say, of a step that leaves the mouse as it is.
LEMMA OutcomesOf ==
    ASSUME UNCHANGED <<held, stageDpi, record, before, fitted, missed, asked>>
    PROVE  /\ AppliedIsHeld' <=> (told' = "applied" => Reads(Read(asked), Comparable))
           /\ RollbackPutsBack' <=> (told' = "rolled_back" => PutBackAll)
           /\ RestoreIsComplete' <=> (told' = "restored" => RestoredAll)
           /\ StageFollows' <=>
                (~record /\ fitted /\ ~missed /\ InUse(before) /\ InUse(held)
                 /\ (told' \in {"applied", "rolled_back"} \/ (told' = "restored" /\ asked[Stage] \in Stages))
                    => Fits)
<1>1. /\ Read(asked)' = Read(asked) /\ Read(held)' = Read(held)
      /\ Comparable' = Comparable
    BY DEF Read, InUse, OnlyPlayed, Comparable
<1>2. /\ \A x : /\ NoMacro(before, x)' <=> NoMacro(before, x)
                /\ NoMacro(asked, x)' <=> NoMacro(asked, x)
                /\ NoStage(asked, x)' <=> NoStage(asked, x)
      /\ InUse(asked)' <=> InUse(asked)
      /\ InUse(before)' <=> InUse(before)
      /\ InUse(held)' <=> InUse(held)
      /\ Fits' <=> Fits
    BY DEF NoMacro, NoStage, InUse, Fits
<1>3. Reads(Read(asked), Comparable)' <=> Reads(Read(asked), Comparable)
    BY <1>1 DEF Reads
<1>4. Comparable \subseteq Parts
    BY DEF Comparable
<1>5. RollbackPutsBack' <=> (told' = "rolled_back" => PutBackAll)
    BY <1>1, <1>2 DEF RollbackPutsBack, Reads, PutBackAll
<1>6. RestoreIsComplete' <=> (told' = "restored" => RestoredAll)
    BY <1>1, <1>2, <1>4 DEF RestoreIsComplete, Reads, RestoredAll
<1>7. NoStage(asked, Stage) <=> ~record /\ asked[Stage] \notin Stages
    BY DEF NoStage
<1> QED
    BY <1>1, <1>2, <1>3, <1>5, <1>6, <1>7 DEF AppliedIsHeld, StageFollows

\* A pass that went through.
LEMMA Finishing ==
    ASSUME IInv, Active, Finish, UNCHANGED <<held, stageDpi, missed>>,
           \/ Clearing /\ held[Name] = 0
           \/ ~Clearing /\ record /\ \A x \in parts : held[x] = goal[x]
           \/ ~record /\ todo = {} /\ pc = "write"
    PROVE  IInv'
<1>1. /\ TypeOK /\ FormInv /\ WhatInv /\ OthersHeld(held) /\ GoalHeld(held) /\ StageInv
      /\ BackupFirst /\ PlaceInv
    BY DEF IInv, ActiveInv
<1>2. /\ UNCHANGED <<record, backups, op, before, fitted, asked, calls, goal, undoing>>
      /\ pc' = "idle" /\ parts' = {} /\ todo' = {}
      /\ told' = (IF op = "restore" THEN "restored" ELSE IF undoing THEN "rolled_back" ELSE "applied")
    BY DEF Finish, End, callFrame
<1>3. TypeOK' /\ FormInv'
  <2>1. Fitting(held)'
    BY <1>1, <1>2 DEF FormInv, Fitting
  <2> QED
    BY <1>1, <1>2, <2>1, FormKept DEF TypeOK
<1>4. BackupFirst'
    BY <1>1, <1>2 DEF BackupFirst, WhatInv
<1>5. /\ held \in Profile /\ before \in Profile /\ asked \in Profile /\ goal \in Profile
      /\ Whole(before) /\ Fitting(held)
    BY <1>1 DEF TypeOK, FormInv
<1>6. Outcomes'
  <2>1. ASSUME told' = "applied"
        PROVE  Reads(Read(asked), Comparable)
    <3>1. /\ op = "apply" /\ ~undoing /\ ~Clearing /\ goal = asked /\ Fitting(asked)
          /\ parts # {} /\ parts = PartsToApply(asked, before)
      BY <1>1, <1>2, <2>1 DEF WhatInv
    <3>2. CASE record
      <4>1. \A x \in Parts \ parts : held[x] = before[x]
        BY <1>1, <3>1, <3>2 DEF OthersHeld, Unread, Behind
      <4>2. \A x \in parts : held[x] = asked[x]
        BY <3>1, <3>2
      <4>3. held = asked
        BY <1>5, <3>1, <3>2, <4>1, <4>2, RecordHeld
      <4> QED
        BY <4>3 DEF Reads
    <3>3. CASE ~record
      <4>1. parts = RetroParts(asked, before, ~InUse(before))
        BY <3>1, <3>3, EditedParts
      <4>2. /\ Valid(asked, before) /\ InUse(asked)
            /\ asked[Stage] \in Stages \/ asked[Stage] = before[Stage]
            /\ \A x : ~NoMacro(asked, x)
        BY <1>1, <3>1, <3>3, Kinds DEF WhatInv, Valid, InUse, NoMacro
      <4>3. todo = {} /\ pc = "write" /\ \A x \in parts : held[x] = asked[x]
        BY <1>1, <3>1, <3>3 DEF GoalHeld
      <4>4. InUse(before) => \A x \in Parts \ parts :
                held[x] = before[x] \/ (x \in Macros /\ before[Assigned(x[2])] # Plays)
        BY <1>1, <3>1, <4>3 DEF OthersHeld, Behind, Unread
      <4>5. \A x \in Parts : (x = Stage => InUse(before)) => Read(held)[x] = Read(asked)[x]
        BY <1>5, <3>1, <3>3, <4>1, <4>2, <4>3, <4>4, RetroHeld
      <4> QED
        BY <3>3, <4>5 DEF Reads, Comparable
    <3> QED
      BY <3>2, <3>3
  <2>2. ASSUME told' = "rolled_back"
        PROVE  PutBackAll
    <3>1. op = "apply" /\ undoing /\ (Clearing <=> ~record /\ ~InUse(before))
      BY <1>1, <1>2, <2>2 DEF WhatInv
    <3>2. CASE Clearing
      <4>1. Read(held) = Defaults /\ Read(before) = Defaults
        BY <3>1, <3>2 DEF Read, InUse, Clearing
      <4> QED
        BY <1>5, <4>1 DEF Whole, PutBackAll
    <3>3. CASE record
      <4>1. goal = before /\ Behind = parts /\ ~Clearing
        BY <1>1, <3>1, <3>3 DEF WhatInv, Behind
      <4>2. \A x \in Parts : held[x] = before[x]
        BY <1>1, <3>3, <4>1 DEF OthersHeld, Unread
      <4> QED
        BY <3>3, <4>2 DEF Read, PutBackAll
    <3>4. CASE ~Clearing /\ ~record
      <4>1. /\ goal = before /\ Behind = parts /\ InUse(before) /\ todo = {}
            /\ \A x \in parts : held[x] = before[x]
        BY <1>1, <3>1, <3>4 DEF WhatInv, Behind, GoalHeld
      <4>2. \A x \in Parts : \/ held[x] = before[x]
                             \/ x \in Macros /\ (before[Assigned(x[2])] # Plays \/ before[x] = 0)
        BY <1>1, <3>4, <4>1 DEF OthersHeld, Unread
      <4> QED
        BY <1>5, <3>4, <4>1, <4>2, RetroBack DEF PutBackAll
    <3> QED
      BY <3>2, <3>3, <3>4
  <2>3. ASSUME told' = "restored"
        PROVE  RestoredAll
    <3>1. op = "restore" /\ ~undoing /\ Whole(asked) /\ Fitting(asked)
      BY <1>1, <1>2, <2>3 DEF WhatInv, Whole
    <3>2. CASE Clearing
      <4>1. ~record /\ ~InUse(asked) /\ held[Name] = 0
        BY <1>1, <3>1, <3>2 DEF WhatInv, PlaceInv, Clearing
      <4>2. Read(held) = Defaults /\ Read(asked) = Defaults
        BY <4>1 DEF Read, InUse
      <4> QED
        BY <3>1, <4>1, <4>2 DEF Whole, RestoredAll
    <3>3. CASE ~Clearing /\ record
      <4>1. goal = asked /\ Behind = parts /\ parts = Differing(asked, before, RecordParts)
        BY <1>1, <3>1, <3>3 DEF WhatInv, Behind
      <4>2. \A x \in Parts \ parts : held[x] = before[x]
        BY <1>1, <3>3, <4>1 DEF OthersHeld, Unread
      <4>3. \A x \in parts : held[x] = asked[x]
        BY <3>3, <4>1
      <4>4. held = asked
        BY <1>5, <3>1, <3>3, <4>1, <4>2, <4>3, RecordHeld
      <4> QED
        BY <3>1, <4>4 DEF Whole, RestoredAll
    <3>4. CASE ~Clearing /\ ~record
      <4>1. /\ goal = asked /\ InUse(asked) /\ parts = RetroParts(asked, before, ~InUse(before))
            /\ todo = {} /\ pc = "write"
        BY <1>1, <3>1, <3>4 DEF WhatInv
      <4>2. \A x \in parts : held[x] = asked[x]
        BY <1>1, <3>4, <4>1 DEF GoalHeld
      <4>3. InUse(before) => \A x \in Parts \ parts :
                held[x] = before[x] \/ (x \in Macros /\ before[Assigned(x[2])] # Plays)
        BY <1>1, <3>1, <3>4, <4>1 DEF OthersHeld, Behind, Unread
      <4>4. \A x \in Parts :
                (x = Stage => InUse(before) /\ (asked[Stage] \in Stages \/ asked[Stage] = before[Stage]))
                    => NoMacro(asked, x) \/ Read(held)[x] = Read(asked)[x]
        BY <1>5, <3>1, <3>4, <4>1, <4>2, <4>3, RetroHeld
      <4>5. Comparable = (IF InUse(before) THEN Parts ELSE Parts \ {Stage}) /\ Read(asked) = asked
        BY <3>1, <3>4 DEF Comparable, Whole
      <4> QED
        BY <3>4, <4>1, <4>4, <4>5 DEF RestoredAll, NoStage
    <3> QED
      BY <3>2, <3>3, <3>4
  <2>4. ASSUME ~record, fitted, ~missed, InUse(before), InUse(held),
               told' \in {"applied", "rolled_back"} \/ (told' = "restored" /\ asked[Stage] \in Stages)
        PROVE  Fits
    <3>1. todo = {} /\ pc = "write"
      BY <2>4 DEF InUse
    <3>2. op = "restore" => asked[Stage] \in Stages
      BY <1>2, <2>4
    <3> QED
      BY <1>1, <2>4, <3>1, <3>2, StageFits
  <2>5. UNCHANGED <<held, stageDpi, record, before, fitted, missed, asked>>
    BY <1>2
  <2> QED
    BY <2>1, <2>2, <2>3, <2>4, <2>5, OutcomesOf DEF Outcomes
<1> QED
    BY <1>2, <1>3, <1>4, <1>6 DEF IInv, ActiveInv, Active

LEMMA Checking ==
    ASSUME IInv, CheckParts
    PROVE  IInv'
<1>1. /\ pc = "check" /\ UNCHANGED <<held, stageDpi, missed>>
      /\ \/ record /\ KeptIt(parts) /\ Finish
         \/ ~record /\ KeptIt({Current}) /\ Onward("write", todo \ {Current})
         \/ Fail
    BY DEF CheckParts
<1>2. Active /\ ~Clearing
    BY <1>1 DEF Active, Clearing
<1>3. CASE Fail
    BY <1>1, <1>2, <1>3, FailingCheck
<1>4. CASE record /\ KeptIt(parts) /\ Finish
    BY <1>1, <1>2, <1>4, Finishing DEF KeptIt
<1>5. CASE ~record /\ KeptIt({Current}) /\ Onward("write", todo \ {Current})
  <2>1. TypeOK /\ FormInv /\ OthersHeld(held) /\ GoalHeld(held) /\ PlaceInv /\ StageInv
    BY <1>2 DEF IInv, ActiveInv
  <2>2. Current \in todo
    BY <1>1, <1>5, <2>1, CurrentIsFirst DEF PlaceInv
  <2>3. /\ pc' = "write" /\ todo' = todo \ {Current}
        /\ UNCHANGED <<record, backups, op, before, fitted, asked, calls, goal, parts, undoing, told>>
        /\ UNCHANGED <<callFrame, goal, parts, undoing, told>>
        /\ held[Current] = goal[Current]
    BY <1>5 DEF Onward, callFrame, KeptIt
  <2>4. Behind' = Behind /\ ~Clearing'
    BY <1>1, <1>5, <2>3 DEF Behind, Clearing
  <2>5. Fitting(held)' /\ held' \in Profile /\ stageDpi' \in Nat /\ missed' \in BOOLEAN
    BY <1>1, <2>1, <2>3 DEF FormInv, Fitting, TypeOK
  <2>6. OthersHeld(held)'
    BY <1>1, <1>2, <2>1, <2>3, <2>4 DEF OthersHeld, Unread, InUse
  <2>7. GoalHeld(held)'
    BY <1>1, <1>5, <2>1, <2>3 DEF GoalHeld
  <2>8. PlaceInv'
    BY <1>5, <2>3, <2>4 DEF PlaceInv
  <2>9. StageInv'
    <3>1. SUFFICES ASSUME fitted, ~missed, InUse(before)
                   PROVE  IF Stage \notin Behind THEN StageFound'
                          ELSE Stage \notin todo' => Fits' /\ X \notin todo'
      BY <1>1, <1>5, <2>3, <2>4 DEF StageInv, InUse
    <3>2. CASE Stage \notin Behind
      BY <1>1, <1>2, <1>5, <2>1, <2>3, <3>1, <3>2 DEF StageInv, StageFound
    <3>3. CASE Stage \in Behind /\ Stage \notin todo'
      <4>1. Stage \in todo => Current = Stage
        BY <2>3, <3>3
      <4>2. Fits /\ X \notin todo
        BY <1>1, <1>2, <1>5, <2>1, <3>1, <3>3, <4>1 DEF StageInv
      <4> QED
        BY <1>1, <2>3, <3>3, <4>2 DEF Fits
    <3> QED
      BY <3>2, <3>3
  <2> QED
    BY <1>2, <2>3, <2>4, <2>5, <2>6, <2>7, <2>8, <2>9, Moving
<1> QED
    BY <1>1, <1>3, <1>4, <1>5

LEMMA Ending ==
    ASSUME IInv, Done
    PROVE  IInv'
<1>1. pc = "write" /\ todo = {} /\ Finish /\ UNCHANGED <<held, stageDpi, missed>>
    BY DEF Done
<1>2. Active /\ ~Clearing
    BY <1>1 DEF Active, Clearing
<1>3. record => \A x \in parts : held[x] = goal[x]
    BY <1>1, <1>2 DEF IInv, ActiveInv, PlaceInv
<1> QED
    BY <1>1, <1>2, <1>3, Finishing

LEMMA Cleared ==
    ASSUME IInv, ClearProfile \/ CheckCleared
    PROVE  IInv'
<1>1. Active /\ Clearing
    BY DEF ClearProfile, CheckCleared, Active, Clearing
<1>2. TypeOK /\ FormInv /\ PlaceInv /\ ~record /\ parts = {} /\ todo = {}
    BY <1>1 DEF IInv, ActiveInv, PlaceInv, TypeOK
<1>3. CASE CheckCleared
  <2>1. UNCHANGED <<held, stageDpi, missed>> /\ ((held[Name] = 0 /\ Finish) \/ Fail)
    BY <1>3 DEF CheckCleared
  <2> QED
    BY <1>1, <2>1, Finishing, FailingCheck
<1>4. CASE ClearProfile
  <2>1. /\ held' \in {held, Defaults, [held EXCEPT ![Name] = 0]}
        /\ stageDpi' \in {stageDpi, DpiIn[Defaults[X]][Defaults[Stage]]}
        /\ Onward("check_clear", {}) \/ Fail
        /\ missed' = missed
    BY <1>4 DEF ClearProfile
  <2>2. record' = record
    BY <2>1 DEF Onward, Fail, callFrame
  <2>3. /\ Flag \in Parts /\ Name \in Parts /\ Flag # Name /\ X \in Parts /\ Stage \in Parts
        /\ Defaults \in Profile /\ Defaults[Flag] = 0
    BY Apart, ProfilesAssumption DEF Singles
  <2>4. held' \in Profile
    BY <1>2, <2>1, <2>3, ValuesAssumption DEF TypeOK, Profile
  <2>5. Fitting(held)'
    BY <1>2, <2>1, <2>2, <2>3 DEF FormInv, Fitting, TypeOK, Profile
  <2>6. stageDpi' \in Nat
    <3>1. Defaults[X] \in Values
      BY <2>3 DEF Profile
    <3>2. Defaults[Stage] \in Stages
      BY <3>1, ProfilesAssumption, ValuesAssumption
    <3>3. DpiIn[Defaults[X]][Defaults[Stage]] \in Nat
      BY <3>1, <3>2, ValuesAssumption
    <3> QED
      BY <1>2, <2>1, <3>3 DEF TypeOK
  <2>7. CASE Fail
    BY <1>1, <2>1, <2>4, <2>5, <2>6, <2>7, Failing
  <2>8. CASE Onward("check_clear", {})
    <3>1. /\ pc' = "check_clear" /\ todo' = {} /\ parts' = {}
          /\ UNCHANGED <<callFrame, goal, parts, undoing, told>>
      BY <1>2, <2>8 DEF Onward
    <3>2. Clearing' /\ missed' \in BOOLEAN /\ ~record'
      BY <1>2, <2>1, <2>2, <3>1 DEF Clearing, TypeOK
    <3>3. OthersHeld(held)' /\ GoalHeld(held)' /\ PlaceInv' /\ StageInv'
      BY <3>1, <3>2 DEF OthersHeld, GoalHeld, PlaceInv, StageInv
    <3>4. todo' \subseteq todo
      BY <3>1
    <3> QED
      BY <1>1, <2>4, <2>5, <2>6, <3>1, <3>2, <3>3, <3>4, Moving
  <2> QED
    BY <2>1, <2>7, <2>8
<1> QED
    BY <1>3, <1>4

\* A call that begins.
LEMMA Calling ==
    ASSUME IInv, NEW which \in {"apply", "restore"}, Call(which), asked' \in Profile,
           backups' = backups \/ backups' = Kept
    PROVE  /\ UNCHANGED <<held, stageDpi, record>>
           /\ op' = which /\ before' = Read(held) /\ undoing' = FALSE
           /\ fitted' = Fits /\ missed' = FALSE
           /\ FormInv' /\ BackupFirst'
           /\ before' \in Profile /\ Whole(before)'
           /\ \A how : End(how) => Active' = FALSE
           /\ \A how : how \in {"refused", "applied", "restored"} /\ End(how) => TypeOK'
           /\ \A what, some : what \in Profile /\ some \subseteq Parts /\ Write(what, some)
                                 /\ (record => some \cap ({Y} \cup Macros) = {}) => TypeOK'
           /\ Clear /\ ~record => TypeOK'
<1>1. TypeOK /\ FormInv /\ Fitting(held)
    BY DEF IInv, FormInv
<1>2. /\ UNCHANGED <<held, stageDpi, record>>
      /\ op' = which /\ before' = Read(held) /\ undoing' = FALSE
      /\ fitted' = Fits /\ missed' = FALSE /\ calls' = calls + 1 /\ calls < MaxCalls
    BY DEF Call
<1>3. Read(held) \in Profile /\ Whole(Read(held)) /\ Defaults \in Profile
    BY <1>1, ReadOf, ProfilesAssumption DEF TypeOK
<1>4. FormInv'
  <2>1. Whole(before)'
    BY <1>2, <1>3 DEF Whole, Fitting, Read, InUse, OnlyPlayed
  <2>2. Fitting(held)'
    BY <1>1, <1>2 DEF Fitting
  <2>3. \A b \in backups' : Whole(b)
    BY <1>1, <1>3 DEF FormInv, Kept
  <2>4. \A b : Whole(b)' <=> Whole(b)
    BY <1>2 DEF Whole, Fitting, Read, InUse, OnlyPlayed
  <2> QED
    BY <2>1, <2>2, <2>3, <2>4 DEF FormInv
<1>5. BackupFirst'
  <2>1. Read(held)' = Read(held)
    BY <1>2 DEF Read, InUse, OnlyPlayed
  <2> QED
    BY <1>2, <2>1 DEF BackupFirst
<1>6. /\ backups' \subseteq Profile /\ calls' \in 0..MaxCalls /\ fitted' \in BOOLEAN
      /\ missed' \in BOOLEAN /\ op' \in {"none", "apply", "restore"} /\ undoing' \in BOOLEAN
      /\ held' \in Profile /\ stageDpi' \in Nat /\ record' \in BOOLEAN /\ before' \in Profile
  <2>1. fitted' \in BOOLEAN
    BY <1>2 DEF Fits
  <2>2. calls' \in 0..MaxCalls
    BY <1>1, <1>2, CallsAssumption DEF TypeOK
  <2>3. backups' \subseteq Profile
    BY <1>1, <1>3 DEF TypeOK, Kept
  <2> QED
    BY <1>1, <1>2, <1>3, <2>1, <2>2, <2>3 DEF TypeOK
<1>7. ASSUME NEW how \in {"refused", "applied", "restored"}, End(how)
      PROVE  TypeOK'
    BY <1>1, <1>6, <1>7 DEF TypeOK, End
<1>8. ASSUME NEW what \in Profile, NEW some \in SUBSET Parts, Write(what, some),
             record => some \cap ({Y} \cup Macros) = {}
      PROVE  TypeOK'
    BY <1>2, <1>6, <1>8 DEF TypeOK, Write
<1>9. ASSUME Clear, ~record
      PROVE  TypeOK'
    BY <1>2, <1>3, <1>6, <1>9 DEF TypeOK, Clear
<1>10. \A how : End(how) => Active' = FALSE
    BY DEF End, Active
<1>11. Whole(before)'
    BY <1>4 DEF FormInv
<1> QED
    BY <1>2, <1>4, <1>5, <1>6, <1>7, <1>8, <1>9, <1>10, <1>11

\* A pass that begins with the first part it has to write.
LEMMA Beginning ==
    ASSUME IInv, NEW which, Call(which), NEW what, NEW some, Write(what, some)
    PROVE  /\ OthersHeld(held)' /\ GoalHeld(held)' /\ PlaceInv' /\ StageInv' /\ Outcomes' /\ ~Clearing'
<1>1. /\ UNCHANGED <<held, stageDpi, record>> /\ before' = Read(held) /\ undoing' = FALSE
      /\ fitted' = Fits /\ missed' = FALSE
      /\ parts' = some /\ todo' = some /\ pc' = "write" /\ told' = "nothing"
    BY DEF Call, Write
<1>2. ~Clearing'
    BY <1>1 DEF Clearing
<1>3. Behind' = (IF record THEN some ELSE {})
    BY <1>1 DEF Behind
<1>4. held \in Profile
    BY DEF IInv, TypeOK
<1>5. InUse(before)' <=> InUse(held)
  <2>1. InUse(before)' <=> InUse(Read(held))
    BY <1>1 DEF InUse
  <2> QED
    BY <1>4, <2>1, ReadOf
<1>6. OthersHeld(held)'
  <2>1. ASSUME record \/ InUse(held), NEW x \in Parts
        PROVE  held[x] = Read(held)[x] \/ (~record /\ x \in Macros /\ Read(held)[Assigned(x[2])] # Plays)
    <3>1. CASE record
      BY <3>1 DEF Read
    <3>2. CASE ~record /\ x \notin Macros
      BY <1>4, <2>1, <3>2, ReadOf
    <3>3. CASE ~record /\ x \in Macros
      <4>1. Assigned(x[2]) \in Parts \ Macros
        BY <3>3, Kinds, Apart
      <4> QED
        BY <1>4, <2>1, <3>3, <4>1, ReadOf
    <3> QED
      BY <3>1, <3>2, <3>3
  <2> QED
    BY <1>1, <1>5, <2>1 DEF OthersHeld, Unread
<1>7. GoalHeld(held)' /\ PlaceInv'
    BY <1>1, <1>2 DEF GoalHeld, PlaceInv
<1>8. StageInv'
  <2>1. SUFFICES ASSUME ~record, Fits, InUse(held)
                 PROVE  StageFound'
    BY <1>1, <1>3, <1>5 DEF StageInv
  <2>2. X \in Parts \ Macros /\ Stage \in Parts \ Macros
    BY Apart DEF Singles
  <2>3. Read(held)[X] = held[X] /\ Read(held)[Stage] = held[Stage]
    BY <1>4, <2>1, <2>2, ReadOf
  <2> QED
    BY <1>1, <2>1, <2>3 DEF StageFound, Fits
<1>9. Outcomes'
    BY <1>1, NoOutcome
<1> QED
    BY <1>2, <1>6, <1>7, <1>8, <1>9

LEMMA Applying ==
    ASSUME IInv, NEW request \in Requests, MouseApply(request)
    PROVE  IInv'
<1> DEFINE edited == Edited(request)
           was == Read(held)
           which == PartsToApply(edited, was)
<1>1. /\ Call("apply")
      /\ record => DOMAIN request \subseteq RecordParts
      /\ asked' = IF which = {} THEN was ELSE edited
      /\ \/ End("refused") /\ UNCHANGED backups
         \/ /\ Valid(edited, Shown(held))
            /\ backups' = Kept
            /\ \/ which = {} /\ End("applied")
               \/ which # {} /\ Write(edited, which)
    BY DEF MouseApply
<1>2. held \in Profile /\ Fitting(held) /\ TypeOK
    BY DEF IInv, FormInv, TypeOK
<1>3. /\ Read(held) \in Profile /\ Shown(held) \in Profile /\ Fitting(Shown(held))
      /\ ~record => Shown(held) = Read(held)
    BY <1>2, ReadOf
<1>4. edited \in Profile /\ Fitting(edited)
  <2>1. /\ DOMAIN request \subseteq Parts \ {Flag}
        /\ \A x \in DOMAIN request : request[x] \in Values
    BY ProfilesAssumption
  <2>2. /\ Overlay(Shown(held), request) \in Profile
        /\ \A x \in Parts \ DOMAIN request : Overlay(Shown(held), request)[x] = Shown(held)[x]
    BY <1>3, <2>1 DEF Overlay, Profile
  <2>3. Flag \in Parts /\ Y \in Parts /\ Flag # Y /\ Macros \subseteq Parts /\ Flag \notin Macros
    BY Apart DEF Singles
  <2>4. edited \in Profile
    BY <2>2, ValuesAssumption DEF Edited, Profile
  <2>5. CASE record
    <3>1. \A x \in {Y} \cup Macros : x \notin DOMAIN request
      BY <1>1, <2>5 DEF RecordParts
    <3>2. \A x \in {Y} \cup Macros : edited[x] = Shown(held)[x]
      BY <2>2, <2>3, <2>5, <3>1 DEF Edited, Profile
    <3> QED
      BY <1>3, <2>4, <2>5, <3>2 DEF Fitting
  <2>6. CASE ~record
    <3>1. edited[Flag] = Shown(held)[Flag]
      BY <2>1, <2>2, <2>3, <2>6 DEF Edited
    <3> QED
      BY <1>3, <2>4, <2>6, <3>1 DEF Fitting
  <2> QED
    BY <2>5, <2>6
<1> HIDE DEF edited
<1>5. asked' \in Profile /\ (backups' = backups \/ backups' = Kept)
    BY <1>1, <1>3, <1>4
<1>6. /\ UNCHANGED <<held, stageDpi, record>>
      /\ op' = "apply" /\ before' = Read(held) /\ undoing' = FALSE
      /\ fitted' = Fits /\ missed' = FALSE
      /\ FormInv' /\ BackupFirst'
      /\ \A how : End(how) => Active' = FALSE
      /\ \A how : how \in {"refused", "applied", "restored"} /\ End(how) => TypeOK'
      /\ \A what, some : what \in Profile /\ some \subseteq Parts /\ Write(what, some)
                            /\ (record => some \cap ({Y} \cup Macros) = {}) => TypeOK'
    BY <1>1, <1>5, Calling
<1>7. CASE End("refused")
  <2>1. told' = "refused" /\ Active' = FALSE /\ TypeOK'
    BY <1>6, <1>7 DEF End
  <2> QED
    BY <1>6, <2>1, NoOutcome DEF IInv, ActiveInv
<1>8. CASE which = {} /\ End("applied")
  <2>1. told' = "applied" /\ Active' = FALSE /\ TypeOK' /\ asked' = was
    BY <1>1, <1>6, <1>8 DEF End
  <2>2. AppliedIsHeld'
    <3>1. Read(asked)' = Read(was) /\ Read(held)' = Read(held)
      BY <1>6, <2>1 DEF Read, InUse, OnlyPlayed
    <3>2. Read(was) = was
      BY <1>2, ReadOf
    <3> QED
      BY <3>1, <3>2 DEF AppliedIsHeld, Reads
  <2>3. StageFollows'
    BY <1>6 DEF StageFollows, Fits
  <2> QED
    BY <1>6, <2>1, <2>2, <2>3 DEF IInv, ActiveInv, Outcomes, RollbackPutsBack, RestoreIsComplete
<1>9. CASE /\ which # {} /\ Write(edited, which)
           /\ backups' = Kept /\ Valid(edited, Shown(held))
  <2> HIDE DEF was
  <2>1. which \subseteq Parts /\ (record => which \cap ({Y} \cup Macros) = {})
    <3>1. CASE record
      BY <3>1 DEF PartsToApply, RecordParts, Differing
    <3>2. CASE ~record
      <4>1. which = RetroParts(edited, was, ~InUse(was))
        BY <1>9, <3>2, EditedParts
      <4>2. \A all \in BOOLEAN : RetroParts(edited, was, all) \subseteq Parts
        BY RetroPartsOf
      <4>3. which = RetroParts(edited, was, TRUE) \/ which = RetroParts(edited, was, FALSE)
        BY <3>2 DEF PartsToApply
      <4> QED
        BY <3>2, <4>2, <4>3
    <3> QED
      BY <3>1, <3>2
  <2>2. TypeOK'
    BY <1>4, <1>6, <1>9, <2>1
  <2>3. OthersHeld(held)' /\ GoalHeld(held)' /\ PlaceInv' /\ StageInv' /\ Outcomes' /\ ~Clearing'
    BY <1>1, <1>9, Beginning
  <2>4. WhatInv'
    <3>1. /\ asked' = edited /\ before' = was /\ goal' = edited /\ parts' = which
          /\ told' = "nothing" /\ record' = record
      BY <1>1, <1>6, <1>9 DEF Write, was
    <3>2. PartsToApply(asked, before)' = which
      BY <3>1 DEF PartsToApply, Shown, Read, InUse, OnlyPlayed
    <3>3. ~record => Valid(asked, before)'
      BY <1>3, <1>9, <3>1 DEF Valid, was
    <3>4. Fitting(asked)'
      BY <1>4, <3>1 DEF Fitting
    <3>5. before' \in backups'
      BY <1>9, <3>1 DEF Kept, was
    <3> QED
      BY <1>6, <1>9, <2>3, <3>1, <3>2, <3>3, <3>4, <3>5 DEF WhatInv
  <2> QED
    BY <1>6, <2>2, <2>3, <2>4 DEF IInv, ActiveInv
<1> QED
    BY <1>1, <1>7, <1>8, <1>9

LEMMA Restoring ==
    ASSUME IInv, NEW backup \in backups, RestoreBackup(backup)
    PROVE  IInv'
<1>1. /\ Call("restore") /\ asked' = backup /\ backups' = backups
      /\ \/ End("refused")
         \/ record /\ Write(backup, Differing(backup, held, RecordParts))
         \/ /\ ~record /\ InUse(backup)
            /\ Write(backup, RetroParts(backup, Read(held), RestoreAll))
         \/ ~record /\ ~InUse(backup) /\ ~InUse(held) /\ End("restored")
         \/ ~record /\ ~InUse(backup) /\ InUse(held) /\ Clear
    BY DEF RestoreBackup
<1>2. held \in Profile /\ Fitting(held) /\ TypeOK /\ backup \in Profile /\ Whole(backup)
    BY DEF IInv, FormInv, TypeOK
<1>3. /\ UNCHANGED <<held, stageDpi, record>>
      /\ op' = "restore" /\ before' = Read(held) /\ undoing' = FALSE
      /\ fitted' = Fits /\ missed' = FALSE
      /\ FormInv' /\ BackupFirst'
      /\ \A how : End(how) => Active' = FALSE
      /\ \A how : how \in {"refused", "applied", "restored"} /\ End(how) => TypeOK'
      /\ \A what, some : what \in Profile /\ some \subseteq Parts /\ Write(what, some)
                            /\ (record => some \cap ({Y} \cup Macros) = {}) => TypeOK'
      /\ Clear /\ ~record => TypeOK'
    BY <1>1, <1>2, Calling
<1>4. Whole(asked)'
    BY <1>1, <1>2, <1>3 DEF Whole, Fitting, Read, InUse, OnlyPlayed
<1>5. InUse(asked)' <=> InUse(backup)
    BY <1>1, <1>3 DEF InUse
<1>6. CASE End("refused")
  <2>1. told' = "refused" /\ Active' = FALSE /\ TypeOK'
    BY <1>3, <1>6 DEF End
  <2> QED
    BY <1>3, <2>1, NoOutcome DEF IInv, ActiveInv
<1>7. CASE record /\ Write(backup, Differing(backup, held, RecordParts))
  <2> DEFINE which == Differing(backup, held, RecordParts)
  <2>1. which \subseteq Parts /\ which \cap ({Y} \cup Macros) = {}
    BY DEF Differing, RecordParts
  <2>2. OthersHeld(held)' /\ GoalHeld(held)' /\ PlaceInv' /\ StageInv' /\ Outcomes' /\ ~Clearing'
    BY <1>1, <1>7, Beginning
  <2>3. WhatInv'
    <3>1. goal' = backup /\ parts' = which /\ told' = "nothing" /\ before' = held
      BY <1>3, <1>7 DEF Write, Read
    <3> QED
      BY <1>1, <1>3, <1>4, <1>7, <2>2, <3>1 DEF WhatInv
  <2>4. TypeOK'
    BY <1>2, <1>3, <1>7, <2>1
  <2> QED
    BY <1>3, <2>2, <2>3, <2>4 DEF IInv, ActiveInv
<1>8. CASE /\ ~record /\ InUse(backup)
           /\ Write(backup, RetroParts(backup, Read(held), RestoreAll))
  <2> DEFINE which == RetroParts(backup, Read(held), RestoreAll)
  <2>1. which \subseteq Parts
    <3>1. RestoreAll \in BOOLEAN
      BY <1>8 DEF RestoreAll, InUse
    <3> QED
      BY <3>1, RetroPartsOf
  <2>2. OthersHeld(held)' /\ GoalHeld(held)' /\ PlaceInv' /\ StageInv' /\ Outcomes' /\ ~Clearing'
    BY <1>1, <1>8, Beginning
  <2>3. WhatInv'
    <3>1. goal' = backup /\ parts' = which /\ told' = "nothing"
      BY <1>8 DEF Write
    <3>2. InUse(before)' <=> InUse(held)
      <4>1. InUse(before)' <=> InUse(Read(held))
        BY <1>3 DEF InUse
      <4> QED
        BY <1>2, <4>1, ReadOf
    <3>3. (~InUse(before))' = RestoreAll
      BY <1>3, <1>8, <3>2 DEF RestoreAll, InUse
    <3>4. RetroParts(asked, before, ~InUse(before))' = which
      BY <1>1, <1>3, <3>3 DEF RetroParts
    <3> QED
      BY <1>1, <1>3, <1>4, <1>5, <1>8, <2>2, <3>1, <3>4 DEF WhatInv
  <2>4. TypeOK'
    BY <1>2, <1>3, <1>8, <2>1
  <2> QED
    BY <1>3, <2>2, <2>3, <2>4 DEF IInv, ActiveInv
<1>9. CASE ~record /\ ~InUse(backup) /\ ~InUse(held) /\ End("restored")
  <2>1. told' = "restored" /\ Active' = FALSE /\ TypeOK'
    BY <1>3, <1>9 DEF End
  <2>2. Read(held)' = backup
    BY <1>2, <1>3, <1>9 DEF Whole, Read, InUse
  <2>3. RestoreIsComplete'
    BY <1>1, <2>2 DEF RestoreIsComplete, Reads
  <2>4. ~InUse(held)'
    BY <1>3, <1>9 DEF InUse
  <2> QED
    BY <1>3, <2>1, <2>3, <2>4 DEF IInv, ActiveInv, Outcomes, AppliedIsHeld, RollbackPutsBack, StageFollows
<1>10. CASE ~record /\ ~InUse(backup) /\ InUse(held) /\ Clear
  <2>1. /\ goal' = Defaults /\ parts' = {} /\ todo' = {} /\ pc' = "clear" /\ told' = "nothing"
        /\ Clearing'
    BY <1>10 DEF Clear, Clearing
  <2>2. WhatInv'
    BY <1>3, <1>4, <1>5, <1>10, <2>1 DEF WhatInv
  <2>3. OthersHeld(held)' /\ GoalHeld(held)' /\ PlaceInv' /\ StageInv'
    BY <1>3, <1>10, <2>1 DEF OthersHeld, GoalHeld, PlaceInv, StageInv
  <2>4. Outcomes'
    BY <2>1, NoOutcome
  <2> QED
    BY <1>3, <1>10, <2>2, <2>3, <2>4 DEF IInv, ActiveInv
<1> QED
    BY <1>1, <1>6, <1>7, <1>8, <1>9, <1>10

LEMMA StepsKeep == IInv /\ [Next]_vars => IInv'
<1> SUFFICES ASSUME IInv, [Next]_vars PROVE IInv'
    OBVIOUS
<1>1. ASSUME NEW request \in Requests, MouseApply(request)
      PROVE  IInv'
    BY <1>1, Applying
<1>2. ASSUME NEW backup \in backups, RestoreBackup(backup)
      PROVE  IInv'
    BY <1>2, Restoring
<1>3. CASE WritePart
    BY <1>3, Writing
<1>4. CASE NoSuchStage
  <2>1. Active /\ Fail /\ UNCHANGED <<held, stageDpi, missed>>
    BY <1>4 DEF NoSuchStage, Active
  <2> QED
    BY <2>1, FailingCheck
<1>5. CASE CheckParts
    BY <1>5, Checking
<1>6. CASE Done
    BY <1>6, Ending
<1>7. CASE ClearProfile \/ CheckCleared
    BY <1>7, Cleared
<1>8. CASE UNCHANGED vars
  <2>1. /\ UNCHANGED <<held, stageDpi, record, before, fitted, missed, asked>>
        /\ UNCHANGED <<backups, op, pc, goal, parts, todo, undoing, told, calls>>
    BY <1>8 DEF vars
  <2>2. Fitting(held)' /\ Active' = Active /\ (Clearing' <=> Clearing) /\ Current' = Current
    BY <2>1, SameCurrent DEF IInv, FormInv, Fitting, Active, Clearing
  <2>3. CASE ~Active
    <3>1. TypeOK' /\ FormInv'
      BY <2>1, <2>2, FormKept DEF IInv, TypeOK
    <3>2. BackupFirst'
      BY <2>1 DEF IInv, BackupFirst, Read, InUse, OnlyPlayed
    <3>3. Outcomes'
      <4>1. RollbackPutsBack <=> (told = "rolled_back" => PutBackAll)
        BY DEF RollbackPutsBack, Reads, PutBackAll
      <4>2. RestoreIsComplete <=> (told = "restored" => RestoredAll)
        BY DEF RestoreIsComplete, Reads, RestoredAll, Comparable
      <4>3. NoStage(asked, Stage) <=> ~record /\ asked[Stage] \notin Stages
        BY DEF NoStage
      <4> QED
        BY <2>1, <4>1, <4>2, <4>3, OutcomesOf DEF IInv, Outcomes, AppliedIsHeld, StageFollows
    <3> QED
      BY <2>2, <2>3, <3>1, <3>2, <3>3 DEF IInv, ActiveInv
  <2>4. CASE Active
    <3>1. OthersHeld(held) /\ GoalHeld(held) /\ PlaceInv /\ StageInv
      BY <2>4 DEF IInv, ActiveInv
    <3>2. OthersHeld(held)'
      BY <2>1, <2>2, <3>1 DEF OthersHeld, Behind, Unread, InUse
    <3>3. GoalHeld(held)'
      BY <2>1, <3>1 DEF GoalHeld
    <3>4. PlaceInv'
      BY <2>1, <2>2, <3>1 DEF PlaceInv
    <3>5. StageInv'
      BY <2>1, <2>2, <3>1 DEF StageInv, StageFound, Behind, InUse, Fits
    <3>6. /\ held' \in Profile /\ stageDpi' \in Nat /\ missed' \in BOOLEAN /\ todo' \subseteq todo
          /\ pc' \in {"write", "check", "clear", "check_clear"}
          /\ UNCHANGED <<callFrame, goal, parts, undoing, told>>
      BY <2>1, <2>4 DEF IInv, TypeOK, Active, callFrame
    <3> QED
      BY <2>2, <2>4, <3>2, <3>3, <3>4, <3>5, <3>6, Moving
  <2> QED
    BY <2>3, <2>4
<1> QED
    BY <1>1, <1>2, <1>3, <1>4, <1>5, <1>6, <1>7, <1>8 DEF Next, Step

-----------------------------------------------------------------------------
(* The theorems.                                                           *)

LEMMA Always == Spec => []IInv
    BY Started, StepsKeep, PTL DEF Spec

\* What is held, asked and backed up are whole profiles throughout, and a mouse
\* that keeps one record is never sent a part that it does not have
\* (internal/core/mouse.go).
THEOREM TypeCorrect == Spec => []TypeOK
<1>1. IInv => TypeOK
    BY DEF IInv
<1> QED
    BY <1>1, Always, PTL

\* Whatever commands fail, half take or are acknowledged without taking: an edit
\* reported as applied is what a read shows, a rollback reported as done shows
\* what was there before, a backup reported as restored is back, and nothing was
\* changed that is not in a backup (mouse.go:1118-1251).
THEOREM PromiseKept == Spec => []KeepsPromise
<1>1. IInv => KeepsPromise
    BY DEF IInv, Outcomes, KeepsPromise
<1> QED
    BY <1>1, Always, PTL

\* After a call that reports success the stage in use is an enabled one of the
\* table of stages and has the DPI the table gives it, whichever of the two the
\* call changed (mouse.go:666-675).
THEOREM StageIsFitted == Spec => []StageFollows
<1>1. IInv => StageFollows
    BY DEF IInv, Outcomes
<1> QED
    BY <1>1, Always, PTL

-----------------------------------------------------------------------------
(* The promise: seen from its caller, a call keeps the profile and then    *)
(* changes it entirely or not at all, or warns (RecoverableWrite).         *)

\* What a call restores from is a backup.
KeptInv == op = "restore" => asked \in backups

LEMMA StepFrame ==
    ASSUME Step
    PROVE  pc # "idle" /\ UNCHANGED callFrame
BY DEF Step, WritePart, NoSuchStage, CheckParts, Done, ClearProfile, CheckCleared, Onward, Finish, Fail

LEMMA KeptAlways == Spec => []KeptInv
<1>1. Init => KeptInv
    BY DEF Init, KeptInv
<1>2. ASSUME KeptInv, [Next]_vars
      PROVE  KeptInv'
  <2>1. ASSUME NEW request \in Requests, MouseApply(request)
        PROVE  KeptInv'
    BY <2>1 DEF MouseApply, Call, KeptInv
  <2>2. ASSUME NEW backup \in backups, RestoreBackup(backup)
        PROVE  KeptInv'
    BY <2>2 DEF RestoreBackup, KeptInv
  <2>3. CASE Step
    BY <1>2, <2>3, StepFrame DEF callFrame, KeptInv
  <2>4. CASE UNCHANGED vars
    BY <1>2, <2>4 DEF vars, KeptInv
  <2> QED
    BY <1>2, <2>1, <2>2, <2>3, <2>4 DEF Next
<1> QED
    BY <1>1, <1>2, PTL DEF Spec

-----------------------------------------------------------------------------
(* The mapping.                                                            *)

Wanted == Seen(Read(asked))

LEMMA PromisedType ==
    /\ Promised \subseteq Parts \ {Flag} /\ Promised \subseteq Comparable
    /\ \A x \in Promised : \A p : ~NoMacro(p, x) /\ ~NoStage(p, x)
<1>1. Promised \subseteq Parts \ {Flag} /\ Promised \cap Macros = {} /\ Stage \notin Promised
    BY Apart DEF Promised, Singles
<1> QED
    BY <1>1 DEF Comparable, NoMacro, NoStage

LEMMA SeenType ==
    ASSUME NEW p \in Profile
    PROVE  Seen(p) \in Promise!Profiles /\ Seen(p) \in [Promised -> Values]
<1>1. \A x \in Promised : p[x] \in Values
    BY PromisedType DEF Profile
<1> QED
    BY <1>1 DEF Seen, Promise!Profiles

LEMMA InitPromise == Init => Promise!Init
<1> SUFFICES ASSUME Init PROVE Promise!Init
    OBVIOUS
<1>1. held \in Profile /\ Read(held) \in Profile
    BY ProfilesAssumption, ReadOf DEF Init
<1>2. profileBar \in Promise!Profiles
    BY <1>1, SeenType DEF Init, profileBar
<1>3. {Seen(b) : b \in backups} = {}
    BY DEF Init
<1>4. Wanted \in [Promised -> Values]
    BY <1>1, ReadOf, SeenType DEF Init, Wanted
<1> QED
    BY <1>2, <1>3, <1>4 DEF Init, Wanted, Promise!Init, Promise!Changes

\* A call begins, or begins and ends.
LEMMA CallIsAsked ==
    ASSUME IInv, NEW which, Call(which), asked' \in Profile, backups' \in {backups, Kept},
           \/ told' \in {"nothing", "refused"}
           \/ /\ told' = "applied" /\ backups' = Kept
              /\ \A x \in Promised : Read(held)[x] = Read(asked')[x]
           \/ told' = "restored" /\ backups' = backups /\ Read(held) \in backups
    PROVE  Promise!Next
<1>1. /\ record' = record /\ Read(held)' = Read(held) /\ before' = Read(held) /\ pc = "idle"
      /\ Read(asked)' = Read(asked')
    BY DEF Call, Read, InUse, OnlyPlayed
<1>2. profileBar = Seen(Read(held)) /\ profileBar' = Seen(Read(held))
    BY <1>1 DEF profileBar, Seen
<1>3. Wanted' = Seen(Read(asked')) /\ Read(asked') \in Profile
    BY <1>1, ReadOf DEF Wanted, Seen
<1>4. Promise!Asked
    BY <1>3, SeenType DEF Promise!Asked, Wanted
<1>5. /\ backups' = backups => {Seen(b) : b \in backups}' = {Seen(b) : b \in backups}
      /\ backups' = Kept =>
           {Seen(b) : b \in backups}' = {Seen(b) : b \in backups} \cup {Seen(Read(held))}
    BY DEF Kept, Seen
<1>6. CASE told' \in {"nothing", "refused"}
    BY <1>2, <1>4, <1>5, <1>6 DEF Promise!Next, Promise!Ask, Promise!Refuse, Promise!Keep
<1>7. CASE told' = "applied" /\ backups' = Kept /\ \A x \in Promised : Read(held)[x] = Read(asked')[x]
  <2>1. Promise!Overlay(Seen(Read(held)), Wanted') = Seen(Read(held))
    BY <1>3, <1>7 DEF Promise!Overlay, Seen
  <2> QED
    BY <1>2, <1>4, <1>5, <1>7, <2>1 DEF Promise!Next, Promise!Agree, Promise!Keep, Wanted
<1>8. CASE told' = "restored" /\ backups' = backups /\ Read(held) \in backups
    BY <1>2, <1>4, <1>5, <1>8 DEF Promise!Next, Promise!Restore
<1> QED
    BY <1>6, <1>7, <1>8

\* The call goes on: its caller sees nothing.
LEMMA GoingOnIsUnseen ==
    ASSUME IInv, Step, pc' # "idle"
    PROVE  UNCHANGED Promise!vars
<1>1. pc # "idle" /\ UNCHANGED callFrame
    BY StepFrame
<1>2. told = "nothing"
    BY <1>1 DEF IInv, ActiveInv, Active, WhatInv
<1>3. told' = "nothing"
    BY <1>2 DEF Step, WritePart, NoSuchStage, CheckParts, Done, ClearProfile, CheckCleared, Onward,
         Finish, Fail, PutBack, GiveUp, Write, Clear, End
<1>4. Read(asked)' = Read(asked) /\ before' = before /\ backups' = backups
    BY <1>1 DEF callFrame, Read, InUse, OnlyPlayed
<1> QED
    BY <1>1, <1>2, <1>3, <1>4 DEF profileBar, Seen, Promise!vars

\* The call ends.
LEMMA EndIsPromised ==
    ASSUME IInv, KeptInv, Step, pc' = "idle", IInv'
    PROVE  Promise!Next
<1>1. /\ pc # "idle" /\ record' = record /\ asked' = asked /\ before' = before
      /\ backups' = backups /\ op' = op /\ held' \in Profile /\ before \in Profile
      /\ Read(asked)' = Read(asked) /\ Read(before) = before
    BY StepFrame DEF callFrame, IInv, TypeOK, FormInv, Whole, Read, InUse, OnlyPlayed
<1>2. /\ profileBar = Seen(before) /\ profileBar' = Seen(Read(held)')
      /\ {Seen(b) : b \in backups}' = {Seen(b) : b \in backups}
      /\ Wanted' = Wanted
    BY <1>1 DEF profileBar, Wanted, Seen
<1>3. profileBar' \in Promise!Profiles
  <2>1. Read(held)' = Read(held')
    BY <1>1 DEF Read, InUse, OnlyPlayed
  <2> QED
    BY <1>1, <1>2, <2>1, ReadOf, SeenType
<1>4. op \in {"apply", "restore"} /\ (op = "apply" => profileBar \in {Seen(b) : b \in backups})
    BY <1>1, <1>2 DEF IInv, ActiveInv, Active, WhatInv
<1>5. \/ told' \in {"applied", "rolled_back", "rollback_failed"} /\ op = "apply"
      \/ told' \in {"restored", "restore_failed"} /\ op = "restore"
  <2>1. CASE Finish
    BY <2>1, <1>4 DEF Finish, End
  <2>2. CASE GiveUp
    BY <2>2, <1>4 DEF GiveUp, End
  <2>3. Finish \/ GiveUp
    BY DEF Step, WritePart, NoSuchStage, CheckParts, Done, ClearProfile, CheckCleared, Onward, Fail,
           PutBack, Write, Clear
  <2> QED
    BY <2>1, <2>2, <2>3
<1>6. CASE told' = "applied"
  <2>1. Comparable' = Comparable
    BY <1>1 DEF Comparable, InUse
  <2>2. \A x \in Promised : Read(held)'[x] = Read(asked)[x]
    BY <1>1, <1>6, <2>1, PromisedType DEF IInv, Outcomes, AppliedIsHeld, Reads
  <2>3. Seen(Read(held)') = Promise!Overlay(Seen(before), Wanted)
    BY <2>2 DEF Seen, Promise!Overlay, Wanted
  <2> QED
    BY <1>1, <1>2, <1>4, <1>5, <1>6, <2>3 DEF Promise!Next, Promise!Apply, Wanted
<1>7. CASE told' = "rolled_back"
  <2>1. \A x \in Promised : x \in Parts /\ ~NoMacro(before, x)'
    BY <1>1, PromisedType DEF NoMacro
  <2>2. \A x \in Promised : Read(held)'[x] = before[x]
    BY <1>1, <1>7, <2>1 DEF IInv, Outcomes, RollbackPutsBack, Reads
  <2>3. Seen(Read(held)') = Seen(before)
    BY <2>2 DEF Seen
  <2> QED
    BY <1>1, <1>2, <1>4, <1>5, <1>7, <2>3 DEF Promise!Next, Promise!RollBack, Wanted
<1>8. CASE told' = "restored"
  <2>1. asked \in backups
    BY <1>5, <1>8 DEF KeptInv
  <2>2. \A x \in Promised : /\ x \in Parts /\ x \in Comparable'
                            /\ ~NoMacro(asked, x)' /\ ~NoStage(asked, x)'
    BY <1>1, PromisedType DEF NoMacro, NoStage, Comparable, InUse
  <2>3. \A x \in Promised : Read(held)'[x] = asked[x]
    BY <1>1, <1>8, <2>2 DEF IInv, Outcomes, RestoreIsComplete, Reads
  <2>4. profileBar' \in {Seen(b) : b \in backups}
    BY <1>2, <2>1, <2>3 DEF Seen
  <2> QED
    BY <1>1, <1>2, <1>8, <2>4 DEF Promise!Next, Promise!Restore, Wanted
<1>9. CASE told' \in {"rollback_failed", "restore_failed"}
    BY <1>1, <1>2, <1>3, <1>4, <1>5, <1>9 DEF Promise!Next, Promise!Warn, Wanted
<1> QED
    BY <1>5, <1>6, <1>7, <1>8, <1>9

\* MouseApply and RestoreBackup, for both kinds of mouse, any buttons, stages, values
\* and edits and with commands failing anywhere, look to their caller like one step,
\* as KeyboardApply does: the profile is stored as a backup and then changed entirely
\* or not at all, or the caller is warned and, of an edit, has the backup
\* (mouse.go:1118-1251).
THEOREM MouseKeepsPromise == Spec => ImplementsPromise
<1>1. ASSUME IInv, KeptInv, IInv', [Next]_vars
      PROVE  [Promise!Next]_(Promise!vars)
  <2>1. held \in Profile /\ asked' \in Profile
    BY <1>1 DEF IInv, TypeOK
  <2>2. ASSUME NEW request \in Requests, MouseApply(request)
        PROVE  Promise!Next
    <3>1. /\ Call("apply") /\ backups' \in {backups, Kept} /\ UNCHANGED <<held, record>>
          /\ \/ told' \in {"nothing", "refused"}
             \/ told' = "applied" /\ backups' = Kept
      BY <2>2 DEF MouseApply, Call, End, Write
    <3>2. Read(held)' = Read(held) /\ Read(asked)' = Read(asked')
      BY <3>1 DEF Read, InUse, OnlyPlayed
    <3>3. Promised \subseteq Comparable'
      BY PromisedType, Apart DEF Comparable, Promised, Singles
    <3>4. told' = "applied" => \A x \in Promised : Read(held)[x] = Read(asked')[x]
      BY <1>1, <3>2, <3>3 DEF IInv, Outcomes, AppliedIsHeld, Reads
    <3> QED
      BY <1>1, <2>1, <3>1, <3>4, CallIsAsked
  <2>3. ASSUME NEW backup \in backups, RestoreBackup(backup)
        PROVE  Promise!Next
    <3>1. Call("restore") /\ backups' = backups
      BY <2>3 DEF RestoreBackup
    <3>2. \/ told' \in {"nothing", "refused"}
          \/ told' = "restored" /\ ~record /\ ~InUse(backup) /\ ~InUse(held)
      BY <2>3 DEF RestoreBackup, End, Write, Clear
    <3>3. ~record /\ ~InUse(backup) /\ ~InUse(held) => Read(held) = backup
      BY <1>1 DEF IInv, FormInv, Whole, Read
    <3> QED
      BY <1>1, <2>1, <3>1, <3>2, <3>3, CallIsAsked
  <2>4. CASE Step
    BY <1>1, <2>4, GoingOnIsUnseen, EndIsPromised
  <2>5. CASE UNCHANGED vars
    BY <2>5 DEF vars, profileBar, Seen, Read, InUse, OnlyPlayed, Promise!vars
  <2> QED
    BY <1>1, <2>2, <2>3, <2>4, <2>5 DEF Next
<1>2. Promise!Init /\ [][Promise!Next]_(Promise!vars) => ImplementsPromise
    BY DEF ImplementsPromise, Promise!Spec
<1> QED
    BY <1>1, <1>2, InitPromise, Always, KeptAlways, PTL DEF Spec
=============================================================================
