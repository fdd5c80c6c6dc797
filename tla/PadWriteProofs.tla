---------------------------- MODULE PadWriteProofs ----------------------------
(***************************************************************************)
(* What holds of the writes to a controller, for any platforms, slots,     *)
(* macros, values, edits and number of calls.                              *)
(***************************************************************************)
EXTENDS PadWrite, WellFoundedInduction, TLAPS

-----------------------------------------------------------------------------
(* Parts and jobs, and their order.                                        *)

LEMMA Kinds ==
    /\ Parts = Settings \cup Headers \cup Storage \cup {Light}
    /\ \A x \in Settings : x[1] = "slot" /\ x[2] \in Slots /\ x = <<"slot", x[2]>>
    /\ \A x \in Headers : x[1] = "header" /\ x[2] \in MacroIds /\ x = <<"header", x[2]>>
    /\ \A x \in Storage : x[1] = "steps" /\ x[2] \in MacroIds /\ x = <<"steps", x[2]>>
    /\ \A x \in Storage : Header(x) \in Headers /\ Header(x)[2] = x[2] /\ SlotOf[x[2]] \in Slots
    /\ Light[1] = "light"
<1>1. ASSUME NEW x \in Settings
      PROVE  x[1] = "slot" /\ x[2] \in Slots /\ x = <<"slot", x[2]>>
  <2>1. PICK n \in Slots : x = <<"slot", n>>
    BY DEF Settings
  <2> QED
    BY <2>1
<1>2. ASSUME NEW x \in Headers
      PROVE  x[1] = "header" /\ x[2] \in MacroIds /\ x = <<"header", x[2]>>
  <2>1. PICK n \in MacroIds : x = <<"header", n>>
    BY DEF Headers
  <2> QED
    BY <2>1
<1>3. ASSUME NEW x \in Storage
      PROVE  x[1] = "steps" /\ x[2] \in MacroIds /\ x = <<"steps", x[2]>>
  <2>1. PICK n \in MacroIds : x = <<"steps", n>>
    BY DEF Storage
  <2> QED
    BY <2>1
<1>4. ASSUME NEW x \in Storage
      PROVE  Header(x) \in Headers /\ Header(x)[2] = x[2] /\ SlotOf[x[2]] \in Slots
    BY <1>3, ValuesAssumption DEF Header, Headers
<1>5. Light[1] = "light"
    BY DEF Light
<1>6. Parts = Settings \cup Headers \cup Storage \cup {Light}
    BY DEF Parts, Sections
<1> QED
    BY <1>1, <1>2, <1>3, <1>4, <1>5, <1>6

\* The kinds are apart.
LEMMA Apart ==
    /\ Settings \cap Headers = {} /\ Sections \cap Storage = {}
    /\ Light \notin Sections /\ Light \notin Storage /\ Light \in Parts
    /\ Sections \subseteq Parts /\ Storage \subseteq Parts /\ Headers \subseteq Sections
    /\ \A x \in Storage : Header(x) \in Sections /\ Header(x) \in Parts
    BY Kinds DEF Sections

LEMMA JobKinds ==
    /\ \A j \in StepsJobs(Slots) : j[1] = "steps" /\ j[2] \in Slots /\ j = <<"steps", j[2]>>
    /\ \A slot \in Slots : <<"steps", slot>> \in StepsJobs(Slots)
    /\ SpansJob[1] = "spans" /\ SpansJob[2] = 0 /\ LightJob[1] = "light" /\ LightJob[2] = 0
    /\ SpansJob # LightJob /\ SpansJob \notin StepsJobs(Slots) /\ LightJob \notin StepsJobs(Slots)
<1>1. ASSUME NEW j \in StepsJobs(Slots)
      PROVE  j[1] = "steps" /\ j[2] \in Slots /\ j = <<"steps", j[2]>>
  <2>1. PICK n \in Slots : j = <<"steps", n>>
    BY DEF StepsJobs
  <2> QED
    BY <2>1
<1>2. \A slot \in Slots : <<"steps", slot>> \in StepsJobs(Slots)
    BY DEF StepsJobs
<1>3. SpansJob[1] = "spans" /\ SpansJob[2] = 0 /\ LightJob[1] = "light" /\ LightJob[2] = 0
    BY DEF SpansJob, LightJob
<1> QED
    BY <1>1, <1>2, <1>3

Less == OpToRel(<, Nat)

LEMMA Smallest ==
    ASSUME NEW T, T \subseteq Nat, T # {}
    PROVE  \E x \in T : \A y \in T : x <= y
<1>1. IsWellFoundedOn(Less, Nat)
    BY NatLessThanWellFounded DEF Less
<1>2. PICK x \in T : \A y \in T : <<y, x>> \notin Less
    BY <1>1, WFMin
<1>3. \A m, n \in Nat : m < n => <<m, n>> \in Less
    BY DEF OpToRel, Less
<1>4. \A y \in T : ~(y < x)
    BY <1>2, <1>3
<1> QED
    BY <1>4

\* Of parts of one kind the one with the smallest number.
LEMMA FirstOfKind ==
    ASSUME NEW S, S # {},
           \/ S \subseteq Settings
           \/ S \subseteq Headers
           \/ S \subseteq Storage
    PROVE  \E x \in S : \A y \in S \ {x} : x[1] = y[1] /\ x[2] < y[2]
<1>1. /\ \A x \in S : x[2] \in Nat /\ x = <<x[1], x[2]>>
      /\ \A x, y \in S : x[1] = y[1]
    BY Kinds, ValuesAssumption
<1> DEFINE ids == {x[2] : x \in S}
<1>2. PICK i \in ids : \A j \in ids : i <= j
  <2>1. ids \subseteq Nat /\ ids # {}
    BY <1>1
  <2> QED
    BY <2>1, Smallest
<1>3. PICK x \in S : x[2] = i
    BY <1>2
<1>4. ASSUME NEW y \in S \ {x}
      PROVE  x[1] = y[1] /\ x[2] < y[2]
  <2>1. y[2] \in ids /\ x[2] <= y[2] /\ x[1] = y[1]
    BY <1>1, <1>2, <1>3
  <2>2. x[2] # y[2]
    BY <1>1, <2>1
  <2> QED
    BY <1>1, <2>1, <2>2
<1> QED
    BY <1>4

\* The part that is sent next is one of those that are left.
LEMMA CurrentIsIn ==
    ASSUME todo # {}, todo \subseteq Sections \/ todo \subseteq Storage
    PROVE  Current \in todo
<1>1. \E x \in todo : \A y \in todo \ {x} : Precedes(x, y)
  <2>1. CASE todo \subseteq Settings \/ todo \subseteq Headers \/ todo \subseteq Storage
    <3>1. PICK x \in todo : \A y \in todo \ {x} : x[1] = y[1] /\ x[2] < y[2]
      BY <2>1, FirstOfKind
    <3> QED
      BY <3>1 DEF Precedes
  <2>2. CASE todo \subseteq Sections /\ todo \cap Settings # {}
    <3>1. PICK x \in todo \cap Settings :
            \A y \in (todo \cap Settings) \ {x} : x[1] = y[1] /\ x[2] < y[2]
      BY <2>2, FirstOfKind
    <3>2. x[1] = "slot" /\ \A y \in Headers : y[1] = "header"
      BY Kinds
    <3> QED
      BY <2>2, <3>1, <3>2 DEF Precedes, Sections
  <2> QED
    BY <2>1, <2>2 DEF Sections
<1> QED
    BY <1>1 DEF Current

LEMMA RankOf ==
    /\ \A j \in StepsJobs(Slots) : Rank(j[1]) = IF undoing THEN 2 ELSE 1
    /\ Rank(SpansJob[1]) = IF undoing THEN 1 ELSE 2
    /\ Rank(LightJob[1]) = 3
    BY JobKinds DEF Rank

\* The next job is one of those that are left; but in a rollback, the record
\* comes after all steps.
LEMMA JobIsFirst ==
    ASSUME TypeOK, jobs # {}
    PROVE  /\ Job \in jobs
           /\ ~undoing /\ Job = SpansJob => jobs \cap StepsJobs(Slots) = {}
<1> DEFINE steps == jobs \cap StepsJobs(Slots)
           First(j) == \A i \in jobs \ {j} :
                         Rank(j[1]) < Rank(i[1]) \/ (Rank(j[1]) = Rank(i[1]) /\ j[2] < i[2])
<1>1. jobs \subseteq StepsJobs(Slots) \cup {SpansJob, LightJob} /\ undoing \in BOOLEAN
    BY DEF TypeOK
<1>2. steps # {} => \E j \in steps : \A i \in steps \ {j} : j[2] < i[2]
  <2>1. SUFFICES ASSUME steps # {}
                 PROVE  \E j \in steps : \A i \in steps \ {j} : j[2] < i[2]
      OBVIOUS
  <2> DEFINE ids == {j[2] : j \in steps}
  <2>2. \A j \in steps : j[2] \in Nat /\ j = <<"steps", j[2]>>
    BY JobKinds, ValuesAssumption
  <2>3. PICK n \in ids : \A m \in ids : n <= m
    <3>1. ids \subseteq Nat /\ ids # {}
      BY <2>1, <2>2
    <3> QED
      BY <3>1, Smallest
  <2>4. PICK j \in steps : j[2] = n
    BY <2>3
  <2>5. ASSUME NEW i \in steps \ {j}
        PROVE  j[2] < i[2]
    <3>1. i[2] \in ids /\ j[2] <= i[2] /\ j[2] # i[2]
      BY <2>2, <2>3, <2>4
    <3> QED
      BY <2>2, <3>1
  <2> QED
    BY <2>5
<1>3. \E j \in jobs : First(j)
  <2>1. CASE steps # {} /\ (undoing => SpansJob \notin jobs)
    <3>1. PICK j \in steps : \A i \in steps \ {j} : j[2] < i[2]
      BY <1>2, <2>1
    <3>2. ASSUME NEW i \in jobs \ {j}
          PROVE  Rank(j[1]) < Rank(i[1]) \/ (Rank(j[1]) = Rank(i[1]) /\ j[2] < i[2])
      <4>1. CASE i \in steps
        BY <3>1, <3>2, <4>1, RankOf
      <4>2. CASE i = SpansJob
        BY <2>1, <3>1, <3>2, <4>2, RankOf
      <4>3. CASE i = LightJob
        BY <3>1, <4>3, RankOf
      <4> QED
        BY <1>1, <3>2, <4>1, <4>2, <4>3
    <3> QED
      BY <3>1, <3>2
  <2>2. CASE SpansJob \in jobs /\ (undoing \/ steps = {})
    <3>1. ASSUME NEW i \in jobs \ {SpansJob}
          PROVE  Rank(SpansJob[1]) < Rank(i[1])
      <4>1. CASE i \in steps
        BY <2>2, <4>1, RankOf
      <4>2. CASE i = LightJob
        BY <4>2, RankOf
      <4> QED
        BY <1>1, <3>1, <4>1, <4>2
    <3> QED
      BY <2>2, <3>1
  <2>3. CASE steps = {} /\ SpansJob \notin jobs
    <3>1. jobs = {LightJob}
      BY <1>1, <2>3
    <3> QED
      BY <3>1
  <2> QED
    BY <2>1, <2>2, <2>3
<1>4. Job \in jobs /\ First(Job)
    BY <1>3 DEF Job
<1>5. ASSUME ~undoing, Job = SpansJob, NEW i \in steps
      PROVE  FALSE
  <2>1. i \in jobs \ {Job} /\ Rank(i[1]) = 1 /\ Rank(Job[1]) = 2
    BY <1>5, JobKinds, RankOf
  <2> QED
    BY <1>4, <2>1
<1> QED
    BY <1>4, <1>5

LEMMA SameJob == UNCHANGED <<jobs, undoing>> => Job' = Job
    BY DEF Job, Rank

-----------------------------------------------------------------------------
(* The inductive invariant.                                                *)

\* No header goes without steps.
NoneEmpty(p) == \A x \in Storage : p[Header(x)] # 0 => p[x] # 0

\* A profile as it is read.
Clean(p) == NoneEmpty(p) /\ \A x \in Storage : p[Header(x)] = 0 => p[x] = 0

FormInv ==
    /\ \A p \in Platforms : NoneEmpty(held[p])
    /\ \A x \in DOMAIN staged \cap Storage : staged[x] # 0
    /\ \A b \in backups : Clean(b.profile)

Active == pc # "idle"

Diff(x) == asked.profile[x] # before[x]

\* What a call is asked.
CallInv ==
    /\ asked.on = selected
    /\ Clean(before) /\ Clean(asked.profile)
    /\ op \in {"apply", "restore"}
    /\ op = "apply" =>
         /\ [on |-> selected, profile |-> before] \in backups
         /\ \A x \in Storage : Diff(x) => asked.profile[x] # Garbage
    /\ op = "restore" => ~undoing

\* What a pass writes.
WhatInv ==
    /\ told = "nothing"
    /\ CallInv
    /\ goal = (IF undoing THEN before ELSE asked.profile)
    /\ from = (IF undoing THEN asked.profile ELSE before)
    /\ SpansJob \in jobs => Differing(goal, from, Sections) # {}

\* The macros that were not there before and whose header is, or is about to be.
HeaderUp(x) ==
    /\ before[Header(x)] = 0
    /\ \/ Addressed[Header(x)] # 0
       \/ Header(x) \in DOMAIN staged /\ staged[Header(x)] # 0

\* What no pass changes, or every pass leaves so.
LastingInv ==
    /\ \A x \in Sections :
         ~Diff(x) => Addressed[x] = before[x] /\ (x \in DOMAIN staged => staged[x] = before[x])
    /\ op = "apply" /\ ~Diff(Light) => Addressed[Light] = before[Light]
    /\ ~dirty => \A x \in Storage : ~Diff(x) =>
         x \notin DOMAIN staged /\ (before[Header(x)] # 0 => Addressed[x] = before[x])
    /\ \A x \in Storage : before[Header(x)] # 0 => Addressed[x] # 0
    /\ \A x \in Storage : HeaderUp(x) =>
         /\ Addressed[x] = asked.profile[x] /\ asked.profile[Header(x)] # 0
         /\ x \notin DOMAIN staged

\* What is done of this pass.
StepsDone ==
    \A slot \in Slots : <<"steps", slot>> \notin jobs =>
        \A x \in Rewritten(slot) : Addressed[x] = goal[x] /\ x \notin DOMAIN staged

SpansDone ==
    SpansJob \notin jobs =>
        \A x \in Sections : Diff(x) => Addressed[x] = goal[x] /\ x \notin DOMAIN staged

LightDone ==
    /\ op = "apply" /\ LightJob \notin jobs /\ Diff(Light) => Addressed[Light] = goal[Light]
    /\ LightJob \in jobs => op = "apply" /\ Diff(Light)

\* The record waits for the steps, but in a rollback.
RecordWaits ==
    ~undoing /\ jobs \cap StepsJobs(Slots) # {} =>
        \A x \in Sections : x \notin DOMAIN staged /\ Addressed[x] = before[x]

PassInv == StepsDone /\ SpansDone /\ LightDone /\ RecordWaits

PlaceInv ==
    /\ pc \in {"erase", "write"} =>
         /\ jobs # {} /\ Job[1] = "steps"
         /\ todo # {} /\ todo \subseteq Rewritten(Job[2])
    /\ pc = "span" =>
         /\ jobs # {} /\ Job = SpansJob
         /\ todo # {} /\ todo \subseteq Sections
    /\ pc \in {"commit", "check"} => jobs # {} /\ Job # LightJob
    /\ pc = "check" => staged = Nothing
    /\ pc \in {"light", "check_light"} => jobs # {} /\ Job = LightJob /\ todo = {}

ActiveInv == Active => WhatInv /\ LastingInv /\ PassInv /\ PlaceInv

Outcomes == AppliedIsHeld /\ RollbackPutsBack /\ RestoreIsComplete

IInv == TypeOK /\ FormInv /\ ActiveInv /\ Outcomes /\ BackupFirst /\ HeadersAfterSteps

-----------------------------------------------------------------------------
(* Profiles.                                                               *)

\* What is read is clean and has the record and the light effect that are held.
LEMMA ReadOf ==
    ASSUME NEW p \in Profile
    PROVE  /\ Read(p) \in Profile
           /\ \A x \in Sections \cup {Light} : Read(p)[x] = p[x]
           /\ \A x \in Storage : Read(p)[x] = IF p[Header(x)] = 0 THEN 0 ELSE p[x]
           /\ NoneEmpty(p) => Clean(Read(p))
<1>1. /\ Read(p) \in Profile
      /\ \A x \in Sections \cup {Light} : Read(p)[x] = p[x]
      /\ \A x \in Storage : Read(p)[x] = IF p[Header(x)] = 0 THEN 0 ELSE p[x]
    BY Apart, ValuesAssumption DEF Read, Profile
<1> QED
    BY <1>1, Apart DEF NoneEmpty, Clean

\* Macros without a job are not to be changed.
LEMMA SlotsOf ==
    ASSUME NEW p, NEW q
    PROVE  /\ MacroSlots(p, q) \subseteq Slots
           /\ MacroSlots(p, q) = MacroSlots(q, p)
           /\ \A x \in Storage : SlotOf[x[2]] \notin MacroSlots(p, q) =>
                p[x] = q[x] /\ p[Header(x)] = q[Header(x)]
<1>1. \A x \in Headers \cup Storage : SlotOf[x[2]] \in Slots
    BY Kinds, ValuesAssumption
<1>2. \A x \in Storage : Header(x) \in Headers /\ Header(x)[2] = x[2]
    BY Kinds
<1>3. Differing(p, q, Headers \cup Storage) = Differing(q, p, Headers \cup Storage)
    BY DEF Differing
<1>4. MacroSlots(p, q) \subseteq Slots
    BY <1>1 DEF MacroSlots, Differing
<1>5. MacroSlots(p, q) = MacroSlots(q, p)
    BY <1>3 DEF MacroSlots
<1>6. ASSUME NEW x \in Storage, SlotOf[x[2]] \notin MacroSlots(p, q)
      PROVE  p[x] = q[x] /\ p[Header(x)] = q[Header(x)]
  <2>1. x \notin Differing(p, q, Headers \cup Storage)
    BY <1>6 DEF MacroSlots
  <2>2. Header(x) \notin Differing(p, q, Headers \cup Storage)
    BY <1>2, <1>6 DEF MacroSlots
  <2> QED
    BY <1>2, <1>6, <2>1, <2>2 DEF Differing
<1> QED
    BY <1>4, <1>5, <1>6

LEMMA JobsOf ==
    ASSUME NEW p, NEW q
    PROVE  /\ Jobs(p, q) \subseteq StepsJobs(Slots) \cup {SpansJob, LightJob}
           /\ \A slot \in Slots : <<"steps", slot>> \in Jobs(p, q) <=> slot \in MacroSlots(p, q)
           /\ SpansJob \in Jobs(p, q) <=> Differing(p, q, Sections) # {}
           /\ LightJob \in Jobs(p, q) <=> p[Light] # q[Light]
           /\ RestoreJobs(p, q) \subseteq StepsJobs(Slots) \cup {SpansJob}
           /\ StepsJobs(Slots) \subseteq RestoreJobs(p, q)
           /\ SpansJob \in RestoreJobs(p, q) <=> Differing(p, q, Sections) # {}
           /\ LightJob \notin RestoreJobs(p, q)
<1>1. MacroSlots(p, q) \subseteq Slots
    BY SlotsOf
<1>2. StepsJobs(MacroSlots(p, q)) \subseteq StepsJobs(Slots)
    BY <1>1 DEF StepsJobs
<1>3. \A slot \in Slots : <<"steps", slot>> \in StepsJobs(MacroSlots(p, q)) <=> slot \in MacroSlots(p, q)
    BY DEF StepsJobs
<1>4. \A slot \in Slots : <<"steps", slot>> \notin {SpansJob, LightJob}
    BY JobKinds
<1>5. \A slot \in Slots : <<"steps", slot>> \in Jobs(p, q) <=> slot \in MacroSlots(p, q)
    BY <1>3, <1>4 DEF Jobs
<1> QED
    BY <1>2, <1>5, JobKinds DEF Jobs, RestoreJobs

\* An edit that is accepted gives a profile that can be read.
LEMMA EditedIsClean ==
    ASSUME NEW p \in Profile, NEW was \in Profile, Clean(was), Valid(p, was)
    PROVE  /\ Clean(p)
           /\ \A x \in Storage : p[x] # was[x] => p[x] # Garbage
<1>1. ASSUME NEW x \in Storage
      PROVE  /\ p[Header(x)] # 0 => p[x] # 0
             /\ p[Header(x)] = 0 => p[x] = 0
             /\ p[x] # was[x] => p[x] # Garbage
  <2>1. CASE SlotOf[x[2]] \in MacroSlots(p, was)
    <3>1. IF p[Header(x)] = 0 THEN p[x] = 0 ELSE p[x] \notin {0, Garbage}
      BY <2>1 DEF Valid, StepsOf
    <3> QED
      BY <3>1, ValuesAssumption
  <2>2. CASE SlotOf[x[2]] \notin MacroSlots(p, was)
    <3>1. p[x] = was[x] /\ p[Header(x)] = was[Header(x)]
      BY <2>2, SlotsOf
    <3> QED
      BY <3>1 DEF Clean, NoneEmpty
  <2> QED
    BY <2>1, <2>2
<1> QED
    BY <1>1 DEF Clean, NoneEmpty

-----------------------------------------------------------------------------
(* A pass.                                                                 *)

\* A call under way reports nothing, and no other call's report is due.
LEMMA NoOutcome == told' \notin {"applied", "rolled_back", "restored"} => Outcomes'
    BY DEF Outcomes, AppliedIsHeld, RollbackPutsBack, RestoreIsComplete

\* What a call may say and do at any time follows from what it keeps.
LEMMA Promises ==
    ASSUME CallInv', LastingInv'
    PROVE  BackupFirst' /\ HeadersAfterSteps'
<1>1. BackupFirst'
    BY DEF CallInv, BackupFirst
<1>2. ASSUME NEW x \in Storage,
             before'[Header(x)] = 0, Addressed'[Header(x)] # 0, Addressed'[x] = Garbage
      PROVE  op' = "restore" /\ asked'.profile[x] = Garbage
  <2>1. HeaderUp(x)'
    BY <1>2 DEF HeaderUp
  <2>2. Addressed'[x] = asked'.profile[x]
    BY <2>1 DEF LastingInv
  <2>3. before'[x] = 0
    BY <1>2 DEF CallInv, Clean
  <2>4. Diff(x)'
    BY <1>2, <2>2, <2>3, ValuesAssumption DEF Diff
  <2> QED
    BY <1>2, <2>2, <2>4 DEF CallInv
<1> QED
    BY <1>1, <1>2 DEF HeadersAfterSteps

LEMMA CallKept ==
    ASSUME CallInv, UNCHANGED callFrame, op = "restore" => ~undoing'
    PROVE  CallInv'
    BY DEF CallInv, callFrame, Diff

Cells == [Platforms -> Profile]

StagedType == DOMAIN staged \subseteq Sections \cup Storage /\ \A x \in DOMAIN staged : staged[x] \in Values

\* A step that goes on with the pass.
LEMMA Moving ==
    ASSUME IInv, Active, UNCHANGED <<callFrame, passFrame>>,
           held' \in Cells, StagedType', FormInv', LastingInv', PassInv', PlaceInv',
           jobs' \subseteq jobs, todo' \subseteq Sections \cup Storage,
           pc' \in {"next", "erase", "write", "span", "commit", "check", "light", "check_light"},
           pc' \in {"next", "commit", "check"} => todo' = {}
    PROVE  IInv'
<1>1. WhatInv /\ CallInv /\ TypeOK
    BY DEF IInv, ActiveInv, WhatInv
<1>2. TypeOK'
    BY <1>1 DEF TypeOK, callFrame, passFrame, StagedType, Cells
<1>3. CallInv'
    BY <1>1, CallKept DEF CallInv, passFrame
<1>4. WhatInv'
    BY <1>1, <1>3 DEF WhatInv, callFrame, passFrame
<1>5. Outcomes'
    BY <1>4, NoOutcome DEF WhatInv
<1> QED
    BY <1>2, <1>3, <1>4, <1>5, Promises DEF IInv, ActiveInv

\* A step that fails: the rollback begins, or the call ends.
LEMMA Failing ==
    ASSUME IInv, Active, Fail, held' \in Cells, StagedType', FormInv', LastingInv'
    PROVE  IInv'
<1>1. WhatInv /\ CallInv /\ TypeOK
    BY DEF IInv, ActiveInv, WhatInv
<1>2. UNCHANGED callFrame
    BY DEF Fail
<1>3. CASE PutBack
  <2> DEFINE undo == Jobs(asked.profile, before)
  <2>1. /\ op = "apply" /\ undoing' = TRUE /\ goal' = before /\ from' = asked.profile
        /\ jobs' = undo /\ todo' = {} /\ pc' = "next" /\ told' = "nothing"
    BY <1>3 DEF PutBack, Write, UndoJobs, FirstFailure
  <2>2. /\ undo \subseteq StepsJobs(Slots) \cup {SpansJob, LightJob}
        /\ \A slot \in Slots : <<"steps", slot>> \in undo <=> slot \in MacroSlots(asked.profile, before)
        /\ SpansJob \in undo <=> Differing(asked.profile, before, Sections) # {}
        /\ LightJob \in undo <=> Diff(Light)
    BY JobsOf DEF Diff
  <2> HIDE DEF undo
  <2>3. TypeOK'
    <3>1. asked.profile \in Profile /\ before \in Profile
      BY <1>1 DEF TypeOK, Kept
    <3> QED
      BY <1>1, <1>2, <2>1, <2>2, <3>1 DEF TypeOK, callFrame, StagedType, Cells
  <2>4. CallInv'
    BY <1>1, <1>2, <2>1, CallKept
  <2>5. UNCHANGED <<op, before, asked>>
    BY <1>2 DEF callFrame
  <2>6. WhatInv'
    BY <2>1, <2>2, <2>4, <2>5 DEF WhatInv, Differing
  <2>7. StepsDone'
    <3>1. ASSUME NEW slot \in Slots, <<"steps", slot>> \notin undo, NEW x \in StepsOf(slot)
          PROVE  asked.profile[x] = before[x]
      BY <2>2, <3>1, SlotsOf DEF StepsOf
    <3> QED
      BY <2>1, <3>1 DEF StepsDone, Rewritten
  <2>8. SpansDone' /\ LightDone' /\ RecordWaits'
    BY <2>1, <2>2, <2>5 DEF SpansDone, LightDone, RecordWaits, Diff, Differing
  <2>9. PlaceInv'
    BY <2>1 DEF PlaceInv
  <2>10. Outcomes'
    BY <2>1, NoOutcome
  <2> QED
    BY <2>3, <2>4, <2>6, <2>7, <2>8, <2>9, <2>10, Promises DEF IInv, ActiveInv, PassInv
<1>4. CASE GiveUp
  <2>1. /\ pc' = "idle" /\ jobs' = {} /\ todo' = {}
        /\ told' \in {"rollback_failed", "restore_failed"} /\ UNCHANGED <<goal, from, undoing>>
    BY <1>4 DEF GiveUp, End
  <2>2. TypeOK'
    BY <1>1, <1>2, <2>1 DEF TypeOK, callFrame, StagedType, Cells
  <2>3. CallInv'
    BY <1>1, <1>2, <2>1, CallKept DEF CallInv
  <2>4. Outcomes' /\ ~Active'
    BY <2>1, NoOutcome DEF Active
  <2> QED
    BY <2>2, <2>3, <2>4, Promises DEF IInv, ActiveInv
<1> QED
    BY <1>3, <1>4 DEF Fail

\* What a pass that went through has established.
LEMMA PassHeld ==
    ASSUME IInv, Active, jobs = {}, ~dirty
    PROVE  /\ \A x \in Parts \ {Light} : Read(Addressed)[x] = goal[x]
           /\ op = "apply" => Read(Addressed)[Light] = goal[Light]
<1>1. WhatInv /\ CallInv /\ LastingInv /\ PassInv /\ TypeOK
    BY DEF IInv, ActiveInv, WhatInv
<1>2. Addressed \in Profile
    BY <1>1 DEF TypeOK, Addressed
<1>3. goal \in {before, asked.profile} /\ from \in {before, asked.profile}
      /\ (\A x \in Parts : Diff(x) <=> goal[x] # from[x])
      /\ Clean(goal)
    BY <1>1 DEF WhatInv, CallInv, Diff
<1>4. ASSUME NEW x \in Sections
      PROVE  Addressed[x] = goal[x]
    BY <1>1, <1>3 DEF PassInv, SpansDone, LastingInv, Diff
<1>5. ASSUME op = "apply"
      PROVE  Addressed[Light] = goal[Light]
    BY <1>1, <1>3, <1>5 DEF PassInv, LightDone, LastingInv, Diff
<1>6. ASSUME NEW x \in Storage
      PROVE  (IF Addressed[Header(x)] = 0 THEN 0 ELSE Addressed[x]) = goal[x]
  <2>1. Addressed[Header(x)] = goal[Header(x)] /\ x \in Parts
    BY <1>4, Apart
  <2>2. CASE goal[Header(x)] = 0
    BY <1>3, <2>1, <2>2 DEF Clean
  <2>3. CASE goal[Header(x)] # 0 /\ Diff(x)
    <3>1. goal[x] # 0
      BY <1>3, <2>3 DEF Clean, NoneEmpty
    <3>2. SlotOf[x[2]] \in Slots /\ x \in Rewritten(SlotOf[x[2]])
      BY <1>3, <2>1, <2>3, <3>1, Kinds DEF Rewritten, StepsOf
    <3>3. Addressed[x] = goal[x]
      BY <1>1, <3>2 DEF PassInv, StepsDone
    <3> QED
      BY <2>1, <2>3, <3>3
  <2>4. CASE goal[Header(x)] # 0 /\ ~Diff(x)
    <3>1. goal[x] # 0 /\ goal[x] = before[x]
      BY <1>3, <2>4 DEF Clean, NoneEmpty, Diff
    <3>2. before[Header(x)] # 0
      BY <1>1, <3>1 DEF CallInv, Clean
    <3>3. Addressed[x] = before[x]
      BY <1>1, <2>4, <3>2 DEF LastingInv
    <3> QED
      BY <2>1, <2>4, <3>1, <3>3
  <2> QED
    BY <2>2, <2>3, <2>4
<1>7. \A x \in Parts \ {Light} : Read(Addressed)[x] = goal[x]
    BY <1>2, <1>4, <1>6, ReadOf, Kinds DEF Sections
<1> QED
    BY <1>2, <1>5, <1>7, ReadOf

-----------------------------------------------------------------------------
(* Steps.                                                                  *)

\* The part whose steps are written, and that only its own job ever names it.
LEMMA StepsCurrent ==
    ASSUME IInv, pc \in {"erase", "write"}
    PROVE  /\ Job \in jobs /\ Job[1] = "steps" /\ Job[2] \in Slots /\ Job = <<"steps", Job[2]>>
           /\ Job \in StepsJobs(Slots)
           /\ Current \in todo /\ todo \subseteq Rewritten(Job[2]) /\ todo \subseteq Storage
           /\ Current \in Storage /\ goal[Current] # 0 /\ Diff(Current)
           /\ ~HeaderUp(Current)
           /\ \A slot \in Slots : <<"steps", slot>> \notin jobs => Current \notin Rewritten(slot)
<1>1. WhatInv /\ CallInv /\ LastingInv /\ PassInv /\ PlaceInv /\ TypeOK
    BY DEF IInv, ActiveInv, Active, WhatInv
<1>2. Job \in jobs /\ Job[1] = "steps" /\ todo # {} /\ todo \subseteq Rewritten(Job[2])
    BY <1>1, JobIsFirst DEF PlaceInv
<1>3. Job \in StepsJobs(Slots)
    BY <1>1, <1>2, JobKinds DEF TypeOK
<1>4. Job[2] \in Slots /\ Job = <<"steps", Job[2]>>
    BY <1>3, JobKinds
<1>5. todo \subseteq Storage
    BY <1>2 DEF Rewritten, StepsOf
<1>6. Current \in todo
    BY <1>2, <1>5, CurrentIsIn
<1>7. /\ Current \in Storage /\ goal[Current] # 0 /\ goal[Current] # from[Current]
      /\ SlotOf[Current[2]] = Job[2]
    BY <1>2, <1>6 DEF Rewritten, StepsOf
<1>8. Diff(Current)
    BY <1>1, <1>7 DEF WhatInv, Diff
<1>9. ASSUME HeaderUp(Current) PROVE FALSE
  <2>1. before[Header(Current)] = 0
    BY <1>9 DEF HeaderUp
  <2>2. before[Current] = 0
    BY <1>1, <1>7, <2>1 DEF CallInv, Clean
  <2>3. ~undoing
    BY <1>1, <1>7, <2>2 DEF WhatInv
  <2>4. Header(Current) \in Sections
    BY <1>7, Apart
  <2>5. Header(Current) \notin DOMAIN staged /\ Addressed[Header(Current)] = before[Header(Current)]
    BY <1>1, <1>2, <1>3, <2>3, <2>4 DEF PassInv, RecordWaits
  <2> QED
    BY <1>9, <2>1, <2>5 DEF HeaderUp
<1>10. \A slot \in Slots : <<"steps", slot>> \notin jobs => Current \notin Rewritten(slot)
    BY <1>2, <1>4, <1>7 DEF Rewritten, StepsOf
<1> QED
    BY <1>2, <1>3, <1>4, <1>5, <1>6, <1>7, <1>8, <1>9, <1>10

\* What is held when one part of one platform changes.
LEMMA HeldWith ==
    ASSUME TypeOK, NEW c \in Parts, NEW v \in Values,
           held' = [held EXCEPT ![selected][c] = v], selected' = selected
    PROVE  /\ held' \in Cells
           /\ \A x \in Parts : Addressed'[x] = IF x = c THEN v ELSE Addressed[x]
           /\ \A p \in Platforms \ {selected} : held'[p] = held[p]
    BY DEF TypeOK, Cells, Profile, Addressed

LEMMA Typed ==
    ASSUME IInv
    PROVE  /\ TypeOK /\ held \in Cells /\ StagedType /\ Addressed \in Profile
           /\ goal \in Profile /\ before \in Profile /\ asked.profile \in Profile
    BY DEF IInv, TypeOK, Cells, StagedType, Addressed, Kept

LEMMA Erasing ==
    ASSUME IInv, Erase
    PROVE  IInv'
<1> DEFINE c == Current
<1>1. /\ pc = "erase" /\ held' \in {held, [held EXCEPT ![selected][c] = Garbage]}
      /\ (Onward("write", todo) \/ Fail) /\ staged' = staged
    BY DEF Erase
<1>2. Active /\ WhatInv /\ CallInv /\ LastingInv /\ PassInv /\ PlaceInv /\ TypeOK /\ FormInv
    BY <1>1 DEF IInv, ActiveInv, Active, WhatInv
<1>3. /\ Job \in jobs /\ Job[1] = "steps"
      /\ c \in todo /\ todo \subseteq Rewritten(Job[2]) /\ todo \subseteq Storage
      /\ c \in Storage /\ goal[c] # 0 /\ Diff(c)
      /\ ~HeaderUp(c)
      /\ \A slot \in Slots : <<"steps", slot>> \notin jobs => c \notin Rewritten(slot)
    BY <1>1, StepsCurrent
<1> HIDE DEF c
<1>4. UNCHANGED <<callFrame, selected, before, asked, dirty, op, backups>>
    BY <1>1 DEF Onward, Fail, callFrame
<1>5. /\ held' \in Cells
      /\ \A x \in Parts \ {c} : Addressed'[x] = Addressed[x]
      /\ Addressed'[c] \in {Addressed[c], Garbage}
      /\ \A p \in Platforms \ {selected} : held'[p] = held[p]
  <2>1. CASE held' = held
    BY <1>4, <2>1, Typed DEF Addressed
  <2>2. CASE held' = [held EXCEPT ![selected][c] = Garbage]
    <3>1. c \in Parts /\ Garbage \in Values
      BY <1>3, Apart, ValuesAssumption
    <3> QED
      BY <1>2, <1>4, <2>2, <3>1, HeldWith
  <2> QED
    BY <1>1, <2>1, <2>2
<1>6. /\ \A x \in Sections \cup {Light} : Addressed'[x] = Addressed[x]
      /\ \A x \in Storage : x # c => Addressed'[x] = Addressed[x]
      /\ \A x \in Storage : Addressed'[Header(x)] = Addressed[Header(x)]
    BY <1>3, <1>5, Apart
<1>7. FormInv'
  <2>1. NoneEmpty(Addressed')
    <3>1. NoneEmpty(Addressed)
      BY <1>2 DEF FormInv, Addressed, TypeOK
    <3> QED
      BY <1>5, <1>6, <3>1, ValuesAssumption DEF NoneEmpty
  <2>2. \A p \in Platforms : NoneEmpty(held'[p])
    BY <1>2, <1>4, <1>5, <2>1 DEF FormInv, Addressed
  <2> QED
    BY <1>1, <1>2, <1>4, <2>2 DEF FormInv
<1>8. LastingInv'
  <2>1. \A x \in Storage : HeaderUp(x)' => HeaderUp(x) /\ x # c
    BY <1>1, <1>3, <1>4, <1>6 DEF HeaderUp
  <2>2. \A x \in Parts : Diff(x)' <=> Diff(x)
    BY <1>4 DEF Diff
  <2>3. \A x \in Sections : ~Diff(x)' => Addressed'[x] = before'[x]
                                         /\ (x \in DOMAIN staged' => staged'[x] = before'[x])
    BY <1>1, <1>2, <1>4, <1>6, <2>2, Apart DEF LastingInv
  <2>4. op' = "apply" /\ ~Diff(Light)' => Addressed'[Light] = before'[Light]
    BY <1>2, <1>4, <1>6, <2>2, Apart DEF LastingInv
  <2>5. ~dirty' => \A x \in Storage : ~Diff(x)' =>
           x \notin DOMAIN staged' /\ (before'[Header(x)] # 0 => Addressed'[x] = before'[x])
    BY <1>1, <1>2, <1>3, <1>4, <1>6, <2>2, Apart DEF LastingInv
  <2>6. \A x \in Storage : before'[Header(x)] # 0 => Addressed'[x] # 0
    BY <1>2, <1>4, <1>5, <1>6, ValuesAssumption DEF LastingInv
  <2>7. \A x \in Storage : HeaderUp(x)' =>
           /\ Addressed'[x] = asked'.profile[x] /\ asked'.profile[Header(x)] # 0
           /\ x \notin DOMAIN staged'
    BY <1>1, <1>2, <1>4, <1>6, <2>1 DEF LastingInv
  <2> QED
    BY <2>3, <2>4, <2>5, <2>6, <2>7 DEF LastingInv
<1>9. CASE Onward("write", todo)
  <2>1. pc' = "write" /\ todo' = todo /\ UNCHANGED <<callFrame, passFrame, jobs, goal, from, undoing>>
    BY <1>9 DEF Onward, passFrame
  <2>2. Job' = Job /\ \A slot : Rewritten(slot)' = Rewritten(slot)
    BY <2>1, SameJob DEF Rewritten
  <2>3. StepsDone'
    BY <1>1, <1>2, <1>3, <1>6, <2>1, <2>2 DEF PassInv, StepsDone, Rewritten, StepsOf
  <2>4. SpansDone'
    BY <1>1, <1>2, <1>4, <1>6, <2>1 DEF PassInv, SpansDone, Diff
  <2>5. LightDone'
    BY <1>1, <1>2, <1>4, <1>6, <2>1 DEF PassInv, LightDone, Diff
  <2>6. RecordWaits'
    BY <1>1, <1>2, <1>4, <1>6, <2>1 DEF PassInv, RecordWaits
  <2>7. PlaceInv'
    BY <1>1, <1>2, <2>1, <2>2 DEF PlaceInv
  <2> QED
    BY <1>1, <1>2, <1>3, <1>5, <1>7, <1>8, <2>1, <2>3, <2>4, <2>5, <2>6, <2>7, Moving, Typed
       DEF PassInv, StagedType
<1>10. CASE Fail
    BY <1>1, <1>2, <1>5, <1>7, <1>8, <1>10, Failing, Typed DEF StagedType
<1> QED
    BY <1>1, <1>9, <1>10

\* What is staged when one part is sent, or may have been.
LEMMA StagedWith ==
    ASSUME IInv, NEW c \in Sections \cup Storage, NEW v \in Values, staged' \in {staged, Stage(c, v)}
    PROVE  /\ StagedType'
           /\ \A x \in DOMAIN staged' : x # c => x \in DOMAIN staged /\ staged'[x] = staged[x]
           /\ c \in DOMAIN staged' => \/ staged'[c] = v
                                      \/ c \in DOMAIN staged /\ staged'[c] = staged[c]
<1>1. CASE staged' = staged
    BY <1>1, Typed DEF StagedType
<1>2. CASE staged' = Stage(c, v)
  <2>1. /\ DOMAIN staged' = DOMAIN staged \cup {c}
        /\ \A x \in DOMAIN staged' : staged'[x] = IF x = c THEN v ELSE staged[x]
    BY <1>2 DEF Stage
  <2>2. DOMAIN staged \subseteq Sections \cup Storage /\ \A x \in DOMAIN staged : staged[x] \in Values
    BY Typed DEF StagedType
  <2>3. \A x \in DOMAIN staged' : x # c => x \in DOMAIN staged /\ staged'[x] = staged[x]
    BY <2>1
  <2>4. c \in DOMAIN staged' /\ staged'[c] = v
    BY <2>1
  <2>5. DOMAIN staged' \subseteq Sections \cup Storage
    BY <2>1, <2>2
  <2>6. \A x \in DOMAIN staged' : staged'[x] \in Values
    BY <2>2, <2>3, <2>4
  <2>7. StagedType'
    BY <2>5, <2>6 DEF StagedType
  <2> QED
    BY <2>3, <2>4, <2>7
<1> QED
    BY <1>1, <1>2

LEMMA WritingSteps ==
    ASSUME IInv, WriteSteps
    PROVE  IInv'
<1> DEFINE c == Current
           rest == todo \ {c}
<1>1. pc = "write" /\ held' = held
    BY DEF WriteSteps
<1>2. PICK v \in {goal[c], Garbage} :
        /\ staged' \in {staged, Stage(c, v)}
        /\ Onward(IF rest = {} THEN "commit" ELSE "erase", rest) \/ Fail
    BY DEF WriteSteps
<1>3. Active /\ WhatInv /\ CallInv /\ LastingInv /\ PassInv /\ PlaceInv /\ TypeOK /\ FormInv
    BY <1>1 DEF IInv, ActiveInv, Active, WhatInv
<1>4. /\ Job \in jobs /\ Job[1] = "steps" /\ Job \in StepsJobs(Slots)
      /\ c \in todo /\ todo \subseteq Rewritten(Job[2]) /\ todo \subseteq Storage
      /\ c \in Storage /\ goal[c] # 0 /\ Diff(c)
      /\ ~HeaderUp(c)
      /\ \A slot \in Slots : <<"steps", slot>> \notin jobs => c \notin Rewritten(slot)
    BY <1>1, StepsCurrent
<1> HIDE DEF c
<1>5. UNCHANGED <<callFrame, selected, before, asked, dirty, op, backups, Addressed>>
    BY <1>1, <1>2 DEF Onward, Fail, callFrame, Addressed
<1>6. v \in Values /\ v # 0 /\ c \notin Sections
  <2>1. goal[c] \in Values
    BY <1>4, Apart, Typed DEF Profile
  <2> QED
    BY <1>2, <1>4, <2>1, Apart, ValuesAssumption
<1>7. /\ StagedType'
      /\ \A x \in DOMAIN staged' : x # c => x \in DOMAIN staged /\ staged'[x] = staged[x]
      /\ c \in DOMAIN staged' => \/ staged'[c] = v
                                 \/ c \in DOMAIN staged /\ staged'[c] = staged[c]
    BY <1>2, <1>4, <1>6, StagedWith
<1>8. FormInv'
  <2>1. \A x \in DOMAIN staged' \cap Storage : staged'[x] # 0
    BY <1>3, <1>6, <1>7 DEF FormInv
  <2> QED
    BY <1>1, <1>3, <1>5, <2>1 DEF FormInv
<1>9. LastingInv'
  <2>1. \A x \in Sections : x \in DOMAIN staged' => x \in DOMAIN staged /\ staged'[x] = staged[x]
    BY <1>6, <1>7
  <2>2. \A x \in Storage : HeaderUp(x)' => HeaderUp(x) /\ x # c
    BY <1>4, <1>5, <2>1, Apart DEF HeaderUp
  <2>3. \A x \in Parts : Diff(x)' <=> Diff(x)
    BY <1>5 DEF Diff
  <2>4. \A x \in Sections : ~Diff(x)' => Addressed'[x] = before'[x]
                                         /\ (x \in DOMAIN staged' => staged'[x] = before'[x])
    BY <1>3, <1>5, <2>1, <2>3, Apart DEF LastingInv
  <2>5. op' = "apply" /\ ~Diff(Light)' => Addressed'[Light] = before'[Light]
    BY <1>3, <1>5, <2>3, Apart DEF LastingInv
  <2>6. ~dirty' => \A x \in Storage : ~Diff(x)' =>
           x \notin DOMAIN staged' /\ (before'[Header(x)] # 0 => Addressed'[x] = before'[x])
    BY <1>3, <1>4, <1>5, <1>7, <2>3, Apart DEF LastingInv
  <2>7. \A x \in Storage : before'[Header(x)] # 0 => Addressed'[x] # 0
    BY <1>3, <1>5 DEF LastingInv
  <2>8. \A x \in Storage : HeaderUp(x)' =>
           /\ Addressed'[x] = asked'.profile[x] /\ asked'.profile[Header(x)] # 0
           /\ x \notin DOMAIN staged'
    BY <1>3, <1>5, <1>7, <2>2 DEF LastingInv
  <2> QED
    BY <2>4, <2>5, <2>6, <2>7, <2>8 DEF LastingInv
<1>10. CASE Onward(IF rest = {} THEN "commit" ELSE "erase", rest)
  <2>1. /\ pc' = (IF rest = {} THEN "commit" ELSE "erase") /\ todo' = rest
        /\ UNCHANGED <<callFrame, passFrame, jobs, goal, from, undoing>>
    BY <1>10 DEF Onward, passFrame
  <2>2. Job' = Job /\ \A slot : Rewritten(slot)' = Rewritten(slot)
    BY <2>1, SameJob DEF Rewritten
  <2>3. StepsDone'
    BY <1>3, <1>4, <1>5, <1>7, <2>1, <2>2 DEF PassInv, StepsDone, Rewritten, StepsOf
  <2>4. SpansDone'
    BY <1>3, <1>5, <1>6, <1>7, <2>1 DEF PassInv, SpansDone, Diff
  <2>5. LightDone'
    BY <1>3, <1>5, <2>1 DEF PassInv, LightDone, Diff
  <2>6. RecordWaits'
    BY <1>3, <1>5, <1>6, <1>7, <2>1 DEF PassInv, RecordWaits
  <2>7. PlaceInv'
    <3>1. jobs' # {} /\ Job'[1] = "steps" /\ Job' # LightJob /\ todo' \subseteq Rewritten(Job[2])'
      BY <1>4, <2>1, <2>2, JobKinds
    <3> QED
      BY <2>1, <3>1 DEF PlaceInv
  <2> QED
    BY <1>1, <1>3, <1>4, <1>7, <1>8, <1>9, <2>1, <2>3, <2>4, <2>5, <2>6, <2>7, Moving, Typed
       DEF PassInv
<1>11. CASE Fail
    BY <1>1, <1>3, <1>7, <1>8, <1>9, <1>11, Failing, Typed
<1> QED
    BY <1>2, <1>10, <1>11

LEMMA WritingSpan ==
    ASSUME IInv, WriteSpan
    PROVE  IInv'
<1> DEFINE c == Current
           rest == todo \ {c}
           v == goal[c]
<1>1. /\ pc = "span" /\ held' = held /\ staged' \in {staged, Stage(c, v)}
      /\ Onward(IF rest = {} THEN "commit" ELSE "span", rest) \/ Fail
    BY DEF WriteSpan
<1>2. Active /\ WhatInv /\ CallInv /\ LastingInv /\ PassInv /\ PlaceInv /\ TypeOK /\ FormInv
    BY <1>1 DEF IInv, ActiveInv, Active, WhatInv
<1>3. /\ Job = SpansJob /\ Job \in jobs
      /\ ~undoing => jobs \cap StepsJobs(Slots) = {}
      /\ todo \subseteq Sections /\ c \in todo /\ c \in Sections
  <2>1. jobs # {} /\ Job = SpansJob /\ todo # {} /\ todo \subseteq Sections
    BY <1>1, <1>2 DEF PlaceInv
  <2> QED
    BY <1>2, <2>1, JobIsFirst, CurrentIsIn
<1> HIDE DEF c
<1>4. UNCHANGED <<callFrame, selected, before, asked, dirty, op, backups, Addressed>>
    BY <1>1 DEF Onward, Fail, callFrame, Addressed
<1>5. v \in Values /\ c \notin Storage
    BY <1>3, Apart, Typed DEF Profile
<1> HIDE DEF v
<1>6. /\ StagedType'
      /\ \A x \in DOMAIN staged' : x # c => x \in DOMAIN staged /\ staged'[x] = staged[x]
      /\ c \in DOMAIN staged' => \/ staged'[c] = v
                                 \/ c \in DOMAIN staged /\ staged'[c] = staged[c]
    BY <1>1, <1>3, <1>5, StagedWith
<1>7. \A x \in Storage : x \in DOMAIN staged' => x \in DOMAIN staged /\ staged'[x] = staged[x]
    BY <1>5, <1>6
<1>8. FormInv'
    BY <1>1, <1>2, <1>4, <1>7 DEF FormInv
<1>9. LastingInv'
  <2>1. \A x \in Parts : Diff(x)' <=> Diff(x)
    BY <1>4 DEF Diff
  <2>2. \A x \in Sections : ~Diff(x)' => Addressed'[x] = before'[x]
                                         /\ (x \in DOMAIN staged' => staged'[x] = before'[x])
    <3>1. ~Diff(c) => v = before[c]
      BY <1>2 DEF WhatInv, Diff, v
    <3> QED
      BY <1>2, <1>4, <1>6, <2>1, <3>1, Apart DEF LastingInv
  <2>3. op' = "apply" /\ ~Diff(Light)' => Addressed'[Light] = before'[Light]
    BY <1>2, <1>4, <2>1, Apart DEF LastingInv
  <2>4. ~dirty' => \A x \in Storage : ~Diff(x)' =>
           x \notin DOMAIN staged' /\ (before'[Header(x)] # 0 => Addressed'[x] = before'[x])
    BY <1>2, <1>4, <1>7, <2>1, Apart DEF LastingInv
  <2>5. \A x \in Storage : before'[Header(x)] # 0 => Addressed'[x] # 0
    BY <1>2, <1>4 DEF LastingInv
  <2>6. ASSUME NEW x \in Storage, HeaderUp(x)'
        PROVE  /\ Addressed'[x] = asked'.profile[x] /\ asked'.profile[Header(x)] # 0
               /\ x \notin DOMAIN staged'
    <3>1. CASE HeaderUp(x)
      BY <1>2, <1>4, <1>7, <2>6, <3>1 DEF LastingInv
    <3>2. CASE ~HeaderUp(x)
      <4>1. before[Header(x)] = 0 /\ Header(x) = c /\ v # 0
        BY <1>4, <1>6, <2>6, <3>2 DEF HeaderUp
      <4>2. ~undoing /\ goal = asked.profile /\ from = before
        BY <1>2, <4>1 DEF WhatInv, v
      <4>3. asked.profile[Header(x)] # 0 /\ asked.profile[x] # 0 /\ before[x] = 0
        BY <1>2, <4>1, <4>2 DEF CallInv, Clean, NoneEmpty, v
      <4>4. SlotOf[x[2]] \in Slots /\ x \in Rewritten(SlotOf[x[2]])
        BY <4>2, <4>3, Kinds DEF Rewritten, StepsOf
      <4>5. <<"steps", SlotOf[x[2]]>> \notin jobs
        BY <1>3, <4>2, <4>4, JobKinds
      <4>6. Addressed[x] = goal[x] /\ x \notin DOMAIN staged
        BY <1>2, <4>4, <4>5 DEF PassInv, StepsDone
      <4> QED
        BY <1>4, <1>7, <2>6, <4>2, <4>3, <4>6
    <3> QED
      BY <3>1, <3>2
  <2> QED
    BY <2>2, <2>3, <2>4, <2>5, <2>6 DEF LastingInv
<1>10. CASE Onward(IF rest = {} THEN "commit" ELSE "span", rest)
  <2>1. /\ pc' = (IF rest = {} THEN "commit" ELSE "span") /\ todo' = rest
        /\ UNCHANGED <<callFrame, passFrame, jobs, goal, from, undoing>>
    BY <1>10 DEF Onward, passFrame
  <2>2. Job' = Job /\ \A slot : Rewritten(slot)' = Rewritten(slot)
    BY <2>1, SameJob DEF Rewritten
  <2>3. StepsDone'
    <3>1. \A slot \in Slots : Rewritten(slot) \subseteq Storage
      BY DEF Rewritten, StepsOf
    <3> QED
      BY <1>2, <1>4, <1>7, <2>1, <2>2, <3>1 DEF PassInv, StepsDone
  <2>4. SpansDone' /\ RecordWaits'
    BY <1>3, <2>1 DEF SpansDone, RecordWaits
  <2>5. LightDone'
    BY <1>2, <1>4, <2>1 DEF PassInv, LightDone, Diff
  <2>6. PlaceInv'
    BY <1>3, <2>1, <2>2, JobKinds DEF PlaceInv
  <2> QED
    BY <1>1, <1>2, <1>3, <1>6, <1>8, <1>9, <2>1, <2>3, <2>4, <2>5, <2>6, Moving, Typed
       DEF PassInv
<1>11. CASE Fail
    BY <1>1, <1>2, <1>6, <1>8, <1>9, <1>11, Failing, Typed
<1> QED
    BY <1>1, <1>10, <1>11

LEMMA Committing ==
    ASSUME IInv, Commit
    PROVE  IInv'
<1>1. /\ pc = "commit"
      /\ \/ Committed /\ (Onward("check", {}) \/ Fail)
         \/ UNCHANGED <<held, staged>> /\ Fail
    BY DEF Commit
<1>2. Active /\ WhatInv /\ CallInv /\ LastingInv /\ PassInv /\ PlaceInv /\ TypeOK /\ FormInv
    BY <1>1 DEF IInv, ActiveInv, Active, WhatInv
<1>3. UNCHANGED <<callFrame, selected, before, asked, dirty, op, backups>>
    BY <1>1 DEF Onward, Fail, callFrame
<1>4. CASE UNCHANGED <<held, staged>> /\ Fail
  <2>1. FormInv' /\ Addressed' = Addressed
    BY <1>2, <1>3, <1>4 DEF FormInv, Addressed
  <2>2. LastingInv'
    BY <1>2, <1>3, <1>4, <2>1 DEF LastingInv, HeaderUp, Diff
  <2> QED
    BY <1>2, <1>4, <2>1, <2>2, Failing, Typed DEF StagedType
<1>5. CASE Committed /\ (Onward("check", {}) \/ Fail)
  <2>1. held' = [held EXCEPT ![selected] = Overlay(@, staged)] /\ staged' = Nothing
    BY <1>5 DEF Committed
  <2>2. DOMAIN staged' = {} /\ StagedType'
    BY <2>1 DEF Nothing, StagedType
  <2>3. /\ Overlay(Addressed, staged) \in Profile
        /\ \A x \in Parts : Overlay(Addressed, staged)[x] = IF x \in DOMAIN staged THEN staged[x]
                                                           ELSE Addressed[x]
    BY Typed DEF Overlay, Profile, StagedType
  <2>4. /\ held' \in Cells /\ Addressed' = Overlay(Addressed, staged)
        /\ \A p \in Platforms \ {selected} : held'[p] = held[p]
    BY <1>2, <1>3, <2>1, <2>3 DEF TypeOK, Cells, Addressed
  <2>5. \A x \in Parts : Addressed'[x] = IF x \in DOMAIN staged THEN staged[x] ELSE Addressed[x]
    BY <2>3, <2>4
  <2>6. ASSUME NEW x \in Storage, before[Header(x)] = 0, Addressed'[Header(x)] # 0
        PROVE  HeaderUp(x) /\ Addressed'[x] = Addressed[x]
    <3>1. x \in Parts /\ Header(x) \in Parts
      BY Apart
    <3>2. HeaderUp(x)
      BY <2>5, <2>6, <3>1 DEF HeaderUp
    <3>3. x \notin DOMAIN staged
      BY <1>2, <3>2 DEF LastingInv
    <3> QED
      BY <2>5, <3>1, <3>2, <3>3
  <2>7. FormInv'
    <3>1. ASSUME NEW x \in Storage, Addressed'[Header(x)] # 0
          PROVE  Addressed'[x] # 0
      <4>1. CASE x \in DOMAIN staged
        BY <1>2, <2>5, <4>1, Apart DEF FormInv
      <4>2. CASE x \notin DOMAIN staged /\ before[Header(x)] # 0
        BY <1>2, <2>5, <4>2, Apart DEF LastingInv
      <4>3. CASE before[Header(x)] = 0
        <5>1. HeaderUp(x) /\ Addressed'[x] = Addressed[x]
          BY <2>6, <3>1, <4>3
        <5>2. Addressed[x] = asked.profile[x] /\ asked.profile[Header(x)] # 0
          BY <1>2, <5>1 DEF LastingInv
        <5> QED
          BY <1>2, <5>1, <5>2 DEF CallInv, Clean, NoneEmpty
      <4> QED
        BY <4>1, <4>2, <4>3
    <3>2. \A p \in Platforms : NoneEmpty(held'[p])
      BY <1>2, <1>3, <2>4, <3>1 DEF FormInv, NoneEmpty, Addressed
    <3> QED
      BY <1>2, <1>3, <2>2, <3>2 DEF FormInv
  <2>8. LastingInv'
    <3>1. \A x \in Parts : Diff(x)' <=> Diff(x)
      BY <1>3 DEF Diff
    <3>2. \A x \in Sections : ~Diff(x)' => Addressed'[x] = before'[x]
                                           /\ (x \in DOMAIN staged' => staged'[x] = before'[x])
      BY <1>2, <1>3, <2>2, <2>5, <3>1, Apart DEF LastingInv
    <3>3. op' = "apply" /\ ~Diff(Light)' => Addressed'[Light] = before'[Light]
      BY <1>2, <1>3, <2>5, <3>1, Apart DEF LastingInv, TypeOK
    <3>4. ~dirty' => \A x \in Storage : ~Diff(x)' =>
             x \notin DOMAIN staged' /\ (before'[Header(x)] # 0 => Addressed'[x] = before'[x])
      BY <1>2, <1>3, <2>2, <2>5, <3>1, Apart DEF LastingInv
    <3>5. \A x \in Storage : before'[Header(x)] # 0 => Addressed'[x] # 0
      BY <1>2, <1>3, <2>5, Apart DEF LastingInv, FormInv
    <3>6. ASSUME NEW x \in Storage, HeaderUp(x)'
          PROVE  /\ Addressed'[x] = asked'.profile[x] /\ asked'.profile[Header(x)] # 0
                 /\ x \notin DOMAIN staged'
      <4>1. before[Header(x)] = 0 /\ Addressed'[Header(x)] # 0
        BY <1>3, <2>2, <3>6 DEF HeaderUp
      <4>2. HeaderUp(x) /\ Addressed'[x] = Addressed[x]
        BY <2>6, <4>1
      <4> QED
        BY <1>2, <1>3, <2>2, <4>2 DEF LastingInv
    <3> QED
      BY <3>2, <3>3, <3>4, <3>5, <3>6 DEF LastingInv
  <2>9. CASE Onward("check", {})
    <3>1. /\ pc' = "check" /\ todo' = {}
          /\ UNCHANGED <<callFrame, passFrame, jobs, goal, from, undoing>>
      BY <2>9 DEF Onward, passFrame
    <3>2. Job' = Job /\ \A slot : Rewritten(slot)' = Rewritten(slot)
      BY <3>1, SameJob DEF Rewritten
    <3>3. StepsDone'
      <4>1. \A slot \in Slots : Rewritten(slot) \subseteq Parts
        BY Apart DEF Rewritten, StepsOf
      <4> QED
        BY <1>2, <2>2, <2>5, <3>1, <3>2, <4>1 DEF PassInv, StepsDone
    <3>4. SpansDone'
      BY <1>2, <1>3, <2>2, <2>5, <3>1, Apart DEF PassInv, SpansDone, Diff
    <3>5. LightDone'
      BY <1>2, <1>3, <2>5, <3>1, Apart DEF PassInv, LightDone, Diff, TypeOK
    <3>6. RecordWaits'
      BY <1>2, <1>3, <2>2, <2>5, <3>1, Apart DEF PassInv, RecordWaits
    <3>7. PlaceInv'
      BY <1>1, <1>2, <2>1, <3>1, <3>2 DEF PlaceInv
    <3> QED
      BY <1>2, <2>2, <2>4, <2>7, <2>8, <3>1, <3>3, <3>4, <3>5, <3>6, <3>7, Moving DEF PassInv
  <2>10. CASE Fail
    BY <1>2, <2>2, <2>4, <2>7, <2>8, <2>10, Failing
  <2> QED
    BY <1>5, <2>9, <2>10
<1> QED
    BY <1>1, <1>4, <1>5

\* Steps that change nothing on the controller.
LEMMA Still ==
    ASSUME IInv, Active, UNCHANGED <<held, staged, callFrame>>
    PROVE  /\ held' \in Cells /\ StagedType' /\ FormInv' /\ LastingInv'
           /\ Addressed' = Addressed /\ UNCHANGED <<before, asked, op, backups>>
<1>1. LastingInv /\ FormInv
    BY DEF IInv, ActiveInv
<1>2. UNCHANGED <<selected, before, asked, dirty, op, backups>>
    BY DEF callFrame
<1>3. Addressed' = Addressed
    BY <1>2 DEF Addressed
<1>4. FormInv'
    BY <1>1, <1>2 DEF FormInv
<1>5. LastingInv'
    BY <1>1, <1>2, <1>3 DEF LastingInv, HeaderUp, Diff
<1> QED
    BY <1>2, <1>3, <1>4, <1>5, Typed DEF StagedType

\* A job is done once its parts are as they should be.
LEMMA JobDoing ==
    ASSUME IInv, Active, JobDone, UNCHANGED <<held, staged>>, jobs # {}, todo = {},
           Job[1] = "steps" => \A x \in Rewritten(Job[2]) : Addressed[x] = goal[x] /\ x \notin DOMAIN staged,
           Job = SpansJob => \A x \in Spans : Addressed[x] = goal[x] /\ x \notin DOMAIN staged,
           Job = LightJob => Addressed[Light] = goal[Light]
    PROVE  IInv'
<1>1. WhatInv /\ CallInv /\ PassInv /\ TypeOK /\ undoing' = undoing
    BY DEF IInv, ActiveInv, WhatInv, JobDone, passFrame
<1>2. /\ pc' = "next" /\ jobs' = jobs \ {Job}
      /\ UNCHANGED <<callFrame, passFrame, todo, goal, from>>
    BY DEF JobDone, passFrame
<1>3. /\ held' \in Cells /\ StagedType' /\ FormInv' /\ LastingInv'
      /\ Addressed' = Addressed /\ UNCHANGED <<before, asked, op>>
    BY <1>2, Still
<1>4. Job \in jobs /\ jobs \subseteq StepsJobs(Slots) \cup {SpansJob, LightJob}
    BY <1>1, JobIsFirst DEF TypeOK
<1>5. StepsDone'
  <2>1. ASSUME NEW slot \in Slots, <<"steps", slot>> \notin jobs', NEW x \in Rewritten(slot)
        PROVE  Addressed[x] = goal[x] /\ x \notin DOMAIN staged
    <3>1. CASE <<"steps", slot>> \notin jobs
      BY <1>1, <2>1, <3>1 DEF PassInv, StepsDone
    <3>2. CASE <<"steps", slot>> = Job
      <4>1. Job[1] = "steps" /\ Job[2] = slot
        BY <3>2
      <4> QED
        BY <2>1, <4>1
    <3> QED
      BY <1>2, <2>1, <3>1, <3>2
  <2>2. \A slot : Rewritten(slot)' = Rewritten(slot)
    BY <1>2 DEF Rewritten
  <2> QED
    BY <1>2, <1>3, <2>1, <2>2 DEF StepsDone
<1>6. SpansDone'
  <2>1. ASSUME NEW x \in Sections, Diff(x), SpansJob \notin jobs'
        PROVE  Addressed[x] = goal[x] /\ x \notin DOMAIN staged
    <3>1. CASE SpansJob \notin jobs
      BY <1>1, <2>1, <3>1 DEF PassInv, SpansDone
    <3>2. CASE SpansJob = Job
      <4>1. x \in Spans
        BY <1>1, <2>1 DEF Spans, Differing, WhatInv, Diff
      <4> QED
        BY <3>2, <4>1
    <3> QED
      BY <1>2, <2>1, <3>1, <3>2
  <2> QED
    BY <1>2, <1>3, <2>1 DEF SpansDone, Diff
<1>7. LightDone'
    BY <1>1, <1>2, <1>3 DEF PassInv, LightDone, Diff
<1>8. RecordWaits'
    BY <1>1, <1>2, <1>3 DEF PassInv, RecordWaits
<1>9. PlaceInv'
    BY <1>2 DEF PlaceInv
<1> QED
    BY <1>2, <1>3, <1>5, <1>6, <1>7, <1>8, <1>9, Moving DEF PassInv

\* A step that goes on without changing the controller or the jobs.
LEMMA GoingOn ==
    ASSUME IInv, Active, UNCHANGED <<held, staged, callFrame, passFrame, jobs>>, PlaceInv',
           todo' \subseteq Sections \cup Storage,
           pc' \in {"next", "erase", "write", "span", "commit", "check", "light", "check_light"},
           pc' \in {"next", "commit", "check"} => todo' = {}
    PROVE  IInv'
<1>1. PassInv /\ UNCHANGED <<goal, from, undoing>>
    BY DEF IInv, ActiveInv, passFrame
<1>2. /\ held' \in Cells /\ StagedType' /\ FormInv' /\ LastingInv'
      /\ Addressed' = Addressed /\ UNCHANGED <<before, asked, op>>
    BY Still
<1>3. PassInv'
    BY <1>1, <1>2 DEF PassInv, StepsDone, SpansDone, LightDone, RecordWaits, Diff, Rewritten
<1> QED
    BY <1>2, <1>3, Moving

LEMMA Taking ==
    ASSUME IInv, NextJob
    PROVE  IInv'
<1>1. /\ pc = "next" /\ jobs # {} /\ UNCHANGED <<held, staged>>
      /\ \/ Job[1] = "steps" /\ Rewritten(Job[2]) = {} /\ JobDone
         \/ Job[1] = "steps" /\ Rewritten(Job[2]) # {} /\ Onward("erase", Rewritten(Job[2]))
         \/ Job[1] = "spans" /\ Onward("span", IF whole THEN Sections ELSE Spans)
         \/ Job[1] = "light" /\ Onward("light", {})
  <2>1. /\ pc = "next" /\ jobs # {} /\ UNCHANGED <<held, staged>>
        /\ CASE Job[1] = "steps" -> IF Rewritten(Job[2]) = {} THEN JobDone
                                    ELSE Onward("erase", Rewritten(Job[2]))
             [] Job[1] = "spans" -> Onward("span", IF whole THEN Sections ELSE Spans)
             [] Job[1] = "light" -> Onward("light", {})
    BY DEF NextJob
  <2>2. Job \in StepsJobs(Slots) \cup {SpansJob, LightJob}
    BY <2>1, JobIsFirst, Typed DEF TypeOK
  <2>3. Job[1] \in {"steps", "spans", "light"}
    BY <2>2, JobKinds
  <2> QED
    BY <2>1, <2>3
<1>2. Active /\ WhatInv /\ TypeOK /\ todo = {} /\ Job \in jobs
    BY <1>1, JobIsFirst DEF IInv, ActiveInv, Active, TypeOK
<1>3. Job \in StepsJobs(Slots) \cup {SpansJob, LightJob}
    BY <1>2 DEF TypeOK
<1>4. CASE Job[1] = "steps" /\ Rewritten(Job[2]) = {} /\ JobDone
  <2>1. Job # SpansJob /\ Job # LightJob
    BY <1>4, JobKinds
  <2> QED
    BY <1>1, <1>2, <1>4, <2>1, JobDoing
<1>5. CASE Job[1] = "steps" /\ Rewritten(Job[2]) # {} /\ Onward("erase", Rewritten(Job[2]))
  <2>1. /\ pc' = "erase" /\ todo' = Rewritten(Job[2])
        /\ UNCHANGED <<callFrame, passFrame, jobs, goal, from, undoing>>
    BY <1>5 DEF Onward, passFrame
  <2>2. Job' = Job /\ \A slot : Rewritten(slot)' = Rewritten(slot)
    BY <2>1, SameJob DEF Rewritten
  <2>3. PlaceInv' /\ todo' \subseteq Storage
    BY <1>1, <1>5, <2>1, <2>2 DEF PlaceInv, Rewritten, StepsOf
  <2> QED
    BY <1>1, <1>2, <2>1, <2>3, GoingOn
<1>6. CASE Job[1] = "spans" /\ Onward("span", IF whole THEN Sections ELSE Spans)
  <2>1. /\ pc' = "span" /\ todo' = (IF whole THEN Sections ELSE Spans)
        /\ UNCHANGED <<callFrame, passFrame, jobs, goal, from, undoing>>
    BY <1>6 DEF Onward, passFrame
  <2>2. Job = SpansJob
    BY <1>3, <1>6, JobKinds
  <2>3. Spans # {} /\ Spans \subseteq Sections
    BY <1>2, <2>2 DEF WhatInv, Spans, Differing
  <2>4. Job' = Job
    BY <2>1, SameJob
  <2>5. PlaceInv'
    BY <1>1, <2>1, <2>2, <2>3, <2>4 DEF PlaceInv
  <2> QED
    BY <1>1, <1>2, <2>1, <2>3, <2>5, GoingOn
<1>7. CASE Job[1] = "light" /\ Onward("light", {})
  <2>1. /\ pc' = "light" /\ todo' = {}
        /\ UNCHANGED <<callFrame, passFrame, jobs, goal, from, undoing>>
    BY <1>7 DEF Onward, passFrame
  <2>2. Job = LightJob
    BY <1>3, <1>7, JobKinds
  <2>3. Job' = Job
    BY <2>1, SameJob
  <2>4. PlaceInv'
    BY <1>1, <2>1, <2>2, <2>3 DEF PlaceInv
  <2> QED
    BY <1>1, <1>2, <2>1, <2>4, GoingOn
<1> QED
    BY <1>1, <1>4, <1>5, <1>6, <1>7

LEMMA Checking ==
    ASSUME IInv, Check
    PROVE  IInv'
<1>1. /\ pc = "check" /\ UNCHANGED <<held, staged>>
      /\ \/ Matches(IF Job = SpansJob THEN Spans ELSE Rewritten(Job[2])) /\ JobDone
         \/ Fail
    BY DEF Check
<1>2. Active /\ PlaceInv /\ TypeOK
    BY <1>1 DEF IInv, ActiveInv, Active
<1>3. jobs # {} /\ Job # LightJob /\ staged = Nothing /\ DOMAIN staged = {} /\ todo = {}
    BY <1>1, <1>2 DEF PlaceInv, Nothing, TypeOK
<1>4. CASE Matches(IF Job = SpansJob THEN Spans ELSE Rewritten(Job[2])) /\ JobDone
  <2>1. Job = SpansJob => Job[1] # "steps"
    BY JobKinds
  <2> QED
    BY <1>1, <1>2, <1>3, <1>4, <2>1, JobDoing DEF Matches, JobDone
<1>5. CASE Fail
  <2>1. UNCHANGED callFrame
    BY <1>5 DEF Fail
  <2> QED
    BY <1>1, <1>2, <1>5, <2>1, Still, Failing
<1> QED
    BY <1>1, <1>4, <1>5

LEMMA CheckingLight ==
    ASSUME IInv, CheckLight
    PROVE  IInv'
<1>1. /\ pc = "check_light" /\ UNCHANGED <<held, staged>>
      /\ (Matches({Light}) /\ JobDone) \/ Fail
    BY DEF CheckLight
<1>2. Active /\ PlaceInv /\ TypeOK
    BY <1>1 DEF IInv, ActiveInv, Active
<1>3. jobs # {} /\ Job = LightJob /\ todo = {}
    BY <1>1, <1>2 DEF PlaceInv
<1>4. CASE Matches({Light}) /\ JobDone
    BY <1>1, <1>2, <1>3, <1>4, JobKinds, JobDoing DEF Matches, JobDone
<1>5. CASE Fail
  <2>1. UNCHANGED callFrame
    BY <1>5 DEF Fail
  <2> QED
    BY <1>1, <1>2, <1>5, <2>1, Still, Failing
<1> QED
    BY <1>1, <1>4, <1>5

LEMMA Lighting ==
    ASSUME IInv, SetLightEffect
    PROVE  IInv'
<1>1. /\ pc = "light" /\ staged' = staged
      /\ held' \in {held, [p \in Platforms |-> [held[p] EXCEPT ![Light] = goal[Light]]]}
      /\ Onward("check_light", {}) \/ Fail
    BY DEF SetLightEffect
<1>2. Active /\ WhatInv /\ CallInv /\ LastingInv /\ PassInv /\ PlaceInv /\ TypeOK /\ FormInv
    BY <1>1 DEF IInv, ActiveInv, Active, WhatInv
<1>3. LightJob \in jobs /\ Diff(Light) /\ Job = LightJob /\ todo = {}
  <2>1. jobs # {} /\ Job = LightJob /\ todo = {}
    BY <1>1, <1>2 DEF PlaceInv
  <2>2. LightJob \in jobs
    BY <1>2, <2>1, JobIsFirst
  <2> QED
    BY <1>2, <2>1, <2>2 DEF PassInv, LightDone
<1>4. UNCHANGED <<callFrame, selected, before, asked, dirty, op, backups>>
    BY <1>1 DEF Onward, Fail, callFrame
<1>5. /\ held' \in Cells
      /\ \A p \in Platforms : \A x \in Parts \ {Light} : held'[p][x] = held[p][x]
  <2>1. goal[Light] \in Values
    BY Apart, Typed DEF Profile
  <2> QED
    BY <1>1, <2>1, Typed DEF Cells, Profile
<1>6. /\ \A x \in Sections \cup Storage : Addressed'[x] = Addressed[x]
      /\ \A x \in Storage : Addressed'[Header(x)] = Addressed[Header(x)]
  <2>1. selected \in Platforms
    BY <1>2 DEF TypeOK
  <2> QED
    BY <1>4, <1>5, <2>1, Apart DEF Addressed
<1>7. FormInv'
    BY <1>1, <1>2, <1>4, <1>5, Apart DEF FormInv, NoneEmpty
<1>8. LastingInv'
  <2>1. \A x \in Parts : Diff(x)' <=> Diff(x)
    BY <1>4 DEF Diff
  <2>2. \A x \in Storage : HeaderUp(x)' <=> HeaderUp(x)
    BY <1>1, <1>4, <1>6 DEF HeaderUp
  <2> QED
    BY <1>1, <1>2, <1>3, <1>4, <1>6, <2>1, <2>2, Apart DEF LastingInv
<1>9. CASE Onward("check_light", {})
  <2>1. /\ pc' = "check_light" /\ todo' = {}
        /\ UNCHANGED <<callFrame, passFrame, jobs, goal, from, undoing>>
    BY <1>9 DEF Onward, passFrame
  <2>2. Job' = Job /\ \A slot : Rewritten(slot)' = Rewritten(slot)
    BY <2>1, SameJob DEF Rewritten
  <2>3. StepsDone'
    <3>1. \A slot \in Slots : Rewritten(slot) \subseteq Storage
      BY DEF Rewritten, StepsOf
    <3> QED
      BY <1>1, <1>2, <1>6, <2>1, <2>2, <3>1 DEF PassInv, StepsDone
  <2>4. SpansDone' /\ RecordWaits'
    BY <1>1, <1>2, <1>4, <1>6, <2>1 DEF PassInv, SpansDone, RecordWaits, Diff
  <2>5. LightDone'
    BY <1>2, <1>3, <1>4, <2>1 DEF PassInv, LightDone, Diff
  <2>6. PlaceInv'
    BY <1>3, <2>1, <2>2 DEF PlaceInv
  <2> QED
    BY <1>1, <1>2, <1>5, <1>7, <1>8, <2>1, <2>3, <2>4, <2>5, <2>6, Moving, Typed
       DEF PassInv, StagedType
<1>10. CASE Fail
    BY <1>1, <1>2, <1>5, <1>7, <1>8, <1>10, Failing, Typed DEF StagedType
<1> QED
    BY <1>1, <1>9, <1>10

LEMMA Ending ==
    ASSUME IInv, Done
    PROVE  IInv'
<1>1. /\ pc = "next" /\ jobs = {} /\ UNCHANGED <<callFrame, held, staged, undoing, goal, from>>
      /\ pc' = "idle" /\ jobs' = {} /\ todo' = {}
      /\ told' = (IF op = "restore" THEN "restored" ELSE IF undoing THEN "rolled_back" ELSE "applied")
    BY DEF Done, End
<1>2. Active /\ WhatInv /\ CallInv /\ TypeOK
    BY <1>1 DEF IInv, ActiveInv, Active, WhatInv
<1>3. /\ held' \in Cells /\ StagedType' /\ FormInv' /\ LastingInv'
      /\ Addressed' = Addressed /\ UNCHANGED <<before, asked, op, backups, selected, dirty>>
    BY <1>1, <1>2, Still DEF callFrame
<1>4. TypeOK' /\ ~Active'
    BY <1>1, <1>2, <1>3 DEF TypeOK, callFrame, Active
<1>5. BackupFirst' /\ HeadersAfterSteps'
    BY <1>1, <1>2, <1>3, CallKept, Promises DEF CallInv
<1>6. Outcomes'
  <2>1. SUFFICES ASSUME ~dirty
                 PROVE  Outcomes'
      BY <1>3 DEF Outcomes, AppliedIsHeld, RollbackPutsBack, RestoreIsComplete
  <2>2. /\ \A x \in Parts \ {Light} : Read(Addressed)[x] = goal[x]
        /\ op = "apply" => Read(Addressed)[Light] = goal[Light]
    BY <1>1, <1>2, <2>1, PassHeld
  <2>3. Read(Addressed)' = Read(Addressed)
    BY <1>3 DEF Read
  <2>4. op = "apply" => Read(Addressed) = goal
    <3>1. Read(Addressed) \in Profile /\ goal \in Profile
      BY Typed, ReadOf
    <3> QED
      BY <2>2, <3>1 DEF Profile
  <2>5. Addressed' = held'[asked'.on]
    BY <1>2, <1>3 DEF CallInv, Addressed
  <2>6. Read(held[asked.on])' = Read(Addressed)
    BY <1>3, <2>5 DEF Read
  <2>7. AppliedIsHeld'
    BY <1>1, <1>2, <1>3, <2>4, <2>6 DEF AppliedIsHeld, WhatInv, CallInv
  <2>8. RollbackPutsBack'
    BY <1>1, <1>2, <1>3, <2>3, <2>4 DEF RollbackPutsBack, WhatInv, CallInv
  <2>9. RestoreIsComplete'
    BY <1>1, <1>2, <1>3, <2>2, <2>6 DEF RestoreIsComplete, WhatInv, CallInv
  <2> QED
    BY <2>7, <2>8, <2>9 DEF Outcomes
<1> QED
    BY <1>3, <1>4, <1>5, <1>6 DEF IInv, ActiveInv

-----------------------------------------------------------------------------
(* Calls.                                                                  *)

\* A session begins with nothing of the record staged.
LEMMA Opening ==
    ASSUME IInv, NEW chosen \in Platforms, Open(chosen)
    PROVE  /\ pc = "idle" /\ held' = held /\ whole' = whole /\ selected' \in Platforms
           /\ StagedType' /\ DOMAIN staged' \subseteq Storage
           /\ \A x \in DOMAIN staged' : staged'[x] # 0
<1>1. /\ pc = "idle" /\ UNCHANGED <<held, whole>> /\ selected' \in Selectable(chosen)
      /\ staged' \in {Nothing, [x \in DOMAIN staged \cap Storage |-> staged[x]]}
    BY DEF Open
<1>2. TypeOK /\ FormInv
    BY DEF IInv
<1>3. selected' \in Platforms
    BY <1>1, <1>2 DEF Selectable, TypeOK
<1>4. CASE staged' = Nothing
    BY <1>1, <1>3, <1>4 DEF Nothing, StagedType
<1>5. CASE staged' = [x \in DOMAIN staged \cap Storage |-> staged[x]]
  <2>1. /\ DOMAIN staged' = DOMAIN staged \cap Storage
        /\ \A x \in DOMAIN staged' : staged'[x] = staged[x]
    BY <1>5
  <2>2. StagedType'
    BY <2>1, Typed DEF StagedType
  <2> QED
    BY <1>1, <1>2, <1>3, <2>1, <2>2 DEF FormInv
<1> QED
    BY <1>1, <1>4, <1>5

LEMMA Reading ==
    ASSUME IInv, NEW chosen \in Platforms, PadReadProfile(chosen)
    PROVE  IInv'
<1>1. /\ Open(chosen) /\ op' = "none" /\ told' = "nothing"
      /\ read' = {[on |-> selected', profile |-> Read(held[selected'])]} \/ read' = read
      /\ UNCHANGED <<backups, pc, before, asked, goal, from, jobs, todo, undoing, dirty, calls>>
    BY DEF PadReadProfile
<1>2. TypeOK /\ FormInv
    BY DEF IInv
<1>3. /\ pc = "idle" /\ held' = held /\ whole' = whole /\ selected' \in Platforms
      /\ StagedType' /\ DOMAIN staged' \subseteq Storage
      /\ \A x \in DOMAIN staged' : staged'[x] # 0
    BY <1>1, Opening
<1>4. read' \subseteq Kept
  <2>1. Read(held[selected']) \in Profile
    BY <1>2, <1>3, ReadOf DEF TypeOK
  <2> QED
    BY <1>1, <1>2, <1>3, <2>1 DEF TypeOK, Kept
<1>5. TypeOK'
    BY <1>1, <1>2, <1>3, <1>4 DEF TypeOK, StagedType
<1>6. FormInv'
    BY <1>1, <1>2, <1>3 DEF FormInv
<1>7. ~Active' /\ Outcomes'
    BY <1>1, <1>3, NoOutcome DEF Active
<1> QED
    BY <1>1, <1>5, <1>6, <1>7 DEF IInv, ActiveInv, BackupFirst, HeadersAfterSteps

\* Whatever becomes of a call.
LEMMA Calling ==
    ASSUME IInv, NEW which \in {"apply", "restore"}, NEW platform \in Platforms,
           Call(which, platform), asked' \in Kept,
           backups' = backups \/ backups' = backups \cup {Backup}
    PROVE  /\ held' = held /\ op' = which /\ undoing' = FALSE /\ selected' \in Platforms
           /\ before' = Read(Addressed') /\ before' \in Profile /\ Clean(before')
           /\ Addressed' \in Profile /\ NoneEmpty(Addressed')
           /\ DOMAIN staged' \subseteq Storage /\ (~dirty' => DOMAIN staged' = {})
           /\ FormInv' /\ BackupFirst' /\ HeadersAfterSteps'
           /\ \A how : End(how) => ~Active'
           /\ \A how : how \in {"refused", "applied"} /\ End(how) => TypeOK'
           /\ \A what, over, some :
                what \in Profile /\ over \in Profile /\ Write(what, over, some)
                  /\ some \subseteq StepsJobs(Slots) \cup {SpansJob, LightJob} => TypeOK'
<1>1. /\ Open(platform) /\ calls < MaxCalls /\ calls' = calls + 1 /\ op' = which
      /\ before' = Read(held[selected']) /\ dirty' = (DOMAIN staged' # {}) /\ undoing' = FALSE
      /\ read' = read
    BY DEF Call
<1>2. TypeOK /\ FormInv
    BY DEF IInv
<1>3. /\ pc = "idle" /\ held' = held /\ whole' = whole /\ selected' \in Platforms
      /\ StagedType' /\ DOMAIN staged' \subseteq Storage
      /\ \A x \in DOMAIN staged' : staged'[x] # 0
    BY <1>1, Opening
<1>4. /\ Addressed' = held[selected'] /\ Addressed' \in Profile /\ NoneEmpty(Addressed')
    BY <1>2, <1>3 DEF Addressed, TypeOK, FormInv
<1>5. before' = Read(Addressed') /\ before' \in Profile /\ Clean(before')
    BY <1>1, <1>4, ReadOf
<1>6. backups' \subseteq Kept /\ \A b \in backups' : Clean(b.profile)
  <2>1. Backup \in Kept /\ Backup.profile = before'
    BY <1>3, <1>5 DEF Backup, Kept
  <2> QED
    BY <1>2, <1>5, <2>1 DEF TypeOK, FormInv
<1>7. FormInv'
    BY <1>2, <1>3, <1>6 DEF FormInv
<1>8. BackupFirst'
    BY <1>5 DEF BackupFirst, Read
<1>9. HeadersAfterSteps'
  <2>1. \A x \in Storage : before'[Header(x)] = Addressed'[Header(x)]
    BY <1>4, <1>5, Apart, ReadOf
  <2> QED
    BY <2>1 DEF HeadersAfterSteps
<1>10. calls' \in 0..MaxCalls
    BY <1>1, <1>2, CallsAssumption DEF TypeOK
<1>11. dirty' \in BOOLEAN
    BY <1>1
<1>12. ASSUME NEW how, how \in {"refused", "applied"}, End(how)
       PROVE  TypeOK'
  <2>1. pc' = "idle" /\ jobs' = {} /\ todo' = {} /\ told' = how /\ UNCHANGED <<goal, from>>
    BY <1>12 DEF End
  <2> QED
    BY <1>1, <1>2, <1>3, <1>5, <1>6, <1>10, <1>11, <1>12, <2>1 DEF TypeOK, StagedType
<1>13. ASSUME NEW what, NEW over, NEW some,
              what \in Profile, over \in Profile, Write(what, over, some),
              some \subseteq StepsJobs(Slots) \cup {SpansJob, LightJob}
       PROVE  TypeOK'
  <2>1. /\ pc' = "next" /\ jobs' = some /\ todo' = {} /\ told' = "nothing"
        /\ goal' = what /\ from' = over
    BY <1>13 DEF Write
  <2> QED
    BY <1>1, <1>2, <1>3, <1>5, <1>6, <1>10, <1>11, <1>13, <2>1 DEF TypeOK, StagedType
<1>14. \A how : End(how) => ~Active'
    BY DEF End, Active
<1> QED
    BY <1>1, <1>3, <1>4, <1>5, <1>7, <1>8, <1>9, <1>12, <1>13, <1>14

\* The first pass, with nothing done yet.
LEMMA Beginning ==
    ASSUME before' = Read(Addressed'), Addressed' \in Profile, NoneEmpty(Addressed'),
           DOMAIN staged' \subseteq Storage, ~dirty' => DOMAIN staged' = {}, undoing' = FALSE,
           NEW some, Write(asked'.profile, before', some),
           \A x \in Storage :
               <<"steps", SlotOf[x[2]]>> \notin some => asked'.profile[x] = before'[x],
           SpansJob \in some <=> Differing(asked'.profile, before', Sections) # {},
           LightJob \in some <=> op' = "apply" /\ asked'.profile[Light] # before'[Light]
    PROVE  LastingInv' /\ PassInv' /\ PlaceInv' /\ Outcomes'
<1>1. /\ goal' = asked'.profile /\ from' = before' /\ jobs' = some /\ pc' = "next"
      /\ told' = "nothing"
    BY DEF Write
<1>2. /\ \A x \in Sections \cup {Light} : before'[x] = Addressed'[x]
      /\ \A x \in Storage : before'[x] = IF Addressed'[Header(x)] = 0 THEN 0 ELSE Addressed'[x]
      /\ \A x \in Storage : before'[Header(x)] = Addressed'[Header(x)]
    BY ReadOf, Apart
<1>3. Sections \cap DOMAIN staged' = {}
    BY Apart
<1>4. LastingInv'
  <2>1. \A x \in Sections : ~Diff(x)' => Addressed'[x] = before'[x]
                                         /\ (x \in DOMAIN staged' => staged'[x] = before'[x])
    BY <1>2, <1>3
  <2>2. op' = "apply" /\ ~Diff(Light)' => Addressed'[Light] = before'[Light]
    BY <1>2
  <2>3. ~dirty' => \A x \in Storage : ~Diff(x)' =>
           x \notin DOMAIN staged' /\ (before'[Header(x)] # 0 => Addressed'[x] = before'[x])
    BY <1>2
  <2>4. \A x \in Storage : before'[Header(x)] # 0 => Addressed'[x] # 0
    BY <1>2 DEF NoneEmpty
  <2>5. \A x \in Storage : ~HeaderUp(x)'
    BY <1>2, <1>3, Apart DEF HeaderUp
  <2> QED
    BY <2>1, <2>2, <2>3, <2>4, <2>5 DEF LastingInv
<1>5. StepsDone'
  <2>1. ASSUME NEW slot \in Slots, <<"steps", slot>> \notin some, NEW x \in StepsOf(slot)
        PROVE  asked'.profile[x] = before'[x]
    BY <2>1 DEF StepsOf
  <2> QED
    BY <1>1, <2>1 DEF StepsDone, Rewritten
<1>6. SpansDone'
    BY <1>1 DEF SpansDone, Diff, Differing
<1>7. LightDone'
    BY <1>1 DEF LightDone, Diff
<1>8. RecordWaits'
    BY <1>2, <1>3 DEF RecordWaits
<1>9. PlaceInv'
    BY <1>1 DEF PlaceInv
<1>10. Outcomes'
    BY <1>1, NoOutcome
<1> QED
    BY <1>4, <1>5, <1>6, <1>7, <1>8, <1>9, <1>10 DEF PassInv

LEMMA Applying ==
    ASSUME IInv, NEW request \in Requests, PadApply(request)
    PROVE  IInv'
<1>1. PICK profile \in read :
        LET edited == Overlay(profile.profile, request)
            which == Jobs(edited, before')
        IN  /\ Call("apply", profile.on)
            /\ asked' = [on |-> profile.on, profile |-> edited]
            /\ \/ End("refused") /\ UNCHANGED backups
               \/ /\ Holds(profile.on)
                  /\ Valid(edited, before')
                  /\ backups' = backups \cup {Backup}
                  /\ \/ which = {} /\ End("applied")
                     \/ which # {} /\ (Write(edited, before', which) \/ SyncRefused)
    BY DEF PadApply
<1> DEFINE edited == Overlay(profile.profile, request)
           which == Jobs(edited, before')
<1>2. /\ Call("apply", profile.on) /\ asked' = [on |-> profile.on, profile |-> edited]
      /\ backups' = backups \/ backups' = backups \cup {Backup}
    BY <1>1
<1>3. \/ End("refused")
      \/ /\ Holds(profile.on) /\ Valid(edited, before') /\ backups' = backups \cup {Backup}
         /\ which = {} /\ End("applied")
      \/ /\ Holds(profile.on) /\ Valid(edited, before') /\ backups' = backups \cup {Backup}
         /\ Write(edited, before', which)
    BY <1>1 DEF SyncRefused
<1>4. profile.on \in Platforms /\ profile.profile \in Profile
    BY DEF IInv, TypeOK, Kept
<1>5. edited \in Profile
  <2>1. PICK S \in SUBSET Parts : request \in [S -> Values]
    BY ProfilesAssumption DEF Changes
  <2> QED
    BY <1>4, <2>1 DEF Overlay, Profile
<1> HIDE DEF edited
<1>6. asked' \in Kept /\ asked'.on = profile.on /\ asked'.profile = edited
    BY <1>2, <1>4, <1>5 DEF Kept
<1>7. /\ held' = held /\ op' = "apply" /\ undoing' = FALSE /\ selected' \in Platforms
      /\ before' = Read(Addressed') /\ before' \in Profile /\ Clean(before')
      /\ Addressed' \in Profile /\ NoneEmpty(Addressed')
      /\ DOMAIN staged' \subseteq Storage /\ (~dirty' => DOMAIN staged' = {})
      /\ FormInv' /\ BackupFirst' /\ HeadersAfterSteps'
      /\ \A how : End(how) => ~Active'
      /\ \A how : how \in {"refused", "applied"} /\ End(how) => TypeOK'
      /\ \A what, over, some :
           what \in Profile /\ over \in Profile /\ Write(what, over, some)
             /\ some \subseteq StepsJobs(Slots) \cup {SpansJob, LightJob} => TypeOK'
    BY <1>2, <1>4, <1>6, Calling
<1>8. /\ which \subseteq StepsJobs(Slots) \cup {SpansJob, LightJob}
      /\ \A slot \in Slots : <<"steps", slot>> \in which <=> slot \in MacroSlots(edited, before')
      /\ SpansJob \in which <=> Differing(edited, before', Sections) # {}
      /\ LightJob \in which <=> edited[Light] # before'[Light]
    BY JobsOf
<1> HIDE DEF which
<1>9. \A x \in Storage : <<"steps", SlotOf[x[2]]>> \notin which => edited[x] = before'[x]
    BY <1>8, SlotsOf, Kinds
<1>10. CASE End("refused")
  <2>1. told' = "refused" /\ ~Active' /\ TypeOK'
    BY <1>7, <1>10 DEF End
  <2> QED
    BY <1>7, <2>1, NoOutcome DEF IInv, ActiveInv
<1>11. CASE Holds(profile.on) /\ which = {} /\ End("applied")
  <2>1. told' = "applied" /\ ~Active' /\ TypeOK' /\ selected' = profile.on
    BY <1>7, <1>11 DEF End, Holds
  <2>2. \A x \in Parts : edited[x] = before'[x]
    BY <1>8, <1>9, <1>11, Kinds DEF Differing, Sections
  <2>3. edited = before'
    BY <1>5, <1>7, <2>2 DEF Profile
  <2>4. Read(held[asked.on])' = Read(Addressed')
    BY <1>6, <2>1 DEF Read, Addressed
  <2> QED
    BY <1>6, <1>7, <2>1, <2>3, <2>4
       DEF IInv, ActiveInv, Outcomes, AppliedIsHeld, RollbackPutsBack, RestoreIsComplete
<1>12. CASE /\ Holds(profile.on) /\ Valid(edited, before') /\ backups' = backups \cup {Backup}
            /\ Write(edited, before', which)
  <2>1. TypeOK'
    BY <1>5, <1>7, <1>8, <1>12
  <2>2. LastingInv' /\ PassInv' /\ PlaceInv' /\ Outcomes'
    BY <1>6, <1>7, <1>8, <1>9, <1>12, Beginning
  <2>3. Clean(edited) /\ \A x \in Storage : edited[x] # before'[x] => edited[x] # Garbage
    BY <1>5, <1>7, <1>12, EditedIsClean
  <2>4. CallInv'
    <3>1. [on |-> selected', profile |-> before'] \in backups'
      BY <1>12 DEF Backup
    <3> QED
      BY <1>6, <1>7, <1>12, <2>3, <3>1 DEF CallInv, Holds, Diff
  <2>5. WhatInv'
    <3>1. goal' = edited /\ from' = before' /\ jobs' = which /\ told' = "nothing"
      BY <1>12 DEF Write
    <3> QED
      BY <1>6, <1>7, <1>8, <2>4, <3>1 DEF WhatInv, Differing
  <2> QED
    BY <1>7, <2>1, <2>2, <2>5 DEF IInv, ActiveInv
<1> QED
    BY <1>3, <1>10, <1>11, <1>12

LEMMA Restoring ==
    ASSUME IInv, NEW backup \in backups, RestoreBackup(backup)
    PROVE  IInv'
<1> DEFINE which == RestoreJobs(backup.profile, before')
<1>1. /\ Call("restore", backup.on) /\ asked' = backup /\ backups' = backups
      /\ End("refused") \/ (Holds(backup.on) /\ Write(backup.profile, before', which))
    BY DEF RestoreBackup
<1>2. /\ backup \in Kept /\ backup.on \in Platforms /\ backup.profile \in Profile
      /\ Clean(backup.profile)
    BY DEF IInv, TypeOK, Kept, FormInv
<1>3. /\ held' = held /\ op' = "restore" /\ undoing' = FALSE /\ selected' \in Platforms
      /\ before' = Read(Addressed') /\ before' \in Profile /\ Clean(before')
      /\ Addressed' \in Profile /\ NoneEmpty(Addressed')
      /\ DOMAIN staged' \subseteq Storage /\ (~dirty' => DOMAIN staged' = {})
      /\ FormInv' /\ BackupFirst' /\ HeadersAfterSteps'
      /\ \A how : End(how) => ~Active'
      /\ \A how : how \in {"refused", "applied"} /\ End(how) => TypeOK'
      /\ \A what, over, some :
           what \in Profile /\ over \in Profile /\ Write(what, over, some)
             /\ some \subseteq StepsJobs(Slots) \cup {SpansJob, LightJob} => TypeOK'
    BY <1>1, <1>2, Calling
<1>4. /\ which \subseteq StepsJobs(Slots) \cup {SpansJob, LightJob}
      /\ StepsJobs(Slots) \subseteq which
      /\ SpansJob \in which <=> Differing(backup.profile, before', Sections) # {}
      /\ LightJob \notin which
    BY JobsOf
<1> HIDE DEF which
<1>5. CASE End("refused")
  <2>1. told' = "refused" /\ ~Active' /\ TypeOK'
    BY <1>3, <1>5 DEF End
  <2> QED
    BY <1>3, <2>1, NoOutcome DEF IInv, ActiveInv
<1>6. CASE Holds(backup.on) /\ Write(backup.profile, before', which)
  <2>1. TypeOK'
    BY <1>2, <1>3, <1>4, <1>6
  <2>2. \A x \in Storage : <<"steps", SlotOf[x[2]]>> \in which
    BY <1>4, Kinds, JobKinds
  <2>3. LastingInv' /\ PassInv' /\ PlaceInv' /\ Outcomes'
    BY <1>1, <1>3, <1>4, <1>6, <2>2, Beginning
  <2>4. CallInv'
    BY <1>1, <1>2, <1>3, <1>6 DEF CallInv, Holds
  <2>5. WhatInv'
    <3>1. goal' = backup.profile /\ from' = before' /\ jobs' = which /\ told' = "nothing"
      BY <1>6 DEF Write
    <3> QED
      BY <1>1, <1>3, <1>4, <2>4, <3>1 DEF WhatInv, Differing
  <2> QED
    BY <1>3, <2>1, <2>3, <2>5 DEF IInv, ActiveInv
<1> QED
    BY <1>1, <1>5, <1>6

-----------------------------------------------------------------------------
(* The invariant.                                                          *)

LEMMA Started == Init => IInv
<1> SUFFICES ASSUME Init PROVE IInv
    OBVIOUS
<1>1. held \in Cells /\ \A p \in Platforms : NoneEmpty(held[p])
    BY ProfilesAssumption, Apart DEF Init, Cells, NoneEmpty
<1>2. Addressed \in Profile /\ DOMAIN staged = {}
    BY <1>1 DEF Init, Addressed, Cells, Nothing
<1>3. TypeOK
  <2>1. /\ selected \in Platforms /\ asked = [on |-> selected, profile |-> Addressed]
        /\ before = Addressed /\ goal = Addressed /\ from = Addressed
        /\ jobs = {} /\ todo = {} /\ calls = 0 /\ read = {} /\ backups = {}
        /\ whole \in BOOLEAN /\ undoing = FALSE /\ dirty = FALSE
        /\ op = "none" /\ pc = "idle" /\ told = "nothing"
    BY DEF Init
  <2>2. asked \in Kept
    BY <1>2, <2>1 DEF Kept
  <2>3. calls \in 0..MaxCalls
    BY <2>1, CallsAssumption
  <2> QED
    BY <1>1, <1>2, <2>1, <2>2, <2>3 DEF TypeOK, Cells
<1>4. FormInv
    BY <1>1, <1>2 DEF Init, FormInv
<1> QED
    BY <1>3, <1>4 DEF Init, IInv, ActiveInv, Active, Outcomes, AppliedIsHeld, RollbackPutsBack,
        RestoreIsComplete, BackupFirst, HeadersAfterSteps

LEMMA Stuttering ==
    ASSUME IInv, UNCHANGED vars
    PROVE  IInv'
<1>1. /\ UNCHANGED <<held, selected, staged, whole, read, backups, op, pc, before>>
      /\ UNCHANGED <<asked, goal, from, jobs, todo, undoing, dirty, told, calls>>
    BY DEF vars
<1>2. Job' = Job /\ Addressed' = Addressed /\ Active' = Active
    BY <1>1, SameJob DEF Addressed, Active
<1>3. CASE Active
  <2>1. PlaceInv
    BY <1>3 DEF IInv, ActiveInv
  <2>2. PlaceInv'
    BY <1>1, <1>2, <2>1 DEF PlaceInv, Rewritten
  <2>3. /\ todo' \subseteq Sections \cup Storage
        /\ pc' \in {"next", "erase", "write", "span", "commit", "check", "light", "check_light"}
        /\ pc' \in {"next", "commit", "check"} => todo' = {}
    BY <1>1, <1>3 DEF IInv, TypeOK, Active
  <2> QED
    BY <1>1, <1>3, <2>2, <2>3, GoingOn DEF callFrame, passFrame
<1>4. CASE ~Active
  <2>1. TypeOK'
    BY <1>1 DEF IInv, TypeOK
  <2>2. FormInv'
    BY <1>1 DEF IInv, FormInv
  <2>3. Outcomes'
    BY <1>1, <1>2 DEF IInv, Outcomes, AppliedIsHeld, RollbackPutsBack, RestoreIsComplete, Read
  <2>4. BackupFirst' /\ HeadersAfterSteps'
    BY <1>1, <1>2 DEF IInv, BackupFirst, HeadersAfterSteps, Read
  <2> QED
    BY <1>2, <1>4, <2>1, <2>2, <2>3, <2>4 DEF IInv, ActiveInv
<1> QED
    BY <1>3, <1>4

LEMMA StepsKeep == IInv /\ [Next]_vars => IInv'
<1> SUFFICES ASSUME IInv, [Next]_vars PROVE IInv'
    OBVIOUS
<1>1. ASSUME NEW chosen \in Platforms, PadReadProfile(chosen)
      PROVE  IInv'
    BY <1>1, Reading
<1>2. ASSUME NEW request \in Requests, PadApply(request)
      PROVE  IInv'
    BY <1>2, Applying
<1>3. ASSUME NEW backup \in backups, RestoreBackup(backup)
      PROVE  IInv'
    BY <1>3, Restoring
<1>4. CASE NextJob
    BY <1>4, Taking
<1>5. CASE Erase
    BY <1>5, Erasing
<1>6. CASE WriteSteps
    BY <1>6, WritingSteps
<1>7. CASE WriteSpan
    BY <1>7, WritingSpan
<1>8. CASE Commit
    BY <1>8, Committing
<1>9. CASE Check
    BY <1>9, Checking
<1>10. CASE SetLightEffect
    BY <1>10, Lighting
<1>11. CASE CheckLight
    BY <1>11, CheckingLight
<1>12. CASE Done
    BY <1>12, Ending
<1>13. CASE UNCHANGED vars
    BY <1>13, Stuttering
<1> QED
    BY <1>1, <1>2, <1>3, <1>4, <1>5, <1>6, <1>7, <1>8, <1>9, <1>10, <1>11, <1>12, <1>13 DEF Next, Step

-----------------------------------------------------------------------------
(* The theorems.                                                           *)

LEMMA Always == Spec => []IInv
    BY Started, StepsKeep, PTL DEF Spec

\* What is held, read, asked and backed up are whole profiles of some platform
\* throughout, and only the record and the steps are ever staged
\* (internal/core/pad.go).
THEOREM TypeCorrect == Spec => []TypeOK
<1>1. IInv => TypeOK
    BY DEF IInv
<1> QED
    BY <1>1, Always, PTL

\* Whatever commands fail, half take or are acknowledged without taking: an edit
\* reported as applied is what the platform it was made on reads as, a rollback
\* reported as done and a backup reported as restored as well, nothing changed
\* before it was backed up, and no header came before its steps
\* (pad.go:733-932).
THEOREM PromiseKept == Spec => []KeepsPromise
<1>1. IInv => KeepsPromise
    BY DEF IInv, Outcomes, KeepsPromise
<1> QED
    BY <1>1, Always, PTL
=============================================================================
