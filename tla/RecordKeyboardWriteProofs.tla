---------------------- MODULE RecordKeyboardWriteProofs ----------------------
(***************************************************************************)
(* What holds of the writes to a keyboard that keeps its profile in one    *)
(* record, for any keys, macro slots, values, edits and number of calls.   *)
(***************************************************************************)
EXTENDS RecordKeyboardWrite, WellFoundedInduction, TLAPS

-----------------------------------------------------------------------------
(* Parts and their order.                                                  *)

LEMMA Kinds ==
    /\ Flag \in Sections /\ Setting \in Sections
    /\ Lights \notin Sections /\ Lights \notin Macros
    /\ Sections \cap Macros = {}
    /\ Sections \cup {Lights} \cup Macros = Parts
    /\ \A k \in Keys : <<"key", k>> \in Sections \ {Flag}
    /\ \A s \in Slots : <<"macro", s>> \in Macros
    /\ \A x \in Macros : x[2] \in Slots /\ x = <<"macro", x[2]>>
<1>1. /\ \A x \in Entries : x[1] = "key"
      /\ \A x \in Macros : x[1] = "macro" /\ x[2] \in Slots /\ x = <<"macro", x[2]>>
      /\ Flag[1] = "flag" /\ Setting[1] = "setting" /\ Lights[1] = "lights"
    BY DEF Entries, Macros, Flag, Setting, Lights
<1>2. Flag \notin Entries /\ Lights \notin Entries
    BY <1>1
<1>3. \A k \in Keys : <<"key", k>> \in Entries
    BY DEF Entries
<1>4. \A s \in Slots : <<"macro", s>> \in Macros
    BY DEF Macros
<1> QED
    BY <1>1, <1>2, <1>3, <1>4 DEF Sections, Parts

Less == OpToRel(<, Nat)

LEMMA Smallest ==
    ASSUME NEW T, T \subseteq Nat, T # {}
    PROVE  \E x \in T : \A y \in T : x <= y
<1>1. IsWellFoundedOn(Less, Nat)
    BY NatLessThanWellFounded DEF Less
<1>2. PICK x \in T : \A y \in T : <<y, x>> \notin Less
    BY <1>1, WFMin
<1>3. \A m, n \in Nat : m < n => <<m, n>> \in Less
    BY DEF OpToRel, Less
<1>4. \A y \in T : ~(y < x)
    BY <1>2, <1>3
<1> QED
    BY <1>4

\* Some part comes first.
LEMMA First ==
    ASSUME NEW S, S \subseteq Sections \cup Macros, S # {}
    PROVE  FirstOf(S) \in S
<1>1. /\ Rank["flag"] = 0 /\ Rank["setting"] = 1 /\ Rank["key"] = 2 /\ Rank["macro"] = 3
    BY DEF Rank
<1>2. \A x \in S : /\ x[1] \in {"flag", "setting", "key", "macro"} /\ x[2] \in Nat
                   /\ x = <<x[1], x[2]>>
  <2>1. ASSUME NEW x \in Entries
        PROVE  x[1] = "key" /\ x[2] \in Nat /\ x = <<x[1], x[2]>>
    <3>1. PICK n \in Keys : x = <<"key", n>>
      BY DEF Entries
    <3>2. n \in Nat
      BY ValuesAssumption
    <3> QED
      BY <3>1, <3>2
  <2>2. ASSUME NEW x \in Macros
        PROVE  x[1] = "macro" /\ x[2] \in Nat /\ x = <<x[1], x[2]>>
    <3>1. PICK n \in Slots : x = <<"macro", n>>
      BY DEF Macros
    <3>2. n \in Nat
      BY ValuesAssumption
    <3> QED
      BY <3>1, <3>2
  <2>3. \A x \in {Flag, Setting} : x[1] \in {"flag", "setting"} /\ x[2] \in Nat /\ x = <<x[1], x[2]>>
    BY DEF Flag, Setting
  <2> QED
    BY <2>1, <2>2, <2>3 DEF Sections
<1>3. /\ \A x \in S : Rank[x[1]] \in Nat
      /\ \A x, y \in S : Rank[x[1]] = Rank[y[1]] => x[1] = y[1]
    BY <1>1, <1>2
<1> DEFINE ranks == {Rank[x[1]] : x \in S}
<1>4. PICK a \in ranks : \A b \in ranks : a <= b
  <2>1. ranks \subseteq Nat /\ ranks # {}
    BY <1>3
  <2> QED
    BY <2>1, Smallest
<1> DEFINE ids == {x[2] : x \in {y \in S : Rank[y[1]] = a}}
<1>5. PICK i \in ids : \A j \in ids : i <= j
  <2>1. ids \subseteq Nat /\ ids # {}
    BY <1>2, <1>4
  <2> QED
    BY <2>1, Smallest
<1>6. PICK x \in S : Rank[x[1]] = a /\ x[2] = i
    BY <1>5
<1>7. ASSUME NEW y \in S \ {x}
      PROVE  Precedes(x, y)
  <2>1. Rank[y[1]] \in ranks /\ a <= Rank[y[1]] /\ a \in Nat /\ Rank[y[1]] \in Nat
    BY <1>3, <1>4, <1>6
  <2>2. CASE Rank[y[1]] = a
    <3>1. y[2] \in ids /\ i <= y[2] /\ i \in Nat /\ y[2] \in Nat
      BY <1>2, <1>5, <1>6, <2>2
    <3>2. y[2] # i
      BY <1>2, <1>3, <1>6, <1>7, <2>2
    <3> QED
      BY <1>6, <2>2, <3>1, <3>2 DEF Precedes
  <2> QED
    BY <1>6, <2>1, <2>2 DEF Precedes
<1> QED
    BY <1>7 DEF FirstOf

-----------------------------------------------------------------------------
(* What a read shows.                                                      *)

\* All but the macros.
Plain == Sections \cup {Lights}

LEMMA ReadOf ==
    ASSUME NEW p \in Profile
    PROVE  /\ Shown(p) \in Profile /\ Read(p) \in Profile
           /\ \A x \in Plain : Read(p)[x] = Shown(p)[x]
           /\ Read(p)[Flag] = p[Flag] /\ Read(p)[Lights] = p[Lights]
           /\ p[Flag] # 0 => \A x \in Plain : Read(p)[x] = p[x]
           /\ \A s \in Slots : Players(Read(p), s) = Players(Shown(p), s)
<1>1. Shown(p) \in Profile
    BY ValuesAssumption DEF Shown, Profile
<1>2. Read(p) \in Profile
    BY <1>1, ValuesAssumption DEF Read, Profile
<1>3. \A x \in Plain : x \in Parts /\ x \notin Macros
    BY Kinds DEF Plain
<1>4. \A x \in Plain : Read(p)[x] = Shown(p)[x]
    BY <1>3 DEF Read
<1>5. /\ Shown(p)[Flag] = p[Flag] /\ Shown(p)[Lights] = p[Lights]
      /\ p[Flag] # 0 => \A x \in Plain : Shown(p)[x] = p[x]
    BY <1>3, Kinds DEF Shown, Plain
<1>6. \A s \in Slots : Players(Read(p), s) = Players(Shown(p), s)
    BY <1>4, Kinds DEF Players, Plain
<1>7. Flag \in Plain /\ Lights \in Plain
    BY Kinds DEF Plain
<1> QED
    BY <1>1, <1>2, <1>4, <1>5, <1>6, <1>7

\* A slot that some key plays shows what it holds, any other shows nothing.
LEMMA ReadMacro ==
    ASSUME NEW p \in Profile, NEW s \in Slots
    PROVE  /\ Players(Read(p), s) # {} => Read(p)[<<"macro", s>>] = p[<<"macro", s>>]
           /\ Players(Read(p), s) # {} => Players(p, s) # {}
           /\ Players(Read(p), s) = {} => Read(p)[<<"macro", s>>] = 0
<1>1. <<"macro", s>> \in Macros /\ <<"macro", s>> \in Parts /\ <<"macro", s>> \notin Sections
    BY Kinds
<1>2. <<"macro", s>>[2] = s
    OBVIOUS
<1>3. Shown(p)[<<"macro", s>>] = p[<<"macro", s>>]
    BY <1>1 DEF Shown
<1>4. Read(p)[<<"macro", s>>] = IF Players(Shown(p), s) = {} THEN 0 ELSE Shown(p)[<<"macro", s>>]
    BY <1>1, <1>2 DEF Read
<1>5. Players(Shown(p), s) # {} => Players(p, s) # {}
  <2>1. s # 0
    BY ValuesAssumption
  <2>2. \A k \in Keys : Shown(p)[<<"key", k>>] \in {0, p[<<"key", k>>]}
    BY Kinds DEF Shown
  <2> QED
    BY <2>1, <2>2 DEF Players
<1> QED
    BY <1>3, <1>4, <1>5, ReadOf

\* Profiles that agree on all but the macros show the same, but for the macros.
LEMMA SameShown ==
    ASSUME NEW p \in Profile, NEW q \in Profile, \A x \in Plain : p[x] = q[x]
    PROVE  /\ \A x \in Plain : Read(p)[x] = Read(q)[x]
           /\ \A s \in Slots : Players(Read(p), s) = Players(Read(q), s)
<1>1. \A x \in Plain : Shown(p)[x] = Shown(q)[x]
    BY Kinds DEF Shown, Plain
<1>2. \A x \in Plain : Read(p)[x] = Read(q)[x]
    BY <1>1, ReadOf
<1>3. \A k \in Keys : <<"key", k>> \in Plain
    BY Kinds DEF Plain
<1> QED
    BY <1>2, <1>3 DEF Players

\* The same macros there as well.
LEMMA SameRead ==
    ASSUME NEW p \in Profile, NEW q \in Profile,
           \A x \in Plain : Read(p)[x] = Read(q)[x],
           \A s \in Slots : Read(p)[<<"macro", s>>] = Read(q)[<<"macro", s>>]
    PROVE  Read(p) = Read(q)
<1>1. Read(p) \in [Parts -> Values] /\ Read(q) \in [Parts -> Values]
    BY ReadOf DEF Profile
<1>2. \A x \in Parts : Read(p)[x] = Read(q)[x]
    BY Kinds DEF Plain
<1> QED
    BY <1>1, <1>2

\* A macro that is played and not planned is there already.
LEMMA Unplanned ==
    ASSUME NEW edited \in Profile, NEW was \in Profile, NEW s \in Slots,
           Players(edited, s) # {}, s \notin Planned(edited, was)
    PROVE  Players(was, s) # {} /\ edited[<<"macro", s>>] = was[<<"macro", s>>]
<1>1. Image(edited, s) = Image(was, s) /\ Players(was, s) # {}
    BY DEF Planned
<1>2. \A p : Players(p, s) # {} => /\ p[<<"macro", s>>] = 0 => Image(p, s) = <<0, 0>>
                                   /\ p[<<"macro", s>>] # 0 => Image(p, s)[2] = p[<<"macro", s>>]
    BY DEF Image, NoImage
<1>3. <<0, 0>>[2] = 0
    OBVIOUS
<1> QED
    BY <1>1, <1>2, <1>3

-----------------------------------------------------------------------------
(* The inductive invariant.                                                *)

MacroPhase == pc \in {"macros", "header", "steps", "check_macro"}

\* What a call writes: the edit or what undoes it, or a backup.
WhatInv ==
    /\ op \in {"apply", "restore"}
    /\ op = "apply" =>
         /\ before \in backups
         /\ pc # "plan"
         /\ asked[Flag] = before[Flag]
         /\ ~undoing => goal = [asked EXCEPT ![Flag] = 1] /\ parts = ToWrite(before, asked)
         /\ undoing => /\ goal = before
                       /\ parts = {x \in ToWrite(before, asked) : x \in Macros => Read(before)[x] # 0}
    /\ op = "restore" =>
         /\ ~undoing /\ goal = asked
         /\ parts = RestoredParts(before, asked)
                       \cup (IF MacroPhase THEN MacroParts(Planned(Read(asked), Read(before))) ELSE {})

\* What is not to be written is as it was, except for macros no key played.
OthersHeld(h) ==
    \A x \in Parts \ parts : h[x] = before[x] \/ (undoing /\ x \in Macros /\ Read(before)[x] = 0)

\* What was written and read back is held.
WrittenHeld(h) ==
    /\ \A x \in parts \ todo : x \notin Sections => h[x] = goal[x]
    /\ pc # "record" => \A x \in parts \cap Sections : h[x] = goal[x]

\* What the step at hand is about.
PlaceInv ==
    /\ pc # "record" => todo \cap Sections = {}
    /\ pc \in {"write_lights", "check_lights"} => Lights \in todo
    /\ pc \in {"header", "steps", "check_macro"} => todo # {}

WriteInv ==
    pc # "idle" =>
       told = "nothing" /\ WhatInv /\ OthersHeld(held) /\ WrittenHeld(held) /\ PlaceInv

Outcomes == AppliedIsHeld /\ RollbackPutsBack /\ RestoreIsComplete

LEMMA ToWriteParts ==
    ASSUME NEW p, NEW edited
    PROVE  ToWrite(p, edited) \subseteq Parts /\ RestoredParts(p, edited) \subseteq Plain
<1>1. \A slots \in SUBSET Slots : MacroParts(slots) \subseteq Parts
    BY DEF MacroParts, Parts, Macros
<1>2. Planned(edited, Read(p)) \in SUBSET Slots
    BY DEF Planned
<1>3. Differing(edited, Read(p), Sections \cup {Lights}) \subseteq Parts /\ Sections \subseteq Parts
    BY Kinds DEF Differing
<1> QED
    BY <1>1, <1>2, <1>3 DEF ToWrite, Whole, RestoredParts, Differing, Plain

\* The edit has been written, or there was nothing to write.
LEMMA EditIsHeld ==
    ASSUME NEW p \in Profile, NEW h \in Profile, NEW edited \in Profile,
           edited[Flag] = p[Flag],
           \A x \in Parts \ ToWrite(p, edited) : h[x] = p[x],
           \A x \in ToWrite(p, edited) : h[x] = IF x = Flag THEN 1 ELSE edited[x]
    PROVE  /\ \A x \in Parts \ ({Flag} \cup Macros) : Read(h)[x] = edited[x]
           /\ \A s \in Slots : Players(edited, s) # {} => h[<<"macro", s>>] = edited[<<"macro", s>>]
<1> DEFINE was == Read(p)
           changed == Differing(edited, was, Plain) \cup MacroParts(Planned(edited, was))
<1>1. was \in Profile
    BY ReadOf
<1>2. ToWrite(p, edited) = IF p[Flag] = 0 /\ changed # {} THEN Sections \cup changed ELSE changed
    BY DEF ToWrite, Whole, Plain
<1>3. \A x \in Plain : x \in changed <=> edited[x] # was[x]
  <2>1. MacroParts(Planned(edited, was)) \subseteq Macros
    BY DEF MacroParts, Planned, Macros
  <2>2. Plain \cap Macros = {}
    BY Kinds DEF Plain
  <2>3. \A x \in Plain : x \notin MacroParts(Planned(edited, was))
    BY <2>1, <2>2
  <2> QED
    BY <2>3 DEF Differing
<1>4. \A s \in Slots : <<"macro", s>> \in changed <=> s \in Planned(edited, was)
  <2>1. \A s \in Slots : <<"macro", s>> \notin Plain
    BY Kinds DEF Plain
  <2> QED
    BY <2>1 DEF Differing, MacroParts
<1>5. Flag \notin changed
    BY <1>3, ReadOf, Kinds DEF Plain
<1>6. changed # {} => h[Flag] # 0
  <2>1. CASE p[Flag] = 0
    BY <1>2, <2>1, Kinds
  <2>2. CASE p[Flag] # 0
    BY <1>2, <1>5, <2>2, Kinds
  <2> QED
    BY <2>1, <2>2
<1>7. ASSUME NEW x \in Parts \ ({Flag} \cup Macros)
      PROVE  Read(h)[x] = edited[x]
  <2>1. x \in Plain /\ x \in Parts /\ x # Flag
    BY Kinds DEF Plain
  <2>2. CASE changed = {}
    <3>1. \A y \in Parts : h[y] = p[y]
      BY <1>2, <2>2
    <3>2. h = p
      BY <3>1 DEF Profile
    <3> QED
      BY <1>3, <2>1, <2>2, <3>2
  <2>3. CASE changed # {} /\ x \in ToWrite(p, edited)
    BY <1>6, <2>1, <2>3, ReadOf
  <2>4. CASE changed # {} /\ x \notin ToWrite(p, edited)
    <3>1. x \notin changed /\ h[x] = p[x] /\ edited[x] = was[x]
      BY <1>2, <1>3, <2>1, <2>4
    <3>2. Read(h)[x] = h[x]
      BY <1>6, <2>1, <2>4, ReadOf
    <3>3. was[x] = p[x]
      <4>1. CASE p[Flag] # 0
        BY <2>1, <4>1, ReadOf
      <4>2. CASE p[Flag] = 0
        <5>1. x = Lights
          BY <1>2, <2>1, <2>4, <4>2 DEF Plain
        <5> QED
          BY <5>1, ReadOf
      <4> QED
        BY <4>1, <4>2
    <3> QED
      BY <3>1, <3>2, <3>3
  <2> QED
    BY <2>2, <2>3, <2>4
<1>8. ASSUME NEW s \in Slots, Players(edited, s) # {}
      PROVE  h[<<"macro", s>>] = edited[<<"macro", s>>]
  <2>1. <<"macro", s>> \in Parts /\ <<"macro", s>> # Flag /\ <<"macro", s>> \notin Sections
    BY Kinds
  <2>2. CASE s \in Planned(edited, was)
    <3>1. <<"macro", s>> \in ToWrite(p, edited)
      BY <1>2, <1>4, <2>2
    <3> QED
      BY <2>1, <3>1
  <2>3. CASE s \notin Planned(edited, was)
    <3>1. <<"macro", s>> \notin ToWrite(p, edited)
      BY <1>2, <1>4, <2>1, <2>3
    <3>2. Players(was, s) # {} /\ edited[<<"macro", s>>] = was[<<"macro", s>>]
      BY <1>1, <1>8, <2>3, Unplanned
    <3>3. was[<<"macro", s>>] = p[<<"macro", s>>]
      BY <3>2, ReadMacro
    <3> QED
      BY <2>1, <3>1, <3>2, <3>3
  <2> QED
    BY <2>2, <2>3
<1> QED
    BY <1>7, <1>8

\* All that is played is back.
LEMMA UndoneIsHeld ==
    ASSUME NEW p \in Profile, NEW h \in Profile,
           \A x \in Parts : h[x] = p[x] \/ (x \in Macros /\ Read(p)[x] = 0),
           NEW x \in Parts,
           x \in Macros /\ Players(p, x[2]) # {} => p[x] # 0
    PROVE  Read(h)[x] = Read(p)[x]
<1>1. \A y \in Plain : h[y] = p[y]
    BY Kinds DEF Plain
<1>2. /\ \A y \in Plain : Read(h)[y] = Read(p)[y]
      /\ \A s \in Slots : Players(Read(h), s) = Players(Read(p), s)
    BY <1>1, SameShown
<1>3. CASE x \in Macros
  <2>1. x[2] \in Slots /\ x = <<"macro", x[2]>>
    BY <1>3, Kinds
  <2>2. CASE Players(Read(p), x[2]) = {}
    BY <1>2, <2>1, <2>2, ReadMacro
  <2>3. CASE Players(Read(p), x[2]) # {}
    <3>1. Read(p)[x] = p[x] /\ p[x] # 0
      BY <1>3, <2>1, <2>3, ReadMacro
    <3>2. h[x] = p[x]
      BY <3>1
    <3>3. Read(h)[x] = h[x]
      BY <1>2, <2>1, <2>3, ReadMacro
    <3> QED
      BY <3>1, <3>2, <3>3
  <2> QED
    BY <2>2, <2>3
<1>4. CASE x \notin Macros
    BY <1>2, <1>4, Kinds DEF Plain
<1> QED
    BY <1>3, <1>4

\* The backup's record, colours and macros are there.
LEMMA BackupIsHeld ==
    ASSUME NEW p \in Profile, NEW h \in Profile, NEW backup \in Profile,
           \A x \in Plain : h[x] = IF backup[x] # p[x] THEN backup[x] ELSE p[x],
           \A s \in Slots : h[<<"macro", s>>] = IF s \in Planned(Read(backup), Read(p))
                                               THEN backup[<<"macro", s>>] ELSE p[<<"macro", s>>]
    PROVE  Read(h) = Read(backup)
<1>1. \A x \in Plain : h[x] = backup[x]
    OBVIOUS
<1>2. /\ \A x \in Plain : Read(h)[x] = Read(backup)[x]
      /\ \A s \in Slots : Players(Read(h), s) = Players(Read(backup), s)
    BY <1>1, SameShown
<1>3. ASSUME NEW s \in Slots
      PROVE  Read(h)[<<"macro", s>>] = Read(backup)[<<"macro", s>>]
  <2>1. CASE Players(Read(backup), s) = {}
    BY <1>2, <2>1, ReadMacro
  <2>2. CASE Players(Read(backup), s) # {}
    <3>1. /\ Read(h)[<<"macro", s>>] = h[<<"macro", s>>]
          /\ Read(backup)[<<"macro", s>>] = backup[<<"macro", s>>]
      BY <1>2, <2>2, ReadMacro
    <3>2. CASE s \in Planned(Read(backup), Read(p))
      BY <3>1, <3>2
    <3>3. CASE s \notin Planned(Read(backup), Read(p))
      <4>1. /\ Players(Read(p), s) # {}
            /\ Read(backup)[<<"macro", s>>] = Read(p)[<<"macro", s>>]
        BY <2>2, <3>3, Unplanned, ReadOf
      <4>2. Read(p)[<<"macro", s>>] = p[<<"macro", s>>]
        BY <4>1, ReadMacro
      <4> QED
        BY <3>1, <3>3, <4>1, <4>2
    <3> QED
      BY <3>2, <3>3
  <2> QED
    BY <2>1, <2>2
<1> QED
    BY <1>2, <1>3, SameRead

-----------------------------------------------------------------------------
(* Every step keeps the invariant.                                         *)

IInv == TypeOK /\ WriteInv /\ Outcomes /\ BackupFirst

LEMMA Started == Init => IInv
<1> SUFFICES ASSUME Init PROVE IInv
    OBVIOUS
<1>1. held \in Profile /\ 0 \in 0..MaxCalls
    BY ProfilesAssumption, CallsAssumption DEF Init
<1>2. TypeOK
    BY <1>1 DEF Init, TypeOK
<1> QED
    BY <1>2 DEF Init, IInv, WriteInv, Outcomes, AppliedIsHeld, RollbackPutsBack,
        RestoreIsComplete, BackupFirst

LEMMA Sending ==
    ASSUME TypeOK, NEW x \in Parts, NEW outcomes \in SUBSET Values, Sent(x, outcomes)
    PROVE  /\ held' \in Profile
           /\ \A y \in Parts \ {x} : held'[y] = held[y]
    BY DEF TypeOK, Profile, Sent

\* A command that fails, whatever it left in the parts to write.
LEMMA Failing ==
    ASSUME IInv, pc # "idle", Fail, held' \in Profile, \A x \in Parts \ parts : held'[x] = held[x]
    PROVE  IInv'
<1>1. TypeOK /\ WhatInv /\ OthersHeld(held)
    BY DEF IInv, WriteInv
<1>2. UNCHANGED callFrame
    BY DEF Fail
<1>3. BackupFirst'
    BY <1>1, <1>2 DEF BackupFirst, WhatInv, callFrame
<1>4. CASE PutBack
  <2>1. /\ op = "apply" /\ ~undoing /\ undoing' = TRUE
        /\ goal' = before /\ parts' = Undo /\ todo' = Undo /\ pc' = "record" /\ told' = "nothing"
    BY <1>4 DEF PutBack, FirstFailure, Write
  <2>2. Undo = {x \in ToWrite(before, asked) : x \in Macros => Read(before)[x] # 0}
    BY <1>1, <2>1 DEF WhatInv, Undo
  <2>3. TypeOK'
    BY <1>1, <1>2, <2>1 DEF TypeOK, callFrame, Undo
  <2>4. WhatInv'
    BY <1>1, <1>2, <2>1, <2>2 DEF WhatInv, callFrame
  <2>5. OthersHeld(held)'
    BY <1>1, <1>2, <2>1 DEF OthersHeld, callFrame, Undo
  <2>6. WrittenHeld(held)' /\ PlaceInv'
    BY <2>1 DEF WrittenHeld, PlaceInv
  <2>7. Outcomes'
    BY <2>1 DEF Outcomes, AppliedIsHeld, RollbackPutsBack, RestoreIsComplete
  <2> QED
    BY <1>3, <2>1, <2>3, <2>4, <2>5, <2>6, <2>7 DEF IInv, WriteInv
<1>5. CASE GiveUp
  <2>1. /\ undoing' = undoing /\ goal' = goal /\ parts' = parts /\ todo' = {} /\ pc' = "idle"
        /\ told' \in {"rollback_failed", "restore_failed"}
    BY <1>5 DEF GiveUp, End
  <2>2. TypeOK'
    BY <1>1, <1>2, <2>1 DEF TypeOK, callFrame
  <2>3. Outcomes'
    BY <2>1 DEF Outcomes, AppliedIsHeld, RollbackPutsBack, RestoreIsComplete
  <2> QED
    BY <1>3, <2>1, <2>2, <2>3 DEF IInv, WriteInv
<1> QED
    BY <1>4, <1>5 DEF Fail

\* A command that goes on to the next.
LEMMA Moving ==
    ASSUME IInv, pc # "idle",
           UNCHANGED <<callFrame, passFrame>>,
           pc' \in {"record", "lights", "write_lights", "check_lights", "plan", "macros",
                    "header", "steps", "check_macro"},
           op = "apply" => pc' # "plan",
           op = "restore" => (MacroPhase <=> MacroPhase'),
           todo' \subseteq todo,
           pc' \in {"plan", "macros", "header", "steps", "check_macro"} => todo' \subseteq Macros,
           held' \in Profile,
           \A x \in Parts \ parts : held'[x] = held[x],
           WrittenHeld(held)',
           PlaceInv'
    PROVE  IInv'
<1>1. TypeOK /\ WhatInv /\ OthersHeld(held) /\ told = "nothing"
    BY DEF IInv, WriteInv
<1>2. TypeOK'
    BY <1>1 DEF TypeOK, callFrame, passFrame
<1>3. WhatInv'
    BY <1>1 DEF WhatInv, callFrame, passFrame
<1>4. OthersHeld(held)'
    BY <1>1 DEF OthersHeld, callFrame, passFrame
<1>5. told' = "nothing"
    BY <1>1 DEF passFrame
<1>6. Outcomes'
    BY <1>5 DEF Outcomes, AppliedIsHeld, RollbackPutsBack, RestoreIsComplete
<1>7. BackupFirst'
    BY <1>1 DEF BackupFirst, WhatInv, callFrame
<1> QED
    BY <1>2, <1>3, <1>4, <1>5, <1>6, <1>7 DEF IInv, WriteInv

\* A call that begins.
LEMMA Calling ==
    ASSUME IInv, NEW which \in {"apply", "restore"}, Call(which), asked' \in Profile,
           backups' \subseteq Profile
    PROVE  /\ \A how : how \in {"refused", "applied"} /\ End(how) => TypeOK'
           /\ \A what, some : what \in Profile /\ some \subseteq Parts /\ Write(what, some) => TypeOK'
           /\ BackupFirst'
           /\ op' = which /\ before' = held /\ held' = held /\ undoing' = FALSE
<1>1. calls' \in 0..MaxCalls
    BY CallsAssumption DEF IInv, TypeOK, Call
<1>2. op' = which /\ before' = held /\ held' = held /\ undoing' = FALSE
    BY DEF Call
<1>3. ASSUME NEW how \in {"refused", "applied"}, End(how)
      PROVE  TypeOK'
    BY <1>1, <1>2, <1>3 DEF IInv, TypeOK, End
<1>4. ASSUME NEW what \in Profile, NEW some \in SUBSET Parts, Write(what, some)
      PROVE  TypeOK'
    BY <1>1, <1>2, <1>4 DEF IInv, TypeOK, Write
<1>5. BackupFirst'
    BY <1>2 DEF BackupFirst
<1> QED
    BY <1>2, <1>3, <1>4, <1>5

LEMMA Applying ==
    ASSUME IInv, NEW request \in Requests, RecordKeyboardApply(request)
    PROVE  IInv'
<1> DEFINE edited == Overlay(Read(held), request)
           which == ToWrite(held, edited)
<1>1. held \in Profile /\ backups \subseteq Profile
    BY DEF IInv, TypeOK
<1>2. edited \in Profile /\ edited[Flag] = held[Flag]
  <2>1. Read(held) \in Profile /\ Read(held)[Flag] = held[Flag]
    BY <1>1, ReadOf
  <2>2. Flag \notin DOMAIN request /\ \A x \in DOMAIN request : request[x] \in Values
    BY ProfilesAssumption DEF Changes
  <2> QED
    BY <2>1, <2>2, Kinds DEF Overlay, Profile
<1>3. /\ Call("apply") /\ asked' = edited
      /\ \/ End("refused") /\ UNCHANGED backups
         \/ /\ backups' = Kept
            /\ IF which = {} THEN End("applied") ELSE Write([edited EXCEPT ![Flag] = 1], which)
    BY DEF RecordKeyboardApply
<1> HIDE DEF edited
<1>4. backups' \subseteq Profile
    BY <1>1, <1>3 DEF Kept
<1>5. /\ \A how : how \in {"refused", "applied"} /\ End(how) => TypeOK'
      /\ \A what, some : what \in Profile /\ some \subseteq Parts /\ Write(what, some) => TypeOK'
      /\ BackupFirst'
      /\ op' = "apply" /\ before' = held /\ held' = held /\ undoing' = FALSE
    BY <1>2, <1>3, <1>4, Calling
<1>6. CASE End("refused")
    BY <1>5, <1>6 DEF IInv, WriteInv, End, Outcomes, AppliedIsHeld, RollbackPutsBack, RestoreIsComplete
<1>7. CASE which = {} /\ End("applied")
  <2>1. /\ \A x \in Parts \ ({Flag} \cup Macros) : Read(held)[x] = edited[x]
        /\ \A s \in Slots : Players(edited, s) # {} => held[<<"macro", s>>] = edited[<<"macro", s>>]
    BY <1>1, <1>2, <1>7, EditIsHeld
  <2>2. told' = "applied" /\ pc' = "idle"
    BY <1>7 DEF End
  <2>3. AppliedIsHeld'
    BY <1>3, <1>5, <2>1 DEF AppliedIsHeld
  <2> QED
    BY <1>5, <1>7, <2>2, <2>3 DEF IInv, WriteInv, Outcomes, RollbackPutsBack, RestoreIsComplete
<1>8. CASE backups' = Kept /\ Write([edited EXCEPT ![Flag] = 1], which)
  <2>1. [edited EXCEPT ![Flag] = 1] \in Profile
    BY <1>2, ValuesAssumption DEF Profile
  <2>2. which \subseteq Parts
    BY ToWriteParts
  <2>3. /\ goal' = [asked' EXCEPT ![Flag] = 1] /\ parts' = ToWrite(before', asked')
        /\ todo' = parts' /\ pc' = "record" /\ told' = "nothing" /\ before' \in backups'
    BY <1>3, <1>5, <1>8 DEF Write, Kept
  <2>4. WhatInv'
    BY <1>2, <1>3, <1>5, <2>3 DEF WhatInv
  <2>5. OthersHeld(held)' /\ WrittenHeld(held)' /\ PlaceInv'
    BY <1>5, <2>3 DEF OthersHeld, WrittenHeld, PlaceInv
  <2>6. Outcomes'
    BY <2>3 DEF Outcomes, AppliedIsHeld, RollbackPutsBack, RestoreIsComplete
  <2> QED
    BY <1>5, <1>8, <2>1, <2>2, <2>3, <2>4, <2>5, <2>6 DEF IInv, WriteInv
<1> QED
    BY <1>3, <1>6, <1>7, <1>8

LEMMA Restoring ==
    ASSUME IInv, NEW backup \in backups, RestoreBackup(backup)
    PROVE  IInv'
<1>1. held \in Profile /\ backups \subseteq Profile /\ backup \in Profile
    BY DEF IInv, TypeOK
<1>2. /\ Call("restore") /\ asked' = backup /\ backups' = backups
      /\ End("refused") \/ Write(backup, RestoredParts(held, backup))
    BY DEF RestoreBackup
<1>3. /\ \A how : how \in {"refused", "applied"} /\ End(how) => TypeOK'
      /\ \A what, some : what \in Profile /\ some \subseteq Parts /\ Write(what, some) => TypeOK'
      /\ BackupFirst'
      /\ op' = "restore" /\ before' = held /\ held' = held /\ undoing' = FALSE
    BY <1>1, <1>2, Calling
<1>4. CASE End("refused")
    BY <1>3, <1>4 DEF IInv, WriteInv, End, Outcomes, AppliedIsHeld, RollbackPutsBack, RestoreIsComplete
<1>5. CASE Write(backup, RestoredParts(held, backup))
  <2>1. RestoredParts(held, backup) \subseteq Parts
    BY ToWriteParts, Kinds DEF Plain
  <2>2. /\ goal' = backup /\ parts' = RestoredParts(before', asked')
        /\ todo' = parts' /\ pc' = "record" /\ told' = "nothing"
    BY <1>2, <1>3, <1>5 DEF Write
  <2>3. WhatInv'
    BY <1>2, <1>3, <2>2 DEF WhatInv, MacroPhase
  <2>4. OthersHeld(held)' /\ WrittenHeld(held)' /\ PlaceInv'
    BY <1>3, <2>2 DEF OthersHeld, WrittenHeld, PlaceInv
  <2>5. Outcomes'
    BY <2>2 DEF Outcomes, AppliedIsHeld, RollbackPutsBack, RestoreIsComplete
  <2> QED
    BY <1>1, <1>3, <1>5, <2>1, <2>2, <2>3, <2>4, <2>5 DEF IInv, WriteInv
<1> QED
    BY <1>2, <1>4, <1>5

LEMMA Planning ==
    ASSUME IInv, Plan
    PROVE  IInv'
<1> DEFINE slots == Planned(Read(asked), Read(before))
<1>1. /\ pc = "plan" /\ UNCHANGED <<callFrame, held, undoing>>
      /\ TypeOK /\ told = "nothing" /\ WhatInv /\ OthersHeld(held) /\ WrittenHeld(held)
    BY DEF Plan, IInv, WriteInv
<1>2. /\ op = "restore" /\ ~undoing /\ goal = asked
      /\ parts = RestoredParts(before, asked)
    BY <1>1 DEF WhatInv, MacroPhase
<1>3. MacroParts(slots) \subseteq Macros /\ MacroParts(slots) \subseteq Parts
    BY DEF MacroParts, Planned, Macros, Parts
<1>4. BackupFirst'
    BY <1>1, <1>2 DEF BackupFirst, callFrame
<1>5. CASE /\ parts' = parts \cup MacroParts(slots)
           /\ todo' = MacroParts(slots)
           /\ pc' = "macros"
           /\ UNCHANGED <<goal, told>>
  <2>1. TypeOK'
    BY <1>1, <1>3, <1>5 DEF TypeOK, callFrame
  <2>2. WhatInv'
    BY <1>1, <1>2, <1>5 DEF WhatInv, MacroPhase, callFrame
  <2>3. OthersHeld(held)'
    BY <1>1, <1>5 DEF OthersHeld, callFrame
  <2>4. todo = {}
    BY <1>1, <1>2, ToWriteParts, Kinds DEF TypeOK, Plain
  <2>5. parts' \cap Sections = parts \cap Sections
    BY <1>3, <1>5, Kinds
  <2>6. WrittenHeld(held)'
    BY <1>1, <1>5, <2>4, <2>5 DEF WrittenHeld
  <2>7. PlaceInv'
    BY <1>3, <1>5, Kinds DEF PlaceInv
  <2>8. told' = "nothing"
    BY <1>1, <1>5
  <2>9. Outcomes'
    BY <2>8 DEF Outcomes, AppliedIsHeld, RollbackPutsBack, RestoreIsComplete
  <2> QED
    BY <1>4, <2>1, <2>2, <2>3, <2>6, <2>7, <2>8, <2>9 DEF IInv, WriteInv
<1>6. CASE End("restore_failed")
  <2>1. told' = "restore_failed" /\ pc' = "idle" /\ todo' = {} /\ goal' = goal /\ parts' = parts
    BY <1>6 DEF End
  <2>2. TypeOK'
    BY <1>1, <2>1 DEF TypeOK, callFrame
  <2> QED
    BY <1>4, <2>1, <2>2 DEF IInv, WriteInv, Outcomes, AppliedIsHeld, RollbackPutsBack, RestoreIsComplete
<1> QED
    BY <1>5, <1>6 DEF Plan

\* A command about part x, which is being written.
LEMMA Commanding ==
    ASSUME IInv, pc # "idle", NEW x \in todo, NEW outcomes \in SUBSET Values, Sent(x, outcomes)
    PROVE  /\ TypeOK /\ WrittenHeld(held) /\ PlaceInv /\ WhatInv
           /\ x \in parts /\ x \in Parts
           /\ held' \in Profile
           /\ \A y \in Parts \ {x} : held'[y] = held[y]
           /\ Fail => IInv'
<1>1. TypeOK /\ WrittenHeld(held) /\ PlaceInv /\ WhatInv
    BY DEF IInv, WriteInv
<1>2. x \in parts /\ x \in Parts
    BY <1>1 DEF TypeOK
<1>3. held' \in Profile /\ \A y \in Parts \ {x} : held'[y] = held[y]
    BY <1>1, <1>2, Sending
<1>4. \A y \in Parts \ parts : held'[y] = held[y]
    BY <1>2, <1>3
<1>5. ASSUME Fail
      PROVE  IInv'
    BY <1>3, <1>4, <1>5, Failing
<1> QED
    BY <1>1, <1>2, <1>3, <1>5

\* A check that holds or does not changes nothing on the keyboard.
LEMMA Checking ==
    ASSUME IInv, pc # "idle", held' = held
    PROVE  /\ TypeOK /\ WrittenHeld(held) /\ PlaceInv /\ WhatInv
           /\ held' \in Profile
           /\ \A y \in Parts \ parts : held'[y] = held[y]
           /\ Fail => IInv'
<1>1. TypeOK /\ WrittenHeld(held) /\ PlaceInv /\ WhatInv
    BY DEF IInv, WriteInv
<1>2. held' \in Profile /\ \A y \in Parts \ parts : held'[y] = held[y]
    BY <1>1 DEF TypeOK
<1>3. ASSUME Fail
      PROVE  IInv'
    BY <1>2, <1>3, Failing
<1> QED
    BY <1>1, <1>2, <1>3

\* The part that is written next, and what it may be sent.
LEMMA NextPart ==
    ASSUME TypeOK
    PROVE  /\ Spans # {} => FirstOf(Spans) \in todo \cap Sections
           /\ todo # {} /\ todo \subseteq Macros => Slot \in todo /\ Slot \in Macros
           /\ \A x \in Parts : goal[x] \in Values
<1>1. Spans # {} => FirstOf(Spans) \in Spans
    BY First DEF Spans
<1>2. todo # {} /\ todo \subseteq Macros => FirstOf(todo) \in todo
    BY First
<1> QED
    BY <1>1, <1>2 DEF TypeOK, Profile, Spans, Slot

LEMMA Spanning ==
    ASSUME IInv, WriteSpan
    PROVE  IInv'
<1> DEFINE x == FirstOf(Spans)
<1>1. pc = "record" /\ Spans # {} /\ Sent(x, {goal[x]}) /\ (Written(x, "record") \/ Fail)
    BY DEF WriteSpan
<1>2. x \in todo \cap Sections /\ {goal[x]} \in SUBSET Values
    BY <1>1, NextPart, Kinds DEF IInv, TypeOK
<1> HIDE DEF x
<1>3. /\ TypeOK /\ WrittenHeld(held) /\ PlaceInv /\ WhatInv
      /\ x \in parts /\ x \in Parts
      /\ held' \in Profile
      /\ \A y \in Parts \ {x} : held'[y] = held[y]
      /\ Fail => IInv'
    BY <1>1, <1>2, Commanding
<1>4. CASE Written(x, "record")
  <2>1. /\ pc' = "record" /\ todo' = todo \ {x} /\ UNCHANGED <<callFrame, passFrame>>
        /\ parts' = parts /\ goal' = goal /\ parts \subseteq Parts
    BY <1>3, <1>4 DEF Written, passFrame, TypeOK
  <2>2. WrittenHeld(held)'
    BY <1>2, <1>3, <2>1 DEF WrittenHeld
  <2>3. PlaceInv'
    BY <2>1 DEF PlaceInv
  <2>4. MacroPhase <=> MacroPhase'
    BY <1>1, <2>1 DEF MacroPhase
  <2> QED
    BY <1>1, <1>3, <2>1, <2>2, <2>3, <2>4, Moving
<1> QED
    BY <1>1, <1>3, <1>4

LEMMA SpansChecked ==
    ASSUME IInv, CheckSpans
    PROVE  IInv'
<1>1. /\ pc = "record" /\ Spans = {} /\ held' = held
      /\ (Matches(parts \cap Sections) /\ Onward("lights")) \/ Fail
    BY DEF CheckSpans
<1>2. /\ TypeOK /\ WrittenHeld(held) /\ PlaceInv /\ WhatInv
      /\ held' \in Profile
      /\ \A y \in Parts \ parts : held'[y] = held[y]
      /\ Fail => IInv'
    BY <1>1, Checking
<1>3. CASE Matches(parts \cap Sections) /\ Onward("lights")
  <2>1. /\ pc' = "lights" /\ todo' = todo /\ UNCHANGED <<callFrame, passFrame>>
        /\ parts' = parts /\ goal' = goal
    BY <1>3 DEF Onward, passFrame
  <2>2. WrittenHeld(held)'
    BY <1>1, <1>2, <1>3, <2>1 DEF WrittenHeld, Matches
  <2>3. PlaceInv'
    BY <1>1, <2>1 DEF PlaceInv, Spans
  <2>4. MacroPhase <=> MacroPhase'
    BY <1>1, <2>1 DEF MacroPhase
  <2> QED
    BY <1>1, <1>2, <2>1, <2>2, <2>3, <2>4, Moving
<1> QED
    BY <1>1, <1>2, <1>3

\* What follows the colours.
LEMMA AfterLights ==
    ASSUME IInv, pc \in {"lights", "check_lights"}, pc' = NextLabel,
           todo' = todo \ {Lights}, UNCHANGED <<callFrame, passFrame>>, held' = held,
           Lights \in todo => held[Lights] = goal[Lights]
    PROVE  IInv'
<1>1. /\ TypeOK /\ WrittenHeld(held) /\ PlaceInv /\ WhatInv
      /\ held' \in Profile
      /\ \A y \in Parts \ parts : held'[y] = held[y]
    BY Checking
<1>2. parts' = parts /\ goal' = goal /\ pc' \in {"plan", "macros"}
      /\ (op = "apply" => pc' # "plan") /\ (op = "restore" => pc' = "plan")
    BY <1>1 DEF NextLabel, passFrame, WhatInv
<1>3. todo' \subseteq Macros /\ todo' \cap Sections = {}
    BY <1>1, Kinds DEF TypeOK, PlaceInv
<1>4. WrittenHeld(held)'
    BY <1>1, <1>2 DEF WrittenHeld
<1>5. PlaceInv'
    BY <1>2, <1>3 DEF PlaceInv
<1>6. op = "restore" => (MacroPhase <=> MacroPhase')
    BY <1>2 DEF MacroPhase
<1>7. pc # "idle" /\ todo' \subseteq todo
    OBVIOUS
<1> QED
    BY <1>1, <1>2, <1>3, <1>4, <1>5, <1>6, <1>7, Moving

LEMMA WithoutLights ==
    ASSUME IInv, NoLights
    PROVE  IInv'
<1>1. /\ pc = "lights" /\ Lights \notin todo /\ held' = held
      /\ pc' = NextLabel /\ UNCHANGED <<callFrame, passFrame>> /\ todo' = todo \ {Lights}
    BY DEF NoLights, Onward
<1> QED
    BY <1>1, AfterLights

LEMMA LightsChecked ==
    ASSUME IInv, CheckLights
    PROVE  IInv'
<1>1. /\ pc = "check_lights" /\ held' = held
      /\ (Matches({Lights}) /\ Written(Lights, NextLabel)) \/ Fail
    BY DEF CheckLights
<1>2. Fail => IInv'
    BY <1>1, Checking
<1>3. CASE Matches({Lights}) /\ Written(Lights, NextLabel)
  <2>1. /\ pc' = NextLabel /\ todo' = todo \ {Lights} /\ UNCHANGED <<callFrame, passFrame>>
        /\ held[Lights] = goal[Lights]
    BY <1>3 DEF Written, Matches
  <2> QED
    BY <1>1, <2>1, AfterLights
<1> QED
    BY <1>1, <1>2, <1>3

\* A command about a part that still has to be read back.
LEMMA Working ==
    ASSUME IInv, NEW x \in todo \ Sections, NEW outcomes \in SUBSET Values, Sent(x, outcomes),
           NEW l \in {"write_lights", "check_lights", "header", "steps", "check_macro"},
           \/ pc \in {"lights", "write_lights"} /\ l \in {"write_lights", "check_lights"} /\ x = Lights
           \/ MacroPhase /\ l \in {"header", "steps", "check_macro"},
           Onward(l) \/ Fail
    PROVE  IInv'
<1>1. pc # "idle" /\ pc # "record"
    BY DEF MacroPhase
<1>2. /\ TypeOK /\ WrittenHeld(held) /\ PlaceInv /\ WhatInv
      /\ x \in parts /\ x \in Parts
      /\ held' \in Profile
      /\ \A y \in Parts \ {x} : held'[y] = held[y]
      /\ Fail => IInv'
    BY <1>1, Commanding
<1>3. CASE Onward(l)
  <2>1. /\ pc' = l /\ todo' = todo /\ UNCHANGED <<callFrame, passFrame>>
        /\ parts' = parts /\ goal' = goal /\ parts \subseteq Parts
    BY <1>2, <1>3 DEF Onward, passFrame, TypeOK
  <2>2. WrittenHeld(held)'
    BY <1>1, <1>2, <2>1 DEF WrittenHeld
  <2>3. PlaceInv'
    BY <1>1, <1>2, <2>1 DEF PlaceInv
  <2>4. MacroPhase <=> MacroPhase'
    BY <2>1 DEF MacroPhase
  <2>5. pc' \in {"plan", "macros", "header", "steps", "check_macro"} => todo' \subseteq Macros
    BY <1>2, <2>1 DEF TypeOK, MacroPhase
  <2>6. \A y \in Parts \ parts : held'[y] = held[y]
    BY <1>2
  <2>7. op = "apply" => pc' # "plan"
    BY <2>1
  <2> QED
    BY <1>1, <1>2, <2>1, <2>2, <2>3, <2>4, <2>5, <2>6, <2>7, Moving
<1> QED
    BY <1>2, <1>3

LEMMA LightsCommanded ==
    ASSUME IInv, PrepareLights \/ WriteLights
    PROVE  IInv'
<1>1. Lights \in todo \ Sections
    BY Kinds DEF PrepareLights, WriteLights, IInv, WriteInv, PlaceInv
<1>2. {Garbage} \in SUBSET Values /\ {goal[Lights], Garbage} \in SUBSET Values
    BY <1>1, NextPart, ValuesAssumption DEF IInv, TypeOK
<1>3. CASE PrepareLights
    BY <1>1, <1>2, <1>3, Working DEF PrepareLights
<1>4. CASE WriteLights
    BY <1>1, <1>2, <1>4, Working DEF WriteLights
<1> QED
    BY <1>3, <1>4

LEMMA MacroCommanded ==
    ASSUME IInv, PrepareMacro \/ WriteHeader \/ WriteSteps
    PROVE  IInv'
<1>1. todo # {} /\ todo \subseteq Macros /\ TypeOK /\ MacroPhase
    BY DEF PrepareMacro, WriteHeader, WriteSteps, IInv, TypeOK, WriteInv, PlaceInv, MacroPhase
<1>2. Slot \in todo \ Sections /\ Slot \in Parts
    BY <1>1, NextPart, Kinds
<1>3. goal[Slot] \in Values
    BY <1>1, <1>2, NextPart
<1>4. /\ {0} \in SUBSET Values /\ {Garbage} \in SUBSET Values /\ {} \in SUBSET Values
      /\ {goal[Slot]} \in SUBSET Values
    BY <1>3, ValuesAssumption
<1>5. CASE PrepareMacro
    BY <1>1, <1>2, <1>4, <1>5, Working DEF PrepareMacro
<1>6. CASE WriteHeader
    BY <1>1, <1>2, <1>4, <1>6, Working DEF WriteHeader
<1>7. CASE WriteSteps
  <2> DEFINE outcomes == CASE held[Slot] = 0 -> {}
                           [] held[Slot] = Garbage -> {goal[Slot]}
                           [] OTHER -> {Garbage}
  <2>1. outcomes \in SUBSET Values
    BY <1>4, ValuesAssumption
  <2>2. Sent(Slot, outcomes) /\ (Onward("check_macro") \/ Fail)
    BY <1>7 DEF WriteSteps
  <2> HIDE DEF outcomes
  <2> QED
    BY <1>1, <1>2, <2>1, <2>2, Working
<1> QED
    BY <1>5, <1>6, <1>7

LEMMA MacroChecked ==
    ASSUME IInv, CheckMacro
    PROVE  IInv'
<1>1. /\ pc = "check_macro" /\ held' = held
      /\ (Matches({Slot}) /\ Written(Slot, "macros")) \/ Fail
    BY DEF CheckMacro
<1>2. /\ TypeOK /\ WrittenHeld(held) /\ PlaceInv /\ WhatInv
      /\ held' \in Profile
      /\ \A y \in Parts \ parts : held'[y] = held[y]
      /\ Fail => IInv'
    BY <1>1, Checking
<1>3. CASE Matches({Slot}) /\ Written(Slot, "macros")
  <2>1. /\ pc' = "macros" /\ todo' = todo \ {Slot} /\ UNCHANGED <<callFrame, passFrame>>
        /\ parts' = parts /\ goal' = goal /\ held[Slot] = goal[Slot]
    BY <1>3 DEF Written, Matches, passFrame
  <2>2. todo \subseteq Macros
    BY <1>1, <1>2 DEF TypeOK
  <2>3. WrittenHeld(held)'
    BY <1>1, <1>2, <2>1 DEF WrittenHeld
  <2>4. PlaceInv'
    BY <1>1, <1>2, <2>1 DEF PlaceInv
  <2>5. MacroPhase <=> MacroPhase'
    BY <1>1, <2>1 DEF MacroPhase
  <2> QED
    BY <1>1, <1>2, <2>1, <2>2, <2>3, <2>4, <2>5, Moving
<1> QED
    BY <1>1, <1>2, <1>3

LEMMA Ending ==
    ASSUME IInv, Done
    PROVE  IInv'
<1>1. /\ pc = "macros" /\ todo = {} /\ UNCHANGED <<callFrame, held, undoing, goal, parts>>
      /\ pc' = "idle" /\ todo' = {}
      /\ told' = (IF op = "restore" THEN "restored"
                  ELSE IF undoing THEN "rolled_back" ELSE "applied")
      /\ TypeOK /\ WhatInv /\ OthersHeld(held) /\ WrittenHeld(held)
    BY DEF Done, End, IInv, WriteInv
<1>2. TypeOK'
    BY <1>1 DEF TypeOK, callFrame
<1>3. BackupFirst'
    BY <1>1 DEF BackupFirst, WhatInv, callFrame
<1>4. held \in Profile /\ before \in Profile /\ asked \in Profile
    BY <1>1 DEF TypeOK
<1>5. \A x \in parts : held[x] = goal[x]
    BY <1>1 DEF WrittenHeld
<1>6. held' = held /\ before' = before /\ asked' = asked
    BY <1>1 DEF callFrame
<1>7. CASE op = "apply" /\ ~undoing
  <2>1. /\ goal = [asked EXCEPT ![Flag] = 1] /\ parts = ToWrite(before, asked)
        /\ asked[Flag] = before[Flag]
    BY <1>1, <1>7 DEF WhatInv
  <2>2. \A x \in ToWrite(before, asked) : held[x] = IF x = Flag THEN 1 ELSE asked[x]
    BY <1>4, <1>5, <2>1, ToWriteParts DEF Profile
  <2>3. \A x \in Parts \ ToWrite(before, asked) : held[x] = before[x]
    BY <1>1, <1>7, <2>1 DEF OthersHeld
  <2>4. /\ \A x \in Parts \ ({Flag} \cup Macros) : Read(held)[x] = asked[x]
        /\ \A s \in Slots : Players(asked, s) # {} => held[<<"macro", s>>] = asked[<<"macro", s>>]
    BY <1>4, <2>1, <2>2, <2>3, EditIsHeld
  <2>5. AppliedIsHeld' /\ told' = "applied"
    BY <1>1, <1>6, <1>7, <2>4 DEF AppliedIsHeld
  <2> QED
    BY <1>1, <1>2, <1>3, <2>5 DEF IInv, WriteInv, Outcomes, RollbackPutsBack, RestoreIsComplete
<1>8. CASE op = "apply" /\ undoing
  <2>1. goal = before
    BY <1>1, <1>8 DEF WhatInv
  <2>2. \A x \in Parts : held[x] = before[x] \/ (x \in Macros /\ Read(before)[x] = 0)
    BY <1>1, <1>5, <2>1 DEF OthersHeld
  <2>3. \A x \in Parts : (x \in Macros /\ Players(before, x[2]) # {} => before[x] # 0)
                            => Read(held)[x] = Read(before)[x]
    BY <1>4, <2>2, UndoneIsHeld
  <2>4. RollbackPutsBack' /\ told' = "rolled_back"
    BY <1>1, <1>6, <1>8, <2>3 DEF RollbackPutsBack
  <2> QED
    BY <1>1, <1>2, <1>3, <2>4 DEF IInv, WriteInv, Outcomes, AppliedIsHeld, RestoreIsComplete
<1>9. CASE op = "restore"
  <2> DEFINE slots == Planned(Read(asked), Read(before))
  <2>1. ~undoing /\ goal = asked /\ parts = RestoredParts(before, asked) \cup MacroParts(slots)
    BY <1>1, <1>9 DEF WhatInv, MacroPhase
  <2>2. MacroParts(slots) \subseteq Macros /\ Plain \cap Macros = {} /\ Plain \subseteq Parts
      /\ RestoredParts(before, asked) \cap Macros = {}
    BY Kinds, ToWriteParts DEF Plain, MacroParts, Planned, Macros
  <2>3. \A x \in Plain : held[x] = IF asked[x] # before[x] THEN asked[x] ELSE before[x]
    <3>1. \A x \in Plain : x \in parts <=> before[x] # asked[x]
      BY <2>1, <2>2 DEF RestoredParts, Differing, Plain
    <3> QED
      BY <1>1, <1>5, <2>1, <2>2, <3>1 DEF OthersHeld
  <2>4. \A s \in Slots : held[<<"macro", s>>] = IF s \in slots
                                              THEN asked[<<"macro", s>>] ELSE before[<<"macro", s>>]
    <3>1. \A s \in Slots : <<"macro", s>> \in MacroParts(slots) <=> s \in slots
      BY DEF MacroParts
    <3>2. \A s \in Slots : <<"macro", s>> \in Macros /\ <<"macro", s>> \in Parts
      BY Kinds
    <3>3. \A s \in Slots : <<"macro", s>> \in parts <=> s \in slots
      BY <2>1, <2>2, <3>1, <3>2
    <3> QED
      BY <1>1, <1>5, <2>1, <3>2, <3>3 DEF OthersHeld
  <2>5. Read(held) = Read(asked)
    BY <1>4, <2>3, <2>4, BackupIsHeld
  <2>6. RestoreIsComplete' /\ told' = "restored"
    BY <1>1, <1>6, <1>9, <2>5 DEF RestoreIsComplete
  <2> QED
    BY <1>1, <1>2, <1>3, <2>6 DEF IInv, WriteInv, Outcomes, AppliedIsHeld, RollbackPutsBack
<1> QED
    BY <1>1, <1>7, <1>8, <1>9 DEF WhatInv

LEMMA StepsKeep ==
    IInv /\ [Next]_vars => IInv'
<1> SUFFICES ASSUME IInv, [Next]_vars PROVE IInv'
    OBVIOUS
<1>1. ASSUME NEW request \in Requests, RecordKeyboardApply(request)
      PROVE  IInv'
    BY <1>1, Applying
<1>2. ASSUME NEW backup \in backups, RestoreBackup(backup)
      PROVE  IInv'
    BY <1>2, Restoring
<1>3. CASE WriteSpan \/ CheckSpans
    BY <1>3, Spanning, SpansChecked
<1>4. CASE NoLights \/ PrepareLights \/ WriteLights \/ CheckLights
    BY <1>4, WithoutLights, LightsCommanded, LightsChecked
<1>5. CASE Plan
    BY <1>5, Planning
<1>6. CASE PrepareMacro \/ WriteHeader \/ WriteSteps \/ CheckMacro
    BY <1>6, MacroCommanded, MacroChecked
<1>7. CASE Done
    BY <1>7, Ending
<1>8. CASE UNCHANGED vars
    BY <1>8 DEF vars, IInv, TypeOK, WriteInv, WhatInv, OthersHeld, WrittenHeld, PlaceInv,
        MacroPhase, Outcomes, AppliedIsHeld, RollbackPutsBack, RestoreIsComplete, BackupFirst
<1> QED
    BY <1>1, <1>2, <1>3, <1>4, <1>5, <1>6, <1>7, <1>8 DEF Next, Step

-----------------------------------------------------------------------------
(* The theorems.                                                           *)

LEMMA Always == Spec => []IInv
    BY Started, StepsKeep, PTL DEF Spec

\* What is held, asked and backed up are whole profiles throughout, and once the
\* record and the colours are written only macros are left to write
\* (internal/core/kbrecord.go).
THEOREM TypeCorrect == Spec => []TypeOK
<1>1. IInv => TypeOK
    BY DEF IInv
<1> QED
    BY <1>1, Always, PTL

\* Whatever commands fail, half take or are acknowledged without taking: an edit
\* reported as applied is what a read shows, a rollback reported as done shows
\* what was there before, a backup reported as restored is back, and nothing was
\* changed that is not in a backup (kbrecord.go:912-1048).
THEOREM PromiseKept == Spec => []KeepsPromise
<1>1. IInv => KeepsPromise
    BY DEF IInv, Outcomes, KeepsPromise
<1> QED
    BY <1>1, Always, PTL

-----------------------------------------------------------------------------
(* The promise: seen from its caller, a call keeps the profile and then    *)
(* changes it entirely or not at all, or warns (RecoverableWrite).         *)

\* What a call restores from is a backup.
KeptInv == op = "restore" => asked \in backups

LEMMA StepFrame ==
    ASSUME Step
    PROVE  pc # "idle" /\ UNCHANGED callFrame
BY DEF Step, WriteSpan, CheckSpans, NoLights, PrepareLights, WriteLights, CheckLights, Plan,
       PrepareMacro, WriteHeader, WriteSteps, CheckMacro, Done, Onward, Written, Fail

LEMMA KeptAlways == Spec => []KeptInv
<1>1. Init => KeptInv
    BY DEF Init, KeptInv
<1>2. ASSUME KeptInv, [Next]_vars
      PROVE  KeptInv'
  <2>1. ASSUME NEW request \in Requests, RecordKeyboardApply(request)
        PROVE  KeptInv'
    BY <2>1 DEF RecordKeyboardApply, Call, KeptInv
  <2>2. ASSUME NEW backup \in backups, RestoreBackup(backup)
        PROVE  KeptInv'
    BY <2>2 DEF RestoreBackup, KeptInv
  <2>3. CASE Step
    BY <1>2, <2>3, StepFrame DEF callFrame, KeptInv
  <2>4. CASE UNCHANGED vars
    BY <1>2, <2>4 DEF vars, KeptInv
  <2> QED
    BY <1>2, <2>1, <2>2, <2>3, <2>4 DEF Next
<1> QED
    BY <1>1, <1>2, PTL DEF Spec

-----------------------------------------------------------------------------
(* The mapping.                                                            *)

Wanted == [x \in Promised |-> asked[x]]

LEMMA PromisedType == /\ Promised \subseteq Plain /\ Promised \subseteq Parts
                      /\ Flag \notin Promised /\ Promised \cap Macros = {}
BY Kinds DEF Promised, Plain, Sections, Parts, Flag, Setting, Lights, Entries, Macros

LEMMA SeenType ==
    ASSUME NEW p \in Profile
    PROVE  Seen(p) \in Promise!Profiles
<1>1. \A x \in Promised : Read(p)[x] \in Values
    BY ReadOf, PromisedType DEF Profile
<1> QED
    BY <1>1 DEF Seen, Promise!Profiles

LEMMA WantedType ==
    ASSUME asked \in Profile
    PROVE  Wanted \in [Promised -> Values]
BY PromisedType DEF Wanted, Profile

LEMMA InitPromise == Init => Promise!Init
<1> SUFFICES ASSUME Init PROVE Promise!Init
    OBVIOUS
<1>1. held \in Profile /\ asked \in Profile
    BY ProfilesAssumption DEF Init
<1>2. profileBar \in Promise!Profiles
    BY <1>1, SeenType DEF Init, profileBar
<1>3. {Seen(b) : b \in backups} = {}
    BY DEF Init
<1>4. Wanted \in Promise!Changes
    BY <1>1, WantedType DEF Promise!Changes
<1> QED
    BY <1>2, <1>3, <1>4 DEF Init, Wanted, Promise!Init

\* A call begins, is refused at once, or finds nothing to do.
LEMMA CallIsAsked ==
    ASSUME IInv, NEW which, Call(which), asked' \in Profile, backups' \in {backups, Kept},
           \/ told' \in {"nothing", "refused"}
           \/ told' = "applied" /\ backups' = Kept /\ \A x \in Promised : Read(held)[x] = asked'[x]
    PROVE  Promise!Next
<1>1. profileBar = Seen(held) /\ profileBar' = Seen(held)
    BY DEF Call, profileBar
<1>2. Wanted' \in [Promised -> Values]
    BY PromisedType DEF Wanted, Profile
<1>3. Promise!Asked
    BY <1>2 DEF Promise!Asked, Wanted
<1>4. /\ backups' = backups => {Seen(b) : b \in backups}' = {Seen(b) : b \in backups}
      /\ backups' = Kept => {Seen(b) : b \in backups}' = {Seen(b) : b \in backups} \cup {Seen(held)}
    BY DEF Kept
<1>5. CASE told' \in {"nothing", "refused"}
    BY <1>1, <1>3, <1>4, <1>5 DEF Promise!Next, Promise!Ask, Promise!Refuse, Promise!Keep
<1>6. CASE told' = "applied" /\ backups' = Kept /\ \A x \in Promised : Read(held)[x] = asked'[x]
  <2>1. Promise!Overlay(Seen(held), Wanted') = Seen(held)
    BY <1>6 DEF Promise!Overlay, Wanted, Seen
  <2> QED
    BY <1>1, <1>3, <1>4, <1>6, <2>1 DEF Promise!Next, Promise!Agree, Promise!Keep, Wanted
<1> QED
    BY <1>5, <1>6

\* The call goes on: its caller sees nothing.
LEMMA GoingOnIsUnseen ==
    ASSUME IInv, Step, pc' # "idle"
    PROVE  UNCHANGED Promise!vars
<1>1. pc # "idle" /\ UNCHANGED callFrame
    BY StepFrame
<1>2. told = "nothing"
    BY <1>1 DEF IInv, WriteInv
<1>3. told' = "nothing"
    BY <1>2 DEF Step, WriteSpan, CheckSpans, NoLights, PrepareLights, WriteLights, CheckLights, Plan,
         PrepareMacro, WriteHeader, WriteSteps, CheckMacro, Done, Onward, Written, Fail, PutBack,
         GiveUp, Write, End, passFrame
<1> QED
    BY <1>1, <1>2, <1>3 DEF callFrame, profileBar, Promise!vars

\* The call ends.
LEMMA EndIsPromised ==
    ASSUME IInv, KeptInv, Step, pc' = "idle", IInv'
    PROVE  Promise!Next
<1>1. /\ pc # "idle" /\ asked' = asked /\ before' = before /\ backups' = backups /\ op' = op
      /\ held' \in Profile /\ before \in Profile
    BY StepFrame DEF callFrame, IInv, TypeOK
<1>2. /\ profileBar = Seen(before) /\ profileBar' = Seen(held')
      /\ {Seen(b) : b \in backups}' = {Seen(b) : b \in backups}
      /\ Wanted' = Wanted
    BY <1>1 DEF profileBar, Wanted
<1>3. profileBar' \in Promise!Profiles
    BY <1>1, <1>2, SeenType
<1>4. op \in {"apply", "restore"} /\ (op = "apply" => profileBar \in {Seen(b) : b \in backups})
    BY <1>1, <1>2 DEF IInv, WriteInv, WhatInv
<1>5. \/ told' \in {"applied", "rolled_back", "rollback_failed"} /\ op = "apply"
      \/ told' \in {"restored", "restore_failed"} /\ op = "restore"
  <2>1. CASE Done
    BY <2>1, <1>4 DEF Done, End, IInv, WriteInv, WhatInv
  <2>2. CASE GiveUp
    BY <2>2, <1>4 DEF GiveUp, End
  <2>3. CASE Plan
    BY <1>1, <1>4, <2>3 DEF Plan, End, IInv, WriteInv, WhatInv
  <2>4. Done \/ GiveUp \/ Plan
    BY DEF Step, WriteSpan, CheckSpans, NoLights, PrepareLights, WriteLights, CheckLights,
           PrepareMacro, WriteHeader, WriteSteps, CheckMacro, Onward, Written, Fail, PutBack, Write,
           NextLabel
  <2> QED
    BY <2>1, <2>2, <2>3, <2>4
<1>6. CASE told' = "applied"
  <2>1. \A x \in Promised : Read(held')[x] = asked[x]
    BY <1>1, <1>6, PromisedType DEF IInv, Outcomes, AppliedIsHeld
  <2>2. Seen(held') = Promise!Overlay(Seen(before), Wanted)
    BY <2>1 DEF Seen, Promise!Overlay, Wanted
  <2> QED
    BY <1>1, <1>2, <1>4, <1>5, <1>6, <2>2 DEF Promise!Next, Promise!Apply, Wanted
<1>7. CASE told' = "rolled_back"
  <2>1. \A x \in Promised : Read(held')[x] = Read(before)[x]
    BY <1>1, <1>7, PromisedType DEF IInv, Outcomes, RollbackPutsBack
  <2>2. Seen(held') = Seen(before)
    BY <2>1 DEF Seen
  <2> QED
    BY <1>1, <1>2, <1>4, <1>5, <1>7, <2>2 DEF Promise!Next, Promise!RollBack, Wanted
<1>8. CASE told' = "restored"
  <2>1. asked \in backups
    BY <1>5, <1>8 DEF KeptInv
  <2>2. Read(held') = Read(asked)
    BY <1>1, <1>8 DEF IInv, Outcomes, RestoreIsComplete
  <2>3. profileBar' \in {Seen(b) : b \in backups}
    BY <1>2, <2>1, <2>2 DEF Seen
  <2> QED
    BY <1>1, <1>2, <1>8, <2>3 DEF Promise!Next, Promise!Restore, Wanted
<1>9. CASE told' \in {"rollback_failed", "restore_failed"}
    BY <1>1, <1>2, <1>3, <1>4, <1>5, <1>9 DEF Promise!Next, Promise!Warn, Wanted
<1> QED
    BY <1>5, <1>6, <1>7, <1>8, <1>9

\* RecordKeyboardApply and RestoreBackup, for any keys, slots, values and edits and
\* with commands failing anywhere, look to their caller like one step, as
\* KeyboardApply does: the profile is stored as a backup and then changed entirely
\* or not at all, or the caller is warned and, of an edit, has the backup
\* (kbrecord.go:912-1048).
THEOREM RecordKeepsPromise == Spec => ImplementsPromise
<1>1. ASSUME IInv, KeptInv, IInv', [Next]_vars
      PROVE  [Promise!Next]_(Promise!vars)
  <2>1. /\ held \in Profile /\ asked' \in Profile /\ backups \subseteq Profile
        /\ held' \in Profile
    BY <1>1 DEF IInv, TypeOK
  <2>2. ASSUME NEW request \in Requests, RecordKeyboardApply(request)
        PROVE  Promise!Next
    <3>1. /\ Call("apply") /\ backups' \in {backups, Kept} /\ held' = held
          /\ \/ told' \in {"nothing", "refused"}
             \/ told' = "applied" /\ backups' = Kept
      BY <2>2 DEF RecordKeyboardApply, Call, End, Write
    <3>2. told' = "applied" => \A x \in Promised : Read(held)[x] = asked'[x]
      BY <1>1, <3>1, PromisedType DEF IInv, Outcomes, AppliedIsHeld
    <3> QED
      BY <1>1, <2>1, <3>1, <3>2, CallIsAsked
  <2>3. ASSUME NEW backup \in backups, RestoreBackup(backup)
        PROVE  Promise!Next
    <3>1. Call("restore") /\ backups' = backups /\ told' \in {"nothing", "refused"}
      BY <2>3 DEF RestoreBackup, End, Write
    <3> QED
      BY <1>1, <2>1, <3>1, CallIsAsked
  <2>4. CASE Step
    BY <1>1, <2>4, GoingOnIsUnseen, EndIsPromised
  <2>5. CASE UNCHANGED vars
    BY <2>5 DEF vars, profileBar, Promise!vars
  <2> QED
    BY <1>1, <2>2, <2>3, <2>4, <2>5 DEF Next
<1>2. Promise!Init /\ [][Promise!Next]_(Promise!vars) => ImplementsPromise
    BY DEF ImplementsPromise, Promise!Spec
<1> QED
    BY <1>1, <1>2, InitPromise, Always, KeptAlways, PTL DEF Spec
=============================================================================
