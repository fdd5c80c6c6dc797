--------------------------- MODULE InterfaceProofs ---------------------------
(***************************************************************************)
(* What holds of the terminal interface: of controllers as its input, for  *)
(* any pads, keys, system, channel and number of happenings, and of the    *)
(* messages that update its one model, for any devices and any way of      *)
(* using it.                                                               *)
(***************************************************************************)
EXTENDS NavInput, Shell, FiniteSetTheorems, SequenceTheorems, TLAPS

-----------------------------------------------------------------------------
(* The inductive invariant.                                                *)

Key(p) == machine.label[p]

\* The keys whose streams were started, or tried.
Connected == IF tick.on THEN KeysOf(tick.seen) \ tick.added ELSE known

PollInv ==
    /\ tick.added \subseteq KeysOf(tick.seen)
    /\ tick.removed \cap KeysOf(tick.seen) = {}

QuitInv == ~running => \A p \in Pads : streams[p] = 0

\* A handle opened for a pad reads that one.
Apart(p) == machine.byMatch => Alone(p)

StreamInv ==
    \A p \in plugged : Apart(p) =>
        streams[p] <= 1 /\ (Key(p) \notin Connected => streams[p] = 0 /\ p \notin broken)

\* Lists of one moment are alike.
LoadInv == \A l \in loads : l.at = clock => l.devices = plugged

\* No list newer than this one says otherwise.
Newest(l) == l.devices = plugged /\ \A m \in loads : m.at >= l.at => m.devices = plugged

\* Another list is on its way.
Coming ==
    \/ asked > 0
    \/ \E i \in DOMAIN events : IsHotplug(events[i])
    \/ Believed # KeysOf(plugged)
    \/ tick.on /\ tick.added \cup tick.removed # {}

ListInv == Coming \/ \E l \in loads \cup {list} : Newest(l)

\* The events about a product.
About(queue, pid) == {i \in DOMAIN queue : IsHotplug(queue[i]) /\ queue[i].pid = pid}

\* What was last said of a product before the ith event.
Said(queue, pid, i, status) ==
    \E j \in About(queue, pid) :
        /\ j < i /\ queue[j].status = status
        /\ \A k \in About(queue, pid) : k < i => k <= j

ActiveBefore(queue, said, pid, i) ==
    \/ Said(queue, pid, i, "active")
    \/ Note(pid, "active") \in said /\ \A k \in About(queue, pid) : k >= i

\* What will be said of it once all events are handled.
Told(pid) == ActiveBefore(events, notes, pid, Len(events) + 1)

\* No event says "unavailable" of a product that was said to be active.
InTurn(pid) ==
    \A i \in About(events, pid) :
        events[i].status = "unavailable" => ~ActiveBefore(events, notes, pid, i)

WordInv ==
    \A p \in Pads : Alone(p) =>
        /\ p \in plugged /\ Key(p) \in Connected => (Told(Pid(p)) <=> streams[p] > 0 \/ p \in broken)
        /\ Key(p) \notin Connected \cup tick.removed => ~Told(Pid(p))
        /\ InTurn(Pid(p))

IInv ==
    /\ TypeOK /\ PollInv /\ QuitInv /\ LoadInv
    /\ running /\ lapses \subseteq {"reused"} => ListInv
    /\ running /\ lapses = {} => StreamInv /\ WordInv

-----------------------------------------------------------------------------
(* Facts about the operators.                                              *)

\* A key names its product.
LEMMA Keys ==
    ASSUME NEW S \in SUBSET Pads
    PROVE  /\ KeysOf(S) \subseteq KeysOf(Pads)
           /\ \A key \in KeysOf(S) : key.pid \in Pids
BY DEF KeysOf, Pids, Pid

\* Who alone has a product's id alone has its key.
LEMMA AloneKey ==
    ASSUME NEW S \in SUBSET Pads, NEW p \in Pads, Alone(p),
           NEW key \in KeysOf(S), key.pid = Pid(p)
    PROVE  p \in S /\ key = Key(p)
<1>1. PICK q \in S : key = machine.label[q]
    BY DEF KeysOf
<1>2. q = p
    BY <1>1 DEF Alone, Pid
<1> QED
    BY <1>1, <1>2 DEF Key

\* How many of the handles opened together read a pad: none if it is not there,
\* and its own if handles do not go astray (startDeviceStreams).
LEMMA ReadBy ==
    ASSUME PadsAssumption, plugged \subseteq Pads, NEW fresh,
           NEW f, DOMAIN f \subseteq Pads, f \in [DOMAIN f -> plugged],
           \A q \in DOMAIN f : f[q] \in Reached(q, fresh), NEW p \in Pads
    PROVE  /\ Readers(f, p) \in Nat
           /\ p \notin plugged => Readers(f, p) = 0
           /\ Apart(p) /\ Astray(f) = {} =>
                Readers(f, p) = IF p \in DOMAIN f THEN 1 ELSE 0
<1> DEFINE tried == DOMAIN f
           R == {q \in tried : f[q] = p}
<1>1. IsFiniteSet(R)
    BY FS_Subset DEF PadsAssumption
<1>2. Cardinality(R) \in Nat
    BY <1>1, FS_CardinalityType
<1>3. p \notin plugged => R = {}
    OBVIOUS
<1>4. ASSUME Apart(p), Astray(f) = {}
      PROVE  R = tried \cap {p}
    <2>1. CASE machine.byMatch
        <3>1. \A q \in Pads : Pid(q) = Pid(p) => q = p
            BY <1>4, <2>1 DEF Apart, Alone
        <3>2. \A q \in tried : f[q] \in Pads /\ Pid(f[q]) = Pid(q)
            BY <2>1 DEF Reached
        <3> QED
            BY <3>1, <3>2
    <2>2. CASE ~machine.byMatch
        <3>1. \A q \in tried : f[q] = q
            BY <1>4, <2>2 DEF Astray
        <3> QED
            BY <3>1
    <2> QED
        BY <2>1, <2>2
<1>5. Cardinality({}) = 0
    BY FS_EmptySet
<1>6. Cardinality({p}) = 1
    BY FS_Singleton
<1>7. ASSUME Apart(p), Astray(f) = {}
      PROVE  Cardinality(R) = IF p \in DOMAIN f THEN 1 ELSE 0
    <2>1. CASE p \in tried
        <3>1. R = {p}
            BY <1>4, <1>7, <2>1
        <3> QED
            BY <3>1, <1>6, <2>1
    <2>2. CASE p \notin tried
        <3>1. R = {}
            BY <1>4, <1>7, <2>2
        <3> QED
            BY <3>1, <1>5, <2>2
    <2> QED
        BY <2>1, <2>2
<1>8. p \notin plugged => Cardinality(R) = 0
    BY <1>3, <1>5
<1>9. Readers(f, p) = Cardinality(R)
    BY DEF Readers
<1> QED
    BY <1>2, <1>7, <1>8, <1>9

\* What an opening is.
LEMMA Opened ==
    ASSUME NEW S, NEW fresh, NEW f \in Openings(S, fresh)
    PROVE  /\ DOMAIN f \subseteq S
           /\ f \in [DOMAIN f -> plugged]
           /\ \A q \in DOMAIN f : f[q] \in Reached(q, fresh)
BY DEF Openings

-----------------------------------------------------------------------------
(* What was said of a product, as the channel grows and shrinks.           *)

\* An event at the end changes nothing for those before it.
LEMMA SaidBefore ==
    ASSUME NEW queue \in Seq(Event), NEW e \in Event, NEW said, NEW pid,
           NEW i \in 1..(Len(queue) + 1)
    PROVE  /\ ActiveBefore(Append(queue, e), said, pid, i) <=> ActiveBefore(queue, said, pid, i)
           /\ i \in 1..Len(queue) =>
                (i \in About(Append(queue, e), pid) <=> i \in About(queue, pid))
<1> DEFINE after == Append(queue, e)
<1>1. Len(after) = Len(queue) + 1 /\ DOMAIN after = 1..(Len(queue) + 1) /\ DOMAIN queue = 1..Len(queue)
    OBVIOUS
<1>2. \A j \in 1..Len(queue) : after[j] = queue[j]
    OBVIOUS
<1> HIDE DEF after
<1>3. \A j \in 1..Len(queue) : j \in About(after, pid) <=> j \in About(queue, pid)
    BY <1>1, <1>2 DEF About
<1>4. \A j \in About(after, pid) : j \in 1..(Len(queue) + 1)
    BY <1>1 DEF About
<1>5. About(queue, pid) \subseteq 1..Len(queue)
    BY <1>1 DEF About
<1>6. \A k : k \in About(after, pid) /\ k < i <=> k \in About(queue, pid) /\ k < i
    BY <1>3, <1>4, <1>5
<1>7. Len(queue) \in Nat
    OBVIOUS
<1>8. \A k \in About(queue, pid) : k \in About(after, pid)
    BY <1>3, <1>5
<1>9. (\A k \in About(queue, pid) : k >= i) <=> (\A k \in About(after, pid) : k >= i)
    BY <1>4, <1>5, <1>6, <1>7, <1>8
<1>10. Said(after, pid, i, "active") <=> Said(queue, pid, i, "active")
    <2>1. ASSUME Said(after, pid, i, "active") PROVE Said(queue, pid, i, "active")
        <3>1. PICK j \in About(after, pid) :
                /\ j < i /\ after[j].status = "active"
                /\ \A k \in About(after, pid) : k < i => k <= j
            BY <2>1 DEF Said
        <3>2. j \in About(queue, pid) /\ j \in 1..Len(queue)
            BY <3>1, <1>5, <1>6
        <3> QED
            BY <3>1, <3>2, <1>2, <1>8 DEF Said
    <2>2. ASSUME Said(queue, pid, i, "active") PROVE Said(after, pid, i, "active")
        <3>1. PICK j \in About(queue, pid) :
                /\ j < i /\ queue[j].status = "active"
                /\ \A k \in About(queue, pid) : k < i => k <= j
            BY <2>2 DEF Said
        <3>2. j \in About(after, pid) /\ j \in 1..Len(queue)
            BY <3>1, <1>5, <1>8
        <3>3. \A k \in About(after, pid) : k < i => k <= j
            BY <3>1, <1>6
        <3> QED
            BY <3>1, <3>2, <3>3, <1>2 DEF Said
    <2> QED
        BY <2>1, <2>2
<1> QED
    BY <1>3, <1>9, <1>10 DEF ActiveBefore, after

\* After it, what it says of its product is the last word.
LEMMA SaidLast ==
    ASSUME NEW queue \in Seq(Event), NEW e \in Event, NEW said, NEW pid
    PROVE  ActiveBefore(Append(queue, e), said, pid, Len(queue) + 2) <=>
               IF IsHotplug(e) /\ e.pid = pid
               THEN e.status = "active"
               ELSE ActiveBefore(queue, said, pid, Len(queue) + 1)
<1> DEFINE after == Append(queue, e)
           n == Len(queue) + 1
<1>1. n \in Nat /\ n > 0 /\ DOMAIN after = 1..n /\ DOMAIN queue = 1..(n - 1) /\ Len(queue) + 2 = n + 1
    OBVIOUS
<1>2. after[n] = e /\ \A j \in 1..(n - 1) : after[j] = queue[j]
    OBVIOUS
<1>3. ActiveBefore(after, said, pid, n) <=> ActiveBefore(queue, said, pid, n)
    BY SaidBefore, <1>1
<1> HIDE DEF after, n
<1>4. About(after, pid) \subseteq 1..n
    BY <1>1 DEF About
<1>5. n \in About(after, pid) <=> IsHotplug(e) /\ e.pid = pid
    BY <1>1, <1>2 DEF About
<1>6. ASSUME n \in About(after, pid)
      PROVE  ActiveBefore(after, said, pid, n + 1) <=> e.status = "active"
    <2>1. ~\A k \in About(after, pid) : k >= n + 1
        BY <1>6, <1>1
    <2>2. \A j \in About(after, pid) :
            (\A k \in About(after, pid) : k < n + 1 => k <= j) <=> j = n
        BY <1>6, <1>1, <1>4
    <2>3. Said(after, pid, n + 1, "active") <=> after[n].status = "active"
        BY <1>6, <1>1, <2>2 DEF Said
    <2> QED
        BY <2>1, <2>3, <1>2 DEF ActiveBefore
<1>7. ASSUME n \notin About(after, pid)
      PROVE  ActiveBefore(after, said, pid, n + 1) <=> ActiveBefore(after, said, pid, n)
    <2>1. \A k \in About(after, pid) : k < n /\ k < n + 1 /\ ~(k >= n) /\ ~(k >= n + 1)
        BY <1>7, <1>1, <1>4
    <2>2. Said(after, pid, n + 1, "active") <=> Said(after, pid, n, "active")
        BY <2>1 DEF Said
    <2> QED
        BY <2>1, <2>2 DEF ActiveBefore
<1>8. CASE IsHotplug(e) /\ e.pid = pid
    BY <1>8, <1>1, <1>5, <1>6 DEF after
<1>9. CASE ~(IsHotplug(e) /\ e.pid = pid)
    BY <1>9, <1>1, <1>3, <1>5, <1>7 DEF after, n
<1> QED
    BY <1>8, <1>9

\* The note of a product after a note is made (replacePIDNote).
LEMMA Replaced ==
    ASSUME NEW old, NEW pid, NEW about, NEW status
    PROVE  LET after == ReplacePIDNote(old, Note(about, status))
           IN  /\ pid # about => (Note(pid, "active") \in after <=> Note(pid, "active") \in old)
               /\ status = "unavailable" => (Note(about, "active") \in after <=> Note(about, "active") \in old)
               /\ status # "unavailable" => (Note(about, "active") \in after <=> status = "active")
<1> DEFINE new == Note(about, status)
           after == ReplacePIDNote(old, new)
<1>1. \A x, y : Note(x, y).pid = x /\ Note(x, y).status = y
    BY DEF Note
<1>2. new.pid = about /\ new.status = status /\ (new = Note(about, "active") <=> status = "active")
    BY DEF Note
<1>3. pid # about => new # Note(pid, "active")
    BY <1>1
<1>4. CASE status = "unavailable" /\ Note(about, "active") \in old
    BY <1>2, <1>4 DEF ReplacePIDNote
<1>5. CASE ~(status = "unavailable" /\ Note(about, "active") \in old)
    <2>1. after = {n \in old : n.pid # about} \cup {new}
        BY <1>2, <1>5 DEF ReplacePIDNote
    <2>2. Note(pid, "active").pid = pid /\ Note(about, "active").pid = about
        BY <1>1
    <2> HIDE DEF new, after
    <2>3. Note(about, "active") \in after <=> status = "active"
        BY <2>1, <2>2, <1>2
    <2>4. pid # about => (Note(pid, "active") \in after <=> Note(pid, "active") \in old)
        BY <2>1, <2>2, <1>3
    <2> QED
        BY <2>3, <2>4, <1>5 DEF new, after
<1> QED
    BY <1>4, <1>5

\* What the notes say once the first event is handled (handleHotplugEvent).
Noted(queue, said) ==
    IF IsHotplug(Head(queue))
    THEN ReplacePIDNote(said, Note(Head(queue).pid, Head(queue).status))
    ELSE said

\* Handling the first event changes nothing of what will be said, unless it says
\* "unavailable" of what was said to be active.
LEMMA SaidTail ==
    ASSUME NEW queue \in Seq(Event), queue # <<>>, NEW said, NEW pid,
           NEW i \in 1..Len(queue),
           1 \in About(queue, pid) /\ queue[1].status = "unavailable" =>
               ~ActiveBefore(queue, said, pid, 1)
    PROVE  /\ ActiveBefore(Tail(queue), Noted(queue, said), pid, i) <=>
                  ActiveBefore(queue, said, pid, i + 1)
           /\ i < Len(queue) => /\ i \in About(Tail(queue), pid) <=> i + 1 \in About(queue, pid)
                                /\ Tail(queue)[i] = queue[i + 1]
<1> DEFINE rest == Tail(queue)
           n == Len(queue)
           A == About(queue, pid)
           B == About(rest, pid)
           noted == Note(pid, "active") \in Noted(queue, said)
           before == Note(pid, "active") \in said
<1>1. n \in Nat \ {0} /\ DOMAIN rest = 1..(n - 1) /\ DOMAIN queue = 1..n
    OBVIOUS
<1>2. Head(queue) = queue[1] /\ \A j \in 1..(n - 1) : rest[j] = queue[j + 1]
    OBVIOUS
<1> HIDE DEF rest, n
<1>3. A \subseteq 1..n /\ B \subseteq 1..(n - 1)
    BY <1>1 DEF About
<1>4. \A j \in 1..(n - 1) : j \in B <=> j + 1 \in A
    BY <1>1, <1>2 DEF About
<1>5. \A k \in A : k = 1 \/ (k - 1 \in B /\ k - 1 \in 1..(n - 1))
    <2> TAKE k \in A
    <2>1. CASE k = 1
        BY <2>1
    <2>2. CASE k # 1
        <3>1. k - 1 \in 1..(n - 1) /\ (k - 1) + 1 = k
            BY <2>2, <1>1, <1>3
        <3> HIDE DEF A, B
        <3> QED
            BY <3>1, <1>4
    <2> QED
        BY <2>1, <2>2
<1>6. \A k \in B : k \in 1..(n - 1) /\ k + 1 \in A
    BY <1>3, <1>4
<1>7. i \in Nat /\ i > 0
    BY <1>1
<1> DEFINE alone == 1 \in A /\ \A k \in A : k < i + 1 => k <= 1
<1>8. Said(queue, pid, i + 1, "active") <=>
          Said(rest, pid, i, "active") \/ (alone /\ queue[1].status = "active")
    <2>1. ASSUME Said(queue, pid, i + 1, "active"), ~(alone /\ queue[1].status = "active")
          PROVE  Said(rest, pid, i, "active")
        <3>1. PICK j \in A : /\ j < i + 1 /\ queue[j].status = "active"
                             /\ \A k \in A : k < i + 1 => k <= j
            BY <2>1 DEF Said
        <3>2. j # 1
            BY <2>1, <3>1
        <3>3. j - 1 \in B /\ j - 1 \in 1..(n - 1) /\ (j - 1) + 1 = j /\ j - 1 < i
            BY <3>1, <3>2, <1>3, <1>5, <1>7
        <3>4. rest[j - 1].status = "active"
            BY <3>1, <3>3, <1>2
        <3>5. \A k \in B : k < i => k <= j - 1
            <4> TAKE k \in B
            <4>1. k + 1 \in A /\ k \in Int
                BY <1>6
            <4> HIDE DEF A, B
            <4>2. k + 1 < i + 1 => k + 1 <= j
                BY <3>1, <4>1
            <4> QED
                BY <4>1, <4>2, <3>3, <1>1, <1>7
        <3> QED
            BY <3>3, <3>4, <3>5 DEF Said
    <2>2. ASSUME Said(rest, pid, i, "active")
          PROVE  Said(queue, pid, i + 1, "active")
        <3>1. PICK j \in B : /\ j < i /\ rest[j].status = "active"
                             /\ \A k \in B : k < i => k <= j
            BY <2>2 DEF Said
        <3>2. j + 1 \in A /\ j \in 1..(n - 1) /\ j + 1 < i + 1 /\ queue[j + 1].status = "active"
            BY <3>1, <1>1, <1>2, <1>6, <1>7
        <3>3. \A k \in A : k < i + 1 => k <= j + 1
            <4> TAKE k \in A
            <4>1. CASE k = 1
                BY <4>1, <3>2, <1>1
            <4>2. CASE k # 1
                <5>1. k - 1 \in B /\ k \in 1..n
                    BY <4>2, <1>3, <1>5
                <5> HIDE DEF A, B
                <5>2. k - 1 < i => k - 1 <= j
                    BY <5>1, <3>1
                <5> QED
                    BY <5>1, <5>2, <3>2, <1>1, <1>7
            <4> QED
                BY <4>1, <4>2
        <3> QED
            BY <3>2, <3>3 DEF Said
    <2>3. ASSUME alone, queue[1].status = "active"
          PROVE  Said(queue, pid, i + 1, "active")
        BY <2>3, <1>7 DEF Said
    <2> QED
        BY <2>1, <2>2, <2>3
<1>9. (\A k \in B : k >= i) <=> (\A k \in A : k = 1 \/ k >= i + 1)
    <2>1. ASSUME \A k \in B : k >= i, NEW k \in A
          PROVE  k = 1 \/ k >= i + 1
        <3>1. k = 1 \/ (k - 1 \in B /\ k \in 1..n)
            BY <1>3, <1>5
        <3> HIDE DEF A, B
        <3> QED
            BY <3>1, <2>1, <1>1, <1>7
    <2>2. ASSUME \A k \in A : k = 1 \/ k >= i + 1, NEW k \in B
          PROVE  k >= i
        <3>1. k + 1 \in A /\ k \in 1..(n - 1)
            BY <1>6
        <3> HIDE DEF A, B
        <3> QED
            BY <3>1, <2>2, <1>1, <1>7
    <2> QED
        BY <2>1, <2>2
<1>10. 1 \in A <=> IsHotplug(Head(queue)) /\ Head(queue).pid = pid
    BY <1>1, <1>2 DEF About
<1>11. 1 \notin A => (noted <=> before)
    BY <1>10, Replaced DEF Noted
<1>12. ASSUME 1 \in A
       PROVE  noted <=> Head(queue).status = "active"
    <2> DEFINE status == Head(queue).status
    <2>1. Noted(queue, said) = ReplacePIDNote(said, Note(pid, status))
        BY <1>10, <1>12 DEF Noted
    <2>2. status = "unavailable" => ~before
        <3>1. \A k \in A : k >= 1
            BY <1>3
        <3> QED
            BY <3>1, <1>2, <1>12 DEF ActiveBefore
    <2> HIDE DEF status
    <2> QED
        BY <2>1, <2>2, Replaced DEF status
<1>13. A \subseteq Int /\ (1 \in A => ~\A k \in A : k >= i + 1)
    BY <1>3, <1>7
<1>14. 1 \in A => ((\A k \in A : k = 1 \/ k >= i + 1) <=> alone)
    BY <1>3, <1>1, <1>7
<1>15. 1 \notin A => ((\A k \in A : k = 1 \/ k >= i + 1) <=> (\A k \in A : k >= i + 1))
    OBVIOUS
<1> DEFINE clear == \A k \in A : k = 1 \/ k >= i + 1
           late == \A k \in A : k >= i + 1
<1>16. ActiveBefore(rest, Noted(queue, said), pid, i) <=>
           Said(rest, pid, i, "active") \/ (noted /\ clear)
    BY <1>9 DEF ActiveBefore
<1>17. ActiveBefore(queue, said, pid, i + 1) <=>
           Said(queue, pid, i + 1, "active") \/ (before /\ late)
    BY DEF ActiveBefore
<1>18. alone => 1 \in A
    OBVIOUS
<1>19. ActiveBefore(rest, Noted(queue, said), pid, i) <=> ActiveBefore(queue, said, pid, i + 1)
    <2>1. 1 \in A => ~late /\ (clear <=> alone) /\ (noted <=> queue[1].status = "active")
        BY <1>2, <1>12, <1>13, <1>14
    <2>2. 1 \notin A => (clear <=> late) /\ (noted <=> before) /\ ~alone
        BY <1>11, <1>15, <1>18
    <2> HIDE DEF A, clear, late, alone, noted, before
    <2> QED
        BY <2>1, <2>2, <1>8, <1>16, <1>17
<1>20. i < n => /\ i \in B <=> i + 1 \in A
                /\ rest[i] = queue[i + 1]
    BY <1>1, <1>2, <1>4, <1>7
<1> QED
    BY <1>19, <1>20 DEF rest, n

-----------------------------------------------------------------------------
(* The types.                                                              *)

\* An event appended leaves those before it in place.
LEMMA AppendKeeps ==
    ASSUME NEW queue \in Seq(Event), NEW e \in Event
    PROVE  \A i \in DOMAIN queue :
               i \in DOMAIN Append(queue, e) /\ Append(queue, e)[i] = queue[i]
<1>1. DOMAIN queue = 1..Len(queue) /\ Len(queue) \in Nat
    OBVIOUS
<1>2. DOMAIN Append(queue, e) = 1..(Len(queue) + 1)
    OBVIOUS
<1>3. \A i \in 1..Len(queue) : Append(queue, e)[i] = queue[i]
    OBVIOUS
<1> QED
    BY <1>1, <1>2, <1>3

\* What sending does to the channel (sendNavEvent).
LEMMA Sent ==
    ASSUME TypeOK, ChannelAssumption, NEW e \in Event, Send(e)
    PROVE  /\ events' \in Seq(Event) /\ Len(events') <= ChannelSize
           /\ Dropped(e) \subseteq Lapses
           /\ IsHotplug(e) /\ "dropped" \notin Dropped(e) => events' = Append(events, e)
           /\ events' = Append(events, e) \/ events' = events
<1>1. CASE HasRoom
    <2>1. events' = Append(events, e) /\ Dropped(e) = {}
        BY <1>1 DEF Send, Dropped
    <2>2. Len(Append(events, e)) = Len(events) + 1 /\ Append(events, e) \in Seq(Event)
        BY DEF TypeOK
    <2> QED
        BY <1>1, <2>1, <2>2 DEF TypeOK, HasRoom, ChannelAssumption
<1>2. CASE ~HasRoom
    BY <1>2 DEF Send, Dropped, TypeOK, Lapses
<1> QED
    BY <1>1, <1>2

\* What Start found and opened.
Begun(seen, f, gone) ==
    /\ seen \subseteq Pads /\ gone \subseteq seen \ plugged
    /\ f \in Openings(seen, plugged \ seen)
    /\ clock = Cardinality(seen \ plugged) + Cardinality(plugged \ seen)
    /\ clock <= MaxHappenings
    /\ known = KeysOf(seen)
    /\ streams = [p \in Pads |-> Readers(f, p)]
    /\ notes = {Note(key.pid, IF key \in KeysOf(DOMAIN f \cup gone) THEN "active" ELSE "unavailable") :
                    key \in known}
    /\ lapses = Astray(f)

LEMMA StartBegins ==
    ASSUME Init
    PROVE  \E seen, f, gone : Begun(seen, f, gone)
<1>1. PICK seen \in SUBSET Pads :
        /\ clock = Cardinality(seen \ plugged) + Cardinality(plugged \ seen)
        /\ clock <= MaxHappenings
        /\ known = KeysOf(seen)
        /\ \E f \in Openings(seen, plugged \ seen) :
            \E gone \in SUBSET (seen \ plugged) :
                /\ streams = [p \in Pads |-> Readers(f, p)]
                /\ notes = {Note(key.pid, IF key \in KeysOf(DOMAIN f \cup gone) THEN "active" ELSE "unavailable") :
                                key \in known}
                /\ lapses = Astray(f)
    BY DEF Init
<1>2. PICK f \in Openings(seen, plugged \ seen) :
        \E gone \in SUBSET (seen \ plugged) :
            /\ streams = [p \in Pads |-> Readers(f, p)]
            /\ notes = {Note(key.pid, IF key \in KeysOf(DOMAIN f \cup gone) THEN "active" ELSE "unavailable") :
                            key \in known}
            /\ lapses = Astray(f)
    BY <1>1
<1>3. PICK gone \in SUBSET (seen \ plugged) :
        /\ streams = [p \in Pads |-> Readers(f, p)]
        /\ notes = {Note(key.pid, IF key \in KeysOf(DOMAIN f \cup gone) THEN "active" ELSE "unavailable") :
                        key \in known}
        /\ lapses = Astray(f)
    BY <1>2
<1>4. Begun(seen, f, gone)
    BY <1>1, <1>3 DEF Begun
<1> QED
    BY <1>4

\* The types are kept (navstream.go, app.go:766-825).
LEMMA TypeInit ==
    ASSUME PadsAssumption, ChannelAssumption, BoundAssumption, Init
    PROVE  TypeOK
<1>1. plugged \subseteq Pads /\ machine \in Machines /\ running \in BOOLEAN /\ asked \in Nat
    BY DEF Init
<1>2. PICK seen, f, gone : Begun(seen, f, gone)
    BY StartBegins
<1>3. clock \in 0..MaxHappenings
    <2>1. IsFiniteSet(seen \ plugged) /\ IsFiniteSet(plugged \ seen)
        BY <1>1, <1>2, FS_Subset DEF Begun, PadsAssumption
    <2>2. Cardinality(seen \ plugged) \in Nat /\ Cardinality(plugged \ seen) \in Nat
        BY <2>1, FS_CardinalityType
    <2> QED
        BY <1>2, <2>2 DEF Begun, BoundAssumption
<1>4. /\ tick \in [on : BOOLEAN, seen : SUBSET Pads, fresh : SUBSET Pads,
                   added : SUBSET KeysOf(Pads), removed : SUBSET KeysOf(Pads)]
      /\ tick = Idle
    BY DEF Init, Idle
<1>5. known \subseteq KeysOf(Pads) /\ \A key \in known : key.pid \in Pids
    BY <1>2, Keys DEF Begun
<1>6. /\ DOMAIN f \subseteq Pads /\ f \in [DOMAIN f -> plugged]
      /\ \A q \in DOMAIN f : f[q] \in Reached(q, plugged \ seen)
    BY <1>2, Opened DEF Begun
<1>7. \A p \in Pads : /\ Readers(f, p) \in Nat
                      /\ p \notin plugged => Readers(f, p) = 0
    BY <1>1, <1>6, ReadBy
<1>8. streams \in [Pads -> Nat] /\ (\A p \in Pads \ plugged : streams[p] = 0) /\ broken \subseteq plugged
    BY <1>2, <1>7 DEF Init, Begun
<1>9. notes \subseteq [pid : Pids, status : Statuses]
    BY <1>2, <1>5 DEF Begun, Note, Statuses
<1>10. events \in Seq(Event) /\ Len(events) <= ChannelSize
    BY DEF Init, ChannelAssumption
<1>11. \A l \in loads \cup {list} : l.at \in 0..clock /\ l.devices \subseteq Pads
    BY <1>3 DEF Init, Listing, BoundAssumption
<1>12. lapses \subseteq Lapses
    BY <1>2 DEF Begun, Astray, Lapses
<1> QED
    BY <1>1, <1>3, <1>4, <1>5, <1>8, <1>9, <1>10, <1>11, <1>12 DEF TypeOK

\* Nothing that came before is later than a clock that goes on.
LEMMA Earlier ==
    ASSUME TypeOK, clock' \in 0..MaxHappenings, clock' >= clock, BoundAssumption
    PROVE  \A l \in loads \cup {list} : l.at \in 0..clock' /\ l.devices \subseteq Pads
BY DEF TypeOK, BoundAssumption

\* The keys are those of the machine.
LEMMA Frame ==
    ASSUME machine' = machine
    PROVE  /\ KeysOf(Pads)' = KeysOf(Pads) /\ Event' = Event
           /\ [pid : Pids, status : Statuses]' = [pid : Pids, status : Statuses]
BY DEF KeysOf, Pids, Pid, Event, Statuses

\* What happens to a pad keeps the types.
LEMMA TypeHands ==
    ASSUME PadsAssumption, ChannelAssumption, BoundAssumption, TypeOK, NEW p \in Pads,
           PlugIn(p) \/ PullOut(p) \/ PressButton(p) \/ StreamEnds(p)
    PROVE  TypeOK'
<1>1. clock' \in 0..MaxHappenings /\ clock' >= clock
    BY DEF PlugIn, PullOut, PressButton, StreamEnds, Happens, TypeOK, BoundAssumption
<1>2. \A l \in loads \cup {list} : l.at \in 0..clock' /\ l.devices \subseteq Pads
    BY <1>1, Earlier
<1>3. CASE PlugIn(p)
    <2>1. /\ tick' \in [on : BOOLEAN, seen : SUBSET Pads, fresh : SUBSET Pads,
                        added : SUBSET KeysOf(Pads), removed : SUBSET KeysOf(Pads)]
          /\ tick'.on \/ tick' = Idle
        BY <1>3 DEF PlugIn, TypeOK
    <2>2. /\ machine' = machine /\ running' = running /\ known' = known /\ streams' = streams
          /\ broken' = broken /\ events' = events /\ plugged' = plugged \cup {p}
          /\ notes' = notes /\ asked' = asked /\ loads' = loads /\ list' = list
          /\ lapses' \subseteq Lapses
        BY <1>3 DEF PlugIn, screen, TypeOK, Lapses
    <2> QED
        BY <1>1, <1>2, <2>1, <2>2, Frame DEF TypeOK
<1>4. CASE PullOut(p)
    BY <1>1, <1>2, <1>4, Frame DEF PullOut, screen, TypeOK, Lapses
<1>5. CASE PressButton(p)
    <2>1. Press \in Event
        BY DEF Event
    <2>2. events' \in Seq(Event) /\ Len(events') <= ChannelSize
        BY <1>5, <2>1, Sent DEF PressButton
    <2> QED
        BY <1>1, <1>2, <1>5, <2>2, Frame DEF PressButton, pads, screen, TypeOK
<1>6. CASE StreamEnds(p)
    <2>1. /\ streams' \in [Pads -> Nat] /\ (\A q \in Pads \ plugged : streams'[q] = 0)
          /\ broken' \subseteq plugged
        BY <1>6 DEF StreamEnds, TypeOK
    <2>2. /\ machine' = machine /\ running' = running /\ known' = known /\ tick' = tick
          /\ events' = events /\ plugged' = plugged /\ lapses' = lapses
          /\ notes' = notes /\ asked' = asked /\ loads' = loads /\ list' = list
        BY <1>6 DEF StreamEnds, pads, screen
    <2> QED
        BY <1>1, <1>2, <2>1, <2>2, Frame DEF TypeOK
<1> QED
    BY <1>3, <1>4, <1>5, <1>6

\* An announcement is an event.
LEMMA Announced ==
    ASSUME TypeOK, NEW key \in KeysOf(Pads), NEW kind \in {"connected", "disconnected"},
           NEW status \in Statuses
    PROVE  /\ Hotplug(kind, key, status) \in Event
           /\ IsHotplug(Hotplug(kind, key, status))
           /\ Hotplug(kind, key, status).pid = key.pid
           /\ Hotplug(kind, key, status).status = status
<1>1. key.pid \in Pids
    BY Keys
<1> QED
    BY <1>1 DEF Hotplug, Event, IsHotplug

\* What the poller does keeps the types.
LEMMA TypePoll ==
    ASSUME PadsAssumption, ChannelAssumption, BoundAssumption, TypeOK,
           \/ \E seen \in SUBSET plugged : Enumerate(seen)
           \/ \E key \in KeysOf(Pads) : Connect(key) \/ Disconnect(key)
           \/ TickEnds
    PROVE  TypeOK'
<1>1. CASE \E seen \in SUBSET plugged : Enumerate(seen)
    <2>1. PICK seen \in SUBSET plugged : Enumerate(seen)
        BY <1>1
    <2>2. IsFiniteSet(plugged \ seen)
        BY FS_Subset DEF PadsAssumption, TypeOK
    <2>3. Cardinality(plugged \ seen) \in Nat
        BY <2>2, FS_CardinalityType
    <2>4. clock' \in 0..MaxHappenings /\ clock' >= clock
        BY <2>1, <2>3 DEF Enumerate, TypeOK, BoundAssumption
    <2>5. \A l \in loads \cup {list} : l.at \in 0..clock' /\ l.devices \subseteq Pads
        BY <2>4, Earlier
    <2>6. seen \subseteq Pads /\ KeysOf(seen) \subseteq KeysOf(Pads)
        BY Keys DEF TypeOK
    <2>7. /\ tick' \in [on : BOOLEAN, seen : SUBSET Pads, fresh : SUBSET Pads,
                        added : SUBSET KeysOf(Pads), removed : SUBSET KeysOf(Pads)]
          /\ tick'.on
        BY <2>1, <2>6 DEF Enumerate, Added, Removed, TypeOK
    <2>8. lapses' \subseteq Lapses
        BY <2>1 DEF Enumerate, TypeOK, Lapses
    <2> QED
        BY <2>1, <2>4, <2>5, <2>7, <2>8, Frame DEF Enumerate, pads, screen, TypeOK
<1>2. ASSUME NEW key \in KeysOf(Pads), Connect(key)
      PROVE  TypeOK'
    <2>1. PICK f \in Openings({p \in tick.seen : machine.label[p] = key}, tick.fresh) :
            /\ streams' = Started(f)
            /\ Send(Hotplug("connected", key, Outcome(f)))
            /\ lapses' = lapses \cup Dropped(Hotplug("connected", key, Outcome(f))) \cup Astray(f)
        BY <1>2 DEF Connect
    <2> DEFINE e == Hotplug("connected", key, Outcome(f))
    <2>2. e \in Event
        BY Announced DEF Outcome, Statuses
    <2>3. events' \in Seq(Event) /\ Len(events') <= ChannelSize /\ Dropped(e) \subseteq Lapses
        BY <2>1, <2>2, Sent
    <2>4. lapses' \subseteq Lapses
        BY <2>1, <2>3 DEF TypeOK, Astray, Lapses
    <2>5. /\ DOMAIN f \subseteq Pads /\ f \in [DOMAIN f -> plugged]
          /\ \A q \in DOMAIN f : f[q] \in Reached(q, tick.fresh)
          /\ plugged \subseteq Pads
        BY Opened DEF TypeOK
    <2>6. streams' \in [Pads -> Nat] /\ \A p \in Pads \ plugged : streams'[p] = 0
        <3>1. \A p \in Pads : /\ Readers(f, p) \in Nat
                              /\ p \notin plugged => Readers(f, p) = 0
            BY <2>5, ReadBy
        <3> QED
            BY <2>1, <3>1 DEF Started, TypeOK
    <2>7. /\ tick' \in [on : BOOLEAN, seen : SUBSET Pads, fresh : SUBSET Pads,
                        added : SUBSET KeysOf(Pads), removed : SUBSET KeysOf(Pads)]
          /\ tick'.on
        BY <1>2 DEF Connect, TypeOK
    <2> QED
        BY <1>2, <2>3, <2>4, <2>6, <2>7, Frame DEF Connect, pads, screen, TypeOK
<1>3. ASSUME NEW key \in KeysOf(Pads), Disconnect(key)
      PROVE  TypeOK'
    <2>1. Hotplug("disconnected", key, "disconnected") \in Event
        BY Announced DEF Statuses
    <2>2. events' \in Seq(Event) /\ Len(events') <= ChannelSize /\ lapses' \subseteq Lapses
        BY <1>3, <2>1, Sent DEF Disconnect, TypeOK
    <2>3. /\ tick' \in [on : BOOLEAN, seen : SUBSET Pads, fresh : SUBSET Pads,
                        added : SUBSET KeysOf(Pads), removed : SUBSET KeysOf(Pads)]
          /\ tick'.on
        BY <1>3 DEF Disconnect, TypeOK
    <2> QED
        BY <1>3, <2>2, <2>3, Frame DEF Disconnect, pads, screen, TypeOK
<1>4. CASE TickEnds
    <2>1. KeysOf(tick.seen) \subseteq KeysOf(Pads)
        BY Keys DEF TypeOK
    <2>2. /\ Idle \in [on : BOOLEAN, seen : SUBSET Pads, fresh : SUBSET Pads,
                       added : SUBSET KeysOf(Pads), removed : SUBSET KeysOf(Pads)]
        BY DEF Idle
    <2> QED
        BY <1>4, <2>1, <2>2, Frame DEF TickEnds, Remembered, pads, screen, TypeOK
<1> QED
    BY <1>1, <1>2, <1>3, <1>4

\* What leaves the pads, the streams and the poller alone keeps their types.
LEMMA TypeRest ==
    ASSUME TypeOK, UNCHANGED <<pads, nav>>,
           clock' \in 0..MaxHappenings, asked' \in Nat, lapses' \subseteq Lapses,
           notes' \subseteq [pid : Pids, status : Statuses],
           \A l \in loads' \cup {list'} : l.at \in 0..clock' /\ l.devices \subseteq Pads
    PROVE  TypeOK'
<1>1. machine' = machine /\ plugged' = plugged
    BY DEF pads
<1>2. /\ KeysOf(Pads)' = KeysOf(Pads) /\ Event' = Event
      /\ [pid : Pids, status : Statuses]' = [pid : Pids, status : Statuses]
    BY <1>1, Frame
<1>3. /\ running' = running /\ known' = known /\ tick' = tick /\ streams' = streams /\ events' = events
      /\ broken' = broken
    BY DEF nav
<1> QED
    BY <1>1, <1>2, <1>3 DEF TypeOK

\* What the screen does, and the end of the program, keep the types.
LEMMA TypeScreen ==
    ASSUME PadsAssumption, ChannelAssumption, BoundAssumption, TypeOK,
           \/ Cancel \/ Handle \/ Load \/ LoadFails \/ Rescan
           \/ \E load \in loads : Show(load)
    PROVE  TypeOK'
<1>1. CASE Cancel
    <2>1. UNCHANGED <<machine, plugged, clock, lapses>>
        BY <1>1 DEF Cancel, pads
    <2>2. /\ KeysOf(Pads)' = KeysOf(Pads) /\ Event' = Event
          /\ [pid : Pids, status : Statuses]' = [pid : Pids, status : Statuses]
        BY <2>1, Frame
    <2>3. /\ tick' \in [on : BOOLEAN, seen : SUBSET Pads, fresh : SUBSET Pads,
                        added : SUBSET KeysOf(Pads), removed : SUBSET KeysOf(Pads)]
          /\ tick' = Idle /\ known' = {} /\ events' = <<>> /\ running' = FALSE
        BY <1>1 DEF Cancel, Idle
    <2>4. /\ \A l \in loads' \cup {list'} : l.at \in 0..clock' /\ l.devices \subseteq Pads
          /\ asked' \in Nat /\ notes' = {}
        BY <1>1, <2>1 DEF Cancel, Listing, TypeOK, BoundAssumption
    <2>5. streams' = [p \in Pads |-> 0] /\ broken' = {}
        BY <1>1 DEF Cancel
    <2>6. events' \in Seq(Event) /\ Len(events') <= ChannelSize
        BY <2>3 DEF ChannelAssumption
    <2> QED
        BY <2>1, <2>2, <2>3, <2>4, <2>5, <2>6 DEF TypeOK
<1>2. CASE Handle
    <2>1. /\ events' \in Seq(Event) /\ Len(events') <= ChannelSize
          /\ Head(events) \in Event
        BY <1>2 DEF Handle, TypeOK
    <2>2. notes' \subseteq [pid : Pids, status : Statuses] /\ asked' \in Nat
        <3>1. CASE IsHotplug(Head(events))
            <4>1. Note(Head(events).pid, Head(events).status) \in [pid : Pids, status : Statuses]
                BY <2>1, <3>1 DEF Event, Note, IsHotplug, Press
            <4> QED
                BY <1>2, <3>1, <4>1 DEF Handle, ReplacePIDNote, TypeOK
        <3>2. CASE ~IsHotplug(Head(events))
            BY <1>2, <3>2 DEF Handle, TypeOK
        <3> QED
            BY <3>1, <3>2
    <2> QED
        BY <1>2, <2>1, <2>2, Frame DEF Handle, pads, TypeOK
<1>3. CASE Load
    <2>1. clock \in 0..clock
        BY DEF TypeOK, BoundAssumption
    <2>2. \A l \in loads' \cup {list'} : l.at \in 0..clock' /\ l.devices \subseteq Pads
        BY <1>3, <2>1 DEF Load, Listing, TypeOK
    <2> QED
        BY <1>3, <2>2, TypeRest DEF Load, TypeOK
<1>4. CASE LoadFails
    <2>1. clock' \in 0..MaxHappenings /\ clock' >= clock
        BY <1>4 DEF LoadFails, Happens, TypeOK, BoundAssumption
    <2>2. \A l \in loads \cup {list} : l.at \in 0..clock' /\ l.devices \subseteq Pads
        BY <2>1, Earlier
    <2>3. list'.at \in 0..clock' /\ list'.devices \subseteq Pads
        BY <1>4, <2>1 DEF LoadFails, Listing, TypeOK, BoundAssumption
    <2>4. \A l \in loads' \cup {list'} : l.at \in 0..clock' /\ l.devices \subseteq Pads
        BY <1>4, <2>2, <2>3 DEF LoadFails
    <2> QED
        BY <1>4, <2>1, <2>4, TypeRest DEF LoadFails, TypeOK, Lapses
<1>5. CASE Rescan
    <2>1. clock' \in 0..MaxHappenings /\ clock' >= clock
        BY <1>5 DEF Rescan, Happens, TypeOK, BoundAssumption
    <2>2. \A l \in loads \cup {list} : l.at \in 0..clock' /\ l.devices \subseteq Pads
        BY <2>1, Earlier
    <2> QED
        BY <1>5, <2>1, <2>2, TypeRest DEF Rescan, TypeOK
<1>6. ASSUME NEW load \in loads, Show(load)
      PROVE  TypeOK'
    BY <1>6, TypeRest DEF Show, TypeOK, Lapses
<1> QED
    BY <1>1, <1>2, <1>3, <1>4, <1>5, <1>6

\* Nothing moves.
LEMMA TypeStutter ==
    ASSUME TypeOK, UNCHANGED vars
    PROVE  TypeOK'
BY Frame DEF vars, pads, nav, screen, TypeOK

\* TypeOK in every state: a bounded channel, a poller that has work only while it
\* is at work, no stream on a pad that is not there (navstream.go:108-124, 260-283).
THEOREM TypeCorrect == Spec => []TypeOK
<1> USE PadsAssumption, ChannelAssumption, BoundAssumption
<1>1. Init => TypeOK
    BY TypeInit
<1>2. TypeOK /\ [Next]_vars => TypeOK'
    BY TypeHands, TypePoll, TypeScreen, TypeStutter DEF Next
<1> QED
    BY <1>1, <1>2, PTL DEF Spec

-----------------------------------------------------------------------------
(* What each step does to the invariant.                                   *)

\* Who is alone stays alone: the keys never change.
LEMMA SameKeys ==
    ASSUME machine' = machine
    PROVE  /\ \A p : Pid(p)' = Pid(p) /\ Key(p)' = Key(p)
           /\ \A p : Alone(p)' <=> Alone(p)
           /\ \A p : Apart(p)' <=> Apart(p)
BY DEF Pid, Key, Alone, Apart

\* No step changes the machine.
LEMMA MachineStays ==
    ASSUME [Next]_vars
    PROVE  machine' = machine
BY DEF Next, vars, pads, PlugIn, PullOut, PressButton, StreamEnds, Enumerate, Connect, Disconnect, TickEnds,
       Cancel, Handle, Load, Show, LoadFails, Rescan

\* What the poller has connected is what it takes for plugged in, or less.
LEMMA ConnectedBelieved ==
    Connected \subseteq Believed
BY DEF Connected, Believed

\* An event more (sendNavEvent): only what it says of its own product is new.
LEMMA WordSent ==
    ASSUME events \in Seq(Event), NEW e \in Event, events' = Append(events, e), notes' = notes,
           NEW pid
    PROVE  /\ Told(pid)' <=> IF IsHotplug(e) /\ e.pid = pid THEN e.status = "active" ELSE Told(pid)
           /\ InTurn(pid) /\ ~(IsHotplug(e) /\ e.pid = pid /\ e.status = "unavailable" /\ Told(pid))
                => InTurn(pid)'
<1>1. Len(events') + 1 = Len(events) + 2 /\ Len(events) \in Nat
    OBVIOUS
<1>2. Told(pid)' <=> IF IsHotplug(e) /\ e.pid = pid THEN e.status = "active" ELSE Told(pid)
    BY <1>1, SaidLast DEF Told
<1>3. ASSUME InTurn(pid),
             ~(IsHotplug(e) /\ e.pid = pid /\ e.status = "unavailable" /\ Told(pid)),
             NEW i \in About(events', pid), events'[i].status = "unavailable"
      PROVE  ~ActiveBefore(events', notes', pid, i)
    <2>1. i \in 1..(Len(events) + 1) /\ IsHotplug(events'[i]) /\ events'[i].pid = pid
        BY <1>1 DEF About
    <2>2. ActiveBefore(events', notes', pid, i) <=> ActiveBefore(events, notes, pid, i)
        BY <2>1, SaidBefore
    <2>3. CASE i \in 1..Len(events)
        <3>1. i \in About(events, pid)
            BY <2>1, <2>3, <1>3, SaidBefore
        <3>2. events[i].status = "unavailable"
            BY <1>3, <2>3
        <3> QED
            BY <1>3, <2>2, <3>1, <3>2 DEF InTurn
    <2>4. CASE i = Len(events) + 1
        <3>1. events'[i] = e
            BY <2>4
        <3>2. ~Told(pid)
            BY <1>3, <2>1, <3>1
        <3> QED
            BY <2>2, <2>4, <3>2 DEF Told
    <2> QED
        BY <2>1, <2>3, <2>4, <1>1
<1>4. InTurn(pid) /\ ~(IsHotplug(e) /\ e.pid = pid /\ e.status = "unavailable" /\ Told(pid))
        => InTurn(pid)'
    BY <1>3 DEF InTurn
<1> QED
    BY <1>2, <1>4

\* An event handled: nothing that will be said changes (handleHotplugEvent).
LEMMA WordHandled ==
    ASSUME events \in Seq(Event), Handle, NEW pid, InTurn(pid)
    PROVE  (Told(pid)' <=> Told(pid)) /\ InTurn(pid)'
<1>1. events # <<>> /\ events' = Tail(events) /\ notes' = Noted(events, notes)
    BY DEF Handle, Noted
<1>2. Len(events') = Len(events) - 1 /\ Len(events) \in Nat \ {0} /\ DOMAIN events' = 1..(Len(events) - 1)
    BY <1>1
<1>3. 1 \in About(events, pid) /\ events[1].status = "unavailable" => ~ActiveBefore(events, notes, pid, 1)
    BY DEF InTurn
<1>4. \A i \in 1..Len(events) :
        /\ ActiveBefore(events', notes', pid, i) <=> ActiveBefore(events, notes, pid, i + 1)
        /\ i < Len(events) => /\ i \in About(events', pid) <=> i + 1 \in About(events, pid)
                              /\ events'[i] = events[i + 1]
    BY <1>1, <1>3, SaidTail
<1>5. Told(pid)' <=> Told(pid)
    <2>1. Len(events) \in 1..Len(events) /\ Len(events') + 1 = Len(events)
        BY <1>2
    <2> QED
        BY <2>1, <1>4 DEF Told
<1>6. ASSUME NEW i \in About(events', pid), events'[i].status = "unavailable"
      PROVE  ~ActiveBefore(events', notes', pid, i)
    <2>1. i \in 1..Len(events) /\ i < Len(events)
        BY <1>2 DEF About
    <2>2. i + 1 \in About(events, pid) /\ events[i + 1].status = "unavailable"
        BY <1>4, <1>6, <2>1
    <2> QED
        BY <1>4, <2>1, <2>2 DEF InTurn
<1> QED
    BY <1>5, <1>6 DEF InTurn

\* A pad that is plugged in adds nothing to the poller's work.
LEMMA MoreFresh ==
    ASSUME TypeOK, NEW p \in Pads, PlugIn(p)
    PROVE  /\ tick'.on = tick.on /\ tick'.seen = tick.seen
           /\ tick'.added = tick.added /\ tick'.removed = tick.removed
           /\ known' = known
BY DEF PlugIn, TypeOK

\* The poller's work stays within what it saw; after the end nothing reads; a
\* list enumerated since the last change shows what is plugged in.
LEMMA StepSound ==
    ASSUME PadsAssumption, ChannelAssumption, BoundAssumption, TypeOK, TypeOK', PollInv, QuitInv,
           LoadInv, [Next]_vars
    PROVE  PollInv' /\ QuitInv' /\ LoadInv'
<1>1. machine' = machine
    BY MachineStays
<1>2. \A S : KeysOf(S)' = {machine.label[p] : p \in S}
    BY <1>1 DEF KeysOf
<1>3. PollInv'
    <2>1. ASSUME tick' = tick \/ \E p \in Pads : PlugIn(p)
          PROVE  PollInv'
        <3>1. tick'.seen = tick.seen /\ tick'.added = tick.added /\ tick'.removed = tick.removed
            BY <2>1, MoreFresh
        <3> QED
            BY <3>1, <1>1 DEF PollInv, KeysOf
    <2>2. CASE \E seen \in SUBSET plugged : Enumerate(seen)
        <3>1. PICK seen \in SUBSET plugged : Enumerate(seen)
            BY <2>2
        <3> QED
            BY <3>1, <1>1 DEF Enumerate, PollInv, KeysOf, Added, Removed
    <2>3. CASE \E key \in KeysOf(Pads) : Connect(key) \/ Disconnect(key)
        <3>1. PICK key \in KeysOf(Pads) : Connect(key) \/ Disconnect(key)
            BY <2>3
        <3>2. /\ tick'.seen = tick.seen /\ tick'.added \subseteq tick.added
              /\ tick'.removed \subseteq tick.removed
            BY <3>1 DEF Connect, Disconnect, TypeOK
        <3> QED
            BY <3>2, <1>1 DEF PollInv, KeysOf
    <2>4. CASE TickEnds \/ Cancel
        BY <2>4 DEF TickEnds, Cancel, Idle, PollInv
    <2> QED
        BY <2>1, <2>2, <2>3, <2>4
        DEF Next, vars, nav, PlugIn, PullOut, PressButton, StreamEnds, Handle, Load, Show, LoadFails, Rescan
<1>4. QuitInv'
    <2>1. CASE running
        BY <2>1 DEF Next, vars, nav, PlugIn, PullOut, PressButton, StreamEnds, Enumerate, Connect, Disconnect,
              TickEnds, Cancel, Handle, Load, Show, LoadFails, Rescan, QuitInv
    <2>2. CASE ~running
        <3>1. /\ running' = running
              /\ streams' = streams \/ \E p \in Pads : streams' = [streams EXCEPT ![p] = 0]
            BY <2>2 DEF Next, vars, nav, PlugIn, PullOut, PressButton, StreamEnds, Enumerate, Connect,
                  Disconnect, TickEnds, Cancel, Handle, Load, Show, LoadFails, Rescan
        <3> QED
            BY <2>2, <3>1 DEF QuitInv, TypeOK
    <2> QED
        BY <2>1, <2>2
<1>5. LoadInv'
    <2>1. \A l \in loads : l.at \in 0..clock
        BY DEF TypeOK
    <2>2. ASSUME clock' > clock, loads' = loads PROVE LoadInv'
        BY <2>1, <2>2 DEF LoadInv, TypeOK
    <2>3. ASSUME clock' = clock, plugged' = plugged, loads' \subseteq loads PROVE LoadInv'
        BY <2>3 DEF LoadInv
    <2>4. CASE \E p \in Pads : PlugIn(p) \/ PullOut(p) \/ PressButton(p) \/ StreamEnds(p)
        BY <2>4, <2>2 DEF PlugIn, PullOut, PressButton, StreamEnds, Happens, screen, TypeOK
    <2>5. CASE \E seen \in SUBSET plugged : Enumerate(seen)
        <3>1. PICK seen \in SUBSET plugged : Enumerate(seen)
            BY <2>5
        <3>2. IsFiniteSet(plugged \ seen)
            BY FS_Subset DEF PadsAssumption, TypeOK
        <3>3. Cardinality(plugged \ seen) \in Nat
            BY <3>2, FS_CardinalityType
        <3>4. clock' = clock \/ clock' > clock
            BY <3>1, <3>3 DEF Enumerate, TypeOK
        <3> QED
            BY <3>1, <3>4, <2>2, <2>3 DEF Enumerate, pads, screen
    <2>6. CASE \E key \in KeysOf(Pads) : Connect(key) \/ Disconnect(key)
        BY <2>6, <2>3 DEF Connect, Disconnect, pads, screen
    <2>7. CASE Load
        BY <2>7 DEF Load, pads, Listing, LoadInv
    <2>8. CASE LoadFails \/ Rescan
        BY <2>8, <2>2 DEF LoadFails, Rescan, Happens, TypeOK
    <2>9. CASE TickEnds \/ Cancel \/ Handle \/ (\E load \in loads : Show(load)) \/ UNCHANGED vars
        BY <2>9, <2>3 DEF TickEnds, Cancel, Handle, Show, vars, pads, screen
    <2> QED
        BY <2>4, <2>5, <2>6, <2>7, <2>8, <2>9 DEF Next
<1> QED
    BY <1>3, <1>4, <1>5

\* No lapse is forgotten, and who has quit does not come back.
LEMMA Before ==
    ASSUME [Next]_vars, running'
    PROVE  running /\ lapses \subseteq lapses' /\ ~Cancel
<1>1. ~Cancel
    BY DEF Cancel
<1>2. running
    BY DEF Next, vars, nav, PlugIn, PullOut, PressButton, StreamEnds, Enumerate, Connect, Disconnect,
           TickEnds, Cancel, Handle, Load, Show, LoadFails, Rescan
<1>3. lapses \subseteq lapses'
    BY DEF Next, vars, PlugIn, PullOut, PressButton, StreamEnds, Enumerate, Connect, Disconnect,
           TickEnds, Cancel, Handle, Load, Show, LoadFails, Rescan
<1> QED
    BY <1>1, <1>2, <1>3

\* An enumeration that overlooks nothing sees what is plugged in.
LEMMA SawAll ==
    ASSUME NEW seen \in SUBSET plugged, Enumerate(seen), "missed" \notin lapses'
    PROVE  seen = plugged
BY DEF Enumerate

\* What a connection does: the handles it opens are for pads of that key.
LEMMA Connects ==
    ASSUME PadsAssumption, TypeOK, PollInv, NEW key \in KeysOf(Pads), Connect(key)
    PROVE  \E f \in Openings({p \in tick.seen : Key(p) = key}, tick.fresh) :
             /\ Send(Hotplug("connected", key, Outcome(f)))
             /\ Dropped(Hotplug("connected", key, Outcome(f))) \subseteq lapses'
             /\ DOMAIN f \subseteq {p \in tick.seen : Key(p) = key}
             /\ \A p \in Pads : Apart(p) /\ "reused" \notin lapses' =>
                  /\ p \in DOMAIN f => streams'[p] = streams[p] + 1 /\ p \in plugged
                  /\ p \notin DOMAIN f => streams'[p] = streams[p]
<1>1. PICK f \in Openings({p \in tick.seen : machine.label[p] = key}, tick.fresh) :
        /\ streams' = Started(f)
        /\ Send(Hotplug("connected", key, Outcome(f)))
        /\ lapses' = lapses \cup Dropped(Hotplug("connected", key, Outcome(f))) \cup Astray(f)
    BY DEF Connect
<1>2. /\ DOMAIN f \subseteq {p \in tick.seen : machine.label[p] = key}
      /\ f \in [DOMAIN f -> plugged]
      /\ \A q \in DOMAIN f : f[q] \in Reached(q, tick.fresh)
    BY <1>1, Opened
<1>3. DOMAIN f \subseteq Pads /\ plugged \subseteq Pads
    BY <1>2 DEF TypeOK
<1>4. "reused" \notin lapses' => Astray(f) = {}
    BY <1>1 DEF Astray
<1>5. \A p \in Pads :
        /\ p \notin plugged => Readers(f, p) = 0
        /\ Apart(p) /\ Astray(f) = {} => Readers(f, p) = IF p \in DOMAIN f THEN 1 ELSE 0
    BY <1>2, <1>3, ReadBy
<1>6. \A p \in Pads : streams[p] \in Nat /\ streams'[p] = streams[p] + Readers(f, p)
    BY <1>1 DEF Started, TypeOK
<1>7. \A p \in Pads : Apart(p) /\ "reused" \notin lapses' =>
        /\ p \in DOMAIN f => streams'[p] = streams[p] + 1 /\ p \in plugged
        /\ p \notin DOMAIN f => streams'[p] = streams[p]
    BY <1>4, <1>5, <1>6
<1>8. {p \in tick.seen : machine.label[p] = key} = {p \in tick.seen : Key(p) = key}
    BY DEF Key
<1> QED
    BY <1>1, <1>2, <1>7, <1>8

\* The keys connected after each step of the poller.
LEMMA ConnectedAfter ==
    ASSUME TypeOK, PollInv, [Next]_vars, "missed" \notin lapses'
    PROVE  /\ (\E seen \in SUBSET plugged : Enumerate(seen)) =>
                /\ Connected = known /\ Connected' = known \cap KeysOf(plugged)
                /\ tick.removed = {} /\ tick'.removed = known \ KeysOf(plugged)
                /\ tick'.added = KeysOf(plugged) \ known /\ Believed' = KeysOf(plugged)
                /\ KeysOf(plugged) # known
           /\ \A key \in KeysOf(Pads) :
                /\ Connect(key) =>
                    /\ key \notin Connected /\ key \notin tick.removed
                    /\ Connected' = Connected \cup {key} /\ tick'.removed = tick.removed
                /\ Disconnect(key) =>
                    /\ key \notin Connected
                    /\ Connected' = Connected /\ tick'.removed = tick.removed \ {key}
                /\ key \in tick.added => \E p \in tick.seen : Key(p) = key
           /\ TickEnds => /\ Connected' = Connected /\ tick'.removed = tick.removed
                          /\ Believed' = Believed /\ tick'.added = {} /\ tick.removed = {} /\ tick.added = {}
           /\ tick' = tick /\ known' = known =>
                Connected' = Connected /\ tick'.removed = tick.removed /\ Believed' = Believed
           /\ \A p \in Pads : PlugIn(p) =>
                /\ Connected' = Connected /\ tick'.removed = tick.removed /\ Believed' = Believed
                /\ tick'.on = tick.on /\ tick'.added = tick.added
<1>1. machine' = machine
    BY MachineStays
<1>2. \A S, T : S = T => {machine'.label[p] : p \in S} = {machine.label[p] : p \in T}
    BY <1>1
<1>3. ASSUME NEW seen \in SUBSET plugged, Enumerate(seen)
      PROVE  /\ Connected = known /\ Connected' = known \cap KeysOf(plugged)
             /\ tick.removed = {} /\ tick'.removed = known \ KeysOf(plugged)
             /\ tick'.added = KeysOf(plugged) \ known /\ Believed' = KeysOf(plugged)
             /\ KeysOf(plugged) # known
    <2>1. seen = plugged
        BY <1>3, SawAll
    <2>2. /\ tick'.on /\ tick'.seen = plugged /\ ~tick.on /\ tick = Idle
          /\ tick'.added = KeysOf(plugged) \ known /\ tick'.removed = known \ KeysOf(plugged)
          /\ KeysOf(plugged) # known
        BY <1>3, <2>1 DEF Enumerate, Added, Removed, TypeOK
    <2>3. KeysOf(tick.seen)' = KeysOf(plugged)
        BY <2>2, <1>1 DEF KeysOf
    <2>4. Connected' = KeysOf(plugged) \ (KeysOf(plugged) \ known)
        BY <2>2, <2>3 DEF Connected
    <2> QED
        BY <2>2, <2>3, <2>4 DEF Connected, Believed, Idle
<1>4. ASSUME NEW key \in KeysOf(Pads), Connect(key)
      PROVE  /\ key \notin Connected /\ key \notin tick.removed
             /\ Connected' = Connected \cup {key} /\ tick'.removed = tick.removed
    <2>1. /\ tick.on /\ key \in tick.added /\ tick'.on /\ tick'.seen = tick.seen
          /\ tick'.added = tick.added \ {key} /\ tick'.removed = tick.removed
        BY <1>4 DEF Connect, TypeOK
    <2>2. KeysOf(tick.seen)' = KeysOf(tick.seen)
        BY <2>1, <1>1 DEF KeysOf
    <2>3. key \in KeysOf(tick.seen) /\ key \notin tick.removed
        BY <2>1 DEF PollInv
    <2> QED
        BY <2>1, <2>2, <2>3 DEF Connected
<1>5. ASSUME NEW key \in KeysOf(Pads), Disconnect(key)
      PROVE  /\ key \notin Connected
             /\ Connected' = Connected /\ tick'.removed = tick.removed \ {key}
    <2>1. /\ tick.on /\ key \in tick.removed /\ tick'.on /\ tick'.seen = tick.seen
          /\ tick'.added = tick.added /\ tick'.removed = tick.removed \ {key}
        BY <1>5 DEF Disconnect, TypeOK
    <2>2. KeysOf(tick.seen)' = KeysOf(tick.seen)
        BY <2>1, <1>1 DEF KeysOf
    <2>3. key \notin KeysOf(tick.seen)
        BY <2>1 DEF PollInv
    <2> QED
        BY <2>1, <2>2, <2>3 DEF Connected
<1>6. ASSUME NEW key \in tick.added
      PROVE  \E p \in tick.seen : Key(p) = key
    BY <1>6 DEF PollInv, KeysOf, Key
<1>7. ASSUME TickEnds
      PROVE  /\ Connected' = Connected /\ tick'.removed = tick.removed
             /\ Believed' = Believed /\ tick'.added = {} /\ tick.removed = {} /\ tick.added = {}
    <2>1. /\ tick.on /\ tick.added = {} /\ tick.removed = {} /\ known' = KeysOf(tick.seen)
          /\ ~tick'.on /\ tick'.added = {} /\ tick'.removed = {}
        BY <1>7 DEF TickEnds, Remembered, Idle
    <2> QED
        BY <2>1 DEF Connected, Believed
<1>8. ASSUME tick' = tick, known' = known
      PROVE  Connected' = Connected /\ tick'.removed = tick.removed /\ Believed' = Believed
    BY <1>8, <1>1 DEF Connected, Believed, KeysOf
<1>9. ASSUME NEW p \in Pads, PlugIn(p)
      PROVE  /\ Connected' = Connected /\ tick'.removed = tick.removed /\ Believed' = Believed
             /\ tick'.on = tick.on /\ tick'.added = tick.added
    <2>1. /\ tick'.on = tick.on /\ tick'.seen = tick.seen
          /\ tick'.added = tick.added /\ tick'.removed = tick.removed /\ known' = known
        BY <1>9, MoreFresh
    <2> QED
        BY <2>1, <1>1 DEF Connected, Believed, KeysOf
<1> QED
    BY <1>3, <1>4, <1>5, <1>6, <1>7, <1>8, <1>9

\* Unless something went unnoticed, no pad is read by two streams
\* (startDeviceStreams, hotplugTick).
LEMMA StepStream ==
    ASSUME PadsAssumption, ChannelAssumption, BoundAssumption, TypeOK, PollInv, StreamInv,
           [Next]_vars, running', lapses' = {}
    PROVE  StreamInv'
<1>1. machine' = machine
    BY MachineStays
<1>2. running /\ lapses = {} /\ ~Cancel
    BY Before
<1>3. /\ \A p : Key(p)' = Key(p)
      /\ \A p : Apart(p)' <=> Apart(p)
    BY <1>1, SameKeys
<1>4. SUFFICES ASSUME NEW p \in plugged', Apart(p)
               PROVE  streams'[p] <= 1 /\ (Key(p) \notin Connected' => streams'[p] = 0 /\ p \notin broken')
    BY <1>3 DEF StreamInv
<1>5. ASSUME p \in plugged, streams' = streams, broken' = broken,
             Connected \subseteq Connected' \/ Connected' = Connected
      PROVE  streams'[p] <= 1 /\ (Key(p) \notin Connected' => streams'[p] = 0 /\ p \notin broken')
    BY <1>4, <1>5 DEF StreamInv
<1>6. CASE \E q \in Pads : PlugIn(q) \/ PullOut(q) \/ PressButton(q) \/ StreamEnds(q)
    <2>1. Connected' = Connected
        BY <1>6, ConnectedAfter DEF PullOut, PressButton, StreamEnds
    <2>2. PICK q \in Pads : PlugIn(q) \/ PullOut(q) \/ PressButton(q) \/ StreamEnds(q)
        BY <1>6
    <2>3. CASE PlugIn(q)
        <3>1. /\ streams' = streams /\ broken' = broken
              /\ plugged' = plugged \cup {q} /\ q \notin plugged
            BY <2>3 DEF PlugIn
        <3>2. CASE p = q
            <4>1. streams[p] = 0 /\ p \notin broken
                BY <3>1, <3>2 DEF TypeOK
            <4> QED
                BY <3>1, <4>1
        <3> QED
            BY <3>1, <3>2, <2>1, <1>4, <1>5
    <2>4. CASE PullOut(q)
        <3>1. p \in plugged /\ p # q /\ streams' = [streams EXCEPT ![q] = 0] /\ broken' = broken \ {q}
            BY <2>4, <1>4 DEF PullOut
        <3>2. streams'[p] = streams[p]
            BY <3>1 DEF TypeOK
        <3> QED
            BY <3>1, <3>2, <2>1, <1>4 DEF StreamInv
    <2>5. CASE PressButton(q)
        BY <2>5, <2>1, <1>4, <1>5 DEF PressButton, pads
    <2>6. CASE StreamEnds(q)
        <3>1. /\ p \in plugged /\ streams' = [streams EXCEPT ![q] = @ - 1] /\ streams[q] > 0
              /\ broken' = broken \cup {q}
            BY <2>6, <1>4 DEF StreamEnds, pads
        <3>2. streams[p] <= 1 /\ (Key(p) \notin Connected => streams[p] = 0 /\ p \notin broken)
            BY <3>1, <1>4 DEF StreamInv
        <3>3. streams \in [Pads -> Nat] /\ p \in Pads
            BY <3>1 DEF TypeOK
        <3>4. CASE p = q
            <4>1. streams'[p] = streams[p] - 1 /\ streams[p] \in Nat
                BY <3>1, <3>3, <3>4
            <4>2. Key(p) \in Connected
                BY <3>1, <3>2, <3>4
            <4> QED
                BY <4>1, <4>2, <3>2, <2>1
        <3>5. CASE p # q
            BY <3>1, <3>2, <3>3, <3>5, <2>1
        <3> QED
            BY <3>4, <3>5
    <2> QED
        BY <2>2, <2>3, <2>4, <2>5, <2>6
<1>7. CASE \E seen \in SUBSET plugged : Enumerate(seen)
    <2>1. Connected = known /\ Connected' = known \cap KeysOf(plugged)
        BY <1>7, ConnectedAfter
    <2>2. streams' = streams /\ plugged' = plugged /\ broken' = broken
        BY <1>7 DEF Enumerate, pads
    <2>3. Key(p) \in KeysOf(plugged)
        BY <2>2, <1>4 DEF KeysOf, Key
    <2> QED
        BY <2>1, <2>2, <2>3, <1>4 DEF StreamInv
<1>8. ASSUME NEW key \in KeysOf(Pads), Connect(key)
      PROVE  streams'[p] <= 1 /\ (Key(p) \notin Connected' => streams'[p] = 0 /\ p \notin broken')
    <2>1. PICK f \in Openings({q \in tick.seen : Key(q) = key}, tick.fresh) :
             /\ DOMAIN f \subseteq {q \in tick.seen : Key(q) = key}
             /\ \A q \in Pads : Apart(q) =>
                  /\ q \in DOMAIN f => streams'[q] = streams[q] + 1
                  /\ q \notin DOMAIN f => streams'[q] = streams[q]
        BY <1>8, Connects
    <2>2. p \in plugged /\ p \in Pads /\ broken' = broken
        BY <1>8, <1>4 DEF Connect, pads, TypeOK
    <2>3. key \notin Connected /\ Connected' = Connected \cup {key}
        BY <1>8, ConnectedAfter
    <2>4. CASE p \in DOMAIN f
        <3>1. Key(p) = key /\ streams[p] = 0 /\ streams'[p] = streams[p] + 1
            BY <2>1, <2>2, <2>3, <2>4, <1>4 DEF StreamInv
        <3> QED
            BY <3>1, <2>3
    <2>5. CASE p \notin DOMAIN f
        BY <2>1, <2>2, <2>3, <2>5, <1>4 DEF StreamInv
    <2> QED
        BY <2>4, <2>5
<1>9. CASE \E key \in KeysOf(Pads) : Disconnect(key)
    <2>1. Connected' = Connected
        BY <1>9, ConnectedAfter
    <2> QED
        BY <1>9, <2>1, <1>4, <1>5 DEF Disconnect, pads
<1>10. CASE TickEnds
    <2>1. Connected' = Connected
        BY <1>10, ConnectedAfter
    <2> QED
        BY <1>10, <2>1, <1>4, <1>5 DEF TickEnds, pads
<1>11. CASE \/ Handle \/ Load \/ LoadFails \/ Rescan \/ UNCHANGED vars
            \/ \E load \in loads : Show(load)
    <2>1. /\ tick' = tick /\ known' = known /\ streams' = streams /\ plugged' = plugged
          /\ broken' = broken
        BY <1>11 DEF Handle, Load, LoadFails, Rescan, Show, vars, pads, nav
    <2>2. Connected' = Connected
        BY <2>1, ConnectedAfter
    <2> QED
        BY <2>1, <2>2, <1>4, <1>5
<1> QED
    BY <1>2, <1>6, <1>7, <1>8, <1>9, <1>10, <1>11 DEF Next

\* An announcement that is sent is there to be handled.
LEMMA Announces ==
    ASSUME TypeOK, ChannelAssumption, NEW e \in Event, IsHotplug(e), Send(e), "dropped" \notin Dropped(e)
    PROVE  /\ events' = Append(events, e)
           /\ \E i \in DOMAIN events' : IsHotplug(events'[i])
<1>1. events' = Append(events, e) /\ events \in Seq(Event)
    BY Sent DEF TypeOK
<1>2. Len(events) + 1 \in DOMAIN events' /\ events'[Len(events) + 1] = e
    BY <1>1
<1> QED
    BY <1>1, <1>2

\* A list shows what is plugged in, or another is on its way: however reloads
\* and events come (app.go:766-825, commands.go:21-26).
LEMMA StepList ==
    ASSUME PadsAssumption, ChannelAssumption, BoundAssumption, TypeOK, PollInv, LoadInv, ListInv,
           [Next]_vars, running', lapses' \subseteq {"reused"}
    PROVE  ListInv'
<1>1. machine' = machine
    BY MachineStays
<1>2. running /\ ~Cancel
    BY Before
<1>3. \A S : KeysOf(S)' = KeysOf(S)
    BY <1>1 DEF KeysOf
<1>4. ASSUME loads' = loads, list' = list, plugged' = plugged, Coming => Coming'
      PROVE  ListInv'
    BY <1>4 DEF ListInv, Newest
<1>5. ASSUME tick' = tick, known' = known, plugged' = plugged, asked' = asked, events' = events
      PROVE  Coming' <=> Coming
    <2>1. Believed' = Believed
        BY <1>5, <1>1 DEF Believed, KeysOf
    <2>2. KeysOf(plugged)' = KeysOf(plugged)
        BY <1>5, <1>1 DEF KeysOf
    <2> QED
        BY <1>5, <2>1, <2>2 DEF Coming
<1>6. ASSUME NEW p \in Pads, PlugIn(p)
      PROVE  ListInv'
    <2>1. Believed' = Believed /\ machine.label[p] \notin Believed /\ p \in plugged'
        BY <1>6, ConnectedAfter DEF PlugIn
    <2>2. machine.label[p] \in KeysOf(plugged)'
        BY <2>1, <1>1 DEF KeysOf
    <2> QED
        BY <2>1, <2>2 DEF ListInv, Coming
<1>7. ASSUME NEW p \in Pads, PullOut(p)
      PROVE  ListInv'
    <2>1. /\ tick' = tick /\ known' = known /\ plugged' = plugged \ {p}
          /\ machine.label[p] \in Believed /\ machine.label[p] \notin KeysOf(plugged \ {p})
        BY <1>7 DEF PullOut
    <2>2. Believed' = Believed
        BY <2>1, <1>1 DEF Believed, KeysOf
    <2>3. machine.label[p] \notin KeysOf(plugged)'
        BY <2>1, <1>1 DEF KeysOf
    <2> QED
        BY <2>1, <2>2, <2>3 DEF ListInv, Coming
<1>18. ASSUME NEW p \in Pads, StreamEnds(p)
      PROVE  ListInv'
    <2>1. /\ tick' = tick /\ known' = known /\ plugged' = plugged /\ asked' = asked /\ events' = events
          /\ loads' = loads /\ list' = list
        BY <1>18 DEF StreamEnds, pads, screen
    <2> QED
        BY <2>1, <1>4, <1>5
<1>8. ASSUME NEW p \in Pads, PressButton(p)
      PROVE  ListInv'
    <2>1. /\ tick' = tick /\ known' = known /\ plugged' = plugged /\ asked' = asked
          /\ loads' = loads /\ list' = list /\ Send(Press)
        BY <1>8 DEF PressButton, pads, screen
    <2>2. Press \in Event
        BY DEF Event
    <2>3. events' = Append(events, Press) \/ events' = events
        BY <2>1, <2>2, Sent
    <2>4. \A i \in DOMAIN events : i \in DOMAIN events' /\ events'[i] = events[i]
        <3>1. events \in Seq(Event)
            BY DEF TypeOK
        <3>2. CASE events' = Append(events, Press)
            BY <2>2, <3>1, <3>2, AppendKeeps
        <3>3. CASE events' = events
            BY <3>3
        <3> QED
            BY <2>3, <3>2, <3>3
    <2>5. Believed' = Believed /\ KeysOf(plugged)' = KeysOf(plugged)
        BY <2>1, <1>1 DEF Believed, KeysOf
    <2>6. Coming => Coming'
        BY <2>1, <2>4, <2>5 DEF Coming
    <2> QED
        BY <2>1, <2>6, <1>4
<1>9. ASSUME NEW seen \in SUBSET plugged, Enumerate(seen)
      PROVE  ListInv'
    <2>1. tick'.on
        BY <1>9 DEF Enumerate
    <2>2. /\ tick'.added = KeysOf(plugged) \ known /\ tick'.removed = known \ KeysOf(plugged)
          /\ KeysOf(plugged) # known
        BY <1>9, ConnectedAfter
    <2>3. tick'.added \cup tick'.removed # {}
        BY <2>2
    <2> QED
        BY <2>1, <2>3 DEF ListInv, Coming
<1>10. ASSUME NEW key \in KeysOf(Pads), Connect(key) \/ Disconnect(key)
       PROVE  ListInv'
    <2>1. \E e \in Event : IsHotplug(e) /\ Send(e) /\ Dropped(e) \subseteq lapses'
        <3>1. CASE Connect(key)
            <4>1. PICK f \in Openings({p \in tick.seen : Key(p) = key}, tick.fresh) :
                    /\ Send(Hotplug("connected", key, Outcome(f)))
                    /\ Dropped(Hotplug("connected", key, Outcome(f))) \subseteq lapses'
                BY <3>1, Connects
            <4>2. Outcome(f) \in Statuses
                BY DEF Outcome, Statuses
            <4> QED
                BY <4>1, <4>2, Announced
        <3>2. CASE Disconnect(key)
            <4>1. /\ Send(Hotplug("disconnected", key, "disconnected"))
                  /\ Dropped(Hotplug("disconnected", key, "disconnected")) \subseteq lapses'
                BY <3>2 DEF Disconnect
            <4> QED
                BY <4>1, Announced DEF Statuses
        <3> QED
            BY <1>10, <3>1, <3>2
    <2> QED
        BY <2>1, Announces DEF ListInv, Coming
<1>11. CASE TickEnds
    <2>1. Believed' = Believed /\ tick.added = {} /\ tick.removed = {}
        BY <1>11, ConnectedAfter
    <2>2. plugged' = plugged /\ asked' = asked /\ events' = events /\ loads' = loads /\ list' = list
        BY <1>11 DEF TickEnds, pads, screen
    <2>3. KeysOf(plugged)' = KeysOf(plugged)
        BY <2>2, <1>1 DEF KeysOf
    <2>4. Coming => Coming'
        BY <2>1, <2>2, <2>3 DEF Coming
    <2> QED
        BY <2>2, <2>4, <1>4
<1>12. CASE Handle
    <2>1. /\ tick' = tick /\ known' = known /\ plugged' = plugged /\ loads' = loads /\ list' = list
          /\ events # <<>> /\ events' = Tail(events) /\ asked \in Nat
        BY <1>12 DEF Handle, pads, TypeOK
    <2>2. Believed' = Believed /\ KeysOf(plugged)' = KeysOf(plugged)
        BY <2>1, <1>1 DEF Believed, KeysOf
    <2>3. CASE IsHotplug(Head(events))
        <3>1. asked' = asked + 1
            BY <1>12, <2>3 DEF Handle
        <3> QED
            BY <2>1, <3>1 DEF ListInv, Coming
    <2>4. CASE ~IsHotplug(Head(events))
        <3>1. asked' = asked
            BY <1>12, <2>4 DEF Handle
        <3>2. \A i \in DOMAIN events : IsHotplug(events[i]) =>
                i - 1 \in DOMAIN events' /\ events'[i - 1] = events[i]
            <4>1. events \in Seq(Event) /\ Head(events) = events[1]
                BY <2>1 DEF TypeOK
            <4>2. \A i \in DOMAIN events : IsHotplug(events[i]) => i \in 2..Len(events)
                BY <2>1, <2>4, <4>1
            <4>3. DOMAIN Tail(events) = 1..(Len(events) - 1) /\ Len(events) \in Nat
                BY <2>1, <4>1
            <4>4. \A j \in 1..(Len(events) - 1) : Tail(events)[j] = events[j + 1]
                BY <2>1, <4>1
            <4>5. \A i \in 2..Len(events) : i - 1 \in 1..(Len(events) - 1) /\ (i - 1) + 1 = i
                BY <4>3
            <4> QED
                BY <2>1, <4>2, <4>3, <4>4, <4>5
        <3>3. Coming => Coming'
            BY <2>1, <2>2, <3>1, <3>2 DEF Coming
        <3> QED
            BY <2>1, <3>3, <1>4
    <2> QED
        BY <2>3, <2>4
<1>13. CASE Load
    <2> DEFINE new == Listing(clock, plugged)
    <2>1. /\ loads' = loads \cup {new} /\ list' = list /\ plugged' = plugged
          /\ new.at = clock /\ new.devices = plugged
        BY <1>13 DEF Load, pads, Listing
    <2>2. \A m \in loads : m.at \in 0..clock /\ (m.at = clock => m.devices = plugged)
        BY DEF TypeOK, LoadInv
    <2>3. clock \in Int
        BY DEF TypeOK
    <2> HIDE DEF new
    <2>4. \A m \in loads' : m.at >= new.at => m.devices = plugged
        BY <2>1, <2>2, <2>3
    <2>5. /\ new \in loads' /\ new.devices = plugged'
          /\ \A m \in loads' : m.at >= new.at => m.devices = plugged'
        BY <2>1, <2>4
    <2> QED
        BY <2>5 DEF ListInv, Newest
<1>14. ASSUME NEW load \in loads, Show(load)
       PROVE  ListInv'
    <2>1. /\ tick' = tick /\ known' = known /\ plugged' = plugged /\ asked' = asked /\ events' = events
          /\ loads' = loads \ {load} /\ list' = load /\ ~(load.at < list.at)
        BY <1>14 DEF Show, pads, nav
    <2>2. Coming' <=> Coming
        BY <2>1, <1>5
    <2>3. \A l \in loads \cup {list} : l.at \in Int
        BY DEF TypeOK
    <2>4. ASSUME NEW l \in loads \cup {list}, Newest(l)
          PROVE  \E k \in loads' \cup {list'} : Newest(k)'
        <3>1. CASE l \in loads
            BY <2>1, <2>4, <3>1 DEF Newest
        <3>2. CASE l = list
            <4>1. load.devices = plugged
                BY <2>1, <2>3, <2>4, <3>2 DEF Newest
            <4>2. \A m \in loads' : m.at >= load.at => m.devices = plugged
                BY <2>1, <2>3, <2>4, <3>2 DEF Newest
            <4> QED
                BY <2>1, <4>1, <4>2 DEF Newest
        <3> QED
            BY <3>1, <3>2
    <2> QED
        BY <2>2, <2>4 DEF ListInv
<1>15. CASE LoadFails
    BY <1>15 DEF LoadFails
<1>16. CASE Rescan
    <2>1. asked' > 0
        BY <1>16 DEF Rescan, TypeOK
    <2> QED
        BY <2>1 DEF ListInv, Coming
<1>17. CASE UNCHANGED vars
    <2>1. /\ tick' = tick /\ known' = known /\ plugged' = plugged /\ asked' = asked
          /\ events' = events /\ loads' = loads /\ list' = list
        BY <1>17 DEF vars, pads, nav, screen
    <2> QED
        BY <2>1, <1>4, <1>5
<1> QED
    BY <1>2, <1>6, <1>7, <1>8, <1>9, <1>10, <1>11, <1>12, <1>13, <1>14, <1>15, <1>16, <1>17, <1>18 DEF Next

-----------------------------------------------------------------------------
\* What will have been said of a pad is what its streams are
\* (navstream.go:236-283, app.go:766-825).
LEMMA StepWord ==
    ASSUME PadsAssumption, ChannelAssumption, BoundAssumption, TypeOK, PollInv, StreamInv, WordInv,
           [Next]_vars, running', lapses' = {}
    PROVE  WordInv'
<1>1. machine' = machine
    BY MachineStays
<1>2. running /\ lapses = {} /\ ~Cancel
    BY Before
<1>3. /\ \A p : Key(p)' = Key(p) /\ Pid(p)' = Pid(p)
      /\ \A p : Alone(p)' <=> Alone(p)
    BY <1>1, SameKeys
<1>4. SUFFICES ASSUME NEW p \in Pads, Alone(p), NEW pid, pid = Pid(p)
               PROVE  /\ p \in plugged' /\ Key(p) \in Connected' =>
                            (Told(pid)' <=> streams'[p] > 0 \/ p \in broken')
                      /\ Key(p) \notin Connected' \cup tick'.removed => ~Told(pid)'
                      /\ InTurn(pid)'
    BY <1>3 DEF WordInv, Told, InTurn
<1> DEFINE Goal == /\ p \in plugged' /\ Key(p) \in Connected' =>
                            (Told(pid)' <=> streams'[p] > 0 \/ p \in broken')
                   /\ Key(p) \notin Connected' \cup tick'.removed => ~Told(pid)'
                   /\ InTurn(pid)'
<1>5. /\ p \in plugged /\ Key(p) \in Connected => (Told(pid) <=> streams[p] > 0 \/ p \in broken)
      /\ Key(p) \notin Connected \cup tick.removed => ~Told(pid)
      /\ InTurn(pid)
    BY <1>4 DEF WordInv
<1>6. events \in Seq(Event)
    BY DEF TypeOK
<1>7. Apart(p)
    BY <1>4 DEF Apart
<1>8. \A key \in KeysOf(Pads) : key.pid = pid => key = Key(p)
    BY <1>4, AloneKey
<1>9. Key(p).pid = pid
    BY <1>4 DEF Key, Pid
<1>10. ASSUME events' = events, notes' = notes
       PROVE  (Told(pid)' <=> Told(pid)) /\ (InTurn(pid)' <=> InTurn(pid))
    BY <1>10 DEF Told, InTurn
<1>11. ASSUME NEW q \in Pads, PlugIn(q)
       PROVE  Goal
    <2>1. /\ streams' = streams /\ broken' = broken /\ events' = events /\ notes' = notes
          /\ plugged' = plugged \cup {q} /\ machine.label[q] \notin Believed
        BY <1>11 DEF PlugIn, screen
    <2>2. Connected' = Connected /\ tick'.removed = tick.removed
        BY <1>11, ConnectedAfter
    <2>3. p = q => Key(p) \notin Connected
        BY <2>1, ConnectedBelieved DEF Key
    <2> QED
        BY <2>1, <2>2, <2>3, <1>5, <1>10
<1>12. ASSUME NEW q \in Pads, PullOut(q)
       PROVE  Goal
    <2>1. /\ tick' = tick /\ known' = known /\ events' = events /\ notes' = notes
          /\ plugged' = plugged \ {q} /\ streams' = [streams EXCEPT ![q] = 0] /\ broken' = broken \ {q}
        BY <1>12 DEF PullOut, screen
    <2>2. Connected' = Connected /\ tick'.removed = tick.removed
        BY <2>1, ConnectedAfter
    <2>3. p # q => streams'[p] = streams[p]
        BY <2>1 DEF TypeOK
    <2> QED
        BY <2>1, <2>2, <2>3, <1>5, <1>10
<1>13. ASSUME NEW q \in Pads, PressButton(q)
       PROVE  Goal
    <2>1. /\ tick' = tick /\ known' = known /\ streams' = streams /\ notes' = notes
          /\ plugged' = plugged /\ broken' = broken /\ Send(Press)
        BY <1>13 DEF PressButton, pads, screen
    <2>2. Connected' = Connected /\ tick'.removed = tick.removed
        BY <2>1, ConnectedAfter
    <2>3. Press \in Event /\ ~IsHotplug(Press)
        BY DEF Event, Press, IsHotplug
    <2>4. events' = Append(events, Press) \/ events' = events
        BY <2>1, <2>3, Sent
    <2>5. (Told(pid)' <=> Told(pid)) /\ (InTurn(pid) => InTurn(pid)')
        BY <2>1, <2>3, <2>4, <1>6, <1>10, WordSent
    <2> QED
        BY <2>1, <2>2, <2>5, <1>5
<1>20. ASSUME NEW q \in Pads, StreamEnds(q)
       PROVE  Goal
    <2>1. /\ tick' = tick /\ known' = known /\ events' = events /\ notes' = notes
          /\ plugged' = plugged /\ streams' = [streams EXCEPT ![q] = @ - 1] /\ streams[q] > 0
          /\ broken' = broken \cup {q}
        BY <1>20 DEF StreamEnds, pads, screen
    <2>2. Connected' = Connected /\ tick'.removed = tick.removed
        BY <2>1, ConnectedAfter
    <2>3. p # q => streams'[p] = streams[p]
        BY <2>1 DEF TypeOK
    <2>4. p = q => streams[p] > 0 /\ p \in broken'
        BY <2>1
    <2>5. p # q => (p \in broken' <=> p \in broken)
        BY <2>1
    <2> QED
        BY <2>1, <2>2, <2>3, <2>4, <2>5, <1>5, <1>10
<1>14. ASSUME NEW seen \in SUBSET plugged, Enumerate(seen)
       PROVE  Goal
    <2>1. /\ Connected = known /\ Connected' = known \cap KeysOf(plugged)
          /\ tick.removed = {} /\ tick'.removed = known \ KeysOf(plugged)
        BY <1>14, ConnectedAfter
    <2>2. /\ plugged' = plugged /\ streams' = streams /\ broken' = broken
          /\ events' = events /\ notes' = notes
        BY <1>14 DEF Enumerate, pads, screen
    <2> QED
        BY <2>1, <2>2, <1>5, <1>10
<1>15. ASSUME NEW key \in KeysOf(Pads), Connect(key)
       PROVE  Goal
    <2>1. PICK f \in Openings({q \in tick.seen : Key(q) = key}, tick.fresh) :
             /\ Send(Hotplug("connected", key, Outcome(f)))
             /\ Dropped(Hotplug("connected", key, Outcome(f))) \subseteq lapses'
             /\ DOMAIN f \subseteq {q \in tick.seen : Key(q) = key}
             /\ \A q \in Pads : Apart(q) =>
                  /\ q \in DOMAIN f => streams'[q] = streams[q] + 1 /\ q \in plugged
                  /\ q \notin DOMAIN f => streams'[q] = streams[q]
        BY <1>15, Connects
    <2> DEFINE e == Hotplug("connected", key, Outcome(f))
    <2>2. Outcome(f) \in Statuses
        BY DEF Outcome, Statuses
    <2>3. /\ e \in Event /\ IsHotplug(e) /\ e.pid = key.pid /\ e.status = Outcome(f)
        BY <2>2, Announced
    <2>4. events' = Append(events, e)
        BY <2>1, <2>3, Sent
    <2>5. plugged' = plugged /\ notes' = notes /\ broken' = broken
        BY <1>15 DEF Connect, pads, screen
    <2>6. /\ key \notin Connected /\ key \notin tick.removed
          /\ Connected' = Connected \cup {key} /\ tick'.removed = tick.removed
        BY <1>15, ConnectedAfter
    <2> HIDE DEF e
    <2>7. /\ Told(pid)' <=> IF e.pid = pid THEN e.status = "active" ELSE Told(pid)
          /\ InTurn(pid) /\ ~(e.pid = pid /\ e.status = "unavailable" /\ Told(pid)) => InTurn(pid)'
        BY <2>3, <2>4, <2>5, <1>6, WordSent
    <2>8. CASE key.pid = pid
        <3>1. key = Key(p)
            BY <2>8, <1>8
        <3>2. ~Told(pid)
            BY <3>1, <2>6, <1>5
        <3>3. InTurn(pid)'
            BY <2>7, <3>2, <1>5
        <3>4. Told(pid)' <=> Outcome(f) = "active"
            BY <2>3, <2>7, <2>8
        <3>5. DOMAIN f \subseteq {p}
            <4>1. \A q \in DOMAIN f : q \in Pads /\ Key(q) = key
                BY <2>1 DEF TypeOK
            <4>2. \A q \in DOMAIN f : Pid(q) = Pid(p)
                BY <4>1, <3>1 DEF Key, Pid
            <4> QED
                BY <4>1, <4>2, <1>4 DEF Alone
        <3>6. Outcome(f) = "active" <=> p \in DOMAIN f
            BY <3>5 DEF Outcome
        <3>7. streams[p] \in Nat /\ (p \in plugged => streams[p] = 0 /\ p \notin broken)
            BY <3>1, <2>6, <1>7 DEF StreamInv, TypeOK
        <3>8. p \in plugged => (p \in DOMAIN f <=> streams'[p] > 0)
            BY <2>1, <3>7, <1>7
        <3>9. p \in plugged => (Outcome(f) = "active" <=> streams'[p] > 0 \/ p \in broken')
            BY <3>6, <3>7, <3>8, <2>5
        <3>10. p \in plugged' /\ Key(p) \in Connected' =>
                  (Told(pid)' <=> streams'[p] > 0 \/ p \in broken')
            BY <3>4, <3>9, <2>5
        <3>11. Key(p) \in Connected'
            BY <3>1, <2>6
        <3> QED
            BY <3>3, <3>10, <3>11
    <2>9. CASE key.pid # pid
        <3>1. key # Key(p)
            BY <2>9, <1>9
        <3>2. p \notin DOMAIN f
            BY <3>1, <2>1
        <3>3. streams'[p] = streams[p]
            BY <3>2, <2>1, <1>7
        <3> QED
            BY <3>1, <3>3, <2>3, <2>5, <2>6, <2>7, <2>9, <1>5
    <2> QED
        BY <2>8, <2>9
<1>16. ASSUME NEW key \in KeysOf(Pads), Disconnect(key)
       PROVE  Goal
    <2> DEFINE e == Hotplug("disconnected", key, "disconnected")
    <2>1. /\ plugged' = plugged /\ notes' = notes /\ streams' = streams /\ broken' = broken
          /\ Send(e) /\ Dropped(e) \subseteq lapses'
        BY <1>16 DEF Disconnect, pads, screen
    <2>2. /\ e \in Event /\ IsHotplug(e) /\ e.pid = key.pid /\ e.status = "disconnected"
        BY Announced DEF Statuses
    <2>3. events' = Append(events, e)
        BY <2>1, <2>2, Sent
    <2>4. /\ key \notin Connected
          /\ Connected' = Connected /\ tick'.removed = tick.removed \ {key}
        BY <1>16, ConnectedAfter
    <2> HIDE DEF e
    <2>5. /\ Told(pid)' <=> IF e.pid = pid THEN e.status = "active" ELSE Told(pid)
          /\ InTurn(pid) /\ ~(e.pid = pid /\ e.status = "unavailable" /\ Told(pid)) => InTurn(pid)'
        BY <2>1, <2>2, <2>3, <1>6, WordSent
    <2>6. InTurn(pid)'
        BY <2>2, <2>5, <1>5
    <2>7. CASE key.pid = pid
        <3>1. key = Key(p)
            BY <2>7, <1>8
        <3>2. ~Told(pid)'
            BY <2>2, <2>5, <2>7
        <3> QED
            BY <3>1, <3>2, <2>4, <2>6
    <2>8. CASE key.pid # pid
        <3>1. key # Key(p)
            BY <2>8, <1>9
        <3> QED
            BY <3>1, <2>1, <2>2, <2>4, <2>5, <2>6, <2>8, <1>5
    <2> QED
        BY <2>7, <2>8
<1>17. CASE TickEnds
    <2>1. Connected' = Connected /\ tick'.removed = tick.removed
        BY <1>17, ConnectedAfter
    <2>2. /\ plugged' = plugged /\ streams' = streams /\ broken' = broken
          /\ events' = events /\ notes' = notes
        BY <1>17 DEF TickEnds, pads, screen
    <2> QED
        BY <2>1, <2>2, <1>5, <1>10
<1>18. CASE Handle
    <2>1. /\ plugged' = plugged /\ streams' = streams /\ broken' = broken
          /\ tick' = tick /\ known' = known
        BY <1>18 DEF Handle, pads
    <2>2. Connected' = Connected /\ tick'.removed = tick.removed
        BY <2>1, ConnectedAfter
    <2>3. (Told(pid)' <=> Told(pid)) /\ InTurn(pid)'
        BY <1>5, <1>6, <1>18, WordHandled
    <2> QED
        BY <2>1, <2>2, <2>3, <1>5
<1>19. CASE \/ Load \/ LoadFails \/ Rescan \/ UNCHANGED vars
            \/ \E load \in loads : Show(load)
    <2>1. /\ plugged' = plugged /\ streams' = streams /\ broken' = broken
          /\ tick' = tick /\ known' = known /\ events' = events /\ notes' = notes
        BY <1>19 DEF Load, LoadFails, Rescan, Show, vars, pads, nav, screen
    <2>2. Connected' = Connected /\ tick'.removed = tick.removed
        BY <2>1, ConnectedAfter
    <2> QED
        BY <2>1, <2>2, <1>5, <1>10
<1> QED
    BY <1>2, <1>11, <1>12, <1>13, <1>14, <1>15, <1>16, <1>17, <1>18, <1>19, <1>20 DEF Next

-----------------------------------------------------------------------------
(* The first state.                                                        *)

LEMMA InvInit ==
    ASSUME PadsAssumption, ChannelAssumption, BoundAssumption, Init
    PROVE  IInv
<1>1. TypeOK
    BY TypeInit
<1>2. PollInv /\ QuitInv /\ LoadInv
    BY DEF Init, Idle, PollInv, QuitInv, LoadInv
<1>3. Connected = known /\ tick.removed = {} /\ ~tick.on /\ events = <<>> /\ broken = {}
    BY DEF Init, Idle, Connected
<1>4. PICK seen, f, gone : Begun(seen, f, gone)
    BY StartBegins
<1>5. /\ seen \subseteq Pads /\ gone \subseteq seen \ plugged /\ known = KeysOf(seen)
      /\ DOMAIN f \subseteq seen /\ f \in [DOMAIN f -> plugged]
      /\ \A q \in DOMAIN f : f[q] \in Reached(q, plugged \ seen)
    BY <1>4, Opened DEF Begun
<1>6. plugged \subseteq Pads
    BY <1>1 DEF TypeOK
<1>7. ASSUME lapses = {}, NEW p \in Pads, Apart(p)
      PROVE  streams[p] = IF p \in DOMAIN f THEN 1 ELSE 0
    <2>1. Astray(f) = {}
        BY <1>4, <1>7 DEF Begun
    <2>2. Readers(f, p) = IF p \in DOMAIN f THEN 1 ELSE 0
        BY <1>5, <1>6, <1>7, <2>1, ReadBy
    <2> QED
        BY <1>4, <1>7, <2>2 DEF Begun
<1>8. \A p \in seen : Key(p) \in Connected
    BY <1>3, <1>5 DEF KeysOf, Key
<1>9. lapses = {} => StreamInv
    <2>1. SUFFICES ASSUME lapses = {}, NEW p \in plugged, Apart(p)
                   PROVE  streams[p] <= 1 /\ (Key(p) \notin Connected => streams[p] = 0 /\ p \notin broken)
        BY DEF StreamInv
    <2>2. streams[p] = IF p \in DOMAIN f THEN 1 ELSE 0
        BY <2>1, <1>6, <1>7
    <2> QED
        BY <2>2, <1>3, <1>5, <1>8
<1>10. ListInv
    BY DEF Init, ListInv, Coming
<1>11. lapses = {} => WordInv
    <2>1. SUFFICES ASSUME lapses = {}, NEW p \in Pads, Alone(p)
                   PROVE  /\ p \in plugged /\ Key(p) \in Connected =>
                                (Told(Pid(p)) <=> streams[p] > 0 \/ p \in broken)
                          /\ Key(p) \notin Connected \cup tick.removed => ~Told(Pid(p))
                          /\ InTurn(Pid(p))
        BY DEF WordInv
    <2>2. About(events, Pid(p)) = {}
        BY <1>3 DEF About
    <2>3. Told(Pid(p)) <=> Note(Pid(p), "active") \in notes
        BY <2>2 DEF Told, ActiveBefore, Said
    <2> DEFINE opened == DOMAIN f \cup gone
    <2>4. opened \subseteq seen /\ (p \in plugged => (p \in opened <=> p \in DOMAIN f))
        BY <1>5
    <2>5. \A key \in known : key.pid = Pid(p) => key = Key(p)
        BY <2>1, <1>5, AloneKey
    <2>6. Key(p) \in KeysOf(opened) <=> p \in opened
        <3>1. \A q \in opened : machine.label[q] = Key(p) => q = p
            BY <2>1, <2>4, <1>5 DEF Alone, Pid, Key
        <3> QED
            BY <3>1 DEF KeysOf, Key
    <2>7. Note(Pid(p), "active") \in notes <=> Key(p) \in known /\ p \in opened
        <3>1. notes = {Note(key.pid, IF key \in KeysOf(opened) THEN "active" ELSE "unavailable") : key \in known}
            BY <1>4 DEF Begun
        <3>2. \A key : Note(Pid(p), "active") =
                          Note(key.pid, IF key \in KeysOf(opened) THEN "active" ELSE "unavailable")
                       <=> key.pid = Pid(p) /\ key \in KeysOf(opened)
            BY DEF Note
        <3>3. Key(p).pid = Pid(p)
            BY DEF Key, Pid
        <3> HIDE DEF opened
        <3> QED
            BY <3>1, <3>2, <3>3, <2>5, <2>6
    <2>8. InTurn(Pid(p))
        BY <2>2 DEF InTurn
    <2>9. streams[p] = IF p \in DOMAIN f THEN 1 ELSE 0
        BY <2>1, <1>7 DEF Apart
    <2>10. Key(p) \in Connected => (Note(Pid(p), "active") \in notes <=> p \in opened)
        BY <2>7, <1>3
    <2> HIDE DEF opened
    <2> QED
        BY <2>3, <2>4, <2>7, <2>8, <2>9, <2>10, <1>3
<1> QED
    BY <1>1, <1>2, <1>9, <1>10, <1>11 DEF IInv

-----------------------------------------------------------------------------
(* What it comes to.                                                       *)

\* With nothing under way, the invariant says what the user sees.
LEMMA Settles ==
    ASSUME IInv
    PROVE  ScreenSettles
<1>1. TypeOK /\ QuitInv
    BY DEF IInv
<1>2. ASSUME NEW p \in Pads, lapses = {}, Apart(p)
      PROVE  streams[p] <= 1
    <2>1. p \notin plugged => streams[p] = 0
        BY <1>1 DEF TypeOK
    <2>2. ~running => streams[p] = 0
        BY <1>1 DEF QuitInv
    <2>3. running /\ p \in plugged => streams[p] <= 1
        BY <1>2 DEF IInv, StreamInv
    <2> QED
        BY <2>1, <2>2, <2>3
<1>3. ASSUME lapses \subseteq {"reused"}, Settled
      PROVE  list.devices = plugged
    <2>1. ~tick.on /\ Believed = KeysOf(plugged) /\ asked = 0 /\ loads = {}
        BY <1>3 DEF Settled, Believed
    <2>2. \A i \in DOMAIN events : ~IsHotplug(events[i])
        BY <1>3 DEF Settled
    <2>3. ~Coming
        BY <2>1, <2>2 DEF Coming
    <2>4. ListInv
        BY <1>3 DEF IInv, Settled
    <2> QED
        BY <2>1, <2>3, <2>4 DEF ListInv, Newest
<1>4. ASSUME lapses = {}, Settled, NEW p \in Pads, Alone(p)
      PROVE  Note(Pid(p), "active") \in notes <=> streams[p] > 0 \/ p \in broken
    <2>1. /\ p \in plugged /\ Key(p) \in Connected => (Told(Pid(p)) <=> streams[p] > 0 \/ p \in broken)
          /\ Key(p) \notin Connected \cup tick.removed => ~Told(Pid(p))
        BY <1>4 DEF IInv, Settled, WordInv
    <2>2. \A i \in DOMAIN events : ~IsHotplug(events[i])
        BY <1>4 DEF Settled
    <2>3. About(events, Pid(p)) = {}
        BY <2>2 DEF About
    <2>4. Told(Pid(p)) <=> Note(Pid(p), "active") \in notes
        BY <2>3 DEF Told, ActiveBefore, Said
    <2>5. Connected = KeysOf(plugged) /\ tick.removed = {}
        BY <1>1, <1>4 DEF Settled, Connected, TypeOK, Idle
    <2>6. Key(p) \in KeysOf(plugged) <=> p \in plugged
        <3>1. plugged \subseteq Pads
            BY <1>1 DEF TypeOK
        <3>2. \A q \in plugged : machine.label[q] = Key(p) => q = p
            BY <3>1, <1>4 DEF Alone, Pid, Key
        <3> QED
            BY <3>2 DEF KeysOf, Key
    <2>7. p \notin plugged => streams[p] = 0 /\ p \notin broken
        BY <1>1 DEF TypeOK
    <2> QED
        BY <2>1, <2>4, <2>5, <2>6, <2>7
<1> QED
    BY <1>2, <1>3, <1>4 DEF ScreenSettles, Apart

\* However controllers come and go, a press counts once, and once everything in
\* hand is done the list and the notes are true (navstream.go:236-283,
\* app.go:766-825, commands.go:21-26).
THEOREM ScreenIsSettled == Spec => []ScreenSettles
<1> USE PadsAssumption, ChannelAssumption, BoundAssumption
<1>1. Init => IInv
    BY InvInit
<1>2. IInv /\ [Next]_vars => IInv'
    <2> SUFFICES ASSUME IInv, [Next]_vars PROVE IInv'
        OBVIOUS
    <2>1. TypeOK /\ PollInv /\ QuitInv /\ LoadInv
        BY DEF IInv
    <2>2. TypeOK'
        BY <2>1, TypeHands, TypePoll, TypeScreen, TypeStutter DEF Next
    <2>3. PollInv' /\ QuitInv' /\ LoadInv'
        BY <2>1, <2>2, StepSound
    <2>4. ASSUME running', lapses' \subseteq {"reused"}
          PROVE  ListInv'
        <3>1. ListInv
            BY <2>4, Before DEF IInv
        <3> QED
            BY <2>1, <2>4, <3>1, StepList
    <2>5. ASSUME running', lapses' = {}
          PROVE  StreamInv' /\ WordInv'
        <3>1. StreamInv /\ WordInv
            BY <2>5, Before DEF IInv
        <3> QED
            BY <2>1, <2>5, <3>1, StepStream, StepWord
    <2> QED
        BY <2>2, <2>3, <2>4, <2>5 DEF IInv
<1>3. IInv => ScreenSettles
    BY Settles
<1> QED
    BY <1>1, <1>2, <1>3, PTL DEF Spec

-----------------------------------------------------------------------------
(* The messages that update the model: what it and its commands are like.  *)

Checks == {"diag", "rediag", "autodiag"}
Reads == {"keyboardRead", "padRead"}
Applies == {"keyboardApply", "padApply"}

\* How a command may end.
Outcomes(kind) ==
    CASE kind = "hotplug" -> {"ok", "gone"}
      [] kind \in Checks -> {"pending", "answers", "silent", "gone"}
      [] kind \in Applies -> {"pending", "ok", "error", "putBack", "uncertain"}
      [] kind = "probe" -> {"pending", "ok", "error", "uncertain"}
      [] kind = "fwPreflight" -> {"pending", "ok", "error", "denied"}
      [] kind = "fwListen" -> {"pending", "ok"}
      [] OTHER -> {"pending", "ok", "error"}

\* A command says what its kind has to say.
WellIssued(c) ==
    /\ c.out \in Outcomes(c.kind)
    /\ c.kind \in Checks => c.device \in Devices
    /\ c.kind \in Applies \union {"restore"} => c.value \in Contents
    /\ c.kind \in Applies /\ c.out = "uncertain" => c.saved \in Contents
    /\ c.kind \in Reads /\ c.out = "ok" => c.value \in Contents

\* A profile that was read is never emptied.
NeverEmptied(e) == e.draft = Unread => e.loaded = Unread

\* What the handlers rely on.
WellFormed(m) ==
    /\ m.cursor \in DOMAIN m.listed \union {1}
    /\ m.diag.device = NoDevice => m.screen # "diagnostics" /\ m.prev # "diagnostics"
    /\ NeverEmptied(m.mapping.kb) /\ NeverEmptied(m.mapping.pad)
    /\ m.lock.hasBackup => m.lock.saved \in Contents
    /\ m.modal.kind = "discard" => m.modal.action # "none"

FormInv == WellFormed(model) /\ \A i \in DOMAIN cmds : WellIssued(cmds[i])

\* Of a firmware command: the image is that of its device, once there is one.
ImageFits(c) == c.kind \in FirmwareKinds => c.image = c.device \/ (c.kind = "fwDownload" /\ c.out # "ok")

\* Every answer of the firmware screen is about the device it is for.
FirmwareInv ==
    "begunInFlight" \notin astray =>
        /\ \A i \in DOMAIN cmds : ImageFits(cmds[i])
        /\ \A i \in DOMAIN cmds : cmds[i].kind = "fwDownload" => cmds[i].device = model.fw.device
        /\ model.fw.plan[1] = model.fw.plan[2]
        /\ ~flash.foreign

\* The checks are answered about the device they name.
ChecksInv ==
    "checkedInFlight" \notin astray =>
        /\ model.diag.result \in {NoDevice, model.diag.device}
        /\ \A i \in DOMAIN cmds : cmds[i].kind \in {"diag", "rediag"} => cmds[i].device = model.diag.device

\* The tab that shows, or that Settings will return to.
Shows(m, tab) == m.screen = tab \/ (m.screen = "settings" /\ ~m.lock.on /\ m.prev = tab)

\* The tab, shown or covered by Settings, is about the selected device.
TabInv ==
    ~Unless({"lostUnderSettings", "discardedForSettings"}) =>
        /\ Shows(model, "mapping") => Selected(model) # NoDevice /\ Selected(model) = model.mapping.device
        /\ Shows(model, "diagnostics") => Selected(model) # NoDevice /\ Selected(model) = model.diag.device

\* An editor that shows names its device.
NamedInv ==
    "discardedForSettings" \notin astray /\ Shows(model, "mapping") => model.mapping.device # NoDevice

\* Only Recovery restores, and it stays until the answer.
RestoreInv ==
    \A i \in DOMAIN cmds : cmds[i].kind = "restore" =>
        model.lock.on /\ model.screen = "recovery" /\ model.modal.kind = "none"

\* The editor that matters.
Open(m) == /\ m.mapping.device # NoDevice /\ ~m.mapping.unavailable
           /\ ~m.lock.on \/ m.screen = "mapping"

\* What the device holds, as far as anyone can tell.
Known(d, value) == value = content[d] \/ d \in uncertain

\* What the editor may expect of the command it waits for.
Expected(p, c) ==
    /\ c.device = p.device
    /\ p.keyboard <=> c.kind \in {"keyboardRead", "keyboardApply", "keyboardErase"}
    /\ c.kind \in Reads => p.loading /\ (c.out = "ok" => Known(p.device, c.value))
    /\ c.kind \notin Reads => p.applying
    /\ c.kind \in Applies =>
         /\ c.out \in {"pending", "ok"} => c.value = Editor(p).draft
         /\ c.out = "ok" => Known(p.device, c.value)
    /\ c.kind \in Applies \union {"keyboardErase"} /\ c.out \in {"pending", "putBack", "error"} =>
         Known(p.device, Editor(p).loaded)

\* An editor that waits for nothing.
AtRest(p) == ~p.loading /\ ~p.applying /\ ~p.failed

\* At most one command is for the editor, which waits for it and knows how it
\* ends; waiting for none, it has loaded what its device holds.
EditorInv ==
    Open(model) /\ ~Unless({"editedWhileWriting", "openedInFlight", "eraseFailed"}) =>
        /\ \A i, j \in DOMAIN cmds :
              cmds[i].kind \in MappingKinds /\ cmds[j].kind \in MappingKinds => i = j
        /\ \A i \in DOMAIN cmds : cmds[i].kind \in MappingKinds => Expected(model.mapping, cmds[i])
        /\ AtRest(model.mapping) => Known(model.mapping.device, Editor(model.mapping).loaded)
        /\ model.modal.kind = "erase" => AtRest(model.mapping) /\ model.mapping.keyboard

Fields == {"listed", "cursor", "screen", "prev", "modal", "lock", "advanced", "acknowledged",
           "mapping", "diag", "fw"}

\* Two models agree but for some fields.
Alike(m, n, changed) == \A f \in Fields \ changed : n[f] = m[f]

\* A handler returns a model, and commands that can be run.
Issuable(issue) == issue \in Seq(CommandType) /\ \A j \in DOMAIN issue : WellIssued(issue[j])
LEMMA CommandFields ==
    ASSUME NEW kind, NEW d, NEW value, NEW image
    PROVE  LET c == Command(kind, d, value, image)
           IN /\ c.kind = kind /\ c.device = d /\ c.value = value /\ c.image = image
              /\ c.out = "pending" /\ c.saved = Unread /\ c.found = {}
BY DEF Command

LEMMA CommandIssuable ==
    ASSUME NEW kind \in CommandKinds \ {"hotplug"}, NEW d \in MaybeDevice, NEW value \in 0 .. 2,
           NEW image \in MaybeDevice,
           kind \in Checks => d \in Devices,
           kind \in Applies \union {"restore"} => value \in Contents
    PROVE  Issuable(<<Command(kind, d, value, image)>>)
<1> DEFINE c == Command(kind, d, value, image)
<1>1. c \in CommandType
    BY DEF Command, CommandType, Unread
<1>2. "pending" \in Outcomes(kind)
    BY DEF Outcomes, Checks, Applies
<1>3. WellIssued(c)
    BY <1>2, CommandFields DEF WellIssued
<1> HIDE DEF c
<1>4. <<c>> \in Seq(CommandType) /\ DOMAIN <<c>> = {1} /\ <<c>>[1] = c
    BY <1>1
<1> QED
    BY <1>3, <1>4 DEF Issuable, c

\* A command of a kind that asks nothing of what it names.
LEMMA PlainIssuable ==
    ASSUME NEW kind \in CommandKinds \ (Checks \union Applies \union {"hotplug", "restore"}),
           NEW d \in MaybeDevice, NEW image \in MaybeDevice
    PROVE  Issuable(<<Command(kind, d, Unread, image)>>)
BY CommandIssuable DEF Unread

LEMMA NothingIssuable == Issuable(<<>>)
BY DEF Issuable

LEMMA Returned ==
    ASSUME NEW m, NEW c
    PROVE  /\ Just(m).m = m /\ Just(m).issue = <<>>
           /\ Issuing(m, c).m = m /\ Issuing(m, c).issue = <<c>>
BY DEF Just, Issuing

LEMMA SelectedFacts ==
    ASSUME NEW m \in ModelType, m.cursor \in DOMAIN m.listed \union {1}
    PROVE  /\ Selected(m) \in MaybeDevice
           /\ Selected(m) = NoDevice <=> m.listed = <<>>
           /\ m.listed # <<>> => m.cursor \in DOMAIN m.listed
<1>1. m.listed \in Seq(Devices) /\ m.cursor \in Nat \ {0}
    BY DEF ModelType
<1>2. m.listed # <<>> => 1 \in DOMAIN m.listed
    BY <1>1
<1>3. m.listed # <<>> => m.listed[m.cursor] \in Devices
    BY <1>1, <1>2
<1> QED
    BY <1>2, <1>3, ShellAssumption DEF Selected, MaybeDevice

LEMMA SelectedSame ==
    ASSUME NEW m, NEW n, n.listed = m.listed, n.cursor = m.cursor
    PROVE  Selected(n) = Selected(m)
BY DEF Selected

LEMMA ClampFacts ==
    ASSUME NEW i \in Nat \ {0}, NEW l \in Seq(Devices)
    PROVE  ClampCursor(i, l) \in Nat \ {0} /\ ClampCursor(i, l) \in DOMAIN l \union {1}
<1>1. Len(l) \in Nat /\ DOMAIN l = 1 .. Len(l) /\ (l # <<>> => Len(l) > 0)
    OBVIOUS
<1>2. CASE i > Len(l) /\ l = <<>>
    BY <1>2 DEF ClampCursor
<1>3. CASE i > Len(l) /\ l # <<>>
  <2>1. ClampCursor(i, l) = Len(l)
    BY <1>3 DEF ClampCursor
  <2> QED
    BY <1>1, <1>3, <2>1
<1>4. CASE ~(i > Len(l))
  <2>1. ClampCursor(i, l) = i
    BY <1>4 DEF ClampCursor
  <2> QED
    BY <1>1, <1>4, <2>1
<1> QED
    BY <1>2, <1>3, <1>4

-----------------------------------------------------------------------------
(* Moving about. *)

DiagType == [device : MaybeDevice, loading : BOOLEAN, failed : BOOLEAN, result : MaybeDevice]

LEMMA WithDiag ==
    ASSUME NEW m \in ModelType, NEW x \in DiagType, NEW n, n = [m EXCEPT !.diag = x]
    PROVE  n \in ModelType /\ Alike(m, n, {"diag"}) /\ n.diag = x
BY DEF ModelType, DiagType, Alike, Fields

LEMMA WithMapping ==
    ASSUME NEW m \in ModelType, NEW x \in MappingType, NEW n, n = [m EXCEPT !.mapping = x]
    PROVE  n \in ModelType /\ Alike(m, n, {"mapping"}) /\ n.mapping = x
BY DEF ModelType, Alike, Fields

LEMMA OpenChecksFacts ==
    ASSUME NEW m \in ModelType, NEW d \in Devices
    PROVE  LET h == OpenChecks(m, d)
           IN /\ h.m \in ModelType /\ Alike(m, h.m, {"diag"})
              /\ h.m.diag.device = d /\ h.m.diag.result \in {NoDevice, d}
              /\ h.issue \in {<<>>, <<Command("diag", d, Unread, NoDevice)>>}
<1>1. CASE Kind[d] = "silent"
  <2> DEFINE x == [[NewDiag EXCEPT !.device = d] EXCEPT !.failed = TRUE]
             n == [m EXCEPT !.diag = x]
  <2>1. x \in DiagType /\ x.device = d /\ x.result = NoDevice
    BY DEF MaybeDevice, NewDiag, DiagType
  <2>2. OpenChecks(m, d) = Just(n)
    BY <1>1 DEF OpenChecks
  <2> HIDE DEF x
  <2>3. n \in ModelType /\ Alike(m, n, {"diag"}) /\ n.diag = x
    BY <2>1, WithDiag
  <2>4. OpenChecks(m, d).m = n /\ OpenChecks(m, d).issue = <<>>
    BY <2>2, Returned
  <2> HIDE DEF n
  <2> QED
    BY <2>1, <2>3, <2>4
<1>2. CASE Kind[d] # "silent" /\ cache[d] # "unknown"
  <2> DEFINE x == [[NewDiag EXCEPT !.device = d] EXCEPT !.result = d, !.failed = cache[d] = "gone"]
             n == [m EXCEPT !.diag = x]
  <2>1. x \in DiagType /\ x.device = d /\ x.result = d
    BY DEF MaybeDevice, NewDiag, DiagType
  <2>2. OpenChecks(m, d) = Just(n)
    BY <1>2 DEF OpenChecks
  <2> HIDE DEF x
  <2>3. n \in ModelType /\ Alike(m, n, {"diag"}) /\ n.diag = x
    BY <2>1, WithDiag
  <2> HIDE DEF n
  <2> QED
    BY <2>1, <2>2, <2>3, Returned
<1>3. CASE Kind[d] # "silent" /\ cache[d] = "unknown"
  <2> DEFINE x == [[NewDiag EXCEPT !.device = d] EXCEPT !.loading = TRUE]
             n == [m EXCEPT !.diag = x]
  <2>1. x \in DiagType /\ x.device = d /\ x.result = NoDevice
    BY DEF MaybeDevice, NewDiag, DiagType
  <2>2. OpenChecks(m, d) = Issuing(n, Command("diag", d, Unread, NoDevice))
    BY <1>3 DEF OpenChecks
  <2> HIDE DEF x
  <2>3. n \in ModelType /\ Alike(m, n, {"diag"}) /\ n.diag = x
    BY <2>1, WithDiag
  <2>4. OpenChecks(m, d).m = n /\ OpenChecks(m, d).issue = <<Command("diag", d, Unread, NoDevice)>>
    BY <2>2, Returned
  <2> HIDE DEF n
  <2> QED
    BY <2>1, <2>3, <2>4
<1> QED
    BY <1>1, <1>2, <1>3

\* An editor that has just been opened.
EditorOpened(p, d) ==
    /\ p.device = d /\ p.kb = Fresh /\ p.pad = Fresh /\ ~p.applying /\ ~p.failed
    /\ p.loading <=> ~p.unavailable

ReadOf(p) == Command(IF p.keyboard THEN "keyboardRead" ELSE "padRead", p.device, Unread, NoDevice)

LEMMA OpenMappingFacts ==
    ASSUME NEW m \in ModelType, NEW d \in Devices
    PROVE  LET h == OpenMapping(m, d)
           IN /\ h.m \in ModelType /\ Alike(m, h.m, {"mapping"})
              /\ EditorOpened(h.m.mapping, d)
              /\ \/ h.m.mapping.unavailable /\ h.issue = <<>>
                 \/ ~h.m.mapping.unavailable /\ ~m.lock.on /\ h.issue = <<ReadOf(h.m.mapping)>>
<1> DEFINE opened == [NewMapping EXCEPT !.device = d, !.keyboard = Kind[d] = "keyboard"]
<1>1. /\ opened \in MappingType /\ opened.device = d /\ opened.kb = Fresh /\ opened.pad = Fresh
      /\ ~opened.applying /\ ~opened.failed /\ ~opened.loading /\ ~opened.unavailable
  <2> DEFINE keyboard == Kind[d] = "keyboard"
  <2>1. keyboard \in BOOLEAN /\ Fresh \in [loaded : 0 .. 2, draft : 0 .. 2] /\ d \in MaybeDevice
    BY DEF Fresh, Unread, MaybeDevice
  <2>2. NewMapping \in MappingType
    BY <2>1 DEF NewMapping, MappingType, MaybeDevice
  <2> HIDE DEF keyboard
  <2>3. opened = [NewMapping EXCEPT !.device = d, !.keyboard = keyboard]
    BY DEF keyboard
  <2> QED
    BY <2>1, <2>2, <2>3 DEF NewMapping, MappingType
<1>2. OpenMapping(m, d) =
        IF MappingDisabled(m, d)
        THEN Just([m EXCEPT !.mapping = [opened EXCEPT !.unavailable = TRUE]])
        ELSE Issuing([m EXCEPT !.mapping = [opened EXCEPT !.loading = TRUE]],
                     Command(IF opened.keyboard THEN "keyboardRead" ELSE "padRead", d, Unread, NoDevice))
    BY DEF OpenMapping
<1> HIDE DEF opened
<1>3. CASE MappingDisabled(m, d)
  <2> DEFINE x == [opened EXCEPT !.unavailable = TRUE]
             n == [m EXCEPT !.mapping = x]
  <2>1. x \in MappingType /\ EditorOpened(x, d) /\ x.unavailable
    BY <1>1 DEF MappingType, EditorOpened
  <2>2. OpenMapping(m, d) = Just(n)
    BY <1>2, <1>3
  <2> HIDE DEF x
  <2>3. n \in ModelType /\ Alike(m, n, {"mapping"}) /\ n.mapping = x
    BY <2>1, WithMapping
  <2> HIDE DEF n
  <2> QED
    BY <2>1, <2>2, <2>3, Returned
<1>4. CASE ~MappingDisabled(m, d)
  <2> DEFINE x == [opened EXCEPT !.loading = TRUE]
             n == [m EXCEPT !.mapping = x]
  <2>1. x \in MappingType /\ EditorOpened(x, d) /\ ~x.unavailable /\ x.keyboard = opened.keyboard /\ x.device = d
    BY <1>1 DEF MappingType, EditorOpened
  <2> DEFINE c == Command(IF opened.keyboard THEN "keyboardRead" ELSE "padRead", d, Unread, NoDevice)
  <2>2. OpenMapping(m, d) = Issuing(n, c)
    BY <1>2, <1>4
  <2>3. ~m.lock.on
    BY <1>4 DEF MappingDisabled
  <2>4. c = ReadOf(x)
    BY <2>1 DEF ReadOf
  <2> HIDE DEF x, c
  <2>5. n \in ModelType /\ Alike(m, n, {"mapping"}) /\ n.mapping = x
    BY <2>1, WithMapping
  <2> HIDE DEF n
  <2> QED
    BY <2>1, <2>2, <2>3, <2>4, <2>5, Returned
<1> QED
    BY <1>3, <1>4

\* The four ways a navigation may end.
Elsewhere(m, h) ==
    /\ Alike(m, h.m, {"cursor", "screen"}) /\ h.m.screen \notin {"mapping", "diagnostics", "settings"}
    /\ h.issue = <<>>

ToSettings(m, h) ==
    /\ Alike(m, h.m, {"cursor", "screen", "prev"}) /\ h.m.screen = "settings"
    /\ h.m.prev = IF m.screen \in Tabs THEN m.screen ELSE m.prev
    /\ h.issue = <<>>

ToChecks(m, h) ==
    /\ Alike(m, h.m, {"cursor", "screen", "diag"}) /\ h.m.screen = "diagnostics"
    /\ h.m.diag.device \in Devices /\ h.m.diag.device = Selected(h.m)
    /\ h.m.diag.result \in {NoDevice, h.m.diag.device}
    /\ h.issue \in {<<>>, <<Command("diag", h.m.diag.device, Unread, NoDevice)>>}

ToEditor(m, h) ==
    /\ Alike(m, h.m, {"cursor", "screen", "mapping"}) /\ h.m.screen = "mapping"
    /\ Selected(h.m) \in Devices /\ EditorOpened(h.m.mapping, Selected(h.m))
    /\ \/ h.m.mapping.unavailable /\ h.issue = <<>>
       \/ ~h.m.mapping.unavailable /\ ~h.m.lock.on /\ h.issue = <<ReadOf(h.m.mapping)>>

Navigated(m, h) ==
    /\ h.m.cursor \in DOMAIN m.listed \union {1}
    /\ Elsewhere(m, h) \/ ToSettings(m, h) \/ ToChecks(m, h) \/ ToEditor(m, h)

LEMMA NavigateNowFacts ==
    ASSUME NEW m \in ModelType, m.cursor \in DOMAIN m.listed \union {1},
           NEW target \in Screens, NEW i \in Nat \ {0}
    PROVE  LET h == NavigateNow(m, target, i)
           IN /\ h.m \in ModelType /\ h.m.cursor \in DOMAIN m.listed \union {1}
              /\ i = m.cursor => h.m.cursor = m.cursor
              /\ Navigated(m, h)
              /\ h.m.screen = "settings" => target = "settings"
<1> DEFINE next == IF i = m.cursor THEN i ELSE ClampCursor(i, m.listed)
           at == [m EXCEPT !.cursor = next]
           shown == [at EXCEPT !.screen = target]
           h == NavigateNow(m, target, i)
<1>1. next \in Nat \ {0} /\ next \in DOMAIN m.listed \union {1} /\ (i = m.cursor => next = m.cursor)
  <2>1. m.listed \in Seq(Devices)
    BY DEF ModelType
  <2> QED
    BY <2>1, ClampFacts
<1> HIDE DEF next
<1>2. at \in ModelType /\ Alike(m, at, {"cursor"}) /\ at.cursor = next
    BY <1>1 DEF ModelType, Alike, Fields
<1>3. h = CASE target = "settings" ->
              Just([shown EXCEPT !.prev = IF m.screen \in Tabs THEN m.screen ELSE m.prev])
         [] target # "settings" /\ Selected(at) = NoDevice -> Just([at EXCEPT !.screen = "devices"])
         [] target = "diagnostics" /\ Selected(at) # NoDevice -> OpenChecks(shown, Selected(at))
         [] target = "mapping" /\ Selected(at) # NoDevice -> OpenMapping(shown, Selected(at))
         [] OTHER -> Just(shown)
    BY DEF NavigateNow, next
<1> HIDE DEF at, h
<1>4. shown \in ModelType /\ Alike(at, shown, {"screen"}) /\ shown.screen = target
    BY <1>2 DEF ModelType, Alike, Fields
<1>5. Alike(m, shown, {"cursor", "screen"}) /\ shown.cursor = next
    BY <1>2, <1>4 DEF Alike, Fields
<1>6. at.listed = m.listed /\ shown.listed = m.listed /\ shown.cursor = at.cursor
    BY <1>2, <1>5 DEF Alike, Fields
<1>7. Selected(at) \in MaybeDevice /\ Selected(shown) = Selected(at)
    BY <1>1, <1>2, <1>6, SelectedFacts, SelectedSame
<1>8. CASE target = "settings"
  <2> DEFINE n == [shown EXCEPT !.prev = IF m.screen \in Tabs THEN m.screen ELSE m.prev]
             back == IF m.screen \in Tabs THEN m.screen ELSE m.prev
  <2>1. h = Just(n)
    BY <1>3, <1>8
  <2>2. back \in Screens
    BY DEF ModelType
  <2> HIDE DEF back
  <2>3. n = [shown EXCEPT !.prev = back]
    BY DEF back
  <2> HIDE DEF n, shown
  <2>4. n \in ModelType /\ Alike(shown, n, {"prev"}) /\ n.prev = back
    BY <1>4, <2>2, <2>3 DEF ModelType, Alike, Fields
  <2>5. h.m = n /\ h.issue = <<>>
    BY <2>1, Returned
  <2>6. n.screen = "settings" /\ n.cursor = next
    BY <1>4, <1>5, <1>8, <2>4 DEF Alike, Fields
  <2>7. Alike(m, n, {"cursor", "screen", "prev"})
    BY <1>5, <2>4 DEF Alike, Fields
  <2>8. ToSettings(m, h)
    BY <2>4, <2>5, <2>6, <2>7 DEF ToSettings, back
  <2> QED
    BY <1>1, <1>8, <2>4, <2>5, <2>6, <2>8 DEF Navigated, h
<1>9. CASE target # "settings" /\ Selected(at) = NoDevice
  <2> DEFINE n == [at EXCEPT !.screen = "devices"]
  <2>1. h = Just(n)
    BY <1>3, <1>9
  <2>2. n \in ModelType /\ Alike(at, n, {"screen"}) /\ n.screen = "devices"
    BY <1>2 DEF ModelType, Alike, Fields, Screens, Tabs
  <2> HIDE DEF n
  <2>3. h.m = n /\ h.issue = <<>>
    BY <2>1, Returned
  <2>4. Alike(m, n, {"cursor", "screen"}) /\ n.cursor = next
    BY <1>2, <2>2 DEF Alike, Fields
  <2>5. Elsewhere(m, h)
    BY <2>2, <2>3, <2>4 DEF Elsewhere
  <2> QED
    BY <1>1, <2>2, <2>3, <2>4, <2>5 DEF Navigated, h
<1>10. CASE target = "diagnostics" /\ Selected(at) # NoDevice
  <2>1. h = OpenChecks(shown, Selected(at)) /\ Selected(at) \in Devices
    BY <1>3, <1>7, <1>10 DEF MaybeDevice
  <2>2. /\ h.m \in ModelType /\ Alike(shown, h.m, {"diag"})
        /\ h.m.diag.device = Selected(at) /\ h.m.diag.result \in {NoDevice, Selected(at)}
        /\ h.issue \in {<<>>, <<Command("diag", Selected(at), Unread, NoDevice)>>}
    BY <1>4, <2>1, OpenChecksFacts
  <2> HIDE DEF shown
  <2>3. h.m.cursor = shown.cursor /\ h.m.listed = shown.listed /\ h.m.screen = "diagnostics"
    BY <1>4, <1>10, <2>2 DEF Alike, Fields
  <2>4. Alike(m, h.m, {"cursor", "screen", "diag"})
    BY <1>5, <2>2 DEF Alike, Fields
  <2>5. Selected(h.m) = Selected(at)
    BY <1>7, <2>3, SelectedSame
  <2>6. ToChecks(m, h)
    BY <2>1, <2>2, <2>3, <2>4, <2>5 DEF ToChecks
  <2> QED
    BY <1>1, <1>5, <2>2, <2>3, <2>6 DEF Navigated, h
<1>11. CASE target = "mapping" /\ Selected(at) # NoDevice
  <2>1. h = OpenMapping(shown, Selected(at)) /\ Selected(at) \in Devices
    BY <1>3, <1>7, <1>11 DEF MaybeDevice
  <2>2. /\ h.m \in ModelType /\ Alike(shown, h.m, {"mapping"})
        /\ EditorOpened(h.m.mapping, Selected(at))
        /\ \/ h.m.mapping.unavailable /\ h.issue = <<>>
           \/ ~h.m.mapping.unavailable /\ ~shown.lock.on /\ h.issue = <<ReadOf(h.m.mapping)>>
    BY <1>4, <2>1, OpenMappingFacts
  <2> HIDE DEF shown
  <2>3. /\ h.m.cursor = shown.cursor /\ h.m.listed = shown.listed /\ h.m.screen = "mapping"
        /\ h.m.lock = shown.lock
    BY <1>4, <1>11, <2>2 DEF Alike, Fields
  <2>4. Alike(m, h.m, {"cursor", "screen", "mapping"})
    BY <1>5, <2>2 DEF Alike, Fields
  <2>5. Selected(h.m) = Selected(at)
    BY <1>7, <2>3, SelectedSame
  <2>6. ToEditor(m, h)
    BY <2>1, <2>2, <2>3, <2>4, <2>5 DEF ToEditor
  <2> QED
    BY <1>1, <1>5, <2>2, <2>3, <2>6 DEF Navigated, h
<1>12. CASE target \notin {"settings", "diagnostics", "mapping"} /\ Selected(at) # NoDevice
  <2>1. h = Just(shown)
    BY <1>3, <1>12
  <2> HIDE DEF shown
  <2>2. h.m = shown /\ h.issue = <<>>
    BY <2>1, Returned
  <2>3. Elsewhere(m, h)
    BY <1>4, <1>5, <1>12, <2>2 DEF Elsewhere
  <2> QED
    BY <1>1, <1>4, <1>5, <1>12, <2>2, <2>3 DEF Navigated, h
<1> QED
    BY <1>8, <1>9, <1>10, <1>11, <1>12

-----------------------------------------------------------------------------
(* Answers. *)

LEMMA RoutedFacts ==
    ASSUME NEW m \in ModelType
    PROVE  LET r == Routed(m)
           IN /\ r \in ModelType
              /\ \/ r = m /\ (m.lock.on => m.screen = "recovery")
                 \/ /\ m.lock.on /\ m.screen # "recovery"
                    /\ Alike(m, r, {"screen", "prev"}) /\ r.screen = "recovery" /\ r.prev = m.screen
<1>1. CASE m.lock.on /\ m.screen # "recovery"
  <2> DEFINE n == [m EXCEPT !.prev = m.screen, !.screen = "recovery"]
  <2>1. Routed(m) = n
    BY <1>1 DEF Routed
  <2>2. m.screen \in Screens /\ "recovery" \in Screens
    BY DEF ModelType, Screens
  <2>3. n \in ModelType /\ Alike(m, n, {"screen", "prev"}) /\ n.screen = "recovery" /\ n.prev = m.screen
    BY <2>2 DEF ModelType, Alike, Fields
  <2> QED
    BY <1>1, <2>1, <2>3
<1>2. CASE ~(m.lock.on /\ m.screen # "recovery")
    BY <1>2 DEF Routed
<1> QED
    BY <1>1, <1>2

\* Only what is listed of a model's editor changes.
SameBut(p, q, changed) ==
    \A f \in {"device", "keyboard", "loading", "failed", "applying", "unavailable", "kb", "pad"} \ changed :
        q[f] = p[f]

LEMMA LoadedFacts ==
    ASSUME NEW m \in ModelType, NEW c \in CommandType
    PROVE  LET h == Loaded(m, c)
               q == h.m.mapping
           IN /\ h.m \in ModelType /\ Alike(m, h.m, {"mapping"}) /\ h.issue = <<>>
              /\ SameBut(m.mapping, q, {"loading", "failed", "kb", "pad"})
              /\ ~q.loading /\ q.failed = (c.out = "error")
              /\ c.out = "error" => q.kb = m.mapping.kb /\ q.pad = m.mapping.pad
              /\ c.out # "error" =>
                   IF c.kind = "keyboardRead"
                   THEN q.kb = [loaded |-> c.value, draft |-> c.value] /\ q.pad = m.mapping.pad
                   ELSE q.pad = [loaded |-> c.value, draft |-> c.value] /\ q.kb = m.mapping.kb
<1> DEFINE p == m.mapping
           failed == c.out = "error"
           answered == [p EXCEPT !.loading = FALSE, !.failed = failed]
           read == [loaded |-> c.value, draft |-> c.value]
           q == IF c.out = "error" THEN answered
                ELSE IF c.kind = "keyboardRead" THEN [answered EXCEPT !.kb = read]
                ELSE [answered EXCEPT !.pad = read]
           n == [m EXCEPT !.mapping = q]
<1>1. Loaded(m, c) = Just(n)
    BY DEF Loaded
<1>2. p \in MappingType /\ failed \in BOOLEAN
    BY DEF ModelType
<1>3. read \in [loaded : 0 .. 2, draft : 0 .. 2]
    BY DEF CommandType
<1> HIDE DEF p, failed, read
<1>4. /\ answered \in MappingType /\ SameBut(p, answered, {"loading", "failed"})
      /\ ~answered.loading /\ answered.failed = failed
    BY <1>2 DEF MappingType, SameBut
<1> HIDE DEF answered
<1>5. /\ q \in MappingType /\ SameBut(answered, q, {"kb", "pad"})
      /\ c.out = "error" => q = answered
      /\ c.out # "error" /\ c.kind = "keyboardRead" => q.kb = read /\ q.pad = answered.pad
      /\ c.out # "error" /\ c.kind # "keyboardRead" => q.pad = read /\ q.kb = answered.kb
  <2>1. CASE c.out = "error"
    BY <1>4, <2>1 DEF MappingType, SameBut
  <2>2. CASE c.out # "error" /\ c.kind = "keyboardRead"
    BY <1>3, <1>4, <2>2 DEF MappingType, SameBut
  <2>3. CASE c.out # "error" /\ c.kind # "keyboardRead"
    BY <1>3, <1>4, <2>3 DEF MappingType, SameBut
  <2> QED
    BY <2>1, <2>2, <2>3
<1> HIDE DEF q
<1>6. n \in ModelType /\ Alike(m, n, {"mapping"}) /\ n.mapping = q
    BY <1>5, WithMapping
<1> HIDE DEF n
<1>7. Loaded(m, c).m = n /\ Loaded(m, c).issue = <<>>
    BY <1>1, Returned
<1>8. SameBut(p, q, {"loading", "failed", "kb", "pad"}) /\ ~q.loading /\ q.failed = failed
      /\ (c.out = "error" => q.kb = p.kb /\ q.pad = p.pad)
      /\ answered.kb = p.kb /\ answered.pad = p.pad
    BY <1>4, <1>5 DEF SameBut
<1> QED
    BY <1>5, <1>6, <1>7, <1>8 DEF p, failed, read

LEMMA WrittenFacts ==
    ASSUME NEW p \in MappingType
    PROVE  LET q == Written(p)
           IN /\ q \in MappingType /\ SameBut(p, q, {"kb", "pad"})
              /\ IF p.keyboard THEN q.pad = p.pad /\ q.kb = [loaded |-> p.kb.draft, draft |-> p.kb.draft]
                 ELSE q.kb = p.kb /\ q.pad = [loaded |-> p.pad.draft, draft |-> p.pad.draft]
<1>1. CASE p.keyboard
  <2> DEFINE e == [p.kb EXCEPT !.loaded = p.kb.draft]
             q == [p EXCEPT !.kb = e]
  <2>1. e \in [loaded : 0 .. 2, draft : 0 .. 2] /\ e = [loaded |-> p.kb.draft, draft |-> p.kb.draft]
    BY DEF MappingType
  <2>2. Written(p) = q
    BY <1>1 DEF Written
  <2> HIDE DEF e
  <2>3. q \in MappingType /\ SameBut(p, q, {"kb", "pad"}) /\ q.kb = e /\ q.pad = p.pad
    BY <2>1 DEF MappingType, SameBut
  <2> QED
    BY <1>1, <2>1, <2>2, <2>3
<1>2. CASE ~p.keyboard
  <2> DEFINE e == [p.pad EXCEPT !.loaded = p.pad.draft]
             q == [p EXCEPT !.pad = e]
  <2>1. e \in [loaded : 0 .. 2, draft : 0 .. 2] /\ e = [loaded |-> p.pad.draft, draft |-> p.pad.draft]
    BY DEF MappingType
  <2>2. Written(p) = q
    BY <1>2 DEF Written
  <2> HIDE DEF e
  <2>3. q \in MappingType /\ SameBut(p, q, {"kb", "pad"}) /\ q.pad = e /\ q.kb = p.kb
    BY <2>1 DEF MappingType, SameBut
  <2> QED
    BY <1>2, <2>1, <2>2, <2>3
<1> QED
    BY <1>1, <1>2

LEMMA AppliedFacts ==
    ASSUME NEW m \in ModelType, NEW c \in CommandType
    PROVE  LET h == Applied(m, c)
               p == m.mapping
               q == h.m.mapping
           IN /\ h.m \in ModelType /\ h.issue = <<>>
              /\ SameBut(p, q, {"applying", "kb", "pad"}) /\ ~q.applying
              /\ c.out = "ok" =>
                   /\ Alike(m, h.m, {"mapping"})
                   /\ IF p.keyboard
                      THEN q.pad = p.pad /\ q.kb = [loaded |-> p.kb.draft, draft |-> p.kb.draft]
                      ELSE q.kb = p.kb /\ q.pad = [loaded |-> p.pad.draft, draft |-> p.pad.draft]
              /\ c.out = "uncertain" =>
                   /\ Alike(m, h.m, {"mapping", "screen", "prev", "lock"})
                   /\ q.kb = p.kb /\ q.pad = p.pad
                   /\ h.m.screen = "recovery" /\ h.m.prev = m.screen
                   /\ h.m.lock = [m.lock EXCEPT !.on = TRUE, !.hasBackup = TRUE,
                                                !.device = c.device, !.saved = c.saved]
              /\ c.out \notin {"ok", "uncertain"} =>
                   Alike(m, h.m, {"mapping"}) /\ q.kb = p.kb /\ q.pad = p.pad
<1> DEFINE p == m.mapping
           answered == [p EXCEPT !.applying = FALSE]
<1>1. p \in MappingType
    BY DEF ModelType
<1> HIDE DEF p
<1>2. answered \in MappingType /\ SameBut(p, answered, {"applying"}) /\ ~answered.applying
    BY <1>1 DEF MappingType, SameBut
<1>3. Applied(m, c) = Just(CASE c.out = "ok" -> [m EXCEPT !.mapping = Written(answered)]
              [] c.out = "uncertain" ->
                   [m EXCEPT !.mapping = answered, !.prev = m.screen, !.screen = "recovery",
                             !.lock.on = TRUE, !.lock.hasBackup = TRUE,
                             !.lock.device = c.device, !.lock.saved = c.saved]
              [] OTHER -> [m EXCEPT !.mapping = answered])
    BY DEF Applied, p
<1> HIDE DEF answered
<1>4. /\ answered.keyboard = p.keyboard /\ answered.kb = p.kb /\ answered.pad = p.pad
    BY <1>2 DEF SameBut
<1>5. CASE c.out = "ok"
  <2> DEFINE q == Written(answered)
             n == [m EXCEPT !.mapping = q]
  <2>1. Applied(m, c) = Just(n)
    BY <1>3, <1>5
  <2>2. /\ q \in MappingType /\ SameBut(answered, q, {"kb", "pad"})
        /\ IF p.keyboard
           THEN q.pad = p.pad /\ q.kb = [loaded |-> p.kb.draft, draft |-> p.kb.draft]
           ELSE q.kb = p.kb /\ q.pad = [loaded |-> p.pad.draft, draft |-> p.pad.draft]
    BY <1>2, <1>4, WrittenFacts
  <2> HIDE DEF q
  <2>3. n \in ModelType /\ Alike(m, n, {"mapping"}) /\ n.mapping = q
    BY <2>2, WithMapping
  <2>4. Applied(m, c).m = n /\ Applied(m, c).issue = <<>>
    BY <2>1, Returned
  <2>5. SameBut(p, q, {"applying", "kb", "pad"}) /\ ~q.applying
    BY <1>2, <2>2 DEF SameBut
  <2> HIDE DEF n
  <2> QED
    BY <1>5, <2>2, <2>3, <2>4, <2>5 DEF p
<1>6. CASE c.out = "uncertain"
  <2> DEFINE n == [m EXCEPT !.mapping = answered, !.prev = m.screen, !.screen = "recovery",
                            !.lock.on = TRUE, !.lock.hasBackup = TRUE,
                            !.lock.device = c.device, !.lock.saved = c.saved]
             x == [m.lock EXCEPT !.on = TRUE, !.hasBackup = TRUE, !.device = c.device, !.saved = c.saved]
  <2>1. Applied(m, c) = Just(n)
    BY <1>3, <1>6
  <2>2. x \in [on : BOOLEAN, hasBackup : BOOLEAN, device : MaybeDevice, saved : 0 .. 2, restored : BOOLEAN]
    BY DEF ModelType, CommandType
  <2>3. n = [m EXCEPT !.mapping = answered, !.prev = m.screen, !.screen = "recovery", !.lock = x]
    BY DEF ModelType
  <2>4. m.screen \in Screens /\ "recovery" \in Screens
    BY DEF ModelType, Screens
  <2> HIDE DEF n, x
  <2>5. /\ n \in ModelType /\ Alike(m, n, {"mapping", "screen", "prev", "lock"}) /\ n.mapping = answered
        /\ n.screen = "recovery" /\ n.prev = m.screen /\ n.lock = x
    BY <1>2, <2>2, <2>3, <2>4 DEF ModelType, Alike, Fields
  <2>6. Applied(m, c).m = n /\ Applied(m, c).issue = <<>>
    BY <2>1, Returned
  <2>7. SameBut(p, answered, {"applying", "kb", "pad"})
    BY <1>2 DEF SameBut
  <2> QED
    BY <1>2, <1>4, <1>6, <2>5, <2>6, <2>7 DEF p, x
<1>7. CASE c.out \notin {"ok", "uncertain"}
  <2> DEFINE n == [m EXCEPT !.mapping = answered]
  <2>1. Applied(m, c) = Just(n)
    BY <1>3, <1>7
  <2>2. n \in ModelType /\ Alike(m, n, {"mapping"}) /\ n.mapping = answered
    BY <1>2, WithMapping
  <2>3. Applied(m, c).m = n /\ Applied(m, c).issue = <<>>
    BY <2>1, Returned
  <2>4. SameBut(p, answered, {"applying", "kb", "pad"})
    BY <1>2 DEF SameBut
  <2> HIDE DEF n
  <2> QED
    BY <1>2, <1>4, <1>7, <2>2, <2>3, <2>4 DEF p
<1> QED
    BY <1>5, <1>6, <1>7

LEMMA ErasedFacts ==
    ASSUME NEW m \in ModelType, NEW c \in CommandType
    PROVE  LET h == Erased(m, c)
               p == m.mapping
               q == h.m.mapping
           IN /\ h.m \in ModelType /\ Alike(m, h.m, {"mapping"})
              /\ SameBut(p, q, {"applying", "loading"}) /\ ~q.applying
              /\ c.out = "error" => h.issue = <<>> /\ q.loading = p.loading
              /\ c.out # "error" =>
                   h.issue = <<Command("keyboardRead", p.device, Unread, NoDevice)>> /\ q.loading
<1> DEFINE p == m.mapping
           answered == [p EXCEPT !.applying = FALSE]
           awaiting == [answered EXCEPT !.loading = TRUE]
<1>1. p \in MappingType
    BY DEF ModelType
<1>2. Erased(m, c) = IF c.out = "error" THEN Just([m EXCEPT !.mapping = answered])
       ELSE Issuing([m EXCEPT !.mapping = awaiting],
                    Command("keyboardRead", p.device, Unread, NoDevice))
    BY DEF Erased
<1> HIDE DEF p
<1>3. answered \in MappingType /\ SameBut(p, answered, {"applying"}) /\ ~answered.applying
    BY <1>1 DEF MappingType, SameBut
<1> HIDE DEF answered
<1>4. awaiting \in MappingType /\ SameBut(answered, awaiting, {"loading"}) /\ awaiting.loading
    BY <1>3 DEF MappingType, SameBut
<1> HIDE DEF awaiting
<1>5. /\ SameBut(p, answered, {"applying", "loading"}) /\ SameBut(p, awaiting, {"applying", "loading"})
      /\ answered.loading = p.loading /\ ~awaiting.applying
    BY <1>3, <1>4 DEF SameBut
<1>6. CASE c.out = "error"
  <2> DEFINE n == [m EXCEPT !.mapping = answered]
  <2>1. Erased(m, c) = Just(n)
    BY <1>2, <1>6
  <2>2. n \in ModelType /\ Alike(m, n, {"mapping"}) /\ n.mapping = answered
    BY <1>3, WithMapping
  <2>3. Erased(m, c).m = n /\ Erased(m, c).issue = <<>>
    BY <2>1, Returned
  <2> HIDE DEF n
  <2> QED
    BY <1>3, <1>5, <1>6, <2>2, <2>3 DEF p
<1>7. CASE c.out # "error"
  <2> DEFINE n == [m EXCEPT !.mapping = awaiting]
             x == Command("keyboardRead", p.device, Unread, NoDevice)
  <2>1. Erased(m, c) = Issuing(n, x)
    BY <1>2, <1>7
  <2>2. n \in ModelType /\ Alike(m, n, {"mapping"}) /\ n.mapping = awaiting
    BY <1>4, WithMapping
  <2> HIDE DEF n, x
  <2>3. Erased(m, c).m = n /\ Erased(m, c).issue = <<x>>
    BY <2>1, Returned
  <2> QED
    BY <1>4, <1>5, <1>7, <2>2, <2>3 DEF p, x
<1> QED
    BY <1>6, <1>7

LEMMA DiagnosedFacts ==
    ASSUME NEW m \in ModelType, NEW c \in CommandType
    PROVE  LET h == Diagnosed(m, c)
           IN /\ h.m \in ModelType /\ Alike(m, h.m, {"diag"}) /\ h.issue = <<>>
              /\ h.m.diag.device = m.diag.device /\ h.m.diag.result = c.device
<1> DEFINE failed == c.out = "gone"
           x == [m.diag EXCEPT !.loading = FALSE, !.failed = failed, !.result = c.device]
           n == [m EXCEPT !.diag = x]
<1>1. failed \in BOOLEAN /\ c.device \in MaybeDevice
    BY DEF CommandType
<1>2. m.diag \in DiagType
    BY DEF ModelType, DiagType
<1> HIDE DEF failed
<1>3. x \in DiagType /\ x.device = m.diag.device /\ x.result = c.device
    BY <1>1, <1>2 DEF DiagType
<1>4. n = [m EXCEPT !.diag.loading = FALSE, !.diag.failed = failed, !.diag.result = c.device]
    BY DEF ModelType
<1>5. Diagnosed(m, c) = Just(n)
    BY <1>4 DEF Diagnosed, failed
<1> HIDE DEF x
<1>6. n \in ModelType /\ Alike(m, n, {"diag"}) /\ n.diag = x
    BY <1>3, WithDiag
<1>7. Diagnosed(m, c).m = n /\ Diagnosed(m, c).issue = <<>>
    BY <1>5, Returned
<1> HIDE DEF n
<1> QED
    BY <1>3, <1>6, <1>7

LEMMA AutoDiagnosedFacts ==
    ASSUME NEW m \in ModelType, NEW c \in CommandType
    PROVE  LET h == AutoDiagnosed(m, c)
           IN /\ h.m \in ModelType /\ Alike(m, h.m, {"diag"}) /\ h.issue = <<>>
              /\ h.m.diag.device = m.diag.device
              /\ h.m.diag.result \in {m.diag.result, m.diag.device}
<1>1. CASE WaitsFor(m, c.device)
  <2>1. AutoDiagnosed(m, c) = Diagnosed(m, c)
    BY <1>1 DEF AutoDiagnosed, Diagnosed
  <2> QED
    BY <1>1, <2>1, DiagnosedFacts DEF WaitsFor
<1>2. CASE ~WaitsFor(m, c.device)
  <2>1. AutoDiagnosed(m, c).m = m /\ AutoDiagnosed(m, c).issue = <<>>
    BY <1>2, Returned DEF AutoDiagnosed
  <2> QED
    BY <2>1 DEF Alike
<1> QED
    BY <1>1, <1>2

LEMMA HotpluggedFacts ==
    ASSUME NEW m \in ModelType, NEW c \in CommandType
    PROVE  LET h == Hotplugged(m, c)
           IN /\ h.m \in ModelType /\ Alike(m, h.m, {"diag"})
              /\ h.m.diag.device = m.diag.device /\ h.m.diag.result = m.diag.result
              /\ h.issue = <<Command("list", NoDevice, Unread, NoDevice)>>
<1> DEFINE x == [m.diag EXCEPT !.loading = FALSE, !.failed = TRUE]
           n == [m EXCEPT !.diag = x]
           o == IF c.out = "gone" /\ m.screen = "diagnostics" /\ m.diag.device = c.device
                THEN n ELSE m
<1>1. m.diag \in DiagType
    BY DEF ModelType, DiagType
<1>2. x \in DiagType /\ x.device = m.diag.device /\ x.result = m.diag.result
    BY <1>1 DEF DiagType
<1>3. n = [m EXCEPT !.diag.loading = FALSE, !.diag.failed = TRUE]
    BY DEF ModelType
<1>4. Hotplugged(m, c) = Issuing(o, Command("list", NoDevice, Unread, NoDevice))
    BY <1>3 DEF Hotplugged
<1> HIDE DEF x
<1>5. n \in ModelType /\ Alike(m, n, {"diag"}) /\ n.diag = x
    BY <1>2, WithDiag
<1> HIDE DEF n
<1>6. /\ o \in ModelType /\ Alike(m, o, {"diag"})
      /\ o.diag.device = m.diag.device /\ o.diag.result = m.diag.result
    BY <1>2, <1>5 DEF Alike
<1> HIDE DEF o
<1> QED
    BY <1>4, <1>6, Returned

LEMMA ProbedFacts ==
    ASSUME NEW m \in ModelType, NEW c \in CommandType
    PROVE  LET h == Probed(m, c)
           IN /\ h.m \in ModelType /\ Alike(m, h.m, {"lock"}) /\ h.issue = <<>>
              /\ m.lock.on \/ c.out = "uncertain" => h.m.lock.on
              /\ h.m.lock.hasBackup => h.m.lock = m.lock
              /\ c.out # "uncertain" => h.m.lock = m.lock
              /\ h.m.lock.restored = m.lock.restored
<1> DEFINE x == [m.lock EXCEPT !.on = TRUE, !.hasBackup = FALSE]
           n == [m EXCEPT !.lock = x]
           o == IF c.out = "uncertain" THEN n ELSE m
<1>1. /\ x \in [on : BOOLEAN, hasBackup : BOOLEAN, device : MaybeDevice, saved : 0 .. 2, restored : BOOLEAN]
      /\ x.on /\ ~x.hasBackup /\ x.restored = m.lock.restored
    BY DEF ModelType
<1>2. n = [m EXCEPT !.lock.on = TRUE, !.lock.hasBackup = FALSE]
    BY DEF ModelType
<1>3. Probed(m, c) = Just(o)
    BY <1>2 DEF Probed
<1> HIDE DEF x
<1>4. n \in ModelType /\ Alike(m, n, {"lock"}) /\ n.lock = x
    BY <1>1 DEF ModelType, Alike, Fields
<1> HIDE DEF n
<1>5. /\ o \in ModelType /\ Alike(m, o, {"lock"}) /\ (m.lock.on \/ c.out = "uncertain" => o.lock.on)
      /\ o.lock.hasBackup => o.lock = m.lock
      /\ c.out # "uncertain" => o.lock = m.lock
      /\ o.lock.restored = m.lock.restored
    BY <1>1, <1>4 DEF Alike
<1> HIDE DEF o
<1> QED
    BY <1>3, <1>5, Returned

LEMMA RestoredFacts ==
    ASSUME NEW m \in ModelType, NEW c \in CommandType
    PROVE  LET h == Restored(m, c)
           IN /\ h.m \in ModelType /\ Alike(m, h.m, {"lock"}) /\ h.issue = <<>>
              /\ h.m.lock.on = m.lock.on /\ h.m.lock.hasBackup = m.lock.hasBackup
              /\ h.m.lock.device = m.lock.device /\ h.m.lock.saved = m.lock.saved
              /\ h.m.lock.restored <=> c.out = "ok"
<1> DEFINE ok == c.out = "ok"
           x == [m.lock EXCEPT !.restored = ok]
           n == [m EXCEPT !.lock = x]
<1>1. x \in [on : BOOLEAN, hasBackup : BOOLEAN, device : MaybeDevice, saved : 0 .. 2, restored : BOOLEAN]
  <2>1. ok \in BOOLEAN
    OBVIOUS
  <2> HIDE DEF ok
  <2> QED
    BY <2>1 DEF ModelType
<1>6. /\ x.on = m.lock.on /\ x.hasBackup = m.lock.hasBackup
      /\ x.device = m.lock.device /\ x.saved = m.lock.saved /\ x.restored = ok
  <2> HIDE DEF ok
  <2> QED
    BY DEF ModelType
<1>2. n = [m EXCEPT !.lock.restored = ok]
    BY DEF ModelType
<1>3. Restored(m, c) = Just(n)
    BY <1>2 DEF Restored
<1> HIDE DEF x
<1>4. n \in ModelType /\ Alike(m, n, {"lock"}) /\ n.lock = x
    BY <1>1 DEF ModelType, Alike, Fields
<1> HIDE DEF n
<1>5. Restored(m, c).m = n /\ Restored(m, c).issue = <<>>
    BY <1>3, Returned
<1> HIDE DEF n
<1> QED
    BY <1>4, <1>5, <1>6

FwType == [device : MaybeDevice, stage : Stages, plan : MaybeDevice \X MaybeDevice]

LEMMA WithFirmware ==
    ASSUME NEW m \in ModelType, NEW x \in FwType, NEW n, n = [m EXCEPT !.fw = x]
    PROVE  n \in ModelType /\ Alike(m, n, {"fw"}) /\ n.fw = x
BY DEF ModelType, FwType, Alike, Fields

LEMMA Staged ==
    ASSUME NEW m \in ModelType, NEW stage \in Stages
    PROVE  LET n == [m EXCEPT !.fw.stage = stage]
           IN /\ n \in ModelType /\ Alike(m, n, {"fw"}) /\ n.fw.device = m.fw.device
              /\ n.fw.plan = m.fw.plan
<1> DEFINE x == [m.fw EXCEPT !.stage = stage]
           n == [m EXCEPT !.fw = x]
<1>1. m.fw \in FwType
    BY DEF ModelType, FwType
<1>2. x \in FwType /\ x.device = m.fw.device /\ x.plan = m.fw.plan
    BY <1>1 DEF FwType
<1>3. n = [m EXCEPT !.fw.stage = stage]
    BY DEF ModelType
<1> HIDE DEF x
<1>4. n \in ModelType /\ Alike(m, n, {"fw"}) /\ n.fw = x
    BY <1>2, WithFirmware
<1> HIDE DEF n
<1> QED
    BY <1>2, <1>3, <1>4

LEMMA FirmwareAnsweredFacts ==
    ASSUME NEW m \in ModelType, NEW c \in CommandType, c.kind \in FirmwareKinds,
           WellIssued(c), c.out # "pending"
    PROVE  LET h == FirmwareAnswered(m, c)
           IN /\ h.m \in ModelType /\ Alike(m, h.m, {"fw"}) /\ h.m.fw.device = m.fw.device
              /\ \/ h.m.fw.plan = m.fw.plan
                 \/ c.kind = "fwPreflight" /\ h.m.fw.plan = <<c.device, c.image>>
              /\ \/ h.issue = <<>>
                 \/ /\ c.kind = "fwDownload" /\ c.out = "ok"
                    /\ h.issue = <<Command("fwPreflight", m.fw.device, Unread, c.image)>>
                 \/ \E kind \in {"fwConfirm", "fwListen"} :
                       h.issue = <<Command(kind, m.fw.plan[1], Unread, m.fw.plan[2])>>
<1> DEFINE h == FirmwareAnswered(m, c)
           staged(s) == [m EXCEPT !.fw.stage = s]
<1>1. ASSUME NEW s \in Stages
      PROVE  /\ staged(s) \in ModelType /\ Alike(m, staged(s), {"fw"})
             /\ staged(s).fw.device = m.fw.device /\ staged(s).fw.plan = m.fw.plan
    BY Staged
<1>2. m \in ModelType /\ Alike(m, m, {"fw"})
    BY DEF Alike
<1>3. c.kind = "fwListen" => c.out = "ok"
    BY DEF WellIssued, Outcomes, Checks, Applies
<1>4. c.kind # "fwPreflight" => c.out \in {"ok", "error"}
    BY DEF WellIssued, Outcomes, Checks, Applies, FirmwareKinds
<1>5. c.kind = "fwPreflight" => c.out \in {"ok", "error", "denied"}
    BY DEF WellIssued, Outcomes, Checks, Applies
<1>6. h = CASE c.out = "error" /\ c.kind # "fwCancel" -> Just(staged("error"))
         [] c.kind = "fwDownload" /\ c.out = "ok" ->
              Issuing(staged("preflighting"), Command("fwPreflight", m.fw.device, Unread, c.image))
         [] c.kind = "fwPreflight" /\ c.out = "denied" -> Just(staged("denied"))
         [] c.kind = "fwPreflight" /\ c.out = "ok" ->
              Just([staged("ready") EXCEPT !.fw.plan = <<c.device, c.image>>])
         [] c.kind = "fwStart" /\ c.out = "ok" ->
              Issuing(m, Command("fwConfirm", m.fw.plan[1], Unread, m.fw.plan[2]))
         [] c.kind = "fwConfirm" /\ c.out = "ok" ->
              Issuing(staged("running"), Command("fwListen", m.fw.plan[1], Unread, m.fw.plan[2]))
         [] c.kind = "fwListen" /\ c.out = "ok" -> Just(staged("done"))
         [] c.kind = "fwCancel" -> Just(IF c.out = "ok" THEN staged("done") ELSE m)
    BY DEF FirmwareAnswered
<1>7. {"preflighting", "denied", "ready", "running", "done", "error"} \subseteq Stages
    BY DEF Stages
<1> HIDE DEF h, staged
<1>8. CASE c.out = "error" /\ c.kind # "fwCancel"
  <2>1. h = Just(staged("error"))
    BY <1>6, <1>8
  <2>2. h.m = staged("error") /\ h.issue = <<>>
    BY <2>1, Returned
  <2> QED
    BY <1>1, <1>7, <2>2 DEF h
<1>9. CASE c.kind = "fwDownload" /\ c.out = "ok"
  <2>1. h = Issuing(staged("preflighting"), Command("fwPreflight", m.fw.device, Unread, c.image))
    BY <1>6, <1>9
  <2>2. h.m = staged("preflighting") /\ h.issue = <<Command("fwPreflight", m.fw.device, Unread, c.image)>>
    BY <2>1, Returned
  <2> QED
    BY <1>1, <1>7, <1>9, <2>2 DEF h
<1>10. CASE c.kind = "fwPreflight" /\ c.out = "denied"
  <2>1. h = Just(staged("denied"))
    BY <1>6, <1>10
  <2>2. h.m = staged("denied") /\ h.issue = <<>>
    BY <2>1, Returned
  <2> QED
    BY <1>1, <1>7, <2>2 DEF h
<1>11. CASE c.kind = "fwPreflight" /\ c.out = "ok"
  <2> DEFINE n == staged("ready")
             x == [n.fw EXCEPT !.plan = <<c.device, c.image>>]
             o == [n EXCEPT !.fw = x]
  <2>1. /\ n \in ModelType /\ Alike(m, n, {"fw"}) /\ n.fw.device = m.fw.device
    BY <1>1, <1>7
  <2>2. n.fw \in FwType /\ <<c.device, c.image>> \in MaybeDevice \X MaybeDevice
    BY <2>1 DEF ModelType, FwType, CommandType
  <2>3. h = Just([n EXCEPT !.fw.plan = <<c.device, c.image>>])
    BY <1>6, <1>11
  <2> HIDE DEF n
  <2>4. o = [n EXCEPT !.fw.plan = <<c.device, c.image>>]
    BY <2>1 DEF ModelType
  <2>5. x \in FwType /\ x.device = m.fw.device /\ x.plan = <<c.device, c.image>>
    BY <2>1, <2>2 DEF FwType
  <2> HIDE DEF x
  <2>6. o \in ModelType /\ Alike(n, o, {"fw"}) /\ o.fw = x
    BY <2>1, <2>5, WithFirmware
  <2> HIDE DEF o
  <2>7. h.m = o /\ h.issue = <<>>
    BY <2>3, <2>4, Returned
  <2>8. Alike(m, o, {"fw"})
    BY <2>1, <2>6 DEF Alike
  <2> QED
    BY <1>11, <2>5, <2>6, <2>7, <2>8 DEF h
<1>12. CASE c.kind = "fwStart" /\ c.out = "ok"
  <2>1. h = Issuing(m, Command("fwConfirm", m.fw.plan[1], Unread, m.fw.plan[2]))
    BY <1>6, <1>12
  <2>2. h.m = m /\ h.issue = <<Command("fwConfirm", m.fw.plan[1], Unread, m.fw.plan[2])>>
    BY <2>1, Returned
  <2> QED
    BY <1>2, <1>12, <2>2 DEF h
<1>13. CASE c.kind = "fwConfirm" /\ c.out = "ok"
  <2>1. h = Issuing(staged("running"), Command("fwListen", m.fw.plan[1], Unread, m.fw.plan[2]))
    BY <1>6, <1>13
  <2>2. h.m = staged("running") /\ h.issue = <<Command("fwListen", m.fw.plan[1], Unread, m.fw.plan[2])>>
    BY <2>1, Returned
  <2> QED
    BY <1>1, <1>7, <1>13, <2>2 DEF h
<1>14. CASE c.kind = "fwListen" /\ c.out = "ok"
  <2>1. h = Just(staged("done"))
    BY <1>6, <1>14
  <2>2. h.m = staged("done") /\ h.issue = <<>>
    BY <2>1, Returned
  <2> QED
    BY <1>1, <1>7, <2>2 DEF h
<1>15. CASE c.kind = "fwCancel"
  <2> DEFINE o == IF c.out = "ok" THEN staged("done") ELSE m
  <2>1. h = Just(o)
    BY <1>6, <1>15
  <2>2. h.m = o /\ h.issue = <<>>
    BY <2>1, Returned
  <2>3. /\ o \in ModelType /\ Alike(m, o, {"fw"})
        /\ o.fw.device = m.fw.device /\ o.fw.plan = m.fw.plan
    BY <1>1, <1>2, <1>7
  <2> HIDE DEF o
  <2> QED
    BY <2>2, <2>3 DEF h
<1> QED
    BY <1>3, <1>4, <1>5, <1>8, <1>9, <1>10, <1>11, <1>12, <1>13, <1>14, <1>15 DEF FirmwareKinds

\* A list in which the selected device is kept, or lost.
LEMMA DevicesLoadedFacts ==
    ASSUME NEW m \in ModelType, m.cursor \in DOMAIN m.listed \union {1}, NEW c \in CommandType
    PROVE  LET h == DevicesLoaded(m, c)
           IN /\ h.m \in ModelType /\ Alike(m, h.m, {"listed", "cursor", "screen", "mapping"})
              /\ h.m.cursor \in DOMAIN h.m.listed \union {1}
              /\ Issuable(h.issue) /\ \A j \in DOMAIN h.issue : h.issue[j].kind = "autodiag"
              /\ \/ h.m.screen = m.screen /\ h.m.mapping = m.mapping
                 \/ /\ h.m.screen = "devices" /\ h.m.mapping = NewMapping
                    /\ m.screen \in Tabs \ {"devices"}
              /\ Selected(m) # NoDevice /\ Selected(h.m) # Selected(m) =>
                    h.m.screen \notin Tabs \ {"devices"}
<1> DEFINE selected == Selected(m)
           kept == selected \in c.found
           rows == Arranged[c.found]
           due == Arranged[Undiagnosed(c.found)]
           lost == selected # NoDevice /\ ~kept /\ m.screen \in Tabs \ {"devices"}
           next == IF kept THEN CHOOSE i \in DOMAIN rows : rows[i] = selected
                   ELSE IF selected = NoDevice THEN 1 ELSE ClampCursor(m.cursor, rows)
           listing == [m EXCEPT !.listed = rows, !.cursor = next]
           fallen == [listing EXCEPT !.screen = "devices", !.mapping = NewMapping]
           n == IF lost THEN fallen ELSE listing
           issue == [i \in DOMAIN due |-> Command("autodiag", due[i], Unread, NoDevice)]
<1>1. DevicesLoaded(m, c) = [m |-> n, issue |-> issue]
    BY DEF DevicesLoaded, ModelType
<1>2. rows \in Seq(Devices) /\ Range(rows) = c.found
  <2>1. c.found \in SUBSET Devices
    BY DEF CommandType
  <2> QED
    BY <2>1, ShellAssumption
<1>3. due \in Seq(Devices)
  <2>1. Undiagnosed(c.found) \in SUBSET Devices
    BY DEF CommandType, Undiagnosed
  <2> QED
    BY <2>1, ShellAssumption
<1>4. m.cursor \in Nat \ {0}
    BY DEF ModelType
<1> HIDE DEF rows, due
<1>5. kept => next \in DOMAIN rows /\ rows[next] = selected
  <2> SUFFICES ASSUME kept
               PROVE  \E i \in DOMAIN rows : rows[i] = selected
    OBVIOUS
  <2> QED
    BY <1>2 DEF Range
<1>6. next \in Nat \ {0} /\ next \in DOMAIN rows \union {1}
  <2>1. CASE kept
    BY <1>2, <1>5, <2>1
  <2>2. CASE ~kept /\ selected = NoDevice
    BY <2>2
  <2>3. CASE ~kept /\ selected # NoDevice
    BY <1>2, <1>4, <2>3, ClampFacts
  <2> QED
    BY <2>1, <2>2, <2>3
<1> HIDE DEF next, selected
<1>7. /\ listing \in ModelType /\ Alike(m, listing, {"listed", "cursor"})
      /\ listing.listed = rows /\ listing.cursor = next
    BY <1>2, <1>6 DEF ModelType, Alike, Fields
<1> HIDE DEF listing
<1>8. /\ fallen \in ModelType /\ Alike(listing, fallen, {"screen", "mapping"})
      /\ fallen.screen = "devices" /\ fallen.mapping = NewMapping
  <2>1. NewMapping \in MappingType
    BY DEF NewMapping, MappingType, Fresh, Unread, MaybeDevice
  <2> QED
    BY <1>7, <2>1 DEF ModelType, Alike, Fields, Screens, Tabs
<1> HIDE DEF fallen
<1>9. /\ n \in ModelType /\ Alike(m, n, {"listed", "cursor", "screen", "mapping"})
      /\ n.listed = rows /\ n.cursor = next
      /\ lost => n.screen = "devices" /\ n.mapping = NewMapping
      /\ ~lost => n.screen = m.screen /\ n.mapping = m.mapping
    BY <1>7, <1>8 DEF Alike, Fields
<1> HIDE DEF n
<1>10. Issuable(issue) /\ \A j \in DOMAIN issue : issue[j].kind = "autodiag"
  <2>1. \A j \in DOMAIN issue : /\ issue[j] \in CommandType /\ WellIssued(issue[j])
                                /\ issue[j].kind = "autodiag"
    <3> SUFFICES ASSUME NEW j \in DOMAIN issue
                 PROVE  /\ issue[j] \in CommandType /\ WellIssued(issue[j])
                        /\ issue[j].kind = "autodiag"
      OBVIOUS
    <3> DEFINE x == Command("autodiag", due[j], Unread, NoDevice)
    <3>1. due[j] \in Devices /\ issue[j] = x
      BY <1>3
    <3>2. Issuable(<<x>>)
      BY <3>1, CommandIssuable DEF CommandKinds, MaybeDevice, Applies, Unread
    <3>3. x.kind = "autodiag"
      BY CommandFields
    <3> HIDE DEF x
    <3>4. x \in CommandType /\ WellIssued(x)
      BY <3>2 DEF Issuable
    <3> QED
      BY <3>1, <3>3, <3>4
  <2>2. DOMAIN issue = 1 .. Len(due) /\ Len(due) \in Nat
    BY <1>3
  <2> HIDE DEF issue
  <2>3. issue \in Seq(CommandType)
    <3>1. issue = [i \in 1 .. Len(due) |-> issue[i]]
      BY <2>2 DEF issue
    <3> QED
      BY <2>1, <2>2, <3>1
  <2> QED
    BY <2>1, <2>3 DEF Issuable
<1> HIDE DEF issue
<1>11. kept => Selected(n) = selected
  <2> SUFFICES ASSUME kept
               PROVE  Selected(n) = selected
    OBVIOUS
  <2>1. rows # <<>>
    BY <1>2, <1>5
  <2> QED
    BY <1>5, <1>9, <2>1 DEF Selected
<1>12. DevicesLoaded(m, c).m = n /\ DevicesLoaded(m, c).issue = issue
    BY <1>1
<1>13. Selected(m) = selected
    BY DEF selected
<1>14. lost => m.screen \in Tabs \ {"devices"}
    OBVIOUS
<1>15. selected # NoDevice /\ ~kept => n.screen \notin Tabs \ {"devices"}
    BY <1>9
<1> HIDE DEF lost, kept
<1> QED
    BY <1>6, <1>9, <1>10, <1>11, <1>12, <1>13, <1>14, <1>15

LEMMA WithScreen ==
    ASSUME NEW m \in ModelType, NEW s \in Screens, NEW n, n = [m EXCEPT !.screen = s]
    PROVE  n \in ModelType /\ Alike(m, n, {"screen"}) /\ n.screen = s
BY DEF ModelType, Alike, Fields

LEMMA WithModal ==
    ASSUME NEW m \in ModelType, NEW x \in ModalType, NEW n, n = [m EXCEPT !.modal = x]
    PROVE  n \in ModelType /\ Alike(m, n, {"modal"}) /\ n.modal = x
BY DEF ModelType, Alike, Fields

LEMMA Acting ==
    ASSUME NEW m \in ModelType, NEW n, n = [m EXCEPT !.mapping.applying = TRUE]
    PROVE  /\ n \in ModelType /\ Alike(m, n, {"mapping"})
           /\ SameBut(m.mapping, n.mapping, {"applying"}) /\ n.mapping.applying
<1> DEFINE x == [m.mapping EXCEPT !.applying = TRUE]
<1>1. m.mapping \in MappingType
    BY DEF ModelType
<1>2. n = [m EXCEPT !.mapping = x]
    BY DEF ModelType
<1>3. x \in MappingType /\ SameBut(m.mapping, x, {"applying"}) /\ x.applying
    BY <1>1 DEF MappingType, SameBut
<1> HIDE DEF x
<1>4. n \in ModelType /\ Alike(m, n, {"mapping"}) /\ n.mapping = x
    BY <1>2, <1>3, WithMapping
<1> QED
    BY <1>3, <1>4

(***************************************************************************)
(* What a handler of the user's may return.                                *)
(***************************************************************************)

Editable(m) == m.screen = "mapping" /\ ~m.mapping.unavailable /\ ~m.mapping.loading /\ ~m.mapping.failed

\* A dialog opens, or closes.
AsksFirst(m, h) ==
    /\ Alike(m, h.m, {"modal"}) /\ h.issue = <<>>
    /\ h.m.modal.kind = "discard" => h.m.modal.action # "none"
    /\ h.m.modal.kind = "erase" => Editable(m) /\ m.mapping.keyboard /\ ~m.mapping.applying /\ ~m.lock.on
    /\ h.m.modal.kind # "none" => ~m.lock.on

\* Settings is left for the tab it covered, or a tab for the devices.
Leaves(m, h) ==
    /\ Alike(m, h.m, {"screen"}) /\ h.issue = <<>>
    /\ ~m.lock.on /\ h.m.screen = IF m.screen = "settings" THEN m.prev ELSE "devices"

Toggles(m, h) == Alike(m, h.m, {"advanced"}) /\ h.issue = <<>>

TakesOver(m, h) ==
    /\ m.lock.on /\ m.screen # "recovery" /\ m.modal.kind = "none"
    /\ Alike(m, h.m, {"screen", "prev"}) /\ h.m.screen = "recovery" /\ h.m.prev = m.screen
    /\ h.issue = <<>>

\* A write of the draft begins.
Writes(m, h) ==
    /\ Editable(m) /\ Dirty(m.mapping) /\ ~m.mapping.applying /\ ~m.lock.on /\ m.modal.kind = "none"
    /\ Alike(m, h.m, {"mapping"}) /\ SameBut(m.mapping, h.m.mapping, {"applying"})
    /\ h.m.mapping.applying
    /\ h.issue = <<Command(IF m.mapping.keyboard THEN "keyboardApply" ELSE "padApply",
                           m.mapping.device, Editor(m.mapping).draft, NoDevice)>>

Erases(m, h) ==
    /\ m.modal.kind = "erase"
    /\ Alike(m, h.m, {"mapping", "modal"}) /\ SameBut(m.mapping, h.m.mapping, {"applying"})
    /\ h.m.mapping.applying /\ h.m.modal.kind = "none"
    /\ h.issue = <<Command("keyboardErase", m.mapping.device, Unread, NoDevice)>>

Begins(m, h) ==
    /\ m.modal.kind # "none" \/ ~m.lock.on
    /\ Alike(m, h.m, {"modal", "acknowledged", "screen", "fw"})
    /\ h.m.modal.kind = "none" /\ h.m.screen = "firmware" /\ h.m.fw.plan = NoPlan
    /\ h.issue = <<Command("fwDownload", h.m.fw.device, Unread, NoDevice)>>

Probes(m, h) ==
    /\ m.modal.kind = "probe" \/ ~m.lock.on
    /\ Alike(m, h.m, {"modal", "acknowledged"}) /\ h.m.modal.kind = "none"
    /\ \E d \in MaybeDevice : h.issue = <<Command("probe", d, Unread, NoDevice)>>

Rechecks(m, h) ==
    /\ ~m.lock.on /\ m.screen = "diagnostics" /\ Alike(m, h.m, {"diag"})
    /\ h.m.diag.device = m.diag.device /\ h.m.diag.result = m.diag.result
    /\ h.issue = <<Command("rediag", m.diag.device, Unread, NoDevice)>>

Transfers(m, h) ==
    /\ ~m.lock.on /\ Alike(m, h.m, {"fw"}) /\ h.m.fw.device = m.fw.device /\ h.m.fw.plan = m.fw.plan
    /\ \E kind \in {"fwStart", "fwCancel"} :
          h.issue = <<Command(kind, m.fw.plan[1], Unread, m.fw.plan[2])>>

Lists(m, h) == ~m.lock.on /\ h.m = m /\ h.issue = <<Command("list", NoDevice, Unread, NoDevice)>>

PutsBack(m, h) ==
    /\ m.lock.on /\ m.screen = "recovery" /\ m.modal.kind = "none" /\ m.lock.hasBackup
    /\ h.m = m /\ h.issue = <<Command("restore", m.lock.device, m.lock.saved, NoDevice)>>

\* The draft is given up, and then a navigation.
GivenUp(m) == [[m EXCEPT !.modal = NoModal] EXCEPT !.mapping = NewMapping]
GivesUp(m, h) == m.modal.kind = "discard" /\ Navigated(GivenUp(m), h)
Goes(m, h) ==
    /\ ~m.lock.on /\ m.modal.kind = "none" /\ m.screen \in Tabs /\ ~InSubView(m) /\ Navigated(m, h)
    /\ h.m.screen = "settings" => h.m.cursor = m.cursor

LEMMA GivenUpFacts ==
    ASSUME NEW m \in ModelType, WellFormed(m)
    PROVE  /\ GivenUp(m) \in ModelType /\ WellFormed(GivenUp(m)) /\ Alike(m, GivenUp(m), {"modal", "mapping"})
           /\ GivenUp(m).modal = NoModal /\ GivenUp(m).mapping = NewMapping
<1> DEFINE x == [m EXCEPT !.modal = NoModal]
           n == [x EXCEPT !.mapping = NewMapping]
<1>1. NoModal \in ModalType
    BY DEF NoModal, ModalType, Screens, Tabs, MaybeDevice
<1>2. NewMapping \in MappingType
    BY DEF NewMapping, MappingType, Fresh, Unread, MaybeDevice
<1>3. x \in ModelType /\ Alike(m, x, {"modal"}) /\ x.modal = NoModal
    BY <1>1, WithModal
<1> HIDE DEF x
<1>4. n \in ModelType /\ Alike(x, n, {"mapping"}) /\ n.mapping = NewMapping
    BY <1>2, <1>3, WithMapping
<1>5. GivenUp(m) = n
    BY DEF GivenUp, x
<1> HIDE DEF n
<1>6. n.modal = NoModal /\ Alike(m, n, {"modal", "mapping"})
    BY <1>3, <1>4 DEF Alike, Fields
<1>7. NeverEmptied(n.mapping.kb) /\ NeverEmptied(n.mapping.pad)
    BY <1>4 DEF NewMapping, Fresh, NeverEmptied
<1>8. n.modal.kind = "none"
    BY <1>6 DEF NoModal
<1>9. WellFormed(n)
    BY <1>6, <1>7, <1>8 DEF WellFormed, Alike, Fields
<1> QED
    BY <1>4, <1>5, <1>6, <1>9

LEMMA NavigateFacts ==
    ASSUME NEW m \in ModelType, WellFormed(m), NEW target \in Screens, NEW i \in Nat \ {0},
           ~m.lock.on, m.modal.kind = "none", m.screen \in Tabs, ~InSubView(m),
           target = "settings" => i = m.cursor
    PROVE  LET h == Navigate(m, target, i)
           IN /\ h.m \in ModelType
              /\ \/ AsksFirst(m, h)
                 \/ Goes(m, h)
<1> DEFINE h == Navigate(m, target, i)
<1>1. CASE m.screen = "mapping" /\ (target # "mapping" \/ i # m.cursor) /\ Dirty(m.mapping)
  <2> DEFINE x == DiscardModal("navigate", target, i)
             n == [m EXCEPT !.modal = x]
  <2>1. h = Just(n)
    BY <1>1 DEF Navigate
  <2>2. x \in ModalType /\ x.kind = "discard" /\ x.action = "navigate"
    BY DEF DiscardModal, ModalType, MaybeDevice
  <2> HIDE DEF x
  <2>3. n \in ModelType /\ Alike(m, n, {"modal"}) /\ n.modal = x
    BY <2>2, WithModal
  <2> HIDE DEF n, h
  <2>4. h.m = n /\ h.issue = <<>>
    BY <2>1, Returned
  <2>5. AsksFirst(m, h)
    BY <2>2, <2>3, <2>4 DEF AsksFirst
  <2> QED
    BY <2>3, <2>4, <2>5 DEF h
<1>2. CASE ~(m.screen = "mapping" /\ (target # "mapping" \/ i # m.cursor) /\ Dirty(m.mapping))
  <2>1. h = NavigateNow(m, target, i)
    BY <1>2 DEF Navigate
  <2>2. /\ h.m \in ModelType /\ Navigated(m, h) /\ (i = m.cursor => h.m.cursor = m.cursor)
        /\ h.m.screen = "settings" => target = "settings"
    BY <2>1, NavigateNowFacts DEF WellFormed
  <2> QED
    BY <2>2 DEF Goes
<1> QED
    BY <1>1, <1>2

LEMMA BeginFacts ==
    ASSUME NEW m \in ModelType, NEW d \in MaybeDevice
    PROVE  LET h == BeginFirmware(m, d)
           IN /\ h.m \in ModelType /\ Alike(m, h.m, {"acknowledged", "screen", "fw"})
              /\ h.m.screen = "firmware" /\ h.m.fw.plan = NoPlan /\ h.m.fw.device = d
              /\ h.issue = <<Command("fwDownload", d, Unread, NoDevice)>>
<1> DEFINE x == [NewFirmware EXCEPT !.device = d]
           n == [m EXCEPT !.acknowledged = TRUE, !.screen = "firmware", !.fw = x]
<1>1. x \in FwType /\ x.device = d /\ x.plan = NoPlan
    BY DEF NewFirmware, FwType, NoPlan, MaybeDevice, Stages
<1>2. BeginFirmware(m, d) = Issuing(n, Command("fwDownload", d, Unread, NoDevice))
    BY DEF BeginFirmware
<1> HIDE DEF x
<1>3. /\ n \in ModelType /\ Alike(m, n, {"acknowledged", "screen", "fw"})
      /\ n.screen = "firmware" /\ n.fw = x
    BY <1>1 DEF ModelType, FwType, Alike, Fields, Screens
<1> HIDE DEF n
<1> QED
    BY <1>1, <1>2, <1>3, Returned

LEMMA BeginProbeFacts ==
    ASSUME NEW m \in ModelType, NEW d \in MaybeDevice
    PROVE  LET h == BeginProbe(m, d)
           IN /\ h.m \in ModelType /\ Alike(m, h.m, {"acknowledged"})
              /\ h.issue = <<Command("probe", d, Unread, NoDevice)>>
<1> DEFINE n == [m EXCEPT !.acknowledged = TRUE]
<1>1. BeginProbe(m, d) = Issuing(n, Command("probe", d, Unread, NoDevice))
    BY DEF BeginProbe
<1>2. n \in ModelType /\ Alike(m, n, {"acknowledged"})
    BY DEF ModelType, Alike, Fields
<1> HIDE DEF n
<1> QED
    BY <1>1, <1>2, Returned

LEMMA ConfirmedFacts ==
    ASSUME NEW m \in ModelType, WellFormed(m), m.modal.kind # "none"
    PROVE  LET h == Confirmed(m)
           IN /\ h.m \in ModelType
              /\ GivesUp(m, h) \/ Erases(m, h) \/ Begins(m, h) \/ Probes(m, h)
<1> DEFINE dialog == m.modal
           closed == [m EXCEPT !.modal = NoModal]
           h == Confirmed(m)
           erasing == [closed EXCEPT !.mapping.applying = TRUE]
<1>1. /\ dialog.kind \in {"discard", "erase", "firmware", "probe"}
      /\ dialog.action \in {"none", "back", "navigate"} /\ dialog.screen \in Screens
      /\ dialog.cursor \in Nat \ {0} /\ dialog.device \in MaybeDevice
      /\ dialog.kind = "discard" => dialog.action \in {"back", "navigate"}
    BY DEF ModelType, ModalType, WellFormed
<1>2. h = CASE dialog.kind = "discard" /\ dialog.action = "back" ->
              Just([GivenUp(m) EXCEPT !.screen = "devices"])
         [] dialog.kind = "discard" /\ dialog.action = "navigate" ->
              NavigateNow(GivenUp(m), dialog.screen, dialog.cursor)
         [] dialog.kind = "erase" ->
              Issuing(erasing,
                      Command("keyboardErase", m.mapping.device, Unread, NoDevice))
         [] dialog.kind = "firmware" -> BeginFirmware(closed, dialog.device)
         [] dialog.kind = "probe" -> BeginProbe(closed, dialog.device)
    BY DEF Confirmed, GivenUp
<1>3. NoModal \in ModalType
    BY DEF NoModal, ModalType, Screens, Tabs, MaybeDevice
<1> HIDE DEF h
<1>4. closed \in ModelType /\ Alike(m, closed, {"modal"}) /\ closed.modal = NoModal
    BY <1>3, WithModal
<1>5. /\ GivenUp(m) \in ModelType /\ WellFormed(GivenUp(m))
    BY GivenUpFacts
<1> HIDE DEF closed
<1>6. CASE dialog.kind = "discard" /\ dialog.action = "back"
  <2> DEFINE n == [GivenUp(m) EXCEPT !.screen = "devices"]
  <2>1. h = Just(n)
    BY <1>2, <1>6
  <2>2. n \in ModelType /\ Alike(GivenUp(m), n, {"screen"}) /\ n.screen = "devices"
    BY <1>5, WithScreen DEF Screens, Tabs
  <2> HIDE DEF n
  <2>3. h.m = n /\ h.issue = <<>>
    BY <2>1, Returned
  <2>4. Elsewhere(GivenUp(m), h) /\ h.m.cursor = GivenUp(m).cursor
    BY <2>2, <2>3 DEF Elsewhere, Alike, Fields
  <2>5. h.m.cursor \in DOMAIN GivenUp(m).listed \union {1}
    BY <1>5, <2>4 DEF WellFormed
  <2> QED
    BY <1>6, <2>2, <2>3, <2>4, <2>5 DEF GivesUp, Navigated, h
<1>7. CASE dialog.kind = "discard" /\ dialog.action = "navigate"
  <2>1. h = NavigateNow(GivenUp(m), dialog.screen, dialog.cursor)
    BY <1>2, <1>7
  <2>2. h.m \in ModelType /\ Navigated(GivenUp(m), h)
    BY <1>1, <1>5, <2>1, NavigateNowFacts DEF WellFormed
  <2> QED
    BY <1>7, <2>2 DEF GivesUp, h
<1>8. CASE dialog.kind = "erase"
  <2>1. h = Issuing(erasing, Command("keyboardErase", m.mapping.device, Unread, NoDevice))
    BY <1>2, <1>8
  <2>2. /\ erasing \in ModelType /\ Alike(closed, erasing, {"mapping"})
        /\ SameBut(closed.mapping, erasing.mapping, {"applying"}) /\ erasing.mapping.applying
    BY <1>4, Acting
  <2> HIDE DEF erasing
  <2>3. h.m = erasing /\ h.issue = <<Command("keyboardErase", m.mapping.device, Unread, NoDevice)>>
    BY <2>1, Returned
  <2>4. Alike(m, erasing, {"mapping", "modal"}) /\ closed.mapping = m.mapping /\ erasing.modal.kind = "none"
    BY <1>4, <2>2 DEF Alike, Fields, NoModal
  <2>5. Erases(m, h)
    BY <1>8, <2>2, <2>3, <2>4 DEF Erases
  <2> QED
    BY <2>2, <2>3, <2>5 DEF h
<1>9. CASE dialog.kind = "firmware"
  <2>1. h = BeginFirmware(closed, dialog.device)
    BY <1>2, <1>9
  <2>2. /\ h.m \in ModelType /\ Alike(closed, h.m, {"acknowledged", "screen", "fw"})
        /\ h.m.screen = "firmware" /\ h.m.fw.plan = NoPlan /\ h.m.fw.device = dialog.device
        /\ h.issue = <<Command("fwDownload", dialog.device, Unread, NoDevice)>>
    BY <1>1, <1>4, <2>1, BeginFacts
  <2>3. Alike(m, h.m, {"modal", "acknowledged", "screen", "fw"}) /\ h.m.modal.kind = "none"
    BY <1>4, <2>2 DEF Alike, Fields, NoModal
  <2>4. Begins(m, h)
    BY <1>1, <2>2, <2>3 DEF Begins
  <2> QED
    BY <2>2, <2>4 DEF h
<1>10. CASE dialog.kind = "probe"
  <2>1. h = BeginProbe(closed, dialog.device)
    BY <1>2, <1>10
  <2>2. /\ h.m \in ModelType /\ Alike(closed, h.m, {"acknowledged"})
        /\ h.issue = <<Command("probe", dialog.device, Unread, NoDevice)>>
    BY <1>1, <1>4, <2>1, BeginProbeFacts
  <2>3. Alike(m, h.m, {"modal", "acknowledged"}) /\ h.m.modal.kind = "none"
    BY <1>4, <2>2 DEF Alike, Fields, NoModal
  <2>4. Probes(m, h)
    BY <1>1, <1>10, <2>2, <2>3 DEF Probes
  <2> QED
    BY <2>2, <2>4 DEF h
<1> QED
    BY <1>1, <1>6, <1>7, <1>8, <1>9, <1>10

UserHandled(m, h) ==
    \/ AsksFirst(m, h) \/ Leaves(m, h) \/ Toggles(m, h) \/ TakesOver(m, h)
    \/ Writes(m, h) \/ Erases(m, h) \/ Begins(m, h) \/ Probes(m, h)
    \/ Rechecks(m, h) \/ Transfers(m, h) \/ Lists(m, h) \/ PutsBack(m, h)
    \/ GivesUp(m, h) \/ Goes(m, h)

UserDoes(h) ==
    h.m \in ModelType /\ UserHandled(model, h) /\ Do(h) /\ cache' \in {cache, Forgotten}

LEMMA AskedFacts ==
    ASSUME NEW m \in ModelType, NEW x \in ModalType, ~m.lock.on,
           x.kind = "discard" => x.action # "none",
           x.kind = "erase" => Editable(m) /\ m.mapping.keyboard /\ ~m.mapping.applying
    PROVE  LET h == Just([m EXCEPT !.modal = x]) IN h.m \in ModelType /\ AsksFirst(m, h)
<1> DEFINE n == [m EXCEPT !.modal = x]
<1>1. n \in ModelType /\ Alike(m, n, {"modal"}) /\ n.modal = x
    BY WithModal
<1>2. Just(n).m = n /\ Just(n).issue = <<>>
    BY Returned
<1> HIDE DEF n
<1>3. AsksFirst(m, Just(n))
    BY <1>1, <1>2 DEF AsksFirst
<1> QED
    BY <1>1, <1>2, <1>3 DEF n

LEMMA NavigateSteps ==
    ASSUME ShellTypeOK, FormInv, NEW target \in Screens, NEW i \in Nat \ {0},
           UserTurn, model.screen \in Tabs, ~InSubView(model), Do(Navigate(model, target, i)), cache' = cache,
           target = "settings" => i = model.cursor
    PROVE  \E h : UserDoes(h)
<1>1. model \in ModelType /\ WellFormed(model) /\ ~model.lock.on /\ model.modal.kind = "none"
    BY DEF ShellTypeOK, FormInv, UserTurn
<1>2. LET h == Navigate(model, target, i)
      IN h.m \in ModelType /\ (AsksFirst(model, h) \/ Goes(model, h))
    BY <1>1, NavigateFacts
<1>3. UserDoes(Navigate(model, target, i))
    BY <1>2 DEF UserDoes, UserHandled
<1> QED
    BY <1>3

LEMMA RiskySteps ==
    ASSUME ShellTypeOK, FormInv, NEW act \in {"firmware", "probe"}, NEW disabled, NEW begun,
           begun.m \in ModelType, ~model.lock.on => UserHandled(model, begun),
           Risky(act, disabled, begun)
    PROVE  \E h : UserDoes(h)
<1> DEFINE x == [NoModal EXCEPT !.kind = act, !.device = Selected(model)]
           asks == Just([model EXCEPT !.modal = x])
           h == IF model.acknowledged THEN begun ELSE asks
<1>1. model \in ModelType /\ WellFormed(model) /\ ~model.lock.on /\ Do(h) /\ cache' = cache
    BY DEF ShellTypeOK, FormInv, UserTurn, Risky
<1>2. Selected(model) \in MaybeDevice
    BY <1>1, SelectedFacts DEF WellFormed
<1>3. x \in ModalType /\ x.kind = act
  <2>1. NoModal \in ModalType
    BY DEF NoModal, ModalType, Screens, Tabs, MaybeDevice
  <2> QED
    BY <1>2, <2>1 DEF ModalType
<1> HIDE DEF x
<1>4. asks.m \in ModelType /\ AsksFirst(model, asks)
    BY <1>1, <1>3, AskedFacts
<1> HIDE DEF asks
<1>5. h.m \in ModelType /\ UserHandled(model, h)
    BY <1>1, <1>4 DEF UserHandled
<1> HIDE DEF h
<1>6. UserDoes(h)
    BY <1>1, <1>5 DEF UserDoes
<1> QED
    BY <1>6

LEMMA UserSteps ==
    ASSUME ShellTypeOK, FormInv, UserNext
    PROVE  (\E value \in Contents \union {Editor(model.mapping).loaded} : Edit(value)) \/ \E h : UserDoes(h)
<1>1. model \in ModelType /\ WellFormed(model)
    BY DEF ShellTypeOK, FormInv
<1>2. /\ model.listed \in Seq(Devices) /\ model.cursor \in Nat \ {0} /\ model.screen \in Screens
      /\ model.prev \in Screens /\ model.mapping \in MappingType
    BY <1>1 DEF ModelType
<1>3. ASSUME NEW tab \in Tabs, NEW i \in DOMAIN model.listed, Switch(tab, i)
      PROVE  \E h : UserDoes(h)
  <2>1. tab \in Screens /\ tab # "settings" /\ i \in Nat \ {0}
    BY <1>2 DEF Screens, Tabs
  <2> QED
    BY <1>3, <2>1, NavigateSteps DEF Switch
<1>4. ASSUME OpenSettings
      PROVE  \E h : UserDoes(h)
    BY <1>2, <1>4, NavigateSteps DEF OpenSettings, Screens
<1>5. ASSUME LeaveSettings
      PROVE  \E h : UserDoes(h)
  <2> DEFINE n == [model EXCEPT !.screen = model.prev]
  <2>1. n \in ModelType /\ Alike(model, n, {"screen"}) /\ n.screen = model.prev
    BY <1>1, <1>2, WithScreen
  <2>2. /\ Do(Just(n)) /\ ~model.lock.on /\ model.screen = "settings" /\ cache' = cache
    BY <1>5 DEF LeaveSettings, UserTurn
  <2>3. Just(n).m = n /\ Just(n).issue = <<>>
    BY Returned
  <2> HIDE DEF n
  <2>4. Leaves(model, Just(n))
    BY <2>1, <2>2, <2>3 DEF Leaves
  <2>5. UserDoes(Just(n))
    BY <2>1, <2>2, <2>3, <2>4 DEF UserDoes, UserHandled
  <2> QED
    BY <2>5
<1>6. ASSUME ToggleAdvanced
      PROVE  \E h : UserDoes(h)
  <2> DEFINE n == [model EXCEPT !.advanced = ~model.advanced]
             x == ~model.advanced
  <2>1. n \in ModelType /\ Alike(model, n, {"advanced"})
    <3>1. x \in BOOLEAN /\ n = [model EXCEPT !.advanced = x]
      OBVIOUS
    <3> HIDE DEF x, n
    <3> QED
      BY <1>1, <3>1 DEF ModelType, Alike, Fields
  <2>2. Do(Just(n)) /\ cache' = cache
    BY <1>1, <1>6 DEF ToggleAdvanced, ModelType
  <2>3. Just(n).m = n /\ Just(n).issue = <<>>
    BY Returned
  <2> HIDE DEF n
  <2>4. Toggles(model, Just(n))
    BY <2>1, <2>3 DEF Toggles
  <2>5. UserDoes(Just(n))
    BY <2>1, <2>2, <2>3, <2>4 DEF UserDoes, UserHandled
  <2> QED
    BY <2>5
<1>7. ASSUME Apply
      PROVE  \E h : UserDoes(h)
  <2> DEFINE n == [model EXCEPT !.mapping.applying = TRUE]
             c == Command(IF model.mapping.keyboard THEN "keyboardApply" ELSE "padApply",
                          model.mapping.device, Editor(model.mapping).draft, NoDevice)
  <2>1. /\ n \in ModelType /\ Alike(model, n, {"mapping"})
        /\ SameBut(model.mapping, n.mapping, {"applying"}) /\ n.mapping.applying
    BY <1>1, Acting
  <2>2. /\ Editing /\ Dirty(model.mapping) /\ ~model.mapping.applying
        /\ Do(Issuing(n, c)) /\ cache' = cache
    BY <1>7 DEF Apply
  <2> HIDE DEF n
  <2>3. Issuing(n, c).m = n /\ Issuing(n, c).issue = <<c>>
    BY Returned
  <2>4. Writes(model, Issuing(n, c))
    BY <2>1, <2>2, <2>3 DEF Writes, Editing, Editable, UserTurn
  <2>5. UserDoes(Issuing(n, c))
    BY <2>1, <2>2, <2>3, <2>4 DEF UserDoes, UserHandled
  <2> QED
    BY <2>5
<1>8. ASSUME AskErase
      PROVE  \E h : UserDoes(h)
  <2> DEFINE x == [NoModal EXCEPT !.kind = "erase"]
             asks == Just([model EXCEPT !.modal = x])
  <2>1. /\ Editing /\ model.mapping.keyboard /\ ~model.mapping.applying
        /\ Do(asks) /\ cache' = cache
    BY <1>8 DEF AskErase
  <2>2. x \in ModalType /\ x.kind = "erase"
    <3>1. NoModal \in ModalType
      BY DEF NoModal, ModalType, Screens, Tabs, MaybeDevice
    <3> QED
      BY <3>1 DEF ModalType
  <2> HIDE DEF x
  <2>3. asks.m \in ModelType /\ AsksFirst(model, asks)
    BY <1>1, <2>1, <2>2, AskedFacts DEF Editing, Editable, UserTurn
  <2>4. UserDoes(asks)
    BY <2>1, <2>3 DEF UserDoes, UserHandled
  <2> QED
    BY <2>4
<1>9. ASSUME Back
      PROVE  \E h : UserDoes(h)
  <2> DEFINE x == DiscardModal("back", "devices", 1)
             asks == Just([model EXCEPT !.modal = x])
             n == [model EXCEPT !.screen = "devices"]
  <2>1. ~model.lock.on /\ model.screen # "settings" /\ cache' = cache
    BY <1>9 DEF Back, UserTurn
  <2>2. Do(Just(IF Editing /\ Dirty(model.mapping) THEN [model EXCEPT !.modal = x] ELSE n))
    BY <1>9 DEF Back
  <2>3. CASE Editing /\ Dirty(model.mapping)
    <3>1. Do(asks)
      BY <2>2, <2>3
    <3>2. x \in ModalType /\ x.kind = "discard" /\ x.action = "back"
      BY DEF DiscardModal, ModalType, MaybeDevice, Screens, Tabs
    <3> HIDE DEF x
    <3>3. asks.m \in ModelType /\ AsksFirst(model, asks)
      BY <1>1, <2>1, <3>2, AskedFacts
    <3>4. UserDoes(asks)
      BY <2>1, <3>1, <3>3 DEF UserDoes, UserHandled
    <3> QED
      BY <3>4
  <2>4. CASE ~(Editing /\ Dirty(model.mapping))
    <3>1. Do(Just(n))
      BY <2>2, <2>4
    <3>2. n \in ModelType /\ Alike(model, n, {"screen"}) /\ n.screen = "devices"
      BY <1>1, WithScreen DEF Screens, Tabs
    <3>3. Just(n).m = n /\ Just(n).issue = <<>>
      BY Returned
    <3> HIDE DEF n
    <3>4. Leaves(model, Just(n))
      BY <2>1, <3>2, <3>3 DEF Leaves
    <3>5. UserDoes(Just(n))
      BY <2>1, <3>1, <3>2, <3>3, <3>4 DEF UserDoes, UserHandled
    <3> QED
      BY <3>5
  <2> QED
    BY <2>3, <2>4
<1>10. ASSUME CheckAgain
       PROVE  \E h : UserDoes(h)
  <2> DEFINE x == [model.diag EXCEPT !.loading = TRUE, !.failed = FALSE]
             n == [model EXCEPT !.diag = x]
             c == Command("rediag", model.diag.device, Unread, NoDevice)
  <2>1. n = [model EXCEPT !.diag.loading = TRUE, !.diag.failed = FALSE]
    BY <1>1 DEF ModelType
  <2>2. ~model.lock.on /\ model.screen = "diagnostics" /\ Do(Issuing(n, c)) /\ cache' = cache
    BY <1>10, <2>1 DEF CheckAgain, UserTurn
  <2>3. x \in DiagType /\ x.device = model.diag.device /\ x.result = model.diag.result
    BY <1>1 DEF ModelType, DiagType
  <2> HIDE DEF x
  <2>4. n \in ModelType /\ Alike(model, n, {"diag"}) /\ n.diag = x
    BY <1>1, <2>3, WithDiag
  <2> HIDE DEF n
  <2>5. Issuing(n, c).m = n /\ Issuing(n, c).issue = <<c>>
    BY Returned
  <2>6. Rechecks(model, Issuing(n, c))
    BY <2>2, <2>3, <2>4, <2>5 DEF Rechecks
  <2>7. UserDoes(Issuing(n, c))
    BY <2>2, <2>4, <2>5, <2>6 DEF UserDoes, UserHandled
  <2> QED
    BY <2>7
<1>11. ASSUME RescanDevices
       PROVE  \E h : UserDoes(h)
  <2> DEFINE c == Command("list", NoDevice, Unread, NoDevice)
  <2>1. ~model.lock.on /\ cache' = Forgotten /\ Do(Issuing(model, c))
    BY <1>11 DEF RescanDevices, UserTurn
  <2>2. Issuing(model, c).m = model /\ Issuing(model, c).issue = <<c>>
    BY Returned
  <2>3. Lists(model, Issuing(model, c))
    BY <2>1, <2>2 DEF Lists
  <2>4. UserDoes(Issuing(model, c))
    BY <1>1, <2>1, <2>2, <2>3 DEF UserDoes, UserHandled
  <2> QED
    BY <2>4
<1>12. ASSUME UpdateFirmware
       PROVE  \E h : UserDoes(h)
  <2> DEFINE begun == BeginFirmware(model, Selected(model))
  <2>1. Selected(model) \in MaybeDevice
    BY <1>1, SelectedFacts DEF WellFormed
  <2>2. model.modal.kind = "none"
    BY <1>12 DEF UpdateFirmware, Risky, UserTurn
  <2>3. /\ begun.m \in ModelType /\ Alike(model, begun.m, {"acknowledged", "screen", "fw"})
        /\ begun.m.screen = "firmware" /\ begun.m.fw.plan = NoPlan
        /\ begun.issue = <<Command("fwDownload", begun.m.fw.device, Unread, NoDevice)>>
    BY <1>1, <2>1, BeginFacts
  <2>4. Risky("firmware", FirmwareDisabled(model, Selected(model)), begun)
    BY <1>12 DEF UpdateFirmware
  <2> HIDE DEF begun
  <2>5. Begins(model, begun) \/ model.lock.on
    BY <1>1, <2>2, <2>3 DEF Begins, Alike, Fields
  <2>6. ~model.lock.on => UserHandled(model, begun)
    BY <2>5 DEF UserHandled
  <2> QED
    BY <2>3, <2>4, <2>6, RiskySteps
<1>13. ASSUME TestWrite
       PROVE  \E h : UserDoes(h)
  <2> DEFINE begun == BeginProbe(model, Selected(model))
  <2>1. Selected(model) \in MaybeDevice
    BY <1>1, SelectedFacts DEF WellFormed
  <2>2. model.modal.kind = "none"
    BY <1>13 DEF TestWrite, Risky, UserTurn
  <2>3. /\ begun.m \in ModelType /\ Alike(model, begun.m, {"acknowledged"})
        /\ begun.issue = <<Command("probe", Selected(model), Unread, NoDevice)>>
    BY <1>1, <2>1, BeginProbeFacts
  <2>4. Risky("probe", ProbeDisabled(model, Selected(model)), begun)
    BY <1>13 DEF TestWrite
  <2> HIDE DEF begun
  <2>5. Probes(model, begun) \/ model.lock.on
    BY <1>1, <2>1, <2>2, <2>3 DEF Probes, Alike, Fields
  <2>6. ~model.lock.on => UserHandled(model, begun)
    BY <2>5 DEF UserHandled
  <2> QED
    BY <2>3, <2>4, <2>6, RiskySteps
<1>14. ASSUME StartTransfer
       PROVE  \E h : UserDoes(h)
  <2> DEFINE n == [model EXCEPT !.fw.stage = "confirming"]
             c == Command("fwStart", model.fw.plan[1], Unread, model.fw.plan[2])
  <2>1. ~model.lock.on /\ Do(Issuing(n, c)) /\ cache' = cache
    BY <1>14 DEF StartTransfer, UserTurn
  <2>2. /\ n \in ModelType /\ Alike(model, n, {"fw"}) /\ n.fw.device = model.fw.device
        /\ n.fw.plan = model.fw.plan
    BY <1>1, Staged DEF Stages
  <2> HIDE DEF n
  <2>3. Issuing(n, c).m = n /\ Issuing(n, c).issue = <<c>>
    BY Returned
  <2>4. Transfers(model, Issuing(n, c))
    BY <2>1, <2>2, <2>3 DEF Transfers
  <2>5. UserDoes(Issuing(n, c))
    BY <2>1, <2>2, <2>3, <2>4 DEF UserDoes, UserHandled
  <2> QED
    BY <2>5
<1>15. ASSUME CancelTransfer
       PROVE  \E h : UserDoes(h)
  <2> DEFINE c == Command("fwCancel", model.fw.plan[1], Unread, model.fw.plan[2])
  <2>1. ~model.lock.on /\ Do(Issuing(model, c)) /\ cache' = cache
    BY <1>15 DEF CancelTransfer, UserTurn
  <2>2. Issuing(model, c).m = model /\ Issuing(model, c).issue = <<c>>
    BY Returned
  <2>3. Transfers(model, Issuing(model, c))
    BY <2>1, <2>2 DEF Transfers, Alike
  <2>4. UserDoes(Issuing(model, c))
    BY <1>1, <2>1, <2>2, <2>3 DEF UserDoes, UserHandled
  <2> QED
    BY <2>4
<1>16. ASSUME ConfirmDialog
       PROVE  \E h : UserDoes(h)
  <2>1. model.modal.kind # "none" /\ Do(Confirmed(model)) /\ cache' = cache
    BY <1>16 DEF ConfirmDialog
  <2>2. UserDoes(Confirmed(model))
    BY <1>1, <2>1, ConfirmedFacts DEF UserDoes, UserHandled
  <2> QED
    BY <2>2
<1>17. ASSUME CancelDialog
       PROVE  \E h : UserDoes(h)
  <2> DEFINE n == [model EXCEPT !.modal = NoModal]
  <2>1. Do(Just(n)) /\ cache' = cache
    BY <1>17 DEF CancelDialog
  <2>2. NoModal \in ModalType /\ NoModal.kind = "none"
    BY DEF NoModal, ModalType, Screens, Tabs, MaybeDevice
  <2>3. n \in ModelType /\ Alike(model, n, {"modal"}) /\ n.modal = NoModal
    BY <1>1, <2>2, WithModal
  <2> HIDE DEF n
  <2>4. Just(n).m = n /\ Just(n).issue = <<>>
    BY Returned
  <2>5. AsksFirst(model, Just(n))
    BY <2>2, <2>3, <2>4 DEF AsksFirst
  <2>6. UserDoes(Just(n))
    BY <2>1, <2>3, <2>4, <2>5 DEF UserDoes, UserHandled
  <2> QED
    BY <2>6
<1>18. ASSUME TakeOver
       PROVE  \E h : UserDoes(h)
  <2> DEFINE n == Routed(model)
  <2>1. /\ model.lock.on /\ model.modal.kind = "none" /\ model.screen # "recovery"
        /\ Do(Just(n)) /\ cache' = cache
    BY <1>18 DEF TakeOver
  <2>2. /\ n \in ModelType /\ Alike(model, n, {"screen", "prev"}) /\ n.screen = "recovery"
        /\ n.prev = model.screen
    BY <1>1, <2>1, RoutedFacts
  <2> HIDE DEF n
  <2>3. Just(n).m = n /\ Just(n).issue = <<>>
    BY Returned
  <2>4. TakesOver(model, Just(n))
    BY <2>1, <2>2, <2>3 DEF TakesOver
  <2>5. UserDoes(Just(n))
    BY <2>1, <2>2, <2>3, <2>4 DEF UserDoes, UserHandled
  <2> QED
    BY <2>5
<1>19. ASSUME Restore
       PROVE  \E h : UserDoes(h)
  <2> DEFINE c == Command("restore", model.lock.device, model.lock.saved, NoDevice)
  <2>1. /\ model.lock.on /\ model.modal.kind = "none" /\ model.screen = "recovery"
        /\ model.lock.hasBackup /\ Do(Issuing(model, c)) /\ cache' = cache
    BY <1>19 DEF Restore
  <2>2. Issuing(model, c).m = model /\ Issuing(model, c).issue = <<c>>
    BY Returned
  <2>3. PutsBack(model, Issuing(model, c))
    BY <2>1, <2>2 DEF PutsBack
  <2>4. UserDoes(Issuing(model, c))
    BY <1>1, <2>1, <2>2, <2>3 DEF UserDoes, UserHandled
  <2> QED
    BY <2>4
<1> QED
    BY <1>3, <1>4, <1>5, <1>6, <1>7, <1>8, <1>9, <1>10, <1>11, <1>12, <1>13, <1>14, <1>15, <1>16,
       <1>17, <1>18, <1>19 DEF UserNext

LEMMA RoutedForm ==
    ASSUME NEW m \in ModelType, WellFormed(m)
    PROVE  Routed(m) \in ModelType /\ WellFormed(Routed(m))
<1> DEFINE r == Routed(m)
<1>1. /\ r \in ModelType
      /\ \/ r = m
         \/ Alike(m, r, {"screen", "prev"}) /\ r.screen = "recovery" /\ r.prev = m.screen
    BY RoutedFacts
<1> HIDE DEF r
<1>2. WellFormed(r)
    BY <1>1 DEF WellFormed, Alike, Fields
<1> QED
    BY <1>1, <1>2 DEF r

\* The editor of a handler that leaves its profiles alone, or replaces them.
LEMMA NeverEmptiedFacts ==
    ASSUME NEW p, NEW q, NeverEmptied(p.kb), NeverEmptied(p.pad),
           SameBut(p, q, {"device", "keyboard", "loading", "failed", "applying", "unavailable"})
    PROVE  NeverEmptied(q.kb) /\ NeverEmptied(q.pad)
BY DEF SameBut

LEMMA NavigatedForm ==
    ASSUME NEW m \in ModelType, WellFormed(m), NEW h, h.m \in ModelType, Navigated(m, h)
    PROVE  WellFormed(h.m) /\ Issuable(h.issue)
<1>1. CASE Elsewhere(m, h)
    BY <1>1, NothingIssuable DEF Elsewhere, Navigated, WellFormed, Alike, Fields
<1>2. CASE ToSettings(m, h)
  <2>1. WellFormed(h.m)
    BY <1>2 DEF ToSettings, Navigated, WellFormed, Alike, Fields
  <2> QED
    BY <1>2, <2>1, NothingIssuable DEF ToSettings
<1>3. CASE ToChecks(m, h)
  <2>1. WellFormed(h.m)
    BY <1>3, ShellAssumption DEF ToChecks, Navigated, WellFormed, Alike, Fields
  <2>2. h.m.diag.device \in Devices
    BY <1>3 DEF ToChecks
  <2>3. Issuable(<<Command("diag", h.m.diag.device, Unread, NoDevice)>>)
    BY <2>2, CommandIssuable DEF CommandKinds, WriteKinds, MappingKinds, FirmwareKinds, MaybeDevice, Applies, Unread
  <2> QED
    BY <1>3, <2>1, <2>3, NothingIssuable DEF ToChecks
<1>4. CASE ToEditor(m, h)
  <2>1. h.m.mapping.device \in Devices /\ h.m.mapping.kb = Fresh /\ h.m.mapping.pad = Fresh
    BY <1>4 DEF ToEditor, EditorOpened
  <2>2. NeverEmptied(h.m.mapping.kb) /\ NeverEmptied(h.m.mapping.pad)
    BY <2>1 DEF NeverEmptied, Fresh
  <2>3. WellFormed(h.m)
    BY <1>4, <2>2 DEF ToEditor, Navigated, WellFormed, Alike, Fields
  <2>4. ASSUME NEW kind \in Reads
        PROVE  Issuable(<<Command(kind, h.m.mapping.device, Unread, NoDevice)>>)
    <3>1. kind \in CommandKinds \ (Checks \union Applies \union {"hotplug", "restore"})
      BY DEF CommandKinds, WriteKinds, MappingKinds, Applies, Checks, Reads
    <3> QED
      BY <2>1, <3>1, PlainIssuable DEF MaybeDevice
  <2>5. Issuable(<<ReadOf(h.m.mapping)>>)
    BY <2>4 DEF ReadOf, Reads
  <2> QED
    BY <1>4, <2>3, <2>5, NothingIssuable DEF ToEditor
<1> QED
    BY <1>1, <1>2, <1>3, <1>4 DEF Navigated

LEMMA UserForm ==
    ASSUME NEW m \in ModelType, WellFormed(m), NEW h, h.m \in ModelType, UserHandled(m, h)
    PROVE  WellFormed(h.m) /\ Issuable(h.issue)
<1>1. /\ m.mapping \in MappingType /\ m.diag.device \in MaybeDevice /\ m.lock.device \in MaybeDevice
      /\ m.fw.plan[1] \in MaybeDevice /\ m.fw.plan[2] \in MaybeDevice /\ m.lock.saved \in 0 .. 2
      /\ m.screen \in Screens /\ m.prev \in Screens
    BY DEF ModelType
<1>2. m.mapping.device \in MaybeDevice /\ NoDevice \in MaybeDevice
    BY <1>1 DEF MappingType, MaybeDevice
<1>3. CASE AsksFirst(m, h)
    BY <1>3, NothingIssuable DEF AsksFirst, WellFormed, Alike, Fields
<1>4. CASE Leaves(m, h)
    BY <1>4, NothingIssuable DEF Leaves, WellFormed, Alike, Fields
<1>5. CASE Toggles(m, h)
    BY <1>5, NothingIssuable DEF Toggles, WellFormed, Alike, Fields
<1>6. CASE TakesOver(m, h)
    BY <1>6, NothingIssuable DEF TakesOver, WellFormed, Alike, Fields
<1>7. CASE Writes(m, h)
  <2> DEFINE kind == IF m.mapping.keyboard THEN "keyboardApply" ELSE "padApply"
             value == Editor(m.mapping).draft
  <2>1. WellFormed(h.m)
    <3>1. NeverEmptied(h.m.mapping.kb) /\ NeverEmptied(h.m.mapping.pad)
      BY <1>7, NeverEmptiedFacts DEF Writes, SameBut, WellFormed
    <3> QED
      BY <1>7, <3>1 DEF Writes, WellFormed, Alike, Fields
  <2>2. value \in 0 .. 2 /\ value # Unread
    <3>1. Editor(m.mapping) \in {m.mapping.kb, m.mapping.pad}
      BY DEF Editor
    <3>2. Editor(m.mapping).loaded \in 0 .. 2 /\ value \in 0 .. 2
      BY <1>1, <3>1 DEF MappingType
    <3>3. NeverEmptied(Editor(m.mapping))
      BY <3>1 DEF WellFormed
    <3> QED
      BY <1>7, <3>2, <3>3 DEF Writes, Dirty, NeverEmptied
  <2>3. value \in Contents
    BY <2>2 DEF Contents, Unread
  <2>4. kind \in Applies /\ kind \in CommandKinds \ {"hotplug"} /\ kind \notin Checks
    BY DEF Applies, CommandKinds, WriteKinds, Checks
  <2>5. h.issue = <<Command(kind, m.mapping.device, value, NoDevice)>>
    BY <1>7 DEF Writes
  <2> HIDE DEF kind, value
  <2> QED
    BY <1>2, <2>1, <2>2, <2>3, <2>4, <2>5, CommandIssuable
<1>8. CASE Erases(m, h)
  <2>1. NeverEmptied(h.m.mapping.kb) /\ NeverEmptied(h.m.mapping.pad)
    BY <1>8, NeverEmptiedFacts DEF Erases, SameBut, WellFormed
  <2>2. WellFormed(h.m)
    BY <1>8, <2>1 DEF Erases, WellFormed, Alike, Fields
  <2>3. "keyboardErase" \in CommandKinds \ (Checks \union Applies \union {"hotplug", "restore"})
    BY DEF CommandKinds, WriteKinds, Checks, Applies
  <2> QED
    BY <1>2, <1>8, <2>2, <2>3, PlainIssuable DEF Erases
<1>9. CASE Begins(m, h)
  <2>1. WellFormed(h.m)
    BY <1>9 DEF Begins, WellFormed, Alike, Fields
  <2>2. h.m.fw.device \in MaybeDevice
    BY DEF ModelType
  <2>3. "fwDownload" \in CommandKinds \ (Checks \union Applies \union {"hotplug", "restore"})
    BY DEF CommandKinds, FirmwareKinds, Checks, Applies
  <2> QED
    BY <1>2, <1>9, <2>1, <2>2, <2>3, PlainIssuable DEF Begins
<1>10. CASE Probes(m, h)
  <2>1. WellFormed(h.m)
    BY <1>10 DEF Probes, WellFormed, Alike, Fields
  <2>2. "probe" \in CommandKinds \ (Checks \union Applies \union {"hotplug", "restore"})
    BY DEF CommandKinds, WriteKinds, Checks, Applies
  <2>3. PICK d \in MaybeDevice : h.issue = <<Command("probe", d, Unread, NoDevice)>>
    BY <1>10 DEF Probes
  <2> QED
    BY <1>2, <2>1, <2>2, <2>3, PlainIssuable
<1>11. CASE Rechecks(m, h)
  <2>1. WellFormed(h.m)
    BY <1>11 DEF Rechecks, WellFormed, Alike, Fields
  <2>2. m.diag.device \in Devices
    BY <1>1, <1>11 DEF Rechecks, WellFormed, MaybeDevice
  <2>3. "rediag" \in CommandKinds \ {"hotplug"} /\ "rediag" \notin Applies \union {"restore"}
    BY DEF CommandKinds, Applies
  <2>4. Unread \in 0 .. 2
    BY DEF Unread
  <2> QED
    BY <1>2, <1>11, <2>1, <2>2, <2>3, <2>4, CommandIssuable DEF Rechecks, MaybeDevice
<1>12. CASE Transfers(m, h)
  <2>1. WellFormed(h.m)
    BY <1>12 DEF Transfers, WellFormed, Alike, Fields
  <2>2. PICK kind \in {"fwStart", "fwCancel"} :
          h.issue = <<Command(kind, m.fw.plan[1], Unread, m.fw.plan[2])>>
    BY <1>12 DEF Transfers
  <2>3. kind \in CommandKinds \ (Checks \union Applies \union {"hotplug", "restore"})
    BY DEF CommandKinds, FirmwareKinds, Checks, Applies
  <2> QED
    BY <1>1, <2>1, <2>2, <2>3, PlainIssuable
<1>13. CASE Lists(m, h)
  <2>1. "list" \in CommandKinds \ (Checks \union Applies \union {"hotplug", "restore"})
    BY DEF CommandKinds, Checks, Applies
  <2> QED
    BY <1>2, <1>13, <2>1, PlainIssuable DEF Lists
<1>14. CASE PutsBack(m, h)
  <2>1. m.lock.saved \in Contents
    BY <1>14 DEF PutsBack, WellFormed
  <2>2. "restore" \in CommandKinds \ {"hotplug"} /\ "restore" \notin Checks
    BY DEF CommandKinds, Checks
  <2> QED
    BY <1>1, <1>2, <1>14, <2>1, <2>2, CommandIssuable DEF PutsBack
<1>15. CASE GivesUp(m, h)
    BY <1>15, GivenUpFacts, NavigatedForm DEF GivesUp
<1>16. CASE Goes(m, h)
    BY <1>16, NavigatedForm DEF Goes
<1> QED
    BY <1>3, <1>4, <1>5, <1>6, <1>7, <1>8, <1>9, <1>10, <1>11, <1>12, <1>13, <1>14, <1>15, <1>16
       DEF UserHandled

-----------------------------------------------------------------------------
(* Each kind of answer goes to its handler. *)

LEMMA HandledAs ==
    ASSUME NEW m, NEW c
    PROVE  LET r == Routed(m)
               h == Handled(m, c)
           IN /\ c.kind = "list" => h = DevicesLoaded(m, c)
              /\ c.kind = "hotplug" => h = Hotplugged(m, c)
              /\ c.kind = "autodiag" => h = AutoDiagnosed(m, c)
              /\ c.kind = "probe" => h = Probed(m, c)
              /\ c.kind = "restore" => h = Restored(m, c)
              /\ c.kind = "padRead" => h = Loaded(m, c)
              /\ c.kind = "padApply" => h = Applied(m, c)
              /\ c.kind = "keyboardErase" => h = Erased(m, c)
              /\ c.kind = "keyboardRead" => h = IF KeyboardShows(r) THEN Loaded(r, c) ELSE Just(r)
              /\ c.kind = "keyboardApply" => h = IF KeyboardShows(r) THEN Applied(r, c) ELSE Just(r)
              /\ c.kind \in {"diag", "rediag"} =>
                   h = IF r.screen = "diagnostics" THEN Diagnosed(r, c) ELSE Just(r)
              /\ c.kind \in FirmwareKinds =>
                   h = IF r.screen = "firmware" THEN FirmwareAnswered(r, c) ELSE Just(r)
<1> DEFINE r == Routed(m)
           kr == IF KeyboardShows(r) THEN Loaded(r, c) ELSE Just(r)
           ka == IF KeyboardShows(r) THEN Applied(r, c) ELSE Just(r)
           dr == IF r.screen = "diagnostics" THEN Diagnosed(r, c) ELSE Just(r)
           fr == IF r.screen = "firmware" THEN FirmwareAnswered(r, c) ELSE Just(r)
<1>1. Handled(m, c) =
       CASE c.kind = "list" -> DevicesLoaded(m, c)
         [] c.kind = "hotplug" -> Hotplugged(m, c)
         [] c.kind = "autodiag" -> AutoDiagnosed(m, c)
         [] c.kind = "probe" -> Probed(m, c)
         [] c.kind = "restore" -> Restored(m, c)
         [] c.kind = "padRead" -> Loaded(m, c)
         [] c.kind = "padApply" -> Applied(m, c)
         [] c.kind = "keyboardErase" -> Erased(m, c)
         [] c.kind = "keyboardRead" -> kr
         [] c.kind = "keyboardApply" -> ka
         [] c.kind \in {"diag", "rediag"} -> dr
         [] c.kind \in FirmwareKinds -> fr
    BY DEF Handled
<1>2. FirmwareKinds = {"fwDownload", "fwPreflight", "fwStart", "fwConfirm", "fwListen", "fwCancel"}
    BY DEF FirmwareKinds
<1> HIDE DEF kr, ka, dr, fr
<1>3. c.kind \in FirmwareKinds => Handled(m, c) = fr
    BY <1>1, <1>2
<1>4. /\ c.kind = "list" => Handled(m, c) = DevicesLoaded(m, c)
      /\ c.kind = "hotplug" => Handled(m, c) = Hotplugged(m, c)
      /\ c.kind = "autodiag" => Handled(m, c) = AutoDiagnosed(m, c)
      /\ c.kind = "probe" => Handled(m, c) = Probed(m, c)
      /\ c.kind = "restore" => Handled(m, c) = Restored(m, c)
      /\ c.kind = "padRead" => Handled(m, c) = Loaded(m, c)
      /\ c.kind = "padApply" => Handled(m, c) = Applied(m, c)
      /\ c.kind = "keyboardErase" => Handled(m, c) = Erased(m, c)
    BY <1>1, <1>2
<1>5. /\ c.kind = "keyboardRead" => Handled(m, c) = kr
      /\ c.kind = "keyboardApply" => Handled(m, c) = ka
      /\ c.kind \in {"diag", "rediag"} => Handled(m, c) = dr
    BY <1>1, <1>2
<1> QED
    BY <1>3, <1>4, <1>5 DEF kr, ka, dr, fr

-----------------------------------------------------------------------------
(* The commands in flight after some are taken and others are started. *)

\* One command at most is for the editor, but for those that are gone.
Lone(cs, gone) ==
    \A i, j \in DOMAIN cs \ gone : cs[i].kind \in MappingKinds /\ cs[j].kind \in MappingKinds => i = j

None(cs, gone) == \A i \in DOMAIN cs \ gone : cs[i].kind \notin MappingKinds

Follows(cs, gone, t, next) ==
    /\ next \in Seq(CommandType)
    /\ \A k \in DOMAIN next : \/ \E j \in DOMAIN cs \ gone : next[k] = cs[j]
                              \/ \E j \in DOMAIN t : next[k] = t[j]
    /\ Lone(cs, gone) /\ None(t, {}) => Lone(next, {})
    /\ None(cs, gone) /\ Len(t) = 1 => Lone(next, {})

\* Where each command comes from: those in flight that are not gone, and those
\* that start, each once.
Placed(cs, gone, t, next, from) ==
    /\ from \in [DOMAIN next -> Int]
    /\ \A k, l \in DOMAIN next : from[k] = from[l] => k = l
    /\ \A k \in DOMAIN next : \/ (from[k] \in DOMAIN cs \ gone /\ next[k] = cs[from[k]])
                              \/ (-from[k] \in DOMAIN t /\ next[k] = t[-from[k]])
    /\ \A j \in DOMAIN cs \ gone : \E k \in DOMAIN next : next[k] = cs[j]

Kept(cs, gone, t, next) == \E from : Placed(cs, gone, t, next, from)

LEMMA Joined ==
    ASSUME NEW cs \in Seq(CommandType), NEW t \in Seq(CommandType)
    PROVE  Follows(cs, {}, t, cs \o t) /\ Kept(cs, {}, t, cs \o t)
<1> DEFINE next == cs \o t
           n == Len(cs)
<1>1. /\ next \in Seq(CommandType) /\ n \in Nat /\ Len(t) \in Nat
      /\ DOMAIN next = 1 .. n + Len(t) /\ DOMAIN cs = 1 .. n /\ DOMAIN t = 1 .. Len(t)
      /\ \A k \in 1 .. n + Len(t) : next[k] = IF k <= n THEN cs[k] ELSE t[k - n]
    OBVIOUS
<1> HIDE DEF next, n
<1>2. ASSUME NEW k \in DOMAIN next
      PROVE  \/ k \in DOMAIN cs /\ next[k] = cs[k]
             \/ k > n /\ k - n \in DOMAIN t /\ next[k] = t[k - n]
    BY <1>1
<1>3. \A k \in DOMAIN next : \/ \E j \in DOMAIN cs \ {} : next[k] = cs[j]
                             \/ \E j \in DOMAIN t : next[k] = t[j]
    BY <1>2
<1>4. ASSUME Lone(cs, {}), None(t, {})
      PROVE  Lone(next, {})
    BY <1>2, <1>4 DEF Lone, None
<1>5. ASSUME None(cs, {}), Len(t) = 1
      PROVE  Lone(next, {})
  <2>1. ASSUME NEW k \in DOMAIN next, next[k].kind \in MappingKinds
        PROVE  k = n + 1
    BY <1>1, <1>2, <1>5, <2>1 DEF None
  <2> QED
    BY <2>1 DEF Lone
<1> DEFINE from == [k \in DOMAIN next |-> IF k <= n THEN k ELSE n - k]
<1>6. from \in [DOMAIN next -> Int]
    BY <1>1
<1>7. \A k \in DOMAIN next : \/ (from[k] \in DOMAIN cs \ {} /\ next[k] = cs[from[k]])
                            \/ (-from[k] \in DOMAIN t /\ next[k] = t[-from[k]])
  <2> SUFFICES ASSUME NEW k \in DOMAIN next
               PROVE  \/ (from[k] \in DOMAIN cs \ {} /\ next[k] = cs[from[k]])
                      \/ (-from[k] \in DOMAIN t /\ next[k] = t[-from[k]])
    OBVIOUS
  <2>1. CASE k <= n
    BY <1>1, <2>1
  <2>2. CASE ~(k <= n)
    <3>1. k \in Nat /\ from[k] = n - k /\ -(n - k) = k - n
      BY <1>1, <2>2
    <3> QED
      BY <1>1, <1>2, <2>2, <3>1
  <2> QED
    BY <2>1, <2>2
<1>8. \A k, l \in DOMAIN next : from[k] = from[l] => k = l
    BY <1>1
<1>9. \A j \in DOMAIN cs \ {} : \E k \in DOMAIN next : next[k] = cs[j]
  <2> SUFFICES ASSUME NEW j \in DOMAIN cs
               PROVE  j \in DOMAIN next /\ next[j] = cs[j]
    OBVIOUS
  <2> QED
    BY <1>1
<1> HIDE DEF from
<1>10. Kept(cs, {}, t, next)
    BY <1>6, <1>7, <1>8, <1>9 DEF Kept, Placed
<1> QED
    BY <1>1, <1>3, <1>4, <1>5, <1>10 DEF Follows, next

LEMMA TakenOut ==
    ASSUME NEW cs \in Seq(CommandType), NEW i \in DOMAIN cs, NEW t \in Seq(CommandType)
    PROVE  Follows(cs, {i}, t, RemoveAt(cs, i) \o t) /\ Kept(cs, {i}, t, RemoveAt(cs, i) \o t)
<1> DEFINE a == SubSeq(cs, 1, i - 1)
           b == SubSeq(cs, i + 1, Len(cs))
           s == a \o b
           next == RemoveAt(cs, i) \o t
           n == Len(cs) - 1
           From(k) == IF k < i THEN k ELSE k + 1
<1>1. /\ i \in 1 .. Len(cs) /\ Len(cs) \in Nat /\ DOMAIN cs = 1 .. Len(cs)
      /\ Len(t) \in Nat /\ DOMAIN t = 1 .. Len(t) /\ n \in Nat
      /\ \A k \in 1 .. Len(cs) : cs[k] \in CommandType
    OBVIOUS
<1>2. /\ a \in Seq(CommandType) /\ Len(a) = i - 1
      /\ \A k \in 1 .. i - 1 : a[k] = cs[k]
  <2>1. \A k \in 1 .. i - 1 : cs[k] \in CommandType
    BY <1>1
  <2>2. /\ a \in Seq(CommandType) /\ Len(a) = IF 1 <= i - 1 THEN (i - 1) - 1 + 1 ELSE 0
        /\ \A k \in 1 .. (i - 1) - 1 + 1 : a[k] = cs[1 + k - 1]
    BY <1>1, <2>1, SubSeqProperties
  <2> QED
    BY <1>1, <2>2
<1>3. /\ b \in Seq(CommandType) /\ Len(b) = Len(cs) - i
      /\ \A k \in 1 .. Len(cs) - i : b[k] = cs[i + k]
  <2>1. \A k \in i + 1 .. Len(cs) : cs[k] \in CommandType
    BY <1>1
  <2>2. /\ b \in Seq(CommandType) /\ Len(b) = IF i + 1 <= Len(cs) THEN Len(cs) - (i + 1) + 1 ELSE 0
        /\ \A k \in 1 .. Len(cs) - (i + 1) + 1 : b[k] = cs[(i + 1) + k - 1]
    BY <1>1, <2>1, SubSeqProperties
  <2> QED
    BY <1>1, <2>2
<1>4. next = s \o t
    BY DEF RemoveAt
<1> HIDE DEF a, b, next
<1>5. /\ s \in Seq(CommandType) /\ Len(s) = n
      /\ \A k \in 1 .. n : s[k] = IF k < i THEN a[k] ELSE b[k - (i - 1)]
  <2>1. /\ s \in Seq(CommandType) /\ Len(s) = Len(a) + Len(b)
        /\ \A k \in 1 .. Len(a) + Len(b) : s[k] = IF k <= Len(a) THEN a[k] ELSE b[k - Len(a)]
    BY <1>2, <1>3, ConcatProperties
  <2>2. Len(a) + Len(b) = n
    BY <1>1, <1>2, <1>3
  <2>3. \A k \in 1 .. n : k <= i - 1 <=> k < i
    BY <1>1
  <2> HIDE DEF s
  <2> QED
    BY <1>2, <2>1, <2>2, <2>3
<1> HIDE DEF s
<1>6. \A k \in 1 .. n : s[k] = cs[From(k)] /\ From(k) \in DOMAIN cs \ {i}
  <2> SUFFICES ASSUME NEW k \in 1 .. n
               PROVE  s[k] = cs[From(k)] /\ From(k) \in DOMAIN cs \ {i}
    OBVIOUS
  <2>1. CASE k < i
    BY <1>1, <1>2, <1>5, <2>1
  <2>2. CASE ~(k < i)
    <3>1. k - (i - 1) \in 1 .. Len(cs) - i /\ i + (k - (i - 1)) = k + 1 /\ k + 1 \in DOMAIN cs \ {i}
      BY <1>1, <2>2
    <3>2. s[k] = b[k - (i - 1)]
      BY <1>5, <2>2
    <3>3. b[k - (i - 1)] = cs[i + (k - (i - 1))]
      BY <1>3, <3>1
    <3> QED
      BY <2>2, <3>1, <3>2, <3>3
  <2> QED
    BY <2>1, <2>2
<1>7. /\ next \in Seq(CommandType)
      /\ DOMAIN next = 1 .. n + Len(t)
      /\ \A k \in 1 .. n + Len(t) : next[k] = IF k <= n THEN s[k] ELSE t[k - n]
  <2>1. /\ s \o t \in Seq(CommandType) /\ Len(s \o t) = Len(s) + Len(t)
        /\ \A k \in 1 .. Len(s) + Len(t) : (s \o t)[k] = IF k <= Len(s) THEN s[k] ELSE t[k - Len(s)]
    BY <1>5, ConcatProperties
  <2>2. next \in Seq(CommandType) => DOMAIN next = 1 .. Len(next)
    OBVIOUS
  <2> QED
    BY <1>4, <1>5, <2>1, <2>2
<1>8. ASSUME NEW k \in DOMAIN next
      PROVE  \/ k \in 1 .. n /\ From(k) \in DOMAIN cs \ {i} /\ next[k] = cs[From(k)]
             \/ k > n /\ k - n \in DOMAIN t /\ next[k] = t[k - n]
  <2>1. CASE k <= n
    <3>1. k \in 1 .. n /\ next[k] = s[k]
      BY <1>1, <1>7, <2>1
    <3> QED
      BY <1>6, <3>1
  <2>2. CASE ~(k <= n)
    BY <1>1, <1>7, <2>2
  <2> QED
    BY <1>1, <1>7, <2>1, <2>2
<1>9. \A k \in DOMAIN next : \/ \E j \in DOMAIN cs \ {i} : next[k] = cs[j]
                             \/ \E j \in DOMAIN t : next[k] = t[j]
    BY <1>8
<1>10. ASSUME NEW k \in 1 .. n, NEW l \in 1 .. n, From(k) = From(l)
       PROVE  k = l
    BY <1>1, <1>10
<1> DEFINE from == [k \in DOMAIN next |-> IF k <= n THEN From(k) ELSE n - k]
<1>13. from \in [DOMAIN next -> Int] /\ \A k, l \in DOMAIN next : from[k] = from[l] => k = l
  <2>1. DOMAIN next \subseteq Nat \ {0}
    BY <1>1, <1>7
  <2>2. \A k \in DOMAIN next : from[k] = IF k <= n THEN From(k) ELSE n - k
    OBVIOUS
  <2>3. ASSUME NEW k \in DOMAIN next
        PROVE  from[k] \in Int /\ (from[k] > 0 <=> k <= n)
    BY <1>1, <2>1, <2>2
  <2>4. ASSUME NEW k \in DOMAIN next, NEW l \in DOMAIN next, from[k] = from[l]
        PROVE  k = l
    <3>1. CASE k <= n
      <4>1. l <= n
        BY <2>3, <2>4, <3>1
      <4>2. From(k) = From(l) /\ k \in 1 .. n /\ l \in 1 .. n
        BY <1>1, <2>1, <2>2, <2>4, <3>1, <4>1
      <4> QED
        BY <1>10, <4>2
    <3>2. CASE ~(k <= n)
      <4>1. ~(l <= n)
        BY <2>3, <2>4, <3>2
      <4>2. n - k = n - l
        BY <2>2, <2>4, <3>2, <4>1
      <4> QED
        BY <1>1, <2>1, <4>2
    <3> QED
      BY <3>1, <3>2
  <2>5. from \in [DOMAIN next -> Int]
    BY <2>3
  <2> QED
    BY <2>4, <2>5
<1>14. \A j \in DOMAIN cs \ {i} : \E k \in DOMAIN next : next[k] = cs[j]
  <2> SUFFICES ASSUME NEW j \in DOMAIN cs \ {i}
               PROVE  \E k \in DOMAIN next : next[k] = cs[j]
    OBVIOUS
  <2> DEFINE k == IF j < i THEN j ELSE j - 1
  <2>1. k \in 1 .. n /\ From(k) = j
    BY <1>1
  <2> HIDE DEF k
  <2>2. k \in DOMAIN next /\ next[k] = s[k]
    BY <1>1, <1>7, <2>1
  <2> QED
    BY <1>6, <2>1, <2>2
<1> HIDE DEF From
<1>15. \A k \in DOMAIN next : \/ (from[k] \in DOMAIN cs \ {i} /\ next[k] = cs[from[k]])
                             \/ (-from[k] \in DOMAIN t /\ next[k] = t[-from[k]])
  <2> SUFFICES ASSUME NEW k \in DOMAIN next
               PROVE  \/ (from[k] \in DOMAIN cs \ {i} /\ next[k] = cs[from[k]])
                      \/ (-from[k] \in DOMAIN t /\ next[k] = t[-from[k]])
    OBVIOUS
  <2>1. from[k] = IF k <= n THEN From(k) ELSE n - k
    OBVIOUS
  <2>2. k \in Nat /\ -(n - k) = k - n
    BY <1>1, <1>7
  <2>3. CASE k \in 1 .. n /\ From(k) \in DOMAIN cs \ {i} /\ next[k] = cs[From(k)]
    BY <1>1, <2>1, <2>3
  <2>4. CASE k > n /\ k - n \in DOMAIN t /\ next[k] = t[k - n]
    <3>1. -from[k] = k - n
      BY <1>1, <2>1, <2>2, <2>4
    <3> QED
      BY <2>4, <3>1
  <2> QED
    BY <1>8, <2>3, <2>4
<1> HIDE DEF from
<1>16. Kept(cs, {i}, t, next)
    BY <1>13, <1>14, <1>15 DEF Kept, Placed
<1>11. ASSUME Lone(cs, {i}), None(t, {})
       PROVE  Lone(next, {})
    BY <1>8, <1>10, <1>11 DEF Lone, None
<1>12. ASSUME None(cs, {i}), Len(t) = 1
       PROVE  Lone(next, {})
  <2>1. ASSUME NEW k \in DOMAIN next, next[k].kind \in MappingKinds
        PROVE  k = n + 1
    <3>1. ~(From(k) \in DOMAIN cs \ {i} /\ next[k] = cs[From(k)])
      BY <1>12, <2>1 DEF None
    <3>2. k > n /\ k - n \in DOMAIN t
      BY <1>8, <3>1
    <3> QED
      BY <1>1, <1>7, <1>12, <3>2
  <2> QED
    BY <2>1 DEF Lone
<1> QED
    BY <1>7, <1>9, <1>11, <1>12, <1>16 DEF Follows, next

-----------------------------------------------------------------------------
(* What an answer does. *)

\* The model that a handler gets: Recovery may have taken over first.
TakenOver(m, a) ==
    \/ a = m
    \/ /\ m.lock.on /\ m.screen # "recovery" /\ Alike(m, a, {"screen", "prev"})
       /\ a.screen = "recovery" /\ a.prev = m.screen

\* The answers that only the screen that shows may take.
RoutedKinds == {"keyboardRead", "keyboardApply", "diag", "rediag"} \union FirmwareKinds

Answers(a, c, h) ==
    \/ c.kind \in RoutedKinds /\ h = Just(a) /\ (c.kind = "keyboardApply" => ~KeyboardShows(a))
    \/ c.kind = "list" /\ h = DevicesLoaded(a, c)
    \/ c.kind = "hotplug" /\ h = Hotplugged(a, c)
    \/ c.kind = "autodiag" /\ h = AutoDiagnosed(a, c)
    \/ c.kind = "probe" /\ h = Probed(a, c)
    \/ c.kind = "restore" /\ h = Restored(a, c)
    \/ c.kind = "padRead" /\ h = Loaded(a, c)
    \/ c.kind = "keyboardRead" /\ KeyboardShows(a) /\ h = Loaded(a, c)
    \/ c.kind = "padApply" /\ h = Applied(a, c)
    \/ c.kind = "keyboardApply" /\ KeyboardShows(a) /\ h = Applied(a, c)
    \/ c.kind = "keyboardErase" /\ h = Erased(a, c)
    \/ c.kind \in {"diag", "rediag"} /\ a.screen = "diagnostics" /\ h = Diagnosed(a, c)
    \/ c.kind \in FirmwareKinds /\ a.screen = "firmware" /\ h = FirmwareAnswered(a, c)

LEMMA HandledBy ==
    ASSUME NEW m \in ModelType, WellFormed(m), NEW c \in CommandType
    PROVE  \E a \in ModelType : /\ WellFormed(a) /\ TakenOver(m, a) /\ Answers(a, c, Handled(m, c))
                                /\ c.kind \in {"list", "padRead", "padApply", "keyboardErase"} => a = m
                                /\ c.kind \in RoutedKinds => a = Routed(m)
<1> DEFINE r == Routed(m)
           h == Handled(m, c)
<1>1. r \in ModelType /\ WellFormed(r) /\ TakenOver(m, r) /\ TakenOver(m, m)
    BY RoutedFacts, RoutedForm DEF TakenOver
<1>2. c.kind \in CommandKinds
    BY DEF CommandType
<1>3. c.kind \in {"list", "hotplug", "autodiag", "probe", "restore", "padRead", "padApply", "keyboardErase"}
      \/ c.kind \in RoutedKinds
    BY <1>2 DEF CommandKinds, WriteKinds, MappingKinds, FirmwareKinds, RoutedKinds
<1>4. CASE c.kind \in {"list", "hotplug", "autodiag", "probe", "restore", "padRead", "padApply", "keyboardErase"}
  <2>1. Answers(m, c, h)
    BY <1>4, HandledAs DEF Answers
  <2>2. c.kind \notin RoutedKinds
    BY <1>4 DEF RoutedKinds, FirmwareKinds
  <2> QED
    BY <1>1, <2>1, <2>2
<1>5. CASE c.kind \in RoutedKinds
  <2>1. Answers(r, c, h)
    BY <1>5, HandledAs DEF Answers, RoutedKinds
  <2>2. c.kind \notin {"list", "padRead", "padApply", "keyboardErase"}
    BY <1>5 DEF FirmwareKinds, RoutedKinds
  <2> HIDE DEF r, h
  <2> QED
    BY <1>1, <2>1, <2>2 DEF r, h
<1> QED
    BY <1>3, <1>4, <1>5

LEMMA AnswersForm ==
    ASSUME NEW a \in ModelType, WellFormed(a), NEW c \in CommandType, WellIssued(c), c.out # "pending",
           NEW h, Answers(a, c, h)
    PROVE  /\ h.m \in ModelType /\ WellFormed(h.m) /\ Issuable(h.issue)
           /\ h.m.modal = a.modal /\ (a.lock.on => h.m.lock.on)
           /\ a.lock.on /\ a.screen = "recovery" => h.m.screen = "recovery"
<1>1. CASE h = Just(a)
    BY <1>1, Returned, NothingIssuable
<1>2. CASE h = DevicesLoaded(a, c)
  <2>1. /\ h.m \in ModelType /\ Alike(a, h.m, {"listed", "cursor", "screen", "mapping"})
        /\ h.m.cursor \in DOMAIN h.m.listed \union {1} /\ Issuable(h.issue)
        /\ \/ h.m.screen = a.screen /\ h.m.mapping = a.mapping
           \/ /\ h.m.screen = "devices" /\ h.m.mapping = NewMapping
              /\ a.screen \in Tabs \ {"devices"}
    BY <1>2, DevicesLoadedFacts DEF WellFormed
  <2>2. NeverEmptied(NewMapping.kb) /\ NeverEmptied(NewMapping.pad)
    BY DEF NewMapping, Fresh, NeverEmptied
  <2>3. NeverEmptied(h.m.mapping.kb) /\ NeverEmptied(h.m.mapping.pad)
    BY <2>1, <2>2 DEF WellFormed
  <2> QED
    BY <2>1, <2>3 DEF WellFormed, Alike, Fields, Tabs
<1>3. CASE h = Hotplugged(a, c)
  <2>1. /\ h.m \in ModelType /\ Alike(a, h.m, {"diag"}) /\ h.m.diag.device = a.diag.device
        /\ h.issue = <<Command("list", NoDevice, Unread, NoDevice)>>
    BY <1>3, HotpluggedFacts
  <2>2. "list" \in CommandKinds \ (Checks \union Applies \union {"hotplug", "restore"})
    BY DEF CommandKinds, Checks, Applies
  <2>3. Issuable(h.issue)
    BY <2>1, <2>2, PlainIssuable DEF MaybeDevice
  <2> QED
    BY <2>1, <2>3 DEF WellFormed, Alike, Fields
<1>4. CASE h = AutoDiagnosed(a, c)
  <2>1. /\ h.m \in ModelType /\ Alike(a, h.m, {"diag"}) /\ h.m.diag.device = a.diag.device
        /\ h.issue = <<>>
    BY <1>4, AutoDiagnosedFacts
  <2> QED
    BY <2>1, NothingIssuable DEF WellFormed, Alike, Fields
<1>5. CASE h = Probed(a, c)
  <2>1. /\ h.m \in ModelType /\ Alike(a, h.m, {"lock"}) /\ h.issue = <<>>
        /\ a.lock.on => h.m.lock.on
        /\ h.m.lock.hasBackup => h.m.lock = a.lock
    BY <1>5, ProbedFacts
  <2> QED
    BY <2>1, NothingIssuable DEF WellFormed, Alike, Fields
<1>6. CASE h = Restored(a, c)
  <2>1. /\ h.m \in ModelType /\ Alike(a, h.m, {"lock"}) /\ h.issue = <<>>
        /\ h.m.lock.on = a.lock.on /\ h.m.lock.hasBackup = a.lock.hasBackup
        /\ h.m.lock.saved = a.lock.saved
    BY <1>6, RestoredFacts
  <2> QED
    BY <2>1, NothingIssuable DEF WellFormed, Alike, Fields
<1>7. CASE h = Loaded(a, c)
  <2>1. /\ h.m \in ModelType /\ Alike(a, h.m, {"mapping"}) /\ h.issue = <<>>
    BY <1>7, LoadedFacts
  <2>2. NeverEmptied(h.m.mapping.kb) /\ NeverEmptied(h.m.mapping.pad)
    <3> DEFINE q == h.m.mapping
               e == [loaded |-> c.value, draft |-> c.value]
    <3>1. q.kb \in {a.mapping.kb, e} /\ q.pad \in {a.mapping.pad, e}
      BY <1>7, LoadedFacts
    <3>2. NeverEmptied(e)
      BY DEF NeverEmptied
    <3> HIDE DEF q, e
    <3> QED
      BY <3>1, <3>2 DEF WellFormed, q
  <2> QED
    BY <2>1, <2>2, NothingIssuable DEF WellFormed, Alike, Fields
<1>8. CASE h = Applied(a, c) /\ c.kind \in Applies
  <2> DEFINE x == [a.lock EXCEPT !.on = TRUE, !.hasBackup = TRUE, !.device = c.device, !.saved = c.saved]
  <2>1. /\ h.m \in ModelType /\ h.issue = <<>>
        /\ c.out = "uncertain" =>
                   /\ Alike(a, h.m, {"mapping", "screen", "prev", "lock"})
                   /\ h.m.screen = "recovery" /\ h.m.prev = a.screen
                   /\ h.m.lock = x
        /\ c.out # "uncertain" => Alike(a, h.m, {"mapping"})
    BY <1>8, AppliedFacts
  <2>2. NeverEmptied(h.m.mapping.kb) /\ NeverEmptied(h.m.mapping.pad)
    <3> DEFINE q == h.m.mapping
               p == a.mapping
               k == [loaded |-> p.kb.draft, draft |-> p.kb.draft]
               d == [loaded |-> p.pad.draft, draft |-> p.pad.draft]
    <3>1. q.kb \in {p.kb, k} /\ q.pad \in {p.pad, d}
      BY <1>8, AppliedFacts
    <3>2. NeverEmptied(k) /\ NeverEmptied(d)
      BY DEF NeverEmptied
    <3> HIDE DEF q, k, d
    <3> QED
      BY <3>1, <3>2 DEF WellFormed, q
  <2>3. x.on /\ x.hasBackup /\ x.saved = c.saved
    BY DEF ModelType
  <2>4. c.out = "uncertain" => c.saved \in Contents
    BY <1>8 DEF WellIssued
  <2> HIDE DEF x
  <2>5. CASE c.out = "uncertain"
    BY <2>1, <2>2, <2>3, <2>4, <2>5, NothingIssuable DEF WellFormed, Alike, Fields
  <2>6. CASE c.out # "uncertain"
    BY <2>1, <2>2, <2>6, NothingIssuable DEF WellFormed, Alike, Fields
  <2> QED
    BY <2>5, <2>6
<1>9. CASE h = Erased(a, c)
  <2>1. /\ h.m \in ModelType /\ Alike(a, h.m, {"mapping"})
        /\ SameBut(a.mapping, h.m.mapping, {"applying", "loading"})
        /\ h.issue \in {<<>>, <<Command("keyboardRead", a.mapping.device, Unread, NoDevice)>>}
    BY <1>9, ErasedFacts
  <2>2. NeverEmptied(h.m.mapping.kb) /\ NeverEmptied(h.m.mapping.pad)
    BY <2>1, NeverEmptiedFacts DEF SameBut, WellFormed
  <2>3. "keyboardRead" \in CommandKinds \ (Checks \union Applies \union {"hotplug", "restore"})
    BY DEF CommandKinds, MappingKinds, Checks, Applies
  <2>4. a.mapping.device \in MaybeDevice /\ NoDevice \in MaybeDevice
    BY DEF ModelType, MappingType, MaybeDevice
  <2>5. Issuable(h.issue)
    BY <2>1, <2>3, <2>4, PlainIssuable, NothingIssuable
  <2> QED
    BY <2>1, <2>2, <2>5 DEF WellFormed, Alike, Fields
<1>10. CASE h = Diagnosed(a, c)
  <2>1. /\ h.m \in ModelType /\ Alike(a, h.m, {"diag"}) /\ h.issue = <<>>
        /\ h.m.diag.device = a.diag.device
    BY <1>10, DiagnosedFacts
  <2> QED
    BY <2>1, NothingIssuable DEF WellFormed, Alike, Fields
<1>11. CASE h = FirmwareAnswered(a, c) /\ c.kind \in FirmwareKinds
  <2>1. /\ h.m \in ModelType /\ Alike(a, h.m, {"fw"})
        /\ \/ h.issue = <<>>
           \/ h.issue = <<Command("fwPreflight", a.fw.device, Unread, c.image)>>
           \/ \E kind \in {"fwConfirm", "fwListen"} :
                 h.issue = <<Command(kind, a.fw.plan[1], Unread, a.fw.plan[2])>>
    BY <1>11, FirmwareAnsweredFacts
  <2>2. ASSUME NEW kind \in {"fwPreflight", "fwConfirm", "fwListen"}
        PROVE  kind \in CommandKinds \ (Checks \union Applies \union {"hotplug", "restore"})
    BY DEF CommandKinds, FirmwareKinds, Checks, Applies
  <2>3. /\ a.fw.device \in MaybeDevice /\ a.fw.plan[1] \in MaybeDevice /\ a.fw.plan[2] \in MaybeDevice
        /\ c.image \in MaybeDevice
    BY DEF ModelType, CommandType
  <2>4. Issuable(h.issue)
    BY <2>1, <2>2, <2>3, PlainIssuable, NothingIssuable
  <2> QED
    BY <2>1, <2>4 DEF WellFormed, Alike, Fields
<1> QED
    BY <1>1, <1>2, <1>3, <1>4, <1>5, <1>6, <1>7, <1>8, <1>9, <1>10, <1>11 DEF Answers, Applies

-----------------------------------------------------------------------------
(* A command runs. *)

\* The i-th command has become c, and the others are as they were.
Becomes(i, c) ==
    /\ cmds' \in Seq(CommandType) /\ DOMAIN cmds' = DOMAIN cmds
    /\ cmds'[i] = c /\ \A k \in DOMAIN cmds \ {i} : cmds'[k] = cmds[k]

LEMMA Exchanged ==
    ASSUME cmds \in Seq(CommandType), NEW i \in DOMAIN cmds, NEW c \in CommandType,
           cmds' = [cmds EXCEPT ![i] = c]
    PROVE  Becomes(i, c)
<1>1. cmds' \in Seq(CommandType) /\ Len(cmds') = Len(cmds)
    OBVIOUS
<1>2. cmds'[i] = c /\ \A k \in DOMAIN cmds \ {i} : cmds'[k] = cmds[k]
    OBVIOUS
<1>3. DOMAIN cmds' = DOMAIN cmds
    OBVIOUS
<1> QED
    BY <1>1, <1>2, <1>3 DEF Becomes

Endings == {"ok", "error", "putBack", "uncertain", "denied", "answers", "silent", "gone"}

\* A command that has ended says what it said before, and how it ended.
SameSaid(c, d, changed) ==
    \A f \in {"kind", "device", "value", "image", "out", "saved", "found"} \ changed : d[f] = c[f]

LEMMA Ended ==
    ASSUME cmds \in Seq(CommandType), NEW i \in DOMAIN cmds, NEW out \in Endings, Ends(i, out)
    PROVE  /\ Becomes(i, cmds'[i]) /\ SameSaid(cmds[i], cmds'[i], {"out"}) /\ cmds'[i].out = out
<1> DEFINE c == [cmds[i] EXCEPT !.out = out]
<1>1. cmds[i] \in CommandType
    OBVIOUS
<1>2. cmds' = [cmds EXCEPT ![i] = c]
    BY DEF Ends
<1>3. c \in CommandType /\ SameSaid(cmds[i], c, {"out"}) /\ c.out = out
    BY <1>1 DEF CommandType, SameSaid, Endings
<1> HIDE DEF c
<1>4. Becomes(i, c)
    BY <1>2, <1>3, Exchanged
<1>5. cmds'[i] = c
    BY <1>4 DEF Becomes
<1> QED
    BY <1>3, <1>4, <1>5

LEMMA EndedWith ==
    ASSUME cmds \in Seq(CommandType), NEW i \in DOMAIN cmds
    PROVE  /\ \A value \in 0 .. 2 :
                cmds' = [cmds EXCEPT ![i].out = "ok", ![i].value = value] =>
                  /\ Becomes(i, cmds'[i]) /\ SameSaid(cmds[i], cmds'[i], {"out", "value"})
                  /\ cmds'[i].out = "ok" /\ cmds'[i].value = value
           /\ \A value \in 0 .. 2 :
                cmds' = [cmds EXCEPT ![i].out = "uncertain", ![i].saved = value] =>
                  /\ Becomes(i, cmds'[i]) /\ SameSaid(cmds[i], cmds'[i], {"out", "saved"})
                  /\ cmds'[i].out = "uncertain" /\ cmds'[i].saved = value
           /\ \A image \in MaybeDevice :
                cmds' = [cmds EXCEPT ![i].out = "ok", ![i].image = image] =>
                  /\ Becomes(i, cmds'[i]) /\ SameSaid(cmds[i], cmds'[i], {"out", "image"})
                  /\ cmds'[i].out = "ok" /\ cmds'[i].image = image
           /\ \A found \in SUBSET Devices :
                cmds' = [cmds EXCEPT ![i].out = "ok", ![i].found = found] =>
                  /\ Becomes(i, cmds'[i]) /\ SameSaid(cmds[i], cmds'[i], {"out", "found"})
                  /\ cmds'[i].out = "ok" /\ cmds'[i].found = found
<1>1. cmds[i] \in CommandType
    OBVIOUS
<1>2. ASSUME NEW value \in 0 .. 2, cmds' = [cmds EXCEPT ![i].out = "ok", ![i].value = value]
      PROVE  /\ Becomes(i, cmds'[i]) /\ SameSaid(cmds[i], cmds'[i], {"out", "value"})
             /\ cmds'[i].out = "ok" /\ cmds'[i].value = value
  <2> DEFINE c == [cmds[i] EXCEPT !.out = "ok", !.value = value]
  <2>1. cmds' = [cmds EXCEPT ![i] = c]
    BY <1>1, <1>2
  <2>2. c \in CommandType /\ SameSaid(cmds[i], c, {"out", "value"}) /\ c.out = "ok" /\ c.value = value
    BY <1>1 DEF CommandType, SameSaid
  <2> HIDE DEF c
  <2>3. Becomes(i, c)
    BY <2>1, <2>2, Exchanged
  <2>4. cmds'[i] = c
    BY <2>3 DEF Becomes
  <2> QED
    BY <2>2, <2>3, <2>4
<1>3. ASSUME NEW value \in 0 .. 2, cmds' = [cmds EXCEPT ![i].out = "uncertain", ![i].saved = value]
      PROVE  /\ Becomes(i, cmds'[i]) /\ SameSaid(cmds[i], cmds'[i], {"out", "saved"})
             /\ cmds'[i].out = "uncertain" /\ cmds'[i].saved = value
  <2> DEFINE c == [cmds[i] EXCEPT !.out = "uncertain", !.saved = value]
  <2>1. cmds' = [cmds EXCEPT ![i] = c]
    BY <1>1, <1>3
  <2>2. c \in CommandType /\ SameSaid(cmds[i], c, {"out", "saved"}) /\ c.out = "uncertain" /\ c.saved = value
    BY <1>1 DEF CommandType, SameSaid
  <2> HIDE DEF c
  <2>3. Becomes(i, c)
    BY <2>1, <2>2, Exchanged
  <2>4. cmds'[i] = c
    BY <2>3 DEF Becomes
  <2> QED
    BY <2>2, <2>3, <2>4
<1>4. ASSUME NEW image \in MaybeDevice, cmds' = [cmds EXCEPT ![i].out = "ok", ![i].image = image]
      PROVE  /\ Becomes(i, cmds'[i]) /\ SameSaid(cmds[i], cmds'[i], {"out", "image"})
             /\ cmds'[i].out = "ok" /\ cmds'[i].image = image
  <2> DEFINE c == [cmds[i] EXCEPT !.out = "ok", !.image = image]
  <2>1. cmds' = [cmds EXCEPT ![i] = c]
    BY <1>1, <1>4
  <2>2. c \in CommandType /\ SameSaid(cmds[i], c, {"out", "image"}) /\ c.out = "ok" /\ c.image = image
    BY <1>1 DEF CommandType, SameSaid
  <2> HIDE DEF c
  <2>3. Becomes(i, c)
    BY <2>1, <2>2, Exchanged
  <2>4. cmds'[i] = c
    BY <2>3 DEF Becomes
  <2> QED
    BY <2>2, <2>3, <2>4
<1>5. ASSUME NEW found \in SUBSET Devices, cmds' = [cmds EXCEPT ![i].out = "ok", ![i].found = found]
      PROVE  /\ Becomes(i, cmds'[i]) /\ SameSaid(cmds[i], cmds'[i], {"out", "found"})
             /\ cmds'[i].out = "ok" /\ cmds'[i].found = found
  <2> DEFINE c == [cmds[i] EXCEPT !.out = "ok", !.found = found]
  <2>1. cmds' = [cmds EXCEPT ![i] = c]
    BY <1>1, <1>5
  <2>2. c \in CommandType /\ SameSaid(cmds[i], c, {"out", "found"}) /\ c.out = "ok" /\ c.found = found
    BY <1>1 DEF CommandType, SameSaid
  <2> HIDE DEF c
  <2>3. Becomes(i, c)
    BY <2>1, <2>2, Exchanged
  <2>4. cmds'[i] = c
    BY <2>3 DEF Becomes
  <2> QED
    BY <2>2, <2>3, <2>4
<1> QED
    BY <1>2, <1>3, <1>4, <1>5

Typed == /\ cache \in [Devices -> {"unknown", "answers", "silent", "gone"}]
         /\ attached \subseteq Devices /\ uncertain \subseteq Devices
         /\ content \in [Devices -> Contents]
         /\ flash \in [started : SUBSET (MaybeDevice \X MaybeDevice), foreign : BOOLEAN]

\* What every command that runs does.
Ran(i) ==
    /\ Becomes(i, cmds'[i]) /\ cmds[i].out = "pending"
    /\ SameSaid(cmds[i], cmds'[i], {"value", "image", "out", "saved", "found"})
    /\ WellIssued(cmds'[i])
    /\ UNCHANGED <<visit, model, attached>>

LEMMA RunListForm ==
    ASSUME ShellTypeOK, FormInv, NEW i \in DOMAIN cmds, RunList(i)
    PROVE  Ran(i) /\ Typed'
<1>1. cmds \in Seq(CommandType) /\ Typed /\ WellIssued(cmds[i])
    BY DEF ShellTypeOK, Typed, FormInv
<1>2. UNCHANGED <<visit, model, attached>> /\ cmds[i].out = "pending" /\ cmds[i].kind = "list"
    BY DEF RunList, Runs, world
<1>3. Becomes(i, cmds'[i]) /\ SameSaid(cmds[i], cmds'[i], {"out", "found"}) /\ cmds'[i].out \in {"ok", "error"}
  <2>1. CASE cmds' = [cmds EXCEPT ![i].out = "ok", ![i].found = attached]
    <3>1. attached \in SUBSET Devices
      BY <1>1 DEF Typed
    <3> QED
      BY <1>1, <2>1, <3>1, EndedWith
  <2>2. CASE Ends(i, "error")
    BY <1>1, <2>2, Ended DEF Endings, SameSaid
  <2> QED
    BY <2>1, <2>2 DEF RunList
<1>4. WellIssued(cmds'[i])
    BY <1>2, <1>3 DEF SameSaid, WellIssued, Outcomes, Checks, Applies, Reads
<1>5. Typed'
    BY <1>1 DEF Typed, RunList, world
<1> QED
    BY <1>2, <1>3, <1>4, <1>5 DEF Ran, SameSaid

LEMMA RunDiagnoseForm ==
    ASSUME ShellTypeOK, FormInv, NEW i \in DOMAIN cmds, RunDiagnose(i)
    PROVE  Ran(i) /\ Typed'
<1> DEFINE d == cmds[i].device
           found == IF cmds[i].kind # "rediag" /\ cache[d] # "unknown" THEN {cache[d]}
                    ELSE IF d \in attached /\ Kind[d] # "silent" THEN {"answers", "silent"}
                    ELSE {"gone"}
<1>1. cmds \in Seq(CommandType) /\ Typed /\ WellIssued(cmds[i])
    BY DEF ShellTypeOK, Typed, FormInv
<1>2. UNCHANGED <<visit, model, attached>> /\ cmds[i].out = "pending" /\ cmds[i].kind \in Checks
    BY DEF RunDiagnose, Runs, world, Checks
<1>3. d \in Devices
    BY <1>1, <1>2 DEF WellIssued
<1>4. found \subseteq {"answers", "silent", "gone"}
    BY <1>1, <1>3 DEF Typed
<1>5. PICK out \in found : Ends(i, out) /\ cache' = [cache EXCEPT ![d] = out]
    BY DEF RunDiagnose
<1> HIDE DEF found
<1>6. Becomes(i, cmds'[i]) /\ SameSaid(cmds[i], cmds'[i], {"out"}) /\ cmds'[i].out = out
    BY <1>1, <1>4, <1>5, Ended DEF Endings
<1>7. WellIssued(cmds'[i])
    BY <1>2, <1>3, <1>4, <1>6 DEF SameSaid, WellIssued, Outcomes, Checks, Applies, Reads
<1>8. cache' \in [Devices -> {"unknown", "answers", "silent", "gone"}]
    BY <1>1, <1>4, <1>5 DEF Typed
<1>9. Typed'
    BY <1>1, <1>8 DEF Typed, RunDiagnose, world
<1> QED
    BY <1>2, <1>6, <1>7, <1>9 DEF Ran, SameSaid

LEMMA RunReadForm ==
    ASSUME ShellTypeOK, FormInv, NEW i \in DOMAIN cmds, RunRead(i)
    PROVE  /\ Ran(i) /\ Typed' /\ UNCHANGED <<content, uncertain, astray>> /\ cmds[i].kind \in Reads
           /\ \/ cmds'[i].out = "ok" /\ cmds'[i].value = content[cmds[i].device]
              \/ cmds'[i].out = "error"
<1>1. cmds \in Seq(CommandType) /\ Typed /\ WellIssued(cmds[i])
    BY DEF ShellTypeOK, Typed, FormInv
<1>2. /\ UNCHANGED <<visit, model, attached>> /\ cmds[i].out = "pending" /\ cmds[i].kind \in Reads
      /\ UNCHANGED <<content, uncertain, astray>>
    BY DEF RunRead, Runs, world, Reads
<1>3. CASE AtHand(i) /\ cmds' = [cmds EXCEPT ![i].out = "ok", ![i].value = content[cmds[i].device]]
  <2>1. content[cmds[i].device] \in Contents
    BY <1>1, <1>3 DEF Typed, AtHand
  <2>2. content[cmds[i].device] \in 0 .. 2
    BY <2>1 DEF Contents
  <2> DEFINE value == content[cmds[i].device]
  <2> HIDE DEF value
  <2>3. /\ Becomes(i, cmds'[i]) /\ SameSaid(cmds[i], cmds'[i], {"out", "value"})
        /\ cmds'[i].out = "ok" /\ cmds'[i].value = value
    BY <1>1, <1>3, <2>2, EndedWith DEF value
  <2>4. WellIssued(cmds'[i])
    BY <1>2, <2>1, <2>3 DEF SameSaid, WellIssued, Outcomes, Checks, Applies, Reads, value
  <2>5. Ran(i)
    BY <1>2, <2>3, <2>4 DEF Ran, SameSaid
  <2> QED
    BY <1>1, <1>2, <2>3, <2>5 DEF value, Typed, RunRead, world
<1>4. CASE Ends(i, "error")
  <2>1. Becomes(i, cmds'[i]) /\ SameSaid(cmds[i], cmds'[i], {"out"}) /\ cmds'[i].out = "error"
    BY <1>1, <1>4, Ended DEF Endings
  <2>2. WellIssued(cmds'[i])
    BY <1>2, <2>1 DEF SameSaid, WellIssued, Outcomes, Checks, Applies, Reads
  <2>3. Ran(i)
    BY <1>2, <2>1, <2>2 DEF Ran, SameSaid
  <2> QED
    BY <1>1, <1>2, <2>1, <2>3 DEF Typed, RunRead, world
<1> QED
    BY <1>3, <1>4 DEF RunRead

\* A write of a draft ends in one of these ways.
ApplyEnds(i) ==
    LET c == cmds[i] IN
    /\ cmds[i].kind \in Applies /\ UNCHANGED astray /\ cmds'[i].value = c.value
    /\ \/ /\ cmds'[i].out = "ok" /\ c.device \in Devices
          /\ content' = [content EXCEPT ![c.device] = c.value] /\ uncertain' = uncertain \ {c.device}
       \/ /\ cmds'[i].out = "uncertain" /\ c.device \in Devices /\ cmds'[i].saved = content[c.device]
          /\ \E value \in Contents : content' = [content EXCEPT ![c.device] = value]
          /\ uncertain' = uncertain \union {c.device}
       \/ cmds'[i].out \in {"putBack", "error"} /\ UNCHANGED <<content, uncertain>>

LEMMA RunApplyForm ==
    ASSUME ShellTypeOK, FormInv, NEW i \in DOMAIN cmds, RunApply(i)
    PROVE  Ran(i) /\ Typed' /\ ApplyEnds(i)
<1> DEFINE d == cmds[i].device
<1>1. cmds \in Seq(CommandType) /\ Typed /\ WellIssued(cmds[i])
    BY DEF ShellTypeOK, Typed, FormInv
<1>2. /\ UNCHANGED <<visit, model, cache, attached, flash, astray>>
      /\ cmds[i].out = "pending" /\ cmds[i].kind \in Applies
    BY DEF RunApply, Runs, world, Applies
<1>3. AtHand(i) => d \in Devices
    BY <1>1 DEF AtHand, Typed
<1>4. cmds[i].value \in Contents
    BY <1>1, <1>2 DEF WellIssued
<1>5. ASSUME NEW out \in {"ok", "putBack", "error"}, Ends(i, out)
      PROVE  Ran(i) /\ cmds'[i].out = out /\ cmds'[i].value = cmds[i].value
  <2>1. Becomes(i, cmds'[i]) /\ SameSaid(cmds[i], cmds'[i], {"out"}) /\ cmds'[i].out = out
    BY <1>1, <1>5, Ended DEF Endings
  <2>2. WellIssued(cmds'[i])
    BY <1>2, <1>4, <2>1 DEF SameSaid, WellIssued, Outcomes, Checks, Applies, Reads
  <2> QED
    BY <1>2, <2>1, <2>2 DEF Ran, SameSaid
<1>6. CASE /\ AtHand(i) /\ Ends(i, "ok")
           /\ content' = [content EXCEPT ![d] = cmds[i].value]
           /\ uncertain' = uncertain \ {d}
  <2>1. content' \in [Devices -> Contents] /\ uncertain' \subseteq Devices
    BY <1>1, <1>4, <1>6 DEF Typed
  <2>2. Typed'
    BY <1>1, <1>2, <2>1 DEF Typed
  <2> QED
    BY <1>2, <1>3, <1>5, <1>6, <2>2 DEF ApplyEnds
<1>7. CASE /\ AtHand(i)
           /\ cmds' = [cmds EXCEPT ![i].out = "uncertain", ![i].saved = content[d]]
           /\ \E value \in Contents : content' = [content EXCEPT ![d] = value]
           /\ uncertain' = uncertain \union {d}
  <2> DEFINE saved == content[d]
  <2>1. saved \in Contents /\ d \in Devices
    BY <1>1, <1>3, <1>7 DEF Typed
  <2>2. saved \in 0 .. 2
    BY <2>1 DEF Contents
  <2>3. content' \in [Devices -> Contents] /\ uncertain' \subseteq Devices
    BY <1>1, <1>3, <1>7 DEF Typed
  <2> HIDE DEF saved
  <2>4. /\ Becomes(i, cmds'[i]) /\ SameSaid(cmds[i], cmds'[i], {"out", "saved"})
        /\ cmds'[i].out = "uncertain" /\ cmds'[i].saved = saved
    BY <1>1, <1>7, <2>2, EndedWith DEF saved
  <2>5. WellIssued(cmds'[i])
    BY <1>2, <1>4, <2>1, <2>4 DEF SameSaid, WellIssued, Outcomes, Checks, Applies, Reads
  <2>6. Ran(i) /\ cmds'[i].value = cmds[i].value
    BY <1>2, <2>4, <2>5 DEF Ran, SameSaid
  <2>7. Typed'
    BY <1>1, <1>2, <2>3 DEF Typed
  <2>8. ApplyEnds(i)
    BY <1>2, <1>7, <2>1, <2>4, <2>6 DEF ApplyEnds, saved
  <2> QED
    BY <2>6, <2>7, <2>8
<1>8. CASE ((AtHand(i) /\ Ends(i, "putBack")) \/ Ends(i, "error")) /\ UNCHANGED <<content, uncertain>>
  <2>1. Typed'
    BY <1>1, <1>2, <1>8 DEF Typed
  <2>2. Ran(i) /\ cmds'[i].out \in {"putBack", "error"} /\ cmds'[i].value = cmds[i].value
    BY <1>5, <1>8
  <2> QED
    BY <1>2, <1>8, <2>1, <2>2 DEF ApplyEnds
<1> QED
    BY <1>6, <1>7, <1>8 DEF RunApply

EraseEnds(i) ==
    LET c == cmds[i] IN
    /\ c.kind = "keyboardErase" /\ UNCHANGED uncertain /\ astray \subseteq astray'
    /\ \/ /\ cmds'[i].out = "ok" /\ UNCHANGED astray
          /\ c.device \in Devices /\ content' = [content EXCEPT ![c.device] = 1]
       \/ /\ cmds'[i].out = "error" /\ "eraseFailed" \in astray'
          /\ c.device = NoDevice => UNCHANGED content
       \/ /\ cmds'[i].out = "error" /\ UNCHANGED <<content, astray>>

LEMMA RunEraseForm ==
    ASSUME ShellTypeOK, FormInv, NEW i \in DOMAIN cmds, RunErase(i)
    PROVE  Ran(i) /\ Typed' /\ EraseEnds(i)
<1>1. cmds \in Seq(CommandType) /\ Typed /\ WellIssued(cmds[i])
    BY DEF ShellTypeOK, Typed, FormInv
<1>2. /\ UNCHANGED <<visit, model, cache, attached, uncertain, flash>>
      /\ cmds[i].out = "pending" /\ cmds[i].kind = "keyboardErase"
    BY DEF RunErase, Runs, world
<1>3. ASSUME NEW out \in {"ok", "error"}, Ends(i, out)
      PROVE  Ran(i) /\ cmds'[i].out = out
  <2>1. Becomes(i, cmds'[i]) /\ SameSaid(cmds[i], cmds'[i], {"out"}) /\ cmds'[i].out = out
    BY <1>1, <1>3, Ended DEF Endings
  <2>2. WellIssued(cmds'[i])
    BY <1>2, <2>1 DEF SameSaid, WellIssued, Outcomes, Checks, Applies, Reads
  <2> QED
    BY <1>2, <2>1, <2>2 DEF Ran, SameSaid
<1>4. content' \in [Devices -> Contents] => Typed'
    BY <1>1, <1>2 DEF Typed
<1>5. CASE AtHand(i) /\ Ends(i, "ok") /\ content' = [content EXCEPT ![cmds[i].device] = 1] /\ UNCHANGED astray
    BY <1>1, <1>2, <1>3, <1>4, <1>5 DEF Typed, EraseEnds, AtHand, Contents
<1>6. CASE /\ Ends(i, "error")
           /\ \E d \in {cmds[i].device} \intersect attached, value \in Contents :
                 content' = [content EXCEPT ![d] = value]
           /\ astray' = astray \union {"eraseFailed"}
  <2>1. content' \in [Devices -> Contents] /\ cmds[i].device \in Devices
    BY <1>1, <1>6 DEF Typed
  <2> QED
    BY <1>2, <1>3, <1>4, <1>6, <2>1, ShellAssumption DEF EraseEnds
<1>7. CASE Ends(i, "error") /\ ~AtHand(i) /\ UNCHANGED <<content, astray>>
    BY <1>1, <1>2, <1>3, <1>4, <1>7 DEF Typed, EraseEnds
<1> QED
    BY <1>5, <1>6, <1>7 DEF RunErase

ProbeEnds(i) ==
    /\ cmds[i].kind = "probe" /\ UNCHANGED <<content, astray>>
    /\ \/ UNCHANGED uncertain
       \/ cmds'[i].out = "uncertain" /\ uncertain' = uncertain \union {cmds[i].device}

LEMMA RunProbeForm ==
    ASSUME ShellTypeOK, FormInv, NEW i \in DOMAIN cmds, RunProbe(i)
    PROVE  Ran(i) /\ Typed' /\ ProbeEnds(i)
<1>1. cmds \in Seq(CommandType) /\ Typed /\ WellIssued(cmds[i])
    BY DEF ShellTypeOK, Typed, FormInv
<1>2. /\ UNCHANGED <<visit, model, cache, attached, content, flash, astray>>
      /\ cmds[i].out = "pending" /\ cmds[i].kind = "probe"
    BY DEF RunProbe, Runs, world
<1>3. ASSUME NEW out \in {"ok", "error", "uncertain"}, Ends(i, out)
      PROVE  Ran(i) /\ cmds'[i].out = out
  <2>1. Becomes(i, cmds'[i]) /\ SameSaid(cmds[i], cmds'[i], {"out"}) /\ cmds'[i].out = out
    BY <1>1, <1>3, Ended DEF Endings
  <2>2. WellIssued(cmds'[i])
    BY <1>2, <2>1 DEF SameSaid, WellIssued, Outcomes, Checks, Applies, Reads
  <2> QED
    BY <1>2, <2>1, <2>2 DEF Ran, SameSaid
<1>4. Ran(i) /\ uncertain' \subseteq Devices /\ ProbeEnds(i)
  <2>1. CASE (\E out \in {"ok", "error"} : Ends(i, out)) /\ UNCHANGED uncertain
    BY <1>1, <1>2, <1>3, <2>1 DEF Typed, ProbeEnds
  <2>2. CASE AtHand(i) /\ Ends(i, "uncertain") /\ uncertain' = uncertain \union {cmds[i].device}
    BY <1>1, <1>2, <1>3, <2>2 DEF Typed, AtHand, ProbeEnds
  <2> QED
    BY <2>1, <2>2 DEF RunProbe
<1> QED
    BY <1>1, <1>2, <1>4 DEF Typed

RestoreEnds(i) ==
    LET c == cmds[i] IN
    /\ c.kind = "restore" /\ UNCHANGED astray /\ cmds'[i].value = c.value
    /\ \/ /\ cmds'[i].out = "ok" /\ c.device \in Devices
          /\ content' = [content EXCEPT ![c.device] = c.value] /\ uncertain' = uncertain \ {c.device}
       \/ cmds'[i].out = "error" /\ UNCHANGED <<content, uncertain>>

LEMMA RunRestoreForm ==
    ASSUME ShellTypeOK, FormInv, NEW i \in DOMAIN cmds, RunRestore(i)
    PROVE  Ran(i) /\ Typed' /\ RestoreEnds(i)
<1>1. cmds \in Seq(CommandType) /\ Typed /\ WellIssued(cmds[i])
    BY DEF ShellTypeOK, Typed, FormInv
<1>2. /\ UNCHANGED <<visit, model, cache, attached, flash, astray>>
      /\ cmds[i].out = "pending" /\ cmds[i].kind = "restore"
    BY DEF RunRestore, Runs, world
<1>3. cmds[i].value \in Contents
    BY <1>1, <1>2 DEF WellIssued
<1>4. ASSUME NEW out \in {"ok", "error"}, Ends(i, out)
      PROVE  Ran(i) /\ cmds'[i].out = out /\ cmds'[i].value = cmds[i].value
  <2>1. Becomes(i, cmds'[i]) /\ SameSaid(cmds[i], cmds'[i], {"out"}) /\ cmds'[i].out = out
    BY <1>1, <1>4, Ended DEF Endings
  <2>2. WellIssued(cmds'[i])
    BY <1>2, <1>3, <2>1 DEF SameSaid, WellIssued, Outcomes, Checks, Applies, Reads
  <2> QED
    BY <1>2, <2>1, <2>2 DEF Ran, SameSaid
<1>5. Ran(i) /\ uncertain' \subseteq Devices /\ content' \in [Devices -> Contents] /\ RestoreEnds(i)
  <2>1. CASE /\ AtHand(i) /\ Ends(i, "ok") /\ content' = [content EXCEPT ![cmds[i].device] = cmds[i].value]
             /\ uncertain' = uncertain \ {cmds[i].device}
    BY <1>1, <1>2, <1>3, <1>4, <2>1 DEF Typed, AtHand, RestoreEnds
  <2>2. CASE Ends(i, "error") /\ UNCHANGED <<content, uncertain>>
    BY <1>1, <1>2, <1>4, <2>2 DEF Typed, RestoreEnds
  <2> QED
    BY <2>1, <2>2 DEF RunRestore
<1> QED
    BY <1>1, <1>2, <1>5 DEF Typed

\* The image a download finds is its device's; a confirmed session transfers
\* what it was started with.
FirmwareEnds(i) ==
    LET c == cmds[i] IN
    /\ c.kind \in FirmwareKinds /\ UNCHANGED <<content, uncertain, astray>>
    /\ \/ c.kind = "fwDownload" /\ cmds'[i].out = "ok" /\ cmds'[i].image = c.device
       \/ cmds'[i].image = c.image /\ (c.kind = "fwDownload" => cmds'[i].out # "ok")
    /\ \/ flash'.foreign = flash.foreign
       \/ c.kind = "fwConfirm" /\ flash'.foreign = (flash.foreign \/ c.device # c.image)

LEMMA RunFirmwareForm ==
    ASSUME ShellTypeOK, FormInv, NEW i \in DOMAIN cmds, RunFirmware(i)
    PROVE  Ran(i) /\ Typed' /\ FirmwareEnds(i)
<1> DEFINE c == cmds[i]
           plan == <<c.device, c.image>>
<1>1. cmds \in Seq(CommandType) /\ Typed /\ WellIssued(cmds[i])
    BY DEF ShellTypeOK, Typed, FormInv
<1>2. /\ UNCHANGED <<visit, model, cache, attached, content, uncertain, astray>>
      /\ c.out = "pending" /\ c.kind \in FirmwareKinds
    BY DEF RunFirmware, Runs, world
<1>3. c \in CommandType /\ c.device \in MaybeDevice /\ c.image \in MaybeDevice
  <2>1. cmds[i] \in CommandType
    BY <1>1
  <2> QED
    BY <2>1 DEF CommandType
<1>4. flash' \in [started : SUBSET (MaybeDevice \X MaybeDevice), foreign : BOOLEAN] => Typed'
    BY <1>1, <1>2 DEF Typed
<1>5. ASSUME NEW out \in {"ok", "denied", "error"}, Ends(i, out), out \in Outcomes(c.kind)
      PROVE  Ran(i) /\ cmds'[i].out = out /\ cmds'[i].image = c.image
  <2>1. Becomes(i, cmds'[i]) /\ SameSaid(cmds[i], cmds'[i], {"out"}) /\ cmds'[i].out = out
    BY <1>1, <1>5, Ended DEF Endings
  <2>2. WellIssued(cmds'[i])
    BY <1>2, <1>5, <2>1 DEF SameSaid, WellIssued, Checks, Applies, Reads, FirmwareKinds
  <2> QED
    BY <1>2, <2>1, <2>2 DEF Ran, SameSaid
<1>6. /\ "ok" \in Outcomes(c.kind) /\ (c.kind # "fwListen" => "error" \in Outcomes(c.kind))
      /\ c.kind = "fwPreflight" => "denied" \in Outcomes(c.kind)
    BY <1>2 DEF Outcomes, FirmwareKinds, Checks, Applies
<1>7. CASE c.kind = "fwDownload" /\ cmds' = [cmds EXCEPT ![i].out = "ok", ![i].image = c.device]
           /\ UNCHANGED flash
  <2>1. /\ Becomes(i, cmds'[i]) /\ SameSaid(cmds[i], cmds'[i], {"out", "image"})
        /\ cmds'[i].out = "ok" /\ cmds'[i].image = c.device
    BY <1>1, <1>3, <1>7, EndedWith
  <2>2. WellIssued(cmds'[i])
    BY <1>6, <1>7, <2>1 DEF SameSaid, WellIssued, Checks, Applies, Reads
  <2>3. Ran(i)
    BY <1>2, <2>1, <2>2 DEF Ran, SameSaid
  <2> QED
    BY <1>1, <1>2, <1>4, <1>7, <2>1, <2>3 DEF FirmwareEnds, Typed
<1>8. CASE c.kind # "fwDownload" /\ (\E out \in {"ok", "denied"} : Ends(i, out) /\ out \in Outcomes(c.kind))
           /\ UNCHANGED flash
  <2>1. Ran(i) /\ cmds'[i].image = c.image
    BY <1>5, <1>8
  <2> QED
    BY <1>1, <1>2, <1>4, <1>8, <2>1 DEF FirmwareEnds, Typed
<1>9. CASE c.kind = "fwStart" /\ Ends(i, "ok") /\ flash' = [flash EXCEPT !.started = @ \union {plan}]
  <2>1. flash'.started = flash.started \union {plan} /\ flash'.foreign = flash.foreign
    BY <1>1, <1>9 DEF Typed
  <2>2. Ran(i) /\ cmds'[i].image = c.image
    BY <1>5, <1>6, <1>9
  <2>3. Typed'
    BY <1>1, <1>3, <1>4, <1>9 DEF Typed
  <2> QED
    BY <1>2, <1>9, <2>1, <2>2, <2>3 DEF FirmwareEnds
<1>10. CASE /\ c.kind = "fwConfirm" /\ plan \in flash.started /\ Ends(i, "ok")
            /\ flash' = [started |-> flash.started \ {plan}, foreign |-> flash.foreign \/ plan[1] # plan[2]]
  <2>1. /\ flash'.started = flash.started \ {plan}
        /\ flash'.foreign = (flash.foreign \/ c.device # c.image)
    BY <1>10
  <2>2. Ran(i) /\ cmds'[i].image = c.image
    BY <1>5, <1>6, <1>10
  <2>3. Typed'
    BY <1>1, <1>4, <1>10 DEF Typed
  <2> QED
    BY <1>2, <1>10, <2>1, <2>2, <2>3 DEF FirmwareEnds
<1>11. CASE c.kind # "fwListen" /\ Ends(i, "error") /\ UNCHANGED flash
  <2>1. Ran(i) /\ cmds'[i].image = c.image /\ cmds'[i].out = "error"
    BY <1>5, <1>6, <1>11
  <2> QED
    BY <1>1, <1>2, <1>4, <1>11, <2>1 DEF FirmwareEnds, Typed
<1> QED
    BY <1>6, <1>7, <1>8, <1>9, <1>10, <1>11 DEF RunFirmware

-----------------------------------------------------------------------------
(* Every step, with what it does to the model and the commands. *)

LEMMA FollowsForm ==
    ASSUME NEW cs, NEW gone, NEW t, NEW next, \A i \in DOMAIN cs : WellIssued(cs[i]), Issuable(t),
           Follows(cs, gone, t, next)
    PROVE  \A i \in DOMAIN next : WellIssued(next[i])
BY DEF Follows, Issuable

LEMMA ForgottenType ==
    ASSUME Typed
    PROVE  Forgotten \in [Devices -> {"unknown", "answers", "silent", "gone"}]
BY DEF Typed, Forgotten

LEMMA TypeParts == ShellTypeOK <=> /\ visit \in Visits /\ model \in ModelType
                               /\ model.cursor \in DOMAIN model.listed \union {1}
                               /\ cmds \in Seq(CommandType) /\ Typed
BY DEF ShellTypeOK, Typed

\* An edit changes the draft of the editor's profile.
EditDone(value) ==
    /\ Editing /\ value # Editor(model.mapping).draft
    /\ model' \in ModelType /\ Alike(model, model', {"mapping"})
    /\ SameBut(model.mapping, model'.mapping, {"kb", "pad"})
    /\ model'.mapping.kb.loaded = model.mapping.kb.loaded
    /\ model'.mapping.pad.loaded = model.mapping.pad.loaded
    /\ WellFormed(model')
    /\ UNCHANGED <<visit, cmds, cache, world>>
    /\ astray' = astray \union When(model.mapping.applying, "editedWhileWriting")

LEMMA EditSteps ==
    ASSUME ShellTypeOK, FormInv, NEW value \in Contents \union {Editor(model.mapping).loaded}, Edit(value)
    PROVE  EditDone(value)
<1> DEFINE p == model.mapping
           q == IF p.keyboard THEN KeyboardEdited(p, value) ELSE PadEdited(p, value)
<1>1. model \in ModelType /\ WellFormed(model) /\ p \in MappingType
    BY DEF ShellTypeOK, FormInv, ModelType
<1>2. Editor(p) \in {p.kb, p.pad} /\ Editor(p) = IF p.keyboard THEN p.kb ELSE p.pad
    BY DEF Editor
<1>3. value \in 0 .. 2 /\ (value = Unread => Editor(p).loaded = Unread)
    BY <1>1, <1>2 DEF MappingType, Contents, Unread
<1>4. model' = [model EXCEPT !.mapping = q]
    BY <1>1 DEF Edit, ModelType
<1>5. NeverEmptied(p.kb) /\ NeverEmptied(p.pad)
    BY <1>1 DEF WellFormed
<1>6. /\ q \in MappingType /\ SameBut(p, q, {"kb", "pad"})
      /\ q.kb.loaded = p.kb.loaded /\ q.pad.loaded = p.pad.loaded
      /\ NeverEmptied(q.kb) /\ NeverEmptied(q.pad)
  <2>1. CASE p.keyboard
    <3> DEFINE e == [p.kb EXCEPT !.draft = value]
    <3>1. e \in [loaded : 0 .. 2, draft : 0 .. 2] /\ e.loaded = p.kb.loaded /\ e.draft = value
      BY <1>1, <1>3 DEF MappingType
    <3>2. q = [p EXCEPT !.kb = e]
      BY <1>1, <2>1 DEF KeyboardEdited, MappingType
    <3>3. NeverEmptied(e)
      BY <1>2, <1>3, <2>1, <3>1 DEF NeverEmptied
    <3> HIDE DEF e, p, q
    <3>4. q \in MappingType /\ SameBut(p, q, {"kb", "pad"}) /\ q.kb = e /\ q.pad = p.pad
      BY <1>1, <3>1, <3>2 DEF MappingType, SameBut
    <3> QED
      BY <1>5, <3>1, <3>3, <3>4
  <2>2. CASE ~p.keyboard
    <3> DEFINE e == [p.pad EXCEPT !.draft = value]
    <3>1. e \in [loaded : 0 .. 2, draft : 0 .. 2] /\ e.loaded = p.pad.loaded /\ e.draft = value
      BY <1>1, <1>3 DEF MappingType
    <3>2. q = [p EXCEPT !.pad = e]
      BY <1>1, <2>2 DEF PadEdited, MappingType
    <3>3. NeverEmptied(e)
      BY <1>2, <1>3, <2>2, <3>1 DEF NeverEmptied
    <3> HIDE DEF e, p, q
    <3>4. q \in MappingType /\ SameBut(p, q, {"kb", "pad"}) /\ q.pad = e /\ q.kb = p.kb
      BY <1>1, <3>1, <3>2 DEF MappingType, SameBut
    <3> QED
      BY <1>5, <3>1, <3>3, <3>4
  <2> QED
    BY <2>1, <2>2
<1> HIDE DEF q
<1>7. model' \in ModelType /\ Alike(model, model', {"mapping"}) /\ model'.mapping = q
    BY <1>1, <1>4, <1>6, WithMapping
<1>8. WellFormed(model')
    BY <1>1, <1>6, <1>7 DEF WellFormed, Alike, Fields
<1> QED
    BY <1>6, <1>7, <1>8 DEF Edit, EditDone

\* A step of the user's but an edit, with the commands it starts.
UserStep(h) ==
    /\ UserHandled(model, h) /\ model' = h.m
    /\ Follows(cmds, {}, h.issue, cmds') /\ Kept(cmds, {}, h.issue, cmds')
    /\ h.m \in ModelType /\ WellFormed(h.m) /\ Issuable(h.issue)
    /\ astray' = astray \union OpeningLapses(h)
    /\ UNCHANGED <<visit, world>> /\ Typed'

LEMMA UserStepFacts ==
    ASSUME ShellTypeOK, FormInv, NEW h, UserDoes(h)
    PROVE  UserStep(h)
<1>1. model \in ModelType /\ WellFormed(model) /\ cmds \in Seq(CommandType) /\ Typed
    BY TypeParts DEF FormInv
<1>2. h.m \in ModelType /\ UserHandled(model, h) /\ Do(h) /\ cache' \in {cache, Forgotten}
    BY DEF UserDoes
<1>3. WellFormed(h.m) /\ Issuable(h.issue)
    BY <1>1, <1>2, UserForm
<1>4. Follows(cmds, {}, h.issue, cmds') /\ Kept(cmds, {}, h.issue, cmds')
    BY <1>1, <1>2, <1>3, Joined DEF Do, Issuable
<1>5. Typed'
    BY <1>1, <1>2, ForgottenType DEF Typed, Do, world
<1> QED
    BY <1>2, <1>3, <1>4, <1>5 DEF UserStep, Do

\* The i-th answer reaches the model a, in which Recovery may have taken over.
AnswerStep(i, a, h) ==
    /\ cmds[i] \in CommandType /\ WellIssued(cmds[i]) /\ cmds[i].out # "pending"
    /\ a \in ModelType /\ WellFormed(a) /\ TakenOver(model, a) /\ Answers(a, cmds[i], h)
    /\ cmds[i].kind \in {"list", "padRead", "padApply", "keyboardErase"} => a = model
    /\ cmds[i].kind \in RoutedKinds => a = Routed(model)
    /\ model' = h.m /\ Follows(cmds, {i}, h.issue, cmds') /\ Kept(cmds, {i}, h.issue, cmds')
    /\ h.m \in ModelType /\ WellFormed(h.m) /\ Issuable(h.issue)
    /\ h.m.modal = a.modal /\ (a.lock.on => h.m.lock.on)
    /\ a.lock.on /\ a.screen = "recovery" => h.m.screen = "recovery"
    /\ astray' = astray \union AnswerLapses(h, cmds[i])
    /\ UNCHANGED <<visit, world>> /\ Typed'

LEMMA AnswerStepFacts ==
    ASSUME ShellTypeOK, FormInv, NEW i \in DOMAIN cmds, Deliver(i)
    PROVE  \E a, h : AnswerStep(i, a, h)
<1> DEFINE c == cmds[i]
           h == Handled(model, c)
<1>1. model \in ModelType /\ WellFormed(model) /\ cmds \in Seq(CommandType) /\ Typed /\ WellIssued(c)
    BY TypeParts DEF FormInv
<1>2. /\ c.out # "pending" /\ model' = h.m /\ cmds' = RemoveAt(cmds, i) \o h.issue
      /\ astray' = astray \union AnswerLapses(h, c)
      /\ cache' \in {cache, Forgotten} /\ UNCHANGED <<visit, world>>
    BY DEF Deliver
<1>3. c \in CommandType
    BY <1>1
<1>4. PICK a \in ModelType : /\ WellFormed(a) /\ TakenOver(model, a) /\ Answers(a, c, h)
                             /\ c.kind \in {"list", "padRead", "padApply", "keyboardErase"} => a = model
                             /\ c.kind \in RoutedKinds => a = Routed(model)
    BY <1>1, <1>3, HandledBy
<1> HIDE DEF h
<1>5. /\ h.m \in ModelType /\ WellFormed(h.m) /\ Issuable(h.issue)
      /\ h.m.modal = a.modal /\ (a.lock.on => h.m.lock.on)
      /\ a.lock.on /\ a.screen = "recovery" => h.m.screen = "recovery"
    BY <1>1, <1>2, <1>3, <1>4, AnswersForm
<1>6. Follows(cmds, {i}, h.issue, cmds') /\ Kept(cmds, {i}, h.issue, cmds')
    BY <1>1, <1>2, <1>5, TakenOut DEF Issuable
<1>7. Typed'
    BY <1>1, <1>2, ForgottenType DEF Typed, world
<1>8. AnswerStep(i, a, h)
    BY <1>1, <1>2, <1>3, <1>4, <1>5, <1>6, <1>7 DEF AnswerStep
<1> QED
    BY <1>8

ReplugDone(c) ==
    /\ c.kind = "hotplug" /\ c \in CommandType /\ WellIssued(c)
    /\ Follows(cmds, {}, <<c>>, cmds') /\ Kept(cmds, {}, <<c>>, cmds')
    /\ UNCHANGED <<visit, model, content, uncertain, flash, astray>> /\ Typed'

LEMMA ReplugSteps ==
    ASSUME ShellTypeOK, FormInv, NEW d \in Devices, Replug(d)
    PROVE  \E c : ReplugDone(c)
<1> DEFINE x == Command("hotplug", d, Unread, NoDevice)
           out == IF d \in attached THEN "gone" ELSE "ok"
           c == [x EXCEPT !.out = out]
<1>1. x \in CommandType /\ x.kind = "hotplug" /\ out \in {"gone", "ok"}
    BY DEF Command, CommandType, CommandKinds, Unread, MaybeDevice
<1>2. cmds' = Append(cmds, c) /\ cmds \in Seq(CommandType) /\ Typed
      /\ attached' \in {attached \ {d}, attached \union {d}}
      /\ UNCHANGED <<visit, model, cache, content, uncertain, flash, astray>>
    BY TypeParts DEF Replug
<1> HIDE DEF x, out
<1>3. c \in CommandType /\ c.kind = "hotplug" /\ c.out \in {"gone", "ok"}
    BY <1>1 DEF CommandType
<1> HIDE DEF c
<1>4. WellIssued(c)
    BY <1>3 DEF WellIssued, Outcomes, Checks, Applies, Reads
<1>5. cmds' = cmds \o <<c>> /\ <<c>> \in Seq(CommandType)
    BY <1>2, <1>3
<1>6. Follows(cmds, {}, <<c>>, cmds') /\ Kept(cmds, {}, <<c>>, cmds')
    BY <1>2, <1>5, Joined
<1>7. Typed'
    BY <1>2 DEF Typed
<1>8. ReplugDone(c)
    BY <1>2, <1>3, <1>4, <1>6, <1>7 DEF ReplugDone
<1> QED
    BY <1>8

RunDone(i) ==
    /\ Ran(i) /\ Typed' /\ astray \subseteq astray'
    /\ \/ UNCHANGED <<content, uncertain, flash, astray>>
          /\ cmds[i].kind \notin MappingKinds \union FirmwareKinds \union {"restore"}
       \/ /\ cmds[i].kind \in Reads /\ UNCHANGED <<content, uncertain, flash, astray>>
          /\ \/ cmds'[i].out = "ok" /\ cmds'[i].value = content[cmds[i].device]
             \/ cmds'[i].out = "error"
       \/ ApplyEnds(i) /\ UNCHANGED flash
       \/ EraseEnds(i) /\ UNCHANGED flash
       \/ ProbeEnds(i) /\ UNCHANGED flash
       \/ RestoreEnds(i) /\ UNCHANGED flash
       \/ FirmwareEnds(i)

LEMMA RunSteps ==
    ASSUME ShellTypeOK, FormInv, NEW i \in DOMAIN cmds, Run(i)
    PROVE  RunDone(i)
<1>1. CASE RunList(i)
  <2>1. cmds[i].kind \notin MappingKinds \union FirmwareKinds \union {"restore"}
    BY <1>1 DEF RunList, Runs, MappingKinds, FirmwareKinds
  <2> QED
    BY <1>1, <2>1, RunListForm DEF RunDone, RunList, world
<1>2. CASE RunDiagnose(i)
  <2>1. cmds[i].kind \notin MappingKinds \union FirmwareKinds \union {"restore"}
    BY <1>2 DEF RunDiagnose, Runs, MappingKinds, FirmwareKinds
  <2> QED
    BY <1>2, <2>1, RunDiagnoseForm DEF RunDone, RunDiagnose, world
<1>3. CASE RunRead(i)
    BY <1>3, RunReadForm DEF RunDone, RunRead, world
<1>4. CASE RunApply(i)
    BY <1>4, RunApplyForm DEF RunDone, RunApply, ApplyEnds
<1>5. CASE RunErase(i)
    BY <1>5, RunEraseForm DEF RunDone, RunErase, EraseEnds
<1>6. CASE RunProbe(i)
    BY <1>6, RunProbeForm DEF RunDone, RunProbe, ProbeEnds
<1>7. CASE RunRestore(i)
    BY <1>7, RunRestoreForm DEF RunDone, RunRestore, RestoreEnds
<1>8. CASE RunFirmware(i)
    BY <1>8, RunFirmwareForm DEF RunDone, FirmwareEnds
<1> QED
    BY <1>1, <1>2, <1>3, <1>4, <1>5, <1>6, <1>7, <1>8 DEF Run

LEMMA Steps ==
    ASSUME ShellTypeOK, FormInv, ShellNext
    PROVE  \/ \E value \in Contents \union {Editor(model.mapping).loaded} : EditDone(value)
           \/ \E h : UserStep(h)
           \/ \E c : ReplugDone(c)
           \/ \E i \in DOMAIN cmds : RunDone(i)
           \/ \E i \in DOMAIN cmds : \E a, h : AnswerStep(i, a, h)
BY UserSteps, EditSteps, UserStepFacts, ReplugSteps, RunSteps, AnswerStepFacts DEF ShellNext

LEMMA TypeStep ==
    ASSUME ShellTypeOK, FormInv, [ShellNext]_shellVars
    PROVE  ShellTypeOK' /\ FormInv'
<1>1. /\ visit \in Visits /\ model \in ModelType /\ WellFormed(model) /\ cmds \in Seq(CommandType) /\ Typed
      /\ \A i \in DOMAIN cmds : WellIssued(cmds[i])
    BY TypeParts DEF FormInv
<1>2. SUFFICES /\ visit' \in Visits /\ model' \in ModelType /\ WellFormed(model')
               /\ cmds' \in Seq(CommandType) /\ Typed'
               /\ \A i \in DOMAIN cmds' : WellIssued(cmds'[i])
  <2>1. ShellTypeOK' /\ FormInv' <=>
               /\ visit' \in Visits /\ model' \in ModelType /\ WellFormed(model')
               /\ cmds' \in Seq(CommandType) /\ Typed'
               /\ \A i \in DOMAIN cmds' : WellIssued(cmds'[i])
    BY DEF ShellTypeOK, FormInv, Typed, WellFormed, WellIssued
  <2> QED
    BY <2>1
<1>3. ASSUME NEW value, EditDone(value)
      PROVE  /\ visit' \in Visits /\ model' \in ModelType /\ WellFormed(model')
             /\ cmds' \in Seq(CommandType) /\ Typed'
             /\ \A i \in DOMAIN cmds' : WellIssued(cmds'[i])
    BY <1>1, <1>3 DEF EditDone, Typed, world
<1>4. ASSUME NEW h, UserStep(h)
      PROVE  /\ visit' \in Visits /\ model' \in ModelType /\ WellFormed(model')
             /\ cmds' \in Seq(CommandType) /\ Typed'
             /\ \A i \in DOMAIN cmds' : WellIssued(cmds'[i])
  <2>1. \A i \in DOMAIN cmds' : WellIssued(cmds'[i])
    BY <1>1, <1>4, FollowsForm DEF UserStep
  <2> QED
    BY <1>1, <1>4, <2>1 DEF UserStep, Follows
<1>5. ASSUME NEW c, ReplugDone(c)
      PROVE  /\ visit' \in Visits /\ model' \in ModelType /\ WellFormed(model')
             /\ cmds' \in Seq(CommandType) /\ Typed'
             /\ \A i \in DOMAIN cmds' : WellIssued(cmds'[i])
  <2>1. Issuable(<<c>>)
    BY <1>5 DEF ReplugDone, Issuable
  <2>2. \A i \in DOMAIN cmds' : WellIssued(cmds'[i])
    BY <1>1, <1>5, <2>1, FollowsForm DEF ReplugDone
  <2> QED
    BY <1>1, <1>5, <2>2 DEF ReplugDone, Follows
<1>6. ASSUME NEW i \in DOMAIN cmds, RunDone(i)
      PROVE  /\ visit' \in Visits /\ model' \in ModelType /\ WellFormed(model')
             /\ cmds' \in Seq(CommandType) /\ Typed'
             /\ \A k \in DOMAIN cmds' : WellIssued(cmds'[k])
    BY <1>1, <1>6 DEF RunDone, Ran, Becomes
<1>7. ASSUME NEW i \in DOMAIN cmds, NEW a, NEW h, AnswerStep(i, a, h)
      PROVE  /\ visit' \in Visits /\ model' \in ModelType /\ WellFormed(model')
             /\ cmds' \in Seq(CommandType) /\ Typed'
             /\ \A k \in DOMAIN cmds' : WellIssued(cmds'[k])
  <2>1. \A k \in DOMAIN cmds' : WellIssued(cmds'[k])
    BY <1>1, <1>7, FollowsForm DEF AnswerStep
  <2> QED
    BY <1>1, <1>7, <2>1 DEF AnswerStep, Follows
<1>8. CASE UNCHANGED shellVars
    BY <1>1, <1>8 DEF shellVars, Typed
<1> QED
    BY <1>3, <1>4, <1>5, <1>6, <1>7, <1>8, Steps

-----------------------------------------------------------------------------
(* Which handlers touch which part of the model, and start which commands. *)

Starts(h, kinds) == \A j \in DOMAIN h.issue : h.issue[j].kind \in kinds

LEMMA One ==
    ASSUME NEW kind, NEW d, NEW value, NEW image, NEW issue, issue = <<Command(kind, d, value, image)>>
    PROVE  /\ DOMAIN issue = {1} /\ Len(issue) = 1
           /\ issue[1].kind = kind /\ issue[1].device = d /\ issue[1].value = value
           /\ issue[1].image = image /\ issue[1].out = "pending"
BY CommandFields

LEMMA OneKind ==
    ASSUME NEW h, NEW kind, NEW d, NEW value, NEW image, NEW kinds,
           h.issue = <<Command(kind, d, value, image)>>, kind \in kinds
    PROVE  Starts(h, kinds)
BY One DEF Starts

LEMMA NoKind == ASSUME NEW h, NEW kinds, h.issue = <<>> PROVE Starts(h, kinds)
BY DEF Starts

LEMMA MoreKinds == ASSUME NEW h, NEW kinds, NEW more, Starts(h, kinds), kinds \subseteq more
                   PROVE  Starts(h, more)
BY DEF Starts

LEMMA NavigatedKinds ==
    ASSUME NEW m, NEW h, Navigated(m, h)
    PROVE  /\ h.m.fw = m.fw /\ h.m.modal = m.modal /\ h.m.lock = m.lock /\ h.m.listed = m.listed
           /\ Starts(h, {"diag"} \union Reads)
           /\ ToChecks(m, h) \/ (h.m.diag = m.diag /\ Starts(h, Reads))
           /\ ToEditor(m, h) \/ (h.m.mapping = m.mapping /\ Starts(h, {"diag"}))
<1>1. CASE Elsewhere(m, h)
    BY <1>1, NoKind DEF Elsewhere, Alike, Fields
<1>2. CASE ToSettings(m, h)
    BY <1>2, NoKind DEF ToSettings, Alike, Fields
<1>3. CASE ToChecks(m, h)
  <2>1. Starts(h, {"diag"})
    BY <1>3, NoKind, OneKind DEF ToChecks
  <2> QED
    <3>1. /\ h.m.fw = m.fw /\ h.m.modal = m.modal /\ h.m.lock = m.lock /\ h.m.listed = m.listed
          /\ h.m.mapping = m.mapping
      BY <1>3 DEF ToChecks, Alike, Fields
    <3>2. Starts(h, {"diag"} \union Reads)
      BY <2>1, MoreKinds
    <3> QED
      BY <1>3, <2>1, <3>1, <3>2
<1>4. CASE ToEditor(m, h)
  <2>1. Starts(h, Reads)
    BY <1>4, NoKind, OneKind DEF ToEditor, ReadOf, Reads
  <2> QED
    <3>1. /\ h.m.fw = m.fw /\ h.m.modal = m.modal /\ h.m.lock = m.lock /\ h.m.listed = m.listed
          /\ h.m.diag = m.diag
      BY <1>4 DEF ToEditor, Alike, Fields
    <3>2. Starts(h, {"diag"} \union Reads)
      BY <2>1, MoreKinds
    <3> QED
      BY <1>4, <2>1, <3>1, <3>2
<1> QED
    BY <1>1, <1>2, <1>3, <1>4 DEF Navigated

LEMMA UserFirmware ==
    ASSUME NEW m \in ModelType, WellFormed(m), NEW h, UserHandled(m, h)
    PROVE  Begins(m, h) \/ Transfers(m, h) \/ (h.m.fw = m.fw /\ Starts(h, CommandKinds \ FirmwareKinds))
<1> DEFINE K == CommandKinds \ FirmwareKinds
<1>1. {"keyboardApply", "padApply", "keyboardErase", "probe", "rediag", "list", "restore", "diag",
       "keyboardRead", "padRead"} \subseteq K
    BY DEF CommandKinds, WriteKinds, MappingKinds, FirmwareKinds
<1> HIDE DEF K
<1>2. CASE AsksFirst(m, h) \/ Leaves(m, h) \/ Toggles(m, h) \/ TakesOver(m, h)
    BY <1>2, NoKind DEF AsksFirst, Leaves, Toggles, TakesOver, Alike, Fields, K
<1>3. CASE Writes(m, h)
  <2>1. Starts(h, K)
    BY <1>1, <1>3, OneKind DEF Writes
  <2> QED
    BY <1>3, <2>1 DEF Writes, Alike, Fields, K
<1>4. CASE Erases(m, h)
  <2>1. Starts(h, K)
    BY <1>1, <1>4, OneKind DEF Erases
  <2> QED
    BY <1>4, <2>1 DEF Erases, Alike, Fields, K
<1>5. CASE Probes(m, h)
  <2>1. Starts(h, K)
    BY <1>1, <1>5, OneKind DEF Probes
  <2> QED
    BY <1>5, <2>1 DEF Probes, Alike, Fields, K
<1>6. CASE Rechecks(m, h)
  <2>1. Starts(h, K)
    BY <1>1, <1>6, OneKind DEF Rechecks
  <2> QED
    BY <1>6, <2>1 DEF Rechecks, Alike, Fields, K
<1>7. CASE Lists(m, h) \/ PutsBack(m, h)
  <2>1. Starts(h, K)
    BY <1>1, <1>7, OneKind DEF Lists, PutsBack
  <2> QED
    BY <1>7, <2>1 DEF Lists, PutsBack, K
<1>8. CASE GivesUp(m, h)
    BY <1>1, <1>8, GivenUpFacts, NavigatedKinds DEF GivesUp, Alike, Fields, Starts, Reads, K
<1>9. CASE Goes(m, h)
    BY <1>1, <1>9, NavigatedKinds DEF Goes, Starts, Reads, K
<1> QED
    BY <1>2, <1>3, <1>4, <1>5, <1>6, <1>7, <1>8, <1>9 DEF UserHandled

LEMMA UserChecks ==
    ASSUME NEW m \in ModelType, WellFormed(m), NEW h, UserHandled(m, h)
    PROVE  \/ Rechecks(m, h)
           \/ (GivesUp(m, h) \/ Goes(m, h)) /\ h.m.diag.device \in Devices /\ Selected(h.m) = h.m.diag.device
              /\ h.m.screen = "diagnostics" /\ h.m.diag.result \in {NoDevice, h.m.diag.device}
              /\ h.issue \in {<<>>, <<Command("diag", h.m.diag.device, Unread, NoDevice)>>}
           \/ h.m.diag = m.diag /\ Starts(h, CommandKinds \ {"diag", "rediag"})
<1> DEFINE K == CommandKinds \ {"diag", "rediag"}
<1>1. {"keyboardApply", "padApply", "keyboardErase", "probe", "list", "restore", "fwStart", "fwCancel",
       "fwDownload", "keyboardRead", "padRead"} \subseteq K
    BY DEF CommandKinds, WriteKinds, MappingKinds, FirmwareKinds
<1> HIDE DEF K
<1>2. CASE AsksFirst(m, h) \/ Leaves(m, h) \/ Toggles(m, h) \/ TakesOver(m, h)
    BY <1>2, NoKind DEF AsksFirst, Leaves, Toggles, TakesOver, Alike, Fields, K
<1>3. CASE Writes(m, h)
  <2>1. Starts(h, K)
    BY <1>1, <1>3, OneKind DEF Writes
  <2> QED
    BY <1>3, <2>1 DEF Writes, Alike, Fields, K
<1>4. CASE Erases(m, h)
  <2>1. Starts(h, K)
    BY <1>1, <1>4, OneKind DEF Erases
  <2> QED
    BY <1>4, <2>1 DEF Erases, Alike, Fields, K
<1>5. CASE Probes(m, h)
  <2>1. Starts(h, K)
    BY <1>1, <1>5, OneKind DEF Probes
  <2> QED
    BY <1>5, <2>1 DEF Probes, Alike, Fields, K
<1>6. CASE Begins(m, h)
  <2>1. Starts(h, K)
    BY <1>1, <1>6, OneKind DEF Begins
  <2> QED
    BY <1>6, <2>1 DEF Begins, Alike, Fields, K
<1>7. CASE Transfers(m, h)
  <2>1. Starts(h, K)
    BY <1>1, <1>7, OneKind DEF Transfers
  <2> QED
    BY <1>7, <2>1 DEF Transfers, Alike, Fields, K
<1>8. CASE Lists(m, h) \/ PutsBack(m, h)
  <2>1. Starts(h, K)
    BY <1>1, <1>8, OneKind DEF Lists, PutsBack
  <2> QED
    BY <1>8, <2>1 DEF Lists, PutsBack, K
<1>9. ASSUME NEW n, Navigated(n, h), n.diag = m.diag, GivesUp(m, h) \/ Goes(m, h)
      PROVE  \/ (GivesUp(m, h) \/ Goes(m, h)) /\ h.m.diag.device \in Devices
                /\ Selected(h.m) = h.m.diag.device
                /\ h.m.screen = "diagnostics" /\ h.m.diag.result \in {NoDevice, h.m.diag.device}
                /\ h.issue \in {<<>>, <<Command("diag", h.m.diag.device, Unread, NoDevice)>>}
             \/ h.m.diag = m.diag /\ Starts(h, K)
    BY <1>1, <1>9, NavigatedKinds DEF ToChecks, Starts, Reads
<1>10. CASE GivesUp(m, h)
    BY <1>9, <1>10, GivenUpFacts DEF GivesUp, Alike, Fields, K
<1>11. CASE Goes(m, h)
    BY <1>9, <1>11 DEF Goes, K
<1> QED
    BY <1>2, <1>3, <1>4, <1>5, <1>6, <1>7, <1>8, <1>10, <1>11 DEF UserHandled

LEMMA AnswerFirmware ==
    ASSUME NEW a \in ModelType, WellFormed(a), NEW c \in CommandType, WellIssued(c), c.out # "pending",
           NEW h, Answers(a, c, h)
    PROVE  \/ c.kind \in FirmwareKinds /\ h = FirmwareAnswered(a, c)
           \/ h.m.fw = a.fw /\ Starts(h, CommandKinds \ FirmwareKinds)
<1> DEFINE K == CommandKinds \ FirmwareKinds
<1>1. {"list", "autodiag", "keyboardRead"} \subseteq K
    BY DEF CommandKinds, WriteKinds, MappingKinds, FirmwareKinds
<1> HIDE DEF K
<1>2. CASE h = Just(a)
    BY <1>2, Returned, NoKind DEF K
<1>3. CASE h = DevicesLoaded(a, c)
    BY <1>1, <1>3, DevicesLoadedFacts DEF WellFormed, Alike, Fields, Starts, K
<1>4. CASE h = Hotplugged(a, c)
    BY <1>1, <1>4, HotpluggedFacts, OneKind DEF Alike, Fields, K
<1>5. CASE h = AutoDiagnosed(a, c) \/ h = Diagnosed(a, c)
  <2>1. Alike(a, h.m, {"diag"}) /\ h.issue = <<>>
    BY <1>5, AutoDiagnosedFacts, DiagnosedFacts
  <2> QED
    BY <2>1, NoKind DEF Alike, Fields, K
<1>6. CASE h = Probed(a, c) \/ h = Restored(a, c)
  <2>1. Alike(a, h.m, {"lock"}) /\ h.issue = <<>>
    BY <1>6, ProbedFacts, RestoredFacts
  <2> QED
    BY <2>1, NoKind DEF Alike, Fields, K
<1>7. CASE h = Loaded(a, c)
  <2>1. Alike(a, h.m, {"mapping"}) /\ h.issue = <<>>
    BY <1>7, LoadedFacts
  <2> QED
    BY <2>1, NoKind DEF Alike, Fields, K
<1>8. CASE h = Applied(a, c)
  <2>1. /\ h.issue = <<>>
        /\ Alike(a, h.m, {"mapping"}) \/ Alike(a, h.m, {"mapping", "screen", "prev", "lock"})
    BY <1>8, AppliedFacts
  <2> QED
    BY <2>1, NoKind DEF Alike, Fields, K
<1>9. CASE h = Erased(a, c)
  <2>1. /\ Alike(a, h.m, {"mapping"})
        /\ h.issue \in {<<>>, <<Command("keyboardRead", a.mapping.device, Unread, NoDevice)>>}
    BY <1>9, ErasedFacts
  <2>2. Starts(h, K)
    BY <1>1, <2>1, NoKind, OneKind
  <2> QED
    BY <2>1, <2>2 DEF Alike, Fields, K
<1> QED
    BY <1>2, <1>3, <1>4, <1>5, <1>6, <1>7, <1>8, <1>9 DEF Answers

LEMMA AnswerChecks ==
    ASSUME NEW a \in ModelType, WellFormed(a), NEW c \in CommandType, WellIssued(c), c.out # "pending",
           NEW h, Answers(a, c, h)
    PROVE  /\ Starts(h, CommandKinds \ {"diag", "rediag", "restore"})
           /\ h.m.diag.device = a.diag.device
           /\ \/ h.m.diag.result \in {a.diag.result, a.diag.device}
              \/ c.kind \in {"diag", "rediag"} /\ h.m.diag.result = c.device
<1> DEFINE K == CommandKinds \ {"diag", "rediag", "restore"}
<1>1. {"list", "autodiag", "keyboardRead", "fwPreflight", "fwConfirm", "fwListen"} \subseteq K
    BY DEF CommandKinds, WriteKinds, MappingKinds, FirmwareKinds
<1> HIDE DEF K
<1>2. CASE h = Just(a)
    BY <1>2, Returned, NoKind DEF K
<1>3. CASE h = DevicesLoaded(a, c)
    BY <1>1, <1>3, DevicesLoadedFacts DEF WellFormed, Alike, Fields, Starts, K
<1>4. CASE h = Hotplugged(a, c)
    BY <1>1, <1>4, HotpluggedFacts, OneKind DEF K
<1>5. CASE h = AutoDiagnosed(a, c)
  <2>1. /\ h.m.diag.device = a.diag.device /\ h.issue = <<>>
        /\ h.m.diag.result \in {a.diag.result, a.diag.device}
    BY <1>5, AutoDiagnosedFacts
  <2> QED
    BY <2>1, NoKind DEF K
<1>6. CASE h = Diagnosed(a, c) /\ c.kind \in {"diag", "rediag"}
  <2>1. h.m.diag.device = a.diag.device /\ h.m.diag.result = c.device /\ h.issue = <<>>
    BY <1>6, DiagnosedFacts
  <2> QED
    BY <1>6, <2>1, NoKind DEF K
<1>7. CASE h = Probed(a, c) \/ h = Restored(a, c)
  <2>1. Alike(a, h.m, {"lock"}) /\ h.issue = <<>>
    BY <1>7, ProbedFacts, RestoredFacts
  <2> QED
    BY <2>1, NoKind DEF Alike, Fields, K
<1>8. CASE h = Loaded(a, c)
  <2>1. Alike(a, h.m, {"mapping"}) /\ h.issue = <<>>
    BY <1>8, LoadedFacts
  <2> QED
    BY <2>1, NoKind DEF Alike, Fields, K
<1>9. CASE h = Applied(a, c)
  <2>1. /\ h.issue = <<>>
        /\ Alike(a, h.m, {"mapping"}) \/ Alike(a, h.m, {"mapping", "screen", "prev", "lock"})
    BY <1>9, AppliedFacts
  <2> QED
    BY <2>1, NoKind DEF Alike, Fields, K
<1>10. CASE h = Erased(a, c)
  <2>1. /\ Alike(a, h.m, {"mapping"})
        /\ h.issue \in {<<>>, <<Command("keyboardRead", a.mapping.device, Unread, NoDevice)>>}
    BY <1>10, ErasedFacts
  <2>2. Starts(h, K)
    BY <1>1, <2>1, NoKind, OneKind
  <2> QED
    BY <2>1, <2>2 DEF Alike, Fields, K
<1>11. CASE h = FirmwareAnswered(a, c) /\ c.kind \in FirmwareKinds
  <2>1. /\ Alike(a, h.m, {"fw"})
        /\ \/ h.issue = <<>>
           \/ h.issue = <<Command("fwPreflight", a.fw.device, Unread, c.image)>>
           \/ \E kind \in {"fwConfirm", "fwListen"} :
                 h.issue = <<Command(kind, a.fw.plan[1], Unread, a.fw.plan[2])>>
    BY <1>11, FirmwareAnsweredFacts
  <2>2. Starts(h, K)
    BY <1>1, <2>1, NoKind, OneKind
  <2> QED
    BY <2>1, <2>2 DEF Alike, Fields, K
<1> QED
    BY <1>2, <1>3, <1>4, <1>5, <1>6, <1>7, <1>8, <1>9, <1>10, <1>11 DEF Answers, K

-----------------------------------------------------------------------------
(* A firmware command is about one device, and its image. *)

FirmwareHolds(m, cs) ==
    /\ \A i \in DOMAIN cs : ImageFits(cs[i])
    /\ \A i \in DOMAIN cs : cs[i].kind = "fwDownload" => cs[i].device = m.fw.device
    /\ m.fw.plan[1] = m.fw.plan[2]

LEMMA FirmwareFrame ==
    ASSUME NEW m, NEW n, NEW h, NEW cs, NEW gone, NEW next, FirmwareHolds(m, cs),
           Follows(cs, gone, h.issue, next), n.fw.device = m.fw.device, n.fw.plan[1] = n.fw.plan[2],
           \A j \in DOMAIN h.issue : ImageFits(h.issue[j]) /\ h.issue[j].kind # "fwDownload"
    PROVE  FirmwareHolds(n, next)
BY DEF FirmwareHolds, Follows

LEMMA FirmwareStarts ==
    ASSUME NEW h, Starts(h, CommandKinds \ FirmwareKinds)
    PROVE  \A j \in DOMAIN h.issue : ImageFits(h.issue[j]) /\ h.issue[j].kind # "fwDownload"
BY DEF Starts, ImageFits, FirmwareKinds

LEMMA OpeningFacts ==
    ASSUME NEW h, astray' = astray \union OpeningLapses(h)
    PROVE  /\ astray \subseteq astray'
           /\ "openedInFlight" \notin astray' =>
                ~(h.issue # <<>> /\ h.issue[1].kind \in {"keyboardRead", "padRead"} /\ InFlight(MappingKinds))
           /\ "checkedInFlight" \notin astray' =>
                ~(h.m.diag.device # model.diag.device /\ InFlight({"diag", "rediag"}))
           /\ "discardedForSettings" \notin astray' =>
                ~(h.m.screen = "settings" /\ model.modal.kind = "discard")
           /\ "begunInFlight" \notin astray' =>
                ~(h.m.fw.device # model.fw.device /\ InFlight(FirmwareKinds))
BY DEF OpeningLapses, When

LEMMA AnswerLapseFacts ==
    ASSUME NEW h, NEW c, astray' = astray \union AnswerLapses(h, c)
    PROVE  /\ astray \subseteq astray'
           /\ "lostUnderSettings" \notin astray' =>
                ~(c.kind = "list" /\ model.screen = "settings" /\ Selected(h.m) # Selected(model))
           /\ "resultDropped" \notin astray' =>
                ~(c.kind = "keyboardApply" /\ ~KeyboardShows(Routed(model)))
           /\ "dialogBeforeLock" \notin astray' =>
                ~(h.m.lock.on /\ ~model.lock.on /\ model.modal.kind \in {"erase", "firmware", "probe"})
           /\ "lockedTwice" \notin astray' => ~(model.lock.on /\ c.out = "uncertain")
BY DEF AnswerLapses, When

LEMMA TakenOverSame ==
    ASSUME NEW m, NEW a, TakenOver(m, a)
    PROVE  Alike(m, a, {"screen", "prev"})
BY DEF TakenOver, Alike

LEMMA UserFirmwareStep ==
    ASSUME ShellTypeOK, FormInv, NEW h, UserStep(h), FirmwareHolds(model, cmds),
           "begunInFlight" \notin astray'
    PROVE  FirmwareHolds(h.m, cmds')
<1>1. /\ model \in ModelType /\ WellFormed(model) /\ UserHandled(model, h)
      /\ Follows(cmds, {}, h.issue, cmds')
    BY DEF ShellTypeOK, FormInv, UserStep
<1>2. CASE h.m.fw = model.fw /\ Starts(h, CommandKinds \ FirmwareKinds)
  <2>1. \A j \in DOMAIN h.issue : ImageFits(h.issue[j]) /\ h.issue[j].kind # "fwDownload"
    BY <1>2, FirmwareStarts
  <2>2. h.m.fw.device = model.fw.device /\ h.m.fw.plan[1] = h.m.fw.plan[2]
    BY <1>2 DEF FirmwareHolds
  <2> QED
    BY <1>1, <2>1, <2>2, FirmwareFrame
<1>3. CASE Begins(model, h)
  <2> DEFINE d == h.m.fw.device
  <2>1. h.m.fw.plan[1] = h.m.fw.plan[2]
    BY <1>3 DEF Begins, NoPlan
  <2>2. /\ DOMAIN h.issue = {1} /\ h.issue[1].kind = "fwDownload" /\ h.issue[1].device = d
        /\ h.issue[1].out = "pending"
    BY <1>3, One DEF Begins
  <2>3. ~(h.m.fw.device # model.fw.device /\ InFlight(FirmwareKinds))
    BY OpeningFacts DEF UserStep
  <2>4. \A i \in DOMAIN cmds : cmds[i].kind = "fwDownload" => cmds[i].device = d
    BY <2>3 DEF InFlight, FirmwareKinds, FirmwareHolds
  <2>5. ImageFits(h.issue[1])
    BY <2>2 DEF ImageFits
  <2> QED
    BY <1>1, <2>1, <2>2, <2>4, <2>5 DEF Follows, FirmwareHolds
<1>4. CASE Transfers(model, h)
  <2>1. PICK kind \in {"fwStart", "fwCancel"} :
          h.issue = <<Command(kind, model.fw.plan[1], Unread, model.fw.plan[2])>>
    BY <1>4 DEF Transfers
  <2>2. /\ DOMAIN h.issue = {1} /\ h.issue[1].kind = kind
        /\ h.issue[1].device = model.fw.plan[1] /\ h.issue[1].image = model.fw.plan[2]
    BY <2>1, One
  <2>3. model.fw.plan[1] = model.fw.plan[2]
    BY DEF FirmwareHolds
  <2>4. \A j \in DOMAIN h.issue : ImageFits(h.issue[j]) /\ h.issue[j].kind # "fwDownload"
    BY <2>1, <2>2, <2>3 DEF ImageFits
  <2>5. h.m.fw.device = model.fw.device /\ h.m.fw.plan = model.fw.plan
    BY <1>4 DEF Transfers
  <2> QED
    BY <1>1, <2>3, <2>4, <2>5, FirmwareFrame
<1> QED
    BY <1>1, <1>2, <1>3, <1>4, UserFirmware

LEMMA AnswerFirmwareStep ==
    ASSUME ShellTypeOK, FormInv, NEW i \in DOMAIN cmds, NEW a, NEW h, AnswerStep(i, a, h),
           FirmwareHolds(model, cmds)
    PROVE  FirmwareHolds(h.m, cmds')
<1> DEFINE c == cmds[i]
<1>1. /\ c \in CommandType /\ WellIssued(c) /\ c.out # "pending" /\ a \in ModelType /\ WellFormed(a)
      /\ TakenOver(model, a) /\ Answers(a, c, h) /\ Follows(cmds, {i}, h.issue, cmds')
    BY DEF AnswerStep
<1>2. a.fw = model.fw
    BY <1>1, TakenOverSame DEF Alike, Fields
<1>3. ImageFits(c) /\ (c.kind = "fwDownload" => c.device = model.fw.device)
    BY DEF FirmwareHolds
<1>4. model.fw.plan[1] = model.fw.plan[2]
    BY DEF FirmwareHolds
<1> HIDE DEF c
<1>5. CASE h.m.fw = a.fw /\ Starts(h, CommandKinds \ FirmwareKinds)
  <2>1. \A j \in DOMAIN h.issue : ImageFits(h.issue[j]) /\ h.issue[j].kind # "fwDownload"
    BY <1>5, FirmwareStarts
  <2>2. h.m.fw.device = model.fw.device /\ h.m.fw.plan[1] = h.m.fw.plan[2]
    BY <1>2, <1>4, <1>5
  <2> QED
    BY <1>1, <2>1, <2>2, FirmwareFrame
<1>6. CASE c.kind \in FirmwareKinds /\ h = FirmwareAnswered(a, c)
  <2>1. /\ h.m.fw.device = a.fw.device
        /\ \/ h.m.fw.plan = a.fw.plan
           \/ c.kind = "fwPreflight" /\ h.m.fw.plan = <<c.device, c.image>>
        /\ \/ h.issue = <<>>
           \/ /\ c.kind = "fwDownload" /\ c.out = "ok"
              /\ h.issue = <<Command("fwPreflight", a.fw.device, Unread, c.image)>>
           \/ \E kind \in {"fwConfirm", "fwListen"} :
                 h.issue = <<Command(kind, a.fw.plan[1], Unread, a.fw.plan[2])>>
    BY <1>1, <1>6, FirmwareAnsweredFacts
  <2>2. h.m.fw.plan[1] = h.m.fw.plan[2]
    BY <1>2, <1>3, <1>4, <1>6, <2>1 DEF ImageFits
  <2>3. \A j \in DOMAIN h.issue : ImageFits(h.issue[j]) /\ h.issue[j].kind # "fwDownload"
    <3>1. CASE h.issue = <<>>
      BY <3>1
    <3>2. CASE /\ c.kind = "fwDownload" /\ c.out = "ok"
               /\ h.issue = <<Command("fwPreflight", a.fw.device, Unread, c.image)>>
      <4>1. c.image = a.fw.device
        BY <1>2, <1>3, <1>6, <3>2 DEF ImageFits
      <4>2. /\ DOMAIN h.issue = {1} /\ h.issue[1].kind = "fwPreflight"
            /\ h.issue[1].device = a.fw.device /\ h.issue[1].image = c.image
        BY <3>2, One
      <4> QED
        BY <4>1, <4>2 DEF ImageFits
    <3>3. ASSUME NEW kind \in {"fwConfirm", "fwListen"},
                 h.issue = <<Command(kind, a.fw.plan[1], Unread, a.fw.plan[2])>>
          PROVE  \A j \in DOMAIN h.issue : ImageFits(h.issue[j]) /\ h.issue[j].kind # "fwDownload"
      <4>1. /\ DOMAIN h.issue = {1} /\ h.issue[1].kind = kind
            /\ h.issue[1].device = a.fw.plan[1] /\ h.issue[1].image = a.fw.plan[2]
        BY <3>3, One
      <4> QED
        BY <1>2, <1>4, <4>1 DEF ImageFits
    <3> QED
      BY <2>1, <3>1, <3>2, <3>3
  <2> QED
    BY <1>1, <1>2, <2>1, <2>2, <2>3, FirmwareFrame
<1> QED
    BY <1>1, <1>5, <1>6, AnswerFirmware

LEMMA FirmwareStep ==
    ASSUME ShellTypeOK, FormInv, FirmwareInv, [ShellNext]_shellVars
    PROVE  FirmwareInv'
<1>1. FirmwareInv <=> ("begunInFlight" \notin astray => FirmwareHolds(model, cmds) /\ ~flash.foreign)
    BY DEF FirmwareInv, FirmwareHolds
<1>2. FirmwareInv' <=> ("begunInFlight" \notin astray' => FirmwareHolds(model', cmds') /\ ~flash'.foreign)
    BY DEF FirmwareInv, FirmwareHolds, ImageFits
<1>3. SUFFICES ASSUME "begunInFlight" \notin astray'
               PROVE  FirmwareHolds(model', cmds') /\ ~flash'.foreign
    BY <1>2
<1>4. ASSUME NEW value, EditDone(value)
      PROVE  FirmwareHolds(model', cmds') /\ ~flash'.foreign
    BY <1>1, <1>3, <1>4 DEF EditDone, FirmwareHolds, Alike, Fields, world
<1>5. ASSUME NEW h, UserStep(h)
      PROVE  FirmwareHolds(model', cmds') /\ ~flash'.foreign
  <2>1. astray \subseteq astray'
    BY <1>5, OpeningFacts DEF UserStep
  <2>2. FirmwareHolds(h.m, cmds')
    BY <1>1, <1>3, <1>5, <2>1, UserFirmwareStep
  <2> QED
    BY <1>1, <1>3, <1>5, <2>1, <2>2 DEF UserStep, world
<1>6. ASSUME NEW c, ReplugDone(c)
      PROVE  FirmwareHolds(model', cmds') /\ ~flash'.foreign
  <2>1. /\ Follows(cmds, {}, <<c>>, cmds') /\ c.kind = "hotplug" /\ UNCHANGED <<model, flash, astray>>
    BY <1>6 DEF ReplugDone
  <2>2. DOMAIN <<c>> = {1} /\ <<c>>[1] = c
    OBVIOUS
  <2>3. ImageFits(c)
    BY <2>1 DEF ImageFits, FirmwareKinds
  <2>4. FirmwareHolds(model, cmds) /\ ~flash.foreign
    BY <1>1, <1>3, <2>1
  <2> QED
    BY <2>1, <2>2, <2>3, <2>4 DEF FirmwareHolds, Follows
<1>7. ASSUME NEW i \in DOMAIN cmds, RunDone(i)
      PROVE  FirmwareHolds(model', cmds') /\ ~flash'.foreign
  <2> DEFINE c == cmds[i]
             d == cmds'[i]
  <2>1. /\ Becomes(i, d) /\ d.kind = c.kind /\ d.device = c.device /\ UNCHANGED model
    BY <1>7 DEF RunDone, Ran, SameSaid
  <2>2. astray \subseteq astray'
    BY <1>7 DEF RunDone
  <2>3. ASSUME "begunInFlight" \notin astray
        PROVE  FirmwareHolds(model', cmds') /\ ~flash'.foreign
    <3>1. FirmwareHolds(model, cmds) /\ ~flash.foreign /\ ImageFits(c)
      BY <1>1, <2>3 DEF FirmwareHolds
    <3>2. ImageFits(d) /\ ~flash'.foreign
      <4>1. CASE FirmwareEnds(i)
        BY <2>1, <3>1, <4>1 DEF FirmwareEnds, ImageFits
      <4>2. CASE c.kind \notin FirmwareKinds /\ UNCHANGED flash
        BY <2>1, <3>1, <4>2 DEF ImageFits
      <4>3. FirmwareEnds(i) \/ (c.kind \notin FirmwareKinds /\ UNCHANGED flash)
        BY <1>7 DEF RunDone, ApplyEnds, EraseEnds, ProbeEnds, RestoreEnds, Reads, Applies, FirmwareKinds
      <4> QED
        BY <4>1, <4>2, <4>3
    <3> HIDE DEF c, d
    <3>3. FirmwareHolds(model, cmds')
      BY <2>1, <3>1, <3>2 DEF FirmwareHolds, Becomes, c
    <3> QED
      BY <2>1, <3>2, <3>3
  <2>4. "begunInFlight" \notin astray
    BY <1>3, <2>2
  <2> QED
    BY <2>3, <2>4
<1>8. ASSUME NEW i \in DOMAIN cmds, NEW a, NEW h, AnswerStep(i, a, h)
      PROVE  FirmwareHolds(model', cmds') /\ ~flash'.foreign
  <2>1. astray \subseteq astray' /\ UNCHANGED flash /\ model' = h.m
    BY <1>8, AnswerLapseFacts DEF AnswerStep, world
  <2> QED
    BY <1>1, <1>3, <1>8, <2>1, AnswerFirmwareStep
<1>9. CASE UNCHANGED shellVars
    BY <1>1, <1>3, <1>9 DEF shellVars
<1> QED
    BY <1>4, <1>5, <1>6, <1>7, <1>8, <1>9, Steps

-----------------------------------------------------------------------------
(* The result the checks show is of the device they name. *)

ChecksHold(m, cs) ==
    /\ m.diag.result \in {NoDevice, m.diag.device}
    /\ \A i \in DOMAIN cs : cs[i].kind \in {"diag", "rediag"} => cs[i].device = m.diag.device

LEMMA UserChecksStep ==
    ASSUME ShellTypeOK, FormInv, NEW h, UserStep(h), ChecksHold(model, cmds),
           "checkedInFlight" \notin astray'
    PROVE  ChecksHold(h.m, cmds')
<1>1. /\ model \in ModelType /\ WellFormed(model) /\ UserHandled(model, h)
      /\ Follows(cmds, {}, h.issue, cmds')
    BY DEF ShellTypeOK, FormInv, UserStep
<1>2. CASE h.m.diag = model.diag /\ Starts(h, CommandKinds \ {"diag", "rediag"})
    BY <1>1, <1>2 DEF ChecksHold, Follows, Starts
<1>3. CASE Rechecks(model, h)
  <2>1. DOMAIN h.issue = {1} /\ h.issue[1].device = model.diag.device
    BY <1>3, One DEF Rechecks
  <2>2. h.m.diag.device = model.diag.device /\ h.m.diag.result = model.diag.result
    BY <1>3 DEF Rechecks
  <2> QED
    BY <1>1, <2>1, <2>2 DEF ChecksHold, Follows
<1>4. CASE /\ h.m.diag.result \in {NoDevice, h.m.diag.device}
           /\ h.issue \in {<<>>, <<Command("diag", h.m.diag.device, Unread, NoDevice)>>}
  <2>1. \A j \in DOMAIN h.issue : h.issue[j].device = h.m.diag.device
    BY <1>4, One
  <2>2. ~(h.m.diag.device # model.diag.device /\ InFlight({"diag", "rediag"}))
    BY OpeningFacts DEF UserStep
  <2>3. \A i \in DOMAIN cmds : cmds[i].kind \in {"diag", "rediag"} => cmds[i].device = h.m.diag.device
    BY <2>2 DEF ChecksHold, InFlight
  <2> QED
    BY <1>1, <1>4, <2>1, <2>3 DEF ChecksHold, Follows
<1> QED
    BY <1>1, <1>2, <1>3, <1>4, UserChecks

LEMMA AnswerChecksStep ==
    ASSUME NEW i \in DOMAIN cmds, NEW a, NEW h, AnswerStep(i, a, h), ChecksHold(model, cmds)
    PROVE  ChecksHold(h.m, cmds')
<1> DEFINE c == cmds[i]
<1>1. /\ c \in CommandType /\ WellIssued(c) /\ c.out # "pending" /\ a \in ModelType /\ WellFormed(a)
      /\ TakenOver(model, a) /\ Answers(a, c, h) /\ Follows(cmds, {i}, h.issue, cmds')
    BY DEF AnswerStep
<1>2. a.diag = model.diag
    BY <1>1, TakenOverSame DEF Alike, Fields
<1>3. c.kind \in {"diag", "rediag"} => c.device = model.diag.device
    BY DEF ChecksHold
<1> HIDE DEF c
<1>4. /\ Starts(h, CommandKinds \ {"diag", "rediag", "restore"})
      /\ h.m.diag.device = a.diag.device
      /\ \/ h.m.diag.result \in {a.diag.result, a.diag.device}
         \/ c.kind \in {"diag", "rediag"} /\ h.m.diag.result = c.device
    BY <1>1, AnswerChecks
<1> QED
    BY <1>1, <1>2, <1>3, <1>4 DEF ChecksHold, Follows, Starts

LEMMA ChecksStep ==
    ASSUME ShellTypeOK, FormInv, ChecksInv, [ShellNext]_shellVars
    PROVE  ChecksInv'
<1>1. ChecksInv <=> ("checkedInFlight" \notin astray => ChecksHold(model, cmds))
    BY DEF ChecksInv, ChecksHold
<1>2. ChecksInv' <=> ("checkedInFlight" \notin astray' => ChecksHold(model', cmds'))
    BY DEF ChecksInv, ChecksHold
<1>3. SUFFICES ASSUME "checkedInFlight" \notin astray'
               PROVE  ChecksHold(model', cmds')
    BY <1>2
<1>4. ASSUME NEW value, EditDone(value)
      PROVE  ChecksHold(model', cmds')
    BY <1>1, <1>3, <1>4 DEF EditDone, ChecksHold, Alike, Fields
<1>5. ASSUME NEW h, UserStep(h)
      PROVE  ChecksHold(model', cmds')
  <2>1. astray \subseteq astray' /\ model' = h.m
    BY <1>5, OpeningFacts DEF UserStep
  <2> QED
    BY <1>1, <1>3, <1>5, <2>1, UserChecksStep
<1>6. ASSUME NEW c, ReplugDone(c)
      PROVE  ChecksHold(model', cmds')
  <2>1. /\ Follows(cmds, {}, <<c>>, cmds') /\ c.kind = "hotplug" /\ UNCHANGED <<model, astray>>
    BY <1>6 DEF ReplugDone
  <2>2. DOMAIN <<c>> = {1} /\ <<c>>[1] = c
    OBVIOUS
  <2> QED
    BY <1>1, <1>3, <2>1, <2>2 DEF ChecksHold, Follows
<1>7. ASSUME NEW i \in DOMAIN cmds, RunDone(i)
      PROVE  ChecksHold(model', cmds')
  <2>1. /\ Becomes(i, cmds'[i]) /\ cmds'[i].kind = cmds[i].kind /\ cmds'[i].device = cmds[i].device
        /\ UNCHANGED model /\ astray \subseteq astray'
    BY <1>7 DEF RunDone, Ran, SameSaid
  <2> QED
    BY <1>1, <1>3, <2>1 DEF ChecksHold, Becomes
<1>8. ASSUME NEW i \in DOMAIN cmds, NEW a, NEW h, AnswerStep(i, a, h)
      PROVE  ChecksHold(model', cmds')
  <2>1. astray \subseteq astray' /\ model' = h.m
    BY <1>8, AnswerLapseFacts DEF AnswerStep
  <2> QED
    BY <1>1, <1>3, <1>8, <2>1, AnswerChecksStep
<1>9. CASE UNCHANGED shellVars
    BY <1>1, <1>3, <1>9 DEF shellVars
<1> QED
    BY <1>4, <1>5, <1>6, <1>7, <1>8, <1>9, Steps

-----------------------------------------------------------------------------
(* Only Recovery restores, and it stays until the restore is answered. *)

InRecovery(m) == m.lock.on /\ m.screen = "recovery" /\ m.modal.kind = "none"

Restoring(cs) == \E i \in DOMAIN cs : cs[i].kind = "restore"

LEMMA UserRestores ==
    ASSUME NEW m \in ModelType, WellFormed(m), NEW h, UserHandled(m, h)
    PROVE  PutsBack(m, h) \/ Starts(h, CommandKinds \ {"restore"})
<1> DEFINE K == CommandKinds \ {"restore"}
<1>1. {"keyboardApply", "padApply", "keyboardErase", "probe", "list", "rediag", "diag", "fwStart", "fwCancel",
       "fwDownload", "keyboardRead", "padRead"} \subseteq K
    BY DEF CommandKinds, WriteKinds, MappingKinds, FirmwareKinds
<1> HIDE DEF K
<1>2. CASE AsksFirst(m, h) \/ Leaves(m, h) \/ Toggles(m, h) \/ TakesOver(m, h)
    BY <1>2, NoKind DEF AsksFirst, Leaves, Toggles, TakesOver, K
<1>3. CASE Writes(m, h)
    BY <1>1, <1>3, OneKind DEF Writes, K
<1>4. CASE Erases(m, h)
    BY <1>1, <1>4, OneKind DEF Erases, K
<1>5. CASE Probes(m, h)
    BY <1>1, <1>5, OneKind DEF Probes, K
<1>6. CASE Begins(m, h)
    BY <1>1, <1>6, OneKind DEF Begins, K
<1>7. CASE Transfers(m, h)
    BY <1>1, <1>7, OneKind DEF Transfers, K
<1>8. CASE Lists(m, h)
    BY <1>1, <1>8, OneKind DEF Lists, K
<1>9. CASE Rechecks(m, h)
    BY <1>1, <1>9, OneKind DEF Rechecks, K
<1>10. CASE GivesUp(m, h) \/ Goes(m, h)
    BY <1>1, <1>10, NavigatedKinds DEF GivesUp, Goes, Starts, Reads, K
<1> QED
    BY <1>2, <1>3, <1>4, <1>5, <1>6, <1>7, <1>8, <1>9, <1>10 DEF UserHandled, K

LEMMA UserInRecovery ==
    ASSUME NEW m, NEW h, UserHandled(m, h), InRecovery(m)
    PROVE  InRecovery(h.m)
<1>1. ~( \/ Leaves(m, h) \/ TakesOver(m, h) \/ Writes(m, h) \/ Erases(m, h) \/ Begins(m, h) \/ Probes(m, h)
         \/ Rechecks(m, h) \/ Transfers(m, h) \/ Lists(m, h) \/ GivesUp(m, h) \/ Goes(m, h))
    BY DEF InRecovery, Leaves, TakesOver, Writes, Erases, Begins, Probes, Rechecks, Transfers, Lists,
           GivesUp, Goes
<1>2. CASE AsksFirst(m, h)
    BY <1>2 DEF AsksFirst, InRecovery, Alike, Fields
<1>3. CASE Toggles(m, h)
    BY <1>3 DEF Toggles, InRecovery, Alike, Fields
<1>4. CASE PutsBack(m, h)
    BY <1>4 DEF PutsBack, InRecovery
<1> QED
    BY <1>1, <1>2, <1>3, <1>4 DEF UserHandled

LEMMA RestoreStep ==
    ASSUME ShellTypeOK, FormInv, RestoreInv, [ShellNext]_shellVars
    PROVE  RestoreInv'
<1>1. Restoring(cmds) => InRecovery(model)
    BY DEF RestoreInv, Restoring, InRecovery
<1>2. SUFFICES Restoring(cmds') => InRecovery(model')
    BY DEF RestoreInv, Restoring, InRecovery
<1>3. ASSUME NEW value, EditDone(value)
      PROVE  Restoring(cmds') => InRecovery(model')
    BY <1>1, <1>3 DEF EditDone, InRecovery, Alike, Fields
<1>4. ASSUME NEW h, UserStep(h)
      PROVE  Restoring(cmds') => InRecovery(model')
  <2>1. /\ model \in ModelType /\ WellFormed(model) /\ UserHandled(model, h)
        /\ Follows(cmds, {}, h.issue, cmds') /\ model' = h.m
    BY <1>4 DEF ShellTypeOK, FormInv, UserStep
  <2>2. CASE PutsBack(model, h)
    BY <2>1, <2>2 DEF PutsBack, InRecovery
  <2>3. CASE Starts(h, CommandKinds \ {"restore"})
    <3>1. Restoring(cmds') => Restoring(cmds)
      BY <2>1, <2>3 DEF Restoring, Follows, Starts
    <3> QED
      BY <1>1, <2>1, <3>1, UserInRecovery
  <2> QED
    BY <2>1, <2>2, <2>3, UserRestores
<1>5. ASSUME NEW c, ReplugDone(c)
      PROVE  Restoring(cmds') => InRecovery(model')
  <2>1. /\ Follows(cmds, {}, <<c>>, cmds') /\ c.kind = "hotplug" /\ UNCHANGED model
    BY <1>5 DEF ReplugDone
  <2>2. DOMAIN <<c>> = {1} /\ <<c>>[1] = c
    OBVIOUS
  <2> QED
    BY <1>1, <2>1, <2>2 DEF Restoring, Follows
<1>6. ASSUME NEW i \in DOMAIN cmds, RunDone(i)
      PROVE  Restoring(cmds') => InRecovery(model')
  <2>1. /\ Becomes(i, cmds'[i]) /\ cmds'[i].kind = cmds[i].kind /\ UNCHANGED model
    BY <1>6 DEF RunDone, Ran, SameSaid
  <2>2. Restoring(cmds') => Restoring(cmds)
    BY <2>1 DEF Restoring, Becomes
  <2> QED
    BY <1>1, <2>1, <2>2
<1>7. ASSUME NEW i \in DOMAIN cmds, NEW a, NEW h, AnswerStep(i, a, h)
      PROVE  Restoring(cmds') => InRecovery(model')
  <2> DEFINE c == cmds[i]
  <2>1. /\ c \in CommandType /\ WellIssued(c) /\ c.out # "pending" /\ a \in ModelType /\ WellFormed(a)
        /\ TakenOver(model, a) /\ Answers(a, c, h) /\ Follows(cmds, {i}, h.issue, cmds') /\ model' = h.m
        /\ h.m.modal = a.modal /\ (a.lock.on => h.m.lock.on)
        /\ a.lock.on /\ a.screen = "recovery" => h.m.screen = "recovery"
    BY <1>7 DEF AnswerStep
  <2>2. Starts(h, CommandKinds \ {"diag", "rediag", "restore"})
    BY <2>1, AnswerChecks
  <2>3. Restoring(cmds') => Restoring(cmds)
    BY <2>1, <2>2 DEF Restoring, Follows, Starts
  <2>4. InRecovery(model) => InRecovery(a)
    BY <2>1 DEF TakenOver, InRecovery
  <2>5. InRecovery(a) => InRecovery(h.m)
    BY <2>1 DEF InRecovery
  <2> QED
    BY <1>1, <2>1, <2>3, <2>4, <2>5
<1>8. CASE UNCHANGED shellVars
    BY <1>1, <1>8 DEF shellVars
<1> QED
    BY <1>3, <1>4, <1>5, <1>6, <1>7, <1>8, Steps

-----------------------------------------------------------------------------
(* The tab is about the selected device. *)

\* No tab that is about one device shows.
NoTab(n) == ~Shows(n, "mapping") /\ ~Shows(n, "diagnostics")

\* What shows is what showed, about the same device.
SameTab(m, n) ==
    /\ Shows(n, "mapping") => Shows(m, "mapping")
    /\ Shows(n, "diagnostics") => Shows(m, "diagnostics")
    /\ n.mapping.device = m.mapping.device /\ n.diag.device = m.diag.device

TabHolds(m) ==
    /\ Shows(m, "mapping") => Selected(m) # NoDevice /\ Selected(m) = m.mapping.device
    /\ Shows(m, "diagnostics") => Selected(m) # NoDevice /\ Selected(m) = m.diag.device

NamedHolds(m) == Shows(m, "mapping") => m.mapping.device # NoDevice

\* A tab opens about the selected device.
TabOpens(n) ==
    /\ Selected(n) \in Devices
    /\ \/ n.screen = "mapping" /\ n.mapping.device = Selected(n)
       \/ n.screen = "diagnostics" /\ n.diag.device = Selected(n)

LEMMA TabFrame ==
    ASSUME NEW m, NEW n
    PROVE  /\ NoTab(n) => TabHolds(n) /\ NamedHolds(n)
           /\ TabOpens(n) => TabHolds(n) /\ NamedHolds(n)
           /\ SameTab(m, n) /\ NamedHolds(m) => NamedHolds(n)
           /\ SameTab(m, n) /\ Selected(n) = Selected(m) /\ TabHolds(m) => TabHolds(n)
BY ShellAssumption DEF NoTab, TabOpens, SameTab, TabHolds, NamedHolds, Shows

LEMMA Still ==
    ASSUME NEW m, NEW n, Alike(m, n, {"modal", "advanced", "acknowledged", "mapping", "diag", "fw"}),
           n.mapping.device = m.mapping.device, n.diag.device = m.diag.device
    PROVE  SameTab(m, n) /\ Selected(n) = Selected(m)
BY SelectedSame DEF Alike, Fields, SameTab, Shows

LEMMA UserShows ==
    ASSUME NEW m \in ModelType, WellFormed(m), NEW h, UserHandled(m, h)
    PROVE  \/ NoTab(h.m)
           \/ TabOpens(h.m)
           \/ SameTab(m, h.m) /\ Selected(h.m) = Selected(m)
           \/ h.m.screen = "settings" /\ m.modal.kind = "discard"
<1>1. CASE AsksFirst(m, h) \/ Toggles(m, h) \/ Probes(m, h) \/ Lists(m, h) \/ PutsBack(m, h)
  <2>1. /\ Alike(m, h.m, {"modal", "advanced", "acknowledged"})
        /\ h.m.mapping = m.mapping /\ h.m.diag = m.diag
    BY <1>1 DEF AsksFirst, Toggles, Probes, Lists, PutsBack, Alike, Fields
  <2>2. /\ Alike(m, h.m, {"modal", "advanced", "acknowledged", "mapping", "diag", "fw"})
        /\ h.m.mapping.device = m.mapping.device /\ h.m.diag.device = m.diag.device
    BY <2>1 DEF Alike
  <2> QED
    BY <2>2, Still
<1>2. CASE Writes(m, h) \/ Erases(m, h) \/ Rechecks(m, h) \/ Transfers(m, h)
  <2>1. /\ Alike(m, h.m, {"modal", "mapping", "diag", "fw"})
        /\ h.m.mapping = m.mapping \/ SameBut(m.mapping, h.m.mapping, {"applying"})
        /\ h.m.diag.device = m.diag.device
    BY <1>2 DEF Writes, Erases, Rechecks, Transfers, Alike, Fields
  <2>2. h.m.mapping.device = m.mapping.device
    BY <2>1 DEF SameBut
  <2>3. Alike(m, h.m, {"modal", "advanced", "acknowledged", "mapping", "diag", "fw"})
    BY <2>1 DEF Alike
  <2> QED
    BY <2>1, <2>2, <2>3, Still
<1>3. CASE Leaves(m, h)
  <2>1. h.m.mapping = m.mapping /\ h.m.diag = m.diag /\ Selected(h.m) = Selected(m)
    BY <1>3, SelectedSame DEF Leaves, Alike, Fields
  <2>2. SameTab(m, h.m)
    BY <1>3, <2>1 DEF Leaves, SameTab, Shows, Alike, Fields
  <2> QED
    BY <2>1, <2>2
<1>4. CASE TakesOver(m, h) \/ Begins(m, h)
    BY <1>4 DEF TakesOver, Begins, NoTab, Shows
<1>5. ASSUME NEW n, Navigated(n, h), h.m.screen # "settings"
      PROVE  NoTab(h.m) \/ TabOpens(h.m)
  <2>1. CASE Elsewhere(n, h)
    BY <2>1 DEF Elsewhere, NoTab, Shows
  <2>2. CASE ToSettings(n, h)
    BY <1>5, <2>2 DEF ToSettings
  <2>3. CASE ToChecks(n, h)
    BY <2>3 DEF ToChecks, TabOpens
  <2>4. CASE ToEditor(n, h)
    BY <2>4 DEF ToEditor, TabOpens, EditorOpened
  <2> QED
    BY <1>5, <2>1, <2>2, <2>3, <2>4 DEF Navigated
<1>6. CASE GivesUp(m, h)
    BY <1>5, <1>6 DEF GivesUp
<1>7. CASE Goes(m, h)
  <2>1. CASE h.m.screen # "settings"
    BY <1>5, <1>7, <2>1 DEF Goes
  <2>2. CASE h.m.screen = "settings"
    <3>1. ToSettings(m, h) /\ h.m.cursor = m.cursor /\ m.screen \in Tabs /\ ~m.lock.on
      BY <1>7, <2>2 DEF Goes, Navigated, Elsewhere, ToChecks, ToEditor
    <3>2. h.m.prev = m.screen /\ h.m.mapping = m.mapping /\ h.m.diag = m.diag /\ h.m.listed = m.listed
      BY <3>1 DEF ToSettings, Alike, Fields
    <3>3. SameTab(m, h.m)
      BY <2>2, <3>2 DEF SameTab, Shows
    <3> QED
      BY <3>1, <3>2, <3>3, SelectedSame
  <2> QED
    BY <2>1, <2>2
<1> QED
    BY <1>1, <1>2, <1>3, <1>4, <1>6, <1>7 DEF UserHandled

LEMMA AnswerShows ==
    ASSUME NEW m \in ModelType, WellFormed(m), NEW a \in ModelType, WellFormed(a), TakenOver(m, a),
           NEW c \in CommandType, WellIssued(c), c.out # "pending",
           c.kind = "list" => a = m,
           NEW h, Answers(a, c, h)
    PROVE  \/ NoTab(h.m)
           \/ SameTab(m, h.m)
              /\ \/ Selected(h.m) = Selected(m)
                 \/ Selected(m) = NoDevice
                 \/ c.kind = "list" /\ m.screen = "settings" /\ Selected(h.m) # Selected(m)
<1>1. CASE c.kind = "list"
  <2>1. a = m /\ h = DevicesLoaded(m, c)
    BY <1>1 DEF Answers, RoutedKinds, FirmwareKinds
  <2>2. /\ Alike(m, h.m, {"listed", "cursor", "screen", "mapping"})
        /\ \/ h.m.screen = m.screen /\ h.m.mapping = m.mapping
           \/ h.m.screen = "devices"
        /\ Selected(m) # NoDevice /\ Selected(h.m) # Selected(m) => h.m.screen \notin Tabs \ {"devices"}
    BY <2>1, DevicesLoadedFacts DEF WellFormed
  <2>3. CASE h.m.screen = "devices"
    BY <2>3 DEF NoTab, Shows
  <2>4. CASE h.m.screen = m.screen /\ h.m.mapping = m.mapping
    <3>1. SameTab(m, h.m)
      BY <2>2, <2>4 DEF SameTab, Shows, Alike, Fields
    <3>2. CASE Selected(m) # NoDevice /\ Selected(h.m) # Selected(m) /\ m.screen # "settings"
      BY <2>2, <2>4, <3>2 DEF NoTab, Shows, Tabs
    <3> QED
      BY <1>1, <3>1, <3>2
  <2> QED
    BY <2>2, <2>3, <2>4
<1>2. CASE c.kind # "list"
  <2>1. /\ h.m.listed = a.listed /\ h.m.cursor = a.cursor
        /\ h.m.mapping.device = a.mapping.device /\ h.m.diag.device = a.diag.device
        /\ \/ h.m.screen = "recovery"
           \/ h.m.screen = a.screen /\ h.m.prev = a.prev /\ (a.lock.on => h.m.lock.on)
    <3>1. CASE h = Just(a)
      BY <3>1, Returned
    <3>2. CASE h = Hotplugged(a, c)
      BY <3>2, HotpluggedFacts DEF Alike, Fields
    <3>3. CASE h = AutoDiagnosed(a, c)
      BY <3>3, AutoDiagnosedFacts DEF Alike, Fields
    <3>4. CASE h = Probed(a, c)
      BY <3>4, ProbedFacts DEF Alike, Fields
    <3>5. CASE h = Restored(a, c)
      BY <3>5, RestoredFacts DEF Alike, Fields
    <3>6. CASE h = Loaded(a, c)
      <4>1. Alike(a, h.m, {"mapping"}) /\ SameBut(a.mapping, h.m.mapping, {"loading", "failed", "kb", "pad"})
        BY <3>6, LoadedFacts
      <4> QED
        BY <4>1 DEF Alike, Fields, SameBut
    <3>7. CASE h = Applied(a, c)
      <4>1. /\ SameBut(a.mapping, h.m.mapping, {"applying", "kb", "pad"})
            /\ \/ Alike(a, h.m, {"mapping"})
               \/ Alike(a, h.m, {"mapping", "screen", "prev", "lock"}) /\ h.m.screen = "recovery"
        BY <3>7, AppliedFacts
      <4> QED
        BY <4>1 DEF Alike, Fields, SameBut
    <3>8. CASE h = Erased(a, c)
      BY <3>8, ErasedFacts DEF Alike, Fields, SameBut
    <3>9. CASE h = Diagnosed(a, c)
      BY <3>9, DiagnosedFacts DEF Alike, Fields
    <3>10. CASE c.kind \in FirmwareKinds /\ h = FirmwareAnswered(a, c)
      BY <3>10, FirmwareAnsweredFacts DEF Alike, Fields
    <3> QED
      BY <1>2, <3>1, <3>2, <3>3, <3>4, <3>5, <3>6, <3>7, <3>8, <3>9, <3>10 DEF Answers
  <2>2. CASE a = m
    BY <2>1, <2>2, SelectedSame DEF NoTab, SameTab, Shows
  <2>3. CASE a # m
    <3>1. a.screen = "recovery"
      BY <2>3 DEF TakenOver
    <3>2. h.m.screen = "recovery"
      BY <2>1, <3>1
    <3> QED
      BY <3>2 DEF NoTab, Shows
  <2> QED
    BY <2>2, <2>3
<1> QED
    BY <1>1, <1>2

LEMMA TabStep ==
    ASSUME ShellTypeOK, FormInv, TabInv, NamedInv, [ShellNext]_shellVars
    PROVE  TabInv' /\ NamedInv'
<1>1. /\ "lostUnderSettings" \notin astray /\ "discardedForSettings" \notin astray => TabHolds(model)
      /\ "discardedForSettings" \notin astray => NamedHolds(model)
    BY DEF TabInv, NamedInv, TabHolds, NamedHolds, Unless
<1>2. SUFFICES /\ "lostUnderSettings" \notin astray' /\ "discardedForSettings" \notin astray' => TabHolds(model')
               /\ "discardedForSettings" \notin astray' => NamedHolds(model')
  <2>1. TabInv' <=> (~({"lostUnderSettings", "discardedForSettings"} \intersect astray' # {}) => TabHolds(model'))
    BY DEF TabInv, TabHolds, Unless, Selected, Shows
  <2>2. NamedInv' <=> ("discardedForSettings" \notin astray' => NamedHolds(model'))
    BY DEF NamedInv, NamedHolds, Shows
  <2> QED
    BY <2>1, <2>2
<1>3. ASSUME UNCHANGED astray, SameTab(model, model'), Selected(model') = Selected(model)
      PROVE  /\ "lostUnderSettings" \notin astray' /\ "discardedForSettings" \notin astray' => TabHolds(model')
             /\ "discardedForSettings" \notin astray' => NamedHolds(model')
    BY <1>1, <1>3, TabFrame
<1>4. ASSUME NEW value, EditDone(value)
      PROVE  /\ "lostUnderSettings" \notin astray' /\ "discardedForSettings" \notin astray' => TabHolds(model')
             /\ "discardedForSettings" \notin astray' => NamedHolds(model')
  <2>1. /\ Alike(model, model', {"modal", "advanced", "acknowledged", "mapping", "diag", "fw"})
        /\ model'.mapping.device = model.mapping.device /\ model'.diag.device = model.diag.device
    BY <1>4 DEF EditDone, Alike, Fields, SameBut
  <2>2. SameTab(model, model') /\ Selected(model') = Selected(model) /\ astray \subseteq astray'
    BY <1>4, <2>1, Still DEF EditDone
  <2> QED
    BY <1>1, <2>2, TabFrame
<1>5. ASSUME NEW h, UserStep(h)
      PROVE  /\ "lostUnderSettings" \notin astray' /\ "discardedForSettings" \notin astray' => TabHolds(model')
             /\ "discardedForSettings" \notin astray' => NamedHolds(model')
  <2>1. /\ astray \subseteq astray' /\ model' = h.m
        /\ "discardedForSettings" \notin astray' => ~(h.m.screen = "settings" /\ model.modal.kind = "discard")
    BY <1>5, OpeningFacts DEF UserStep
  <2>2. \/ NoTab(h.m) \/ TabOpens(h.m)
        \/ SameTab(model, h.m) /\ Selected(h.m) = Selected(model)
        \/ h.m.screen = "settings" /\ model.modal.kind = "discard"
    BY <1>5, UserShows DEF UserStep, ShellTypeOK, FormInv
  <2> QED
    BY <1>1, <2>1, <2>2, TabFrame
<1>6. ASSUME NEW c, ReplugDone(c)
      PROVE  /\ "lostUnderSettings" \notin astray' /\ "discardedForSettings" \notin astray' => TabHolds(model')
             /\ "discardedForSettings" \notin astray' => NamedHolds(model')
    BY <1>1, <1>6 DEF ReplugDone
<1>7. ASSUME NEW i \in DOMAIN cmds, RunDone(i)
      PROVE  /\ "lostUnderSettings" \notin astray' /\ "discardedForSettings" \notin astray' => TabHolds(model')
             /\ "discardedForSettings" \notin astray' => NamedHolds(model')
  <2>1. UNCHANGED model /\ astray \subseteq astray'
    BY <1>7 DEF RunDone, Ran
  <2> QED
    BY <1>1, <2>1
<1>8. ASSUME NEW i \in DOMAIN cmds, NEW a, NEW h, AnswerStep(i, a, h)
      PROVE  /\ "lostUnderSettings" \notin astray' /\ "discardedForSettings" \notin astray' => TabHolds(model')
             /\ "discardedForSettings" \notin astray' => NamedHolds(model')
  <2>1. /\ astray \subseteq astray' /\ model' = h.m
        /\ "lostUnderSettings" \notin astray' =>
             ~(cmds[i].kind = "list" /\ model.screen = "settings" /\ Selected(h.m) # Selected(model))
    BY <1>8, AnswerLapseFacts DEF AnswerStep
  <2>2. \/ NoTab(h.m)
        \/ SameTab(model, h.m)
           /\ \/ Selected(h.m) = Selected(model)
              \/ Selected(model) = NoDevice
              \/ cmds[i].kind = "list" /\ model.screen = "settings" /\ Selected(h.m) # Selected(model)
    BY <1>8, AnswerShows DEF AnswerStep, ShellTypeOK, FormInv
  <2>3. TabHolds(model) /\ Selected(model) = NoDevice /\ SameTab(model, h.m) => NoTab(h.m)
    BY DEF TabHolds, NoTab, SameTab
  <2> QED
    BY <1>1, <2>1, <2>2, <2>3, TabFrame
<1>9. CASE UNCHANGED shellVars
    BY <1>1, <1>9 DEF shellVars
<1> QED
    BY <1>4, <1>5, <1>6, <1>7, <1>8, <1>9, Steps

-----------------------------------------------------------------------------
(* What the editor calls loaded is what its device holds. *)

EditorHolds(m, cs) ==
    /\ Lone(cs, {})
    /\ \A i \in DOMAIN cs : cs[i].kind \in MappingKinds => Expected(m.mapping, cs[i])
    /\ AtRest(m.mapping) => Known(m.mapping.device, Editor(m.mapping).loaded)
    /\ m.modal.kind = "erase" => AtRest(m.mapping) /\ m.mapping.keyboard

EditorLapses == {"editedWhileWriting", "openedInFlight", "eraseFailed"}

LEMMA EditorFrame ==
    ASSUME NEW m, NEW n, NEW cs, NEW gone, NEW t, NEW next, EditorHolds(m, cs),
           Follows(cs, gone, t, next), None(t, {}), n.mapping = m.mapping,
           n.modal.kind = "erase" => m.modal.kind = "erase" \/ (AtRest(m.mapping) /\ m.mapping.keyboard)
    PROVE  EditorHolds(n, next)
<1>1. Lone(next, {})
    BY DEF EditorHolds, Follows, Lone
<1>2. ASSUME NEW k \in DOMAIN next, next[k].kind \in MappingKinds
      PROVE  Expected(n.mapping, next[k])
  <2>1. PICK j \in DOMAIN cs : next[k] = cs[j]
    BY <1>2 DEF Follows, None
  <2> QED
    BY <1>2, <2>1 DEF EditorHolds
<1> QED
    BY <1>1, <1>2 DEF EditorHolds

\* An editor at rest waits for no command.
LEMMA RestWaits ==
    ASSUME NEW m, NEW cs, EditorHolds(m, cs), ~m.mapping.loading, ~m.mapping.applying
    PROVE  None(cs, {})
BY DEF EditorHolds, None, Expected

\* The command that the editor waits for is the only one.
LEMMA OnlyOne ==
    ASSUME NEW m, NEW cs, NEW i \in DOMAIN cs, EditorHolds(m, cs), cs[i].kind \in MappingKinds
    PROVE  /\ None(cs, {i}) /\ Expected(m.mapping, cs[i]) /\ ~AtRest(m.mapping)
           /\ m.modal.kind # "erase"
BY DEF EditorHolds, None, Lone, Expected, AtRest

\* A command starts while the editor waits for none.
LEMMA EditorStarts ==
    ASSUME NEW n, NEW cs, NEW gone, NEW t, NEW next, None(cs, gone), Follows(cs, gone, t, next),
           DOMAIN t = {1}, Len(t) = 1, Expected(n.mapping, t[1]), ~AtRest(n.mapping), n.modal.kind # "erase"
    PROVE  EditorHolds(n, next)
<1>1. Lone(next, {})
    BY DEF Follows
<1>2. \A k \in DOMAIN next : next[k].kind \in MappingKinds => next[k] = t[1]
    BY DEF Follows, None
<1> QED
    BY <1>1, <1>2 DEF EditorHolds

\* The editor is told, and waits for nothing more.
LEMMA EditorEnds ==
    ASSUME NEW n, NEW cs, NEW gone, NEW next, None(cs, gone), Follows(cs, gone, <<>>, next),
           AtRest(n.mapping) => Known(n.mapping.device, Editor(n.mapping).loaded), n.modal.kind # "erase"
    PROVE  EditorHolds(n, next)
<1>1. \A k \in DOMAIN next : next[k].kind \notin MappingKinds
    BY DEF Follows, None
<1> QED
    BY <1>1 DEF EditorHolds, Lone

LEMMA NoneStarted ==
    ASSUME NEW h, NEW kinds, Starts(h, kinds), kinds \intersect MappingKinds = {}
    PROVE  None(h.issue, {})
BY DEF Starts, None

\* Nothing for the editor starts, and the same editor shows, or less.
EditorStays(m, h) ==
    /\ h.m.mapping = m.mapping /\ None(h.issue, {})
    /\ h.m.modal.kind = "erase" => m.modal.kind = "erase" \/ (AtRest(m.mapping) /\ m.mapping.keyboard)
    /\ Open(h.m) => Open(m)

EditorOpens(h) ==
    /\ EditorOpened(h.m.mapping, h.m.mapping.device) /\ h.m.modal.kind # "erase"
    /\ h.m.mapping.unavailable \/ h.issue = <<ReadOf(h.m.mapping)>>

LEMMA SameOpen ==
    ASSUME NEW m, NEW n, n.mapping = m.mapping, n.lock = m.lock,
           m.lock.on /\ n.screen = "mapping" => m.screen = "mapping"
    PROVE  Open(n) => Open(m)
BY DEF Open

LEMMA UserEditor ==
    ASSUME NEW m \in ModelType, WellFormed(m), NEW h, UserHandled(m, h)
    PROVE  \/ Writes(m, h) \/ Erases(m, h) \/ h.m.mapping.device = NoDevice
           \/ EditorOpens(h) \/ EditorStays(m, h)
<1> DEFINE K == CommandKinds \ MappingKinds
<1>1. /\ {"probe", "list", "rediag", "diag", "fwStart", "fwCancel", "fwDownload", "restore"} \subseteq K
      /\ K \intersect MappingKinds = {}
    BY DEF CommandKinds, WriteKinds, MappingKinds, FirmwareKinds
<1> HIDE DEF K
<1>2. ASSUME h.m.mapping = m.mapping, Starts(h, K), h.m.lock = m.lock,
             m.lock.on /\ h.m.screen = "mapping" => m.screen = "mapping",
             h.m.modal.kind = "erase" => m.modal.kind = "erase" \/ (AtRest(m.mapping) /\ m.mapping.keyboard)
      PROVE  EditorStays(m, h)
    BY <1>1, <1>2, NoneStarted, SameOpen DEF EditorStays
<1>3. CASE AsksFirst(m, h)
  <2>1. Starts(h, K) /\ h.m.mapping = m.mapping /\ h.m.lock = m.lock /\ h.m.screen = m.screen
    BY <1>3, NoKind DEF AsksFirst, Alike, Fields
  <2>2. h.m.modal.kind = "erase" => AtRest(m.mapping) /\ m.mapping.keyboard
    BY <1>3 DEF AsksFirst, AtRest, Editable
  <2> QED
    BY <1>2, <2>1, <2>2
<1>4. CASE Leaves(m, h) \/ Toggles(m, h) \/ TakesOver(m, h)
  <2>1. Starts(h, K) /\ h.m.mapping = m.mapping /\ h.m.lock = m.lock /\ h.m.modal = m.modal
    BY <1>4, NoKind DEF Leaves, Toggles, TakesOver, Alike, Fields
  <2>2. m.lock.on /\ h.m.screen = "mapping" => m.screen = "mapping"
    BY <1>4 DEF Leaves, Toggles, TakesOver, Alike, Fields
  <2> QED
    BY <1>2, <2>1, <2>2
<1>5. CASE Begins(m, h)
  <2>1. Starts(h, K)
    BY <1>1, <1>5, OneKind DEF Begins
  <2>2. h.m.mapping = m.mapping /\ h.m.lock = m.lock /\ h.m.modal.kind = "none" /\ h.m.screen = "firmware"
    BY <1>5 DEF Begins, Alike, Fields
  <2> QED
    BY <1>2, <2>1, <2>2
<1>6. CASE Probes(m, h)
  <2>1. Starts(h, K)
    BY <1>1, <1>6, OneKind DEF Probes
  <2>2. h.m.mapping = m.mapping /\ h.m.lock = m.lock /\ h.m.modal.kind = "none" /\ h.m.screen = m.screen
    BY <1>6 DEF Probes, Alike, Fields
  <2> QED
    BY <1>2, <2>1, <2>2
<1>7. CASE Transfers(m, h) \/ Rechecks(m, h)
  <2>1. Starts(h, K)
    BY <1>1, <1>7, OneKind DEF Transfers, Rechecks
  <2>2. h.m.mapping = m.mapping /\ h.m.lock = m.lock /\ h.m.modal = m.modal /\ h.m.screen = m.screen
    BY <1>7 DEF Transfers, Rechecks, Alike, Fields
  <2> QED
    BY <1>2, <2>1, <2>2
<1>8. CASE Lists(m, h) \/ PutsBack(m, h)
  <2>1. Starts(h, K)
    BY <1>1, <1>8, OneKind DEF Lists, PutsBack
  <2>2. h.m = m
    BY <1>8 DEF Lists, PutsBack
  <2> QED
    BY <1>2, <2>1, <2>2
<1>9. ASSUME NEW n, Navigated(n, h), n.modal.kind # "erase"
      PROVE  EditorOpens(h) \/ (h.m.mapping = n.mapping /\ Starts(h, {"diag"}))
  <2>1. ToEditor(n, h) \/ (h.m.mapping = n.mapping /\ Starts(h, {"diag"}))
    BY <1>9, NavigatedKinds
  <2>2. h.m.modal = n.modal
    BY <1>9, NavigatedKinds
  <2>3. ToEditor(n, h) => EditorOpens(h)
    BY <1>9, <2>2 DEF ToEditor, EditorOpens, EditorOpened
  <2> QED
    BY <2>1, <2>3
<1>10. CASE GivesUp(m, h)
  <2>1. GivenUp(m).modal.kind = "none" /\ GivenUp(m).mapping.device = NoDevice
    BY GivenUpFacts DEF NoModal, NewMapping
  <2> QED
    BY <1>9, <1>10, <2>1 DEF GivesUp
<1>11. CASE Goes(m, h)
  <2>1. EditorOpens(h) \/ (h.m.mapping = m.mapping /\ Starts(h, {"diag"}))
    BY <1>9, <1>11 DEF Goes
  <2>2. h.m.lock = m.lock /\ ~m.lock.on /\ h.m.modal.kind = "none"
    BY <1>11, NavigatedKinds DEF Goes
  <2>3. {"diag"} \subseteq K
    BY <1>1
  <2> QED
    BY <1>2, <2>1, <2>2, <2>3, MoreKinds
<1> QED
    BY <1>3, <1>4, <1>5, <1>6, <1>7, <1>8, <1>10, <1>11 DEF UserHandled

LEMMA UserEditorStep ==
    ASSUME ShellTypeOK, FormInv, NEW h, UserStep(h), Open(model) => EditorHolds(model, cmds),
           "openedInFlight" \notin astray', Open(h.m)
    PROVE  EditorHolds(h.m, cmds')
<1>1. /\ model \in ModelType /\ WellFormed(model) /\ UserHandled(model, h)
      /\ Follows(cmds, {}, h.issue, cmds')
    BY DEF ShellTypeOK, FormInv, UserStep
<1> DEFINE p == model.mapping
           q == h.m.mapping
<1>2. CASE Writes(model, h)
  <2>1. /\ Editable(model) /\ ~p.applying /\ ~model.lock.on /\ model.modal.kind = "none"
        /\ Alike(model, h.m, {"mapping"}) /\ SameBut(p, q, {"applying"}) /\ q.applying
        /\ h.issue = <<Command(IF p.keyboard THEN "keyboardApply" ELSE "padApply",
                               p.device, Editor(p).draft, NoDevice)>>
    BY <1>2 DEF Writes
  <2>2. /\ h.m.modal = model.modal /\ q.device = p.device /\ q.keyboard = p.keyboard
        /\ q.kb = p.kb /\ q.pad = p.pad /\ q.unavailable = p.unavailable
    BY <2>1 DEF Alike, Fields, SameBut
  <2>3. EditorHolds(model, cmds) /\ AtRest(p)
    BY <2>1, <2>2 DEF Open, AtRest, Editable
  <2>4. None(cmds, {}) /\ Known(p.device, Editor(p).loaded)
    BY <2>3, RestWaits DEF EditorHolds, AtRest
  <2>5. /\ DOMAIN h.issue = {1} /\ Len(h.issue) = 1
        /\ h.issue[1].kind = (IF p.keyboard THEN "keyboardApply" ELSE "padApply")
        /\ h.issue[1].device = p.device /\ h.issue[1].value = Editor(p).draft
        /\ h.issue[1].out = "pending"
    BY <2>1, One
  <2>6. Editor(q) = Editor(p)
    BY <2>2 DEF Editor
  <2>7. Expected(q, h.issue[1])
    BY <2>1, <2>2, <2>4, <2>5, <2>6 DEF Expected, Reads, Applies
  <2> QED
    BY <1>1, <2>1, <2>2, <2>4, <2>5, <2>7, EditorStarts DEF AtRest
<1>3. CASE Erases(model, h)
  <2>1. /\ model.modal.kind = "erase" /\ h.m.modal.kind = "none"
        /\ Alike(model, h.m, {"mapping", "modal"}) /\ SameBut(p, q, {"applying"}) /\ q.applying
        /\ h.issue = <<Command("keyboardErase", p.device, Unread, NoDevice)>>
    BY <1>3 DEF Erases
  <2>2. /\ h.m.lock = model.lock /\ h.m.screen = model.screen /\ q.device = p.device
        /\ q.keyboard = p.keyboard /\ q.kb = p.kb /\ q.pad = p.pad /\ q.unavailable = p.unavailable
    BY <2>1 DEF Alike, Fields, SameBut
  <2>3. EditorHolds(model, cmds) /\ AtRest(p) /\ p.keyboard
    BY <2>1, <2>2 DEF Open, EditorHolds
  <2>4. None(cmds, {}) /\ Known(p.device, Editor(p).loaded)
    BY <2>3, RestWaits DEF EditorHolds, AtRest
  <2>5. /\ DOMAIN h.issue = {1} /\ Len(h.issue) = 1 /\ h.issue[1].kind = "keyboardErase"
        /\ h.issue[1].device = p.device /\ h.issue[1].out = "pending"
    BY <2>1, One
  <2>6. Editor(q) = Editor(p)
    BY <2>2 DEF Editor
  <2>7. Expected(q, h.issue[1])
    BY <2>1, <2>2, <2>3, <2>4, <2>5, <2>6 DEF Expected, Reads, Applies
  <2> QED
    BY <1>1, <2>1, <2>4, <2>5, <2>7, EditorStarts DEF AtRest
<1>4. CASE q.device = NoDevice
    BY <1>4 DEF Open
<1>5. CASE EditorOpens(h)
  <2>1. /\ ~q.unavailable /\ q.loading /\ h.m.modal.kind # "erase" /\ h.issue = <<ReadOf(q)>>
    BY <1>5 DEF EditorOpens, EditorOpened, Open
  <2>2. /\ DOMAIN h.issue = {1} /\ Len(h.issue) = 1
        /\ h.issue[1].kind = (IF q.keyboard THEN "keyboardRead" ELSE "padRead")
        /\ h.issue[1].device = q.device /\ h.issue[1].out = "pending"
    BY <2>1, One DEF ReadOf
  <2>3. Expected(q, h.issue[1])
    BY <2>1, <2>2 DEF Expected, Reads, Applies
  <2>4. ~(h.issue # <<>> /\ h.issue[1].kind \in {"keyboardRead", "padRead"} /\ InFlight(MappingKinds))
    BY OpeningFacts DEF UserStep
  <2>5. None(cmds, {})
    BY <2>2, <2>4 DEF InFlight, None
  <2> QED
    BY <1>1, <2>1, <2>2, <2>3, <2>5, EditorStarts DEF AtRest
<1>6. CASE EditorStays(model, h)
    BY <1>1, <1>6, EditorFrame DEF EditorStays
<1> QED
    BY <1>1, <1>2, <1>3, <1>4, <1>5, <1>6, UserEditor

\* Of an answer that is not for the editor, or is not taken.
LEMMA OtherAnswers ==
    ASSUME NEW a \in ModelType, WellFormed(a), NEW c \in CommandType, WellIssued(c), c.out # "pending",
           NEW h, Answers(a, c, h)
    PROVE  \/ c.kind \in Reads /\ h = Loaded(a, c)
           \/ c.kind \in Applies /\ h = Applied(a, c)
           \/ c.kind = "keyboardErase" /\ h = Erased(a, c)
           \/ h.m.mapping = NewMapping
           \/ h.m.mapping = a.mapping /\ None(h.issue, {}) /\ (h.m.screen = a.screen \/ h.m.screen # "mapping")
<1>1. CASE h = Just(a)
  <2>1. h.m = a /\ h.issue = <<>>
    BY <1>1, Returned
  <2> QED
    BY <2>1 DEF None
<1>2. CASE h = DevicesLoaded(a, c)
  <2>1. /\ \A j \in DOMAIN h.issue : h.issue[j].kind = "autodiag"
        /\ \/ h.m.screen = a.screen /\ h.m.mapping = a.mapping
           \/ h.m.mapping = NewMapping
    BY <1>2, DevicesLoadedFacts DEF WellFormed
  <2> QED
    BY <2>1 DEF None, MappingKinds
<1>3. CASE h = Hotplugged(a, c)
  <2>1. /\ Alike(a, h.m, {"diag"}) /\ h.issue = <<Command("list", NoDevice, Unread, NoDevice)>>
    BY <1>3, HotpluggedFacts
  <2>2. None(h.issue, {})
    BY <2>1, One DEF None, MappingKinds
  <2> QED
    BY <2>1, <2>2 DEF Alike, Fields
<1>4. CASE h = AutoDiagnosed(a, c)
  <2>1. Alike(a, h.m, {"diag"}) /\ h.issue = <<>>
    BY <1>4, AutoDiagnosedFacts
  <2> QED
    BY <2>1 DEF Alike, Fields, None
<1>5. CASE h = Probed(a, c)
  <2>1. Alike(a, h.m, {"lock"}) /\ h.issue = <<>>
    BY <1>5, ProbedFacts
  <2> QED
    BY <2>1 DEF Alike, Fields, None
<1>6. CASE h = Restored(a, c)
  <2>1. Alike(a, h.m, {"lock"}) /\ h.issue = <<>>
    BY <1>6, RestoredFacts
  <2> QED
    BY <2>1 DEF Alike, Fields, None
<1>7. CASE h = Diagnosed(a, c)
  <2>1. Alike(a, h.m, {"diag"}) /\ h.issue = <<>>
    BY <1>7, DiagnosedFacts
  <2> QED
    BY <2>1 DEF Alike, Fields, None
<1>8. CASE c.kind \in FirmwareKinds /\ h = FirmwareAnswered(a, c)
  <2>1. /\ Alike(a, h.m, {"fw"})
        /\ \/ h.issue = <<>>
           \/ h.issue = <<Command("fwPreflight", a.fw.device, Unread, c.image)>>
           \/ \E kind \in {"fwConfirm", "fwListen"} :
                 h.issue = <<Command(kind, a.fw.plan[1], Unread, a.fw.plan[2])>>
    BY <1>8, FirmwareAnsweredFacts
  <2>2. Starts(h, FirmwareKinds)
    BY <2>1, OneKind, NoKind DEF FirmwareKinds
  <2>3. None(h.issue, {})
    BY <2>2, NoneStarted DEF FirmwareKinds, MappingKinds
  <2> QED
    BY <2>1, <2>3 DEF Alike, Fields
<1> QED
  BY <1>1, <1>2, <1>3, <1>4, <1>5, <1>6, <1>7, <1>8 DEF Answers, Reads, Applies

LEMMA AnswerEditorStep ==
    ASSUME NEW i \in DOMAIN cmds, NEW a, NEW h, AnswerStep(i, a, h),
           Open(model) => EditorHolds(model, cmds), Open(h.m)
    PROVE  EditorHolds(h.m, cmds')
<1> DEFINE c == cmds[i]
           p == model.mapping
           q == h.m.mapping
<1>1. /\ c \in CommandType /\ WellIssued(c) /\ c.out # "pending" /\ a \in ModelType /\ WellFormed(a)
      /\ TakenOver(model, a) /\ Answers(a, c, h) /\ Follows(cmds, {i}, h.issue, cmds')
      /\ h.m.modal = a.modal /\ (a.lock.on => h.m.lock.on)
      /\ a.lock.on /\ a.screen = "recovery" => h.m.screen = "recovery"
    BY DEF AnswerStep
<1>2. a = model
  <2>1. CASE a # model
    <3>1. a.lock.on /\ a.screen = "recovery"
      BY <1>1, <2>1 DEF TakenOver, Alike, Fields
    <3> QED
      BY <1>1, <3>1 DEF Open
  <2> QED
    BY <2>1
<1>3. ASSUME q.device = p.device, q.unavailable = p.unavailable,
             h.m.screen = model.screen \/ h.m.screen # "mapping"
      PROVE  EditorHolds(model, cmds)
    BY <1>1, <1>2, <1>3 DEF Open
<1>4. CASE c.kind \in Reads /\ h = Loaded(a, c)
  <2>1. /\ Alike(model, h.m, {"mapping"}) /\ h.issue = <<>>
        /\ SameBut(p, q, {"loading", "failed", "kb", "pad"})
        /\ ~q.loading /\ q.failed = (c.out = "error")
        /\ c.out # "error" =>
             IF c.kind = "keyboardRead"
             THEN q.kb = [loaded |-> c.value, draft |-> c.value] /\ q.pad = p.pad
             ELSE q.pad = [loaded |-> c.value, draft |-> c.value] /\ q.kb = p.kb
    BY <1>1, <1>2, <1>4, LoadedFacts
  <2>2. h.m.screen = model.screen /\ q.device = p.device /\ q.unavailable = p.unavailable /\ q.keyboard = p.keyboard
    BY <2>1 DEF Alike, Fields, SameBut
  <2>3. EditorHolds(model, cmds) /\ c.kind \in MappingKinds
    BY <1>3, <1>4, <2>2 DEF Reads, MappingKinds
  <2>4. None(cmds, {i}) /\ Expected(p, c) /\ model.modal.kind # "erase"
    BY <2>3, OnlyOne
  <2>5. ASSUME AtRest(q)
        PROVE  Known(q.device, Editor(q).loaded)
    <3>1. c.out = "ok"
      BY <1>1, <1>4, <2>1, <2>5 DEF AtRest, WellIssued, Outcomes, Reads, Checks, Applies
    <3>2. c.device = p.device /\ (p.keyboard <=> c.kind = "keyboardRead") /\ Known(p.device, c.value)
      BY <1>4, <2>4, <3>1 DEF Expected, Reads
    <3>3. Editor(q).loaded = c.value
      BY <2>1, <2>2, <3>1, <3>2 DEF Editor
    <3> QED
      BY <2>2, <3>2, <3>3
  <2> QED
    BY <1>1, <1>2, <2>1, <2>4, <2>5, EditorEnds
<1>5. CASE c.kind \in Applies /\ h = Applied(a, c)
  <2>1. /\ h.issue = <<>> /\ SameBut(p, q, {"applying", "kb", "pad"}) /\ ~q.applying
        /\ c.out # "uncertain" => Alike(model, h.m, {"mapping"})
        /\ c.out = "uncertain" => h.m.screen = "recovery"
        /\ c.out = "uncertain" => h.m.lock = [model.lock EXCEPT !.on = TRUE, !.hasBackup = TRUE,
                                                !.device = c.device, !.saved = c.saved]
        /\ c.out = "ok" =>
             IF p.keyboard
             THEN q.pad = p.pad /\ q.kb = [loaded |-> p.kb.draft, draft |-> p.kb.draft]
             ELSE q.kb = p.kb /\ q.pad = [loaded |-> p.pad.draft, draft |-> p.pad.draft]
        /\ c.out \notin {"ok", "uncertain"} => q.kb = p.kb /\ q.pad = p.pad
    BY <1>1, <1>2, <1>5, AppliedFacts
  <2>2. c.out # "uncertain"
    <3>1. c.out = "uncertain" => h.m.lock.on
      BY <1>1, <1>2, <2>1 DEF ModelType
    <3> QED
      BY <2>1, <3>1 DEF Open
  <2>3. /\ h.m.screen = model.screen /\ q.device = p.device /\ q.unavailable = p.unavailable
        /\ q.keyboard = p.keyboard
    BY <2>1, <2>2 DEF Alike, Fields, SameBut
  <2>4. EditorHolds(model, cmds) /\ c.kind \in MappingKinds
    BY <1>3, <1>5, <2>3 DEF Applies, MappingKinds
  <2>5. None(cmds, {i}) /\ Expected(p, c) /\ model.modal.kind # "erase"
    BY <2>4, OnlyOne
  <2>6. c.out \in {"ok", "putBack", "error"}
    BY <1>1, <1>5, <2>2 DEF WellIssued, Outcomes, Checks, Applies
  <2>7. Known(q.device, Editor(q).loaded)
    <3>1. CASE c.out = "ok"
      <4>1. c.value = Editor(p).draft /\ Known(p.device, c.value)
        BY <1>5, <2>5, <3>1 DEF Expected
      <4>2. Editor(q).loaded = Editor(p).draft
        BY <2>1, <2>3, <3>1 DEF Editor
      <4> QED
        BY <2>3, <4>1, <4>2
    <3>2. CASE c.out \in {"putBack", "error"}
      <4>1. Known(p.device, Editor(p).loaded)
        BY <1>5, <2>5, <3>2 DEF Expected
      <4>2. Editor(q) = Editor(p)
        BY <2>1, <2>3, <3>2 DEF Editor
      <4> QED
        BY <2>3, <4>1, <4>2
    <3> QED
      BY <2>6, <3>1, <3>2
  <2> QED
    BY <1>1, <1>2, <2>1, <2>5, <2>7, EditorEnds
<1>6. CASE c.kind = "keyboardErase" /\ h = Erased(a, c)
  <2>1. /\ Alike(model, h.m, {"mapping"}) /\ SameBut(p, q, {"applying", "loading"}) /\ ~q.applying
        /\ c.out = "error" => h.issue = <<>>
        /\ c.out # "error" =>
             h.issue = <<Command("keyboardRead", p.device, Unread, NoDevice)>> /\ q.loading
    BY <1>1, <1>2, <1>6, ErasedFacts
  <2>2. /\ h.m.screen = model.screen /\ q.device = p.device /\ q.unavailable = p.unavailable
        /\ q.keyboard = p.keyboard /\ q.kb = p.kb /\ q.pad = p.pad
    BY <2>1 DEF Alike, Fields, SameBut
  <2>3. EditorHolds(model, cmds) /\ c.kind \in MappingKinds
    BY <1>3, <1>6, <2>2 DEF MappingKinds
  <2>4. None(cmds, {i}) /\ Expected(p, c) /\ model.modal.kind # "erase"
    BY <2>3, OnlyOne
  <2>5. CASE c.out = "error"
    <3>1. Known(p.device, Editor(p).loaded)
      BY <1>6, <2>4, <2>5 DEF Expected
    <3>2. Editor(q) = Editor(p)
      BY <2>2 DEF Editor
    <3> QED
      BY <1>1, <1>2, <2>1, <2>2, <2>4, <2>5, <3>1, <3>2, EditorEnds
  <2>6. CASE c.out # "error"
    <3>1. /\ DOMAIN h.issue = {1} /\ Len(h.issue) = 1 /\ h.issue[1].kind = "keyboardRead"
          /\ h.issue[1].device = p.device /\ h.issue[1].out = "pending"
      <4> HIDE DEF c, p, q
      <4>1. h.issue = <<Command("keyboardRead", p.device, Unread, NoDevice)>>
        BY <2>1, <2>6
      <4> QED
        BY <4>1, One
    <3>2. p.keyboard
      BY <1>6, <2>4 DEF Expected
    <3>3. Expected(q, h.issue[1])
      BY <2>1, <2>2, <2>6, <3>1, <3>2 DEF Expected, Reads, Applies
    <3> QED
      BY <1>1, <1>2, <2>1, <2>4, <2>6, <3>1, <3>3, EditorStarts DEF AtRest
  <2> QED
    BY <2>5, <2>6
<1>7. CASE q = NewMapping
    BY <1>7 DEF Open, NewMapping
<1>8. CASE q = a.mapping /\ None(h.issue, {}) /\ (h.m.screen = a.screen \/ h.m.screen # "mapping")
    BY <1>1, <1>2, <1>3, <1>8, EditorFrame
<1> QED
    BY <1>1, <1>4, <1>5, <1>6, <1>7, <1>8, OtherAnswers

-----------------------------------------------------------------------------
(* A command runs while the editor waits for it, or for another. *)

KnownThen(d, value) == value = content'[d] \/ d \in uncertain'

ExpectedThen(p, c) ==
    /\ c.device = p.device
    /\ p.keyboard <=> c.kind \in {"keyboardRead", "keyboardApply", "keyboardErase"}
    /\ c.kind \in Reads => p.loading /\ (c.out = "ok" => KnownThen(p.device, c.value))
    /\ c.kind \notin Reads => p.applying
    /\ c.kind \in Applies =>
         /\ c.out \in {"pending", "ok"} => c.value = Editor(p).draft
         /\ c.out = "ok" => KnownThen(p.device, c.value)
    /\ c.kind \in Applies \union {"keyboardErase"} /\ c.out \in {"pending", "putBack", "error"} =>
         KnownThen(p.device, Editor(p).loaded)

EditorHoldsThen(m, cs) ==
    /\ Lone(cs, {})
    /\ \A i \in DOMAIN cs : cs[i].kind \in MappingKinds => ExpectedThen(m.mapping, cs[i])
    /\ AtRest(m.mapping) => KnownThen(m.mapping.device, Editor(m.mapping).loaded)
    /\ m.modal.kind = "erase" => AtRest(m.mapping) /\ m.mapping.keyboard

LEMMA EditorThen ==
    EditorInv' <=> (Open(model') /\ EditorLapses \intersect astray' = {} => EditorHoldsThen(model', cmds'))
BY DEF EditorInv, Open, EditorLapses, Unless, EditorHoldsThen, ExpectedThen, KnownThen, Expected, Known,
       Lone, AtRest, Editor

LEMMA EditorNow ==
    EditorInv <=> (Open(model) /\ EditorLapses \intersect astray = {} => EditorHolds(model, cmds))
BY DEF EditorInv, EditorLapses, Unless, EditorHolds, Lone

LEMMA HeldThen ==
    ASSUME NEW m, NEW cs, EditorHolds(m, cs), content' = content, uncertain \subseteq uncertain'
    PROVE  EditorHoldsThen(m, cs)
BY DEF EditorHoldsThen, EditorHolds, ExpectedThen, Expected, KnownThen, Known

\* Of a command that is not for the editor.
LEMMA OthersRun ==
    ASSUME NEW i \in DOMAIN cmds, Ran(i), EditorHoldsThen(model, cmds), cmds[i].kind \notin MappingKinds
    PROVE  EditorHoldsThen(model, cmds')
<1>1. Becomes(i, cmds'[i]) /\ cmds'[i].kind = cmds[i].kind
    BY DEF Ran, SameSaid
<1>2. Lone(cmds', {})
    BY <1>1 DEF EditorHoldsThen, Lone, Becomes
<1>3. \A k \in DOMAIN cmds' : cmds'[k].kind \in MappingKinds => ExpectedThen(model.mapping, cmds'[k])
    BY <1>1 DEF EditorHoldsThen, Becomes
<1> QED
    BY <1>2, <1>3 DEF EditorHoldsThen

\* Of the command that the editor waits for.
LEMMA AwaitedRuns ==
    ASSUME NEW i \in DOMAIN cmds, Ran(i), EditorHolds(model, cmds), cmds[i].kind \in MappingKinds,
           ExpectedThen(model.mapping, cmds'[i])
    PROVE  EditorHoldsThen(model, cmds')
<1>1. /\ Becomes(i, cmds'[i])
      /\ None(cmds, {i}) /\ ~AtRest(model.mapping) /\ model.modal.kind # "erase"
    BY OnlyOne DEF Ran
<1>2. \A k \in DOMAIN cmds' : cmds'[k].kind \in MappingKinds => k = i
    BY <1>1 DEF Becomes, None
<1> QED
    BY <1>1, <1>2 DEF EditorHoldsThen, Lone

LEMMA RunEditorStep ==
    ASSUME ShellTypeOK, RestoreInv, NEW i \in DOMAIN cmds, RunDone(i), EditorHolds(model, cmds), Open(model),
           "eraseFailed" \notin astray'
    PROVE  EditorHoldsThen(model, cmds')
<1> DEFINE c == cmds[i]
           d == cmds'[i]
           p == model.mapping
<1>1. /\ Ran(i) /\ c.out = "pending" /\ d.kind = c.kind /\ d.device = c.device /\ WellIssued(d)
    BY DEF RunDone, Ran, SameSaid
<1>2. c.kind \in MappingKinds => Expected(p, c)
    BY DEF EditorHolds
<1>3. content \in [Devices -> Contents]
    BY DEF ShellTypeOK
<1>4. CASE content' = content /\ uncertain \subseteq uncertain' /\ c.kind \notin MappingKinds
    BY <1>1, <1>4, HeldThen, OthersRun
<1>5. CASE /\ c.kind \in Reads /\ UNCHANGED <<content, uncertain>>
           /\ \/ d.out = "ok" /\ d.value = content[c.device]
              \/ d.out = "error"
  <2>1. c.kind \in MappingKinds /\ c.kind \notin Applies \union {"keyboardErase"}
    BY <1>5 DEF Reads, MappingKinds, Applies
  <2>2. ExpectedThen(p, d)
    BY <1>1, <1>2, <1>5, <2>1 DEF ExpectedThen, Expected, KnownThen
  <2> QED
    BY <1>1, <2>1, <2>2, AwaitedRuns
<1>6. CASE ApplyEnds(i)
  <2>1. c.kind \in MappingKinds /\ c.kind \notin Reads /\ c.kind \in Applies
    BY <1>6 DEF ApplyEnds, Reads, MappingKinds, Applies
  <2>2. /\ d.value = c.value
        /\ \/ /\ d.out = "ok" /\ c.device \in Devices /\ content' = [content EXCEPT ![c.device] = c.value]
           \/ d.out = "uncertain"
           \/ d.out \in {"putBack", "error"} /\ UNCHANGED <<content, uncertain>>
    BY <1>6 DEF ApplyEnds
  <2>3. d.out = "ok" => KnownThen(c.device, d.value)
    BY <1>3, <2>2 DEF KnownThen
  <2>4. d.out \in {"putBack", "error"} => KnownThen(p.device, Editor(p).loaded)
    BY <1>1, <1>2, <2>1, <2>2 DEF KnownThen, Expected, Known
  <2>5. ExpectedThen(p, d)
    <3>1. /\ c.device = p.device /\ p.applying /\ c.value = Editor(p).draft
          /\ p.keyboard <=> c.kind \in {"keyboardRead", "keyboardApply", "keyboardErase"}
      BY <1>1, <1>2, <2>1 DEF Expected
    <3>2. d.out # "pending"
      BY <2>2
    <3> QED
      BY <1>1, <2>1, <2>2, <2>3, <2>4, <3>1, <3>2 DEF ExpectedThen
  <2> QED
    BY <1>1, <2>1, <2>5, AwaitedRuns
<1>7. CASE EraseEnds(i)
  <2>1. /\ c.kind = "keyboardErase" /\ c.kind \in MappingKinds
        /\ d.out = "ok" \/ (d.out = "error" /\ UNCHANGED <<content, uncertain>>)
    BY <1>7 DEF EraseEnds, MappingKinds
  <2>2. ExpectedThen(p, d)
    <3>1. /\ c.device = p.device /\ p.applying /\ p.keyboard /\ Known(p.device, Editor(p).loaded)
      BY <1>1, <1>2, <2>1 DEF Expected, Reads
    <3>2. d.out = "error" => KnownThen(p.device, Editor(p).loaded)
      BY <2>1, <3>1 DEF KnownThen, Known
    <3> QED
      BY <1>1, <2>1, <3>1, <3>2 DEF ExpectedThen, Reads, Applies
  <2> QED
    BY <1>1, <2>1, <2>2, AwaitedRuns
<1>8. CASE c.kind = "restore"
  <2>1. model.lock.on /\ model.screen = "recovery"
    BY <1>8 DEF RestoreInv
  <2> QED
    BY <2>1 DEF Open
<1>9. \/ content' = content /\ uncertain \subseteq uncertain' /\ c.kind \notin MappingKinds
      \/ /\ c.kind \in Reads /\ UNCHANGED <<content, uncertain>>
         /\ \/ d.out = "ok" /\ d.value = content[c.device]
            \/ d.out = "error"
      \/ ApplyEnds(i) \/ EraseEnds(i) \/ c.kind = "restore"
    BY DEF RunDone, FirmwareEnds, ProbeEnds, RestoreEnds, MappingKinds, FirmwareKinds
<1> QED
    BY <1>4, <1>5, <1>6, <1>7, <1>8, <1>9

LEMMA EditorStep ==
    ASSUME ShellTypeOK, FormInv, RestoreInv, EditorInv, [ShellNext]_shellVars
    PROVE  EditorInv'
<1>1. SUFFICES ASSUME Open(model'), EditorLapses \intersect astray' = {}
               PROVE  EditorHoldsThen(model', cmds')
    BY EditorThen
<1>2. ASSUME astray \subseteq astray', Open(model)
      PROVE  EditorHolds(model, cmds)
    BY <1>1, <1>2, EditorNow
<1>3. /\ "editedWhileWriting" \notin astray' /\ "openedInFlight" \notin astray' /\ "eraseFailed" \notin astray'
    BY <1>1 DEF EditorLapses
<1>4. ASSUME EditorHolds(model', cmds'), UNCHANGED <<content, uncertain>>
      PROVE  EditorHoldsThen(model', cmds')
    BY <1>4, HeldThen
<1>5. ASSUME NEW value, EditDone(value)
      PROVE  EditorHoldsThen(model', cmds')
  <2> DEFINE p == model.mapping
             q == model'.mapping
  <2>1. /\ Editing /\ Alike(model, model', {"mapping"}) /\ SameBut(p, q, {"kb", "pad"})
        /\ q.kb.loaded = p.kb.loaded /\ q.pad.loaded = p.pad.loaded
        /\ UNCHANGED <<cmds, content, uncertain>>
        /\ astray' = astray \union When(p.applying, "editedWhileWriting")
    BY <1>5 DEF EditDone, world
  <2>2. /\ model'.lock = model.lock /\ model'.screen = model.screen /\ model'.modal = model.modal
        /\ q.device = p.device /\ q.keyboard = p.keyboard /\ q.unavailable = p.unavailable
    BY <2>1 DEF Alike, Fields, SameBut
  <2>3. ~p.applying /\ ~p.loading /\ ~p.failed /\ model.modal.kind = "none"
    BY <1>3, <2>1 DEF When, Editing, UserTurn
  <2>4. EditorHolds(model, cmds)
    BY <1>1, <1>2, <2>1, <2>2 DEF Open
  <2>5. None(cmds, {}) /\ Known(p.device, Editor(p).loaded)
    BY <2>3, <2>4, RestWaits DEF EditorHolds, AtRest
  <2>6. Editor(q).loaded = Editor(p).loaded
    BY <2>1, <2>2 DEF Editor
  <2>7. EditorHolds(model', cmds')
    BY <2>1, <2>2, <2>3, <2>5, <2>6 DEF EditorHolds, None, Lone
  <2> QED
    BY <1>4, <2>1, <2>7
<1>6. ASSUME NEW h, UserStep(h)
      PROVE  EditorHoldsThen(model', cmds')
  <2>1. astray \subseteq astray' /\ model' = h.m /\ UNCHANGED <<content, uncertain>>
    BY <1>6, OpeningFacts DEF UserStep, world
  <2>2. EditorHolds(h.m, cmds')
    BY <1>1, <1>2, <1>3, <1>6, <2>1, UserEditorStep
  <2> QED
    BY <1>4, <2>1, <2>2
<1>7. ASSUME NEW c, ReplugDone(c)
      PROVE  EditorHoldsThen(model', cmds')
  <2>1. /\ Follows(cmds, {}, <<c>>, cmds') /\ c.kind = "hotplug"
        /\ UNCHANGED <<model, content, uncertain, astray>>
    BY <1>7 DEF ReplugDone
  <2>2. None(<<c>>, {})
    BY <2>1 DEF None, MappingKinds
  <2>3. EditorHolds(model, cmds)
    BY <1>1, <1>2, <2>1
  <2>4. EditorHolds(model, cmds')
    BY <2>1, <2>2, <2>3, EditorFrame
  <2> QED
    BY <1>4, <2>1, <2>4
<1>8. ASSUME NEW i \in DOMAIN cmds, RunDone(i)
      PROVE  EditorHoldsThen(model', cmds')
  <2>1. UNCHANGED model /\ astray \subseteq astray'
    BY <1>8 DEF RunDone, Ran
  <2>2. Open(model) /\ EditorHolds(model, cmds)
    BY <1>1, <1>2, <2>1
  <2> QED
    BY <1>3, <1>8, <2>1, <2>2, RunEditorStep
<1>9. ASSUME NEW i \in DOMAIN cmds, NEW a, NEW h, AnswerStep(i, a, h)
      PROVE  EditorHoldsThen(model', cmds')
  <2>1. astray \subseteq astray' /\ model' = h.m /\ UNCHANGED <<content, uncertain>>
    BY <1>9, AnswerLapseFacts DEF AnswerStep, world
  <2>2. EditorHolds(h.m, cmds')
    BY <1>1, <1>2, <1>9, <2>1, AnswerEditorStep
  <2> QED
    BY <1>4, <2>1, <2>2
<1>10. CASE UNCHANGED shellVars
  <2>1. UNCHANGED <<model, cmds, content, uncertain, astray>>
    BY <1>10 DEF shellVars
  <2> QED
    BY <1>1, <1>2, <1>4, <2>1
<1> QED
    BY <1>5, <1>6, <1>7, <1>8, <1>9, <1>10, Steps

-----------------------------------------------------------------------------
(* The inductive invariant of the messages, and what it comes to. *)

ShellInv ==
    /\ ShellTypeOK /\ FormInv
    /\ FirmwareInv /\ ChecksInv /\ TabInv /\ NamedInv /\ RestoreInv /\ EditorInv

LEMMA ShellStarts ==
    ASSUME ShellInit
    PROVE  ShellInv
<1> DEFINE l == Arranged[visit.devices]
<1>1. /\ visit \in Visits /\ cmds = <<>> /\ uncertain = {} /\ astray = {}
      /\ cache = [d \in Devices |-> IF visit.probed THEN "answers" ELSE "unknown"]
      /\ attached = visit.devices /\ content = [d \in Devices |-> 1]
      /\ flash = [started |-> {}, foreign |-> FALSE]
    BY DEF ShellInit
<1>2. visit.devices \subseteq Devices /\ visit.advanced \in BOOLEAN
    BY <1>1, ShellAssumption
<1>3. l \in Seq(Devices)
    BY <1>2, ShellAssumption
<1> HIDE DEF l
<1>4. /\ model.listed = l /\ model.cursor = 1 /\ model.screen = "devices" /\ model.prev = "devices"
      /\ model.modal = NoModal /\ model.lock = NewLock
      /\ model.mapping = NewMapping /\ model.diag = NewDiag /\ model.fw = NewFirmware
    BY DEF ShellInit, l
<1>5. model \in ModelType
  <2>1. NoModal \in ModalType
    BY DEF NoModal, ModalType, Screens, Tabs, MaybeDevice
  <2>2. NewMapping \in MappingType
    BY DEF NewMapping, MappingType, Fresh, Unread, MaybeDevice
  <2>3. NewLock \in [on : BOOLEAN, hasBackup : BOOLEAN, device : MaybeDevice, saved : 0 .. 2,
                     restored : BOOLEAN]
    BY DEF NewLock, Unread, MaybeDevice
  <2>4. NewDiag \in [device : MaybeDevice, loading : BOOLEAN, failed : BOOLEAN, result : MaybeDevice]
    BY DEF NewDiag, MaybeDevice
  <2>5. NewFirmware \in [device : MaybeDevice, stage : Stages, plan : MaybeDevice \X MaybeDevice]
    BY DEF NewFirmware, NoPlan, MaybeDevice, Stages
  <2>6. "devices" \in Screens /\ 1 \in Nat \ {0}
    BY DEF Screens, Tabs
  <2>7. model = [listed |-> l, cursor |-> 1, screen |-> "devices", prev |-> "devices", modal |-> NoModal,
                 lock |-> NewLock, advanced |-> visit.advanced, acknowledged |-> FALSE,
                 mapping |-> NewMapping, diag |-> NewDiag, fw |-> NewFirmware]
    BY DEF ShellInit, l
  <2> QED
    BY <1>2, <1>3, <2>1, <2>2, <2>3, <2>4, <2>5, <2>6, <2>7 DEF ModelType
<1>6. DOMAIN cmds = {} /\ cmds \in Seq(CommandType)
    BY <1>1
<1>7. ShellTypeOK
  <2>1. flash \in [started : SUBSET (MaybeDevice \X MaybeDevice), foreign : BOOLEAN]
    BY <1>1
  <2>2. content \in [Devices -> Contents]
    BY <1>1 DEF Contents
  <2>3. cache \in [Devices -> {"unknown", "answers", "silent", "gone"}]
    BY <1>1
  <2> QED
    BY <1>1, <1>2, <1>4, <1>5, <1>6, <2>1, <2>2, <2>3 DEF ShellTypeOK
<1>8. FormInv
  <2>1. NeverEmptied(model.mapping.kb) /\ NeverEmptied(model.mapping.pad)
    BY <1>4 DEF NewMapping, Fresh, NeverEmptied
  <2>2. model.modal.kind = "none" /\ ~model.lock.hasBackup
    BY <1>4 DEF NoModal, NewLock
  <2>3. WellFormed(model)
    BY <1>4, <2>1, <2>2 DEF WellFormed
  <2> QED
    BY <1>6, <2>3 DEF FormInv
<1>9. FirmwareInv
    BY <1>1, <1>4, <1>6 DEF FirmwareInv, NewFirmware, NoPlan
<1>10. ChecksInv
    BY <1>4, <1>6 DEF ChecksInv, NewDiag
<1>11. TabInv /\ NamedInv
    BY <1>4 DEF TabInv, NamedInv, Shows
<1>12. RestoreInv
    BY <1>6 DEF RestoreInv
<1>13. EditorInv
    BY <1>4 DEF EditorInv, Open, NewMapping
<1> QED
    BY <1>7, <1>8, <1>9, <1>10, <1>11, <1>12, <1>13 DEF ShellInv

LEMMA ShellKeeps ==
    ASSUME ShellInv, [ShellNext]_shellVars
    PROVE  ShellInv'
BY TypeStep, FirmwareStep, ChecksStep, TabStep, RestoreStep, EditorStep DEF ShellInv

LEMMA ShellHolds == ShellSpec => []ShellInv
BY ShellStarts, ShellKeeps, PTL DEF ShellSpec

LEMMA ScreenFollows ==
    ASSUME ShellInv
    PROVE  ScreenIsTrue
<1>1. EditorIsTrue
  <2> SUFFICES ASSUME EditorAtRest,
                      ~Unless({"editedWhileWriting", "openedInFlight", "eraseFailed", "discardedForSettings"})
               PROVE  /\ model.mapping.device # NoDevice
                      /\ \/ Editor(model.mapping).loaded = content[model.mapping.device]
                         \/ model.mapping.device \in uncertain
    BY DEF EditorIsTrue
  <2>1. ~Unless({"editedWhileWriting", "openedInFlight", "eraseFailed"}) /\ "discardedForSettings" \notin astray
    BY DEF Unless
  <2>2. Shows(model, "mapping") /\ AtRest(model.mapping)
    BY DEF EditorAtRest, Shows, AtRest
  <2>3. model.mapping.device # NoDevice
    BY <2>1, <2>2 DEF ShellInv, NamedInv
  <2>4. Open(model)
    BY <2>3 DEF EditorAtRest, Open
  <2>5. Known(model.mapping.device, Editor(model.mapping).loaded)
    BY <2>1, <2>2, <2>4 DEF ShellInv, EditorInv
  <2> QED
    BY <2>3, <2>5 DEF Known
<1>2. TabShowsSelected
    BY DEF TabShowsSelected, ShellInv, TabInv, Shows
<1>3. ResultIsOwn
    BY DEF ResultIsOwn, ShellInv, ChecksInv, Unless
<1>4. ImageIsOwn
    BY DEF ImageIsOwn, ShellInv, FirmwareInv, Unless
<1> QED
    BY <1>1, <1>2, <1>3, <1>4 DEF ScreenIsTrue

\* The interface's state is what the code's types allow, with the list's cursor
\* on the list whatever the list becomes (app.go:55-101, 702-721).
THEOREM ShellTypeCorrect == ShellSpec => []ShellTypeOK
BY ShellHolds, PTL DEF ShellInv

\* In whatever order commands end, answers arrive and the user acts: the editor
\* shows what its device holds, the tab is about the selected device, a result
\* is of the device the checks name, and a transfer sends the image downloaded
\* for its target (app.go:150-341, screen_mapping.go:81-113).
THEOREM ScreenTrue == ShellSpec => []ScreenIsTrue
BY ShellHolds, ScreenFollows, PTL

-----------------------------------------------------------------------------
(* The write lock. *)

Dialogs == {"erase", "firmware", "probe"}

\* A write of the editor's that can reach a device.
WriteOf(c) == c.kind \in Applies \union {"keyboardErase"} /\ c.device # NoDevice

NoWrites(cs, gone) == \A i \in DOMAIN cs \ gone : ~WriteOf(cs[i])

OneWrite(cs) == \A i, j \in DOMAIN cs : WriteOf(cs[i]) /\ WriteOf(cs[j]) => i = j

\* The lock trips while no dialog is open, or "dialogBeforeLock" says so.
DialogsInv == "dialogBeforeLock" \notin astray /\ model.lock.on => model.modal.kind \notin Dialogs

EraseInv == model.modal.kind = "erase" => ~model.mapping.unavailable

BackupInv == model.lock.hasBackup => model.lock.on

NamedWrites(cs) ==
    \A i \in DOMAIN cs : cs[i].kind \in Applies /\ cs[i].out = "uncertain" => cs[i].device \in Devices

\* An editor of a device has at most one command in flight, and waits for it;
\* what it asks before an erase, it asks while it waits for none.
EditorAlone(m, cs) ==
    m.mapping.device # NoDevice /\ ~m.mapping.unavailable =>
        /\ Lone(cs, {})
        /\ None(cs, {}) \/ m.mapping.loading \/ m.mapping.applying
        /\ m.modal.kind = "erase" => ~m.mapping.loading /\ ~m.mapping.applying

\* One write at a time, whatever becomes of the editor that began it.
InTurnInv == "openedInFlight" \notin astray => EditorAlone(model, cmds) /\ OneWrite(cmds)

\* With a backup to restore no other write is left to end, every restore is of
\* it, and once one has ended well the device holds it.
BackedBy(m, cs, held) ==
    /\ m.lock.hasBackup => NoWrites(cs, {})
    /\ \A i \in DOMAIN cs : cs[i].kind = "restore" =>
         /\ m.lock.hasBackup /\ cs[i].device = m.lock.device /\ cs[i].value = m.lock.saved
         /\ cs[i].out = "ok" => held[m.lock.device] = m.lock.saved
    /\ m.lock.restored => m.lock.hasBackup /\ held[m.lock.device] = m.lock.saved

RestoreLapses == {"lockedTwice", "dialogBeforeLock", "openedInFlight"}

BackedInv == RestoreLapses \intersect astray = {} => BackedBy(model, cmds, content)

LockInv == /\ DialogsInv /\ EraseInv /\ BackupInv /\ NamedWrites(cmds)
           /\ InTurnInv /\ BackedInv /\ UncertainIsLocked

(***************************************************************************)
(* What becomes of the commands in flight.                                 *)
(***************************************************************************)
LEMMA WritesKept ==
    ASSUME NEW cs, NEW gone, NEW t, NEW next, Kept(cs, gone, t, next),
           \A j \in DOMAIN t : ~WriteOf(t[j])
    PROVE  /\ NoWrites(cs, gone) => NoWrites(next, {})
           /\ OneWrite(cs) => OneWrite(next)
<1>1. PICK from : Placed(cs, gone, t, next, from)
    BY DEF Kept
<1>2. ASSUME NEW k \in DOMAIN next, WriteOf(next[k])
      PROVE  from[k] \in DOMAIN cs \ gone /\ next[k] = cs[from[k]]
    BY <1>1, <1>2 DEF Placed
<1>3. \A k, l \in DOMAIN next : from[k] = from[l] => k = l
    BY <1>1 DEF Placed
<1> QED
    BY <1>2, <1>3 DEF NoWrites, OneWrite

LEMMA WriteAdded ==
    ASSUME NEW cs, NEW gone, NEW t, NEW next, Kept(cs, gone, t, next), NoWrites(cs, gone), DOMAIN t = {1}
    PROVE  OneWrite(next)
<1>1. PICK from : Placed(cs, gone, t, next, from)
    BY DEF Kept
<1>2. ASSUME NEW k \in DOMAIN next, WriteOf(next[k])
      PROVE  from[k] = -1
  <2>1. from[k] \in Int /\ -from[k] = 1
    BY <1>1, <1>2 DEF Placed, NoWrites
  <2> QED
    BY <2>1
<1>3. \A k, l \in DOMAIN next : from[k] = from[l] => k = l
    BY <1>1 DEF Placed
<1> QED
    BY <1>2, <1>3 DEF OneWrite

LEMMA Counted ==
    ASSUME NEW cs \in Seq(CommandType), NEW kind
    PROVE  LET T == {j \in DOMAIN cs : cs[j].kind = kind} IN IsFiniteSet(T) /\ Cardinality(T) \in Nat
<1> DEFINE T == {j \in DOMAIN cs : cs[j].kind = kind}
<1>1. DOMAIN cs = 1 .. Len(cs) /\ Len(cs) \in Int
    OBVIOUS
<1>2. IsFiniteSet(1 .. Len(cs))
    BY <1>1, FS_Interval
<1>3. T \subseteq 1 .. Len(cs)
    BY <1>1
<1> HIDE DEF T
<1>4. IsFiniteSet(T)
    BY <1>2, <1>3, FS_Subset
<1>5. Cardinality(T) \in Nat
    BY <1>4, FS_CardinalityType
<1> QED
    BY <1>4, <1>5 DEF T

\* Of a kind that does not start, each command was in flight before.
LEMMA NoneBegun ==
    ASSUME cmds \in Seq(CommandType), cmds' \in Seq(CommandType), NEW gone, NEW t, Kept(cmds, gone, t, cmds'),
           NEW kind, \A j \in DOMAIN t : t[j].kind # kind
    PROVE  ~WriteBegun(kind)
<1> DEFINE S == {k \in DOMAIN cmds' : cmds'[k].kind = kind}
           T == {j \in DOMAIN cmds : cmds[j].kind = kind}
<1>1. PICK from : Placed(cmds, gone, t, cmds', from)
    BY DEF Kept
<1> DEFINE f == [k \in S |-> from[k]]
<1>2. \A k \in S : from[k] \in T
    BY <1>1 DEF Placed
<1>3. \A k, l \in S : from[k] = from[l] => k = l
    BY <1>1 DEF Placed
<1>4. IsFiniteSet(T) /\ Cardinality(T) \in Nat /\ Cardinality(S) \in Nat
    BY Counted
<1>5. WriteBegun(kind) <=> Cardinality(S) > Cardinality(T)
    BY DEF WriteBegun
<1> HIDE DEF S, T
<1>6. f \in [S -> T] /\ DOMAIN f = S /\ \A k \in S : f[k] = from[k]
    BY <1>2
<1> HIDE DEF f
<1>7. f \in Injection(S, T)
    BY <1>3, <1>6 DEF Injection, IsInjective
<1>8. Cardinality(S) <= Cardinality(T)
    BY <1>4, <1>7, FS_Injection
<1> QED
    BY <1>4, <1>5, <1>8

\* A command that runs is of the same kind, of the same device.
LEMMA RanAs ==
    ASSUME NEW i \in DOMAIN cmds, Ran(i)
    PROVE  /\ DOMAIN cmds' = DOMAIN cmds
           /\ \A k \in DOMAIN cmds : cmds'[k].kind = cmds[k].kind /\ cmds'[k].device = cmds[k].device
           /\ \A k \in DOMAIN cmds \ {i} : cmds'[k] = cmds[k]
BY DEF Ran, Becomes, SameSaid

(***************************************************************************)
(* What the user's handlers do to the lock, and what they start.           *)
(***************************************************************************)

\* What a handler starts, it has not begun to run.
LEMMA NavigatedPending ==
    ASSUME NEW m, NEW h, Navigated(m, h)
    PROVE  \A j \in DOMAIN h.issue : h.issue[j].out = "pending"
<1>1. CASE h.issue = <<>>
    BY <1>1
<1>2. CASE ToChecks(m, h) /\ h.issue # <<>>
    BY <1>2, One DEF ToChecks
<1>3. CASE h.issue = <<ReadOf(h.m.mapping)>>
    BY <1>3, One DEF ReadOf
<1> QED
    BY <1>1, <1>2, <1>3 DEF Navigated, Elsewhere, ToSettings, ToEditor

LEMMA UserPending ==
    ASSUME NEW m, NEW h, UserHandled(m, h)
    PROVE  \A j \in DOMAIN h.issue : h.issue[j].out = "pending"
<1>1. CASE AsksFirst(m, h) \/ Leaves(m, h) \/ Toggles(m, h) \/ TakesOver(m, h)
    BY <1>1 DEF AsksFirst, Leaves, Toggles, TakesOver
<1>2. CASE Writes(m, h)
    BY <1>2, One DEF Writes
<1>3. CASE Erases(m, h)
    BY <1>3, One DEF Erases
<1>4. CASE Begins(m, h)
    BY <1>4, One DEF Begins
<1>5. CASE Probes(m, h)
    BY <1>5, One DEF Probes
<1>6. CASE Rechecks(m, h)
    BY <1>6, One DEF Rechecks
<1>7. CASE Transfers(m, h)
    BY <1>7, One DEF Transfers
<1>8. CASE Lists(m, h)
    BY <1>8, One DEF Lists
<1>9. CASE PutsBack(m, h)
    BY <1>9, One DEF PutsBack
<1>10. CASE GivesUp(m, h) \/ Goes(m, h)
    BY <1>10, NavigatedPending DEF GivesUp, Goes
<1> QED
    BY <1>1, <1>2, <1>3, <1>4, <1>5, <1>6, <1>7, <1>8, <1>9, <1>10 DEF UserHandled

\* No key changes the lock; with writes locked none opens a dialog of a write;
\* and an editor without a device to write to asks nothing.
LEMMA UserDialogs ==
    ASSUME NEW m \in ModelType, WellFormed(m), NEW h, UserHandled(m, h)
    PROVE  /\ h.m.lock = m.lock
           /\ m.lock.on /\ h.m.modal.kind \in Dialogs => h.m.modal = m.modal
           /\ (m.modal.kind = "erase" => ~m.mapping.unavailable)
                => (h.m.modal.kind = "erase" => ~h.m.mapping.unavailable)
<1>1. CASE AsksFirst(m, h)
    BY <1>1 DEF AsksFirst, Editable, Dialogs, Alike, Fields
<1>2. CASE Leaves(m, h) \/ Toggles(m, h) \/ TakesOver(m, h) \/ Rechecks(m, h) \/ Transfers(m, h)
           \/ Lists(m, h) \/ PutsBack(m, h)
    BY <1>2 DEF Leaves, Toggles, TakesOver, Rechecks, Transfers, Lists, PutsBack, Alike, Fields
<1>3. CASE Writes(m, h)
    BY <1>3 DEF Writes, Alike, Fields
<1>4. CASE Erases(m, h)
    BY <1>4 DEF Erases, Dialogs, Alike, Fields
<1>5. CASE Begins(m, h) \/ Probes(m, h)
    BY <1>5 DEF Begins, Probes, Dialogs, Alike, Fields
<1>6. CASE GivesUp(m, h)
  <2>1. h.m.modal = NoModal /\ h.m.lock = m.lock
    BY <1>6, NavigatedKinds, GivenUpFacts DEF GivesUp, Alike, Fields
  <2> QED
    BY <2>1 DEF NoModal, Dialogs
<1>7. CASE Goes(m, h)
  <2>1. h.m.modal = m.modal /\ h.m.lock = m.lock /\ m.modal.kind = "none"
    BY <1>7, NavigatedKinds DEF Goes
  <2> QED
    BY <2>1 DEF Dialogs
<1> QED
    BY <1>1, <1>2, <1>3, <1>4, <1>5, <1>6, <1>7 DEF UserHandled

\* With writes locked only a dialog that was open before starts a write.
LEMMA UserStartsNoWrite ==
    ASSUME NEW m \in ModelType, WellFormed(m), NEW h, UserHandled(m, h),
           m.lock.on, m.modal.kind \notin Dialogs
    PROVE  Starts(h, CommandKinds \ WriteKinds)
<1> DEFINE K == CommandKinds \ WriteKinds
<1>1. {"fwDownload", "restore", "diag", "keyboardRead", "padRead"} \subseteq K
    BY DEF CommandKinds, WriteKinds, MappingKinds, FirmwareKinds
<1> HIDE DEF K
<1>2. CASE AsksFirst(m, h) \/ Leaves(m, h) \/ Toggles(m, h) \/ TakesOver(m, h)
    BY <1>2, NoKind DEF AsksFirst, Leaves, Toggles, TakesOver, K
<1>3. ~(Writes(m, h) \/ Erases(m, h) \/ Probes(m, h) \/ Rechecks(m, h) \/ Transfers(m, h) \/ Lists(m, h)
        \/ Goes(m, h))
    BY DEF Writes, Erases, Probes, Rechecks, Transfers, Lists, Goes, Dialogs
<1>4. CASE Begins(m, h)
    BY <1>1, <1>4, OneKind DEF Begins, K
<1>5. CASE PutsBack(m, h)
    BY <1>1, <1>5, OneKind DEF PutsBack, K
<1>6. CASE GivesUp(m, h)
    BY <1>1, <1>6, NavigatedKinds DEF GivesUp, Starts, Reads, K
<1> QED
    BY <1>2, <1>3, <1>4, <1>5, <1>6 DEF UserHandled, K

\* What the user starts that writes to a device from the editor.
LEMMA UserWrites ==
    ASSUME NEW m \in ModelType, WellFormed(m), NEW h, UserHandled(m, h)
    PROVE  \/ Writes(m, h) \/ Erases(m, h)
           \/ Starts(h, CommandKinds \ (Applies \union {"keyboardErase"}))
<1> DEFINE K == CommandKinds \ (Applies \union {"keyboardErase"})
<1>1. {"probe", "list", "rediag", "diag", "fwStart", "fwCancel", "fwDownload", "restore",
       "keyboardRead", "padRead"} \subseteq K
    BY DEF CommandKinds, WriteKinds, MappingKinds, FirmwareKinds, Applies
<1> HIDE DEF K
<1>2. CASE AsksFirst(m, h) \/ Leaves(m, h) \/ Toggles(m, h) \/ TakesOver(m, h)
    BY <1>2, NoKind DEF AsksFirst, Leaves, Toggles, TakesOver, K
<1>3. CASE Begins(m, h)
    BY <1>1, <1>3, OneKind DEF Begins, K
<1>4. CASE Probes(m, h)
    BY <1>1, <1>4, OneKind DEF Probes, K
<1>5. CASE Rechecks(m, h)
    BY <1>1, <1>5, OneKind DEF Rechecks, K
<1>6. CASE Transfers(m, h)
    BY <1>1, <1>6, OneKind DEF Transfers, K
<1>7. CASE Lists(m, h)
    BY <1>1, <1>7, OneKind DEF Lists, K
<1>8. CASE PutsBack(m, h)
    BY <1>1, <1>8, OneKind DEF PutsBack, K
<1>9. CASE GivesUp(m, h) \/ Goes(m, h)
    BY <1>1, <1>9, NavigatedKinds DEF GivesUp, Goes, Starts, Reads, K
<1> QED
    BY <1>2, <1>3, <1>4, <1>5, <1>6, <1>7, <1>8, <1>9 DEF UserHandled, K

(***************************************************************************)
(* What an answer does to the lock, and what it starts.                    *)
(***************************************************************************)

\* An answer locks writes, tells how a restore ended, or leaves the lock alone.
LockAnswered(a, c, n) ==
    \/ n.lock = a.lock /\ (c.out = "uncertain" => c.kind = "keyboardApply" /\ ~KeyboardShows(a))
    \/ /\ c.kind = "probe" /\ c.out = "uncertain" /\ n.lock.on /\ n.lock.restored = a.lock.restored
       /\ n.lock.hasBackup => n.lock = a.lock
    \/ /\ c.kind \in Applies /\ c.out = "uncertain" /\ n.lock.on /\ n.lock.hasBackup
       /\ n.lock.device = c.device /\ n.lock.saved = c.saved /\ n.lock.restored = a.lock.restored
    \/ /\ c.kind = "restore" /\ c.out # "uncertain"
       /\ n.lock.on = a.lock.on /\ n.lock.hasBackup = a.lock.hasBackup
       /\ n.lock.device = a.lock.device /\ n.lock.saved = a.lock.saved
       /\ n.lock.restored <=> c.out = "ok"

LEMMA AnswerLock ==
    ASSUME NEW a \in ModelType, WellFormed(a), NEW c \in CommandType, WellIssued(c), c.out # "pending",
           NEW h, Answers(a, c, h)
    PROVE  LockAnswered(a, c, h.m)
<1>1. c.out = "uncertain" => c.kind \in Applies \union {"probe"}
    BY DEF WellIssued, Outcomes, Checks
<1>2. CASE c.kind \in RoutedKinds /\ h = Just(a) /\ (c.kind = "keyboardApply" => ~KeyboardShows(a))
  <2>1. h.m = a
    BY <1>2, Returned
  <2>2. c.kind \notin {"padApply", "probe"}
    BY <1>2 DEF RoutedKinds, FirmwareKinds
  <2> QED
    BY <1>1, <1>2, <2>1, <2>2 DEF LockAnswered, Applies
<1>3. ASSUME h.m.lock = a.lock, c.kind \notin Applies \union {"probe"}
      PROVE  LockAnswered(a, c, h.m)
    BY <1>1, <1>3 DEF LockAnswered
<1>4. CASE c.kind = "list" /\ h = DevicesLoaded(a, c)
    BY <1>3, <1>4, DevicesLoadedFacts DEF WellFormed, Alike, Fields, Applies
<1>5. CASE c.kind = "hotplug" /\ h = Hotplugged(a, c)
    BY <1>3, <1>5, HotpluggedFacts DEF Alike, Fields, Applies
<1>6. CASE c.kind = "autodiag" /\ h = AutoDiagnosed(a, c)
    BY <1>3, <1>6, AutoDiagnosedFacts DEF Alike, Fields, Applies
<1>7. CASE c.kind = "probe" /\ h = Probed(a, c)
    BY <1>7, ProbedFacts DEF LockAnswered, Alike, Fields
<1>8. CASE c.kind = "restore" /\ h = Restored(a, c)
  <2>1. c.out # "uncertain"
    BY <1>1, <1>8 DEF Applies
  <2> QED
    BY <1>8, <2>1, RestoredFacts DEF LockAnswered
<1>9. CASE c.kind \in Reads /\ h = Loaded(a, c)
  <2>1. Alike(a, h.m, {"mapping"})
    BY <1>9, LoadedFacts
  <2>2. h.m.lock = a.lock
    BY <2>1 DEF Alike, Fields
  <2>3. c.kind \notin Applies \union {"probe"}
    BY <1>9 DEF Applies, Reads
  <2> QED
    BY <1>3, <2>2, <2>3
<1>10. CASE c.kind \in Applies /\ h = Applied(a, c)
  <2> DEFINE x == [a.lock EXCEPT !.on = TRUE, !.hasBackup = TRUE, !.device = c.device, !.saved = c.saved]
  <2>1. x.on /\ x.hasBackup /\ x.device = c.device /\ x.saved = c.saved /\ x.restored = a.lock.restored
    BY DEF ModelType
  <2>2. /\ c.out = "uncertain" => h.m.lock = x
        /\ c.out # "uncertain" => Alike(a, h.m, {"mapping"})
    BY <1>10, AppliedFacts
  <2> HIDE DEF x
  <2>3. CASE c.out = "uncertain"
    BY <1>10, <2>1, <2>2, <2>3 DEF LockAnswered
  <2>4. CASE c.out # "uncertain"
    BY <2>2, <2>4 DEF LockAnswered, Alike, Fields
  <2> QED
    BY <2>3, <2>4
<1>11. CASE c.kind = "keyboardErase" /\ h = Erased(a, c)
    BY <1>3, <1>11, ErasedFacts DEF Alike, Fields, Applies
<1>12. CASE c.kind \in {"diag", "rediag"} /\ h = Diagnosed(a, c)
    BY <1>3, <1>12, DiagnosedFacts DEF Alike, Fields, Applies
<1>13. CASE c.kind \in FirmwareKinds /\ h = FirmwareAnswered(a, c)
    BY <1>3, <1>13, FirmwareAnsweredFacts DEF Alike, Fields, Applies, FirmwareKinds
<1> QED
    BY <1>2, <1>4, <1>5, <1>6, <1>7, <1>8, <1>9, <1>10, <1>11, <1>12, <1>13 DEF Answers, Reads, Applies

\* An answer starts no write but the transfer that the firmware screen waits to confirm.
LEMMA AnswerStarts ==
    ASSUME NEW a \in ModelType, WellFormed(a), NEW c \in CommandType, WellIssued(c), c.out # "pending",
           NEW h, Answers(a, c, h)
    PROVE  \/ Starts(h, {"autodiag", "list", "keyboardRead"})
           \/ /\ c.kind \in FirmwareKinds /\ a.screen = "firmware"
              /\ Starts(h, {"fwPreflight", "fwConfirm", "fwListen"})
<1> DEFINE K == {"autodiag", "list", "keyboardRead"}
<1>1. CASE h = Just(a)
    BY <1>1, Returned, NoKind
<1>2. CASE h = DevicesLoaded(a, c)
    BY <1>2, DevicesLoadedFacts DEF WellFormed, Starts
<1>3. CASE h = Hotplugged(a, c)
    BY <1>3, HotpluggedFacts, OneKind
<1>4. CASE h = AutoDiagnosed(a, c)
    BY <1>4, AutoDiagnosedFacts, NoKind
<1>5. CASE h = Probed(a, c)
    BY <1>5, ProbedFacts, NoKind
<1>6. CASE h = Restored(a, c)
    BY <1>6, RestoredFacts, NoKind
<1>7. CASE h = Loaded(a, c)
  <2>1. h.issue = <<>>
    BY <1>7, LoadedFacts
  <2> QED
    BY <2>1, NoKind
<1>8. CASE h = Applied(a, c)
    BY <1>8, AppliedFacts, NoKind
<1>9. CASE h = Erased(a, c)
    BY <1>9, ErasedFacts, OneKind, NoKind
<1>10. CASE h = Diagnosed(a, c)
    BY <1>10, DiagnosedFacts, NoKind
<1>11. CASE c.kind \in FirmwareKinds /\ a.screen = "firmware" /\ h = FirmwareAnswered(a, c)
  <2>1. \/ h.issue = <<>>
        \/ h.issue = <<Command("fwPreflight", a.fw.device, Unread, c.image)>>
        \/ \E kind \in {"fwConfirm", "fwListen"} :
              h.issue = <<Command(kind, a.fw.plan[1], Unread, a.fw.plan[2])>>
    BY <1>11, FirmwareAnsweredFacts
  <2>2. Starts(h, {"fwPreflight", "fwConfirm", "fwListen"})
    BY <2>1, OneKind, NoKind
  <2> QED
    BY <1>11, <2>2
<1> QED
    BY <1>1, <1>2, <1>3, <1>4, <1>5, <1>6, <1>7, <1>8, <1>9, <1>10, <1>11 DEF Answers

\* An answer's step, as far as the lock and the writes in flight go.
LEMMA AnswerView ==
    ASSUME ShellTypeOK, FormInv, NEW i \in DOMAIN cmds, NEW a, NEW h, AnswerStep(i, a, h)
    PROVE  /\ model' = h.m /\ h.m.modal = model.modal /\ a.lock = model.lock /\ a.mapping = model.mapping
           /\ astray \subseteq astray' /\ UNCHANGED <<content, uncertain>>
           /\ LockAnswered(a, cmds[i], h.m)
           /\ Starts(h, CommandKinds \ (Applies \union {"keyboardErase", "restore"}))
           /\ model.lock.on => Starts(h, CommandKinds \ WriteKinds)
<1> DEFINE c == cmds[i]
           K == CommandKinds \ (Applies \union {"keyboardErase", "restore"})
           L == CommandKinds \ WriteKinds
<1>1. /\ c \in CommandType /\ WellIssued(c) /\ c.out # "pending" /\ a \in ModelType /\ WellFormed(a)
      /\ TakenOver(model, a) /\ Answers(a, c, h) /\ h.m.modal = a.modal /\ model' = h.m
      /\ c.kind \in RoutedKinds => a = Routed(model)
      /\ UNCHANGED <<content, uncertain>> /\ astray' = astray \union AnswerLapses(h, c)
    BY DEF AnswerStep, world
<1>2. a.modal = model.modal /\ a.lock = model.lock /\ a.mapping = model.mapping
    BY <1>1, TakenOverSame DEF Alike, Fields
<1>3. {"autodiag", "list", "keyboardRead"} \subseteq K \intersect L
    BY DEF CommandKinds, WriteKinds, MappingKinds, FirmwareKinds, Applies
<1>4. {"fwPreflight", "fwConfirm", "fwListen"} \subseteq K
    BY DEF CommandKinds, WriteKinds, FirmwareKinds, Applies
<1>5. model.lock.on /\ c.kind \in FirmwareKinds => a.screen # "firmware"
  <2>1. model.lock.on => Routed(model).screen = "recovery"
    BY RoutedFacts DEF ShellTypeOK
  <2> QED
    BY <1>1, <2>1 DEF RoutedKinds
<1> HIDE DEF c, K, L
<1>6. Starts(h, K) /\ (model.lock.on => Starts(h, L))
    BY <1>1, <1>3, <1>4, <1>5, AnswerStarts DEF Starts
<1>7. LockAnswered(a, c, h.m) /\ astray \subseteq astray'
    BY <1>1, AnswerLock
<1> QED
    BY <1>1, <1>2, <1>6, <1>7 DEF c, K, L

LEMMA DialogStep ==
    ASSUME ShellTypeOK, FormInv, DialogsInv, EraseInv, BackupInv, [ShellNext]_shellVars
    PROVE  DialogsInv' /\ EraseInv' /\ BackupInv'
<1>1. ASSUME NEW value, EditDone(value)
      PROVE  DialogsInv' /\ EraseInv' /\ BackupInv'
  <2>1. /\ model'.lock = model.lock /\ model'.modal = model.modal /\ astray \subseteq astray'
        /\ model'.mapping.unavailable = model.mapping.unavailable
    BY <1>1 DEF EditDone, Alike, Fields, SameBut
  <2> QED
    BY <2>1 DEF DialogsInv, EraseInv, BackupInv
<1>2. ASSUME NEW h, UserStep(h)
      PROVE  DialogsInv' /\ EraseInv' /\ BackupInv'
  <2>1. /\ model \in ModelType /\ WellFormed(model) /\ UserHandled(model, h) /\ model' = h.m
        /\ astray \subseteq astray'
    BY <1>2, OpeningFacts DEF ShellTypeOK, FormInv, UserStep
  <2>2. /\ h.m.lock = model.lock
        /\ model.lock.on /\ h.m.modal.kind \in Dialogs => h.m.modal = model.modal
        /\ EraseInv => (h.m.modal.kind = "erase" => ~h.m.mapping.unavailable)
    BY <2>1, UserDialogs DEF EraseInv
  <2> QED
    BY <2>1, <2>2 DEF DialogsInv, EraseInv, BackupInv
<1>3. ASSUME UNCHANGED model, astray \subseteq astray'
      PROVE  DialogsInv' /\ EraseInv' /\ BackupInv'
    BY <1>3 DEF DialogsInv, EraseInv, BackupInv
<1>4. ASSUME NEW i \in DOMAIN cmds, NEW a, NEW h, AnswerStep(i, a, h)
      PROVE  DialogsInv' /\ EraseInv' /\ BackupInv'
  <2> DEFINE c == cmds[i]
  <2>1. /\ model' = h.m /\ h.m.modal = model.modal /\ a.lock = model.lock /\ a.mapping = model.mapping
        /\ astray \subseteq astray' /\ LockAnswered(a, c, h.m)
    BY <1>4, AnswerView
  <2>2. /\ c \in CommandType /\ WellIssued(c) /\ c.out # "pending" /\ a \in ModelType /\ WellFormed(a)
        /\ Answers(a, c, h) /\ astray' = astray \union AnswerLapses(h, c)
    BY <1>4 DEF AnswerStep
  <2>3. DialogsInv'
    BY <2>1, <2>2, AnswerLapseFacts DEF DialogsInv, Dialogs
  <2>4. EraseInv'
    <3>1. h.m.mapping.unavailable = a.mapping.unavailable \/ h.m.mapping = NewMapping
      <4> HIDE DEF c
      <4>1. CASE h = Loaded(a, c)
        <5>1. SameBut(a.mapping, h.m.mapping, {"loading", "failed", "kb", "pad"})
          BY <2>2, <4>1, LoadedFacts
        <5> QED
          BY <5>1 DEF SameBut
      <4>2. CASE h = Applied(a, c)
        <5>1. SameBut(a.mapping, h.m.mapping, {"applying", "kb", "pad"})
          BY <2>2, <4>2, AppliedFacts
        <5> QED
          BY <5>1 DEF SameBut
      <4>3. CASE h = Erased(a, c)
        BY <2>2, <4>3, ErasedFacts DEF SameBut
      <4>4. CASE h.m.mapping = NewMapping \/ h.m.mapping = a.mapping
        BY <4>4
      <4> QED
        BY <2>2, <4>1, <4>2, <4>3, <4>4, OtherAnswers
    <3> QED
      BY <2>1, <3>1 DEF EraseInv, NewMapping
  <2>5. BackupInv'
    BY <2>1 DEF BackupInv, LockAnswered
  <2> QED
    BY <2>3, <2>4, <2>5
<1>5. ASSUME NEW c, ReplugDone(c)
      PROVE  UNCHANGED model /\ astray \subseteq astray'
    BY <1>5 DEF ReplugDone
<1>6. ASSUME NEW i \in DOMAIN cmds, RunDone(i)
      PROVE  UNCHANGED model /\ astray \subseteq astray'
    BY <1>6 DEF RunDone, Ran
<1>7. CASE UNCHANGED shellVars
    BY <1>3, <1>7 DEF shellVars
<1> QED
    BY <1>1, <1>2, <1>3, <1>4, <1>5, <1>6, <1>7, Steps

LEMMA NamedStep ==
    ASSUME ShellTypeOK, FormInv, NamedWrites(cmds), [ShellNext]_shellVars
    PROVE  NamedWrites(cmds')
<1>1. ASSUME NEW gone, NEW t, Follows(cmds, gone, t, cmds'),
             \A j \in DOMAIN t : t[j].out = "pending" \/ t[j].kind \notin Applies
      PROVE  NamedWrites(cmds')
    BY <1>1 DEF NamedWrites, Follows
<1>2. ASSUME UNCHANGED cmds
      PROVE  NamedWrites(cmds')
    BY <1>2
<1>3. ASSUME NEW h, UserStep(h)
      PROVE  NamedWrites(cmds')
    BY <1>1, <1>3, UserPending DEF UserStep
<1>4. ASSUME NEW c, ReplugDone(c)
      PROVE  NamedWrites(cmds')
  <2>1. \A j \in DOMAIN <<c>> : <<c>>[j].kind \notin Applies
    BY <1>4 DEF ReplugDone, Applies
  <2> QED
    BY <1>1, <1>4, <2>1 DEF ReplugDone
<1>5. ASSUME NEW i \in DOMAIN cmds, RunDone(i)
      PROVE  NamedWrites(cmds')
  <2>1. /\ DOMAIN cmds' = DOMAIN cmds
        /\ cmds'[i].kind = cmds[i].kind /\ cmds'[i].device = cmds[i].device
        /\ \A k \in DOMAIN cmds \ {i} : cmds'[k] = cmds[k]
    BY <1>5, RanAs DEF RunDone
  <2>2. ApplyEnds(i) \/ cmds[i].kind \notin Applies
    BY <1>5 DEF RunDone, EraseEnds, ProbeEnds, RestoreEnds, FirmwareEnds, Applies, Reads, MappingKinds, FirmwareKinds
  <2>3. cmds[i].kind \in Applies /\ cmds'[i].out = "uncertain" => cmds[i].device \in Devices
    BY <2>2 DEF ApplyEnds
  <2> QED
    BY <2>1, <2>3 DEF NamedWrites
<1>6. ASSUME NEW i \in DOMAIN cmds, NEW a, NEW h, AnswerStep(i, a, h)
      PROVE  NamedWrites(cmds')
  <2>1. Follows(cmds, {i}, h.issue, cmds')
    BY <1>6 DEF AnswerStep
  <2>2. Starts(h, CommandKinds \ (Applies \union {"keyboardErase", "restore"}))
    BY <1>6, AnswerView
  <2> QED
    BY <1>1, <2>1, <2>2 DEF Starts
<1> QED
    BY <1>2, <1>3, <1>4, <1>5, <1>6, Steps DEF EditDone, shellVars

\* An answer that left a device in no known state locks the writes, or is the
\* one that was dropped.
LEMMA UncertainStep ==
    ASSUME ShellTypeOK, FormInv, UncertainIsLocked, [ShellNext]_shellVars
    PROVE  UncertainIsLocked'
<1>1. ASSUME UNCHANGED uncertain, astray \subseteq astray', model'.lock = model.lock,
             \A j \in DOMAIN cmds : \E k \in DOMAIN cmds' : cmds'[k] = cmds[j]
      PROVE  UncertainIsLocked'
    BY <1>1 DEF UncertainIsLocked, Unless
<1>2. ASSUME NEW value, EditDone(value)
      PROVE  UncertainIsLocked'
    BY <1>1, <1>2 DEF EditDone, world, Alike, Fields
<1>3. ASSUME NEW h, UserStep(h)
      PROVE  UncertainIsLocked'
  <2>1. /\ model \in ModelType /\ WellFormed(model) /\ UserHandled(model, h) /\ model' = h.m
        /\ Kept(cmds, {}, h.issue, cmds') /\ UNCHANGED uncertain /\ astray \subseteq astray'
    BY <1>3, OpeningFacts DEF ShellTypeOK, FormInv, UserStep, world
  <2>2. h.m.lock = model.lock
    BY <2>1, UserDialogs
  <2> QED
    BY <1>1, <2>1, <2>2 DEF Kept, Placed
<1>4. ASSUME NEW c, ReplugDone(c)
      PROVE  UncertainIsLocked'
    BY <1>1, <1>4 DEF ReplugDone, Kept, Placed
<1>5. ASSUME NEW i \in DOMAIN cmds, RunDone(i)
      PROVE  UncertainIsLocked'
  <2> DEFINE c == cmds[i]
             d == cmds'[i]
  <2>1. /\ DOMAIN cmds' = DOMAIN cmds /\ d.device = c.device
        /\ \A k \in DOMAIN cmds \ {i} : cmds'[k] = cmds[k]
        /\ UNCHANGED model /\ c.out = "pending" /\ astray \subseteq astray'
    BY <1>5, RanAs DEF RunDone, Ran
  <2>2. \/ uncertain' \subseteq uncertain
        \/ d.out = "uncertain" /\ uncertain' = uncertain \union {c.device}
    BY <1>5 DEF RunDone, ApplyEnds, EraseEnds, ProbeEnds, RestoreEnds, FirmwareEnds
  <2>3. ASSUME NEW x \in uncertain'
        PROVE  \/ model'.lock.on
               \/ \E k \in DOMAIN cmds' : cmds'[k].device = x /\ cmds'[k].out = "uncertain"
               \/ "resultDropped" \in astray'
    <3>1. CASE x \in uncertain
      <4>1. ASSUME NEW k \in DOMAIN cmds, cmds[k].out = "uncertain"
            PROVE  k \in DOMAIN cmds' /\ cmds'[k] = cmds[k]
        BY <2>1, <4>1
      <4> QED
        BY <2>1, <3>1, <4>1 DEF UncertainIsLocked, Unless
    <3>2. CASE d.out = "uncertain" /\ x = c.device
      BY <2>1, <3>2
    <3> QED
      BY <2>2, <2>3, <3>1, <3>2
  <2> QED
    BY <2>3 DEF UncertainIsLocked, Unless
<1>6. ASSUME NEW i \in DOMAIN cmds, NEW a, NEW h, AnswerStep(i, a, h)
      PROVE  UncertainIsLocked'
  <2> DEFINE c == cmds[i]
  <2>1. /\ model' = h.m /\ a.lock = model.lock /\ astray \subseteq astray' /\ UNCHANGED uncertain
        /\ LockAnswered(a, c, h.m)
    BY <1>6, AnswerView
  <2>2. /\ Kept(cmds, {i}, h.issue, cmds') /\ astray' = astray \union AnswerLapses(h, c)
        /\ c.kind = "keyboardApply" => a = Routed(model)
    BY <1>6 DEF AnswerStep, RoutedKinds
  <2>3. model.lock.on => h.m.lock.on
    BY <2>1 DEF LockAnswered
  <2>4. c.out = "uncertain" => h.m.lock.on \/ "resultDropped" \in astray'
    BY <2>1, <2>2, AnswerLapseFacts DEF LockAnswered
  <2>5. \A j \in DOMAIN cmds \ {i} : \E k \in DOMAIN cmds' : cmds'[k] = cmds[j]
    BY <2>2 DEF Kept, Placed
  <2> QED
    BY <2>1, <2>3, <2>4, <2>5 DEF UncertainIsLocked, Unless
<1>7. CASE UNCHANGED shellVars
    BY <1>1, <1>7 DEF shellVars
<1> QED
    BY <1>2, <1>3, <1>4, <1>5, <1>6, <1>7, Steps

\* The editor asks for one thing at a time.
LEMMA AloneFrame ==
    ASSUME NEW m, NEW n, NEW cs, NEW gone, NEW t, NEW next, EditorAlone(m, cs),
           Follows(cs, gone, t, next), None(t, {}), n.mapping = m.mapping,
           n.modal.kind = "erase" => m.modal.kind = "erase" \/ (~m.mapping.loading /\ ~m.mapping.applying)
    PROVE  EditorAlone(n, next)
<1> SUFFICES ASSUME m.mapping.device # NoDevice, ~m.mapping.unavailable
             PROVE  EditorAlone(n, next)
    BY DEF EditorAlone
<1>1. Lone(cs, {}) /\ (None(cs, {}) \/ m.mapping.loading \/ m.mapping.applying)
    BY DEF EditorAlone
<1>2. Lone(cs, gone) /\ (None(cs, {}) => None(cs, gone))
    BY <1>1 DEF Lone, None
<1>3. Lone(next, {})
    BY <1>2 DEF Follows
<1>4. None(cs, {}) => None(next, {})
    BY <1>2 DEF None, Follows
<1> QED
    BY <1>1, <1>3, <1>4 DEF EditorAlone

LEMMA AloneStarts ==
    ASSUME NEW n, NEW cs, NEW gone, NEW t, NEW next, None(cs, gone), Follows(cs, gone, t, next), Len(t) = 1,
           n.mapping.loading \/ n.mapping.applying, n.modal.kind # "erase"
    PROVE  EditorAlone(n, next)
BY DEF EditorAlone, Follows

LEMMA AloneEnds ==
    ASSUME NEW n, NEW cs, NEW gone, NEW next, None(cs, gone), Follows(cs, gone, <<>>, next),
           n.modal.kind # "erase"
    PROVE  EditorAlone(n, next)
<1>1. \A k \in DOMAIN next : next[k].kind \notin MappingKinds
    BY DEF Follows, None
<1> QED
    BY <1>1 DEF EditorAlone, Lone, None

\* An editor that waits for nothing has nothing in flight, so no write either.
LEMMA AloneAtRest ==
    ASSUME NEW m, NEW cs, EditorAlone(m, cs), m.mapping.device # NoDevice, ~m.mapping.unavailable,
           ~m.mapping.loading, ~m.mapping.applying
    PROVE  None(cs, {}) /\ NoWrites(cs, {})
<1>1. None(cs, {})
    BY DEF EditorAlone
<1>2. Applies \union {"keyboardErase"} \subseteq MappingKinds
    BY DEF Applies, MappingKinds
<1> QED
    BY <1>1, <1>2 DEF None, NoWrites, WriteOf

LEMMA UserInTurn ==
    ASSUME ShellTypeOK, FormInv, EraseInv, NEW h, UserStep(h), EditorAlone(model, cmds), OneWrite(cmds),
           "openedInFlight" \notin astray'
    PROVE  EditorAlone(h.m, cmds') /\ OneWrite(cmds')
<1> DEFINE p == model.mapping
           q == h.m.mapping
           K == CommandKinds \ (Applies \union {"keyboardErase"})
<1>1. /\ model \in ModelType /\ WellFormed(model) /\ UserHandled(model, h)
      /\ Follows(cmds, {}, h.issue, cmds') /\ Kept(cmds, {}, h.issue, cmds')
    BY DEF ShellTypeOK, FormInv, UserStep
<1>2. ASSUME NEW kind, NEW value, h.issue = <<Command(kind, p.device, value, NoDevice)>>,
             q.device = p.device, q.unavailable = p.unavailable, ~p.unavailable, q.applying,
             h.m.modal.kind # "erase", p.device # NoDevice => ~p.loading /\ ~p.applying
      PROVE  EditorAlone(h.m, cmds') /\ OneWrite(cmds')
  <2>1. DOMAIN h.issue = {1} /\ Len(h.issue) = 1 /\ h.issue[1].device = p.device
    BY <1>2, One
  <2>2. CASE p.device = NoDevice
    <3>1. \A j \in DOMAIN h.issue : ~WriteOf(h.issue[j])
      BY <2>1, <2>2 DEF WriteOf
    <3>2. OneWrite(cmds')
      BY <1>1, <3>1, WritesKept
    <3> QED
      BY <1>2, <2>2, <3>2 DEF EditorAlone
  <2>3. CASE p.device # NoDevice
    <3>1. None(cmds, {}) /\ NoWrites(cmds, {})
      BY <1>2, <2>3, AloneAtRest
    <3> HIDE DEF q
    <3>2. EditorAlone(h.m, cmds')
      BY <1>1, <1>2, <2>1, <3>1, AloneStarts DEF q
    <3>3. OneWrite(cmds')
      BY <1>1, <2>1, <3>1, WriteAdded
    <3> QED
      BY <3>2, <3>3
  <2> QED
    BY <2>2, <2>3
<1>3. CASE Writes(model, h)
  <2>1. /\ ~p.unavailable /\ ~p.loading /\ ~p.applying /\ model.modal.kind = "none"
        /\ Alike(model, h.m, {"mapping"}) /\ SameBut(p, q, {"applying"}) /\ q.applying
    BY <1>3 DEF Writes, Editable
  <2>2. h.m.modal = model.modal /\ q.device = p.device /\ q.unavailable = p.unavailable
    BY <2>1 DEF Alike, Fields, SameBut
  <2>3. \E kind, value : h.issue = <<Command(kind, p.device, value, NoDevice)>>
    BY <1>3 DEF Writes
  <2> HIDE DEF p, q
  <2> QED
    BY <1>2, <2>1, <2>2, <2>3
<1>4. CASE Erases(model, h)
  <2>1. /\ model.modal.kind = "erase" /\ h.m.modal.kind = "none"
        /\ SameBut(p, q, {"applying"}) /\ q.applying
    BY <1>4 DEF Erases
  <2>2. q.device = p.device /\ q.unavailable = p.unavailable /\ ~p.unavailable
    BY <2>1 DEF SameBut, EraseInv
  <2>3. \E kind, value : h.issue = <<Command(kind, p.device, value, NoDevice)>>
    BY <1>4 DEF Erases
  <2>4. p.device # NoDevice => ~p.loading /\ ~p.applying
    BY <2>1, <2>2 DEF EditorAlone
  <2> HIDE DEF p, q
  <2> QED
    BY <1>2, <2>1, <2>2, <2>3, <2>4
<1>5. CASE Starts(h, K)
  <2>1. \A j \in DOMAIN h.issue : ~WriteOf(h.issue[j])
    BY <1>5 DEF Starts, WriteOf
  <2>2. OneWrite(cmds')
    BY <1>1, <2>1, WritesKept
  <2>3. CASE q.device = NoDevice
    BY <2>2, <2>3 DEF EditorAlone
  <2>4. CASE EditorOpens(h)
    <3>1. CASE q.unavailable
      BY <2>2, <3>1 DEF EditorAlone
    <3>2. CASE ~q.unavailable
      <4>1. q.loading /\ h.m.modal.kind # "erase" /\ h.issue = <<ReadOf(q)>>
        BY <2>4, <3>2 DEF EditorOpens, EditorOpened
      <4>2. Len(h.issue) = 1 /\ h.issue # <<>> /\ h.issue[1].kind \in {"keyboardRead", "padRead"}
        BY <4>1, One DEF ReadOf
      <4>3. ~(h.issue # <<>> /\ h.issue[1].kind \in {"keyboardRead", "padRead"} /\ InFlight(MappingKinds))
        BY OpeningFacts DEF UserStep
      <4>4. None(cmds, {})
        BY <4>2, <4>3 DEF InFlight, None
      <4> QED
        BY <1>1, <2>2, <4>1, <4>2, <4>4, AloneStarts
    <3> QED
      BY <3>1, <3>2
  <2>5. CASE EditorStays(model, h)
    <3>1. /\ q = p /\ None(h.issue, {})
          /\ h.m.modal.kind = "erase" => model.modal.kind = "erase" \/ (~p.loading /\ ~p.applying)
      BY <2>5 DEF EditorStays, AtRest
    <3> QED
      BY <1>1, <2>2, <3>1, AloneFrame
  <2>6. CASE Writes(model, h) \/ Erases(model, h)
    BY <1>3, <1>4, <2>6
  <2> QED
    BY <1>1, <2>3, <2>4, <2>5, <2>6, UserEditor
<1> QED
    BY <1>1, <1>3, <1>4, <1>5, UserWrites

LEMMA AnswerInTurn ==
    ASSUME ShellTypeOK, FormInv, NEW i \in DOMAIN cmds, NEW a, NEW h, AnswerStep(i, a, h),
           EditorAlone(model, cmds), OneWrite(cmds)
    PROVE  EditorAlone(h.m, cmds') /\ OneWrite(cmds')
<1> DEFINE c == cmds[i]
           p == model.mapping
           q == h.m.mapping
<1>1. /\ c \in CommandType /\ WellIssued(c) /\ c.out # "pending" /\ a \in ModelType /\ WellFormed(a)
      /\ Answers(a, c, h) /\ Follows(cmds, {i}, h.issue, cmds') /\ Kept(cmds, {i}, h.issue, cmds')
    BY DEF AnswerStep
<1>2. /\ h.m.modal = model.modal /\ a.mapping = p
      /\ Starts(h, CommandKinds \ (Applies \union {"keyboardErase", "restore"}))
    BY AnswerView
<1>3. OneWrite(cmds')
  <2>1. \A j \in DOMAIN h.issue : ~WriteOf(h.issue[j])
    BY <1>2 DEF Starts, WriteOf
  <2> QED
    BY <1>1, <2>1, WritesKept
<1>4. ASSUME c.kind \in MappingKinds, p.device # NoDevice, ~p.unavailable
      PROVE  None(cmds, {i}) /\ model.modal.kind # "erase"
    BY <1>4 DEF EditorAlone, None, Lone
<1>5. ASSUME c.kind \in MappingKinds, q.device = p.device, q.unavailable = p.unavailable,
             h.issue = <<>> \/ (Len(h.issue) = 1 /\ q.loading)
      PROVE  EditorAlone(h.m, cmds')
  <2>1. CASE p.device = NoDevice \/ p.unavailable
    BY <1>5, <2>1 DEF EditorAlone
  <2>2. CASE p.device # NoDevice /\ ~p.unavailable
    <3>1. None(cmds, {i}) /\ h.m.modal.kind # "erase"
      BY <1>2, <1>4, <1>5, <2>2
    <3>2. CASE h.issue = <<>>
      BY <1>1, <3>1, <3>2, AloneEnds
    <3>3. CASE Len(h.issue) = 1 /\ q.loading
      BY <1>1, <3>1, <3>3, AloneStarts
    <3> QED
      BY <1>5, <3>2, <3>3
  <2> QED
    BY <2>1, <2>2
<1>6. CASE c.kind \in Reads /\ h = Loaded(a, c)
  <2>1. h.issue = <<>> /\ SameBut(p, q, {"loading", "failed", "kb", "pad"})
    BY <1>1, <1>2, <1>6, LoadedFacts
  <2>2. h.issue = <<>> /\ q.device = p.device /\ q.unavailable = p.unavailable
    BY <2>1 DEF SameBut
  <2>3. c.kind \in MappingKinds
    BY <1>6 DEF Reads, MappingKinds
  <2> QED
    BY <1>3, <1>5, <2>2, <2>3
<1>7. CASE c.kind \in Applies /\ h = Applied(a, c)
  <2>1. h.issue = <<>> /\ SameBut(p, q, {"applying", "kb", "pad"})
    BY <1>1, <1>2, <1>7, AppliedFacts
  <2>2. h.issue = <<>> /\ q.device = p.device /\ q.unavailable = p.unavailable
    BY <2>1 DEF SameBut
  <2>3. c.kind \in MappingKinds
    BY <1>7 DEF Applies, MappingKinds
  <2> QED
    BY <1>3, <1>5, <2>2, <2>3
<1>8. CASE c.kind = "keyboardErase" /\ h = Erased(a, c)
  <2>1. /\ SameBut(p, q, {"applying", "loading"})
        /\ \/ h.issue = <<>>
           \/ h.issue = <<Command("keyboardRead", p.device, Unread, NoDevice)>> /\ q.loading
    BY <1>1, <1>2, <1>8, ErasedFacts
  <2>2. q.device = p.device /\ q.unavailable = p.unavailable
    BY <2>1 DEF SameBut
  <2>3. h.issue = <<>> \/ (Len(h.issue) = 1 /\ q.loading)
    BY <2>1, One
  <2>4. c.kind \in MappingKinds
    BY <1>8 DEF MappingKinds
  <2> QED
    BY <1>3, <1>5, <2>2, <2>3, <2>4
<1>9. CASE q = NewMapping
    BY <1>3, <1>9 DEF EditorAlone, NewMapping
<1>10. CASE q = p /\ None(h.issue, {})
  <2>1. EditorAlone(h.m, cmds')
    BY <1>1, <1>2, <1>10, AloneFrame
  <2> QED
    BY <1>3, <2>1
<1> QED
    BY <1>1, <1>2, <1>6, <1>7, <1>8, <1>9, <1>10, OtherAnswers

LEMMA InTurnStep ==
    ASSUME ShellTypeOK, FormInv, EraseInv, InTurnInv, [ShellNext]_shellVars
    PROVE  InTurnInv'
<1>1. SUFFICES ASSUME "openedInFlight" \notin astray'
               PROVE  EditorAlone(model', cmds') /\ OneWrite(cmds')
    BY DEF InTurnInv, EditorAlone, OneWrite, Lone, None, WriteOf
<1>2. ASSUME astray \subseteq astray'
      PROVE  EditorAlone(model, cmds) /\ OneWrite(cmds)
    BY <1>1, <1>2 DEF InTurnInv
<1>3. ASSUME NEW value, EditDone(value)
      PROVE  EditorAlone(model', cmds') /\ OneWrite(cmds')
  <2>1. /\ model'.modal = model.modal /\ astray \subseteq astray' /\ UNCHANGED cmds
        /\ SameBut(model.mapping, model'.mapping, {"kb", "pad"})
    BY <1>3 DEF EditDone, Alike, Fields
  <2>2. \A f \in {"device", "loading", "applying", "unavailable"} : model'.mapping[f] = model.mapping[f]
    BY <2>1 DEF SameBut
  <2> QED
    BY <1>2, <2>1, <2>2 DEF EditorAlone
<1>4. ASSUME NEW h, UserStep(h)
      PROVE  EditorAlone(model', cmds') /\ OneWrite(cmds')
  <2>1. model' = h.m /\ astray \subseteq astray'
    BY <1>4, OpeningFacts DEF UserStep
  <2> QED
    BY <1>1, <1>2, <1>4, <2>1, UserInTurn
<1>5. ASSUME NEW c, ReplugDone(c)
      PROVE  EditorAlone(model', cmds') /\ OneWrite(cmds')
  <2>1. /\ Follows(cmds, {}, <<c>>, cmds') /\ Kept(cmds, {}, <<c>>, cmds') /\ c.kind = "hotplug"
        /\ UNCHANGED <<model, astray>>
    BY <1>5 DEF ReplugDone
  <2>2. None(<<c>>, {}) /\ \A j \in DOMAIN <<c>> : ~WriteOf(<<c>>[j])
    BY <2>1 DEF None, MappingKinds, WriteOf, Applies
  <2>3. EditorAlone(model, cmds) /\ OneWrite(cmds)
    BY <1>2, <2>1
  <2>4. EditorAlone(model, cmds')
    BY <2>1, <2>2, <2>3, AloneFrame
  <2>5. OneWrite(cmds')
    BY <2>1, <2>2, <2>3, WritesKept
  <2> QED
    BY <2>1, <2>4, <2>5
<1>6. ASSUME NEW i \in DOMAIN cmds, RunDone(i)
      PROVE  EditorAlone(model', cmds') /\ OneWrite(cmds')
  <2>1. /\ DOMAIN cmds' = DOMAIN cmds /\ UNCHANGED model /\ astray \subseteq astray'
        /\ \A k \in DOMAIN cmds : cmds'[k].kind = cmds[k].kind /\ cmds'[k].device = cmds[k].device
    BY <1>6, RanAs DEF RunDone, Ran
  <2>2. EditorAlone(model, cmds) /\ OneWrite(cmds)
    BY <1>2, <2>1
  <2>3. Lone(cmds, {}) => Lone(cmds', {})
    BY <2>1 DEF Lone
  <2>4. None(cmds, {}) => None(cmds', {})
    BY <2>1 DEF None
  <2>5. OneWrite(cmds')
    BY <2>1, <2>2 DEF OneWrite, WriteOf
  <2> QED
    BY <2>1, <2>2, <2>3, <2>4, <2>5 DEF EditorAlone
<1>7. ASSUME NEW i \in DOMAIN cmds, NEW a, NEW h, AnswerStep(i, a, h)
      PROVE  EditorAlone(model', cmds') /\ OneWrite(cmds')
  <2>1. model' = h.m /\ astray \subseteq astray'
    BY <1>7, AnswerView
  <2> QED
    BY <1>2, <1>7, <2>1, AnswerInTurn
<1>8. CASE UNCHANGED shellVars
    BY <1>2, <1>8 DEF shellVars
<1> QED
    BY <1>3, <1>4, <1>5, <1>6, <1>7, <1>8, Steps

\* The backup stays the only thing that is written.
LEMMA BackedFrame ==
    ASSUME NEW m, NEW n, NEW cs, NEW gone, NEW t, NEW next, NEW held, BackedBy(m, cs, held), n.lock = m.lock,
           Follows(cs, gone, t, next), Kept(cs, gone, t, next),
           m.lock.hasBackup => \A j \in DOMAIN t : ~WriteOf(t[j]),
           \A j \in DOMAIN t : t[j].kind = "restore" =>
               /\ m.lock.hasBackup /\ t[j].device = m.lock.device /\ t[j].value = m.lock.saved
               /\ t[j].out = "pending"
    PROVE  BackedBy(n, next, held)
<1>1. m.lock.hasBackup => NoWrites(next, {})
  <2>1. NoWrites(cs, {}) => NoWrites(cs, gone)
    BY DEF NoWrites
  <2> QED
    BY <2>1, WritesKept DEF BackedBy
<1>2. ASSUME NEW k \in DOMAIN next, next[k].kind = "restore"
      PROVE  /\ m.lock.hasBackup /\ next[k].device = m.lock.device /\ next[k].value = m.lock.saved
             /\ next[k].out = "ok" => held[m.lock.device] = m.lock.saved
  <2>1. CASE \E j \in DOMAIN cs : next[k] = cs[j]
    BY <1>2, <2>1 DEF BackedBy
  <2>2. CASE \E j \in DOMAIN t : next[k] = t[j]
    BY <1>2, <2>2
  <2> QED
    BY <2>1, <2>2 DEF Follows
<1> QED
    BY <1>1, <1>2 DEF BackedBy

\* The lock trips: what it may keep as a backup, nothing in flight writes over.
LEMMA BackedAnew ==
    ASSUME NEW m, NEW n, NEW cs, NEW gone, NEW t, NEW next, NEW held, BackedBy(m, cs, held), ~m.lock.hasBackup,
           n.lock.restored = m.lock.restored, Follows(cs, gone, t, next), Kept(cs, gone, t, next),
           \A j \in DOMAIN t : ~WriteOf(t[j]) /\ t[j].kind # "restore",
           n.lock.hasBackup => NoWrites(cs, gone)
    PROVE  BackedBy(n, next, held)
<1>1. n.lock.hasBackup => NoWrites(next, {})
    BY WritesKept
<1>2. \A k \in DOMAIN next : next[k].kind # "restore"
    BY DEF BackedBy, Follows
<1>3. ~n.lock.restored
    BY DEF BackedBy
<1> QED
    BY <1>1, <1>2, <1>3 DEF BackedBy

LEMMA RunBacked ==
    ASSUME ShellTypeOK, FormInv, NEW i \in DOMAIN cmds, RunDone(i), BackedBy(model, cmds, content)
    PROVE  BackedBy(model, cmds', content')
<1> DEFINE c == cmds[i]
           d == cmds'[i]
           k == model.lock
<1>1. /\ DOMAIN cmds' = DOMAIN cmds /\ UNCHANGED model /\ content \in [Devices -> Contents]
      /\ \A j \in DOMAIN cmds : cmds'[j].kind = cmds[j].kind /\ cmds'[j].device = cmds[j].device
      /\ \A j \in DOMAIN cmds \ {i} : cmds'[j] = cmds[j]
    BY RanAs DEF RunDone, Ran, ShellTypeOK
<1>2. k.hasBackup => ~WriteOf(c)
    BY DEF BackedBy, NoWrites
<1>3. c.kind = "restore" => RestoreEnds(i)
    BY DEF RunDone, ApplyEnds, EraseEnds, ProbeEnds, FirmwareEnds, Applies, Reads, FirmwareKinds
<1>4. ASSUME RestoreEnds(i)
      PROVE  /\ k.hasBackup /\ d.value = k.saved
             /\ d.out = "ok" => content'[k.device] = k.saved
             /\ content'[k.device] = k.saved \/ UNCHANGED content
  <2>1. /\ k.hasBackup /\ c.device = k.device /\ c.value = k.saved
    BY <1>4 DEF RestoreEnds, BackedBy
  <2>2. d.value = c.value
    BY <1>4 DEF RestoreEnds
  <2>3. CASE /\ d.out = "ok" /\ c.device \in Devices
             /\ content' = [content EXCEPT ![c.device] = c.value]
    BY <1>1, <2>1, <2>2, <2>3
  <2>4. CASE d.out = "error" /\ UNCHANGED content
    BY <2>1, <2>2, <2>4
  <2> QED
    BY <1>4, <2>3, <2>4 DEF RestoreEnds
<1>5. k.hasBackup => content'[k.device] = k.saved \/ UNCHANGED content
  <2> SUFFICES ASSUME k.hasBackup
               PROVE  content'[k.device] = k.saved \/ UNCHANGED content
    OBVIOUS
  <2>1. ASSUME c.kind \in Applies \union {"keyboardErase"}
        PROVE  c.device = NoDevice /\ c.device \notin Devices
    BY <1>2, <2>1, ShellAssumption DEF WriteOf
  <2>2. CASE ApplyEnds(i)
    BY <2>1, <2>2 DEF ApplyEnds
  <2>3. CASE EraseEnds(i)
    BY <2>1, <2>3 DEF EraseEnds
  <2>4. CASE RestoreEnds(i)
    BY <1>4, <2>4
  <2> QED
    BY <2>2, <2>3, <2>4 DEF RunDone, ProbeEnds, FirmwareEnds
<1>6. NoWrites(cmds, {}) => NoWrites(cmds', {})
    BY <1>1 DEF NoWrites, WriteOf
<1>7. ASSUME NEW j \in DOMAIN cmds', cmds'[j].kind = "restore"
      PROVE  /\ k.hasBackup /\ cmds'[j].device = k.device /\ cmds'[j].value = k.saved
             /\ cmds'[j].out = "ok" => content'[k.device] = k.saved
  <2>1. j \in DOMAIN cmds /\ cmds[j].kind = "restore"
    BY <1>1, <1>7
  <2>2. /\ k.hasBackup /\ cmds[j].device = k.device /\ cmds[j].value = k.saved
        /\ cmds[j].out = "ok" => content[k.device] = k.saved
    BY <2>1 DEF BackedBy
  <2>3. CASE j = i
    BY <1>1, <1>3, <1>4, <2>1, <2>2, <2>3
  <2>4. CASE j # i
    BY <1>1, <1>5, <2>1, <2>2, <2>4
  <2> QED
    BY <2>3, <2>4
<1>8. k.restored => k.hasBackup /\ content'[k.device] = k.saved
    BY <1>5 DEF BackedBy
<1> HIDE DEF c, d
<1> QED
    BY <1>6, <1>7, <1>8 DEF BackedBy

LEMMA UserBacked ==
    ASSUME ShellTypeOK, FormInv, BackupInv, NEW h, UserStep(h), BackedBy(model, cmds, content),
           model.lock.on => model.modal.kind \notin Dialogs
    PROVE  BackedBy(h.m, cmds', content)
<1>1. /\ model \in ModelType /\ WellFormed(model) /\ UserHandled(model, h)
      /\ Follows(cmds, {}, h.issue, cmds') /\ Kept(cmds, {}, h.issue, cmds')
    BY DEF ShellTypeOK, FormInv, UserStep
<1>2. h.m.lock = model.lock
    BY <1>1, UserDialogs
<1>3. model.lock.hasBackup => \A j \in DOMAIN h.issue : ~WriteOf(h.issue[j])
    BY <1>1, UserStartsNoWrite DEF BackupInv, Starts, WriteOf, WriteKinds, Applies
<1>4. \A j \in DOMAIN h.issue : h.issue[j].kind = "restore" =>
        /\ model.lock.hasBackup /\ h.issue[j].device = model.lock.device
        /\ h.issue[j].value = model.lock.saved /\ h.issue[j].out = "pending"
  <2>1. CASE PutsBack(model, h)
    BY <2>1, One DEF PutsBack
  <2>2. CASE Starts(h, CommandKinds \ {"restore"})
    BY <2>2 DEF Starts
  <2> QED
    BY <1>1, <2>1, <2>2, UserRestores
<1> QED
    BY <1>1, <1>2, <1>3, <1>4, BackedFrame

LEMMA AnswerBacked ==
    ASSUME ShellTypeOK, FormInv, BackupInv, NamedWrites(cmds), OneWrite(cmds),
           NEW i \in DOMAIN cmds, NEW a, NEW h, AnswerStep(i, a, h), BackedBy(model, cmds, content),
           "lockedTwice" \notin astray'
    PROVE  BackedBy(h.m, cmds', content)
<1> DEFINE c == cmds[i]
<1>1. /\ a.lock = model.lock /\ LockAnswered(a, c, h.m)
      /\ Starts(h, CommandKinds \ (Applies \union {"keyboardErase", "restore"}))
    BY AnswerView
<1>2. /\ Follows(cmds, {i}, h.issue, cmds') /\ Kept(cmds, {i}, h.issue, cmds')
      /\ astray' = astray \union AnswerLapses(h, c)
    BY DEF AnswerStep
<1>3. \A j \in DOMAIN h.issue : ~WriteOf(h.issue[j]) /\ h.issue[j].kind # "restore"
    BY <1>1 DEF Starts, WriteOf
<1>4. c.out = "uncertain" => ~model.lock.on /\ ~model.lock.hasBackup
    BY <1>2, AnswerLapseFacts DEF BackupInv
<1>5. CASE h.m.lock = model.lock
    BY <1>2, <1>3, <1>5, BackedFrame
<1>6. CASE /\ c.out = "uncertain" /\ h.m.lock.restored = model.lock.restored
           /\ h.m.lock.hasBackup => h.m.lock = model.lock
    BY <1>2, <1>3, <1>4, <1>6, BackedAnew
<1>7. CASE c.kind \in Applies /\ c.out = "uncertain" /\ h.m.lock.restored = model.lock.restored
  <2>1. WriteOf(c)
    BY <1>7, ShellAssumption DEF NamedWrites, WriteOf
  <2>2. NoWrites(cmds, {i})
    BY <2>1 DEF OneWrite, NoWrites
  <2> QED
    BY <1>2, <1>3, <1>4, <1>7, <2>2, BackedAnew
<1>8. CASE /\ c.kind = "restore" /\ h.m.lock.hasBackup = model.lock.hasBackup
           /\ h.m.lock.device = model.lock.device /\ h.m.lock.saved = model.lock.saved
           /\ h.m.lock.restored <=> c.out = "ok"
  <2>1. BackedBy(model, cmds', content)
    BY <1>2, <1>3, BackedFrame
  <2>2. h.m.lock.restored => model.lock.hasBackup /\ content[model.lock.device] = model.lock.saved
    BY <1>8 DEF BackedBy
  <2> QED
    BY <1>8, <2>1, <2>2 DEF BackedBy
<1> QED
    BY <1>1, <1>5, <1>6, <1>7, <1>8 DEF LockAnswered

LEMMA BackedStep ==
    ASSUME ShellTypeOK, FormInv, DialogsInv, BackupInv, NamedWrites(cmds), InTurnInv, BackedInv,
           [ShellNext]_shellVars
    PROVE  BackedInv'
<1>1. SUFFICES ASSUME RestoreLapses \intersect astray' = {}
               PROVE  BackedBy(model', cmds', content')
    BY DEF BackedInv, BackedBy, NoWrites, WriteOf
<1>2. ASSUME astray \subseteq astray'
      PROVE  /\ BackedBy(model, cmds, content) /\ OneWrite(cmds)
             /\ model.lock.on => model.modal.kind \notin Dialogs
  <2>1. RestoreLapses \intersect astray = {} /\ "openedInFlight" \notin astray /\ "dialogBeforeLock" \notin astray
    BY <1>1, <1>2 DEF RestoreLapses
  <2> QED
    BY <2>1 DEF BackedInv, InTurnInv, DialogsInv
<1>3. ASSUME NEW value, EditDone(value)
      PROVE  BackedBy(model', cmds', content')
  <2>1. model'.lock = model.lock /\ astray \subseteq astray' /\ UNCHANGED <<cmds, content>>
    BY <1>3 DEF EditDone, world, Alike, Fields
  <2> QED
    BY <1>2, <2>1 DEF BackedBy
<1>4. ASSUME NEW h, UserStep(h)
      PROVE  BackedBy(model', cmds', content')
  <2>1. model' = h.m /\ astray \subseteq astray' /\ UNCHANGED content
    BY <1>4, OpeningFacts DEF UserStep, world
  <2>2. BackedBy(h.m, cmds', content)
    BY <1>2, <1>4, <2>1, UserBacked
  <2> QED
    BY <2>1, <2>2
<1>5. ASSUME NEW c, ReplugDone(c)
      PROVE  BackedBy(model', cmds', content')
  <2>1. /\ Follows(cmds, {}, <<c>>, cmds') /\ Kept(cmds, {}, <<c>>, cmds') /\ c.kind = "hotplug"
        /\ UNCHANGED <<model, content, astray>>
    BY <1>5 DEF ReplugDone
  <2>2. \A j \in DOMAIN <<c>> : ~WriteOf(<<c>>[j]) /\ <<c>>[j].kind # "restore"
    BY <2>1 DEF WriteOf, Applies
  <2>3. BackedBy(model, cmds, content)
    BY <1>2, <2>1
  <2>4. BackedBy(model, cmds', content)
    BY <2>1, <2>2, <2>3, BackedFrame
  <2> QED
    BY <2>1, <2>4
<1>6. ASSUME NEW i \in DOMAIN cmds, RunDone(i)
      PROVE  BackedBy(model', cmds', content')
  <2>1. UNCHANGED model /\ astray \subseteq astray'
    BY <1>6 DEF RunDone, Ran
  <2>2. BackedBy(model, cmds', content')
    BY <1>2, <1>6, <2>1, RunBacked
  <2> QED
    BY <2>1, <2>2
<1>7. ASSUME NEW i \in DOMAIN cmds, NEW a, NEW h, AnswerStep(i, a, h)
      PROVE  BackedBy(model', cmds', content')
  <2>1. model' = h.m /\ astray \subseteq astray' /\ UNCHANGED content
    BY <1>7, AnswerView
  <2>2. BackedBy(h.m, cmds', content)
    BY <1>1, <1>2, <1>7, <2>1, AnswerBacked DEF RestoreLapses
  <2> QED
    BY <2>1, <2>2
<1>8. CASE UNCHANGED shellVars
    BY <1>2, <1>8 DEF shellVars
<1> QED
    BY <1>3, <1>4, <1>5, <1>6, <1>7, <1>8, Steps

\* With writes locked, no step starts a write, but for a dialog that was open.
LEMMA LockedStep ==
    ASSUME ShellTypeOK, FormInv, ShellTypeOK', DialogsInv, [ShellNext]_shellVars,
           "dialogBeforeLock" \notin astray
    PROVE  NoWriteStarts
<1> SUFFICES ASSUME model.lock.on
             PROVE  \A kind \in WriteKinds : ~WriteBegun(kind)
    BY DEF NoWriteStarts
<1>1. cmds \in Seq(CommandType) /\ cmds' \in Seq(CommandType) /\ model \in ModelType /\ WellFormed(model)
    BY DEF ShellTypeOK, FormInv
<1>2. ASSUME NEW gone, NEW t, Kept(cmds, gone, t, cmds'), \A j \in DOMAIN t : t[j].kind \notin WriteKinds
      PROVE  \A kind \in WriteKinds : ~WriteBegun(kind)
    BY <1>1, <1>2, NoneBegun
<1>3. ASSUME DOMAIN cmds' = DOMAIN cmds, \A k \in DOMAIN cmds : cmds'[k].kind = cmds[k].kind
      PROVE  \A kind \in WriteKinds : ~WriteBegun(kind)
  <2> SUFFICES ASSUME NEW kind
               PROVE  ~WriteBegun(kind)
    OBVIOUS
  <2> DEFINE S == {k \in DOMAIN cmds' : cmds'[k].kind = kind}
             T == {j \in DOMAIN cmds : cmds[j].kind = kind}
  <2>1. S = T
    BY <1>3
  <2>2. Cardinality(T) \in Nat
    BY <1>1, Counted
  <2>3. WriteBegun(kind) <=> Cardinality(S) > Cardinality(T)
    BY DEF WriteBegun
  <2> HIDE DEF S, T
  <2> QED
    BY <2>1, <2>2, <2>3
<1>4. ASSUME NEW h, UserStep(h)
      PROVE  \A kind \in WriteKinds : ~WriteBegun(kind)
  <2>1. UserHandled(model, h) /\ Kept(cmds, {}, h.issue, cmds')
    BY <1>4 DEF UserStep
  <2>2. Starts(h, CommandKinds \ WriteKinds)
    BY <1>1, <2>1, UserStartsNoWrite DEF DialogsInv
  <2> QED
    BY <1>2, <2>1, <2>2 DEF Starts
<1>5. ASSUME NEW c, ReplugDone(c)
      PROVE  \A kind \in WriteKinds : ~WriteBegun(kind)
  <2>1. Kept(cmds, {}, <<c>>, cmds') /\ c.kind = "hotplug"
    BY <1>5 DEF ReplugDone
  <2>2. \A j \in DOMAIN <<c>> : <<c>>[j].kind \notin WriteKinds
    BY <2>1 DEF WriteKinds
  <2> QED
    BY <1>2, <2>1, <2>2
<1>6. ASSUME NEW i \in DOMAIN cmds, RunDone(i)
      PROVE  \A kind \in WriteKinds : ~WriteBegun(kind)
    BY <1>3, <1>6, RanAs DEF RunDone
<1>7. ASSUME NEW i \in DOMAIN cmds, NEW a, NEW h, AnswerStep(i, a, h)
      PROVE  \A kind \in WriteKinds : ~WriteBegun(kind)
  <2>1. Kept(cmds, {i}, h.issue, cmds')
    BY <1>7 DEF AnswerStep
  <2>2. Starts(h, CommandKinds \ WriteKinds)
    BY <1>7, AnswerView
  <2> QED
    BY <1>2, <2>1, <2>2 DEF Starts
<1>8. CASE UNCHANGED cmds
    BY <1>3, <1>8
<1> QED
    BY <1>4, <1>5, <1>6, <1>7, <1>8, Steps DEF EditDone, shellVars

LEMMA LockStarts ==
    ASSUME ShellInit
    PROVE  LockInv
<1>1. model.lock = NewLock /\ model.modal = NoModal /\ model.mapping = NewMapping /\ cmds = <<>> /\ uncertain = {}
    BY DEF ShellInit
<1>2. model.modal.kind = "none" /\ ~model.lock.hasBackup /\ ~model.lock.restored /\ DOMAIN cmds = {}
    BY <1>1 DEF NewLock, NoModal
<1>3. DialogsInv /\ EraseInv /\ BackupInv /\ NamedWrites(cmds)
    BY <1>2 DEF DialogsInv, EraseInv, BackupInv, NamedWrites, Dialogs
<1>4. InTurnInv
    BY <1>2 DEF InTurnInv, EditorAlone, OneWrite, Lone, None
<1>5. BackedInv
    BY <1>2 DEF BackedInv, BackedBy
<1>6. UncertainIsLocked
    BY <1>1 DEF UncertainIsLocked
<1> QED
    BY <1>3, <1>4, <1>5, <1>6 DEF LockInv

LEMMA LockKeeps ==
    ASSUME ShellInv, LockInv, [ShellNext]_shellVars
    PROVE  LockInv'
<1>1. ShellTypeOK /\ FormInv
    BY DEF ShellInv
<1>2. DialogsInv' /\ EraseInv' /\ BackupInv'
    BY <1>1, DialogStep DEF LockInv
<1>3. NamedWrites(cmds')
    BY <1>1, NamedStep DEF LockInv
<1>4. InTurnInv'
    BY <1>1, InTurnStep DEF LockInv
<1>5. BackedInv'
    BY <1>1, BackedStep DEF LockInv
<1>6. UncertainIsLocked'
    BY <1>1, UncertainStep DEF LockInv
<1>7. NamedWrites(cmds)'
    BY <1>3 DEF NamedWrites
<1> QED
    BY <1>2, <1>4, <1>5, <1>6, <1>7 DEF LockInv

LEMMA LockFollows ==
    ASSUME LockInv
    PROVE  UncertainIsLocked /\ RestoreIsTrue
BY DEF LockInv, RestoreIsTrue, BackedInv, BackedBy, RestoreLapses, Unless

\* A device that a failed rollback left in no known state locks every write once
\* its answer is taken; no step starts a write then, unless a dialog was open when
\* the lock tripped; and Recovery says that the backup was restored only when the
\* device holds it (app.go:150-341, screen_mapping.go:115-160, screen_recovery.go).
THEOREM LockKept == ShellSpec => LockHolds
<1>1. ShellInit => ShellInv /\ LockInv
    BY ShellStarts, LockStarts
<1>2. ShellInv /\ LockInv /\ [ShellNext]_shellVars => ShellInv' /\ LockInv'
    BY ShellKeeps, LockKeeps
<1>3. LockInv' => (UncertainIsLocked /\ RestoreIsTrue)'
    BY LockFollows, PTL
<1>4. ShellInv /\ LockInv /\ ShellInv' /\ [ShellNext]_shellVars => NoWriteStarts \/ Unless({"dialogBeforeLock"})
    BY LockedStep DEF ShellInv, LockInv, Unless
<1> QED
    BY <1>1, <1>2, <1>3, <1>4, PTL DEF ShellSpec, LockHolds
==============================================================================
