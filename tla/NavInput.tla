------------------------------ MODULE NavInput ------------------------------
(***************************************************************************)
(* Controllers as a way to drive the program: the streams of               *)
(* internal/input/navstream.go, the poller that notices a controller come  *)
(* and go, the bounded channel both send into, and what internal/tui makes *)
(* of the events: the notes of Settings and the list of devices.           *)
(*                                                                         *)
(* A pad is a physical controller.  The poller knows it only by its key,   *)
(* the product id and the serial number, and learns of a change only by    *)
(* comparing one enumeration with the one before.                          *)
(***************************************************************************)
EXTENDS Integers, Sequences, FiniteSets

CONSTANTS
    Pads,
    Machines,     \* the keys of the pads, and how the system opens a handle
    ChannelSize,  \* 64 in the code
    MaxHappenings \* bound: pads plugged in or pulled out, buttons pressed, pads an
                  \* enumeration overlooks that fail or that the user wants

ASSUME PadsAssumption == IsFiniteSet(Pads)
ASSUME MachineAssumption ==
    \A m \in Machines : m.byMatch \in BOOLEAN /\ DOMAIN m.label = Pads
ASSUME ChannelAssumption == ChannelSize \in Nat \ {0}
ASSUME BoundAssumption == MaxHappenings \in Nat

VARIABLES
    machine,   \* label: the key of each pad; byMatch: a handle is opened on whichever
               \* pad has the product id (macOS)
    running,   \* the context is not cancelled
    plugged,
    clock,     \* how much has happened
    known,     \* the keys of the poller's last enumeration
    tick,      \* its work in hand; fresh: the pads plugged in since it enumerated
    streams,   \* how many streams read each pad
    broken,    \* history: the pads that lost a stream since they were plugged in
    events,    \* the channel
    notes,     \* what Settings says of each product id
    asked,     \* reloads of the list not yet enumerated
    loads,     \* reloads enumerated whose result has not been handled
    list,      \* the devices on screen, and when they were enumerated
    lapses     \* history: what has happened that the program cannot notice

pads == <<machine, plugged>>
nav == <<running, known, tick, streams, broken, events>>
screen == <<notes, asked, loads, list>>
vars == <<pads, clock, nav, screen, lapses>>

Pid(p) == machine.label[p].pid
Pids == {Pid(p) : p \in Pads}
KeysOf(S) == {machine.label[p] : p \in S}

Idle == [on |-> FALSE, seen |-> {}, fresh |-> {}, added |-> {}, removed |-> {}]
Listing(at, devices) == [at |-> at, devices |-> devices]
Note(pid, status) == [pid |-> pid, status |-> status]
Hotplug(kind, key, status) == [kind |-> kind, pid |-> key.pid, status |-> status]
Press == [kind |-> "press"]
IsHotplug(e) == e.kind # "press"

-----------------------------------------------------------------------------
(* Streams.                                                                *)

\* The pads a handle on p's gamepad interface may read.  Where it is opened by its
\* /dev/hidraw path, a pad plugged in since may have taken the path of one that went.
Reached(p, fresh) ==
    IF machine.byMatch THEN {q \in plugged : Pid(q) = Pid(p)}
    ELSE IF p \in plugged \ fresh THEN {p}
    ELSE plugged \cap fresh

\* startDeviceStreams: every interface of one key is tried; each is opened, or
\* cannot be (no gamepad, no descriptor, no permission, or gone meanwhile).
\* Opened maps a pad whose interface was opened to the pad its handle reads.
Openings(infos, fresh) ==
    UNION {{f \in [tried -> plugged] : \A p \in tried : f[p] \in Reached(p, fresh)} :
              tried \in SUBSET infos}

Readers(f, p) == Cardinality({q \in DOMAIN f : f[q] = p})
Started(f) == [p \in Pads |-> streams[p] + Readers(f, p)]
Astray(f) == IF ~machine.byMatch /\ \E p \in DOMAIN f : f[p] # p THEN {"reused"} ELSE {}
Outcome(f) == IF DOMAIN f = {} THEN "unavailable" ELSE "active"

\* sendNavEvent: an event the channel has no room for is dropped.
HasRoomMutant == TRUE
HasRoom == Len(events) < ChannelSize

Send(e) == events' = IF HasRoom THEN Append(events, e) ELSE events
Dropped(e) == IF HasRoom \/ ~IsHotplug(e) THEN {} ELSE {"dropped"}

-----------------------------------------------------------------------------
(* Start enumerates and opens before the program's screen comes up, with   *)
(* the first reload of the list on its way.  Pads come and go meanwhile.   *)

\* seen is what it enumerated, f the handles that are still read, gone the pads
\* pulled out after theirs was opened.
Init ==
    /\ machine \in Machines
    /\ running = TRUE
    /\ plugged \in SUBSET Pads
    /\ tick = Idle
    /\ events = <<>>
    /\ \E seen \in SUBSET Pads :
        /\ clock = Cardinality(seen \ plugged) + Cardinality(plugged \ seen)
        /\ clock <= MaxHappenings
        /\ known = KeysOf(seen)
        /\ \E f \in Openings(seen, plugged \ seen) :
            \E gone \in SUBSET (seen \ plugged) :
                /\ streams = [p \in Pads |-> Readers(f, p)]
                /\ notes = {Note(key.pid, IF key \in KeysOf(DOMAIN f \cup gone) THEN "active" ELSE "unavailable") :
                                key \in known}
                /\ lapses = Astray(f)
    /\ broken = {}
    /\ asked = 1 /\ loads = {}
    /\ list = Listing(0, {})

-----------------------------------------------------------------------------
(* The user's hands.                                                       *)

Happens == clock < MaxHappenings /\ clock' = clock + 1

\* The keys the poller takes for plugged in until it enumerates again.
Believed == IF tick.on THEN KeysOf(tick.seen) ELSE known

\* A key that goes and returns between two enumerations is never seen to go, one
\* that comes and goes is never seen to come, nor a second pad with the same key.
PlugIn(p) ==
    /\ p \notin plugged
    /\ Happens
    /\ plugged' = plugged \cup {p}
    /\ lapses' = lapses \cup (IF machine.label[p] \in Believed THEN {"unnoticed"} ELSE {})
    /\ tick' = IF tick.on THEN [tick EXCEPT !.fresh = @ \cup {p}] ELSE tick
    /\ UNCHANGED <<machine, running, known, streams, broken, events, screen>>

\* The streams of a pad that is pulled out end, or wait for ever (macOS).
PullOut(p) ==
    /\ p \in plugged
    /\ Happens
    /\ plugged' = plugged \ {p}
    /\ streams' = [streams EXCEPT ![p] = 0]
    /\ broken' = broken \ {p}
    /\ lapses' = lapses \cup
        (IF machine.label[p] \in KeysOf(plugged \ {p}) \/ machine.label[p] \notin Believed THEN {"unnoticed"} ELSE {})
    /\ UNCHANGED <<machine, running, known, tick, events, screen>>

\* streamDevice: each stream that reads p reports the press.
PressButton(p) ==
    /\ running
    /\ p \in plugged /\ streams[p] > 0
    /\ Happens
    /\ Send(Press)
    /\ UNCHANGED <<pads, running, known, tick, streams, broken, screen, lapses>>

\* A stream is over when a read fails or decoding a report panics; the pad is
\* still plugged in, and nobody is told.
StreamEnds(p) ==
    /\ running
    /\ p \in plugged /\ streams[p] > 0
    /\ Happens
    /\ streams' = [streams EXCEPT ![p] = @ - 1]
    /\ broken' = broken \cup {p}
    /\ UNCHANGED <<pads, running, known, tick, events, screen, lapses>>

-----------------------------------------------------------------------------
(* pollHotplug.                                                            *)

\* diffDeviceSets
AddedMutant(before, after) == after
Added(before, after) == after \ before
Removed(before, after) == before \ after

\* An enumeration leaves out a pad whose interface it cannot ask about.
Enumerate(seen) ==
    /\ running /\ ~tick.on
    /\ LET next == KeysOf(seen) IN
        /\ next # known
        /\ tick' = [on |-> TRUE, seen |-> seen, fresh |-> {},
                    added |-> Added(known, next), removed |-> Removed(known, next)]
    /\ LET missed == plugged \ seen IN
        /\ clock + Cardinality(missed) <= MaxHappenings
        /\ clock' = clock + Cardinality(missed)
        /\ lapses' = lapses \cup (IF missed = {} THEN {} ELSE {"missed"})
    /\ UNCHANGED <<pads, running, known, streams, broken, events, screen>>

\* hotplugTick, one key that is new.
Connect(key) ==
    /\ running /\ tick.on /\ key \in tick.added
    /\ \E f \in Openings({p \in tick.seen : machine.label[p] = key}, tick.fresh) :
        LET e == Hotplug("connected", key, Outcome(f)) IN
        /\ streams' = Started(f)
        /\ Send(e)
        /\ lapses' = lapses \cup Dropped(e) \cup Astray(f)
    /\ tick' = [tick EXCEPT !.added = @ \ {key}]
    /\ UNCHANGED <<pads, running, known, broken, screen, clock>>

\* One key that is gone, after those that are new.
Disconnect(key) ==
    /\ running /\ tick.on /\ tick.added = {} /\ key \in tick.removed
    /\ LET e == Hotplug("disconnected", key, "disconnected") IN
        /\ Send(e)
        /\ lapses' = lapses \cup Dropped(e)
    /\ tick' = [tick EXCEPT !.removed = @ \ {key}]
    /\ UNCHANGED <<pads, running, known, streams, broken, screen, clock>>

\* What the next enumeration is compared with.
RememberedMutant(seen) == KeysOf(plugged)
Remembered(seen) == KeysOf(seen)

TickEnds ==
    /\ running /\ tick.on /\ tick.added = {} /\ tick.removed = {}
    /\ known' = Remembered(tick.seen)
    /\ tick' = Idle
    /\ UNCHANGED <<pads, running, streams, broken, events, screen, clock, lapses>>

\* The context is cancelled as the program quits: the handles are closed, the
\* poller returns and what was under way is lost.
Cancel ==
    /\ running
    /\ running' = FALSE
    /\ streams' = [p \in Pads |-> 0] /\ broken' = {}
    /\ known' = {} /\ tick' = Idle /\ events' = <<>>
    /\ notes' = {} /\ list' = Listing(0, {}) /\ asked' = 0 /\ loads' = {}
    /\ UNCHANGED <<pads, clock, lapses>>

-----------------------------------------------------------------------------
(* The program's screen, which handles one event at a time.                *)

\* replacePIDNote: a note that says less than "active" does not replace one.
ReplacePIDNote(old, new) ==
    IF new.status = "unavailable" /\ Note(new.pid, "active") \in old
    THEN old
    ELSE {n \in old : n.pid # new.pid} \cup {new}

\* handleHotplugEvent, and the keys a press stands for.
Handle ==
    /\ running /\ events # <<>>
    /\ events' = Tail(events)
    /\ IF IsHotplug(Head(events))
       THEN /\ notes' = ReplacePIDNote(notes, Note(Head(events).pid, Head(events).status))
            /\ asked' = asked + 1
       ELSE UNCHANGED <<notes, asked>>
    /\ UNCHANGED <<pads, running, known, tick, streams, broken, loads, list, clock, lapses>>

\* The reloads run beside each other: one enumerates, and later its list is shown.
Load ==
    /\ running /\ asked > 0
    /\ asked' = asked - 1
    /\ loads' = loads \cup {Listing(clock, plugged)}
    /\ UNCHANGED <<pads, nav, notes, list, clock, lapses>>

\* handleDevicesLoaded: whichever list comes last is the one that stays.
Show(load) ==
    /\ running /\ load \in loads
    /\ loads' = loads \ {load}
    /\ list' = load
    /\ lapses' = lapses \cup (IF load.at < list.at THEN {"overtaken"} ELSE {})
    /\ UNCHANGED <<pads, nav, notes, asked, clock>>

\* The enumeration fails: the list is emptied and the error shown.
LoadFails ==
    /\ running /\ asked > 0
    /\ Happens
    /\ asked' = asked - 1
    /\ list' = Listing(clock, {})
    /\ lapses' = lapses \cup {"failed"}
    /\ UNCHANGED <<pads, nav, notes, loads>>

\* rescanDevices
Rescan ==
    /\ running
    /\ Happens
    /\ asked' = asked + 1
    /\ UNCHANGED <<pads, nav, notes, loads, list, lapses>>

-----------------------------------------------------------------------------
Next ==
    \/ \E p \in Pads : PlugIn(p) \/ PullOut(p) \/ PressButton(p) \/ StreamEnds(p)
    \/ \E seen \in SUBSET plugged : Enumerate(seen)
    \/ \E key \in KeysOf(Pads) : Connect(key) \/ Disconnect(key)
    \/ TickEnds
    \/ Cancel
    \/ Handle
    \/ Load
    \/ \E load \in loads : Show(load)
    \/ LoadFails
    \/ Rescan

\* The ticker and the event loop keep going; nothing makes a user act.
Fairness ==
    /\ WF_vars(\E seen \in SUBSET plugged : Enumerate(seen))
    /\ WF_vars(\E key \in KeysOf(Pads) : Connect(key) \/ Disconnect(key))
    /\ WF_vars(TickEnds)
    /\ WF_vars(Handle)

Spec == Init /\ [][Next]_vars /\ Fairness

-----------------------------------------------------------------------------
(* Properties.                                                             *)

Lapses == {"dropped", "unnoticed", "missed", "overtaken", "failed", "reused"}

Statuses == {"active", "unavailable", "disconnected"}
Event == {Press} \cup [kind : {"connected", "disconnected"}, pid : Pids, status : Statuses]

\* The types of the variables; a bounded channel; a poller that has work only
\* while it is at work (navstream.go:108-124, 260-283).
TypeOK ==
    /\ machine \in Machines /\ running \in BOOLEAN
    /\ plugged \subseteq Pads
    /\ clock \in 0..MaxHappenings
    /\ known \subseteq KeysOf(Pads)
    /\ tick \in [on : BOOLEAN, seen : SUBSET Pads, fresh : SUBSET Pads,
                 added : SUBSET KeysOf(Pads), removed : SUBSET KeysOf(Pads)]
    /\ tick.on \/ tick = Idle
    /\ streams \in [Pads -> Nat]
    /\ \A p \in Pads \ plugged : streams[p] = 0
    /\ broken \subseteq plugged
    /\ events \in Seq(Event) /\ Len(events) <= ChannelSize
    /\ notes \subseteq [pid : Pids, status : Statuses]
    /\ asked \in Nat
    /\ \A l \in loads \cup {list} : l.at \in 0..clock /\ l.devices \subseteq Pads
    /\ lapses \subseteq Lapses

\* Nothing is under way: the poller has seen what is plugged in, the screen has
\* handled every event and every list it asked for.
Settled ==
    /\ running
    /\ ~tick.on /\ known = KeysOf(plugged)
    /\ \A i \in DOMAIN events : ~IsHotplug(events[i])
    /\ asked = 0 /\ loads = {}

\* A pad whose product id no other pad has.
Alone(p) == \A q \in Pads \ {p} : Pid(q) # Pid(p)

\* However controllers come and go: a press counts once, since no pad is read
\* by two streams, and once everything in hand is done the list names the pads
\* plugged in and the notes say which of them drive the program, or did until
\* their stream was lost (a note says "active" ever after).  What excuses the
\* program is a change no enumeration could show it, an enumeration that
\* overlooked a pad or failed, an event the full channel refused, or lists that
\* arrived in the wrong order; of the streams and the notes also a path another
\* pad had taken, and on macOS two pads of one product (navstream.go:236-325,
\* navdevice_linux.go:29-31, app.go:766-825, commands.go:21-26).
ScreenSettles ==
    /\ lapses = {} => \A p \in Pads : (machine.byMatch => Alone(p)) => streams[p] <= 1
    /\ lapses \subseteq {"reused"} /\ Settled => list.devices = plugged
    /\ lapses = {} /\ Settled =>
        \A p \in Pads : Alone(p) =>
            (Note(Pid(p), "active") \in notes <=> streams[p] > 0 \/ p \in broken)

\* A controller plugged in while the poller knows nothing of its key is, if it
\* stays, some time driving the program or named as one that cannot; unless the
\* channel was full when it was announced (navstream.go:292-312).
PadIsHeard ==
    \A p \in Pads :
        p \in plugged /\ machine.label[p] \notin Believed
            ~> \/ streams[p] > 0
               \/ \E n \in notes : n.pid = Pid(p) /\ n.status # "disconnected"
               \/ p \notin plugged
               \/ "dropped" \in lapses
               \/ ~running
=============================================================================
