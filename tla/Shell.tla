-------------------------------- MODULE Shell --------------------------------
(***************************************************************************)
(* The terminal interface (src/internal/tui): one model that every message *)
(* updates, and the commands it has in flight.  Update is a function of    *)
(* the model and a message that returns the next model and the commands to *)
(* start, so it is written here as operators on a model that return        *)
(* [m, issue].  A command first runs, on a goroutine of its own, against   *)
(* the devices and the core's cache (Run), and its answer reaches Update   *)
(* later (Deliver), in any order with the others and with what the user    *)
(* does meanwhile.                                                         *)
(*                                                                         *)
(* A device's configuration is one value; an edit changes it in the draft. *)
(* Text fields, pickers, the device filter, reports, notices and quitting  *)
(* are left out.  A visit is one way of using the program: the devices in  *)
(* reach and what the user does with them; every behaviour is of one visit,*)
(* chosen at the start and never changed; commands bounds what may be in   *)
(* flight when the user starts another.                                    *)
(***************************************************************************)
EXTENDS Integers, FiniteSets, SequencesExt

CONSTANTS
    Devices,
    Arranged,     \* sortDevicesByTier: some devices -> the list that shows them
    Kind,         \* device -> "keyboard", "pad", "candidate" or "silent"
    NoDevice,
    Visits        \* [devices, can, advanced, probed, commands]

Contents == {1, 2}
Unread == 0       \* the empty profile of an editor that has read nothing

Acts == {"map", "erase", "diagnose", "watch", "settings", "rescan", "replug",
         "firmware", "probe"}

ASSUME ShellAssumption ==
    /\ NoDevice \notin Devices
    /\ Kind \in [Devices -> {"keyboard", "pad", "candidate", "silent"}]
    /\ Arranged \in [SUBSET Devices -> Seq(Devices)]
    /\ \A found \in SUBSET Devices : Range(Arranged[found]) = found
    /\ \A v \in Visits : /\ v.devices \subseteq Devices /\ v.can \subseteq Acts
                         /\ v.advanced \in BOOLEAN /\ v.commands \in 1 .. 3

VARIABLES
    visit,
    model,        \* the Model: everything Update reads and writes
    cmds,         \* the commands in flight, oldest first
    cache,        \* device -> what its last diagnosis this session found
    attached,     \* the devices that are connected
    content,      \* device -> the configuration it holds
    uncertain,    \* devices a failed rollback left in no known state
    flash,        \* [started, foreign]: the sessions awaiting confirmation, as
                  \* <<target, image>>, and whether one sent another's image
    astray        \* what went wrong before, by the lapses below

shellVars == <<visit, model, cmds, cache, attached, content, uncertain, flash, astray>>
world == <<attached, content, uncertain, flash>>

-----------------------------------------------------------------------------
(* The model and its parts. *)

Tabs == {"devices", "diagnostics", "mapping", "buttons"}
Screens == Tabs \union {"settings", "firmware", "recovery"}
MaybeDevice == Devices \union {NoDevice}

Fresh == [loaded |-> Unread, draft |-> Unread]
NewMapping == [device |-> NoDevice, keyboard |-> FALSE, loading |-> FALSE, failed |-> FALSE,
               applying |-> FALSE, unavailable |-> FALSE, kb |-> Fresh, pad |-> Fresh]
NewDiag == [device |-> NoDevice, loading |-> FALSE, failed |-> FALSE, result |-> NoDevice]
NoPlan == <<NoDevice, NoDevice>>
NewFirmware == [device |-> NoDevice, stage |-> "downloading", plan |-> NoPlan]
NoModal == [kind |-> "none", action |-> "none", screen |-> "devices", cursor |-> 1, device |-> NoDevice]
NewLock == [on |-> FALSE, hasBackup |-> FALSE, device |-> NoDevice, saved |-> Unread, restored |-> FALSE]

\* Every tea.Cmd in commands.go that touches a device, with its answer once it ran.
Command(kind, d, value, image) ==
    [kind |-> kind, device |-> d, value |-> value, image |-> image,
     out |-> "pending", saved |-> Unread, found |-> {}]

WriteKinds == {"keyboardApply", "keyboardErase", "padApply", "probe", "fwStart", "fwConfirm"}
MappingKinds == {"keyboardRead", "keyboardApply", "keyboardErase", "padRead", "padApply"}
FirmwareKinds == {"fwDownload", "fwPreflight", "fwStart", "fwConfirm", "fwListen", "fwCancel"}
CommandKinds == WriteKinds \union MappingKinds \union FirmwareKinds
                \union {"list", "hotplug", "diag", "rediag", "autodiag", "restore"}

Selected(m) == IF m.listed = <<>> THEN NoDevice ELSE m.listed[m.cursor]

Editor(p) == IF p.keyboard THEN p.kb ELSE p.pad
Dirty(p) == Editor(p).draft # Editor(p).loaded

InSubViewMutant(m) == FALSE
InSubView(m) == m.screen = "mapping" /\ m.mapping.applying

\* actionsFor and mappingDisabledReason: why d has no editor now.
MappingDisabled(m, d) ==
    \/ Kind[d] \notin {"keyboard", "pad"}
    \/ Kind[d] = "pad" /\ ~m.advanced
    \/ m.lock.on
    \/ cache[d] \in {"silent", "gone"}

FirmwareDisabled(m, d) == Kind[d] \notin {"keyboard", "pad"} \/ m.lock.on
ProbeDisabled(m, d) == Kind[d] # "candidate" \/ m.lock.on \/ ~m.advanced

-----------------------------------------------------------------------------
(* What the handlers return. *)

Just(m) == [m |-> m, issue |-> <<>>]
Issuing(m, c) == [m |-> m, issue |-> <<c>>]

(***************************************************************************)
(* Moving between tabs, devices and pages (shell.go).                      *)
(***************************************************************************)
OpenChecks(m, d) ==
    LET opened == [NewDiag EXCEPT !.device = d]
    IN IF Kind[d] = "silent"
       THEN Just([m EXCEPT !.diag = [opened EXCEPT !.failed = TRUE]])
       ELSE IF cache[d] # "unknown"
       THEN Just([m EXCEPT !.diag = [opened EXCEPT !.result = d, !.failed = cache[d] = "gone"]])
       ELSE Issuing([m EXCEPT !.diag = [opened EXCEPT !.loading = TRUE]],
                    Command("diag", d, Unread, NoDevice))

OpenMapping(m, d) ==
    LET opened == [NewMapping EXCEPT !.device = d, !.keyboard = Kind[d] = "keyboard"]
    IN IF MappingDisabled(m, d)
       THEN Just([m EXCEPT !.mapping = [opened EXCEPT !.unavailable = TRUE]])
       ELSE Issuing([m EXCEPT !.mapping = [opened EXCEPT !.loading = TRUE]],
                    Command(IF opened.keyboard THEN "keyboardRead" ELSE "padRead", d, Unread, NoDevice))

ClampCursorMutant(i, l) == i
ClampCursor(i, l) == IF i > Len(l) THEN IF l = <<>> THEN 1 ELSE Len(l) ELSE i

NavigateNow(m, target, i) ==
    LET at == [m EXCEPT !.cursor = IF i = m.cursor THEN i ELSE ClampCursor(i, m.listed)]
        shown == [at EXCEPT !.screen = target]
    IN CASE target = "settings" ->
              Just([shown EXCEPT !.prev = IF m.screen \in Tabs THEN m.screen ELSE m.prev])
         [] target # "settings" /\ Selected(at) = NoDevice -> Just([at EXCEPT !.screen = "devices"])
         [] target = "diagnostics" /\ Selected(at) # NoDevice -> OpenChecks(shown, Selected(at))
         [] target = "mapping" /\ Selected(at) # NoDevice -> OpenMapping(shown, Selected(at))
         [] OTHER -> Just(shown)

DiscardModal(action, target, i) ==
    [kind |-> "discard", action |-> action, screen |-> target, cursor |-> i, device |-> NoDevice]

Navigate(m, target, i) ==
    IF m.screen = "mapping" /\ (target # "mapping" \/ i # m.cursor) /\ Dirty(m.mapping)
    THEN Just([m EXCEPT !.modal = DiscardModal("navigate", target, i)])
    ELSE NavigateNow(m, target, i)

(***************************************************************************)
(* Confirming a dialog: its message goes through Update.                   *)
(***************************************************************************)
BeginFirmware(m, d) ==
    Issuing([m EXCEPT !.acknowledged = TRUE, !.screen = "firmware",
                      !.fw = [NewFirmware EXCEPT !.device = d]],
            Command("fwDownload", d, Unread, NoDevice))

BeginProbe(m, d) ==
    Issuing([m EXCEPT !.acknowledged = TRUE], Command("probe", d, Unread, NoDevice))

Confirmed(m) ==
    LET dialog == m.modal
        closed == [m EXCEPT !.modal = NoModal]
        discarded == [closed EXCEPT !.mapping = NewMapping]
    IN CASE dialog.kind = "discard" /\ dialog.action = "back" ->
              Just([discarded EXCEPT !.screen = "devices"])
         [] dialog.kind = "discard" /\ dialog.action = "navigate" ->
              NavigateNow(discarded, dialog.screen, dialog.cursor)
         [] dialog.kind = "erase" ->
              Issuing([closed EXCEPT !.mapping.applying = TRUE],
                      Command("keyboardErase", m.mapping.device, Unread, NoDevice))
         [] dialog.kind = "firmware" -> BeginFirmware(closed, dialog.device)
         [] dialog.kind = "probe" -> BeginProbe(closed, dialog.device)

(***************************************************************************)
(* Answers that Update handles whatever screen shows.                      *)
(***************************************************************************)
Undiagnosed(found) == {d \in found : Kind[d] # "silent" /\ cache[d] = "unknown"}

DevicesLoaded(m, c) ==
    LET selected == Selected(m)
        kept == selected \in c.found
        list == Arranged[c.found]
        due == Arranged[Undiagnosed(c.found)]
        lost == selected # NoDevice /\ ~kept /\ m.screen \in Tabs \ {"devices"}
        listing == [m EXCEPT !.listed = list,
                             !.cursor = IF kept THEN CHOOSE i \in DOMAIN list : list[i] = selected
                                        ELSE IF selected = NoDevice THEN 1 ELSE ClampCursor(@, list)]
    IN [m |-> IF lost THEN [listing EXCEPT !.screen = "devices", !.mapping = NewMapping] ELSE listing,
        issue |-> [i \in DOMAIN due |-> Command("autodiag", due[i], Unread, NoDevice)]]

Hotplugged(m, c) ==
    Issuing(IF c.out = "gone" /\ m.screen = "diagnostics" /\ m.diag.device = c.device
            THEN [m EXCEPT !.diag.loading = FALSE, !.diag.failed = TRUE]
            ELSE m,
            Command("list", NoDevice, Unread, NoDevice))

\* A background diagnosis is shown only where its device is waiting for one.
WaitsFor(m, d) == m.screen = "diagnostics" /\ m.diag.loading /\ m.diag.device = d

AutoDiagnosed(m, c) ==
    Just(IF WaitsFor(m, c.device)
         THEN [m EXCEPT !.diag.loading = FALSE, !.diag.failed = c.out = "gone", !.diag.result = c.device]
         ELSE m)

Probed(m, c) ==
    Just(IF c.out = "uncertain"
         THEN [m EXCEPT !.lock.on = TRUE, !.lock.hasBackup = FALSE]
         ELSE m)

RestoredMutant(m, c) == Just([m EXCEPT !.lock.restored = TRUE])
Restored(m, c) == Just([m EXCEPT !.lock.restored = c.out = "ok"])

(***************************************************************************)
(* Answers for the mapping editor (screen_mapping.go, screen_keyboard.go,  *)
(* screen_pad.go).                                                         *)
(***************************************************************************)
Loaded(m, c) ==
    LET answered == [m.mapping EXCEPT !.loading = FALSE, !.failed = c.out = "error"]
        read == [loaded |-> c.value, draft |-> c.value]
    IN Just([m EXCEPT !.mapping =
                IF c.out = "error" THEN answered
                ELSE IF c.kind = "keyboardRead" THEN [answered EXCEPT !.kb = read]
                ELSE [answered EXCEPT !.pad = read]])

Written(p) == IF p.keyboard THEN [p EXCEPT !.kb.loaded = p.kb.draft]
              ELSE [p EXCEPT !.pad.loaded = p.pad.draft]

AppliedMutant(m, c) ==
    LET answered == [m.mapping EXCEPT !.applying = FALSE]
    IN Just(IF c.out = "uncertain"
            THEN [m EXCEPT !.mapping = answered, !.prev = m.screen, !.screen = "recovery",
                           !.lock.on = TRUE, !.lock.hasBackup = TRUE,
                           !.lock.device = c.device, !.lock.saved = c.saved]
            ELSE [m EXCEPT !.mapping = Written(answered)])

\* handleMappingApplyResult.
Applied(m, c) ==
    LET answered == [m.mapping EXCEPT !.applying = FALSE]
    IN Just(CASE c.out = "ok" -> [m EXCEPT !.mapping = Written(answered)]
              [] c.out = "uncertain" ->
                   [m EXCEPT !.mapping = answered, !.prev = m.screen, !.screen = "recovery",
                             !.lock.on = TRUE, !.lock.hasBackup = TRUE,
                             !.lock.device = c.device, !.lock.saved = c.saved]
              [] OTHER -> [m EXCEPT !.mapping = answered])

Erased(m, c) ==
    LET answered == [m.mapping EXCEPT !.applying = FALSE]
    IN IF c.out = "error" THEN Just([m EXCEPT !.mapping = answered])
       ELSE Issuing([m EXCEPT !.mapping = [answered EXCEPT !.loading = TRUE]],
                    Command("keyboardRead", m.mapping.device, Unread, NoDevice))

(***************************************************************************)
(* Answers that only the screen that shows may take (route).               *)
(***************************************************************************)
Routed(m) == IF m.lock.on /\ m.screen # "recovery"
             THEN [m EXCEPT !.prev = m.screen, !.screen = "recovery"]
             ELSE m

Diagnosed(m, c) ==
    Just([m EXCEPT !.diag.loading = FALSE, !.diag.failed = c.out = "gone", !.diag.result = c.device])

\* updateFirmware.
FirmwareAnswered(m, c) ==
    LET staged(s) == [m EXCEPT !.fw.stage = s]
    IN CASE c.out = "error" /\ c.kind # "fwCancel" -> Just(staged("error"))
         [] c.kind = "fwDownload" /\ c.out = "ok" ->
              Issuing(staged("preflighting"), Command("fwPreflight", m.fw.device, Unread, c.image))
         [] c.kind = "fwPreflight" /\ c.out = "denied" -> Just(staged("denied"))
         [] c.kind = "fwPreflight" /\ c.out = "ok" ->
              Just([staged("ready") EXCEPT !.fw.plan = <<c.device, c.image>>])
         [] c.kind = "fwStart" /\ c.out = "ok" ->
              Issuing(m, Command("fwConfirm", m.fw.plan[1], Unread, m.fw.plan[2]))
         [] c.kind = "fwConfirm" /\ c.out = "ok" ->
              Issuing(staged("running"), Command("fwListen", m.fw.plan[1], Unread, m.fw.plan[2]))
         [] c.kind = "fwListen" /\ c.out = "ok" -> Just(staged("done"))
         [] c.kind = "fwCancel" -> Just(IF c.out = "ok" THEN staged("done") ELSE m)

KeyboardShows(m) == m.screen = "mapping" /\ ~m.mapping.unavailable /\ m.mapping.keyboard

\* Update, for the answer of a command.
Handled(m, c) ==
    LET r == Routed(m) IN
       CASE c.kind = "list" -> DevicesLoaded(m, c)
         [] c.kind = "hotplug" -> Hotplugged(m, c)
         [] c.kind = "autodiag" -> AutoDiagnosed(m, c)
         [] c.kind = "probe" -> Probed(m, c)
         [] c.kind = "restore" -> Restored(m, c)
         [] c.kind = "padRead" -> Loaded(m, c)
         [] c.kind = "padApply" -> Applied(m, c)
         [] c.kind = "keyboardErase" -> Erased(m, c)
         [] c.kind = "keyboardRead" -> IF KeyboardShows(r) THEN Loaded(r, c) ELSE Just(r)
         [] c.kind = "keyboardApply" -> IF KeyboardShows(r) THEN Applied(r, c) ELSE Just(r)
         [] c.kind \in {"diag", "rediag"} ->
              IF r.screen = "diagnostics" THEN Diagnosed(r, c) ELSE Just(r)
         [] c.kind \in FirmwareKinds ->
              IF r.screen = "firmware" THEN FirmwareAnswered(r, c) ELSE Just(r)

-----------------------------------------------------------------------------
(* Initially the list is loaded, no device is lost, nothing is in flight. *)

ShellInit ==
    /\ visit \in Visits
    /\ model = [listed |-> Arranged[visit.devices], cursor |-> 1,
                screen |-> "devices", prev |-> "devices", modal |-> NoModal, lock |-> NewLock,
                advanced |-> visit.advanced, acknowledged |-> FALSE,
                mapping |-> NewMapping, diag |-> NewDiag, fw |-> NewFirmware]
    /\ cmds = <<>>
    /\ cache = [d \in Devices |-> IF visit.probed THEN "answers" ELSE "unknown"]
    /\ attached = visit.devices
    /\ content = [d \in Devices |-> 1]
    /\ uncertain = {}
    /\ flash = [started |-> {}, foreign |-> FALSE]
    /\ astray = {}

(***************************************************************************)
(* What went wrong before.  Each lapse names a way the interface is known  *)
(* to lose track; the properties below hold of what none of them explains. *)
(***************************************************************************)
InFlight(kinds) == \E i \in DOMAIN cmds : cmds[i].kind \in kinds

When(condition, lapse) == IF condition THEN {lapse} ELSE {}

\* Opening an editor, or the checks, while an answer for an earlier one is due.
OpeningLapses(h) ==
    When(h.issue # <<>> /\ h.issue[1].kind \in {"keyboardRead", "padRead"} /\ InFlight(MappingKinds),
         "openedInFlight")
    \union When(h.m.diag.device # model.diag.device /\ InFlight({"diag", "rediag"}), "checkedInFlight")
    \union When(h.m.screen = "settings" /\ model.screen = "mapping" /\ model.mapping.loading,
                "coveredWhileLoading")
    \union When(h.m.screen = "settings" /\ model.modal.kind = "discard", "discardedForSettings")
    \union When(h.m.fw.device # model.fw.device /\ InFlight(FirmwareKinds), "begunInFlight")

AnswerLapses(h, c) ==
    When(c.kind = "keyboardApply" /\ ~KeyboardShows(Routed(model)), "resultDropped")
    \union When(c.kind = "list" /\ model.screen = "settings" /\ Selected(h.m) # Selected(model),
                "lostUnderSettings")
    \union When(h.m.lock.on /\ ~model.lock.on /\ model.modal.kind \in {"erase", "firmware", "probe"},
                "dialogBeforeLock")
    \union When(model.lock.on /\ c.out = "uncertain", "lockedTwice")

-----------------------------------------------------------------------------
(* What the user does. *)

UserTurn == model.modal.kind = "none" /\ ~model.lock.on
CanStart == Len(cmds) < visit.commands

Do(h) ==
    /\ model' = h.m
    /\ cmds' = cmds \o h.issue
    /\ astray' = astray \union OpeningLapses(h)
    /\ UNCHANGED <<visit, world>>

Asked(tab) == CASE tab = "devices" -> TRUE
                [] tab = "diagnostics" -> "diagnose" \in visit.can
                [] tab = "mapping" -> "map" \in visit.can
                [] tab = "buttons" -> "watch" \in visit.can

\* tab, shift+tab, left, right, 1 to 4, d, D, and a click on a tab or a device.
Switch(tab, i) ==
    /\ UserTurn /\ CanStart /\ Asked(tab)
    /\ model.screen \in Tabs /\ ~InSubView(model)
    /\ tab = model.screen \/ i = model.cursor
    /\ Do(Navigate(model, tab, i))
    /\ UNCHANGED cache

OpenSettings ==
    /\ UserTurn /\ "settings" \in visit.can
    /\ model.screen \in Tabs /\ ~InSubView(model)
    /\ Do(Navigate(model, "settings", model.cursor))
    /\ UNCHANGED cache

LeaveSettings ==
    /\ UserTurn /\ model.screen = "settings"
    /\ Do(Just([model EXCEPT !.screen = model.prev]))
    /\ UNCHANGED cache

ToggleAdvanced ==
    /\ UserTurn /\ model.screen = "settings"
    /\ Do(Just([model EXCEPT !.advanced = ~@]))
    /\ UNCHANGED cache

Editing == /\ UserTurn /\ model.screen = "mapping"
           /\ ~model.mapping.unavailable /\ ~model.mapping.loading /\ ~model.mapping.failed

\* Every change of the draft: a row, a picked target, a name, a macro, undo,
\* reset, a file.
KeyboardEdited(p, value) == [p EXCEPT !.kb.draft = value]
PadEdited(p, value) == [p EXCEPT !.pad.draft = value]

Edit(value) ==
    /\ Editing /\ value # Editor(model.mapping).draft
    /\ model' = [model EXCEPT !.mapping = IF model.mapping.keyboard THEN KeyboardEdited(@, value)
                                          ELSE PadEdited(@, value)]
    /\ astray' = astray \union When(model.mapping.applying, "editedWhileWriting")
    /\ UNCHANGED <<visit, cmds, cache, world>>

Apply ==
    /\ Editing /\ CanStart
    /\ Dirty(model.mapping) /\ ~model.mapping.applying
    /\ Do(Issuing([model EXCEPT !.mapping.applying = TRUE],
                  Command(IF model.mapping.keyboard THEN "keyboardApply" ELSE "padApply",
                          model.mapping.device, Editor(model.mapping).draft, NoDevice)))
    /\ UNCHANGED cache

AskErase ==
    /\ Editing /\ "erase" \in visit.can
    /\ model.mapping.keyboard /\ ~model.mapping.applying
    /\ Do(Just([model EXCEPT !.modal = [NoModal EXCEPT !.kind = "erase"]]))
    /\ UNCHANGED cache

\* esc on a tab or on the firmware screen.
Back ==
    /\ UserTurn
    /\ \/ model.screen = "diagnostics"
       \/ model.screen = "mapping"
       \/ model.screen = "firmware" /\ model.fw.stage # "running"
    /\ Do(Just(IF Editing /\ Dirty(model.mapping)
               THEN [model EXCEPT !.modal = DiscardModal("back", "devices", 1)]
               ELSE [model EXCEPT !.screen = "devices"]))
    /\ UNCHANGED cache

CheckAgain ==
    /\ UserTurn /\ CanStart /\ model.screen = "diagnostics"
    /\ Do(Issuing([model EXCEPT !.diag.loading = TRUE, !.diag.failed = FALSE],
                  Command("rediag", model.diag.device, Unread, NoDevice)))
    /\ UNCHANGED cache

\* ForgetFailedDiags.
Forgotten == [d \in Devices |-> IF cache[d] = "gone" THEN "unknown" ELSE cache[d]]

RescanDevices ==
    /\ UserTurn /\ CanStart /\ "rescan" \in visit.can
    /\ model.screen = "devices"
    /\ cache' = Forgotten
    /\ Do(Issuing(model, Command("list", NoDevice, Unread, NoDevice)))

\* triggerDevicesEnter, for the two actions that write.
Risky(act, disabled, begun) ==
    /\ UserTurn /\ CanStart /\ act \in visit.can
    /\ model.screen = "devices" /\ Selected(model) # NoDevice /\ ~disabled
    /\ Do(IF model.acknowledged THEN begun
          ELSE Just([model EXCEPT !.modal = [NoModal EXCEPT !.kind = act, !.device = Selected(model)]]))
    /\ UNCHANGED cache

UpdateFirmware == Risky("firmware", FirmwareDisabled(model, Selected(model)),
    BeginFirmware(model, Selected(model)))
TestWrite == Risky("probe", ProbeDisabled(model, Selected(model)),
    BeginProbe(model, Selected(model)))

StartTransfer ==
    /\ UserTurn /\ CanStart /\ model.screen = "firmware" /\ model.fw.stage = "ready"
    /\ Do(Issuing([model EXCEPT !.fw.stage = "confirming"],
                  Command("fwStart", model.fw.plan[1], Unread, model.fw.plan[2])))
    /\ UNCHANGED cache

CancelTransfer ==
    /\ UserTurn /\ CanStart /\ model.screen = "firmware" /\ model.fw.stage = "running"
    /\ Do(Issuing(model, Command("fwCancel", model.fw.plan[1], Unread, model.fw.plan[2])))
    /\ UNCHANGED cache

\* A dialog takes the keys, whether or not writes are locked by now.
ConfirmDialog ==
    /\ model.modal.kind # "none" /\ CanStart
    /\ Do(Confirmed(model))
    /\ UNCHANGED cache

CancelDialog ==
    /\ model.modal.kind # "none"
    /\ Do(Just([model EXCEPT !.modal = NoModal]))
    /\ UNCHANGED cache

\* Once writes are locked any key or click leads to Recovery, and there
\* only the restore is left.
TakeOver ==
    /\ model.lock.on /\ model.modal.kind = "none" /\ model.screen # "recovery"
    /\ Do(Just(Routed(model)))
    /\ UNCHANGED cache

Restore ==
    /\ model.lock.on /\ model.modal.kind = "none" /\ model.screen = "recovery" /\ CanStart
    /\ model.lock.hasBackup /\ ~model.lock.restored
    /\ Do(Issuing(model, Command("restore", model.lock.device, model.lock.saved, NoDevice)))
    /\ UNCHANGED cache

-----------------------------------------------------------------------------
(* Devices come and go.  The poller of NavInput tells of one at a time. *)

Replug(d) ==
    /\ "replug" \in visit.can /\ d \in visit.devices
    /\ ~InFlight({"hotplug"}) /\ CanStart
    /\ attached' = IF d \in attached THEN attached \ {d} ELSE attached \union {d}
    /\ cmds' = Append(cmds, [Command("hotplug", d, Unread, NoDevice)
                                EXCEPT !.out = IF d \in attached THEN "gone" ELSE "ok"])
    /\ UNCHANGED <<visit, model, cache, content, uncertain, flash, astray>>

-----------------------------------------------------------------------------
(* A command runs. *)

Runs(i, kinds) == cmds[i].kind \in kinds /\ cmds[i].out = "pending"
AtHand(i) == cmds[i].device \in attached

Ends(i, out) == cmds' = [cmds EXCEPT ![i].out = out]

RunList(i) ==
    /\ Runs(i, {"list"})
    /\ \/ cmds' = [cmds EXCEPT ![i].out = "ok", ![i].found = attached]
       \/ "rescan" \in visit.can /\ Ends(i, "error")
    /\ UNCHANGED <<visit, model, cache, world, astray>>

\* DiagProbeCached takes what is cached; DiagProbeFresh always asks.
RunDiagnose(i) ==
    /\ Runs(i, {"diag", "rediag", "autodiag"})
    /\ LET d == cmds[i].device
           found == IF cmds[i].kind # "rediag" /\ cache[d] # "unknown" THEN {cache[d]}
                    ELSE IF d \in attached /\ Kind[d] # "silent" THEN {"answers", "silent"}
                    ELSE {"gone"}
       IN \E out \in found :
            /\ Ends(i, out)
            /\ cache' = [cache EXCEPT ![d] = out]
    /\ UNCHANGED <<visit, model, world, astray>>

RunRead(i) ==
    /\ Runs(i, {"keyboardRead", "padRead"})
    /\ \/ AtHand(i) /\ cmds' = [cmds EXCEPT ![i].out = "ok", ![i].value = content[cmds[i].device]]
       \/ Ends(i, "error")
    /\ UNCHANGED <<visit, model, cache, world, astray>>

\* KeyboardApply and PadApply: applied and verified, put back, left in no
\* known state, or refused before anything was written.
RunApply(i) ==
    /\ Runs(i, {"keyboardApply", "padApply"})
    /\ LET d == cmds[i].device IN
       \/ /\ AtHand(i) /\ Ends(i, "ok")
          /\ content' = [content EXCEPT ![d] = cmds[i].value]
          /\ uncertain' = uncertain \ {d}
       \/ /\ AtHand(i)
          /\ cmds' = [cmds EXCEPT ![i].out = "uncertain", ![i].saved = content[d]]
          /\ \E value \in Contents : content' = [content EXCEPT ![d] = value]
          /\ uncertain' = uncertain \union {d}
       \/ /\ AtHand(i) /\ Ends(i, "putBack")
          /\ UNCHANGED <<content, uncertain>>
       \/ /\ Ends(i, "error")
          /\ UNCHANGED <<content, uncertain>>
    /\ UNCHANGED <<visit, model, cache, attached, flash, astray>>

\* KeyboardClearProfile: nothing is put back when the erase fails half way.
RunErase(i) ==
    /\ Runs(i, {"keyboardErase"})
    /\ \/ /\ AtHand(i) /\ Ends(i, "ok")
          /\ content' = [content EXCEPT ![cmds[i].device] = 1]
          /\ UNCHANGED astray
       \/ /\ Ends(i, "error")
          /\ \E d \in {cmds[i].device} \intersect attached, value \in Contents :
                content' = [content EXCEPT ![d] = value]
          /\ astray' = astray \union {"eraseFailed"}
       \/ /\ Ends(i, "error") /\ ~AtHand(i)
          /\ UNCHANGED <<content, astray>>
    /\ UNCHANGED <<visit, model, cache, attached, uncertain, flash>>

RunProbe(i) ==
    /\ Runs(i, {"probe"})
    /\ \/ /\ \E out \in {"ok", "error"} : Ends(i, out)
          /\ UNCHANGED uncertain
       \/ /\ AtHand(i) /\ Ends(i, "uncertain")
          /\ uncertain' = uncertain \union {cmds[i].device}
    /\ UNCHANGED <<visit, model, cache, attached, content, flash, astray>>

RunRestore(i) ==
    /\ Runs(i, {"restore"})
    /\ LET d == cmds[i].device IN
       \/ /\ AtHand(i) /\ Ends(i, "ok")
          /\ content' = [content EXCEPT ![d] = cmds[i].value]
          /\ uncertain' = uncertain \ {d}
       \/ /\ Ends(i, "error")
          /\ UNCHANGED <<content, uncertain>>
    /\ UNCHANGED <<visit, model, cache, attached, flash, astray>>

\* The calls of FirmwareSession, as far as the screen can tell them apart.
RunFirmware(i) ==
    /\ Runs(i, FirmwareKinds)
    /\ LET c == cmds[i]
           plan == <<c.device, c.image>>
       IN \/ /\ c.kind = "fwDownload"
             /\ cmds' = [cmds EXCEPT ![i].out = "ok", ![i].image = c.device]
             /\ UNCHANGED flash
          \/ /\ c.kind = "fwPreflight" /\ \E out \in {"ok", "denied"} : Ends(i, out)
             /\ UNCHANGED flash
          \/ /\ c.kind = "fwStart" /\ Ends(i, "ok")
             /\ flash' = [flash EXCEPT !.started = @ \union {plan}]
          \/ /\ c.kind = "fwConfirm" /\ plan \in flash.started /\ Ends(i, "ok")
             /\ flash' = [started |-> flash.started \ {plan}, foreign |-> flash.foreign \/ plan[1] # plan[2]]
          \/ /\ c.kind \in {"fwListen", "fwCancel"} /\ Ends(i, "ok")
             /\ UNCHANGED flash
          \/ /\ c.kind # "fwListen" /\ Ends(i, "error")
             /\ UNCHANGED flash
    /\ UNCHANGED <<visit, model, cache, attached, content, uncertain, astray>>

Run(i) ==
    \/ RunList(i) \/ RunDiagnose(i) \/ RunRead(i) \/ RunApply(i)
    \/ RunErase(i) \/ RunProbe(i) \/ RunRestore(i) \/ RunFirmware(i)

\* Its answer reaches Update.
Deliver(i) ==
    /\ cmds[i].out # "pending"
    /\ LET h == Handled(model, cmds[i]) IN
       /\ model' = h.m
       /\ cmds' = RemoveAt(cmds, i) \o h.issue
       /\ astray' = astray \union AnswerLapses(h, cmds[i])
    /\ cache' = IF cmds[i].kind = "hotplug" THEN Forgotten ELSE cache
    /\ UNCHANGED <<visit, world>>

UserNext ==
    \/ \E tab \in Tabs, i \in DOMAIN model.listed : Switch(tab, i)
    \/ OpenSettings \/ LeaveSettings \/ ToggleAdvanced
    \/ \E value \in Contents \union {Editor(model.mapping).loaded} : Edit(value)
    \/ Apply \/ AskErase \/ Back \/ CheckAgain \/ RescanDevices
    \/ UpdateFirmware \/ TestWrite \/ StartTransfer \/ CancelTransfer
    \/ ConfirmDialog \/ CancelDialog \/ TakeOver \/ Restore

ShellNext ==
    \/ UserNext
    \/ \E d \in Devices : Replug(d)
    \/ \E i \in DOMAIN cmds : Run(i)
    \/ \E i \in DOMAIN cmds : Deliver(i)

\* The editor's commands end and their answers are taken, and so with the others:
\* a device answers or its read times out, and the program's loop takes messages
\* as they come.  The user owes nothing.
ShellFairness ==
    \A kinds \in {MappingKinds, CommandKinds \ MappingKinds} :
        /\ WF_shellVars(\E i \in DOMAIN cmds : cmds[i].kind \in kinds /\ Run(i))
        /\ WF_shellVars(\E i \in DOMAIN cmds : cmds[i].kind \in kinds /\ Deliver(i))

ShellSpec == ShellInit /\ [][ShellNext]_shellVars
FairShell == ShellSpec /\ ShellFairness

-----------------------------------------------------------------------------
(***************************************************************************)
(* The state is what the code's types allow.                               *)
(***************************************************************************)
MappingType == [device : MaybeDevice, keyboard : BOOLEAN, loading : BOOLEAN, failed : BOOLEAN,
                applying : BOOLEAN, unavailable : BOOLEAN,
                kb : [loaded : 0 .. 2, draft : 0 .. 2], pad : [loaded : 0 .. 2, draft : 0 .. 2]]

ModalType == [kind : {"none", "discard", "erase", "firmware", "probe"},
              action : {"none", "back", "navigate"}, screen : Screens, cursor : Nat \ {0},
              device : MaybeDevice]

Stages == {"downloading", "preflighting", "denied", "ready", "confirming", "running", "done", "error"}

ModelType == [listed : Seq(Devices), cursor : Nat \ {0}, screen : Screens, prev : Screens,
              modal : ModalType,
              lock : [on : BOOLEAN, hasBackup : BOOLEAN, device : MaybeDevice, saved : 0 .. 2,
                      restored : BOOLEAN],
              advanced : BOOLEAN, acknowledged : BOOLEAN, mapping : MappingType,
              diag : [device : MaybeDevice, loading : BOOLEAN, failed : BOOLEAN, result : MaybeDevice],
              fw : [device : MaybeDevice, stage : Stages, plan : MaybeDevice \X MaybeDevice]]

CommandType == [kind : CommandKinds, device : MaybeDevice, value : 0 .. 2, image : MaybeDevice,
                out : {"pending", "ok", "error", "putBack", "uncertain", "denied",
                       "answers", "silent", "gone"},
                saved : 0 .. 2, found : SUBSET Devices]

ShellTypeOK ==
    /\ visit \in Visits
    /\ model \in ModelType
    /\ model.cursor \in DOMAIN model.listed \union {1}
    /\ cmds \in Seq(CommandType)
    /\ cache \in [Devices -> {"unknown", "answers", "silent", "gone"}]
    /\ attached \subseteq Devices /\ uncertain \subseteq Devices
    /\ content \in [Devices -> Contents]
    /\ flash \in [started : SUBSET (MaybeDevice \X MaybeDevice), foreign : BOOLEAN]

Unless(causes) == astray \intersect causes # {}

(***************************************************************************)
(* The screen tells the truth.  What the mapping editor calls loaded is    *)
(* what the device it names holds; the tab is about the selected device;   *)
(* the result the checks show is of the device they name; and the image    *)
(* that is transferred is the one downloaded for its target.               *)
(***************************************************************************)
EditorAtRest == /\ model.screen = "mapping" /\ ~model.mapping.unavailable
                /\ ~model.mapping.loading /\ ~model.mapping.failed /\ ~model.mapping.applying

EditorIsTrue ==
    EditorAtRest /\ ~Unless({"editedWhileWriting", "openedInFlight", "eraseFailed", "discardedForSettings"})
    => /\ model.mapping.device # NoDevice
       /\ \/ Editor(model.mapping).loaded = content[model.mapping.device]
          \/ model.mapping.device \in uncertain

TabShowsSelected ==
    model.screen \in {"diagnostics", "mapping"} /\ ~Unless({"lostUnderSettings", "discardedForSettings"})
    => Selected(model) = IF model.screen = "mapping" THEN model.mapping.device ELSE model.diag.device

ResultIsOwn ==
    model.screen = "diagnostics" /\ ~Unless({"checkedInFlight"})
    => model.diag.result \in {NoDevice, model.diag.device}

ImageIsOwn ==
    ~Unless({"begunInFlight"}) => ~flash.foreign

ScreenIsTrue == EditorIsTrue /\ TabShowsSelected /\ ResultIsOwn /\ ImageIsOwn

(***************************************************************************)
(* The write lock.  A device a failed rollback left in no known state      *)
(* locks every write once its answer is in; while they are locked no write *)
(* starts; and Recovery says that the backup was restored only when the    *)
(* device holds it.                                                        *)
(***************************************************************************)
UncertainIsLocked ==
    \A d \in uncertain :
        \/ model.lock.on
        \/ \E i \in DOMAIN cmds : cmds[i].device = d /\ cmds[i].out = "uncertain"
        \/ Unless({"resultDropped"})

RestoreIsTrue ==
    model.lock.restored /\ ~Unless({"lockedTwice", "dialogBeforeLock", "openedInFlight"})
    => content[model.lock.device] = model.lock.saved

WriteBegun(kind) ==
    Cardinality({i \in DOMAIN cmds' : cmds'[i].kind = kind})
        > Cardinality({i \in DOMAIN cmds : cmds[i].kind = kind})

NoWriteStarts == model.lock.on => \A kind \in WriteKinds : ~WriteBegun(kind)

LockHolds ==
    [][ /\ (UncertainIsLocked /\ RestoreIsTrue)'
        /\ NoWriteStarts \/ Unless({"dialogBeforeLock"}) ]_shellVars

(***************************************************************************)
(* screen_recovery.go tells the user that every write is disabled until    *)
(* the program is restarted.  A dialog that was open when the lock tripped *)
(* still starts its write.                                                 *)
(***************************************************************************)
WritesStayOff == [][NoWriteStarts]_shellVars

(***************************************************************************)
(* The editor does not stay busy: a read or a write it waits for ends,     *)
(* unless Settings covered it while it was reading.                        *)
(***************************************************************************)
Busy == model.screen = "mapping" /\ (model.mapping.applying \/ model.mapping.loading)

EditorSettles == Busy ~> (~Busy \/ Unless({"coveredWhileLoading"}))

=============================================================================
