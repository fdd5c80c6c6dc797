# OpenBitdo: specifications, model checking and proofs

OpenBitdo is a terminal program, written in Go, that reads and changes the
configuration of 8BitDo controllers, keyboards and mice over HID, and that can
transfer firmware to them. What can go wrong in it is not computation: it is a
device that answers late, twice or not at all, a write that was acknowledged
and did not take, a rollback that fails half way, a cancellation that races the
end of a transfer, a result that arrives when the user has moved on. This
directory specifies those parts in TLA+, checks them with TLC and proves the
most important facts with TLAPS. Paths below are relative to `internal/` of the
repository unless they start elsewhere.

## 1. Inventory

| Component | State it keeps | Operations | Hard behaviour | What makes it correct |
|---|---|---|---|---|
| Firmware sessions (`core/firmware*.go`, `transfer_task.go`, `broadcaster.go`) | session handle (state, report, sequence, cancel flag), subscribers' channels; the image file on disk | Preflight, Start, Confirm, Cancel, Report, SubscribeEvents, the transfer goroutine | racing confirmations and cancellations, unplugging, unanswered commands, panics, slow subscribers, a file that changes | one transfer, one final report that agrees with the device, only the planned bytes, the last event always reaches the listener |
| Keyboard profile writes (`core/keyboard.go`, `keyboard_macro.go`, `mapping.go`, `protocol/jp108*.go`) | the keyboard's profile, the backups kept in memory | KeyboardApply, KeyboardClearProfile, RestoreBackup | any command fails, obeyed or not; an acknowledgement proves nothing; a rename may empty the profile; macro slots run out | applied means held, rolled back means put back, restored means complete, a backup before the first change |
| Record keyboards (`core/kbrecord.go`, `protocol/kbrecord.go`) | one record, a colour block, macro slots | RecordKeyboardApply, restore | blocks are erased before they are written; a keyboard without a profile; slots that no key plays | as for the keyboards, judged by what a read shows |
| Controller profile writes (`core/pad*.go`, `protocol/u2.go`) | for each platform slots and macros, a light effect; what was sent and not committed yet | PadReadProfile, PadApply, restore | order of macro steps, headers and the commit; rollback; steps staged by a call that failed; a platform switch that moves | as for the keyboards, on the platform that was read, and no header before the steps it describes |
| Mice (`core/mouse.go`, `protocol/mouse.go`) | settings, names, buttons and macros, or one record | MouseApply, undoMouseRetro, restore | names and macros in several reports, settings that travel together, a profile that is cleared to undo | as for the keyboards, and the DPI in use follows its table |
| Device sessions and HID transport (`protocol/session*.go`, `hid_transport.go`) | lastExecution, the open handle, the kernel's report queue | SendCommand (drain, write, read, retry), Identify, DiagProbe, Close | late and stray replies, replies recognised by their first bytes, by some commands hardly at all, timeouts and retries, abandoned readers | old replies answer nothing, writes are not repeated, every command ends |
| Command authorization and registry (`protocol/session_authorization.go`, `validation.go`, `registry*.go`) | none (tables, configuration) | ensureCommandAllowed, under every operation of the core | eight overlapping conditions and the core's own gates, settings that change meanwhile and before a backup is restored | unconfirmed devices are only read but behind the ceremony, every device gets its own commands, an operation that begins is not refused half way |
| Devices, shared products, diagnostics cache (`core/core.go`, `diag_cache.go`) | maps behind mutexes: diagCache, sharedProducts; the rows shown | ListDevices, resolveSharedProduct, DiagProbeCached, ForgetFailedDiags, ForgetSharedProducts | check-then-act between lock and unlock, forgetting while a probe is under way | a row claims the product that is opened, no row waits for ever |
| Controller input (`input/`) | streams, the poller's last enumeration, a bounded channel | Start, pollHotplug, hotplugTick, streamDevice | a controller that comes and goes between two steps of the poller, or only loses its stream, a full channel | a press counts once, list and notes settle on what is plugged in |
| Terminal interface (`tui/*.go`) | the Model: screen, selected device, editors, firmware screen, write lock | Bubble Tea messages and the commands they start | results that arrive on another screen or for another device, dialogs that outlive what they were opened for | the screen tells the truth, a failed rollback locks writing |
| HID backends (`hidraw/`, `machid/`) | file descriptor or callback queue | open, read, write, close | callbacks, bounded queues | what `DeviceSession` and `NavInput` assume of them |
| Wire formats, simulators, profile files, tables, command line, generator, scripts | none of interest | encode, decode | none a model checker reaches | covered by the repository's own unit tests |

How they interact: the interface runs every call of the core in a command
goroutine and receives its result as a message; the core opens a
`DeviceSession` per call; the session writes to and reads from the transport,
command by command behind the gate; the firmware transfer runs in a goroutine
of its own and reports through the handle (under `handle.mu`) and through the
broadcaster (under its own mutex); the input poller sends into a channel that
the interface reads. Sessions, backups and caches are shared maps with a lock
each; **nothing serialises two calls on one device**.

`PROJECT.json` lists all components with their status and every hazard at its
line, with the properties that cover it or the reason why none does.

## 2. Modules

| Module | What it is |
|---|---|
| `FirmwareUpdate` | What a firmware update promises its caller: one outcome, told to everyone, cancelled only when asked. |
| `FirmwareSession` | The firmware session, goroutine by goroutine; implements `FirmwareUpdate`. |
| `FirmwareSessionProofs` | TLAPS: `TypeCorrect`, `OneReport`, `DeviceIsAsReported`, `OnlyThePlan`, `CancelIsObeyed`, `EndIsTold`, `SessionIsUpdate`. |
| `RecoverableWrite` | What a profile write promises: entirely, not at all, or a warning; always with a backup. |
| `KeyboardWrite` | KeyboardApply, KeyboardClearProfile, RestoreBackup command by command; implements `RecoverableWrite`. |
| `KeyboardWriteProofs` | TLAPS: `TypeCorrect`, `OutcomesAreHeld`, `BackupPrecedesChange`, `OthersStay`, and `KeyboardKeepsPromise`, the refinement of `RecoverableWrite`. |
| `RecordKeyboardWrite` | RecordKeyboardApply and its restore, with blocks that are erased before they are written; implements `RecoverableWrite`. |
| `RecordKeyboardWriteProofs` | TLAPS: `TypeCorrect`, `PromiseKept`, and `RecordKeepsPromise`, the refinement. |
| `PadWrite` | PadReadProfile, PadApply and its restore, with platforms, a commit, macro steps and the headers that describe them. |
| `PadWriteProofs` | TLAPS: `TypeCorrect`, `PromiseKept`. |
| `MouseWrite` | MouseApply and its restore, for mice with a command per setting and mice with a record; implements `RecoverableWrite`. |
| `MouseWriteProofs` | TLAPS: `TypeCorrect`, `PromiseKept`, `StageIsFitted`, and `MouseKeepsPromise`, the refinement. |
| `DeviceSession` | One command at a time over HID, against a device that answers as it likes. |
| `DeviceSessionProofs` | TLAPS: `TypeCorrect`, `WriteGoesOutOnce`, `AnswersAreFresh`, `ReplyIsOwn`, `ReadBackIsHeld`. |
| `CommandGate` | Which commands a device is sent: the registry, the capabilities and `ensureCommandAllowed`, under every operation. |
| `DeviceListing` | The list of devices, the product behind the shared id and the two caches, filled and forgotten concurrently. |
| `GateAndListingProofs` | TLAPS, of what devices are sent and which are listed: `TypeCorrect`, `OnlyTheConfirmedChange`, `KindsKeepApart`, `AllOrNothing` of `CommandGate`; `ListingTypeCorrect`, `ListingTrue` of `DeviceListing`. |
| `NavInput` | Controllers as input: streams, hotplug poller, channel, and what the interface does with the events. |
| `Shell` | The terminal interface: one model, its messages and the commands in flight. |
| `InterfaceProofs` | TLAPS, of controllers as input and of the screen: `TypeCorrect`, `ScreenIsSettled` of `NavInput`; `ShellTypeCorrect`, `ScreenTrue`, `LockKept` of `Shell`. |
| `MC...` | The instances of the runs: devices, requests, sites, visits, symmetry. |

Definitions named `...Mutant` stand before the definition they break. No
specification uses them: they are plausible slips of the code, and every checked
property has one that makes its run fail.

The write modules stand below `Shell`, which sees of a write only how it ended;
`CommandGate` stands beside them and says which of their commands are sent at
all (a command that is refused fails, which every write module lets any command
do); `DeviceSession` justifies what they assume of a command that was
acknowledged and read back. `NavInput` and `DeviceListing` share the poller:
the first has its steps, the second only its event. In each the neighbours are
represented by what they may do, not by what they do.

### FirmwareSession

*State.* `state`, `sequence`, `cancelRequested`, `report` are the fields of
`firmwareSessionHandle`; `subscribed` and `channel` are the broadcaster and its
buffered channels; `task` holds the locals of `runTransferTask`; `device` is
what the commands sent so far have done to the device. `askedAt`, `owed` and
`raced` are history.

*Granularity.* What runs under `handle.mu` without leaving it is one step;
CancelFirmware's look, its second look and each poll are separate steps, and so
are the numbering of an event (under `handle.mu`) and its delivery (under the
broadcaster's mutex), which is why two events can overtake each other. `Evict`
is separate from `Deliver`: the broadcaster's lock does not keep the subscriber
from receiving between the send that found the buffer full and the receive that
evicts.

*Environment.* `Unplug` at any time; any command may fail, with its effect or
without; `Panic` in any transport call (the deferred recover reports a failure);
`Overwrite` changes the image file at any time. A simulated device
(`config.MockMode`) takes the mock path.

*Left out.* Unplugged devices are not plugged in again. Closing the session is
not a step. A chunk is sent whole: `ChunkSize` is 56 everywhere, which fits the
payload (listed as a hazard). `OutcomeCompletedUnverified` is reported when the
version cannot be read: `verifyPostFlash` compares no versions, and neither does
the model. `DownloadRecommendedFirmware` is represented by the file it writes.
The released build disables real transfers; the model is of the path that is
there.

### KeyboardWrite

*State.* `held` is what the keyboard holds, setting by setting; `backups` is
`core.backups`; `goal`, `todo` and `undoing` are the argument, the progress and
the pass of `writeKeyboardChanges`; `before` is the profile KeyboardApply read
first. `renameDrops` says whether naming a profile empties it, which the code
leaves open ("the keyboard's business") and the model therefore too.

*Every command* may succeed, fail without effect, fail with effect (the answer
was lost), or be acknowledged without effect; so it is in all write modules.
Reading a profile is one step. A macro's name and its value are one command; a
profile's name is never read back, as in the code. The order of the settings,
the gates, the macro that is cleared before its key is written again, the
default name given to a keyboard without a profile, the single rollback pass and
its undo set are the code's.

*Assumed of the keyboard:* mappings and macros exist only in a named profile.
*Not modelled:* the outcomes of the dedicated-mapping write (`mapping.go:63-150`),
which only tests call (`CommandGate` has its commands); RestoreBackup in mock
mode, which writes nothing.

### RecordKeyboardWrite

*State.* `held` is what the keyboard holds, part by part: whether there is a
profile (`Flag`), the key table, the other sections (`Setting`), the colour
block (`Lights`), the macro slots. `goal`, `parts`, `todo` are the arguments and
the progress of a pass over `writeKbRecordSpans`, `writeKbRecordLights` and
`writeKbRecordMacro`. A slot holds one value, its header and its steps;
`Garbage` is what an erased or half written block reads as.

*What a read shows* is not what the keyboard holds: without a profile it is the
default record (`Shown`), and the macro of a slot that no key plays is not read
(`Read`). The code plans and compares with what it read, and so does the model;
its properties compare reads.

*Order.* The record, the colours, the macros, as in `RecordKeyboardApply`; a
keyboard without a profile is given all sections; a restore plans its macros
only when the record and the colours are written (`Plan`), so it can be refused
half way.

*Assumed of the keyboard:* a written header without its steps, or steps over
others, read as neither the old macro nor the new one. *Not modelled:* the
profile switch, which no write touches.

### PadWrite

*State.* `held` is what the controller keeps, platform by platform; `selected`
the platform its commands address; `staged` what it was sent since the last
commit. `read` is the profile the editor was given, which the next `PadApply`
edits: it was read in a session of its own, of the platform of that moment, and
the controller's switch may have moved since, or the selection may not take.
`jobs` is what is left of a pass: the slots whose steps are written, the
record's spans, the light effect; `todo` is what is left of one job. `whole` is
the kind of model (Ultimate Bluetooth) that is only sent its whole record, and
still checked span by span.

*Order.* `Rank` is the order of `PadApplyAt`: steps, spans, light; in the
rollback spans, steps, light. Erasing steps takes effect at once, writing them
with the commit.

*Assumed of the controller:* a commit that is acknowledged has taken place (the
comment of `U2Commit`); a platform that is selected drops what was staged of the
record, as the repository's simulator does, but perhaps not what was staged of
the steps. In the second case the commit of a call completes an earlier, failed
one: such calls are marked `dirty`, and what is said of a call's outcome is not
said of them. A model other than the Ultimate Bluetooth is taken at its word
about the platform that is selected: `U2PhysicalPlatform` takes every answer but
one for DInput, where `ArcadeProPlatform` refuses to guess. *Simplified:* all
step lists have one length; whether a value is valid (`validateArcadeProSlot`,
`PadSlot.validate`) only refuses calls. *Left out:* that input reports stay
paused when the command that paused them failed though it was obeyed
(`pad.go:633-640`), and that a synchronisation whose start was not answered is
never ended.

### MouseWrite

*State.* `held` is what the mouse holds: the profile's name or flag, the table
of stages of one axis (`X`) and the mask of the other (`Y`), the stage in use,
one setting that has a command of its own, and for each button what it is
assigned and its macro. `stageDpi` is the DPI the mouse was last sent with a
stage, which travels with the stage and is never read back; `fitted` and
`missed` are history. `record` is the kind of mouse that keeps one record
(Riviera).

*Order.* `mouseRetroParts`: the parts in the code's order, the stage again when
its DPI or a mask changed. A rollback writes back the parts up to the one that
failed, or clears the profile of a mouse that had none; it leaves a macro alone
that no button played before (`mouse.go:1191-1196`), so the mouse then holds,
unseen, a macro it did not hold: reads are compared, not contents.

*What the properties exclude,* because the code does not promise it: the stage
of a mouse that held no profile, which is neither read before nor always sent
(`Comparable`); of a backup, a stage that is none of the six, and a macro
without records, which are left out and the rest reported as restored
(`NoStage`, `NoMacro`); of a rollback, such a macro; the DPI of a stage that was
acknowledged and ignored (`missed`).

### DeviceSession

*State.* The locals of `sendRow` (`cmd`, `attempt`, `raw`...), the handle
(`timed`, `abandoned`, `inbox`), the device (`requests`, `rest`, `value`), and
what the caller knows (`frame`, the reply it got; `claim`, the value whose write
was acknowledged last; `verified`, that reading back returned it).

*The device* obeys its requests in order, each at any later time or never, and
answers or does not; some replies take two reports; it may send reports nobody
asked for. A full queue of reports drops what arrives.

*A reply* is recognised by its length and its first bytes only
(`ValidateResponse`). `Answers[c]` is how a reply to `c` begins, which several
commands share, and `Accepts[c]` what the code takes for one, which may be more;
`Suffices[c]` says which reports are long enough for `c` by themselves. A stray
report, and the second of two, begins in a way of its own (`Unasked`). Most
commands accept no such report: GetPid, the modes and versions, the records and
the mice are told by their first two to four bytes. Idle, GetSuperButton,
ReadProfile, WriteProfile, SetModeDInput and the generic firmware commands
accept every report of two bytes that begins 02 (`validation.go:356-360`,
`375-376`), so that such a report may be taken for the reply to a command that
was never late. Its own reply then answers the next command, and so on; the
history variable `guessed` says that such a command was sent where such a report
may come. The bootloader's commands would accept any two bytes
(`validation.go:361-362`), but the registry expects no response of them, so that
`sendRow` returns before it reads: they are `Mute`.

*The handle* is of one of two kinds. One that can time out its own read (hidraw)
is drained before every request, report by report, while others arrive. One that
cannot (macOS, Windows) is not drained, and every read that times out leaves a
goroutine behind that takes the next report (`Abandon`, `Swallow`).

*Left out.* `lastExecution` and the trace (a write that fails and a back-off
that is cancelled return without recording one, `session_transport.go:27`, so
DiagProbe and `session.go:338-342` report the command before); replies in three
reports, so the limit of three chunks is never met, and whether the second
report of a split reply is the right one, which the code does not check either;
errors while draining, which end the drain as a quiet handle does.

### CommandGate

*State.* The settings of the user (`settings`: advanced mode, the risk
acknowledged, the device's unlock file), which may change at any time; the
operation under way (`device`, `config`, `phase`, `todo`), what it has `sent`
and what was `refused`; of the map of backups the one that is followed
(`backup`: of which device, made behind the ceremony or not), which is any of
those made. There is no state in the gate itself: `Allowed` is
`ensureCommandAllowed`, and `CommandRegistry`, `Capability`, `FullSupportPath`,
`AllowedForDevice`, `AllowedForCandidate` are its tables and conditions.

*Commands* that the registry and every condition treat alike are one: the five
questions any device may be asked are `GetPid`, the writes of a controller's
record `U2Write`. The registry has rows (`registry_generated.go:199-234`)
that repeat a generic command; `FindCommand` returns the first, so they are not
in the model. Devices are product ids, one of every way they are told apart.

*Operations* are sequences of commands with the places where they turn back:
diagnosing (goes on), reading a profile, asking the product behind the shared id,
an apply (read, write, undo), the dedicated mapping with a backup and without,
clearing a profile, the restore of a backup (read, replay), the candidate probe,
a firmware update (enter, transfer, leave, verify, recover). They are all the
functions of `internal/core` that open a session. Each has the gate of its own
and the session configuration it asks for (`OpsConfig`, `PadConfig`, `Unlocked`).
The applies of record keyboards and mice are not called by the interface, and
firmware updates are switched off in the released build. Conditions are read
when the operation begins; what is turned off later no longer matters to it.

*RestoreBackup* opens an unlocked session for a record keyboard or a mouse in
advanced mode, without the ceremony an apply needs. A backup of such a device
exists only if an apply made it, so the ceremony was complete then, but perhaps
not now. The model lets the settings change in between. It sends a restore's
writes also where nothing differs and the code would send none, and lets a
keyboard's backup be of either kind, a profile or a table of keys.

### DeviceListing

*State.* `products` and `diags` are the two caches; `loads` and `probes` the
goroutines that run ListDevices and DiagProbeCached, each with its place between
two lock regions; `listed` is what the interface shows; `known` is the poller's
last enumeration. A unit is a physical device with its interfaces; a site is
what is plugged in or at hand, and the system the program runs on, which differ
in how an interface is chosen (`Selectable`).

*What the program cannot notice* is recorded as a lapse, and `ListingIsTrue`
speaks of states without one: an answer stored (`storedLate`) or a list shown
(`shownLate`) by a reload that began before a rescan, and a change the poller
cannot see (`unnoticed`): a unit swapped for one of the same product id and
serial number, or gone and back within one interval. The first two are
behaviours of the code: `ForgetSharedProducts` does not reach a reload in flight
(`core.go:487`), and reloads are shown in the order they end.

*Also true of the code, not of the model:* a diagnosis that succeeded is never
forgotten, even when the device is replaced; a profile write does not ask again
which product answers (`pad.go:601-627`); a device that did not answer is cached
as no product until the next rescan.

### NavInput

*State.* `streams` counts the goroutines reading each pad; `known` and `tick`
are the poller's last enumeration and the work of a tick; `events` is the
channel, of size one here and 64 in the code; `notes`, `asked`, `loads`, `list`
are the interface's side. On macOS `machid.Open` finds a device by its ids, so
a handle may reach another pad of the product (`byMatch`). On Linux it is opened
by its `/dev/hidraw` path, which a pad plugged in since the enumeration
(`tick.fresh`) may have taken from one that went: it is then read under the other
one's product id.

*A stream ends* when its pad is pulled out, when a read fails, or when decoding a
report panics and the recovery drops it (`navstream.go:292-325`). In the last two
cases the pad stays plugged in, nothing opens it again before it is pulled out,
and the note keeps saying "active". `broken` remembers these pads.

*Start* enumerates and then opens, before there is a poller: the initial states
are those in which pads may have come and gone in that window.

*Lapses* that excuse the program: an event dropped for a full channel, a pad
that came and went between two enumerations, an enumeration that overlooked one
(a second stream is then opened when it is seen again), a list that overtook a
later one, an enumeration that failed, a path that another pad had taken
(`reused`, which excuses streams and notes, but not the list). A stream that
ended under its pad is no lapse: `ScreenSettles` says what the notes are worth
then. An interface that could not be opened is not tried again. Identical
controllers without serial numbers share one key, and `replacePIDNote` keeps one
note per product id: the properties speak of notes only where a product id is
one pad's (`Alone`).

*Left out.* A panic in the poller ends it, though the comment of
`navstream.go:268-271` speaks of going on; on macOS a read does not fail when
the pad is unplugged, so its goroutine stays. Parsing descriptors and reports.

### Shell

*State.* `model` is the Model that `Update` reads and returns; `cmds` are the
commands in flight, which run on goroutines (`Run`) and whose answers `Update`
takes later (`Deliver`), in any order. `cache`, `attached`, `content` are the
world the commands meet; `uncertain` are devices a failed rollback left in no
known state; `flash` the firmware sessions started; `astray` the lapses below.
The list's order is the constant `Arranged`, from what was found to the list
that shows it (`sortDevicesByTier`); all that is asked of it is that it shows
what was found.

*Handlers* are operators on a model that return the next model and the commands
to issue, as in Bubble Tea. A device's configuration is one value, an edit
another. A visit is one way of using the program: which devices, what the user
does, how many commands may be in flight when the next one is started.

*Lapses.* The interface loses track in ways that can be named; each names a
sequence of steps, and each property excludes exactly those that defeat it:

| Lapse | What happens | Where |
|---|---|---|
| `editedWhileWriting` | the draft of the moment is taken for what was written | `screen_mapping.go:94` |
| `openedInFlight` | a profile carries no device: the one read for the last editor is shown in the next | `screen_keyboard.go:210` |
| `eraseFailed` | an erase that fails half way leaves what was loaded on screen | `screen_keyboard.go:228-231` |
| `resultDropped` | the result of a keyboard write arrives on another screen and is dropped, a failed rollback included | `screen_mapping.go:68-79` |
| `lostUnderSettings` | the device goes while Settings covers its tab, which then shows another | `app.go:716-721` |
| `discardedForSettings` | discarding for Settings leaves an empty editor behind | `shell.go:383-421` |
| `coveredWhileLoading` | Settings opened while a profile is read: the answer is dropped and the editor waits | `screen_mapping.go:68-79` |
| `checkedInFlight` | the checks of another device are opened while a diagnosis is due, whose result is then shown for the device selected now | `screen_diagnostics.go:53` |
| `begunInFlight` | an update of another device is begun while a firmware command is due: its screen takes the answers of the first | `screen_firmware.go:41` |
| `dialogBeforeLock` | a dialog opened before the lock starts its write after it | `app.go:164-166` |
| `lockedTwice` | a second failed rollback replaces the backup offered | `screen_mapping.go:114-125` |

*Left out.* The device filter, text fields, pickers, the macro editor, profile
files, notices, reports, mouse geometry, rendering. Also seen: choosing the tab
or the device that is already shown on Mapping opens it again and loses the
draft (`shell.go:381-384`); the device a discard dialog will go to is an index
that a reload may shift; a discard confirmed under the lock shows the devices
until the next message.

## 3. Runs

| Run | Instance | What it shows |
|---|---|---|
| `firmware_session` | 1 starter, 2 confirmers, 2 cancellers, 1 subscriber with a buffer of 4, 2 images, 2 chunks, 2 entry commands | The safety of a session: `ReportIsTrue`, `OnlyPlannedBytes`, `CancelStopsTransfer`, `SubscriberIsTold`, `ReportIsFinal`. |
| `firmware_liveness` | 1 confirmer, 1 canceller, 2 chunks | `TransferEnds`; `ImplementsUpdate`, with liveness. |
| `keyboard_write` | 2 keys, 2 macro keys, 1 macro slot, every request of one or two settings, 2 calls | `AppliedIsHeld`, `OthersUntouched`, `CallEnds`, and `ImplementsPromise`. |
| `record_keyboard` | 2 keys, 2 slots, three profiles, every request of one part or two, 2 calls | `KeepsPromise`. |
| `pad_write` | 2 platforms, 2 slots, 3 places for macros, 8 requests that cover every kind of edit, 2 calls, both kinds of model | `KeepsPromise`, `HeadersAfterSteps` included. |
| `mouse_write` | 2 buttons, 2 stages, 4 profiles, 9 requests, 3 calls, both kinds of mouse | `KeepsPromise`, `StageFollows`. |
| `device_session` | 3 calls with a two-report read, a mute command and stray reports on both kinds of handle; 5 calls of one read and one write with two values; 3 calls of Idle and a write with stray reports and without; 2 of Idle and a two-report read | `NothingStaleAnswers`, `WrittenOnce`, `OwnReply`, `VerifiedIsHeld`, `CommandEnds`. |
| `command_gate` | 19 products, every operation, every setting, any change of them meanwhile; the backups of 4 products | `UnconfirmedIsReadOnly`, `OwnCommandsOnly`, `ListedIsAllOrNothing`. |
| `device_listing` | 5 sites with 2 units, 2 or 3 events, 2 reloads at once | `ListingIsTrue`, `EveryRowIsProbed`. |
| `nav_input` | 2 pads in 4 constellations, 2 events (a stream lost is one), a channel of one | `ScreenSettles`, `PadIsHeard`. |
| `shell` | 11 visits of one or two devices, one or two commands beside the next step | `ScreenIsTrue`, `LockHolds`, `EditorSettles`. |
| `shell_lock` | as `shell` | Expected to fail: `WritesStayOff`; see section 5. |

Every run but the last passes; each checks the type invariant of its module as
well, except `firmware_liveness`. They have between 24,000 and 1.1 million
distinct states.

**Why the bounds are enough.** Two of each caller are what a race needs; a third
confirmer or canceller repeats the position of one of the two. Two chunks give a
first one, a last one and a check between them; two entry commands give a device
that entered half way. The constraint `SubscriberAlone` keeps the second
confirmer and canceller out of the behaviours with a subscriber, an overwritten
file or a simulated device, and lets the events of StartFirmware and
CancelFirmware be late together only before the first chunk or at the end: the
races are checked beside each other and not multiplied. The buffer of four is
the smallest that holds the last event and one from every caller that may still
publish (`CapacityAssumption`); the code's 128 holds many more than the calls
that publish behind the end. Two keys and two macro keys give an order within
each kind, one macro slot the full table, two calls a restore or a second write
on what the first one left. Two macro slots and two keys are what it takes for a
macro to change hands or to be played twice; two macros in one slot of a
controller and one in another give an order of steps within a commit and across
two commits; a second platform is what the switch can move to, and a third would
be like it. Two buttons let one macro be skipped and another written. Three
commands are the least with which a late reply can pass over a command in
between; drained and queued reports are bounded alike (2 and 2, where the code
has 64 and the kernel's ring 64). With five commands a weaker validation of
replies would deceive the read-back, which `VerifiedIsHeld` rules out. The 19
products are one of each way the registry, the capability tables and the
conditions tell products apart; the operations run one after another, so one of
each is enough. Backups are followed of one product of each kind that has its
own way to restore (`Followed`: a controller, a JP108 keyboard, a record
keyboard, a mouse), all but one of them candidates. Idle, a read, stands for the
commands that take almost any report; its sessions have a call before it or
after it, to be answered by what it left. Two controllers are what it takes to
be taken for each other, and the sites are the ways the code tells controllers
apart: serial numbers, order, interfaces, systems. A channel of one is full
after one event. A path is reused in the runs while the program starts; in a
tick of the poller it takes one event more than the bound, and is left to the
theorem. The visits of the shell are the pairs of devices and activities whose
answers could be confused; two commands in flight let answers overtake each
other.

**Properties.** `ReportIsTrue`, `OnlyPlannedBytes`, `CancelStopsTransfer`,
`ReportIsFinal` say what a report of a firmware session is worth: who reads a
terminal state finds the one report that goes with it, success means every
planned byte, the commit and the way out of the bootloader, and "cancelled"
never describes a device left in it. `SubscriberIsTold` is what the screen
relies on: the last event is never lost, and it stops listening only there.
`AppliedIsHeld`, `RollbackPutsBack` and `RestoreIsComplete` relate what the
caller is told to what the device holds, whatever failed on the way;
`BackupFirst` and `OthersUntouched` hold at every moment of a call. For the
keyboard they are the refinement of `RecoverableWrite`; the other write modules
have them as the conjuncts of `KeepsPromise`, and those of the record keyboard
and the mouse come to that refinement as well, by theorem. `HeadersAfterSteps`
is the order the comment of `pad.go:796` asks for, stated of macros that were
not there before the call, in every pass. One exception is part of the
statement: a macro that a rollback left damaged is backed up as damaged by the
next call, and a restore of that backup puts it back as it was, header and all.
`NothingStaleAnswers` is what draining is for, and `OwnReply` what a session may
take for granted until the first timeout or the first command that takes almost
any report for its reply: after SetModeDInput, say, in a session where
everything was answered at once, the next mode read may still return the reply
of another command. `VerifiedIsHeld` justifies the read-back: even when the
acknowledgement is a late reply to an earlier write and the read-back one to an
earlier read, they agree with the device, as long as at most one earlier command
failed. It is said, and proved, of devices where no read is answered with the
first bytes of a write's acknowledgement, as in the instance. Where one is, one
failed read is enough to be deceived (TLC finds it with five commands and all
replies alike: the late replies of the retried read acknowledge two writes the
device has not handled yet and then answer the read-back); nor is it said of
SetModeDInput and WriteProfile, which take any report beginning 02 for their
acknowledgement. With two failed commands it can happen anywhere. So the
read-back of a session that has already failed proves less than it seems to.
`UnconfirmedIsReadOnly` looks at what was on when the operation passed its gate
and at every command it has sent since; of a restore it says that the backup is
of the device and was made behind the ceremony, and that advanced mode was on.
`ListedIsAllOrNothing` is the strongest statement that holds of refusals in the
middle of an operation; section 5 says which devices the registry does not list.
`ScreenSettles`, `ListingIsTrue`, `ScreenIsTrue` and `LockHolds` compare what
the user sees with the world, in the states that no named lapse explains.

**Fairness.** `FirmwareSession`: goroutines that can run do (the broadcaster's
steps, the transfer, a canceller that waits, a subscriber that has an event);
every device command ends because its transport call times out; nobody has to
make a call, unplug or overwrite anything. `KeyboardWrite` and `DeviceSession`:
the steps of the call under way; the device may stay silent for ever, and no
fairness is asked of it. `NavInput` and `DeviceListing`: the ticker ticks, the
goroutines of a reload or a diagnosis run, the loop takes events; nobody has to
plug in, press or rescan. `Shell`: the editor's commands end and their answers
are taken, and so with the others; the user owes nothing. The other modules are
checked for safety only: that a call ends is the same argument in all write
modules and is checked in `KeyboardWrite`. `CHECK_DEADLOCK FALSE` stands where a
bounded number of calls or events is over and the program waits for its user.

## 4. Proofs

Eight modules prove what the runs check on small instances, for every value of
the constants: any sets of callers, devices, keys, values, requests and
profiles, any number of calls, chunks and events, any size of a buffer, within
the named assumptions of the modules. TLC evaluates those in every run. The type
invariants, the state invariants and the action properties that the runs check
are all theorems; what is not proved is listed at the end of this section.

The proofs have one layout. A temporal theorem rests on `Init => IInv` and on
the preservation of `IInv`, which has a lemma for each group of actions, one
step per action and under it one per conjunct the action can disturb. The
helpers that build a record, a profile or a queue have lemmas of their own.

### FirmwareSession

Assumptions: the kinds of callers are disjoint (`CallersAssumption`), there is a
chunk and an entry command (`TransferAssumption`), and a buffer holds more events
than there are goroutines that may publish behind the end of a transfer
(`CapacityAssumption`; the code's buffer has 128).

* `TypeCorrect`. `TypeOK` alone is not inductive: `Finalize` copies the verdict
  of the transfer into the report, so the proof carries `VerdictReady`, that a
  transfer about to finalize has set its verdict.
* `OneReport`: `[](ReportMatchesState /\ OneTransfer) /\ ReportIsFinal`.
  `ControlInv` ties the state to the transfers at work (at most one, exactly
  while `Running`) and the report to the terminal states. Each action that sets
  a report needs a state in which, by the invariant, there is none.
* `DeviceIsAsReported`: `[]ReportIsTrue`. A report speaks of
  a device that only the goroutine of the transfer has touched, so the invariant
  says what that goroutine knows of the device at each place it can stand
  (`Progress`): how many chunks it holds, of which image, in which mode. Until
  there is a transfer nothing has been written (`BeforeIsClean`).
* `OnlyThePlan`: `[]OnlyPlannedBytes`, from the same invariant: the image is read
  once, compared with the one that was confirmed, and every chunk is taken from
  what was read, so that a file overwritten at any moment changes no byte sent.
* `CancelIsObeyed`: `[]CancelStopsTransfer`, from `CancelInv`: once the request is
  made it stays set, and compared with the chunks the device held at that moment
  a transfer about to send has sent none since, and one about to commit had one
  left at most.
* `EndIsTold`: `[]SubscriberIsTold`. Events of one transfer are published in turn
  (`PublisherInv`) and stand in each queue in the order of their numbers
  (`QueueInv`). `KeptInv` is the heart of it: once a subscriber's buffer got the
  end, it was read, or it is still there with at most as many events behind it as
  callers that have published theirs, or its publisher is making room for it. An
  eviction takes the oldest event of a full buffer, which by `CapacityAssumption`
  is not the end.
* `SessionIsUpdate`: `Update!Init /\ [][Update!Next]_(Update!vars)`, the safety part
  of the refinement of `FirmwareUpdate` that `firmware_liveness` checks. A step
  maps to one of the abstract steps or to a stutter; `AskInv` adds that only a
  session somebody asked to cancel is cancelled, and that a call which returned
  has an answer.

### The write modules

`KeyboardWriteProofs`, `RecordKeyboardWriteProofs`, `PadWriteProofs` and
`MouseWriteProofs` follow one argument. `AppliedIsHeld`, `RollbackPutsBack` and
`RestoreIsComplete` speak of the end of a call only; what carries them there is
an invariant of the pass: *what a pass has written and read back is held, what it
does not write is as before the call, and what it writes is what the call asked
or what undoes it.* Each device adds why that is enough.

* **Keyboard.** `PassInv` is `WrittenHeld`, `OthersHeld`, `GoalInv` and `NamesInv`:
  a pass that names the profile does so before anything else and writes all that
  was mapped. That is why a rename which empties the profile loses nothing. The
  default name written on the way is harmless because a keyboard without a name
  has nothing mapped (`NamedHeld`). `BackupPrecedesChange` says that before the
  first change what the keyboard held is among the backups, and no call removes
  one; `OthersStay` that without a rename nobody else's setting moves at any
  moment, the volume the rollback does not restore included.
  `KeyboardKeepsPromise` is `Spec => ImplementsPromise`: the steps inside a call
  change nothing its caller sees; each that ends one is a step of
  `RecoverableWrite`, by the outcomes and by `KeptInv`, that the profile from
  before the call, or the one being restored, is a backup.
* **Record keyboard.** `PromiseKept` is `[]KeepsPromise`. `WhatInv` says what a call
  writes, `OthersHeld` makes the one exception the code makes, macros that no key
  played and that a read does not show. `WrittenHeld` says that the sections, which
  go out with one record, are held from then on, and each of the other parts from
  its own read-back; `PlaceInv` which part the step at hand is about.
* **Controller.** `PromiseKept` includes `BackupFirst` and `HeadersAfterSteps`.
  `FormInv` says what a read makes of a profile (no header without steps, nothing
  under an empty header); `PassInv` what is done of the pass (`StepsDone`,
  `SpansDone`, `LightDone`) and that the record waits for the steps unless this is
  a rollback (`RecordWaits`). `HeaderUp` and `LastingInv` carry the order of headers
  and steps across commits. The assumption is that a controller nobody has
  written to yet has steps under every header, and one light effect.
* **Mouse.** `PromiseKept` and `StageIsFitted` (`[]StageFollows`). `GoalHeld` is the
  pass of a mouse with a command per setting, `WhatInv` that of a mouse with a
  record, and what it could not put back is named part by part (`NoMacro`,
  `NoStage`); `StageInv` says that the stage in use and its DPI are those found
  (`StageFound`) or have been sent and taken. Clearing a profile needs that the
  defaults enable the stage they name (`ProfilesAssumption`), as the table of
  `mouse.go:308-318` does.

`RecordKeepsPromise` and `MouseKeepsPromise` are `Spec => ImplementsPromise` for
the other two, about the parts without exceptions (`Promised`): of a record
keyboard all but the macros, of a mouse the name, the settings, both axes and
the assignments. The profile in the mapping is what a read shows, and the
request is the whole profile to establish. These calls may begin and end in one
step, an edit that changes nothing (`Agree`) and the restore of a mouse that
holds no profile either way. A controller's write implements no such promise: a
call that finds steps staged completes an earlier one (`dirty`), and its profile
is one of several platforms that the switch chooses between.

The assumptions are that ids are numbers, that the values with a meaning of their
own are distinct values, that requests and first profiles are profiles
(`ValuesAssumption`, `ProfilesAssumption`), for the keyboard also that a request
names no invalid volume, which the code refuses first (`RequestsAssumption`),
and that calls are counted (`CallsAssumption`). The orders in which settings are
written need that a non-empty set of numbers has a smallest element, from the
well-foundedness of `<`.

### DeviceSession

Assumptions: the kinds of commands, that a command takes its own reply for one and
a reply in one report is long enough, while the first of two is not
(`CommandsAssumption`), and the limits as numbers (`LimitsAssumption`).

* `TypeCorrect`. The number of readers a timed-out call leaves behind is bounded
  only by the calls made: `CallInv` has at most `MaxAttempts` for each.
* `WriteGoesOutOnce`: `[]WrittenOnce`, from `CallInv`: where a write may still
  go out it has not gone out yet, and only a read goes back from waiting to
  sending.
* `AnswersAreFresh`: `[]NothingStaleAnswers`. `FreshInv`: the reports queued
  when the drain began are the first of the queue, and the drain cannot reach
  its limit before it has discarded them, which is where the statement needs
  that the queue is no longer than what is drained. The code's 64 and the ring's
  64 meet it with nothing to spare.
* `ReplyIsOwn`: `[]OwnReply`. `FlightInv` says that what is on its way belongs
  to a call already made; `QuietInv` that as long as every command was answered
  at once one answer at most is on its way, as a request, as a report or as the
  first part of a reply. It holds until a command is sent that may take a report
  which begins no reply (`guessed`): that is where an answer can be left behind.
* `ReadBackIsHeld`: `[]VerifiedIsHeld`, for any limits and any number of
  commands, of devices where no read is answered with what a write accepts for
  its acknowledgement, and no write accepts a report that begins no reply
  (`AcknowledgedApart`). `HeldInv` says what is on its way of the writes. While
  none awaits its acknowledgement it is the last one's request or its
  acknowledgement, if a command has failed (`RestingInv`); while one does, at
  most its own and, ahead of it, that of the write before (`WritingInv`).
  Reports keep the order of their requests, so what a read reported behind an
  acknowledgement is what the device holds (`UpToDate`), and either the device
  holds what was claimed or no report on its way could pass for it. The
  hypothesis holds of the keyboards with the 52 and 54 reports (54 E4 08
  acknowledges, 54 8x answers a read). It does not hold of the controllers
  (every answer begins 02 04), the mice (06) and the record keyboards (02 04
  03): there the statement is false once a command has failed, see section 3.

### CommandGate

Assumptions: every device has a tier (`TierAssumption`), and the absence of a device
is none (`NoDeviceAssumption`). `GateInv` says of every
command sent that it was allowed and of every one refused that it was not, under
the operation's one device and configuration; that a session with the unlock was
opened with every setting on or is that of a restore; that a backup of a candidate
which only an unlocked session can change was made with every setting on, because
no other apply of such a device gets as far as its backup; and that the writes an
operation may still send are each allowed to a device the registry lists, or
there is but one. From it follow `OnlyTheConfirmedChange`, `KindsKeepApart` and
`AllOrNothing`. The registry and the capability tables are the code's own; the
proof goes through their rows.

### DeviceListing

Assumption: `ListingAssumption`: finitely many units, each with an interface and,
at every site, a path of its own; and the absence of a product has no alias.

`ListingTypeCorrect` needs `SharedInv`, that only a reload with a row under the
shared id looks one up. `ListingTrue` is `[]ListingIsTrue`, which speaks of quiet
states only; `TruthInv` says what holds on the way there, as long as the poller
has missed nothing (`Calm`): an answer that is remembered is what a unit says
of itself that would be opened now (`Remembered`), unless one was stored late; a
reload that began after the last rescan carries the rows of what is plugged in,
and shows them with the right product (`LoadsSound`); and there is such a reload,
or the list is true already (`Renewed`). The lemma `RowsAreTrue` is about a single
enumeration: the row and the interface that is opened for it are chosen by two
pieces of code, and they agree because of the interfaces of a product one is
preferred to all others, on either system. That needs the well-foundedness of `<`.

### NavInput

Assumptions: finitely many pads (`PadsAssumption`), labels for all of them
(`MachineAssumption`), room for an event (`ChannelAssumption`).

`ScreenIsSettled` is `[]ScreenSettles`, which speaks of states in which nothing is
under way. The invariant has to speak of the others: `ListInv` says that the list
on the screen is one of the newest, or that another is on its way; `WordInv`
what the notes *will* say once every queued event is handled (`Told`), and that no
event says "unavailable" of a product that was said to be active (`InTurn`);
`StreamInv` that no pad is read by two streams, and one whose key is not connected
by none, wherever the machine can tell the pads apart. `ListInv` rests on no handle
and holds also where a path was reused; what the notes will say is compared with
the streams there are and those that were lost (`broken`).

### Shell

Assumption: `ShellAssumption`: the kinds of devices, and that the list shows what
was found, in any order. Nothing is asked of the number of devices, or of how
many commands are in flight beyond the three of a visit.

`ShellInv` is inductive: the types and seven parts, each about the messages that
are still to come.

* `ShellTypeCorrect`. `FormInv` says what the handlers rely on without asking: the
  cursor is on the list, the checks that show name a device, a profile that was
  read is never emptied again, a lock that offers a backup has one; and of each
  command how it may end and what its answer then carries.
* `ScreenTrue` is `[]ScreenIsTrue`, conjunct by conjunct:
  `ImageIsOwn` by `FirmwareInv`: every firmware command carries the image of its
  own device, and a download that is due is the one of the device on the screen,
  since nothing else starts one there unless `begunInFlight`.
  `ResultIsOwn` by `ChecksInv`, the same of a diagnosis.
  `TabShowsSelected` by `TabInv`, which speaks also of the tab that Settings
  covers and returns to (`Shows`); a list that arrives meanwhile keeps the
  selection, moves to the list of devices, or is `lostUnderSettings`.
  `EditorIsTrue` by `EditorInv`, the longest: at most one command is for the
  editor, about its device and of its kind; until it ends the editor waits for it,
  and what is loaded, or what was asked to be written, is what the device holds
  or will hold (`Expected`); with none the device holds what is loaded
  (`Known`). `RestoreInv` is needed beside it because a restore writes behind the
  editor's back, which is sound only because it is possible only on the Recovery
  screen, where the editor does not show. `NamedInv` says that an editor that shows
  has a device.

* `LockKept` is `LockHolds`: `[]` of `UncertainIsLocked` and `RestoreIsTrue`,
  and the action property `NoWriteStarts`. `LockInv` is inductive beside
  `ShellInv`: `DialogsInv` says that under the lock no dialog of a write is
  open, or that one was when it tripped. That is what keeps a write from
  starting, since such a dialog is the only thing that takes a key before
  Recovery does. `RestoreIsTrue` is about a backup named by an answer long
  taken, so that `BackedInv` has to say that nothing else can reach its device
  any more: no write of the editor's is left to end once the lock has a backup,
  and every restore in flight is of that backup. This rests on `InTurnInv`, that
  at most one write of the editor's is in flight, also after the editor that
  began it is gone (`OneWrite`), and that an editor with a command in flight
  waits for it and asks nothing (`EditorAlone`). It holds unless
  `openedInFlight`: an editor that is opened again does not know of what the one
  before it began.

The handlers have lemmas that say which fields of the model each may change and
which commands it may start (`Alike`, `Issuable`), so that a part of the invariant
is disturbed by few of them; `Steps` lists every step in that form. That the
answer which is taken is removed from the commands and the others keep their
order is proved of `RemoveAt` once.

### What the proofs found

An invariant that would not go through was, six times, a flaw of the model or of
a statement, which the small instances had not shown:

* a rollback of `PadWrite` could not put back steps that had been damaged before
  the call; the code restores whatever bytes it read;
* `HeadersAfterSteps` was false of a restore of a backup made of such a controller;
* `StageFollows` needed the defaults of a mouse to be coherent, which the code's
  table is and nothing had said;
* the bound on the streams in `NavInput` was an accident of the instances, not an
  invariant;
* `RollbackPutsBack` and `RestoreIsComplete` of a mouse said nothing at all of a
  profile with one part that cannot be written; they now except that part, and a
  stage there is none of is no exception of a rollback;
* two lapses of `Shell` (`checkedInFlight`, `begunInFlight`) excused more than goes
  wrong: any second diagnosis or update, where only one about another device
  confuses the screen. The type invariant, which had said nothing of the dialog,
  the lock or the commands' answers, now says it.

### Only model-checked

* **Liveness**, and the fairness part of `ImplementsUpdate`: `TransferEnds`,
  `CallEnds`, `CommandEnds`, `PadIsHeard`, `EveryRowIsProbed`, `EditorSettles`.
  Fairness is about ENABLED, which the prover does not treat.

## 5. Disagreements between code and comments

`shell_lock` finds one with a run of its own: Recovery tells the user that
"every other write is disabled until you restart OpenBitdo"
(`screen_recovery.go:36`), but a dialog that was open when the lock tripped
takes the keys first (`app.go:164-166`), and neither `firmwareBeginMsg`,
`candidateProbeBeginMsg` nor `eraseKeyboardMsg` looks at the lock.

Met while modelling; the models behave as the code does, and the properties are
stated of what remains:

* A rollback reported as done can leave the profile name it wrote: `undoOf`
  leaves a name out when the keyboard had none (`keyboard.go:329`), against "Put
  back exactly the settings this call touched." (`keyboard.go:288`).
* "No macro has been written to a real keyboard yet, so real macro writes stay
  behind advanced mode." (`keyboard.go:224-225`), but a rename adds every stored
  macro after that gate (`keyboard.go:271-279`).
* A mouse or a record keyboard is "only written once the caller has been through
  the write-unlock ceremony" (`mouse.go:992-994`, `kbrecord.go:807-811`), and
  the repository's README (line 69) requires advanced mode, the acknowledgement
  and the unlock file of such a write; RestoreBackup asks for advanced mode
  alone (`mouse.go:1004`, `1207`, `kbrecord.go:821`, `1006`), so a candidate is
  also written after the other two were withdrawn.
* A stream dropped for a decode panic, "a real possibility" by the comment of
  `navstream.go:293-303`, or for a failed read leaves its note at "active".
* "only one key can play a macro" (`kbrecord.go:1225-1229`) is asked after slots
  whose macro is unchanged have been skipped, so a second key later in the table
  is accepted.
* "Steps go first: a header must never describe steps that are not there."
  (`pad.go:796`), but the rollback of a removal commits the header and then
  erases and rewrites the steps under it (`pad.go:813-821`). Hence the
  restriction of `HeadersAfterSteps` to macros that were not there before.
* An event may be evicted from a buffer that has room again
  (`broadcaster.go:38`); a reply that arrives after the drain answers the next
  command (`session_transport.go:25`); the rollback of "this macro away, that
  one added" is refused when all slots are in use (`jp108_macro.go:162`); a key
  that played an empty slot plays, after a rollback, what the failed pass left
  there (`kbrecord.go:948`).

Commands that are refused although the operation is offered, which
`ListedIsAllOrNothing` leaves room for because the registry does not list the
device:

* 6009, a firmware update: EnterBootloader is sent, FirmwareChunk and
  ExitBootloader are refused (`transfer_task.go:273-275`), so the controller is
  left in its bootloader; the comment of the preflight speaks of what can be
  known "without sending anything to the device yet" (`firmware.go:152`).
* 520a, keyboard settings: a key is written, the settings are refused, and so is
  the rollback.
* 6011, an apply: refused with a rollback that is refused too, so that writing is
  locked though nothing was written. 600f and 6011, firmware: refused at the
  first command though offered. 5209: the version check after a transfer is
  always refused.
* The candidate probe's "readback verification" only checks that something was
  read (`candidate_probe.go:114-130`).

## 6. Not modelled

Wire formats, simulators, profile files, tables, the command line, the generator
and the packaging keep no state across calls, or none that is not already
represented by what their callers assume of them; their correctness is that of
fixed layouts, which the repository's table tests compare byte by byte.

The HID backends are system calls and cgo callbacks. Of `machid_darwin.go` three
orders of events are known to matter and are in no model: Close against a report
callback or a Write that runs on another thread, and a CFRunLoopStop that
arrives before the loop runs and is lost.

Within the modelled components: Identify and the severities of DiagProbe, the
outcomes of the dedicated mapping write that only tests call, what a device works as
(`deviceRoles`) and its health in words, text fields and rendering.

## 7. Plan

Everything planned is modelled and checked, and what is safety in it is proved.
What is left is to take in more of the code:

1. An abstract promise for controllers, with a profile per platform and calls that
   complete an earlier one, which `PadWrite` would implement.
2. `machid_darwin.go`: its run loop, callbacks and Close as a module of their own,
   beneath `DeviceSession`.
