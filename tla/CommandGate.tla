----------------------------- MODULE CommandGate -----------------------------
(***************************************************************************)
(* Which commands a device is sent: DeviceSession.ensureCommandAllowed     *)
(* (internal/protocol/session_authorization.go, validation.go, registry.go *)
(* and the generated registry) under every operation of internal/core that *)
(* opens a session, each with the gate of its own and the session config   *)
(* it asks for.  A command that is refused is not sent; what the operation *)
(* does then is the same as when one fails.                                *)
(*                                                                         *)
(* The operations that write keep a backup first, which RestoreBackup may  *)
(* replay at any time later, whatever the user has turned off since.       *)
(*                                                                         *)
(* A device is its product id, and a command stands for all those the      *)
(* registry and the gates treat alike: "GetPid" for the five questions any *)
(* device may be asked, "U2Write" for a record's writes, its commit and    *)
(* its macros.  Each operation is the sequence of its commands, with the   *)
(* places where it turns back.                                             *)
(***************************************************************************)
EXTENDS Sequences, SequencesExt

CONSTANTS
    Devices,    \* product ids
    TierOf,     \* the support tier of each
    Followed,   \* the devices whose backups are followed: a bound of the runs
    NoDevice    \* before the first operation

Tiers == {"full", "candidate", "detect_only"}

ASSUME TierAssumption == TierOf \in [Devices -> Tiers]

ASSUME NoDeviceAssumption == NoDevice \notin Devices

-----------------------------------------------------------------------------
(* The registry.                                                           *)

Row(safety, confidence, appliesTo, group) ==
    [safety |-> safety, confidence |-> confidence, appliesTo |-> appliesTo, group |-> group]

Retro == {"5209", "5200"}
Records == {"6012", "6013", "600f", "6009", "600b", "6007", "3106"}
RecordKeyboards == {"2028", "202e", "3026", "3027", "203a", "2049", "205a"}
Mice == {"5205", "5206", "205d"}

Core == {"GetPid", "GetMode", "GetSuperButton", "ReadProfile", "SetModeDInput", "WriteProfile",
    "EnterBootloader", "FirmwareChunk", "FirmwareCommit", "ExitBootloader"}
Jp108Boot == {"Jp108EnterBootloader", "Jp108FirmwareChunk", "Jp108FirmwareCommit", "Jp108ExitBootloader"}
U2Boot == {"U2EnterBootloader", "U2FirmwareChunk", "U2FirmwareCommit", "U2ExitBootloader"}

Boots == {"EnterBootloader", "ExitBootloader", "Jp108EnterBootloader", "Jp108ExitBootloader",
    "U2EnterBootloader", "U2ExitBootloader"}
Flashes == {"FirmwareChunk", "FirmwareCommit", "Jp108FirmwareChunk", "Jp108FirmwareCommit",
    "U2FirmwareChunk", "U2FirmwareCommit"}

GenericRow(c) ==
    Row(IF c \in Boots \cup Flashes THEN "unsafe"
        ELSE IF c \in {"SetModeDInput", "WriteProfile"} THEN "write" ELSE "read",
        IF c \in {"GetPid", "GetMode", "SetModeDInput", "EnterBootloader"} THEN "confirmed" ELSE "inferred",
        {}, "Core")

BootRow(c) ==
    Row("unsafe", "inferred", IF c \in Jp108Boot THEN {"5209", "520a"} ELSE {"6012", "6013"}, "Firmware")

\* A key and the profile's name; the lock options, the volume and the macros.
Jp108Commands == {"Jp108Read", "Jp108WriteKey", "Jp108ReadMacro", "Jp108WriteSetting"}

Jp108Row(c) ==
    Row(IF c \in {"Jp108WriteKey", "Jp108WriteSetting"} THEN "write" ELSE "read",
        IF c \in {"Jp108Read", "Jp108WriteKey"} THEN "confirmed" ELSE "inferred",
        Retro, "JP108Dedicated")

U2Commands == {"U2GetConnected", "U2GetPhysicalMode", "U2Read", "U2Write", "U2GetLightEffect",
    "U2SetLightEffect", "ArcadeGetMode"}

U2Row(c) ==
    Row(IF c \in {"U2Write", "U2SetLightEffect"} THEN "write" ELSE "read",
        IF c = "U2GetConnected" THEN "confirmed" ELSE "inferred",
        IF c \in {"U2Read", "U2Write"} THEN Records
        ELSE IF c \in {"U2GetConnected", "U2GetPhysicalMode"} THEN {"6012", "6013", "600f", "6009"}
        ELSE IF c = "ArcadeGetMode" THEN {"600b"} ELSE {"6012", "6013", "600f"},
        "Ultimate2Core")

RecordCommands == {"KbRecordRead", "KbRecordWrite"}

RecordRow(c) ==
    Row(IF c = "KbRecordWrite" THEN "write" ELSE "read", "inferred", RecordKeyboards, "RecordKeyboard")

\* A mouse's settings are whole questions; its name, buttons, macros and record
\* are read a part at a time.
MouseCommands == {"MouseReadSetting", "MouseReadPart", "MouseWrite", "MouseReceiverLinked",
    "MouseRecordRead", "MouseRecordWrite"}

MouseRow(c) ==
    Row(IF c \in {"MouseWrite", "MouseRecordWrite"} THEN "write" ELSE "read", "inferred",
        IF c \in {"MouseRecordRead", "MouseRecordWrite"} THEN {"205d"}
        ELSE IF c = "MouseReceiverLinked" THEN {"5206"} ELSE {"5205", "5206"},
        "Mouse")

Commands == Core \cup Jp108Boot \cup U2Boot \cup Jp108Commands \cup U2Commands
              \cup RecordCommands \cup MouseCommands

CommandRegistry ==
    [c \in Commands |->
        IF c \in Core THEN GenericRow(c)
        ELSE IF c \in Jp108Boot \cup U2Boot THEN BootRow(c)
        ELSE IF c \in Jp108Commands THEN Jp108Row(c)
        ELSE IF c \in U2Commands THEN U2Row(c)
        ELSE IF c \in RecordCommands THEN RecordRow(c) ELSE MouseRow(c)]

OfGroup(groups) == {c \in Commands : CommandRegistry[c].group \in groups}

RuntimePolicy(row) ==
    IF row.confidence = "confirmed" THEN "enabled"
    ELSE IF row.safety = "read" THEN "experimental" ELSE "blocked"

-----------------------------------------------------------------------------
(* What a device is able to do.                                            *)

StandardCandidates == {"6002", "6003", "3010", "3011", "3012", "3013", "3004", "3019", "3100", "3105",
    "2100", "2101", "901a", "6006", "5203", "5204", "301a", "9028", "3026", "3027"}
JpCandidates == {"5200", "5201", "203a", "2049", "2028", "202e"}
SlotConfigCandidates == {"3105", "301a"}
UltimateBT == {"6007", "3106"}
JpHandshake == JpCandidates \cup {"5209", "520a", "205a"}

Generic == {"mode", "profile", "boot", "firmware"}

\* DefaultCapabilityFor.
CandidateCapability(d) ==
    IF d \in SlotConfigCandidates THEN {"mode", "profile", "u2_slots", "u2_buttons"}
    ELSE IF d \in StandardCandidates
         THEN {"mode", "profile"} \cup (IF d \in RecordKeyboards THEN {"record"} ELSE {})
    ELSE IF d \in RecordKeyboards THEN {"record"} ELSE {"jp108"}

FullCapability(d) ==
    IF d \in {"5209", "520a"} THEN {"boot", "firmware", "jp108"}
    ELSE IF d \in {"6012", "6013", "600f", "6011"} THEN Generic \cup {"u2_slots", "u2_buttons"}
    ELSE (IF d \in JpHandshake THEN {"boot", "firmware"} ELSE Generic)
           \cup (IF d \in {"6009", "600b"} \cup UltimateBT THEN {"u2_slots"} ELSE {})

Capability(d) ==
    IF TierOf[d] = "detect_only" THEN {}
    ELSE IF d \in Mice THEN {"mouse"}
    ELSE IF TierOf[d] = "candidate" /\ d \in StandardCandidates \cup JpCandidates
         THEN CandidateCapability(d)
    ELSE FullCapability(d)

-----------------------------------------------------------------------------
(* The gates.                                                              *)

CommandAppliesToPID(c, d) ==
    LET row == CommandRegistry[c] IN
        \/ row.appliesTo = {}
        \/ d \in row.appliesTo
        \/ row.group = "Ultimate2Core" /\ Capability(d) \cap {"u2_slots", "u2_buttons"} # {}
        \/ row.group = "JP108Dedicated" /\ "jp108" \in Capability(d)
        \/ row.group = "Firmware" /\ Capability(d) \cap {"firmware", "boot"} # {}

\* allowPidScopedFullSupportPath.
FullSupportPathMutant(c, d) ==
    /\ TierOf[d] = "full"
    /\ d \in CommandRegistry[c].appliesTo
    /\ CommandRegistry[c].group \in {"Ultimate2Core", "Firmware"}
FullSupportPath(c, d) ==
    /\ TierOf[d] = "full"
    /\ d \in CommandRegistry[c].appliesTo
    /\ CommandRegistry[c].group \in {"JP108Dedicated", "Ultimate2Core", "Firmware"}

\* isCommandAllowedByCapability.
GrantedBy(capability, c) ==
    \/ c \in {"GetPid", "GetSuperButton"}
    \/ "mode" \in capability /\ c \in {"GetMode", "SetModeDInput"}
    \/ "profile" \in capability /\ c \in {"ReadProfile", "WriteProfile"}
    \/ "boot" \in capability /\ c \in Boots
    \/ "firmware" \in capability /\ c \in Flashes
    \/ "jp108" \in capability /\ c \in OfGroup({"JP108Dedicated"})
    \/ "u2_slots" \in capability /\ c \in OfGroup({"Ultimate2Core"})
    \/ "record" \in capability /\ c \in OfGroup({"RecordKeyboard"})
    \/ "mouse" \in capability /\ c \in OfGroup({"Mouse"})

JpHandshakeDisallowed ==
    {"SetModeDInput", "ReadProfile", "WriteProfile", "FirmwareChunk", "FirmwareCommit"}
      \cup OfGroup({"Ultimate2Core"}) \cup U2Boot

\* isCommandAllowedForDevice, isCommandAllowedByFamily.
AllowedForDeviceMutant(c, d) ==
    IF d \in Mice THEN c \in OfGroup({"Mouse"})
    ELSE IF d \in Retro THEN c \in OfGroup({"JP108Dedicated"}) \cup Jp108Boot
    ELSE d \in JpHandshake => c \notin JpHandshakeDisallowed
AllowedForDevice(c, d) ==
    IF d \in Mice THEN c \in OfGroup({"Mouse"})
    ELSE IF d \in Retro THEN c \in OfGroup({"JP108Dedicated"}) \cup Jp108Boot
    ELSE IF d \in UltimateBT /\ c \in OfGroup({"Ultimate2Core"}) THEN c \in {"U2Read", "U2Write"}
    ELSE d \in JpHandshake => c \notin JpHandshakeDisallowed

\* isCommandAllowedForCandidatePID; of the writes the registry has, only the
\* name of a JP108's profile is not in candidateUnlockableWrites.
AllowedForCandidate(c, d, unlocked) ==
    LET safety == CommandRegistry[c].safety IN
    \/ /\ d \in Mice
       /\ c \in OfGroup({"Mouse"})
       /\ safety = "read" \/ (safety = "write" /\ unlocked)
    \/ /\ d \in StandardCandidates \cup JpCandidates
       /\ \/ safety = "write" /\ unlocked
          \/ c = "GetPid"
          \/ c = "KbRecordRead" /\ d \in RecordKeyboards
          \/ /\ d \in StandardCandidates
             /\ c \in {"GetMode", "ReadProfile", "U2GetConnected", "U2GetPhysicalMode", "U2Read",
                       "U2GetLightEffect", "ArcadeGetMode"}
          \/ d \in JpCandidates /\ c \in {"Jp108Read", "Jp108ReadMacro"}

\* allowCandidateRuntimeWritePath.
CandidateUnlocked(c, d, config) ==
    /\ TierOf[d] = "candidate"
    /\ {"unlock", "experimental"} \subseteq config
    /\ CommandRegistry[c].safety = "write"

\* ensureCommandAllowed.
Allowed(c, d, config) ==
    LET row == CommandRegistry[c]
        policy == RuntimePolicy(row)
        unlocked == CandidateUnlocked(c, d, config)
    IN
    /\ policy = "experimental" => ("experimental" \in config \/ FullSupportPath(c, d))
    /\ policy = "blocked" => (FullSupportPath(c, d) \/ unlocked)
    /\ AllowedForDevice(c, d)
    /\ GrantedBy(Capability(d), c)
    /\ CommandAppliesToPID(c, d)
    /\ TierOf[d] = "candidate" => AllowedForCandidate(c, d, unlocked)
    /\ row.safety = "unsafe" => (TierOf[d] = "full" /\ "unsafe" \in config)
    /\ row.safety = "write" => (TierOf[d] = "full" \/ unlocked)

-----------------------------------------------------------------------------
(* The operations.                                                         *)

Settings == {"advanced", "acknowledged", "unlock_file"}

\* "unsafe" is AllowUnsafe and BrickRiskAck, which are always asked for
\* together; "unlock" is CandidateWriteUnlock.
SessionConfigs == SUBSET {"unsafe", "experimental", "unlock"}

VARIABLES
    settings,   \* what the user has turned on, the device's unlock file included
    granted,    \* what was on when the operation's gate was passed
    device,
    config,     \* of the operation's session
    phase,
    todo,       \* the commands left of the phase
    changes,    \* the writes of an apply
    sent,
    refused,    \* by ensureCommandAllowed, in this operation
    backup      \* the one that is followed, of those in the map of backups

vars == <<settings, granted, device, config, phase, todo, changes, sent, refused, backup>>

Lit == {"6012", "6013", "600f", "6011"}

\* padSession and the record.
PadRecordReads(d) ==
    (IF d \in {"6012", "6013"} THEN <<"U2GetConnected">> ELSE <<>>)
      \o <<"U2Read">>
      \o (IF d = "600b" THEN <<"ArcadeGetMode">>
          ELSE IF d \in {"600f", "6011"} \cup UltimateBT THEN <<>> ELSE <<"U2GetPhysicalMode">>)

\* padSession and readPadProfile.
PadReads(d) ==
    PadRecordReads(d) \o (IF d \in Lit THEN <<"U2GetLightEffect">> ELSE <<>>)

\* readKeyboardProfile; a macro is held or not.
KeyboardReads(held) == <<"Jp108Read">> \o (IF held THEN <<"Jp108ReadMacro">> ELSE <<>>)

\* readMouseProfile, behind the receiver's question.
MouseReads(d) ==
    IF d = "205d" THEN <<"MouseRecordRead">>
    ELSE (IF d = "5206" THEN <<"MouseReceiverLinked">> ELSE <<>>) \o <<"MouseReadSetting", "MouseReadPart">>

MouseWrites(d) == <<IF d = "205d" THEN "MouseRecordWrite" ELSE "MouseWrite">>

\* usesJP108FirmwarePath, usesU2FirmwarePath: enter, chunk, commit, exit.
FirmwarePath(d) ==
    IF "jp108" \in Capability(d)
    THEN <<"Jp108EnterBootloader", "Jp108FirmwareChunk", "Jp108FirmwareCommit", "Jp108ExitBootloader">>
    ELSE IF {"u2_slots", "u2_buttons"} \subseteq Capability(d)
    THEN <<"U2EnterBootloader", "U2FirmwareChunk", "U2FirmwareCommit", "U2ExitBootloader">>
    ELSE <<"EnterBootloader", "FirmwareChunk", "FirmwareCommit", "ExitBootloader">>

NotAStandaloneCheck == {"U2Read", "Jp108ReadMacro", "U2GetLightEffect", "ArcadeGetMode", "KbRecordRead",
    "MouseReadPart", "MouseRecordRead"}

\* diagCommandsToRun.
DiagCommands(d) ==
    {c \in Commands \ NotAStandaloneCheck :
        /\ CommandRegistry[c].safety = "read"
        /\ CommandAppliesToPID(c, d)
        /\ AllowedForDevice(c, d)
        /\ GrantedBy(Capability(d), c)
        /\ TierOf[d] = "candidate" => AllowedForCandidate(c, d, FALSE)}

\* What each operation does after the last command of a phase, and after one
\* that failed or was refused.  Entering the bootloader is not followed by an
\* attempt to leave it again when it fails; nothing undoes a restore, the
\* clearing of a profile or a remapping without a backup ("rewrite").
AfterLast ==
    [diagnose |-> "diagnosed", look |-> "seen",
     read |-> "write", write |-> "applied", undo |-> "rolled_back", rewrite |-> "applied",
     survey |-> "clear", clear |-> "cleared", compare |-> "replay", replay |-> "restored",
     probe |-> "probed", enter |-> "transfer", transfer |-> "leave", leave |-> "verify",
     verify |-> "updated", recover |-> "update_failed"]
AfterFailure ==
    [look |-> "unseen", read |-> "not_read", write |-> "undo", undo |-> "rollback_failed",
     rewrite |-> "not_applied", survey |-> "not_read", clear |-> "not_cleared",
     compare |-> "not_restored", replay |-> "not_restored",
     probe |-> "write_locked", enter |-> "update_failed", transfer |-> "recover",
     leave |-> "update_failed", verify |-> "unverified", recover |-> "update_failed"]
Ended == {"diagnosed", "seen", "unseen", "applied", "not_applied", "rolled_back", "rollback_failed",
    "not_read", "cleared", "not_cleared", "restored", "not_restored", "probed", "write_locked",
    "updated", "unverified", "update_failed"}

CommandsOfMutant(p) ==
    IF p \in {"write", "undo", "clear", "replay"} THEN changes
    ELSE IF p = "transfer" THEN SubSeq(FirmwarePath(device), 2, 3)
    ELSE IF p = "leave" THEN SubSeq(FirmwarePath(device), 4, 4)
    ELSE IF p = "verify" THEN <<"GetPid">> ELSE <<>>
CommandsOf(p) ==
    IF p \in {"write", "undo", "clear", "replay"} THEN changes
    ELSE IF p = "transfer" THEN SubSeq(FirmwarePath(device), 2, 3)
    ELSE IF p \in {"leave", "recover"} THEN SubSeq(FirmwarePath(device), 4, 4)
    ELSE IF p = "verify" THEN <<"GetPid">> ELSE <<>>

Init ==
    /\ settings \in SUBSET Settings
    /\ granted = {}
    /\ device = NoDevice
    /\ config = {}
    /\ phase = "idle"
    /\ todo = <<>>
    /\ changes = <<>>
    /\ sent = {}
    /\ refused = {}
    /\ backup = [of |-> NoDevice, ceremony |-> FALSE]

Toggle(option) ==
    /\ settings' = (settings \ {option}) \cup ({option} \ settings)
    /\ UNCHANGED <<granted, device, config, phase, todo, changes, sent, refused, backup>>

Open(d, sessionConfig, first, commands, writes) ==
    /\ phase \in Ended \cup {"idle"}
    /\ granted' = settings
    /\ device' = d
    /\ config' = sessionConfig
    /\ phase' = IF commands = <<>> THEN AfterLast[first] ELSE first
    /\ todo' = commands
    /\ changes' = writes
    /\ sent' = {}
    /\ refused' = {}
    /\ UNCHANGED <<settings, backup>>

\* core.DiagProbe.  The commands are asked in the registry's order, which no
\* command's answer depends on.
Diagnose(d) == Open(d, {"experimental"}, "diagnose", SetToSeq(DiagCommands(d)), <<>>)

\* openSessionForOps; padSession; the sessions of the two kinds of device that
\* are only read in advanced mode, and of their writes.
OpsConfig == {"unsafe"} \cup (IF "advanced" \in settings THEN {"experimental"} ELSE {})
PadConfig == {"unsafe", "experimental"}
Unlocked == {"experimental", "unlock"}

\* What is only read: each kind's profile, whether a receiver's mouse is there,
\* and the product behind the id that several share.
ReadProfile(d) ==
    \/ "u2_slots" \in Capability(d) /\ Open(d, PadConfig, "look", PadReads(d), <<>>)
    \/ /\ "jp108" \in Capability(d)
       /\ \E held \in BOOLEAN : Open(d, OpsConfig, "look", KeyboardReads(held), <<>>)
    \/ /\ "record" \in Capability(d) /\ "advanced" \in settings
       /\ Open(d, {"experimental"}, "look", <<"KbRecordRead">>, <<>>)
    \/ /\ "mouse" \in Capability(d) /\ "advanced" \in settings
       /\ \E reads \in {MouseReads(d)} \cup (IF d = "5206" THEN {<<"MouseReceiverLinked">>} ELSE {}) :
             Open(d, {"experimental"}, "look", reads, <<>>)

ResolveSharedProduct(d) == d = "310b" /\ Open(d, {}, "look", <<"GetPid">>, <<>>)

ApplyPad(d, writes) ==
    /\ "u2_slots" \in Capability(d) /\ "advanced" \in settings
    /\ d \notin Lit => writes = <<"U2Write">>
    /\ Open(d, PadConfig, "read", PadReads(d), writes)

\* Macros are written only in advanced mode, which OpsConfig stands for.
ApplyKeyboard(d, held, writes) ==
    /\ "jp108" \in Capability(d)
    /\ Open(d, OpsConfig, "read", KeyboardReads(held), writes)

\* JP108ApplyDedicatedMappingWithRecovery.  It reads, writes and rolls back in
\* sessions of their own, of which this is one: none of its commands depends
\* on Experimental, the only thing in which they may differ.
ApplyDedicatedMapping(d, keep) ==
    /\ "jp108" \in Capability(d)
    /\ IF keep THEN Open(d, OpsConfig, "read", <<"Jp108Read">>, <<"Jp108WriteKey">>)
       ELSE Open(d, OpsConfig, "rewrite", <<"Jp108WriteKey">>, <<>>)

ClearKeyboard(d, held) ==
    /\ "jp108" \in Capability(d)
    /\ Open(d, OpsConfig, "survey", KeyboardReads(held), <<"Jp108WriteKey">>)

\* The ceremony: advanced mode, the risk acknowledged, the device's unlock file.
CeremonyMutant == {"advanced", "acknowledged"} \subseteq settings
Ceremony == Settings \subseteq settings

ApplyRecordKeyboard(d) ==
    /\ Ceremony /\ "record" \in Capability(d)
    /\ Open(d, Unlocked, "read", <<"KbRecordRead">>, <<"KbRecordWrite">>)

ApplyMouse(d) ==
    /\ Ceremony /\ "mouse" \in Capability(d)
    /\ Open(d, Unlocked, "read", MouseReads(d), MouseWrites(d))

\* RestoreBackup, by the kind of the backup.  A keyboard with a record and a
\* mouse are unlocked for it in advanced mode, without the ceremony; a table of
\* keys is written without reading what is there.
RestoreBackup(d) ==
    /\ backup.of = d
    /\ \/ "u2_slots" \in Capability(d) /\ Open(d, PadConfig, "compare", PadRecordReads(d), <<"U2Write">>)
       \/ /\ "jp108" \in Capability(d)
          /\ \/ \E held \in BOOLEAN :
                   Open(d, OpsConfig, "compare", KeyboardReads(held), <<"Jp108WriteKey", "Jp108WriteSetting">>)
             \/ Open(d, OpsConfig, "replay", <<"Jp108WriteKey">>, <<>>)
       \/ /\ "record" \in Capability(d) /\ "advanced" \in settings
          /\ Open(d, Unlocked, "compare", <<"KbRecordRead">>, <<"KbRecordWrite">>)
       \/ /\ "mouse" \in Capability(d) /\ "advanced" \in settings
          /\ Open(d, Unlocked, "compare", MouseReads(d), MouseWrites(d))

\* CandidateWriteProbe.
Probe(d) ==
    /\ Ceremony /\ TierOf[d] = "candidate" /\ Capability(d) \cap {"mode", "profile"} # {}
    /\ Open(d, Unlocked, "probe",
            (IF "mode" \in Capability(d) THEN <<"GetMode", "SetModeDInput", "GetMode">> ELSE <<>>)
              \o (IF "profile" \in Capability(d) THEN <<"ReadProfile", "WriteProfile", "ReadProfile">> ELSE <<>>),
            <<>>)

\* PreflightFirmware and runTransferTask.
UpdateFirmware(d, experimental) ==
    /\ TierOf[d] = "full" /\ "firmware" \in Capability(d)
    /\ Open(d, {"unsafe"} \cup experimental, "enter", SubSeq(FirmwarePath(d), 1, 1), <<>>)

\* storeBackup, after the reads; it may or may not be the backup to follow.
Stored ==
    IF phase \in {"read", "survey"} /\ device \in Followed
    THEN {backup, [of |-> device, ceremony |-> granted = Settings]} ELSE {backup}

\* The phase's commands are followed by those of the next.
Proceed ==
    IF Tail(todo) # <<>>
    THEN phase' = phase /\ todo' = Tail(todo) /\ backup' = backup
    ELSE phase' = AfterLast[phase] /\ todo' = CommandsOf(AfterLast[phase]) /\ backup' \in Stored

TurnBack ==
    IF phase = "diagnose" THEN Proceed
    ELSE phase' = AfterFailure[phase] /\ todo' = CommandsOf(AfterFailure[phase]) /\ backup' = backup

\* SendCommand: allowed and answered; allowed, and unanswered or read back as
\* something else; refused.
SendOK ==
    /\ todo # <<>> /\ Allowed(Head(todo), device, config)
    /\ sent' = sent \cup {Head(todo)}
    /\ Proceed
    /\ UNCHANGED <<settings, granted, device, config, changes, refused>>

SendFails ==
    /\ todo # <<>> /\ Allowed(Head(todo), device, config)
    /\ sent' = sent \cup {Head(todo)}
    /\ TurnBack
    /\ UNCHANGED <<settings, granted, device, config, changes, refused>>

\* A device that is gone is not asked to leave its bootloader.
Disconnected ==
    /\ todo # <<>> /\ phase = "transfer" /\ Allowed(Head(todo), device, config)
    /\ sent' = sent \cup {Head(todo)}
    /\ phase' = "update_failed" /\ todo' = <<>>
    /\ UNCHANGED <<settings, granted, device, config, changes, refused, backup>>

Refuse ==
    /\ todo # <<>> /\ ~Allowed(Head(todo), device, config)
    /\ refused' = refused \cup {Head(todo)}
    /\ TurnBack
    /\ UNCHANGED <<settings, granted, device, config, changes, sent>>

Next ==
    \/ \E option \in Settings : Toggle(option)
    \/ \E d \in Devices :
        \/ Diagnose(d)
        \/ ReadProfile(d)
        \/ ResolveSharedProduct(d)
        \/ \E writes \in {<<"U2Write">>, <<"U2SetLightEffect">>, <<"U2Write", "U2SetLightEffect">>} :
              ApplyPad(d, writes)
        \/ \E held \in BOOLEAN,
              writes \in {<<"Jp108WriteKey">>, <<"Jp108WriteSetting">>, <<"Jp108WriteKey", "Jp108WriteSetting">>} :
              ApplyKeyboard(d, held, writes)
        \/ \E keep \in BOOLEAN : ApplyDedicatedMapping(d, keep)
        \/ \E held \in BOOLEAN : ClearKeyboard(d, held)
        \/ ApplyRecordKeyboard(d)
        \/ ApplyMouse(d)
        \/ RestoreBackup(d)
        \/ Probe(d)
        \/ \E experimental \in SUBSET {"experimental"} : UpdateFirmware(d, experimental)
    \/ SendOK
    \/ SendFails
    \/ Disconnected
    \/ Refuse

Spec == Init /\ [][Next]_vars

-----------------------------------------------------------------------------
(* Properties.                                                             *)

Phases == {"idle"} \cup DOMAIN AfterLast \cup Ended

TypeOK ==
    /\ settings \subseteq Settings /\ granted \subseteq Settings
    /\ device \in Devices \cup {NoDevice}
    /\ config \in SessionConfigs
    /\ phase \in Phases
    /\ todo \in Seq(Commands) /\ changes \in Seq(Commands)
    /\ sent \subseteq Commands /\ refused \subseteq Commands
    /\ phase \in Ended \cup {"idle"} <=> todo = <<>>
    /\ backup \in [of : Devices \cup {NoDevice}, ceremony : BOOLEAN]

Changing(c) == CommandRegistry[c].safety # "read"

Restoring == {"compare", "replay", "restored", "not_restored"}

\* A device whose support is not confirmed is never sent a command that changes
\* it, except a candidate, and never one of the bootloader: by an operation
\* begun with advanced mode on, the risk acknowledged and its unlock file
\* there, or by a restore, begun in advanced mode, of the backup such an
\* operation made of it.  Without a backup from behind the ceremony nothing
\* gets past it, though the restore itself looks only at advanced mode
\* (session_authorization.go's gates with core's own; mouse.go:1004, 1206).
UnconfirmedIsReadOnly ==
    \A c \in sent : Changing(c) =>
        \/ TierOf[device] = "full"
        \/ /\ TierOf[device] = "candidate" /\ CommandRegistry[c].safety = "write"
           /\ \/ granted = Settings
              \/ /\ phase \in Restoring /\ "advanced" \in granted
                 /\ backup = [of |-> device, ceremony |-> TRUE]

\* A device is sent the commands of its own kind: a mouse and a Retro keyboard
\* nothing else, a keyboard with a record no JP108 command, an Ultimate
\* Bluetooth of the controller commands those for its record.
OwnCommandsOnly ==
    /\ device \in Mice => sent \subseteq OfGroup({"Mouse"})
    /\ device \in Retro => sent \subseteq OfGroup({"JP108Dedicated"}) \cup Jp108Boot
    /\ device \in RecordKeyboards => sent \cap OfGroup({"JP108Dedicated"}) = {}
    /\ device \in UltimateBT => sent \cap OfGroup({"Ultimate2Core"}) \subseteq {"U2Read", "U2Write"}

\* A write that is refused once others were sent is one whose row does not
\* list the device: a device the registry lists for all of an operation's
\* writes gets all of them or none.
ListedIsAllOrNothing ==
    (\E c \in sent : Changing(c)) =>
        \A c \in refused : Changing(c) => device \notin CommandRegistry[c].appliesTo
=============================================================================
