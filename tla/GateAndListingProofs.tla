---------------------- MODULE GateAndListingProofs ----------------------
(***************************************************************************)
(* What devices are sent, whatever devices there are and whatever tiers    *)
(* they are given (CommandGate), and what the list an operation is begun   *)
(* from says of them, whatever is plugged in and pulled out meanwhile      *)
(* (DeviceListing).                                                        *)
(***************************************************************************)
EXTENDS CommandGate, DeviceListing, TLAPS, FiniteSetTheorems, SequenceTheorems

-----------------------------------------------------------------------------
(* The registry.                                                           *)

LEMMA SafetyClasses ==
    ASSUME NEW c \in Commands
    PROVE  CommandRegistry[c].safety \in {"read", "write", "unsafe"}
BY DEF CommandRegistry, GenericRow, BootRow, Jp108Row, U2Row, RecordRow, MouseRow, Row

LEMMA TenAreFinite ==
    ASSUME NEW a, NEW b, NEW c, NEW d, NEW e, NEW f, NEW g, NEW h, NEW i, NEW j
    PROVE  IsFiniteSet({a, b, c, d, e, f, g, h, i, j})
<1> DEFINE four == {a} \cup {b} \cup {c} \cup {d}
           seven == four \cup {e} \cup {f} \cup {g}
           ten == seven \cup {h} \cup {i} \cup {j}
<1>1. \A S, x : IsFiniteSet(S) => IsFiniteSet(S \cup {x})
    BY FS_AddElement
<1>2. IsFiniteSet({a})
    BY FS_Singleton
<1>3. IsFiniteSet(four)
    BY <1>1, <1>2
<1> HIDE DEF four
<1>4. IsFiniteSet(seven)
    BY <1>1, <1>3
<1> HIDE DEF seven
<1>5. IsFiniteSet(ten)
    BY <1>1, <1>4
<1>6. ten = {a, b, c, d, e, f, g, h, i, j}
    BY DEF four, seven
<1> QED
    BY <1>5, <1>6

LEMMA CommandsAreFinite == IsFiniteSet(Commands)
<1>1. IsFiniteSet(Core)
    BY TenAreFinite DEF Core
<1>2. IsFiniteSet(Jp108Boot)
  <2>1. Jp108Boot =
        {"Jp108EnterBootloader", "Jp108FirmwareChunk", "Jp108FirmwareCommit",
           "Jp108ExitBootloader", "Jp108ExitBootloader", "Jp108ExitBootloader",
           "Jp108ExitBootloader", "Jp108ExitBootloader", "Jp108ExitBootloader",
           "Jp108ExitBootloader"}
    BY DEF Jp108Boot
  <2> QED
    BY <2>1, TenAreFinite
<1>3. IsFiniteSet(U2Boot)
  <2>1. U2Boot =
        {"U2EnterBootloader", "U2FirmwareChunk", "U2FirmwareCommit", "U2ExitBootloader",
           "U2ExitBootloader", "U2ExitBootloader", "U2ExitBootloader", "U2ExitBootloader",
           "U2ExitBootloader", "U2ExitBootloader"}
    BY DEF U2Boot
  <2> QED
    BY <2>1, TenAreFinite
<1>4. IsFiniteSet(Jp108Commands)
  <2>1. Jp108Commands =
        {"Jp108Read", "Jp108WriteKey", "Jp108ReadMacro", "Jp108WriteSetting", "Jp108WriteSetting",
           "Jp108WriteSetting", "Jp108WriteSetting", "Jp108WriteSetting", "Jp108WriteSetting",
           "Jp108WriteSetting"}
    BY DEF Jp108Commands
  <2> QED
    BY <2>1, TenAreFinite
<1>5. IsFiniteSet(U2Commands)
  <2>1. U2Commands =
        {"U2GetConnected", "U2GetPhysicalMode", "U2Read", "U2Write", "U2GetLightEffect",
           "U2SetLightEffect", "ArcadeGetMode", "ArcadeGetMode", "ArcadeGetMode", "ArcadeGetMode"}
    BY DEF U2Commands
  <2> QED
    BY <2>1, TenAreFinite
<1>6. IsFiniteSet(RecordCommands)
  <2>1. RecordCommands =
        {"KbRecordRead", "KbRecordWrite", "KbRecordWrite", "KbRecordWrite", "KbRecordWrite",
           "KbRecordWrite", "KbRecordWrite", "KbRecordWrite", "KbRecordWrite", "KbRecordWrite"}
    BY DEF RecordCommands
  <2> QED
    BY <2>1, TenAreFinite
<1>7. IsFiniteSet(MouseCommands)
  <2>1. MouseCommands =
        {"MouseReadSetting", "MouseReadPart", "MouseWrite", "MouseReceiverLinked",
           "MouseRecordRead", "MouseRecordWrite", "MouseRecordWrite", "MouseRecordWrite",
           "MouseRecordWrite", "MouseRecordWrite"}
    BY DEF MouseCommands
  <2> QED
    BY <2>1, TenAreFinite
<1>8. \A S, T : IsFiniteSet(S) /\ IsFiniteSet(T) => IsFiniteSet(S \cup T)
    BY FS_Union
<1> QED
    BY <1>1, <1>2, <1>3, <1>4, <1>5, <1>6, <1>7, <1>8 DEF Commands

LEMMA Enumerated ==
    ASSUME NEW S \in SUBSET Commands
    PROVE  SetToSeq(S) \in Seq(S) /\ (SetToSeq(S) = <<>> <=> S = {})
<1>1. IsFiniteSet(S)
    BY CommandsAreFinite, FS_Subset
<1> DEFINE n == Cardinality(S)
<1>2. n \in Nat /\ ExistsBijection(1..n, S)
    BY <1>1, FS_CardinalityType
<1>3. \E f \in [1..n -> S] : IsInjective(f)
    BY <1>2 DEF ExistsBijection, Bijection, Injection, IsInjective
<1>4. SetToSeq(S) \in [1..n -> S]
    BY <1>3 DEF SetToSeq
<1>5. n = 0 <=> S = {}
    BY <1>1, FS_EmptySet
<1> HIDE DEF n
<1>6. SetToSeq(S) \in Seq(S)
    BY <1>2, <1>4
<1>7. Len(SetToSeq(S)) = n
    BY <1>2, <1>4, <1>6
<1> QED
    BY <1>2, <1>5, <1>6, <1>7, EmptySeq

LEMMA RowFields ==
    \A safety, confidence, appliesTo, group :
       /\ Row(safety, confidence, appliesTo, group).safety = safety
       /\ Row(safety, confidence, appliesTo, group).confidence = confidence
       /\ Row(safety, confidence, appliesTo, group).appliesTo = appliesTo
       /\ Row(safety, confidence, appliesTo, group).group = group
BY DEF Row

LEMMA RowOf ==
    ASSUME NEW c \in Commands
    PROVE  /\ c \in Core => CommandRegistry[c] = GenericRow(c)
           /\ c \in Jp108Boot \cup U2Boot => CommandRegistry[c] = BootRow(c)
           /\ c \in Jp108Commands => CommandRegistry[c] = Jp108Row(c)
           /\ c \in U2Commands => CommandRegistry[c] = U2Row(c)
           /\ c \in RecordCommands => CommandRegistry[c] = RecordRow(c)
           /\ c \in MouseCommands => CommandRegistry[c] = MouseRow(c)
BY DEF CommandRegistry, Core, Jp108Boot, U2Boot, Jp108Commands, U2Commands, RecordCommands, MouseCommands

\* Which commands a group has.
LEMMA GroupOf ==
    ASSUME NEW c \in Commands
    PROVE  /\ CommandRegistry[c].group = "Core" <=> c \in Core
           /\ CommandRegistry[c].group = "Firmware" <=> c \in Jp108Boot \cup U2Boot
           /\ CommandRegistry[c].group = "JP108Dedicated" <=> c \in Jp108Commands
           /\ CommandRegistry[c].group = "Ultimate2Core" <=> c \in U2Commands
           /\ CommandRegistry[c].group = "RecordKeyboard" <=> c \in RecordCommands
           /\ CommandRegistry[c].group = "Mouse" <=> c \in MouseCommands
<1>1. c \in Core => CommandRegistry[c].group = "Core"
    BY RowOf, RowFields DEF GenericRow
<1>2. c \in Jp108Boot \cup U2Boot => CommandRegistry[c].group = "Firmware"
    BY RowOf, RowFields DEF BootRow
<1>3. c \in Jp108Commands => CommandRegistry[c].group = "JP108Dedicated"
    BY RowOf, RowFields DEF Jp108Row
<1>4. c \in U2Commands => CommandRegistry[c].group = "Ultimate2Core"
    BY RowOf, RowFields DEF U2Row
<1>5. c \in RecordCommands => CommandRegistry[c].group = "RecordKeyboard"
    BY RowOf, RowFields DEF RecordRow
<1>6. c \in MouseCommands => CommandRegistry[c].group = "Mouse"
    BY RowOf, RowFields DEF MouseRow
<1> QED
    BY <1>1, <1>2, <1>3, <1>4, <1>5, <1>6 DEF Commands

-----------------------------------------------------------------------------
(* Sequences of commands.                                                  *)

LEMMA Tails ==
    ASSUME NEW S, NEW s \in Seq(S), s # <<>>
    PROVE  /\ Tail(s) \in Seq(S) /\ Head(s) \in S
           /\ Head(s) \in ToSet(s) /\ ToSet(Tail(s)) \subseteq ToSet(s)
<1>1. /\ Tail(s) \in Seq(S) /\ Head(s) \in S /\ Head(s) = s[1] /\ 1 \in DOMAIN s
      /\ Len(Tail(s)) = Len(s) - 1 /\ Len(s) \in Nat \ {0}
      /\ \A i \in 1..Len(Tail(s)) : Tail(s)[i] = s[i + 1]
    BY HeadTailProperties
<1>2. DOMAIN Tail(s) = 1..(Len(s) - 1) /\ DOMAIN s = 1..Len(s)
    BY <1>1
<1>3. \A i \in DOMAIN Tail(s) : i + 1 \in DOMAIN s /\ Tail(s)[i] = s[i + 1]
    BY <1>1, <1>2
<1> QED
    BY <1>1, <1>3 DEF ToSet

\* The commands of each family's way through an update.
LEMMA FirmwarePathType ==
    ASSUME NEW d
    PROVE  /\ FirmwarePath(d) \in Seq(Commands) /\ Len(FirmwarePath(d)) = 4
           /\ \A i \in 1..4 : FirmwarePath(d)[i] \in Commands
           /\ \/ ToSet(FirmwarePath(d)) \subseteq Jp108Boot
              \/ ToSet(FirmwarePath(d)) \subseteq U2Boot
              \/ ToSet(FirmwarePath(d)) \subseteq Core
<1> DEFINE jp == <<"Jp108EnterBootloader", "Jp108FirmwareChunk", "Jp108FirmwareCommit", "Jp108ExitBootloader">>
           u2 == <<"U2EnterBootloader", "U2FirmwareChunk", "U2FirmwareCommit", "U2ExitBootloader">>
           core == <<"EnterBootloader", "FirmwareChunk", "FirmwareCommit", "ExitBootloader">>
<1>1. jp \in Seq(Commands) /\ Len(jp) = 4 /\ ToSet(jp) \subseteq Jp108Boot
    BY DEF Commands, Jp108Boot, ToSet
<1>2. u2 \in Seq(Commands) /\ Len(u2) = 4 /\ ToSet(u2) \subseteq U2Boot
    BY DEF Commands, U2Boot, ToSet
<1>3. core \in Seq(Commands) /\ Len(core) = 4 /\ ToSet(core) \subseteq Core
    BY DEF Commands, Core, ToSet
<1>4. FirmwarePath(d) \in {jp, u2, core}
    BY DEF FirmwarePath
<1> HIDE DEF jp, u2, core
<1>5. FirmwarePath(d) \in Seq(Commands) /\ Len(FirmwarePath(d)) = 4
    BY <1>1, <1>2, <1>3, <1>4
<1>6. \A i \in 1..4 : FirmwarePath(d)[i] \in Commands
  <2> DEFINE path == FirmwarePath(d)
  <2>1. path \in Seq(Commands) /\ Len(path) = 4
    BY <1>5
  <2> HIDE DEF path
  <2>2. \A i \in 1..4 : path[i] \in Commands
    BY <2>1
  <2> QED
    BY <2>2 DEF path
<1>7. \/ ToSet(FirmwarePath(d)) \subseteq Jp108Boot
      \/ ToSet(FirmwarePath(d)) \subseteq U2Boot
      \/ ToSet(FirmwarePath(d)) \subseteq Core
    BY <1>1, <1>2, <1>3, <1>4
<1> QED
    BY <1>5, <1>6, <1>7

\* A stretch of it.
LEMMA FirmwareStretch ==
    ASSUME NEW d, NEW m \in 1..4, NEW n \in m..4
    PROVE  /\ SubSeq(FirmwarePath(d), m, n) \in Seq(Commands)
           /\ SubSeq(FirmwarePath(d), m, n) # <<>>
           /\ ToSet(SubSeq(FirmwarePath(d), m, n)) \subseteq ToSet(FirmwarePath(d))
<1> DEFINE path == FirmwarePath(d)
           stretch == SubSeq(path, m, n)
<1>1. /\ path \in Seq(Commands) /\ Len(path) = 4 /\ DOMAIN path = 1..4
      /\ \A i \in 1..4 : path[i] \in Commands
    BY FirmwarePathType
<1> HIDE DEF path
<1>2. \A i \in m..n : path[i] \in Commands
  <2>1. \A i \in m..n : i \in 1..4
    OBVIOUS
  <2> QED
    BY <1>1, <2>1
<1>3. /\ stretch \in Seq(Commands) /\ Len(stretch) = n - m + 1
      /\ \A i \in 1..(n - m + 1) : stretch[i] = path[m + i - 1]
    BY <1>2, SubSeqProperties
<1> HIDE DEF stretch
<1>4. DOMAIN stretch = 1..(n - m + 1) /\ stretch # <<>>
    BY <1>3
<1>5. \A i \in DOMAIN stretch : m + i - 1 \in DOMAIN path /\ stretch[i] = path[m + i - 1]
    BY <1>1, <1>3, <1>4
<1> QED
    BY <1>3, <1>4, <1>5 DEF ToSet, stretch, path

-----------------------------------------------------------------------------
(* What a command that is allowed may be.                                  *)

LEMMA AllowedChange ==
    ASSUME NEW c \in Commands, NEW d, NEW cfg, Allowed(c, d, cfg), Changing(c)
    PROVE  \/ TierOf[d] = "full"
           \/ TierOf[d] = "candidate" /\ "unlock" \in cfg /\ CommandRegistry[c].safety = "write"
<1>1. CommandRegistry[c].safety \in {"write", "unsafe"}
    BY SafetyClasses DEF Changing
<1> QED
    BY <1>1 DEF Allowed, CandidateUnlocked

LEMMA NotForRecordKeyboards ==
    ASSUME NEW d \in RecordKeyboards
    PROVE  "jp108" \notin Capability(d) /\ d \notin Mice
<1>1. d \notin Mice /\ d \notin {"5209", "520a"}
    BY DEF RecordKeyboards, Mice
<1>2. "jp108" \notin CandidateCapability(d)
    BY DEF CandidateCapability
<1>3. "jp108" \notin FullCapability(d)
    BY <1>1 DEF FullCapability, Generic
<1> QED
    BY <1>1, <1>2, <1>3 DEF Capability

LEMMA AllowedKind ==
    ASSUME NEW c \in Commands, NEW d, NEW cfg, Allowed(c, d, cfg)
    PROVE  /\ d \in Mice => c \in OfGroup({"Mouse"})
           /\ d \in Retro => c \in OfGroup({"JP108Dedicated"}) \cup Jp108Boot
           /\ d \in RecordKeyboards => c \notin OfGroup({"JP108Dedicated"})
           /\ d \in UltimateBT /\ c \in OfGroup({"Ultimate2Core"}) => c \in {"U2Read", "U2Write"}
<1>1. AllowedForDevice(c, d) /\ GrantedBy(Capability(d), c)
    BY DEF Allowed
<1>2. Mice \cap (Retro \cup UltimateBT) = {} /\ Retro \cap UltimateBT = {}
    BY DEF Mice, Retro, UltimateBT
<1>3. ASSUME d \in RecordKeyboards, c \in OfGroup({"JP108Dedicated"})
      PROVE  FALSE
  <2>1. CommandRegistry[c].group = "JP108Dedicated"
    BY <1>3 DEF OfGroup
  <2>2. c \in Jp108Commands
    BY <2>1, GroupOf
  <2>3. /\ c \notin OfGroup({"Ultimate2Core"}) /\ c \notin OfGroup({"RecordKeyboard"})
        /\ c \notin OfGroup({"Mouse"})
    BY <2>1 DEF OfGroup
  <2>4. "jp108" \in Capability(d)
    BY <1>1, <2>2, <2>3 DEF GrantedBy, Jp108Commands, Boots, Flashes
  <2> QED
    BY <1>3, <2>4, NotForRecordKeyboards
<1> QED
    BY <1>1, <1>2, <1>3 DEF AllowedForDevice

-----------------------------------------------------------------------------
(* Which operations have all of their listed writes.                       *)

\* Of those that a device with full support is able to do.
LEMMA FullSupportIsAllowed ==
    ASSUME NEW c \in Commands, NEW d, NEW cfg, TierOf[d] = "full", "unsafe" \in cfg,
           d \in CommandRegistry[c].appliesTo,
           CommandRegistry[c].group \in {"JP108Dedicated", "Ultimate2Core", "Firmware"},
           AllowedForDevice(c, d), GrantedBy(Capability(d), c)
    PROVE  Allowed(c, d, cfg)
<1>1. FullSupportPath(c, d)
    BY DEF FullSupportPath
<1>2. CommandAppliesToPID(c, d)
    BY DEF CommandAppliesToPID
<1> QED
    BY <1>1, <1>2 DEF Allowed

LEMMA PadWritesAllowed ==
    ASSUME NEW c \in {"U2Write", "U2SetLightEffect"}, NEW d, NEW cfg, TierOf[d] = "full",
           "unsafe" \in cfg, "u2_slots" \in Capability(d), d \in CommandRegistry[c].appliesTo
    PROVE  Allowed(c, d, cfg)
<1>1. c \in U2Commands /\ c \in Commands
    BY DEF U2Commands, Commands
<1>2. CommandRegistry[c].group = "Ultimate2Core" /\ CommandRegistry[c] = U2Row(c)
    BY <1>1, GroupOf, RowOf
<1>3. /\ c = "U2Write" => CommandRegistry[c].appliesTo = Records
      /\ c = "U2SetLightEffect" => CommandRegistry[c].appliesTo = {"6012", "6013", "600f"}
    BY <1>2, RowFields DEF U2Row
<1>4. AllowedForDevice(c, d)
  <2>1. d \in Records /\ (d \in UltimateBT => c = "U2Write")
    BY <1>3 DEF Records, UltimateBT
  <2>2. d \notin Mice /\ d \notin Retro /\ d \notin JpHandshake
    BY <2>1 DEF Records, Mice, Retro, JpHandshake, JpCandidates
  <2> QED
    BY <2>1, <2>2 DEF AllowedForDevice
<1>5. GrantedBy(Capability(d), c)
    BY <1>1, <1>2 DEF GrantedBy, OfGroup
<1> QED
    BY <1>1, <1>2, <1>4, <1>5, FullSupportIsAllowed

LEMMA KeyboardWritesAllowed ==
    ASSUME NEW c \in {"Jp108WriteKey", "Jp108WriteSetting"}, NEW d, NEW cfg, TierOf[d] = "full",
           "unsafe" \in cfg, "jp108" \in Capability(d), d \in CommandRegistry[c].appliesTo
    PROVE  Allowed(c, d, cfg)
<1>1. c \in Jp108Commands /\ c \in Commands
    BY DEF Jp108Commands, Commands
<1>2. CommandRegistry[c].group = "JP108Dedicated" /\ CommandRegistry[c] = Jp108Row(c)
    BY <1>1, GroupOf, RowOf
<1>3. d \in Retro
    BY <1>2, RowFields DEF Jp108Row
<1>4. AllowedForDevice(c, d)
    BY <1>1, <1>2, <1>3 DEF AllowedForDevice, OfGroup, Mice, Retro
<1>5. GrantedBy(Capability(d), c)
    BY <1>1, <1>2 DEF GrantedBy, OfGroup
<1> QED
    BY <1>1, <1>2, <1>4, <1>5, FullSupportIsAllowed

\* Whatever can be updated can also enter and leave its bootloader.
LEMMA FirmwareIsAllowed ==
    ASSUME NEW d, NEW c \in ToSet(FirmwarePath(d)), NEW cfg, TierOf[d] = "full",
           "unsafe" \in cfg, "firmware" \in Capability(d), d \in CommandRegistry[c].appliesTo
    PROVE  Allowed(c, d, cfg)
<1>1. "boot" \in Capability(d) /\ d \notin Mice
    BY DEF Capability, FullCapability, Generic
<1>2. c \in Jp108Boot \/ c \in U2Boot \/ c \in Core
    BY FirmwarePathType
<1>3. c \in Commands
    BY <1>2 DEF Commands
<1>4. c \notin Core
    BY <1>3, RowOf, RowFields DEF GenericRow
<1>5. CommandRegistry[c].group = "Firmware" /\ CommandRegistry[c] = BootRow(c)
    BY <1>2, <1>3, <1>4, GroupOf, RowOf
<1>6. /\ c \in Jp108Boot => d \in {"5209", "520a"}
      /\ c \notin Jp108Boot => d \in {"6012", "6013"}
    BY <1>5, RowFields DEF BootRow
<1>7. GrantedBy(Capability(d), c)
    BY <1>1, <1>2, <1>4 DEF GrantedBy, Boots, Flashes, Jp108Boot, U2Boot
<1>8. c \notin OfGroup({"Ultimate2Core"})
    BY <1>5 DEF OfGroup
<1>9. AllowedForDevice(c, d)
  <2>1. CASE c \in Jp108Boot
    <3>1. c \notin JpHandshakeDisallowed
      BY <1>8, <2>1 DEF JpHandshakeDisallowed, Jp108Boot, U2Boot
    <3> QED
      BY <1>1, <1>8, <2>1, <3>1 DEF AllowedForDevice
  <2>2. CASE c \notin Jp108Boot
    <3>1. d \notin JpHandshake /\ d \notin Retro
      BY <1>6, <2>2 DEF JpHandshake, JpCandidates, Retro
    <3> QED
      BY <1>1, <1>8, <3>1 DEF AllowedForDevice
  <2> QED
    BY <2>1, <2>2
<1> QED
    BY <1>3, <1>5, <1>7, <1>9, FullSupportIsAllowed

-----------------------------------------------------------------------------
(* The inductive invariant.                                                *)

\* The phases that lead to the changes.
Changed == {"read", "write", "survey", "compare"}
Updating == {"enter", "transfer", "leave", "verify", "recover"}

Updatable(d, cfg) == TierOf[d] = "full" /\ "unsafe" \in cfg /\ "firmware" \in Capability(d)

ListedAllowed(S, d, cfg) ==
    \A c \in S : Changing(c) /\ d \in CommandRegistry[c].appliesTo => Allowed(c, d, cfg)

OneWrite(S) == \E w \in Commands : \A c \in S : Changing(c) => c = w

\* A device that is not confirmed, without the unlock, is sent nothing that
\* changes it.
OnlyReads(d, cfg) == TierOf[d] # "full" /\ "unlock" \notin cfg

Ceremonial == {"record", "mouse"}

Replays(d, kept) == kept = [of |-> d, ceremony |-> TRUE]

\* What was sent was allowed and what was refused was not, under the operation's one
\* device and config; and of the writes it may still send, each is allowed to a
\* device that is listed, or there is but one.  A session is unlocked behind the
\* ceremony or for a backup from behind it, which every backup of such a device is.
GateInv ==
    /\ phase \in Changed => changes # <<>>
    /\ phase \in Updating => Updatable(device, config)
    /\ phase \in {"read", "survey"} /\ Capability(device) \cap Ceremonial # {} => granted = Settings
    /\ backup.of \in Devices /\ Capability(backup.of) \cap Ceremonial # {} => backup.ceremony = TRUE
    /\ "unlock" \in config =>
          granted = Settings \/ (phase \in Restoring /\ "advanced" \in granted /\ Replays(device, backup))
    /\ \A c \in sent : Allowed(c, device, config)
    /\ \A c \in refused : ~Allowed(c, device, config)
    /\ \/ ListedAllowed(ToSet(todo) \cup ToSet(changes) \cup refused, device, config)
       \/ phase \notin Updating /\ OneWrite(ToSet(todo) \cup ToSet(changes) \cup refused \cup sent)
       \/ OnlyReads(device, config)

LEMMA EmptySequence ==
    /\ <<>> \in Seq(Commands)
    /\ ToSet(<<>>) = {}
<1>1. <<>> \in Seq(Commands) /\ DOMAIN <<>> = {}
    OBVIOUS
<1> QED
    BY <1>1 DEF ToSet

Firsts == {"diagnose", "look", "read", "survey", "rewrite", "compare", "replay", "probe", "enter"}

LEMMA OpenStep ==
    ASSUME TypeOK, GateInv, NEW d \in Devices, NEW cfg \in SessionConfigs, NEW first \in Firsts,
           NEW commands \in Seq(Commands), commands = <<>> => first = "diagnose",
           NEW writes \in Seq(Commands), first \in Changed => writes # <<>>,
           first = "enter" => Updatable(d, cfg),
           first \in {"read", "survey"} /\ Capability(d) \cap Ceremonial # {} => settings = Settings,
           \/ "unlock" \notin cfg
           \/ settings = Settings
           \/ first = "compare" /\ "advanced" \in settings /\ Replays(d, backup),
           \/ ListedAllowed(ToSet(commands) \cup ToSet(writes), d, cfg)
           \/ first # "enter" /\ OneWrite(ToSet(commands) \cup ToSet(writes))
           \/ OnlyReads(d, cfg),
           Open(d, cfg, first, commands, writes)
    PROVE  TypeOK' /\ GateInv'
<1>1. /\ granted' = settings /\ device' = d /\ config' = cfg /\ todo' = commands /\ changes' = writes
      /\ sent' = {} /\ refused' = {} /\ settings' = settings /\ backup' = backup
      /\ phase' = IF commands = <<>> THEN "diagnosed" ELSE first
    BY DEF Open, AfterLast
<1>2. /\ phase' \in Phases
      /\ phase' \in Ended \cup {"idle"} <=> commands = <<>>
      /\ phase' \in Changed => first \in Changed
      /\ phase' \in Updating => first = "enter"
      /\ phase' \in {"read", "survey"} => first \in {"read", "survey"}
      /\ first = "compare" => phase' \in Restoring
    BY <1>1 DEF Phases, AfterLast, Ended, Changed, Updating, Firsts, Restoring
<1>3. TypeOK'
    BY <1>1, <1>2 DEF TypeOK
<1>4. /\ phase' \in Changed => changes' # <<>>
      /\ phase' \in Updating => Updatable(device', config')
      /\ phase' \in {"read", "survey"} /\ Capability(device') \cap Ceremonial # {} => granted' = Settings
      /\ backup'.of \in Devices /\ Capability(backup'.of) \cap Ceremonial # {} => backup'.ceremony = TRUE
      /\ "unlock" \in config' =>
            granted' = Settings \/ (phase' \in Restoring /\ "advanced" \in granted' /\ Replays(device', backup'))
    BY <1>1, <1>2 DEF GateInv
<1>5. /\ \A c \in sent' : Allowed(c, device', config')
      /\ \A c \in refused' : ~Allowed(c, device', config')
      /\ \/ ListedAllowed(ToSet(todo') \cup ToSet(changes') \cup refused', device', config')
         \/ phase' \notin Updating /\ OneWrite(ToSet(todo') \cup ToSet(changes') \cup refused' \cup sent')
         \/ OnlyReads(device', config')
    BY <1>1, <1>2 DEF ListedAllowed, OneWrite
<1> QED
    BY <1>3, <1>4, <1>5 DEF GateInv

\* What is sent next is left of the phase, or the changes, or on the way through an
\* update.
LEMMA NextCommands ==
    ASSUME TypeOK, GateInv, todo # <<>>,
           \/ Proceed
           \/ TurnBack
           \/ phase = "transfer" /\ phase' = "update_failed" /\ todo' = <<>>
    PROVE  /\ phase' \in Phases /\ todo' \in Seq(Commands)
           /\ phase' \in Ended \cup {"idle"} <=> todo' = <<>>
           /\ phase' \in Changed => phase \in Changed
           /\ phase' \in Updating => phase \in Updating
           /\ phase \in Restoring => phase' \in Restoring
           /\ phase' \in {"read", "survey"} => phase' = phase
           /\ \A c \in ToSet(todo') : \/ c \in ToSet(todo) \/ c \in ToSet(changes) \/ c = "GetPid"
                                      \/ phase \in Updating /\ c \in ToSet(FirmwarePath(device))
<1> DEFINE Leads ==
               /\ phase' \in Phases /\ todo' \in Seq(Commands)
               /\ phase' \in Ended \cup {"idle"} <=> todo' = <<>>
               /\ phase' \in Changed => phase \in Changed
               /\ phase' \in Updating => phase \in Updating
               /\ \A c \in ToSet(todo') :
                     \/ c \in ToSet(todo) \/ c \in ToSet(changes) \/ c = "GetPid"
                     \/ phase \in Updating /\ c \in ToSet(FirmwarePath(device))
<1>1. /\ Tail(todo) \in Seq(Commands) /\ ToSet(Tail(todo)) \subseteq ToSet(todo)
    BY Tails DEF TypeOK
<1>2. phase \in DOMAIN AfterLast
    BY DEF TypeOK, Phases
<1>3. phase \in {"diagnose", "look", "read", "write", "undo", "rewrite", "survey", "clear", "compare", "replay",
                "probe", "enter", "transfer", "leave", "verify", "recover"}
    BY <1>2 DEF AfterLast
<1>4. ASSUME phase' = phase, todo' = Tail(todo), Tail(todo) # <<>>
      PROVE  Leads
    BY <1>1, <1>3, <1>4 DEF TypeOK
\* Where a phase may lead.
<1>5. ASSUME NEW p, phase' = p, todo' = CommandsOf(p),
             \/ p \in Ended
             \/ p \in {"write", "undo", "clear", "replay"} /\ phase \in Changed
             \/ p \in {"transfer", "leave", "recover", "verify"} /\ phase \in Updating
      PROVE  Leads
  <2>1. CASE p \in Ended
    <3>1. todo' = <<>> /\ p \notin Changed /\ p \notin Updating
      BY <1>5, <2>1 DEF Ended, CommandsOf, Changed, Updating
    <3> QED
      BY <1>5, <2>1, <3>1, EmptySequence DEF Phases
  <2>2. CASE p \in {"write", "undo", "clear", "replay"} /\ phase \in Changed
    <3>1. /\ todo' = changes /\ changes # <<>> /\ p \notin Updating /\ p \notin Ended \cup {"idle"}
          /\ p \in Phases
      BY <1>5, <2>2 DEF CommandsOf, GateInv, Updating, Ended, Phases, AfterLast
    <3> QED
      BY <1>5, <2>2, <3>1 DEF TypeOK
  <2>3. CASE p \in {"transfer", "leave", "recover"} /\ phase \in Updating
    <3>1. p \notin Ended \cup {"idle"} /\ p \in Phases /\ p \notin Changed
      BY <2>3 DEF Ended, Phases, AfterLast, Changed
    <3>2. todo' = SubSeq(FirmwarePath(device), 2, 3) \/ todo' = SubSeq(FirmwarePath(device), 4, 4)
      BY <1>5, <2>3 DEF CommandsOf
    <3>3. /\ todo' \in Seq(Commands) /\ todo' # <<>>
          /\ ToSet(todo') \subseteq ToSet(FirmwarePath(device))
      <4>1. 2 \in 1..4 /\ 3 \in 2..4 /\ 4 \in 1..4 /\ 4 \in 4..4
        OBVIOUS
      <4> QED
        BY <3>2, <4>1, FirmwareStretch
    <3> QED
      BY <1>5, <2>3, <3>1, <3>3
  <2>4. CASE p = "verify" /\ phase \in Updating
    <3>1. p \notin Ended \cup {"idle"} /\ p \in Phases /\ p \notin Changed
      BY <2>4 DEF Ended, Phases, AfterLast, Changed
    <3>2. todo' = <<"GetPid">>
      BY <1>5, <2>4 DEF CommandsOf
    <3>3. todo' \in Seq(Commands) /\ todo' # <<>> /\ ToSet(todo') = {"GetPid"}
      BY <3>2 DEF ToSet, Commands, Core
    <3> QED
      BY <1>5, <2>4, <3>1, <3>3
  <2> QED
    BY <1>5, <2>1, <2>2, <2>3, <2>4
<1> HIDE DEF Leads
<1>6. ASSUME phase' = AfterLast[phase], todo' = CommandsOf(AfterLast[phase])
      PROVE  Leads
    BY <1>3, <1>5, <1>6 DEF AfterLast, Ended, Changed, Updating
<1>7. ASSUME phase # "diagnose", phase' = AfterFailure[phase], todo' = CommandsOf(AfterFailure[phase])
      PROVE  Leads
    BY <1>3, <1>5, <1>7 DEF AfterFailure, Ended, Changed, Updating
<1>8. ASSUME phase' = "update_failed", todo' = <<>>
      PROVE  Leads
    BY <1>8, EmptySequence DEF Leads, Phases, Ended, Changed, Updating
<1>9. /\ phase \in Restoring => phase' \in Restoring
      /\ phase' \in {"read", "survey"} => phase' = phase
  <2>1. \/ phase' = phase
        \/ phase' = AfterLast[phase]
        \/ phase # "diagnose" /\ phase' = AfterFailure[phase]
        \/ phase' = "update_failed" /\ phase = "transfer"
    BY DEF Proceed, TurnBack
  <2> QED
    BY <1>3, <2>1 DEF AfterLast, AfterFailure, Restoring
<1>10. Leads
    BY <1>4, <1>6, <1>7, <1>8 DEF Proceed, TurnBack
<1> QED
    BY <1>9, <1>10 DEF Leads

\* A command is sent or refused.
LEMMA SendStep ==
    ASSUME TypeOK, GateInv, SendOK \/ SendFails \/ Disconnected \/ Refuse
    PROVE  TypeOK' /\ GateInv'
<1> DEFINE c == Head(todo)
<1>1. /\ todo # <<>> /\ UNCHANGED <<settings, granted, device, config, changes>>
      /\ \/ Proceed
         \/ TurnBack
         \/ phase = "transfer" /\ phase' = "update_failed" /\ todo' = <<>>
      /\ backup' \in Stored
      /\ \/ Allowed(c, device, config) /\ sent' = sent \cup {c} /\ refused' = refused
         \/ ~Allowed(c, device, config) /\ refused' = refused \cup {c} /\ sent' = sent
    BY DEF SendOK, SendFails, Disconnected, Refuse, Proceed, TurnBack, Stored
<1>2. c \in Commands /\ c \in ToSet(todo)
    BY <1>1, Tails DEF TypeOK
<1> HIDE DEF c
<1>3. /\ phase' \in Phases /\ todo' \in Seq(Commands)
      /\ phase' \in Ended \cup {"idle"} <=> todo' = <<>>
      /\ phase' \in Changed => phase \in Changed
      /\ phase' \in Updating => phase \in Updating
      /\ phase \in Restoring => phase' \in Restoring
      /\ phase' \in {"read", "survey"} => phase' = phase
      /\ \A x \in ToSet(todo') : \/ x \in ToSet(todo) \/ x \in ToSet(changes) \/ x = "GetPid"
                                 \/ phase \in Updating /\ x \in ToSet(FirmwarePath(device))
    BY <1>1, NextCommands
<1>11. /\ backup' \in [of : Devices \cup {NoDevice}, ceremony : BOOLEAN]
       /\ phase \in Restoring => backup' = backup
       /\ backup'.of \in Devices /\ Capability(backup'.of) \cap Ceremonial # {} => backup'.ceremony = TRUE
  <2>1. CASE backup' = backup
    BY <2>1 DEF TypeOK, GateInv
  <2>2. CASE /\ phase \in {"read", "survey"}
             /\ backup' = [of |-> device, ceremony |-> granted = Settings]
    <3>1. phase \notin Restoring
      BY <2>2 DEF Restoring
    <3>2. backup'.of = device /\ backup'.ceremony = (granted = Settings)
      BY <2>2
    <3>3. backup' \in [of : Devices \cup {NoDevice}, ceremony : BOOLEAN]
      BY <2>2 DEF TypeOK
    <3>4. Capability(device) \cap Ceremonial # {} => backup'.ceremony = TRUE
      BY <2>2, <3>2 DEF GateInv
    <3> QED
      BY <3>1, <3>2, <3>3, <3>4
  <2> QED
    BY <1>1, <2>1, <2>2 DEF Stored
<1>4. TypeOK'
    BY <1>1, <1>2, <1>3, <1>11 DEF TypeOK
<1>5. /\ phase' \in Changed => changes' # <<>>
      /\ phase' \in Updating => Updatable(device', config')
      /\ phase' \in {"read", "survey"} /\ Capability(device') \cap Ceremonial # {} => granted' = Settings
      /\ "unlock" \in config' =>
            granted' = Settings \/ (phase' \in Restoring /\ "advanced" \in granted' /\ Replays(device', backup'))
    BY <1>1, <1>3, <1>11 DEF GateInv
<1>6. /\ \A x \in sent' : Allowed(x, device', config')
      /\ \A x \in refused' : ~Allowed(x, device', config')
    BY <1>1 DEF GateInv
<1>7. ~Changing("GetPid")
  <2>1. "GetPid" \in Core /\ "GetPid" \in Commands
    BY DEF Core, Commands
  <2> QED
    BY <2>1, RowOf, RowFields DEF Changing, GenericRow, Boots, Flashes
<1>8. ASSUME ListedAllowed(ToSet(todo) \cup ToSet(changes) \cup refused, device, config)
      PROVE  ListedAllowed(ToSet(todo') \cup ToSet(changes') \cup refused', device', config')
  <2>1. phase \in Updating => \A x \in ToSet(FirmwarePath(device)) :
            device \in CommandRegistry[x].appliesTo => Allowed(x, device, config)
    BY FirmwareIsAllowed DEF GateInv, Updatable
  <2> QED
    BY <1>1, <1>2, <1>3, <1>7, <1>8, <2>1 DEF ListedAllowed
<1>9. ASSUME phase \notin Updating, OneWrite(ToSet(todo) \cup ToSet(changes) \cup refused \cup sent)
      PROVE  /\ phase' \notin Updating
             /\ OneWrite(ToSet(todo') \cup ToSet(changes') \cup refused' \cup sent')
    BY <1>1, <1>2, <1>3, <1>7, <1>9 DEF OneWrite
<1>10. \/ ListedAllowed(ToSet(todo') \cup ToSet(changes') \cup refused', device', config')
       \/ phase' \notin Updating /\ OneWrite(ToSet(todo') \cup ToSet(changes') \cup refused' \cup sent')
       \/ OnlyReads(device', config')
    BY <1>1, <1>8, <1>9 DEF GateInv
<1> QED
    BY <1>4, <1>5, <1>6, <1>10, <1>11 DEF GateInv

LEMMA Init_Gate == Init => TypeOK /\ GateInv
<1> SUFFICES ASSUME Init
             PROVE  TypeOK /\ GateInv
    OBVIOUS
<1>1. TypeOK
    BY EmptySequence DEF Init, TypeOK, Phases, Ended, SessionConfigs
<1>2. GateInv
    BY EmptySequence, NoDeviceAssumption DEF Init, GateInv, Changed, Updating, ListedAllowed
<1> QED
    BY <1>1, <1>2

\* One write more than any number of reads.
LEMMA ReadsAndOneWrite ==
    ASSUME NEW w \in Commands, NEW reads, \A c \in reads : ~Changing(c)
    PROVE  OneWrite(reads \cup {w})
BY DEF OneWrite

\* Which of the commands the operations begin with only read.
Reading == {"U2GetConnected", "U2Read", "ArcadeGetMode", "U2GetPhysicalMode", "U2GetLightEffect", "Jp108Read",
    "Jp108ReadMacro", "KbRecordRead", "MouseRecordRead", "MouseReceiverLinked", "MouseReadSetting",
    "MouseReadPart", "GetPid", "GetMode", "ReadProfile"}

LEMMA Readers ==
    ASSUME NEW c \in Reading
    PROVE  c \in Commands /\ ~Changing(c)
<1>1. CASE c \in {"U2GetConnected", "U2Read", "ArcadeGetMode", "U2GetPhysicalMode", "U2GetLightEffect"}
  <2>1. c \in U2Commands /\ c \in Commands /\ c \notin {"U2Write", "U2SetLightEffect"}
    BY <1>1 DEF U2Commands, Commands
  <2> QED
    BY <2>1, RowOf, RowFields DEF U2Row, Changing
<1>2. CASE c \in {"Jp108Read", "Jp108ReadMacro"}
  <2>1. c \in Jp108Commands /\ c \in Commands /\ c \notin {"Jp108WriteKey", "Jp108WriteSetting"}
    BY <1>2 DEF Jp108Commands, Commands
  <2> QED
    BY <2>1, RowOf, RowFields DEF Jp108Row, Changing
<1>3. CASE c = "KbRecordRead"
  <2>1. c \in RecordCommands /\ c \in Commands /\ c # "KbRecordWrite"
    BY <1>3 DEF RecordCommands, Commands
  <2> QED
    BY <2>1, RowOf, RowFields DEF RecordRow, Changing
<1>4. CASE c \in {"MouseRecordRead", "MouseReceiverLinked", "MouseReadSetting", "MouseReadPart"}
  <2>1. c \in MouseCommands /\ c \in Commands /\ c \notin {"MouseWrite", "MouseRecordWrite"}
    BY <1>4 DEF MouseCommands, Commands
  <2> QED
    BY <2>1, RowOf, RowFields DEF MouseRow, Changing
<1>5. CASE c \in {"GetPid", "GetMode", "ReadProfile"}
  <2>1. /\ c \in Core /\ c \in Commands /\ c \notin {"SetModeDInput", "WriteProfile"}
        /\ c \notin Boots /\ c \notin Flashes
    BY <1>5 DEF Core, Commands, Boots, Flashes
  <2> QED
    BY <2>1, RowOf, RowFields DEF GenericRow, Changing
<1> QED
    BY <1>1, <1>2, <1>3, <1>4, <1>5 DEF Reading

LEMMA Concatenated ==
    ASSUME NEW S, NEW s \in Seq(S), NEW t \in Seq(S)
    PROVE  s \o t \in Seq(S) /\ (s # <<>> \/ t # <<>> => s \o t # <<>>)
<1>1. s \o t \in Seq(S) /\ Len(s \o t) = Len(s) + Len(t)
    BY ConcatProperties
<1>2. Len(s) \in Nat /\ Len(t) \in Nat
    OBVIOUS
<1>3. s \o t = <<>> => Len(s) = 0 /\ Len(t) = 0
    BY <1>1, <1>2, EmptySeq
<1> QED
    BY <1>1, <1>3, EmptySeq

LEMMA Members ==
    ASSUME NEW S, NEW T, S \subseteq T, NEW s \in Seq(S)
    PROVE  s \in Seq(T) /\ ToSet(s) \subseteq S
BY DEF ToSet

\* What is only read needs no care.
LEMMA OnlyRead ==
    ASSUME NEW commands \in Seq(Reading)
    PROVE  commands \in Seq(Commands) /\ \A c \in ToSet(commands) : ~Changing(c)
BY Members, Readers

LEMMA OneOrTwo ==
    ASSUME NEW S, NEW a \in S, NEW b \in S
    PROVE  /\ <<>> \in Seq(S)
           /\ <<a>> \in Seq(S) /\ <<a>> # <<>> /\ ToSet(<<a>>) \subseteq S
           /\ <<a, b>> \in Seq(S) /\ <<a, b>> # <<>> /\ ToSet(<<a, b>>) \subseteq S
BY DEF ToSet

LEMMA PadReadsType ==
    ASSUME NEW d
    PROVE  /\ PadRecordReads(d) \in Seq(Reading) /\ PadRecordReads(d) # <<>>
           /\ PadReads(d) \in Seq(Reading) /\ PadReads(d) # <<>>
<1> DEFINE connected == IF d \in {"6012", "6013"} THEN <<"U2GetConnected">> ELSE <<>>
           mode == IF d = "600b" THEN <<"ArcadeGetMode">>
                   ELSE IF d \in {"600f", "6011"} \cup UltimateBT THEN <<>> ELSE <<"U2GetPhysicalMode">>
           light == IF d \in Lit THEN <<"U2GetLightEffect">> ELSE <<>>
           record == <<"U2Read">>
<1>1. connected \in Seq(Reading) /\ mode \in Seq(Reading) /\ light \in Seq(Reading)
  <2>1. <<>> \in Seq(Reading) /\ \A c \in Reading : <<c>> \in Seq(Reading)
    OBVIOUS
  <2>2. {"U2GetConnected", "ArcadeGetMode", "U2GetPhysicalMode", "U2GetLightEffect"} \subseteq Reading
    BY DEF Reading
  <2> QED
    BY <2>1, <2>2
<1>2. record \in Seq(Reading) /\ record # <<>>
    BY DEF Reading
<1>3. PadRecordReads(d) = connected \o record \o mode /\ PadReads(d) = PadRecordReads(d) \o light
    BY DEF PadRecordReads, PadReads
<1> HIDE DEF connected, mode, light, record
<1>4. connected \o record \in Seq(Reading) /\ connected \o record # <<>>
    BY <1>1, <1>2, Concatenated
<1>5. PadRecordReads(d) \in Seq(Reading) /\ PadRecordReads(d) # <<>>
    BY <1>1, <1>3, <1>4, Concatenated
<1> QED
    BY <1>1, <1>3, <1>5, Concatenated

LEMMA KeyboardReadsType ==
    ASSUME NEW held
    PROVE  KeyboardReads(held) \in Seq(Reading) /\ KeyboardReads(held) # <<>>
<1> DEFINE macro == IF held THEN <<"Jp108ReadMacro">> ELSE <<>>
           key == <<"Jp108Read">>
<1>1. key \in Seq(Reading) /\ key # <<>>
    BY DEF Reading
<1>2. macro \in Seq(Reading)
    BY OneOrTwo DEF Reading
<1>3. KeyboardReads(held) = key \o macro
    BY DEF KeyboardReads
<1> HIDE DEF macro, key
<1> QED
    BY <1>1, <1>2, <1>3, Concatenated

LEMMA MouseReadsType ==
    ASSUME NEW d
    PROVE  MouseReads(d) \in Seq(Reading) /\ MouseReads(d) # <<>>
<1> DEFINE receiver == IF d = "5206" THEN <<"MouseReceiverLinked">> ELSE <<>>
           parts == <<"MouseReadSetting", "MouseReadPart">>
<1>1. receiver \in Seq(Reading)
  <2>1. <<>> \in Seq(Reading) /\ <<"MouseReceiverLinked">> \in Seq(Reading)
    BY DEF Reading
  <2> QED
    BY <2>1
<1>4. parts \in Seq(Reading) /\ parts # <<>>
    BY DEF Reading
<1>2. CASE d = "205d"
    BY <1>2 DEF MouseReads, Reading
<1>3. CASE d # "205d"
  <2>1. MouseReads(d) = receiver \o parts
    BY <1>3 DEF MouseReads
  <2> HIDE DEF receiver, parts
  <2> QED
    BY <1>1, <1>4, <2>1, Concatenated
<1> QED
    BY <1>2, <1>3

-----------------------------------------------------------------------------
(* The operations.                                                         *)

LEMMA DiagnoseStep ==
    ASSUME TypeOK, GateInv, NEW d \in Devices, Diagnose(d)
    PROVE  TypeOK' /\ GateInv'
<1> DEFINE commands == SetToSeq(DiagCommands(d))
<1>1. DiagCommands(d) \subseteq Commands /\ \A c \in DiagCommands(d) : ~Changing(c)
    BY DEF DiagCommands, Changing
<1>2. commands \in Seq(Commands) /\ commands \in Seq(DiagCommands(d))
    BY <1>1, Enumerated
<1>3. \A c \in ToSet(commands) \cup ToSet(<<>>) : ~Changing(c)
    BY <1>1, <1>2, Members, EmptySequence
<1>4. Open(d, {"experimental"}, "diagnose", commands, <<>>)
    BY DEF Diagnose
<1> HIDE DEF commands
<1>5. ListedAllowed(ToSet(commands) \cup ToSet(<<>>), d, {"experimental"})
    BY <1>3 DEF ListedAllowed
<1>6. "diagnose" \in Firsts /\ "diagnose" \notin Changed \cup {"enter", "read", "survey"}
    BY DEF Firsts, Changed
<1>7. {"experimental"} \in SessionConfigs /\ "unlock" \notin {"experimental"}
    BY DEF SessionConfigs
<1> QED
    BY <1>2, <1>4, <1>5, <1>6, <1>7, OpenStep, EmptySequence

\* An operation that only reads.
LEMMA LookStep ==
    ASSUME TypeOK, GateInv, NEW d \in Devices, NEW cfg \in SessionConfigs, "unlock" \notin cfg,
           NEW reads \in Seq(Reading), reads # <<>>, Open(d, cfg, "look", reads, <<>>)
    PROVE  TypeOK' /\ GateInv'
<1>1. reads \in Seq(Commands) /\ \A c \in ToSet(reads) \cup ToSet(<<>>) : ~Changing(c)
    BY OnlyRead, EmptySequence
<1>2. ListedAllowed(ToSet(reads) \cup ToSet(<<>>), d, cfg)
    BY <1>1 DEF ListedAllowed
<1>3. "look" \in Firsts /\ "look" \notin Changed \cup {"enter", "read", "survey"}
    BY DEF Firsts, Changed
<1> QED
    BY <1>1, <1>2, <1>3, OpenStep, EmptySequence

LEMMA OpsConfigType == OpsConfig \in SessionConfigs /\ "unsafe" \in OpsConfig /\ "unlock" \notin OpsConfig
BY DEF OpsConfig, SessionConfigs

LEMMA PadConfigType == PadConfig \in SessionConfigs /\ "unsafe" \in PadConfig /\ "unlock" \notin PadConfig
BY DEF PadConfig, SessionConfigs

LEMMA ReadProfileStep ==
    ASSUME TypeOK, GateInv, NEW d \in Devices, ReadProfile(d) \/ ResolveSharedProduct(d)
    PROVE  TypeOK' /\ GateInv'
<1>1. ASSUME Open(d, PadConfig, "look", PadReads(d), <<>>)
      PROVE  TypeOK' /\ GateInv'
    BY <1>1, LookStep, PadReadsType, PadConfigType
<1>2. ASSUME NEW held \in BOOLEAN, Open(d, OpsConfig, "look", KeyboardReads(held), <<>>)
      PROVE  TypeOK' /\ GateInv'
    BY <1>2, LookStep, KeyboardReadsType, OpsConfigType
<1>3. ASSUME NEW c \in Reading, NEW cfg \in {{"experimental"}, {}}, Open(d, cfg, "look", <<c>>, <<>>)
      PROVE  TypeOK' /\ GateInv'
  <2> DEFINE reads == <<c>>
  <2>1. reads \in Seq(Reading) /\ reads # <<>>
    OBVIOUS
  <2>2. cfg \in SessionConfigs /\ "unlock" \notin cfg
    BY DEF SessionConfigs
  <2>3. Open(d, cfg, "look", reads, <<>>)
    BY <1>3
  <2> HIDE DEF reads
  <2> QED
    BY <2>1, <2>2, <2>3, LookStep
<1>4. ASSUME Open(d, {"experimental"}, "look", MouseReads(d), <<>>)
      PROVE  TypeOK' /\ GateInv'
  <2>1. {"experimental"} \in SessionConfigs /\ "unlock" \notin {"experimental"}
    BY DEF SessionConfigs
  <2> QED
    BY <1>4, <2>1, LookStep, MouseReadsType
<1>5. {"KbRecordRead", "MouseReceiverLinked", "GetPid"} \subseteq Reading
    BY DEF Reading
<1>6. CASE ReadProfile(d)
  <2>1. \/ Open(d, PadConfig, "look", PadReads(d), <<>>)
        \/ \E held \in BOOLEAN : Open(d, OpsConfig, "look", KeyboardReads(held), <<>>)
        \/ Open(d, {"experimental"}, "look", <<"KbRecordRead">>, <<>>)
        \/ Open(d, {"experimental"}, "look", MouseReads(d), <<>>)
        \/ Open(d, {"experimental"}, "look", <<"MouseReceiverLinked">>, <<>>)
    BY <1>6 DEF ReadProfile
  <2> QED
    BY <1>1, <1>2, <1>3, <1>4, <1>5, <2>1
<1>7. CASE ResolveSharedProduct(d)
    BY <1>3, <1>5, <1>7 DEF ResolveSharedProduct
<1> QED
    BY <1>6, <1>7

\* What is written of a controller and of a keyboard, and of which devices.
LEMMA PadWritesType ==
    ASSUME NEW writes \in {<<"U2Write">>, <<"U2SetLightEffect">>, <<"U2Write", "U2SetLightEffect">>}
    PROVE  /\ writes \in Seq(Commands) /\ writes # <<>>
           /\ ToSet(writes) \subseteq {"U2Write", "U2SetLightEffect"}
<1> DEFINE W == {"U2Write", "U2SetLightEffect"}
<1>1. writes \in Seq(W) /\ writes # <<>>
  <2>1. "U2Write" \in W /\ "U2SetLightEffect" \in W
    OBVIOUS
  <2> HIDE DEF W
  <2>2. /\ <<"U2Write">> \in Seq(W) /\ <<"U2SetLightEffect">> \in Seq(W)
        /\ <<"U2Write", "U2SetLightEffect">> \in Seq(W)
    BY <2>1, OneOrTwo
  <2>3. writes # <<>>
    OBVIOUS
  <2> QED
    BY <2>2, <2>3
<1>2. W \subseteq Commands
    BY DEF Commands, U2Commands
<1> QED
    BY <1>1, <1>2, Members

LEMMA KeyboardWritesType ==
    ASSUME NEW writes \in {<<"Jp108WriteKey">>, <<"Jp108WriteSetting">>, <<"Jp108WriteKey", "Jp108WriteSetting">>}
    PROVE  /\ writes \in Seq(Commands) /\ writes # <<>>
           /\ ToSet(writes) \subseteq {"Jp108WriteKey", "Jp108WriteSetting"}
<1> DEFINE W == {"Jp108WriteKey", "Jp108WriteSetting"}
<1>1. writes \in Seq(W) /\ writes # <<>>
  <2>1. "Jp108WriteKey" \in W /\ "Jp108WriteSetting" \in W
    OBVIOUS
  <2> HIDE DEF W
  <2>2. /\ <<"Jp108WriteKey">> \in Seq(W) /\ <<"Jp108WriteSetting">> \in Seq(W)
        /\ <<"Jp108WriteKey", "Jp108WriteSetting">> \in Seq(W)
    BY <2>1, OneOrTwo
  <2>3. writes # <<>>
    OBVIOUS
  <2> QED
    BY <2>2, <2>3
<1>2. W \subseteq Commands
    BY DEF Commands, Jp108Commands
<1> QED
    BY <1>1, <1>2, Members

LEMMA KindsOfCapability ==
    ASSUME NEW d, {"u2_slots", "jp108"} \cap Capability(d) # {}
    PROVE  Capability(d) \cap Ceremonial = {}
BY DEF Capability, CandidateCapability, FullCapability, Generic, Ceremonial

LEMMA PadSequence ==
    ASSUME TypeOK, GateInv, NEW d \in Devices, "u2_slots" \in Capability(d), NEW first \in {"read", "compare"},
           NEW reads \in Seq(Reading), reads # <<>>,
           NEW writes \in {<<"U2Write">>, <<"U2SetLightEffect">>, <<"U2Write", "U2SetLightEffect">>},
           Open(d, PadConfig, first, reads, writes)
    PROVE  TypeOK' /\ GateInv'
<1>1. reads \in Seq(Commands) /\ \A c \in ToSet(reads) : ~Changing(c)
    BY OnlyRead
<1>2. /\ writes \in Seq(Commands) /\ writes # <<>>
      /\ ToSet(writes) \subseteq {"U2Write", "U2SetLightEffect"}
    BY PadWritesType
<1>3. Capability(d) \cap Ceremonial = {}
    BY KindsOfCapability
<1>4. TierOf[d] = "full" => ListedAllowed(ToSet(reads) \cup ToSet(writes), d, PadConfig)
    BY <1>1, <1>2, PadConfigType, PadWritesAllowed DEF ListedAllowed
<1>5. TierOf[d] # "full" => OnlyReads(d, PadConfig)
    BY PadConfigType DEF OnlyReads
<1>6. first \in Firsts /\ first # "enter" /\ first # "diagnose"
    BY DEF Firsts
<1> QED
    BY <1>1, <1>2, <1>3, <1>4, <1>5, <1>6, PadConfigType, OpenStep

LEMMA KeyboardSequence ==
    ASSUME TypeOK, GateInv, NEW d \in Devices, "jp108" \in Capability(d),
           NEW first \in {"read", "survey", "rewrite", "compare", "replay"},
           NEW reads \in Seq(Commands), reads # <<>>,
           \A c \in ToSet(reads) : Changing(c) => c \in {"Jp108WriteKey", "Jp108WriteSetting"},
           NEW writes \in Seq(Commands), first \in Changed => writes # <<>>,
           ToSet(writes) \subseteq {"Jp108WriteKey", "Jp108WriteSetting"},
           Open(d, OpsConfig, first, reads, writes)
    PROVE  TypeOK' /\ GateInv'
<1>3. Capability(d) \cap Ceremonial = {}
    BY KindsOfCapability
<1>4. TierOf[d] = "full" => ListedAllowed(ToSet(reads) \cup ToSet(writes), d, OpsConfig)
    BY OpsConfigType, KeyboardWritesAllowed DEF ListedAllowed
<1>5. TierOf[d] # "full" => OnlyReads(d, OpsConfig)
    BY OpsConfigType DEF OnlyReads
<1>6. first \in Firsts /\ first # "enter" /\ first # "diagnose"
    BY DEF Firsts
<1> QED
    BY <1>3, <1>4, <1>5, <1>6, OpsConfigType, OpenStep

LEMMA KeyWrite ==
    LET key == <<"Jp108WriteKey">> IN
    /\ key \in Seq(Commands) /\ key # <<>> /\ ToSet(key) \subseteq {"Jp108WriteKey", "Jp108WriteSetting"}
BY KeyboardWritesType

LEMMA ApplyKeyboardStep ==
    ASSUME TypeOK, GateInv, NEW d \in Devices, NEW held \in BOOLEAN,
           \/ \E writes \in {<<"Jp108WriteKey">>, <<"Jp108WriteSetting">>,
                             <<"Jp108WriteKey", "Jp108WriteSetting">>} : ApplyKeyboard(d, held, writes)
           \/ \E keep \in BOOLEAN : ApplyDedicatedMapping(d, keep)
           \/ ClearKeyboard(d, held)
    PROVE  TypeOK' /\ GateInv'
<1> DEFINE key == <<"Jp108WriteKey">>
           question == <<"Jp108Read">>
<1>1. /\ KeyboardReads(held) \in Seq(Commands) /\ KeyboardReads(held) # <<>>
      /\ \A c \in ToSet(KeyboardReads(held)) : ~Changing(c)
    BY KeyboardReadsType, OnlyRead
<1>2. question \in Seq(Commands) /\ question # <<>> /\ \A c \in ToSet(question) : ~Changing(c)
  <2>1. question \in Seq(Reading) /\ question # <<>>
    BY DEF Reading
  <2> HIDE DEF question
  <2> QED
    BY <2>1, OnlyRead
<1>3. key \in Seq(Commands) /\ key # <<>> /\ ToSet(key) \subseteq {"Jp108WriteKey", "Jp108WriteSetting"}
    BY KeyWrite
<1>4. "jp108" \in Capability(d)
    BY DEF ApplyKeyboard, ApplyDedicatedMapping, ClearKeyboard
<1>5. \/ \E writes \in {<<"Jp108WriteKey">>, <<"Jp108WriteSetting">>, <<"Jp108WriteKey", "Jp108WriteSetting">>} :
            Open(d, OpsConfig, "read", KeyboardReads(held), writes)
      \/ Open(d, OpsConfig, "read", question, key)
      \/ Open(d, OpsConfig, "rewrite", key, <<>>)
      \/ Open(d, OpsConfig, "survey", KeyboardReads(held), key)
    BY DEF ApplyKeyboard, ApplyDedicatedMapping, ClearKeyboard
<1> HIDE DEF key, question
<1>6. CASE \E writes \in {<<"Jp108WriteKey">>, <<"Jp108WriteSetting">>, <<"Jp108WriteKey", "Jp108WriteSetting">>} :
              Open(d, OpsConfig, "read", KeyboardReads(held), writes)
  <2>1. PICK writes \in {<<"Jp108WriteKey">>, <<"Jp108WriteSetting">>, <<"Jp108WriteKey", "Jp108WriteSetting">>} :
            Open(d, OpsConfig, "read", KeyboardReads(held), writes)
    BY <1>6
  <2>2. /\ writes \in Seq(Commands) /\ writes # <<>>
        /\ ToSet(writes) \subseteq {"Jp108WriteKey", "Jp108WriteSetting"}
    BY KeyboardWritesType
  <2> QED
    BY <1>1, <1>4, <2>1, <2>2, KeyboardSequence
<1>7. CASE Open(d, OpsConfig, "read", question, key)
    BY <1>2, <1>3, <1>4, <1>7, KeyboardSequence
<1>8. CASE Open(d, OpsConfig, "rewrite", key, <<>>)
    BY <1>3, <1>4, <1>8, EmptySequence, KeyboardSequence DEF Changed
<1>9. CASE Open(d, OpsConfig, "survey", KeyboardReads(held), key)
    BY <1>1, <1>3, <1>4, <1>9, KeyboardSequence
<1> QED
    BY <1>5, <1>6, <1>7, <1>8, <1>9

\* An operation with the unlock, behind the ceremony or to restore a backup from
\* behind it, that writes with one command only.
LEMMA UnlockedStep ==
    ASSUME TypeOK, GateInv, NEW d \in Devices, NEW first \in {"read", "compare"},
           \/ Ceremony
           \/ first = "compare" /\ "advanced" \in settings /\ Replays(d, backup),
           NEW reads \in Seq(Reading), reads # <<>>,
           NEW w \in Commands, Open(d, Unlocked, first, reads, <<w>>)
    PROVE  TypeOK' /\ GateInv'
<1> DEFINE writes == <<w>>
<1>1. reads \in Seq(Commands) /\ \A c \in ToSet(reads) : ~Changing(c)
    BY OnlyRead
<1>2. writes \in Seq(Commands) /\ writes # <<>> /\ ToSet(writes) = {w}
    BY DEF ToSet
<1>3. Unlocked \in SessionConfigs /\ (Ceremony => settings = Settings)
    BY DEF Unlocked, SessionConfigs, Ceremony, TypeOK
<1> HIDE DEF writes
<1>4. OneWrite(ToSet(reads) \cup ToSet(writes))
    BY <1>1, <1>2, ReadsAndOneWrite
<1>5. Open(d, Unlocked, first, reads, writes)
    BY DEF writes
<1>6. first \in Firsts /\ first # "enter" /\ first # "diagnose"
    BY DEF Firsts
<1> QED
    BY <1>1, <1>2, <1>3, <1>4, <1>5, <1>6, OpenStep

LEMMA RecordKeyboardStep ==
    ASSUME TypeOK, GateInv, NEW d \in Devices, NEW first \in {"read", "compare"},
           \/ Ceremony
           \/ first = "compare" /\ "advanced" \in settings /\ Replays(d, backup),
           Open(d, Unlocked, first, <<"KbRecordRead">>, <<"KbRecordWrite">>)
    PROVE  TypeOK' /\ GateInv'
<1> DEFINE reads == <<"KbRecordRead">>
<1>1. reads \in Seq(Reading) /\ reads # <<>>
    BY DEF Reading
<1>2. "KbRecordWrite" \in Commands
    BY DEF Commands, RecordCommands
<1>3. Open(d, Unlocked, first, reads, <<"KbRecordWrite">>)
    OBVIOUS
<1> HIDE DEF reads
<1> QED
    BY <1>1, <1>2, <1>3, UnlockedStep

LEMMA MouseStep ==
    ASSUME TypeOK, GateInv, NEW d \in Devices, NEW first \in {"read", "compare"},
           \/ Ceremony
           \/ first = "compare" /\ "advanced" \in settings /\ Replays(d, backup),
           Open(d, Unlocked, first, MouseReads(d), MouseWrites(d))
    PROVE  TypeOK' /\ GateInv'
<1> DEFINE w == IF d = "205d" THEN "MouseRecordWrite" ELSE "MouseWrite"
<1>1. w \in Commands
    BY DEF Commands, MouseCommands
<1>2. Open(d, Unlocked, first, MouseReads(d), <<w>>)
    BY DEF MouseWrites
<1> HIDE DEF w
<1> QED
    BY <1>1, <1>2, MouseReadsType, UnlockedStep

\* A backup of a device that is unlocked for is one from behind the ceremony.
LEMMA RestoreStep ==
    ASSUME TypeOK, GateInv, NEW d \in Devices, RestoreBackup(d)
    PROVE  TypeOK' /\ GateInv'
<1> DEFINE key == <<"Jp108WriteKey">>
           keys == <<"Jp108WriteKey", "Jp108WriteSetting">>
<1>1. Capability(d) \cap Ceremonial # {} => Replays(d, backup)
  <2>1. backup.of = d /\ backup \in [of : Devices \cup {NoDevice}, ceremony : BOOLEAN]
    BY DEF RestoreBackup, TypeOK
  <2> QED
    BY <2>1 DEF GateInv, Replays
<1>2. CASE "u2_slots" \in Capability(d) /\ Open(d, PadConfig, "compare", PadRecordReads(d), <<"U2Write">>)
    BY <1>2, PadReadsType, PadSequence
<1>3. ASSUME "jp108" \in Capability(d), NEW held \in BOOLEAN,
             Open(d, OpsConfig, "compare", KeyboardReads(held), keys)
      PROVE  TypeOK' /\ GateInv'
  <2>1. /\ KeyboardReads(held) \in Seq(Commands) /\ KeyboardReads(held) # <<>>
        /\ \A c \in ToSet(KeyboardReads(held)) : ~Changing(c)
    BY KeyboardReadsType, OnlyRead
  <2>2. keys \in Seq(Commands) /\ keys # <<>> /\ ToSet(keys) \subseteq {"Jp108WriteKey", "Jp108WriteSetting"}
    BY KeyboardWritesType
  <2> HIDE DEF keys
  <2> QED
    BY <1>3, <2>1, <2>2, KeyboardSequence
<1>4. ASSUME "jp108" \in Capability(d), Open(d, OpsConfig, "replay", key, <<>>)
      PROVE  TypeOK' /\ GateInv'
  <2>1. key \in Seq(Commands) /\ key # <<>> /\ ToSet(key) \subseteq {"Jp108WriteKey", "Jp108WriteSetting"}
    BY KeyWrite
  <2> HIDE DEF key
  <2> QED
    BY <1>4, <2>1, EmptySequence, KeyboardSequence DEF Changed
<1>5. ASSUME "record" \in Capability(d), "advanced" \in settings,
             Open(d, Unlocked, "compare", <<"KbRecordRead">>, <<"KbRecordWrite">>)
      PROVE  TypeOK' /\ GateInv'
  <2>1. Replays(d, backup)
    BY <1>1, <1>5 DEF Ceremonial
  <2> QED
    BY <1>5, <2>1, RecordKeyboardStep
<1>6. ASSUME "mouse" \in Capability(d), "advanced" \in settings,
             Open(d, Unlocked, "compare", MouseReads(d), MouseWrites(d))
      PROVE  TypeOK' /\ GateInv'
  <2>1. Replays(d, backup)
    BY <1>1, <1>6 DEF Ceremonial
  <2> QED
    BY <1>6, <2>1, MouseStep
<1> QED
    BY <1>2, <1>3, <1>4, <1>5, <1>6 DEF RestoreBackup

LEMMA ProbeStep ==
    ASSUME TypeOK, GateInv, NEW d \in Devices, Probe(d)
    PROVE  TypeOK' /\ GateInv'
<1> DEFINE mode == IF "mode" \in Capability(d) THEN <<"GetMode", "SetModeDInput", "GetMode">> ELSE <<>>
           profile == IF "profile" \in Capability(d) THEN <<"ReadProfile", "WriteProfile", "ReadProfile">> ELSE <<>>
           commands == mode \o profile
<1>1. mode \in Seq(Core) /\ profile \in Seq(Core)
  <2>1. /\ <<"GetMode", "SetModeDInput", "GetMode">> \in Seq(Core)
        /\ <<"ReadProfile", "WriteProfile", "ReadProfile">> \in Seq(Core)
        /\ <<>> \in Seq(Core)
    BY DEF Core
  <2> QED
    BY <2>1
<1>2. mode # <<>> \/ profile # <<>>
    BY DEF Probe
<1>3. Open(d, Unlocked, "probe", commands, <<>>) /\ Ceremony
    BY DEF Probe
<1>4. Unlocked \in SessionConfigs /\ settings = Settings
    BY <1>3 DEF Unlocked, SessionConfigs, Ceremony, TypeOK
<1> HIDE DEF mode, profile
<1>5. commands \in Seq(Core) /\ commands # <<>>
    BY <1>1, <1>2, Concatenated
<1> HIDE DEF commands
<1>6. Core \subseteq Commands
    BY DEF Commands
<1>7. commands \in Seq(Commands) /\ ToSet(commands) \subseteq Core
    BY <1>5, <1>6, Members
<1>8. \A c \in Core : CommandRegistry[c].appliesTo = {}
    BY <1>6, RowOf, RowFields DEF GenericRow
<1>9. ListedAllowed(ToSet(commands) \cup ToSet(<<>>), d, Unlocked)
    BY <1>7, <1>8, EmptySequence DEF ListedAllowed
<1>10. "probe" \in Firsts /\ "probe" \notin Changed \cup {"diagnose", "enter", "read", "survey"}
    BY DEF Firsts, Changed
<1> QED
    BY <1>3, <1>4, <1>5, <1>7, <1>9, <1>10, EmptySequence, OpenStep

LEMMA UpdateFirmwareStep ==
    ASSUME TypeOK, GateInv, NEW d \in Devices, NEW experimental \in SUBSET {"experimental"},
           UpdateFirmware(d, experimental)
    PROVE  TypeOK' /\ GateInv'
<1> DEFINE cfg == {"unsafe"} \cup experimental
           commands == SubSeq(FirmwarePath(d), 1, 1)
<1>1. TierOf[d] = "full" /\ "firmware" \in Capability(d) /\ Open(d, cfg, "enter", commands, <<>>)
    BY DEF UpdateFirmware
<1>2. cfg \in SessionConfigs /\ "unsafe" \in cfg /\ "unlock" \notin cfg
    BY DEF SessionConfigs
<1>3. /\ commands \in Seq(Commands) /\ commands # <<>>
      /\ ToSet(commands) \subseteq ToSet(FirmwarePath(d))
  <2>1. 1 \in 1..4
    OBVIOUS
  <2> QED
    BY <2>1, FirmwareStretch
<1> HIDE DEF cfg, commands
<1>4. ListedAllowed(ToSet(commands) \cup ToSet(<<>>), d, cfg)
    BY <1>1, <1>2, <1>3, FirmwareIsAllowed, EmptySequence DEF ListedAllowed
<1>5. Updatable(d, cfg)
    BY <1>1, <1>2 DEF Updatable
<1>6. "enter" \in Firsts /\ "enter" \notin Changed \cup {"diagnose", "read", "survey"}
    BY DEF Firsts, Changed
<1> QED
    BY <1>1, <1>2, <1>3, <1>4, <1>5, <1>6, EmptySequence, OpenStep

LEMMA GateStep ==
    ASSUME TypeOK, GateInv, [Next]_vars
    PROVE  TypeOK' /\ GateInv'
<1>1. ASSUME NEW option \in Settings, Toggle(option)
      PROVE  TypeOK' /\ GateInv'
    BY <1>1 DEF Toggle, TypeOK, GateInv
<1>2. ASSUME NEW d \in Devices, ApplyRecordKeyboard(d)
      PROVE  TypeOK' /\ GateInv'
    BY <1>2, RecordKeyboardStep DEF ApplyRecordKeyboard
<1>3. ASSUME NEW d \in Devices, ApplyMouse(d)
      PROVE  TypeOK' /\ GateInv'
    BY <1>3, MouseStep DEF ApplyMouse
<1>4. ASSUME NEW d \in Devices,
             NEW writes \in {<<"U2Write">>, <<"U2SetLightEffect">>, <<"U2Write", "U2SetLightEffect">>},
             ApplyPad(d, writes)
      PROVE  TypeOK' /\ GateInv'
    BY <1>4, PadReadsType, PadSequence DEF ApplyPad
<1>5. ASSUME NEW d \in Devices, NEW keep \in BOOLEAN, ApplyDedicatedMapping(d, keep)
      PROVE  TypeOK' /\ GateInv'
    BY <1>5, ApplyKeyboardStep
<1>6. CASE UNCHANGED vars
    BY <1>6 DEF vars, TypeOK, GateInv
<1> QED
    BY <1>1, <1>2, <1>3, <1>4, <1>5, <1>6, DiagnoseStep, ReadProfileStep, ApplyKeyboardStep, RestoreStep,
       ProbeStep, UpdateFirmwareStep, SendStep DEF Next

-----------------------------------------------------------------------------
(* The theorems.                                                           *)

LEMMA Gated == Spec => [](TypeOK /\ GateInv)
BY Init_Gate, GateStep, PTL DEF Spec

\* The settings, the operation under way and what it has sent and still has to send
\* keep their types, and an operation is over exactly when nothing is left to send.
THEOREM TypeCorrect == Spec => []TypeOK
BY Gated, PTL

\* Whatever devices there are and whatever tiers they are given, one whose support
\* is not confirmed is sent no command that changes it, except a candidate, by an
\* operation begun behind the whole ceremony or the restore of a backup such an
\* operation kept (session_authorization.go, RestoreBackup).
THEOREM OnlyTheConfirmedChange == Spec => []UnconfirmedIsReadOnly
<1>1. TypeOK /\ GateInv => UnconfirmedIsReadOnly
    BY AllowedChange DEF TypeOK, GateInv, Replays, UnconfirmedIsReadOnly
<1> QED
    BY <1>1, Gated, PTL

\* A device is sent the commands of its own kind only (validation.go).
THEOREM KindsKeepApart == Spec => []OwnCommandsOnly
<1>1. TypeOK /\ GateInv => OwnCommandsOnly
    BY AllowedKind DEF TypeOK, GateInv, OwnCommandsOnly
<1> QED
    BY <1>1, Gated, PTL

\* A device the registry lists for the writes of an operation gets all of them or
\* none, for any tiers (session_authorization.go's full-support path).
THEOREM AllOrNothing == Spec => []ListedIsAllOrNothing
<1>1. TypeOK /\ GateInv => ListedIsAllOrNothing
    BY AllowedChange DEF TypeOK, GateInv, ListedIsAllOrNothing, ListedAllowed, OneWrite, OnlyReads
<1> QED
    BY <1>1, Gated, PTL

-----------------------------------------------------------------------------
(***************************************************************************)
(* The list of devices that operations are begun from: DeviceListing, for  *)
(* any units, any aliases and any number of reloads at once, under the     *)
(* assumption that module makes of them.                                   *)
(***************************************************************************)

\* The smaller number, as a relation.
Less == OpToRel(<, Nat)

LEMMA LessWellFounded == IsWellFoundedOn(Less, Nat)
BY NatLessThanWellFounded DEF Less

LEMMA LessPairs == \A x, y \in Nat : y < x => <<y, x>> \in Less
BY DEF OpToRel, Less

LEMMA Smallest ==
    ASSUME NEW T, T \subseteq Nat, T # {}
    PROVE  \E x \in T : \A y \in T : x <= y
<1>1. PICK x \in T : \A y \in T : <<y, x>> \notin Less
    BY LessWellFounded, WFMin
<1>2. \A y \in T : ~(y < x)
    BY <1>1, LessPairs
<1> QED
    BY <1>2

-----------------------------------------------------------------------------
(* Interfaces.                                                             *)

\* The units at hand and those plugged in are what the machine may have.
Sited == site \in Sites /\ plugged \subseteq Units

LEMMA UnitFacts ==
    ASSUME Admissible, Sited, NEW u \in Units
    PROVE  /\ Unit(u).serial \in Nat /\ Unit(u).order \in Nat
           /\ Unit(u).usages \subseteq Usages /\ Unit(u).usages # {}
           /\ \A v \in Units : Unit(v).order = Unit(u).order => v = u
           /\ Unit(u).pid \in Pids /\ Unit(u).serial \in Serials
           /\ Unit(u).reports \in Reports
BY DEF Admissible, Sited, Unit, Pids, Serials, Reports

LEMMA RankFacts ==
    /\ \A usage \in Usages : Rank(usage) \in 1..3
    /\ \A v, w \in Usages : Rank(v) = Rank(w) => v = w
<1>1. Rank("config") = 1 /\ Rank("gamepad") = 2 /\ Rank("unknown") = 3
    BY DEF Rank
<1> QED
    BY <1>1 DEF Usages

LEMMA InterfaceFacts ==
    ASSUME Admissible, Sited, NEW i \in Interfaces
    PROVE  /\ i.unit \in plugged /\ i.usage \in Unit(i.unit).usages
           /\ i = Interface(i.unit, i.usage)
           /\ i.unit \in Units /\ i.usage \in Usages
           /\ i.pid = Unit(i.unit).pid /\ i.serial = Unit(i.unit).serial
           /\ i.serial \in Nat /\ i.path \in Nat
           /\ i.path = 4 * Unit(i.unit).order + Rank(i.usage)
           /\ i.pid \in Pids /\ i.serial \in Serials
           /\ Unit(i.unit).reports \in Reports
<1>0. PICK u \in plugged : i \in {Interface(u, usage) : usage \in Unit(u).usages}
    BY DEF Interfaces
<1>1. PICK w \in Unit(u).usages : i = Interface(u, w)
    BY <1>0
<1>2. /\ i.unit = u /\ i.usage = w /\ i.pid = Unit(u).pid /\ i.serial = Unit(u).serial
      /\ i.path = 4 * Unit(u).order + Rank(w)
    BY <1>1 DEF Interface
<1>3. u \in Units /\ w \in Usages
    BY <1>1, UnitFacts DEF Sited
<1>4. i.path \in Nat
    BY <1>2, <1>3, UnitFacts, RankFacts
<1> QED
    BY <1>1, <1>2, <1>3, <1>4, UnitFacts

LEMMA PathsApart ==
    ASSUME Admissible, Sited,
           NEW i \in Interfaces, NEW j \in Interfaces, i.path = j.path
    PROVE  i = j
<1>1. /\ i.unit \in Units /\ i.usage \in Usages /\ i = Interface(i.unit, i.usage)
      /\ j.unit \in Units /\ j.usage \in Usages /\ j = Interface(j.unit, j.usage)
      /\ 4 * Unit(i.unit).order + Rank(i.usage) = 4 * Unit(j.unit).order + Rank(j.usage)
    BY InterfaceFacts
<1>2. /\ Unit(i.unit).order \in Nat /\ Unit(j.unit).order \in Nat
      /\ Rank(i.usage) \in 1..3 /\ Rank(j.usage) \in 1..3
    BY <1>1, UnitFacts, RankFacts
<1>4. Unit(i.unit).order = Unit(j.unit).order /\ Rank(i.usage) = Rank(j.usage)
  <2> DEFINE m == Unit(i.unit).order
             n == Unit(j.unit).order
             a == Rank(i.usage)
             b == Rank(j.usage)
  <2>1. m \in Nat /\ n \in Nat /\ a \in 1..3 /\ b \in 1..3 /\ 4 * m + a = 4 * n + b
    BY <1>1, <1>2
  <2> HIDE DEF m, n, a, b
  <2>2. m = n /\ a = b
    BY <2>1
  <2> QED
    BY <2>2 DEF m, n, a, b
<1>5. i.unit = j.unit /\ i.usage = j.usage
    BY <1>1, <1>4, UnitFacts, RankFacts
<1> QED
    BY <1>1, <1>5

LEMMA FinitelyMany ==
    ASSUME Admissible, Sited
    PROVE  IsFiniteSet(Interfaces)
<1>1. IsFiniteSet(plugged) /\ IsFiniteSet(Usages)
  <2>1. IsFiniteSet(plugged)
    BY FS_Subset DEF Admissible, Sited
  <2>2. IsFiniteSet({} \union {"config"} \union {"gamepad"} \union {"unknown"})
    BY FS_EmptySet, FS_AddElement
  <2> QED
    BY <2>1, <2>2 DEF Usages
<1>2. IsFiniteSet(plugged \X Usages)
    BY <1>1, FS_Product
<1> DEFINE f == [i \in Interfaces |-> <<i.unit, i.usage>>]
<1>3. f \in [Interfaces -> plugged \X Usages]
    BY InterfaceFacts
<1>4. \A i, j \in Interfaces : f[i] = f[j] => i = j
    BY InterfaceFacts
<1>5. f \in Injection(Interfaces, plugged \X Usages)
    BY <1>3, <1>4 DEF Injection, IsInjective
<1> QED
    BY <1>2, <1>5, FS_Injection

-----------------------------------------------------------------------------
(* The preferred one.                                                      *)

LEMMA OnePreferred ==
    ASSUME Admissible, Sited,
           NEW i \in Interfaces, NEW j \in Interfaces, Prefers(i, j)
    PROVE  ~Prefers(j, i)
BY InterfaceFacts DEF Prefers

LEMMA PreferredOf ==
    ASSUME Admissible, Sited, NEW S, S \subseteq Interfaces, S # {}
    PROVE  Preferred(S) \in S
<1>1. PICK T : /\ T \subseteq S /\ T # {}
               /\ \A i \in T, j \in S :
                    \/ i.usage = "config" /\ j.usage # "config"
                    \/ (i.usage = "config") = (j.usage = "config") /\ j \in T
  <2>1. CASE Config(S) # {}
    <3>1. \A i \in Config(S), j \in S :
             \/ i.usage = "config" /\ j.usage # "config"
             \/ (i.usage = "config") = (j.usage = "config") /\ j \in Config(S)
      BY DEF Config
    <3> QED
      BY <2>1, <3>1 DEF Config
  <2>2. CASE Config(S) = {}
    <3>1. \A j \in S : j.usage # "config"
      BY <2>2 DEF Config
    <3> QED
      BY <3>1
  <2> QED
    BY <2>1, <2>2
<1> DEFINE serials == {i.serial : i \in T}
<1>2. serials \subseteq Nat /\ serials # {}
    BY <1>1, InterfaceFacts
<1>3. PICK n \in serials : \A m \in serials : n <= m
    BY <1>2, Smallest
<1> DEFINE U == {i \in T : i.serial = n}
           paths == {i.path : i \in U}
<1>4. paths \subseteq Nat /\ paths # {}
    BY <1>1, <1>3, InterfaceFacts
<1>5. PICK p \in paths : \A q \in paths : p <= q
    BY <1>4, Smallest
<1>6. PICK m \in U : m.path = p
    BY <1>5
<1>7. ASSUME NEW j \in S \ {m}
      PROVE  Prefers(m, j)
  <2>1. m \in T /\ m \in Interfaces /\ j \in Interfaces /\ m.serial = n
    BY <1>1, <1>6
  <2>2. CASE m.usage = "config" /\ j.usage # "config"
    BY <2>2 DEF Prefers
  <2>3. CASE (m.usage = "config") = (j.usage = "config") /\ j \in T
    <3>1. m.serial <= j.serial /\ m.serial \in Nat /\ j.serial \in Nat
      BY <1>3, <2>1, <2>3, InterfaceFacts
    <3>2. CASE m.serial = j.serial
      <4>1. j \in U
        BY <2>1, <2>3, <3>2
      <4>2. m.path <= j.path /\ m.path # j.path /\ m.path \in Nat /\ j.path \in Nat
        BY <1>5, <1>6, <2>1, <4>1, PathsApart, InterfaceFacts
      <4> QED
        BY <2>3, <3>2, <4>2 DEF Prefers
    <3>3. CASE m.serial # j.serial
      BY <2>3, <3>1, <3>3 DEF Prefers
    <3> QED
      BY <3>2, <3>3
  <2> QED
    BY <1>1, <2>1, <2>2, <2>3
<1>8. m \in S /\ \A j \in S \ {m} : Prefers(m, j)
    BY <1>1, <1>6, <1>7
<1> QED
    BY <1>8 DEF Preferred

LEMMA OneOpened ==
    ASSUME Admissible, Sited, NEW pid, NEW i \in Opened(pid), NEW j \in Opened(pid)
    PROVE  i = j /\ i \in Of(pid)
<1>1. Selectable(pid) \subseteq Of(pid)
    BY DEF Selectable, Config
<1>2. Of(pid) \subseteq Interfaces
    BY DEF Of
<1> QED
    BY <1>1, <1>2, OnePreferred DEF Opened

-----------------------------------------------------------------------------
(* Rows.                                                                   *)

LEMMA Representatives ==
    ASSUME Admissible, Sited, NEW infos, infos \subseteq Interfaces
    PROVE  /\ Deduplicated(infos) \subseteq infos
           /\ \A i \in infos : \E x \in Deduplicated(infos) : x.serial = i.serial
<1>1. ASSUME NEW serial \in {i.serial : i \in infos}
      PROVE  Preferred({i \in infos : i.serial = serial}) \in {i \in infos : i.serial = serial}
  <2> DEFINE same == {i \in infos : i.serial = serial}
  <2>1. same \subseteq Interfaces /\ same # {}
    OBVIOUS
  <2> HIDE DEF same
  <2> QED
    BY <2>1, PreferredOf DEF same
<1>2. Deduplicated(infos) \subseteq infos
    BY <1>1 DEF Deduplicated
<1>3. ASSUME NEW i \in infos
      PROVE  \E x \in Deduplicated(infos) : x.serial = i.serial
  <2>1. CASE i.serial = 0
    BY <2>1 DEF Deduplicated
  <2>2. CASE i.serial # 0
    <3>1. Preferred({j \in infos : j.serial = i.serial}) \in Deduplicated(infos)
      BY <2>2 DEF Deduplicated
    <3> QED
      BY <1>1, <3>1
  <2> QED
    BY <2>1, <2>2
<1> QED
    BY <1>2, <1>3

\* A row that has a serial number has that of every interface with its product id.
LEMMA RowSerial ==
    ASSUME Admissible, Sited, NEW i \in Interfaces
    PROVE  ListedRow(i.pid).serial \in {0, i.serial}
<1> DEFINE physical == Deduplicated(Of(i.pid))
<1>1. Of(i.pid) \subseteq Interfaces /\ i \in Of(i.pid)
    BY DEF Of
<1>2. physical \subseteq Of(i.pid)
    BY <1>1, Representatives
<1>3. PICK x \in physical : x.serial = i.serial
    BY <1>1, Representatives
<1>4. IsFiniteSet(physical)
    BY <1>1, <1>2, FinitelyMany, FS_Subset
<1>5. ListedRow(i.pid).serial = IF Cardinality(physical) > 1 THEN 0 ELSE Preferred(physical).serial
    BY DEF ListedRow
<1> HIDE DEF physical
<1>6. ASSUME ~(Cardinality(physical) > 1)
      PROVE  Preferred(physical) = x
  <2>1. Cardinality(physical) \in Nat /\ Cardinality(physical) # 0
    BY <1>3, <1>4, FS_CardinalityType, FS_EmptySet
  <2>2. Cardinality(physical) = 1
    BY <1>6, <2>1
  <2>3. PICK y : physical = {y}
    BY <1>4, <2>2, FS_Singleton
  <2>4. Preferred(physical) \in physical
    BY <1>1, <1>2, <1>3, PreferredOf
  <2> QED
    BY <1>3, <2>3, <2>4
<1> QED
    BY <1>3, <1>5, <1>6

LEMMA RowFacts ==
    ASSUME Admissible, Sited, NEW r \in Rows
    PROVE  /\ r \in RowType /\ r = ListedRow(r.pid) /\ r.product = NoProduct
           /\ \E i \in Interfaces : r.pid = i.pid
           /\ \A i \in Opened(r.pid) : r.serial \in {0, i.serial}
           /\ r.channel = "absent" => Opened(r.pid) = {}
<1>1. PICK i \in Interfaces : r = ListedRow(i.pid)
    BY DEF Rows
<1>2. r.pid = i.pid /\ r.product = NoProduct /\ r.channel = Channel(Of(i.pid))
    BY <1>1 DEF ListedRow
<1>3. Channel(Of(i.pid)) \in {"present", "absent", "unknown"}
    BY DEF Channel
<1>4. r \in RowType
  <2>1. r.serial \in Serials
    <3>1. i.serial \in Serials /\ 0 \in Serials
      BY InterfaceFacts DEF Serials
    <3> QED
      BY <1>1, <3>1, RowSerial
  <2>2. i.pid \in Pids
    BY InterfaceFacts
  <2>3. r = [pid |-> r.pid, serial |-> r.serial, channel |-> r.channel, product |-> r.product]
    BY <1>1 DEF ListedRow
  <2> QED
    BY <1>2, <1>3, <2>1, <2>2, <2>3 DEF RowType
<1>5. \A j \in Opened(r.pid) : r.serial \in {0, j.serial}
  <2>1. \A j \in Opened(r.pid) : j \in Interfaces /\ j.pid = r.pid
    BY OneOpened DEF Of
  <2> QED
    BY <1>1, <1>2, <2>1, RowSerial
<1>6. ASSUME Channel(Of(i.pid)) = "absent"
      PROVE  Opened(i.pid) = {}
  <2>1. Config(Of(i.pid)) = {} /\ ~\E j \in Of(i.pid) : j.usage = "unknown"
    BY <1>6 DEF Channel
  <2>2. i \in Of(i.pid)
    BY DEF Of
  <2>3. Selectable(i.pid) = {}
    BY <2>1, <2>2 DEF Selectable
  <2> QED
    BY <2>3 DEF Opened
<1> QED
    BY <1>1, <1>2, <1>4, <1>5, <1>6

\* Every connected unit has a row, and no other.
LEMMA RowsOfUnits ==
    ASSUME Admissible, Sited
    PROVE  {r.pid : r \in Rows} = {Unit(u).pid : u \in plugged}
<1>1. ASSUME NEW r \in Rows
      PROVE  r.pid \in {Unit(u).pid : u \in plugged}
    BY RowFacts, InterfaceFacts
<1>2. ASSUME NEW u \in plugged
      PROVE  Unit(u).pid \in {r.pid : r \in Rows}
  <2>1. PICK w \in Unit(u).usages : TRUE
    BY UnitFacts DEF Sited
  <2>2. Interface(u, w) \in Interfaces
    BY DEF Interfaces
  <2>3. Interface(u, w).pid = Unit(u).pid
    BY DEF Interface
  <2>4. ListedRow(Unit(u).pid) \in Rows /\ ListedRow(Unit(u).pid).pid = Unit(u).pid
    BY <2>2, <2>3 DEF Rows, ListedRow
  <2> QED
    BY <2>4
<1> QED
    BY <1>1, <1>2

\* What the unit that is opened under the shared id says it is, or nothing.
Good(answer) == answer \in {NoProduct} \union {Unit(o.unit).reports : o \in Opened(SharedPid)}

LEMMA RowsAreTrue ==
    ASSUME Admissible, Sited, NEW answer, Good(answer)
    PROVE  True(Rows) /\ True(Resolved(Rows, answer))
<1>1. True(Rows)
    BY RowFacts, RowsOfUnits DEF True
<1>2. ASSUME NEW r \in Resolved(Rows, answer)
      PROVE  \E s \in Rows :
               /\ r.pid = s.pid /\ r.serial = s.serial /\ r.channel = s.channel
               /\ \/ r.product = NoProduct
                  \/ /\ s.pid = SharedPid /\ answer \in DOMAIN Aliases
                     /\ r.product = Aliases[answer]
  <2>1. PICK s \in Rows : r = IF s \in Shared(Rows) /\ answer \in DOMAIN Aliases
                              THEN [s EXCEPT !.product = Aliases[answer]] ELSE s
    BY DEF Resolved
  <2>2. s \in RowType /\ s.product = NoProduct
    BY RowFacts
  <2>3. s \in Shared(Rows) => s.pid = SharedPid
    BY DEF Shared
  <2> QED
    BY <2>1, <2>2, <2>3 DEF RowType
<1>3. {r.pid : r \in Resolved(Rows, answer)} = {r.pid : r \in Rows}
  <2>1. \A s \in Rows : \E r \in Resolved(Rows, answer) : r.pid = s.pid
    <3> SUFFICES ASSUME NEW s \in Rows
                 PROVE  \E r \in Resolved(Rows, answer) : r.pid = s.pid
      OBVIOUS
    <3> DEFINE r == IF s \in Shared(Rows) /\ answer \in DOMAIN Aliases
                    THEN [s EXCEPT !.product = Aliases[answer]] ELSE s
    <3>1. r \in Resolved(Rows, answer)
      BY DEF Resolved
    <3>2. r.pid = s.pid
      BY RowFacts DEF RowType
    <3> QED
      BY <3>1, <3>2
  <2> QED
    BY <1>2, <2>1
<1>4. ASSUME NEW r \in Resolved(Rows, answer)
      PROVE  /\ r.channel = "absent" => Opened(r.pid) = {}
             /\ \A i \in Opened(r.pid) :
                   /\ r.serial \in {0, i.serial}
                   /\ r.product # NoProduct =>
                        /\ Unit(i.unit).reports \in DOMAIN Aliases
                        /\ r.product = Aliases[Unit(i.unit).reports]
  <2>1. PICK s \in Rows :
               /\ r.pid = s.pid /\ r.serial = s.serial /\ r.channel = s.channel
               /\ \/ r.product = NoProduct
                  \/ /\ s.pid = SharedPid /\ answer \in DOMAIN Aliases
                     /\ r.product = Aliases[answer]
    BY <1>2
  <2>2. ASSUME NEW i \in Opened(r.pid), r.product # NoProduct
        PROVE  Unit(i.unit).reports \in DOMAIN Aliases /\ r.product = Aliases[Unit(i.unit).reports]
    <3>1. answer # NoProduct
      BY <2>1, <2>2 DEF Admissible
    <3>2. PICK o \in Opened(SharedPid) : answer = Unit(o.unit).reports
      BY <3>1 DEF Good
    <3>3. o = i
      BY <2>1, <2>2, OneOpened
    <3> QED
      BY <2>1, <2>2, <3>2, <3>3
  <2> QED
    BY <2>1, <2>2, RowFacts
<1> QED
    BY <1>1, <1>3, <1>4, RowsOfUnits DEF True

LEMMA SameUnits ==
    ASSUME UNCHANGED <<site, plugged>>
    PROVE  /\ Rows' = Rows
           /\ \A rows : True(rows)' = True(rows)
           /\ \A answer : Good(answer)' = Good(answer)
<1>1. Interfaces' = Interfaces
    BY DEF Interfaces, Interface, Unit
<1>2. \A pid : Of(pid)' = Of(pid)
    BY <1>1 DEF Of
<1>3. \A pid : Selectable(pid)' = Selectable(pid)
    BY <1>2 DEF Selectable
<1>4. \A pid : Opened(pid)' = Opened(pid)
    BY <1>3 DEF Opened
<1>5. \A pid : ListedRow(pid)' = ListedRow(pid)
    BY <1>2 DEF ListedRow
<1> QED
    BY <1>1, <1>4, <1>5 DEF Rows, True, Good, Unit

-----------------------------------------------------------------------------
(* The types.                                                              *)

LoadType == [at : {"enumerate", "look", "ask", "store", "show"},
             late : BOOLEAN, rows : SUBSET RowType, answer : Reports]

\* A load that is about a row under the shared id has one.
SharedInv ==
    \A i \in DOMAIN loads : loads[i].at \in {"look", "ask", "store"} => Shared(loads[i].rows) # {}

LEMMA Replaced ==
    ASSUME NEW S, NEW queue \in Seq(S), NEW i \in DOMAIN queue, NEW x \in S,
           NEW after, after = [queue EXCEPT ![i] = x]
    PROVE  /\ after \in Seq(S) /\ Len(after) = Len(queue) /\ DOMAIN after = DOMAIN queue
           /\ after[i] = x /\ \A k \in DOMAIN queue \ {i} : after[k] = queue[k]
OBVIOUS

LEMMA Removed ==
    ASSUME NEW S, NEW queue \in Seq(S), NEW i \in DOMAIN queue
    PROVE  /\ RemoveAt(queue, i) \in Seq(S) /\ Len(RemoveAt(queue, i)) <= Len(queue)
           /\ \A k \in DOMAIN RemoveAt(queue, i) :
                 \E j \in DOMAIN queue : RemoveAt(queue, i)[k] = queue[j]
<1> DEFINE before == SubSeq(queue, 1, i - 1)
           behind == SubSeq(queue, i + 1, Len(queue))
<1>1. Len(queue) \in Nat /\ i \in 1..Len(queue)
    OBVIOUS
<1>2. /\ before \in Seq(S) /\ Len(before) = i - 1
      /\ \A k \in 1..(i - 1) : before[k] = queue[k]
    BY <1>1, SubSeqProperties
<1>3. /\ behind \in Seq(S) /\ Len(behind) = Len(queue) - i
      /\ \A k \in 1..(Len(queue) - i) : behind[k] = queue[k + i]
  <2>1. behind \in Seq(S) /\ Len(behind) = Len(queue) - i
    BY <1>1, SubSeqProperties
  <2>2. \A k \in 1..(Len(queue) - i) : behind[k] = queue[k + i]
    BY <1>1, SubSeqProperties
  <2> QED
    BY <2>1, <2>2
<1> HIDE DEF before, behind
<1>4. /\ before \o behind \in Seq(S) /\ Len(before \o behind) = Len(queue) - 1
      /\ \A k \in 1..(i - 1) : (before \o behind)[k] = before[k]
      /\ \A k \in i..(Len(queue) - 1) : (before \o behind)[k] = behind[k - (i - 1)]
    BY <1>1, <1>2, <1>3, ConcatProperties
<1>5. RemoveAt(queue, i) = before \o behind
    BY DEF RemoveAt, before, behind
<1>6. ASSUME NEW k \in 1..(Len(queue) - 1)
      PROVE  \E j \in DOMAIN queue : (before \o behind)[k] = queue[j]
  <2>1. CASE k < i
    BY <1>1, <1>2, <1>4, <2>1
  <2>2. CASE ~(k < i)
    <3>1. k - (i - 1) \in 1..(Len(queue) - i) /\ k \in i..(Len(queue) - 1) /\ k + 1 \in 1..Len(queue)
      BY <1>1, <2>2
    <3>2. (before \o behind)[k] = behind[k - (i - 1)]
      BY <1>4, <3>1
    <3>3. behind[k - (i - 1)] = queue[(k - (i - 1)) + i]
      BY <1>3, <3>1
    <3>4. (k - (i - 1)) + i = k + 1
      BY <1>1
    <3> QED
      BY <1>1, <3>1, <3>2, <3>3, <3>4
  <2> QED
    BY <2>1, <2>2
<1> QED
  <2> DEFINE whole == before \o behind
  <2>1. DOMAIN whole = 1..(Len(queue) - 1)
    BY <1>4
  <2>2. Len(whole) <= Len(queue) /\ whole \in Seq(S)
    BY <1>1, <1>4
  <2>3. \A k \in DOMAIN whole : \E j \in DOMAIN queue : whole[k] = queue[j]
    BY <1>6, <2>1
  <2> HIDE DEF whole
  <2> QED
    BY <2>2, <2>3, <1>5 DEF whole

LEMMA ResolvedType ==
    ASSUME NEW rows, rows \subseteq RowType, NEW answer
    PROVE  Resolved(rows, answer) \subseteq RowType
<1>1. \A r \in rows : answer \in DOMAIN Aliases => [r EXCEPT !.product = Aliases[answer]] \in RowType
    BY DEF RowType, Range
<1> QED
    BY <1>1 DEF Resolved

\* What a load does, until it shows its rows.
LEMMA LoadCases ==
    ASSUME Admissible, ListingTypeOK, SharedInv, NEW i \in DOMAIN loads, Loading(i), loads[i].at # "show"
    PROVE  LET serial == SerialOf(loads[i]) IN
           \E x \in LoadType :
              /\ loads' = [loads EXCEPT ![i] = x] /\ x.late = loads[i].late
              /\ UNCHANGED <<environment, hotplug, diags, probes, listed, clock>>
              /\ \/ /\ loads[i].at = "enumerate" /\ x.rows = Rows
                    /\ x.at = IF Shared(Rows) = {} THEN "show" ELSE "look"
                    /\ UNCHANGED <<products, lapses>>
                 \/ /\ loads[i].at = "look" /\ serial \in DOMAIN products
                    /\ x.rows = Resolved(loads[i].rows, products[serial]) /\ x.at = "show"
                    /\ UNCHANGED <<products, lapses>>
                 \/ /\ loads[i].at = "look" /\ x.rows = loads[i].rows /\ x.at = "ask"
                    /\ UNCHANGED <<products, lapses>>
                 \/ /\ loads[i].at = "ask" /\ x.rows = loads[i].rows /\ x.at = "store" /\ Good(x.answer)
                    /\ UNCHANGED <<products, lapses>>
                 \/ /\ loads[i].at = "store"
                    /\ x.rows = Resolved(loads[i].rows, loads[i].answer) /\ x.at = "show"
                    /\ products' = Keep(products, serial, loads[i].answer) /\ serial \in Serials
                    /\ lapses' = lapses \union IF loads[i].late THEN {"storedLate"} ELSE {}
<1> DEFINE l == loads[i]
           serial == SerialOf(l)
<1>0. l \in LoadType /\ Sited /\ loads \in Seq(LoadType)
  <2>1. loads \in Seq(LoadType)
    BY DEF ListingTypeOK, LoadType
  <2> QED
    BY <2>1, ElementOfSeq DEF ListingTypeOK, Sited
<1>1. CASE ListDevices(i)
  <2> DEFINE x == [l EXCEPT !.rows = Rows, !.at = IF Shared(Rows) = {} THEN "show" ELSE "look"]
  <2>1. x \in LoadType
    BY <1>0, RowFacts DEF LoadType
  <2>2. loads' = [loads EXCEPT ![i] = x]
    BY <1>0, <1>1 DEF ListDevices, LoadType
  <2>3. x.late = l.late /\ x.rows = Rows /\ x.at = IF Shared(Rows) = {} THEN "show" ELSE "look"
    BY <1>0 DEF LoadType
  <2> QED
    BY <1>1, <2>1, <2>2, <2>3 DEF ListDevices
<1>2. CASE LookUpProduct(i)
  <2>1. CASE serial \in DOMAIN products
    <3> DEFINE x == [l EXCEPT !.rows = Resolved(l.rows, products[serial]), !.at = "show"]
    <3>1. x \in LoadType
      BY <1>0, ResolvedType DEF LoadType
    <3>2. loads' = [loads EXCEPT ![i] = x]
      BY <1>0, <1>2, <2>1 DEF LookUpProduct, LoadType
    <3>3. x.late = l.late /\ x.rows = Resolved(l.rows, products[serial]) /\ x.at = "show"
      BY <1>0 DEF LoadType
    <3> QED
      BY <1>2, <2>1, <3>1, <3>2, <3>3 DEF LookUpProduct
  <2>2. CASE serial \notin DOMAIN products
    <3> DEFINE x == [l EXCEPT !.at = "ask"]
    <3>1. x \in LoadType /\ x.late = l.late /\ x.rows = l.rows /\ x.at = "ask"
      BY <1>0 DEF LoadType
    <3>2. loads' = [loads EXCEPT ![i] = x]
      BY <1>0, <1>2, <2>2 DEF LookUpProduct, Moves, LoadType
    <3> QED
      BY <1>2, <3>1, <3>2 DEF LookUpProduct
  <2> QED
    BY <2>1, <2>2
<1>3. CASE AskProduct(i)
  <2>1. PICK answer \in {NoProduct} \union {Unit(o.unit).reports : o \in Opened(SharedPid)} :
           loads' = [loads EXCEPT ![i].answer = answer, ![i].at = "store"]
    BY <1>3 DEF AskProduct
  <2> DEFINE x == [l EXCEPT !.answer = answer, !.at = "store"]
  <2>2. answer \in Reports
    <3>1. \A o \in Opened(SharedPid) : o \in Interfaces
      BY <1>0, OneOpened DEF Of
    <3> QED
      BY <1>0, <2>1, <3>1, InterfaceFacts DEF Reports
  <2>3. /\ x \in LoadType /\ x.late = l.late /\ x.rows = l.rows /\ x.at = "store"
        /\ x.answer = answer
    BY <1>0, <2>2 DEF LoadType
  <2>4. loads' = [loads EXCEPT ![i] = x]
    BY <1>0, <2>1 DEF LoadType
  <2> QED
    BY <1>3, <2>1, <2>3, <2>4 DEF AskProduct, Good
<1>4. CASE StoreProduct(i)
  <2> DEFINE x == [l EXCEPT !.rows = Resolved(l.rows, l.answer), !.at = "show", !.answer = NoProduct]
  <2>1. /\ x \in LoadType /\ x.late = l.late /\ x.rows = Resolved(l.rows, l.answer) /\ x.at = "show"
    BY <1>0, ResolvedType DEF LoadType, Reports
  <2>2. loads' = [loads EXCEPT ![i] = x]
    BY <1>0, <1>4 DEF StoreProduct, LoadType
  <2>3. serial \in Serials
    <3>1. Shared(l.rows) # {} /\ Shared(l.rows) \subseteq RowType
      BY <1>0, <1>4 DEF StoreProduct, SharedInv, Shared, LoadType
    <3>2. (CHOOSE r \in Shared(l.rows) : TRUE) \in RowType
      BY <3>1
    <3> QED
      BY <3>2 DEF SerialOf, RowType
  <2> QED
    BY <1>4, <2>1, <2>2, <2>3 DEF StoreProduct
<1> QED
    BY <1>1, <1>2, <1>3, <1>4 DEF Loading, ShowDevices

LEMMA Kept ==
    ASSUME NEW cache, NEW S, NEW T, DOMAIN cache \subseteq S, Range(cache) \subseteq T,
           NEW key \in S, NEW x \in T
    PROVE  DOMAIN Keep(cache, key, x) \subseteq S /\ Range(Keep(cache, key, x)) \subseteq T
BY DEF Keep, Range

LEMMA TypeStep ==
    ASSUME Admissible, ListingTypeOK, SharedInv, [ListingNext]_listingVars
    PROVE  ListingTypeOK' /\ SharedInv'
<1>0. /\ Sited /\ loads \in Seq(LoadType) /\ site' = site /\ Len(loads) \in Nat
      /\ MaxLoads \in Nat /\ site.happenings \in Nat
      /\ \A i \in DOMAIN loads : loads[i] \in LoadType
  <2>1. loads \in Seq(LoadType) /\ Sited
    BY DEF ListingTypeOK, LoadType, Sited
  <2>2. site' = site
    BY DEF ListingNext, listingVars, environment, Rescan,
       HandleHotplug, Poll, Replug, Loading,
       ListDevices,
        LookUpProduct, AskProduct, StoreProduct, ShowDevices,
           Diagnosing, DiagProbeCached, StoreDiag
  <2>3. \A i \in DOMAIN loads : loads[i] \in LoadType
    BY <2>1, ElementOfSeq
  <2> QED
    BY <2>1, <2>2, <2>3 DEF Admissible, Sited
<1>1. ASSUME Forget, UNCHANGED <<environment, probes, listed>>, hotplug' \in BOOLEAN,
             clock' \in 0..site.happenings
      PROVE  ListingTypeOK' /\ SharedInv'
  <2> DEFINE old == [i \in DOMAIN loads |-> [loads[i] EXCEPT !.late = TRUE]]
  <2>1. old \in Seq(LoadType) /\ Len(old) = Len(loads)
    <3>1. \A i \in DOMAIN loads : [loads[i] EXCEPT !.late = TRUE] \in LoadType
      BY <1>0 DEF LoadType
    <3>2. DOMAIN loads = 1..Len(loads)
      BY <1>0
    <3>3. old \in [1..Len(loads) -> LoadType]
      BY <3>1, <3>2
    <3> QED
      BY <1>0, <3>2, <3>3
  <2>2. \A i \in DOMAIN loads : i \in DOMAIN old /\ old[i].at = loads[i].at /\ old[i].rows = loads[i].rows
    BY <1>0 DEF LoadType
  <2>3. Load \in LoadType /\ Load.at = "enumerate"
    BY DEF Load, LoadType, Reports
  <2>4. loads' = Append(old, Load) /\ Len(loads) < MaxLoads
    BY <1>1 DEF Forget
  <2>5. DOMAIN old = DOMAIN loads
    OBVIOUS
  <2> HIDE DEF old
  <2>6. /\ loads' \in Seq(LoadType) /\ Len(loads') = Len(loads) + 1
        /\ \A i \in DOMAIN loads' : \/ i \in DOMAIN old /\ loads'[i] = old[i]
                                    \/ loads'[i] = Load
    BY <2>1, <2>3, <2>4
  <2>7. Len(loads') <= MaxLoads
    BY <1>0, <2>4, <2>6
  <2>8. SharedInv'
    BY <2>2, <2>3, <2>5, <2>6 DEF SharedInv, Shared
  <2>9. DOMAIN products' \subseteq Serials /\ Range(products') \subseteq Reports
    <3>1. products' = <<>>
      BY <1>1 DEF Forget, ForgetSharedProducts
    <3> QED
      BY <3>1 DEF Range
  <2>10. DOMAIN diags' \subseteq Pids \X Serials /\ Range(diags') \subseteq {"answers", "failed"}
    BY <1>1 DEF Forget, ListingTypeOK, Range
  <2>11. lapses' = {} /\ UNCHANGED <<site, plugged, known, missed, probes, listed>>
    BY <1>1 DEF Forget, environment
  <2> QED
    BY <1>1, <2>6, <2>7, <2>8, <2>9, <2>10, <2>11 DEF ListingTypeOK, LoadType
<1>2. CASE Rescan
  <2>1. clock' \in 0..site.happenings
    BY <1>0, <1>2 DEF Rescan, ListingTypeOK
  <2> QED
    BY <1>1, <1>2, <2>1 DEF Rescan, ListingTypeOK
<1>3. CASE HandleHotplug
    BY <1>1, <1>3 DEF HandleHotplug, ListingTypeOK
<1>4. CASE Poll
  <2>1. known' \subseteq Pids \X Serials
    BY <1>0, <1>4, UnitFacts DEF Poll, Sited
  <2>2. /\ lapses' \subseteq {"storedLate", "shownLate", "unnoticed"}
        /\ hotplug' \in BOOLEAN /\ missed' = FALSE
    BY <1>4 DEF Poll, ListingTypeOK
  <2>3. UNCHANGED <<site, plugged, products, diags, loads, probes, listed, clock>>
    BY <1>4 DEF Poll
  <2> QED
    BY <2>1, <2>2, <2>3 DEF ListingTypeOK, SharedInv, Shared
<1>5. ASSUME NEW u \in Units, Replug(u)
      PROVE  ListingTypeOK' /\ SharedInv'
  <2>1. plugged' \subseteq Units
    BY <1>0, <1>5 DEF Replug, SymDiff, Sited
  <2>2. clock' \in 0..site.happenings /\ missed' = TRUE
    BY <1>0, <1>5 DEF Replug, ListingTypeOK
  <2>3. UNCHANGED <<site, known, hotplug, products, diags, loads, probes, listed, lapses>>
    BY <1>5 DEF Replug
  <2> QED
    BY <2>1, <2>2, <2>3 DEF ListingTypeOK, SharedInv, Shared
<1>6. ASSUME NEW i \in DOMAIN loads, Loading(i), loads[i].at # "show"
      PROVE  ListingTypeOK' /\ SharedInv'
  <2> DEFINE serial == SerialOf(loads[i])
  <2>1. PICK x \in LoadType :
              /\ loads' = [loads EXCEPT ![i] = x] /\ x.late = loads[i].late
              /\ UNCHANGED <<environment, hotplug, diags, probes, listed, clock>>
              /\ \/ /\ loads[i].at = "enumerate" /\ x.rows = Rows
                    /\ x.at = IF Shared(Rows) = {} THEN "show" ELSE "look"
                    /\ UNCHANGED <<products, lapses>>
                 \/ /\ loads[i].at = "look" /\ serial \in DOMAIN products
                    /\ x.rows = Resolved(loads[i].rows, products[serial]) /\ x.at = "show"
                    /\ UNCHANGED <<products, lapses>>
                 \/ /\ loads[i].at = "look" /\ x.rows = loads[i].rows /\ x.at = "ask"
                    /\ UNCHANGED <<products, lapses>>
                 \/ /\ loads[i].at = "ask" /\ x.rows = loads[i].rows /\ x.at = "store" /\ Good(x.answer)
                    /\ UNCHANGED <<products, lapses>>
                 \/ /\ loads[i].at = "store"
                    /\ x.rows = Resolved(loads[i].rows, loads[i].answer) /\ x.at = "show"
                    /\ products' = Keep(products, serial, loads[i].answer) /\ serial \in Serials
                    /\ lapses' = lapses \union IF loads[i].late THEN {"storedLate"} ELSE {}
    BY <1>6, LoadCases
  <2>2. /\ loads' \in Seq(LoadType) /\ Len(loads') = Len(loads) /\ DOMAIN loads' = DOMAIN loads
        /\ loads'[i] = x /\ \A k \in DOMAIN loads \ {i} : loads'[k] = loads[k]
    BY <1>0, <2>1, Replaced
  <2>3. x.at \in {"look", "ask", "store"} => Shared(x.rows) # {}
    BY <1>6, <2>1 DEF SharedInv
  <2>4. SharedInv'
    BY <2>2, <2>3 DEF SharedInv, Shared
  <2>5. /\ DOMAIN products' \subseteq Serials /\ Range(products') \subseteq Reports
        /\ lapses' \subseteq {"storedLate", "shownLate", "unnoticed"}
    <3>1. /\ DOMAIN products \subseteq Serials /\ Range(products) \subseteq Reports
          /\ loads[i].answer \in Reports
      BY <1>0 DEF ListingTypeOK, LoadType
    <3>2. \/ products' = products
          \/ products' = Keep(products, serial, loads[i].answer) /\ serial \in Serials
      BY <2>1
    <3>3. lapses' \subseteq lapses \union {"storedLate"}
      BY <2>1
    <3> HIDE DEF serial
    <3>4. DOMAIN products' \subseteq Serials /\ Range(products') \subseteq Reports
      <4>1. CASE products' = products
        BY <3>1, <4>1
      <4>2. CASE products' = Keep(products, serial, loads[i].answer) /\ serial \in Serials
        <5> DEFINE S == Serials
                   T == Reports
        <5>1. /\ DOMAIN products \subseteq S /\ Range(products) \subseteq T
              /\ serial \in S /\ loads[i].answer \in T
          BY <3>1, <4>2
        <5> HIDE DEF S, T
        <5>2. DOMAIN Keep(products, serial, loads[i].answer) \subseteq S
              /\ Range(Keep(products, serial, loads[i].answer)) \subseteq T
          BY <5>1, Kept
        <5> QED
          BY <4>2, <5>2 DEF S, T
      <4> QED
        BY <3>2, <4>1, <4>2
    <3> QED
      BY <3>3, <3>4 DEF ListingTypeOK
  <2> QED
    BY <2>1, <2>2, <2>4, <2>5 DEF ListingTypeOK, LoadType, environment
<1>7. ASSUME NEW i \in DOMAIN loads, ShowDevices(i)
      PROVE  ListingTypeOK' /\ SharedInv'
  <2>1. /\ loads' = RemoveAt(loads, i) /\ loads' \in Seq(LoadType) /\ Len(loads') <= Len(loads)
        /\ \A k \in DOMAIN loads' : \E j \in DOMAIN loads : loads'[k] = loads[j]
    BY <1>0, <1>7, Removed DEF ShowDevices
  <2>2. SharedInv'
    BY <2>1 DEF SharedInv, Shared
  <2>3. listed' = loads[i].rows /\ listed' \subseteq RowType
    BY <1>0, <1>7 DEF ShowDevices, LoadType
  <2>4. probes' \subseteq [at : {"probe", "store"}, key : Pids \X Serials,
                         outcome : {"answers", "failed"}]
    <3>1. \A r \in RowType :
             Diagnosis(r) \in [at : {"probe", "store"},
                key : Pids \X Serials, outcome : {"answers", "failed"}]
      BY DEF Diagnosis, Key, RowType
    <3> QED
      BY <1>7, <2>3, <3>1 DEF ShowDevices, Undiagnosed, ListingTypeOK
  <2>5. lapses' \subseteq {"storedLate", "shownLate", "unnoticed"}
    BY <1>7 DEF ShowDevices, ListingTypeOK
  <2>6. Len(loads') <= MaxLoads
    BY <1>0, <2>1 DEF ListingTypeOK
  <2>7. UNCHANGED <<site, plugged, known, missed, hotplug, products, diags, clock>>
    BY <1>7 DEF ShowDevices, environment
  <2> QED
    BY <2>1, <2>2, <2>3, <2>4, <2>5, <2>6, <2>7 DEF ListingTypeOK, LoadType
<1>8. ASSUME NEW p \in probes, Diagnosing(p)
      PROVE  ListingTypeOK' /\ SharedInv'
  <2> DEFINE P == [at : {"probe", "store"}, key : Pids \X Serials, outcome : {"answers", "failed"}]
  <2>1. p \in P /\ probes \subseteq P
    BY DEF ListingTypeOK
  <2>2. probes' \subseteq P
    <3>1. CASE DiagProbeCached(p)
      <4>1. \A outcome \in {"answers", "failed"} : [p EXCEPT !.outcome = outcome, !.at = "store"] \in P
        BY <2>1
      <4> HIDE DEF P
      <4> QED
        BY <2>1, <3>1, <4>1 DEF DiagProbeCached, Turns
    <3>2. CASE StoreDiag(p)
      BY <2>1, <3>2 DEF StoreDiag, Turns
    <3> QED
      BY <1>8, <3>1, <3>2 DEF Diagnosing
  <2>3. DOMAIN diags' \subseteq Pids \X Serials /\ Range(diags') \subseteq {"answers", "failed"}
    <3>1. p.key \in Pids \X Serials /\ p.outcome \in {"answers", "failed"}
      BY <2>1
    <3>2. diags' = diags \/ diags' = Keep(diags, p.key, p.outcome)
      BY <1>8 DEF Diagnosing, DiagProbeCached, StoreDiag
    <3>3. DOMAIN diags \subseteq Pids \X Serials /\ Range(diags) \subseteq {"answers", "failed"}
      BY DEF ListingTypeOK
    <3>4. DOMAIN Keep(diags, p.key, p.outcome) \subseteq Pids \X Serials
          /\ Range(Keep(diags, p.key, p.outcome)) \subseteq {"answers", "failed"}
      <4> DEFINE S == Pids \X Serials
                 T == {"answers", "failed"}
      <4>1. p.key \in S /\ p.outcome \in T /\ DOMAIN diags \subseteq S /\ Range(diags) \subseteq T
        BY <3>1, <3>3
      <4> HIDE DEF S, T
      <4>2. /\ DOMAIN Keep(diags, p.key, p.outcome) \subseteq S
            /\ Range(Keep(diags, p.key, p.outcome)) \subseteq T
        BY <4>1, Kept
      <4> QED
        BY <4>2 DEF S, T
    <3>5. CASE diags' = diags
      BY <3>3, <3>5
    <3>6. CASE diags' = Keep(diags, p.key, p.outcome)
      BY <3>4, <3>6
    <3> QED
      BY <3>2, <3>5, <3>6
  <2>4. UNCHANGED <<site, plugged, known, missed, hotplug, products, loads, listed, lapses, clock>>
    BY <1>8 DEF Diagnosing, DiagProbeCached, StoreDiag,
       environment
  <2> QED
    BY <2>2, <2>3, <2>4 DEF ListingTypeOK, SharedInv, Shared
<1>9. CASE UNCHANGED listingVars
    BY <1>9 DEF listingVars, ListingTypeOK, SharedInv, Shared
<1>10. ASSUME NEW i \in DOMAIN loads, Loading(i), loads[i].at = "show"
       PROVE  ShowDevices(i)
    BY <1>10 DEF Loading, ListDevices, LookUpProduct,
       AskProduct, StoreProduct
<1> QED
    BY <1>2, <1>3, <1>4, <1>5, <1>6, <1>7, <1>8, <1>9, <1>10 DEF ListingNext

LEMMA FirstListing ==
    ASSUME Admissible, ListingInit
    PROVE  ListingTypeOK /\ SharedInv
<1>1. Sited /\ site.happenings \in Nat /\ MaxLoads \in Nat \ {0}
    BY DEF ListingInit, Sited, Admissible
<1>2. known \subseteq Pids \X Serials
    BY <1>1, UnitFacts DEF ListingInit, Sited
<1>3. Load \in LoadType /\ Load.at = "enumerate"
    BY DEF Load, LoadType, Reports
<1> DEFINE first == Load
<1> HIDE DEF first
<1>4. first \in LoadType /\ first.at = "enumerate" /\ loads = <<first>>
    BY <1>3 DEF ListingInit, first
<1>5. loads \in Seq(LoadType) /\ Len(loads) = 1 /\ DOMAIN loads = {1} /\ loads[1] = first
    BY <1>4
<1>6. SharedInv
    BY <1>4, <1>5 DEF SharedInv
<1>7. products = <<>> /\ diags = <<>> /\ DOMAIN products = {} /\ DOMAIN diags = {}
      /\ Range(products) = {} /\ Range(diags) = {}
    BY DEF ListingInit, Range
<1>8. Len(loads) <= MaxLoads
    BY <1>1, <1>5
<1>9. plugged \subseteq Units /\ site \in Sites /\ clock \in 0..site.happenings
    BY <1>1 DEF ListingInit, Sited
<1>10. {missed, hotplug} \subseteq BOOLEAN /\ probes = {} /\ listed = {} /\ lapses = {}
    BY DEF ListingInit
<1> QED
    BY <1>2, <1>5, <1>6, <1>7, <1>8, <1>9, <1>10 DEF ListingTypeOK, LoadType

\* The listing, both caches and the reloads and diagnoses under way keep their types,
\* for any units, any aliases and any number of reloads at once.
THEOREM ListingTypeCorrect == ListingSpec => []ListingTypeOK
<1> USE ListingAssumption
<1>1. ListingInit => ListingTypeOK /\ SharedInv
    BY FirstListing
<1>2. ListingTypeOK /\ SharedInv /\ [ListingNext]_listingVars => ListingTypeOK' /\ SharedInv'
    BY TypeStep
<1> QED
    BY <1>1, <1>2, PTL DEF ListingSpec

-----------------------------------------------------------------------------
(* The truth of the list.                                                  *)

\* Nothing has moved that the last forgetting did not take account of.
Calm == ~missed /\ ~hotplug /\ "unnoticed" \notin lapses

\* What a load that is not late knows is so, unless an answer it read was stored late.
Sound(load) ==
    /\ load.at \in {"look", "ask", "store"} => load.rows = Rows
    /\ load.at = "store" => Good(load.answer)
    /\ load.at = "show" => "storedLate" \in lapses \/ True(load.rows)

Remembered == "storedLate" \notin lapses => \A s \in DOMAIN products : Good(products[s])
LoadsSound == \A i \in DOMAIN loads : ~loads[i].late => Sound(loads[i])
Renewed ==
    \/ \E i \in DOMAIN loads : ~loads[i].late
    \/ True(listed)
    \/ {"shownLate", "storedLate"} \intersect lapses # {}

TruthInv == Calm => Remembered /\ LoadsSound /\ Renewed

LEMMA Forgotten ==
    ASSUME loads \in Seq(LoadType), Forget
    PROVE  TruthInv'
<1> DEFINE old == [i \in DOMAIN loads |-> [loads[i] EXCEPT !.late = TRUE]]
<1>1. old \in Seq(LoadType) /\ Len(old) = Len(loads) /\ \A i \in DOMAIN old : old[i].late
  <2>1. \A i \in DOMAIN loads : loads[i] \in LoadType
    BY ElementOfSeq
  <2>2. \A i \in DOMAIN loads : [loads[i] EXCEPT !.late = TRUE] \in LoadType /\ old[i].late
    BY <2>1 DEF LoadType
  <2>3. DOMAIN loads = 1..Len(loads) /\ Len(loads) \in Nat
    OBVIOUS
  <2>4. old \in [1..Len(loads) -> LoadType]
    BY <2>2, <2>3
  <2> QED
    BY <2>2, <2>3, <2>4
<1>2. Load \in LoadType /\ Load.at = "enumerate" /\ ~Load.late
  BY DEF Load, LoadType, Reports
<1>3. loads' = Append(old, Load)
  BY DEF Forget
<1> HIDE DEF old
<1>4. /\ Len(old) + 1 \in DOMAIN loads' /\ loads'[Len(old) + 1] = Load
      /\ \A i \in DOMAIN loads' : loads'[i].late \/ loads'[i] = Load
  BY <1>1, <1>2, <1>3
<1>5. Renewed'
  BY <1>2, <1>4 DEF Renewed
<1>6. LoadsSound'
  BY <1>2, <1>4 DEF LoadsSound, Sound
<1>7. Remembered'
  BY DEF Forget, ForgetSharedProducts, Remembered
<1> QED
  BY <1>5, <1>6, <1>7 DEF TruthInv

\* Nothing the truth of the list speaks of changes but one load.
LEMMA LoadAdvances ==
    ASSUME Admissible, ListingTypeOK, SharedInv, TruthInv,
           NEW i \in DOMAIN loads, Loading(i), loads[i].at # "show"
    PROVE  TruthInv'
<1> DEFINE l == loads[i]
           serial == SerialOf(l)
<1>0. Sited /\ loads \in Seq(LoadType) /\ l.late \in BOOLEAN
  <2>1. loads \in Seq(LoadType) /\ Sited
    BY DEF ListingTypeOK, LoadType, Sited
  <2>2. l \in LoadType
    BY <2>1, ElementOfSeq
  <2> QED
    BY <2>1, <2>2 DEF LoadType
<1>1. PICK x \in LoadType :
         /\ loads' = [loads EXCEPT ![i] = x] /\ x.late = loads[i].late
         /\ UNCHANGED <<environment, hotplug, diags, probes, listed, clock>>
         /\ \/ /\ loads[i].at = "enumerate" /\ x.rows = Rows
               /\ x.at = IF Shared(Rows) = {} THEN "show" ELSE "look"
               /\ UNCHANGED <<products, lapses>>
            \/ /\ loads[i].at = "look" /\ serial \in DOMAIN products
               /\ x.rows = Resolved(loads[i].rows, products[serial]) /\ x.at = "show"
               /\ UNCHANGED <<products, lapses>>
            \/ /\ loads[i].at = "look" /\ x.rows = loads[i].rows /\ x.at = "ask"
               /\ UNCHANGED <<products, lapses>>
            \/ /\ loads[i].at = "ask" /\ x.rows = loads[i].rows /\ x.at = "store" /\ Good(x.answer)
               /\ UNCHANGED <<products, lapses>>
            \/ /\ loads[i].at = "store"
               /\ x.rows = Resolved(loads[i].rows, loads[i].answer) /\ x.at = "show"
               /\ products' = Keep(products, serial, loads[i].answer) /\ serial \in Serials
               /\ lapses' = lapses \union IF loads[i].late THEN {"storedLate"} ELSE {}
    BY LoadCases
<1> HIDE DEF serial
<1>2. /\ DOMAIN loads' = DOMAIN loads
      /\ loads'[i] = x /\ \A k \in DOMAIN loads \ {i} : loads'[k] = loads[k]
    BY <1>0, <1>1, Replaced
<1>3. /\ Rows' = Rows
      /\ \A rows : True(rows)' = True(rows)
      /\ \A answer : Good(answer)' = Good(answer)
    BY <1>1, SameUnits DEF environment
<1>4. /\ lapses \subseteq lapses'
      /\ lapses' \subseteq lapses \union {"storedLate"}
      /\ lapses' = lapses \/ (l.at = "store" /\ l.late /\ "storedLate" \in lapses')
    BY <1>1
<1> SUFFICES ASSUME Calm'
             PROVE  Remembered' /\ LoadsSound' /\ Renewed'
    BY DEF TruthInv
<1>5. Calm
    BY <1>1, <1>4 DEF Calm, environment
<1>6. Remembered /\ LoadsSound /\ Renewed
    BY <1>5 DEF TruthInv
<1>7. ASSUME ~l.late
      PROVE  lapses' = lapses /\ Sound(l)
    BY <1>4, <1>6, <1>7 DEF LoadsSound
<1>8. Remembered'
  <2>1. CASE products' = products
    BY <1>3, <1>4, <1>6, <2>1 DEF Remembered
  <2>2. CASE l.at = "store" /\ products' = Keep(products, serial, l.answer) /\ ~l.late
    <3>1. Good(l.answer)
      BY <1>7, <2>2 DEF Sound
    <3>2. \A s \in DOMAIN products' :
             products'[s] = l.answer \/ (s \in DOMAIN products /\ products'[s] = products[s])
      BY <2>2 DEF Keep
    <3> QED
      BY <1>3, <1>6, <1>7, <2>2, <3>1, <3>2 DEF Remembered
  <2>3. CASE l.late /\ "storedLate" \in lapses'
    BY <2>3 DEF Remembered
  <2> QED
    BY <1>0, <1>1, <2>1, <2>2, <2>3
<1>9. ~x.late => Sound(x)'
  <2> SUFFICES ASSUME ~l.late
               PROVE  Sound(x)'
    BY <1>1
  <2>1. lapses' = lapses /\ Sound(l)
    BY <1>7
  <2>2. x.at \in {"look", "ask", "store"} => x.rows = Rows
    BY <1>1, <2>1 DEF Sound
  <2>3. x.at = "store" => Good(x.answer)
    BY <1>1
  <2>4. x.at = "show" => "storedLate" \in lapses \/ True(x.rows)
    <3>1. CASE x.rows = Rows
      <4>1. Good(NoProduct)
        BY DEF Good
      <4> QED
        BY <1>0, <3>1, <4>1, RowsAreTrue
    <3>2. CASE /\ l.at = "look" /\ serial \in DOMAIN products
               /\ x.rows = Resolved(l.rows, products[serial])
      <4>1. l.rows = Rows
        BY <2>1, <3>2 DEF Sound
      <4>2. CASE "storedLate" \notin lapses
        <5>1. Good(products[serial])
          BY <1>6, <3>2, <4>2 DEF Remembered
        <5> QED
          BY <1>0, <3>2, <4>1, <5>1, RowsAreTrue
      <4> QED
        BY <4>2
    <3>3. CASE l.at = "store" /\ x.rows = Resolved(l.rows, l.answer)
      <4>1. l.rows = Rows /\ Good(l.answer)
        BY <2>1, <3>3 DEF Sound
      <4> QED
        BY <1>0, <3>3, <4>1, RowsAreTrue
    <3> QED
      BY <1>1, <3>1, <3>2, <3>3
  <2> QED
    BY <1>3, <2>1, <2>2, <2>3, <2>4 DEF Sound
<1>10. \A k \in DOMAIN loads : ~loads[k].late => (Sound(loads[k]))' \/ k = i
  <2> SUFFICES ASSUME NEW k \in DOMAIN loads \ {i}, ~loads[k].late
               PROVE  Sound(loads[k])'
    OBVIOUS
  <2>1. Sound(loads[k]) /\ loads'[k] = loads[k]
    BY <1>2, <1>6 DEF LoadsSound
  <2> QED
    BY <1>3, <1>4, <2>1 DEF Sound
<1>11. LoadsSound'
  <2> SUFFICES ASSUME NEW k \in DOMAIN loads', ~loads'[k].late
               PROVE  Sound(loads[k])'
    BY DEF LoadsSound
  <2>1. CASE k = i
    <3>1. loads'[k] = x /\ ~x.late
      BY <1>2, <2>1
    <3> QED
      BY <1>9, <3>1 DEF Sound
  <2>2. CASE k # i
    BY <1>2, <1>10, <2>2
  <2> QED
    BY <2>1, <2>2
<1>12. Renewed'
  <2>1. ASSUME NEW k \in DOMAIN loads, ~loads[k].late
        PROVE  k \in DOMAIN loads' /\ ~loads'[k].late
    BY <1>1, <1>2, <2>1
  <2>2. listed' = listed
    BY <1>1
  <2> QED
    BY <1>3, <1>4, <1>6, <2>1, <2>2 DEF Renewed
<1> QED
    BY <1>8, <1>11, <1>12

LEMMA LoadShown ==
    ASSUME Admissible, ListingTypeOK, TruthInv, NEW i \in DOMAIN loads, ShowDevices(i)
    PROVE  TruthInv'
<1>0. loads \in Seq(LoadType)
    BY DEF ListingTypeOK, LoadType
<1>1. /\ loads' = RemoveAt(loads, i)
      /\ \A k \in DOMAIN loads' : \E j \in DOMAIN loads : loads'[k] = loads[j]
    BY <1>0, Removed DEF ShowDevices
<1>2. /\ loads[i].at = "show" /\ listed' = loads[i].rows
      /\ lapses' = IF loads[i].late THEN lapses \union {"shownLate"} ELSE lapses \ {"shownLate"}
      /\ UNCHANGED <<site, plugged, missed, hotplug, products>>
    BY DEF ShowDevices, environment
<1>3. /\ Rows' = Rows
      /\ \A rows : True(rows)' = True(rows)
      /\ \A answer : Good(answer)' = Good(answer)
    BY <1>2, SameUnits
<1>4. /\ "storedLate" \in lapses' <=> "storedLate" \in lapses
      /\ "unnoticed" \in lapses' <=> "unnoticed" \in lapses
    BY <1>2
<1> SUFFICES ASSUME Calm'
             PROVE  Remembered' /\ LoadsSound' /\ Renewed'
    BY DEF TruthInv
<1>5. Remembered /\ LoadsSound /\ Renewed
    BY <1>2, <1>4 DEF Calm, TruthInv
<1>6. Remembered'
    BY <1>2, <1>3, <1>4, <1>5 DEF Remembered
<1>7. LoadsSound'
  <2> SUFFICES ASSUME NEW k \in DOMAIN loads', ~loads'[k].late
               PROVE  Sound(loads[k])'
    BY DEF LoadsSound
  <2>1. PICK j \in DOMAIN loads : loads'[k] = loads[j]
    BY <1>1
  <2>2. Sound(loads[j])
    BY <1>5, <2>1 DEF LoadsSound
  <2> QED
    BY <1>3, <1>4, <2>1, <2>2 DEF Sound
<1>8. Renewed'
  <2>1. CASE loads[i].late
    BY <1>2, <2>1 DEF Renewed
  <2>2. CASE ~loads[i].late
    <3>1. "storedLate" \in lapses \/ True(loads[i].rows)
      BY <1>2, <1>5, <2>2 DEF LoadsSound, Sound
    <3>2. "storedLate" \in lapses' \/ True(listed)'
      <4>1. PICK rows : rows = loads[i].rows /\ listed' = rows
        BY <1>2
      <4>2. True(rows)' = True(rows)
        BY <1>3
      <4> QED
        BY <1>4, <3>1, <4>1, <4>2
    <3> QED
      BY <3>2 DEF Renewed
  <2> QED
    BY <2>1, <2>2
<1> QED
    BY <1>6, <1>7, <1>8

LEMMA TruthStep ==
    ASSUME Admissible, ListingTypeOK, SharedInv, TruthInv, [ListingNext]_listingVars
    PROVE  TruthInv'
<1>0. loads \in Seq(LoadType)
    BY DEF ListingTypeOK, LoadType
<1>1. CASE Rescan \/ HandleHotplug
    BY <1>0, <1>1, Forgotten DEF Rescan, HandleHotplug
<1>2. CASE Poll
  <2>1. ~Calm'
    BY <1>2 DEF Poll, Calm
  <2> QED
    BY <2>1 DEF TruthInv
<1>3. ASSUME NEW u \in Units, Replug(u)
      PROVE  TruthInv'
  <2>1. ~Calm'
    BY <1>3 DEF Replug, Calm
  <2> QED
    BY <2>1 DEF TruthInv
<1>4. ASSUME NEW i \in DOMAIN loads, Loading(i)
      PROVE  TruthInv'
  <2>1. CASE loads[i].at = "show"
    <3>1. ShowDevices(i)
      BY <1>4, <2>1 DEF Loading, ListDevices, LookUpProduct,
         AskProduct, StoreProduct
    <3> QED
      BY <3>1, LoadShown
  <2>2. CASE loads[i].at # "show"
    BY <1>4, <2>2, LoadAdvances
  <2> QED
    BY <2>1, <2>2
<1>5. ASSUME UNCHANGED <<site, plugged, missed, hotplug, products, loads, listed, lapses>>
      PROVE  TruthInv'
  <2>1. /\ Rows' = Rows /\ \A rows : True(rows)' = True(rows)
        /\ \A answer : Good(answer)' = Good(answer)
    BY <1>5, SameUnits
  <2>2. Calm' = Calm
    BY <1>5 DEF Calm
  <2>3. Remembered' = Remembered
    BY <1>5, <2>1 DEF Remembered
  <2>4. LoadsSound' = LoadsSound
    BY <1>5, <2>1 DEF LoadsSound, Sound
  <2>5. Renewed' = Renewed
    BY <1>5, <2>1 DEF Renewed
  <2> QED
    BY <2>2, <2>3, <2>4, <2>5 DEF TruthInv
<1>6. ASSUME NEW p \in probes, Diagnosing(p)
      PROVE  TruthInv'
    BY <1>5, <1>6 DEF Diagnosing, DiagProbeCached, StoreDiag,
       environment
<1>7. CASE UNCHANGED listingVars
    BY <1>5, <1>7 DEF listingVars
<1> QED
    BY <1>1, <1>2, <1>3, <1>4, <1>6, <1>7 DEF ListingNext

\* Once things are quiet the list the interface shows is true, for any units and
\* whatever calls were under way.
THEOREM ListingTrue == ListingSpec => []ListingIsTrue
<1> USE ListingAssumption
<1>1. ListingInit => ListingTypeOK /\ SharedInv /\ TruthInv
  <2> SUFFICES ASSUME ListingInit
               PROVE  ListingTypeOK /\ SharedInv /\ TruthInv
    OBVIOUS
  <2>1. ListingTypeOK /\ SharedInv
    BY FirstListing
  <2>2. loads = <<Load>> /\ Load.at = "enumerate" /\ ~Load.late /\ DOMAIN products = {}
    BY DEF ListingInit, Load
  <2> DEFINE first == Load
  <2> HIDE DEF first
  <2>3. loads = <<first>> /\ first.at = "enumerate" /\ ~first.late
    BY <2>2 DEF first
  <2>4. DOMAIN loads = {1} /\ loads[1] = first
    BY <2>3
  <2>5. Remembered
    BY <2>2 DEF Remembered
  <2>6. LoadsSound
    BY <2>3, <2>4 DEF LoadsSound, Sound
  <2>7. Renewed
    BY <2>3, <2>4 DEF Renewed
  <2> QED
    BY <2>1, <2>5, <2>6, <2>7 DEF TruthInv
<1>2. ListingTypeOK /\ SharedInv /\ TruthInv /\ [ListingNext]_listingVars => ListingTypeOK' /\ SharedInv' /\ TruthInv'
    BY TypeStep, TruthStep
<1>3. TruthInv => ListingIsTrue
    BY DEF TruthInv, Calm, Renewed, ListingIsTrue, Quiet
<1> QED
    BY <1>1, <1>2, <1>3, PTL DEF ListingSpec

=============================================================================
