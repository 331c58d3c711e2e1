------------------------------ MODULE UsbStatus ------------------------------
(***************************************************************************)
(* The status snapshot of the Pixel USB HAL (src/usb/usb/Usb.cpp):          *)
(* queryVersionHelper and its sub-queries, getPortStatusHelper,             *)
(* getCurrentRoleHelper, getTypeCPortNamesHelper, canSwitchRoleHelper,      *)
(* queryMoistureDetectionStatus, queryPowerTransferStatus,                  *)
(* queryNonCompliantChargerStatus and queryUsbDataSession.                  *)
(*                                                                         *)
(* One thread computes snapshots under mLock; every sysfs read is a step   *)
(* of its own, and the kernel changes the nodes between them (a partner   *)
(* attaches or detaches, roles swap, a port registers, compliance reasons  *)
(* appear).  Node contents are abstracted to the value the code extracts   *)
(* from them: extractRole's bracketed word, strstr on usb_type, Trim's "1". *)
(***************************************************************************)
EXTENDS Naturals, FiniteSets, Sequences, SequencesExt, ComplianceWarnings

CONSTANTS
    Ports,          \* typec port names the kernel can register
    NoName,         \* the empty portName of a default-constructed PortStatus
    ReasonChoices,  \* reason-word lists the driver reports (<<>> among them)
    SessionChoices, \* warnings UsbDataSessionMonitor can report
    MaxKernel,      \* bound on kernel events
    MaxQueries      \* bound on snapshots

PowerNodes  == {"source", "sink"}            \* power_role, bracketed word
DataNodes   == {"host", "device"}            \* data_role, bracketed word
Accessories == {"none", "analog_audio", "debug"}
UsbTypes    == {"DCP", "Unknown", "SDP", "unreadable"}
Contaminant == {"DISABLED", "NOT_DETECTED", "DETECTED"}
ApcS == {"idle", "enum", "power", "data", "mode", "caps", "capsPower",
         "dataStatus", "brick", "moisture", "limit", "compliance", "session",
         "notify"}

(* A PortStatus as the AIDL parcelable default-constructs it.  connected  *)
(* is the value getTypeCPortNamesHelper put in the names map.              *)
DefaultStatus ==
    [name |-> NoName, connected |-> FALSE, power |-> "NONE", data |-> "NONE",
     mode |-> "NONE", canData |-> FALSE, canPower |-> FALSE,
     dataStatus |-> {}, brick |-> "UNKNOWN", warnings |-> {}]

VARIABLES
    registered,  \* ports present under /sys/class/typec
    partner,     \* port -> a <port>-partner link exists
    power,       \* port -> power_role node
    data,        \* port -> data_role node
    accessory,   \* port -> <port>-partner/accessory_mode
    pd,          \* port -> <port>-partner/supports_usb_power_delivery is yes
    reasons,     \* port -> the reasons device/non_compliant_reasons lists
    pogo,        \* pogo_usb_active reads 1
    mUsbDataEnabled,
    kernelEvents,
    mI2cClientPath, \* the memoised i2c client path is non-empty
    enabledPath,    \* the global enabledPath has been assigned
    apc,         \* where the snapshot thread is
    order,       \* the names map in iteration order
    i,           \* getPortStatusHelper's index
    snap,        \* currentPortStatus
    status,      \* getPortStatusHelper's result
    contaminant, \* [0].contaminantDetectionStatus
    limited,     \* [0].powerTransferLimited
    oob,         \* [0] was used on an empty vector
    queries

sysfs == <<registered, partner, power, data, accessory, pd, reasons, pogo,
           mUsbDataEnabled, kernelEvents>>
agg == <<mI2cClientPath, enabledPath, apc, order, i, snap, status,
         contaminant, limited, oob, queries>>
vars == <<sysfs, agg>>

Warnings == {"DEBUG_ACCESSORY", "BC_1_2", "MISSING_RP", "OTHER",
             "INPUT_POWER_LIMITED"}
StatusRecords ==
    [name : Ports \cup {NoName}, connected : BOOLEAN,
     power : {"NONE", "SOURCE", "SINK"}, data : {"NONE", "HOST", "DEVICE"},
     mode : {"NONE", "UFP", "DFP", "AUDIO_ACCESSORY", "DEBUG_ACCESSORY"},
     canData : BOOLEAN, canPower : BOOLEAN,
     dataStatus : SUBSET {"ENABLED", "DISABLED_FORCE",
                          "DISABLED_DOCK_DEVICE_MODE"},
     brick : {"UNKNOWN", "CONNECTED", "NOT_CONNECTED"},
     warnings : SUBSET (Warnings \cup UNION SessionChoices)]

TypeOK ==
    /\ registered \subseteq Ports
    /\ partner \in [Ports -> BOOLEAN]
    /\ power \in [Ports -> PowerNodes]
    /\ data \in [Ports -> DataNodes]
    /\ accessory \in [Ports -> Accessories]
    /\ pd \in [Ports -> BOOLEAN]
    /\ reasons \in [Ports -> ReasonChoices]
    /\ pogo \in BOOLEAN /\ mUsbDataEnabled \in BOOLEAN
    /\ kernelEvents \in 0..MaxKernel
    /\ mI2cClientPath \in BOOLEAN /\ enabledPath \in BOOLEAN
    /\ apc \in ApcS
    /\ order \in Seq(Ports) /\ i \in 0..Cardinality(Ports) + 1
    /\ snap \in Seq(StatusRecords)
    /\ status \in {"SUCCESS", "ERROR"}
    /\ contaminant \in Contaminant /\ limited \in BOOLEAN
    /\ oob \in BOOLEAN /\ queries \in 0..MaxQueries

(* Boot: some ports registered, no partner yet, the port-default roles   *)
(* sink/device; the HAL starts with no memoised paths, mUsbDataEnabled     *)
(* true and no snapshot.                                                   *)
Init ==
    /\ registered \in SUBSET Ports
    /\ partner = [p \in Ports |-> FALSE]
    /\ power = [p \in Ports |-> "sink"]
    /\ data = [p \in Ports |-> "device"]
    /\ accessory = [p \in Ports |-> "none"]
    /\ pd = [p \in Ports |-> FALSE]
    /\ reasons = [p \in Ports |-> <<>>]
    /\ pogo = FALSE
    /\ mUsbDataEnabled = TRUE
    /\ kernelEvents = 0
    /\ mI2cClientPath = FALSE /\ enabledPath = FALSE
    /\ apc = "idle" /\ order = <<>> /\ i = 0 /\ snap = <<>>
    /\ status = "SUCCESS" /\ contaminant = "DISABLED" /\ limited = FALSE
    /\ oob = FALSE /\ queries = 0

-----------------------------------------------------------------------------
(***************************************************************************)
(* getPortStatusHelper, one sysfs read per step.                           *)
(***************************************************************************)

Cur == order[i]
Entry == snap[i]
SetEntry(field, v) == snap' = [snap EXCEPT ![i][field] = v]

(* queryPortStatus, or the uevent thread, calls queryVersionHelper with an *)
(* empty vector and takes mLock.                                           *)
QueryStart ==
    /\ apc = "idle"
    /\ queries < MaxQueries
    /\ queries' = queries + 1
    /\ apc' = "enum"
    /\ snap' = <<>>
    /\ oob' = FALSE
    /\ contaminant' = "DISABLED"
    /\ limited' = FALSE
    /\ UNCHANGED <<sysfs, mI2cClientPath, enabledPath, order, i, status>>

(* getTypeCPortNamesHelper: each port link, with connected true if its    *)
(* -partner link is there; the unordered_map's iteration order is          *)
(* arbitrary.  On success the vector is resized to the number of names.   *)
(* opendir failing makes the whole helper return ERROR with the vector     *)
(* left empty, and queryVersionHelper carries on with the sub-queries.    *)
Enumerate ==
    /\ apc = "enum"
    /\ \/ \E s \in SetToSeqs(registered) :
             /\ order' = s
             /\ snap' = [k \in 1..Len(s) |->
                          [DefaultStatus EXCEPT !.connected = partner[s[k]]]]
             /\ status' = "SUCCESS"
             /\ i' = 1
             /\ apc' = IF s = <<>> THEN "moisture" ELSE "power"
       \/ /\ order' = <<>>
          /\ snap' = <<>>
          /\ status' = "ERROR"
          /\ UNCHANGED i
          /\ apc' = "moisture"
    /\ UNCHANGED <<sysfs, mI2cClientPath, enabledPath, contaminant, limited,
                   oob, queries>>

(* Mutant of CurrentRole: "host" and "device" set the dataRole           *)
(* alternative without testing the tag.                                    *)
CurrentRoleNoTagTest(tag, connected, acc, w) ==
    LET set(t, v) == [st |-> "SUCCESS", tag |-> t, val |-> v]
    IN CASE ~connected                           -> set(tag, "NONE")
         [] tag = "mode" /\ acc = "analog_audio" ->
              set("mode", "AUDIO_ACCESSORY")
         [] tag = "mode" /\ acc = "debug" ->
              set("mode", "DEBUG_ACCESSORY")
         [] w = "source" -> set("powerRole", "SOURCE")
         [] w = "sink"   -> set("powerRole", "SINK")
         [] w = "host"   -> set("dataRole", "HOST")
         [] w = "device" -> set("dataRole", "DEVICE")
         [] w = "none"   -> set(tag, "NONE")
         [] OTHER        -> [set(tag, "NONE") EXCEPT !.st = "UNRECOGNIZED_ROLE"]

(* getCurrentRoleHelper(portName, connected, &currentRole).  The caller  *)
(* sets the union's tag; the helper resets it to that tag's NONE and       *)
(* returns at once for a port without a partner.  For the mode, an        *)
(* accessory reported by -partner/accessory_mode decides.  Otherwise the   *)
(* word extractRole takes from the node is matched in a fixed order:       *)
(* "source" and "sink" set the powerRole alternative whatever the tag,     *)
(* "host" and "device" set dataRole if that is the tag and mode otherwise, *)
(* "none" keeps the NONE, and any other word is UNRECOGNIZED_ROLE.  The    *)
(* result is the status and the union (its tag and value) afterwards.     *)
CurrentRole(tag, connected, acc, w) ==
    LET set(t, v) == [st |-> "SUCCESS", tag |-> t, val |-> v]
    IN CASE ~connected                           -> set(tag, "NONE")
         [] tag = "mode" /\ acc = "analog_audio" ->
              set("mode", "AUDIO_ACCESSORY")
         [] tag = "mode" /\ acc = "debug" ->
              set("mode", "DEBUG_ACCESSORY")
         [] w = "source" -> set("powerRole", "SOURCE")
         [] w = "sink"   -> set("powerRole", "SINK")
         [] w = "host"   -> IF tag = "dataRole" THEN set("dataRole", "HOST")
                                                ELSE set("mode", "DFP")
         [] w = "device" -> IF tag = "dataRole" THEN set("dataRole", "DEVICE")
                                                ELSE set("mode", "UFP")
         [] w = "none"   -> set(tag, "NONE")
         [] OTHER        -> [set(tag, "NONE") EXCEPT !.st = "UNRECOGNIZED_ROLE"]

(* getPortStatusHelper keeps currentRole.get<tag>() only when the helper  *)
(* returned SUCCESS (a get on another alternative asserts); anything else *)
(* is "goto done": the snapshot ends with status ERROR, the rest of the   *)
(* vector left default-constructed.                                        *)
RoleStep(field, r, next) ==
    IF r.st = "SUCCESS"
       THEN /\ SetEntry(field, r.val)
            /\ apc' = next
            /\ UNCHANGED status
       ELSE /\ status' = "ERROR"
            /\ apc' = "moisture"
            /\ UNCHANGED snap

(* Mutant of ReadPower: power_role is read whether or not the port has a  *)
(* partner (the early return for !connected dropped).                      *)
ReadPowerAlways ==
    /\ apc = "power"
    /\ snap' = [snap EXCEPT ![i].name = Cur,
                            ![i].power =
                               CurrentRole("powerRole", TRUE, "none",
                                           power[Cur]).val]
    /\ apc' = "data"
    /\ UNCHANGED <<sysfs, mI2cClientPath, enabledPath, order, i, status,
                   contaminant, limited, oob, queries>>

(* portName = port.first, then getCurrentRoleHelper on a powerRole union, *)
(* reading power_role.                                                     *)
ReadPower ==
    /\ apc = "power"
    /\ LET r == CurrentRole("powerRole", Entry.connected, "none", power[Cur])
           named == [snap EXCEPT ![i].name = Cur]
       IN IF r.st = "SUCCESS"
             THEN /\ snap' = [named EXCEPT ![i].power = r.val]
                  /\ apc' = "data"
                  /\ UNCHANGED status
             ELSE /\ snap' = named
                  /\ status' = "ERROR"
                  /\ apc' = "moisture"
    /\ UNCHANGED <<sysfs, mI2cClientPath, enabledPath, order, i,
                   contaminant, limited, oob, queries>>

(* getCurrentRoleHelper on a dataRole union, reading data_role.            *)
ReadData ==
    /\ apc = "data"
    /\ RoleStep("data", CurrentRole("dataRole", Entry.connected, "none",
                                    data[Cur]), "mode")
    /\ UNCHANGED <<sysfs, mI2cClientPath, enabledPath, order, i,
                   contaminant, limited, oob, queries>>

(* Mutant of ReadMode: the accessory string is stored without mapping it  *)
(* to a PortMode.                                                          *)
ReadModeUnmapped ==
    /\ apc = "mode"
    /\ SetEntry("mode", IF Entry.connected THEN accessory[Cur] ELSE "NONE")
    /\ apc' = "caps"
    /\ UNCHANGED <<sysfs, mI2cClientPath, enabledPath, order, i, status,
                   contaminant, limited, oob, queries>>

(* getCurrentRoleHelper on a mode union.  With a partner in the names map *)
(* it first reads -partner/accessory_mode; if the partner has gone since   *)
(* the names were read, that read fails and the helper returns ERROR.      *)
(* Else the accessory, or data_role read again, gives the mode.            *)
ReadMode ==
    /\ apc = "mode"
    /\ \/ /\ ~Entry.connected \/ partner[Cur]
          /\ RoleStep("mode", CurrentRole("mode", Entry.connected,
                                          accessory[Cur], data[Cur]), "caps")
       \/ /\ Entry.connected /\ ~partner[Cur]
          /\ RoleStep("mode", [st |-> "ERROR"], "caps")
    /\ UNCHANGED <<sysfs, mI2cClientPath, enabledPath, order, i, contaminant,
                   limited, oob, queries>>

(* canSwitchRoleHelper: -partner/supports_usb_power_delivery reads "yes";*)
(* false when the file is gone with the partner.                           *)
CanSwitchRoleHelper(p) == partner[p] /\ pd[p]

(* canChangeMode is always true; canChangeDataRole is canSwitchRoleHelper *)
(* for a port the names map has connected, false otherwise.                *)
ReadCaps ==
    /\ apc = "caps"
    /\ SetEntry("canData", Entry.connected /\ CanSwitchRoleHelper(Cur))
    /\ apc' = "capsPower"
    /\ UNCHANGED <<sysfs, mI2cClientPath, enabledPath, order, i, status,
                   contaminant, limited, oob, queries>>

(* canChangePowerRole calls canSwitchRoleHelper again: a second read of   *)
(* the same file.                                                          *)
ReadCapsPower ==
    /\ apc = "capsPower"
    /\ SetEntry("canPower", Entry.connected /\ CanSwitchRoleHelper(Cur))
    /\ apc' = "dataStatus"
    /\ UNCHANGED <<sysfs, mI2cClientPath, enabledPath, order, i, status,
                   contaminant, limited, oob, queries>>

(* The usbDataStatus reasons: docked (pogo_usb_active is 1), forced off   *)
(* (!mUsbDataEnabled), or else ENABLED.                                    *)
ReadDataStatus ==
    /\ apc = "dataStatus"
    /\ SetEntry("dataStatus",
          (IF pogo THEN {"DISABLED_DOCK_DEVICE_MODE"} ELSE {})
          \cup (IF mUsbDataEnabled THEN {} ELSE {"DISABLED_FORCE"})
          \cup (IF ~pogo /\ mUsbDataEnabled THEN {"ENABLED"} ELSE {}))
    /\ apc' = "brick"
    /\ UNCHANGED <<sysfs, mI2cClientPath, enabledPath, order, i, status,
                   contaminant, limited, oob, queries>>

(* Mutant of ReadBrick: the loop's end test is off by one.                *)
ReadBrickStopsEarly ==
    /\ apc = "brick"
    /\ \E t \in UsbTypes :
         LET b == CASE ~Entry.connected \/ Entry.power = "SOURCE" -> "NOT_CONNECTED"
                    [] t = "DCP"        -> "CONNECTED"
                    [] t = "Unknown"    -> "UNKNOWN"
                    [] t = "SDP"        -> "NOT_CONNECTED"
                    [] t = "unreadable" -> Entry.brick
         IN SetEntry("brick", b)
    /\ i' = IF i >= Len(order) - 1 THEN i ELSE i + 1
    /\ apc' = IF i >= Len(order) - 1 THEN "moisture" ELSE "power"
    /\ UNCHANGED <<sysfs, mI2cClientPath, enabledPath, order, status,
                   contaminant, limited, oob, queries>>

(* powerBrickStatus: NOT_CONNECTED without a partner or as source; else   *)
(* from usb_type ("[D" connected, "[U" unknown, other not connected; an    *)
(* unreadable file leaves the default).  Then the loop moves on.          *)
ReadBrick ==
    /\ apc = "brick"
    /\ \E t \in UsbTypes :
         LET b == CASE ~Entry.connected \/ Entry.power = "SOURCE" -> "NOT_CONNECTED"
                    [] t = "DCP"        -> "CONNECTED"
                    [] t = "Unknown"    -> "UNKNOWN"
                    [] t = "SDP"        -> "NOT_CONNECTED"
                    [] t = "unreadable" -> Entry.brick
         IN SetEntry("brick", b)
    /\ i' = IF i = Len(order) THEN i ELSE i + 1
    /\ apc' = IF i = Len(order) THEN "moisture" ELSE "power"
    /\ UNCHANGED <<sysfs, mI2cClientPath, enabledPath, order, status,
                   contaminant, limited, oob, queries>>

-----------------------------------------------------------------------------
(***************************************************************************)
(* The sub-queries queryVersionHelper runs after getPortStatusHelper,      *)
(* whatever it returned.  The first two write entry [0].              *)
(***************************************************************************)

(* mI2cClientPath is resolved once: getI2cClientPath may come back empty. *)
ResolveI2c(ok) == mI2cClientPath' = (mI2cClientPath \/ ok)

(* queryMoistureDetectionStatus: [0] gets the contaminant defaults; with  *)
(* the i2c path found, enabledPath is assigned and contaminant_detection   *)
(* read; if it is "1", contaminant_detection_status decides DETECTED or   *)
(* NOT_DETECTED.  A failed read returns early, keeping the defaults.      *)
Moisture ==
    /\ apc = "moisture"
    /\ oob' = (oob \/ snap = <<>>)
    /\ \E ok \in BOOLEAN, enabled \in {"0", "1", "unreadable"},
          detected \in {"0", "1", "unreadable"} :
         /\ ResolveI2c(ok)
         /\ enabledPath' = (enabledPath \/ mI2cClientPath')
         /\ contaminant' =
              IF mI2cClientPath' /\ enabled = "1" /\ detected # "unreadable"
                 THEN IF detected = "1" THEN "DETECTED" ELSE "NOT_DETECTED"
                 ELSE "DISABLED"
    /\ apc' = "limit"
    /\ UNCHANGED <<sysfs, order, i, snap, status, limited, queries>>

(* queryPowerTransferStatus: [0].powerTransferLimited is whether           *)
(* usb_limit_sink_enable reads "1"; nothing is written if the i2c path or  *)
(* the read fails.                                                         *)
PowerLimit ==
    /\ apc = "limit"
    /\ oob' = (oob \/ snap = <<>>)
    /\ \E ok \in BOOLEAN, sinkLimit \in {"0", "1", "unreadable"} :
         /\ ResolveI2c(ok)
         /\ limited' = (mI2cClientPath' /\ sinkLimit = "1")
    /\ apc' = "compliance"
    /\ UNCHANGED <<sysfs, enabledPath, order, i, snap, status, contaminant,
                   queries>>

(* The warnings queryNonCompliantChargerStatus decodes from each reason   *)
(* list the driver may report, computed once.                             *)
ReasonWarnings ==
    [ws \in ReasonChoices |-> WarningSet(NonCompliantWarnings(DriverText(ws)))]

(* The compliance warnings and the charger-only synthesis of one entry.   *)
(* An entry left unnamed reads /sys/class/typec//..., which fails.         *)
WithCompliance(e) ==
    LET w == IF e.name = NoName THEN {}
             ELSE ReasonWarnings[reasons[e.name]]
        ws == e.warnings \cup w
    IN IF ws # {} /\ e.power = "NONE"
          THEN [e EXCEPT !.warnings = ws, !.mode = "UFP", !.power = "SINK",
                         !.data = "NONE", !.brick = "CONNECTED"]
          ELSE [e EXCEPT !.warnings = ws]

(* queryNonCompliantChargerStatus over every entry of the vector.          *)
Compliance ==
    /\ apc = "compliance"
    /\ snap' = [k \in DOMAIN snap |-> WithCompliance(snap[k])]
    /\ apc' = "session"
    /\ UNCHANGED <<sysfs, mI2cClientPath, enabledPath, order, i, status,
                   contaminant, limited, oob, queries>>

(* queryUsbDataSession appends UsbDataSessionMonitor's warnings for [0]'s *)
(* data role to [0].                                                       *)
Session ==
    /\ apc = "session"
    /\ \/ /\ snap = <<>>
          /\ oob' = TRUE
          /\ UNCHANGED snap
       \/ /\ snap # <<>>
          /\ \E w \in SessionChoices :
               snap' = [snap EXCEPT ![1].warnings = @ \cup w]
          /\ UNCHANGED oob
    /\ apc' = "notify"
    /\ UNCHANGED <<sysfs, mI2cClientPath, enabledPath, order, i, status,
                   contaminant, limited, queries>>

(* notifyPortStatusChange(currentPortStatus, status) if a callback is set; *)
(* then mLock is released.                                                 *)
Notify ==
    /\ apc = "notify"
    /\ apc' = "idle"
    /\ UNCHANGED <<sysfs, mI2cClientPath, enabledPath, order, i, snap, status,
                   contaminant, limited, oob, queries>>

-----------------------------------------------------------------------------
(***************************************************************************)
(* The kernel and the other HAL calls, as the environment.                 *)
(***************************************************************************)

KernelStep(changed) ==
    /\ kernelEvents < MaxKernel
    /\ kernelEvents' = kernelEvents + 1
    /\ UNCHANGED agg
    /\ UNCHANGED changed

RegisterPort(p) ==
    /\ p \notin registered
    /\ registered' = registered \cup {p}
    /\ KernelStep(<<partner, power, data, accessory, pd, reasons, pogo,
                    mUsbDataEnabled>>)

(* A partner attaches: the -partner link appears with its accessory mode  *)
(* and PD support, and the roles are negotiated.                           *)
Attach(p) ==
    /\ p \in registered /\ ~partner[p]
    /\ partner' = [partner EXCEPT ![p] = TRUE]
    /\ \E a \in Accessories, s \in BOOLEAN, pw \in PowerNodes, d \in DataNodes :
         /\ accessory' = [accessory EXCEPT ![p] = a]
         /\ pd' = [pd EXCEPT ![p] = s]
         /\ power' = [power EXCEPT ![p] = pw]
         /\ data' = [data EXCEPT ![p] = d]
    /\ KernelStep(<<registered, reasons, pogo, mUsbDataEnabled>>)

(* The partner detaches; the port's roles return to the port default.     *)
Detach(p) ==
    /\ partner[p]
    /\ partner' = [partner EXCEPT ![p] = FALSE]
    /\ \E pw \in PowerNodes, d \in DataNodes :
         /\ power' = [power EXCEPT ![p] = pw]
         /\ data' = [data EXCEPT ![p] = d]
    /\ KernelStep(<<registered, accessory, pd, reasons, pogo, mUsbDataEnabled>>)

(* A power or data role swap with the partner.                            *)
Swap(p) ==
    /\ partner[p]
    /\ \E pw \in PowerNodes, d \in DataNodes :
         /\ <<pw, d>> # <<power[p], data[p]>>
         /\ power' = [power EXCEPT ![p] = pw]
         /\ data' = [data EXCEPT ![p] = d]
    /\ KernelStep(<<registered, partner, accessory, pd, reasons, pogo,
                    mUsbDataEnabled>>)

(* The TCPC driver updates non_compliant_reasons.                          *)
Reasons(p) ==
    /\ p \in registered
    /\ \E r \in ReasonChoices \ {reasons[p]} : reasons' = [reasons EXCEPT ![p] = r]
    /\ KernelStep(<<registered, partner, power, data, accessory, pd, pogo,
                    mUsbDataEnabled>>)

(* Docking changes pogo_usb_active; enableUsbData flips mUsbDataEnabled   *)
(* without taking mLock.                                                   *)
Dock ==
    /\ pogo' = ~pogo
    /\ KernelStep(<<registered, partner, power, data, accessory, pd, reasons,
                    mUsbDataEnabled>>)

SetDataEnabled ==
    /\ mUsbDataEnabled' = ~mUsbDataEnabled
    /\ KernelStep(<<registered, partner, power, data, accessory, pd, reasons,
                    pogo>>)

-----------------------------------------------------------------------------
SnapshotStep ==
    \/ QueryStart \/ Enumerate \/ ReadPower \/ ReadData \/ ReadMode
    \/ ReadCaps \/ ReadCapsPower \/ ReadDataStatus \/ ReadBrick
    \/ Moisture \/ PowerLimit
    \/ Compliance \/ Session \/ Notify

Environment ==
    \/ \E p \in Ports : RegisterPort(p) \/ Attach(p) \/ Detach(p) \/ Swap(p)
                        \/ Reasons(p)
    \/ Dock \/ SetDataEnabled

(* The bounds on snapshots and kernel events are used up.                 *)
Exhausted == apc = "idle" /\ queries = MaxQueries /\ kernelEvents = MaxKernel

Next == SnapshotStep \/ Environment \/ (Exhausted /\ UNCHANGED vars)

Spec == Init /\ [][Next]_vars /\ WF_vars(SnapshotStep)

-----------------------------------------------------------------------------
(***************************************************************************)
(* Properties, of the vector handed to notifyPortStatusChange.             *)
(***************************************************************************)

Delivered == apc = "notify"

(* Spec 3 and 8: an entry the names map had without a partner reports no  *)
(* power or data role and cannot swap them, unless the compliance warnings *)
(* synthesised the charger-only sink (SINK, UFP, data NONE).             *)
DisconnectedHasNoRoles ==
    Delivered =>
      \A k \in DOMAIN snap :
        LET e == snap[k] IN
          /\ ~e.connected =>
               /\ e.data = "NONE" /\ ~e.canData /\ ~e.canPower
               /\ e.power = "NONE"
                  \/ (e.power = "SINK" /\ e.mode = "UFP" /\ e.warnings # {})

(* Spec 3 and 4.3 (1): a successful snapshot has one entry for each port  *)
(* getTypeCPortNamesHelper listed, named after it, in the map's order.     *)
EveryPortReported ==
    Delivered /\ status = "SUCCESS" =>
      /\ Len(snap) = Len(order)
      /\ \A k \in DOMAIN snap : snap[k].name = order[k]

(* Spec 4.3 (1), (2) and 7: a per-port read failure degrades that field;  *)
(* only a failed topology enumeration makes the snapshot ERROR, and then   *)
(* it is empty.                                                            *)
ErrorOnlyFromTopology ==
    Delivered /\ status = "ERROR" => snap = <<>>

(* The PortRole alternatives and the words of spec 4.3 (2) and 8:        *)
(* power_role holds source or sink, data_role host or device; the mode is  *)
(* DFP for host and UFP for device unless an accessory is reported.        *)
RoleTags == {"powerRole", "dataRole", "mode"}
NodeWords == [powerRole |-> PowerNodes, dataRole |-> DataNodes,
              mode |-> DataNodes]
RoleNames == [powerRole |-> [source |-> "SOURCE", sink |-> "SINK"],
              dataRole  |-> [host |-> "HOST", device |-> "DEVICE"],
              mode      |-> [host |-> "DFP", device |-> "UFP"]]
AccessoryModes == [analog_audio |-> "AUDIO_ACCESSORY",
                   debug |-> "DEBUG_ACCESSORY"]
ExpectedRole(t, c, a, w) ==
    [st |-> "SUCCESS", tag |-> t,
     val |-> CASE ~c                     -> "NONE"
               [] t = "mode" /\ a # "none" -> AccessoryModes[a]
               [] OTHER                  -> RoleNames[t][w]]

RoleDecodingAgrees ==
    \A t \in RoleTags, c \in BOOLEAN, a \in Accessories :
       /\ \A w \in NodeWords[t] :
            CurrentRole(t, c, a, w) = ExpectedRole(t, c, a, w)
       /\ CurrentRole(t, TRUE, "none", "dual").st = "UNRECOGNIZED_ROLE"

(* Spec 4.3 (2) and 8: getCurrentRoleHelper's if-chain decodes every word *)
(* a role node can hold, for each union tag getPortStatusHelper sets, to   *)
(* SUCCESS and a value of that same alternative (the get<tag>() after it   *)
(* would assert otherwise), with the accessory override for the mode; a    *)
(* word outside the vocabulary is UNRECOGNIZED_ROLE.  The words the        *)
(* registered ports' nodes hold now decode to their own alternative.       *)
RoleWordsDecode ==
    /\ RoleDecodingAgrees
    /\ \A p \in registered :
         /\ CurrentRole("powerRole", partner[p], "none", power[p]).tag
              = "powerRole"
         /\ CurrentRole("mode", partner[p], accessory[p], data[p]).tag
              = "mode"

(* Spec 4.3 (1): the sub-queries never index an empty port vector.         *)
NoIndexIntoEmptySnapshot == ~oob

(* Spec 4.3 (6) and 8: queryNonCompliantChargerStatus reports, for the    *)
(* text the driver writes into non_compliant_reasons, exactly the warnings *)
(* its reason words name: Tokenize on "[], \n\0" (whose NUL ends the      *)
(* literal), then the strncmp prefix tests in order with their `continue`s.*)
(* Checked for every list of at most MaxReasons words, unknown ones        *)
(* included, and for the lists every port's file holds now.                *)
ComplianceWarningsMatchReasons ==
    /\ DecodingAgreesUpToBound
    /\ \A p \in Ports : ReasonWarnings[reasons[p]] = ExpectedWarnings(reasons[p])

=============================================================================
