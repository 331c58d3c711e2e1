----------------------------- MODULE UsbHubTuning -----------------------------
(***************************************************************************)
(* Hub tuning in the Pixel USB HAL (src/usb/usb/Usb.cpp).                  *)
(*                                                                         *)
(* The constructor starts the USB host thread (usbHostWork), which calls   *)
(* usbDeviceAdded for every USB device the host stack enumerates.  While   *)
(* the pogo dock has enable_hub set, the device whose unique id is that of *)
(* bus 1 port 1 is the internal hub, and tuneInternalHub sends it a        *)
(* vendor control transfer carrying mUsbHubVendorCmdValue and              *)
(* mUsbHubVendorCmdIndex.  Binder threads running handleShellCommand       *)
(* ("hub-vendor-cmd VALUE INDEX") assign those two members, with no lock.  *)
(*                                                                         *)
(* Each plain load or store of one int member is a step of its own, so     *)
(* the host thread's two loads can interleave with a shell's two stores.   *)
(***************************************************************************)
EXTENDS Naturals

CONSTANTS
    Shells,        \* binder threads running handleShellCommand
    Values,        \* wValue arguments a shell may give
    Indices,       \* wIndex arguments a shell may give
    DefaultValue,  \* GL852G_VENDOR_CMD_VALUE_DEFAULT
    DefaultIndex,  \* GL852G_VENDOR_CMD_INDEX_DEFAULT
    MaxCmds,       \* bound on shell commands
    MaxDevices     \* bound on USB devices the host stack enumerates

ASSUME DefaultValue \in Values /\ DefaultIndex \in Indices

(* What a hub-vendor-cmd invocation carries, by the branch it takes: a     *)
(* caller that is neither root nor shell, fewer than three arguments, an   *)
(* argument ParseInt rejects, another command word, or a parsed pair.      *)
Commands ==
    [kind : {"denied", "short", "unparsable", "usage"},
     value : {DefaultValue}, index : {DefaultIndex}]
    \cup [kind : {"set"}, value : Values, index : Indices]

(* A device enumerated on the host bus: the internal hub at 1-1, which is  *)
(* a GL852G or not, or any other device.                                   *)
Devices == {"internalGL852G", "internalOther", "external"}

HostPcs == {"start", "run", "added", "open", "loadValue", "loadIndex",
            "transfer", "dead"}

VARIABLES
    mUsbHubVendorCmdValue, mUsbHubVendorCmdIndex,
    enableHub,     \* /sys/devices/platform/google,pogo/enable_hub reads "1"
    hpc,           \* control point of the USB host thread
    device,        \* the device usbDeviceAdded is handling
    value, index,  \* locals of tuneInternalHub
    spc,           \* control point of each shell thread
    cmd,           \* the command each shell thread serves
    cmds, devices, \* commands and enumerations so far
    setPairs,      \* history: the defaults and every pair a command carried
    sent           \* history: pairs sent in a vendor control transfer

vars == <<mUsbHubVendorCmdValue, mUsbHubVendorCmdIndex, enableHub, hpc,
          device, value, index, spc, cmd, cmds, devices, setPairs, sent>>

Pairs == [value : Values, index : Indices]

TypeOK ==
    /\ mUsbHubVendorCmdValue \in Values /\ mUsbHubVendorCmdIndex \in Indices
    /\ enableHub \in BOOLEAN
    /\ hpc \in HostPcs /\ device \in Devices
    /\ value \in Values /\ index \in Indices
    /\ spc \in [Shells -> {"idle", "storeValue", "storeIndex"}]
    /\ cmd \in [Shells -> Commands]
    /\ cmds \in 0..MaxCmds /\ devices \in 0..MaxDevices
    /\ setPairs \subseteq Pairs /\ sent \subseteq Pairs

(* Usb::Usb: the members take their defaults and pthread_create starts     *)
(* usbHostWork (a failure aborts the process, so it is not a state).       *)
Init ==
    /\ mUsbHubVendorCmdValue = DefaultValue
    /\ mUsbHubVendorCmdIndex = DefaultIndex
    /\ enableHub \in BOOLEAN
    /\ hpc = "start"
    /\ device = "external"
    /\ value = DefaultValue /\ index = DefaultIndex
    /\ spc = [s \in Shells |-> "idle"]
    /\ cmd = [s \in Shells |-> [kind |-> "usage", value |-> DefaultValue,
                                 index |-> DefaultIndex]]
    /\ cmds = 0 /\ devices = 0
    /\ setPairs = {[value |-> DefaultValue, index |-> DefaultIndex]}
    /\ sent = {}

shellVars == <<spc, cmd, cmds, setPairs>>
hostVars == <<hpc, device, value, index, devices, sent>>
-----------------------------------------------------------------------------
(* usbHostWork: usb_host_init fails and the thread returns, or             *)
(* usb_host_run starts monitoring and never returns.                       *)
HostStart ==
    /\ hpc = "start"
    /\ \E ok \in BOOLEAN : hpc' = IF ok THEN "run" ELSE "dead"
    /\ UNCHANGED <<mUsbHubVendorCmdValue, mUsbHubVendorCmdIndex, enableHub,
                   device, value, index, devices, sent, shellVars>>

(* The host stack reports a new device to usbDeviceAdded.                  *)
DeviceAdded ==
    /\ hpc = "run" /\ devices < MaxDevices
    /\ \E d \in Devices : device' = d
    /\ devices' = devices + 1
    /\ hpc' = "added"
    /\ UNCHANGED <<mUsbHubVendorCmdValue, mUsbHubVendorCmdIndex, enableHub,
                   value, index, sent, shellVars>>

(* getInternalHubUniqueId() compared with the device's unique id: 1000 +  *)
(* the devnum read from 1-1 matches only the device at bus 1 port 1; when  *)
(* devnum cannot be read or parsed the id is -1 and matches no device.     *)
IsInternalHub(d, devnumRead) == devnumRead /\ d # "external"

(* usbDeviceAdded: enable_hub must read "1" and the device must be the    *)
(* internal hub.                                                           *)
UsbDeviceAdded ==
    /\ hpc = "added"
    /\ \E devnumRead \in BOOLEAN :
          hpc' = IF enableHub /\ IsInternalHub(device, devnumRead)
                    THEN "open" ELSE "run"
    /\ UNCHANGED <<mUsbHubVendorCmdValue, mUsbHubVendorCmdIndex, enableHub,
                   device, value, index, devices, sent, shellVars>>

(* tuneInternalHub: usb_device_open fails (ERROR), or the thread goes on   *)
(* to load the two members.                                                *)
HubOpen ==
    /\ hpc = "open"
    /\ \E ok \in BOOLEAN : hpc' = IF ok THEN "loadValue" ELSE "run"
    /\ UNCHANGED <<mUsbHubVendorCmdValue, mUsbHubVendorCmdIndex, enableHub,
                   device, value, index, devices, sent, shellVars>>

HubLoadValue ==
    /\ hpc = "loadValue"
    /\ value' = mUsbHubVendorCmdValue
    /\ hpc' = "loadIndex"
    /\ UNCHANGED <<mUsbHubVendorCmdValue, mUsbHubVendorCmdIndex, enableHub,
                   device, index, devices, sent, shellVars>>

HubLoadIndex ==
    /\ hpc = "loadIndex"
    /\ index' = mUsbHubVendorCmdIndex
    /\ hpc' = "transfer"
    /\ UNCHANGED <<mUsbHubVendorCmdValue, mUsbHubVendorCmdIndex, enableHub,
                   device, value, devices, sent, shellVars>>

(* Only a Genesys GL852G (vendor and product id) gets the transfer; its    *)
(* result is only logged.  usb_device_close, and back to usb_host_run.     *)
HubTransfer ==
    /\ hpc = "transfer"
    /\ sent' = IF device = "internalGL852G"
                  THEN sent \cup {[value |-> value, index |-> index]}
                  ELSE sent
    /\ hpc' = "run"
    /\ UNCHANGED <<mUsbHubVendorCmdValue, mUsbHubVendorCmdIndex, enableHub,
                   device, value, index, devices, shellVars>>
-----------------------------------------------------------------------------
(* handleShellCommand.  Every branch but a parsed pair returns at once.    *)
ShellCommand(s) ==
    /\ spc[s] = "idle" /\ cmds < MaxCmds
    /\ \E c \in Commands :
          /\ cmd' = [cmd EXCEPT ![s] = c]
          /\ spc' = [spc EXCEPT ![s] = IF c.kind = "set" THEN "storeValue"
                                                      ELSE "idle"]
    /\ cmds' = cmds + 1
    /\ setPairs' = IF cmd'[s].kind = "set"
                      THEN setPairs \cup {[value |-> cmd'[s].value,
                                            index |-> cmd'[s].index]}
                      ELSE setPairs
    /\ UNCHANGED <<mUsbHubVendorCmdValue, mUsbHubVendorCmdIndex, enableHub,
                   hostVars>>

ShellStoreValue(s) ==
    /\ spc[s] = "storeValue"
    /\ mUsbHubVendorCmdValue' = cmd[s].value
    /\ spc' = [spc EXCEPT ![s] = "storeIndex"]
    /\ UNCHANGED <<mUsbHubVendorCmdIndex, enableHub, cmd, cmds, setPairs,
                   hostVars>>

(* The second store; the command then returns NO_ERROR.                    *)
ShellStoreIndex(s) ==
    /\ spc[s] = "storeIndex"
    /\ mUsbHubVendorCmdIndex' = cmd[s].index
    /\ spc' = [spc EXCEPT ![s] = "idle"]
    /\ UNCHANGED <<mUsbHubVendorCmdValue, enableHub, cmd, cmds, setPairs,
                   hostVars>>

(* The pogo driver sets or clears enable_hub as the dock comes and goes.   *)
DockHub ==
    /\ enableHub' = ~enableHub
    /\ UNCHANGED <<mUsbHubVendorCmdValue, mUsbHubVendorCmdIndex, hpc, device,
                   value, index, spc, cmd, cmds, devices, setPairs, sent>>
-----------------------------------------------------------------------------
HostStep ==
    HostStart \/ DeviceAdded \/ UsbDeviceAdded \/ HubOpen \/ HubLoadValue
    \/ HubLoadIndex \/ HubTransfer

Next ==
    \/ HostStep
    \/ \E s \in Shells :
          ShellCommand(s) \/ ShellStoreValue(s) \/ ShellStoreIndex(s)
    \/ DockHub

Spec == Init /\ [][Next]_vars

(* The usage text of hub-vendor-cmd says a setting takes effect the next   *)
(* time the hub is enabled: every vendor command tuneInternalHub sends     *)
(* carries a (wValue, wIndex) pair that one hub-vendor-cmd set together,   *)
(* or the defaults, never one command's value with another's index.        *)
SentPairWasSet == sent \subseteq setPairs
=============================================================================
