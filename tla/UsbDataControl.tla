---------------------------- MODULE UsbDataControl ----------------------------
(***************************************************************************)
(* The control calls of the Pixel USB HAL (src/usb/usb/Usb.cpp) that write  *)
(* sysfs nodes: enableUsbData, enableUsbDataWhileDocked, resetUsbPort,      *)
(* limitPowerTransfer and enableContaminantPresenceDetection, each with     *)
(* its notification under mLock and its trailing queryVersionHelper.        *)
(*                                                                         *)
(* Binder threads run these calls concurrently; each node access is a step *)
(* of its own.  The status refresh is reduced to what it changes here:    *)
(* under mLock it resolves the memoised i2c path and assigns enabledPath   *)
(* (queryMoistureDetectionStatus); the snapshot itself is UsbStatus.        *)
(***************************************************************************)
EXTENDS Naturals, FiniteSets

CONSTANTS
    Clients,        \* binder threads
    NoThread,
    WritesCanFail,  \* a node write (or the pull-up read) may fail
    I2cCanFail,     \* getI2cClientPath may come back empty
    PogoPresent,    \* move_data_to_usb exists
    MaxCalls

Outcomes == IF WritesCanFail THEN BOOLEAN ELSE {TRUE}
I2cOutcomes == IF I2cCanFail THEN BOOLEAN ELSE {TRUE}

Ops == {"enableUsbData", "limitPowerTransfer", "enableContaminant",
        "resetUsbPort", "enableUsbDataWhileDocked"}
Pcs == {"idle", "enCheck", "enPullup", "enData",
        "disPullup", "disId", "disVbus", "disData", "setFlag",
        "lpI2c", "lpLock", "lpCurrent", "lpSink", "lpSource",
        "cdWrite", "rpWrite", "dkWrite", "notify", "refresh"}

VARIABLES
    pullup, idPin, vbus, usbData,        \* the gadget and PHY nodes
    sinkCurrent, sinkEnable, sourceEnable, \* the TCPC limit nodes
    detectEnable, moveData,
    mUsbDataEnabled, mI2cClientPath, enabledPath, mLock,
    pc, op, arg, ok,                     \* per binder thread
    calls,
    lastLimit       \* the last limitPowerTransfer notified: [v, ok]

nodes == <<pullup, idPin, vbus, usbData, sinkCurrent, sinkEnable,
           sourceEnable, detectEnable, moveData>>
locals == <<pc, op, arg, ok>>
ghosts == <<lastLimit>>
vars == <<nodes, mUsbDataEnabled, mI2cClientPath, enabledPath, mLock,
          locals, calls, ghosts>>

TypeOK ==
    /\ pullup \in {"gadget", "none"}
    /\ {idPin, vbus, usbData, sinkEnable, sourceEnable, detectEnable,
        moveData} \subseteq {"0", "1"}
    /\ sinkCurrent \in {"0", "default"}
    /\ mUsbDataEnabled \in BOOLEAN /\ mI2cClientPath \in BOOLEAN
    /\ enabledPath \in BOOLEAN
    /\ mLock \in Clients \cup {NoThread}
    /\ pc \in [Clients -> Pcs] /\ op \in [Clients -> Ops]
    /\ arg \in [Clients -> BOOLEAN] /\ ok \in [Clients -> BOOLEAN]
    /\ calls \in 0..MaxCalls
    /\ lastLimit \in [v : BOOLEAN, ok : BOOLEAN] \cup {<<>>}

(* Boot: the gadget is pulled up, data and host mode on, no limits;       *)
(* Usb::Usb sets mUsbDataEnabled and leaves mI2cClientPath and the global *)
(* enabledPath empty.                                                      *)
Init ==
    /\ pullup = "gadget" /\ idPin = "0" /\ vbus = "1" /\ usbData = "1"
    /\ sinkCurrent = "default" /\ sinkEnable = "0" /\ sourceEnable = "0"
    /\ detectEnable = "1" /\ moveData = "0"
    /\ mUsbDataEnabled = TRUE /\ mI2cClientPath = FALSE
    /\ enabledPath = FALSE /\ mLock = NoThread
    /\ pc = [c \in Clients |-> "idle"]
    /\ op = [c \in Clients |-> "enableUsbData"]
    /\ arg = [c \in Clients |-> TRUE]
    /\ ok = [c \in Clients |-> TRUE]
    /\ calls = 0
    /\ lastLimit = <<>>

Goto(c, l) == pc' = [pc EXCEPT ![c] = l]
Fail(c, w) == ok' = [ok EXCEPT ![c] = @ /\ w]

(* WriteStringToFile(val, node): the node takes val unless the write fails,*)
(* which clears the call's result.                                         *)
Write(c, node, val, next) ==
    /\ \E w \in Outcomes : /\ node' = IF w THEN val ELSE node
                           /\ Fail(c, w)
    /\ Goto(c, next)

Bit(b) == IF b THEN "1" ELSE "0"

(* The first step of each call.                                            *)
FirstPc(o, v) ==
    CASE o = "enableUsbData"      -> IF v THEN "enCheck" ELSE "disPullup"
      [] o = "limitPowerTransfer" -> "lpI2c"
      [] o = "enableContaminant"  -> "cdWrite"
      [] o = "resetUsbPort"       -> "rpWrite"
      [] OTHER                    -> "dkWrite"

(* A binder thread enters one of the calls with its boolean argument.     *)
Call(c) ==
    /\ pc[c] = "idle"
    /\ calls < MaxCalls
    /\ calls' = calls + 1
    /\ \E o \in Ops, v \in BOOLEAN :
         /\ op' = [op EXCEPT ![c] = o]
         /\ arg' = [arg EXCEPT ![c] = v \/ o \in {"resetUsbPort",
                                                "enableUsbDataWhileDocked"}]
         /\ Goto(c, FirstPc(o, v))
    /\ ok' = [ok EXCEPT ![c] = TRUE]
    /\ UNCHANGED <<nodes, mUsbDataEnabled, mI2cClientPath, enabledPath, mLock,
                   ghosts>>

Unchanged(c, others) ==
    UNCHANGED <<mI2cClientPath, enabledPath, mLock, op, arg, calls, ghosts>>
    /\ UNCHANGED others

-----------------------------------------------------------------------------
(* enableUsbData(true): nothing is written when mUsbDataEnabled is already *)
(* set; else pull the gadget up if the pull-up reads otherwise, and turn  *)
(* the usb_data notification on.                                           *)
EnCheck(c) ==
    /\ pc[c] = "enCheck"
    /\ Goto(c, IF mUsbDataEnabled THEN "setFlag" ELSE "enPullup")
    /\ Unchanged(c, <<nodes, mUsbDataEnabled, ok>>)

EnPullup(c) ==
    /\ pc[c] = "enPullup"
    /\ \E read \in Outcomes :
         IF read /\ pullup # "gadget"
            THEN Write(c, pullup, "gadget", "enData")
            ELSE Goto(c, "enData") /\ UNCHANGED <<pullup, ok>>
    /\ Unchanged(c, <<idPin, vbus, usbData, sinkCurrent, sinkEnable,
                      sourceEnable, detectEnable, moveData, mUsbDataEnabled>>)

EnData(c) ==
    /\ pc[c] = "enData"
    /\ Write(c, usbData, "1", "setFlag")
    /\ Unchanged(c, <<pullup, idPin, vbus, sinkCurrent, sinkEnable,
                      sourceEnable, detectEnable, moveData, mUsbDataEnabled>>)

(* enableUsbData(false): pull the gadget down if it reads pulled up, then *)
(* host mode off (ID 1), VBUS off and the usb_data notification off; every *)
(* write is attempted whatever the earlier ones did.                       *)
DisPullup(c) ==
    /\ pc[c] = "disPullup"
    /\ \E read \in Outcomes :
         IF read /\ pullup = "gadget"
            THEN Write(c, pullup, "none", "disId")
            ELSE Goto(c, "disId") /\ UNCHANGED <<pullup, ok>>
    /\ Unchanged(c, <<idPin, vbus, usbData, sinkCurrent, sinkEnable,
                      sourceEnable, detectEnable, moveData, mUsbDataEnabled>>)

DisId(c) ==
    /\ pc[c] = "disId"
    /\ Write(c, idPin, "1", "disVbus")
    /\ Unchanged(c, <<pullup, vbus, usbData, sinkCurrent, sinkEnable,
                      sourceEnable, detectEnable, moveData, mUsbDataEnabled>>)

DisVbus(c) ==
    /\ pc[c] = "disVbus"
    /\ Write(c, vbus, "0", "disData")
    /\ Unchanged(c, <<pullup, idPin, usbData, sinkCurrent, sinkEnable,
                      sourceEnable, detectEnable, moveData, mUsbDataEnabled>>)

(* Mutant of DisData: the disable sequence is retried while result is    *)
(* false, without clearing it.                                             *)
DisDataRetry(c) ==
    /\ pc[c] = "disData"
    /\ \E w \in Outcomes : /\ usbData' = IF w THEN "0" ELSE usbData
                           /\ Fail(c, w)
                           /\ Goto(c, IF ok[c] /\ w THEN "setFlag"
                                                   ELSE "disPullup")
    /\ Unchanged(c, <<pullup, idPin, vbus, sinkCurrent, sinkEnable,
                      sourceEnable, detectEnable, moveData, mUsbDataEnabled>>)

DisData(c) ==
    /\ pc[c] = "disData"
    /\ Write(c, usbData, "0", "setFlag")
    /\ Unchanged(c, <<pullup, idPin, vbus, sinkCurrent, sinkEnable,
                      sourceEnable, detectEnable, moveData, mUsbDataEnabled>>)

(* if (result) mUsbDataEnabled = in_enable, outside any lock.              *)
SetFlag(c) ==
    /\ pc[c] = "setFlag"
    /\ mUsbDataEnabled' = IF ok[c] THEN arg[c] ELSE mUsbDataEnabled
    /\ Goto(c, "notify")
    /\ Unchanged(c, <<nodes, ok>>)

-----------------------------------------------------------------------------
(* limitPowerTransfer: resolve mI2cClientPath (outside mLock); if it stays *)
(* empty, return at once with no notification.  Then, under mLock: the    *)
(* sink current to 0 when limiting, the sink and source limit enables, the *)
(* notification, unlock, and the trailing queryVersionHelper.             *)
LpI2c(c) ==
    /\ pc[c] = "lpI2c"
    /\ \E found \in I2cOutcomes :
         /\ mI2cClientPath' = (mI2cClientPath \/ found)
         /\ IF mI2cClientPath'
               THEN Goto(c, "lpLock")
               ELSE Goto(c, "idle")
    /\ UNCHANGED <<nodes, mUsbDataEnabled, enabledPath, mLock, op, arg, ok,
                   calls, lastLimit>>

(* Mutant of LpLock: the writes are done without taking mLock.            *)
LpLockSkipped(c) ==
    /\ pc[c] = "lpLock"
    /\ Goto(c, IF arg[c] THEN "lpCurrent" ELSE "lpSink")
    /\ Unchanged(c, <<nodes, mUsbDataEnabled, ok>>)

LpLock(c) ==
    /\ pc[c] = "lpLock"
    /\ mLock = NoThread
    /\ mLock' = c
    /\ Goto(c, IF arg[c] THEN "lpCurrent" ELSE "lpSink")
    /\ UNCHANGED <<nodes, mUsbDataEnabled, mI2cClientPath, enabledPath, op,
                   arg, ok, calls, ghosts>>

LpCurrent(c) ==
    /\ pc[c] = "lpCurrent"
    /\ Write(c, sinkCurrent, "0", "lpSink")
    /\ Unchanged(c, <<pullup, idPin, vbus, usbData, sinkEnable, sourceEnable,
                      detectEnable, moveData, mUsbDataEnabled>>)

LpSink(c) ==
    /\ pc[c] = "lpSink"
    /\ Write(c, sinkEnable, Bit(arg[c]), "lpSource")
    /\ Unchanged(c, <<pullup, idPin, vbus, usbData, sinkCurrent, sourceEnable,
                      detectEnable, moveData, mUsbDataEnabled>>)

LpSource(c) ==
    /\ pc[c] = "lpSource"
    /\ Write(c, sourceEnable, Bit(arg[c]), "notify")
    /\ Unchanged(c, <<pullup, idPin, vbus, usbData, sinkCurrent, sinkEnable,
                      detectEnable, moveData, mUsbDataEnabled>>)

(* Mutant of CdWrite: the node gets "true"/"false" instead of "1"/"0".    *)
CdWriteWords(c) ==
    /\ pc[c] = "cdWrite"
    /\ \/ /\ enabledPath
          /\ Write(c, detectEnable, IF arg[c] THEN "true" ELSE "false", "notify")
       \/ /\ ~enabledPath
          /\ Fail(c, FALSE) /\ Goto(c, "notify")
          /\ UNCHANGED detectEnable
       \/ Goto(c, "notify") /\ UNCHANGED <<detectEnable, ok>>
    /\ UNCHANGED <<pullup, idPin, vbus, usbData, sinkCurrent, sinkEnable,
                   sourceEnable, moveData, mUsbDataEnabled, mI2cClientPath,
                   enabledPath, mLock, op, arg, calls, lastLimit>>

(* enableContaminantPresenceDetection: unless vendor.usb.contaminantdisable*)
(* is "true" (a property read on every call), write the enable bit to the *)
(* global enabledPath, which stays empty until a status query resolved it, *)
(* and a write to "" fails.                                                *)
CdWrite(c) ==
    /\ pc[c] = "cdWrite"
    /\ \/ /\ enabledPath
          /\ Write(c, detectEnable, Bit(arg[c]), "notify")
       \/ /\ ~enabledPath
          /\ Fail(c, FALSE) /\ Goto(c, "notify")
          /\ UNCHANGED detectEnable
       \/ Goto(c, "notify") /\ UNCHANGED <<detectEnable, ok>>
    /\ UNCHANGED <<pullup, idPin, vbus, usbData, sinkCurrent, sinkEnable,
                   sourceEnable, moveData, mUsbDataEnabled, mI2cClientPath,
                   enabledPath, mLock, op, arg, calls, lastLimit>>

(* resetUsbPort: force the pull-up to none.                               *)
RpWrite(c) ==
    /\ pc[c] = "rpWrite"
    /\ Write(c, pullup, "none", "notify")
    /\ Unchanged(c, <<idPin, vbus, usbData, sinkCurrent, sinkEnable,
                      sourceEnable, detectEnable, moveData, mUsbDataEnabled>>)

(* enableUsbDataWhileDocked: write 1 to move_data_to_usb if it opens,     *)
(* else report NOT_SUPPORTED.                                              *)
DkWrite(c) ==
    /\ pc[c] = "dkWrite"
    /\ \/ PogoPresent /\ Write(c, moveData, "1", "notify")
       \/ ~PogoPresent /\ Goto(c, "notify") /\ UNCHANGED <<moveData, ok>>
    /\ Unchanged(c, <<pullup, idPin, vbus, usbData, sinkCurrent, sinkEnable,
                      sourceEnable, detectEnable, mUsbDataEnabled>>)

-----------------------------------------------------------------------------
(* Each call's notify...Status callback: mLock is taken, the outcome is   *)
(* reported if a callback is set, and mLock is released, all in one step;  *)
(* the call then goes on to next.                                          *)
Notified(c, next) ==
    /\ pc[c] = "notify"
    /\ mLock = NoThread
    /\ Goto(c, next)
    /\ UNCHANGED <<nodes, mUsbDataEnabled, mI2cClientPath, enabledPath, mLock,
                   op, arg, ok, calls, ghosts>>

(* enableUsbData: notifyEnableUsbDataStatus(result), then                  *)
(* queryVersionHelper.                                                     *)
EnNotify(c) == op[c] = "enableUsbData" /\ Notified(c, "refresh")

(* enableUsbDataWhileDocked: NOT_SUPPORTED, SUCCESS or ERROR, then         *)
(* queryVersionHelper.                                                     *)
DkNotify(c) == op[c] = "enableUsbDataWhileDocked" /\ Notified(c, "refresh")

(* resetUsbPort: notifyResetUsbPortStatus, and it returns with no status  *)
(* refresh.                                                                *)
RpNotify(c) == op[c] = "resetUsbPort" /\ Notified(c, "idle")

(* enableContaminantPresenceDetection: notifyContaminantEnabledStatus,     *)
(* then queryVersionHelper.                                                *)
CdNotify(c) == op[c] = "enableContaminant" /\ Notified(c, "refresh")

(* limitPowerTransfer holds mLock from its writes: the                     *)
(* notifyLimitPowerTransferStatus (ERROR if any write failed), then the    *)
(* unlock, with no lock taken here, and queryVersionHelper.                *)
LpNotify(c) ==
    /\ pc[c] = "notify" /\ op[c] = "limitPowerTransfer"
    /\ mLock' = NoThread
    /\ lastLimit' = [v |-> arg[c], ok |-> ok[c]]
    /\ Goto(c, "refresh")
    /\ UNCHANGED <<nodes, mUsbDataEnabled, mI2cClientPath, enabledPath, op,
                   arg, ok, calls>>

(* queryVersionHelper under mLock; of it, only queryMoistureDetectionStatus*)
(* changes this module's state: it resolves mI2cClientPath if empty and,  *)
(* once that succeeds, assigns enabledPath.                               *)
Refresh(c) ==
    /\ pc[c] = "refresh"
    /\ mLock = NoThread
    /\ \E found \in I2cOutcomes :
         /\ mI2cClientPath' = (mI2cClientPath \/ found)
         /\ enabledPath' = (enabledPath \/ mI2cClientPath')
    /\ Goto(c, "idle")
    /\ UNCHANGED <<nodes, mUsbDataEnabled, mLock, op, arg, ok, calls, ghosts>>

-----------------------------------------------------------------------------
Step(c) ==
    \/ EnCheck(c) \/ EnPullup(c) \/ EnData(c)
    \/ DisPullup(c) \/ DisId(c) \/ DisVbus(c) \/ DisData(c) \/ SetFlag(c)
    \/ LpI2c(c) \/ LpLock(c) \/ LpCurrent(c) \/ LpSink(c) \/ LpSource(c)
    \/ CdWrite(c) \/ RpWrite(c) \/ DkWrite(c)
    \/ EnNotify(c) \/ DkNotify(c) \/ RpNotify(c) \/ CdNotify(c) \/ LpNotify(c)
    \/ Refresh(c)

(* The bound on calls is used up and every thread is back in idle.        *)
Exhausted == calls = MaxCalls /\ \A c \in Clients : pc[c] = "idle"

Next ==
    \/ \E c \in Clients : Call(c) \/ Step(c)
    \/ Exhausted /\ UNCHANGED vars

(* Binder threads are kernel-scheduled: weak fairness on every step of a  *)
(* call already made; none on making calls.                                *)
Spec == Init /\ [][Next]_vars /\ \A c \in Clients : WF_vars(Step(c))

-----------------------------------------------------------------------------
(***************************************************************************)
(* Properties.                                                             *)
(***************************************************************************)

EnablingData(c) ==
    op[c] = "enableUsbData" /\ pc[c] \notin {"idle", "notify", "refresh"}
LimitWriting(c) ==
    op[c] = "limitPowerTransfer"
    /\ pc[c] \in {"lpCurrent", "lpSink", "lpSource", "notify"}

(* Spec 6 and 8: with no enableUsbData in flight, mUsbDataEnabled (what   *)
(* the snapshot reports as DISABLED_FORCE or ENABLED) agrees with the      *)
(* usb_data node the calls wrote.                                          *)
DataFlagMatchesHardware ==
    (\A c \in Clients : ~EnablingData(c))
        => (mUsbDataEnabled <=> usbData = "1")

(* Spec 6: once the last limitPowerTransfer to notify reported SUCCESS, and*)
(* no other is writing, the sink and source limit enables both hold its    *)
(* argument; mLock keeps two calls' writes from interleaving.              *)
LimitNodesAgree ==
    (lastLimit # <<>> /\ lastLimit.ok /\ \A c \in Clients : ~LimitWriting(c))
        => sinkEnable = Bit(lastLimit.v) /\ sourceEnable = Bit(lastLimit.v)

(* Every call returns (mLock is always released).                         *)
CallsReturn == \A c \in Clients : pc[c] # "idle" ~> pc[c] = "idle"
=============================================================================
