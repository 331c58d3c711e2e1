# TLA+ models of the Pixel USB HAL (gs201)

This directory holds TLA+ models of `src/usb/usb/Usb.cpp`, the AIDL USB HAL
service of the gs201 devices. They are checked with TLC. Every definition is
translated from that file. `PROJECT.json` maps each definition to the source
lines it models.

## 1. Inventory

### Components and their state

| Component | Code | State it keeps |
|---|---|---|
| RoleSwitchCoordinator | `Usb::switchRole` 611-669, `switchMode` 424-475, `switchToDrp` 405-422, `convertRoletoString` / `extractRole` 374-403 | `mRoleSwitchLock`, `mPartnerLock`, `mPartnerUp`, `mPartnerCV`; the sysfs nodes `power_role`, `data_role`, `port_type` |
| EventDispatchLoop | `work` 1146-1206, `uevent_event` 1088-1144, `sighandler` 1208-1215 | the uevent socket; `destroyThread` |
| SubscriptionState | `Usb::setCallback` 1217-1252 | `mCallback`, `mPoll`, all under `mLock` |
| StatusAggregator | `queryVersionHelper` 988-1006, `getPortStatusHelper` 873-974, `getCurrentRoleHelper` 764-829, `getTypeCPortNamesHelper` 831-857, `canSwitchRoleHelper`, `queryMoistureDetectionStatus` 254-303, `queryPowerTransferStatus` 727-750, `queryNonCompliantChargerStatus` 305-357, `queryUsbDataSession` 976-986 | `mLock`; the per-call `currentPortStatus` vector; `mI2cClientPath` and the global `enabledPath`, which are memoised |
| USB data control | `enableUsbData` 124-193, `enableUsbDataWhileDocked` 195-227, `resetUsbPort` 229-252 | `mUsbDataEnabled`; the pull-up, ID, VBUS and usb_data nodes |
| Power / contaminant control | `limitPowerTransfer` 671-725, `enableContaminantPresenceDetection` 1026-1048 | the sink/source limit nodes and the contaminant detection node |
| Overheat telemetry | `report_overheat_event` 1050-1081 | the per-event `overheat_info` |
| Hub tuning | `usbHostWork`, `usbDeviceAdded`, `tuneInternalHub` 477-555 | `mUsbHubVendorCmdValue/Index` |
| Shell command | `handleShellCommand` 1254-1293 | `mUsbHubVendorCmdValue/Index` |

### How they interact

* **Threads.** Binder threads call the AIDL methods concurrently. The uevent
  worker (`mPoll`, running `work`) exists while a callback is registered. The
  host thread (`usbHostWork`) runs for the whole process.
* **Locks.** The code has three locks:
  * `mLock` guards `mCallback` and every notification, and is held for a
    whole `queryVersionHelper`.
  * `mRoleSwitchLock` serialises `switchRole`. The worker takes it only with
    `trylock`.
  * `mPartnerLock` and `mPartnerCV` carry the partner-added confirmation from
    the worker to `switchMode`.
* **Confirmation over a second channel.** `switchMode` writes `port_type`. The
  kernel then renegotiates and emits uevents. The worker matches
  `add@...-partner`, sets `mPartnerUp` and signals.
* **Reconciliation.** Every typec or power-supply uevent runs
  `queryVersionHelper`. Then, if no switch holds `mRoleSwitchLock`, the worker
  checks each port's `-partner` directory and writes `dual` to each port
  without one. The check and the write are separate steps.
* **Hub tuning.** The host thread sends the internal hub a vendor command
  built from `mUsbHubVendorCmdValue/Index`, which the `hub-vendor-cmd` shell
  command assigns on a binder thread with no lock.
* **Shared, unlocked state.** `mUsbDataEnabled` is written by `enableUsbData`
  outside any lock and read by `getPortStatusHelper` under `mLock`.
  `mI2cClientPath` and `enabledPath` are written lazily by the status queries
  and read by `limitPowerTransfer` and `enableContaminantPresenceDetection`.
* **Cancellation.** `setCallback(NULL)` holds `mLock`, sends `SIGUSR1` to the
  worker, and `pthread_join`s it. The handler sets `destroyThread`, which the
  loop reads only before each `epoll_wait`.

### What is hard

* **Timed wait.** Spurious wake-ups, a timeout racing a late confirmation, and
  stale or foreign confirmations.
* **Reconciliation.** It must never interfere with an in-flight mode switch.
* **Worker teardown.** `setCallback(NULL)` joins the worker while holding the
  lock the worker needs. The signal can also land before `epoll_wait` blocks.
* **Lost updates.** Concurrent `enableUsbData` calls have no serialisation, so
  the flag and the hardware can disagree.
* **Boundary cases in the snapshot.** `[0]` is indexed on an empty port vector.
  One failed role query leaves the remaining ports default-initialised.
* **Unreliable delivery.** A uevent can be dropped by socket overflow, and
  notifications are dropped when no callback is set.

### Properties that make each component correct

* **RoleSwitchCoordinator**
  * While a mode switch waits, no one else writes that port's `port_type`.
  * A success needs a partner-add handled after the write, and of that port.
  * A timeout means no confirmation arrived.
  * Every call returns.
* **EventDispatchLoop**
  * A partner-add is never lost while a switch waits.
  * Reconciliation only writes `dual`, and only to partnerless ports with no
    switch in flight (the code meets the second half; the first only as of
    its `opendir`).
* **SubscriptionState**
  * `setCallback(NULL)` returns, and the worker has stopped when it does.
  * At most one worker runs, and it runs only while a callback is registered.
* **StatusAggregator**
  * A disconnected port has power and data role NONE, except for the
    compliance-warning synthesis.
  * No out-of-range index is used.
  * Every enumerated port appears with its name.
  * Every word a role node can hold decodes to the requested alternative.
* **Hub tuning**
  * The vendor command sends a (value, index) pair that one shell command
    set, or the defaults.
* **USB data control**
  * Once the calls have completed without I/O errors, the data status in the
    next snapshot matches the `usb_data` node.

## 2. Plan

The modules are written in this order, most important behaviour first:

1. **`UsbRoleSwitch`** (done). `switchRole` and `switchMode` callers, the
   uevent worker's partner-add and typec branches, and the kernel as an
   environment that attaches and detaches partners.
2. **`UsbCallback`** (done). `setCallback`, `work`'s loop with
   `destroyThread`, `sighandler`, `mLock`, and binder threads running
   `queryVersionHelper`. It checks that `setCallback(NULL)` returns and that
   the worker has stopped once it does. A violation run is expected for the
   join under `mLock`. It also classifies each record in `uevent_event`, runs
   the overheat report, and runs `queryPortStatus` as a second user of
   `mLock`.
3. **`UsbStatus`** (done). `queryVersionHelper` and its sub-queries over an abstract
   sysfs: the port names with their connected flag, the role strings, the
   accessory, the warnings and the data-enabled flag. It checks the snapshot
   invariants of spec 3 and 8 and the empty-vector `[0]` access.
4. **`UsbDataControl`** (done). `enableUsbData`, `enableUsbDataWhileDocked`,
   `resetUsbPort`, `limitPowerTransfer` and
   `enableContaminantPresenceDetection`, composed with a `UsbStatus` snapshot
   step. It checks the race on `mUsbDataEnabled`, the TCPC limit nodes and
   that every call returns. The lazily set `enabledPath` is modelled, but no
   property is about it.
5. **`RoleSwitchAbstract`** plus a refinement (done). Calls are serialised,
   and each is a short sequence of atomic steps: decide a power or data role,
   or write the mode and then either succeed after a partner-add or write
   `dual` back. `UsbRoleSwitch` is shown to implement it through
   `INSTANCE ... WITH`, with the abstract spec as a PROPERTY.
6. **`ComplianceWarnings`** (done). The tokenizer with prefix matching in
   `queryNonCompliantChargerStatus`, as RECURSIVE operators. `UsbStatus` uses
   them, and the decoded warnings are checked against the reason table of
   spec 4.3 (6) and 8 over every short list of reason words.
7. **`UsbHubTuning`** (done). The host thread's `usbDeviceAdded` and
   `tuneInternalHub` against `handleShellCommand` on a binder thread.

## 3. Modules and runs

### UsbRoleSwitch (`UsbRoleSwitch.tla`, `MC_UsbRoleSwitch.tla`)

**State.**

* The kernel's `port_type` node and partner presence for each port.
* The uevent socket queue, as kinds `add` / `change`.
* `mRoleSwitchLock`, `mPartnerUp`.
* For each caller: a program counter and the locals of `switchRole` /
  `switchMode` (`req`, the ticks left to the deadline, `err`, `roleSwitch`,
  and whether `mPartnerCV` was signalled).
* The worker's program counter, the ports its reconciliation loop has yet
  to check (`todo`) and the port it is switching to `dual` (`rport`).
* History variables read only by properties: the value written, whether a partner-add was handled, and whether a partner
  attached to that port.

**Actions and how they correspond to the code.**

* `SwitchRoleRequest`, `SwitchRoleLock`, `SwitchRoleWrite` (power/data) and
  `SwitchRoleNotify` model `switchRole`.
* `SwitchModeWrite` covers `fopen`, clearing `mPartnerUp`, `fputs` and entering
  the wait. `Tick` is time passing. `SwitchModeWake` is
  `pthread_cond_timedwait` returning by timeout, by signal or spuriously.
  `SwitchModeCheck` is the decision after re-taking the lock, including
  `wait_again` with its freshly computed deadline. `SwitchToDrp` is the
  fallback.
* `UeventRecv`, `UeventPartnerAdded` and `UeventTypecChanged` model
  `uevent_event`. The status refresh is left out of this module.
  `UeventTypecChanged` is the `trylock`; on success, `ReconcileCheck` is one
  iteration's `opendir` of the port's `-partner` directory, `ReconcileDrp`
  the `switchToDrp` that follows when it is missing, and `ReconcileDone` the
  unlock. A partner can attach between `ReconcileCheck` and `ReconcileDrp`
  (line 1127); TLC reaches that write of `dual` over a new partner. No run
  states it as a property yet (see the hazards in `PROJECT.json`).
* `PartnerAttach` and `PartnerDetach` are the kernel.

**Modelling choices.**

* Every `mPartnerLock` critical section is one action. Waking and re-taking the
  lock are separate steps, and the worker can run between them.
* A write that the kernel refuses (`"none"`, from DRP) or whose flush at
  `fclose` fails leaves the node unchanged. The result of `fclose` is never
  checked by the code.

**Runs.**

| Run | cfg | Expect | Shows |
|---|---|---|---|
| role_switch | `UsbRoleSwitch.cfg` | pass | `SwitchOwnsPortType`: the trylock keeps the reconciliation away from a pending mode switch. `SuccessRequiresConfirmation`: clearing `mPartnerUp` before the write makes success depend on a fresh partner-add. `SwitchTerminates`: every call returns. `RefinesAbstract`: the threads implement `RoleSwitchAbstract` (below). About 114k states, 65 s. |
| role_switch_timeout_race | `RoleSwitchTimeoutRace.cfg` | violation | A partner-add between the timeout and re-taking `mPartnerLock` is ignored, and the switch is undone (line 456). |
| role_switch_wrong_partner | `RoleSwitchWrongPartner.cfg` | violation | A stale or foreign partner-add confirms a mode switch (line 1104). |

**Bounds.**

* One port for the passing run. The second port only multiplies states here,
  since the worker's partner regex does not look at the port. Two ports are
  used where they matter (`role_switch_wrong_partner`).
* Two callers, to get contention on `mRoleSwitchLock`.
* `Timeout = 2` ticks, so a tick can pass before a signal or wake.
* One spurious wake-up, two partner events and two calls.

Each bound is enough to reach these cases: a switch waiting while the other
caller queues; a signal before, at or after the deadline; a wake-up with no
partner; and reconciliation with a switch in flight and with none.

**Fairness.** Weak fairness on every thread step, on the clock and on the
worker. The threads are OS threads scheduled by the kernel. The clock advances
and the worker blocks only in `epoll_wait`. No fairness applies to new calls,
to the kernel's partner events, or to spurious wake-ups (the code can rely on
none of these). Liveness is checked without symmetry.

### RoleSwitchAbstract (`RoleSwitchAbstract.tla`)

This module states what a `switchRole` call promises, with no threads, no
`mPartnerLock`, no condition variable and no uevent queue.

* `owner` is the caller that holds `mRoleSwitchLock`. `Acquire` needs it free
  and `Return` frees it, so calls never overlap.
* The steps of a call are:
  * `Call` and `Acquire`;
  * then one of:
    * `Decide`, for power and data: any result;
    * `Write` of the mode;
    * `WriteFailed`;
  * after a `Write`, either `Succeed` or `GiveUp`. `Succeed` is allowed only
    when `seen` is set, that is, once a partner-add arrived after the write;
  * after `GiveUp` or `WriteFailed`, `SwitchBack` writes `dual` (the write
    may be lost);
  * `Return`.
* `Confirm` marks every written switch as seen.
* `Reconcile(p)` may put a port back to `dual`, but only while no call
  holds the lock. It does not promise that the port has no partner: the code
  reads the `-partner` directory one step before it writes.
* `Plug` attaches or detaches a partner.
* Weak fairness on a call's own steps means every accepted call returns.

`UsbRoleSwitch` defines `Abstract == INSTANCE RoleSwitchAbstract WITH ...`
with this refinement mapping:

* `status` comes from the caller's `pc`:
  * `lockRS` is `called`;
  * `write` and `modeWrite` are `acquired`;
  * `wait` and `relock` are `written`;
  * `drp` is `failing`;
  * `notify` is `done`.
* `owner` is `mRoleSwitchLock`, except that the worker holding it for its
  loop maps to no owner. `result` is `roleSwitch`, and `seen` is the
  history variable `confirmed`.

`Tick`, `SwitchModeWake`, `UeventRecv`, the `wait_again` branch of
`SwitchModeCheck`, `UeventTypecChanged`, `ReconcileCheck` and
`ReconcileDone` are all abstract stuttering steps; `ReconcileDrp` is
`Reconcile`. `RefinesAbstract == Abstract!AbsSpec` is a PROPERTY of the
`role_switch` run. The mutant that lets a wake with `err == 0` succeed
without testing `mPartnerUp` breaks it.

### UsbCallback (`UsbCallback.tla`, `MC_UsbCallback.tla`)

**State.**

* `mCallback`, `mLock`, `mPoll`, the global `destroyThread`.
* For each worker thread id: where it is in `work()`, whether SIGUSR1 is
  pending for it, and the uevents waiting on its socket.
* For each binder thread calling `setCallback` or `queryPortStatus`: a
  program counter and its argument.
* For each worker, the fields of its `overheat_info` set so far, and, as
  history, the set of `overheat_info` values uploaded.
* Counters bound the number of calls and uevents.

**Actions.**

* `SetCallbackCall` is a binder call arriving.
* `SetCallback` is the body under `mLock`, up to the join:
  * store the handle when presence does not change;
  * otherwise `pthread_kill`, then either go on to `pthread_join` or return
    when the thread has already returned (ESRCH);
  * otherwise clear `destroyThread` and `pthread_create`, which may fail.
* `SetCallbackJoin` is `pthread_join` returning and `mLock` being released.
* `WorkStart` is the socket and epoll setup, which may fail.
* `WorkCheck` is the `while (!destroyThread)` test.
* `WorkEpollWait` is blocking in `epoll_wait`.
* `WorkUevent` is `epoll_wait` returning with a record and `uevent_event`
  classifying it: a failed receive, a typec record (refresh), a
  cooling-device record (overheat report) or another record (ignored).
* `ReportOverheatRead` reads `trip_time`, `hysteresis_time` and
  `cleared_time` in order, returning at the first unreadable one.
  `ReportOverheatUpload` is `getStatsService`, present or not, and the
  upload.
* `QueryPortStatusCall`, `QueryPortStatusRefresh` and `QueryPortStatusNotify`
  are `queryPortStatus`: `queryVersionHelper`'s critical section, then a
  second one for `notifyQueryPortStatus`. Both wait for `mLock`.
* `WorkStatusRefresh` is `queryVersionHelper`, which needs `mLock`. Its
  snapshot content is left to `UsbStatus`.
* `SigUsr1` is `sighandler`. It interrupts `epoll_wait` (EINTR), but not a
  mutex wait.
* `KernelUevent` is a uevent broadcast to every open socket.

**Runs.**

| Run | cfg | Expect | Shows |
|---|---|---|---|
| callback | `UsbCallback.cfg` | pass | `NoWorkerWithoutCallback`: once `setCallback(NULL)` has returned, no uevent thread runs. `AtMostOneWorker`: concurrent calls and failed thread creation never start a second thread. `UploadsHaveAllMetrics`: an overheat report is uploaded only with all three duration fields read for that record (spec 4.2). About 158k states. |
| callback_join_deadlock | `CallbackDeadlock.cfg` | violation | `setCallback(NULL)` joins the worker with `mLock` held while the worker waits for `mLock` (line 1231). |
| callback_lost_signal | `CallbackLostSignal.cfg` | violation | With no uevents at all, a SIGUSR1 handled between the `destroyThread` test and `epoll_wait` leaves the join waiting for ever (line 1180). |

**Bounds and fairness.**

* Two binder threads, so that calls interleave.
* Two worker ids, so that a second thread could exist.
* One callback object. The passing run allows four calls, enough to
  register, query, clear and register again, and three uevents, so that
  one thread's life can see a typec, a cooling-device and another record.
  The violation runs keep three calls and two uevents (zero in the
  lost-signal run, to isolate that hang from the lock deadlock).
* Weak fairness on every thread step. None on new calls or on uevents.
* `CHECK_DEADLOCK FALSE`, because the service really does stop in the two
  hangs above.

### UsbStatus (`UsbStatus.tla`, `MC_UsbStatus.tla`)

**State.**

* The sysfs nodes the snapshot reads, abstracted to what the code extracts
  from them:
  * registered typec ports and `-partner` links;
  * the bracketed word of `power_role` and `data_role`;
  * `accessory_mode` and PD support;
  * the `non_compliant_reasons` tokens;
  * `pogo_usb_active`.
* `mUsbDataEnabled`, the memoised `mI2cClientPath` and whether the global
  `enabledPath` has been assigned.
* The snapshot thread's program counter, the names map in iteration order,
  the loop index and `currentPortStatus`.
* A history flag `oob`, set when entry `[0]` is written on an empty vector.

**Actions.**

* `QueryStart` and `Enumerate` are `queryVersionHelper`'s entry and
  `getTypeCPortNamesHelper`, with any iteration order and `opendir` failure.
* `ReadPower`, `ReadData` and `ReadMode` are the three
  `getCurrentRoleHelper` calls. The helper itself is the operator
  `CurrentRole(tag, connected, accessory, word)`. It resets the union to the
  requested tag's NONE and returns early without a partner. For the mode, the
  accessory override comes next. Then the word is tested in the code's order:
  `source`/`sink` set the powerRole alternative whatever the tag,
  `host`/`device` set dataRole or mode, `none` keeps NONE, and any other word
  is `UNRECOGNIZED_ROLE`. `RoleStep` is the `goto done` on a non-SUCCESS
  result. `ReadMode`'s failed `accessory_mode` read takes that exit.
* `ReadCaps`, `ReadCapsPower`, `ReadDataStatus` and `ReadBrick` are the rest
  of the loop body. `canSwitchRoleHelper` (`CanSwitchRoleHelper`) is called
  once for the data role and again for the power role. These are two reads
  of `supports_usb_power_delivery`, so a detach between them can leave the
  data role swappable and the power role not.
* `Moisture`, `PowerLimit`, `Compliance` and `Session` are the sub-queries,
  and `Notify` is the callback.
* The kernel (`RegisterPort`, `Attach`, `Detach`, `Swap`, `Reasons`, `Dock`)
  and `enableUsbData` (`SetDataEnabled`) change the nodes between any two
  reads.

**Runs.**

| Run | cfg | Expect | Shows |
|---|---|---|---|
| status | `UsbStatus.cfg` | pass | `DisconnectedHasNoRoles`: a partnerless entry has no roles and no swap capability, except the compliance-synthesised sink (spec 8). `EveryPortReported`: a SUCCESS snapshot names every enumerated port. `ComplianceWarningsMatchReasons`: compliance-warning decoding (below). `RoleWordsDecode`: role decoding (below). About 3.0M states, 130 s. |
| status_detach_race | `StatusDetachRace.cfg` | violation | A detach between the names scan and the `accessory_mode` read makes the snapshot ERROR, with later entries unnamed (line 907), against spec 4.3 (2). |
| status_empty_index | `StatusEmptyIndex.cfg` | violation | With no port registered, `[0]` is written on an empty vector (line 258). |

**Bounds.**

* Two ports, so that `goto done` can leave an entry behind.
* Two kernel events: an attach and a detach are enough for the race.
* Two snapshots, so that the memoised i2c path is reused.
* Two `non_compliant_reasons` texts, empty and `[bc12]`, and one
  data-session warning.
* Boot starts with no partners attached. The roles of a newly attached
  partner are free.

**Abstraction.** A read of `non_compliant_reasons` that fails and one that
yields no token have the same effect, so the file is always readable here.
The text is split and matched by `ComplianceWarnings`.

### ComplianceWarnings (`ComplianceWarnings.tla`)

This module covers the text handling of `queryNonCompliantChargerStatus`
(lines 305-357). `UsbStatus` extends it, so `Compliance` applies it to the
text the driver writes for each port's reason list.

* A text is a sequence of one-character strings.
* `Delimiters` is the C literal `"[], \n\0"`. The literal becomes a
  `std::string` at its NUL, so the NUL is not a delimiter.
* `FirstNotOf`, `FirstOf` and `TokenizeFrom` are the loop of
  `android::base::Tokenize`. That library is not in this repository, so they
  are modelled from its documented behaviour.
* `WarningOf` is the chain of `strncmp` prefix tests, in the code's order.
  `WarningsOf` is the `for` loop that pushes one warning per matching token.
* The five keywords are constants. `MC_UsbStatus` spells out the words of
  lines 76-80 character by character.
* `DriverText` is the other side of the file: the TCPC driver, outside this
  repository, lists its reasons as `[w1], [w2]` and a newline, the format of
  the example in spec 8. A port's `non_compliant_reasons` is a list of
  reason words, and the text the HAL reads is `DriverText` of it.

`ComplianceWarningsMatchReasons` is checked in the `status` run. It compares
the warnings the code's path decodes (`Tokenize` on the delimiter literal,
then the `strncmp` chain) with `ExpectedWarnings`, the table of spec 4.3 (6)
and 8: `debug-accessory`, `bc12` and `missing_rp` give their own warning,
`other` and `input_power_limited` give `OTHER` (`INPUT_POWER_LIMITED` with
the toggle on), and an unknown word gives none. It covers every list of up to
two words over the five keywords and the unknown word `sbu`, 43 lists, and
the list of every port in every state. Warnings are compared as sets, so
duplicates are not told apart. The bounded part is constant, so TLC
evaluates it once; it is written without `ToSet`, and the decoding operator
is `NonCompliantWarnings` rather than the module's own name, because either
kept TLC from caching it. A chain that drops the `input_power_limited`
alternative of the last test is caught.

`RoleWordsDecode` is also checked in the `status` run. It compares
`CurrentRole` with `ExpectedRole`, the table of spec 4.3 (2) and of the
scenario in spec 8. The comparison covers every union tag, both values of
`connected`, every accessory and every word the kernel writes into
`power_role` and `data_role`. Each must decode to SUCCESS with a value of the
requested alternative, because `get<tag>()` asserts on any other. A word
outside the vocabulary must give `UNRECOGNIZED_ROLE`. The chain would mix
tags on a `data_role` reading `source`, but no kernel node holds such a word,
so the model's nodes never do.

Spec 2 and 5 say a snapshot never shows a half-updated port. The code reads
`data_role` twice, once for `currentDataRole` and again for the mode, so a
role swap between the two reads yields an entry with data HOST and mode UFP.
TLC reaches this state in the `status` instance (hazard at line 904). No
property states per-entry consistency yet.

Spec 4.3 (6) says the feature toggle *splits* `other` from
`input_power_limited`. In the code the toggle only renames the pair: with it
on, both give `INPUT_POWER_LIMITED`, and with it off, both give `OTHER`. The
example in spec 8 is consistent with either reading, so the
model follows the code and no run is spent on it.

### UsbDataControl (`UsbDataControl.tla`, `MC_UsbDataControl.tla`)

**State.**

* The nodes the control calls write: pull-up, ID, VBUS, `usb_data`, the
  three TCPC limit nodes, `contaminant_detection` and `move_data_to_usb`.
* `mUsbDataEnabled`, `mI2cClientPath`, `enabledPath` and `mLock`.
* For each binder thread: the call, its argument, `result` (or
  `sessionFail`) and its program counter.
* A history variable `lastLimit`: the argument and outcome of the last
  `limitPowerTransfer` to notify.

**Actions.** Every node access is one step, and each write may fail:

* `enableUsbData(true)` is `EnCheck`, `EnPullup` and `EnData`.
* `enableUsbData(false)` is `DisPullup`, `DisId`, `DisVbus` and `DisData`.
* Both end with `SetFlag`, which writes `mUsbDataEnabled` without a lock.
* `limitPowerTransfer` is `LpI2c`, then under `mLock` `LpLock`, `LpCurrent`,
  `LpSink` and `LpSource`.
* `enableContaminantPresenceDetection` is `CdWrite`, `resetUsbPort` is
  `RpWrite`, and `enableUsbDataWhileDocked` is `DkWrite`.
* `EnNotify`, `DkNotify`, `RpNotify` and `CdNotify` are each call's
  notification section: lock `mLock`, notify, unlock, as one step.
  `LpNotify` notifies and unlocks the `mLock` that `limitPowerTransfer` took
  before its writes. `resetUsbPort` then returns. The others go on to
  `Refresh`.
* `Refresh` is the trailing `queryVersionHelper`. It is reduced to the path
  resolution it performs; `resetUsbPort` has none.

**Runs.**

| Run | cfg | Expect | Shows |
|---|---|---|---|
| data_control | `UsbDataControl.cfg` | pass | `LimitNodesAgree`: because the three limit writes are under `mLock`, the sink and source enables equal the last successful `limitPowerTransfer`. `CallsReturn`: every call returns, so `mLock` is released on every path. About 600k states. |
| data_enable_race | `DataEnableRace.cfg` | violation | An `enableUsbData(true)` that reads the flag while an `enableUsbData(false)` is writing skips its writes, then sets the flag back to true. The snapshot then says ENABLED while `usb_data` is off (line 134). |

**Listed as hazards, not run.** Each is reached by a single call in a few
steps:

* a partly failed disable leaves the flag set and later enables inert
  (line 177);
* contaminant detection written before any status query goes to an empty
  path (line 1033);
* `limitPowerTransfer` returns with no notification when the i2c path is
  not found (line 681).

**Bounds and fairness.**

* Two threads and three calls, so that one thread's call interleaves with
  another's.
* Failing writes and i2c lookups are on in the passing run, so that every
  error branch is reached.
* Weak fairness on every step of a call that has started.

### UsbHubTuning (`UsbHubTuning.tla`, `MC_UsbHubTuning.tla`)

**State.** `mUsbHubVendorCmdValue` and `mUsbHubVendorCmdIndex`; whether the
pogo dock's `enable_hub` reads `1`; the host thread's program counter, the
device it handles and `tuneInternalHub`'s locals `value` and `index`; each
shell thread's program counter and command. History: `setPairs`, the
defaults and every pair a `hub-vendor-cmd` carried, and `sent`, every pair a
vendor control transfer carried.

**Actions.**

* `HostStart` is `usbHostWork`: `usb_host_init` fails or `usb_host_run`
  starts. `DeviceAdded` is the host stack reporting a device, and
  `UsbDeviceAdded` the `enable_hub` and unique-id tests (an unreadable
  `devnum` matches nothing).
* `HubOpen`, `HubLoadValue`, `HubLoadIndex` and `HubTransfer` are
  `tuneInternalHub`. Each load of a member is a step of its own. Only a
  GL852G gets the transfer.
* `ShellCommand` is `handleShellCommand` up to its stores. Commands are
  abstracted to the branch they take: permission denied, too few arguments,
  an unparsable number, another word, or a parsed pair.
  `ShellStoreValue` and `ShellStoreIndex` are the two unlocked stores.
* `DockHub` is the pogo driver toggling `enable_hub`.

**Runs.**

| Run | cfg | Expect | Shows |
|---|---|---|---|
| hub_vendor_cmd_torn | `HubVendorCmdTorn.cfg` | violation | `SentPairWasSet`: a hub enumerated while `hub-vendor-cmd` runs gets the new value with the old index (lines 499-500 against 1279-1280), a pair no command set. |

**Bounds.** One shell thread, one command and one device: the tear needs
only one store landing between the two loads. Two values and two indices,
so that the new pair differs from the defaults in both fields.

## 4. Not modelled, and why

* In `report_overheat_event`, the plug and maximum temperatures come from
  members this source never assigns, so they are left out. `stoi` is taken
  to succeed: the cooling-device driver writes the files, and it is outside
  this repository. On malformed text `stoi` would throw, and the uncaught
  exception would abort the process (hazard at line 1057).
* `epoll_wait` failing with an errno other than `EINTR` ends `work`. Only
  `EBADF`, `EFAULT` or `EINVAL` can cause that, and this loop cannot
  produce them, so it is left out.
* `switchRole` never calls `queryVersionHelper`, although spec 4.1 (4) says
  both outcomes trigger a status recomputation. The snapshot after a switch
  comes only from the worker's uevents, so there is no step to model.
* Reconciliation skipped by a failed `trylock` is not retried (line 1121).
  Whether the port returns to `dual` then depends on the kernel sending
  another uevent, which the model bounds, so no property states it.
* The content of the status snapshot is left out of `UsbRoleSwitch` and
  `UsbCallback`. `UsbStatus` models it on its own.
* A restart of the service is not modelled. Every module covers one lifetime
  of the process. On a restart, the sysfs nodes keep their values, but
  `Usb::Usb` sets `mUsbDataEnabled` back to true without reading `usb_data`.
  After an `enableUsbData(false)`, the snapshot would then report ENABLED,
  and `enableUsbData(true)` would write nothing (hazard at line 579).
  `DataFlagMatchesHardware` states the broken relation. A restart could also
  land between `limitPowerTransfer`'s sink and source writes. That would
  break `LimitNodesAgree`, so a restart cannot be added to the passing
  `data_control` run.
* Compliance warnings are a set in the model. The code's vector can repeat a
  warning, and the model does not tell repeats apart.
* Power and data role nodes: the hardware's acceptance is a free choice. The
  `EAGAIN` retry is dead code, because bionic's `fputs` returns 0 or EOF.
