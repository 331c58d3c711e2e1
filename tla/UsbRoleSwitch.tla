--------------------------- MODULE UsbRoleSwitch ---------------------------
(***************************************************************************)
(* Role switching in the Pixel USB HAL (src/usb/usb/Usb.cpp).              *)
(*                                                                         *)
(* Caller threads run Usb::switchRole.  A power or data role is written    *)
(* and read back; a mode (port_type) switch runs switchMode: it clears     *)
(* mPartnerUp under mPartnerLock, writes the node, and waits on            *)
(* mPartnerCV with a timeout for the uevent worker to report that a        *)
(* partner was added.  On failure it writes "dual" back (switchToDrp).     *)
(*                                                                         *)
(* The uevent worker (uevent_event, run by work()) takes one kernel record *)
(* at a time: an "add ...-partner" line sets mPartnerUp and signals the    *)
(* condition; a typec line refreshes the status and, when                  *)
(* mRoleSwitchLock can be taken with trylock, writes "dual" to every port  *)
(* that has no partner.                                                    *)
(*                                                                         *)
(* The kernel is the environment: partners attach and detach at any time, *)
(* each emitting a record into the uevent socket.                          *)
(*                                                                         *)
(* Critical sections under mPartnerLock are single actions, so the lock    *)
(* itself is not a variable: pthread_cond_timedwait releases it on entry,  *)
(* and waking and re-acquiring it are separate steps (SwitchModeWake,      *)
(* SwitchModeCheck), which is where the worker may run in between.         *)
(***************************************************************************)
EXTENDS Integers, Sequences, FiniteSets

CONSTANTS
    Ports,        \* typec port names (model values)
    Callers,      \* binder threads calling switchRole (model values)
    Worker,       \* the uevent thread started by setCallback
    NoThread,     \* an unheld mutex
    Timeout,      \* PORT_TYPE_TIMEOUT, in ticks
    MaxSpurious,  \* bound on spurious wake-ups of pthread_cond_timedwait
    MaxEvents,    \* bound on partner attach/detach events of the kernel
    MaxRequests   \* bound on switchRole calls

ASSUME /\ Timeout \in Nat \ {0}
       /\ MaxSpurious \in Nat /\ MaxEvents \in Nat /\ MaxRequests \in Nat
       /\ Worker \notin Callers /\ NoThread \notin Callers \cup {Worker}

(* Strings written to / read from /sys/class/typec/<port>/port_type.       *)
(* convertRoletoString maps PortMode::DFP to "source", UFP to "sink" and   *)
(* every other mode (DRP included) to "none", which the kernel refuses.    *)
PortTypes == {"dual", "source", "sink"}
ModeStrings == {"source", "sink", "none"}

(* A switchRole request: the PortRole tag and the string it converts to.   *)
Requests ==
    [port : Ports, tag : {"power"}, val : {"source", "sink"}]
    \cup [port : Ports, tag : {"data"}, val : {"host", "device"}]
    \cup [port : Ports, tag : {"mode"}, val : ModeStrings]

NoRequest == [port |-> CHOOSE p \in Ports : TRUE, tag |-> "mode", val |-> "none"]

(* Kernel uevent records, by the branch of uevent_event they take.  A      *)
(* partner "add" record also carries DEVTYPE=typec_partner, so it is then  *)
(* handled as a typec change as well.                                      *)
UeventKinds == {"add", "change"}

CallerPcs == {"idle", "lockRS", "write", "modeWrite", "wait", "relock",
              "drp", "notify"}
WorkerPcs == {"epoll", "partnerAdd", "typec", "reconcile", "drp"}

VARIABLES
    portType,         \* port_type node of each port
    partner,          \* /sys/class/typec/<port>-partner exists
    uevents,          \* records queued on the uevent socket
    mRoleSwitchLock,  \* holder of mRoleSwitchLock
    mPartnerUp,       \* Usb::mPartnerUp
    pc,               \* control point of each caller thread
    req,              \* the request each caller is serving
    left,             \* ticks until the caller's current deadline `to`
    signalled,        \* mPartnerCV was signalled while the caller waited
    err,              \* result of the caller's last pthread_cond_timedwait
    roleSwitch,       \* local roleSwitch of switchRole / switchMode
    wpc,              \* control point of the uevent worker
    todo,             \* ports the reconciliation loop has yet to check
    rport,            \* the port the reconciliation is switching to dual
    requests,         \* switchRole calls made so far
    events,           \* kernel partner events so far
    spurious,         \* spurious wake-ups so far
    \* history variables, read only by properties
    expected,         \* port_type value right after the caller's write
    confirmed,        \* a partner-add record was handled since that write
    attachedSince     \* a partner attached to req.port since that write

vars == <<portType, partner, uevents, mRoleSwitchLock, mPartnerUp, pc, req,
          left, signalled, err, roleSwitch, wpc, todo, rport, requests,
          events, spurious, expected, confirmed, attachedSince>>

callerVars == <<pc, req, left, signalled, err, roleSwitch>>
ghostVars == <<expected, confirmed, attachedSince>>
workerVars == <<wpc, todo, rport>>

-----------------------------------------------------------------------------
TypeOK ==
    /\ portType \in [Ports -> PortTypes]
    /\ partner \in [Ports -> BOOLEAN]
    /\ uevents \in Seq(UeventKinds)
    /\ mRoleSwitchLock \in Callers \cup {Worker, NoThread}
    /\ mPartnerUp \in BOOLEAN
    /\ pc \in [Callers -> CallerPcs]
    /\ req \in [Callers -> Requests]
    /\ left \in [Callers -> 0..Timeout]
    /\ signalled \in [Callers -> BOOLEAN]
    /\ err \in [Callers -> {"none", "OK", "ETIMEDOUT"}]
    /\ roleSwitch \in [Callers -> BOOLEAN]
    /\ wpc \in WorkerPcs
    /\ todo \subseteq Ports
    /\ rport \in Ports
    /\ requests \in 0..MaxRequests
    /\ events \in 0..MaxEvents
    /\ spurious \in 0..MaxSpurious
    /\ expected \in [Callers -> PortTypes]
    /\ confirmed \in [Callers -> BOOLEAN]
    /\ attachedSince \in [Callers -> BOOLEAN]

(* The process starts (Usb::Usb) with mPartnerUp false, every port in its  *)
(* boot-time dual mode, and partners possibly already attached.            *)
Init ==
    /\ portType = [p \in Ports |-> "dual"]
    /\ partner \in [Ports -> BOOLEAN]
    /\ uevents = <<>>
    /\ mRoleSwitchLock = NoThread
    /\ mPartnerUp = FALSE
    /\ pc = [c \in Callers |-> "idle"]
    /\ req = [c \in Callers |-> NoRequest]
    /\ left = [c \in Callers |-> 0]
    /\ signalled = [c \in Callers |-> FALSE]
    /\ err = [c \in Callers |-> "none"]
    /\ roleSwitch = [c \in Callers |-> FALSE]
    /\ wpc = "epoll"
    /\ todo = {}
    /\ rport = CHOOSE p \in Ports : TRUE
    /\ requests = 0
    /\ events = 0
    /\ spurious = 0
    /\ expected = [c \in Callers |-> "dual"]
    /\ confirmed = [c \in Callers |-> FALSE]
    /\ attachedSince = [c \in Callers |-> FALSE]

(* The value a write of string s leaves in a port_type node holding v: the *)
(* kernel accepts only the three port types, and a write whose flush at    *)
(* fclose fails is lost (fclose's result is never checked).               *)
Written(v, s, flushed) == IF flushed /\ s \in PortTypes THEN s ELSE v

(* A caller is between its port_type write and re-taking mPartnerLock.    *)
Waiting(c) == pc[c] \in {"wait", "relock"}
-----------------------------------------------------------------------------
(***************************************************************************)
(* Caller threads: Usb::switchRole and switchMode.                         *)
(***************************************************************************)

(* A binder call of switchRole; appendRoleNodeHelper never returns "" for  *)
(* the three tags, so the call goes on to lock mRoleSwitchLock.            *)
SwitchRoleRequest(c) ==
    /\ pc[c] = "idle"
    /\ requests < MaxRequests
    /\ \E r \in Requests : req' = [req EXCEPT ![c] = r]
    /\ pc' = [pc EXCEPT ![c] = "lockRS"]
    /\ requests' = requests + 1
    /\ UNCHANGED <<portType, partner, uevents, mRoleSwitchLock, mPartnerUp,
                   left, signalled, err, roleSwitch, workerVars, events, spurious,
                   ghostVars>>

(* pthread_mutex_lock(&mRoleSwitchLock), then the branch on the role tag. *)
SwitchRoleLock(c) ==
    /\ pc[c] = "lockRS"
    /\ mRoleSwitchLock = NoThread
    /\ mRoleSwitchLock' = c
    /\ pc' = [pc EXCEPT ![c] = IF req[c].tag = "mode" THEN "modeWrite"
                                                      ELSE "write"]
    /\ UNCHANGED <<portType, partner, uevents, mPartnerUp, req, left,
                   signalled, err, roleSwitch, workerVars, requests, events,
                   spurious, ghostVars>>

(* Power or data role: fopen, fputs, fclose, read the node back and        *)
(* compare.  The power_role / data_role nodes are not port_type and the    *)
(* hardware decides whether it takes the role, so the outcome is a free   *)
(* choice.  bionic's fputs returns 0 or EOF, never EAGAIN, so the retry    *)
(* branch of the code cannot be taken.                                     *)
SwitchRoleWrite(c) ==
    /\ pc[c] = "write"
    /\ \E ok \in BOOLEAN : roleSwitch' = [roleSwitch EXCEPT ![c] = ok]
    /\ pc' = [pc EXCEPT ![c] = "notify"]
    /\ UNCHANGED <<portType, partner, uevents, mRoleSwitchLock, mPartnerUp,
                   req, left, signalled, err, workerVars, requests, events, spurious,
                   ghostVars>>

(* Mutant of SwitchModeWrite: mPartnerUp is not cleared before the write, *)
(* so an earlier partner-add is taken as this switch's confirmation.       *)
SwitchModeWriteNoReset(c) ==
    /\ pc[c] = "modeWrite"
    /\ roleSwitch' = [roleSwitch EXCEPT ![c] = FALSE]
    /\ \E flushed \in BOOLEAN :
          portType' = [portType EXCEPT
                          ![req[c].port] = Written(@, req[c].val, flushed)]
    /\ pc' = [pc EXCEPT ![c] = "wait"]
    /\ left' = [left EXCEPT ![c] = Timeout]
    /\ signalled' = [signalled EXCEPT ![c] = FALSE]
    /\ err' = [err EXCEPT ![c] = "none"]
    /\ expected' = [expected EXCEPT ![c] = portType'[req[c].port]]
    /\ confirmed' = [confirmed EXCEPT ![c] = FALSE]
    /\ attachedSince' = [attachedSince EXCEPT ![c] = FALSE]
    /\ UNCHANGED <<partner, uevents, mRoleSwitchLock, mPartnerUp, req, workerVars,
                   requests, events, spurious>>

(* switchMode up to the wait: fopen the port_type node; if that fails go   *)
(* straight to switchToDrp.  Otherwise, under mPartnerLock, clear          *)
(* mPartnerUp, fputs the mode string and fclose; on EOF fall back to DRP,  *)
(* else compute the deadline and enter pthread_cond_timedwait, which      *)
(* releases mPartnerLock.                                                  *)
SwitchModeWrite(c) ==
    LET p == req[c].port IN
    /\ pc[c] = "modeWrite"
    /\ roleSwitch' = [roleSwitch EXCEPT ![c] = FALSE]
    /\ \/ \* fopen failed
          /\ pc' = [pc EXCEPT ![c] = "drp"]
          /\ UNCHANGED <<portType, mPartnerUp, left, signalled, err,
                         ghostVars>>
       \/ \* fputs returned EOF: nothing reached the node
          /\ mPartnerUp' = FALSE
          /\ pc' = [pc EXCEPT ![c] = "drp"]
          /\ UNCHANGED <<portType, left, signalled, err, ghostVars>>
       \/ \* fputs succeeded; the flush at fclose may still fail
          /\ \E flushed \in BOOLEAN :
                portType' = [portType EXCEPT
                                ![p] = Written(@, req[c].val, flushed)]
          /\ mPartnerUp' = FALSE
          /\ pc' = [pc EXCEPT ![c] = "wait"]
          /\ left' = [left EXCEPT ![c] = Timeout]
          /\ signalled' = [signalled EXCEPT ![c] = FALSE]
          /\ err' = [err EXCEPT ![c] = "none"]
                /\ expected' = [expected EXCEPT ![c] = portType'[p]]
          /\ confirmed' = [confirmed EXCEPT ![c] = FALSE]
          /\ attachedSince' = [attachedSince EXCEPT ![c] = FALSE]
    /\ UNCHANGED <<partner, uevents, mRoleSwitchLock, req, workerVars, requests,
                   events, spurious>>

(* Mutant of Tick: the wait runs on past its deadline `to`.                *)
TickPastDeadline(c) ==
    /\ pc[c] = "wait"
    /\ left' = [left EXCEPT ![c] = @ - 1]
    /\ UNCHANGED <<portType, partner, uevents, mRoleSwitchLock, mPartnerUp,
                   pc, req, signalled, err, roleSwitch, workerVars, requests, events,
                   spurious, ghostVars>>

(* Time passes while a caller is blocked in pthread_cond_timedwait.        *)
Tick(c) ==
    /\ pc[c] = "wait"
    /\ left[c] > 0
    /\ left' = [left EXCEPT ![c] = @ - 1]
    /\ UNCHANGED <<portType, partner, uevents, mRoleSwitchLock, mPartnerUp,
                   pc, req, signalled, err, roleSwitch, workerVars, requests, events,
                   spurious, ghostVars>>

(* pthread_cond_timedwait returns: ETIMEDOUT once the deadline has passed, *)
(* 0 after a signal, or 0 spuriously.  It has yet to re-take mPartnerLock. *)
SwitchModeWake(c) ==
    /\ pc[c] = "wait"
    /\ \/ /\ left[c] = 0
          /\ err' = [err EXCEPT ![c] = "ETIMEDOUT"]
          /\ UNCHANGED spurious
       \/ /\ signalled[c]
          /\ err' = [err EXCEPT ![c] = "OK"]
          /\ UNCHANGED spurious
       \/ /\ spurious < MaxSpurious
          /\ err' = [err EXCEPT ![c] = "OK"]
          /\ spurious' = spurious + 1
    /\ pc' = [pc EXCEPT ![c] = "relock"]
    /\ UNCHANGED <<portType, partner, uevents, mRoleSwitchLock, mPartnerUp,
                   req, left, signalled, roleSwitch, workerVars, requests, events,
                   ghostVars>>

(* Mutant of SwitchModeCheck: mPartnerUp is tested before the timeout, so *)
(* a timed-out wait with no partner goes back to wait_again.               *)
SwitchModeCheckTimeoutLast(c) ==
    /\ pc[c] = "relock"
    /\ \/ /\ ~mPartnerUp
          /\ pc' = [pc EXCEPT ![c] = "wait"]
          /\ left' = [left EXCEPT ![c] = Timeout]
          /\ signalled' = [signalled EXCEPT ![c] = FALSE]
          /\ UNCHANGED roleSwitch
       \/ /\ mPartnerUp
          /\ roleSwitch' = [roleSwitch EXCEPT ![c] = TRUE]
          /\ pc' = [pc EXCEPT ![c] = "notify"]
          /\ UNCHANGED <<left, signalled>>
    /\ UNCHANGED <<portType, partner, uevents, mRoleSwitchLock, mPartnerUp,
                   req, err, workerVars, requests, events, spurious, ghostVars>>

(* Mutant of SwitchModeCheck: only the wait's return code is tested, so a *)
(* spurious wake counts as a confirmed partner.                            *)
SwitchModeCheckNoFlag(c) ==
    /\ pc[c] = "relock"
    /\ \/ /\ err[c] = "ETIMEDOUT"
          /\ pc' = [pc EXCEPT ![c] = "drp"]
          /\ UNCHANGED roleSwitch
       \/ /\ err[c] = "OK"
          /\ roleSwitch' = [roleSwitch EXCEPT ![c] = TRUE]
          /\ pc' = [pc EXCEPT ![c] = "notify"]
    /\ UNCHANGED <<portType, partner, uevents, mRoleSwitchLock, mPartnerUp,
                   req, left, signalled, err, workerVars, requests, events, spurious,
                   ghostVars>>

(* Back under mPartnerLock: a timeout fails the switch; a wake with        *)
(* mPartnerUp still false goes to wait_again, whose deadline is computed   *)
(* afresh from the current time; otherwise the switch succeeded.  Then     *)
(* mPartnerLock is released.                                               *)
SwitchModeCheck(c) ==
    /\ pc[c] = "relock"
    /\ \/ /\ err[c] = "ETIMEDOUT"
          /\ pc' = [pc EXCEPT ![c] = "drp"]
          /\ UNCHANGED <<left, signalled, roleSwitch>>
       \/ /\ err[c] = "OK"
          /\ ~mPartnerUp
          /\ pc' = [pc EXCEPT ![c] = "wait"]
          /\ left' = [left EXCEPT ![c] = Timeout]
          /\ signalled' = [signalled EXCEPT ![c] = FALSE]
          /\ UNCHANGED roleSwitch
       \/ /\ err[c] = "OK"
          /\ mPartnerUp
          /\ roleSwitch' = [roleSwitch EXCEPT ![c] = TRUE]
          /\ pc' = [pc EXCEPT ![c] = "notify"]
          /\ UNCHANGED <<left, signalled>>
    /\ UNCHANGED <<portType, partner, uevents, mRoleSwitchLock, mPartnerUp,
                   req, err, workerVars, requests, events, spurious, ghostVars>>

(* switchToDrp: fopen the port_type node and fputs "dual"; failures are    *)
(* only logged.                                                            *)
SwitchToDrp(c) ==
    /\ pc[c] = "drp"
    /\ \E ok \in BOOLEAN :
          portType' = [portType EXCEPT
                          ![req[c].port] = Written(@, "dual", ok)]
    /\ pc' = [pc EXCEPT ![c] = "notify"]
    /\ UNCHANGED <<partner, uevents, mRoleSwitchLock, mPartnerUp, req, left,
                   signalled, err, roleSwitch, workerVars, requests, events,
                   spurious, ghostVars>>

(* notifyRoleSwitchStatus under mLock, then unlock mRoleSwitchLock; the   *)
(* locals of switchRole go out of scope.                                   *)
SwitchRoleNotify(c) ==
    /\ pc[c] = "notify"
    /\ mRoleSwitchLock' = NoThread
    /\ pc' = [pc EXCEPT ![c] = "idle"]
    /\ req' = [req EXCEPT ![c] = NoRequest]
    /\ left' = [left EXCEPT ![c] = 0]
    /\ signalled' = [signalled EXCEPT ![c] = FALSE]
    /\ err' = [err EXCEPT ![c] = "none"]
    /\ roleSwitch' = [roleSwitch EXCEPT ![c] = FALSE]
    /\ expected' = [expected EXCEPT ![c] = "dual"]
    /\ confirmed' = [confirmed EXCEPT ![c] = FALSE]
    /\ attachedSince' = [attachedSince EXCEPT ![c] = FALSE]
    /\ UNCHANGED <<portType, partner, uevents, mPartnerUp, workerVars, requests,
                   events, spurious>>
-----------------------------------------------------------------------------
(***************************************************************************)
(* The uevent worker: work() and uevent_event.                             *)
(***************************************************************************)

(* epoll_wait returns and uevent_kernel_multicast_recv takes one record.  *)
(* A failed receive (n <= 0, e.g. ENOBUFS after the socket overflowed) or *)
(* an oversized message (n >= UEVENT_MSG_LEN) is discarded.                *)
UeventRecv ==
    /\ wpc = "epoll"
    /\ uevents # <<>>
    /\ uevents' = Tail(uevents)
    /\ \/ wpc' = IF Head(uevents) = "add" THEN "partnerAdd" ELSE "typec"
       \/ UNCHANGED wpc
    /\ UNCHANGED <<portType, partner, mRoleSwitchLock, mPartnerUp, todo, rport,
                   callerVars, requests, events, spurious, ghostVars>>

(* A line matching the regex add...-partner: under mPartnerLock set       *)
(* mPartnerUp and pthread_cond_signal mPartnerCV.  The regex names no      *)
(* port, so a partner of any port wakes the waiter.  A signal with no      *)
(* thread blocked in the wait is lost.                                     *)
UeventPartnerAdded ==
    /\ wpc = "partnerAdd"
    /\ mPartnerUp' = TRUE
    /\ signalled' = [c \in Callers |-> signalled[c] \/ pc[c] = "wait"]
    /\ confirmed' = [c \in Callers |-> confirmed[c] \/ Waiting(c)]
    /\ wpc' = "typec"
    /\ UNCHANGED <<portType, partner, uevents, mRoleSwitchLock, todo, rport,
                   pc, req, left, err, roleSwitch, requests, events, spurious,
                   expected, attachedSince>>

(* Mutant of UeventTypecChanged: the result of pthread_mutex_trylock is   *)
(* ignored, so the loop runs (and unlocks) while a caller holds the lock. *)
UeventTypecChangedNoTrylock ==
    /\ wpc = "typec"
    /\ mRoleSwitchLock' = IF mRoleSwitchLock = NoThread THEN Worker
                                                       ELSE mRoleSwitchLock
    /\ todo' = Ports
    /\ wpc' = "reconcile"
    /\ UNCHANGED <<portType, partner, uevents, mPartnerUp, rport, callerVars,
                   requests, events, spurious, ghostVars>>

(* A DEVTYPE=typec_ line: queryVersionHelper (the status refresh, whose    *)
(* content this module leaves out), then, only if pthread_mutex_trylock    *)
(* takes mRoleSwitchLock, a loop over the snapshot's ports; either way the *)
(* record is left (break).                                                 *)
UeventTypecChanged ==
    /\ wpc = "typec"
    /\ IF mRoleSwitchLock = NoThread
          THEN /\ mRoleSwitchLock' = Worker
               /\ todo' = Ports
               /\ wpc' = "reconcile"
          ELSE /\ wpc' = "epoll"
               /\ UNCHANGED <<mRoleSwitchLock, todo>>
    /\ UNCHANGED <<portType, partner, uevents, mPartnerUp, rport, callerVars,
                   requests, events, spurious, ghostVars>>

(* One iteration, in the vector's order (any order here): opendir of the  *)
(* port's -partner directory; if it is missing, switchToDrp follows.      *)
ReconcileCheck ==
    /\ wpc = "reconcile"
    /\ \E p \in todo :
          /\ todo' = todo \ {p}
          /\ rport' = p
          /\ wpc' = IF partner[p] THEN "reconcile" ELSE "drp"
    /\ UNCHANGED <<portType, partner, uevents, mRoleSwitchLock, mPartnerUp,
                   callerVars, requests, events, spurious, ghostVars>>

(* switchToDrp for the port found without a partner; the kernel may have  *)
(* attached one since the opendir.                                         *)
ReconcileDrp ==
    /\ wpc = "drp"
    /\ \E ok \in BOOLEAN :
          portType' = [portType EXCEPT ![rport] = Written(@, "dual", ok)]
    /\ wpc' = "reconcile"
    /\ UNCHANGED <<partner, uevents, mRoleSwitchLock, mPartnerUp, todo, rport,
                   callerVars, requests, events, spurious, ghostVars>>

(* The loop is done: pthread_mutex_unlock(&mRoleSwitchLock).               *)
ReconcileDone ==
    /\ wpc = "reconcile"
    /\ todo = {}
    /\ mRoleSwitchLock' = NoThread
    /\ wpc' = "epoll"
    /\ UNCHANGED <<portType, partner, uevents, mPartnerUp, todo, rport,
                   callerVars, requests, events, spurious, ghostVars>>

-----------------------------------------------------------------------------
(***************************************************************************)
(* The kernel: partners attach and detach, each emitting a uevent.  A      *)
(* detach is a typec change record; an attach is an add record.            *)
(***************************************************************************)

PartnerAttach(p) ==
    /\ ~partner[p]
    /\ events < MaxEvents
    /\ partner' = [partner EXCEPT ![p] = TRUE]
    /\ uevents' = Append(uevents, "add")
    /\ events' = events + 1
    /\ attachedSince' = [c \in Callers |->
                           attachedSince[c] \/ (Waiting(c) /\ req[c].port = p)]
    /\ UNCHANGED <<portType, mRoleSwitchLock, mPartnerUp, callerVars, workerVars,
                   requests, spurious, expected, confirmed>>

PartnerDetach(p) ==
    /\ partner[p]
    /\ events < MaxEvents
    /\ partner' = [partner EXCEPT ![p] = FALSE]
    /\ uevents' = Append(uevents, "change")
    /\ events' = events + 1
    /\ UNCHANGED <<portType, mRoleSwitchLock, mPartnerUp, callerVars, workerVars,
                   requests, spurious, ghostVars>>

-----------------------------------------------------------------------------
(* Every bound is used up and every thread is idle: the service waits for *)
(* calls and uevents that the model no longer makes.                       *)
Quiescent ==
    /\ \A c \in Callers : pc[c] = "idle"
    /\ wpc = "epoll" /\ uevents = <<>>
    /\ requests = MaxRequests /\ events = MaxEvents

CallerStep(c) ==
    \/ SwitchRoleRequest(c)
    \/ SwitchRoleLock(c)
    \/ SwitchRoleWrite(c)
    \/ SwitchModeWrite(c)
    \/ Tick(c)
    \/ SwitchModeWake(c)
    \/ SwitchModeCheck(c)
    \/ SwitchToDrp(c)
    \/ SwitchRoleNotify(c)

WorkerStep ==
    \/ UeventRecv \/ UeventPartnerAdded \/ UeventTypecChanged
    \/ ReconcileCheck \/ ReconcileDrp \/ ReconcileDone

Next ==
    \/ \E c \in Callers : CallerStep(c)
    \/ WorkerStep
    \/ \E p \in Ports : PartnerAttach(p) \/ PartnerDetach(p)
    \/ Quiescent /\ UNCHANGED vars

(* Threads blocked on a mutex or condition are woken by the scheduler, the *)
(* clock advances, and the uevent thread keeps reading its socket: weak    *)
(* fairness on every step of the threads, none on new calls, spurious      *)
(* wake-ups or the kernel's partner events.                                *)
Fairness ==
    /\ \A c \in Callers :
          /\ WF_vars(SwitchRoleLock(c))
          /\ WF_vars(SwitchRoleWrite(c))
          /\ WF_vars(SwitchModeWrite(c))
          /\ WF_vars(Tick(c))
          /\ WF_vars(pc[c] = "wait" /\ (left[c] = 0 \/ signalled[c])
                     /\ SwitchModeWake(c))
          /\ WF_vars(SwitchModeCheck(c))
          /\ WF_vars(SwitchToDrp(c))
          /\ WF_vars(SwitchRoleNotify(c))
    /\ WF_vars(WorkerStep)

Spec == Init /\ [][Next]_vars /\ Fairness

-----------------------------------------------------------------------------
(***************************************************************************)
(* Properties.                                                             *)
(***************************************************************************)

(* While a mode switch waits for its partner (switchMode between the       *)
(* fputs and re-taking mPartnerLock), nobody else writes that port's       *)
(* port_type: neither a second switchRole nor the uevent worker's          *)
(* switchToDrp reconciliation, which must back off through trylock.        *)
SwitchOwnsPortType ==
    \A c \in Callers :
        Waiting(c) => portType[req[c].port] = expected[c]

(* switchMode reports success only if the uevent worker handled a partner  *)
(* add record after the mode was written: mPartnerUp is cleared before     *)
(* the write, under mPartnerLock.                                          *)
SuccessRequiresConfirmation ==
    \A c \in Callers :
        (pc[c] = "notify" /\ req[c].tag = "mode" /\ roleSwitch[c])
            => confirmed[c]

(* Every switchRole call returns: the mode wait ends by signal or timeout  *)
(* and mRoleSwitchLock is released.                                        *)
SwitchTerminates ==
    \A c \in Callers : pc[c] = "lockRS" ~> pc[c] = "idle"

(* Comment at Usb.cpp:455: "There are no uevent signals which implies role *)
(* swap timed out": when the wait returns ETIMEDOUT and the lock is        *)
(* re-taken, no partner-add signal has been recorded.                      *)
TimeoutMeansNoPartner ==
    \A c \in Callers :
        (pc[c] = "relock" /\ err[c] = "ETIMEDOUT") => ~mPartnerUp

(* Comment at Usb.cpp:461 ("Role switch succeeded since usb->mPartnerUp is *)
(* true"): a mode switch on port p that reports success has seen a        *)
(* partner attach to p after the write.                                    *)
SuccessMeansPartnerOnPort ==
    \A c \in Callers :
        (pc[c] = "notify" /\ req[c].tag = "mode" /\ roleSwitch[c])
            => attachedSince[c]

-----------------------------------------------------------------------------
(***************************************************************************)
(* Refinement: the threads implement RoleSwitchAbstract.  A call's        *)
(* abstract status follows its control point; the wait, spurious wakes,   *)
(* mPartnerUp and the uevent queue are hidden.                            *)
(***************************************************************************)
AbsStatus(c) ==
    CASE pc[c] = "idle"                  -> "idle"
      [] pc[c] = "lockRS"                -> "called"
      [] pc[c] \in {"write", "modeWrite"} -> "acquired"
      [] pc[c] \in {"wait", "relock"}     -> "written"
      [] pc[c] = "drp"                   -> "failing"
      [] pc[c] = "notify"                -> "done"

Abstract == INSTANCE RoleSwitchAbstract WITH
    status <- [c \in Callers |-> AbsStatus(c)],
    owner <- IF mRoleSwitchLock = Worker THEN NoThread ELSE mRoleSwitchLock,
    result <- roleSwitch,
    seen <- confirmed

(* switchRole, switchMode and the uevent worker together behave as the    *)
(* abstract service: calls serialised by mRoleSwitchLock, the worker's    *)
(* switchToDrp only between calls, success of a mode switch only after a  *)
(* partner-add record handled after the write, and every call returning.  *)
RefinesAbstract == Abstract!AbsSpec

=============================================================================
