---------------------------- MODULE UsbCallback ----------------------------
(***************************************************************************)
(* Registration of the IUsbCallback and the life of the uevent thread     *)
(* (src/usb/usb/Usb.cpp: Usb::setCallback, work, sighandler,               *)
(* uevent_event's status refresh through queryVersionHelper).              *)
(*                                                                         *)
(* setCallback runs entirely under mLock.  Going from no callback to one   *)
(* it clears destroyThread, installs sighandler and pthread_creates work;  *)
(* going back to none it sends SIGUSR1 to mPoll and pthread_joins it,     *)
(* still holding mLock.  The worker reads destroyThread before every      *)
(* epoll_wait; the signal handler sets it and interrupts epoll_wait with  *)
(* EINTR, but not a pthread_mutex_lock.  Every typec uevent makes the     *)
(* worker run queryVersionHelper, which takes mLock.                      *)
(* A cooling-device uevent makes it run report_overheat_event, which       *)
(* takes no lock.  queryPortStatus binder calls contend for mLock too.     *)
(*                                                                         *)
(* Worker threads are drawn from a small set of thread ids so that a      *)
(* second worker started before the first one has gone can be seen.      *)
(***************************************************************************)
EXTENDS Integers, FiniteSets

CONSTANTS
    Clients,      \* binder threads calling setCallback
    Workers,      \* thread ids pthread_create may hand out
    Handles,      \* non-null IUsbCallback objects
    NULL,         \* the null callback
    NoThread,     \* an unheld mutex / no mPoll yet
    MaxCalls,     \* bound on setCallback calls
    MaxUevents    \* bound on kernel uevents

ASSUME /\ NULL \notin Handles
       /\ NoThread \notin Clients \cup Workers
       /\ MaxCalls \in Nat /\ MaxUevents \in Nat

(* Control points of a worker thread:                                     *)
(*   none        no such thread (never created, or joined)                *)
(*   start       created, opening the uevent socket and the epoll fd      *)
(*   check       at while (!destroyThread)                                *)
(*   enterEpoll  has read destroyThread = false, not yet blocked          *)
(*   epoll       blocked in epoll_wait                                    *)
(*   lockWait    in uevent_event, blocked on mLock in queryVersionHelper  *)
(*   tripTime, hysteresisTime, clearedTime                                *)
(*               in report_overheat_event, about to read that file        *)
(*   stats       in report_overheat_event, getting the IStats service     *)
(*   exited      work() has returned, not yet joined                      *)
WorkerPcs == {"none", "start", "check", "enterEpoll", "epoll", "lockWait",
              "tripTime", "hysteresisTime", "clearedTime", "stats", "exited"}
(* A thread that exists and has not returned from work().                 *)
Running(w, wpcs) == wpcs[w] \notin {"none", "exited"}

(* How uevent_event classifies a received record by its lines: one with  *)
(* DEVTYPE=typec_, DRIVER=max77759tcpc, DRIVER=pogo-transport or         *)
(* POWER_SUPPLY_NAME=usb; one from the USB-C port cooling device; any     *)
(* other (the add...-partner line only signals mPartnerCV, which this     *)
(* module leaves to UsbRoleSwitch).                                        *)
RecordKinds == {"typec", "cooling", "other"}

(* The duration fields of VendorUsbPortOverheat, in the order they are    *)
(* read: trip_time, hysteresis_time, cleared_time.                        *)
OverheatFields == {"timeToOverheat", "timeToHysteresis", "timeToInactive"}
OverheatRead == [tripTime |-> "timeToOverheat",
                 hysteresisTime |-> "timeToHysteresis",
                 clearedTime |-> "timeToInactive"]
OverheatNext == [tripTime |-> "hysteresisTime",
                 hysteresisTime |-> "clearedTime",
                 clearedTime |-> "stats"]

(* Control points of a binder thread: setCallback waiting for mLock or in *)
(* pthread_join; queryPortStatus waiting for mLock in queryVersionHelper   *)
(* or for its second critical section.                                     *)
ClientPcs == {"idle", "lock", "join", "query", "queryNotify"}

VARIABLES
    mCallback,      \* Usb::mCallback
    mLock,          \* holder of mLock
    mPoll,          \* Usb::mPoll, the last worker created
    destroyThread,  \* the global set by sighandler
    wpc,            \* control point of each worker thread id
    sigPending,     \* SIGUSR1 sent to the thread, handler not yet run
    pending,        \* uevents queued on each worker's own socket
    info,           \* fields of each worker's overheat_info set so far
    pc,             \* control point of each client
    arg,            \* in_callback of each client's call
    calls,          \* setCallback calls so far
    uevents,        \* kernel uevents so far
    uploads         \* history: overheat_info of every reportUsbPortOverheat

vars == <<mCallback, mLock, mPoll, destroyThread, wpc, sigPending, pending,
          info, pc, arg, calls, uevents, uploads>>

TypeOK ==
    /\ mCallback \in Handles \cup {NULL}
    /\ mLock \in Clients \cup Workers \cup {NoThread}
    /\ mPoll \in Workers \cup {NoThread}
    /\ destroyThread \in BOOLEAN
    /\ wpc \in [Workers -> WorkerPcs]
    /\ sigPending \in [Workers -> BOOLEAN]
    /\ pending \in [Workers -> 0..MaxUevents]
    /\ info \in [Workers -> SUBSET OverheatFields]
    /\ pc \in [Clients -> ClientPcs]
    /\ arg \in [Clients -> Handles \cup {NULL}]
    /\ calls \in 0..MaxCalls
    /\ uevents \in 0..MaxUevents
    /\ uploads \subseteq SUBSET OverheatFields

(* Usb::Usb: no callback, no uevent thread.                               *)
Init ==
    /\ mCallback = NULL
    /\ mLock = NoThread
    /\ mPoll = NoThread
    /\ destroyThread = FALSE
    /\ wpc = [w \in Workers |-> "none"]
    /\ sigPending = [w \in Workers |-> FALSE]
    /\ pending = [w \in Workers |-> 0]
    /\ info = [w \in Workers |-> {}]
    /\ pc = [c \in Clients |-> "idle"]
    /\ arg = [c \in Clients |-> NULL]
    /\ calls = 0
    /\ uevents = 0
    /\ uploads = {}

(* Ids pthread_create may hand out: none in use, or one whose thread has  *)
(* returned and been joined or abandoned.                                  *)
FreeWorkers == {w \in Workers : ~Running(w, wpc)}

-----------------------------------------------------------------------------
(***************************************************************************)
(* Usb::setCallback.                                                       *)
(***************************************************************************)

(* A binder call setCallback(in_callback).                                *)
SetCallbackCall(c) ==
    /\ pc[c] = "idle"
    /\ calls < MaxCalls
    /\ \E h \in Handles \cup {NULL} : arg' = [arg EXCEPT ![c] = h]
    /\ pc' = [pc EXCEPT ![c] = "lock"]
    /\ calls' = calls + 1
    /\ UNCHANGED <<mCallback, mLock, mPoll, destroyThread, wpc, sigPending,
                   pending, uevents, info, uploads>>

(* Mutant of SetCallback: SIGUSR1 is sent but the thread is not joined.   *)
SetCallbackNoJoin(c) ==
    /\ pc[c] = "lock"
    /\ mLock = NoThread
    /\ \/ /\ (mCallback = NULL) = (arg[c] = NULL)
          /\ mCallback' = arg[c]
          /\ UNCHANGED <<mPoll, destroyThread, wpc, sigPending, pending>>
       \/ /\ mCallback # NULL /\ arg[c] = NULL
          /\ mCallback' = NULL
          /\ sigPending' = IF Running(mPoll, wpc)
                              THEN [sigPending EXCEPT ![mPoll] = TRUE]
                              ELSE sigPending
          /\ UNCHANGED <<mPoll, destroyThread, wpc, pending>>
       \/ /\ mCallback = NULL /\ arg[c] # NULL
          /\ destroyThread' = FALSE
          /\ \/ \E w \in FreeWorkers :
                   /\ wpc' = [wpc EXCEPT ![w] = "start"]
                   /\ sigPending' = [sigPending EXCEPT ![w] = FALSE]
                   /\ pending' = [pending EXCEPT ![w] = 0]
                   /\ mPoll' = w
                   /\ mCallback' = arg[c]
             \/ /\ mCallback' = NULL
                /\ UNCHANGED <<mPoll, wpc, sigPending, pending>>
    /\ pc' = [pc EXCEPT ![c] = "idle"]
    /\ UNCHANGED <<mLock, arg, calls, uevents, info, uploads>>

(* Mutant of SetCallback: the presence test is dropped, so every non-null *)
(* in_callback creates a uevent thread.                                    *)
SetCallbackAlwaysStart(c) ==
    /\ pc[c] = "lock"
    /\ mLock = NoThread
    /\ \/ /\ mCallback = NULL /\ arg[c] = NULL
          /\ pc' = [pc EXCEPT ![c] = "idle"]
          /\ UNCHANGED <<mCallback, mLock, mPoll, destroyThread, wpc,
                         sigPending, pending>>
       \/ /\ mCallback # NULL /\ arg[c] = NULL
          /\ mCallback' = NULL
          /\ IF Running(mPoll, wpc)
                THEN /\ sigPending' = [sigPending EXCEPT ![mPoll] = TRUE]
                     /\ mLock' = c
                     /\ pc' = [pc EXCEPT ![c] = "join"]
                ELSE /\ pc' = [pc EXCEPT ![c] = "idle"]
                     /\ UNCHANGED <<sigPending, mLock>>
          /\ UNCHANGED <<mPoll, destroyThread, wpc, pending>>
       \/ /\ arg[c] # NULL
          /\ destroyThread' = FALSE
          /\ \/ \E w \in FreeWorkers :
                   /\ wpc' = [wpc EXCEPT ![w] = "start"]
                   /\ sigPending' = [sigPending EXCEPT ![w] = FALSE]
                   /\ pending' = [pending EXCEPT ![w] = 0]
                   /\ mPoll' = w
                   /\ mCallback' = arg[c]
             \/ /\ mCallback' = NULL
                /\ UNCHANGED <<mPoll, wpc, sigPending, pending>>
          /\ pc' = [pc EXCEPT ![c] = "idle"]
          /\ UNCHANGED mLock
    /\ UNCHANGED <<arg, calls, uevents, info, uploads>>

(* setCallback under mLock.  Same presence (null to null, or non-null to   *)
(* non-null): store it and return.  Non-null to null: store NULL and       *)
(* pthread_kill(mPoll, SIGUSR1); if that succeeds (bionic returns ESRCH    *)
(* once the thread has returned) go on to pthread_join with mLock held,   *)
(* else return.  Null to non-null: clear destroyThread, install            *)
(* sighandler and pthread_create work; if creation fails mCallback goes    *)
(* back to NULL.                                                           *)
SetCallback(c) ==
    /\ pc[c] = "lock"
    /\ mLock = NoThread
    /\ \/ /\ (mCallback = NULL) = (arg[c] = NULL)
          /\ mCallback' = arg[c]
          /\ pc' = [pc EXCEPT ![c] = "idle"]
          /\ UNCHANGED <<mLock, mPoll, destroyThread, wpc, sigPending,
                         pending>>
       \/ /\ mCallback # NULL /\ arg[c] = NULL
          /\ mCallback' = NULL
          /\ IF Running(mPoll, wpc)
                THEN /\ sigPending' = [sigPending EXCEPT ![mPoll] = TRUE]
                     /\ mLock' = c
                     /\ pc' = [pc EXCEPT ![c] = "join"]
                ELSE /\ pc' = [pc EXCEPT ![c] = "idle"]
                     /\ UNCHANGED <<sigPending, mLock>>
          /\ UNCHANGED <<mPoll, destroyThread, wpc, pending>>
       \/ /\ mCallback = NULL /\ arg[c] # NULL
          /\ destroyThread' = FALSE
          /\ \/ \E w \in FreeWorkers :
                   /\ wpc' = [wpc EXCEPT ![w] = "start"]
                   /\ sigPending' = [sigPending EXCEPT ![w] = FALSE]
                   /\ pending' = [pending EXCEPT ![w] = 0]
                   /\ mPoll' = w
                   /\ mCallback' = arg[c]
             \/ /\ mCallback' = NULL
                /\ UNCHANGED <<mPoll, wpc, sigPending, pending>>
          /\ pc' = [pc EXCEPT ![c] = "idle"]
          /\ UNCHANGED mLock
    /\ UNCHANGED <<arg, calls, uevents, info, uploads>>

(* pthread_join(mPoll) returns once work() has returned; then mLock is    *)
(* released.                                                               *)
SetCallbackJoin(c) ==
    /\ pc[c] = "join"
    /\ wpc[mPoll] = "exited"
    /\ wpc' = [wpc EXCEPT ![mPoll] = "none"]
    /\ mLock' = NoThread
    /\ pc' = [pc EXCEPT ![c] = "idle"]
    /\ UNCHANGED <<mCallback, mPoll, destroyThread, sigPending, pending, arg,
                   calls, uevents, info, uploads>>

(***************************************************************************)
(* Usb::queryPortStatus: queryVersionHelper, one mLock critical section   *)
(* that builds and delivers the snapshot, then a second one that sends    *)
(* notifyQueryPortStatus("all", SUCCESS) to whatever callback is set      *)
(* by then.                                                                *)
(***************************************************************************)
QueryPortStatusCall(c) ==
    /\ pc[c] = "idle"
    /\ calls < MaxCalls
    /\ pc' = [pc EXCEPT ![c] = "query"]
    /\ calls' = calls + 1
    /\ UNCHANGED <<mCallback, mLock, mPoll, destroyThread, wpc, sigPending,
                   pending, info, arg, uevents, uploads>>

QueryPortStatusRefresh(c) ==
    /\ pc[c] = "query"
    /\ mLock = NoThread
    /\ pc' = [pc EXCEPT ![c] = "queryNotify"]
    /\ UNCHANGED <<mCallback, mLock, mPoll, destroyThread, wpc, sigPending,
                   pending, info, arg, calls, uevents, uploads>>

QueryPortStatusNotify(c) ==
    /\ pc[c] = "queryNotify"
    /\ mLock = NoThread
    /\ pc' = [pc EXCEPT ![c] = "idle"]
    /\ UNCHANGED <<mCallback, mLock, mPoll, destroyThread, wpc, sigPending,
                   pending, info, arg, calls, uevents, uploads>>

-----------------------------------------------------------------------------
(***************************************************************************)
(* The uevent thread: work(), sighandler, and uevent_event's refresh.      *)
(***************************************************************************)

(* uevent_open_socket, epoll_create and epoll_ctl; any failure makes work *)
(* return at once.                                                         *)
WorkStart(w) ==
    /\ wpc[w] = "start"
    /\ \E ok \in BOOLEAN : wpc' = [wpc EXCEPT ![w] = IF ok THEN "check"
                                                         ELSE "exited"]
    /\ UNCHANGED <<mCallback, mLock, mPoll, destroyThread, sigPending,
                   pending, pc, arg, calls, uevents, info, uploads>>

(* while (!destroyThread): leave the loop, close the fds and return, or   *)
(* go on towards epoll_wait.                                               *)
WorkCheck(w) ==
    /\ wpc[w] = "check"
    /\ wpc' = [wpc EXCEPT ![w] = IF destroyThread THEN "exited"
                                                  ELSE "enterEpoll"]
    /\ UNCHANGED <<mCallback, mLock, mPoll, destroyThread, sigPending,
                   pending, pc, arg, calls, uevents, info, uploads>>

(* The thread blocks in epoll_wait(epoll_fd, events, 64, -1).             *)
WorkEpollWait(w) ==
    /\ wpc[w] = "enterEpoll"
    /\ wpc' = [wpc EXCEPT ![w] = "epoll"]
    /\ UNCHANGED <<mCallback, mLock, mPoll, destroyThread, sigPending,
                   pending, pc, arg, calls, uevents, info, uploads>>

(* Mutant of WorkUevent: the thread handles a uevent that never came.    *)
WorkUeventUnread(w) ==
    /\ wpc[w] = "epoll"
    /\ pending' = [pending EXCEPT ![w] = @ - 1]
    /\ wpc' = [wpc EXCEPT ![w] = "lockWait"]
    /\ UNCHANGED <<mCallback, mLock, mPoll, destroyThread, sigPending, pc,
                   arg, calls, uevents, info, uploads>>

(* epoll_wait returns with the uevent socket readable and uevent_event    *)
(* receives one record.  A failed or oversized receive returns at once.   *)
(* Otherwise the lines are matched in order: a typec line calls           *)
(* queryVersionHelper, which locks mLock, and ends the scan (break); the  *)
(* cooling device's line calls report_overheat_event with a fresh         *)
(* overheat_info; a record with neither is ignored.                       *)
WorkUevent(w) ==
    /\ wpc[w] = "epoll"
    /\ pending[w] > 0
    /\ pending' = [pending EXCEPT ![w] = @ - 1]
    /\ \E received \in BOOLEAN, kind \in RecordKinds :
          wpc' = [wpc EXCEPT ![w] =
                    IF ~received THEN "check"
                    ELSE CASE kind = "typec"   -> "lockWait"
                           [] kind = "cooling" -> "tripTime"
                           [] OTHER            -> "check"]
    /\ info' = [info EXCEPT ![w] = {}]
    /\ UNCHANGED <<mCallback, mLock, mPoll, destroyThread, sigPending, pc,
                   arg, calls, uevents, uploads>>

(* Mutant of ReportOverheatRead: an unreadable file is logged but the     *)
(* function goes on to the next one instead of returning.                 *)
ReportOverheatReadNoReturn(w) ==
    /\ wpc[w] \in DOMAIN OverheatRead
    /\ \E ok \in BOOLEAN :
          info' = [info EXCEPT ![w] = IF ok THEN @ \cup {OverheatRead[wpc[w]]}
                                             ELSE @]
    /\ wpc' = [wpc EXCEPT ![w] = OverheatNext[@]]
    /\ UNCHANGED <<mCallback, mLock, mPoll, destroyThread, sigPending,
                   pending, pc, arg, calls, uevents, uploads>>

(* report_overheat_event: ReadFileToString of trip_time, hysteresis_time  *)
(* or cleared_time under the cooling device's directory.  On success the  *)
(* trimmed text goes through stoi into its overheat_info field; an        *)
(* unreadable file is logged and the function returns, uploading nothing. *)
(* The driver writes decimal numbers, so stoi does not throw here.        *)
ReportOverheatRead(w) ==
    /\ wpc[w] \in DOMAIN OverheatRead
    /\ \E ok \in BOOLEAN :
          /\ info' = [info EXCEPT ![w] =
                         IF ok THEN @ \cup {OverheatRead[wpc[w]]} ELSE @]
          /\ wpc' = [wpc EXCEPT ![w] = IF ok THEN OverheatNext[@] ELSE "check"]
    /\ UNCHANGED <<mCallback, mLock, mPoll, destroyThread, sigPending,
                   pending, pc, arg, calls, uevents, uploads>>

(* getStatsService: with no IStats service the event is only logged,      *)
(* else reportUsbPortOverheat uploads overheat_info.  The scan of the      *)
(* record's lines then ends and the loop returns to its test.              *)
ReportOverheatUpload(w) ==
    /\ wpc[w] = "stats"
    /\ \E statsService \in BOOLEAN :
          uploads' = IF statsService THEN uploads \cup {info[w]} ELSE uploads
    /\ wpc' = [wpc EXCEPT ![w] = "check"]
    /\ UNCHANGED <<mCallback, mLock, mPoll, destroyThread, sigPending,
                   pending, info, pc, arg, calls, uevents>>

(* queryVersionHelper holds mLock for the whole status query and its      *)
(* notification; the trylock reconciliation that follows never blocks.     *)
(* Then the loop goes back to its destroyThread test.                      *)
WorkStatusRefresh(w) ==
    /\ wpc[w] = "lockWait"
    /\ mLock = NoThread
    /\ wpc' = [wpc EXCEPT ![w] = "check"]
    /\ UNCHANGED <<mCallback, mLock, mPoll, destroyThread, sigPending,
                   pending, pc, arg, calls, uevents, info, uploads>>

(* sighandler runs in the signalled thread: destroyThread = true.  A      *)
(* thread blocked in epoll_wait returns EINTR and continues to the test;  *)
(* one blocked in pthread_mutex_lock keeps waiting for the mutex.          *)
SigUsr1(w) ==
    /\ sigPending[w]
    /\ Running(w, wpc)
    /\ sigPending' = [sigPending EXCEPT ![w] = FALSE]
    /\ destroyThread' = TRUE
    /\ wpc' = [wpc EXCEPT ![w] = IF @ = "epoll" THEN "check" ELSE @]
    /\ UNCHANGED <<mCallback, mLock, mPoll, pending, info, pc, arg, calls,
                   uevents, uploads>>

(* The kernel broadcasts a uevent to every open uevent socket (one        *)
(* opened by WorkStart and not yet closed by work's return).               *)
KernelUevent ==
    /\ uevents < MaxUevents
    /\ uevents' = uevents + 1
    /\ pending' = [w \in Workers |->
                     IF wpc[w] \in {"none", "start", "exited"}
                        THEN pending[w] ELSE pending[w] + 1]
    /\ UNCHANGED <<mCallback, mLock, mPoll, destroyThread, wpc, sigPending,
                   pc, arg, calls, info, uploads>>

-----------------------------------------------------------------------------
ClientStep(c) ==
    \/ SetCallbackCall(c) \/ SetCallback(c) \/ SetCallbackJoin(c)
    \/ QueryPortStatusCall(c) \/ QueryPortStatusRefresh(c)
    \/ QueryPortStatusNotify(c)

WorkerStep(w) ==
    \/ WorkStart(w) \/ WorkCheck(w) \/ WorkEpollWait(w) \/ WorkUevent(w)
    \/ WorkStatusRefresh(w) \/ ReportOverheatRead(w) \/ ReportOverheatUpload(w)
    \/ SigUsr1(w)

Next ==
    \/ \E c \in Clients : ClientStep(c)
    \/ \E w \in Workers : WorkerStep(w)
    \/ KernelUevent

(* Threads are scheduled by the kernel and a pending signal is delivered: *)
(* weak fairness on every step of the clients and the workers, none on    *)
(* new calls or on the kernel's uevents.                                   *)
Fairness ==
    /\ \A c \in Clients :
          /\ WF_vars(SetCallback(c)) /\ WF_vars(SetCallbackJoin(c))
          /\ WF_vars(QueryPortStatusRefresh(c) \/ QueryPortStatusNotify(c))
    /\ \A w \in Workers : WF_vars(WorkerStep(w))

Spec == Init /\ [][Next]_vars /\ Fairness

-----------------------------------------------------------------------------
(***************************************************************************)
(* Properties.                                                             *)
(***************************************************************************)

(* Spec 4.4 and 8: once setCallback(NULL) has returned (mLock free, no    *)
(* callback), no uevent thread is still running work(): it was signalled   *)
(* and joined, or had already returned.                                    *)
NoWorkerWithoutCallback ==
    (mLock = NoThread /\ mCallback = NULL)
        => \A w \in Workers : ~Running(w, wpc)

(* At most one uevent thread runs work() at a time: each one reads its own *)
(* socket and would refresh the status and reconcile a second time.        *)
AtMostOneWorker ==
    Cardinality({w \in Workers : Running(w, wpc)}) <= 1

(* Spec 4.2: when a metric file is unreadable, report_overheat_event      *)
(* aborts the emission for that event: every overheat_info uploaded has   *)
(* all three duration fields, read while handling the same record.        *)
UploadsHaveAllMetrics == \A u \in uploads : u = OverheatFields

(* setCallback(NULL) joins the uevent thread while it holds mLock, so the *)
(* thread being joined must never be blocked on mLock in                   *)
(* queryVersionHelper: it could then never return, and neither could the  *)
(* caller nor any later binder call that needs mLock.                      *)
JoinNeverWaitsOnLock ==
    \A c \in Clients : pc[c] = "join" => wpc[mPoll] # "lockWait"

(* Spec 4.4 and 8: every setCallback call returns, in particular           *)
(* setCallback(NULL), which joins the uevent thread.                       *)
SetCallbackReturns ==
    \A c \in Clients : pc[c] = "lock" ~> pc[c] = "idle"
=============================================================================
