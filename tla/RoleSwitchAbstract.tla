------------------------- MODULE RoleSwitchAbstract -------------------------
(***************************************************************************)
(* What Usb::switchRole promises, with the threads, mPartnerLock, the     *)
(* condition variable, its timeout and the uevent socket left out.        *)
(*                                                                         *)
(* A call holds mRoleSwitchLock (owner) from the moment it is accepted    *)
(* until it returns, so calls are serialised and the uevent worker's      *)
(* switchToDrp reconciliation only runs between them.  A power or data    *)
(* role is decided in one step.  A mode switch writes the node, then      *)
(* either succeeds, which it may only do once a partner-add notification  *)
(* (seen) arrived after the write, or gives up and writes "dual" back.    *)
(***************************************************************************)
CONSTANTS Ports, Callers, Requests, NoRequest, NoThread

PortTypes == {"dual", "source", "sink"}

VARIABLES
    portType,  \* port_type node of each port
    partner,   \* a partner is attached to the port
    owner,     \* the caller whose switchRole is in progress, or NoThread
    status,    \* idle, called, acquired, written, failing or done
    req,       \* the request each caller serves
    result,    \* the roleSwitch result the call will report
    seen       \* a partner-add notification arrived since the write

avars == <<portType, partner, owner, status, req, result, seen>>

Statuses == {"idle", "called", "acquired", "written", "failing", "done"}

AbsTypeOK ==
    /\ portType \in [Ports -> PortTypes]
    /\ partner \in [Ports -> BOOLEAN]
    /\ owner \in Callers \cup {NoThread}
    /\ status \in [Callers -> Statuses]
    /\ req \in [Callers -> Requests \cup {NoRequest}]
    /\ result \in [Callers -> BOOLEAN]
    /\ seen \in [Callers -> BOOLEAN]

AbsInit ==
    /\ portType = [p \in Ports |-> "dual"]
    /\ partner \in [Ports -> BOOLEAN]
    /\ owner = NoThread
    /\ status = [c \in Callers |-> "idle"]
    /\ req = [c \in Callers |-> NoRequest]
    /\ result = [c \in Callers |-> FALSE]
    /\ seen = [c \in Callers |-> FALSE]

(* A port_type node holding v after a write of s: unchanged when the      *)
(* kernel refuses s or the write is lost.                                  *)
Outcomes(v, s) == {v} \cup (PortTypes \cap {s})

Call(c) ==
    /\ status[c] = "idle"
    /\ \E r \in Requests : req' = [req EXCEPT ![c] = r]
    /\ status' = [status EXCEPT ![c] = "called"]
    /\ UNCHANGED <<portType, partner, owner, result, seen>>

Acquire(c) ==
    /\ status[c] = "called"
    /\ owner = NoThread
    /\ owner' = c
    /\ status' = [status EXCEPT ![c] = "acquired"]
    /\ UNCHANGED <<portType, partner, req, result, seen>>

(* A power or data role: the hardware takes it or not.                    *)
Decide(c) ==
    /\ status[c] = "acquired" /\ req[c].tag # "mode"
    /\ \E ok \in BOOLEAN : result' = [result EXCEPT ![c] = ok]
    /\ status' = [status EXCEPT ![c] = "done"]
    /\ UNCHANGED <<portType, partner, owner, req, seen>>

(* A mode: the node is written and the wait for a partner begins.         *)
Write(c) ==
    /\ status[c] = "acquired" /\ req[c].tag = "mode"
    /\ \E v \in Outcomes(portType[req[c].port], req[c].val) :
          portType' = [portType EXCEPT ![req[c].port] = v]
    /\ status' = [status EXCEPT ![c] = "written"]
    /\ seen' = [seen EXCEPT ![c] = FALSE]
    /\ UNCHANGED <<partner, owner, req, result>>

(* The node could not be opened or written: fall back to dual.            *)
WriteFailed(c) ==
    /\ status[c] = "acquired" /\ req[c].tag = "mode"
    /\ status' = [status EXCEPT ![c] = "failing"]
    /\ UNCHANGED <<portType, partner, owner, req, result, seen>>

Succeed(c) ==
    /\ status[c] = "written" /\ seen[c]
    /\ result' = [result EXCEPT ![c] = TRUE]
    /\ status' = [status EXCEPT ![c] = "done"]
    /\ UNCHANGED <<portType, partner, owner, req, seen>>

GiveUp(c) ==
    /\ status[c] = "written"
    /\ status' = [status EXCEPT ![c] = "failing"]
    /\ UNCHANGED <<portType, partner, owner, req, result, seen>>

SwitchBack(c) ==
    /\ status[c] = "failing"
    /\ \E v \in Outcomes(portType[req[c].port], "dual") :
          portType' = [portType EXCEPT ![req[c].port] = v]
    /\ status' = [status EXCEPT ![c] = "done"]
    /\ UNCHANGED <<partner, owner, req, result, seen>>

Return(c) ==
    /\ status[c] = "done"
    /\ owner' = NoThread
    /\ status' = [status EXCEPT ![c] = "idle"]
    /\ req' = [req EXCEPT ![c] = NoRequest]
    /\ result' = [result EXCEPT ![c] = FALSE]
    /\ seen' = [seen EXCEPT ![c] = FALSE]
    /\ UNCHANGED <<portType, partner>>

(* A partner-add notification reaches every mode switch that waits.      *)
Confirm ==
    /\ seen' = [c \in Callers |-> seen[c] \/ status[c] = "written"]
    /\ UNCHANGED <<portType, partner, owner, status, req, result>>

(* Between calls, ports may be put back to dual.  The reconciliation       *)
(* checks for a partner before it writes, but in an earlier step, so a     *)
(* partner attached in between gets the write too: what is promised is     *)
(* only that no call is in progress.                                       *)
Reconcile(p) ==
    /\ owner = NoThread
    /\ \E v \in Outcomes(portType[p], "dual") :
          portType' = [portType EXCEPT ![p] = v]
    /\ UNCHANGED <<partner, owner, status, req, result, seen>>

Plug(p) ==
    /\ partner' = [partner EXCEPT ![p] = ~@]
    /\ UNCHANGED <<portType, owner, status, req, result, seen>>

AbsNext ==
    \/ \E c \in Callers :
          \/ Call(c) \/ Acquire(c) \/ Decide(c) \/ Write(c) \/ WriteFailed(c)
          \/ Succeed(c) \/ GiveUp(c) \/ SwitchBack(c) \/ Return(c)
    \/ Confirm
    \/ \E p \in Ports : Reconcile(p) \/ Plug(p)

(* Once accepted, a call runs to its return.                               *)
AbsFairness ==
    \A c \in Callers :
        /\ WF_avars(Acquire(c))
        /\ WF_avars(Decide(c) \/ Write(c) \/ WriteFailed(c))
        /\ WF_avars(Succeed(c) \/ GiveUp(c))
        /\ WF_avars(SwitchBack(c))
        /\ WF_avars(Return(c))

AbsSpec == AbsInit /\ [][AbsNext]_avars /\ AbsFairness
=============================================================================
