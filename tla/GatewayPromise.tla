--------------------------- MODULE GatewayPromise ---------------------------
(***************************************************************************)
(* What the gateway lifecycle promises an operator, without saying how:     *)
(* a start is all or nothing, a gateway that reports "stopped" has left     *)
(* nothing on the host, a gateway that reports a required cleanup does so   *)
(* until a stop has gone through, and restarting the proxy engine changes   *)
(* none of this.                                                            *)
(*                                                                          *)
(* The promise is void once an operation has been killed half way or the    *)
(* record of a failed cleanup was itself lost ("broken").                   *)
(* GatewayLifecycle is shown to implement it.                               *)
(***************************************************************************)

VARIABLES
    status,    \* what the state file says: "stopped", "active", "cleanup"
    residue,   \* the host differs from how the gateway found it
    phase,     \* what is being done: "idle", "starting", "stopping", "restarting"
    answer,    \* how the last operation ended
    broken     \* the promise is void

vars == <<status, residue, phase, answer, broken>>

TypeOK ==
    /\ status \in {"stopped", "active", "cleanup"}
    /\ residue \in BOOLEAN /\ broken \in BOOLEAN
    /\ phase \in {"idle", "starting", "stopping", "restarting"}
    /\ answer \in {"none", "error", "started", "reloaded", "stopped", "restarted"}

Init ==
    /\ status = "stopped" /\ residue = FALSE /\ phase = "idle" /\ answer = "none"
    /\ broken = FALSE

\* A request arrives, and is refused or taken up.  A start is only taken up when
\* the gateway is stopped, a restart only when it is not.
Request == phase = "idle" /\ answer' = "none" /\ UNCHANGED <<status, residue, phase, broken>>
Refuse  == phase = "idle" /\ answer' = "error" /\ UNCHANGED <<status, residue, phase, broken>>
Accept  ==
    /\ phase = "idle"
    /\ \/ phase' = "starting" /\ status = "stopped"
       \/ phase' = "stopping"
       \/ phase' = "restarting" /\ status # "stopped"
    /\ UNCHANGED <<status, residue, answer, broken>>

\* The state file is written before the host is touched ...
Record ==
    /\ phase = "starting" /\ status = "stopped" /\ ~residue /\ status' = "active"
    /\ UNCHANGED <<residue, phase, answer, broken>>

\* ... and while it is there the host may be changed, by the gateway, by its
\* processes dying, by a reboot between operations.
Touch ==
    /\ status # "stopped" /\ residue' \in BOOLEAN
    /\ UNCHANGED <<status, phase, answer, broken>>

\* The state file goes only when nothing is left.
Forget ==
    /\ phase \in {"starting", "stopping"} /\ ~residue /\ status' = "stopped"
    /\ UNCHANGED <<residue, phase, answer, broken>>

\* A cleanup that fails is recorded, and the operation has failed.
Retain ==
    /\ phase \in {"starting", "stopping"}
    /\ status' = "cleanup" /\ phase' = "idle" /\ answer' = "error"
    /\ UNCHANGED <<residue, broken>>

\* A start succeeds with an active gateway and fails without one.
EndStart ==
    /\ phase = "starting" /\ phase' = "idle"
    /\ \/ status = "active" /\ answer' \in {"started", "reloaded"}
       \/ status = "stopped" /\ ~residue /\ answer' = "error"
    /\ UNCHANGED <<status, residue, broken>>

\* The stop of a reload gives no answer of its own.
EndStop ==
    /\ phase = "stopping" /\ phase' = "idle"
    /\ status = "stopped" /\ ~residue /\ answer' \in {"stopped", answer}
    /\ UNCHANGED <<status, residue, broken>>

\* A restart of the proxy engine leaves the status alone, however it ends.
EndRestart ==
    /\ phase = "restarting" /\ phase' = "idle" /\ answer' \in {"restarted", "error"}
    /\ residue' \in BOOLEAN
    /\ UNCHANGED <<status, broken>>

\* The service is restarted between two operations.
ServiceRestart ==
    /\ phase = "idle" /\ answer' = "none"
    /\ residue' \in IF status = "stopped" THEN {residue} ELSE BOOLEAN
    /\ UNCHANGED <<status, phase, broken>>

\* The promise becomes void, and stays so.
Break == broken' = TRUE /\ TypeOK'

Next ==
    \/ Request \/ Refuse \/ Accept \/ Record \/ Touch \/ Forget \/ Retain
    \/ EndStart \/ EndStop \/ EndRestart \/ ServiceRestart \/ Break

Spec == Init /\ [][Next]_vars
=============================================================================
