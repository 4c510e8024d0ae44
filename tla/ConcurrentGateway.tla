------------------------- MODULE ConcurrentGateway -------------------------
(***************************************************************************)
(* Two operations of the gateway lifecycle at a time.                       *)
(*                                                                          *)
(* The gateway service answers every connection on a goroutine of its own   *)
(* (internal/controlapi/actions.go, ServeGateway) and the command line runs *)
(* the same operations in another process; no lock is taken by either.      *)
(* Each operation is a GatewayLifecycle operation with its own local        *)
(* variables.  The one that runs has them in pc, mode, st, ...; the other   *)
(* is parked, and a context switch can come between any two calls.          *)
(***************************************************************************)
EXTENDS GatewayLifecycle

CONSTANT Overlapping   \* the operations that may overlap with one another

ASSUME OverlapAssumption == Overlapping \subseteq {"start", "stop", "reload", "restart"}

VARIABLES
    parked,     \* the local variables of the operation that is not running
    restarted   \* a restart of mihomo has overlapped with another operation

local == [pc |-> pc, mode |-> mode, cfg |-> cfg, st |-> st, prev |-> prev,
          unload |-> unload, cleanErr |-> cleanErr, validated |-> validated, resp |-> resp]

allVars == <<vars, parked, restarted>>

Idle == [pc |-> "idle", mode |-> "none", cfg |-> NoConfig, st |-> ZeroState, prev |-> NoPid,
         unload |-> FALSE, cleanErr |-> FALSE, validated |-> NoDigest, resp |-> "none"]

Quiet == pc = "idle" /\ parked.pc = "idle"

ConcurrentInit == Init /\ parked = Idle /\ restarted = FALSE

\* The start that a reload ends with is part of the reload.
Operation(m) == IF m = "reload_start" THEN "reload" ELSE m

\* The scheduler runs the other operation.
Switch ==
    /\ parked.pc # "idle" \/ (pc # "idle" /\ Operation(mode) \in Overlapping)
    /\ parked' = local
    /\ pc' = parked.pc /\ mode' = parked.mode /\ cfg' = parked.cfg /\ st' = parked.st
    /\ prev' = parked.prev /\ unload' = parked.unload /\ cleanErr' = parked.cleanErr
    /\ validated' = parked.validated /\ resp' = parked.resp
    /\ UNCHANGED <<hostVars, fileVars, editVars, faults, riskVars, restarted>>

\* A second request arrives while the first one is under way.
Arrives ==
    /\ Requests
    /\ parked.pc = "idle" \/ mode' \in Overlapping
    /\ restarted' = (restarted \/ (parked.pc # "idle" /\ "restart" \in {mode', parked.mode}))
    /\ UNCHANGED parked

Step == OperationSteps /\ UNCHANGED <<parked, restarted>>

\* The environment, which does not kill operations here.
Meanwhile ==
    /\ ProcessExits \/ TableFlushed \/ (parked.pc = "idle" /\ AdminForwarding)
    /\ UNCHANGED <<parked, restarted>>

ConcurrentNext == Switch \/ Arrives \/ Step \/ Meanwhile

ConcurrentSpec == ConcurrentInit /\ [][ConcurrentNext]_allVars

-----------------------------------------------------------------------------
(* Properties *)

\* When all operations have returned and no state file is left, nothing else is.  Not
\* claimed once a restart has overlapped with another operation: RestartMihomo saves
\* the State it has loaded over whatever that one has done since, and a stop does not
\* find the mihomo that comes up next to it.
QuietStoppedIsClean == Quiet /\ ~restarted => NoResidueWhenStopped

\* When all operations have returned, what is left is on record, on the same condition.
QuietIsRecorded == Quiet /\ ~restarted => EverythingRecorded

\* After an overlap a later stop knows of all that is left: of nothing without a state
\* file, and of every process and the table with one.
QuietIsKnown == QuietStoppedIsClean /\ QuietIsRecorded

\* The value ip_forward had before is not lost, at any point of an overlap.
OverlapKeepsForwarding == ForwardingRecorded
=============================================================================
