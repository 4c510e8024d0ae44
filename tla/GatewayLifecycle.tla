-------------------------- MODULE GatewayLifecycle --------------------------
(***************************************************************************)
(* The lifecycle of the OpenSurge data plane (internal/gateway/manager.go): *)
(* Start, Stop, Reload and RestartMihomo drive five pieces of host state -  *)
(* the dnsmasq and mihomo processes, the nftables table, net.ipv4.ip_forward *)
(* and the runtime directory (state.json, the applied device policy         *)
(* snapshot, the rendered mihomo.yaml).                                     *)
(*                                                                          *)
(* One operation runs at a time; a step of the model is one call that       *)
(* changes or reads host state, so that a fault, the death of a process, an *)
(* edit of the desired configuration, a crash or a reboot can come between  *)
(* any two calls.  ConcurrentGateway interleaves several operations.        *)
(***************************************************************************)
EXTENDS Naturals

CONSTANTS
    Pids,            \* process ids the kernel hands out
    Policies,        \* digests of device policy documents
    Profiles,        \* digests of imported mihomo profiles
    MaxFaults,       \* bound: failing calls in a behaviour
    MaxCrashes       \* bound: service crashes and reboots in a behaviour

ASSUME PidsAssumption == Pids \subseteq Nat \ {0}
ASSUME DigestAssumption == "none" \notin Policies /\ "deferred" \notin Policies
ASSUME BoundAssumption == MaxFaults \in Nat /\ MaxCrashes \in Nat

VARIABLES
    owner,       \* what runs under each pid
    nft,         \* the table "inet opensurge" is loaded
    forward,     \* the value of net.ipv4.ip_forward
    host,        \* the value the host had before the gateway touched it
    exists,      \* state.json is there
    disk,        \* its content, State{} when it is not
    snapshot,    \* digest of the applied device policy snapshot, "none" if none
    rendered,    \* what mihomo.yaml was rendered from
    desired,     \* the configuration file as it is on disk
    document,    \* digest of the device policy document as it is on disk
    pc,          \* next call of the operation in progress, "idle" if none
    mode,        \* which operation is in progress
    cfg,         \* Manager.cfg: the configuration this operation loaded
    st,          \* the runtime.State value in memory
    prev,        \* RestartMihomo: previousPID
    unload,      \* the nftCleanup argument / condition of the cleanup
    cleanErr,    \* cleanupErr # nil
    validated,   \* policy digest the reload candidate was validated with
    resp,        \* how the last operation ended
    faults, crashes,
    abandoned,   \* a cleanup failed and so did the save that records it
    interrupted  \* an operation was killed half way

hostVars  == <<owner, nft, forward, host>>
fileVars  == <<exists, disk, snapshot, rendered>>
localVars == <<cfg, st, prev, unload, cleanErr, validated>>
riskVars  == <<crashes, abandoned, interrupted>>
editVars  == <<desired, document>>
vars == <<hostVars, fileVars, editVars, pc, mode, localVars, resp, faults, riskVars>>

-----------------------------------------------------------------------------
(* Values *)

NoPid     == 0
NoDigest  == "none"        \* no policy document, no profile: the empty string
Blank     == "blank"       \* IPForwardingBefore is empty
Deferred  == "deferred"    \* config.LoadRuntime left the policy document unread
PidOrNone == Pids \cup {NoPid}
Managed   == {"dnsmasq", "mihomo"}
Profile   == Profiles \cup {NoDigest}
Desired   == [serve : BOOLEAN, policyOn : BOOLEAN, profile : Profile]
Config    == [serve : BOOLEAN, policy : Policies \cup {NoDigest, Deferred}, profile : Profile]
State     == [dhcp : PidOrNone, mihomo : PidOrNone, before : {Blank, "0", "1"},
              nft : BOOLEAN, cleanup : BOOLEAN,
              policy : Policies \cup {NoDigest}, profile : Profile]
ZeroState == [dhcp |-> NoPid, mihomo |-> NoPid, before |-> Blank, nft |-> FALSE,
              cleanup |-> FALSE, policy |-> NoDigest, profile |-> NoDigest]
NoConfig  == [serve |-> FALSE, policy |-> Deferred, profile |-> NoDigest]

FreePids   == {p \in Pids : owner[p] = "free"}
Running(p) == p \in Pids /\ owner[p] # "free"              \* process.IsAlive
Kill(p)    == [q \in Pids |-> IF q = p THEN "free" ELSE owner[q]]

\* PrepareDevicePolicy: a bundle already in the configuration is kept, a
\* deferred one is read from the file as it is now.
Prepared(c) == [c EXCEPT !.policy = IF @ = Deferred THEN document ELSE @]

\* config.LoadRuntime parses the configuration but leaves the policy document
\* unread; config.Load reads it as well.  "serve" is dhcp.Manager.shouldRun, DHCP
\* enabled or a same-LAN mode.
LoadRuntime == [serve |-> desired.serve, profile |-> desired.profile,
                policy |-> IF desired.policyOn THEN Deferred ELSE NoDigest]
Load == Prepared(LoadRuntime)

Fault(n) == faults + n <= MaxFaults /\ faults' = faults + n

-----------------------------------------------------------------------------
(* The start and the end of an operation *)

Begin(m, label, c) ==
    /\ pc = "idle"
    /\ pc' = label /\ mode' = m /\ cfg' = c /\ resp' = "none"
    /\ UNCHANGED <<hostVars, fileVars, editVars, st, prev, unload, cleanErr, validated, faults, riskVars>>

\* The operation returns r; its local variables are gone.
Return(r) ==
    /\ pc' = "idle" /\ mode' = "none" /\ resp' = r
    /\ cfg' = NoConfig /\ st' = ZeroState /\ prev' = NoPid
    /\ unload' = FALSE /\ cleanErr' = FALSE /\ validated' = NoDigest

Continue(label) == pc' = label /\ UNCHANGED <<mode, resp>>

-----------------------------------------------------------------------------
(* Start *)

BeginStart == Begin("start", "load", Load)

\* state.json cannot be read or parsed.
Unreadable == Fault(1) /\ Return("error")

StartLoadState ==
    /\ pc = "load"
    /\ \/ ~exists /\ Continue("prepare") /\ UNCHANGED <<localVars, faults>>
       \/ exists /\ Return("error") /\ UNCHANGED faults
       \/ Unreadable
    /\ UNCHANGED <<hostVars, fileVars, editVars, riskVars>>

\* PrepareDevicePolicy, Validate, preflight, the reservation probes and the
\* four artifacts.  Nothing but the artifacts changes, and a rejection may come
\* before or after mihomo.yaml is written.
Prepare ==
    /\ pc = "prepare"
    /\ LET c == Prepared(cfg) IN
       \/ /\ rendered' = c /\ cfg' = c
          /\ st' = [ZeroState EXCEPT !.before = forward, !.policy = c.policy,
                                     !.profile = c.profile]
          /\ Continue("snapshot")
          /\ UNCHANGED <<prev, unload, cleanErr, validated>>
       \/ rendered' \in {rendered, c} /\ Return("error")
    /\ UNCHANGED <<hostVars, exists, disk, snapshot, editVars, faults, riskVars>>

\* Mutant of WriteSnapshot: the snapshot is copied from the document as it is now.
WriteSnapshotFromFile ==
    /\ pc = "snapshot"
    /\ snapshot' = IF cfg.policy = NoDigest THEN snapshot ELSE document
    /\ Continue("save1")
    /\ UNCHANGED <<hostVars, exists, disk, rendered, editVars, localVars, faults, riskVars>>

\* ReconcilePolicyLeases and WritePolicyBundleSnapshot, only with a bundle.
WriteSnapshot ==
    /\ pc = "snapshot"
    /\ \/ /\ snapshot' = IF cfg.policy = NoDigest THEN snapshot ELSE cfg.policy
          /\ Continue("save1") /\ UNCHANGED <<localVars, faults>>
       \/ /\ cfg.policy # NoDigest /\ Fault(1)
          /\ UNCHANGED snapshot /\ Return("error")
    /\ UNCHANGED <<hostVars, exists, disk, rendered, editVars, riskVars>>

SaveState == exists' = TRUE /\ disk' = st

\* The first save; when it fails the snapshot is removed, without looking at
\* the result of the removal.
SaveInitialState ==
    /\ pc = "save1"
    /\ \/ SaveState /\ Continue("enable") /\ UNCHANGED <<snapshot, localVars, faults>>
       \/ /\ \/ Fault(1) /\ snapshot' = NoDigest
             \/ Fault(2) /\ UNCHANGED snapshot
          /\ UNCHANGED <<exists, disk>> /\ Return("error")
    /\ UNCHANGED <<hostVars, rendered, editVars, riskVars>>

\* rollback(cause, state, ..., nftCleanup): the cleanup runs on the State in
\* memory, whatever has been saved of it.
Rollback(nftCleanup) ==
    /\ unload' = nftCleanup /\ cleanErr' = FALSE
    /\ Continue("c_nft")
    /\ UNCHANGED <<cfg, st, prev, validated>>

EnableForwarding ==
    /\ pc = "enable"
    /\ \/ forward' = "1" /\ Continue("save2") /\ UNCHANGED <<localVars, faults>>
       \/ forward' \in {forward, "1"} /\ Fault(1) /\ Rollback(FALSE)
    /\ UNCHANGED <<owner, nft, host, fileVars, editVars, riskVars>>

\* The saves after a resource was acquired; the last one rolls back with the
\* table, the others without.
SaveAt(here, next, nftCleanup) ==
    /\ pc = here
    /\ \/ SaveState /\ Continue(next) /\ UNCHANGED <<localVars, faults>>
       \/ Fault(1) /\ Rollback(nftCleanup) /\ UNCHANGED <<exists, disk>>
    /\ UNCHANGED <<hostVars, snapshot, rendered, editVars, riskVars>>

SaveForwarding == SaveAt("save2", "mihomo", FALSE)
SaveMihomo     == SaveAt("save3", "dnsmasq", FALSE)
SaveDnsmasq    == SaveAt("save4", "load_nft", FALSE)
SaveNftables   == SaveAt("save5", "verify", TRUE)

\* A fork is refused by a fault or for want of a pid.
SpawnRefused == Fault(1) \/ (FreePids = {} /\ UNCHANGED faults)

\* A start that fails: the process never ran or was stopped again, or, when its
\* own kill failed too (stopStartedProcess drops that error), it is left behind.
FailedSpawn(role) ==
    \/ SpawnRefused /\ UNCHANGED <<owner, abandoned>>
    \/ \E p \in FreePids : owner' = [owner EXCEPT ![p] = role] /\ abandoned' = TRUE /\ Fault(2)

StartMihomo ==
    /\ pc = "mihomo"
    /\ \/ \E p \in FreePids :
            /\ owner' = [owner EXCEPT ![p] = "mihomo"]
            /\ st' = [st EXCEPT !.mihomo = p]
            /\ Continue("save3")
            /\ UNCHANGED <<cfg, prev, unload, cleanErr, validated, faults, abandoned>>
       \/ FailedSpawn("mihomo") /\ Rollback(FALSE)
    /\ UNCHANGED <<nft, forward, host, fileVars, editVars, crashes, interrupted>>

\* dnsmasq is only declared failed once it is dead, so nothing is left behind.
StartDnsmasq ==
    /\ pc = "dnsmasq"
    /\ \/ /\ cfg.serve
          /\ \E p \in FreePids :
               owner' = [owner EXCEPT ![p] = "dnsmasq"] /\ st' = [st EXCEPT !.dhcp = p]
          /\ Continue("save4")
          /\ UNCHANGED <<cfg, prev, unload, cleanErr, validated, faults>>
       \/ /\ ~cfg.serve /\ Continue("save4")
          /\ UNCHANGED <<owner, localVars, faults>>
       \/ /\ cfg.serve /\ SpawnRefused
          /\ Rollback(FALSE) /\ UNCHANGED owner
    /\ UNCHANGED <<nft, forward, host, fileVars, editVars, riskVars>>

\* Mutant of LoadNftables: a failed load is rolled back without its table.
LoadNftablesNoCleanup ==
    /\ pc = "load_nft"
    /\ \/ /\ nft' = TRUE /\ st' = [st EXCEPT !.nft = TRUE]
          /\ Continue("save5")
          /\ UNCHANGED <<cfg, prev, unload, cleanErr, validated, faults>>
       \/ nft' \in {nft, TRUE} /\ Fault(1) /\ Rollback(FALSE)
    /\ UNCHANGED <<owner, forward, host, fileVars, editVars, riskVars>>

\* nft --check, then nft --file: a failing load may have taken effect.
LoadNftables ==
    /\ pc = "load_nft"
    /\ \/ /\ nft' = TRUE /\ st' = [st EXCEPT !.nft = TRUE]
          /\ Continue("save5")
          /\ UNCHANGED <<cfg, prev, unload, cleanErr, validated, faults>>
       \/ nft' \in {nft, TRUE} /\ Fault(1) /\ Rollback(TRUE)
    /\ UNCHANGED <<owner, forward, host, fileVars, editVars, riskVars>>

\* Mutant of VerifyNftables: a table that is not visible is loaded again.
VerifyNftablesRetries ==
    /\ pc = "verify"
    /\ \/ nft /\ Return(IF mode = "start" THEN "started" ELSE "reloaded")
       \/ ~nft /\ Continue("load_nft") /\ UNCHANGED localVars
    /\ UNCHANGED <<hostVars, fileVars, editVars, faults, riskVars>>

\* nft list table: an error and a missing table both roll back.
VerifyNftables ==
    /\ pc = "verify"
    /\ \/ /\ nft /\ UNCHANGED faults
          /\ Return(IF mode = "start" THEN "started" ELSE "reloaded")
       \/ (Fault(1) \/ (~nft /\ UNCHANGED faults)) /\ Rollback(TRUE)
    /\ UNCHANGED <<hostVars, fileVars, editVars, riskVars>>

-----------------------------------------------------------------------------
(* The cleanup shared by rollback and Stop: table, dnsmasq, mihomo, forwarding, *)
(* each tried whatever the others did; then, if all went well, state.json and   *)
(* the snapshot; otherwise the state is kept with CleanupRequired.              *)

\* Mutant of CleanUnload: a table that is already gone counts as a failure.
CleanUnloadStrict ==
    /\ pc = "c_nft"
    /\ \/ nft' = (nft /\ ~unload) /\ cleanErr' = (unload /\ ~nft) /\ UNCHANGED faults
       \/ unload /\ nft' \in {nft, FALSE} /\ Fault(1) /\ cleanErr' = TRUE
    /\ Continue("c_dhcp")
    /\ UNCHANGED <<owner, forward, host, fileVars, editVars, cfg, st, prev, unload, validated, riskVars>>

CleanUnload ==
    /\ pc = "c_nft"
    /\ \/ nft' = (nft /\ ~unload) /\ UNCHANGED <<cleanErr, faults>>
       \/ unload /\ nft' \in {nft, FALSE} /\ Fault(1) /\ cleanErr' = TRUE
    /\ Continue("c_dhcp")
    /\ UNCHANGED <<owner, forward, host, fileVars, editVars, cfg, st, prev, unload, validated, riskVars>>

\* StopPID: nothing to do for pid 0 or a dead one, else SIGTERM and SIGKILL; a
\* refused signal leaves the process, unless it dies of itself.
StopProcess(pid) ==
    \/ owner' = Kill(pid) /\ UNCHANGED <<cleanErr, faults>>
    \/ /\ Running(pid) /\ Fault(1) /\ cleanErr' = TRUE
       /\ owner' \in {owner, Kill(pid)}

CleanDnsmasq ==
    /\ pc = "c_dhcp" /\ StopProcess(st.dhcp) /\ Continue("c_mihomo")
    /\ UNCHANGED <<nft, forward, host, fileVars, editVars, cfg, st, prev, unload, validated, riskVars>>

CleanMihomo ==
    /\ pc = "c_mihomo" /\ StopProcess(st.mihomo) /\ Continue("c_sysctl")
    /\ UNCHANGED <<nft, forward, host, fileVars, editVars, cfg, st, prev, unload, validated, riskVars>>

\* Mutant of RestoreForwarding: the state is removed although a step failed.
RestoreForwardingForgets ==
    /\ pc = "c_sysctl"
    /\ \/ forward' = (IF st.before = Blank THEN forward ELSE st.before) /\ UNCHANGED faults
       \/ st.before # Blank /\ forward' \in {forward, st.before} /\ Fault(1)
    /\ Continue("c_state")
    /\ UNCHANGED <<owner, nft, host, fileVars, editVars, localVars, riskVars>>

RestoreForwarding ==
    /\ pc = "c_sysctl"
    /\ \/ /\ forward' = IF st.before = Blank THEN forward ELSE st.before
          /\ Continue(IF cleanErr THEN "retain" ELSE "c_state")
          /\ UNCHANGED <<cleanErr, faults>>
       \/ /\ st.before # Blank /\ forward' \in {forward, st.before} /\ Fault(1)
          /\ cleanErr' = TRUE /\ Continue("retain")
    /\ UNCHANGED <<owner, nft, host, fileVars, editVars, cfg, st, prev, unload, validated, riskVars>>

RemoveState ==
    /\ pc = "c_state"
    /\ \/ exists' = FALSE /\ disk' = ZeroState /\ UNCHANGED <<cleanErr, faults>>
       \/ exists /\ Fault(1) /\ cleanErr' = TRUE /\ UNCHANGED <<exists, disk>>
    /\ Continue("c_snap")
    /\ UNCHANGED <<hostVars, snapshot, rendered, editVars, cfg, st, prev, unload, validated, riskVars>>

\* A stop is done, a rollback returns its cause, a reload goes on to its start.
CleanupDone ==
    \/ mode = "stop" /\ Return("stopped")
    \/ mode \in {"start", "reload_start"} /\ Return("error")
    \/ /\ mode = "reload" /\ mode' = "reload_start" /\ pc' = "load"
       /\ UNCHANGED <<resp, localVars>>

RemoveSnapshot ==
    /\ pc = "c_snap"
    /\ \/ /\ snapshot' = NoDigest /\ UNCHANGED faults
          /\ \/ ~cleanErr /\ CleanupDone
             \/ cleanErr /\ Continue("retain") /\ UNCHANGED localVars
       \/ /\ snapshot # NoDigest /\ Fault(1) /\ UNCHANGED snapshot /\ cleanErr' = TRUE
          /\ Continue("retain") /\ UNCHANGED <<cfg, st, prev, unload, validated>>
    /\ UNCHANGED <<hostVars, exists, disk, rendered, editVars, riskVars>>

\* Mutant of RetainCleanupState: the kept state does not say that a cleanup is due.
RetainCleanupUnmarked ==
    /\ pc = "retain" /\ SaveState /\ Return("error")
    /\ UNCHANGED <<hostVars, snapshot, rendered, editVars, faults, riskVars>>

\* retainCleanupState
RetainCleanupState ==
    /\ pc = "retain"
    /\ \/ /\ exists' = TRUE /\ disk' = [st EXCEPT !.cleanup = TRUE]
          /\ UNCHANGED <<faults, abandoned>>
       \/ Fault(1) /\ abandoned' = TRUE /\ UNCHANGED <<exists, disk>>
    /\ Return("error")
    /\ UNCHANGED <<hostVars, snapshot, rendered, editVars, crashes, interrupted>>

-----------------------------------------------------------------------------
(* Stop and Reload *)

BeginStop == Begin("stop", "stop_load", LoadRuntime)

\* Without a state file there is nothing to undo, but the snapshot goes anyway.
StopLoadState ==
    /\ pc = "stop_load"
    /\ \/ /\ exists /\ st' = disk /\ unload' = (disk.nft \/ disk.cleanup)
          /\ Continue("c_nft") /\ UNCHANGED <<cfg, prev, cleanErr, validated, faults>>
       \/ /\ ~exists /\ st' = ZeroState
          /\ Continue("c_state") /\ UNCHANGED <<cfg, prev, unload, cleanErr, validated, faults>>
       \/ Unreadable
    /\ UNCHANGED <<hostVars, fileVars, editVars, riskVars>>

\* The reload action of the gateway service loads the configuration without the
\* policy document; the reload command and applyProfile load it with the document.
BeginReload == \E c \in {LoadRuntime, Load} : Begin("reload", "reload_check", c)

ReloadCheck ==
    /\ pc = "reload_check"
    /\ \/ /\ exists /\ Running(disk.dhcp) /\ Running(disk.mihomo)
          /\ Continue("reload_validate") /\ UNCHANGED localVars
       \/ Return("error")
    /\ UNCHANGED <<hostVars, fileVars, editVars, faults, riskVars>>

\* Mutant of ValidateReloadCandidate: the candidate overwrites the live artifacts.
ValidateReloadInPlace ==
    /\ pc = "reload_validate" /\ rendered' = Prepared(cfg)
    /\ \/ /\ validated' = Prepared(cfg).policy /\ Continue("stop_load")
          /\ UNCHANGED <<cfg, st, prev, unload, cleanErr>>
       \/ Return("error")
    /\ UNCHANGED <<hostVars, exists, disk, snapshot, editVars, faults, riskVars>>

\* The candidate is a copy of the configuration, rendered into a temporary
\* directory: no live file is written and cfg itself is not prepared.
ValidateReloadCandidate ==
    /\ pc = "reload_validate"
    /\ \/ /\ validated' = Prepared(cfg).policy /\ Continue("stop_load")
          /\ UNCHANGED <<cfg, st, prev, unload, cleanErr>>
       \/ Return("error")
    /\ UNCHANGED <<hostVars, fileVars, editVars, faults, riskVars>>

-----------------------------------------------------------------------------
(* RestartMihomo *)

BeginRestart == Begin("restart", "restart_check", LoadRuntime)

\* The state must exist, the desired profile must be the applied one and the
\* rendered configuration must still validate.
RestartCheck ==
    /\ pc = "restart_check"
    /\ \/ /\ exists /\ cfg.profile = disk.profile /\ rendered # NoConfig
          /\ prev' = disk.mihomo /\ st' = [disk EXCEPT !.mihomo = NoPid]
          /\ Continue("restart_mark") /\ UNCHANGED <<cfg, unload, cleanErr, validated>>
       \/ Return("error")
    /\ UNCHANGED <<hostVars, fileVars, editVars, faults, riskVars>>

\* The pid is forgotten on disk before the process is stopped.
RestartMark ==
    /\ pc = "restart_mark"
    /\ \/ SaveState /\ Continue("restart_stop") /\ UNCHANGED <<localVars, faults>>
       \/ Fault(1) /\ UNCHANGED <<exists, disk>> /\ Return("error")
    /\ UNCHANGED <<hostVars, snapshot, rendered, editVars, riskVars>>

RestartStop ==
    /\ pc = "restart_stop" /\ StopProcess(prev)
    /\ Continue(IF cleanErr' THEN "restart_undo" ELSE "restart_archive")
    /\ UNCHANGED <<nft, forward, host, fileVars, editVars, cfg, st, prev, unload, validated, riskVars>>

\* Mutant of RestartUndo: the pid of a process that survived is not put back.
RestartUndoForgets ==
    /\ pc = "restart_undo" /\ SaveState /\ Return("error")
    /\ UNCHANGED <<hostVars, snapshot, rendered, editVars, faults, riskVars>>

\* The stop failed: if the old process still runs, its pid is put back.
RestartUndo ==
    /\ pc = "restart_undo"
    /\ \/ /\ exists' = TRUE
          /\ disk' = IF Running(prev) THEN [st EXCEPT !.mihomo = prev] ELSE st
          /\ UNCHANGED <<faults, abandoned>>
       \/ Fault(1) /\ abandoned' = TRUE /\ UNCHANGED <<exists, disk>>
    /\ Return("error")
    /\ UNCHANGED <<hostVars, snapshot, rendered, editVars, crashes, interrupted>>

RestartArchiveLog ==
    /\ pc = "restart_archive"
    /\ \/ Continue("restart_start") /\ UNCHANGED <<localVars, faults>>
       \/ Fault(1) /\ Return("error")
    /\ UNCHANGED <<hostVars, fileVars, editVars, riskVars>>

RestartStart ==
    /\ pc = "restart_start"
    /\ \/ \E p \in FreePids :
            /\ owner' = [owner EXCEPT ![p] = "mihomo"]
            /\ st' = [st EXCEPT !.mihomo = p]
            /\ Continue("restart_save")
            /\ UNCHANGED <<cfg, prev, unload, cleanErr, validated, faults, abandoned>>
       \/ FailedSpawn("mihomo") /\ Return("error")
    /\ UNCHANGED <<nft, forward, host, fileVars, editVars, crashes, interrupted>>

\* Mutant of RestartSave: the saved state is a fresh one with the new pid only.
RestartSaveFresh ==
    /\ pc = "restart_save"
    /\ exists' = TRUE /\ disk' = [ZeroState EXCEPT !.mihomo = st.mihomo] /\ Return("restarted")
    /\ UNCHANGED <<hostVars, snapshot, rendered, editVars, faults, riskVars>>

\* When the new pid cannot be saved its process is stopped again.
RestartSave ==
    /\ pc = "restart_save"
    /\ \/ SaveState /\ Return("restarted") /\ UNCHANGED <<owner, faults, abandoned>>
       \/ /\ \/ owner' = Kill(st.mihomo) /\ Fault(1) /\ UNCHANGED abandoned
             \/ UNCHANGED owner /\ Fault(2) /\ abandoned' = TRUE
          /\ UNCHANGED <<exists, disk>> /\ Return("error")
    /\ UNCHANGED <<nft, forward, host, snapshot, rendered, editVars, crashes, interrupted>>

-----------------------------------------------------------------------------
(* The environment *)

\* ApplyDevicePolicy on another connection, or an editor, replaces the document.
EditPolicy ==
    /\ document' \in Policies \ {document}
    /\ UNCHANGED <<hostVars, fileVars, desired, pc, mode, localVars, resp, faults, riskVars>>

\* applyProfile points the configuration at another imported profile.
EditProfile ==
    /\ \E q \in Profiles \ {desired.profile} : desired' = [desired EXCEPT !.profile = q]
    /\ UNCHANGED <<hostVars, fileVars, document, pc, mode, localVars, resp, faults, riskVars>>

\* applyControlConfig replaces the configuration of a stopped gateway, and writes
\* an initial policy document when it turns the device policy on.
EditControlConfig ==
    /\ ~exists
    /\ \E s, on \in BOOLEAN :
          /\ desired' = [desired EXCEPT !.serve = s, !.policyOn = on]
          /\ document' \in IF on /\ ~desired.policyOn THEN Policies ELSE {document}
    /\ UNCHANGED <<hostVars, fileVars, pc, mode, localVars, resp, faults, riskVars>>

\* A gateway process dies of itself.
ProcessExits ==
    /\ \E p \in Pids : owner[p] # "free" /\ owner' = Kill(p)
    /\ UNCHANGED <<nft, forward, host, fileVars, editVars, pc, mode, localVars, resp, faults, riskVars>>

\* Another tool flushes the ruleset.
TableFlushed ==
    /\ nft /\ nft' = FALSE
    /\ UNCHANGED <<owner, forward, host, fileVars, editVars, pc, mode, localVars, resp, faults, riskVars>>

\* The administrator changes ip_forward while the gateway is down.
AdminForwarding ==
    /\ pc = "idle" /\ ~exists
    /\ \E v \in {"0", "1"} : v # forward /\ forward' = v /\ host' = v
    /\ UNCHANGED <<owner, nft, fileVars, editVars, pc, mode, localVars, resp, faults, riskVars>>

\* The program running the operation dies.  systemd then kills what is left in
\* the service's control group; processes started by the CLI survive.
Crash ==
    /\ crashes < MaxCrashes /\ crashes' = crashes + 1
    /\ owner' \in {owner, [p \in Pids |-> "free"]}
    /\ interrupted' = (interrupted \/ pc # "idle")
    /\ Return("none")
    /\ UNCHANGED <<nft, forward, host, fileVars, editVars, faults, abandoned>>

\* state.json and the snapshot are under /var/lib, mihomo.yaml is under /run.
Reboot ==
    /\ crashes < MaxCrashes /\ crashes' = crashes + 1
    /\ owner' = [p \in Pids |-> "free"] /\ nft' = FALSE /\ forward' = host
    /\ rendered' = NoConfig
    /\ interrupted' = (interrupted \/ pc # "idle")
    /\ Return("none")
    /\ UNCHANGED <<host, exists, disk, snapshot, editVars, faults, abandoned>>

-----------------------------------------------------------------------------
Init ==
    /\ owner = [p \in Pids |-> "free"] /\ nft = FALSE
    /\ forward \in {"0", "1"} /\ host = forward
    /\ exists = FALSE /\ disk = ZeroState /\ snapshot = NoDigest /\ rendered = NoConfig
    /\ desired \in Desired /\ document \in Policies
    /\ pc = "idle" /\ mode = "none" /\ resp = "none"
    /\ cfg = NoConfig /\ st = ZeroState /\ prev = NoPid
    /\ unload = FALSE /\ cleanErr = FALSE /\ validated = NoDigest
    /\ faults = 0 /\ crashes = 0 /\ abandoned = FALSE /\ interrupted = FALSE

Requests == BeginStart \/ BeginStop \/ BeginReload \/ BeginRestart

StartSteps ==
    \/ StartLoadState \/ Prepare \/ WriteSnapshot \/ SaveInitialState
    \/ EnableForwarding \/ SaveForwarding \/ StartMihomo \/ SaveMihomo
    \/ StartDnsmasq \/ SaveDnsmasq \/ LoadNftables \/ SaveNftables \/ VerifyNftables

CleanupSteps ==
    \/ CleanUnload \/ CleanDnsmasq \/ CleanMihomo \/ RestoreForwarding
    \/ RemoveState \/ RemoveSnapshot \/ RetainCleanupState

RestartSteps ==
    \/ RestartCheck \/ RestartMark \/ RestartStop \/ RestartUndo
    \/ RestartArchiveLog \/ RestartStart \/ RestartSave

OperationSteps ==
    \/ StartSteps \/ StopLoadState \/ CleanupSteps
    \/ ReloadCheck \/ ValidateReloadCandidate \/ RestartSteps

Environment ==
    \/ EditPolicy \/ EditProfile \/ EditControlConfig \/ ProcessExits \/ TableFlushed \/ AdminForwarding
    \/ Crash \/ Reboot

Next == Requests \/ OperationSteps \/ Environment

Spec == Init /\ [][Next]_vars

\* Every call of an operation returns: commands, signals and start-up waits have
\* timeouts.  An administrator who is told that a cleanup is required retries stop.
FairSpec == Spec /\ WF_vars(OperationSteps) /\ SF_vars(BeginStop)

-----------------------------------------------------------------------------
(* Properties *)

Labels == {"idle", "load", "prepare", "snapshot", "save1", "enable", "save2", "mihomo", "save3",
           "dnsmasq", "save4", "load_nft", "save5", "verify", "c_nft", "c_dhcp", "c_mihomo",
           "c_sysctl", "c_state", "c_snap", "retain", "stop_load", "reload_check",
           "reload_validate", "restart_check", "restart_mark", "restart_stop", "restart_undo",
           "restart_archive", "restart_start", "restart_save"}

Modes     == {"none", "start", "stop", "reload", "reload_start", "restart"}
Responses == {"none", "error", "started", "stopped", "reloaded", "restarted"}

HostTyped ==
    /\ owner \in [Pids -> {"free"} \cup Managed]
    /\ nft \in BOOLEAN /\ forward \in {"0", "1"} /\ host \in {"0", "1"}
FilesTyped ==
    /\ exists \in BOOLEAN /\ disk \in State
    /\ snapshot \in Policies \cup {NoDigest} /\ rendered \in Config
EditsTyped == desired \in Desired /\ document \in Policies
ControlTyped == pc \in Labels /\ mode \in Modes /\ resp \in Responses
LocalsTyped ==
    /\ cfg \in Config /\ st \in State /\ prev \in PidOrNone
    /\ unload \in BOOLEAN /\ cleanErr \in BOOLEAN
    /\ validated \in Policies \cup {NoDigest}
RisksTyped ==
    /\ faults \in 0..MaxFaults /\ crashes \in 0..MaxCrashes
    /\ abandoned \in BOOLEAN /\ interrupted \in BOOLEAN

TypeOK == HostTyped /\ FilesTyped /\ EditsTyped /\ ControlTyped /\ LocalsTyped /\ RisksTyped

\* No operation was killed half way, and every failed cleanup left its record.
Sound == ~abandoned /\ ~interrupted

Clean == ~nft /\ forward = host /\ \A p \in Pids : owner[p] = "free"

\* Without state.json the gateway reports "stopped": then no table, no process
\* and no changed ip_forward of an earlier operation is left on the host.
NoResidueWhenStopped == ~exists /\ Sound => Clean

\* ip_forward differs from the value of the host only while state.json records
\* that value - even after crashes and lost saves, so a stop can restore it.
ForwardingRecorded == forward # host => exists /\ disk.before = host

\* Between operations a stop would find everything that is left: the processes
\* by their pids, the table by NftablesLoaded or CleanupRequired.
EverythingRecorded ==
    pc = "idle" /\ exists /\ Sound =>
        /\ \A p \in Pids : owner[p] # "free" => p \in {disk.dhcp, disk.mihomo}
        /\ nft => disk.nft \/ disk.cleanup

\* A start or reload that reports success has recorded every resource it took.
StartedIsRecorded ==
    resp \in {"started", "reloaded"} =>
        /\ exists /\ disk.nft /\ ~disk.cleanup /\ disk.mihomo # NoPid
        /\ disk.dhcp # NoPid \/ ~rendered.serve

\* The policy snapshot next to state.json is the one it names, so that
\* loadAppliedDevicePolicy finds the applied policy.
SnapshotMatchesState ==
    pc = "idle" /\ exists /\ ~disk.cleanup /\ disk.policy # NoDigest /\ Sound =>
        snapshot = disk.policy

\* What RestartMihomo would launch was rendered from what state.json says is
\* applied, whatever the desired configuration has become.
RenderedMatchesState ==
    exists /\ ~disk.cleanup /\ rendered # NoConfig =>
        rendered.policy = disk.policy /\ rendered.profile = disk.profile

\* Both artifacts next to state.json are those of the configuration it says is applied,
\* whatever the administrator edits and whichever calls of a reload or restart fail.
ArtifactsMatchState == RenderedMatchesState /\ SnapshotMatchesState

\* A reload applies the configuration its validation has accepted.
ReloadAppliesValidated == mode = "reload_start" /\ pc = "verify" => disk.policy = validated

\* A stop that reports success has left nothing on the host, also when it cleans
\* up after an operation that was killed.
StopLeavesNothing == resp = "stopped" => Clean

\* Every operation returns.
OperationsReturn == pc # "idle" ~> pc = "idle"

\* A required cleanup can always be finished by retrying stop.
CleanupIsNoTrap == exists /\ disk.cleanup ~> ~exists

\* What the state file says, and what is being done to the host: an operation that
\* only looks has not begun, the start that a reload ends with is a start.
PromisedStatus == CASE ~exists                -> "stopped"
                    [] exists /\ disk.cleanup  -> "cleanup"
                    [] exists /\ ~disk.cleanup -> "active"

PromisedPhase ==
    IF pc \in {"idle", "load", "stop_load", "reload_check", "reload_validate", "restart_check"} THEN "idle"
    ELSE CASE mode \in {"start", "reload_start"} -> "starting"
           [] mode \in {"stop", "reload"}        -> "stopping"
           [] OTHER                              -> "restarting"

\* The lifecycle keeps the promise made to the operator: a start is all or
\* nothing, "stopped" means nothing is left, a required cleanup stays required
\* until a stop goes through, a restart of mihomo changes neither.
Promise == INSTANCE GatewayPromise WITH
    status <- PromisedStatus, residue <- ~Clean, phase <- PromisedPhase, answer <- resp, broken <- ~Sound

KeepsPromise == Promise!Spec
=============================================================================
