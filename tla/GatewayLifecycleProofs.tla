----------------------- MODULE GatewayLifecycleProofs -----------------------
(***************************************************************************)
(* Proofs about GatewayLifecycle for every set of pids, policies and        *)
(* profiles and every bound on faults and crashes: types, forwarding and    *)
(* what is left on the host; what the files of the runtime directory say of *)
(* each other; and that the lifecycle implements GatewayPromise.            *)
(***************************************************************************)
EXTENDS GatewayInvariants, TLAPS

-----------------------------------------------------------------------------
(* The types of the values and of the helpers every action is built from *)

LEMMA StateFacts ==
    /\ ZeroState \in State
    /\ \A s \in State :
          /\ [s EXCEPT !.nft = TRUE] \in State /\ [s EXCEPT !.cleanup = TRUE] \in State
          /\ \A p \in PidOrNone : [s EXCEPT !.mihomo = p] \in State /\ [s EXCEPT !.dhcp = p] \in State
          /\ s.mihomo \in PidOrNone /\ s.dhcp \in PidOrNone
          /\ s.nft \in BOOLEAN /\ s.cleanup \in BOOLEAN
          /\ s.before \in {Blank, "0", "1"}
BY DEF State, ZeroState, PidOrNone, NoPid, Blank, NoDigest, Profile

\* Preparing a configuration leaves nothing deferred.
LEMMA ConfigFacts ==
    /\ NoConfig \in Config
    /\ EditsTyped =>
          /\ LoadRuntime \in Config /\ Load \in Config
          /\ \A c \in Config : /\ Prepared(c) \in Config
                               /\ Prepared(c).policy \in Policies \cup {NoDigest}
                               /\ Prepared(c).policy # Deferred
                               /\ Prepared(c).profile \in Profile
BY DigestAssumption
   DEF EditsTyped, Config, Desired, NoConfig, LoadRuntime, Load, Prepared, NoDigest, Deferred, Profile

LEMMA ReturnTypes == ASSUME NEW r \in Responses, Return(r) PROVE ControlTyped' /\ LocalsTyped'
BY StateFacts, ConfigFacts DEF Return, ControlTyped, LocalsTyped, Labels, Modes, PidOrNone

LEMMA ContinueTypes == ASSUME ControlTyped, NEW l \in Labels, Continue(l) PROVE ControlTyped'
BY DEF Continue, ControlTyped

LEMMA RollbackTypes ==
    ASSUME ControlTyped, LocalsTyped, NEW b \in BOOLEAN, Rollback(b) PROVE ControlTyped' /\ LocalsTyped'
BY DEF Rollback, Continue, ControlTyped, LocalsTyped, Labels

LEMMA BeginTypes ==
    ASSUME LocalsTyped, NEW m \in Modes, NEW l \in Labels, NEW c \in Config, Begin(m, l, c)
    PROVE  ControlTyped' /\ LocalsTyped'
BY DEF Begin, ControlTyped, LocalsTyped, Responses

LEMMA FaultTypes == ASSUME RisksTyped, NEW n \in {1, 2}, Fault(n) PROVE faults' \in 0..MaxFaults
BY BoundAssumption DEF RisksTyped, Fault

-----------------------------------------------------------------------------
(* One lemma for each conjunct of the type invariant *)

\* The host.  RestoreForwarding writes a value that was recorded.
LEMMA HostStep == TypeOK /\ [Next]_vars => HostTyped'
<1> SUFFICES ASSUME TypeOK, [Next]_vars PROVE HostTyped'
  OBVIOUS
<1> USE DEF TypeOK
<1>1. CASE UNCHANGED vars
  BY <1>1 DEF vars, hostVars, HostTyped
<1>2. CASE BeginStart \/ BeginStop \/ BeginReload \/ BeginRestart \/ StartLoadState \/
              Prepare \/ WriteSnapshot \/ SaveInitialState \/ SaveForwarding \/
              SaveMihomo \/ SaveDnsmasq \/ SaveNftables \/ VerifyNftables \/
              RemoveState \/ RemoveSnapshot \/ RetainCleanupState \/ RestartCheck \/
              RestartMark \/ RestartUndo \/ RestartArchiveLog \/ StopLoadState \/
              ReloadCheck \/ ValidateReloadCandidate \/ EditPolicy \/ EditProfile \/
              EditControlConfig
  BY <1>2 DEF BeginStart, BeginStop, BeginReload, BeginRestart, StartLoadState, Prepare,
      WriteSnapshot, SaveInitialState, SaveForwarding, SaveMihomo, SaveDnsmasq,
      SaveNftables, VerifyNftables, RemoveState, RemoveSnapshot, RetainCleanupState,
      RestartCheck, RestartMark, RestartUndo, RestartArchiveLog, StopLoadState,
      ReloadCheck, ValidateReloadCandidate, EditPolicy, EditProfile, EditControlConfig,
      Begin, SaveAt, hostVars, HostTyped
<1>3. CASE EnableForwarding \/ StartMihomo \/ StartDnsmasq \/ LoadNftables \/
              CleanUnload \/ CleanDnsmasq \/ CleanMihomo \/ RestartStop \/
              RestartStart \/ RestartSave
  BY <1>3 DEF EnableForwarding, StartMihomo, StartDnsmasq, LoadNftables, CleanUnload,
      CleanDnsmasq, CleanMihomo, RestartStop, RestartStart, RestartSave, FailedSpawn,
      StopProcess, Kill, FreePids, Managed, HostTyped
<1>4. CASE RestoreForwarding
  BY <1>4, StateFacts DEF RestoreForwarding, LocalsTyped, HostTyped
<1>5. CASE ProcessExits \/ TableFlushed \/ AdminForwarding \/ Crash \/ Reboot
  BY <1>5 DEF ProcessExits, TableFlushed, AdminForwarding, Crash, Reboot, Kill,
      HostTyped
<1> QED
  BY <1>1, <1>2, <1>3, <1>4, <1>5
     DEF Next, Requests, OperationSteps, StartSteps, CleanupSteps, RestartSteps, Environment

\* The files.  The snapshot is only written from a prepared configuration.
LEMMA FilesStep == TypeOK /\ SnapshotPrepared /\ [Next]_vars => FilesTyped'
<1> SUFFICES ASSUME TypeOK /\ SnapshotPrepared, [Next]_vars PROVE FilesTyped'
  OBVIOUS
<1> USE DEF TypeOK
<1>1. CASE UNCHANGED vars
  BY <1>1 DEF vars, fileVars, FilesTyped
<1>2. CASE BeginStart \/ BeginStop \/ BeginReload \/ BeginRestart \/ StartLoadState \/
              EnableForwarding \/ StartMihomo \/ StartDnsmasq \/ LoadNftables \/
              VerifyNftables \/ CleanUnload \/ CleanDnsmasq \/ CleanMihomo \/
              RestoreForwarding \/ RestartCheck \/ RestartStop \/ RestartArchiveLog \/
              RestartStart \/ StopLoadState \/ ReloadCheck \/ ValidateReloadCandidate \/
              EditPolicy \/ EditProfile \/ EditControlConfig \/ ProcessExits \/
              TableFlushed \/ AdminForwarding \/ Crash
  BY <1>2 DEF BeginStart, BeginStop, BeginReload, BeginRestart, StartLoadState,
      EnableForwarding, StartMihomo, StartDnsmasq, LoadNftables, VerifyNftables,
      CleanUnload, CleanDnsmasq, CleanMihomo, RestoreForwarding, RestartCheck,
      RestartStop, RestartArchiveLog, RestartStart, StopLoadState, ReloadCheck,
      ValidateReloadCandidate, EditPolicy, EditProfile, EditControlConfig, ProcessExits,
      TableFlushed, AdminForwarding, Crash, Begin, fileVars, FilesTyped
<1>3. CASE Prepare
  BY <1>3, ConfigFacts DEF Prepare, LocalsTyped, FilesTyped
<1>4. CASE WriteSnapshot
  BY <1>4 DEF WriteSnapshot, SnapshotPrepared, LocalsTyped, Config, FilesTyped
<1>5. CASE SaveInitialState \/ SaveForwarding \/ SaveMihomo \/ SaveDnsmasq \/
              SaveNftables
  BY <1>5 DEF SaveInitialState, SaveForwarding, SaveMihomo, SaveDnsmasq, SaveNftables,
      SaveAt, SaveState, LocalsTyped, FilesTyped
<1>6. CASE RemoveState \/ RemoveSnapshot \/ RetainCleanupState \/ RestartMark \/
              RestartUndo \/ RestartSave
  BY <1>6, StateFacts DEF RemoveState, RemoveSnapshot, RetainCleanupState, RestartMark,
      RestartUndo, RestartSave, SaveState, LocalsTyped, FilesTyped
<1>7. CASE Reboot
  BY <1>7, ConfigFacts DEF Reboot, FilesTyped
<1> QED
  BY <1>1, <1>2, <1>3, <1>4, <1>5, <1>6, <1>7
     DEF Next, Requests, OperationSteps, StartSteps, CleanupSteps, RestartSteps, Environment

\* The desired configuration.
LEMMA EditsStep == TypeOK /\ [Next]_vars => EditsTyped'
<1> SUFFICES ASSUME TypeOK, [Next]_vars PROVE EditsTyped'
  OBVIOUS
<1> USE DEF TypeOK
<1>1. CASE UNCHANGED vars
  BY <1>1 DEF vars, editVars, EditsTyped
<1>2. CASE BeginStart \/ BeginStop \/ BeginReload \/ BeginRestart \/ StartLoadState \/
              Prepare \/ WriteSnapshot \/ SaveInitialState \/ EnableForwarding \/
              SaveForwarding \/ StartMihomo \/ SaveMihomo \/ StartDnsmasq \/
              SaveDnsmasq \/ LoadNftables \/ SaveNftables \/ VerifyNftables \/
              CleanUnload \/ CleanDnsmasq \/ CleanMihomo \/ RestoreForwarding \/
              RemoveState \/ RemoveSnapshot \/ RetainCleanupState \/ RestartCheck \/
              RestartMark \/ RestartStop \/ RestartUndo \/ RestartArchiveLog \/
              RestartStart \/ RestartSave \/ StopLoadState \/ ReloadCheck \/
              ValidateReloadCandidate \/ ProcessExits \/ TableFlushed \/
              AdminForwarding \/ Crash \/ Reboot
  BY <1>2 DEF BeginStart, BeginStop, BeginReload, BeginRestart, StartLoadState, Prepare,
      WriteSnapshot, SaveInitialState, EnableForwarding, SaveForwarding, StartMihomo,
      SaveMihomo, StartDnsmasq, SaveDnsmasq, LoadNftables, SaveNftables, VerifyNftables,
      CleanUnload, CleanDnsmasq, CleanMihomo, RestoreForwarding, RemoveState,
      RemoveSnapshot, RetainCleanupState, RestartCheck, RestartMark, RestartStop,
      RestartUndo, RestartArchiveLog, RestartStart, RestartSave, StopLoadState,
      ReloadCheck, ValidateReloadCandidate, ProcessExits, TableFlushed, AdminForwarding,
      Crash, Reboot, Begin, SaveAt, editVars, EditsTyped
<1>3. CASE EditPolicy \/ EditProfile \/ EditControlConfig
  BY <1>3 DEF EditPolicy, EditProfile, EditControlConfig, Desired, Profile, EditsTyped
<1> QED
  BY <1>1, <1>2, <1>3
     DEF Next, Requests, OperationSteps, StartSteps, CleanupSteps, RestartSteps, Environment

\* Where the operation is.
LEMMA ControlStep == TypeOK /\ [Next]_vars => ControlTyped'
<1> SUFFICES ASSUME TypeOK, [Next]_vars PROVE ControlTyped'
  OBVIOUS
<1> USE DEF TypeOK
<1>1. CASE UNCHANGED vars
  BY <1>1 DEF vars, ControlTyped
<1>2. CASE Requests
  BY <1>2, BeginTypes, ConfigFacts DEF Requests, BeginStart, BeginStop, BeginReload,
      BeginRestart, Labels, Modes
<1>3. CASE StartSteps
  BY <1>3, ReturnTypes, ContinueTypes, RollbackTypes DEF StartSteps, StartLoadState,
      Prepare, WriteSnapshot, SaveInitialState, EnableForwarding, SaveForwarding,
      StartMihomo, SaveMihomo, StartDnsmasq, SaveDnsmasq, LoadNftables, SaveNftables,
      VerifyNftables, SaveAt, Unreadable, Labels, Responses
<1>4. CASE StopLoadState \/ CleanupSteps
  BY <1>4, ReturnTypes, ContinueTypes DEF StopLoadState, CleanupSteps, CleanUnload,
      CleanDnsmasq, CleanMihomo, RestoreForwarding, RemoveState, RemoveSnapshot,
      RetainCleanupState, Unreadable, CleanupDone, Labels, Modes, Responses,
      ControlTyped
<1>5. CASE ReloadCheck \/ ValidateReloadCandidate \/ RestartSteps
  BY <1>5, ReturnTypes, ContinueTypes DEF ReloadCheck, ValidateReloadCandidate,
      RestartSteps, RestartCheck, RestartMark, RestartStop, RestartUndo,
      RestartArchiveLog, RestartStart, RestartSave, Labels, Responses
<1>6. CASE EditPolicy \/ EditProfile \/ EditControlConfig \/ ProcessExits \/
              TableFlushed \/ AdminForwarding
  BY <1>6 DEF EditPolicy, EditProfile, EditControlConfig, ProcessExits, TableFlushed,
      AdminForwarding, ControlTyped
<1>7. CASE Crash \/ Reboot
  BY <1>7, ReturnTypes DEF Crash, Reboot, Responses
<1> QED
  BY <1>1, <1>2, <1>3, <1>4, <1>5, <1>6, <1>7
     DEF Next, Requests, OperationSteps, StartSteps, CleanupSteps, RestartSteps, Environment

\* The local variables of the operation.
LEMMA LocalsStep == TypeOK /\ [Next]_vars => LocalsTyped'
<1> SUFFICES ASSUME TypeOK, [Next]_vars PROVE LocalsTyped'
  OBVIOUS
<1> USE DEF TypeOK
<1>1. CASE UNCHANGED vars
  BY <1>1 DEF vars, localVars, LocalsTyped
<1>2. CASE Requests
  BY <1>2, BeginTypes, ConfigFacts DEF Requests, BeginStart, BeginStop, BeginReload,
      BeginRestart, Labels, Modes
<1>3. CASE Prepare
  <2> DEFINE c == Prepared(cfg)
  <2>1. c \in Config /\ c.policy \in Policies \cup {NoDigest} /\ c.profile \in Profile
    BY ConfigFacts DEF LocalsTyped
  <2>2. [ZeroState EXCEPT !.before = forward, !.policy = c.policy, !.profile = c.profile] \in State
    BY <2>1 DEF HostTyped, State, ZeroState, PidOrNone
  <2>3. ASSUME Return("error") PROVE LocalsTyped'
    BY <2>3, ReturnTypes DEF Responses
  <2> QED
    BY <1>3, <2>1, <2>2, <2>3 DEF Prepare, LocalsTyped
<1>4. CASE StartMihomo
  <2>1. ASSUME NEW p \in FreePids, st' = [st EXCEPT !.mihomo = p],
               UNCHANGED <<cfg, prev, unload, cleanErr, validated>>
        PROVE  LocalsTyped'
    <3>1. p \in PidOrNone
      BY DEF FreePids, PidOrNone
    <3> QED
      BY <2>1, <3>1, StateFacts DEF LocalsTyped
  <2>2. ASSUME Rollback(FALSE) PROVE LocalsTyped'
    BY <2>2, RollbackTypes
  <2> QED
    BY <1>4, <2>1, <2>2 DEF StartMihomo
<1>5. CASE StartDnsmasq
  <2>1. ASSUME NEW p \in FreePids, st' = [st EXCEPT !.dhcp = p],
               UNCHANGED <<cfg, prev, unload, cleanErr, validated>>
        PROVE  LocalsTyped'
    <3>1. p \in PidOrNone
      BY DEF FreePids, PidOrNone
    <3> QED
      BY <2>1, <3>1, StateFacts DEF LocalsTyped
  <2>2. ASSUME Rollback(FALSE) PROVE LocalsTyped'
    BY <2>2, RollbackTypes
  <2>3. ASSUME UNCHANGED localVars PROVE LocalsTyped'
    BY <2>3 DEF LocalsTyped, localVars
  <2> QED
    BY <1>5, <2>1, <2>2, <2>3 DEF StartDnsmasq
<1>6. CASE StartLoadState \/ WriteSnapshot \/ SaveInitialState \/ EnableForwarding \/
              SaveForwarding \/ SaveMihomo \/ SaveDnsmasq \/ LoadNftables \/
              SaveNftables \/ VerifyNftables
  BY <1>6, ReturnTypes, RollbackTypes, StateFacts DEF StartLoadState, WriteSnapshot,
      SaveInitialState, EnableForwarding, SaveForwarding, SaveMihomo, SaveDnsmasq,
      LoadNftables, SaveNftables, VerifyNftables, SaveAt, Unreadable, localVars,
      LocalsTyped, Responses
<1>7. CASE StopLoadState \/ CleanupSteps
  BY <1>7, ReturnTypes, StateFacts DEF StopLoadState, CleanupSteps, CleanUnload,
      CleanDnsmasq, CleanMihomo, RestoreForwarding, RemoveState, RemoveSnapshot,
      RetainCleanupState, Unreadable, CleanupDone, StopProcess, FilesTyped, localVars,
      LocalsTyped, Responses
<1>8. CASE ReloadCheck \/ ValidateReloadCandidate \/ RestartMark \/ RestartStop \/
              RestartUndo \/ RestartArchiveLog \/ RestartSave
  BY <1>8, ReturnTypes, ConfigFacts DEF ReloadCheck, ValidateReloadCandidate,
      RestartMark, RestartStop, RestartUndo, RestartArchiveLog, RestartSave,
      StopProcess, localVars, LocalsTyped, Responses
<1>9. CASE RestartCheck
  <2>1. NoPid \in PidOrNone /\ disk.mihomo \in PidOrNone /\ [disk EXCEPT !.mihomo = NoPid] \in State
    BY StateFacts DEF FilesTyped, PidOrNone
  <2>2. ASSUME Return("error") PROVE LocalsTyped'
    BY <2>2, ReturnTypes DEF Responses
  <2> QED
    BY <1>9, <2>1, <2>2 DEF RestartCheck, LocalsTyped
<1>10. CASE RestartStart
  <2>1. ASSUME NEW p \in FreePids, st' = [st EXCEPT !.mihomo = p],
               UNCHANGED <<cfg, prev, unload, cleanErr, validated>>
        PROVE  LocalsTyped'
    <3>1. p \in PidOrNone
      BY DEF FreePids, PidOrNone
    <3> QED
      BY <2>1, <3>1, StateFacts DEF LocalsTyped
  <2>2. ASSUME Return("error") PROVE LocalsTyped'
    BY <2>2, ReturnTypes DEF Responses
  <2> QED
    BY <1>10, <2>1, <2>2 DEF RestartStart
<1>11. CASE EditPolicy \/ EditProfile \/ EditControlConfig \/ ProcessExits \/
              TableFlushed \/ AdminForwarding
  BY <1>11 DEF EditPolicy, EditProfile, EditControlConfig, ProcessExits, TableFlushed,
      AdminForwarding, localVars, LocalsTyped
<1>12. CASE Crash \/ Reboot
  BY <1>12, ReturnTypes DEF Crash, Reboot, Responses
<1> QED
  BY <1>1, <1>2, <1>3, <1>4, <1>5, <1>6, <1>7, <1>8, <1>9, <1>10, <1>11, <1>12
     DEF Next, Requests, OperationSteps, StartSteps, CleanupSteps, RestartSteps, Environment

\* The counters of faults and crashes, and the two marks.
LEMMA RisksStep == TypeOK /\ [Next]_vars => RisksTyped'
<1> SUFFICES ASSUME TypeOK, [Next]_vars PROVE RisksTyped'
  OBVIOUS
<1> USE DEF TypeOK
<1>1. CASE UNCHANGED vars
  BY <1>1 DEF vars, riskVars, RisksTyped
<1>2. CASE Requests
  BY <1>2 DEF Requests, BeginStart, BeginStop, BeginReload, BeginRestart, Begin,
      riskVars, RisksTyped
<1>3. CASE StartSteps
  BY <1>3, FaultTypes DEF StartSteps, StartLoadState, Prepare, WriteSnapshot,
      SaveInitialState, EnableForwarding, SaveForwarding, StartMihomo, SaveMihomo,
      StartDnsmasq, SaveDnsmasq, LoadNftables, SaveNftables, VerifyNftables, SaveAt,
      SpawnRefused, FailedSpawn, Unreadable, riskVars, RisksTyped
<1>4. CASE StopLoadState \/ CleanupSteps
  BY <1>4, FaultTypes DEF StopLoadState, CleanupSteps, CleanUnload, CleanDnsmasq,
      CleanMihomo, RestoreForwarding, RemoveState, RemoveSnapshot, RetainCleanupState,
      StopProcess, Unreadable, riskVars, RisksTyped
<1>5. CASE ReloadCheck \/ ValidateReloadCandidate \/ RestartSteps
  BY <1>5, FaultTypes DEF ReloadCheck, ValidateReloadCandidate, RestartSteps,
      RestartCheck, RestartMark, RestartStop, RestartUndo, RestartArchiveLog,
      RestartStart, RestartSave, StopProcess, SpawnRefused, FailedSpawn, riskVars,
      RisksTyped
<1>6. CASE EditPolicy \/ EditProfile \/ EditControlConfig \/ ProcessExits \/
              TableFlushed \/ AdminForwarding
  BY <1>6 DEF EditPolicy, EditProfile, EditControlConfig, ProcessExits, TableFlushed,
      AdminForwarding, riskVars, RisksTyped
<1>7. CASE Crash \/ Reboot
  <2>1. crashes' \in 0..MaxCrashes
    BY <1>7, BoundAssumption DEF Crash, Reboot, RisksTyped
  <2>2. interrupted' \in BOOLEAN
    BY <1>7 DEF Crash, Reboot, RisksTyped
  <2>3. UNCHANGED <<faults, abandoned>>
    BY <1>7 DEF Crash, Reboot
  <2> QED
    BY <2>1, <2>2, <2>3 DEF RisksTyped
<1> QED
  BY <1>1, <1>2, <1>3, <1>4, <1>5, <1>6, <1>7
     DEF Next, Requests, OperationSteps, StartSteps, CleanupSteps, RestartSteps, Environment

\* A configuration reaches WriteSnapshot only through Prepare.
LEMMA SnapshotPreparedStep == TypeOK /\ SnapshotPrepared /\ [Next]_vars => SnapshotPrepared'
<1> SUFFICES ASSUME TypeOK /\ SnapshotPrepared, [Next]_vars PROVE SnapshotPrepared'
  OBVIOUS
<1> USE DEF TypeOK
<1>1. CASE UNCHANGED vars
  BY <1>1 DEF vars, localVars, SnapshotPrepared
<1>2. CASE Requests
  BY <1>2 DEF Requests, BeginStart, BeginStop, BeginReload, BeginRestart, Begin,
      SnapshotPrepared
<1>3. CASE Prepare
  BY <1>3, ConfigFacts DEF Prepare, LocalsTyped, Return, Continue, SnapshotPrepared
<1>4. CASE StartLoadState \/ WriteSnapshot \/ SaveInitialState \/ EnableForwarding \/
              SaveForwarding \/ StartMihomo \/ SaveMihomo \/ StartDnsmasq \/
              SaveDnsmasq \/ LoadNftables \/ SaveNftables \/ VerifyNftables
  BY <1>4 DEF StartLoadState, WriteSnapshot, SaveInitialState, EnableForwarding,
      SaveForwarding, StartMihomo, SaveMihomo, StartDnsmasq, SaveDnsmasq, LoadNftables,
      SaveNftables, VerifyNftables, SaveAt, SpawnRefused, FailedSpawn, Unreadable,
      Rollback, Return, Continue, SnapshotPrepared
<1>5. CASE StopLoadState \/ CleanupSteps
  BY <1>5 DEF StopLoadState, CleanupSteps, CleanUnload, CleanDnsmasq, CleanMihomo,
      RestoreForwarding, RemoveState, RemoveSnapshot, RetainCleanupState, StopProcess,
      Unreadable, CleanupDone, Return, Continue, SnapshotPrepared
<1>6. CASE ReloadCheck \/ ValidateReloadCandidate \/ RestartSteps
  BY <1>6 DEF ReloadCheck, ValidateReloadCandidate, RestartSteps, RestartCheck,
      RestartMark, RestartStop, RestartUndo, RestartArchiveLog, RestartStart,
      RestartSave, StopProcess, Return, Continue, SnapshotPrepared
<1>7. CASE EditPolicy \/ EditProfile \/ EditControlConfig \/ ProcessExits \/
              TableFlushed \/ AdminForwarding
  BY <1>7 DEF EditPolicy, EditProfile, EditControlConfig, ProcessExits, TableFlushed,
      AdminForwarding, localVars, SnapshotPrepared
<1>8. CASE Crash \/ Reboot
  BY <1>8 DEF Crash, Reboot, Return, SnapshotPrepared
<1> QED
  BY <1>1, <1>2, <1>3, <1>4, <1>5, <1>6, <1>7, <1>8
     DEF Next, Requests, OperationSteps, StartSteps, CleanupSteps, RestartSteps, Environment

\* The initial states are typed.
LEMMA InitTypes == Init => TypeOK /\ SnapshotPrepared
<1> SUFFICES ASSUME Init PROVE TypeOK /\ SnapshotPrepared
  OBVIOUS
<1>1. HostTyped /\ EditsTyped
  BY DEF Init, HostTyped, EditsTyped
<1>2. FilesTyped /\ LocalsTyped
  BY StateFacts, ConfigFacts DEF Init, FilesTyped, LocalsTyped, PidOrNone
<1>3. ControlTyped /\ SnapshotPrepared
  BY DEF Init, ControlTyped, SnapshotPrepared, Labels, Modes, Responses
<1>4. 0 \in 0..MaxFaults /\ 0 \in 0..MaxCrashes
  BY BoundAssumption
<1>5. RisksTyped
  BY <1>4 DEF Init, RisksTyped
<1> QED
  BY <1>1, <1>2, <1>3, <1>5 DEF TypeOK

\* Every variable keeps its type, whatever the number of faults and crashes.
THEOREM TypeCorrect == Spec => []TypeOK
<1>1. TypeOK /\ SnapshotPrepared /\ [Next]_vars => TypeOK' /\ SnapshotPrepared'
  BY HostStep, FilesStep, EditsStep, ControlStep, LocalsStep, RisksStep, SnapshotPreparedStep DEF TypeOK
<1> QED
  BY InitTypes, <1>1, PTL DEF Spec

-----------------------------------------------------------------------------
(* Forwarding can always be restored *)

\* Which process runs and which table is loaded says nothing of the recorded value.
LEMMA BeforeFacts ==
    ASSUME NEW s \in State
    PROVE  /\ s.before \in {Blank, "0", "1"} /\ ZeroState.before = Blank
           /\ [s EXCEPT !.nft = TRUE].before = s.before
           /\ [s EXCEPT !.cleanup = TRUE].before = s.before
           /\ \A p : [s EXCEPT !.mihomo = p].before = s.before /\ [s EXCEPT !.dhcp = p].before = s.before
           /\ \A v, q, f : [ZeroState EXCEPT !.before = v, !.policy = q, !.profile = f].before = v
BY DEF State, ZeroState

\* Every call keeps the value of the host within reach.
LEMMA ForwardingStep == TypeOK /\ ForwardingInv /\ [Next]_vars => ForwardingInv'
<1> SUFFICES ASSUME TypeOK /\ ForwardingInv, [Next]_vars PROVE ForwardingInv'
  OBVIOUS
<1> USE DEF TypeOK
<1>0. st \in State /\ disk \in State
  BY DEF LocalsTyped, FilesTyped
<1>1. CASE UNCHANGED vars
  BY <1>1 DEF vars, hostVars, fileVars, localVars, ForwardingInv, Restores, Probing,
      Acquiring, Cleaning, Restarting
<1>2. CASE BeginStart \/ BeginStop \/ BeginReload \/ BeginRestart
  BY <1>2, <1>0, BeforeFacts DEF BeginStart, BeginStop, BeginReload, BeginRestart,
      hostVars, fileVars, ForwardingInv, Restores, Probing, Acquiring, Cleaning,
      Restarting, Begin
<1>3. CASE StartLoadState
  BY <1>3, <1>0, BeforeFacts DEF StartLoadState, Unreadable, Return, Continue, Fault,
      localVars, hostVars, fileVars, ForwardingInv, Restores, Probing, Acquiring,
      Cleaning, Restarting
<1>4. CASE Prepare
  <2>1. pc = "prepare" /\ UNCHANGED <<forward, host, exists, disk>>
    BY <1>4 DEF Prepare, hostVars
  <2>2. pc' = "idle" \/ (pc' = "snapshot" /\ st'.before = forward)
    BY <1>4, <1>0 DEF Prepare, Return, Continue, State, ZeroState
  <2> QED
    BY <2>1, <2>2 DEF ForwardingInv, Restores, Probing, Acquiring, Cleaning, Restarting
<1>5. CASE WriteSnapshot
  BY <1>5, <1>0, BeforeFacts DEF WriteSnapshot, Continue, Return, localVars, hostVars,
      fileVars, ForwardingInv, Restores, Probing, Acquiring, Cleaning, Restarting
<1>6. CASE SaveInitialState
  BY <1>6, <1>0, BeforeFacts DEF SaveInitialState, SaveState, Continue, Return,
      localVars, hostVars, fileVars, ForwardingInv, Restores, Probing, Acquiring,
      Cleaning, Restarting
<1>7. CASE EnableForwarding
  BY <1>7, <1>0, BeforeFacts DEF EnableForwarding, Continue, Rollback, localVars,
      hostVars, fileVars, ForwardingInv, Restores, Probing, Acquiring, Cleaning,
      Restarting
<1>8. CASE SaveForwarding \/ SaveMihomo \/ SaveDnsmasq \/ SaveNftables
  BY <1>8, <1>0, BeforeFacts DEF SaveForwarding, SaveMihomo, SaveDnsmasq, SaveNftables,
      SaveAt, SaveState, Continue, Rollback, localVars, hostVars, fileVars,
      ForwardingInv, Restores, Probing, Acquiring, Cleaning, Restarting
<1>9. CASE StartMihomo
  <2>1. pc = "mihomo" /\ UNCHANGED <<forward, host, exists, disk>>
    BY <1>9 DEF StartMihomo, fileVars
  <2>2. pc' \in {"save3", "c_nft"} /\ st'.before = st.before
    BY <1>9, <1>0 DEF StartMihomo, Continue, Rollback, State
  <2> QED
    BY <2>1, <2>2 DEF ForwardingInv, Restores, Probing, Acquiring, Cleaning, Restarting
<1>10. CASE StartDnsmasq
  <2>1. pc = "dnsmasq" /\ UNCHANGED <<forward, host, exists, disk>>
    BY <1>10 DEF StartDnsmasq, fileVars
  <2>2. pc' \in {"save4", "c_nft"} /\ st'.before = st.before
    BY <1>10, <1>0 DEF StartDnsmasq, Continue, Rollback, localVars, State
  <2> QED
    BY <2>1, <2>2 DEF ForwardingInv, Restores, Probing, Acquiring, Cleaning, Restarting
<1>11. CASE LoadNftables
  BY <1>11, <1>0, BeforeFacts DEF LoadNftables, Continue, Rollback, hostVars, fileVars,
      ForwardingInv, Restores, Probing, Acquiring, Cleaning, Restarting
<1>12. CASE VerifyNftables
  BY <1>12, <1>0, BeforeFacts DEF VerifyNftables, Return, Continue, Rollback, hostVars,
      fileVars, ForwardingInv, Restores, Probing, Acquiring, Cleaning, Restarting
<1>13. CASE CleanUnload
  BY <1>13, <1>0, BeforeFacts DEF CleanUnload, Continue, hostVars, fileVars,
      ForwardingInv, Restores, Probing, Acquiring, Cleaning, Restarting
<1>14. CASE CleanDnsmasq
  BY <1>14, <1>0, BeforeFacts DEF CleanDnsmasq, StopProcess, Continue, hostVars,
      fileVars, ForwardingInv, Restores, Probing, Acquiring, Cleaning, Restarting
<1>15. CASE CleanMihomo
  BY <1>15, <1>0, BeforeFacts DEF CleanMihomo, StopProcess, Continue, hostVars,
      fileVars, ForwardingInv, Restores, Probing, Acquiring, Cleaning, Restarting
<1>16. CASE RestoreForwarding
  <2>1. pc = "c_sysctl" /\ UNCHANGED <<host, exists, disk, st>>
    BY <1>16 DEF RestoreForwarding, fileVars
  <2>2. pc' = "retain" \/ (pc' = "c_state" /\ forward' = IF st.before = Blank THEN forward ELSE st.before)
    BY <1>16 DEF RestoreForwarding, Continue
  <2>3. forward' \in {forward, st.before} /\ (st.before = Blank => forward' = forward)
    BY <1>16 DEF RestoreForwarding
  <2>4. Restores(st) /\ (exists => Restores(disk)) /\ (~exists => forward = host)
    BY <2>1 DEF ForwardingInv, Cleaning
  <2>5. ~exists => forward' = host
    BY <2>3, <2>4 DEF Restores
  <2>6. (exists => Restores(disk)') /\ Restores(st)'
    BY <2>1, <2>3, <2>4 DEF Restores
  <2>7. pc' = "c_state" => forward' = host
    BY <2>2, <2>4 DEF Restores, HostTyped, Blank
  <2> QED
    BY <2>1, <2>2, <2>3, <2>4, <2>5, <2>6, <2>7 DEF ForwardingInv, Restores, Probing, Acquiring, Cleaning, Restarting
<1>17. CASE RemoveState
  BY <1>17, <1>0, BeforeFacts DEF RemoveState, Continue, hostVars, fileVars,
      ForwardingInv, Restores, Probing, Acquiring, Cleaning, Restarting
<1>18. CASE RemoveSnapshot
  BY <1>18, <1>0, BeforeFacts DEF RemoveSnapshot, CleanupDone, Continue, Return,
      localVars, hostVars, fileVars, ForwardingInv, Restores, Probing, Acquiring,
      Cleaning, Restarting
<1>19. CASE RetainCleanupState
  <2>1. pc = "retain" /\ pc' = "idle" /\ UNCHANGED <<forward, host>>
    BY <1>19 DEF RetainCleanupState, Return, hostVars
  <2>2. (exists' = TRUE /\ disk'.before = st.before) \/ UNCHANGED <<exists, disk>>
    BY <1>19, <1>0, BeforeFacts DEF RetainCleanupState
  <2> QED
    BY <2>1, <2>2 DEF ForwardingInv, Restores, Probing, Acquiring, Cleaning, Restarting
<1>20. CASE StopLoadState
  BY <1>20, <1>0, BeforeFacts DEF StopLoadState, Unreadable, Return, Continue, hostVars,
      fileVars, ForwardingInv, Restores, Probing, Acquiring, Cleaning, Restarting
<1>21. CASE ReloadCheck \/ ValidateReloadCandidate
  BY <1>21, <1>0, BeforeFacts DEF ReloadCheck, ValidateReloadCandidate, Continue,
      Return, localVars, hostVars, fileVars, ForwardingInv, Restores, Probing,
      Acquiring, Cleaning, Restarting
<1>22. CASE RestartCheck
  <2>1. pc = "restart_check" /\ UNCHANGED <<forward, host, exists, disk>>
    BY <1>22 DEF RestartCheck, hostVars, fileVars
  <2>2. pc' = "idle" \/ (pc' = "restart_mark" /\ exists /\ st'.before = disk.before)
    BY <1>22, <1>0 DEF RestartCheck, Continue, Return, State
  <2> QED
    BY <2>1, <2>2 DEF ForwardingInv, Restores, Probing, Acquiring, Cleaning, Restarting
<1>23. CASE RestartMark
  BY <1>23, <1>0, BeforeFacts DEF RestartMark, SaveState, Continue, Return, localVars,
      hostVars, fileVars, ForwardingInv, Restores, Probing, Acquiring, Cleaning,
      Restarting
<1>24. CASE RestartStop
  BY <1>24, <1>0, BeforeFacts DEF RestartStop, StopProcess, Continue, hostVars,
      fileVars, ForwardingInv, Restores, Probing, Acquiring, Cleaning, Restarting
<1>25. CASE RestartUndo
  <2>1. pc = "restart_undo" /\ pc' = "idle" /\ UNCHANGED <<forward, host>>
    BY <1>25 DEF RestartUndo, Return, hostVars
  <2>2. (exists' = TRUE /\ disk'.before = st.before) \/ UNCHANGED <<exists, disk>>
    BY <1>25, <1>0 DEF RestartUndo, State
  <2> QED
    BY <2>1, <2>2 DEF ForwardingInv, Restores, Probing, Acquiring, Cleaning, Restarting
<1>26. CASE RestartArchiveLog
  BY <1>26, <1>0, BeforeFacts DEF RestartArchiveLog, Continue, Return, localVars,
      hostVars, fileVars, ForwardingInv, Restores, Probing, Acquiring, Cleaning,
      Restarting
<1>27. CASE RestartStart
  <2>1. pc = "restart_start" /\ UNCHANGED <<forward, host, exists, disk>>
    BY <1>27 DEF RestartStart, fileVars
  <2>2. pc' = "idle" \/ (pc' = "restart_save" /\ st'.before = st.before)
    BY <1>27, <1>0 DEF RestartStart, Continue, Return, State
  <2> QED
    BY <2>1, <2>2 DEF ForwardingInv, Restores, Probing, Acquiring, Cleaning, Restarting
<1>28. CASE RestartSave
  BY <1>28, <1>0, BeforeFacts DEF RestartSave, SaveState, Return, hostVars, fileVars,
      ForwardingInv, Restores, Probing, Acquiring, Cleaning, Restarting
<1>29. CASE EditPolicy \/ EditProfile
  BY <1>29, <1>0, BeforeFacts DEF EditPolicy, EditProfile, localVars, hostVars,
      fileVars, ForwardingInv, Restores, Probing, Acquiring, Cleaning, Restarting
<1>30. CASE EditControlConfig
  BY <1>30, <1>0, BeforeFacts DEF EditControlConfig, localVars, hostVars, fileVars,
      ForwardingInv, Restores, Probing, Acquiring, Cleaning, Restarting
<1>31. CASE ProcessExits \/ TableFlushed
  BY <1>31, <1>0, BeforeFacts DEF ProcessExits, TableFlushed, localVars, hostVars,
      fileVars, ForwardingInv, Restores, Probing, Acquiring, Cleaning, Restarting
<1>32. CASE AdminForwarding
  BY <1>32, <1>0, BeforeFacts DEF AdminForwarding, localVars, hostVars, fileVars,
      ForwardingInv, Restores, Probing, Acquiring, Cleaning, Restarting
<1>33. CASE Crash
  BY <1>33, <1>0, BeforeFacts DEF Crash, Return, hostVars, fileVars, ForwardingInv,
      Restores, Probing, Acquiring, Cleaning, Restarting
<1>34. CASE Reboot
  BY <1>34, <1>0, BeforeFacts DEF Reboot, Return, hostVars, fileVars, ForwardingInv,
      Restores, Probing, Acquiring, Cleaning, Restarting
<1> QED
  BY <1>1, <1>2, <1>3, <1>4, <1>5, <1>6, <1>7, <1>8, <1>9, <1>10, <1>11, <1>12,
      <1>13, <1>14, <1>15, <1>16, <1>17, <1>18, <1>19, <1>20, <1>21, <1>22, <1>23,
      <1>24, <1>25, <1>26, <1>27, <1>28, <1>29, <1>30, <1>31, <1>32, <1>33, <1>34
     DEF Next, Requests, OperationSteps, StartSteps, CleanupSteps, RestartSteps, Environment

\* The recorded value is never lost: the invariant holds in every behaviour.
THEOREM ForwardingInvariant == Spec => []ForwardingInv
<1>1. Init => ForwardingInv
  BY DEF Init, ForwardingInv, Probing, Acquiring, Cleaning, Restarting
<1>2. TypeOK /\ ForwardingInv /\ [Next]_vars => ForwardingInv'
  BY ForwardingStep
<1> QED
  BY TypeCorrect, <1>1, <1>2, PTL DEF Spec

\* ip_forward differs from the value of the host only while state.json records
\* that value, whatever fails, crashes or reboots: a stop can always restore it.
THEOREM ForwardingAlwaysRecorded == Spec => []ForwardingRecorded
<1>1. ForwardingInv => ForwardingRecorded
  BY DEF ForwardingInv, Restores, ForwardingRecorded
<1> QED
  BY ForwardingInvariant, <1>1, PTL


-----------------------------------------------------------------------------
(* What a step does to the set of live processes.  Unless an operation was killed  *)
(* half way or a cleanup could not be recorded, everything the gateway has put on  *)
(* the host is known to the state file, or to the State of the operation under way. *)

LEMMA AliveKept == ASSUME UNCHANGED owner PROVE Alive' = Alive
BY DEF Alive

LEMMA AliveKilled == ASSUME NEW p, owner' = Kill(p) PROVE Alive' = Alive \ {p}
BY DEF Alive, Kill

LEMMA AliveStopped ==
    ASSUME NEW p, StopProcess(p)
    PROVE  /\ Alive' \subseteq Alive
           /\ cleanErr' = TRUE \/ (cleanErr' = cleanErr /\ Alive' = Alive \ {p})
BY AliveKept, AliveKilled DEF StopProcess

LEMMA AliveSpawned ==
    ASSUME TypeOK, NEW p \in FreePids, NEW role \in Managed, owner' = [owner EXCEPT ![p] = role]
    PROVE  Alive' = Alive \cup {p}
BY DEF TypeOK, HostTyped, Alive, FreePids, Managed

\* A start that failed and was recorded as such left the processes as they were.
LEMMA AliveFailed == ASSUME FailedSpawn("mihomo"), ~abandoned' PROVE Alive' = Alive
BY AliveKept DEF FailedSpawn

LEMMA AliveArePids == TypeOK => Alive \subseteq Pids /\ NoPid \notin Alive
BY PidsAssumption DEF Alive, NoPid

\* Nothing is easier to record than nothing.
LEMMA EmptyIsRecorded == ASSUME NEW s, Empty PROVE Records(s) /\ Tracks(s)
BY DEF Empty, Records, Tracks

-----------------------------------------------------------------------------
(* What has to be shown for each group of calls a step may lead to *)

LEMMA ToLooking ==
    ASSUME pc' \in Looking, exists' => Records(disk)', ~exists' => Empty' PROVE ResidueInv'
BY DEF ResidueInv, RestInv, StartInv, CleanInv, RestartInv, Looking, Probing, Acquiring, Cleaning, Restarting

LEMMA ToProbing == ASSUME pc' \in Probing, Empty' PROVE ResidueInv'
BY DEF ResidueInv, RestInv, StartInv, CleanInv, RestartInv, Looking, Probing, Acquiring, Cleaning, Restarting

LEMMA ToAcquiring == ASSUME pc' \in Acquiring, StartInv' PROVE ResidueInv'
BY DEF ResidueInv, RestInv, CleanInv, RestartInv, Looking, Probing, Acquiring, Cleaning, Restarting

LEMMA ToCleaning == ASSUME pc' \in Cleaning, CleanInv' PROVE ResidueInv'
BY DEF ResidueInv, RestInv, StartInv, RestartInv, Looking, Probing, Acquiring, Cleaning, Restarting

LEMMA ToRestarting == ASSUME pc' \in Restarting, RestartInv' PROVE ResidueInv'
BY DEF ResidueInv, RestInv, StartInv, CleanInv, Looking, Probing, Acquiring, Cleaning, Restarting

\* A rollback may begin as soon as the State names the processes and the table,
\* if it is there, is going to be unloaded.
LEMMA ToRollback ==
    ASSUME NEW b \in BOOLEAN, Rollback(b), exists', Tracks(st)', nft' => b PROVE ResidueInv'
<1>1. pc' = "c_nft" /\ unload' = b
  BY DEF Rollback, Continue
<1>2. CleanInv'
  BY <1>1 DEF CleanInv, Cleaning
<1> QED
  BY <1>1, <1>2, ToCleaning DEF Cleaning

-----------------------------------------------------------------------------
(* Start *)

LEMMA StartResidue ==
    ASSUME TypeOK, ForwardingInv, ResidueInv, ~abandoned', StartSteps PROVE ResidueInv'
<1> USE DEF Looking, Probing, Acquiring
<1>1. CASE StartLoadState
  <2>1. pc = "load" /\ UNCHANGED <<owner, nft, exists, disk>>
    BY <1>1 DEF StartLoadState, hostVars, fileVars
  <2>2. IF exists THEN Records(disk) ELSE Empty
    BY <2>1 DEF ResidueInv, RestInv
  <2>3. (exists => Records(disk)') /\ (~exists => Empty')
    BY <2>1, <2>2, AliveKept DEF Records, Tracks, Empty
  <2>4. pc' = "idle" \/ (pc' = "prepare" /\ ~exists)
    BY <1>1 DEF StartLoadState, Unreadable, Return, Continue
  <2> QED
    BY <2>1, <2>3, <2>4, ToLooking, ToProbing
<1>2. CASE Prepare \/ WriteSnapshot
  <2>1. pc \in Probing /\ UNCHANGED <<owner, nft, exists, disk>>
    BY <1>2 DEF Prepare, WriteSnapshot, hostVars
  <2>2. Empty'
    BY <2>1, AliveKept DEF ResidueInv, RestInv, Empty
  <2>3. pc' \in {"idle", "snapshot", "save1"}
    BY <1>2 DEF Prepare, WriteSnapshot, Return, Continue
  <2>4. Records(disk)'
    BY <2>2 DEF Empty, Records, Tracks
  <2> QED
    BY <2>2, <2>3, <2>4, ToLooking, ToProbing
<1>3. CASE SaveInitialState
  <2>1. pc = "save1" /\ UNCHANGED <<owner, nft>>
    BY <1>3 DEF SaveInitialState, hostVars
  <2>2. Empty'
    BY <2>1, AliveKept DEF ResidueInv, RestInv, Empty
  <2>3. (pc' = "enable" /\ exists') \/ pc' = "idle"
    BY <1>3 DEF SaveInitialState, SaveState, Return, Continue
  <2>4. Records(disk)' /\ Tracks(st)'
    BY <2>2 DEF Empty, Records, Tracks
  <2>5. CASE pc' = "enable" /\ exists'
    BY <2>2, <2>4, <2>5, ToAcquiring DEF StartInv, Empty
  <2>6. CASE pc' = "idle"
    BY <2>2, <2>4, <2>6, ToLooking
  <2> QED
    BY <2>3, <2>5, <2>6
<1>4. CASE EnableForwarding
  <2>1. pc = "enable" /\ UNCHANGED <<owner, nft, exists, st>>
    BY <1>4 DEF EnableForwarding, fileVars, localVars, Rollback
  <2>2. Empty' /\ exists' /\ Tracks(st)'
    BY <2>1, AliveKept DEF ResidueInv, StartInv, Empty, Tracks
  <2>3. pc' = "save2" \/ Rollback(FALSE)
    BY <1>4 DEF EnableForwarding, Continue
  <2>4. CASE pc' = "save2"
    BY <2>2, <2>4, ToAcquiring DEF StartInv, Empty
  <2>5. CASE Rollback(FALSE)
    BY <2>2, <2>5, ToRollback DEF Empty
  <2> QED
    BY <2>3, <2>4, <2>5
<1>5. CASE SaveForwarding \/ SaveMihomo \/ SaveDnsmasq
  <2>1. /\ pc \in {"save2", "save3", "save4"} /\ UNCHANGED <<owner, nft, st>>
        /\ exists' = exists \/ exists' = TRUE
    BY <1>5 DEF SaveForwarding, SaveMihomo, SaveDnsmasq, SaveAt, SaveState, hostVars, localVars, Rollback
  <2>2. /\ exists' /\ Tracks(st)' /\ ~nft'
        /\ pc = "save2" => Empty'
        /\ pc = "save3" => Alive' \subseteq {st'.mihomo}
    BY <2>1, AliveKept DEF ResidueInv, StartInv, Empty, Tracks
  <2>3. \/ pc = "save2" /\ pc' = "mihomo"
        \/ pc = "save3" /\ pc' = "dnsmasq"
        \/ pc = "save4" /\ pc' = "load_nft"
        \/ Rollback(FALSE)
    BY <1>5 DEF SaveForwarding, SaveMihomo, SaveDnsmasq, SaveAt, Continue
  <2>4. CASE Rollback(FALSE)
    BY <2>2, <2>4, ToRollback
  <2>5. CASE pc' \in {"mihomo", "dnsmasq", "load_nft"}
    BY <2>2, <2>3, <2>5, ToAcquiring DEF StartInv, Rollback, Continue
  <2> QED
    BY <2>3, <2>4, <2>5
<1>6. CASE StartMihomo
  <2>1. pc = "mihomo" /\ UNCHANGED <<nft, exists, disk>> /\ exists /\ ~nft /\ Alive = {}
    BY <1>6 DEF StartMihomo, fileVars, ResidueInv, StartInv, Empty
  <2>2. ASSUME NEW p \in FreePids, owner' = [owner EXCEPT ![p] = "mihomo"],
               st' = [st EXCEPT !.mihomo = p], pc' = "save3"
        PROVE  ResidueInv'
    <3>1. Alive' \subseteq {st'.mihomo}
      BY <2>1, <2>2, AliveSpawned DEF TypeOK, LocalsTyped, State, Managed
    <3> QED
      BY <2>1, <2>2, <3>1, ToAcquiring DEF StartInv, Tracks
  <2>3. ASSUME FailedSpawn("mihomo"), Rollback(FALSE) PROVE ResidueInv'
    BY <2>1, <2>3, AliveFailed, ToRollback DEF Tracks
  <2> QED
    BY <1>6, <2>2, <2>3 DEF StartMihomo, Continue
<1>7. CASE StartDnsmasq
  <2>1. /\ pc = "dnsmasq" /\ UNCHANGED <<nft, exists, disk>> /\ exists /\ ~nft
        /\ Alive \subseteq {st.mihomo}
    BY <1>7 DEF StartDnsmasq, fileVars, ResidueInv, StartInv
  <2>2. ASSUME NEW p \in FreePids, owner' = [owner EXCEPT ![p] = "dnsmasq"],
               st' = [st EXCEPT !.dhcp = p], pc' = "save4"
        PROVE  ResidueInv'
    <3>1. Alive' = Alive \cup {p}
      BY <2>2, AliveSpawned DEF Managed
    <3>2. Tracks(st)'
      BY <2>1, <2>2, <3>1 DEF Tracks, TypeOK, LocalsTyped, State
    <3> QED
      BY <2>1, <2>2, <3>2, ToAcquiring DEF StartInv
  <2>3. ASSUME UNCHANGED <<owner, st>> PROVE Tracks(st)'
    BY <2>1, <2>3, AliveKept DEF Tracks
  <2>4. ASSUME UNCHANGED <<owner, st>>, pc' = "save4" PROVE ResidueInv'
    BY <2>1, <2>3, <2>4, ToAcquiring DEF StartInv
  <2>5. ASSUME UNCHANGED owner, Rollback(FALSE) PROVE ResidueInv'
    BY <2>1, <2>3, <2>5, ToRollback DEF Rollback
  <2> QED
    BY <1>7, <2>2, <2>4, <2>5 DEF StartDnsmasq, Continue, localVars
<1>8. CASE LoadNftables
  <2>1. pc = "load_nft" /\ UNCHANGED <<owner, exists>> /\ exists /\ Tracks(st)
    BY <1>8 DEF LoadNftables, fileVars, ResidueInv, StartInv
  <2>2. ASSUME st' = [st EXCEPT !.nft = TRUE], pc' = "save5" PROVE ResidueInv'
    <3>1. Tracks(st)' /\ st'.nft
      BY <2>1, <2>2, AliveKept DEF Tracks, TypeOK, LocalsTyped, State
    <3> QED
      BY <2>1, <2>2, <3>1, ToAcquiring DEF StartInv
  <2>3. ASSUME Rollback(TRUE) PROVE ResidueInv'
    BY <2>1, <2>3, AliveKept, ToRollback DEF Tracks, Rollback
  <2> QED
    BY <1>8, <2>2, <2>3 DEF LoadNftables, Continue
<1>9. CASE SaveNftables
  <2>1. pc = "save5" /\ UNCHANGED <<owner, st>> /\ exists /\ Tracks(st)' /\ st'.nft
    BY <1>9, AliveKept DEF SaveNftables, SaveAt, hostVars, localVars, Rollback, ResidueInv, StartInv, Tracks
  <2>2. ASSUME SaveState, pc' = "verify" PROVE ResidueInv'
    BY <2>1, <2>2, ToAcquiring DEF SaveState, StartInv
  <2>3. ASSUME UNCHANGED exists, Rollback(TRUE) PROVE ResidueInv'
    BY <2>1, <2>3, ToRollback
  <2> QED
    BY <1>9, <2>2, <2>3 DEF SaveNftables, SaveAt, Continue
<1>10. CASE VerifyNftables
  <2>1. /\ pc = "verify" /\ UNCHANGED <<owner, nft, exists, disk>>
        /\ exists /\ Tracks(st) /\ st.nft /\ disk = st
    BY <1>10 DEF VerifyNftables, hostVars, fileVars, ResidueInv, StartInv
  <2>2. ASSUME pc' = "idle" PROVE ResidueInv'
    BY <2>1, <2>2, AliveKept, ToLooking DEF Records, Tracks
  <2>3. ASSUME Rollback(TRUE) PROVE ResidueInv'
    BY <2>1, <2>3, AliveKept, ToRollback DEF Tracks, Rollback
  <2> QED
    BY <1>10, <2>2, <2>3 DEF VerifyNftables, Return
<1> QED
  BY <1>1, <1>2, <1>3, <1>4, <1>5, <1>6, <1>7, <1>8, <1>9, <1>10 DEF StartSteps

-----------------------------------------------------------------------------
(* The cleanup *)

LEMMA CleanupResidue ==
    ASSUME TypeOK, ResidueInv, ~abandoned', StopLoadState \/ CleanupSteps PROVE ResidueInv'
<1> USE DEF Cleaning
<1>1. CASE StopLoadState
  <2>1. /\ pc = "stop_load" /\ UNCHANGED <<owner, nft, exists, disk>>
        /\ IF exists THEN Records(disk) ELSE Empty
    BY <1>1 DEF StopLoadState, hostVars, fileVars, ResidueInv, RestInv, Looking
  <2>2. ASSUME exists, st' = disk, unload' = (disk.nft \/ disk.cleanup), pc' = "c_nft" PROVE ResidueInv'
    BY <2>1, <2>2, AliveKept, ToCleaning DEF CleanInv, Records, Tracks
  <2>3. ASSUME ~exists, pc' = "c_state" PROVE ResidueInv'
    BY <2>1, <2>3, AliveKept, ToCleaning DEF CleanInv, Empty, Tracks
  <2>4. ASSUME pc' = "idle" PROVE ResidueInv'
    BY <2>1, <2>4, AliveKept, ToLooking DEF Looking, Records, Tracks, Empty
  <2> QED
    BY <1>1, <2>2, <2>3, <2>4 DEF StopLoadState, Unreadable, Return, Continue
<1>2. CASE CleanUnload
  <2>1. /\ pc = "c_nft" /\ pc' = "c_dhcp" /\ UNCHANGED <<owner, exists, disk, st>>
        /\ (exists \/ Empty) /\ Tracks(st) /\ (nft => unload)
    BY <1>2 DEF CleanUnload, Continue, fileVars, ResidueInv, CleanInv
  <2>2. ~cleanErr' => ~nft'
    BY <1>2, <2>1 DEF CleanUnload
  <2>3. nft' => nft
    BY <1>2 DEF CleanUnload, TypeOK, HostTyped
  <2> QED
    BY <2>1, <2>2, <2>3, AliveKept, ToCleaning DEF CleanInv, Tracks, Empty
<1>3. CASE CleanDnsmasq
  <2>1. /\ pc = "c_dhcp" /\ pc' = "c_mihomo" /\ UNCHANGED <<nft, exists, disk, st>>
        /\ (exists \/ Empty) /\ Alive \subseteq {st.dhcp, st.mihomo} /\ (~cleanErr => ~nft)
    BY <1>3 DEF CleanDnsmasq, Continue, fileVars, ResidueInv, CleanInv, Tracks
  <2>2. /\ Alive' \subseteq Alive
        /\ cleanErr' = TRUE \/ (cleanErr' = cleanErr /\ Alive' = Alive \ {st.dhcp})
    BY <1>3, AliveStopped DEF CleanDnsmasq
  <2>3. Tracks(st)' /\ (exists \/ Empty)' /\ (~cleanErr' => ~nft' /\ Alive' \subseteq {st'.mihomo})
    BY <2>1, <2>2 DEF Tracks, Empty
  <2> QED
    BY <2>1, <2>3, ToCleaning DEF CleanInv
<1>4. CASE CleanMihomo
  <2>1. /\ pc = "c_mihomo" /\ pc' = "c_sysctl" /\ UNCHANGED <<nft, exists, disk, st>>
        /\ (exists \/ Empty) /\ Alive \subseteq {st.dhcp, st.mihomo}
        /\ ~cleanErr => ~nft /\ Alive \subseteq {st.mihomo}
    BY <1>4 DEF CleanMihomo, Continue, fileVars, ResidueInv, CleanInv, Tracks
  <2>2. /\ Alive' \subseteq Alive
        /\ cleanErr' = TRUE \/ (cleanErr' = cleanErr /\ Alive' = Alive \ {st.mihomo})
    BY <1>4, AliveStopped DEF CleanMihomo
  <2>3. Tracks(st)' /\ (exists \/ Empty)' /\ (~cleanErr' => Empty')
    BY <2>1, <2>2 DEF Tracks, Empty
  <2> QED
    BY <2>1, <2>3, ToCleaning DEF CleanInv, Empty
<1>5. CASE RestoreForwarding
  <2>1. /\ pc = "c_sysctl" /\ UNCHANGED <<owner, nft, exists, disk, st>>
        /\ (exists \/ Empty) /\ Tracks(st) /\ (~cleanErr => Empty)
    BY <1>5 DEF RestoreForwarding, fileVars, ResidueInv, CleanInv
  <2>2. pc' = "retain" \/ (pc' = "c_state" /\ ~cleanErr)
    BY <1>5 DEF RestoreForwarding, Continue
  <2> QED
    BY <2>1, <2>2, AliveKept, ToCleaning DEF CleanInv, Empty, Tracks
<1>6. CASE RemoveState
  <2>1. pc = "c_state" /\ pc' = "c_snap" /\ UNCHANGED <<owner, nft>> /\ Empty
    BY <1>6 DEF RemoveState, Continue, hostVars, ResidueInv, CleanInv
  <2>2. Empty' /\ Tracks(st)'
    BY <2>1, AliveKept DEF Empty, Tracks
  <2> QED
    BY <2>1, <2>2, ToCleaning DEF CleanInv
<1>7. CASE RemoveSnapshot
  <2>1. pc = "c_snap" /\ UNCHANGED <<owner, nft>> /\ Empty
    BY <1>7 DEF RemoveSnapshot, hostVars, ResidueInv, CleanInv
  <2>2. Empty' /\ Tracks(st)' /\ Records(disk)'
    BY <2>1, AliveKept DEF Empty, Tracks, Records
  <2>3. pc' \in {"idle", "load", "retain"}
    BY <1>7 DEF RemoveSnapshot, CleanupDone, Continue, Return
  <2> QED
    BY <2>2, <2>3, ToLooking, ToCleaning DEF CleanInv, Looking
<1>8. CASE RetainCleanupState
  <2>1. /\ pc = "retain" /\ pc' = "idle" /\ UNCHANGED <<owner, nft>> /\ Tracks(st)
        /\ exists' = TRUE /\ disk' = [st EXCEPT !.cleanup = TRUE]
    BY <1>8 DEF RetainCleanupState, Return, hostVars, ResidueInv, CleanInv
  <2>2. disk'.dhcp = st.dhcp /\ disk'.mihomo = st.mihomo /\ disk'.cleanup
    BY <2>1 DEF TypeOK, LocalsTyped, State
  <2>3. Records(disk)'
    BY <2>1, <2>2, AliveKept DEF Records, Tracks
  <2> QED
    BY <2>1, <2>3, ToLooking DEF Looking
<1> QED
  BY <1>1, <1>2, <1>3, <1>4, <1>5, <1>6, <1>7, <1>8 DEF CleanupSteps

-----------------------------------------------------------------------------
(* RestartMihomo *)

LEMMA RestartResidue ==
    ASSUME TypeOK, ResidueInv, ~abandoned', RestartSteps PROVE ResidueInv'
<1> USE DEF Restarting
<1>1. CASE RestartCheck
  <2>1. /\ pc = "restart_check" /\ UNCHANGED <<owner, nft, exists, disk>>
        /\ IF exists THEN Records(disk) ELSE Empty
    BY <1>1 DEF RestartCheck, hostVars, fileVars, ResidueInv, RestInv, Looking
  <2>2. ASSUME exists, prev' = disk.mihomo, st' = [disk EXCEPT !.mihomo = NoPid], pc' = "restart_mark"
        PROVE  ResidueInv'
    <3>1. st'.dhcp = disk.dhcp /\ st'.nft = disk.nft /\ st'.cleanup = disk.cleanup
      BY <2>2 DEF TypeOK, FilesTyped, State
    <3> QED
      BY <2>1, <2>2, <3>1, AliveKept, ToRestarting DEF RestartInv, Records, Tracks
  <2>3. ASSUME pc' = "idle" PROVE ResidueInv'
    BY <2>1, <2>3, AliveKept, ToLooking DEF Looking, Records, Tracks, Empty
  <2> QED
    BY <1>1, <2>2, <2>3 DEF RestartCheck, Return, Continue
<1>2. CASE RestartMark
  <2>1. /\ pc = "restart_mark" /\ UNCHANGED <<owner, nft>> /\ exists
        /\ Alive \subseteq {disk.dhcp, disk.mihomo} /\ prev = disk.mihomo /\ st.dhcp = disk.dhcp
        /\ st.nft = disk.nft /\ st.cleanup = disk.cleanup /\ (nft => disk.nft \/ disk.cleanup)
    BY <1>2 DEF RestartMark, hostVars, ResidueInv, RestartInv, Tracks
  <2>2. ASSUME SaveState, UNCHANGED <<st, prev>>, pc' = "restart_stop" PROVE ResidueInv'
    BY <2>1, <2>2, AliveKept, ToRestarting DEF RestartInv, SaveState
  <2>3. ASSUME UNCHANGED <<exists, disk>>, pc' = "idle" PROVE ResidueInv'
    BY <2>1, <2>3, AliveKept, ToLooking DEF Looking, Records, Tracks
  <2> QED
    BY <1>2, <2>2, <2>3 DEF RestartMark, Return, Continue, localVars
<1>3. CASE RestartStop
  <2>1. /\ pc = "restart_stop" /\ UNCHANGED <<nft, exists, disk, st, prev>> /\ exists
        /\ st.dhcp = disk.dhcp /\ st.nft = disk.nft /\ st.cleanup = disk.cleanup
        /\ (nft => disk.nft \/ disk.cleanup) /\ Alive \subseteq {st.dhcp, prev}
    BY <1>3 DEF RestartStop, fileVars, ResidueInv, RestartInv
  <2>2. /\ Alive' \subseteq Alive
        /\ cleanErr' = TRUE \/ Alive' = Alive \ {prev}
    BY <1>3, AliveStopped DEF RestartStop
  <2>3. pc' = IF cleanErr' THEN "restart_undo" ELSE "restart_archive"
    BY <1>3 DEF RestartStop, Continue
  <2>4. Alive' \subseteq {st'.dhcp, prev'} /\ (~cleanErr' => Alive' \subseteq {st'.dhcp})
    BY <2>1, <2>2
  <2> QED
    BY <2>1, <2>3, <2>4, ToRestarting DEF RestartInv
<1>4. CASE RestartUndo
  <2>1. /\ pc' = "idle" /\ UNCHANGED <<owner, nft>> /\ exists'
        /\ disk' = IF Running(prev) THEN [st EXCEPT !.mihomo = prev] ELSE st
        /\ (nft => st.nft \/ st.cleanup) /\ Alive \subseteq {st.dhcp, prev}
    BY <1>4 DEF RestartUndo, Return, hostVars, ResidueInv, RestartInv
  <2>2. CASE Running(prev)
    <3>1. disk'.dhcp = st.dhcp /\ disk'.mihomo = prev /\ disk'.nft = st.nft /\ disk'.cleanup = st.cleanup
      BY <2>1, <2>2 DEF TypeOK, LocalsTyped, State
    <3> QED
      BY <2>1, <3>1, AliveKept, ToLooking DEF Looking, Records, Tracks
  <2>3. CASE ~Running(prev)
    <3>1. prev \notin Alive
      BY <2>3 DEF Running, Alive
    <3> QED
      BY <2>1, <2>3, <3>1, AliveKept, ToLooking DEF Looking, Records, Tracks
  <2> QED
    BY <2>2, <2>3
<1>5. CASE RestartArchiveLog
  <2>1. /\ pc = "restart_archive" /\ UNCHANGED <<owner, nft, exists, disk>> /\ exists
        /\ st.dhcp = disk.dhcp /\ st.nft = disk.nft /\ st.cleanup = disk.cleanup
        /\ (nft => disk.nft \/ disk.cleanup) /\ Alive \subseteq {st.dhcp}
    BY <1>5 DEF RestartArchiveLog, hostVars, fileVars, ResidueInv, RestartInv
  <2>2. ASSUME UNCHANGED st, pc' = "restart_start" PROVE ResidueInv'
    BY <2>1, <2>2, AliveKept, ToRestarting DEF RestartInv
  <2>3. ASSUME pc' = "idle" PROVE ResidueInv'
    BY <2>1, <2>3, AliveKept, ToLooking DEF Looking, Records, Tracks
  <2> QED
    BY <1>5, <2>2, <2>3 DEF RestartArchiveLog, Return, Continue, localVars
<1>6. CASE RestartStart
  <2>1. /\ pc = "restart_start" /\ UNCHANGED <<nft, exists, disk>> /\ exists
        /\ st.dhcp = disk.dhcp /\ st.nft = disk.nft /\ st.cleanup = disk.cleanup
        /\ (nft => disk.nft \/ disk.cleanup) /\ Alive \subseteq {st.dhcp}
    BY <1>6 DEF RestartStart, fileVars, ResidueInv, RestartInv
  <2>2. ASSUME NEW p \in FreePids, owner' = [owner EXCEPT ![p] = "mihomo"],
               st' = [st EXCEPT !.mihomo = p], pc' = "restart_save"
        PROVE  ResidueInv'
    <3>1. Alive' = Alive \cup {p}
      BY <2>2, AliveSpawned DEF Managed
    <3>2. /\ st'.dhcp = st.dhcp /\ st'.mihomo = p
          /\ st'.nft = st.nft /\ st'.cleanup = st.cleanup
      BY <2>2 DEF TypeOK, LocalsTyped, State
    <3> QED
      BY <2>1, <2>2, <3>1, <3>2, ToRestarting DEF RestartInv, Tracks
  <2>3. ASSUME FailedSpawn("mihomo"), pc' = "idle" PROVE ResidueInv'
    BY <2>1, <2>3, AliveFailed, ToLooking DEF Looking, Records, Tracks
  <2> QED
    BY <1>6, <2>2, <2>3 DEF RestartStart, Return, Continue
<1>7. CASE RestartSave
  <2>1. /\ pc = "restart_save" /\ pc' = "idle" /\ UNCHANGED nft /\ exists
        /\ st.dhcp = disk.dhcp /\ st.nft = disk.nft /\ st.cleanup = disk.cleanup
        /\ (nft => disk.nft \/ disk.cleanup) /\ Alive \subseteq {st.dhcp, st.mihomo}
    BY <1>7 DEF RestartSave, Return, ResidueInv, RestartInv, Tracks
  <2>2. ASSUME SaveState, UNCHANGED owner PROVE ResidueInv'
    BY <2>1, <2>2, AliveKept, ToLooking DEF SaveState, Looking, Records, Tracks
  <2>3. ASSUME owner' = Kill(st.mihomo), UNCHANGED <<exists, disk>> PROVE ResidueInv'
    BY <2>1, <2>3, AliveKilled, ToLooking DEF Looking, Records, Tracks
  <2> QED
    BY <1>7, <2>2, <2>3 DEF RestartSave
<1> QED
  BY <1>1, <1>2, <1>3, <1>4, <1>5, <1>6, <1>7 DEF RestartSteps

-----------------------------------------------------------------------------
(* Requests, the checks of a reload, and the environment *)

\* Steps that stay between operations, or only look.
LEMMA LookingResidue ==
    ASSUME ResidueInv, Requests \/ ReloadCheck \/ ValidateReloadCandidate PROVE ResidueInv'
<1>1. pc \in Looking /\ pc' \in Looking /\ UNCHANGED <<owner, nft, exists, disk>>
  <2>1. CASE Requests
    BY <2>1 DEF Requests, BeginStart, BeginStop, BeginReload, BeginRestart, Begin, Looking, hostVars, fileVars
  <2>2. CASE ReloadCheck \/ ValidateReloadCandidate
    BY <2>2 DEF ReloadCheck, ValidateReloadCandidate, Return, Continue, Looking, hostVars, fileVars
  <2> QED
    BY <2>1, <2>2
<1>2. IF exists THEN Records(disk) ELSE Empty
  BY <1>1 DEF ResidueInv, RestInv
<1> QED
  BY <1>1, <1>2, AliveKept, ToLooking DEF Records, Tracks, Empty

\* Processes that die and a table that vanishes leave less to record.
LEMMA LossResidue ==
    ASSUME ResidueInv, Alive' \subseteq Alive, nft' => nft, UNCHANGED <<fileVars, pc, localVars>>
    PROVE  ResidueInv'
<1> USE DEF fileVars, localVars, Records, Tracks, Empty
<1>1. RestInv'
  BY DEF ResidueInv, RestInv
<1>2. StartInv'
  BY DEF ResidueInv, StartInv
<1>3. CleanInv'
  BY DEF ResidueInv, CleanInv
<1>4. RestartInv'
  BY DEF ResidueInv, RestartInv
<1> QED
  BY <1>1, <1>2, <1>3, <1>4 DEF ResidueInv

LEMMA EnvironmentResidue == ASSUME ResidueInv, Environment, ~interrupted' PROVE ResidueInv'
<1>1. CASE EditPolicy \/ EditProfile \/ EditControlConfig \/ AdminForwarding
  <2>1. UNCHANGED <<owner, nft, fileVars, pc, localVars>>
    BY <1>1 DEF EditPolicy, EditProfile, EditControlConfig, AdminForwarding, hostVars
  <2> QED
    BY <2>1, AliveKept, LossResidue
<1>2. CASE ProcessExits
  <2>1. PICK p \in Pids : owner' = Kill(p)
    BY <1>2 DEF ProcessExits
  <2>2. Alive' \subseteq Alive
    BY <2>1, AliveKilled
  <2> QED
    BY <1>2, <2>2, LossResidue DEF ProcessExits
<1>3. CASE TableFlushed
  BY <1>3, AliveKept, LossResidue DEF TableFlushed
<1>4. CASE Crash
  <2>1. pc = "idle" /\ pc' = "idle" /\ UNCHANGED <<nft, exists, disk>>
    BY <1>4 DEF Crash, Return, fileVars
  <2>2. Alive' \subseteq Alive
    BY <1>4 DEF Crash, Alive
  <2>3. IF exists THEN Records(disk) ELSE Empty
    BY <2>1 DEF ResidueInv, RestInv, Looking
  <2> QED
    BY <2>1, <2>2, <2>3, ToLooking DEF Looking, Records, Tracks, Empty
<1>5. CASE Reboot
  <2>1. pc' = "idle" /\ Empty'
    BY <1>5 DEF Reboot, Return, Empty, Alive
  <2>2. Records(disk)'
    BY <2>1 DEF Empty, Records, Tracks
  <2> QED
    BY <2>1, <2>2, ToLooking DEF Looking
<1> QED
  BY <1>1, <1>2, <1>3, <1>4, <1>5 DEF Environment

\* Once an operation was killed half way, or a cleanup got lost, it stays so.
LEMMA RisksStay == TypeOK /\ [Next]_vars /\ Sound' => Sound
<1> SUFFICES ASSUME TypeOK, [Next]_vars, Sound' PROVE Sound
  OBVIOUS
<1>1. CASE UNCHANGED vars
  BY <1>1 DEF vars, riskVars, Sound
<1>2. CASE Requests
  BY <1>2 DEF Requests, BeginStart, BeginStop, BeginReload, BeginRestart, Begin, riskVars, Sound
<1>3. CASE StartMihomo \/ RetainCleanupState
  <2>1. interrupted' = interrupted /\ (abandoned' = abandoned \/ abandoned' = TRUE)
    BY <1>3 DEF StartMihomo, FailedSpawn, RetainCleanupState
  <2> QED
    BY <2>1 DEF Sound
<1>4. CASE (StartSteps \/ StopLoadState \/ CleanupSteps) /\ ~StartMihomo /\ ~RetainCleanupState
  <2>1. UNCHANGED riskVars
    BY <1>4 DEF StartSteps, StartLoadState, Prepare, WriteSnapshot, SaveInitialState, EnableForwarding,
        SaveForwarding, SaveMihomo, StartDnsmasq, SaveDnsmasq, LoadNftables, SaveNftables,
        VerifyNftables, SaveAt, StopLoadState, CleanupSteps, CleanUnload, CleanDnsmasq, CleanMihomo,
        RestoreForwarding, RemoveState, RemoveSnapshot
  <2> QED
    BY <2>1 DEF riskVars, Sound
<1>5. CASE ReloadCheck \/ ValidateReloadCandidate \/ RestartSteps
  BY <1>5 DEF ReloadCheck, ValidateReloadCandidate, RestartSteps, RestartCheck, RestartMark,
      RestartStop, RestartUndo, RestartArchiveLog, RestartStart, RestartSave, FailedSpawn, riskVars, Sound
<1>6. CASE EditPolicy \/ EditProfile \/ EditControlConfig \/ ProcessExits \/ TableFlushed \/ AdminForwarding
  <2>1. UNCHANGED riskVars
    BY <1>6 DEF EditPolicy, EditProfile, EditControlConfig, ProcessExits, TableFlushed, AdminForwarding
  <2> QED
    BY <2>1 DEF riskVars, Sound
<1>7. CASE Crash \/ Reboot
  <2>1. abandoned' = abandoned /\ interrupted' = (interrupted \/ pc # "idle")
    BY <1>7 DEF Crash, Reboot
  <2> QED
    BY <2>1 DEF Sound
<1> QED
  BY <1>1, <1>2, <1>3, <1>4, <1>5, <1>6, <1>7 DEF Next, OperationSteps, StartSteps, CleanupSteps, Environment

-----------------------------------------------------------------------------
(* The results *)

LEMMA ResidueStep == TypeOK /\ ForwardingInv /\ SoundResidue /\ [Next]_vars => SoundResidue'
<1> SUFFICES ASSUME TypeOK, ForwardingInv, SoundResidue, [Next]_vars, Sound' PROVE ResidueInv'
  BY DEF SoundResidue
<1>1. ResidueInv /\ ~abandoned' /\ ~interrupted'
  BY RisksStay DEF SoundResidue, Sound
<1>2. CASE UNCHANGED vars
  <2>1. UNCHANGED <<owner, nft, fileVars, pc, localVars>>
    BY <1>2 DEF vars, hostVars
  <2> QED
    BY <1>1, <2>1, AliveKept, LossResidue
<1> QED
  BY <1>1, <1>2, StartResidue, CleanupResidue, RestartResidue, LookingResidue, EnvironmentResidue
     DEF Next, OperationSteps

\* Unless an operation was killed half way or a cleanup could not be recorded,
\* the State of the operation in progress or state.json names whatever is there.
THEOREM ResidueAlwaysKnown == Spec => []SoundResidue
<1>1. Init => SoundResidue
  BY DEF Init, SoundResidue, ResidueInv, RestInv, StartInv, CleanInv, RestartInv, Empty, Alive,
         Looking, Probing, Acquiring, Cleaning, Restarting
<1>2. TypeOK /\ ForwardingInv /\ SoundResidue /\ [Next]_vars => SoundResidue'
  BY ResidueStep
<1> QED
  BY TypeCorrect, ForwardingInvariant, <1>1, <1>2, PTL DEF Spec

\* What is reported as stopped has left no table, no process and no changed
\* ip_forward on the host.
THEOREM StoppedLeavesNoResidue == Spec => []NoResidueWhenStopped
<1>1. TypeOK /\ ForwardingInv /\ SoundResidue => NoResidueWhenStopped
  <2> SUFFICES ASSUME TypeOK, ForwardingInv, ResidueInv, ~exists PROVE Clean
    BY DEF SoundResidue, NoResidueWhenStopped
  <2>1. forward = host
    BY DEF ForwardingInv
  <2>2. pc \in Looking \cup Probing \cup Cleaning
    <3>1. pc \notin Acquiring
      BY DEF ResidueInv, StartInv
    <3>2. pc \notin Restarting
      BY DEF ResidueInv, RestartInv
    <3> QED
      BY <3>1, <3>2 DEF TypeOK, ControlTyped, Labels, Looking, Probing, Acquiring, Cleaning, Restarting
  <2>3. Empty
    BY <2>2 DEF ResidueInv, RestInv, CleanInv, Cleaning
  <2> QED
    BY <2>1, <2>3 DEF Empty, Alive, Clean
<1> QED
  BY TypeCorrect, ForwardingInvariant, ResidueAlwaysKnown, <1>1, PTL

\* Between operations a stop finds every process by its pid, and the table.
THEOREM RestIsRecorded == Spec => []EverythingRecorded
<1>1. SoundResidue => EverythingRecorded
  BY DEF SoundResidue, EverythingRecorded, ResidueInv, RestInv, Looking, Records, Tracks, Alive
<1> QED
  BY ResidueAlwaysKnown, <1>1, PTL

-----------------------------------------------------------------------------
(***************************************************************************)
(* What state.json says is applied is what mihomo.yaml was rendered from and*)
(* what the policy snapshot next to it holds, and a start that reports      *)
(* success has recorded all it took.                                        *)
(***************************************************************************)

\* The rendered configuration is the one that s names, unless a reboot took it.
Rendering(s) == rendered # NoConfig => rendered.policy = s.policy /\ rendered.profile = s.profile

\* The snapshot is the policy that s names, if it names one.
Snapshotted(s) == s.policy # NoDigest => snapshot = s.policy

\* The calls at which the State in memory is going to be what is applied.
Applying == {"snapshot", "save1"} \cup Acquiring \cup Restarting

RenderedInv ==
    /\ exists /\ ~disk.cleanup => Rendering(disk)
    /\ pc \in Applying /\ ~st.cleanup => Rendering(st)

\* While a snapshot is about to be removed its state has gone, or the cleanup has failed.
SnapshotInv ==
    /\ pc \in Looking \cup Restarting /\ exists /\ ~disk.cleanup => Snapshotted(disk)
    /\ pc = "snapshot" => st.policy = cfg.policy
    /\ pc \in Applying \ {"snapshot"} /\ ~st.cleanup => Snapshotted(st)
    /\ pc = "verify" => disk = st
    /\ pc = "c_snap" /\ ~cleanErr => ~exists

SoundSnapshot == Sound => SnapshotInv

-----------------------------------------------------------------------------
(* What an operation changes in a State does not change what it names *)

\* Both name the same policy and profile, and agree on whether a cleanup is due.
Same(s, t) == s.policy = t.policy /\ s.profile = t.profile /\ s.cleanup = t.cleanup

LEMMA PrepareMoves ==
    ASSUME Prepare
    PROVE  /\ pc = "prepare" /\ UNCHANGED <<exists, disk, snapshot>>
           /\ \/ pc' = "idle"
              \/ /\ pc' = "snapshot" /\ st'.policy = cfg'.policy
                 /\ st'.policy = rendered'.policy /\ st'.profile = rendered'.profile
<1> DEFINE c == Prepared(cfg)
<1>1. CASE /\ rendered' = c /\ cfg' = c
           /\ st' = [ZeroState EXCEPT !.before = forward, !.policy = c.policy, !.profile = c.profile]
           /\ Continue("snapshot")
  <2>1. st'.policy = c.policy /\ st'.profile = c.profile
    BY <1>1 DEF ZeroState
  <2> QED
    BY <1>1, <2>1 DEF Prepare, Continue
<1> QED
  BY <1>1 DEF Prepare, Return

LEMMA AcquireMoves ==
    ASSUME st \in State, StartMihomo \/ StartDnsmasq \/ LoadNftables
    PROVE  /\ pc \in {"mihomo", "dnsmasq", "load_nft"} /\ pc' \in {"save3", "save4", "save5", "c_nft"}
           /\ UNCHANGED fileVars /\ Same(st', st)
<1>1. CASE StartMihomo
  BY <1>1 DEF StartMihomo, Continue, Rollback, Same, State
<1>2. CASE StartDnsmasq
  BY <1>2 DEF StartDnsmasq, Continue, Rollback, localVars, Same, State
<1>3. CASE LoadNftables
  BY <1>3 DEF LoadNftables, Continue, Rollback, Same, State
<1> QED
  BY <1>1, <1>2, <1>3

LEMMA CleanMoves ==
    ASSUME CleanUnload \/ CleanDnsmasq \/ CleanMihomo \/ RestoreForwarding
    PROVE  UNCHANGED fileVars /\ pc' \in {"c_dhcp", "c_mihomo", "c_sysctl", "c_state", "retain"}
BY DEF CleanUnload, CleanDnsmasq, CleanMihomo, RestoreForwarding, Continue

LEMMA RetainMoves ==
    ASSUME st \in State, RetainCleanupState
    PROVE  /\ pc = "retain" /\ pc' = "idle" /\ UNCHANGED <<snapshot, rendered>>
           /\ disk'.cleanup \/ (UNCHANGED <<exists, disk>> /\ abandoned')
BY DEF RetainCleanupState, Return, State

LEMMA RestartMoves ==
    ASSUME st \in State, disk \in State
    PROVE  /\ RestartCheck => /\ UNCHANGED fileVars /\ pc = "restart_check"
                              /\ pc' = "idle" \/ (pc' = "restart_mark" /\ exists /\ Same(st', disk))
           /\ RestartUndo => /\ UNCHANGED <<snapshot, rendered>> /\ pc = "restart_undo" /\ pc' = "idle"
                             /\ Same(disk', st) \/ UNCHANGED <<exists, disk>>
           /\ RestartStart => /\ UNCHANGED fileVars /\ pc = "restart_start"
                              /\ pc' = "idle" \/ (pc' = "restart_save" /\ Same(st', st))
<1>1. ASSUME RestartCheck
      PROVE  /\ UNCHANGED fileVars /\ pc = "restart_check"
             /\ pc' = "idle" \/ (pc' = "restart_mark" /\ exists /\ Same(st', disk))
  BY <1>1 DEF RestartCheck, Return, Continue, Same, State
<1>2. ASSUME RestartUndo
      PROVE  /\ UNCHANGED <<snapshot, rendered>> /\ pc = "restart_undo" /\ pc' = "idle"
             /\ Same(disk', st) \/ UNCHANGED <<exists, disk>>
  BY <1>2 DEF RestartUndo, Return, Same, State
<1>3. ASSUME RestartStart
      PROVE  /\ UNCHANGED fileVars /\ pc = "restart_start"
             /\ pc' = "idle" \/ (pc' = "restart_save" /\ Same(st', st))
  BY <1>3 DEF RestartStart, Return, Continue, Same, State
<1> QED
  BY <1>1, <1>2, <1>3

LEMMA EditMoves ==
    ASSUME EditPolicy \/ EditProfile \/ EditControlConfig \/ ProcessExits \/ TableFlushed \/ AdminForwarding
    PROVE  UNCHANGED <<fileVars, pc, localVars>>
BY DEF EditPolicy, EditProfile, EditControlConfig, ProcessExits, TableFlushed, AdminForwarding

-----------------------------------------------------------------------------
(* What has been rendered *)

LEMMA RenderedStep == TypeOK /\ ForwardingInv /\ RenderedInv /\ [Next]_vars => RenderedInv'
<1> SUFFICES ASSUME TypeOK, ForwardingInv, RenderedInv, [Next]_vars PROVE RenderedInv'
  OBVIOUS
<1>0. st \in State /\ disk \in State /\ (pc \in Probing => ~exists) /\ pc \in Labels
  BY DEF TypeOK, LocalsTyped, FilesTyped, ControlTyped, ForwardingInv
<1>1. CASE BeginStart \/ BeginStop \/ BeginReload \/ BeginRestart
  BY <1>1, <1>0
  DEF BeginStart, BeginStop, BeginReload, BeginRestart, Begin,
      fileVars, localVars, riskVars, RenderedInv, Rendering, Applying, Probing, Acquiring, Cleaning, Restarting
<1>2. CASE StartLoadState
  BY <1>2, <1>0
  DEF StartLoadState, Unreadable, Return, Continue,
      fileVars, localVars, riskVars, RenderedInv, Rendering, Applying, Probing, Acquiring, Cleaning, Restarting
<1>3. CASE Prepare
  BY <1>3, <1>0, PrepareMoves DEF fileVars, localVars, Same, RenderedInv, Rendering, Applying, Probing, Acquiring, Cleaning, Restarting
<1>4. CASE WriteSnapshot
  BY <1>4, <1>0
  DEF WriteSnapshot, Return, Continue,
      fileVars, localVars, riskVars, RenderedInv, Rendering, Applying, Probing, Acquiring, Cleaning, Restarting
<1>5. CASE SaveInitialState
  BY <1>5, <1>0
  DEF SaveInitialState, SaveState, Return, Continue,
      fileVars, localVars, riskVars, RenderedInv, Rendering, Applying, Probing, Acquiring, Cleaning, Restarting
<1>6. CASE EnableForwarding
  BY <1>6, <1>0
  DEF EnableForwarding, Rollback, Continue,
      fileVars, localVars, riskVars, RenderedInv, Rendering, Applying, Probing, Acquiring, Cleaning, Restarting
<1>7. CASE SaveForwarding \/ SaveMihomo \/ SaveDnsmasq \/ SaveNftables
  BY <1>7, <1>0
  DEF SaveForwarding, SaveMihomo, SaveDnsmasq, SaveNftables, SaveAt, SaveState, Rollback, Continue,
      fileVars, localVars, riskVars, RenderedInv, Rendering, Applying, Probing, Acquiring, Cleaning, Restarting
<1>8. CASE StartMihomo
  BY <1>8, <1>0, AcquireMoves DEF fileVars, localVars, Same, RenderedInv, Rendering, Applying, Probing, Acquiring, Cleaning, Restarting
<1>9. CASE StartDnsmasq
  BY <1>9, <1>0, AcquireMoves DEF fileVars, localVars, Same, RenderedInv, Rendering, Applying, Probing, Acquiring, Cleaning, Restarting
<1>10. CASE LoadNftables
  BY <1>10, <1>0, AcquireMoves DEF fileVars, localVars, Same, RenderedInv, Rendering, Applying, Probing, Acquiring, Cleaning, Restarting
<1>11. CASE VerifyNftables
  BY <1>11, <1>0
  DEF VerifyNftables, Return, Rollback, Continue,
      fileVars, localVars, riskVars, RenderedInv, Rendering, Applying, Probing, Acquiring, Cleaning, Restarting
<1>12. CASE CleanUnload \/ CleanDnsmasq \/ CleanMihomo \/ RestoreForwarding
  BY <1>12, <1>0, CleanMoves DEF fileVars, localVars, Same, RenderedInv, Rendering, Applying, Probing, Acquiring, Cleaning, Restarting
<1>13. CASE RemoveState
  BY <1>13, <1>0
  DEF RemoveState, Continue,
      fileVars, localVars, riskVars, RenderedInv, Rendering, Applying, Probing, Acquiring, Cleaning, Restarting
<1>14. CASE RemoveSnapshot
  BY <1>14, <1>0
  DEF RemoveSnapshot, CleanupDone, Return, Continue,
      fileVars, localVars, riskVars, RenderedInv, Rendering, Applying, Probing, Acquiring, Cleaning, Restarting
<1>15. CASE RetainCleanupState
  BY <1>15, <1>0, RetainMoves DEF fileVars, localVars, Same, RenderedInv, Rendering, Applying, Probing, Acquiring, Cleaning, Restarting
<1>16. CASE StopLoadState
  BY <1>16, <1>0
  DEF StopLoadState, Unreadable, Return, Continue,
      fileVars, localVars, riskVars, RenderedInv, Rendering, Applying, Probing, Acquiring, Cleaning, Restarting
<1>17. CASE ReloadCheck \/ ValidateReloadCandidate
  BY <1>17, <1>0
  DEF ReloadCheck, ValidateReloadCandidate, Return, Continue,
      fileVars, localVars, riskVars, RenderedInv, Rendering, Applying, Probing, Acquiring, Cleaning, Restarting
<1>18. CASE RestartCheck
  BY <1>18, <1>0, RestartMoves DEF fileVars, localVars, Same, RenderedInv, Rendering, Applying, Probing, Acquiring, Cleaning, Restarting
<1>19. CASE RestartMark
  BY <1>19, <1>0
  DEF RestartMark, SaveState, Return, Continue,
      fileVars, localVars, riskVars, RenderedInv, Rendering, Applying, Probing, Acquiring, Cleaning, Restarting
<1>20. CASE RestartStop \/ RestartArchiveLog
  BY <1>20, <1>0
  DEF RestartStop, RestartArchiveLog, Return, Continue,
      fileVars, localVars, riskVars, RenderedInv, Rendering, Applying, Probing, Acquiring, Cleaning, Restarting
<1>21. CASE RestartUndo
  BY <1>21, <1>0, RestartMoves DEF fileVars, localVars, Same, RenderedInv, Rendering, Applying, Probing, Acquiring, Cleaning, Restarting
<1>22. CASE RestartStart
  BY <1>22, <1>0, RestartMoves DEF fileVars, localVars, Same, RenderedInv, Rendering, Applying, Probing, Acquiring, Cleaning, Restarting
<1>23. CASE RestartSave
  BY <1>23, <1>0
  DEF RestartSave, SaveState, Return,
      fileVars, localVars, riskVars, RenderedInv, Rendering, Applying, Probing, Acquiring, Cleaning, Restarting
<1>24. CASE EditPolicy \/ EditProfile \/ EditControlConfig \/ ProcessExits \/ TableFlushed \/ AdminForwarding
  BY <1>24, <1>0, EditMoves DEF fileVars, localVars, Same, RenderedInv, Rendering, Applying, Probing, Acquiring, Cleaning, Restarting
<1>25. CASE Crash
  BY <1>25, <1>0
  DEF Crash, Return,
      fileVars, localVars, riskVars, RenderedInv, Rendering, Applying, Probing, Acquiring, Cleaning, Restarting
<1>26. CASE Reboot
  BY <1>26, <1>0
  DEF Reboot, Return,
      fileVars, localVars, riskVars, RenderedInv, Rendering, Applying, Probing, Acquiring, Cleaning, Restarting
<1>27. CASE UNCHANGED vars
  BY <1>27, <1>0
  DEF vars,
      fileVars, localVars, riskVars, RenderedInv, Rendering, Applying, Probing, Acquiring, Cleaning, Restarting
<1> QED
  BY <1>1, <1>2, <1>3, <1>4, <1>5, <1>6, <1>7, <1>8, <1>9, <1>10, <1>11, <1>12, <1>13, <1>14, <1>15, <1>16, <1>17, <1>18, <1>19, <1>20, <1>21, <1>22, <1>23, <1>24, <1>25, <1>26, <1>27
  DEF Next, Requests, OperationSteps, StartSteps, CleanupSteps, RestartSteps, Environment

-----------------------------------------------------------------------------
(* What the snapshot holds *)

LEMMA SnapshotStep ==
    ASSUME TypeOK, ForwardingInv, SnapshotInv, [Next]_vars, ~abandoned', ~interrupted'
    PROVE  SnapshotInv'
<1>0. st \in State /\ disk \in State /\ (pc \in Probing => ~exists) /\ pc \in Labels
  BY DEF TypeOK, LocalsTyped, FilesTyped, ControlTyped, ForwardingInv
<1>1. CASE BeginStart \/ BeginStop \/ BeginReload \/ BeginRestart
  BY <1>1, <1>0
  DEF BeginStart, BeginStop, BeginReload, BeginRestart, Begin,
      fileVars, localVars, riskVars, SnapshotInv, Snapshotted, Applying, Looking, Probing, Acquiring, Cleaning, Restarting
<1>2. CASE StartLoadState
  BY <1>2, <1>0
  DEF StartLoadState, Unreadable, Return, Continue,
      fileVars, localVars, riskVars, SnapshotInv, Snapshotted, Applying, Looking, Probing, Acquiring, Cleaning, Restarting
<1>3. CASE Prepare
  BY <1>3, <1>0, PrepareMoves DEF fileVars, localVars, Same, SnapshotInv, Snapshotted, Applying, Looking, Probing, Acquiring, Cleaning, Restarting
<1>4. CASE WriteSnapshot
  BY <1>4, <1>0
  DEF WriteSnapshot, Return, Continue,
      fileVars, localVars, riskVars, SnapshotInv, Snapshotted, Applying, Looking, Probing, Acquiring, Cleaning, Restarting
<1>5. CASE SaveInitialState
  BY <1>5, <1>0
  DEF SaveInitialState, SaveState, Return, Continue,
      fileVars, localVars, riskVars, SnapshotInv, Snapshotted, Applying, Looking, Probing, Acquiring, Cleaning, Restarting
<1>6. CASE EnableForwarding
  BY <1>6, <1>0
  DEF EnableForwarding, Rollback, Continue,
      fileVars, localVars, riskVars, SnapshotInv, Snapshotted, Applying, Looking, Probing, Acquiring, Cleaning, Restarting
<1>7. CASE SaveForwarding \/ SaveMihomo \/ SaveDnsmasq \/ SaveNftables
  BY <1>7, <1>0
  DEF SaveForwarding, SaveMihomo, SaveDnsmasq, SaveNftables, SaveAt, SaveState, Rollback, Continue,
      fileVars, localVars, riskVars, SnapshotInv, Snapshotted, Applying, Looking, Probing, Acquiring, Cleaning, Restarting
<1>8. CASE StartMihomo
  BY <1>8, <1>0, AcquireMoves DEF fileVars, localVars, Same, SnapshotInv, Snapshotted, Applying, Looking, Probing, Acquiring, Cleaning, Restarting
<1>9. CASE StartDnsmasq
  BY <1>9, <1>0, AcquireMoves DEF fileVars, localVars, Same, SnapshotInv, Snapshotted, Applying, Looking, Probing, Acquiring, Cleaning, Restarting
<1>10. CASE LoadNftables
  BY <1>10, <1>0, AcquireMoves DEF fileVars, localVars, Same, SnapshotInv, Snapshotted, Applying, Looking, Probing, Acquiring, Cleaning, Restarting
<1>11. CASE VerifyNftables
  BY <1>11, <1>0
  DEF VerifyNftables, Return, Rollback, Continue,
      fileVars, localVars, riskVars, SnapshotInv, Snapshotted, Applying, Looking, Probing, Acquiring, Cleaning, Restarting
<1>12. CASE CleanUnload \/ CleanDnsmasq \/ CleanMihomo \/ RestoreForwarding
  BY <1>12, <1>0, CleanMoves DEF fileVars, localVars, Same, SnapshotInv, Snapshotted, Applying, Looking, Probing, Acquiring, Cleaning, Restarting
<1>13. CASE RemoveState
  BY <1>13, <1>0
  DEF RemoveState, Continue,
      fileVars, localVars, riskVars, SnapshotInv, Snapshotted, Applying, Looking, Probing, Acquiring, Cleaning, Restarting
<1>14. CASE RemoveSnapshot
  BY <1>14, <1>0
  DEF RemoveSnapshot, CleanupDone, Return, Continue,
      fileVars, localVars, riskVars, SnapshotInv, Snapshotted, Applying, Looking, Probing, Acquiring, Cleaning, Restarting
<1>15. CASE RetainCleanupState
  BY <1>15, <1>0, RetainMoves DEF fileVars, localVars, Same, SnapshotInv, Snapshotted, Applying, Looking, Probing, Acquiring, Cleaning, Restarting
<1>16. CASE StopLoadState
  BY <1>16, <1>0
  DEF StopLoadState, Unreadable, Return, Continue,
      fileVars, localVars, riskVars, SnapshotInv, Snapshotted, Applying, Looking, Probing, Acquiring, Cleaning, Restarting
<1>17. CASE ReloadCheck \/ ValidateReloadCandidate
  BY <1>17, <1>0
  DEF ReloadCheck, ValidateReloadCandidate, Return, Continue,
      fileVars, localVars, riskVars, SnapshotInv, Snapshotted, Applying, Looking, Probing, Acquiring, Cleaning, Restarting
<1>18. CASE RestartCheck
  BY <1>18, <1>0, RestartMoves DEF fileVars, localVars, Same, SnapshotInv, Snapshotted, Applying, Looking, Probing, Acquiring, Cleaning, Restarting
<1>19. CASE RestartMark
  BY <1>19, <1>0
  DEF RestartMark, SaveState, Return, Continue,
      fileVars, localVars, riskVars, SnapshotInv, Snapshotted, Applying, Looking, Probing, Acquiring, Cleaning, Restarting
<1>20. CASE RestartStop \/ RestartArchiveLog
  BY <1>20, <1>0
  DEF RestartStop, RestartArchiveLog, Return, Continue,
      fileVars, localVars, riskVars, SnapshotInv, Snapshotted, Applying, Looking, Probing, Acquiring, Cleaning, Restarting
<1>21. CASE RestartUndo
  BY <1>21, <1>0, RestartMoves DEF fileVars, localVars, Same, SnapshotInv, Snapshotted, Applying, Looking, Probing, Acquiring, Cleaning, Restarting
<1>22. CASE RestartStart
  BY <1>22, <1>0, RestartMoves DEF fileVars, localVars, Same, SnapshotInv, Snapshotted, Applying, Looking, Probing, Acquiring, Cleaning, Restarting
<1>23. CASE RestartSave
  BY <1>23, <1>0
  DEF RestartSave, SaveState, Return,
      fileVars, localVars, riskVars, SnapshotInv, Snapshotted, Applying, Looking, Probing, Acquiring, Cleaning, Restarting
<1>24. CASE EditPolicy \/ EditProfile \/ EditControlConfig \/ ProcessExits \/ TableFlushed \/ AdminForwarding
  BY <1>24, <1>0, EditMoves DEF fileVars, localVars, Same, SnapshotInv, Snapshotted, Applying, Looking, Probing, Acquiring, Cleaning, Restarting
<1>25. CASE Crash
  BY <1>25, <1>0
  DEF Crash, Return,
      fileVars, localVars, riskVars, SnapshotInv, Snapshotted, Applying, Looking, Probing, Acquiring, Cleaning, Restarting
<1>26. CASE Reboot
  BY <1>26, <1>0
  DEF Reboot, Return,
      fileVars, localVars, riskVars, SnapshotInv, Snapshotted, Applying, Looking, Probing, Acquiring, Cleaning, Restarting
<1>27. CASE UNCHANGED vars
  BY <1>27, <1>0
  DEF vars,
      fileVars, localVars, riskVars, SnapshotInv, Snapshotted, Applying, Looking, Probing, Acquiring, Cleaning, Restarting
<1> QED
  BY <1>1, <1>2, <1>3, <1>4, <1>5, <1>6, <1>7, <1>8, <1>9, <1>10, <1>11, <1>12, <1>13, <1>14, <1>15, <1>16, <1>17, <1>18, <1>19, <1>20, <1>21, <1>22, <1>23, <1>24, <1>25, <1>26, <1>27
  DEF Next, Requests, OperationSteps, StartSteps, CleanupSteps, RestartSteps, Environment

-----------------------------------------------------------------------------
(* What a start that reports success has recorded *)

\* s names the table, mihomo and, where DHCP is served, dnsmasq.
Started(s) ==
    s.nft /\ ~s.cleanup /\ s.mihomo # NoPid /\ (s.dhcp # NoPid \/ ~rendered.serve)

\* What the State in memory has collected at each call of start, and the answer.
StartedInv ==
    /\ resp # "none" => pc = "idle"
    /\ resp \in {"started", "reloaded"} => exists /\ Started(disk)
    /\ pc \in {"snapshot", "save1"} \cup Acquiring => ~st.cleanup /\ cfg.serve = rendered.serve
    /\ pc \in {"save3", "dnsmasq", "save4", "load_nft", "save5", "verify"} => st.mihomo # NoPid
    /\ pc \in {"save4", "load_nft", "save5", "verify"} => st.dhcp # NoPid \/ ~rendered.serve
    /\ pc \in {"save5", "verify"} => st.nft
    /\ pc = "verify" => exists /\ disk = st

\* A step to a call that is no part of start, with no success to report.
LEMMA ToElsewhere ==
    ASSUME pc' \notin {"snapshot", "save1"} \cup Acquiring,
           resp' = "none" \/ (pc' = "idle" /\ resp' \notin {"started", "reloaded"})
    PROVE  StartedInv'
BY DEF StartedInv, Acquiring

LEMMA ElsewhereMoves ==
    ASSUME \/ StopLoadState \/ ReloadCheck \/ ValidateReloadCandidate \/ RestartSteps
           \/ CleanUnload \/ CleanDnsmasq \/ CleanMihomo \/ RestoreForwarding \/ RemoveState
           \/ RemoveSnapshot \/ RetainCleanupState
    PROVE  /\ pc # "idle" /\ pc' \notin {"snapshot", "save1"} \cup Acquiring
           /\ resp' = resp \/ (pc' = "idle" /\ resp' \notin {"started", "reloaded"})
<1>1. CASE StopLoadState \/ ReloadCheck \/ ValidateReloadCandidate
  BY <1>1 DEF StopLoadState, Unreadable, ReloadCheck, ValidateReloadCandidate, Return, Continue, Acquiring
<1>2. CASE RestartSteps
  BY <1>2 DEF RestartSteps, RestartCheck, RestartMark, RestartStop, RestartUndo, RestartArchiveLog,
         RestartStart, RestartSave, Return, Continue, Acquiring
<1>3. CASE CleanUnload \/ CleanDnsmasq \/ CleanMihomo \/ RestoreForwarding \/ RemoveState
  BY <1>3 DEF CleanUnload, CleanDnsmasq, CleanMihomo, RestoreForwarding, RemoveState, Continue, Acquiring
<1>4. CASE RemoveSnapshot \/ RetainCleanupState
  BY <1>4 DEF RemoveSnapshot, CleanupDone, RetainCleanupState, Return, Continue, Acquiring
<1> QED
  BY <1>1, <1>2, <1>3, <1>4

LEMMA StartedStep == TypeOK /\ StartedInv /\ [Next]_vars => StartedInv'
<1> SUFFICES ASSUME TypeOK, StartedInv, [Next]_vars PROVE StartedInv'
  OBVIOUS
<1>0. st \in State /\ disk \in State /\ NoPid \notin Pids
  BY PidsAssumption DEF TypeOK, LocalsTyped, FilesTyped, NoPid
<1>1. CASE BeginStart \/ BeginStop \/ BeginReload \/ BeginRestart
  <2>1. resp' = "none" /\ pc' \in {"load", "stop_load", "reload_check", "restart_check"}
    BY <1>1 DEF BeginStart, BeginStop, BeginReload, BeginRestart, Begin
  <2> QED
    BY <2>1, ToElsewhere DEF Acquiring
<1>2. CASE StartLoadState
  <2>1. /\ pc # "idle" /\ pc' \in {"prepare", "idle"}
        /\ resp' = resp \/ (pc' = "idle" /\ resp' = "error")
    BY <1>2 DEF StartLoadState, Unreadable, Return, Continue
  <2> QED
    BY <2>1, ToElsewhere DEF StartedInv, Acquiring
<1>3. CASE Prepare
  <2>1. CASE pc' = "idle"
    BY <2>1, <1>3, ToElsewhere DEF Prepare, Return, Continue, Acquiring
  <2>2. CASE pc' # "idle"
    <3> DEFINE c == Prepared(cfg)
    <3>1. /\ pc = "prepare" /\ pc' = "snapshot" /\ resp' = resp /\ rendered' = c /\ cfg' = c
          /\ st' = [ZeroState EXCEPT !.before = forward, !.policy = c.policy, !.profile = c.profile]
      BY <2>2, <1>3 DEF Prepare, Return, Continue
    <3>2. ~st'.cleanup
      BY <3>1 DEF ZeroState
    <3> QED
      BY <3>1, <3>2 DEF StartedInv
  <2> QED
    BY <2>1, <2>2
<1>4. CASE WriteSnapshot \/ SaveInitialState \/ EnableForwarding
  BY <1>4 DEF WriteSnapshot, SaveInitialState, EnableForwarding, SaveState, Return, Rollback, Continue,
         fileVars, localVars, StartedInv, Acquiring
<1>5. CASE SaveForwarding \/ SaveMihomo \/ SaveDnsmasq \/ SaveNftables
  BY <1>5 DEF SaveForwarding, SaveMihomo, SaveDnsmasq, SaveNftables, SaveAt, SaveState, Rollback, Continue,
         localVars, StartedInv, Started, Acquiring
<1>6. CASE StartMihomo
  <2>1. /\ pc = "mihomo" /\ resp' = resp /\ UNCHANGED rendered /\ cfg' = cfg
        /\ pc' = "c_nft" \/ (pc' = "save3" /\ st'.mihomo # NoPid /\ st'.cleanup = st.cleanup)
    BY <1>6, <1>0 DEF StartMihomo, Continue, Rollback, fileVars, FreePids, State
  <2> QED
    BY <2>1 DEF StartedInv, Acquiring
<1>7. CASE StartDnsmasq
  <2>1. /\ pc = "dnsmasq" /\ resp' = resp /\ UNCHANGED rendered /\ cfg' = cfg
        /\ \/ pc' = "c_nft"
           \/ /\ pc' = "save4" /\ (st'.dhcp # NoPid \/ ~cfg.serve)
              /\ st'.mihomo = st.mihomo /\ st'.cleanup = st.cleanup
    BY <1>7, <1>0 DEF StartDnsmasq, Continue, Rollback, fileVars, localVars, FreePids, State
  <2> QED
    BY <2>1 DEF StartedInv, Acquiring
<1>8. CASE LoadNftables
  <2>1. /\ pc = "load_nft" /\ resp' = resp /\ UNCHANGED rendered /\ cfg' = cfg
        /\ \/ pc' = "c_nft"
           \/ /\ pc' = "save5" /\ st'.nft
              /\ st'.mihomo = st.mihomo /\ st'.dhcp = st.dhcp /\ st'.cleanup = st.cleanup
    BY <1>8, <1>0 DEF LoadNftables, Continue, Rollback, fileVars, State
  <2> QED
    BY <2>1 DEF StartedInv, Acquiring
<1>9. CASE VerifyNftables
  <2>1. /\ pc = "verify" /\ UNCHANGED fileVars
        /\ pc' = "idle" \/ (pc' = "c_nft" /\ resp' = resp)
    BY <1>9 DEF VerifyNftables, Return, Rollback, Continue
  <2> QED
    BY <2>1 DEF StartedInv, Started, Acquiring, fileVars
<1>10. CASE \/ StopLoadState \/ ReloadCheck \/ ValidateReloadCandidate \/ RestartSteps
            \/ CleanUnload \/ CleanDnsmasq \/ CleanMihomo \/ RestoreForwarding \/ RemoveState
            \/ RemoveSnapshot \/ RetainCleanupState
  <2>1. pc # "idle" /\ pc' \notin {"snapshot", "save1"} \cup Acquiring
    BY <1>10, ElsewhereMoves
  <2>2. resp' = resp \/ (pc' = "idle" /\ resp' \notin {"started", "reloaded"})
    BY <1>10, ElsewhereMoves
  <2> QED
    BY <2>1, <2>2, ToElsewhere DEF StartedInv
<1>11. CASE EditPolicy \/ EditProfile \/ EditControlConfig \/ ProcessExits \/ TableFlushed \/ AdminForwarding
  <2>1. UNCHANGED <<fileVars, pc, localVars>>
    BY <1>11, EditMoves
  <2>2. UNCHANGED resp
    BY <1>11 DEF EditPolicy, EditProfile, EditControlConfig, ProcessExits, TableFlushed, AdminForwarding
  <2> QED
    BY <2>1, <2>2 DEF StartedInv, Started, fileVars, localVars
<1>12. CASE Crash \/ Reboot
  BY <1>12, ToElsewhere DEF Crash, Reboot, Return, Acquiring
<1>13. CASE UNCHANGED vars
  BY <1>13 DEF vars, fileVars, localVars, StartedInv, Started
<1> QED
  BY <1>1, <1>2, <1>3, <1>4, <1>5, <1>6, <1>7, <1>8, <1>9, <1>10, <1>11, <1>12, <1>13
  DEF Next, Requests, OperationSteps, StartSteps, CleanupSteps, Environment

-----------------------------------------------------------------------------
(* The results *)

\* A start or a reload that reports success has left a state.json that names the
\* table, mihomo and, where DHCP is served, dnsmasq.
THEOREM StartedAlwaysRecorded == Spec => []StartedIsRecorded
<1>1. Init => StartedInv
  BY DEF Init, StartedInv, Acquiring
<1>2. TypeOK /\ StartedInv /\ [Next]_vars => StartedInv'
  BY StartedStep
<1>3. StartedInv => StartedIsRecorded
  BY DEF StartedInv, Started, StartedIsRecorded
<1> QED
  BY TypeCorrect, <1>1, <1>2, <1>3, PTL DEF Spec

\* What RestartMihomo would launch was rendered from the policy and the profile
\* that state.json says are applied, whatever has been edited since.
THEOREM RenderedAlwaysMatches == Spec => []RenderedMatchesState
<1>1. Init => RenderedInv
  BY DEF Init, RenderedInv, Rendering, Applying, Acquiring, Restarting
<1>2. TypeOK /\ ForwardingInv /\ RenderedInv /\ [Next]_vars => RenderedInv'
  BY RenderedStep
<1>3. RenderedInv => RenderedMatchesState
  BY DEF RenderedInv, Rendering, RenderedMatchesState
<1> QED
  BY TypeCorrect, ForwardingInvariant, <1>1, <1>2, <1>3, PTL DEF Spec

\* The policy snapshot next to state.json is the policy that state.json names,
\* unless an operation was killed half way or a cleanup could not be recorded.
THEOREM SnapshotAlwaysMatches == Spec => []SnapshotMatchesState
<1>1. Init => SoundSnapshot
  BY DEF Init, SoundSnapshot, SnapshotInv, Snapshotted, Applying, Acquiring, Restarting
<1>2. TypeOK /\ ForwardingInv /\ SoundSnapshot /\ [Next]_vars => SoundSnapshot'
  <2> SUFFICES ASSUME TypeOK, ForwardingInv, SoundSnapshot, [Next]_vars, Sound' PROVE SnapshotInv'
    BY DEF SoundSnapshot
  <2>1. SnapshotInv /\ ~abandoned' /\ ~interrupted'
    BY RisksStay DEF SoundSnapshot, Sound
  <2> QED
    BY <2>1, SnapshotStep
<1>3. SoundSnapshot => SnapshotMatchesState
  BY DEF SoundSnapshot, SnapshotInv, Snapshotted, SnapshotMatchesState, Looking
<1> QED
  BY TypeCorrect, ForwardingInvariant, <1>1, <1>2, <1>3, PTL DEF Spec

\* Both artifacts are those of the configuration that state.json says is applied.
THEOREM ArtifactsAlwaysMatch == Spec => []ArtifactsMatchState
  BY RenderedAlwaysMatches, SnapshotAlwaysMatches, PTL DEF ArtifactsMatchState

-----------------------------------------------------------------------------
(***************************************************************************)
(* GatewayLifecycle implements GatewayPromise: every call of an operation   *)
(* and everything that may happen in between is a step of the promise, or   *)
(* changes nothing the promise speaks of.                                   *)
(***************************************************************************)

-----------------------------------------------------------------------------
(* Which operation makes which call *)

\* A step within an operation, to a call of the same kind or back to "idle".
LEMMA ModeStays ==
    ASSUME ModeInv, mode' = mode,
           \/ pc' = "idle"
           \/ pc \in {"load"} \cup Probing \cup Acquiring /\ pc' \in Probing \cup Acquiring \cup Cleaning
           \/ pc \in Cleaning \cup {"stop_load"} /\ pc' \in Cleaning
           \/ pc \in {"reload_check", "reload_validate"} /\ pc' \in {"reload_validate", "stop_load"}
           \/ pc \in {"restart_check"} \cup Restarting /\ pc' \in Restarting
    PROVE  ModeInv'
BY DEF ModeInv, Looking, Probing, Acquiring, Cleaning, Restarting

LEMMA ModeReturns == ASSUME pc' = "idle" PROVE ModeInv'
BY DEF ModeInv, Probing, Acquiring, Cleaning, Restarting

LEMMA ModeStep == ModeInv /\ [Next]_vars => ModeInv'
<1> SUFFICES ASSUME ModeInv, [Next]_vars PROVE ModeInv'
  OBVIOUS
<1>1. CASE Requests
  BY <1>1 DEF Requests, BeginStart, BeginStop, BeginReload, BeginRestart, Begin, ModeInv,
         Probing, Acquiring, Cleaning, Restarting
<1>2. CASE StartLoadState \/ Prepare \/ WriteSnapshot \/ SaveInitialState
  BY <1>2, ModeStays, ModeReturns DEF StartLoadState, Unreadable, Prepare, WriteSnapshot, SaveInitialState,
         Continue, Return, Probing, Acquiring
<1>3. CASE EnableForwarding \/ SaveForwarding \/ SaveMihomo \/ SaveDnsmasq \/ SaveNftables
  BY <1>3, ModeStays DEF EnableForwarding, SaveForwarding, SaveMihomo, SaveDnsmasq, SaveNftables, SaveAt,
         Continue, Rollback, Acquiring, Cleaning
<1>4. CASE StartMihomo \/ StartDnsmasq \/ LoadNftables \/ VerifyNftables
  BY <1>4, ModeStays, ModeReturns DEF StartMihomo, StartDnsmasq, LoadNftables, VerifyNftables,
         Continue, Return, Rollback, Acquiring, Cleaning
<1>5. CASE CleanUnload \/ CleanDnsmasq \/ CleanMihomo \/ RestoreForwarding \/ RemoveState
  BY <1>5, ModeStays DEF CleanUnload, CleanDnsmasq, CleanMihomo, RestoreForwarding, RemoveState,
         Continue, Cleaning
<1>6. CASE RemoveSnapshot
  <2>1. CASE mode' = "reload_start" /\ pc' = "load"
    BY <2>1 DEF ModeInv, Probing, Acquiring, Cleaning, Restarting
  <2> QED
    BY <1>6, <2>1, ModeStays, ModeReturns DEF RemoveSnapshot, CleanupDone, Continue, Return, Cleaning
<1>7. CASE RetainCleanupState \/ StopLoadState
  BY <1>7, ModeStays, ModeReturns DEF RetainCleanupState, StopLoadState, Unreadable, Continue, Return, Cleaning
<1>8. CASE ReloadCheck \/ ValidateReloadCandidate
  BY <1>8, ModeStays, ModeReturns DEF ReloadCheck, ValidateReloadCandidate, Continue, Return
<1>9. CASE RestartSteps
  BY <1>9, ModeStays, ModeReturns DEF RestartSteps, RestartCheck, RestartMark, RestartStop, RestartUndo,
         RestartArchiveLog, RestartStart, RestartSave, Continue, Return, Restarting
<1>10. CASE EditPolicy \/ EditProfile \/ EditControlConfig \/ ProcessExits \/ TableFlushed \/ AdminForwarding
  BY <1>10 DEF EditPolicy, EditProfile, EditControlConfig, ProcessExits, TableFlushed, AdminForwarding, ModeInv
<1>11. CASE Crash \/ Reboot
  BY <1>11, ModeReturns DEF Crash, Reboot, Return
<1>12. CASE UNCHANGED vars
  BY <1>12 DEF vars, ModeInv
<1> QED
  BY <1>1, <1>2, <1>3, <1>4, <1>5, <1>6, <1>7, <1>8, <1>9, <1>10, <1>11, <1>12
     DEF Next, OperationSteps, StartSteps, CleanupSteps, Environment

-----------------------------------------------------------------------------
(* No cleanup is due while a start acquires resources *)

LEMMA DueElsewhere ==
    ASSUME \/ pc' \notin {"snapshot", "save1", "c_nft", "c_dhcp", "c_mihomo", "c_sysctl", "c_snap"} \cup Acquiring
           \/ pc' \in {"c_nft", "c_dhcp", "c_mihomo", "c_sysctl"} /\ exists'
    PROVE  DueInv'
BY DEF DueInv, Probing, Acquiring

LEMMA DueStep == TypeOK /\ ForwardingInv /\ DueInv /\ [Next]_vars => DueInv'
<1> SUFFICES ASSUME TypeOK, ForwardingInv, DueInv, [Next]_vars PROVE DueInv'
  OBVIOUS
<1> USE DEF Probing, Acquiring
<1>0. pc \in Acquiring => exists
  BY DEF ForwardingInv
<1>1. CASE Requests
  BY <1>1, DueElsewhere DEF Requests, BeginStart, BeginStop, BeginReload, BeginRestart, Begin
<1>2. CASE StartLoadState
  BY <1>2, DueElsewhere DEF StartLoadState, Unreadable, Continue, Return
<1>3. CASE Prepare
  BY <1>3, DueElsewhere DEF Prepare, Continue, Return, ZeroState, DueInv
<1>4. CASE WriteSnapshot \/ SaveInitialState
  BY <1>4, DueElsewhere DEF WriteSnapshot, SaveInitialState, SaveState, Continue, Return, localVars, DueInv
<1>5. CASE EnableForwarding
  BY <1>0, <1>5, DueElsewhere DEF EnableForwarding, Continue, Rollback, localVars, fileVars, DueInv
<1>6. CASE SaveForwarding \/ SaveMihomo \/ SaveDnsmasq \/ SaveNftables
  BY <1>0, <1>6, DueElsewhere DEF SaveForwarding, SaveMihomo, SaveDnsmasq, SaveNftables, SaveAt, SaveState,
         Continue, Rollback, localVars, DueInv
<1>7. CASE StartMihomo \/ StartDnsmasq \/ LoadNftables
  <2>1. pc \in {"mihomo", "dnsmasq", "load_nft"} /\ UNCHANGED <<exists, disk>>
    BY <1>7 DEF StartMihomo, StartDnsmasq, LoadNftables, fileVars
  <2>2. pc' = "c_nft" \/ pc' \in {"save3", "save4", "save5"}
    BY <1>7 DEF StartMihomo, StartDnsmasq, LoadNftables, Continue, Rollback
  <2>3. st'.cleanup = st.cleanup
    BY <1>7 DEF StartMihomo, StartDnsmasq, LoadNftables, Rollback, localVars, TypeOK, LocalsTyped, State
  <2> QED
    BY <1>0, <2>1, <2>2, <2>3, DueElsewhere DEF DueInv
<1>8. CASE VerifyNftables
  BY <1>0, <1>8, DueElsewhere DEF VerifyNftables, Continue, Return, Rollback, fileVars
<1>9. CASE CleanUnload \/ CleanDnsmasq \/ CleanMihomo \/ RestoreForwarding
  BY <1>9, DueElsewhere DEF CleanUnload, CleanDnsmasq, CleanMihomo, RestoreForwarding, Continue, fileVars, DueInv
<1>10. CASE RemoveState
  BY <1>10 DEF RemoveState, Continue, DueInv
<1>11. CASE RemoveSnapshot \/ RetainCleanupState \/ StopLoadState \/ ReloadCheck \/ ValidateReloadCandidate
  BY <1>11, DueElsewhere DEF RemoveSnapshot, CleanupDone, RetainCleanupState, StopLoadState, Unreadable,
         ReloadCheck, ValidateReloadCandidate, Continue, Return, fileVars
<1>12. CASE RestartSteps
  BY <1>12, DueElsewhere DEF RestartSteps, RestartCheck, RestartMark, RestartStop, RestartUndo,
         RestartArchiveLog, RestartStart, RestartSave, Continue, Return
<1>13. CASE EditPolicy \/ EditProfile \/ EditControlConfig \/ ProcessExits \/ TableFlushed \/ AdminForwarding
  <2>1. UNCHANGED <<fileVars, pc, localVars>>
    BY <1>13 DEF EditPolicy, EditProfile, EditControlConfig, ProcessExits, TableFlushed, AdminForwarding
  <2> QED
    BY <2>1 DEF fileVars, localVars, DueInv
<1>14. CASE Crash \/ Reboot
  BY <1>14, DueElsewhere DEF Crash, Reboot, Return
<1>15. CASE UNCHANGED vars
  BY <1>15 DEF vars, fileVars, localVars, DueInv
<1> QED
  BY <1>1, <1>2, <1>3, <1>4, <1>5, <1>6, <1>7, <1>8, <1>9, <1>10, <1>11, <1>12, <1>13, <1>14, <1>15
     DEF Next, OperationSteps, StartSteps, CleanupSteps, Environment

LEMMA PhaseInvariant == Spec => []PhaseInv
<1>1. Init => PhaseInv
  BY DEF Init, PhaseInv, ModeInv, DueInv, Probing, Acquiring, Cleaning, Restarting
<1>2. TypeOK /\ ForwardingInv /\ PhaseInv /\ [Next]_vars => PhaseInv'
  BY ModeStep, DueStep DEF PhaseInv
<1> QED
  BY TypeCorrect, ForwardingInvariant, <1>1, <1>2, PTL DEF Spec

-----------------------------------------------------------------------------
(* What the promise sees of a state *)

\* What all the steps below start from.
Ready == TypeOK /\ ForwardingInv /\ ResidueInv /\ PhaseInv /\ Sound

PromiseKept == Promise!Next \/ UNCHANGED Promise!vars

LEMMA SeenStatus ==
    /\ PromisedStatus = "stopped" <=> ~exists
    /\ PromisedStatus = "active" <=> exists /\ ~disk.cleanup
    /\ PromisedStatus = "cleanup" <=> exists /\ disk.cleanup
    /\ PromisedStatus \in {"stopped", "active", "cleanup"}
BY DEF PromisedStatus

LEMMA SeenPhase ==
    /\ pc \in Looking => PromisedPhase = "idle"
    /\ pc \notin Looking /\ mode \in {"start", "reload_start"} => PromisedPhase = "starting"
    /\ pc \notin Looking /\ mode \in {"stop", "reload"} => PromisedPhase = "stopping"
    /\ pc \notin Looking /\ mode = "restart" => PromisedPhase = "restarting"
    /\ PromisedPhase \in {"idle", "starting", "stopping", "restarting"}
BY DEF PromisedPhase, Looking

LEMMA StatusKept ==
    ASSUME exists' = exists, exists => disk'.cleanup = disk.cleanup
    PROVE  PromisedStatus' = PromisedStatus
BY DEF PromisedStatus

LEMMA PhaseKept ==
    ASSUME mode' = mode, pc' \in Looking <=> pc \in Looking PROVE PromisedPhase' = PromisedPhase
BY DEF PromisedPhase, Looking

LEMMA CleanKept == ASSUME UNCHANGED hostVars PROVE Clean' = Clean
BY DEF hostVars, Clean

\* Where nothing is left of an earlier operation, the host is clean.
LEMMA EmptyIsClean == ASSUME Empty, forward = host PROVE Clean
BY DEF Empty, Alive, Clean

LEMMA LookingIsClean ==
    ASSUME Ready, pc \in Looking \cup Probing \cup {"c_state", "c_snap"}, ~exists \/ pc \notin Looking
    PROVE  Clean
<1>1. forward = host
  BY DEF Ready, ForwardingInv, Looking, Probing
<1>2. Empty
  BY DEF Ready, ResidueInv, RestInv, CleanInv
<1> QED
  BY <1>1, <1>2, EmptyIsClean

-----------------------------------------------------------------------------
(* The steps of the promise, as steps of the lifecycle *)

\* A call of an operation under way that changes the host at most, while a state
\* file is there.
LEMMA Touches ==
    ASSUME Ready, Sound', exists, UNCHANGED <<exists, mode, resp>>,
           disk'.cleanup = disk.cleanup, pc' \in Looking <=> pc \in Looking
    PROVE  PromiseKept
<1>1. PromisedStatus' = PromisedStatus /\ PromisedPhase' = PromisedPhase
  BY StatusKept, PhaseKept
<1>2. PromisedStatus # "stopped"
  BY SeenStatus
<1>3. (~Clean)' \in BOOLEAN
  OBVIOUS
<1> QED
  BY <1>1, <1>2, <1>3 DEF PromiseKept, Promise!Next, Promise!Touch, Ready

\* A call that the promise does not see.
LEMMA Stutters ==
    ASSUME Ready, Sound', Clean' = Clean, UNCHANGED <<exists, mode, resp>>,
           exists => disk'.cleanup = disk.cleanup, pc' \in Looking <=> pc \in Looking
    PROVE  PromiseKept
<1>1. PromisedStatus' = PromisedStatus /\ PromisedPhase' = PromisedPhase
  BY StatusKept, PhaseKept
<1> QED
  BY <1>1 DEF PromiseKept, Promise!vars, Ready

\* A request that is refused.
LEMMA Refuses ==
    ASSUME Ready, Sound', pc \in Looking, pc' = "idle", resp' = "error",
           UNCHANGED <<hostVars, exists, disk>>
    PROVE  PromiseKept
<1>1. PromisedStatus' = PromisedStatus /\ Clean' = Clean
  BY StatusKept, CleanKept
<1>2. PromisedPhase = "idle" /\ PromisedPhase' = "idle"
  BY SeenPhase DEF PromisedPhase, Looking
<1> QED
  BY <1>1, <1>2 DEF PromiseKept, Promise!Next, Promise!Refuse, Ready

\* A request that is taken up.
LEMMA Accepts ==
    ASSUME Ready, Sound', pc \in Looking, pc' \notin Looking, UNCHANGED <<hostVars, exists, disk, mode, resp>>,
           \/ mode \in {"start", "reload_start"} /\ ~exists
           \/ mode \in {"stop", "reload"}
           \/ mode = "restart" /\ exists
    PROVE  PromiseKept
<1>1. PromisedStatus' = PromisedStatus /\ Clean' = Clean
  BY StatusKept, CleanKept
<1>2. PromisedPhase = "idle"
  BY SeenPhase
<1>3. \/ PromisedPhase' = "starting" /\ PromisedStatus = "stopped"
      \/ PromisedPhase' = "stopping"
      \/ PromisedPhase' = "restarting" /\ PromisedStatus # "stopped"
  BY SeenStatus DEF PromisedPhase, Looking
<1> QED
  BY <1>1, <1>2, <1>3 DEF PromiseKept, Promise!Next, Promise!Accept, Ready

\* A start that fails before it has written a state file.
LEMMA StartFails ==
    ASSUME Ready, Sound', pc \in Probing, pc' = "idle", resp' = "error", UNCHANGED <<hostVars, exists, disk>>
    PROVE  PromiseKept
<1>1. PromisedStatus = "stopped" /\ PromisedStatus' = PromisedStatus
  BY SeenStatus, StatusKept DEF Ready, ForwardingInv
<1>2. Clean /\ Clean'
  BY LookingIsClean, CleanKept DEF Looking, Probing
<1>3. PromisedPhase = "starting" /\ PromisedPhase' = "idle"
  BY SeenPhase DEF Ready, PhaseInv, ModeInv, PromisedPhase, Looking, Probing
<1> QED
  BY <1>1, <1>2, <1>3 DEF PromiseKept, Promise!Next, Promise!EndStart, Ready

\* A restart of mihomo ends, with the state file naming the same status.
LEMMA RestartEnds ==
    ASSUME Ready, Sound', pc \in Restarting, pc' = "idle", resp' \in {"restarted", "error"},
           exists', disk'.cleanup = disk.cleanup
    PROVE  PromiseKept
<1>1. PromisedStatus' = PromisedStatus
  BY StatusKept DEF Ready, ResidueInv, RestartInv, TypeOK, FilesTyped
<1>2. PromisedPhase = "restarting" /\ PromisedPhase' = "idle"
  BY SeenPhase DEF Ready, PhaseInv, ModeInv, PromisedPhase, Looking, Restarting
<1>3. (~Clean)' \in BOOLEAN
  OBVIOUS
<1> QED
  BY <1>1, <1>2, <1>3 DEF PromiseKept, Promise!Next, Promise!EndRestart, Ready

-----------------------------------------------------------------------------
(* Start *)

LEMMA StartPromise == ASSUME Ready, Sound', StartSteps PROVE PromiseKept
<1> USE DEF Looking, Probing, Acquiring
<1>1. CASE StartLoadState
  <2>1. pc = "load" /\ UNCHANGED <<hostVars, exists, disk>>
    BY <1>1 DEF StartLoadState, fileVars
  <2>2. mode \in {"start", "reload_start"}
    BY <2>1 DEF Ready, PhaseInv, ModeInv
  <2>3. \/ pc' = "prepare" /\ ~exists /\ UNCHANGED <<mode, resp>>
        \/ pc' = "idle" /\ resp' = "error"
    BY <1>1 DEF StartLoadState, Unreadable, Continue, Return
  <2> QED
    BY <2>1, <2>2, <2>3, Accepts, Refuses
<1>2. CASE Prepare \/ WriteSnapshot
  <2>1. pc \in Probing /\ UNCHANGED <<hostVars, exists, disk>>
    BY <1>2 DEF Prepare, WriteSnapshot
  <2>2. \/ pc' \in Probing /\ UNCHANGED <<mode, resp>>
        \/ pc' = "idle" /\ resp' = "error"
    BY <1>2 DEF Prepare, WriteSnapshot, Continue, Return
  <2> QED
    BY <2>1, <2>2, CleanKept, Stutters, StartFails
<1>3. CASE SaveInitialState
  <2>1. pc = "save1" /\ UNCHANGED hostVars
    BY <1>3 DEF SaveInitialState
  <2>2. CASE pc' = "idle" /\ resp' = "error" /\ UNCHANGED <<exists, disk>>
    BY <2>1, <2>2, StartFails
  <2>3. CASE pc' = "enable" /\ exists' /\ disk' = st /\ UNCHANGED <<mode, resp>>
    <3>1. PromisedStatus = "stopped" /\ PromisedStatus' = "active"
      BY <2>1, <2>3, SeenStatus DEF Ready, ForwardingInv, PhaseInv, DueInv, PromisedStatus
    <3>2. Clean /\ Clean' = Clean
      BY <2>1, LookingIsClean, CleanKept
    <3>3. PromisedPhase = "starting" /\ PromisedPhase' = PromisedPhase
      BY <2>1, <2>3, SeenPhase, PhaseKept DEF Ready, PhaseInv, ModeInv
    <3> QED
      BY <2>3, <3>1, <3>2, <3>3 DEF PromiseKept, Promise!Next, Promise!Record, Ready
  <2> QED
    BY <1>3, <2>2, <2>3 DEF SaveInitialState, SaveState, Continue, Return
<1>4. CASE EnableForwarding \/ StartMihomo \/ StartDnsmasq \/ LoadNftables
  <2>1. pc \in Acquiring /\ pc' \notin Looking /\ UNCHANGED <<exists, disk, mode, resp>>
    BY <1>4 DEF EnableForwarding, StartMihomo, StartDnsmasq, LoadNftables, Continue, Rollback, fileVars
  <2> QED
    BY <2>1, Touches DEF Ready, ForwardingInv
<1>5. CASE SaveForwarding \/ SaveMihomo \/ SaveDnsmasq \/ SaveNftables
  <2>1. pc \in Acquiring /\ pc' \notin Looking /\ UNCHANGED <<hostVars, mode, resp>>
    BY <1>5 DEF SaveForwarding, SaveMihomo, SaveDnsmasq, SaveNftables, SaveAt, Continue, Rollback
  <2>2. UNCHANGED <<exists, disk>> \/ (exists' /\ disk' = st)
    BY <1>5 DEF SaveForwarding, SaveMihomo, SaveDnsmasq, SaveNftables, SaveAt, SaveState
  <2>3. exists /\ disk.cleanup = FALSE /\ st.cleanup = FALSE
    BY <2>1, StateFacts DEF Ready, ForwardingInv, PhaseInv, DueInv, TypeOK, FilesTyped, LocalsTyped
  <2>4. exists' = exists /\ disk'.cleanup = disk.cleanup
    BY <2>2, <2>3 DEF Ready, TypeOK, FilesTyped
  <2> QED
    BY <2>1, <2>3, <2>4, Touches
<1>6. CASE VerifyNftables
  <2>1. pc = "verify" /\ UNCHANGED <<hostVars, exists, disk>>
    BY <1>6 DEF VerifyNftables, fileVars
  <2>2. CASE pc' = "c_nft" /\ UNCHANGED <<mode, resp>>
    BY <2>1, <2>2, CleanKept, Stutters
  <2>3. CASE pc' = "idle" /\ resp' \in {"started", "reloaded"}
    <3>1. PromisedStatus = "active" /\ PromisedStatus' = PromisedStatus
      BY <2>1, SeenStatus, StatusKept DEF Ready, ForwardingInv, PhaseInv, DueInv
    <3>2. PromisedPhase = "starting" /\ PromisedPhase' = "idle"
      BY <2>1, <2>3, SeenPhase DEF Ready, PhaseInv, ModeInv, PromisedPhase
    <3> QED
      BY <2>1, <2>3, <3>1, <3>2, CleanKept DEF PromiseKept, Promise!Next, Promise!EndStart, Ready
  <2> QED
    BY <1>6, <2>2, <2>3 DEF VerifyNftables, Return, Continue, Rollback
<1> QED
  BY <1>1, <1>2, <1>3, <1>4, <1>5, <1>6 DEF StartSteps

-----------------------------------------------------------------------------
(* Stop, and the cleanup it shares with a rollback *)

LEMMA CleanupPromise ==
    ASSUME Ready, Sound', StopLoadState \/ CleanupSteps PROVE PromiseKept
<1> USE DEF Looking, Cleaning
<1>1. CASE StopLoadState
  <2>1. pc = "stop_load" /\ UNCHANGED <<hostVars, exists, disk>>
    BY <1>1 DEF StopLoadState, fileVars
  <2>2. mode \in {"stop", "reload"}
    BY <2>1 DEF Ready, PhaseInv, ModeInv
  <2>3. \/ pc' \in {"c_nft", "c_state"} /\ UNCHANGED <<mode, resp>>
        \/ pc' = "idle" /\ resp' = "error"
    BY <1>1 DEF StopLoadState, Unreadable, Continue, Return
  <2> QED
    BY <2>1, <2>2, <2>3, Accepts, Refuses
<1>2. CASE CleanUnload \/ CleanDnsmasq \/ CleanMihomo \/ RestoreForwarding
  <2>1. pc \in {"c_nft", "c_dhcp", "c_mihomo", "c_sysctl"} /\ pc' \notin Looking
    BY <1>2 DEF CleanUnload, CleanDnsmasq, CleanMihomo, RestoreForwarding, Continue
  <2>2. UNCHANGED <<exists, disk, mode, resp>>
    BY <1>2 DEF CleanUnload, CleanDnsmasq, CleanMihomo, RestoreForwarding, Continue, fileVars
  <2> QED
    BY <2>1, <2>2, Touches DEF Ready, PhaseInv, DueInv
<1>3. CASE RemoveState
  <2>1. pc = "c_state" /\ pc' = "c_snap" /\ UNCHANGED <<hostVars, mode, resp>>
    BY <1>3 DEF RemoveState, Continue
  <2>2. CASE UNCHANGED <<exists, disk>>
    BY <2>1, <2>2, CleanKept, Stutters
  <2>3. CASE exists' = FALSE
    <3>1. Clean /\ Clean' = Clean
      BY <2>1, LookingIsClean, CleanKept
    <3>2. PromisedPhase \in {"starting", "stopping"} /\ PromisedPhase' = PromisedPhase
      BY <2>1, SeenPhase, PhaseKept DEF Ready, PhaseInv, ModeInv
    <3>3. PromisedStatus' = "stopped"
      BY <2>3 DEF PromisedStatus
    <3> QED
      BY <2>1, <3>1, <3>2, <3>3 DEF PromiseKept, Promise!Next, Promise!Forget, Ready
  <2> QED
    BY <1>3, <2>2, <2>3 DEF RemoveState
<1>4. CASE RemoveSnapshot
  <2>1. pc = "c_snap" /\ UNCHANGED <<hostVars, exists, disk>>
    BY <1>4 DEF RemoveSnapshot
  <2>2. CASE pc' = "retain" /\ UNCHANGED <<mode, resp>>
    BY <2>1, <2>2, CleanKept, Stutters
  <2>3. CASE ~cleanErr /\ CleanupDone
    <3>1. PromisedStatus = "stopped" /\ PromisedStatus' = PromisedStatus
      BY <2>1, <2>3, SeenStatus, StatusKept DEF Ready, PhaseInv, DueInv
    <3>2. Clean /\ Clean' = Clean
      BY <2>1, LookingIsClean, CleanKept
    <3>3. PromisedPhase' = "idle"
      BY <2>3 DEF CleanupDone, Return, PromisedPhase
    <3>4. CASE mode \in {"start", "reload_start"} /\ Return("error")
      <4>1. PromisedPhase = "starting" /\ resp' = "error"
        BY <2>1, <3>4, SeenPhase DEF Return
      <4> QED
        BY <3>1, <3>2, <3>3, <4>1 DEF PromiseKept, Promise!Next, Promise!EndStart, Ready
    <3>5. CASE mode \in {"stop", "reload"} /\ (resp' = resp \/ resp' = "stopped")
      <4>1. PromisedPhase = "stopping"
        BY <2>1, <3>5, SeenPhase
      <4> QED
        BY <3>1, <3>2, <3>3, <3>5, <4>1 DEF PromiseKept, Promise!Next, Promise!EndStop, Ready
    <3> QED
      BY <2>3, <3>4, <3>5 DEF CleanupDone, Return
  <2> QED
    BY <1>4, <2>2, <2>3 DEF RemoveSnapshot, Continue
<1>5. CASE RetainCleanupState
  <2>1. pc = "retain" /\ pc' = "idle" /\ resp' = "error" /\ UNCHANGED hostVars
    BY <1>5 DEF RetainCleanupState, Return
  <2>2. exists' /\ disk'.cleanup
    BY <1>5 DEF RetainCleanupState, Ready, TypeOK, LocalsTyped, State, Sound
  <2>3. PromisedStatus' = "cleanup" /\ PromisedPhase' = "idle"
    BY <2>1, <2>2 DEF PromisedStatus, PromisedPhase
  <2>4. PromisedPhase \in {"starting", "stopping"}
    BY <2>1, SeenPhase DEF Ready, PhaseInv, ModeInv
  <2> QED
    BY <2>1, <2>3, <2>4, CleanKept DEF PromiseKept, Promise!Next, Promise!Retain, Ready
<1> QED
  BY <1>1, <1>2, <1>3, <1>4, <1>5 DEF CleanupSteps

-----------------------------------------------------------------------------
(* Reload, as far as it only looks, and RestartMihomo *)

LEMMA ReloadPromise ==
    ASSUME Ready, Sound', ReloadCheck \/ ValidateReloadCandidate PROVE PromiseKept
<1>1. pc \in Looking /\ UNCHANGED <<hostVars, exists, disk>>
  BY DEF ReloadCheck, ValidateReloadCandidate, fileVars, Looking
<1>2. \/ pc' \in {"reload_validate", "stop_load"} /\ UNCHANGED <<mode, resp>>
      \/ pc' = "idle" /\ resp' = "error"
  BY DEF ReloadCheck, ValidateReloadCandidate, Continue, Return
<1> QED
  BY <1>1, <1>2, CleanKept, Stutters, Refuses DEF Looking

LEMMA RestartPromise == ASSUME Ready, Sound', RestartSteps PROVE PromiseKept
<1> USE DEF Looking, Restarting
<1>1. CASE RestartCheck
  <2>1. pc = "restart_check" /\ UNCHANGED <<hostVars, exists, disk>>
    BY <1>1 DEF RestartCheck, fileVars
  <2>2. mode = "restart"
    BY <2>1 DEF Ready, PhaseInv, ModeInv
  <2>3. \/ pc' = "restart_mark" /\ exists /\ UNCHANGED <<mode, resp>>
        \/ pc' = "idle" /\ resp' = "error"
    BY <1>1 DEF RestartCheck, Continue, Return
  <2> QED
    BY <2>1, <2>2, <2>3, Accepts, Refuses
<1>2. ASSUME pc \in Restarting
      PROVE  exists /\ st.cleanup = disk.cleanup
  BY <1>2 DEF Ready, ResidueInv, RestartInv
<1>3. CASE RestartMark \/ RestartStop \/ RestartArchiveLog \/ RestartStart \/ RestartSave
  <2>1. pc \in Restarting
    BY <1>3 DEF RestartMark, RestartStop, RestartArchiveLog, RestartStart, RestartSave
  <2>2. UNCHANGED <<exists, disk>> \/ (exists' /\ disk' = st)
    BY <1>3 DEF RestartMark, RestartStop, RestartArchiveLog, RestartStart, RestartSave, SaveState, fileVars
  <2>3. exists' = exists /\ disk'.cleanup = disk.cleanup
    BY <1>2, <2>1, <2>2 DEF Ready, TypeOK, FilesTyped
  <2>4. \/ pc' \in Restarting /\ UNCHANGED <<mode, resp>>
        \/ pc' = "idle" /\ resp' \in {"restarted", "error"}
    BY <1>3 DEF RestartMark, RestartStop, RestartArchiveLog, RestartStart, RestartSave, Continue, Return
  <2> QED
    BY <1>2, <2>1, <2>3, <2>4, Touches, RestartEnds
<1>4. CASE RestartUndo
  <2>1. pc = "restart_undo" /\ pc' = "idle" /\ resp' = "error"
    BY <1>4 DEF RestartUndo, Return
  <2>2. exists' /\ disk'.cleanup = st.cleanup
    BY <1>4 DEF RestartUndo, Ready, TypeOK, LocalsTyped, State, Sound
  <2> QED
    BY <1>2, <2>1, <2>2, RestartEnds
<1> QED
  BY <1>1, <1>3, <1>4 DEF RestartSteps

-----------------------------------------------------------------------------
(* Requests and the environment *)

LEMMA RequestPromise == ASSUME Ready, Sound', Requests PROVE PromiseKept
<1>1. /\ pc = "idle" /\ resp' = "none" /\ UNCHANGED <<hostVars, exists, disk>>
      /\ pc' \in {"load", "stop_load", "reload_check", "restart_check"}
  BY DEF Requests, BeginStart, BeginStop, BeginReload, BeginRestart, Begin, fileVars
<1>2. PromisedStatus' = PromisedStatus /\ Clean' = Clean
  BY <1>1, StatusKept, CleanKept
<1>3. PromisedPhase = "idle" /\ PromisedPhase' = "idle"
  BY <1>1 DEF PromisedPhase
<1> QED
  BY <1>1, <1>2, <1>3 DEF PromiseKept, Promise!Next, Promise!Request, Ready

\* A crash or a reboot between two operations.
LEMMA DeathPromise == ASSUME Ready, Sound', Crash \/ Reboot PROVE PromiseKept
<1>1. pc = "idle" /\ pc' = "idle" /\ resp' = "none" /\ UNCHANGED <<exists, disk>>
  BY DEF Crash, Reboot, Return, Sound, fileVars
<1>2. PromisedStatus' = PromisedStatus
  BY <1>1, StatusKept
<1>3. PromisedPhase = "idle" /\ PromisedPhase' = "idle"
  BY <1>1 DEF PromisedPhase
<1>4. ~exists => Clean /\ Clean'
  <2>1. ~exists => Clean
    BY <1>1, LookingIsClean DEF Looking
  <2>2. CASE Crash
    BY <2>1, <2>2 DEF Crash, Clean
  <2>3. CASE Reboot
    BY <2>1, <2>3 DEF Reboot, Clean
  <2> QED
    BY <2>1, <2>2, <2>3
<1>5. (~Clean)' \in IF PromisedStatus = "stopped" THEN {~Clean} ELSE BOOLEAN
  BY <1>4, SeenStatus
<1> QED
  BY <1>1, <1>2, <1>3, <1>5 DEF PromiseKept, Promise!Next, Promise!ServiceRestart, Ready

LEMMA EnvironmentPromise == ASSUME Ready, Sound', Environment PROVE PromiseKept
<1>1. CASE EditPolicy \/ EditProfile \/ EditControlConfig
  <2>1. UNCHANGED <<hostVars, fileVars, pc, mode, resp>>
    BY <1>1 DEF EditPolicy, EditProfile, EditControlConfig
  <2> QED
    BY <2>1, CleanKept, Stutters DEF fileVars
<1>2. CASE ProcessExits \/ TableFlushed
  <2>1. UNCHANGED <<exists, disk, pc, mode, resp>>
    BY <1>2 DEF ProcessExits, TableFlushed, fileVars
  <2>2. CASE exists
    BY <2>1, <2>2, Touches
  <2>3. CASE ~exists
    <3>1. ~Clean
      BY <1>2 DEF ProcessExits, TableFlushed, Clean
    <3>2. pc \in Looking \cup Probing \cup {"c_state", "c_snap"} => Clean
      BY <2>3, LookingIsClean
    <3>3. pc \notin Acquiring \cup Restarting \cup {"c_nft", "c_dhcp", "c_mihomo", "c_sysctl"}
      BY <2>3 DEF Ready, ResidueInv, StartInv, RestartInv, PhaseInv, DueInv
    <3>4. pc = "retain" => Clean
      BY <2>3, EmptyIsClean DEF Ready, ResidueInv, CleanInv, ForwardingInv
    <3> QED
      BY <3>1, <3>2, <3>3, <3>4
         DEF Ready, TypeOK, ControlTyped, Labels, Looking, Probing, Acquiring, Restarting
  <2> QED
    BY <2>2, <2>3
<1>3. CASE AdminForwarding
  <2>1. pc = "idle" /\ UNCHANGED <<owner, nft, exists, disk, pc, mode, resp>> /\ forward' = host'
    BY <1>3 DEF AdminForwarding, fileVars
  <2>2. forward = host
    BY <1>3 DEF AdminForwarding, Ready, ForwardingInv
  <2>3. Clean' = Clean
    BY <2>1, <2>2 DEF Clean
  <2> QED
    BY <2>1, <2>3, Stutters
<1> QED
  BY <1>1, <1>2, <1>3, DeathPromise DEF Environment

-----------------------------------------------------------------------------
(* The result *)

\* Once the promise is void it stays void, and only its types are left.
LEMMA PromiseVoid == ASSUME PhaseInv', TypeOK', ~Sound' PROVE PromiseKept
<1>1. PromisedStatus' \in {"stopped", "active", "cleanup"}
  BY DEF PromisedStatus
<1>2. PromisedPhase' \in {"idle", "starting", "stopping", "restarting"}
  BY DEF PromisedPhase
<1>3. resp' \in {"none", "error", "started", "reloaded", "stopped", "restarted"}
  BY DEF TypeOK, ControlTyped, Responses
<1>4. (~Clean)' \in BOOLEAN /\ (~Sound)' \in BOOLEAN /\ (~Sound)' = TRUE
  OBVIOUS
<1> QED
  BY <1>1, <1>2, <1>3, <1>4 DEF PromiseKept, Promise!Next, Promise!Break, Promise!TypeOK

LEMMA InitPromise == Init => Promise!Init
<1> SUFFICES ASSUME Init PROVE Promise!Init
  OBVIOUS
<1>1. PromisedStatus = "stopped" /\ PromisedPhase = "idle" /\ resp = "none"
  BY DEF Init, PromisedStatus, PromisedPhase
<1>2. Clean /\ Sound
  BY DEF Init, Clean, Sound
<1> QED
  BY <1>1, <1>2 DEF Promise!Init

LEMMA StepPromise ==
    TypeOK /\ TypeOK' /\ ForwardingInv /\ SoundResidue /\ PhaseInv /\ PhaseInv' /\ [Next]_vars
        => [Promise!Next]_(Promise!vars)
<1> SUFFICES ASSUME TypeOK, TypeOK', ForwardingInv, SoundResidue, PhaseInv, PhaseInv', [Next]_vars
             PROVE  PromiseKept
  BY DEF PromiseKept
<1>1. CASE ~Sound'
  BY <1>1, PromiseVoid
<1>2. CASE Sound'
  <2>1. Ready
    BY <1>2, RisksStay DEF Ready, SoundResidue
  <2>2. CASE UNCHANGED vars
    BY <1>2, <2>1, <2>2, CleanKept, Stutters DEF vars, fileVars
  <2> QED
    BY <1>2, <2>1, <2>2, StartPromise, CleanupPromise, ReloadPromise, RestartPromise,
       RequestPromise, EnvironmentPromise DEF Next, OperationSteps
<1> QED
  BY <1>1, <1>2

\* The lifecycle implements the promise made to the operator: a start is all or
\* nothing, "stopped" means that nothing is left, a required cleanup stays required
\* until a stop goes through, a restart of mihomo changes neither - through faults,
\* dying processes, edits, and crashes between operations.
THEOREM LifecycleKeepsPromise == Spec => KeepsPromise
<1>1. Init => Promise!Init
  BY InitPromise
<1>2. TypeOK /\ TypeOK' /\ ForwardingInv /\ SoundResidue /\ PhaseInv /\ PhaseInv' /\ [Next]_vars
          => [Promise!Next]_(Promise!vars)
  BY StepPromise
<1> QED
  BY TypeCorrect, ForwardingInvariant, ResidueAlwaysKnown, PhaseInvariant, <1>1, <1>2, PTL
     DEF Spec, KeepsPromise, Promise!Spec
=============================================================================
