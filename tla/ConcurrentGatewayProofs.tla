----------------------- MODULE ConcurrentGatewayProofs -----------------------
(***************************************************************************)
(* Proofs about ConcurrentGateway: stops and restarts of mihomo that        *)
(* overlap.  The invariants of a single operation are claimed of both, of   *)
(* the one that runs by their names and of the parked one as Other!...; a   *)
(* context switch exchanges the two.                                        *)
(***************************************************************************)
EXTENDS ConcurrentGateway, GatewayLifecycleProofs

\* The lifecycle as the parked operation sees it: the same host and the same files.
Other == INSTANCE GatewayInvariants WITH
    pc <- parked.pc, mode <- parked.mode, cfg <- parked.cfg, st <- parked.st, prev <- parked.prev,
    unload <- parked.unload, cleanErr <- parked.cleanErr, validated <- parked.validated,
    resp <- parked.resp

BothTyped ==
    /\ TypeOK /\ SnapshotPrepared
    /\ Other!ControlTyped /\ Other!LocalsTyped /\ Other!SnapshotPrepared
BothForward == ForwardingInv /\ Other!ForwardingInv
BothMode    == ModeInv /\ Other!ModeInv

\* A start or a reload overlaps with nothing.
Confined ==
    parked.pc # "idle" => /\ parked.mode \in {"stop", "restart"}
                          /\ pc # "idle" => mode \in {"stop", "restart"}

\* What the file says while stops are under way.
Settled == IF exists THEN Records(disk) ELSE Empty

\* Each operation knows what it has to know, of stops that overlap also the file.
BothKnow ==
    /\ pc # "idle" \/ parked.pc = "idle" => ResidueInv
    /\ parked.pc # "idle" => Other!ResidueInv
    /\ pc # "idle" /\ parked.pc # "idle" => mode = "stop" /\ parked.mode = "stop"
    /\ pc # "idle" /\ mode = "stop" => Settled
    /\ parked.pc # "idle" /\ parked.mode = "stop" => Settled

SoundKnowledge == Sound /\ ~restarted => BothKnow

-----------------------------------------------------------------------------
(* What the two operations share *)

LEMMA SameSets ==
    /\ Other!Labels = Labels /\ Other!Modes = Modes /\ Other!Responses = Responses
    /\ Other!Config = Config /\ Other!State = State /\ Other!PidOrNone = PidOrNone
    /\ Other!NoDigest = NoDigest
    /\ Other!Looking = Looking /\ Other!Probing = Probing /\ Other!Acquiring = Acquiring
    /\ Other!Cleaning = Cleaning /\ Other!Restarting = Restarting
<1>1. Other!NoDigest = NoDigest /\ Other!NoPid = NoPid /\ Other!Deferred = Deferred /\ Other!Blank = Blank
  BY DEF NoDigest, Other!NoDigest, NoPid, Other!NoPid, Deferred, Other!Deferred, Blank, Other!Blank
<1>2. Other!Profile = Profile /\ Other!PidOrNone = PidOrNone
  BY <1>1 DEF Profile, Other!Profile, PidOrNone, Other!PidOrNone
<1>3. Other!Config = Config /\ Other!State = State
  BY <1>1, <1>2 DEF Config, Other!Config, State, Other!State
<1>4. Other!Labels = Labels /\ Other!Modes = Modes /\ Other!Responses = Responses
  BY DEF Labels, Other!Labels, Modes, Other!Modes, Responses, Other!Responses
<1>5. /\ Other!Looking = Looking /\ Other!Probing = Probing /\ Other!Acquiring = Acquiring
      /\ Other!Cleaning = Cleaning /\ Other!Restarting = Restarting
  BY DEF Looking, Other!Looking, Probing, Other!Probing, Acquiring, Other!Acquiring,
         Cleaning, Other!Cleaning, Restarting, Other!Restarting
<1> QED
  BY <1>1, <1>2, <1>3, <1>4, <1>5

LEMMA SameHost ==
    /\ Other!Sound = Sound /\ Other!Empty = Empty /\ Other!Alive = Alive
    /\ \A s : Other!Restores(s) = Restores(s) /\ Other!Records(s) = Records(s) /\ Other!Tracks(s) = Tracks(s)
BY DEF Other!Sound, Sound, Other!Empty, Empty, Other!Alive, Alive, Other!Restores, Restores, Other!Blank, Blank,
       Other!Records, Records, Other!Tracks, Tracks

-----------------------------------------------------------------------------
(* A context switch *)

LEMMA Exchanged ==
    ASSUME Switch
    PROVE  /\ UNCHANGED <<hostVars, fileVars, editVars, faults, riskVars, restarted>>
           /\ pc' = parked.pc /\ mode' = parked.mode /\ cfg' = parked.cfg /\ st' = parked.st
           /\ prev' = parked.prev /\ unload' = parked.unload /\ cleanErr' = parked.cleanErr
           /\ validated' = parked.validated /\ resp' = parked.resp
           /\ parked'.pc = pc /\ parked'.mode = mode /\ parked'.cfg = cfg /\ parked'.st = st
           /\ parked'.prev = prev /\ parked'.unload = unload /\ parked'.cleanErr = cleanErr
           /\ parked'.validated = validated /\ parked'.resp = resp
BY DEF Switch, local

LEMMA SwitchTypes == ASSUME BothTyped, Switch PROVE BothTyped'
<1>1. HostTyped' /\ FilesTyped' /\ EditsTyped' /\ RisksTyped'
  BY Exchanged DEF BothTyped, TypeOK, HostTyped, FilesTyped, EditsTyped, RisksTyped,
                   hostVars, fileVars, editVars, riskVars
<1>2. ControlTyped' /\ LocalsTyped'
  BY Exchanged, SameSets DEF BothTyped, ControlTyped, LocalsTyped, Other!ControlTyped, Other!LocalsTyped
<1>3. Other!ControlTyped' /\ Other!LocalsTyped'
  BY Exchanged, SameSets DEF BothTyped, TypeOK, ControlTyped, LocalsTyped, Other!ControlTyped, Other!LocalsTyped
<1>4. SnapshotPrepared' /\ Other!SnapshotPrepared'
  BY Exchanged DEF BothTyped, SnapshotPrepared, Other!SnapshotPrepared, Deferred, Other!Deferred
<1> QED
  BY <1>1, <1>2, <1>3, <1>4 DEF BothTyped, TypeOK

LEMMA SwitchForward == ASSUME BothForward, Switch PROVE BothForward'
<1>1. UNCHANGED <<forward, host, exists, disk>>
  BY Exchanged DEF hostVars, fileVars
<1>3. Restores(disk)' <=> Restores(disk)
  BY <1>1 DEF Restores
<1>4. ForwardingInv'
  BY <1>1, <1>3, Exchanged, SameSets, SameHost DEF BothForward, ForwardingInv, Other!ForwardingInv, Restores
<1>5. Other!ForwardingInv'
  BY <1>1, <1>3, Exchanged, SameSets, SameHost DEF BothForward, ForwardingInv, Other!ForwardingInv, Restores, Other!Restores
<1> QED
  BY <1>4, <1>5 DEF BothForward

LEMMA SwitchMode == ASSUME BothMode, Switch PROVE BothMode'
BY Exchanged, SameSets DEF BothMode, ModeInv, Other!ModeInv

LEMMA SwitchConfined ==
    ASSUME Confined, Overlapping \subseteq {"stop", "restart"}, Switch PROVE Confined'
BY Exchanged DEF Confined, Switch, Operation

-----------------------------------------------------------------------------
(* A step of the operation that runs, or of the environment *)

LEMMA OwnStep ==
    ASSUME Arrives \/ Step \/ Meanwhile
    PROVE  /\ [Next]_vars /\ parked' = parked
           /\ restarted => restarted'
           /\ Requests \/ OperationSteps \/ ProcessExits \/ TableFlushed \/ AdminForwarding
<1>1. CASE Arrives
  BY <1>1 DEF Arrives, Next
<1>2. CASE Step
  BY <1>2 DEF Step, Next
<1>3. CASE Meanwhile
  <2>1. parked' = parked /\ restarted' = restarted
    BY <1>3 DEF Meanwhile
  <2>2. ProcessExits \/ TableFlushed \/ AdminForwarding
    BY <1>3 DEF Meanwhile
  <2> QED
    BY <2>1, <2>2 DEF Next, Environment
<1> QED
  BY <1>1, <1>2, <1>3

LEMMA OwnTypes == ASSUME BothTyped, Arrives \/ Step \/ Meanwhile PROVE BothTyped'
<1>1. TypeOK' /\ SnapshotPrepared'
  BY OwnStep, HostStep, FilesStep, EditsStep, ControlStep, LocalsStep, RisksStep, SnapshotPreparedStep
     DEF BothTyped, TypeOK
<1>2. Other!ControlTyped' /\ Other!LocalsTyped' /\ Other!SnapshotPrepared'
  BY OwnStep DEF BothTyped, Other!ControlTyped, Other!LocalsTyped, Other!SnapshotPrepared
<1> QED
  BY <1>1, <1>2 DEF BothTyped

LEMMA OwnMode == ASSUME BothMode, Arrives \/ Step \/ Meanwhile PROVE BothMode'
<1>1. ModeInv'
  BY OwnStep, ModeStep DEF BothMode
<1>2. Other!ModeInv'
  BY OwnStep DEF BothMode, Other!ModeInv
<1> QED
  BY <1>1, <1>2 DEF BothMode

\* Only an operation that is under way makes a call, and it stays the one it is.
LEMMA ModeKept == ASSUME OperationSteps PROVE pc # "idle" /\ (pc' = "idle" \/ mode' = mode \/ mode = "reload")
<1>1. CASE StartSteps
  BY <1>1 DEF StartSteps, StartLoadState, Unreadable, Prepare, WriteSnapshot, SaveInitialState, EnableForwarding,
         SaveForwarding, StartMihomo, SaveMihomo, StartDnsmasq, SaveDnsmasq, LoadNftables, SaveNftables,
         VerifyNftables, SaveAt, Continue, Return, Rollback
<1>2. CASE StopLoadState \/ CleanupSteps
  BY <1>2 DEF StopLoadState, Unreadable, CleanupSteps, CleanUnload, CleanDnsmasq, CleanMihomo, RestoreForwarding,
         RemoveState, RemoveSnapshot, CleanupDone, RetainCleanupState, Continue, Return
<1>3. CASE ReloadCheck \/ ValidateReloadCandidate \/ RestartSteps
  BY <1>3 DEF ReloadCheck, ValidateReloadCandidate, RestartSteps, RestartCheck, RestartMark, RestartStop,
         RestartUndo, RestartArchiveLog, RestartStart, RestartSave, Continue, Return
<1> QED
  BY <1>1, <1>2, <1>3 DEF OperationSteps

\* A reload ends as a start.
LEMMA ReloadGoesOn ==
    ASSUME OperationSteps, mode = "reload", pc' # "idle" PROVE mode' \in {"reload", "reload_start"}
<1>1. CASE StartSteps
  BY <1>1 DEF StartSteps, StartLoadState, Unreadable, Prepare, WriteSnapshot, SaveInitialState, EnableForwarding,
         SaveForwarding, StartMihomo, SaveMihomo, StartDnsmasq, SaveDnsmasq, LoadNftables, SaveNftables,
         VerifyNftables, SaveAt, Continue, Return, Rollback
<1>2. CASE StopLoadState \/ CleanupSteps
  BY <1>2 DEF StopLoadState, Unreadable, CleanupSteps, CleanUnload, CleanDnsmasq, CleanMihomo, RestoreForwarding,
         RemoveState, RemoveSnapshot, CleanupDone, RetainCleanupState, Continue, Return
<1>3. CASE ReloadCheck \/ ValidateReloadCandidate \/ RestartSteps
  BY <1>3 DEF ReloadCheck, ValidateReloadCandidate, RestartSteps, RestartCheck, RestartMark, RestartStop,
         RestartUndo, RestartArchiveLog, RestartStart, RestartSave, Continue, Return
<1> QED
  BY <1>1, <1>2, <1>3 DEF OperationSteps

LEMMA OwnConfined ==
    ASSUME Confined, Overlapping \subseteq {"stop", "restart"}, Arrives \/ Step \/ Meanwhile
    PROVE  Confined'
<1> SUFFICES ASSUME parked.pc # "idle", pc' # "idle" PROVE mode' \in {"stop", "restart"}
  BY OwnStep DEF Confined
<1>1. CASE Arrives
  BY <1>1 DEF Arrives
<1>2. CASE Step
  BY <1>2, ModeKept DEF Step, Confined
<1>3. CASE Meanwhile
  BY <1>3 DEF Meanwhile, ProcessExits, TableFlushed, Confined
<1> QED
  BY <1>1, <1>2, <1>3

\* The calls of an operation that may overlap.
LEMMA OverlapCalls ==
    ASSUME BothTyped, BothMode, Confined, parked.pc # "idle"
    PROVE  /\ pc \in {"idle", "stop_load", "restart_check"} \cup Cleaning \cup Restarting
           /\ parked.pc \in {"stop_load", "restart_check"} \cup Cleaning \cup Restarting
           /\ pc # "idle" /\ mode = "stop" => pc \in {"stop_load"} \cup Cleaning
           /\ parked.mode = "stop" => parked.pc \in {"stop_load"} \cup Cleaning
<1>1. pc \in Labels /\ parked.pc \in Labels
  BY SameSets DEF BothTyped, TypeOK, ControlTyped, Other!ControlTyped
<1>2. ModeInv /\ Other!ModeInv
  BY DEF BothMode
<1>3. Labels = {"idle", "load", "stop_load", "reload_check", "reload_validate", "restart_check"}
               \cup Probing \cup Acquiring \cup Cleaning \cup Restarting
  BY DEF Labels, Probing, Acquiring, Cleaning, Restarting
<1>4. pc # "idle" => mode \in {"stop", "restart"}
  BY DEF Confined
<1>5. parked.mode \in {"stop", "restart"}
  BY DEF Confined
<1>6. pc \in {"idle", "stop_load", "restart_check"} \cup Cleaning \cup Restarting
  BY <1>1, <1>2, <1>3, <1>4 DEF ModeInv
<1>7. parked.pc \in {"stop_load", "restart_check"} \cup Cleaning \cup Restarting
  BY <1>1, <1>2, <1>3, <1>5, SameSets DEF Other!ModeInv
<1>8. pc # "idle" /\ mode = "stop" => pc \in {"stop_load"} \cup Cleaning
  BY <1>2, <1>6 DEF ModeInv
<1>9. parked.mode = "stop" => parked.pc \in {"stop_load"} \cup Cleaning
  BY <1>2, <1>7, SameSets DEF Other!ModeInv
<1> QED
  BY <1>6, <1>7, <1>8, <1>9

-----------------------------------------------------------------------------
(* Forwarding *)

\* A call that is not one of a start keeps ip_forward or puts it back.
LEMMA GentleStep ==
    ASSUME TypeOK, ForwardingInv, pc # "enable", Requests \/ OperationSteps \/ ProcessExits \/ TableFlushed
    PROVE  host' = host /\ forward' \in {forward, host}
<1>1. CASE RestoreForwarding
  <2>1. host' = host /\ forward' \in {forward, st.before} /\ (st.before = Blank => forward' = forward)
    BY <1>1 DEF RestoreForwarding
  <2>2. Restores(st)
    BY <1>1 DEF RestoreForwarding, ForwardingInv, Cleaning
  <2> QED
    BY <2>1, <2>2 DEF Restores
<1>2. CASE StartSteps
  BY <1>2 DEF StartSteps, StartLoadState, Prepare, WriteSnapshot, SaveInitialState, EnableForwarding,
         SaveForwarding, StartMihomo, SaveMihomo, StartDnsmasq, SaveDnsmasq, LoadNftables, SaveNftables,
         VerifyNftables, SaveAt, hostVars
<1>3. CASE StopLoadState \/ (CleanupSteps /\ ~RestoreForwarding)
  BY <1>3 DEF StopLoadState, CleanupSteps, CleanUnload, CleanDnsmasq, CleanMihomo,
         RemoveState, RemoveSnapshot, RetainCleanupState, hostVars
<1>4. CASE ReloadCheck \/ ValidateReloadCandidate \/ RestartSteps
  BY <1>4 DEF ReloadCheck, ValidateReloadCandidate, RestartSteps, RestartCheck, RestartMark, RestartStop,
         RestartUndo, RestartArchiveLog, RestartStart, RestartSave, hostVars
<1>5. CASE Requests \/ ProcessExits \/ TableFlushed
  BY <1>5 DEF Requests, BeginStart, BeginStop, BeginReload, BeginRestart, Begin, ProcessExits, TableFlushed, hostVars
<1> QED
  BY <1>1, <1>2, <1>3, <1>4, <1>5 DEF OperationSteps

LEMMA OwnForward ==
    ASSUME BothTyped, BothMode, Confined, BothForward, Arrives \/ Step \/ Meanwhile
    PROVE  BothForward'
<1>1. ForwardingInv'
  BY OwnStep, ForwardingStep DEF BothTyped, BothForward
<1>2. parked' = parked
  BY OwnStep
<1>3. CASE parked.pc = "idle"
  BY <1>1, <1>2, <1>3, SameSets DEF BothForward, ForwardingInv, Other!ForwardingInv, Probing, Acquiring, Cleaning,
         Restarting, Restores, Other!Restores, Blank, Other!Blank
<1>4. CASE parked.pc # "idle"
  <2>1. pc # "enable" /\ parked.pc \notin Probing \cup Acquiring
    BY <1>4, OverlapCalls DEF Probing, Acquiring, Cleaning, Restarting
  <2>3. host' = host /\ forward' \in {forward, host}
    <3>1. Requests \/ OperationSteps \/ ProcessExits \/ TableFlushed
      BY <1>4 DEF Arrives, Step, Meanwhile
    <3> QED
      BY <2>1, <3>1, GentleStep DEF BothTyped, BothForward
  <2>4. parked.pc \in Cleaning \cup Restarting => Restores(parked.st)
    BY SameSets, SameHost DEF BothForward, Other!ForwardingInv
  <2>5. parked.pc \in Cleaning \cup Restarting => Other!Restores(parked.st)'
    BY <1>2, <2>3, <2>4 DEF Restores, Other!Restores, Blank, Other!Blank
  <2>6. parked.pc \in {"c_state", "c_snap"} => forward' = host'
    BY <2>3 DEF BothForward, Other!ForwardingInv
  <2>7. (exists' => Other!Restores(disk)') /\ (~exists' => forward' = host')
    BY <1>1 DEF ForwardingInv, Restores, Other!Restores, Blank, Other!Blank
  <2> QED
    BY <1>1, <1>2, <2>1, <2>5, <2>6, <2>7, SameSets DEF BothForward, Other!ForwardingInv
<1> QED
  BY <1>3, <1>4

-----------------------------------------------------------------------------
(* What stops that overlap know *)

LEMMA SettledLoss ==
    ASSUME Settled, Alive' \subseteq Alive, nft' => nft, UNCHANGED <<exists, disk>> PROVE Settled'
BY DEF Settled, Records, Tracks, Empty

\* A stop leaves a state file that says what is there, or nothing at all.
LEMMA StopSettles ==
    ASSUME TypeOK, ResidueInv, Settled, ~abandoned', StopLoadState \/ CleanupSteps PROVE Settled'
<1>1. CASE StopLoadState \/ CleanUnload \/ RestoreForwarding \/ RemoveSnapshot
  <2>1. UNCHANGED <<owner, exists, disk>>
    BY <1>1 DEF StopLoadState, CleanUnload, RestoreForwarding, RemoveSnapshot, hostVars, fileVars
  <2>2. nft' => nft
    BY <1>1 DEF StopLoadState, CleanUnload, RestoreForwarding, RemoveSnapshot, hostVars, TypeOK, HostTyped
  <2> QED
    BY <2>1, <2>2, AliveKept, SettledLoss
<1>2. CASE CleanDnsmasq
  <2>1. UNCHANGED <<nft, exists, disk>> /\ StopProcess(st.dhcp)
    BY <1>2 DEF CleanDnsmasq, fileVars
  <2> QED
    BY <2>1, AliveStopped, SettledLoss
<1>3. CASE CleanMihomo
  <2>1. UNCHANGED <<nft, exists, disk>> /\ StopProcess(st.mihomo)
    BY <1>3 DEF CleanMihomo, fileVars
  <2> QED
    BY <2>1, AliveStopped, SettledLoss
<1>4. CASE RemoveState
  <2>1. pc = "c_state" /\ UNCHANGED <<owner, nft>>
    BY <1>4 DEF RemoveState, hostVars
  <2>2. Empty'
    BY <2>1, AliveKept DEF ResidueInv, CleanInv, Empty
  <2> QED
    BY <2>2, EmptyIsRecorded DEF Settled, Empty, Records, Tracks
<1>5. CASE RetainCleanupState
  <2>1. /\ pc = "retain" /\ UNCHANGED <<owner, nft>> /\ exists' = TRUE
        /\ disk' = [st EXCEPT !.cleanup = TRUE]
    BY <1>5 DEF RetainCleanupState, hostVars
  <2>2. disk'.dhcp = st.dhcp /\ disk'.mihomo = st.mihomo /\ disk'.cleanup
    BY <2>1 DEF TypeOK, LocalsTyped, State
  <2>3. Tracks(st)
    BY <2>1 DEF ResidueInv, CleanInv, Cleaning
  <2> QED
    BY <2>1, <2>2, <2>3, AliveKept DEF Settled, Records, Tracks
<1> QED
  BY <1>1, <1>2, <1>3, <1>4, <1>5 DEF CleanupSteps

LEMMA CallOfStop ==
    ASSUME OperationSteps, pc \in {"stop_load"} \cup Cleaning PROVE StopLoadState \/ CleanupSteps
<1>1. CASE StartSteps
  BY <1>1 DEF StartSteps, StartLoadState, Prepare, WriteSnapshot, SaveInitialState, EnableForwarding,
         SaveForwarding, StartMihomo, SaveMihomo, StartDnsmasq, SaveDnsmasq, LoadNftables, SaveNftables,
         VerifyNftables, SaveAt, Cleaning
<1>2. CASE ReloadCheck \/ ValidateReloadCandidate \/ RestartSteps
  BY <1>2 DEF ReloadCheck, ValidateReloadCandidate, RestartSteps, RestartCheck, RestartMark, RestartStop,
         RestartUndo, RestartArchiveLog, RestartStart, RestartSave, Cleaning
<1> QED
  BY <1>1, <1>2 DEF OperationSteps

\* What a stop does to the host leaves less for another stop to know.
LEMMA StopShrinks ==
    ASSUME TypeOK, StopLoadState \/ CleanupSteps PROVE Alive' \subseteq Alive /\ (nft' => nft)
<1>1. CASE StopLoadState \/ CleanUnload \/ RestoreForwarding \/ RemoveState \/ RemoveSnapshot \/ RetainCleanupState
  <2>1. UNCHANGED owner
    BY <1>1 DEF StopLoadState, CleanUnload, RestoreForwarding, RemoveState, RemoveSnapshot, RetainCleanupState, hostVars
  <2>2. nft' => nft
    BY <1>1 DEF StopLoadState, CleanUnload, RestoreForwarding, RemoveState, RemoveSnapshot, RetainCleanupState,
                hostVars, TypeOK, HostTyped
  <2> QED
    BY <2>1, <2>2, AliveKept
<1>2. CASE CleanDnsmasq \/ CleanMihomo
  <2>1. UNCHANGED nft /\ (StopProcess(st.dhcp) \/ StopProcess(st.mihomo))
    BY <1>2 DEF CleanDnsmasq, CleanMihomo
  <2> QED
    BY <2>1, AliveStopped
<1> QED
  BY <1>1, <1>2 DEF CleanupSteps

\* ProcessExits and TableFlushed do as well, and change no file.
LEMMA LossShrinks ==
    ASSUME ProcessExits \/ TableFlushed
    PROVE  Alive' \subseteq Alive /\ (nft' => nft) /\ UNCHANGED <<fileVars, pc, mode, localVars, abandoned>>
<1>1. CASE ProcessExits
  <2>1. PICK p \in Pids : owner' = Kill(p)
    BY <1>1 DEF ProcessExits
  <2>2. Alive' \subseteq Alive
    BY <2>1, AliveKilled
  <2> QED
    BY <1>1, <2>2 DEF ProcessExits, riskVars
<1>2. CASE TableFlushed
  BY <1>2, AliveKept DEF TableFlushed, riskVars
<1> QED
  BY <1>1, <1>2

LEMMA OtherLoss ==
    ASSUME Other!ResidueInv, Alive' \subseteq Alive, nft' => nft, UNCHANGED <<exists, disk, parked>>
    PROVE  Other!ResidueInv'
<1> USE SameSets DEF Other!Records, Other!Tracks, Other!Empty, Other!Alive, Alive
<1>1. Other!RestInv'
  BY DEF Other!ResidueInv, Other!RestInv
<1>2. Other!StartInv'
  BY DEF Other!ResidueInv, Other!StartInv
<1>3. Other!CleanInv'
  BY DEF Other!ResidueInv, Other!CleanInv
<1>4. Other!RestartInv'
  BY DEF Other!ResidueInv, Other!RestartInv
<1> QED
  BY <1>1, <1>2, <1>3, <1>4 DEF Other!ResidueInv

\* A stop knows what it has to while another stop moves on.
LEMMA OtherStop ==
    ASSUME Other!ResidueInv, Settled', Alive' \subseteq Alive, nft' => nft, UNCHANGED parked,
           parked.pc \in {"stop_load"} \cup Cleaning
    PROVE  Other!ResidueInv'
<1> USE SameSets DEF Other!Records, Other!Tracks, Other!Empty, Other!Alive, Alive
<1>1. Other!RestInv'
  BY DEF Other!RestInv, Settled, Records, Tracks, Empty, Probing, Cleaning
<1>2. exists' \/ Other!Empty'
  BY DEF Settled, Empty
<1>3. Other!CleanInv'
  BY <1>2 DEF Other!ResidueInv, Other!CleanInv
<1>4. Other!StartInv' /\ Other!RestartInv'
  BY DEF Other!StartInv, Other!RestartInv, Acquiring, Cleaning, Restarting
<1> QED
  BY <1>1, <1>3, <1>4 DEF Other!ResidueInv

LEMMA SwitchKnowledge == ASSUME SoundKnowledge, Switch PROVE SoundKnowledge'
<1>1. UNCHANGED <<owner, nft, exists, disk, abandoned, interrupted, restarted>>
  BY Exchanged DEF hostVars, fileVars, riskVars
<1> SUFFICES ASSUME Sound', ~restarted' PROVE BothKnow'
  BY DEF SoundKnowledge
<1>2. BothKnow
  BY <1>1 DEF SoundKnowledge, Sound
<1>3. Alive' = Alive /\ Empty' = Empty /\ (Settled' <=> Settled)
  BY <1>1, AliveKept DEF Empty, Settled, Records, Tracks
<1>4. ASSUME Other!ResidueInv PROVE ResidueInv'
  <2>1. RestInv'
    BY <1>1, <1>3, <1>4, Exchanged, SameSets, SameHost DEF Other!ResidueInv, Other!RestInv, RestInv, Records, Tracks
  <2>2. StartInv'
    BY <1>1, <1>3, <1>4, Exchanged, SameSets, SameHost DEF Other!ResidueInv, Other!StartInv, StartInv, Records, Tracks
  <2>3. CleanInv'
    BY <1>1, <1>3, <1>4, Exchanged, SameSets, SameHost DEF Other!ResidueInv, Other!CleanInv, CleanInv, Records, Tracks
  <2>4. RestartInv'
    BY <1>1, <1>3, <1>4, Exchanged, SameSets, SameHost DEF Other!ResidueInv, Other!RestartInv, RestartInv, Records, Tracks
  <2> QED
    BY <2>1, <2>2, <2>3, <2>4 DEF ResidueInv
<1>5. ASSUME ResidueInv PROVE Other!ResidueInv'
  <2> USE DEF Other!Empty, Other!Alive, Other!Records, Other!Tracks, Alive
  <2>1. Other!RestInv'
    BY <1>1, <1>3, <1>5, Exchanged, SameSets DEF ResidueInv, Other!RestInv, RestInv, Records, Tracks, Empty
  <2>2. Other!StartInv'
    BY <1>1, <1>3, <1>5, Exchanged, SameSets DEF ResidueInv, Other!StartInv, StartInv, Records, Tracks, Empty
  <2>3. Other!CleanInv'
    BY <1>1, <1>3, <1>5, Exchanged, SameSets DEF ResidueInv, Other!CleanInv, CleanInv, Records, Tracks, Empty
  <2>4. Other!RestartInv'
    BY <1>1, <1>3, <1>5, Exchanged, SameSets DEF ResidueInv, Other!RestartInv, RestartInv, Records, Tracks, Empty
  <2> QED
    BY <2>1, <2>2, <2>3, <2>4 DEF Other!ResidueInv
<1>6. pc # "idle" \/ parked.pc # "idle"
  BY DEF Switch
<1> QED
  BY <1>2, <1>3, <1>4, <1>5, <1>6, Exchanged DEF BothKnow

LEMMA OwnKnowledge ==
    ASSUME BothTyped, BothMode, Confined, BothForward, SoundKnowledge,
           Overlapping \subseteq {"stop", "restart"}, Arrives \/ Step \/ Meanwhile
    PROVE  SoundKnowledge'
<1> SUFFICES ASSUME Sound', ~restarted' PROVE BothKnow'
  BY DEF SoundKnowledge
<1>1. /\ [Next]_vars /\ parked' = parked /\ ~restarted
      /\ Requests \/ OperationSteps \/ ProcessExits \/ TableFlushed \/ AdminForwarding
  BY OwnStep
<1>2. TypeOK /\ ForwardingInv /\ ModeInv
  BY DEF BothTyped, BothForward, BothMode
<1>3. Sound /\ BothKnow /\ ~abandoned'
  BY <1>1, <1>2, RisksStay DEF SoundKnowledge, Sound
<1>4. ResidueInv => ResidueInv'
  BY <1>1, <1>2, <1>3, ResidueStep DEF SoundResidue
<1>5. ASSUME OperationSteps, pc \in {"stop_load"} \cup Cleaning, ResidueInv, Settled PROVE Settled'
  BY <1>2, <1>3, <1>5, CallOfStop, StopSettles
<1>6. ASSUME ProcessExits \/ TableFlushed, Settled PROVE Settled'
  BY <1>6, LossShrinks, SettledLoss DEF fileVars
<1>7. CASE parked.pc = "idle"
  <2>1. ResidueInv /\ ResidueInv'
    BY <1>3, <1>4, <1>7 DEF BothKnow
  <2>2. ASSUME pc' # "idle", mode' = "stop" PROVE Settled'
    <3>1. CASE Requests
      <4>1. pc = "idle" /\ UNCHANGED <<owner, nft, exists, disk>>
        BY <3>1 DEF Requests, BeginStart, BeginStop, BeginReload, BeginRestart, Begin, hostVars, fileVars
      <4> QED
        BY <2>1, <4>1, AliveKept DEF ResidueInv, RestInv, Looking, Settled, Records, Tracks, Empty
    <3>2. CASE OperationSteps
      <4>1. pc # "idle" /\ (mode = "stop" \/ mode = "reload")
        BY <2>2, <3>2, ModeKept
      <4>2. CASE mode = "stop"
        <5>1. pc \in {"stop_load"} \cup Cleaning
          BY <1>2, <4>1, <4>2 DEF ModeInv, TypeOK, ControlTyped, Labels, Probing, Acquiring, Cleaning, Restarting
        <5> QED
          BY <1>3, <1>5, <2>1, <3>2, <4>1, <4>2, <5>1 DEF BothKnow
      <4>3. CASE mode = "reload" /\ mode' # mode
        BY <2>2, <3>2, <4>3, ReloadGoesOn
      <4> QED
        BY <2>2, <4>1, <4>2, <4>3
    <3>3. CASE ProcessExits \/ TableFlushed
      BY <1>3, <1>6, <2>2, <3>3, LossShrinks DEF BothKnow
    <3>4. CASE AdminForwarding
      BY <2>2, <3>4 DEF AdminForwarding
    <3> QED
      BY <1>1, <3>1, <3>2, <3>3, <3>4
  <2> QED
    BY <1>1, <1>7, <2>1, <2>2 DEF BothKnow
<1>8. CASE parked.pc # "idle" /\ pc = "idle"
  <2>1. Other!ResidueInv /\ (parked.mode = "stop" => Settled)
    BY <1>3, <1>8 DEF BothKnow
  <2>2. CASE Arrives
    <3>1. /\ mode' \in {"stop", "restart"} /\ parked.mode \in {"stop", "restart"}
          /\ ~(mode' = "restart") /\ ~(parked.mode = "restart")
      BY <1>1, <1>8, <2>2 DEF Arrives, Confined
    <3>2. pc' = "stop_load" /\ UNCHANGED <<owner, nft, exists, disk>>
      BY <2>2, <3>1 DEF Arrives, Requests, BeginStart, BeginStop, BeginReload, BeginRestart, Begin, hostVars, fileVars
    <3>3. Settled /\ Settled'
      BY <2>1, <3>1, <3>2, AliveKept DEF Settled, Records, Tracks, Empty
    <3>4. ResidueInv'
      BY <3>2, <3>3, ToLooking DEF Settled, Looking
    <3>5. Other!ResidueInv'
      BY <1>1, <2>1, <3>2, AliveKept, OtherLoss
    <3> QED
      BY <1>1, <3>1, <3>3, <3>4, <3>5 DEF BothKnow
  <2>3. CASE ProcessExits \/ TableFlushed
    <3>1. Other!ResidueInv'
      BY <1>1, <2>1, <2>3, LossShrinks, OtherLoss DEF fileVars
    <3>2. pc' = "idle" /\ (parked.mode = "stop" => Settled')
      BY <1>6, <1>8, <2>1, <2>3, LossShrinks
    <3> QED
      BY <1>1, <1>8, <3>1, <3>2 DEF BothKnow
  <2> QED
    BY <1>8, <2>2, <2>3, ModeKept DEF Step, Meanwhile
<1>9. CASE parked.pc # "idle" /\ pc # "idle"
  <2>1. /\ ResidueInv /\ ResidueInv' /\ Other!ResidueInv /\ Settled
        /\ mode = "stop" /\ parked.mode = "stop"
    BY <1>3, <1>4, <1>9 DEF BothKnow
  <2>2. /\ pc \in {"stop_load"} \cup Cleaning
        /\ parked.pc \in {"stop_load"} \cup Cleaning
    BY <1>9, <2>1, OverlapCalls
  <2>3. CASE OperationSteps
    <3>1. Settled'
      BY <1>5, <2>1, <2>2, <2>3
    <3>2. Other!ResidueInv'
      BY <1>1, <1>2, <2>1, <2>2, <2>3, <3>1, CallOfStop, StopShrinks, OtherStop
    <3>3. pc' = "idle" \/ mode' = "stop"
      BY <2>1, <2>3, ModeKept
    <3> QED
      BY <1>1, <1>9, <2>1, <3>1, <3>2, <3>3 DEF BothKnow
  <2>4. CASE ProcessExits \/ TableFlushed
    <3>1. Settled' /\ Other!ResidueInv' /\ mode' = mode
      BY <1>1, <1>6, <2>1, <2>4, LossShrinks, OtherLoss DEF fileVars
    <3> QED
      BY <1>1, <1>9, <2>1, <3>1 DEF BothKnow
  <2>5. ~Requests
    BY <1>9 DEF Requests, BeginStart, BeginStop, BeginReload, BeginRestart, Begin
  <2> QED
    BY <1>9, <2>3, <2>4, <2>5 DEF Arrives, Step, Meanwhile
<1> QED
  BY <1>7, <1>8, <1>9

-----------------------------------------------------------------------------
(* The results *)

Overlap == BothTyped /\ BothMode /\ Confined /\ BothForward /\ SoundKnowledge

LEMMA OverlapInit == ConcurrentInit => Overlap
<1> SUFFICES ASSUME ConcurrentInit PROVE Overlap
  OBVIOUS
<1>1. Init /\ parked = Idle
  BY DEF ConcurrentInit
<1>2. /\ parked.pc = "idle" /\ parked.mode = "none" /\ parked.resp = "none" /\ parked.cfg = NoConfig
      /\ parked.st = ZeroState /\ parked.prev = NoPid /\ parked.unload = FALSE
      /\ parked.cleanErr = FALSE /\ parked.validated = NoDigest
  BY <1>1 DEF Idle
<1>3. BothTyped
  <2>1. Other!ControlTyped /\ Other!SnapshotPrepared
    BY <1>2 DEF Other!ControlTyped, Other!Labels, Other!Modes, Other!Responses, Other!SnapshotPrepared
  <2>2. Other!LocalsTyped
    BY <1>2, SameSets, StateFacts, ConfigFacts DEF Other!LocalsTyped, PidOrNone
  <2> QED
    BY <1>1, <2>1, <2>2, InitTypes DEF BothTyped
<1>4. BothMode /\ Confined
  BY <1>1, <1>2, SameSets DEF BothMode, ModeInv, Other!ModeInv, Confined, Init, Probing, Acquiring, Cleaning, Restarting
<1>5. BothForward
  BY <1>1, <1>2, SameSets DEF BothForward, ForwardingInv, Other!ForwardingInv, Init, Probing, Acquiring, Cleaning,
         Restarting
<1>6. SoundKnowledge
  <2>1. ResidueInv
    BY <1>1 DEF Init, ResidueInv, RestInv, StartInv, CleanInv, RestartInv, Empty, Alive,
           Looking, Probing, Acquiring, Cleaning, Restarting
  <2> QED
    BY <1>1, <1>2, <2>1 DEF Init, SoundKnowledge, BothKnow
<1> QED
  BY <1>3, <1>4, <1>5, <1>6 DEF Overlap

LEMMA StutterKeeps == ASSUME Overlap, UNCHANGED <<vars, parked, restarted>> PROVE Overlap'
<1>1. [Next]_vars
  OBVIOUS
<1>2. BothTyped'
  <2>1. TypeOK' /\ SnapshotPrepared'
    BY <1>1, HostStep, FilesStep, EditsStep, ControlStep, LocalsStep, RisksStep, SnapshotPreparedStep
       DEF Overlap, BothTyped, TypeOK
  <2> QED
    BY <2>1 DEF Overlap, BothTyped, Other!ControlTyped, Other!LocalsTyped, Other!SnapshotPrepared
<1>3. BothMode' /\ Confined'
  BY DEF Overlap, BothMode, ModeInv, Other!ModeInv, Confined, vars
<1>4. ForwardingInv'
  BY <1>1, ForwardingStep DEF Overlap, BothTyped, BothForward
<1>5. Other!ForwardingInv'
  BY DEF Overlap, BothForward, Other!ForwardingInv, Other!Restores, vars, hostVars, fileVars
<1>6. UNCHANGED <<owner, nft, exists, disk, pc, mode, abandoned, interrupted>> /\ UNCHANGED fileVars /\ UNCHANGED localVars
  BY DEF vars, hostVars, fileVars, riskVars
<1>7. SoundKnowledge'
  <2>1. ResidueInv => ResidueInv'
    BY <1>6, AliveKept, LossResidue
  <2>2. Other!ResidueInv => Other!ResidueInv'
    BY <1>6, AliveKept, OtherLoss
  <2>3. Settled => Settled'
    BY <1>6, AliveKept, SettledLoss
  <2>4. BothKnow => BothKnow'
    BY <1>6, <2>1, <2>2, <2>3 DEF BothKnow
  <2> QED
    BY <1>6, <2>4 DEF Overlap, SoundKnowledge, Sound
<1> QED
  BY <1>2, <1>3, <1>4, <1>5, <1>7 DEF Overlap, BothForward

LEMMA OverlapStep ==
    ASSUME Overlapping \subseteq {"stop", "restart"}
    PROVE  Overlap /\ [ConcurrentNext]_allVars => Overlap'
<1> SUFFICES ASSUME Overlap, [ConcurrentNext]_allVars PROVE Overlap'
  OBVIOUS
<1>1. CASE Switch
  BY <1>1, SwitchTypes, SwitchMode, SwitchConfined, SwitchForward, SwitchKnowledge DEF Overlap
<1>2. CASE Arrives \/ Step \/ Meanwhile
  BY <1>2, OwnTypes, OwnMode, OwnConfined, OwnForward, OwnKnowledge DEF Overlap
<1>3. CASE UNCHANGED allVars
  BY <1>3, StutterKeeps DEF allVars
<1> QED
  BY <1>1, <1>2, <1>3 DEF ConcurrentNext

\* Stops and restarts of mihomo that overlap in any way, for any number of pids and
\* faults, do not lose the value ip_forward had before the gateway: RestoreForwarding
\* and the saves of state.json all write a value of the host.
THEOREM OverlapsKeepForwarding ==
    ASSUME Overlapping \subseteq {"stop", "restart"}
    PROVE  ConcurrentSpec => []OverlapKeepsForwarding
<1>1. Overlap => OverlapKeepsForwarding
  BY DEF Overlap, BothForward, ForwardingInv, Restores, OverlapKeepsForwarding, ForwardingRecorded
<1> QED
  BY OverlapInit, OverlapStep, <1>1, PTL DEF ConcurrentSpec

\* After stops that overlapped, a later stop knows of all that is left: nothing
\* without a state file, and every process and the table with one.
THEOREM OverlapsAreKnown ==
    ASSUME Overlapping \subseteq {"stop", "restart"}
    PROVE  ConcurrentSpec => []QuietIsKnown
<1>1. Overlap => QuietIsKnown
  <2> SUFFICES ASSUME Overlap, Quiet, ~restarted, Sound
               PROVE  /\ ~exists => Clean
                      /\ exists => /\ \A p \in Pids : owner[p] # "free" => p \in {disk.dhcp, disk.mihomo}
                                   /\ nft => disk.nft \/ disk.cleanup
    BY DEF QuietIsKnown, QuietStoppedIsClean, QuietIsRecorded, NoResidueWhenStopped, EverythingRecorded
  <2>1. Settled
    BY DEF Overlap, SoundKnowledge, BothKnow, Quiet, ResidueInv, RestInv, Looking, Settled
  <2>2. ~exists => forward = host
    BY DEF Overlap, BothForward, ForwardingInv
  <2> QED
    BY <2>1, <2>2, EmptyIsClean DEF Settled, Records, Tracks, Alive
<1> QED
  BY OverlapInit, OverlapStep, <1>1, PTL DEF ConcurrentSpec

=============================================================================
