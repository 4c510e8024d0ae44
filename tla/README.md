# OpenSurge for Linux: specifications and proofs

OpenSurge turns a Linux host into a transparent gateway: it runs dnsmasq (DHCP
and DNS for the LAN) and mihomo (the proxy engine, with a TUN device), loads an
nftables table and enables IPv4 forwarding. This directory holds TLA+
specifications of that program, TLC configurations that check them on small
instances, and TLAPS proofs for every instance.

## 1. The system

| Part | Code | State it keeps | Operations | Talks to |
|---|---|---|---|---|
| Gateway lifecycle | `internal/gateway/manager.go` | none of its own; the host, through the managers below, and the runtime directory | Start, Stop, Reload, RestartMihomo, rollback, retainCleanupState | all managers, runtime state, config |
| Gateway status | `internal/gateway/status.go` | none | Status | state.json, processes, nft, mihomo API |
| Preflight | `internal/gateway/preflight.go`, `reservation_conflicts.go` | none | ValidateTopology, reservation probes | `ip`, ARP |
| Runtime state | `internal/runtime/state.go` | `state.json`: pids, previous ip_forward, NftablesLoaded, CleanupRequired, digests | LoadState, SaveState (temporary file and rename), RemoveState | - |
| Processes | `internal/process` | the processes it detached | StartDetached, IsAlive, StopPID, RequireAlive | kernel |
| mihomo | `internal/mihomo` | `mihomo.yaml`, log, process, HTTP API | WriteConfig, ValidateConfig, Start (waits for API and TUN), Stop | processes, HTTP |
| dnsmasq | `internal/dhcp` | `dnsmasq.conf`, lease file, process | Start, Stop, ReconcilePolicyLeases | processes |
| nftables | `internal/nftables` | table `inet opensurge` | Load, Loaded, Unload | `nft` |
| Forwarding | `internal/sysctl` | `net.ipv4.ip_forward` | Current, Enable, Restore | `sysctl` |
| Gateway service | `internal/controlapi/actions.go` | a Unix socket, one goroutine per connection, no lock | start, stop, reload, restart-mihomo, apply-profile, apply-device-policy, apply-control-config | lifecycle, configuration transactions |
| Configuration transactions | `internal/controlapi/configuration_actions.go` | `config.yaml`, imported profiles, device policy document | applyProfile, ApplyDevicePolicy, applyControlConfig | lifecycle (reload, start), mihomo validator |
| Control API | `internal/controlapi/server.go`, `store.go` | operations, recovery state, devices, idempotency records | handlers of the web UI, runOperation, recovery workflow | gateway service (socket), store |
| Sessions, account | `auth.go`, authentication handlers of `server.go` | `admin.json`; sessions and failed logins in memory | setup, login, logout, change of password; `opensurge-setup` on the same file | `opensurge-setup` (file) |
| Sources, credentials | `sources.go`, `credentials.go`, `store.go` | `sources.json`, snapshot files, `credentials/sources.json` | two migrations at boot, import, refresh, upload, apply | store, HTTP |
| Traffic sampler | `device_traffic.go` | connections of the last sample | sample, classify, rates | mihomo API |
| Connectivity, proxy health | `connectivity.go`, `proxy_health.go` | none; a channel and a slice per request | probe targets, find the route a probe took | mihomo API |
| State events | `handleEvents`, `stateEvent` in `server.go` | the event sent last, per stream | read five files, send what has changed | files of the others |
| TLS, setup commands | `tls.go`, `layout.go`, `cmd/opensurge-setup` | the HTTPS pair, `admin.json`, groups and modes | init, replace-certificate, reset-password, reset-permissions | control service (files) |
| Device policy | `internal/device`, `internal/mihomo/device_policy.go` | policy document, compiled bundle, applied snapshot | validate, compile, compose with the profile, list changed devices, select | mihomo API |
| Configuration | `internal/config` | `config.yaml` | Load, LoadRuntime, Validate, PrepareDevicePolicy, Render, migration | device policy |
| Installer, packages | `scripts/opensurge-install`, `packaging` | a journal of the host state before installation | install, upgrade, rollback, uninstall | systemd, dpkg |

How they interact: the web UI calls the unprivileged control API, which calls
the root gateway service over a Unix socket with a two-minute deadline; the
service loads the configuration file and runs one lifecycle or configuration
operation per connection. The command line runs the same lifecycle operations
in a process of its own. All meet in the runtime directory: `state.json` is the
only record of what has been done to the host.

### What is hard

* A lifecycle operation is a sequence of a dozen calls, each of which may fail,
  some after having taken effect; what has been done must be undone or recorded.
* The program, its child processes or the host may die between any two calls.
* Nothing serialises operations: two connections, or a connection and the
  command line, interleave freely over the same files.
* What an operation validates and what it applies are read at different times.
* Cleanup itself fails, partly, and is retried later from what was recorded.
* The control API reads and writes its files one at a time, without a lock around
  a request; a service that dies leaves a request half done.
* Two programs share files (the service and `opensurge-setup`), and their mutexes
  are not the same.
* The order of compiled rules decides what a packet meets, and three sources of
  rules (device policy, template, profile) are put together.

PROJECT.json lists each hazard at its line with the properties that would catch
it going wrong.

### What makes the parts correct

* Lifecycle: a start is all or nothing; "stopped" means the host is as it was;
  what remains after a failed cleanup is recorded and can be cleaned up later;
  the previous value of ip_forward is never lost; RestartMihomo touches only
  mihomo.
* Reload: what was validated is what is applied; a rejected candidate leaves
  everything alone.
* Configuration transactions: a revision is replaced only by a change made to
  it; a failed change leaves the configuration that was there, and files it
  refers to; the network configuration changes only while the gateway is stopped.
* Control API: an operation is carried out once per idempotency key and always
  ends; the recovery stages follow their order.
* Device policy: every packet goes where the applied document says; a device that is
  not listed as changed is served as before; a selection moves one device.
* Account and sessions: the account is given away once; passwords cannot be tried
  without limit, nor is an administrator locked out for ever; a session that is over
  stays over.
* Sources: no address is lost by a migration; the catalogue names files that exist
  and all that was reported; a failed import changes nothing.
* Setup: where there is an account there is a pair the service can start from.
* Queries: a byte is shown once, an answer is complete and comes, and the last event
  of a stream is the state that stays.

## 2. The modules

| Module | What it is |
|---|---|
| `GatewayLifecycle` | Start, Stop, Reload and RestartMihomo, one action per call that reads or changes host state; the environment; the properties |
| `GatewayPromise` | what the lifecycle promises an operator, without saying how: an abstract specification with five variables |
| `ConcurrentGateway` | two operations of `GatewayLifecycle` interleaved at every call |
| `ConfigApply` | the configuration transactions of the gateway service, overlapping each other and start, stop and reload |
| `ControlOperations` | the control API: gateway operations and their idempotency keys, the recovery checklist of a DHCP takeover, next to the gateway service |
| `AuthSessions` | the account, logins with their lockout, sessions, setup in the browser and by `opensurge-setup` |
| `SourceCatalog` | `sources.json`, snapshots and credentials: migrations at boot, imports, refreshes, applying a source |
| `ManagementSetup` | the commands of `opensurge-setup` file by file, next to the service that loads the pair |
| `PolicyCompiler` | validation, compilation and composition of device policies: functions without state |
| `PolicyRouting` | edit, apply and select; what the compiled rules do to a packet against what the document says |
| `TrafficSampler` | overlapping polls of the device traffic against connections that come and go |
| `ProbeRequests` | the jobs of a connectivity or proxy test and the goroutines that work on them |
| `StateEvents` | the stream of state events |
| `ControlServices` | the last eight in one module for model checking, each behaviour exercising one of them |
| `GatewayInvariants` | the inductive invariants of the lifecycle |
| `GatewayLifecycleProofs` | proofs of type correctness, of the forwarding invariant, that what is on the host is always known, that the rendered file and the snapshot are what the state names, and that the lifecycle implements its promise |
| `ConcurrentGatewayProofs` | proofs about stops and restarts that overlap |
| `ConfigApplyProofs`, `ControlOperationsProofs` | proofs about the module of that name |
| `ServiceStoreProofs` | proofs about `AuthSessions`, `ManagementSetup` and `SourceCatalog`, the parts that keep files or tables of their own |
| `ObservationProofs` | proofs about `TrafficSampler`, `ProbeRequests` and `StateEvents`, the parts that observe and report |
| `PolicyRoutingProofs` | lemmas about sequences and about `PolicyCompiler`, and proofs about `PolicyRouting` |
| `ControlServicesProofs` | proofs that the parts together do what they do alone, for `ServicesSpec`, the specification that is run |

### State of GatewayLifecycle and the code

| Variable | Code |
|---|---|
| `owner` | the processes of the host: which pid runs dnsmasq or mihomo |
| `nft` | whether table `inet opensurge` is loaded |
| `forward`, `host` | `net.ipv4.ip_forward`; what it was before the gateway (a history variable) |
| `exists`, `disk` | `state.json` and its content, `runtime.State` |
| `snapshot` | `DevicePolicyApplied`, the applied policy snapshot, as a digest |
| `rendered` | what `mihomo.yaml` in the runtime directory was rendered from |
| `desired`, `document` | `config.yaml` and the device policy document as they are on disk |
| `pc`, `mode` | the next call of the operation in progress and which operation it is |
| `cfg`, `st`, `prev`, `unload`, `cleanErr`, `validated` | the local variables of the operation: `m.cfg`, `state`, `previousPID`, `nftCleanup`, `cleanupErr # nil`, the policy the reload candidate was validated with |
| `resp` | how the last operation ended |
| `faults`, `crashes` | counters for the bounds |
| `abandoned` | a cleanup failed and the save that should record it failed too |
| `interrupted` | the program was killed in the middle of an operation |

Every action is a call: `StartLoadState`, `Prepare` (everything up to the four
artifacts, which changes nothing but the artifacts), `WriteSnapshot`,
`SaveInitialState`, `EnableForwarding`, `SaveForwarding`, `StartMihomo`,
`SaveMihomo`, `StartDnsmasq`, `SaveDnsmasq`, `LoadNftables`, `SaveNftables`,
`VerifyNftables` are Start; `CleanUnload`, `CleanDnsmasq`, `CleanMihomo`,
`RestoreForwarding`, `RemoveState`, `RemoveSnapshot`, `RetainCleanupState` are the
cleanup shared by rollback and Stop; `RestartCheck` ... `RestartSave` are
RestartMihomo. The failing disjunct of an action consumes a fault and may have
taken effect where the code cannot tell (`nft`, `sysctl`, a signal). SaveState
renames a complete temporary file, so a failing save leaves the old content.

The environment: processes die, the table is flushed, the desired configuration
and the policy document are edited, the administrator changes ip_forward while
the gateway is down, the program crashes (systemd kills the control group of the
service, a command line leaves its children alive), the host reboots (processes,
table, ip_forward and /run are reset, /var/lib is kept).

### ConfigApply

`ConfigApply` models the three requests that change files
(`configuration_actions.go`) next to start, stop and reload, as several workers
(goroutines of `ServeGateway`), each with a record `req[w]`: the kind of request,
the next step `at`, the request's payload `wish`, what the client has seen when the
request arrived (`seen`, whose digest is the If-Match revision; `stale` when the
client holds an older one), and the local variables `cfg`, `original`, `wasRunning`,
`created` (`!profileExisted` or `createdPolicy`) and `reply`.

| Variable | Code |
|---|---|
| `config`, `document`, `files` | `config.yaml`, `data/device-policy.json`, `data/imported-profile-*.yaml` |
| `status`, `applied` | what GatewayPromise says of the gateway: no state file, running, to be cleaned up; and the configuration it was started with |
| `Overlaps` | the pairs of requests a run lets overlap; empty means one at a time |

A policy document is the LAN its devices live in (`Fits`), which is the one relation
between the two files that the loader enforces. `Open` is the check of
`handleGatewayConn` that the configuration loads. Validation by mihomo and decoding
may refuse any request. A failed removal of a file is ignored, as in the code. Start
and Stop are one step each here, Reload two; `GatewayLifecycle` has their calls.
Edits of the files by hand are left out.

### ControlOperations

`ControlOperations` models the requests of the web UI that act on the gateway or on
the recovery checklist (`server.go`), as several workers, each the goroutine of one
request and, for a gateway operation, the goroutine `runOperation` it starts.

| Variable | Code |
|---|---|
| `gw` | `state.json` of the gateway: not there, there, there and asking for a cleanup |
| `takeover` | `gateway.mode` of `config.yaml` is `same_wifi_dhcp` |
| `recovery` | `recovery.json`: stage and `required` |
| `ops` | `operations/<id>.json` |
| `req` | per worker: the request, its next step `at`, the configuration and checklist it has read (`takeover`, `seen`), whether the gateway ran when an import arrived (`active`), the answer of the service (`reply`) |
| `job` | per worker: what the gateway service still does for it, also after the deadline of the connection or the death of the control API |
| `runs`, `routerOff`, `withdrawn`, `orphans`, `doubt` | history: how often an operation was sent, what the operator has last said of router DHCP, whether it was said on again while requests were under way that may have read it as off, ends that could not be written, whether the control API had a way to know what the gateway did |

Every step reads or writes one file, because `Store` holds its lock for one read or
one write: `Lookup`, `ReadRecovery`, `Admit`, `Accept` are the handler; `Call`,
`Settle`, `Update`, `Finish` are `runOperation`; `Note` is the end of
`handleSourceApply`; `ReadForm`, `WriteForm` are the four handlers of the
checklist. What the gateway does for a request is one step (`Serve`), with the
outcomes `GatewayPromise` allows. A form with a stage is served at any time, also while
a start, or what is left of one after its deadline, is being carried out: when the
operator takes the confirmation back then (`GivesUp`), nothing calls the start back, and
a start that fails writes the confirmation it had read (`withdrawn`). A request id is an idempotency key or one the
server draws. Left out: the note texts, `topology` and
`client_validation_skipped`, which no guard reads; queries and policy selections;
commands of the command line, which bypass the checklist.

### AuthSessions

`visit[v]` is the goroutine of an authentication request. A step is one critical section
of `Server.mu` (which guards `sessions` and `loginFailures`) or of `FileAdminStore.mu`
(`adminMutex`): `LoginArrives` purges and looks for a lockout, `Authenticate` reads
`admin.json`, `RecordLoginFailure` or `ClearLoginFailures` and `OpenSession` follow in
sections of their own; `SetupArrives`, `SetLooks`, `SetWrites` are a setup in the browser;
`Authenticated` is the look-up that prolongs a session; `HandleAuthLogout` deletes it.
`InitLooks` ... `ResetWrites` are `opensurge-setup`, which shares the file and neither
mutex. A time is an age, `Tick` lets time pass, `AuthRestarts` empties the memory.
`crossed` notes that the command's init has overlapped a setup in the browser.

### SourceCatalog

`task[w]` is one import, refresh, upload or apply, with the catalogue it has read (`seen`)
and the one it would put back (`before`). `MigratePut`, `MigrateClear`,
`MigrateKeychain`, `KeychainRefuses` and `Mark` are the two migrations at boot: from the catalogue's own `fetch_url`, and from the keychain of an older
release (`keychain`, `marker`). The keychain may refuse an address it has, because it is locked or access
is denied (`refused`); the marker is written all the same, and it is not asked again. `WriteSource`, `ReadCatalogue`, `SaveSources`,
`PutCredential`, `RestoreCatalogue`, `RemoveSnapshot` are the writes of an import and of its
undoing; `ApplyReads`, `ApplyWrites` the end of `handleSourceApply`. A read or a write may fail and
the service may die between any two. `importURL` and `handleSourceApply` ignore a catalogue
that cannot be read and go on with an empty one (`ReadOrEmpty`), which the latter saves. `overlapped`, `cut`, `torn`
and `unread` note what the properties
except: overlapping imports, an import cut short by a death, the snapshot of known
content that a failed re-import removes although the restored catalogue names it, and such a read.

### ManagementSetup

`cert` and `key` say which pair the file belongs to, `groupReads` which files the service
can read, `dirSetgid` whether the directory hands its group down (`writeTLSFiles` removes
the bit, the layout sets it). `proc[p]` is a process of `opensurge-setup`: `InitBegins`,
`ReplaceBegins`, `ResetPasswordBegins`, `RepairBegins`, then one action per system call that
others can see, from `RestrictDirectory` to `OwnAccount`; `CutShort` is a failing call or a
signal at any of them. `service` is the control service, which reads the pair twice, to
validate it and to serve it. `halfway`, `stranded` and `crowded` note what the properties
except: a command cut short between the two files or before handing over the account, and
two commands that write the pair at a time.

### PolicyCompiler and PolicyRouting

A policy document is a record of sequences, as its JSON is; a compiled rule is
`[when, to]`, a set of conditions and a target. `ValidatePolicySet`, `CompilePolicySet`,
`changedDeviceIDs` and `composeSections` are the functions of that name.
`PolicyRouting` writes documents (`PutPolicy`), changes the configuration, starts or reloads
the gateway (`Apply`), stops it and switches a device in two steps (`Selects`, `Selected`: the
look-up of the group in the applied snapshot, and the call to mihomo). mihomo is modelled
from how the code uses it: the first rule that holds and whose target carries the packet,
and a memory of selections by the name of the group. `Declared` is the reference
definition: what the document says of the packets of a device, without rules or groups.
The loops of the compiler are `Concat` and `Where` (one call of `append` for each element that
passes the test), and `Leads` is mihomo's search for the first rule, for any list of rules.

What the rest of the program sees to is assumed of the constants: identifiers have no slash, so
that a group's name can be taken apart (`IdentifiersAssumption`, `validID`); the global rules
resolve among themselves and end with a MATCH, and an imported profile, which mihomo has accepted, has
no proxy called like one of mihomo's own policies (`SettingsAssumption`); packets meet conditions
of the dimensions (`PacketsAssumption`); the four built-in names are their own upper-case form
(`SpellingAssumption`). `ToUpper` and `HasPrefix` are constants, as TLA+ has no characters to compute
them from: the proofs need no more of them than these assumptions.

Names are looked up three times. OpenSurge takes a name for a built-in policy in any spelling
(`Builtins`, of `builtinPolicyTarget` and `actionCanFallThrough`) and looks the others up among the names of the
profile (`validatePolicySections`); of an imported profile it refuses names in the name spaces of
groups and rule sets (`ReservedNamesFree`), of the managed profile's upstream proxy it does not. `Passes` is that look,
`Accepted` the same and what `mihomo -t` says of the rendered file (`Loads`, external), in which
only the policies in `Native` exist without being declared. A start or a reload needs both (`Apply`);
`NamesResolve` says which names pass the first and not the second. `Policies` are the ones a selection may ask for: what the
documents offer, and one that none of them has to.

### TrafficSampler

`engine` has the connections of mihomo with their bytes, `poll[w]` a request: it fetches
(`Fetches`), stamps the time (`Stamps`) and only then takes the lock of `trafficRateSampler`
(`Annotates`, or `Resets` after a failed fetch). `sampler` is the memory all requests share.
`counted` is what responses have shown of each connection so far; `collided` notes that two
requests were under way at a time.

### ProbeRequests

`asked` and `results` are the targets and the slice of results, `handler` the handler that
sends `sent` jobs over a channel without a buffer and waits, `worker[w]` a goroutine. A
connectivity job lists the connections (`Lists`), asks for its target (`AsksAnswered`,
`AsksFails`) and looks for its own connection (`Captures`), round after round; a health job
is one call (`Measures`). `lan` has the connections of devices. `clouded` notes a round in
which the connection of a device to the same host was new or the list could not be had.

### StateEvents

`version` numbers what each file says, `stream.event` is put together by one action per file
(`LoadsConfig`, `Reads`), and `Sends` sends what differs from `last`.

### ControlServices

The eight modules above share no variable: what they share in the code, the gateway and
its configuration, is in `ConfigApply` and `ControlOperations`. `part` is chosen at the
beginning and only that part moves, so that the states of the run are the sum of those of
the parts and not their product. A part that has several initial states rests in one.

### Abstractions

Configurations, policies and profiles are digests, except in `PolicyCompiler`. Preflight, validation and the
reservation probes accept or reject without changing anything. A killed process
is dead at once. A pid is never reused by a program of somebody else. A file
operation is atomic; a reboot loses no rename.

## 3. The runs

`lifecycle_*` run one lifecycle operation at a time, `concurrent_*` two that
overlap, `config_*` requests to the gateway service, `control_*` requests to the
control API and the services it has.

| Run | Shows | Bounds |
|---|---|---|
| `lifecycle_faults` | no residue when stopped, everything recorded at rest; the rendered file and the policy snapshot are what state.json says is applied | 3 pids, 2 policies, 1 profile, 2 faults, no crash |
| `lifecycle_crashes` | the previous ip_forward survives crashes and reboots; `GatewayLifecycle` implements `GatewayPromise`; every operation returns; a required cleanup is finished by retrying stop | 2 pids, 1 policy, 1 fault, 1 crash |
| `concurrent_overlaps` | stops and restarts that overlap each other keep the previous ip_forward; overlapping stops leave nothing that a later stop does not know of | 2 pids, 1 fault, no crash |
| `config_apply` | the saved configuration always starts, a gateway runs the configured network, no update is lost, a refused request changes nothing, "preserved" is true | 2 workers, profile imports overlap with policy edits, 1 profile, 2 networks, 1 failing write, 1 death of the service |
| `control_operations` | a repeated request is carried out once; the checklist remembers that router DHCP is off; a takeover starts only after the confirmation; a stopped gateway is not called active; every operation ends | 2 workers, 2 keys, a stop may overlap a start or a reload, and a form of the checklist a start, 1 fault |
| `control_services` | see the next table | see the next table |

| Part of `control_services` | Properties | Bounds |
|---|---|---|
| account, sessions | `SetupOnce`, `FailuresBounded`, `DeadStaysDead`, `LockoutEnds` | 2 requests, 1 address, 1 token, lockout after 2 failures in 2 ticks, sessions of 1 tick |
| sources | `AddressNeverLost`, `CatalogueIsWhole`, `FailureChangesNothing` | 2 importers, 1 address, 1 upload, 2 contents, 2 imports, 2 failing reads or writes or deaths; the keychain refuses any address |
| setup | `ServiceCanServe` | 2 commands, 2 pairs, 1 failing call |
| device policy | `RoutesAsDeclared`, `NamesResolve`, `UnchangedRoutesAlike`, `SelectionMovesOneDevice` | 9 documents, 5 configurations, 2 devices and a stranger, 22 kinds of packet, 1 selection |
| traffic | `ResponseAddsUp`, `BytesCountedOnce` | 2 requests at a time, 3 in all, 2 connections, 1 byte, 3 seconds, samples at most 1 second apart |
| probes | `AnswerIsComplete`, `RouteIsItsOwn`, `RequestIsAnswered` | 2 targets, 2 goroutines, 2 rounds, 1 connection of a device |
| events | `EventsCatchUp` | 2 changes, 2 streams |
| all | `ServicesTypeOK` | |

Violations, each a disagreement between the code and what the repository says
of it (quoted in PROJECT.json) or a defect of the code:

| Run | What happens |
|---|---|
| `lifecycle_reload` | an edit of the policy document between validation and start of a reload is applied without that validation |
| `lifecycle_killed` | a start killed between `nft --file` and the save leaves a table that a later, successful stop does not remove |
| `concurrent_start_stop` | a stop that overlaps a start leaves residue on a gateway without state file |
| `config_upstream` | with an upstream proxy a profile import on a stopped gateway saves a configuration that no longer loads |
| `control_profile` | a profile import whose reload fails starts the previous gateway again, and the checklist says nevertheless that nothing runs: reload, restart and the next import are refused on a running gateway |
| `control_withdrawn` | the operator gives a takeover up while its start is carried out; the start fails and writes the confirmation back that it had read, and the next start is let through without one |

What the properties do not claim, because the code does not do it either:

* The second of two overlapping starts records the value of ip_forward the first
  has set, so the original is lost.
* Two overlapping network edits compare the same revision, and the second
  overwrites the first: no lock is held between the comparison and the rename.
* A policy edit and a network edit that overlap are each validated against what the
  other replaces; together they may not load.
* A restart that overlaps another operation writes back the State it has read, so
  `state.json` may describe what the other has undone (`restarted`).
* Two requests with the same new idempotency key that arrive together both find no
  operation and are both carried out: `Overlaps` has no pair of equal kinds.
* An operation that was under way when the control API died stays "running" on file
  (`orphans`).
* A start that overlaps a network edit may run with a network that is no longer
  the configured one: the edit looks for a state file before it writes.
* A first setup in the browser and `opensurge-setup init` at the same time both
  succeed, and the later one replaces the account of the other (`crossed`).
* Imports that overlap lose an entry that one of them has reported (`overlapped`).
* A failed re-import of content that is known removes the snapshot the restored
  catalogue names (`torn`).
* Two setup commands that write the pair at a time leave the certificate of one next
  to the key of the other (`crowded`); one that is cut short between the files leaves
  such a pair too (`halfway`), and one that is cut short before it hands the account
  over leaves an account only root can read (`stranded`).
* Two traffic requests at a time share one memory, and bytes may be shown by both
  (`collided`).
* The route of a probe may be that of a device that opens a connection to the same
  host during the round (`clouded`).
* mihomo remembers a selection by the name of the group, so that a device with the
  identifier of an earlier one begins with its selection.
* A configuration that does not load silences the stream of events.
* A takeover that is given up while its start is carried out, also after the deadline of the
  start, comes up all the same; nothing calls the start back (`withdrawn`).
* An address the old keychain refuses is given up once the marker is written (`refused`);
  TestLegacyKeychainFailureDoesNotBlockOrRepeat asserts it.
* A read of `sources.json` that fails is ignored in two places: an import then has an
  empty catalogue to put back, and applying a source saves the empty one (`unread`).
* A policy named like a built-in one in another spelling passes OpenSurge's look-up, and so does
  REJECT-TINYGIF, which docs/device-policy.md:28 lists; whether mihomo knows the name decides about the
  configuration. The sample `Native` does without it.
* An action named like a built-in policy has no REJECT behind it, also when an imported
  profile has a proxy of that name in another spelling that carries no UDP: such a packet
  goes on to the rules that follow (`actionCanFallThrough`).
* The upstream proxy of the managed profile may have the name of a device's group
  (`validateUpstreamProxy`, validator.go:315-328, excludes one name only), although
  docs/agent-wiki/wiki/concepts/mihomo-profile-overlay.md:27 calls the name space reserved. OpenSurge
  renders both and mihomo refuses the file; one of the settings is like that.
* In `isolated_lan` with DHCP disabled dnsmasq is skipped, and `Status` (status.go:87) still asks for its
  process: a gateway that was started in full is reported as degraded, and `Reload` (manager.go:264,
  `ReloadCheck`) refuses it. The design says that a mode may do without dnsmasq and that a gateway with
  everything ready is running
  (docs/superpowers/specs/2026-08-04-linux-side-router-gateway-design.md:112-113).
* A reload whose stop failed is reported as "previous running gateway preserved"
  even though what is there is a cleanup that is due: `PreservedIsThere` accepts a
  gateway that is running or one that stop has still to finish, and
  rules out only that nothing is there.

Bounds. `MaxFaults`: 2 is the smallest number that lets a cleanup fail during the
rollback of a failure, and a failing record of a failing cleanup; a third fault
repeats one of these. `MaxCrashes`: one crash, at any call; after a crash the
state is one from which all operations start anew. Pids: a gateway has two
processes and a restart has two mihomo pids in play, so 3 without concurrency; 2
where reuse of a freed pid is what matters. One policy suffices where policies
are not compared, two where a stale one could be mistaken for a new one. The proofs
need no bounds.

For `ConfigApply` two networks let a candidate differ from what is configured and
from what is applied, and one profile besides the initial configuration does the
same for the mihomo part. One failing write is the write of a candidate, or the
one that takes it back after mihomo refused it; a failing restore is counted in
`unrestored`, and the error says so. The pairs in `Overlaps` are the ones the run
lets overlap, one a profile import and the other a policy edit.

For `concurrent_overlaps` two operations are under way at a time, as the module has
it; two pids are the two processes of a gateway, of which a stop or a restart reuses
the freed ones, and one fault is the failing call of one of the two operations.

For `ControlOperations` two workers are the two requests of an overlap, and two keys
an operation that is repeated next to another one. The fault is a failing write of
the store, a gateway socket that does not answer, or a death of either service; a
deadline is no fault and may come at any time. An operation that has missed its
deadline leaves its `job`, which then overlaps later requests only as `Overlaps` says: a form is
served next to a start and to what is left of one. Two forms at a time and a stop next to an import
are not run; what is claimed of them is what the theorems claim whose hypotheses allow them.

For `control_services`: two requests are the two of every overlap the code leaves open;
two failures make a lockout that is not the first failure, and a window of two ticks lets
one of them expire before the other. Two imports are an import and its refresh, or two that
overlap; two contents let a refresh find a new one. Two pairs tell a mixture from a pair. The
documents have a template, a profile without one, lists and ports, a device known by its MAC
and one by its address, every egress mode, policies only one of the profiles has, names in another spelling and
three documents that are
refused; the configurations both topologies, a managed and an imported profile with
and without a last rule, a managed one whose upstream proxy has the name of a device's group and an imported
one with a proxy called like a built-in policy in another spelling. Two failures in the catalogue are a read that is ignored, or a
credential that cannot be kept, next to a failing undo or a death. Two connections let one close or be the odd one of its class, three
seconds let a sample be too close, in time and too late. Two targets and two goroutines let
one finish while the other works; two rounds (the code has three) let the first route
stand while a second one is measured. Three goroutines are left to the proof of
`AnswerIsComplete`.

Fairness. `FairSpec` (of `lifecycle_crashes`) assumes weak fairness of the operation's steps: every command
has a timeout (`process.Run`), every wait a deadline, so an operation that is under
way makes its next call. It assumes strong fairness of `BeginStop`: the design
lets the administrator retry stop while a cleanup is required, and
`CleanupIsNoTrap` is about that retry. Nothing forces processes to die, edits to
happen or starts to be requested. In `ControlOperations` the steps of a worker are
weakly fair, since each is a file operation or a call with the two-minute deadline
of `UnixGatewayClient.call`; of the gateway service nothing is assumed, so
`OperationsEnd` holds also when it never answers. Faults are bounded, so they do not go on forever.
Of `AuthSessions` only the clock is fair, so `LockoutEnds` needs no request to be served. Of
`ProbeRequests` the handler and each goroutine are fair one by one: a probe and a call to
mihomo have a deadline (`connectivityProbeTimeout`, `http.Client`). Of `StateEvents` the
ticker of `handleEvents` and the reads that follow are; changes and connections are not.

## 4. The proofs

### The lifecycle

For every set of pids, policies and profiles and every bound on faults and
crashes, assuming only that pids are positive and the two reserved digests are
no policies:

* `TypeCorrect`: `Spec => []TypeOK`, one lemma per conjunct. The strengthening is
  `SnapshotPrepared`: a deferred policy never reaches the snapshot.
* `ForwardingInvariant`, `ForwardingAlwaysRecorded`: `ForwardingRecorded` alone is
  not inductive, because the cleanup restores from the State in memory and Start
  records before it enables. `ForwardingInv` says which State holds the value at
  each group of calls, and that the file holds it whenever it exists; it needs no
  assumption about crashes.
* `ResidueAlwaysKnown`: `SoundResidue` says, group of calls by group of calls,
  that live processes and the table are named by the State in memory, or by
  `state.json` at rest, as long as no operation was killed and no record was lost.
  Each lemma (`StartResidue`, `CleanupResidue`, `RestartResidue`, `LookingResidue`,
  `EnvironmentResidue`) has one step per action; `ToLooking` ... `ToRollback` say
  what has to be shown for each group a step may lead to.
* `StoppedLeavesNoResidue` and `RestIsRecorded` follow.
* `ArtifactsAlwaysMatch`: `RenderedInv` and `SnapshotInv` carry the two relations through
  the calls at which only the State in memory names the new configuration. They rest on
  `ForwardingInv` for when a state file is there.
* `StartedAlwaysRecorded`: `StartedInv` collects what the State must hold at each call of
  Start, up to the last save.
* `LifecycleKeepsPromise`: the refinement of `GatewayPromise`. The mapping is `Promise`:
  the status is read off the state file, the phase off `pc` and `mode`, residue is `~Clean`.
  Initial states map to initial states, and every step of `Next` maps to one step of the
  promise or to a stutter, one lemma per group of actions. What a step may do depends on
  which operation it belongs to, which `ModeInv` ties to the call; on whether the state
  file is there and already asks for a cleanup, which is `DueInv`; and on the phase, so
  `PhaseInv` is carried as well, above the type, `ForwardingInv` and `SoundResidue`.

### Operations that overlap

`ConcurrentGatewayProofs` is about two operations interleaved at every call, of which
starts and reloads overlap with nothing (`Overlapping \subseteq {"stop", "restart"}`; run
`concurrent_start_stop` shows that a stop that overlaps a start does leave residue).

* `OverlapsKeepForwarding`, `OverlapsAreKnown`: `Overlap` claims the invariants of one
  operation of both, of the parked one as `Other!ForwardingInv`, `Other!ModeInv` and so on
  (an instance of `GatewayInvariants` whose local variables are the parked ones). They must
  therefore be stable under the steps of another stop, which removes `state.json` or kills a
  process at any moment: `ForwardingInv` and `CleanInv` say of a cleanup only what its own
  State knows, and what it knows of the file is in `DueInv`, which is claimed of an operation
  that runs alone. `SoundKnowledge` adds what overlapping stops know together: the file, as
  long as it is there, names all that is left.

### Configuration transactions

For any number of requests, profiles, networks, failing writes and deaths. The service
takes no lock across a request, so that a theorem names the requests that must not overlap;
the run `config_apply` lets all others that it has overlap.

* `ConfigTypeCorrect`: no hypothesis. `ShapeInv` says which local variables are set at which
  step of a request.
* `EditsAreNotLost`, `RefusalsChangeNothing`, for `EditsApart` (edits of the same file are
  not served at a time). `KeptInv` says of a request at each step what it has found and may
  still rely on: `Kept` that the configuration is what the client has seen, up to the
  request's own write and again once it is taken back; `ProfileKept`, `NetworkKept`,
  `PolicyKept` the same of the files the three kinds of edit use. `PairsInv` says that
  requests at a time are of kinds that may overlap.
* `SavedConfigurationStarts`, for `EditsApart` and no upstream proxy (the run
  `config_upstream` is the counterexample with one). `StartsInv` adds that the profile a
  request would put back is still there.
* `ConfiguredNetworkRuns`, for `EditsApart` and `NetworkApart` (no network edit during a
  start or a reload). `RunsInv` adds that an edit of the network about to write has no
  gateway beside it, and that a start or reload holds the network that is configured.
* `PreservedGatewayIsThere`, for `EditsApart` and `GatewayApart` (nothing else moves the
  gateway during an import). `PreservedInv` adds that a gateway that runs is the one the
  import has found, and what is there once the import has said "preserved".

### The control API

For any number of requests, keys and faults, with `Separate(A, B)`: no request of a kind in
`A` is served at a time with one in `B`.

* `ControlTypeCorrect`, `StoppedNotActive`: no hypothesis. The invariant of the latter is
  `QuietInv`: until something has died, come late or got lost (`doubt`), every request's
  view of the checklist, the configuration and the gateway is `Current`, and a checklist that
  says "active" on a stopped gateway has a request that `Owes` its correction.
* `AskedOnce`, while no two requests of one kind overlap: `KeyInv` says that a key is on file
  or held by one request, and that one at most is past the lookup.
* `RouterRemembered`, while the forms of the checklist come one at a time: `FormInv` and
  `RouterInv` say that one form at a time is served, that none is about to complete the
  checklist while the router is off, that whatever any request has read of the checklist is a
  record of some stage, and that the router is off only in a stage that says so.
* `TakeoverConfirmed`, unless the network configuration is edited while a start is under way (`EditsApart`); forms,
  starts, stops, reloads and imports may overlap as they like: `CarryInv` carries the confirmation through the steps
  of a start, up to an operator who takes it back meanwhile (`withdrawn`), and `ApartInv` the hypothesis past
  the death of the control API, when only the gateway service still works on a request.

`Target`, the stage a form leads to, has guards that exclude each other: with guards that
overlap the value of a CASE is open, so that TLC takes the first one and a proof cannot.
`IdsAssumption` keeps the identifiers of requests apart from `NoId`.

### The services

For any number of requests, commands, importers, connections and goroutines and for every
bound of the module:

* `SetupOnceProved`: `AccountInv` says that the mutex is held by the one goroutine that is
  about to write (`WriterHoldsMutex`), that nobody is told of success without an account
  (`FoundersHaveAccount`), and that whoever is about to write has seen that there is none,
  and it is still so (`WritersSawNone`).
* `FailuresBoundedProved`: with the types of the tables, `FailuresBounded` is inductive. A
  login that is let in finds fewer than the limit; the failure it records leaves the set of
  logins under way; purges and time only take failures out of the window. The lemmas
  (`RecentIsWindow`, `NoMoreFailures`, `LeavesTrying`) turn lengths into cardinalities.
* `DeadStaysDeadProved`: a session that is live after a step was live before or is drawn by
  it, from `SessionsDrawn`: a token in use has been drawn.
* `AddressNeverLostProved`, through refusals of the keychain, failing reads and deaths: `AddressInv` adds to the property that imports which do not
  overlap are one at a time, save what they have read, and hold a catalogue to restore
  whose addresses are all stored (`AloneInv`).
* `CatalogueIsWholeProved`, `FailureChangesNothingProved`: `WholeInv` says, above
  `AddressInv`, of an import that overlaps with none that the content it is about to name is
  on disk, that what it has read and would put back is the catalogue, and that this is whole
  (`TaskWhole`). `MergedNames` is about the operator: merging an entry names what was named,
  and the new content.
* `ServiceCanServeProved`: `HostInv` says that there is no account and no running service
  before a certificate, that the files belong together unless somebody is, or was, between
  the two renames, and which pair each command has written so far (`PairInv`);
  `ReadableInv` that nothing takes the account away from the group again; `OnePairStep`
  that the service checks what it has read.
* `BytesCountedOnceProved`, `NoRateAcrossFailureProved`: `SamplerInv` orders, for each
  connection, what was shown, what the memory has, what a snapshot under way has and what
  was carried, and the memory against the last failure.
* `ResponseAddsUpProved`: `SamplesTyped` says that every snapshot counts finitely many
  connections. The sum is the cardinality of a set of units, so that the lemmas about it
  (`ClassesAddUp`, `SumsAddUp`) need no induction: bijections of each class with an
  interval, put together, are one of the whole.
* `AnswerIsCompleteProved`: `RequestInv` says that a job handed over is done or worked on
  (`NoneIsLost`), and that a handler that waits has handed over all of them.
* `RouteIsItsOwnProved`: `OwnRoute` says of each goroutine that the route it has found is its
  own, and that a connection to its target which is not its own was listed before the round,
  unless a device has opened one meanwhile (`clouded`).

* `AuthTypeCorrect`, `SourceTypeCorrect`, `SetupTypeCorrect`, `TrafficTypeCorrect`,
  `ProbeTypeCorrect`, `EventsTypeCorrect`: the type of every variable. Three of them are not inductive as they stand:
  nobody is on the way without a password (`PasswordGiven`); only a source with an address ever
  carries one, in whatever catalogue a task has read (`SourcePlaced`); a snapshot is of
  connections that were opened, and a goroutine has begun more rounds than it has had delays
  (`SamplerTyped`, `Ranged`).

The assumptions are the ones of the modules (`AuthAssumption`, `SetupAssumption`, ...): finite
sets of goroutines, bounds that are numbers, disjoint address sets.

### Device policies

For every set of documents, configurations, packets and policies without UDP, and any number
of edits, reloads and selections.

* `PolicyTypeCorrect`, from `PolicyInvariant`: `PolicyInv` says that the documents in use are
  valid on their LAN, that mihomo runs what is rendered from the applied document and
  configuration, after its names had been looked up, and that a selection under way is of the
  group of a device. It has been model-checked with the documents of the run.
* `RoutesCorrect`: the rules mihomo runs do to a packet what the document says. The list of rules is a
  concatenation of blocks, one for each device, rule or variant. `Blocks` says that the first
  rule that takes a packet is in the first block with such a rule; `RouteUnfolds` puts the route together
  from its six lists; rules of other devices do not hold, because no two devices
  have an address in common (`ValidatePolicySet`). `DeviceRoute` then follows the document: a
  rule of the profile holds when one of its variants does (`ruleVariants`
  is the product of the dimensions, one lemma for each step of it), and its REJECT takes what
  its target cannot. `Declared` has the same cases.
* `NamesCorrect`: every name comes from the document or from the global rules; the one was
  looked up and is known to mihomo unless it was misread (`TargetsCover`, `FixedNative`), the other resolves by assumption, and names that
  are put together are distinct because they can be taken apart. `RenderedLoads` puts it together, and `ImportedApart`
  says that the names of an imported profile stay apart from the groups.
* `UnchangedCorrect`: two documents that compile alike for a device, as `changedDeviceIDs` compares
  them, hold the same rules and groups for it, and providers of the same content (`Hosting`, `ResolvedLeadAlike`); so the
  first rule that takes its packet leads to the same policy in both.
* `SelectionCorrect`: a selection changes what one group stands for (`SwitchAlike`), and no
  rule that holds of another device's packets leads to it.

None of the four has a hypothesis beyond the assumptions of the constants. What runs was accepted by mihomo
(`Loads`), so that no name is given twice in it; what only passed OpenSurge's look-up need not be, and
`NamesResolve` names the two exceptions.

The loops of the compiler are `FlattenSeq` of the community modules, a recursive function.
The induction theorems of the library take an operator, which the provers cannot instantiate;
`NatSetInduction` states induction of a set of numbers instead, and follows from the pigeonhole
principle, `SeqSetInduction` of a set of sequences. From them come the laws of `FlattenSeq`
(the empty sequence, one sequence more, what the whole is made of), and from these what the
compiler's `Concat` and `Where` return.

### The services together

`PartsKeepTheirSpecifications`: a behaviour of `ServicesSpec` is, of each part, a behaviour of
its specification (up to fairness where there is some). `ServicesTypeCorrect`,
`AdministratorIsSafe`, `FilesAreKept`, `ReportsAreRight` and `PolicyIsObeyed` then say of
`ServicesSpec`, the specification of the run `control_services`, all the run checks except liveness.

### What is only model-checked

* Liveness (`OperationsEnd`, `OperationsReturn`, `CleanupIsNoTrap`, `LockoutEnds`,
  `RequestIsAnswered`, `EventsCatchUp`): fairness and ENABLED are outside what TLAPS can do.
* Starts and reloads that overlap another lifecycle operation: false, as
  `concurrent_start_stop` shows.

Only proved, not run: the invariants of `GatewayInvariants`, the type correctness of
`GatewayLifecycle`, `StartedIsRecorded` and `NoRateAcrossFailure`. Every invariant and every
action property that a passing run checks is also proved.

## 5. Plan

1. Done: the lifecycle, its promise, overlapping operations, and the proofs of all their
   safety properties, the refinement of `GatewayPromise` included.
2. Done: `ConfigApply` and `ControlOperations`, with the proofs of their safety properties.
3. Done: the services of the control API, device policies, setup commands, and the proofs
   of all their safety properties, alone and together.
4. Left: `InstallerTransaction`, the host-state transaction of the installer and the package
   scripts, with failures and reruns.

## 6. Not modelled

* The installer and the package scripts: shell, whose steps are commands of the host.
* Install configuration, network discovery, doctor and the preflight's arithmetic on
  prefixes and pools: text and queries that change nothing.
* The web UI: assets and views.
* The reconciliation of the DHCP lease file: what follows from a row depends on dnsmasq as a
  DHCP server, which is not part of this repository.
* Queries of the control API that only read (status, connections, providers, audit) and the
  selection of global groups, which passes through to mihomo.
* Rendering and parsing of YAML, nft and dnsmasq text, HTTP clients, logging, certificate
  contents, password hashing: no property of the state depends on their detail.
* Reuse of a recorded pid by a foreign program: `IsAlive` and `StopPID` cannot tell, and
  nothing in the model would be left to claim of such a host.
