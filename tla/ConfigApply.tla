----------------------------- MODULE ConfigApply -----------------------------
(***************************************************************************)
(* Configuration transactions of the gateway service                        *)
(* (internal/controlapi/configuration_actions.go): importing a mihomo       *)
(* profile, editing the network configuration and editing the device policy *)
(* document, next to the start, stop and reload of the gateway.             *)
(*                                                                          *)
(* Each connection is served by a goroutine of its own and no lock is taken, *)
(* so a step of the model is one read or one write of a file, or one gateway *)
(* operation.  The gateway itself is what GatewayPromise says of it: whether *)
(* a state file is there, whether it asks for a cleanup, and what it runs.  *)
(***************************************************************************)
EXTENDS Naturals

CONSTANTS
    Workers,         \* connections being served
    Overlaps,        \* the kinds of requests that may be served at a time
    Profiles,        \* contents of imported mihomo profiles
    Networks,        \* network configurations, each with a LAN of its own
    UpstreamProxy,   \* upstream_proxy.enabled, which no request changes
    MaxFaults,       \* bound: writes that fail
    MaxCrashes       \* bound: deaths of the service

Edits == {"profile", "network", "policy"}
Kinds == Edits \cup {"start", "stop", "reload"}

ASSUME OverlapsAssumption == Overlaps \subseteq SUBSET Kinds
ASSUME NamesAssumption == "managed" \notin Profiles /\ Networks \cap {"empty", "missing", "none"} = {}
ASSUME FlagAssumption == UpstreamProxy \in BOOLEAN
ASSUME BoundAssumption == MaxFaults \in Nat /\ MaxCrashes \in Nat

VARIABLES
    config,       \* config.yaml
    document,     \* data/device-policy.json, the LAN its devices live in
    files,        \* data/imported-profile-*.yaml
    status,       \* the state file: none, of a running gateway, to be cleaned up
    applied,      \* the configuration the gateway was started with
    req,          \* the request each worker serves
    faults, crashes,
    unrestored    \* a failed reload could not put the previous configuration back

gateway == <<status, applied>>
store   == <<config, document, files>>
bounds  == <<faults, crashes, unrestored>>
vars    == <<store, gateway, req, bounds>>

Managed  == "managed"      \* profile_mode: managed
Empty    == "empty"        \* a policy document without devices
Missing  == "missing"      \* no policy document
Profile  == Profiles \cup {Managed}
Document == Networks \cup {Empty}
Config   == [profile : Profile, network : Networks, policyOn : BOOLEAN]
NoConfig == [profile |-> "managed", network |-> "none", policyOn |-> FALSE]

\* What a request asks for; a kind of request looks at some of the fields.
NoWish == [profile |-> Managed, network |-> "none", policyOn |-> FALSE, document |-> Missing]
Wishes(kind) ==
    CASE kind = "profile" -> {[NoWish EXCEPT !.profile = p] : p \in Profiles}
      [] kind = "network" -> [profile : {Managed}, network : Networks, policyOn : BOOLEAN,
                              document : {Missing}]
      [] kind = "policy"  -> {[NoWish EXCEPT !.document = d] : d \in Document}
      [] OTHER            -> {NoWish}

Nothing == [config |-> NoConfig, document |-> Missing, files |-> {},
            status |-> "stopped", applied |-> NoConfig]

\* What the client of a request has seen of what the request is about.
Sees(kind) ==
    [config   |-> IF kind \in {"profile", "network"} THEN config ELSE NoConfig,
     document |-> IF kind \in {"network", "policy"} THEN document ELSE Missing,
     files    |-> IF kind \in {"profile", "network"} THEN files ELSE {},
     status   |-> IF kind = "profile" THEN status ELSE "stopped",
     applied  |-> IF kind = "profile" THEN applied ELSE NoConfig]

Idle    == [kind |-> "none", at |-> "idle", wish |-> NoWish, seen |-> Nothing, stale |-> FALSE,
            cfg |-> NoConfig, original |-> NoConfig, wasRunning |-> FALSE, created |-> FALSE,
            reply |-> "none"]

Labels == {"idle", "open", "compare", "read", "load", "look", "stat", "put", "validate",
           "write", "reload", "reload_start", "restore", "relook", "restart", "clean",
           "create", "start", "stop"}

-----------------------------------------------------------------------------
(* Loading *)

\* The devices of a policy document must live in the LAN of the gateway.
Fits(d, n) == d = Empty \/ d = n

\* config.validate: an imported profile excludes the upstream proxy.
LoadsRuntime(c) == ~(UpstreamProxy /\ c.profile # Managed)

\* config.Load also reads the policy document and holds it against the LAN.
Loads(c) == LoadsRuntime(c) /\ (c.policyOn => Fits(document, c.network))

\* A start validates again and renders mihomo.yaml from the profile.
Renders(c)   == LoadsRuntime(c) /\ (c.profile = Managed \/ c.profile \in files)
Startable(c) == Loads(c) /\ Renders(c)

-----------------------------------------------------------------------------
(* Steps of a request *)

Serving(w, label) == req[w].at = label
Goto(w, label)    == req' = [req EXCEPT ![w].at = label]
Reply(w, answer)  == req' = [req EXCEPT ![w] = [Idle EXCEPT !.reply = answer]]
Done(w)           == Reply(w, "none")     \* an edit that succeeded, a gateway operation that ended
Fault             == faults < MaxFaults /\ faults' = faults + 1

\* The configuration a request is to put in place or to run.
Candidate(w) ==
    LET r == req[w] IN
    CASE r.kind = "profile" -> [r.cfg EXCEPT !.profile = r.wish.profile]
      [] r.kind = "network" -> [r.cfg EXCEPT !.network = r.wish.network, !.policyOn = r.wish.policyOn]
      [] OTHER              -> r.cfg

\* A step that only looks.
Looks == UNCHANGED <<store, gateway, bounds>>

\* A request arrives.  The client has the current revision, or (stale) an old one.
Arrives(w) ==
    /\ Serving(w, "idle")
    /\ \E kind \in Kinds, stale \in BOOLEAN :
         /\ stale => kind \in Edits
         /\ \A v \in Workers \ {w} : req[v].at # "idle" => {kind, req[v].kind} \in Overlaps
         /\ \E wish \in Wishes(kind) :
              req' = [req EXCEPT ![w] = [Idle EXCEPT !.kind = kind, !.at = "open",
                                            !.wish = wish, !.stale = stale,
                                            !.seen = Sees(kind)]]
    /\ Looks

\* Every request but a stop needs a configuration that loads with its policy.
Open(w) ==
    /\ Serving(w, "open")
    /\ LET kind == req[w].kind
           opens == IF kind = "stop" THEN LoadsRuntime(config) ELSE Loads(config)
       IN \/ ~opens /\ Reply(w, "error")
          \/ opens /\ kind \in {"profile", "network"} /\ Goto(w, "compare")
          \/ opens /\ kind \in {"policy", "start", "stop", "reload"} /\ Goto(w, "load")
    /\ Looks

\* Mutant of Compare: the revision is only required to be there.
CompareSkipped(w) ==
    /\ Serving(w, "compare")
    /\ Goto(w, IF req[w].kind = "profile" THEN "read" ELSE "load")
    /\ Looks

\* revision != fileDigest(configPath); a payload may be refused as well.
Compare(w) ==
    /\ Serving(w, "compare")
    /\ \/ Reply(w, "error")
       \/ /\ ~req[w].stale /\ req[w].seen.config = config
          /\ Goto(w, IF req[w].kind = "profile" THEN "read" ELSE "load")
    /\ Looks

\* original, for the case that the reload fails.
ReadOriginal(w) ==
    /\ Serving(w, "read")
    /\ \/ Reply(w, "error")
       \/ req' = [req EXCEPT ![w].original = config, ![w].at = "load"]
    /\ Looks

\* config.Load, or LoadRuntime for a policy edit, a stop and a reload.
LoadConfig(w) ==
    /\ Serving(w, "load")
    /\ LET kind == req[w].kind
           loads == IF kind \in {"profile", "network", "start"} THEN Loads(config)
                    ELSE LoadsRuntime(config)
       IN \/ ~loads /\ Reply(w, "error")
          \/ /\ loads
             /\ req' = [req EXCEPT ![w].cfg = config,
                          ![w].at = CASE kind \in {"profile", "network"} -> "look"
                                      [] kind = "policy" -> "stat"
                                      [] OTHER -> kind]
    /\ Looks

\* Mutant of Look: the network may be edited unless a cleanup is due.
LookForCleanup(w) ==
    /\ Serving(w, "look")
    /\ \/ Reply(w, "error")
       \/ /\ req[w].kind = "profile"
          /\ req' = [req EXCEPT ![w].wasRunning = (status # "stopped"), ![w].at = "stat"]
       \/ req[w].kind = "network" /\ status # "cleanup" /\ Goto(w, "create")
    /\ Looks

\* Is there a state file?  The network may only be edited when there is none.  A file
\* that cannot be read refuses both.
Look(w) ==
    /\ Serving(w, "look")
    /\ \/ Reply(w, "error")
       \/ /\ req[w].kind = "profile"
          /\ req' = [req EXCEPT ![w].wasRunning = (status # "stopped"), ![w].at = "stat"]
       \/ req[w].kind = "network" /\ status = "stopped" /\ Goto(w, "create")
    /\ Looks

-----------------------------------------------------------------------------
(* applyProfile *)

StatProfile(w) ==
    /\ Serving(w, "stat") /\ req[w].kind = "profile"
    /\ \/ Reply(w, "error")
       \/ req' = [req EXCEPT ![w].created = (req[w].wish.profile \notin files), ![w].at = "put"]
    /\ Looks

PutProfile(w) ==
    /\ Serving(w, "put")
    /\ \/ files' = files \cup {req[w].wish.profile} /\ Goto(w, "validate") /\ UNCHANGED faults
       \/ Fault /\ Reply(w, "error") /\ UNCHANGED files
    /\ UNCHANGED <<config, document, gateway, crashes, unrestored>>

\* Mutant of Cleaned: the profile goes even if it was there before.
CleanedAlways(w) == files' = files \ {req[w].wish.profile}

\* cleanupProfile removes what this request has put there; its error is dropped.
Cleaned(w) ==
    files' \in {files, IF req[w].created THEN files \ {req[w].wish.profile} ELSE files}

\* mihomo renders and tests the candidate, which may be refused.
ValidateProfile(w) ==
    /\ Serving(w, "validate") /\ req[w].kind = "profile"
    /\ \/ Reply(w, "error") /\ Cleaned(w)
       \/ req[w].wish.profile \in files /\ Goto(w, "write") /\ UNCHANGED files
    /\ UNCHANGED <<config, document, gateway, bounds>>

\* The candidate becomes the configuration; the gateway, if there was one, reloads.
WriteProfileConfig(w) ==
    /\ Serving(w, "write") /\ req[w].kind = "profile"
    /\ \/ /\ config' = Candidate(w)
          /\ IF req[w].wasRunning THEN Goto(w, "reload") ELSE Done(w)
          /\ UNCHANGED <<files, faults>>
       \/ Fault /\ Reply(w, "error") /\ Cleaned(w) /\ UNCHANGED config
    /\ UNCHANGED <<document, gateway, crashes, unrestored>>

Cleanup(w, answer) == req' = [req EXCEPT ![w].at = "clean", ![w].reply = answer]

\* The original bytes are written back, whatever config.yaml holds by now.
Restore(w) ==
    /\ Serving(w, "restore")
    /\ \/ config' = req[w].original /\ Goto(w, "relook") /\ UNCHANGED <<faults, unrestored>>
       \/ /\ Fault /\ unrestored' = TRUE
          /\ Cleanup(w, "unrestored") /\ UNCHANGED config
    /\ UNCHANGED <<document, files, gateway, crashes>>

\* Mutant of Relook: the stopped gateway is not started again.
RelookOnly(w) ==
    /\ Serving(w, "relook") /\ Cleanup(w, "preserved")
    /\ UNCHANGED <<store, gateway, bounds>>

\* The previous gateway is started again when no state file is left.
Relook(w) ==
    /\ Serving(w, "relook")
    /\ \/ status = "stopped" /\ Goto(w, "restart") /\ UNCHANGED faults
       \/ status # "stopped" /\ Cleanup(w, "preserved") /\ UNCHANGED faults
       \/ Fault /\ Cleanup(w, "error")
    /\ UNCHANGED <<store, gateway, crashes, unrestored>>

CleanProfile(w) ==
    /\ Serving(w, "clean") /\ Cleaned(w) /\ Reply(w, req[w].reply)
    /\ UNCHANGED <<config, document, gateway, bounds>>

-----------------------------------------------------------------------------
(* applyControlConfig *)

\* Switching the policy on puts an empty document in place, over an old one.
CreatePolicy(w) ==
    /\ Serving(w, "create")
    /\ LET creates == req[w].wish.policyOn /\ ~req[w].cfg.policyOn IN
       \/ /\ document' = IF creates THEN Empty ELSE document
          /\ req' = [req EXCEPT ![w].created = creates, ![w].at = "validate"]
          /\ UNCHANGED faults
       \/ creates /\ Fault /\ Reply(w, "error") /\ UNCHANGED document
    /\ UNCHANGED <<config, files, gateway, crashes, unrestored>>

Withdrawn(w) == document' \in {document, IF req[w].created THEN Missing ELSE document}

\* Mutant of ValidateNetwork: the policy document is not held against the new LAN.
ValidateNetworkAlone(w) ==
    /\ Serving(w, "validate") /\ req[w].kind = "network"
    /\ Goto(w, "write") /\ Looks

\* config.Validate reads the policy document as it is now; it may refuse other fields.
ValidateNetwork(w) ==
    /\ Serving(w, "validate") /\ req[w].kind = "network"
    /\ \/ Reply(w, "error") /\ Withdrawn(w)
       \/ Loads(Candidate(w)) /\ Goto(w, "write") /\ UNCHANGED document
    /\ UNCHANGED <<config, files, gateway, bounds>>

WriteNetworkConfig(w) ==
    /\ Serving(w, "write") /\ req[w].kind = "network"
    /\ \/ config' = Candidate(w) /\ Done(w) /\ UNCHANGED <<document, faults>>
       \/ Fault /\ Reply(w, "error") /\ Withdrawn(w) /\ UNCHANGED config
    /\ UNCHANGED <<files, gateway, crashes, unrestored>>

-----------------------------------------------------------------------------
(* ApplyDevicePolicy *)

\* The revision of a policy is that of the document, compared when it is read.
ComparePolicy(w) ==
    /\ Serving(w, "stat") /\ req[w].kind = "policy"
    /\ \/ Reply(w, "error")
       \/ /\ req[w].cfg.policyOn /\ document # Missing
          /\ ~req[w].stale /\ req[w].seen.document = document
          /\ Goto(w, "validate")
    /\ Looks

\* The devices against the LAN of the configuration loaded before, then mihomo.
ValidatePolicy(w) ==
    /\ Serving(w, "validate") /\ req[w].kind = "policy"
    /\ \/ Reply(w, "error")
       \/ Fits(req[w].wish.document, req[w].cfg.network) /\ Goto(w, "write")
    /\ Looks

WritePolicy(w) ==
    /\ Serving(w, "write") /\ req[w].kind = "policy"
    /\ \/ document' = req[w].wish.document /\ Done(w) /\ UNCHANGED faults
       \/ Fault /\ Reply(w, "error") /\ UNCHANGED document
    /\ UNCHANGED <<config, files, gateway, crashes, unrestored>>

-----------------------------------------------------------------------------
(* The gateway *)

\* The policy of a reload has not been read yet; the others keep what they loaded.
Accepts(w, c) == Renders(c) /\ (req[w].kind = "reload" => Loads(c))

Starts(w, c) ==
    status = "stopped" /\ Accepts(w, c) /\ status' = "running" /\ applied' = c

\* A start that fails is rolled back, or leaves a state that asks for a cleanup.
StartFails(c) ==
    \/ UNCHANGED gateway
    \/ status = "stopped" /\ status' = "cleanup" /\ applied' = c

\* Mutant of Stops: a stop forgets what it stopped and keeps the state file.
StopsHalf == status' = status /\ applied' = NoConfig

Stops == status' = "stopped" /\ applied' = NoConfig

\* The state is kept, or written anew when only the snapshot could not be removed.
StopFails == status' = "cleanup" /\ UNCHANGED applied

Start(w) ==
    /\ Serving(w, "start")
    /\ \/ Starts(w, Candidate(w)) /\ Done(w)
       \/ StartFails(Candidate(w)) /\ Done(w)
    /\ UNCHANGED <<store, bounds>>

Stop(w) ==
    /\ Serving(w, "stop")
    /\ Stops \/ StopFails
    /\ Done(w)
    /\ UNCHANGED <<store, bounds>>

\* The end of a reload that failed.
ReloadFails(w) == IF req[w].kind = "profile" THEN Goto(w, "restore") ELSE Done(w)

\* Reload validates the candidate and stops the gateway ...
Reload(w) ==
    /\ Serving(w, "reload")
    /\ \/ UNCHANGED gateway /\ ReloadFails(w)
       \/ status # "stopped" /\ Accepts(w, Candidate(w)) /\ Stops /\ Goto(w, "reload_start")
       \/ status # "stopped" /\ Accepts(w, Candidate(w)) /\ StopFails /\ ReloadFails(w)
    /\ UNCHANGED <<store, bounds>>

\* ... and starts it with the candidate.
ReloadStart(w) ==
    /\ Serving(w, "reload_start")
    /\ \/ Starts(w, Candidate(w)) /\ Done(w)
       \/ StartFails(Candidate(w)) /\ ReloadFails(w)
    /\ UNCHANGED <<store, bounds>>

\* applyProfile starts the previous gateway again.
Restart(w) ==
    /\ Serving(w, "restart")
    /\ LET previous == req[w].cfg IN
       \/ Starts(w, previous) /\ Cleanup(w, "preserved")
       \/ StartFails(previous) /\ Cleanup(w, "error")
    /\ UNCHANGED <<store, bounds>>

-----------------------------------------------------------------------------
Step(w) ==
    \/ Arrives(w) \/ Open(w) \/ Compare(w) \/ ReadOriginal(w) \/ LoadConfig(w) \/ Look(w)
    \/ StatProfile(w) \/ PutProfile(w) \/ ValidateProfile(w) \/ WriteProfileConfig(w)
    \/ Restore(w) \/ Relook(w) \/ Restart(w) \/ CleanProfile(w)
    \/ CreatePolicy(w) \/ ValidateNetwork(w) \/ WriteNetworkConfig(w)
    \/ ComparePolicy(w) \/ ValidatePolicy(w) \/ WritePolicy(w)
    \/ Start(w) \/ Stop(w) \/ Reload(w) \/ ReloadStart(w)

\* The service dies; the files and the gateway stay.
ServiceDies ==
    /\ crashes < MaxCrashes /\ crashes' = crashes + 1
    /\ req' = [w \in Workers |-> Idle]
    /\ UNCHANGED <<store, gateway, faults, unrestored>>

\* An installed configuration that loads, and a gateway that is not running.
Init ==
    /\ config \in [profile : {Managed}, network : Networks, policyOn : BOOLEAN]
    /\ document \in Document \cup {Missing}
    /\ Loads(config)
    /\ files = {} /\ status = "stopped" /\ applied = NoConfig
    /\ req = [w \in Workers |-> Idle]
    /\ faults = 0 /\ crashes = 0 /\ unrestored = FALSE

Next == ServiceDies \/ \E w \in Workers : Step(w)

Spec == Init /\ [][Next]_vars

-----------------------------------------------------------------------------
(* Properties *)

\* Values have their types, and a gateway that runs was started with a configuration.
TypeOK ==
    /\ config \in Config /\ document \in Document \cup {Missing} /\ files \subseteq Profiles
    /\ status \in {"stopped", "running", "cleanup"}
    /\ applied \in Config \cup {NoConfig} /\ (status = "running" => applied # NoConfig)
    /\ \A w \in Workers :
         /\ req[w].kind \in Kinds \cup {"none"} /\ req[w].at \in Labels
         /\ req[w].cfg \in Config \cup {NoConfig} /\ req[w].original \in Config \cup {NoConfig}
    /\ faults \in 0 .. MaxFaults /\ crashes \in 0 .. MaxCrashes

\* Whatever was saved, refused, rolled back or interrupted: a start finds a
\* configuration that loads, a policy that fits it and its profile, unless a
\* failed reload could not put the previous configuration back.
SavedConfigStarts == Startable(config) \/ unrestored

\* A gateway that runs, or is to be cleaned up, was started with the network and
\* the policy switch that are configured: they are frozen while it has a state file.
RunsConfiguredNetwork ==
    applied # NoConfig =>
        /\ applied.network = config.network
        /\ applied.policyOn = config.policyOn

\* A write of a request replaces the configuration or the policy document its client
\* has seen, or the candidate of its own that it takes back.
NoLostUpdate ==
    [][\A w \in Workers :
         /\ req[w].at = "write" /\ req'[w].at # "write" /\ config' # config =>
              ~req[w].stale /\ config = req[w].seen.config
         /\ req[w].at = "write" /\ req[w].kind = "policy" /\ req'[w].at # "write" /\ document' # document =>
              ~req[w].stale /\ document = req[w].seen.document
         /\ req[w].at = "restore" /\ req'[w].at # "restore" /\ config' # config =>
              config = Candidate(w)]_vars

\* A request that is refused leaves the configuration, the profiles that were there
\* and the policy document in use as they were when it arrived.
RefusedChangesNothing ==
    [][\A w \in Workers :
         req[w].kind \in {"profile", "network"} /\ req'[w].reply \in {"error", "preserved"}
         /\ req[w].at # "idle" /\ req'[w].at = "idle" =>
            /\ config' = req[w].seen.config
            /\ req[w].seen.files \subseteq files'
            /\ req[w].kind = "network" /\ config'.policyOn => document' = req[w].seen.document]_vars

\* "previous running gateway preserved or restored" is said when the gateway that ran
\* is there, with its configuration or the one that was saved, or when what a failed
\* stop left of it asks for a cleanup.
PreservedIsThere ==
    [][\A w \in Workers :
         req[w].at # "idle" /\ req'[w].at = "idle" /\ req'[w].reply = "preserved"
         /\ req[w].seen.status = "running" =>
            /\ status' # "stopped"
            /\ status' = "running" => applied' \in {req[w].seen.applied, req[w].seen.config}]_vars
=============================================================================
