---------------------------- MODULE ControlServices ----------------------------
(***************************************************************************)
(* The parts of the management service that share no state, in one module  *)
(* for model checking: a behaviour exercises one of them, chosen at its    *)
(* beginning, while the others rest.  What the parts do share is modelled  *)
(* elsewhere: the gateway and its configuration in ConfigApply, operations *)
(* and recovery in ControlOperations.                                      *)
(***************************************************************************)
EXTENDS AuthSessions, SourceCatalog, ManagementSetup, PolicyRouting, TrafficSampler,
        ProbeRequests, StateEvents

VARIABLE part       \* the part that is exercised

parts == <<part, authVars, sourceVars, setupVars, policyVars, trafficVars, probeVars, eventVars>>

\* The parts that may begin in more than one way rest in one of them.
SourceRests  == catalogue = << >> /\ keychain = {}
PolicyRests  == setting = CHOOSE s \in Settings : TRUE
TrafficRests == origin = CHOOSE o \in Origins : TRUE

ServicesInit ==
    /\ part \in {"auth", "source", "setup", "policy", "traffic", "probe", "events"}
    /\ AuthInit /\ SourceInit /\ SetupInit /\ PolicyInit /\ TrafficInit /\ ProbeInit /\ EventsInit
    /\ part # "source" => SourceRests
    /\ part # "policy" => PolicyRests
    /\ part # "traffic" => TrafficRests

ServicesNext ==
    \/ part = "auth" /\ AuthNext
       /\ UNCHANGED <<part, sourceVars, setupVars, policyVars, trafficVars, probeVars, eventVars>>
    \/ part = "source" /\ SourceNext
       /\ UNCHANGED <<part, authVars, setupVars, policyVars, trafficVars, probeVars, eventVars>>
    \/ part = "setup" /\ SetupNext
       /\ UNCHANGED <<part, authVars, sourceVars, policyVars, trafficVars, probeVars, eventVars>>
    \/ part = "policy" /\ PolicyNext
       /\ UNCHANGED <<part, authVars, sourceVars, setupVars, trafficVars, probeVars, eventVars>>
    \/ part = "traffic" /\ TrafficNext
       /\ UNCHANGED <<part, authVars, sourceVars, setupVars, policyVars, probeVars, eventVars>>
    \/ part = "probe" /\ ProbeNext
       /\ UNCHANGED <<part, authVars, sourceVars, setupVars, policyVars, trafficVars, eventVars>>
    \/ part = "events" /\ EventsNext
       /\ UNCHANGED <<part, authVars, sourceVars, setupVars, policyVars, trafficVars, probeVars>>

\* AuthFairness, ProbeFairness and EventsFairness, each of the behaviours
\* that exercise its part.
ServicesFairness ==
    /\ WF_authVars(part = "auth" /\ Tick)
    /\ WF_probeVars(part = "probe" /\ Handles)
    /\ \A w \in Workers : WF_probeVars(part = "probe" /\ Works(w))
    /\ WF_eventVars(part = "events" /\ Streams)

ServicesSpec == ServicesInit /\ [][ServicesNext]_parts /\ ServicesFairness

\* Every variable of every part holds a value of its kind.
ServicesTypeOK ==
    /\ AuthTypeOK /\ SourceTypeOK /\ SetupTypeOK /\ PolicyTypeOK /\ TrafficTypeOK /\ ProbeTypeOK
    /\ EventsTypeOK

-----------------------------------------------------------------------------
(* Policy documents for model checking.  The first device has a MAC, the    *)
(* second is known by its address; a profile has a template or does without *)
(* one; one document names a policy that only the imported profile has, one *)
(* none but built-in ones, two a built-in one in another spelling, or one   *)
(* that mihomo does not have; the last three are refused.                   *)

SampleRule(id, match, action, policies, onUnsupported) ==
    [id |-> id, match |-> match, action |-> action, policies |-> policies,
     on_unsupported |-> onUnsupported]

SitesOnPort == [NoMatch EXCEPT !["domains"] = <<"x", "y">>, !["ports"] = <<"443">>]
Site        == [NoMatch EXCEPT !["domains"] = <<"x">>]
Listed      == [NoMatch EXCEPT !["rule_sets"] = <<"s">>]

Plain(onUnsupported) ==
    [id |-> "p", template |-> "", default_policies |-> <<"DIRECT", "upstream">>,
     on_unsupported |-> onUnsupported,
     rules |-> << SampleRule("r", SitesOnPort, "", <<"upstream", "DIRECT">>, "") >>]
FromTemplate ==
    [id |-> "p", template |-> "t", default_policies |-> << >>, on_unsupported |-> "fallthrough",
     rules |-> << SampleRule("r", Site, "upstream", << >>, "reject") >>]
Sparse ==
    [id |-> "p", template |-> "", default_policies |-> <<"REJECT-DROP">>, on_unsupported |-> "",
     rules |-> << SampleRule("r", Site, "DIRECT", << >>, "") >>]
Acting(profile, action) ==
    [profile EXCEPT !.rules = Append(@, SampleRule("l", Listed, action, << >>, ""))]
SampleTemplate ==
    [id |-> "t", default_policies |-> <<"upstream">>, on_unsupported |-> "",
     rules |-> << SampleRule("l", Listed, "upstream", << >>, "") >>]

Device(id, mac, ip, mode) ==
    [id |-> id, mac |-> mac, ipv4 |-> ip, profile |-> "p", egress_mode |-> mode]
Document(profile, body, first, second) ==
    [profiles |-> <<profile>>, templates |-> <<SampleTemplate>>,
     rule_sets |-> << [id |-> "s", body |-> body] >>,
     devices |-> << Device("d1", "m1", "ip1", first), Device("d2", "", "ip2", second) >>]
Refusable == Document(FromTemplate, "b1", "dedicated", "")

SampleDocuments ==
    { Refusable,
      Document(FromTemplate, "b2", "inherit_global", "dedicated"),
      Document(Acting(Plain(""), "B"), "b1", "dedicated", "inherit_global"),
      Document(Sparse, "b1", "", "dedicated"),
      Document(Acting(Plain("fallthrough"), "direct"), "b1", "dedicated", ""),
      Document(Acting(Plain(""), "REJECT-TINYGIF"), "b1", "inherit_global", ""),
      [Refusable EXCEPT !.devices[2].ipv4 = "elsewhere"],
      [Refusable EXCEPT !.devices[2].ipv4 = "ip1"],
      [Refusable EXCEPT !.profiles[1].template = "unknown"] }

\* The managed profile, an imported one with and without a terminal MATCH, a managed one
\* whose upstream proxy is called like a device's group, and an imported one with such a proxy.
Imported(targets, terminal) ==
    [imported |-> TRUE, targets |-> {"upstream", "B"} \cup targets, providers |-> {},
     before |-> << [when |-> {<<"domains", "y">>}, to |-> "B"] >>, terminal |-> terminal]
SampleSettings ==
    { [sameLAN |-> TRUE, global |-> Managed("upstream")],
      [sameLAN |-> FALSE, global |-> Imported({"direct"}, << [when |-> {}, to |-> "B"] >>)],
      [sameLAN |-> TRUE, global |-> Imported({}, << >>)],
      [sameLAN |-> TRUE, global |-> Managed("device/d1/default")],
      [sameLAN |-> FALSE, global |-> Imported({"device/d1/r"}, << >>)] }

\* strings.ToUpper and strings.HasPrefix of the names that occur.
SampleToUpper(name) == IF name = "direct" THEN "DIRECT" ELSE name
SampleHasPrefix(name, prefix) ==
    name \in IF prefix = "device/" THEN ReservedGroups ELSE ReservedProviders

\* What packets meet: nothing, a local destination, a site with and without the port,
\* the global rules' site and a rule set, over TCP and over UDP.
Meetings ==
    { {}, {Local}, {<<"ports", "443">>}, {<<"domains", "x">>}, {<<"domains", "x">>, Local},
      {<<"domains", "x">>, <<"ports", "443">>}, {<<"domains", "y">>, <<"ports", "443">>},
      {<<"domains", "matched">>}, {<<"rule_sets", "b1">>}, {<<"rule_sets", "b2">>},
      {<<"rule_sets", "b1">>, <<"domains", "x">>} }
SampleFacts == Meetings \cup {meeting \cup {UDP} : meeting \in Meetings}

-----------------------------------------------------------------------------
(* Connections for model checking: one of a local process next to one of the *)
(* same address without, and one that is not of the LAN next to one of a LAN *)
(* address without a lease.                                                  *)

From(src, process) == [src |-> src, process |-> process]
SampleOrigins ==
    LET odd == CHOOSE c \in Connections : TRUE
        Pair(x, y) == [c \in Connections |-> IF c = odd THEN x ELSE y]
    IN  {Pair(From("lan", TRUE), From("lan", FALSE)), Pair(From("far", FALSE), From("guest", FALSE))}

\* Connections of the gateway itself go through the proxy, some of the LAN's do not.
SampleRoutes == [t \in Targets |-> "proxy"]
=============================================================================
