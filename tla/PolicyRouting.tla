----------------------------- MODULE PolicyRouting -----------------------------
(***************************************************************************)
(* Device policies at work: the document is edited (handleDevicePolicy),    *)
(* a start or a reload renders it into the rules mihomo runs, and a device  *)
(* is switched to another policy while they run (handleDeviceSelection).    *)
(* What the rules do to a packet is compared with what the document says    *)
(* of the device that sends it.                                             *)
(*                                                                          *)
(* A packet is its source address and the conditions that hold of it.       *)
(* mihomo, outside this repository, sends it where the first rule says of   *)
(* which every condition holds and whose target can carry it.               *)
(***************************************************************************)
EXTENDS PolicyCompiler

CONSTANTS
    Documents,       \* the policy documents that are written
    Settings,        \* configurations: [sameLAN, global]
    LanAddresses,    \* the addresses a device may have on the gateway's LAN
    Native,          \* the names of built-in policies that mihomo knows itself
    NoUDP,           \* the policies that carry no UDP
    Strangers, Facts,    \* other sources; the sets of conditions packets meet
    MaxSelections    \* bound: policies selected

DeviceIds  == UNION {ToSet(Ids(set.devices)) : set \in Documents}
RuleSetIds == UNION {ToSet(Ids(set.rule_sets)) : set \in Documents}
Rules      == UNION {UNION {ToSet(p.rules) : p \in ToSet(set.profiles) \cup ToSet(set.templates)} : set \in Documents}
Slots      == {"default"} \cup {rule.id : rule \in Rules}

ReservedGroups    == {"device/" \o device \o "/" \o slot : device \in DeviceIds, slot \in Slots}
ReservedProviders == {"open-surge-ruleset-" \o id : id \in RuleSetIds}

\* An identifier has letters, digits, "_" and "-" only (validID), so that what is put
\* together from them can be taken apart again, and begins as it was put together.
ASSUME IdentifiersAssumption ==
    /\ Documents \subseteq PolicySet
    /\ \A d, e \in DeviceIds, s, t \in Slots :
         "device/" \o d \o "/" \o s = "device/" \o e \o "/" \o t => d = e /\ s = t
    /\ \A i, j \in RuleSetIds : "open-surge-ruleset-" \o i = "open-surge-ruleset-" \o j => i = j
    /\ ReservedGroups \cap Builtins = {}
    /\ \A name \in ReservedGroups : HasPrefix(name, "device/")
    /\ \A name \in ReservedProviders : HasPrefix(name, "open-surge-ruleset-")

\* The names of the global rules resolve, and what comes last of them is a MATCH
\* (validateImportedRules).  An imported profile has been accepted by mihomo, which refuses
\* a proxy called like a policy of its own; the managed profile has no rule provider.
ASSUME SettingsAssumption ==
    \A s \in Settings :
      /\ s.sameLAN \in BOOLEAN /\ s.global \in GlobalRules
      /\ \A line \in ToSet(s.global.before) \cup ToSet(s.global.terminal) :
           /\ line.to \in Native \cup s.global.targets
           /\ \A c \in line.when : c[1] = "rule_sets" => \E p \in s.global.providers : p.name = c[2]
      /\ Len(s.global.terminal) <= 1 /\ \A line \in ToSet(s.global.terminal) : line.when = {}
      /\ \A p, q \in s.global.providers : p.name = q.name => p = q
      /\ IF s.global.imported THEN s.global.targets \cap Native = {} ELSE s.global.providers = {}

\* Packets meet conditions of the dimensions; mihomo has the two policies that OpenSurge
\* writes into rules itself, and they carry everything.
ASSUME PacketsAssumption ==
    /\ Facts \subseteq SUBSET (ToSet(Dimensions) \X STRING)
    /\ {"DIRECT", "REJECT"} \subseteq Native /\ Native \subseteq Builtins
    /\ NoUDP \cap {"DIRECT", "REJECT"} = {}

ASSUME BoundAssumption == MaxSelections \in Nat

VARIABLES
    policy,      \* data/device-policy.json
    setting,     \* config.yaml
    applied,     \* what the gateway was started with last: [policy, setting]
    running,     \* the rules, groups and providers mihomo runs, or nothing
    chosen,      \* mihomo's memory of selections (store-selected)
    switching,   \* the selection request being served
    selections

policyVars == <<policy, setting, applied, running, chosen, switching, selections>>

Stopped  == [rules |-> << >>, groups |-> << >>, providers |-> {}, targets |-> {}]
Idle     == [device |-> "-", group |-> "-", policy |-> "-"]
EmptySet == [devices |-> << >>, profiles |-> << >>, templates |-> << >>, rule_sets |-> << >>]
Known    == Documents \cup {EmptySet}
Up       == running # Stopped
UDP      == <<"protocols", "udp">>

Rendered(set, s) == composeSections(CompilePolicySet(set, s.sameLAN), s.global)

ValidSets == {set \in Known : ValidatePolicySet(set)}

\* ValidatePolicySetForLANWithProtectedForIPOnlyMode
ValidForLAN(set, sameLAN) ==
    /\ set \in ValidSets
    /\ \A d \in ToSet(activeDevices(set, sameLAN)) : d.ipv4 \in LanAddresses

-----------------------------------------------------------------------------
(* mihomo *)

GroupNames(r)    == {g.name : g \in ToSet(r.groups)}
Options(r, name) == UNION {ToSet(g.policies) : g \in {h \in ToSet(r.groups) : h.name = name}}
First(r, name)   == (CHOOSE g \in ToSet(r.groups) : g.name = name).policies[1]

\* A group stands for the option selected, or for its first one.
Picked(r, memory, name) ==
    IF name \notin GroupNames(r) THEN name
    ELSE IF name \in DOMAIN memory /\ memory[name] \in Options(r, name) THEN memory[name]
    ELSE First(r, name)

Carries(target, facts) == UDP \in facts => target \notin NoUDP

\* A condition on a rule set holds when the packet is in what its provider serves.
Holds(r, condition, src, facts) ==
    IF condition[1] = "rule_sets"
    THEN \E p \in r.providers : p.name = condition[2] /\ <<"rule_sets", p.body>> \in facts
    ELSE condition = Source(src) \/ condition \in facts

Takes(r, memory, line, src, facts) ==
    /\ \A condition \in line.when : Holds(r, condition, src, facts)
    /\ Carries(Picked(r, memory, line.to), facts)

\* Where the first line of a list sends a packet that can take it.
Leads(r, memory, lines, src, facts, otherwise) ==
    LET taking == {i \in DOMAIN lines : Takes(r, memory, lines[i], src, facts)} IN
    IF taking = {} THEN otherwise
    ELSE Picked(r, memory, lines[CHOOSE i \in taking : \A j \in taking : i <= j].to)

Route(r, memory, src, facts) == Leads(r, memory, r.rules, src, facts, "DIRECT")

\* mihomo -t: no name is given twice, and every policy, target and rule set is known.
NoNameTwice(r) == (GroupNames(r) \cup Native) \cap r.targets = {}

Loads(r) ==
    /\ Distinct([i \in DOMAIN r.groups |-> r.groups[i].name]) /\ NoNameTwice(r)
    /\ \A g \in ToSet(r.groups) : ToSet(g.policies) \subseteq Native \cup r.targets \cup GroupNames(r)
    /\ \A line \in ToSet(r.rules) :
         /\ line.to \in Native \cup r.targets \cup GroupNames(r)
         /\ \A c \in line.when : c[1] = "rule_sets" =>
              Cardinality({p \in r.providers : p.name = c[2]}) = 1

-----------------------------------------------------------------------------
(* The handlers *)

PolicyInit ==
    /\ policy = EmptySet /\ setting \in Settings
    /\ applied = [policy |-> EmptySet, setting |-> setting]
    /\ running = Stopped /\ chosen = << >> /\ switching = Idle /\ selections = 0

\* Mutant: a document is not compared with the LAN.
PutAnywhere(set) ==
    /\ ValidatePolicySet(set)
    /\ policy' = set
    /\ UNCHANGED <<setting, applied, running, chosen, switching, selections>>

\* handleDevicePolicy: a PUT keeps a document that is valid on this LAN.
PutPolicy(set) ==
    /\ ValidForLAN(set, setting.sameLAN)
    /\ policy' = set
    /\ UNCHANGED <<setting, applied, running, chosen, switching, selections>>

\* A configuration that runs only after a start or a reload.
Configure(s) ==
    /\ ValidForLAN(policy, s.sameLAN)
    /\ setting' = s
    /\ UNCHANGED <<policy, applied, running, chosen, switching, selections>>

\* What OpenSurge checks itself when it renders a configuration ...
Passes(set, s) ==
    validatePolicySections(set # EmptySet, CompilePolicySet(set, s.sameLAN), s.global)

\* ... before it asks mihomo (ValidateWrittenConfig).
Accepted(set, s) == Passes(set, s) /\ Loads(Rendered(set, s))

\* A start, or a reload; what is refused runs nothing else than before.
Apply ==
    /\ Accepted(policy, setting)
    /\ running' = Rendered(policy, setting)
    /\ applied' = [policy |-> policy, setting |-> setting]
    /\ UNCHANGED <<policy, setting, chosen, switching, selections>>

Stop ==
    /\ Up /\ running' = Stopped
    /\ UNCHANGED <<policy, setting, applied, chosen, switching, selections>>

\* handleDeviceSelection reads the applied bundle for the group of the slot
\* (DeviceGroupFromCompiled: a device that is not active has none) ...
Selects(device, slot, option) ==
    /\ switching = Idle /\ selections < MaxSelections /\ Up
    /\ \E d \in ToSet(CompilePolicySet(applied.policy, applied.setting.sameLAN).devices) :
         d.id = device /\ slot \in d.slots
    /\ switching' = [device |-> device, group |-> DeviceGroupName(device, slot), policy |-> option]
    /\ selections' = selections + 1
    /\ UNCHANGED <<policy, setting, applied, running, chosen>>

\* ... and then asks mihomo, which may have been given other rules since: an option
\* it does not offer is refused (validSelection).
Selected ==
    /\ switching # Idle /\ switching' = Idle
    /\ chosen' = IF switching.policy \notin Options(running, switching.group) THEN chosen
                 ELSE [g \in DOMAIN chosen \cup {switching.group} |->
                         IF g = switching.group THEN switching.policy ELSE chosen[g]]
    /\ UNCHANGED <<policy, setting, applied, running, selections>>

\* What a request may ask for: the policies some document offers, and one that none has to.
Policies == {"REJECT"} \cup UNION {ToSet(p.default_policies) \cup UNION {ToSet(r.policies) : r \in ToSet(p.rules)} :
                p \in UNION {ToSet(set.profiles) \cup ToSet(set.templates) : set \in Documents}}

PolicyNext ==
    \/ \E set \in Documents : PutPolicy(set)
    \/ \E s \in Settings : Configure(s)
    \/ Apply
    \/ Stop
    \/ \E device \in DeviceIds, slot \in Slots, option \in Policies : Selects(device, slot, option)
    \/ Selected

PolicySpec == PolicyInit /\ [][PolicyNext]_policyVars

-----------------------------------------------------------------------------
(* What a document says *)

\* Every condition of a match: one value of each dimension it fills in.
Meets(set, match, facts) ==
    \A dim \in ToSet(Dimensions) : match[dim] = << >> \/
        \E value \in ToSet(match[dim]) :
            <<dim, IF dim = "rule_sets" THEN ById(set.rule_sets, value).body ELSE value>> \in facts

\* The policy a rule of a device stands for: its own, or the one selected for it.
Offered(memory, device, slot, policies) ==
    LET name == "device/" \o device \o "/" \o slot IN
    IF name \in DOMAIN memory /\ memory[name] \in ToSet(policies) THEN memory[name] ELSE policies[1]

\* A strict choice rejects what its policy cannot carry, a lenient one leaves it to what follows.
Outcome(target, lenient, facts, otherwise) ==
    IF Carries(target, facts) THEN target ELSE IF lenient THEN otherwise ELSE "REJECT"

\* Where the rules of a device send a packet.  An action that is called like a built-in policy
\* is taken to carry everything: no REJECT stands behind it (actionCanFallThrough).
Ruled(set, profile, device, memory, facts, rest) ==
    LET rules == profile.rules
        Target(r) == IF r.policies = << >> THEN r.action ELSE Offered(memory, device.id, r.id, r.policies)
        Lenient(r) ==
            \/ (IF r.on_unsupported # "" THEN r.on_unsupported ELSE profile.on_unsupported) = "fallthrough"
            \/ r.policies = << >> /\ r.action \in Builtins
        deciding == {i \in DOMAIN rules : Meets(set, rules[i].match, facts)
                       /\ (Carries(Target(rules[i]), facts) \/ ~Lenient(rules[i]))}
    IN  IF deciding = {} THEN rest
        ELSE LET r == rules[CHOOSE i \in deciding : \A j \in deciding : i <= j] IN
             Outcome(Target(r), FALSE, facts, rest)

\* The end of the global rules.
Ending(global, facts) ==
    IF global.terminal # << >> /\ Carries(global.terminal[1].to, facts) THEN global.terminal[1].to ELSE "DIRECT"

\* What the document applied says of a packet: a stranger's and a paused device's
\* packets follow the global rules; a device's own rules come before them; a dedicated
\* device then uses its default policy, except to local destinations, which it reaches
\* directly; a device without a mode uses it for what the global rules do not name.
Declared(r, set, s, memory, src, facts) ==
    LET owners == {d \in ToSet(set.devices) : d.ipv4 = src /\ (s.sameLAN \/ d.mac # "")}
        Global(rest) == Leads(r, memory, s.global.before, src, facts, rest)
        plain == Global(Ending(s.global, facts))
    IN  IF owners = {} THEN plain
        ELSE LET device  == CHOOSE d \in owners : TRUE
                 profile == resolveProfile(set, ById(set.profiles, device.profile))
                 default == Offered(memory, device.id, "default", profile.default_policies)
                 ByDefault(rest) == Outcome(default, profile.on_unsupported = "fallthrough", facts, rest)
                 Own(rest)  == Ruled(set, profile, device, memory, facts, rest)
             IN  CASE device.egress_mode = "dedicated" ->
                        IF Local \in facts THEN "DIRECT" ELSE Own(ByDefault(plain))
                   [] device.egress_mode = "inherit_global" -> Own(plain)
                   [] OTHER -> Own(Global(ByDefault(Ending(s.global, facts))))

-----------------------------------------------------------------------------
(* Properties *)

Senders == LanAddresses \cup Strangers

\* Every variable holds a value of its kind, the document fits the configured LAN, and
\* mihomo runs what the gateway was last started with.
PolicyTypeOK ==
    /\ policy \in Known /\ setting \in Settings
    /\ ValidForLAN(policy, setting.sameLAN)
    /\ applied.policy \in Known /\ applied.setting \in Settings
    /\ Up => running = Rendered(applied.policy, applied.setting)
    /\ switching.device \in DeviceIds \cup {"-"} /\ selections \in 0..MaxSelections

\* Expanding matches, reject rules behind rules, templates, and the order in which
\* device rules and global rules are put together do to every packet what the applied
\* document says of the device it comes from.
RoutesAsDeclared ==
    Up => \A src \in Senders, facts \in Facts :
            Route(running, chosen, src, facts)
                = Declared(running, applied.policy, applied.setting, chosen, src, facts)

\* What OpenSurge checks is enough: a configuration that passes its own look at the names
\* is refused by mihomo in two cases only.  The document names a policy that OpenSurge takes
\* for a built-in one and mihomo does not know: another spelling, or one it does not have.
\* Or the managed profile's upstream proxy, which may have any name, has that of a device's
\* group or of a policy of mihomo's own: of an imported profile the name space is refused
\* (docs/agent-wiki/wiki/concepts/mihomo-profile-overlay.md calls it reserved).
NamesResolve ==
    LET misread == Builtins \ (Native \cup setting.global.targets)
    IN  Passes(policy, setting) =>
          \/ Loads(Rendered(policy, setting))
          \/ \E name \in CompilePolicySet(policy, setting.sameLAN).targets : name \in misread
          \/ ~setting.global.imported /\ ~NoNameTwice(Rendered(policy, setting))

\* The panel's list of changed devices is complete: a device of both documents that
\* it does not list would be served by a reload that is accepted exactly as it is now.
UnchangedRoutesAlike ==
    Up /\ setting = applied.setting /\ Accepted(policy, setting) =>
      \A d \in ToSet(policy.devices) :
        d.id \in ToSet(Ids(applied.policy.devices)) /\ d.id \notin changedDeviceIDs(policy, applied.policy)
          => \A facts \in Facts :
               Route(running, chosen, d.ipv4, facts)
                   = Route(Rendered(policy, setting), chosen, d.ipv4, facts)

\* Switching one device's policy moves no other device's packets, although devices
\* share profiles and a reload may have come between the lookup and the switch.
SelectionMovesOneDevice ==
    [][chosen' # chosen /\ Up =>
         \A src \in Senders, facts \in Facts :
           Route(running, chosen, src, facts) # Route(running, chosen', src, facts)
             => \E d \in ToSet(applied.policy.devices) : d.id = switching.device /\ d.ipv4 = src]_policyVars
=============================================================================
