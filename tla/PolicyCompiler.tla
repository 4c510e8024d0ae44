---------------------------- MODULE PolicyCompiler ----------------------------
(***************************************************************************)
(* The compiler of device policies (internal/device/policy.go) and the      *)
(* composition of its result with the global rules of the mihomo profile    *)
(* (internal/mihomo/device_policy.go), as functions of a policy document    *)
(* and of the settings of the gateway.                                      *)
(*                                                                          *)
(* A document is a record of sequences, as its JSON is.  A match has one    *)
(* sequence of values for each dimension; a condition is a dimension with   *)
(* a value.  A compiled rule is [when, to]: a set of conditions, all of     *)
(* which must hold, and the policy, proxy or group the packet goes to.      *)
(***************************************************************************)
EXTENDS Naturals, Sequences, FiniteSets, SequencesExt

CONSTANTS
    ToUpper(_),         \* strings.ToUpper
    HasPrefix(_, _)     \* strings.HasPrefix

Dimensions == <<"domains", "ip_cidrs", "protocols", "ports", "rule_sets">>
NoMatch    == [dim \in ToSet(Dimensions) |-> << >>]

Source(ip) == <<"SRC-IP-CIDR", ip>>
Local      == <<"ip_cidrs", "local">>     \* any of dedicatedLocalCIDRs

\* The names taken for built-in policies, in any spelling (builtinPolicyTarget, actionCanFallThrough).
Builtins == {name \in STRING : ToUpper(name) \in {"DIRECT", "REJECT", "REJECT-DROP", "REJECT-TINYGIF"}}

ASSUME SpellingAssumption == {"DIRECT", "REJECT", "REJECT-DROP", "REJECT-TINYGIF"} \subseteq Builtins

Concat(seq, Op(_)) == FlattenSeq([i \in DOMAIN seq |-> Op(seq[i])])

\* SelectSeq, as the loops of the code build it.
Where(seq, Test(_)) == Concat(seq, LAMBDA x : IF Test(x) THEN <<x>> ELSE << >>)

Distinct(seq)      == IsInjective(seq)
Ids(seq)           == [i \in DOMAIN seq |-> seq[i].id]
ById(seq, id)      == seq[CHOOSE i \in DOMAIN seq : seq[i].id = id]

-----------------------------------------------------------------------------
(* Documents, as they are decoded; validateUnsupported and the loop over the devices in  *)
(* ValidatePolicySet leave these values of on_unsupported and egress_mode.               *)

Unsupported   == {"", "reject", "fallthrough"}
RuleMatch     == [ToSet(Dimensions) -> Seq(STRING)]
Rule          == [id : STRING, match : RuleMatch, action : STRING, policies : Seq(STRING),
                  on_unsupported : Unsupported]
RuleSet       == [id : STRING, body : STRING]
Template      == [id : STRING, default_policies : Seq(STRING), on_unsupported : Unsupported,
                  rules : Seq(Rule)]
Profile       == [id : STRING, template : STRING, default_policies : Seq(STRING),
                  on_unsupported : Unsupported, rules : Seq(Rule)]
ManagedDevice == [id : STRING, mac : STRING, ipv4 : STRING, profile : STRING,
                  egress_mode : {"", "inherit_global", "dedicated"}]
PolicySet     == [devices : Seq(ManagedDevice), profiles : Seq(Profile),
                  templates : Seq(Template), rule_sets : Seq(RuleSet)]

\* Global rules: of an imported profile or of the managed one, of which terminal is
\* the MATCH at the end, if there is one.
Line        == [when : SUBSET (STRING \X STRING), to : STRING]
Provider    == [name : STRING, body : STRING]
GlobalRules == [imported : BOOLEAN, targets : SUBSET STRING, providers : SUBSET Provider,
                before : Seq(Line), terminal : Seq(Line)]

-----------------------------------------------------------------------------
(* Validation *)

\* resolveProfile: the rules of the template come first, the profile's own policies and
\* reaction to what they cannot carry take precedence.
resolveProfile(set, profile) ==
    IF profile.template = "" THEN profile
    ELSE LET template == ById(set.templates, profile.template) IN
         [profile EXCEPT
            !.default_policies = IF @ = << >> THEN template.default_policies ELSE @,
            !.on_unsupported   = IF @ = "" THEN template.on_unsupported ELSE @,
            !.rules            = template.rules \o @]

Product(seq) == FoldLeft(LAMBDA n, k : n * k, 1, seq)

\* combinationCount, with the bound of validateMatch as a parameter.
Combinations(match) ==
    Product([i \in DOMAIN Dimensions |->
               LET n == Len(match[Dimensions[i]]) IN IF n = 0 THEN 1 ELSE n])

validRule(set, rule) ==
    /\ rule.id # "default"
    /\ rule.match # NoMatch
    /\ ToSet(rule.match["rule_sets"]) \subseteq ToSet(Ids(set.rule_sets))
    /\ Combinations(rule.match) <= 256
    /\ IF rule.policies # << >> THEN rule.action = "" /\ Distinct(rule.policies)
                                ELSE rule.action # ""

validRules(set, rules) == Distinct(Ids(rules)) /\ \A i \in DOMAIN rules : validRule(set, rules[i])

validProfile(set, profile) ==
    /\ profile.template \in {""} \cup ToSet(Ids(set.templates))
    /\ LET resolved == resolveProfile(set, profile) IN
       /\ resolved.default_policies # << >> /\ Distinct(resolved.default_policies)
       /\ validRules(set, resolved.rules)

validTemplate(set, template) ==
    /\ template.default_policies # << >> /\ Distinct(template.default_policies)
    /\ validRules(set, template.rules)

Macs(set) == Where([i \in DOMAIN set.devices |-> set.devices[i].mac], LAMBDA m : m # "")

ValidatePolicySet(set) ==
    /\ Distinct(Ids(set.profiles)) /\ Distinct(Ids(set.templates))
    /\ Distinct(Ids(set.rule_sets)) /\ Distinct(Ids(set.devices))
    /\ \A i \in DOMAIN set.templates : validTemplate(set, set.templates[i])
    /\ \A i \in DOMAIN set.profiles : validProfile(set, set.profiles[i])
    /\ Distinct(Macs(set)) /\ Distinct([i \in DOMAIN set.devices |-> set.devices[i].ipv4])
    /\ \A i \in DOMAIN set.devices : set.devices[i].profile \in ToSet(Ids(set.profiles))

-----------------------------------------------------------------------------
(* Compilation *)

\* Mutant: DHCP topologies keep the devices without a MAC.
activeAlways(set, sameLAN) == set.devices

\* Without a MAC a device is known by its address alone, which only same_lan allows.
activeDevices(set, sameLAN) == Where(set.devices, LAMBDA d : sameLAN \/ d.mac # "")

EffectiveEgressMode(mode) == IF mode = "" THEN "legacy_fallback" ELSE mode

\* Mutant: the group belongs to the profile's slot, not to the device.
DeviceGroupShared(device, slot) == "device/" \o slot

DeviceGroupName(device, slot) == "device/" \o device \o "/" \o slot

RuleSetProviderName(id) == "open-surge-ruleset-" \o id

resolveUnsupported(rule, profile) ==
    IF rule # "" THEN rule ELSE IF profile # "" THEN profile ELSE "reject"

Condition(dim, value) == <<dim, IF dim = "rule_sets" THEN RuleSetProviderName(value) ELSE value>>

appendConditionDimension(existing, match, dim) ==
    IF match[dim] = << >> THEN existing
    ELSE Concat(existing, LAMBDA prior :
           [i \in DOMAIN match[dim] |-> prior \cup {Condition(dim, match[dim][i])}])

ruleVariants(match) ==
    LET domains   == appendConditionDimension(<< {} >>, match, "domains")
        ip_cidrs  == appendConditionDimension(domains, match, "ip_cidrs")
        protocols == appendConditionDimension(ip_cidrs, match, "protocols")
        ports     == appendConditionDimension(protocols, match, "ports")
    IN  appendConditionDimension(ports, match, "rule_sets")

\* A rule, and behind it the REJECT for what its target cannot carry.
WithReject(when, target, unsupported) ==
    << [when |-> when, to |-> target] >>
    \o IF unsupported = "reject" /\ target \notin Builtins
       THEN << [when |-> when, to |-> "REJECT"] >> ELSE << >>

TargetOf(device, rule) ==
    IF rule.policies = << >> THEN rule.action ELSE DeviceGroupName(device.id, rule.id)

Group(device, slot, policies) == [name |-> DeviceGroupName(device.id, slot), policies |-> policies]

deviceProfile(set, device) == resolveProfile(set, ById(set.profiles, device.profile))

\* A group for the default policy, and one for each rule that offers policies.
deviceGroups(device, profile) ==
    (IF EffectiveEgressMode(device.egress_mode) = "inherit_global" THEN << >>
     ELSE << Group(device, "default", profile.default_policies) >>)
    \o Concat(profile.rules, LAMBDA rule :
         IF rule.policies = << >> THEN << >> ELSE << Group(device, rule.id, rule.policies) >>)

ruleLines(device, profile, rule) ==
    Concat(ruleVariants(rule.match), LAMBDA variant :
      WithReject({Source(device.ipv4)} \cup variant, TargetOf(device, rule),
                 resolveUnsupported(rule.on_unsupported, profile.on_unsupported)))

defaultLines(device, profile) ==
    WithReject({Source(device.ipv4)}, DeviceGroupName(device.id, "default"),
               resolveUnsupported("", profile.on_unsupported))

\* The part of CompilePolicySetForIPOnlyMode about one device.
compileDevice(set, device) ==
    LET profile == deviceProfile(set, device)
        mode    == EffectiveEgressMode(device.egress_mode)
        rules   == ToSet(profile.rules)
    IN  [id |-> device.id, mac |-> device.mac, ipv4 |-> device.ipv4, profile |-> profile.id, mode |-> mode,
         slots      |-> {r.id : r \in {x \in rules : x.policies # << >>}}
                        \cup (IF mode = "inherit_global" THEN {} ELSE {"default"}),
         groups     |-> deviceGroups(device, profile),
         actions    |-> {r.action : r \in {x \in rules : x.policies = << >>}},
         referenced |-> UNION {ToSet(r.match["rule_sets"]) : r \in rules},
         overrides  |-> Concat(profile.rules, LAMBDA rule : ruleLines(device, profile, rule)),
         defaults   |-> defaultLines(device, profile)]

\* The rules of the devices whose packets use the default policy in the same place.
Ended(built, mode) == Concat(built, LAMBDA d : IF d.mode = mode THEN d.defaults ELSE << >>)

CompilePolicySet(set, sameLAN) ==
    LET active == activeDevices(set, sameLAN)
        built  == [i \in DOMAIN active |-> compileDevice(set, active[i])]
        used   == UNION {d.referenced : d \in ToSet(built)}
    IN  [devices      |-> built,
         reservations |-> {[mac |-> d.mac, ipv4 |-> d.ipv4] : d \in {e \in ToSet(active) : e.mac # ""}},
         groups       |-> Concat(built, LAMBDA d : d.groups),
         providers    |-> {[name |-> RuleSetProviderName(id), body |-> ById(set.rule_sets, id).body] : id \in used},
         overrides    |-> Concat(built, LAMBDA d : d.overrides),
         dedicated    |-> Ended(built, "dedicated"),
         defaults     |-> Ended(built, "legacy_fallback"),
         targets      |-> UNION ({ToSet(g.policies) : g \in UNION {ToSet(d.groups) : d \in ToSet(built)}}
                                 \cup {d.actions : d \in ToSet(built)})]

\* changedDeviceIDs: the devices of both documents that compile differently when
\* each document holds nothing else.
Alone(set, id) == CompilePolicySet([set EXCEPT !.devices = Where(@, LAMBDA d : d.id = id)], TRUE)

\* Mutant: devices are compared as they are written, without profiles and templates.
changedEntries(desired, now) ==
    {id \in ToSet(Ids(desired.devices)) \cap ToSet(Ids(now.devices)) :
        ById(desired.devices, id) # ById(now.devices, id)}

changedDeviceIDs(desired, now) ==
    {id \in ToSet(Ids(desired.devices)) \cap ToSet(Ids(now.devices)) :
        Alone(desired, id) # Alone(now, id)}

-----------------------------------------------------------------------------
(* Composition with the profile *)

\* The managed profile, with the upstream proxy of that name or without one.
Managed(upstream) ==
    [imported  |-> FALSE,
     targets   |-> IF upstream = "" THEN {} ELSE {upstream, "open-surge-egress"},
     providers |-> {},
     before    |-> IF upstream = "" THEN << >>
                   ELSE << [when |-> {<<"domains", "matched">>}, to |-> "open-surge-egress"] >>,
     terminal  |-> << [when |-> {}, to |-> "DIRECT"] >>]

\* The name spaces of the device groups and of the rule sets are refused to an imported
\* profile, the latter only where there is a document (bundle).
ReservedNamesFree(bundle, global) ==
    global.imported =>
      /\ \A name \in global.targets : ~HasPrefix(name, "device/")
      /\ bundle => \A p \in global.providers : ~HasPrefix(p.name, "open-surge-ruleset-")

\* Mutant: only the policies of groups are looked up, not the actions of rules.
validateGroupsOnly(bundle, compiled, global) ==
    /\ ReservedNamesFree(bundle, global)
    /\ UNION {ToSet(g.policies) : g \in ToSet(compiled.groups)} \subseteq Builtins \cup global.targets

\* validateImportedPolicySections and validateManagedPolicySections: the latter asks only
\* for the targets.
validatePolicySections(bundle, compiled, global) ==
    /\ ReservedNamesFree(bundle, global)
    /\ compiled.targets \subseteq Builtins \cup global.targets

\* The rules for local destinations of dedicated devices.
LocalLine(d) == [when |-> {Source(d.ipv4), Local}, to |-> "DIRECT"]
LocalLines(compiled) ==
    Concat(compiled.devices, LAMBDA d : IF d.mode = "dedicated" THEN << LocalLine(d) >> ELSE << >>)

\* Mutant: the device's own rules are asked before its local destinations.
preRulesLast(compiled) == compiled.overrides \o LocalLines(compiled) \o compiled.dedicated

orderedDevicePreRules(compiled) == LocalLines(compiled) \o compiled.overrides \o compiled.dedicated

\* composeManagedPolicySections and composeImportedPolicySections.
composeSections(compiled, global) ==
    [rules     |-> orderedDevicePreRules(compiled) \o global.before
                   \o compiled.defaults \o global.terminal,
     groups    |-> compiled.groups,
     providers |-> compiled.providers \cup global.providers,
     targets   |-> global.targets]
=============================================================================
