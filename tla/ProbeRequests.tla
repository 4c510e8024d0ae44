----------------------------- MODULE ProbeRequests -----------------------------
(***************************************************************************)
(* The tests of connectivity and of proxies that the control panel asks for *)
(* (internal/controlapi/connectivity.go and proxy_health.go): a request is  *)
(* cut into jobs that its handler hands to a few goroutines over a channel  *)
(* without a buffer.  A connectivity job opens connections through mihomo   *)
(* and finds out from the list of all connections which route they took,    *)
(* while the devices of the LAN open theirs.                                *)
(*                                                                          *)
(* A redirect is followed: a host here is the one that answers in the end.  *)
(* The gateway's own connections to a host all take the same route, so that *)
(* they need no identifier.                                                 *)
(***************************************************************************)
EXTENDS Naturals, FiniteSets

CONSTANTS
    Targets,        \* hosts to connect to, or proxies to measure
    Workers,        \* goroutines: connectivityProbeConcurrency, proxyHealthConcurrency
    Rounds,         \* connectivityProbeRounds
    Routes,         \* host |-> the chain of connections of the gateway itself
    Chains,         \* chains that connections of the LAN take
    MaxStrangers    \* bound: connections of the LAN

ASSUME ProbeAssumption ==
    /\ IsFiniteSet(Targets) /\ IsFiniteSet(Workers) /\ Workers # {}
    /\ Rounds \in Nat \ {0} /\ Routes \in [Targets -> Chains] /\ "unknown" \notin Chains
    /\ MaxStrangers \in Nat

VARIABLES
    kind,           \* "connectivity" or "health"
    asked,          \* position |-> target
    handler,        \* "idle", "send", "wait" or "answered"
    sent,           \* jobs handed over so far
    worker,         \* what each goroutine does
    results,        \* position |-> result
    gone,           \* the client has gone
    lan,            \* the connections of the LAN: identifier |-> [host, chain]
    lanOpened       \* how many the LAN has opened so far

request   == <<kind, asked>>
probeVars == <<request, handler, sent, worker, results, gone, lan, lanOpened>>

Blank == [target |-> "-", status |-> "-", chain |-> "-", clouded |-> FALSE]
Off   == [at |-> "off", job |-> 0, round |-> 0, before |-> {}, delays |-> 0,
          chain |-> "unknown", clouded |-> FALSE]
Ready == [Off EXCEPT !.at = "ready"]

Host(w)   == asked[worker[w].job]
Is(w, label) == worker[w].at = label
Jobs      == DOMAIN asked

ProbeInit ==
    /\ kind = "-" /\ asked = << >> /\ handler = "idle" /\ sent = 0
    /\ worker = [w \in Workers |-> Off] /\ results = << >> /\ gone = FALSE
    /\ lan = << >> /\ lanOpened = 0

-----------------------------------------------------------------------------
(* handleConnectivityTests and handleProxyHealthTests *)

\* As many goroutines as there are jobs, but never more than allowed.
Crew(n) == {W \in SUBSET Workers :
              Cardinality(W) = IF n < Cardinality(Workers) THEN n ELSE Cardinality(Workers)}

\* A request that is not refused: every target of it is known, and taken once.
Selections(n) == {f \in [1..n -> Targets] : \A i, j \in 1..n : f[i] = f[j] => i = j}

Arrives(k, n) ==
    /\ handler = "idle" /\ handler' = "send" /\ kind' = k
    /\ asked' \in Selections(n)
    /\ results' = [i \in 1..n |-> Blank]
    /\ \E W \in Crew(n) : worker' = [w \in Workers |-> IF w \in W THEN Ready ELSE Off]
    /\ UNCHANGED <<sent, gone, lan, lanOpened>>

\* The channel has no buffer: the handler sends when a goroutine receives.
TakesJob(w) ==
    /\ handler = "send" /\ sent + 1 \in Jobs /\ Is(w, "ready")
    /\ sent' = sent + 1
    /\ worker' = [worker EXCEPT ![w] =
         [Off EXCEPT !.at = IF kind = "health" THEN "measure" ELSE "list", !.job = sent + 1, !.round = 1]]
    /\ UNCHANGED <<request, handler, results, gone, lan, lanOpened>>

ClosesJobs ==
    /\ handler = "send" /\ sent + 1 \notin Jobs /\ handler' = "wait"
    /\ UNCHANGED <<request, sent, worker, results, gone, lan, lanOpened>>

\* Mutant: a goroutine does not wait for jobs of a client that has gone.
ReturnsWhenGone(w) ==
    /\ handler = "wait" \/ gone
    /\ Is(w, "ready")
    /\ worker' = [worker EXCEPT ![w] = Off]
    /\ UNCHANGED <<request, handler, sent, results, gone, lan, lanOpened>>

\* A goroutine returns when the channel is closed, ...
Returns(w) ==
    /\ handler = "wait" /\ Is(w, "ready")
    /\ worker' = [worker EXCEPT ![w] = Off]
    /\ UNCHANGED <<request, handler, sent, results, gone, lan, lanOpened>>

\* Mutant: the answer is written once the jobs have been handed over.
AnswersAtOnce ==
    /\ handler = "wait" /\ handler' = "answered"
    /\ UNCHANGED <<request, sent, worker, results, gone, lan, lanOpened>>

\* ... and the handler answers when all have, whether or not the client is there.
Answers ==
    /\ handler = "wait" /\ (\A w \in Workers : Is(w, "off")) /\ handler' = "answered"
    /\ UNCHANGED <<request, sent, worker, results, gone, lan, lanOpened>>

-----------------------------------------------------------------------------
(* A job *)

\* MeasureProxyDelay: a delay or an error; the proxy may have gone since it was looked up.
Measures(w) ==
    /\ Is(w, "measure")
    /\ \E status \in {"reachable", "failed"} :
         /\ gone => status = "failed"
         /\ results' = [results EXCEPT ![worker[w].job] =
                          [Blank EXCEPT !.target = Host(w), !.status = status]]
    /\ worker' = [worker EXCEPT ![w] = Ready]
    /\ UNCHANGED <<request, handler, sent, gone, lan, lanOpened>>

Strange(host) == {c \in DOMAIN lan : lan[c].host = host}

\* currentConnectionIDs: the connections before the round, or none if mihomo is slow; those
\* to other hosts are never asked for.
Lists(w) ==
    /\ Is(w, "list")
    /\ \E listed \in BOOLEAN :
         /\ gone => ~listed
         /\ worker' = [worker EXCEPT ![w].at = "ask",
              ![w].before  = IF listed THEN Strange(Host(w)) ELSE {},
              ![w].clouded = @ \/ (~listed /\ Strange(Host(w)) # {})]
    /\ UNCHANGED <<request, handler, sent, results, gone, lan, lanOpened>>

Status(delays) == CASE delays = 0      -> "failed"
                    [] delays = Rounds -> "reachable"
                    [] OTHER           -> "degraded"

\* The end of a round: the first connection that is found gives the route, and a job
\* ends after its rounds or when the client has gone.
RoundEnds(w, ok, chain) ==
    LET delays == worker[w].delays + (IF ok THEN 1 ELSE 0)
        route  == IF worker[w].chain = "unknown" THEN chain ELSE worker[w].chain
        next   == [worker[w] EXCEPT !.at = "list", !.round = @ + 1, !.before = {},
                                    !.delays = delays, !.chain = route]
    IN  IF worker[w].round = Rounds \/ gone
          THEN /\ results' = [results EXCEPT ![worker[w].job] =
                    [target |-> Host(w), status |-> Status(delays), chain |-> route,
                     clouded |-> worker[w].clouded]]
               /\ worker' = [worker EXCEPT ![w] = Ready]
          ELSE /\ worker' = [worker EXCEPT ![w] = next]
               /\ UNCHANGED results

\* The request through mihomo is answered, and its connection open, ...
AsksAnswered(w) ==
    /\ Is(w, "ask") /\ ~gone
    /\ worker' = [worker EXCEPT ![w].at = "capture"]
    /\ UNCHANGED <<request, handler, sent, results, gone, lan, lanOpened>>

\* ... or it fails within connectivityProbeTimeout.
AsksFails(w) ==
    /\ Is(w, "ask") /\ RoundEnds(w, FALSE, "unknown")
    /\ UNCHANGED <<request, handler, sent, gone, lan, lanOpened>>

\* Mutant: any connection to the host is taken for the probe's.
CapturesAny(w) ==
    /\ Is(w, "capture")
    /\ \E chain \in {"unknown", Routes[Host(w)]} \cup {lan[c].chain : c \in Strange(Host(w))} :
         RoundEnds(w, TRUE, chain)
    /\ UNCHANGED <<request, handler, sent, gone, lan, lanOpened>>

\* captureProbeConnection: one to the host that was not there before, or none is found.
Captures(w) ==
    /\ Is(w, "capture")
    /\ \E chain \in {"unknown", Routes[Host(w)]}
                     \cup {lan[c].chain : c \in Strange(Host(w)) \ worker[w].before} :
         /\ gone => chain = "unknown"
         /\ RoundEnds(w, TRUE, chain)
    /\ UNCHANGED <<request, handler, sent, gone, lan, lanOpened>>

-----------------------------------------------------------------------------
(* Clients, devices of the LAN and mihomo *)

ClientGoes ==
    /\ handler \in {"send", "wait"} /\ ~gone /\ gone' = TRUE
    /\ UNCHANGED <<request, handler, sent, worker, results, lan, lanOpened>>

\* clouded: the worker's connection is not the only new one to its host.  A connection that
\* takes the same route as the gateway's own cannot be told from it, and is left out.
StrangerOpens(host, chain) ==
    /\ chain # Routes[host] /\ lanOpened < MaxStrangers /\ lanOpened' = lanOpened + 1
    /\ lan' = [c \in DOMAIN lan \cup {lanOpened'} |->
                    IF c = lanOpened' THEN [host |-> host, chain |-> chain] ELSE lan[c]]
    /\ worker' = [w \in Workers |->
                    [worker[w] EXCEPT !.clouded =
                       @ \/ (worker[w].at \in {"ask", "capture"} /\ Host(w) = host)]]
    /\ UNCHANGED <<request, handler, sent, results, gone>>

ConnectionEnds(c) ==
    /\ c \in DOMAIN lan
    /\ lan' = [d \in DOMAIN lan \ {c} |-> lan[d]]
    /\ UNCHANGED <<request, handler, sent, worker, results, gone, lanOpened>>

\* What the handler and a goroutine do next; every call in them has a timeout.
Handles  == (\E w \in Workers : TakesJob(w)) \/ ClosesJobs \/ Answers
Works(w) == Measures(w) \/ Lists(w) \/ AsksAnswered(w) \/ AsksFails(w) \/ Captures(w) \/ Returns(w)

ProbeNext ==
    \/ \E k \in {"connectivity", "health"}, n \in 1..Cardinality(Targets) : Arrives(k, n)
    \/ Handles \/ (\E w \in Workers : Works(w)) \/ ClientGoes
    \/ \E host \in Targets, chain \in Chains : StrangerOpens(host, chain)
    \/ \E c \in DOMAIN lan : ConnectionEnds(c)

\* Goroutines run, and what they wait for comes or times out.
ProbeFairness == WF_probeVars(Handles) /\ \A w \in Workers : WF_probeVars(Works(w))

ProbeSpec == ProbeInit /\ [][ProbeNext]_probeVars /\ ProbeFairness

-----------------------------------------------------------------------------
(* Properties *)

Resulting == [target : Targets \cup {"-"}, status : {"-", "failed", "degraded", "reachable"},
              chain : Chains \cup {"-", "unknown"}, clouded : BOOLEAN]

\* Every variable has its type.
ProbeTypeOK ==
    /\ kind \in {"-", "connectivity", "health"} /\ handler \in {"idle", "send", "wait", "answered"}
    /\ Jobs \subseteq 1..Cardinality(Targets) /\ sent \in 0..Cardinality(Targets) /\ gone \in BOOLEAN
    /\ \A i \in Jobs : asked[i] \in Targets
    /\ DOMAIN results = Jobs /\ \A i \in Jobs : results[i] \in Resulting
    /\ \A w \in Workers :
         /\ worker[w].at \in {"off", "ready", "measure", "list", "ask", "capture"}
         /\ worker[w].job \in {0} \cup Jobs /\ worker[w].round \in 0..Rounds
         /\ worker[w].delays \in 0..Rounds /\ worker[w].before \subseteq 1..lanOpened

\* An answer has the result of every target that was asked for, at the place of the
\* target (handleConnectivityTests, handleProxyHealthTests: goroutines write to places of
\* one slice, and the handler waits for all of them).
AnswerIsComplete ==
    handler = "answered" => \A i \in Jobs : results[i].target = asked[i] /\ results[i].status # "-"

\* The route that is shown for a target is the route of the gateway's own connections, as
\* long as no device has opened one to the same host meanwhile (captureProbeConnection).
RouteIsItsOwn ==
    \A i \in DOMAIN results :
        results[i].chain \in {"-", "unknown", Routes[asked[i]]} \/ results[i].clouded

\* A request that has been taken is answered, also when its client goes away in the middle
\* (the handler never waits for a goroutine that has returned).
RequestIsAnswered == []<>(handler \notin {"send", "wait"})
=============================================================================
