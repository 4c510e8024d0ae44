---------------------------- MODULE TrafficSampler ----------------------------
(***************************************************************************)
(* The traffic of the devices as the control panel polls it                 *)
(* (internal/controlapi/device_traffic.go).  A request fetches the          *)
(* connections of mihomo, stamps the time, and only then takes the lock of  *)
(* the rate sampler, whose memory of the previous snapshot all requests     *)
(* share; meanwhile connections come, carry bytes and go, and mihomo may be *)
(* restarted or not answer.                                                 *)
(*                                                                          *)
(* Upload and download are one counter here, a byte is a unit of it, and an *)
(* address is normalised (normalizeTrafficIP).                              *)
(***************************************************************************)
EXTENDS Integers, FiniteSets

CONSTANTS
    Pollers,       \* requests being served
    Connections,   \* identifiers mihomo gives, each once
    Lan, Foreign,  \* source addresses on the gateway's LAN, and not on it
    Leased,        \* addresses in the lease file
    Origins,       \* where connections come from: identifier |-> [src, process]
    MaxBytes,      \* bound: bytes a connection carries
    MaxClock,      \* bound: seconds that pass
    MaxPolls,      \* bound: requests
    MaxGap         \* maxTrafficSampleGap

Gateway        == "gateway"      \* the gateway's own address, or a loopback one
TrafficSources == {Gateway} \cup Lan \cup Foreign

ASSUME TrafficAssumption ==
    /\ Lan \cap Foreign = {} /\ Gateway \notin Lan \cup Foreign
    /\ MaxGap \in Nat \ {0} /\ MaxBytes \in Nat /\ MaxClock \in Nat \ {0}
    /\ Leased \subseteq Lan
    /\ Origins \subseteq [Connections -> [src : TrafficSources, process : BOOLEAN]]

VARIABLES
    origin,       \* what a connection comes from, when it is opened
    engine,       \* the connections of mihomo: identifier |-> its bytes
    opened,       \* identifiers given so far
    clock,        \* seconds, as far as a stamp has seen them pass
    sampler,      \* the shared memory: [at, seen], at 0 without a sample
    poll,         \* the request each poller serves
    polls,
    counted,      \* bytes that responses have shown of each connection
    failedAt,     \* when a request last found mihomo not answering
    collided      \* two requests have been under way at a time

ghosts == <<counted, failedAt, collided>>
trafficVars == <<origin, engine, opened, clock, sampler, poll, polls, ghosts>>

Unsampled  == [at |-> 0, seen |-> << >>]
NoPoll     == [at |-> "idle", snapshot |-> << >>, ok |-> FALSE, stamp |-> 0]

\* The sum of f over a set of connections, or of classes: how many bytes, or connections,
\* there are when each of them has f of it.
Units(S, f) == UNION {{k} \X (1 .. f[k]) : k \in S}
Total(S, f) == Cardinality(Units(S, f))

TrafficInit ==
    /\ origin \in Origins /\ engine = << >> /\ opened = {}
    /\ clock = 1 /\ sampler = Unsampled /\ poll = [w \in Pollers |-> NoPoll]
    /\ polls = 0 /\ counted = [c \in Connections |-> 0] /\ failedAt = 0 /\ collided = FALSE

-----------------------------------------------------------------------------
(* mihomo, as long as there is a request to come *)

Opens ==
    /\ polls < MaxPolls
    /\ \E c \in Connections \ opened :
         /\ engine' = [d \in DOMAIN engine \cup {c} |-> IF d = c THEN 0 ELSE engine[d]]
         /\ opened' = opened \cup {c}
    /\ UNCHANGED <<origin, clock, sampler, poll, polls, ghosts>>

Transfers ==
    /\ polls < MaxPolls
    /\ \E c \in DOMAIN engine :
         engine[c] < MaxBytes /\ engine' = [engine EXCEPT ![c] = @ + 1]
    /\ UNCHANGED <<origin, opened, clock, sampler, poll, polls, ghosts>>

\* One connection ends, or mihomo is restarted and all do.
Closes ==
    /\ polls < MaxPolls /\ DOMAIN engine # {}
    /\ \E left \in {{}} \cup {DOMAIN engine \ {c} : c \in DOMAIN engine} :
         engine' = [c \in left |-> engine[c]]
    /\ UNCHANGED <<origin, opened, clock, sampler, poll, polls, ghosts>>

-----------------------------------------------------------------------------
(* What a snapshot is taken for *)

\* gatewayLocalSourceIPs: of a source one of whose connections has a local process,
\* all connections are the gateway's own.
localSources(snapshot) ==
    {origin[c].src : c \in {d \in DOMAIN snapshot : origin[d].src = Gateway \/ origin[d].process}}

isGatewayLocal(snapshot, c) == origin[c].process \/ origin[c].src \in localSources(snapshot)

\* aggregateDeviceTrafficWithPolicy: a row for every address with a lease, then for every
\* LAN address that is seen; what remains is unclassified.
rowsOf(snapshot) ==
    Leased \cup ({origin[c].src : c \in {d \in DOMAIN snapshot : ~isGatewayLocal(snapshot, d)}} \cap Lan)

\* The class a connection is counted in.
ClassOf(rows, snapshot, c) ==
    IF isGatewayLocal(snapshot, c) THEN "local"
    ELSE IF origin[c].src \in rows THEN origin[c].src ELSE "unclassified"

\* Mutant: rates go by the connection's own process only.
rateClassAlone(rows, snapshot, c) ==
    IF origin[c].process \/ origin[c].src = Gateway THEN "local"
    ELSE IF origin[c].src \in rows THEN origin[c].src ELSE "unclassified"

\* annotate classifies the connections once more.
rateClass(rows, snapshot, c) == ClassOf(rows, snapshot, c)

counterDelta(current, previous) == IF current <= previous THEN 0 ELSE current - previous

-----------------------------------------------------------------------------
(* handleDeviceTraffic *)

\* The connections of mihomo, or it does not answer.
Fetches(w) ==
    /\ poll[w].at = "idle" /\ polls < MaxPolls /\ polls' = polls + 1
    /\ \E ok \in BOOLEAN :
         poll' = [poll EXCEPT ![w] = [at |-> "stamp", ok |-> ok, stamp |-> 0,
                                      snapshot |-> IF ok THEN engine ELSE << >>]]
    /\ collided' = (collided \/ \E v \in Pollers \ {w} : poll[v].at # "idle")
    /\ IF collided' THEN counted' = [c \in Connections |-> 0] /\ failedAt' = 0
                    ELSE UNCHANGED <<counted, failedAt>>
    /\ UNCHANGED <<origin, engine, opened, clock, sampler>>

\* Any time has passed since the last stamp, or none.
Stamps(w) ==
    /\ poll[w].at = "stamp"
    /\ clock' \in clock..MaxClock
    /\ poll' = [poll EXCEPT ![w] = [@ EXCEPT !.at = "sample", !.stamp = clock']]
    /\ UNCHANGED <<origin, engine, opened, sampler, polls, ghosts>>

Elapsed(w) == poll[w].stamp - sampler.at
Rated(w)   == sampler.at # 0 /\ Elapsed(w) > 0 /\ Elapsed(w) <= MaxGap

\* The connections that are measured, those the sampler has seen before, and their bytes.
Measured(w) ==
    IF poll[w].ok /\ Rated(w) THEN DOMAIN poll[w].snapshot \cap DOMAIN sampler.seen ELSE {}
Delta(w, c) == counterDelta(poll[w].snapshot[c], sampler.seen[c])

\* The response, when the request takes the lock now.
Response(w) ==
    LET snapshot == poll[w].snapshot
        rows     == rowsOf(snapshot)
        classes  == rows \cup {"local", "unclassified"}
        Rate     == [c \in Measured(w) |-> Delta(w, c) \div Elapsed(w)]
    IN  [count |-> [k \in classes |->
                      Cardinality({c \in DOMAIN snapshot : ClassOf(rows, snapshot, c) = k})],
         rate  |-> [k \in classes |->
                      Total({c \in Measured(w) : rateClass(rows, snapshot, c) = k}, Rate)],
         total |-> Total(Measured(w), Rate)]

Respond(w) ==
    /\ poll' = [poll EXCEPT ![w] = NoPoll]
    /\ counted' = [c \in Connections |->
                     counted[c] + IF c \in Measured(w) /\ ~collided THEN Delta(w, c) ELSE 0]

Baseline(w) == [at |-> poll[w].stamp, seen |-> [c \in DOMAIN poll[w].snapshot |-> poll[w].snapshot[c]]]

\* Mutant: the memory keeps the counters it has when the sample is rated.
AnnotatesWithoutMemory(w) ==
    /\ poll[w].at = "sample" /\ poll[w].ok
    /\ Respond(w)
    /\ sampler' = IF Rated(w) THEN [sampler EXCEPT !.at = poll[w].stamp] ELSE Baseline(w)
    /\ UNCHANGED <<origin, engine, opened, clock, polls, failedAt, collided>>

\* annotate: a sample that is the first, not later than the memory, or too late for it
\* has no rates; every sample becomes the memory.
Annotates(w) ==
    /\ poll[w].at = "sample" /\ poll[w].ok
    /\ Respond(w)
    /\ sampler' = Baseline(w)
    /\ UNCHANGED <<origin, engine, opened, clock, polls, failedAt, collided>>

\* Mutant: a reset forgets the time, not the counters.
ResetsTime(w) ==
    /\ poll[w].at = "sample" /\ ~poll[w].ok
    /\ Respond(w)
    /\ sampler' = [sampler EXCEPT !.at = 0] /\ failedAt' = (IF collided THEN 0 ELSE poll[w].stamp)
    /\ UNCHANGED <<origin, engine, opened, clock, polls, collided>>

\* reset: the fetch failed.
Resets(w) ==
    /\ poll[w].at = "sample" /\ ~poll[w].ok
    /\ Respond(w)
    /\ sampler' = Unsampled /\ failedAt' = (IF collided THEN 0 ELSE poll[w].stamp)
    /\ UNCHANGED <<origin, engine, opened, clock, polls, collided>>

TrafficNext ==
    \/ Opens \/ Transfers \/ Closes
    \/ \E w \in Pollers : Fetches(w) \/ Stamps(w) \/ Annotates(w) \/ Resets(w)

TrafficSpec == TrafficInit /\ [][TrafficNext]_trafficVars

-----------------------------------------------------------------------------
(* Properties *)

\* Every variable holds a value of its kind, and no stamp is later than the clock.
TrafficTypeOK ==
    /\ DOMAIN engine \subseteq opened /\ opened \subseteq Connections
    /\ clock \in 1..MaxClock
    /\ sampler.at \in 0..clock /\ DOMAIN sampler.seen \subseteq opened
    /\ sampler.at = 0 => sampler = Unsampled
    /\ \A w \in Pollers : poll[w].at \in {"idle", "stamp", "sample"} /\ poll[w].stamp \in 0..clock

\* A response counts every connection in exactly one class and shows a rate only where
\* it shows connections; the rates of the classes add up to the gateway's, although
\* counts and rates are taken in two passes.
ResponseAddsUp ==
    \A w \in Pollers : poll[w].at = "sample" =>
      LET r == Response(w)
          classes == DOMAIN r.count
      IN  /\ Total(classes, r.count) = Cardinality(DOMAIN poll[w].snapshot)
          /\ Total(classes, r.rate) = r.total
          /\ \A k \in classes : r.count[k] = 0 => r.rate[k] = 0

\* Polled by one request at a time, no byte of a connection is shown twice, whatever
\* samples were too close, too far apart or failed in between.
BytesCountedOnce ==
    ~collided => \A c \in Connections : counted[c] <= MaxBytes
                   /\ (c \in DOMAIN engine => counted[c] <= engine[c])

\* A rate is never taken across a request that found mihomo not answering, for the
\* connections before and after it may be of two engines.
NoRateAcrossFailure ==
    \A w \in Pollers : ~collided /\ poll[w].at = "sample" /\ Measured(w) # {} => sampler.at >= failedAt
=============================================================================
