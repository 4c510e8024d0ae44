-------------------------- MODULE ObservationProofs --------------------------
(***************************************************************************)
(* Proofs about the parts of the control API that observe the proxy engine: *)
(* the traffic sampler (TrafficSampler) and the connectivity and proxy      *)
(* tests (ProbeRequests), for any number of pollers, goroutines, targets,   *)
(* connections, bytes and seconds.                                          *)
(***************************************************************************)
EXTENDS TrafficSampler, ProbeRequests, StateEvents, FiniteSetTheorems, TLAPS

-----------------------------------------------------------------------------
(***************************************************************************)
(* TrafficSampler: while one request is served at a time, no byte is shown  *)
(* twice and no rate is taken across a failed request; and what a response  *)
(* shows adds up, whatever overlaps.                                        *)
(***************************************************************************)

PollShape ==
    poll = [w \in Pollers |-> [at |-> poll[w].at, snapshot |-> poll[w].snapshot,
                               ok |-> poll[w].ok, stamp |-> poll[w].stamp]]

Served == {w \in Pollers : poll[w].at # "idle"}

\* Counters are numbers, and what was never opened was never counted.
CountersTyped ==
    /\ opened \subseteq Connections /\ DOMAIN engine \subseteq opened
    /\ \A c \in DOMAIN engine : engine[c] \in 0 .. MaxBytes
    /\ counted \in [Connections -> Nat]
    /\ \A c \in Connections \ opened : counted[c] = 0

\* What has been shown of a connection is at most what the memory has of it, at most what
\* a snapshot under way has, and at most what it has carried.
CountedBelow ==
    /\ \A c \in DOMAIN sampler.seen : sampler.seen[c] \in Nat /\ counted[c] <= sampler.seen[c]
    /\ \A w \in Served : \A c \in DOMAIN poll[w].snapshot :
         /\ c \in opened /\ poll[w].snapshot[c] \in 0 .. MaxBytes
         /\ counted[c] <= poll[w].snapshot[c]
         /\ c \in DOMAIN engine => poll[w].snapshot[c] <= engine[c]
    /\ \A c \in Connections : counted[c] <= MaxBytes
    /\ \A c \in DOMAIN engine : counted[c] <= engine[c]

\* The memory is later than the last failure, or empty.
MemoryAfterFailure ==
    /\ failedAt \in 0 .. clock
    /\ sampler.at \in Nat /\ (sampler.at = 0 \/ sampler.at >= failedAt)
    /\ \A w \in Pollers : poll[w].at = "sample" => poll[w].stamp \in failedAt .. clock

SamplerInv ==
    /\ PollShape /\ clock \in Nat /\ collided \in BOOLEAN /\ CountersTyped
    /\ ~collided => /\ \A v, w \in Served : v = w
                    /\ CountedBelow /\ MemoryAfterFailure

LEMMA SamplerInit == TrafficInit => SamplerInv
<1> SUFFICES ASSUME TrafficInit PROVE SamplerInv
  OBVIOUS
<1>1. PollShape /\ Served = {} /\ \A w \in Pollers : poll[w].at = "idle"
  BY DEF TrafficInit, PollShape, Served, NoPoll
<1>2. CountersTyped
  BY DEF TrafficInit, CountersTyped
<1>3. CountedBelow
  BY <1>1, TrafficAssumption DEF TrafficInit, CountedBelow, Unsampled
<1>4. MemoryAfterFailure
  BY <1>1 DEF TrafficInit, MemoryAfterFailure, Unsampled
<1> QED BY <1>1, <1>2, <1>3, <1>4 DEF TrafficInit, SamplerInv

\* A step of mihomo: counters grow, and a connection that appears has carried nothing and
\* was never seen before.
LEMMA EngineStep ==
    ASSUME SamplerInv, UNCHANGED <<clock, sampler, poll, counted, failedAt, collided>>,
           opened \subseteq opened', opened' \subseteq Connections, DOMAIN engine' \subseteq opened',
           \A c \in DOMAIN engine' : engine'[c] \in 0 .. MaxBytes,
           \A c \in DOMAIN engine' :
              (c \in DOMAIN engine /\ engine[c] <= engine'[c]) \/ c \notin opened
    PROVE  SamplerInv'
<1>1. PollShape' /\ Served' = Served /\ (MemoryAfterFailure => MemoryAfterFailure')
  BY DEF SamplerInv, PollShape, Served, MemoryAfterFailure
<1>2. CountersTyped'
  BY DEF SamplerInv, CountersTyped
<1>3. CountedBelow => CountedBelow'
  BY <1>1 DEF SamplerInv, CountersTyped, CountedBelow
<1> QED BY <1>1, <1>2, <1>3 DEF SamplerInv

LEMMA FetchStep == ASSUME SamplerInv, NEW w \in Pollers, Fetches(w) PROVE SamplerInv'
<1>1. PICK ok \in BOOLEAN :
        poll' = [poll EXCEPT ![w] = [at |-> "stamp", ok |-> ok, stamp |-> 0,
                                     snapshot |-> IF ok THEN engine ELSE << >>]]
  BY DEF Fetches
<1>2. /\ UNCHANGED <<engine, opened, clock, sampler>>
      /\ collided' = (collided \/ \E v \in Pollers \ {w} : poll[v].at # "idle")
      /\ ~collided' => UNCHANGED <<counted, failedAt>>
      /\ counted' \in {counted, [c \in Connections |-> 0]} /\ poll[w].at = "idle"
  BY DEF Fetches, ghosts
<1>3. /\ PollShape' /\ \A v \in Pollers \ {w} : poll'[v] = poll[v]
      /\ poll'[w].at = "stamp" /\ poll'[w].snapshot \in {engine, << >>}
  BY <1>1 DEF SamplerInv, PollShape
<1>4. CountersTyped' /\ clock' \in Nat /\ collided' \in BOOLEAN
  BY <1>2 DEF SamplerInv, CountersTyped
<1>5. ASSUME ~collided' PROVE (\A v, u \in Served' : v = u) /\ CountedBelow' /\ MemoryAfterFailure'
  <2>0. ~collided /\ \A v \in Pollers \ {w} : poll[v].at = "idle"
    BY <1>2, <1>5 DEF SamplerInv
  <2>1. Served' = {w} /\ UNCHANGED <<counted, failedAt>> /\ ~collided
    BY <1>2, <1>3, <1>5, <2>0 DEF Served
  <2>2. CountedBelow'
    BY <1>2, <1>3, <2>1 DEF SamplerInv, CountersTyped, CountedBelow
  <2>3. MemoryAfterFailure'
    BY <1>2, <1>3, <2>1 DEF SamplerInv, MemoryAfterFailure
  <2> QED BY <2>1, <2>2, <2>3
<1> QED BY <1>3, <1>4, <1>5 DEF SamplerInv

LEMMA StampStep == ASSUME SamplerInv, NEW w \in Pollers, Stamps(w) PROVE SamplerInv'
<1>1. /\ UNCHANGED <<engine, opened, sampler, counted, failedAt, collided>>
      /\ clock' \in Nat /\ clock' >= clock /\ poll[w].at = "stamp"
  BY DEF Stamps, ghosts, SamplerInv
<1>2. poll' = [poll EXCEPT ![w] = [at |-> "sample", snapshot |-> poll[w].snapshot,
                                   ok |-> poll[w].ok, stamp |-> clock']]
  <2>1. poll' = [poll EXCEPT ![w] = [poll[w] EXCEPT !.at = "sample", !.stamp = clock']]
    BY DEF Stamps
  <2>2. poll[w] = [at |-> poll[w].at, snapshot |-> poll[w].snapshot,
                   ok |-> poll[w].ok, stamp |-> poll[w].stamp]
    BY DEF SamplerInv, PollShape
  <2>3. [poll[w] EXCEPT !.at = "sample"]
          = [at |-> "sample", snapshot |-> poll[w].snapshot, ok |-> poll[w].ok, stamp |-> poll[w].stamp]
    BY <2>2
  <2>4. [poll[w] EXCEPT !.at = "sample", !.stamp = clock']
          = [[poll[w] EXCEPT !.at = "sample"] EXCEPT !.stamp = clock']
    OBVIOUS
  <2>5. [[at |-> "sample", snapshot |-> poll[w].snapshot, ok |-> poll[w].ok, stamp |-> poll[w].stamp]
           EXCEPT !.stamp = clock']
          = [at |-> "sample", snapshot |-> poll[w].snapshot, ok |-> poll[w].ok, stamp |-> clock']
    OBVIOUS
  <2> QED BY <2>1, <2>3, <2>4, <2>5
<1>3. /\ PollShape' /\ \A v \in Pollers \ {w} : poll'[v] = poll[v]
      /\ poll'[w].at = "sample" /\ poll'[w].snapshot = poll[w].snapshot /\ poll'[w].stamp = clock'
  BY <1>2 DEF SamplerInv, PollShape
<1>4. Served' = Served /\ CountersTyped'
  BY <1>1, <1>3 DEF Served, SamplerInv, CountersTyped
<1>5. CountedBelow => CountedBelow'
  BY <1>1, <1>3, <1>4 DEF CountedBelow, Served
<1>6. MemoryAfterFailure => MemoryAfterFailure'
  BY <1>1, <1>3 DEF SamplerInv, MemoryAfterFailure
<1> QED BY <1>1, <1>3, <1>4, <1>5, <1>6 DEF SamplerInv

\* Answering: nothing measured, or every measured byte once more than the memory had.
LEMMA AnswerStep ==
    ASSUME SamplerInv, NEW w \in Pollers, poll[w].at = "sample", Respond(w),
           UNCHANGED <<engine, opened, clock, collided>>,
           \/ sampler' = Baseline(w) /\ UNCHANGED failedAt
           \/ /\ sampler' = Unsampled /\ ~poll[w].ok
              /\ failedAt' = IF collided THEN 0 ELSE poll[w].stamp
    PROVE  SamplerInv'
<1>1. /\ PollShape' /\ \A v \in Pollers \ {w} : poll'[v] = poll[v]
      /\ poll'[w].at = "idle"
  BY DEF Respond, NoPoll, SamplerInv, PollShape
<1>2. w \in Served /\ Served' = Served \ {w}
  BY <1>1 DEF Served
<1>3. CASE collided
  <2>1. counted' = counted
    BY <1>3 DEF Respond, SamplerInv, CountersTyped
  <2> QED BY <1>1, <1>3, <2>1 DEF SamplerInv, CountersTyped
<1>4. CASE ~collided
  <2>0. Served = {w} /\ Served' = {}
    BY <1>2, <1>4 DEF SamplerInv
  <2>1. /\ counted' = [c \in Connections |-> counted[c] + IF c \in Measured(w) THEN Delta(w, c) ELSE 0]
    BY <1>4 DEF Respond
  <2>2. \A c \in Measured(w) :
          /\ c \in DOMAIN poll[w].snapshot /\ c \in Connections
          /\ counted[c] + Delta(w, c) \in Nat /\ counted[c] + Delta(w, c) <= poll[w].snapshot[c]
    BY <1>4, <2>0, TrafficAssumption
    DEF Measured, Delta, counterDelta, SamplerInv, CountersTyped, CountedBelow
  <2>3. \A c \in Connections :
          /\ counted'[c] \in Nat
          /\ c \in DOMAIN poll[w].snapshot => counted'[c] <= poll[w].snapshot[c]
          /\ c \notin DOMAIN poll[w].snapshot => counted'[c] = counted[c]
    <3> SUFFICES ASSUME NEW c \in Connections
                 PROVE  /\ counted'[c] \in Nat
                        /\ c \in DOMAIN poll[w].snapshot => counted'[c] <= poll[w].snapshot[c]
                        /\ c \notin DOMAIN poll[w].snapshot => counted'[c] = counted[c]
      OBVIOUS
    <3>1. CASE c \in Measured(w)
      BY <2>1, <2>2, <3>1
    <3>2. CASE c \notin Measured(w)
      <4>1. counted'[c] = counted[c] /\ counted[c] \in Nat
        BY <2>1, <3>2 DEF SamplerInv, CountersTyped
      <4> QED BY <1>4, <2>0, <4>1 DEF SamplerInv, CountedBelow
    <3> QED BY <3>1, <3>2
  <2>4. CountersTyped'
    <3>1. \A c \in DOMAIN poll[w].snapshot : c \in opened
      BY <1>4, <2>0 DEF SamplerInv, CountedBelow
    <3>2. counted' \in [Connections -> Nat]
      BY <2>1, <2>3
    <3> QED BY <2>3, <3>1, <3>2 DEF SamplerInv, CountersTyped
  <2>5. CountedBelow'
    <3>1. \A c \in Connections : counted'[c] <= MaxBytes
      BY <1>4, <2>0, <2>3, TrafficAssumption DEF SamplerInv, CountedBelow, CountersTyped
    <3>2. \A c \in DOMAIN engine : counted'[c] <= engine[c]
      BY <1>4, <2>0, <2>3, TrafficAssumption DEF SamplerInv, CountedBelow, CountersTyped
    <3>3. \A c \in DOMAIN sampler'.seen : sampler'.seen[c] \in Nat /\ counted'[c] <= sampler'.seen[c]
      <4>1. CASE sampler' = Baseline(w)
        <5>1. /\ DOMAIN sampler'.seen = DOMAIN poll[w].snapshot
              /\ \A c \in DOMAIN sampler'.seen : sampler'.seen[c] = poll[w].snapshot[c]
          BY <4>1 DEF Baseline
        <5> QED BY <1>4, <2>0, <2>3, <5>1 DEF SamplerInv, CountedBelow, CountersTyped
      <4>2. CASE sampler' = Unsampled
        BY <4>2 DEF Unsampled
      <4> QED BY <4>1, <4>2
    <3> QED BY <2>0, <3>1, <3>2, <3>3 DEF CountedBelow
  <2>6. MemoryAfterFailure'
    <3>1. poll[w].stamp \in failedAt .. clock /\ failedAt \in Nat
      BY <1>4 DEF SamplerInv, MemoryAfterFailure
    <3>2. \A v \in Pollers : poll'[v].at = "idle"
      BY <2>0 DEF Served
    <3> QED BY <1>4, <3>1, <3>2 DEF SamplerInv, MemoryAfterFailure, Baseline, Unsampled
  <2> QED BY <1>1, <1>4, <2>0, <2>4, <2>5, <2>6 DEF SamplerInv
<1> QED BY <1>3, <1>4

LEMMA SamplerStep == SamplerInv /\ [TrafficNext]_trafficVars => SamplerInv'
<1> SUFFICES ASSUME SamplerInv, [TrafficNext]_trafficVars PROVE SamplerInv'
  OBVIOUS
<1>1. CASE Opens
  <2>1. PICK c \in Connections \ opened :
          /\ engine' = [d \in DOMAIN engine \cup {c} |-> IF d = c THEN 0 ELSE engine[d]]
          /\ opened' = opened \cup {c}
    BY <1>1 DEF Opens
  <2>2. \A d \in DOMAIN engine' :
          /\ engine'[d] \in 0 .. MaxBytes
          /\ (d \in DOMAIN engine /\ engine[d] <= engine'[d]) \/ d \notin opened
    BY <2>1, TrafficAssumption DEF SamplerInv, CountersTyped
  <2>3. opened \subseteq opened' /\ opened' \subseteq Connections /\ DOMAIN engine' \subseteq opened'
    BY <2>1 DEF SamplerInv, CountersTyped
  <2> QED BY <1>1, <2>2, <2>3, EngineStep DEF Opens, ghosts
<1>2. CASE Transfers
  <2>1. PICK c \in DOMAIN engine : engine[c] < MaxBytes /\ engine' = [engine EXCEPT ![c] = @ + 1]
    BY <1>2 DEF Transfers
  <2>2. \A d \in DOMAIN engine' :
          /\ engine'[d] \in 0 .. MaxBytes
          /\ d \in DOMAIN engine /\ engine[d] <= engine'[d]
    BY <2>1, TrafficAssumption DEF SamplerInv, CountersTyped
  <2> QED BY <1>2, <2>1, <2>2, EngineStep DEF Transfers, ghosts, SamplerInv, CountersTyped
<1>3. CASE Closes
  <2>1. \A d \in DOMAIN engine' : d \in DOMAIN engine /\ engine'[d] = engine[d]
    BY <1>3 DEF Closes
  <2> QED BY <1>3, <2>1, EngineStep DEF Closes, ghosts, SamplerInv, CountersTyped
<1>4. ASSUME NEW w \in Pollers, Annotates(w) \/ Resets(w) PROVE SamplerInv'
  BY <1>4, AnswerStep DEF Annotates, Resets
<1>5. CASE UNCHANGED trafficVars
  BY <1>5
  DEF trafficVars, ghosts, SamplerInv, PollShape, Served, CountersTyped, CountedBelow,
      MemoryAfterFailure
<1> QED BY <1>1, <1>2, <1>3, <1>4, <1>5, FetchStep, StampStep DEF TrafficNext

\* Polled by one request at a time, what the responses have shown of a connection is never
\* more than it has carried: every sample becomes the baseline of the next, and a failed
\* one clears it (device_traffic.go, annotate and reset).
THEOREM BytesCountedOnceProved == TrafficSpec => []BytesCountedOnce
<1>1. SamplerInv => BytesCountedOnce
  BY DEF SamplerInv, CountersTyped, CountedBelow, BytesCountedOnce
<1> QED BY SamplerInit, SamplerStep, <1>1, PTL DEF TrafficSpec

\* No rate is taken across a request that found mihomo not answering.
THEOREM NoRateAcrossFailureProved == TrafficSpec => []NoRateAcrossFailure
<1>1. SamplerInv => NoRateAcrossFailure
  BY DEF SamplerInv, MemoryAfterFailure, NoRateAcrossFailure, Measured, Rated
<1> QED BY SamplerInit, SamplerStep, <1>1, PTL DEF TrafficSpec

-----------------------------------------------------------------------------
(* Sums over classes *)

InClass(S, class, k) == {x \in S : class[x] = k}

LEMMA UnitsMembers ==
    ASSUME NEW S, NEW f, NEW u
    PROVE  u \in Units(S, f) <=> \E k \in S : \E i \in 1 .. f[k] : u = <<k, i>>
BY DEF Units

LEMMA UnitsFinite ==
    ASSUME NEW S, IsFiniteSet(S), NEW f \in [S -> Nat]
    PROVE  IsFiniteSet(Units(S, f))
<1> DEFINE g == [k \in S |-> {k} \X (1 .. f[k])]
           R == {g[k] : k \in S}
<1>1. g \in Surjection(S, R)
  BY DEF Surjection
<1>2. IsFiniteSet(R)
  BY <1>1, FS_Surjection
<1>3. \A k \in S : IsFiniteSet({k} \X (1 .. f[k]))
  <2> SUFFICES ASSUME NEW k \in S PROVE IsFiniteSet({k} \X (1 .. f[k]))
    OBVIOUS
  <2>1. IsFiniteSet({k})
    BY FS_Singleton
  <2>2. IsFiniteSet(1 .. f[k])
    BY FS_Interval
  <2> QED
    BY <2>1, <2>2, FS_Product
<1>4. \A T \in R : IsFiniteSet(T)
  BY <1>3
<1>5. UNION R = Units(S, f)
  BY DEF Units
<1> QED
  BY <1>2, <1>4, <1>5, FS_UNION

\* When every member is in one class, the members of the classes add up to all of them.
LEMMA ClassesAddUp ==
    ASSUME NEW P, IsFiniteSet(P), NEW K, NEW class \in [P -> K], NEW f,
           \A k \in K : f[k] = Cardinality({x \in P : class[x] = k})
    PROVE  Total(K, f) = Cardinality(P)
<1> DEFINE Part(k) == {x \in P : class[x] = k}
           b == [k \in K |-> CHOOSE g : g \in Bijection(1 .. f[k], Part(k))]
           U == Units(K, f)
           h == [u \in U |-> b[u[1]][u[2]]]
<1>1. \A k \in K : IsFiniteSet(Part(k)) /\ f[k] = Cardinality(Part(k))
  BY FS_Subset
<1>2. \A k \in K : b[k] \in Bijection(1 .. f[k], Part(k))
  <2> SUFFICES ASSUME NEW k \in K PROVE \E g : g \in Bijection(1 .. f[k], Part(k))
    OBVIOUS
  <2>1. ExistsBijection(1 .. Cardinality(Part(k)), Part(k))
    BY <1>1, FS_CardinalityType
  <2> HIDE DEF Part
  <2> QED
    BY <2>1, <1>1 DEF ExistsBijection
<1>3. \A k \in K : /\ \A i \in 1 .. f[k] : b[k][i] \in P /\ class[b[k][i]] = k
                   /\ \A i, j \in 1 .. f[k] : b[k][i] = b[k][j] => i = j
                   /\ \A x \in Part(k) : \E i \in 1 .. f[k] : b[k][i] = x
  <2> SUFFICES ASSUME NEW k \in K
               PROVE  /\ \A i \in 1 .. f[k] : b[k][i] \in P /\ class[b[k][i]] = k
                      /\ \A i, j \in 1 .. f[k] : b[k][i] = b[k][j] => i = j
                      /\ \A x \in Part(k) : \E i \in 1 .. f[k] : b[k][i] = x
    OBVIOUS
  <2> DEFINE g == b[k]
             n == f[k]
  <2>1. g \in Bijection(1 .. n, Part(k))
    BY <1>2
  <2> HIDE DEF b, g, n
  <2>2. g \in [1 .. n -> Part(k)] /\ (\A i, j \in 1 .. n : g[i] = g[j] => i = j)
        /\ (\A x \in Part(k) : \E i \in 1 .. n : g[i] = x)
    BY <2>1 DEF Bijection, Injection, Surjection, IsInjective
  <2> QED
    BY <2>2 DEF g, n
<1> HIDE DEF b
<1>4. \A u \in U : u[1] \in K /\ u[2] \in 1 .. f[u[1]] /\ u = <<u[1], u[2]>>
  BY UnitsMembers
<1>5. \A k \in K : \A i \in 1 .. f[k] : <<k, i>> \in U
  BY UnitsMembers
<1> HIDE DEF U
<1>6. h \in [U -> P]
  BY <1>3, <1>4
<1>7. \A u, v \in U : h[u] = h[v] => u = v
  <2> SUFFICES ASSUME NEW u \in U, NEW v \in U, h[u] = h[v] PROVE u = v
    OBVIOUS
  <2>1. class[h[u]] = u[1] /\ class[h[v]] = v[1]
    BY <1>3, <1>4
  <2>2. u[1] = v[1] /\ b[u[1]][u[2]] = b[u[1]][v[2]]
    BY <2>1
  <2>3. u[2] = v[2]
    BY <2>2, <1>3, <1>4
  <2> QED
    BY <2>2, <2>3, <1>4
<1>8. \A x \in P : \E u \in U : h[u] = x
  <2> SUFFICES ASSUME NEW x \in P PROVE \E u \in U : h[u] = x
    OBVIOUS
  <2>1. class[x] \in K /\ x \in Part(class[x])
    OBVIOUS
  <2>2. PICK i \in 1 .. f[class[x]] : b[class[x]][i] = x
    BY <2>1, <1>3
  <2>3. <<class[x], i>> \in U
    BY <2>1, <2>2, <1>5
  <2>4. h[<<class[x], i>>] = x
    BY <2>2, <2>3
  <2> QED
    BY <2>3, <2>4
<1> HIDE DEF h
<1>9. h \in Injection(U, P) /\ h \in Surjection(U, P)
  BY <1>6, <1>7, <1>8 DEF Injection, Surjection, IsInjective
<1>10. Cardinality(U) = Cardinality(P)
  BY <1>9, FS_Injection
<1> QED
  BY <1>10 DEF Total, U

\* So do sums of numbers.
LEMMA SumsAddUp ==
    ASSUME NEW S, IsFiniteSet(S), NEW f \in [S -> Nat], NEW K, NEW class \in [S -> K], NEW r,
           \A k \in K : r[k] = Total(InClass(S, class, k), f)
    PROVE  Total(K, r) = Total(S, f)
<1> DEFINE P == Units(S, f)
           sort == [u \in P |-> class[u[1]]]
<1>1. IsFiniteSet(P)
  BY UnitsFinite
<1>2. \A u \in P : u[1] \in S
  BY UnitsMembers
<1>3. \A k \in K : Units({c \in S : class[c] = k}, f) = {u \in P : sort[u] = k}
  <2> SUFFICES ASSUME NEW k \in K PROVE Units({c \in S : class[c] = k}, f) = {u \in P : sort[u] = k}
    OBVIOUS
  <2>1. ASSUME NEW u \in Units({c \in S : class[c] = k}, f) PROVE u \in P /\ sort[u] = k
    <3>1. PICK c \in {d \in S : class[d] = k} : \E i \in 1 .. f[c] : u = <<c, i>>
      BY <2>1, UnitsMembers
    <3>2. u \in P
      BY <3>1, UnitsMembers
    <3> QED
      BY <3>1, <3>2
  <2>2. ASSUME NEW u \in P, sort[u] = k PROVE u \in Units({c \in S : class[c] = k}, f)
    <3>1. PICK c \in S : \E i \in 1 .. f[c] : u = <<c, i>>
      BY UnitsMembers
    <3>2. class[c] = k
      BY <2>2, <3>1
    <3> QED
      BY <3>1, <3>2, UnitsMembers
  <2> QED
    BY <2>1, <2>2
<1>4. sort \in [P -> K]
  BY <1>2
<1> HIDE DEF P, sort
<1>5. \A k \in K : r[k] = Cardinality({u \in P : sort[u] = k})
  BY <1>3 DEF Total, InClass
<1>6. Total(K, r) = Cardinality(P)
  BY ONLY <1>1, <1>4, <1>5, ClassesAddUp
<1> QED
  BY <1>6 DEF Total, P

LEMMA NothingAddsUp == \A f : Total({}, f) = 0
<1>1. \A f : Units({}, f) = {}
  BY DEF Units
<1> QED
  BY <1>1, FS_EmptySet DEF Total

-----------------------------------------------------------------------------
(* What a response shows *)

Counters(f) == IsFiniteSet(DOMAIN f) /\ f \in [DOMAIN f -> Nat]

\* Every snapshot, and the memory, counts the bytes of finitely many connections.
SamplesTyped ==
    /\ PollShape /\ clock \in Nat /\ Counters(engine)
    /\ Counters(sampler.seen) /\ sampler.at \in Nat
    /\ \A w \in Pollers : Counters(poll[w].snapshot) /\ poll[w].stamp \in Nat

LEMMA NoCounters == Counters(<< >>)
<1>1. DOMAIN << >> = {} /\ << >> \in [{} -> Nat]
  OBVIOUS
<1> QED
  BY <1>1, FS_EmptySet DEF Counters

LEMMA SamplesInit == TrafficInit => SamplesTyped
<1> SUFFICES ASSUME TrafficInit PROVE SamplesTyped
  OBVIOUS
<1>1. PollShape /\ \A w \in Pollers : poll[w].snapshot = << >> /\ poll[w].stamp = 0
  BY DEF TrafficInit, PollShape, NoPoll
<1> QED
  BY <1>1, NoCounters DEF TrafficInit, SamplesTyped, Unsampled

\* A step of one poller.
LEMMA PollerStep ==
    ASSUME SamplesTyped, NEW w \in Pollers, NEW next,
           poll' = [poll EXCEPT ![w] = next],
           next = [at |-> next.at, snapshot |-> next.snapshot, ok |-> next.ok, stamp |-> next.stamp],
           Counters(next.snapshot), next.stamp \in Nat, clock' \in Nat,
           engine' = engine, sampler' = sampler \/ sampler' = Unsampled \/ sampler' = Baseline(w)
    PROVE  SamplesTyped'
<1>1. PollShape' /\ \A v \in Pollers : poll'[v] = IF v = w THEN next ELSE poll[v]
  BY DEF SamplesTyped, PollShape
<1>2. \A v \in Pollers : Counters(poll'[v].snapshot) /\ poll'[v].stamp \in Nat
  BY <1>1 DEF SamplesTyped
<1>3. Counters(sampler'.seen) /\ sampler'.at \in Nat
  <2>1. CASE sampler' = Baseline(w)
    BY <2>1 DEF SamplesTyped, Baseline, Counters
  <2>2. CASE sampler' = Unsampled
    BY <2>2, NoCounters DEF Unsampled
  <2> QED
    BY <2>1, <2>2 DEF SamplesTyped
<1>4. Counters(engine')
  BY DEF SamplesTyped
<1> QED
  BY <1>1, <1>2, <1>3, <1>4 DEF SamplesTyped

LEMMA SamplesStep == SamplesTyped /\ [TrafficNext]_trafficVars => SamplesTyped'
<1> SUFFICES ASSUME SamplesTyped, [TrafficNext]_trafficVars PROVE SamplesTyped'
  OBVIOUS
<1>a. ASSUME Counters(engine'), UNCHANGED <<clock, sampler, poll>> PROVE SamplesTyped'
  BY <1>a DEF SamplesTyped, PollShape
<1>1. CASE Opens
  <2>1. PICK c : engine' = [d \in DOMAIN engine \cup {c} |-> IF d = c THEN 0 ELSE engine[d]]
    BY <1>1 DEF Opens
  <2>2. IsFiniteSet(DOMAIN engine \cup {c})
    BY FS_AddElement DEF SamplesTyped, Counters
  <2>3. Counters(engine')
    BY <2>1, <2>2 DEF SamplesTyped, Counters
  <2> QED
    BY <1>1, <1>a, <2>3 DEF Opens
<1>2. CASE Transfers
  <2>1. Counters(engine')
    BY <1>2 DEF Transfers, SamplesTyped, Counters
  <2> QED
    BY <1>2, <1>a, <2>1 DEF Transfers
<1>3. CASE Closes
  <2>1. PICK left \in SUBSET (DOMAIN engine) : engine' = [c \in left |-> engine[c]]
    BY <1>3 DEF Closes
  <2>2. IsFiniteSet(left)
    BY <2>1, FS_Subset DEF SamplesTyped, Counters
  <2>3. Counters(engine')
    BY <2>1, <2>2 DEF SamplesTyped, Counters
  <2> QED
    BY <1>3, <1>a, <2>3 DEF Closes
<1>4. ASSUME NEW w \in Pollers, Fetches(w) PROVE SamplesTyped'
  <2>1. PICK ok \in BOOLEAN :
          poll' = [poll EXCEPT ![w] = [at |-> "stamp", ok |-> ok, stamp |-> 0,
                                       snapshot |-> IF ok THEN engine ELSE << >>]]
    BY <1>4 DEF Fetches
  <2> DEFINE taken == IF ok THEN engine ELSE << >>
             next  == [at |-> "stamp", ok |-> ok, stamp |-> 0, snapshot |-> taken]
  <2>2. Counters(taken)
    BY NoCounters DEF SamplesTyped
  <2> HIDE DEF taken
  <2>3. next = [at |-> next.at, snapshot |-> next.snapshot, ok |-> next.ok, stamp |-> next.stamp]
        /\ next.snapshot = taken /\ next.stamp = 0
    OBVIOUS
  <2>4. poll' = [poll EXCEPT ![w] = next] /\ UNCHANGED <<engine, clock, sampler>>
    BY <1>4, <2>1 DEF Fetches, taken
  <2>5. clock' \in Nat
    BY <2>4 DEF SamplesTyped
  <2> HIDE DEF next
  <2>6. Counters(next.snapshot) /\ next.stamp \in Nat
    BY <2>2, <2>3
  <2>7. poll' = [poll EXCEPT ![w] = next] /\ engine' = engine /\ sampler' = sampler
    BY <2>4
  <2> QED
    BY <2>3, <2>5, <2>6, <2>7, PollerStep
<1>5. ASSUME NEW w \in Pollers, Stamps(w) PROVE SamplesTyped'
  <2> DEFINE now  == poll[w]
             next == [at |-> "sample", snapshot |-> now.snapshot, ok |-> now.ok, stamp |-> clock']
  <2>1. clock' \in Nat /\ UNCHANGED <<engine, sampler>>
        /\ poll' = [poll EXCEPT ![w] = [now EXCEPT !.at = "sample", !.stamp = clock']]
    BY <1>5 DEF Stamps, SamplesTyped
  <2>2. now = [at |-> now.at, snapshot |-> now.snapshot, ok |-> now.ok, stamp |-> now.stamp]
    BY DEF SamplesTyped, PollShape
  <2>3. Counters(now.snapshot)
    BY DEF SamplesTyped
  <2> HIDE DEF now
  <2>4. [now EXCEPT !.at = "sample"]
          = [at |-> "sample", snapshot |-> now.snapshot, ok |-> now.ok, stamp |-> now.stamp]
    BY <2>2
  <2>5. [now EXCEPT !.at = "sample", !.stamp = clock'] = [[now EXCEPT !.at = "sample"] EXCEPT !.stamp = clock']
    OBVIOUS
  <2>6. [[at |-> "sample", snapshot |-> now.snapshot, ok |-> now.ok, stamp |-> now.stamp]
           EXCEPT !.stamp = clock'] = next
    OBVIOUS
  <2>7. poll' = [poll EXCEPT ![w] = next]
    BY <2>1, <2>4, <2>5, <2>6
  <2>8. next = [at |-> next.at, snapshot |-> next.snapshot, ok |-> next.ok, stamp |-> next.stamp]
        /\ next.snapshot = now.snapshot /\ next.stamp = clock'
    OBVIOUS
  <2> HIDE DEF next
  <2> QED
    BY <2>1, <2>3, <2>7, <2>8, PollerStep
<1>6. ASSUME NEW w \in Pollers, Annotates(w) \/ Resets(w) PROVE SamplesTyped'
  <2>1. poll' = [poll EXCEPT ![w] = NoPoll] /\ UNCHANGED <<engine, clock>>
        /\ (sampler' = Unsampled \/ sampler' = Baseline(w))
    BY <1>6 DEF Annotates, Resets, Respond
  <2>2. NoPoll = [at |-> NoPoll.at, snapshot |-> NoPoll.snapshot, ok |-> NoPoll.ok, stamp |-> NoPoll.stamp]
        /\ Counters(NoPoll.snapshot) /\ NoPoll.stamp \in Nat
    BY NoCounters DEF NoPoll
  <2>3. clock' \in Nat
    BY <2>1 DEF SamplesTyped
  <2> QED
    BY <2>1, <2>2, <2>3, PollerStep
<1>7. CASE UNCHANGED trafficVars
  BY <1>7 DEF trafficVars, SamplesTyped, PollShape
<1> QED
  BY <1>1, <1>2, <1>3, <1>4, <1>5, <1>6, <1>7 DEF TrafficNext

\* A rate is a number: the time that has passed since the memory is not zero.
LEMMA RatesTyped ==
    ASSUME SamplesTyped, NEW w \in Pollers
    PROVE  /\ IsFiniteSet(Measured(w)) /\ Measured(w) \subseteq DOMAIN poll[w].snapshot
           /\ [c \in Measured(w) |-> Delta(w, c) \div Elapsed(w)] \in [Measured(w) -> Nat]
<1>1. Measured(w) \subseteq DOMAIN poll[w].snapshot
  BY DEF Measured
<1>2. IsFiniteSet(Measured(w))
  BY <1>1, FS_Subset DEF SamplesTyped, Counters
<1>3. ASSUME NEW c \in Measured(w) PROVE Delta(w, c) \div Elapsed(w) \in Nat
  <2>1. c \in DOMAIN poll[w].snapshot /\ c \in DOMAIN sampler.seen /\ Rated(w)
    BY DEF Measured
  <2>2. Delta(w, c) \in Nat
    BY <2>1 DEF SamplesTyped, Counters, Delta, counterDelta
  <2>3. Elapsed(w) \in Nat \ {0}
    BY <2>1 DEF SamplesTyped, Rated, Elapsed
  <2> QED
    BY <2>2, <2>3
<1> QED
  BY <1>1, <1>2, <1>3

\* aggregateDeviceTraffic counts the connections and annotate adds up their rates in two
\* passes; every connection is in the same class in both, so the rows, the gateway's own
\* and the rest add up to all connections and to the gateway's rate.
THEOREM ResponseAddsUpProved == TrafficSpec => []ResponseAddsUp
<1>1. SamplesTyped => ResponseAddsUp
  <2> SUFFICES ASSUME SamplesTyped, NEW w \in Pollers
               PROVE  LET r == Response(w)
                      IN  /\ Total(DOMAIN r.count, r.count) = Cardinality(DOMAIN poll[w].snapshot)
                          /\ Total(DOMAIN r.count, r.rate) = r.total
                          /\ \A k \in DOMAIN r.count : r.count[k] = 0 => r.rate[k] = 0
    BY DEF ResponseAddsUp
  <2> DEFINE snapshot == poll[w].snapshot
             seen     == DOMAIN snapshot
             rows     == rowsOf(snapshot)
             classes  == rows \cup {"local", "unclassified"}
             class    == [c \in seen |-> ClassOf(rows, snapshot, c)]
             M        == Measured(w)
             Rate     == [c \in M |-> Delta(w, c) \div Elapsed(w)]
             count    == [k \in classes |-> Cardinality({c \in seen : class[c] = k})]
             rate     == [k \in classes |-> Total({c \in M : class[c] = k}, Rate)]
  <2>1. IsFiniteSet(M) /\ M \subseteq seen /\ Rate \in [M -> Nat] /\ IsFiniteSet(seen)
    BY RatesTyped DEF SamplesTyped, Counters
  <2>2. Response(w) = [count |-> count, rate |-> rate, total |-> Total(M, Rate)]
    <3>1. \A k : {c \in seen : ClassOf(rows, snapshot, c) = k} = {c \in seen : class[c] = k}
      OBVIOUS
    <3>2. \A k : {c \in M : rateClass(rows, snapshot, c) = k} = {c \in M : class[c] = k}
      BY <2>1 DEF rateClass
    <3>3. Response(w) =
            [count |-> [k \in classes |-> Cardinality({c \in seen : ClassOf(rows, snapshot, c) = k})],
             rate  |-> [k \in classes |-> Total({c \in M : rateClass(rows, snapshot, c) = k}, Rate)],
             total |-> Total(M, Rate)]
      BY DEF Response
    <3> HIDE DEF class, M, Rate, rows, snapshot, seen, classes
    <3>4. [k \in classes |-> Cardinality({c \in seen : ClassOf(rows, snapshot, c) = k})] = count
      BY <3>1
    <3>5. [k \in classes |-> Total({c \in M : rateClass(rows, snapshot, c) = k}, Rate)] = rate
      BY <3>2
    <3> QED
      BY <3>3, <3>4, <3>5
  <2>3. class \in [seen -> classes]
    BY DEF ClassOf
  <2> HIDE DEF class, M, Rate, rows, snapshot, seen, classes
  <2>4. Total(classes, count) = Cardinality(seen)
    BY <2>1, <2>3, ClassesAddUp
  <2>5. Total(classes, rate) = Total(M, Rate)
    <3> DEFINE of == [c \in M |-> class[c]]
    <3>1. of \in [M -> classes]
      BY <2>1, <2>3
    <3>2. \A k \in classes : rate[k] = Total(InClass(M, of, k), Rate)
      <4>1. \A k : InClass(M, of, k) = {c \in M : class[c] = k}
        BY DEF InClass
      <4> QED
        BY <4>1
    <3> HIDE DEF of, rate
    <3> QED
      BY <2>1, <3>1, <3>2, SumsAddUp
  <2>6. ASSUME NEW k \in classes, count[k] = 0 PROVE rate[k] = 0
    <3>1. IsFiniteSet({c \in seen : class[c] = k})
      BY <2>1, FS_Subset
    <3>2. {c \in seen : class[c] = k} = {}
      BY <2>6, <3>1, FS_EmptySet
    <3>3. {c \in M : class[c] = k} = {}
      BY <2>1, <3>2
    <3> QED
      BY <3>3, NothingAddsUp
  <2>7. DOMAIN count = classes
    OBVIOUS
  <2> HIDE DEF count, rate
  <2>8. Response(w).count = count /\ Response(w).rate = rate /\ Response(w).total = Total(M, Rate)
    BY <2>2
  <2> QED
    BY <2>4, <2>5, <2>6, <2>7, <2>8 DEF seen, snapshot
<1> QED
  BY SamplesInit, SamplesStep, <1>1, PTL DEF TrafficSpec

-----------------------------------------------------------------------------
(* The values of the variables of the sampler *)

\* What TrafficTypeOK rests on: a snapshot is of connections that were opened, and a
\* request that is about to take the lock has a stamp.
SamplerTyped ==
    /\ PollShape /\ TrafficTypeOK
    /\ \A w \in Pollers : /\ DOMAIN poll[w].snapshot \subseteq opened
                          /\ poll[w].at = "sample" => poll[w].stamp # 0

LEMMA SamplerTypedInit == TrafficInit => SamplerTyped
BY TrafficAssumption DEF TrafficInit, SamplerTyped, PollShape, TrafficTypeOK, NoPoll, Unsampled

LEMMA SamplerTypedStep == SamplerTyped /\ [TrafficNext]_trafficVars => SamplerTyped'
<1> SUFFICES ASSUME SamplerTyped, [TrafficNext]_trafficVars PROVE SamplerTyped'
    OBVIOUS
<1> DEFINE Held(r) == /\ r.at \in {"idle", "stamp", "sample"} /\ r.stamp \in 0..clock
                      /\ DOMAIN r.snapshot \subseteq opened
                      /\ r.at = "sample" => r.stamp # 0
           Memory == /\ sampler.at \in 0..clock /\ DOMAIN sampler.seen \subseteq opened
                     /\ sampler.at = 0 => sampler = Unsampled
           Mihomo == DOMAIN engine \subseteq opened /\ opened \subseteq Connections
<1>a. /\ PollShape /\ Mihomo /\ Memory /\ clock \in 1..MaxClock
      /\ \A w \in Pollers : Held(poll[w])
    BY DEF SamplerTyped, TrafficTypeOK
<1>b. ASSUME PollShape', Mihomo', Memory', clock' \in 1..MaxClock, \A w \in Pollers : Held(poll[w])'
      PROVE  SamplerTyped'
    BY <1>b DEF SamplerTyped, TrafficTypeOK
<1>c. Held(NoPoll) /\ Unsampled.at = 0 /\ DOMAIN Unsampled.seen = {} /\ MaxClock \in Nat
    BY <1>a, TrafficAssumption DEF NoPoll, Unsampled
<1>d. ASSUME UNCHANGED poll PROVE PollShape'
    BY <1>a, <1>d DEF PollShape
<1>1. CASE Opens
  <2>1. PICK c \in Connections \ opened :
          /\ engine' = [d \in DOMAIN engine \cup {c} |-> IF d = c THEN 0 ELSE engine[d]]
          /\ opened' = opened \cup {c}
      BY <1>1 DEF Opens
  <2>2. Mihomo' /\ opened \subseteq opened' /\ UNCHANGED <<clock, sampler, poll>>
      BY <1>1, <1>a, <2>1 DEF Opens
  <2>3. Memory' /\ \A w \in Pollers : Held(poll[w])'
      BY <1>a, <2>2
  <2> QED BY <1>a, <1>b, <1>d, <2>2, <2>3
<1>2. CASE Transfers \/ Closes
  <2>1. Mihomo' /\ UNCHANGED <<opened, clock, sampler, poll>>
      BY <1>2, <1>a DEF Transfers, Closes
  <2> QED BY <1>a, <1>b, <1>d, <2>1
<1>3. ASSUME NEW w \in Pollers, Fetches(w) PROVE SamplerTyped'
  <2>1. PICK ok \in BOOLEAN : poll' = [poll EXCEPT ![w] =
          [at |-> "stamp", ok |-> ok, stamp |-> 0, snapshot |-> IF ok THEN engine ELSE << >>]]
      BY <1>3 DEF Fetches
  <2>2. UNCHANGED <<engine, opened, clock, sampler>>
      BY <1>3 DEF Fetches
  <2> DEFINE snapshot == IF ok THEN engine ELSE << >>
             next == [at |-> "stamp", ok |-> ok, stamp |-> 0, snapshot |-> snapshot]
  <2>3. DOMAIN snapshot \subseteq opened /\ poll' = [poll EXCEPT ![w] = next]
      BY <1>a, <2>1
  <2> HIDE DEF snapshot
  <2>4. /\ next = [at |-> next.at, snapshot |-> next.snapshot, ok |-> next.ok, stamp |-> next.stamp]
        /\ Held(next)
      BY <1>a, <2>3
  <2> HIDE DEF next
  <2>5. PollShape' /\ \A v \in Pollers : Held(poll'[v])
      BY <1>a, <2>3, <2>4 DEF PollShape
  <2> QED BY <1>a, <1>b, <2>2, <2>5
<1>4. ASSUME NEW w \in Pollers, Stamps(w) PROVE SamplerTyped'
  <2>1. /\ clock' \in clock..MaxClock /\ poll[w].at = "stamp"
        /\ poll' = [poll EXCEPT ![w] = [poll[w] EXCEPT !.at = "sample", !.stamp = clock']]
        /\ UNCHANGED <<engine, opened, sampler>>
      BY <1>4 DEF Stamps
  <2>2. clock' \in 1..MaxClock /\ 0..clock \subseteq 0..clock' /\ clock' # 0 /\ clock' \in 0..clock'
      BY <1>a, <1>c, <2>1
  <2> DEFINE old == poll[w]
             next == [old EXCEPT !.at = "sample", !.stamp = clock']
  <2>3. old = [at |-> old.at, snapshot |-> old.snapshot, ok |-> old.ok, stamp |-> old.stamp]
      BY <1>a DEF PollShape
  <2> HIDE DEF old
  <2>4. next = [at |-> "sample", snapshot |-> old.snapshot, ok |-> old.ok, stamp |-> clock']
    <3> DEFINE sampled == [at |-> "sample", snapshot |-> old.snapshot, ok |-> old.ok, stamp |-> old.stamp]
    <3>1. [old EXCEPT !.at = "sample"] = sampled
        BY <2>3
    <3>2. next = [[old EXCEPT !.at = "sample"] EXCEPT !.stamp = clock']
        OBVIOUS
    <3>3. [sampled EXCEPT !.stamp = clock']
            = [at |-> "sample", snapshot |-> old.snapshot, ok |-> old.ok, stamp |-> clock']
        OBVIOUS
    <3> HIDE DEF next, sampled
    <3> QED BY <3>1, <3>2, <3>3
  <2>5. poll' = [poll EXCEPT ![w] = next] /\ DOMAIN old.snapshot \subseteq opened
      BY <1>a, <2>1 DEF old
  <2> HIDE DEF next
  <2>6. PollShape' /\ \A v \in Pollers : poll'[v] = IF v = w THEN next ELSE poll[v]
      BY <1>a, <2>4, <2>5 DEF PollShape
  <2>7. next.at = "sample" /\ next.stamp = clock' /\ next.snapshot = old.snapshot
      BY <2>4
  <2>8. \A v \in Pollers : Held(poll[v])'
    <3> SUFFICES ASSUME NEW v \in Pollers PROVE Held(poll[v])'
        OBVIOUS
    <3>1. CASE v = w
        BY <2>1, <2>2, <2>7, <2>5, <2>6, <3>1
    <3>2. CASE v # w
        BY <1>a, <2>1, <2>2, <2>6, <3>2
    <3> QED BY <3>1, <3>2
  <2>9. Memory'
      BY <1>a, <2>1, <2>2
  <2> QED BY <1>a, <1>b, <2>1, <2>2, <2>6, <2>8, <2>9
<1>5. ASSUME NEW w \in Pollers, Annotates(w) \/ Resets(w) PROVE SamplerTyped'
  <2>1. /\ poll' = [poll EXCEPT ![w] = NoPoll] /\ UNCHANGED <<engine, opened, clock>>
        /\ poll[w].at = "sample" /\ sampler' \in {Baseline(w), Unsampled}
      BY <1>5 DEF Annotates, Resets, Respond
  <2>2. PollShape' /\ \A v \in Pollers : Held(poll'[v])
      BY <1>a, <1>c, <2>1 DEF PollShape, NoPoll
  <2>3. /\ Baseline(w).at = poll[w].stamp /\ Baseline(w).at \in 0..clock /\ Baseline(w).at # 0
        /\ DOMAIN Baseline(w).seen \subseteq opened
      BY <1>a, <2>1 DEF Baseline
  <2>4. Memory'
      BY <1>a, <1>c, <2>1, <2>3
  <2> QED BY <1>a, <1>b, <2>1, <2>2, <2>4
<1>6. CASE UNCHANGED trafficVars
    BY <1>6, <1>a, <1>b, <1>d DEF trafficVars
<1> QED BY <1>1, <1>2, <1>3, <1>4, <1>5, <1>6 DEF TrafficNext

\* The variables of the sampler keep values of their kind: no stamp and no memory is later
\* than the clock, and the memory is empty unless it has a stamp (handleDeviceTraffic).
THEOREM TrafficTypeCorrect == TrafficSpec => []TrafficTypeOK
<1>1. SamplerTyped => TrafficTypeOK
    BY DEF SamplerTyped
<1> QED BY SamplerTypedInit, SamplerTypedStep, <1>1, PTL DEF TrafficSpec

-----------------------------------------------------------------------------
(***************************************************************************)
(* ProbeRequests: an answer has the result of every target.                 *)
(***************************************************************************)

Labels == {"off", "ready", "measure", "list", "ask", "capture"}
Busy(w) == worker[w].at \in {"measure", "list", "ask", "capture"}
Done(i) == results[i].target = asked[i] /\ results[i].status # "-"

Slot == [at : Labels, job : Nat, round : Nat, before : SUBSET Nat, delays : Nat,
         chain : Chains \cup {"unknown"}, clouded : BOOLEAN]
WorkerTyped == worker \in [Workers -> Slot]
LanTyped ==
    lanOpened \in Nat /\ DOMAIN lan \subseteq Nat /\ \A c \in DOMAIN lan : lan[c].chain \in Chains

\* The jobs are numbered, each has a target, and there is a place for the result of each.
JobsNumbered ==
    /\ (\E n \in Nat : Jobs = 1..n) /\ sent \in Nat
    /\ \A i \in Jobs : asked[i] \in Targets
    /\ DOMAIN results = Jobs

\* A goroutine works on a job that has been handed over, and a job that has been handed
\* over is done unless a goroutine works on it.
NoneIsLost ==
    /\ \A w \in Workers : Busy(w) => worker[w].job \in Jobs
    /\ \A i \in Jobs : i <= sent => Done(i) \/ \E w \in Workers : Busy(w) /\ worker[w].job = i

\* The handler waits once every job has been handed over, and answers when nobody works.
HandlerWaits ==
    /\ handler \in {"wait", "answered"} => \A i \in Jobs : i <= sent
    /\ handler = "answered" => \A w \in Workers : ~Busy(w)
    /\ handler = "idle" => sent = 0

RequestInv == WorkerTyped /\ LanTyped /\ JobsNumbered /\ NoneIsLost /\ HandlerWaits

LEMMA RequestInit == ProbeInit => RequestInv
<1> SUFFICES ASSUME ProbeInit PROVE RequestInv
  OBVIOUS
<1>1. WorkerTyped /\ \A w \in Workers : ~Busy(w)
  BY DEF ProbeInit, WorkerTyped, Slot, Off, Busy, Labels
<1>2. Jobs = {} /\ Jobs = 1..0 /\ DOMAIN results = Jobs
  BY DEF ProbeInit, Jobs
<1>3. LanTyped
  BY DEF ProbeInit, LanTyped
<1> QED BY <1>1, <1>2, <1>3 DEF ProbeInit, RequestInv, JobsNumbered, NoneIsLost, HandlerWaits

LEMMA OneWorker ==
    ASSUME WorkerTyped, NEW w \in Workers, NEW slot \in Slot, worker' = [worker EXCEPT ![w] = slot]
    PROVE  WorkerTyped' /\ worker'[w] = slot /\ \A v \in Workers \ {w} : worker'[v] = worker[v]
BY DEF WorkerTyped

\* The slot of a goroutine that begins another round of its job.
NextSlot(slot, n, d, route) ==
    [slot EXCEPT !.at = "list", !.round = n, !.before = {}, !.delays = d, !.chain = route]

\* That slot is one: it is at the list of connections, with the job and the cloud it had.
LEMMA NextRound ==
    ASSUME NEW slot, NEW n, NEW d, NEW route, slot \in Slot, n \in Nat, d \in Nat,
           route \in Chains \cup {"unknown"}
    PROVE  /\ NextSlot(slot, n, d, route) \in Slot
           /\ NextSlot(slot, n, d, route).at = "list"
           /\ NextSlot(slot, n, d, route).job = slot.job
           /\ NextSlot(slot, n, d, route).chain = route
           /\ NextSlot(slot, n, d, route).clouded = slot.clouded
<1> DEFINE next == NextSlot(slot, n, d, route)
<1>1. /\ slot.job \in Nat /\ slot.clouded \in BOOLEAN
      /\ slot = [at |-> slot.at, job |-> slot.job, round |-> slot.round, before |-> slot.before,
                 delays |-> slot.delays, chain |-> slot.chain, clouded |-> slot.clouded]
  BY DEF Slot
<1>2. next = [slot EXCEPT !.at = "list", !.round = n, !.before = {}, !.delays = d, !.chain = route]
  BY DEF NextSlot
<1> HIDE DEF next
<1>3. next = [at |-> "list", job |-> slot.job, round |-> n, before |-> {}, delays |-> d,
              chain |-> route, clouded |-> slot.clouded]
  BY <1>1, <1>2
<1>4. "list" \in Labels
  BY DEF Labels
<1>5. /\ next \in Slot /\ next.at = "list" /\ next.job = slot.job
      /\ next.chain = route /\ next.clouded = slot.clouded
  BY <1>1, <1>3, <1>4 DEF Slot
<1> QED BY <1>5 DEF next

\* A goroutine goes on with its job.
LEMMA GoesOn ==
    ASSUME RequestInv, NEW w \in Workers, Busy(w), Busy(w)', worker[w].job = worker'[w].job,
           WorkerTyped', \A v \in Workers \ {w} : worker'[v] = worker[v],
           UNCHANGED <<asked, handler, sent, results, lan, lanOpened>>
    PROVE  RequestInv'
<1>1. \A v \in Workers : (Busy(v) <=> Busy(v)') /\ worker'[v].job = worker[v].job
  BY DEF Busy
<1>2. JobsNumbered' /\ LanTyped' /\ Jobs' = Jobs /\ \A i : Done(i)' <=> Done(i)
  BY DEF RequestInv, JobsNumbered, LanTyped, Jobs, Done
<1> QED BY <1>1, <1>2 DEF RequestInv, NoneIsLost, HandlerWaits

\* A goroutine is done with its job.
LEMMA IsDone ==
    ASSUME RequestInv, NEW w \in Workers, Busy(w), worker' = [worker EXCEPT ![w] = Ready],
           NEW r, r.target = Host(w), r.status # "-",
           results' = [results EXCEPT ![worker[w].job] = r],
           UNCHANGED <<asked, handler, sent, lan, lanOpened>>
    PROVE  RequestInv'
<1> PICK j : j = worker[w].job
  OBVIOUS
<1>1. WorkerTyped' /\ ~Busy(w)' /\ \A v \in Workers \ {w} : worker'[v] = worker[v]
  BY DEF RequestInv, WorkerTyped, Slot, Ready, Off, Busy, Labels
<1>2. JobsNumbered' /\ LanTyped' /\ Jobs' = Jobs
  BY DEF RequestInv, JobsNumbered, LanTyped, Jobs
<1>3. j \in Jobs /\ Done(j)' /\ \A i \in Jobs \ {j} : Done(i)' <=> Done(i)
  <2>1. j \in Jobs
    BY DEF RequestInv, NoneIsLost
  <2>2. results'[j] = r /\ \A i \in Jobs \ {j} : results'[i] = results[i]
    BY <2>1 DEF RequestInv, JobsNumbered
  <2> QED BY <2>1, <2>2 DEF Done, Host
<1>4. NoneIsLost'
  <2>1. \A v \in Workers : Busy(v)' => worker'[v].job \in Jobs'
    BY <1>1, <1>2 DEF RequestInv, NoneIsLost, Busy
  <2>2. ASSUME NEW i \in Jobs, i <= sent, ~Done(i)'
        PROVE  \E v \in Workers : Busy(v)' /\ worker'[v].job = i
    <3>1. i # j /\ ~Done(i)
      BY <1>3, <2>2
    <3>2. PICK v \in Workers : Busy(v) /\ worker[v].job = i
      BY <2>2, <3>1 DEF RequestInv, NoneIsLost
    <3> QED BY <1>1, <3>1, <3>2 DEF Busy
  <2> QED BY <1>2, <2>1, <2>2 DEF NoneIsLost
<1>5. HandlerWaits'
  BY <1>1, <1>2 DEF RequestInv, HandlerWaits, Busy
<1> QED BY <1>1, <1>2, <1>4, <1>5 DEF RequestInv

LEMMA EndOfRound ==
    ASSUME RequestInv, NEW w \in Workers, Busy(w), NEW ok \in BOOLEAN,
           NEW chain \in Chains \cup {"unknown"}, RoundEnds(w, ok, chain),
           UNCHANGED <<asked, handler, sent, lan, lanOpened>>
    PROVE  RequestInv'
<1>1. \A d : Status(d) # "-"
  BY DEF Status
<1>2. CASE worker[w].round = Rounds \/ gone
  <2>1. PICK r : /\ r.target = Host(w) /\ r.status # "-"
                 /\ results' = [results EXCEPT ![worker[w].job] = r]
                 /\ worker' = [worker EXCEPT ![w] = Ready]
    BY <1>1, <1>2 DEF RoundEnds
  <2> QED BY <2>1, IsDone
<1>3. CASE ~(worker[w].round = Rounds \/ gone)
  <2>1. /\ WorkerTyped' /\ worker'[w].at = "list" /\ worker'[w].job = worker[w].job
        /\ (\A v \in Workers \ {w} : worker'[v] = worker[v]) /\ results' = results
    <3>. PICK n, d, route :
            /\ n = worker[w].round + 1 /\ d = worker[w].delays + (IF ok THEN 1 ELSE 0)
            /\ route = IF worker[w].chain = "unknown" THEN chain ELSE worker[w].chain
      OBVIOUS
    <3>0. n \in Nat /\ d \in Nat /\ route \in Chains \cup {"unknown"}
      BY DEF RequestInv, WorkerTyped, Slot
    <3> DEFINE next == NextSlot(worker[w], n, d, route)
    <3>1. worker' = [worker EXCEPT ![w] = next] /\ results' = results
      BY <1>3 DEF RoundEnds, NextSlot
    <3>2. WorkerTyped /\ worker[w] \in Slot
      BY DEF RequestInv, WorkerTyped
    <3>3. next \in Slot /\ next.at = "list" /\ next.job = worker[w].job
      BY <3>0, <3>2, NextRound
    <3> HIDE DEF next
    <3>4. worker'[w] = next /\ (\A v \in Workers \ {w} : worker'[v] = worker[v]) /\ WorkerTyped'
      BY ONLY <3>1, <3>2, <3>3, OneWorker
    <3> QED BY <3>1, <3>3, <3>4
  <2> QED BY <2>1, GoesOn DEF Busy
<1> QED BY <1>2, <1>3

LEMMA RequestStep == RequestInv /\ [ProbeNext]_probeVars => RequestInv'
<1> SUFFICES ASSUME RequestInv, [ProbeNext]_probeVars PROVE RequestInv'
  OBVIOUS
<1>1. ASSUME NEW k \in {"connectivity", "health"}, NEW n \in 1..Cardinality(Targets), Arrives(k, n)
      PROVE  RequestInv'
  <2>1. WorkerTyped' /\ \A w \in Workers : ~Busy(w)'
    <3>1. Ready \in Slot /\ Off \in Slot /\ Ready.at = "ready" /\ Off.at = "off"
      BY DEF Ready, Off, Slot, Labels
    <3>2. PICK W : worker' = [w \in Workers |-> IF w \in W THEN Ready ELSE Off]
      BY <1>1 DEF Arrives
    <3> QED BY <3>1, <3>2 DEF WorkerTyped, Busy
  <2>2. /\ n \in Nat /\ Jobs' = 1..n /\ DOMAIN results' = Jobs' /\ sent' = 0
        /\ \A i \in Jobs' : asked'[i] \in Targets
    BY <1>1, ProbeAssumption, FS_CardinalityType DEF Arrives, Selections, Jobs, RequestInv, HandlerWaits
  <2>3. handler' = "send" /\ LanTyped'
    BY <1>1 DEF Arrives, RequestInv, LanTyped
  <2> QED BY <2>1, <2>2, <2>3 DEF RequestInv, JobsNumbered, NoneIsLost, HandlerWaits
<1>2. ASSUME NEW w \in Workers, TakesJob(w) PROVE RequestInv'
  <2>1. /\ WorkerTyped' /\ Busy(w)' /\ worker'[w].job = sent + 1 /\ ~Busy(w)
        /\ \A v \in Workers \ {w} : worker'[v] = worker[v]
    <3>. PICK at, n : at = (IF kind = "health" THEN "measure" ELSE "list") /\ n = sent + 1
      OBVIOUS
    <3>1. at \in {"measure", "list"} /\ n \in Nat
      BY DEF RequestInv, JobsNumbered
    <3>2. worker' = [worker EXCEPT ![w] = [Off EXCEPT !.at = at, !.job = n, !.round = 1]]
      BY <1>2 DEF TakesJob
    <3>3. Off \in Slot
      BY DEF Off, Slot, Labels
    <3>4. [Off EXCEPT !.at = at, !.job = n, !.round = 1] \in Slot
      BY <3>1, <3>3 DEF Slot, Labels
    <3>5. worker'[w].at = at /\ worker'[w].job = n
      <4>1. worker'[w] = [Off EXCEPT !.at = at, !.job = n, !.round = 1]
        BY <3>2, <3>4, OneWorker DEF RequestInv
      <4> QED BY <3>3, <4>1 DEF Slot
    <3> QED BY <1>2, <3>1, <3>2, <3>4, <3>5, OneWorker DEF TakesJob, Is, RequestInv, Busy
  <2>2. /\ JobsNumbered' /\ LanTyped' /\ Jobs' = Jobs /\ sent' = sent + 1 /\ sent + 1 \in Jobs
        /\ handler' = "send" /\ \A i : Done(i)' <=> Done(i)
    BY <1>2 DEF TakesJob, request, RequestInv, JobsNumbered, LanTyped, Jobs, Done
  <2>3. NoneIsLost'
    <3>1. \A v \in Workers : Busy(v)' => worker'[v].job \in Jobs'
      BY <2>1, <2>2 DEF RequestInv, NoneIsLost, Busy
    <3>2. ASSUME NEW i \in Jobs, i <= sent + 1, ~Done(i)
          PROVE  \E v \in Workers : Busy(v)' /\ worker'[v].job = i
      <4>1. CASE i = sent + 1
        BY <2>1, <4>1
      <4>2. CASE i <= sent
        BY <2>1, <3>2, <4>2 DEF RequestInv, NoneIsLost, Busy
      <4> QED BY <3>2, <4>1, <4>2 DEF RequestInv, JobsNumbered
    <3> QED BY <2>2, <3>1, <3>2 DEF NoneIsLost
  <2> QED BY <2>1, <2>2, <2>3 DEF RequestInv, HandlerWaits
<1>3. CASE ClosesJobs \/ Answers
  <2>1. (\A w \in Workers : Busy(w)' <=> Busy(w)) /\ WorkerTyped' /\ LanTyped' /\ JobsNumbered' /\ Jobs' = Jobs
    BY <1>3 DEF ClosesJobs, Answers, request, RequestInv, WorkerTyped, LanTyped, JobsNumbered, Jobs, Busy
  <2>2. NoneIsLost'
    BY <1>3, <2>1 DEF ClosesJobs, Answers, request, RequestInv, NoneIsLost, Busy, Done
  <2>3. \A i \in Jobs : i <= sent
    BY <1>3 DEF ClosesJobs, Answers, RequestInv, JobsNumbered, HandlerWaits
  <2>4. Answers => \A w \in Workers : ~Busy(w)
    BY DEF Answers, Is, Busy
  <2> QED BY <1>3, <2>1, <2>2, <2>3, <2>4 DEF ClosesJobs, Answers, RequestInv, HandlerWaits
<1>4. ASSUME NEW w \in Workers, Returns(w) PROVE RequestInv'
  <2>1. /\ WorkerTyped' /\ ~Busy(w) /\ ~Busy(w)' /\ \A v \in Workers \ {w} : worker'[v] = worker[v]
    BY <1>4 DEF Returns, Is, RequestInv, WorkerTyped, Slot, Off, Busy, Labels
  <2>2. JobsNumbered' /\ LanTyped' /\ Jobs' = Jobs /\ \A i : Done(i)' <=> Done(i)
    BY <1>4 DEF Returns, request, RequestInv, JobsNumbered, LanTyped, Jobs, Done
  <2>3. \A v \in Workers : (Busy(v)' <=> Busy(v)) /\ (Busy(v) => worker'[v] = worker[v])
    BY <2>1 DEF Busy
  <2> QED BY <1>4, <2>1, <2>2, <2>3 DEF Returns, RequestInv, NoneIsLost, HandlerWaits
<1>5. ASSUME NEW w \in Workers, Measures(w) PROVE RequestInv'
  <2>1. PICK r : /\ r.target = Host(w) /\ r.status # "-"
                 /\ results' = [results EXCEPT ![worker[w].job] = r]
    <3>1. PICK status \in {"reachable", "failed"} :
             results' = [results EXCEPT ![worker[w].job] = [Blank EXCEPT !.target = Host(w), !.status = status]]
      BY <1>5 DEF Measures
    <3>2. [Blank EXCEPT !.target = Host(w), !.status = status].target = Host(w)
          /\ [Blank EXCEPT !.target = Host(w), !.status = status].status # "-"
      BY DEF Blank
    <3> QED BY <3>1, <3>2
  <2> QED BY <1>5, <2>1, IsDone DEF Measures, request, Is, Busy
<1>6. ASSUME NEW w \in Workers, Lists(w) PROVE RequestInv'
  <2>1. /\ Busy(w) /\ worker'[w].at = "ask" /\ worker'[w].job = worker[w].job
        /\ WorkerTyped' /\ \A v \in Workers \ {w} : worker'[v] = worker[v]
    <3>1. PICK seen \in SUBSET Nat, clouded \in BOOLEAN :
            worker' = [worker EXCEPT ![w] = [worker[w] EXCEPT !.at = "ask", !.before = seen, !.clouded = clouded]]
      <4>1. PICK seen \in {Strange(Host(w)), {}}, more \in BOOLEAN :
              worker' = [worker EXCEPT ![w].at = "ask", ![w].before = seen, ![w].clouded = @ \/ more]
        BY <1>6 DEF Lists
      <4>2. Strange(Host(w)) \in SUBSET Nat /\ worker[w].clouded \in BOOLEAN
        BY DEF Strange, RequestInv, WorkerTyped, Slot, LanTyped
      <4> QED BY <4>1, <4>2
    <3>2. [worker[w] EXCEPT !.at = "ask", !.before = seen, !.clouded = clouded] \in Slot
      BY DEF RequestInv, WorkerTyped, Slot, Labels
    <3>3. [worker[w] EXCEPT !.at = "ask", !.before = seen, !.clouded = clouded].at = "ask"
          /\ [worker[w] EXCEPT !.at = "ask", !.before = seen, !.clouded = clouded].job = worker[w].job
      BY DEF RequestInv, WorkerTyped, Slot
    <3> QED BY <1>6, <3>1, <3>2, <3>3, OneWorker DEF Lists, Is, RequestInv, Busy
  <2> QED BY <1>6, <2>1, GoesOn DEF Lists, request, Busy
<1>7. ASSUME NEW w \in Workers, AsksAnswered(w) PROVE RequestInv'
  <2>1. /\ Busy(w) /\ worker'[w].at = "capture" /\ worker'[w].job = worker[w].job
        /\ WorkerTyped' /\ \A v \in Workers \ {w} : worker'[v] = worker[v]
    BY <1>7 DEF AsksAnswered, Is, RequestInv, WorkerTyped, Slot, Busy, Labels
  <2> QED BY <1>7, <2>1, GoesOn DEF AsksAnswered, request, Busy
<1>8. ASSUME NEW w \in Workers, AsksFails(w) PROVE RequestInv'
  BY <1>8, EndOfRound DEF AsksFails, request, Is, Busy
<1>9. ASSUME NEW w \in Workers, Captures(w) PROVE RequestInv'
  <2>1. PICK chain \in {"unknown", Routes[Host(w)]}
                       \cup {lan[c].chain : c \in Strange(Host(w)) \ worker[w].before} :
          RoundEnds(w, TRUE, chain)
    BY <1>9 DEF Captures
  <2>2. Busy(w) /\ UNCHANGED <<asked, handler, sent, lan, lanOpened>>
    BY <1>9 DEF Captures, request, Is, Busy
  <2>3. chain \in Chains \cup {"unknown"}
    <3>1. Host(w) \in Targets
      BY <2>2 DEF Host, RequestInv, NoneIsLost, JobsNumbered
    <3> QED BY <2>1, <3>1, ProbeAssumption DEF RequestInv, LanTyped, Strange
  <2> QED BY <2>1, <2>2, <2>3, EndOfRound
<1>10. ASSUME NEW host \in Targets, NEW chain \in Chains, StrangerOpens(host, chain) PROVE RequestInv'
  <2>1. \A w \in Workers : worker'[w].at = worker[w].at /\ worker'[w].job = worker[w].job
    BY <1>10 DEF StrangerOpens, RequestInv, WorkerTyped, Slot
  <2>2. WorkerTyped' /\ LanTyped'
    <3>1. WorkerTyped'
      <4>1. ASSUME NEW w \in Workers PROVE worker'[w] \in Slot
        <5>1. PICK clouded \in BOOLEAN : worker'[w] = [worker[w] EXCEPT !.clouded = clouded]
          <6>1. worker[w].clouded \in BOOLEAN
            BY DEF RequestInv, WorkerTyped, Slot
          <6> QED BY <1>10, <6>1 DEF StrangerOpens
        <5> QED BY <5>1 DEF RequestInv, WorkerTyped, Slot
      <4>2. DOMAIN worker' = Workers /\ worker' = [w \in Workers |-> worker'[w]]
        BY <1>10 DEF StrangerOpens
      <4> QED BY <4>1, <4>2 DEF WorkerTyped
    <3>2. LanTyped'
      BY <1>10 DEF StrangerOpens, RequestInv, LanTyped
    <3> QED BY <3>1, <3>2
  <2>3. JobsNumbered' /\ Jobs' = Jobs /\ (\A i : Done(i)' <=> Done(i)) /\ UNCHANGED <<handler, sent>>
    BY <1>10 DEF StrangerOpens, request, RequestInv, JobsNumbered, Jobs, Done
  <2> QED BY <2>1, <2>2, <2>3 DEF RequestInv, NoneIsLost, HandlerWaits, Busy
<1>11. ASSUME UNCHANGED <<asked, handler, sent, worker, results, lanOpened>>, LanTyped' PROVE RequestInv'
  BY <1>11 DEF RequestInv, WorkerTyped, JobsNumbered, NoneIsLost, HandlerWaits, Jobs, Busy, Done
<1>12. CASE ClientGoes \/ UNCHANGED probeVars
  BY <1>11, <1>12 DEF ClientGoes, probeVars, request, RequestInv, LanTyped
<1>13. ASSUME NEW c \in DOMAIN lan, ConnectionEnds(c) PROVE RequestInv'
  BY <1>11, <1>13 DEF ConnectionEnds, request, RequestInv, LanTyped
<1> QED
  BY <1>1, <1>2, <1>3, <1>4, <1>5, <1>6, <1>7, <1>8, <1>9, <1>10, <1>12, <1>13
  DEF ProbeNext, Handles, Works

\* Whatever the order the goroutines take their jobs and finish them in, and however many
\* there are, an answer has a result of every target at the target's place
\* (handleConnectivityTests, handleProxyHealthTests).
THEOREM AnswerIsCompleteProved == ProbeSpec => []AnswerIsComplete
<1>1. RequestInv => AnswerIsComplete
  BY DEF RequestInv, NoneIsLost, HandlerWaits, AnswerIsComplete, Done
<1> QED BY RequestInit, RequestStep, <1>1, PTL DEF ProbeSpec

-----------------------------------------------------------------------------
(* The route that is shown *)

\* What a goroutine has to go by, r being its slot, host its target and open the
\* connections of the LAN: the route it has found is the gateway's own, and whatever
\* connection to its target is not its own was there before the round, unless a device
\* has opened one meanwhile.
OwnRoute(r, host, open) ==
    r.at \in {"list", "ask", "capture"} =>
      /\ r.chain \in {"unknown", Routes[host]} \/ r.clouded
      /\ r.at # "list" => r.clouded \/ \A c \in DOMAIN open : open[c].host = host => c \in r.before

RouteInv ==
    RequestInv /\ RouteIsItsOwn /\ \A w \in Workers : OwnRoute(worker[w], Host(w), lan)

LEMMA RouteInit == ProbeInit => RouteInv
BY RequestInit DEF ProbeInit, RouteInv, RouteIsItsOwn, OwnRoute, Off

\* One goroutine goes on.
LEMMA RouteGoesOn ==
    ASSUME RouteInv, RequestInv', NEW w \in Workers, UNCHANGED <<asked, lan>>,
           \A v \in Workers \ {w} : worker'[v] = worker[v],
           OwnRoute(worker'[w], Host(w)', lan), RouteIsItsOwn'
    PROVE  RouteInv'
<1>1. ASSUME NEW v \in Workers \ {w} PROVE OwnRoute(worker'[v], Host(v)', lan')
  <2>1. worker'[v] = worker[v] /\ Host(v)' = Host(v) /\ lan' = lan
    BY DEF Host
  <2> QED BY <2>1 DEF RouteInv
<1>2. lan' = lan
  OBVIOUS
<1> QED BY <1>1, <1>2 DEF RouteInv

\* A goroutine shows the result of its job.
LEMMA RouteIsShown ==
    ASSUME RouteInv, RequestInv', NEW w \in Workers, Busy(w), UNCHANGED <<asked, lan>>,
           worker' = [worker EXCEPT ![w] = Ready],
           NEW r, r.chain \in {"-", "unknown", Routes[Host(w)]} \/ r.clouded,
           results' = [results EXCEPT ![worker[w].job] = r]
    PROVE  RouteInv'
<1> PICK j : j = worker[w].job
  OBVIOUS
<1>1. j \in DOMAIN results /\ Host(w) = asked[j]
  BY DEF RouteInv, RequestInv, NoneIsLost, JobsNumbered, Host
<1>2. results'[j] = r /\ DOMAIN results' = DOMAIN results
      /\ \A i \in DOMAIN results \ {j} : results'[i] = results[i]
  BY <1>1
<1>3. RouteIsItsOwn'
  BY <1>1, <1>2 DEF RouteInv, RouteIsItsOwn
<1>4. worker'[w].at = "ready" /\ \A v \in Workers \ {w} : worker'[v] = worker[v]
  BY DEF RouteInv, RequestInv, WorkerTyped, Ready, Off
<1>5. OwnRoute(worker'[w], Host(w)', lan)
  BY <1>4 DEF OwnRoute
<1> QED BY <1>3, <1>4, <1>5, RouteGoesOn

LEMMA RouteEndOfRound ==
    ASSUME RouteInv, RequestInv', NEW w \in Workers, Is(w, "ask") \/ Is(w, "capture"),
           NEW ok \in BOOLEAN, NEW chain \in Chains \cup {"unknown"}, RoundEnds(w, ok, chain),
           chain \in {"unknown", Routes[Host(w)]} \/ worker[w].clouded,
           UNCHANGED <<asked, lan>>
    PROVE  RouteInv'
<1>. PICK n, d, route :
        /\ n = worker[w].round + 1 /\ d = worker[w].delays + (IF ok THEN 1 ELSE 0)
        /\ route = IF worker[w].chain = "unknown" THEN chain ELSE worker[w].chain
  OBVIOUS
<1>. PICK clouded : clouded = worker[w].clouded
  OBVIOUS
<1>0. n \in Nat /\ d \in Nat /\ route \in Chains \cup {"unknown"} /\ clouded \in BOOLEAN
  BY DEF RouteInv, RequestInv, WorkerTyped, Slot
<1>1. Busy(w) /\ (route \in {"unknown", Routes[Host(w)]} \/ clouded)
  BY DEF RouteInv, OwnRoute, Is, Busy
<1>2. CASE worker[w].round = Rounds \/ gone
  <2>1. PICK status :
          /\ results' = [results EXCEPT ![worker[w].job] =
                           [target |-> Host(w), status |-> status, chain |-> route, clouded |-> clouded]]
          /\ worker' = [worker EXCEPT ![w] = Ready]
    BY <1>2 DEF RoundEnds
  <2> DEFINE r == [target |-> Host(w), status |-> status, chain |-> route, clouded |-> clouded]
  <2>2. r.chain \in {"-", "unknown", Routes[Host(w)]} \/ r.clouded
    BY <1>1
  <2>3. results' = [results EXCEPT ![worker[w].job] = r]
    BY <2>1
  <2> HIDE DEF r
  <2> QED BY <1>1, <2>1, <2>2, <2>3, RouteIsShown
<1>3. CASE ~(worker[w].round = Rounds \/ gone)
  <2> DEFINE slot == NextSlot(worker[w], n, d, route)
  <2>1. worker' = [worker EXCEPT ![w] = slot] /\ results' = results
    BY <1>3 DEF RoundEnds, NextSlot
  <2>2. slot \in Slot /\ slot.at = "list" /\ slot.job = worker[w].job /\ slot.chain = route
        /\ slot.clouded = clouded
    <3>1. worker[w] \in Slot
      BY DEF RouteInv, RequestInv, WorkerTyped
    <3> QED BY <1>0, <3>1, NextRound
  <2> HIDE DEF slot
  <2>4. worker'[w] = slot /\ \A v \in Workers \ {w} : worker'[v] = worker[v]
    BY <2>1, <2>2, OneWorker DEF RouteInv, RequestInv
  <2>5. Host(w)' = Host(w)
    BY <2>2, <2>4 DEF Host
  <2>6. OwnRoute(worker'[w], Host(w)', lan)
    BY <1>1, <2>2, <2>4, <2>5 DEF OwnRoute
  <2>7. RouteIsItsOwn'
    BY <2>1 DEF RouteInv, RouteIsItsOwn
  <2> QED BY <2>4, <2>6, <2>7, RouteGoesOn
<1> QED BY <1>2, <1>3

LEMMA RouteStep == RouteInv /\ [ProbeNext]_probeVars => RouteInv'
<1> SUFFICES ASSUME RouteInv, [ProbeNext]_probeVars PROVE RouteInv'
  OBVIOUS
<1>0. RequestInv /\ RequestInv' /\ RouteIsItsOwn /\ WorkerTyped
  BY RequestStep DEF RouteInv, RequestInv
<1>1. ASSUME NEW k, NEW n, Arrives(k, n) PROVE RouteInv'
  <2>1. PICK W : worker' = [w \in Workers |-> IF w \in W THEN Ready ELSE Off]
    BY <1>1 DEF Arrives
  <2>2. \A w \in Workers : worker'[w].at \in {"ready", "off"}
    BY <2>1 DEF Ready, Off
  <2>3. RouteIsItsOwn'
    BY <1>1 DEF Arrives, RouteIsItsOwn, Blank
  <2> QED BY <1>0, <2>2, <2>3 DEF RouteInv, OwnRoute
<1>2. ASSUME NEW w \in Workers, TakesJob(w) PROVE RouteInv'
  <2>. PICK at, n : at = (IF kind = "health" THEN "measure" ELSE "list") /\ n = sent + 1
    OBVIOUS
  <2> DEFINE slot == [Off EXCEPT !.at = at, !.job = n, !.round = 1]
  <2>1. worker' = [worker EXCEPT ![w] = slot]
    BY <1>2 DEF TakesJob
  <2>2. slot.at \in {"measure", "list"} /\ slot.chain = "unknown"
    BY DEF Off
  <2> HIDE DEF slot
  <2>3. worker'[w] = slot /\ \A v \in Workers \ {w} : worker'[v] = worker[v]
    BY <1>0, <2>1 DEF WorkerTyped
  <2>4. OwnRoute(worker'[w], Host(w)', lan)
    BY <2>2, <2>3 DEF OwnRoute
  <2> QED BY <1>0, <1>2, <2>3, <2>4, RouteGoesOn DEF TakesJob, request, RouteIsItsOwn
<1>3. ASSUME UNCHANGED <<asked, worker, results>>, DOMAIN lan' \subseteq DOMAIN lan,
             \A c \in DOMAIN lan' : lan'[c] = lan[c]
      PROVE  RouteInv'
  <2>1. ASSUME NEW w \in Workers PROVE OwnRoute(worker[w], Host(w), lan')
    BY <1>3 DEF RouteInv, OwnRoute
  <2> QED BY <1>0, <1>3, <2>1 DEF RouteInv, RouteIsItsOwn, Host
<1>4. CASE ClosesJobs \/ Answers \/ ClientGoes \/ UNCHANGED probeVars
  BY <1>3, <1>4 DEF ClosesJobs, Answers, ClientGoes, probeVars, request
<1>5. ASSUME NEW c \in DOMAIN lan, ConnectionEnds(c) PROVE RouteInv'
  BY <1>3, <1>5 DEF ConnectionEnds, request
<1>6. ASSUME NEW w \in Workers, Returns(w) PROVE RouteInv'
  <2>1. worker'[w] = Off /\ \A v \in Workers \ {w} : worker'[v] = worker[v]
    BY <1>0, <1>6 DEF Returns, WorkerTyped
  <2>2. OwnRoute(worker'[w], Host(w)', lan)
    BY <2>1 DEF OwnRoute, Off
  <2> QED BY <1>0, <1>6, <2>1, <2>2, RouteGoesOn DEF Returns, request, RouteIsItsOwn
<1>7. ASSUME NEW w \in Workers, Measures(w) PROVE RouteInv'
  <2>1. PICK status \in {"reachable", "failed"} :
           results' = [results EXCEPT ![worker[w].job] = [Blank EXCEPT !.target = Host(w), !.status = status]]
    BY <1>7 DEF Measures
  <2> DEFINE r == [Blank EXCEPT !.target = Host(w), !.status = status]
  <2>2. r.chain = "-"
    BY DEF Blank
  <2>3. results' = [results EXCEPT ![worker[w].job] = r]
    BY <2>1
  <2> HIDE DEF r
  <2> QED BY <1>0, <1>7, <2>2, <2>3, RouteIsShown DEF Measures, Is, Busy, request
<1>8. ASSUME NEW w \in Workers, Lists(w) PROVE RouteInv'
  <2>1. PICK listed \in BOOLEAN :
          worker' = [worker EXCEPT ![w].at = "ask",
              ![w].before  = IF listed THEN Strange(Host(w)) ELSE {},
              ![w].clouded = @ \/ (~listed /\ Strange(Host(w)) # {})]
    BY <1>8 DEF Lists
  <2>. PICK seen : seen = IF listed THEN Strange(Host(w)) ELSE {}
    OBVIOUS
  <2> DEFINE clouded == worker[w].clouded \/ (~listed /\ Strange(Host(w)) # {})
  <2>2. clouded \/ \A c \in DOMAIN lan : lan[c].host = Host(w) => c \in seen
    BY DEF Strange
  <2>3. worker[w].clouded => clouded
    OBVIOUS
  <2>4. clouded \in BOOLEAN /\ seen \in SUBSET Nat
    BY <1>0 DEF Strange, RequestInv, LanTyped
  <2> DEFINE slot == [worker[w] EXCEPT !.at = "ask", !.before = seen, !.clouded = clouded]
  <2>5. worker' = [worker EXCEPT ![w] = slot]
    BY <2>1
  <2> HIDE DEF clouded
  <2>6. slot \in Slot
    BY <1>0, <2>4 DEF WorkerTyped, Slot, Labels
  <2>7. /\ slot.at = "ask" /\ slot.before = seen /\ slot.clouded = clouded
        /\ slot.chain = worker[w].chain /\ slot.job = worker[w].job
    BY <1>0, <2>4 DEF WorkerTyped, Slot
  <2> HIDE DEF slot
  <2>8. worker'[w] = slot /\ \A v \in Workers \ {w} : worker'[v] = worker[v]
    BY <1>0, <2>5, <2>6, OneWorker
  <2>9. Host(w)' = Host(w)
    BY <1>8, <2>7, <2>8 DEF Host, Lists, request
  <2>10. worker[w].chain \in {"unknown", Routes[Host(w)]} \/ worker[w].clouded
    BY <1>8 DEF RouteInv, OwnRoute, Lists, Is
  <2>11. OwnRoute(worker'[w], Host(w)', lan)
    BY <2>2, <2>3, <2>7, <2>8, <2>9, <2>10 DEF OwnRoute
  <2> QED BY <1>0, <1>8, <2>8, <2>11, RouteGoesOn DEF Lists, request, RouteIsItsOwn
<1>9. ASSUME NEW w \in Workers, AsksAnswered(w) PROVE RouteInv'
  <2> DEFINE slot == [worker[w] EXCEPT !.at = "capture"]
  <2>1. worker' = [worker EXCEPT ![w] = slot]
    BY <1>9 DEF AsksAnswered
  <2>2. slot \in Slot
    BY <1>0 DEF WorkerTyped, Slot, Labels
  <2>3. /\ slot.at = "capture" /\ slot.before = worker[w].before /\ slot.clouded = worker[w].clouded
        /\ slot.chain = worker[w].chain /\ slot.job = worker[w].job
    BY <1>0 DEF WorkerTyped, Slot
  <2> HIDE DEF slot
  <2>4. worker'[w] = slot /\ \A v \in Workers \ {w} : worker'[v] = worker[v]
    BY <1>0, <2>1, <2>2, OneWorker
  <2>5. Host(w)' = Host(w)
    BY <1>9, <2>3, <2>4 DEF Host, AsksAnswered, request
  <2>6. OwnRoute(worker[w], Host(w), lan) /\ worker[w].at = "ask"
    BY <1>9 DEF RouteInv, AsksAnswered, Is
  <2>7. OwnRoute(worker'[w], Host(w)', lan)
    BY <2>3, <2>4, <2>5, <2>6 DEF OwnRoute
  <2> QED BY <1>0, <1>9, <2>4, <2>7, RouteGoesOn DEF AsksAnswered, request, RouteIsItsOwn
<1>10. ASSUME NEW w \in Workers, AsksFails(w) PROVE RouteInv'
  BY <1>0, <1>10, RouteEndOfRound DEF AsksFails, request
<1>11. ASSUME NEW w \in Workers, Captures(w) PROVE RouteInv'
  <2>1. PICK chain \in {"unknown", Routes[Host(w)]}
                       \cup {lan[c].chain : c \in Strange(Host(w)) \ worker[w].before} :
          RoundEnds(w, TRUE, chain)
    BY <1>11 DEF Captures
  <2>2. Is(w, "capture") /\ UNCHANGED <<asked, lan>>
    BY <1>11 DEF Captures, request
  <2>3. chain \in {"unknown", Routes[Host(w)]} \/ worker[w].clouded
    BY <2>1, <2>2 DEF RouteInv, OwnRoute, Is, Strange
  <2>4. chain \in Chains \cup {"unknown"}
    <3>1. Host(w) \in Targets
      BY <1>0, <2>2 DEF Host, Is, RequestInv, NoneIsLost, JobsNumbered, Busy
    <3> QED BY <1>0, <2>1, <3>1, ProbeAssumption DEF RequestInv, LanTyped, Strange
  <2> QED BY <1>0, <2>1, <2>2, <2>3, <2>4, RouteEndOfRound
<1>12. ASSUME NEW host, NEW chain, StrangerOpens(host, chain) PROVE RouteInv'
  <2>1. /\ \A c \in DOMAIN lan' : lan'[c].host = host \/ (c \in DOMAIN lan /\ lan'[c] = lan[c])
        /\ UNCHANGED <<asked, results>>
    BY <1>12 DEF StrangerOpens, request
  <2>2. ASSUME NEW w \in Workers PROVE OwnRoute(worker'[w], Host(w)', lan')
    <3> DEFINE met == worker[w].at \in {"ask", "capture"} /\ Host(w) = host
    <3> DEFINE clouded == worker[w].clouded \/ met
    <3>1. worker'[w] = [worker[w] EXCEPT !.clouded = clouded]
      BY <1>12 DEF StrangerOpens
    <3>2. clouded \in BOOLEAN /\ (met => clouded) /\ (worker[w].clouded => clouded)
      BY <1>0 DEF WorkerTyped, Slot
    <3> HIDE DEF clouded
    <3>3. /\ worker'[w].at = worker[w].at /\ worker'[w].before = worker[w].before
          /\ worker'[w].clouded = clouded /\ worker'[w].chain = worker[w].chain
          /\ worker'[w].job = worker[w].job
      BY <1>0, <3>1, <3>2 DEF WorkerTyped, Slot
    <3>4. Host(w)' = Host(w)
      BY <2>1, <3>3 DEF Host
    <3>5. OwnRoute(worker[w], Host(w), lan)
      BY DEF RouteInv
    <3> QED BY <2>1, <3>2, <3>3, <3>4, <3>5 DEF OwnRoute
  <2> QED BY <1>0, <2>1, <2>2 DEF RouteInv, RouteIsItsOwn
<1> QED
  BY <1>1, <1>2, <1>4, <1>5, <1>6, <1>7, <1>8, <1>9, <1>10, <1>11, <1>12
  DEF ProbeNext, Handles, Works

\* The route shown for a target is that of the gateway's own connections, whichever
\* goroutine finds it in whichever round, unless a device of the LAN opened a connection
\* to the same host in that time (connectivity.go, captureProbeConnection).
THEOREM RouteIsItsOwnProved == ProbeSpec => []RouteIsItsOwn
<1>1. RouteInv => RouteIsItsOwn
  BY DEF RouteInv
<1> QED BY RouteInit, RouteStep, <1>1, PTL DEF ProbeSpec
-----------------------------------------------------------------------------
(* The values of the variables of the tests *)

\* A goroutine goes by a job of the request and rounds it may do, and has had fewer
\* delays than it has begun rounds.
Ranged(slot) ==
    /\ slot.job \in {0} \cup Jobs /\ slot.round \in 0..Rounds /\ slot.delays \in 0..Rounds
    /\ slot.before \subseteq 1..lanOpened
    /\ slot.at \in {"list", "ask", "capture"} => slot.delays < slot.round

RequestRanges ==
    /\ kind \in {"-", "connectivity", "health"} /\ handler \in {"idle", "send", "wait", "answered"}
    /\ gone \in BOOLEAN
    /\ Jobs \subseteq 1..Cardinality(Targets) /\ sent \in 0..Cardinality(Targets)
    /\ results \in [Jobs -> Resulting] /\ DOMAIN lan \subseteq 1..lanOpened

WorkersRanged == \A w \in Workers : Ranged(worker[w])

LEMMA NobodyWorks == Ranged(Off) /\ Ranged(Ready) /\ Blank \in Resulting
BY ProbeAssumption DEF Ranged, Off, Ready, Blank, Resulting

LEMMA RangesInit == ProbeInit => RequestRanges /\ WorkersRanged
<1> SUFFICES ASSUME ProbeInit PROVE RequestRanges /\ WorkersRanged
    OBVIOUS
<1>1. Jobs = {} /\ results \in [Jobs -> Resulting] /\ DOMAIN lan = {}
    BY DEF ProbeInit, Jobs
<1>2. Cardinality(Targets) \in Nat
    BY ProbeAssumption, FS_CardinalityType
<1>3. 0 \in 0..Cardinality(Targets)
    BY <1>2
<1>4. WorkersRanged
    BY NobodyWorks DEF ProbeInit, WorkersRanged
<1>5. kind = "-" /\ handler = "idle" /\ sent = 0 /\ gone = FALSE
    BY DEF ProbeInit
<1> QED BY <1>1, <1>3, <1>4, <1>5 DEF RequestRanges

\* One goroutine moves, the others stay what they are.
LEMMA OneRanged ==
    ASSUME WorkersRanged, WorkerTyped, NEW w \in Workers, NEW slot, Ranged(slot),
           worker' = [worker EXCEPT ![w] = slot], UNCHANGED <<asked, lanOpened>>
    PROVE  WorkersRanged'
<1>1. \A v \in Workers : worker'[v] = IF v = w THEN slot ELSE worker[v]
    BY DEF WorkerTyped
<1>2. Jobs' = Jobs /\ lanOpened' = lanOpened
    BY DEF Jobs
<1>3. \A v \in Workers : Ranged(worker'[v])
    BY <1>1 DEF WorkersRanged
<1> QED BY <1>2, <1>3 DEF WorkersRanged, Ranged

\* The place of a job gets its result.
LEMMA ResultRanged ==
    ASSUME RequestRanges, NEW i, NEW r \in Resulting, results' = [results EXCEPT ![i] = r],
           UNCHANGED <<request, handler, sent, gone, lan, lanOpened>>
    PROVE  RequestRanges'
<1>1. Jobs' = Jobs
    BY DEF Jobs, request
<1>2. results' \in [Jobs -> Resulting]
    BY DEF RequestRanges
<1> QED BY <1>1, <1>2 DEF RequestRanges, request

\* The end of a round, of a probe that was answered or not.
LEMMA RoundRanged ==
    ASSUME RequestInv, RequestRanges, WorkersRanged, NEW w \in Workers,
           worker[w].at \in {"ask", "capture"}, NEW ok \in BOOLEAN,
           NEW chain \in Chains \cup {"unknown"}, RoundEnds(w, ok, chain),
           UNCHANGED <<request, handler, sent, gone, lan, lanOpened>>
    PROVE  RequestRanges' /\ WorkersRanged'
<1> DEFINE delays == worker[w].delays + (IF ok THEN 1 ELSE 0)
           route == IF worker[w].chain = "unknown" THEN chain ELSE worker[w].chain
<1>1. /\ WorkerTyped /\ worker[w] \in Slot /\ Ranged(worker[w]) /\ Rounds \in Nat
      /\ worker[w].delays < worker[w].round /\ Host(w) \in Targets
  <2>1. worker[w].job \in Jobs
      BY DEF RequestInv, NoneIsLost, Busy
  <2>2. Host(w) \in Targets
      BY <2>1 DEF RequestInv, JobsNumbered, Host
  <2> QED BY <2>2, ProbeAssumption DEF RequestInv, WorkerTyped, WorkersRanged, Ranged
<1>2. /\ delays \in 0..Rounds /\ delays <= worker[w].round /\ route \in Chains \cup {"unknown"}
      /\ worker[w].clouded \in BOOLEAN
    BY <1>1 DEF Slot, Ranged
<1>3. UNCHANGED <<asked, lanOpened>>
    BY DEF request
<1>4. CASE worker[w].round = Rounds \/ gone
  <2> DEFINE r == [target |-> Host(w), status |-> Status(delays), chain |-> route,
                   clouded |-> worker[w].clouded]
  <2>1. results' = [results EXCEPT ![worker[w].job] = r] /\ worker' = [worker EXCEPT ![w] = Ready]
      BY <1>4 DEF RoundEnds
  <2>2. Status(delays) \in {"failed", "reachable", "degraded"}
      BY DEF Status
  <2>3. r \in Resulting
      BY <1>1, <1>2, <2>2 DEF Resulting
  <2> HIDE DEF r
  <2> QED BY <1>1, <1>3, <2>1, <2>3, NobodyWorks, OneRanged, ResultRanged
<1>5. CASE ~(worker[w].round = Rounds \/ gone)
  <2> DEFINE n == worker[w].round + 1
             next == [worker[w] EXCEPT !.at = "list", !.round = n, !.before = {},
                                       !.delays = delays, !.chain = route]
  <2>1. worker' = [worker EXCEPT ![w] = next] /\ UNCHANGED results
      BY <1>5 DEF RoundEnds
  <2>2. n \in 0..Rounds /\ delays < n
      BY <1>1, <1>2, <1>5 DEF Ranged, Slot
  <2> HIDE DEF n, delays, route
  <2>3. next.at = "list" /\ next.job = worker[w].job /\ next.round = n /\ next.before = {} /\ next.delays = delays
      BY <1>1 DEF Slot
  <2> HIDE DEF next
  <2>4. Ranged(next)
      BY <1>1, <1>2, <2>2, <2>3 DEF Ranged
  <2>5. RequestRanges'
      BY <2>1 DEF RequestRanges, request, Jobs
  <2> QED BY <1>1, <1>3, <2>1, <2>4, <2>5, OneRanged
<1> QED BY <1>4, <1>5

LEMMA RangesStep ==
    RequestInv /\ RequestRanges /\ WorkersRanged /\ [ProbeNext]_probeVars
      => RequestRanges' /\ WorkersRanged'
<1> SUFFICES ASSUME RequestInv, RequestRanges, WorkersRanged, [ProbeNext]_probeVars
             PROVE  RequestRanges' /\ WorkersRanged'
    OBVIOUS
<1> DEFINE Ranges == RequestRanges /\ WorkersRanged
<1>0. /\ WorkerTyped /\ \A w \in Workers : worker[w] \in Slot /\ Ranged(worker[w])
      /\ Cardinality(Targets) \in Nat /\ Rounds \in Nat /\ Rounds # 0 /\ lanOpened \in Nat
    BY ProbeAssumption, FS_CardinalityType DEF RequestInv, WorkerTyped, LanTyped, WorkersRanged
<1>a. ASSUME UNCHANGED <<asked, worker, lanOpened>> PROVE WorkersRanged'
    BY <1>a DEF WorkersRanged, Ranged, Jobs
<1>b. ASSUME UNCHANGED <<request, sent, results, gone, lan, lanOpened>>,
             handler' \in {"idle", "send", "wait", "answered"}
      PROVE  RequestRanges'
    BY <1>b DEF RequestRanges, request, Jobs
<1>c. handler \in {"idle", "send", "wait", "answered"}
    BY DEF RequestRanges
<1>1. ASSUME NEW k \in {"connectivity", "health"}, NEW n \in 1..Cardinality(Targets), Arrives(k, n)
      PROVE  Ranges'
  <2>1. Jobs' = 1..n /\ 1..n \subseteq 1..Cardinality(Targets)
      BY <1>1, <1>0 DEF Arrives, Selections, Jobs
  <2>2. results' \in [Jobs' -> Resulting]
      BY <1>1, <2>1, NobodyWorks DEF Arrives
  <2>3. RequestRanges'
      BY <1>1, <2>1, <2>2 DEF Arrives, RequestRanges
  <2>4. \A w \in Workers : worker'[w] \in {Ready, Off}
      BY <1>1 DEF Arrives
  <2>5. WorkersRanged'
    <3>1. Ranged(Off)' /\ Ranged(Ready)'
        BY <1>0 DEF Ranged, Off, Ready
    <3> QED BY <2>4, <3>1 DEF WorkersRanged, Ranged
  <2> QED BY <2>3, <2>5
<1>2. ASSUME NEW w \in Workers, TakesJob(w) PROVE Ranges'
  <2> DEFINE at == IF kind = "health" THEN "measure" ELSE "list"
             n == sent + 1
             next == [Off EXCEPT !.at = at, !.job = n, !.round = 1]
  <2>1. worker' = [worker EXCEPT ![w] = next] /\ UNCHANGED <<asked, lanOpened>> /\ n \in Jobs
      BY <1>2 DEF TakesJob, request
  <2>2. next.job = n /\ next.round = 1 /\ next.delays = 0 /\ next.before = {}
      BY DEF Off
  <2>3. Ranged(next)
    <3> HIDE DEF next, n
    <3> QED BY <1>0, <2>1, <2>2 DEF Ranged
  <2> HIDE DEF next
  <2>4. WorkersRanged'
      BY <1>0, <2>1, <2>3, OneRanged
  <2>5. RequestRanges'
      BY <1>2, <2>1 DEF TakesJob, RequestRanges, request, Jobs
  <2> QED BY <2>4, <2>5
<1>3. CASE ClosesJobs \/ Answers
    BY <1>3, <1>a, <1>b DEF ClosesJobs, Answers, request
<1>4. ASSUME NEW w \in Workers, Returns(w) PROVE Ranges'
  <2>1. WorkersRanged'
      BY <1>4, <1>0, NobodyWorks, OneRanged DEF Returns, request
  <2> QED BY <1>4, <1>b, <1>c, <2>1 DEF Returns
<1>5. ASSUME NEW w \in Workers, Measures(w) PROVE Ranges'
  <2>1. PICK status \in {"reachable", "failed"} :
          results' = [results EXCEPT ![worker[w].job] = [Blank EXCEPT !.target = Host(w), !.status = status]]
      BY <1>5 DEF Measures
  <2>2. worker[w].job \in Jobs
      BY <1>5 DEF Measures, Is, RequestInv, NoneIsLost, Busy
  <2>3. Host(w) \in Targets
      BY <2>2 DEF RequestInv, JobsNumbered, Host
  <2>4. [Blank EXCEPT !.target = Host(w), !.status = status] \in Resulting
      BY <2>3 DEF Blank, Resulting
  <2>5. UNCHANGED <<request, handler, sent, gone, lan, lanOpened>> /\ worker' = [worker EXCEPT ![w] = Ready]
      BY <1>5 DEF Measures
  <2>6. RequestRanges'
      BY <2>1, <2>4, <2>5, ResultRanged
  <2>7. WorkersRanged'
      BY <1>0, <2>5, NobodyWorks, OneRanged DEF request
  <2> QED BY <2>6, <2>7
<1>6. ASSUME NEW w \in Workers, Lists(w) PROVE Ranges'
  <2>1. PICK seen \in {Strange(Host(w)), {}}, more \in BOOLEAN :
          worker' = [worker EXCEPT ![w].at = "ask", ![w].before = seen, ![w].clouded = @ \/ more]
      BY <1>6 DEF Lists
  <2> DEFINE clouded == worker[w].clouded \/ more
             next == [worker[w] EXCEPT !.at = "ask", !.before = seen, !.clouded = clouded]
  <2>2. worker' = [worker EXCEPT ![w] = next]
      BY <2>1
  <2>3. seen \subseteq 1..lanOpened
      BY <2>1 DEF Strange, RequestRanges
  <2> HIDE DEF clouded
  <2>4. /\ next.at = "ask" /\ next.job = worker[w].job /\ next.round = worker[w].round
        /\ next.delays = worker[w].delays /\ next.before = seen
      BY <1>0 DEF Slot
  <2> HIDE DEF next
  <2>5. worker[w].at = "list"
      BY <1>6 DEF Lists, Is
  <2>6. Ranged(next)
      BY <1>0, <2>3, <2>4, <2>5 DEF Ranged
  <2>7. WorkersRanged'
      BY <1>0, <1>6, <2>2, <2>6, OneRanged DEF Lists, request
  <2> QED BY <1>6, <1>b, <1>c, <2>7 DEF Lists
<1>7. ASSUME NEW w \in Workers, AsksAnswered(w) PROVE Ranges'
  <2> DEFINE next == [worker[w] EXCEPT !.at = "capture"]
  <2>1. worker' = [worker EXCEPT ![w] = next] /\ worker[w].at = "ask"
      BY <1>7 DEF AsksAnswered, Is
  <2>2. /\ next.at = "capture" /\ next.job = worker[w].job /\ next.round = worker[w].round
        /\ next.delays = worker[w].delays /\ next.before = worker[w].before
      BY <1>0 DEF Slot
  <2> HIDE DEF next
  <2>3. Ranged(next)
      BY <1>0, <2>1, <2>2 DEF Ranged
  <2>4. WorkersRanged'
      BY <1>0, <1>7, <2>1, <2>3, OneRanged DEF AsksAnswered, request
  <2> QED BY <1>7, <1>b, <1>c, <2>4 DEF AsksAnswered
<1>8. ASSUME NEW w \in Workers, AsksFails(w) PROVE Ranges'
    BY <1>8, RoundRanged DEF AsksFails, Is
<1>9. ASSUME NEW w \in Workers, Captures(w) PROVE Ranges'
  <2>1. PICK chain \in {"unknown", Routes[Host(w)]}
                       \cup {lan[c].chain : c \in Strange(Host(w)) \ worker[w].before} :
          RoundEnds(w, TRUE, chain)
      BY <1>9 DEF Captures
  <2>2. worker[w].at = "capture" /\ UNCHANGED <<request, handler, sent, gone, lan, lanOpened>>
      BY <1>9 DEF Captures, Is
  <2>3. chain \in Chains \cup {"unknown"}
    <3>1. Host(w) \in Targets
        BY <2>2 DEF Host, RequestInv, NoneIsLost, JobsNumbered, Busy
    <3> QED BY <2>1, <3>1, ProbeAssumption DEF RequestInv, LanTyped, Strange
  <2> QED BY <2>1, <2>2, <2>3, RoundRanged
<1>10. ASSUME NEW host \in Targets, NEW chain \in Chains, StrangerOpens(host, chain) PROVE Ranges'
  <2>1. /\ lanOpened' = lanOpened + 1 /\ DOMAIN lan' = DOMAIN lan \cup {lanOpened'}
        /\ UNCHANGED <<request, handler, sent, results, gone>>
      BY <1>10 DEF StrangerOpens
  <2>2. 1..lanOpened \subseteq 1..lanOpened' /\ lanOpened' \in 1..lanOpened'
      BY <1>0, <2>1
  <2>3. RequestRanges'
      BY <2>1, <2>2 DEF RequestRanges, request, Jobs
  <2>4. \A w \in Workers : /\ worker'[w].at = worker[w].at /\ worker'[w].job = worker[w].job
                           /\ worker'[w].round = worker[w].round /\ worker'[w].delays = worker[w].delays
                           /\ worker'[w].before = worker[w].before
      BY <1>10, <1>0 DEF StrangerOpens, Slot
  <2>5. Jobs' = Jobs
      BY <2>1 DEF request, Jobs
  <2>6. WorkersRanged'
      BY <1>0, <2>2, <2>4, <2>5 DEF WorkersRanged, Ranged
  <2> QED BY <2>3, <2>6
<1>11. CASE ClientGoes
  <2>1. RequestRanges'
      BY <1>11 DEF ClientGoes, RequestRanges, request, Jobs
  <2> QED BY <1>11, <1>a, <2>1 DEF ClientGoes, request
<1>12. ASSUME NEW c \in DOMAIN lan, ConnectionEnds(c) PROVE Ranges'
  <2>1. RequestRanges'
      BY <1>12 DEF ConnectionEnds, RequestRanges, request, Jobs
  <2> QED BY <1>12, <1>a, <2>1 DEF ConnectionEnds, request
<1>13. CASE UNCHANGED probeVars
    BY <1>13, <1>a, <1>b, <1>c DEF probeVars, request
<1> QED
    BY <1>1, <1>2, <1>3, <1>4, <1>5, <1>6, <1>7, <1>8, <1>9, <1>10, <1>11, <1>12, <1>13
    DEF ProbeNext, Handles, Works

LEMMA ProbeTypes == RequestInv /\ RequestRanges /\ WorkersRanged => ProbeTypeOK
<1> SUFFICES ASSUME RequestInv, RequestRanges, WorkersRanged PROVE ProbeTypeOK
    OBVIOUS
<1>1. \A w \in Workers :
        /\ worker[w].at \in {"off", "ready", "measure", "list", "ask", "capture"}
        /\ worker[w].job \in {0} \cup Jobs /\ worker[w].round \in 0..Rounds
        /\ worker[w].delays \in 0..Rounds /\ worker[w].before \subseteq 1..lanOpened
    BY DEF RequestInv, WorkerTyped, Slot, Labels, WorkersRanged, Ranged
<1> QED BY <1>1 DEF RequestInv, JobsNumbered, RequestRanges, ProbeTypeOK

\* The variables of a test keep values of their kind: goroutines write results of targets
\* that were asked for, and none has more delays than rounds (runConnectivityTest).
THEOREM ProbeTypeCorrect == ProbeSpec => []ProbeTypeOK
<1> QED
    BY RequestInit, RequestStep, RangesInit, RangesStep, ProbeTypes, PTL DEF ProbeSpec

-----------------------------------------------------------------------------
(***************************************************************************)
(* StateEvents: an event shows what the files have said.                    *)
(***************************************************************************)

\* What has been written stays so.
LEMMA EventsGrow ==
    ASSUME NEW n \in Nat
    PROVE  /\ 0..(n + 1) \subseteq 0..(n + 2) /\ 1..(n + 1) \subseteq 1..(n + 2)
           /\ \A v \in 1..(n + 1) : v \in 0..(n + 1) /\ v + 1 \in 1..(n + 2)
OBVIOUS

LEMMA EventsBegin == EventsInit => EventsTypeOK
<1> SUFFICES ASSUME EventsInit PROVE EventsTypeOK
    OBVIOUS
<1>1. changes = 0 /\ streams = 0 /\ 0 \in 0..1 /\ 1 \in 1..1 /\ 0..(0 + 1) = 0..1 /\ 1..(0 + 1) = 1..1
    BY DEF EventsInit
<1>2. Nothing \in Events
    BY <1>1 DEF Nothing, Events
<1> QED BY <1>1, <1>2, EventAssumption DEF EventsInit, EventsTypeOK, Closed

LEMMA EventsStep == EventsTypeOK /\ [EventsNext]_eventVars => EventsTypeOK'
<1> SUFFICES ASSUME EventsTypeOK, [EventsNext]_eventVars PROVE EventsTypeOK'
    OBVIOUS
<1> DEFINE Stages == {"closed", "load", "status", "policy", "applied", "recovery", "revision", "send", "tick"}
<1>0. /\ version \in [Files -> 1..(changes + 1)] /\ loadable \in BOOLEAN
      /\ stream \in [at : Stages, event : Events] /\ last \in Events
      /\ changes \in 0..MaxChanges /\ streams \in 0..MaxStreams /\ changes \in Nat
    BY EventAssumption DEF EventsTypeOK
<1>1. Nothing \in Events
    BY <1>0 DEF Nothing, Events
<1>2. \A f \in Files : version[f] \in 0..(changes + 1)
    BY <1>0, EventsGrow
<1>3. ASSUME NEW f \in Files, Changes(f) PROVE EventsTypeOK'
  <2>1. changes' = changes + 1 /\ changes' \in 0..MaxChanges
      BY <1>0, <1>3, EventAssumption DEF Changes
  <2>2. version' \in [Files -> 1..(changes' + 1)]
      BY <1>0, <1>3, <2>1 DEF Changes
  <2>3. Events \subseteq Events'
      BY <1>0, <2>1 DEF Events
  <2>4. stream' \in [at : Stages, event : Events'] /\ last' \in Events' /\ streams' \in 0..MaxStreams
      BY <1>0, <1>3, <2>3 DEF Changes
  <2>5. loadable' \in BOOLEAN
      BY <1>0, <1>3 DEF Changes
  <2> QED BY <2>1, <2>2, <2>4, <2>5 DEF EventsTypeOK
<1>4. ASSUME UNCHANGED <<version, loadable, changes>>, last' \in Events, streams' \in 0..MaxStreams,
             stream' \in [at : Stages, event : Events]
      PROVE  EventsTypeOK'
  <2>1. Events' = Events
      BY <1>4 DEF Events
  <2> QED BY <1>0, <1>4, <2>1 DEF EventsTypeOK
<1>5. Closed \in [at : Stages, event : Events] /\ [Closed EXCEPT !.at = "load"] \in [at : Stages, event : Events]
      /\ [Closed EXCEPT !.at = "tick"] \in [at : Stages, event : Events]
    BY <1>1 DEF Closed
<1>6. CASE Connects
    BY <1>0, <1>1, <1>4, <1>5, <1>6, EventAssumption DEF Connects
<1>7. CASE Disconnects \/ Ticks
    BY <1>0, <1>4, <1>5, <1>7 DEF Disconnects, Ticks
<1>8. CASE LoadsConfig
  <2>1. [Nothing EXCEPT !.profile = version["config"]] \in Events
      BY <1>1, <1>2 DEF Nothing, Events, Files
  <2>2. [at |-> "status", event |-> [Nothing EXCEPT !.profile = version["config"]]] \in [at : Stages, event : Events]
      BY <2>1
  <2> QED BY <1>0, <1>4, <1>5, <1>8, <2>2 DEF LoadsConfig
<1>9. ASSUME NEW i \in DOMAIN Order, Reads(i) PROVE EventsTypeOK'
  <2>1. i \in 1..5
      BY DEF Order
  <2>2. After(i) \in Stages /\ Order[i][2] \in Files
        /\ Order[i][1] \in {"status", "policy", "applied", "recovery", "revision"}
      BY <2>1 DEF After, Order, Files
  <2>3. version[Order[i][2]] \in 0..(changes + 1)
      BY <1>2, <2>2
  <2>4. [stream.event EXCEPT ![Order[i][1]] = version[Order[i][2]]] \in Events
      BY <1>0, <2>2, <2>3 DEF Events
  <2> QED BY <1>0, <1>4, <1>9, <2>2, <2>4 DEF Reads
<1>10. CASE Sends
  <2>1. last' \in Events
      BY <1>0, <1>10 DEF Sends
  <2> QED BY <1>0, <1>4, <1>5, <1>10, <2>1 DEF Sends
<1>11. CASE UNCHANGED eventVars
    BY <1>0, <1>4, <1>11 DEF eventVars
<1> QED BY <1>3, <1>6, <1>7, <1>8, <1>9, <1>10, <1>11 DEF EventsNext, Streams

\* The stream shows only versions that have been written (stateEvent), whatever the number
\* of changes and connections.
THEOREM EventsTypeCorrect == EventsSpec => []EventsTypeOK
<1> QED BY EventsBegin, EventsStep, PTL DEF EventsSpec

==============================================================================
