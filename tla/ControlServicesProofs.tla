------------------------ MODULE ControlServicesProofs ------------------------
(***************************************************************************)
(* Proofs about the parts of the management service together               *)
(* (ControlServices): each part still does what it does alone, and what    *)
(* was proved of it alone holds of every behaviour of ServicesSpec, the    *)
(* specification that is model-checked.                                    *)
(***************************************************************************)
EXTENDS ControlServices, ServiceStoreProofs, ObservationProofs, PolicyRoutingProofs

-----------------------------------------------------------------------------
(* A part on its own *)

\* What a step of the service is for each part: a step of its own, or none.
OwnSteps ==
    /\ [AuthNext]_authVars /\ [SourceNext]_sourceVars /\ [SetupNext]_setupVars
    /\ [PolicyNext]_policyVars /\ [TrafficNext]_trafficVars /\ [ProbeNext]_probeVars
    /\ [EventsNext]_eventVars

LEMMA EveryStepIsOwn == [ServicesNext]_parts => OwnSteps
BY DEF ServicesNext, parts, OwnSteps

LEMMA PartsBegin ==
    ServicesInit => /\ AuthInit /\ SourceInit /\ SetupInit
                    /\ PolicyInit /\ TrafficInit /\ ProbeInit /\ EventsInit
BY DEF ServicesInit

\* The service behaves, of each part, as the specification of the part says: of the four
\* that need no fairness whole, of the others up to their fairness (the constructors of
\* controlapi.New give every part a store or a cache of its own).
THEOREM PartsKeepTheirSpecifications ==
    ServicesSpec => /\ SourceSpec /\ SetupSpec /\ PolicySpec /\ TrafficSpec
                    /\ AuthInit /\ [][AuthNext]_authVars
                    /\ ProbeInit /\ [][ProbeNext]_probeVars
                    /\ EventsInit /\ [][EventsNext]_eventVars
<1>1. ServicesSpec => ServicesInit /\ [][ServicesNext]_parts
    BY DEF ServicesSpec
<1>2. [ServicesNext]_parts => [AuthNext]_authVars
    BY EveryStepIsOwn DEF OwnSteps
<1>3. [ServicesNext]_parts => [SourceNext]_sourceVars
    BY EveryStepIsOwn DEF OwnSteps
<1>4. [ServicesNext]_parts => [SetupNext]_setupVars
    BY EveryStepIsOwn DEF OwnSteps
<1>5. [ServicesNext]_parts => [PolicyNext]_policyVars
    BY EveryStepIsOwn DEF OwnSteps
<1>6. [ServicesNext]_parts => [TrafficNext]_trafficVars
    BY EveryStepIsOwn DEF OwnSteps
<1>7. [ServicesNext]_parts => [ProbeNext]_probeVars
    BY EveryStepIsOwn DEF OwnSteps
<1>8. [ServicesNext]_parts => [EventsNext]_eventVars
    BY EveryStepIsOwn DEF OwnSteps
<1> QED
    BY <1>1, <1>2, <1>3, <1>4, <1>5, <1>6, <1>7, <1>8, PartsBegin, PTL
    DEF SourceSpec, SetupSpec, PolicySpec, TrafficSpec

-----------------------------------------------------------------------------
(* What is true of the service *)

\* Every variable of every part keeps a value of its kind, whatever the numbers of
\* visitors, sources, commands, documents, connections, targets, goroutines and streams.
THEOREM ServicesTypeCorrect == ServicesSpec => []ServicesTypeOK
<1>1. AuthInit /\ [][AuthNext]_authVars => []AuthTypeOK
    BY AccountInit, AccountStep, AuthTypedInit, AuthTypedStep, AuthTypes, PTL
<1>2. ProbeInit /\ [][ProbeNext]_probeVars => []ProbeTypeOK
    BY RequestInit, RequestStep, RangesInit, RangesStep, ProbeTypes, PTL
<1>3. EventsInit /\ [][EventsNext]_eventVars => []EventsTypeOK
    BY EventsBegin, EventsStep, PTL
<1>4. /\ AuthTypeOK /\ SourceTypeOK /\ SetupTypeOK /\ PolicyTypeOK /\ TrafficTypeOK /\ ProbeTypeOK
      /\ EventsTypeOK
      => ServicesTypeOK
    BY DEF ServicesTypeOK
<1> QED
    BY <1>1, <1>2, <1>3, <1>4, PartsKeepTheirSpecifications, SourceTypeCorrect, SetupTypeCorrect,
       PolicyTypeCorrect, TrafficTypeCorrect, PTL

\* The administrator of the service: one account per setup, no session that is over, and
\* no more failed logins than the limit, next to everything else the service does.
THEOREM AdministratorIsSafe == ServicesSpec => []SetupOnce /\ []FailuresBounded /\ DeadStaysDead
<1>1. AccountInv => SetupOnce
    BY OneFounderCounts DEF AccountInv, SetupOnce
<1>2. FailuresInv => FailuresBounded
    BY DEF FailuresInv
<1>3. SessionsDrawn /\ [AuthNext]_authVars => SessionsDrawn'
    BY EveryStepMovesSessions, SessionsStep
<1>4. SessionsDrawn /\ [AuthNext]_authVars => [\A t \in drawn \ Live : t \notin Live']_authVars
    BY EveryStepMovesSessions, SessionsStep
<1>5. AuthInit /\ [][AuthNext]_authVars => []SetupOnce
    BY AccountInit, AccountStep, <1>1, PTL
<1>6. AuthInit /\ [][AuthNext]_authVars => []FailuresBounded
    BY FailuresInit, FailuresStep, <1>2, PTL
<1>7. AuthInit /\ [][AuthNext]_authVars => DeadStaysDead
    BY SessionsInit, <1>3, <1>4, PTL DEF DeadStaysDead
<1> QED BY <1>5, <1>6, <1>7, PartsKeepTheirSpecifications, PTL

\* What the service keeps in files: the catalogue of sources names snapshots that exist
\* and loses no address, a failed import leaves it alone, and a service that is set up
\* finds a pair and an account it can read.
THEOREM FilesAreKept ==
    ServicesSpec => /\ []AddressNeverLost /\ []CatalogueIsWhole /\ FailureChangesNothing
                    /\ []ServiceCanServe
BY PartsKeepTheirSpecifications, AddressNeverLostProved, CatalogueIsWholeProved,
   FailureChangesNothingProved, ServiceCanServeProved, PTL

\* What the service reports of mihomo: every byte once, totals that are the sums of their
\* classes, an answer with a result for every target, and routes the gateway itself took.
THEOREM ReportsAreRight ==
    ServicesSpec => []BytesCountedOnce /\ []ResponseAddsUp /\ []AnswerIsComplete /\ []RouteIsItsOwn
<1>1. RequestInv => AnswerIsComplete
    BY DEF RequestInv, NoneIsLost, HandlerWaits, AnswerIsComplete, Done
<1>2. RouteInv => RouteIsItsOwn
    BY DEF RouteInv
<1>3. ProbeInit /\ [][ProbeNext]_probeVars => []AnswerIsComplete
    BY RequestInit, RequestStep, <1>1, PTL
<1>4. ProbeInit /\ [][ProbeNext]_probeVars => []RouteIsItsOwn
    BY RouteInit, RouteStep, <1>2, PTL
<1> QED
    BY <1>3, <1>4, PartsKeepTheirSpecifications, BytesCountedOnceProved, ResponseAddsUpProved, PTL

\* The policy of the devices: packets go where the applied document says, mihomo refuses
\* what OpenSurge lets pass for two kinds of names only, a document that leaves a device
\* alone routes it alike, and a selection moves only the device it is made for.
THEOREM PolicyIsObeyed ==
    ServicesSpec => /\ []RoutesAsDeclared /\ []NamesResolve /\ []UnchangedRoutesAlike
                    /\ SelectionMovesOneDevice
<1>1. PolicySpec => []RoutesAsDeclared
    BY RoutesCorrect
<1>2. PolicySpec => []NamesResolve
    BY NamesCorrect
<1>3. PolicySpec => []UnchangedRoutesAlike
    BY UnchangedCorrect
<1>4. PolicySpec => SelectionMovesOneDevice
    BY SelectionCorrect
<1> QED BY <1>1, <1>2, <1>3, <1>4, PartsKeepTheirSpecifications, PTL

==============================================================================
