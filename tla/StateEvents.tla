------------------------------ MODULE StateEvents ------------------------------
(***************************************************************************)
(* The stream of state events of the control API (handleEvents and          *)
(* stateEvent, internal/controlapi/server.go).  Every two seconds the       *)
(* stream puts an event together from files that others write, one after    *)
(* the other and without a lock, and sends it when it is not the event it   *)
(* has sent last.  The event is all the control panel learns of changes it  *)
(* has not made.                                                            *)
(*                                                                          *)
(* What a file says is a version of it.                                     *)
(***************************************************************************)
EXTENDS Naturals

CONSTANTS
    MaxChanges,     \* bound: writes of the files
    MaxStreams      \* bound: connections of the control panel

ASSUME EventAssumption == MaxChanges \in Nat /\ MaxStreams \in Nat

VARIABLES
    version,        \* config.yaml, the state of the gateway, the policy, the checklist
    loadable,       \* config.LoadRuntime accepts the configuration
    stream,         \* [at, event]: what the stream does, and the event it puts together
    last,           \* the event sent last on this stream
    changes, streams

eventVars == <<version, loadable, stream, last, changes, streams>>

Files   == {"config", "gateway", "policy", "recovery"}
Nothing == [profile |-> 0, status |-> 0, policy |-> 0, applied |-> 0, recovery |-> 0, revision |-> 0]
Closed  == [at |-> "closed", event |-> Nothing]
Current == [profile |-> version["config"], status |-> version["gateway"],
            policy |-> version["policy"], applied |-> version["gateway"],
            recovery |-> version["recovery"], revision |-> version["config"]]

EventsInit ==
    /\ version = [f \in Files |-> 1] /\ loadable = TRUE /\ stream = Closed /\ last = Nothing
    /\ changes = 0 /\ streams = 0

\* A start, an edit, a step of the checklist: somebody writes one of the files.
Changes(f) ==
    /\ changes < MaxChanges /\ changes' = changes + 1
    /\ version' = [version EXCEPT ![f] = @ + 1]
    /\ loadable' \in IF f \in {"config", "policy"} THEN BOOLEAN ELSE {loadable}
    /\ UNCHANGED <<stream, last, streams>>

\* The first event does not wait for the ticker.
Connects ==
    /\ stream.at = "closed" /\ streams < MaxStreams /\ streams' = streams + 1
    /\ stream' = [Closed EXCEPT !.at = "load"] /\ last' = Nothing
    /\ UNCHANGED <<version, loadable, changes>>

Disconnects ==
    /\ stream.at # "closed" /\ stream' = Closed
    /\ UNCHANGED <<version, loadable, last, changes, streams>>

Ticks ==
    /\ stream.at = "tick" /\ stream' = [Closed EXCEPT !.at = "load"]
    /\ UNCHANGED <<version, loadable, last, changes, streams>>

\* Without a configuration there is no event, and no word of it; with one, the profile
\* that is desired is the one it names.
LoadsConfig ==
    /\ stream.at = "load"
    /\ stream' = IF loadable THEN [at |-> "status", event |-> [Nothing EXCEPT !.profile = version["config"]]]
                 ELSE [Closed EXCEPT !.at = "tick"]
    /\ UNCHANGED <<version, loadable, last, changes, streams>>

\* The part that is read next: the gateway's state twice, the revision at the end.
Order == << <<"status", "gateway">>, <<"policy", "policy">>, <<"applied", "gateway">>,
            <<"recovery", "recovery">>, <<"revision", "config">> >>
After(i) == IF i = 5 THEN "send" ELSE Order[i + 1][1]

Reads(i) ==
    /\ stream.at = Order[i][1]
    /\ stream' = [at |-> After(i),
                  event |-> [stream.event EXCEPT ![Order[i][1]] = version[Order[i][2]]]]
    /\ UNCHANGED <<version, loadable, last, changes, streams>>

\* Mutant: an event is new when the gateway, the policy or the configuration is.
SendsWithoutRecovery ==
    /\ stream.at = "send" /\ stream' = [Closed EXCEPT !.at = "tick"]
    /\ last' = IF [stream.event EXCEPT !.recovery = last.recovery] = last THEN last ELSE stream.event
    /\ UNCHANGED <<version, loadable, changes, streams>>

Sends ==
    /\ stream.at = "send" /\ stream' = [Closed EXCEPT !.at = "tick"]
    /\ last' = IF stream.event = last THEN last ELSE stream.event
    /\ UNCHANGED <<version, loadable, changes, streams>>

Streams == Ticks \/ LoadsConfig \/ (\E i \in DOMAIN Order : Reads(i)) \/ Sends

EventsNext ==
    \/ \E f \in Files : Changes(f)
    \/ Connects \/ Disconnects \/ Streams

\* The ticker ticks, and the handler goes on.
EventsFairness == WF_eventVars(Streams)
EventsSpec == EventsInit /\ [][EventsNext]_eventVars /\ EventsFairness

-----------------------------------------------------------------------------
(* Properties *)

\* An event, of versions that have been written.
Events == LET Written == 0..(changes + 1) IN
          [profile : Written, status : Written, policy : Written, applied : Written,
           recovery : Written, revision : Written]

\* Every variable has its type, and no event shows what no file has said yet.
EventsTypeOK ==
    /\ version \in [Files -> 1..(changes + 1)] /\ loadable \in BOOLEAN
    /\ stream \in [at : {"closed", "load", "status", "policy", "applied", "recovery", "revision",
                         "send", "tick"}, event : Events]
    /\ last \in Events /\ changes \in 0..MaxChanges /\ streams \in 0..MaxStreams

\* An event may be a mixture of the files before and after a change; once the changes
\* have come to an end, a stream that stays open shows what the files say (stateEvent,
\* and the comparison with the last event in handleEvents).
EventsCatchUp == <>[](stream.at = "closed" \/ ~loadable \/ last = Current)
=============================================================================
