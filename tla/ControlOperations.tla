-------------------------- MODULE ControlOperations --------------------------
(***************************************************************************)
(* The control API next to the gateway service: gateway operations on       *)
(* behalf of the web UI, the recovery checklist of a DHCP takeover          *)
(* (same_wifi_dhcp) and the import of a profile into a running gateway      *)
(* (internal/controlapi/server.go, store.go).                               *)
(*                                                                          *)
(* Every request has a goroutine of its own.  Store locks a file for one    *)
(* read or one write only, so a step of the model is one of these.  The     *)
(* gateway service works on a request until it is done, whether or not the  *)
(* control API still waits for the answer, and survives it.                 *)
(***************************************************************************)
EXTENDS Naturals, FiniteSets

CONSTANTS
    Workers,       \* goroutines of the control API
    Ids,           \* idempotency keys, operation identifiers
    Overlaps,      \* the kinds of requests that may be under way at a time
    MaxFaults      \* bound: failing writes and connections, deaths of either service

Actions == {"start", "stop", "reload", "restart"}
Forms   == {"post", "restored", "validated", "skip"}
Kinds   == Actions \cup Forms \cup {"apply", "config"}

ASSUME OverlapsAssumption == Overlaps \subseteq SUBSET Kinds
ASSUME IdsAssumption == Ids \subseteq Nat \ {0}
ASSUME BoundAssumption == MaxFaults \in Nat

VARIABLES
    gw,         \* the state file of the gateway: none, there, asking for a cleanup
    takeover,   \* gateway.mode of config.yaml is same_wifi_dhcp
    recovery,   \* recovery.json
    ops,        \* operations/<id>.json
    req,        \* the request each worker serves
    job,        \* what the gateway service still does for it
    faults,
    runs,       \* how often an operation was sent to the gateway service
    routerOff,  \* the operator has reported router DHCP off, and not on again
    withdrawn,  \* ... on again while requests were under way that may have read it as off
    orphans,    \* operations whose end could not be written
    doubt       \* the checklist may not tell of the gateway, and nobody can expect it to

history == <<runs, routerOff, withdrawn, orphans, doubt>>
store   == <<recovery, ops>>
vars    == <<gw, takeover, store, req, job, faults, history>>

Active == {"gateway_active", "client_validated", "client_validation_skipped"}
Stages == Active \cup {"idle", "confirmed", "gateway_stopped", "router_restored", "complete"}

Recovery(stage) == [stage |-> stage, required |-> stage \notin {"idle", "complete"}]

NoId == 0
Idle == [kind |-> "none", at |-> "idle", id |-> NoId, wish |-> "none", takeover |-> FALSE,
         seen |-> Recovery("idle"), active |-> FALSE, reply |-> "none"]

Replies == {"none", "done", "saved", "failed", "stop_failed", "start_failed", "lost"}
Labels  == {"idle", "lookup", "read", "admit", "accept", "call", "wait", "settle", "update",
            "finish", "note", "write"}

At(w, label)   == req[w].at = label
Goto(w, label) == req' = [req EXCEPT ![w].at = label]
Return(w)      == req' = [req EXCEPT ![w] = Idle]
Fault          == faults < MaxFaults /\ faults' = faults + 1

\* A write of one file of the store: it may fail, which leaves the old file.
Write(new, old) == (new /\ UNCHANGED faults) \/ (old /\ Fault)

Init ==
    /\ gw = "stopped" /\ takeover \in BOOLEAN
    /\ recovery = Recovery("idle") /\ ops = [i \in Ids |-> "none"]
    /\ req = [w \in Workers |-> Idle] /\ job = [w \in Workers |-> "none"]
    /\ faults = 0
    /\ runs = [i \in Ids |-> 0] /\ routerOff = FALSE /\ withdrawn = FALSE /\ orphans = {} /\ doubt = FALSE

-----------------------------------------------------------------------------
(* A request arrives *)

\* What is under way for other workers, with the client gone or not.
UnderWay(w) == {req[v].kind : v \in {u \in Workers \ {w} : ~At(u, "idle")}}
               \cup {job[v] : v \in {u \in Workers : job[u] # "none"}}

\* The keys a client may use: a new one, or one it has used and may repeat.
Fresh   == {i \in Ids : ops[i] = "none" /\ \A w \in Workers : req[w].id # i}
NewId   == {i \in Fresh : \A j \in Fresh : i <= j}
KeysInFlight == {i \in Ids \ Fresh : ops[i] = "none"}

\* A repetition of a request that has been accepted may come at any time; other
\* requests overlap as the run allows.  A client uses a key for one kind of request;
\* which one it repeats is of no consequence once the operation is on file.
Repeated(id) == id # NoId /\ ops[id] # "none"

Arrives(w, kind, id) ==
    /\ At(w, "idle") /\ job[w] = "none"
    /\ Repeated(id) \/ \A k \in UnderWay(w) : {k, kind} \in Overlaps
    /\ Repeated(id) \/ \A v \in Workers : req[v].id = id /\ id # NoId => req[v].kind = kind
    /\ req' = [req EXCEPT ![w] = [Idle EXCEPT !.kind = kind, !.id = id,
                                              !.at = IF kind \in Actions THEN "lookup" ELSE "read"]]
    /\ doubt' = (doubt \/ (UnderWay(w) # {} /\ ~Repeated(id)))
    /\ UNCHANGED <<gw, takeover, store, job, faults, runs, routerOff, withdrawn, orphans>>

Requests(w) ==
    \/ \E kind \in Actions, id \in NewId \cup KeysInFlight : Arrives(w, kind, id)
    \/ \E id \in {i \in Ids : Repeated(i)} : Arrives(w, "stop", id)
    \/ \E kind \in Forms \cup {"apply", "config"} : Arrives(w, kind, NoId)

-----------------------------------------------------------------------------
(* Gateway operations: handleGatewayAction, handleSourceApply, runOperation *)

\* Mutant: the key is not looked up.
LookupSkipped(w) ==
    /\ At(w, "lookup") /\ Goto(w, "read")
    /\ UNCHANGED <<gw, takeover, store, job, faults, history>>

\* An operation with this key is on file: it is the answer.
Lookup(w) ==
    /\ At(w, "lookup")
    /\ IF ops[req[w].id] # "none" THEN Return(w) ELSE Goto(w, "read")
    /\ UNCHANGED <<gw, takeover, store, job, faults, history>>

\* The configuration and the checklist are read once and kept.
ReadRecovery(w) ==
    /\ At(w, "read") /\ req[w].kind \in Actions \cup {"apply"}
    /\ req' = [req EXCEPT ![w].takeover = takeover, ![w].seen = recovery, ![w].at = "admit"]
    /\ UNCHANGED <<gw, takeover, store, job, faults, history>>

\* Mutant: any stage that asks for something will do.
MayStartWhileRequired(r) == r.takeover => r.seen.required

MayStart(r) == r.takeover => r.seen.stage = "confirmed"
WhileActive(r) == r.takeover => r.seen.stage \in Active

\* A reload also needs a status of "running", which processes may fail.
Admitted(r) ==
    CASE r.kind = "start"   -> MayStart(r)
      [] r.kind = "stop"    -> TRUE
      [] r.kind = "reload"  -> gw = "active" /\ WhileActive(r)
      [] r.kind = "restart" -> gw # "stopped" /\ WhileActive(r)
      [] r.kind = "apply"   -> gw # "stopped" => WhileActive(r)

\* The state of the gateway is looked at; requests may also be refused for reasons
\* of their own (a degraded gateway, a stale revision, an invalid source).
Admit(w) ==
    /\ At(w, "admit")
    /\ \/ Admitted(req[w]) /\ req[w].kind \in Actions /\ Goto(w, "accept")
       \/ Admitted(req[w]) /\ req[w].kind = "apply" /\ gw = "stopped" /\ Goto(w, "call")
       \/ /\ Admitted(req[w]) /\ req[w].kind = "apply" /\ gw # "stopped"
          /\ \E id \in NewId :
                req' = [req EXCEPT ![w].active = TRUE, ![w].id = id, ![w].at = "accept"]
       \/ (~Admitted(req[w]) \/ req[w].kind \in {"reload", "apply"}) /\ Return(w)
    /\ UNCHANGED <<gw, takeover, store, job, faults, history>>

\* The operation is on file before it is carried out.
Accept(w) ==
    /\ At(w, "accept")
    /\ Write(ops' = [ops EXCEPT ![req[w].id] = "running"] /\ Goto(w, "call"),
             Return(w) /\ UNCHANGED ops)
    /\ UNCHANGED <<gw, takeover, recovery, job, history>>

\* The request goes to the gateway service, or its socket does not answer.
Call(w) ==
    /\ At(w, "call")
    /\ \/ /\ job' = [job EXCEPT ![w] = req[w].kind] /\ Goto(w, "wait")
          /\ runs' = [i \in Ids |-> IF i = req[w].id THEN runs[i] + 1 ELSE runs[i]]
          /\ UNCHANGED faults
       \/ /\ Fault /\ req' = [req EXCEPT ![w].reply = "lost", ![w].at = "settle"]
          /\ UNCHANGED <<job, runs>>
    /\ UNCHANGED <<gw, takeover, store, routerOff, withdrawn, orphans, doubt>>

\* The two-minute deadline of the connection.  The service goes on.
Deadline(w) ==
    /\ At(w, "wait") /\ job[w] # "none"
    /\ req' = [req EXCEPT ![w].reply = "lost", ![w].at = "settle"]
    /\ doubt' = TRUE
    /\ UNCHANGED <<gw, takeover, store, job, faults, runs, routerOff, withdrawn, orphans>>

\* A profile that was only saved has not reached a gateway that ran.
Failed(r) == r.reply \notin {"done", "saved"} \/ (r.reply = "saved" /\ r.active)

\* recordStartRecoveryFailure: a note, and the checklist as it was when the
\* operation was accepted.
NotesStartFailure(r) == r.kind = "start" /\ r.takeover /\ r.seen.stage = "confirmed" /\ gw = "stopped"

\* Mutant: a profile import is not taken for a reload.
NotesReloadOnly(r) ==
    /\ r.kind = "reload" /\ r.takeover /\ r.reply # "stop_failed"
    /\ r.reply = "start_failed" \/ gw = "stopped"

\* recordReloadRecoveryFailure: back to the confirmation, from which a start can
\* be retried.
NotesReloadFailure(r) ==
    /\ r.kind = "reload" \/ (r.kind = "apply" /\ r.active)
    /\ r.takeover /\ r.reply # "stop_failed"
    /\ r.reply = "start_failed" \/ gw = "stopped"

\* The write of the checklist, whose failure is ignored.
WriteChecklist(stage) ==
    \/ recovery' = Recovery(stage) /\ UNCHANGED <<faults, doubt>>
    \/ UNCHANGED recovery /\ Fault /\ doubt' = TRUE

\* The answer is there.  An import writes its operation first.
Settle(w) ==
    LET r == req[w] IN
    /\ At(w, "settle")
    /\ CASE Failed(r) /\ NotesStartFailure(r) ->
              /\ Write(recovery' = [r.seen EXCEPT !.required = TRUE], UNCHANGED recovery)
              /\ Goto(w, "finish")
              /\ UNCHANGED doubt
         [] Failed(r) /\ r.kind = "reload" /\ NotesReloadFailure(r) ->
              WriteChecklist("confirmed") /\ Goto(w, "finish")
         [] ~Failed(r) /\ r.takeover /\ r.kind \in {"start", "stop"} ->
              /\ req' = [req EXCEPT ![w].seen = recovery, ![w].at = "update"]
              /\ UNCHANGED <<recovery, faults, doubt>>
         [] OTHER -> Goto(w, "finish") /\ UNCHANGED <<recovery, faults, doubt>>
    /\ UNCHANGED <<gw, takeover, ops, job, runs, routerOff, withdrawn, orphans>>

\* A start or stop that succeeded moves the checklist, whatever it said.
Reached(kind) == IF kind = "start" THEN "gateway_active" ELSE "gateway_stopped"

Update(w) ==
    /\ At(w, "update")
    /\ WriteChecklist(Reached(req[w].kind)) /\ Goto(w, "finish")
    /\ UNCHANGED <<gw, takeover, ops, job, runs, routerOff, withdrawn, orphans>>

\* The end of the operation is written; a failure to do so is ignored.
Outcome(r) == IF Failed(r) THEN "failed" ELSE "succeeded"

\* Mutant: only a success is written.
FinishOnlySuccess(w) ==
    LET r == req[w] IN
    /\ At(w, "finish")
    /\ IF r.id # NoId /\ ~Failed(r)
       THEN Write(ops' = [ops EXCEPT ![r.id] = "succeeded"] /\ UNCHANGED orphans,
                  orphans' = orphans \cup {r.id} /\ UNCHANGED ops)
       ELSE UNCHANGED <<ops, orphans, faults>>
    /\ Return(w)
    /\ UNCHANGED <<gw, takeover, recovery, job, runs, routerOff, withdrawn, doubt>>

Finish(w) ==
    LET r == req[w] IN
    /\ At(w, "finish")
    /\ IF r.id # NoId
       THEN Write(ops' = [ops EXCEPT ![r.id] = Outcome(r)] /\ UNCHANGED orphans,
                  orphans' = orphans \cup {r.id} /\ UNCHANGED ops)
       ELSE UNCHANGED <<ops, orphans, faults>>
    /\ IF r.active /\ Failed(r) THEN Goto(w, "note") ELSE Return(w)
    /\ UNCHANGED <<gw, takeover, recovery, job, runs, routerOff, withdrawn, doubt>>

\* An import that did not reach a running gateway is a reload that failed.
Note(w) ==
    /\ At(w, "note")
    /\ IF NotesReloadFailure(req[w]) THEN WriteChecklist("confirmed")
                                     ELSE UNCHANGED <<recovery, faults, doubt>>
    /\ Return(w)
    /\ UNCHANGED <<gw, takeover, ops, job, runs, routerOff, withdrawn, orphans>>

-----------------------------------------------------------------------------
(* The checklist: handleRecovery, handleRouterRestored, handleClientValidated,  *)
(* handleClientValidationSkip                                                   *)

\* Mutant: the checklist may be closed once the gateway is stopped.
AllowedWithoutRestoration(from, to) ==
    \/ to = "idle"
    \/ from \in {"idle", "complete"} /\ to = "confirmed"
    \/ from = "confirmed" /\ to = "gateway_active"
    \/ from \in Active /\ to = "gateway_stopped"
    \/ from = "gateway_stopped" /\ to \in {"router_restored", "complete"}
    \/ from = "router_restored" /\ to = "complete"

AllowedRecoveryTransition(from, to) ==
    \/ to = "idle"
    \/ from \in {"idle", "complete"} /\ to = "confirmed"
    \/ from = "confirmed" /\ to = "gateway_active"
    \/ from = "gateway_active" /\ to \in Active \cup {"gateway_stopped"}
    \/ from \in Active /\ to = "gateway_stopped"
    \/ from = "gateway_stopped" /\ to = "router_restored"
    \/ from = "router_restored" /\ to = "complete"

\* Where a request moves the checklist to; a note leaves the stage.
Target(r) ==
    CASE r.kind = "restored"                    -> "router_restored"
      [] r.kind = "validated"                   -> "client_validated"
      [] r.kind = "skip"                        -> "client_validation_skipped"
      [] r.kind = "post" /\ r.wish = "none"     -> r.seen.stage
      [] OTHER                                  -> r.wish

MayMove(r) ==
    CASE r.kind = "restored"             -> r.seen.stage = "gateway_stopped"
      [] r.kind \in {"validated", "skip"} -> r.seen.stage = "gateway_active"
      [] OTHER -> /\ Target(r) = r.seen.stage \/ AllowedRecoveryTransition(r.seen.stage, Target(r))
                  /\ r.wish = "confirmed" => takeover

\* The stages a posted form may ask for, or a note alone.
Wishes(kind) == IF kind = "post" THEN Stages \cup {"none"} ELSE {"none"}

\* The checklist is read and the request, with what it asks for, held against it; the
\* lease of the client that is to be validated may be missing.
ReadForm(w) ==
    /\ At(w, "read") /\ req[w].kind \in Forms
    /\ \E wish \in Wishes(req[w].kind) :
         LET r == [req[w] EXCEPT !.seen = recovery, !.wish = wish] IN
         \/ MayMove(r) /\ req' = [req EXCEPT ![w] = [r EXCEPT !.at = "write"]]
         \/ (~MayMove(r) \/ r.kind = "validated") /\ Return(w)
    /\ UNCHANGED <<gw, takeover, store, job, faults, history>>

\* Mutant: a note without a stage blanks the stage.
MovedBlank(r) == IF r.kind = "post" THEN Recovery(r.wish) ELSE Recovery(Target(r))

\* A note keeps the "required" that was read, every other request sets it anew.
Moved(r) == IF r.kind = "post" /\ r.wish = "none" THEN r.seen ELSE Recovery(Target(r))

\* The operator takes the confirmation back; requests that have read it before go on,
\* and those that fail or are forms themselves write what they have read.
GivesUp(r) == Target(r) \in {"idle", "router_restored"}
Recalling  == {"start", "reload", "apply"} \cup Forms

WriteForm(w) ==
    LET r == req[w] IN
    /\ At(w, "write")
    /\ \/ /\ recovery' = Moved(r)
          /\ routerOff' = CASE r.wish = "confirmed" -> TRUE
                            [] GivesUp(r) -> FALSE
                            [] OTHER -> routerOff
          /\ withdrawn' = CASE r.wish = "confirmed" -> FALSE
                            [] GivesUp(r) -> withdrawn \/ UnderWay(w) \cap Recalling # {}
                            [] OTHER -> withdrawn
          /\ doubt' = (doubt \/ r.wish \in Active
                         \/ (r.wish \in {"idle", "gateway_stopped"} /\ gw # "stopped"))
          /\ UNCHANGED faults
       \/ Fault /\ UNCHANGED <<recovery, routerOff, withdrawn, doubt>>
    /\ Return(w)
    /\ UNCHANGED <<gw, takeover, ops, job, runs, orphans>>

\* The network configuration changes while the gateway is stopped
\* (ConfigApply has the steps).
EditConfig(w) ==
    /\ At(w, "read") /\ req[w].kind = "config"
    /\ IF gw = "stopped" THEN takeover' \in BOOLEAN ELSE UNCHANGED takeover
    /\ Return(w)
    /\ UNCHANGED <<gw, store, job, faults, history>>

-----------------------------------------------------------------------------
(* The gateway service, and deaths *)

\* Stop and start of a reload, each of which may fail.
Reloads(reply) ==
    \/ gw' = gw /\ reply = "failed"
    \/ gw # "stopped" /\ gw' = "active" /\ reply = "done"
    \/ gw # "stopped" /\ gw' = "cleanup" /\ reply \in {"stop_failed", "start_failed"}
    \/ gw # "stopped" /\ gw' = "stopped" /\ reply = "start_failed"

\* A profile is saved on a stopped gateway and reloaded by a running one; when the
\* start of the reload fails, the previous gateway is started again.
Applies(reply) ==
    \/ gw = "stopped" /\ gw' = gw /\ reply \in {"saved", "failed"}
    \/ gw # "stopped" /\ Reloads(reply)
    \/ gw # "stopped" /\ gw' = "active" /\ reply = "start_failed"

\* What the gateway does for a request, as GatewayPromise has it.
Performs(kind, reply) ==
    \/ kind = "start" /\ gw = "stopped" /\ gw' = "active" /\ reply = "done"
    \/ kind = "start" /\ gw = "stopped" /\ gw' \in {"stopped", "cleanup"} /\ reply = "failed"
    \/ kind = "start" /\ gw # "stopped" /\ gw' = gw /\ reply = "failed"
    \/ kind = "stop" /\ gw' = "stopped" /\ reply = "done"
    \/ kind = "stop" /\ gw # "stopped" /\ gw' = "cleanup" /\ reply = "failed"
    \/ kind = "restart" /\ gw' = gw /\ reply = (IF gw = "stopped" THEN "failed" ELSE "done")
    \/ kind = "restart" /\ gw' = gw /\ reply = "failed"
    \/ kind = "reload" /\ Reloads(reply)
    \/ kind = "apply" /\ Applies(reply)

\* The answer reaches the worker, if it still waits.
Answer(w, reply) ==
    /\ job' = [job EXCEPT ![w] = "none"]
    /\ req' = IF At(w, "wait")
              THEN [req EXCEPT ![w].reply = reply, ![w].at = "settle"] ELSE req

Serve(w) ==
    /\ job[w] # "none"
    /\ \E reply \in Replies : Performs(job[w], reply) /\ Answer(w, reply)
    /\ UNCHANGED <<takeover, store, faults, history>>

\* What the state file may be when the service dies in the middle of a request.
Halfway(kind) ==
    CASE kind = "start" /\ gw = "stopped"              -> {"stopped", "active", "cleanup"}
      [] kind \in {"reload", "apply"} /\ gw # "stopped" -> {"stopped", "active", "cleanup"}
      [] kind = "stop"                                 -> {gw, "stopped"}
      [] OTHER                                         -> {gw}

ServiceDies(w) ==
    /\ job[w] # "none" /\ Fault /\ doubt' = TRUE
    /\ gw' \in Halfway(job[w])
    /\ Answer(w, "lost")
    /\ UNCHANGED <<takeover, store, runs, routerOff, withdrawn, orphans>>

\* The control API dies; what it has asked for is done all the same.
ControlDies ==
    /\ Fault /\ doubt' = TRUE
    /\ req' = [w \in Workers |-> Idle]
    /\ orphans' = orphans \cup {i \in Ids : ops[i] = "running"}
    /\ UNCHANGED <<gw, takeover, store, job, runs, routerOff, withdrawn>>

-----------------------------------------------------------------------------

Works(w) ==
    \/ Lookup(w) \/ ReadRecovery(w) \/ Admit(w) \/ Accept(w) \/ Call(w) \/ Deadline(w)
    \/ Settle(w) \/ Update(w) \/ Finish(w) \/ Note(w) \/ ReadForm(w) \/ WriteForm(w) \/ EditConfig(w)

Next ==
    \/ \E w \in Workers : Requests(w) \/ Works(w) \/ Serve(w) \/ ServiceDies(w)
    \/ ControlDies

Spec     == Init /\ [][Next]_vars
FairSpec == Spec /\ \A w \in Workers : WF_vars(Works(w))

-----------------------------------------------------------------------------
(* Properties *)

TypeOK ==
    /\ gw \in {"stopped", "active", "cleanup"} /\ takeover \in BOOLEAN
    /\ recovery \in [stage : Stages, required : BOOLEAN]
    /\ ops \in [Ids -> {"none", "running", "succeeded", "failed"}]
    /\ req \in [Workers -> [kind : Kinds \cup {"none"}, at : Labels, id : Ids \cup {NoId},
                            wish : Stages \cup {"none"}, takeover : BOOLEAN,
                            seen : [stage : Stages, required : BOOLEAN],
                            active : BOOLEAN, reply : Replies]]
    /\ job \in [Workers -> Actions \cup {"none", "apply"}]
    /\ faults \in 0..MaxFaults
    /\ runs \in [Ids -> Nat] /\ routerOff \in BOOLEAN /\ withdrawn \in BOOLEAN
    /\ orphans \subseteq Ids /\ doubt \in BOOLEAN

\* However often a request is repeated with its idempotency key, while it is carried
\* out, after it has ended, after the control API has died, it is sent to the gateway
\* service once (handleGatewayAction looks the key up and writes it before it acts).
OncePerKey == \A i \in Ids : runs[i] <= 1

\* From the confirmation that router DHCP is off until the operator has restored it or
\* given the takeover up, the checklist says that something is to be done, through
\* failed operations, late answers, deaths and lost writes.
RouterIsRemembered == routerOff => recovery.required

\* A gateway that takes DHCP over starts only while router DHCP is reported off, also when
\* the start is carried out long after it was asked for, the control API has died over it or
\* an operation before it has failed.  The exception is an operator who gives the takeover up
\* while an operation or a form is under way that read the checklist before: it is not called
\* back, and what it writes may allow a further start.  Edits of the configuration do not
\* overlap a start.
TakeoverIsConfirmed ==
    [][takeover /\ gw = "stopped" /\ gw' = "active" => routerOff \/ withdrawn]_vars

\* Once everything has ended, the checklist that lets a start through is one the operator
\* has confirmed and not taken back.  A start that fails after the takeover was given up
\* writes the confirmation it had read (recordStartRecoveryFailure).
ConfirmationIsTheOperators ==
    takeover /\ recovery.stage = "confirmed" /\ (\A w \in Workers : At(w, "idle") /\ job[w] = "none")
        => routerOff

\* The checklist does not call a stopped gateway active: start, reload and restart
\* would all be refused.  Not claimed when a death, the deadline, a lost write or
\* overlapping operations kept the control API from knowing, or when the operator has
\* moved the checklist by hand to where the gateway is not.
StoppedIsNotActive ==
    takeover /\ gw = "stopped" /\ ~doubt /\ (\A w \in Workers : At(w, "idle"))
        => recovery.stage \notin Active

\* The checklist calls a gateway that runs active, so that it can be reloaded and
\* restarted.  With a profile import that is taken back it does not.
RunningIsActive ==
    takeover /\ gw = "active" /\ ~doubt /\ (\A w \in Workers : At(w, "idle"))
        => recovery.stage \in Active

\* An operation that is on file as running gets an end, also when the gateway service
\* never answers (runOperation, the deadline of UnixGatewayClient.call): again and again
\* nothing is on file as running, but what was orphaned.
OperationsEnd ==
    []<>(\A i \in Ids : ops[i] = "running" => i \in orphans)
=============================================================================
