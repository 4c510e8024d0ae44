----------------------- MODULE ControlOperationsProofs -----------------------
(***************************************************************************)
(* Proofs about ControlOperations, for any number of goroutines, keys and   *)
(* faults.  Which requests must not overlap for a result to hold is a       *)
(* hypothesis of its theorem: the control API takes no lock across two      *)
(* requests.                                                                *)
(***************************************************************************)
EXTENDS ControlOperations, TLAPS

\* No request of the kinds A is under way together with one of the kinds B.
Separate(A, B) == \A a \in A, b \in B : {a, b} \notin Overlaps

-----------------------------------------------------------------------------
(* Keys *)

\* A key names one operation: while it is not on file one request holds it, and of the
\* requests with the same key one at most has got past the lookup.
KeyInv ==
    /\ \A w \in Workers : At(w, "idle") => req[w].id = NoId
    /\ \A v, w \in Workers :
          req[v].id = req[w].id /\ v # w /\ req[w].id # NoId =>
              ops[req[w].id] # "none" /\ (At(v, "lookup") \/ At(w, "lookup"))
    /\ \A w \in Workers : req[w].id # NoId =>
          /\ At(w, "read") \/ At(w, "admit") \/ At(w, "accept") => ops[req[w].id] = "none"
          /\ At(w, "call") => ops[req[w].id] # "none" /\ runs[req[w].id] = 0
          /\ At(w, "read") \/ At(w, "admit") => req[w].kind \in Actions
    /\ \A i \in Ids : runs[i] # 0 => ops[i] # "none"
    /\ OncePerKey

-----------------------------------------------------------------------------
(* The checklist and the router *)

Off == {"confirmed", "gateway_stopped"} \cup Active

\* Forms come one at a time, so what a form has read of the router is still so.
FormInv ==
    /\ \A v, w \in Workers : req[v].kind \in Forms /\ req[w].kind \in Forms => v = w
    /\ \A w \in Workers : At(w, "write") /\ Target(req[w]) = "complete" => ~routerOff

Told(r) == r = Recovery(r.stage)

RouterInv ==
    /\ Told(recovery) /\ \A w \in Workers : Told(req[w].seen)
    /\ routerOff => recovery.stage \in Off

-----------------------------------------------------------------------------
(* Starts of a takeover *)

Carries == {"start", "reload", "apply"}

\* Starts and edits of the configuration do not meet, also when the control API has died
\* and only the gateway service still works on the start.
ApartInv ==
    /\ \A w \in Workers : job[w] # "none" => req[w].kind \in {job[w], "none"}
    /\ \A v, w \in Workers : req[v].kind = "config" => req[w].kind # "start" /\ job[w] # "start"

Confirmed == {"confirmed"} \cup Active

\* The operator stands by the confirmation, or has taken it back too late for what had
\* read it.
Granted == routerOff \/ withdrawn

\* What a request has read of the configuration is still so, and of the router is granted,
\* when it brings the gateway up or writes the checklist.
Backed(r, intended, granted) ==
    /\ r.kind \in Carries /\ r.at \notin {"idle", "lookup", "read"} =>
          /\ r.kind = "start" => r.takeover = intended
          /\ r.at = "admit" => (r.seen.stage \in Confirmed => granted)
          /\ r.at # "admit" => (r.takeover /\ (r.kind # "apply" \/ r.active) => granted)
    /\ r.at = "write" /\ Target(r) \in Confirmed /\ r.wish # "confirmed" => granted

CarryInv ==
    /\ recovery.stage \in Confirmed => Granted
    /\ \A w \in Workers : Backed(req[w], takeover, Granted)
    /\ \A w \in Workers : job[w] = "start" /\ takeover => Granted

-----------------------------------------------------------------------------
(* The checklist and the gateway, as long as requests come one after the other *)

\* A repetition that is going to find its operation on file.
Echo(w) == At(w, "lookup") /\ Repeated(req[w].id)

\* The request has to take the checklist back.
Owes(r) ==
    /\ r.takeover
    /\ \/ r.kind = "stop" /\ r.reply = "done" /\ r.at \in {"settle", "update"}
       \/ r.kind = "reload" /\ r.reply = "start_failed" /\ r.at = "settle"
       \/ r.kind = "apply" /\ r.active /\ r.reply = "start_failed" /\ r.at \in {"settle", "finish", "note"}

\* What the request has read of the checklist, the configuration and the gateway is
\* still so.
Current(r, list, intended, state) ==
    /\ r.at = "write" =>
          r.seen = list /\ (r.kind \in {"validated", "skip"} => r.seen.stage \in Active)
    /\ r.at \in {"admit", "accept", "call", "wait", "settle", "update", "finish", "note"} =>
          /\ r.takeover = intended
          /\ r.at \in {"accept", "call", "wait"} /\ r.kind = "apply" => (r.active <=> state # "stopped")
          /\ r.at = "update" => r.reply = "done"
          /\ r.kind = "start" /\ r.reply = "done" => state # "stopped"
          /\ r.kind \in {"start", "stop"} => r.reply # "saved"

CalmInv ==
    /\ \A v, w \in Workers : v # w => At(v, "idle") \/ At(w, "idle") \/ Echo(v) \/ Echo(w)
    /\ \A w \in Workers : job[w] # "none" => At(w, "wait") /\ req[w].kind = job[w]
    /\ \A w \in Workers : Current(req[w], recovery, takeover, gw)
    /\ recovery.stage \in Active => takeover /\ (gw # "stopped" \/ \E w \in Workers : Owes(req[w]))

QuietInv == ~doubt => CalmInv

-----------------------------------------------------------------------------
(* What a step does to the requests *)

Request == [kind : Kinds \cup {"none"}, at : Labels, id : Ids \cup {NoId},
            wish : Stages \cup {"none"}, takeover : BOOLEAN,
            seen : [stage : Stages, required : BOOLEAN],
            active : BOOLEAN, reply : Replies]

LEMMA IdleTyped ==
    /\ Idle \in Request /\ Idle.at = "idle" /\ Idle.kind = "none" /\ Idle.id = NoId /\ Idle.wish = "none"
    /\ Idle.seen = Recovery("idle") /\ ~Idle.active /\ ~Idle.takeover /\ Idle.reply = "none"
BY DEF Idle, Request, Recovery, Labels, Stages, Replies

LEMMA Typed == TypeOK => req \in [Workers -> Request]
BY DEF TypeOK, Request

\* The other requests, and all but the label of this one, stay as they are.
LEMMA GotoMoves ==
    ASSUME TypeOK, NEW w \in Workers, NEW l \in Labels, Goto(w, l)
    PROVE  /\ req' \in [Workers -> Request] /\ req'[w].at = l
           /\ \A v \in Workers \ {w} : req'[v] = req[v]
           /\ req'[w].kind = req[w].kind /\ req'[w].id = req[w].id /\ req'[w].wish = req[w].wish
           /\ req'[w].takeover = req[w].takeover /\ req'[w].seen = req[w].seen
           /\ req'[w].active = req[w].active /\ req'[w].reply = req[w].reply
BY Typed DEF Goto, Request

LEMMA ReturnMoves ==
    ASSUME TypeOK, NEW w \in Workers, Return(w)
    PROVE  /\ req' \in [Workers -> Request] /\ req'[w] = Idle
           /\ \A v \in Workers \ {w} : req'[v] = req[v]
BY Typed, IdleTyped DEF Return

-----------------------------------------------------------------------------
(* Types *)

LEMMA WriteFaults == ASSUME TypeOK, Fault \/ UNCHANGED faults PROVE faults' \in 0..MaxFaults
BY BoundAssumption DEF TypeOK, Fault

LEMMA RecoveryTyped == \A stage \in Stages : Recovery(stage) \in [stage : Stages, required : BOOLEAN]
BY DEF Recovery

LEMMA ArrivalMoves ==
    ASSUME TypeOK, NEW w \in Workers, Requests(w)
    PROVE  /\ At(w, "idle") /\ job[w] = "none" /\ req' \in [Workers -> Request]
           /\ \A v \in Workers \ {w} : req'[v] = req[v]
           /\ req'[w].kind \in Kinds /\ req'[w].id \in Ids \cup {NoId}
           /\ req'[w].at = (IF req'[w].kind \in Actions THEN "lookup" ELSE "read")
           /\ req'[w].seen = Recovery("idle") /\ ~req'[w].takeover /\ ~req'[w].active /\ req'[w].reply = "none"
           /\ req'[w].id # NoId <=> req'[w].kind \in Actions
           /\ req'[w].wish = "none"
           /\ UNCHANGED <<gw, takeover, store, job, faults, runs, routerOff, withdrawn, orphans>>
           /\ \/ Repeated(req'[w].id) /\ req'[w].kind = "stop" /\ doubt' = doubt
              \/ /\ ~Repeated(req'[w].id) /\ doubt' = (doubt \/ UnderWay(w) # {})
                 /\ \A k \in UnderWay(w) : {k, req'[w].kind} \in Overlaps
                 /\ \A v \in Workers : req[v].id = req'[w].id /\ req'[w].id # NoId => req[v].kind = req'[w].kind
<1> USE DEF Requests
<1>1. PICK kind \in Kinds, id \in Ids \cup {NoId} :
          /\ Arrives(w, kind, id)
          /\ id # NoId <=> kind \in Actions
          /\ Repeated(id) => kind = "stop"
  <2>1. CASE \E kind \in Actions, id \in NewId \cup KeysInFlight : Arrives(w, kind, id)
    <3>1. \A id \in NewId \cup KeysInFlight : id \in Ids /\ id # NoId /\ ~Repeated(id)
      BY IdsAssumption DEF NewId, Fresh, KeysInFlight, Repeated, NoId
    <3> QED
      BY <2>1, <3>1 DEF Kinds
  <2>2. CASE \E id \in {i \in Ids : Repeated(i)} : Arrives(w, "stop", id)
    BY <2>2 DEF Kinds, Actions, Repeated
  <2>3. CASE \E kind \in Forms \cup {"apply", "config"} : Arrives(w, kind, NoId)
    BY <2>3 DEF Kinds, Forms, Actions, Repeated
  <2> QED
    BY <2>1, <2>2, <2>3
<1> DEFINE new == [Idle EXCEPT !.kind = kind, !.id = id,
                               !.at = IF kind \in Actions THEN "lookup" ELSE "read"]
<1>2. /\ new \in Request /\ new.kind = kind /\ new.id = id /\ new.wish = "none" /\ new.seen = Recovery("idle") /\ ~new.takeover
      /\ ~new.active /\ new.reply = "none" /\ new.at = (IF kind \in Actions THEN "lookup" ELSE "read")
  BY DEF Idle, Request, Recovery, Labels, Stages, Replies
<1>3. req' \in [Workers -> Request] /\ req'[w] = new /\ \A v \in Workers \ {w} : req'[v] = req[v]
  BY <1>1, <1>2, Typed DEF Arrives
<1>4. req'[w].kind = kind /\ req'[w].id = id /\ doubt \in BOOLEAN
  BY <1>2, <1>3 DEF TypeOK
<1> HIDE DEF new
<1>5. \/ Repeated(id) /\ kind = "stop" /\ doubt' = doubt
      \/ /\ ~Repeated(id) /\ doubt' = (doubt \/ UnderWay(w) # {})
         /\ \A k \in UnderWay(w) : {k, kind} \in Overlaps
         /\ \A v \in Workers : req[v].id = id /\ id # NoId => req[v].kind = kind
  BY <1>1, <1>4 DEF Arrives
<1>6. /\ At(w, "idle") /\ job[w] = "none"
      /\ UNCHANGED <<gw, takeover, store, job, faults, runs, routerOff, withdrawn, orphans>>
  BY <1>1 DEF Arrives
<1> QED
  BY <1>1, <1>2, <1>3, <1>4, <1>5, <1>6

\* An answer, or the lack of one.
LEMMA ReplyMoves ==
    ASSUME TypeOK, NEW w \in Workers, NEW r \in Replies,
           req' = [req EXCEPT ![w].reply = r, ![w].at = "settle"]
    PROVE  /\ req' \in [Workers -> Request] /\ req'[w].at = "settle" /\ req'[w].reply = r
           /\ \A v \in Workers \ {w} : req'[v] = req[v]
           /\ req'[w].kind = req[w].kind /\ req'[w].id = req[w].id /\ req'[w].wish = req[w].wish
           /\ req'[w].takeover = req[w].takeover /\ req'[w].seen = req[w].seen
           /\ req'[w].active = req[w].active
<1> DEFINE n == [req[w] EXCEPT !.reply = r, !.at = "settle"]
<1>1. req[w] \in Request /\ "settle" \in Labels
  BY Typed DEF Labels
<1>2. n \in Request
  BY <1>1 DEF Request
<1>3. /\ n.at = "settle" /\ n.reply = r /\ n.kind = req[w].kind /\ n.id = req[w].id
      /\ n.wish = req[w].wish /\ n.takeover = req[w].takeover /\ n.seen = req[w].seen
      /\ n.active = req[w].active
  BY <1>1 DEF Request
<1>4. req' = [req EXCEPT ![w] = n]
  OBVIOUS
<1> HIDE DEF n
<1> QED
  BY <1>2, <1>3, <1>4, Typed

LEMMA ReadMoves ==
    ASSUME TypeOK, NEW w \in Workers, ReadRecovery(w)
    PROVE  /\ req' \in [Workers -> Request] /\ req'[w].at = "admit" /\ req'[w].reply = req[w].reply
           /\ \A v \in Workers \ {w} : req'[v] = req[v]
           /\ req'[w].kind = req[w].kind /\ req'[w].id = req[w].id /\ req'[w].wish = req[w].wish
           /\ req'[w].takeover = takeover /\ req'[w].seen = recovery /\ req'[w].active = req[w].active
<1> DEFINE n == [req[w] EXCEPT !.takeover = takeover, !.seen = recovery, !.at = "admit"]
<1>1. /\ n \in Request /\ n.at = "admit" /\ n.reply = req[w].reply /\ n.kind = req[w].kind
      /\ n.id = req[w].id /\ n.wish = req[w].wish /\ n.takeover = takeover /\ n.seen = recovery
      /\ n.active = req[w].active
  <2>1. /\ req[w] \in Request /\ "admit" \in Labels
        /\ takeover \in BOOLEAN /\ recovery \in [stage : Stages, required : BOOLEAN]
    BY Typed DEF TypeOK, Labels
  <2> QED
    BY <2>1 DEF Request
<1>2. req' = [req EXCEPT ![w] = n]
  BY DEF ReadRecovery
<1> HIDE DEF n
<1> QED
  BY <1>1, <1>2, Typed

LEMMA AdmitMoves ==
    ASSUME TypeOK, NEW w \in Workers, Admit(w)
    PROVE  /\ req' \in [Workers -> Request] /\ \A v \in Workers \ {w} : req'[v] = req[v]
           /\ \/ req'[w] = Idle
              \/ /\ Admitted(req[w])
                 /\ req'[w].kind = req[w].kind /\ req'[w].wish = req[w].wish /\ req'[w].reply = req[w].reply
                 /\ req'[w].takeover = req[w].takeover /\ req'[w].seen = req[w].seen
                 /\ \/ /\ req[w].kind \in Actions /\ req'[w].at = "accept"
                       /\ req'[w].id = req[w].id /\ req'[w].active = req[w].active
                    \/ /\ req[w].kind = "apply" /\ gw = "stopped" /\ req'[w].at = "call"
                       /\ req'[w].id = req[w].id /\ req'[w].active = req[w].active
                    \/ /\ req[w].kind = "apply" /\ gw # "stopped" /\ req'[w].at = "accept"
                       /\ req'[w].id \in NewId /\ req'[w].active
<1>1. CASE Goto(w, "accept") /\ Admitted(req[w]) /\ req[w].kind \in Actions
  BY <1>1, GotoMoves DEF Labels
<1>2. CASE Goto(w, "call") /\ Admitted(req[w]) /\ req[w].kind = "apply" /\ gw = "stopped"
  BY <1>2, GotoMoves DEF Labels
<1>3. CASE Return(w)
  BY <1>3, ReturnMoves
<1>4. CASE /\ Admitted(req[w]) /\ req[w].kind = "apply" /\ gw # "stopped"
           /\ \E id \in NewId :
                req' = [req EXCEPT ![w].active = TRUE, ![w].id = id, ![w].at = "accept"]
  <2>1. PICK id \in NewId : req' = [req EXCEPT ![w].active = TRUE, ![w].id = id, ![w].at = "accept"]
    BY <1>4
  <2>2. id \in Ids
    BY DEF NewId, Fresh
  <2> DEFINE n == [req[w] EXCEPT !.active = TRUE, !.id = id, !.at = "accept"]
  <2>3. /\ n \in Request /\ n.at = "accept" /\ n.reply = req[w].reply /\ n.kind = req[w].kind
        /\ n.id = id /\ n.wish = req[w].wish /\ n.takeover = req[w].takeover /\ n.seen = req[w].seen
        /\ n.active
    BY <2>2, Typed, ZenonT(40) DEF Request, Labels
  <2>4. req' = [req EXCEPT ![w] = n]
    BY <2>1
  <2> HIDE DEF n
  <2> QED
    BY <1>4, <2>3, <2>4, Typed
<1> QED
  BY <1>1, <1>2, <1>3, <1>4 DEF Admit

LEMMA SettleMoves ==
    ASSUME TypeOK, NEW w \in Workers, Settle(w)
    PROVE  /\ req' \in [Workers -> Request] /\ \A v \in Workers \ {w} : req'[v] = req[v]
           /\ req'[w].kind = req[w].kind /\ req'[w].id = req[w].id /\ req'[w].wish = req[w].wish
           /\ req'[w].takeover = req[w].takeover /\ req'[w].active = req[w].active
           /\ req'[w].reply = req[w].reply
           /\ \/ req'[w].at = "finish" /\ req'[w].seen = req[w].seen
              \/ /\ ~Failed(req[w]) /\ req[w].takeover /\ req[w].kind \in {"start", "stop"}
                 /\ req'[w].at = "update" /\ req'[w].seen = recovery /\ UNCHANGED <<recovery, faults, doubt>>
<1>1. CASE Goto(w, "finish")
  BY <1>1, GotoMoves DEF Labels
<1>2. CASE /\ ~Failed(req[w]) /\ req[w].takeover /\ req[w].kind \in {"start", "stop"}
           /\ req' = [req EXCEPT ![w].seen = recovery, ![w].at = "update"]
           /\ UNCHANGED <<recovery, faults, doubt>>
  BY <1>2, Typed, ZenonT(40) DEF TypeOK, Request, Labels
<1> QED
  BY <1>1, <1>2 DEF Settle

LEMMA FormMoves ==
    ASSUME TypeOK, NEW w \in Workers, ReadForm(w)
    PROVE  /\ req' \in [Workers -> Request] /\ \A v \in Workers \ {w} : req'[v] = req[v]
           /\ \/ req'[w] = Idle
              \/ /\ req'[w].at = "write" /\ req'[w].seen = recovery /\ MayMove(req'[w])
                 /\ req'[w].kind = req[w].kind /\ req'[w].id = req[w].id
                 /\ req'[w].wish # "none" => req[w].kind = "post"
                 /\ req'[w].takeover = req[w].takeover /\ req'[w].active = req[w].active
                 /\ req'[w].reply = req[w].reply
<1>1. CASE Return(w)
  BY <1>1, ReturnMoves
<1>2. ASSUME NEW wish \in Wishes(req[w].kind),
             MayMove([req[w] EXCEPT !.seen = recovery, !.wish = wish]),
             req' = [req EXCEPT ![w] = [[req[w] EXCEPT !.seen = recovery, !.wish = wish] EXCEPT !.at = "write"]]
      PROVE  /\ req' \in [Workers -> Request] /\ \A v \in Workers \ {w} : req'[v] = req[v]
             /\ req'[w].at = "write" /\ req'[w].seen = recovery /\ MayMove(req'[w])
             /\ req'[w].kind = req[w].kind /\ req'[w].id = req[w].id
             /\ req'[w].wish # "none" => req[w].kind = "post"
             /\ req'[w].takeover = req[w].takeover /\ req'[w].active = req[w].active
             /\ req'[w].reply = req[w].reply
  <2> DEFINE r == [req[w] EXCEPT !.seen = recovery, !.wish = wish]
             n == [r EXCEPT !.at = "write"]
  <2>0. req[w] \in Request /\ "write" \in Labels /\ recovery \in [stage : Stages, required : BOOLEAN]
    BY Typed DEF TypeOK, Labels
  <2>6. wish \in Stages \cup {"none"} /\ (wish # "none" => req[w].kind = "post")
    BY DEF Wishes
  <2>5. n \in Request
    BY <2>0, <2>6 DEF Request
  <2>1. /\ n.at = "write" /\ n.seen = recovery /\ n.kind = req[w].kind /\ n.id = req[w].id
        /\ n.wish = wish /\ n.takeover = req[w].takeover /\ n.active = req[w].active
        /\ n.reply = req[w].reply
    BY <2>0 DEF Request
  <2>2. r.kind = n.kind /\ r.wish = n.wish /\ r.seen = n.seen
    BY <2>0 DEF Request
  <2>3. MayMove(n)
    BY <1>2, <2>2 DEF MayMove, Target
  <2>4. req' = [req EXCEPT ![w] = n]
    BY <1>2
  <2> HIDE DEF r, n
  <2> QED
    BY <2>1, <2>3, <2>4, <2>5, <2>6, Typed
<1> QED
  BY <1>1, <1>2 DEF ReadForm

\* Whatever is written, the checklist is one of the stages, and a write that fails
\* leaves the old one.
LEMMA ChecklistTyped ==
    ASSUME TypeOK, NEW stage \in Stages, WriteChecklist(stage)
    PROVE  /\ recovery' \in [stage : Stages, required : BOOLEAN] /\ faults' \in 0..MaxFaults
           /\ doubt' \in BOOLEAN /\ recovery' \in {recovery, Recovery(stage)}
           /\ doubt' = TRUE \/ (doubt' = doubt /\ recovery' = Recovery(stage))
BY RecoveryTyped, WriteFaults DEF WriteChecklist, TypeOK

LEMMA AnswerMoves ==
    ASSUME TypeOK, NEW w \in Workers, NEW r \in Replies, Answer(w, r)
    PROVE  /\ req' \in [Workers -> Request] /\ job' \in [Workers -> Actions \cup {"none", "apply"}]
           /\ job' = [job EXCEPT ![w] = "none"]
           /\ \A v \in Workers \ {w} : req'[v] = req[v]
           /\ \/ ~At(w, "wait") /\ req' = req
              \/ /\ At(w, "wait") /\ req'[w].at = "settle" /\ req'[w].reply = r
                 /\ req'[w].kind = req[w].kind /\ req'[w].id = req[w].id /\ req'[w].wish = req[w].wish
                 /\ req'[w].takeover = req[w].takeover /\ req'[w].seen = req[w].seen
                 /\ req'[w].active = req[w].active
<1>1. job' \in [Workers -> Actions \cup {"none", "apply"}] /\ job' = [job EXCEPT ![w] = "none"]
  BY DEF Answer, TypeOK
<1>2. CASE At(w, "wait")
  BY <1>1, <1>2, ReplyMoves, ZenonT(40) DEF Answer
<1>3. CASE ~At(w, "wait")
  BY <1>1, <1>3, Typed DEF Answer
<1> QED
  BY <1>2, <1>3

LEMMA PerformsTyped ==
    ASSUME TypeOK, NEW kind, NEW r \in Replies, Performs(kind, r)
    PROVE  gw' \in {"stopped", "active", "cleanup"}
BY DEF Performs, Reloads, Applies, TypeOK

LEMMA FormTyped ==
    ASSUME TypeOK, NEW w \in Workers, At(w, "write"), req[w].kind \in Forms
    PROVE  Moved(req[w]) \in [stage : Stages, required : BOOLEAN] /\ Target(req[w]) \in Stages
<1>1. req[w] \in Request
  BY Typed
<1>2. Target(req[w]) \in Stages
  <2>1. CASE req[w].kind \in Forms \ {"post"}
    BY <2>1 DEF Target, Forms, Stages, Active
  <2>2. CASE req[w].kind = "post" /\ req[w].wish = "none"
    BY <1>1, <2>2 DEF Target, Request
  <2>3. CASE req[w].kind = "post" /\ req[w].wish # "none"
    BY <1>1, <2>3 DEF Target, Request
  <2> QED
    BY <2>1, <2>2, <2>3
<1> QED
  BY <1>1, <1>2, RecoveryTyped DEF Moved, Request

\* Only the handlers of the checklist get as far as writing a form, only what the
\* gateway service carries out is waited for, and only handleRecovery takes a stage.
KindInv ==
    /\ \A w \in Workers : At(w, "idle") => req[w].kind = "none"
    /\ \A w \in Workers : req[w].wish # "none" => req[w].kind = "post"
    /\ \A w \in Workers : At(w, "write") => req[w].kind \in Forms
    /\ \A w \in Workers : At(w, "lookup") => req[w].kind \in Actions
    /\ \A w \in Workers : req[w].at \in {"admit", "accept", "call", "wait", "settle", "update", "finish",
                                         "note"} => req[w].kind \in Actions \cup {"apply"}

LEMMA KindStep == TypeOK /\ KindInv /\ [Next]_vars => KindInv'
<1> SUFFICES ASSUME TypeOK, KindInv, [Next]_vars PROVE KindInv'
  OBVIOUS
<1> USE DEF At
<1>1. ASSUME NEW w \in Workers, \A v \in Workers \ {w} : req'[v] = req[v],
             \/ req'[w] = Idle
             \/ /\ req'[w].kind = req[w].kind
                /\ req'[w].wish \in {req[w].wish, "none"} \/ req[w].kind = "post"
                /\ \/ req'[w].at = "write" /\ req[w].kind \in Forms
                   \/ req'[w].at \notin {"idle", "write", "lookup"} /\ req[w].kind \in Actions \cup {"apply"}
      PROVE  KindInv'
  BY <1>1, IdleTyped DEF KindInv
<1>2. ASSUME NEW w \in Workers, Requests(w) PROVE KindInv'
  BY <1>2, ArrivalMoves DEF KindInv
<1>3. ASSUME NEW w \in Workers, Lookup(w) \/ Accept(w) PROVE KindInv'
  BY <1>1, <1>3, GotoMoves, ReturnMoves DEF Lookup, Accept, Write, KindInv, Labels
<1>4. ASSUME NEW w \in Workers, ReadRecovery(w) PROVE KindInv'
  BY <1>1, <1>4, ReadMoves DEF ReadRecovery
<1>5. ASSUME NEW w \in Workers, Admit(w) PROVE KindInv'
  <2>1. req[w].kind \in Actions \cup {"apply"}
    BY <1>5 DEF Admit, KindInv
  <2> QED
    BY <1>1, <1>5, <2>1, AdmitMoves, ZenonT(40)
<1>6. ASSUME NEW w \in Workers, Call(w) PROVE KindInv'
  <2>1. req[w].kind \in Actions \cup {"apply"}
    BY <1>6 DEF Call, KindInv
  <2>2. CASE Goto(w, "wait")
    <3>1. "wait" \in Labels
      BY DEF Labels
    <3> QED
      BY <1>1, <2>1, <2>2, <3>1, GotoMoves
  <2>3. CASE req' = [req EXCEPT ![w].reply = "lost", ![w].at = "settle"]
    <3>1. "lost" \in Replies
      BY DEF Replies
    <3> QED
      BY <1>1, <2>1, <2>3, <3>1, ReplyMoves
  <2>4. Goto(w, "wait") \/ req' = [req EXCEPT ![w].reply = "lost", ![w].at = "settle"]
    BY <1>6, Zenon DEF Call
  <2> QED
    BY <2>2, <2>3, <2>4
<1>7. ASSUME NEW w \in Workers, Deadline(w) PROVE KindInv'
  <2>1. /\ req[w].kind \in Actions \cup {"apply"} /\ "lost" \in Replies
        /\ req' = [req EXCEPT ![w].reply = "lost", ![w].at = "settle"]
    BY <1>7 DEF Deadline, KindInv, Replies
  <2> QED
    BY <1>1, <2>1, ReplyMoves
<1>8. ASSUME NEW w \in Workers, Settle(w) PROVE KindInv'
  BY <1>1, <1>8, SettleMoves DEF Settle, KindInv
<1>9. ASSUME NEW w \in Workers, Update(w) \/ Finish(w) \/ Note(w) \/ WriteForm(w) \/ EditConfig(w)
      PROVE  KindInv'
  <2>1. CASE Return(w)
    BY <1>1, <2>1, ReturnMoves
  <2>2. CASE Update(w)
    BY <1>1, <2>2, GotoMoves DEF Update, KindInv, Labels
  <2>3. CASE Finish(w) /\ Goto(w, "note")
    BY <1>1, <2>3, GotoMoves DEF Finish, KindInv, Labels
  <2> QED
    BY <1>9, <2>1, <2>2, <2>3 DEF Finish, Note, WriteForm, EditConfig
<1>10. ASSUME NEW w \in Workers, ReadForm(w) PROVE KindInv'
  <2>1. req[w].kind \in Forms
    BY <1>10 DEF ReadForm
  <2> QED
    BY <1>1, <1>10, <2>1, FormMoves
<1>11. ASSUME NEW w \in Workers, Serve(w) \/ ServiceDies(w) PROVE KindInv'
  <2>1. PICK r \in Replies : Answer(w, r)
    BY <1>11 DEF Serve, ServiceDies, Replies
  <2>2. CASE req' = req
    BY <2>2 DEF KindInv
  <2>3. CASE req[w].at = "wait"
    BY <1>1, <2>1, <2>3, AnswerMoves DEF KindInv
  <2> QED
    BY <2>1, <2>2, <2>3, AnswerMoves
<1>12. CASE ControlDies
  BY <1>12, IdleTyped DEF ControlDies, KindInv
<1>13. CASE UNCHANGED vars
  BY <1>13 DEF vars, KindInv
<1> QED
  BY <1>2, <1>3, <1>4, <1>5, <1>6, <1>7, <1>8, <1>9, <1>10, <1>11, <1>12, <1>13 DEF Next, Works

LEMMA TypeStep == TypeOK /\ KindInv /\ [Next]_vars => TypeOK'
<1> SUFFICES ASSUME TypeOK, KindInv, [Next]_vars PROVE TypeOK'
  OBVIOUS
<1>1. ASSUME req' \in [Workers -> Request],
             gw' \in {"stopped", "active", "cleanup"}, takeover' \in BOOLEAN,
             recovery' \in [stage : Stages, required : BOOLEAN],
             ops' \in [Ids -> {"none", "running", "succeeded", "failed"}],
             job' \in [Workers -> Actions \cup {"none", "apply"}], faults' \in 0..MaxFaults,
             runs' \in [Ids -> Nat], routerOff' \in BOOLEAN, withdrawn' \in BOOLEAN, orphans' \subseteq Ids, doubt' \in BOOLEAN
      PROVE  TypeOK'
  BY <1>1 DEF TypeOK, Request
<1>2. ASSUME req' \in [Workers -> Request], UNCHANGED <<gw, takeover, recovery, job, runs, routerOff, withdrawn>>,
             Fault \/ UNCHANGED faults,
             ops' \in [Ids -> {"none", "running", "succeeded", "failed"}],
             orphans' \subseteq Ids, doubt' \in BOOLEAN
      PROVE  TypeOK'
  BY <1>2, <1>1, WriteFaults DEF TypeOK
<1>3. ASSUME NEW w \in Workers, Requests(w) PROVE TypeOK'
  <2>2. doubt' \in BOOLEAN /\ req' \in [Workers -> Request]
    BY <1>3, ArrivalMoves DEF TypeOK
  <2>3. UNCHANGED <<gw, takeover, recovery, ops, job, faults, runs, routerOff, withdrawn, orphans>>
    BY <1>3, ArrivalMoves DEF store
  <2> QED
    BY <1>2, <2>2, <2>3 DEF TypeOK
<1>4. ASSUME NEW w \in Workers, Lookup(w) \/ ReadRecovery(w) \/ Admit(w) \/ ReadForm(w) PROVE TypeOK'
  <2>1. req' \in [Workers -> Request]
    BY <1>4, GotoMoves, ReturnMoves, ReadMoves, AdmitMoves, FormMoves DEF Lookup, Labels
  <2>2. UNCHANGED <<gw, takeover, recovery, ops, job, faults, runs, routerOff, withdrawn, orphans, doubt>>
    BY <1>4 DEF Lookup, ReadRecovery, Admit, ReadForm, store, history
  <2> QED
    BY <1>2, <2>1, <2>2 DEF TypeOK
<1>5. ASSUME NEW w \in Workers, Accept(w) PROVE TypeOK'
  <2>1. UNCHANGED <<gw, takeover, recovery, job, runs, routerOff, withdrawn, orphans, doubt>>
    BY <1>5 DEF Accept, history
  <2>2. req' \in [Workers -> Request] /\ (Fault \/ UNCHANGED faults)
        /\ ops' \in [Ids -> {"none", "running", "succeeded", "failed"}]
    BY <1>5, GotoMoves, ReturnMoves DEF Accept, Write, Labels, TypeOK
  <2> QED
    BY <1>2, <2>1, <2>2 DEF TypeOK
<1>6. ASSUME NEW w \in Workers, Call(w) PROVE TypeOK'
  <2>1. UNCHANGED <<gw, takeover, recovery, ops, routerOff, withdrawn, orphans, doubt>>
    BY <1>6 DEF Call, store
  <2>2. req[w].kind \in Actions \cup {"apply"}
    BY <1>6 DEF Call, KindInv, At
  <2>3. req' \in [Workers -> Request] /\ (Fault \/ UNCHANGED faults)
    BY <1>6, GotoMoves, ReplyMoves DEF Call, Labels, Replies
  <2>4. job' \in [Workers -> Actions \cup {"none", "apply"}]
    BY <1>6, <2>2 DEF Call, TypeOK
  <2>5. runs' \in [Ids -> Nat]
    <3>1. CASE UNCHANGED runs
      BY <3>1 DEF TypeOK
    <3>2. CASE runs' = [i \in Ids |-> IF i = req[w].id THEN runs[i] + 1 ELSE runs[i]]
      BY <3>2 DEF TypeOK
    <3> QED
      BY <1>6, <3>1, <3>2 DEF Call
  <2> QED
    BY <1>1, <2>1, <2>3, <2>4, <2>5, WriteFaults DEF TypeOK
<1>7. ASSUME NEW w \in Workers, Deadline(w) PROVE TypeOK'
  <2>1. req' \in [Workers -> Request] /\ doubt' \in BOOLEAN
    BY <1>7, ReplyMoves DEF Deadline, Replies
  <2> QED
    BY <1>2, <1>7, <2>1 DEF Deadline, store, TypeOK
<1>8. ASSUME NEW w \in Workers, Settle(w) PROVE TypeOK'
  <2>1. req' \in [Workers -> Request]
    BY <1>8, SettleMoves
  <2>2. UNCHANGED <<gw, takeover, ops, job, runs, routerOff, withdrawn, orphans>>
    BY <1>8 DEF Settle
  <2>3. recovery' \in [stage : Stages, required : BOOLEAN] /\ faults' \in 0..MaxFaults /\ doubt' \in BOOLEAN
    <3>1. CASE UNCHANGED <<recovery, faults, doubt>>
      BY <3>1 DEF TypeOK
    <3>2. CASE WriteChecklist("confirmed")
      BY <3>2, ChecklistTyped DEF Stages
    <3>3. CASE Write(recovery' = [req[w].seen EXCEPT !.required = TRUE], UNCHANGED recovery) /\ UNCHANGED doubt
      <4>1. req[w].seen \in [stage : Stages, required : BOOLEAN]
        BY Typed DEF Request
      <4> QED
        BY <3>3, <4>1, WriteFaults DEF Write, TypeOK
    <3> QED
      BY <1>8, <3>1, <3>2, <3>3 DEF Settle
  <2> QED
    BY <1>1, <2>1, <2>2, <2>3 DEF TypeOK
<1>9. ASSUME NEW w \in Workers, Update(w) \/ Note(w) PROVE TypeOK'
  <2>1. req' \in [Workers -> Request]
    BY <1>9, GotoMoves, ReturnMoves DEF Update, Note, Labels
  <2>2. UNCHANGED <<gw, takeover, ops, job, runs, routerOff, withdrawn, orphans>>
    BY <1>9 DEF Update, Note
  <2>3. recovery' \in [stage : Stages, required : BOOLEAN] /\ faults' \in 0..MaxFaults /\ doubt' \in BOOLEAN
    <3>1. CASE UNCHANGED <<recovery, faults, doubt>>
      BY <3>1 DEF TypeOK
    <3>2. CASE WriteChecklist("confirmed") \/ WriteChecklist(Reached(req[w].kind))
      BY <3>2, ChecklistTyped DEF Stages, Reached, Active
    <3> QED
      BY <1>9, <3>1, <3>2 DEF Update, Note
  <2> QED
    BY <1>1, <2>1, <2>2, <2>3 DEF TypeOK
<1>10. ASSUME NEW w \in Workers, Finish(w) PROVE TypeOK'
  <2>1. req' \in [Workers -> Request]
    BY <1>10, GotoMoves, ReturnMoves DEF Finish, Labels
  <2>2. /\ UNCHANGED <<gw, takeover, recovery, job, runs, routerOff, withdrawn, doubt>>
        /\ \/ UNCHANGED <<ops, orphans, faults>>
           \/ ops' = [ops EXCEPT ![req[w].id] = Outcome(req[w])] /\ UNCHANGED <<orphans, faults>>
           \/ /\ req[w].id # NoId /\ orphans' = orphans \cup {req[w].id} /\ UNCHANGED ops /\ Fault
    BY <1>10 DEF Finish, Write
  <2>3. req[w].id # NoId => req[w].id \in Ids
    BY Typed DEF Request
  <2>4. Outcome(req[w]) \in {"none", "running", "succeeded", "failed"}
    BY DEF Outcome
  <2>5. /\ ops' \in [Ids -> {"none", "running", "succeeded", "failed"}]
        /\ orphans' \subseteq Ids /\ (Fault \/ UNCHANGED faults)
    BY <2>2, <2>3, <2>4 DEF TypeOK
  <2> QED
    BY <1>2, <2>1, <2>2, <2>5 DEF TypeOK
<1>11. ASSUME NEW w \in Workers, WriteForm(w) PROVE TypeOK'
  <2>1. req' \in [Workers -> Request] /\ UNCHANGED <<gw, takeover, ops, job, runs, orphans>>
    BY <1>11, ReturnMoves DEF WriteForm
  <2>2. req[w].kind \in Forms
    BY <1>11 DEF WriteForm, KindInv
  <2>3. \/ recovery' = Moved(req[w]) /\ UNCHANGED faults
        \/ Fault /\ UNCHANGED <<recovery, routerOff, withdrawn, doubt>>
    BY <1>11 DEF WriteForm
  <2>4. recovery' \in [stage : Stages, required : BOOLEAN] /\ faults' \in 0..MaxFaults
    BY <1>11, <2>2, <2>3, FormTyped, WriteFaults DEF WriteForm, TypeOK
  <2>5. routerOff' \in BOOLEAN
    <3>1. CASE routerOff' = (CASE req[w].wish = "confirmed" -> TRUE
                               [] GivesUp(req[w]) -> FALSE
                               [] OTHER -> routerOff)
      BY <3>1 DEF TypeOK
    <3> QED
      BY <1>11, <3>1 DEF WriteForm, TypeOK
  <2>6. doubt' \in BOOLEAN
    BY <1>11 DEF WriteForm, TypeOK
  <2>7. withdrawn' \in BOOLEAN
    <3>1. CASE withdrawn' = (CASE req[w].wish = "confirmed" -> FALSE
                               [] GivesUp(req[w]) -> withdrawn \/ UnderWay(w) \cap Recalling # {}
                               [] OTHER -> withdrawn)
      BY <3>1 DEF TypeOK
    <3> QED
      BY <1>11, <3>1 DEF WriteForm, TypeOK
  <2> QED
    BY <1>1, <2>1, <2>4, <2>5, <2>6, <2>7 DEF TypeOK
<1>12. ASSUME NEW w \in Workers, EditConfig(w) PROVE TypeOK'
  <2>1. /\ req' \in [Workers -> Request] /\ takeover' \in BOOLEAN
        /\ UNCHANGED <<gw, recovery, ops, job, faults, runs, routerOff, withdrawn, orphans, doubt>>
    BY <1>12, ReturnMoves DEF EditConfig, store, history, TypeOK
  <2> QED
    BY <1>1, <2>1 DEF TypeOK
<1>13. ASSUME NEW w \in Workers, Serve(w) \/ ServiceDies(w) PROVE TypeOK'
  <2>1. PICK r \in Replies : Answer(w, r)
    BY <1>13 DEF Serve, ServiceDies, Replies
  <2>2. req' \in [Workers -> Request] /\ job' \in [Workers -> Actions \cup {"none", "apply"}]
    BY <2>1, AnswerMoves
  <2>3. CASE Serve(w)
    <3>1. gw' \in {"stopped", "active", "cleanup"}
      BY <2>3, PerformsTyped DEF Serve
    <3>2. UNCHANGED <<takeover, recovery, ops, faults, runs, routerOff, withdrawn, orphans, doubt>>
      BY <2>3 DEF Serve, store, history
    <3> QED
      BY <1>1, <2>2, <3>1, <3>2 DEF TypeOK
  <2>4. CASE ServiceDies(w)
    <3>1. gw' \in {"stopped", "active", "cleanup"}
      BY <2>4 DEF ServiceDies, Halfway, TypeOK
    <3>2. doubt' = TRUE /\ Fault /\ UNCHANGED <<takeover, recovery, ops, runs, routerOff, withdrawn, orphans>>
      BY <2>4 DEF ServiceDies, store
    <3> QED
      BY <1>1, <2>2, <3>1, <3>2, WriteFaults DEF TypeOK
  <2> QED
    BY <1>13, <2>3, <2>4
<1>14. CASE ControlDies
  <2>1. req' \in [Workers -> Request] /\ doubt' = TRUE /\ Fault
    BY <1>14, IdleTyped DEF ControlDies
  <2>2. UNCHANGED <<gw, takeover, recovery, ops, job, runs, routerOff, withdrawn>>
    BY <1>14 DEF ControlDies, store
  <2>3. orphans' \subseteq Ids
    BY <1>14 DEF ControlDies, TypeOK
  <2> QED
    BY <1>2, <2>1, <2>2, <2>3 DEF TypeOK
<1>15. CASE UNCHANGED vars
  BY <1>15 DEF vars, store, history, TypeOK
<1> QED
  BY <1>3, <1>4, <1>5, <1>6, <1>7, <1>8, <1>9, <1>10, <1>11, <1>12, <1>13, <1>14, <1>15 DEF Next, Works

\* What a request holds fits how far it has got.
Shaped(r) ==
    /\ r.active => r.kind = "apply" /\ r.at \notin {"lookup", "read", "admit"}
    /\ r.at = "update" => r.takeover /\ r.kind \in {"start", "stop"}
    /\ r.reply # "none" => r.at \in {"settle", "update", "finish", "note"}

ShapeInv == \A w \in Workers : Shaped(req[w])

LEMMA ShapeStep == TypeOK /\ KindInv /\ ShapeInv /\ [Next]_vars => ShapeInv'
<1> SUFFICES ASSUME TypeOK, KindInv, ShapeInv, [Next]_vars PROVE ShapeInv'
  OBVIOUS
<1> USE DEF At
<1>0. Shaped(Idle)
  BY IdleTyped DEF Shaped
<1>1. ASSUME NEW w \in Workers, \A v \in Workers \ {w} : req'[v] = req[v], Shaped(req'[w])
      PROVE  ShapeInv'
  BY <1>1 DEF ShapeInv
<1>2. ASSUME NEW w \in Workers, Return(w) PROVE ShapeInv'
  BY <1>0, <1>1, <1>2, ReturnMoves
<1>3. ASSUME NEW w \in Workers, NEW l \in Labels, Goto(w, l),
             \/ req[w].at = "lookup" /\ l = "read"
             \/ req[w].at \in {"accept", "call"} /\ l \in {"call", "wait"}
             \/ req[w].at \in {"settle", "update", "finish"} /\ l \in {"finish", "note"}
      PROVE  ShapeInv'
  <2>1. Shaped(req[w])
    BY DEF ShapeInv
  <2>2. Shaped(req'[w])
    BY <1>3, <2>1, GotoMoves DEF Shaped
  <2> QED
    BY <1>1, <1>3, <2>2, GotoMoves
<1>4. ASSUME NEW w \in Workers, Requests(w) PROVE ShapeInv'
  <2>1. Shaped(req'[w])
    BY <1>4, ArrivalMoves DEF Shaped
  <2> QED
    BY <1>1, <1>4, <2>1, ArrivalMoves
<1>5. ASSUME NEW w \in Workers, Lookup(w) \/ Accept(w) \/ Update(w) \/ Finish(w) \/ Note(w) \/ WriteForm(w)
                                \/ EditConfig(w)
      PROVE  ShapeInv'
  BY <1>2, <1>3, <1>5 DEF Lookup, Accept, Update, Finish, Note, WriteForm, EditConfig, Write, Labels
<1>6. ASSUME NEW w \in Workers, ReadRecovery(w) PROVE ShapeInv'
  <2>1. Shaped(req[w]) /\ req[w].at = "read"
    BY <1>6 DEF ShapeInv, ReadRecovery
  <2>2. Shaped(req'[w])
    BY <1>6, <2>1, ReadMoves DEF Shaped
  <2> QED
    BY <1>1, <1>6, <2>2, ReadMoves
<1>7. ASSUME NEW w \in Workers, Admit(w) PROVE ShapeInv'
  <2>1. Shaped(req[w]) /\ req[w].at = "admit"
    BY <1>7 DEF ShapeInv, Admit
  <2>2. Shaped(req'[w])
    <3>1. CASE req'[w] = Idle
      BY <1>0, <3>1
    <3>2. CASE /\ req'[w].reply = req[w].reply /\ req'[w].kind = req[w].kind
               /\ req'[w].at \in {"accept", "call"}
               /\ req'[w].active = req[w].active \/ req[w].kind = "apply"
      BY <2>1, <3>2 DEF Shaped
    <3> QED
      BY <1>7, <3>1, <3>2, AdmitMoves
  <2> QED
    BY <1>1, <1>7, <2>2, AdmitMoves
<1>8. ASSUME NEW w \in Workers, Call(w) \/ Deadline(w) PROVE ShapeInv'
  <2>1. Shaped(req[w]) /\ req[w].at \in {"call", "wait"}
    BY <1>8 DEF ShapeInv, Call, Deadline
  <2>2. CASE Goto(w, "wait") /\ req[w].at = "call"
    BY <1>3, <2>2 DEF Labels
  <2>3. CASE req' = [req EXCEPT ![w].reply = "lost", ![w].at = "settle"]
    <3>1. /\ req'[w].at = "settle" /\ req'[w].kind = req[w].kind /\ req'[w].active = req[w].active
          /\ \A v \in Workers \ {w} : req'[v] = req[v]
      BY <2>3, ReplyMoves DEF Replies
    <3>2. Shaped(req'[w])
      BY <2>1, <3>1 DEF Shaped
    <3> QED
      BY <1>1, <3>1, <3>2
  <2> QED
    BY <1>8, <2>2, <2>3 DEF Call, Deadline
<1>9. ASSUME NEW w \in Workers, Settle(w) PROVE ShapeInv'
  <2>1. Shaped(req[w]) /\ req[w].at = "settle"
    BY <1>9 DEF ShapeInv, Settle
  <2>2. Shaped(req'[w])
    BY <1>9, <2>1, SettleMoves DEF Shaped
  <2> QED
    BY <1>1, <1>9, <2>2, SettleMoves
<1>10. ASSUME NEW w \in Workers, ReadForm(w) PROVE ShapeInv'
  <2>1. Shaped(req[w]) /\ req[w].at = "read"
    BY <1>10 DEF ShapeInv, ReadForm
  <2>2. CASE req'[w].at = "write" /\ req'[w].active = req[w].active /\ req'[w].reply = req[w].reply
    <3>1. Shaped(req'[w])
      BY <2>1, <2>2 DEF Shaped
    <3> QED
      BY <1>1, <1>10, <3>1, FormMoves
  <2> QED
    BY <1>0, <1>1, <1>10, <2>2, FormMoves
<1>11. ASSUME NEW w \in Workers, Serve(w) \/ ServiceDies(w) PROVE ShapeInv'
  <2>1. PICK r \in Replies : Answer(w, r)
    BY <1>11 DEF Serve, ServiceDies, Replies
  <2>2. CASE req' = req
    BY <2>2 DEF ShapeInv
  <2>3. CASE req[w].at = "wait" /\ req' # req
    <3>1. Shaped(req[w])
      BY DEF ShapeInv
    <3>2. Shaped(req'[w])
      BY <2>1, <2>3, <3>1, AnswerMoves DEF Shaped
    <3> QED
      BY <1>1, <2>1, <3>2, AnswerMoves
  <2> QED
    BY <2>1, <2>2, <2>3, AnswerMoves
<1>12. CASE ControlDies
  BY <1>0, <1>12 DEF ControlDies, ShapeInv
<1>13. CASE UNCHANGED vars
  BY <1>13 DEF vars, ShapeInv
<1> QED
  BY <1>4, <1>5, <1>6, <1>7, <1>8, <1>9, <1>10, <1>11, <1>12, <1>13 DEF Next, Works

LEMMA ControlInit == Init => TypeOK /\ KindInv /\ ShapeInv
<1> SUFFICES ASSUME Init PROVE TypeOK /\ KindInv /\ ShapeInv
  OBVIOUS
<1>1. req \in [Workers -> Request] /\ \A w \in Workers : req[w] = Idle
  BY IdleTyped DEF Init
<1>2. KindInv /\ ShapeInv
  BY <1>1, IdleTyped DEF KindInv, ShapeInv, Shaped, At
<1>3. TypeOK
  <2>1. recovery \in [stage : Stages, required : BOOLEAN]
    BY RecoveryTyped DEF Init, Stages
  <2>2. job \in [Workers -> Actions \cup {"none", "apply"}] /\ ops \in [Ids -> {"none", "running", "succeeded", "failed"}]
        /\ runs \in [Ids -> Nat] /\ faults \in 0..MaxFaults
    BY BoundAssumption DEF Init
  <2> QED
    BY <1>1, <2>1, <2>2 DEF Init, TypeOK, Request
<1> QED
  BY <1>2, <1>3

\* What the control API keeps, and every request on its way, has its type, whatever
\* requests overlap, fail and are repeated.
THEOREM ControlTypeCorrect == Spec => []TypeOK
BY ControlInit, TypeStep, KindStep, PTL DEF Spec

-----------------------------------------------------------------------------
(* Once per key *)

\* Past the call an operation may be written and a request may end.
LEMMA KeyKept ==
    ASSUME TypeOK, KeyInv, NEW w \in Workers, \A v \in Workers \ {w} : req'[v] = req[v],
           \A i \in Ids : ops[i] # "none" => ops'[i] # "none",
           \A i \in Ids \ {req[w].id} : ops'[i] = ops[i], UNCHANGED runs,
           \/ req'[w].at = "idle" /\ req'[w].id = NoId
           \/ /\ req'[w].at \in {"wait", "settle", "update", "finish", "note", "write"}
              /\ req'[w].id = req[w].id /\ ~At(w, "lookup")
    PROVE  KeyInv'
<1> USE DEF At
<1>1. req[w].id \in Ids \cup {NoId} /\ NoId \notin Ids /\ \A v \in Workers : req[v].id \in Ids \cup {NoId}
  BY Typed, IdsAssumption DEF Request, NoId
<1>2. \A v \in Workers : req'[v].at = "idle" => req'[v].id = NoId
  BY DEF KeyInv
<1>3. \A u, v \in Workers :
          req'[u].id = req'[v].id /\ u # v /\ req'[v].id # NoId =>
              ops'[req'[v].id] # "none" /\ (req'[u].at = "lookup" \/ req'[v].at = "lookup")
  BY <1>1 DEF KeyInv
<1>4. \A v \in Workers : req'[v].id # NoId =>
          /\ req'[v].at \in {"read", "admit", "accept"} => ops'[req'[v].id] = "none"
          /\ req'[v].at = "call" => ops'[req'[v].id] # "none" /\ runs'[req'[v].id] = 0
          /\ req'[v].at \in {"read", "admit"} => req'[v].kind \in Actions
  BY <1>1 DEF KeyInv
<1>5. (\A i \in Ids : runs'[i] # 0 => ops'[i] # "none") /\ OncePerKey'
  BY DEF KeyInv, OncePerKey
<1> QED
  BY <1>2, <1>3, <1>4, <1>5 DEF KeyInv

LEMMA KeyStep ==
    ASSUME \A k \in Actions : {k} \notin Overlaps, TypeOK, KindInv, KeyInv, [Next]_vars
    PROVE  KeyInv'
<1> USE DEF At
<1>0. NoId \notin Ids /\ \A v \in Workers : req[v].id \in Ids \cup {NoId}
  BY Typed, IdsAssumption DEF Request, NoId
\* One request moves on, nothing is written.
<1>1. ASSUME NEW w \in Workers, \A v \in Workers \ {w} : req'[v] = req[v], UNCHANGED <<ops, runs>>,
             \/ req'[w] = Idle
             \/ /\ req'[w].id = req[w].id /\ req[w].at # "lookup"
                /\ req'[w].at \in {"wait", "settle", "update", "finish", "note", "write"}
      PROVE  KeyInv'
  BY <1>1, KeyKept, IdleTyped
<1>2. ASSUME NEW w \in Workers, Requests(w) PROVE KeyInv'
  <2>1. /\ \A v \in Workers \ {w} : req'[v] = req[v]
        /\ req'[w].id \in Ids \cup {NoId} /\ req'[w].at \in {"lookup", "read"}
        /\ req'[w].id # NoId => req'[w].at = "lookup" /\ req'[w].kind \in Actions
        /\ UNCHANGED <<ops, runs>> /\ req[w].at = "idle"
    BY <1>2, ArrivalMoves DEF store
  <2>2. ASSUME NEW v \in Workers \ {w}, req[v].id = req'[w].id, req'[w].id # NoId
        PROVE  ops[req'[w].id] # "none"
    <3>1. CASE Repeated(req'[w].id)
      BY <3>1 DEF Repeated
    <3>2. CASE ~Repeated(req'[w].id)
      <4>1. req[v].kind = req'[w].kind /\ \A k \in UnderWay(w) : {k, req'[w].kind} \in Overlaps
        BY <1>2, <2>2, <3>2, ArrivalMoves
      <4>2. req[v].at # "idle"
        BY <2>2 DEF KeyInv
      <4>3. req[v].kind \in UnderWay(w)
        BY <4>2 DEF UnderWay
      <4>4. {req[v].kind, req'[w].kind} = {req'[w].kind}
        BY <4>1
      <4> QED
        BY <2>1, <2>2, <4>1, <4>3, <4>4
    <3> QED
      BY <3>1, <3>2
  <2>3. \A v \in Workers : req'[v].at = "idle" => req'[v].id = NoId
    BY <2>1 DEF KeyInv
  <2>4. \A u, v \in Workers :
          req'[u].id = req'[v].id /\ u # v /\ req'[v].id # NoId =>
              ops'[req'[v].id] # "none" /\ (req'[u].at = "lookup" \/ req'[v].at = "lookup")
    BY <2>1, <2>2 DEF KeyInv
  <2>5. \A v \in Workers : req'[v].id # NoId =>
          /\ req'[v].at \in {"read", "admit", "accept"} => ops'[req'[v].id] = "none"
          /\ req'[v].at = "call" => ops'[req'[v].id] # "none" /\ runs'[req'[v].id] = 0
          /\ req'[v].at \in {"read", "admit"} => req'[v].kind \in Actions
    BY <2>1 DEF KeyInv
  <2>6. (\A i \in Ids : runs'[i] # 0 => ops'[i] # "none") /\ OncePerKey'
    BY <2>1 DEF KeyInv, OncePerKey
  <2> QED
    BY <2>3, <2>4, <2>5, <2>6 DEF KeyInv
\* A request is held by one goroutine from the lookup to the call, and moves on one label.
<1>3. ASSUME NEW w \in Workers, \A v \in Workers \ {w} : req'[v] = req[v], UNCHANGED <<ops, runs>>,
             req'[w].id = req[w].id, req'[w].kind = req[w].kind, req'[w].at # "idle", req[w].at # "idle",
             req'[w].at # "lookup",
             req[w].id # NoId => /\ ops[req[w].id] = "none" /\ req'[w].at \in {"read", "admit", "accept"}
                                 /\ req[w].kind \in Actions
      PROVE  KeyInv'
  <2>1. \A v \in Workers : req'[v].id = req[v].id
    BY <1>3
  <2>2. \A v \in Workers : req'[v].at = "idle" => req'[v].id = NoId
    BY <1>3 DEF KeyInv
  <2>3. \A u, v \in Workers :
          req'[u].id = req'[v].id /\ u # v /\ req'[v].id # NoId =>
              ops'[req'[v].id] # "none" /\ (req'[u].at = "lookup" \/ req'[v].at = "lookup")
    <3> TAKE u, v \in Workers
    <3> HAVE req'[u].id = req'[v].id /\ u # v /\ req'[v].id # NoId
    <3>1. ops[req[v].id] # "none" /\ (req[u].at = "lookup" \/ req[v].at = "lookup")
      BY <2>1 DEF KeyInv
    <3>2. u # w /\ v # w
      BY <1>3, <2>1, <3>1
    <3> QED
      BY <1>3, <2>1, <3>1, <3>2
  <2>4. \A v \in Workers : req'[v].id # NoId =>
          /\ req'[v].at \in {"read", "admit", "accept"} => ops'[req'[v].id] = "none"
          /\ req'[v].at = "call" => ops'[req'[v].id] # "none" /\ runs'[req'[v].id] = 0
          /\ req'[v].at \in {"read", "admit"} => req'[v].kind \in Actions
    BY <1>3, <2>1 DEF KeyInv
  <2>5. (\A i \in Ids : runs'[i] # 0 => ops'[i] # "none") /\ OncePerKey'
    BY <1>3 DEF KeyInv, OncePerKey
  <2> QED
    BY <2>2, <2>3, <2>4, <2>5 DEF KeyInv
<1>4. ASSUME NEW w \in Workers, Lookup(w) PROVE KeyInv'
  <2>1. req[w].at = "lookup" /\ UNCHANGED <<ops, runs>>
    BY <1>4 DEF Lookup, store, history
  <2>2. CASE Return(w)
    BY <1>1, <2>1, <2>2, ReturnMoves
  <2>3. CASE ops[req[w].id] = "none" /\ Goto(w, "read")
    BY <1>3, <2>1, <2>3, GotoMoves DEF Labels, KindInv
  <2> QED
    BY <1>4, <2>2, <2>3 DEF Lookup
<1>5. ASSUME NEW w \in Workers, ReadRecovery(w) PROVE KeyInv'
  <2>1. req[w].at = "read" /\ UNCHANGED <<ops, runs>>
    BY <1>5 DEF ReadRecovery, store, history
  <2> QED
    BY <1>3, <1>5, <2>1, ReadMoves DEF KeyInv
<1>6. ASSUME NEW w \in Workers, Admit(w) PROVE KeyInv'
  <2>1. req[w].at = "admit" /\ UNCHANGED <<ops, runs>>
    BY <1>6 DEF Admit, store, history
  <2>2. \A v \in Workers \ {w} : req'[v] = req[v]
    BY <1>6, AdmitMoves
  <2>3. CASE req'[w] = Idle
    BY <1>1, <2>1, <2>2, <2>3
  <2>4. CASE req[w].kind \in Actions /\ req'[w].at = "accept" /\ req'[w].id = req[w].id
             /\ req'[w].kind = req[w].kind
    BY <1>3, <2>1, <2>2, <2>4 DEF KeyInv
  <2>5. CASE req[w].kind = "apply" /\ req'[w].at = "call" /\ req'[w].id = req[w].id
             /\ req'[w].kind = req[w].kind
    BY <1>3, <2>1, <2>2, <2>5 DEF KeyInv, Actions
  <2>6. CASE req'[w].at = "accept" /\ req'[w].id \in NewId
    <3>1. /\ req'[w].id \in Ids /\ ops[req'[w].id] = "none"
          /\ \A v \in Workers : req[v].id # req'[w].id
      BY <2>6 DEF NewId, Fresh
    <3>2. \A v \in Workers : req'[v].at = "idle" => req'[v].id = NoId
      BY <2>2, <2>6 DEF KeyInv
    <3>3. \A u, v \in Workers :
            req'[u].id = req'[v].id /\ u # v /\ req'[v].id # NoId =>
                ops'[req'[v].id] # "none" /\ (req'[u].at = "lookup" \/ req'[v].at = "lookup")
      BY <2>1, <2>2, <3>1 DEF KeyInv
    <3>4. \A v \in Workers : req'[v].id # NoId =>
            /\ req'[v].at \in {"read", "admit", "accept"} => ops'[req'[v].id] = "none"
            /\ req'[v].at = "call" => ops'[req'[v].id] # "none" /\ runs'[req'[v].id] = 0
            /\ req'[v].at \in {"read", "admit"} => req'[v].kind \in Actions
      BY <2>1, <2>2, <2>6, <3>1 DEF KeyInv
    <3>5. (\A i \in Ids : runs'[i] # 0 => ops'[i] # "none") /\ OncePerKey'
      BY <2>1 DEF KeyInv, OncePerKey
    <3> QED
      BY <3>2, <3>3, <3>4, <3>5 DEF KeyInv
  <2> QED
    BY <1>6, <2>3, <2>4, <2>5, <2>6, AdmitMoves
<1>7. ASSUME NEW w \in Workers, Accept(w) PROVE KeyInv'
  <2>1. req[w].at = "accept" /\ UNCHANGED runs
    BY <1>7 DEF Accept, history
  <2>2. CASE Return(w) /\ UNCHANGED ops
    BY <1>1, <2>1, <2>2, ReturnMoves
  <2>3. CASE ops' = [ops EXCEPT ![req[w].id] = "running"] /\ Goto(w, "call")
    <3>1. /\ \A v \in Workers \ {w} : req'[v] = req[v]
          /\ req'[w].at = "call" /\ req'[w].id = req[w].id
      BY <2>3, GotoMoves DEF Labels
    <3>2. \A v \in Workers : req'[v].id = req[v].id
      BY <3>1
    <3>3. \A i \in Ids : ops'[i] = IF i = req[w].id THEN "running" ELSE ops[i]
      BY <2>3 DEF TypeOK
    <3>4. \A v \in Workers \ {w} : req[v].id # NoId => req[v].id # req[w].id
      BY <2>1 DEF KeyInv
    <3>5. \A v \in Workers : req'[v].at = "idle" => req'[v].id = NoId
      BY <3>1 DEF KeyInv
    <3>6. \A u, v \in Workers :
            req'[u].id = req'[v].id /\ u # v /\ req'[v].id # NoId =>
                ops'[req'[v].id] # "none" /\ (req'[u].at = "lookup" \/ req'[v].at = "lookup")
      <4> TAKE u, v \in Workers
      <4> HAVE req'[u].id = req'[v].id /\ u # v /\ req'[v].id # NoId
      <4>1. u # w /\ v # w
        BY <3>2, <3>4
      <4>2. req[v].id \in Ids
        BY <1>0, <3>2
      <4> QED
        BY <3>1, <3>3, <4>1, <4>2 DEF KeyInv
    <3>7. \A v \in Workers : req'[v].id # NoId =>
            /\ req'[v].at \in {"read", "admit", "accept"} => ops'[req'[v].id] = "none"
            /\ req'[v].at = "call" => ops'[req'[v].id] # "none" /\ runs'[req'[v].id] = 0
            /\ req'[v].at \in {"read", "admit"} => req'[v].kind \in Actions
      <4> TAKE v \in Workers
      <4> HAVE req'[v].id # NoId
      <4>1. req[v].id \in Ids
        BY <1>0, <3>2
      <4>2. CASE v = w
        BY <2>1, <3>1, <3>3, <4>1, <4>2 DEF KeyInv
      <4>3. CASE v # w
        BY <2>1, <3>1, <3>3, <3>4, <4>1, <4>3 DEF KeyInv
      <4> QED
        BY <4>2, <4>3
    <3>8. (\A i \in Ids : runs'[i] # 0 => ops'[i] # "none") /\ OncePerKey'
      BY <2>1, <3>3 DEF KeyInv, OncePerKey
    <3> QED
      BY <3>5, <3>6, <3>7, <3>8 DEF KeyInv
  <2> QED
    BY <1>7, <2>2, <2>3 DEF Accept, Write
<1>8. ASSUME NEW w \in Workers, Call(w) PROVE KeyInv'
  <2>1. req[w].at = "call" /\ UNCHANGED ops
    BY <1>8 DEF Call, store
  <2>2. CASE UNCHANGED runs /\ req' = [req EXCEPT ![w].reply = "lost", ![w].at = "settle"]
    BY <1>1, <2>1, <2>2, ReplyMoves DEF Replies
  <2>3. CASE /\ Goto(w, "wait")
             /\ runs' = [i \in Ids |-> IF i = req[w].id THEN runs[i] + 1 ELSE runs[i]]
    <3>1. /\ \A v \in Workers \ {w} : req'[v] = req[v]
          /\ req'[w].at = "wait" /\ req'[w].id = req[w].id
      BY <2>3, GotoMoves DEF Labels
    <3>2. \A v \in Workers : req'[v].id = req[v].id
      BY <3>1
    <3>3. \A v \in Workers \ {w} : req[v].id # NoId /\ req[v].id = req[w].id => req[v].at = "lookup"
      BY <2>1 DEF KeyInv
    <3>4. \A i \in Ids : runs'[i] = IF i = req[w].id THEN runs[i] + 1 ELSE runs[i]
      BY <2>3
    <3>5. \A v \in Workers : req'[v].at = "idle" => req'[v].id = NoId
      BY <3>1 DEF KeyInv
    <3>6. \A u, v \in Workers :
            req'[u].id = req'[v].id /\ u # v /\ req'[v].id # NoId =>
                ops'[req'[v].id] # "none" /\ (req'[u].at = "lookup" \/ req'[v].at = "lookup")
      BY <2>1, <3>1, <3>2, <3>3 DEF KeyInv
    <3>7. \A v \in Workers : req'[v].id # NoId =>
            /\ req'[v].at \in {"read", "admit", "accept"} => ops'[req'[v].id] = "none"
            /\ req'[v].at = "call" => ops'[req'[v].id] # "none" /\ runs'[req'[v].id] = 0
            /\ req'[v].at \in {"read", "admit"} => req'[v].kind \in Actions
      <4> TAKE v \in Workers
      <4> HAVE req'[v].id # NoId
      <4>1. req[v].id \in Ids
        BY <1>0, <3>2
      <4>2. CASE v # w
        BY <2>1, <3>1, <3>3, <3>4, <4>1, <4>2 DEF KeyInv
      <4> QED
        BY <3>1, <4>2
    <3>8. \A i \in Ids : i = req[w].id => runs[i] = 0 /\ ops[i] # "none"
      BY <1>0, <2>1 DEF KeyInv
    <3>9. (\A i \in Ids : runs'[i] # 0 => ops'[i] # "none") /\ OncePerKey'
      BY <2>1, <3>4, <3>8 DEF KeyInv, OncePerKey
    <3> QED
      BY <3>5, <3>6, <3>7, <3>9 DEF KeyInv
  <2> QED
    BY <1>8, <2>2, <2>3 DEF Call
<1>9. ASSUME NEW w \in Workers, Deadline(w) \/ Settle(w) \/ Update(w) \/ Note(w) \/ ReadForm(w)
                                \/ WriteForm(w) \/ EditConfig(w)
      PROVE  KeyInv'
  <2>1. UNCHANGED <<ops, runs>> /\ req[w].at # "lookup"
    BY <1>9 DEF Deadline, Settle, Update, Note, ReadForm, WriteForm, EditConfig, store, history
  <2>2. CASE Return(w) \/ Goto(w, "finish")
    BY <1>1, <2>1, <2>2, ReturnMoves, GotoMoves DEF Labels
  <2>3. CASE Deadline(w)
    BY <1>1, <2>1, <2>3, ReplyMoves DEF Deadline, Replies
  <2>4. CASE Settle(w)
    BY <1>1, <2>1, <2>4, SettleMoves
  <2>5. CASE ReadForm(w)
    BY <1>1, <2>1, <2>5, FormMoves
  <2> QED
    BY <1>9, <2>2, <2>3, <2>4, <2>5 DEF Update, Note, WriteForm, EditConfig
<1>10. ASSUME NEW w \in Workers, Finish(w) PROVE KeyInv'
  <2>1. req[w].at = "finish" /\ UNCHANGED runs /\ (UNCHANGED ops \/ ops' = [ops EXCEPT ![req[w].id] = Outcome(req[w])])
    BY <1>10 DEF Finish, Write
  <2>2. /\ \A i \in Ids : ops[i] # "none" => ops'[i] # "none"
        /\ \A i \in Ids \ {req[w].id} : ops'[i] = ops[i]
    BY <2>1 DEF TypeOK, Outcome
  <2>3. /\ \A v \in Workers \ {w} : req'[v] = req[v]
        /\ req'[w] = Idle \/ (req'[w].at = "note" /\ req'[w].id = req[w].id)
    BY <1>10, GotoMoves, ReturnMoves DEF Finish, Labels
  <2> QED
    BY <2>1, <2>2, <2>3, KeyKept, IdleTyped
<1>11. ASSUME NEW w \in Workers, Serve(w) \/ ServiceDies(w) PROVE KeyInv'
  <2>1. PICK r \in Replies : Answer(w, r)
    BY <1>11 DEF Serve, ServiceDies, Replies
  <2>2. UNCHANGED <<ops, runs>>
    BY <1>11 DEF Serve, ServiceDies, store, history
  <2>3. CASE req' = req
    BY <2>2, <2>3 DEF KeyInv, OncePerKey
  <2>4. CASE req[w].at = "wait"
    BY <1>1, <2>1, <2>2, <2>4, AnswerMoves
  <2> QED
    BY <2>1, <2>3, <2>4, AnswerMoves
<1>12. CASE ControlDies
  <2>1. UNCHANGED <<ops, runs>> /\ \A w \in Workers : req'[w].id = NoId
    BY <1>12, IdleTyped DEF ControlDies, store
  <2> QED
    BY <2>1 DEF KeyInv, OncePerKey
<1>13. CASE UNCHANGED vars
  BY <1>13 DEF vars, store, history, KeyInv, OncePerKey
<1> QED
  BY <1>2, <1>4, <1>5, <1>6, <1>7, <1>8, <1>9, <1>10, <1>11, <1>12, <1>13 DEF Next, Works

\* A repeated request: however often it comes, and whatever dies or fails in between,
\* the gateway service is asked once per idempotency key, as long as a client waits
\* for one operation of a kind before it asks for another (handleGatewayAction).
THEOREM AskedOnce ==
    ASSUME \A k \in Actions : {k} \notin Overlaps
    PROVE  Spec => []OncePerKey
<1>1. Init => KeyInv
  <2> SUFFICES ASSUME Init PROVE KeyInv
    OBVIOUS
  <2>1. \A w \in Workers : req[w].id = NoId
    BY IdleTyped DEF Init
  <2> QED
    BY <2>1 DEF Init, KeyInv, OncePerKey
<1>2. TypeOK /\ KindInv /\ KeyInv /\ [Next]_vars => KeyInv'
  BY KeyStep
<1>3. KeyInv => OncePerKey
  BY DEF KeyInv
<1> QED
  BY <1>1, <1>2, <1>3, ControlInit, TypeStep, KindStep, PTL DEF Spec

-----------------------------------------------------------------------------
(* The checklist remembers the router *)

LEMMA StageTold == \A stage \in Stages : Told(Recovery(stage)) /\ Recovery(stage).stage = stage
BY DEF Told, Recovery

\* Operations move the checklist only between the stages that ask for something.
LEMMA OperationsKeepOff ==
    ASSUME TypeOK, RouterInv, NEW w \in Workers, Settle(w) \/ Update(w) \/ Note(w)
    PROVE  Told(recovery') /\ (recovery'.stage \in Off \/ recovery' = recovery)
<1>1. \A stage \in {"confirmed", "gateway_active", "gateway_stopped"} :
          stage \in Stages /\ Told(Recovery(stage)) /\ Recovery(stage).stage \in Off
  BY StageTold DEF Stages, Off, Active
<1>2. CASE WriteChecklist("confirmed") \/ WriteChecklist(Reached(req[w].kind))
  BY <1>1, <1>2, ChecklistTyped DEF Reached, RouterInv
<1>3. CASE UNCHANGED recovery
  BY <1>3 DEF RouterInv
<1>4. CASE NotesStartFailure(req[w]) /\ recovery' = [req[w].seen EXCEPT !.required = TRUE]
  <2>1. req[w].seen = Recovery("confirmed")
    BY <1>4 DEF NotesStartFailure, RouterInv, Told
  <2>2. [Recovery("confirmed") EXCEPT !.required = TRUE] = Recovery("confirmed")
    <3>1. ("confirmed" \notin {"idle", "complete"}) = TRUE
      OBVIOUS
    <3>2. Recovery("confirmed") = [stage |-> "confirmed", required |-> TRUE]
      BY <3>1, Zenon DEF Recovery
    <3> QED
      BY <3>2
  <2> QED
    BY <1>1, <1>4, <2>1, <2>2
<1> QED
  BY <1>2, <1>3, <1>4 DEF Settle, Update, Note, Write

\* A form that has been held against the checklist closes it only after the router
\* has been restored.
LEMMA FormsClose ==
    ASSUME TypeOK, RouterInv, NEW r \in Request, r.kind \in Forms, r.wish # "none" => r.kind = "post",
           r.seen = recovery, MayMove(r), Target(r) = "complete"
    PROVE  ~routerOff
<1>1. r.kind = "post"
  BY DEF Target, Forms
<1>2. Target(r) = recovery.stage \/ AllowedRecoveryTransition(recovery.stage, Target(r))
  BY <1>1 DEF MayMove
<1>3. recovery.stage \notin Off
  BY <1>2 DEF AllowedRecoveryTransition, Off, Active
<1> QED
  BY <1>3 DEF RouterInv

LEMMA WrittenForm ==
    ASSUME TypeOK, KindInv, RouterInv, NEW w \in Workers, At(w, "write")
    PROVE  Told(Moved(req[w])) /\ Moved(req[w]).stage = Target(req[w])
<1>1. req[w].kind \in Forms /\ Target(req[w]) \in Stages
  BY FormTyped DEF KindInv
<1>2. CASE req[w].kind = "post" /\ req[w].wish = "none"
  BY <1>2 DEF Moved, Target, RouterInv
<1>3. CASE ~(req[w].kind = "post" /\ req[w].wish = "none")
  BY <1>1, <1>3, StageTold DEF Moved
<1> QED
  BY <1>2, <1>3

LEMMA RouterStep ==
    ASSUME Separate(Forms, Forms), TypeOK, KindInv, FormInv, RouterInv, [Next]_vars
    PROVE  FormInv' /\ RouterInv'
<1> USE DEF At
\* One request moves on; what is written by it are operations' stages.
<1>1. ASSUME NEW w \in Workers, \A v \in Workers \ {w} : req'[v] = req[v], UNCHANGED routerOff,
             Told(recovery'), recovery'.stage \in Off \/ recovery' = recovery,
             \/ req'[w] = Idle
             \/ /\ req'[w].kind = req[w].kind /\ Told(req'[w].seen)
                /\ req'[w].at = "write" /\ Target(req'[w]) = "complete" => ~routerOff
      PROVE  FormInv' /\ RouterInv'
  <2>1. Told(Idle.seen)
    BY IdleTyped, StageTold DEF Stages
  <2>2. req'[w].kind \in Forms => req[w].kind \in Forms
    BY <1>1, IdleTyped DEF Forms
  <2>3. \A u, v \in Workers : req'[u].kind \in Forms /\ req'[v].kind \in Forms => u = v
    BY <1>1, <2>2 DEF FormInv
  <2>4. \A v \in Workers : req'[v].at = "write" /\ Target(req'[v]) = "complete" => ~routerOff'
    BY <1>1, IdleTyped DEF FormInv
  <2>5. \A v \in Workers : Told(req'[v].seen)
    BY <1>1, <2>1 DEF RouterInv
  <2>6. routerOff' => recovery'.stage \in Off
    BY <1>1 DEF RouterInv
  <2>7. FormInv'
    BY <2>3, <2>4 DEF FormInv, Target
  <2>8. RouterInv'
    BY <1>1, <2>5, <2>6 DEF RouterInv, Told
  <2> QED
    BY <2>7, <2>8
<1>2. ASSUME NEW w \in Workers, \A v \in Workers \ {w} : req'[v] = req[v], UNCHANGED <<recovery, routerOff>>,
             \/ req'[w] = Idle
             \/ /\ req'[w].kind = req[w].kind /\ Told(req'[w].seen)
                /\ req'[w].at = "write" /\ Target(req'[w]) = "complete" => ~routerOff
      PROVE  FormInv' /\ RouterInv'
  <2>1. Told(recovery')
    BY <1>2 DEF RouterInv
  <2> QED
    BY <1>1, <1>2, <2>1
<1>3. ASSUME NEW w \in Workers, Requests(w) PROVE FormInv' /\ RouterInv'
  <2>1. /\ \A v \in Workers \ {w} : req'[v] = req[v]
        /\ UNCHANGED <<recovery, routerOff>> /\ req'[w].at \in {"lookup", "read"}
        /\ req'[w].seen = Recovery("idle")
    BY <1>3, ArrivalMoves DEF store
  <2>2. ASSUME req'[w].kind \in Forms, NEW v \in Workers \ {w}, req[v].kind \in Forms PROVE FALSE
    <3>1. req'[w].kind \notin Actions /\ req'[w].kind # "stop"
      BY <2>2 DEF Forms, Actions
    <3>2. \A k \in UnderWay(w) : {k, req'[w].kind} \in Overlaps
      BY <1>3, <3>1, ArrivalMoves
    <3>3. req[v].at # "idle"
      BY <2>2 DEF Forms, FormInv, KindInv
    <3>4. req[v].kind \in UnderWay(w)
      BY <3>3 DEF UnderWay
    <3> QED
      BY <2>2, <3>2, <3>4 DEF Separate
  <2>3. \A u, v \in Workers : req'[u].kind \in Forms /\ req'[v].kind \in Forms => u = v
    BY <2>1, <2>2 DEF FormInv
  <2>4. \A v \in Workers : req'[v].at = "write" /\ Target(req'[v]) = "complete" => ~routerOff'
    BY <2>1 DEF FormInv
  <2>5. \A v \in Workers : Told(req'[v].seen)
    BY <2>1, StageTold DEF RouterInv, Stages
  <2> QED
    BY <2>1, <2>3, <2>4, <2>5 DEF FormInv, RouterInv, Target, Told
<1>4. ASSUME NEW w \in Workers, Lookup(w) \/ Accept(w) \/ Finish(w) \/ EditConfig(w)
      PROVE  FormInv' /\ RouterInv'
  <2>1. UNCHANGED <<recovery, routerOff>>
    BY <1>4 DEF Lookup, Accept, Finish, EditConfig, store, history
  <2>2. CASE Return(w)
    BY <1>2, <2>1, <2>2, ReturnMoves
  <2>3. CASE Goto(w, "read") \/ Goto(w, "call") \/ Goto(w, "note")
    BY <1>2, <2>1, <2>3, GotoMoves DEF Labels, RouterInv
  <2> QED
    BY <1>4, <2>2, <2>3 DEF Lookup, Accept, Finish, EditConfig, Write
<1>5. ASSUME NEW w \in Workers, ReadRecovery(w) PROVE FormInv' /\ RouterInv'
  <2>1. UNCHANGED <<recovery, routerOff>>
    BY <1>5 DEF ReadRecovery, store, history
  <2>2. Told(recovery)
    BY DEF RouterInv
  <2> QED
    BY <1>2, <1>5, <2>1, <2>2, ReadMoves
<1>6. ASSUME NEW w \in Workers, Admit(w) PROVE FormInv' /\ RouterInv'
  <2>1. UNCHANGED <<recovery, routerOff>>
    BY <1>6 DEF Admit, store, history
  <2>2. Told(req[w].seen)
    BY DEF RouterInv
  <2>3. req'[w].at = "write" => req'[w] = Idle
    BY <1>6, AdmitMoves
  <2> QED
    BY <1>2, <1>6, <2>1, <2>2, <2>3, AdmitMoves
<1>7. ASSUME NEW w \in Workers, Call(w) \/ Deadline(w) PROVE FormInv' /\ RouterInv'
  <2>1. UNCHANGED <<recovery, routerOff>> /\ Told(req[w].seen)
    BY <1>7 DEF Call, Deadline, store, RouterInv
  <2>2. CASE Goto(w, "wait")
    BY <1>2, <2>1, <2>2, GotoMoves DEF Labels
  <2>3. CASE req' = [req EXCEPT ![w].reply = "lost", ![w].at = "settle"]
    BY <1>2, <2>1, <2>3, ReplyMoves DEF Replies
  <2> QED
    BY <1>7, <2>2, <2>3 DEF Call, Deadline
<1>8. ASSUME NEW w \in Workers, Settle(w) \/ Update(w) \/ Note(w) PROVE FormInv' /\ RouterInv'
  <2>1. /\ Told(recovery') /\ (recovery'.stage \in Off \/ recovery' = recovery)
        /\ UNCHANGED routerOff /\ Told(req[w].seen) /\ Told(recovery)
    BY <1>8, OperationsKeepOff DEF Settle, Update, Note, RouterInv
  <2>2. CASE Return(w)
    BY <1>1, <2>1, <2>2, ReturnMoves
  <2>3. CASE Goto(w, "finish")
    BY <1>1, <2>1, <2>3, GotoMoves DEF Labels
  <2>4. CASE Settle(w)
    BY <1>1, <2>1, <2>4, SettleMoves
  <2> QED
    BY <1>8, <2>2, <2>3, <2>4 DEF Update, Note
<1>9. ASSUME NEW w \in Workers, ReadForm(w) PROVE FormInv' /\ RouterInv'
  <2>1. UNCHANGED <<recovery, routerOff>> /\ req[w].kind \in Forms /\ Told(recovery)
    BY <1>9 DEF ReadForm, store, history, RouterInv
  <2>2. /\ \A v \in Workers \ {w} : req'[v] = req[v]
        /\ \/ req'[w] = Idle
           \/ /\ req'[w] \in Request /\ req'[w].seen = recovery /\ MayMove(req'[w])
              /\ req'[w].kind = req[w].kind
              /\ req'[w].wish # "none" => req[w].kind = "post"
    BY <1>9, FormMoves
  <2>3. CASE req'[w] # Idle
    <3>1. Target(req'[w]) = "complete" => ~routerOff
      BY <2>1, <2>2, <2>3, FormsClose DEF KindInv
    <3> QED
      BY <1>2, <2>1, <2>2, <2>3, <3>1
  <2> QED
    BY <1>2, <2>1, <2>2, <2>3
<1>10. ASSUME NEW w \in Workers, WriteForm(w) PROVE FormInv' /\ RouterInv'
  <2>1. req[w].at = "write" /\ req[w].kind \in Forms /\ Return(w)
    BY <1>10 DEF WriteForm, KindInv
  <2>2. \A v \in Workers \ {w} : req'[v] = req[v] /\ req'[w] = Idle
    BY <2>1, ReturnMoves
  <2>3. CASE UNCHANGED <<recovery, routerOff>>
    BY <1>2, <2>1, <2>3, ReturnMoves
  <2>4. CASE /\ recovery' = Moved(req[w])
             /\ routerOff' = CASE req[w].wish = "confirmed" -> TRUE
                               [] Target(req[w]) \in {"idle", "router_restored"} -> FALSE
                               [] OTHER -> routerOff
    <3>1. Told(recovery') /\ recovery'.stage = Target(req[w]) /\ Target(req[w]) \in Stages
      BY <2>1, <2>4, WrittenForm, FormTyped
    <3>2. req[w].wish = "confirmed" => Target(req[w]) = "confirmed"
      BY DEF KindInv, Target
    <3>3. Target(req[w]) = "complete" => ~routerOff
      BY <2>1 DEF FormInv
    <3>4. routerOff' => recovery'.stage \in Off
      <4>1. CASE Target(req[w]) \in {"idle", "router_restored"}
        BY <2>4, <3>2, <4>1
      <4>2. CASE Target(req[w]) = "complete"
        BY <2>4, <3>2, <3>3, <4>2
      <4>3. CASE Target(req[w]) \notin {"idle", "router_restored", "complete"}
        BY <3>1, <4>3 DEF Stages, Off, Active
      <4> QED
        BY <4>1, <4>2, <4>3
    <3>5. \A v \in Workers : req'[v].kind \in Forms => FALSE
      BY <2>1, <2>2, ReturnMoves, IdleTyped DEF FormInv, Forms
    <3>6. \A v \in Workers : req'[v].at # "write"
      BY <2>1, <3>5, ReturnMoves, IdleTyped DEF KindInv
    <3>7. \A v \in Workers : Told(req'[v].seen)
      BY <2>1, ReturnMoves, IdleTyped, StageTold DEF RouterInv, Stages
    <3> QED
      BY <3>1, <3>4, <3>5, <3>6, <3>7 DEF FormInv, RouterInv, Told
  <2> QED
    BY <1>10, <2>3, <2>4 DEF WriteForm, GivesUp
<1>11. ASSUME NEW w \in Workers, Serve(w) \/ ServiceDies(w) PROVE FormInv' /\ RouterInv'
  <2>1. PICK r \in Replies : Answer(w, r)
    BY <1>11 DEF Serve, ServiceDies, Replies
  <2>2. UNCHANGED <<recovery, routerOff>> /\ Told(req[w].seen)
    BY <1>11 DEF Serve, ServiceDies, store, history, RouterInv
  <2>3. CASE req' = req
    BY <2>2, <2>3 DEF FormInv, RouterInv, Target, Told
  <2>4. CASE req[w].at = "wait"
    BY <1>2, <2>1, <2>2, <2>4, AnswerMoves
  <2> QED
    BY <2>1, <2>3, <2>4, AnswerMoves
<1>12. CASE ControlDies
  <2>1. UNCHANGED <<recovery, routerOff>> /\ \A w \in Workers : req'[w] = Idle
    BY <1>12 DEF ControlDies, store
  <2> QED
    BY <2>1, IdleTyped, StageTold DEF FormInv, RouterInv, Told, Target, Forms, Stages
<1>13. CASE UNCHANGED vars
  BY <1>13 DEF vars, store, history, FormInv, RouterInv, Target, Told
<1> QED
  BY <1>3, <1>4, <1>5, <1>6, <1>7, <1>8, <1>9, <1>10, <1>11, <1>12, <1>13 DEF Next, Works

LEMMA RouterInit == Init => FormInv /\ RouterInv
<1> SUFFICES ASSUME Init PROVE FormInv /\ RouterInv
  OBVIOUS
<1>1. /\ \A w \in Workers : req[w] = Idle
      /\ recovery = Recovery("idle") /\ routerOff = FALSE
  BY DEF Init
<1> QED
  BY <1>1, IdleTyped, StageTold DEF FormInv, RouterInv, At, Forms, Stages

LEMMA RouterHolds == RouterInv => RouterIsRemembered
<1> SUFFICES ASSUME RouterInv, routerOff PROVE recovery.required
  BY DEF RouterIsRemembered
<1>1. recovery = Recovery(recovery.stage) /\ recovery.stage \notin {"idle", "complete"}
  BY DEF RouterInv, Told, Off, Active
<1>2. Recovery(recovery.stage).required
  BY <1>1 DEF Recovery
<1> QED
  BY <1>1, <1>2

\* The operator who has turned router DHCP off is told to turn it on again for as long
\* as it is off, whatever fails, dies or comes late, as long as the steps of the
\* checklist are sent one at a time (handleRecovery and its siblings read the checklist
\* and write it under two locks).
THEOREM RouterRemembered ==
    ASSUME Separate(Forms, Forms)
    PROVE  Spec => []RouterIsRemembered
<1>1. TypeOK /\ KindInv /\ FormInv /\ RouterInv /\ [Next]_vars => FormInv' /\ RouterInv'
  BY RouterStep
<1> QED
  BY <1>1, RouterInit, RouterHolds, ControlInit, TypeStep, KindStep, PTL DEF Spec

-----------------------------------------------------------------------------
(* A takeover starts only while router DHCP is off *)

\* The network configuration is not edited while a start is under way.
EditsApart == {"config", "start"} \notin Overlaps

LEMMA ApartStep ==
    ASSUME EditsApart, TypeOK, KindInv, ApartInv, [Next]_vars
    PROVE  ApartInv'
<1>1. ASSUME NEW w \in Workers, \A v \in Workers \ {w} : req'[v] = req[v],
             req'[w].kind \in {req[w].kind, "none"},
             \A v \in Workers : job'[v] \in {job[v], "none"}
      PROVE  ApartInv'
  BY <1>1 DEF ApartInv, Forms, Carries
<1>2. ASSUME NEW w \in Workers, Requests(w) PROVE ApartInv'
  <2>1. /\ \A v \in Workers \ {w} : req'[v] = req[v]
        /\ UNCHANGED job /\ job[w] = "none"
    BY <1>2, ArrivalMoves
  <2>2. CASE req'[w].kind = "stop"
    BY <2>1, <2>2 DEF ApartInv, Forms, Carries
  <2>3. CASE \A k \in UnderWay(w) : {k, req'[w].kind} \in Overlaps
    <3>1. \A v \in Workers \ {w} : req[v].kind # "none" => req[v].kind \in UnderWay(w)
      BY DEF UnderWay, KindInv
    <3>2. \A v \in Workers : job[v] # "none" => job[v] \in UnderWay(w)
      BY DEF UnderWay
    <3>3. ASSUME NEW k, k \in UnderWay(w)
          PROVE  /\ req'[w].kind = "config" => k # "start"
                 /\ req'[w].kind = "start" => k # "config"
      <4>1. {k, req'[w].kind} \in Overlaps /\ {k, req'[w].kind} = {req'[w].kind, k}
        BY <2>3, <3>3
      <4> QED
        BY <4>1 DEF EditsApart
    <3> QED
      BY <2>1, <3>1, <3>2, <3>3 DEF ApartInv, Forms, Carries
  <2> QED
    BY <1>2, <2>2, <2>3, ArrivalMoves
<1>3. ASSUME NEW w \in Workers, Lookup(w) \/ Accept(w) \/ Finish(w) \/ EditConfig(w) \/ Update(w)
                                \/ Note(w) \/ WriteForm(w)
      PROVE  ApartInv'
  <2>1. UNCHANGED job
    BY <1>3 DEF Lookup, Accept, Finish, EditConfig, Update, Note, WriteForm, store, history
  <2>2. CASE Return(w)
    BY <1>1, <2>1, <2>2, ReturnMoves, IdleTyped
  <2>3. CASE Goto(w, "read") \/ Goto(w, "call") \/ Goto(w, "note") \/ Goto(w, "finish")
    BY <1>1, <2>1, <2>3, GotoMoves DEF Labels
  <2> QED
    BY <1>3, <2>2, <2>3 DEF Lookup, Accept, Finish, EditConfig, Update, Note, WriteForm, Write
<1>4. ASSUME NEW w \in Workers, ReadRecovery(w) \/ Admit(w) \/ Settle(w) \/ ReadForm(w) PROVE ApartInv'
  <2>1. UNCHANGED job
    BY <1>4 DEF ReadRecovery, Admit, Settle, ReadForm, store, history
  <2> QED
    BY <1>1, <1>4, <2>1, ReadMoves, AdmitMoves, SettleMoves, FormMoves, IdleTyped
<1>5. ASSUME NEW w \in Workers, Deadline(w) PROVE ApartInv'
  BY <1>1, <1>5, ReplyMoves DEF Deadline, Replies
<1>6. ASSUME NEW w \in Workers, Call(w) PROVE ApartInv'
  <2>1. CASE UNCHANGED job /\ req' = [req EXCEPT ![w].reply = "lost", ![w].at = "settle"]
    BY <1>1, <2>1, ReplyMoves DEF Replies
  <2>2. CASE job' = [job EXCEPT ![w] = req[w].kind] /\ Goto(w, "wait")
    <3>1. \A v \in Workers : req'[v].kind = req[v].kind
      BY <2>2, GotoMoves DEF Labels
    <3>2. \A v \in Workers : job'[v] = IF v = w THEN req[w].kind ELSE job[v]
      BY <2>2 DEF TypeOK
    <3> QED
      BY <3>1, <3>2 DEF ApartInv
  <2> QED
    BY <1>6, <2>1, <2>2 DEF Call
<1>7. ASSUME NEW w \in Workers, Serve(w) \/ ServiceDies(w) PROVE ApartInv'
  <2>1. PICK r \in Replies : Answer(w, r)
    BY <1>7 DEF Serve, ServiceDies, Replies
  <2>2. \A v \in Workers : job'[v] \in {job[v], "none"}
    BY <2>1, AnswerMoves DEF TypeOK
  <2> QED
    BY <1>1, <2>1, <2>2, AnswerMoves
<1>8. CASE ControlDies
  BY <1>8, IdleTyped DEF ControlDies, ApartInv, Forms
<1>9. CASE UNCHANGED vars
  BY <1>9 DEF vars, ApartInv
<1> QED
  BY <1>2, <1>3, <1>4, <1>5, <1>6, <1>7, <1>8, <1>9 DEF Next, Works

\* A form that has been held against the checklist leaves it confirmed only if the
\* router is off already or reported so by the form.
LEMMA FormsConfirm ==
    ASSUME recovery.stage \in Confirmed => Granted, NEW r \in Request, r.kind \in Forms,
           r.seen = recovery, MayMove(r), Target(r) \in Confirmed, r.wish # "confirmed"
    PROVE  Granted
<1>1. CASE r.kind = "restored"
  BY <1>1 DEF Target, Confirmed, Active
<1>2. CASE r.kind \in {"validated", "skip"}
  BY <1>2 DEF MayMove, Confirmed, Active
<1>3. CASE r.kind = "post"
  <2>1. Target(r) = recovery.stage \/ AllowedRecoveryTransition(recovery.stage, Target(r))
    BY <1>3 DEF MayMove
  <2>2. Target(r) = "confirmed" => Target(r) = recovery.stage
    BY <1>3 DEF Target
  <2> QED
    BY <2>1, <2>2 DEF AllowedRecoveryTransition, Confirmed, Active
<1> QED
  BY <1>1, <1>2, <1>3 DEF Forms

LEMMA MovedStage ==
    ASSUME TypeOK, KindInv, NEW w \in Workers, req[w].kind \in Forms
    PROVE  Moved(req[w]).stage = Target(req[w])
<1>1. CASE req[w].kind = "post" /\ req[w].wish = "none"
  BY <1>1 DEF Moved, Target
<1>2. CASE ~(req[w].kind = "post" /\ req[w].wish = "none")
  BY <1>2 DEF Moved, Recovery
<1> QED
  BY <1>1, <1>2

LEMMA CarryStep ==
    ASSUME TypeOK, KindInv, ShapeInv, ApartInv, CarryInv, [Next]_vars
    PROVE  CarryInv'
<1>0. \A w \in Workers : Backed(req[w], takeover, Granted) /\ Shaped(req[w])
  BY DEF CarryInv, ShapeInv
\* One request moves on and is backed, and so is what it has written.
<1>1. ASSUME NEW w \in Workers, \A v \in Workers \ {w} : req'[v] = req[v],
             UNCHANGED <<takeover, Granted>>, Backed(req'[w], takeover, Granted),
             recovery' = recovery \/ (recovery'.stage \in Confirmed => Granted),
             \A v \in Workers : job'[v] = "start" /\ takeover => job[v] = "start" \/ Granted
      PROVE  CarryInv'
  <2>1. \A v \in Workers : Backed(req'[v], takeover', Granted')
    BY <1>0, <1>1 DEF Backed, Target
  <2> QED
    BY <1>1, <2>1 DEF CarryInv
<1>2. Backed(Idle, takeover, Granted)
  BY IdleTyped, Zenon DEF Backed
<1>3. ASSUME NEW w \in Workers, Requests(w) PROVE CarryInv'
  <2>1. /\ \A v \in Workers \ {w} : req'[v] = req[v]
        /\ UNCHANGED <<takeover, Granted, recovery, job>>
        /\ req'[w].at \in {"lookup", "read"} /\ ~req'[w].active
    BY <1>3, ArrivalMoves DEF store, Granted
  <2>2. Backed(req'[w], takeover, Granted)
    BY <2>1 DEF Backed
  <2> QED
    BY <1>1, <2>1, <2>2
<1>4. ASSUME NEW w \in Workers, Return(w), UNCHANGED <<takeover, Granted, job>>,
             recovery' = recovery \/ (recovery'.stage \in Confirmed => Granted)
      PROVE  CarryInv'
  BY <1>1, <1>2, <1>4, ReturnMoves
<1>5. ASSUME NEW w \in Workers, NEW l \in Labels, Goto(w, l), UNCHANGED <<takeover, Granted, job>>,
             recovery' = recovery \/ (recovery'.stage \in Confirmed => Granted),
             \/ req[w].at = "lookup" /\ l = "read"
             \/ req[w].at \notin {"idle", "lookup", "read", "admit"} /\ l \in {"call", "wait", "finish", "note"}
      PROVE  CarryInv'
  <2>1. /\ req'[w].at = l /\ req'[w].kind = req[w].kind /\ req'[w].takeover = req[w].takeover
        /\ req'[w].active = req[w].active /\ \A v \in Workers \ {w} : req'[v] = req[v]
    BY <1>5, GotoMoves
  <2>2. Backed(req[w], takeover, Granted)
    BY <1>0
  <2>3. Backed(req'[w], takeover, Granted)
    BY <1>5, <2>1, <2>2 DEF Backed
  <2> QED
    BY <1>1, <1>5, <2>1, <2>3
<1>6. ASSUME NEW w \in Workers, Lookup(w) \/ Accept(w) \/ Finish(w) PROVE CarryInv'
  <2>1. UNCHANGED <<takeover, Granted, job, recovery>> /\ req[w].at \in {"lookup", "accept", "finish"}
    BY <1>6 DEF Lookup, Accept, Finish, store, history, At, Granted
  <2>2. CASE Return(w)
    BY <1>4, <2>1, <2>2
  <2>3. CASE req[w].at = "lookup" /\ Goto(w, "read")
    BY <1>5, <2>1, <2>3 DEF Labels
  <2>4. CASE req[w].at # "lookup" /\ (Goto(w, "call") \/ Goto(w, "note"))
    BY <1>5, <2>1, <2>4 DEF Labels
  <2> QED
    BY <1>6, <2>2, <2>3, <2>4 DEF Lookup, Accept, Finish, Write, At
<1>7. ASSUME NEW w \in Workers, ReadRecovery(w) PROVE CarryInv'
  <2>1. /\ UNCHANGED <<takeover, Granted, job, recovery>>
        /\ req[w].at = "read"
    BY <1>7 DEF ReadRecovery, store, history, At, Granted
  <2>2. Backed(req'[w], takeover, Granted)
    <3>1. /\ req'[w].at = "admit" /\ req'[w].takeover = takeover /\ req'[w].seen = recovery
          /\ req'[w].active = req[w].active
      BY <1>7, ReadMoves
    <3> QED
      BY <3>1 DEF Backed, CarryInv
  <2> QED
    BY <1>1, <1>7, <2>1, <2>2, ReadMoves
<1>8. ASSUME NEW w \in Workers, Admit(w) PROVE CarryInv'
  <2>1. UNCHANGED <<takeover, Granted, job, recovery>> /\ req[w].at = "admit"
    BY <1>8 DEF Admit, store, history, At, Granted
  <2>2. req[w].active = FALSE /\ req[w].kind \in Actions \cup {"apply"}
    BY <1>0, <2>1, Typed DEF Shaped, Request, KindInv
  <2>3. CASE req'[w] # Idle
    <3>1. /\ Admitted(req[w]) /\ req'[w].at \in {"accept", "call"}
          /\ req'[w].kind = req[w].kind /\ req'[w].takeover = req[w].takeover
          /\ req'[w].active => req'[w].kind = "apply" /\ gw # "stopped"
      BY <1>8, <2>2, <2>3, AdmitMoves
    <3>2. req[w].kind = "start" /\ req[w].takeover => Granted
      <4>1. req[w].kind = "start" /\ req[w].takeover => req[w].seen.stage \in Confirmed
        BY <3>1 DEF Admitted, MayStart, Confirmed
      <4> QED
        BY <1>0, <2>1, <4>1 DEF Backed, Carries
    <3>3. req[w].kind = "reload" /\ req[w].takeover => Granted
      <4>1. req[w].kind = "reload" /\ req[w].takeover => req[w].seen.stage \in Confirmed
        BY <3>1 DEF Admitted, WhileActive, Confirmed
      <4> QED
        BY <1>0, <2>1, <4>1 DEF Backed, Carries
    <3>4. req[w].kind = "apply" /\ req[w].takeover /\ gw # "stopped" => Granted
      <4>1. req[w].kind = "apply" /\ req[w].takeover /\ gw # "stopped" => req[w].seen.stage \in Confirmed
        BY <3>1 DEF Admitted, WhileActive, Confirmed
      <4> QED
        BY <1>0, <2>1, <4>1 DEF Backed, Carries
    <3>5. req[w].kind = "start" => req[w].takeover = takeover
      BY <1>0, <2>1 DEF Backed, Carries
    <3> QED
      <4>1. Backed(req'[w], takeover, Granted)
        BY <3>1, <3>2, <3>3, <3>4, <3>5 DEF Backed, Carries
      <4> QED
        BY <1>1, <1>8, <2>1, <4>1, AdmitMoves
  <2> QED
    BY <1>1, <1>2, <1>8, <2>1, <2>3, AdmitMoves
<1>9. ASSUME NEW w \in Workers, NEW r \in Replies, UNCHANGED <<takeover, Granted, recovery>>,
             \A v \in Workers : job'[v] \in {job[v], "none"}, req[w].at \in {"call", "wait"},
             \A v \in Workers \ {w} : req'[v] = req[v], req'[w].at = "settle",
             req'[w].kind = req[w].kind /\ req'[w].takeover = req[w].takeover,
             req'[w].active = req[w].active
      PROVE  CarryInv'
  <2>1. Backed(req'[w], takeover, Granted)
    BY <1>0, <1>9 DEF Backed
  <2> QED
    BY <1>1, <1>9, <2>1
<1>10. ASSUME NEW w \in Workers, Call(w) PROVE CarryInv'
  <2>1. UNCHANGED <<takeover, Granted, recovery>> /\ req[w].at = "call"
    BY <1>10 DEF Call, store, At, Granted
  <2>2. CASE UNCHANGED job /\ req' = [req EXCEPT ![w].reply = "lost", ![w].at = "settle"]
    BY <1>9, <2>1, <2>2, ReplyMoves DEF Replies
  <2>3. CASE job' = [job EXCEPT ![w] = req[w].kind] /\ Goto(w, "wait")
    <3>1. Backed(req'[w], takeover, Granted)
      BY <1>0, <2>1, <2>3, GotoMoves DEF Backed, Labels
    <3>2. \A v \in Workers : job'[v] = IF v = w THEN req[w].kind ELSE job[v]
      BY <2>3 DEF TypeOK
    <3>3. req[w].kind = "start" /\ takeover => Granted
      BY <1>0, <2>1 DEF Backed, Carries
    <3>4. \A v \in Workers \ {w} : req'[v] = req[v]
      BY <2>3, GotoMoves DEF Labels
    <3> QED
      BY <1>1, <2>1, <3>1, <3>2, <3>3, <3>4
  <2> QED
    BY <1>10, <2>2, <2>3 DEF Call
<1>11. ASSUME NEW w \in Workers, Deadline(w) PROVE CarryInv'
  <2>1. UNCHANGED <<takeover, Granted, recovery, job>> /\ req[w].at = "wait"
    BY <1>11 DEF Deadline, store, At, Granted
  <2> QED
    BY <1>9, <1>11, <2>1, ReplyMoves DEF Deadline, Replies
<1>12. \A stage \in Stages : Recovery(stage).stage = stage
  BY StageTold
\* A failure is noted, and a success written, only where the router is off.
<1>13. ASSUME NEW w \in Workers, Settle(w) \/ Update(w) \/ Note(w) PROVE CarryInv'
  <2>1. UNCHANGED <<takeover, Granted, job>> /\ req[w].at \in {"settle", "update", "note"}
    BY <1>13 DEF Settle, Update, Note, At, Granted
  <2>2. recovery' = recovery \/ (recovery'.stage \in Confirmed => Granted)
    <3>1. CASE NotesStartFailure(req[w])
      <4>1. Granted
        BY <1>0, <2>1, <3>1 DEF NotesStartFailure, Backed, Carries
      <4> QED
        BY <4>1
    <3>2. CASE NotesReloadFailure(req[w])
      <4>1. Granted
        BY <1>0, <2>1, <3>2 DEF NotesReloadFailure, Backed, Carries
      <4> QED
        BY <4>1
    <3>3. CASE req[w].at = "update" /\ WriteChecklist(Reached(req[w].kind))
      <4>1. CASE req[w].kind = "start"
        <5>1. Granted
          BY <1>0, <3>3, <4>1 DEF Backed, Shaped, Carries
        <5> QED
          BY <5>1
      <4>2. CASE req[w].kind # "start"
        <5>1. WriteChecklist("gateway_stopped")
          BY <3>3, <4>2 DEF Reached
        <5>2. recovery' \in {recovery, Recovery("gateway_stopped")}
          BY <5>1, ChecklistTyped DEF Stages
        <5> QED
          BY <1>12, <5>2 DEF Confirmed, Active, Stages
      <4> QED
        BY <4>1, <4>2
    <3>4. CASE UNCHANGED recovery
      BY <3>4
    <3> QED
      BY <1>13, <3>1, <3>2, <3>3, <3>4 DEF Settle, Update, Note, At
  <2>3. CASE Return(w)
    BY <1>4, <2>1, <2>2, <2>3
  <2>4. CASE Goto(w, "finish")
    BY <1>5, <2>1, <2>2, <2>4 DEF Labels
  <2>5. CASE Settle(w)
    <3>1. /\ req'[w].kind = req[w].kind /\ req'[w].takeover = req[w].takeover /\ req'[w].active = req[w].active
          /\ \/ req'[w].at = "finish"
             \/ req'[w].at = "update" /\ req[w].takeover /\ req[w].kind \in {"start", "stop"}
      BY <2>5, SettleMoves
    <3>2. req[w].at = "settle"
      BY <2>5 DEF Settle, At
    <3>3. Backed(req'[w], takeover, Granted)
      BY <1>0, <3>1, <3>2 DEF Backed
    <3> QED
      BY <1>1, <2>1, <2>2, <2>5, <3>3, SettleMoves
  <2> QED
    BY <1>13, <2>3, <2>4, <2>5 DEF Update, Note
<1>14. ASSUME NEW w \in Workers, ReadForm(w) PROVE CarryInv'
  <2>1. UNCHANGED <<takeover, Granted, recovery, job>> /\ req[w].kind \in Forms /\ req[w].at = "read"
    BY <1>14 DEF ReadForm, store, history, At, Granted
  <2>2. CASE req'[w] # Idle
    <3>1. /\ req'[w] \in Request /\ req'[w].kind = req[w].kind /\ req'[w].at = "write"
          /\ req'[w].seen = recovery /\ MayMove(req'[w]) /\ req'[w].active = req[w].active
      BY <1>14, <2>2, FormMoves
    <3>2. Target(req'[w]) \in Confirmed /\ req'[w].wish # "confirmed" => Granted
      BY <2>1, <3>1, FormsConfirm DEF CarryInv
    <3>4. Backed(req'[w], takeover, Granted)
      BY <2>1, <3>1, <3>2 DEF Backed, Forms, Carries
    <3> QED
      BY <1>1, <1>14, <2>1, <3>4, FormMoves
  <2> QED
    BY <1>1, <1>2, <1>14, <2>1, <2>2, FormMoves
\* Where a form takes the confirmation back, nothing else that has read it is under way,
\* or the form remembers that something is.
<1>15. ASSUME NEW w \in Workers, WriteForm(w) PROVE CarryInv'
  <2>1. UNCHANGED <<takeover, job>> /\ req[w].kind \in Forms /\ req[w].at = "write" /\ Return(w)
    BY <1>15 DEF WriteForm, KindInv, At
  <2>2. CASE UNCHANGED <<recovery, Granted>>
    BY <1>4, <2>1, <2>2
  <2>3. \A v \in Workers : req'[v] = req[v] \/ req'[v] = Idle
    BY <2>1, ReturnMoves
  <2>4. CASE recovery' = Moved(req[w]) /\ req[w].wish = "confirmed" /\ Granted'
    BY <1>0, <1>2, <2>1, <2>3, <2>4 DEF CarryInv, Backed
  <2>5. CASE /\ recovery' = Moved(req[w]) /\ req[w].wish # "confirmed" /\ ~GivesUp(req[w])
             /\ Granted' = Granted
    <3>1. recovery'.stage = Target(req[w])
      BY <2>1, <2>5, MovedStage
    <3>2. Target(req[w]) \in Confirmed => Granted
      BY <1>0, <2>1, <2>5 DEF Backed
    <3> QED
      BY <1>4, <2>1, <2>5, <3>1, <3>2
  <2>6. CASE recovery' = Moved(req[w]) /\ GivesUp(req[w]) /\ UnderWay(w) \cap Recalling # {} /\ Granted'
    BY <1>0, <1>2, <2>1, <2>3, <2>6 DEF CarryInv, Backed
  <2>7. CASE recovery' = Moved(req[w]) /\ GivesUp(req[w]) /\ UnderWay(w) \cap Recalling = {}
    <3>1. recovery'.stage = Target(req[w]) /\ Target(req[w]) \notin Confirmed
      BY <2>1, <2>7, MovedStage DEF GivesUp, Confirmed, Active
    <3>2. \A v \in Workers \ {w} : req[v].kind # "none" => req[v].kind \in UnderWay(w)
      BY DEF UnderWay, KindInv
    <3>3. \A v \in Workers : job[v] # "none" => job[v] \in UnderWay(w)
      BY DEF UnderWay
    <3>4. \A v \in Workers : req'[v].kind \notin Carries \cup Forms /\ job'[v] # "start"
      BY <2>1, <2>7, <3>2, <3>3, ReturnMoves, IdleTyped DEF Recalling, Carries, Forms
    <3>5. \A v \in Workers : req'[v].at = "write" => req'[v].kind \in Forms
      BY <2>1, ReturnMoves, IdleTyped DEF KindInv, At
    <3>6. \A v \in Workers : Backed(req'[v], takeover', Granted')
      BY <3>4, <3>5 DEF Backed
    <3> QED
      BY <3>1, <3>4, <3>6 DEF CarryInv
  <2>8. \/ UNCHANGED <<recovery, Granted>>
        \/ /\ recovery' = Moved(req[w])
           /\ \/ req[w].wish = "confirmed" /\ Granted'
              \/ req[w].wish # "confirmed" /\ ~GivesUp(req[w]) /\ Granted' = Granted
              \/ GivesUp(req[w]) /\ UnderWay(w) \cap Recalling # {} /\ Granted'
              \/ GivesUp(req[w]) /\ UnderWay(w) \cap Recalling = {}
    <3>1. CASE UNCHANGED <<recovery, routerOff, withdrawn>>
      BY <3>1 DEF Granted
    <3>2. CASE req[w].wish = "confirmed" /\ recovery' = Moved(req[w]) /\ routerOff'
      BY <3>2 DEF Granted
    <3>3. CASE /\ req[w].wish # "confirmed" /\ ~GivesUp(req[w]) /\ recovery' = Moved(req[w])
               /\ UNCHANGED <<routerOff, withdrawn>>
      BY <3>3 DEF Granted
    <3>4. CASE /\ req[w].wish # "confirmed" /\ GivesUp(req[w]) /\ recovery' = Moved(req[w])
               /\ withdrawn' = (withdrawn \/ UnderWay(w) \cap Recalling # {})
      BY <3>4 DEF Granted
    <3> QED
      <4> DEFINE given == req[w].wish = "confirmed"
                 up    == GivesUp(req[w])
                 late  == UnderWay(w) \cap Recalling # {}
      <4>1. \/ UNCHANGED <<recovery, routerOff, withdrawn>>
            \/ /\ recovery' = Moved(req[w])
               /\ routerOff' = CASE given -> TRUE [] up -> FALSE [] OTHER -> routerOff
               /\ withdrawn' = CASE given -> FALSE [] up -> withdrawn \/ late [] OTHER -> withdrawn
        BY <1>15 DEF WriteForm
      <4>0. given => ~up
        BY DEF KindInv, GivesUp, Target
      <4> HIDE DEF given, up, late
      <4>2. \/ UNCHANGED <<recovery, routerOff, withdrawn>>
            \/ /\ recovery' = Moved(req[w])
               /\ \/ given /\ routerOff'
                  \/ ~given /\ ~up /\ UNCHANGED <<routerOff, withdrawn>>
                  \/ ~given /\ up /\ withdrawn' = (withdrawn \/ late)
        <5>1. CASE given
          BY <4>0, <4>1, <5>1
        <5>2. CASE ~given /\ up
          BY <4>1, <5>2
        <5>3. CASE ~given /\ ~up
          BY <4>1, <5>3
        <5> QED
          BY <5>1, <5>2, <5>3
      <4> QED
        BY <3>1, <3>2, <3>3, <3>4, <4>2 DEF given, up, late
  <2> QED
    BY <2>2, <2>4, <2>5, <2>6, <2>7, <2>8
\* The network configuration is edited while no start is under way.
<1>16. ASSUME NEW w \in Workers, EditConfig(w) PROVE CarryInv'
  <2>1. /\ UNCHANGED <<recovery, Granted, job>> /\ Return(w) /\ req[w].kind = "config"
    BY <1>16 DEF EditConfig, store, history, Granted
  <2>2. \A v \in Workers : req'[v].kind # "start" /\ job'[v] # "start"
    BY <2>1, ReturnMoves, IdleTyped DEF ApartInv
  <2>3. \A v \in Workers : req'[v] = req[v] \/ req'[v] = Idle
    BY <2>1, ReturnMoves
  <2>4. \A v \in Workers : Backed(req'[v], takeover, Granted)
    BY <1>0, <1>2, <2>3
  <2>5. \A v \in Workers : Backed(req'[v], takeover', Granted')
    BY <2>1, <2>2, <2>4 DEF Backed, Target
  <2> QED
    BY <2>1, <2>2, <2>5 DEF CarryInv
<1>17. ASSUME NEW w \in Workers, Serve(w) \/ ServiceDies(w) PROVE CarryInv'
  <2>1. PICK r \in Replies : Answer(w, r)
    BY <1>17 DEF Serve, ServiceDies, Replies
  <2>2. UNCHANGED <<takeover, Granted, recovery>>
    BY <1>17 DEF Serve, ServiceDies, store, history, Granted
  <2>3. \A v \in Workers : job'[v] \in {job[v], "none"}
    BY <2>1, AnswerMoves DEF TypeOK
  <2>4. CASE req' = req
    <3>1. Backed(req'[w], takeover, Granted)
      BY <1>0, <2>4
    <3> QED
      BY <1>1, <2>2, <2>3, <2>4, <3>1
  <2>5. CASE req[w].at = "wait" /\ req' # req
    BY <1>9, <2>1, <2>2, <2>3, <2>5, AnswerMoves DEF At
  <2> QED
    BY <2>1, <2>4, <2>5, AnswerMoves DEF At
<1>18. CASE ControlDies
  <2>1. UNCHANGED <<takeover, Granted, recovery, job>> /\ \A w \in Workers : req'[w] = Idle
    BY <1>18 DEF ControlDies, store, Granted
  <2>2. \A v \in Workers : Backed(req'[v], takeover, Granted)
    BY <1>2, <2>1
  <2>3. \A v \in Workers : Backed(req'[v], takeover', Granted')
    BY <2>1, <2>2 DEF Backed, Target
  <2> QED
    BY <2>1, <2>3 DEF CarryInv
<1>19. CASE UNCHANGED vars
  <2>1. UNCHANGED <<takeover, Granted, recovery, job, req>>
    BY <1>19 DEF vars, store, history, Granted
  <2> QED
    BY <2>1 DEF CarryInv, Backed, Target
<1> QED
  BY <1>3, <1>6, <1>7, <1>8, <1>10, <1>11, <1>13, <1>14, <1>15, <1>16, <1>17, <1>18, <1>19 DEF Next, Works

\* Only a start brings a stopped gateway up.
LEMMA OnlyStartsStart ==
    ASSUME TypeOK, CarryInv, [Next]_vars, takeover, gw = "stopped", gw' = "active"
    PROVE  Granted
<1>1. PICK w \in Workers : Serve(w) \/ ServiceDies(w)
  <2>1. CASE \E w \in Workers : Requests(w)
    <3>1. UNCHANGED gw
      BY <2>1, ArrivalMoves
    <3> QED
      BY <3>1
  <2>2. CASE \E w \in Workers : Works(w)
    <3>1. UNCHANGED gw
      BY <2>2 DEF Works, Lookup, ReadRecovery, Admit, Accept, Call, Deadline, Settle, Update, Finish, Note,
                  ReadForm, WriteForm, EditConfig
    <3> QED
      BY <3>1
  <2> QED
    BY <2>1, <2>2 DEF Next, ControlDies, vars
<1>2. job[w] = "start"
  <2>1. CASE Serve(w)
    BY <2>1 DEF Serve, Performs, Reloads, Applies
  <2>2. CASE ServiceDies(w)
    BY <2>2 DEF ServiceDies, Halfway
  <2> QED
    BY <1>1, <2>1, <2>2
<1> QED
  BY <1>2 DEF CarryInv

\* A takeover of DHCP begins only while router DHCP is reported off - also when the start
\* comes late, overlaps with other operations and with the forms of the checklist, the
\* control API has died over it, or an operation before it has failed - or the operator has
\* taken the report back too late for a request that had read it.  Only the network
\* configuration is left alone during a start (handleGatewayAction reads both once).
THEOREM TakeoverConfirmed ==
    ASSUME EditsApart
    PROVE  Spec => TakeoverIsConfirmed
<1>1. Init => ApartInv /\ CarryInv
  <2> SUFFICES ASSUME Init PROVE ApartInv /\ CarryInv
    OBVIOUS
  <2>1. /\ \A w \in Workers : req[w] = Idle /\ job[w] = "none"
        /\ recovery = Recovery("idle")
    BY DEF Init
  <2>2. ApartInv
    BY <2>1, IdleTyped DEF ApartInv
  <2>3. Backed(Idle, takeover, Granted)
    BY IdleTyped, Zenon DEF Backed
  <2>4. recovery.stage \notin Confirmed
    BY <2>1, StageTold DEF Confirmed, Active, Stages
  <2> QED
    BY <2>1, <2>2, <2>3, <2>4 DEF CarryInv
<1>2. TypeOK /\ KindInv /\ ApartInv /\ [Next]_vars => ApartInv'
  BY ApartStep
<1>3. TypeOK /\ KindInv /\ ShapeInv /\ ApartInv /\ CarryInv /\ [Next]_vars => CarryInv'
  BY CarryStep
<1>4. TypeOK /\ CarryInv /\ [Next]_vars
      => [takeover /\ gw = "stopped" /\ gw' = "active" => routerOff \/ withdrawn]_vars
  BY OnlyStartsStart DEF Granted
<1> QED
  BY <1>1, <1>2, <1>3, <1>4, ControlInit, TypeStep, KindStep, ShapeStep, PTL
   DEF Spec, TakeoverIsConfirmed

-----------------------------------------------------------------------------
(* The checklist does not call a stopped gateway active *)

\* A request that is on its way is alone with repetitions that find their answer.
LEMMA Alone ==
    ASSUME CalmInv, NEW w \in Workers, ~At(w, "idle"), ~Echo(w), NEW v \in Workers \ {w}
    PROVE  At(v, "idle") \/ Echo(v)
BY DEF CalmInv

\* Until the request has come to its end nothing but itself may owe the checklist.
LEMMA NobodyElseOwes ==
    ASSUME CalmInv, NEW w \in Workers, ~At(w, "idle"), ~Echo(w), ~Owes(req[w])
    PROVE  recovery.stage \in Active => takeover /\ gw # "stopped"
<1>1. \A v \in Workers \ {w} : ~Owes(req[v])
  BY Alone DEF Owes, At, Echo
<1> QED
  BY <1>1 DEF CalmInv

\* One request has moved on, and what it has left is right.
LEMMA CalmKept ==
    ASSUME TypeOK, CalmInv, NEW w \in Workers, ~At(w, "idle"), ~Echo(w),
           \A v \in Workers \ {w} : req'[v] = req[v] /\ (job'[v] = job[v] \/ job'[v] = "none"),
           \A i \in Ids : ops[i] # "none" => ops'[i] # "none",
           job'[w] # "none" => req'[w].at = "wait" /\ req'[w].kind = job'[w],
           Current(req'[w], recovery', takeover', gw'),
           recovery'.stage \in Active => takeover' /\ (gw' # "stopped" \/ Owes(req'[w]))
    PROVE  CalmInv'
<1> USE DEF At
<1>1. \A v \in Workers \ {w} : req'[v] = req[v] /\ (At(v, "idle") \/ Echo(v))
  BY Alone
<1>2. \A v \in Workers \ {w} : req'[v].at = "idle" \/ Echo(v)'
  <2> TAKE v \in Workers \ {w}
  <2>1. CASE Echo(v)
    <3>1. req[v].at = "lookup" /\ req[v].id # NoId /\ ops[req[v].id] # "none"
      BY <2>1 DEF Echo, Repeated
    <3>2. req[v].id \in Ids
      BY <3>1, Typed DEF Request
    <3>3. req'[v].at = "lookup" /\ req'[v].id # NoId /\ ops'[req'[v].id] # "none"
      BY <1>1, <3>1, <3>2
    <3> QED
      BY <3>3 DEF Echo, Repeated
  <2> QED
    BY <1>1, <2>1
<1>3. \A u, v \in Workers : u # v => req'[u].at = "idle" \/ req'[v].at = "idle" \/ Echo(u)' \/ Echo(v)'
  BY <1>2
<1>4. \A v \in Workers : job'[v] # "none" => req'[v].at = "wait" /\ req'[v].kind = job'[v]
  BY DEF CalmInv
<1>5. \A v \in Workers : Current(req'[v], recovery', takeover', gw')
  <2>1. \A v \in Workers \ {w} : req'[v].at \in {"idle", "lookup"}
    BY <1>1 DEF Echo
  <2> QED
    BY <2>1 DEF Current
<1>6. recovery'.stage \in Active => takeover' /\ (gw' # "stopped" \/ \E v \in Workers : Owes(req'[v]))
  OBVIOUS
<1> QED
  BY <1>3, <1>4, <1>5, <1>6 DEF CalmInv

LEMMA CalmArrival ==
    ASSUME TypeOK, CalmInv, NEW w \in Workers, Requests(w), ~doubt'
    PROVE  CalmInv'
<1> USE DEF At
<1>1. /\ req[w].at = "idle" /\ job[w] = "none" /\ req' \in [Workers -> Request]
      /\ \A v \in Workers \ {w} : req'[v] = req[v]
      /\ UNCHANGED <<gw, takeover, recovery, ops, job>>
      /\ req'[w].at \in {"lookup", "read"}
  BY ArrivalMoves DEF store
<1>2. \A v \in Workers \ {w} : Echo(v)' <=> Echo(v)
  BY <1>1 DEF Echo, Repeated
<1>3. \A u, v \in Workers : u # v => req'[u].at = "idle" \/ req'[v].at = "idle" \/ Echo(u)' \/ Echo(v)'
  <2>1. CASE Repeated(req'[w].id) /\ req'[w].kind = "stop"
    <3>1. req'[w].at = "lookup"
      BY <2>1, ArrivalMoves DEF Actions
    <3>2. Echo(w)'
      BY <1>1, <2>1, <3>1 DEF Echo, Repeated
    <3> QED
      BY <1>1, <1>2, <3>2 DEF CalmInv
  <2>2. CASE doubt' = (doubt \/ UnderWay(w) # {})
    <3>1. UnderWay(w) = {}
      BY <2>2
    <3>2. \A v \in Workers \ {w} : req[v].at = "idle"
      BY <3>1 DEF UnderWay
    <3> QED
      BY <1>1, <3>2
  <2> QED
    BY <2>1, <2>2, ArrivalMoves
<1>4. \A v \in Workers : job'[v] # "none" => req'[v].at = "wait" /\ req'[v].kind = job'[v]
  BY <1>1 DEF CalmInv
<1>5. \A v \in Workers : Current(req'[v], recovery', takeover', gw')
  <2>1. \A v \in Workers \ {w} : Current(req'[v], recovery', takeover', gw')
    BY <1>1 DEF CalmInv
  <2>2. Current(req'[w], recovery', takeover', gw')
    BY <1>1 DEF Current
  <2> QED
    BY <2>1, <2>2
<1>6. recovery'.stage \in Active => takeover' /\ (gw' # "stopped" \/ \E v \in Workers : Owes(req'[v]))
  <2>1. ~Owes(req[w])
    BY <1>1 DEF Owes
  <2> QED
    BY <1>1, <2>1 DEF CalmInv
<1> QED
  BY <1>3, <1>4, <1>5, <1>6 DEF CalmInv

LEMMA CalmStep ==
    ASSUME TypeOK, KindInv, ShapeInv, CalmInv, [Next]_vars, ~doubt'
    PROVE  CalmInv'
<1> USE DEF At
<1>0. \A w \in Workers : Current(req[w], recovery, takeover, gw) /\ Shaped(req[w]) /\ req[w] \in Request
  BY Typed DEF CalmInv, ShapeInv
<1>1. ASSUME NEW w \in Workers, Requests(w) PROVE CalmInv'
  BY <1>1, CalmArrival
\* The end of a request that owes nothing.
<1>2. ASSUME NEW w \in Workers, req'[w] = Idle, \A v \in Workers \ {w} : req'[v] = req[v],
             req[w].at # "idle", ~Echo(w), ~Owes(req[w]), UNCHANGED <<gw, job>>,
             job[w] = "none", \A i \in Ids : ops[i] # "none" => ops'[i] # "none",
             UNCHANGED takeover \/ gw = "stopped", UNCHANGED recovery \/ recovery'.stage \notin Active
      PROVE  CalmInv'
  <2>1. Current(Idle, recovery', takeover', gw')
    BY IdleTyped DEF Current
  <2>2. recovery.stage \in Active => takeover /\ gw # "stopped"
    BY <1>2, NobodyElseOwes
  <2>3. recovery'.stage \in Active => takeover' /\ gw' # "stopped"
    BY <1>2, <2>2
  <2> QED
    BY <1>2, <2>1, <2>3, CalmKept, IdleTyped
\* A step of a request that has read nothing since and owes nothing.
<1>3. ASSUME NEW w \in Workers, NEW l \in Labels, Goto(w, l), ~Echo(w), ~Owes(req[w]), UNCHANGED <<gw, takeover, recovery>>,
             \A i \in Ids : ops[i] # "none" => ops'[i] # "none",
             \/ req[w].at = "lookup" /\ l = "read" /\ UNCHANGED job
             \/ req[w].at = "accept" /\ l = "call" /\ UNCHANGED job
             \/ req[w].at = "call" /\ l = "wait" /\ job' = [job EXCEPT ![w] = req[w].kind]
      PROVE  CalmInv'
  <2>1. /\ \A v \in Workers \ {w} : req'[v] = req[v]
        /\ req'[w].at = l /\ req'[w].kind = req[w].kind /\ req'[w].takeover = req[w].takeover
        /\ req'[w].active = req[w].active /\ req'[w].reply = req[w].reply
    BY <1>3, GotoMoves
  <2>2. Current(req'[w], recovery', takeover', gw')
    BY <1>0, <1>3, <2>1 DEF Current
  <2>3. recovery'.stage \in Active => takeover' /\ gw' # "stopped"
    BY <1>3, NobodyElseOwes
  <2>4. \A v \in Workers : job'[v] = job[v] \/ (v = w /\ job'[w] = req'[w].kind /\ req'[w].at = "wait")
    BY <1>3, <2>1 DEF TypeOK
  <2>5. job'[w] # "none" => req'[w].at = "wait" /\ req'[w].kind = job'[w]
    BY <1>3, <2>4 DEF CalmInv
  <2> QED
    BY <1>3, <2>1, <2>2, <2>3, <2>4, <2>5, CalmKept
<1>4. ASSUME NEW w \in Workers, Lookup(w) PROVE CalmInv'
  <2>1. req[w].at = "lookup" /\ UNCHANGED <<gw, takeover, recovery, ops, job>>
    BY <1>4 DEF Lookup, store
  <2>2. ~Owes(req[w]) /\ job[w] = "none"
    BY <2>1 DEF Owes, CalmInv
  <2>3. CASE Echo(w)
    <3>1. Return(w)
      BY <1>4, <2>3 DEF Lookup, Echo, Repeated
    <3>2. /\ req'[w] = Idle /\ \A v \in Workers \ {w} : req'[v] = req[v]
      BY <3>1, ReturnMoves
    <3>3. \A v \in Workers \ {w} : Echo(v)' <=> Echo(v)
      BY <2>1, <3>2 DEF Echo, Repeated
    <3>4. \A u, v \in Workers : u # v => req'[u].at = "idle" \/ req'[v].at = "idle" \/ Echo(u)' \/ Echo(v)'
      BY <3>2, <3>3, IdleTyped DEF CalmInv
    <3>5. \A v \in Workers : job'[v] # "none" => req'[v].at = "wait" /\ req'[v].kind = job'[v]
      BY <2>1, <2>2, <3>2 DEF CalmInv
    <3>6. Current(Idle, recovery', takeover', gw')
      BY IdleTyped DEF Current
    <3>7. \A v \in Workers : Current(req'[v], recovery', takeover', gw')
      BY <1>0, <2>1, <3>2, <3>6
    <3>8. recovery'.stage \in Active => takeover' /\ (gw' # "stopped" \/ \E v \in Workers : Owes(req'[v]))
      BY <2>1, <2>2, <3>2 DEF CalmInv
    <3> QED
      BY <3>4, <3>5, <3>7, <3>8 DEF CalmInv
  <2>4. CASE ~Echo(w) /\ Return(w)
    BY <1>2, <2>1, <2>2, <2>4, ReturnMoves
  <2>5. CASE ~Echo(w) /\ Goto(w, "read")
    BY <1>3, <2>1, <2>2, <2>5 DEF Labels
  <2> QED
    BY <1>4, <2>3, <2>4, <2>5 DEF Lookup
<1>5. ASSUME NEW w \in Workers, req[w].at \notin {"idle", "lookup", "wait"}
      PROVE  ~Echo(w) /\ job[w] = "none"
  BY <1>5 DEF Echo, CalmInv
<1>6. ASSUME NEW w \in Workers, ReadRecovery(w) PROVE CalmInv'
  <2>1. req[w].at = "read" /\ UNCHANGED <<gw, takeover, recovery, ops, job>>
    BY <1>6 DEF ReadRecovery, store
  <2>2. /\ \A v \in Workers \ {w} : req'[v] = req[v]
        /\ req'[w].at = "admit" /\ req'[w].takeover = takeover /\ req'[w].reply = req[w].reply
    BY <1>6, ReadMoves
  <2>3. ~Owes(req[w]) /\ req[w].reply = "none"
    BY <1>0, <2>1 DEF Owes, Shaped
  <2>4. Current(req'[w], recovery', takeover', gw')
    BY <2>1, <2>2, <2>3 DEF Current
  <2>5. recovery'.stage \in Active => takeover' /\ gw' # "stopped"
    BY <1>5, <2>1, <2>3, NobodyElseOwes
  <2> QED
    BY <1>5, <2>1, <2>2, <2>4, <2>5, CalmKept
<1>7. ASSUME NEW w \in Workers, Admit(w) PROVE CalmInv'
  <2>1. req[w].at = "admit" /\ UNCHANGED <<gw, takeover, recovery, ops, job>>
    BY <1>7 DEF Admit, store
  <2>2. ~Owes(req[w]) /\ req[w].reply = "none" /\ ~req[w].active
    BY <1>0, <2>1 DEF Owes, Shaped
  <2>4. CASE req'[w] # Idle
    <3>1. /\ req'[w].at \in {"accept", "call"} /\ req'[w].takeover = req[w].takeover
          /\ req'[w].reply = req[w].reply /\ req'[w].kind = req[w].kind
          /\ req'[w].at = "call" => gw = "stopped" /\ req'[w].active = req[w].active
          /\ req'[w].at = "accept" /\ req[w].kind = "apply" => gw # "stopped" /\ req'[w].active
      BY <1>7, <2>4, AdmitMoves DEF Actions
    <3>2. Current(req'[w], recovery', takeover', gw')
      BY <1>0, <2>1, <2>2, <3>1 DEF Current
    <3>3. recovery'.stage \in Active => takeover' /\ gw' # "stopped"
      BY <1>5, <2>1, <2>2, NobodyElseOwes
    <3> QED
      BY <1>5, <1>7, <2>1, <3>2, <3>3, CalmKept, AdmitMoves
  <2>5. CASE req'[w] = Idle
    BY <1>2, <1>5, <1>7, <2>1, <2>2, <2>5, AdmitMoves
  <2> QED
    BY <2>4, <2>5
<1>8. ASSUME NEW w \in Workers, Accept(w) PROVE CalmInv'
  <2>1. /\ req[w].at = "accept" /\ UNCHANGED <<gw, takeover, recovery, job>>
        /\ \A i \in Ids : ops[i] # "none" => ops'[i] # "none"
    BY <1>8 DEF Accept, Write, TypeOK
  <2>2. ~Owes(req[w])
    BY <2>1 DEF Owes
  <2>3. CASE Return(w)
    BY <1>2, <1>5, <2>1, <2>2, <2>3, ReturnMoves
  <2>4. CASE Goto(w, "call")
    BY <1>3, <1>5, <2>1, <2>2, <2>4 DEF Labels
  <2> QED
    BY <1>8, <2>3, <2>4 DEF Accept, Write
<1>9. ASSUME NEW w \in Workers, Call(w) PROVE CalmInv'
  <2>1. /\ req[w].at = "call" /\ UNCHANGED <<gw, takeover, recovery, ops>>
    BY <1>9 DEF Call, store
  <2>2. ~Owes(req[w])
    BY <2>1 DEF Owes
  <2>3. CASE Goto(w, "wait") /\ job' = [job EXCEPT ![w] = req[w].kind]
    BY <1>3, <1>5, <2>1, <2>2, <2>3 DEF Labels
  <2>4. CASE UNCHANGED job /\ req' = [req EXCEPT ![w].reply = "lost", ![w].at = "settle"]
    <3>1. /\ \A v \in Workers \ {w} : req'[v] = req[v]
          /\ req'[w].at = "settle" /\ req'[w].reply = "lost" /\ req'[w].takeover = req[w].takeover
      BY <2>4, ReplyMoves DEF Replies
    <3>2. Current(req'[w], recovery', takeover', gw')
      BY <1>0, <2>1, <3>1 DEF Current
    <3>3. recovery'.stage \in Active => takeover' /\ gw' # "stopped"
      BY <1>5, <2>1, <2>2, NobodyElseOwes
    <3> QED
      BY <1>5, <2>1, <2>4, <3>1, <3>2, <3>3, CalmKept
  <2> QED
    BY <1>9, <2>3, <2>4 DEF Call
<1>10. ASSUME NEW w \in Workers, Deadline(w) PROVE CalmInv'
  BY <1>10 DEF Deadline
\* What a request that has its answer may owe, and the write that pays it.
<1>11. ASSUME NEW w \in Workers, req[w].at \in {"settle", "update", "finish", "note"}
       PROVE  /\ recovery.stage \in Active => takeover /\ (gw # "stopped" \/ Owes(req[w]))
              /\ req[w].takeover = takeover
  <2>1. \A v \in Workers \ {w} : ~Owes(req[v])
    BY <1>5, <1>11, Alone DEF Owes, Echo
  <2> QED
    BY <1>0, <1>11, <2>1 DEF CalmInv, Current
<1>12. \A stage \in Stages : WriteChecklist(stage) => recovery' = Recovery(stage) /\ recovery'.stage = stage
  BY ChecklistTyped, StageTold
<1>13. ASSUME NEW w \in Workers, Settle(w) PROVE CalmInv'
  <2>1. req[w].at = "settle" /\ UNCHANGED <<gw, takeover, ops, job>>
    BY <1>13 DEF Settle
  <2>2. /\ \A v \in Workers \ {w} : req'[v] = req[v]
        /\ req'[w].kind = req[w].kind /\ req'[w].takeover = req[w].takeover /\ req'[w].active = req[w].active
        /\ req'[w].reply = req[w].reply
        /\ \/ req'[w].at = "finish"
           \/ req'[w].at = "update" /\ ~Failed(req[w]) /\ req[w].kind \in {"start", "stop"}
    BY <1>13, SettleMoves
  <2>6. req'[w].at = "update" => req[w].reply = "done"
    BY <1>0, <2>1, <2>2 DEF Current, Failed
  <2>3. Current(req'[w], recovery', takeover', gw')
    BY <1>0, <2>1, <2>2, <2>6 DEF Current
  <2>4. recovery'.stage \in Active => takeover' /\ (gw' # "stopped" \/ Owes(req'[w]))
    <3>1. CASE Failed(req[w]) /\ NotesStartFailure(req[w]) /\ recovery' = [req[w].seen EXCEPT !.required = TRUE]
      <4>1. recovery'.stage = "confirmed"
        BY <1>0, <3>1 DEF NotesStartFailure, Request
      <4> QED
        BY <4>1 DEF Active
    <3>2. CASE WriteChecklist("confirmed")
      BY <1>12, <3>2 DEF Active, Stages
    <3>3. CASE UNCHANGED recovery /\ ~Owes(req[w])
      BY <1>11, <2>1, <3>3
    <3>4. CASE UNCHANGED recovery /\ Owes(req[w]) /\ req[w].kind = "stop"
      <4>1. ~Failed(req[w]) /\ req[w].takeover
        BY <3>4 DEF Owes, Failed
      <4>2. req'[w].at = "update"
        BY <1>13, <3>4, <4>1, Typed, GotoMoves DEF Settle, Request, Labels
      <4>3. Owes(req'[w])
        BY <2>2, <3>4, <4>2 DEF Owes
      <4> QED
        BY <1>11, <2>1, <3>4, <4>3
    <3>5. CASE UNCHANGED recovery /\ Owes(req[w]) /\ req[w].kind = "apply"
      <4>1. req'[w].at = "finish"
        BY <2>2, <3>5 DEF Owes, Failed
      <4>2. Owes(req'[w])
        BY <2>2, <3>5, <4>1 DEF Owes
      <4> QED
        BY <1>11, <2>1, <3>5, <4>2
    <3>6. CASE Owes(req[w]) /\ req[w].kind = "reload"
      <4>1. Failed(req[w]) /\ NotesReloadFailure(req[w]) /\ ~NotesStartFailure(req[w])
        BY <2>1, <3>6 DEF Owes, Failed, NotesReloadFailure, NotesStartFailure
      <4>2. WriteChecklist("confirmed")
        BY <1>13, <3>6, <4>1 DEF Settle
      <4> QED
        BY <3>2, <4>2
    <3>7. Owes(req[w]) => req[w].kind \in {"stop", "apply", "reload"}
      BY DEF Owes
    <3>8. \/ Failed(req[w]) /\ NotesStartFailure(req[w]) /\ recovery' = [req[w].seen EXCEPT !.required = TRUE]
          \/ WriteChecklist("confirmed") \/ UNCHANGED recovery
      BY <1>13 DEF Settle, Write
    <3> QED
      BY <3>1, <3>2, <3>3, <3>4, <3>5, <3>6, <3>7, <3>8
  <2>5. job'[w] = "none"
    BY <1>5, <2>1
  <2> QED
    BY <1>5, <2>1, <2>2, <2>3, <2>4, <2>5, CalmKept
<1>14. ASSUME NEW w \in Workers, Update(w) PROVE CalmInv'
  <2>1. req[w].at = "update" /\ UNCHANGED <<gw, takeover, ops, job>> /\ Goto(w, "finish")
    BY <1>14 DEF Update
  <2>2. /\ \A v \in Workers \ {w} : req'[v] = req[v]
        /\ req'[w].at = "finish" /\ req'[w].kind = req[w].kind /\ req'[w].takeover = req[w].takeover
        /\ req'[w].active = req[w].active /\ req'[w].reply = req[w].reply
    BY <2>1, GotoMoves DEF Labels
  <2>3. Current(req'[w], recovery', takeover', gw')
    BY <1>0, <2>1, <2>2 DEF Current
  <2>4. recovery'.stage \in Active => takeover' /\ gw' # "stopped"
    <3>1. CASE req[w].kind = "stop"
      <4>1. recovery'.stage = "gateway_stopped"
        BY <1>12, <1>14, <3>1 DEF Update, Reached, Stages
      <4> QED
        BY <4>1 DEF Active
    <3>2. CASE req[w].kind = "start"
      <4>1. /\ req[w].takeover /\ req[w].takeover = takeover
            /\ req[w].reply = "done"
        BY <1>0, <1>11, <2>1, <3>2 DEF Shaped, Current
      <4> QED
        BY <1>0, <2>1, <3>2, <4>1 DEF Current
    <3> QED
      BY <1>0, <2>1, <3>1, <3>2 DEF Shaped
  <2> QED
    BY <1>5, <2>1, <2>2, <2>3, <2>4, CalmKept
<1>15. ASSUME NEW w \in Workers, Finish(w) PROVE CalmInv'
  <2>1. /\ req[w].at = "finish" /\ UNCHANGED <<gw, takeover, recovery, job>>
        /\ \A i \in Ids : ops[i] # "none" => ops'[i] # "none"
    BY <1>15 DEF Finish, Write, TypeOK, Outcome
  <2>2. CASE req[w].active /\ Failed(req[w])
    <3>1. Goto(w, "note")
      BY <1>15, <2>2 DEF Finish
    <3>2. /\ \A v \in Workers \ {w} : req'[v] = req[v]
          /\ req'[w].at = "note" /\ req'[w].kind = req[w].kind /\ req'[w].takeover = req[w].takeover
          /\ req'[w].active = req[w].active /\ req'[w].reply = req[w].reply
      BY <3>1, GotoMoves DEF Labels
    <3>3. Current(req'[w], recovery', takeover', gw')
      BY <1>0, <2>1, <3>2 DEF Current
    <3>4. Owes(req[w]) => Owes(req'[w])
      BY <2>1, <3>2 DEF Owes
    <3>5. recovery'.stage \in Active => takeover' /\ (gw' # "stopped" \/ Owes(req'[w]))
      BY <1>11, <2>1, <3>4
    <3> QED
      BY <1>5, <2>1, <3>2, <3>3, <3>5, CalmKept
  <2>3. CASE ~(req[w].active /\ Failed(req[w]))
    <3>1. Return(w) /\ ~Owes(req[w])
      BY <1>15, <2>1, <2>3 DEF Finish, Owes, Failed
    <3> QED
      BY <1>2, <1>5, <2>1, <3>1, ReturnMoves
  <2> QED
    BY <2>2, <2>3
<1>16. ASSUME NEW w \in Workers, Note(w) PROVE CalmInv'
  <2>1. req[w].at = "note" /\ UNCHANGED <<gw, takeover, ops, job>> /\ Return(w)
    BY <1>16 DEF Note
  <2>2. recovery'.stage \in Active => takeover' /\ gw' # "stopped"
    <3>1. CASE NotesReloadFailure(req[w])
      <4>1. recovery'.stage = "confirmed"
        BY <1>12, <1>16, <3>1 DEF Note, Stages
      <4> QED
        BY <4>1 DEF Active
    <3>2. CASE ~NotesReloadFailure(req[w])
      <4>1. ~Owes(req[w]) /\ UNCHANGED recovery
        BY <1>16, <2>1, <3>2 DEF Note, Owes, NotesReloadFailure
      <4> QED
        BY <1>11, <2>1, <4>1
    <3> QED
      BY <3>1, <3>2
  <2>3. Current(Idle, recovery', takeover', gw')
    BY IdleTyped DEF Current
  <2> QED
    BY <1>5, <2>1, <2>2, <2>3, CalmKept, ReturnMoves
<1>17. ASSUME NEW w \in Workers, ReadForm(w) PROVE CalmInv'
  <2>1. req[w].at = "read" /\ UNCHANGED <<gw, takeover, recovery, ops, job>> /\ ~Owes(req[w])
    BY <1>17 DEF ReadForm, store, Owes
  <2>2. CASE req'[w] = Idle
    BY <1>2, <1>5, <1>17, <2>1, <2>2, FormMoves
  <2>3. CASE req'[w] # Idle
    <3>1. req'[w].at = "write" /\ req'[w].seen = recovery /\ MayMove(req'[w])
      BY <1>17, <2>3, FormMoves
    <3>2. req'[w].kind \in {"validated", "skip"} => req'[w].seen.stage \in Active
      BY <3>1 DEF MayMove, Active
    <3>3. Current(req'[w], recovery', takeover', gw')
      BY <2>1, <3>1, <3>2 DEF Current
    <3>4. recovery'.stage \in Active => takeover' /\ gw' # "stopped"
      BY <1>5, <2>1, NobodyElseOwes
    <3> QED
      BY <1>5, <1>17, <2>1, <3>3, <3>4, CalmKept, FormMoves
  <2> QED
    BY <2>2, <2>3
<1>18. ASSUME NEW w \in Workers, WriteForm(w) PROVE CalmInv'
  <2>1. req[w].at = "write" /\ UNCHANGED <<gw, takeover, ops, job>> /\ Return(w) /\ req[w].kind \in Forms
    BY <1>18 DEF WriteForm, KindInv
  <2>2. recovery.stage \in Active => takeover /\ gw # "stopped"
    BY <1>5, <2>1, NobodyElseOwes DEF Owes
  <2>3. recovery'.stage \in Active => recovery.stage \in Active
    <3>1. CASE UNCHANGED recovery
      BY <3>1
    <3>2. CASE recovery' = Moved(req[w]) /\ req[w].wish \notin Active
      <4>1. req[w].seen = recovery /\ (req[w].kind \in {"validated", "skip"} => recovery.stage \in Active)
        BY <1>0, <2>1 DEF Current
      <4>2. CASE req[w].kind \in {"validated", "skip"}
        BY <4>1, <4>2
      <4>3. CASE req[w].kind = "restored"
        <5>1. Moved(req[w]) = Recovery("router_restored")
          BY <4>3 DEF Moved, Target
        <5>2. recovery'.stage = "router_restored"
          BY <3>2, <5>1, StageTold DEF Stages
        <5> QED
          BY <5>2 DEF Active
      <4>4. CASE req[w].kind = "post" /\ req[w].wish = "none"
        BY <3>2, <4>1, <4>4 DEF Moved
      <4>5. CASE req[w].kind = "post" /\ req[w].wish # "none"
        <5>1. Moved(req[w]) = Recovery(req[w].wish) /\ req[w].wish \in Stages
          BY <1>0, <4>5 DEF Moved, Target, Request
        <5>2. recovery'.stage = req[w].wish
          BY <3>2, <5>1, StageTold
        <5> QED
          BY <3>2, <5>2
      <4> QED
        BY <2>1, <4>2, <4>3, <4>4, <4>5 DEF Forms
    <3> QED
      BY <1>18, <3>1, <3>2 DEF WriteForm
  <2>4. Current(Idle, recovery', takeover', gw')
    BY IdleTyped DEF Current
  <2> QED
    BY <1>5, <2>1, <2>2, <2>3, <2>4, CalmKept, ReturnMoves
<1>19. ASSUME NEW w \in Workers, EditConfig(w) PROVE CalmInv'
  <2>1. /\ req[w].at = "read" /\ UNCHANGED <<gw, recovery, ops, job>> /\ Return(w) /\ ~Owes(req[w])
        /\ UNCHANGED takeover \/ gw = "stopped"
    BY <1>19 DEF EditConfig, store, Owes
  <2> QED
    BY <1>2, <1>5, <2>1, ReturnMoves
\* The gateway goes down under a request that has then to take the checklist back.
<1>20. ASSUME NEW w \in Workers, Serve(w) PROVE CalmInv'
  <2>1. PICK r \in Replies : Performs(job[w], r) /\ Answer(w, r)
    BY <1>20 DEF Serve
  <2>2. req[w].at = "wait" /\ req[w].kind = job[w] /\ UNCHANGED <<takeover, recovery, ops>>
    BY <1>20 DEF Serve, store, CalmInv
  <2>3. /\ \A v \in Workers \ {w} : req'[v] = req[v]
        /\ req'[w].at = "settle" /\ req'[w].kind = req[w].kind /\ req'[w].takeover = req[w].takeover
        /\ req'[w].active = req[w].active /\ req'[w].reply = r
        /\ job' = [job EXCEPT ![w] = "none"]
    BY <2>1, <2>2, AnswerMoves
  <2>4. ~Echo(w) /\ ~Owes(req[w])
    BY <2>2 DEF Echo, Owes
  <2>5. recovery.stage \in Active => takeover /\ gw # "stopped"
    BY <2>2, <2>4, NobodyElseOwes
  <2>6. req[w].takeover = takeover /\ (req[w].kind = "apply" => (req[w].active <=> gw # "stopped"))
    BY <1>0, <2>2 DEF Current
  <2>7. /\ req[w].kind = "start" /\ r = "done" => gw' # "stopped"
        /\ req[w].kind \in {"start", "stop"} => r # "saved"
    BY <2>1, <2>2 DEF Performs
  <2>8. Current(req'[w], recovery', takeover', gw')
    BY <2>2, <2>3, <2>6, <2>7 DEF Current
  <2>9. gw # "stopped" /\ gw' = "stopped" /\ req[w].takeover => Owes(req'[w])
    <3>1. CASE req[w].kind = "stop"
      <4>1. gw' = "stopped" => r = "done"
        BY <2>1, <2>2, <3>1 DEF Performs
      <4> QED
        BY <2>3, <3>1, <4>1 DEF Owes
    <3>2. CASE req[w].kind = "reload"
      <4>1. gw # "stopped" /\ gw' = "stopped" => r = "start_failed"
        BY <2>1, <2>2, <3>2 DEF Performs, Reloads
      <4> QED
        BY <2>3, <3>2, <4>1 DEF Owes
    <3>3. CASE req[w].kind = "apply"
      <4>1. gw # "stopped" /\ gw' = "stopped" => r = "start_failed"
        BY <2>1, <2>2, <3>3 DEF Performs, Applies, Reloads
      <4> QED
        BY <2>3, <2>6, <3>3, <4>1 DEF Owes
    <3>4. CASE req[w].kind \in {"start", "restart"}
      <4>1. gw # "stopped" => gw' = gw
        BY <2>1, <2>2, <3>4 DEF Performs
      <4> QED
        BY <4>1
    <3> QED
      BY <2>2, <3>1, <3>2, <3>3, <3>4 DEF KindInv, Actions
  <2>10. recovery'.stage \in Active => takeover' /\ (gw' # "stopped" \/ Owes(req'[w]))
    BY <2>2, <2>5, <2>6, <2>9
  <2>11. \A v \in Workers : job'[v] = IF v = w THEN "none" ELSE job[v]
    BY <2>3 DEF TypeOK
  <2> QED
    BY <2>2, <2>3, <2>4, <2>8, <2>10, <2>11, CalmKept
<1>21. ASSUME NEW w \in Workers, ServiceDies(w) PROVE CalmInv'
  BY <1>21 DEF ServiceDies
<1>22. CASE ControlDies
  BY <1>22 DEF ControlDies
<1>23. CASE UNCHANGED vars
  <2>1. UNCHANGED <<gw, takeover, recovery, ops, req, job>>
    BY <1>23 DEF vars, store
  <2> QED
    BY <2>1 DEF CalmInv, Echo, Repeated, Owes, Current
<1> QED
  BY <1>1, <1>4, <1>6, <1>7, <1>8, <1>9, <1>10, <1>13, <1>14, <1>15, <1>16, <1>17, <1>18, <1>19, <1>20,
     <1>21, <1>22, <1>23 DEF Next, Works

\* Doubt stays.
LEMMA DoubtStays == TypeOK /\ doubt /\ [Next]_vars => doubt'
<1> SUFFICES ASSUME TypeOK, doubt, [Next]_vars PROVE doubt'
  OBVIOUS
<1>1. doubt = TRUE
  BY DEF TypeOK
<1>2. ASSUME NEW w \in Workers, Requests(w) PROVE doubt'
  BY <1>1, <1>2, ArrivalMoves
<1>3. ASSUME NEW w \in Workers, Works(w) PROVE doubt'
  BY <1>1, <1>3 DEF Works, Lookup, ReadRecovery, Admit, Accept, Call, Deadline, Settle, Update, Finish, Note,
                    ReadForm, WriteForm, EditConfig, WriteChecklist, history
<1>4. ASSUME NEW w \in Workers, Serve(w) \/ ServiceDies(w) PROVE doubt'
  BY <1>1, <1>4 DEF Serve, ServiceDies, history
<1> QED
  BY <1>1, <1>2, <1>3, <1>4 DEF Next, ControlDies, vars, history

\* As long as the control API can know - nothing has died or been too late, no write
\* has been lost, requests came one by one - the checklist does not call a stopped
\* gateway active: a failed reload and a failed import take it back (settle,
\* recordReloadRecoveryFailure).
THEOREM StoppedNotActive == Spec => []StoppedIsNotActive
<1>1. Init => QuietInv
  <2> SUFFICES ASSUME Init PROVE CalmInv
    BY DEF QuietInv
  <2>1. /\ \A w \in Workers : req[w] = Idle /\ job[w] = "none"
        /\ recovery = Recovery("idle")
    BY DEF Init
  <2>2. recovery.stage \notin Active
    BY <2>1, StageTold DEF Active, Stages
  <2>3. Current(Idle, recovery, takeover, gw)
    BY IdleTyped DEF Current
  <2> QED
    BY <2>1, <2>2, <2>3, IdleTyped DEF CalmInv, At
<1>2. TypeOK /\ KindInv /\ ShapeInv /\ QuietInv /\ [Next]_vars => QuietInv'
  BY CalmStep, DoubtStays DEF QuietInv
<1>3. QuietInv => StoppedIsNotActive
  BY DEF QuietInv, CalmInv, StoppedIsNotActive, Owes, At
<1> QED
  BY <1>1, <1>2, <1>3, ControlInit, TypeStep, KindStep, ShapeStep, PTL DEF Spec
=============================================================================
