-------------------------- MODULE ConfigApplyProofs --------------------------
(***************************************************************************)
(* Proofs about ConfigApply, for any number of connections, profiles,       *)
(* networks, failing writes and deaths of the service.  The service takes   *)
(* no lock from the read of a configuration to its write, so which requests *)
(* must not overlap for a result to hold is a hypothesis of its theorem.    *)
(***************************************************************************)
EXTENDS ConfigApply, TLAPS

Statuses == {"stopped", "running", "cleanup"}

Sight == [config : Config \cup {NoConfig}, document : Document \cup {Missing}, files : SUBSET Profiles,
          status : Statuses, applied : Config \cup {NoConfig}]

Wish == [profile : Profile, network : Networks \cup {"none"}, policyOn : BOOLEAN,
         document : Document \cup {Missing}]

Request == [kind : Kinds \cup {"none"}, at : Labels, wish : Wish, seen : Sight, stale : BOOLEAN,
            cfg : Config \cup {NoConfig}, original : Config \cup {NoConfig}, wasRunning : BOOLEAN,
            created : BOOLEAN, reply : {"none", "error", "preserved", "unrestored"}]

\* What a request holds fits its kind and how far it has got.
Shaped(r) ==
    /\ r.kind = "none" <=> r.at = "idle"
    /\ r.kind = "profile" => r.wish.profile \in Profiles
    /\ r.kind = "network" => r.wish.network \in Networks
    /\ r.kind = "policy" => r.wish.document \in Document
    /\ r.at \in {"compare", "look"} => r.kind \in {"profile", "network"}
    /\ r.at \in {"read", "put", "restore", "relook", "restart", "clean"} => r.kind = "profile"
    /\ r.at \in {"validate", "write"} => r.kind \in Edits
    /\ r.at = "stat" => r.kind \in {"profile", "policy"}
    /\ r.at = "create" => r.kind = "network"
    /\ r.at = "start" => r.kind = "start"
    /\ r.at = "stop" => r.kind = "stop"
    /\ r.at \in {"reload", "reload_start"} => r.kind \in {"profile", "reload"}
    /\ r.at \notin {"idle", "open", "compare", "read", "load"} => r.cfg \in Config
    /\ r.kind = "profile" /\ r.at \notin {"open", "compare", "read"} => r.original \in Config

ShapeInv ==
    /\ req \in [Workers -> Request]
    /\ \A w \in Workers : Shaped(req[w])

\* One request has moved: the others stay as they are.
Moved(w) == req' \in [Workers -> Request] /\ \A v \in Workers \ {w} : req'[v] = req[v]

\* It has got to a label, and what it is about has stayed.
Gets(r, n, l) == n.at = l /\ n.kind = r.kind /\ n.wish = r.wish /\ n.seen = r.seen /\ n.stale = r.stale

\* It has ended.
Ends(n, answer) == n.at = "idle" /\ n.kind = "none" /\ n.reply = answer

-----------------------------------------------------------------------------
(* Types *)

LEMMA NoConfigTyped == NoConfig \notin Config /\ \A c \in Config : c.network # "none"
BY NamesAssumption DEF Config, NoConfig

LEMMA IdleTyped ==
    /\ Idle \in Request /\ Idle.kind = "none" /\ Idle.at = "idle" /\ Idle.reply = "none"
    /\ Shaped(Idle)
<1>1. NoWish \in Wish /\ Nothing \in Sight
  BY DEF NoWish, Wish, Nothing, Sight, Profile, Statuses
<1>2. Idle \in Request /\ Idle.kind = "none" /\ Idle.at = "idle" /\ Idle.reply = "none"
  BY <1>1 DEF Idle, Request, Labels
<1> QED
  BY <1>2 DEF Shaped

LEMMA WishTyped ==
    \A kind \in Kinds : \A wish \in Wishes(kind) :
        /\ wish \in Wish
        /\ kind = "profile" => wish.profile \in Profiles
        /\ kind = "network" => wish.network \in Networks
        /\ kind = "policy" => wish.document \in Document
<1> SUFFICES ASSUME NEW kind \in Kinds, NEW wish \in Wishes(kind)
             PROVE  /\ wish \in Wish
                    /\ kind = "profile" => wish.profile \in Profiles
                    /\ kind = "network" => wish.network \in Networks
                    /\ kind = "policy" => wish.document \in Document
  OBVIOUS
<1>1. NoWish \in Wish
  BY DEF NoWish, Wish, Profile
<1>2. CASE kind = "profile"
  <2>1. PICK p \in Profiles : wish = [NoWish EXCEPT !.profile = p]
    BY <1>2 DEF Wishes
  <2> QED
    BY <1>1, <1>2, <2>1 DEF Wish, Profile
<1>3. CASE kind = "network"
  <2>1. Wishes(kind) = [profile : {Managed}, network : Networks, policyOn : BOOLEAN, document : {Missing}]
    BY <1>3 DEF Wishes
  <2>2. wish \in [profile : {Managed}, network : Networks, policyOn : BOOLEAN, document : {Missing}]
    BY <2>1
  <2> QED
    BY <1>3, <2>2 DEF Wish, Profile
<1>4. CASE kind = "policy"
  <2>1. PICK d \in Document : wish = [NoWish EXCEPT !.document = d]
    BY <1>4 DEF Wishes
  <2> QED
    BY <1>1, <1>4, <2>1 DEF Wish
<1>5. CASE kind \notin {"profile", "network", "policy"}
  <2>1. Wishes(kind) = {NoWish}
    BY <1>5 DEF Wishes
  <2> QED
    BY <1>1, <1>5, <2>1
<1> QED
  BY <1>2, <1>3, <1>4, <1>5

\* A request gets on.
LEMMA GotoMoves ==
    ASSUME ShapeInv, NEW w \in Workers, NEW l \in Labels, Goto(w, l)
    PROVE  /\ Moved(w) /\ Gets(req[w], req'[w], l)
           /\ req'[w].cfg = req[w].cfg /\ req'[w].original = req[w].original
           /\ req'[w].wasRunning = req[w].wasRunning /\ req'[w].created = req[w].created
           /\ req'[w].reply = req[w].reply
<1> DEFINE n == [req[w] EXCEPT !.at = l]
<1>1. req[w] \in Request
  BY DEF ShapeInv
<1>2. n \in Request
  BY <1>1 DEF Request
<1>3. /\ Gets(req[w], n, l) /\ n.cfg = req[w].cfg /\ n.original = req[w].original
      /\ n.wasRunning = req[w].wasRunning /\ n.created = req[w].created /\ n.reply = req[w].reply
  BY <1>1 DEF Request, Gets
<1>4. req' = [req EXCEPT ![w] = n]
  BY DEF Goto
<1> HIDE DEF n
<1>5. req'[w] = n /\ Moved(w)
  BY <1>2, <1>4 DEF ShapeInv, Moved
<1> QED
  BY <1>3, <1>5

\* It ends with an answer.
LEMMA ReplyMoves ==
    ASSUME ShapeInv, NEW w \in Workers, NEW a \in {"none", "error", "preserved", "unrestored"}, Reply(w, a)
    PROVE  Moved(w) /\ Ends(req'[w], a)
<1> DEFINE n == [Idle EXCEPT !.reply = a]
<1>1. n \in Request /\ Ends(n, a)
  BY IdleTyped DEF Request, Ends
<1>2. req' = [req EXCEPT ![w] = n]
  BY DEF Reply
<1> HIDE DEF n
<1>3. req'[w] = n /\ Moved(w)
  BY <1>1, <1>2 DEF ShapeInv, Moved
<1> QED
  BY <1>1, <1>3

\* It ends with an answer after one more step.
LEMMA CleanupMoves ==
    ASSUME ShapeInv, NEW w \in Workers, NEW a \in {"none", "error", "preserved", "unrestored"}, Cleanup(w, a)
    PROVE  /\ Moved(w) /\ Gets(req[w], req'[w], "clean") /\ req'[w].reply = a
           /\ req'[w].cfg = req[w].cfg /\ req'[w].original = req[w].original
           /\ req'[w].created = req[w].created
<1> DEFINE n == [req[w] EXCEPT !.at = "clean", !.reply = a]
<1>1. req[w] \in Request
  BY DEF ShapeInv
<1>2. n \in Request
  BY <1>1 DEF Request, Labels
<1>3. /\ Gets(req[w], n, "clean") /\ n.reply = a /\ n.cfg = req[w].cfg
      /\ n.original = req[w].original /\ n.created = req[w].created
  BY <1>1 DEF Request, Gets
<1>4. req' = [req EXCEPT ![w] = n]
  BY DEF Cleanup
<1> HIDE DEF n
<1>5. req'[w] = n /\ Moved(w)
  BY <1>2, <1>4 DEF ShapeInv, Moved
<1> QED
  BY <1>3, <1>5

\* It arrives.
LEMMA ArrivalMoves ==
    ASSUME TypeOK, ShapeInv, NEW w \in Workers, Arrives(w)
    PROVE  /\ Moved(w) /\ req[w].at = "idle" /\ req'[w].at = "open" /\ req'[w].kind \in Kinds
           /\ req'[w].seen = Sees(req'[w].kind) /\ ~req'[w].created /\ req'[w].reply = "none"
           /\ Shaped(req'[w])
           /\ \A v \in Workers \ {w} : req[v].at # "idle" => {req'[w].kind, req[v].kind} \in Overlaps
<1>1. PICK kind \in Kinds, stale \in BOOLEAN :
          /\ \A v \in Workers \ {w} : req[v].at # "idle" => {kind, req[v].kind} \in Overlaps
          /\ \E wish \in Wishes(kind) :
               req' = [req EXCEPT ![w] = [Idle EXCEPT !.kind = kind, !.at = "open", !.wish = wish,
                                                      !.stale = stale, !.seen = Sees(kind)]]
  BY DEF Arrives
<1>2. PICK wish \in Wishes(kind) :
          req' = [req EXCEPT ![w] = [Idle EXCEPT !.kind = kind, !.at = "open", !.wish = wish,
                                                 !.stale = stale, !.seen = Sees(kind)]]
  BY <1>1
<1> DEFINE n == [Idle EXCEPT !.kind = kind, !.at = "open", !.wish = wish, !.stale = stale,
                             !.seen = Sees(kind)]
<1>3. Sees(kind) \in Sight
  BY DEF Sees, Sight, TypeOK, Statuses
<1>4. /\ wish \in Wish
      /\ kind = "profile" => wish.profile \in Profiles
      /\ kind = "network" => wish.network \in Networks
      /\ kind = "policy" => wish.document \in Document
  BY WishTyped
<1>5. /\ n \in Request /\ n.kind = kind /\ n.at = "open" /\ n.wish = wish /\ n.seen = Sees(kind)
      /\ ~n.created /\ n.reply = "none"
  BY <1>3, <1>4, IdleTyped DEF Request, Labels, Idle
<1>6. kind # "none"
  BY DEF Kinds, Edits
<1>7. req' = [req EXCEPT ![w] = n]
  BY <1>2
<1> HIDE DEF n
<1>8. Shaped(n)
  BY <1>4, <1>5, <1>6 DEF Shaped
<1>9. req[w].at = "idle"
  BY DEF Arrives, Serving
<1>10. req'[w] = n /\ Moved(w)
  BY <1>5, <1>7 DEF ShapeInv, Moved
<1> QED
  BY <1>1, <1>5, <1>8, <1>9, <1>10

\* It reads the original, the configuration, whether a gateway runs, whether the
\* profile is there, whether the policy is switched on.
LEMMA ReadMoves ==
    ASSUME TypeOK, ShapeInv, NEW w \in Workers, NEW l \in Labels,
           req' = [req EXCEPT ![w].original = config, ![w].at = l]
    PROVE  /\ Moved(w) /\ Gets(req[w], req'[w], l) /\ req'[w].original = config
           /\ req'[w].cfg = req[w].cfg /\ req'[w].created = req[w].created /\ req'[w].reply = req[w].reply
<1> DEFINE n == [req[w] EXCEPT !.original = config, !.at = l]
<1>1. req[w] \in Request
  BY DEF ShapeInv
<1>2. n \in Request
  BY <1>1 DEF Request, TypeOK
<1>3. /\ Gets(req[w], n, l) /\ n.original = config /\ n.cfg = req[w].cfg
      /\ n.created = req[w].created /\ n.reply = req[w].reply
  BY <1>1 DEF Request, Gets
<1>4. req' = [req EXCEPT ![w] = n]
  OBVIOUS
<1> HIDE DEF n
<1>5. req'[w] = n /\ Moved(w)
  BY <1>2, <1>4 DEF ShapeInv, Moved
<1> QED
  BY <1>3, <1>5

LEMMA LoadMoves ==
    ASSUME TypeOK, ShapeInv, NEW w \in Workers, NEW l \in Labels,
           req' = [req EXCEPT ![w].cfg = config, ![w].at = l]
    PROVE  /\ Moved(w) /\ Gets(req[w], req'[w], l) /\ req'[w].cfg = config
           /\ req'[w].original = req[w].original /\ req'[w].created = req[w].created
           /\ req'[w].reply = req[w].reply
<1> DEFINE n == [req[w] EXCEPT !.cfg = config, !.at = l]
<1>1. req[w] \in Request
  BY DEF ShapeInv
<1>2. n \in Request
  BY <1>1 DEF Request, TypeOK
<1>3. /\ Gets(req[w], n, l) /\ n.cfg = config /\ n.original = req[w].original
      /\ n.created = req[w].created /\ n.reply = req[w].reply
  BY <1>1 DEF Request, Gets
<1>4. req' = [req EXCEPT ![w] = n]
  OBVIOUS
<1> HIDE DEF n
<1>5. req'[w] = n /\ Moved(w)
  BY <1>2, <1>4 DEF ShapeInv, Moved
<1> QED
  BY <1>3, <1>5

LEMMA RunningMoves ==
    ASSUME ShapeInv, NEW w \in Workers, NEW l \in Labels, NEW b \in BOOLEAN,
           req' = [req EXCEPT ![w].wasRunning = b, ![w].at = l]
    PROVE  /\ Moved(w) /\ Gets(req[w], req'[w], l) /\ req'[w].cfg = req[w].cfg
           /\ req'[w].original = req[w].original /\ req'[w].created = req[w].created
           /\ req'[w].reply = req[w].reply
<1> DEFINE n == [req[w] EXCEPT !.wasRunning = b, !.at = l]
<1>1. req[w] \in Request
  BY DEF ShapeInv
<1>2. n \in Request
  BY <1>1 DEF Request
<1>3. /\ Gets(req[w], n, l) /\ n.cfg = req[w].cfg /\ n.original = req[w].original
      /\ n.created = req[w].created /\ n.reply = req[w].reply
  BY <1>1 DEF Request, Gets
<1>4. req' = [req EXCEPT ![w] = n]
  OBVIOUS
<1> HIDE DEF n
<1>5. req'[w] = n /\ Moved(w)
  BY <1>2, <1>4 DEF ShapeInv, Moved
<1> QED
  BY <1>3, <1>5

LEMMA CreatedMoves ==
    ASSUME ShapeInv, NEW w \in Workers, NEW l \in Labels, NEW b \in BOOLEAN,
           req' = [req EXCEPT ![w].created = b, ![w].at = l]
    PROVE  /\ Moved(w) /\ Gets(req[w], req'[w], l) /\ req'[w].created = b
           /\ req'[w].cfg = req[w].cfg /\ req'[w].original = req[w].original
           /\ req'[w].reply = req[w].reply
<1> DEFINE n == [req[w] EXCEPT !.created = b, !.at = l]
<1>1. req[w] \in Request
  BY DEF ShapeInv
<1>2. n \in Request
  BY <1>1 DEF Request
<1>3. /\ Gets(req[w], n, l) /\ n.created = b /\ n.cfg = req[w].cfg
      /\ n.original = req[w].original /\ n.reply = req[w].reply
  BY <1>1 DEF Request, Gets
<1>4. req' = [req EXCEPT ![w] = n]
  OBVIOUS
<1> HIDE DEF n
<1>5. req'[w] = n /\ Moved(w)
  BY <1>2, <1>4 DEF ShapeInv, Moved
<1> QED
  BY <1>3, <1>5

\* What is to be put in place has the fields of what was loaded but the ones asked for.
LEMMA CandidateTyped ==
    ASSUME ShapeInv, NEW w \in Workers, req[w].cfg \in Config
    PROVE  /\ Candidate(w) \in Config
           /\ req[w].kind = "profile" =>
                 /\ Candidate(w) = [req[w].cfg EXCEPT !.profile = req[w].wish.profile]
                 /\ Candidate(w).profile = req[w].wish.profile
           /\ req[w].kind = "network" =>
                 /\ Candidate(w).profile = req[w].cfg.profile
                 /\ Candidate(w).network = req[w].wish.network
                 /\ Candidate(w).policyOn = req[w].wish.policyOn
           /\ req[w].kind # "network" =>
                 /\ Candidate(w).network = req[w].cfg.network
                 /\ Candidate(w).policyOn = req[w].cfg.policyOn
           /\ req[w].kind \notin {"profile", "network"} => Candidate(w) = req[w].cfg
<1>1. req[w].wish \in Wish /\ Shaped(req[w])
  BY DEF ShapeInv, Request
<1>2. CASE req[w].kind = "profile"
  <2>1. Candidate(w) = [req[w].cfg EXCEPT !.profile = req[w].wish.profile]
    BY <1>2 DEF Candidate
  <2> QED
    BY <1>1, <1>2, <2>1 DEF Config, Wish
<1>3. CASE req[w].kind = "network"
  <2>1. Candidate(w) = [req[w].cfg EXCEPT !.network = req[w].wish.network, !.policyOn = req[w].wish.policyOn]
    BY <1>3 DEF Candidate
  <2>2. req[w].wish.network \in Networks
    BY <1>1, <1>3 DEF Shaped
  <2> QED
    BY <1>1, <1>3, <2>1, <2>2 DEF Config, Wish
<1>4. CASE req[w].kind \notin {"profile", "network"}
  <2>1. Candidate(w) = req[w].cfg
    BY <1>4 DEF Candidate
  <2> QED
    BY <1>4, <2>1
<1> QED
  BY <1>2, <1>3, <1>4

\* A step moves one request, which keeps its shape.
LEMMA ShapeStep ==
    ASSUME TypeOK, ShapeInv, NEW w \in Workers, Step(w)
    PROVE  Moved(w) /\ Shaped(req'[w])
<1>0. req[w] \in Request /\ Shaped(req[w]) /\ config \in Config
  BY DEF ShapeInv, TypeOK
<1> DEFINE Ended == Moved(w) /\ \E a \in {"none", "error", "preserved", "unrestored"} : Ends(req'[w], a)
<1> DEFINE Got(l) == Moved(w) /\ Gets(req[w], req'[w], l) /\ req'[w].cfg = req[w].cfg /\ req'[w].original = req[w].original
<1>1. ASSUME NEW a \in {"none", "error", "preserved", "unrestored"}, Reply(w, a) PROVE Ended
  BY <1>1, ReplyMoves
<1>2. ASSUME NEW l \in Labels, Goto(w, l) PROVE Got(l)
  BY <1>2, GotoMoves
<1>3. ASSUME NEW a \in {"none", "error", "preserved", "unrestored"}, Cleanup(w, a) PROVE Got("clean")
  BY <1>3, CleanupMoves
<1>4. ASSUME Ended PROVE Moved(w) /\ Shaped(req'[w])
  BY <1>4 DEF Ends, Shaped
<1>5. ASSUME NEW l \in {"compare", "read", "load", "create", "write", "reload", "reload_start", "restore",
                        "relook", "restart", "clean", "validate"},
             Got(l), req[w].at # "idle",
             l \in {"compare", "create"} => req[w].kind \in {"profile", "network"},
             l = "create" => req[w].kind = "network",
             l \in {"read", "restore", "relook", "restart", "clean"} => req[w].kind = "profile",
             l \in {"validate", "write"} => req[w].kind \in Edits,
             l \in {"reload", "reload_start"} => req[w].kind \in {"profile", "reload"},
             l \notin {"compare", "read", "load"} => req[w].at \notin {"open", "compare", "read", "load"},
             l = "load" /\ req[w].kind = "profile" => req[w].original \in Config
      PROVE  Moved(w) /\ Shaped(req'[w])
  <2>1. Moved(w) /\ Gets(req[w], req'[w], l) /\ req'[w].cfg = req[w].cfg /\ req'[w].original = req[w].original
    BY <1>5
  <2>2. /\ req'[w].at = l /\ req'[w].kind = req[w].kind /\ req'[w].wish = req[w].wish
    BY <2>1 DEF Gets
  <2>3. l \notin {"compare", "read", "load"} => req[w].cfg \in Config
    BY <1>0, <1>5 DEF Shaped
  <2>4. req[w].kind = "profile" /\ l \notin {"compare", "read"} => req[w].original \in Config
    BY <1>0, <1>5 DEF Shaped
  <2>5. req[w].kind # "none"
    BY <1>0, <1>5 DEF Shaped
  <2> QED
    BY <1>0, <1>5, <2>1, <2>2, <2>3, <2>4, <2>5 DEF Shaped, Edits
<1> HIDE DEF Ended, Got
<1>6. "error" \in {"none", "error", "preserved", "unrestored"} /\ "none" \in {"none", "error", "preserved", "unrestored"}
  OBVIOUS
<1>7. /\ req[w].at # "idle" => req[w].kind # "none"
      /\ req[w].at \in {"compare", "look"} => req[w].kind \in {"profile", "network"}
      /\ req[w].at \in {"read", "put", "restore", "relook", "restart", "clean"} => req[w].kind = "profile"
      /\ req[w].at \in {"validate", "write"} => req[w].kind \in Edits
      /\ req[w].at = "stat" => req[w].kind \in {"profile", "policy"}
      /\ req[w].at = "create" => req[w].kind = "network"
      /\ req[w].at = "start" => req[w].kind = "start"
      /\ req[w].at \in {"reload", "reload_start"} => req[w].kind \in {"profile", "reload"}
  BY <1>0 DEF Shaped
<1>8. CASE Arrives(w)
  BY <1>8, ArrivalMoves
<1>9. CASE Open(w)
  BY <1>9, <1>1, <1>2, <1>4, <1>5, <1>7 DEF Open, Serving, Labels
<1>10. CASE Compare(w)
  BY <1>10, <1>1, <1>2, <1>4, <1>5, <1>7 DEF Compare, Serving, Labels
<1>11. CASE ReadOriginal(w)
  <2>1. CASE Reply(w, "error")
    BY <2>1, <1>1, <1>4, <1>6
  <2>2. CASE req' = [req EXCEPT ![w].original = config, ![w].at = "load"]
    <3>1. /\ Moved(w) /\ Gets(req[w], req'[w], "load") /\ req'[w].original = config
      BY <2>2, ReadMoves DEF Labels
    <3>2. req'[w].at = "load" /\ req'[w].kind = "profile" /\ req'[w].wish = req[w].wish
      BY <1>7, <1>11, <3>1 DEF ReadOriginal, Serving, Gets
    <3> QED
      BY <1>0, <1>11, <3>1, <3>2 DEF Shaped, ReadOriginal, Serving
  <2> QED
    BY <1>11, <2>1, <2>2 DEF ReadOriginal
<1>12. CASE LoadConfig(w)
  <2>1. CASE Reply(w, "error")
    BY <2>1, <1>1, <1>4, <1>6
  <2>2. ASSUME NEW l \in Labels,
               req[w].kind \in {"profile", "network"} => l = "look",
               req[w].kind = "policy" => l = "stat",
               req[w].kind \in {"start", "stop", "reload"} => l = req[w].kind,
               req' = [req EXCEPT ![w].cfg = config, ![w].at = l]
        PROVE  Moved(w) /\ Shaped(req'[w])
    <3>1. Moved(w) /\ Gets(req[w], req'[w], l) /\ req'[w].cfg = config /\ req'[w].original = req[w].original
      BY <2>2, LoadMoves
    <3>2. req'[w].at = l /\ req'[w].kind = req[w].kind /\ req'[w].wish = req[w].wish
      BY <3>1 DEF Gets
    <3>3. req[w].at = "load" /\ req[w].kind \in Kinds
      BY <1>0, <1>7, <1>12 DEF LoadConfig, Serving, Request
    <3> QED
      BY <1>0, <2>2, <3>1, <3>2, <3>3 DEF Shaped, Kinds, Edits
  <2>3. CASE ~Reply(w, "error")
    <3> DEFINE l == CASE req[w].kind \in {"profile", "network"} -> "look"
                      [] req[w].kind = "policy" -> "stat"
                      [] OTHER -> req[w].kind
    <3>1. req' = [req EXCEPT ![w].cfg = config, ![w].at = l]
      BY <1>12, <2>3 DEF LoadConfig
    <3>2. req[w].kind \in Kinds
      BY <1>0, <1>7, <1>12 DEF LoadConfig, Serving, Request
    <3>3. /\ req[w].kind \in {"profile", "network"} => l = "look"
          /\ req[w].kind = "policy" => l = "stat"
          /\ req[w].kind \in {"start", "stop", "reload"} => l = req[w].kind
      OBVIOUS
    <3> HIDE DEF l
    <3>4. l \in Labels
      BY <3>2, <3>3 DEF Kinds, Edits, Labels
    <3> QED
      BY <2>2, <3>1, <3>3, <3>4
  <2> QED
    BY <2>1, <2>3
<1>13. CASE Look(w)
  <2>1. CASE Reply(w, "error")
    BY <2>1, <1>1, <1>4, <1>6
  <2>2. CASE /\ req[w].kind = "profile"
             /\ req' = [req EXCEPT ![w].wasRunning = (status # "stopped"), ![w].at = "stat"]
    <3>1. /\ Moved(w) /\ Gets(req[w], req'[w], "stat") /\ req'[w].cfg = req[w].cfg
          /\ req'[w].original = req[w].original
      BY <2>2, RunningMoves DEF Labels
    <3>2. req'[w].at = "stat" /\ req'[w].kind = "profile" /\ req'[w].wish = req[w].wish
      BY <2>2, <3>1 DEF Gets
    <3> QED
      BY <1>0, <1>13, <2>2, <3>1, <3>2 DEF Shaped, Look, Serving
  <2>3. CASE req[w].kind = "network" /\ Goto(w, "create")
    BY <1>2, <1>5, <1>13, <2>3 DEF Look, Serving, Labels
  <2> QED
    BY <1>13, <2>1, <2>2, <2>3 DEF Look
<1>14. CASE StatProfile(w)
  <2>1. CASE Reply(w, "error")
    BY <2>1, <1>1, <1>4, <1>6
  <2>2. CASE req' = [req EXCEPT ![w].created = (req[w].wish.profile \notin files), ![w].at = "put"]
    <3>1. /\ Moved(w) /\ Gets(req[w], req'[w], "put") /\ req'[w].cfg = req[w].cfg
          /\ req'[w].original = req[w].original
      BY <2>2, CreatedMoves DEF Labels
    <3>2. req'[w].at = "put" /\ req'[w].kind = "profile" /\ req'[w].wish = req[w].wish
      BY <1>14, <3>1 DEF Gets, StatProfile
    <3> QED
      BY <1>0, <1>14, <3>1, <3>2 DEF Shaped, StatProfile, Serving
  <2> QED
    BY <1>14, <2>1, <2>2 DEF StatProfile
<1>15. CASE PutProfile(w)
  BY <1>15, <1>1, <1>2, <1>4, <1>5, <1>7 DEF PutProfile, Serving, Labels, Edits
<1>16. CASE ValidateProfile(w)
  BY <1>16, <1>1, <1>2, <1>4, <1>5, <1>7 DEF ValidateProfile, Serving, Labels, Edits
<1>17. CASE WriteProfileConfig(w)
  BY <1>17, <1>1, <1>2, <1>4, <1>5, <1>7 DEF WriteProfileConfig, Serving, Labels, Done
<1>18. CASE Restore(w)
  BY <1>18, <1>1, <1>2, <1>3, <1>4, <1>5, <1>7 DEF Restore, Serving, Labels
<1>19. CASE Relook(w)
  BY <1>19, <1>1, <1>2, <1>3, <1>4, <1>5, <1>7 DEF Relook, Serving, Labels
<1>20. CASE Restart(w)
  BY <1>20, <1>1, <1>2, <1>3, <1>4, <1>5, <1>7 DEF Restart, Serving, Labels
<1>21. CASE CleanProfile(w)
  <2>1. req[w].reply \in {"none", "error", "preserved", "unrestored"}
    BY <1>0 DEF Request
  <2> QED
    BY <1>1, <1>4, <1>21, <2>1 DEF CleanProfile
<1>22. CASE CreatePolicy(w)
  <2> DEFINE creates == req[w].wish.policyOn /\ ~req[w].cfg.policyOn
  <2>1. CASE Reply(w, "error")
    BY <2>1, <1>1, <1>4, <1>6
  <2>2. CASE req' = [req EXCEPT ![w].created = creates, ![w].at = "validate"]
    <3>1. creates \in BOOLEAN
      BY <1>0, <1>22 DEF Request, Wish
    <3> HIDE DEF creates
    <3>2. /\ Moved(w) /\ Gets(req[w], req'[w], "validate") /\ req'[w].cfg = req[w].cfg
          /\ req'[w].original = req[w].original
      BY <2>2, <3>1, CreatedMoves DEF Labels
    <3>3. req'[w].at = "validate" /\ req'[w].kind = "network" /\ req'[w].wish = req[w].wish
      BY <1>7, <1>22, <3>2 DEF Gets, CreatePolicy, Serving
    <3> QED
      BY <1>0, <1>22, <3>2, <3>3 DEF Shaped, CreatePolicy, Serving, Edits
  <2> QED
    BY <1>22, <2>1, <2>2 DEF CreatePolicy
<1>23. CASE ValidateNetwork(w)
  BY <1>23, <1>1, <1>2, <1>4, <1>5, <1>7 DEF ValidateNetwork, Serving, Labels, Edits
<1>24. CASE WriteNetworkConfig(w)
  BY <1>24, <1>1, <1>2, <1>4, <1>5, <1>7 DEF WriteNetworkConfig, Serving, Labels, Done
<1>25. CASE ComparePolicy(w)
  BY <1>25, <1>1, <1>2, <1>4, <1>5, <1>7 DEF ComparePolicy, Serving, Labels, Edits
<1>26. CASE ValidatePolicy(w)
  BY <1>26, <1>1, <1>2, <1>4, <1>5, <1>7 DEF ValidatePolicy, Serving, Labels, Edits
<1>27. CASE WritePolicy(w)
  BY <1>27, <1>1, <1>2, <1>4, <1>5, <1>7 DEF WritePolicy, Serving, Labels, Done
<1>28. CASE Start(w)
  BY <1>28, <1>1, <1>4, <1>6 DEF Start, Done
<1>29. CASE Stop(w)
  BY <1>29, <1>1, <1>4, <1>6 DEF Stop, Done
<1>30. CASE Reload(w)
  BY <1>30, <1>1, <1>2, <1>4, <1>5, <1>7 DEF Reload, ReloadFails, Serving, Labels, Done
<1>31. CASE ReloadStart(w)
  BY <1>31, <1>1, <1>2, <1>4, <1>5, <1>7 DEF ReloadStart, ReloadFails, Serving, Labels, Done
<1> QED
  BY <1>8, <1>9, <1>10, <1>11, <1>12, <1>13, <1>14, <1>15, <1>16, <1>17, <1>18, <1>19, <1>20, <1>21,
     <1>22, <1>23, <1>24, <1>25, <1>26, <1>27, <1>28, <1>29, <1>30, <1>31 DEF Step

\* A step that only looks, one of the gateway, or one that writes.
LEMMA StepKinds ==
    ASSUME NEW w \in Workers, Step(w)
    PROVE  \/ Looks
           \/ UNCHANGED <<store, bounds>> /\ (Start(w) \/ Stop(w) \/ Reload(w) \/ ReloadStart(w) \/ Restart(w))
           \/ /\ UNCHANGED <<gateway, crashes>>
              /\ \/ PutProfile(w) \/ ValidateProfile(w) \/ WriteProfileConfig(w) \/ Restore(w)
                 \/ Relook(w) \/ CleanProfile(w) \/ CreatePolicy(w) \/ ValidateNetwork(w)
                 \/ WriteNetworkConfig(w) \/ WritePolicy(w)
<1>1. CASE Arrives(w) \/ Open(w) \/ Compare(w) \/ ReadOriginal(w) \/ LoadConfig(w)
  BY <1>1 DEF Arrives, Open, Compare, ReadOriginal, LoadConfig
<1>2. CASE Look(w) \/ StatProfile(w) \/ ComparePolicy(w) \/ ValidatePolicy(w)
  BY <1>2 DEF Look, StatProfile, ComparePolicy, ValidatePolicy
<1>3. CASE Start(w) \/ Stop(w) \/ Reload(w) \/ ReloadStart(w) \/ Restart(w)
  BY <1>3 DEF Start, Stop, Reload, ReloadStart, Restart
<1>4. CASE PutProfile(w) \/ ValidateProfile(w) \/ WriteProfileConfig(w) \/ Restore(w) \/ Relook(w)
  BY <1>4 DEF PutProfile, ValidateProfile, WriteProfileConfig, Restore, Relook, gateway, store, bounds
<1>5. CASE CleanProfile(w) \/ CreatePolicy(w) \/ ValidateNetwork(w) \/ WriteNetworkConfig(w) \/ WritePolicy(w)
  BY <1>5 DEF CleanProfile, CreatePolicy, ValidateNetwork, WriteNetworkConfig, WritePolicy, gateway, store, bounds
<1> QED
  BY <1>1, <1>2, <1>3, <1>4, <1>5 DEF Step

\* What a step does to the store and the gateway has its type.
LEMMA StoreStep ==
    ASSUME TypeOK, ShapeInv, NEW w \in Workers, Step(w)
    PROVE  /\ config' \in Config /\ document' \in Document \cup {Missing} /\ files' \subseteq Profiles
           /\ status' \in {"stopped", "running", "cleanup"}
           /\ applied' \in Config \cup {NoConfig} /\ (status' = "running" => applied' # NoConfig)
           /\ faults' \in 0 .. MaxFaults /\ crashes' \in 0 .. MaxCrashes
<1> DEFINE StoreTyped == config' \in Config /\ document' \in Document \cup {Missing} /\ files' \subseteq Profiles
<1> DEFINE GatewayTyped == /\ status' \in {"stopped", "running", "cleanup"} /\ applied' \in Config \cup {NoConfig}
                           /\ status' = "running" => applied' # NoConfig
<1> DEFINE BoundsTyped == faults' \in 0 .. MaxFaults /\ crashes' \in 0 .. MaxCrashes
<1>1. req[w] \in Request /\ Shaped(req[w])
  BY DEF ShapeInv
<1>2. req[w].at \in {"reload", "reload_start", "restart", "start", "write", "restore"} => req[w].cfg \in Config
  BY <1>1 DEF Shaped
<1>3. /\ UNCHANGED <<config, document, files>> => StoreTyped
      /\ UNCHANGED <<status, applied>> => GatewayTyped
      /\ UNCHANGED faults => faults' \in 0 .. MaxFaults
      /\ UNCHANGED crashes => crashes' \in 0 .. MaxCrashes
      /\ Fault => faults' \in 0 .. MaxFaults
  BY BoundAssumption DEF TypeOK, Fault
<1>4. CASE Looks
  BY <1>3, <1>4 DEF Looks, store, gateway, bounds
<1>5. CASE UNCHANGED <<store, bounds>> /\ (Start(w) \/ Stop(w) \/ Reload(w) \/ ReloadStart(w) \/ Restart(w))
  <2>1. StoreTyped /\ BoundsTyped
    BY <1>3, <1>5 DEF store, bounds
  <2>2. ASSUME NEW c \in Config, Starts(w, c) PROVE GatewayTyped
    BY <2>2, NoConfigTyped DEF Starts
  <2>3. ASSUME NEW c \in Config, StartFails(c) PROVE GatewayTyped
    BY <1>3, <2>3 DEF StartFails, gateway
  <2>4. (Stops \/ StopFails) => GatewayTyped
    BY DEF Stops, StopFails, TypeOK
  <2>5. CASE Start(w) \/ ReloadStart(w) \/ Reload(w)
    <3>1. Candidate(w) \in Config
      BY <1>2, <2>5, CandidateTyped DEF Start, ReloadStart, Reload, Serving
    <3> QED
      BY <1>3, <2>1, <2>2, <2>3, <2>4, <2>5, <3>1 DEF Start, ReloadStart, Reload, gateway
  <2>6. CASE Stop(w)
    BY <2>1, <2>4, <2>6 DEF Stop
  <2>7. CASE Restart(w)
    BY <1>2, <2>1, <2>2, <2>3, <2>7 DEF Restart, Serving
  <2> QED
    BY <1>5, <2>5, <2>6, <2>7
<1>6. CASE /\ UNCHANGED <<gateway, crashes>>
           /\ \/ PutProfile(w) \/ ValidateProfile(w) \/ WriteProfileConfig(w) \/ Restore(w)
              \/ Relook(w) \/ CleanProfile(w) \/ CreatePolicy(w) \/ ValidateNetwork(w)
              \/ WriteNetworkConfig(w) \/ WritePolicy(w)
  <2>1. GatewayTyped /\ crashes' \in 0 .. MaxCrashes
    BY <1>3, <1>6 DEF gateway
  <2>2. Cleaned(w) => files' \subseteq Profiles
    BY DEF Cleaned, TypeOK
  <2>3. Withdrawn(w) => document' \in Document \cup {Missing}
    BY DEF Withdrawn, TypeOK
  <2>4. CASE PutProfile(w)
    <3>1. req[w].wish.profile \in Profiles
      BY <1>1, <2>4 DEF Shaped, PutProfile, Serving
    <3> QED
      BY <1>3, <2>1, <2>4, <3>1 DEF PutProfile, TypeOK
  <2>5. CASE ValidateProfile(w) \/ CleanProfile(w)
    BY <1>3, <2>1, <2>2, <2>5 DEF ValidateProfile, CleanProfile, TypeOK, bounds
  <2>6. CASE WriteProfileConfig(w) \/ WriteNetworkConfig(w)
    <3>1. Candidate(w) \in Config
      BY <1>2, <2>6, CandidateTyped DEF WriteProfileConfig, WriteNetworkConfig, Serving
    <3> QED
      BY <1>3, <2>1, <2>2, <2>3, <2>6, <3>1 DEF WriteProfileConfig, WriteNetworkConfig, TypeOK
  <2>7. CASE Restore(w)
    <3>1. req[w].original \in Config
      BY <1>1, <2>7 DEF Shaped, Restore, Serving
    <3> QED
      BY <1>3, <2>1, <2>7, <3>1 DEF Restore, TypeOK
  <2>8. CASE Relook(w)
    BY <1>3, <2>1, <2>8 DEF Relook, TypeOK, store
  <2>9. CASE CreatePolicy(w) \/ ValidateNetwork(w)
    BY <1>3, <2>1, <2>3, <2>9 DEF CreatePolicy, ValidateNetwork, TypeOK, bounds, Document
  <2>10. CASE WritePolicy(w)
    <3>1. req[w].wish.document \in Document
      BY <1>1, <2>10 DEF Shaped, WritePolicy
    <3> QED
      BY <1>3, <2>1, <2>10, <3>1 DEF WritePolicy, TypeOK
  <2> QED
    BY <1>6, <2>4, <2>5, <2>6, <2>7, <2>8, <2>9, <2>10
<1> QED
  BY <1>4, <1>5, <1>6, StepKinds

LEMMA DeathStep ==
    ASSUME TypeOK, ShapeInv, ServiceDies
    PROVE  /\ TypeOK' /\ ShapeInv' /\ UNCHANGED <<config, document, files, status, applied, unrestored>>
           /\ \A w \in Workers : req'[w] = Idle
<1>1. \A w \in Workers : req'[w] = Idle
  BY DEF ServiceDies
<1>2. ShapeInv'
  BY <1>1, IdleTyped DEF ServiceDies, ShapeInv
<1>3. UNCHANGED <<config, document, files, status, applied, unrestored, faults>>
  BY DEF ServiceDies, store, gateway
<1>4. crashes' \in 0 .. MaxCrashes
  BY BoundAssumption DEF ServiceDies, TypeOK
<1>5. \A w \in Workers : /\ req'[w].kind \in Kinds \cup {"none"} /\ req'[w].at \in Labels
                         /\ req'[w].cfg \in Config \cup {NoConfig} /\ req'[w].original \in Config \cup {NoConfig}
  BY <1>1, IdleTyped DEF Request
<1> QED
  BY <1>1, <1>2, <1>3, <1>4, <1>5 DEF TypeOK

LEMMA TypeStep ==
    ASSUME TypeOK, ShapeInv, [Next]_vars
    PROVE  TypeOK' /\ ShapeInv'
<1>1. CASE UNCHANGED vars
  BY <1>1 DEF vars, store, gateway, bounds, TypeOK, ShapeInv, Shaped
<1>2. CASE ServiceDies
  BY <1>2, DeathStep
<1>3. ASSUME NEW w \in Workers, Step(w) PROVE TypeOK' /\ ShapeInv'
  <2>1. Moved(w) /\ Shaped(req'[w])
    BY <1>3, ShapeStep
  <2>2. ShapeInv'
    BY <2>1 DEF Moved, ShapeInv
  <2>3. \A v \in Workers : /\ req'[v].kind \in Kinds \cup {"none"} /\ req'[v].at \in Labels
                           /\ req'[v].cfg \in Config \cup {NoConfig} /\ req'[v].original \in Config \cup {NoConfig}
    BY <2>1 DEF Moved, Request
  <2> QED
    BY <1>3, <2>2, <2>3, StoreStep DEF TypeOK
<1> QED
  BY <1>1, <1>2, <1>3 DEF Next

LEMMA TypeStart == Init => TypeOK /\ ShapeInv
<1> SUFFICES ASSUME Init PROVE TypeOK /\ ShapeInv
  OBVIOUS
<1>1. \A w \in Workers : req[w] = Idle
  BY DEF Init
<1>2. ShapeInv
  BY <1>1, IdleTyped DEF Init, ShapeInv
<1>3. config \in Config
  BY DEF Init, Config, Profile
<1>4. \A w \in Workers : /\ req[w].kind \in Kinds \cup {"none"} /\ req[w].at \in Labels
                         /\ req[w].cfg \in Config \cup {NoConfig} /\ req[w].original \in Config \cup {NoConfig}
  BY <1>1, IdleTyped DEF Request
<1> QED
  BY <1>2, <1>3, <1>4, BoundAssumption DEF Init, TypeOK

LEMMA ShapeCorrect == Spec => [](TypeOK /\ ShapeInv)
<1>1. (TypeOK /\ ShapeInv) /\ [Next]_vars => (TypeOK /\ ShapeInv)'
  BY TypeStep
<1> QED
  BY <1>1, TypeStart, PTL DEF Spec

\* Configurations, documents, profiles and requests have their types, and a gateway
\* that runs was started with a configuration, whatever requests overlap.
THEOREM ConfigTypeCorrect == Spec => []TypeOK
<1> QED
  BY ShapeCorrect, PTL

-----------------------------------------------------------------------------
(* Which requests may be served at a time *)

\* Two requests that are served at a time are of kinds that may overlap.
PairsInv ==
    \A v, w \in Workers : v # w /\ req[v].at # "idle" /\ req[w].at # "idle" =>
        {req[v].kind, req[w].kind} \in Overlaps

\* A step of a request that is served ends it or gets it on.
LEMMA StepGets ==
    ASSUME TypeOK, ShapeInv, NEW w \in Workers, Step(w)
    PROVE  \/ Arrives(w)
           \/ req[w].at # "idle" /\ (req'[w].at = "idle" \/ Gets(req[w], req'[w], req'[w].at))
<1> DEFINE Goes == req'[w].at = "idle" \/ Gets(req[w], req'[w], req'[w].at)
<1>0. req[w] \in Request
  BY DEF ShapeInv
<1>1. ASSUME NEW a \in {"none", "error", "preserved", "unrestored"}, Reply(w, a) PROVE Goes
  BY <1>1, ReplyMoves DEF Ends
<1>2. ASSUME NEW l \in Labels, Goto(w, l) PROVE Goes
  BY <1>2, GotoMoves DEF Gets
<1>3. ASSUME NEW a \in {"none", "error", "preserved", "unrestored"}, Cleanup(w, a) PROVE Goes
  BY <1>3, CleanupMoves DEF Gets
<1>4. ASSUME NEW l \in Labels, \/ req' = [req EXCEPT ![w].original = config, ![w].at = l]
                              \/ req' = [req EXCEPT ![w].cfg = config, ![w].at = l]
      PROVE  Goes
  BY <1>4, ReadMoves, LoadMoves DEF Gets
<1>5. ASSUME NEW l \in Labels, NEW b \in BOOLEAN, \/ req' = [req EXCEPT ![w].wasRunning = b, ![w].at = l]
                                                 \/ req' = [req EXCEPT ![w].created = b, ![w].at = l]
      PROVE  Goes
  BY <1>5, RunningMoves, CreatedMoves DEF Gets
<1> HIDE DEF Goes
<1>6. Done(w) \/ Reply(w, "error") => Goes
  BY <1>1 DEF Done
<1>7. CASE Open(w) \/ Compare(w) \/ ReadOriginal(w)
  BY <1>2, <1>4, <1>6, <1>7 DEF Open, Compare, ReadOriginal, Serving, Labels, Goes
<1>8. CASE LoadConfig(w)
  <2> DEFINE l == CASE req[w].kind \in {"profile", "network"} -> "look"
                    [] req[w].kind = "policy" -> "stat"
                    [] OTHER -> req[w].kind
  <2>1. Reply(w, "error") \/ req' = [req EXCEPT ![w].cfg = config, ![w].at = l]
    BY <1>8 DEF LoadConfig
  <2>2. req[w].at = "load"
    BY <1>8 DEF LoadConfig, Serving
  <2>3. req[w].kind \in Kinds
    BY <1>0, <2>2 DEF Request, ShapeInv, Shaped
  <2>4. l \in {"look", "stat", "start", "stop", "reload"}
    BY <2>3 DEF Kinds, Edits
  <2> HIDE DEF l
  <2>5. l \in Labels
    BY <2>4 DEF Labels
  <2> QED
    BY <1>4, <1>6, <2>1, <2>2, <2>5 DEF Goes
<1>9. CASE Look(w)
  <2>1. (status # "stopped") \in BOOLEAN /\ "stat" \in Labels /\ "create" \in Labels
    BY DEF Labels
  <2> QED
    BY <1>2, <1>5, <1>6, <1>9, <2>1 DEF Look, Serving, Goes
<1>10. CASE StatProfile(w)
  <2>1. (req[w].wish.profile \notin files) \in BOOLEAN /\ "put" \in Labels
    BY DEF Labels
  <2> QED
    BY <1>5, <1>6, <1>10, <2>1 DEF StatProfile, Serving, Goes
<1>11. CASE CreatePolicy(w)
  <2>1. (req[w].wish.policyOn /\ ~req[w].cfg.policyOn) \in BOOLEAN /\ "validate" \in Labels
    BY DEF Labels
  <2> QED
    BY <1>5, <1>6, <1>11, <2>1 DEF CreatePolicy, Serving, Goes
<1>12. CASE PutProfile(w) \/ ValidateProfile(w) \/ WriteProfileConfig(w)
  BY <1>2, <1>6, <1>12 DEF PutProfile, ValidateProfile, WriteProfileConfig, Serving, Labels, Goes
<1>13. CASE Restore(w) \/ Relook(w) \/ Restart(w)
  BY <1>2, <1>3, <1>13 DEF Restore, Relook, Restart, Serving, Labels, Goes
<1>14. CASE CleanProfile(w)
  <2>1. req[w].reply \in {"none", "error", "preserved", "unrestored"}
    BY <1>0 DEF Request
  <2> QED
    BY <1>1, <1>14, <2>1 DEF CleanProfile, Serving, Goes
<1>15. CASE ValidateNetwork(w) \/ WriteNetworkConfig(w) \/ ComparePolicy(w) \/ ValidatePolicy(w) \/ WritePolicy(w)
  BY <1>2, <1>6, <1>15
     DEF ValidateNetwork, WriteNetworkConfig, ComparePolicy, ValidatePolicy, WritePolicy, Serving, Labels, Goes
<1>16. CASE Start(w) \/ Stop(w) \/ Reload(w) \/ ReloadStart(w)
  BY <1>2, <1>6, <1>16 DEF Start, Stop, Reload, ReloadStart, ReloadFails, Serving, Labels, Goes
<1> QED
  BY <1>7, <1>8, <1>9, <1>10, <1>11, <1>12, <1>13, <1>14, <1>15, <1>16 DEF Step, Goes

LEMMA PairsStep ==
    ASSUME TypeOK, ShapeInv, PairsInv, [Next]_vars
    PROVE  PairsInv'
<1>1. CASE UNCHANGED vars
  BY <1>1 DEF vars, PairsInv
<1>2. CASE ServiceDies
  BY <1>2, DeathStep, IdleTyped DEF PairsInv
<1>3. ASSUME NEW w \in Workers, Step(w) PROVE PairsInv'
  <2>1. Moved(w)
    BY <1>3, ShapeStep
  <2>2. ASSUME NEW v \in Workers, v # w, req'[v].at # "idle", req'[w].at # "idle"
        PROVE  {req'[v].kind, req'[w].kind} \in Overlaps
    <3>1. req'[v] = req[v]
      BY <2>1, <2>2 DEF Moved
    <3>2. CASE Arrives(w)
      <4>1. {req'[w].kind, req[v].kind} \in Overlaps
        BY <2>2, <3>1, <3>2, ArrivalMoves
      <4>2. {req'[v].kind, req'[w].kind} = {req'[w].kind, req[v].kind}
        BY <3>1
      <4> QED
        BY <4>1, <4>2
    <3>3. CASE req[w].at # "idle" /\ Gets(req[w], req'[w], req'[w].at)
      BY <2>2, <3>1, <3>3 DEF PairsInv, Gets
    <3> QED
      BY <1>3, <2>2, <3>2, <3>3, StepGets
  <2>3. ASSUME NEW v \in Workers, v # w, req'[v].at # "idle", req'[w].at # "idle"
        PROVE  {req'[w].kind, req'[v].kind} \in Overlaps
    <3>1. {req'[w].kind, req'[v].kind} = {req'[v].kind, req'[w].kind}
      OBVIOUS
    <3> QED
      BY <2>2, <2>3, <3>1
  <2>4. ASSUME NEW u \in Workers, NEW v \in Workers, u # v, u # w, v # w, req'[u].at # "idle", req'[v].at # "idle"
        PROVE  {req'[u].kind, req'[v].kind} \in Overlaps
    BY <2>1, <2>4 DEF Moved, PairsInv
  <2> QED
    BY <2>2, <2>3, <2>4 DEF PairsInv
<1> QED
  BY <1>1, <1>2, <1>3 DEF Next

LEMMA PairsCorrect == Spec => []PairsInv
<1>1. Init => PairsInv
  BY IdleTyped DEF Init, PairsInv
<1>2. TypeOK /\ ShapeInv /\ PairsInv /\ [Next]_vars => PairsInv'
  BY PairsStep
<1> QED
  BY <1>1, <1>2, ShapeCorrect, PTL DEF Spec

\* Edits of the same file are not served at a time, nor are an edit of the network and
\* one of what is held against it.
EditsApart ==
    {{"profile"}, {"network"}, {"policy"}, {"profile", "network"}, {"network", "policy"}} \cap Overlaps = {}

LEMMA EditsAlone ==
    ASSUME EditsApart, ShapeInv, PairsInv, NEW v \in Workers, NEW w \in Workers, v # w, req[w].at # "idle"
    PROVE  /\ req[w].kind = "profile" => req[v].kind \notin {"profile", "network"}
           /\ req[w].kind = "network" => req[v].kind \notin {"profile", "network", "policy"}
           /\ req[w].kind = "policy" => req[v].kind \notin {"network", "policy"}
<1>1. req[v].kind = "none" <=> req[v].at = "idle"
  BY DEF ShapeInv, Shaped
<1>2. CASE req[v].at = "idle"
  BY <1>1, <1>2
<1>3. CASE req[v].at # "idle"
  <2>1. {req[v].kind, req[w].kind} \in Overlaps
    BY <1>3 DEF PairsInv
  <2>2. /\ {"profile", "profile"} \notin Overlaps /\ {"network", "network"} \notin Overlaps
        /\ {"policy", "policy"} \notin Overlaps
        /\ {"profile", "network"} \notin Overlaps /\ {"network", "profile"} \notin Overlaps
        /\ {"network", "policy"} \notin Overlaps /\ {"policy", "network"} \notin Overlaps
    <3>1. /\ {"profile", "profile"} = {"profile"} /\ {"network", "network"} = {"network"}
          /\ {"policy", "policy"} = {"policy"} /\ {"network", "profile"} = {"profile", "network"}
          /\ {"policy", "network"} = {"network", "policy"}
      OBVIOUS
    <3> QED
      BY <3>1 DEF EditsApart
  <2> QED
    BY <2>1, <2>2
<1> QED
  BY <1>2, <1>3

-----------------------------------------------------------------------------
(* What an edit keeps while no other edit of the same files is served *)

\* An edit of the configuration finds it as its client has seen it, up to its own
\* write and again after it has been taken back.
Kept(r, c, f) ==
    r.kind \in {"profile", "network"} =>
        /\ r.seen.files \subseteq f
        /\ r.at \notin {"open", "compare"} => ~r.stale
        /\ r.at \notin {"open", "compare", "read", "load"} => r.cfg = r.seen.config
        /\ r.at \notin {"reload", "reload_start", "restore", "clean"} => r.seen.config = c
        /\ r.at = "clean" /\ r.reply # "unrestored" => r.seen.config = c

\* A profile that is configured is there, and what is taken back was not there before.
ProfileKept(r, c, f, u) ==
    r.kind = "profile" =>
        /\ r.at \notin {"open", "compare", "read"} => r.original = r.seen.config
        /\ r.created => r.wish.profile \notin r.seen.files
        /\ r.at \in {"write", "reload", "reload_start", "restore"} => r.wish.profile \in f
        /\ r.at \in {"reload", "reload_start", "restore"} =>
              c = [r.seen.config EXCEPT !.profile = r.wish.profile]
        /\ r.at = "clean" /\ r.reply = "unrestored" => u

\* The document in use is the one the client has seen, or this request has made it.
NetworkKept(r, c, d) ==
    r.kind = "network" =>
        /\ r.created => ~r.seen.config.policyOn
        /\ c.policyOn => r.seen.document = d
        /\ r.at = "write" /\ r.wish.policyOn => Fits(d, r.wish.network)

\* The document that was compared is there, and so is the network it is held against.
PolicyKept(r, c, d) ==
    r.kind = "policy" =>
        /\ r.at \in {"stat", "validate", "write"} => r.cfg.network = c.network
        /\ r.at \in {"validate", "write"} => ~r.stale /\ r.seen.document = d
        /\ r.at = "write" => Fits(r.wish.document, c.network)

AllKept(r, c, f, d, u) ==
    Kept(r, c, f) /\ ProfileKept(r, c, f, u) /\ NetworkKept(r, c, d) /\ PolicyKept(r, c, d)

KeptInv == \A w \in Workers : AllKept(req[w], config, files, document, unrestored)

\* Which files a request may write.
LEMMA StepWrites ==
    ASSUME TypeOK, ShapeInv, NEW w \in Workers, AllKept(req[w], config, files, document, unrestored), Step(w)
    PROVE  /\ req[w].kind \notin {"profile", "network"} => config' = config
           /\ req[w].kind # "profile" => files' = files
           /\ req[w].kind \notin {"network", "policy"} => document' = document
           /\ req[w].kind = "profile" => config'.network = config.network /\ config'.policyOn = config.policyOn
           /\ unrestored => unrestored'
<1>1. req[w] \in Request /\ Shaped(req[w]) /\ config \in Config
  BY DEF ShapeInv, TypeOK
<1>2. CASE UNCHANGED <<config, document, files, unrestored>>
  BY <1>2
<1>3. CASE PutProfile(w) \/ ValidateProfile(w) \/ CleanProfile(w)
  BY <1>1, <1>3 DEF PutProfile, ValidateProfile, CleanProfile, bounds, Serving, Shaped
<1>4. CASE WriteProfileConfig(w)
  <2>1. req[w].cfg = config /\ req[w].cfg \in Config /\ req[w].kind = "profile"
    BY <1>1, <1>4 DEF WriteProfileConfig, Serving, AllKept, Kept, Shaped
  <2>2. Candidate(w).network = config.network /\ Candidate(w).policyOn = config.policyOn
    BY <2>1, CandidateTyped
  <2> QED
    BY <1>4, <2>1, <2>2 DEF WriteProfileConfig
<1>5. CASE Restore(w)
  <2>1. /\ req[w].kind = "profile" /\ req[w].original = req[w].seen.config /\ req[w].original \in Config
        /\ config = [req[w].seen.config EXCEPT !.profile = req[w].wish.profile]
    BY <1>1, <1>5 DEF Restore, Serving, AllKept, ProfileKept, Shaped
  <2>2. config.network = req[w].original.network /\ config.policyOn = req[w].original.policyOn
    BY <2>1 DEF Config
  <2>3. config' \in {config, req[w].original} /\ (unrestored => unrestored') /\ UNCHANGED <<document, files>>
    BY <1>5 DEF Restore
  <2> QED
    BY <2>1, <2>2, <2>3
<1>6. CASE CreatePolicy(w) \/ ValidateNetwork(w)
  BY <1>1, <1>6 DEF CreatePolicy, ValidateNetwork, bounds, Serving, Shaped
<1>7. CASE WriteNetworkConfig(w) \/ WritePolicy(w)
  BY <1>1, <1>7 DEF WriteNetworkConfig, WritePolicy, Serving, Shaped
<1>8. CASE Relook(w)
  BY <1>2, <1>8 DEF Relook, store
<1>9. CASE Looks \/ UNCHANGED <<store, bounds>>
  BY <1>2, <1>9 DEF Looks, store, bounds
<1> QED
  BY <1>3, <1>4, <1>5, <1>6, <1>7, <1>8, <1>9, StepKinds

\* A step of a request keeps what the other requests go by.
LEMMA OthersKept ==
    ASSUME EditsApart, TypeOK, ShapeInv, PairsInv, KeptInv,
           NEW w \in Workers, Step(w), NEW v \in Workers, v # w
    PROVE  AllKept(req'[v], config', files', document', unrestored')
<1>1. req'[v] = req[v] /\ AllKept(req[v], config, files, document, unrestored)
  BY ShapeStep DEF Moved, KeptInv
<1>2. CASE req[w].at = "idle"
  <2>1. Arrives(w)
    BY <1>2, StepGets
  <2> QED
    BY <1>1, <2>1 DEF Arrives, Looks, store, bounds
<1>3. CASE req[w].at # "idle"
  <2>1. /\ req[w].kind = "profile" => req[v].kind \notin {"profile", "network"}
        /\ req[w].kind = "network" => req[v].kind \notin {"profile", "network", "policy"}
        /\ req[w].kind = "policy" => req[v].kind \notin {"network", "policy"}
    BY <1>3, EditsAlone
  <2>2. /\ req[w].kind \notin {"profile", "network"} => config' = config
        /\ req[w].kind # "profile" => files' = files
        /\ req[w].kind \notin {"network", "policy"} => document' = document
        /\ req[w].kind = "profile" => config'.network = config.network /\ config'.policyOn = config.policyOn
        /\ unrestored => unrestored'
    BY StepWrites DEF KeptInv
  <2>3. Kept(req[v], config', files')
    BY <1>1, <2>1, <2>2 DEF AllKept, Kept
  <2>4. ProfileKept(req[v], config', files', unrestored')
    BY <1>1, <2>1, <2>2 DEF AllKept, ProfileKept
  <2>5. NetworkKept(req[v], config', document')
    BY <1>1, <2>1, <2>2 DEF AllKept, NetworkKept
  <2>6. PolicyKept(req[v], config', document')
    BY <1>1, <2>1, <2>2 DEF AllKept, PolicyKept
  <2> QED
    BY <1>1, <2>3, <2>4, <2>5, <2>6 DEF AllKept
<1> QED
  BY <1>2, <1>3

\* What was made and is taken back is not what the client has seen.
LEMMA CleanedKeeps ==
    ASSUME NEW w \in Workers, AllKept(req[w], config, files, document, unrestored),
           req[w].kind = "profile", Cleaned(w)
    PROVE  /\ req[w].seen.files \subseteq files'
           /\ \A p : p \in files /\ p \notin files' => p = req[w].wish.profile /\ p \notin req[w].seen.files
<1>1. req[w].seen.files \subseteq files /\ (req[w].created => req[w].wish.profile \notin req[w].seen.files)
  BY DEF AllKept, Kept, ProfileKept
<1> QED
  BY <1>1 DEF Cleaned

LEMMA OwnKept ==
    ASSUME TypeOK, ShapeInv, NEW w \in Workers, AllKept(req[w], config, files, document, unrestored), Step(w)
    PROVE  AllKept(req'[w], config', files', document', unrestored')
<1> DEFINE Goal == AllKept(req'[w], config', files', document', unrestored')
<1>0. req[w] \in Request /\ Shaped(req[w]) /\ config \in Config
  BY DEF ShapeInv, TypeOK
<1>1. ASSUME Ends(req'[w], req'[w].reply) PROVE Goal
  BY <1>1 DEF Ends, AllKept, Kept, ProfileKept, NetworkKept, PolicyKept
<1>2. ASSUME NEW a \in {"none", "error", "preserved", "unrestored"}, Reply(w, a) PROVE Goal
  BY <1>1, <1>2, ReplyMoves DEF Ends
<1>3. Done(w) \/ Reply(w, "error") => Goal
  BY <1>2 DEF Done
<1>4. Looks => UNCHANGED <<config, files, document, unrestored>>
  BY DEF Looks, store, bounds
<1>5. CASE Arrives(w)
  <2>1. /\ req'[w].at = "open" /\ req'[w].seen = Sees(req'[w].kind) /\ ~req'[w].created
        /\ UNCHANGED <<config, files, document, unrestored>>
    BY <1>4, <1>5, ArrivalMoves DEF Arrives
  <2>2. /\ req'[w].kind \in {"profile", "network"} =>
              req'[w].seen.config = config /\ req'[w].seen.files = files
        /\ req'[w].kind = "network" => req'[w].seen.document = document
    BY <2>1 DEF Sees
  <2> QED
    BY <2>1, <2>2 DEF AllKept, Kept, ProfileKept, NetworkKept, PolicyKept
<1>6. CASE Open(w)
  <2>1. ASSUME NEW l \in {"compare", "load"}, Goto(w, l), l = "load" => req[w].kind \notin {"profile", "network"}
        PROVE  Goal
    <3>1. /\ Gets(req[w], req'[w], l) /\ req'[w].cfg = req[w].cfg /\ req'[w].original = req[w].original
          /\ req'[w].created = req[w].created
      BY <2>1, GotoMoves DEF Labels
    <3> QED
      BY <1>4, <1>6, <2>1, <3>1 DEF Open, Serving, Gets, AllKept, Kept, ProfileKept, NetworkKept, PolicyKept
  <2> QED
    BY <1>3, <1>6, <2>1 DEF Open
<1>7. CASE Compare(w)
  <2>1. ASSUME NEW l \in {"read", "load"}, Goto(w, l), l = (IF req[w].kind = "profile" THEN "read" ELSE "load"),
               ~req[w].stale
        PROVE  Goal
    <3>1. /\ Gets(req[w], req'[w], l) /\ req'[w].cfg = req[w].cfg /\ req'[w].original = req[w].original
          /\ req'[w].created = req[w].created
      BY <2>1, GotoMoves DEF Labels
    <3> QED
      BY <1>4, <1>7, <2>1, <3>1 DEF Compare, Serving, Gets, AllKept, Kept, ProfileKept, NetworkKept, PolicyKept
  <2> QED
    BY <1>3, <1>7, <2>1 DEF Compare
<1>8. CASE ReadOriginal(w)
  <2>1. CASE req' = [req EXCEPT ![w].original = config, ![w].at = "load"]
    <3>1. /\ Gets(req[w], req'[w], "load") /\ req'[w].original = config /\ req'[w].cfg = req[w].cfg
          /\ req'[w].created = req[w].created
      BY <2>1, ReadMoves DEF Labels
    <3>2. req[w].kind = "profile" /\ req[w].at = "read"
      BY <1>0, <1>8 DEF Shaped, ReadOriginal, Serving
    <3> QED
      BY <1>4, <1>8, <3>1, <3>2 DEF ReadOriginal, Gets, AllKept, Kept, ProfileKept, NetworkKept, PolicyKept
  <2> QED
    BY <1>3, <1>8, <2>1 DEF ReadOriginal
<1>9. CASE LoadConfig(w)
  <2> DEFINE l == CASE req[w].kind \in {"profile", "network"} -> "look"
                    [] req[w].kind = "policy" -> "stat"
                    [] OTHER -> req[w].kind
  <2>1. req[w].at = "load" /\ req[w].kind \in Kinds
    BY <1>0, <1>9 DEF LoadConfig, Serving, Request, Shaped
  <2>2. CASE req' = [req EXCEPT ![w].cfg = config, ![w].at = l]
    <3>1. l \in {"look", "stat", "start", "stop", "reload"}
      BY <2>1 DEF Kinds, Edits
    <3>2. req[w].kind \in {"profile", "network"} => l = "look"
      OBVIOUS
    <3>3. req[w].kind = "policy" => l = "stat"
      OBVIOUS
    <3> HIDE DEF l
    <3>4. l \in Labels
      BY <3>1 DEF Labels
    <3>5. /\ Gets(req[w], req'[w], l) /\ req'[w].original = req[w].original /\ req'[w].cfg = config
          /\ req'[w].created = req[w].created
      BY <2>2, <3>4, LoadMoves
    <3>6. UNCHANGED <<config, files, document, unrestored>>
      BY <1>4, <1>9 DEF LoadConfig
    <3> QED
      BY <2>1, <3>1, <3>2, <3>3, <3>5, <3>6 DEF Gets, AllKept, Kept, ProfileKept, NetworkKept, PolicyKept
  <2> QED
    BY <1>3, <1>9, <2>2 DEF LoadConfig
<1>10. CASE Look(w)
  <2>1. CASE /\ req[w].kind = "profile"
             /\ req' = [req EXCEPT ![w].wasRunning = (status # "stopped"), ![w].at = "stat"]
    <3>1. /\ Gets(req[w], req'[w], "stat") /\ req'[w].cfg = req[w].cfg /\ req'[w].original = req[w].original
          /\ req'[w].created = req[w].created
      BY <2>1, RunningMoves DEF Labels
    <3> QED
      BY <1>4, <1>10, <2>1, <3>1 DEF Look, Serving, Gets, AllKept, Kept, ProfileKept, NetworkKept, PolicyKept
  <2>2. CASE req[w].kind = "network" /\ Goto(w, "create")
    <3>1. /\ Gets(req[w], req'[w], "create") /\ req'[w].cfg = req[w].cfg /\ req'[w].original = req[w].original
          /\ req'[w].created = req[w].created
      BY <2>2, GotoMoves DEF Labels
    <3> QED
      BY <1>4, <1>10, <2>2, <3>1 DEF Look, Serving, Gets, AllKept, Kept, ProfileKept, NetworkKept, PolicyKept
  <2> QED
    BY <1>3, <1>10, <2>1, <2>2 DEF Look
<1>11. CASE StatProfile(w)
  <2>1. CASE req' = [req EXCEPT ![w].created = (req[w].wish.profile \notin files), ![w].at = "put"]
    <3> DEFINE creates == (req[w].wish.profile \notin files)
    <3>1. creates \in BOOLEAN /\ req' = [req EXCEPT ![w].created = creates, ![w].at = "put"]
      BY <2>1
    <3> HIDE DEF creates
    <3>2. /\ Gets(req[w], req'[w], "put") /\ req'[w].cfg = req[w].cfg /\ req'[w].original = req[w].original
          /\ req'[w].created = creates
      BY <3>1, CreatedMoves DEF Labels
    <3>3. /\ Gets(req[w], req'[w], "put") /\ req'[w].cfg = req[w].cfg /\ req'[w].original = req[w].original
          /\ req'[w].created => req[w].wish.profile \notin files
      BY <3>2 DEF creates
    <3>4. req[w].seen.files \subseteq files
      BY <1>11 DEF StatProfile, AllKept, Kept
    <3>5. req'[w].created => req[w].wish.profile \notin req[w].seen.files
      BY <3>3, <3>4
    <3> QED
      BY <1>4, <1>11, <3>3, <3>4, <3>5
         DEF StatProfile, Serving, Gets, AllKept, Kept, ProfileKept, NetworkKept, PolicyKept
  <2> QED
    BY <1>3, <1>11, <2>1 DEF StatProfile
<1>12. CASE PutProfile(w)
  <2>1. CASE Goto(w, "validate") /\ files' = files \cup {req[w].wish.profile}
    <3>1. /\ Gets(req[w], req'[w], "validate") /\ req'[w].cfg = req[w].cfg /\ req'[w].original = req[w].original
          /\ req'[w].created = req[w].created
      BY <2>1, GotoMoves DEF Labels
    <3>2. req[w].kind = "profile" /\ req[w].at = "put"
      BY <1>0, <1>12 DEF Shaped, PutProfile, Serving
    <3> QED
      BY <1>12, <2>1, <3>1, <3>2 DEF PutProfile, Gets, AllKept, Kept, ProfileKept, NetworkKept, PolicyKept
  <2> QED
    BY <1>3, <1>12, <2>1 DEF PutProfile
<1>13. CASE ValidateProfile(w)
  <2>1. CASE Goto(w, "write") /\ req[w].wish.profile \in files /\ UNCHANGED files
    <3>1. /\ Gets(req[w], req'[w], "write") /\ req'[w].cfg = req[w].cfg /\ req'[w].original = req[w].original
          /\ req'[w].created = req[w].created
      BY <2>1, GotoMoves DEF Labels
    <3> QED
      BY <1>13, <2>1, <3>1
         DEF ValidateProfile, Serving, bounds, Gets, AllKept, Kept, ProfileKept, NetworkKept, PolicyKept
  <2> QED
    BY <1>3, <1>13, <2>1 DEF ValidateProfile
<1>14. CASE WriteProfileConfig(w)
  <2>1. CASE config' = Candidate(w) /\ Goto(w, "reload") /\ UNCHANGED files
    <3>1. /\ Gets(req[w], req'[w], "reload") /\ req'[w].cfg = req[w].cfg /\ req'[w].original = req[w].original
          /\ req'[w].created = req[w].created
      BY <2>1, GotoMoves DEF Labels
    <3>2. req[w].kind = "profile" /\ req[w].at = "write" /\ req[w].cfg = req[w].seen.config
      BY <1>14 DEF WriteProfileConfig, Serving, AllKept, Kept
    <3>3. config' = [req[w].seen.config EXCEPT !.profile = req[w].wish.profile]
      BY <2>1, <3>2 DEF Candidate
    <3> QED
      BY <1>14, <2>1, <3>1, <3>2, <3>3
         DEF WriteProfileConfig, Gets, AllKept, Kept, ProfileKept, NetworkKept, PolicyKept
  <2> QED
    BY <1>3, <1>14, <2>1 DEF WriteProfileConfig
<1>15. CASE Restore(w)
  <2>0. req[w].kind = "profile" /\ req[w].at = "restore" /\ UNCHANGED files
    BY <1>0, <1>15 DEF Shaped, Restore, Serving
  <2>1. CASE config' = req[w].original /\ Goto(w, "relook")
    <3>1. /\ Gets(req[w], req'[w], "relook") /\ req'[w].cfg = req[w].cfg /\ req'[w].original = req[w].original
          /\ req'[w].created = req[w].created
      BY <2>1, GotoMoves DEF Labels
    <3> QED
      BY <2>0, <2>1, <3>1 DEF Gets, AllKept, Kept, ProfileKept, NetworkKept, PolicyKept
  <2>2. CASE unrestored' = TRUE /\ Cleanup(w, "unrestored")
    <3>1. /\ Gets(req[w], req'[w], "clean") /\ req'[w].cfg = req[w].cfg /\ req'[w].original = req[w].original
          /\ req'[w].created = req[w].created /\ req'[w].reply = "unrestored"
      BY <2>2, CleanupMoves
    <3> QED
      BY <2>0, <2>2, <3>1 DEF Gets, AllKept, Kept, ProfileKept, NetworkKept, PolicyKept
  <2> QED
    BY <1>15, <2>1, <2>2 DEF Restore
<1>16. ASSUME NEW a \in {"preserved", "error"}, Cleanup(w, a), req[w].kind = "profile", req[w].at \in {"relook", "restart"},
              UNCHANGED <<config, files, document, unrestored>>
       PROVE  Goal
  <2>1. /\ Gets(req[w], req'[w], "clean") /\ req'[w].cfg = req[w].cfg /\ req'[w].original = req[w].original
        /\ req'[w].created = req[w].created /\ req'[w].reply = a
    BY <1>16, CleanupMoves
  <2> QED
    BY <1>16, <2>1 DEF Gets, AllKept, Kept, ProfileKept, NetworkKept, PolicyKept
<1>17. CASE Relook(w)
  <2>0. /\ req[w].kind = "profile" /\ req[w].at = "relook"
        /\ UNCHANGED <<config, files, document, unrestored>>
    BY <1>0, <1>17 DEF Shaped, Relook, Serving, store
  <2>1. CASE Goto(w, "restart")
    <3>1. /\ Gets(req[w], req'[w], "restart") /\ req'[w].cfg = req[w].cfg /\ req'[w].original = req[w].original
          /\ req'[w].created = req[w].created
      BY <2>1, GotoMoves DEF Labels
    <3> QED
      BY <2>0, <2>1, <3>1 DEF Gets, AllKept, Kept, ProfileKept, NetworkKept, PolicyKept
  <2> QED
    BY <1>16, <1>17, <2>0, <2>1 DEF Relook
<1>18. CASE Restart(w)
  <2>0. /\ req[w].kind = "profile" /\ req[w].at = "restart"
        /\ UNCHANGED <<config, files, document, unrestored>>
    BY <1>0, <1>18 DEF Shaped, Restart, Serving, store, bounds
  <2> QED
    BY <1>16, <1>18, <2>0 DEF Restart
<1>19. CASE CleanProfile(w)
  <2>1. req[w].reply \in {"none", "error", "preserved", "unrestored"}
    BY <1>0 DEF Request
  <2> QED
    BY <1>2, <1>19, <2>1 DEF CleanProfile
<1>20. CASE CreatePolicy(w)
  <2> DEFINE creates == req[w].wish.policyOn /\ ~req[w].cfg.policyOn
  <2>1. CASE /\ document' = IF creates THEN Empty ELSE document
             /\ req' = [req EXCEPT ![w].created = creates, ![w].at = "validate"]
    <3>1. creates \in BOOLEAN /\ (creates => ~req[w].cfg.policyOn) /\ (~creates => document' = document)
      BY <2>1
    <3> HIDE DEF creates
    <3>2. /\ Gets(req[w], req'[w], "validate") /\ req'[w].cfg = req[w].cfg /\ req'[w].original = req[w].original
          /\ req'[w].created = creates
      BY <2>1, <3>1, CreatedMoves DEF Labels
    <3>3. req[w].kind = "network" /\ req[w].at = "create" /\ UNCHANGED <<config, files, unrestored>>
      BY <1>0, <1>20 DEF Shaped, CreatePolicy, Serving
    <3>4. req[w].cfg = req[w].seen.config /\ req[w].seen.config = config
      BY <3>3 DEF AllKept, Kept
    <3> QED
      BY <3>1, <3>2, <3>3, <3>4 DEF Gets, AllKept, Kept, ProfileKept, NetworkKept, PolicyKept
  <2> QED
    BY <1>3, <1>20, <2>1 DEF CreatePolicy
<1>21. CASE ValidateNetwork(w)
  <2>1. CASE Loads(Candidate(w)) /\ Goto(w, "write") /\ UNCHANGED document
    <3>1. /\ Gets(req[w], req'[w], "write") /\ req'[w].cfg = req[w].cfg /\ req'[w].original = req[w].original
          /\ req'[w].created = req[w].created
      BY <2>1, GotoMoves DEF Labels
    <3>2. /\ req[w].kind = "network" /\ req[w].at = "validate" /\ req[w].cfg \in Config
          /\ UNCHANGED <<config, files, unrestored>>
      BY <1>0, <1>21 DEF Shaped, ValidateNetwork, Serving, bounds
    <3>3. req[w].wish.policyOn => Fits(document, req[w].wish.network)
      BY <2>1, <3>2, CandidateTyped DEF Loads
    <3> QED
      BY <2>1, <3>1, <3>2, <3>3 DEF Gets, AllKept, Kept, ProfileKept, NetworkKept, PolicyKept
  <2> QED
    BY <1>3, <1>21, <2>1 DEF ValidateNetwork
<1>22. CASE ComparePolicy(w)
  <2>1. CASE Goto(w, "validate") /\ ~req[w].stale /\ req[w].seen.document = document
    <3>1. /\ Gets(req[w], req'[w], "validate") /\ req'[w].cfg = req[w].cfg /\ req'[w].original = req[w].original
          /\ req'[w].created = req[w].created
      BY <2>1, GotoMoves DEF Labels
    <3> QED
      BY <1>4, <1>22, <2>1, <3>1
         DEF ComparePolicy, Serving, Gets, AllKept, Kept, ProfileKept, NetworkKept, PolicyKept
  <2> QED
    BY <1>3, <1>22, <2>1 DEF ComparePolicy
<1>23. CASE ValidatePolicy(w)
  <2>1. CASE Goto(w, "write") /\ Fits(req[w].wish.document, req[w].cfg.network)
    <3>1. /\ Gets(req[w], req'[w], "write") /\ req'[w].cfg = req[w].cfg /\ req'[w].original = req[w].original
          /\ req'[w].created = req[w].created
      BY <2>1, GotoMoves DEF Labels
    <3> QED
      BY <1>4, <1>23, <2>1, <3>1
         DEF ValidatePolicy, Serving, Gets, AllKept, Kept, ProfileKept, NetworkKept, PolicyKept
  <2> QED
    BY <1>3, <1>23, <2>1 DEF ValidatePolicy
<1>24. CASE WriteNetworkConfig(w) \/ WritePolicy(w) \/ Start(w) \/ Stop(w)
  BY <1>3, <1>24 DEF WriteNetworkConfig, WritePolicy, Start, Stop
<1>25. CASE Reload(w) \/ ReloadStart(w)
  <2>0. /\ req[w].at \in {"reload", "reload_start"} /\ req[w].kind \in {"profile", "reload"}
        /\ UNCHANGED <<config, files, document, unrestored>>
    BY <1>0, <1>25 DEF Shaped, Reload, ReloadStart, Serving, store, bounds
  <2>1. ASSUME NEW l \in {"reload_start", "restore"}, Goto(w, l) PROVE Goal
    <3>1. /\ Gets(req[w], req'[w], l) /\ req'[w].cfg = req[w].cfg /\ req'[w].original = req[w].original
          /\ req'[w].created = req[w].created
      BY <2>1, GotoMoves DEF Labels
    <3> QED
      BY <2>0, <2>1, <3>1 DEF Gets, AllKept, Kept, ProfileKept, NetworkKept, PolicyKept
  <2> QED
    BY <1>3, <1>25, <2>1 DEF Reload, ReloadStart, ReloadFails
<1> QED
  BY <1>5, <1>6, <1>7, <1>8, <1>9, <1>10, <1>11, <1>12, <1>13, <1>14, <1>15, <1>17, <1>18, <1>19, <1>20,
     <1>21, <1>22, <1>23, <1>24, <1>25 DEF Step

LEMMA IdleKept == \A c, f, d, u : AllKept(Idle, c, f, d, u)
BY IdleTyped DEF AllKept, Kept, ProfileKept, NetworkKept, PolicyKept

LEMMA KeptStep ==
    ASSUME EditsApart, TypeOK, ShapeInv, PairsInv, KeptInv, [Next]_vars
    PROVE  KeptInv'
<1>1. CASE UNCHANGED vars
  <2>1. UNCHANGED <<req, config, files, document, unrestored>>
    BY <1>1 DEF vars, store, bounds
  <2> QED
    BY <2>1 DEF KeptInv
<1>2. CASE ServiceDies
  <2>1. \A w \in Workers : req'[w] = Idle
    BY <1>2, DeathStep
  <2> QED
    BY <2>1, IdleKept DEF KeptInv
<1>3. ASSUME NEW w \in Workers, Step(w) PROVE KeptInv'
  BY <1>3, OwnKept, OthersKept DEF KeptInv
<1> QED
  BY <1>1, <1>2, <1>3 DEF Next

KeptState == TypeOK /\ ShapeInv /\ PairsInv /\ KeptInv

LEMMA KeptCorrect ==
    ASSUME EditsApart
    PROVE  Spec => []KeptState
<1>1. Init => KeptInv
  <2> SUFFICES ASSUME Init PROVE KeptInv
    OBVIOUS
  <2>1. \A w \in Workers : req[w] = Idle
    BY DEF Init
  <2> QED
    BY <2>1, IdleKept DEF KeptInv
<1>2. TypeOK /\ ShapeInv /\ PairsInv /\ KeptInv /\ [Next]_vars => KeptInv'
  BY KeptStep
<1> QED
  BY <1>1, <1>2, ShapeCorrect, PairsCorrect, PTL DEF Spec, KeptState

LEMMA LostUpdateStep ==
    ASSUME KeptState, [Next]_vars, NEW w \in Workers
    PROVE  /\ req[w].at = "write" /\ req'[w].at # "write" /\ config' # config =>
                 ~req[w].stale /\ config = req[w].seen.config
           /\ req[w].at = "write" /\ req[w].kind = "policy" /\ req'[w].at # "write" /\ document' # document =>
                 ~req[w].stale /\ document = req[w].seen.document
           /\ req[w].at = "restore" /\ req'[w].at # "restore" /\ config' # config =>
                 config = Candidate(w)
<1>1. /\ AllKept(req[w], config, files, document, unrestored) /\ Shaped(req[w]) /\ req[w] \in Request
      /\ TypeOK /\ ShapeInv
  BY DEF KeptState, KeptInv, ShapeInv
<1>2. ASSUME req[w].at = "write", req'[w].at # "write", config' # config
      PROVE  ~req[w].stale /\ config = req[w].seen.config
  <2>1. CASE req[w].kind \in {"profile", "network"}
    BY <1>1, <1>2, <2>1 DEF AllKept, Kept
  <2>2. CASE req[w].kind \notin {"profile", "network"}
    <3>1. ~UNCHANGED vars /\ ~ServiceDies
      BY <1>2 DEF vars, store, ServiceDies
    <3>2. PICK v \in Workers : Step(v)
      BY <3>1 DEF Next
    <3>3. v = w
      BY <1>1, <1>2, <3>2, ShapeStep DEF Moved
    <3> QED
      BY <1>1, <1>2, <2>2, <3>2, <3>3, StepWrites
  <2> QED
    BY <2>1, <2>2
<1>3. ASSUME req[w].at = "write", req[w].kind = "policy"
      PROVE  ~req[w].stale /\ document = req[w].seen.document
  BY <1>1, <1>3 DEF AllKept, PolicyKept
<1>4. ASSUME req[w].at = "restore"
      PROVE  config = Candidate(w)
  <2>1. /\ req[w].kind = "profile" /\ req[w].cfg = req[w].seen.config
        /\ config = [req[w].seen.config EXCEPT !.profile = req[w].wish.profile]
    BY <1>1, <1>4 DEF Shaped, AllKept, Kept, ProfileKept
  <2> QED
    BY <2>1 DEF Candidate
<1> QED
  BY <1>2, <1>3, <1>4

\* No edit is lost: a write replaces what its client has seen, and a request that takes
\* its candidate back takes back its own, as long as edits of the same file are not
\* served at a time.
THEOREM EditsAreNotLost ==
    ASSUME EditsApart
    PROVE  Spec => NoLostUpdate
<1>1. KeptState /\ [Next]_vars =>
        [\A w \in Workers :
           /\ req[w].at = "write" /\ req'[w].at # "write" /\ config' # config =>
                ~req[w].stale /\ config = req[w].seen.config
           /\ req[w].at = "write" /\ req[w].kind = "policy" /\ req'[w].at # "write" /\ document' # document =>
                ~req[w].stale /\ document = req[w].seen.document
           /\ req[w].at = "restore" /\ req'[w].at # "restore" /\ config' # config =>
                config = Candidate(w)]_vars
  BY LostUpdateStep
<1>2. Spec => []KeptState
  BY KeptCorrect
<1> QED
  BY <1>1, <1>2, PTL DEF Spec, NoLostUpdate

LEMMA RefusedStep ==
    ASSUME KeptState, NEW w \in Workers, Step(w), req[w].kind \in {"profile", "network"},
           req'[w].reply \in {"error", "preserved"}, req[w].at # "idle", req'[w].at = "idle"
    PROVE  /\ config' = req[w].seen.config
           /\ req[w].seen.files \subseteq files'
           /\ req[w].kind = "network" /\ config'.policyOn => document' = req[w].seen.document
<1> DEFINE Goal == /\ config' = req[w].seen.config
                   /\ req[w].seen.files \subseteq files'
                   /\ req[w].kind = "network" /\ config'.policyOn => document' = req[w].seen.document
<1>1. /\ AllKept(req[w], config, files, document, unrestored) /\ Shaped(req[w]) /\ req[w] \in Request
      /\ TypeOK /\ ShapeInv
  BY DEF KeptState, KeptInv, ShapeInv
<1>2. ~Done(w)
  BY <1>1, ReplyMoves DEF Done, Ends
<1>3. \A l \in Labels : l # "idle" => ~Goto(w, l)
  BY <1>1, GotoMoves DEF Gets
<1>4. \A a \in {"none", "error", "preserved", "unrestored"} : ~Cleanup(w, a)
  BY <1>1, CleanupMoves DEF Gets
<1>5. ASSUME UNCHANGED <<config, files, document>>, req[w].at \notin {"reload", "reload_start", "restore", "clean"}
      PROVE  Goal
  BY <1>1, <1>5 DEF AllKept, Kept, NetworkKept
<1>6. CASE Looks
  <2>1. CASE req[w].at \notin {"reload", "reload_start", "restore", "clean"}
    BY <1>5, <1>6, <2>1 DEF Looks, store
  <2>2. CASE req[w].at \in {"reload", "reload_start", "restore", "clean"}
    <3>1. ~Arrives(w) /\ ~Open(w) /\ ~Compare(w) /\ ~ReadOriginal(w) /\ ~LoadConfig(w) /\ ~Look(w)
          /\ ~StatProfile(w) /\ ~ComparePolicy(w) /\ ~ValidatePolicy(w)
      BY <2>2 DEF Arrives, Open, Compare, ReadOriginal, LoadConfig, Look, StatProfile, ComparePolicy, ValidatePolicy, Serving
    <3>2. ~PutProfile(w) /\ ~ValidateProfile(w) /\ ~WriteProfileConfig(w) /\ ~CreatePolicy(w)
          /\ ~ValidateNetwork(w) /\ ~WriteNetworkConfig(w) /\ ~WritePolicy(w) /\ ~Relook(w) /\ ~Restart(w)
          /\ ~Start(w) /\ ~Stop(w)
      BY <2>2 DEF PutProfile, ValidateProfile, WriteProfileConfig, CreatePolicy, ValidateNetwork,
                  WriteNetworkConfig, WritePolicy, Relook, Restart, Start, Stop, Serving
    <3>3. ~Restore(w)
      BY <1>3, <1>4 DEF Restore, Labels
    <3>4. ~Reload(w) /\ ~ReloadStart(w)
      BY <1>2, <1>3 DEF Reload, ReloadStart, ReloadFails, Labels
    <3>5. CleanProfile(w)
      BY <3>1, <3>2, <3>3, <3>4 DEF Step
    <3>6. req[w].reply = req'[w].reply /\ req[w].at = "clean"
      BY <1>1, <3>5, ReplyMoves DEF CleanProfile, Serving, Ends, Request
    <3> QED
      BY <1>1, <1>6, <3>6 DEF Looks, store, AllKept, Kept, NetworkKept
  <2> QED
    BY <2>1, <2>2
<1>7. CASE Start(w) \/ Stop(w) \/ Reload(w) \/ ReloadStart(w) \/ Restart(w)
  BY <1>2, <1>3, <1>4, <1>7 DEF Start, Stop, Reload, ReloadStart, Restart, ReloadFails, Labels
<1>8. CASE Restore(w) \/ Relook(w)
  BY <1>3, <1>4, <1>8 DEF Restore, Relook, Labels
<1>9. CASE PutProfile(w)
  <2>1. UNCHANGED <<config, files, document>> /\ req[w].at = "put"
    BY <1>3, <1>9 DEF PutProfile, Serving, Labels
  <2> QED
    BY <1>5, <2>1
<1>10. CASE ValidateProfile(w) \/ WriteProfileConfig(w) \/ CleanProfile(w)
  <2>1. req[w].kind = "profile" /\ UNCHANGED <<config, document>> /\ (Cleaned(w) \/ UNCHANGED files)
    BY <1>1, <1>2, <1>3, <1>10
       DEF ValidateProfile, WriteProfileConfig, CleanProfile, Serving, Shaped, Labels
  <2>2. req[w].at \in {"validate", "write", "clean"}
    BY <1>10 DEF ValidateProfile, WriteProfileConfig, CleanProfile, Serving
  <2>3. req[w].at = "clean" => req[w].reply = req'[w].reply
    <3>1. ASSUME CleanProfile(w) PROVE req[w].reply = req'[w].reply
      BY <1>1, <3>1, ReplyMoves DEF CleanProfile, Ends, Request
    <3> QED
      BY <1>10, <3>1 DEF ValidateProfile, WriteProfileConfig, Serving
  <2>4. req[w].seen.files \subseteq files'
    BY <1>1, <2>1, CleanedKeeps DEF AllKept, Kept
  <2>5. config' = req[w].seen.config
    BY <1>1, <2>1, <2>2, <2>3 DEF AllKept, Kept
  <2> QED
    BY <2>1, <2>4, <2>5
<1>11. CASE CreatePolicy(w)
  <2>1. CASE Reply(w, "error") /\ UNCHANGED document
    BY <1>5, <1>11, <2>1 DEF CreatePolicy, Serving
  <2>2. CASE req' = [req EXCEPT ![w].created = (req[w].wish.policyOn /\ ~req[w].cfg.policyOn), ![w].at = "validate"]
    <3> DEFINE creates == req[w].wish.policyOn /\ ~req[w].cfg.policyOn
    <3>1. req' = [req EXCEPT ![w].created = creates, ![w].at = "validate"] /\ creates \in BOOLEAN
      BY <2>2
    <3> HIDE DEF creates
    <3> QED
      BY <1>1, <3>1, CreatedMoves DEF Gets, Labels
  <2> QED
    BY <1>11, <2>1, <2>2 DEF CreatePolicy
<1>12. CASE ValidateNetwork(w) \/ WriteNetworkConfig(w)
  <2>1. /\ req[w].kind = "network" /\ req[w].at \in {"validate", "write"}
        /\ UNCHANGED <<config, files>> /\ Withdrawn(w)
    BY <1>2, <1>3, <1>12 DEF ValidateNetwork, WriteNetworkConfig, Serving, Labels
  <2>2. /\ req[w].seen.config = config /\ req[w].seen.files \subseteq files
        /\ (req[w].created => ~req[w].seen.config.policyOn)
        /\ config.policyOn => req[w].seen.document = document
    BY <1>1, <2>1 DEF AllKept, Kept, NetworkKept
  <2>3. config'.policyOn => document' = document
    BY <2>1, <2>2 DEF Withdrawn
  <2> QED
    BY <2>1, <2>2, <2>3
<1>13. CASE WritePolicy(w)
  BY <1>13 DEF WritePolicy
<1> QED
  BY <1>6, <1>7, <1>8, <1>9, <1>10, <1>11, <1>12, <1>13, StepKinds

\* A refused edit leaves the configuration, the profiles and the policy in use as its
\* client has seen them, as long as edits of the same file are not served at a time.
THEOREM RefusalsChangeNothing ==
    ASSUME EditsApart
    PROVE  Spec => RefusedChangesNothing
<1> DEFINE Refusal(w) ==
        req[w].kind \in {"profile", "network"} /\ req'[w].reply \in {"error", "preserved"}
         /\ req[w].at # "idle" /\ req'[w].at = "idle"
<1> DEFINE Unchanged(w) ==
            /\ config' = req[w].seen.config
            /\ req[w].seen.files \subseteq files'
            /\ req[w].kind = "network" /\ config'.policyOn => document' = req[w].seen.document
<1>1. KeptState /\ [Next]_vars => [\A w \in Workers : Refusal(w) => Unchanged(w)]_vars
  <2> SUFFICES ASSUME KeptState, Next, NEW w \in Workers, Refusal(w)
               PROVE  Unchanged(w)
    OBVIOUS
  <2>1. TypeOK /\ ShapeInv
    BY DEF KeptState
  <2>2. ~ServiceDies
    BY <2>1, DeathStep, IdleTyped DEF Idle
  <2>3. PICK v \in Workers : Step(v)
    BY <2>2 DEF Next
  <2>4. v = w
    BY <2>1, <2>3, ShapeStep DEF Moved
  <2> QED
    BY <2>3, <2>4, RefusedStep
<1>2. Spec => []KeptState
  BY KeptCorrect
<1> QED
  BY <1>1, <1>2, PTL DEF Spec, RefusedChangesNothing

-----------------------------------------------------------------------------
(* A start finds a configuration *)

\* A configuration without an upstream proxy that a start accepts.
Sound(c, f, d) ==
    /\ c.policyOn => Fits(d, c.network)
    /\ c.profile = Managed \/ c.profile \in f

\* The profile a request would put back is there.
Backed(r, u) == r.kind = "profile" => u \/ r.seen.config.profile \in r.seen.files \cup {Managed}

StartsInv ==
    /\ Sound(config, files, document) \/ unrestored
    /\ \A w \in Workers : Backed(req[w], unrestored)

\* What a step of a profile edit leaves is sound.
LEMMA ProfileSound ==
    ASSUME KeptState, StartsInv, NEW w \in Workers, ~unrestored, ~unrestored',
           PutProfile(w) \/ ValidateProfile(w) \/ WriteProfileConfig(w) \/ Restore(w) \/ CleanProfile(w)
    PROVE  Sound(config', files', document')
<1>1. /\ AllKept(req[w], config, files, document, unrestored) /\ Shaped(req[w]) /\ req[w] \in Request
      /\ TypeOK /\ ShapeInv /\ Sound(config, files, document) /\ Backed(req[w], unrestored)
  BY DEF KeptState, KeptInv, ShapeInv, StartsInv
<1>2. req[w].kind = "profile" /\ UNCHANGED document
  BY <1>1 DEF PutProfile, ValidateProfile, WriteProfileConfig, Restore, CleanProfile, Serving, Shaped
<1>3. req[w].seen.config.profile \in req[w].seen.files \cup {Managed} /\ req[w].seen.files \subseteq files
  BY <1>1, <1>2 DEF Backed, AllKept, Kept
<1>4. ASSUME UNCHANGED config, config = req[w].seen.config, Cleaned(w) \/ UNCHANGED files
      PROVE  Sound(config', files', document')
  <2>1. req[w].seen.files \subseteq files'
    BY <1>1, <1>2, <1>3, <1>4, CleanedKeeps
  <2> QED
    BY <1>1, <1>2, <1>3, <1>4, <2>1 DEF Sound
<1>5. CASE PutProfile(w)
  BY <1>1, <1>2, <1>5 DEF PutProfile, Sound
<1>6. CASE ValidateProfile(w)
  <2>1. config = req[w].seen.config
    BY <1>1, <1>2, <1>6 DEF ValidateProfile, Serving, AllKept, Kept
  <2> QED
    BY <1>4, <1>6, <2>1 DEF ValidateProfile
<1>7. CASE WriteProfileConfig(w)
  <2>1. /\ config = req[w].seen.config /\ req[w].cfg = config /\ req[w].wish.profile \in files
        /\ config \in Config
    BY <1>1, <1>2, <1>7 DEF WriteProfileConfig, Serving, AllKept, Kept, ProfileKept, TypeOK
  <2>2. CASE config' = Candidate(w) /\ UNCHANGED files
    <3>1. /\ Candidate(w).profile = req[w].wish.profile /\ Candidate(w).network = config.network
          /\ Candidate(w).policyOn = config.policyOn
      BY <1>1, <1>2, <2>1, CandidateTyped
    <3> QED
      BY <1>1, <1>2, <2>1, <2>2, <3>1 DEF Sound
  <2>3. CASE Cleaned(w) /\ UNCHANGED config
    BY <1>4, <2>1, <2>3
  <2> QED
    BY <1>7, <2>2, <2>3 DEF WriteProfileConfig
<1>8. CASE Restore(w)
  <2>1. /\ req[w].original = req[w].seen.config /\ req[w].original \in Config
        /\ config = [req[w].seen.config EXCEPT !.profile = req[w].wish.profile]
    BY <1>1, <1>2, <1>8 DEF Restore, Serving, AllKept, ProfileKept, Shaped
  <2>2. config.network = req[w].original.network /\ config.policyOn = req[w].original.policyOn
    BY <2>1 DEF Config
  <2>3. config' = req[w].original /\ UNCHANGED files
    BY <1>8 DEF Restore
  <2> QED
    BY <1>1, <1>2, <1>3, <2>1, <2>2, <2>3 DEF Sound
<1>9. CASE CleanProfile(w)
  <2>1. config = req[w].seen.config
    BY <1>1, <1>2, <1>9 DEF CleanProfile, Serving, AllKept, Kept, ProfileKept
  <2> QED
    BY <1>4, <1>9, <2>1 DEF CleanProfile
<1> QED
  BY <1>5, <1>6, <1>7, <1>8, <1>9

\* And of an edit of the network or of the policy.
LEMMA NetworkSound ==
    ASSUME KeptState, StartsInv, NEW w \in Workers, ~unrestored,
           CreatePolicy(w) \/ ValidateNetwork(w) \/ WriteNetworkConfig(w) \/ WritePolicy(w)
    PROVE  Sound(config', files', document')
<1>1. /\ AllKept(req[w], config, files, document, unrestored) /\ Shaped(req[w]) /\ req[w] \in Request
      /\ TypeOK /\ ShapeInv /\ Sound(config, files, document)
  BY DEF KeptState, KeptInv, ShapeInv, StartsInv
<1>2. UNCHANGED files
  BY DEF CreatePolicy, ValidateNetwork, WriteNetworkConfig, WritePolicy
<1>3. ASSUME req[w].kind = "network", req[w].at \notin {"open", "compare", "read", "load"}, UNCHANGED config,
             Withdrawn(w)
      PROVE  Sound(config', files', document')
  <2>1. req[w].seen.config = config /\ (req[w].created => ~config.policyOn)
    BY <1>1, <1>3 DEF AllKept, Kept, NetworkKept, Shaped
  <2> QED
    BY <1>1, <1>2, <1>3, <2>1 DEF Withdrawn, Sound
<1>4. CASE CreatePolicy(w)
  <2>1. document' \in {document, Empty} /\ UNCHANGED config
    BY <1>4 DEF CreatePolicy
  <2> QED
    BY <1>1, <1>2, <2>1 DEF Sound, Fits
<1>5. CASE ValidateNetwork(w)
  BY <1>3, <1>5 DEF ValidateNetwork, Serving, Withdrawn
<1>6. CASE WriteNetworkConfig(w)
  <2>1. /\ req[w].kind = "network" /\ req[w].at = "write" /\ req[w].cfg = config /\ config \in Config
        /\ (req[w].wish.policyOn => Fits(document, req[w].wish.network))
    BY <1>1, <1>6 DEF WriteNetworkConfig, Serving, AllKept, Kept, NetworkKept, TypeOK
  <2>2. CASE config' = Candidate(w) /\ UNCHANGED document
    <3>1. /\ Candidate(w).profile = config.profile /\ Candidate(w).network = req[w].wish.network
          /\ Candidate(w).policyOn = req[w].wish.policyOn
      BY <1>1, <2>1, CandidateTyped
    <3> QED
      BY <1>1, <1>2, <2>1, <2>2, <3>1 DEF Sound
  <2>3. CASE Withdrawn(w) /\ UNCHANGED config
    BY <1>3, <2>1, <2>3
  <2> QED
    BY <1>6, <2>2, <2>3 DEF WriteNetworkConfig
<1>7. CASE WritePolicy(w)
  <2>1. Fits(req[w].wish.document, config.network) /\ UNCHANGED config
    BY <1>1, <1>7 DEF WritePolicy, Serving, AllKept, PolicyKept
  <2>2. document' \in {document, req[w].wish.document}
    BY <1>7 DEF WritePolicy
  <2> QED
    BY <1>1, <1>2, <2>1, <2>2 DEF Sound
<1> QED
  BY <1>4, <1>5, <1>6, <1>7

LEMMA StartsStep ==
    ASSUME EditsApart, KeptState, StartsInv, [Next]_vars
    PROVE  StartsInv'
<1>1. TypeOK /\ ShapeInv /\ KeptInv
  BY DEF KeptState
<1>2. CASE UNCHANGED vars
  <2>1. UNCHANGED <<req, config, files, document, unrestored>>
    BY <1>2 DEF vars, store, bounds
  <2> QED
    BY <2>1 DEF StartsInv
<1>3. CASE ServiceDies
  <2>1. UNCHANGED <<config, files, document, unrestored>> /\ \A w \in Workers : req'[w] = Idle
    BY <1>1, <1>3, DeathStep
  <2> QED
    BY <2>1, IdleTyped DEF StartsInv, Backed
<1>4. ASSUME NEW w \in Workers, Step(w) PROVE StartsInv'
  <2>1. unrestored => unrestored'
    BY <1>1, <1>4, StepWrites DEF KeptInv
  <2>2. Sound(config', files', document') \/ unrestored'
    <3>1. CASE UNCHANGED <<config, files, document, unrestored>>
      BY <3>1 DEF StartsInv
    <3>2. CASE Looks \/ UNCHANGED <<store, bounds>>
      BY <3>1, <3>2 DEF Looks, store, bounds
    <3>3. CASE Relook(w)
      BY <3>1, <3>3 DEF Relook, store
    <3>4. CASE PutProfile(w) \/ ValidateProfile(w) \/ WriteProfileConfig(w) \/ Restore(w) \/ CleanProfile(w)
      BY <2>1, <3>4, ProfileSound
    <3>5. CASE CreatePolicy(w) \/ ValidateNetwork(w) \/ WriteNetworkConfig(w) \/ WritePolicy(w)
      BY <2>1, <3>5, NetworkSound
    <3> QED
      BY <1>4, <3>2, <3>3, <3>4, <3>5, StepKinds
  <2>3. Backed(req'[w], unrestored')
    <3>1. CASE Arrives(w)
      <4>1. req'[w].seen = Sees(req'[w].kind) /\ UNCHANGED unrestored
        BY <1>1, <3>1, ArrivalMoves DEF Arrives, Looks, bounds
      <4>2. req'[w].kind = "profile" => req'[w].seen.config = config /\ req'[w].seen.files = files
        BY <4>1 DEF Sees
      <4> QED
        BY <4>1, <4>2 DEF Backed, StartsInv, Sound
    <3>2. CASE req'[w].at = "idle"
      BY <1>1, <1>4, <3>2, ShapeStep DEF Shaped, Backed
    <3>3. CASE Gets(req[w], req'[w], req'[w].at)
      BY <2>1, <3>3 DEF Gets, Backed, StartsInv
    <3> QED
      BY <1>1, <1>4, <3>1, <3>2, <3>3, StepGets
  <2>4. ASSUME NEW v \in Workers, v # w PROVE Backed(req'[v], unrestored')
    <3>1. req'[v] = req[v]
      BY <1>1, <1>4, <2>4, ShapeStep DEF Moved
    <3> QED
      BY <2>1, <3>1 DEF Backed, StartsInv
  <2> QED
    BY <2>2, <2>3, <2>4 DEF StartsInv
<1> QED
  BY <1>2, <1>3, <1>4 DEF Next

\* Whatever is saved, refused, rolled back or interrupted, a start finds a configuration
\* that loads, a policy that fits it and its profile, as long as edits of the same file
\* are not served at a time and no upstream proxy is configured.
THEOREM SavedConfigurationStarts ==
    ASSUME EditsApart, ~UpstreamProxy
    PROVE  Spec => []SavedConfigStarts
<1>1. Init => StartsInv
  <2> SUFFICES ASSUME Init PROVE StartsInv
    OBVIOUS
  <2>1. Sound(config, files, document)
    BY DEF Init, Loads, Sound
  <2>2. \A w \in Workers : req[w] = Idle
    BY DEF Init
  <2> QED
    BY <2>1, <2>2, IdleTyped DEF StartsInv, Backed
<1>2. KeptState /\ StartsInv /\ [Next]_vars => StartsInv'
  BY StartsStep
<1>3. StartsInv => SavedConfigStarts
  BY DEF StartsInv, Sound, SavedConfigStarts, Startable, Loads, Renders, LoadsRuntime
<1>4. Spec => []KeptState
  BY KeptCorrect
<1> QED
  BY <1>1, <1>2, <1>3, <1>4, PTL DEF Spec

-----------------------------------------------------------------------------
(* A gateway runs the network that is configured *)

\* The network is not edited while the gateway is started or reloaded.
NetworkApart == {{"network", "start"}, {"network", "reload"}} \cap Overlaps = {}

Runs(a, c) == a # NoConfig => a.network = c.network /\ a.policyOn = c.policyOn

\* What a gateway operation is to start has the network that is configured, and the
\* network is not edited while a gateway has a state file.
Frozen(r, c, a) ==
    /\ r.kind = "network" /\ r.at \in {"create", "validate", "write"} => a = NoConfig
    /\ r.kind \in {"start", "reload"} /\ r.at \notin {"open", "load"} => Runs(r.cfg, c)

RunsInv ==
    /\ Runs(applied, config)
    /\ status = "stopped" => applied = NoConfig
    /\ \A w \in Workers : Frozen(req[w], config, applied)

LEMMA NetworkAlone ==
    ASSUME EditsApart, NetworkApart, ShapeInv, PairsInv,
           NEW v \in Workers, NEW w \in Workers, v # w, req[w].at # "idle"
    PROVE  /\ req[w].kind = "network" => req[v].kind \notin {"profile", "start", "reload"}
           /\ req[w].kind \in {"profile", "start", "reload"} => req[v].kind # "network"
<1>1. req[v].kind = "none" <=> req[v].at = "idle"
  BY DEF ShapeInv, Shaped
<1>2. CASE req[v].at = "idle"
  BY <1>1, <1>2
<1>3. CASE req[v].at # "idle"
  <2>1. {req[v].kind, req[w].kind} \in Overlaps
    BY <1>3 DEF PairsInv
  <2>2. /\ {"network", "start"} \notin Overlaps /\ {"start", "network"} \notin Overlaps
        /\ {"network", "reload"} \notin Overlaps /\ {"reload", "network"} \notin Overlaps
    <3>1. {"network", "start"} = {"start", "network"} /\ {"network", "reload"} = {"reload", "network"}
      OBVIOUS
    <3> QED
      BY <3>1 DEF NetworkApart
  <2> QED
    BY <2>1, <2>2, EditsAlone
<1> QED
  BY <1>2, <1>3

\* A step leaves the gateway, stops it, or starts it with the network that is configured.
LEMMA AppliedStep ==
    ASSUME KeptState, RunsInv, NEW w \in Workers, Step(w)
    PROVE  /\ \/ applied' \in {applied, NoConfig}
              \/ /\ UNCHANGED config /\ req[w].kind \in {"profile", "start", "reload"} /\ req[w].at # "idle"
                 /\ Runs(applied', config)
           /\ status' = "stopped" => applied' = NoConfig
<1>1. /\ AllKept(req[w], config, files, document, unrestored) /\ Shaped(req[w]) /\ req[w] \in Request
      /\ TypeOK /\ ShapeInv /\ (status = "stopped" => applied = NoConfig) /\ Frozen(req[w], config, applied)
  BY DEF KeptState, KeptInv, ShapeInv, RunsInv
<1>2. UNCHANGED gateway => applied' = applied /\ (status' = "stopped" => applied' = NoConfig)
  BY <1>1 DEF gateway
<1>3. (Stops \/ StopFails) => applied' \in {applied, NoConfig} /\ (status' = "stopped" => applied' = NoConfig)
  BY DEF Stops, StopFails
<1>4. ASSUME NEW c, Runs(c, config), Starts(w, c) \/ StartFails(c)
      PROVE  /\ applied' = applied \/ Runs(applied', config)
             /\ status' = "stopped" => applied' = NoConfig
  BY <1>2, <1>4 DEF Starts, StartFails
<1>5. CASE Start(w)
  <2>1. req[w].kind = "start" /\ req[w].at = "start" /\ req[w].cfg \in Config
    BY <1>1, <1>5 DEF Shaped, Start, Serving
  <2>2. Runs(Candidate(w), config)
    BY <1>1, <2>1, CandidateTyped DEF Frozen
  <2>3. Starts(w, Candidate(w)) \/ StartFails(Candidate(w))
    BY <1>5 DEF Start
  <2>4. UNCHANGED config
    BY <1>5 DEF Start, store
  <2> QED
    BY <1>4, <2>1, <2>2, <2>3, <2>4
<1>6. CASE Stop(w)
  BY <1>3, <1>6 DEF Stop
<1>7. CASE Reload(w)
  BY <1>2, <1>3, <1>7 DEF Reload
<1>8. CASE ReloadStart(w)
  <2>1. req[w].kind \in {"profile", "reload"} /\ req[w].at = "reload_start" /\ req[w].cfg \in Config
    BY <1>1, <1>8 DEF Shaped, ReloadStart, Serving
  <2>2. Runs(Candidate(w), config)
    <3>1. CASE req[w].kind = "reload"
      BY <1>1, <2>1, <3>1, CandidateTyped DEF Frozen
    <3>2. CASE req[w].kind = "profile"
      <4>1. Candidate(w) = config
        BY <1>1, <2>1, <3>2, CandidateTyped DEF AllKept, Kept, ProfileKept
      <4> QED
        BY <4>1 DEF Runs
    <3> QED
      BY <2>1, <3>1, <3>2
  <2>3. Starts(w, Candidate(w)) \/ StartFails(Candidate(w))
    BY <1>8 DEF ReloadStart
  <2>4. UNCHANGED config
    BY <1>8 DEF ReloadStart, store
  <2> QED
    BY <1>4, <2>1, <2>2, <2>3, <2>4
<1>9. CASE Restart(w)
  <2>1. req[w].kind = "profile" /\ req[w].at = "restart"
    BY <1>1, <1>9 DEF Shaped, Restart, Serving
  <2>2. Runs(req[w].cfg, config)
    BY <1>1, <2>1 DEF AllKept, Kept, Runs
  <2>3. Starts(w, req[w].cfg) \/ StartFails(req[w].cfg)
    BY <1>9 DEF Restart
  <2>4. UNCHANGED config
    BY <1>9 DEF Restart, store
  <2> QED
    BY <1>4, <2>1, <2>2, <2>3, <2>4
<1>10. CASE Looks \/ UNCHANGED gateway
  BY <1>2, <1>10 DEF Looks
<1> QED
  BY <1>5, <1>6, <1>7, <1>8, <1>9, <1>10, StepKinds

\* An edit of the network gets to its write only past a gateway without a state file.
LEMMA NetworkGets ==
    ASSUME TypeOK, ShapeInv, NEW w \in Workers, Step(w), req[w].kind = "network",
           req'[w].at \in {"create", "validate", "write"}
    PROVE  UNCHANGED gateway /\ (req[w].at \in {"create", "validate"} \/ status = "stopped")
<1>1. Shaped(req[w])
  BY DEF ShapeInv
<1>2. ~Done(w) /\ ~Reply(w, "error")
  BY ReplyMoves DEF Done, Ends
<1>3. \A l \in Labels \ {"create", "validate", "write"} : ~Goto(w, l)
  BY GotoMoves DEF Gets
<1>4. ~Arrives(w)
  BY ArrivalMoves
<1>5. ~Open(w) /\ ~Compare(w)
  BY <1>2, <1>3 DEF Open, Compare, Labels
<1>6. ~LoadConfig(w)
  <2> SUFFICES ASSUME LoadConfig(w) PROVE FALSE
    OBVIOUS
  <2>1. req' = [req EXCEPT ![w].cfg = config, ![w].at = "look"]
    BY <1>2 DEF LoadConfig
  <2> QED
    BY <2>1, LoadMoves DEF Labels, Gets
<1>7. ~ReadOriginal(w) /\ ~StatProfile(w) /\ ~PutProfile(w) /\ ~ValidateProfile(w) /\ ~WriteProfileConfig(w)
      /\ ~Restore(w) /\ ~Relook(w) /\ ~Restart(w) /\ ~CleanProfile(w)
  BY <1>1 DEF Shaped, Serving, ReadOriginal, StatProfile, PutProfile, ValidateProfile, WriteProfileConfig,
              Restore, Relook, Restart, CleanProfile
<1>8. ~ComparePolicy(w) /\ ~ValidatePolicy(w) /\ ~WritePolicy(w) /\ ~Reload(w) /\ ~ReloadStart(w)
  BY <1>1 DEF Shaped, Serving, ComparePolicy, ValidatePolicy, WritePolicy, Reload, ReloadStart
<1>9. ~Start(w) /\ ~Stop(w)
  BY <1>2 DEF Start, Stop
<1>10. CASE Look(w)
  BY <1>2, <1>10 DEF Look, Looks
<1>11. CASE CreatePolicy(w) \/ ValidateNetwork(w)
  BY <1>11 DEF CreatePolicy, ValidateNetwork, Serving
<1>12. CASE WriteNetworkConfig(w)
  BY <1>2, <1>12 DEF WriteNetworkConfig
<1> QED
  BY <1>4, <1>5, <1>6, <1>7, <1>8, <1>9, <1>10, <1>11, <1>12 DEF Step

\* A start and a reload run what they have loaded.
LEMMA RunnerGets ==
    ASSUME TypeOK, ShapeInv, NEW w \in Workers, Step(w), req[w].kind \in {"start", "reload"},
           req'[w].at \notin {"idle", "open", "load"}
    PROVE  \/ req'[w].cfg = config
           \/ req'[w].cfg = req[w].cfg /\ req[w].at \notin {"open", "load"}
<1>1. Shaped(req[w])
  BY DEF ShapeInv
<1>2. ~Done(w) /\ ~Reply(w, "error")
  BY ReplyMoves DEF Done, Ends
<1>3. ~Goto(w, "load") /\ ~Arrives(w)
  BY GotoMoves, ArrivalMoves DEF Gets, Labels
<1>4. ~Open(w)
  BY <1>2, <1>3 DEF Open
<1>5. ~Compare(w) /\ ~ReadOriginal(w) /\ ~Look(w) /\ ~StatProfile(w) /\ ~PutProfile(w) /\ ~ValidateProfile(w)
      /\ ~WriteProfileConfig(w) /\ ~Restore(w) /\ ~Relook(w) /\ ~Restart(w) /\ ~CleanProfile(w)
  BY <1>1 DEF Shaped, Serving, Compare, ReadOriginal, Look, StatProfile, PutProfile, ValidateProfile,
              WriteProfileConfig, Restore, Relook, Restart, CleanProfile
<1>6. ~CreatePolicy(w) /\ ~ValidateNetwork(w) /\ ~WriteNetworkConfig(w) /\ ~ComparePolicy(w)
      /\ ~ValidatePolicy(w) /\ ~WritePolicy(w)
  BY <1>1 DEF Shaped, Serving, CreatePolicy, ValidateNetwork, WriteNetworkConfig, ComparePolicy,
              ValidatePolicy, WritePolicy
<1>7. ~Start(w) /\ ~Stop(w)
  BY <1>2 DEF Start, Stop
<1>8. CASE LoadConfig(w)
  <2>1. req' = [req EXCEPT ![w].cfg = config, ![w].at = req[w].kind]
    BY <1>2, <1>8 DEF LoadConfig
  <2>2. req[w].kind \in Labels
    BY DEF Labels
  <2> QED
    BY <2>1, <2>2, LoadMoves
<1>9. CASE Reload(w) \/ ReloadStart(w)
  <2>1. Goto(w, "reload_start") /\ req[w].at \notin {"open", "load"}
    BY <1>1, <1>2, <1>9 DEF Reload, ReloadStart, ReloadFails, Serving
  <2> QED
    BY <2>1, GotoMoves DEF Labels
<1> QED
  BY <1>3, <1>4, <1>5, <1>6, <1>7, <1>8, <1>9 DEF Step

LEMMA RunsStep ==
    ASSUME EditsApart, NetworkApart, KeptState, RunsInv, [Next]_vars
    PROVE  RunsInv'
<1>1. TypeOK /\ ShapeInv /\ PairsInv /\ KeptInv
  BY DEF KeptState
<1>2. CASE UNCHANGED vars
  <2>1. UNCHANGED <<req, config, status, applied>>
    BY <1>2 DEF vars, store, gateway
  <2> QED
    BY <2>1 DEF RunsInv
<1>3. CASE ServiceDies
  <2>1. UNCHANGED <<config, status, applied>> /\ \A w \in Workers : req'[w] = Idle
    BY <1>1, <1>3, DeathStep
  <2> QED
    BY <2>1, IdleTyped DEF RunsInv, Frozen
<1>4. ASSUME NEW w \in Workers, Step(w) PROVE RunsInv'
  <2>1. /\ \/ applied' \in {applied, NoConfig}
           \/ /\ UNCHANGED config /\ req[w].kind \in {"profile", "start", "reload"} /\ req[w].at # "idle"
              /\ Runs(applied', config)
        /\ status' = "stopped" => applied' = NoConfig
    BY <1>4, AppliedStep
  <2>2. /\ req[w].kind \notin {"profile", "network"} => config' = config
        /\ req[w].kind = "profile" => config'.network = config.network /\ config'.policyOn = config.policyOn
    BY <1>1, <1>4, StepWrites DEF KeptInv
  <2>3. req[w].kind = "network" => applied = NoConfig \/ config' = config
    <3> SUFFICES ASSUME req[w].kind = "network", config' # config PROVE applied = NoConfig
      OBVIOUS
    <3>1. Shaped(req[w])
      BY <1>1 DEF ShapeInv
    <3>2. ~Looks /\ ~UNCHANGED store /\ ~PutProfile(w) /\ ~ValidateProfile(w) /\ ~Relook(w) /\ ~CleanProfile(w)
          /\ ~CreatePolicy(w) /\ ~ValidateNetwork(w) /\ ~WritePolicy(w)
      BY DEF Looks, store, PutProfile, ValidateProfile, Relook, CleanProfile, CreatePolicy, ValidateNetwork, WritePolicy
    <3>3. ~WriteProfileConfig(w) /\ ~Restore(w)
      BY <3>1 DEF WriteProfileConfig, Restore, Serving, Shaped
    <3>4. WriteNetworkConfig(w)
      BY <1>4, <3>2, <3>3, StepKinds
    <3> QED
      BY <3>4 DEF WriteNetworkConfig, Serving, RunsInv, Frozen
  <2>4. ASSUME NEW a, Runs(a, config), req[w].kind # "network" PROVE Runs(a, config')
    BY <2>2, <2>4 DEF Runs
  <2>5. Runs(applied', config')
    <3>1. CASE req[w].kind # "network"
      <4>1. Runs(applied', config)
        BY <2>1 DEF RunsInv, Runs
      <4> QED
        BY <2>4, <3>1, <4>1
    <3>2. CASE req[w].kind = "network"
      BY <2>1, <2>3, <3>2 DEF RunsInv, Runs
    <3> QED
      BY <3>1, <3>2
  <2>6. Frozen(req'[w], config', applied')
    <3>1. CASE req'[w].at \in {"idle", "open"}
      <4>1. Shaped(req'[w])
        BY <1>1, <1>4, ShapeStep
      <4> QED
        BY <3>1, <4>1 DEF Frozen, Shaped
    <3>2. CASE req'[w].at \notin {"idle", "open"}
      <4>1. req'[w].kind = req[w].kind
        BY <1>1, <1>4, <3>2, StepGets, ArrivalMoves DEF Gets
      <4>2. ASSUME req[w].kind = "network", req'[w].at \in {"create", "validate", "write"}
            PROVE  applied' = NoConfig
        <5>1. UNCHANGED applied /\ (req[w].at \in {"create", "validate"} \/ status = "stopped")
          BY <1>1, <1>4, <4>2, NetworkGets DEF gateway
        <5> QED
          BY <4>2, <5>1 DEF RunsInv, Frozen
      <4>3. ASSUME req[w].kind \in {"start", "reload"}, req'[w].at # "load"
            PROVE  Runs(req'[w].cfg, config')
        <5>1. \/ req'[w].cfg = config
              \/ req'[w].cfg = req[w].cfg /\ req[w].at \notin {"open", "load"}
          BY <1>1, <1>4, <3>2, <4>3, RunnerGets
        <5>2. config' = config
          BY <2>2, <4>3
        <5> QED
          BY <4>3, <5>1, <5>2 DEF RunsInv, Frozen, Runs
      <4> QED
        BY <3>2, <4>1, <4>2, <4>3 DEF Frozen
    <3> QED
      BY <3>1, <3>2
  <2>7. ASSUME NEW v \in Workers, v # w PROVE Frozen(req'[v], config', applied')
    <3>1. req'[v] = req[v] /\ Frozen(req[v], config, applied)
      BY <1>1, <1>4, <2>7, ShapeStep DEF Moved, RunsInv
    <3>2. CASE req[w].at = "idle"
      <4>1. UNCHANGED <<config, applied>>
        BY <1>1, <1>4, <3>2, StepGets DEF Arrives, Looks, store, gateway
      <4> QED
        BY <3>1, <4>1
    <3>3. CASE req[w].at # "idle"
      <4>1. /\ req[w].kind = "network" => req[v].kind \notin {"profile", "start", "reload"}
            /\ req[w].kind \in {"profile", "start", "reload"} => req[v].kind # "network"
        BY <1>1, <2>7, <3>3, NetworkAlone
      <4>2. ASSUME req[v].kind = "network", req[v].at \in {"create", "validate", "write"}
            PROVE  applied' = NoConfig
        BY <2>1, <3>1, <4>1, <4>2 DEF Frozen
      <4>3. ASSUME req[v].kind \in {"start", "reload"}, req[v].at \notin {"open", "load"}
            PROVE  Runs(req[v].cfg, config')
        BY <2>4, <3>1, <4>1, <4>3 DEF Frozen
      <4> QED
        BY <3>1, <4>2, <4>3 DEF Frozen
    <3> QED
      BY <3>2, <3>3
  <2> QED
    BY <2>1, <2>5, <2>6, <2>7 DEF RunsInv
<1> QED
  BY <1>2, <1>3, <1>4 DEF Next

\* A gateway that runs, or is to be cleaned up, was started with the network and the
\* policy switch that are configured, as long as the network is not edited while another
\* edit, a start or a reload is served.
THEOREM ConfiguredNetworkRuns ==
    ASSUME EditsApart, NetworkApart
    PROVE  Spec => []RunsConfiguredNetwork
<1>1. Init => RunsInv
  <2> SUFFICES ASSUME Init PROVE RunsInv
    OBVIOUS
  <2>1. applied = NoConfig /\ \A w \in Workers : req[w] = Idle
    BY DEF Init
  <2> QED
    BY <2>1, IdleTyped DEF RunsInv, Runs, Frozen
<1>2. KeptState /\ RunsInv /\ [Next]_vars => RunsInv'
  BY RunsStep
<1>3. RunsInv => RunsConfiguredNetwork
  BY DEF RunsInv, Runs, RunsConfiguredNetwork
<1>4. Spec => []KeptState
  BY KeptCorrect
<1> QED
  BY <1>1, <1>2, <1>3, <1>4, PTL DEF Spec

-----------------------------------------------------------------------------
(* A gateway that is said to be preserved is there *)

\* The gateway is not started, stopped or reloaded while a profile is imported.
GatewayApart == {{"profile", "start"}, {"profile", "stop"}, {"profile", "reload"}} \cap Overlaps = {}

\* A gateway that runs is the one the import has found, until the import starts one.
Preserving(r, s, a) ==
    r.kind = "profile" =>
        /\ r.at # "clean" /\ s = "running" => a = r.seen.applied
        /\ r.at = "clean" /\ r.reply = "preserved" =>
              s # "stopped" /\ (s = "running" => a \in {r.seen.applied, r.seen.config})

PreservedInv == \A w \in Workers : Preserving(req[w], status, applied)

LEMMA GatewayAlone ==
    ASSUME EditsApart, GatewayApart, KeptState, NEW v \in Workers, NEW w \in Workers, v # w,
           req[v].kind = "profile", Step(w)
    PROVE  UNCHANGED gateway
<1>1. TypeOK /\ ShapeInv /\ PairsInv /\ Shaped(req[w]) /\ Shaped(req[v])
  BY DEF KeptState, ShapeInv
<1>2. CASE req[w].at = "idle"
  BY <1>1, <1>2, StepGets DEF Arrives, Looks
<1>3. CASE req[w].at # "idle"
  <2>1. req[v].at # "idle"
    BY <1>1 DEF Shaped
  <2>2. {req[v].kind, req[w].kind} \in Overlaps
    BY <1>1, <1>3, <2>1 DEF PairsInv
  <2>3. req[w].kind \notin {"profile", "start", "stop", "reload"}
    BY <1>1, <1>3, <2>2, EditsAlone DEF GatewayApart
  <2>4. ~Start(w) /\ ~Stop(w) /\ ~Reload(w) /\ ~ReloadStart(w) /\ ~Restart(w)
    BY <1>1, <2>3 DEF Start, Stop, Reload, ReloadStart, Restart, Serving, Shaped
  <2> QED
    BY <2>4, StepKinds DEF Looks
<1> QED
  BY <1>2, <1>3

\* Where the steps get that record what they have found.
LEMMA RecordingGets ==
    ASSUME TypeOK, ShapeInv, NEW w \in Workers
    PROVE  /\ Look(w) => Reply(w, "error") \/ Goto(w, "create") \/ req'[w].at = "stat"
           /\ StatProfile(w) => Reply(w, "error") \/ req'[w].at = "put"
           /\ CreatePolicy(w) => Reply(w, "error") \/ req'[w].at = "validate"
           /\ LoadConfig(w) => Reply(w, "error") \/ req'[w].at \in {"look", "stat", "start", "stop", "reload"}
<1>1. ASSUME Look(w), ~Reply(w, "error"), ~Goto(w, "create") PROVE req'[w].at = "stat"
  <2> DEFINE b == (status # "stopped")
  <2>1. b \in BOOLEAN /\ req' = [req EXCEPT ![w].wasRunning = b, ![w].at = "stat"]
    BY <1>1 DEF Look
  <2> HIDE DEF b
  <2> QED
    BY <2>1, RunningMoves DEF Gets, Labels
<1>2. ASSUME StatProfile(w), ~Reply(w, "error") PROVE req'[w].at = "put"
  <2> DEFINE b == (req[w].wish.profile \notin files)
  <2>1. b \in BOOLEAN /\ req' = [req EXCEPT ![w].created = b, ![w].at = "put"]
    BY <1>2 DEF StatProfile
  <2> HIDE DEF b
  <2> QED
    BY <2>1, CreatedMoves DEF Gets, Labels
<1>3. ASSUME CreatePolicy(w), ~Reply(w, "error") PROVE req'[w].at = "validate"
  <2> DEFINE b == req[w].wish.policyOn /\ ~req[w].cfg.policyOn
  <2>1. b \in BOOLEAN /\ req' = [req EXCEPT ![w].created = b, ![w].at = "validate"]
    BY <1>3 DEF CreatePolicy
  <2> HIDE DEF b
  <2> QED
    BY <2>1, CreatedMoves DEF Gets, Labels
<1>4. ASSUME LoadConfig(w), ~Reply(w, "error") PROVE req'[w].at \in {"look", "stat", "start", "stop", "reload"}
  <2> DEFINE l == CASE req[w].kind \in {"profile", "network"} -> "look"
                    [] req[w].kind = "policy" -> "stat"
                    [] OTHER -> req[w].kind
  <2>1. req' = [req EXCEPT ![w].cfg = config, ![w].at = l]
    BY <1>4 DEF LoadConfig
  <2>2. req[w].kind \in Kinds
    BY <1>4 DEF LoadConfig, Serving, Request, ShapeInv, Shaped
  <2>3. l \in {"look", "stat", "start", "stop", "reload"}
    BY <2>2 DEF Kinds, Edits
  <2> HIDE DEF l
  <2>4. l \in Labels
    BY <2>3 DEF Labels
  <2> QED
    BY <2>1, <2>3, <2>4, LoadMoves DEF Gets
<1> QED
  BY <1>1, <1>2, <1>3, <1>4

LEMMA OwnPreserving ==
    ASSUME KeptState, NEW w \in Workers, Preserving(req[w], status, applied), Step(w)
    PROVE  Preserving(req'[w], status', applied')
<1>1. /\ AllKept(req[w], config, files, document, unrestored) /\ Shaped(req[w]) /\ req[w] \in Request
      /\ TypeOK /\ ShapeInv
  BY DEF KeptState, KeptInv, ShapeInv
<1>2. CASE req'[w].at = "idle"
  <2>1. Shaped(req'[w])
    BY <1>1, ShapeStep
  <2> QED
    BY <1>2, <2>1 DEF Shaped, Preserving
<1>3. CASE Arrives(w)
  <2>1. /\ req'[w].at = "open" /\ req'[w].seen = Sees(req'[w].kind) /\ UNCHANGED <<status, applied>>
    BY <1>1, <1>3, ArrivalMoves DEF Arrives, Looks, gateway
  <2> QED
    BY <2>1 DEF Sees, Preserving
<1>4. CASE req'[w].at # "idle" /\ Gets(req[w], req'[w], req'[w].at)
  <2>1. SUFFICES ASSUME req[w].kind = "profile" PROVE Preserving(req'[w], status', applied')
    BY <1>4 DEF Gets, Preserving
  <2>2. req'[w].kind = "profile" /\ req'[w].seen = req[w].seen
    BY <1>4, <2>1 DEF Gets
  <2>3. req[w].at # "clean"
    <3> SUFFICES ASSUME req[w].at = "clean" PROVE FALSE
      OBVIOUS
    <3>1. CleanProfile(w)
      BY DEF Step, Arrives, Open, Compare, ReadOriginal, LoadConfig, Look, StatProfile, PutProfile,
             ValidateProfile, WriteProfileConfig, Restore, Relook, Restart, CreatePolicy, ValidateNetwork,
             WriteNetworkConfig, ComparePolicy, ValidatePolicy, WritePolicy, Start, Stop, Reload,
             ReloadStart, Serving
    <3> QED
      BY <1>1, <1>4, <3>1, ReplyMoves DEF CleanProfile, Request, Ends
  <2>4. ~Done(w)
    BY <1>1, <1>4, ReplyMoves DEF Done, Ends
  <2>5. CASE req'[w].at # "clean" /\ UNCHANGED gateway
    BY <2>1, <2>2, <2>3, <2>5 DEF Preserving, gateway
  <2>6. CASE req'[w].at # "clean" /\ ~UNCHANGED gateway
    <3>1. ~Looks /\ ~Start(w) /\ ~Stop(w)
      BY <2>4, <2>6 DEF Looks, Start, Stop
    <3>2. ~Restart(w)
      BY <1>1, <2>6, CleanupMoves DEF Restart, Gets
    <3>3. Reload(w) \/ ReloadStart(w)
      BY <2>6, <3>1, <3>2, StepKinds
    <3>4. status' # "running"
      BY <2>4, <2>6, <3>3 DEF Reload, ReloadStart, Stops, StopFails, StartFails
    <3> QED
      BY <2>2, <2>6, <3>4 DEF Preserving
  <2>7. CASE req'[w].at = "clean"
    <3>1. \A l \in Labels \ {"clean"} : ~Goto(w, l)
      BY <1>1, <2>7, GotoMoves DEF Gets
    <3>2. Relook(w) \/ Restart(w) \/ Restore(w)
      <4> SUFFICES ASSUME ~Relook(w), ~Restart(w), ~Restore(w) PROVE FALSE
        OBVIOUS
      <4>0. ~Reply(w, "error") /\ ~Done(w)
        BY <1>1, <2>7, ReplyMoves DEF Done, Ends
      <4>1. ~Arrives(w) /\ ~Open(w) /\ ~Compare(w)
        BY <1>1, <2>7, <3>1, <4>0, ArrivalMoves DEF Open, Compare, Labels
      <4>2. ~ReadOriginal(w)
        BY <1>1, <2>7, <4>0, ReadMoves DEF ReadOriginal, Gets, Labels
      <4>3. ~LoadConfig(w) /\ ~Look(w) /\ ~StatProfile(w)
        BY <1>1, <2>7, <3>1, <4>0, RecordingGets DEF Labels
      <4>4. ~PutProfile(w) /\ ~ValidateProfile(w) /\ ~WriteProfileConfig(w)
        BY <3>1, <4>0 DEF PutProfile, ValidateProfile, WriteProfileConfig, Labels
      <4>5. ~CleanProfile(w) /\ ~CreatePolicy(w) /\ ~ValidateNetwork(w) /\ ~WriteNetworkConfig(w)
            /\ ~ComparePolicy(w) /\ ~ValidatePolicy(w) /\ ~WritePolicy(w)
        BY <1>1, <2>1, <2>3 DEF Shaped, CleanProfile, CreatePolicy, ValidateNetwork, WriteNetworkConfig,
                                ComparePolicy, ValidatePolicy, WritePolicy, Serving
      <4>6. ~Start(w) /\ ~Stop(w) /\ ~Reload(w) /\ ~ReloadStart(w)
        BY <2>1, <3>1, <4>0 DEF Start, Stop, Reload, ReloadStart, ReloadFails, Labels
      <4> QED
        BY <4>1, <4>2, <4>3, <4>4, <4>5, <4>6 DEF Step
    <3>3. CASE Restore(w)
      <4>1. Cleanup(w, "unrestored")
        BY <3>1, <3>3 DEF Restore, Labels
      <4>2. req'[w].reply = "unrestored"
        BY <1>1, <4>1, CleanupMoves
      <4> QED
        BY <2>7, <4>2 DEF Preserving
    <3>4. CASE Relook(w)
      <4>1. UNCHANGED <<status, applied>> /\ (status # "stopped" \/ Cleanup(w, "error"))
        BY <3>1, <3>4 DEF Relook, Labels, gateway
      <4>2. Cleanup(w, "error") => req'[w].reply = "error"
        BY <1>1, CleanupMoves
      <4> QED
        BY <2>1, <2>2, <2>3, <2>7, <4>1, <4>2 DEF Preserving
    <3>5. CASE Restart(w)
      <4>1. req[w].cfg = req[w].seen.config
        BY <1>1, <2>1, <3>5 DEF AllKept, Kept, Restart, Serving
      <4>2. Starts(w, req[w].cfg) \/ Cleanup(w, "error")
        BY <3>5 DEF Restart
      <4>3. Cleanup(w, "error") => req'[w].reply = "error"
        BY <1>1, CleanupMoves
      <4> QED
        BY <2>2, <2>7, <4>1, <4>2, <4>3 DEF Preserving, Starts
    <3> QED
      BY <3>2, <3>3, <3>4, <3>5
  <2> QED
    BY <2>5, <2>6, <2>7
<1> QED
  BY <1>1, <1>2, <1>3, <1>4, StepGets

LEMMA PreservedStep ==
    ASSUME EditsApart, GatewayApart, KeptState, PreservedInv, [Next]_vars
    PROVE  PreservedInv'
<1>1. TypeOK /\ ShapeInv
  BY DEF KeptState
<1>2. CASE UNCHANGED vars
  <2>1. UNCHANGED <<req, status, applied>>
    BY <1>2 DEF vars, gateway
  <2> QED
    BY <2>1 DEF PreservedInv
<1>3. CASE ServiceDies
  <2>1. \A w \in Workers : req'[w] = Idle
    BY <1>1, <1>3, DeathStep
  <2> QED
    BY <2>1, IdleTyped DEF PreservedInv, Preserving
<1>4. ASSUME NEW w \in Workers, Step(w) PROVE PreservedInv'
  <2>1. Preserving(req'[w], status', applied')
    BY <1>4, OwnPreserving DEF PreservedInv
  <2>2. ASSUME NEW v \in Workers, v # w PROVE Preserving(req'[v], status', applied')
    <3>1. req'[v] = req[v]
      BY <1>1, <1>4, <2>2, ShapeStep DEF Moved
    <3>2. req[v].kind = "profile" => UNCHANGED <<status, applied>>
      BY <1>4, <2>2, GatewayAlone DEF gateway
    <3> QED
      BY <3>1, <3>2 DEF PreservedInv, Preserving
  <2> QED
    BY <2>1, <2>2 DEF PreservedInv
<1> QED
  BY <1>2, <1>3, <1>4 DEF Next

\* Only the end of an import says so.
LEMMA PreservedReply ==
    ASSUME KeptState, PreservedInv, NEW w \in Workers, Step(w), req[w].at # "idle",
           req'[w].at = "idle", req'[w].reply = "preserved"
    PROVE  /\ status' # "stopped"
           /\ status' = "running" => applied' \in {req[w].seen.applied, req[w].seen.config}
<1>1. TypeOK /\ ShapeInv /\ Shaped(req[w]) /\ req[w] \in Request
  BY DEF KeptState, ShapeInv
<1>2. ~Done(w) /\ ~Reply(w, "error")
  BY <1>1, ReplyMoves DEF Done, Ends
<1>3. \A l \in Labels \ {"idle"} : ~Goto(w, l)
  BY <1>1, GotoMoves DEF Gets
<1>4. \A a \in {"none", "error", "preserved", "unrestored"} : ~Cleanup(w, a)
  BY <1>1, CleanupMoves DEF Gets
<1>5. ~Arrives(w) /\ ~Open(w) /\ ~Compare(w)
  BY <1>1, <1>2, <1>3, ArrivalMoves DEF Open, Compare, Labels
<1>6. ~ReadOriginal(w)
  BY <1>1, <1>2, ReadMoves DEF ReadOriginal, Gets, Labels
<1>7. ~LoadConfig(w) /\ ~Look(w) /\ ~StatProfile(w) /\ ~CreatePolicy(w)
  BY <1>1, <1>2, <1>3, RecordingGets DEF Labels
<1>8. ~PutProfile(w) /\ ~ValidateProfile(w) /\ ~WriteProfileConfig(w) /\ ~Restore(w) /\ ~Relook(w) /\ ~Restart(w)
  BY <1>2, <1>3, <1>4
     DEF PutProfile, ValidateProfile, WriteProfileConfig, Restore, Relook, Restart, Labels
<1>9. ~ValidateNetwork(w) /\ ~WriteNetworkConfig(w) /\ ~ComparePolicy(w) /\ ~ValidatePolicy(w) /\ ~WritePolicy(w)
  BY <1>2, <1>3 DEF ValidateNetwork, WriteNetworkConfig, ComparePolicy, ValidatePolicy, WritePolicy, Labels
<1>10. ~Start(w) /\ ~Stop(w) /\ ~Reload(w) /\ ~ReloadStart(w)
  BY <1>2, <1>3 DEF Start, Stop, Reload, ReloadStart, ReloadFails, Labels
<1>11. CleanProfile(w)
  BY <1>5, <1>6, <1>7, <1>8, <1>9, <1>10 DEF Step
<1>12. /\ req[w].kind = "profile" /\ req[w].at = "clean" /\ req[w].reply = "preserved"
       /\ UNCHANGED <<status, applied>>
  BY <1>1, <1>11, ReplyMoves DEF CleanProfile, Serving, Shaped, Request, Ends, gateway
<1> QED
  BY <1>12 DEF PreservedInv, Preserving

\* "Preserved or restored" is said when the gateway is there, with the configuration it
\* had or the one that was saved, or what is left of it asks for a cleanup, as long as
\* no other request moves the gateway meanwhile.
THEOREM PreservedGatewayIsThere ==
    ASSUME EditsApart, GatewayApart
    PROVE  Spec => PreservedIsThere
<1> DEFINE Said(w) == req[w].at # "idle" /\ req'[w].at = "idle" /\ req'[w].reply = "preserved"
                      /\ req[w].seen.status = "running"
<1> DEFINE There(w) == /\ status' # "stopped"
                       /\ status' = "running" => applied' \in {req[w].seen.applied, req[w].seen.config}
<1>1. Init => PreservedInv
  <2> SUFFICES ASSUME Init PROVE PreservedInv
    OBVIOUS
  <2>1. \A w \in Workers : req[w] = Idle
    BY DEF Init
  <2> QED
    BY <2>1, IdleTyped DEF PreservedInv, Preserving
<1>2. KeptState /\ PreservedInv /\ [Next]_vars => PreservedInv'
  BY PreservedStep
<1>3. KeptState /\ PreservedInv /\ [Next]_vars => [\A w \in Workers : Said(w) => There(w)]_vars
  <2> SUFFICES ASSUME KeptState, PreservedInv, Next, NEW w \in Workers, Said(w)
               PROVE  There(w)
    OBVIOUS
  <2>1. TypeOK /\ ShapeInv
    BY DEF KeptState
  <2>2. ~ServiceDies
    BY <2>1, DeathStep, IdleTyped DEF Idle
  <2>3. PICK v \in Workers : Step(v)
    BY <2>2 DEF Next
  <2>4. v = w
    BY <2>1, <2>3, ShapeStep DEF Moved
  <2> QED
    BY <2>3, <2>4, PreservedReply
<1>4. Spec => []KeptState
  BY KeptCorrect
<1> QED
  BY <1>1, <1>2, <1>3, <1>4, PTL DEF Spec, PreservedIsThere
==============================================================================
