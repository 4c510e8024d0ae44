------------------------- MODULE ServiceStoreProofs -------------------------
(***************************************************************************)
(* Proofs about the parts of the control API that keep files or tables of   *)
(* their own: the account and the sessions (AuthSessions), the commands     *)
(* that set the management service up (ManagementSetup) and the catalogue   *)
(* of sources (SourceCatalog).  They hold for any number of visitors,       *)
(* commands, importers, tokens, sources and failures.                       *)
(***************************************************************************)
EXTENDS AuthSessions, ManagementSetup, SourceCatalog, FiniteSetTheorems, TLAPS

-----------------------------------------------------------------------------
(***************************************************************************)
(* AuthSessions: the account is given away once, a session that is over     *)
(* stays over, and passwords are not tried beyond the lockout limit, for    *)
(* every limit and window.                                                  *)
(***************************************************************************)

-----------------------------------------------------------------------------
(* The account *)

\* FileAdminStore.mu is held by the one goroutine that is about to write.
WriterHoldsMutex == \A v \in Visitors : Visits(v, "write") <=> adminMutex = v

\* Somebody was told of success only when there is an account.
FoundersHaveAccount == founders # {} => account # "none"

\* Unless the command and a browser overlapped, whoever is about to write has seen that
\* there is no account, and it is still so.
WritersSawNone ==
    account # "none" /\ ~crossed => cli # "write" /\ \A v \in Visitors : ~Visits(v, "write")

OneFounder == ~crossed => \A f, g \in founders : f = g

VisitTyped ==
    visit \in [Visitors -> [at : Steps, ip : Addresses \cup {"-"}, password : Passwords \cup {"-"}]]

AccountInv ==
    /\ VisitTyped /\ crossed \in BOOLEAN /\ (cli = "reset" => account # "none")
    /\ WriterHoldsMutex /\ FoundersHaveAccount /\ WritersSawNone /\ OneFounder

LEMMA AccountInit == AuthInit => AccountInv
<1> SUFFICES ASSUME AuthInit PROVE AccountInv
  OBVIOUS
<1>1. VisitTyped
  BY DEF AuthInit, VisitTyped, Away, Steps
<1>2. \A v \in Visitors : ~Visits(v, "write") /\ v # "free"
  BY AuthAssumption DEF AuthInit, Away, Visits
<1> QED
  BY <1>1, <1>2
  DEF AuthInit, AccountInv, WriterHoldsMutex, FoundersHaveAccount, WritersSawNone, OneFounder

\* What a visit may become without any effect on the account: everything but a write.
LEMMA VisitMoves ==
    ASSUME VisitTyped, NEW v \in Visitors,
           \/ Answer(v)
           \/ \E label \in Steps : Step(v, label)
           \/ \E label \in Steps, ip \in Addresses \cup {"-"}, p \in Passwords : Enter(v, label, ip, p)
    PROVE  /\ VisitTyped'
           /\ \A w \in Visitors \ {v} : visit'[w] = visit[w]
BY DEF VisitTyped, Answer, Step, Enter, Away, Steps

LEMMA VisitArrives ==
    ASSUME VisitTyped, NEW v \in Visitors, NEW label \in Steps
    PROVE  /\ Answer(v) => ~Visits(v, "write")'
           /\ Step(v, label) => (Visits(v, "write")' <=> label = "write")
           /\ \A ip, p : Enter(v, label, ip, p) => (Visits(v, "write")' <=> label = "write")
BY DEF VisitTyped, Answer, Step, Enter, Away, Visits

\* A step that leaves the account, its mutex and the command alone, and nobody in or out
\* of a write.
LEMMA SetupUntouched ==
    ASSUME AccountInv, VisitTyped', UNCHANGED <<authFile, cli>>,
           \A v \in Visitors : Visits(v, "write")' <=> Visits(v, "write")
    PROVE  AccountInv'
BY DEF AccountInv, authFile, WriterHoldsMutex, FoundersHaveAccount, WritersSawNone, OneFounder

LEMMA AccountStep == AccountInv /\ [AuthNext]_authVars => AccountInv'
<1> SUFFICES ASSUME AccountInv, [AuthNext]_authVars PROVE AccountInv'
  OBVIOUS
<1> VisitTyped
  BY DEF AccountInv
<1> "free" \notin Visitors /\ "setup" \notin Visitors
  BY AuthAssumption
<1> DEFINE Quiet(v) == \A w \in Visitors \ {v} : Visits(w, "write")' <=> Visits(w, "write")
<1>a. ASSUME NEW v \in Visitors, NEW label \in Steps \ {"write"}, ~Visits(v, "write"),
             UNCHANGED <<authFile, cli>>,
             \/ UNCHANGED visit \/ Answer(v) \/ Step(v, label)
             \/ \E ip \in Addresses \cup {"-"}, p \in Passwords : Enter(v, label, ip, p)
      PROVE  AccountInv'
  <2>1. CASE UNCHANGED visit
    BY <1>a, <2>1, SetupUntouched DEF VisitTyped, Visits
  <2>2. CASE ~UNCHANGED visit
    <3>1. VisitTyped' /\ \A w \in Visitors \ {v} : visit'[w] = visit[w]
      BY <1>a, <2>2, VisitMoves
    <3>2. ~Visits(v, "write")'
      BY <1>a, <2>2, VisitArrives
    <3> QED BY <1>a, <3>1, <3>2, SetupUntouched DEF Visits
  <2> QED BY <2>1, <2>2
<1>1. ASSUME NEW v \in Visitors, NEW ip \in Addresses, NEW p \in Passwords, LoginArrives(v, ip, p)
      PROVE  AccountInv'
  BY <1>1, <1>a DEF LoginArrives, Visits, Steps
<1>2. ASSUME NEW v \in Visitors, Authenticate(v) PROVE AccountInv'
  <2>1. \E label \in {"clear", "record"} : Answer(v) \/ Step(v, label)
    BY <1>2 DEF Authenticate
  <2> QED BY <1>2, <2>1, <1>a DEF Authenticate, Visits, Steps
<1>3. ASSUME NEW v \in Visitors, RecordLoginFailure(v) PROVE AccountInv'
  BY <1>3, <1>a DEF RecordLoginFailure, Visits, Steps
<1>4. ASSUME NEW v \in Visitors, ClearLoginFailures(v) PROVE AccountInv'
  BY <1>4, <1>a DEF ClearLoginFailures, Visits, Steps
<1>5. ASSUME NEW v \in Visitors, OpenSession(v) PROVE AccountInv'
  BY <1>5, <1>a DEF OpenSession, Visits, Steps
<1>6. ASSUME NEW v \in Visitors, NEW t, Authenticated(v, t) \/ HandleAuthLogout(v, t) PROVE AccountInv'
  BY <1>6, <1>a DEF Authenticated, HandleAuthLogout, Visits, Steps
<1>7. ASSUME NEW v \in Visitors, NEW p \in Passwords, SetupArrives(v, p) PROVE AccountInv'
  BY <1>7, <1>a DEF SetupArrives, Visits, Steps
<1>8. ASSUME NEW v \in Visitors, SetLooks(v) PROVE AccountInv'
  <2>1. CASE account # "none"
    BY <1>8, <2>1, <1>a DEF SetLooks, Visits, Steps, authFile
  <2>2. CASE account = "none"
    <3>1. Step(v, "write") /\ adminMutex = "free" /\ adminMutex' = v /\ "write" \in Steps
      BY <1>8, <2>2 DEF SetLooks, Steps
    <3>2. VisitTyped' /\ Visits(v, "write")' /\ \A w \in Visitors \ {v} : visit'[w] = visit[w]
      BY <3>1, VisitMoves, VisitArrives
    <3>3. UNCHANGED <<account, founders, crossed, cli>>
      BY <1>8 DEF SetLooks
    <3>4. WriterHoldsMutex'
      BY <3>1, <3>2 DEF AccountInv, WriterHoldsMutex, Visits
    <3> QED
      BY <2>2, <3>2, <3>3, <3>4
      DEF AccountInv, FoundersHaveAccount, WritersSawNone, OneFounder
  <2> QED BY <2>1, <2>2
<1>9. ASSUME NEW v \in Visitors, SetWrites(v) PROVE AccountInv'
  <2>1. Answer(v) /\ adminMutex' = "free" /\ Visits(v, "write") /\ cli' = cli /\ "away" \in Steps
    BY <1>9 DEF SetWrites, Steps
  <2>2. VisitTyped' /\ ~Visits(v, "write")' /\ \A w \in Visitors \ {v} : visit'[w] = visit[w]
    BY <2>1, VisitMoves, VisitArrives
  <2>3. \A w \in Visitors : ~Visits(w, "write")'
    BY <2>1, <2>2 DEF AccountInv, WriterHoldsMutex, Visits
  <2>4. WriterHoldsMutex'
    BY <2>1, <2>3 DEF WriterHoldsMutex
  <2>5. CASE UNCHANGED <<account, founders, crossed>>
    BY <2>1, <2>2, <2>3, <2>4, <2>5
    DEF AccountInv, FoundersHaveAccount, WritersSawNone, OneFounder
  <2>6. CASE /\ account' = visit[v].password /\ founders' = founders \cup {v}
             /\ crossed' = (crossed \/ cli = "write")
    <3>1. account' # "none"
      BY <2>6 DEF VisitTyped, Passwords
    <3>2. ~crossed' => founders = {}
      BY <2>1, <2>6 DEF AccountInv, FoundersHaveAccount, WritersSawNone
    <3> QED
      BY <2>1, <2>2, <2>3, <2>4, <2>6, <3>1, <3>2
      DEF AccountInv, FoundersHaveAccount, WritersSawNone, OneFounder
  <2> QED BY <1>9, <2>5, <2>6 DEF SetWrites
<1>10. CASE InitLooks
  BY <1>10
  DEF InitLooks, authFile, AccountInv, VisitTyped, WriterHoldsMutex, FoundersHaveAccount,
      WritersSawNone, OneFounder, Visits
<1>11. CASE InitWrites
  <2>1. /\ cli = "write" /\ cli' = "away" /\ UNCHANGED <<adminMutex, visit>>
        /\ crossed' = (crossed \/ \E v \in Visitors : Visits(v, "write"))
    BY <1>11 DEF InitWrites
  <2>2. VisitTyped' /\ WriterHoldsMutex' /\ \A v \in Visitors : Visits(v, "write")' <=> Visits(v, "write")
    BY <2>1 DEF AccountInv, VisitTyped, WriterHoldsMutex, Visits
  <2>3. CASE UNCHANGED <<account, founders>>
    BY <2>1, <2>2, <2>3 DEF AccountInv, FoundersHaveAccount, WritersSawNone, OneFounder
  <2>4. ASSUME NEW p \in Passwords, account' = p, founders' \in {founders, founders \cup {"setup"}}
        PROVE  AccountInv'
    <3>1. account' # "none"
      BY <2>4 DEF Passwords
    <3>2. ~crossed' => founders = {}
      BY <2>1 DEF AccountInv, FoundersHaveAccount, WritersSawNone
    <3> QED
      BY <2>1, <2>2, <2>4, <3>1, <3>2
      DEF AccountInv, FoundersHaveAccount, WritersSawNone, OneFounder
  <2> QED BY <1>11, <2>3, <2>4 DEF InitWrites
<1>12. CASE ResetReads
  BY <1>12
  DEF ResetReads, authFile, AccountInv, VisitTyped, WriterHoldsMutex, FoundersHaveAccount,
      WritersSawNone, OneFounder, Visits
<1>13. CASE ResetWrites
  BY <1>13
  DEF ResetWrites, Passwords, AccountInv, VisitTyped, WriterHoldsMutex, FoundersHaveAccount,
      WritersSawNone, OneFounder, Visits
<1>14. CASE AuthRestarts
  BY <1>14
  DEF AuthRestarts, Away, Steps, AccountInv, VisitTyped, WriterHoldsMutex, FoundersHaveAccount,
      WritersSawNone, OneFounder, Visits
<1>15. CASE Tick
  BY <1>15, SetupUntouched DEF Tick, VisitTyped, Visits
<1>16. CASE UNCHANGED authVars
  BY <1>16, SetupUntouched DEF authVars, VisitTyped, Visits
<1> QED
  BY <1>1, <1>2, <1>3, <1>4, <1>5, <1>6, <1>7, <1>8, <1>9, <1>10, <1>11, <1>12, <1>13, <1>14,
     <1>15, <1>16
  DEF AuthNext

LEMMA OneFounderCounts == ASSUME OneFounder, ~crossed PROVE Cardinality(founders) <= 1
<1>1. CASE founders = {}
  BY <1>1, FS_EmptySet
<1>2. ASSUME NEW f \in founders PROVE Cardinality(founders) = 1
  BY <1>2, FS_Singleton, founders = {f} DEF OneFounder
<1> QED BY <1>1, <1>2

\* The account is given away once, whatever the number of browsers that try: proved from
\* the mutex of FileAdminStore.Set, which is held from the look to the write (auth.go).
THEOREM SetupOnceProved == AuthSpec => []SetupOnce
<1>1. AccountInv => SetupOnce
  BY OneFounderCounts DEF AccountInv, SetupOnce
<1> QED BY AccountInit, AccountStep, <1>1, PTL DEF AuthSpec

-----------------------------------------------------------------------------
(* Sessions that are over *)

\* Every session has been drawn, and has an age.
SessionsDrawn ==
    /\ DOMAIN sessions \subseteq drawn
    /\ \A t \in DOMAIN sessions : sessions[t] \in Nat

LEMMA SessionsInit == AuthInit => SessionsDrawn
BY DEF AuthInit, SessionsDrawn

\* What a step may do to the sessions: drop some, renew live ones, age them, or add one
\* whose token is new.
SessionsMove ==
    \/ UNCHANGED <<sessions, drawn>>
    \/ /\ UNCHANGED drawn /\ DOMAIN sessions' \subseteq Live
       /\ \A t \in DOMAIN sessions' : sessions'[t] \in {0, sessions[t]}
    \/ /\ UNCHANGED drawn
       /\ sessions' = [t \in DOMAIN sessions |-> Older(sessions[t], Lifetime)]
    \/ \E n \in Tokens \ drawn :
         /\ drawn' = drawn \cup {n} /\ DOMAIN sessions' = Live \cup {n}
         /\ \A t \in DOMAIN sessions' : sessions'[t] = IF t = n THEN 0 ELSE sessions[t]

LEMMA EveryStepMovesSessions == [AuthNext]_authVars => SessionsMove
<1> SUFFICES ASSUME [AuthNext]_authVars PROVE SessionsMove
  OBVIOUS
<1> DEFINE Dropped ==
      /\ UNCHANGED drawn /\ DOMAIN sessions' \subseteq Live
      /\ \A t \in DOMAIN sessions' : sessions'[t] \in {0, sessions[t]}
<1>p. ASSUME UNCHANGED drawn, sessions' = Unexpired PROVE Dropped
  BY <1>p DEF Live, Unexpired
<1>1. ASSUME NEW v \in Visitors, NEW ip \in Addresses, NEW p \in Passwords, LoginArrives(v, ip, p)
      PROVE  SessionsMove
  BY <1>1, <1>p DEF LoginArrives, Purge, SessionsMove
<1>2. ASSUME NEW v \in Visitors, Authenticate(v) \/ ClearLoginFailures(v) PROVE SessionsMove
  BY <1>2 DEF Authenticate, ClearLoginFailures, authLife, SessionsMove
<1>3. ASSUME NEW v \in Visitors, RecordLoginFailure(v) PROVE SessionsMove
  BY <1>3, <1>p DEF RecordLoginFailure, SessionsMove
<1>4. ASSUME NEW v \in Visitors, OpenSession(v) PROVE SessionsMove
  <2>1. PICK n \in Tokens \ drawn :
          /\ sessions' = [u \in DOMAIN Unexpired \cup {n} |-> IF u = n THEN 0 ELSE sessions[u]]
          /\ drawn' = drawn \cup {n}
    BY <1>4 DEF OpenSession
  <2> QED BY <2>1 DEF SessionsMove, Live
<1>5. ASSUME NEW v \in Visitors, NEW t, Authenticated(v, t) \/ HandleAuthLogout(v, t) PROVE SessionsMove
  <2>1. Dropped
    BY <1>5 DEF Authenticated, HandleAuthLogout, Live
  <2> QED BY <2>1 DEF SessionsMove
<1>6. ASSUME NEW v \in Visitors, NEW p \in Passwords, SetupArrives(v, p) PROVE SessionsMove
  BY <1>6, <1>p DEF SetupArrives, Purge, SessionsMove
<1>7. ASSUME NEW v \in Visitors, SetLooks(v) \/ SetWrites(v) PROVE SessionsMove
  BY <1>7 DEF SetLooks, SetWrites, authLife, SessionsMove
<1>8. CASE InitLooks \/ InitWrites \/ ResetReads \/ ResetWrites
  BY <1>8 DEF InitLooks, InitWrites, ResetReads, ResetWrites, authLife, SessionsMove
<1>9. CASE AuthRestarts
  BY <1>9 DEF AuthRestarts, SessionsMove
<1>10. CASE Tick
  BY <1>10 DEF Tick, SessionsMove
<1>11. CASE UNCHANGED authVars
  BY <1>11 DEF authVars, authLife, SessionsMove
<1> QED
  BY <1>1, <1>2, <1>3, <1>4, <1>5, <1>6, <1>7, <1>8, <1>9, <1>10, <1>11 DEF AuthNext

LEMMA LiveIs == Live = {t \in DOMAIN sessions : sessions[t] < Lifetime}
BY DEF Live, Unexpired

LEMMA LiveIsNext == Live' = {t \in DOMAIN sessions' : sessions'[t] < Lifetime}
BY DEF Live, Unexpired

LEMMA SessionsStep ==
    ASSUME SessionsDrawn, SessionsMove
    PROVE  SessionsDrawn' /\ \A t \in drawn \ Live : t \notin Live'
<1> USE AuthAssumption, LiveIs, LiveIsNext
<1>1. CASE UNCHANGED <<sessions, drawn>>
  BY <1>1 DEF SessionsDrawn
<1>2. CASE /\ UNCHANGED drawn /\ DOMAIN sessions' \subseteq Live
           /\ \A t \in DOMAIN sessions' : sessions'[t] \in {0, sessions[t]}
  BY <1>2 DEF SessionsDrawn
<1>3. CASE /\ UNCHANGED drawn
           /\ sessions' = [t \in DOMAIN sessions |-> Older(sessions[t], Lifetime)]
  BY <1>3 DEF SessionsDrawn, Older
<1>4. ASSUME NEW n \in Tokens \ drawn, drawn' = drawn \cup {n}, DOMAIN sessions' = Live \cup {n},
             \A t \in DOMAIN sessions' : sessions'[t] = IF t = n THEN 0 ELSE sessions[t]
      PROVE  SessionsDrawn' /\ \A t \in drawn \ Live : t \notin Live'
  BY <1>4 DEF SessionsDrawn
<1> QED BY <1>1, <1>2, <1>3, <1>4 DEF SessionsMove

\* A token that was handed out and is no longer live (logged out, idle for too long, lost
\* in a restart) is never accepted again: every lookup is made in the critical section
\* that renews it (server.go, sessionAuthenticated).
THEOREM DeadStaysDeadProved == AuthSpec => DeadStaysDead
<1>1. SessionsDrawn /\ [AuthNext]_authVars => SessionsDrawn'
  BY EveryStepMovesSessions, SessionsStep
<1>2. SessionsDrawn /\ [AuthNext]_authVars => [\A t \in drawn \ Live : t \notin Live']_authVars
  BY EveryStepMovesSessions, SessionsStep
<1> QED BY SessionsInit, <1>1, <1>2, PTL DEF AuthSpec, DeadStaysDead

-----------------------------------------------------------------------------
(* Failed logins *)

LEMMA FiniteVisitors == \A S \in SUBSET Visitors :
    IsFiniteSet(S) /\ Cardinality(S) \in Nat /\ Cardinality(S) <= Cardinality(Visitors)
BY AuthAssumption, FS_Subset, FS_CardinalityType

InWindow(ages) == {i \in DOMAIN ages : ages[i] < Window}

\* Purging keeps as many failures as are in the window.
LEMMA RecentIsWindow ==
    ASSUME NEW ages \in Seq(Nat)
    PROVE  /\ Recent(ages) \in Seq(Nat)
           /\ Len(Recent(ages)) = Cardinality(InWindow(ages))
           /\ IsFiniteSet(InWindow(ages)) /\ Len(Recent(ages)) <= Len(ages)
<1> DEFINE kept == InWindow(ages)
<1>1. DOMAIN ages = 1..Len(ages) /\ Len(ages) \in Nat
  OBVIOUS
<1>2. IsFiniteSet(DOMAIN ages) /\ Cardinality(DOMAIN ages) = Len(ages)
  <2> DEFINE n == Len(ages)
  <2>1. n \in Nat /\ DOMAIN ages = 1..n
    BY <1>1
  <2> HIDE DEF n
  <2>2. IsFiniteSet(1..n) /\ Cardinality(1..n) = IF 1 > n THEN 0 ELSE n - 1 + 1
    BY <2>1, FS_Interval
  <2>3. Cardinality(1..n) = n
    BY <2>1, <2>2
  <2>4. n = Len(ages)
    BY DEF n
  <2> QED BY <2>1, <2>2, <2>3, <2>4
<1>3. IsFiniteSet(kept) /\ Cardinality(kept) <= Len(ages) /\ Cardinality(kept) \in Nat
  <2>1. kept \in SUBSET (DOMAIN ages)
    BY DEF InWindow
  <2> QED
    BY <2>1, <1>2, FS_Subset, FS_CardinalityType
<1>4. Recent(ages) = SubSeq(ages, Len(ages) - Cardinality(kept) + 1, Len(ages))
  BY DEF Recent, InWindow
<1> HIDE DEF kept
<1> DEFINE n == Cardinality(kept)
<1>5. n \in Nat /\ n <= Len(ages)
  BY <1>3
<1> HIDE DEF n
<1>6. SubSeq(ages, Len(ages) - n + 1, Len(ages)) \in Seq(Nat)
      /\ Len(SubSeq(ages, Len(ages) - n + 1, Len(ages))) = n
  BY <1>1, <1>5
<1> QED
  BY <1>3, <1>4, <1>5, <1>6 DEF n, kept

\* A list with no more failures in the window than another one keeps no more of them.
LEMMA FewerInWindow ==
    ASSUME NEW ages \in Seq(Nat), NEW more \in Seq(Nat), InWindow(ages) \subseteq InWindow(more)
    PROVE  Len(Recent(ages)) <= Len(Recent(more))
BY RecentIsWindow, FS_Subset

FailuresTyped == loginFailures \in [Addresses -> Seq(Nat)]

FailuresInv == VisitTyped /\ FailuresTyped /\ FailuresBounded

\* Neither the failures of an address nor the logins under way for it become more.
LEMMA NoMoreFailures ==
    ASSUME FailuresInv, VisitTyped', FailuresTyped',
           \A ip \in Addresses : /\ Len(Recent(loginFailures'[ip])) <= Len(Recent(loginFailures[ip]))
                                 /\ Trying(ip)' \subseteq Trying(ip)
    PROVE  FailuresInv'
<1> SUFFICES ASSUME NEW ip \in Addresses
             PROVE  Len(Recent(loginFailures'[ip])) + Cardinality(Trying(ip)')
                      <= MaxFailures - 1 + Cardinality(Visitors)
  BY DEF FailuresInv, FailuresBounded
<1>1. Trying(ip) \in SUBSET Visitors /\ Trying(ip)' \in SUBSET Trying(ip)
  BY DEF Trying
<1>2. Cardinality(Trying(ip)') <= Cardinality(Trying(ip))
      /\ Cardinality(Trying(ip)) \in Nat /\ Cardinality(Trying(ip)') \in Nat
  BY <1>1, FiniteVisitors, FS_Subset
<1>3. Len(Recent(loginFailures[ip])) \in Nat /\ Len(Recent(loginFailures'[ip])) \in Nat
  BY RecentIsWindow DEF FailuresInv, FailuresTyped
<1>4. Cardinality(Visitors) \in Nat /\ MaxFailures \in Nat
  BY FiniteVisitors, AuthAssumption
<1> QED
  BY <1>2, <1>3, <1>4 DEF FailuresInv, FailuresBounded

\* A purge forgets failures and counts none.
LEMMA PurgeForgets ==
    ASSUME FailuresTyped
    PROVE  /\ RecentFailures \in [Addresses -> Seq(Nat)]
           /\ \A ip \in Addresses : /\ Len(Recent(RecentFailures[ip])) <= Len(Recent(loginFailures[ip]))
                                    /\ RecentFailures[ip] = Recent(loginFailures[ip])
<1> SUFFICES ASSUME NEW ip \in Addresses
             PROVE  /\ Recent(loginFailures[ip]) \in Seq(Nat)
                    /\ Len(Recent(Recent(loginFailures[ip]))) <= Len(Recent(loginFailures[ip]))
  BY DEF RecentFailures
<1> QED
  BY RecentIsWindow DEF FailuresTyped

\* A request that moves to a step at which it is not counted.
LEMMA LeavesTrying ==
    ASSUME VisitTyped, NEW v \in Visitors, NEW ip,
           Answer(v) \/ \E label \in {"clear", "open", "write"} : Step(v, label)
    PROVE  Trying(ip)' = Trying(ip) \ {v}
BY DEF VisitTyped, Answer, Step, Away, Trying

LEMMA FailuresInit == AuthInit => FailuresInv
<1> SUFFICES ASSUME AuthInit PROVE FailuresInv
  OBVIOUS
<1>1. VisitTyped /\ FailuresTyped
  BY DEF AuthInit, VisitTyped, FailuresTyped, Away, Steps
<1>2. ASSUME NEW ip \in Addresses
      PROVE  Len(Recent(loginFailures[ip])) + Cardinality(Trying(ip)) <= MaxFailures - 1 + Cardinality(Visitors)
  <2>1. Trying(ip) = {}
    BY DEF AuthInit, Trying, Away
  <2>2. Len(Recent(loginFailures[ip])) <= 0 /\ Len(Recent(loginFailures[ip])) \in Nat
    <3>1. loginFailures[ip] = << >>
      BY DEF AuthInit
    <3>2. loginFailures[ip] \in Seq(Nat) /\ Len(loginFailures[ip]) = 0
      BY <3>1
    <3>3. Recent(loginFailures[ip]) \in Seq(Nat) /\ Len(Recent(loginFailures[ip])) <= 0
      BY <3>2, RecentIsWindow
    <3> QED
      BY <3>3
  <2> QED
    BY <2>1, <2>2, FS_EmptySet, FiniteVisitors, AuthAssumption
<1> QED
  BY <1>1, <1>2 DEF FailuresInv, FailuresBounded

\* A login that is let in finds fewer than MaxFailures, whoever else is under way.
LEMMA LoginArrivesFailures ==
    ASSUME FailuresInv, NEW v \in Visitors, NEW ip \in Addresses, NEW p \in Passwords,
           LoginArrives(v, ip, p)
    PROVE  FailuresInv'
<1>1. loginFailures' = RecentFailures /\ FailuresTyped'
  BY PurgeForgets DEF LoginArrives, Purge, FailuresInv, FailuresTyped
<1>2. \A a \in Addresses : Len(Recent(loginFailures'[a])) <= Len(Recent(loginFailures[a]))
  BY <1>1, PurgeForgets DEF FailuresInv
<1>3. CASE Locked(ip)
  <2>1. UNCHANGED visit
    BY <1>3 DEF LoginArrives
  <2>2. VisitTyped' /\ \A a \in Addresses : Trying(a)' = Trying(a)
    BY <2>1 DEF VisitTyped, Trying, FailuresInv
  <2> QED
    BY <1>1, <1>2, <2>2, NoMoreFailures
<1>4. CASE ~Locked(ip)
  <2>1. Enter(v, "authenticate", ip, p) /\ "authenticate" \in Steps
    BY <1>4 DEF LoginArrives, Steps
  <2>2. VisitTyped'
    BY <2>1, VisitMoves DEF FailuresInv
  <2>3. \A a \in Addresses \ {ip} : Trying(a)' \subseteq Trying(a)
    BY <2>1 DEF Enter, Trying, FailuresInv, VisitTyped
  <2>4. ASSUME NEW a \in Addresses
        PROVE  Len(Recent(loginFailures'[a])) + Cardinality(Trying(a)') <= MaxFailures - 1 + Cardinality(Visitors)
    <3>1. Len(Recent(loginFailures[a])) \in Nat /\ Len(Recent(loginFailures'[a])) \in Nat
      BY <1>1, RecentIsWindow DEF FailuresInv, FailuresTyped
    <3>2. /\ Trying(a) \in SUBSET Visitors /\ Trying(a)' \in SUBSET Visitors
          /\ Cardinality(Trying(a)) \in Nat /\ Cardinality(Trying(a)') \in Nat
          /\ Cardinality(Trying(a)') <= Cardinality(Visitors)
          /\ Cardinality(Visitors) \in Nat /\ MaxFailures \in Nat
      <4>1. Trying(a) \in SUBSET Visitors /\ Trying(a)' \in SUBSET Visitors
        BY DEF Trying
      <4> QED
        BY <4>1, FiniteVisitors, AuthAssumption
    <3>3. CASE a = ip
      <4>1. Len(Recent(loginFailures[a])) < MaxFailures
        BY <1>4, <3>1, <3>2, <3>3 DEF Locked
      <4> QED
        BY <4>1, <1>2, <3>1, <3>2
    <3>4. CASE a # ip
      <4>1. Cardinality(Trying(a)') <= Cardinality(Trying(a))
        BY <2>3, <3>2, <3>4, FiniteVisitors, FS_Subset
      <4> QED
        BY <4>1, <1>2, <3>1, <3>2 DEF FailuresInv, FailuresBounded
    <3> QED
      BY <3>3, <3>4
  <2> QED
    BY <1>1, <2>2, <2>4 DEF FailuresInv, FailuresBounded
<1> QED
  BY <1>3, <1>4

\* The failure that is counted is that of a login no longer under way.
LEMMA RecordFailures ==
    ASSUME FailuresInv, NEW v \in Visitors, RecordLoginFailure(v)
    PROVE  FailuresInv'
<1> DEFINE ip == visit[v].ip
<1>1. Answer(v) /\ Visits(v, "record")
      /\ loginFailures' = [RecentFailures EXCEPT ![ip] = Append(@, 0)]
  BY DEF RecordLoginFailure
<1>2. VisitTyped'
  BY <1>1, VisitMoves DEF FailuresInv
<1>3. /\ RecentFailures \in [Addresses -> Seq(Nat)]
      /\ \A a \in Addresses : /\ Len(Recent(RecentFailures[a])) <= Len(Recent(loginFailures[a]))
                              /\ RecentFailures[a] = Recent(loginFailures[a])
  BY PurgeForgets DEF FailuresInv
<1>4. FailuresTyped'
  <2> DEFINE purged == RecentFailures
  <2>1. purged \in [Addresses -> Seq(Nat)] /\ loginFailures' = [purged EXCEPT ![ip] = Append(@, 0)]
    BY <1>1, <1>3
  <2> HIDE DEF purged, ip
  <2>2. CASE ip \in Addresses
    <3>1. Append(purged[ip], 0) \in Seq(Nat)
      BY <2>1, <2>2
    <3> QED
      BY <2>1, <2>2, <3>1 DEF FailuresTyped
  <2>3. CASE ip \notin Addresses
    BY <2>1, <2>3 DEF FailuresTyped
  <2> QED
    BY <2>2, <2>3
<1>5. \A a \in Addresses : Trying(a)' = Trying(a) \ {v}
  BY <1>1, LeavesTrying DEF FailuresInv
<1>6. ASSUME NEW a \in Addresses
      PROVE  Len(Recent(loginFailures'[a])) + Cardinality(Trying(a)') <= MaxFailures - 1 + Cardinality(Visitors)
  <2>1. /\ Len(Recent(loginFailures[a])) \in Nat /\ Len(Recent(loginFailures'[a])) \in Nat
    BY <1>4, RecentIsWindow DEF FailuresInv, FailuresTyped
  <2>2. /\ IsFiniteSet(Trying(a)) /\ Cardinality(Trying(a)) \in Nat
        /\ Cardinality(Visitors) \in Nat /\ MaxFailures \in Nat
    <3>1. Trying(a) \in SUBSET Visitors
      BY DEF Trying
    <3> QED
      BY <3>1, FiniteVisitors, AuthAssumption
  <2>3. Cardinality(Trying(a)') = IF v \in Trying(a) THEN Cardinality(Trying(a)) - 1 ELSE Cardinality(Trying(a))
    BY <1>5, <2>2, FS_RemoveElement
  <2>4. Len(Recent(loginFailures[a])) + Cardinality(Trying(a)) <= MaxFailures - 1 + Cardinality(Visitors)
    BY DEF FailuresInv, FailuresBounded
  <2>5. CASE a = ip
    <3>1. v \in Trying(a)
      BY <1>1, <2>5 DEF Trying, Visits
    <3>2. Recent(loginFailures[a]) \in Seq(Nat)
      BY RecentIsWindow DEF FailuresInv, FailuresTyped
    <3>3. loginFailures'[a] = Append(Recent(loginFailures[a]), 0)
      BY <1>1, <1>3, <2>5
    <3>4. /\ loginFailures'[a] \in Seq(Nat)
          /\ Len(loginFailures'[a]) = Len(Recent(loginFailures[a])) + 1
      BY <3>2, <3>3
    <3>5. Len(Recent(loginFailures'[a])) <= Len(Recent(loginFailures[a])) + 1
      BY <3>4, RecentIsWindow
    <3> QED
      BY <3>1, <3>5, <2>1, <2>2, <2>3, <2>4
  <2>6. CASE a # ip
    <3>1. loginFailures'[a] = RecentFailures[a]
      BY <1>1, <1>3, <2>6
    <3> QED
      BY <3>1, <1>3, <2>1, <2>2, <2>3, <2>4
  <2> QED
    BY <2>5, <2>6
<1> QED
  BY <1>2, <1>4, <1>6 DEF FailuresInv, FailuresBounded

\* Ages only rise, and what has left the window stays out of it.
LEMMA TickFailures == ASSUME FailuresInv, Tick PROVE FailuresInv'
<1>1. VisitTyped' /\ \A a : Trying(a)' = Trying(a)
  BY DEF Tick, FailuresInv, VisitTyped, Trying
<1>2. ASSUME NEW a \in Addresses
      PROVE  loginFailures'[a] \in Seq(Nat) /\ InWindow(loginFailures'[a]) \subseteq InWindow(loginFailures[a])
  <2> DEFINE old == loginFailures[a]
  <2>1. old \in Seq(Nat) /\ Window \in Nat
    BY AuthAssumption DEF FailuresInv, FailuresTyped
  <2>2. loginFailures'[a] = [i \in DOMAIN old |-> Older(old[i], Window)]
    BY DEF Tick
  <2>3. \A i \in DOMAIN old : old[i] \in Nat /\ Older(old[i], Window) \in Nat
                              /\ (Older(old[i], Window) < Window => old[i] < Window)
    BY <2>1 DEF Older
  <2>4. DOMAIN old = 1..Len(old) /\ Len(old) \in Nat
    BY <2>1
  <2> HIDE DEF old
  <2>5. loginFailures'[a] \in Seq(Nat)
    BY <2>2, <2>3, <2>4
  <2>6. InWindow(loginFailures'[a]) \subseteq InWindow(old)
    BY <2>2, <2>3 DEF InWindow
  <2> QED
    BY <2>5, <2>6 DEF old
<1>3. FailuresTyped'
  BY <1>2 DEF Tick, FailuresTyped
<1>4. \A a \in Addresses : Len(Recent(loginFailures'[a])) <= Len(Recent(loginFailures[a]))
  BY <1>2, FewerInWindow DEF FailuresInv, FailuresTyped
<1> QED
  BY <1>1, <1>3, <1>4, NoMoreFailures

LEMMA FailuresStep == FailuresInv /\ [AuthNext]_authVars => FailuresInv'
<1> SUFFICES ASSUME FailuresInv, [AuthNext]_authVars PROVE FailuresInv'
  OBVIOUS
<1> VisitTyped /\ FailuresTyped
  BY DEF FailuresInv
<1>a. ASSUME loginFailures' = loginFailures \/ loginFailures' = RecentFailures, VisitTyped',
             \A a \in Addresses : Trying(a)' \subseteq Trying(a)
      PROVE  FailuresInv'
  <2>1. FailuresTyped' /\ \A a \in Addresses : Len(Recent(loginFailures'[a])) <= Len(Recent(loginFailures[a]))
    <3>1. CASE loginFailures' = loginFailures
      BY <3>1, RecentIsWindow DEF FailuresTyped
    <3>2. CASE loginFailures' = RecentFailures
      BY <3>2, PurgeForgets DEF FailuresTyped
    <3> QED
      BY <1>a, <3>1, <3>2
  <2> QED
    BY <1>a, <2>1, NoMoreFailures
<1>b. ASSUME loginFailures' = loginFailures \/ loginFailures' = RecentFailures,
             NEW v \in Visitors, Answer(v) \/ \E label \in {"clear", "open", "write"} : Step(v, label)
      PROVE  FailuresInv'
  <2>1. {"clear", "open", "write"} \subseteq Steps
    BY DEF Steps
  <2>2. VisitTyped'
    BY <1>b, <2>1, VisitMoves
  <2>3. \A a \in Addresses : Trying(a)' \subseteq Trying(a)
    BY <1>b, LeavesTrying
  <2> QED
    BY <1>a, <1>b, <2>2, <2>3
<1>c. ASSUME loginFailures' = loginFailures \/ loginFailures' = RecentFailures, UNCHANGED visit
      PROVE  FailuresInv'
  <2>1. VisitTyped' /\ \A a \in Addresses : Trying(a)' \subseteq Trying(a)
    BY <1>c DEF VisitTyped, Trying
  <2> QED
    BY <1>a, <1>c, <2>1
<1>1. ASSUME NEW v \in Visitors, NEW ip \in Addresses, NEW p \in Passwords, LoginArrives(v, ip, p)
      PROVE  FailuresInv'
  BY <1>1, LoginArrivesFailures
<1>2. ASSUME NEW v \in Visitors, Authenticate(v) PROVE FailuresInv'
  <2>1. loginFailures' = loginFailures /\ Visits(v, "authenticate")
    BY <1>2 DEF Authenticate, authLife
  <2>2. CASE Answer(v) \/ Step(v, "clear")
    BY <2>1, <2>2, <1>b
  <2>3. CASE Step(v, "record")
    <3>1. VisitTyped'
      BY <2>3, VisitMoves DEF Steps
    <3>2. \A a \in Addresses : Trying(a)' \subseteq Trying(a)
      BY <2>1, <2>3 DEF VisitTyped, Trying, Step, Visits
    <3> QED
      BY <1>a, <2>1, <3>1, <3>2
  <2> QED
    BY <1>2, <2>2, <2>3 DEF Authenticate
<1>3. ASSUME NEW v \in Visitors, RecordLoginFailure(v) PROVE FailuresInv'
  BY <1>3, RecordFailures
<1>4. ASSUME NEW v \in Visitors, ClearLoginFailures(v) PROVE FailuresInv'
  <2>1. Step(v, "open") /\ loginFailures' = [loginFailures EXCEPT ![visit[v].ip] = << >>]
    BY <1>4 DEF ClearLoginFailures
  <2>2. VisitTyped'
    BY <2>1, VisitMoves DEF Steps
  <2>3. \A a \in Addresses : Trying(a)' \subseteq Trying(a)
    BY <2>1, LeavesTrying
  <2>4. << >> \in Seq(Nat) /\ InWindow(<< >>) = {}
    BY DEF InWindow
  <2>5. FailuresTyped'
    BY <2>1, <2>4 DEF FailuresTyped
  <2>6. \A a \in Addresses : InWindow(loginFailures'[a]) \subseteq InWindow(loginFailures[a])
    BY <2>1, <2>4 DEF FailuresTyped
  <2>7. \A a \in Addresses : Len(Recent(loginFailures'[a])) <= Len(Recent(loginFailures[a]))
    BY <2>5, <2>6, FewerInWindow DEF FailuresTyped
  <2> QED
    BY <2>2, <2>3, <2>5, <2>7, NoMoreFailures
<1>5. ASSUME NEW v \in Visitors, OpenSession(v) PROVE FailuresInv'
  BY <1>5, <1>b DEF OpenSession
<1>6. ASSUME NEW v \in Visitors, NEW t, Authenticated(v, t) \/ HandleAuthLogout(v, t) PROVE FailuresInv'
  BY <1>6, <1>c DEF Authenticated, HandleAuthLogout
<1>7. ASSUME NEW v \in Visitors, NEW p \in Passwords, SetupArrives(v, p) PROVE FailuresInv'
  <2>1. Enter(v, "set", "-", p) /\ loginFailures' = RecentFailures
    BY <1>7 DEF SetupArrives, Purge
  <2>2. VisitTyped'
    BY <2>1, VisitMoves DEF Steps
  <2>3. \A a \in Addresses : Trying(a)' \subseteq Trying(a)
    BY <2>1 DEF VisitTyped, Enter, Trying
  <2> QED
    BY <1>a, <2>1, <2>2, <2>3
<1>8. ASSUME NEW v \in Visitors, SetLooks(v) \/ SetWrites(v) PROVE FailuresInv'
  <2>1. loginFailures' = loginFailures /\ (Answer(v) \/ Step(v, "write"))
    BY <1>8 DEF SetLooks, SetWrites, authLife
  <2> QED
    BY <2>1, <1>b
<1>9. CASE InitLooks \/ InitWrites \/ ResetReads \/ ResetWrites
  BY <1>9, <1>c DEF InitLooks, InitWrites, ResetReads, ResetWrites, authLife
<1>10. CASE AuthRestarts
  <2>1. visit' = [v \in Visitors |-> Away] /\ loginFailures' = [a \in Addresses |-> << >>]
    BY <1>10 DEF AuthRestarts
  <2>2. VisitTyped' /\ \A a \in Addresses : Trying(a)' = {}
    BY <2>1 DEF VisitTyped, Away, Steps, Trying
  <2>3. << >> \in Seq(Nat) /\ InWindow(<< >>) = {}
    BY DEF InWindow
  <2>4. FailuresTyped'
    BY <2>1, <2>3 DEF FailuresTyped
  <2>5. \A a \in Addresses : Len(Recent(loginFailures'[a])) <= Len(Recent(loginFailures[a]))
    BY <2>1, <2>3, FewerInWindow DEF FailuresTyped
  <2> QED
    BY <2>2, <2>4, <2>5, NoMoreFailures
<1>11. CASE Tick
  BY <1>11, TickFailures
<1>12. CASE UNCHANGED authVars
  BY <1>12, <1>c DEF authVars, authLife
<1> QED
  BY <1>1, <1>2, <1>3, <1>4, <1>5, <1>6, <1>7, <1>8, <1>9, <1>10, <1>11, <1>12 DEF AuthNext

\* The lockout looks before a password is tried and the failure is counted after it
\* (loginLocked, recordLoginFailure), yet the failures of a window and the logins under
\* way never exceed the limit by more than the requests that overlap, for any number of
\* requests, addresses and failures.
THEOREM FailuresBoundedProved == AuthSpec => []FailuresBounded
<1>1. FailuresInv => FailuresBounded
  BY DEF FailuresInv
<1> QED
  BY FailuresInit, FailuresStep, <1>1, PTL DEF AuthSpec

-----------------------------------------------------------------------------
(* The values of the variables *)

\* Nobody is on the way without a password.
PasswordGiven == \A v \in Visitors : visit[v].at # "away" => visit[v].password \in Passwords

\* What AuthTypeOK says beyond AccountInv.
AuthTyped ==
    /\ account \in Passwords \cup {"none"} /\ adminMutex \in Visitors \cup {"free"}
    /\ drawn \subseteq Tokens /\ DOMAIN sessions \subseteq drawn
    /\ \A t \in DOMAIN sessions : sessions[t] \in 0 .. Lifetime
    /\ loginFailures \in [Addresses -> Seq(0 .. Window)]
    /\ cli \in {"away", "write", "reset"} /\ founders \subseteq Visitors \cup {"setup"}
    /\ PasswordGiven

LEMMA AuthTypedInit == AuthInit => AuthTyped
BY DEF AuthInit, AuthTyped, PasswordGiven, Away

\* Ages stay in their range when old ones are forgotten, and when they grow.
LEMMA AgesTyped ==
    ASSUME NEW ages \in Seq(0 .. Window)
    PROVE  /\ Recent(ages) \in Seq(0 .. Window)
           /\ [i \in DOMAIN ages |-> Older(ages[i], Window)] \in Seq(0 .. Window)
<1>1. Window \in Nat
    BY AuthAssumption
<1>2. ages \in Seq(Nat)
    BY <1>1
<1>3. /\ IsFiniteSet(InWindow(ages)) /\ Cardinality(InWindow(ages)) \in Nat
      /\ Cardinality(InWindow(ages)) <= Len(ages)
    BY <1>2, RecentIsWindow, FS_CardinalityType
<1>4. Recent(ages) = SubSeq(ages, Len(ages) - Cardinality(InWindow(ages)) + 1, Len(ages))
    BY DEF Recent, InWindow
<1> DEFINE S == 0 .. Window
           n == Cardinality(InWindow(ages))
           now == [i \in 1..Len(ages) |-> Older(ages[i], Window)]
<1>5. \A a \in S : Older(a, Window) \in S
    BY <1>1 DEF Older
<1>6. ages \in Seq(S) /\ n \in Nat /\ n <= Len(ages) /\ DOMAIN ages = 1..Len(ages)
    BY <1>3
<1> HIDE DEF S, n
<1>7. SubSeq(ages, Len(ages) - n + 1, Len(ages)) \in Seq(S)
    BY <1>6
<1>8. now \in Seq(S)
  <2>1. \A i \in 1..Len(ages) : now[i] \in S
      BY <1>5, <1>6
  <2> QED BY <1>6, <2>1
<1> QED BY <1>4, <1>6, <1>7, <1>8 DEF S, n

\* A purge keeps the ages of the failures in their range.
LEMMA PurgeTyped ==
    ASSUME AuthTyped PROVE RecentFailures \in [Addresses -> Seq(0 .. Window)]
<1> SUFFICES ASSUME NEW ip \in Addresses PROVE Recent(loginFailures[ip]) \in Seq(0 .. Window)
    BY DEF RecentFailures
<1> QED BY AgesTyped DEF AuthTyped

\* Sessions have an age in their range, however a step moves them.
LEMMA SessionsTyped ==
    ASSUME AuthTyped, SessionsMove
    PROVE  /\ drawn' \subseteq Tokens /\ DOMAIN sessions' \subseteq drawn'
           /\ \A t \in DOMAIN sessions' : sessions'[t] \in 0 .. Lifetime
<1> USE AuthAssumption, LiveIs DEF AuthTyped
<1>1. CASE UNCHANGED <<sessions, drawn>>
    BY <1>1
<1>2. CASE /\ UNCHANGED drawn /\ DOMAIN sessions' \subseteq Live
           /\ \A t \in DOMAIN sessions' : sessions'[t] \in {0, sessions[t]}
    BY <1>2
<1>3. CASE /\ UNCHANGED drawn
           /\ sessions' = [t \in DOMAIN sessions |-> Older(sessions[t], Lifetime)]
    BY <1>3 DEF Older
<1>4. ASSUME NEW n \in Tokens \ drawn, drawn' = drawn \cup {n}, DOMAIN sessions' = Live \cup {n},
             \A t \in DOMAIN sessions' : sessions'[t] = IF t = n THEN 0 ELSE sessions[t]
      PROVE  /\ drawn' \subseteq Tokens /\ DOMAIN sessions' \subseteq drawn'
             /\ \A t \in DOMAIN sessions' : sessions'[t] \in 0 .. Lifetime
    BY <1>4
<1> QED BY <1>1, <1>2, <1>3, <1>4 DEF SessionsMove

\* A visit that answers, goes on or enters with a password.
LEMMA GivenMoves ==
    ASSUME VisitTyped, PasswordGiven, NEW v \in Visitors,
           \/ UNCHANGED visit \/ Answer(v)
           \/ visit[v].at # "away" /\ \E label \in Steps : Step(v, label)
           \/ \E label \in Steps, ip \in Addresses \cup {"-"}, p \in Passwords : Enter(v, label, ip, p)
    PROVE  PasswordGiven'
BY DEF VisitTyped, PasswordGiven, Answer, Step, Enter, Away

LEMMA AuthTypedStep == AccountInv /\ AuthTyped /\ [AuthNext]_authVars => AuthTyped'
<1> SUFFICES ASSUME AccountInv, AuthTyped, [AuthNext]_authVars PROVE AuthTyped'
    OBVIOUS
<1>0. /\ VisitTyped /\ PasswordGiven
      /\ drawn' \subseteq Tokens /\ DOMAIN sessions' \subseteq drawn'
      /\ \A t \in DOMAIN sessions' : sessions'[t] \in 0 .. Lifetime
    BY EveryStepMovesSessions, SessionsTyped DEF AccountInv, AuthTyped
<1> DEFINE Rest == loginFailures \in [Addresses -> Seq(0 .. Window)]
           Who == /\ account \in Passwords \cup {"none"} /\ adminMutex \in Visitors \cup {"free"}
                  /\ cli \in {"away", "write", "reset"} /\ founders \subseteq Visitors \cup {"setup"}
<1>a. Rest /\ Who /\ RecentFailures \in [Addresses -> Seq(0 .. Window)]
    BY PurgeTyped DEF AuthTyped
<1>b. ASSUME Rest', Who', PasswordGiven' PROVE AuthTyped'
    BY <1>0, <1>b DEF AuthTyped
<1>c. UNCHANGED <<authFile, cli>> => Who'
    BY <1>a DEF authFile
<1>d. UNCHANGED visit => PasswordGiven'
    BY <1>0 DEF PasswordGiven
<1>e. 0 \in 0 .. Window
    BY AuthAssumption
<1>1. ASSUME NEW v \in Visitors, NEW ip \in Addresses, NEW p \in Passwords, LoginArrives(v, ip, p)
      PROVE  AuthTyped'
  <2>1. loginFailures' = RecentFailures /\ UNCHANGED <<authFile, cli>>
        /\ (UNCHANGED visit \/ Enter(v, "authenticate", ip, p))
      BY <1>1 DEF LoginArrives, Purge
  <2>2. PasswordGiven'
      BY <1>0, <2>1, GivenMoves DEF Steps
  <2> QED BY <1>a, <1>b, <1>c, <2>1, <2>2
<1>2. ASSUME NEW v \in Visitors, Authenticate(v) PROVE AuthTyped'
  <2>1. UNCHANGED loginFailures /\ UNCHANGED <<authFile, cli>> /\ visit[v].at # "away"
        /\ \E label \in {"clear", "record"} : Answer(v) \/ Step(v, label)
      BY <1>2 DEF Authenticate, authLife, Visits
  <2>2. PasswordGiven'
      BY <1>0, <2>1, GivenMoves DEF Steps
  <2> QED BY <1>a, <1>b, <1>c, <2>1, <2>2
<1>3. ASSUME NEW v \in Visitors, RecordLoginFailure(v) PROVE AuthTyped'
  <2>1. /\ loginFailures' = [RecentFailures EXCEPT ![visit[v].ip] = Append(@, 0)]
        /\ UNCHANGED <<authFile, cli>> /\ Answer(v)
      BY <1>3 DEF RecordLoginFailure
  <2>2. \A ip \in Addresses : Append(RecentFailures[ip], 0) \in Seq(0 .. Window)
      BY <1>a, <1>e
  <2>3. Rest'
    <3> DEFINE R == RecentFailures
               T == Seq(0 .. Window)
    <3>1. R \in [Addresses -> T] /\ \A ip \in Addresses : Append(R[ip], 0) \in T
        BY <1>a, <2>2
    <3> HIDE DEF R, T
    <3>2. [R EXCEPT ![visit[v].ip] = Append(@, 0)] \in [Addresses -> T]
        BY <3>1
    <3> QED BY <2>1, <3>2 DEF R, T
  <2>4. PasswordGiven'
      BY <1>0, <2>1, GivenMoves
  <2> QED BY <1>b, <1>c, <2>1, <2>3, <2>4
<1>4. ASSUME NEW v \in Visitors, ClearLoginFailures(v) PROVE AuthTyped'
  <2>1. /\ loginFailures' = [loginFailures EXCEPT ![visit[v].ip] = << >>]
        /\ UNCHANGED <<authFile, cli>> /\ Step(v, "open") /\ visit[v].at # "away"
      BY <1>4 DEF ClearLoginFailures, Visits
  <2>2. Rest'
    <3> DEFINE T == Seq(0 .. Window)
    <3>1. << >> \in T /\ loginFailures \in [Addresses -> T]
        BY <1>a
    <3> HIDE DEF T
    <3> QED BY <2>1, <3>1 DEF T
  <2>3. PasswordGiven'
      BY <1>0, <2>1, GivenMoves DEF Steps
  <2> QED BY <1>b, <1>c, <2>1, <2>2, <2>3
<1>5. ASSUME NEW v \in Visitors, OpenSession(v) PROVE AuthTyped'
  <2>1. loginFailures' = RecentFailures /\ UNCHANGED <<authFile, cli>> /\ Answer(v)
      BY <1>5 DEF OpenSession
  <2>2. PasswordGiven'
      BY <1>0, <2>1, GivenMoves
  <2> QED BY <1>a, <1>b, <1>c, <2>1, <2>2
<1>6. ASSUME NEW v \in Visitors, NEW t, Authenticated(v, t) \/ HandleAuthLogout(v, t) PROVE AuthTyped'
  <2>1. loginFailures' = RecentFailures /\ UNCHANGED <<authFile, cli>> /\ UNCHANGED visit
      BY <1>6 DEF Authenticated, HandleAuthLogout
  <2> QED BY <1>a, <1>b, <1>c, <1>d, <2>1
<1>7. ASSUME NEW v \in Visitors, NEW p \in Passwords, SetupArrives(v, p) PROVE AuthTyped'
  <2>1. loginFailures' = RecentFailures /\ UNCHANGED <<authFile, cli>> /\ Enter(v, "set", "-", p)
      BY <1>7 DEF SetupArrives, Purge
  <2>2. PasswordGiven'
      BY <1>0, <2>1, GivenMoves DEF Steps
  <2> QED BY <1>a, <1>b, <1>c, <2>1, <2>2
<1>8. ASSUME NEW v \in Visitors, SetLooks(v) PROVE AuthTyped'
  <2>1. /\ UNCHANGED <<account, founders, cli, loginFailures>> /\ adminMutex' \in {adminMutex, v}
        /\ visit[v].at # "away" /\ (Answer(v) \/ Step(v, "write"))
      BY <1>8 DEF SetLooks, authLife, Visits
  <2>2. PasswordGiven'
      BY <1>0, <2>1, GivenMoves DEF Steps
  <2> QED BY <1>a, <1>b, <2>1, <2>2
<1>9. ASSUME NEW v \in Visitors, SetWrites(v) PROVE AuthTyped'
  <2>1. /\ UNCHANGED <<cli, loginFailures>> /\ adminMutex' = "free" /\ Answer(v)
        /\ account' \in {account, visit[v].password} /\ founders' \in {founders, founders \cup {v}}
        /\ visit[v].at # "away"
      BY <1>9 DEF SetWrites, authLife, Visits
  <2>2. PasswordGiven' /\ visit[v].password \in Passwords
      BY <1>0, <2>1, GivenMoves DEF PasswordGiven
  <2> QED BY <1>a, <1>b, <2>1, <2>2
<1>10. CASE InitLooks \/ InitWrites \/ ResetReads \/ ResetWrites
  <2>1. UNCHANGED visit /\ UNCHANGED loginFailures
      BY <1>10 DEF InitLooks, InitWrites, ResetReads, ResetWrites, authLife
  <2>2. Who'
      BY <1>10, <1>a DEF InitLooks, InitWrites, ResetReads, ResetWrites, authFile
  <2> QED BY <1>a, <1>b, <1>d, <2>1, <2>2
<1>11. CASE AuthRestarts
  <2>1. /\ loginFailures' = [ip \in Addresses |-> << >>] /\ visit' = [v \in Visitors |-> Away]
        /\ UNCHANGED <<account, founders, cli>> /\ adminMutex' = "free"
      BY <1>11 DEF AuthRestarts
  <2> QED BY <1>a, <1>b, <2>1 DEF PasswordGiven, Away
<1>12. CASE Tick
  <2>1. /\ loginFailures' = [ip \in Addresses |->
                              [i \in DOMAIN loginFailures[ip] |-> Older(loginFailures[ip][i], Window)]]
        /\ UNCHANGED <<authFile, cli>> /\ UNCHANGED visit
      BY <1>12 DEF Tick
  <2>2. \A ip \in Addresses :
          [i \in DOMAIN loginFailures[ip] |-> Older(loginFailures[ip][i], Window)] \in Seq(0 .. Window)
      BY <1>a, AgesTyped
  <2> QED BY <1>b, <1>c, <1>d, <2>1, <2>2
<1>13. CASE UNCHANGED authVars
    BY <1>13, <1>a, <1>b, <1>c, <1>d DEF authVars, authLife
<1> QED
    BY <1>1, <1>2, <1>3, <1>4, <1>5, <1>6, <1>7, <1>8, <1>9, <1>10, <1>11, <1>12, <1>13 DEF AuthNext

LEMMA AuthTypes == AccountInv /\ AuthTyped => AuthTypeOK
BY DEF AccountInv, AuthTyped, AuthTypeOK, VisitTyped, WriterHoldsMutex

\* The variables of the sessions and the account keep values of their kind, and the mutex
\* of FileAdminStore is held by whoever is about to write and by nobody else (auth.go).
THEOREM AuthTypeCorrect == AuthSpec => []AuthTypeOK
<1> QED
    BY AccountInit, AccountStep, AuthTypedInit, AuthTypedStep, AuthTypes, PTL DEF AuthSpec

-----------------------------------------------------------------------------
(***************************************************************************)
(* ManagementSetup: an account never comes before a pair the service can    *)
(* start from, and the service can read it.                                 *)
(***************************************************************************)

\* The commands that write a pair have one, and one that writes an account ends init
\* after a pair or finds an account.
CommandInv ==
    \A p \in Commands :
        /\ proc[p].at \in {"dir", "cert", "key", "own"} => proc[p].pair \in Nat \ {0}
        /\ proc[p].at \in {"key", "own"} => cert # 0
        /\ At(p, "account") => cert # 0

\* Neither an account nor a running service without a certificate that was installed.
NothingBeforePair == adminFile \/ service.at # "down" => cert # 0

\* The files when no command is between its two renames.
Settled == Whole \/ (cert = 0 /\ key = 0)
Between == {p \in Commands : proc[p].at \in {"key", "own"}}

\* As long as two commands have not written at a time, there is one writer, the files are
\* settled unless it is, or one that was cut short was, between the two renames, and its
\* own pair is what it has written so far.
PairInv ==
    ~crowded =>
        /\ \A p, q \in Writing : p = q
        /\ Between = {} /\ ~halfway => Settled
        /\ \A p \in Commands : At(p, "key") => cert = proc[p].pair
        /\ \A p \in Commands : At(p, "own") => cert = proc[p].pair /\ key = proc[p].pair

SetupProcTyped ==
    proc \in [Commands -> [at : {"gone", "dir", "cert", "key", "own", "account", "account_own",
                                 "layout_dir", "layout_admin"},
                           cmd : {"-", "init", "replace", "reset", "repair"}, pair : Nat]]

HostInv ==
    /\ SetupProcTyped /\ pairs \in Nat /\ crowded \in BOOLEAN /\ halfway \in BOOLEAN
    /\ CommandInv /\ NothingBeforePair /\ PairInv

LEMMA HostInit == SetupInit => HostInv
<1> SUFFICES ASSUME SetupInit PROVE HostInv
  OBVIOUS
<1>1. SetupProcTyped /\ \A p \in Commands : proc[p].at = "gone"
  BY DEF SetupInit, SetupProcTyped, Gone
<1>2. CommandInv /\ PairInv
  BY <1>1 DEF SetupInit, CommandInv, PairInv, At, Writing, Settled
<1>3. NothingBeforePair
  BY DEF SetupInit, NothingBeforePair, Down
<1> QED BY <1>1, <1>2, <1>3 DEF SetupInit, HostInv

\* A command that begins to write, with a pair that is its own.
LEMMA BeginWrites ==
    ASSUME HostInv, NEW p \in Commands, NEW c \in {"init", "replace"}, At(p, "gone"),
           pairs' = pairs + 1,
           proc' = [proc EXCEPT ![p] = [at |-> "dir", cmd |-> c, pair |-> pairs + 1]],
           crowded' = (crowded \/ Writing # {}),
           UNCHANGED <<hostFiles, service, halfway>>
    PROVE  HostInv'
<1> USE DEF HostInv, hostFiles
<1>1. SetupProcTyped' /\ pairs' \in Nat /\ crowded' \in BOOLEAN /\ halfway' \in BOOLEAN
  BY DEF SetupProcTyped
<1>2. CommandInv'
  BY DEF CommandInv, SetupProcTyped, At
<1>3. NothingBeforePair'
  BY DEF NothingBeforePair
<1>4. PairInv'
  <2> SUFFICES ASSUME ~crowded' PROVE PairInv'
    BY DEF PairInv
  <2>1. Writing = {} /\ ~crowded
    OBVIOUS
  <2>2. Writing' = {p} /\ Between' = {} /\ Between = {}
    BY <2>1 DEF Writing, Between, SetupProcTyped
  <2>3. Settled' <=> Settled
    BY DEF Settled, Whole, Readable
  <2>4. \A q \in Commands : ~At(q, "key")' /\ ~At(q, "own")'
    BY <2>2 DEF Between, At
  <2> QED BY <2>1, <2>2, <2>3, <2>4 DEF PairInv
<1> QED BY <1>1, <1>2, <1>3, <1>4

\* A command that begins, goes on or ends without a part in the writing of a pair, or does
\* so before its first rename.
LEMMA AwayFromPair ==
    ASSUME HostInv, NEW p \in Commands, SetupProcTyped',
           \A q \in Commands \ {p} : proc'[q] = proc[q],
           \/ p \notin Writing' /\ p \notin Between
           \/ At(p, "dir") /\ proc' = [proc EXCEPT ![p].at = "cert"],
           At(p, "account")' => cert # 0,
           UNCHANGED <<cert, key, service, halfway, crowded, pairs>>,
           groupReads \subseteq groupReads', adminFile' => adminFile \/ cert # 0
    PROVE  HostInv'
<1> USE DEF HostInv
<1>1. CommandInv'
  BY DEF CommandInv, SetupProcTyped, At, Writing, Between
<1>2. NothingBeforePair'
  BY DEF NothingBeforePair
<1>3. PairInv'
  <2> SUFFICES ASSUME ~crowded PROVE PairInv'
    BY DEF PairInv
  <2>1. Writing' \subseteq Writing /\ Between' = Between
    BY DEF Writing, Between, SetupProcTyped, At
  <2>2. Settled => Settled'
    BY DEF Settled, Whole, Readable
  <2>3. \A q \in Commands : (At(q, "key")' => At(q, "key") /\ proc'[q] = proc[q])
                            /\ (At(q, "own")' => At(q, "own") /\ proc'[q] = proc[q])
    BY DEF At, Writing, SetupProcTyped
  <2> QED BY <2>1, <2>2, <2>3 DEF PairInv
<1> QED BY <1>1, <1>2, <1>3

\* A step of the service, or of the browser, that leaves the files of the pair alone.
LEMMA OnlyService ==
    ASSUME HostInv, UNCHANGED <<cert, key, proc, pairs, halfway, crowded>>,
           groupReads \subseteq groupReads',
           adminFile' \/ service'.at # "down" => cert # 0
    PROVE  HostInv'
<1> USE DEF HostInv
<1>1. SetupProcTyped' /\ CommandInv' /\ NothingBeforePair'
  BY DEF SetupProcTyped, CommandInv, NothingBeforePair, At
<1>2. Settled => Settled'
  BY DEF Settled, Whole, Readable
<1>3. PairInv'
  BY <1>2 DEF PairInv, Writing, Between, At
<1> QED BY <1>1, <1>3

LEMMA HostStep == HostInv /\ [SetupNext]_setupVars => HostInv'
<1> SUFFICES ASSUME HostInv, [SetupNext]_setupVars PROVE HostInv'
  OBVIOUS
<1> USE DEF HostInv
<1>1. ASSUME NEW p \in Commands, InitBegins(p) \/ ReplaceBegins(p) PROVE HostInv'
  BY <1>1, BeginWrites DEF InitBegins, ReplaceBegins
<1>2. ASSUME NEW p \in Commands, ResetPasswordBegins(p) \/ RepairBegins(p) PROVE HostInv'
  <2>1. SetupProcTyped' /\ (\A q \in Commands \ {p} : proc'[q] = proc[q]) /\ p \notin Writing' /\ p \notin Between
    BY <1>2 DEF ResetPasswordBegins, RepairBegins, SetupProcTyped, Writing, Between, At
  <2>2. At(p, "account")' => cert # 0
    BY <1>2 DEF ResetPasswordBegins, RepairBegins, SetupProcTyped, At, NothingBeforePair
  <2> QED BY <1>2, <2>1, <2>2, AwayFromPair DEF ResetPasswordBegins, RepairBegins, hostFiles
<1>3. ASSUME NEW p \in Commands, RestrictDirectory(p) PROVE HostInv'
  <2>1. SetupProcTyped' /\ (\A q \in Commands \ {p} : proc'[q] = proc[q]) /\ ~At(p, "account")'
    BY <1>3 DEF RestrictDirectory, Proceed, SetupProcTyped, At
  <2> QED BY <1>3, <2>1, AwayFromPair DEF RestrictDirectory, Proceed
<1>4. ASSUME NEW p \in Commands, InstallCertificate(p) PROVE HostInv'
  <2>1. /\ At(p, "cert") /\ proc' = [proc EXCEPT ![p].at = "key"] /\ cert' = proc[p].pair
        /\ UNCHANGED <<key, adminFile, service, pairs, halfway, crowded>>
    BY <1>4 DEF InstallCertificate, Proceed
  <2>2. SetupProcTyped' /\ cert' # 0 /\ Writing' = Writing /\ p \in Writing /\ p \in Between'
    BY <2>1 DEF SetupProcTyped, CommandInv, Writing, Between, At
  <2>3. CommandInv' /\ NothingBeforePair'
    BY <2>1, <2>2 DEF SetupProcTyped, CommandInv, NothingBeforePair, At
  <2>4. PairInv'
    <3> SUFFICES ASSUME ~crowded PROVE PairInv'
      BY <2>1 DEF PairInv
    <3>1. \A q \in Commands \ {p} : ~At(q, "key")' /\ ~At(q, "own")'
      BY <2>2 DEF PairInv, Writing, At
    <3>2. ~At(p, "own")' /\ proc'[p].pair = proc[p].pair
      BY <2>1 DEF SetupProcTyped, At
    <3> QED BY <2>1, <2>2, <3>1, <3>2 DEF PairInv
  <2> QED BY <2>1, <2>2, <2>3, <2>4
<1>5. ASSUME NEW p \in Commands, InstallKey(p) PROVE HostInv'
  <2>1. /\ At(p, "key") /\ proc' = [proc EXCEPT ![p].at = "own"] /\ key' = proc[p].pair
        /\ UNCHANGED <<cert, adminFile, service, pairs, halfway, crowded>>
    BY <1>5 DEF InstallKey, Proceed
  <2>2. SetupProcTyped' /\ Writing' = Writing /\ p \in Writing /\ p \in Between'
    BY <2>1 DEF SetupProcTyped, Writing, Between, At
  <2>3. CommandInv' /\ NothingBeforePair'
    BY <2>1, <2>2 DEF SetupProcTyped, CommandInv, NothingBeforePair, At
  <2>4. PairInv'
    <3> SUFFICES ASSUME ~crowded PROVE PairInv'
      BY <2>1 DEF PairInv
    <3>1. \A q \in Commands \ {p} : ~At(q, "key")' /\ ~At(q, "own")'
      BY <2>2 DEF PairInv, Writing, At
    <3>2. ~At(p, "key")' /\ proc'[p].pair = proc[p].pair
      BY <2>1 DEF SetupProcTyped, At
    <3> QED BY <2>1, <2>2, <3>1, <3>2 DEF PairInv
  <2> QED BY <2>1, <2>2, <2>3, <2>4
<1>6. ASSUME NEW p \in Commands, HandOver(p) PROVE HostInv'
  <2>1. /\ At(p, "own") /\ Readable' /\ halfway' = FALSE
        /\ UNCHANGED <<cert, key, adminFile, service, pairs, crowded>>
    BY <1>6 DEF HandOver, Readable
  <2>2. /\ SetupProcTyped' /\ (\A q \in Commands \ {p} : proc'[q] = proc[q])
        /\ proc'[p].at \in {"gone", "account"}
    BY <1>6 DEF HandOver, Ends, Gone, SetupProcTyped
  <2>3. CommandInv' /\ NothingBeforePair'
    BY <2>1, <2>2 DEF CommandInv, NothingBeforePair, At
  <2>4. PairInv'
    <3> SUFFICES ASSUME ~crowded PROVE PairInv'
      BY <2>1 DEF PairInv
    <3>1. Writing' \subseteq Writing \ {p} /\ p \in Writing
      BY <2>1, <2>2 DEF Writing, At
    <3>2. Writing' = {}
      BY <3>1 DEF PairInv
    <3>3. Settled'
      BY <2>1 DEF PairInv, CommandInv, Settled, Whole
    <3>4. \A q \in Commands : ~At(q, "key")' /\ ~At(q, "own")'
      BY <3>2 DEF Writing, At
    <3> QED BY <3>2, <3>3, <3>4 DEF PairInv
  <2> QED BY <2>1, <2>2, <2>3, <2>4
<1>7. ASSUME NEW p \in Commands, WriteAccount(p) \/ OwnAccount(p) \/ RepairDirectory(p) \/ RepairAccount(p)
      PROVE  HostInv'
  <2>1. /\ SetupProcTyped' /\ (\A q \in Commands \ {p} : proc'[q] = proc[q]) /\ ~At(p, "account")'
        /\ p \notin Writing' /\ p \notin Between
    BY <1>7
    DEF WriteAccount, OwnAccount, RepairDirectory, RepairAccount, Ends, Proceed, Gone,
        SetupProcTyped, Writing, Between, At
  <2>2. adminFile' => adminFile \/ cert # 0
    BY <1>7 DEF WriteAccount, OwnAccount, RepairDirectory, RepairAccount, CommandInv
  <2>3. groupReads \subseteq groupReads' /\ UNCHANGED <<cert, key, service, halfway, crowded, pairs>>
    BY <1>7 DEF WriteAccount, OwnAccount, RepairDirectory, RepairAccount
  <2> QED BY <2>1, <2>2, <2>3, AwayFromPair
<1>8. ASSUME NEW p \in Commands, CutShort(p) PROVE HostInv'
  <2>1. /\ SetupProcTyped' /\ (\A q \in Commands \ {p} : proc'[q] = proc[q]) /\ proc'[p].at = "gone"
        /\ UNCHANGED <<cert, key, groupReads, adminFile, service, pairs, crowded>>
        /\ halfway' = (halfway \/ p \in Between) /\ halfway' \in BOOLEAN
    BY <1>8 DEF CutShort, Ends, Gone, SetupProcTyped, hostFiles, Between
  <2>2. CommandInv' /\ NothingBeforePair'
    BY <2>1 DEF CommandInv, NothingBeforePair, At
  <2>3. PairInv'
    <3> SUFFICES ASSUME ~crowded PROVE PairInv'
      BY <2>1 DEF PairInv
    <3>1. Writing' \subseteq Writing /\ Between' = Between \ {p}
      BY <2>1 DEF Writing, Between
    <3>2. Settled => Settled'
      BY <2>1 DEF Settled, Whole, Readable
    <3> QED BY <2>1, <3>1, <3>2 DEF PairInv, At
  <2> QED BY <2>1, <2>2, <2>3
<1>9. CASE WebSetup
  BY <1>9, OnlyService DEF WebSetup, NothingBeforePair
<1>10. CASE ReadCertificate \/ ReadKey \/ ServiceStops
  <2>1. UNCHANGED <<hostFiles, proc, pairs, halfway, crowded>>
    BY <1>10 DEF ReadCertificate, ReadKey, ServiceStops
  <2>2. service'.at # "down" => cert # 0
    BY <1>10 DEF ReadCertificate, ReadKey, ServiceStops, NothingBeforePair, Down
  <2> QED BY <2>1, <2>2, OnlyService DEF hostFiles, NothingBeforePair
<1>11. CASE UNCHANGED setupVars
  BY <1>11, OnlyService DEF setupVars, hostFiles, NothingBeforePair
<1> QED
  BY <1>1, <1>2, <1>3, <1>4, <1>5, <1>6, <1>7, <1>8, <1>9, <1>10, <1>11 DEF SetupNext, Goes

\* However commands fail or are killed, a host with an account has a pair the service can
\* start from, which init could not make any more (main.go, runInit), but for the window
\* between the two renames of writeTLSFiles and for two commands that write at a time.
THEOREM AccountHasPairProved == SetupSpec => []AccountHasPair
<1>1. HostInv => AccountHasPair
  BY DEF HostInv, NothingBeforePair, PairInv, Settled, AccountHasPair, Between, Writing
<1> QED BY HostInit, HostStep, <1>1, PTL DEF SetupSpec

\* What AccountIsReadable rests on: nothing takes the account from the group again.
ReadableInv == AccountIsReadable /\ DOMAIN proc = Commands

LEMMA ReadableStep == ReadableInv /\ [SetupNext]_setupVars => ReadableInv'
<1> SUFFICES ASSUME ReadableInv, [SetupNext]_setupVars PROVE ReadableInv'
  OBVIOUS
<1> USE DEF ReadableInv, AccountIsReadable, hostFiles
\* Steps that leave the account alone, and every command that is about to hand it over.
<1>1. ASSUME NEW p \in Commands, ~At(p, "account_own"), DOMAIN proc' = Commands,
             \A q \in Commands \ {p} : proc'[q] = proc[q],
             adminFile' = adminFile, stranded' = stranded,
             "admin" \in groupReads => "admin" \in groupReads'
      PROVE  ReadableInv'
  BY <1>1 DEF At
<1>2. ASSUME NEW p \in Commands,
             InitBegins(p) \/ ReplaceBegins(p) \/ ResetPasswordBegins(p) \/ RepairBegins(p)
      PROVE  ReadableInv'
  BY <1>1, <1>2 DEF InitBegins, ReplaceBegins, ResetPasswordBegins, RepairBegins, At
<1>3. ASSUME NEW p \in Commands, RestrictDirectory(p) \/ RepairDirectory(p) PROVE ReadableInv'
  BY <1>1, <1>3 DEF RestrictDirectory, RepairDirectory, Proceed, At
<1>4. ASSUME NEW p \in Commands, InstallCertificate(p) \/ InstallKey(p) PROVE ReadableInv'
  BY <1>1, <1>4 DEF InstallCertificate, InstallKey, InGroup, Proceed, At
<1>5. ASSUME NEW p \in Commands, HandOver(p) PROVE ReadableInv'
  BY <1>1, <1>5 DEF HandOver, Ends, At
<1>6. ASSUME NEW p \in Commands, WriteAccount(p) PROVE ReadableInv'
  <2>1. CASE adminFile' = adminFile /\ Ends(p)
    BY <1>1, <1>6, <2>1 DEF WriteAccount, Ends, At
  <2>2. CASE Proceed(p, "account_own")
    BY <1>6, <2>2 DEF WriteAccount, Proceed, At
  <2> QED BY <1>6, <2>1, <2>2 DEF WriteAccount
<1>7. ASSUME NEW p \in Commands, OwnAccount(p) \/ RepairAccount(p) PROVE ReadableInv'
  BY <1>7 DEF OwnAccount, RepairAccount, Ends, At
<1>8. ASSUME NEW p \in Commands, CutShort(p) PROVE ReadableInv'
  BY <1>8 DEF CutShort, Ends, At
<1>9. CASE WebSetup \/ ReadCertificate \/ ReadKey \/ ServiceStops
  BY <1>9 DEF WebSetup, ReadCertificate, ReadKey, ServiceStops, At
<1>10. CASE UNCHANGED setupVars
  BY <1>10 DEF setupVars, At
<1> QED
  BY <1>2, <1>3, <1>4, <1>5, <1>6, <1>7, <1>8, <1>9, <1>10 DEF SetupNext, Goes

\* The service can read every account, but for one that a command is about to hand over or
\* left to root when it was cut short (writeAdminRecord).
THEOREM AccountIsReadableProved == SetupSpec => []AccountIsReadable
<1>1. SetupInit => ReadableInv
  BY DEF SetupInit, ReadableInv, AccountIsReadable
<1> QED BY <1>1, ReadableStep, PTL DEF SetupSpec, ReadableInv

\* The service serves the certificate it has read with the key that belongs to it.
LEMMA OnePairStep == ServesOnePair /\ [SetupNext]_setupVars => ServesOnePair'
<1> SUFFICES ASSUME ServesOnePair, [SetupNext]_setupVars PROVE ServesOnePair'
  OBVIOUS
<1> USE DEF ServesOnePair, Down
<1>1. CASE service' = service
  BY <1>1
<1>2. CASE ReadCertificate
  BY <1>2 DEF ReadCertificate
<1>3. CASE ReadKey
  BY <1>3 DEF ReadKey
<1>4. CASE ServiceStops
  BY <1>4 DEF ServiceStops
<1>5. CASE service' # service
  BY <1>2, <1>3, <1>4, <1>5
  DEF SetupNext, Goes, setupVars, InitBegins, ReplaceBegins, ResetPasswordBegins, RepairBegins,
      RestrictDirectory, RepairDirectory, InstallCertificate, InstallKey, HandOver, WriteAccount,
      OwnAccount, RepairAccount, CutShort, WebSetup
<1> QED BY <1>1, <1>5

\* The service can start wherever there is an account, reads the account, and runs on one
\* pair, however commands fail or are killed.
THEOREM ServiceCanServeProved == SetupSpec => []ServiceCanServe
<1>1. SetupInit => ServesOnePair
  BY DEF SetupInit, ServesOnePair, Down
<1>2. SetupSpec => []ServesOnePair
  BY <1>1, OnePairStep, PTL DEF SetupSpec
<1> QED BY <1>2, AccountHasPairProved, AccountIsReadableProved, PTL DEF ServiceCanServe

-----------------------------------------------------------------------------
(* The values of the variables *)

CommandTyped ==
    proc \in [Commands -> [at : {"gone", "dir", "cert", "key", "own", "account", "account_own",
                                 "layout_dir", "layout_admin"},
                           cmd : {"-", "init", "replace", "reset", "repair"}, pair : 0 .. MaxPairs]]

\* A command that goes on, ends or begins with one of the pairs.
LEMMA CommandMoves ==
    ASSUME CommandTyped, NEW p \in Commands,
           \/ Ends(p)
           \/ \E label \in {"cert", "key", "own", "account_own", "layout_admin"} : Proceed(p, label)
           \/ \E label \in {"dir", "account", "layout_dir"},
                 c \in {"init", "replace", "reset", "repair"}, k \in 0 .. MaxPairs :
                proc' = [proc EXCEPT ![p] = [at |-> label, cmd |-> c, pair |-> k]]
    PROVE  CommandTyped'
<1> USE SetupAssumption DEF CommandTyped
<1>1. CASE Ends(p)
    BY <1>1 DEF Ends, Gone
<1>2. ASSUME NEW label \in {"cert", "key", "own", "account_own", "layout_admin"}, Proceed(p, label)
      PROVE  CommandTyped'
  <2>1. proc' = [proc EXCEPT ![p] = [proc[p] EXCEPT !.at = label]]
      BY <1>2 DEF Proceed
  <2>2. [proc[p] EXCEPT !.at = label].at = label
        /\ [proc[p] EXCEPT !.at = label] = [at |-> label, cmd |-> proc[p].cmd, pair |-> proc[p].pair]
      OBVIOUS
  <2> QED BY <2>1, <2>2
<1>3. ASSUME NEW label \in {"dir", "account", "layout_dir"},
             NEW c \in {"init", "replace", "reset", "repair"}, NEW k \in 0 .. MaxPairs,
             proc' = [proc EXCEPT ![p] = [at |-> label, cmd |-> c, pair |-> k]]
      PROVE  CommandTyped'
    BY <1>3
<1> QED BY <1>1, <1>2, <1>3

LEMMA SetupTypeInit == SetupInit => SetupTypeOK
<1>1. 0 \in 0 .. MaxPairs /\ 0 \in 0 .. MaxCuts
    BY SetupAssumption
<1>2. ASSUME SetupInit PROVE CommandTyped
    BY <1>1, <1>2 DEF SetupInit, CommandTyped, Gone
<1>3. Down \in [at : {"down", "validate_key", "load", "load_key", "up"},
                seen : 0 .. MaxPairs, pair : 0 .. MaxPairs]
    BY <1>1 DEF Down
<1> QED BY <1>1, <1>2, <1>3 DEF SetupInit, SetupTypeOK, CommandTyped

LEMMA SetupTypeStep == SetupTypeOK /\ [SetupNext]_setupVars => SetupTypeOK'
<1> SUFFICES ASSUME SetupTypeOK, [SetupNext]_setupVars PROVE SetupTypeOK'
    OBVIOUS
<1> DEFINE Pairs == cert \in 0 .. MaxPairs /\ key \in 0 .. MaxPairs /\ pairs \in 0 .. MaxPairs
           Access == /\ groupReads \subseteq {"cert", "key", "admin"} /\ dirSetgid \in BOOLEAN
                     /\ adminFile \in BOOLEAN
           Serving == service \in [at : {"down", "validate_key", "load", "load_key", "up"},
                                   seen : 0 .. MaxPairs, pair : 0 .. MaxPairs]
           Troubles == /\ cuts \in 0 .. MaxCuts /\ halfway \in BOOLEAN /\ crowded \in BOOLEAN
                       /\ stranded \in BOOLEAN
<1>a. Pairs /\ Access /\ CommandTyped /\ Serving /\ Troubles
    BY DEF SetupTypeOK, CommandTyped
<1>b. ASSUME Pairs', Access', CommandTyped', Serving', Troubles' PROVE SetupTypeOK'
    BY <1>b DEF SetupTypeOK, CommandTyped
<1>c. MaxPairs \in Nat /\ MaxCuts \in Nat /\ 0 \in 0 .. MaxPairs
    BY SetupAssumption
<1>1. ASSUME NEW p \in Commands, InitBegins(p) \/ ReplaceBegins(p) PROVE SetupTypeOK'
  <2>1. pairs + 1 \in 0 .. MaxPairs /\ pairs' = pairs + 1
      BY <1>1, <1>a, <1>c DEF InitBegins, ReplaceBegins
  <2>2. CommandTyped'
      BY <1>1, <1>a, <2>1, CommandMoves DEF InitBegins, ReplaceBegins
  <2> QED BY <1>1, <1>a, <1>b, <2>1, <2>2 DEF InitBegins, ReplaceBegins, hostFiles
<1>2. ASSUME NEW p \in Commands, ResetPasswordBegins(p) \/ RepairBegins(p) PROVE SetupTypeOK'
  <2>1. CommandTyped'
      BY <1>2, <1>a, <1>c, CommandMoves DEF ResetPasswordBegins, RepairBegins
  <2> QED BY <1>2, <1>a, <1>b, <2>1 DEF ResetPasswordBegins, RepairBegins, hostFiles
<1>3. ASSUME NEW p \in Commands, Goes(p) PROVE SetupTypeOK'
  <2>1. CommandTyped'
    <3>1. CASE HandOver(p) /\ proc[p].cmd = "init"
        BY <3>1, <1>a, <1>c, CommandMoves DEF HandOver
    <3>2. Ends(p) \/ (\E label \in {"cert", "key", "own", "account_own", "layout_admin"} : Proceed(p, label))
          \/ (HandOver(p) /\ proc[p].cmd = "init")
        BY <1>3 DEF Goes, RestrictDirectory, InstallCertificate, InstallKey, HandOver, WriteAccount,
                    OwnAccount, RepairDirectory, RepairAccount
    <3> QED BY <3>1, <3>2, <1>a, CommandMoves
  <2>2. proc[p].pair \in 0 .. MaxPairs
      BY <1>a DEF CommandTyped
  <2>3. Pairs'
      BY <1>3, <1>a, <2>2
      DEF Goes, RestrictDirectory, InstallCertificate, InstallKey, HandOver, WriteAccount, OwnAccount,
          RepairDirectory, RepairAccount
  <2>4. Access'
      BY <1>3, <1>a
      DEF Goes, RestrictDirectory, InstallCertificate, InstallKey, HandOver, WriteAccount, OwnAccount,
          RepairDirectory, RepairAccount, InGroup
  <2>5. Serving' /\ Troubles'
      BY <1>3, <1>a
      DEF Goes, RestrictDirectory, InstallCertificate, InstallKey, HandOver, WriteAccount, OwnAccount,
          RepairDirectory, RepairAccount
  <2> QED BY <1>b, <2>1, <2>3, <2>4, <2>5
<1>4. ASSUME NEW p \in Commands, CutShort(p) PROVE SetupTypeOK'
  <2>1. CommandTyped'
      BY <1>4, <1>a, CommandMoves DEF CutShort
  <2>2. Troubles'
      BY <1>4, <1>a, <1>c DEF CutShort
  <2> QED BY <1>4, <1>a, <1>b, <2>1, <2>2 DEF CutShort, hostFiles
<1>5. CASE WebSetup
    BY <1>5, <1>a, <1>b DEF WebSetup, CommandTyped
<1>6. CASE ReadCertificate \/ ReadKey \/ ServiceStops
  <2>1. Serving'
    <3>1. CASE ReadCertificate
      <4> DEFINE label == IF service.at = "down" THEN "validate_key" ELSE "load_key"
      <4>1. service' = [service EXCEPT !.at = label, !.seen = cert]
          BY <3>1, <1>a DEF ReadCertificate
      <4>2. label \in {"validate_key", "load_key"}
          OBVIOUS
      <4> HIDE DEF label
      <4> QED BY <1>a, <4>1, <4>2
    <3>2. CASE ReadKey
      <4>1. service' \in {Down, [service EXCEPT !.at = "load"],
                          [at |-> "up", seen |-> service.seen, pair |-> key]}
          BY <3>2 DEF ReadKey
      <4> QED BY <1>a, <1>c, <4>1 DEF Down
    <3>3. CASE ServiceStops
        BY <3>3, <1>c DEF ServiceStops, Down
    <3> QED BY <1>6, <3>1, <3>2, <3>3
  <2> QED BY <1>6, <1>a, <1>b, <2>1 DEF ReadCertificate, ReadKey, ServiceStops, hostFiles, CommandTyped
<1>7. CASE UNCHANGED setupVars
    BY <1>7, <1>a, <1>b DEF setupVars, hostFiles, CommandTyped
<1> QED BY <1>1, <1>2, <1>3, <1>4, <1>5, <1>6, <1>7 DEF SetupNext

\* The variables of the setup keep values of their kind: a command writes and serves only
\* pairs that were made.
THEOREM SetupTypeCorrect == SetupSpec => []SetupTypeOK
<1> QED BY SetupTypeInit, SetupTypeStep, PTL DEF SetupSpec

-----------------------------------------------------------------------------
(***************************************************************************)
(* SourceCatalog: the address of a source is never lost.                    *)
(***************************************************************************)

TaskShape ==
    task = [w \in Importers |-> [at |-> task[w].at, id |-> task[w].id, digest |-> task[w].digest,
                                 before |-> task[w].before, seen |-> task[w].seen]]

AtWork == {w \in Importers : ~Does(w, "idle")}

\* The address of a source of the catalogue cat is in one of the stores, was given up after
\* a refusal, or the import of it was cut short.
Stored(cat, id) ==
    \/ cat[id].fetchURL \/ id \in credentials \/ id \in cut
    \/ id \in keychain /\ (marker => id \in refused)

AllStored(cat) == \A id \in DOMAIN cat \cap Urls : Stored(cat, id)

\* An import whose address is on its way to its credential, or is about to be taken back.
OnItsWay(id) == \E w \in Importers : task[w].id = id /\ task[w].at \in {"put", "restore"}

\* While imports do not overlap there is one at a time, it saves the catalogue it has
\* read, or an empty one where a failing read was ignored, and the catalogue it would
\* restore has all its addresses.
AloneInv ==
    ~overlapped =>
        /\ \A v, w \in AtWork : v = w
        /\ \A w \in Importers : /\ Does(w, "save") => task[w].seen = catalogue
                                /\ Does(w, "mark") => task[w].seen \in {catalogue, << >>}
        /\ \A w \in AtWork : AllStored(task[w].before)

AddressInv ==
    /\ TaskShape /\ overlapped \in BOOLEAN
    /\ AtWork # {} => boot = "up"
    /\ AloneInv /\ AddressNeverLost

LEMMA AddressInit == SourceInit => AddressInv
<1> SUFFICES ASSUME SourceInit PROVE AddressInv
  OBVIOUS
<1>1. TaskShape /\ AtWork = {}
  BY DEF SourceInit, TaskShape, AtWork, Does, NoTask
<1>2. AloneInv
  BY <1>1 DEF SourceInit, AloneInv, AtWork, Does, NoTask
<1>3. AddressNeverLost
  <2>1. PICK d \in Digests, old \in [Urls -> {"absent", "inline", "keychain"}] :
          LET known == {u \in Urls : old[u] # "absent"} IN
          /\ catalogue = [u \in known |-> [Entry(d, << >>) EXCEPT !.fetchURL = old[u] = "inline"]]
          /\ keychain = {u \in Urls : old[u] = "keychain"}
    BY DEF SourceInit
  <2>2. ASSUME NEW id \in DOMAIN catalogue \cap Urls
        PROVE  catalogue[id].fetchURL \/ (id \in keychain /\ (marker => id \in refused))
    <3>1. id \in Urls /\ old[id] \in {"inline", "keychain"}
      BY <2>1
    <3>2. catalogue[id] = [Entry(d, << >>) EXCEPT !.fetchURL = old[id] = "inline"]
      BY <2>1, <3>1
    <3>3. catalogue[id].fetchURL = (old[id] = "inline")
      BY <3>2 DEF Entry
    <3>4. old[id] = "keychain" => id \in keychain /\ (marker => id \in refused)
      BY <2>1, <3>1 DEF SourceInit
    <3> QED BY <3>1, <3>3, <3>4
  <2> QED BY <2>2 DEF AddressNeverLost
<1> QED BY <1>1, <1>2, <1>3 DEF SourceInit, AddressInv

\* A source other than the one imported stays as it is.
LEMMA MergedElsewhere ==
    ASSUME NEW cat, NEW id, NEW digest, NEW other \in DOMAIN Merged(cat, id, digest), other # id
    PROVE  other \in DOMAIN cat /\ Merged(cat, id, digest)[other] = cat[other]
BY DEF Merged, With

\* An importer that goes on keeps what it has, one that replies forgets it.
LEMMA TaskMoves ==
    ASSUME TaskShape, NEW w \in Importers, NEW label, Then(w, label) \/ Reply(w)
    PROVE  /\ TaskShape' /\ \A v \in Importers \ {w} : task'[v] = task[v]
           /\ Then(w, label) => /\ task'[w].at = label /\ task'[w].id = task[w].id
                               /\ task'[w].digest = task[w].digest
                               /\ task'[w].before = task[w].before /\ task'[w].seen = task[w].seen
           /\ Reply(w) => task'[w].at = "idle" /\ task'[w].before = << >> /\ task'[w].seen = << >>
BY DEF TaskShape, Then, Reply, NoTask

\* An importer reads the catalogue.
ReadsAll(w) ==
    Does(w, "read") /\ task' = [task EXCEPT ![w] = [@ EXCEPT !.at = "save", !.seen = catalogue]]

\* It has it then.
LEMMA ReadMoves ==
    ASSUME TaskShape, NEW w \in Importers, ReadsAll(w)
    PROVE  /\ TaskShape' /\ \A v \in Importers \ {w} : task'[v] = task[v]
           /\ task'[w].at = "save" /\ task'[w].id = task[w].id /\ task'[w].digest = task[w].digest
           /\ task'[w].before = task[w].before /\ task'[w].seen = catalogue
<1> DEFINE saves == [at |-> "save", id |-> task[w].id, digest |-> task[w].digest,
                     before |-> task[w].before, seen |-> task[w].seen]
<1>1. task' = [task EXCEPT ![w] = [task[w] EXCEPT !.at = "save", !.seen = catalogue]]
  BY DEF ReadsAll
<1>2. task[w] = [at |-> task[w].at, id |-> task[w].id, digest |-> task[w].digest,
                 before |-> task[w].before, seen |-> task[w].seen]
  BY DEF TaskShape
<1>3. [task[w] EXCEPT !.at = "save"] = saves
  BY <1>2
<1>4. [task[w] EXCEPT !.at = "save", !.seen = catalogue]
        = [[task[w] EXCEPT !.at = "save"] EXCEPT !.seen = catalogue]
  OBVIOUS
<1>5. [saves EXCEPT !.seen = catalogue]
        = [at |-> "save", id |-> task[w].id, digest |-> task[w].digest,
           before |-> task[w].before, seen |-> catalogue]
  OBVIOUS
<1>6. task' = [task EXCEPT ![w] = [at |-> "save", id |-> task[w].id, digest |-> task[w].digest,
                                   before |-> task[w].before, seen |-> catalogue]]
  BY <1>1, <1>3, <1>4, <1>5
<1> QED BY <1>6 DEF TaskShape

\* A step of the start of the service that takes no address away while nobody imports.
LEMMA StartStep ==
    ASSUME AddressInv, boot # "up", UNCHANGED <<task, overlapped>>,
           \A id \in DOMAIN catalogue' \cap Urls :
              id \in DOMAIN catalogue /\ (Stored(catalogue, id) => Stored(catalogue, id)')
    PROVE  AddressInv'
<1>1. AtWork = {} /\ AtWork' = {}
  BY DEF AddressInv, AtWork, Does
<1>2. TaskShape' /\ AloneInv' /\ overlapped' \in BOOLEAN
  BY <1>1 DEF AddressInv, TaskShape, AloneInv, AtWork, Does
<1>3. \A id : ~OnItsWay(id)
  BY <1>1 DEF OnItsWay, AtWork, Does
<1>4. AddressNeverLost'
  BY <1>3 DEF AddressInv, AddressNeverLost, Stored, OnItsWay
<1> QED BY <1>1, <1>2, <1>4 DEF AddressInv

\* A step of one importer, which has been at work before and may be so after.
LEMMA ImporterStep ==
    ASSUME AddressInv, NEW w \in AtWork, TaskShape', UNCHANGED <<overlapped, boot>>,
           \A v \in Importers \ {w} : task'[v] = task[v],
           w \in AtWork' => task'[w].before = task[w].before,
           ~overlapped /\ Does(w, "save")' => task'[w].seen = catalogue', ~Does(w, "mark")',
           \A cat, id : Stored(cat, id) => Stored(cat, id)',
           ~overlapped => AddressNeverLost'
    PROVE  AddressInv'
<1>1. AtWork' \subseteq AtWork
  BY DEF AtWork, Does
<1>2. AloneInv'
  <2> SUFFICES ASSUME ~overlapped PROVE AloneInv'
    BY DEF AloneInv
  <2>1. AtWork = {w} /\ AllStored(task[w].before)
    BY DEF AddressInv, AloneInv
  <2>2. \A v \in Importers : (Does(v, "save") \/ Does(v, "mark"))' => v = w
    BY <2>1 DEF AtWork, Does
  <2>3. w \in AtWork' => AllStored(task[w].before)'
    BY <2>1 DEF AllStored
  <2> QED BY <1>1, <2>1, <2>2, <2>3 DEF AddressInv, AloneInv
<1>3. AddressNeverLost'
  BY DEF AddressNeverLost, AddressInv
<1> QED BY <1>1, <1>2, <1>3 DEF AddressInv

\* An importer begins: the catalogue is noted for the case that it is to be restored.
Begins(w, fresh) ==
    /\ task' = [task EXCEPT ![w] = fresh]
    /\ overlapped' = (overlapped \/ \E v \in Importers : ~Does(v, "idle"))
    /\ boot = "up" /\ Does(w, "idle")
    /\ UNCHANGED <<catalogue, credentials, marker, keychain, refused, boot, cut>>

LEMMA BeginsStep ==
    ASSUME AddressInv, NEW w \in Importers, NEW fresh, Begins(w, fresh),
           fresh = [at |-> fresh.at, id |-> fresh.id, digest |-> fresh.digest,
                    before |-> fresh.before, seen |-> fresh.seen],
           fresh.before \in {catalogue, << >>},
           fresh.at = "snapshot" \/ (fresh.at = "mark" /\ fresh.seen \in {catalogue, << >>})
    PROVE  AddressInv'
<1>2. TaskShape' /\ task'[w] = fresh /\ \A v \in Importers \ {w} : task'[v] = task[v]
  BY DEF AddressInv, TaskShape, Begins
<1>3. overlapped' \in BOOLEAN /\ (~overlapped' => ~overlapped /\ AtWork = {})
  BY DEF AddressInv, AtWork, Begins
<1>4. AddressNeverLost'
  <2>1. \A k : OnItsWay(k) => OnItsWay(k)'
    BY <1>2 DEF OnItsWay, Does, Begins
  <2> QED BY <1>3, <2>1 DEF AddressInv, AddressNeverLost, OnItsWay, Begins
<1>5. AloneInv'
  <2> SUFFICES ASSUME ~overlapped' PROVE AloneInv'
    BY DEF AloneInv
  <2>1. AtWork' \subseteq {w} /\ ~Does(w, "save")' /\ (Does(w, "mark")' => fresh.seen \in {catalogue', << >>})
    BY <1>2, <1>3 DEF AtWork, Does, Begins
  <2>2. AllStored(catalogue)
    BY <1>3 DEF AddressInv, AddressNeverLost, AllStored, Stored, AtWork, Does
  <2>3. \A k : Stored(catalogue, k)' <=> Stored(catalogue, k)
    BY DEF Stored, Begins
  <2>4. \A v \in AtWork' : AllStored(task[v].before)'
    BY <1>2, <2>1, <2>2, <2>3 DEF AllStored, Stored, Begins
  <2>5. \A v \in Importers : (Does(v, "save") \/ Does(v, "mark"))' => v = w
    BY <2>1 DEF AtWork, Does
  <2> QED BY <1>2, <2>1, <2>4, <2>5 DEF AloneInv
<1> QED BY <1>2, <1>3, <1>4, <1>5 DEF AddressInv, Begins

LEMMA AddressStep == AddressInv /\ [SourceNext]_sourceVars => AddressInv'
<1> SUFFICES ASSUME AddressInv, [SourceNext]_sourceVars PROVE AddressInv'
  OBVIOUS
<1>1. CASE MigratePut \/ MigrateKeychain \/ KeychainRefuses
  BY <1>1, StartStep DEF MigratePut, MigrateKeychain, KeychainRefuses, files, sourceGhosts, Stored
<1>2. CASE MigrateClear
  <2>1. ASSUME NEW id \in DOMAIN catalogue' \cap Urls
        PROVE  id \in DOMAIN catalogue /\ (Stored(catalogue, id) => Stored(catalogue, id)')
    BY <1>2 DEF MigrateClear, Inline, sourceGhosts, Stored
  <2> QED BY <1>2, <2>1, StartStep DEF MigrateClear, sourceGhosts
<1>3. CASE Mark
  <2>1. ASSUME NEW id \in DOMAIN catalogue \cap Urls, Stored(catalogue, id) PROVE Stored(catalogue, id)'
    BY <1>3, <2>1 DEF Mark, ToAsk, Unmigrated, sourceGhosts, Stored
  <2> QED BY <1>3, <2>1, StartStep DEF Mark, sourceGhosts
<1>4. CASE Dies
  <2>1. TaskShape' /\ AtWork' = {}
    BY <1>4 DEF Dies, TaskShape, AtWork, Does, NoTask
  <2>2. \A id : OnItsWay(id) => id \in cut'
    BY <1>4 DEF Dies, OnItsWay, Does
  <2>3. /\ UNCHANGED <<catalogue, credentials, marker, keychain, overlapped>> /\ cut \subseteq cut'
        /\ marker => UNCHANGED refused
    BY <1>4 DEF Dies, files
  <2>4. AddressNeverLost'
    BY <2>2, <2>3 DEF AddressInv, AddressNeverLost, OnItsWay
  <2>5. AloneInv'
    BY <2>1 DEF AloneInv, AtWork, Does
  <2> QED BY <2>1, <2>3, <2>4, <2>5 DEF AddressInv
<1>5. ASSUME NEW w \in Importers, NEW id, NEW digest, Arrive(w, id, digest) PROVE AddressInv'
  <2>0. PICK list \in {catalogue, << >>} :
          task' = [task EXCEPT ![w] = [at |-> "snapshot", id |-> id, digest |-> digest,
                                       before |-> list, seen |-> << >>]]
    BY <1>5 DEF Arrive
  <2> DEFINE fresh == [at |-> "snapshot", id |-> id, digest |-> digest,
                       before |-> list, seen |-> << >>]
  <2>1. fresh.at = "snapshot" /\ fresh.before \in {catalogue, << >>}
        /\ fresh = [at |-> fresh.at, id |-> fresh.id, digest |-> fresh.digest,
                    before |-> fresh.before, seen |-> fresh.seen]
    OBVIOUS
  <2>2. Begins(w, fresh)
    BY <1>5, <2>0 DEF Arrive, Begins, files
  <2> QED BY <2>1, <2>2, BeginsStep
<1>6. ASSUME NEW w \in Importers, ApplyReads(w) PROVE AddressInv'
  <2>0. PICK list \in {catalogue, << >>} :
          task' = [task EXCEPT ![w] = [at |-> "mark", id |-> "-", digest |-> "-",
                                       before |-> catalogue, seen |-> list]]
    BY <1>6 DEF ApplyReads
  <2> DEFINE fresh == [at |-> "mark", id |-> "-", digest |-> "-",
                       before |-> catalogue, seen |-> list]
  <2>1. fresh.at = "mark" /\ fresh.before = catalogue /\ fresh.seen \in {catalogue, << >>}
        /\ fresh = [at |-> fresh.at, id |-> fresh.id, digest |-> fresh.digest,
                    before |-> fresh.before, seen |-> fresh.seen]
    OBVIOUS
  <2>2. Begins(w, fresh)
    BY <1>6, <2>0 DEF ApplyReads, Begins, files
  <2> QED BY <2>1, <2>2, BeginsStep
<1>7. ASSUME NEW w \in Importers, WriteSource(w) \/ ReadCatalogue(w) \/ RemoveSnapshot(w) PROVE AddressInv'
  <2>1. /\ w \in AtWork /\ ~Does(w, "put") /\ ~Does(w, "restore")
        /\ UNCHANGED <<catalogue, credentials, marker, keychain, refused, cut, overlapped, boot>>
    BY <1>7 DEF WriteSource, ReadCatalogue, RemoveSnapshot, AtWork, Does, files, sourceGhosts
  <2>2. /\ TaskShape' /\ \A v \in Importers \ {w} : task'[v] = task[v]
        /\ w \in AtWork' => task'[w].before = task[w].before
        /\ Does(w, "save")' => task'[w].seen = catalogue
        /\ ~Does(w, "mark")'
    <3>1. CASE ReadsAll(w)
      BY <3>1, ReadMoves DEF AddressInv, Does
    <3>2. CASE Then(w, "read")
      BY <3>2, TaskMoves DEF AddressInv, Does
    <3>3. CASE Reply(w)
      BY <3>3, TaskMoves DEF AddressInv, Does, AtWork
    <3> QED BY <1>7, <3>1, <3>2, <3>3 DEF WriteSource, ReadCatalogue, ReadsAll, RemoveSnapshot
  <2>3. \A k : OnItsWay(k) => OnItsWay(k)'
    BY <2>1, <2>2 DEF OnItsWay, Does
  <2>4. AddressNeverLost'
    BY <2>1, <2>3 DEF AddressInv, AddressNeverLost, OnItsWay
  <2>5. \A cat, id : Stored(cat, id) => Stored(cat, id)'
    BY <2>1 DEF Stored
  <2> QED BY <2>1, <2>2, <2>4, <2>5, ImporterStep
<1>8. ASSUME NEW w \in Importers, SaveSources(w) PROVE AddressInv'
  <2>1. w \in AtWork /\ UNCHANGED <<credentials, marker, keychain, refused, cut, overlapped, boot>>
    BY <1>8 DEF SaveSources, AtWork, Does
  <2>2. Then(w, "put") \/ Reply(w)
    BY <1>8 DEF SaveSources
  <2>3. /\ TaskShape' /\ \A v \in Importers \ {w} : task'[v] = task[v]
        /\ w \in AtWork' => task'[w].before = task[w].before
        /\ ~Does(w, "save")' /\ ~Does(w, "mark")'
    BY <2>2, TaskMoves DEF AddressInv, Does, AtWork
  <2>4. \A cat, id : Stored(cat, id) => Stored(cat, id)'
    BY <2>1 DEF Stored
  <2>5. ASSUME ~overlapped PROVE AddressNeverLost'
    <3>1. \A id : ~OnItsWay(id)
      BY <1>8, <2>1, <2>5 DEF SaveSources, OnItsWay, AddressInv, AloneInv, AtWork, Does
    <3>2. AllStored(catalogue)
      BY <2>5, <3>1 DEF AddressInv, AddressNeverLost, AllStored, Stored, OnItsWay
    <3>3. CASE catalogue' = Merged(task[w].seen, task[w].id, task[w].digest)
               /\ (task[w].id \in Urls => Then(w, "put"))
      <4>1. task[w].seen = catalogue
        BY <1>8, <2>5 DEF SaveSources, AddressInv, AloneInv
      <4>2. \A id \in Urls : id = task[w].id => OnItsWay(id)'
        BY <3>3, TaskMoves DEF OnItsWay, AddressInv
      <4>3. ASSUME NEW id \in DOMAIN catalogue' \cap Urls, id # task[w].id PROVE Stored(catalogue, id)'
        BY <2>1, <3>2, <3>3, <4>1, <4>3, MergedElsewhere DEF AllStored, Stored
      <4>4. ASSUME NEW id \in DOMAIN catalogue' \cap Urls PROVE Stored(catalogue, id)' \/ OnItsWay(id)'
        BY <4>2, <4>3
      <4> QED BY <4>4 DEF AddressNeverLost, Stored, OnItsWay
    <3>4. CASE UNCHANGED catalogue
      BY <2>1, <3>2, <3>4 DEF AddressNeverLost, AllStored, Stored
    <3> QED BY <1>8, <3>3, <3>4 DEF SaveSources
  <2> QED BY <2>1, <2>3, <2>4, <2>5, ImporterStep
<1>9. ASSUME NEW w \in Importers, PutCredential(w) PROVE AddressInv'
  <2>1. /\ w \in AtWork /\ UNCHANGED <<catalogue, marker, keychain, refused, overlapped, boot>>
        /\ credentials \subseteq credentials'
    BY <1>9 DEF PutCredential, AtWork, Does
  <2>2. Then(w, "restore") \/ Reply(w)
    BY <1>9 DEF PutCredential
  <2>3. /\ TaskShape' /\ \A v \in Importers \ {w} : task'[v] = task[v]
        /\ w \in AtWork' => task'[w].before = task[w].before
        /\ ~Does(w, "save")' /\ ~Does(w, "mark")'
    BY <2>2, TaskMoves DEF AddressInv, Does, AtWork
  <2>4. \A cat, id : Stored(cat, id) => Stored(cat, id)'
    BY <1>9, <2>1 DEF PutCredential, Stored
  <2>5. \A id : OnItsWay(id) => OnItsWay(id)' \/ id \in credentials'
    <3>1. \A id : OnItsWay(id) /\ id # task[w].id => OnItsWay(id)'
      BY <2>3 DEF OnItsWay
    <3>2. Then(w, "restore") => \A id : id = task[w].id => OnItsWay(id)'
      BY TaskMoves DEF OnItsWay, AddressInv
    <3>3. Then(w, "restore") \/ task[w].id \in credentials'
      BY <1>9 DEF PutCredential
    <3> QED BY <3>1, <3>2, <3>3
  <2>6. AddressNeverLost'
    BY <2>1, <2>4, <2>5 DEF AddressInv, AddressNeverLost, OnItsWay, Stored
  <2> QED BY <2>1, <2>3, <2>4, <2>6, ImporterStep
<1>10. ASSUME NEW w \in Importers, RestoreCatalogue(w) PROVE AddressInv'
  <2>1. /\ w \in AtWork /\ UNCHANGED <<credentials, marker, keychain, refused, overlapped, boot>>
        /\ cut \subseteq cut' /\ Then(w, "remove")
    BY <1>10 DEF RestoreCatalogue, AtWork, Does
  <2>2. /\ TaskShape' /\ \A v \in Importers \ {w} : task'[v] = task[v]
        /\ w \in AtWork' => task'[w].before = task[w].before
        /\ ~Does(w, "save")' /\ ~Does(w, "mark")'
    BY <2>1, TaskMoves DEF AddressInv, Does
  <2>3. \A cat, id : Stored(cat, id) => Stored(cat, id)'
    BY <2>1 DEF Stored
  <2>4. ASSUME ~overlapped PROVE AddressNeverLost'
    <3>1. CASE catalogue' = task[w].before
      <4>1. AllStored(task[w].before)
        BY <2>1, <2>4 DEF AddressInv, AloneInv
      <4> QED BY <2>3, <3>1, <4>1 DEF AllStored, AddressNeverLost, Stored
    <3>2. CASE UNCHANGED catalogue /\ task[w].id \in cut'
      <4>1. \A id : OnItsWay(id) /\ id # task[w].id => OnItsWay(id)'
        BY <2>2 DEF OnItsWay
      <4> QED BY <2>1, <3>2, <4>1 DEF AddressInv, AddressNeverLost, OnItsWay
    <3> QED BY <1>10, <3>1, <3>2 DEF RestoreCatalogue
  <2> QED BY <2>1, <2>2, <2>3, <2>4, ImporterStep
<1>11. ASSUME NEW w \in Importers, ApplyWrites(w) PROVE AddressInv'
  <2>1. /\ w \in AtWork /\ UNCHANGED <<credentials, marker, keychain, refused, cut, overlapped, boot>>
        /\ Reply(w) /\ task[w].at = "mark" /\ (catalogue' = task[w].seen \/ UNCHANGED catalogue)
    BY <1>11 DEF ApplyWrites, sourceGhosts, AtWork, Does
  <2>2. TaskShape' /\ (\A v \in Importers \ {w} : task'[v] = task[v]) /\ task'[w].at = "idle"
    BY <2>1, TaskMoves DEF AddressInv
  <2>3. \A id : OnItsWay(id) => OnItsWay(id)'
    BY <2>1, <2>2 DEF OnItsWay
  <2>4. ~overlapped => UNCHANGED catalogue \/ DOMAIN catalogue' = {}
    BY <2>1 DEF AddressInv, AloneInv, Does
  <2>5. ~overlapped => AddressNeverLost'
    BY <2>1, <2>3, <2>4 DEF AddressInv, AddressNeverLost, OnItsWay
  <2>6. \A cat, id : Stored(cat, id) => Stored(cat, id)'
    BY <2>1 DEF Stored
  <2>7. w \notin AtWork' /\ ~Does(w, "save")' /\ ~Does(w, "mark")'
    BY <2>2 DEF AtWork, Does
  <2> QED BY <2>1, <2>2, <2>5, <2>6, <2>7, ImporterStep
<1>12. CASE UNCHANGED sourceVars
  BY <1>12
  DEF sourceVars, files, sourceGhosts, AddressInv, TaskShape, AtWork, Does, AloneInv, AllStored,
      Stored, AddressNeverLost
<1> QED
  BY <1>1, <1>2, <1>3, <1>4, <1>5, <1>7, <1>8, <1>9, <1>10, <1>11, <1>12, <1>6 DEF SourceNext

\* Wherever a start of the service is cut short, and whatever writes fail, the address of
\* a source stays where a refresh or the next start finds it: addresses are stored before
\* the catalogue is cleared of them, and the marker is written when the old store has been
\* asked for every one (credentials.go).  What that store refuses is given up with the marker.
THEOREM AddressNeverLostProved == SourceSpec => []AddressNeverLost
<1>1. AddressInv => AddressNeverLost
  BY DEF AddressInv
<1> QED BY AddressInit, AddressStep, <1>1, PTL DEF SourceSpec

-----------------------------------------------------------------------------
(* The catalogue is whole *)

\* The files cover what a catalogue names; it names all that has been reported.
Covered(cat, stored) == \A id \in DOMAIN cat : \A d \in Kept(cat, id) : <<id, d>> \in stored
Reports(cat, reported) == \A item \in reported : Named(cat, item[1], item[2])

CatalogueTyped(cat) ==
    \A id \in DOMAIN cat : cat[id] \in [digest : Digests, versions : Seq(Digests), fetchURL : BOOLEAN]

SourceTyped ==
    /\ CatalogueTyped(catalogue)
    /\ \A w \in Importers : /\ CatalogueTyped(task[w].before) /\ CatalogueTyped(task[w].seen)
                            /\ task[w].at \notin {"idle", "mark"} => task[w].digest \in Digests

\* What an importer that is alone goes by: r is its task, cat the catalogue, held the
\* files, gone those torn, reported what was told, ended the imports cut short, and blind
\* says that a failing read was taken for an empty catalogue.
TaskWhole(r, cat, held, gone, reported, ended, blind) ==
    /\ Covered(r.before, held \cup gone) /\ (blind \/ Reports(r.before, reported))
    /\ r.at \in {"snapshot", "read", "save", "mark"} => blind \/ r.before = cat
    /\ r.at = "save" => r.seen = cat
    /\ r.at = "mark" => r.seen = cat \/ (blind /\ r.seen = << >>)
    /\ r.at \in {"read", "save", "put", "restore", "remove"} => <<r.id, r.digest>> \in held
    /\ r.at = "put" => Named(cat, r.id, r.digest)
    /\ r.at = "remove" => cat = r.before \/ r.id \in ended

WholeInv ==
    /\ AddressInv /\ SourceTyped
    /\ ~overlapped =>
          /\ Covered(catalogue, snapshots \cup torn) /\ (unread \/ Reports(catalogue, told))
          /\ \A w \in AtWork : TaskWhole(task[w], catalogue, snapshots, torn, told, cut, unread)

\* Merging a content adds it to what is named, and takes nothing away.
LEMMA MergedNames ==
    ASSUME NEW cat, CatalogueTyped(cat), NEW id, NEW digest \in Digests
    PROVE  /\ CatalogueTyped(Merged(cat, id, digest))
           /\ \A k, d : Named(Merged(cat, id, digest), k, d)
                           <=> Named(cat, k, d) \/ (k = id /\ d = digest)
<1> DEFINE entry == IF id \notin DOMAIN cat THEN Entry(digest, << >>)
                    ELSE IF digest = cat[id].digest THEN Entry(digest, cat[id].versions)
                    ELSE Entry(digest, Append(cat[id].versions, cat[id].digest))
<1> DEFINE merged == Merged(cat, id, digest)
<1>1. /\ entry \in [digest : Digests, versions : Seq(Digests), fetchURL : BOOLEAN] /\ entry.digest = digest
  BY DEF CatalogueTyped, Entry
<1>2. ToSet(entry.versions) \cup {digest} =
        (IF id \in DOMAIN cat THEN Kept(cat, id) ELSE {}) \cup {digest}
  <2>1. CASE id \notin DOMAIN cat
    BY <2>1 DEF Entry, ToSet
  <2>2. CASE id \in DOMAIN cat /\ digest = cat[id].digest
    BY <2>2 DEF Entry, Kept
  <2>3. CASE id \in DOMAIN cat /\ digest # cat[id].digest
    <3> DEFINE old == cat[id].versions
    <3> DEFINE now == Append(old, cat[id].digest)
    <3>1. old \in Seq(Digests) /\ cat[id].digest \in Digests
      BY <2>3 DEF CatalogueTyped
    <3>2. entry.versions = now
      BY <2>3 DEF Entry
    <3>3. /\ DOMAIN now = DOMAIN old \cup {Len(old) + 1} /\ now[Len(old) + 1] = cat[id].digest
          /\ \A i \in DOMAIN old : now[i] = old[i]
      BY <3>1
    <3>4. ToSet(now) = ToSet(old) \cup {cat[id].digest}
      BY <3>3 DEF ToSet
    <3> QED
      BY <2>3, <3>2, <3>4 DEF Kept
  <2> QED
    BY <2>1, <2>2, <2>3
<1>3. /\ DOMAIN merged = DOMAIN cat \cup {id} /\ merged[id] = entry
      /\ \A k \in DOMAIN cat : k # id => merged[k] = cat[k]
  BY DEF Merged, With
<1> HIDE DEF entry, merged
<1>4. CatalogueTyped(merged)
  BY <1>1, <1>3 DEF CatalogueTyped
<1>5. ASSUME NEW k, NEW d PROVE Named(merged, k, d) <=> Named(cat, k, d) \/ (k = id /\ d = digest)
  <2>1. CASE k = id
    <3>1. Kept(merged, k) = ToSet(entry.versions) \cup {digest}
      BY <1>1, <1>3, <2>1 DEF Kept
    <3> QED
      BY <1>2, <1>3, <2>1, <3>1 DEF Named
  <2>2. CASE k # id
    BY <1>3, <2>2 DEF Named, Kept
  <2> QED
    BY <2>1, <2>2
<1> QED
  BY <1>4, <1>5 DEF merged

LEMMA CoveredNames == \A cat, stored : Covered(cat, stored) <=> \A k, d : Named(cat, k, d) => <<k, d>> \in stored
BY DEF Covered, Named

\* Catalogues and digests are what they should be, whoever holds them.
LEMMA TypedStep == AddressInv /\ SourceTyped /\ [SourceNext]_sourceVars => SourceTyped'
<1> SUFFICES ASSUME AddressInv, SourceTyped, [SourceNext]_sourceVars PROVE SourceTyped'
  OBVIOUS
<1> DEFINE Held(r) == /\ CatalogueTyped(r.before) /\ CatalogueTyped(r.seen)
                      /\ r.at \notin {"idle", "mark"} => r.digest \in Digests
<1>1. CatalogueTyped(<< >>) /\ Held(NoTask)
  BY DEF CatalogueTyped, NoTask
<1>2. CatalogueTyped(catalogue) /\ \A w \in Importers : Held(task[w])
  BY DEF SourceTyped
<1>3. CASE MigratePut \/ MigrateKeychain \/ KeychainRefuses \/ Mark
  BY <1>3 DEF MigratePut, MigrateKeychain, KeychainRefuses, Mark, files, sourceGhosts, SourceTyped
<1>4. CASE MigrateClear
  <2>1. catalogue' = [id \in DOMAIN catalogue |-> [catalogue[id] EXCEPT !.fetchURL = FALSE]] /\ UNCHANGED task
    BY <1>4 DEF MigrateClear
  <2> QED BY <1>2, <2>1 DEF SourceTyped, CatalogueTyped
<1>5. CASE Dies
  <2>1. UNCHANGED catalogue /\ \A w \in Importers : task'[w] = NoTask
    BY <1>5 DEF Dies, files
  <2> QED BY <1>1, <1>2, <2>1 DEF SourceTyped
<1>6. ASSUME NEW w \in Importers, NEW id, NEW digest \in Digests,
             Arrive(w, id, digest) \/ ApplyReads(w)
      PROVE  SourceTyped'
  <2>1. UNCHANGED catalogue /\ (\A v \in Importers \ {w} : task'[v] = task[v]) /\ Held(task'[w])
    BY <1>1, <1>2, <1>6 DEF Arrive, ApplyReads, files, AddressInv, TaskShape
  <2> QED BY <1>2, <2>1 DEF SourceTyped
<1>7. ASSUME NEW w \in Importers,
             WriteSource(w) \/ ReadCatalogue(w) \/ SaveSources(w)
               \/ PutCredential(w) \/ RestoreCatalogue(w) \/ RemoveSnapshot(w) \/ ApplyWrites(w)
      PROVE  SourceTyped'
  <2>1. CatalogueTyped(catalogue')
    <3>1. CASE SaveSources(w) /\ catalogue' = Merged(task[w].seen, task[w].id, task[w].digest)
      <4>1. CatalogueTyped(task[w].seen) /\ task[w].digest \in Digests
        BY <1>2, <3>1 DEF SaveSources, Does
      <4> QED BY <3>1, <4>1, MergedNames
    <3>2. \/ catalogue' = catalogue \/ catalogue' = task[w].before \/ catalogue' = task[w].seen
          \/ SaveSources(w) /\ catalogue' = Merged(task[w].seen, task[w].id, task[w].digest)
      BY <1>7 DEF WriteSource, ReadCatalogue, SaveSources, PutCredential, RestoreCatalogue,
                  RemoveSnapshot, ApplyWrites, files
    <3> QED BY <1>2, <3>1, <3>2
  <2>2. (\A v \in Importers \ {w} : task'[v] = task[v]) /\ Held(task'[w])
    <3>1. CASE ReadsAll(w)
      <4>1. task[w].at = "read"
        BY <3>1 DEF ReadsAll, Does
      <4> QED BY <1>2, <3>1, <4>1, ReadMoves DEF AddressInv
    <3>2. CASE Reply(w)
      BY <1>1, <3>2, TaskMoves DEF AddressInv, NoTask
    <3>3. ASSUME NEW label \in {"read", "put", "restore", "remove"}, Then(w, label),
                 task[w].at \notin {"idle", "mark"}
          PROVE  (\A v \in Importers \ {w} : task'[v] = task[v]) /\ Held(task'[w])
      BY <1>2, <3>3, TaskMoves DEF AddressInv
    <3> QED
      BY <1>7, <3>1, <3>2, <3>3
      DEF WriteSource, ReadCatalogue, ReadsAll, SaveSources, PutCredential, RestoreCatalogue,
          RemoveSnapshot, ApplyWrites, Does
  <2> QED BY <1>2, <2>1, <2>2 DEF SourceTyped
<1>8. CASE UNCHANGED sourceVars
  BY <1>8 DEF sourceVars, files, SourceTyped
<1>9. Digests # {}
  BY SourceAssumption
<1> QED
  BY <1>3, <1>4, <1>5, <1>6, <1>7, <1>8, <1>9 DEF SourceNext

\* What holds of the catalogue and its files when one importer is at work.
Whole1(w) ==
    /\ Covered(catalogue, snapshots \cup torn) /\ (unread \/ Reports(catalogue, told))
    /\ w \in AtWork => TaskWhole(task[w], catalogue, snapshots, torn, told, cut, unread)

LEMMA WholeStep == WholeInv /\ [SourceNext]_sourceVars => WholeInv'
<1> SUFFICES ASSUME WholeInv, [SourceNext]_sourceVars PROVE WholeInv'
  OBVIOUS
<1>1. AddressInv /\ SourceTyped /\ AddressInv' /\ SourceTyped'
  BY AddressStep, TypedStep DEF WholeInv
<1>2. TaskShape /\ (AtWork # {} => boot = "up") /\ (~overlapped => \A v, w \in AtWork : v = w)
  BY <1>1 DEF AddressInv, AloneInv
<1>3. ~overlapped => \A w \in Importers : Whole1(w)
  BY DEF WholeInv, Whole1
<1>4. ASSUME NEW w \in Importers,
             ~overlapped' => /\ ~overlapped /\ \A v \in AtWork' : v = w
                             /\ Whole1(w)'
      PROVE  WholeInv'
  BY <1>1, <1>4 DEF WholeInv, Whole1
<1>5. ASSUME boot # "up", UNCHANGED <<snapshots, task, overlapped, told, cut, unread, torn>>,
             DOMAIN catalogue' = DOMAIN catalogue,
             \A id \in DOMAIN catalogue : Kept(catalogue', id) = Kept(catalogue, id)
      PROVE  WholeInv'
  <2>1. AtWork' = {}
    BY <1>2, <1>5 DEF AtWork, Does
  <2>2. ~overlapped => Covered(catalogue, snapshots \cup torn)' /\ (unread \/ Reports(catalogue, told))'
    BY <1>5 DEF WholeInv, Covered, Reports, Named
  <2> QED BY <1>1, <1>5, <2>1, <2>2 DEF WholeInv
<1>6. CASE MigratePut \/ MigrateKeychain \/ KeychainRefuses \/ Mark
  BY <1>5, <1>6 DEF MigratePut, MigrateKeychain, KeychainRefuses, Mark, files, sourceGhosts
<1>7. CASE MigrateClear
  <2>1. \A id \in DOMAIN catalogue : Kept(catalogue', id) = Kept(catalogue, id)
    BY <1>1, <1>7 DEF MigrateClear, Kept, SourceTyped, CatalogueTyped
  <2> QED BY <1>5, <1>7, <2>1 DEF MigrateClear, sourceGhosts
<1>8. CASE Dies
  <2>1. AtWork' = {} /\ UNCHANGED <<catalogue, snapshots, told, unread, torn, overlapped>>
    BY <1>8 DEF Dies, AtWork, Does, NoTask, files
  <2> QED BY <1>1, <2>1 DEF WholeInv
<1>9. ASSUME NEW w \in Importers, NEW id, NEW digest, Arrive(w, id, digest) \/ ApplyReads(w)
      PROVE  WholeInv'
  <2>1. UNCHANGED <<catalogue, snapshots, told, torn, cut>>
    BY <1>9 DEF Arrive, ApplyReads, files
  <2>2. /\ \A v \in Importers \ {w} : task'[v] = task[v]
        /\ \/ task'[w].before = catalogue
           \/ unread' /\ task'[w].before = << >> /\ task'[w].at # "mark"
        /\ \/ task'[w].at = "snapshot"
           \/ task'[w].at = "mark" /\ (task'[w].seen = catalogue \/ (unread' /\ task'[w].seen = << >>))
        /\ unread => unread'
    BY <1>2, <1>9 DEF Arrive, ApplyReads, ReadOrEmpty, TaskShape
  <2>3. overlapped' = (overlapped \/ AtWork # {}) /\ overlapped \in BOOLEAN
    BY <1>1, <1>9 DEF Arrive, ApplyReads, AtWork, AddressInv
  <2>4. ASSUME ~overlapped' PROVE ~overlapped /\ (\A v \in AtWork' : v = w) /\ Whole1(w)'
    <3>1. ~overlapped /\ AtWork = {}
      BY <2>3, <2>4
    <3>2. \A v \in AtWork' : v = w
      BY <2>2, <3>1 DEF AtWork, Does
    <3>3. Covered(catalogue, snapshots \cup torn) /\ (unread \/ Reports(catalogue, told))
      BY <1>3, <3>1 DEF Whole1
    <3>a. Covered(<< >>, snapshots \cup torn)
      BY DEF Covered
    <3>4. TaskWhole(task'[w], catalogue, snapshots, torn, told, cut, unread')
      BY <2>2, <3>3, <3>a DEF TaskWhole
    <3> QED BY <2>1, <2>2, <3>1, <3>2, <3>3, <3>4 DEF Whole1
  <2> QED BY <1>4, <2>4
<1>10. ASSUME NEW w \in AtWork, UNCHANGED overlapped,
              \A v \in Importers \ {w} : task'[v] = task[v],
              ~overlapped => Whole1(w)'
       PROVE  WholeInv'
  <2>1. ~overlapped => \A v \in AtWork' : v = w
    BY <1>2, <1>10 DEF AtWork, Does
  <2> QED BY <1>4, <1>10, <2>1 DEF AtWork
<1>11. ASSUME NEW w \in Importers, WriteSource(w) PROVE WholeInv'
  <2>1. w \in AtWork /\ UNCHANGED <<catalogue, overlapped, told, unread, torn, cut>> /\ task[w].at = "snapshot"
    BY <1>11 DEF WriteSource, sourceGhosts, AtWork, Does
  <2>2. \/ Then(w, "read") /\ snapshots' = snapshots \cup {<<task[w].id, task[w].digest>>}
        \/ Reply(w) /\ UNCHANGED snapshots
    BY <1>11 DEF WriteSource
  <2>3. \A v \in Importers \ {w} : task'[v] = task[v]
    BY <1>2, <2>2, TaskMoves, <1>11
  <2>4. ASSUME ~overlapped PROVE Whole1(w)'
    <3>1. Whole1(w) /\ TaskWhole(task[w], catalogue, snapshots, torn, told, cut, unread)
      BY <1>3, <1>11, <2>1, <2>4 DEF Whole1
    <3>2. snapshots \subseteq snapshots'
      BY <2>2
    <3>3. Covered(catalogue, snapshots' \cup torn) /\ Covered(task[w].before, snapshots' \cup torn)
      BY <3>1, <3>2 DEF Whole1, TaskWhole, Covered
    <3>4. CASE Then(w, "read") /\ snapshots' = snapshots \cup {<<task[w].id, task[w].digest>>}
      <4>1. /\ task'[w].at = "read" /\ task'[w].id = task[w].id /\ task'[w].digest = task[w].digest
            /\ task'[w].before = task[w].before
        BY <1>2, <1>11, <3>4, TaskMoves
      <4>2. TaskWhole(task'[w], catalogue, snapshots', torn, told, cut, unread)
        BY <2>1, <3>1, <3>3, <3>4, <4>1 DEF TaskWhole
      <4> QED BY <2>1, <3>1, <3>3, <4>2 DEF Whole1
    <3>5. CASE Reply(w)
      <4>1. w \notin AtWork'
        BY <1>2, <1>11, <3>5, TaskMoves DEF AtWork, Does
      <4> QED BY <2>1, <3>1, <3>3, <4>1 DEF Whole1
    <3> QED BY <2>2, <3>4, <3>5
  <2> QED BY <1>10, <2>1, <2>3, <2>4
<1>12. ASSUME NEW w \in Importers, ReadCatalogue(w) PROVE WholeInv'
  <2>1. /\ w \in AtWork /\ UNCHANGED <<catalogue, snapshots, overlapped, told, unread, torn, cut>>
        /\ task[w].at = "read" /\ (ReadsAll(w) \/ Reply(w))
    BY <1>12 DEF ReadCatalogue, ReadsAll, files, sourceGhosts, AtWork, Does
  <2>2. CASE Reply(w)
    <3>1. (\A v \in Importers \ {w} : task'[v] = task[v]) /\ w \notin AtWork'
      BY <1>2, <2>2, TaskMoves, <1>12 DEF AtWork, Does
    <3>2. ~overlapped => Whole1(w)'
      BY <1>3, <1>12, <2>1, <3>1 DEF Whole1
    <3> QED BY <1>10, <2>1, <3>1, <3>2
  <2>3. CASE ReadsAll(w)
    <3>1. /\ \A v \in Importers \ {w} : task'[v] = task[v]
          /\ task'[w].at = "save" /\ task'[w].id = task[w].id /\ task'[w].digest = task[w].digest
          /\ task'[w].before = task[w].before /\ task'[w].seen = catalogue
      BY <1>2, <1>12, <2>3, ReadMoves
    <3>2. ASSUME ~overlapped PROVE Whole1(w)'
      <4>1. Whole1(w) /\ TaskWhole(task[w], catalogue, snapshots, torn, told, cut, unread)
        BY <1>3, <1>12, <2>1, <3>2 DEF Whole1
      <4>2. TaskWhole(task'[w], catalogue, snapshots, torn, told, cut, unread)
        BY <2>1, <3>1, <4>1 DEF TaskWhole
      <4> QED BY <2>1, <4>1, <4>2 DEF Whole1
    <3> QED BY <1>10, <2>1, <3>1, <3>2
  <2> QED BY <2>1, <2>2, <2>3
<1>13. ASSUME NEW w \in Importers, SaveSources(w) PROVE WholeInv'
  <2>1. w \in AtWork /\ UNCHANGED <<snapshots, overlapped, unread, torn, cut>> /\ task[w].at = "save"
    BY <1>13 DEF SaveSources, AtWork, Does
  <2> DEFINE saved == Merged(task[w].seen, task[w].id, task[w].digest)
  <2>2. \/ catalogue' = saved /\ Then(w, "put") /\ UNCHANGED told
        \/ catalogue' = saved /\ Reply(w) /\ told' = told \cup {<<task[w].id, task[w].digest>>}
        \/ UNCHANGED <<catalogue, told>> /\ Reply(w)
    BY <1>13 DEF SaveSources
  <2>3. \A v \in Importers \ {w} : task'[v] = task[v]
    BY <1>2, <2>2, TaskMoves, <1>13
  <2>4. ASSUME ~overlapped PROVE Whole1(w)'
    <3>1. Whole1(w) /\ TaskWhole(task[w], catalogue, snapshots, torn, told, cut, unread)
      BY <1>3, <1>13, <2>1, <2>4 DEF Whole1
    <3>2. task[w].seen = catalogue /\ <<task[w].id, task[w].digest>> \in snapshots
      BY <2>1, <3>1 DEF TaskWhole
    <3>3. \A k, d : Named(saved, k, d)
                      <=> Named(catalogue, k, d) \/ (k = task[w].id /\ d = task[w].digest)
      <4>1. CatalogueTyped(task[w].seen) /\ task[w].digest \in Digests
        BY <1>1, <1>13, <2>1 DEF SourceTyped
      <4> QED BY <3>2, <4>1, MergedNames
    <3> HIDE DEF saved
    <3>4. /\ Covered(saved, snapshots \cup torn)
          /\ unread \/ Reports(saved, told \cup {<<task[w].id, task[w].digest>>})
      BY <3>1, <3>2, <3>3, CoveredNames DEF Whole1, Reports
    <3>5. CASE catalogue' = saved /\ Then(w, "put") /\ UNCHANGED told
      <4>1. /\ task'[w].at = "put" /\ task'[w].id = task[w].id /\ task'[w].digest = task[w].digest
            /\ task'[w].before = task[w].before
        BY <1>2, <1>13, <3>5, TaskMoves
      <4>2. TaskWhole(task'[w], saved, snapshots, torn, told, cut, unread)
        BY <3>1, <3>2, <3>3, <4>1 DEF TaskWhole
      <4>3. unread \/ Reports(saved, told)
        BY <3>4 DEF Reports
      <4> QED BY <2>1, <3>4, <3>5, <4>2, <4>3 DEF Whole1
    <3>6. CASE catalogue' = saved /\ Reply(w) /\ told' = told \cup {<<task[w].id, task[w].digest>>}
      <4>1. w \notin AtWork'
        BY <1>2, <1>13, <3>6, TaskMoves DEF AtWork, Does
      <4> QED BY <2>1, <3>4, <3>6, <4>1 DEF Whole1
    <3>7. CASE UNCHANGED <<catalogue, told>> /\ Reply(w)
      <4>1. w \notin AtWork'
        BY <1>2, <1>13, <3>7, TaskMoves DEF AtWork, Does
      <4> QED BY <2>1, <3>1, <3>7, <4>1 DEF Whole1
    <3> QED BY <2>2, <3>5, <3>6, <3>7 DEF saved
  <2> QED BY <1>10, <2>1, <2>3, <2>4
<1>14. ASSUME NEW w \in Importers, PutCredential(w) PROVE WholeInv'
  <2>1. w \in AtWork /\ UNCHANGED <<catalogue, snapshots, overlapped, unread, torn>> /\ task[w].at = "put"
    BY <1>14 DEF PutCredential, AtWork, Does
  <2>2. \/ Reply(w) /\ told' = told \cup {<<task[w].id, task[w].digest>>}
        \/ Then(w, "restore") /\ UNCHANGED <<told, cut>>
    BY <1>14 DEF PutCredential
  <2>3. \A v \in Importers \ {w} : task'[v] = task[v]
    BY <1>2, <2>2, TaskMoves, <1>14
  <2>4. ASSUME ~overlapped PROVE Whole1(w)'
    <3>1. Whole1(w) /\ TaskWhole(task[w], catalogue, snapshots, torn, told, cut, unread)
      BY <1>3, <1>14, <2>1, <2>4 DEF Whole1
    <3>2. CASE Reply(w) /\ told' = told \cup {<<task[w].id, task[w].digest>>}
      <4>1. w \notin AtWork'
        BY <1>2, <1>14, <3>2, TaskMoves DEF AtWork, Does
      <4>2. unread \/ Reports(catalogue, told')
        BY <2>1, <3>1, <3>2 DEF Whole1, TaskWhole, Reports
      <4> QED BY <2>1, <3>1, <4>1, <4>2 DEF Whole1
    <3>3. CASE Then(w, "restore") /\ UNCHANGED <<told, cut>>
      <4>1. /\ task'[w].at = "restore" /\ task'[w].id = task[w].id /\ task'[w].digest = task[w].digest
            /\ task'[w].before = task[w].before
        BY <1>2, <1>14, <3>3, TaskMoves
      <4>2. TaskWhole(task'[w], catalogue, snapshots, torn, told, cut, unread)
        BY <2>1, <3>1, <4>1 DEF TaskWhole
      <4> QED BY <2>1, <3>1, <3>3, <4>2 DEF Whole1
    <3> QED BY <2>2, <3>2, <3>3
  <2> QED BY <1>10, <2>1, <2>3, <2>4
<1>15. ASSUME NEW w \in Importers, RestoreCatalogue(w) PROVE WholeInv'
  <2>1. /\ w \in AtWork /\ UNCHANGED <<snapshots, overlapped, told, unread, torn>>
        /\ task[w].at = "restore" /\ Then(w, "remove")
    BY <1>15 DEF RestoreCatalogue, AtWork, Does
  <2>2. \/ catalogue' = task[w].before /\ UNCHANGED cut
        \/ UNCHANGED catalogue /\ cut' = cut \cup {task[w].id}
    BY <1>15 DEF RestoreCatalogue
  <2>3. /\ \A v \in Importers \ {w} : task'[v] = task[v]
        /\ task'[w].at = "remove" /\ task'[w].id = task[w].id /\ task'[w].digest = task[w].digest
        /\ task'[w].before = task[w].before
    BY <1>2, <2>1, TaskMoves, <1>15
  <2>4. ASSUME ~overlapped PROVE Whole1(w)'
    <3>1. Whole1(w) /\ TaskWhole(task[w], catalogue, snapshots, torn, told, cut, unread)
      BY <1>3, <1>15, <2>1, <2>4 DEF Whole1
    <3>2. Covered(catalogue', snapshots \cup torn) /\ (unread \/ Reports(catalogue', told))
      BY <2>2, <3>1 DEF Whole1, TaskWhole
    <3>3. TaskWhole(task'[w], catalogue', snapshots, torn, told, cut', unread)
      BY <2>1, <2>2, <2>3, <3>1 DEF TaskWhole
    <3> QED BY <2>1, <3>2, <3>3 DEF Whole1
  <2> QED BY <1>10, <2>1, <2>3, <2>4
<1>16. ASSUME NEW w \in Importers, RemoveSnapshot(w) PROVE WholeInv'
  <2> DEFINE file == <<task[w].id, task[w].digest>>
  <2>1. /\ w \in AtWork /\ UNCHANGED <<catalogue, overlapped, told, unread, cut>>
        /\ task[w].at = "remove" /\ Reply(w) /\ snapshots \subseteq snapshots' \cup {file}
        /\ torn' = IF Named(task[w].before, task[w].id, task[w].digest) \/ task[w].id \in cut
                     THEN torn \cup {file} ELSE torn
    BY <1>16 DEF RemoveSnapshot, AtWork, Does
  <2>2. (\A v \in Importers \ {w} : task'[v] = task[v]) /\ w \notin AtWork'
    BY <1>2, <2>1, TaskMoves, <1>16 DEF AtWork, Does
  <2>3. ASSUME ~overlapped PROVE Whole1(w)'
    <3>1. Whole1(w) /\ TaskWhole(task[w], catalogue, snapshots, torn, told, cut, unread)
      BY <1>3, <1>16, <2>1, <2>3 DEF Whole1
    <3>2. file \in torn' \/ ~Named(catalogue, task[w].id, task[w].digest)
      BY <2>1, <3>1 DEF TaskWhole
    <3>3. \A k, d : Named(catalogue, k, d) => <<k, d>> \in snapshots \cup torn
      BY <3>1, CoveredNames DEF Whole1
    <3>4. torn \subseteq torn'
      BY <2>1
    <3>5. ASSUME NEW k, NEW d, Named(catalogue, k, d) PROVE <<k, d>> \in snapshots' \cup torn'
      <4>1. <<k, d>> = file => k = task[w].id /\ d = task[w].digest
        OBVIOUS
      <4> HIDE DEF file
      <4> QED BY <2>1, <3>2, <3>3, <3>4, <3>5, <4>1
    <3>6. Covered(catalogue, snapshots' \cup torn')
      BY <3>5, CoveredNames
    <3> QED BY <2>1, <2>2, <3>1, <3>6 DEF Whole1
  <2> QED BY <1>10, <2>1, <2>2, <2>3
<1>17. ASSUME NEW w \in Importers, ApplyWrites(w) PROVE WholeInv'
  <2>1. /\ w \in AtWork /\ UNCHANGED <<snapshots, overlapped, told, unread, torn, cut>>
        /\ task[w].at = "mark" /\ Reply(w) /\ (catalogue' = task[w].seen \/ UNCHANGED catalogue)
    BY <1>17 DEF ApplyWrites, sourceGhosts, AtWork, Does
  <2>2. (\A v \in Importers \ {w} : task'[v] = task[v]) /\ w \notin AtWork'
    BY <1>2, <2>1, TaskMoves, <1>17 DEF AtWork, Does
  <2>3. ASSUME ~overlapped PROVE Whole1(w)'
    <3>1. Whole1(w) /\ TaskWhole(task[w], catalogue, snapshots, torn, told, cut, unread)
      BY <1>3, <1>17, <2>1, <2>3 DEF Whole1
    <3>2. UNCHANGED catalogue \/ (unread /\ catalogue' = << >>)
      BY <2>1, <3>1 DEF TaskWhole
    <3>3. Covered(<< >>, snapshots \cup torn)
      BY DEF Covered
    <3> QED BY <2>1, <2>2, <3>1, <3>2, <3>3 DEF Whole1
  <2> QED BY <1>10, <2>1, <2>2, <2>3
<1>18. CASE UNCHANGED sourceVars
  BY <1>1, <1>18 DEF sourceVars, files, sourceGhosts, WholeInv, AtWork, Does
<1> QED
  BY <1>6, <1>7, <1>8, <1>9, <1>11, <1>12, <1>13, <1>14, <1>15, <1>16, <1>17, <1>18 DEF SourceNext

LEMMA WholeInit == SourceInit => WholeInv
<1> SUFFICES ASSUME SourceInit PROVE WholeInv
  OBVIOUS
<1>1. PICK d \in Digests, old \in [Urls -> {"absent", "inline", "keychain"}] :
         LET known == {u \in Urls : old[u] # "absent"} IN
         /\ catalogue = [u \in known |-> [Entry(d, << >>) EXCEPT !.fetchURL = old[u] = "inline"]]
         /\ snapshots = known \X {d}
  BY DEF SourceInit
<1> DEFINE known == {u \in Urls : old[u] # "absent"}
<1>2. /\ DOMAIN catalogue = known /\ snapshots = known \X {d}
      /\ \A u \in known : catalogue[u] = [digest |-> d, versions |-> << >>, fetchURL |-> old[u] = "inline"]
  BY <1>1 DEF Entry
<1> HIDE DEF known
<1>3. CatalogueTyped(catalogue)
  <2>1. ASSUME NEW u \in known
        PROVE  catalogue[u] \in [digest : Digests, versions : Seq(Digests), fetchURL : BOOLEAN]
    <3> DEFINE inline == old[u] = "inline"
    <3>1. catalogue[u] = [digest |-> d, versions |-> << >>, fetchURL |-> inline] /\ inline \in BOOLEAN
      BY <1>2
    <3> HIDE DEF inline
    <3> QED BY <3>1
  <2> QED BY <1>2, <2>1 DEF CatalogueTyped
<1>4. Covered(catalogue, snapshots \cup torn)
  BY <1>2 DEF Covered, Kept, ToSet
<1>5. AtWork = {} /\ told = {} /\ \A w \in Importers : task[w] = NoTask
  BY DEF SourceInit, AtWork, Does, NoTask
<1>6. SourceTyped
  BY <1>3, <1>5 DEF SourceTyped, CatalogueTyped, NoTask
<1> QED BY <1>4, <1>5, <1>6, AddressInit DEF WholeInv, Reports

\* Whatever fails on the way, and wherever a death cuts an import short, the catalogue names
\* no file that is not there but those the code takes away itself, and names all that an
\* import has reported, as long as imports do not overlap and no failing read of it was
\* ignored (importURL writes the file first).
THEOREM CatalogueIsWholeProved == SourceSpec => []CatalogueIsWhole
<1>1. WholeInv => CatalogueIsWhole
  BY DEF WholeInv, CatalogueIsWhole, SnapshotsExist, ReportedIsKept, Covered, Reports
<1> QED BY WholeInit, WholeStep, <1>1, PTL DEF SourceSpec

LEMMA FailureStep ==
    ASSUME WholeInv, [SourceNext]_sourceVars, NEW w \in Importers, EndsUnreported(w),
           ~overlapped, ~unread, task[w].id \notin cut
    PROVE  catalogue' = task[w].before
<1>0. ~Does(w, "idle") /\ task'[w].at = "idle" /\ boot' = "up" /\ told' = told
      /\ <<task[w].id, task[w].digest>> \notin told
  BY DEF EndsUnreported
<1>1. TaskShape /\ w \in AtWork /\ TaskWhole(task[w], catalogue, snapshots, torn, told, cut, unread)
  BY <1>0 DEF WholeInv, AddressInv, AtWork
<1>2. task' # task /\ ~UNCHANGED <<task>>
  BY <1>0 DEF Does
<1>3. ~MigratePut /\ ~MigrateClear /\ ~MigrateKeychain /\ ~KeychainRefuses /\ ~Mark /\ ~Dies
      /\ ~UNCHANGED sourceVars
  BY <1>0, <1>2 DEF MigratePut, MigrateClear, MigrateKeychain, KeychainRefuses, Mark, Dies, sourceVars
<1>4. ASSUME NEW v \in Importers, NEW id, NEW digest, Arrive(v, id, digest) \/ ApplyReads(v)
      PROVE  FALSE
  BY <1>0, <1>1, <1>4 DEF Arrive, ApplyReads, TaskShape, Does
<1>5. ASSUME NEW v \in Importers,
             WriteSource(v) \/ ReadCatalogue(v) \/ SaveSources(v) \/ PutCredential(v)
               \/ RestoreCatalogue(v) \/ RemoveSnapshot(v) \/ ApplyWrites(v)
      PROVE  v = w /\ ~ReadsAll(v) /\ ~RestoreCatalogue(v)
             /\ \A label : label # "idle" => ~Then(v, label)
  <2>1. ~ReadsAll(v)
    BY <1>0, <1>1, ReadMoves DEF Does, ReadsAll
  <2>2. \A label : Then(v, label) => label = "idle" /\ v = w
    BY <1>0, <1>1, TaskMoves DEF Does
  <2>3. Reply(v) => v = w
    BY <1>0, <1>1, TaskMoves DEF Does
  <2>4. ReadsAll(v) \/ Reply(v) \/ \E label : label # "idle" /\ Then(v, label)
    BY <1>5 DEF WriteSource, ReadCatalogue, ReadsAll, SaveSources, PutCredential, RestoreCatalogue, RemoveSnapshot, ApplyWrites
  <2> QED BY <2>1, <2>2, <2>3, <2>4 DEF RestoreCatalogue
<1>6. CASE WriteSource(w)
  BY <1>0, <1>1, <1>5, <1>6 DEF WriteSource, TaskWhole, Does
<1>a. CASE ReadCatalogue(w)
  BY <1>0, <1>1, <1>5, <1>a DEF ReadCatalogue, ReadsAll, files, TaskWhole, Does
<1>7. CASE SaveSources(w)
  <2>1. UNCHANGED catalogue
    BY <1>0, <1>5, <1>7 DEF SaveSources
  <2> QED BY <1>0, <1>1, <1>7, <2>1 DEF SaveSources, TaskWhole, Does
<1>8. CASE PutCredential(w)
  BY <1>0, <1>5, <1>8 DEF PutCredential
<1>9. CASE RemoveSnapshot(w)
  BY <1>0, <1>1, <1>9 DEF RemoveSnapshot, TaskWhole, Does
<1>10. CASE ApplyWrites(w)
  BY <1>0, <1>1, <1>10 DEF ApplyWrites, TaskWhole, Does
<1> QED
  BY <1>3, <1>4, <1>5, <1>6, <1>7, <1>8, <1>9, <1>10, <1>a DEF SourceNext

\* An import that gives up leaves the catalogue it found: it fails before the catalogue is
\* saved, or takes back what it saved, as long as imports do not overlap and no failing read of
\* the catalogue was ignored.
THEOREM FailureChangesNothingProved == SourceSpec => FailureChangesNothing
<1>1. WholeInv /\ [SourceNext]_sourceVars =>
        [\A w \in Importers : EndsUnreported(w) /\ ~overlapped /\ ~unread /\ task[w].id \notin cut
                               => catalogue' = task[w].before]_sourceVars
  BY FailureStep
<1> QED BY WholeInit, WholeStep, <1>1, PTL DEF SourceSpec, FailureChangesNothing
-----------------------------------------------------------------------------
(* The values of the variables *)

\* A catalogue of known sources, of which only those with an address ever carry one.
Placed(cat) ==
    DOMAIN cat \subseteq Sources /\ \A id \in DOMAIN cat : cat[id].fetchURL => id \in Urls

Working == {"snapshot", "read", "save", "put", "restore", "remove"}

\* A task is for a known source, and only an address gets as far as its credential.
TaskPlaced(r) ==
    /\ Placed(r.before) /\ Placed(r.seen)
    /\ r.at \in {"idle", "mark"} \cup Working
    /\ r.at \in Working => r.id \in Sources
    /\ r.at = "put" => r.id \in Urls

FilesPlaced ==
    /\ Placed(catalogue) /\ snapshots \subseteq Sources \X Digests
    /\ credentials \subseteq Urls /\ keychain \subseteq Urls /\ refused \subseteq keychain
    /\ marker \in BOOLEAN /\ boot \in {"read", "keychain", "up"}

GhostsPlaced ==
    /\ imports \in 0 .. MaxImports /\ mishaps \in 0 .. MaxSourceFaults
    /\ told \subseteq Sources \X Digests /\ torn \subseteq Sources \X Digests /\ cut \subseteq Sources
    /\ unread \in BOOLEAN

SourcePlaced == FilesPlaced /\ GhostsPlaced /\ \A w \in Importers : TaskPlaced(task[w])

LEMMA SourcePlacedInit == SourceInit => SourcePlaced
<1> SUFFICES ASSUME SourceInit PROVE SourcePlaced
    OBVIOUS
<1>1. PICK d \in Digests, old \in [Urls -> {"absent", "inline", "keychain"}] :
        /\ catalogue = [u \in {v \in Urls : old[v] # "absent"} |->
                          [Entry(d, << >>) EXCEPT !.fetchURL = old[u] = "inline"]]
        /\ snapshots = {v \in Urls : old[v] # "absent"} \X {d}
        /\ keychain = {u \in Urls : old[u] = "keychain"}
    BY DEF SourceInit
<1>2. Placed(catalogue) /\ snapshots \subseteq Sources \X Digests /\ keychain \subseteq Urls /\ refused = {}
    BY <1>1 DEF Placed, Sources, SourceInit
<1>3. TaskPlaced(NoTask)
    BY DEF TaskPlaced, Placed, NoTask, Working
<1>4. GhostsPlaced
  <2>1. imports \in 0 .. MaxImports /\ mishaps \in 0 .. MaxSourceFaults
      BY SourceAssumption DEF SourceInit
  <2>2. unread \in BOOLEAN /\ told = {} /\ torn = {} /\ cut = {}
      BY DEF SourceInit
  <2> QED BY <2>1, <2>2 DEF GhostsPlaced
<1> QED BY <1>2, <1>3, <1>4 DEF SourceInit, SourcePlaced, FilesPlaced

\* A merge adds no source but the one imported, and no address.
LEMMA MergedPlaced ==
    ASSUME NEW cat, Placed(cat), NEW id \in Sources, NEW digest
    PROVE  Placed(Merged(cat, id, digest))
<1> DEFINE entry == IF id \notin DOMAIN cat THEN Entry(digest, << >>)
                    ELSE IF digest = cat[id].digest THEN Entry(digest, cat[id].versions)
                    ELSE Entry(digest, Append(cat[id].versions, cat[id].digest))
<1>1. entry.fetchURL = FALSE
    BY DEF Entry
<1>2. Merged(cat, id, digest) = [s \in DOMAIN cat \cup {id} |-> IF s = id THEN entry ELSE cat[s]]
    BY DEF Merged, With
<1> HIDE DEF entry
<1> QED BY <1>1, <1>2 DEF Placed

\* What becomes of a task after its first step.
TaskAdvances(w) ==
    \/ UNCHANGED task
    \/ Reply(w)
    \/ ReadsAll(w) /\ Placed(catalogue)
    \/ \E label \in {"read", "restore", "remove"} : Then(w, label) /\ task[w].at \in Working
    \/ Then(w, "put") /\ task[w].at \in Working /\ task[w].id \in Urls

\* A task that replies is over; one that goes on keeps what it has.
LEMMA TaskStaysPlaced ==
    ASSUME TaskShape, \A w \in Importers : TaskPlaced(task[w]), NEW w \in Importers,
           TaskAdvances(w)
    PROVE  \A v \in Importers : TaskPlaced(task'[v])
<1>0. TaskPlaced(NoTask) /\ "put" \in Working
    BY DEF TaskPlaced, Placed, NoTask, Working
<1>1. CASE Reply(w)
    BY <1>0, <1>1 DEF Reply, TaskShape
<1>2. CASE ReadsAll(w) /\ Placed(catalogue)
  <2>1. task[w].at = "read"
      BY <1>2 DEF ReadsAll, Does
  <2> QED BY <1>2, <2>1, ReadMoves DEF TaskPlaced, Working
<1>3. ASSUME NEW label \in {"read", "restore", "remove"}, Then(w, label), task[w].at \in Working
      PROVE  \A v \in Importers : TaskPlaced(task'[v])
    BY <1>3, TaskMoves DEF TaskPlaced, Working
<1>4. CASE Then(w, "put") /\ task[w].at \in Working /\ task[w].id \in Urls
    BY <1>0, <1>4, TaskMoves DEF TaskPlaced
<1> QED BY <1>1, <1>2, <1>3, <1>4 DEF TaskAdvances

LEMMA SourcePlacedStep ==
    AddressInv /\ SourceTyped /\ SourcePlaced /\ [SourceNext]_sourceVars => SourcePlaced'
<1> SUFFICES ASSUME AddressInv, SourceTyped, SourcePlaced, [SourceNext]_sourceVars PROVE SourcePlaced'
    OBVIOUS
<1>a. /\ TaskShape /\ FilesPlaced /\ GhostsPlaced /\ \A w \in Importers : TaskPlaced(task[w])
      /\ \A w \in Importers : task[w].at \in Working => task[w].id \in Sources /\ task[w].digest \in Digests
    BY DEF AddressInv, SourcePlaced, TaskPlaced, SourceTyped, Working
<1>b. ASSUME FilesPlaced', GhostsPlaced', \A w \in Importers : TaskPlaced(task'[w]) PROVE SourcePlaced'
    BY <1>b DEF SourcePlaced
<1>c. UNCHANGED task => \A w \in Importers : TaskPlaced(task'[w])
    BY <1>a
<1>d. Mishap => mishaps' \in 0 .. MaxSourceFaults
    BY <1>a, SourceAssumption DEF Mishap, GhostsPlaced
<1>1. CASE MigratePut \/ MigrateKeychain \/ KeychainRefuses \/ Mark
  <2>1. Inline \subseteq Urls /\ ToAsk \subseteq Urls /\ ToAsk \subseteq keychain
      BY <1>a DEF Inline, ToAsk, Unmigrated, FilesPlaced, Placed
  <2>2. FilesPlaced'
      BY <1>1, <1>a, <2>1 DEF MigratePut, MigrateKeychain, KeychainRefuses, Mark, files, FilesPlaced
  <2> QED BY <1>1, <1>a, <1>b, <1>c, <2>2
          DEF MigratePut, MigrateKeychain, KeychainRefuses, Mark, sourceGhosts, GhostsPlaced
<1>2. CASE MigrateClear
  <2>1. /\ catalogue' = [id \in DOMAIN catalogue |-> [catalogue[id] EXCEPT !.fetchURL = FALSE]]
        /\ \A id \in DOMAIN catalogue : catalogue[id] \in [digest : Digests, versions : Seq(Digests), fetchURL : BOOLEAN]
      BY <1>2 DEF MigrateClear, SourceTyped, CatalogueTyped
  <2>2. \A id \in DOMAIN catalogue : catalogue'[id].fetchURL = FALSE
      BY <2>1
  <2>3. Placed(catalogue')
      BY <1>a, <2>1, <2>2 DEF Placed, FilesPlaced
  <2> QED BY <1>2, <1>a, <1>b, <1>c, <2>3 DEF MigrateClear, sourceGhosts, FilesPlaced, GhostsPlaced
<1>3. CASE Dies
  <2>1. TaskPlaced(NoTask)
      BY DEF TaskPlaced, Placed, NoTask, Working
  <2>2. \A w \in Importers : TaskPlaced(task'[w])
      BY <1>3, <2>1 DEF Dies
  <2>3. cut' \subseteq Sources
      BY <1>3, <1>a DEF Dies, Does, TaskPlaced, GhostsPlaced
  <2> QED BY <1>3, <1>a, <1>b, <1>d, <2>2, <2>3 DEF Dies, files, FilesPlaced, GhostsPlaced
<1>4. ASSUME NEW w \in Importers, NEW id \in Sources, NEW digest \in Digests, Arrive(w, id, digest)
      PROVE  SourcePlaced'
  <2>1. PICK list \in {catalogue, << >>} :
          task' = [task EXCEPT ![w] = [at |-> "snapshot", id |-> id, digest |-> digest,
                                       before |-> list, seen |-> << >>]]
      BY <1>4 DEF Arrive
  <2> DEFINE begun == [at |-> "snapshot", id |-> id, digest |-> digest, before |-> list, seen |-> << >>]
  <2>4. Placed(catalogue) /\ Placed(<< >>)
      BY <1>a DEF Placed, FilesPlaced
  <2>5. TaskPlaced(begun)
      BY <2>4 DEF TaskPlaced, Working
  <2>2. \A v \in Importers : TaskPlaced(task'[v])
      BY <1>a, <2>1, <2>5 DEF TaskShape
  <2>3. imports' \in 0 .. MaxImports
      BY <1>4, <1>a, SourceAssumption DEF Arrive, GhostsPlaced
  <2>6. mishaps' \in 0 .. MaxSourceFaults /\ unread' \in BOOLEAN
      BY <1>4, <1>a, <1>d DEF Arrive, ReadOrEmpty, GhostsPlaced
  <2> QED BY <1>4, <1>a, <1>b, <2>2, <2>3, <2>6 DEF Arrive, files, FilesPlaced, GhostsPlaced
<1>5. ASSUME NEW w \in Importers, ApplyReads(w) PROVE SourcePlaced'
  <2>1. PICK list \in {catalogue, << >>} :
          task' = [task EXCEPT ![w] = [at |-> "mark", id |-> "-", digest |-> "-",
                                       before |-> catalogue, seen |-> list]]
      BY <1>5 DEF ApplyReads
  <2>4. Placed(catalogue) /\ Placed(list)
      BY <1>a DEF Placed, FilesPlaced
  <2>2. \A v \in Importers : TaskPlaced(task'[v])
      BY <1>a, <2>1, <2>4 DEF TaskShape, TaskPlaced, Working
  <2>3. imports' \in 0 .. MaxImports
      BY <1>5, <1>a, SourceAssumption DEF ApplyReads, GhostsPlaced
  <2>6. mishaps' \in 0 .. MaxSourceFaults /\ unread' \in BOOLEAN
      BY <1>5, <1>a, <1>d DEF ApplyReads, ReadOrEmpty, GhostsPlaced
  <2> QED BY <1>5, <1>a, <1>b, <2>2, <2>3, <2>6 DEF ApplyReads, files, FilesPlaced, GhostsPlaced
<1>6. ASSUME NEW w \in Importers, WriteSource(w) PROVE SourcePlaced'
  <2>1. task[w].at \in Working /\ <<task[w].id, task[w].digest>> \in Sources \X Digests
      BY <1>6, <1>a DEF WriteSource, Does, Working
  <2>a. TaskAdvances(w)
      BY <1>6, <2>1 DEF WriteSource, TaskAdvances
  <2>2. \A v \in Importers : TaskPlaced(task'[v])
      BY <1>a, <2>a, TaskStaysPlaced
  <2> QED BY <1>6, <1>a, <1>b, <1>d, <2>1, <2>2 DEF WriteSource, sourceGhosts, FilesPlaced, GhostsPlaced
<1>7. ASSUME NEW w \in Importers, ReadCatalogue(w) PROVE SourcePlaced'
  <2>1. \A v \in Importers : TaskPlaced(task'[v])
      BY <1>7, <1>a, TaskStaysPlaced DEF ReadCatalogue, ReadsAll, FilesPlaced, TaskAdvances
  <2> QED BY <1>7, <1>a, <1>b, <1>d, <2>1 DEF ReadCatalogue, files, sourceGhosts, FilesPlaced, GhostsPlaced
<1>8. ASSUME NEW w \in Importers, SaveSources(w) PROVE SourcePlaced'
  <2>1. task[w].at \in Working /\ task[w].id \in Sources /\ <<task[w].id, task[w].digest>> \in Sources \X Digests
      BY <1>8, <1>a DEF SaveSources, Does, Working
  <2>2. Placed(Merged(task[w].seen, task[w].id, task[w].digest))
      BY <1>a, <2>1, MergedPlaced DEF TaskPlaced
  <2>a. TaskAdvances(w)
      BY <1>8, <2>1 DEF SaveSources, TaskAdvances
  <2>3. \A v \in Importers : TaskPlaced(task'[v])
      BY <1>a, <2>a, TaskStaysPlaced
  <2> QED BY <1>8, <1>a, <1>b, <1>d, <2>1, <2>2, <2>3 DEF SaveSources, FilesPlaced, GhostsPlaced
<1>9. ASSUME NEW w \in Importers, PutCredential(w) PROVE SourcePlaced'
  <2>1. task[w].at \in Working /\ task[w].id \in Urls /\ <<task[w].id, task[w].digest>> \in Sources \X Digests
      BY <1>9, <1>a DEF PutCredential, Does, Working, TaskPlaced
  <2>a. TaskAdvances(w)
      BY <1>9, <2>1 DEF PutCredential, TaskAdvances
  <2>2. \A v \in Importers : TaskPlaced(task'[v])
      BY <1>a, <2>a, TaskStaysPlaced
  <2> QED BY <1>9, <1>a, <1>b, <1>d, <2>1, <2>2 DEF PutCredential, FilesPlaced, GhostsPlaced
<1>10. ASSUME NEW w \in Importers, RestoreCatalogue(w) PROVE SourcePlaced'
  <2>1. task[w].at \in Working /\ task[w].id \in Sources /\ Placed(task[w].before)
      BY <1>10, <1>a DEF RestoreCatalogue, Does, Working, TaskPlaced
  <2>a. TaskAdvances(w)
      BY <1>10, <2>1 DEF RestoreCatalogue, TaskAdvances
  <2>2. \A v \in Importers : TaskPlaced(task'[v])
      BY <1>a, <2>a, TaskStaysPlaced
  <2> QED BY <1>10, <1>a, <1>b, <1>d, <2>1, <2>2 DEF RestoreCatalogue, FilesPlaced, GhostsPlaced
<1>11. ASSUME NEW w \in Importers, RemoveSnapshot(w) PROVE SourcePlaced'
  <2>1. <<task[w].id, task[w].digest>> \in Sources \X Digests
      BY <1>11, <1>a DEF RemoveSnapshot, Does, Working
  <2>a. TaskAdvances(w)
      BY <1>11 DEF RemoveSnapshot, TaskAdvances
  <2>2. \A v \in Importers : TaskPlaced(task'[v])
      BY <1>a, <2>a, TaskStaysPlaced
  <2>3. snapshots' \subseteq Sources \X Digests /\ torn' \subseteq Sources \X Digests
      BY <1>11, <1>a, <2>1 DEF RemoveSnapshot, FilesPlaced, GhostsPlaced
  <2> QED BY <1>11, <1>a, <1>b, <2>2, <2>3 DEF RemoveSnapshot, FilesPlaced, GhostsPlaced
<1>12. ASSUME NEW w \in Importers, ApplyWrites(w) PROVE SourcePlaced'
  <2>1. Placed(task[w].seen)
      BY <1>a DEF TaskPlaced
  <2>a. TaskAdvances(w)
      BY <1>12 DEF ApplyWrites, TaskAdvances
  <2>2. \A v \in Importers : TaskPlaced(task'[v])
      BY <1>a, <2>a, TaskStaysPlaced
  <2> QED BY <1>12, <1>a, <1>b, <1>d, <2>1, <2>2 DEF ApplyWrites, sourceGhosts, FilesPlaced, GhostsPlaced
<1>13. CASE UNCHANGED sourceVars
    BY <1>13, <1>a, <1>b, <1>c DEF sourceVars, files, sourceGhosts, FilesPlaced, GhostsPlaced
<1> QED
    BY <1>1, <1>2, <1>3, <1>4, <1>5, <1>6, <1>7, <1>8, <1>9, <1>10, <1>11, <1>12, <1>13 DEF SourceNext

LEMMA SourceTypes == SourceTyped /\ SourcePlaced => SourceTypeOK
<1> SUFFICES ASSUME SourceTyped, SourcePlaced PROVE SourceTypeOK
    OBVIOUS
<1>1. \A id \in DOMAIN catalogue : EntryOK(catalogue[id])
    BY DEF SourceTyped, CatalogueTyped, EntryOK
<1>2. \A w \in Importers :
        /\ task[w].at \in {"idle", "snapshot", "read", "save", "put", "restore", "remove", "mark"}
        /\ Does(w, "idle") \/ Does(w, "mark") \/ (task[w].id \in Sources /\ task[w].digest \in Digests)
    BY DEF SourceTyped, SourcePlaced, TaskPlaced, Working, Does
<1> QED BY <1>1, <1>2 DEF SourcePlaced, FilesPlaced, GhostsPlaced, Placed, SourceTypeOK

\* The variables of the catalogue keep values of their kind: files, credentials, reports
\* and tasks are of known sources, and only a source with an address gets a credential.
THEOREM SourceTypeCorrect == SourceSpec => []SourceTypeOK
<1>1. WholeInv /\ SourcePlaced /\ [SourceNext]_sourceVars => SourcePlaced'
    BY SourcePlacedStep DEF WholeInv
<1>2. WholeInv /\ SourcePlaced => SourceTypeOK
    BY SourceTypes DEF WholeInv
<1> QED BY WholeInit, WholeStep, SourcePlacedInit, <1>1, <1>2, PTL DEF SourceSpec

=============================================================================
