---------------------------- MODULE AuthSessions ----------------------------
(***************************************************************************)
(* The administrator account and the web sessions of the control API        *)
(* (internal/controlapi/auth.go and the authentication handlers of          *)
(* server.go).                                                              *)
(*                                                                          *)
(* Every request has a goroutine of its own.  Server.mu guards the sessions *)
(* and the failed logins, FileAdminStore.mu the account file; a step of the *)
(* model is one critical section of either.  opensurge-setup is another     *)
(* process and shares the account file but neither mutex.  Times are kept   *)
(* as ages, which Tick advances.                                            *)
(***************************************************************************)
EXTENDS Naturals, Sequences, FiniteSets

CONSTANTS
    Visitors,       \* goroutines that serve authentication requests
    Addresses,      \* source addresses of requests
    Tokens,         \* session tokens, random and never drawn twice
    MaxFailures,    \* maxLoginFailures
    Window,         \* loginFailureWindow, in ticks
    Lifetime        \* webSessionIdleTimeout, in ticks

ASSUME AuthAssumption ==
    /\ MaxFailures \in Nat \ {0} /\ Window \in Nat \ {0} /\ Lifetime \in Nat \ {0}
    /\ IsFiniteSet(Visitors) /\ Visitors \cap {"setup", "free"} = {}

VARIABLES
    account,        \* the password of admin.json, or "none"
    adminMutex,     \* who holds FileAdminStore.mu
    sessions,       \* token |-> ticks since it was last used
    loginFailures,  \* address |-> the ages of its failed logins
    visit,          \* the request each goroutine serves
    cli,            \* the step opensurge-setup is at
    drawn,          \* tokens issued so far
    founders,       \* who was told that the account is theirs
    crossed         \* opensurge-setup init has overlapped a setup in the browser

authLife == <<sessions, loginFailures, drawn>>
authFile == <<account, adminMutex, founders, crossed>>
authVars == <<authFile, authLife, visit, cli>>

Passwords == {"first", "second"}
Away      == [at |-> "away", ip |-> "-", password |-> "-"]
Steps     == {"away", "authenticate", "record", "clear", "open", "set", "write"}

\* Failures are appended as they happen, so those of the last window are the end of the list.
Recent(ages) ==
    LET kept == {i \in DOMAIN ages : ages[i] < Window}
    IN  SubSeq(ages, Len(ages) - Cardinality(kept) + 1, Len(ages))

\* purgeAuthStateLocked: what is left of the sessions and of the failed logins.
Unexpired == [t \in {u \in DOMAIN sessions : sessions[u] < Lifetime} |-> sessions[t]]
RecentFailures == [ip \in Addresses |-> Recent(loginFailures[ip])]
Purge == sessions' = Unexpired /\ loginFailures' = RecentFailures

Visits(v, label) == visit[v].at = label
Step(v, label)   == visit' = [visit EXCEPT ![v].at = label]
Answer(v)        == visit' = [visit EXCEPT ![v] = Away]
Enter(v, label, ip, password) ==
    visit' = [visit EXCEPT ![v] = [at |-> label, ip |-> ip, password |-> password]]

AuthInit ==
    /\ account = "none" /\ adminMutex = "free" /\ founders = {} /\ crossed = FALSE
    /\ sessions = << >> /\ loginFailures = [ip \in Addresses |-> << >>] /\ drawn = {}
    /\ visit = [v \in Visitors |-> Away] /\ cli = "away"

-----------------------------------------------------------------------------
(* handleAuthLogin *)

\* Mutant: the lockout begins one failure late.
LockedLate(ip) == Len(Recent(loginFailures[ip])) > MaxFailures

Locked(ip) == Len(Recent(loginFailures[ip])) >= MaxFailures

\* Mutant: an attempt during a lockout begins the lockout anew.
LoginArrivesExtends(v, ip, password) ==
    /\ Visits(v, "away") /\ sessions' = Unexpired
    /\ IF Locked(ip)
         THEN /\ UNCHANGED visit
              /\ loginFailures' = [RecentFailures EXCEPT ![ip] = [i \in DOMAIN @ |-> 0]]
         ELSE Enter(v, "authenticate", ip, password) /\ loginFailures' = RecentFailures
    /\ UNCHANGED <<authFile, drawn, cli>>

\* loginLocked refuses before a password is looked at.
LoginArrives(v, ip, password) ==
    /\ Visits(v, "away") /\ Purge
    /\ IF Locked(ip) THEN UNCHANGED visit ELSE Enter(v, "authenticate", ip, password)
    /\ UNCHANGED <<authFile, drawn, cli>>

\* Authenticate reads the file under its mutex and compares after it.
Authenticate(v) ==
    /\ Visits(v, "authenticate") /\ adminMutex = "free"
    /\ CASE account = "none"              -> Answer(v)
         [] account = visit[v].password   -> Step(v, "clear")
         [] OTHER                         -> Step(v, "record")
    /\ UNCHANGED <<authFile, authLife, cli>>

RecordLoginFailure(v) ==
    /\ Visits(v, "record") /\ Answer(v)
    /\ sessions' = Unexpired
    /\ loginFailures' = [RecentFailures EXCEPT ![visit[v].ip] = Append(@, 0)]
    /\ UNCHANGED <<authFile, drawn, cli>>

ClearLoginFailures(v) ==
    /\ Visits(v, "clear") /\ Step(v, "open")
    /\ loginFailures' = [loginFailures EXCEPT ![visit[v].ip] = << >>]
    /\ UNCHANGED <<authFile, sessions, drawn, cli>>

OpenSession(v) ==
    /\ Visits(v, "open") /\ Answer(v)
    /\ \E t \in Tokens \ drawn :
         /\ sessions' = [u \in DOMAIN Unexpired \cup {t} |-> IF u = t THEN 0 ELSE sessions[u]]
         /\ drawn' = drawn \cup {t}
    /\ loginFailures' = RecentFailures
    /\ UNCHANGED <<authFile, cli>>

-----------------------------------------------------------------------------
(* Requests that carry a session, and those that carry none *)

\* Mutant: the token is looked up in one critical section and renewed in another.
AuthenticatedSplit(v, t) ==
    \/ /\ Visits(v, "away") /\ t \in DOMAIN Unexpired /\ Purge
       /\ visit' = [visit EXCEPT ![v].at = "open"]
       /\ UNCHANGED <<authFile, drawn, cli>>
    \/ /\ Visits(v, "open") /\ Answer(v)
       /\ sessions' = [u \in DOMAIN sessions \cup {t} |-> IF u = t THEN 0 ELSE sessions[u]]
       /\ UNCHANGED <<authFile, loginFailures, drawn, cli>>

\* sessionAuthenticated: look the token up and renew it in one critical section.
Authenticated(v, t) ==
    /\ Visits(v, "away") /\ loginFailures' = RecentFailures
    /\ sessions' = [u \in DOMAIN Unexpired |-> IF u = t THEN 0 ELSE sessions[u]]
    /\ UNCHANGED <<authFile, drawn, visit, cli>>

HandleAuthLogout(v, t) ==
    /\ Visits(v, "away") /\ loginFailures' = RecentFailures
    /\ sessions' = [u \in DOMAIN Unexpired \ {t} |-> sessions[u]]
    /\ UNCHANGED <<authFile, drawn, visit, cli>>

-----------------------------------------------------------------------------
(* handleAuthSetup and FileAdminStore.Set *)

SetupArrives(v, password) ==
    /\ Visits(v, "away") /\ Purge
    /\ Enter(v, "set", "-", password)
    /\ UNCHANGED <<authFile, drawn, cli>>

\* Mutant: the mutex is not kept between the look and the write.
SetLooksUnlocked(v) ==
    /\ Visits(v, "set")
    /\ IF account = "none" THEN Step(v, "write") ELSE Answer(v)
    /\ UNCHANGED <<authFile, authLife, cli>>

\* Set looks whether the file is there and keeps the mutex until it has written.
SetLooks(v) ==
    /\ Visits(v, "set") /\ adminMutex = "free"
    /\ IF account = "none" THEN Step(v, "write") /\ adminMutex' = v
                           ELSE Answer(v) /\ UNCHANGED adminMutex
    /\ UNCHANGED <<account, founders, crossed, authLife, cli>>

\* The write replaces the file whole, or fails.
SetWrites(v) ==
    /\ Visits(v, "write") /\ Answer(v) /\ adminMutex' = "free"
    /\ \/ /\ account' = visit[v].password /\ founders' = founders \cup {v}
          /\ crossed' = (crossed \/ cli = "write")
       \/ UNCHANGED <<account, founders, crossed>>
    /\ UNCHANGED <<authLife, cli>>

-----------------------------------------------------------------------------
(* opensurge-setup, in a process of its own *)

\* init ends in Set of the command's own store, which knows no mutex of the service.
InitLooks ==
    /\ cli = "away" /\ account = "none" /\ cli' = "write"
    /\ UNCHANGED <<authFile, authLife, visit>>

\* The write may fail; when only the change of the owner fails the account is there.
InitWrites ==
    /\ cli = "write" /\ cli' = "away"
    /\ crossed' = (crossed \/ \E v \in Visitors : Visits(v, "write"))
    /\ \/ \E p \in Passwords : account' = p /\ founders' \in {founders, founders \cup {"setup"}}
       \/ UNCHANGED <<account, founders>>
    /\ UNCHANGED <<adminMutex, authLife, visit>>

\* reset-password reads the account it is to replace, and keeps its name.
ResetReads ==
    /\ cli = "away" /\ account # "none" /\ cli' = "reset"
    /\ UNCHANGED <<authFile, authLife, visit>>

ResetWrites ==
    /\ cli = "reset" /\ cli' = "away"
    /\ \E p \in Passwords : account' = p
    /\ UNCHANGED <<adminMutex, founders, crossed, authLife, visit>>

-----------------------------------------------------------------------------
(* The environment *)

\* Sessions and failures live in memory; the file is written by a rename.
AuthRestarts ==
    /\ sessions # << >> \/ visit # [v \in Visitors |-> Away]
    /\ sessions' = << >> /\ loginFailures' = [ip \in Addresses |-> << >>]
    /\ visit' = [v \in Visitors |-> Away] /\ adminMutex' = "free"
    /\ UNCHANGED <<account, founders, crossed, drawn, cli>>

Older(age, limit) == IF age < limit THEN age + 1 ELSE limit

Tick ==
    /\ sessions' = [t \in DOMAIN sessions |-> Older(sessions[t], Lifetime)]
    /\ loginFailures' = [ip \in Addresses |->
                           [i \in DOMAIN loginFailures[ip] |-> Older(loginFailures[ip][i], Window)]]
    /\ UNCHANGED <<authFile, drawn, visit, cli>>

AuthNext ==
    \/ \E v \in Visitors :
         \/ \E ip \in Addresses, p \in Passwords : LoginArrives(v, ip, p)
         \/ Authenticate(v) \/ RecordLoginFailure(v)
         \/ ClearLoginFailures(v) \/ OpenSession(v)
         \/ \E t \in drawn : Authenticated(v, t) \/ HandleAuthLogout(v, t)
         \/ \E p \in Passwords : SetupArrives(v, p)
         \/ SetLooks(v) \/ SetWrites(v)
    \/ InitLooks \/ InitWrites \/ ResetReads \/ ResetWrites
    \/ AuthRestarts \/ Tick

\* Time passes.  Nothing else is assumed: visitors come and go as they like.
AuthFairness == WF_authVars(Tick)
AuthSpec == AuthInit /\ [][AuthNext]_authVars /\ AuthFairness

-----------------------------------------------------------------------------
(* Properties *)

\* Every variable holds a value of its kind; the mutex is held by the writer.
AuthTypeOK ==
    /\ account \in Passwords \cup {"none"} /\ adminMutex \in Visitors \cup {"free"}
    /\ DOMAIN sessions \subseteq drawn /\ drawn \subseteq Tokens
    /\ \A t \in DOMAIN sessions : sessions[t] \in 0 .. Lifetime
    /\ \A ip \in Addresses : loginFailures[ip] \in Seq(0 .. Window)
    /\ visit \in [Visitors -> [at : Steps, ip : Addresses \cup {"-"}, password : Passwords \cup {"-"}]]
    /\ cli \in {"away", "write", "reset"}
    /\ founders \subseteq Visitors \cup {"setup"} /\ crossed \in BOOLEAN
    /\ \A v \in Visitors : Visits(v, "write") <=> adminMutex = v

\* The account is given away once: of all setups in the browser and by opensurge-setup
\* at most one is told that it succeeded, unless the command and a browser were in Set
\* at the same time (their mutexes are not the same).
SetupOnce == crossed \/ Cardinality(founders) <= 1

\* Logins that have passed the lockout and may still be counted.
Trying(ip) == {v \in Visitors : visit[v].ip = ip /\ visit[v].at \in {"authenticate", "record"}}

\* The check of the lockout and the count of a failure are two critical sections:
\* passwords may be tried beyond the limit only by requests already under way.
FailuresBounded ==
    \A ip \in Addresses :
        Len(Recent(loginFailures[ip])) + Cardinality(Trying(ip))
            <= MaxFailures - 1 + Cardinality(Visitors)

Live == DOMAIN Unexpired

\* A session that is over (logged out, idle for too long, lost in a restart) never
\* comes back, whatever other requests with the same cookie are doing.
DeadStaysDead == [][\A t \in drawn \ Live : t \notin Live']_authVars

\* A lockout ends even when the locked address keeps trying.
LockoutEnds == \A ip \in Addresses : []<>~Locked(ip)

=============================================================================
