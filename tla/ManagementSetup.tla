--------------------------- MODULE ManagementSetup ---------------------------
(***************************************************************************)
(* What opensurge-setup does to the host and the control service depends    *)
(* on: the HTTPS pair in /etc/opensurge/tls, the account file, and who may  *)
(* read them (cmd/opensurge-setup/main.go, internal/controlapi/tls.go and   *)
(* auth.go, internal/layout/layout.go).                                     *)
(*                                                                          *)
(* The commands run as root, each in a process of its own, without a lock   *)
(* between them; the service runs as the account opensurge.  A step of the  *)
(* model is one system call that another process can see.  A command may    *)
(* fail or be killed before any step.                                       *)
(***************************************************************************)
EXTENDS Naturals, FiniteSets

CONSTANTS
    Commands,       \* processes of opensurge-setup
    MaxPairs,       \* bound: key pairs that are generated or provided
    MaxCuts         \* bound: commands that are killed or whose system call fails

ASSUME SetupAssumption == MaxPairs \in Nat /\ MaxCuts \in Nat

VARIABLES
    cert, key,      \* which pair the file belongs to; 0 if there is none
    groupReads,     \* the files that belong to the group of the service
    dirSetgid,      \* /etc/opensurge/tls hands its group down to new files
    adminFile,      \* admin.json is there
    proc,           \* what each process does
    service,        \* the control service: its step, the certificate seen, the pair served
    pairs, cuts,
    halfway,        \* a command was cut short between the two files, and none has finished since
    crowded,        \* two commands have written the pair at a time
    stranded        \* a command was cut short before it handed the account over, and none has
                    \* done so since

hostFiles == <<cert, key, groupReads, dirSetgid, adminFile>>
setupVars == <<hostFiles, proc, service, pairs, cuts, halfway, crowded, stranded>>

Gone == [at |-> "gone", cmd |-> "-", pair |-> 0]
Down == [at |-> "down", seen |-> 0, pair |-> 0]

At(p, label)   == proc[p].at = label
Proceed(p, label) == proc' = [proc EXCEPT ![p].at = label]
Ends(p)        == proc' = [proc EXCEPT ![p] = Gone]
Writing        == {p \in Commands : proc[p].at \in {"dir", "cert", "key", "own"}}

SetupInit ==
    /\ cert = 0 /\ key = 0 /\ groupReads = {} /\ dirSetgid = TRUE /\ adminFile = FALSE
    /\ proc = [p \in Commands |-> Gone] /\ service = Down
    /\ pairs = 0 /\ cuts = 0 /\ halfway = FALSE /\ crowded = FALSE
    /\ stranded = FALSE

-----------------------------------------------------------------------------
(* The commands begin *)

\* Mutant: init begins with the account.
InitBeginsWithAccount(p) ==
    /\ At(p, "gone") /\ ~adminFile
    /\ proc' = [proc EXCEPT ![p] = [at |-> "account", cmd |-> "init", pair |-> 0]]
    /\ UNCHANGED <<hostFiles, service, pairs, cuts, halfway, crowded, stranded>>

\* init looks for the account first, and asks for a password before it goes on.
InitBegins(p) ==
    /\ At(p, "gone") /\ ~adminFile /\ pairs < MaxPairs
    /\ pairs' = pairs + 1
    /\ proc' = [proc EXCEPT ![p] = [at |-> "dir", cmd |-> "init", pair |-> pairs + 1]]
    /\ crowded' = (crowded \/ Writing # {})
    /\ UNCHANGED <<hostFiles, service, cuts, halfway, stranded>>

\* replace-certificate validates the pair it is given before it touches the old one;
\* one that does not belong together or does not cover the listener is refused.
ReplaceBegins(p) ==
    /\ At(p, "gone") /\ pairs < MaxPairs
    /\ pairs' = pairs + 1
    /\ proc' = [proc EXCEPT ![p] = [at |-> "dir", cmd |-> "replace", pair |-> pairs + 1]]
    /\ crowded' = (crowded \/ Writing # {})
    /\ UNCHANGED <<hostFiles, service, cuts, halfway, stranded>>

\* reset-password rewrites the record of an account that is there.
ResetPasswordBegins(p) ==
    /\ At(p, "gone") /\ adminFile
    /\ proc' = [proc EXCEPT ![p] = [at |-> "account", cmd |-> "reset", pair |-> 0]]
    /\ UNCHANGED <<hostFiles, service, pairs, cuts, halfway, crowded, stranded>>

\* reset-permissions walks over the layout.
RepairBegins(p) ==
    /\ At(p, "gone")
    /\ proc' = [proc EXCEPT ![p] = [at |-> "layout_dir", cmd |-> "repair", pair |-> 0]]
    /\ UNCHANGED <<hostFiles, service, pairs, cuts, halfway, crowded, stranded>>

-----------------------------------------------------------------------------
(* writeTLSFiles and setManagedTLSOwnership *)

\* The directory is restricted to 0750, without the bit that hands its group down.
\* Both files are staged next to their targets before either is replaced.
RestrictDirectory(p) ==
    /\ At(p, "dir") /\ Proceed(p, "cert")
    /\ dirSetgid' = FALSE
    /\ UNCHANGED <<cert, key, groupReads, adminFile, service, pairs, cuts, halfway, crowded, stranded>>

InGroup(file) == IF dirSetgid THEN groupReads \cup {file} ELSE groupReads \ {file}

InstallCertificate(p) ==
    /\ At(p, "cert") /\ Proceed(p, "key")
    /\ cert' = proc[p].pair /\ groupReads' = InGroup("cert")
    /\ UNCHANGED <<key, dirSetgid, adminFile, service, pairs, cuts, halfway, crowded, stranded>>

InstallKey(p) ==
    /\ At(p, "key") /\ Proceed(p, "own")
    /\ key' = proc[p].pair /\ groupReads' = InGroup("key")
    /\ UNCHANGED <<cert, dirSetgid, adminFile, service, pairs, cuts, halfway, crowded, stranded>>

HandOver(p) ==
    /\ At(p, "own")
    /\ groupReads' = groupReads \cup {"cert", "key"} /\ halfway' = FALSE
    /\ IF proc[p].cmd = "init"
         THEN proc' = [proc EXCEPT ![p] = [at |-> "account", cmd |-> "init", pair |-> 0]]
         ELSE Ends(p)
    /\ UNCHANGED <<cert, key, dirSetgid, adminFile, service, pairs, cuts, crowded, stranded>>

-----------------------------------------------------------------------------
(* writeAdminRecord: FileAdminStore.Set and ResetPassword *)

\* A new file belongs to root; one that is replaced hands its group down.
WriteAccount(p) ==
    /\ At(p, "account")
    /\ IF proc[p].cmd = "init" /\ adminFile THEN Ends(p) /\ UNCHANGED adminFile
       ELSE Proceed(p, "account_own") /\ adminFile' = TRUE
    /\ UNCHANGED <<cert, key, groupReads, dirSetgid, service, pairs, cuts, halfway, crowded, stranded>>

OwnAccount(p) ==
    /\ At(p, "account_own") /\ Ends(p) /\ stranded' = FALSE
    /\ groupReads' = groupReads \cup {"admin"}
    /\ UNCHANGED <<cert, key, dirSetgid, adminFile, service, pairs, cuts, halfway, crowded>>

\* A setup in the browser: the service writes the record under its own account.
WebSetup ==
    /\ service.at = "up" /\ ~adminFile
    /\ adminFile' = TRUE /\ groupReads' = groupReads \cup {"admin"}
    /\ UNCHANGED <<cert, key, dirSetgid, proc, service, pairs, cuts, halfway, crowded, stranded>>

-----------------------------------------------------------------------------
(* layout.Apply: of the entries, those above matter here *)

RepairDirectory(p) ==
    /\ At(p, "layout_dir") /\ Proceed(p, "layout_admin")
    /\ dirSetgid' = TRUE
    /\ UNCHANGED <<cert, key, groupReads, adminFile, service, pairs, cuts, halfway, crowded, stranded>>

\* Mutant: the account file is not part of the layout.
RepairNoAccount(p) ==
    /\ At(p, "layout_admin") /\ Ends(p) /\ stranded' = FALSE
    /\ UNCHANGED <<hostFiles, service, pairs, cuts, halfway, crowded>>

\* A missing account is reported, never created.
RepairAccount(p) ==
    /\ At(p, "layout_admin") /\ Ends(p) /\ stranded' = FALSE
    /\ groupReads' = IF adminFile THEN groupReads \cup {"admin"} ELSE groupReads
    /\ UNCHANGED <<cert, key, dirSetgid, adminFile, service, pairs, cuts, halfway, crowded>>

-----------------------------------------------------------------------------
(* Failures *)

\* The command is killed, or a system call fails and the command gives up.
CutShort(p) ==
    /\ ~At(p, "gone") /\ cuts < MaxCuts
    /\ cuts' = cuts + 1 /\ Ends(p)
    /\ halfway' = (halfway \/ proc[p].at \in {"key", "own"})
    /\ stranded' = (stranded \/ At(p, "account_own"))
    /\ UNCHANGED <<hostFiles, service, pairs, crowded>>

-----------------------------------------------------------------------------
(* The service: tlsConfigForServe reads the pair to validate it, then to load it *)

Readable == {"cert", "key"} \subseteq groupReads

\* The service starts, by systemd or by the operator, when it is not running.
ReadCertificate ==
    /\ service.at \in {"down", "load"} /\ cert # 0 /\ Readable
    /\ service' = [service EXCEPT !.at = IF @ = "down" THEN "validate_key" ELSE "load_key",
                                  !.seen = cert]
    /\ UNCHANGED <<hostFiles, proc, pairs, cuts, halfway, crowded, stranded>>

\* Mutant: the pair that is loaded is taken to be the one that was validated.
ReadKeyTrusting ==
    /\ service.at \in {"validate_key", "load_key"}
    /\ service' = IF service.at = "load_key" THEN [at |-> "up", seen |-> service.seen, pair |-> key]
                  ELSE IF service.seen = key /\ Readable THEN [service EXCEPT !.at = "load"]
                  ELSE Down
    /\ UNCHANGED <<hostFiles, proc, pairs, cuts, halfway, crowded, stranded>>

ReadKey ==
    /\ service.at \in {"validate_key", "load_key"}
    /\ service' = IF ~Readable \/ service.seen # key THEN Down
                  ELSE IF service.at = "validate_key" THEN [service EXCEPT !.at = "load"]
                  ELSE [at |-> "up", seen |-> service.seen, pair |-> key]
    /\ UNCHANGED <<hostFiles, proc, pairs, cuts, halfway, crowded, stranded>>

\* It gives up when the certificate is gone from its sight, or is stopped.
ServiceStops ==
    /\ service.at \in {"up", "load"} /\ (service.at = "up" \/ ~Readable)
    /\ service' = Down
    /\ UNCHANGED <<hostFiles, proc, pairs, cuts, halfway, crowded, stranded>>

Goes(p) ==
    \/ RestrictDirectory(p) \/ InstallCertificate(p) \/ InstallKey(p) \/ HandOver(p)
    \/ WriteAccount(p) \/ OwnAccount(p) \/ RepairDirectory(p) \/ RepairAccount(p)

SetupNext ==
    \/ \E p \in Commands :
         \/ InitBegins(p) \/ ReplaceBegins(p) \/ ResetPasswordBegins(p) \/ RepairBegins(p)
         \/ Goes(p) \/ CutShort(p)
    \/ WebSetup \/ ReadCertificate \/ ReadKey \/ ServiceStops

Whole == cert # 0 /\ cert = key /\ Readable

SetupSpec == SetupInit /\ [][SetupNext]_setupVars

-----------------------------------------------------------------------------
(* Properties *)

\* Every variable holds a value of its kind.
SetupTypeOK ==
    /\ cert \in 0 .. MaxPairs /\ key \in 0 .. MaxPairs /\ pairs \in 0 .. MaxPairs
    /\ groupReads \subseteq {"cert", "key", "admin"} /\ dirSetgid \in BOOLEAN /\ adminFile \in BOOLEAN
    /\ proc \in [Commands -> [at : {"gone", "dir", "cert", "key", "own", "account", "account_own",
                                    "layout_dir", "layout_admin"},
                              cmd : {"-", "init", "replace", "reset", "repair"}, pair : 0 .. MaxPairs]]
    /\ service \in [at : {"down", "validate_key", "load", "load_key", "up"},
                    seen : 0 .. MaxPairs, pair : 0 .. MaxPairs]
    /\ cuts \in 0 .. MaxCuts /\ halfway \in BOOLEAN /\ crowded \in BOOLEAN
    /\ stranded \in BOOLEAN

\* Once there is an account, init refuses to run again, so the account must not be there
\* before a pair the service can start from: however commands fail, a host with an account
\* has one, unless a command is writing the pair or was cut short between its files, or
\* two commands wrote it at a time.
AccountHasPair == adminFile => Whole \/ Writing # {} \/ halfway \/ crowded

\* The service never runs on a certificate and a key of different pairs, whatever is
\* replaced between its two readings.
ServesOnePair == service.at = "up" => service.pair = service.seen

\* An account that is there can be read by the service, unless a command is about to hand
\* it over or was cut short before it had; the next reset-permissions or reset-password
\* that ends mends that (writeAdminRecord replaces the file and then hands it over; a login
\* would fail on a file of root's).
AccountIsReadable ==
    adminFile => "admin" \in groupReads \/ stranded \/ \E p \in Commands : At(p, "account_own")

\* What the service starts from and answers logins with: a pair that goes with the account,
\* an account it can read, and one pair while it runs.
ServiceCanServe == AccountHasPair /\ AccountIsReadable /\ ServesOnePair
=============================================================================
