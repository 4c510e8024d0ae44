---------------------------- MODULE SourceCatalog ----------------------------
(***************************************************************************)
(* The catalogue of imported profiles of the control API: sources.json, the *)
(* snapshot files it names, the credentials that a refresh needs, and the   *)
(* migrations at the start of the service (internal/controlapi/sources.go,  *)
(* credentials.go, store.go, and the source handlers of server.go).         *)
(*                                                                          *)
(* An import is a chain of reads and writes of three kinds of files without *)
(* a lock around it, so a step of the model is one read or one write, and   *)
(* the service may die, or a write fail, between any two.  A source is      *)
(* named by its identifier, a hash of its name and of the address without   *)
(* its secrets; a content by its digest.                                    *)
(***************************************************************************)
EXTENDS Naturals, Sequences, FiniteSets, SequencesExt

CONSTANTS
    Importers,          \* goroutines that serve imports and refreshes
    Urls, Uploads,      \* identifiers of HTTPS sources and of uploaded files
    Digests,            \* contents
    MaxImports,         \* bound: imports, refreshes and applied profiles
    MaxSourceFaults     \* bound: failing reads and writes, deaths of the service

ASSUME SourceAssumption ==
    /\ Urls \cap Uploads = {} /\ Digests # {} /\ MaxImports \in Nat /\ MaxSourceFaults \in Nat

VARIABLES
    catalogue,      \* sources.json: identifier |-> source
    snapshots,      \* the files sources/<id>/<digest>.yaml
    credentials,    \* identifiers of which credentials/sources.json has the address
    keychain,       \* identifiers whose address an older release kept elsewhere
    marker,         \* that store has been asked
    refused,        \* identifiers it did not answer for, at this start or the one that marked it
    boot,           \* the step the start of the service is at
    task,           \* what each importer does
    imports, mishaps,
    overlapped,     \* two imports have been under way at a time
    told,           \* what an import has reported as imported
    cut,            \* identifiers whose import a death of the service cut short
    unread,         \* the catalogue could not be read and was taken for empty
    torn            \* files deleted although the catalogue restored names them

files      == <<catalogue, snapshots, credentials, marker>>
sourceGhosts == <<overlapped, told, cut, unread, torn>>
sourceVars == <<files, keychain, refused, boot, task, imports, mishaps, sourceGhosts>>

Sources == Urls \cup Uploads
NoTask  == [at |-> "idle", id |-> "-", digest |-> "-", before |-> << >>, seen |-> << >>]

\* A source: its current content, the earlier ones, and the address that
\* releases before the credential file kept in the catalogue.
Entry(digest, versions) == [digest |-> digest, versions |-> versions, fetchURL |-> FALSE]
With(cat, id, entry) == [s \in DOMAIN cat \cup {id} |-> IF s = id THEN entry ELSE cat[s]]

\* The contents a catalogue keeps of a source.
Kept(cat, id) == ToSet(cat[id].versions) \cup {cat[id].digest}

Does(w, label) == task[w].at = label
Then(w, label) == task' = [task EXCEPT ![w].at = label]
Reply(w)       == task' = [task EXCEPT ![w] = NoTask]
Mishap         == mishaps < MaxSourceFaults /\ mishaps' = mishaps + 1

SourceInit ==
    /\ \E d \in Digests, old \in [Urls -> {"absent", "inline", "keychain"}] :
         LET known == {u \in Urls : old[u] # "absent"} IN
         /\ catalogue = [u \in known |-> [Entry(d, << >>) EXCEPT !.fetchURL = old[u] = "inline"]]
         /\ snapshots = known \X {d}
         /\ keychain = {u \in Urls : old[u] = "keychain"}
    /\ credentials = {} /\ marker = FALSE /\ boot = "read"
    /\ task = [w \in Importers |-> NoTask] /\ imports = 0 /\ mishaps = 0
    /\ refused = {} /\ overlapped = FALSE /\ told = {} /\ cut = {} /\ unread = FALSE /\ torn = {}

-----------------------------------------------------------------------------
(* The start of the service: NewServer *)

Inline == {id \in DOMAIN catalogue : catalogue[id].fetchURL}

\* migrateSourceCredentials: every address first, ...
MigratePut ==
    /\ boot = "read" /\ Inline \ credentials # {}
    /\ \E id \in Inline \ credentials : credentials' = credentials \cup {id}
    /\ UNCHANGED <<catalogue, snapshots, marker, keychain, refused, boot, task, imports, mishaps, sourceGhosts>>

\* ... then the catalogue without them.
MigrateClear ==
    /\ boot = "read" /\ Inline \subseteq credentials /\ boot' = "keychain"
    /\ catalogue' = [id \in DOMAIN catalogue |-> [catalogue[id] EXCEPT !.fetchURL = FALSE]]
    /\ UNCHANGED <<snapshots, credentials, marker, keychain, refused, task, imports, mishaps, sourceGhosts>>

Unmigrated == {id \in DOMAIN catalogue \cap Urls : id \notin credentials}

\* migrateLegacyKeychainCredentials: the old store is asked for every source without a
\* credential.  What it hands over is copied; an item that it refuses (it is locked, or
\* access denied) is passed over, ...
ToAsk == (Unmigrated \cap keychain) \ refused

MigrateKeychain ==
    /\ boot = "keychain" /\ ~marker
    /\ \E id \in ToAsk : credentials' = credentials \cup {id}
    /\ UNCHANGED <<catalogue, snapshots, marker, keychain, refused, boot, task, imports, mishaps, sourceGhosts>>

KeychainRefuses ==
    /\ boot = "keychain" /\ ~marker
    /\ \E id \in ToAsk : refused' = refused \cup {id}
    /\ UNCHANGED <<files, keychain, boot, task, imports, mishaps, sourceGhosts>>

\* Mutant: the marker is written before the store is asked.
MarkEarly ==
    /\ boot = "keychain" /\ marker' = TRUE /\ boot' = "up"
    /\ UNCHANGED <<catalogue, snapshots, credentials, keychain, refused, task, imports, mishaps, sourceGhosts>>

\* ... and when every source has been asked for the marker is written: it is never
\* asked again.
Mark ==
    /\ boot = "keychain" /\ (marker \/ ToAsk = {})
    /\ marker' = TRUE /\ boot' = "up"
    /\ UNCHANGED <<catalogue, snapshots, credentials, keychain, refused, task, imports, mishaps, sourceGhosts>>

\* A read or write of the start that fails ends it, a death ends it at any step and what
\* the importers do with it; the service starts again from its files.
Dies ==
    /\ Mishap /\ boot' = "read"
    /\ task' = [w \in Importers |-> NoTask]
    /\ refused' = IF marker THEN refused ELSE {}
    /\ cut' = cut \cup {task[w].id : w \in {v \in Importers : ~Does(v, "idle") /\ ~Does(v, "mark")}}
    /\ UNCHANGED <<files, keychain, imports, overlapped, told, unread, torn>>

-----------------------------------------------------------------------------
(* importURL and importReader *)

\* The catalogue as a reader gets it who ignores that it cannot be read.
ReadOrEmpty(list) ==
    \/ list = catalogue /\ UNCHANGED <<mishaps, unread>>
    \/ list = << >> /\ Mishap /\ unread' = TRUE

\* A request with its content: an address that was fetched, an uploaded file, or a
\* source refreshed from the address of its credential (handleSourceRefresh).  Of an
\* address the catalogue is read now for the case that the credential cannot be kept.
Arrive(w, id, digest) ==
    /\ boot = "up" /\ Does(w, "idle") /\ imports < MaxImports
    /\ imports' = imports + 1
    /\ \E list \in {catalogue, << >>} :
         /\ IF id \in Urls THEN ReadOrEmpty(list) ELSE list = catalogue /\ UNCHANGED <<mishaps, unread>>
         /\ task' = [task EXCEPT ![w] = [at |-> "snapshot", id |-> id, digest |-> digest,
                                         before |-> list, seen |-> << >>]]
    /\ overlapped' = (overlapped \/ \E v \in Importers : ~Does(v, "idle"))
    /\ UNCHANGED <<files, keychain, refused, boot, told, cut, torn>>

\* Mutant: known content is not written again, whether or not its file is there.
WriteSourceOnce(w) ==
    /\ Does(w, "snapshot") /\ Then(w, "read")
    /\ snapshots' = IF task[w].digest \in {item[2] : item \in snapshots} THEN snapshots
                    ELSE snapshots \cup {<<task[w].id, task[w].digest>>}
    /\ UNCHANGED <<catalogue, credentials, marker, keychain, refused, boot, imports, mishaps, sourceGhosts>>

\* The content is written before the catalogue names it.
WriteSource(w) ==
    /\ Does(w, "snapshot")
    /\ \/ /\ Then(w, "read") /\ UNCHANGED mishaps
          /\ snapshots' = snapshots \cup {<<task[w].id, task[w].digest>>}
       \/ Reply(w) /\ Mishap /\ UNCHANGED snapshots
    /\ UNCHANGED <<catalogue, credentials, marker, keychain, refused, boot, imports, sourceGhosts>>

\* Mutant: another content replaces the history of a source.
MergedForgets(cat, id, digest) ==
    IF id \in DOMAIN cat /\ digest = cat[id].digest THEN With(cat, id, Entry(digest, cat[id].versions))
    ELSE With(cat, id, Entry(digest, << >>))

\* The same content keeps the earlier ones, another one makes the current one an earlier one.
Merged(cat, id, digest) ==
    With(cat, id, IF id \notin DOMAIN cat THEN Entry(digest, << >>)
                  ELSE IF digest = cat[id].digest THEN Entry(digest, cat[id].versions)
                  ELSE Entry(digest, Append(cat[id].versions, cat[id].digest)))

ReadCatalogue(w) ==
    /\ Does(w, "read")
    /\ \/ task' = [task EXCEPT ![w] = [@ EXCEPT !.at = "save", !.seen = catalogue]] /\ UNCHANGED mishaps
       \/ Reply(w) /\ Mishap
    /\ UNCHANGED <<files, keychain, refused, boot, imports, sourceGhosts>>

\* SaveSources writes the whole catalogue; only an address goes on to its credential.
SaveSources(w) ==
    /\ Does(w, "save")
    /\ \/ /\ catalogue' = Merged(task[w].seen, task[w].id, task[w].digest)
          /\ IF task[w].id \in Urls
               THEN Then(w, "put") /\ UNCHANGED told
               ELSE Reply(w) /\ told' = told \cup {<<task[w].id, task[w].digest>>}
          /\ UNCHANGED mishaps
       \/ Reply(w) /\ Mishap /\ UNCHANGED <<catalogue, told>>
    /\ UNCHANGED <<snapshots, credentials, marker, keychain, refused, boot, imports, overlapped, cut, unread, torn>>

\* credentials.Put fails also when the client has gone.
PutCredential(w) ==
    /\ Does(w, "put")
    /\ \/ /\ Reply(w) /\ UNCHANGED mishaps
          /\ credentials' = credentials \cup {task[w].id}
          /\ told' = told \cup {<<task[w].id, task[w].digest>>}
          /\ cut' = cut \ {task[w].id}
       \/ Then(w, "restore") /\ Mishap /\ UNCHANGED <<credentials, told, cut>>
    /\ UNCHANGED <<catalogue, snapshots, marker, keychain, refused, boot, imports, overlapped, unread, torn>>

\* Mutant: only the file is taken back.
RestoreNothing(w) ==
    /\ Does(w, "restore") /\ Then(w, "remove")
    /\ UNCHANGED <<files, keychain, refused, boot, imports, mishaps, sourceGhosts>>

\* The catalogue as it was read before the import, then the file; errors are ignored.
RestoreCatalogue(w) ==
    /\ Does(w, "restore") /\ Then(w, "remove")
    /\ \/ catalogue' = task[w].before /\ UNCHANGED <<mishaps, cut>>
       \/ Mishap /\ cut' = cut \cup {task[w].id} /\ UNCHANGED catalogue
    /\ UNCHANGED <<snapshots, credentials, marker, keychain, refused, boot, imports, overlapped, told, unread, torn>>

Named(cat, id, digest) == id \in DOMAIN cat /\ digest \in Kept(cat, id)

\* The file goes even when the catalogue restored names the same content.
RemoveSnapshot(w) ==
    /\ Does(w, "remove") /\ Reply(w)
    /\ LET file == <<task[w].id, task[w].digest>> IN
       /\ snapshots' \in {snapshots \ {file}, snapshots}
       /\ torn' = IF Named(task[w].before, task[w].id, task[w].digest) \/ task[w].id \in cut
                    THEN torn \cup {file} ELSE torn
    /\ UNCHANGED <<catalogue, credentials, marker, keychain, refused, boot, imports, mishaps, overlapped, told, cut, unread>>

\* handleSourceApply, once the profile is applied: the catalogue is read, ...
ApplyReads(w) ==
    /\ boot = "up" /\ Does(w, "idle") /\ imports < MaxImports /\ catalogue # << >>
    /\ imports' = imports + 1
    /\ \E list \in {catalogue, << >>} :
         /\ ReadOrEmpty(list)
         /\ task' = [task EXCEPT ![w] = [at |-> "mark", id |-> "-", digest |-> "-",
                                         before |-> catalogue, seen |-> list]]
    /\ overlapped' = (overlapped \/ \E v \in Importers : ~Does(v, "idle"))
    /\ UNCHANGED <<files, keychain, refused, boot, told, cut, torn>>

\* ... and written back with marks of what is desired and what applied.
ApplyWrites(w) ==
    /\ Does(w, "mark") /\ Reply(w)
    /\ \/ catalogue' = task[w].seen /\ UNCHANGED mishaps
       \/ Mishap /\ UNCHANGED catalogue
    /\ UNCHANGED <<snapshots, credentials, marker, keychain, refused, boot, imports, sourceGhosts>>

SourceNext ==
    \/ MigratePut \/ MigrateClear \/ MigrateKeychain \/ KeychainRefuses \/ Mark \/ Dies
    \/ \E w \in Importers :
         \/ \E id \in Sources, d \in Digests : Arrive(w, id, d)
         \/ WriteSource(w) \/ ReadCatalogue(w) \/ SaveSources(w)
         \/ PutCredential(w) \/ RestoreCatalogue(w) \/ RemoveSnapshot(w)
         \/ ApplyReads(w) \/ ApplyWrites(w)

SourceSpec == SourceInit /\ [][SourceNext]_sourceVars

-----------------------------------------------------------------------------
(* Properties *)

EntryOK(e) == e.digest \in Digests /\ e.versions \in Seq(Digests) /\ e.fetchURL \in BOOLEAN

\* Every variable holds a value of its kind.
SourceTypeOK ==
    /\ DOMAIN catalogue \subseteq Sources /\ \A id \in DOMAIN catalogue : EntryOK(catalogue[id])
    /\ snapshots \subseteq Sources \X Digests
    /\ credentials \subseteq Urls /\ keychain \subseteq Urls /\ refused \subseteq keychain
    /\ marker \in BOOLEAN /\ boot \in {"read", "keychain", "up"}
    /\ \A w \in Importers :
         /\ task[w].at \in {"idle", "snapshot", "read", "save", "put", "restore", "remove", "mark"}
         /\ Does(w, "idle") \/ Does(w, "mark") \/ (task[w].id \in Sources /\ task[w].digest \in Digests)
    /\ imports \in 0 .. MaxImports /\ mishaps \in 0 .. MaxSourceFaults
    /\ told \subseteq Sources \X Digests /\ torn \subseteq Sources \X Digests /\ cut \subseteq Sources
    /\ unread \in BOOLEAN

\* Wherever a start of the service is cut short, the address of a source in the catalogue is
\* in one of the three stores, and it is given up only where the old store was asked for it
\* and refused, at the start that closed the migration: that is attempted once
\* (TestLegacyKeychainFailureDoesNotBlockOrRepeat), and the address is not asked for again.
AddressNeverLost ==
    \A id \in DOMAIN catalogue \cap Urls :
        \/ catalogue[id].fetchURL \/ id \in credentials
        \/ id \in keychain /\ (marker => id \in refused)
        \/ overlapped \/ id \in cut
        \/ \E w \in Importers : task[w].id = id /\ task[w].at \in {"put", "restore"}

\* The catalogue names only files that exist, at any moment and after any failure, but
\* for an import of known content whose credential could not be kept.
SnapshotsExist ==
    overlapped \/
    \A id \in DOMAIN catalogue : \A d \in Kept(catalogue, id) :
        <<id, d>> \in snapshots \cup torn

\* What an import has reported stays in the catalogue, as the current content or an
\* earlier one, as long as imports do not overlap and no failing read of the catalogue
\* was ignored.
ReportedIsKept ==
    overlapped \/ unread \/ \A item \in told : Named(catalogue, item[1], item[2])

\* What the catalogue promises to a later refresh or apply: the files of all it names, and
\* all that imports have reported.
CatalogueIsWhole == SnapshotsExist /\ ReportedIsKept

\* An importer ends without a report, in the same life of the service.
EndsUnreported(w) ==
    /\ ~Does(w, "idle") /\ task'[w].at = "idle" /\ boot' = "up"
    /\ told' = told /\ <<task[w].id, task[w].digest>> \notin told

\* An import that fails leaves the catalogue as it found it, as long as imports do not
\* overlap, the service lives on and can write, and no failing read of the catalogue was
\* ignored (importURL and handleSourceApply go on with an empty one, and save it).
FailureChangesNothing ==
    [][\A w \in Importers : EndsUnreported(w) /\ ~overlapped /\ ~unread /\ task[w].id \notin cut
                              => catalogue' = task[w].before]_sourceVars
=============================================================================
