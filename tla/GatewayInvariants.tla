--------------------------- MODULE GatewayInvariants ---------------------------
(***************************************************************************)
(* The inductive invariants of GatewayLifecycle: what every call of an      *)
(* operation may rely on when it runs.  GatewayLifecycleProofs shows that   *)
(* they hold and what follows from them.                                    *)
(***************************************************************************)
EXTENDS GatewayLifecycle

\* The calls, grouped by what the operation has done before them.
Looking    == {"idle", "load", "stop_load", "reload_check", "reload_validate", "restart_check"}
Probing    == {"prepare", "snapshot", "save1"}
Acquiring  == {"enable", "save2", "mihomo", "save3", "dnsmasq", "save4", "load_nft", "save5", "verify"}
Cleaning   == {"c_nft", "c_dhcp", "c_mihomo", "c_sysctl", "c_state", "c_snap", "retain"}
Restarting == {"restart_mark", "restart_stop", "restart_undo", "restart_archive", "restart_start",
               "restart_save"}

\* The policy document has been read before the snapshot is written.
SnapshotPrepared == pc = "snapshot" => cfg.policy # Deferred

-----------------------------------------------------------------------------
(* Forwarding *)

\* A recorded value is the one of the host; a state without one is only kept
\* while ip_forward is what it was.
Restores(s) == s.before = host \/ (s.before = Blank /\ forward = host)

\* Stop and rollback can put ip_forward back, from the file or from the State in
\* memory, at every call of every operation and after a crash at any of them.
ForwardingInv ==
    /\ exists => Restores(disk)
    /\ ~exists => forward = host
    /\ pc \in Probing => ~exists
    /\ pc \in (Probing \ {"prepare"}) \cup Acquiring => st.before = host
    /\ pc \in Acquiring => exists /\ disk.before = host
    /\ pc \in Cleaning \cup Restarting => Restores(st)
    /\ pc \in {"c_state", "c_snap"} => forward = host

-----------------------------------------------------------------------------
(* Residue *)

Alive      == {p \in Pids : owner[p] # "free"}
Empty      == ~nft /\ Alive = {}
Tracks(s)  == Alive \subseteq {s.dhcp, s.mihomo}
Records(s) == Tracks(s) /\ (nft => s.nft \/ s.cleanup)

\* Between operations, and while one only looks: the file names what is there.
RestInv ==
    /\ pc \in Looking => IF exists THEN Records(disk) ELSE Empty
    /\ pc \in Probing => Empty

\* Start holds what it has acquired in its State; only the last save makes it
\* certain that the file says the same.
StartInv ==
    /\ pc \in {"enable", "save2", "mihomo"} => Empty
    /\ pc \in {"save3", "dnsmasq"} => Alive \subseteq {st.mihomo}
    /\ pc \in Acquiring => exists /\ Tracks(st)
    /\ pc \in Acquiring \ {"save5", "verify"} => ~nft
    /\ pc \in {"save5", "verify"} => st.nft
    /\ pc = "verify" => disk = st

\* The cleanup keeps state.json until all steps have succeeded; what another stop has
\* removed it for is undone.
CleanInv ==
    /\ pc \in Cleaning => Tracks(st)
    /\ pc \in {"c_nft", "c_dhcp", "c_mihomo", "c_sysctl", "retain"} => exists \/ Empty
    /\ pc = "c_nft" /\ nft => unload
    /\ pc \in {"c_dhcp", "c_mihomo", "c_sysctl"} /\ ~cleanErr => ~nft
    /\ pc = "c_mihomo" /\ ~cleanErr => Alive \subseteq {st.mihomo}
    /\ pc = "c_sysctl" /\ ~cleanErr => Empty
    /\ pc \in {"c_state", "c_snap"} => Empty

\* RestartMihomo has forgotten the old pid on disk while that process runs.
RestartInv ==
    /\ pc \in Restarting => exists /\ st.dhcp = disk.dhcp
    /\ pc \in Restarting => st.nft = disk.nft /\ st.cleanup = disk.cleanup
    /\ pc \in Restarting /\ nft => disk.nft \/ disk.cleanup
    /\ pc = "restart_mark" => Tracks(disk) /\ prev = disk.mihomo
    /\ pc \in {"restart_stop", "restart_undo"} => Alive \subseteq {st.dhcp, prev}
    /\ pc \in {"restart_archive", "restart_start"} => Alive \subseteq {st.dhcp}
    /\ pc = "restart_save" => Tracks(st)

ResidueInv == RestInv /\ StartInv /\ CleanInv /\ RestartInv

\* Unless an operation was killed half way or a cleanup could not be recorded,
\* what an operation has not undone yet is known to its State or to the file.
SoundResidue == Sound => ResidueInv

-----------------------------------------------------------------------------
(* What the promise of GatewayPromise needs besides *)

\* Which operations make which calls.
ModeInv ==
    /\ pc \in {"load"} \cup Probing \cup Acquiring => mode \in {"start", "reload_start"}
    /\ pc \in Cleaning => mode \in {"start", "reload_start", "stop", "reload"}
    /\ pc = "stop_load" => mode \in {"stop", "reload"}
    /\ pc \in {"reload_check", "reload_validate"} => mode = "reload"
    /\ pc \in {"restart_check"} \cup Restarting => mode = "restart"

\* While a start acquires resources no cleanup is due, a cleanup on its own keeps
\* state.json for its first steps, and one that has removed the snapshot without an
\* error has removed state.json before.
DueInv ==
    /\ pc \in (Probing \ {"prepare"}) \cup Acquiring => ~st.cleanup
    /\ pc \in Acquiring => ~disk.cleanup
    /\ pc \in {"c_nft", "c_dhcp", "c_mihomo", "c_sysctl"} => exists
    /\ pc = "c_snap" /\ ~cleanErr => ~exists

PhaseInv == ModeInv /\ DueInv
=============================================================================
