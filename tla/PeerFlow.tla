----------------------------- MODULE PeerFlow ------------------------------
(***************************************************************************)
(* The control flow of PeerManager (src/src/manager.rs): which external    *)
(* call follows which, and what compensates a call that fails.             *)
(*                                                                         *)
(* A place is a pair of a stage, the function that is executed, and a      *)
(* phase, the external call that comes next.  The operator named after a   *)
(* function says, for each phase of it, where the function goes on when    *)
(* the call succeeds and when it fails.                                    *)
(***************************************************************************)

Stages ==
    {"ready", "create", "undo_create", "update", "undo_update",
     "delete", "unmark", "undo_delete",
     "change", "reapply", "promote", "purge", "withdraw", "reconcile",
     "created", "tested", "updated", "deleted", "failed"}

Phases ==
    {"idle", "read", "reserve", "desire", "mark", "ensure", "configure",
     "bird_list", "bird_sync", "remove_if", "drop_row",
     "nft_list", "nft_sync", "activate", "ack"}

(***************************************************************************)
(* Control flow.  Go(ok, err) says at which place a process goes on after  *)
(* a call that succeeds and after one that fails.  A process that returns  *)
(* is idle, at the stage that tells how its request was answered.          *)
(***************************************************************************)
At(stage, phase) == [stage |-> stage, phase |-> phase]
Go(ok, err) == [ok |-> ok, err |-> err]
Return(stage) == At(stage, "idle")

BirdPhases == {"bird_list", "bird_sync"}
NftPhases == {"nft_list", "nft_sync"}
ApplyPhases == {"ensure", "configure"} \cup BirdPhases
RemovePhases == {"remove_if"} \cup BirdPhases

sync_bird_configs(f, s, done, fail) ==
    Go(IF f = "bird_list" THEN At(s, "bird_sync") ELSE done, fail)

sync_nft_ports(f, s, done, fail) ==
    Go(IF f = "nft_list" THEN At(s, "nft_sync") ELSE done, fail)

apply_peer(f, s, done, fail) ==
    CASE f = "ensure"    -> Go(At(s, "configure"), fail)
      [] f = "configure" -> Go(At(s, "bird_list"), fail)
      [] OTHER           -> sync_bird_configs(f, s, done, fail)

\* Faulty variant: BIRD is forgotten.
remove_external_state_NoBird(f, s, done, fail) ==
    Go(IF f = "remove_if" THEN done ELSE At(s, "remove_if"), fail)

remove_external_state(f, s, done, fail) ==
    IF f = "remove_if" THEN Go(done, fail)
    ELSE sync_bird_configs(f, s, At(s, "remove_if"), fail)

create_peer(f) ==
    LET undo == At("undo_create", "mark") IN
    CASE f = "reserve"      -> Go(At("create", "ensure"), Return("failed"))
      [] f \in ApplyPhases  -> apply_peer(f, "create", At("create", "nft_list"), undo)
      [] f \in NftPhases    -> sync_nft_ports(f, "create", At("create", "activate"), undo)
      [] OTHER              -> Go(Return("created"), undo)

compensate_failed_create(f) ==
    LET s == "undo_create"
        nftNext == At(s, "nft_list")
    IN
    CASE f = "mark"         -> Go(At(s, "bird_list"), At(s, "bird_list"))
      [] f \in RemovePhases -> remove_external_state(f, s, At(s, "drop_row"), nftNext)
      [] f = "drop_row"     -> Go(nftNext, nftNext)
      [] OTHER              -> sync_nft_ports(f, s, Return("failed"), Return("failed"))

\* Faulty variants of update_peer: the kernel is changed before the row, and
\* an interface that could not be configured is not noticed.
update_peer_ApplyFirst(f) ==
    CASE f = "read"        -> Go(At("update", "ensure"), Return("failed"))
      [] f = "desire"      -> Go(At("update", "activate"), Return("failed"))
      [] f \in ApplyPhases -> apply_peer(f, "update", At("update", "desire"), Return("failed"))
      [] OTHER             -> Go(Return("updated"), Return("failed"))

update_peer_IgnoreFailure(f) ==
    CASE f = "read"        -> Go(At("update", "desire"), Return("failed"))
      [] f = "desire"      -> Go(At("update", "ensure"), Return("failed"))
      [] f \in ApplyPhases -> apply_peer(f, "update", At("update", "activate"),
                                         At("update", "activate"))
      [] OTHER             -> Go(Return("updated"), Return("failed"))

update_peer(f) ==
    CASE f = "read"        -> Go(At("update", "desire"), Return("failed"))
      [] f = "desire"      -> Go(At("update", "ensure"), Return("failed"))
      [] f \in ApplyPhases -> apply_peer(f, "update", At("update", "activate"),
                                         At("undo_update", "desire"))
      [] OTHER             -> Go(Return("updated"), Return("failed"))

\* Faulty variant: the old row is stored, and not applied.
compensate_failed_update_RowOnly(f) ==
    IF f = "desire" THEN Go(At("undo_update", "activate"), Return("failed"))
    ELSE Go(Return("failed"), Return("failed"))

compensate_failed_update(f) ==
    LET s == "undo_update" IN
    CASE f = "desire"      -> Go(At(s, "ensure"), Return("failed"))
      [] f \in ApplyPhases -> apply_peer(f, s, At(s, "activate"), Return("failed"))
      [] OTHER             -> Go(Return("failed"), Return("failed"))

\* Faulty variant: an interface that cannot be removed is ignored.
delete_peer_IgnoreFailure(f) ==
    CASE f = "read"         -> Go(At("delete", "mark"), Return("failed"))
      [] f = "mark"         -> Go(At("delete", "nft_list"), Return("failed"))
      [] f \in NftPhases    -> sync_nft_ports(f, "delete", At("delete", "bird_list"),
                                              At("unmark", "activate"))
      [] f \in RemovePhases -> remove_external_state(f, "delete", At("delete", "drop_row"),
                                                     At("delete", "drop_row"))
      [] OTHER              -> Go(Return("deleted"), Return("failed"))

delete_peer(f) ==
    CASE f = "read"         -> Go(At("delete", "mark"), Return("failed"))
      [] f = "mark"         -> Go(At("delete", "nft_list"), Return("failed"))
      [] f \in NftPhases    -> sync_nft_ports(f, "delete", At("delete", "bird_list"),
                                              At("unmark", "activate"))
      [] f \in RemovePhases -> remove_external_state(f, "delete", At("delete", "drop_row"),
                                                     At("undo_delete", "activate"))
      [] OTHER              -> Go(Return("deleted"), Return("failed"))

\* The error path of delete_peer after sync_nft_ports.
unmark(f) == Go(Return("failed"), Return("failed"))

\* The error path of delete_peer after remove_external_state.
undo_delete(f) ==
    LET s == "undo_delete" IN
    CASE f = "activate"    -> Go(At(s, "ensure"), Return("failed"))
      [] f \in ApplyPhases -> apply_peer(f, s, At(s, "nft_list"), Return("failed"))
      [] OTHER             -> sync_nft_ports(f, s, Return("failed"), Return("failed"))

(***************************************************************************)
(* apply_peer_change, by the row that the listener has read: an active     *)
(* peer is applied again; a provisioning one (or one in error) is applied  *)
(* and activated; a deleting one is removed with its row; of a disabled    *)
(* one, and of one whose row is gone, the external state is removed.       *)
(***************************************************************************)
\* Faulty variants: the event of a change that failed is deleted as well, and
\* a provisioning peer is applied but not activated.
apply_peer_change_AckOnError(s, f) ==
    LET ack == At("change", "ack")
        nftNext == At(s, "nft_list")
    IN
    IF f \in NftPhases THEN sync_nft_ports(f, s, ack, ack)
    ELSE CASE s = "reapply"  -> apply_peer(f, s, nftNext, ack)
           [] s = "promote"  -> IF f = "activate" THEN Go(nftNext, ack)
                                ELSE apply_peer(f, s, At(s, "activate"), ack)
           [] s = "purge"    -> IF f = "drop_row" THEN Go(nftNext, ack)
                                ELSE remove_external_state(f, s, At(s, "drop_row"), ack)
           [] s = "withdraw" -> remove_external_state(f, s, nftNext, ack)
           [] OTHER          -> Go(Return("ready"), Return("ready"))

apply_peer_change_NoActivate(s, f) ==
    LET retry == Return("ready")
        nftNext == At(s, "nft_list")
    IN
    IF f \in NftPhases THEN sync_nft_ports(f, s, At("change", "ack"), retry)
    ELSE CASE s \in {"reapply", "promote"} -> apply_peer(f, s, nftNext, retry)
           [] s = "purge"    -> IF f = "drop_row" THEN Go(nftNext, retry)
                                ELSE remove_external_state(f, s, At(s, "drop_row"), retry)
           [] s = "withdraw" -> remove_external_state(f, s, nftNext, retry)
           [] OTHER          -> Go(retry, retry)

apply_peer_change(s, f) ==
    LET retry == Return("ready")
        nftNext == At(s, "nft_list")
    IN
    IF f \in NftPhases THEN sync_nft_ports(f, s, At("change", "ack"), retry)
    ELSE CASE s = "reapply"  -> apply_peer(f, s, nftNext, retry)
           [] s = "promote"  -> IF f = "activate" THEN Go(nftNext, retry)
                                ELSE apply_peer(f, s, At(s, "activate"), retry)
           [] s = "purge"    -> IF f = "drop_row" THEN Go(nftNext, retry)
                                ELSE remove_external_state(f, s, At(s, "drop_row"), retry)
           [] s = "withdraw" -> remove_external_state(f, s, nftNext, retry)
           [] OTHER          -> Go(retry, retry)

nft_reconcile(f) == sync_nft_ports(f, "reconcile", Return("ready"), Return("ready"))

Program(s, f) ==
    CASE s = "create"      -> create_peer(f)
      [] s = "undo_create" -> compensate_failed_create(f)
      [] s = "update"      -> update_peer(f)
      [] s = "undo_update" -> compensate_failed_update(f)
      [] s = "delete"      -> delete_peer(f)
      [] s = "unmark"      -> unmark(f)
      [] s = "undo_delete" -> undo_delete(f)
      [] s = "reconcile"   -> nft_reconcile(f)
      [] OTHER             -> apply_peer_change(s, f)

=============================================================================
