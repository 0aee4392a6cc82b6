--------------------------- MODULE PeerFlowProofs ---------------------------
(***************************************************************************)
(* Lemmas about the control flow of PeerManager (PeerFlow): which phases a *)
(* function has, and which place follows which.  The proofs about          *)
(* PeerManager and PeerSettings use them.                                  *)
(***************************************************************************)
EXTENDS PeerFlow, TLAPS

PhasesOf(s) ==
    CASE s = "create"      -> {"reserve", "activate"} \cup ApplyPhases \cup NftPhases
      [] s = "undo_create" -> {"mark", "drop_row"} \cup RemovePhases \cup NftPhases
      [] s = "update"      -> {"read", "desire", "activate"} \cup ApplyPhases
      [] s = "undo_update" -> {"desire", "activate"} \cup ApplyPhases
      [] s = "delete"      -> {"read", "mark", "drop_row"} \cup RemovePhases \cup NftPhases
      [] s = "unmark"      -> {"activate"}
      [] s = "undo_delete" -> {"activate"} \cup ApplyPhases \cup NftPhases
      [] s = "change"      -> {"read", "ack"}
      [] s = "reapply"     -> ApplyPhases \cup NftPhases
      [] s = "promote"     -> {"activate"} \cup ApplyPhases \cup NftPhases
      [] s = "purge"       -> {"drop_row"} \cup RemovePhases \cup NftPhases
      [] s = "withdraw"    -> RemovePhases \cup NftPhases
      [] s = "reconcile"   -> NftPhases
      [] OTHER             -> {"idle"}

(***************************************************************************)
(* The functions that apply settings, that remove the external state, and  *)
(* that write the port set.                                                *)
(***************************************************************************)
ApplyStages == {"create", "update", "undo_update", "undo_delete", "reapply", "promote"}
RemoveStages == {"undo_create", "delete", "purge", "withdraw"}
NftStages ==
    {"create", "undo_create", "delete", "undo_delete", "reapply", "promote", "purge",
     "withdraw", "reconcile"}

\* Where a function goes on after apply_peer, and when apply_peer fails.
ApplyDone(s) ==
    At(s, IF s \in {"create", "undo_delete", "reapply"} THEN "nft_list" ELSE "activate")

ApplyError(s) ==
    CASE s = "create"                           -> At("undo_create", "mark")
      [] s = "update"                           -> At("undo_update", "desire")
      [] s \in {"undo_update", "undo_delete"}   -> Return("failed")
      [] OTHER                                  -> Return("ready")

\* The same for remove_external_state, and for sync_nft_ports.
RemoveDone(s) == At(s, IF s = "withdraw" THEN "nft_list" ELSE "drop_row")

RemoveError(s) ==
    CASE s = "undo_create" -> At("undo_create", "nft_list")
      [] s = "delete"      -> At("undo_delete", "activate")
      [] OTHER             -> Return("ready")

NftDone(s) ==
    CASE s = "create"                         -> At("create", "activate")
      [] s = "delete"                         -> At("delete", "bird_list")
      [] s \in {"undo_create", "undo_delete"} -> Return("failed")
      [] s = "reconcile"                      -> Return("ready")
      [] OTHER                                -> At("change", "ack")

NftError(s) ==
    CASE s = "create"                         -> At("undo_create", "mark")
      [] s = "delete"                         -> At("unmark", "activate")
      [] s \in {"undo_create", "undo_delete"} -> Return("failed")
      [] OTHER                                -> Return("ready")

(***************************************************************************)
(* Settings are applied in the same order by every function: the link, its *)
(* WireGuard configuration, BIRD.                                          *)
(***************************************************************************)
LEMMA ApplyFlow ==
    ASSUME NEW s \in ApplyStages
    PROVE  /\ Program(s, "ensure") = Go(At(s, "configure"), ApplyError(s))
           /\ Program(s, "configure") = Go(At(s, "bird_list"), ApplyError(s))
           /\ Program(s, "bird_list") = Go(At(s, "bird_sync"), ApplyError(s))
           /\ Program(s, "bird_sync") = Go(ApplyDone(s), ApplyError(s))
<1>. USE DEF Program, ApplyPhases, NftPhases, BirdPhases, RemovePhases, apply_peer,
             sync_bird_configs, ApplyDone, ApplyError
<1>1. CASE s = "create"      BY <1>1 DEF create_peer
<1>2. CASE s = "update"      BY <1>2 DEF update_peer
<1>3. CASE s = "undo_update" BY <1>3 DEF compensate_failed_update
<1>4. CASE s = "undo_delete" BY <1>4 DEF undo_delete
<1>5. CASE s = "reapply"     BY <1>5 DEF apply_peer_change
<1>6. CASE s = "promote"     BY <1>6 DEF apply_peer_change
<1>. QED BY <1>1, <1>2, <1>3, <1>4, <1>5, <1>6 DEF ApplyStages

(***************************************************************************)
(* The external state is removed in the same order by every function: the  *)
(* session of BIRD first, then the interface.                              *)
(***************************************************************************)
LEMMA RemoveFlow ==
    ASSUME NEW s \in RemoveStages
    PROVE  /\ Program(s, "bird_list") = Go(At(s, "bird_sync"), RemoveError(s))
           /\ Program(s, "bird_sync") = Go(At(s, "remove_if"), RemoveError(s))
           /\ Program(s, "remove_if") = Go(RemoveDone(s), RemoveError(s))
<1>. USE DEF Program, NftPhases, BirdPhases, RemovePhases, remove_external_state,
             sync_bird_configs, RemoveDone, RemoveError
<1>1. CASE s = "undo_create" BY <1>1 DEF compensate_failed_create
<1>2. CASE s = "delete"      BY <1>2 DEF delete_peer
<1>3. CASE s = "purge"       BY <1>3 DEF apply_peer_change
<1>4. CASE s = "withdraw"    BY <1>4 DEF apply_peer_change
<1>. QED BY <1>1, <1>2, <1>3, <1>4 DEF RemoveStages

LEMMA NftFlow ==
    ASSUME NEW s \in NftStages
    PROVE  /\ Program(s, "nft_list") = Go(At(s, "nft_sync"), NftError(s))
           /\ Program(s, "nft_sync") = Go(NftDone(s), NftError(s))
<1>. USE DEF Program, NftPhases, ApplyPhases, BirdPhases, RemovePhases, sync_nft_ports,
             NftDone, NftError
<1>1. CASE s = "create"      BY <1>1 DEF create_peer
<1>2. CASE s = "undo_create" BY <1>2 DEF compensate_failed_create
<1>3. CASE s = "delete"      BY <1>3 DEF delete_peer
<1>4. CASE s = "undo_delete" BY <1>4 DEF undo_delete
<1>5. CASE s = "reconcile"   BY <1>5 DEF nft_reconcile
<1>6. CASE s = "reapply"     BY <1>6 DEF apply_peer_change
<1>7. CASE s = "promote"     BY <1>7 DEF apply_peer_change
<1>8. CASE s = "purge"       BY <1>8 DEF apply_peer_change
<1>9. CASE s = "withdraw"    BY <1>9 DEF apply_peer_change
<1>. QED BY <1>1, <1>2, <1>3, <1>4, <1>5, <1>6, <1>7, <1>8, <1>9 DEF NftStages

(***************************************************************************)
(* The statements on the row, and what follows them.                       *)
(***************************************************************************)
LEMMA ReadFlow ==
    /\ Program("create", "reserve") = Go(At("create", "ensure"), Return("failed"))
    /\ Program("update", "read") = Go(At("update", "desire"), Return("failed"))
    /\ Program("delete", "read") = Go(At("delete", "mark"), Return("failed"))
    /\ Program("change", "read") = Go(Return("ready"), Return("ready"))
    /\ Program("change", "ack") = Go(Return("ready"), Return("ready"))
<1>. USE DEF Program, ApplyPhases, RemovePhases, NftPhases, BirdPhases
<1>1. Program("create", "reserve") = Go(At("create", "ensure"), Return("failed"))
  BY DEF create_peer
<1>2. Program("update", "read") = Go(At("update", "desire"), Return("failed"))
  BY DEF update_peer
<1>3. Program("delete", "read") = Go(At("delete", "mark"), Return("failed"))
  BY DEF delete_peer
<1>4. /\ Program("change", "read") = Go(Return("ready"), Return("ready"))
      /\ Program("change", "ack") = Go(Return("ready"), Return("ready"))
  BY DEF apply_peer_change
<1>. QED BY <1>1, <1>2, <1>3, <1>4

LEMMA DesireFlow ==
    /\ Program("update", "desire") = Go(At("update", "ensure"), Return("failed"))
    /\ Program("undo_update", "desire") = Go(At("undo_update", "ensure"), Return("failed"))
  BY DEF Program, update_peer, compensate_failed_update, ApplyPhases, BirdPhases

LEMMA MarkFlow ==
    /\ Program("undo_create", "mark") = Go(At("undo_create", "bird_list"),
                                           At("undo_create", "bird_list"))
    /\ Program("delete", "mark") = Go(At("delete", "nft_list"), Return("failed"))
  BY DEF Program, compensate_failed_create, delete_peer, RemovePhases, NftPhases, BirdPhases

LEMMA DropFlow ==
    /\ Program("undo_create", "drop_row") = Go(At("undo_create", "nft_list"),
                                               At("undo_create", "nft_list"))
    /\ Program("delete", "drop_row") = Go(Return("deleted"), Return("failed"))
    /\ Program("purge", "drop_row") = Go(At("purge", "nft_list"), Return("ready"))
<1>. USE DEF Program, RemovePhases, NftPhases, BirdPhases
<1>1. Program("undo_create", "drop_row") = Go(At("undo_create", "nft_list"),
                                              At("undo_create", "nft_list"))
  BY DEF compensate_failed_create
<1>2. Program("delete", "drop_row") = Go(Return("deleted"), Return("failed"))
  BY DEF delete_peer
<1>3. Program("purge", "drop_row") = Go(At("purge", "nft_list"), Return("ready"))
  BY DEF apply_peer_change
<1>. QED BY <1>1, <1>2, <1>3

LEMMA ActivateFlow ==
    /\ Program("create", "activate") = Go(Return("created"), At("undo_create", "mark"))
    /\ Program("update", "activate") = Go(Return("updated"), Return("failed"))
    /\ Program("undo_update", "activate") = Go(Return("failed"), Return("failed"))
    /\ Program("unmark", "activate") = Go(Return("failed"), Return("failed"))
    /\ Program("undo_delete", "activate") = Go(At("undo_delete", "ensure"), Return("failed"))
    /\ Program("promote", "activate") = Go(At("promote", "nft_list"), Return("ready"))
<1>. USE DEF Program, ApplyPhases, NftPhases, BirdPhases
<1>1. Program("create", "activate") = Go(Return("created"), At("undo_create", "mark"))
  BY DEF create_peer
<1>2. Program("update", "activate") = Go(Return("updated"), Return("failed"))
  BY DEF update_peer
<1>3. Program("undo_update", "activate") = Go(Return("failed"), Return("failed"))
  BY DEF compensate_failed_update
<1>4. Program("unmark", "activate") = Go(Return("failed"), Return("failed"))
  BY DEF unmark
<1>5. Program("undo_delete", "activate") = Go(At("undo_delete", "ensure"), Return("failed"))
  BY DEF undo_delete
<1>6. Program("promote", "activate") = Go(At("promote", "nft_list"), Return("ready"))
  BY DEF apply_peer_change
<1>. QED BY <1>1, <1>2, <1>3, <1>4, <1>5, <1>6

(***************************************************************************)
(* The functions that have a phase.                                        *)
(***************************************************************************)
LEMMA StagesOfPhase ==
    ASSUME NEW s \in Stages, NEW f \in PhasesOf(s)
    PROVE  /\ f = "reserve" => s = "create"
           /\ f = "read" => s \in {"update", "delete", "change"}
           /\ f = "desire" => s \in {"update", "undo_update"}
           /\ f = "mark" => s \in {"undo_create", "delete"}
           /\ f \in {"ensure", "configure"} => s \in ApplyStages
           /\ f \in BirdPhases => s \in ApplyStages \cup RemoveStages
           /\ f = "remove_if" => s \in RemoveStages
           /\ f = "drop_row" => s \in {"undo_create", "delete", "purge"}
           /\ f \in NftPhases => s \in NftStages
           /\ f = "activate" => s \in {"create", "update", "undo_update", "unmark",
                                       "undo_delete", "promote"}
           /\ f = "ack" => s = "change"
  BY DEF Stages, PhasesOf, ApplyStages, RemoveStages, NftStages, ApplyPhases, RemovePhases,
         NftPhases, BirdPhases

(***************************************************************************)
(* What a failing call leads to: the end of the function, or compensation. *)
(***************************************************************************)
ErrorTurn(s, f, t) ==
    \/ t \in {Return("failed"), Return("ready")}
    \/ t = At("undo_create", "mark") /\ s = "create" /\ f # "reserve"
    \/ t \in {At("undo_create", "bird_list"), At("undo_create", "nft_list")} /\ s = "undo_create"
    \/ t = At("undo_update", "desire") /\ s = "update" /\ f \in ApplyPhases
    \/ t = At("unmark", "activate") /\ s = "delete" /\ f \in NftPhases
    \/ t = At("undo_delete", "activate") /\ s = "delete" /\ f \in RemovePhases

LEMMA ErrorFlow ==
    ASSUME NEW s \in Stages, NEW f \in PhasesOf(s), f # "idle"
    PROVE  ErrorTurn(s, f, Program(s, f).err)
<1>1. CASE f \in ApplyPhases /\ s \in ApplyStages
  <2>1. Program(s, f).err = ApplyError(s)
    BY <1>1, ApplyFlow DEF Go, ApplyPhases, BirdPhases
  <2>. QED BY <1>1, <2>1 DEF ErrorTurn, ApplyError, ApplyStages, ApplyPhases, BirdPhases
<1>2. CASE f \in RemovePhases /\ s \in RemoveStages
  <2>1. Program(s, f).err = RemoveError(s)
    BY <1>2, RemoveFlow DEF Go, RemovePhases, BirdPhases
  <2>. QED BY <1>2, <2>1 DEF ErrorTurn, RemoveError, RemoveStages
<1>3. CASE f \in NftPhases
  <2>1. s \in NftStages
    BY <1>3, StagesOfPhase
  <2>2. Program(s, f).err = NftError(s)
    BY <1>3, <2>1, NftFlow DEF Go, NftPhases
  <2>. QED BY <1>3, <2>1, <2>2 DEF ErrorTurn, NftError, NftStages, NftPhases
<1>4. CASE f \in {"reserve", "read", "ack"}
  BY <1>4, ReadFlow, StagesOfPhase DEF ErrorTurn, Go
<1>5. CASE f \in {"desire", "mark"}
  BY <1>5, DesireFlow, MarkFlow, StagesOfPhase DEF ErrorTurn, Go
<1>6. CASE f = "drop_row"
  BY <1>6, DropFlow, StagesOfPhase DEF ErrorTurn, Go
<1>7. CASE f = "activate"
  BY <1>7, ActivateFlow, StagesOfPhase DEF ErrorTurn, Go
<1>. QED BY <1>1, <1>2, <1>3, <1>4, <1>5, <1>6, <1>7
         DEF Stages, PhasesOf, ApplyStages, RemoveStages, ApplyPhases, RemovePhases, NftPhases,
             BirdPhases

(***************************************************************************)
(* The calls of a request whose failure is answered without compensation.  *)
(***************************************************************************)
LEMMA DirectFlow ==
    ASSUME NEW s \in {"create", "update", "delete"}, NEW f \in PhasesOf(s),
           Program(s, f).err \in {Return("failed"), Return("ready")}
    PROVE  \/ f \in {"reserve", "read"}
           \/ s = "update" /\ f \in {"desire", "activate"}
           \/ s = "delete" /\ f \in {"mark", "drop_row"}
<1>1. \A r \in {Return("failed"), Return("ready")} : r.phase = "idle"
  BY DEF Return, At
<1>2. ASSUME s \in {"create", "update"}, f \in ApplyPhases
      PROVE  Program(s, f).err.phase # "idle"
  BY <1>2, ApplyFlow DEF Go, At, ApplyError, ApplyPhases, BirdPhases, ApplyStages
<1>3. ASSUME s \in {"create", "delete"}, f \in NftPhases
      PROVE  Program(s, f).err.phase # "idle"
  BY <1>3, NftFlow DEF Go, At, NftError, NftPhases, NftStages
<1>4. ASSUME s = "delete", f \in RemovePhases
      PROVE  Program(s, f).err.phase # "idle"
  BY <1>4, RemoveFlow DEF Go, At, RemoveError, RemovePhases, BirdPhases, RemoveStages
<1>5. ASSUME s = "create", f = "activate"
      PROVE  Program(s, f).err.phase # "idle"
  BY <1>5, ActivateFlow DEF Go, At
<1>. QED BY <1>1, <1>2, <1>3, <1>4, <1>5 DEF PhasesOf
=============================================================================
