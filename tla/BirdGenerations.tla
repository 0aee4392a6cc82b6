-------------------------- MODULE BirdGenerations --------------------------
(***************************************************************************)
(* How sync_bird_configs_for (src/src/manager.rs) puts a configuration on  *)
(* disk and makes BIRD load it: a new generation directory is written, the *)
(* symlink `current` is switched to it, BIRD is told to reload, and the    *)
(* symlink is switched back if BIRD refuses.  bird_sync_lock serializes    *)
(* the calls.  A call may be dropped with the request that made it, or die *)
(* with the service, between any two of these steps.                       *)
(*                                                                         *)
(* A configuration is the whole content of a generation, one opaque value. *)
(* Names of generations are unique, so a generation is named after the     *)
(* call that creates it.                                                   *)
(***************************************************************************)
EXTENDS FiniteSets

CONSTANTS
    Calls,     \* calls of sync_bird_configs_for
    Configs,   \* configurations that can be asked for
    Empty,     \* the one with no peer
    EmptyGen,  \* the directory generations/empty
    NoLink,    \* there is no symlink `current`
    Absent,    \* there is no such directory
    Partial,   \* a directory whose files are not all written
    Free,      \* nobody holds bird_sync_lock
    Faults     \* what may go wrong

FaultKinds ==
    {"reject",   \* BIRD answers a reload with an error code
     "timeout",  \* no answer within 10 seconds, BIRD may have reloaded or not
     "io",       \* a call to the file system fails
     "cancel",   \* the future of the call is dropped
     "late",     \* the rename that a dropped call awaited is done later
     "crash"}    \* the service dies

ASSUME BirdAssumption ==
    /\ Empty \in Configs
    /\ {Absent, Partial} \cap Configs = {}
    /\ Absent # Partial
    /\ EmptyGen \notin Calls
    /\ NoLink \notin Calls \cup {EmptyGen}
    /\ Free \notin Calls
    /\ Faults \subseteq FaultKinds

Gens == Calls \cup {EmptyGen}

VARIABLES
    dir,      \* the content of each generation directory
    current,  \* the generation the symlink `current` points to
    loaded,   \* the configuration that BIRD runs with
    holder,   \* the call that holds bird_sync_lock
    call,     \* each call: its phase, arguments and the local old_target
    up,       \* recover has finished, its forced sync is done
    strays,   \* targets of renames of `current` that dropped calls left behind
    late,     \* history: when a stray rename was last done, see Finish
    odd       \* history: since BIRD last accepted a configuration, something
              \* else than a rejection has gone wrong

history == <<late, odd>>
birdVars == <<dir, current, loaded, holder, call, up, strays, late, odd>>

CallPhases ==
    {"new", "layout", "compare", "create", "write", "switch", "reload",
     "restore", "reload_old", "cleanup", "reload_same",
     "ok", "err"}

CallState ==
    [phase : CallPhases, want : Configs, force : BOOLEAN, old : Gens \cup {NoLink}]

(***************************************************************************)
(* Every variable keeps its type; in particular BIRD never loads a         *)
(* generation that is only partly written.                                 *)
(***************************************************************************)
BirdTypeOK ==
    /\ dir \in [Gens -> Configs \cup {Absent, Partial}]
    /\ current \in Gens \cup {NoLink}
    /\ loaded \in Configs
    /\ holder \in Calls \cup {Free}
    /\ call \in [Calls -> CallState]
    /\ up \in BOOLEAN
    /\ strays \subseteq Gens \cup {NoLink}
    /\ late \in {"never", "before", "during"}
    /\ odd \in BOOLEAN

(***************************************************************************)
(* What BIRD finds under current/*.conf: nothing if the link is missing or *)
(* leads nowhere.                                                          *)
(***************************************************************************)
Under(link) ==
    IF link = NoLink THEN Empty
    ELSE IF dir[link] = Absent THEN Empty ELSE dir[link]

Visible == Under(current)

\* A call that has not begun or has returned has no local variables.
Outside(phase) ==
    [phase |-> phase, want |-> Empty, force |-> FALSE, old |-> NoLink]

Init ==
    /\ dir = [g \in Gens |-> Absent]
    /\ current = NoLink
    /\ loaded = Empty
    /\ holder = Free
    /\ call = [s \in Calls |-> Outside("new")]
    /\ up = FALSE
    /\ strays = {}
    /\ late = "never"
    /\ odd = FALSE

At(s, phase) == holder = s /\ call[s].phase = phase
To(s, phase) == call' = [call EXCEPT ![s].phase = phase]

\* The call returns, which drops the guard on bird_sync_lock.  A call that
\* succeeds without being hit by a stray rename has made up for earlier ones.
Finish(s, result) ==
    /\ call' = [call EXCEPT ![s] = Outside(result)]
    /\ holder' = Free
    /\ late' = IF late = "during" THEN "before"
               ELSE IF result = "ok" THEN "never" ELSE late

(***************************************************************************)
(* The forced call is the one of recover, before any other is possible.    *)
(***************************************************************************)
Begin(s, c) ==
    /\ call[s].phase = "new"
    /\ holder = Free
    /\ holder' = s
    /\ call' = [call EXCEPT ![s] = [@ EXCEPT !.phase = "layout", !.want = c, !.force = ~up]]
    /\ UNCHANGED <<dir, current, loaded, up, strays, history>>

\* ensure_bird_layout.
Layout(s) ==
    /\ At(s, "layout")
    /\ dir' = [dir EXCEPT ![EmptyGen] = Empty]
    /\ current' = IF current = NoLink THEN EmptyGen ELSE current
    /\ To(s, "compare")
    /\ UNCHANGED <<loaded, holder, up, strays, history>>

\* main goes on after recover, or dies with it.
Returned(s, ok) == up' = (up \/ (ok /\ call[s].force))

\* Faulty variant: an unchanged generation is never reloaded.
Compare_NoForce(s) ==
    /\ At(s, "compare")
    /\ IF current # NoLink /\ dir[current] = call[s].want
         THEN Finish(s, "ok") /\ Returned(s, TRUE)
         ELSE To(s, "create") /\ UNCHANGED <<holder, up, late>>
    /\ UNCHANGED <<dir, current, loaded, strays, odd>>

Compare(s) ==
    /\ At(s, "compare")
    /\ IF current # NoLink /\ dir[current] = call[s].want
         THEN IF call[s].force
                THEN To(s, "reload_same") /\ UNCHANGED <<holder, up, late>>
                ELSE Finish(s, "ok") /\ Returned(s, TRUE)
         ELSE To(s, "create") /\ UNCHANGED <<holder, up, late>>
    /\ UNCHANGED <<dir, current, loaded, strays, odd>>

\* Faulty variant: `current` is switched before the files are written.
CreateGeneration_SwitchFirst(s) ==
    /\ At(s, "create")
    /\ dir' = [dir EXCEPT ![s] = Partial]
    /\ To(s, "switch")
    /\ UNCHANGED <<current, loaded, holder, up, strays, history>>

CreateGeneration(s) ==
    /\ At(s, "create")
    /\ dir' = [dir EXCEPT ![s] = Partial]
    /\ To(s, "write")
    /\ UNCHANGED <<current, loaded, holder, up, strays, history>>

\* The loop of write_atomic and sync_directory, then read_link of `current`,
\* whose errors are taken for the absence of the link.
WriteGeneration(s) ==
    /\ At(s, "write")
    /\ dir' = [dir EXCEPT ![s] = call[s].want]
    /\ \E old \in {current} \cup (IF "io" \in Faults THEN {NoLink} ELSE {}) :
         /\ call' = [call EXCEPT ![s] = [@ EXCEPT !.phase = "switch", !.old = old]]
         /\ odd' = (odd \/ old # current)
    /\ UNCHANGED <<current, loaded, holder, up, strays, late>>

switch_current(target) == current' = target

\* Faulty variant: the old generations are removed before BIRD has accepted
\* the new one.
Switch_CleanupFirst(s) ==
    /\ At(s, "switch")
    /\ switch_current(s)
    /\ dir' = [g \in Gens |-> IF g \in {s, EmptyGen} THEN dir[g] ELSE Absent]
    /\ To(s, "reload")
    /\ UNCHANGED <<loaded, holder, up, strays, history>>

Switch(s) ==
    /\ At(s, "switch")
    /\ switch_current(s)
    /\ To(s, "reload")
    /\ UNCHANGED <<dir, loaded, holder, up, strays, history>>

(***************************************************************************)
(* reload_bird: "configure soft" on BIRD's control socket.                 *)
(***************************************************************************)
reload_bird(ok) ==
    IF ok THEN loaded' = Visible /\ odd' = (late = "during")
    ELSE \/ "reject" \in Faults /\ UNCHANGED <<loaded, odd>>
         \/ "timeout" \in Faults /\ loaded' \in {loaded, Visible} /\ odd' = TRUE

Reload(s, ok) ==
    /\ At(s, "reload")
    /\ reload_bird(ok)
    /\ To(s, IF ok THEN "cleanup" ELSE "restore")
    /\ UNCHANGED <<dir, current, holder, up, strays, late>>

\* `current` did not change, only recover asks for this reload.
ReloadSame(s, ok) ==
    /\ At(s, "reload_same")
    /\ reload_bird(ok)
    /\ Finish(s, IF ok THEN "ok" ELSE "err")
    /\ Returned(s, ok)
    /\ UNCHANGED <<dir, current, strays>>

\* Faulty variants: the symlink is not switched back, and it is removed even
\* when there was one.
Restore_Skip(s) ==
    /\ At(s, "restore")
    /\ To(s, "reload_old")
    /\ UNCHANGED <<dir, current, loaded, holder, up, strays, history>>

Restore_Remove(s) ==
    /\ At(s, "restore")
    /\ switch_current(NoLink)
    /\ To(s, "reload_old")
    /\ UNCHANGED <<dir, loaded, holder, up, strays, history>>

\* switch_current(old_target), or remove_optional when there was none.
Restore(s) ==
    /\ At(s, "restore")
    /\ switch_current(call[s].old)
    /\ To(s, "reload_old")
    /\ UNCHANGED <<dir, loaded, holder, up, strays, history>>

\* The result of this reload is ignored.
ReloadOld(s, ok) ==
    /\ At(s, "reload_old")
    /\ reload_bird(ok)
    /\ Finish(s, "err")
    /\ UNCHANGED <<dir, current, up, strays>>

(***************************************************************************)
(* remove_old_generations, one directory after the other; it gives up on   *)
(* what it cannot remove.  A directory goes at once: that remove_dir_all   *)
(* may leave a part of an old generation can only be seen when a late      *)
(* rename leads to it; for that case PeerManager (LateRename) lets BIRD    *)
(* have any part of the configuration.                                     *)
(***************************************************************************)
RemoveGeneration(s, g) ==
    /\ At(s, "cleanup")
    /\ g # s
    /\ dir[g] # Absent
    /\ dir' = [dir EXCEPT ![g] = Absent]
    /\ UNCHANGED <<current, loaded, holder, call, up, strays, history>>

Cleanup(s) ==
    /\ At(s, "cleanup")
    /\ "io" \in Faults \/ \A g \in Calls \ {s} : dir[g] = Absent
    /\ Finish(s, "ok")
    /\ Returned(s, TRUE)
    /\ UNCHANGED <<dir, current, loaded, strays, odd>>

(***************************************************************************)
(* A file system call fails.  The rename of switch_current may have been   *)
(* done by then: sync_directory follows it.                                *)
(***************************************************************************)
IoError(s) ==
    /\ "io" \in Faults
    /\ \/ /\ \E phase \in {"layout", "compare", "create", "write", "switch", "restore"} :
               At(s, phase)
          /\ UNCHANGED <<dir, current>>
       \/ /\ At(s, "layout") /\ current = NoLink
          /\ dir' = [dir EXCEPT ![EmptyGen] = Empty]
          /\ current' \in {current, EmptyGen}
       \/ At(s, "switch") /\ switch_current(s) /\ UNCHANGED dir
       \/ At(s, "restore") /\ switch_current(call[s].old) /\ UNCHANGED dir
    /\ Finish(s, "err")
    /\ odd' = TRUE
    /\ UNCHANGED <<loaded, up, strays>>

(***************************************************************************)
(* A request is dropped with its call; recover's call is not a request's.  *)
(* tokio's file system calls run on a pool of blocking threads, which does *)
(* not learn of it: a rename of `current` (or its removal, NoLink) that    *)
(* the call was waiting for is done nevertheless, at any time.             *)
(***************************************************************************)
Awaited(s) ==
    IF "late" \notin Faults THEN {}
    ELSE CASE At(s, "layout") /\ current = NoLink -> {EmptyGen}
           [] At(s, "switch")                     -> {s}
           [] At(s, "restore")                    -> {call[s].old}
           [] OTHER                               -> {}

Cancel(s) ==
    /\ "cancel" \in Faults
    /\ holder = s
    /\ ~call[s].force
    /\ strays' \in {strays, strays \cup Awaited(s)}
    /\ Finish(s, "err")
    /\ odd' = TRUE
    /\ UNCHANGED <<dir, current, loaded, up>>

LateRename(target) ==
    /\ target \in strays
    /\ switch_current(target)
    /\ strays' = strays \ {target}
    /\ late' = IF holder = Free THEN "before" ELSE "during"
    /\ odd' = TRUE
    /\ UNCHANGED <<dir, loaded, holder, call, up>>

(***************************************************************************)
(* The service dies, because recover failed or for another reason.         *)
(***************************************************************************)
Crash ==
    /\ "crash" \in Faults
    /\ up \/ holder # Free
    /\ call' = [s \in Calls |-> IF holder = s THEN Outside("err") ELSE call[s]]
    /\ holder' = Free
    /\ up' = FALSE
    /\ strays' = {}
    /\ late' = IF late = "during" THEN "before" ELSE late
    /\ odd' = TRUE
    /\ UNCHANGED <<dir, current, loaded>>

\* Every call has returned.
Done ==
    /\ \A s \in Calls : call[s].phase \in {"ok", "err"}
    /\ UNCHANGED birdVars

Next ==
    \/ \E s \in Calls, c \in Configs : Begin(s, c)
    \/ \E s \in Calls :
        \/ Layout(s) \/ Compare(s) \/ CreateGeneration(s) \/ WriteGeneration(s)
        \/ Switch(s) \/ Restore(s) \/ Cleanup(s) \/ IoError(s) \/ Cancel(s)
        \/ \E g \in Calls : RemoveGeneration(s, g)
        \/ \E ok \in BOOLEAN : Reload(s, ok) \/ ReloadSame(s, ok) \/ ReloadOld(s, ok)
    \/ \E target \in Gens \cup {NoLink} : LateRename(target)
    \/ Crash
    \/ Done

Spec == Init /\ [][Next]_birdVars

-----------------------------------------------------------------------------
(***************************************************************************)
(* `current` leads to a generation that is completely written and has not  *)
(* been removed, whatever fails and whenever the call is dropped: the      *)
(* order write, switch, reload, clean up of sync_bird_configs_for.  Only a *)
(* rename that a dropped call left to the blocking pool can break it, by   *)
(* leading to a generation that was removed meanwhile, and then only until *)
(* the next call that succeeds undisturbed: generation_matches takes the   *)
(* missing directory for a difference.                                     *)
(***************************************************************************)
CurrentIsComplete ==
    late = "never" /\ current # NoLink => dir[current] \in Configs

(***************************************************************************)
(* The forced sync of recover repairs every difference between the disk    *)
(* and BIRD that earlier crashes, timeouts and dropped calls have left.    *)
(***************************************************************************)
StartupLoads ==
    [][\A s \in Calls : holder = s /\ call[s].force /\ call'[s].phase = "ok" =>
         loaded' = call[s].want /\ Visible' = call[s].want]_birdVars

(***************************************************************************)
(* As long as all that goes wrong is that BIRD rejects generations, BIRD   *)
(* runs with what `current` shows whenever no sync is in progress (the     *)
(* restore of the prior symlink in sync_bird_configs_for), and after other *)
(* failures it does so again from the next reload that succeeds.           *)
(***************************************************************************)
InStep == holder = Free /\ ~odd => loaded = Visible

(***************************************************************************)
(* The README: the service "atomically switches `current`, and reloads     *)
(* BIRD one time" - a successful sync means that BIRD has loaded it.       *)
(***************************************************************************)
OkMeansLoaded ==
    [][\A s \in Calls : holder = s /\ call'[s].phase = "ok" =>
         loaded' = call[s].want]_birdVars

-----------------------------------------------------------------------------
(***************************************************************************)
(* The generations implement the register of BirdRegister, which is what   *)
(* PeerManager takes a sync for.  From the reading of the link to the end  *)
(* of the restore, what a call would go back to is what is under the link  *)
(* it has read, at other times it is what is visible anyway.               *)
(***************************************************************************)
Kept ==
    IF \E s \in Calls, phase \in {"switch", "reload", "restore", "reload_old"} : At(s, phase)
      THEN Under(call[holder].old) ELSE Visible

Answer(s) ==
    IF call[s].phase \in {"new", "ok", "err"} THEN call[s].phase ELSE "busy"

Register == INSTANCE BirdRegister WITH
    shown     <- Visible,
    kept      <- Kept,
    user      <- holder,
    answer    <- [s \in Calls |-> Answer(s)],
    want      <- IF holder = Free THEN Empty ELSE call[holder].want,
    disturbed <- late = "during"

(***************************************************************************)
(* A call of sync_bird_configs_for that answers success leaves what it was *)
(* asked for under `current`, one that fails leaves the old configuration, *)
(* the new one or, if the old link could not be read, none; BIRD never     *)
(* finds a part of a configuration.  PeerManager's SyncBird rests on this. *)
(***************************************************************************)
ActsAsRegister == Register!Spec

=============================================================================
