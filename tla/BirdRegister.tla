---------------------------- MODULE BirdRegister ----------------------------
(***************************************************************************)
(* What sync_bird_configs_for promises its callers: a register that holds  *)
(* the configuration BIRD can see.  A call replaces all of it at once; one *)
(* that answers success leaves what it was asked for; one that fails       *)
(* leaves what it found, what it was asked for or nothing, never a mixture *)
(* of two configurations and never that of an earlier call.  Nothing but a *)
(* call changes the register, except for the file system work that a       *)
(* dropped call has left to tokio's blocking pool (Stray).                 *)
(***************************************************************************)
CONSTANTS
    Calls,    \* calls of sync_bird_configs_for
    Configs,  \* configurations that can be asked for
    Empty,    \* the one with no peer
    Free      \* the user of a register that no call uses

VARIABLES
    shown,     \* what BIRD finds when it reads its configuration
    kept,      \* what a failing call would go back to
    user,      \* the call that uses the register
    answer,    \* each call: "new", "busy", "ok" or "err"
    want,      \* what the user was asked for
    disturbed  \* a stray write has hit the call that uses the register

registerVars == <<shown, kept, user, answer, want, disturbed>>

Init ==
    /\ shown = Empty
    /\ kept = Empty
    /\ user = Free
    /\ answer = [s \in Calls |-> "new"]
    /\ want = Empty
    /\ disturbed = FALSE

Start(s, c) ==
    /\ user = Free
    /\ answer[s] = "new"
    /\ user' = s
    /\ answer' = [answer EXCEPT ![s] = "busy"]
    /\ want' = c
    /\ UNCHANGED <<shown, kept, disturbed>>

\* The call remembers what it found, or that it could not find out.
Keep ==
    /\ user # Free
    /\ kept' \in {shown, Empty}
    /\ UNCHANGED <<shown, user, answer, want, disturbed>>

Write ==
    /\ user # Free
    /\ shown' = want
    /\ UNCHANGED <<kept, user, answer, want, disturbed>>

Undo ==
    /\ user # Free
    /\ shown' = kept
    /\ UNCHANGED <<kept, user, answer, want, disturbed>>

End(result) ==
    /\ answer' = [answer EXCEPT ![user] = result]
    /\ user' = Free
    /\ kept' = shown'
    /\ want' = Empty
    /\ disturbed' = FALSE

Succeed ==
    /\ user # Free
    /\ disturbed \/ shown = want
    /\ UNCHANGED shown
    /\ End("ok")

\* The last write of a call that fails may still be done.
GiveUp ==
    /\ user # Free
    /\ shown' \in {shown, kept, want}
    /\ End("err")

Stray ==
    /\ shown' \in Configs
    /\ kept' \in {kept, shown'}
    /\ disturbed' = (user # Free)
    /\ UNCHANGED <<user, answer, want>>

Next ==
    \/ \E s \in Calls, c \in Configs : Start(s, c)
    \/ Keep \/ Write \/ Undo \/ Succeed \/ GiveUp
    \/ Stray

Spec == Init /\ [][Next]_registerVars
=============================================================================
