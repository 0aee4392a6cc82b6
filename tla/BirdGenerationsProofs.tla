----------------------- MODULE BirdGenerationsProofs -----------------------
(***************************************************************************)
(* Proofs about BirdGenerations: its invariants, that the forced sync of   *)
(* recover repairs what went wrong before, and that it implements the      *)
(* register of BirdRegister, for any number of calls and configurations    *)
(* and any set of faults.                                                  *)
(***************************************************************************)
EXTENDS BirdGenerations, TLAPS

(***************************************************************************)
(* The inductive invariant.  The places a call can be at: before it has    *)
(* written its generation, from then until BIRD has accepted it or the     *)
(* link is switched back, and outside.                                     *)
(***************************************************************************)
Unwritten == {"new", "layout", "compare", "create", "write", "reload_same"}
Returning == {"switch", "reload", "restore", "reload_old"}
Idle == {"new", "ok", "err"}

\* The holder of bird_sync_lock is the one call in progress.  What a dropped
\* call leaves to the blocking pool does not outlive the process.
LockOK ==
    /\ \A s \in Calls :
         IF holder = s THEN call[s].phase \notin Idle /\ call[s].force = ~up
         ELSE call[s].phase \in Idle
    /\ holder = Free => late # "during"
    /\ ~up => strays = {} /\ late # "during"

\* Nothing leads to a generation before all of it is written.
LinksOK ==
    /\ dir[EmptyGen] \in {Absent, Empty}
    /\ \A s \in Calls : call[s].phase \in Unwritten =>
         s # current /\ s \notin strays /\ \A q \in Calls : call[q].old # s
    /\ \A s \in Calls : call[s].phase \in Returning \cup {"cleanup"} => dir[s] = call[s].want
    /\ \A g \in Gens : g = current \/ g \in strays => dir[g] # Partial
    /\ \A s \in Calls : call[s].phase \in Returning /\ call[s].old # NoLink =>
         /\ dir[call[s].old] # Partial
         /\ late = "never" => dir[call[s].old] \in Configs
    /\ CurrentIsComplete

\* What a call has achieved, unless a stray rename has hit it.
ProgressOK ==
    late # "during" => \A s \in Calls :
      /\ call[s].phase = "reload" => current = s
      /\ call[s].phase = "cleanup" => current = s /\ loaded = call[s].want
      /\ call[s].phase = "reload_same" => current # NoLink /\ dir[current] = call[s].want

\* InStep, and what holds in its place while the link leads to a generation
\* that BIRD has not accepted yet.
SyncOK ==
    ~odd => /\ (\A s \in Calls : call[s].phase \notin {"reload", "restore"}) => loaded = Visible
            /\ \A s \in Calls :
                 /\ call[s].phase \in Returning => loaded = Under(call[s].old)
                 /\ call[s].phase = "cleanup" => current = s

BirdInv == BirdTypeOK /\ LockOK /\ LinksOK /\ ProgressOK /\ SyncOK

-----------------------------------------------------------------------------
(***************************************************************************)
(* What a step does to the calls: s moves on and keeps its arguments, or   *)
(* returns and leaves the lock.                                            *)
(***************************************************************************)
Moves(s, p) ==
    /\ call' \in [Calls -> CallState]
    /\ call'[s].phase = p /\ call'[s].want = call[s].want
    /\ call'[s].force = call[s].force /\ call'[s].old = call[s].old
    /\ \A q \in Calls : q # s => call'[q] = call[q]

Returns(s, r) ==
    /\ call' \in [Calls -> CallState]
    /\ call'[s].phase = r /\ call'[s].old = NoLink
    /\ \A q \in Calls : q # s => call'[q] = call[q]
    /\ holder' = Free
    /\ late' \in {"never", "before"}
    /\ late' = "never" => late = "never" \/ (r = "ok" /\ late # "during")

LEMMA ToMoves ==
    ASSUME BirdTypeOK, NEW s \in Calls, NEW p \in CallPhases, To(s, p)
    PROVE  Moves(s, p)
BY DEF BirdTypeOK, To, Moves, CallState

LEMMA FinishReturns ==
    ASSUME BirdTypeOK, NEW s \in Calls, NEW r \in {"ok", "err"}, Finish(s, r)
    PROVE  Returns(s, r)
<1>1. Outside(r) \in CallState /\ Outside(r).phase = r /\ Outside(r).old = NoLink
  BY BirdAssumption DEF Outside, CallState, CallPhases
<1>2. call' = [call EXCEPT ![s] = Outside(r)]
  BY DEF Finish
<1>3. /\ call' \in [Calls -> CallState] /\ call'[s] = Outside(r)
      /\ \A q \in Calls : q # s => call'[q] = call[q]
  BY <1>1, <1>2 DEF BirdTypeOK
<1>4. /\ holder' = Free
      /\ late' \in {"never", "before"}
      /\ late' = "never" => late = "never" \/ (r = "ok" /\ late # "during")
  BY DEF Finish, BirdTypeOK
<1>. QED BY <1>1, <1>3, <1>4 DEF Returns

(***************************************************************************)
(* BIRD never finds a generation that is only partly written.              *)
(***************************************************************************)
LEMMA UnderIsConfig ==
    ASSUME BirdTypeOK, LinksOK, NEW g \in Gens \cup {NoLink}, g # NoLink => dir[g] # Partial
    PROVE  Under(g) \in Configs
BY BirdAssumption DEF BirdTypeOK, LinksOK, Under

LEMMA VisibleIsConfig ==
    ASSUME BirdTypeOK, LinksOK
    PROVE  Visible \in Configs
BY UnderIsConfig DEF BirdTypeOK, LinksOK, Visible

(***************************************************************************)
(* What a link may lead to without breaking LinksOK.                       *)
(***************************************************************************)
Linkable(g) ==
    dir[g] # Partial /\ \A q \in Calls : call[q].phase \in Unwritten => q # g

LEMMA OldLinks ==
    ASSUME BirdTypeOK, LinksOK
    PROVE  /\ \A g \in Gens : g = current \/ g \in strays => Linkable(g)
           /\ \A s \in Calls : call[s].phase \in Returning =>
                /\ Linkable(s)
                /\ call[s].old # NoLink => Linkable(call[s].old)
           /\ Linkable(EmptyGen)
<1>1. \A g \in Gens : g = current \/ g \in strays => Linkable(g)
  BY DEF LinksOK, Linkable
<1>2. ASSUME NEW s \in Calls, call[s].phase \in Returning
      PROVE  Linkable(s) /\ (call[s].old # NoLink => Linkable(call[s].old))
  <2>1. dir[s] = call[s].want /\ call[s].want \in Configs
    BY <1>2 DEF LinksOK, BirdTypeOK, CallState
  <2>2. Linkable(s)
    BY <1>2, <2>1, BirdAssumption DEF Linkable, Returning, Unwritten
  <2>. QED BY <1>2, <2>2 DEF Linkable, LinksOK
<1>3. Linkable(EmptyGen)
  BY BirdAssumption DEF LinksOK, Linkable
<1>. QED BY <1>1, <1>2, <1>3

(***************************************************************************)
(* A call that returns, or whose future is dropped, keeps the invariant if *)
(* it leaves the links in order and, unless something odd has happened,    *)
(* BIRD in step.                                                           *)
(***************************************************************************)
LEMMA ReturnStep ==
    ASSUME BirdInv, NEW s \in Calls, NEW r \in {"ok", "err"}, holder = s, Returns(s, r),
           BirdTypeOK', CurrentIsComplete', ~up' => strays' = {},
           dir' = dir \/ dir' = [dir EXCEPT ![EmptyGen] = Empty],
           \A g \in Gens : g = current' \/ g \in strays' => Linkable(g),
           odd' \/ loaded' = Visible'
    PROVE  BirdInv'
<1>1. \A q \in Calls : call'[q].phase \in Idle /\ (call'[q].phase \in Unwritten => q # s)
  BY DEF BirdInv, LockOK, Returns, Idle, Unwritten
<1>2. LockOK'
  BY <1>1, BirdAssumption DEF LockOK, Returns
<1>3. LinksOK'
  <2>1. dir'[EmptyGen] \in {Absent, Empty} /\ \A g \in Gens : dir[g] # Partial => dir'[g] # Partial
    BY BirdAssumption DEF BirdInv, LinksOK, BirdTypeOK, Gens
  <2>2. ASSUME NEW q \in Calls, call'[q].phase \in Unwritten
        PROVE  q # current' /\ q \notin strays' /\ \A t \in Calls : call'[t].old # q
    <3>1. q # s /\ call[q].phase \in Unwritten
      BY <1>1, <2>2 DEF Returns
    <3>2. q # current' /\ q \notin strays'
      BY <3>1 DEF Linkable, Gens
    <3>3. \A t \in Calls : call'[t].old # q
      BY <3>1, BirdAssumption DEF BirdInv, LinksOK, Returns
    <3>. QED BY <3>2, <3>3
  <2>3. \A g \in Gens : g = current' \/ g \in strays' => dir'[g] # Partial
    BY <2>1 DEF Linkable
  <2>. QED BY <1>1, <2>1, <2>2, <2>3 DEF LinksOK, Idle, Returning
<1>4. ProgressOK' /\ SyncOK'
  BY <1>1 DEF ProgressOK, SyncOK, Idle, Returning
<1>. QED BY <1>2, <1>3, <1>4 DEF BirdInv

(***************************************************************************)
(* The steps up to the comparison with the current generation.             *)
(***************************************************************************)
LEMMA BeginStep ==
    ASSUME BirdInv, NEW s \in Calls, NEW c \in Configs, Begin(s, c)
    PROVE  BirdInv'
<1>. USE DEF BirdInv
<1>1. /\ call[s].phase = "new" /\ holder = Free /\ holder' = s
      /\ UNCHANGED <<dir, current, loaded, up, strays, late, odd>>
  BY DEF Begin, history
<1>2. /\ call' \in [Calls -> CallState]
      /\ call'[s].phase = "layout" /\ call'[s].old = call[s].old /\ call'[s].force = ~up
      /\ \A q \in Calls : q # s => call'[q] = call[q]
  BY DEF Begin, BirdTypeOK, CallState, CallPhases
<1>3. BirdTypeOK'
  BY <1>1, <1>2 DEF BirdTypeOK
<1>4. LockOK'
  BY <1>1, <1>2, BirdAssumption DEF LockOK, Idle
<1>5. LinksOK'
  BY <1>1, <1>2 DEF LinksOK, Unwritten, Returning, CurrentIsComplete
<1>6. ProgressOK'
  BY <1>1, <1>2 DEF ProgressOK
<1>7. SyncOK'
  BY <1>1, <1>2 DEF SyncOK, Returning, Visible, Under
<1>. QED BY <1>3, <1>4, <1>5, <1>6, <1>7

LEMMA LayoutStep ==
    ASSUME BirdInv, NEW s \in Calls, Layout(s)
    PROVE  BirdInv'
<1>. USE DEF BirdInv
<1>1. /\ call[s].phase = "layout" /\ holder = s
      /\ dir' = [dir EXCEPT ![EmptyGen] = Empty]
      /\ current' = IF current = NoLink THEN EmptyGen ELSE current
      /\ UNCHANGED <<loaded, holder, up, strays, late, odd>>
  BY DEF Layout, At, history
<1>2. Moves(s, "compare")
  BY ToMoves DEF Layout, CallPhases
<1>3. BirdTypeOK'
  BY <1>1, <1>2, BirdAssumption DEF BirdTypeOK, Gens, Moves
<1>4. LockOK'
  BY <1>1, <1>2 DEF LockOK, Idle, Moves
<1>5. LinksOK'
  BY <1>1, <1>2, BirdAssumption
     DEF LinksOK, Unwritten, Returning, CurrentIsComplete, BirdTypeOK, Gens, Moves
<1>6. ProgressOK'
  BY <1>1, <1>2 DEF ProgressOK, Moves, LockOK, Idle
<1>7. Visible' = Visible
  BY <1>1, BirdAssumption DEF Visible, Under, BirdTypeOK, Gens, LinksOK
<1>8. SyncOK'
  BY <1>1, <1>2, <1>7 DEF SyncOK, Returning, Moves, LockOK, Idle
<1>. QED BY <1>3, <1>4, <1>5, <1>6, <1>8

LEMMA CompareStep ==
    ASSUME BirdInv, NEW s \in Calls, Compare(s)
    PROVE  BirdInv'
<1>. USE DEF BirdInv
<1>1. /\ call[s].phase = "compare" /\ holder = s
      /\ UNCHANGED <<dir, current, loaded, strays, odd>>
  BY DEF Compare, At
<1>2. ASSUME NEW p \in {"create", "reload_same"}, Moves(s, p), UNCHANGED <<holder, up, late>>,
             p = "reload_same" => current # NoLink /\ dir[current] = call[s].want
      PROVE  BirdInv'
  <2>1. BirdTypeOK'
    BY <1>1, <1>2 DEF BirdTypeOK, Moves
  <2>2. LockOK'
    BY <1>1, <1>2 DEF LockOK, Idle, Moves
  <2>3. LinksOK'
    BY <1>1, <1>2 DEF LinksOK, Unwritten, Returning, CurrentIsComplete, Moves
  <2>4. ProgressOK'
    BY <1>1, <1>2 DEF ProgressOK, Moves
  <2>5. SyncOK'
    BY <1>1, <1>2 DEF SyncOK, Returning, Moves, Visible, Under
  <2>. QED BY <2>1, <2>2, <2>3, <2>4, <2>5
<1>3. ASSUME current # NoLink, dir[current] = call[s].want, ~call[s].force,
             Finish(s, "ok"), Returned(s, TRUE)
      PROVE  BirdInv'
  <2>1. Returns(s, "ok")
    BY <1>3, FinishReturns
  <2>2. up /\ up' = up
    <3>1. up \in BOOLEAN /\ call[s].force = ~up
      BY <1>1 DEF LockOK, BirdTypeOK
    <3>. QED BY <1>3, <3>1 DEF Returned
  <2>3. BirdTypeOK'
    BY <1>1, <2>1, <2>2 DEF BirdTypeOK, Returns
  <2>4. CurrentIsComplete'
    BY <1>1, <1>3 DEF CurrentIsComplete, BirdTypeOK, CallState
  <2>5. odd' \/ loaded' = Visible'
    BY <1>1 DEF SyncOK, LockOK, Idle, Visible, Under
  <2>. QED BY <1>1, <2>1, <2>2, <2>3, <2>4, <2>5, OldLinks, ReturnStep
<1>4. ASSUME NEW p \in {"create", "reload_same"}, To(s, p)
      PROVE  Moves(s, p)
  BY <1>4, ToMoves DEF CallPhases
<1>. QED BY <1>2, <1>3, <1>4 DEF Compare

(***************************************************************************)
(* Writing the new generation and switching to it.                         *)
(***************************************************************************)
LEMMA CreateStep ==
    ASSUME BirdInv, NEW s \in Calls, CreateGeneration(s)
    PROVE  BirdInv'
<1>. USE DEF BirdInv
<1>1. /\ call[s].phase = "create" /\ holder = s
      /\ dir' = [dir EXCEPT ![s] = Partial]
      /\ UNCHANGED <<current, loaded, holder, up, strays, late, odd>>
  BY DEF CreateGeneration, At, history
<1>2. Moves(s, "write")
  BY ToMoves DEF CreateGeneration, CallPhases
<1>3. s # current /\ s \notin strays /\ s # EmptyGen
  BY <1>1, BirdAssumption DEF LinksOK, Unwritten
<1>4. \A q \in Calls : q # s => call[q].phase \in Idle
  BY <1>1 DEF LockOK
<1>5. BirdTypeOK'
  BY <1>1, <1>2 DEF BirdTypeOK, Moves
<1>6. LockOK'
  BY <1>1, <1>2 DEF LockOK, Idle, Moves
<1>7. LinksOK'
  BY <1>1, <1>2, <1>3, <1>4
     DEF LinksOK, Unwritten, Returning, Idle, CurrentIsComplete, BirdTypeOK, Gens, Moves
<1>8. ProgressOK'
  BY <1>2, <1>4 DEF ProgressOK, Moves, Idle
<1>9. Visible' = Visible
  BY <1>1, <1>3 DEF Visible, Under, BirdTypeOK, Gens
<1>10. SyncOK'
  BY <1>1, <1>2, <1>4, <1>9 DEF SyncOK, Returning, Moves, Idle
<1>. QED BY <1>5, <1>6, <1>7, <1>8, <1>10

LEMMA WriteStep ==
    ASSUME BirdInv, NEW s \in Calls, WriteGeneration(s)
    PROVE  BirdInv'
<1>. USE DEF BirdInv
<1>1. /\ call[s].phase = "write" /\ holder = s
      /\ dir' = [dir EXCEPT ![s] = call[s].want]
      /\ UNCHANGED <<current, loaded, holder, up, strays, late>>
  BY DEF WriteGeneration, At
<1>2. PICK old \in {current, NoLink} :
        /\ call' = [call EXCEPT ![s] = [@ EXCEPT !.phase = "switch", !.old = old]]
        /\ odd' = (odd \/ old # current)
  BY DEF WriteGeneration
<1>3. /\ call' \in [Calls -> CallState]
      /\ call'[s].phase = "switch" /\ call'[s].old = old
      /\ call'[s].want = call[s].want /\ call'[s].force = call[s].force
      /\ \A q \in Calls : q # s => call'[q] = call[q]
  BY <1>2 DEF BirdTypeOK, CallState, CallPhases
<1>4. s # current /\ s \notin strays /\ s # EmptyGen
  BY <1>1, BirdAssumption DEF LinksOK, Unwritten
<1>5. \A q \in Calls : q # s => call[q].phase \in Idle
  BY <1>1 DEF LockOK
<1>6. call[s].want \in Configs /\ call[s].want # Partial /\ call[s].want # Absent
  BY BirdAssumption DEF BirdTypeOK, CallState
<1>7. BirdTypeOK'
  <2>1. dir' \in [Gens -> Configs \cup {Absent, Partial}]
    BY <1>1, <1>6 DEF BirdTypeOK
  <2>2. odd' \in BOOLEAN
    BY <1>2
  <2>. QED BY <1>1, <1>3, <2>1, <2>2 DEF BirdTypeOK
<1>8. LockOK'
  BY <1>1, <1>3 DEF LockOK, Idle
<1>9. LinksOK'
  <2>1. dir'[s] = call[s].want /\ \A g \in Gens : g # s => dir'[g] = dir[g]
    BY <1>1 DEF BirdTypeOK, Gens
  <2>2. \A q \in Calls : call'[q].phase \in Unwritten =>
          q # current' /\ q \notin strays' /\ \A t \in Calls : call'[t].old # q
    BY <1>1, <1>2, <1>3, <1>5, BirdAssumption DEF LinksOK, Unwritten
  <2>3. \A q \in Calls : call'[q].phase \in Returning \cup {"cleanup"} => q = s
    BY <1>3, <1>5 DEF Returning, Idle
  <2>4. CurrentIsComplete'
    BY <1>1, <1>4, <2>1 DEF LinksOK, CurrentIsComplete, BirdTypeOK
  <2>5. old # NoLink => /\ dir'[old] # Partial
                        /\ late' = "never" => dir'[old] \in Configs
    BY <1>1, <1>2, <1>4, <2>1 DEF LinksOK, CurrentIsComplete, BirdTypeOK
  <2>6. /\ dir'[EmptyGen] \in {Absent, Empty}
        /\ \A g \in Gens : g = current' \/ g \in strays' => dir'[g] # Partial
    BY <1>1, <1>4, <1>6, <2>1 DEF LinksOK, Gens
  <2>. QED BY <1>3, <2>1, <2>2, <2>3, <2>4, <2>5, <2>6 DEF LinksOK, Returning
<1>10. ProgressOK'
  BY <1>3, <1>5 DEF ProgressOK, Idle
<1>11. Visible' = Visible
  BY <1>1, <1>4 DEF Visible, Under, BirdTypeOK, Gens
<1>12. SyncOK'
  <2>1. ASSUME ~odd' PROVE ~odd /\ old = current
    BY <1>2, <2>1
  <2>2. ~odd => loaded = Visible
    BY <1>1, <1>5 DEF SyncOK, Idle
  <2>3. old = current => Under(old)' = Visible'
    BY <1>1 DEF Visible, Under
  <2>. QED BY <1>1, <1>3, <1>5, <1>11, <2>1, <2>2, <2>3 DEF SyncOK, Returning, Idle, Under
<1>. QED BY <1>7, <1>8, <1>9, <1>10, <1>12

LEMMA SwitchStep ==
    ASSUME BirdInv, NEW s \in Calls, Switch(s)
    PROVE  BirdInv'
<1>. USE DEF BirdInv
<1>1. /\ call[s].phase = "switch" /\ holder = s /\ current' = s
      /\ UNCHANGED <<dir, loaded, holder, up, strays, late, odd>>
  BY DEF Switch, At, switch_current, history
<1>2. Moves(s, "reload")
  BY ToMoves DEF Switch, CallPhases
<1>3. \A q \in Calls : q # s => call[q].phase \in Idle
  BY <1>1 DEF LockOK
<1>4. dir[s] = call[s].want /\ call[s].want \in Configs /\ call[s].want # Partial
  BY <1>1, BirdAssumption DEF LinksOK, Returning, BirdTypeOK, CallState
<1>5. BirdTypeOK'
  BY <1>1, <1>2 DEF BirdTypeOK, Moves, Gens
<1>6. LockOK'
  BY <1>1, <1>2 DEF LockOK, Idle, Moves
<1>7. LinksOK'
  BY <1>1, <1>2, <1>3, <1>4 DEF LinksOK, Unwritten, Returning, Idle, CurrentIsComplete, Moves
<1>8. ProgressOK'
  BY <1>1, <1>2, <1>3 DEF ProgressOK, Moves, Idle
<1>9. SyncOK'
  BY <1>1, <1>2, <1>3 DEF SyncOK, Returning, Moves, Idle, Under
<1>. QED BY <1>5, <1>6, <1>7, <1>8, <1>9

(***************************************************************************)
(* The outcomes of reload_bird.                                            *)
(***************************************************************************)
LEMMA ReloadOutcome ==
    ASSUME BirdInv, NEW ok \in BOOLEAN, reload_bird(ok)
    PROVE  /\ loaded' \in Configs /\ odd' \in BOOLEAN
           /\ ok => loaded' = Visible /\ (~odd' => late # "during")
           /\ ~ok /\ ~odd' => ~odd /\ loaded' = loaded
<1>1. Visible \in Configs /\ loaded \in Configs /\ odd \in BOOLEAN
  BY VisibleIsConfig DEF BirdInv, BirdTypeOK
<1>2. CASE ok
  <2>1. loaded' = Visible /\ odd' = (late = "during")
    BY <1>2 DEF reload_bird
  <2>. QED BY <1>1, <1>2, <2>1
<1>3. CASE ~ok
  <2>1. \/ loaded' = loaded /\ odd' = odd
        \/ loaded' \in {loaded, Visible} /\ odd' = TRUE
    BY <1>3 DEF reload_bird
  <2>. QED BY <1>1, <1>3, <2>1
<1>. QED BY <1>2, <1>3

LEMMA ReloadStep ==
    ASSUME BirdInv, NEW s \in Calls, NEW ok \in BOOLEAN, Reload(s, ok)
    PROVE  BirdInv'
<1>. USE DEF BirdInv
<1>1. /\ call[s].phase = "reload" /\ holder = s
      /\ UNCHANGED <<dir, current, holder, up, strays, late>>
  BY DEF Reload, At
<1>2. Moves(s, IF ok THEN "cleanup" ELSE "restore")
  BY ToMoves DEF Reload, CallPhases
<1>3. \A q \in Calls : q # s => call[q].phase \in Idle
  BY <1>1 DEF LockOK
<1>4. dir[s] = call[s].want /\ call[s].want \in Configs /\ call[s].want # Absent
  BY <1>1, BirdAssumption DEF LinksOK, Returning, BirdTypeOK, CallState
<1>5. /\ loaded' \in Configs /\ odd' \in BOOLEAN
      /\ ok => loaded' = Visible /\ (~odd' => late # "during")
      /\ ~ok /\ ~odd' => ~odd /\ loaded' = loaded
  BY ReloadOutcome DEF Reload
<1>6. late # "during" => current = s /\ Visible = call[s].want
  <2>1. late # "during" => current = s
    BY <1>1 DEF ProgressOK
  <2>. QED BY <1>4, <2>1, BirdAssumption DEF Visible, Under
<1>7. BirdTypeOK'
  BY <1>1, <1>2, <1>5 DEF BirdTypeOK, Moves
<1>8. LockOK'
  BY <1>1, <1>2 DEF LockOK, Idle, Moves
<1>9. LinksOK'
  BY <1>1, <1>2 DEF LinksOK, Unwritten, Returning, CurrentIsComplete, Moves
<1>10. ProgressOK'
  BY <1>1, <1>2, <1>3, <1>5, <1>6 DEF ProgressOK, Moves, Idle
<1>11. SyncOK'
  <2>1. CASE ok
    <3>1. ~odd' => current = s /\ loaded' = Visible'
      BY <1>1, <1>5, <1>6, <2>1 DEF Visible, Under
    <3>. QED BY <1>1, <1>2, <1>3, <2>1, <3>1 DEF SyncOK, Returning, Moves, Idle
  <2>2. CASE ~ok
    <3>1. ~odd' => loaded' = Under(call[s].old)
      BY <1>1, <1>5, <2>2 DEF SyncOK, Returning
    <3>. QED BY <1>1, <1>2, <1>3, <2>2, <3>1 DEF SyncOK, Returning, Moves, Idle, Under
  <2>. QED BY <2>1, <2>2
<1>. QED BY <1>7, <1>8, <1>9, <1>10, <1>11

(***************************************************************************)
(* Returning after BIRD has answered.                                      *)
(***************************************************************************)
LEMMA ReturnedUp ==
    ASSUME BirdInv, NEW s \in Calls, NEW ok \in BOOLEAN, Returned(s, ok), strays' = strays
    PROVE  up' \in BOOLEAN /\ (~up' => strays' = {})
<1>1. up' = (up \/ (ok /\ call[s].force))
  BY DEF Returned
<1>2. ~up => strays = {}
  BY DEF BirdInv, LockOK
<1>3. up \in BOOLEAN
  BY DEF BirdInv, BirdTypeOK
<1>. QED BY <1>1, <1>2, <1>3

LEMMA ReloadSameStep ==
    ASSUME BirdInv, NEW s \in Calls, NEW ok \in BOOLEAN, ReloadSame(s, ok)
    PROVE  BirdInv'
<1>. USE DEF BirdInv
<1>. DEFINE r == IF ok THEN "ok" ELSE "err"
<1>1. /\ call[s].phase = "reload_same" /\ holder = s
      /\ UNCHANGED <<dir, current, strays>>
  BY DEF ReloadSame, At
<1>2. Returns(s, r) /\ r \in {"ok", "err"}
  BY FinishReturns DEF ReloadSame
<1>3. up' \in BOOLEAN /\ (~up' => strays' = {})
  BY <1>1, ReturnedUp DEF ReloadSame
<1>4. /\ loaded' \in Configs /\ odd' \in BOOLEAN
      /\ ok => loaded' = Visible /\ (~odd' => late # "during")
      /\ ~ok /\ ~odd' => ~odd /\ loaded' = loaded
  BY ReloadOutcome DEF ReloadSame
<1>5. BirdTypeOK'
  BY <1>1, <1>2, <1>3, <1>4 DEF BirdTypeOK, Returns
<1>6. CurrentIsComplete'
  <2>1. late # "during" => current # NoLink /\ dir[current] = call[s].want
    BY <1>1 DEF ProgressOK
  <2>2. call[s].want \in Configs
    BY DEF BirdTypeOK, CallState
  <2>. QED BY <1>1, <1>2, <2>1, <2>2 DEF CurrentIsComplete, Returns, LinksOK
<1>7. ~odd => loaded = Visible
  BY <1>1 DEF SyncOK, LockOK, Idle
<1>8. odd' \/ loaded' = Visible'
  BY <1>1, <1>4, <1>7 DEF Visible, Under
<1>. HIDE DEF r
<1>. QED BY <1>1, <1>2, <1>3, <1>5, <1>6, <1>8, OldLinks, ReturnStep

LEMMA RestoreStep ==
    ASSUME BirdInv, NEW s \in Calls, Restore(s)
    PROVE  BirdInv'
<1>. USE DEF BirdInv
<1>1. /\ call[s].phase = "restore" /\ holder = s /\ current' = call[s].old
      /\ UNCHANGED <<dir, loaded, holder, up, strays, late, odd>>
  BY DEF Restore, At, switch_current, history
<1>2. Moves(s, "reload_old")
  BY ToMoves DEF Restore, CallPhases
<1>3. \A q \in Calls : q # s => call[q].phase \in Idle
  BY <1>1 DEF LockOK
<1>4. BirdTypeOK'
  BY <1>1, <1>2 DEF BirdTypeOK, Moves, CallState
<1>5. LockOK'
  BY <1>1, <1>2 DEF LockOK, Idle, Moves
<1>6. LinksOK'
  BY <1>1, <1>2, <1>3, BirdAssumption
     DEF LinksOK, Unwritten, Returning, Idle, CurrentIsComplete, Moves, Gens
<1>7. ProgressOK'
  BY <1>1, <1>2, <1>3 DEF ProgressOK, Moves, Idle
<1>8. ~odd => loaded = Under(call[s].old)
  BY <1>1 DEF SyncOK, Returning
<1>9. SyncOK'
  BY <1>1, <1>2, <1>3, <1>8 DEF SyncOK, Returning, Moves, Idle, Visible, Under
<1>. QED BY <1>4, <1>5, <1>6, <1>7, <1>9

LEMMA ReloadOldStep ==
    ASSUME BirdInv, NEW s \in Calls, NEW ok \in BOOLEAN, ReloadOld(s, ok)
    PROVE  BirdInv'
<1>. USE DEF BirdInv
<1>1. /\ call[s].phase = "reload_old" /\ holder = s
      /\ UNCHANGED <<dir, current, up, strays>>
  BY DEF ReloadOld, At
<1>2. Returns(s, "err")
  BY FinishReturns DEF ReloadOld
<1>3. ~up' => strays' = {}
  BY <1>1 DEF LockOK
<1>4. /\ loaded' \in Configs /\ odd' \in BOOLEAN
      /\ ok => loaded' = Visible
      /\ ~ok /\ ~odd' => ~odd /\ loaded' = loaded
  BY ReloadOutcome DEF ReloadOld
<1>5. BirdTypeOK'
  BY <1>1, <1>2, <1>4 DEF BirdTypeOK, Returns
<1>6. CurrentIsComplete'
  BY <1>1, <1>2 DEF CurrentIsComplete, Returns, LinksOK
<1>7. ~odd => loaded = Visible
  BY <1>1 DEF SyncOK, LockOK, Idle
<1>8. odd' \/ loaded' = Visible'
  BY <1>1, <1>4, <1>7 DEF Visible, Under
<1>. QED BY <1>1, <1>2, <1>3, <1>5, <1>6, <1>8, OldLinks, ReturnStep

(***************************************************************************)
(* Removing old generations: unless a stray rename has hit the call, the   *)
(* link leads to its own generation, which is not removed.                 *)
(***************************************************************************)
LEMMA RemoveStep ==
    ASSUME BirdInv, NEW s \in Calls, NEW g \in Calls, RemoveGeneration(s, g)
    PROVE  BirdInv'
<1>. USE DEF BirdInv
<1>1. /\ call[s].phase = "cleanup" /\ holder = s /\ g # s /\ g # EmptyGen
      /\ dir' = [dir EXCEPT ![g] = Absent]
      /\ UNCHANGED <<current, loaded, holder, call, up, strays, late, odd>>
  BY BirdAssumption DEF RemoveGeneration, At, history
<1>2. \A q \in Calls : q # s => call[q].phase \in Idle
  BY <1>1 DEF LockOK
<1>3. /\ dir' \in [Gens -> Configs \cup {Absent, Partial}]
      /\ dir'[g] = Absent /\ \A h \in Gens : h # g => dir'[h] = dir[h]
  BY <1>1 DEF BirdTypeOK, Gens
<1>4. late # "during" => current = s
  BY <1>1 DEF ProgressOK
<1>5. BirdTypeOK'
  BY <1>1, <1>3 DEF BirdTypeOK
<1>6. LockOK'
  BY <1>1 DEF LockOK
<1>7. LinksOK'
  <2>1. CurrentIsComplete'
    BY <1>1, <1>3, <1>4 DEF LinksOK, CurrentIsComplete, BirdTypeOK, Gens
  <2>2. \A h \in Gens : dir[h] # Partial => dir'[h] # Partial
    BY <1>3, BirdAssumption
  <2>3. \A q \in Calls : call'[q].phase \in Returning \cup {"cleanup"} => q = s
    BY <1>1, <1>2 DEF Returning, Idle
  <2>. QED BY <1>1, <1>3, <2>1, <2>2, <2>3 DEF LinksOK, Returning, Gens
<1>8. ProgressOK'
  BY <1>1, <1>2 DEF ProgressOK, Idle
<1>9. ~odd => Visible' = Visible
  <2>1. ~odd => current = s
    BY <1>1 DEF SyncOK
  <2>. QED BY <1>1, <1>3, <2>1 DEF Visible, Under, Gens
<1>10. SyncOK'
  BY <1>1, <1>2, <1>9 DEF SyncOK, Returning, Idle
<1>. QED BY <1>5, <1>6, <1>7, <1>8, <1>10

LEMMA CleanupStep ==
    ASSUME BirdInv, NEW s \in Calls, Cleanup(s)
    PROVE  BirdInv'
<1>. USE DEF BirdInv
<1>1. /\ call[s].phase = "cleanup" /\ holder = s
      /\ UNCHANGED <<dir, current, loaded, strays, odd>>
  BY DEF Cleanup, At
<1>2. Returns(s, "ok")
  BY FinishReturns DEF Cleanup
<1>3. up' \in BOOLEAN /\ (~up' => strays' = {})
  BY <1>1, ReturnedUp DEF Cleanup
<1>4. BirdTypeOK'
  BY <1>1, <1>2, <1>3 DEF BirdTypeOK, Returns
<1>5. CurrentIsComplete'
  <2>1. late # "during" => current = s
    BY <1>1 DEF ProgressOK
  <2>2. dir[s] = call[s].want /\ call[s].want \in Configs
    BY <1>1 DEF LinksOK, BirdTypeOK, CallState
  <2>. QED BY <1>1, <1>2, <2>1, <2>2 DEF CurrentIsComplete, Returns, LinksOK
<1>6. odd' \/ loaded' = Visible'
  BY <1>1 DEF SyncOK, LockOK, Idle, Visible, Under
<1>. QED BY <1>1, <1>2, <1>3, <1>4, <1>5, <1>6, OldLinks, ReturnStep

(***************************************************************************)
(* What goes wrong: an error of the file system, a dropped call, a rename  *)
(* that it left behind, the end of the process.                            *)
(***************************************************************************)
LEMMA IoErrorStep ==
    ASSUME BirdInv, NEW s \in Calls, IoError(s)
    PROVE  BirdInv'
<1>. USE DEF BirdInv
<1>1. holder = s /\ odd' = TRUE /\ UNCHANGED <<loaded, up, strays>>
  BY DEF IoError, At
<1>2. Returns(s, "err")
  BY FinishReturns DEF IoError
<1>3. ~up' => strays' = {}
  BY <1>1 DEF LockOK
<1>4. \/ UNCHANGED <<dir, current>>
      \/ /\ current = NoLink
         /\ dir' = [dir EXCEPT ![EmptyGen] = Empty] /\ current' \in {current, EmptyGen}
      \/ call[s].phase = "switch" /\ current' = s /\ dir' = dir
      \/ call[s].phase = "restore" /\ current' = call[s].old /\ dir' = dir
  BY DEF IoError, At, switch_current
<1>5. call[s].old \in Gens \cup {NoLink} /\ call[s].want \in Configs
  BY DEF BirdTypeOK, CallState
<1>6. /\ dir' \in [Gens -> Configs \cup {Absent, Partial}]
      /\ current' \in Gens \cup {NoLink}
  BY <1>4, <1>5, BirdAssumption DEF BirdTypeOK, Gens
<1>7. BirdTypeOK'
  BY <1>1, <1>2, <1>6 DEF BirdTypeOK, Returns
<1>8. late' = "never" => late = "never"
  BY <1>2 DEF Returns
<1>9. CurrentIsComplete'
  BY <1>4, <1>5, <1>8, BirdAssumption
     DEF CurrentIsComplete, LinksOK, Returning, BirdTypeOK, Gens
<1>10. \A g \in Gens : g = current' \/ g \in strays' => Linkable(g)
  BY <1>1, <1>4, OldLinks, BirdAssumption DEF Returning, Gens
<1>11. dir' = dir \/ dir' = [dir EXCEPT ![EmptyGen] = Empty]
  BY <1>4
<1>. QED BY <1>1, <1>2, <1>3, <1>7, <1>9, <1>10, <1>11, ReturnStep

LEMMA CancelStep ==
    ASSUME BirdInv, NEW s \in Calls, Cancel(s)
    PROVE  BirdInv'
<1>. USE DEF BirdInv
<1>1. holder = s /\ odd' = TRUE /\ UNCHANGED <<dir, current, loaded, up>>
  BY DEF Cancel
<1>2. Returns(s, "err")
  BY FinishReturns DEF Cancel
<1>3. up
  <2>1. ~call[s].force
    BY DEF Cancel
  <2>2. up \in BOOLEAN /\ call[s].force = ~up
    BY <1>1 DEF LockOK, BirdTypeOK
  <2>. QED BY <2>1, <2>2
<1>4. ~up' => strays' = {}
  BY <1>1, <1>3
<1>5. ASSUME NEW g \in Awaited(s)
      PROVE  g \in Gens \cup {NoLink} /\ (g # NoLink => Linkable(g))
  <2>1. \/ g = EmptyGen
        \/ call[s].phase = "switch" /\ g = s
        \/ call[s].phase = "restore" /\ g = call[s].old
    BY <1>5 DEF Awaited, At
  <2>2. call[s].old \in Gens \cup {NoLink}
    BY DEF BirdTypeOK, CallState
  <2>. QED BY <2>1, <2>2, OldLinks DEF Returning, Gens
<1>6. strays' = strays \/ strays' = strays \cup Awaited(s)
  BY DEF Cancel
<1>7. BirdTypeOK'
  BY <1>1, <1>2, <1>5, <1>6 DEF BirdTypeOK, Returns
<1>8. CurrentIsComplete'
  BY <1>1, <1>2 DEF CurrentIsComplete, LinksOK, Returns
<1>9. \A g \in Gens : g = current' \/ g \in strays' => Linkable(g)
  BY <1>1, <1>5, <1>6, OldLinks, BirdAssumption DEF Gens
<1>. QED BY <1>1, <1>2, <1>4, <1>7, <1>8, <1>9, ReturnStep

LEMMA LateRenameStep ==
    ASSUME BirdInv, NEW target \in Gens \cup {NoLink}, LateRename(target)
    PROVE  BirdInv'
<1>. USE DEF BirdInv
<1>1. /\ target \in strays /\ current' = target /\ strays' = strays \ {target}
      /\ odd' = TRUE /\ UNCHANGED <<dir, loaded, holder, call, up>>
      /\ late' = IF holder = Free THEN "before" ELSE "during"
  BY DEF LateRename, switch_current
<1>2. up
  BY <1>1 DEF LockOK
<1>3. BirdTypeOK'
  BY <1>1 DEF BirdTypeOK
<1>4. LockOK'
  BY <1>1, <1>2 DEF LockOK
<1>5. LinksOK'
  BY <1>1 DEF LinksOK, CurrentIsComplete
<1>6. ProgressOK'
  <2>1. CASE holder = Free
    <3>1. \A q \in Calls : call'[q].phase \in Idle
      BY <1>1, <2>1, BirdAssumption DEF LockOK
    <3>. QED BY <3>1 DEF ProgressOK, Idle
  <2>2. CASE holder # Free
    BY <1>1, <2>2 DEF ProgressOK
  <2>. QED BY <2>1, <2>2
<1>7. SyncOK'
  BY <1>1 DEF SyncOK
<1>. QED BY <1>3, <1>4, <1>5, <1>6, <1>7

LEMMA CrashStep ==
    ASSUME BirdInv, Crash
    PROVE  BirdInv'
<1>. USE DEF BirdInv
<1>1. /\ call' = [s \in Calls |-> IF holder = s THEN Outside("err") ELSE call[s]]
      /\ holder' = Free /\ up' = FALSE /\ strays' = {} /\ odd' = TRUE
      /\ late' = (IF late = "during" THEN "before" ELSE late)
      /\ UNCHANGED <<dir, current, loaded>>
  BY DEF Crash
<1>2. Outside("err") \in CallState /\ Outside("err").phase = "err" /\ Outside("err").old = NoLink
  BY BirdAssumption DEF Outside, CallState, CallPhases
<1>3. BirdTypeOK'
  BY <1>1, <1>2 DEF BirdTypeOK
<1>4. \A q \in Calls :
        call'[q].phase \in Idle /\ (call'[q].phase \in Unwritten => call'[q] = call[q])
  BY <1>1, <1>2 DEF LockOK, Idle, Unwritten
<1>5. LockOK'
  BY <1>1, <1>4, BirdAssumption DEF LockOK
<1>6. LinksOK'
  <2>1. \A q, t \in Calls : call'[q].phase \in Unwritten => call'[t].old # q
    BY <1>1, <1>2, <1>4, BirdAssumption DEF LinksOK
  <2>2. CurrentIsComplete'
    BY <1>1 DEF LinksOK, CurrentIsComplete
  <2>. QED BY <1>1, <1>4, <2>1, <2>2 DEF LinksOK, Idle, Returning
<1>7. ProgressOK' /\ SyncOK'
  BY <1>1, <1>4 DEF ProgressOK, SyncOK, Idle
<1>. QED BY <1>3, <1>5, <1>6, <1>7

-----------------------------------------------------------------------------
LEMMA BirdInit ==
    Init => BirdInv
<1>. SUFFICES ASSUME Init PROVE BirdInv
  OBVIOUS
<1>1. Outside("new") \in CallState /\ Outside("new").phase = "new" /\ Outside("new").old = NoLink
  BY BirdAssumption DEF Outside, CallState, CallPhases
<1>2. BirdTypeOK
  BY <1>1, BirdAssumption DEF Init, BirdTypeOK
<1>3. LockOK
  BY <1>1, BirdAssumption DEF Init, LockOK, Idle
<1>4. LinksOK
  BY <1>1, BirdAssumption DEF Init, LinksOK, Returning, CurrentIsComplete, Gens
<1>5. ProgressOK /\ SyncOK
  BY <1>1 DEF Init, ProgressOK, SyncOK, Returning, Visible, Under
<1>. QED BY <1>2, <1>3, <1>4, <1>5 DEF BirdInv

LEMMA BirdStep ==
    BirdInv /\ [Next]_birdVars => BirdInv'
<1>. SUFFICES ASSUME BirdInv, [Next]_birdVars PROVE BirdInv'
  OBVIOUS
<1>1. CASE UNCHANGED birdVars
  BY <1>1 DEF birdVars, BirdInv, BirdTypeOK, LockOK, LinksOK, ProgressOK, SyncOK,
              CurrentIsComplete, Visible, Under
<1>2. Done => UNCHANGED birdVars
  BY DEF Done
<1>. QED
  BY <1>1, <1>2, BeginStep, LayoutStep, CompareStep, CreateStep, WriteStep, SwitchStep,
     ReloadStep, ReloadSameStep, RestoreStep, ReloadOldStep, RemoveStep, CleanupStep,
     IoErrorStep, CancelStep, LateRenameStep, CrashStep DEF Next

LEMMA BirdInvariant ==
    Spec => []BirdInv
BY BirdInit, BirdStep, PTL DEF Spec

(***************************************************************************)
(* Every variable keeps its type; BIRD never runs with a part of a         *)
(* generation.                                                             *)
(***************************************************************************)
THEOREM BirdTypes ==
    Spec => []BirdTypeOK
<1>1. BirdInv => BirdTypeOK
  BY DEF BirdInv
<1>. QED BY <1>1, BirdInvariant, PTL

(***************************************************************************)
(* `current` leads to a complete generation, unless a stray rename has     *)
(* been done since the last call that succeeded undisturbed.               *)
(***************************************************************************)
THEOREM CurrentComplete ==
    Spec => []CurrentIsComplete
<1>1. BirdInv => CurrentIsComplete
  BY DEF BirdInv, LinksOK
<1>. QED BY <1>1, BirdInvariant, PTL

(***************************************************************************)
(* BIRD runs with what is on disk whenever no sync is in progress and only *)
(* rejections have gone wrong since BIRD last accepted a configuration.    *)
(***************************************************************************)
THEOREM BirdInStep ==
    Spec => []InStep
<1>1. BirdInv => InStep
  <2>. SUFFICES ASSUME BirdInv, holder = Free, ~odd PROVE loaded = Visible
    BY DEF InStep
  <2>1. \A s \in Calls : call[s].phase \in Idle
    BY BirdAssumption DEF BirdInv, LockOK
  <2>. QED BY <2>1 DEF BirdInv, SyncOK, Idle
<1>. QED BY <1>1, BirdInvariant, PTL

(***************************************************************************)
(* The forced sync of recover, when it succeeds, leaves BIRD and the disk  *)
(* with what it was asked for, whatever happened before it.                *)
(***************************************************************************)
THEOREM RecoverLoads ==
    Spec => StartupLoads
<1>1. ASSUME BirdInv, [Next]_birdVars, NEW s \in Calls,
             holder = s, call[s].force, call'[s].phase = "ok"
      PROVE  loaded' = call[s].want /\ Visible' = call[s].want
  <2>. USE DEF BirdInv
  <2>1. call[s].phase \notin Idle /\ late # "during"
    <3>1. call[s].phase \notin Idle /\ call[s].force = ~up /\ up \in BOOLEAN
      BY <1>1 DEF LockOK, BirdTypeOK
    <3>2. ~up
      BY <1>1, <3>1
    <3>. QED BY <1>1, <3>1, <3>2 DEF LockOK
  <2>2. call[s].want \in Configs /\ call[s].want # Absent
    BY <1>1, BirdAssumption DEF BirdTypeOK, CallState
  <2>3. ASSUME Cleanup(s)
        PROVE  loaded' = call[s].want /\ Visible' = call[s].want
    <3>1. call[s].phase = "cleanup" /\ UNCHANGED <<dir, current, loaded>>
      BY <2>3 DEF Cleanup, At
    <3>2. current = s /\ loaded = call[s].want /\ dir[s] = call[s].want
      BY <1>1, <2>1, <3>1 DEF ProgressOK, LinksOK
    <3>. QED BY <2>2, <3>1, <3>2, BirdAssumption DEF Visible, Under
  <2>4. ASSUME ReloadSame(s, TRUE)
        PROVE  loaded' = call[s].want /\ Visible' = call[s].want
    <3>1. /\ call[s].phase = "reload_same" /\ UNCHANGED <<dir, current>>
          /\ loaded' = Visible
      BY <2>4 DEF ReloadSame, At, reload_bird
    <3>2. current # NoLink /\ dir[current] = call[s].want
      BY <1>1, <2>1, <3>1 DEF ProgressOK
    <3>. QED BY <2>2, <3>1, <3>2 DEF Visible, Under
  <2>5. ASSUME NEW p, Moves(s, p)
        PROVE  p = "ok"
    BY <1>1, <2>5 DEF Moves
  <2>6. ASSUME NEW r, Returns(s, r)
        PROVE  r = "ok"
    BY <1>1, <2>6 DEF Returns
  <2>7. \E q \in Calls :
          \/ \E c \in Configs : Begin(q, c)
          \/ Layout(q) \/ Compare(q) \/ CreateGeneration(q) \/ WriteGeneration(q)
          \/ Switch(q) \/ Restore(q) \/ Cleanup(q) \/ IoError(q) \/ Cancel(q)
          \/ \E g \in Calls : RemoveGeneration(q, g)
          \/ \E ok \in BOOLEAN : Reload(q, ok) \/ ReloadSame(q, ok) \/ ReloadOld(q, ok)
    <3>1. ~Crash
      BY <1>1 DEF Crash, Outside
    <3>2. call' # call
      BY <1>1, <2>1 DEF Idle
    <3>. QED BY <1>1, <3>1, <3>2 DEF Next, birdVars, LateRename, Done
  <2>8. ASSUME NEW q \in Calls, q # s
        PROVE  /\ \A c \in Configs : ~Begin(q, c)
               /\ ~Layout(q) /\ ~Compare(q) /\ ~CreateGeneration(q) /\ ~WriteGeneration(q)
               /\ ~Switch(q) /\ ~Restore(q) /\ ~Cleanup(q) /\ ~IoError(q) /\ ~Cancel(q)
               /\ \A g \in Calls : ~RemoveGeneration(q, g)
               /\ \A ok \in BOOLEAN : ~Reload(q, ok) /\ ~ReloadSame(q, ok) /\ ~ReloadOld(q, ok)
    BY <1>1, <2>8, BirdAssumption
       DEF Begin, Layout, Compare, CreateGeneration, WriteGeneration, Switch, Restore, Cleanup,
           IoError, Cancel, RemoveGeneration, Reload, ReloadSame, ReloadOld, At
  <2>9. /\ \A c \in Configs : ~Begin(s, c)
        /\ \A g \in Calls : ~RemoveGeneration(s, g)
    BY <1>1, <2>1, BirdAssumption DEF Begin, RemoveGeneration, Idle
  <2>10. /\ ~Layout(s) /\ ~CreateGeneration(s) /\ ~Switch(s) /\ ~Restore(s)
         /\ \A ok \in BOOLEAN : ~Reload(s, ok)
    <3>1. \A p \in CallPhases : To(s, p) => p = "ok"
      BY <1>1, <2>5, ToMoves
    <3>. QED BY <3>1 DEF Layout, CreateGeneration, Switch, Restore, Reload, CallPhases
  <2>11. /\ ~IoError(s) /\ ~Cancel(s) /\ \A ok \in BOOLEAN : ~ReloadOld(s, ok)
         /\ ~ReloadSame(s, FALSE)
    <3>1. ~Finish(s, "err")
      BY <1>1, <2>6, FinishReturns
    <3>. QED BY <3>1 DEF IoError, Cancel, ReloadOld, ReloadSame
  <2>12. ~Compare(s)
    <3>1. ~To(s, "reload_same") /\ ~To(s, "create")
      BY <1>1, <2>5, ToMoves DEF CallPhases
    <3>. QED BY <1>1, <3>1 DEF Compare
  <2>13. ~WriteGeneration(s)
    <3>1. ASSUME WriteGeneration(s) PROVE call'[s].phase = "switch"
      BY <1>1, <3>1 DEF WriteGeneration, BirdTypeOK, CallState
    <3>. QED BY <1>1, <3>1
  <2>. QED BY <2>3, <2>4, <2>7, <2>8, <2>9, <2>10, <2>11, <2>12, <2>13
<1>2. BirdInv /\ [Next]_birdVars =>
        [\A s \in Calls : holder = s /\ call[s].force /\ call'[s].phase = "ok" =>
           loaded' = call[s].want /\ Visible' = call[s].want]_birdVars
  BY <1>1
<1>. QED BY <1>2, BirdInvariant, PTL DEF Spec, StartupLoads

-----------------------------------------------------------------------------
(***************************************************************************)
(* The refinement of BirdRegister.  What the register keeps depends on the *)
(* place of the call that holds the lock.                                  *)
(***************************************************************************)
Answers == [s \in Calls |-> Answer(s)]
Wanted == IF holder = Free THEN Empty ELSE call[holder].want

KeptOK ==
    /\ holder = Free => Kept = Visible
    /\ \A s \in Calls : holder = s =>
         Kept = IF call[s].phase \in Returning THEN Under(call[s].old) ELSE Visible

LEMMA KeptIs ==
    KeptOK
<1>1. holder = Free => Kept = Visible
  BY BirdAssumption DEF Kept, At
<1>2. ASSUME NEW s \in Calls, holder = s, call[s].phase \in Returning
      PROVE  Kept = Under(call[s].old)
  BY <1>2 DEF Kept, At, Returning
<1>3. ASSUME NEW s \in Calls, holder = s, call[s].phase \notin Returning
      PROVE  Kept = Visible
  BY <1>3 DEF Kept, At, Returning
<1>. QED BY <1>1, <1>2, <1>3 DEF KeptOK

LEMMA KeptIsNext ==
    KeptOK'
BY KeptIs, PTL

(***************************************************************************)
(* A call that moves on has not answered yet; one that returns has.        *)
(***************************************************************************)
LEMMA MovesUnanswered ==
    ASSUME BirdInv, NEW s \in Calls, holder = s, holder' = s,
           NEW p, p \notin Idle, Moves(s, p)
    PROVE  Answers' = Answers /\ Wanted' = Wanted
<1>1. call[s].phase \notin Idle
  BY DEF BirdInv, LockOK
<1>2. \A q \in Calls : Answer(q)' = Answer(q)
  BY <1>1 DEF Answer, Moves, Idle
<1>. QED BY <1>2 DEF Answers, Wanted, Moves

LEMMA ReturnsEnd ==
    ASSUME BirdInv, NEW s \in Calls, holder = s,
           NEW r \in {"ok", "err"}, Returns(s, r)
    PROVE  Register!End(r)
<1>1. holder' = Free /\ Kept' = Visible'
  BY KeptIsNext DEF KeptOK, Returns
<1>2. \A q \in Calls : Answer(q)' = IF q = s THEN r ELSE Answer(q)
  BY DEF Answer, Returns
<1>3. Answers' = [Answers EXCEPT ![holder] = r]
  BY <1>2 DEF Answers
<1>4. (late = "during")' = FALSE
  BY DEF Returns
<1>. QED BY <1>1, <1>3, <1>4 DEF Register!End, Answers

(***************************************************************************)
(* A call that fails gives up, one that succeeds leaves what it was asked  *)
(* for.                                                                    *)
(***************************************************************************)
LEMMA ReturnsGiveUp ==
    ASSUME BirdInv, NEW s \in Calls, holder = s, Returns(s, "err"),
           Visible' \in {Visible, Kept, call[s].want}
    PROVE  Register!Next
<1>1. Register!End("err")
  BY ReturnsEnd
<1>2. holder # Free /\ Wanted = call[s].want
  BY BirdAssumption DEF Wanted
<1>. QED BY <1>1, <1>2 DEF Register!Next, Register!GiveUp, Wanted

LEMMA ReturnsSucceed ==
    ASSUME BirdInv, NEW s \in Calls, holder = s, Returns(s, "ok"),
           late = "during" \/ Visible = call[s].want, Visible' = Visible
    PROVE  Register!Next
<1>1. Register!End("ok")
  BY ReturnsEnd
<1>2. holder # Free /\ Wanted = call[s].want
  BY BirdAssumption DEF Wanted
<1>. QED BY <1>1, <1>2 DEF Register!Next, Register!Succeed, Wanted

(***************************************************************************)
(* A step that the register does not notice.                               *)
(***************************************************************************)
LEMMA Unnoticed ==
    ASSUME BirdInv, NEW s \in Calls, holder = s, holder' = s, late' = late,
           NEW p, p \notin Idle, Moves(s, p), Visible' = Visible,
           IF p \in Returning THEN Under(call[s].old)' = Under(call[s].old) ELSE TRUE,
           call[s].phase \in Returning <=> p \in Returning
    PROVE  UNCHANGED Register!registerVars
<1>1. Kept' = Kept
  <2>1. CASE p \in Returning
    BY <2>1, KeptIs, KeptIsNext DEF KeptOK, Moves
  <2>2. CASE p \notin Returning
    BY <2>2, KeptIs, KeptIsNext DEF KeptOK, Moves
  <2>. QED BY <2>1, <2>2
<1>2. Answers' = Answers /\ Wanted' = Wanted
  BY MovesUnanswered
<1>. QED BY <1>1, <1>2 DEF Register!registerVars, Answers, Wanted

(***************************************************************************)
(* Each step of BirdGenerations is a step of the register or none.         *)
(***************************************************************************)
LEMMA RegisterSteps ==
    ASSUME BirdInv, [Next]_birdVars
    PROVE  Register!Next \/ UNCHANGED Register!registerVars
<1>. USE DEF BirdInv
<1>0. \A s \in Calls : call[s].want \in Configs /\ call[s].want # Absent
  BY BirdAssumption DEF BirdTypeOK, CallState
<1>1. ASSUME NEW s \in Calls, NEW c \in Configs, Begin(s, c)
      PROVE  Register!Next
  <2>1. /\ call[s].phase = "new" /\ holder = Free /\ holder' = s
        /\ UNCHANGED <<dir, current, loaded, up, strays, late, odd>>
    BY <1>1 DEF Begin, history
  <2>2. /\ call'[s].phase = "layout" /\ call'[s].want = c
        /\ \A q \in Calls : q # s => call'[q] = call[q]
    BY <1>1 DEF Begin, BirdTypeOK, CallState
  <2>3. Visible' = Visible /\ Kept = Visible /\ Kept' = Visible'
    BY <2>1, <2>2, KeptIs, KeptIsNext DEF KeptOK, Returning, Visible, Under
  <2>4. \A q \in Calls : Answer(q)' = IF q = s THEN "busy" ELSE Answer(q)
    BY <2>2 DEF Answer
  <2>5. Answers' = [Answers EXCEPT ![s] = "busy"] /\ Answers[s] = "new"
    BY <2>1, <2>4 DEF Answers, Answer
  <2>6. Wanted' = c
    BY <2>1, <2>2, BirdAssumption DEF Wanted
  <2>7. Register!Start(s, c)
    BY <2>1, <2>3, <2>5, <2>6 DEF Register!Start, Answers, Wanted
  <2>. QED BY <2>7 DEF Register!Next
<1>2. ASSUME NEW s \in Calls, Layout(s)
      PROVE  UNCHANGED Register!registerVars
  <2>1. /\ call[s].phase = "layout" /\ holder = s
        /\ dir' = [dir EXCEPT ![EmptyGen] = Empty]
        /\ current' = IF current = NoLink THEN EmptyGen ELSE current
        /\ UNCHANGED <<loaded, holder, up, strays, late, odd>>
    BY <1>2 DEF Layout, At, history
  <2>2. Moves(s, "compare")
    BY <1>2, ToMoves DEF Layout, CallPhases
  <2>3. Visible' = Visible
    BY <2>1, BirdAssumption DEF Visible, Under, BirdTypeOK, Gens, LinksOK
  <2>. QED BY <2>1, <2>2, <2>3, Unnoticed DEF Idle, Returning
<1>3. ASSUME NEW s \in Calls, Compare(s)
      PROVE  Register!Next \/ UNCHANGED Register!registerVars
  <2>1. /\ call[s].phase = "compare" /\ holder = s
        /\ UNCHANGED <<dir, current, loaded, strays, odd>>
    BY <1>3 DEF Compare, At
  <2>2. Visible' = Visible
    BY <2>1 DEF Visible, Under
  <2>3. ASSUME NEW p \in {"create", "reload_same"}, To(s, p), UNCHANGED <<holder, late>>
        PROVE  UNCHANGED Register!registerVars
    <3>1. Moves(s, p)
      BY <2>3, ToMoves DEF CallPhases
    <3>. QED BY <2>1, <2>2, <2>3, <3>1, Unnoticed DEF Idle, Returning
  <2>4. ASSUME Finish(s, "ok"), current # NoLink, dir[current] = call[s].want
        PROVE  Register!Next
    <3>1. Returns(s, "ok")
      BY <2>4, FinishReturns
    <3>2. Visible = call[s].want
      BY <1>0, <2>4 DEF Visible, Under
    <3>. QED BY <2>1, <2>2, <3>1, <3>2, ReturnsSucceed
  <2>. QED BY <1>3, <2>3, <2>4 DEF Compare
<1>4. ASSUME NEW s \in Calls, CreateGeneration(s)
      PROVE  UNCHANGED Register!registerVars
  <2>1. /\ call[s].phase = "create" /\ holder = s
        /\ dir' = [dir EXCEPT ![s] = Partial]
        /\ UNCHANGED <<current, loaded, holder, up, strays, late, odd>>
    BY <1>4 DEF CreateGeneration, At, history
  <2>2. Moves(s, "write")
    BY <1>4, ToMoves DEF CreateGeneration, CallPhases
  <2>3. Visible' = Visible
    BY <2>1 DEF Visible, Under, BirdTypeOK, LinksOK, Unwritten, Gens
  <2>. QED BY <2>1, <2>2, <2>3, Unnoticed DEF Idle, Returning
<1>5. ASSUME NEW s \in Calls, WriteGeneration(s)
      PROVE  Register!Next
  <2>1. /\ call[s].phase = "write" /\ holder = s
        /\ dir' = [dir EXCEPT ![s] = call[s].want]
        /\ UNCHANGED <<current, loaded, holder, up, strays, late>>
    BY <1>5 DEF WriteGeneration, At
  <2>2. PICK old \in {current, NoLink} :
          call' = [call EXCEPT ![s] = [@ EXCEPT !.phase = "switch", !.old = old]]
    BY <1>5 DEF WriteGeneration
  <2>3. /\ call'[s].phase = "switch" /\ call'[s].old = old /\ call'[s].want = call[s].want
        /\ \A q \in Calls : q # s => call'[q] = call[q]
    BY <2>2 DEF BirdTypeOK, CallState
  <2>4. Visible' = Visible
    BY <2>1 DEF Visible, Under, BirdTypeOK, LinksOK, Unwritten, Gens
  <2>5. Kept' = Under(old)'
    BY <2>1, <2>3, KeptIsNext DEF KeptOK, Returning
  <2>6. Under(old)' \in {Visible', Empty}
    BY <2>1, <2>2 DEF Visible, Under
  <2>7. \A q \in Calls : Answer(q)' = Answer(q)
    BY <2>1, <2>3 DEF Answer
  <2>8. holder # Free /\ Answers' = Answers /\ Wanted' = Wanted
    BY <2>1, <2>3, <2>7, BirdAssumption DEF Answers, Wanted
  <2>9. Register!Keep
    BY <2>1, <2>4, <2>5, <2>6, <2>8 DEF Register!Keep, Answers, Wanted
  <2>. QED BY <2>9 DEF Register!Next
<1>6. ASSUME NEW s \in Calls, Switch(s)
      PROVE  Register!Next
  <2>1. /\ call[s].phase = "switch" /\ holder = s /\ current' = s
        /\ UNCHANGED <<dir, loaded, holder, up, strays, late, odd>>
    BY <1>6 DEF Switch, At, switch_current, history
  <2>2. Moves(s, "reload")
    BY <1>6, ToMoves DEF Switch, CallPhases
  <2>3. Kept' = Kept
    BY <2>1, <2>2, KeptIs, KeptIsNext DEF KeptOK, Returning, Moves, Under
  <2>4. dir[s] = call[s].want
    BY <2>1 DEF LinksOK, Returning
  <2>5. Visible' = call[s].want
    BY <1>0, <2>1, <2>4, BirdAssumption DEF Visible, Under
  <2>6. Answers' = Answers /\ Wanted' = Wanted
    BY <2>1, <2>2, MovesUnanswered DEF Idle
  <2>7. holder # Free /\ Wanted = call[s].want
    BY <2>1, BirdAssumption DEF Wanted
  <2>8. Register!Write
    BY <2>1, <2>3, <2>5, <2>6, <2>7 DEF Register!Write, Answers, Wanted
  <2>. QED BY <2>8 DEF Register!Next
<1>7. ASSUME NEW s \in Calls, NEW ok \in BOOLEAN, Reload(s, ok)
      PROVE  Register!Next \/ UNCHANGED Register!registerVars
  <2>1. /\ call[s].phase = "reload" /\ holder = s
        /\ UNCHANGED <<dir, current, holder, up, strays, late>>
    BY <1>7 DEF Reload, At
  <2>2. Moves(s, IF ok THEN "cleanup" ELSE "restore")
    BY <1>7, ToMoves DEF Reload, CallPhases
  <2>3. Visible' = Visible
    BY <2>1 DEF Visible, Under
  <2>4. CASE ok
    <3>1. Answers' = Answers /\ Wanted' = Wanted
      BY <2>1, <2>2, <2>4, MovesUnanswered DEF Idle
    <3>2. Kept' = Visible
      BY <2>1, <2>2, <2>3, <2>4, KeptIsNext DEF KeptOK, Returning, Moves
    <3>3. Register!Keep
      BY <2>1, <2>3, <3>1, <3>2, BirdAssumption DEF Register!Keep, Answers, Wanted
    <3>. QED BY <3>3 DEF Register!Next
  <2>5. CASE ~ok
    <3>1. Under(call[s].old)' = Under(call[s].old)
      BY <2>1, <2>2 DEF Under, Moves
    <3>2. Moves(s, "restore")
      BY <2>2, <2>5
    <3>. QED BY <2>1, <2>3, <3>1, <3>2, Unnoticed DEF Idle, Returning
  <2>. QED BY <2>4, <2>5
<1>8. ASSUME NEW s \in Calls, NEW ok \in BOOLEAN, ReloadSame(s, ok)
      PROVE  Register!Next
  <2>1. /\ call[s].phase = "reload_same" /\ holder = s /\ UNCHANGED <<dir, current>>
    BY <1>8 DEF ReloadSame, At
  <2>2. Visible' = Visible
    BY <2>1 DEF Visible, Under
  <2>3. CASE ok
    <3>1. Returns(s, "ok")
      BY <1>8, <2>3, FinishReturns DEF ReloadSame
    <3>2. late = "during" \/ (current # NoLink /\ dir[current] = call[s].want)
      BY <2>1 DEF ProgressOK
    <3>3. late = "during" \/ Visible = call[s].want
      BY <1>0, <3>2 DEF Visible, Under
    <3>. QED BY <2>1, <2>2, <3>1, <3>3, ReturnsSucceed
  <2>4. CASE ~ok
    <3>1. Returns(s, "err")
      BY <1>8, <2>4, FinishReturns DEF ReloadSame
    <3>. QED BY <2>1, <2>2, <3>1, ReturnsGiveUp
  <2>. QED BY <2>3, <2>4
<1>9. ASSUME NEW s \in Calls, Restore(s)
      PROVE  Register!Next
  <2>1. /\ call[s].phase = "restore" /\ holder = s /\ current' = call[s].old
        /\ UNCHANGED <<dir, loaded, holder, up, strays, late, odd>>
    BY <1>9 DEF Restore, At, switch_current, history
  <2>2. Moves(s, "reload_old")
    BY <1>9, ToMoves DEF Restore, CallPhases
  <2>3. Kept = Under(call[s].old) /\ Kept' = Kept
    BY <2>1, <2>2, KeptIs, KeptIsNext DEF KeptOK, Returning, Moves, Under
  <2>4. Visible' = Kept
    BY <2>1, <2>3 DEF Visible, Under
  <2>5. Answers' = Answers /\ Wanted' = Wanted
    BY <2>1, <2>2, MovesUnanswered DEF Idle
  <2>6. Register!Undo
    BY <2>1, <2>3, <2>4, <2>5, BirdAssumption DEF Register!Undo, Answers, Wanted
  <2>. QED BY <2>6 DEF Register!Next
<1>10. ASSUME NEW s \in Calls, NEW ok \in BOOLEAN, ReloadOld(s, ok)
       PROVE  Register!Next
  <2>1. holder = s /\ UNCHANGED <<dir, current>>
    BY <1>10 DEF ReloadOld, At
  <2>2. Visible' = Visible
    BY <2>1 DEF Visible, Under
  <2>3. Returns(s, "err")
    BY <1>10, FinishReturns DEF ReloadOld
  <2>. QED BY <2>1, <2>2, <2>3, ReturnsGiveUp
<1>11. ASSUME NEW s \in Calls, NEW g \in Calls, RemoveGeneration(s, g)
       PROVE  Register!Next \/ UNCHANGED Register!registerVars
  <2>1. /\ call[s].phase = "cleanup" /\ holder = s /\ g # s
        /\ dir' = [dir EXCEPT ![g] = Absent]
        /\ UNCHANGED <<current, loaded, holder, call, up, strays, late, odd>>
    BY <1>11 DEF RemoveGeneration, At, history
  <2>2. Kept = Visible /\ Kept' = Visible'
    BY <2>1, KeptIs, KeptIsNext DEF KeptOK, Returning
  <2>3. Answers' = Answers /\ Wanted' = Wanted
    BY <2>1 DEF Answers, Answer, Wanted
  <2>4. CASE current # g
    <3>1. Visible' = Visible
      BY <2>1, <2>4 DEF Visible, Under, BirdTypeOK, Gens
    <3>. QED BY <2>1, <2>2, <2>3, <3>1 DEF Register!registerVars, Answers, Wanted
  <2>5. CASE current = g
    <3>1. late = "during"
      BY <2>1, <2>5 DEF ProgressOK
    <3>2. Visible' = Empty
      BY <2>1, <2>5 DEF Visible, Under, BirdTypeOK, Gens
    <3>3. Register!Stray
      BY <2>1, <2>2, <2>3, <3>1, <3>2, BirdAssumption DEF Register!Stray, Answers, Wanted
    <3>. QED BY <3>3 DEF Register!Next
  <2>. QED BY <2>4, <2>5
<1>12. ASSUME NEW s \in Calls, Cleanup(s)
       PROVE  Register!Next
  <2>1. call[s].phase = "cleanup" /\ holder = s /\ UNCHANGED <<dir, current>>
    BY <1>12 DEF Cleanup, At
  <2>2. Visible' = Visible
    BY <2>1 DEF Visible, Under
  <2>3. Returns(s, "ok")
    BY <1>12, FinishReturns DEF Cleanup
  <2>4. late = "during" \/ (current = s /\ dir[s] = call[s].want)
    BY <2>1 DEF ProgressOK, LinksOK
  <2>5. late = "during" \/ Visible = call[s].want
    BY <1>0, <2>4, BirdAssumption DEF Visible, Under
  <2>. QED BY <2>1, <2>2, <2>3, <2>5, ReturnsSucceed
<1>13. ASSUME NEW s \in Calls, IoError(s)
       PROVE  Register!Next
  <2>1. holder = s
    BY <1>13 DEF IoError, At
  <2>2. Returns(s, "err")
    BY <1>13, FinishReturns DEF IoError
  <2>3. CASE UNCHANGED <<dir, current>>
    BY <2>1, <2>2, <2>3, ReturnsGiveUp DEF Visible, Under
  <2>4. CASE /\ current = NoLink /\ dir' = [dir EXCEPT ![EmptyGen] = Empty]
             /\ current' \in {current, EmptyGen}
    <3>1. Visible' = Visible
      BY <2>4, BirdAssumption DEF Visible, Under, BirdTypeOK, Gens
    <3>. QED BY <2>1, <2>2, <3>1, ReturnsGiveUp
  <2>5. CASE call[s].phase = "switch" /\ current' = s /\ dir' = dir
    <3>1. dir[s] = call[s].want
      BY <2>5 DEF LinksOK, Returning
    <3>2. Visible' = call[s].want
      BY <1>0, <2>5, <3>1, BirdAssumption DEF Visible, Under
    <3>. QED BY <2>1, <2>2, <3>2, ReturnsGiveUp
  <2>6. CASE call[s].phase = "restore" /\ current' = call[s].old /\ dir' = dir
    <3>1. Visible' = Kept
      BY <2>1, <2>6, KeptIs DEF KeptOK, Returning, Visible, Under
    <3>. QED BY <2>1, <2>2, <3>1, ReturnsGiveUp
  <2>. QED BY <1>13, <2>3, <2>4, <2>5, <2>6 DEF IoError, At, switch_current
<1>14. ASSUME NEW s \in Calls, Cancel(s)
       PROVE  Register!Next
  <2>1. holder = s /\ UNCHANGED <<dir, current>>
    BY <1>14 DEF Cancel
  <2>2. Visible' = Visible
    BY <2>1 DEF Visible, Under
  <2>3. Returns(s, "err")
    BY <1>14, FinishReturns DEF Cancel
  <2>. QED BY <2>1, <2>2, <2>3, ReturnsGiveUp
<1>15. ASSUME NEW target \in Gens \cup {NoLink}, LateRename(target)
       PROVE  Register!Next
  <2>1. /\ target \in strays /\ current' = target
        /\ UNCHANGED <<dir, loaded, holder, call, up>>
        /\ late' = IF holder = Free THEN "before" ELSE "during"
    BY <1>15 DEF LateRename, switch_current
  <2>2. Visible' = Under(target)
    BY <2>1 DEF Visible, Under
  <2>3. target # NoLink => dir[target] # Partial
    BY <2>1 DEF LinksOK
  <2>4. Visible' \in Configs
    BY <2>2, <2>3, UnderIsConfig
  <2>5. Kept' \in {Kept, Visible'}
    <3>1. CASE holder = Free
      BY <2>1, <3>1, KeptIsNext DEF KeptOK
    <3>2. CASE holder \in Calls
      BY <2>1, <3>2, KeptIs, KeptIsNext DEF KeptOK, Under
    <3>. QED BY <3>1, <3>2 DEF BirdTypeOK
  <2>6. Answers' = Answers /\ Wanted' = Wanted
    BY <2>1 DEF Answers, Answer, Wanted
  <2>7. (late = "during")' = (holder # Free)
    BY <2>1
  <2>8. Register!Stray
    BY <2>1, <2>4, <2>5, <2>6, <2>7 DEF Register!Stray, Answers, Wanted
  <2>. QED BY <2>8 DEF Register!Next
<1>16. ASSUME Crash
       PROVE  Register!Next \/ UNCHANGED Register!registerVars
  <2>1. /\ call' = [s \in Calls |-> IF holder = s THEN Outside("err") ELSE call[s]]
        /\ holder' = Free /\ late' = (IF late = "during" THEN "before" ELSE late)
        /\ UNCHANGED <<dir, current, loaded>>
    BY <1>16 DEF Crash
  <2>2. Visible' = Visible
    BY <2>1 DEF Visible, Under
  <2>3. CASE holder = Free
    <3>1. \A q \in Calls : call'[q] = call[q]
      BY <2>1, <2>3, BirdAssumption
    <3>2. Answers' = Answers /\ Wanted' = Wanted
      BY <2>1, <2>3, <3>1 DEF Answers, Answer, Wanted
    <3>3. Kept' = Kept
      BY <2>1, <2>2, <2>3, KeptIs, KeptIsNext DEF KeptOK
    <3>4. late' = late
      BY <2>1, <2>3 DEF LockOK
    <3>. QED BY <2>1, <2>2, <2>3, <3>2, <3>3, <3>4 DEF Register!registerVars, Answers, Wanted
  <2>4. CASE holder \in Calls
    <3>1. /\ Outside("err") \in CallState /\ Outside("err").phase = "err"
          /\ Outside("err").old = NoLink
      BY BirdAssumption DEF Outside, CallState, CallPhases
    <3>2. Returns(holder, "err")
      BY <2>1, <2>4, <3>1 DEF Returns, BirdTypeOK
    <3>. QED BY <2>2, <2>4, <3>2, ReturnsGiveUp
  <2>. QED BY <2>3, <2>4 DEF BirdTypeOK
<1>17. ASSUME UNCHANGED birdVars
       PROVE  UNCHANGED Register!registerVars
  BY <1>17 DEF birdVars, Register!registerVars, Visible, Under, Kept, At, Answer
<1>18. Done => UNCHANGED birdVars
  BY DEF Done
<1>. QED
  BY <1>1, <1>2, <1>3, <1>4, <1>5, <1>6, <1>7, <1>8, <1>9, <1>10, <1>11, <1>12, <1>13, <1>14,
     <1>15, <1>16, <1>17, <1>18 DEF Next

LEMMA RegisterInit ==
    Init => Register!Init
<1>. SUFFICES ASSUME Init PROVE Register!Init
  OBVIOUS
<1>1. Visible = Empty /\ Kept = Empty /\ Wanted = Empty
  BY KeptIs DEF Init, KeptOK, Visible, Under, Wanted
<1>2. \A s \in Calls : Answer(s) = "new"
  BY DEF Init, Answer, Outside
<1>. QED BY <1>1, <1>2 DEF Init, Register!Init, Wanted

(***************************************************************************)
(* The generations implement the register that PeerManager takes a sync    *)
(* for, whatever fails and whenever a call is dropped.                     *)
(***************************************************************************)
THEOREM GenerationsActAsRegister ==
    Spec => ActsAsRegister
<1>1. BirdInv /\ [Next]_birdVars => [Register!Next]_(Register!registerVars)
  BY RegisterSteps
<1>. QED BY <1>1, RegisterInit, BirdInvariant, PTL DEF Spec, ActsAsRegister, Register!Spec
=============================================================================
