----------------------------- MODULE Challenge -----------------------------
(***************************************************************************)
(* RequestAuthorizer (src/src/challenge.rs) and the table auth_nonces      *)
(* (src/src/persist.rs): challenges are issued, and a mutation spends one  *)
(* before the registry is asked whether its key may act for the ASN.  A    *)
(* semaphore limits the mutations between the two.                         *)
(*                                                                         *)
(* Time is in seconds and abstract: now is unix_timestamp(), and a         *)
(* statement of the database takes none.  What a client sends (nonce, ASN, *)
(* expiration) is arbitrary; whether its signature verifies is             *)
(* nondeterministic.                                                       *)
(***************************************************************************)
EXTENDS Integers, FiniteSets

CONSTANTS
    Issues,        \* calls of issue_challenge
    Mutations,     \* calls of authorize_request
    Nonces,        \* values the random generator can return
    Asns,
    Maintainers,   \* the maintainers in an aut-num object
    Ttl,           \* CHALLENGE_TTL_SECS, 300 in the code
    Timeout,       \* REGISTRY_TIMEOUT_SECS
    MaxPermits,    \* REGISTRY_MAX_CONCURRENT
    MaxTries,      \* nonces that issue_challenge tries, 4 in the code
    Nothing,       \* no nonce, no row
    MaxTime        \* bound: when clients stop

\* The last challenge expires before MaxTime + Ttl, and may be spent then.
Times == 0 .. MaxTime + Ttl + Timeout
NonceRow == [asn : Asns, expires : Times]

\* The expirations that clients claim: all that are issued, and wrong ones.
Claims == 0 .. MaxTime + Ttl

ASSUME ChallengeAssumption ==
    /\ Ttl \in Nat
    /\ Timeout \in Nat \ {0}
    /\ MaxPermits \in Nat \ {0}
    /\ MaxTries \in Nat \ {0}
    /\ MaxTime \in Nat
    /\ IsFiniteSet(Issues) /\ IsFiniteSet(Mutations)
    /\ Nothing \notin Nonces \cup Asns \cup NonceRow

VARIABLES
    now,      \* the clock
    table,    \* auth_nonces: nonce -> row
    permits,  \* permits left in registry_limit
    issue,    \* each call of issue_challenge
    mutation  \* each call of authorize_request

challengeVars == <<now, table, permits, issue, mutation>>

IssueState ==
    [phase : {"new", "purge", "insert", "issued", "failed"}, nonce : Nonces \cup {Nothing},
     asn : Asns \cup {Nothing}, expires : Times, tries : 0 .. MaxTries]

MutationState ==
    [phase : {"new", "consume", "aut_num", "mntner", "authorized", "refused"},
     nonce : Nonces \cup {Nothing}, asn : Asns \cup {Nothing}, expires : Times,
     registered : SUBSET Maintainers, left : SUBSET Maintainers, deadline : Times]

(***************************************************************************)
(* Every variable keeps its type.                                          *)
(***************************************************************************)
ChallengeTypeOK ==
    /\ now \in Times
    /\ table \in [Nonces -> NonceRow \cup {Nothing}]
    /\ permits \in 0 .. MaxPermits
    /\ issue \in [Issues -> IssueState]
    /\ mutation \in [Mutations -> MutationState]

\* A mutation that knows nothing of its challenge, or needs it no more.
Fresh(phase) ==
    [phase |-> phase, nonce |-> Nothing, asn |-> Nothing, expires |-> 0,
     registered |-> {}, left |-> {}, deadline |-> 0]

Init ==
    /\ now = 0
    /\ table = [n \in Nonces |-> Nothing]
    /\ permits = MaxPermits
    /\ issue = [i \in Issues |->
                 [phase |-> "new", nonce |-> Nothing, asn |-> Nothing, expires |-> 0, tries |-> 0]]
    /\ mutation = [m \in Mutations |-> Fresh("new")]

(***************************************************************************)
(* issue_challenge computes the expiration once, then tries random nonces. *)
(***************************************************************************)
StartIssue(i, a) ==
    /\ now < MaxTime
    /\ issue[i].phase = "new"
    /\ issue' = [issue EXCEPT ![i] =
                  [@ EXCEPT !.phase = "purge", !.asn = a, !.expires = now + Ttl]]
    /\ UNCHANGED <<now, table, permits, mutation>>

\* Faulty variant: a nonce is purged in its last second.
Purged_TooEarly == [n \in Nonces |->
            IF table[n] # Nothing /\ table[n].expires <= now THEN Nothing ELSE table[n]]

\* The rows that the DELETE of insert_nonce leaves.
Purged == [n \in Nonces |->
            IF table[n] # Nothing /\ table[n].expires < now THEN Nothing ELSE table[n]]

(***************************************************************************)
(* insert_nonce: a DELETE, then an INSERT ON CONFLICT DO NOTHING, each a   *)
(* transaction of its own.  ok is whether the answer arrives.              *)
(***************************************************************************)
PurgeNonces(i, ok) ==
    /\ issue[i].phase = "purge"
    /\ table' = Purged
    /\ issue' = [issue EXCEPT ![i].phase = IF ok THEN "insert" ELSE "failed"]
    /\ UNCHANGED <<now, permits, mutation>>

insert_nonce(i, n, ok) ==
    LET me == issue[i]
        free == table[n] = Nothing
        tries == me.tries + 1
    IN
    /\ me.phase = "insert"
    /\ table' = IF free
                  THEN [table EXCEPT ![n] = [asn |-> me.asn, expires |-> me.expires]]
                  ELSE table
    /\ issue' = [issue EXCEPT ![i] =
                  [@ EXCEPT
                     !.phase = IF ok /\ free THEN "issued"
                               ELSE IF ~ok \/ tries = MaxTries THEN "failed" ELSE "purge",
                     !.nonce = IF free THEN n ELSE Nothing,
                     !.tries = tries]]
    /\ UNCHANGED <<now, permits, mutation>>

\* A statement fails without an effect, or the request is dropped.
IssueFails(i) ==
    /\ issue[i].phase \in {"purge", "insert"}
    /\ issue' = [issue EXCEPT ![i].phase = "failed"]
    /\ UNCHANGED <<now, table, permits, mutation>>

(***************************************************************************)
(* authorize_request up to its first await that can be pending: the        *)
(* expiration check, verify_signature, and try_acquire on the semaphore.   *)
(***************************************************************************)
Verified(m, n, a, e, registered) ==
    [mutation[m] EXCEPT !.nonce = n, !.asn = a, !.expires = e, !.registered = registered]

\* Faulty variant: the limit is not checked.
StartMutation_NoLimit(m, n, a, e, registered) ==
    /\ now < MaxTime
    /\ mutation[m].phase = "new"
    /\ e >= now
    /\ permits' = permits - 1
    /\ mutation' = [mutation EXCEPT ![m] =
                     [Verified(m, n, a, e, registered) EXCEPT !.phase = "consume"]]
    /\ UNCHANGED <<now, table, issue>>

StartMutation(m, n, a, e, registered) ==
    /\ now < MaxTime
    /\ mutation[m].phase = "new"
    /\ e >= now
    /\ permits > 0
    /\ permits' = permits - 1
    /\ mutation' = [mutation EXCEPT ![m] =
                     [Verified(m, n, a, e, registered) EXCEPT !.phase = "consume"]]
    /\ UNCHANGED <<now, table, issue>>

\* It is expired, its signature is wrong, or no permit is left.
RefuseMutation(m) ==
    /\ mutation[m].phase = "new"
    /\ mutation' = [mutation EXCEPT ![m] = Fresh("refused")]
    /\ UNCHANGED <<now, table, permits, issue>>

\* authorize_request returns, which drops the permit.
Answer(m, result) ==
    /\ mutation' = [mutation EXCEPT ![m] =
                     IF result = "refused" THEN Fresh(result)
                     ELSE [@ EXCEPT !.phase = result, !.left = {}, !.deadline = 0]]
    /\ permits' = permits + 1

\* Faulty variant: only the check at the start of the request looks at the clock.
Matches_NoExpiry(m) ==
    LET me == mutation[m] IN table[me.nonce] = [asn |-> me.asn, expires |-> me.expires]

Matches(m) ==
    LET me == mutation[m] IN
    /\ table[me.nonce] = [asn |-> me.asn, expires |-> me.expires]
    /\ me.expires >= now

\* Faulty variant: the nonce is looked up and not deleted.
consume_nonce_SelectOnly(m, ok) ==
    /\ mutation[m].phase = "consume"
    /\ IF ok /\ Matches(m)
         THEN /\ mutation' = [mutation EXCEPT ![m] =
                               [@ EXCEPT !.phase = "aut_num", !.deadline = now + Timeout]]
              /\ UNCHANGED permits
         ELSE Answer(m, "refused")
    /\ UNCHANGED <<now, table, issue>>

\* consume_nonce: ok is whether its answer arrives.
consume_nonce(m, ok) ==
    /\ mutation[m].phase = "consume"
    /\ table' = IF Matches(m) THEN [table EXCEPT ![mutation[m].nonce] = Nothing] ELSE table
    /\ IF ok /\ Matches(m)
         THEN /\ mutation' = [mutation EXCEPT ![m] =
                               [@ EXCEPT !.phase = "aut_num", !.deadline = now + Timeout]]
              /\ UNCHANGED permits
         ELSE Answer(m, "refused")
    /\ UNCHANGED <<now, issue>>

(***************************************************************************)
(* check_registry_for_asn_and_pubkey, within the registry timeout: the     *)
(* aut-num object must be readable; a maintainer that is not is skipped.   *)
(***************************************************************************)
FetchAutNum(m, ok) ==
    /\ mutation[m].phase = "aut_num"
    /\ IF ok /\ Maintainers # {}
         THEN /\ mutation' = [mutation EXCEPT ![m] =
                               [@ EXCEPT !.phase = "mntner", !.left = Maintainers]]
              /\ UNCHANGED permits
         ELSE Answer(m, "refused")
    /\ UNCHANGED <<now, table, issue>>

FetchMaintainer(m, x, ok) ==
    /\ mutation[m].phase = "mntner"
    /\ x \in mutation[m].left
    /\ IF ok /\ x \in mutation[m].registered THEN Answer(m, "authorized")
       ELSE IF mutation[m].left = {x} THEN Answer(m, "refused")
       ELSE /\ mutation' = [mutation EXCEPT ![m].left = @ \ {x}]
            /\ UNCHANGED permits
    /\ UNCHANGED <<now, table, issue>>

InRegistry(m) == mutation[m].phase \in {"aut_num", "mntner"}

\* Faulty variant: the timeout covers the first registry request only.
RegistryTimeout_AutNumOnly(m) ==
    /\ mutation[m].phase = "aut_num"
    /\ mutation[m].deadline <= now
    /\ Answer(m, "refused")
    /\ UNCHANGED <<now, table, issue>>

RegistryTimeout(m) ==
    /\ InRegistry(m)
    /\ mutation[m].deadline <= now
    /\ Answer(m, "refused")
    /\ UNCHANGED <<now, table, issue>>

HoldsPermit(m) == mutation[m].phase \in {"consume", "aut_num", "mntner"}

\* Faulty variant: the permit is forgotten with the future.
Cancel_LosePermit(m) ==
    /\ HoldsPermit(m)
    /\ mutation' = [mutation EXCEPT ![m] = Fresh("refused")]
    /\ UNCHANGED <<now, table, permits, issue>>

\* The client went away: the future is dropped, and the permit with it.
Cancel(m) ==
    /\ HoldsPermit(m)
    /\ Answer(m, "refused")
    /\ UNCHANGED <<now, table, issue>>

(***************************************************************************)
(* Time passes; a timeout that is due fires first.                         *)
(***************************************************************************)
Tick ==
    /\ now < MaxTime \/ \E m \in Mutations : InRegistry(m)
    /\ \A m \in Mutations : InRegistry(m) => now < mutation[m].deadline
    /\ now' = now + 1
    /\ UNCHANGED <<table, permits, issue, mutation>>

\* All calls have returned and clients have stopped.
Done ==
    /\ now >= MaxTime
    /\ \A m \in Mutations : ~HoldsPermit(m)
    /\ UNCHANGED challengeVars

Next ==
    \/ \E i \in Issues :
        \/ \E a \in Asns : StartIssue(i, a)
        \/ \E ok \in BOOLEAN : PurgeNonces(i, ok)
        \/ \E n \in Nonces, ok \in BOOLEAN : insert_nonce(i, n, ok)
        \/ IssueFails(i)
    \/ \E m \in Mutations :
        \/ \E n \in Nonces, a \in Asns, e \in Claims, registered \in SUBSET Maintainers :
             StartMutation(m, n, a, e, registered)
        \/ RefuseMutation(m)
        \/ \E ok \in BOOLEAN : consume_nonce(m, ok) \/ FetchAutNum(m, ok)
        \/ \E x \in Maintainers, ok \in BOOLEAN : FetchMaintainer(m, x, ok)
        \/ RegistryTimeout(m)
        \/ Cancel(m)
    \/ Tick
    \/ Done

(***************************************************************************)
(* The clock advances, timers fire and PostgreSQL answers.  Nothing is     *)
(* assumed of the registry and of clients.                                 *)
(***************************************************************************)
Fairness ==
    /\ WF_challengeVars(Tick)
    /\ \A m \in Mutations :
        WF_challengeVars(RegistryTimeout(m) \/ \E ok \in BOOLEAN : consume_nonce(m, ok))

Spec == Init /\ [][Next]_challengeVars

LiveSpec == Spec /\ Fairness

-----------------------------------------------------------------------------
(***************************************************************************)
(* A challenge is spent at most once, and only by a mutation for the ASN   *)
(* and with the expiration it was issued with, however many mutations race *)
(* for it, are dropped, or lose the answer of the database: for each       *)
(* challenge, no more mutations are authorized than times it was inserted. *)
(***************************************************************************)
SpentOnce ==
    \A m \in Mutations :
        LET same(c) == /\ c.nonce = mutation[m].nonce
                       /\ c.asn = mutation[m].asn
                       /\ c.expires = mutation[m].expires
        IN mutation[m].phase = "authorized" =>
             Cardinality({q \in Mutations : mutation[q].phase = "authorized" /\ same(mutation[q])})
               <= Cardinality({i \in Issues : same(issue[i])})

(***************************************************************************)
(* registry_limit: no permit is lost or returned twice, on any of the ways *)
(* a mutation ends (error, timeout, mismatch, dropped future).             *)
(***************************************************************************)
PermitsConserved ==
    permits + Cardinality({m \in Mutations : HoldsPermit(m)}) = MaxPermits

(***************************************************************************)
(* A challenge that is not expired leaves the table only through a         *)
(* mutation that already holds a permit: being turned away because the     *)
(* service is busy, or for a wrong signature, does not burn it.            *)
(***************************************************************************)
BurnedUnderPermit ==
    [][\A n \in Nonces :
         /\ table[n] # Nothing /\ table'[n] = Nothing
         /\ table[n].expires >= now
         => \E m \in Mutations : HoldsPermit(m) /\ mutation[m].nonce = n]_challengeVars

(***************************************************************************)
(* An authorization is never granted later than one registry timeout after *)
(* the challenge expired, even if the request waited for a connection of   *)
(* the pool after the first look at its expiration (the second look is the *)
(* DELETE of consume_nonce, which takes no time here).                     *)
(***************************************************************************)
AuthorizedInTime ==
    [][\A m \in Mutations :
         mutation[m].phase # "authorized" /\ mutation'[m].phase = "authorized" =>
           now <= mutation[m].expires + Timeout]_challengeVars

(***************************************************************************)
(* A registry that never answers does not exhaust the service: all permits *)
(* come back (tokio::time::timeout around the registry check).             *)
(***************************************************************************)
PermitsReturn == <>[](permits = MaxPermits)
=============================================================================
