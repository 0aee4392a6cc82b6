-------------------------- MODULE ChallengeProofs --------------------------
(***************************************************************************)
(* Proofs about Challenge: types, permits, and that a challenge is spent   *)
(* once and in time, for any number of calls, nonces and permits and any   *)
(* lifetime and timeout.                                                   *)
(***************************************************************************)
EXTENDS Challenge, FiniteSetTheorems, TLAPS

(***************************************************************************)
(* The inductive invariant.  The type invariant is not inductive: a number *)
(* of tries, an expiration or a deadline stays within its range because of *)
(* the phase its call is in.                                               *)
(***************************************************************************)
Trying == {"new", "purge", "insert"}
Spent == {"aut_num", "mntner", "authorized"}

\* A call of issue_challenge holds no nonce until it has inserted one.
IssueOK(i) ==
    /\ issue[i] \in IssueState
    /\ issue[i].expires <= MaxTime + Ttl
    /\ issue[i].phase \in Trying => issue[i].nonce = Nothing /\ issue[i].tries < MaxTries
    /\ issue[i].phase \in {"purge", "insert"} => issue[i].asn \in Asns

\* A mutation has a challenge in its hands from its first check on, and waits
\* for the registry no longer than its deadline.
MutationOK(m) ==
    /\ mutation[m] \in MutationState
    /\ mutation[m].phase \in {"consume"} \cup Spent =>
         mutation[m].nonce \in Nonces /\ mutation[m].asn \in Asns
    /\ InRegistry(m) =>
         now <= mutation[m].deadline /\ mutation[m].deadline <= mutation[m].expires + Timeout

TypesOK ==
    /\ now \in Times
    /\ table \in [Nonces -> NonceRow \cup {Nothing}]
    /\ \A n \in Nonces : table[n] # Nothing => table[n].expires <= MaxTime + Ttl
    /\ issue \in [Issues -> IssueState] /\ \A i \in Issues : IssueOK(i)
    /\ mutation \in [Mutations -> MutationState] /\ \A m \in Mutations : MutationOK(m)

\* Permits that are out, and the semaphore.
Holders == {m \in Mutations : HoldsPermit(m)}
PermitsOK == permits \in Nat /\ PermitsConserved

(***************************************************************************)
(* For a challenge, the mutations that have spent it and the calls that    *)
(* have inserted it.  SpentOnce is not inductive: a row that is still in   *)
(* the table must leave room for the mutation that will spend it.          *)
(***************************************************************************)
Row(a, e) == [asn |-> a, expires |-> e]
Spenders(n, a, e) ==
    {m \in Mutations : /\ mutation[m].phase \in Spent
                       /\ mutation[m].nonce = n /\ mutation[m].asn = a /\ mutation[m].expires = e}
Inserters(n, a, e) ==
    {i \in Issues : issue[i].nonce = n /\ issue[i].asn = a /\ issue[i].expires = e}

RoomFor(n, a, e) ==
    /\ Cardinality(Spenders(n, a, e)) <= Cardinality(Inserters(n, a, e))
    /\ table[n] = Row(a, e) =>
         Cardinality(Spenders(n, a, e)) < Cardinality(Inserters(n, a, e))

SpendOK == \A n \in Nonces, a \in Asns, e \in Times : RoomFor(n, a, e)

ChallengeInv == TypesOK /\ PermitsOK /\ SpendOK

-----------------------------------------------------------------------------
(***************************************************************************)
(* A call of issue_challenge changes its own state only, and the table.    *)
(***************************************************************************)
LEMMA IssueTypes ==
    ASSUME TypesOK, NEW i \in Issues,
           \/ \E a \in Asns : StartIssue(i, a)
           \/ \E ok \in BOOLEAN : PurgeNonces(i, ok)
           \/ \E n \in Nonces, ok \in BOOLEAN : insert_nonce(i, n, ok)
           \/ IssueFails(i)
    PROVE  TypesOK'
<1>. USE DEF TypesOK, IssueOK
<1>a. Ttl \in Nat /\ Timeout \in Nat /\ MaxTries \in Nat /\ MaxTime \in Nat
  BY ChallengeAssumption
<1>0. /\ now' = now /\ mutation' = mutation
      /\ \A m \in Mutations : MutationOK(m)'
  BY DEF StartIssue, PurgeNonces, insert_nonce, IssueFails, MutationOK, InRegistry
<1>1. ASSUME NEW a \in Asns, StartIssue(i, a)
      PROVE  TypesOK'
  <2>. DEFINE me == [issue[i] EXCEPT !.phase = "purge", !.asn = a, !.expires = now + Ttl]
  <2>1. issue' = [issue EXCEPT ![i] = me] /\ issue[i] \in IssueState /\ table' = table
    BY <1>1 DEF StartIssue
  <2>2. now + Ttl \in Times /\ now + Ttl <= MaxTime + Ttl
    <3>1. now < MaxTime
      BY <1>1 DEF StartIssue
    <3>. QED BY <1>a, <3>1 DEF Times
  <2>3. /\ me \in IssueState /\ me.expires <= MaxTime + Ttl
        /\ me.phase = "purge" /\ me.asn \in Asns
    BY <2>1, <2>2 DEF IssueState
  <2>4. issue[i].nonce = Nothing /\ issue[i].tries < MaxTries
    BY <1>1 DEF StartIssue, Trying
  <2>5. me.nonce = Nothing /\ me.tries < MaxTries
    BY <2>1, <2>4 DEF IssueState
  <2>. HIDE DEF me
  <2>. QED BY <1>0, <2>1, <2>3, <2>5
<1>2. ASSUME NEW ok \in BOOLEAN, PurgeNonces(i, ok)
      PROVE  TypesOK'
  <2>1. /\ table' \in [Nonces -> NonceRow \cup {Nothing}]
        /\ \A n \in Nonces : table'[n] # Nothing => table'[n].expires <= MaxTime + Ttl
    BY <1>2 DEF PurgeNonces, Purged
  <2>2. PICK p \in {"insert", "failed"} : issue' = [issue EXCEPT ![i].phase = p]
    BY <1>2 DEF PurgeNonces
  <2>3. issue[i].phase = "purge"
    BY <1>2 DEF PurgeNonces
  <2>. QED BY <1>0, <2>1, <2>2, <2>3 DEF IssueState, Trying
<1>3. ASSUME NEW n \in Nonces, NEW ok \in BOOLEAN, insert_nonce(i, n, ok)
      PROVE  TypesOK'
  <2>1. /\ issue[i].phase = "insert" /\ issue[i].asn \in Asns /\ issue[i] \in IssueState
        /\ issue[i].tries < MaxTries /\ issue[i].nonce = Nothing
    BY <1>3 DEF insert_nonce, Trying
  <2>2. Row(issue[i].asn, issue[i].expires) \in NonceRow
    BY <2>1 DEF Row, NonceRow, IssueState
  <2>3. table' = table \/ table' = [table EXCEPT ![n] = Row(issue[i].asn, issue[i].expires)]
    BY <1>3 DEF insert_nonce, Row
  <2>4. /\ table' \in [Nonces -> NonceRow \cup {Nothing}]
        /\ \A k \in Nonces : table'[k] # Nothing => table'[k].expires <= MaxTime + Ttl
    BY <2>1, <2>2, <2>3 DEF Row
  <2>5. PICK p \in {"issued", "failed", "purge"}, v \in {n, Nothing} :
          /\ issue' = [issue EXCEPT ![i] =
                          [@ EXCEPT !.phase = p, !.nonce = v, !.tries = issue[i].tries + 1]]
          /\ p = "purge" => v = Nothing /\ issue[i].tries + 1 # MaxTries
    BY <1>3, <2>1 DEF insert_nonce
  <2>6. issue[i].tries \in Nat /\ issue[i].tries + 1 \in 0 .. MaxTries
    BY <1>a, <2>1 DEF IssueState
  <2>a. /\ issue[i].nonce \in Nonces \cup {Nothing} /\ issue[i].expires \in Times
        /\ issue[i].expires <= MaxTime + Ttl
    BY <2>1 DEF IssueState
  <2>. DEFINE me == [issue[i] EXCEPT !.phase = p, !.nonce = v, !.tries = issue[i].tries + 1]
  <2>7. /\ me \in IssueState /\ me.expires <= MaxTime + Ttl
        /\ me.phase \in Trying => me.nonce = Nothing /\ me.tries < MaxTries
        /\ me.asn \in Asns
    <3>1. me \in IssueState
      BY <2>1, <2>5, <2>6 DEF IssueState
    <3>2. /\ me.phase = p /\ me.nonce = v /\ me.tries = issue[i].tries + 1
          /\ me.asn = issue[i].asn /\ me.expires = issue[i].expires
      BY <2>1 DEF IssueState
    <3>3. p = "purge" => issue[i].tries + 1 < MaxTries
      BY <1>a, <2>5, <2>6
    <3>. QED BY <2>1, <2>a, <2>5, <3>1, <3>2, <3>3 DEF Trying
  <2>8. issue' = [issue EXCEPT ![i] = me]
    BY <2>5
  <2>. HIDE DEF me
  <2>. QED BY <1>0, <2>4, <2>7, <2>8
<1>4. ASSUME IssueFails(i)
      PROVE  TypesOK'
  BY <1>0, <1>4 DEF IssueFails, IssueState, Trying
<1>. QED BY <1>1, <1>2, <1>3, <1>4

(***************************************************************************)
(* A mutation whose new state keeps what the invariant says of it.         *)
(***************************************************************************)
LEMMA MutationFrame ==
    ASSUME TypesOK, NEW m \in Mutations, NEW me \in MutationState,
           mutation' = [mutation EXCEPT ![m] = me],
           me.phase \in {"consume"} \cup Spent => me.nonce \in Nonces /\ me.asn \in Asns,
           me.phase \in {"aut_num", "mntner"} =>
             now <= me.deadline /\ me.deadline <= me.expires + Timeout,
           table' \in [Nonces -> NonceRow \cup {Nothing}],
           \A n \in Nonces : table'[n] \in {table[n], Nothing},
           UNCHANGED <<now, issue>>
    PROVE  TypesOK'
<1>1. mutation' \in [Mutations -> MutationState]
  BY DEF TypesOK
<1>2. ASSUME NEW q \in Mutations
      PROVE  MutationOK(q)'
  <2>1. CASE q = m
    BY <1>1, <2>1 DEF TypesOK, MutationOK, InRegistry
  <2>2. CASE q # m
    <3>1. mutation'[q] = mutation[q] /\ MutationOK(q)
      BY <2>2 DEF TypesOK
    <3>. QED BY <1>1, <3>1 DEF MutationOK, InRegistry
  <2>. QED BY <2>1, <2>2
<1>3. \A i \in Issues : IssueOK(i)'
  BY DEF TypesOK, IssueOK
<1>4. \A n \in Nonces : table'[n] # Nothing => table'[n].expires <= MaxTime + Ttl
  BY DEF TypesOK
<1>. QED BY <1>1, <1>2, <1>3, <1>4 DEF TypesOK

(***************************************************************************)
(* authorize_request returns: it succeeds only after the registry check.   *)
(***************************************************************************)
LEMMA AnswerTypes ==
    ASSUME TypesOK, NEW m \in Mutations, NEW r \in {"authorized", "refused"},
           r = "authorized" => mutation[m].phase = "mntner",
           Answer(m, r),
           table' \in [Nonces -> NonceRow \cup {Nothing}],
           \A n \in Nonces : table'[n] \in {table[n], Nothing},
           UNCHANGED <<now, issue>>
    PROVE  TypesOK'
<1>. DEFINE me == IF r = "refused" THEN Fresh(r)
                  ELSE [mutation[m] EXCEPT !.phase = r, !.left = {}, !.deadline = 0]
<1>1. mutation' = [mutation EXCEPT ![m] = me]
  BY DEF Answer
<1>2. 0 \in Times
  BY ChallengeAssumption DEF Times
<1>3. Fresh("refused") \in MutationState
  BY <1>2 DEF Fresh, MutationState
<1>4. me \in MutationState
  BY <1>2, <1>3 DEF MutationState, TypesOK
<1>5. me.phase = r
  BY DEF Fresh, MutationState, TypesOK
<1>6. ASSUME r = "authorized"
      PROVE  me.nonce \in Nonces /\ me.asn \in Asns
  BY <1>6 DEF MutationState, MutationOK, Spent, TypesOK
<1>. HIDE DEF me
<1>. QED BY <1>1, <1>4, <1>5, <1>6, MutationFrame DEF Spent

(***************************************************************************)
(* The steps of authorize_request.                                         *)
(***************************************************************************)
LEMMA MutationTypes ==
    ASSUME TypesOK, NEW m \in Mutations,
           \/ \E n \in Nonces, a \in Asns, e \in Claims, registered \in SUBSET Maintainers :
                StartMutation(m, n, a, e, registered)
           \/ RefuseMutation(m)
           \/ \E ok \in BOOLEAN : consume_nonce(m, ok) \/ FetchAutNum(m, ok)
           \/ \E x \in Maintainers, ok \in BOOLEAN : FetchMaintainer(m, x, ok)
           \/ RegistryTimeout(m)
           \/ Cancel(m)
    PROVE  TypesOK'
<1>0. /\ Ttl \in Nat /\ Timeout \in Nat /\ MaxTime \in Nat /\ now \in Times
      /\ mutation[m] \in MutationState /\ MutationOK(m)
      /\ table \in [Nonces -> NonceRow \cup {Nothing}]
  BY ChallengeAssumption DEF TypesOK
<1>1. ASSUME NEW n \in Nonces, NEW a \in Asns, NEW e \in Claims,
             NEW registered \in SUBSET Maintainers, StartMutation(m, n, a, e, registered)
      PROVE  TypesOK'
  <2>. DEFINE me == [Verified(m, n, a, e, registered) EXCEPT !.phase = "consume"]
  <2>1. mutation' = [mutation EXCEPT ![m] = me] /\ UNCHANGED <<now, table, issue>>
    BY <1>1 DEF StartMutation
  <2>a. e \in Times
    BY <1>0 DEF Claims, Times
  <2>2. me \in MutationState /\ me.phase = "consume" /\ me.nonce = n /\ me.asn = a
    BY <1>0, <2>a DEF Verified, MutationState
  <2>. HIDE DEF me
  <2>. QED BY <1>0, <2>1, <2>2, MutationFrame DEF Spent
<1>2. ASSUME RefuseMutation(m)
      PROVE  TypesOK'
  <2>1. Fresh("refused") \in MutationState /\ Fresh("refused").phase = "refused"
    BY ChallengeAssumption DEF Fresh, MutationState, Times
  <2>2. /\ mutation' = [mutation EXCEPT ![m] = Fresh("refused")]
        /\ UNCHANGED <<now, table, issue>>
    BY <1>2 DEF RefuseMutation
  <2>. QED BY <1>0, <2>1, <2>2, MutationFrame DEF Spent
<1>3. ASSUME NEW ok \in BOOLEAN, consume_nonce(m, ok)
      PROVE  TypesOK'
  <2>0. mutation[m].phase = "consume" /\ mutation[m].nonce \in Nonces /\ mutation[m].asn \in Asns
    BY <1>0, <1>3 DEF consume_nonce, MutationOK
  <2>1. UNCHANGED <<now, issue>>
    BY <1>3 DEF consume_nonce
  <2>2. /\ table' \in [Nonces -> NonceRow \cup {Nothing}]
        /\ \A n \in Nonces : table'[n] \in {table[n], Nothing}
    BY <1>0, <1>3, <2>0 DEF consume_nonce
  <2>3. CASE ok /\ Matches(m)
    <3>. DEFINE me == [mutation[m] EXCEPT !.phase = "aut_num", !.deadline = now + Timeout]
    <3>1. mutation' = [mutation EXCEPT ![m] = me]
      BY <1>3, <2>3 DEF consume_nonce
    <3>2. table[mutation[m].nonce] = Row(mutation[m].asn, mutation[m].expires)
      BY <2>3 DEF Matches, Row
    <3>3. Row(mutation[m].asn, mutation[m].expires) \in NonceRow
      BY <1>0, <2>0 DEF Row, NonceRow, MutationState
    <3>4. Row(mutation[m].asn, mutation[m].expires) # Nothing
      BY <3>3, ChallengeAssumption
    <3>5. table[mutation[m].nonce].expires <= MaxTime + Ttl
      BY <2>0, <3>2, <3>4 DEF TypesOK
    <3>6. mutation[m].expires <= MaxTime + Ttl
      BY <3>2, <3>5 DEF Row
    <3>7. now <= mutation[m].expires
      BY <2>3 DEF Matches
    <3>8. mutation[m].expires \in Times
      BY <1>0 DEF MutationState
    <3>9. /\ now + Timeout \in Times /\ now <= now + Timeout
          /\ now + Timeout <= mutation[m].expires + Timeout
      BY <1>0, <3>6, <3>7, <3>8 DEF Times
    <3>10. /\ me \in MutationState /\ me.phase = "aut_num" /\ me.deadline = now + Timeout
           /\ me.nonce = mutation[m].nonce /\ me.asn = mutation[m].asn
           /\ me.expires = mutation[m].expires
      BY <1>0, <3>9 DEF MutationState
    <3>. HIDE DEF me
    <3>. QED BY <2>0, <2>1, <2>2, <3>1, <3>9, <3>10, MutationFrame DEF Spent
  <2>4. CASE ~(ok /\ Matches(m))
    <3>1. Answer(m, "refused")
      BY <1>3, <2>4 DEF consume_nonce
    <3>. QED BY <2>1, <2>2, <3>1, AnswerTypes
  <2>. QED BY <2>3, <2>4
<1>4. ASSUME NEW ok \in BOOLEAN, FetchAutNum(m, ok)
      PROVE  TypesOK'
  <2>1. mutation[m].phase = "aut_num" /\ UNCHANGED <<now, table, issue>>
    BY <1>4 DEF FetchAutNum
  <2>. DEFINE me == [mutation[m] EXCEPT !.phase = "mntner", !.left = Maintainers]
  <2>2. CASE mutation' = [mutation EXCEPT ![m] = me]
    <3>1. /\ me \in MutationState /\ me.phase = "mntner" /\ me.deadline = mutation[m].deadline
          /\ me.nonce = mutation[m].nonce /\ me.asn = mutation[m].asn
          /\ me.expires = mutation[m].expires
      BY <1>0 DEF MutationState
    <3>2. /\ mutation[m].nonce \in Nonces /\ mutation[m].asn \in Asns
          /\ now <= mutation[m].deadline /\ mutation[m].deadline <= mutation[m].expires + Timeout
      BY <1>0, <2>1 DEF MutationOK, InRegistry, Spent
    <3>. HIDE DEF me
    <3>. QED BY <1>0, <2>1, <2>2, <3>1, <3>2, MutationFrame
  <2>3. CASE Answer(m, "refused")
    BY <1>0, <2>1, <2>3, AnswerTypes
  <2>. QED BY <1>4, <2>2, <2>3 DEF FetchAutNum
<1>5. ASSUME NEW x \in Maintainers, NEW ok \in BOOLEAN, FetchMaintainer(m, x, ok)
      PROVE  TypesOK'
  <2>1. mutation[m].phase = "mntner" /\ UNCHANGED <<now, table, issue>>
    BY <1>5 DEF FetchMaintainer
  <2>. DEFINE me == [mutation[m] EXCEPT !.left = @ \ {x}]
  <2>2. CASE mutation' = [mutation EXCEPT ![m] = me]
    <3>1. /\ me \in MutationState /\ me.phase = "mntner" /\ me.deadline = mutation[m].deadline
          /\ me.nonce = mutation[m].nonce /\ me.asn = mutation[m].asn
          /\ me.expires = mutation[m].expires
      BY <1>0, <2>1 DEF MutationState
    <3>2. /\ mutation[m].nonce \in Nonces /\ mutation[m].asn \in Asns
          /\ now <= mutation[m].deadline /\ mutation[m].deadline <= mutation[m].expires + Timeout
      BY <1>0, <2>1 DEF MutationOK, InRegistry, Spent
    <3>. HIDE DEF me
    <3>. QED BY <1>0, <2>1, <2>2, <3>1, <3>2, MutationFrame
  <2>3. CASE Answer(m, "refused") \/ Answer(m, "authorized")
    BY <1>0, <2>1, <2>3, AnswerTypes
  <2>. QED BY <1>5, <2>2, <2>3 DEF FetchMaintainer
<1>6. ASSUME RegistryTimeout(m) \/ Cancel(m)
      PROVE  TypesOK'
  <2>1. Answer(m, "refused") /\ UNCHANGED <<now, table, issue>>
    BY <1>6 DEF RegistryTimeout, Cancel
  <2>. QED BY <1>0, <2>1, AnswerTypes
<1>. QED BY <1>1, <1>2, <1>3, <1>4, <1>5, <1>6

(***************************************************************************)
(* The clock does not pass the deadline of a registry check.               *)
(***************************************************************************)
LEMMA TickTypes ==
    ASSUME TypesOK, Tick
    PROVE  TypesOK'
<1>0. Ttl \in Nat /\ Timeout \in Nat /\ MaxTime \in Nat /\ now \in Times
  BY ChallengeAssumption DEF TypesOK
<1>1. now' = now + 1 /\ UNCHANGED <<table, permits, issue, mutation>>
  BY DEF Tick
<1>2. ASSUME NEW m \in Mutations, InRegistry(m)
      PROVE  now < mutation[m].deadline /\ mutation[m].deadline \in Times
  BY <1>2 DEF Tick, TypesOK, MutationState
<1>3. now' \in Times
  <2>1. CASE now < MaxTime
    BY <1>0, <1>1, <2>1 DEF Times
  <2>2. CASE \E m \in Mutations : InRegistry(m)
    BY <1>0, <1>1, <1>2, <2>2 DEF Times
  <2>. QED BY <2>1, <2>2 DEF Tick
<1>4. ASSUME NEW m \in Mutations
      PROVE  MutationOK(m)'
  <2>1. MutationOK(m) /\ mutation'[m] = mutation[m]
    BY <1>1 DEF TypesOK
  <2>2. InRegistry(m) => now' <= mutation[m].deadline
    BY <1>0, <1>1, <1>2 DEF Times
  <2>. QED BY <2>1, <2>2 DEF MutationOK, InRegistry
<1>5. \A i \in Issues : IssueOK(i)'
  BY <1>1 DEF TypesOK, IssueOK
<1>. QED BY <1>1, <1>3, <1>4, <1>5 DEF TypesOK

-----------------------------------------------------------------------------
(***************************************************************************)
(* The mutations between the semaphore and their answer are as many as the *)
(* permits that are out.                                                   *)
(***************************************************************************)
LEMMA HoldersFinite ==
    IsFiniteSet(Holders) /\ Cardinality(Holders) \in Nat
BY ChallengeAssumption, FS_Subset, FS_CardinalityType DEF Holders

LEMMA PermitKept ==
    ASSUME PermitsOK, permits' = permits, Holders' = Holders
    PROVE  PermitsOK'
BY DEF PermitsOK, PermitsConserved, Holders

LEMMA PermitTaken ==
    ASSUME PermitsOK, NEW m \in Mutations, m \notin Holders, permits > 0,
           permits' = permits - 1, Holders' = Holders \cup {m}
    PROVE  PermitsOK'
<1>1. Cardinality(Holders') = Cardinality(Holders) + 1
  BY HoldersFinite, FS_AddElement
<1>2. permits + Cardinality(Holders) = MaxPermits /\ permits \in Nat
  BY DEF PermitsOK, PermitsConserved, Holders
<1>3. permits' \in Nat /\ permits' + Cardinality(Holders') = MaxPermits
  BY <1>1, <1>2, HoldersFinite
<1>. QED BY <1>3 DEF PermitsOK, PermitsConserved, Holders

LEMMA PermitReturned ==
    ASSUME PermitsOK, NEW m \in Mutations, m \in Holders,
           permits' = permits + 1, Holders' = Holders \ {m}
    PROVE  PermitsOK'
<1>1. Cardinality(Holders') = Cardinality(Holders) - 1
  BY HoldersFinite, FS_RemoveElement
<1>2. permits + Cardinality(Holders) = MaxPermits /\ permits \in Nat
  BY DEF PermitsOK, PermitsConserved, Holders
<1>3. permits' \in Nat /\ permits' + Cardinality(Holders') = MaxPermits
  BY <1>1, <1>2, HoldersFinite
<1>. QED BY <1>3 DEF PermitsOK, PermitsConserved, Holders

(***************************************************************************)
(* Answering, in whatever way, gives the permit back.                      *)
(***************************************************************************)
LEMMA AnswerPermits ==
    ASSUME TypesOK, PermitsOK, NEW m \in Mutations, HoldsPermit(m),
           NEW r \in {"authorized", "refused"}, Answer(m, r)
    PROVE  PermitsOK'
<1>1. mutation'[m].phase = r /\ \A q \in Mutations \ {m} : mutation'[q] = mutation[q]
  BY DEF Answer, TypesOK, Fresh, MutationState
<1>2. m \in Holders /\ Holders' = Holders \ {m}
  BY <1>1 DEF Holders, HoldsPermit
<1>3. permits' = permits + 1
  BY DEF Answer
<1>. QED BY <1>2, <1>3, PermitReturned

(***************************************************************************)
(* A permit is taken at the start of a mutation and returned with its      *)
(* answer; no other step touches the semaphore.                            *)
(***************************************************************************)
LEMMA PermitsStep ==
    ASSUME TypesOK, PermitsOK, [Next]_challengeVars
    PROVE  PermitsOK'
<1>0. mutation \in [Mutations -> MutationState]
  BY DEF TypesOK
<1>1. ASSUME UNCHANGED <<permits, mutation>>
      PROVE  PermitsOK'
  BY <1>1, PermitKept DEF Holders, HoldsPermit
<1>2. ASSUME NEW m \in Mutations,
             NEW n \in Nonces, NEW a \in Asns, NEW e \in Claims,
             NEW registered \in SUBSET Maintainers, StartMutation(m, n, a, e, registered)
      PROVE  PermitsOK'
  <2>1. /\ mutation[m].phase = "new" /\ permits > 0 /\ permits' = permits - 1
        /\ mutation'[m].phase = "consume"
        /\ \A q \in Mutations \ {m} : mutation'[q] = mutation[q]
    BY <1>0, <1>2 DEF StartMutation, Verified, MutationState
  <2>2. m \notin Holders /\ Holders' = Holders \cup {m}
    BY <2>1 DEF Holders, HoldsPermit
  <2>. QED BY <2>1, <2>2, PermitTaken
<1>3. ASSUME NEW m \in Mutations, RefuseMutation(m)
      PROVE  PermitsOK'
  <2>1. /\ mutation[m].phase = "new" /\ permits' = permits /\ mutation'[m].phase = "refused"
        /\ \A q \in Mutations \ {m} : mutation'[q] = mutation[q]
    BY <1>0, <1>3 DEF RefuseMutation, Fresh
  <2>2. Holders' = Holders
    BY <2>1 DEF Holders, HoldsPermit
  <2>. QED BY <2>1, <2>2, PermitKept
<1>4. ASSUME NEW m \in Mutations, HoldsPermit(m), permits' = permits,
             mutation'[m].phase \in {"aut_num", "mntner"},
             \A q \in Mutations \ {m} : mutation'[q] = mutation[q]
      PROVE  PermitsOK'
  <2>1. Holders' = Holders
    BY <1>4 DEF Holders, HoldsPermit
  <2>. QED BY <1>4, <2>1, PermitKept
<1>5. ASSUME NEW m \in Mutations, NEW ok \in BOOLEAN, consume_nonce(m, ok)
      PROVE  PermitsOK'
  <2>1. HoldsPermit(m)
    BY <1>5 DEF consume_nonce, HoldsPermit
  <2>2. CASE Answer(m, "refused")
    BY <2>1, <2>2, AnswerPermits
  <2>3. CASE ~Answer(m, "refused")
    <3>1. permits' = permits /\ mutation' = [mutation EXCEPT ![m] =
                               [@ EXCEPT !.phase = "aut_num", !.deadline = now + Timeout]]
      BY <1>5, <2>3 DEF consume_nonce
    <3>. QED BY <1>0, <1>4, <2>1, <3>1 DEF MutationState
  <2>. QED BY <2>2, <2>3
<1>6. ASSUME NEW m \in Mutations, NEW ok \in BOOLEAN, FetchAutNum(m, ok)
      PROVE  PermitsOK'
  <2>1. HoldsPermit(m)
    BY <1>6 DEF FetchAutNum, HoldsPermit
  <2>2. CASE Answer(m, "refused")
    BY <2>1, <2>2, AnswerPermits
  <2>3. CASE ~Answer(m, "refused")
    <3>1. permits' = permits /\ mutation' = [mutation EXCEPT ![m] =
                               [@ EXCEPT !.phase = "mntner", !.left = Maintainers]]
      BY <1>6, <2>3 DEF FetchAutNum
    <3>. QED BY <1>0, <1>4, <2>1, <3>1 DEF MutationState
  <2>. QED BY <2>2, <2>3
<1>7. ASSUME NEW m \in Mutations, NEW x \in Maintainers, NEW ok \in BOOLEAN,
             FetchMaintainer(m, x, ok)
      PROVE  PermitsOK'
  <2>1. HoldsPermit(m) /\ mutation[m].phase = "mntner"
    BY <1>7 DEF FetchMaintainer, HoldsPermit
  <2>2. CASE Answer(m, "refused") \/ Answer(m, "authorized")
    BY <2>1, <2>2, AnswerPermits
  <2>3. CASE ~(Answer(m, "refused") \/ Answer(m, "authorized"))
    <3>1. permits' = permits /\ mutation' = [mutation EXCEPT ![m].left = @ \ {x}]
      BY <1>7, <2>3 DEF FetchMaintainer
    <3>. QED BY <1>0, <1>4, <2>1, <3>1 DEF MutationState
  <2>. QED BY <2>2, <2>3
<1>8. ASSUME NEW m \in Mutations, RegistryTimeout(m) \/ Cancel(m)
      PROVE  PermitsOK'
  <2>1. HoldsPermit(m) /\ Answer(m, "refused")
    BY <1>8 DEF RegistryTimeout, Cancel, HoldsPermit, InRegistry
  <2>. QED BY <2>1, AnswerPermits
<1>9. ASSUME NEW i \in Issues,
             \/ \E a \in Asns : StartIssue(i, a)
             \/ \E ok \in BOOLEAN : PurgeNonces(i, ok)
             \/ \E n \in Nonces, ok \in BOOLEAN : insert_nonce(i, n, ok)
             \/ IssueFails(i)
      PROVE  UNCHANGED <<permits, mutation>>
  BY <1>9 DEF StartIssue, PurgeNonces, insert_nonce, IssueFails
<1>10. ASSUME Tick \/ Done \/ UNCHANGED challengeVars
       PROVE  UNCHANGED <<permits, mutation>>
  BY <1>10 DEF Tick, Done, challengeVars
<1>. QED BY <1>1, <1>2, <1>3, <1>5, <1>6, <1>7, <1>8, <1>9, <1>10 DEF Next

-----------------------------------------------------------------------------
(***************************************************************************)
(* Challenges that nobody spends or inserts in a step keep their balance.  *)
(***************************************************************************)
LEMMA SetsFinite ==
    ASSUME NEW n, NEW a, NEW e
    PROVE  /\ IsFiniteSet(Spenders(n, a, e)) /\ Cardinality(Spenders(n, a, e)) \in Nat
           /\ IsFiniteSet(Inserters(n, a, e)) /\ Cardinality(Inserters(n, a, e)) \in Nat
BY ChallengeAssumption, FS_Subset, FS_CardinalityType DEF Spenders, Inserters

LEMMA SetsFiniteNext ==
    ASSUME NEW n, NEW a, NEW e
    PROVE  /\ IsFiniteSet(Spenders(n, a, e)') /\ Cardinality(Spenders(n, a, e)') \in Nat
           /\ IsFiniteSet(Inserters(n, a, e)') /\ Cardinality(Inserters(n, a, e)') \in Nat
BY ChallengeAssumption, FS_Subset, FS_CardinalityType DEF Spenders, Inserters

LEMMA RoomKept ==
    ASSUME NEW n, NEW a, NEW e, RoomFor(n, a, e),
           Spenders(n, a, e)' \subseteq Spenders(n, a, e),
           Inserters(n, a, e) \subseteq Inserters(n, a, e)',
           table'[n] = Row(a, e) => table[n] = Row(a, e)
    PROVE  RoomFor(n, a, e)'
<1>1. Cardinality(Spenders(n, a, e)') <= Cardinality(Spenders(n, a, e))
  BY SetsFinite, FS_Subset
<1>2. Cardinality(Inserters(n, a, e)) <= Cardinality(Inserters(n, a, e)')
  BY SetsFiniteNext, FS_Subset
<1>. DEFINE s == Cardinality(Spenders(n, a, e)) t == Cardinality(Spenders(n, a, e)')
            u == Cardinality(Inserters(n, a, e)) v == Cardinality(Inserters(n, a, e)')
            in == table[n] = Row(a, e)           out == table'[n] = Row(a, e)
<1>3. s \in Nat /\ t \in Nat /\ u \in Nat /\ v \in Nat
  BY SetsFinite, SetsFiniteNext
<1>4. s <= u /\ (in => s < u)
  BY DEF RoomFor
<1>5. t <= s /\ u <= v /\ (out => in)
  BY <1>1, <1>2
<1>6. t <= v /\ (out => t < v)
  <2>. HIDE DEF s, t, u, v, in, out
  <2>. QED BY <1>3, <1>4, <1>5
<1>. QED BY <1>6 DEF RoomFor, Row

(***************************************************************************)
(* The steps of a call of issue_challenge: only an INSERT that finds its   *)
(* nonce free adds a challenge, and the call remembers it.                 *)
(***************************************************************************)
LEMMA IssueSpends ==
    ASSUME TypesOK, SpendOK, NEW i \in Issues,
           \/ \E a \in Asns : StartIssue(i, a)
           \/ \E ok \in BOOLEAN : PurgeNonces(i, ok)
           \/ \E n \in Nonces, ok \in BOOLEAN : insert_nonce(i, n, ok)
           \/ IssueFails(i)
    PROVE  SpendOK'
<1>. SUFFICES ASSUME NEW n \in Nonces, NEW a \in Asns, NEW e \in Times
              PROVE  RoomFor(n, a, e)'
  BY DEF SpendOK
<1>0. /\ issue \in [Issues -> IssueState] /\ IssueOK(i) /\ RoomFor(n, a, e)
      /\ table \in [Nonces -> NonceRow \cup {Nothing}]
      /\ Nothing \notin Nonces /\ Nothing \notin NonceRow
  BY ChallengeAssumption DEF TypesOK, SpendOK
<1>1. mutation' = mutation /\ Spenders(n, a, e)' = Spenders(n, a, e)
  BY DEF StartIssue, PurgeNonces, insert_nonce, IssueFails, Spenders
<1>2. Row(a, e) \in NonceRow /\ Row(a, e) # Nothing
  BY <1>0 DEF Row, NonceRow
<1>3. ASSUME \A j \in Issues \ {i} : issue'[j] = issue[j], i \notin Inserters(n, a, e)
      PROVE  Inserters(n, a, e) \subseteq Inserters(n, a, e)'
  BY <1>3 DEF Inserters
<1>4. ASSUME issue[i].phase \in Trying
      PROVE  i \notin Inserters(n, a, e)
  BY <1>0, <1>4 DEF IssueOK, Inserters
<1>5. ASSUME NEW b \in Asns, StartIssue(i, b)
      PROVE  RoomFor(n, a, e)'
  <2>1. /\ issue[i].phase = "new" /\ table' = table
        /\ \A j \in Issues \ {i} : issue'[j] = issue[j]
    BY <1>0, <1>5 DEF StartIssue
  <2>. QED BY <1>0, <1>1, <1>3, <1>4, <2>1, RoomKept DEF Trying
<1>6. ASSUME NEW ok \in BOOLEAN, PurgeNonces(i, ok)
      PROVE  RoomFor(n, a, e)'
  <2>1. /\ issue[i].phase = "purge" /\ table'[n] \in {table[n], Nothing}
        /\ \A j \in Issues \ {i} : issue'[j] = issue[j]
    BY <1>0, <1>6 DEF PurgeNonces, Purged
  <2>. QED BY <1>0, <1>1, <1>2, <1>3, <1>4, <2>1, RoomKept DEF Trying
<1>7. ASSUME IssueFails(i)
      PROVE  RoomFor(n, a, e)'
  <2>1. /\ issue[i].phase \in {"purge", "insert"} /\ table' = table
        /\ \A j \in Issues \ {i} : issue'[j] = issue[j]
    BY <1>0, <1>7 DEF IssueFails
  <2>. QED BY <1>0, <1>1, <1>3, <1>4, <2>1, RoomKept DEF Trying
<1>8. ASSUME NEW k \in Nonces, NEW ok \in BOOLEAN, insert_nonce(i, k, ok)
      PROVE  RoomFor(n, a, e)'
  <2>1. /\ issue[i].phase = "insert" /\ issue[i] \in IssueState
        /\ \A j \in Issues \ {i} : issue'[j] = issue[j]
    BY <1>0, <1>8 DEF insert_nonce
  <2>2. i \notin Inserters(n, a, e) /\ Inserters(n, a, e) \subseteq Inserters(n, a, e)'
    BY <1>3, <1>4, <2>1 DEF Trying
  <2>3. CASE table[k] # Nothing
    <3>1. table' = table
      BY <1>8, <2>3 DEF insert_nonce
    <3>. QED BY <1>0, <1>1, <2>2, <3>1, RoomKept
  <2>4. CASE table[k] = Nothing
    <3>1. /\ table' = [table EXCEPT ![k] = Row(issue[i].asn, issue[i].expires)]
          /\ issue'[i].nonce = k
          /\ issue'[i].asn = issue[i].asn /\ issue'[i].expires = issue[i].expires
      BY <1>0, <1>8, <2>4 DEF insert_nonce, Row, IssueState
    <3>2. CASE k = n /\ issue[i].asn = a /\ issue[i].expires = e
      <4>1. Inserters(n, a, e)' = Inserters(n, a, e) \cup {i}
        BY <2>1, <2>2, <3>1, <3>2 DEF Inserters
      <4>2. Cardinality(Inserters(n, a, e)') = Cardinality(Inserters(n, a, e)) + 1
        BY <2>2, <4>1, SetsFinite, FS_AddElement
      <4>3. Cardinality(Spenders(n, a, e)) <= Cardinality(Inserters(n, a, e))
        BY <1>0 DEF RoomFor
      <4>4. Cardinality(Spenders(n, a, e)') < Cardinality(Inserters(n, a, e)')
        BY <1>1, <4>2, <4>3, SetsFinite
      <4>. QED BY <4>4, SetsFiniteNext DEF RoomFor
    <3>3. CASE k = n /\ ~(issue[i].asn = a /\ issue[i].expires = e)
      <4>1. table'[n] = Row(issue[i].asn, issue[i].expires)
        BY <1>0, <3>1, <3>3
      <4>2. table'[n] # Row(a, e)
        BY <3>3, <4>1 DEF Row
      <4>. QED BY <1>0, <1>1, <2>2, <4>2, RoomKept
    <3>4. CASE k # n
      <4>1. table'[n] = table[n]
        BY <1>0, <3>1, <3>4
      <4>. QED BY <1>0, <1>1, <2>2, <4>1, RoomKept
    <3>. QED BY <3>2, <3>3, <3>4
  <2>. QED BY <2>3, <2>4
<1>. QED BY <1>5, <1>6, <1>7, <1>8

(***************************************************************************)
(* The steps of authorize_request: only the DELETE of consume_nonce makes  *)
(* a spender, and it takes the row away.                                   *)
(***************************************************************************)
LEMMA MutationSpends ==
    ASSUME TypesOK, SpendOK, NEW m \in Mutations,
           \/ \E n \in Nonces, a \in Asns, e \in Claims, registered \in SUBSET Maintainers :
                StartMutation(m, n, a, e, registered)
           \/ RefuseMutation(m)
           \/ \E ok \in BOOLEAN : consume_nonce(m, ok) \/ FetchAutNum(m, ok)
           \/ \E x \in Maintainers, ok \in BOOLEAN : FetchMaintainer(m, x, ok)
           \/ RegistryTimeout(m)
           \/ Cancel(m)
    PROVE  SpendOK'
<1>. SUFFICES ASSUME NEW n \in Nonces, NEW a \in Asns, NEW e \in Times
              PROVE  RoomFor(n, a, e)'
  BY DEF SpendOK
<1>0. /\ mutation \in [Mutations -> MutationState] /\ MutationOK(m) /\ RoomFor(n, a, e)
      /\ table \in [Nonces -> NonceRow \cup {Nothing}] /\ Nothing \notin NonceRow
  BY ChallengeAssumption DEF TypesOK, SpendOK
<1>1. issue' = issue /\ Inserters(n, a, e)' = Inserters(n, a, e)
  BY DEF StartMutation, RefuseMutation, consume_nonce, FetchAutNum, FetchMaintainer,
         RegistryTimeout, Cancel, Inserters
<1>2. Row(a, e) # Nothing
  BY <1>0 DEF Row, NonceRow
<1>3. \A q \in Mutations \ {m} : mutation'[q] = mutation[q]
  BY <1>0 DEF StartMutation, RefuseMutation, consume_nonce, FetchAutNum, FetchMaintainer,
              RegistryTimeout, Cancel, Answer
<1>4. ASSUME \/ mutation'[m].phase \notin Spent
             \/ /\ mutation[m].phase \in Spent /\ mutation'[m].nonce = mutation[m].nonce
                /\ mutation'[m].asn = mutation[m].asn /\ mutation'[m].expires = mutation[m].expires
      PROVE  Spenders(n, a, e)' \subseteq Spenders(n, a, e)
  BY <1>3, <1>4 DEF Spenders
<1>5. ASSUME Answer(m, "refused")
      PROVE  Spenders(n, a, e)' \subseteq Spenders(n, a, e)
  <2>1. mutation'[m].phase = "refused"
    BY <1>0, <1>5 DEF Answer, Fresh
  <2>. QED BY <1>4, <2>1 DEF Spent
<1>6. ASSUME NEW k \in Nonces, NEW b \in Asns, NEW f \in Claims,
             NEW registered \in SUBSET Maintainers, StartMutation(m, k, b, f, registered)
      PROVE  RoomFor(n, a, e)'
  <2>1. mutation'[m].phase = "consume" /\ table' = table
    BY <1>0, <1>6 DEF StartMutation, Verified, MutationState
  <2>. QED BY <1>0, <1>1, <1>4, <2>1, RoomKept DEF Spent
<1>7. ASSUME RefuseMutation(m)
      PROVE  RoomFor(n, a, e)'
  <2>1. mutation'[m].phase = "refused" /\ table' = table
    BY <1>0, <1>7 DEF RefuseMutation, Fresh
  <2>. QED BY <1>0, <1>1, <1>4, <2>1, RoomKept DEF Spent
<1>8. ASSUME NEW ok \in BOOLEAN, consume_nonce(m, ok)
      PROVE  RoomFor(n, a, e)'
  <2>0. mutation[m].phase = "consume" /\ mutation[m].nonce \in Nonces
    BY <1>0, <1>8 DEF consume_nonce, MutationOK
  <2>1. table'[n] \in {table[n], Nothing}
    BY <1>0, <1>8 DEF consume_nonce
  <2>2. CASE ~(ok /\ Matches(m))
    <3>1. Answer(m, "refused")
      BY <1>8, <2>2 DEF consume_nonce
    <3>. QED BY <1>0, <1>1, <1>2, <1>5, <2>1, <3>1, RoomKept
  <2>3. CASE ok /\ Matches(m)
    <3>1. /\ table' = [table EXCEPT ![mutation[m].nonce] = Nothing]
          /\ mutation'[m].phase = "aut_num" /\ mutation'[m].nonce = mutation[m].nonce
          /\ mutation'[m].asn = mutation[m].asn /\ mutation'[m].expires = mutation[m].expires
      BY <1>0, <1>8, <2>3 DEF consume_nonce, MutationState
    <3>2. table[mutation[m].nonce] = Row(mutation[m].asn, mutation[m].expires)
      BY <2>3 DEF Matches, Row
    <3>3. CASE mutation[m].nonce = n /\ mutation[m].asn = a /\ mutation[m].expires = e
      <4>1. m \notin Spenders(n, a, e) /\ Spenders(n, a, e)' = Spenders(n, a, e) \cup {m}
        BY <1>3, <2>0, <3>1, <3>3 DEF Spenders, Spent
      <4>2. Cardinality(Spenders(n, a, e)') = Cardinality(Spenders(n, a, e)) + 1
        BY <4>1, SetsFinite, FS_AddElement
      <4>3. Cardinality(Spenders(n, a, e)) < Cardinality(Inserters(n, a, e))
        BY <1>0, <3>2, <3>3 DEF RoomFor
      <4>4. Cardinality(Spenders(n, a, e)') <= Cardinality(Inserters(n, a, e)')
        BY <1>1, <4>2, <4>3, SetsFinite
      <4>5. table'[n] # Row(a, e)
        BY <1>0, <1>2, <3>1, <3>3
      <4>. QED BY <4>4, <4>5 DEF RoomFor, Row
    <3>4. CASE ~(mutation[m].nonce = n /\ mutation[m].asn = a /\ mutation[m].expires = e)
      <4>1. Spenders(n, a, e)' \subseteq Spenders(n, a, e)
        BY <1>3, <3>1, <3>4 DEF Spenders
      <4>. QED BY <1>0, <1>1, <1>2, <2>1, <4>1, RoomKept
    <3>. QED BY <3>3, <3>4
  <2>. QED BY <2>2, <2>3
<1>9. ASSUME NEW ok \in BOOLEAN, FetchAutNum(m, ok)
      PROVE  RoomFor(n, a, e)'
  <2>1. mutation[m].phase = "aut_num" /\ table' = table
    BY <1>9 DEF FetchAutNum
  <2>2. CASE ~Answer(m, "refused")
    <3>1. mutation' = [mutation EXCEPT ![m] = [@ EXCEPT !.phase = "mntner", !.left = Maintainers]]
      BY <1>9, <2>2 DEF FetchAutNum
    <3>2. Spenders(n, a, e)' \subseteq Spenders(n, a, e)
      BY <1>0, <1>4, <2>1, <3>1 DEF Spent, MutationState
    <3>. QED BY <1>0, <1>1, <2>1, <3>2, RoomKept
  <2>. QED BY <1>0, <1>1, <1>5, <2>1, <2>2, RoomKept
<1>10. ASSUME NEW x \in Maintainers, NEW ok \in BOOLEAN, FetchMaintainer(m, x, ok)
       PROVE  RoomFor(n, a, e)'
  <2>1. mutation[m].phase = "mntner" /\ table' = table
    BY <1>10 DEF FetchMaintainer
  <2>2. CASE ~Answer(m, "refused")
    <3>1. \/ mutation' = [mutation EXCEPT ![m].left = @ \ {x}]
          \/ mutation' = [mutation EXCEPT ![m] =
                            [@ EXCEPT !.phase = "authorized", !.left = {}, !.deadline = 0]]
      BY <1>10, <2>2 DEF FetchMaintainer, Answer
    <3>2. Spenders(n, a, e)' \subseteq Spenders(n, a, e)
      BY <1>0, <1>4, <2>1, <3>1 DEF Spent, MutationState
    <3>. QED BY <1>0, <1>1, <2>1, <3>2, RoomKept
  <2>. QED BY <1>0, <1>1, <1>5, <2>1, <2>2, RoomKept
<1>11. ASSUME RegistryTimeout(m) \/ Cancel(m)
       PROVE  RoomFor(n, a, e)'
  <2>1. Answer(m, "refused") /\ table' = table
    BY <1>11 DEF RegistryTimeout, Cancel
  <2>. QED BY <1>0, <1>1, <1>5, <2>1, RoomKept
<1>. QED BY <1>6, <1>7, <1>8, <1>9, <1>10, <1>11

-----------------------------------------------------------------------------
LEMMA ChallengeInit ==
    Init => ChallengeInv
<1>. SUFFICES ASSUME Init PROVE ChallengeInv
  OBVIOUS
<1>0. /\ Ttl \in Nat /\ Timeout \in Nat /\ MaxTime \in Nat /\ MaxPermits \in Nat
      /\ MaxTries \in Nat /\ 0 < MaxTries /\ Nothing \notin Nonces
      /\ Nothing \notin NonceRow /\ 0 \in Times
  BY ChallengeAssumption DEF Times
<1>1. \A i \in Issues : issue[i] \in IssueState /\ IssueOK(i)
  BY <1>0 DEF Init, IssueOK, IssueState, Trying
<1>2. issue \in [Issues -> IssueState]
  BY <1>1 DEF Init
<1>3. \A m \in Mutations : mutation[m] \in MutationState /\ MutationOK(m)
  BY <1>0 DEF Init, MutationOK, MutationState, Fresh, Spent, InRegistry
<1>4. mutation \in [Mutations -> MutationState]
  BY <1>3 DEF Init
<1>5. TypesOK
  BY <1>0, <1>1, <1>2, <1>3, <1>4 DEF Init, TypesOK
<1>6. Holders = {}
  BY DEF Init, Holders, HoldsPermit, Fresh
<1>7. PermitsOK
  BY <1>0, <1>6, FS_EmptySet DEF Init, PermitsOK, PermitsConserved, Holders
<1>8. ASSUME NEW n \in Nonces, NEW a \in Asns, NEW e \in Times
      PROVE  RoomFor(n, a, e)
  <2>1. Spenders(n, a, e) = {}
    BY DEF Init, Spenders, Spent, Fresh
  <2>2. table[n] # Row(a, e)
    BY <1>0 DEF Init, Row, NonceRow
  <2>3. Cardinality(Spenders(n, a, e)) <= Cardinality(Inserters(n, a, e))
    BY <2>1, SetsFinite, FS_EmptySet
  <2>. QED BY <2>2, <2>3 DEF RoomFor
<1>. QED BY <1>5, <1>7, <1>8 DEF ChallengeInv, SpendOK

LEMMA ChallengeStep ==
    ChallengeInv /\ [Next]_challengeVars => ChallengeInv'
<1>. SUFFICES ASSUME ChallengeInv, [Next]_challengeVars PROVE ChallengeInv'
  OBVIOUS
<1>0. TypesOK /\ PermitsOK /\ SpendOK
  BY DEF ChallengeInv
<1>1. PermitsOK'
  BY <1>0, PermitsStep
<1>2. ASSUME UNCHANGED challengeVars
      PROVE  TypesOK' /\ SpendOK'
  <2>1. TypesOK'
    BY <1>0, <1>2 DEF challengeVars, TypesOK, IssueOK, MutationOK, InRegistry
  <2>2. SpendOK'
    BY <1>0, <1>2 DEF challengeVars, SpendOK, RoomFor, Spenders, Inserters
  <2>. QED BY <2>1, <2>2
<1>3. ASSUME Tick
      PROVE  TypesOK' /\ SpendOK'
  <2>1. UNCHANGED <<table, issue, mutation>>
    BY <1>3 DEF Tick
  <2>2. SpendOK'
    BY <1>0, <2>1 DEF SpendOK, RoomFor, Spenders, Inserters
  <2>. QED BY <1>0, <1>3, <2>2, TickTypes
<1>4. ASSUME NEW i \in Issues,
             \/ \E a \in Asns : StartIssue(i, a)
             \/ \E ok \in BOOLEAN : PurgeNonces(i, ok)
             \/ \E n \in Nonces, ok \in BOOLEAN : insert_nonce(i, n, ok)
             \/ IssueFails(i)
      PROVE  TypesOK' /\ SpendOK'
  BY <1>0, <1>4, IssueTypes, IssueSpends
<1>5. ASSUME NEW m \in Mutations,
             \/ \E n \in Nonces, a \in Asns, e \in Claims, registered \in SUBSET Maintainers :
                  StartMutation(m, n, a, e, registered)
             \/ RefuseMutation(m)
             \/ \E ok \in BOOLEAN : consume_nonce(m, ok) \/ FetchAutNum(m, ok)
             \/ \E x \in Maintainers, ok \in BOOLEAN : FetchMaintainer(m, x, ok)
             \/ RegistryTimeout(m)
             \/ Cancel(m)
      PROVE  TypesOK' /\ SpendOK'
  BY <1>0, <1>5, MutationTypes, MutationSpends
<1>6. Done => UNCHANGED challengeVars
  BY DEF Done
<1>7. TypesOK' /\ SpendOK'
  BY <1>2, <1>3, <1>4, <1>5, <1>6 DEF Next
<1>. QED BY <1>1, <1>7 DEF ChallengeInv

LEMMA ChallengeInvariant ==
    Spec => []ChallengeInv
BY ChallengeInit, ChallengeStep, PTL DEF Spec

(***************************************************************************)
(* Every variable keeps its type: in particular issue_challenge tries no   *)
(* more than MaxTries nonces, and the semaphore neither drops below zero   *)
(* nor gives out more permits than it was made with.                       *)
(***************************************************************************)
THEOREM ChallengeTypes ==
    Spec => []ChallengeTypeOK
<1>1. ChallengeInv => ChallengeTypeOK
  <2>. SUFFICES ASSUME ChallengeInv PROVE ChallengeTypeOK
    OBVIOUS
  <2>1. permits + Cardinality(Holders) = MaxPermits /\ permits \in Nat
    BY DEF ChallengeInv, PermitsOK, PermitsConserved, Holders
  <2>2. permits \in 0 .. MaxPermits
    BY <2>1, HoldersFinite, ChallengeAssumption
  <2>. QED BY <2>2 DEF ChallengeInv, TypesOK, ChallengeTypeOK
<1>. QED BY <1>1, ChallengeInvariant, PTL

(***************************************************************************)
(* registry_limit: on no way out of authorize_request is a permit lost or  *)
(* returned twice.                                                         *)
(***************************************************************************)
THEOREM NoPermitLost ==
    Spec => []PermitsConserved
<1>1. ChallengeInv => PermitsConserved
  BY DEF ChallengeInv, PermitsOK
<1>. QED BY <1>1, ChallengeInvariant, PTL

(***************************************************************************)
(* No challenge authorizes more mutations than times it was inserted, for  *)
(* any number of racing calls.                                             *)
(***************************************************************************)
THEOREM ChallengeSpentOnce ==
    Spec => []SpentOnce
<1>1. ChallengeInv => SpentOnce
  <2>. SUFFICES ASSUME ChallengeInv, NEW m \in Mutations, mutation[m].phase = "authorized"
                PROVE  Cardinality({q \in Mutations :
                           /\ mutation[q].phase = "authorized"
                           /\ mutation[q].nonce = mutation[m].nonce
                           /\ mutation[q].asn = mutation[m].asn
                           /\ mutation[q].expires = mutation[m].expires})
                         <= Cardinality({i \in Issues :
                           /\ issue[i].nonce = mutation[m].nonce
                           /\ issue[i].asn = mutation[m].asn
                           /\ issue[i].expires = mutation[m].expires})
    BY DEF SpentOnce
  <2>. DEFINE n == mutation[m].nonce
              a == mutation[m].asn
              e == mutation[m].expires
              A == {q \in Mutations :
                           /\ mutation[q].phase = "authorized"
                           /\ mutation[q].nonce = n
                           /\ mutation[q].asn = a
                           /\ mutation[q].expires = e}
  <2>1. n \in Nonces /\ a \in Asns /\ e \in Times
    BY DEF ChallengeInv, TypesOK, MutationOK, MutationState, Spent
  <2>2. RoomFor(n, a, e)
    BY <2>1 DEF ChallengeInv, SpendOK
  <2>3. A \subseteq Spenders(n, a, e)
    BY DEF Spenders, Spent
  <2>4. Cardinality(A) <= Cardinality(Spenders(n, a, e)) /\ Cardinality(A) \in Nat
    BY <2>3, SetsFinite, FS_Subset, FS_CardinalityType
  <2>5. Cardinality(Spenders(n, a, e)) <= Cardinality(Inserters(n, a, e))
    BY <2>2 DEF RoomFor
  <2>6. Cardinality(A) <= Cardinality(Inserters(n, a, e))
    BY <2>4, <2>5, SetsFinite
  <2>. QED BY <2>6 DEF Inserters
<1>. QED BY <1>1, ChallengeInvariant, PTL

(***************************************************************************)
(* A challenge that is not expired leaves the table only in the hands of a *)
(* mutation that holds a permit.                                           *)
(***************************************************************************)
THEOREM NotBurnedWithoutPermit ==
    Spec => BurnedUnderPermit
<1>1. ASSUME ChallengeInv, [Next]_challengeVars,
             NEW n \in Nonces, table[n] # Nothing, table'[n] = Nothing, table[n].expires >= now
      PROVE  \E m \in Mutations : HoldsPermit(m) /\ mutation[m].nonce = n
  <2>0. /\ table \in [Nonces -> NonceRow \cup {Nothing}] /\ now \in Int
        /\ table[n].expires \in Int
    BY <1>1, ChallengeAssumption DEF ChallengeInv, TypesOK, NonceRow, Times
  <2>1. table' # table
    BY <1>1
  <2>2. ASSUME NEW i \in Issues, NEW ok \in BOOLEAN
        PROVE  ~PurgeNonces(i, ok)
    BY <1>1, <2>0 DEF PurgeNonces, Purged
  <2>3. ASSUME NEW i \in Issues, NEW k \in Nonces, NEW ok \in BOOLEAN
        PROVE  ~insert_nonce(i, k, ok)
    BY <1>1, <2>0 DEF insert_nonce
  <2>4. PICK m \in Mutations, ok \in BOOLEAN : consume_nonce(m, ok)
    BY <1>1, <2>1, <2>2, <2>3
       DEF Next, challengeVars, StartIssue, IssueFails, StartMutation, RefuseMutation,
           FetchAutNum, FetchMaintainer, RegistryTimeout, Cancel, Tick, Done
  <2>5. HoldsPermit(m)
    BY <2>4 DEF consume_nonce, HoldsPermit
  <2>6. mutation[m].nonce = n
    BY <1>1, <2>0, <2>4 DEF consume_nonce
  <2>. QED BY <2>5, <2>6
<1>2. ChallengeInv /\ [Next]_challengeVars =>
        [\A n \in Nonces :
           /\ table[n] # Nothing /\ table'[n] = Nothing
           /\ table[n].expires >= now
           => \E m \in Mutations : HoldsPermit(m) /\ mutation[m].nonce = n]_challengeVars
  BY <1>1
<1>. QED BY <1>2, ChallengeInvariant, PTL DEF Spec, BurnedUnderPermit

(***************************************************************************)
(* An authorization is granted at most one registry timeout after its      *)
(* challenge expired.                                                      *)
(***************************************************************************)
THEOREM NeverAuthorizedLate ==
    Spec => AuthorizedInTime
<1>1. ASSUME ChallengeInv, [Next]_challengeVars, NEW m \in Mutations,
             mutation[m].phase # "authorized", mutation'[m].phase = "authorized"
      PROVE  now <= mutation[m].expires + Timeout
  <2>0. /\ mutation \in [Mutations -> MutationState] /\ MutationOK(m)
        /\ now \in Int /\ mutation[m].deadline \in Int /\ mutation[m].expires \in Int
        /\ Timeout \in Int
    BY <1>1, ChallengeAssumption DEF ChallengeInv, TypesOK, MutationState, Times
  <2>1. ASSUME NEW q \in Mutations, Answer(q, "refused")
        PROVE  FALSE
    BY <1>1, <2>0, <2>1 DEF Answer, Fresh
  <2>2. mutation' # mutation
    BY <1>1
  <2>3. ASSUME NEW q \in Mutations,
               \/ \E n \in Nonces, a \in Asns, e \in Claims, registered \in SUBSET Maintainers :
                    StartMutation(q, n, a, e, registered)
               \/ RefuseMutation(q)
        PROVE  FALSE
    <3>1. ASSUME NEW n \in Nonces, NEW a \in Asns, NEW e \in Claims,
                 NEW registered \in SUBSET Maintainers, StartMutation(q, n, a, e, registered)
          PROVE  FALSE
      <4>1. mutation'[q].phase = "consume" /\ (q # m => mutation'[m] = mutation[m])
        BY <2>0, <3>1 DEF StartMutation, Verified, MutationState
      <4>. QED BY <1>1, <4>1
    <3>2. ~RefuseMutation(q)
      BY <1>1, <2>0 DEF RefuseMutation, Fresh
    <3>. QED BY <2>3, <3>1, <3>2
  <2>4. ASSUME NEW q \in Mutations, NEW ok \in BOOLEAN, consume_nonce(q, ok) \/ FetchAutNum(q, ok)
        PROVE  FALSE
    <3>1. \/ mutation' = [mutation EXCEPT ![q] =
                            [@ EXCEPT !.phase = "aut_num", !.deadline = now + Timeout]]
          \/ mutation' = [mutation EXCEPT ![q] =
                            [@ EXCEPT !.phase = "mntner", !.left = Maintainers]]
      BY <2>1, <2>4 DEF consume_nonce, FetchAutNum
    <3>. QED BY <1>1, <2>0, <3>1 DEF MutationState
  <2>5. ASSUME NEW q \in Mutations, RegistryTimeout(q) \/ Cancel(q)
        PROVE  FALSE
    BY <2>1, <2>5 DEF RegistryTimeout, Cancel
  <2>6. PICK q \in Mutations, x \in Maintainers, ok \in BOOLEAN : FetchMaintainer(q, x, ok)
    BY <1>1, <2>2, <2>3, <2>4, <2>5
       DEF Next, challengeVars, StartIssue, PurgeNonces, insert_nonce, IssueFails, Tick, Done
  <2>7. q = m
    BY <1>1, <2>0, <2>6 DEF FetchMaintainer, Answer
  <2>8. InRegistry(m)
    BY <2>6, <2>7 DEF FetchMaintainer, InRegistry
  <2>. QED BY <2>0, <2>8 DEF MutationOK
<1>2. ChallengeInv /\ [Next]_challengeVars =>
        [\A m \in Mutations :
           mutation[m].phase # "authorized" /\ mutation'[m].phase = "authorized" =>
             now <= mutation[m].expires + Timeout]_challengeVars
  BY <1>1
<1>. QED BY <1>2, ChallengeInvariant, PTL DEF Spec, AuthorizedInTime
=============================================================================
