-------------------------- MODULE ApplicationsProofs --------------------------
(***************************************************************************)
(* What Parties and Applications promise, for any parties, clients and     *)
(* rows.  The invariants of Parties are proved of PSpec alone; that the    *)
(* composed specification implements PSpec carries them over.              *)
(*                                                                         *)
(* That the ledger is a total needs sums over finite sets, which are folds *)
(* in an order that a choice makes: SumAdds shows that the choice does not *)
(* matter, by the smallest set for which it would.  With it, each request  *)
(* that reaches the ledger adds what it filed (AddingKeepsTotals).         *)
(***************************************************************************)
EXTENDS Applications, FiniteSetTheorems, WellFoundedInduction, TLAPS

(* Of the rows a check saw, none is an active consent of the kind asked    *)
(* for: they were not at the check, and an ended consent stays ended.      *)
SeenEnded(c) ==
    \A i \in c.seen : consent[i] # None /\ ~(Active(i) /\ Same(i, c))

ChecksHold ==
    /\ \A i \in Consents : consent[i] # None => SeenEnded(consent[i])
    /\ \A c \in Clients : call[c] # None => SeenEnded(call[c])

PInv == PTypeOK /\ PartiesExist /\ ChecksHold

(* What a step may do to one consent. *)
Keeps(i) ==
    consent[i] # None =>
        /\ consent'[i] # None
        /\ consent'[i].granter = consent[i].granter
        /\ consent'[i].grantee = consent[i].grantee
        /\ consent'[i].scope = consent[i].scope
        /\ consent'[i].seen = consent[i].seen
        /\ ~Active(i) => ~Active(i)'

-----------------------------------------------------------------------------
LEMMA PInitially == PInit => PInv
BY NoneAssumption DEF PInit, PInv, PTypeOK, PartiesExist, ChecksHold

(* Every request keeps the consents that are there. *)
LEMMA StepKeeps == ASSUME PTypeOK, PNext PROVE \A i \in Consents : Keeps(i)
<1> SUFFICES ASSUME NEW i \in Consents, consent[i] # None PROVE Keeps(i)
    BY DEF Keeps
<1>0. consent[i] \in Consent /\ consent[i] # None BY DEF PTypeOK
<1> USE DEF Keeps, Active
<1>1. CASE UNCHANGED consent BY <1>1
<1>2. ASSUME NEW c \in Clients, NEW j \in Consents, InsertConsent(c, j)
      PROVE Keeps(i)
    BY <1>2 DEF InsertConsent, Fresh, PTypeOK
<1>3. ASSUME NEW j \in Consents, RevokeConsent(j) PROVE Keeps(i)
  <2>1. CASE j # i BY <1>3, <2>1 DEF RevokeConsent, PTypeOK
  <2>2. CASE j = i
    <3>1. consent'[i] = [consent[i] EXCEPT !.revoked = TRUE]
      BY <1>3, <2>2 DEF RevokeConsent, PTypeOK
    <3>2. consent'[i] \in Consent BY <1>0, <3>1 DEF Consent
    <3> QED BY <1>0, <3>1, <3>2, NoneAssumption DEF Consent
  <2> QED BY <2>1, <2>2
<1>4. ASSUME NEW j \in Consents, Expire(j) PROVE Keeps(i)
  <2>1. CASE j # i BY <1>4, <2>1 DEF Expire, PTypeOK
  <2>2. CASE j = i
    <3>1. consent'[i] = [consent[i] EXCEPT !.expires = "past"]
      BY <1>4, <2>2 DEF Expire, PTypeOK
    <3>2. consent'[i] \in Consent BY <1>0, <3>1 DEF Consent, Expiry
    <3> QED BY <1>0, <3>1, <3>2, NoneAssumption DEF Consent
  <2> QED BY <2>1, <2>2
<1> QED
    BY <1>1, <1>2, <1>3, <1>4 DEF PNext, CreateParty, DeleteParty,
       AssignFieldParty, RemoveFieldParty, CreateConsent, AskConsent,
       CheckActiveConsent, GetParty, GiveUp

-----------------------------------------------------------------------------
(* The steps of Parties preserve the types. *)
LEMMA PTypeStep == ASSUME PTypeOK, [PNext]_pvars PROVE PTypeOK'
<1> USE DEF PTypeOK
<1>1. CASE UNCHANGED pvars BY <1>1 DEF pvars
<1>2. ASSUME NEW p \in Parties, CreateParty(p) \/ DeleteParty(p) PROVE PTypeOK'
    BY <1>2 DEF CreateParty, DeleteParty
<1>3. ASSUME NEW f \in Fields, NEW p \in Parties, NEW a \in Associations,
             AssignFieldParty(f, p, a)
      PROVE PTypeOK'
    BY <1>3 DEF AssignFieldParty
<1>4. ASSUME NEW f \in Fields, NEW p \in Parties, RemoveFieldParty(f, p)
      PROVE PTypeOK'
    BY <1>4 DEF RemoveFieldParty
<1>5. ASSUME NEW c \in Clients, CreateConsent(c) PROVE PTypeOK'
  <2>1. ASSUME NEW g \in Parties, NEW h \in Parties, NEW s \in Scopes,
               NEW x \in Expiry, AskConsent(c, g, h, s, x)
        PROVE PTypeOK'
    <3> DEFINE new == [granter |-> g, grantee |-> h, scope |-> s,
                       expires |-> x, seen |-> {}, at |-> "check"]
    <3>1. new \in Call BY <2>1 DEF AskConsent, Distinct, Call
    <3> QED BY <2>1, <3>1 DEF AskConsent
  <2>2. ASSUME call[c] # None PROVE call[c] \in Call
    BY <2>2
  <2>3. CASE CheckActiveConsent(c)
    <3>1. CASE Existing(c) # {} BY <2>3, <3>1 DEF CheckActiveConsent, End
    <3>2. CASE Existing(c) = {}
      <4> DEFINE seen == {i \in Consents : consent[i] # None}
                 checked == [call[c] EXCEPT !.at = "granter", !.seen = seen]
      <4>1. checked \in Call BY <2>2, <2>3 DEF CheckActiveConsent, Call
      <4>2. call' = [call EXCEPT ![c] = checked]
        BY <2>3, <3>2 DEF CheckActiveConsent
      <4> QED BY <2>3, <4>1, <4>2 DEF CheckActiveConsent
    <3> QED BY <3>1, <3>2
  <2>4. ASSUME NEW p \in Parties, NEW from, NEW to \in {"grantee", "insert"},
               call[c] # None, GetParty(c, p, from, to)
        PROVE PTypeOK'
    BY <2>2, <2>4, SMTT(30) DEF GetParty, End, Step, Call
  <2>5. ASSUME NEW i \in Consents, call[c] # None, InsertConsent(c, i)
        PROVE PTypeOK'
    <3> DEFINE row == [granter |-> call[c].granter, grantee |-> call[c].grantee,
                       scope |-> call[c].scope, expires |-> call[c].expires,
                       revoked |-> FALSE, seen |-> call[c].seen]
    <3>1. row \in Consent BY <2>2, <2>5 DEF Call, Consent
    <3> QED BY <2>5, <3>1 DEF InsertConsent, End
  <2>6. CASE GiveUp(c) BY <2>6 DEF GiveUp, End
  <2> QED
    BY <1>5, <2>1, <2>2, <2>3, <2>4, <2>5, <2>6 DEF CreateConsent, Call
<1>6. ASSUME NEW i \in Consents, RevokeConsent(i) PROVE PTypeOK'
    BY <1>6 DEF RevokeConsent, Consent
<1>7. ASSUME NEW i \in Consents, Expire(i) PROVE PTypeOK'
  <2> DEFINE row == [consent[i] EXCEPT !.expires = "past"]
  <2>1. row \in Consent BY <1>7 DEF Expire, Consent, Expiry
  <2>2. consent' = [consent EXCEPT ![i] = row] BY <1>7 DEF Expire
  <2> HIDE DEF row
  <2> QED BY <1>7, <2>1, <2>2 DEF Expire
<1> QED BY <1>1, <1>2, <1>3, <1>4, <1>5, <1>6, <1>7 DEF PNext

(* Their rows go on naming parties that are there. *)
LEMMA PartiesStep ==
    ASSUME PTypeOK, PartiesExist, [PNext]_pvars PROVE PartiesExist'
<1> USE DEF PartiesExist, Exists, PTypeOK
<1>1. CASE UNCHANGED pvars BY <1>1 DEF pvars
<1>2. ASSUME NEW p \in Parties, CreateParty(p) PROVE PartiesExist'
  <2>1. \A q \in Parties : Exists(q) => Exists(q)' BY <1>2 DEF CreateParty
  <2>2. \A i \in Consents : consent[i] # None =>
            consent[i].granter \in Parties /\ consent[i].grantee \in Parties
    BY DEF Consent
  <2> QED BY <1>2, <2>1, <2>2 DEF CreateParty
<1>3. ASSUME NEW p \in Parties, DeleteParty(p) PROVE PartiesExist'
  <2>1. \A i \in Consents : consent[i] # None =>
            consent[i].granter \in Parties /\ consent[i].grantee \in Parties
    BY DEF Consent
  <2> QED BY <1>3, <2>1 DEF DeleteParty, Holds
<1>4. ASSUME NEW f \in Fields, NEW p \in Parties, NEW a \in Associations,
             AssignFieldParty(f, p, a)
      PROVE PartiesExist'
    BY <1>4 DEF AssignFieldParty
<1>5. ASSUME NEW f \in Fields, NEW p \in Parties, RemoveFieldParty(f, p)
      PROVE PartiesExist'
    BY <1>5 DEF RemoveFieldParty
<1>6. ASSUME NEW c \in Clients, NEW i \in Consents, InsertConsent(c, i)
      PROVE PartiesExist'
    BY <1>6 DEF InsertConsent
<1>7. ASSUME NEW i \in Consents, RevokeConsent(i) \/ Expire(i)
      PROVE PartiesExist'
    BY <1>7, SMTT(30) DEF RevokeConsent, Expire, Consent
<1>8. CASE UNCHANGED <<party, consent, association>> BY <1>8
<1> QED
    BY <1>1, <1>2, <1>3, <1>4, <1>5, <1>6, <1>7, <1>8
       DEF PNext, CreateConsent, AskConsent, CheckActiveConsent, GetParty, GiveUp

(* A check stays right about what it saw. *)
LEMMA ChecksStep ==
    ASSUME PTypeOK, ChecksHold, [PNext]_pvars PROVE ChecksHold'
<1>1. CASE UNCHANGED pvars
    BY <1>1 DEF pvars, ChecksHold, SeenEnded, Active, Same
<1>2. CASE PNext
  <2>1. \A i \in Consents : Keeps(i) BY <1>2, StepKeeps
  <2>2. ASSUME NEW i \in Consents, consent'[i] # None
        PROVE  SeenEnded(consent[i])'
    <3>1. CASE consent[i] # None
      <4>1. consent[i].seen \subseteq Consents BY <3>1 DEF PTypeOK, Consent
      <4>2. SeenEnded(consent[i]) BY <3>1 DEF ChecksHold
      <4> QED BY <2>1, <3>1, <4>1, <4>2 DEF Keeps, SeenEnded, Same
    <3>2. CASE consent[i] = None
      <4>1. PICK c \in Clients : call[c] # None /\ InsertConsent(c, i)
        BY <1>2, <2>2, <3>2 DEF PTypeOK, PNext, CreateParty, DeleteParty,
           AssignFieldParty, RemoveFieldParty, CreateConsent, AskConsent,
           CheckActiveConsent, GetParty, GiveUp, InsertConsent,
           RevokeConsent, Expire
      <4>2. call[c].seen \subseteq Consents BY <4>1 DEF PTypeOK, Call
      <4>3. SeenEnded(call[c]) BY <4>1 DEF ChecksHold
      <4>4. /\ consent'[i].seen = call[c].seen
            /\ consent'[i].granter = call[c].granter
            /\ consent'[i].grantee = call[c].grantee
            /\ consent'[i].scope = call[c].scope
        BY <4>1 DEF InsertConsent, PTypeOK
      <4> QED BY <2>1, <4>2, <4>3, <4>4 DEF Keeps, SeenEnded, Same
    <3> QED BY <3>1, <3>2
  <2>3. ASSUME NEW c \in Clients, call'[c] # None PROVE SeenEnded(call[c])'
    <3>1. CASE call[c] # None /\ call'[c].seen = call[c].seen
                 /\ call'[c].granter = call[c].granter
                 /\ call'[c].grantee = call[c].grantee
                 /\ call'[c].scope = call[c].scope
      <4>1. call[c].seen \subseteq Consents BY <3>1 DEF PTypeOK, Call
      <4>2. SeenEnded(call[c]) BY <3>1 DEF ChecksHold
      <4> QED BY <2>1, <3>1, <4>1, <4>2 DEF Keeps, SeenEnded, Same
    <3>2. CASE call'[c] = call[c] BY <2>3, <3>1, <3>2
    <3>3. CASE CreateConsent(c)
      <4>1. ASSUME NEW g \in Parties, NEW h \in Parties, NEW s \in Scopes,
                   NEW x \in Expiry, AskConsent(c, g, h, s, x)
            PROVE  SeenEnded(call[c])'
        <5>1. call'[c].seen = {} BY <4>1 DEF AskConsent, PTypeOK
        <5> QED BY <5>1 DEF SeenEnded
      <4>2. CASE CheckActiveConsent(c)
        <5>1. call[c] \in Call BY <4>2 DEF CheckActiveConsent, PTypeOK
        <5>2. Existing(c) = {}
          BY <2>3, <4>2 DEF CheckActiveConsent, End, PTypeOK
        <5> DEFINE seen == {i \in Consents : consent[i] # None}
        <5>3. call'[c] = [call[c] EXCEPT !.at = "granter", !.seen = seen]
          BY <4>2, <5>2 DEF CheckActiveConsent, PTypeOK
        <5>5. /\ call'[c].seen = seen
              /\ call'[c].granter = call[c].granter
              /\ call'[c].grantee = call[c].grantee
              /\ call'[c].scope = call[c].scope
          BY <5>1, <5>3 DEF Call
        <5>4. UNCHANGED consent BY <4>2 DEF CheckActiveConsent
        <5> QED BY <5>2, <5>5, <5>4 DEF Existing, SeenEnded, Active, Same
      <4>3. ASSUME NEW p \in Parties, NEW from, NEW to \in {"grantee", "insert"},
                   call[c] # None, GetParty(c, p, from, to)
            PROVE  SeenEnded(call[c])'
        <5>1. call[c] \in Call BY <4>3 DEF PTypeOK
        <5>2. call' = [call EXCEPT ![c] = [@ EXCEPT !.at = to]]
          BY <2>3, <4>3 DEF GetParty, Step, End, PTypeOK
        <5> QED BY <3>1, <4>3, <5>1, <5>2 DEF PTypeOK, Call
      <4>4. ASSUME NEW i \in Consents, InsertConsent(c, i) PROVE FALSE
        BY <2>3, <4>4 DEF InsertConsent, End, PTypeOK
      <4>5. CASE GiveUp(c) BY <2>3, <4>5 DEF GiveUp, End, PTypeOK
      <4>6. ASSUME call[c] # None PROVE call[c] \in Call BY <4>6 DEF PTypeOK
      <4> QED
        BY <3>3, <4>1, <4>2, <4>3, <4>4, <4>5, <4>6 DEF CreateConsent, Call
    <3>4. ASSUME NEW k \in Clients, k # c, CreateConsent(k)
          PROVE  call'[c] = call[c]
      BY <3>4 DEF CreateConsent, AskConsent, CheckActiveConsent, GetParty,
         InsertConsent, GiveUp, Step, End, PTypeOK
    <3> QED
      BY <1>2, <3>2, <3>3, <3>4 DEF PNext, CreateParty, DeleteParty,
         AssignFieldParty, RemoveFieldParty, RevokeConsent, Expire
  <2> QED BY <2>2, <2>3 DEF ChecksHold
<1> QED BY <1>1, <1>2
-----------------------------------------------------------------------------
(* The rows of Parties keep their types and name parties that are there. *)
THEOREM PartiesInvariant == PSpec => []PInv
<1>1. PInit => PInv BY PInitially
<1>2. PInv /\ [PNext]_pvars => PInv'
    BY PTypeStep, PartiesStep, ChecksStep DEF PInv
<1> QED BY <1>1, <1>2, PTL DEF PSpec

(* The requests of this module leave the rows of Parties alone, and those  *)
(* of Parties do no more than they did: the composition implements PSpec.  *)
THEOREM Composed == Spec => PSpec
<1>1. Init => PInit BY DEF Init
<1>2. [Next]_vars => [PNext]_pvars
    BY DEF Next, vars, PartyRequest, CreateRecord, CreateApplicationRecord,
       UpsertFieldLoadingLedger, MissLedger, ConfirmApplication,
       CreateApplicationConfirmation, UpdateConfirmation
<1> QED BY <1>1, <1>2, PTL DEF Spec, PSpec

(* No consent and no field names a party that is not there. *)
THEOREM PartiesThere == Spec => []PartiesExist
BY Composed, PartiesInvariant, PTL DEF PInv

(* Two active consents of a kind come from requests that overlapped. *)
THEOREM TwinsOnlyFromOverlap == Spec => []TwinsOverlapped
<1>1. PInv => TwinsOverlapped
    BY DEF PInv, PTypeOK, ChecksHold, SeenEnded, TwinsOverlapped, Active
<1> QED BY <1>1, Composed, PartiesInvariant, PTL

(* An ended consent never counts again. *)
THEOREM ConsentsEnd == Spec => ConsentEnds
<1>1. PInv /\ [PNext]_pvars =>
        [\A i \in Consents : Keeps(i)]_pvars
    BY StepKeeps DEF PInv
<1>2. [\A i \in Consents : Keeps(i)]_pvars =>
        [\A i \in Consents : consent[i] # None =>
           /\ consent'[i] # None
           /\ consent'[i].granter = consent[i].granter
           /\ consent'[i].grantee = consent[i].grantee
           /\ consent'[i].scope = consent[i].scope
           /\ ~Active(i) => ~Active(i)']_pvars
    BY DEF Keeps
<1> QED
    BY <1>1, <1>2, Composed, PartiesInvariant, PTL DEF PSpec, ConsentEnds

-----------------------------------------------------------------------------
(* A set of natural numbers has a least one: induction over it is by the   *)
(* least counterexample.                                                   *)
LEMMA LessThanIsWellFounded ==
    \E R : IsWellFoundedOn(R, Nat) /\ \A x, y \in Nat : y < x => <<y, x>> \in R
<1>1. IsWellFoundedOn(OpToRel(<, Nat), Nat) BY NatLessThanWellFounded, Zenon
<1>2. \A x, y \in Nat : y < x => <<y, x>> \in OpToRel(<, Nat) BY DEF OpToRel
<1> QED BY <1>1, <1>2, Zenon

LEMMA LeastNatural ==
    ASSUME NEW T \in SUBSET Nat, T # {}
    PROVE  \E x \in T : \A y \in T : x <= y
<1>1. \A t \in T : t \in Nat OBVIOUS
<1>2. PICK R : IsWellFoundedOn(R, Nat) /\ \A x, y \in Nat : y < x => <<y, x>> \in R
    BY LessThanIsWellFounded
<1>3. PICK x \in T : \A y \in T : ~ (<<y, x>> \in R) BY <1>2, WFMin
<1>4. ASSUME NEW y \in T PROVE x <= y
  <2>1. x \in Nat /\ y \in Nat BY <1>1
  <2>2. ~ (y < x) BY <1>2, <1>3, <2>1, Zenon
  <2> QED BY <2>1, <2>2
<1> QED BY <1>4


(* The sum of g over a finite set, as a fold takes it: one element after   *)
(* the other, each chosen.                                                 *)
Pick(s) == CHOOSE x \in s : TRUE
Folds(it, g, S) ==
    it = [s \in SUBSET S |-> IF s = {} THEN 0 ELSE g[Pick(s)] + it[s \ {Pick(s)}]]
Sum(g, S) == (CHOOSE it : Folds(it, g, S))[S]

LEMMA PickIsIn == ASSUME NEW s, s # {} PROVE Pick(s) \in s
BY DEF Pick

(* Every set of finite sets has one of the least size. *)
LEMMA SmallestSet ==
    ASSUME NEW F, F # {}, \A s \in F : IsFiniteSet(s)
    PROVE  \E s \in F : \A t \in F : Cardinality(s) <= Cardinality(t)
<1> DEFINE T == {Cardinality(s) : s \in F}
<1>1. T \in SUBSET Nat /\ T # {} BY FS_CardinalityType
<1>2. PICK n \in T : \A k \in T : n <= k
  <2> HIDE DEF T
  <2> QED BY <1>1, LeastNatural
<1> QED BY <1>2

LEMMA OneLess ==
    ASSUME NEW s, IsFiniteSet(s), s # {}
    PROVE  /\ Pick(s) \in s /\ IsFiniteSet(s \ {Pick(s)})
           /\ ~(Cardinality(s) <= Cardinality(s \ {Pick(s)}))
<1>1. Pick(s) \in s BY PickIsIn
<1>2. IsFiniteSet(s \ {Pick(s)}) /\ Cardinality(s \ {Pick(s)}) = Cardinality(s) - 1
    BY <1>1, FS_RemoveElement
<1>3. Cardinality(s) \in Nat BY FS_CardinalityType
<1> QED BY <1>1, <1>2, <1>3

LEMMA PartIsSmaller ==
    ASSUME NEW U, IsFiniteSet(U), NEW s \in SUBSET U, s # U
    PROVE  IsFiniteSet(s) /\ ~(Cardinality(U) <= Cardinality(s))
<1>1. IsFiniteSet(s) /\ Cardinality(s) <= Cardinality(U) BY FS_Subset
<1>2. Cardinality(U) # Cardinality(s) BY FS_Subset
<1>3. Cardinality(s) \in Nat /\ Cardinality(U) \in Nat BY <1>1, FS_CardinalityType
<1> QED BY <1>1, <1>2, <1>3

(* Two folds agree on the sets they both know. *)
LEMMA FoldsAgree ==
    ASSUME NEW g, NEW S, IsFiniteSet(S), NEW R, NEW a, NEW b, Folds(a, g, S), Folds(b, g, R),
           S \subseteq R
    PROVE  \A s \in SUBSET S : a[s] = b[s]
<1> DEFINE F == {s \in SUBSET S : a[s] # b[s]}
<1> SUFFICES ASSUME F # {} PROVE FALSE OBVIOUS
<1>1. \A s \in F : IsFiniteSet(s) BY FS_Subset
<1>2. PICK s \in F : \A t \in F : Cardinality(s) <= Cardinality(t)
  <2> HIDE DEF F
  <2> QED BY <1>1, SmallestSet
<1>3. s \in SUBSET S /\ s \in SUBSET R /\ a[s] # b[s] /\ IsFiniteSet(s) BY <1>1
<1>4. /\ a[s] = IF s = {} THEN 0 ELSE g[Pick(s)] + a[s \ {Pick(s)}]
      /\ b[s] = IF s = {} THEN 0 ELSE g[Pick(s)] + b[s \ {Pick(s)}]
    BY <1>3 DEF Folds
<1>5. s # {} BY <1>3, <1>4
<1>6. s \ {Pick(s)} \in SUBSET S /\ s \ {Pick(s)} \notin F
    BY <1>2, <1>3, <1>5, OneLess
<1>7. a[s \ {Pick(s)}] = b[s \ {Pick(s)}] BY <1>6
<1> QED BY <1>3, <1>4, <1>5, <1>7

(* A fold of a set, cut down to a subset of it, is one of the subset. *)
LEMMA FoldsRestrict ==
    ASSUME NEW g, NEW S, NEW R \in SUBSET S, NEW a, Folds(a, g, S)
    PROVE  Folds([s \in SUBSET R |-> a[s]], g, R)
<1> DEFINE b == [s \in SUBSET R |-> a[s]]
<1>1. ASSUME NEW s \in SUBSET R
      PROVE  b[s] = IF s = {} THEN 0 ELSE g[Pick(s)] + b[s \ {Pick(s)}]
  <2>1. s \in SUBSET S /\ s \ {Pick(s)} \in SUBSET R OBVIOUS
  <2>2. a[s] = IF s = {} THEN 0 ELSE g[Pick(s)] + a[s \ {Pick(s)}] BY <2>1 DEF Folds
  <2>3. b[s] = a[s] /\ b[s \ {Pick(s)}] = a[s \ {Pick(s)}] BY <2>1
  <2> QED BY <2>2, <2>3
<1>2. b = [s \in SUBSET R |-> b[s]] OBVIOUS
<1> HIDE DEF b
<1>3. b = [s \in SUBSET R |-> IF s = {} THEN 0 ELSE g[Pick(s)] + b[s \ {Pick(s)}]]
    BY <1>1, <1>2
<1>4. Folds(b, g, R) BY <1>3 DEF Folds
<1> QED BY <1>4 DEF b

LEMMA FoldsExist ==
    ASSUME NEW g, NEW S, IsFiniteSet(S)
    PROVE  \E it : Folds(it, g, S)
<1> DEFINE F == {s \in SUBSET S : ~\E it : Folds(it, g, s)}
<1> SUFFICES ASSUME F # {} PROVE FALSE OBVIOUS
<1>1. \A s \in F : IsFiniteSet(s) BY FS_Subset
<1>2. PICK U \in F : \A t \in F : Cardinality(U) <= Cardinality(t)
  <2> HIDE DEF F
  <2> QED BY <1>1, SmallestSet
<1>3. U \in SUBSET S /\ IsFiniteSet(U) BY <1>1
<1>4. CASE U = {}
  <2> DEFINE it == [s \in SUBSET U |-> 0]
  <2>1. \A s \in SUBSET U : it[s] = IF s = {} THEN 0 ELSE g[Pick(s)] + it[s \ {Pick(s)}]
      BY <1>4
  <2>2. it = [s \in SUBSET U |-> it[s]] OBVIOUS
  <2> HIDE DEF it
  <2>3. Folds(it, g, U)
    <3>1. it = [s \in SUBSET U |-> IF s = {} THEN 0 ELSE g[Pick(s)] + it[s \ {Pick(s)}]]
        BY <2>1, <2>2
    <3> QED BY <3>1 DEF Folds
  <2> QED BY <2>3
<1>5. CASE U # {}
  <2> DEFINE V == U \ {Pick(U)}
             Value(s) == (CHOOSE a : Folds(a, g, s))[s]
             it == [s \in SUBSET U |-> IF s = U THEN g[Pick(U)] + Value(V) ELSE Value(s)]
  <2>1. \A s \in SUBSET U : s # U => \E a : Folds(a, g, s)
    <3> SUFFICES ASSUME NEW s \in SUBSET U, s # U PROVE \E a : Folds(a, g, s) OBVIOUS
    <3>1. s \in SUBSET S BY <1>3
    <3>2. ~(Cardinality(U) <= Cardinality(s)) BY <1>3, PartIsSmaller
    <3> QED BY <1>2, <3>1, <3>2
  <2>2. V \in SUBSET U /\ V # U BY <1>5, PickIsIn
  <2>3. ASSUME NEW s \in SUBSET U, s # U, s # {}
        PROVE  Value(s) = g[Pick(s)] + Value(s \ {Pick(s)})
    <3> DEFINE r == s \ {Pick(s)}
               a == CHOOSE x : Folds(x, g, s)
               b == CHOOSE x : Folds(x, g, r)
    <3>1. r \in SUBSET s /\ r \in SUBSET U /\ r # U BY <2>3
    <3>2. Folds(a, g, s) /\ Folds(b, g, r) BY <2>1, <2>3, <3>1
    <3>3. IsFiniteSet(r) BY <1>3, <3>1, FS_Subset
    <3> HIDE DEF a, b
    <3>4. b[r] = a[r] BY <3>1, <3>2, <3>3, FoldsAgree
    <3>5. a[s] = g[Pick(s)] + a[r] BY <2>3, <3>2 DEF Folds
    <3> QED BY <3>4, <3>5 DEF a, b
  <2>4. Value({}) = 0
    <3>1. {} \in SUBSET U /\ {} # U BY <1>5
    <3> DEFINE a == CHOOSE x : Folds(x, g, {})
    <3>2. Folds(a, g, {}) BY <2>1, <3>1
    <3> HIDE DEF a
    <3>3. a[{}] = 0 BY <3>2 DEF Folds
    <3> QED BY <3>3 DEF a
  <2>5. ASSUME NEW s \in SUBSET U
        PROVE  it[s] = IF s = {} THEN 0 ELSE g[Pick(s)] + it[s \ {Pick(s)}]
    <3> DEFINE r == s \ {Pick(s)}
    <3> HIDE DEF Value
    <3>1. CASE s = {} BY <1>5, <2>4, <3>1
    <3>2. CASE s = U
      <4>1. it[s] = g[Pick(U)] + Value(V) BY <3>2
      <4>2. it[V] = Value(V) BY <2>2
      <4> QED BY <1>5, <3>2, <4>1, <4>2
    <3>3. CASE s # U /\ s # {}
      <4>1. r \in SUBSET U /\ r # U BY <3>3
      <4>2. it[s] = Value(s) /\ it[r] = Value(r) BY <3>3, <4>1
      <4>3. Value(s) = g[Pick(s)] + Value(r) BY <2>3, <3>3
      <4> QED BY <3>3, <4>2, <4>3
    <3> QED BY <3>1, <3>2, <3>3
  <2>6. it = [s \in SUBSET U |-> it[s]] OBVIOUS
  <2> HIDE DEF it
  <2>7. it = [s \in SUBSET U |-> IF s = {} THEN 0 ELSE g[Pick(s)] + it[s \ {Pick(s)}]]
      BY <2>5, <2>6
  <2>8. Folds(it, g, U) BY <2>7 DEF Folds
  <2> QED BY <2>8
<1> QED BY <1>4, <1>5

LEMMA SumOfNothing == ASSUME NEW g PROVE Sum(g, {}) = 0
<1>1. PICK it : Folds(it, g, {}) BY FoldsExist, FS_EmptySet
<1> DEFINE a == CHOOSE x : Folds(x, g, {})
<1>2. Folds(a, g, {}) BY <1>1
<1> HIDE DEF a
<1>3. a[{}] = 0 BY <1>2 DEF Folds
<1> QED BY <1>3 DEF a, Sum

LEMMA SumStep ==
    ASSUME NEW g, NEW S, IsFiniteSet(S), S # {}
    PROVE  Sum(g, S) = g[Pick(S)] + Sum(g, S \ {Pick(S)})
<1> DEFINE R == S \ {Pick(S)}
           a == CHOOSE x : Folds(x, g, S)
           b == CHOOSE x : Folds(x, g, R)
<1>1. IsFiniteSet(R) /\ R \in SUBSET S BY OneLess
<1>2. Folds(a, g, S) /\ Folds(b, g, R) BY <1>1, FoldsExist
<1> HIDE DEF a, b
<1>3. b[R] = a[R] BY <1>1, <1>2, FoldsAgree
<1>4. a[S] = g[Pick(S)] + a[R] BY <1>2 DEF Folds
<1> QED BY <1>3, <1>4 DEF a, b, Sum

(* The choices do not matter: a sum is a natural number, and one element   *)
(* more adds its weight.                                                   *)
LEMMA SumAdds ==
    ASSUME NEW g, NEW S, IsFiniteSet(S), \A x \in S : g[x] \in Nat
    PROVE  /\ Sum(g, S) \in Nat
           /\ \A x \in S : Sum(g, S) = g[x] + Sum(g, S \ {x})
<1> DEFINE Good(s) == Sum(g, s) \in Nat /\ \A x \in s : Sum(g, s) = g[x] + Sum(g, s \ {x})
           F == {s \in SUBSET S : ~Good(s)}
<1> SUFFICES ASSUME F # {} PROVE FALSE OBVIOUS
<1>1. \A s \in F : IsFiniteSet(s) BY FS_Subset
<1>2. PICK U \in F : \A t \in F : Cardinality(U) <= Cardinality(t)
  <2> HIDE DEF F
  <2> QED BY <1>1, SmallestSet
<1>3. U \in SUBSET S /\ IsFiniteSet(U) /\ ~Good(U) BY <1>1
<1>4. ASSUME NEW s \in SUBSET U, s # U PROVE Good(s)
  <2>1. IsFiniteSet(U) BY <1>3
  <2>2. ~(Cardinality(U) <= Cardinality(s)) BY <1>4, <2>1, PartIsSmaller
  <2>3. s \in SUBSET S BY <1>3
  <2> HIDE DEF Good
  <2> QED BY <1>2, <2>2, <2>3
<1>5. U # {}
  <2>1. Good({}) BY SumOfNothing
  <2> HIDE DEF Good
  <2> QED BY <1>3, <2>1
<1> DEFINE p == Pick(U)
<1>6. p \in U BY <1>5, PickIsIn
<1> HIDE DEF p
<1>7. Sum(g, U) = g[p] + Sum(g, U \ {p}) BY <1>3, <1>5, SumStep DEF p
<1>8. g[p] \in Nat /\ Sum(g, U \ {p}) \in Nat
  <2>1. Good(U \ {p}) BY <1>4, <1>6
  <2> QED BY <1>3, <1>6, <2>1
<1>9. ASSUME NEW x \in U PROVE Sum(g, U) = g[x] + Sum(g, U \ {x})
  <2>1. CASE x = p BY <1>7, <2>1
  <2>2. CASE x # p
    <3>1. x \in U \ {p} /\ p \in U \ {x} BY <1>6, <2>2
    <3>2. Good(U \ {p}) /\ Good(U \ {x}) BY <1>4, <1>6
    <3>3. (U \ {p}) \ {x} = (U \ {x}) \ {p} OBVIOUS
    <3>4. Sum(g, U \ {p}) = g[x] + Sum(g, (U \ {p}) \ {x}) BY <3>1, <3>2
    <3>5. Sum(g, U \ {x}) = g[p] + Sum(g, (U \ {p}) \ {x}) BY <3>1, <3>2, <3>3
    <3>6. Good((U \ {p}) \ {x}) BY <1>4, <3>1
    <3>7. Sum(g, (U \ {p}) \ {x}) \in Nat BY <3>6
    <3>8. g[x] \in Nat BY <1>3
    <3> QED BY <1>7, <1>8, <3>4, <3>5, <3>7, <3>8
  <2> QED BY <2>1, <2>2
<1>10. Sum(g, U) \in Nat BY <1>7, <1>8
<1> QED BY <1>3, <1>9, <1>10

LEMMA SumOfSame ==
    ASSUME NEW g, NEW h, NEW S, \A x \in S : g[x] = h[x]
    PROVE  Sum(g, S) = Sum(h, S)
<1>1. ASSUME NEW it PROVE Folds(it, g, S) <=> Folds(it, h, S)
  <2>1. \A s \in SUBSET S : s # {} => g[Pick(s)] = h[Pick(s)] BY PickIsIn
  <2>2. [s \in SUBSET S |-> IF s = {} THEN 0 ELSE g[Pick(s)] + it[s \ {Pick(s)}]]
          = [s \in SUBSET S |-> IF s = {} THEN 0 ELSE h[Pick(s)] + it[s \ {Pick(s)}]]
      BY <2>1
  <2> QED BY <2>2 DEF Folds
<1>2. (CHOOSE it : Folds(it, g, S)) = (CHOOSE it : Folds(it, h, S)) BY <1>1
<1> QED BY <1>2 DEF Sum

(* The fold of the community modules is such a sum. *)
LEMMA SumOfField ==
    ASSUME NEW h, NEW g, NEW S, \A x \in S : g[x] = h[x].tons
    PROVE  MapThenSumSet(LAMBDA i : h[i].tons, S) = Sum(g, S)
<1> DEFINE Of(it) == it = [s \in SUBSET S |->
                IF s = {} THEN 0 ELSE h[Pick(s)].tons + it[s \ {Pick(s)}]]
<1>1. MapThenSumSet(LAMBDA i : h[i].tons, S) = (CHOOSE it : Of(it))[S]
    BY DEF MapThenSumSet, MapThenFoldSet, Pick
<1>2. ASSUME NEW it PROVE Of(it) <=> Folds(it, g, S)
  <2>1. \A s \in SUBSET S : s # {} => g[Pick(s)] = h[Pick(s)].tons BY PickIsIn
  <2>2. [s \in SUBSET S |-> IF s = {} THEN 0 ELSE g[Pick(s)] + it[s \ {Pick(s)}]]
          = [s \in SUBSET S |->
               IF s = {} THEN 0 ELSE h[Pick(s)].tons + it[s \ {Pick(s)}]]
      BY <2>1
  <2> QED BY <2>2 DEF Folds
<1> HIDE DEF Of
<1>3. (CHOOSE it : Of(it)) = (CHOOSE it : Folds(it, g, S)) BY <1>2
<1> QED BY <1>1, <1>3 DEF Sum

-----------------------------------------------------------------------------
LEMMA LaterIsDate == ASSUME NEW a \in Dates, NEW b \in Dates
                     PROVE  Max({a, b}) \in Dates
<1>1. a \in Nat /\ b \in Nat BY DatesAssumption
<1>2. \E x \in {a, b} : \A y \in {a, b} : x >= y BY <1>1
<1> QED BY <1>2 DEF Max

LEMMA AddedIsEntry ==
    ASSUME NEW e \in Entry \cup {None}, NEW r \in Record
    PROVE  Added(e, r) \in Entry
<1>1. r.tons \in Nat /\ r.date \in Dates BY TonsAssumption DEF Record
<1>2. CASE e = None BY <1>1, <1>2 DEF Added, Entry
<1>3. CASE e # None
  <2>1. e.tons \in Nat /\ e.last \in Dates BY <1>3 DEF Entry
  <2>2. e.tons + r.tons \in Nat BY <1>1, <2>1
  <2>3. Max({e.last, r.date}) \in Dates BY <1>1, <2>1, LaterIsDate
  <2> QED BY <1>3, <2>2, <2>3 DEF Added, Entry
<1> QED BY <1>2, <1>3

(* What is filed is typed, names parties that are there, and the row that  *)
(* a second statement is still to follow is stored.                        *)
AInv ==
    /\ TypeOK
    /\ FiledExist
    /\ \A q \in Filers :
         filing[q] # None =>
            /\ filing[q].at = "ledger" => record[filing[q].id] # None
            /\ filing[q].at = "update" => confirmation[filing[q].id] # None

LEMMA PartyRequestKeeps == ASSUME AInv, PartyRequest PROVE FiledExist'
BY DEF AInv, TypeOK, PTypeOK, PartyRequest, avars, FiledExist, Filed, Exists,
   Record, Confirmation

LEMMA FilingStep == ASSUME AInv, [Next]_vars PROVE AInv'
<1>0. /\ TypeOK /\ PTypeOK /\ FiledExist BY DEF AInv, TypeOK
<1> USE DEF AInv
<1>1. CASE UNCHANGED vars
    BY <1>0, <1>1 DEF vars, pvars, avars, TypeOK, PTypeOK, FiledExist, Exists
<1>2. CASE PartyRequest
  <2>1. PTypeOK' BY <1>0, <1>2, PTypeStep DEF PartyRequest
  <2> QED BY <1>0, <1>2, <2>1, PartyRequestKeeps
          DEF PartyRequest, avars, TypeOK
<1>3. ASSUME UNCHANGED pvars PROVE PTypeOK' /\ \A p \in Parties : Exists(p)' = Exists(p)
    BY <1>0, <1>3 DEF pvars, PTypeOK, Exists
<1>4. ASSUME NEW q \in Filers, NEW i \in Records, NEW r \in Record,
             CreateApplicationRecord(q, i, r)
      PROVE  AInv'
  <2>1. UNCHANGED pvars BY <1>4 DEF CreateApplicationRecord
  <2>2. [at |-> "ledger", id |-> i] \in Filing BY DEF Filing
  <2>3. r # None BY NothingAssumption
  <2>4. TypeOK'
    BY <1>0, <1>3, <1>4, <2>1, <2>2 DEF CreateApplicationRecord, TypeOK
  <2>5. FiledExist'
    BY <1>0, <1>4, <2>1 DEF CreateApplicationRecord, TypeOK, FiledExist,
       Exists, pvars
  <2> QED
    BY <1>0, <1>4, <2>3, <2>4, <2>5 DEF CreateApplicationRecord, TypeOK
<1>5. ASSUME NEW q \in Filers, filing[q] # None, filing[q].at = "ledger",
             \/ UpsertFieldLoadingLedger(q, record[filing[q].id])
             \/ MissLedger(q, filing[q].id)
      PROVE  AInv'
  <2> DEFINE i == filing[q].id
             r == record[i]
  <2>1. UNCHANGED pvars /\ UNCHANGED <<record, confirmation>>
    BY <1>5 DEF UpsertFieldLoadingLedger, MissLedger
  <2>2. filing' = [filing EXCEPT ![q] = None]
    BY <1>5 DEF UpsertFieldLoadingLedger, MissLedger
  <2>3. i \in Records
    <3>1. filing[q] \in Filing BY <1>0, <1>5 DEF TypeOK
    <3>2. \A x \in [at: {"update"}, id: Confirmations] : x.at # "ledger"
      OBVIOUS
    <3>3. filing[q] \in [at: {"ledger"}, id: Records]
      BY <1>5, <3>1, <3>2 DEF Filing
    <3> QED BY <3>3
  <2>4. r \in Record BY <1>0, <1>5, <2>3 DEF TypeOK
  <2>5. ledger' \in [Fields -> [Years -> Entry \cup {None}]]
    <3>1. CASE MissLedger(q, i) BY <1>0, <3>1 DEF MissLedger, TypeOK
    <3>2. CASE UpsertFieldLoadingLedger(q, r)
      <4>1. r.field \in Fields /\ YearOf[r.date] \in Years
        BY <2>4 DEF Record, Years
      <4>2. Added(ledger[r.field][YearOf[r.date]], r) \in Entry
        BY <1>0, <2>4, <4>1, AddedIsEntry DEF TypeOK
      <4> DEFINE sum == Added(ledger[r.field][YearOf[r.date]], r)
                 years == [ledger[r.field] EXCEPT ![YearOf[r.date]] = sum]
      <4>3. ledger' = [ledger EXCEPT ![r.field] = years]
        BY <3>2 DEF UpsertFieldLoadingLedger
      <4>4. years \in [Years -> Entry \cup {None}]
        BY <1>0, <4>1, <4>2 DEF TypeOK
      <4> HIDE DEF years
      <4> QED BY <1>0, <4>1, <4>3, <4>4 DEF TypeOK
    <3> QED BY <1>5, <3>1, <3>2
  <2>6. missed' \subseteq Records
    BY <1>0, <1>5, <2>3 DEF UpsertFieldLoadingLedger, MissLedger, TypeOK
  <2>7. TypeOK' BY <1>0, <1>3, <2>1, <2>2, <2>5, <2>6 DEF TypeOK
  <2>8. FiledExist' BY <1>0, <2>1 DEF FiledExist, Exists, pvars
  <2> QED BY <1>0, <2>1, <2>2, <2>7, <2>8 DEF TypeOK
<1>6. ASSUME NEW q \in Filers, NEW i \in Confirmations, NEW n \in Records,
             NEW p \in Parties, CreateApplicationConfirmation(q, i, n, p)
      PROVE  AInv'
  <2> DEFINE new == [record |-> n, farmer |-> p, confirmed |-> TRUE,
                     dated |-> FALSE]
  <2>1. UNCHANGED pvars BY <1>6 DEF CreateApplicationConfirmation
  <2>2. [at |-> "update", id |-> i] \in Filing BY DEF Filing
  <2>3. new \in Confirmation BY DEF Confirmation
  <2>4. TypeOK'
    BY <1>0, <1>3, <1>6, <2>1, <2>2, <2>3
       DEF CreateApplicationConfirmation, TypeOK
  <2>5. FiledExist'
    BY <1>0, <1>6, <2>1 DEF CreateApplicationConfirmation, TypeOK, FiledExist,
       Exists, pvars
  <2>6. new # None BY <2>3, NothingAssumption
  <2>7. /\ confirmation' = [confirmation EXCEPT ![i] = new]
        /\ filing' = [filing EXCEPT ![q] = [at |-> "update", id |-> i]]
        /\ UNCHANGED record
    BY <1>6 DEF CreateApplicationConfirmation
  <2>8. \A k \in Confirmations : confirmation[k] # None => confirmation'[k] # None
    BY <1>0, <2>6, <2>7 DEF TypeOK
  <2>9. confirmation'[i] # None BY <1>0, <2>6, <2>7 DEF TypeOK
  <2>10. ASSUME NEW k \in Filers, filing'[k] # None
         PROVE  /\ filing'[k].at = "ledger" => record'[filing'[k].id] # None
                /\ filing'[k].at = "update" => confirmation'[filing'[k].id] # None
    <3>1. CASE k = q BY <1>0, <2>7, <2>9, <3>1 DEF TypeOK
    <3>2. CASE k # q
      <4>1. filing'[k] = filing[k] /\ filing[k] \in Filing
        BY <1>0, <2>7, <2>10, <3>2 DEF TypeOK
      <4>2. filing[k].at = "update" => filing[k].id \in Confirmations
        BY <4>1 DEF Filing
      <4> QED BY <2>7, <2>8, <2>10, <4>1, <4>2
    <3> QED BY <3>1, <3>2
  <2> QED BY <2>4, <2>5, <2>10
<1>7. ASSUME NEW q \in Filers, NEW i \in Confirmations, UpdateConfirmation(q, i)
      PROVE  AInv'
  <2>1. UNCHANGED pvars BY <1>7 DEF UpdateConfirmation
  <2>5. filing[q] # None /\ confirmation[i] # None
    BY <1>7 DEF UpdateConfirmation
  <2> DEFINE old == confirmation[i]
             new == [old EXCEPT !.confirmed = TRUE, !.dated = TRUE]
  <2>2. confirmation' \in [Confirmations -> Confirmation \cup {None}]
    <3>1. CASE confirmation' = confirmation BY <1>0, <3>1 DEF TypeOK
    <3>2. CASE confirmation' = [confirmation EXCEPT ![i] = new]
      <4>1. old \in Confirmation BY <1>0, <2>5 DEF TypeOK
      <4>2. new \in Confirmation BY <4>1 DEF Confirmation
      <4> QED BY <1>0, <3>2, <4>2 DEF TypeOK
    <3> QED BY <1>7, <3>1, <3>2 DEF UpdateConfirmation
  <2>3. TypeOK' BY <1>0, <1>3, <1>7, <2>1, <2>2 DEF UpdateConfirmation, TypeOK
  <2>6. \A k \in Confirmations :
          /\ confirmation'[k] # None => confirmation[k] # None
          /\ confirmation[k] # None =>
               /\ confirmation'[k] # None
               /\ confirmation'[k].farmer = confirmation[k].farmer
    <3>1. old \in Confirmation BY <1>0, <2>5 DEF TypeOK
    <3>2. new \in Confirmation /\ new.farmer = old.farmer
      BY <3>1 DEF Confirmation
    <3>3. new # None BY <3>2, NothingAssumption
    <3> QED BY <1>0, <1>7, <2>5, <3>2, <3>3 DEF UpdateConfirmation, TypeOK
  <2>4. FiledExist'
    BY <1>0, <1>7, <2>1, <2>6 DEF UpdateConfirmation, FiledExist, Exists, pvars
  <2> QED
    BY <1>0, <1>7, <2>3, <2>4, <2>6 DEF UpdateConfirmation, TypeOK, Filing
<1> QED
    BY <1>1, <1>2, <1>4, <1>5, <1>6, <1>7
       DEF Next, CreateRecord, ConfirmApplication

(* The rows of both modules keep their types, and the filed ones name      *)
(* parties that are there.                                                 *)
THEOREM FilingInvariant == Spec => []AInv
<1>1. Init => AInv
    BY PInitially DEF Init, AInv, TypeOK, FiledExist, PInv
<1>2. AInv /\ [Next]_vars => AInv' BY FilingStep
<1> QED BY <1>1, <1>2, PTL DEF Spec

(* Every variable has its type. *)
THEOREM TypeCorrect == Spec => []TypeOK
BY FilingInvariant, PTL DEF AInv

(* No record and no confirmation names a party that is not there. *)
THEOREM FiledThere == Spec => []FiledExist
BY FilingInvariant, PTL DEF AInv

(* No row at all names a party that is not there. *)
THEOREM NamedThere == Spec => []NamedExist
BY PartiesThere, FiledThere, PTL DEF NamedExist

-----------------------------------------------------------------------------
(* What the ledger rests on: only finitely many records are stored at a    *)
(* time, a record that is still to reach the ledger is stored and was not  *)
(* missed, and one request has to bring it there.                          *)
Stored == {i \in Records : record[i] # None}
Follows(q, i) == filing[q] = [at |-> "ledger", id |-> i]
Weight == [i \in Records |-> record[i].tons]

OneFollows ==
    /\ IsFiniteSet(Stored)
    /\ missed \subseteq Stored
    /\ \A i \in Records : Pending(i) => i \in Stored \ missed
    /\ \A i \in Records, q \in Filers, k \in Filers :
         Follows(q, i) /\ Follows(k, i) => q = k

(* An entry fits the records that reached it, in terms of one more record: *)
(* that its date is the last of theirs is said without a maximum.          *)
Latest(d, S) == d \in {record[i].date : i \in S} /\ \A i \in S : record[i].date <= d
Totals(f, y) ==
    /\ Counted(f, y) = {} => ledger[f][y] = None
    /\ Counted(f, y) # {} =>
         /\ ledger[f][y] # None
         /\ ledger[f][y].tons = Sum(Weight, Counted(f, y))
         /\ Latest(ledger[f][y].last, Counted(f, y))
LInv == OneFollows /\ \A f \in Fields, y \in Years : Totals(f, y)

(* What reached the ledger is stored, and so is a finite set of records.   *)
LEMMA CountedAre ==
    ASSUME TypeOK, OneFollows, NEW f, NEW y
    PROVE  /\ IsFiniteSet(Counted(f, y))
           /\ \A i \in Counted(f, y) : /\ i \in Records /\ record[i] \in Record
                                       /\ Weight[i] = record[i].tons
                                       /\ Weight[i] \in Nat
                                       /\ record[i].date \in Nat
                                       /\ record[i].date \in Dates
<1>1. Counted(f, y) \subseteq Stored BY DEF Counted, Stored
<1>2. IsFiniteSet(Counted(f, y)) BY <1>1, FS_Subset DEF OneFollows
<1>3. ASSUME NEW i \in Counted(f, y)
      PROVE /\ i \in Records /\ record[i] \in Record
            /\ Weight[i] = record[i].tons /\ Weight[i] \in Nat
            /\ record[i].date \in Nat /\ record[i].date \in Dates
  <2>1. i \in Records /\ record[i] \in Record BY <1>3 DEF Counted, TypeOK
  <2> QED BY <2>1, TonsAssumption, DatesAssumption DEF Record, Weight
<1> QED BY <1>2, <1>3

LEMMA LatestIsMax ==
    ASSUME NEW D \in SUBSET Nat, NEW d \in D, \A x \in D : x <= d
    PROVE  Max(D) = d
<1>1. \E x \in D : \A z \in D : x >= z OBVIOUS
<1> DEFINE m == Max(D)
<1>2. m \in D /\ \A z \in D : m >= z BY <1>1 DEF Max
<1> HIDE DEF m
<1>3. m \in Nat /\ d \in Nat BY <1>2
<1>4. m >= d /\ m <= d BY <1>2
<1>5. m = d BY <1>3, <1>4
<1> QED BY <1>5 DEF m

LEMMA LaterOfTwo ==
    ASSUME NEW m \in Nat, NEW n \in Nat
    PROVE  Max({m, n}) = IF n <= m THEN m ELSE n
<1>1. CASE n <= m
  <2>1. \A x \in {m, n} : x <= m BY <1>1
  <2> QED BY <1>1, <2>1, LatestIsMax
<1>2. CASE ~(n <= m)
  <2>1. \A x \in {m, n} : x <= n BY <1>2
  <2> QED BY <1>2, <2>1, LatestIsMax
<1> QED BY <1>1, <1>2

(* Entries that fit their records are the totals of the ledger. *)
LEMMA TotalsAreTotal == ASSUME TypeOK, LInv PROVE LedgerIsTotal
<1> SUFFICES ASSUME NEW f \in Fields, NEW y \in Years
    PROVE ledger[f][y] =
            IF Counted(f, y) = {} THEN None
            ELSE [tons |-> MapThenSumSet(LAMBDA i : record[i].tons, Counted(f, y)),
                  last |-> Max({record[i].date : i \in Counted(f, y)})]
    BY DEF LedgerIsTotal
<1>1. Totals(f, y) BY DEF LInv
<1>2. CASE Counted(f, y) = {} BY <1>1, <1>2 DEF Totals
<1>3. CASE Counted(f, y) # {}
  <2> DEFINE C == Counted(f, y)
             D == {record[i].date : i \in C}
             e == ledger[f][y]
  <2>1. \A i \in C : Weight[i] = record[i].tons /\ record[i].date \in Nat
      BY CountedAre DEF LInv
  <2>2. MapThenSumSet(LAMBDA i : record[i].tons, C) = Sum(Weight, C)
    <3> HIDE DEF C
    <3> QED BY <2>1, SumOfField
  <2>3. e # None /\ e.tons = Sum(Weight, C) /\ Latest(e.last, C)
      BY <1>1, <1>3 DEF Totals
  <2>4. Max(D) = e.last
    <3>1. D \in SUBSET Nat BY <2>1
    <3>2. e.last \in D /\ \A x \in D : x <= e.last BY <2>3 DEF Latest
    <3> HIDE DEF D
    <3> QED BY <3>1, <3>2, LatestIsMax
  <2>5. e \in Entry BY <2>3 DEF TypeOK
  <2>6. e = [tons |-> e.tons, last |-> e.last] BY <2>5 DEF Entry
  <2> QED BY <1>3, <2>2, <2>3, <2>4, <2>6
<1> QED BY <1>2, <1>3

(* A step that changes neither entries nor what they should have.          *)
LEMMA SameTotals ==
    ASSUME TypeOK, LInv, UNCHANGED ledger,
           \A i \in Records : record[i] # None => record'[i] = record[i],
           \A f \in Fields, y \in Years : Counted(f, y)' = Counted(f, y)
    PROVE  \A f \in Fields, y \in Years : Totals(f, y)'
<1> SUFFICES ASSUME NEW f \in Fields, NEW y \in Years PROVE Totals(f, y)' OBVIOUS
<1> DEFINE C == Counted(f, y)
<1>1. C' = C /\ Totals(f, y) BY DEF LInv
<1>2. \A i \in C : i \in Records /\ record'[i] = record[i]
    BY CountedAre DEF LInv, Counted
<1>3. \A i \in C : Weight'[i] = Weight[i] BY <1>2 DEF Weight
<1>4. Sum(Weight', C) = Sum(Weight, C)
  <2> HIDE DEF C
  <2> QED BY <1>3, SumOfSame
<1>5. ASSUME NEW d, Latest(d, C) PROVE Latest(d, C)'
  <2> HIDE DEF C
  <2> QED BY <1>1, <1>2, <1>5 DEF Latest
<1>6. Sum(Weight, C)' = Sum(Weight, C) BY <1>1, <1>4
<1> HIDE DEF C
<1>7. C = {} => ledger[f][y] = None BY <1>1 DEF Totals, C
<1>8. C # {} => /\ ledger[f][y] # None
                /\ ledger[f][y].tons = Sum(Weight, C)
                /\ Latest(ledger[f][y].last, C)
    BY <1>1 DEF Totals, C
<1>9. C' = {} => ledger'[f][y] = None BY <1>1, <1>7
<1>10. C' # {} => /\ ledger'[f][y] # None
                  /\ ledger'[f][y].tons = Sum(Weight, C)'
                  /\ Latest(ledger[f][y].last, C)'
    BY <1>1, <1>5, <1>6, <1>8
<1> QED BY <1>9, <1>10 DEF Totals, C

(* The first statement files a record that is still to reach the ledger.   *)
LEMMA FilingKeepsTotals ==
    ASSUME AInv, LInv, NEW q \in Filers, NEW i \in Records, NEW r \in Record,
           CreateApplicationRecord(q, i, r)
    PROVE  LInv'
<1>0. TypeOK /\ OneFollows BY DEF AInv, LInv
<1> DEFINE entry == [at |-> "ledger", id |-> i]
<1>1. /\ filing[q] = None /\ record[i] = None
      /\ record' = [record EXCEPT ![i] = r]
      /\ filing' = [filing EXCEPT ![q] = entry]
      /\ UNCHANGED <<ledger, missed>>
    BY <1>0 DEF CreateApplicationRecord
<1>2. r # None /\ entry # None BY NothingAssumption DEF Filing
<1>3. record'[i] = r /\ \A j \in Records : j # i => record'[j] = record[j]
    BY <1>0, <1>1 DEF TypeOK
<1>4. /\ \A k \in Filers, j \in Records : j # i => Follows(k, j)' = Follows(k, j)
      /\ \A k \in Filers : Follows(k, i)' <=> k = q
  <2>1. ~Pending(i) BY <1>0, <1>1 DEF OneFollows, Stored
  <2>2. \A k \in Filers : ~Follows(k, i) BY <2>1 DEF Pending, Follows
  <2>3. filing'[q] = entry /\ \A k \in Filers : k # q => filing'[k] = filing[k]
      BY <1>0, <1>1 DEF TypeOK
  <2>4. \A j \in Records : ~Follows(q, j) BY <1>1, NothingAssumption DEF Follows, Filing
  <2> QED BY <2>2, <2>3, <2>4 DEF Follows
<1>5. Pending(i)' /\ \A j \in Records : j # i => Pending(j)' = Pending(j)
    BY <1>4 DEF Pending, Follows
<1>6. Stored' = Stored \cup {i} BY <1>2, <1>3 DEF Stored
<1>7. OneFollows'
  <2>1. IsFiniteSet(Stored') BY <1>0, <1>6, FS_AddElement DEF OneFollows
  <2>2. missed' \subseteq Stored' BY <1>0, <1>1, <1>6 DEF OneFollows
  <2>3. i \notin missed' BY <1>0, <1>1 DEF OneFollows, Stored
  <2>4. \A j \in Records : Pending(j)' => j \in Stored' \ missed'
      BY <1>0, <1>1, <1>5, <1>6, <2>3 DEF OneFollows
  <2>5. \A j \in Records, k \in Filers, l \in Filers :
            Follows(k, j)' /\ Follows(l, j)' => k = l
      BY <1>0, <1>4 DEF OneFollows
  <2> QED BY <2>1, <2>2, <2>4, <2>5 DEF OneFollows
<1>8. ASSUME NEW f \in Fields, NEW y \in Years PROVE Counted(f, y)' = Counted(f, y)
  <2>1. i \notin Counted(f, y) BY <1>1 DEF Counted
  <2>2. i \notin Counted(f, y)' BY <1>5 DEF Counted
  <2>3. \A j \in Records : j # i => (j \in Counted(f, y)' <=> j \in Counted(f, y))
      BY <1>1, <1>3, <1>5 DEF Counted
  <2>4. Counted(f, y) \subseteq Records /\ Counted(f, y)' \subseteq Records BY DEF Counted
  <2> QED BY <2>1, <2>2, <2>3, <2>4
<1>9. \A j \in Records : record[j] # None => record'[j] = record[j] BY <1>1, <1>3
<1>10. \A f \in Fields, y \in Years : Totals(f, y)'
    BY <1>0, <1>1, <1>8, <1>9, SameTotals
<1> QED BY <1>7, <1>10 DEF LInv

(* The second statement is over: nothing follows for its record.           *)
LEMMA OverAndDone ==
    ASSUME AInv, LInv, NEW q \in Filers, NEW i \in Records, Follows(q, i),
           filing' = [filing EXCEPT ![q] = None], UNCHANGED record,
           missed' \subseteq missed \cup {i}
    PROVE  /\ OneFollows'
           /\ ~Pending(i)'
           /\ \A j \in Records : j # i => Pending(j)' = Pending(j)
<1>0. TypeOK /\ OneFollows BY DEF AInv, LInv
<1>1. /\ filing'[q] = None
      /\ \A k \in Filers : k # q => filing'[k] = filing[k]
    BY <1>0 DEF TypeOK
<1>2. \A j \in Records : ~Follows(q, j)'
    BY <1>1, NothingAssumption DEF Follows, Filing
<1>3. \A k \in Filers, j \in Records : Follows(k, j)' => Follows(k, j) /\ k # q
    BY <1>1, <1>2 DEF Follows
<1>4. ~Pending(i)'
  <2>1. \A k \in Filers : Follows(k, i) => k = q BY <1>0 DEF OneFollows
  <2>2. \A k \in Filers : ~Follows(k, i)' BY <1>3, <2>1
  <2> QED BY <2>2 DEF Pending, Follows
<1>5. ASSUME NEW j \in Records, j # i PROVE Pending(j)' = Pending(j)
  <2>1. ~Follows(q, j) BY <1>5 DEF Follows
  <2>2. \A k \in Filers : Follows(k, j)' <=> Follows(k, j) BY <1>1, <1>2, <2>1 DEF Follows
  <2> QED BY <2>2 DEF Pending, Follows
<1>6. i \in Stored BY <1>0 DEF OneFollows, Pending, Follows
<1>7. Stored' = Stored BY DEF Stored
<1>8. missed' \subseteq Stored' BY <1>0, <1>6, <1>7 DEF OneFollows
<1>9. \A j \in Records : Pending(j)' => j \in Stored' \ missed'
    BY <1>0, <1>4, <1>5, <1>7 DEF OneFollows
<1>10. \A j \in Records, k \in Filers, l \in Filers :
           Follows(k, j)' /\ Follows(l, j)' => k = l
    BY <1>0, <1>3 DEF OneFollows
<1>11. OneFollows' BY <1>0, <1>7, <1>8, <1>9, <1>10 DEF OneFollows
<1> QED BY <1>4, <1>5, <1>11

(* When it failed, the ledger lacks the record, and is not to have it.     *)
LEMMA MissingKeepsTotals ==
    ASSUME AInv, LInv, NEW q \in Filers, NEW i \in Records, Follows(q, i),
           MissLedger(q, i)
    PROVE  LInv'
<1>0. TypeOK /\ OneFollows BY DEF AInv, LInv
<1>1. /\ filing' = [filing EXCEPT ![q] = None] /\ missed' = missed \cup {i}
      /\ UNCHANGED record /\ UNCHANGED ledger
    BY DEF MissLedger
<1>2. /\ OneFollows' /\ ~Pending(i)'
      /\ \A j \in Records : j # i => Pending(j)' = Pending(j)
    BY <1>1, OverAndDone
<1>3. Pending(i) BY DEF Pending, Follows
<1>4. \A f \in Fields, y \in Years : Counted(f, y)' = Counted(f, y)
    BY <1>1, <1>2, <1>3 DEF Counted
<1>5. \A f \in Fields, y \in Years : Totals(f, y)'
    BY <1>0, <1>1, <1>4, SameTotals
<1> QED BY <1>2, <1>5 DEF LInv

(* When it is made, the entry of its field and year counts one more.       *)
LEMMA AddingKeepsTotals ==
    ASSUME AInv, LInv, NEW q \in Filers, NEW i \in Records, Follows(q, i),
           UpsertFieldLoadingLedger(q, record[i])
    PROVE  LInv'
<1>0. TypeOK /\ OneFollows BY DEF AInv, LInv
<1>stored. Pending(i) /\ record[i] # None /\ i \notin missed
    BY <1>0 DEF Pending, Follows, OneFollows, Stored
<1> PICK r \in Record : r = record[i] BY <1>0, <1>stored DEF TypeOK
<1> PICK f \in Fields, y \in Years : f = r.field /\ y = YearOf[r.date]
    BY DEF Record, Years
<1> DEFINE C == Counted(f, y)
           e == ledger[f][y]
           a == Added(e, r)
<1>1. /\ filing' = [filing EXCEPT ![q] = None]
      /\ ledger' = [ledger EXCEPT ![f] = [@ EXCEPT ![y] = a]]
      /\ UNCHANGED record /\ UNCHANGED missed
    BY DEF UpsertFieldLoadingLedger
<1>2. /\ OneFollows' /\ ~Pending(i)'
      /\ \A j \in Records : j # i => Pending(j)' = Pending(j)
    BY <1>1, OverAndDone
<1>3. r # None BY <1>stored
<1>5. r.tons \in Nat /\ r.date \in Nat /\ r.date \in Dates
    BY TonsAssumption, DatesAssumption DEF Record
<1>6. /\ ledger'[f][y] = a
      /\ \A g \in Fields, z \in Years :
           ~(g = f /\ z = y) => ledger'[g][z] = ledger[g][z]
    BY <1>0, <1>1 DEF TypeOK
<1>7. ASSUME NEW g \in Fields, NEW z \in Years
      PROVE  Counted(g, z)' = IF g = f /\ z = y THEN C \cup {i} ELSE Counted(g, z)
  <2>1. \A j \in Records : j # i => (j \in Counted(g, z)' <=> j \in Counted(g, z))
      BY <1>1, <1>2 DEF Counted
  <2>2. i \notin Counted(g, z) BY <1>stored DEF Counted
  <2>3. i \in Counted(g, z)' <=> g = f /\ z = y
      BY <1>1, <1>2, <1>stored DEF Counted
  <2>4. Counted(g, z) \subseteq Records /\ Counted(g, z)' \subseteq Records BY DEF Counted
  <2>5. CASE g = f /\ z = y
    <3>1. C = Counted(g, z) BY <2>5
    <3> HIDE DEF C
    <3> QED BY <2>1, <2>2, <2>3, <2>4, <2>5, <3>1
  <2>6. CASE ~(g = f /\ z = y)
    <3> HIDE DEF C
    <3> QED BY <2>1, <2>2, <2>3, <2>4, <2>6
  <2> QED BY <2>5, <2>6
<1>8. Weight' = Weight BY <1>1 DEF Weight
<1>9. ASSUME NEW g \in Fields, NEW z \in Years, ~(g = f /\ z = y) PROVE Totals(g, z)'
  <2>1. Totals(g, z) BY DEF LInv
  <2>2. Counted(g, z)' = Counted(g, z) BY <1>7, <1>9
  <2>3. ledger'[g][z] = ledger[g][z] BY <1>6, <1>9
  <2> QED BY <1>1, <1>8, <2>1, <2>2, <2>3 DEF Totals, Latest
<1>10. Totals(f, y)'
  <2>1. /\ IsFiniteSet(C) /\ i \notin C
        /\ \A j \in C : Weight[j] \in Nat /\ record[j].date \in Nat
    <3>1. i \notin C BY <1>stored DEF Counted
    <3> QED BY <1>0, <3>1, CountedAre
  <2>2. Weight[i] = r.tons BY DEF Weight
  <2>3. /\ C = {} => e = None
        /\ C # {} => e # None /\ e.tons = Sum(Weight, C) /\ Latest(e.last, C)
    <3>1. Totals(f, y) BY DEF LInv
    <3> QED BY <3>1 DEF Totals
  <2>4. Counted(f, y)' = C \cup {i} BY <1>7
  <2>5. Sum(Weight, C \cup {i}) = r.tons + Sum(Weight, C)
    <3> HIDE DEF C
    <3>1. IsFiniteSet(C \cup {i}) BY <2>1, FS_AddElement
    <3>2. \A j \in C \cup {i} : Weight[j] \in Nat BY <1>5, <2>1, <2>2
    <3>3. Sum(Weight, C \cup {i}) = Weight[i] + Sum(Weight, (C \cup {i}) \ {i})
        BY <3>1, <3>2, SumAdds
    <3>4. (C \cup {i}) \ {i} = C BY <2>1
    <3> QED BY <2>2, <3>3, <3>4
  <2>6. Sum(Weight, C) \in Nat /\ Sum(Weight, {}) = 0
    <3> HIDE DEF C
    <3> QED BY <2>1, SumAdds, SumOfNothing
  <2>7. a # None BY <1>0, AddedIsEntry, NothingAssumption DEF TypeOK
  <2>8. a.tons = Sum(Weight, C \cup {i})
    <3>1. CASE C = {} BY <1>5, <2>3, <2>5, <2>6, <3>1 DEF Added
    <3>2. CASE C # {}
      <4>1. a.tons = e.tons + r.tons BY <2>3, <3>2 DEF Added
      <4>2. e.tons = Sum(Weight, C) BY <2>3, <3>2
      <4> HIDE DEF a, C
      <4> QED BY <1>5, <2>5, <2>6, <4>1, <4>2
    <3> QED BY <3>1, <3>2
  <2>9. Latest(a.last, C \cup {i})
    <3>1. CASE C = {}
      <4>1. a.last = r.date BY <2>3, <3>1 DEF Added
      <4> QED BY <1>5, <3>1, <4>1 DEF Latest
    <3>2. CASE C # {}
      <4>1. a.last = Max({e.last, r.date}) /\ Latest(e.last, C)
          BY <2>3, <3>2 DEF Added
      <4>2. e.last \in Nat BY <2>1, <4>1 DEF Latest
      <4>3. CASE r.date <= e.last
        <5>1. a.last = e.last BY <1>5, <4>1, <4>2, <4>3, LaterOfTwo
        <5> QED BY <4>1, <4>3, <5>1 DEF Latest
      <4>4. CASE ~(r.date <= e.last)
        <5>1. a.last = r.date BY <1>5, <4>1, <4>2, <4>4, LaterOfTwo
        <5>2. \A j \in C : record[j].date <= e.last /\ record[j].date \in Nat
            BY <2>1, <4>1 DEF Latest
        <5>3. \A j \in C \cup {i} : record[j].date <= r.date
          <6> HIDE DEF C
          <6>1. \A j \in C : record[j].date <= r.date
            <7> TAKE j \in C
            <7>1. record[j].date <= e.last /\ record[j].date \in Nat BY <5>2
            <7>2. r.date \in Nat BY <1>5
            <7> DEFINE x == record[j].date
                       m == e.last
                       n == r.date
            <7> HIDE DEF e, x, m, n
            <7>3. x <= n BY <4>2, <4>4, <7>1, <7>2 DEF x, m, n
            <7> QED BY <7>3 DEF x, n
          <6> QED BY <1>5, <6>1
        <5> QED BY <5>1, <5>3 DEF Latest
      <4> QED BY <4>3, <4>4
    <3> QED BY <3>1, <3>2
  <2>10. \A d, S : Latest(d, S) => Latest(d, S)' BY <1>1 DEF Latest
  <2> DEFINE B == C \cup {i}
  <2>11. Latest(a.last, B)
    <3> HIDE DEF C, a
    <3> QED BY <2>9
  <2> QED
    <3>1. Counted(f, y)' = B /\ ledger'[f][y] = a BY <1>6, <2>4
    <3>2. B # {} /\ a.tons = Sum(Weight, B) BY <2>8
    <3> HIDE DEF B, a, C
    <3> QED BY <1>1, <1>8, <2>7, <2>11, <3>1, <3>2 DEF Totals, Latest
<1>11. \A g \in Fields, z \in Years : Totals(g, z)'
  <2> QED BY <1>9, <1>10
<1> QED BY <1>2, <1>11 DEF LInv

(* No other step touches the ledger, or what is still to reach it.         *)
LEMMA OthersKeepTotals ==
    ASSUME AInv, LInv, UNCHANGED <<record, ledger, missed>>,
           \A k \in Filers, j \in Records : Follows(k, j)' <=> Follows(k, j)
    PROVE  LInv'
<1>0. TypeOK /\ OneFollows BY DEF AInv, LInv
<1>1. \A j \in Records : Pending(j)' = Pending(j) BY DEF Pending, Follows
<1>2. Stored' = Stored BY DEF Stored
<1>3. OneFollows' BY <1>0, <1>1, <1>2 DEF OneFollows
<1>4. \A f \in Fields, y \in Years : Counted(f, y)' = Counted(f, y)
    BY <1>1 DEF Counted
<1>5. \A f \in Fields, y \in Years : Totals(f, y)' BY <1>0, <1>4, SameTotals
<1> QED BY <1>3, <1>5 DEF LInv

LEMMA LedgerStep == ASSUME AInv, LInv, [Next]_vars PROVE LInv'
<1>0. TypeOK BY DEF AInv
<1>1. CASE UNCHANGED vars
    BY <1>1, OthersKeepTotals DEF vars, avars, Follows
<1>2. CASE PartyRequest
    BY <1>2, OthersKeepTotals DEF PartyRequest, avars, Follows
<1>3. ASSUME NEW q \in Filers, NEW i \in Records, NEW r \in Record,
             CreateApplicationRecord(q, i, r)
      PROVE  LInv'
    BY <1>3, FilingKeepsTotals
<1>4. ASSUME NEW q \in Filers, filing[q] # None, filing[q].at = "ledger",
             \/ UpsertFieldLoadingLedger(q, record[filing[q].id])
             \/ MissLedger(q, filing[q].id)
      PROVE  LInv'
  <2>1. PICK i \in Records : Follows(q, i)
    <3>1. filing[q] \in Filing BY <1>0, <1>4 DEF TypeOK
    <3>2. \A x \in [at: {"update"}, id: Confirmations] : x.at # "ledger" OBVIOUS
    <3>3. filing[q] \in [at: {"ledger"}, id: Records]
        BY <1>4, <3>1, <3>2 DEF Filing
    <3> QED BY <3>3 DEF Follows
  <2>2. filing[q].id = i BY <2>1 DEF Follows
  <2> QED BY <1>4, <2>1, <2>2, AddingKeepsTotals, MissingKeepsTotals
<1>5. ASSUME NEW q \in Filers, NEW i \in Confirmations, NEW n \in Records,
             NEW p \in Parties, CreateApplicationConfirmation(q, i, n, p)
      PROVE  LInv'
  <2>1. /\ filing[q] = None /\ filing' = [filing EXCEPT ![q] = [at |-> "update", id |-> i]]
        /\ UNCHANGED <<record, ledger, missed>>
      BY <1>5 DEF CreateApplicationConfirmation
  <2>2. \A k \in Filers : k # q => filing'[k] = filing[k] BY <1>0, <2>1 DEF TypeOK
  <2>3. filing'[q].at = "update" BY <1>0, <2>1 DEF TypeOK
  <2>4. \A j \in Records : ~Follows(q, j)
      BY <2>1, NothingAssumption DEF Follows, Filing
  <2>5. \A j \in Records : ~Follows(q, j)' BY <2>3 DEF Follows
  <2>6. \A k \in Filers, j \in Records : Follows(k, j)' <=> Follows(k, j)
      BY <2>2, <2>4, <2>5 DEF Follows
  <2> QED BY <2>1, <2>6, OthersKeepTotals
<1>6. ASSUME NEW q \in Filers, NEW i \in Confirmations, UpdateConfirmation(q, i)
      PROVE  LInv'
  <2>1. /\ filing[q] = [at |-> "update", id |-> i]
        /\ filing' = [filing EXCEPT ![q] = None]
        /\ UNCHANGED <<record, ledger, missed>>
      BY <1>6 DEF UpdateConfirmation
  <2>2. filing'[q] = None /\ \A k \in Filers : k # q => filing'[k] = filing[k]
      BY <1>0, <2>1 DEF TypeOK
  <2>3. filing[q].at = "update" BY <2>1
  <2>4. \A j \in Records : ~Follows(q, j) BY <2>3 DEF Follows
  <2>5. \A j \in Records : ~Follows(q, j)'
      BY <2>2, NothingAssumption DEF Follows, Filing
  <2>6. \A k \in Filers, j \in Records : Follows(k, j)' <=> Follows(k, j)
      BY <2>2, <2>4, <2>5 DEF Follows
  <2> QED BY <2>1, <2>6, OthersKeepTotals
<1> QED
    BY <1>1, <1>2, <1>3, <1>4, <1>5, <1>6 DEF Next, CreateRecord, ConfirmApplication

LEMMA LedgerInitially == ASSUME Init PROVE LInv
<1>1. \A i \in Records : record[i] = None BY DEF Init
<1>2. \A q \in Filers, i \in Records : ~Follows(q, i)
    BY NothingAssumption DEF Init, Follows, Filing
<1>3. Stored = {} /\ missed = {} BY <1>1 DEF Init, Stored
<1>4. OneFollows BY <1>2, <1>3, FS_EmptySet DEF OneFollows, Pending, Follows
<1>5. \A f \in Fields, y \in Years : Counted(f, y) = {} /\ ledger[f][y] = None
    BY <1>1 DEF Counted, Init
<1> QED BY <1>4, <1>5 DEF LInv, Totals

(* An entry is the total of what reached it, by which the next one counts. *)
THEOREM LedgerInvariant == Spec => []LInv
<1>1. Init => LInv BY LedgerInitially
<1>2. AInv /\ LInv /\ [Next]_vars => LInv' BY LedgerStep
<1> QED BY <1>1, <1>2, FilingInvariant, PTL DEF Spec

(* The ledger says the tons and the last date of all the records of a      *)
(* field and a year whose second statement is done and did not fail.       *)
THEOREM LedgerTotals == Spec => []LedgerIsTotal
<1>1. AInv /\ LInv => LedgerIsTotal BY TotalsAreTotal DEF AInv
<1> QED BY <1>1, FilingInvariant, LedgerInvariant, PTL
=============================================================================
