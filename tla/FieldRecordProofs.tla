-------------------------- MODULE FieldRecordProofs --------------------------
(***************************************************************************)
(* For any boundaries, inputs, answers and concurrent requests: a field is *)
(* READY only as confirmed, a parcel boundary rests on a stored lookup,    *)
(* and evidence stays.                                                     *)
(*                                                                         *)
(* The gaps are a table that is patched, not a value that is computed, and *)
(* the status is stored beside it.  That every handler ends in             *)
(* SyncFieldState makes both a function of the other rows (Synced), which  *)
(* is what the properties follow from.  Requests that read before they     *)
(* lock rely on what is never taken back: a boundary that is current, a    *)
(* lookup that is stored (RequestsFit).                                    *)
(***************************************************************************)
EXTENDS FieldRecord, WellFoundedInduction, TLAPS

LookupTable == [Inputs -> {None} \cup LookupRow]

(* The gaps and the status are those of the other rows. *)
Synced ==
    /\ gaps = Gaps(lookup, boundary, current, known)
    /\ status = StatusOf(gaps)

(* A stored lookup resolved to this parcel, in Michigan. *)
FromLookup(p) ==
    \E i \in Stored(lookup) :
        LET a == lookup[i].answer
        IN  a.disposition = "resolved" /\ a.michigan /\ a.parcel = p

(* What a request read before it locks the field still holds. *)
RequestsFit ==
    \A q \in Requests :
        /\ Doing(q, "attach") => FromLookup(call[q].parcel)
        /\ Doing(q, "boundary") => current # None

IInv == TypeOK /\ Synced /\ ParcelFromLookup /\ RequestsFit

-----------------------------------------------------------------------------
(* A least and a greatest element of sets of naturals. *)
LEMMA LessThanIsWellFounded ==
    \E R : IsWellFoundedOn(R, Nat) /\ \A x, y \in Nat : y < x => <<y, x>> \in R
<1>1. IsWellFoundedOn(OpToRel(<, Nat), Nat) BY NatLessThanWellFounded, Zenon
<1>2. \A x, y \in Nat : y < x => <<y, x>> \in OpToRel(<, Nat) BY DEF OpToRel
<1> QED BY <1>1, <1>2, Zenon

LEMMA LeastNatural ==
    ASSUME NEW T \in SUBSET Nat, T # {}
    PROVE  \E x \in T : \A y \in T : x <= y
<1>1. \A t \in T : t \in Nat OBVIOUS
<1>2. PICK R : IsWellFoundedOn(R, Nat) /\ \A x, y \in Nat : y < x => <<y, x>> \in R
    BY LessThanIsWellFounded
<1>3. PICK x \in T : \A y \in T : ~ (<<y, x>> \in R) BY <1>2, WFMin
<1>4. ASSUME NEW y \in T PROVE x <= y
  <2>1. x \in Nat /\ y \in Nat BY <1>1
  <2>2. ~ (y < x) BY <1>2, <1>3, <2>1, Zenon
  <2> QED BY <2>1, <2>2
<1> QED BY <1>4

LEMMA GreatestNatural ==
    ASSUME NEW T \in SUBSET Nat, T # {}, NEW n \in Nat, \A t \in T : t <= n
    PROVE  \E x \in T : \A y \in T : y <= x
<1> DEFINE D == {n - t : t \in T}
<1>1. \A t \in T : t \in Nat /\ n - t \in Nat OBVIOUS
<1>2. D \in SUBSET Nat BY <1>1
<1>3. D # {} OBVIOUS
<1>4. PICK d \in D : \A e \in D : d <= e
  <2> HIDE DEF D
  <2> QED BY <1>2, <1>3, LeastNatural
<1>5. PICK x \in T : d = n - x OBVIOUS
<1>6. ASSUME NEW y \in T PROVE y <= x
  <2>1. n - y \in D OBVIOUS
  <2>2. d <= n - y BY <1>4, <2>1
  <2> QED BY <1>1, <1>5, <2>2
<1> QED BY <1>6

(* There is a latest lookup as soon as there is one. *)
LEMMA LatestIsStored ==
    ASSUME NEW l \in LookupTable, Stored(l) # {}
    PROVE  Latest(l) \in Stored(l) /\ l[Latest(l)] \in LookupRow
<1> DEFINE T == {l[i].at : i \in Stored(l)}
<1>1. \A i \in Stored(l) : l[i] \in LookupRow BY DEF Stored, LookupTable
<1>2. \A i \in Stored(l) : l[i].at \in Nat /\ l[i].at <= MaxLookups
    BY <1>1, BoundAssumption DEF LookupRow
<1>3. T \in SUBSET Nat BY <1>2
<1>4. T # {} OBVIOUS
<1>5. \A t \in T : t <= MaxLookups BY <1>2
<1>6. PICK t \in T : \A u \in T : u <= t
  <2> HIDE DEF T
  <2> QED BY <1>3, <1>4, <1>5, BoundAssumption, GreatestNatural
<1>7. PICK i \in Stored(l) : t = l[i].at OBVIOUS
<1>8. \A o \in Stored(l) : l[o].at <= l[i].at BY <1>6, <1>7
<1>9. Latest(l) \in Stored(l) BY <1>8 DEF Latest
<1> QED BY <1>1, <1>9

-----------------------------------------------------------------------------
(* Whatever the rows, their gaps are codes that SyncFieldState resolves, so *)
(* that patching the table of the gaps leaves exactly the open ones.        *)
LEMMA GapsAreCodes ==
    ASSUME NEW l \in LookupTable, NEW b, NEW c, NEW k
    PROVE  Gaps(l, b, c, k) \subseteq GapCodes
<1>1. LocationGaps(l, c) \subseteq GapCodes
  <2>1. CASE c # None \/ Stored(l) = {} BY <2>1 DEF LocationGaps, GapCodes
  <2>2. CASE c = None /\ Stored(l) # {}
    <3>1. l[Latest(l)].answer \in Answer BY <2>2, LatestIsStored DEF LookupRow
    <3>2. l[Latest(l)].answer.disposition \in {"resolved", "clarify", "no_match"}
        BY <3>1 DEF Answer
    <3> QED BY <2>2, <3>2 DEF LocationGaps, GapCodes
  <2> QED BY <2>1, <2>2
<1>2. GeometryGaps(b, c) \subseteq GapCodes BY DEF GeometryGaps, GapCodes
<1> QED BY <1>1, <1>2 DEF Gaps, GapCodes

LEMMA SyncStep ==
    ASSUME IInv, lookup' \in LookupTable, SyncFieldState
    PROVE  Synced'
<1> DEFINE open == Gaps(lookup', boundary', current', known')
<1>1. gaps \subseteq GapCodes BY GapsAreCodes DEF IInv, TypeOK, Synced, LookupTable
<1>2. open \subseteq GapCodes BY GapsAreCodes
<1>3. gaps' = (gaps \cup open) \ (GapCodes \ open) /\ status' = StatusOf(open)
    BY DEF SyncFieldState, ResolveFieldGap, OpenFieldGap, SetCandidateFieldStatus
<1> HIDE DEF open
<1>4. gaps' = open BY <1>1, <1>2, <1>3
<1> QED BY <1>3, <1>4 DEF Synced, open

LEMMA SyncedIsReady == ASSUME TypeOK, Synced PROVE ReadyMeansConfirmed
<1> SUFFICES ASSUME status = "READY"
             PROVE  current # None /\ boundary[current].confirmed /\ known = Facts
                    /\ gaps = {}
    BY DEF ReadyMeansConfirmed
<1>1. gaps = {} BY DEF Synced, StatusOf
<1>2. GeometryGaps(boundary, current) = {} /\ Facts \ known = {}
    BY <1>1 DEF Synced, Gaps
<1> QED BY <1>1, <1>2 DEF GeometryGaps, TypeOK

-----------------------------------------------------------------------------
LEMMA InitInv == Init => IInv
<1> SUFFICES ASSUME Init PROVE IInv OBVIOUS
<1>1. TypeOK
  <2> DEFINE uploaded == CreateFieldGeometryVersion("UPLOADED_GEOJSON", FALSE)
  <2>1. uploaded \in GeometryRow /\ ~uploaded.confirmed
        /\ uploaded.source = "UPLOADED_GEOJSON"
      BY DEF CreateFieldGeometryVersion, GeometryRow
  <2>2. uploaded # None BY <2>1, NoneAssumption
  <2> HIDE DEF uploaded
  <2>3. boundary = [b \in Boundaries |-> IF b = current THEN uploaded ELSE None]
      BY DEF Init, uploaded
  <2>4. boundary \in [Boundaries -> {None} \cup GeometryRow] BY <2>1, <2>3
  <2>5. \A b \in Boundaries : boundary[b] # None /\ ~boundary[b].confirmed
            => boundary[b].source = "UPLOADED_GEOJSON"
      BY <2>1, <2>3
  <2>6. current \in {None} \cup {b \in Boundaries : boundary[b] # None}
      BY <2>2, <2>3 DEF Init, CreateCandidateField
  <2>7. uploads \in BOOLEAN BY DEF Init, CreateCandidateField
  <2>8. 0 \in 0..MaxLookups BY BoundAssumption
  <2>9. lookup \in [Inputs -> {None} \cup LookupRow] BY DEF Init
  <2> QED
      BY <2>4, <2>5, <2>6, <2>7, <2>8, <2>9 DEF Init, TypeOK
<1>2. Synced BY DEF Init, Synced
<1>3. ParcelFromLookup
    BY DEF Init, ParcelFromLookup, CreateFieldGeometryVersion
<1>4. RequestsFit BY DEF Init, RequestsFit, Doing
<1> QED BY <1>1, <1>2, <1>3, <1>4 DEF IInv

-----------------------------------------------------------------------------
(* The parts of the state a step may touch by itself. *)
RowsTyped ==
    /\ uploads \in BOOLEAN
    /\ lookup \in LookupTable
    /\ boundary \in [Boundaries -> {None} \cup GeometryRow]
    /\ \A b \in Boundaries : boundary[b] # None /\ ~boundary[b].confirmed
         => boundary[b].source = "UPLOADED_GEOJSON"
    /\ current \in {None} \cup {b \in Boundaries : boundary[b] # None}
    /\ known \subseteq Facts

Call == [op : {"lookup"}, input : Inputs]
        \cup [op : {"store"}, input : Inputs, answer : Answer, at : 1..MaxLookups]
        \cup [op : {"parcel", "boundary"}]
        \cup [op : {"attach"}, parcel : Boundaries]

LEMMA TypeOfRows == TypeOK <=> /\ RowsTyped
                               /\ clock \in 0..MaxLookups
                               /\ call \in [Requests -> {None} \cup Call]
                               /\ endorsed \subseteq Boundaries
BY DEF TypeOK, RowsTyped, Call, LookupTable

(* What no step takes back. *)
Keeps ==
    /\ \A b \in Boundaries : boundary[b] # None =>
            /\ boundary'[b] # None
            /\ boundary'[b].source = boundary[b].source
            /\ boundary[b].confirmed => boundary'[b].confirmed
    /\ current # None => current' # None
    /\ \A i \in Inputs : lookup[i] # None => lookup'[i] = lookup[i]

(* A parcel that a lookup found stays one that a lookup found. *)
LEMMA FoundStays ==
    ASSUME Keeps, NEW p, FromLookup(p) PROVE FromLookup(p)'
BY DEF Keeps, FromLookup, Stored

(* What a step has to do to the rows: keep their types, what is evidence,  *)
(* and the reason for a parcel, and leave them in step with each other.    *)
Sound == RowsTyped' /\ Synced' /\ ParcelFromLookup' /\ Keeps

LEMMA SameRows == ASSUME IInv, UNCHANGED rows PROVE Sound
<1>1. RowsTyped BY TypeOfRows DEF IInv
<1>2. UNCHANGED <<uploads, lookup, boundary, current, known, gaps, status>>
    BY DEF rows
<1>3. RowsTyped' BY <1>1, <1>2 DEF RowsTyped
<1>4. Synced' BY <1>2 DEF IInv, Synced
<1>5. ParcelFromLookup' BY <1>2 DEF IInv, ParcelFromLookup, Stored
<1>6. Keeps BY <1>2 DEF Keeps
<1> QED BY <1>3, <1>4, <1>5, <1>6 DEF Sound

(* A new lookup: UNIQUE (field_id, request_hash) keeps the ones there are. *)
LEMMA LookupStep ==
    ASSUME IInv, NEW i \in Inputs, NEW answer \in Answer, NEW at \in 1..MaxLookups,
           ~Taken(i), CreateLocationLookup(i, answer, at),
           UNCHANGED <<uploads, boundary, current, known>>, SyncFieldState
    PROVE  Sound
<1>1. RowsTyped BY TypeOfRows DEF IInv
<1>2. lookup' \in LookupTable
    BY <1>1 DEF RowsTyped, LookupTable, CreateLocationLookup, LookupRow
<1>3. Keeps BY DEF Keeps, Taken, CreateLocationLookup
<1>4. RowsTyped' BY <1>1, <1>2 DEF RowsTyped
<1>5. ParcelFromLookup'
    BY <1>3, FoundStays DEF IInv, ParcelFromLookup, FromLookup
<1>6. Synced' BY <1>2, SyncStep
<1> QED BY <1>3, <1>4, <1>5, <1>6 DEF Sound

(* A boundary that is attached, or attached again: its row, if there is    *)
(* one, keeps its source and its confirmation.                             *)
LEMMA AttachStep ==
    ASSUME IInv, NEW b \in Boundaries,
           NEW source \in {"UPLOADED_GEOJSON", "MIREYE_PARCEL"},
           NEW confirmed \in BOOLEAN,
           ~confirmed => source = "UPLOADED_GEOJSON",
           source = "MIREYE_PARCEL" => FromLookup(b),
           AttachGeometry(b, source, confirmed)
    PROVE  Sound
<1> DEFINE row == Version(b, source, confirmed)
<1>1. RowsTyped BY TypeOfRows DEF IInv
<1>2. /\ row \in GeometryRow
      /\ ~row.confirmed => row.source = "UPLOADED_GEOJSON"
      /\ boundary[b] # None => /\ row.source = boundary[b].source
                               /\ boundary[b].confirmed => row.confirmed
      /\ boundary[b] = None => row.source = source
  <2>1. CASE boundary[b] = None
      BY <2>1 DEF Version, GetFieldGeometryByHash, CreateFieldGeometryVersion,
         GeometryRow
  <2>2. CASE boundary[b] # None
    <3>1. boundary[b] \in GeometryRow BY <1>1, <2>2 DEF RowsTyped
    <3> QED
        BY <1>1, <2>2, <3>1 DEF Version, GetFieldGeometryByHash,
           ConfirmFieldGeometryVersion, GeometryRow, RowsTyped
  <2> QED BY <2>1, <2>2
<1>3. row # None BY <1>2, NoneAssumption
<1>4. boundary' = [boundary EXCEPT ![b] = row] /\ current' = b
      /\ UNCHANGED <<uploads, lookup, known>>
    BY DEF AttachGeometry, SetCandidateFieldGeometry
<1> HIDE DEF row
<1>5. \A c \in Boundaries : boundary'[c] = IF c = b THEN row ELSE boundary[c]
    BY <1>1, <1>4 DEF RowsTyped
<1>6. Keeps BY <1>2, <1>3, <1>4, <1>5, NoneAssumption DEF Keeps
<1>7. RowsTyped'
  <2>1. boundary' \in [Boundaries -> {None} \cup GeometryRow]
      BY <1>1, <1>2, <1>4 DEF RowsTyped
  <2>2. \A c \in Boundaries : boundary'[c] # None /\ ~boundary'[c].confirmed
            => boundary'[c].source = "UPLOADED_GEOJSON"
      BY <1>1, <1>2, <1>5 DEF RowsTyped
  <2> QED BY <1>1, <1>3, <1>4, <1>5, <2>1, <2>2 DEF RowsTyped
<1>8. ParcelFromLookup'
  <2> SUFFICES ASSUME NEW c \in Boundaries, boundary'[c] # None,
                      boundary'[c].source = "MIREYE_PARCEL"
               PROVE  FromLookup(c)'
      BY DEF ParcelFromLookup, FromLookup
  <2>1. FromLookup(c)
      BY <1>2, <1>5 DEF IInv, ParcelFromLookup, FromLookup
  <2> QED BY <1>6, <2>1, FoundStays
<1>9. Synced' BY <1>7, SyncStep DEF AttachGeometry, RowsTyped
<1> QED BY <1>6, <1>7, <1>8, <1>9 DEF Sound

(* The current boundary is confirmed. *)
LEMMA ConfirmStep ==
    ASSUME IInv, NEW q \in Requests, ConfirmGeometry(q) PROVE Sound
<1>1. RowsTyped BY TypeOfRows DEF IInv
<1>2. current \in Boundaries /\ boundary[current] \in GeometryRow
      /\ boundary[current] # None
    BY <1>1, NoneAssumption DEF ConfirmGeometry, IInv, RequestsFit, RowsTyped
<1> DEFINE row == [boundary[current] EXCEPT !.confirmed = TRUE]
<1>3. /\ row \in GeometryRow /\ row.confirmed
      /\ row.source = boundary[current].source
    BY <1>2 DEF GeometryRow
<1>4. row # None BY <1>3, NoneAssumption
<1> HIDE DEF row
<1>5. /\ \/ boundary' = boundary
         \/ boundary' = [boundary EXCEPT ![current] = row]
      /\ UNCHANGED <<uploads, lookup, current, known>>
    BY <1>2 DEF ConfirmGeometry, ConfirmCurrentUploadedGeometry,
       ConfirmFieldGeometryVersion, row
<1>6. Keeps BY <1>1, <1>2, <1>3, <1>4, <1>5 DEF Keeps, RowsTyped
<1>7. RowsTyped' BY <1>1, <1>2, <1>3, <1>4, <1>5 DEF RowsTyped
<1>8. ParcelFromLookup'
  <2> SUFFICES ASSUME NEW c \in Boundaries, boundary'[c] # None,
                      boundary'[c].source = "MIREYE_PARCEL"
               PROVE  FromLookup(c)'
      BY DEF ParcelFromLookup, FromLookup
  <2>1. boundary[c] # None /\ boundary[c].source = "MIREYE_PARCEL"
      BY <1>1, <1>2, <1>3, <1>5 DEF RowsTyped
  <2>2. FromLookup(c) BY <2>1 DEF IInv, ParcelFromLookup, FromLookup
  <2> QED BY <1>6, <2>2, FoundStays
<1>9. Synced' BY <1>7, SyncStep DEF ConfirmGeometry, RowsTyped
<1> QED BY <1>6, <1>7, <1>8, <1>9 DEF Sound

-----------------------------------------------------------------------------
(* What a request relies on stays true whatever the others do, so only the *)
(* request that moves has to be looked at.                                 *)
LEMMA CallStep ==
    ASSUME IInv, Sound, NEW q \in Requests, NEW c \in {None} \cup Call,
           call' = [call EXCEPT ![q] = c],
           c # None /\ c.op = "attach" => FromLookup(c.parcel),
           c # None /\ c.op = "boundary" => current # None
    PROVE  call' \in [Requests -> {None} \cup Call] /\ RequestsFit'
<1>1. call \in [Requests -> {None} \cup Call] BY TypeOfRows DEF IInv
<1>2. \A p : FromLookup(p) => FromLookup(p)' BY FoundStays DEF Sound
<1>3. ASSUME NEW r \in Requests
      PROVE  /\ (Doing(r, "attach") => FromLookup(call[r].parcel))'
             /\ (Doing(r, "boundary") => current # None)'
  <2>1. current # None => current' # None BY DEF Sound, Keeps
  <2>2. CASE r = q
    <3>1. call'[r] = c BY <1>1, <2>2
    <3>2. (Doing(r, "boundary") => current # None)' BY <2>1, <3>1 DEF Doing
    <3>3. (Doing(r, "attach") => FromLookup(call[r].parcel))'
      <4> SUFFICES ASSUME c # None, c.op = "attach" PROVE FromLookup(call[r].parcel)'
          BY <3>1 DEF Doing
      <4> QED BY <1>2, <3>1 DEF FromLookup
    <3> QED BY <3>2, <3>3
  <2>3. CASE r # q
    <3>1. call'[r] = call[r] BY <1>1, <2>3
    <3>2. /\ Doing(r, "attach") => FromLookup(call[r].parcel)
          /\ Doing(r, "boundary") => current # None
        BY DEF IInv, RequestsFit
    <3>3. (Doing(r, "boundary") => current # None)' BY <2>1, <3>1, <3>2 DEF Doing
    <3>4. (Doing(r, "attach") => FromLookup(call[r].parcel))'
      <4> SUFFICES ASSUME Doing(r, "attach") PROVE FromLookup(call[r].parcel)'
          BY <3>1 DEF Doing
      <4> QED BY <1>2, <3>1, <3>2 DEF FromLookup
    <3> QED BY <3>3, <3>4
  <2> QED BY <2>2, <2>3
<1>4. RequestsFit' BY <1>3 DEF RequestsFit
<1> QED BY <1>1, <1>4

LEMMA OtherStep ==
    ASSUME IInv, Sound, UNCHANGED call
    PROVE  call' \in [Requests -> {None} \cup Call] /\ RequestsFit'
<1>1. call \in [Requests -> {None} \cup Call] BY TypeOfRows DEF IInv
<1>2. \A p : FromLookup(p) => FromLookup(p)' BY FoundStays DEF Sound
<1> QED BY <1>1, <1>2 DEF IInv, RequestsFit, Doing, FromLookup, Sound, Keeps

(* The call of a request at each of its steps. *)
LEMMA CallType ==
    ASSUME IInv, NEW q \in Requests
    PROVE  /\ Doing(q, "lookup") => call[q].input \in Inputs
           /\ Doing(q, "store") => /\ call[q].input \in Inputs
                                   /\ call[q].answer \in Answer
                                   /\ call[q].at \in 1..MaxLookups
           /\ Doing(q, "attach") => call[q].parcel \in Boundaries
<1>1. call[q] \in {None} \cup Call BY TypeOfRows DEF IInv
<1> QED BY <1>1 DEF Doing, Call

(* The parcel on the page is that of a stored lookup. *)
LEMMA ShownParcelIsFound ==
    ASSUME IInv, ParcelShown
    PROVE  /\ lookup[Latest(lookup)].answer.parcel \in Boundaries
           /\ FromLookup(lookup[Latest(lookup)].answer.parcel)
<1> DEFINE a == lookup[Latest(lookup)].answer
<1>1. lookup \in LookupTable BY TypeOfRows DEF IInv, RowsTyped
<1>2. Latest(lookup) \in Stored(lookup) /\ a \in Answer
    BY <1>1, LatestIsStored DEF ParcelShown, LookupRow
<1>3. a.disposition = "resolved" /\ a.michigan /\ a.parcel # None
    BY DEF ParcelShown, Confirmable
<1> QED BY <1>2, <1>3 DEF FromLookup, Answer

-----------------------------------------------------------------------------
(* A step that keeps the rows sound, with the call and the clock it leaves. *)
LEMMA Assemble ==
    ASSUME IInv, Sound, call' \in [Requests -> {None} \cup Call], RequestsFit',
           clock' \in 0..MaxLookups, endorsed' \subseteq Boundaries
    PROVE  IInv' /\ Keeps
<1>1. TypeOK' BY DEF Sound, TypeOK, RowsTyped, Call, LookupTable
<1> QED BY <1>1 DEF Sound, IInv

LEMMA NextStep == ASSUME IInv, Next PROVE IInv' /\ Keeps
<1>0. /\ RowsTyped /\ clock \in 0..MaxLookups /\ endorsed \subseteq Boundaries
      /\ call \in [Requests -> {None} \cup Call]
    BY TypeOfRows DEF IInv
<1>1. ASSUME NEW q \in Requests, NEW i \in Inputs, Ask(q, i) PROVE IInv' /\ Keeps
  <2> DEFINE c == [op |-> "lookup", input |-> i]
  <2>1. c \in Call /\ c.op = "lookup" BY DEF Call
  <2>2. Sound BY <1>1, SameRows DEF Ask
  <2>3. call' = [call EXCEPT ![q] = c] BY <1>1 DEF Ask
  <2> HIDE DEF c
  <2>4. call' \in [Requests -> {None} \cup Call] /\ RequestsFit'
      BY <2>1, <2>2, <2>3, CallStep
  <2> QED BY <1>0, <1>1, <2>2, <2>4, Assemble DEF Ask
<1>2. ASSUME NEW q \in Requests, NEW i \in Inputs, NEW a \in Answers[i],
             LookupReturns(q, a)
      PROVE  IInv' /\ Keeps
  <2> DEFINE c == [op |-> "store", input |-> call[q].input, answer |-> a,
                   at |-> clock + 1]
  <2>1. a \in Answer BY InputsAssumption
  <2>2. clock + 1 \in 1..MaxLookups BY <1>0, <1>2, BoundAssumption DEF LookupReturns
  <2>3. call[q].input \in Inputs BY <1>2, CallType DEF LookupReturns
  <2>4. c \in Call /\ c.op = "store" BY <2>1, <2>2, <2>3 DEF Call
  <2>5. Sound BY <1>2, SameRows DEF LookupReturns
  <2>6. call' = [call EXCEPT ![q] = c] BY <1>2 DEF LookupReturns
  <2> HIDE DEF c
  <2>7. call' \in [Requests -> {None} \cup Call] /\ RequestsFit'
      BY <2>4, <2>5, <2>6, CallStep
  <2> QED BY <1>0, <1>2, <2>2, <2>5, <2>7, Assemble DEF LookupReturns
<1>3. ASSUME NEW q \in Requests, Sound, Give(q), UNCHANGED <<clock, endorsed>>
      PROVE  IInv' /\ Keeps
  <2>1. call' \in [Requests -> {None} \cup Call] /\ RequestsFit'
      BY <1>3, CallStep DEF Give
  <2> QED BY <1>0, <1>3, <2>1, Assemble
<1>4. ASSUME NEW q \in Requests, StoreLookup(q) PROVE IInv' /\ Keeps
  <2>1. CASE Taken(call[q].input)
      BY <1>3, <1>4, <2>1, SameRows DEF StoreLookup
  <2>2. CASE ~Taken(call[q].input)
    <3>1. Sound BY <1>4, <2>2, CallType, LookupStep DEF StoreLookup
    <3> QED BY <1>3, <1>4, <3>1 DEF StoreLookup
  <2> QED BY <2>1, <2>2
<1>5. ASSUME NEW q \in Requests, NEW op \in {"parcel", "boundary"},
             NEW seen \in Boundaries, Press(q, op, seen),
             op = "boundary" => current # None
      PROVE  IInv' /\ Keeps
  <2> DEFINE c == [op |-> op]
  <2>1. c \in Call /\ c.op = op BY DEF Call
  <2>2. Sound BY <1>5, SameRows DEF Press
  <2>3. call' = [call EXCEPT ![q] = c] BY <1>5 DEF Press
  <2> HIDE DEF c
  <2>4. call' \in [Requests -> {None} \cup Call] /\ RequestsFit'
      BY <1>5, <2>1, <2>2, <2>3, CallStep
  <2> QED BY <1>0, <1>5, <2>2, <2>4, Assemble DEF Press
<1>6. ASSUME NEW q \in Requests, PressConfirmParcel(q) PROVE IInv' /\ Keeps
  <2>1. ParcelShown BY <1>6 DEF PressConfirmParcel, GetCandidateFieldRow
  <2>2. GetCandidateFieldRow.parcel \in Boundaries
      BY <2>1, ShownParcelIsFound DEF GetCandidateFieldRow
  <2> QED BY <1>5, <1>6, <2>2 DEF PressConfirmParcel
<1>7. ASSUME NEW q \in Requests, PressConfirmGeometry(q) PROVE IInv' /\ Keeps
  <2>1. current # None /\ GetCandidateFieldRow.boundary \in Boundaries
      BY <1>0, <1>7 DEF PressConfirmGeometry, GetCandidateFieldRow, RowsTyped
  <2> QED BY <1>5, <1>7, <2>1 DEF PressConfirmGeometry
<1>8. ASSUME NEW q \in Requests, ReadParcel(q) PROVE IInv' /\ Keeps
  <2> DEFINE p == lookup[Latest(lookup)].answer.parcel
             c == [op |-> "attach", parcel |-> p]
  <2>1. p \in Boundaries /\ FromLookup(p) BY <1>8, ShownParcelIsFound DEF ReadParcel
  <2>2. c \in Call /\ c.op = "attach" /\ c.parcel = p BY <2>1 DEF Call
  <2>3. Sound BY <1>8, SameRows DEF ReadParcel
  <2>4. call' = [call EXCEPT ![q] = c] BY <1>8 DEF ReadParcel
  <2> HIDE DEF c, p
  <2>5. call' \in [Requests -> {None} \cup Call] /\ RequestsFit'
      BY <2>1, <2>2, <2>3, <2>4, CallStep
  <2> QED BY <1>0, <1>8, <2>3, <2>5, Assemble DEF ReadParcel
<1>9. ASSUME NEW q \in Requests, ConfirmParcel(q) PROVE IInv' /\ Keeps
  <2>1. call[q].parcel \in Boundaries /\ FromLookup(call[q].parcel)
      BY <1>9, CallType DEF ConfirmParcel, IInv, RequestsFit
  <2>2. Sound BY <1>9, <2>1, AttachStep DEF ConfirmParcel
  <2> QED BY <1>3, <1>9, <2>2 DEF ConfirmParcel
<1>10. ASSUME NEW q \in Requests, ConfirmGeometry(q) PROVE IInv' /\ Keeps
  <2>1. Sound BY <1>10, ConfirmStep
  <2> QED BY <1>3, <1>10, <2>1 DEF ConfirmGeometry
<1>11. ASSUME NEW q \in Requests, Abandon(q) PROVE IInv' /\ Keeps
    BY <1>3, <1>11, SameRows DEF Abandon
<1>12. ASSUME NEW b \in Boundaries, SetGeometry(b) PROVE IInv' /\ Keeps
  <2>1. Sound BY <1>12, AttachStep DEF SetGeometry
  <2> QED BY <1>0, <1>12, <2>1, OtherStep, Assemble DEF SetGeometry
<1>13. ASSUME NEW k \in SUBSET Facts, UpdateDetails(k) PROVE IInv' /\ Keeps
  <2>1. RowsTyped' BY <1>0, <1>13 DEF UpdateDetails, UpdateCandidateFieldDetails, RowsTyped
  <2>2. Synced' BY <1>13, <2>1, SyncStep DEF UpdateDetails, RowsTyped
  <2>3. Keeps BY <1>13 DEF UpdateDetails, Keeps
  <2>4. ParcelFromLookup'
      BY <1>13 DEF UpdateDetails, IInv, ParcelFromLookup, Stored
  <2>5. Sound BY <2>1, <2>2, <2>3, <2>4 DEF Sound
  <2> QED BY <1>0, <1>13, <2>5, OtherStep, Assemble DEF UpdateDetails
<1> QED
    BY <1>1, <1>2, <1>4, <1>6, <1>7, <1>8, <1>9, <1>10, <1>11, <1>12, <1>13,
       InputsAssumption DEF Next, Resolve, SelectCandidate

LEMMA NextInv == IInv /\ [Next]_vars => IInv'
<1> SUFFICES ASSUME IInv, [Next]_vars PROVE IInv' OBVIOUS
<1>1. CASE Next BY <1>1, NextStep
<1>2. CASE UNCHANGED vars
    BY <1>2, SameRows, OtherStep, Assemble, TypeOfRows DEF vars, IInv
<1> QED BY <1>1, <1>2

LEMMA Invariance == Spec => []IInv
BY InitInv, NextInv, PTL DEF Spec

(* The rows are typed, and a field is READY only with a confirmed current  *)
(* boundary, every operating fact known and no open gap (syncFieldState).  *)
THEOREM FieldIsConsistent == Spec => []FieldConsistent
<1>1. IInv => FieldConsistent BY SyncedIsReady DEF IInv, FieldConsistent
<1> QED BY <1>1, Invariance, PTL

(* The gaps and the status that are stored are always those that the other *)
(* rows of the field call for: no handler forgets to recompute them.       *)
THEOREM GapsAreSynced == Spec => []Synced
<1>1. IInv => Synced BY DEF IInv
<1> QED BY <1>1, Invariance, PTL

(* A parcel boundary rests on a stored lookup that resolved to it, in      *)
(* Michigan, although ConfirmParcel reads it before it locks the field.    *)
THEOREM ParcelRestsOnLookup == Spec => []ParcelFromLookup
<1>1. IInv => ParcelFromLookup BY DEF IInv
<1> QED BY <1>1, Invariance, PTL

(* Boundaries keep their source and their confirmation, lookups what was   *)
(* answered, and the field its boundary (saveGeometry, resolveInput).      *)
THEOREM EvidenceStays == Spec => EvidenceKept
<1>1. IInv /\ [Next]_vars =>
        [/\ \A b \in Boundaries : boundary[b] # None =>
              /\ boundary'[b] # None
              /\ boundary'[b].source = boundary[b].source
              /\ boundary[b].confirmed => boundary'[b].confirmed
         /\ current # None => current' # None]_vars
    BY NextStep DEF Keeps
<1>2. IInv /\ [Next]_vars =>
        [\A i \in Inputs : lookup[i] # None => lookup'[i] = lookup[i]]_vars
    BY NextStep DEF Keeps
<1>3. Spec => VersionsKept BY <1>1, Invariance, PTL DEF Spec, VersionsKept
<1>4. Spec => LookupsKept BY <1>2, Invariance, PTL DEF Spec, LookupsKept
<1> QED BY <1>3, <1>4 DEF EvidenceKept
=============================================================================
