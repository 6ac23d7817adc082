---------------------------- MODULE FieldRecord ----------------------------
(***************************************************************************)
(* One candidate field (internal/field/service.go, db/queries/fields.sql): *)
(* its location is looked up outside any transaction, its boundary is      *)
(* uploaded or taken from the parcel that was found, its operating facts   *)
(* are entered, and every change recomputes its named gaps and its status  *)
(* under the lock of the field.                                            *)
(***************************************************************************)
EXTENDS Naturals, FiniteSets

CONSTANTS
    Boundaries,   \* boundaries, told apart by their hash
    Inputs,       \* what is looked up: the locator and the choices it offers
    Locator,      \* the input Resolve looks up
    Answers,      \* what the lookup service may answer to each input
    Facts,        \* codes of the operating facts that must be known
    Requests,     \* concurrent requests
    MaxLookups,   \* bound: answers the lookup service gives in a behaviour
    None

Answer == [disposition: {"resolved", "clarify", "no_match"}, michigan: BOOLEAN,
           parcel: Boundaries \cup {None}, choices: SUBSET Inputs]

ASSUME InputsAssumption == Locator \in Inputs /\ Answers \in [Inputs -> SUBSET Answer]
ASSUME BoundAssumption == MaxLookups \in Nat

LookupRow == [answer : Answer, at : 1..MaxLookups]
GeometryRow == [source : {"UPLOADED_GEOJSON", "MIREYE_PARCEL"}, confirmed : BOOLEAN]

ASSUME NoneAssumption == None \notin Boundaries \cup LookupRow \cup GeometryRow

VARIABLES
    uploads,      \* whether the field was created with a boundary (GEOJSON)
    lookup,       \* field_location_lookups, UNIQUE (field_id, request_hash):
                  \* the answer to each input and when it was fetched, or None
    boundary,     \* field_geometry_versions: source and confirmation, or None
    current,      \* current_geometry_id
    known,        \* the operating facts that are known
    gaps, status, \* the open gaps and the status stored
    clock,        \* orders the answers by fetched_at
    call,         \* where each request stands
    endorsed      \* the boundaries operators saw when they pressed confirm

rows == <<uploads, lookup, boundary, current, known, gaps, status>>
vars == <<rows, clock, call, endorsed>>

Stored(l) == {i \in Inputs : l[i] # None}

(* GetLatestLocationLookup orders by fetched_at, not by commit. *)
Latest(l) == CHOOSE i \in Stored(l) : \A o \in Stored(l) : l[o].at <= l[i].at

(* syncFieldState: the gaps of a location, which a boundary settles. *)
LocationGaps(l, c) ==
    IF c # None THEN {}
    ELSE IF Stored(l) = {} THEN {"LOCATION_UNRESOLVED"}
    ELSE LET a == l[Latest(l)].answer
         IN  CASE a.disposition = "no_match" -> {"LOCATION_UNRESOLVED"}
               [] a.disposition = "clarify" -> {"LOCATION_AMBIGUOUS"}
               [] a.disposition = "resolved" ->
                    IF a.michigan THEN {} ELSE {"OUTSIDE_MICHIGAN"}

GeometryGapsIfAbsent(b, c) == IF c = None THEN {"GEOMETRY_UNCONFIRMED"} ELSE {}
GeometryGaps(b, c) ==
    IF c # None /\ b[c].confirmed THEN {} ELSE {"GEOMETRY_UNCONFIRMED"}

Gaps(l, b, c, k) == LocationGaps(l, c) \cup GeometryGaps(b, c) \cup (Facts \ k)

StatusOf(open) ==
    IF open \cap {"LOCATION_UNRESOLVED", "LOCATION_AMBIGUOUS", "OUTSIDE_MICHIGAN"} # {}
    THEN "NEEDS_LOCATION"
    ELSE IF "GEOMETRY_UNCONFIRMED" \in open THEN "NEEDS_GEOMETRY"
    ELSE IF open # {} THEN "NEEDS_DETAILS"
    ELSE "READY"

(* Every code of gapDefinitions is opened or resolved. *)
GapCodes == {"LOCATION_UNRESOLVED", "LOCATION_AMBIGUOUS", "OUTSIDE_MICHIGAN",
             "GEOMETRY_UNCONFIRMED"} \cup Facts
OpenFieldGap(codes) == gaps \cup codes
ResolveFieldGap(open, codes) == open \ codes

SetCandidateFieldStatus(s) == status' = s

SyncFieldState ==
    LET open == Gaps(lookup', boundary', current', known')
    IN  /\ gaps' = ResolveFieldGap(OpenFieldGap(open), GapCodes \ open)
        /\ SetCandidateFieldStatus(StatusOf(open))

(* CreateFieldGeometryVersion: a boundary is inserted, confirmed or not. *)
CreateFieldGeometryVersion(source, confirmed) ==
    [source |-> source, confirmed |-> confirmed]

(* A field with a locator, or with an uploaded boundary. *)
CreateCandidateField ==
    \/ uploads = FALSE /\ current = None
    \/ uploads = TRUE /\ current \in Boundaries

(* Create. *)
Init ==
    /\ CreateCandidateField
    /\ lookup = [i \in Inputs |-> None]
    /\ boundary = [b \in Boundaries |->
         IF b = current THEN CreateFieldGeometryVersion("UPLOADED_GEOJSON", FALSE)
         ELSE None]
    /\ known = {}
    /\ gaps = Gaps(lookup, boundary, current, known)
    /\ status = StatusOf(gaps)
    /\ clock = 0
    /\ call = [q \in Requests |-> None]
    /\ endorsed = {}

-----------------------------------------------------------------------------
GetLocationLookupByRequestHash(i) == lookup[i]

(* resolveInput: an input looked up before is not looked up again. *)
Ask(q, i) ==
    /\ call[q] = None
    /\ GetLocationLookupByRequestHash(i) = None
    /\ call' = [call EXCEPT ![q] = [op |-> "lookup", input |-> i]]
    /\ UNCHANGED <<rows, clock, endorsed>>

Resolve(q) == ~uploads /\ Ask(q, Locator)

(* SelectCandidate reads the latest lookup without a lock. *)
SelectCandidate(q, i) ==
    /\ Stored(lookup) # {}
    /\ lookup[Latest(lookup)].answer.disposition = "clarify"
    /\ i \in lookup[Latest(lookup)].answer.choices
    /\ Ask(q, i)

Doing(q, op) == call[q] # None /\ call[q].op = op

Give(q) == call' = [call EXCEPT ![q] = None]

(* The lookup service answers, outside any transaction. *)
LookupReturns(q, a) ==
    /\ Doing(q, "lookup")
    /\ a \in Answers[call[q].input]
    /\ clock < MaxLookups
    /\ clock' = clock + 1
    /\ call' = [call EXCEPT ![q] =
         [op |-> "store", input |-> @.input, answer |-> a, at |-> clock + 1]]
    /\ UNCHANGED <<rows, endorsed>>

(* Another request may have stored the same input; UNIQUE (field_id,      *)
(* request_hash) then rolls this one back.                                *)
Taken(i) == lookup[i] # None

CreateLocationLookup(i, answer, at) ==
    lookup' = [lookup EXCEPT ![i] = [answer |-> answer, at |-> at]]

StoreLookup(q) ==
    /\ Doing(q, "store")
    /\ IF Taken(call[q].input) THEN UNCHANGED rows
       ELSE /\ CreateLocationLookup(call[q].input, call[q].answer, call[q].at)
            /\ UNCHANGED <<uploads, boundary, current, known>>
            /\ SyncFieldState
    /\ Give(q)
    /\ UNCHANGED <<clock, endorsed>>

-----------------------------------------------------------------------------
GetFieldGeometryByHash(b) == boundary[b]

ConfirmFieldGeometryVersion(v) == [v EXCEPT !.confirmed = TRUE]

(* saveGeometry: a boundary stored before is restored with its             *)
(* confirmation; a confirmation is never taken back.                       *)
VersionOverwritten(b, source, confirmed) == CreateFieldGeometryVersion(source, confirmed)
Version(b, source, confirmed) ==
    LET existing == GetFieldGeometryByHash(b)
    IN  IF existing = None THEN CreateFieldGeometryVersion(source, confirmed)
        ELSE IF confirmed THEN ConfirmFieldGeometryVersion(existing)
        ELSE existing

SetCandidateFieldGeometry(b) == current' = b

AttachGeometry(b, source, confirmed) ==
    /\ boundary' = [boundary EXCEPT ![b] = Version(b, source, confirmed)]
    /\ SetCandidateFieldGeometry(b)
    /\ UNCHANGED <<uploads, lookup, known>>
    /\ SyncFieldState

SetGeometry(b) ==
    /\ AttachGeometry(b, "UPLOADED_GEOJSON", FALSE)
    /\ UNCHANGED <<clock, call, endorsed>>

(* An operator presses confirm on the page that shows the parcel or the   *)
(* current boundary; the request names neither.                           *)
Press(q, op, seen) ==
    /\ call[q] = None
    /\ call' = [call EXCEPT ![q] = [op |-> op]]
    /\ endorsed' = endorsed \cup {seen}
    /\ UNCHANGED <<rows, clock>>

ConfirmableAnywhere(a) == a.disposition = "resolved" /\ a.parcel # None
Confirmable(a) == a.disposition = "resolved" /\ a.michigan /\ a.parcel # None

ParcelShown == Stored(lookup) # {} /\ Confirmable(lookup[Latest(lookup)].answer)

(* The page joins the field with its latest lookup and current boundary. *)
GetCandidateFieldRow ==
    [parcel |-> IF ParcelShown THEN lookup[Latest(lookup)].answer.parcel ELSE None,
     boundary |-> current]

PressConfirmParcel(q) ==
    GetCandidateFieldRow.parcel # None /\ Press(q, "parcel", GetCandidateFieldRow.parcel)

PressConfirmGeometry(q) ==
    GetCandidateFieldRow.boundary # None /\ Press(q, "boundary", GetCandidateFieldRow.boundary)

(* ConfirmParcel decides on the latest lookup before it locks the field. *)
ReadParcel(q) ==
    /\ Doing(q, "parcel")
    /\ ParcelShown
    /\ call' = [call EXCEPT ![q] =
         [op |-> "attach", parcel |-> lookup[Latest(lookup)].answer.parcel]]
    /\ UNCHANGED <<rows, clock, endorsed>>

ConfirmParcel(q) ==
    /\ Doing(q, "attach")
    /\ AttachGeometry(call[q].parcel, "MIREYE_PARCEL", TRUE)
    /\ Give(q)
    /\ UNCHANGED <<clock, endorsed>>

ConfirmCurrentUploadedGeometry ==
    /\ boundary[current].source = "UPLOADED_GEOJSON"
    /\ boundary' = [boundary EXCEPT ![current] = ConfirmFieldGeometryVersion(@)]

(* ConfirmGeometry confirms the boundary that is current when it locks the *)
(* field, if it was uploaded; a parcel is only ever stored confirmed.      *)
ConfirmGeometry(q) ==
    /\ Doing(q, "boundary")
    /\ IF boundary[current].confirmed THEN UNCHANGED boundary
       ELSE ConfirmCurrentUploadedGeometry
    /\ UNCHANGED <<uploads, lookup, current, known>>
    /\ SyncFieldState
    /\ Give(q)
    /\ UNCHANGED <<clock, endorsed>>

UpdateCandidateFieldDetails(k) == known' = k

UpdateDetails(k) ==
    /\ UpdateCandidateFieldDetails(k)
    /\ UNCHANGED <<uploads, lookup, boundary, current, clock, call, endorsed>>
    /\ SyncFieldState

(* The lookup fails or times out, the request is refused or rolls back. *)
Abandon(q) ==
    /\ call[q] # None
    /\ Give(q)
    /\ UNCHANGED <<rows, clock, endorsed>>

Next ==
    \/ \E q \in Requests :
         \/ Resolve(q)
         \/ \E i \in Inputs : SelectCandidate(q, i)
         \/ \E i \in Inputs : \E a \in Answers[i] : LookupReturns(q, a)
         \/ StoreLookup(q)
         \/ PressConfirmParcel(q) \/ ReadParcel(q) \/ ConfirmParcel(q)
         \/ PressConfirmGeometry(q) \/ ConfirmGeometry(q)
         \/ Abandon(q)
    \/ \E b \in Boundaries : SetGeometry(b)
    \/ \E k \in SUBSET Facts : UpdateDetails(k)

Spec == Init /\ [][Next]_vars

-----------------------------------------------------------------------------
(* A row of each table, and a request at each of its steps.  A boundary    *)
(* is current only when it is stored, and a parcel is stored confirmed.    *)
TypeOK ==
    /\ uploads \in BOOLEAN
    /\ lookup \in [Inputs -> {None} \cup LookupRow]
    /\ boundary \in [Boundaries -> {None} \cup GeometryRow]
    /\ \A b \in Boundaries : boundary[b] # None /\ ~boundary[b].confirmed
         => boundary[b].source = "UPLOADED_GEOJSON"
    /\ current \in {None} \cup {b \in Boundaries : boundary[b] # None}
    /\ known \subseteq Facts
    /\ clock \in 0..MaxLookups
    /\ call \in [Requests -> {None} \cup [op : {"lookup"}, input : Inputs]
         \cup [op : {"store"}, input : Inputs, answer : Answer, at : 1..MaxLookups]
         \cup [op : {"parcel", "boundary"}] \cup [op : {"attach"}, parcel : Boundaries]]
    /\ endorsed \subseteq Boundaries

(* README Module 3 and syncFieldState: a field is READY, and may be         *)
(* screened and planned, only with a confirmed current boundary and every   *)
(* operating fact known, whatever handlers ran in between; and a field with *)
(* open gaps is never READY.                                                *)
ReadyMeansConfirmed ==
    (status = "READY") =>
        /\ current # None
        /\ boundary[current].confirmed
        /\ known = Facts
        /\ gaps = {}

(* ConfirmParcel: a confirmed parcel boundary always comes from a stored    *)
(* lookup that resolved to a parcel in Michigan, although the lookup is     *)
(* read before the field is locked and other lookups arrive in between.     *)
ParcelFromLookup ==
    \A b \in Boundaries : boundary[b] # None /\ boundary[b].source = "MIREYE_PARCEL" =>
        \E i \in Stored(lookup) :
            LET a == lookup[i].answer
            IN  a.disposition = "resolved" /\ a.michigan /\ a.parcel = b

(* saveGeometry: geometry versions are append-only; uploading a boundary    *)
(* that is already stored, from whatever source, never takes back its       *)
(* confirmation or changes its provenance, and a field never loses its      *)
(* boundary.                                                                *)
VersionsKept ==
    [][/\ \A b \in Boundaries : boundary[b] # None =>
            /\ boundary'[b] # None
            /\ boundary'[b].source = boundary[b].source
            /\ boundary[b].confirmed => boundary'[b].confirmed
       /\ current # None => current' # None]_vars

(* field_location_lookups: the evidence of a lookup that was stored is      *)
(* never replaced by a later answer to the same request.                    *)
LookupsKept ==
    [][\A i \in Inputs : lookup[i] # None => lookup'[i] = lookup[i]]_vars

(* README Module 3, lines 202-203: a parcel becomes the controlling boundary *)
(* only after an operator who saw that parcel confirmed it.                  *)
ParcelWasEndorsed ==
    (current # None /\ boundary[current].source = "MIREYE_PARCEL") => current \in endorsed

(* The status of a field agrees with its boundary, facts and gaps after any *)
(* interleaving of handlers (syncFieldState), and the rows have their types. *)
FieldConsistent == TypeOK /\ ReadyMeansConfirmed

(* What was stored as evidence, a boundary or a lookup, stays.              *)
EvidenceKept == VersionsKept /\ LookupsKept
=============================================================================
