----------------------------- MODULE Applications -----------------------------
(***************************************************************************)
(* What a contractor reports to have spread                                *)
(* (internal/application/service.go, db/queries/application.sql,           *)
(* migration 00015), composed with the parties it names.  CreateRecord     *)
(* inserts the record and then adds it to the ledger of the field and the  *)
(* year, in a second statement whose error it drops; ConfirmApplication    *)
(* inserts a confirmation and then updates it.                             *)
(*                                                                         *)
(* Quantities are multiples of the last digit the tables keep: the record  *)
(* and the ledger round the same number to it.  Nothing asks for the role  *)
(* of the contractor or of the farmer, so neither does the model.          *)
(***************************************************************************)
EXTENDS Parties, FiniteSetsExt

CONSTANTS
    Records,       \* ids of record rows
    Confirmations, \* ids of confirmation rows
    Filers,        \* concurrent CreateRecord and ConfirmApplication requests
    Dates,         \* dates of application
    YearOf,        \* the year of each
    LedgerYears,   \* the years the ledger's CHECK allows
    Tons

Years == {YearOf[d] : d \in Dates}
Record == [field: Fields, contractor: Parties, date: Dates, tons: Tons]
Entry == [tons: Nat, last: Dates]
Confirmation == [record: Records, farmer: Parties, confirmed: BOOLEAN,
                 dated: BOOLEAN]
Filing == [at: {"ledger"}, id: Records]
          \cup [at: {"update"}, id: Confirmations]

ASSUME DatesAssumption == Dates \subseteq Nat /\ YearOf \in [Dates -> Nat]
ASSUME TonsAssumption == Tons \subseteq Nat \ {0}
ASSUME NothingAssumption == None \notin Record \cup Entry \cup Confirmation \cup Filing

VARIABLES
    record,
    ledger,        \* UNIQUE (field_id, year)
    confirmation,
    filing,        \* the second statement a request still has to make
    missed         \* not in a table: the records whose second statement failed

avars == <<record, ledger, confirmation, filing, missed>>
vars == <<pvars, avars>>

Init ==
    /\ PInit
    /\ record = [i \in Records |-> None]
    /\ ledger = [f \in Fields |-> [y \in Years |-> None]]
    /\ confirmation = [i \in Confirmations |-> None]
    /\ filing = [q \in Filers |-> None]
    /\ missed = {}

-----------------------------------------------------------------------------
(* The insert of CreateRecord. *)
CreateApplicationRecord(q, i, r) ==
    /\ filing[q] = None
    /\ record[i] = None
    /\ Exists(r.contractor)
    /\ record' = [record EXCEPT ![i] = r]
    /\ filing' = [filing EXCEPT ![q] = [at |-> "ledger", id |-> i]]
    /\ UNCHANGED <<pvars, ledger, confirmation, missed>>

(* What ON CONFLICT DO UPDATE makes of an entry. *)
AddedAsLatest(e, r) ==
    IF e = None THEN [tons |-> r.tons, last |-> r.date]
    ELSE [tons |-> e.tons + r.tons, last |-> r.date]

Added(e, r) ==
    IF e = None THEN [tons |-> r.tons, last |-> r.date]
    ELSE [tons |-> e.tons + r.tons, last |-> Max({e.last, r.date})]

UpsertFieldLoadingLedger(q, r) ==
    /\ YearOf[r.date] \in LedgerYears
    /\ ledger' = [ledger EXCEPT ![r.field] =
         [@ EXCEPT ![YearOf[r.date]] = Added(ledger[r.field][YearOf[r.date]], r)]]
    /\ filing' = [filing EXCEPT ![q] = None]
    /\ UNCHANGED <<pvars, record, confirmation, missed>>

(* Its error is dropped; after a crash there is none. *)
MissLedger(q, i) ==
    /\ filing' = [filing EXCEPT ![q] = None]
    /\ missed' = missed \cup {i}
    /\ UNCHANGED <<pvars, record, ledger, confirmation>>

CreateRecord(q) ==
    \/ \E i \in Records, r \in Record : CreateApplicationRecord(q, i, r)
    \/ /\ filing[q] # None
       /\ filing[q].at = "ledger"
       /\ \/ UpsertFieldLoadingLedger(q, record[filing[q].id])
          \/ MissLedger(q, filing[q].id)

-----------------------------------------------------------------------------
(* The first statement of ConfirmApplication says confirmed = true. *)
CreateApplicationConfirmation(q, i, n, p) ==
    /\ filing[q] = None
    /\ confirmation[i] = None
    /\ record[n] # None
    /\ Exists(p)
    /\ confirmation' = [confirmation EXCEPT ![i] =
         [record |-> n, farmer |-> p, confirmed |-> TRUE, dated |-> FALSE]]
    /\ filing' = [filing EXCEPT ![q] = [at |-> "update", id |-> i]]
    /\ UNCHANGED <<pvars, record, ledger, missed>>

(* The second one updates and dates what is not confirmed yet; when there  *)
(* is no such row the request is answered with an error.                   *)
UpdateConfirmation(q, i) ==
    /\ filing[q] # None
    /\ filing[q] = [at |-> "update", id |-> i]
    /\ confirmation' = IF confirmation[i].confirmed THEN confirmation
                       ELSE [confirmation EXCEPT ![i] =
                              [@ EXCEPT !.confirmed = TRUE, !.dated = TRUE]]
    /\ filing' = [filing EXCEPT ![q] = None]
    /\ UNCHANGED <<pvars, record, ledger, missed>>

ConfirmApplication(q) ==
    \/ \E i \in Confirmations, n \in Records, p \in Parties :
         CreateApplicationConfirmation(q, i, n, p)
    \/ \E i \in Confirmations : UpdateConfirmation(q, i)

(* The rows of this module that restrict the deletion of a party. *)
FiledRecordsOnly(p) ==
    \E i \in Records : record[i] # None /\ record[i].contractor = p

Filed(p) ==
    \/ \E i \in Records : record[i] # None /\ record[i].contractor = p
    \/ \E i \in Confirmations :
         confirmation[i] # None /\ confirmation[i].farmer = p

(* The requests of the party service go on as before, except that a party  *)
(* somebody filed is not deleted.                                          *)
PartyRequest ==
    /\ PNext
    /\ \A p \in Parties : Filed(p) => party'[p] = party[p]
    /\ UNCHANGED avars

Next ==
    \/ PartyRequest
    \/ \E q \in Filers : CreateRecord(q) \/ ConfirmApplication(q)

Spec == Init /\ [][Next]_vars

-----------------------------------------------------------------------------
(* Every variable has its type. *)
TypeOK ==
    /\ PTypeOK
    /\ record \in [Records -> Record \cup {None}]
    /\ ledger \in [Fields -> [Years -> Entry \cup {None}]]
    /\ confirmation \in [Confirmations -> Confirmation \cup {None}]
    /\ filing \in [Filers -> Filing \cup {None}]
    /\ missed \subseteq Records

(* No record and no confirmation names a party that is not there, either.  *)
FiledExist ==
    /\ \A i \in Records : record[i] # None => Exists(record[i].contractor)
    /\ \A i \in Confirmations :
         confirmation[i] # None => Exists(confirmation[i].farmer)

Pending(i) == \E q \in Filers : filing[q] = [at |-> "ledger", id |-> i]

(* The records of a field and a year that the ledger should have. *)
Counted(f, y) ==
    {i \in Records :
        /\ record[i] # None
        /\ record[i].field = f
        /\ YearOf[record[i].date] = y
        /\ i \notin missed
        /\ ~Pending(i)}

(* Whatever the order in which concurrent requests reach the ledger, an    *)
(* entry is the sum of the records that reached it, and its date the last  *)
(* of theirs (service.go:154): it lacks exactly the records whose second   *)
(* statement failed.                                                       *)
LedgerIsTotal ==
    \A f \in Fields, y \in Years :
        ledger[f][y] =
            IF Counted(f, y) = {} THEN None
            ELSE [tons |-> MapThenSumSet(LAMBDA i : record[i].tons, Counted(f, y)),
                  last |-> Max({record[i].date : i \in Counted(f, y)})]

(* No consent, field, record or confirmation names a party that is gone,    *)
(* although the parties of a request are read before its insert.            *)
NamedExist == PartiesExist /\ FiledExist
=============================================================================
