------------------------------- MODULE Parties -------------------------------
(***************************************************************************)
(* Parties, their consents and their fields (internal/party/service.go,    *)
(* db/queries/parties.sql, migration 00015).  Every statement commits on   *)
(* its own: CreateConsent checks that no consent is active, reads both     *)
(* parties and inserts, and between any two of the four other requests     *)
(* grant, revoke and delete.  Only the foreign keys hold across them.      *)
(*                                                                         *)
(* Names, addresses and purposes are left out, and with them UpdateParty,  *)
(* which touches nothing else, and the refusal of a second party with the  *)
(* same address.                                                           *)
(***************************************************************************)
EXTENDS Naturals, FiniteSets

CONSTANTS
    Parties,    \* ids of party rows, fresh ones for each CreateParty
    Fields,
    Scopes,
    Consents,   \* ids of consent rows: bounds how many are granted
    Clients,    \* concurrent CreateConsent requests
    None

Expiry == {"never", "future", "past"}
Associations == {"OWNER", "APPLICANT", "CONTRACTOR"}

\* seen is not in the table: the rows that were there at the check.
Consent == {c \in [granter: Parties, grantee: Parties, scope: Scopes,
                   expires: Expiry, revoked: BOOLEAN, seen: SUBSET Consents] :
              c.granter # c.grantee}
Call == {c \in [granter: Parties, grantee: Parties, scope: Scopes,
                expires: Expiry, seen: SUBSET Consents,
                at: {"check", "granter", "grantee", "insert"}] :
           c.granter # c.grantee}

ASSUME NoneAssumption == None \notin Consent \cup Call \cup Associations

VARIABLES
    party,        \* each party: not yet created, there, or deleted
    consent,
    association,  \* field_parties, PRIMARY KEY (field_id, party_id)
    call          \* what a CreateConsent request asks, and how far it is

pvars == <<party, consent, association, call>>

PInit ==
    /\ party = [p \in Parties |-> "NEW"]
    /\ consent = [i \in Consents |-> None]
    /\ association = [f \in Fields |-> [p \in Parties |-> None]]
    /\ call = [c \in Clients |-> None]

Exists(p) == party[p] = "PRESENT"

-----------------------------------------------------------------------------
CreateParty(p) ==
    /\ party[p] = "NEW"
    /\ party' = [party EXCEPT ![p] = "PRESENT"]
    /\ UNCHANGED <<consent, association, call>>

(* The rows whose foreign keys restrict the deletion of a party. *)
Holds(p) ==
    \/ \E i \in Consents :
         consent[i] # None /\ p \in {consent[i].granter, consent[i].grantee}
    \/ \E f \in Fields : association[f][p] # None

DeleteParty(p) ==
    /\ Exists(p)
    /\ ~Holds(p)
    /\ party' = [party EXCEPT ![p] = "DELETED"]
    /\ UNCHANGED <<consent, association, call>>

(* CreateFieldParty: a second one replaces the association of the first. *)
AssignFieldParty(f, p, a) ==
    /\ Exists(p)
    /\ association' = [association EXCEPT ![f] = [@ EXCEPT ![p] = a]]
    /\ UNCHANGED <<party, consent, call>>

RemoveFieldParty(f, p) ==
    /\ association[f][p] # None
    /\ association' = [association EXCEPT ![f] = [@ EXCEPT ![p] = None]]
    /\ UNCHANGED <<party, consent, call>>

-----------------------------------------------------------------------------
(* The rows CheckActiveConsent counts. *)
Active(i) ==
    /\ consent[i] # None
    /\ ~consent[i].revoked
    /\ consent[i].expires # "past"

Same(i, c) ==
    /\ consent[i].granter = c.granter
    /\ consent[i].grantee = c.grantee
    /\ consent[i].scope = c.scope

Step(c, at) == call' = [call EXCEPT ![c] = [@ EXCEPT !.at = at]]
End(c) == call' = [call EXCEPT ![c] = None]

DistinctOrNot(g, h) == TRUE
Distinct(g, h) == g # h

(* CreateConsent begins with what the request says; the parties it names   *)
(* need not exist.                                                         *)
AskConsent(c, g, h, s, x) ==
    /\ call[c] = None
    /\ Distinct(g, h)
    /\ call' = [call EXCEPT ![c] =
         [granter |-> g, grantee |-> h, scope |-> s, expires |-> x,
          seen |-> {}, at |-> "check"]]
    /\ UNCHANGED <<party, consent, association>>

ExistingUnexpiring(c) ==
    {i \in Consents : Active(i) /\ Same(i, call[c]) /\ consent[i].expires = "never"}

Existing(c) == {i \in Consents : Active(i) /\ Same(i, call[c])}

CheckActiveConsent(c) ==
    /\ call[c] # None
    /\ call[c].at = "check"
    /\ IF Existing(c) # {}
       THEN End(c)
       ELSE call' = [call EXCEPT ![c] =
              [@ EXCEPT !.at = "granter",
                        !.seen = {i \in Consents : consent[i] # None}]]
    /\ UNCHANGED <<party, consent, association>>

GetParty(c, p, from, to) ==
    /\ call[c].at = from
    /\ IF Exists(p) THEN Step(c, to) ELSE End(c)
    /\ UNCHANGED <<party, consent, association>>

FreshOrRevoked(i) == consent[i] # None => consent[i].revoked
Fresh(i) == consent[i] = None

(* The insert: the foreign keys look at the parties again. *)
InsertConsent(c, i) ==
    /\ call[c].at = "insert"
    /\ Fresh(i)
    /\ Exists(call[c].granter) /\ Exists(call[c].grantee)
    /\ consent' = [consent EXCEPT ![i] =
         [granter |-> call[c].granter, grantee |-> call[c].grantee,
          scope |-> call[c].scope, expires |-> call[c].expires,
          revoked |-> FALSE, seen |-> call[c].seen]]
    /\ End(c)
    /\ UNCHANGED <<party, association>>

(* A refusal, a failed statement, or the client goes away. *)
GiveUp(c) ==
    /\ call[c] # None
    /\ End(c)
    /\ UNCHANGED <<party, consent, association>>

CreateConsent(c) ==
    \/ \E g, h \in Parties, s \in Scopes, x \in Expiry : AskConsent(c, g, h, s, x)
    \/ CheckActiveConsent(c)
    \/ call[c] # None /\ GetParty(c, call[c].granter, "granter", "grantee")
    \/ call[c] # None /\ GetParty(c, call[c].grantee, "grantee", "insert")
    \/ call[c] # None /\ \E i \in Consents : InsertConsent(c, i)
    \/ GiveUp(c)

RevokeConsent(i) ==
    /\ consent[i] # None
    /\ ~consent[i].revoked
    /\ consent' = [consent EXCEPT ![i] = [@ EXCEPT !.revoked = TRUE]]
    /\ UNCHANGED <<party, association, call>>

(* The clock passes the expiry of a consent. *)
Expire(i) ==
    /\ consent[i] # None
    /\ consent[i].expires = "future"
    /\ consent' = [consent EXCEPT ![i] = [@ EXCEPT !.expires = "past"]]
    /\ UNCHANGED <<party, association, call>>

PNext ==
    \/ \E p \in Parties : CreateParty(p) \/ DeleteParty(p)
    \/ \E f \in Fields, p \in Parties, a \in Associations : AssignFieldParty(f, p, a)
    \/ \E f \in Fields, p \in Parties : RemoveFieldParty(f, p)
    \/ \E c \in Clients : CreateConsent(c)
    \/ \E i \in Consents : RevokeConsent(i) \/ Expire(i)

PSpec == PInit /\ [][PNext]_pvars

-----------------------------------------------------------------------------
(* Every variable has its type; nobody consents to themselves. *)
PTypeOK ==
    /\ party \in [Parties -> {"NEW", "PRESENT", "DELETED"}]
    /\ consent \in [Consents -> Consent \cup {None}]
    /\ association \in [Fields -> [Parties -> Associations \cup {None}]]
    /\ call \in [Clients -> Call \cup {None}]

(* Whoever was deleted while a consent was being created, no consent and   *)
(* no field names a party that is not there (service.go:264: the parties   *)
(* were read before the insert).                                           *)
PartiesExist ==
    /\ \A i \in Consents : consent[i] # None =>
         Exists(consent[i].granter) /\ Exists(consent[i].grantee)
    /\ \A f \in Fields, p \in Parties : association[f][p] # None => Exists(p)

(* Two active consents of the same scope between the same parties can only *)
(* come from requests that overlapped: neither was there when the other    *)
(* one's check ran (service.go:254, "active consent already exists").      *)
TwinsOverlapped ==
    \A i, j \in Consents :
        i # j /\ Active(i) /\ Active(j) /\ Same(i, consent[j])
            => i \notin consent[j].seen

(* A consent keeps its parties and its scope, and one that was revoked or  *)
(* has expired never counts again.                                         *)
ConsentEnds ==
    [][\A i \in Consents : consent[i] # None =>
         /\ consent'[i] # None
         /\ consent'[i].granter = consent[i].granter
         /\ consent'[i].grantee = consent[i].grantee
         /\ consent'[i].scope = consent[i].scope
         /\ ~Active(i) => ~Active(i)']_pvars
=============================================================================
