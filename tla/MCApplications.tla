---------------------------- MODULE MCApplications ----------------------------
EXTENDS Applications, TLC

\* Two dates of one year, and one before the first year of the ledger.
MCDates == {1, 2, 3}
MCYearOf == <<2019, 2020, 2020>>
MCLedgerYears == 2020..2100

\* The two services meet only in the parties they name.  Explored are two
\* consent requests at once, one next to associations with the field, and
\* the records, each with every creation and deletion of parties.
Granted == {i \in Consents : consent[i] # None}
Asked == {c \in Clients : call[c] # None}
Held == {p \in Parties : \E f \in Fields : association[f][p] # None}
Stored == {i \in Records : record[i] # None}

Situation ==
    \/ Stored = {} /\ Held = {}
    \/ Stored = {} /\ Cardinality(Asked) <= 1 /\ Cardinality(Granted) <= 1
    \/ Asked = {} /\ Granted = {} /\ Held = {}

MCSymmetry == Permutations(Parties) \cup Permutations(Clients)
              \cup Permutations(Filers) \cup Permutations(Records)
=============================================================================
