CONSTANTS
    None = None
    Parties = {a, b}
    Fields = {f1}
    Scopes = {s1}
    Consents = {c1, c2}
    Clients = {r1, r2}
    Records = {n1, n2}
    Confirmations = {k1}
    Filers = {q1, q2}
    Dates <- MCDates
    YearOf <- MCYearOf
    LedgerYears <- MCLedgerYears
    Tons = {1, 2}
SYMMETRY MCSymmetry
CONSTRAINT Situation
SPECIFICATION Spec
INVARIANTS
    TypeOK
    NamedExist
    TwinsOverlapped
    LedgerIsTotal
PROPERTIES
    ConsentEnds
