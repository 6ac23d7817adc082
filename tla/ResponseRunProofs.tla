-------------------------- MODULE ResponseRunProofs --------------------------
(***************************************************************************)
(* For any decisions, lists, workers, pages, attempts and faults: what a   *)
(* page or a package shows of a response that ended is all of one attempt  *)
(* and nothing of another.                                                 *)
(*                                                                         *)
(* Nothing in the code makes the rows of an attempt appear together, so    *)
(* the proof follows the job statement by statement: at each point the     *)
(* rows of the run are exactly those that the statements before it wrote   *)
(* (PointFits), because an attempt begins by deleting, has its run to      *)
(* itself (Exclusive) and only writes while the run is RUNNING.  A run     *)
(* that ended is therefore complete and no longer written, and a page that *)
(* collects its tables one by one collects one state of them (PageFits).   *)
(***************************************************************************)
EXTENDS ResponseRun, FiniteSetTheorems, WellFoundedInduction, TLAPS

TaskCodes == RowsOf(taskDefinitions("PROHIBITED")) \cup RowsOf(taskDefinitions("ELEVATED"))
Leads == Facilities \ {Plant}
SewerCodes == {"SEWER_CONTEXT_UNAVAILABLE", "SEWER_CONTEXT_PARTIAL"}
LandfillCodes == {"LANDFILL_INVENTORY_UNAVAILABLE", "NO_VERIFIED_LANDFILL_CANDIDATES"}
Codes == SewerCodes \cup {"ECHO_SCREEN_UNAVAILABLE"} \cup LandfillCodes
           \cup {"DRIVING_ROUTES_UNAVAILABLE"}
Output == [tasks : SUBSET TaskCodes, evidence : SUBSET Evidence, leads : SUBSET Leads,
           alternatives : SUBSET Landfills, gaps : SUBSET Codes]

Points == Statement \cup {"failed", "nil", "error"}
Writing == Statement \ {"load", "mark"}
WorkerRow == [at : {"idle"} \cup Points, run : Run \cup {None},
              todo : Seq(TaskCodes) \cup Seq(Leads) \cup Seq(Landfills), critical : BOOLEAN]
Page == [run : Run \cup {None}, status : {"ABSENT", "READY", "REVIEW_REQUIRED"},
         left : Seq(Tables), out : Output]

IType ==
    /\ tier \in [Decisions -> Tier]
    /\ location \in [Locations -> {"ABSENT", "michigan", "elsewhere", "unresolved", "confirmed"}]
    /\ status \in [Run -> {"ABSENT"} \cup Active \cup Ended]
    /\ order \in Seq(Run)
    /\ out \in [Run -> Output]
    /\ job \in [Run -> JobRow(MaxAttempts)]
    /\ worker \in [Workers -> WorkerRow]
    /\ reader \in [Readers -> Page]
    /\ faults \in 0..MaxFaults

-----------------------------------------------------------------------------
(* The rows o of a run of tier t while an attempt writes them: c is        *)
(* whether the attempt met a gap, todo what is left of the list it is at.  *)

Only(o, kinds) == \A e \in o.evidence : e.kind \in kinds
Flagged(o, c) == c <=> o.gaps # {}

TasksDone(o, t) == o.tasks = RowsOf(taskDefinitions(t))

HeardSewer(o) ==
    /\ Heard(o, "SEWER_CONTEXT", {"SEWER_CONTEXT_UNAVAILABLE"})
    /\ ("SEWER_CONTEXT_PARTIAL" \in o.gaps) <=>
         (\E e \in o.evidence : e.kind = "SEWER_CONTEXT" /\ e.status = "PARTIAL")
HeardEcho(o) == Heard(o, "POTENTIAL_PFAS_SECTORS", {"ECHO_SCREEN_UNAVAILABLE"})
HeardLandfills(o) == Heard(o, "ACTIVE_TYPE_II_LANDFILLS", LandfillCodes)
HeardRoutes(o) == Heard(o, "ALTERNATIVE_ROUTES", {"DRIVING_ROUTES_UNAVAILABLE"})
LeadsDone(o) == Cardinality(o.leads) = Announced(o, "POTENTIAL_PFAS_SECTORS")

Nothing(o) == o.evidence = {} /\ o.leads = {} /\ o.alternatives = {}

AtTasks(o, t, c, todo) ==
    /\ todo \in Seq(TaskCodes)
    /\ o.tasks \cup RowsOf(todo) = RowsOf(taskDefinitions(t))
    /\ Nothing(o) /\ o.gaps = {} /\ ~c

AtSewer(o, t, c) == TasksDone(o, t) /\ Nothing(o) /\ o.gaps = {} /\ ~c

AtPartial(o, t, c) ==
    /\ TasksDone(o, t)
    /\ o.evidence = {[kind |-> "SEWER_CONTEXT", status |-> "PARTIAL", n |-> 0]}
    /\ o.leads = {} /\ o.alternatives = {} /\ o.gaps = {} /\ ~c

AtEcho(o, t, c) ==
    /\ TasksDone(o, t) /\ HeardSewer(o)
    /\ Only(o, {"SEWER_CONTEXT"}) /\ o.gaps \subseteq SewerCodes
    /\ o.leads = {} /\ o.alternatives = {} /\ Flagged(o, c)

AtLeads(o, t, c, todo) ==
    /\ todo \in Seq(Leads)
    /\ TasksDone(o, t) /\ HeardSewer(o) /\ HeardEcho(o)
    /\ Only(o, {"SEWER_CONTEXT", "POTENTIAL_PFAS_SECTORS"}) /\ o.gaps \subseteq SewerCodes
    /\ IsFiniteSet(o.leads)
    /\ Cardinality(o.leads) + Len(todo) = Announced(o, "POTENTIAL_PFAS_SECTORS")
    /\ o.alternatives = {} /\ Flagged(o, c)

AtLandfills(o, t, c) ==
    /\ TasksDone(o, t) /\ HeardSewer(o) /\ HeardEcho(o) /\ LeadsDone(o)
    /\ Only(o, {"SEWER_CONTEXT", "POTENTIAL_PFAS_SECTORS"})
    /\ o.gaps \subseteq SewerCodes \cup {"ECHO_SCREEN_UNAVAILABLE"}
    /\ o.alternatives = {} /\ Flagged(o, c)

AtRoutes(o, t, c, todo) ==
    /\ todo \in Seq(Landfills)
    /\ TasksDone(o, t) /\ HeardSewer(o) /\ HeardEcho(o) /\ LeadsDone(o) /\ HeardLandfills(o)
    /\ Only(o, {"SEWER_CONTEXT", "POTENTIAL_PFAS_SECTORS", "ACTIVE_TYPE_II_LANDFILLS"})
    /\ "DRIVING_ROUTES_UNAVAILABLE" \notin o.gaps
    /\ Len(todo) = Announced(o, "ACTIVE_TYPE_II_LANDFILLS")
    /\ o.alternatives = {} /\ Flagged(o, c)

AtAlternatives(o, t, c, todo) ==
    /\ todo \in Seq(Landfills)
    /\ TasksDone(o, t) /\ HeardSewer(o) /\ HeardEcho(o) /\ LeadsDone(o) /\ HeardLandfills(o)
    /\ HeardRoutes(o)
    /\ IsFiniteSet(o.alternatives)
    /\ Cardinality(o.alternatives) + Len(todo) = Announced(o, "ACTIVE_TYPE_II_LANDFILLS")
    /\ Flagged(o, c)

AtComplete(o, t, c) == Complete(o, t) /\ Flagged(o, c)

PointFits(at, o, t, c, todo) ==
    /\ at \in {"load", "mark", "clear"} => ~c
    /\ at = "tasks" => AtTasks(o, t, c, todo)
    /\ at = "sewer" => AtSewer(o, t, c)
    /\ at = "partial" => AtPartial(o, t, c)
    /\ at = "echo" => AtEcho(o, t, c)
    /\ at = "leads" => AtLeads(o, t, c, todo)
    /\ at = "landfills" => AtLandfills(o, t, c)
    /\ at = "routes" => AtRoutes(o, t, c, todo)
    /\ at = "alternatives" => AtAlternatives(o, t, c, todo)
    /\ at = "complete" => AtComplete(o, t, c)

-----------------------------------------------------------------------------
Busy(w) == worker[w].at # "idle"

WorkerFits(w) ==
    Busy(w) =>
        LET r == worker[w].run
        IN  /\ r \in Run
            /\ job[r].state = "running"
            /\ status[r] # "ABSENT"
            /\ worker[w].at = "mark" => status[r] \in Active
            /\ worker[w].at \in Writing => status[r] = "RUNNING"
            /\ PointFits(worker[w].at, out[r], tier[r[1]], worker[w].critical, worker[w].todo)

Exclusive ==
    \A v, w \in Workers : Busy(v) /\ Busy(w) /\ worker[v].run = worker[w].run => v = w

(* What a run that ended with s says it is. *)
Delivered(r, s) ==
    Complete(out[r], tier[r[1]]) /\ ((s = "READY") <=> (out[r].gaps = {}))

RunFits(r) ==
    /\ job[r].state = "available" => job[r].tries < MaxAttempts
    /\ status[r] = "ABSENT" => job[r].state = "none"
    /\ status[r] \in {"READY", "REVIEW_REQUIRED"} => Delivered(r, status[r])

(* A page g that is being collected. *)
Shows(g) ==
    IF g.run = None THEN g.status = "ABSENT" /\ g.left = <<>>
    ELSE LET r == g.run
         IN  /\ g.status \in {"READY", "REVIEW_REQUIRED"}
             /\ status[r] \in {g.status, "FAILED"}
             /\ Delivered(r, g.status)
             /\ \A t \in Tables : t \notin RowsOf(g.left) => g.out[t] = out[r][t]

PageFits(p) == Shows(reader[p])

IInv ==
    /\ IType
    /\ \A w \in Workers : WorkerFits(w)
    /\ Exclusive
    /\ \A r \in Run : RunFits(r)
    /\ \A p \in Readers : PageFits(p)

-----------------------------------------------------------------------------
(* Lists and what sources said. *)

LEMMA ListHead ==
    ASSUME NEW S, NEW s \in Seq(S), s # <<>>
    PROVE  /\ Head(s) \in S /\ Tail(s) \in Seq(S)
           /\ Len(s) \in Nat /\ Len(Tail(s)) = Len(s) - 1
           /\ RowsOf(s) = {Head(s)} \cup RowsOf(Tail(s))
<1>1. /\ Head(s) \in S /\ Tail(s) \in Seq(S) /\ Len(s) \in Nat /\ Len(s) >= 1
      /\ Len(Tail(s)) = Len(s) - 1 /\ Head(s) = s[1]
      /\ \A i \in 1..Len(Tail(s)) : Tail(s)[i] = s[i + 1]
    OBVIOUS
<1>2. DOMAIN s = 1..Len(s) /\ DOMAIN Tail(s) = 1..(Len(s) - 1) BY <1>1
<1>3. ASSUME NEW x \in RowsOf(s) PROVE x \in {Head(s)} \cup RowsOf(Tail(s))
  <2>1. PICK i \in 1..Len(s) : x = s[i] BY <1>2 DEF RowsOf
  <2>2. CASE i = 1 BY <1>1, <2>1, <2>2
  <2>3. CASE i # 1
    <3>1. i - 1 \in 1..(Len(s) - 1) /\ (i - 1) + 1 = i BY <1>1, <2>1, <2>3
    <3>2. Tail(s)[i - 1] = s[i] BY <1>1, <3>1
    <3> QED BY <1>2, <2>1, <3>1, <3>2 DEF RowsOf
  <2> QED BY <2>2, <2>3
<1>4. Head(s) \in RowsOf(s) BY <1>1, <1>2 DEF RowsOf
<1>5. ASSUME NEW x \in RowsOf(Tail(s)) PROVE x \in RowsOf(s)
  <2>1. PICK i \in 1..(Len(s) - 1) : x = Tail(s)[i] BY <1>2 DEF RowsOf
  <2>2. i + 1 \in 1..Len(s) /\ x = s[i + 1] BY <1>1, <2>1
  <2> QED BY <1>2, <2>2 DEF RowsOf
<1> QED BY <1>1, <1>3, <1>4, <1>5

LEMMA NoRowsOfNothing == RowsOf(<<>>) = {}
BY DEF RowsOf

LEMMA TaskLists ==
    ASSUME NEW t
    PROVE  /\ taskDefinitions(t) \in Seq(TaskCodes)
           /\ RowsOf(taskDefinitions(t)) \subseteq TaskCodes
<1> DEFINE Named == {"SOURCE_EFFLUENT_SAMPLE", "VERIFY_COLLECTION_SYSTEM",
                      "REVIEW_UPSTREAM_RECORDS", "PLAN_TARGETED_SAMPLING",
                      "BLOCK_LAND_APPLICATION", "NOTIFY_EGLE",
                      "ARRANGE_ALTERNATIVE_MANAGEMENT", "ENFORCE_RATE_CAP"}
<1>1. \A u : taskDefinitions(u) \in Seq(Named)
  <2>1. <<"SOURCE_EFFLUENT_SAMPLE", "VERIFY_COLLECTION_SYSTEM",
          "REVIEW_UPSTREAM_RECORDS", "PLAN_TARGETED_SAMPLING">> \in Seq(Named)
      OBVIOUS
  <2>2. <<"BLOCK_LAND_APPLICATION", "NOTIFY_EGLE",
          "ARRANGE_ALTERNATIVE_MANAGEMENT">> \in Seq(Named)
      OBVIOUS
  <2>3. <<"ENFORCE_RATE_CAP">> \in Seq(Named) OBVIOUS
  <2>4. \A p, s \in Seq(Named) : p \o s \in Seq(Named) OBVIOUS
  <2> HIDE DEF Named
  <2> QED BY <2>1, <2>2, <2>3, <2>4 DEF taskDefinitions
<1> HIDE DEF Named
<1>2. taskDefinitions(t) \in {taskDefinitions("PROHIBITED"), taskDefinitions("ELEVATED")}
    BY DEF taskDefinitions
<1>3. RowsOf(taskDefinitions(t)) \subseteq TaskCodes BY <1>2 DEF TaskCodes
<1>4. \A i \in 1..Len(taskDefinitions(t)) : taskDefinitions(t)[i] \in TaskCodes
    BY <1>1, <1>3 DEF RowsOf
<1> QED BY <1>1, <1>3, <1>4

(* A row or a gap of something else changes nothing of what a source said. *)
LEMMA HeardLasts ==
    ASSUME NEW o, NEW q, NEW kind, NEW gap,
           {e \in q.evidence : e.kind = kind} = {e \in o.evidence : e.kind = kind},
           gap \cap q.gaps = gap \cap o.gaps
    PROVE  /\ Heard(q, kind, gap) <=> Heard(o, kind, gap)
           /\ Announced(q, kind) = Announced(o, kind)
<1>1. (\E e \in q.evidence : e.kind = kind) <=> (\E e \in o.evidence : e.kind = kind)
    OBVIOUS
<1>2. Heard(q, kind, gap) <=> Heard(o, kind, gap)
    BY <1>1 DEF Heard
<1>3. Announced(q, kind) = Announced(o, kind) BY DEF Announced
<1> QED BY <1>2, <1>3

LEMMA AnnouncedByRow ==
    ASSUME NEW q, NEW kind, NEW e, {x \in q.evidence : x.kind = kind} = {e}
    PROVE  Announced(q, kind) = e.n
<1>1. {x.n : x \in {e}} = {e.n} OBVIOUS
<1> QED BY <1>1 DEF Announced

LEMMA HeardByRow ==
    ASSUME NEW o, NEW q, NEW kind, NEW gap, NEW e, e.kind = kind,
           \A x \in o.evidence : x.kind # kind,
           q.evidence = o.evidence \cup {e}, gap \cap q.gaps = {}
    PROVE  Heard(q, kind, gap)
<1>1. {x \in q.evidence : x.kind = kind} = {e} OBVIOUS
<1>2. \E x \in q.evidence : x.kind = kind OBVIOUS
<1>3. Cardinality({e}) = 1 BY FS_Singleton
<1>4. Cardinality(gap \cap q.gaps) = 0 BY FS_EmptySet
<1>5. Heard(q, kind, gap)
  <2>1. (gap \cap q.gaps = {}) <=> (\E x \in q.evidence : x.kind = kind) BY <1>2
  <2>2. Cardinality({x \in q.evidence : x.kind = kind}) = 1 BY <1>1, <1>3
  <2>3. Cardinality({x \in q.evidence : x.kind = kind}) <= 1 BY <2>2
  <2>4. Cardinality(gap \cap q.gaps) <= 1 BY <1>4
  <2> QED BY <2>1, <2>3, <2>4 DEF Heard
<1> QED BY <1>5

LEMMA HeardByGap ==
    ASSUME NEW q, NEW kind, NEW gap, NEW g,
           \A x \in q.evidence : x.kind # kind, gap \cap q.gaps = {g}
    PROVE  Heard(q, kind, gap) /\ Announced(q, kind) = 0
<1>1. {x \in q.evidence : x.kind = kind} = {} OBVIOUS
<1>2. ~\E x \in q.evidence : x.kind = kind OBVIOUS
<1>3. Cardinality({g}) = 1 BY FS_Singleton
<1>4. Cardinality({}) = 0 BY FS_EmptySet
<1>5. Heard(q, kind, gap)
  <2>1. (gap \cap q.gaps = {}) <=> (\E x \in q.evidence : x.kind = kind) BY <1>2
  <2>2. Cardinality({x \in q.evidence : x.kind = kind}) = 0 BY <1>1, <1>4
  <2>3. Cardinality({x \in q.evidence : x.kind = kind}) <= 1 BY <2>2
  <2>4. Cardinality(gap \cap q.gaps) = 1 BY <1>3
  <2>5. Cardinality(gap \cap q.gaps) <= 1 BY <2>4
  <2> QED BY <2>1, <2>3, <2>5 DEF Heard
<1>6. Announced(q, kind) = 0 BY <1>1 DEF Announced
<1> QED BY <1>5, <1>6

-----------------------------------------------------------------------------
(* The two definitions that look through a list: the filter of the plant   *)
(* returns facilities other than the plant, and the latest run of a        *)
(* decision is a run.  Each needs a least, or a greatest, natural number.  *)

LEMMA LessThanIsWellFounded ==
    \E R : IsWellFoundedOn(R, Nat) /\ \A x, y \in Nat : y < x => <<y, x>> \in R
<1>1. IsWellFoundedOn(OpToRel(<, Nat), Nat) BY NatLessThanWellFounded, Zenon
<1>2. \A x, y \in Nat : y < x => <<y, x>> \in OpToRel(<, Nat) BY DEF OpToRel
<1> QED BY <1>1, <1>2, Zenon

LEMMA LeastNatural ==
    ASSUME NEW T \in SUBSET Nat, T # {}
    PROVE  \E x \in T : \A y \in T : x <= y
<1>1. \A t \in T : t \in Nat OBVIOUS
<1>2. PICK R : IsWellFoundedOn(R, Nat) /\ \A x, y \in Nat : y < x => <<y, x>> \in R
    BY LessThanIsWellFounded
<1>3. PICK x \in T : \A y \in T : ~ (<<y, x>> \in R) BY <1>2, WFMin
<1>4. ASSUME NEW y \in T PROVE x <= y
  <2>1. x \in Nat /\ y \in Nat BY <1>1
  <2>2. ~ (y < x) BY <1>2, <1>3, <2>1, Zenon
  <2> QED BY <2>1, <2>2
<1> QED BY <1>4

LEMMA GreatestNatural ==
    ASSUME NEW T \in SUBSET Nat, T # {}, NEW n \in Nat, \A t \in T : t <= n
    PROVE  \E x \in T : \A y \in T : y <= x
<1> DEFINE D == {n - t : t \in T}
<1>1. \A t \in T : t \in Nat /\ n - t \in Nat OBVIOUS
<1>2. D \in SUBSET Nat BY <1>1
<1>3. D # {} OBVIOUS
<1>4. PICK d \in D : \A e \in D : d <= e
  <2> HIDE DEF D
  <2> QED BY <1>2, <1>3, LeastNatural
<1>5. PICK x \in T : d = n - x OBVIOUS
<1>6. ASSUME NEW y \in T PROVE y <= x
  <2>1. n - y \in D OBVIOUS
  <2>2. d <= n - y BY <1>4, <2>1
  <2> QED BY <1>1, <1>5, <2>2
<1> QED BY <1>6

(* One more element of a list of facilities. *)
KeptOne(s, prev, i) == IF s[i] = Plant THEN prev ELSE Append(prev, s[i])
KeptUpTo(f, s, n) ==
    f = [i \in 0..n |-> IF i = 0 THEN <<>> ELSE KeptOne(s, f[i - 1], i)]

LEMMA KeptExists ==
    ASSUME NEW s, NEW n \in Nat
    PROVE  \E f : KeptUpTo(f, s, n)
<1> DEFINE T == {m \in Nat : ~\E f : KeptUpTo(f, s, m)}
<1> SUFFICES ASSUME T # {} PROVE FALSE OBVIOUS
<1>1. PICK m \in T : \A k \in T : m <= k
  <2>1. T \in SUBSET Nat OBVIOUS
  <2> HIDE DEF T
  <2> QED BY <2>1, LeastNatural
<1>2. m \in Nat OBVIOUS
<1>3. m # 0
  <2>1. KeptUpTo([i \in 0..0 |-> <<>>], s, 0) BY DEF KeptUpTo
  <2> QED BY <2>1
<1>4. m - 1 \in Nat /\ m - 1 \notin T BY <1>1, <1>2, <1>3
<1>5. PICK f : KeptUpTo(f, s, m - 1) BY <1>4
<1> DEFINE g == [i \in 0..m |-> IF i = m THEN KeptOne(s, f[m - 1], m) ELSE f[i]]
<1>6. \A i \in 0..m : g[i] = IF i = 0 THEN <<>> ELSE KeptOne(s, g[i - 1], i)
  <2> TAKE i \in 0..m
  <2>1. CASE i = m
    <3>1. g[m] = KeptOne(s, f[m - 1], m) BY <1>2
    <3>2. g[m - 1] = f[m - 1] BY <1>2, <1>3
    <3> QED BY <1>3, <2>1, <3>1, <3>2
  <2>2. CASE i # m
    <3>1. i \in 0..(m - 1) /\ g[i] = f[i] BY <1>2, <2>2
    <3>2. f[i] = IF i = 0 THEN <<>> ELSE KeptOne(s, f[i - 1], i)
        BY <1>5, <3>1 DEF KeptUpTo
    <3>3. i # 0 => i - 1 \in 0..m /\ i - 1 # m BY <1>2, <3>1
    <3>4. i # 0 => g[i - 1] = f[i - 1] BY <3>3
    <3> QED BY <3>1, <3>2, <3>4
  <2> QED BY <2>1, <2>2
<1>7. KeptUpTo(g, s, m)
  <2>1. g = [i \in 0..m |-> g[i]] OBVIOUS
  <2>2. [i \in 0..m |-> g[i]] = [i \in 0..m |-> IF i = 0 THEN <<>> ELSE KeptOne(s, g[i - 1], i)]
      BY <1>6
  <2> QED BY <2>1, <2>2 DEF KeptUpTo
<1> QED BY <1>2, <1>7

LEMMA KeptTyped ==
    ASSUME NEW n \in Nat, NEW s \in [1..n -> Facilities], NEW f, KeptUpTo(f, s, n),
           NEW m \in 0..n
    PROVE  f[m] \in Seq(Leads)
<1> DEFINE T == {k \in 0..n : f[k] \notin Seq(Leads)}
<1> SUFFICES ASSUME T # {} PROVE FALSE OBVIOUS
<1>1. PICK k \in T : \A j \in T : k <= j
  <2>1. T \in SUBSET Nat OBVIOUS
  <2> HIDE DEF T
  <2> QED BY <2>1, LeastNatural
<1>2. k \in 0..n /\ f[k] \notin Seq(Leads) OBVIOUS
<1>3. f[k] = IF k = 0 THEN <<>> ELSE KeptOne(s, f[k - 1], k) BY <1>2 DEF KeptUpTo
<1>4. k # 0
  <2>1. <<>> \in Seq(Leads) OBVIOUS
  <2> QED BY <1>2, <1>3, <2>1
<1>5. k - 1 \in 0..n /\ k - 1 \notin T BY <1>1, <1>2, <1>4
<1>6. f[k - 1] \in Seq(Leads) BY <1>5
<1>7. s[k] \in Facilities BY <1>2, <1>4
<1>8. s[k] # Plant => Append(f[k - 1], s[k]) \in Seq(Leads) BY <1>6, <1>7 DEF Leads
<1> QED BY <1>2, <1>3, <1>4, <1>6, <1>8 DEF KeptOne

LEMMA PlantIsNoLead ==
    ASSUME NEW s \in Listed
    PROVE  Kept(excludeTreatmentPlant(s)) \in Seq(Leads)
<1>1. PICK n \in 0..(MaxLeads + 1) : s \in [1..n -> Facilities] BY DEF Listed
<1>2. n \in Nat /\ Len(s) = n BY <1>1, BoundsAssumption
<1>3. PICK f : KeptUpTo(f, s, n) BY <1>2, KeptExists
<1>4. excludeTreatmentPlant(s) = (CHOOSE g : KeptUpTo(g, s, n))[n]
    BY <1>2 DEF excludeTreatmentPlant, KeptUpTo, KeptOne
<1>5. KeptUpTo(CHOOSE g : KeptUpTo(g, s, n), s, n) BY <1>3
<1>6. n \in 0..n BY <1>2
<1>7. excludeTreatmentPlant(s) \in Seq(Leads) BY <1>1, <1>2, <1>4, <1>5, <1>6, KeptTyped
<1> DEFINE e == excludeTreatmentPlant(s)
<1> HIDE DEF e
<1>8. e \in Seq(Leads) BY <1>7 DEF e
<1>9. Kept(e) \in Seq(Leads) BY <1>8, BoundsAssumption DEF Kept
<1> QED BY <1>9 DEF e

LEMMA LatestIsARun ==
    ASSUME order \in Seq(Run), NEW d
    PROVE  GetLatestResponseRun(d) \in Run \cup {None}
<1> DEFINE mine == {i \in DOMAIN order : order[i][1] = d}
<1>1. CASE mine = {} BY <1>1 DEF GetLatestResponseRun
<1>2. CASE mine # {}
  <2>1. DOMAIN order = 1..Len(order) /\ Len(order) \in Nat OBVIOUS
  <2>2. mine \in SUBSET Nat /\ \A i \in mine : i <= Len(order) BY <2>1
  <2>3. PICK i \in mine : \A j \in mine : j <= i
    <3> HIDE DEF mine
    <3> QED BY <1>2, <2>1, <2>2, GreatestNatural
  <2>4. (CHOOSE k \in mine : \A j \in mine : j <= k) \in mine BY <2>3
  <2>5. \A k \in mine : order[k] \in Run BY <2>1
  <2> QED BY <1>2, <2>4, <2>5 DEF GetLatestResponseRun
<1> QED BY <1>1, <1>2

-----------------------------------------------------------------------------
(* What each statement makes of the rows of its run. *)

WithRow(o, table, row) == [o EXCEPT ![table] = @ \cup {row}]

LEMMA RowFields ==
    ASSUME NEW o \in Output, NEW row
    PROVE  /\ LET q == WithRow(o, "tasks", row)
              IN  /\ q.tasks = o.tasks \cup {row} /\ q.evidence = o.evidence /\ q.leads = o.leads
                  /\ q.alternatives = o.alternatives /\ q.gaps = o.gaps
                  /\ row \in TaskCodes => q \in Output
           /\ LET q == WithRow(o, "evidence", row)
              IN  /\ q.tasks = o.tasks /\ q.evidence = o.evidence \cup {row} /\ q.leads = o.leads
                  /\ q.alternatives = o.alternatives /\ q.gaps = o.gaps
                  /\ row \in Evidence => q \in Output
           /\ LET q == WithRow(o, "leads", row)
              IN  /\ q.tasks = o.tasks /\ q.evidence = o.evidence /\ q.leads = o.leads \cup {row}
                  /\ q.alternatives = o.alternatives /\ q.gaps = o.gaps
                  /\ row \in Leads => q \in Output
           /\ LET q == WithRow(o, "alternatives", row)
              IN  /\ q.tasks = o.tasks /\ q.evidence = o.evidence /\ q.leads = o.leads
                  /\ q.alternatives = o.alternatives \cup {row} /\ q.gaps = o.gaps
                  /\ row \in Landfills => q \in Output
           /\ LET q == WithRow(o, "gaps", row)
              IN  /\ q.tasks = o.tasks /\ q.evidence = o.evidence /\ q.leads = o.leads
                  /\ q.alternatives = o.alternatives /\ q.gaps = o.gaps \cup {row}
                  /\ row \in Codes => q \in Output
BY DEF WithRow, Output

LEMMA Cleared ==
    ASSUME NEW t
    PROVE  NoRows \in Output /\ AtTasks(NoRows, t, FALSE, taskDefinitions(t))
<1>1. NoRows \in Output BY DEF NoRows, Tables, Output
<1>2. /\ NoRows.tasks = {} /\ NoRows.evidence = {} /\ NoRows.leads = {}
      /\ NoRows.alternatives = {} /\ NoRows.gaps = {}
    BY DEF NoRows, Tables
<1> QED BY <1>1, <1>2, TaskLists DEF AtTasks, Nothing

LEMMA TaskWritten ==
    ASSUME NEW o \in Output, NEW t, NEW c, NEW todo, AtTasks(o, t, c, todo), todo # <<>>
    PROVE  LET q == WithRow(o, "tasks", Head(todo))
           IN  q \in Output /\ AtTasks(q, t, c, Tail(todo))
<1>1. /\ Head(todo) \in TaskCodes /\ Tail(todo) \in Seq(TaskCodes)
      /\ RowsOf(todo) = {Head(todo)} \cup RowsOf(Tail(todo))
    BY ListHead DEF AtTasks
<1> DEFINE q == WithRow(o, "tasks", Head(todo))
<1> HIDE DEF q
<1>2. /\ q.tasks = o.tasks \cup {Head(todo)} /\ q.evidence = o.evidence /\ q.leads = o.leads
      /\ q.alternatives = o.alternatives /\ q.gaps = o.gaps /\ q \in Output
    BY <1>1, RowFields, SMTT(30) DEF q
<1>3. q.tasks \cup RowsOf(Tail(todo)) = RowsOf(taskDefinitions(t))
    BY <1>1, <1>2 DEF AtTasks
<1>4. AtTasks(q, t, c, Tail(todo)) BY <1>1, <1>2, <1>3 DEF AtTasks, Nothing
<1> QED BY <1>2, <1>4 DEF q

LEMMA TasksWritten ==
    ASSUME NEW o \in Output, NEW t, NEW c, AtTasks(o, t, c, <<>>)
    PROVE  AtSewer(o, t, c)
BY NoRowsOfNothing DEF AtTasks, AtSewer, TasksDone

SewerRow(s) == [kind |-> "SEWER_CONTEXT", status |-> s, n |-> 0]

LEMMA SewerAnswered ==
    ASSUME NEW o \in Output, NEW t, NEW c, AtSewer(o, t, c), NEW s \in {"AVAILABLE", "PARTIAL"}
    PROVE  LET q == WithRow(o, "evidence", SewerRow(s))
           IN  /\ q \in Output
               /\ s = "PARTIAL" => AtPartial(q, t, c)
               /\ s = "AVAILABLE" => AtEcho(q, t, c)
<1> DEFINE e == SewerRow(s)
           q == WithRow(o, "evidence", e)
<1>1. e \in Evidence /\ e.kind = "SEWER_CONTEXT" /\ e.status = s /\ e.n = 0
    BY DEF SewerRow, Evidence
<1> HIDE DEF q, e
<1>2. /\ q.tasks = o.tasks /\ q.evidence = o.evidence \cup {e} /\ q.leads = o.leads
      /\ q.alternatives = o.alternatives /\ q.gaps = o.gaps /\ q \in Output
    BY <1>1, RowFields DEF q
<1>3. q.evidence = {e} /\ q.leads = {} /\ q.alternatives = {} /\ q.gaps = {} /\ ~c
    BY <1>2 DEF AtSewer, Nothing
<1>4. TasksDone(q, t) BY <1>2 DEF AtSewer, TasksDone
<1>5. CASE s = "PARTIAL"
  <2>1. q.evidence = {[kind |-> "SEWER_CONTEXT", status |-> "PARTIAL", n |-> 0]}
      BY <1>3, <1>5 DEF e, SewerRow
  <2>2. AtPartial(q, t, c) BY <1>3, <1>4, <2>1 DEF AtPartial
  <2> QED BY <1>2, <1>5, <2>2 DEF q, e
<1>6. CASE s = "AVAILABLE"
  <2>1. Heard(q, "SEWER_CONTEXT", {"SEWER_CONTEXT_UNAVAILABLE"})
    <3>1. \A x \in o.evidence : x.kind # "SEWER_CONTEXT" BY DEF AtSewer, Nothing
    <3>2. {"SEWER_CONTEXT_UNAVAILABLE"} \cap q.gaps = {} BY <1>3
    <3> QED BY <1>1, <1>2, <3>1, <3>2, HeardByRow
  <2>2. ~\E x \in q.evidence : x.kind = "SEWER_CONTEXT" /\ x.status = "PARTIAL"
      BY <1>1, <1>3, <1>6
  <2>3. ("SEWER_CONTEXT_PARTIAL" \in q.gaps) <=>
          (\E x \in q.evidence : x.kind = "SEWER_CONTEXT" /\ x.status = "PARTIAL")
      BY <1>3, <2>2
  <2>4. HeardSewer(q) BY <2>1, <2>3 DEF HeardSewer
  <2>5. Only(q, {"SEWER_CONTEXT"}) /\ q.gaps \subseteq SewerCodes /\ Flagged(q, c)
      BY <1>1, <1>3 DEF Only, Flagged
  <2>6. AtEcho(q, t, c) BY <1>3, <1>4, <2>4, <2>5 DEF AtEcho
  <2> QED BY <1>2, <1>6, <2>6 DEF q, e
<1> QED BY <1>5, <1>6

LEMMA SewerMissing ==
    ASSUME NEW o \in Output, NEW t, NEW c, AtSewer(o, t, c)
    PROVE  LET q == WithRow(o, "gaps", "SEWER_CONTEXT_UNAVAILABLE")
           IN  q \in Output /\ AtEcho(q, t, TRUE)
<1> DEFINE q == WithRow(o, "gaps", "SEWER_CONTEXT_UNAVAILABLE")
<1> HIDE DEF q
<1>1. "SEWER_CONTEXT_UNAVAILABLE" \in Codes BY DEF Codes, SewerCodes
<1>2. /\ q.tasks = o.tasks /\ q.evidence = o.evidence /\ q.leads = o.leads
      /\ q.alternatives = o.alternatives /\ q.gaps = o.gaps \cup {"SEWER_CONTEXT_UNAVAILABLE"}
      /\ q \in Output
    BY <1>1, RowFields DEF q
<1>3. /\ q.evidence = {} /\ q.leads = {} /\ q.alternatives = {}
      /\ q.gaps = {"SEWER_CONTEXT_UNAVAILABLE"}
    BY <1>2 DEF AtSewer, Nothing
<1>4. Heard(q, "SEWER_CONTEXT", {"SEWER_CONTEXT_UNAVAILABLE"})
  <2>1. \A x \in q.evidence : x.kind # "SEWER_CONTEXT" BY <1>3
  <2>2. {"SEWER_CONTEXT_UNAVAILABLE"} \cap q.gaps = {"SEWER_CONTEXT_UNAVAILABLE"} BY <1>3
  <2> QED BY <2>1, <2>2, HeardByGap
<1>5. ("SEWER_CONTEXT_PARTIAL" \in q.gaps) <=>
        (\E x \in q.evidence : x.kind = "SEWER_CONTEXT" /\ x.status = "PARTIAL")
  <2>1. "SEWER_CONTEXT_PARTIAL" \notin q.gaps BY <1>3
  <2>2. ~\E x \in q.evidence : x.kind = "SEWER_CONTEXT" /\ x.status = "PARTIAL" BY <1>3
  <2> QED BY <2>1, <2>2
<1>6. TasksDone(q, t) BY <1>2 DEF AtSewer, TasksDone
<1>7. Only(q, {"SEWER_CONTEXT"}) /\ q.gaps \subseteq SewerCodes /\ Flagged(q, TRUE)
    BY <1>3 DEF Only, SewerCodes, Flagged
<1>8. AtEcho(q, t, TRUE) BY <1>3, <1>4, <1>5, <1>6, <1>7 DEF AtEcho, HeardSewer
<1> QED BY <1>2, <1>8 DEF q

LEMMA SewerPartial ==
    ASSUME NEW o \in Output, NEW t, NEW c, AtPartial(o, t, c)
    PROVE  LET q == WithRow(o, "gaps", "SEWER_CONTEXT_PARTIAL")
           IN  q \in Output /\ AtEcho(q, t, TRUE)
<1> DEFINE q == WithRow(o, "gaps", "SEWER_CONTEXT_PARTIAL")
           e == [kind |-> "SEWER_CONTEXT", status |-> "PARTIAL", n |-> 0]
<1>0. e.kind = "SEWER_CONTEXT" /\ e.status = "PARTIAL" OBVIOUS
<1> HIDE DEF q, e
<1>1. "SEWER_CONTEXT_PARTIAL" \in Codes BY DEF Codes, SewerCodes
<1>2. /\ q.tasks = o.tasks /\ q.evidence = o.evidence /\ q.leads = o.leads
      /\ q.alternatives = o.alternatives /\ q.gaps = o.gaps \cup {"SEWER_CONTEXT_PARTIAL"}
      /\ q \in Output
    BY <1>1, RowFields DEF q
<1>3. /\ q.evidence = {e} /\ q.leads = {} /\ q.alternatives = {}
      /\ q.gaps = {"SEWER_CONTEXT_PARTIAL"}
    BY <1>2 DEF AtPartial, e
<1>4. Heard(q, "SEWER_CONTEXT", {"SEWER_CONTEXT_UNAVAILABLE"})
  <2>1. {"SEWER_CONTEXT_UNAVAILABLE"} \cap q.gaps = {} BY <1>3
  <2>2. \A x \in NoRows.evidence : x.kind # "SEWER_CONTEXT" BY DEF NoRows, Tables
  <2>3. q.evidence = NoRows.evidence \cup {e} BY <1>3 DEF NoRows, Tables
  <2> QED BY <1>0, <2>1, <2>2, <2>3, HeardByRow
<1>5. ("SEWER_CONTEXT_PARTIAL" \in q.gaps) <=>
        (\E x \in q.evidence : x.kind = "SEWER_CONTEXT" /\ x.status = "PARTIAL")
  <2>1. "SEWER_CONTEXT_PARTIAL" \in q.gaps BY <1>3
  <2>2. \E x \in q.evidence : x.kind = "SEWER_CONTEXT" /\ x.status = "PARTIAL" BY <1>0, <1>3
  <2> QED BY <2>1, <2>2
<1>6. TasksDone(q, t) BY <1>2 DEF AtPartial, TasksDone
<1>7. Only(q, {"SEWER_CONTEXT"}) /\ q.gaps \subseteq SewerCodes /\ Flagged(q, TRUE)
    BY <1>0, <1>3 DEF Only, SewerCodes, Flagged
<1>8. AtEcho(q, t, TRUE) BY <1>3, <1>4, <1>5, <1>6, <1>7 DEF AtEcho, HeardSewer
<1> QED BY <1>2, <1>8 DEF q

(* What one source said does not depend on a row or a gap of another. *)
LEMMA OtherRow ==
    ASSUME NEW o, NEW q, NEW e, NEW kind, NEW gap, e.kind # kind,
           q.evidence = o.evidence \cup {e}, q.gaps = o.gaps
    PROVE  /\ Heard(q, kind, gap) <=> Heard(o, kind, gap)
           /\ Announced(q, kind) = Announced(o, kind)
           /\ kind = "SEWER_CONTEXT" => (HeardSewer(q) <=> HeardSewer(o))
<1>1. {x \in q.evidence : x.kind = kind} = {x \in o.evidence : x.kind = kind} OBVIOUS
<1>2. /\ Heard(q, kind, gap) <=> Heard(o, kind, gap)
      /\ Announced(q, kind) = Announced(o, kind)
    BY <1>1, HeardLasts
<1>3. ASSUME kind = "SEWER_CONTEXT" PROVE HeardSewer(q) <=> HeardSewer(o)
  <2>1. Heard(q, kind, {"SEWER_CONTEXT_UNAVAILABLE"})
          <=> Heard(o, kind, {"SEWER_CONTEXT_UNAVAILABLE"})
      BY <1>1, HeardLasts
  <2>2. (\E x \in q.evidence : x.kind = "SEWER_CONTEXT" /\ x.status = "PARTIAL")
          <=> (\E x \in o.evidence : x.kind = "SEWER_CONTEXT" /\ x.status = "PARTIAL")
      BY <1>3
  <2> QED BY <1>3, <2>1, <2>2 DEF HeardSewer
<1> QED BY <1>2, <1>3

LEMMA OtherGap ==
    ASSUME NEW o, NEW q, NEW g, NEW kind, NEW gap, g \notin gap,
           q.evidence = o.evidence, q.gaps = o.gaps \cup {g}
    PROVE  /\ Heard(q, kind, gap) <=> Heard(o, kind, gap)
           /\ Announced(q, kind) = Announced(o, kind)
           /\ g \notin SewerCodes => (HeardSewer(q) <=> HeardSewer(o))
<1>1. gap \cap q.gaps = gap \cap o.gaps OBVIOUS
<1>2. /\ Heard(q, kind, gap) <=> Heard(o, kind, gap)
      /\ Announced(q, kind) = Announced(o, kind)
    BY <1>1, HeardLasts
<1>3. ASSUME g \notin SewerCodes PROVE HeardSewer(q) <=> HeardSewer(o)
  <2> DEFINE u == {"SEWER_CONTEXT_UNAVAILABLE"}
  <2>1. u \cap q.gaps = u \cap o.gaps BY <1>3 DEF SewerCodes
  <2>2. Heard(q, "SEWER_CONTEXT", u) <=> Heard(o, "SEWER_CONTEXT", u) BY <2>1, HeardLasts
  <2>3. "SEWER_CONTEXT_PARTIAL" \in q.gaps <=> "SEWER_CONTEXT_PARTIAL" \in o.gaps
      BY <1>3 DEF SewerCodes
  <2> QED BY <2>2, <2>3 DEF HeardSewer
<1> QED BY <1>2, <1>3

EchoRow(n) == [kind |-> "POTENTIAL_PFAS_SECTORS", status |-> "AVAILABLE", n |-> n]

LEMMA EchoAnswered ==
    ASSUME NEW o \in Output, NEW t, NEW c, AtEcho(o, t, c), NEW leads \in Seq(Leads)
    PROVE  LET q == WithRow(o, "evidence", EchoRow(Len(leads)))
           IN  q \in Output /\ AtLeads(q, t, c, leads)
<1> DEFINE e == EchoRow(Len(leads))
           q == WithRow(o, "evidence", e)
<1>1. e \in Evidence /\ e.kind = "POTENTIAL_PFAS_SECTORS" /\ e.n = Len(leads)
    BY DEF EchoRow, Evidence
<1> HIDE DEF q, e
<1>2. /\ q.tasks = o.tasks /\ q.evidence = o.evidence \cup {e} /\ q.leads = o.leads
      /\ q.alternatives = o.alternatives /\ q.gaps = o.gaps /\ q \in Output
    BY <1>1, RowFields DEF q
<1>3. q.leads = {} /\ q.alternatives = {} /\ q.gaps \subseteq SewerCodes /\ Flagged(q, c)
    BY <1>2 DEF AtEcho, Flagged
<1>4. TasksDone(q, t) BY <1>2 DEF AtEcho, TasksDone
<1>5. HeardSewer(q) BY <1>1, <1>2, OtherRow DEF AtEcho
<1>6. HeardEcho(q) /\ Announced(q, "POTENTIAL_PFAS_SECTORS") = Len(leads)
  <2>1. \A x \in o.evidence : x.kind # "POTENTIAL_PFAS_SECTORS" BY DEF AtEcho, Only
  <2>2. {"ECHO_SCREEN_UNAVAILABLE"} \cap q.gaps = {} BY <1>3 DEF SewerCodes
  <2>3. /\ Heard(q, "POTENTIAL_PFAS_SECTORS", {"ECHO_SCREEN_UNAVAILABLE"})
        /\ Announced(q, "POTENTIAL_PFAS_SECTORS") = e.n
    <3>1. Heard(q, "POTENTIAL_PFAS_SECTORS", {"ECHO_SCREEN_UNAVAILABLE"})
        BY <1>1, <1>2, <2>1, <2>2, HeardByRow
    <3>2. {x \in q.evidence : x.kind = "POTENTIAL_PFAS_SECTORS"} = {e} BY <1>1, <1>2, <2>1
    <3> QED BY <3>1, <3>2, AnnouncedByRow
  <2> QED BY <1>1, <2>3 DEF HeardEcho
<1>7. Only(q, {"SEWER_CONTEXT", "POTENTIAL_PFAS_SECTORS"})
    BY <1>1, <1>2 DEF AtEcho, Only
<1>8. IsFiniteSet(q.leads) /\ Cardinality(q.leads) + Len(leads) = Len(leads)
  <2>1. Cardinality(q.leads) = 0 /\ IsFiniteSet(q.leads) BY <1>3, FS_EmptySet
  <2> QED BY <2>1
<1>9. AtLeads(q, t, c, leads)
    BY <1>3, <1>4, <1>5, <1>6, <1>7, <1>8 DEF AtLeads
<1> QED BY <1>2, <1>9 DEF q, e

LEMMA EchoMissing ==
    ASSUME NEW o \in Output, NEW t, NEW c, AtEcho(o, t, c)
    PROVE  LET q == WithRow(o, "gaps", "ECHO_SCREEN_UNAVAILABLE")
           IN  q \in Output /\ AtLandfills(q, t, TRUE)
<1> DEFINE g == "ECHO_SCREEN_UNAVAILABLE"
           q == WithRow(o, "gaps", g)
<1>1. g \in Codes /\ g \notin SewerCodes BY DEF Codes, SewerCodes
<1> HIDE DEF q
<1>2. /\ q.tasks = o.tasks /\ q.evidence = o.evidence /\ q.leads = o.leads
      /\ q.alternatives = o.alternatives /\ q.gaps = o.gaps \cup {g} /\ q \in Output
    BY <1>1, RowFields DEF q
<1>3. /\ q.leads = {} /\ q.alternatives = {} /\ q.gaps \subseteq SewerCodes \cup {g}
      /\ Flagged(q, TRUE)
    BY <1>2 DEF AtEcho, Flagged
<1>4. TasksDone(q, t) BY <1>2 DEF AtEcho, TasksDone
<1>5. HeardSewer(q)
  <2>1. g \notin {} OBVIOUS
  <2> HIDE DEF g
  <2> QED BY <1>1, <1>2, <2>1, OtherGap DEF AtEcho
<1>6. HeardEcho(q) /\ Announced(q, "POTENTIAL_PFAS_SECTORS") = 0
  <2>1. \A x \in q.evidence : x.kind # "POTENTIAL_PFAS_SECTORS" BY <1>2 DEF AtEcho, Only
  <2>2. {"ECHO_SCREEN_UNAVAILABLE"} \cap q.gaps = {g} BY <1>2
  <2> QED BY <2>1, <2>2, HeardByGap DEF HeardEcho
<1>7. Only(q, {"SEWER_CONTEXT", "POTENTIAL_PFAS_SECTORS"}) BY <1>2 DEF AtEcho, Only
<1>8. LeadsDone(q) BY <1>3, <1>6, FS_EmptySet DEF LeadsDone
<1>9. AtLandfills(q, t, TRUE)
    BY <1>3, <1>4, <1>5, <1>6, <1>7, <1>8 DEF AtLandfills
<1> QED BY <1>2, <1>9 DEF q

LEMMA LeadWritten ==
    ASSUME NEW o \in Output, NEW t, NEW c, NEW todo, AtLeads(o, t, c, todo), todo # <<>>,
           Head(todo) \notin o.leads
    PROVE  LET q == WithRow(o, "leads", Head(todo))
           IN  q \in Output /\ AtLeads(q, t, c, Tail(todo))
<1>1. /\ Head(todo) \in Leads /\ Tail(todo) \in Seq(Leads)
      /\ Len(todo) \in Nat /\ Len(Tail(todo)) = Len(todo) - 1
    BY ListHead DEF AtLeads
<1> DEFINE q == WithRow(o, "leads", Head(todo))
<1> HIDE DEF q
<1>2. /\ q.tasks = o.tasks /\ q.evidence = o.evidence /\ q.leads = o.leads \cup {Head(todo)}
      /\ q.alternatives = o.alternatives /\ q.gaps = o.gaps /\ q \in Output
    BY <1>1, RowFields DEF q
<1>3. /\ HeardSewer(q) <=> HeardSewer(o)
      /\ HeardEcho(q) <=> HeardEcho(o)
      /\ Announced(q, "POTENTIAL_PFAS_SECTORS") = Announced(o, "POTENTIAL_PFAS_SECTORS")
  <2>1. HeardSewer(q) <=> HeardSewer(o) BY <1>2 DEF HeardSewer, Heard
  <2>2. HeardEcho(q) <=> HeardEcho(o) BY <1>2 DEF HeardEcho, Heard
  <2>3. Announced(q, "POTENTIAL_PFAS_SECTORS") = Announced(o, "POTENTIAL_PFAS_SECTORS")
      BY <1>2 DEF Announced
  <2> QED BY <2>1, <2>2, <2>3
<1>4. /\ IsFiniteSet(q.leads) /\ Cardinality(q.leads) = Cardinality(o.leads) + 1
      /\ Cardinality(o.leads) \in Nat
    BY <1>2, FS_AddElement, FS_CardinalityType DEF AtLeads
<1>5. Cardinality(q.leads) + Len(Tail(todo)) = Announced(q, "POTENTIAL_PFAS_SECTORS")
    BY <1>1, <1>3, <1>4 DEF AtLeads
<1>6. AtLeads(q, t, c, Tail(todo))
    BY <1>1, <1>2, <1>3, <1>4, <1>5 DEF AtLeads, TasksDone, Only, Flagged
<1> QED BY <1>2, <1>6 DEF q

LEMMA LeadsWritten ==
    ASSUME NEW o \in Output, NEW t, NEW c, AtLeads(o, t, c, <<>>)
    PROVE  AtLandfills(o, t, c)
<1>1. Cardinality(o.leads) \in Nat BY FS_CardinalityType DEF AtLeads
<1>2. Len(<<>>) = 0 OBVIOUS
<1>3. LeadsDone(o) BY <1>1, <1>2 DEF AtLeads, LeadsDone
<1> QED BY <1>3 DEF AtLeads, AtLandfills

(* Below PROHIBITED no alternatives are looked for. *)
LEMMA NoneNeeded ==
    ASSUME NEW o \in Output, NEW t, NEW c, AtLandfills(o, t, c), t # "PROHIBITED"
    PROVE  AtComplete(o, t, c)
<1>1. \A e \in o.evidence : e.kind # "ACTIVE_TYPE_II_LANDFILLS" BY DEF AtLandfills, Only
<1>2. {e \in o.evidence : e.kind = "ACTIVE_TYPE_II_LANDFILLS"} = {} BY <1>1
<1>3. Announced(o, "ACTIVE_TYPE_II_LANDFILLS") = 0 BY <1>2 DEF Announced
<1>4. Cardinality(o.alternatives) = 0 BY FS_EmptySet DEF AtLandfills
<1> QED BY <1>3, <1>4
         DEF AtLandfills, AtComplete, Complete, TasksDone, HeardSewer, HeardEcho, LeadsDone

LEMMA LandfillsMissing ==
    ASSUME NEW o \in Output, NEW t, NEW c, AtLandfills(o, t, c), NEW g \in LandfillCodes
    PROVE  LET q == WithRow(o, "gaps", g)
           IN  q \in Output /\ AtComplete(q, t, TRUE)
<1> DEFINE q == WithRow(o, "gaps", g)
<1>1. g \in Codes /\ g \notin SewerCodes /\ g \notin {"ECHO_SCREEN_UNAVAILABLE"}
    BY DEF Codes, SewerCodes, LandfillCodes
<1> HIDE DEF q
<1>2. /\ q.tasks = o.tasks /\ q.evidence = o.evidence /\ q.leads = o.leads
      /\ q.alternatives = o.alternatives /\ q.gaps = o.gaps \cup {g} /\ q \in Output
    BY <1>1, RowFields DEF q
<1>3. TasksDone(q, t) /\ q.alternatives = {} /\ Flagged(q, TRUE)
    BY <1>2 DEF AtLandfills, TasksDone, Flagged
<1>4. HeardSewer(q)
  <2>1. HeardSewer(q) <=> HeardSewer(o) BY <1>1, <1>2, OtherGap
  <2> QED BY <2>1 DEF AtLandfills
<1>5. /\ HeardEcho(q)
      /\ Announced(q, "POTENTIAL_PFAS_SECTORS") = Announced(o, "POTENTIAL_PFAS_SECTORS")
  <2>1. /\ Heard(q, "POTENTIAL_PFAS_SECTORS", {"ECHO_SCREEN_UNAVAILABLE"})
              <=> Heard(o, "POTENTIAL_PFAS_SECTORS", {"ECHO_SCREEN_UNAVAILABLE"})
        /\ Announced(q, "POTENTIAL_PFAS_SECTORS") = Announced(o, "POTENTIAL_PFAS_SECTORS")
      BY <1>1, <1>2, OtherGap
  <2> QED BY <2>1 DEF AtLandfills, HeardEcho
<1>6. LeadsDone(q) BY <1>2, <1>5 DEF AtLandfills, LeadsDone
<1>7. HeardLandfills(q) /\ Announced(q, "ACTIVE_TYPE_II_LANDFILLS") = 0
  <2>1. \A x \in q.evidence : x.kind # "ACTIVE_TYPE_II_LANDFILLS" BY <1>2 DEF AtLandfills, Only
  <2>2. LandfillCodes \cap q.gaps = {g}
      BY <1>2 DEF AtLandfills, LandfillCodes, SewerCodes
  <2> QED BY <2>1, <2>2, HeardByGap DEF HeardLandfills
<1>8. Cardinality(q.alternatives) = 0 BY <1>3, FS_EmptySet
<1>9. AtComplete(q, t, TRUE)
    BY <1>3, <1>4, <1>5, <1>6, <1>7, <1>8
    DEF AtComplete, Complete, TasksDone, HeardSewer, HeardEcho, LeadsDone, HeardLandfills,
        LandfillCodes
<1> QED BY <1>2, <1>9 DEF q

LandfillRow(n) == [kind |-> "ACTIVE_TYPE_II_LANDFILLS", status |-> "AVAILABLE", n |-> n]

LEMMA LandfillsAnswered ==
    ASSUME NEW o \in Output, NEW t, NEW c, AtLandfills(o, t, c), NEW s \in Seq(Landfills)
    PROVE  LET q == WithRow(o, "evidence", LandfillRow(Len(s)))
           IN  q \in Output /\ AtRoutes(q, t, c, s)
<1> DEFINE e == LandfillRow(Len(s))
           q == WithRow(o, "evidence", e)
<1>1. e \in Evidence /\ e.kind = "ACTIVE_TYPE_II_LANDFILLS" /\ e.n = Len(s)
    BY DEF LandfillRow, Evidence
<1> HIDE DEF q, e
<1>2. /\ q.tasks = o.tasks /\ q.evidence = o.evidence \cup {e} /\ q.leads = o.leads
      /\ q.alternatives = o.alternatives /\ q.gaps = o.gaps /\ q \in Output
    BY <1>1, RowFields DEF q
<1>3. TasksDone(q, t) /\ q.alternatives = {} /\ Flagged(q, c)
    BY <1>2 DEF AtLandfills, TasksDone, Flagged
<1>4. HeardSewer(q)
  <2>1. HeardSewer(q) <=> HeardSewer(o) BY <1>1, <1>2, OtherRow
  <2> QED BY <2>1 DEF AtLandfills
<1>5. /\ HeardEcho(q)
      /\ Announced(q, "POTENTIAL_PFAS_SECTORS") = Announced(o, "POTENTIAL_PFAS_SECTORS")
  <2>1. e.kind # "POTENTIAL_PFAS_SECTORS" BY <1>1
  <2>2. /\ Heard(q, "POTENTIAL_PFAS_SECTORS", {"ECHO_SCREEN_UNAVAILABLE"})
              <=> Heard(o, "POTENTIAL_PFAS_SECTORS", {"ECHO_SCREEN_UNAVAILABLE"})
        /\ Announced(q, "POTENTIAL_PFAS_SECTORS") = Announced(o, "POTENTIAL_PFAS_SECTORS")
      BY <1>2, <2>1, OtherRow
  <2> QED BY <2>2 DEF AtLandfills, HeardEcho
<1>6. LeadsDone(q) BY <1>2, <1>5 DEF AtLandfills, LeadsDone
<1>7. HeardLandfills(q) /\ Announced(q, "ACTIVE_TYPE_II_LANDFILLS") = Len(s)
  <2>1. \A x \in o.evidence : x.kind # "ACTIVE_TYPE_II_LANDFILLS" BY DEF AtLandfills, Only
  <2>2. LandfillCodes \cap q.gaps = {} BY <1>2 DEF AtLandfills, LandfillCodes, SewerCodes
  <2>3. HeardLandfills(q) BY <1>1, <1>2, <2>1, <2>2, HeardByRow DEF HeardLandfills
  <2>4. {x \in q.evidence : x.kind = "ACTIVE_TYPE_II_LANDFILLS"} = {e} BY <1>1, <1>2, <2>1
  <2> QED BY <1>1, <2>3, <2>4, AnnouncedByRow
<1>8. Only(q, {"SEWER_CONTEXT", "POTENTIAL_PFAS_SECTORS", "ACTIVE_TYPE_II_LANDFILLS"})
    BY <1>1, <1>2 DEF AtLandfills, Only
<1>9. "DRIVING_ROUTES_UNAVAILABLE" \notin q.gaps BY <1>2 DEF AtLandfills, SewerCodes
<1>10. AtRoutes(q, t, c, s)
    BY <1>3, <1>4, <1>5, <1>6, <1>7, <1>8, <1>9 DEF AtRoutes
<1> QED BY <1>2, <1>10 DEF q, e

RoutesRow == [kind |-> "ALTERNATIVE_ROUTES", status |-> "AVAILABLE", n |-> 0]

(* The routes were asked for: q are the rows after the answer. *)
LEMMA RoutesDone ==
    ASSUME NEW o \in Output, NEW q \in Output, NEW t, NEW c, NEW b, NEW todo,
           AtRoutes(o, t, c, todo), q.tasks = o.tasks, q.leads = o.leads,
           q.alternatives = o.alternatives, Flagged(q, b), HeardRoutes(q),
           \A kind, gap : kind # "ALTERNATIVE_ROUTES" /\ "DRIVING_ROUTES_UNAVAILABLE" \notin gap =>
               /\ Heard(q, kind, gap) <=> Heard(o, kind, gap)
               /\ Announced(q, kind) = Announced(o, kind),
           HeardSewer(q) <=> HeardSewer(o)
    PROVE  AtAlternatives(q, t, b, todo)
<1>1. TasksDone(q, t) /\ HeardSewer(q) /\ q.alternatives = {}
    BY DEF AtRoutes, TasksDone
<1>2. /\ Heard(q, "POTENTIAL_PFAS_SECTORS", {"ECHO_SCREEN_UNAVAILABLE"})
            <=> Heard(o, "POTENTIAL_PFAS_SECTORS", {"ECHO_SCREEN_UNAVAILABLE"})
      /\ Announced(q, "POTENTIAL_PFAS_SECTORS") = Announced(o, "POTENTIAL_PFAS_SECTORS")
    OBVIOUS
<1>3. "DRIVING_ROUTES_UNAVAILABLE" \notin LandfillCodes BY DEF LandfillCodes
<1>4. /\ Heard(q, "ACTIVE_TYPE_II_LANDFILLS", LandfillCodes)
            <=> Heard(o, "ACTIVE_TYPE_II_LANDFILLS", LandfillCodes)
      /\ Announced(q, "ACTIVE_TYPE_II_LANDFILLS") = Announced(o, "ACTIVE_TYPE_II_LANDFILLS")
    BY <1>3
<1>5. HeardEcho(q) /\ LeadsDone(q) /\ HeardLandfills(q)
    BY <1>2, <1>4 DEF AtRoutes, HeardEcho, LeadsDone, HeardLandfills
<1>6. IsFiniteSet(q.alternatives) /\ Cardinality(q.alternatives) = 0 BY <1>1, FS_EmptySet
<1>7. /\ Len(todo) \in Nat /\ Len(todo) = Announced(q, "ACTIVE_TYPE_II_LANDFILLS")
      /\ todo \in Seq(Landfills)
    BY <1>4 DEF AtRoutes
<1>8. Cardinality(q.alternatives) + Len(todo) = Announced(q, "ACTIVE_TYPE_II_LANDFILLS")
    BY <1>6, <1>7
<1> QED BY <1>1, <1>5, <1>6, <1>7, <1>8 DEF AtAlternatives

LEMMA RoutesAnswered ==
    ASSUME NEW o \in Output, NEW t, NEW c, NEW todo, AtRoutes(o, t, c, todo)
    PROVE  LET q == WithRow(o, "evidence", RoutesRow)
           IN  q \in Output /\ AtAlternatives(q, t, c, todo)
<1> DEFINE e == RoutesRow
           q == WithRow(o, "evidence", e)
<1>1. e \in Evidence /\ e.kind = "ALTERNATIVE_ROUTES" BY DEF RoutesRow, Evidence
<1> HIDE DEF q, e
<1>2. /\ q.tasks = o.tasks /\ q.evidence = o.evidence \cup {e} /\ q.leads = o.leads
      /\ q.alternatives = o.alternatives /\ q.gaps = o.gaps /\ q \in Output
    BY <1>1, RowFields DEF q
<1>3. Flagged(q, c) BY <1>2 DEF AtRoutes, Flagged
<1>4. HeardRoutes(q)
  <2>1. \A x \in o.evidence : x.kind # "ALTERNATIVE_ROUTES" BY DEF AtRoutes, Only
  <2>2. {"DRIVING_ROUTES_UNAVAILABLE"} \cap q.gaps = {} BY <1>2 DEF AtRoutes
  <2> QED BY <1>1, <1>2, <2>1, <2>2, HeardByRow DEF HeardRoutes
<1>5. ASSUME NEW kind, NEW gap, kind # "ALTERNATIVE_ROUTES"
      PROVE  /\ Heard(q, kind, gap) <=> Heard(o, kind, gap)
             /\ Announced(q, kind) = Announced(o, kind)
  <2>1. e.kind # kind BY <1>1, <1>5
  <2> QED BY <1>2, <2>1, OtherRow
<1>6. HeardSewer(q) <=> HeardSewer(o)
  <2>1. e.kind # "SEWER_CONTEXT" BY <1>1
  <2> QED BY <1>2, <2>1, OtherRow
<1>7. AtAlternatives(q, t, c, todo) BY <1>2, <1>3, <1>4, <1>5, <1>6, RoutesDone
<1> QED BY <1>2, <1>7 DEF q, e

LEMMA RoutesMissing ==
    ASSUME NEW o \in Output, NEW t, NEW c, NEW todo, AtRoutes(o, t, c, todo)
    PROVE  LET q == WithRow(o, "gaps", "DRIVING_ROUTES_UNAVAILABLE")
           IN  q \in Output /\ AtAlternatives(q, t, TRUE, todo)
<1> DEFINE g == "DRIVING_ROUTES_UNAVAILABLE"
           q == WithRow(o, "gaps", g)
<1>1. g \in Codes /\ g \notin SewerCodes BY DEF Codes, SewerCodes
<1> HIDE DEF q
<1>2. /\ q.tasks = o.tasks /\ q.evidence = o.evidence /\ q.leads = o.leads
      /\ q.alternatives = o.alternatives /\ q.gaps = o.gaps \cup {g} /\ q \in Output
    BY <1>1, RowFields DEF q
<1>3. Flagged(q, TRUE) BY <1>2 DEF Flagged
<1>4. HeardRoutes(q)
  <2>1. \A x \in q.evidence : x.kind # "ALTERNATIVE_ROUTES" BY <1>2 DEF AtRoutes, Only
  <2>2. {"DRIVING_ROUTES_UNAVAILABLE"} \cap q.gaps = {g} BY <1>2
  <2> QED BY <2>1, <2>2, HeardByGap DEF HeardRoutes
<1>5. ASSUME NEW kind, NEW gap, g \notin gap
      PROVE  /\ Heard(q, kind, gap) <=> Heard(o, kind, gap)
             /\ Announced(q, kind) = Announced(o, kind)
  <2> HIDE DEF g
  <2> QED BY <1>2, <1>5, OtherGap
<1>6. HeardSewer(q) <=> HeardSewer(o)
  <2> HIDE DEF g
  <2>1. g \notin {} OBVIOUS
  <2> QED BY <1>1, <1>2, <2>1, OtherGap
<1>7. AtAlternatives(q, t, TRUE, todo) BY <1>2, <1>3, <1>4, <1>5, <1>6, RoutesDone
<1> QED BY <1>2, <1>7 DEF q

LEMMA AlternativeWritten ==
    ASSUME NEW o \in Output, NEW t, NEW c, NEW todo, AtAlternatives(o, t, c, todo), todo # <<>>,
           Head(todo) \notin o.alternatives
    PROVE  LET q == WithRow(o, "alternatives", Head(todo))
           IN  q \in Output /\ AtAlternatives(q, t, c, Tail(todo))
<1>1. /\ Head(todo) \in Landfills /\ Tail(todo) \in Seq(Landfills)
      /\ Len(todo) \in Nat /\ Len(Tail(todo)) = Len(todo) - 1
    BY ListHead DEF AtAlternatives
<1> DEFINE q == WithRow(o, "alternatives", Head(todo))
<1> HIDE DEF q
<1>2. /\ q.tasks = o.tasks /\ q.evidence = o.evidence /\ q.leads = o.leads
      /\ q.alternatives = o.alternatives \cup {Head(todo)} /\ q.gaps = o.gaps /\ q \in Output
    BY <1>1, RowFields DEF q
<1>3. \A kind, gap : /\ Heard(q, kind, gap) <=> Heard(o, kind, gap)
                     /\ Announced(q, kind) = Announced(o, kind)
    BY <1>2, HeardLasts
<1>4. HeardSewer(q) <=> HeardSewer(o) BY <1>2 DEF HeardSewer, Heard
<1>5. /\ IsFiniteSet(q.alternatives) /\ Cardinality(q.alternatives) = Cardinality(o.alternatives) + 1
      /\ Cardinality(o.alternatives) \in Nat
    BY <1>2, FS_AddElement, FS_CardinalityType DEF AtAlternatives
<1>6. Cardinality(q.alternatives) + Len(Tail(todo)) = Announced(q, "ACTIVE_TYPE_II_LANDFILLS")
    BY <1>1, <1>3, <1>5 DEF AtAlternatives
<1>7. /\ TasksDone(q, t) /\ HeardEcho(q) /\ LeadsDone(q) /\ HeardLandfills(q) /\ HeardRoutes(q)
      /\ Flagged(q, c)
    BY <1>2, <1>3 DEF AtAlternatives, TasksDone, HeardEcho, LeadsDone, HeardLandfills,
                      HeardRoutes, Flagged
<1>8. AtAlternatives(q, t, c, Tail(todo))
    BY <1>1, <1>4, <1>5, <1>6, <1>7 DEF AtAlternatives
<1> QED BY <1>2, <1>8 DEF q

LEMMA AlternativesWritten ==
    ASSUME NEW o \in Output, NEW t, NEW c, AtAlternatives(o, t, c, <<>>)
    PROVE  AtComplete(o, t, c)
<1>1. Cardinality(o.alternatives) \in Nat BY FS_CardinalityType DEF AtAlternatives
<1>2. Cardinality(o.alternatives) = Announced(o, "ACTIVE_TYPE_II_LANDFILLS")
  <2>1. Len(<<>>) = 0 OBVIOUS
  <2> QED BY <1>1, <2>1 DEF AtAlternatives
<1> QED BY <1>2 DEF AtAlternatives, AtComplete, Complete, TasksDone, HeardSewer, HeardEcho,
                    LeadsDone, HeardLandfills, HeardRoutes, LandfillCodes

-----------------------------------------------------------------------------
(* A step of the job: worker w, at work on r, becomes new, and leaves r    *)
(* with the rows q and the status s.                                       *)

Step(w, r, new, q, s) ==
    /\ worker' = [worker EXCEPT ![w] = new]
    /\ out' = [out EXCEPT ![r] = q]
    /\ status' = [status EXCEPT ![r] = s]
    /\ UNCHANGED <<tier, location, order, job, reader>>
    /\ faults' \in 0..MaxFaults

Sound(w, r, new, q, s) ==
    /\ worker[w].at \in Points /\ worker[w].run = r
    /\ new \in WorkerRow /\ new.at \in Points /\ new.run = r
    /\ q \in Output
    /\ s \in Active \cup Ended
    /\ q # out[r] => status[r] = "RUNNING"
    /\ status[r] \in Ended => s \in {status[r], "FAILED"}
    /\ s \in {"READY", "REVIEW_REQUIRED"} =>
         Complete(q, tier[r[1]]) /\ ((s = "READY") <=> (q.gaps = {}))
    /\ new.at = "mark" => s \in Active
    /\ new.at \in Writing => s = "RUNNING"
    /\ PointFits(new.at, q, tier[r[1]], new.critical, new.todo)

Final(r) ==
    status[r] \in Ended => out'[r] = out[r] /\ status'[r] \in {status[r], "FAILED"}

Preserved == IInv' /\ \A r \in Run : Final(r)

LEMMA StepKeeps ==
    ASSUME IInv, NEW w \in Workers, NEW r \in Run, NEW new, NEW q, NEW s,
           Step(w, r, new, q, s), Sound(w, r, new, q, s)
    PROVE  Preserved
<1>1. /\ IType /\ worker \in [Workers -> WorkerRow] /\ out \in [Run -> Output]
      /\ status \in [Run -> {"ABSENT"} \cup Active \cup Ended]
      /\ reader \in [Readers -> Page]
    BY DEF IInv, IType
<1>2. /\ worker'[w] = new /\ \A v \in Workers \ {w} : worker'[v] = worker[v]
      /\ out'[r] = q /\ \A x \in Run \ {r} : out'[x] = out[x]
      /\ status'[r] = s /\ \A x \in Run \ {r} : status'[x] = status[x]
      /\ UNCHANGED <<tier, job, reader>>
    BY <1>1 DEF Step
<1>3. IType'
  <2>1. worker' \in [Workers -> WorkerRow] BY <1>1 DEF Step, Sound
  <2>2. out' \in [Run -> Output] BY <1>1 DEF Step, Sound
  <2>3. status' \in [Run -> {"ABSENT"} \cup Active \cup Ended] BY <1>1 DEF Step, Sound
  <2> QED BY <1>1, <2>1, <2>2, <2>3 DEF Step, IType
<1>4. Busy(w) /\ worker[w].run = r BY DEF Sound, Busy, Points, Statement
<1>5. \A v \in Workers \ {w} : Busy(v) => worker[v].run # r
    BY <1>4 DEF IInv, Exclusive
<1>6. \A v \in Workers : Busy(v)' <=> (v = w \/ Busy(v))
    BY <1>2, <1>4 DEF Sound, Busy, Points, Statement
<1>7. ASSUME NEW v \in Workers PROVE WorkerFits(v)'
  <2>1. CASE v = w
    <3>1. WorkerFits(w) BY DEF IInv
    <3>2. job[r].state = "running" BY <1>4, <3>1 DEF WorkerFits
    <3>3. s # "ABSENT" BY DEF Sound, Active, Ended
    <3> QED BY <1>2, <2>1, <3>2, <3>3 DEF WorkerFits, Sound
  <2>2. CASE v # w
    <3>1. WorkerFits(v) BY DEF IInv
    <3>2. CASE ~Busy(v)
      <4>1. ~Busy(v)' BY <1>6, <2>2, <3>2
      <4> QED BY <4>1 DEF WorkerFits
    <3>3. CASE Busy(v)
      <4>1. PICK x : x = worker[v].run OBVIOUS
      <4>2. x \in Run \ {r} BY <1>5, <2>2, <3>1, <3>3, <4>1 DEF WorkerFits
      <4>3. worker'[v] = worker[v] /\ out'[x] = out[x] /\ status'[x] = status[x]
          BY <1>2, <2>2, <4>2
      <4> QED BY <1>2, <3>1, <3>3, <4>1, <4>2, <4>3 DEF WorkerFits, Busy
    <3> QED BY <3>2, <3>3
  <2> QED BY <2>1, <2>2
<1>8. Exclusive'
  <2> SUFFICES ASSUME NEW u \in Workers, NEW v \in Workers, Busy(u)', Busy(v)',
                      worker'[u].run = worker'[v].run
               PROVE  u = v
      BY DEF Exclusive
  <2>1. Busy(u) /\ Busy(v) BY <1>4, <1>6
  <2>2. worker'[u].run = worker[u].run /\ worker'[v].run = worker[v].run
      BY <1>2, <1>4 DEF Sound
  <2> QED BY <2>1, <2>2 DEF IInv, Exclusive
<1>9. ASSUME NEW x \in Run PROVE RunFits(x)'
  <2>1. RunFits(x) BY DEF IInv
  <2>2. CASE x = r
    <3>1. s \in {"READY", "REVIEW_REQUIRED"} => Delivered(r, s)'
        BY <1>2 DEF Sound, Delivered
    <3>2. s # "ABSENT" BY DEF Sound, Active, Ended
    <3> QED BY <1>2, <2>1, <2>2, <3>1, <3>2 DEF RunFits
  <2>3. CASE x # r
    <3>1. out'[x] = out[x] /\ status'[x] = status[x] BY <1>2, <2>3
    <3> QED BY <1>2, <2>1, <3>1 DEF RunFits, Delivered
  <2> QED BY <2>2, <2>3
<1>10. \A x \in Run : Final(x)
  <2>1. Final(r) BY <1>2 DEF Sound, Final, Ended
  <2>2. \A x \in Run \ {r} : Final(x) BY <1>2 DEF Final
  <2> QED BY <2>1, <2>2
<1>11. ASSUME NEW p \in Readers PROVE PageFits(p)'
  <2>1. PageFits(p) BY DEF IInv
  <2>2. CASE reader[p].run = None BY <1>2, <2>1, <2>2 DEF PageFits, Shows
  <2>3. CASE reader[p].run # None
    <3>1. PICK x : x = reader[p].run OBVIOUS
    <3>2. x \in Run BY <1>1, <2>3, <3>1 DEF Page
    <3>3. status[x] \in {reader[p].status, "FAILED"} /\ status[x] \in Ended
        BY <2>1, <2>3, <3>1 DEF PageFits, Shows, Ended
    <3>4. out'[x] = out[x] /\ status'[x] \in {reader[p].status, "FAILED"}
        BY <1>10, <3>2, <3>3 DEF Final
    <3> QED BY <1>2, <2>1, <2>3, <3>1, <3>4 DEF PageFits, Shows, Delivered
  <2> QED BY <2>2, <2>3
<1>12. IInv' BY <1>3, <1>7, <1>8, <1>9, <1>11 DEF IInv
<1> QED BY <1>10, <1>12 DEF Preserved

(* What is known of a worker at a point of its job. *)
LEMMA AtAPoint ==
    ASSUME IInv, NEW w \in Workers, NEW r, NEW at \in Points, At(w, at, r)
    PROVE  /\ r \in Run /\ worker[w].run = r /\ worker[w].at = at /\ worker[w] \in WorkerRow
           /\ out[r] \in Output /\ status[r] \in Active \cup Ended
           /\ at = "mark" => status[r] \in Active
           /\ at \in Writing => status[r] = "RUNNING"
           /\ PointFits(at, out[r], tier[r[1]], worker[w].critical, worker[w].todo)
<1>1. WorkerFits(w) /\ worker[w].at = at /\ worker[w].run = r BY DEF IInv, At
<1>2. Busy(w) BY <1>1 DEF Busy, Points, Statement
<1>3. /\ r \in Run /\ status[r] # "ABSENT" /\ (at = "mark" => status[r] \in Active)
      /\ at \in Writing => status[r] = "RUNNING"
      /\ PointFits(at, out[r], tier[r[1]], worker[w].critical, worker[w].todo)
    BY <1>1, <1>2 DEF WorkerFits
<1>4. /\ worker \in [Workers -> WorkerRow] /\ out \in [Run -> Output]
      /\ status \in [Run -> {"ABSENT"} \cup Active \cup Ended]
    BY DEF IInv, IType
<1>5. worker[w] \in WorkerRow /\ out[r] \in Output /\ status[r] \in Active \cup Ended
    BY <1>3, <1>4
<1> QED BY <1>1, <1>3, <1>5

Lists == Seq(TaskCodes) \cup Seq(Leads) \cup Seq(Landfills)

Moved(w, at) == [worker[w] EXCEPT !.at = at]
MovedWith(w, at, todo) == [worker[w] EXCEPT !.at = at, !.todo = todo]
MovedCritical(w, at) == [worker[w] EXCEPT !.at = at, !.critical = TRUE]

LEMMA Moves ==
    ASSUME IInv, NEW w \in Workers, NEW at \in Points
    PROVE  /\ LET n == Moved(w, at)
              IN  /\ n \in WorkerRow /\ n.at = at /\ n.run = worker[w].run
                  /\ n.todo = worker[w].todo /\ n.critical = worker[w].critical
                  /\ Become(w, at) => worker' = [worker EXCEPT ![w] = n]
           /\ LET n == MovedCritical(w, at)
              IN  /\ n \in WorkerRow /\ n.at = at /\ n.run = worker[w].run
                  /\ n.todo = worker[w].todo /\ n.critical = TRUE
                  /\ BecomeCritical(w, at) => worker' = [worker EXCEPT ![w] = n]
<1>1. worker \in [Workers -> WorkerRow] /\ worker[w] \in WorkerRow BY DEF IInv, IType
<1>2. LET n == Moved(w, at)
      IN  /\ n \in WorkerRow /\ n.at = at /\ n.run = worker[w].run
          /\ n.todo = worker[w].todo /\ n.critical = worker[w].critical
          /\ Become(w, at) => worker' = [worker EXCEPT ![w] = n]
    BY <1>1 DEF Moved, WorkerRow, Become
<1>4. LET n == MovedCritical(w, at)
      IN  /\ n \in WorkerRow /\ n.at = at /\ n.run = worker[w].run
          /\ n.todo = worker[w].todo /\ n.critical = TRUE
          /\ BecomeCritical(w, at) => worker' = [worker EXCEPT ![w] = n]
    BY <1>1 DEF MovedCritical, WorkerRow, BecomeCritical
<1> QED BY <1>2, <1>4

LEMMA MovesWith ==
    ASSUME IInv, NEW w \in Workers, NEW at \in Points, NEW todo \in Lists
    PROVE  LET n == MovedWith(w, at, todo)
           IN  /\ n \in WorkerRow /\ n.at = at /\ n.run = worker[w].run
               /\ n.todo = todo /\ n.critical = worker[w].critical
               /\ BecomeWith(w, at, todo) => worker' = [worker EXCEPT ![w] = n]
<1>1. worker \in [Workers -> WorkerRow] /\ worker[w] \in WorkerRow BY DEF IInv, IType
<1> QED BY <1>1 DEF MovedWith, WorkerRow, BecomeWith, Lists

(* A statement that leaves its run alone, and one that adds a row to it. *)
LEMMA NothingWritten ==
    ASSUME IInv, NEW w \in Workers, NEW r \in Run, NEW new,
           worker' = [worker EXCEPT ![w] = new],
           UNCHANGED <<status, out, Unread>>
    PROVE  Step(w, r, new, out[r], status[r])
<1>1. out \in [Run -> Output] /\ status \in [Run -> {"ABSENT"} \cup Active \cup Ended]
      /\ faults \in 0..MaxFaults
    BY DEF IInv, IType
<1> QED BY <1>1 DEF Step, Unread

LEMMA RowWritten ==
    ASSUME IInv, NEW w \in Workers, NEW r \in Run, NEW new, NEW table \in Tables, NEW row,
           worker' = [worker EXCEPT ![w] = new], Insert(r, table, row),
           UNCHANGED <<status, Unread>>
    PROVE  Step(w, r, new, WithRow(out[r], table, row), status[r])
<1>1. out \in [Run -> Output] /\ status \in [Run -> {"ABSENT"} \cup Active \cup Ended]
      /\ faults \in 0..MaxFaults
    BY DEF IInv, IType
<1>2. out' = [out EXCEPT ![r] = WithRow(out[r], table, row)]
    BY <1>1 DEF Insert, WithRow
<1> QED BY <1>1, <1>2 DEF Step, Unread

(* A statement of the writing part that moves on to another of it. *)
LEMMA SoundWriting ==
    ASSUME IInv, NEW w \in Workers, NEW r, NEW at \in Writing, At(w, at, r),
           NEW new \in WorkerRow, new.run = r, new.at \in Writing \cup {"failed"},
           NEW q \in Output,
           new.at \in Writing =>
             PointFits(new.at, q, tier[r[1]], new.critical, new.todo)
    PROVE  Sound(w, r, new, q, status[r])
<1>1. at \in Points /\ new.at \in Points /\ new.at # "mark"
    BY DEF Writing, Points, Statement
<1>2. worker[w].at = at /\ worker[w].run = r /\ status[r] = "RUNNING" BY <1>1, AtAPoint
<1>3. PointFits(new.at, q, tier[r[1]], new.critical, new.todo) BY DEF PointFits
<1> QED BY <1>1, <1>2, <1>3 DEF Sound, Active, Ended

LEMMA LoadKeeps ==
    ASSUME IInv, NEW w \in Workers, NEW r \in Run, GetResponseRunForWork(w, r)
    PROVE  Preserved
<1> DEFINE at == IF status[r] \in Finished THEN "nil" ELSE "mark"
           new == Moved(w, at)
<1>1. At(w, "load", r) /\ Become(w, at) /\ UNCHANGED <<status, out, Unread>>
    BY DEF GetResponseRunForWork
<1>2. at \in Points /\ "load" \in Points BY DEF Points, Statement
<1>3. /\ worker[w].run = r /\ worker[w].at = "load" /\ out[r] \in Output
      /\ status[r] \in Active \cup Ended
      /\ PointFits("load", out[r], tier[r[1]], worker[w].critical, worker[w].todo)
    BY <1>1, <1>2, AtAPoint
<1>4. at = "mark" => status[r] \in Active BY <1>3 DEF Finished, Active, Ended
<1>5. at \in {"nil", "mark"} OBVIOUS
<1> HIDE DEF at, new
<1>6. /\ new \in WorkerRow /\ new.at = at /\ new.run = r /\ new.critical = worker[w].critical
      /\ worker' = [worker EXCEPT ![w] = new]
    BY <1>1, <1>2, <1>3, Moves DEF new
<1>7. Step(w, r, new, out[r], status[r]) BY <1>1, <1>6, NothingWritten
<1>8. PointFits(new.at, out[r], tier[r[1]], new.critical, new.todo)
    BY <1>3, <1>5, <1>6 DEF PointFits
<1>9. RunFits(r) BY DEF IInv
<1>10. Sound(w, r, new, out[r], status[r])
    BY <1>2, <1>3, <1>4, <1>5, <1>6, <1>8, <1>9
    DEF Sound, RunFits, Delivered, Writing, Statement
<1> QED BY <1>7, <1>10, StepKeeps

LEMMA MarkKeeps ==
    ASSUME IInv, NEW w \in Workers, NEW r \in Run, MarkResponseRunRunning(w, r)
    PROVE  Preserved
<1> DEFINE new == Moved(w, "clear")
<1> HIDE DEF new
<1>1. "mark" \in Points /\ "clear" \in Points BY DEF Points, Statement
<1>2. /\ worker[w].run = r /\ worker[w].at = "mark" /\ out[r] \in Output
      /\ status[r] \in Active
      /\ PointFits("mark", out[r], tier[r[1]], worker[w].critical, worker[w].todo)
    BY <1>1, AtAPoint DEF MarkResponseRunRunning
<1>3. /\ new \in WorkerRow /\ new.at = "clear" /\ new.run = r
      /\ new.critical = worker[w].critical /\ worker' = [worker EXCEPT ![w] = new]
    BY <1>1, <1>2, Moves DEF new, MarkResponseRunRunning
<1>4. status' = [status EXCEPT ![r] = "RUNNING"]
  <2>1. (IF status[r] = "QUEUED" THEN "RUNNING" ELSE status[r]) = "RUNNING"
      BY <1>2 DEF Active
  <2>2. status' = [status EXCEPT ![r] = IF status[r] = "QUEUED" THEN "RUNNING" ELSE status[r]]
      BY DEF MarkResponseRunRunning
  <2> QED BY <2>1, <2>2
<1>5. out' = [out EXCEPT ![r] = out[r]] /\ faults' \in 0..MaxFaults
    BY DEF IInv, IType, MarkResponseRunRunning, Unread
<1>6. Step(w, r, new, out[r], "RUNNING")
    BY <1>3, <1>4, <1>5 DEF Step, MarkResponseRunRunning, Unread
<1>7. PointFits("clear", out[r], tier[r[1]], new.critical, new.todo)
    BY <1>2, <1>3 DEF PointFits
<1>8. Sound(w, r, new, out[r], "RUNNING")
    BY <1>1, <1>2, <1>3, <1>7 DEF Sound, Active, Ended
<1> QED BY <1>6, <1>8, StepKeeps

LEMMA ClearKeeps ==
    ASSUME IInv, NEW w \in Workers, NEW r \in Run, Clear(w, r)
    PROVE  Preserved
<1> DEFINE todo == taskDefinitions(tier[r[1]])
           new == MovedWith(w, "tasks", todo)
<1> HIDE DEF todo, new
<1>1. /\ "clear" \in Points /\ "tasks" \in Points
      /\ "clear" \in Writing /\ "tasks" \in Writing
    BY DEF Points, Writing, Statement
<1>2. /\ At(w, "clear", r) /\ BecomeWith(w, "tasks", todo) /\ ClearResponseRunOutputs(r)
      /\ UNCHANGED <<status, Unread>>
    BY DEF Clear, todo
<1>3. /\ worker[w].run = r
      /\ PointFits("clear", out[r], tier[r[1]], worker[w].critical, worker[w].todo)
    BY <1>1, <1>2, AtAPoint
<1>4. todo \in Seq(TaskCodes) /\ todo \in Lists BY TaskLists DEF todo, Lists
<1>5. /\ new \in WorkerRow /\ new.at = "tasks" /\ new.run = r /\ new.todo = todo
      /\ new.critical = worker[w].critical /\ worker' = [worker EXCEPT ![w] = new]
    BY <1>1, <1>2, <1>3, <1>4, MovesWith DEF new
<1>6. NoRows \in Output /\ AtTasks(NoRows, tier[r[1]], FALSE, todo) BY Cleared DEF todo
<1>7. Step(w, r, new, NoRows, status[r])
  <2>1. status \in [Run -> {"ABSENT"} \cup Active \cup Ended] /\ faults \in 0..MaxFaults
      BY DEF IInv, IType
  <2> QED BY <1>2, <1>5, <2>1 DEF Step, Unread, ClearResponseRunOutputs
<1>8. PointFits("tasks", NoRows, tier[r[1]], new.critical, new.todo)
  <2>1. ~new.critical BY <1>3, <1>5 DEF PointFits
  <2>2. new.critical = FALSE
    <3>1. new.critical \in BOOLEAN BY <1>5 DEF WorkerRow
    <3> QED BY <2>1, <3>1
  <2>3. AtTasks(NoRows, tier[r[1]], new.critical, new.todo) BY <1>5, <1>6, <2>2
  <2> QED BY <2>3 DEF PointFits
<1>9. Sound(w, r, new, NoRows, status[r])
    BY <1>1, <1>2, <1>5, <1>6, <1>8, SoundWriting
<1> QED BY <1>7, <1>9, StepKeeps

(* A list that is written row by row, given what its end and what a row    *)
(* make of the rows.                                                       *)
LEMMA ListKeeps ==
    ASSUME IInv, NEW w \in Workers, NEW r \in Run, NEW at \in Writing, NEW then \in Writing,
           NEW table \in Tables, InsertList(w, r, at, table, then),
           worker[w].todo = <<>> =>
             PointFits(then, out[r], tier[r[1]], worker[w].critical, worker[w].todo),
           worker[w].todo # <<>> /\ Fresh(r, table, Head(worker[w].todo)) =>
             /\ Tail(worker[w].todo) \in Lists
             /\ WithRow(out[r], table, Head(worker[w].todo)) \in Output
             /\ PointFits(at, WithRow(out[r], table, Head(worker[w].todo)), tier[r[1]],
                          worker[w].critical, Tail(worker[w].todo))
    PROVE  Preserved
<1> DEFINE todo == worker[w].todo
<1>1. At(w, at, r) /\ UNCHANGED <<status, Unread>> BY DEF InsertList
<1>2. at \in Points /\ then \in Points /\ "failed" \in Points BY DEF Writing, Points, Statement
<1>3. worker[w].run = r /\ out[r] \in Output BY <1>1, <1>2, AtAPoint
<1>4. CASE todo = <<>> /\ Become(w, then) /\ UNCHANGED out
  <2> DEFINE new == Moved(w, then)
  <2> HIDE DEF new
  <2>1. /\ new \in WorkerRow /\ new.at = then /\ new.run = r /\ new.todo = worker[w].todo
        /\ new.critical = worker[w].critical /\ worker' = [worker EXCEPT ![w] = new]
      BY <1>2, <1>3, <1>4, Moves DEF new
  <2>2. Step(w, r, new, out[r], status[r]) BY <1>1, <1>4, <2>1, NothingWritten
  <2>3. Sound(w, r, new, out[r], status[r]) BY <1>1, <1>3, <1>4, <2>1, SoundWriting
  <2> QED BY <2>2, <2>3, StepKeeps
<1>5. CASE Become(w, "failed") /\ UNCHANGED out
  <2> DEFINE new == Moved(w, "failed")
  <2> HIDE DEF new
  <2>1. /\ new \in WorkerRow /\ new.at = "failed" /\ new.run = r
        /\ worker' = [worker EXCEPT ![w] = new]
      BY <1>2, <1>3, <1>5, Moves DEF new
  <2>2. Step(w, r, new, out[r], status[r]) BY <1>1, <1>5, <2>1, NothingWritten
  <2>3. "failed" \notin Writing BY DEF Writing, Statement
  <2>4. Sound(w, r, new, out[r], status[r]) BY <1>1, <1>3, <2>1, <2>3, SoundWriting
  <2> QED BY <2>2, <2>4, StepKeeps
<1>6. CASE /\ todo # <<>> /\ Fresh(r, table, Head(todo)) /\ Insert(r, table, Head(todo))
           /\ BecomeWith(w, at, Tail(todo))
  <2> DEFINE new == MovedWith(w, at, Tail(todo))
             q == WithRow(out[r], table, Head(todo))
  <2>1. /\ Tail(todo) \in Lists /\ q \in Output
        /\ PointFits(at, q, tier[r[1]], worker[w].critical, Tail(todo))
      BY <1>6
  <2> HIDE DEF new
  <2>2. /\ new \in WorkerRow /\ new.at = at /\ new.run = r /\ new.todo = Tail(todo)
        /\ new.critical = worker[w].critical /\ worker' = [worker EXCEPT ![w] = new]
      BY <1>2, <1>3, <1>6, <2>1, MovesWith DEF new
  <2>3. Step(w, r, new, q, status[r]) BY <1>1, <1>6, <2>2, RowWritten
  <2>4. Sound(w, r, new, q, status[r])
    <3> HIDE DEF q, todo
    <3> QED BY <1>1, <2>1, <2>2, SoundWriting
  <2> QED BY <2>3, <2>4, StepKeeps
<1> QED BY <1>4, <1>5, <1>6, Zenon
         DEF InsertList, CreateResponseTask, CreateInvestigationLead, CreateAlternativeCandidate

LEMMA TasksKeep ==
    ASSUME IInv, NEW w \in Workers, NEW r \in Run, persistTasks(w, r)
    PROVE  Preserved
<1> DEFINE todo == worker[w].todo
           c == worker[w].critical
<1>1. "tasks" \in Writing /\ "sewer" \in Writing /\ "tasks" \in Points /\ "tasks" \in Tables
    BY DEF Writing, Points, Statement, Tables
<1>2. At(w, "tasks", r) BY DEF persistTasks, InsertList
<1>3. PointFits("tasks", out[r], tier[r[1]], c, todo) /\ out[r] \in Output
    BY <1>1, <1>2, AtAPoint
<1>4. AtTasks(out[r], tier[r[1]], c, todo) BY <1>3 DEF PointFits
<1>5. todo = <<>> => PointFits("sewer", out[r], tier[r[1]], c, todo)
    BY <1>3, <1>4, TasksWritten DEF PointFits
<1>6. ASSUME todo # <<>>
      PROVE  /\ Tail(todo) \in Lists
             /\ WithRow(out[r], "tasks", Head(todo)) \in Output
             /\ PointFits("tasks", WithRow(out[r], "tasks", Head(todo)), tier[r[1]], c, Tail(todo))
  <2> DEFINE q == WithRow(out[r], "tasks", Head(todo))
  <2> HIDE DEF c, todo
  <2>1. q \in Output /\ AtTasks(q, tier[r[1]], c, Tail(todo))
      BY <1>3, <1>4, <1>6, TaskWritten
  <2>2. Tail(todo) \in Lists BY <2>1 DEF AtTasks, Lists
  <2> QED BY <2>1, <2>2 DEF PointFits
<1> QED BY <1>1, <1>5, <1>6, ListKeeps DEF persistTasks

LEMMA LeadsKeep ==
    ASSUME IInv, NEW w \in Workers, NEW r \in Run, persistLeads(w, r)
    PROVE  Preserved
<1> DEFINE todo == worker[w].todo
           c == worker[w].critical
<1>1. /\ "leads" \in Writing /\ "leads" \in Points /\ "leads" \in Tables
      /\ AfterLeads(r) \in Writing
    BY DEF Writing, Points, Statement, Tables, AfterLeads
<1>2. At(w, "leads", r) BY DEF persistLeads, InsertList
<1>3. PointFits("leads", out[r], tier[r[1]], c, todo) /\ out[r] \in Output
    BY <1>1, <1>2, AtAPoint
<1>4. AtLeads(out[r], tier[r[1]], c, todo) BY <1>3 DEF PointFits
<1>5. ASSUME todo = <<>> PROVE PointFits(AfterLeads(r), out[r], tier[r[1]], c, todo)
  <2>1. AtLandfills(out[r], tier[r[1]], c) BY <1>3, <1>4, <1>5, LeadsWritten
  <2>2. tier[r[1]] # "PROHIBITED" => AtComplete(out[r], tier[r[1]], c) BY <1>3, <2>1, NoneNeeded
  <2> QED BY <2>1, <2>2 DEF PointFits, AfterLeads
<1>6. ASSUME todo # <<>>, Fresh(r, "leads", Head(todo))
      PROVE  /\ Tail(todo) \in Lists
             /\ WithRow(out[r], "leads", Head(todo)) \in Output
             /\ PointFits("leads", WithRow(out[r], "leads", Head(todo)), tier[r[1]], c, Tail(todo))
  <2> DEFINE q == WithRow(out[r], "leads", Head(todo))
  <2> HIDE DEF c, todo
  <2>1. Head(todo) \notin out[r].leads BY <1>6 DEF Fresh
  <2>2. q \in Output /\ AtLeads(q, tier[r[1]], c, Tail(todo))
      BY <1>3, <1>4, <1>6, <2>1, LeadWritten
  <2>3. Tail(todo) \in Lists BY <2>2 DEF AtLeads, Lists
  <2> QED BY <2>2, <2>3 DEF PointFits
<1> QED BY <1>1, <1>5, <1>6, ListKeeps DEF persistLeads

LEMMA AlternativesKeep ==
    ASSUME IInv, NEW w \in Workers, NEW r \in Run, persistAlternatives(w, r)
    PROVE  Preserved
<1> DEFINE todo == worker[w].todo
           c == worker[w].critical
<1>1. /\ "alternatives" \in Writing /\ "complete" \in Writing /\ "alternatives" \in Points
      /\ "alternatives" \in Tables
    BY DEF Writing, Points, Statement, Tables
<1>2. At(w, "alternatives", r) BY DEF persistAlternatives, InsertList
<1>3. PointFits("alternatives", out[r], tier[r[1]], c, todo) /\ out[r] \in Output
    BY <1>1, <1>2, AtAPoint
<1>4. AtAlternatives(out[r], tier[r[1]], c, todo) BY <1>3 DEF PointFits
<1>5. todo = <<>> => PointFits("complete", out[r], tier[r[1]], c, todo)
    BY <1>3, <1>4, AlternativesWritten DEF PointFits
<1>6. ASSUME todo # <<>>, Fresh(r, "alternatives", Head(todo))
      PROVE  /\ Tail(todo) \in Lists
             /\ WithRow(out[r], "alternatives", Head(todo)) \in Output
             /\ PointFits("alternatives", WithRow(out[r], "alternatives", Head(todo)),
                          tier[r[1]], c, Tail(todo))
  <2> DEFINE q == WithRow(out[r], "alternatives", Head(todo))
  <2> HIDE DEF c, todo
  <2>1. Head(todo) \notin out[r].alternatives BY <1>6 DEF Fresh
  <2>2. q \in Output /\ AtAlternatives(q, tier[r[1]], c, Tail(todo))
      BY <1>3, <1>4, <1>6, <2>1, AlternativeWritten
  <2>3. Tail(todo) \in Lists BY <2>2 DEF AtAlternatives, Lists
  <2> QED BY <2>2, <2>3 DEF PointFits
<1> QED BY <1>1, <1>5, <1>6, ListKeeps DEF persistAlternatives

(* A statement that stores what a source said, and moves on. *)
LEMMA SourceKeeps ==
    ASSUME IInv, NEW w \in Workers, NEW r \in Run, NEW at \in Writing, At(w, at, r),
           NEW new \in WorkerRow, new.run = r, new.at \in Writing,
           worker' = [worker EXCEPT ![w] = new], UNCHANGED <<status, Unread>>,
           NEW table \in Tables, NEW row, Insert(r, table, row),
           WithRow(out[r], table, row) \in Output,
           PointFits(new.at, WithRow(out[r], table, row), tier[r[1]], new.critical, new.todo)
    PROVE  Preserved
<1> DEFINE q == WithRow(out[r], table, row)
<1>1. Step(w, r, new, q, status[r]) BY RowWritten
<1>2. q \in Output /\ PointFits(new.at, q, tier[r[1]], new.critical, new.todo) OBVIOUS
<1> HIDE DEF q
<1>3. Sound(w, r, new, q, status[r]) BY <1>2, SoundWriting
<1> QED BY <1>1, <1>3, StepKeeps

LEMMA SewerKeeps ==
    ASSUME IInv, NEW w \in Workers, NEW r \in Run, collectSewerContext(w, r)
    PROVE  Preserved
<1> DEFINE c == worker[w].critical
           todo == worker[w].todo
<1>1. /\ "sewer" \in Writing /\ "partial" \in Writing /\ "echo" \in Writing
      /\ "sewer" \in Points /\ "partial" \in Points /\ "echo" \in Points
      /\ "gaps" \in Tables /\ "evidence" \in Tables
    BY DEF Writing, Points, Statement, Tables
<1>2. UNCHANGED <<status, Unread>> BY DEF collectSewerContext
<1>3. CASE At(w, "sewer", r)
  <2>1. /\ AtSewer(out[r], tier[r[1]], c) /\ out[r] \in Output /\ worker[w].run = r
        /\ worker[w].at = "sewer"
      BY <1>1, <1>3, AtAPoint DEF PointFits
  <2>2. CASE /\ CreateResponseDataGap(r, "SEWER_CONTEXT_UNAVAILABLE")
             /\ BecomeCritical(w, "echo")
    <3> DEFINE new == MovedCritical(w, "echo")
    <3> HIDE DEF new
    <3>1. /\ new \in WorkerRow /\ new.at = "echo" /\ new.run = r /\ new.critical = TRUE
          /\ worker' = [worker EXCEPT ![w] = new]
        BY <1>1, <2>1, <2>2, Moves DEF new
    <3> DEFINE q == WithRow(out[r], "gaps", "SEWER_CONTEXT_UNAVAILABLE")
    <3>2. q \in Output /\ AtEcho(q, tier[r[1]], TRUE)
      <4> HIDE DEF c
      <4> QED BY <2>1, SewerMissing
    <3>3. PointFits(new.at, q, tier[r[1]], new.critical, new.todo)
        BY <3>1, <3>2 DEF PointFits
    <3>4. Insert(r, "gaps", "SEWER_CONTEXT_UNAVAILABLE") BY <2>2 DEF CreateResponseDataGap
    <3>5. new.at \in Writing BY <1>1, <3>1
    <3> QED BY <1>1, <1>2, <1>3, <3>1, <3>2, <3>3, <3>4, <3>5, SourceKeeps
  <2>3. ASSUME NEW s \in {"AVAILABLE", "PARTIAL"},
               CreateResponseEvidence(r, "SEWER_CONTEXT", s, 0),
               Become(w, IF s = "PARTIAL" THEN "partial" ELSE "echo")
        PROVE  Preserved
    <3> DEFINE at == IF s = "PARTIAL" THEN "partial" ELSE "echo"
               new == Moved(w, at)
    <3>0. at \in Points /\ at \in Writing /\ Become(w, at) BY <1>1, <2>3
    <3> HIDE DEF new
    <3>1. /\ new \in WorkerRow /\ new.at = at /\ new.run = r /\ new.critical = c
          /\ new.todo = todo /\ worker' = [worker EXCEPT ![w] = new]
      <4> HIDE DEF at
      <4> QED BY <2>1, <3>0, Moves DEF new
    <3> DEFINE q == WithRow(out[r], "evidence", SewerRow(s))
    <3>2. /\ q \in Output /\ (s = "PARTIAL" => AtPartial(q, tier[r[1]], c))
          /\ s = "AVAILABLE" => AtEcho(q, tier[r[1]], c)
      <4> HIDE DEF c
      <4> QED BY <2>1, SewerAnswered
    <3>3. PointFits(new.at, q, tier[r[1]], new.critical, new.todo)
        BY <3>1, <3>2 DEF PointFits
    <3>4. Insert(r, "evidence", SewerRow(s)) BY <2>3 DEF CreateResponseEvidence, SewerRow
    <3>5. new.at \in Writing BY <3>0, <3>1
    <3> QED BY <1>1, <1>2, <1>3, <3>1, <3>2, <3>3, <3>4, <3>5, SourceKeeps
  <2>4. "sewer" # "partial" OBVIOUS
  <2> QED BY <2>1, <2>2, <2>3, <2>4, Zenon DEF collectSewerContext, At
<1>4. CASE /\ At(w, "partial", r) /\ CreateResponseDataGap(r, "SEWER_CONTEXT_PARTIAL")
           /\ BecomeCritical(w, "echo")
  <2>1. AtPartial(out[r], tier[r[1]], c) /\ out[r] \in Output /\ worker[w].run = r
      BY <1>1, <1>4, AtAPoint DEF PointFits
  <2> DEFINE new == MovedCritical(w, "echo")
  <2> HIDE DEF new
  <2>2. /\ new \in WorkerRow /\ new.at = "echo" /\ new.run = r /\ new.critical = TRUE
        /\ worker' = [worker EXCEPT ![w] = new]
      BY <1>1, <1>4, <2>1, Moves DEF new
  <2> DEFINE q == WithRow(out[r], "gaps", "SEWER_CONTEXT_PARTIAL")
  <2>3. q \in Output /\ AtEcho(q, tier[r[1]], TRUE)
    <3> HIDE DEF c
    <3> QED BY <2>1, SewerPartial
  <2>4. PointFits(new.at, q, tier[r[1]], new.critical, new.todo) BY <2>2, <2>3 DEF PointFits
  <2>5. Insert(r, "gaps", "SEWER_CONTEXT_PARTIAL") BY <1>4 DEF CreateResponseDataGap
  <2>6. new.at \in Writing BY <1>1, <2>2
  <2> QED BY <1>1, <1>2, <1>4, <2>2, <2>3, <2>4, <2>5, <2>6, SourceKeeps
<1> QED BY <1>3, <1>4, Zenon DEF collectSewerContext

LEMMA EchoKeeps ==
    ASSUME IInv, NEW w \in Workers, NEW r \in Run, collectInvestigationLeads(w, r)
    PROVE  Preserved
<1> DEFINE c == worker[w].critical
<1>1. /\ "echo" \in Writing /\ "leads" \in Writing /\ AfterLeads(r) \in Writing
      /\ "echo" \in Points /\ "leads" \in Points /\ AfterLeads(r) \in Points
      /\ "gaps" \in Tables /\ "evidence" \in Tables
    BY DEF Writing, Points, Statement, Tables, AfterLeads
<1>2. At(w, "echo", r) /\ UNCHANGED <<status, Unread>> BY DEF collectInvestigationLeads
<1>3. AtEcho(out[r], tier[r[1]], c) /\ out[r] \in Output /\ worker[w].run = r
    BY <1>1, <1>2, AtAPoint DEF PointFits
<1>4. CASE /\ CreateResponseDataGap(r, "ECHO_SCREEN_UNAVAILABLE")
           /\ BecomeCritical(w, AfterLeads(r))
  <2> DEFINE new == MovedCritical(w, AfterLeads(r))
             q == WithRow(out[r], "gaps", "ECHO_SCREEN_UNAVAILABLE")
  <2> HIDE DEF new
  <2>1. /\ new \in WorkerRow /\ new.at = AfterLeads(r) /\ new.run = r /\ new.critical = TRUE
        /\ worker' = [worker EXCEPT ![w] = new]
      BY <1>1, <1>3, <1>4, Moves DEF new
  <2>2. q \in Output /\ AtLandfills(q, tier[r[1]], TRUE)
    <3> HIDE DEF c
    <3> QED BY <1>3, EchoMissing
  <2>3. tier[r[1]] # "PROHIBITED" => AtComplete(q, tier[r[1]], TRUE)
    <3> HIDE DEF q
    <3> QED BY <2>2, NoneNeeded
  <2>4. PointFits(new.at, q, tier[r[1]], new.critical, new.todo)
      BY <2>1, <2>2, <2>3 DEF PointFits, AfterLeads
  <2>5. Insert(r, "gaps", "ECHO_SCREEN_UNAVAILABLE") BY <1>4 DEF CreateResponseDataGap
  <2>6. new.at \in Writing BY <1>1, <2>1
  <2> QED BY <1>1, <1>2, <2>1, <2>2, <2>4, <2>5, <2>6, SourceKeeps
<1>5. ASSUME NEW leads \in Seq(Leads),
             CreateResponseEvidence(r, "POTENTIAL_PFAS_SECTORS", "AVAILABLE", Len(leads)),
             BecomeWith(w, "leads", leads)
      PROVE  Preserved
  <2> DEFINE new == MovedWith(w, "leads", leads)
             q == WithRow(out[r], "evidence", EchoRow(Len(leads)))
  <2> HIDE DEF new
  <2>1. leads \in Lists BY DEF Lists
  <2>2. /\ new \in WorkerRow /\ new.at = "leads" /\ new.run = r /\ new.critical = c
        /\ new.todo = leads /\ worker' = [worker EXCEPT ![w] = new]
      BY <1>1, <1>3, <1>5, <2>1, MovesWith DEF new
  <2>3. q \in Output /\ AtLeads(q, tier[r[1]], c, leads)
    <3> HIDE DEF c
    <3> QED BY <1>3, EchoAnswered
  <2>4. PointFits(new.at, q, tier[r[1]], new.critical, new.todo) BY <2>2, <2>3 DEF PointFits
  <2>5. Insert(r, "evidence", EchoRow(Len(leads))) BY <1>5 DEF CreateResponseEvidence, EchoRow
  <2>6. new.at \in Writing BY <1>1, <2>2
  <2> QED BY <1>1, <1>2, <2>2, <2>3, <2>4, <2>5, <2>6, SourceKeeps
<1>6. CASE \E s \in Listed :
             LET leads == Kept(excludeTreatmentPlant(s))
             IN /\ CreateResponseEvidence(r, "POTENTIAL_PFAS_SECTORS", "AVAILABLE", Len(leads))
                /\ BecomeWith(w, "leads", leads)
  <2>1. PICK s \in Listed :
          LET leads == Kept(excludeTreatmentPlant(s))
          IN /\ CreateResponseEvidence(r, "POTENTIAL_PFAS_SECTORS", "AVAILABLE", Len(leads))
             /\ BecomeWith(w, "leads", leads)
      BY <1>6
  <2> DEFINE leads == Kept(excludeTreatmentPlant(s))
  <2>2. leads \in Seq(Leads) BY PlantIsNoLead
  <2>3. /\ CreateResponseEvidence(r, "POTENTIAL_PFAS_SECTORS", "AVAILABLE", Len(leads))
        /\ BecomeWith(w, "leads", leads)
      BY <2>1
  <2> HIDE DEF leads
  <2> QED BY <1>5, <2>2, <2>3
<1> QED BY <1>4, <1>6, Zenon DEF collectInvestigationLeads

LEMMA LandfillsKeep ==
    ASSUME IInv, NEW w \in Workers, NEW r \in Run, FetchActiveTypeII(w, r)
    PROVE  Preserved
<1> DEFINE c == worker[w].critical
<1>1. /\ "landfills" \in Writing /\ "routes" \in Writing /\ "complete" \in Writing
      /\ "landfills" \in Points /\ "routes" \in Points /\ "complete" \in Points
      /\ "gaps" \in Tables /\ "evidence" \in Tables
    BY DEF Writing, Points, Statement, Tables
<1>2. At(w, "landfills", r) /\ UNCHANGED <<status, Unread>> BY DEF FetchActiveTypeII
<1>3. AtLandfills(out[r], tier[r[1]], c) /\ out[r] \in Output /\ worker[w].run = r
    BY <1>1, <1>2, AtAPoint DEF PointFits
<1>4. ASSUME NEW g \in LandfillCodes, CreateResponseDataGap(r, g), BecomeCritical(w, "complete")
      PROVE  Preserved
  <2> DEFINE new == MovedCritical(w, "complete")
             q == WithRow(out[r], "gaps", g)
  <2> HIDE DEF new
  <2>1. /\ new \in WorkerRow /\ new.at = "complete" /\ new.run = r /\ new.critical = TRUE
        /\ worker' = [worker EXCEPT ![w] = new]
      BY <1>1, <1>3, <1>4, Moves DEF new
  <2>2. q \in Output /\ AtComplete(q, tier[r[1]], TRUE)
    <3> HIDE DEF c
    <3> QED BY <1>3, LandfillsMissing
  <2>3. PointFits(new.at, q, tier[r[1]], new.critical, new.todo) BY <2>1, <2>2 DEF PointFits
  <2>4. Insert(r, "gaps", g) BY <1>4 DEF CreateResponseDataGap
  <2>5. new.at \in Writing BY <1>1, <2>1
  <2> QED BY <1>1, <1>2, <2>1, <2>2, <2>3, <2>4, <2>5, SourceKeeps
<1>5. ASSUME NEW s \in Seq(Landfills), BecomeWith(w, "routes", s),
             CreateResponseEvidence(r, "ACTIVE_TYPE_II_LANDFILLS", "AVAILABLE", Len(s))
      PROVE  Preserved
  <2> DEFINE new == MovedWith(w, "routes", s)
             q == WithRow(out[r], "evidence", LandfillRow(Len(s)))
  <2> HIDE DEF new
  <2>1. s \in Lists BY DEF Lists
  <2>2. /\ new \in WorkerRow /\ new.at = "routes" /\ new.run = r /\ new.critical = c
        /\ new.todo = s /\ worker' = [worker EXCEPT ![w] = new]
      BY <1>1, <1>3, <1>5, <2>1, MovesWith DEF new
  <2>3. q \in Output /\ AtRoutes(q, tier[r[1]], c, s)
    <3> HIDE DEF c
    <3> QED BY <1>3, LandfillsAnswered
  <2>4. PointFits(new.at, q, tier[r[1]], new.critical, new.todo) BY <2>2, <2>3 DEF PointFits
  <2>5. Insert(r, "evidence", LandfillRow(Len(s)))
      BY <1>5 DEF CreateResponseEvidence, LandfillRow
  <2>6. new.at \in Writing BY <1>1, <2>2
  <2> QED BY <1>1, <1>2, <2>2, <2>3, <2>4, <2>5, <2>6, SourceKeeps
<1>6. \A s \in UNION {[1..n -> Landfills] : n \in 1..Cardinality(Landfills)} :
         s \in Seq(Landfills)
  <2> TAKE s \in UNION {[1..n -> Landfills] : n \in 1..Cardinality(Landfills)}
  <2>1. PICK n \in 1..Cardinality(Landfills) : s \in [1..n -> Landfills] OBVIOUS
  <2>2. n \in Nat BY <2>1
  <2> QED BY <2>1, <2>2
<1> QED BY <1>4, <1>5, <1>6, Zenon DEF FetchActiveTypeII, LandfillCodes

LEMMA RoutesKeep ==
    ASSUME IInv, NEW w \in Workers, NEW r \in Run, collectAlternatives(w, r)
    PROVE  Preserved
<1> DEFINE c == worker[w].critical
           todo == worker[w].todo
<1>1. /\ "routes" \in Writing /\ "alternatives" \in Writing
      /\ "routes" \in Points /\ "alternatives" \in Points
      /\ "gaps" \in Tables /\ "evidence" \in Tables
    BY DEF Writing, Points, Statement, Tables
<1>2. At(w, "routes", r) /\ UNCHANGED <<status, Unread>> BY DEF collectAlternatives
<1>3. AtRoutes(out[r], tier[r[1]], c, todo) /\ out[r] \in Output /\ worker[w].run = r
    BY <1>1, <1>2, AtAPoint DEF PointFits
<1>4. CASE /\ CreateResponseDataGap(r, "DRIVING_ROUTES_UNAVAILABLE")
           /\ BecomeCritical(w, "alternatives")
  <2> DEFINE new == MovedCritical(w, "alternatives")
             q == WithRow(out[r], "gaps", "DRIVING_ROUTES_UNAVAILABLE")
  <2> HIDE DEF new
  <2>1. /\ new \in WorkerRow /\ new.at = "alternatives" /\ new.run = r /\ new.critical = TRUE
        /\ new.todo = todo /\ worker' = [worker EXCEPT ![w] = new]
      BY <1>1, <1>3, <1>4, Moves DEF new
  <2>2. q \in Output /\ AtAlternatives(q, tier[r[1]], TRUE, todo)
    <3> HIDE DEF c, todo
    <3> QED BY <1>3, RoutesMissing
  <2>3. PointFits(new.at, q, tier[r[1]], new.critical, new.todo) BY <2>1, <2>2 DEF PointFits
  <2>4. Insert(r, "gaps", "DRIVING_ROUTES_UNAVAILABLE") BY <1>4 DEF CreateResponseDataGap
  <2>5. new.at \in Writing BY <1>1, <2>1
  <2> QED BY <1>1, <1>2, <2>1, <2>2, <2>3, <2>4, <2>5, SourceKeeps
<1>5. CASE /\ CreateResponseEvidence(r, "ALTERNATIVE_ROUTES", "AVAILABLE", 0)
           /\ Become(w, "alternatives")
  <2> DEFINE new == Moved(w, "alternatives")
             q == WithRow(out[r], "evidence", RoutesRow)
  <2> HIDE DEF new
  <2>1. /\ new \in WorkerRow /\ new.at = "alternatives" /\ new.run = r /\ new.critical = c
        /\ new.todo = todo /\ worker' = [worker EXCEPT ![w] = new]
      BY <1>1, <1>3, <1>5, Moves DEF new
  <2>2. q \in Output /\ AtAlternatives(q, tier[r[1]], c, todo)
    <3> HIDE DEF c, todo
    <3> QED BY <1>3, RoutesAnswered
  <2>3. PointFits(new.at, q, tier[r[1]], new.critical, new.todo) BY <2>1, <2>2 DEF PointFits
  <2>4. Insert(r, "evidence", RoutesRow) BY <1>5 DEF CreateResponseEvidence, RoutesRow
  <2>5. new.at \in Writing BY <1>1, <2>1
  <2> QED BY <1>1, <1>2, <2>1, <2>2, <2>3, <2>4, <2>5, SourceKeeps
<1> QED BY <1>4, <1>5, Zenon DEF collectAlternatives

(* The answer of a statement that ends an attempt may be lost. *)
LEMMA EndsKeep ==
    ASSUME IInv, NEW w \in Workers, NEW r, NEW at \in {"complete", "failed"}, At(w, at, r),
           NEW s \in Ended, status' = [status EXCEPT ![r] = s],
           NEW lost \in {"failed", "error"}, Answered(w, lost),
           UNCHANGED <<tier, location, order, out, job, reader>>,
           status[r] \in Ended => s = "FAILED",
           s \in {"READY", "REVIEW_REQUIRED"} =>
             Complete(out[r], tier[r[1]]) /\ ((s = "READY") <=> (out[r].gaps = {}))
    PROVE  Preserved
<1>1. at \in Points /\ "nil" \in Points /\ lost \in Points BY DEF Points, Statement
<1>2. /\ r \in Run /\ worker[w].run = r /\ worker[w].at \in Points /\ out[r] \in Output
    BY <1>1, AtAPoint
<1>3. PICK to \in {"nil", lost} : Become(w, to) /\ faults' \in 0..MaxFaults
  <2>1. faults \in 0..MaxFaults /\ MaxFaults \in Nat BY BoundsAssumption DEF IInv, IType
  <2>2. CASE Become(w, "nil") /\ UNCHANGED faults BY <2>1, <2>2
  <2>3. CASE Become(w, lost) /\ faults < MaxFaults /\ faults' = faults + 1
    <3>1. faults + 1 \in 0..MaxFaults BY <2>1, <2>3
    <3> QED BY <2>3, <3>1
  <2> QED BY <2>2, <2>3 DEF Answered
<1> DEFINE new == Moved(w, to)
<1> HIDE DEF new
<1>0. to \in Points BY <1>1
<1>4. /\ new \in WorkerRow /\ new.at = to /\ new.run = r
      /\ worker' = [worker EXCEPT ![w] = new]
    BY <1>0, <1>2, <1>3, Moves DEF new
<1>5. out' = [out EXCEPT ![r] = out[r]] BY DEF IInv, IType
<1>6. Step(w, r, new, out[r], s) BY <1>3, <1>4, <1>5 DEF Step
<1>7. new.at \in {"nil", "failed", "error"} BY <1>3, <1>4
<1>8. PointFits(new.at, out[r], tier[r[1]], new.critical, new.todo) BY <1>7 DEF PointFits
<1>9. new.at \in Points /\ new.at # "mark" /\ new.at \notin Writing
    BY <1>7 DEF Points, Writing, Statement
<1>10. Sound(w, r, new, out[r], s) BY <1>2, <1>4, <1>8, <1>9 DEF Sound
<1> QED BY <1>2, <1>6, <1>10, StepKeeps

LEMMA CompleteKeeps ==
    ASSUME IInv, NEW w \in Workers, NEW r \in Run, CompleteResponseRun(w, r)
    PROVE  Preserved
<1>1. "complete" \in Points /\ "complete" \in Writing BY DEF Points, Writing, Statement
<1>2. At(w, "complete", r) BY DEF CompleteResponseRun
<1>3. /\ status[r] = "RUNNING" /\ AtComplete(out[r], tier[r[1]], worker[w].critical)
    BY <1>1, <1>2, AtAPoint DEF PointFits
<1>4. Complete(out[r], tier[r[1]]) /\ (worker[w].critical <=> out[r].gaps # {})
    BY <1>3 DEF AtComplete, Flagged
<1>5. Outcome(w) \in Ended /\ ((Outcome(w) = "READY") <=> (out[r].gaps = {}))
    BY <1>4 DEF Outcome, Ended
<1>6. status[r] \notin Ended BY <1>3 DEF Ended
<1> DEFINE s == Outcome(w)
<1>7. /\ status' = [status EXCEPT ![r] = s] /\ Answered(w, "failed")
      /\ UNCHANGED <<tier, location, order, out, job, reader>>
    BY DEF CompleteResponseRun
<1> HIDE DEF s
<1>8. s \in Ended /\ ((s = "READY") <=> (out[r].gaps = {})) BY <1>5 DEF s
<1> QED BY <1>2, <1>4, <1>6, <1>7, <1>8, EndsKeep

LEMMA FailureKeeps ==
    ASSUME IInv, NEW w \in Workers, NEW r \in Run, RecordFailure(w, r)
    PROVE  Preserved
<1>1. "FAILED" \in Ended BY DEF Ended
<1> QED BY <1>1, EndsKeep DEF RecordFailure, FailResponseRun

LEMMA StatementFailsKeeps ==
    ASSUME IInv, NEW w \in Workers, StatementFails(w)
    PROVE  Preserved
<1> DEFINE to == IF worker[w].at = "failed" THEN AfterLostFailure ELSE "failed"
           r == worker[w].run
           new == Moved(w, to)
<1>1. to \in {"failed", "error"} BY DEF AfterLostFailure
<1>2. to \in Points /\ to # "mark" /\ to \notin Writing
    BY <1>1 DEF Points, Writing, Statement
<1>3. worker[w].at \in Points /\ At(w, worker[w].at, r)
    BY DEF StatementFails, Points, Statement, At
<1>4. r \in Run /\ out[r] \in Output /\ status[r] \in Active \cup Ended BY <1>3, AtAPoint
<1>5. Become(w, to) /\ faults < MaxFaults /\ faults' = faults + 1
      /\ UNCHANGED <<tier, rows, job, reader>>
    BY DEF StatementFails
<1> HIDE DEF to, new
<1>6. /\ new \in WorkerRow /\ new.at = to /\ new.run = r
      /\ worker' = [worker EXCEPT ![w] = new]
    BY <1>2, <1>5, Moves DEF new
<1>7. PointFits(new.at, out[r], tier[r[1]], new.critical, new.todo)
    BY <1>1, <1>6 DEF PointFits
<1> HIDE DEF r
<1>8. Step(w, r, new, out[r], status[r])
  <2>1. faults' \in 0..MaxFaults BY <1>5, BoundsAssumption DEF IInv, IType
  <2>2. /\ out \in [Run -> Output]
        /\ status \in [Run -> {"ABSENT"} \cup Active \cup Ended]
      BY DEF IInv, IType
  <2> QED BY <1>4, <1>5, <1>6, <2>1, <2>2 DEF Step, rows
<1>9. RunFits(r) BY <1>4 DEF IInv
<1>10. Sound(w, r, new, out[r], status[r])
  <2>1. worker[w].at \in Points /\ worker[w].run = r BY <1>3 DEF r
  <2> QED BY <1>2, <1>4, <1>6, <1>7, <1>9, <2>1 DEF Sound, RunFits, Delivered
<1> QED BY <1>4, <1>8, <1>10, StepKeeps

-----------------------------------------------------------------------------
(* The other steps. *)

(* A step that touches neither a run nor its rows. *)
LEMMA RunsAloneKeep ==
    ASSUME IInv, IType', UNCHANGED <<tier, status, out, reader>>,
           \A w \in Workers : WorkerFits(w)', Exclusive', \A r \in Run : RunFits(r)'
    PROVE  Preserved
<1>1. \A p \in Readers : PageFits(p)' BY DEF IInv, PageFits, Shows, Delivered
<1>2. \A r \in Run : Final(r) BY DEF Final
<1> QED BY <1>1, <1>2 DEF IInv, Preserved

LEMMA LocationKeeps ==
    ASSUME IInv, NEW l \in Locations, ResolveLocation(l) \/ ConfirmLocation(l)
    PROVE  Preserved
<1>1. UNCHANGED <<tier, status, order, out, job, worker, reader, faults>>
    BY DEF ResolveLocation, ConfirmLocation
<1>2. location' \in [Locations -> {"ABSENT", "michigan", "elsewhere", "unresolved", "confirmed"}]
    BY DEF IInv, IType, ResolveLocation, ConfirmLocation, CreateFacilityLocationLookup,
           ConfirmFacilityLocationLookup
<1>3. IType' BY <1>1, <1>2 DEF IInv, IType
<1>4. \A w \in Workers : WorkerFits(w)' BY <1>1 DEF IInv, WorkerFits, Busy
<1>5. Exclusive' BY <1>1 DEF IInv, Exclusive, Busy
<1>6. \A r \in Run : RunFits(r)' BY <1>1 DEF IInv, RunFits, Delivered
<1> QED BY <1>1, <1>3, <1>4, <1>5, <1>6, RunsAloneKeep

LEMMA FetchKeeps ==
    ASSUME IInv, NEW w \in Workers, NEW r \in Run, Fetch(w, r)
    PROVE  Preserved
<1> DEFINE new == [Idle EXCEPT !.at = "load", !.run = r]
<1>1. /\ worker' = [worker EXCEPT ![w] = new] /\ job' = [job EXCEPT ![r] = Fetched(job[r])]
      /\ worker[w] = Idle /\ job[r].state = "available"
      /\ UNCHANGED <<tier, rows, reader, faults>>
    BY DEF Fetch
<1>2. new \in WorkerRow /\ new.at = "load" /\ new.run = r /\ new.critical = FALSE
  <2>1. <<>> \in Seq(TaskCodes) OBVIOUS
  <2> QED BY <2>1 DEF Idle, WorkerRow, Points, Statement
<1> HIDE DEF new
<1>3. /\ worker \in [Workers -> WorkerRow] /\ job \in [Run -> JobRow(MaxAttempts)]
      /\ MaxAttempts \in Nat
    BY BoundsAssumption DEF IInv, IType
<1>4. RunFits(r) BY DEF IInv
<1>5. Fetched(job[r]) \in JobRow(MaxAttempts) /\ Fetched(job[r]).state = "running"
  <2>1. job[r] \in JobRow(MaxAttempts) BY <1>3
  <2>2. job[r].tries \in 0..MaxAttempts /\ job[r].tries < MaxAttempts
      BY <1>1, <1>4, <2>1 DEF RunFits, JobRow
  <2>3. job[r].tries + 1 \in 0..MaxAttempts BY <1>3, <2>2
  <2> QED BY <2>3 DEF Fetched, JobRow
<1>6. /\ worker'[w] = new /\ \A v \in Workers \ {w} : worker'[v] = worker[v]
      /\ job'[r] = Fetched(job[r]) /\ \A x \in Run \ {r} : job'[x] = job[x]
    BY <1>1, <1>3
<1>7. IType'
  <2>1. worker' \in [Workers -> WorkerRow] BY <1>1, <1>2, <1>3
  <2>2. job' \in [Run -> JobRow(MaxAttempts)] BY <1>1, <1>3, <1>5
  <2> QED BY <1>1, <2>1, <2>2 DEF IInv, IType, rows
<1>8. UNCHANGED <<tier, status, out, reader>> BY <1>1 DEF rows
<1>9. ~Busy(w) /\ \A v \in Workers : Busy(v) => worker[v].run # r
  <2>1. \A v \in Workers : WorkerFits(v) BY DEF IInv
  <2> QED BY <1>1, <2>1 DEF Busy, Idle, WorkerFits
<1>10. ASSUME NEW v \in Workers PROVE WorkerFits(v)'
  <2>1. CASE v = w
    <3>1. status[r] # "ABSENT" BY <1>1, <1>4 DEF RunFits
    <3>2. PointFits("load", out[r], tier[r[1]], new.critical, new.todo)
        BY <1>2 DEF PointFits
    <3>3. "load" \notin Writing BY DEF Writing
    <3> QED BY <1>2, <1>5, <1>6, <1>8, <2>1, <3>1, <3>2, <3>3 DEF WorkerFits
  <2>2. CASE v # w /\ Busy(v)
    <3>1. WorkerFits(v) BY DEF IInv
    <3>2. PICK x : x = worker[v].run OBVIOUS
    <3>3. x \in Run \ {r} BY <1>9, <2>2, <3>1, <3>2 DEF WorkerFits
    <3>4. worker'[v] = worker[v] /\ job'[x] = job[x] BY <1>6, <2>2, <3>3
    <3> QED BY <1>8, <2>2, <3>1, <3>2, <3>3, <3>4 DEF WorkerFits
  <2>3. CASE v # w /\ ~Busy(v)
    <3>1. ~Busy(v)' BY <1>6, <2>3 DEF Busy
    <3> QED BY <3>1 DEF WorkerFits
  <2> QED BY <2>1, <2>2, <2>3
<1>11. Exclusive'
  <2>1. \A v \in Workers \ {w} : (Busy(v)' <=> Busy(v)) /\ worker'[v].run = worker[v].run
      BY <1>6 DEF Busy
  <2>2. worker'[w].run = r BY <1>2, <1>6
  <2> QED BY <1>9, <2>1, <2>2 DEF IInv, Exclusive
<1>12. ASSUME NEW x \in Run PROVE RunFits(x)'
  <2>1. RunFits(x) BY DEF IInv
  <2>2. CASE x = r
      BY <1>1, <1>4, <1>5, <1>6, <1>8, <2>1, <2>2 DEF RunFits, Delivered
  <2>3. CASE x # r
      BY <1>6, <1>8, <2>1, <2>3 DEF RunFits, Delivered
  <2> QED BY <2>2, <2>3
<1> QED BY <1>7, <1>8, <1>10, <1>11, <1>12, RunsAloneKeep

(* What a job may become between two attempts. *)
Resting(j) ==
    j \in JobRow(MaxAttempts) /\ (j.state = "available" => j.tries < MaxAttempts)

(* The job of a run that nobody works on, or whose worker leaves it. *)
LEMMA JobKeeps ==
    ASSUME IInv, NEW r \in Run, NEW j, Resting(j), status[r] # "ABSENT",
           job' = [job EXCEPT ![r] = j],
           worker' \in [Workers -> WorkerRow],
           \A v \in Workers : Busy(v)' => /\ Busy(v) /\ worker'[v] = worker[v]
                                         /\ worker[v].run # r,
           UNCHANGED <<tier, rows, reader>>, faults' \in 0..MaxFaults
    PROVE  Preserved
<1>1. job \in [Run -> JobRow(MaxAttempts)] BY DEF IInv, IType
<1>2. job'[r] = j /\ \A x \in Run \ {r} : job'[x] = job[x] BY <1>1
<1>3. IType'
  <2>1. job' \in [Run -> JobRow(MaxAttempts)] BY <1>1 DEF Resting
  <2> QED BY <2>1 DEF IInv, IType, rows
<1>4. UNCHANGED <<tier, status, out, reader>> BY DEF rows
<1>5. ASSUME NEW v \in Workers PROVE WorkerFits(v)'
  <2> SUFFICES ASSUME Busy(v)' PROVE WorkerFits(v)' BY DEF WorkerFits
  <2>1. WorkerFits(v) BY DEF IInv
  <2>2. Busy(v) /\ worker'[v] = worker[v] /\ worker[v].run # r OBVIOUS
  <2>3. PICK x : x = worker[v].run OBVIOUS
  <2>4. x \in Run \ {r} BY <2>1, <2>2, <2>3 DEF WorkerFits
  <2>5. job'[x] = job[x] BY <1>2, <2>4
  <2> QED BY <1>4, <2>1, <2>2, <2>3, <2>5 DEF WorkerFits
<1>6. Exclusive' BY DEF IInv, Exclusive
<1>7. ASSUME NEW x \in Run PROVE RunFits(x)'
  <2>1. RunFits(x) BY DEF IInv
  <2>2. CASE x = r BY <1>2, <1>4, <2>1, <2>2 DEF RunFits, Delivered, Resting
  <2>3. CASE x # r BY <1>2, <1>4, <2>1, <2>3 DEF RunFits, Delivered
  <2> QED BY <2>2, <2>3
<1> QED BY <1>3, <1>4, <1>5, <1>6, <1>7, RunsAloneKeep

LEMMA FreedKeeps ==
    ASSUME IInv, NEW w \in Workers, Busy(w), NEW j, Resting(j),
           job' = [job EXCEPT ![worker[w].run] = j], worker' = [worker EXCEPT ![w] = Idle],
           UNCHANGED <<tier, rows, reader>>, faults' \in 0..MaxFaults
    PROVE  Preserved
<1>1. PICK r : r = worker[w].run OBVIOUS
<1>2. WorkerFits(w) /\ worker \in [Workers -> WorkerRow] BY DEF IInv, IType
<1>3. r \in Run /\ status[r] # "ABSENT" BY <1>1, <1>2 DEF WorkerFits
<1>4. Idle \in WorkerRow
  <2>1. <<>> \in Seq(TaskCodes) OBVIOUS
  <2> QED BY <2>1 DEF Idle, WorkerRow
<1>5. worker' \in [Workers -> WorkerRow] BY <1>2, <1>4
<1>6. \A v \in Workers : Busy(v)' => Busy(v) /\ worker'[v] = worker[v] /\ worker[v].run # r
  <2> SUFFICES ASSUME NEW v \in Workers, Busy(v)'
               PROVE  Busy(v) /\ worker'[v] = worker[v] /\ worker[v].run # r
      OBVIOUS
  <2>1. worker'[w] = Idle BY <1>2
  <2>2. v # w BY <2>1 DEF Busy, Idle
  <2>3. worker'[v] = worker[v] BY <1>2, <2>2
  <2>4. Busy(v) BY <2>3 DEF Busy
  <2> QED BY <1>1, <2>2, <2>3, <2>4 DEF IInv, Exclusive
<1> QED BY <1>1, <1>3, <1>5, <1>6, JobKeeps

LEMMA Retries ==
    ASSUME NEW b \in JobRow(MaxAttempts)
    PROVE  Resting(Retried(b, MaxAttempts))
<1>1. MaxAttempts \in Nat /\ b.tries \in 0..MaxAttempts BY BoundsAssumption DEF JobRow
<1>2. Retried(b, MaxAttempts) \in JobRow(MaxAttempts) BY DEF Retried, JobRow
<1>3. /\ Retried(b, MaxAttempts).tries = b.tries
      /\ Retried(b, MaxAttempts).state =
           IF b.tries >= MaxAttempts THEN "discarded" ELSE "available"
    BY DEF Retried, JobRow
<1> QED BY <1>1, <1>2, <1>3 DEF Resting

LEMMA ReturnKeeps ==
    ASSUME IInv, NEW w \in Workers, Return(w)
    PROVE  Preserved
<1>1. /\ worker[w].at \in {"nil", "error"} /\ worker' = [worker EXCEPT ![w] = Idle]
      /\ UNCHANGED <<tier, rows, reader, faults>>
    BY DEF Return
<1>2. Busy(w) BY <1>1 DEF Busy
<1>3. PICK r : r = worker[w].run OBVIOUS
<1>4. WorkerFits(w) /\ job \in [Run -> JobRow(MaxAttempts)] BY DEF IInv, IType
<1>5. r \in Run /\ job[r].state = "running" BY <1>2, <1>3, <1>4 DEF WorkerFits
<1> DEFINE j == Settled(job[r], worker[w].at, MaxAttempts)
<1>6. Resting(j)
  <2>1. job[r] \in JobRow(MaxAttempts) BY <1>4, <1>5
  <2>2. CASE worker[w].at = "nil"
    <3>1. j = [job[r] EXCEPT !.state = "completed"] BY <1>5, <2>2 DEF Settled
    <3>2. j \in JobRow(MaxAttempts) /\ j.state = "completed" BY <2>1, <3>1 DEF JobRow
    <3> QED BY <3>2 DEF Resting
  <2>3. CASE worker[w].at = "error"
    <3>1. j = Retried(job[r], MaxAttempts) BY <1>5, <2>3 DEF Settled
    <3> QED BY <2>1, <3>1, Retries
  <2> QED BY <1>1, <2>2, <2>3
<1>7. job' = [job EXCEPT ![worker[w].run] = j] BY <1>3 DEF Return
<1>8. faults' \in 0..MaxFaults BY <1>1 DEF IInv, IType
<1> HIDE DEF j
<1> QED BY <1>1, <1>2, <1>6, <1>7, <1>8, FreedKeeps

LEMMA CrashKeeps ==
    ASSUME IInv, NEW w \in Workers, Crash(w)
    PROVE  Preserved
<1>1. /\ worker' = [worker EXCEPT ![w] = Idle] /\ UNCHANGED <<tier, rows, job, reader>>
      /\ faults' \in 0..MaxFaults
  <2>1. faults \in 0..MaxFaults /\ MaxFaults \in Nat BY BoundsAssumption DEF IInv, IType
  <2> QED BY <2>1 DEF Crash
<1>2. worker \in [Workers -> WorkerRow] /\ job \in [Run -> JobRow(MaxAttempts)]
    BY DEF IInv, IType
<1>3. CASE Busy(w)
  <2> DEFINE r == worker[w].run
  <2>1. r \in Run /\ job[r].state = "running" BY <1>3 DEF IInv, WorkerFits
  <2>2. Resting(job[r]) BY <1>2, <2>1 DEF Resting
  <2>3. job' = [job EXCEPT ![r] = job[r]] BY <1>1, <1>2
  <2> QED BY <1>1, <1>3, <2>2, <2>3, FreedKeeps
<1>4. CASE ~Busy(w)
  <2>1. Idle \in WorkerRow /\ Idle.at = "idle"
    <3>1. <<>> \in Seq(TaskCodes) OBVIOUS
    <3> QED BY <3>1 DEF Idle, WorkerRow
  <2>2. worker' \in [Workers -> WorkerRow] BY <1>1, <1>2, <2>1
  <2>3. IType' BY <1>1, <2>2 DEF IInv, IType, rows
  <2>4. \A v \in Workers : (Busy(v)' <=> Busy(v)) /\ (Busy(v) => worker'[v] = worker[v])
      BY <1>1, <1>2, <1>4, <2>1 DEF Busy
  <2>5. UNCHANGED <<tier, status, out, job, reader>> BY <1>1 DEF rows
  <2>6. ASSUME NEW v \in Workers PROVE WorkerFits(v)'
    <3>1. WorkerFits(v) BY DEF IInv
    <3> QED BY <2>4, <2>5, <3>1 DEF WorkerFits
  <2>7. Exclusive' BY <2>4 DEF IInv, Exclusive
  <2>8. \A r \in Run : RunFits(r)' BY <2>5 DEF IInv, RunFits, Delivered
  <2> QED BY <2>3, <2>5, <2>6, <2>7, <2>8, RunsAloneKeep
<1> QED BY <1>3, <1>4

LEMMA RescueKeeps ==
    ASSUME IInv, NEW r \in Run, Rescue(r)
    PROVE  Preserved
<1>1. /\ job[r].state = "running" /\ \A w \in Workers : worker[w].run # r
      /\ job' = [job EXCEPT ![r] = Retried(job[r], MaxAttempts)]
      /\ UNCHANGED <<tier, rows, worker, reader, faults>>
    BY DEF Rescue
<1>2. /\ job \in [Run -> JobRow(MaxAttempts)] /\ worker' \in [Workers -> WorkerRow]
      /\ faults' \in 0..MaxFaults /\ RunFits(r)
    BY <1>1 DEF IInv, IType
<1>3. Resting(Retried(job[r], MaxAttempts)) BY <1>2, Retries
<1>4. status[r] # "ABSENT" BY <1>1, <1>2 DEF RunFits
<1>5. \A v \in Workers : Busy(v)' => Busy(v) /\ worker'[v] = worker[v] /\ worker[v].run # r
    BY <1>1 DEF Busy
<1> QED BY <1>1, <1>2, <1>3, <1>4, <1>5, JobKeeps

LEMMA StartKeeps ==
    ASSUME IInv, NEW d \in Decisions, NEW l \in Locations, Start(d, l)
    PROVE  Preserved
<1> DEFINE r == <<d, l>>
<1>1. r \in Run BY DEF Run
<1> HIDE DEF r
<1>2. /\ status[r] = "ABSENT" /\ status' = [status EXCEPT ![r] = "QUEUED"]
      /\ order' = Append(order, r) /\ job' = [job EXCEPT ![r] = Queued]
      /\ UNCHANGED <<tier, location, out, worker, reader, faults>>
    BY DEF Start, CreateResponseRun, GetResponseRunByInput, r
<1>3. /\ status \in [Run -> {"ABSENT"} \cup Active \cup Ended] /\ order \in Seq(Run)
      /\ job \in [Run -> JobRow(MaxAttempts)] /\ MaxAttempts \in Nat \ {0}
    BY BoundsAssumption DEF IInv, IType
<1>4. Queued \in JobRow(MaxAttempts) /\ Queued.state = "available" /\ Queued.tries = 0
    BY <1>3 DEF Queued, JobRow
<1>5. IType'
  <2>1. status' \in [Run -> {"ABSENT"} \cup Active \cup Ended] BY <1>2, <1>3 DEF Active
  <2>2. order' \in Seq(Run) BY <1>1, <1>2, <1>3
  <2>3. job' \in [Run -> JobRow(MaxAttempts)] BY <1>2, <1>3, <1>4
  <2> QED BY <1>2, <2>1, <2>2, <2>3 DEF IInv, IType
<1>6. /\ status'[r] = "QUEUED" /\ job'[r] = Queued
      /\ \A x \in Run \ {r} : status'[x] = status[x] /\ job'[x] = job[x]
    BY <1>1, <1>2, <1>3
<1>7. ASSUME NEW v \in Workers PROVE WorkerFits(v)'
  <2>1. WorkerFits(v) BY DEF IInv
  <2> SUFFICES ASSUME Busy(v) PROVE WorkerFits(v)' BY <1>2 DEF WorkerFits, Busy
  <2>2. PICK x : x = worker[v].run OBVIOUS
  <2>3. x \in Run \ {r} BY <1>2, <2>1, <2>2 DEF WorkerFits
  <2> QED BY <1>2, <1>6, <2>1, <2>2, <2>3 DEF WorkerFits
<1>8. Exclusive' BY <1>2 DEF IInv, Exclusive, Busy
<1>9. ASSUME NEW x \in Run PROVE RunFits(x)'
  <2>1. RunFits(x) BY DEF IInv
  <2>2. CASE x = r BY <1>3, <1>4, <1>6, <2>2 DEF RunFits
  <2>3. CASE x # r BY <1>2, <1>6, <2>1, <2>3 DEF RunFits, Delivered
  <2> QED BY <2>2, <2>3
<1>10. ASSUME NEW p \in Readers PROVE PageFits(p)'
  <2>1. PageFits(p) /\ reader \in [Readers -> Page] BY DEF IInv, IType
  <2>2. CASE reader[p].run = None BY <1>2, <2>1, <2>2 DEF PageFits, Shows
  <2>3. CASE reader[p].run # None
    <3>1. PICK x : x = reader[p].run OBVIOUS
    <3>2. x \in Run BY <2>1, <2>3, <3>1 DEF Page
    <3>3. status[x] # "ABSENT" BY <2>1, <2>3, <3>1 DEF PageFits, Shows
    <3>4. status'[x] = status[x] BY <1>2, <1>6, <3>2, <3>3
    <3> QED BY <1>2, <2>1, <2>3, <3>1, <3>4 DEF PageFits, Shows, Delivered
  <2> QED BY <2>2, <2>3
<1>11. \A x \in Run : Final(x)
  <2>1. Final(r) BY <1>2 DEF Final, Ended
  <2>2. \A x \in Run \ {r} : Final(x) BY <1>2, <1>6 DEF Final
  <2> QED BY <2>1, <2>2
<1> QED BY <1>5, <1>7, <1>8, <1>9, <1>10, <1>11 DEF IInv, Preserved

(* A page that reads on. *)
LEMMA PageKeeps ==
    ASSUME IInv, NEW p \in Readers, NEW g \in Page, Shows(g),
           reader' = [reader EXCEPT ![p] = g], UNCHANGED <<tier, rows, job, worker, faults>>
    PROVE  Preserved
<1>1. reader \in [Readers -> Page] BY DEF IInv, IType
<1>2. UNCHANGED <<tier, location, status, order, out, job, worker, faults>> BY DEF rows
<1>3. IType' BY <1>1, <1>2 DEF IInv, IType
<1>4. \A w \in Workers : WorkerFits(w)' BY <1>2 DEF IInv, WorkerFits, Busy
<1>5. Exclusive' BY <1>2 DEF IInv, Exclusive, Busy
<1>6. \A r \in Run : RunFits(r)' BY <1>2 DEF IInv, RunFits, Delivered
<1>7. ASSUME NEW q \in Readers PROVE PageFits(q)'
  <2>1. CASE q = p
    <3>1. reader'[q] = g BY <1>1, <2>1
    <3> QED BY <1>2, <3>1 DEF PageFits, Shows, Delivered
  <2>2. CASE q # p
    <3>1. reader'[q] = reader[q] BY <1>1, <2>2
    <3>2. PageFits(q) BY DEF IInv
    <3> QED BY <1>2, <3>1, <3>2 DEF PageFits, Shows, Delivered
  <2> QED BY <2>1, <2>2
<1>8. \A r \in Run : Final(r) BY <1>2 DEF Final
<1> QED BY <1>3, <1>4, <1>5, <1>6, <1>7, <1>8 DEF IInv, Preserved

LEMMA NoneIsNoRun == None \notin Run
BY NoneAssumption DEF Run

LEMMA GetKeeps ==
    ASSUME IInv, NEW p \in Readers, NEW r \in Run \cup {None}, GetResponseRun(p, r)
    PROVE  Preserved
<1> DEFINE g == [run |-> r, status |-> status[r], left |-> InOrder, out |-> NoRows]
<1>1. /\ r # None /\ status[r] \in {"READY", "REVIEW_REQUIRED"}
      /\ reader' = [reader EXCEPT ![p] = g] /\ UNCHANGED <<tier, rows, job, worker, faults>>
    BY DEF GetResponseRun
<1>2. r \in Run BY <1>1
<1>3. NoRows \in Output BY Cleared
<1>4. InOrder \in Seq(Tables) BY DEF InOrder, Tables
<1>5. g \in Page BY <1>1, <1>2, <1>3, <1>4 DEF Page
<1>6. RowsOf(InOrder) = Tables
  <2>1. DOMAIN InOrder = 1..5 BY DEF InOrder
  <2>2. /\ InOrder[1] = "tasks" /\ InOrder[2] = "evidence" /\ InOrder[3] = "leads"
        /\ InOrder[4] = "alternatives" /\ InOrder[5] = "gaps"
      BY DEF InOrder
  <2>3. 1..5 = {1, 2, 3, 4, 5} OBVIOUS
  <2> QED BY <2>1, <2>2, <2>3 DEF RowsOf, Tables
<1>7. Delivered(r, status[r]) BY <1>1, <1>2 DEF IInv, RunFits
<1>8. Shows(g) BY <1>1, <1>6, <1>7 DEF Shows
<1> HIDE DEF g
<1> QED BY <1>1, <1>5, <1>8, PageKeeps

LEMMA BuildKeeps ==
    ASSUME IInv, NEW p \in Readers, build(p)
    PROVE  Preserved
<1>1. reader \in [Readers -> Page] /\ out \in [Run -> Output] BY DEF IInv, IType
<1>2. PICK h : h = reader[p] OBVIOUS
<1>3. h \in Page /\ h.left # <<>> /\ Shows(h) BY <1>1, <1>2 DEF build, IInv, PageFits
<1>4. PICK t : t = Head(h.left) OBVIOUS
<1>5. /\ t \in Tables /\ Tail(h.left) \in Seq(Tables)
      /\ RowsOf(h.left) = {t} \cup RowsOf(Tail(h.left))
  <2>1. h.left \in Seq(Tables) BY <1>3 DEF Page
  <2> QED BY <1>3, <1>4, <2>1, ListHead
<1>6. h.run # None /\ h.run \in Run BY <1>3 DEF Shows, Page
<1> DEFINE g == [h EXCEPT !.left = Tail(h.left), !.out[t] = out[h.run][t]]
<1>7. out[h.run] \in Output /\ h.out \in Output BY <1>1, <1>3, <1>6 DEF Page
<1>8. [h.out EXCEPT ![t] = out[h.run][t]] \in Output BY <1>5, <1>7 DEF Output, Tables
<1>9. /\ g.run = h.run /\ g.status = h.status /\ g.left = Tail(h.left)
      /\ g.out = [h.out EXCEPT ![t] = out[h.run][t]] /\ g \in Page
    BY <1>3, <1>5, <1>8 DEF Page
<1>10. reader' = [reader EXCEPT ![p] = g] /\ UNCHANGED <<tier, rows, job, worker, faults>>
    BY <1>1, <1>2, <1>4 DEF build
<1> HIDE DEF g
<1>11. ASSUME NEW x \in Tables, x \notin RowsOf(g.left) PROVE g.out[x] = out[h.run][x]
  <2>1. CASE x = t BY <1>5, <1>7, <1>9, <2>1 DEF Output, Tables
  <2>2. CASE x # t
    <3>1. x \notin RowsOf(h.left) BY <1>5, <1>9, <1>11, <2>2
    <3>2. h.out[x] = out[h.run][x] BY <1>3, <1>6, <3>1 DEF Shows
    <3> QED BY <1>7, <1>9, <2>2, <3>2 DEF Output, Tables
  <2> QED BY <2>1, <2>2
<1>12. Shows(g) BY <1>3, <1>6, <1>9, <1>11 DEF Shows
<1> QED BY <1>9, <1>10, <1>12, PageKeeps

LEMMA ShownKeeps ==
    ASSUME IInv, NEW p \in Readers, Shown(p)
    PROVE  Preserved
<1>1. NoRows \in Output BY Cleared
<1>2. <<>> \in Seq(Tables) OBVIOUS
<1>3. NoPage \in Page BY <1>1, <1>2 DEF NoPage, Page
<1>4. Shows(NoPage) BY DEF Shows, NoPage
<1> QED BY <1>3, <1>4, PageKeeps DEF Shown

-----------------------------------------------------------------------------
LEMMA InitFits == Init => IInv
<1> SUFFICES ASSUME Init PROVE IInv OBVIOUS
<1>1. NoRows \in Output BY Cleared
<1>2. <<>> \in Seq(TaskCodes) /\ <<>> \in Seq(Tables) /\ <<>> \in Seq(Run) OBVIOUS
<1>3. MaxAttempts \in Nat /\ MaxFaults \in Nat BY BoundsAssumption
<1>4. IType
  <2>1. NoJob \in JobRow(MaxAttempts) BY <1>3 DEF NoJob, JobRow
  <2>2. Idle \in WorkerRow BY <1>2 DEF Idle, WorkerRow
  <2>3. NoPage \in Page BY <1>1, <1>2 DEF NoPage, Page
  <2> QED BY <1>1, <1>2, <1>3, <2>1, <2>2, <2>3 DEF Init, IType
<1>5. \A w \in Workers : ~Busy(w) BY DEF Init, Busy, Idle
<1>6. \A w \in Workers : WorkerFits(w) BY <1>5 DEF WorkerFits
<1>7. Exclusive BY <1>5 DEF Exclusive
<1>8. \A r \in Run : RunFits(r) BY DEF Init, RunFits, NoJob
<1>9. \A p \in Readers : PageFits(p) BY DEF Init, PageFits, Shows, NoPage
<1> QED BY <1>4, <1>6, <1>7, <1>8, <1>9 DEF IInv

LEMMA ProcessKeeps ==
    ASSUME IInv, NEW w \in Workers, NEW r \in Run, Process(w, r)
    PROVE  Preserved
BY LoadKeeps, MarkKeeps, ClearKeeps, TasksKeep, SewerKeeps, EchoKeeps, LeadsKeep, LandfillsKeep,
   RoutesKeep, AlternativesKeep, CompleteKeeps, FailureKeeps, Zenon
   DEF Process

LEMMA NextKeeps ==
    ASSUME IInv, Next
    PROVE  Preserved
<1>1. ASSUME NEW l \in Locations, ResolveLocation(l) \/ ConfirmLocation(l) PROVE Preserved
    BY <1>1, LocationKeeps
<1>2. ASSUME NEW d \in Decisions, NEW l \in Locations, Start(d, l) PROVE Preserved
    BY <1>2, StartKeeps
<1>3. ASSUME NEW w \in Workers, NEW r \in Run, Fetch(w, r) \/ Process(w, r) PROVE Preserved
    BY <1>3, FetchKeeps, ProcessKeeps
<1>4. ASSUME NEW w \in Workers, Return(w) \/ StatementFails(w) \/ Crash(w) PROVE Preserved
    BY <1>4, ReturnKeeps, StatementFailsKeeps, CrashKeeps
<1>5. ASSUME NEW r \in Run, Rescue(r) PROVE Preserved BY <1>5, RescueKeeps
<1>6. ASSUME NEW p \in Readers, NEW r \in Run, GetResponseRun(p, r) PROVE Preserved
    BY <1>6, GetKeeps
<1>7. ASSUME NEW p \in Readers, NEW d \in Decisions, Latest(p, d) PROVE Preserved
  <2>1. GetLatestResponseRun(d) \in Run \cup {None} BY LatestIsARun DEF IInv, IType
  <2> QED BY <1>7, <2>1, GetKeeps DEF Latest
<1>8. ASSUME NEW p \in Readers, build(p) \/ Shown(p) PROVE Preserved
    BY <1>8, BuildKeeps, ShownKeeps
<1> QED BY <1>1, <1>2, <1>3, <1>4, <1>5, <1>6, <1>7, <1>8, Zenon DEF Next

LEMMA StutterKeeps ==
    ASSUME IInv, UNCHANGED vars
    PROVE  Preserved
<1>1. UNCHANGED <<tier, location, status, order, out, job, worker, reader, faults>>
    BY DEF vars, rows
<1>2. IType' BY <1>1 DEF IInv, IType
<1>3. \A w \in Workers : WorkerFits(w)' BY <1>1 DEF IInv, WorkerFits, Busy
<1>4. Exclusive' BY <1>1 DEF IInv, Exclusive, Busy
<1>5. \A r \in Run : RunFits(r)' BY <1>1 DEF IInv, RunFits, Delivered
<1> QED BY <1>1, <1>2, <1>3, <1>4, <1>5, RunsAloneKeep

LEMMA RowsAreTyped ==
    ASSUME NEW o \in Output
    PROVE  RowsTyped(o)
BY DEF Output, RowsTyped, TaskCodes, Leads

LEMMA CollectedIsStored ==
    ASSUME IInv, NEW p \in Readers, reader[p].left = <<>>,
           reader[p].status \in {"READY", "REVIEW_REQUIRED"}
    PROVE  reader[p].run \in Run /\ reader[p].out = out[reader[p].run]
<1>1. reader \in [Readers -> Page] /\ out \in [Run -> Output] BY DEF IInv, IType
<1>2. PICK g : g = reader[p] OBVIOUS
<1>3. g \in Page /\ Shows(g) BY <1>1, <1>2 DEF IInv, PageFits
<1>4. g.run \in Run /\ \A t \in Tables : g.out[t] = out[g.run][t]
    BY <1>2, <1>3, NoRowsOfNothing DEF Shows, Page
<1>5. g.out \in Output /\ out[g.run] \in Output BY <1>1, <1>3, <1>4 DEF Page
<1>6. g.out = out[g.run]
  <2>1. \A o, q \in Output : (\A t \in Tables : o[t] = q[t]) => o = q
      BY DEF Output, Tables
  <2> QED BY <1>4, <1>5, <2>1
<1> QED BY <1>2, <1>4, <1>6

LEMMA IInvImpliesResponseConsistent == IInv => ResponseConsistent
<1> SUFFICES ASSUME IInv PROVE ResponseConsistent OBVIOUS
<1>1. IType BY DEF IInv
<1>2. TypeOK
  <2>1. \A r \in Run : RowsTyped(out[r]) BY <1>1, RowsAreTyped DEF IType
  <2>2. \A p \in Readers : reader[p].run \in Run \cup {None} /\ RowsTyped(reader[p].out)
    <3>1. \A p \in Readers : reader[p].run \in Run \cup {None} /\ reader[p].out \in Output
        BY <1>1 DEF IType, Page
    <3> QED BY <3>1, RowsAreTyped
  <2> QED BY <1>1, <2>1, <2>2 DEF IType, TypeOK
<1>3. ShownIsComplete
  <2> SUFFICES ASSUME NEW p \in Readers, reader[p].left = <<>>,
                      reader[p].status \in {"READY", "REVIEW_REQUIRED"}
               PROVE  /\ Complete(reader[p].out, tier[reader[p].run[1]])
                      /\ (reader[p].status = "READY") <=> (reader[p].out.gaps = {})
      BY DEF ShownIsComplete
  <2>1. PICK g : g = reader[p] OBVIOUS
  <2>2. g.run \in Run /\ g.out = out[g.run] BY <2>1, CollectedIsStored
  <2>3. g.run # None BY <2>2, NoneIsNoRun
  <2>4. Delivered(g.run, g.status) BY <2>1, <2>3 DEF IInv, PageFits, Shows
  <2> QED BY <2>1, <2>2, <2>4 DEF Delivered
<1> QED BY <1>2, <1>3 DEF ResponseConsistent

(* What a page or a package shows of a response that ended is one complete *)
(* response: every task of the tier, each source heard or named as a gap,  *)
(* as many leads and alternatives as the answers announced, and READY      *)
(* exactly when nothing was missing, although neither the job's statements *)
(* nor the page's queries share a transaction (Process, build).            *)
THEOREM ResponseIsConsistent == Spec => []ResponseConsistent
<1>1. Init => IInv BY InitFits
<1>2. IInv /\ [Next]_vars => IInv' BY NextKeeps, StutterKeeps DEF Preserved
<1>3. IInv => ResponseConsistent BY IInvImpliesResponseConsistent
<1> QED BY <1>1, <1>2, <1>3, PTL DEF Spec

(* A run that ended keeps its rows, and its status only changes to FAILED, *)
(* whatever late statement, retry or rescue comes after it.                *)
THEOREM EndedRunKeepsItsRows == Spec => EndedResponseIsFinal
<1>1. Init => IInv BY InitFits
<1>2. IInv /\ [Next]_vars => IInv' BY NextKeeps, StutterKeeps DEF Preserved
<1>3. IInv /\ [Next]_vars =>
        [\A r \in Run : status[r] \in Ended =>
            /\ out'[r] = out[r]
            /\ status'[r] \in {status[r], "FAILED"}]_vars
    BY NextKeeps DEF Preserved, Final
<1> QED BY <1>1, <1>2, <1>3, PTL DEF Spec, EndedResponseIsFinal

(* Two workers never write the rows of one run, rescues included.          *)
THEOREM OneWriter == Spec => []Exclusive
<1>1. Init => IInv BY InitFits
<1>2. IInv /\ [Next]_vars => IInv' BY NextKeeps, StutterKeeps DEF Preserved
<1>3. IInv => Exclusive BY DEF IInv
<1> QED BY <1>1, <1>2, <1>3, PTL DEF Spec
=============================================================================
