-------------------------- MODULE FleetMergeProofs --------------------------
(***************************************************************************)
(* That merged findings are decided by the scans they stand for, for any   *)
(* scans, observations, agents and cards and any number of merges.         *)
(*                                                                         *)
(* What is collected while reports are read agrees, at each moment, with   *)
(* what the covered scans reported (Collected).  The registration does so  *)
(* because Decide turns unions of assessments into joins (DecideUnion),    *)
(* so that a fleet report's verdict may stand for those of its scans.      *)
(***************************************************************************)
EXTENDS FleetMerge, TLAPS

Marks == Agents \cup {"shadow"}

Soundly(f, s) == ClassifiedFor(f, s) /\ GovernedFor(f, s) /\ AdmitsFor(f, s)

ScanInv ==
    \A x \in Scans :
        LET o == scan[x]
        IN  /\ o.kinds = {}
            /\ o.verdict \notin Agents => o.card = None /\ o.level = NoLevel

FleetInv == fleet # None => Soundly(fleet.finding, fleet.covers)

VerdictsInv == Decide(verdicts) = Decide(Verdicts(covers))

CardsInv ==
    /\ \A c \in cards : \E x \in covers : scan[x].card = c
    /\ Registered => \A x \in covers : scan[x].card \in cards \cup {None}

BlocksInv ==
    AllApplicable(covers) =>
        \A x \in covers :
           /\ scan[x].interval.floor <= blocks.floor
           /\ scan[x].interval.ceiling <= blocks.ceiling
           /\ scan[x].interval.oversight <= blocks.oversight
           /\ scan[x].interval.initiation <= blocks.initiation

LevelsInv ==
    /\ \A a \in Agents \ verdicts : levels[a] = NoLevel
    /\ AllApplicable(covers) =>
         \A a \in Agents :
             Decide(verdicts) = a =>
                 /\ \A x \in covers : levels[a] <= scan[x].level
                 /\ \E x \in covers : levels[a] = scan[x].level

CurrentInv ==
    IF read = {} THEN covers = {} /\ cards = {}
    ELSE /\ ClassifiedFor(current, covers)
         /\ IF current.card = None THEN cards = {} ELSE current.card \in cards

Collected == CurrentInv /\ VerdictsInv /\ CardsInv /\ BlocksInv /\ LevelsInv

IInv ==
    /\ TypeOK
    /\ ScanInv
    /\ FleetInv
    /\ phase = "reading" => Collected
    /\ MergeSound
    /\ NothingHidden

----------------------------------------------------------------------------
(* The registration of a union *)

\* Decide, by the cases of _merge_registration.
LEMMA DecideCases ==
    ASSUME NEW vs \in SUBSET Marks
    PROVE  /\ vs = {} => Decide(vs) = "unassessed"
           /\ \A a \in Agents : vs = {a} <=> Decide(vs) = a
           /\ Decide(vs) = "unassessed" => vs = {}
           /\ Decide(vs) \in Marks \cup {"unassessed"}
           /\ vs # {} /\ (\A a \in Agents : vs # {a}) => Decide(vs) = "shadow"
<1>1. CASE vs = {}
  BY <1>1, NamesAssumption DEF Decide
<1>2. CASE \E a \in Agents : vs = {a}
  <2>1. PICK a \in Agents : vs = {a}
    BY <1>2
  <2>2. \A b \in Agents : vs = {b} => b = a
    BY <2>1
  <2>3. Decide(vs) = a
    BY <2>1, <2>2 DEF Decide
  <2> QED
    BY <2>1, <2>2, <2>3, NamesAssumption DEF Marks
<1>3. CASE vs # {} /\ ~(\E a \in Agents : vs = {a})
  BY <1>3, NamesAssumption DEF Decide, Marks
<1> QED
  BY <1>1, <1>2, <1>3

Join(u, v) == IF u = "unassessed" THEN v ELSE IF v = "unassessed" \/ u = v THEN u ELSE "shadow"

\* What is decided for a union of assessments follows from what is decided for its parts.
LEMMA DecideUnion ==
    ASSUME NEW A \in SUBSET Marks, NEW B \in SUBSET Marks
    PROVE  Decide(A \cup B) = Join(Decide(A), Decide(B))
<1>1. CASE A = {}
  <2>1. A \cup B = B
    BY <1>1
  <2> QED
    BY <2>1, <1>1, DecideCases DEF Join
<1>2. CASE B = {}
  <2>1. A \cup B = A
    BY <1>2
  <2>2. Decide(B) = "unassessed"
    BY <1>2, DecideCases
  <2> QED
    BY <2>1, <2>2 DEF Join
<1>3. CASE A # {} /\ B # {} /\ \E a \in Agents : A \cup B = {a}
  <2>1. PICK a \in Agents : A \cup B = {a}
    BY <1>3
  <2>2. A = {a} /\ B = {a}
    BY <1>3, <2>1
  <2>3. Decide(A) = a /\ Decide(B) = a /\ Decide(A \cup B) = a
    BY <2>2, DecideCases
  <2> QED
    BY <2>3, NamesAssumption DEF Join
<1>4. CASE A # {} /\ B # {} /\ ~(\E a \in Agents : A \cup B = {a})
  <2>1. Decide(A \cup B) = "shadow"
    BY <1>4, DecideCases
  <2>2. Decide(A) # "unassessed" /\ Decide(B) # "unassessed"
    BY <1>4, DecideCases
  <2>3. Decide(A) # Decide(B) \/ Decide(A) = "shadow"
    <3>1. SUFFICES ASSUME Decide(A) = Decide(B), Decide(A) # "shadow" PROVE FALSE
      OBVIOUS
    <3>2. Decide(A) \in Agents
      BY <3>1, <2>2, DecideCases DEF Marks
    <3>3. A = {Decide(A)} /\ B = {Decide(A)}
      BY <3>1, <3>2, DecideCases
    <3> QED
      BY <3>2, <3>3, <1>4
  <2> QED
    BY <2>1, <2>2, <2>3 DEF Join
<1> QED
  BY <1>1, <1>2, <1>3, <1>4

----------------------------------------------------------------------------
(* Intervals *)

\* A classified interval is well formed, whatever other reports recorded.
LEMMA ClassifiedInterval ==
    ASSUME NEW f \in Findings, NEW o \in 0 .. 2, NEW i \in 0 .. 3
    PROVE  Classify(f, o, i) \in Intervals
BY DEF Classify, Intervals, Bounds, Levels, Larger, Bypassed, Event, Triggered

\* The wider of two intervals admits what each admits.
LEMMA WidestAdmits ==
    ASSUME NEW i \in Intervals, NEW j \in Intervals
    PROVE  /\ Widest(i, j) \in Intervals
           /\ i.floor <= Widest(i, j).floor /\ j.floor <= Widest(i, j).floor
           /\ i.ceiling <= Widest(i, j).ceiling /\ j.ceiling <= Widest(i, j).ceiling
           /\ i.oversight <= Widest(i, j).oversight /\ j.oversight <= Widest(i, j).oversight
           /\ i.initiation <= Widest(i, j).initiation /\ j.initiation <= Widest(i, j).initiation
BY DEF Widest, Larger, Intervals, Bounds, Levels

LEMMA NoIntervalTyped == NoInterval \in Intervals
BY DEF NoInterval, Intervals, Bounds, Levels

LEMMA IntervalTyped ==
    ASSUME NEW f \in Findings
    PROVE  IntervalOf(f) \in Intervals
BY ClassifiedInterval, NoIntervalTyped DEF IntervalOf

LEMMA MergedIntervalTyped ==
    ASSUME NEW f \in Findings, NEW b \in Intervals
    PROVE  /\ MergedInterval(f, b) \in Intervals
           /\ Applicable(f.kind) => /\ b.floor <= MergedInterval(f, b).floor
                                    /\ b.ceiling <= MergedInterval(f, b).ceiling
                                    /\ b.oversight <= MergedInterval(f, b).oversight
                                    /\ b.initiation <= MergedInterval(f, b).initiation
<1>1. b.oversight \in 0 .. 2 /\ b.initiation \in 0 .. 3
  BY DEF Intervals, Bounds
<1>2. Classify(f, b.oversight, b.initiation) \in Intervals
  BY <1>1, ClassifiedInterval
<1> QED
  BY <1>2, WidestAdmits, NoIntervalTyped DEF MergedInterval

----------------------------------------------------------------------------
(* Types *)

LEMMA MergedTyped ==
    ASSUME NEW cur \in Findings, NEW f \in Findings
    PROVE  Merged(cur, f) \in Findings
BY DEF Merged, ObservedKinds, Findings, Larger, Kinds

LEMMA CollectTyped ==
    ASSUME TypeOK, NEW f \in Findings, Collect(f)
    PROVE  /\ verdicts' \subseteq Marks
           /\ cards' \subseteq Cards
           /\ blocks' \in Intervals
           /\ levels' \in [Agents -> Levels \cup {NoLevel}]
<1>1. f.verdict \in Marks \cup {"unassessed"} /\ f.card \in Cards \cup {None}
      /\ f.interval \in Intervals /\ f.level \in Levels \cup {NoLevel}
  BY DEF Findings, Marks
<1>2. blocks' \in Intervals
  BY <1>1, WidestAdmits DEF TypeOK, Collect
<1>3. levels' \in [Agents -> Levels \cup {NoLevel}]
  BY <1>1 DEF TypeOK, Collect, LowerLevels, Smaller
<1> QED
  BY <1>1, <1>2, <1>3 DEF TypeOK, Collect, Marks

\* A report read leaves everything well formed.
LEMMA ReadTyped ==
    ASSUME TypeOK, NEW r \in Scans \cup {None}, NEW f \in Findings,
           NEW s \in SUBSET Scans, s # {}, Read(r, f, s)
    PROVE  TypeOK'
<1>1. /\ read' \subseteq Scans \cup {None} /\ read' # {}
      /\ covers' \subseteq Scans /\ covers' # {}
  BY DEF TypeOK, Read
<1>2. /\ UNCHANGED <<scan, fleet, result, merges, history>>
      /\ phase = "reading" /\ phase' \in {"reading", "refused"}
  BY DEF Read
<1>3. /\ current' \in Findings \ {None}
      /\ verdicts' \subseteq Marks /\ cards' \subseteq Cards
      /\ blocks' \in Intervals /\ levels' \in [Agents -> Levels \cup {NoLevel}]
  <2>1. CASE current = None /\ current' = f /\ Collect(f)
    BY <2>1, CollectTyped, NamesAssumption
  <2>2. CASE current # None /\ current' = Merged(current, f) /\ Collect(f)
    <3>1. current \in Findings
      BY <2>2 DEF TypeOK
    <3> QED
      BY <2>2, <3>1, CollectTyped, MergedTyped, NamesAssumption
  <2>3. CASE current # None /\ UNCHANGED collected
    BY <2>3 DEF TypeOK, collected, Marks
  <2> QED
    BY <2>1, <2>2, <2>3 DEF Read
<1> QED
  BY <1>1, <1>2, <1>3 DEF TypeOK, Marks

LEMMA MergedFindingTyped ==
    ASSUME TypeOK, read # {}
    PROVE  MergedFinding \in Findings
<1>1. current \in Findings /\ verdicts \in SUBSET Marks
  BY DEF TypeOK, Marks
<1>2. Decide(verdicts) \in Agents \cup {"unassessed", "shadow"}
  BY <1>1, DecideCases DEF Marks
<1>3. MergedInterval(current, blocks) \in Intervals
  BY <1>1, MergedIntervalTyped DEF TypeOK
<1>4. levels \in [Agents -> Levels \cup {NoLevel}]
  BY DEF TypeOK
<1> QED
  BY <1>1, <1>2, <1>3, <1>4 DEF MergedFinding, Findings, Registered

----------------------------------------------------------------------------
(* What is collected from the reports *)

\* The classification of two findings merged is that of the scans of both.
LEMMA MergedClassified ==
    ASSUME TypeOK, NEW cur \in Findings, NEW f \in Findings,
           NEW s \in SUBSET Scans, NEW t \in SUBSET Scans,
           ClassifiedFor(cur, s), ClassifiedFor(f, t), cur.identity = f.identity
    PROVE  ClassifiedFor(Merged(cur, f), s \cup t)
<1> DEFINE m == Merged(cur, f)
           u == s \cup t
<1>1. \A x \in Scans : scan[x] \in Findings
  BY DEF TypeOK
<1>2. \A k \in Kinds : Rank(k) \in Nat
  BY DEF Rank
<1>3. cur.kind \in Kinds /\ f.kind \in Kinds /\ \A x \in Scans : scan[x].kind \in Kinds
  BY <1>1 DEF Findings
<1>4. cur.risk \in Nat /\ f.risk \in Nat /\ \A x \in Scans : scan[x].risk \in Nat
  BY <1>1 DEF Findings
<1>5. \A x \in u : scan[x].identity = m.identity
  BY DEF ClassifiedFor, Merged
<1>6. \A x \in u : Rank(scan[x].kind) <= Rank(m.kind)
  <2>1. Rank(cur.kind) \in Nat /\ Rank(f.kind) \in Nat
        /\ \A x \in u : Rank(scan[x].kind) \in Nat
    BY <1>2, <1>3
  <2>2. Rank(m.kind) \in Nat /\ Rank(cur.kind) <= Rank(m.kind) /\ Rank(f.kind) <= Rank(m.kind)
    BY <2>1 DEF Merged
  <2>3. \A x \in u : Rank(scan[x].kind) <= Rank(cur.kind) \/ Rank(scan[x].kind) <= Rank(f.kind)
    BY DEF ClassifiedFor
  <2> HIDE DEF m
  <2> QED
    BY <2>1, <2>2, <2>3
<1>7. ASSUME NEW x \in u
      PROVE  scan[x].risk <= m.risk
  <2>1. m.risk \in Nat /\ cur.risk <= m.risk /\ f.risk <= m.risk
    BY <1>4 DEF Merged, Larger
  <2>2. scan[x].risk <= cur.risk \/ scan[x].risk <= f.risk
    BY <1>7 DEF ClassifiedFor
  <2>3. scan[x].risk \in Nat
    BY <1>4, <1>7
  <2> HIDE DEF m
  <2> QED
    BY <1>4, <2>1, <2>2, <2>3
<1>8. \E x \in u : scan[x].kind = m.kind
  BY DEF ClassifiedFor, Merged
<1>9. \E x \in u : scan[x].risk = m.risk
  BY DEF ClassifiedFor, Merged, Larger
<1>10. /\ \A x, y \in u : scan[x].kind # scan[y].kind => m.kinds = {scan[z].kind : z \in u}
       /\ m.kinds = {} \/ \E x, y \in u : scan[x].kind # scan[y].kind
  <2>1. {cur.kind} \cup cur.kinds = {scan[z].kind : z \in s}
    BY DEF ClassifiedFor
  <2>2. {f.kind} \cup f.kinds = {scan[z].kind : z \in t}
    BY DEF ClassifiedFor
  <2>3. ObservedKinds(cur, f) = {scan[z].kind : z \in u}
    BY <2>1, <2>2 DEF ObservedKinds
  <2>4. m.kinds = IF \E k, l \in ObservedKinds(cur, f) : k # l THEN ObservedKinds(cur, f)
                  ELSE cur.kinds
    BY DEF Merged
  <2>5. (\A x, y \in u : scan[x].kind = scan[y].kind) => cur.kinds = {}
    BY DEF ClassifiedFor
  <2> QED
    BY <2>3, <2>4, <2>5
<1>11. m.whole <=> \A x \in u : scan[x].whole
  <2>1. m.whole <=> cur.whole /\ f.whole
    BY DEF Merged
  <2> QED
    BY <2>1 DEF ClassifiedFor
<1>12. m.reconciled <=> \E x \in u : scan[x].reconciled
  <2>1. m.reconciled <=> cur.reconciled \/ f.reconciled
    BY DEF Merged
  <2> QED
    BY <2>1 DEF ClassifiedFor
<1> QED
  BY <1>5, <1>6, <1>7, <1>8, <1>9, <1>10, <1>11, <1>12 DEF ClassifiedFor

\* A scan of a finding that is not assessed declares nothing about it.
LEMMA Unassessed ==
    ASSUME TypeOK, ScanInv, NEW s \in SUBSET Scans, Decide(Verdicts(s)) = "unassessed"
    PROVE  \A x \in s : scan[x].card = None /\ scan[x].level = NoLevel
<1>1. Verdicts(s) \in SUBSET Marks
  BY DEF Verdicts, TypeOK, Findings, Marks
<1>2. Verdicts(s) = {}
  BY <1>1, DecideCases
<1>3. \A x \in s : scan[x].verdict = "unassessed"
  BY <1>2 DEF Verdicts
<1> QED
  BY <1>3, NamesAssumption DEF ScanInv

\* A report's assessment joins those read before.
LEMMA VerdictsStep ==
    ASSUME TypeOK, NEW f \in Findings, NEW s \in SUBSET Scans, Soundly(f, s),
           Collect(f), covers' = covers \cup s, UNCHANGED scan, VerdictsInv
    PROVE  VerdictsInv' /\ Decide(verdicts') = Join(Decide(verdicts), f.verdict)
<1> DEFINE B == IF f.verdict = "unassessed" THEN {} ELSE {f.verdict}
<1>1. f.verdict \in Marks \cup {"unassessed"}
  BY DEF Findings, Marks
<1>2. verdicts \in SUBSET Marks /\ B \in SUBSET Marks
  BY <1>1 DEF TypeOK, Marks
<1>3. \A t \in SUBSET Scans : Verdicts(t) \in SUBSET Marks
  BY DEF Verdicts, TypeOK, Findings, Marks
<1>4. Decide(B) = f.verdict
  <2>1. CASE f.verdict = "unassessed"
    BY <1>2, <2>1, DecideCases
  <2>2. CASE f.verdict \in Agents
    <3>1. B = {f.verdict}
      BY <2>2, NamesAssumption
    <3> QED
      BY <1>2, <2>2, <3>1, DecideCases
  <2>3. CASE f.verdict = "shadow"
    <3>1. B = {"shadow"} /\ \A a \in Agents : B # {a}
      BY <2>3, NamesAssumption
    <3> QED
      BY <1>2, <2>3, <3>1, DecideCases
  <2> QED
    BY <1>1, <2>1, <2>2, <2>3 DEF Marks
<1>5. verdicts' = verdicts \cup B
  BY DEF Collect
<1> HIDE DEF B
<1>6. Decide(verdicts') = Join(Decide(verdicts), f.verdict)
  BY <1>2, <1>4, <1>5, DecideUnion
<1>7. covers \in SUBSET Scans
  BY DEF TypeOK
<1>8. Verdicts(covers)' = Verdicts(covers) \cup Verdicts(s)
  BY DEF Verdicts
<1>9. f.verdict = Decide(Verdicts(s))
  BY DEF Soundly, GovernedFor
<1>10. Decide(Verdicts(covers) \cup Verdicts(s)) = Join(Decide(Verdicts(covers)), f.verdict)
  BY <1>3, <1>7, <1>9, DecideUnion
<1>11. Decide(verdicts') = Decide(Verdicts(covers)')
  BY <1>6, <1>8, <1>10 DEF VerdictsInv
<1> QED
  BY <1>6, <1>11 DEF VerdictsInv, Decide

\* Two verdicts join in an agent only if each is that agent or none.
LEMMA JoinInAgent ==
    ASSUME NEW u, NEW v, NEW a \in Agents, Join(u, v) = a
    PROVE  u \in {a, "unassessed"} /\ v \in {a, "unassessed"} /\ (u = a \/ v = a)
BY NamesAssumption DEF Join

LEMMA CardsStep ==
    ASSUME TypeOK, ScanInv, NEW f \in Findings, NEW s \in SUBSET Scans, Soundly(f, s),
           Collect(f), covers' = covers \cup s, UNCHANGED scan, VerdictsInv, CardsInv
    PROVE  CardsInv'
<1>1. f.card # None => f.verdict \in Agents
  BY DEF Soundly, GovernedFor
<1>2. cards' = IF f.card # None THEN cards \cup {f.card} ELSE cards
  BY <1>1 DEF Collect
<1>3. f.card # None => \E x \in s : scan[x].card = f.card
  BY <1>1 DEF Soundly, GovernedFor
<1>4. \A c \in cards' : \E x \in covers' : scan'[x].card = c
  BY <1>2, <1>3 DEF CardsInv
<1>5. ASSUME NEW a \in Agents, Decide(verdicts') = a, NEW x \in covers'
      PROVE  scan'[x].card \in cards' \cup {None}
  <2>1. Join(Decide(verdicts), f.verdict) = a
    BY <1>5, VerdictsStep
  <2>2. Decide(verdicts) \in {a, "unassessed"} /\ f.verdict \in {a, "unassessed"}
    BY <2>1, JoinInAgent
  <2>3. CASE x \in covers
    <3>1. CASE Decide(verdicts) = a
      BY <1>2, <2>3, <3>1 DEF CardsInv, Registered
    <3>2. CASE Decide(verdicts) = "unassessed"
      BY <2>3, <3>2, Unassessed DEF VerdictsInv, TypeOK
    <3> QED
      BY <2>2, <3>1, <3>2
  <2>4. CASE x \in s
    <3>1. CASE f.verdict = a
      BY <1>2, <2>4, <3>1 DEF Soundly, GovernedFor
    <3>2. CASE f.verdict = "unassessed"
      BY <2>4, <3>2, Unassessed DEF Soundly, GovernedFor
    <3> QED
      BY <2>2, <3>1, <3>2
  <2> QED
    BY <1>5, <2>3, <2>4
<1>6. Registered' => Decide(verdicts') \in Agents
  BY DEF Registered, Decide
<1> QED
  BY <1>4, <1>5, <1>6 DEF CardsInv

LEMMA BlocksStep ==
    ASSUME TypeOK, NEW f \in Findings, NEW s \in SUBSET Scans, Soundly(f, s),
           Collect(f), covers' = covers \cup s, UNCHANGED scan, BlocksInv
    PROVE  BlocksInv'
<1>1. SUFFICES ASSUME AllApplicable(covers \cup s), NEW x \in covers \cup s
               PROVE  /\ scan[x].interval.floor <= blocks'.floor
                      /\ scan[x].interval.ceiling <= blocks'.ceiling
                      /\ scan[x].interval.oversight <= blocks'.oversight
                      /\ scan[x].interval.initiation <= blocks'.initiation
  BY DEF BlocksInv, AllApplicable
<1>2. AllApplicable(covers) /\ AllApplicable(s)
  BY <1>1 DEF AllApplicable
<1>3. f.interval \in Intervals /\ blocks \in Intervals /\ x \in Scans
  BY DEF Findings, TypeOK
<1>4. scan[x].interval \in Intervals
  BY <1>3 DEF TypeOK, Findings
<1>5. blocks' = Widest(blocks, f.interval)
  BY DEF Collect
<1>6. blocks' \in Intervals
  BY <1>3, <1>5, WidestAdmits
<1>7. CASE x \in covers
  <2>1. /\ scan[x].interval.floor <= blocks.floor
        /\ scan[x].interval.ceiling <= blocks.ceiling
        /\ scan[x].interval.oversight <= blocks.oversight
        /\ scan[x].interval.initiation <= blocks.initiation
    BY <1>2, <1>7 DEF BlocksInv
  <2>2. /\ blocks.floor <= blocks'.floor
        /\ blocks.ceiling <= blocks'.ceiling
        /\ blocks.oversight <= blocks'.oversight
        /\ blocks.initiation <= blocks'.initiation
    BY <1>3, <1>5, WidestAdmits
  <2> QED
    BY <1>3, <1>4, <1>6, <2>1, <2>2 DEF Intervals, Bounds, Levels
<1>8. CASE x \in s
  <2>1. /\ scan[x].interval.floor <= f.interval.floor
        /\ scan[x].interval.ceiling <= f.interval.ceiling
        /\ scan[x].interval.oversight <= f.interval.oversight
        /\ scan[x].interval.initiation <= f.interval.initiation
    BY <1>2, <1>8 DEF Soundly, AdmitsFor
  <2>2. /\ f.interval.floor <= blocks'.floor
        /\ f.interval.ceiling <= blocks'.ceiling
        /\ f.interval.oversight <= blocks'.oversight
        /\ f.interval.initiation <= blocks'.initiation
    BY <1>3, <1>5, WidestAdmits
  <2> QED
    BY <1>3, <1>4, <1>6, <2>1, <2>2 DEF Intervals, Bounds, Levels
<1> QED
  BY <1>1, <1>7, <1>8

LEMMA LevelsStep ==
    ASSUME TypeOK, ScanInv, NEW f \in Findings, NEW s \in SUBSET Scans, Soundly(f, s),
           Collect(f), covers' = covers \cup s, UNCHANGED scan, VerdictsInv, LevelsInv
    PROVE  LevelsInv'
<1>1. \A a \in Agents :
         levels'[a] = IF f.verdict = a THEN Smaller(levels[a], f.level) ELSE levels[a]
  BY DEF Collect, LowerLevels
<1>2. verdicts' = IF f.verdict = "unassessed" THEN verdicts ELSE verdicts \cup {f.verdict}
  BY DEF Collect
<1>3. \A a \in Agents \ verdicts' : levels'[a] = NoLevel
  BY <1>1, <1>2, NamesAssumption DEF LevelsInv
<1>4. ASSUME AllApplicable(covers \cup s), NEW a \in Agents, Decide(verdicts') = a
      PROVE  /\ \A x \in covers \cup s : levels'[a] <= scan[x].level
             /\ \E x \in covers \cup s : levels'[a] = scan[x].level
  <2>1. Join(Decide(verdicts), f.verdict) = a
    BY <1>4, VerdictsStep
  <2>2. /\ Decide(verdicts) \in {a, "unassessed"} /\ f.verdict \in {a, "unassessed"}
        /\ Decide(verdicts) = a \/ f.verdict = a
    BY <2>1, JoinInAgent
  <2>3. AllApplicable(covers) /\ AllApplicable(s)
    BY <1>4 DEF AllApplicable
  <2>4. /\ levels[a] \in 0 .. 6 /\ f.level \in 0 .. 6
        /\ \A x \in covers \cup s : scan[x].level \in 0 .. 6
    BY DEF TypeOK, Findings, Levels, NoLevel
  <2>5. Decide(verdicts) = a => /\ \A x \in covers : levels[a] <= scan[x].level
                                /\ \E x \in covers : levels[a] = scan[x].level
    BY <2>3 DEF LevelsInv
  <2>6. f.verdict = a => /\ \A x \in s : f.level <= scan[x].level
                         /\ \E x \in s : f.level = scan[x].level
    BY <2>3 DEF Soundly, AdmitsFor
  <2>7. Decide(verdicts) = "unassessed" =>
           levels[a] = NoLevel /\ \A x \in covers : scan[x].level = NoLevel
    <3>1. SUFFICES ASSUME Decide(verdicts) = "unassessed"
                   PROVE  levels[a] = NoLevel /\ \A x \in covers : scan[x].level = NoLevel
      OBVIOUS
    <3>2. verdicts = {}
      BY <3>1, DecideCases DEF TypeOK, Marks
    <3>3. \A x \in covers : scan[x].level = NoLevel
      BY <3>1, Unassessed DEF VerdictsInv, TypeOK
    <3> QED
      BY <3>2, <3>3 DEF LevelsInv
  <2>8. f.verdict = "unassessed" => \A x \in s : scan[x].level = NoLevel
    BY Unassessed DEF Soundly, GovernedFor
  <2>9. CASE Decide(verdicts) = a /\ f.verdict = a
    BY <1>1, <2>4, <2>5, <2>6, <2>9 DEF Smaller
  <2>10. CASE Decide(verdicts) = a /\ f.verdict = "unassessed"
    <3>1. levels'[a] = levels[a]
      BY <1>1, <2>10, NamesAssumption
    <3> QED
      BY <2>4, <2>5, <2>8, <2>10, <3>1 DEF NoLevel
  <2>11. CASE Decide(verdicts) = "unassessed" /\ f.verdict = a
    <3>1. levels'[a] = f.level
      BY <1>1, <2>4, <2>7, <2>11 DEF Smaller, NoLevel
    <3> QED
      BY <2>4, <2>6, <2>7, <2>11, <3>1 DEF NoLevel
  <2> QED
    BY <2>2, <2>9, <2>10, <2>11, NamesAssumption
<1>5. Decide(verdicts)' = Decide(verdicts')
  BY DEF Decide
<1> QED
  BY <1>3, <1>4, <1>5 DEF LevelsInv, AllApplicable

\* A sound finding that is read leaves what is collected in agreement with the covered scans.
LEMMA CollectedStep ==
    ASSUME TypeOK, ScanInv, Collected, NEW r, NEW f \in Findings,
           NEW s \in SUBSET Scans, Soundly(f, s), Read(r, f, s), phase' = "reading"
    PROVE  Collected'
<1>1. /\ Collect(f) /\ covers' = covers \cup s /\ UNCHANGED scan /\ read' # {}
      /\ \/ current = None /\ current' = f
         \/ /\ current # None /\ current.identity = f.identity
            /\ current' = Merged(current, f)
  BY DEF Read
<1>2. VerdictsInv' /\ CardsInv' /\ BlocksInv' /\ LevelsInv'
  BY <1>1, VerdictsStep, CardsStep, BlocksStep, LevelsStep DEF Collected
<1>3. ClassifiedFor(f, s) /\ (f.card # None => f.verdict \in Agents)
  BY DEF Soundly, GovernedFor
<1>4. cards' = IF f.card # None THEN cards \cup {f.card} ELSE cards
  BY <1>1, <1>3 DEF Collect
<1>5. CASE read = {}
  <2>1. covers = {} /\ cards = {} /\ current' = f
    BY <1>1, <1>5 DEF TypeOK, Collected, CurrentInv
  <2>2. covers' = s
    BY <1>1, <2>1
  <2>3. scan' = scan
    BY <1>1
  <2>4. ClassifiedFor(current, covers)'
    BY <1>3, <2>1, <2>2, <2>3 DEF ClassifiedFor
  <2>5. IF current'.card = None THEN cards' = {} ELSE current'.card \in cards'
    BY <1>4, <2>1
  <2> QED
    BY <1>1, <1>2, <2>4, <2>5 DEF CurrentInv, Collected
<1>6. CASE read # {}
  <2>1. current \in Findings /\ covers \in SUBSET Scans
    BY <1>6 DEF TypeOK
  <2>2. /\ ClassifiedFor(current, covers)
        /\ IF current.card = None THEN cards = {} ELSE current.card \in cards
    BY <1>6 DEF Collected, CurrentInv
  <2>3. current # None
    BY <1>6 DEF TypeOK
  <2>4. current.identity = f.identity /\ current' = Merged(current, f)
    BY <1>1, <2>3
  <2>5. ClassifiedFor(Merged(current, f), covers \cup s)
    BY <1>3, <2>1, <2>2, <2>4, MergedClassified
  <2>6. ClassifiedFor(current, covers)'
    BY <1>1, <2>4, <2>5 DEF ClassifiedFor
  <2>7. current'.card = IF current.card = None THEN f.card ELSE current.card
    BY <2>4 DEF Merged
  <2>8. IF current'.card = None THEN cards' = {} ELSE current'.card \in cards'
    BY <1>4, <2>2, <2>7
  <2> QED
    BY <1>1, <1>2, <2>6, <2>8 DEF CurrentInv, Collected
<1> QED
  BY <1>2, <1>5, <1>6 DEF Collected

----------------------------------------------------------------------------
(* The invariant *)

\* A scan's own finding stands for that scan.
LEMMA ScanSound ==
    ASSUME TypeOK, ScanInv, NEW x \in Scans
    PROVE  Soundly(scan[x], {x})
<1> DEFINE f == scan[x]
<1>1. f \in Findings
  BY DEF TypeOK
<1>2. f.kinds = {} /\ (f.verdict \notin Agents => f.card = None /\ f.level = NoLevel)
  BY DEF ScanInv
<1>3. ClassifiedFor(f, {x})
  <2>1. Rank(f.kind) <= Rank(f.kind) /\ f.risk <= f.risk
    BY <1>1 DEF Findings, Rank
  <2> QED
    BY <1>2, <2>1 DEF ClassifiedFor
<1>4. f.verdict = Decide(Verdicts({x}))
  <2>1. f.verdict \in Marks \cup {"unassessed"}
    BY <1>1 DEF Findings, Marks
  <2>2. Verdicts({x}) = {f.verdict} \ {"unassessed"} /\ Verdicts({x}) \in SUBSET Marks
    BY <2>1 DEF Verdicts
  <2>3. CASE f.verdict = "unassessed"
    BY <2>2, <2>3, DecideCases
  <2>4. CASE f.verdict \in Agents
    <3>1. Verdicts({x}) = {f.verdict}
      BY <2>2, <2>4, NamesAssumption
    <3> QED
      BY <2>2, <2>4, <3>1, DecideCases
  <2>5. CASE f.verdict = "shadow"
    <3>1. Verdicts({x}) = {"shadow"} /\ \A a \in Agents : Verdicts({x}) # {a}
      BY <2>2, <2>5, NamesAssumption
    <3> QED
      BY <2>2, <2>5, <3>1, DecideCases
  <2> QED
    BY <2>1, <2>3, <2>4, <2>5 DEF Marks
<1>5. GovernedFor(f, {x})
  BY <1>2, <1>4 DEF GovernedFor
<1>6. AdmitsFor(f, {x})
  BY <1>1, <1>2 DEF AdmitsFor, Findings, Intervals, Bounds, Levels, NoLevel
<1> QED
  BY <1>3, <1>5, <1>6 DEF Soundly

\* What the collected evidence says of a finding is what its scans say.
LEMMA ResultSound ==
    ASSUME TypeOK, Collected, ScanInv, read # {}, ~Conflict
    PROVE  Soundly(MergedFinding, covers)
<1> DEFINE m == MergedFinding
<1>1. current \in Findings /\ covers \in SUBSET Scans /\ covers # {}
  BY DEF TypeOK
<1>2. m \in Findings
  BY MergedFindingTyped
<1>3. /\ ClassifiedFor(current, covers)
      /\ IF current.card = None THEN cards = {} ELSE current.card \in cards
  BY DEF Collected, CurrentInv
<1>4. /\ m.identity = current.identity /\ m.kind = current.kind /\ m.kinds = current.kinds
      /\ m.risk = current.risk /\ m.whole = current.whole /\ m.reconciled = current.reconciled
      /\ m.verdict = Decide(verdicts)
      /\ m.card = IF Registered THEN current.card ELSE None
      /\ m.level = IF Registered /\ Applicable(current.kind) THEN levels[Decide(verdicts)]
                   ELSE NoLevel
      /\ m.interval = MergedInterval(current, blocks)
  BY <1>1 DEF MergedFinding, Findings
<1> HIDE DEF m
<1>5. ClassifiedFor(m, covers)
  BY <1>3, <1>4 DEF ClassifiedFor
<1>6. GovernedFor(m, covers)
  <2>1. m.verdict = Decide(Verdicts(covers))
    BY <1>4 DEF Collected, VerdictsInv
  <2>2. CASE Registered
    <3>1. \A c, d \in cards : c = d
      BY <2>2 DEF Conflict
    <3>2. m.card = current.card
      BY <1>4, <2>2
    <3>3. \A x \in covers : scan[x].card \in {None, m.card}
      BY <1>3, <2>2, <3>1, <3>2 DEF Collected, CardsInv
    <3>4. m.card = None \/ \E x \in covers : scan[x].card = m.card
      BY <1>3, <3>2 DEF Collected, CardsInv
    <3>5. m.verdict \in Agents
      BY <1>4, <2>2 DEF Registered
    <3> QED
      BY <2>1, <3>3, <3>4, <3>5 DEF GovernedFor
  <2>3. CASE ~Registered
    BY <1>4, <2>1, <2>3 DEF GovernedFor, Registered
  <2> QED
    BY <2>2, <2>3
<1>7. AdmitsFor(m, covers)
  <2>1. SUFFICES ASSUME AllApplicable(covers)
                 PROVE  /\ \A x \in covers :
                             /\ scan[x].interval.floor <= m.interval.floor
                             /\ scan[x].interval.ceiling <= m.interval.ceiling
                             /\ scan[x].interval.oversight <= m.interval.oversight
                             /\ scan[x].interval.initiation <= m.interval.initiation
                        /\ m.verdict \in Agents =>
                             /\ \A x \in covers : m.level <= scan[x].level
                             /\ \E x \in covers : m.level = scan[x].level
                        /\ m.verdict \notin Agents => m.level = NoLevel
    BY DEF AdmitsFor
  <2>2. Applicable(current.kind)
    BY <1>3, <2>1 DEF ClassifiedFor, AllApplicable
  <2>3. /\ blocks.floor <= m.interval.floor
        /\ blocks.ceiling <= m.interval.ceiling
        /\ blocks.oversight <= m.interval.oversight
        /\ blocks.initiation <= m.interval.initiation
    BY <1>1, <1>4, <2>2, MergedIntervalTyped DEF TypeOK
  <2>4. ASSUME NEW x \in covers
        PROVE  /\ scan[x].interval.floor <= m.interval.floor
               /\ scan[x].interval.ceiling <= m.interval.ceiling
               /\ scan[x].interval.oversight <= m.interval.oversight
               /\ scan[x].interval.initiation <= m.interval.initiation
    <3>1. scan[x].interval \in Intervals /\ blocks \in Intervals /\ m.interval \in Intervals
      BY <1>1, <1>2 DEF TypeOK, Findings
    <3>2. /\ scan[x].interval.floor <= blocks.floor
          /\ scan[x].interval.ceiling <= blocks.ceiling
          /\ scan[x].interval.oversight <= blocks.oversight
          /\ scan[x].interval.initiation <= blocks.initiation
      BY <2>1 DEF Collected, BlocksInv
    <3> QED
      BY <2>3, <3>1, <3>2 DEF Intervals, Bounds, Levels
  <2>5. ASSUME m.verdict \in Agents
        PROVE  /\ \A x \in covers : m.level <= scan[x].level
               /\ \E x \in covers : m.level = scan[x].level
    <3>1. Registered /\ m.level = levels[m.verdict] /\ Decide(verdicts) = m.verdict
      BY <1>4, <2>2, <2>5 DEF Registered
    <3> QED
      BY <2>1, <2>5, <3>1 DEF Collected, LevelsInv
  <2>6. m.verdict \notin Agents => m.level = NoLevel
    BY <1>4 DEF Registered
  <2> QED
    BY <2>4, <2>5, <2>6
<1> QED
  BY <1>5, <1>6, <1>7 DEF Soundly, m

LEMMA InvariantInit == Init => IInv
<1> SUFFICES ASSUME Init PROVE IInv
  OBVIOUS
<1>1. \A x \in Scans : \E o \in Observations : scan[x] = [o EXCEPT !.interval = IntervalOf(o)]
  BY DEF Init
<1>2. ASSUME NEW x \in Scans
      PROVE  /\ scan[x] \in Findings
             /\ scan[x].kinds = {}
             /\ scan[x].verdict \notin Agents => scan[x].card = None /\ scan[x].level = NoLevel
  <2>1. PICK o \in Observations : scan[x] = [o EXCEPT !.interval = IntervalOf(o)]
    BY <1>1
  <2>2. o \in Findings /\ o.kinds = {}
        /\ (o.verdict \notin Agents => o.card = None /\ o.level = NoLevel)
    BY ObservationsAssumption
  <2>3. IntervalOf(o) \in Intervals
    BY <2>2, IntervalTyped
  <2> QED
    BY <2>1, <2>2, <2>3 DEF Findings
<1>3. TypeOK
  <2>1. scan \in [Scans -> Findings]
    BY <1>2 DEF Init
  <2> QED
    BY <2>1, NoIntervalTyped, NamesAssumption DEF Init, TypeOK
<1>4. ScanInv
  BY <1>2 DEF ScanInv
<1>5. Decide({}) \notin Agents
  BY NamesAssumption DEF Decide
<1>6. Collected
  <2>1. verdicts = {} /\ covers = {} /\ cards = {} /\ read = {}
        /\ levels = [a \in Agents |-> NoLevel]
    BY DEF Init
  <2>2. Verdicts(covers) = {}
    BY <2>1 DEF Verdicts
  <2> QED
    BY <1>5, <2>1, <2>2 DEF Collected, CurrentInv, VerdictsInv, CardsInv, BlocksInv, LevelsInv,
                            Registered
<1> QED
  BY <1>3, <1>4, <1>6 DEF IInv, Init, FleetInv, MergeSound, NothingHidden

\* Reading a sound finding, of a scan or of a fleet report.
LEMMA ReadStep ==
    ASSUME IInv, NEW r \in Scans \cup {None}, NEW f \in Findings, NEW s \in SUBSET Scans,
           s # {}, Soundly(f, s), Read(r, f, s)
    PROVE  IInv'
<1>1. TypeOK'
  BY ReadTyped DEF IInv
<1>2. UNCHANGED <<scan, fleet>> /\ phase = "reading" /\ phase' \in {"reading", "refused"}
  BY DEF Read
<1>3. ScanInv'
  BY <1>2 DEF IInv, ScanInv
<1>4. FleetInv'
  BY <1>2 DEF IInv, FleetInv, Soundly, ClassifiedFor, GovernedFor, AdmitsFor, AllApplicable,
              Verdicts
<1>5. phase' = "reading" => Collected'
  BY <1>2, CollectedStep DEF IInv
<1>6. MergeSound'
  <2>1. SUFFICES ASSUME phase' = "refused"
                 PROVE  \E x, y \in covers' : scan[x].identity # scan[y].identity
    BY <1>2 DEF MergeSound
  <2>2. /\ current # None /\ current.identity # f.identity
        /\ covers' = covers \cup s
    BY <1>2, <2>1 DEF Read
  <2>3. read # {}
    BY <2>2 DEF IInv, TypeOK
  <2>4. ClassifiedFor(current, covers)
    BY <1>2, <2>3 DEF IInv, Collected, CurrentInv
  <2>5. PICK x \in covers : scan[x].identity = current.identity
    BY <2>4 DEF ClassifiedFor
  <2>6. PICK y \in s : scan[y].identity = f.identity
    BY DEF Soundly, ClassifiedFor
  <2> QED
    BY <2>2, <2>5, <2>6
<1>7. NothingHidden'
  BY <1>2 DEF NothingHidden
<1> QED
  BY <1>1, <1>3, <1>4, <1>5, <1>6, <1>7 DEF IInv

LEMMA RefuseCardsStep == IInv /\ RefuseCards => IInv'
<1> SUFFICES ASSUME IInv, RefuseCards PROVE IInv'
  OBVIOUS
<1>1. UNCHANGED <<scan, fleet, read, current, verdicts, cards, blocks, levels, result, covers, merges, history>>
      /\ phase = "reading" /\ phase' = "refused" /\ Conflict /\ read # {}
  BY DEF RefuseCards, collected
<1>2. TypeOK' /\ ScanInv' /\ NothingHidden'
  BY <1>1 DEF IInv, TypeOK, ScanInv, NothingHidden
<1>3. FleetInv'
  BY <1>1 DEF IInv, FleetInv, Soundly, ClassifiedFor, GovernedFor, AdmitsFor, AllApplicable,
              Verdicts
<1>4. MergeSound'
  <2>1. PICK c \in cards, d \in cards : c # d
    BY <1>1 DEF Conflict
  <2>2. \A e \in cards : e \in Cards /\ \E x \in covers : scan[x].card = e
    BY <1>1 DEF IInv, TypeOK, Collected, CardsInv
  <2>3. PICK x \in covers : scan[x].card = c
    BY <2>1, <2>2
  <2>4. PICK y \in covers : scan[y].card = d
    BY <2>1, <2>2
  <2>5. Decide(Verdicts(covers)) \in Agents
    BY <1>1 DEF IInv, Collected, VerdictsInv, Conflict, Registered
  <2>6. Decide(Verdicts(covers))' = Decide(Verdicts(covers))
    BY <1>1 DEF Decide, Verdicts
  <2>7. {scan[x].card, scan[y].card} \subseteq Cards /\ scan[x].card # scan[y].card
    BY <2>1, <2>2, <2>3, <2>4
  <2> QED
    BY <1>1, <2>5, <2>6, <2>7 DEF MergeSound
<1> QED
  BY <1>1, <1>2, <1>3, <1>4 DEF IInv

LEMMA FinishStep == IInv /\ Finish => IInv'
<1> SUFFICES ASSUME IInv, Finish PROVE IInv'
  OBVIOUS
<1>1. UNCHANGED <<scan, fleet, read, current, verdicts, cards, blocks, levels, covers, merges>>
      /\ phase = "reading" /\ phase' = "merged" /\ ~Conflict /\ read # {}
      /\ result' = MergedFinding
  BY DEF Finish, collected
<1>2. Soundly(MergedFinding, covers)
  BY <1>1, ResultSound DEF IInv
<1>3. TypeOK'
  <2>1. MergedFinding \in Findings
    BY <1>1, MergedFindingTyped DEF IInv
  <2>2. MergedFinding.interval \in Intervals
    BY <2>1 DEF Findings
  <2>3. history' \subseteq [of : SUBSET Scans, interval : Intervals]
    BY <2>2 DEF Finish, IInv, TypeOK
  <2> HIDE DEF MergedFinding
  <2> QED
    BY <1>1, <2>1, <2>3 DEF IInv, TypeOK
<1>4. ScanInv'
  BY <1>1 DEF IInv, ScanInv
<1>5. FleetInv'
  BY <1>1 DEF IInv, FleetInv, Soundly, ClassifiedFor, GovernedFor, AdmitsFor, AllApplicable,
              Verdicts
<1>6. MergeSound' /\ NothingHidden'
  BY <1>1, <1>2 DEF Soundly, MergeSound, NothingHidden, ClassifiedFor, GovernedFor, AdmitsFor,
                    AllApplicable, Verdicts
<1> QED
  BY <1>1, <1>3, <1>4, <1>5, <1>6 DEF IInv

LEMMA AgainStep == IInv /\ Again => IInv'
<1> SUFFICES ASSUME IInv, Again PROVE IInv'
  OBVIOUS
<1>1. /\ scan' = scan /\ history' = history /\ phase' = "reading" /\ merges' = merges + 1
      /\ merges < MaxMerges /\ result' = None
      /\ \/ fleet' = fleet
         \/ phase = "merged" /\ fleet' = [finding |-> result, covers |-> covers]
      /\ read' = {} /\ covers' = {} /\ current' = None /\ verdicts' = {} /\ cards' = {}
      /\ blocks' = NoInterval /\ levels' = [a \in Agents |-> NoLevel]
  BY DEF Again
<1>2. phase = "merged" => Soundly(result, covers) /\ result \in Findings /\ covers # {}
                          /\ covers \subseteq Scans
  BY DEF IInv, MergeSound, NothingHidden, Soundly, TypeOK, ClassifiedFor
<1>3. TypeOK'
  <2>1. fleet' = None \/ fleet' \in [finding : Findings, covers : (SUBSET Scans) \ {{}}]
    <3>1. CASE fleet' = fleet
      BY <3>1 DEF IInv, TypeOK
    <3>2. CASE phase = "merged" /\ fleet' = [finding |-> result, covers |-> covers]
      <4>1. result \in Findings /\ covers \in (SUBSET Scans) \ {{}}
        BY <1>2, <3>2
      <4> HIDE DEF Findings
      <4> QED
        BY <3>2, <4>1
    <3> QED
      BY <1>1, <3>1, <3>2
  <2>2. merges' \in 0 .. MaxMerges
    BY <1>1, NamesAssumption DEF IInv, TypeOK
  <2> QED
    BY <1>1, <2>1, <2>2, NoIntervalTyped DEF IInv, TypeOK
<1>4. ScanInv'
  BY <1>1 DEF IInv, ScanInv
<1>5. FleetInv'
  <2>1. CASE fleet' = fleet
    BY <1>1, <2>1 DEF IInv, FleetInv, Soundly, ClassifiedFor, GovernedFor, AdmitsFor,
                      AllApplicable, Verdicts
  <2>2. CASE phase = "merged" /\ fleet' = [finding |-> result, covers |-> covers]
    <3>1. fleet'.finding = result /\ fleet'.covers = covers
      BY <2>2
    <3> QED
      BY <1>1, <1>2, <2>2, <3>1 DEF FleetInv, Soundly, ClassifiedFor, GovernedFor, AdmitsFor,
                                    AllApplicable, Verdicts
  <2> QED
    BY <1>1, <2>1, <2>2
<1>6. Collected'
  <2>1. Decide({}) \notin Agents
    BY NamesAssumption DEF Decide
  <2>2. Verdicts(covers)' = {}
    BY <1>1 DEF Verdicts
  <2>3. VerdictsInv'
    BY <1>1, <2>2 DEF VerdictsInv, Decide
  <2>4. Decide(verdicts)' = Decide({})
    BY <1>1 DEF Decide
  <2> QED
    BY <1>1, <2>1, <2>3, <2>4 DEF Collected, CurrentInv, CardsInv, BlocksInv, LevelsInv,
                                  Registered
<1>7. MergeSound' /\ NothingHidden'
  BY <1>1 DEF MergeSound, NothingHidden
<1> QED
  BY <1>3, <1>4, <1>5, <1>6, <1>7 DEF IInv

LEMMA InvariantStep == IInv /\ [Next]_vars => IInv'
<1> SUFFICES ASSUME IInv, [Next]_vars PROVE IInv'
  OBVIOUS
<1>1. ASSUME NEW x \in Scans, ReadScan(x) PROVE IInv'
  <2>1. scan[x] \in Findings /\ Soundly(scan[x], {x})
    BY ScanSound DEF IInv, TypeOK
  <2>2. {x} \in SUBSET Scans /\ {x} # {}
    OBVIOUS
  <2> QED
    BY <1>1, <2>1, <2>2, ReadStep DEF ReadScan
<1>2. CASE ReadFleet
  <2>1. fleet # None /\ fleet \in [finding : Findings, covers : (SUBSET Scans) \ {{}}]
    BY <1>2 DEF ReadFleet, IInv, TypeOK
  <2>2. Soundly(fleet.finding, fleet.covers)
    BY <2>1 DEF IInv, FleetInv
  <2> QED
    BY <1>2, <2>1, <2>2, ReadStep DEF ReadFleet
<1>3. CASE UNCHANGED vars
  BY <1>3 DEF IInv, vars, collected, TypeOK, ScanInv, FleetInv, Collected, CurrentInv, VerdictsInv,
              CardsInv, Registered, BlocksInv, LevelsInv, MergeSound, NothingHidden,
              ClassifiedFor, GovernedFor, AdmitsFor, AllApplicable, Verdicts, Soundly
<1> QED
  BY <1>1, <1>2, <1>3, RefuseCardsStep, FinishStep, AgainStep DEF Next

THEOREM Invariant == Spec => []IInv
<1>1. Init => IInv
  BY InvariantInit
<1>2. IInv /\ [Next]_vars => IInv'
  BY InvariantStep
<1> QED
  BY <1>1, <1>2, PTL DEF Spec

----------------------------------------------------------------------------
\* Every finding read or merged is well formed, in any number of merges of any reports; no
\* interval is ever empty.  (_classify, merged_autonomy)
THEOREM TypeCorrect == Spec => []TypeOK
<1>1. IInv => TypeOK
  BY DEF IInv
<1> QED
  BY <1>1, Invariant, PTL

\* Registration, classification, risk and governance of a merged finding are decided by the set
\* of scans it stands for, whatever the order and grouping of the reports, and a merge is only
\* refused for disagreeing scans.  (merge_reports, _merge_registration)
THEOREM MergesAreSound == Spec => []MergeSound
<1>1. IInv => MergeSound
  BY DEF IInv
<1> QED
  BY <1>1, Invariant, PTL

\* The merged interval admits what every scan's interval admits, and the lowest declared level is
\* kept, through any number of merges.  (merge_autonomy)
THEOREM NothingIsHidden == Spec => []NothingHidden
<1>1. IInv => NothingHidden
  BY DEF IInv
<1> QED
  BY <1>1, Invariant, PTL

=============================================================================
