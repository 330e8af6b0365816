----------------------------- MODULE FleetMerge -----------------------------
(***************************************************************************)
(* merge_reports (shadowscan/fleet.py) for one finding that several        *)
(* reports describe: its classification, facts, registration, declared     *)
(* governance, risk and autonomy interval, as they are put together from   *)
(* reports read in any order.  A report is that of a scan or an earlier    *)
(* fleet report, so reports are also merged in any grouping, and a scan    *)
(* may count more than once.                                               *)
(*                                                                         *)
(* The code first reads every report and then folds the findings, in the   *)
(* same order (merge in shadowscan/merge.py); what it does with a report   *)
(* looks at nothing that later reports change, and is here one step.       *)
(* Texts, evidence, dates and the metadata that no property tells apart    *)
(* are left out.  Of the metadata for which the first report decides there *)
(* are two keys: the trigger and the approval gate.                        *)
(***************************************************************************)
EXTENDS Naturals

CONSTANTS
    Scans,
    Observations,   \* what a scan may report of the finding
    Agents,         \* of the inventories
    Cards,          \* governance facts that a card may declare
    Identities,     \* what the finding's own fields describe (compute_id)
    None,
    MaxMerges

Levels == 0 .. 5

\* No card declares a level.
NoLevel == 6

\* The ranks of oversight "bypassed" and of initiation "event".
Bypassed == 2
Event == 2

Kinds == {"agent-config", "bot-app", "cloud-resource", "workflow", "oauth-grant", "agent"}

\* _KIND_PRIORITY; kinds of the same priority in the order of their names.
Rank(k) ==
    IF k = "agent" THEN 5 ELSE IF k = "oauth-grant" THEN 4 ELSE IF k = "workflow" THEN 3
    ELSE IF k = "cloud-resource" THEN 2 ELSE IF k = "bot-app" THEN 1 ELSE 0

\* APPLICABLE_KINDS
Applicable(k) == k # "oauth-grant"

Larger(m, n) == IF m >= n THEN m ELSE n
Smaller(m, n) == IF m <= n THEN m ELSE n

Bounds == [floor : Levels, ceiling : Levels, oversight : 0 .. 2, initiation : 0 .. 3]

\* valid_autonomy
Intervals == {i \in Bounds : i.floor <= i.ceiling}

\* Without a block: each bound at its least.
NoInterval == [floor |-> 0, ceiling |-> 0, oversight |-> 0, initiation |-> 0]

Findings ==
    [identity : Identities,
     kind : Kinds,
     kinds : SUBSET Kinds,          \* metadata.observed_kinds
     facts : SUBSET {"autonomous", "tools", "acts", "multi", "bypass"},  \* capabilities and tags
     trigger : {"absent", "null", "event"},                     \* metadata.trigger
     gate : {"absent", "some-actions", "every-action"},         \* metadata.approval_gate
     verdict : Agents \cup {"unassessed", "shadow"},
     card : Cards \cup {None},      \* metadata.declared_governance
     level : Levels \cup {NoLevel}, \* declared in the interval, for the agent of the verdict
     interval : Intervals,
     risk : Nat,
     reconciled : BOOLEAN,          \* inventory_present of the report
     whole : BOOLEAN]               \* the report is complete, with a comparable scope

ASSUME NamesAssumption ==
    /\ None \notin Cards \cup Scans \cup Findings
    /\ Agents \cap {"unassessed", "shadow"} = {}
    /\ MaxMerges \in Nat

\* In a scan with an inventory every finding has a verdict, in one without none has; and only
\* the inventory entry that it matches declares anything.  (_reconcile_and_score, apply_autonomy)
ASSUME ObservationsAssumption ==
    \A o \in Observations :
        /\ o \in Findings
        /\ o.kinds = {}
        /\ o.reconciled <=> o.verdict # "unassessed"
        /\ o.verdict \notin Agents => o.card = None /\ o.level = NoLevel
        /\ ~Applicable(o.kind) => o.level = NoLevel

----------------------------------------------------------------------------
(* The autonomy interval *)

\* _trigger_initiation
Triggered(f) == f.trigger = "event"

\* _bypass_evidence: a setting, or the capability where no trigger explains it.
BypassEvidence(f) ==
    \/ "bypass" \in f.facts
    \/ "autonomous" \in f.facts /\ f.kind # "workflow" /\ ~Triggered(f)

\* _classify, with what other reports record of oversight and initiation.
Classify(f, oversight, initiation) ==
    LET bypassed == oversight = Bypassed \/ BypassEvidence(f)
        every == f.gate = "every-action" /\ ~bypassed
        started == Larger(initiation, IF Triggered(f) THEN Event ELSE 1)
        unapproved == bypassed /\ "acts" \in f.facts
        loop == \/ f.kind = "workflow" \/ "multi" \in f.facts
                \/ f.kind = "agent" /\ "tools" \in f.facts /\ ~every
        floor == IF unapproved THEN IF started >= Event THEN 5 ELSE 4
                 ELSE IF loop THEN 3
                 ELSE IF "acts" \in f.facts THEN 2
                 ELSE IF "tools" \in f.facts THEN 1 ELSE 0
    IN  [floor |-> floor,
         ceiling |-> IF every THEN Larger(2, floor) ELSE 5,
         oversight |-> IF bypassed THEN Bypassed ELSE IF f.gate # "absent" THEN 0 ELSE 1,
         initiation |-> started]

\* apply_autonomy
IntervalOf(f) == IF Applicable(f.kind) THEN Classify(f, 0, 0) ELSE NoInterval

Widest(i, j) ==
    [floor |-> Larger(i.floor, j.floor),
     ceiling |-> Larger(i.ceiling, j.ceiling),
     oversight |-> Larger(i.oversight, j.oversight),
     initiation |-> Larger(i.initiation, j.initiation)]

\* (Faulty variant: the merged finding is classified again, and no more.)
MergedAgain(f, blocks) ==
    IF Applicable(f.kind) THEN Classify(f, blocks.oversight, blocks.initiation) ELSE NoInterval

\* merged_autonomy
MergedInterval(f, blocks) ==
    IF Applicable(f.kind) THEN Widest(Classify(f, blocks.oversight, blocks.initiation), blocks)
    ELSE NoInterval

----------------------------------------------------------------------------
VARIABLES
    scan,           \* what each scan has reported
    fleet,          \* an earlier fleet report, with the scans it stands for, or None
    phase,          \* of the merge: "reading", "merged" or "refused"
    read,           \* the reports read, the fleet report as None
    \* merge: the first finding read, with what others have added to it
    current,
    \* merge_reports
    verdicts,       \* assessments_by_id
    cards,          \* declared_by_id
    blocks,         \* the widest of the intervals in autonomy_by_id
    levels,         \* for each agent the lowest level that an interval declares
    result,
    \* auxiliary
    covers,         \* the scans that the reports read stand for
    merges,
    history         \* the intervals of merges of scans

collected == <<current, verdicts, cards, blocks, levels>>
vars == <<scan, fleet, phase, read, collected, result, covers, merges, history>>

Init ==
    /\ scan \in [Scans -> {[o EXCEPT !.interval = IntervalOf(o)] : o \in Observations}]
    /\ fleet = None
    /\ phase = "reading"
    /\ read = {} /\ covers = {}
    /\ current = None
    /\ verdicts = {} /\ cards = {}
    /\ blocks = NoInterval
    /\ levels = [a \in Agents |-> NoLevel]
    /\ result = None
    /\ merges = 0 /\ history = {}

----------------------------------------------------------------------------
(* Reading a report *)

ObservedKinds(cur, f) == {cur.kind, f.kind} \cup cur.kinds \cup f.kinds

\* merge, for a finding that an earlier report describes too.
Merged(cur, f) ==
    [identity |-> cur.identity, verdict |-> cur.verdict,
     level |-> cur.level, interval |-> cur.interval,
     kind |-> IF Rank(f.kind) > Rank(cur.kind) THEN f.kind ELSE cur.kind,
     kinds |-> IF \E k, l \in ObservedKinds(cur, f) : k # l THEN ObservedKinds(cur, f)
               ELSE cur.kinds,
     facts |-> cur.facts \cup f.facts,
     trigger |-> IF cur.trigger = "absent" THEN f.trigger ELSE cur.trigger,
     gate |-> IF cur.gate = "absent" THEN f.gate ELSE cur.gate,
     card |-> IF cur.card = None THEN f.card ELSE cur.card,
     risk |-> Larger(cur.risk, f.risk),
     reconciled |-> cur.reconciled \/ f.reconciled,
     whole |-> cur.whole /\ f.whole]

LowerLevels(f) ==
    [a \in Agents |-> IF f.verdict = a THEN Smaller(levels[a], f.level) ELSE levels[a]]

\* (Faulty variant: of several assessments the last one counts.)
CollectLast(f) ==
    /\ verdicts' = IF f.verdict = "unassessed" THEN verdicts ELSE {f.verdict}
    /\ cards' = IF f.verdict \in Agents /\ f.card # None THEN cards \cup {f.card} ELSE cards
    /\ blocks' = Widest(blocks, f.interval)
    /\ levels' = LowerLevels(f)

\* The loop of merge_reports, and _assessment.
Collect(f) ==
    /\ verdicts' = IF f.verdict = "unassessed" THEN verdicts ELSE verdicts \cup {f.verdict}
    /\ cards' = IF f.verdict \in Agents /\ f.card # None THEN cards \cup {f.card} ELSE cards
    /\ blocks' = Widest(blocks, f.interval)
    /\ levels' = LowerLevels(f)

\* The finding f of report r, which stands for the scans s.
Read(r, f, s) ==
    /\ phase = "reading"
    /\ r \notin read
    /\ read' = read \cup {r}
    /\ covers' = covers \cup s
    /\ \/ /\ current = None
          /\ current' = f
          /\ Collect(f)
          /\ UNCHANGED phase
       \/ /\ current # None /\ current.identity = f.identity
          /\ current' = Merged(current, f)
          /\ Collect(f)
          /\ UNCHANGED phase
       \/ /\ current # None /\ current.identity # f.identity
          /\ phase' = "refused"
          /\ UNCHANGED collected
    /\ UNCHANGED <<scan, fleet, result, merges, history>>

ReadScan(s) == Read(s, scan[s], {s})

ReadFleet == fleet # None /\ Read(None, fleet.finding, fleet.covers)

----------------------------------------------------------------------------
(* The merged finding *)

\* _merge_registration
Decide(vs) ==
    IF vs = {} THEN "unassessed"
    ELSE IF \E a \in Agents : vs = {a} THEN CHOOSE a \in Agents : vs = {a}
    ELSE "shadow"

Registered == Decide(verdicts) \in Agents

\* Versions of the card that registers the finding disagree.
Conflict == Registered /\ \E c, d \in cards : c # d

RefuseCards ==
    /\ phase = "reading" /\ read # {}
    /\ Conflict
    /\ phase' = "refused"
    /\ UNCHANGED <<scan, fleet, read, collected, result, covers, merges, history>>

MergedFinding ==
    [current EXCEPT
       !.verdict = Decide(verdicts),
       !.card = IF Registered THEN @ ELSE None,
       !.level = IF Registered /\ Applicable(current.kind) THEN levels[Decide(verdicts)] ELSE NoLevel,
       !.interval = MergedInterval(current, blocks)]

Finish ==
    /\ phase = "reading" /\ read # {}
    /\ ~Conflict
    /\ phase' = "merged"
    /\ result' = MergedFinding
    /\ history' = IF None \in read THEN history
                  ELSE history \cup {[of |-> covers, interval |-> MergedFinding.interval]}
    /\ UNCHANGED <<scan, fleet, read, collected, covers, merges>>

\* The fleet report is kept or not, and another merge is begun.
Again ==
    /\ phase # "reading"
    /\ merges < MaxMerges
    /\ merges' = merges + 1
    /\ phase' = "reading"
    /\ \/ fleet' = fleet
       \/ phase = "merged" /\ fleet' = [finding |-> result, covers |-> covers]
    /\ result' = None
    /\ read' = {} /\ covers' = {}
    /\ current' = None
    /\ verdicts' = {} /\ cards' = {}
    /\ blocks' = NoInterval
    /\ levels' = [a \in Agents |-> NoLevel]
    /\ UNCHANGED <<scan, history>>

Next ==
    \/ \E s \in Scans : ReadScan(s)
    \/ ReadFleet \/ RefuseCards \/ Finish \/ Again

Spec == Init /\ [][Next]_vars

----------------------------------------------------------------------------
(* Properties *)

Verdicts(s) == {scan[x].verdict : x \in s} \ {"unassessed"}

\* Every finding that is read or merged is well formed: in particular no interval has its floor
\* above its ceiling, however observations, reports and gates combine.  (_classify,
\* merged_autonomy)
TypeOK ==
    /\ scan \in [Scans -> Findings]
    /\ fleet = None \/ fleet \in [finding : Findings, covers : (SUBSET Scans) \ {{}}]
    /\ phase \in {"reading", "merged", "refused"}
    /\ read \subseteq Scans \cup {None} /\ covers \subseteq Scans
    /\ IF read = {} THEN current = None ELSE current \in Findings \ {None} /\ covers # {}
    /\ verdicts \subseteq Agents \cup {"shadow"}
    /\ cards \subseteq Cards
    /\ blocks \in Intervals
    /\ levels \in [Agents -> Levels \cup {NoLevel}]
    /\ IF phase = "merged" THEN result \in Findings ELSE result = None
    /\ merges \in 0 .. MaxMerges
    /\ history \subseteq [of : SUBSET Scans, interval : Intervals]

\* What a finding that stands for the scans s must be.
ClassifiedFor(f, s) ==
    /\ \A x \in s : scan[x].identity = f.identity
    /\ \A x \in s : Rank(scan[x].kind) <= Rank(f.kind) /\ scan[x].risk <= f.risk
    /\ \E x \in s : scan[x].kind = f.kind
    /\ \E x \in s : scan[x].risk = f.risk
    /\ \A x, y \in s : scan[x].kind # scan[y].kind => f.kinds = {scan[z].kind : z \in s}
    /\ f.kinds = {} \/ \E x, y \in s : scan[x].kind # scan[y].kind
    /\ f.whole <=> \A x \in s : scan[x].whole
    /\ f.reconciled <=> \E x \in s : scan[x].reconciled

GovernedFor(f, s) ==
    /\ f.verdict = Decide(Verdicts(s))
    /\ f.verdict \in Agents =>
         /\ \A x \in s : scan[x].card \in {None, f.card}
         /\ f.card = None \/ \E x \in s : scan[x].card = f.card
    /\ f.verdict \notin Agents => f.card = None

\* A merged finding is decided by the set of scans it stands for: neither the order of the
\* reports, nor their grouping into fleet reports, nor one that is read twice makes a
\* difference to its registration, classification, risk or governance.  A merge is only refused
\* for scans of different things, or for one that they agree is registered while two of them
\* have different cards for it.  (merge_reports, _merge_registration, _merge_classification)
MergeSound ==
    /\ phase = "merged" => ClassifiedFor(result, covers) /\ GovernedFor(result, covers)
    /\ phase = "refused" =>
         \/ \E x, y \in covers : scan[x].identity # scan[y].identity
         \/ /\ Decide(Verdicts(covers)) \in Agents
            /\ \E x, y \in covers : /\ {scan[x].card, scan[y].card} \subseteq Cards
                                    /\ scan[x].card # scan[y].card

AllApplicable(s) == \A x \in s : Applicable(scan[x].kind)

\* What a finding that stands for the scans s admits.
AdmitsFor(f, s) ==
    AllApplicable(s) =>
      /\ \A x \in s :
           /\ scan[x].interval.floor <= f.interval.floor
           /\ scan[x].interval.ceiling <= f.interval.ceiling
           /\ scan[x].interval.oversight <= f.interval.oversight
           /\ scan[x].interval.initiation <= f.interval.initiation
      /\ f.verdict \in Agents =>
           /\ \A x \in s : f.level <= scan[x].level
           /\ \E x \in s : f.level = scan[x].level
      /\ f.verdict \notin Agents => f.level = NoLevel

\* Where every kind has autonomy, the merged interval admits whatever any of the scans admits,
\* however they were grouped, and keeps the lowest level declared for the one agent the finding
\* is registered to, which no unregistered finding keeps.  (merge_autonomy)
NothingHidden == phase = "merged" => AdmitsFor(result, covers)

\* "so the merged block does not depend on the order of the reports" (merge_autonomy): two
\* merges of the same scans agree on the interval.
OrderIndependent == \A m, n \in history : m.of = n.of => m.interval = n.interval

=============================================================================
