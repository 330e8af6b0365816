---------------------- MODULE ReportComparisonProofs ----------------------
(***************************************************************************)
(* That differences between comparable reports are real, and that accepted *)
(* reports do not widen step by step what was reviewed, for any things,    *)
(* connectors, parts, settings and any number of scans and changes.        *)
(*                                                                         *)
(* A scan without a gap has found whatever did not change in the parts it  *)
(* has read (ScanInv); so has a report that is complete, attested and not  *)
(* cut (Faithful), which makes its silence mean something.  Within is what *)
(* a difference that is not adverse amounts to, and it is transitive.      *)
(***************************************************************************)
EXTENDS ReportComparison, FiniteSetTheorems, TLAPS

\* Under which name a report with these settings lists a thing: one that all reports share, or
\* one of its own.
NamedUnder(s, t, name) ==
    IF Keyed(s, t) /\ s.key = NoKey THEN name \in Nat
    ELSE name = IF Keyed(s, t) THEN s.key ELSE None

\* A scan without a gap has found whatever has not changed in the parts it has read.
ScanInv ==
    /\ \A t \in Things : steady[t] # None => world[t] = steady[t]
    /\ used = None => todo = {}
    /\ used # None =>
         /\ attested => Attestable(used)
         /\ \A c \in Connectors, p \in Parts : <<c, p>> \in todo => p \in used.view[c]
         /\ \A t \in Things : found[t] # None => Part[t] \in used.view[Site[t]]
         /\ whole /\ attested =>
              \A t \in Things :
                Plainly(used, steady, t) /\ <<Site[t], Part[t]>> \notin todo => found[t] = steady[t]

\* So has a report that is complete, attested and not cut.
Faithful(r) ==
    /\ Cardinality(Reported(r.found)) <= r.total
    /\ r.scope # None =>
         /\ Attestable(r.scope)
         /\ \A t \in Things : r.found[t] # None => /\ Part[t] \in r.scope.view[Site[t]]
                                                 /\ NamedUnder(r.scope, t, r.names[t])
         /\ r.complete /\ SummaryMatches(r) =>
              \A t \in Things : Plainly(r.scope, r.steady, t) => r.found[t] = r.steady[t]

ReportsInv == \A r \in {baseline, current, origin} \ {None} : Faithful(r)

\* No accepted report says more of a finding than the one reviewed.
RenewalInv ==
    baseline # None =>
      /\ origin # None
      /\ \A t \in Things : baseline.found[t] # None =>
           origin.found[t] # None /\ Within(origin.found[t], baseline.found[t])

IInv == TypeOK /\ ScanInv /\ ReportsInv /\ RenewalInv

USE DEF Bounds

----------------------------------------------------------------------------
(* Drift *)

\* No finding widens itself.
LEMMA WithinReflexive == \A p \in Profiles : Within(p, p)
  BY ThingsAssumption DEF Within

\* Nor do two steps that do not widen one.
LEMMA WithinTransitive ==
  ASSUME NEW p \in Profiles, NEW q \in Profiles, NEW r \in Profiles, Within(p, q), Within(q, r)
  PROVE  Within(p, r)
<1>1. p.interval # None =>
        r.interval # None /\ \A x \in Bounds : r.interval[x] <= p.interval[x]
  <2> SUFFICES ASSUME p.interval # None
               PROVE  r.interval # None /\ \A x \in Bounds : r.interval[x] <= p.interval[x]
    OBVIOUS
  <2>1. q.interval # None /\ r.interval # None
    BY DEF Within
  <2>2. \A x \in Bounds : /\ p.interval[x] \in Nat /\ q.interval[x] \in Nat
                          /\ r.interval[x] \in Nat
    BY <2>1, ThingsAssumption
  <2>3. \A x \in Bounds : q.interval[x] <= p.interval[x] /\ r.interval[x] <= q.interval[x]
    BY <2>1 DEF Within
  <2> QED BY <2>1, <2>2, <2>3
<1>2. r.items \subseteq p.items /\ r.tags \subseteq p.tags \cup Mitigating
  BY DEF Within
<1>3. p.tags \cap Mitigating \subseteq r.tags
  BY DEF Within
<1> QED BY <1>1, <1>2, <1>3 DEF Within

\* What is not adverse does not widen.
LEMMA NotAdverseIsWithin ==
  ASSUME NEW p \in Profiles, NEW q \in Profiles, ~Adverse(p, q)
  PROVE  Within(p, q)
<1>1. p.kind = q.kind
  BY DEF Adverse
<1>2. /\ p.tool # None => q.tool = p.tool
      /\ q.items \subseteq p.items
      /\ p.tags \cap Mitigating \subseteq q.tags
  BY DEF Adverse, AdverseCapability, Direction
<1>3. q.tags \subseteq p.tags \cup Mitigating
  <2>1. Understated \notin q.tags \ p.tags
    BY DEF Adverse, AdverseGovernance
  <2>2. (q.tags \ p.tags) \ (Mitigating \cup {Understated}) = {}
    BY DEF Adverse, AdverseCapability
  <2> QED BY <2>1, <2>2
<1>4. p.interval # None =>
        q.interval # None /\ \A x \in Bounds : q.interval[x] <= p.interval[x]
  <2> SUFFICES ASSUME p.interval # None
               PROVE  q.interval # None /\ \A x \in Bounds : q.interval[x] <= p.interval[x]
    OBVIOUS
  <2>1. q.interval # None
    BY <1>1, ThingsAssumption
  <2>2. \A x \in Bounds : p.interval[x] \in Nat /\ q.interval[x] \in Nat
    BY <2>1, ThingsAssumption
  <2>3. \A x \in Bounds : ~(q.interval[x] > p.interval[x])
    BY <2>1 DEF Adverse, AdverseAutonomy
  <2> QED BY <2>1, <2>2, <2>3
<1>5. /\ p.owner # None => q.owner # None
      /\ q.shadow = "shadow" => p.shadow = "shadow"
      /\ p.match # None => q.match = p.match
      /\ q.status = "observed-not-registered" => p.status = "observed-not-registered"
      /\ p.status = "registered-and-observed" => q.status = "registered-and-observed"
  BY DEF Adverse, AdverseGovernance, Direction
<1> QED BY <1>1, <1>2, <1>3, <1>4, <1>5 DEF Within

----------------------------------------------------------------------------
(* Comparison *)

\* Looks that are reported are looks.
LEMMA DetectsLooks == \A s \in Settings : \A p \in Detects[s.rules] : p \in Profiles /\ p # None
  BY ThingsAssumption, SettingsAssumption

\* A finding of one comparable report, there throughout the other's scan, is in both, unless
\* its name means something in its own report only.
LEMMA FoundIsMatched ==
  ASSUME NEW b \in Report, NEW c \in Report, Faithful(b), Faithful(c),
         b.scope # None, b.scope = c.scope, c.complete, SummaryMatches(c),
         NEW t \in Things, b.found[t] # None, b.names[t] \notin Nat,
         c.steady[t] \in Detects[c.scope.rules]
  PROVE  c.found[t] # None /\ b.names[t] = c.names[t]
<1>1. /\ Part[t] \in c.scope.view[Site[t]]
      /\ ~(Keyed(c.scope, t) /\ c.scope.key = NoKey)
      /\ b.names[t] = IF Keyed(c.scope, t) THEN c.scope.key ELSE None
  BY DEF Faithful, NamedUnder
<1>2. c.found[t] = c.steady[t]
  BY <1>1 DEF Faithful, Plainly
<1>3. c.found[t] # None
  BY <1>2, DetectsLooks DEF Report
<1> QED BY <1>1, <1>3 DEF Faithful, NamedUnder

\* Faithful reports differ where the estate does.
LEMMA FaithfulDiffer ==
  ASSUME NEW b \in Report, NEW c \in Report, Faithful(b), Faithful(c)
  PROVE  /\ \A t \in Resolved(b, c) : c.steady[t] \notin Detects[b.scope.rules]
         /\ Comparable(b, c) => \A t \in New(b, c) : b.steady[t] \notin Detects[c.scope.rules]
<1>1. ASSUME NEW t \in Resolved(b, c), c.steady[t] \in Detects[b.scope.rules]
      PROVE  FALSE
  <2>1. Comparable(b, c) /\ t \in Unmatched(b, c) /\ t \notin Local(b)
    BY <1>1 DEF Resolved
  <2>2. t \in Things /\ b.found[t] # None /\ b.names[t] \notin Nat
    BY <2>1 DEF Unmatched, Reported, Local
  <2>3. c.found[t] # None /\ b.names[t] = c.names[t]
    BY <1>1, <2>1, <2>2, FoundIsMatched DEF Comparable
  <2> QED BY <2>1, <2>2, <2>3 DEF Unmatched, Both, Reported
<1>2. ASSUME Comparable(b, c), NEW t \in New(b, c), b.steady[t] \in Detects[c.scope.rules]
      PROVE  FALSE
  <2>1. t \in Things /\ c.found[t] # None /\ c.names[t] \notin Nat
    BY <1>2 DEF New, Unmatched, Reported, Local
  <2>2. b.found[t] # None /\ c.names[t] = b.names[t]
    BY <1>2, <2>1, FoundIsMatched DEF Comparable
  <2> QED BY <1>2, <2>1, <2>2 DEF New, Unmatched, Both, Reported
<1> QED BY <1>1, <1>2

\* A report that passes is within its baseline.
LEMMA PassesIsWithin ==
  ASSUME NEW b \in Report, NEW c \in Report, Passes(b, c),
         NEW t \in Things, c.found[t] # None
  PROVE  b.found[t] # None /\ Within(b.found[t], c.found[t])
<1>1. Comparable(b, c) /\ New(b, c) = {}
  BY DEF Passes
<1>2. t \notin Unmatched(c, b)
  BY <1>1 DEF New, Comparable
<1>3. t \in Both(b, c)
  BY <1>2 DEF Unmatched, Both, Reported
<1>4. b.found[t] # None /\ ~Adverse(b.found[t], c.found[t])
  BY <1>3 DEF Passes, Both, Reported
<1>5. b.found[t] \in Profiles /\ c.found[t] \in Profiles
  BY <1>4 DEF Report
<1> QED BY <1>4, <1>5, NotAdverseIsWithin

----------------------------------------------------------------------------
(* Types *)

\* The settings of a scan are settings.
LEMMA SettingsHave ==
  ASSUME NEW s \in Settings
  PROVE  /\ s.view \in [Connectors -> SUBSET Parts]
         /\ s.rules \in Rules /\ s.key \in Keys \cup {NoKey}
  BY SettingsAssumption

\* The first states are well typed.
LEMMA TypedFromStart == Init => TypeOK
<1>1. Nothing \in [Things -> Profiles \cup {None}]
  BY DEF Nothing
<1> SUFFICES ASSUME Init
             PROVE  TypeOK
  OBVIOUS
<1>2. todo \subseteq Connectors \X Parts
  BY DEF Init
<1>3. world \in [Things -> Profiles \cup {None}] /\ settings \in Settings /\ changes \in Nat
  BY DEF Init
<1>4. scans \in Nat /\ used \in Settings \cup {None} /\ whole \in BOOLEAN /\ attested \in BOOLEAN
  BY DEF Init
<1>5. found \in [Things -> Profiles \cup {None}] /\ steady \in [Things -> Profiles \cup {None}]
  BY <1>1 DEF Init
<1>6. baseline = None /\ current = None /\ origin = None
  BY DEF Init
<1> QED BY <1>2, <1>3, <1>4, <1>5, <1>6 DEF TypeOK

\* Every step keeps the types.
LEMMA TypeKept == TypeOK /\ [Next]_vars => TypeOK'
<1> USE ThingsAssumption
<1> SUFFICES ASSUME TypeOK, [Next]_vars
             PROVE  TypeOK'
  OBVIOUS
<1> USE DEF TypeOK
<1>1. ASSUME NEW t \in Things, NEW p \in Looks[t] \cup {None}, ChangeThing(t, p)
      PROVE  TypeOK'
  <2>1. p \in Profiles \cup {None}
    BY DEF Profiles
  <2>2. /\ world' = [world EXCEPT ![t] = p] /\ steady' = [steady EXCEPT ![t] = None]
        /\ changes' = changes + 1
    BY <1>1 DEF ChangeThing
  <2>3. /\ world' \in [Things -> Profiles \cup {None}]
        /\ steady' \in [Things -> Profiles \cup {None}]
        /\ changes' \in Nat
    BY <2>1, <2>2
  <2> QED BY <1>1, <2>3 DEF ChangeThing, scanVars, reportVars
<1>2. ASSUME NEW t \in Things, Omit(t)
      PROVE  TypeOK'
  BY <1>2 DEF Omit, worldVars, reportVars
<1>3. ASSUME NEW t \in Things, Cut(t)
      PROVE  TypeOK'
  <2>1. current \in Report
    BY <1>3 DEF Cut
  <2>2. current' = [current EXCEPT !.found = [current.found EXCEPT ![t] = None]]
    BY <1>3 DEF Cut
  <2>3. [current.found EXCEPT ![t] = None] \in [Things -> Profiles \cup {None}]
    BY <2>1 DEF Report
  <2>4. current' \in Report
    BY <2>1, <2>2, <2>3 DEF Report
  <2> QED BY <1>3, <2>4 DEF Cut, worldVars, scanVars
<1>4. ASSUME NEW s \in Settings, ChangeSettings(s)
      PROVE  TypeOK'
  BY <1>4 DEF ChangeSettings, scanVars, reportVars
<1>5. ASSUME NEW c \in Connectors, NEW p \in Parts, NEW seen, Read(c, p, seen)
      PROVE  todo' \subseteq Connectors \X Parts /\ found' \in [Things -> Profiles \cup {None}]
  BY <1>5 DEF Read
<1>6. ASSUME NEW c \in Connectors, NEW p \in Parts, Look(c, p)
      PROVE  TypeOK'
  BY <1>5, <1>6 DEF Look, worldVars, reportVars
<1>7. ASSUME NEW c \in Connectors, NEW p \in Parts, Fail(c, p)
      PROVE  TypeOK'
  BY <1>5, <1>7 DEF Fail, Unrecorded, worldVars, reportVars
<1>8. ASSUME NEW c \in Connectors, NEW p \in Parts, PassOver(c, p)
      PROVE  TypeOK'
  BY <1>5, <1>8 DEF PassOver, worldVars, reportVars
<1>9. ASSUME NEW c \in Connectors, TimeOut(c)
      PROVE  TypeOK'
  BY <1>9 DEF TimeOut, Unrecorded, worldVars, reportVars
<1>10. CASE Begin
  <2>1. todo' \subseteq Connectors \X Parts
    BY <1>10 DEF Begin
  <2>2. Attestable(settings) \in BOOLEAN
    BY DEF Attestable
  <2> QED BY <1>10, <2>1, <2>2 DEF Begin, Nothing, worldVars
<1>11. CASE Finish
  <2>1. Cardinality(Reported(found)) \in Nat
    BY FS_Subset, FS_CardinalityType DEF Reported
  <2>2. used \in Settings
    BY <1>11 DEF Finish
  <2>3. [t \in Things |-> Name(t)] \in [Things -> Keys \cup Nat \cup {None}]
    BY <2>2, SettingsHave DEF Name
  <2>4. \A public \in BOOLEAN : Scope(used, attested /\ public) \in Settings \cup {None}
    BY <2>2 DEF Scope
  <2>5. Selected(used) \subseteq Connectors
    BY DEF Selected
  <2>6. current' \in Report
    BY <1>11, <2>1, <2>3, <2>4, <2>5 DEF Finish, Report
  <2> QED BY <1>11, <2>6 DEF Finish, Nothing, worldVars
<1>12. CASE Accept
  BY <1>12 DEF Accept, worldVars, scanVars
<1>13. CASE Review
  BY <1>13 DEF Review, worldVars, scanVars
<1>14. CASE UNCHANGED vars
  BY <1>14 DEF vars, worldVars, scanVars, reportVars
<1> QED BY <1>1, <1>2, <1>3, <1>4, <1>6, <1>7, <1>8, <1>9, <1>10, <1>11, <1>12, <1>13, <1>14 DEF Next

\* Every reachable state is well typed.  (run, compare_reports)
THEOREM TypeCorrect == Spec => []TypeOK
  BY TypedFromStart, TypeKept, PTL DEF Spec

----------------------------------------------------------------------------
(* Invariance *)

\* Where nothing can be found that stays as it is, nothing is missed.
LEMMA StartsWell == Init => IInv
<1> SUFFICES ASSUME Init
             PROVE  IInv
  OBVIOUS
<1>1. TypeOK
  BY TypedFromStart
<1>2. ScanInv /\ ReportsInv /\ RenewalInv
  BY DEF Init, Nothing, ScanInv, ReportsInv, RenewalInv
<1> QED BY <1>1, <1>2 DEF IInv

\* What a part is read for is found, as far as it has not changed.
LEMMA ReadKeepsScanInv ==
  ASSUME IInv, NEW c \in Connectors, NEW p \in Parts, NEW seen \in SUBSET In(c, p), Read(c, p, seen),
         UNCHANGED <<world, steady, used>>, attested' => attested, whole' => whole,
         whole' /\ attested' => \A t \in In(c, p) : steady[t] # None => t \in seen
  PROVE  ScanInv'
<1> USE DEF IInv
<1>1. <<c, p>> \in todo /\ todo' = todo \ {<<c, p>>} /\ used # None /\ used \in Settings
  BY DEF Read, ScanInv, TypeOK
<1>2. found' = [t \in Things |-> IF t \in seen THEN world[t] ELSE found[t]]
  BY DEF Read
<1>3. ASSUME NEW t \in Things, found'[t] # None
      PROVE  Part[t] \in used.view[Site[t]]
  BY <1>1, <1>2, <1>3 DEF In, ScanInv
<1>4. ASSUME whole', attested', NEW t \in Things, Plainly(used, steady, t),
             <<Site[t], Part[t]>> \notin todo'
      PROVE  found'[t] = steady[t]
  <2>1. steady[t] # None /\ world[t] = steady[t]
    BY <1>1, <1>4, DetectsLooks DEF Plainly, ScanInv
  <2>2. CASE t \in seen
    BY <1>2, <2>1, <2>2
  <2>3. CASE t \notin seen
    <3>1. t \notin In(c, p)
      BY <1>4, <2>1, <2>3
    <3>2. world[t] \in Detects[used.rules]
      BY <1>4, <2>1 DEF Plainly
    <3>3. <<Site[t], Part[t]>> # <<c, p>>
      BY <3>1, <3>2 DEF In
    <3>4. <<Site[t], Part[t]>> \notin todo
      BY <1>1, <1>4, <3>3
    <3>5. found[t] = steady[t]
      BY <1>1, <1>4, <3>4 DEF ScanInv
    <3> QED BY <1>2, <2>3, <3>5
  <2> QED BY <2>2, <2>3
<1> QED BY <1>1, <1>3, <1>4 DEF ScanInv, Plainly, Attestable, Selected

\* Every step of a scan keeps what it knows of what it has read.
LEMMA ScanInvKept == IInv /\ [Next]_vars => ScanInv'
<1> SUFFICES ASSUME IInv, [Next]_vars
             PROVE  ScanInv'
  OBVIOUS
<1> USE DEF IInv
<1>1. ASSUME NEW t \in Things, NEW q \in Looks[t] \cup {None}, ChangeThing(t, q)
      PROVE  ScanInv'
  <2>1. /\ world' = [world EXCEPT ![t] = q] /\ steady' = [steady EXCEPT ![t] = None]
        /\ UNCHANGED <<used, todo, found, whole, attested>>
    BY <1>1 DEF ChangeThing, scanVars
  <2>2. \A u \in Things : steady'[u] # None => world'[u] = steady'[u]
    BY <2>1 DEF TypeOK, ScanInv
  <2>3. ASSUME used # None, NEW u \in Things, Plainly(used, steady', u)
        PROVE  Plainly(used, steady, u) /\ steady'[u] = steady[u]
    <3>1. steady'[u] # None
      BY <2>3, DetectsLooks DEF Plainly, TypeOK
    <3>2. u # t
      BY <2>1, <3>1 DEF TypeOK
    <3> QED BY <2>1, <2>3, <3>2 DEF Plainly, TypeOK
  <2> QED BY <2>1, <2>2, <2>3 DEF ScanInv, Plainly, Attestable, Selected
<1>2. ASSUME NEW t \in Things, Omit(t)
      PROVE  ScanInv'
  <2>1. /\ found' = [found EXCEPT ![t] = None] /\ whole' = FALSE
        /\ UNCHANGED <<world, steady, used, todo, attested>>
    BY <1>2 DEF Omit, worldVars
  <2> QED BY <2>1 DEF ScanInv, TypeOK, Attestable, Selected
<1>3. ASSUME UNCHANGED <<world, steady, scanVars>>
      PROVE  ScanInv'
  BY <1>3 DEF ScanInv, scanVars, Plainly, Attestable, Selected
<1>4. ASSUME NEW t \in Things, Cut(t)
      PROVE  ScanInv'
  BY <1>3, <1>4 DEF Cut, worldVars
<1>5. ASSUME NEW s \in Settings, ChangeSettings(s)
      PROVE  ScanInv'
  BY <1>3, <1>5 DEF ChangeSettings
<1>6. ASSUME NEW c \in Connectors, NEW p \in Parts, Look(c, p)
      PROVE  ScanInv'
  BY <1>6, ReadKeepsScanInv DEF Look, worldVars
<1>7. ASSUME NEW c \in Connectors, NEW p \in Parts, Fail(c, p)
      PROVE  ScanInv'
  BY <1>7, ReadKeepsScanInv DEF Fail, Unrecorded, worldVars
<1>8. ASSUME NEW c \in Connectors, NEW p \in Parts, PassOver(c, p)
      PROVE  ScanInv'
  <2>1. used # None /\ used.kind[c] \in {"diff", "other"} /\ <<c, p>> \in todo
    BY <1>8 DEF PassOver, Read
  <2>2. c \in Selected(used)
    BY <2>1 DEF ScanInv, Selected
  <2>3. ~attested
    BY <2>1, <2>2 DEF ScanInv, Attestable
  <2> QED BY <1>8, <2>3, ReadKeepsScanInv DEF PassOver, worldVars
<1>9. ASSUME NEW c \in Connectors, TimeOut(c)
      PROVE  ScanInv'
  <2>1. whole' = FALSE /\ UNCHANGED <<world, steady, used>>
    BY <1>9 DEF TimeOut, worldVars
  <2>2. todo' \subseteq todo /\ (attested' => attested)
    BY <1>9 DEF TimeOut, Unrecorded
  <2>3. \A t \in Things : found'[t] # None => found[t] # None
    BY <1>9 DEF TimeOut
  <2>4. ScanInv
    OBVIOUS
  <2>5. used = None => todo' = {}
    BY <2>2, <2>4 DEF ScanInv
  <2> HIDE DEF IInv
  <2> QED BY <2>1, <2>2, <2>3, <2>4, <2>5 DEF ScanInv, Attestable, Selected
<1>10. CASE Begin
  <2>1. settings # None
    BY SettingsAssumption DEF TypeOK
  <2>2. \A c \in Connectors, p \in Parts : <<c, p>> \in todo' => p \in settings.view[c]
    BY <1>10 DEF Begin
  <2>3. ASSUME NEW t \in Things, Plainly(settings, world, t)
        PROVE  <<Site[t], Part[t]>> \in todo'
    BY <1>10, <2>3, ThingsAssumption DEF Begin, Plainly
  <2> QED BY <1>10, <2>1, <2>2, <2>3 DEF Begin, ScanInv, Nothing, Plainly, Attestable, Selected, worldVars
<1>11. CASE Finish
  BY <1>11 DEF Finish, ScanInv, Nothing, worldVars
<1>12. CASE Accept
  BY <1>3, <1>12 DEF Accept, worldVars
<1>13. CASE Review
  BY <1>3, <1>13 DEF Review, worldVars
<1>14. CASE UNCHANGED vars
  BY <1>3, <1>14 DEF vars, worldVars
<1> QED BY <1>1, <1>2, <1>4, <1>5, <1>6, <1>7, <1>8, <1>9, <1>10, <1>11, <1>12, <1>13, <1>14 DEF Next

\* A scan that has read everything writes a faithful report.
LEMMA FinishesFaithfully ==
  ASSUME IInv, Finish
  PROVE  Faithful(current')
<1> USE DEF IInv
<1>1. used \in Settings /\ used # None /\ todo = {}
  BY DEF Finish, TypeOK
<1>2. PICK public \in BOOLEAN :
         current' = [found |-> found, total |-> Cardinality(Reported(found)), complete |-> whole,
                     ran |-> Selected(used), scope |-> Scope(used, attested /\ public),
                     names |-> [t \in Things |-> Name(t)], steady |-> steady]
  BY DEF Finish
<1>3. Cardinality(Reported(found)) \in Nat
  BY ThingsAssumption, FS_Subset, FS_CardinalityType DEF Reported
<1>4. CASE ~(attested /\ public)
  BY <1>2, <1>3, <1>4 DEF Faithful, Scope
<1>5. CASE attested /\ public
  <2>1. current'.scope = used /\ Attestable(used)
    BY <1>1, <1>2, <1>5 DEF Scope, ScanInv
  <2>2. ASSUME NEW t \in Things, found[t] # None
        PROVE  Part[t] \in used.view[Site[t]] /\ NamedUnder(used, t, Name(t))
    <3>1. Part[t] \in used.view[Site[t]]
      BY <1>1, <2>2 DEF ScanInv
    <3>2. scans \in Nat
      BY DEF TypeOK
    <3> QED BY <3>1, <3>2 DEF Name, NamedUnder
  <2>3. ASSUME whole, NEW t \in Things, Plainly(used, steady, t)
        PROVE  found[t] = steady[t]
    BY <1>1, <1>5, <2>3 DEF ScanInv
  <2> QED BY <1>2, <1>3, <2>1, <2>2, <2>3 DEF Faithful, SummaryMatches, Plainly
<1> QED BY <1>4, <1>5

\* A report that is cut no longer matches its summary.
LEMMA CutShows ==
  ASSUME IInv, NEW t \in Things, Cut(t)
  PROVE  Faithful(current')
<1> USE DEF IInv
<1>1. current \in Report /\ current # None /\ current.found[t] # None /\ Faithful(current)
  BY DEF Cut, TypeOK, ReportsInv
<1>2. /\ current'.found = [current.found EXCEPT ![t] = None]
      /\ current'.total = current.total /\ current'.complete = current.complete
      /\ current'.scope = current.scope /\ current'.names = current.names
      /\ current'.steady = current.steady
  BY <1>1 DEF Cut, Report
<1>3. Reported(current'.found) = Reported(current.found) \ {t}
  BY <1>1, <1>2 DEF Reported, Report
<1>4. /\ IsFiniteSet(Reported(current.found)) /\ t \in Reported(current.found)
  BY <1>1, ThingsAssumption, FS_Subset DEF Reported
<1>5. /\ Cardinality(Reported(current.found)) \in Nat
      /\ Cardinality(Reported(current'.found)) = Cardinality(Reported(current.found)) - 1
  BY <1>3, <1>4, FS_RemoveElement, FS_CardinalityType
<1>6. Cardinality(Reported(current'.found)) < current.total
  BY <1>1, <1>5 DEF Faithful, Report
<1>7. ~SummaryMatches(current') /\ Cardinality(Reported(current'.found)) <= current'.total
  BY <1>1, <1>2, <1>5, <1>6 DEF SummaryMatches, Report
<1>8. \A u \in Things : current'.found[u] # None => current.found[u] # None
  BY <1>1, <1>2 DEF Report
<1> QED BY <1>1, <1>2, <1>7, <1>8 DEF Faithful

\* Reports are faithful, and an accepted one is within the one reviewed.
LEMMA ReportsKept == IInv /\ [Next]_vars => ReportsInv' /\ RenewalInv'
<1> SUFFICES ASSUME IInv, [Next]_vars
             PROVE  ReportsInv' /\ RenewalInv'
  OBVIOUS
<1> USE DEF IInv
<1>1. ASSUME UNCHANGED <<baseline, origin>>
      PROVE  RenewalInv'
  BY <1>1 DEF RenewalInv
<1>2. ASSUME UNCHANGED <<baseline, origin>>, current' # None => Faithful(current')
      PROVE  ReportsInv' /\ RenewalInv'
  BY <1>1, <1>2 DEF ReportsInv
<1>3. ASSUME UNCHANGED reportVars
      PROVE  ReportsInv' /\ RenewalInv'
  BY <1>2, <1>3 DEF ReportsInv, reportVars
<1>4. ASSUME NEW t \in Things, Cut(t)
      PROVE  ReportsInv' /\ RenewalInv'
  BY <1>2, <1>4, CutShows DEF Cut
<1>5. CASE Begin
  BY <1>2, <1>5 DEF Begin
<1>6. CASE Finish
  BY <1>2, <1>6, FinishesFaithfully DEF Finish
<1>7. CASE Accept
  <2>1. /\ baseline \in Report /\ current \in Report /\ origin \in Report /\ origin # None
        /\ Faithful(current) /\ Passes(baseline, current)
    BY <1>7 DEF Accept, TypeOK, ReportsInv, RenewalInv
  <2>2. baseline' = current /\ current' = None /\ origin' = origin
    BY <1>7 DEF Accept
  <2>3. ReportsInv'
    BY <2>2 DEF ReportsInv
  <2>4. ASSUME NEW t \in Things, current.found[t] # None
        PROVE  origin.found[t] # None /\ Within(origin.found[t], current.found[t])
    <3>1. baseline.found[t] # None /\ Within(baseline.found[t], current.found[t])
      BY <2>1, <2>4, PassesIsWithin
    <3>2. origin.found[t] # None /\ Within(origin.found[t], baseline.found[t])
      BY <1>7, <3>1 DEF Accept, RenewalInv
    <3>3. /\ origin.found[t] \in Profiles /\ baseline.found[t] \in Profiles
          /\ current.found[t] \in Profiles
      BY <2>1, <2>4, <3>1, <3>2 DEF Report
    <3> QED BY <3>1, <3>2, <3>3, WithinTransitive
  <2> QED BY <2>1, <2>2, <2>3, <2>4 DEF RenewalInv
<1>8. CASE Review
  <2>1. current \in Report /\ baseline' = current /\ origin' = current /\ current' = None
    BY <1>8 DEF Review, TypeOK
  <2>2. \A t \in Things : current.found[t] # None => Within(current.found[t], current.found[t])
    BY <2>1, WithinReflexive DEF Report
  <2> QED BY <1>8, <2>1, <2>2 DEF Review, ReportsInv, RenewalInv
<1>9. ASSUME NEW t \in Things, NEW p \in Looks[t] \cup {None}, ChangeThing(t, p)
      PROVE  UNCHANGED reportVars
  BY <1>9 DEF ChangeThing
<1>10. ASSUME NEW c \in Connectors, NEW p \in Parts, Look(c, p) \/ Fail(c, p) \/ PassOver(c, p)
       PROVE  UNCHANGED reportVars
  BY <1>10 DEF Look, Fail, PassOver
<1> QED
  BY <1>3, <1>4, <1>5, <1>6, <1>7, <1>8, <1>9, <1>10
  DEF Next, Omit, ChangeSettings, TimeOut, vars

THEOREM Invariance == Spec => []IInv
<1>1. IInv /\ [Next]_vars => IInv'
  BY TypeKept, ScanInvKept, ReportsKept DEF IInv
<1> QED BY StartsWell, <1>1, PTL DEF Spec

----------------------------------------------------------------------------
(* What the comparison promises *)

\* What a comparison calls resolved or, if it is complete, new is a change of the estate.
\* (compare_reports, build_collection_scope)
THEOREM DifferencesStand == Spec => []DifferencesAreReal
<1>1. IInv => DifferencesAreReal
  <2> SUFFICES ASSUME IInv, current # None, NEW b \in {baseline, origin} \ {None}
               PROVE  /\ \A t \in Resolved(b, current) : current.steady[t] \notin Detects[b.scope.rules]
                      /\ Comparable(b, current) =>
                           \A t \in New(b, current) : b.steady[t] \notin Detects[current.scope.rules]
    BY DEF DifferencesAreReal
  <2>1. b \in Report /\ current \in Report /\ Faithful(b) /\ Faithful(current)
    BY DEF IInv, TypeOK, ReportsInv
  <2> QED BY <2>1, FaithfulDiffer
<1> QED BY Invariance, <1>1, PTL

\* A report that passes says no more of anything than the report first reviewed, however often
\* the baseline was renewed.  (compare_reports, _adverse, _widens)
THEOREM NothingIsWidened == Spec => []NothingWidened
<1>1. IInv => NothingWidened
  <2> SUFFICES ASSUME IInv, current # None, baseline # None, Passes(baseline, current),
                      NEW t \in Things, Plainly(current.scope, current.steady, t)
               PROVE  origin.found[t] # None /\ Within(origin.found[t], current.steady[t])
    BY DEF NothingWidened
  <2>1. /\ baseline \in Report /\ current \in Report /\ origin \in Report /\ origin # None
        /\ Faithful(current) /\ Comparable(baseline, current)
    BY DEF IInv, TypeOK, ReportsInv, RenewalInv, Passes
  <2>2. current.scope \in Settings /\ current.found[t] = current.steady[t]
    BY <2>1 DEF Faithful, Comparable, Report
  <2>3. current.found[t] # None
    BY <2>2, DetectsLooks DEF Plainly
  <2>4. baseline.found[t] # None /\ Within(baseline.found[t], current.found[t])
    BY <2>1, <2>3, PassesIsWithin
  <2>5. origin.found[t] # None /\ Within(origin.found[t], baseline.found[t])
    BY <2>4 DEF IInv, RenewalInv
  <2>6. /\ origin.found[t] \in Profiles /\ baseline.found[t] \in Profiles
        /\ current.found[t] \in Profiles
    BY <2>1, <2>3, <2>4, <2>5 DEF Report
  <2> QED BY <2>2, <2>4, <2>5, <2>6, WithinTransitive
<1> QED BY Invariance, <1>1, PTL

=============================================================================
