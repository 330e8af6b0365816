-------------------------- MODULE ReportComparison --------------------------
(***************************************************************************)
(* Scans of an estate that changes, and the comparison of their reports    *)
(* (shadowscan/comparison.py, "shadowscan diff"): the collection scope     *)
(* that a scan attests, when two reports can be compared, and when what    *)
(* has changed between them is adverse.                                    *)
(*                                                                         *)
(* A connector reads its parts one by one while things come, go and        *)
(* change.  A part is a path or an export, or what a provider lists: a     *)
(* region, a project, a subscription.  Which parts these are is settled by *)
(* options, and for a live connector by what the credentials lead to when  *)
(* it begins.  Hashes are taken for what is hashed.                        *)
(*                                                                         *)
(* Left out: the age of a baseline, fleet reports, and the rejection of    *)
(* files that are no reports.  The risk of a finding and texts are not     *)
(* compared by drift class.                                                *)
(***************************************************************************)
EXTENDS Naturals, FiniteSets

CONSTANTS
    Things,         \* what can be found
    Connectors,
    Parts,
    Site,           \* the connector that finds a thing
    Part,           \* the part it is in
    Redacted,       \* things whose resource is redacted in an export (saas.generic)
    Looks,          \* what findings may say of a thing
    Rules,          \* confidence threshold, signatures, scanner, registry snapshots
    Detects,        \* the looks that are reported under some rules
    Keys,           \* values of SHADOWSCAN_IDENTITY_KEY
    NoKey,
    Settings,       \* settings that a scan may have
    None,
    MaxScans,
    MaxChanges

Kinds == {"static", "live", "gateway", "diff", "other"}
Bounds == {"floor", "ceiling", "oversight", "initiation"}

\* Tags that record a limit, and the one that records a governance gap.
Mitigating == {"disabled", "docs-only"}
Understated == "autonomy-understated"

Profiles == UNION {Looks[t] : t \in Things}

\* A thing that stays of one kind has an autonomy interval in every report or in none.
\* (apply_autonomy)
ASSUME ThingsAssumption ==
    /\ IsFiniteSet(Things)
    /\ Site \in [Things -> Connectors] /\ Part \in [Things -> Parts]
    /\ Redacted \subseteq Things
    /\ Detects \in [Rules -> SUBSET Profiles]
    /\ None \notin Profiles
    /\ \A p \in Profiles : /\ p.tags \subseteq STRING
                           /\ p.interval = None \/ p.interval \in [Bounds -> Nat]
    /\ \A p, q \in Profiles : p.kind = q.kind => (p.interval = None <=> q.interval = None)

ASSUME SettingsAssumption ==
    /\ Settings \subseteq [view : [Connectors -> SUBSET Parts], kind : [Connectors -> Kinds],
                           rules : Rules, key : Keys \cup {NoKey}]
    /\ None \notin Settings
    /\ None \notin Keys \cup Nat /\ Keys \cap Nat = {}
    /\ MaxScans \in Nat /\ MaxChanges \in Nat

VARIABLES
    world,          \* what each thing is like, None where it is not there
    settings,       \* of the next scan
    changes,        \* of the world and the settings so far
    scans,          \* begun so far
    used,           \* the settings of the scan, None if there is none
    todo,           \* parts it has not read
    found,
    whole,          \* no connector, nor the engine, has recorded a gap
    attested,       \* nothing speaks against attesting the scan's scope so far
    baseline,       \* report of the last accepted scan
    current,        \* report of the last scan
    \* auxiliary
    steady,         \* what each thing has been like since the scan began, None if it has changed
    origin          \* the report that was reviewed when the baselines were begun

worldVars == <<world, settings, changes>>
scanVars == <<scans, used, todo, found, whole, attested>>
reportVars == <<baseline, current, origin>>
vars == <<worldVars, scanVars, reportVars, steady>>

Nothing == [t \in Things |-> None]

Init ==
    /\ world \in [Things -> Profiles \cup {None}]
    /\ \A t \in Things : world[t] \in Looks[t] \cup {None}
    /\ settings \in Settings
    /\ changes = 0
    /\ scans = 0
    /\ used = None
    /\ todo = {}
    /\ found = Nothing
    /\ whole = TRUE
    /\ attested = FALSE
    /\ steady = Nothing
    /\ baseline = None /\ current = None /\ origin = None

----------------------------------------------------------------------------
(* The estate and its operator *)

ChangeThing(t, p) ==
    /\ changes < MaxChanges
    /\ changes' = changes + 1
    /\ world[t] # p
    /\ world' = [world EXCEPT ![t] = p]
    /\ steady' = [steady EXCEPT ![t] = None]
    /\ UNCHANGED <<settings, scanVars, reportVars>>

\* Options, rules or keys are changed, or credentials lead to other parts.
ChangeSettings(s) ==
    /\ changes < MaxChanges
    /\ changes' = changes + 1
    /\ s # settings
    /\ settings' = s
    /\ UNCHANGED <<world, scanVars, reportVars, steady>>

----------------------------------------------------------------------------
(* A scan *)

Selected(s) == {c \in Connectors : s.view[c] # {}}

\* No plugin is attested, nor what diff_base leaves unread, nor a gateway without a key.
\* (_collection_scope)
Attestable(s) ==
    \A c \in Selected(s) : \/ s.kind[c] \in {"static", "live"}
                           \/ s.kind[c] = "gateway" /\ s.key # NoKey

Begin ==
    /\ used = None /\ scans < MaxScans
    /\ Selected(settings) # {}
    /\ scans' = scans + 1
    /\ used' = settings
    /\ todo' = {x \in Connectors \X Parts : x[2] \in settings.view[x[1]]}
    /\ found' = Nothing
    /\ whole' = TRUE
    /\ attested' = Attestable(settings)
    /\ steady' = world
    /\ current' = None
    /\ UNCHANGED <<worldVars, baseline, origin>>

In(c, p) == {t \in Things : Site[t] = c /\ Part[t] = p /\ world[t] \in Detects[used.rules]}

Read(c, p, seen) ==
    /\ <<c, p>> \in todo
    /\ todo' = todo \ {<<c, p>>}
    /\ found' = [t \in Things |-> IF t \in seen THEN world[t] ELSE found[t]]

Look(c, p) ==
    /\ Read(c, p, In(c, p))
    /\ UNCHANGED <<worldVars, reportVars, steady, scans, used, whole, attested>>

\* A live connector attests what its own record says it has listed; other inputs are attested
\* as they are configured.
Unrecorded(c) == attested /\ used.kind[c] # "live"

\* A listing is denied, cut short or fails, a file cannot be read, a limit is met.
Fail(c, p) ==
    /\ <<c, p>> \in todo
    /\ \E seen \in SUBSET In(c, p) : Read(c, p, seen)
    /\ whole' = FALSE
    /\ attested' = Unrecorded(c)
    /\ UNCHANGED <<worldVars, reportVars, steady, scans, used>>

\* Files that have not changed since diff_base, or what a plugin does not care for.
PassOver(c, p) ==
    /\ used # None /\ used.kind[c] \in {"diff", "other"}
    /\ Read(c, p, {})
    /\ UNCHANGED <<worldVars, reportVars, steady, scans, used, whole, attested>>

\* The job's result is given up, with its scope record.
TimeOut(c) ==
    /\ \E p \in Parts : <<c, p>> \in todo
    /\ todo' = {x \in todo : x[1] # c}
    /\ found' = [t \in Things |-> IF Site[t] = c THEN None ELSE found[t]]
    /\ whole' = FALSE
    /\ attested' = Unrecorded(c)
    /\ UNCHANGED <<worldVars, reportVars, steady, scans, used>>

\* The engine leaves out a finding that it cannot sanitize.
Omit(t) ==
    /\ used # None /\ todo = {} /\ found[t] # None
    /\ found' = [found EXCEPT ![t] = None]
    /\ whole' = FALSE
    /\ UNCHANGED <<worldVars, reportVars, steady, scans, used, todo, attested>>

Reported(f) == {t \in Things : f[t] # None}

\* (Faulty variant: of a live connector's scope only the options are hashed.)
ScopeOfOptions(s, a) ==
    IF a
    THEN [s EXCEPT !.view = [c \in Connectors |-> IF s.kind[c] = "live" THEN Parts ELSE @[c]]]
    ELSE None

\* build_collection_scope: a live connector's parts are hashed with its options.
Scope(s, a) == IF a THEN s ELSE None

\* Identities of a gateway's callers and of redacted resources are keyed, with a key of the
\* scan if there is no other; the scope of an export is attested without a key.
Keyed(s, t) ==
    \/ s.kind[Site[t]] = "gateway"
    \/ s.kind[Site[t]] = "static" /\ t \in Redacted

Name(t) == IF ~Keyed(used, t) THEN None ELSE IF used.key = NoKey THEN scans ELSE used.key

\* A principal may not have been confirmed, or a configuration may hold something private.
Finish ==
    /\ used # None /\ todo = {}
    /\ used' = None
    /\ \E public \in BOOLEAN :
         current' = [found |-> found, total |-> Cardinality(Reported(found)), complete |-> whole,
                     ran |-> Selected(used), scope |-> Scope(used, attested /\ public),
                     names |-> [t \in Things |-> Name(t)], steady |-> steady]
    /\ found' = Nothing /\ whole' = TRUE /\ attested' = FALSE /\ steady' = Nothing
    /\ UNCHANGED <<worldVars, baseline, origin, scans, todo>>

\* Someone filters or cuts a report.
Cut(t) ==
    /\ current # None /\ current.found[t] # None
    /\ current' = [current EXCEPT !.found[t] = None]
    /\ UNCHANGED <<worldVars, scanVars, baseline, origin, steady>>

----------------------------------------------------------------------------
(* compare_reports *)

SummaryMatches(r) == r.total = Cardinality(Reported(r.found))

\* Findings of one report that the other has, too, and those it has not.
Both(b, c) == {t \in Reported(b.found) \cap Reported(c.found) : b.names[t] = c.names[t]}
Unmatched(b, c) == Reported(b.found) \ Both(b, c)

\* _scan_local
Local(r) == {t \in Things : r.names[t] \in Nat}

\* _comparison_reasons
Comparable(b, c) ==
    /\ b.complete /\ c.complete
    /\ SummaryMatches(b) /\ SummaryMatches(c)
    /\ b.ran = c.ran
    /\ b.scope # None /\ b.scope = c.scope
    /\ Unmatched(b, c) \cap Local(b) = {} /\ Unmatched(c, b) \cap Local(c) = {}

Resolved(b, c) == IF Comparable(b, c) THEN Unmatched(b, c) \ Local(b) ELSE {}
New(b, c) == Unmatched(c, b) \ Local(c)

Direction(x, y) == IF x = None THEN "set" ELSE IF y = None THEN "cleared" ELSE "changed"

\* (Faulty variant: a definition that is lost is not adverse.)
CapabilityUnlessLost(p, q) ==
    \/ p.tool # q.tool /\ Direction(p.tool, q.tool) = "changed"
    \/ q.items \ p.items # {}
    \/ (q.tags \ p.tags) \ (Mitigating \cup {Understated}) # {}
    \/ (p.tags \ q.tags) \cap Mitigating # {}

\* _adverse and _widens, for each drift class.
AdverseCapability(p, q) ==
    \/ p.tool # q.tool /\ Direction(p.tool, q.tool) # "set"
    \/ q.items \ p.items # {}
    \/ (q.tags \ p.tags) \ (Mitigating \cup {Understated}) # {}
    \/ (p.tags \ q.tags) \cap Mitigating # {}

AdverseAutonomy(p, q) ==
    p.interval # None /\ q.interval # None /\ \E x \in Bounds : q.interval[x] > p.interval[x]

AdverseGovernance(p, q) ==
    \/ p.owner # q.owner /\ Direction(p.owner, q.owner) = "cleared"
    \/ p.shadow # q.shadow /\ q.shadow = "shadow"
    \/ p.match # q.match /\ Direction(p.match, q.match) # "set"
    \/ /\ p.status # q.status
       /\ (q.status = "observed-not-registered" \/ p.status = "registered-and-observed")
    \/ Understated \in q.tags \ p.tags

Adverse(p, q) ==
    p.kind # q.kind \/ AdverseCapability(p, q) \/ AdverseAutonomy(p, q) \/ AdverseGovernance(p, q)

\* What diff exits with 0 for, with --fail-on-drift for all classes.
Passes(b, c) ==
    /\ Comparable(b, c)
    /\ New(b, c) = {}
    /\ \A t \in Both(b, c) : ~Adverse(b.found[t], c.found[t])

\* A report that passes takes the place of its baseline, before that one expires.
Accept ==
    /\ baseline # None /\ current # None
    /\ Passes(baseline, current)
    /\ baseline' = current
    /\ current' = None
    /\ UNCHANGED <<worldVars, scanVars, steady, origin>>

\* A report is reviewed, and the first baseline whatever it says.
Review ==
    /\ baseline = None /\ current # None
    /\ baseline' = current /\ origin' = current
    /\ current' = None
    /\ UNCHANGED <<worldVars, scanVars, steady>>

----------------------------------------------------------------------------
Next ==
    \/ \E t \in Things : (\E p \in Looks[t] \cup {None} : ChangeThing(t, p)) \/ Omit(t) \/ Cut(t)
    \/ \E s \in Settings : ChangeSettings(s)
    \/ \E c \in Connectors :
         \/ \E p \in Parts : Look(c, p) \/ Fail(c, p) \/ PassOver(c, p)
         \/ TimeOut(c)
    \/ Begin \/ Finish \/ Accept \/ Review

Spec == Init /\ [][Next]_vars

----------------------------------------------------------------------------
(* Properties *)

Report ==
    [found : [Things -> Profiles \cup {None}], total : Nat, complete : BOOLEAN,
     ran : SUBSET Connectors, scope : Settings \cup {None},
     names : [Things -> Keys \cup Nat \cup {None}], steady : [Things -> Profiles \cup {None}]]

TypeOK ==
    /\ world \in [Things -> Profiles \cup {None}]
    /\ settings \in Settings /\ used \in Settings \cup {None}
    /\ changes \in Nat /\ scans \in Nat
    /\ whole \in BOOLEAN /\ attested \in BOOLEAN
    /\ todo \subseteq Connectors \X Parts
    /\ found \in [Things -> Profiles \cup {None}]
    /\ steady \in [Things -> Profiles \cup {None}]
    /\ baseline \in Report \cup {None}
    /\ current \in Report \cup {None}
    /\ origin \in Report \cup {None}

\* What a comparison calls resolved was not there to be found throughout the later scan, and
\* what a complete one calls new was not throughout the earlier: no gap in collection, other
\* scope or key, nor a report that was cut is taken for a change of the estate, whatever part
\* of it each scan read before and after which change.  (compare_reports, build_collection_scope)
DifferencesAreReal ==
    current # None =>
      \A b \in {baseline, origin} \ {None} :
        /\ \A t \in Resolved(b, current) : current.steady[t] \notin Detects[b.scope.rules]
        /\ Comparable(b, current) =>
             \A t \in New(b, current) : b.steady[t] \notin Detects[current.scope.rules]

\* q admits nothing that p does not, and is governed no less.
Within(p, q) ==
    /\ q.kind = p.kind
    /\ p.tool # None => q.tool = p.tool
    /\ q.items \subseteq p.items
    /\ q.tags \subseteq p.tags \cup Mitigating
    /\ p.tags \cap Mitigating \subseteq q.tags
    /\ p.interval # None => q.interval # None /\ \A x \in Bounds : q.interval[x] <= p.interval[x]
    /\ p.owner # None => q.owner # None
    /\ q.shadow = "shadow" => p.shadow = "shadow"
    /\ p.match # None => q.match = p.match
    /\ q.status = "observed-not-registered" => p.status = "observed-not-registered"
    /\ p.status = "registered-and-observed" => q.status = "registered-and-observed"

\* There throughout, and not to be missed under these settings.
Plainly(s, sight, t) == sight[t] \in Detects[s.rules] /\ Part[t] \in s.view[Site[t]]

\* When diff passes a report, whatever was there to be found throughout its scan was in the
\* report first reviewed, and was no less there: changes that are no drift to worry about, one
\* by one, do not add up to one that is, however often the baseline is renewed.
\* (compare_reports, _adverse, _widens)
NothingWidened ==
    current # None /\ baseline # None =>
      (Passes(baseline, current) =>
         \A t \in Things : Plainly(current.scope, current.steady, t) =>
           origin.found[t] # None /\ Within(origin.found[t], current.steady[t]))

=============================================================================
