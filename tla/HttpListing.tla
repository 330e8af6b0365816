---------------------------- MODULE HttpListing -----------------------------
(***************************************************************************)
(* A collection that a provider serves in pages, read by one of the        *)
(* paginators of HttpClient (shadowscan/utils/http.py), each page by a     *)
(* request as in module HttpRequest.                                       *)
(*                                                                         *)
(* Pages are named by what requests them: the URL of a link, or the token  *)
(* with the unchanged URL.  What page a page continues with is the         *)
(* provider's business, and may be any page, even one already read.  A     *)
(* "link" listing is paginate_link or paginate_odata, a "token" listing    *)
(* paginate_token, whose first page has no token to come back to.          *)
(***************************************************************************)
EXTENDS HttpRequest

CONSTANTS
    Pages,
    FirstPage,
    End,            \* there is no continuation
    Unknown,        \* the page has not been read
    MaxPages        \* max_pages

ASSUME PagesAssumption ==
    /\ FirstPage \in Pages
    /\ End \notin Pages /\ Unknown \notin Pages /\ End # Unknown
    /\ MaxPages \in Nat

Ended == {"complete",       \* the generator returned
          "incomplete",     \* it raised
          "dropped"}        \* its consumer wants no more

VARIABLES
    listing, kind,
    page,           \* url or token: what is requested now, or next
    pages,          \* how many have been delivered
    seen,
    \* auxiliary
    link,           \* what each page read so far continues with
    delivered       \* pages whose items were all yielded

listingVars == <<listing, kind, page, pages, seen, link, delivered>>
vars == <<httpVars, listingVars>>

ListingTypeOK ==
    /\ listing \in {"ready", "open", "requesting", "yielding"} \cup Ended
    /\ kind \in {"link", "token"}
    /\ page \in Pages
    /\ pages \in 0 .. MaxPages
    /\ seen \in SUBSET Pages
    /\ link \in [Pages -> Pages \cup {End, Unknown}]
    /\ delivered \in SUBSET Pages

\* Types; the timers and sockets of a request are gone when it has ended.
\* (_make_request, read_response_bytes, the loops of the paginators)
TypeOK == HttpTypeOK /\ ListingTypeOK /\ NothingLeft

Init ==
    /\ HttpInit
    /\ listing = "ready"
    /\ kind \in {"link", "token"}
    /\ page = FirstPage
    /\ pages = 0
    /\ seen = {}
    /\ link = [p \in Pages |-> Unknown]
    /\ delivered = {}

----------------------------------------------------------------------------
(* The loop of a paginator *)

OpenListing ==
    /\ listing = "ready"
    /\ listing' = "open"
    /\ UNCHANGED <<httpVars, kind, page, pages, seen, link, delivered>>

\* The generator raises an error: the collection is incomplete.
Fail ==
    /\ listing' = "incomplete"
    /\ UNCHANGED <<httpVars, kind, page, pages, seen, link, delivered>>

RequestPage ==
    /\ listing = "open"
    /\ pages < MaxPages
    /\ kind = "link" => page \notin seen
    /\ listing' = "requesting"
    /\ seen' = IF kind = "link" THEN seen \cup {page} ELSE seen
    /\ Begin
    /\ UNCHANGED <<kind, page, pages, link, delivered>>

\* The continuation leads to another origin, or has been followed before.
RefusePage ==
    /\ listing = "open"
    /\ kind = "link"
    /\ Fail

\* (Faulty variant: a listing that reaches its limit ends as if there were no more pages.)
LimitIsEnd ==
    /\ listing = "open"
    /\ pages = MaxPages
    /\ listing' = "complete"
    /\ UNCHANGED <<httpVars, kind, page, pages, seen, link, delivered>>

ReachLimit ==
    /\ listing = "open"
    /\ pages = MaxPages
    /\ Fail

\* The request raised; or the page is an error document, has no collection, or a malformed
\* continuation.
PageFails ==
    /\ listing = "requesting"
    /\ step = "idle"
    /\ Fail

TakePage ==
    /\ listing = "requesting"
    /\ step = "idle" /\ outcome = "ok"
    /\ \E next \in (Pages \cup {End}) \ (IF kind = "token" THEN {FirstPage} ELSE {}) :
         link' = IF link[page] = Unknown THEN [link EXCEPT ![page] = next] ELSE link
    /\ listing' = "yielding"
    /\ UNCHANGED <<httpVars, kind, page, pages, seen, delivered>>

\* The consumer has taken the items.  A token is compared here, a link when it is followed.
DeliverPage ==
    /\ listing = "yielding"
    /\ delivered' = delivered \cup {page}
    /\ pages' = pages + 1
    /\ IF link[page] = End
       THEN listing' = "complete" /\ UNCHANGED <<page, seen>>
       ELSE IF kind = "token" /\ link[page] \in seen
       THEN listing' = "incomplete" /\ UNCHANGED <<page, seen>>
       ELSE /\ listing' = "open"
            /\ page' = link[page]
            /\ seen' = IF kind = "token" THEN seen \cup {page'} ELSE seen
    /\ UNCHANGED <<httpVars, kind, link>>

DropListing ==
    /\ listing = "yielding"
    /\ listing' = "dropped"
    /\ UNCHANGED <<httpVars, kind, page, pages, seen, link, delivered>>

----------------------------------------------------------------------------
ClientStep ==
    \/ OwnStep /\ UNCHANGED listingVars
    \/ RequestPage \/ RefusePage \/ ReachLimit \/ PageFails \/ TakePage \/ DeliverPage

Next ==
    \/ HttpNext /\ UNCHANGED listingVars
    \/ OpenListing \/ RequestPage \/ RefusePage \/ ReachLimit \/ PageFails \/ TakePage
    \/ DeliverPage \/ DropListing

Spec == Init /\ [][Next]_vars

\* The client's thread runs, and so do its timers; the listing is read to its end.  Nothing is
\* assumed of the resolver, of the server, or of other users of either.
Fairness ==
    /\ WF_vars(ClientStep)
    /\ WF_vars(TimerStep /\ UNCHANGED listingVars)

FairSpec == Spec /\ Fairness

----------------------------------------------------------------------------
(* Properties *)

\* A resolver slot is held by each lookup that has not returned it, and by nothing else: none
\* is lost, and none returned twice, whether a thread fails to start, is interrupted while
\* starting, is given up, or ends.  (free_slot in _resolve_bounded)
SlotsReturnOnce ==
    slots + Cardinality({l \in Lookups : thread[l] # "none" /\ l \notin freed}) = MaxResolvers

\* Only its own deadline shuts down the socket of a request, never that of an earlier request
\* that had the socket before.  (_SocketDeadline._abort and finish, _read_watchdog)
OwnShutdown ==
    \A k \in cut : /\ owner[k] # "other"
                   /\ owner[k] = "mine" => acqExpired \/ readExpired

\* What a request returns is all that the server sent.  (read_response_bytes: expired is set
\* before the socket is shut down, and looked at after the body has ended)
WholeBody == outcome = "ok" => body = "whole"

\* Once the scan is over a listing sends no more than one request and its redirects, and takes
\* no more than one page, which it was reading.  (_scan_over, the budgets of request)
EndRespected == attemptsAfter <= MaxRedirects + 1 /\ resultsAfter <= 1

\* A listing counts as complete only if each page it delivered continues with another one it
\* delivered, and one is the last; and no page is delivered twice: however the provider repeats
\* its links or tokens, and whatever the limit.  (paginate_link, paginate_odata, paginate_token)
ListingSound ==
    /\ listing = "yielding" => page \notin delivered
    /\ listing = "complete" =>
         /\ FirstPage \in delivered
         /\ \E p \in delivered : link[p] = End
         /\ \A p \in delivered : link[p] \in delivered \cup {End}

\* Every listing ends, although resolver and server may hang in any step, and although the
\* provider's links may go round in circles.  (the timers, the limits, seen)
ListingEnds == listing = "open" ~> listing \in Ended

----------------------------------------------------------------------------
(* How long a listing takes *)

\* Requests that may be sent for a page, and steps for each.
Attempts == MaxRetries + MaxRedirects + 1
PageSteps == 12 * Attempts + 7

\* The most steps that the thread of a request takes before it is about to make its next
\* attempt, or ends.
AttemptStepsLeft ==
    CASE step = "asking"     -> IF goal = "connect" THEN 12 ELSE 4
      [] step = "claimed"    -> IF goal = "connect" THEN 11 ELSE 3
      [] step = "waiting"    -> IF goal = "connect" THEN 10 ELSE 2
      [] step = "connecting" -> 9
      [] step = "exchanging" -> 8
      [] step = "acquired"   -> 7
      [] step = "finishing"  -> 6
      [] step = "responded"  -> 5
      [] step \in {"pausing", "reading"}    -> 3
      [] step \in {"resuming", "judging"}   -> 2
      [] step \in {"attempting", "joining"} -> 1
      [] step = "idle"       -> 0

RequestStepsLeft == 12 * (Attempts - attempt) + AttemptStepsLeft

StepsLeft ==
    CASE listing = "ready"      -> PageSteps * (MaxPages - pages) + 2
      [] listing = "open"       -> PageSteps * (MaxPages - pages) + 1
      [] listing = "requesting" -> PageSteps * (MaxPages - pages - 1) + 3 + RequestStepsLeft
      [] listing = "yielding"   -> PageSteps * (MaxPages - pages - 1) + 2
      [] listing \in Ended      -> 0

\* A listing is over after so many steps of its thread, by the limits on pages, redirects and
\* retries.  (the loops of paginate_link, paginate_odata, paginate_token and request)
StepsBounded == StepsLeft \in 0 .. PageSteps * MaxPages + 2

\* Each step of its thread brings the listing closer to its end, whatever the provider answers:
\* no redirect, retry or continuation starts it over.  Nor do the timers, the resolver, or
\* other users of the pool put the end off.  (request, _resolve_bounded, read_response_bytes)
StepsRunOut ==
    [][/\ ClientStep \/ ServerStep \/ OpenListing \/ DropListing => StepsLeft' < StepsLeft
       /\ StepsLeft' <= StepsLeft]_vars

----------------------------------------------------------------------------
(* Refinement *)

Paged == INSTANCE PagedListing WITH
    outcome <- IF listing \in Ended THEN listing ELSE "open"

\* Whatever hangs, fails or is retried, and however the provider links its pages, the consumer
\* gets a walk along them without repetition, within the limit, that counts as complete at its
\* end only.  (paginate_link, paginate_odata, paginate_token)
ImplementsPagedListing == Paged!Spec

=============================================================================
