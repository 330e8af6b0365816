---------------------------- MODULE PagedListing ----------------------------
(***************************************************************************)
(* What a paginator promises its consumer, whatever the provider answers:  *)
(* it walks along the provider's continuations from the first page on,     *)
(* passes on no page twice and no more than MaxPages of them, and calls    *)
(* the listing complete at a page that has no continuation, and only there.*)
(* There are no requests, timers, links or tokens here.                    *)
(*                                                                         *)
(* Module HttpListing is shown to implement this one.                      *)
(***************************************************************************)
EXTENDS Naturals, FiniteSets

CONSTANTS Pages, FirstPage, End, Unknown, MaxPages

VARIABLES
    link,           \* what each page continues with, as the provider first said
    page,           \* the page that is to be passed on next
    delivered,      \* the pages passed on
    outcome         \* "open", "complete", "incomplete" or "dropped"

vars == <<link, page, delivered, outcome>>

Init ==
    /\ link = [p \in Pages |-> Unknown]
    /\ page = FirstPage
    /\ delivered = {}
    /\ outcome = "open"

\* The provider answers, as it likes.
Answer(p) ==
    /\ link[p] = Unknown
    /\ \E next \in Pages \cup {End} : link' = [link EXCEPT ![p] = next]
    /\ UNCHANGED <<page, delivered, outcome>>

Deliver ==
    /\ outcome = "open"
    /\ page \notin delivered
    /\ Cardinality(delivered) < MaxPages
    /\ link[page] # Unknown
    /\ delivered' = delivered \cup {page}
    /\ \/ link[page] = End /\ outcome' = "complete" /\ UNCHANGED page
       \/ link[page] # End /\ outcome' = "open" /\ page' = link[page]
       \/ link[page] # End /\ outcome' = "incomplete" /\ UNCHANGED page
    /\ UNCHANGED link

\* An error, a limit, a continuation that leads back; or the consumer wants no more.
Stop ==
    /\ outcome = "open"
    /\ outcome' \in {"incomplete", "dropped"}
    /\ UNCHANGED <<link, page, delivered>>

Next == Deliver \/ Stop \/ \E p \in Pages : Answer(p)

Spec == Init /\ [][Next]_vars

=============================================================================
