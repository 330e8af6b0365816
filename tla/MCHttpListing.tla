--------------------------- MODULE MCHttpListing ----------------------------
(***************************************************************************)
(* A listing for model-checking modules HttpRequest and HttpListing.       *)
(***************************************************************************)
EXTENDS HttpListing, TLC

CONSTANTS l1, l2, k1, k2, p1, p2, p3

TwoLookups == {l1, l2}
OneSocket == {k1}
TwoSockets == {k1, k2}
ThreePages == {p1, p2, p3}

=============================================================================
