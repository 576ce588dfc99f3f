--------------------------- MODULE MCDataRequests ---------------------------
(* Servers for the model checker.                                          *)
EXTENDS DataRequests

\* A server of today, and one that does not know lightweight segments.
BothOffers == {Tracked, Tracked \ {"LightweightSegments"}}

FullOffer == {Tracked}
=============================================================================
