-------------------- MODULE MCAthenaTransportLinkAdapter --------------------
(* Two links and two names: one link can take over the id of the other.    *)
EXTENDS AthenaTransportLinkAdapter
=============================================================================
