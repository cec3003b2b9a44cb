------------------------ MODULE MCAthenaDatagramLinks ------------------------
(* Two peers with a link each, two kinds of message so that their order    *)
(* shows, frames read in twos and at most three of them anywhere.          *)
EXTENDS AthenaDatagramLinks
=============================================================================
