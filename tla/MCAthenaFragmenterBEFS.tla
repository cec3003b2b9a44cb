----------------------- MODULE MCAthenaFragmenterBEFS -----------------------
(* Packets of four units, one of them header, padded to three: a message   *)
(* of four fits; the last fragment of six is full and not marked, that of  *)
(* seven is padded, that of eight is neither.                              *)
EXTENDS AthenaFragmenterBEFS
=============================================================================
