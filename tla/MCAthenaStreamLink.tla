-------------------------- MODULE MCAthenaStreamLink --------------------------
(* One end has room for less than a message, the other for all it sends.   *)
EXTENDS AthenaStreamLink

CONSTANTS a, b

MCRoom == [e \in End |-> IF e = a THEN 2 ELSE 8]
=============================================================================
