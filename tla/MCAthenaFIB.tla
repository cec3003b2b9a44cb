---------------------------- MODULE MCAthenaFIB ----------------------------
(***************************************************************************)
(* Small instances of AthenaFIB: three names, two links, a plain and a VPN *)
(* translation.                                                            *)
(***************************************************************************)
EXTENDS AthenaFIB

CONSTANTS p1, k1

MCSegment == {"a", "b", "c"}

(* A name, its child and its grandchild: a lookup trims twice.             *)
MCName == {<<"a">>, <<"a", "b">>, <<"a", "b", "c">>}

MCTranslation == {[prefix |-> NoPrefix, key |-> NoKey],
                  [prefix |-> p1, key |-> k1]}
============================================================================
