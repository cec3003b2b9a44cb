---------------------- MODULE MCAthenaLRUContentStore ----------------------
(***************************************************************************)
(* A small instance of AthenaLRUContentStore.                              *)
(***************************************************************************)
EXTENDS AthenaLRUContentStore

CONSTANTS a, b, c     (* names *)

Object(name, size, expiry) == [name |-> name, size |-> size, expiry |-> expiry]

(* Two versions of a, one that expires; b in a size that pushes the others *)
(* out, or, once they have made just enough room for it, does not fit; c   *)
(* expires later than a.                                                   *)
MCContent == {Object(a, 1, None), Object(a, 1, 1), Object(b, 2, None), Object(c, 1, 2)}

Ask(name, hash) == [name |-> name, hash |-> hash]

(* Every name is asked for, and a also by the hash of the version that     *)
(* does not expire.                                                        *)
MCInterest == {Ask(a, None), Ask(b, None), Ask(c, None), Ask(a, Object(a, 1, None))}
============================================================================
