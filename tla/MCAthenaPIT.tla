---------------------------- MODULE MCAthenaPIT ----------------------------
(***************************************************************************)
(* Small instances of AthenaPIT.                                           *)
(***************************************************************************)
EXTENDS AthenaPIT, TLC

CONSTANTS a, b,      (* names                                              *)
          k1,        (* a key id                                           *)
          h1,        (* a content hash                                     *)
          o1, key1   (* an original name, a response key                   *)

Ask(name, cid, kid) == [name |-> name, cid |-> cid, kid |-> kid]

MCOriginal == {[name |-> o1, key |-> key1]}

(* One name asked for with and without a key id restriction.               *)
MCInterest == {Ask(a, None, None), Ask(a, None, k1)}

(* Content whose digest nobody asks for: it matches by name, or by name    *)
(* and key id.                                                             *)
MCContent == {Ask(a, h1, k1), Ask(a, h1, None), Ask(b, h1, None)}

(* The name also asked for by a hash, and content with and without a name. *)
MCHashedInterest == {Ask(a, None, None), Ask(a, h1, None)}
MCHashedContent == {Ask(a, h1, None), Ask(None, h1, None)}

(* Nothing tells links apart. *)
MCSymmetry == Permutations(Link)
============================================================================
