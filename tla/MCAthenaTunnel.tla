--------------------------- MODULE MCAthenaTunnel ---------------------------
(***************************************************************************)
(* The private network of producer `host' behind gateway `inside', and two *)
(* gateways, `left' and `right', whose routes for the names of the private *)
(* network lead through the tunnel.  Consumer a is behind left and c behind *)
(* right.  Nobody routes Nowhere.                                          *)
(***************************************************************************)
EXTENDS AthenaTunnel

CONSTANTS left, right, inside, host, a, c, Data, Nowhere

MCForwarder == {left, right, inside}
MCName == {Data, Nowhere}
MCHome == [x \in Consumer |-> IF x = a THEN left ELSE right]

MCWanted == [x \in Consumer |-> IF x = c THEN {Data, Nowhere} ELSE {Data}]

ToHost == [links |-> {host}, to |-> None]
Tunnel == [links |-> {inside}, to |-> inside]
MCRoutes == [f \in Forwarder |-> [n \in Name \cup Forwarder |->
  IF n # Data THEN None ELSE IF f = inside THEN ToHost ELSE Tunnel]]

(* The hypothesis of the theorems about the tunnel holds here.             *)
ASSUME MCPrivateNetworks == PrivateNetworks
=============================================================================
