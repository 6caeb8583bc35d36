--------------------------- MODULE MCUDPAssociate ---------------------------
(***************************************************************************)
(* UDPAssociate on a small instance: a direct target with two addresses, a *)
(* broker target and a datagram that is rejected.                          *)
(***************************************************************************)
EXTENDS UDPAssociate

CONSTANTS d1, d2, b1

MCPlans == {<<>>, <<d1, d2>>, <<b1>>}
=============================================================================
