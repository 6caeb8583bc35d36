---------------------------- MODULE MCProxyLink ----------------------------
(***************************************************************************)
(* ProxyLink on small instances: two clients, one or two dials, queues of  *)
(* one slot.  The .cfg files give the constants their values.              *)
(***************************************************************************)
EXTENDS ProxyLink
=============================================================================
