----------------------------- MODULE MCDNSCache -----------------------------
(***************************************************************************)
(* DNSCache on a small instance: three clients, two hosts, one entry.      *)
(***************************************************************************)
EXTENDS DNSCache, TLC

ClientSymmetry == Permutations(Clients)
=============================================================================
