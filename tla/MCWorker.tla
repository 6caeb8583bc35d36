------------------------------ MODULE MCWorker ------------------------------
(***************************************************************************)
(* Worker on a small instance: one session, one reconnection, queues of    *)
(* one slot.                                                               *)
(***************************************************************************)
EXTENDS Worker

=============================================================================
