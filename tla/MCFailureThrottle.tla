-------------------------- MODULE MCFailureThrottle --------------------------
(* An instance of FailureThrottle for TLC: a connection to each server.     *)
EXTENDS FailureThrottle, TLC

CONSTANTS imap, smtp, l1, l2

MCNodeOf == l1 :> imap @@ l2 :> smtp
==============================================================================
