------------------------- MODULE MCSubmissionLimits --------------------------
(* An instance of SubmissionLimits for TLC. *)
EXTENDS SubmissionLimits

CONSTANTS d1, d2, a

MCKind == [c \in Clients |-> IF c = a THEN "append" ELSE IF c \in {d1, d2} THEN "domain" ELSE "mailbox"]
==============================================================================
