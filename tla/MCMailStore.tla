---------------------------- MODULE MCMailStore ----------------------------
(* Instances of MailStore for TLC. *)
EXTENDS MailStore, TLC

CONSTANTS m1, m2

(* Two messages of different size, so that a byte freed or charged for the *)
(* wrong one shows.                                                         *)
MCSize == [m \in Messages |-> IF m = m1 THEN 1 ELSE 2]

(* Where bytes do not matter, messages of one size are interchangeable. *)
MCUnit == [m \in Messages |-> 1]
MessageSymmetry == Permutations(Messages)

=============================================================================
