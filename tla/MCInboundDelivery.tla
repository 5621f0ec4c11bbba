-------------------------- MODULE MCInboundDelivery --------------------------
(* An instance of InboundDelivery for TLC: a route sends x+tag@ to both     *)
(* mailboxes, else it goes to the mailbox of x@ or to the catch-all.        *)
EXTENDS InboundDelivery

CONSTANTS x, y, plus

MCQuota == [m \in Mailboxes |-> IF m = x THEN 2 ELSE 0]
MCNone == [a \in Addresses |-> {}]
MCRouteOf == [a \in Addresses |-> IF a = plus THEN {x, y} ELSE {}]
MCBaseOf == [a \in Addresses |-> IF a = plus THEN {x} ELSE {}]
==============================================================================
