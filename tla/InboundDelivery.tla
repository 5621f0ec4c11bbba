--------------------------- MODULE InboundDelivery ---------------------------
(***************************************************************************)
(* A message on its way in: the SMTP session (internal/smtp/inbound), the  *)
(* resolution of its recipients (internal/routing), the recording of       *)
(* bounces (internal/bounce) and the delivery (internal/messages), among   *)
(* mailboxes that fill up, are deleted, restored and purged meanwhile      *)
(* (MailboxLifecycle).                                                     *)
(*                                                                         *)
(* The sender (external) holds one message for the addresses in want and   *)
(* tries again until each was accepted or refused for good.                *)
(***************************************************************************)
EXTENDS MailboxLifecycle, Sequences

CONSTANTS
  Addresses,  \* recipients of the message
  Verp,       \* the ones that are return paths of mail sent from here
  Tagged,     \* the ones with a plus tag
  MailboxOf,  \* MailboxOf[a]: mailboxes with that primary address, at most one
  BaseOf,     \* the same for the address without its tag
  RouteOf,    \* destinations of the route for the address
  BaseRoute,  \* the same for the address without its tag
  PatternOf,  \* destinations of the first pattern that matches
  CatchAll,   \* destinations of the catch-all route
  Size,       \* bytes of the message as the sender declares them
  Headers,    \* bytes that withTraceHeaders adds
  Burst,      \* messages_per_minute
  MaxBounceRecipients

ASSUME InboundAssumption ==
  /\ Verp \subseteq Addresses /\ Tagged \subseteq Addresses
  /\ {MailboxOf, BaseOf, RouteOf, BaseRoute, PatternOf} \subseteq [Addresses -> SUBSET Mailboxes]
  /\ CatchAll \in SUBSET Mailboxes
  /\ {Size, Headers, Burst, MaxBounceRecipients} \subseteq Nat
  /\ Size > 0 /\ MaxBounceRecipients > 0

VARIABLES
  want,     \* addresses the sender has still to reach
  session,  \* the SMTP session
  tokens,   \* the sender's bucket of the rate limiter
  bounces,  \* BounceEvent rows for each bounce address: 0, 1 or 2 for more
  refused,  \* history: addresses refused with 550 at RCPT
  acked,    \* history: copies the sender was told of, per mailbox
  lost,     \* history: copies stored whose 250 did not reach the sender
  retold,   \* history: bounces recorded by a DATA that failed afterwards, or
            \* whose 250 did not reach the sender
  steady    \* history: mailboxes active ever since the current search began

inVars == <<want, session, tokens, bounces, refused, acked, lost, retold, steady>>
vars == <<lifeVars, inVars>>

(* asked, stage: the address that is being resolved and how far; rcpt:      *)
(* mailboxes accepted for each address; verp: bounce recipients; tried:     *)
(* addresses given in RCPT; pending: mailboxes to attach to.                *)
Session == [pc : {"idle", "rcpt", "resolve", "record", "spam", "pending", "attach", "reply"},
            size : Nat, asked : SUBSET Addresses, stage : Nat,
            rcpt : [Addresses -> SUBSET Mailboxes], verp : SUBSET Addresses,
            tried : SUBSET Addresses, accepted : Nat, pending : SUBSET Mailboxes]

NoSession == [pc |-> "idle", size |-> 0, asked |-> {}, stage |-> 1, rcpt |-> [a \in Addresses |-> {}], verp |-> {},
              tried |-> {}, accepted |-> 0, pending |-> {}]

Init ==
  /\ LifeInit
  /\ want = Addresses
  /\ session = NoSession
  /\ tokens = Burst
  /\ bounces = [a \in Verp |-> 0]
  /\ refused = {}
  /\ acked = [m \in Mailboxes |-> 0]
  /\ lost = [m \in Mailboxes |-> 0]
  /\ retold = {}
  /\ steady = {}

------------------------------------------------------------------------------
(* Resolve: one query after the other, outside any transaction.             *)

(* Where they look, in order.  exactMailbox and routeResult keep what is    *)
(* active; a stage that has nothing left passes on to the next one.         *)
Stages(a) ==
  (IF a \in Tagged THEN <<RouteOf[a], BaseOf[a], BaseRoute[a]>> ELSE <<MailboxOf[a], RouteOf[a]>>)
  \o <<PatternOf[a], CatchAll>>

Kept_All(S) == IF \A m \in S : Active(m) THEN S ELSE {}
Kept(S) == {m \in S : Active(m)}

(* OverQuota, OverQuotaWith on the row the resolver read. *)
HasRoom(m, size) == Quota[m] = 0 \/ (mbox[m].used < Quota[m] /\ mbox[m].used + size <= Quota[m])

------------------------------------------------------------------------------
(* The session up to DATA. *)

(* What the sender is left with after a reply: it drops the addresses in S. *)
Ends(S) == session' = NoSession /\ want' = want \ S

(* Mail, with or without SIZE. *)
Mail ==
  /\ session.pc = "idle" /\ want # {}
  /\ tokens >= 1
  /\ tokens' = tokens - 1
  /\ \E n \in {0, Size} : session' = [NoSession EXCEPT !.pc = "rcpt", !.size = n]
  /\ UNCHANGED <<lifeVars, want, bounces, refused, acked, lost, retold, steady>>

(* chargeRecipient: the token of MAIL covers the first recipient. *)
Chargeable_First == tokens >= 1
Chargeable == session.accepted = 0 \/ tokens >= 1

Answered(a) == [session EXCEPT !.pc = "rcpt", !.asked = {}, !.stage = 1, !.tried = @ \cup {a}]

Accept(a, boxes) ==
  /\ tokens' = IF session.accepted = 0 THEN tokens ELSE tokens - 1
  /\ session' = [Answered(a) EXCEPT !.accepted = @ + 1, !.rcpt[a] = boxes,
                                    !.verp = IF a \in Verp THEN @ \cup {a} ELSE @]
  /\ UNCHANGED <<want, refused>>

(* 4xx: the sender keeps the address for later. *)
Defer(a) ==
  /\ session' = Answered(a)
  /\ UNCHANGED <<want, tokens, refused>>

Refuse(a) ==
  /\ session' = Answered(a)
  /\ want' = want \ {a}
  /\ refused' = refused \cup {a}
  /\ UNCHANGED tokens

RcptVars == <<mbox, copies, purge, purging, raced, bounces, acked, lost, retold>>

(* A bounce address; ParseRecipient takes an error of the database for an   *)
(* invalid address, which is refused for good.                              *)
RcptBounce(a) ==
  /\ session.pc = "rcpt" /\ a \in (want \cap Verp) \ session.tried
  /\ \/ /\ IF Cardinality(session.verp) < MaxBounceRecipients /\ Chargeable THEN Accept(a, {}) ELSE Defer(a)
        /\ UNCHANGED faults
     \/ Fault /\ Refuse(a)
  /\ UNCHANGED <<RcptVars, steady>>

(* Any other address is looked up. *)
Rcpt(a) ==
  /\ session.pc = "rcpt" /\ a \in want \ (session.tried \cup Verp)
  /\ session' = [session EXCEPT !.pc = "resolve", !.asked = {a}]
  /\ steady' = {m \in Mailboxes : Active(m)}
  /\ UNCHANGED <<RcptVars, faults, want, tokens, refused>>

(* One query of Resolve, and what Rcpt does once it has found a mailbox, or *)
(* the last query has found none.                                           *)
ResolveStage(a) ==
  /\ session.pc = "resolve" /\ a \in session.asked
  /\ LET found == Kept(Stages(a)[session.stage])
         boxes == {m \in found : HasRoom(m, session.size)}
         last  == session.stage = Len(Stages(a))
     IN \/ /\ found = {} /\ ~last
           /\ session' = [session EXCEPT !.stage = @ + 1]
           /\ UNCHANGED <<faults, want, tokens, refused, steady>>
        \/ /\ \/ found = {} /\ last /\ Refuse(a)
              \/ boxes # {} /\ Chargeable /\ Accept(a, boxes)
              \/ found # {} /\ (boxes = {} \/ ~Chargeable) /\ Defer(a)
           /\ steady' = {}
           /\ UNCHANGED faults
        \/ Fault /\ Defer(a) /\ steady' = {}
  /\ UNCHANGED RcptVars

(* DATA, once every address was tried; without recipients the answer is     *)
(* 554 and the sender quits.                                                *)
Data ==
  /\ session.pc = "rcpt" /\ want \subseteq session.tried
  /\ IF session.accepted = 0 THEN Ends({}) ELSE session' = [session EXCEPT !.pc = "record"] /\ UNCHANGED want
  /\ UNCHANGED <<lifeVars, tokens, bounces, refused, acked, lost, retold, steady>>

Accepted == {a \in Addresses : session.rcpt[a] # {}}

------------------------------------------------------------------------------
(* Data. *)

(* DATA fails with a temporary error. *)
Fails ==
  /\ Ends({})
  /\ retold' = retold \cup IF session.pc = "record" THEN {} ELSE session.verp

(* bounces.Record comes first; a message for bounce recipients alone is     *)
(* done with then.  It may not be read to its end, or not be stored.        *)
Upto2(n) == IF n < 2 THEN n ELSE 2
NewBounces_All == [a \in Verp |-> Upto2(bounces[a] + session.accepted)]
NewBounces == [a \in Verp |-> Upto2(bounces[a] + IF a \in session.verp THEN 1 ELSE 0)]

Record ==
  /\ session.pc = "record"
  /\ \/ /\ bounces' = NewBounces
        /\ session' = [session EXCEPT !.pc = IF Accepted = {} THEN "reply" ELSE "spam"]
        /\ UNCHANGED <<want, faults, retold>>
     \/ /\ Fault
        /\ Fails
        /\ UNCHANGED bounces
  /\ UNCHANGED <<mbox, copies, purge, purging, raced, tokens, refused, acked, lost, steady>>

(* CheckParsed passes the message on, rejects it (550) or fails (451). *)
CheckSpam ==
  /\ session.pc = "spam"
  /\ \/ /\ session' = [session EXCEPT !.pc = "pending"]
        /\ UNCHANGED <<want, faults, retold>>
     \/ Fault /\ Ends(Accepted \cup session.verp) /\ UNCHANGED retold
     \/ Fault /\ Fails
  /\ UNCHANGED <<mbox, copies, purge, purging, raced, tokens, bounces, refused, acked, lost, steady>>

(* pendingDeliveries: each mailbox once, if its folder is there; PutMessage *)
(* may fail.                                                                *)
Targets == UNION {session.rcpt[a] : a \in Addresses}

Pending ==
  /\ session.pc = "pending"
  /\ \/ /\ \A m \in Targets : mbox[m].folders
        /\ session' = [session EXCEPT !.pc = "attach", !.pending = Targets]
        /\ UNCHANGED <<want, faults, retold>>
     \/ /\ \E m \in Targets : ~mbox[m].folders
        /\ Fails
        /\ UNCHANGED faults
     \/ Fault /\ Fails
  /\ UNCHANGED <<mbox, copies, purge, purging, raced, tokens, bounces, refused, acked, lost, steady>>

(* attachInTx takes a folder and a mailbox that exist, with room for the    *)
(* message as stored.                                                       *)
Stored == Size + Headers
Attachable(m) ==
  /\ mbox[m].row /\ mbox[m].folders
  /\ Quota[m] = 0 \/ mbox[m].used + Stored <= Quota[m]

(* The mailboxes that have the message after the transaction: all, or, when *)
(* one of them cannot take it, none.                                        *)
Attached_Each == {m \in session.pending : Attachable(m)}
Attached == IF \A m \in session.pending : Attachable(m) THEN session.pending ELSE {}

BeingPurged(m) == \E p \in Purgers : purge[p].of = m /\ purge[p].step \in {"folders", "row"}

Attach ==
  /\ session.pc = "attach"
  /\ mbox' = [m \in Mailboxes |-> IF m \in Attached THEN [mbox[m] EXCEPT !.used = @ + Stored] ELSE mbox[m]]
  /\ copies' = [m \in Mailboxes |-> copies[m] + IF m \in Attached THEN 1 ELSE 0]
  /\ raced' = raced \cup {m \in Attached : BeingPurged(m)}
  /\ IF Attached = session.pending
     THEN session' = [session EXCEPT !.pc = "reply"] /\ UNCHANGED <<want, retold>>
     ELSE Fails
  /\ UNCHANGED <<purge, faults, purging, tokens, bounces, refused, acked, lost, steady>>

(* 250: it reaches the sender, or the connection is gone (the client's      *)
(* timeout, the 30 minutes of a session) and the sender will try again.     *)
Reply ==
  /\ session.pc = "reply"
  /\ LET more(f) == [m \in Mailboxes |-> f[m] + IF m \in Targets THEN 1 ELSE 0]
     IN \/ /\ acked' = more(acked)
           /\ Ends(Accepted \cup session.verp)
           /\ UNCHANGED <<lost, faults, retold>>
        \/ /\ Fault
           /\ lost' = more(lost)
           /\ Fails
           /\ UNCHANGED acked
  /\ UNCHANGED <<mbox, copies, purge, purging, raced, tokens, bounces, refused, steady>>

------------------------------------------------------------------------------
(* Surroundings. *)

Refill ==
  /\ tokens < Burst
  /\ tokens' = tokens + 1
  /\ UNCHANGED <<lifeVars, want, session, bounces, refused, acked, lost, retold, steady>>

(* Other mail comes and goes. *)
OtherMail(m) ==
  /\ mbox[m].row /\ Quota[m] > 0
  /\ \E used \in {mbox[m].used - 1, mbox[m].used + 1} :
       /\ used >= copies[m] * Stored /\ used <= Quota[m]
       /\ mbox' = [mbox EXCEPT ![m].used = used]
  /\ UNCHANGED <<copies, purge, faults, purging, raced, inVars>>

Deliver == Record \/ CheckSpam \/ Pending \/ Attach \/ Reply

(* The others, while a search may be going on. *)
Beside(step) ==
  /\ step
  /\ steady' = {m \in steady : Active(m)'}
  /\ UNCHANGED <<want, session, tokens, bounces, refused, acked, lost, retold>>

Meanwhile == Beside(LifeNext)

Next ==
  \/ Meanwhile
  \/ Mail \/ (\E a \in Addresses : RcptBounce(a) \/ Rcpt(a) \/ ResolveStage(a)) \/ Data \/ Deliver
  \/ Refill
  \/ \E m \in Mailboxes : OtherMail(m)

Spec == Init /\ [][Next]_vars

(* The sender goes on trying, a command is answered, tokens come back, the  *)
(* cleanup worker comes round.  Nothing is assumed of those who change      *)
(* mailboxes.                                                               *)
Fairness ==
  /\ WF_vars(Mail) /\ WF_vars(\E a \in Addresses : RcptBounce(a) \/ Rcpt(a) \/ ResolveStage(a))
  /\ WF_vars(Data)
  /\ WF_vars(Deliver) /\ WF_vars(Refill) /\ WF_vars(Beside(Cleanup))

FairSpec == Spec /\ Fairness

------------------------------------------------------------------------------
(* Properties. *)

(* The session and the counters have their shape; the bucket never owes. *)
TypeOK ==
  /\ LifeTypeOK
  /\ want \subseteq Addresses /\ session \in Session /\ tokens \in Nat
  /\ bounces \in [Verp -> 0..2]
  /\ refused \subseteq Addresses /\ retold \subseteq Addresses
  /\ steady \subseteq Mailboxes
  /\ acked \in [Mailboxes -> Nat] /\ lost \in [Mailboxes -> Nat]

(* What the sender was told is what was stored: a mailbox holds one copy    *)
(* for every 250 that covered it and one for every 250 that was lost, and   *)
(* nothing of a DATA that failed for another recipient's sake.              *)
StoredAsTold ==
  \A m \in Mailboxes \ purging :
    copies[m] = acked[m] + lost[m] + (IF session.pc = "reply" /\ m \in Targets THEN 1 ELSE 0)

(* An address is refused for good only if no mailbox that it can lead to    *)
(* was active throughout the search, whatever was deleted, disabled,        *)
(* restored or purged between its queries, and although an earlier stage    *)
(* takes precedence over a later one.  (One that is restored behind the     *)
(* search is missed, even while another is deleted ahead of it.)            *)
RefusedOnlyIfNone ==
  [][\A a \in (refused' \ refused) \ Verp :
       \A i \in DOMAIN Stages(a) : Stages(a)[i] \cap steady = {}]_vars

(* A bounce the sender is rid of was recorded, unless it was refused; and   *)
(* once only, unless a DATA failed after the recording or its 250 was lost: *)
(* the sender repeats it and the bounce is recorded again.                  *)
BouncesRecorded ==
  \A a \in Verp :
    /\ a \notin want \cup refused => bounces[a] > 0
    /\ bounces[a] > 1 => a \in retold

(* If in the end every mailbox in use has its folders and room for the      *)
(* message, the sender gets rid of it.  That has to hold of every mailbox:  *)
(* one that passes RCPT and fails in DATA holds up all the others.          *)
Clear == \A m \in Mailboxes : Active(m) => Attachable(m)
GetsThrough == <>[]Clear => <>(want = {})

==============================================================================
