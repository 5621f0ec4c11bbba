-------------------------- MODULE SubmissionLimits ---------------------------
(***************************************************************************)
(* Submissions that run at once (internal/outbound/submission.go), for one *)
(* mailbox (Submit) and for one sender domain (SubmitForDomain), beside    *)
(* appends to the Sent folder of that mailbox (mailstore.Attach, as IMAP   *)
(* APPEND, COPY and the import use it).  A submission looks at the send    *)
(* limits, signs and stores the message, and looks again in a transaction  *)
(* that begins by locking the mailbox row or the DKIM keys of the domain.  *)
(*                                                                         *)
(* PostgreSQL (external) keeps a row that a transaction has updated locked *)
(* until it ends, and aborts one of the transactions that wait for each    *)
(* other in a circle.                                                      *)
(***************************************************************************)
EXTENDS Integers, FiniteSets, Sequences

CONSTANTS
  Clients,
  Kind,       \* Kind[c]: "mailbox" or "domain" submissions, or "append"
  Counts,     \* numbers of recipients
  PerHour, PerDay, RecipientsPerMessage,
  Hour, Day   \* in units of time

Nobody == "nobody"

ASSUME LimitsAssumption ==
  /\ IsFiniteSet(Clients) /\ Nobody \notin Clients
  /\ Kind \in [Clients -> {"mailbox", "domain", "append"}]
  /\ Counts \subseteq Nat \ {0}
  /\ {PerHour, PerDay, RecipientsPerMessage} \subseteq Nat
  /\ {Hour, Day} \subseteq Nat \ {0} /\ Hour < Day

Scopes == {"mailbox", "domain"}
Rows == {"mailbox", "sent", "keys"}

VARIABLES
  jobs,    \* recipients of the OutboundJob rows of each scope and age
  lock,    \* the transaction that has a row locked
  client   \* what each client is doing

vars == <<jobs, lock, client>>

(* at: the next row in the plan of the transaction; age: time since the     *)
(* job was created in it.                                                   *)
Client == [pc : {"idle", "put", "tx", "commit"}, count : Nat, at : Nat, age : 0..1]
Ready == [pc |-> "idle", count |-> 0, at |-> 1, age |-> 0]

Init ==
  /\ jobs = [s \in Scopes |-> [a \in 0..Day - 1 |-> 0]]
  /\ lock = [r \in Rows |-> Nobody]
  /\ client = [c \in Clients |-> Ready]

Submitters == {c \in Clients : Kind[c] \in Scopes}

------------------------------------------------------------------------------
(* A definition Name_Fault that precedes Name is Name with a mistake the    *)
(* code could contain; with it in place of Name a property must fail.       *)

(* The rows a transaction updates, in order: LockMailbox or                 *)
(* lockSenderDomain, then attachInTx, which takes a UID from the folder and *)
(* adds to used_bytes of the mailbox.                                       *)
Plan(c) ==
  CASE Kind[c] = "mailbox" -> <<"mailbox", "sent", "mailbox">>
    [] Kind[c] = "domain"  -> <<"keys">>
    [] Kind[c] = "append"  -> <<"sent", "mailbox">>

(* recipientsSince: the recipients of the jobs of each age, numbered. *)
Since(s, time) == Cardinality(UNION {{a} \X (1..jobs[s][a]) : a \in 0..time - 1})

(* enforceLimits; a limit of 0 is none. *)
Within(c, n) ==
  LET s == Kind[c]
  IN /\ RecipientsPerMessage > 0 => n <= RecipientsPerMessage
     /\ PerHour > 0 => Since(s, Hour) + n <= PerHour
     /\ PerDay > 0 => Since(s, Day) + n <= PerDay

(* Submit, SubmitForDomain up to the transaction: the first look. *)
Prepare(c) ==
  /\ c \in Submitters /\ client[c].pc = "idle"
  /\ \E n \in Counts :
       /\ Within(c, n)
       /\ client' = [client EXCEPT ![c].pc = "put", ![c].count = n]
  /\ UNCHANGED <<jobs, lock>>

(* The message is stored and the transaction opened. *)
Begin(c) ==
  /\ \/ client[c].pc = "put"
     \/ client[c].pc = "idle" /\ Kind[c] = "append"
  /\ client' = [client EXCEPT ![c].pc = "tx"]
  /\ UNCHANGED <<jobs, lock>>

(* Rollback, and the end of a transaction in general. *)
Ended_Early(c) == /\ client' = [client EXCEPT ![c] = Ready]
                  /\ UNCHANGED lock
Ended(c) == /\ client' = [client EXCEPT ![c] = Ready]
            /\ lock' = [r \in Rows |-> IF lock[r] = c THEN Nobody ELSE lock[r]]

(* The limits are looked at again once the first row is locked. *)
Recheck_No(c) == FALSE
Recheck(c) == c \in Submitters /\ client[c].at = 1

Update(c) ==
  LET r == Plan(c)[client[c].at]
  IN /\ client[c].pc = "tx" /\ client[c].at <= Len(Plan(c))
     /\ lock[r] \in {Nobody, c}
     /\ \/ /\ Recheck(c) => Within(c, client[c].count)
           /\ lock' = [lock EXCEPT ![r] = c]
           /\ client' = [client EXCEPT ![c].at = @ + 1]
        \/ /\ Recheck(c) /\ ~Within(c, client[c].count)
           /\ Ended(c)
     /\ UNCHANGED jobs

(* OutboundJob.Create; an append has no job. *)
Create(c) ==
  /\ client[c].pc = "tx" /\ client[c].at > Len(Plan(c))
  /\ client' = [client EXCEPT ![c].pc = "commit"]
  /\ UNCHANGED <<jobs, lock>>

Commit(c) ==
  /\ client[c].pc = "commit"
  /\ jobs' = IF c \in Submitters
             THEN [jobs EXCEPT ![Kind[c]][client[c].age] = @ + client[c].count]
             ELSE jobs
  /\ Ended(c)

------------------------------------------------------------------------------
(* PostgreSQL. *)

WaitsFor(c, d) ==
  /\ c # d /\ client[c].pc = "tx" /\ client[c].at <= Len(Plan(c))
  /\ lock[Plan(c)[client[c].at]] = d

(* Circles here have two members: no transaction locks more than two rows.  *)
Deadlocked(c) == \E d \in Clients : WaitsFor(c, d) /\ WaitsFor(d, c)

(* A transaction is aborted: to break a circle, over the quota, or because  *)
(* the connection is lost; or the message could not be stored before it.    *)
Abort(c) ==
  /\ client[c].pc \in {"put", "tx", "commit"}
  /\ Ended(c)
  /\ UNCHANGED jobs

BreakCircle(c) == Deadlocked(c) /\ Abort(c)

(* Time passes; a transaction is shorter than a unit. *)
Tick ==
  /\ \A c \in Clients : client[c].age = 0
  /\ jobs' = [s \in Scopes |-> [a \in 0..Day - 1 |-> IF a = 0 THEN 0 ELSE jobs[s][a - 1]]]
  /\ client' = [c \in Clients |-> IF client[c].pc = "commit" THEN [client[c] EXCEPT !.age = 1] ELSE client[c]]
  /\ UNCHANGED lock

Step(c) == Begin(c) \/ Update(c) \/ Create(c) \/ Commit(c)

Next ==
  \/ \E c \in Clients : Prepare(c) \/ Step(c) \/ Abort(c)
  \/ Tick

Spec == Init /\ [][Next]_vars

(* A transaction goes on when its row is free (and is not passed over for   *)
(* ever by others), and a circle is found.                                  *)
FairSpec == Spec /\ \A c \in Clients : SF_vars(Step(c)) /\ WF_vars(BreakCircle(c))

------------------------------------------------------------------------------
(* Properties. *)

(* Every value has its shape. *)
TypeOK ==
  /\ jobs \in [Scopes -> [0..Day - 1 -> Nat]]
  /\ lock \in [Rows -> Clients \cup {Nobody}]
  /\ client \in [Clients -> Client]

(* No more recipients than the limits allow are accepted within an hour, or *)
(* within a day, however many submissions run at once.                      *)
LimitsHold ==
  \A s \in Scopes :
    /\ PerHour > 0 => Since(s, Hour) <= PerHour
    /\ PerDay > 0 => Since(s, Day) <= PerDay

(* Whoever has begun a transaction is done with it some time. *)
Ends == \A c \in Clients : client[c].pc = "tx" ~> client[c].pc = "idle"

==============================================================================
