---------------------------- MODULE OutboundQueue ----------------------------
(***************************************************************************)
(* The outbound_jobs queue: submissions enqueue, the relay workers of one  *)
(* or more server instances (internal/outbound/relay.go) claim, deliver    *)
(* and finish, the cleanup worker (internal/cleanup/worker.go) recovers    *)
(* lapsed leases and prunes old rows.                                      *)
(*                                                                         *)
(* A claim is a lease: locked_by names the claiming INSTANCE (the workers  *)
(* of an instance share server.instance_name), locked_until bounds it.     *)
(* Clocks are abstracted to what the queries ask of them: whether          *)
(* locked_until has passed (lease) and whether next_attempt_at has (due).  *)
(*                                                                         *)
(* A worker takes separate steps for the claim, the SMTP transaction, the  *)
(* update that finishes the job and the report of a failure; an instance   *)
(* may crash between any two, and a slow worker may outlive its lease.     *)
(***************************************************************************)
EXTENDS Integers, FiniteSets

CONSTANTS
  Jobs,         \* ids of jobs, numbered in the order of created_at
  Instances,    \* server instances
  Workers,      \* relay goroutines of all instances
  InstanceOf,   \* InstanceOf[w]: the instance w runs in
  NoOwner,      \* locked_by is NULL
  MaxAttempts,  \* relay.max_attempts
  MaxFaults     \* bound on crashes, late workers, lost replies, failed writes

ASSUME QueueAssumption ==
  /\ Jobs \subseteq Nat /\ Jobs # {}
  /\ IsFiniteSet(Workers) /\ InstanceOf \in [Workers -> Instances]
  /\ NoOwner \notin Instances
  /\ MaxAttempts \in Nat \ {0}
  /\ MaxFaults \in Nat

VARIABLES
  job,       \* OutboundJob rows
  message,   \* the Message row of a job exists
  at,        \* what each worker is doing
  faults,    \* number of faults so far
  claims,    \* history: times a job was claimed
  accepted,  \* history: times the relay accepted a job's message
  reported,  \* history: times the failure of a job was reported
  excuses    \* history: lapsed leases and lost replies of a job

vars == <<job, message, at, faults, claims, accepted, reported, excuses>>

Open    == {"queued", "retry", "processing"}
Settled == {"sent", "failed"}
Results == {"success", "temporary", "permanent"}

(* lease: locked_until is NULL, lies ahead, or has passed.                  *)
JobRow == [status : {"absent", "pruned"} \cup Open \cup Settled, attempts : Nat,
           owner : Instances \cup {NoOwner}, lease : {"none", "held", "lapsed"},
           due : BOOLEAN]

(* attempts: as RETURNED by the claim; serial: which claim of the job it is *)
(* (history).                                                               *)
Activity == [pc : {"idle", "claimed", "delivered", "report"}, job : Jobs,
             attempts : Nat, result : Results, serial : Nat]

Idle == [pc |-> "idle", job |-> CHOOSE j \in Jobs : TRUE, attempts |-> 0,
         result |-> "temporary", serial |-> 0]

Init ==
  /\ job = [j \in Jobs |-> [status |-> "absent", attempts |-> 0, owner |-> NoOwner,
                            lease |-> "none", due |-> TRUE]]
  /\ message = [j \in Jobs |-> FALSE]
  /\ at = [w \in Workers |-> Idle]
  /\ faults = 0
  /\ claims = [j \in Jobs |-> 0]
  /\ accepted = [j \in Jobs |-> 0]
  /\ reported = [j \in Jobs |-> 0]
  /\ excuses = [j \in Jobs |-> 0]

Busy(w)      == at[w].pc # "idle"
(* The worker whose claim is the latest one of the job. *)
Holder(w, j) == at[w].pc \in {"claimed", "delivered"} /\ at[w].job = j /\ at[w].serial = claims[j]

Fault == faults < MaxFaults /\ faults' = faults + 1

------------------------------------------------------------------------------
(* A definition Name_Fault that precedes Name is Name with a mistake the    *)
(* code could contain; with it in place of Name a property below must fail. *)

(* Submit, SubmitForDomain: message and job in one transaction. *)
Enqueue(j) ==
  /\ job[j].status = "absent"
  /\ \A k \in Jobs : k < j => job[k].status # "absent"
  /\ job' = [job EXCEPT ![j].status = "queued"]
  /\ message' = [message EXCEPT ![j] = TRUE]
  /\ UNCHANGED <<at, faults, claims, accepted, reported, excuses>>

(* The WHERE clause of the claim. *)
Claimable_IgnoresLease(j) == job[j].status \in Open /\ job[j].due
Claimable_NoRetry(j) == job[j].status \in {"queued", "processing"} /\ job[j].due /\ job[j].lease # "held"
Claimable(j) == job[j].status \in Open /\ job[j].due /\ job[j].lease # "held"

(* claim: the oldest claimable job; a lapsed lease that is taken over       *)
(* counts as an attempt.                                                    *)
Claim(w, j) ==
  /\ at[w].pc = "idle"
  /\ Claimable(j)
  /\ \A k \in Jobs : Claimable(k) => j <= k
  /\ LET n == job[j].attempts + (IF job[j].status = "processing" THEN 1 ELSE 0)
     IN /\ job' = [job EXCEPT ![j] = [status |-> "processing", attempts |-> n,
                                      owner |-> InstanceOf[w], lease |-> "held", due |-> TRUE]]
        /\ at' = [at EXCEPT ![w] = [pc |-> "claimed", job |-> j, attempts |-> n,
                                    result |-> "temporary", serial |-> claims[j] + 1]]
  /\ claims' = [claims EXCEPT ![j] = @ + 1]
  /\ UNCHANGED <<message, faults, accepted, reported, excuses>>

(* deliver, sendViaRelay: the message is fetched and handed to the relay.   *)
(* The relay may accept it and the reply get lost (the connection breaks at *)
(* the closing of DATA): classifySMTPError calls that temporary.            *)
Deliver(w) ==
  /\ at[w].pc = "claimed"
  /\ \E r \in Results, taken \in BOOLEAN :
       LET j == at[w].job
       IN /\ r = "success" => taken
          /\ r = "permanent" => ~taken
          /\ taken => message[j]
          /\ at' = [at EXCEPT ![w].pc = "delivered", ![w].result = r]
          /\ accepted' = [accepted EXCEPT ![j] = @ + IF taken THEN 1 ELSE 0]
          /\ IF taken /\ r # "success"
             THEN Fault /\ excuses' = [excuses EXCEPT ![j] = @ + 1]
             ELSE UNCHANGED <<faults, excuses>>
  /\ UNCHANGED <<job, message, claims, reported>>

Exhausted(n) == n >= MaxAttempts

(* finish: the row by the result and by the attempts the worker read when   *)
(* it claimed.  AddAttempts adds to the row's own count.                    *)
Outcome(row, act) ==
  LET again == act.result = "temporary" /\ ~Exhausted(act.attempts + 1)
  IN IF act.result = "success"
     THEN [row EXCEPT !.status = "sent", !.due = TRUE]
     ELSE [row EXCEPT !.status = IF again THEN "retry" ELSE "failed",
                      !.due = IF again THEN FALSE ELSE @,
                      !.attempts = @ + 1]

(* ClearLockedBy, ClearLockedUntil. *)
Released(row) == [row EXCEPT !.owner = NoOwner, !.lease = "none"]

Finished_StoresResult(row, act) == [Released(Outcome(row, act)) EXCEPT !.status = act.result]
Finished(row, act) == Released(Outcome(row, act))

(* The guard of finish's UPDATE: LockedByEQ(w.workerID). *)
MayFinish_Anyone(w) == job[at[w].job].status \notin {"absent", "pruned"}
MayFinish(w) == job[at[w].job].owner = InstanceOf[w]

(* The update applies and, if the job failed, the report comes next; or it  *)
(* finds no row to update; or the write itself fails.                       *)
Finish(w) ==
  /\ at[w].pc = "delivered"
  /\ \/ /\ MayFinish(w)
        /\ LET j == at[w].job
               row == Finished(job[j], at[w])
           IN /\ job' = [job EXCEPT ![j] = row]
              /\ at' = [at EXCEPT ![w] = IF row.status = "failed"
                                         THEN [@ EXCEPT !.pc = "report"] ELSE Idle]
        /\ UNCHANGED faults
     \/ /\ ~MayFinish(w)
        /\ at' = [at EXCEPT ![w] = Idle]
        /\ UNCHANGED <<job, faults>>
     \/ /\ Fault
        /\ at' = [at EXCEPT ![w] = Idle]
        /\ UNCHANGED job
  /\ UNCHANGED <<message, claims, accepted, reported, excuses>>

(* reportFailure: a notification mail or a message.bounced event; its error *)
(* is ignored.                                                              *)
Report(w) ==
  /\ at[w].pc = "report"
  /\ \/ /\ reported' = [reported EXCEPT ![at[w].job] = @ + 1]
        /\ UNCHANGED faults
     \/ Fault /\ UNCHANGED reported
  /\ at' = [at EXCEPT ![w] = Idle]
  /\ UNCHANGED <<job, message, claims, accepted, excuses>>

------------------------------------------------------------------------------
(* The passing of time, crashes, cleanup. *)

(* next_attempt_at passes. *)
BecomeDue(j) ==
  /\ ~job[j].due
  /\ job' = [job EXCEPT ![j].due = TRUE]
  /\ UNCHANGED <<message, at, faults, claims, accepted, reported, excuses>>

(* locked_until passes after its holder is gone. *)
Lapse(j) ==
  /\ job[j].lease = "held"
  /\ job' = [job EXCEPT ![j].lease = "lapsed"]
  /\ excuses' = [excuses EXCEPT ![j] = @ + 1]
  /\ UNCHANGED <<message, at, claims, accepted, reported>>

LapseAbandoned(j) ==
  /\ \A w \in Workers : ~Holder(w, j)
  /\ Lapse(j)
  /\ UNCHANGED faults

(* locked_until passes while its holder is still at work: fetching the      *)
(* message and the updates have no deadline that the lease covers.          *)
LapseLate(j) ==
  /\ \E w \in Workers : Holder(w, j)
  /\ Lapse(j)
  /\ Fault

(* An instance stops and starts again: its workers forget what they did. *)
Crash(i) ==
  /\ Fault
  /\ \E w \in Workers : InstanceOf[w] = i /\ Busy(w)
  /\ at' = [w \in Workers |-> IF InstanceOf[w] = i THEN Idle ELSE at[w]]
  /\ UNCHANGED <<job, message, claims, accepted, reported, excuses>>

(* recoverStaleLeases: one UPDATE over every lapsed row. *)
Recovered_Uncounted(row) == [Released(row) EXCEPT !.status = "retry"]
Recovered(row) == [Released(row) EXCEPT !.status = "retry", !.attempts = @ + 1]

Stale(row) == row.status = "processing" /\ row.lease = "lapsed"

RecoverStaleLeases ==
  /\ \E j \in Jobs : Stale(job[j])
  /\ job' = [j \in Jobs |-> IF Stale(job[j]) THEN Recovered(job[j]) ELSE job[j]]
  /\ UNCHANGED <<message, at, faults, claims, accepted, reported, excuses>>

(* cleanupOrphanedMessages: the message goes once no open job needs it (and *)
(* no mailbox holds it).                                                    *)
Orphaned_BetweenRetries(j) == job[j].status \notin {"queued", "processing"}
Orphaned(j) == job[j].status \notin Open

RemoveMessage(j) ==
  /\ message[j]
  /\ Orphaned(j)
  /\ message' = [message EXCEPT ![j] = FALSE]
  /\ UNCHANGED <<job, at, faults, claims, accepted, reported, excuses>>

(* pruneHistory. *)
Prune(j) ==
  /\ job[j].status \in Settled
  /\ job' = [job EXCEPT ![j].status = "pruned"]
  /\ UNCHANGED <<message, at, faults, claims, accepted, reported, excuses>>

Next ==
  \/ \E j \in Jobs :
       \/ Enqueue(j) \/ BecomeDue(j) \/ LapseAbandoned(j) \/ LapseLate(j)
       \/ RemoveMessage(j) \/ Prune(j)
       \/ \E w \in Workers : Claim(w, j)
  \/ \E w \in Workers : Deliver(w) \/ Finish(w) \/ Report(w)
  \/ \E i \in Instances : Crash(i)
  \/ RecoverStaleLeases

Spec == Init /\ [][Next]_vars

(* Every relay goroutine keeps polling and every step of ProcessOne ends    *)
(* (the SMTP transaction by its timeout, the update by its 30 s deadline);  *)
(* time passes.  Nothing is assumed of the cleanup worker.                  *)
Fairness ==
  /\ \A w \in Workers : /\ WF_vars(\E j \in Jobs : Claim(w, j))
                        /\ WF_vars(Deliver(w)) /\ WF_vars(Finish(w)) /\ WF_vars(Report(w))
  /\ \A j \in Jobs : WF_vars(BecomeDue(j)) /\ WF_vars(LapseAbandoned(j))

FairSpec == Spec /\ Fairness

------------------------------------------------------------------------------
(* Properties. *)

(* Rows, workers and counters have their shape. *)
TypeOK ==
  /\ job \in [Jobs -> JobRow]
  /\ message \in [Jobs -> BOOLEAN]
  /\ at \in [Workers -> Activity]
  /\ faults \in Nat
  /\ claims \in [Jobs -> Nat] /\ accepted \in [Jobs -> Nat]
  /\ reported \in [Jobs -> Nat] /\ excuses \in [Jobs -> Nat]

(* attempts is exact: it counts the claims that did not end in success,     *)
(* however they ended (finish, a takeover of a lapsed lease by claim, or    *)
(* recoverStaleLeases), each once, also when a worker outlives its lease.   *)
AttemptsExact ==
  \A j \in Jobs : job[j].status # "pruned" =>
    claims[j] = job[j].attempts + (IF job[j].status \in {"processing", "sent"} THEN 1 ELSE 0)

(* The failure of a job is reported at most once, and only of a job that    *)
(* has failed for good, although several workers may deliver it at a time.  *)
ReportedOnce ==
  \A j \in Jobs :
    /\ reported[j] <= 1
    /\ reported[j] = 1 => job[j].status \in {"failed", "pruned"}

OwnedIffProcessing ==
  \A j \in Jobs : (job[j].owner # NoOwner) <=> (job[j].status = "processing")

OneReporter ==
  \A w \in Workers : at[w].pc = "report" =>
    /\ job[at[w].job].status \in {"failed", "pruned"}
    /\ reported[at[w].job] = 0
    /\ \A v \in Workers : at[v].pc = "report" /\ at[v].job = at[w].job => v = w

(* What makes these inductive: locked_by is set exactly while a job is      *)
(* processing, so the guard of finish also keeps it off settled rows; and a *)
(* failed job has one reporter, which has not reported yet.                 *)
LeaseInv == OwnedIffProcessing /\ OneReporter

(* A settled job stays settled: no late worker, takeover or recovery        *)
(* queues it again or turns sent into failed.                               *)
SettledForGood ==
  [][\A j \in Jobs : job[j].status \in Settled =>
       job'[j].status \in {job[j].status, "pruned"}]_vars

(* The relay takes a message, or its failure is reported, once: a second    *)
(* time needs a lapsed lease or a lost reply each.  Without those, at most  *)
(* one copy leaves, and no bounce is reported for mail that went out.       *)
OneOutcome == \A j \in Jobs : accepted[j] + reported[j] <= 1 + excuses[j]

(* The message of a job in the queue is not cleaned away under it. *)
OpenHasMessage == \A j \in Jobs : job[j].status \in Open => message[j]

(* The queue that submitters see: leases, attempts and workers are hidden,  *)
(* a failure is owed while some worker is about to report it.               *)
Seen(status) ==
  CASE status \in Open   -> "open"
    [] status = "pruned" -> "gone"
    [] OTHER             -> status

Owed(j) == \E w \in Workers : at[w].pc = "report" /\ at[w].job = j

StateView == [j \in Jobs |-> Seen(job[j].status)]
OwedView  == [j \in Jobs |-> Owed(j)]

Promise == INSTANCE DeliveryQueue WITH state <- StateView, owed <- OwedView, told <- reported

(* The relay's queue implements DeliveryQueue: whatever crashes, takeovers  *)
(* and late workers do, each step is one that DeliveryQueue allows, or      *)
(* invisible, and an open job is settled in the end.                        *)
KeepsPromise == Promise!FairSpec

==============================================================================
