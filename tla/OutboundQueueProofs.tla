------------------------- MODULE OutboundQueueProofs -------------------------
(***************************************************************************)
(* What OutboundQueue promises for any number of jobs, instances, workers  *)
(* and faults: types, the accounting of attempts, that a failure is        *)
(* reported at most once, that a settled job stays settled and an open one *)
(* keeps its message, and that the queue implements DeliveryQueue.         *)
(***************************************************************************)
EXTENDS OutboundQueue, FiniteSetTheorems, TLAPS

(* A worker at rest is well formed. *)
LEMMA IdleType == Idle \in Activity
<1>1. (CHOOSE j \in Jobs : TRUE) \in Jobs
  BY QueueAssumption
<1>. QED
  BY <1>1 DEF Idle, Activity, Results

(* An empty queue is well typed. *)
LEMMA InitType == Init => TypeOK
  BY IdleType DEF Init, TypeOK, JobRow, Open, Settled

(* Clearing the lock touches nothing else. *)
LEMMA ReleasedType ==
  ASSUME NEW row \in JobRow
  PROVE  /\ Released(row) \in JobRow /\ Released(row).owner = NoOwner
         /\ Released(row).status = row.status /\ Released(row).attempts = row.attempts
  BY DEF Released, JobRow

(* What finish makes of a row is a row. *)
LEMMA OutcomeType ==
  ASSUME NEW row \in JobRow, NEW act \in Activity
  PROVE  /\ Outcome(row, act) \in JobRow
         /\ Outcome(row, act).status \in {"sent", "retry", "failed"}
         /\ Outcome(row, act).attempts =
              row.attempts + (IF Outcome(row, act).status = "sent" THEN 0 ELSE 1)
<1>1. row.attempts \in Nat /\ row.attempts + 1 \in Nat /\ row.attempts + 0 = row.attempts
  BY DEF JobRow
<1>2. CASE act.result = "success"
  <2>1. Outcome(row, act) = [row EXCEPT !.status = "sent", !.due = TRUE]
    BY <1>2 DEF Outcome
  <2>. QED
    BY <1>1, <2>1 DEF JobRow, Settled
<1>3. CASE act.result = "temporary" /\ ~Exhausted(act.attempts + 1)
  <2>1. Outcome(row, act) =
          [row EXCEPT !.status = "retry", !.due = FALSE, !.attempts = row.attempts + 1]
    BY <1>3 DEF Outcome
  <2>. QED
    BY <1>1, <2>1 DEF JobRow, Open
<1>4. CASE act.result # "success" /\ ~(act.result = "temporary" /\ ~Exhausted(act.attempts + 1))
  <2>1. Outcome(row, act) =
          [row EXCEPT !.status = "failed", !.due = row.due, !.attempts = row.attempts + 1]
    BY <1>4 DEF Outcome
  <2>. QED
    BY <1>1, <2>1 DEF JobRow, Settled
<1>. QED
  BY <1>2, <1>3, <1>4

(* finish leaves a well-formed row. *)
LEMMA FinishedType ==
  ASSUME NEW row \in JobRow, NEW act \in Activity
  PROVE  /\ Finished(row, act) \in JobRow
         /\ Finished(row, act).owner = NoOwner
         /\ Finished(row, act).status \in {"sent", "retry", "failed"}
         /\ Finished(row, act).attempts =
              row.attempts + (IF Finished(row, act).status = "sent" THEN 0 ELSE 1)
  BY OutcomeType, ReleasedType DEF Finished

(* What recoverStaleLeases makes of a row is a row. *)
LEMMA RecoveredType ==
  ASSUME NEW row \in JobRow
  PROVE  /\ Recovered(row) \in JobRow /\ Recovered(row).owner = NoOwner
         /\ Recovered(row).status = "retry" /\ Recovered(row).attempts = row.attempts + 1
<1>1. Released(row) \in JobRow /\ Released(row).owner = NoOwner /\ Released(row).attempts = row.attempts
  BY ReleasedType
<1>2. row.attempts + 1 \in Nat
  BY DEF JobRow
<1>3. Recovered(row) = [Released(row) EXCEPT !.status = "retry", !.attempts = row.attempts + 1]
  BY <1>1 DEF Recovered
<1>. QED
  BY <1>1, <1>2, <1>3 DEF JobRow, Open

(* The row a claim leaves behind. *)
LEMMA ClaimRow ==
  ASSUME TypeOK, NEW w \in Workers, NEW j \in Jobs, Claim(w, j)
  PROVE  \E n \in Nat :
           /\ n = job[j].attempts + (IF job[j].status = "processing" THEN 1 ELSE 0)
           /\ job' = [job EXCEPT ![j] = [status |-> "processing", attempts |-> n,
                                 owner |-> InstanceOf[w], lease |-> "held", due |-> TRUE]]
           /\ at' = [at EXCEPT ![w] = [pc |-> "claimed", job |-> j, attempts |-> n,
                                       result |-> "temporary", serial |-> claims[j] + 1]]
<1>1. job[j].attempts + (IF job[j].status = "processing" THEN 1 ELSE 0) \in Nat
  BY DEF TypeOK, JobRow
<1>. QED
  BY <1>1 DEF Claim

(* Every step of every worker and of the cleanup keeps the types. *)
LEMMA NextType == TypeOK /\ [Next]_vars => TypeOK'
<1>. SUFFICES ASSUME TypeOK, [Next]_vars PROVE TypeOK'
  OBVIOUS
<1>. USE DEF TypeOK
<1>1. ASSUME NEW j \in Jobs, Enqueue(j) \/ BecomeDue(j) \/ Prune(j)
      PROVE  TypeOK'
  <2>1. job' \in [Jobs -> JobRow]
    <3>1. CASE Enqueue(j)
      BY <3>1, ZenonT(60) DEF Enqueue, JobRow, Open
    <3>2. CASE BecomeDue(j)
      BY <3>2, ZenonT(60) DEF BecomeDue, JobRow
    <3>3. CASE Prune(j)
      BY <3>3, ZenonT(60) DEF Prune, JobRow
    <3>. QED
      BY <1>1, <3>1, <3>2, <3>3
  <2>2. message' \in [Jobs -> BOOLEAN]
    BY <1>1 DEF Enqueue, BecomeDue, Prune
  <2>. QED
    BY <1>1, <2>1, <2>2 DEF Enqueue, BecomeDue, Prune
<1>2. ASSUME NEW j \in Jobs, LapseAbandoned(j) \/ LapseLate(j)
      PROVE  TypeOK'
  <2>1. job' \in [Jobs -> JobRow] /\ excuses' \in [Jobs -> Nat] /\ faults' \in Nat
    <3>1. Lapse(j) /\ (faults' = faults \/ faults' = faults + 1)
      BY <1>2 DEF LapseAbandoned, LapseLate, Fault
    <3>2. job' \in [Jobs -> JobRow]
      BY <3>1, ZenonT(60) DEF Lapse, JobRow
    <3>. QED
      BY <3>1, <3>2 DEF Lapse
  <2>. QED
    BY <1>2, <2>1 DEF LapseAbandoned, LapseLate, Lapse
<1>3. ASSUME NEW j \in Jobs, RemoveMessage(j)
      PROVE  TypeOK'
  BY <1>3 DEF RemoveMessage
<1>4. ASSUME NEW w \in Workers, NEW j \in Jobs, Claim(w, j)
      PROVE  TypeOK'
  <2>1. PICK n \in Nat :
           /\ job' = [job EXCEPT ![j] = [status |-> "processing", attempts |-> n,
                                 owner |-> InstanceOf[w], lease |-> "held", due |-> TRUE]]
           /\ at' = [at EXCEPT ![w] = [pc |-> "claimed", job |-> j, attempts |-> n,
                                       result |-> "temporary", serial |-> claims[j] + 1]]
    BY <1>4, ClaimRow
  <2>2. job' \in [Jobs -> JobRow]
    BY <2>1, QueueAssumption DEF JobRow, Open
  <2>3. at' \in [Workers -> Activity]
    BY <2>1 DEF Activity, Results
  <2>. QED
    BY <1>4, <2>2, <2>3 DEF Claim
<1>5. ASSUME NEW w \in Workers, Deliver(w)
      PROVE  TypeOK'
  <2>1. at[w].job \in Jobs
    BY DEF Activity
  <2>2. PICK r \in Results, taken \in BOOLEAN :
          /\ at' = [at EXCEPT ![w].pc = "delivered", ![w].result = r]
          /\ accepted' = [accepted EXCEPT ![at[w].job] = @ + IF taken THEN 1 ELSE 0]
          /\ \/ faults < MaxFaults /\ faults' = faults + 1
                  /\ excuses' = [excuses EXCEPT ![at[w].job] = @ + 1]
             \/ UNCHANGED <<faults, excuses>>
    BY <1>5 DEF Deliver, Fault
  <2>3. at' \in [Workers -> Activity]
    <3>1. [at[w] EXCEPT !.pc = "delivered", !.result = r] \in Activity
      BY DEF Activity
    <3>. QED
      BY <2>2, <3>1
  <2>4. accepted' \in [Jobs -> Nat] /\ excuses' \in [Jobs -> Nat] /\ faults' \in Nat
    BY <2>1, <2>2
  <2>. QED
    BY <1>5, <2>3, <2>4 DEF Deliver
<1>6. ASSUME NEW w \in Workers, Finish(w)
      PROVE  TypeOK'
  <2>1. at[w] \in Activity /\ at[w].job \in Jobs
    BY DEF Activity
  <2>2. job' = job \/ job' = [job EXCEPT ![at[w].job] = Finished(job[at[w].job], at[w])]
    BY <1>6 DEF Finish
  <2>3. at' = [at EXCEPT ![w] = Idle] \/ at' = [at EXCEPT ![w] = [at[w] EXCEPT !.pc = "report"]]
    BY <1>6 DEF Finish
  <2>4. job' \in [Jobs -> JobRow]
    <3>1. Finished(job[at[w].job], at[w]) \in JobRow
      BY <2>1, FinishedType
    <3>. QED
      BY <2>1, <2>2, <3>1
  <2>5. at' \in [Workers -> Activity]
    BY <2>1, <2>3, IdleType DEF Activity
  <2>6. faults' \in Nat
    BY <1>6 DEF Finish, Fault
  <2>. QED
    BY <1>6, <2>4, <2>5, <2>6 DEF Finish
<1>7. ASSUME NEW w \in Workers, Report(w)
      PROVE  TypeOK'
  <2>1. reported' \in [Jobs -> Nat] /\ faults' \in Nat
    BY <1>7 DEF Report, Fault, Activity
  <2>. QED
    BY <1>7, <2>1, IdleType DEF Report
<1>8. ASSUME NEW i \in Instances, Crash(i)
      PROVE  TypeOK'
  BY <1>8, IdleType DEF Crash, Fault
<1>9. CASE RecoverStaleLeases
  BY <1>9, RecoveredType DEF RecoverStaleLeases
<1>10. CASE UNCHANGED vars
  BY <1>10 DEF vars
<1>. QED
  BY <1>1, <1>2, <1>3, <1>4, <1>5, <1>6, <1>7, <1>8, <1>9, <1>10 DEF Next

(* Every reachable state is well typed. *)
THEOREM TypeCorrect == Spec => []TypeOK
  BY InitType, NextType, PTL DEF Spec

------------------------------------------------------------------------------
(* Leases, attempts and reports. *)

(* The inductive invariant: the two results below and what they rest on,    *)
(* that locked_by is set exactly while a job is processing and that a       *)
(* failed job has at most one reporter.                                     *)
QueueInv == LeaseInv /\ AttemptsExact /\ ReportedOnce

(* It holds of an empty queue. *)
LEMMA InitQueue == Init => QueueInv
  BY DEF Init, QueueInv, LeaseInv, OwnedIffProcessing, OneReporter, AttemptsExact, ReportedOnce, Idle

(* A step that leaves status, owner and attempts of every row, claims and   *)
(* reports as they are, and makes no worker a reporter, keeps the           *)
(* invariant.                                                               *)
LEMMA QuietStep ==
  ASSUME TypeOK, TypeOK', QueueInv, claims' = claims, reported' = reported,
         \A j \in Jobs : /\ job'[j].status = job[j].status /\ job'[j].owner = job[j].owner
                         /\ job'[j].attempts = job[j].attempts,
         \A w \in Workers : at'[w].pc = "report" => at'[w] = at[w]
  PROVE  QueueInv'
<1>1. \A w \in Workers : at'[w].job \in Jobs
  BY DEF TypeOK, Activity
<1>2. OwnedIffProcessing'
  BY DEF QueueInv, LeaseInv, OwnedIffProcessing
<1>3. OneReporter'
  BY <1>1 DEF QueueInv, LeaseInv, OneReporter
<1>4. AttemptsExact'
  BY DEF QueueInv, AttemptsExact
<1>5. ReportedOnce'
  BY DEF QueueInv, ReportedOnce
<1>. QED
  BY <1>2, <1>3, <1>4, <1>5 DEF QueueInv, LeaseInv

(* Every step keeps it. *)
LEMMA NextQueue == TypeOK /\ TypeOK' /\ QueueInv /\ [Next]_vars => QueueInv'
<1>. SUFFICES ASSUME TypeOK, TypeOK', QueueInv, [Next]_vars PROVE QueueInv'
  OBVIOUS
<1>j. \A w \in Workers : at[w].job \in Jobs /\ at'[w].job \in Jobs
  BY DEF TypeOK, Activity
<1>n. \A j \in Jobs : job[j] \in JobRow /\ job[j].attempts \in Nat /\ claims[j] \in Nat /\ reported[j] \in Nat
  BY DEF TypeOK, JobRow
<1>1. ASSUME NEW j \in Jobs, Enqueue(j)
      PROVE  QueueInv'
  <2>1. /\ job[j].status = "absent" /\ at' = at /\ claims' = claims /\ reported' = reported
        /\ \A k \in Jobs : /\ job'[k].status = IF k = j THEN "queued" ELSE job[k].status
                           /\ job'[k].owner = job[k].owner /\ job'[k].attempts = job[k].attempts
    BY <1>1 DEF Enqueue, TypeOK, JobRow
  <2>2. OwnedIffProcessing'
    BY <2>1 DEF QueueInv, LeaseInv, OwnedIffProcessing
  <2>3. OneReporter'
    BY <2>1, <1>j DEF QueueInv, LeaseInv, OneReporter
  <2>4. AttemptsExact'
    BY <2>1 DEF QueueInv, AttemptsExact
  <2>5. ReportedOnce'
    BY <2>1 DEF QueueInv, ReportedOnce
  <2>. QED
    BY <2>2, <2>3, <2>4, <2>5 DEF QueueInv, LeaseInv
<1>2. ASSUME NEW j \in Jobs, Prune(j)
      PROVE  QueueInv'
  <2>1. /\ job[j].status \in Settled /\ at' = at /\ claims' = claims /\ reported' = reported
        /\ \A k \in Jobs : /\ job'[k].status = IF k = j THEN "pruned" ELSE job[k].status
                           /\ job'[k].owner = job[k].owner /\ job'[k].attempts = job[k].attempts
    BY <1>2 DEF Prune, TypeOK, JobRow
  <2>2. OwnedIffProcessing'
    BY <2>1 DEF QueueInv, LeaseInv, OwnedIffProcessing, Settled
  <2>3. OneReporter'
    BY <2>1, <1>j DEF QueueInv, LeaseInv, OneReporter
  <2>4. AttemptsExact'
    BY <2>1 DEF QueueInv, AttemptsExact
  <2>5. ReportedOnce'
    BY <2>1 DEF QueueInv, ReportedOnce
  <2>. QED
    BY <2>2, <2>3, <2>4, <2>5 DEF QueueInv, LeaseInv
<1>3. ASSUME NEW w \in Workers, NEW j \in Jobs, Claim(w, j)
      PROVE  QueueInv'
  <2>1. PICK n \in Nat :
           /\ n = job[j].attempts + (IF job[j].status = "processing" THEN 1 ELSE 0)
           /\ job' = [job EXCEPT ![j] = [status |-> "processing", attempts |-> n,
                                 owner |-> InstanceOf[w], lease |-> "held", due |-> TRUE]]
           /\ at' = [at EXCEPT ![w] = [pc |-> "claimed", job |-> j, attempts |-> n,
                                       result |-> "temporary", serial |-> claims[j] + 1]]
    BY <1>3, ClaimRow
  <2>2. /\ job[j].status \in Open /\ reported' = reported
        /\ claims' = [claims EXCEPT ![j] = @ + 1] /\ InstanceOf[w] # NoOwner
    BY <1>3, QueueAssumption DEF Claim, Claimable
  <2>3. /\ \A k \in Jobs : k # j => job'[k] = job[k] /\ claims'[k] = claims[k]
        /\ job'[j].status = "processing" /\ job'[j].owner = InstanceOf[w] /\ job'[j].attempts = n
        /\ claims'[j] = claims[j] + 1
        /\ \A v \in Workers : at'[v].pc = "report" => at'[v] = at[v] /\ v # w
    BY <2>1, <2>2 DEF TypeOK
  <2>4. OwnedIffProcessing'
    BY <2>2, <2>3 DEF QueueInv, LeaseInv, OwnedIffProcessing
  <2>5. OneReporter'
    BY <2>2, <2>3, <1>j DEF QueueInv, LeaseInv, OneReporter, Open
  <2>6. AttemptsExact'
    BY <2>1, <2>2, <2>3, <1>n DEF QueueInv, AttemptsExact, Open
  <2>7. ReportedOnce'
    BY <2>2, <2>3 DEF QueueInv, ReportedOnce, Open
  <2>. QED
    BY <2>4, <2>5, <2>6, <2>7 DEF QueueInv, LeaseInv
<1>4. ASSUME NEW w \in Workers, Finish(w)
      PROVE  QueueInv'
  <2>. DEFINE j == at[w].job
              row == Finished(job[j], at[w])
  <2>1. CASE job' = job /\ at' = [at EXCEPT ![w] = Idle]
    <3>1. \A v \in Workers : at'[v].pc = "report" => at'[v] = at[v]
      BY <2>1 DEF Idle, TypeOK
    <3>. QED
      BY <1>4, <2>1, <3>1, QuietStep DEF Finish
  <2>2. CASE /\ MayFinish(w) /\ job' = [job EXCEPT ![j] = row]
             /\ at' = [at EXCEPT ![w] = IF row.status = "failed"
                                        THEN [at[w] EXCEPT !.pc = "report"] ELSE Idle]
    <3>1. job[j].owner # NoOwner /\ job[j].status = "processing" /\ at[w] \in Activity
      <4>1. InstanceOf[w] # NoOwner /\ at[w] \in Activity
        BY QueueAssumption DEF TypeOK
      <4>2. MayFinish(w)
        BY <2>2
      <4>3. job[j].owner # NoOwner
        BY <4>1, <4>2 DEF MayFinish
      <4>. QED
        BY <4>1, <4>3, <1>j DEF QueueInv, LeaseInv, OwnedIffProcessing
    <3>2. /\ row.owner = NoOwner /\ row.status \in {"sent", "retry", "failed"}
          /\ row.attempts = job[j].attempts + (IF row.status = "sent" THEN 0 ELSE 1)
      BY <3>1, <1>j, <1>n, FinishedType
    <3>3. /\ job'[j] = row /\ (\A k \in Jobs : k # j => job'[k] = job[k])
          /\ claims' = claims /\ reported' = reported
      BY <1>4, <2>2, <1>j DEF Finish, TypeOK
    <3>4. \A v \in Workers : /\ v # w => at'[v] = at[v]
                             /\ at'[w].pc = "report" => row.status = "failed" /\ at'[w].job = j
      <4>1. at'[w].pc = "report" => row.status = "failed" /\ at'[w] = [at[w] EXCEPT !.pc = "report"]
        BY <2>2 DEF Idle, TypeOK
      <4>2. [at[w] EXCEPT !.pc = "report"].job = at[w].job
        BY <3>1 DEF Activity
      <4>. QED
        BY <2>2, <4>1, <4>2 DEF TypeOK
    <3>5. \A v \in Workers : at[v].pc = "report" => at[v].job # j
      BY <3>1 DEF QueueInv, LeaseInv, OneReporter
    <3>6. reported[j] = 0
      BY <3>1, <1>j, <1>n DEF QueueInv, ReportedOnce
    <3>. HIDE DEF row, j
    <3>7. OwnedIffProcessing'
      BY <3>2, <3>3 DEF QueueInv, LeaseInv, OwnedIffProcessing
    <3>8. OneReporter'
      BY <3>3, <3>4, <3>5, <3>6, <1>j DEF QueueInv, LeaseInv, OneReporter
    <3>9. AttemptsExact'
      BY <3>1, <3>2, <3>3, <1>n DEF QueueInv, AttemptsExact
    <3>10. ReportedOnce'
      BY <3>3, <3>6 DEF QueueInv, ReportedOnce
    <3>. QED
      BY <3>7, <3>8, <3>9, <3>10 DEF QueueInv, LeaseInv
  <2>. QED
    BY <1>4, <2>1, <2>2 DEF Finish
<1>5. ASSUME NEW w \in Workers, Report(w)
      PROVE  QueueInv'
  <2>1. /\ job' = job /\ claims' = claims /\ at[w].pc = "report"
        /\ \A v \in Workers : at'[v].pc = "report" => at'[v] = at[v] /\ v # w
        /\ \/ reported' = reported
           \/ reported' = [reported EXCEPT ![at[w].job] = @ + 1]
    BY <1>5 DEF Report, Idle, TypeOK
  <2>2. /\ job[at[w].job].status \in {"failed", "pruned"} /\ reported[at[w].job] = 0
        /\ \A v \in Workers : at[v].pc = "report" /\ at[v].job = at[w].job => v = w
    BY <2>1 DEF QueueInv, LeaseInv, OneReporter
  <2>3. \A k \in Jobs : reported'[k] = reported[k] \/ (k = at[w].job /\ reported'[k] = 1)
    BY <2>1, <2>2, <1>j DEF TypeOK
  <2>4. OwnedIffProcessing'
    BY <2>1 DEF QueueInv, LeaseInv, OwnedIffProcessing
  <2>5. OneReporter'
    BY <2>1, <2>2, <2>3, <1>j DEF QueueInv, LeaseInv, OneReporter
  <2>6. AttemptsExact'
    BY <2>1 DEF QueueInv, AttemptsExact
  <2>7. ReportedOnce'
    BY <2>1, <2>2, <2>3 DEF QueueInv, ReportedOnce
  <2>. QED
    BY <2>4, <2>5, <2>6, <2>7 DEF QueueInv, LeaseInv
<1>6. ASSUME \/ \E j \in Jobs : BecomeDue(j) \/ LapseAbandoned(j) \/ LapseLate(j) \/ RemoveMessage(j)
             \/ \E w \in Workers : Deliver(w)
             \/ \E i \in Instances : Crash(i)
      PROVE  QueueInv'
  <2>1. claims' = claims /\ reported' = reported
    BY <1>6 DEF BecomeDue, LapseAbandoned, LapseLate, Lapse, RemoveMessage, Deliver, Crash
  <2>2. \A k \in Jobs : /\ job'[k].status = job[k].status /\ job'[k].owner = job[k].owner
                        /\ job'[k].attempts = job[k].attempts
    <3>1. ASSUME NEW j \in Jobs, BecomeDue(j)
          PROVE  \A k \in Jobs : /\ job'[k].status = job[k].status /\ job'[k].owner = job[k].owner
                                 /\ job'[k].attempts = job[k].attempts
      BY <3>1 DEF BecomeDue, TypeOK, JobRow
    <3>2. ASSUME NEW j \in Jobs, Lapse(j)
          PROVE  \A k \in Jobs : /\ job'[k].status = job[k].status /\ job'[k].owner = job[k].owner
                                 /\ job'[k].attempts = job[k].attempts
      BY <3>2 DEF Lapse, TypeOK, JobRow
    <3>. QED
      BY <1>6, <3>1, <3>2 DEF LapseAbandoned, LapseLate, RemoveMessage, Deliver, Crash
  <2>3. \A v \in Workers : at'[v].pc = "report" => at'[v] = at[v]
    <3>1. ASSUME NEW w \in Workers, Deliver(w)
          PROVE  \A v \in Workers : at'[v].pc = "report" => at'[v] = at[v]
      <4>1. PICK r \in Results : at' = [at EXCEPT ![w].pc = "delivered", ![w].result = r]
        BY <3>1 DEF Deliver
      <4>2. at'[w].pc = "delivered"
        BY <4>1 DEF TypeOK, Activity
      <4>. QED
        BY <4>1, <4>2 DEF TypeOK
    <3>. QED
      BY <1>6, <3>1 DEF BecomeDue, LapseAbandoned, LapseLate, Lapse, RemoveMessage, Crash, Idle, TypeOK
  <2>. QED
    BY <2>1, <2>2, <2>3, QuietStep
<1>7. CASE RecoverStaleLeases
  <2>1. at' = at /\ claims' = claims /\ reported' = reported
    BY <1>7 DEF RecoverStaleLeases
  <2>2. \A k \in Jobs :
          \/ job'[k] = job[k]
          \/ /\ job[k].status = "processing" /\ job'[k].owner = NoOwner
             /\ job'[k].status = "retry" /\ job'[k].attempts = job[k].attempts + 1
    BY <1>7, <1>n, RecoveredType DEF RecoverStaleLeases, Stale
  <2>3. OwnedIffProcessing'
    BY <2>2 DEF QueueInv, LeaseInv, OwnedIffProcessing
  <2>4. OneReporter'
    BY <2>1, <2>2, <1>j DEF QueueInv, LeaseInv, OneReporter
  <2>5. AttemptsExact'
    BY <2>1, <2>2, <1>n DEF QueueInv, AttemptsExact
  <2>6. ReportedOnce'
    BY <2>1, <2>2 DEF QueueInv, ReportedOnce
  <2>. QED
    BY <2>3, <2>4, <2>5, <2>6 DEF QueueInv, LeaseInv
<1>8. CASE UNCHANGED vars
  BY <1>8, QuietStep DEF vars
<1>. QED
  BY <1>1, <1>2, <1>3, <1>4, <1>5, <1>6, <1>7, <1>8 DEF Next

(* It holds always. *)
LEMMA QueueInvariant == Spec => []QueueInv
  BY InitType, NextType, InitQueue, NextQueue, PTL DEF Spec

(* attempts counts every claim that did not end in success, exactly once,   *)
(* for any number of workers, crashes and lapsed leases.                    *)
THEOREM AttemptsAreExact == Spec => []AttemptsExact
<1>1. QueueInv => AttemptsExact
  BY DEF QueueInv
<1>. QED
  BY <1>1, QueueInvariant, PTL

(* A failure is reported at most once, and only of a job that has failed.   *)
THEOREM FailureReportedOnce == Spec => []ReportedOnce
<1>1. QueueInv => ReportedOnce
  BY DEF QueueInv
<1>. QED
  BY <1>1, QueueInvariant, PTL

(* No step reopens a settled job or changes how it ended. *)
THEOREM SettledStays == Spec => SettledForGood
<1>1. ASSUME TypeOK, QueueInv, [Next]_vars, NEW j \in Jobs, job[j].status \in Settled
      PROVE  job'[j].status \in {job[j].status, "pruned"}
  <2>1. job[j].status \in {"sent", "failed"} /\ job[j].owner = NoOwner
    BY <1>1 DEF Settled, QueueInv, LeaseInv, OwnedIffProcessing
  <2>2. ASSUME NEW k \in Jobs, Enqueue(k) \/ BecomeDue(k) \/ Prune(k) \/ Lapse(k)
        PROVE  job'[j].status \in {job[j].status, "pruned"}
    <3>1. CASE Enqueue(k)
      BY <1>1, <2>1, <3>1 DEF Enqueue, TypeOK, JobRow
    <3>2. CASE BecomeDue(k)
      BY <1>1, <3>2 DEF BecomeDue, TypeOK, JobRow
    <3>3. CASE Prune(k)
      BY <1>1, <3>3 DEF Prune, TypeOK, JobRow
    <3>4. CASE Lapse(k)
      BY <1>1, <3>4 DEF Lapse, TypeOK, JobRow
    <3>. QED
      BY <2>2, <3>1, <3>2, <3>3, <3>4
  <2>3. ASSUME NEW w \in Workers, NEW k \in Jobs, Claim(w, k)
        PROVE  job'[j] = job[j]
    BY <1>1, <2>1, <2>3 DEF Claim, Claimable, Open, TypeOK
  <2>4. ASSUME NEW w \in Workers, Finish(w)
        PROVE  job'[j] = job[j]
    <3>1. at[w].job \in Jobs /\ InstanceOf[w] # NoOwner
      BY <1>1, QueueAssumption DEF TypeOK, Activity
    <3>2. job' = job \/ (MayFinish(w) /\ job' = [job EXCEPT ![at[w].job] = Finished(job[at[w].job], at[w])])
      BY <2>4 DEF Finish
    <3>3. MayFinish(w) => at[w].job # j
      BY <2>1, <3>1 DEF MayFinish
    <3>. QED
      BY <1>1, <3>1, <3>2, <3>3 DEF TypeOK
  <2>5. CASE RecoverStaleLeases
    BY <2>1, <2>5 DEF RecoverStaleLeases, Stale
  <2>6. CASE UNCHANGED job
    BY <2>6
  <2>. QED
    BY <1>1, <2>2, <2>3, <2>4, <2>5, <2>6
       DEF Next, vars, LapseAbandoned, LapseLate, RemoveMessage, Deliver, Report, Crash
<1>2. TypeOK /\ QueueInv /\ [Next]_vars =>
        [\A j \in Jobs : job[j].status \in Settled =>
           job'[j].status \in {job[j].status, "pruned"}]_vars
  BY <1>1
<1>. QED
  BY <1>2, TypeCorrect, QueueInvariant, PTL DEF Spec, SettledForGood

------------------------------------------------------------------------------
(* No step takes the message of an open job, and none opens a job without    *)
(* one: a job is opened by Enqueue alone, which stores both.                *)
LEMMA NextMessage == TypeOK /\ QueueInv /\ OpenHasMessage /\ [Next]_vars => OpenHasMessage'
<1>. SUFFICES ASSUME TypeOK, QueueInv, OpenHasMessage, [Next]_vars PROVE OpenHasMessage'
  OBVIOUS
<1>1. ASSUME message' = message, \A j \in Jobs : job'[j].status \in Open => job[j].status \in Open
      PROVE  OpenHasMessage'
  BY <1>1 DEF OpenHasMessage
<1>2. ASSUME NEW k \in Jobs, Enqueue(k) PROVE OpenHasMessage'
  <2>1. message'[k] /\ \A j \in Jobs \ {k} : job'[j] = job[j] /\ message'[j] = message[j]
    BY <1>2 DEF Enqueue, TypeOK
  <2>. QED
    BY <2>1 DEF OpenHasMessage
<1>3. ASSUME NEW k \in Jobs, RemoveMessage(k) PROVE OpenHasMessage'
  <2>1. job' = job /\ job[k].status \notin Open /\ \A j \in Jobs \ {k} : message'[j] = message[j]
    BY <1>3 DEF RemoveMessage, Orphaned, TypeOK
  <2>. QED
    BY <2>1 DEF OpenHasMessage
<1>4. ASSUME NEW k \in Jobs, BecomeDue(k) \/ Lapse(k) \/ Prune(k) PROVE OpenHasMessage'
  <2>1. \A j \in Jobs : job'[j].status = job[j].status \/ job'[j].status = "pruned"
    <3>1. CASE BecomeDue(k)
      BY <3>1 DEF BecomeDue, TypeOK, JobRow
    <3>2. CASE Lapse(k)
      BY <3>2 DEF Lapse, TypeOK, JobRow
    <3>3. CASE Prune(k)
      BY <3>3 DEF Prune, TypeOK, JobRow
    <3>. QED
      BY <1>4, <3>1, <3>2, <3>3
  <2>2. message' = message
    BY <1>4 DEF BecomeDue, Lapse, Prune
  <2>3. "pruned" \notin Open
    BY DEF Open
  <2>. QED
    BY <1>1, <2>1, <2>2, <2>3
<1>5. ASSUME RecoverStaleLeases PROVE OpenHasMessage'
  <2>1. \A j \in Jobs : job'[j] = job[j] \/ job[j].status = "processing"
    BY <1>5 DEF RecoverStaleLeases, Stale
  <2>2. message' = message /\ "processing" \in Open
    BY <1>5 DEF RecoverStaleLeases, Open
  <2>. QED
    BY <1>1, <2>1, <2>2
<1>6. ASSUME NEW w \in Workers, NEW k \in Jobs, Claim(w, k) PROVE OpenHasMessage'
  <2>1. job[k].status \in Open /\ message' = message /\ \A j \in Jobs \ {k} : job'[j] = job[j]
    BY <1>6 DEF Claim, Claimable, TypeOK
  <2>. QED
    BY <1>1, <2>1
<1>7. ASSUME NEW w \in Workers, Finish(w) PROVE OpenHasMessage'
  <2>1. message' = message
    BY <1>7 DEF Finish
  <2>2. CASE job' = job
    BY <1>1, <2>1, <2>2
  <2>3. CASE MayFinish(w) /\ \E row : job' = [job EXCEPT ![at[w].job] = row]
    <3>1. job[at[w].job].status \in Open
      <4>1. at[w].job \in Jobs /\ job[at[w].job].owner # NoOwner
        BY <2>3, QueueAssumption DEF MayFinish, TypeOK, Activity
      <4>. QED
        BY <4>1 DEF QueueInv, LeaseInv, OwnedIffProcessing, Open
    <3>2. \A j \in Jobs : j # at[w].job => job'[j] = job[j]
      BY <2>3 DEF TypeOK
    <3>. QED
      BY <1>1, <2>1, <3>1, <3>2
  <2>. QED
    BY <1>7, <2>2, <2>3 DEF Finish
<1>8. CASE job' = job /\ message' = message
  BY <1>1, <1>8
<1>. QED
  BY <1>2, <1>3, <1>4, <1>5, <1>6, <1>7, <1>8
  DEF Next, LapseAbandoned, LapseLate, Deliver, Report, Crash, vars

(* The message of a job in the queue, or between two attempts, is never     *)
(* cleaned away under it: cleanupOrphanedMessages looks at open jobs in the *)
(* statement that deletes.                                                  *)
THEOREM MessageKept == Spec => []OpenHasMessage
<1>1. Init => OpenHasMessage
  BY DEF Init, OpenHasMessage, Open
<1>. QED
  BY <1>1, NextMessage, TypeCorrect, QueueInvariant, PTL DEF Spec

------------------------------------------------------------------------------
(* How often a job's message goes out or its failure is told. *)

(* The workers that may still have the message accepted, or report its      *)
(* failure: all but those the relay has told of its success.                *)
Pending(j) ==
  {w \in Workers : at[w].job = j /\ (\/ at[w].pc \in {"claimed", "report"}
                                     \/ at[w].pc = "delivered" /\ at[w].result # "success")}

(* The job may be claimed, now or once time has passed. *)
Free(j) ==
  IF \/ job[j].status \in Settled \cup {"pruned"}
     \/ job[j].status = "processing" /\ job[j].lease = "held" THEN 0 ELSE 1

(* Each outcome, each pending worker and the next claim of a job need an    *)
(* excuse of their own, but one.                                            *)
Accounted(j) == accepted[j] + reported[j] + Cardinality(Pending(j)) + Free(j) <= 1 + excuses[j]
OutcomeInv == \A j \in Jobs : Accounted(j)

(* A set of workers can be counted, also when one joins or leaves it. *)
LEMMA Count ==
  ASSUME NEW S \in SUBSET Workers, NEW w
  PROVE  /\ Cardinality(S) \in Nat
         /\ Cardinality(S \ {w}) = IF w \in S THEN Cardinality(S) - 1 ELSE Cardinality(S)
         /\ Cardinality(S \cup {w}) = IF w \in S THEN Cardinality(S) ELSE Cardinality(S) + 1
         /\ \A T \in SUBSET S : Cardinality(T) \in Nat /\ Cardinality(T) <= Cardinality(S)
<1>1. IsFiniteSet(S)
  BY QueueAssumption, FS_Subset
<1>2. \A T \in SUBSET S : IsFiniteSet(T) /\ Cardinality(T) <= Cardinality(S)
  BY <1>1, FS_Subset
<1>3. \A T \in SUBSET S : Cardinality(T) \in Nat
  BY <1>2, FS_CardinalityType
<1>. QED
  BY <1>1, <1>2, <1>3, FS_CardinalityType, FS_AddElement, FS_RemoveElement

(* The parts of the bound are natural numbers. *)
LEMMA OutcomesType ==
  ASSUME TypeOK, NEW j \in Jobs
  PROVE  /\ accepted[j] \in Nat /\ reported[j] \in Nat /\ excuses[j] \in Nat
         /\ Free(j) \in {0, 1} /\ Free(j)' \in {0, 1}
         /\ Pending(j) \in SUBSET Workers /\ Cardinality(Pending(j)) \in Nat
<1>1. Pending(j) \in SUBSET Workers
  BY DEF Pending
<1>. QED
  BY <1>1, Count DEF TypeOK, Free

(* Success settles a job, and only a temporary error leaves it to be tried  *)
(* again.                                                                   *)
LEMMA FinishedResult ==
  ASSUME NEW row \in JobRow, NEW act \in Activity
  PROVE  (act.result = "success") <=> (Finished(row, act).status = "sent")
<1>1. Finished(row, act).status = Outcome(row, act).status
  BY OutcomeType, ReleasedType DEF Finished
<1>2. CASE act.result = "success"
  <2>1. Outcome(row, act) = [row EXCEPT !.status = "sent", !.due = TRUE]
    BY <1>2 DEF Outcome
  <2>. QED
    BY <1>1, <1>2, <2>1 DEF JobRow
<1>3. CASE act.result = "temporary" /\ ~Exhausted(act.attempts + 1)
  <2>1. Outcome(row, act) =
          [row EXCEPT !.status = "retry", !.due = FALSE, !.attempts = row.attempts + 1]
    BY <1>3 DEF Outcome
  <2>. QED
    BY <1>1, <1>3, <2>1 DEF JobRow
<1>4. CASE act.result # "success" /\ ~(act.result = "temporary" /\ ~Exhausted(act.attempts + 1))
  <2>1. Outcome(row, act) =
          [row EXCEPT !.status = "failed", !.due = row.due, !.attempts = row.attempts + 1]
    BY <1>4 DEF Outcome
  <2>. QED
    BY <1>1, <1>4, <2>1 DEF JobRow
<1>. QED
  BY <1>2, <1>3, <1>4

(* A job that was never queued has its one outcome before it. *)
LEMMA InitOutcomes == Init => OutcomeInv
<1>. SUFFICES ASSUME Init, NEW j \in Jobs PROVE Accounted(j)
  BY DEF OutcomeInv
<1>1. Pending(j) = {}
  BY DEF Init, Pending, Idle
<1>2. Free(j) \in {0, 1}
  BY DEF Free
<1>. QED
  BY <1>1, <1>2, FS_EmptySet DEF Init, Accounted

(* A step that begins no work, makes no claim possible and counts nothing.  *)
LEMMA QuietOutcomes ==
  ASSUME TypeOK, NEW j \in Jobs, Accounted(j), Pending(j)' \in SUBSET Pending(j), Free(j)' <= Free(j),
         accepted'[j] = accepted[j], reported'[j] = reported[j], excuses'[j] = excuses[j]
  PROVE  Accounted(j)'
<1>1. Cardinality(Pending(j)') \in Nat /\ Cardinality(Pending(j)') <= Cardinality(Pending(j))
  BY OutcomesType, Count
<1>. QED
  BY <1>1, OutcomesType DEF Accounted

(* A claim turns the next claim into a pending worker, a delivery or report *)
(* a pending worker into an outcome; what comes again is excused.           *)
LEMMA NextOutcomes == TypeOK /\ OutcomeInv /\ [Next]_vars => OutcomeInv'
<1>. SUFFICES ASSUME TypeOK, OutcomeInv, [Next]_vars, NEW j \in Jobs PROVE Accounted(j)'
  BY DEF OutcomeInv
<1>t. /\ accepted[j] \in Nat /\ reported[j] \in Nat /\ excuses[j] \in Nat
      /\ Free(j) \in {0, 1} /\ Free(j)' \in {0, 1}
      /\ Pending(j) \in SUBSET Workers /\ Cardinality(Pending(j)) \in Nat
  BY OutcomesType
<1>o. accepted[j] + reported[j] + Cardinality(Pending(j)) + Free(j) <= 1 + excuses[j] /\ Accounted(j)
  BY DEF OutcomeInv, Accounted
<1>1. ASSUME NEW k \in Jobs, Enqueue(k) \/ BecomeDue(k) \/ RemoveMessage(k) \/ Prune(k) PROVE Accounted(j)'
  <2>1. at' = at /\ accepted' = accepted /\ reported' = reported /\ excuses' = excuses
    BY <1>1 DEF Enqueue, BecomeDue, RemoveMessage, Prune
  <2>2. Pending(j)' = Pending(j)
    BY <2>1 DEF Pending
  <2>3. Free(j)' <= Free(j)
    <3>1. CASE job'[j].status = job[j].status /\ job'[j].lease = job[j].lease
      BY <3>1, <1>t DEF Free
    <3>2. CASE j = k /\ Enqueue(k)
      BY <3>2, <1>t DEF Enqueue, Free, Settled
    <3>3. CASE j = k /\ Prune(k)
      BY <3>3, <1>t DEF Prune, Free, TypeOK, JobRow
    <3>. QED
      BY <1>1, <3>1, <3>2, <3>3 DEF Enqueue, BecomeDue, RemoveMessage, Prune, TypeOK, JobRow
  <2>. QED
    BY <1>o, <2>1, <2>2, <2>3, QuietOutcomes
<1>2. ASSUME NEW k \in Jobs, Lapse(k) PROVE Accounted(j)'
  <2>1. at' = at /\ accepted' = accepted /\ reported' = reported
    BY <1>2 DEF Lapse
  <2>2. Pending(j)' = Pending(j)
    BY <2>1 DEF Pending
  <2>3. CASE j = k
    <3>1. excuses'[j] = excuses[j] + 1
      BY <1>2, <2>3 DEF Lapse, TypeOK
    <3>. QED
      BY <1>t, <1>o, <2>1, <2>2, <3>1 DEF Accounted
  <2>4. CASE j # k
    <3>1. excuses'[j] = excuses[j] /\ job'[j] = job[j]
      BY <1>2, <2>4 DEF Lapse, TypeOK
    <3>2. Free(j)' = Free(j)
      BY <3>1 DEF Free
    <3>. QED
      BY <1>t, <1>o, <2>1, <2>2, <3>1, <3>2 DEF Accounted
  <2>. QED
    BY <2>3, <2>4
<1>3. ASSUME NEW w \in Workers, NEW k \in Jobs, Claim(w, k) PROVE Accounted(j)'
  <2>1. /\ at[w].pc = "idle" /\ accepted' = accepted /\ reported' = reported /\ excuses' = excuses
        /\ at'[w].pc = "claimed" /\ at'[w].job = k /\ \A v \in Workers \ {w} : at'[v] = at[v]
        /\ \A i \in Jobs \ {k} : job'[i] = job[i]
    BY <1>3 DEF Claim, TypeOK
  <2>2. CASE j = k
    <3>1. Pending(j)' = Pending(j) \cup {w} /\ w \notin Pending(j)
      BY <2>1, <2>2 DEF Pending
    <3>2. Cardinality(Pending(j)') = Cardinality(Pending(j)) + 1
      BY <3>1, <1>t, Count
    <3>3. Free(j) = 1
      BY <1>3, <2>2 DEF Claim, Claimable, Free, Open, Settled
    <3>4. Free(j)' = 0
      <4>1. job'[j].status = "processing" /\ job'[j].lease = "held"
        BY <1>3, <2>2 DEF Claim, TypeOK
      <4>. QED
        BY <4>1 DEF Free
    <3>. QED
      BY <1>t, <1>o, <2>1, <3>2, <3>3, <3>4 DEF Accounted
  <2>3. CASE j # k
    <3>1. Pending(j)' = Pending(j)
      BY <2>1, <2>3 DEF Pending
    <3>2. Free(j)' = Free(j)
      BY <2>1, <2>3 DEF Free
    <3>. QED
      BY <1>t, <1>o, <2>1, <3>1, <3>2 DEF Accounted
  <2>. QED
    BY <2>2, <2>3
<1>4. ASSUME NEW w \in Workers, Deliver(w) PROVE Accounted(j)'
  <2>1. PICK r \in Results, taken \in BOOLEAN :
          /\ r = "success" => taken
          /\ at' = [at EXCEPT ![w].pc = "delivered", ![w].result = r]
          /\ accepted' = [accepted EXCEPT ![at[w].job] = @ + IF taken THEN 1 ELSE 0]
          /\ excuses' = IF taken /\ r # "success" THEN [excuses EXCEPT ![at[w].job] = @ + 1] ELSE excuses
    BY <1>4 DEF Deliver
  <2>2. at[w].pc = "claimed" /\ job' = job /\ reported' = reported
    BY <1>4 DEF Deliver
  <2>3. /\ at'[w].pc = "delivered" /\ at'[w].result = r /\ at'[w].job = at[w].job
        /\ \A v \in Workers \ {w} : at'[v] = at[v]
    BY <2>1 DEF TypeOK, Activity
  <2>4. Free(j)' = Free(j)
    BY <2>2 DEF Free
  <2>5. CASE at[w].job # j
    <3>1. Pending(j)' = Pending(j)
      BY <2>2, <2>3, <2>5 DEF Pending
    <3>2. accepted'[j] = accepted[j] /\ excuses'[j] = excuses[j]
      BY <2>1, <2>5 DEF TypeOK
    <3>. QED
      BY <1>t, <1>o, <2>2, <2>4, <3>1, <3>2 DEF Accounted
  <2>6. CASE at[w].job = j /\ r = "success"
    <3>1. Pending(j)' = Pending(j) \ {w} /\ w \in Pending(j)
      BY <2>2, <2>3, <2>6 DEF Pending
    <3>2. Cardinality(Pending(j)') = Cardinality(Pending(j)) - 1
      BY <3>1, <1>t, Count
    <3>3. accepted'[j] = accepted[j] + 1 /\ excuses'[j] = excuses[j]
      BY <2>1, <2>6 DEF TypeOK
    <3>. QED
      BY <1>t, <1>o, <2>2, <2>4, <3>2, <3>3 DEF Accounted
  <2>7. CASE at[w].job = j /\ r # "success"
    <3>1. Pending(j)' = Pending(j)
      BY <2>2, <2>3, <2>7 DEF Pending
    <3>2. accepted'[j] - accepted[j] = excuses'[j] - excuses[j] /\ accepted'[j] \in Nat /\ excuses'[j] \in Nat
      BY <2>1, <2>7 DEF TypeOK
    <3>. QED
      BY <1>t, <1>o, <2>2, <2>4, <3>1, <3>2 DEF Accounted
  <2>. QED
    BY <2>5, <2>6, <2>7
<1>5. ASSUME NEW w \in Workers, Finish(w) PROVE Accounted(j)'
  <2>k. PICK k \in Jobs : k = at[w].job
    BY DEF TypeOK, Activity
  <2>0. at[w].pc = "delivered" /\ accepted' = accepted /\ reported' = reported /\ excuses' = excuses
    BY <1>5 DEF Finish
  <2>1. CASE at' = [at EXCEPT ![w] = Idle] /\ job' = job
    <3>1. Pending(j)' \in SUBSET Pending(j)
      <4>1. at'[w].pc = "idle" /\ \A v \in Workers \ {w} : at'[v] = at[v]
        BY <2>1 DEF TypeOK, Idle
      <4>. QED
        BY <4>1 DEF Pending
    <3>2. Free(j)' = Free(j)
      BY <2>1 DEF Free
    <3>3. Free(j)' <= Free(j)
      BY <1>t, <3>2
    <3>. QED
      BY <1>o, <2>0, <3>1, <3>3, QuietOutcomes
  <2>2. CASE \E row : /\ row = Finished(job[k], at[w])
                      /\ job' = [job EXCEPT ![k] = row]
                      /\ at' = [at EXCEPT ![w] = IF row.status = "failed"
                                                 THEN [at[w] EXCEPT !.pc = "report"] ELSE Idle]
    <3>r. PICK row : /\ row = Finished(job[k], at[w])
                     /\ job' = [job EXCEPT ![k] = row]
                     /\ at' = [at EXCEPT ![w] = IF row.status = "failed"
                                                THEN [at[w] EXCEPT !.pc = "report"] ELSE Idle]
      BY <2>2
    <3>1. job[k] \in JobRow /\ at[w] \in Activity
      BY DEF TypeOK
    <3>2. row.status \in {"sent", "retry", "failed"} /\ (at[w].result = "success" <=> row.status = "sent")
      BY <3>1, <3>r, FinishedType, FinishedResult
    <3>3. job'[k] = row /\ \A i \in Jobs \ {k} : job'[i] = job[i]
      BY <3>r DEF TypeOK
    <3>4. /\ \A v \in Workers \ {w} : at'[v] = at[v]
          /\ row.status = "failed" => at'[w] = [at[w] EXCEPT !.pc = "report"]
          /\ row.status # "failed" => at'[w].pc = "idle"
      BY <3>r DEF TypeOK, Idle
    <3>5. row.status = "failed" => at'[w].pc = "report" /\ at'[w].job = at[w].job
      BY <3>1, <3>4 DEF Activity
    <3>6. CASE j # k
      <4>1. Pending(j)' = Pending(j)
        BY <2>k, <3>2, <3>4, <3>5, <3>6 DEF Pending
      <4>2. Free(j)' = Free(j)
        BY <3>3, <3>6 DEF Free
      <4>. QED
        BY <1>t, <1>o, <2>0, <4>1, <4>2 DEF Accounted
    <3>7. CASE j = k /\ row.status = "failed"
      <4>1. Pending(j)' = Pending(j)
        BY <2>k, <2>0, <3>2, <3>4, <3>5, <3>7 DEF Pending
      <4>2. Free(j)' = 0
        BY <3>3, <3>7 DEF Free, Settled
      <4>. QED
        BY <1>t, <1>o, <2>0, <4>1, <4>2 DEF Accounted
    <3>8. CASE j = k /\ row.status = "sent"
      <4>1. Pending(j)' = Pending(j)
        BY <2>k, <2>0, <3>2, <3>4, <3>8 DEF Pending
      <4>2. Free(j)' = 0
        BY <3>3, <3>8 DEF Free, Settled
      <4>. QED
        BY <1>t, <1>o, <2>0, <4>1, <4>2 DEF Accounted
    <3>9. CASE j = k /\ row.status = "retry"
      <4>1. Pending(j)' = Pending(j) \ {w} /\ w \in Pending(j)
        BY <2>k, <2>0, <3>2, <3>4, <3>9 DEF Pending
      <4>2. Cardinality(Pending(j)') = Cardinality(Pending(j)) - 1
        BY <4>1, <1>t, Count
      <4>. QED
        BY <1>t, <1>o, <2>0, <4>2 DEF Accounted
    <3>. QED
      BY <3>2, <3>6, <3>7, <3>8, <3>9
  <2>. QED
    BY <1>5, <2>1, <2>2, <2>k DEF Finish
<1>6. ASSUME NEW w \in Workers, Report(w) PROVE Accounted(j)'
  <2>1. /\ at[w].pc = "report" /\ job' = job /\ accepted' = accepted /\ excuses' = excuses
        /\ at'[w].pc = "idle" /\ \A v \in Workers \ {w} : at'[v] = at[v]
        /\ reported' = reported \/ reported' = [reported EXCEPT ![at[w].job] = @ + 1]
    BY <1>6 DEF Report, TypeOK, Idle
  <2>2. Free(j)' = Free(j)
    BY <2>1 DEF Free
  <2>3. CASE at[w].job = j
    <3>1. Pending(j)' = Pending(j) \ {w} /\ w \in Pending(j)
      BY <2>1, <2>3 DEF Pending
    <3>2. Cardinality(Pending(j)') = Cardinality(Pending(j)) - 1
      BY <3>1, <1>t, Count
    <3>3. reported'[j] \in Nat /\ reported'[j] <= reported[j] + 1
      BY <2>1, <2>3 DEF TypeOK
    <3>. QED
      BY <1>t, <1>o, <2>1, <2>2, <3>2, <3>3 DEF Accounted
  <2>4. CASE at[w].job # j
    <3>1. Pending(j)' = Pending(j)
      BY <2>1, <2>4 DEF Pending
    <3>2. reported'[j] = reported[j]
      BY <2>1, <2>4 DEF TypeOK
    <3>. QED
      BY <1>t, <1>o, <2>1, <2>2, <3>1, <3>2 DEF Accounted
  <2>. QED
    BY <2>3, <2>4
<1>7. ASSUME NEW i \in Instances, Crash(i) PROVE Accounted(j)'
  <2>1. /\ job' = job /\ accepted' = accepted /\ reported' = reported /\ excuses' = excuses
        /\ \A v \in Workers : at'[v] = at[v] \/ at'[v].pc = "idle"
    BY <1>7 DEF Crash, Idle
  <2>2. Pending(j)' \in SUBSET Pending(j)
    BY <2>1 DEF Pending
  <2>3. Free(j)' = Free(j)
    BY <2>1 DEF Free
  <2>4. Free(j)' <= Free(j)
    BY <1>t, <2>3
  <2>. QED
    BY <1>o, <2>1, <2>2, <2>4, QuietOutcomes
<1>8. ASSUME RecoverStaleLeases PROVE Accounted(j)'
  <2>1. at' = at /\ accepted' = accepted /\ reported' = reported /\ excuses' = excuses
    BY <1>8 DEF RecoverStaleLeases
  <2>2. Pending(j)' = Pending(j)
    BY <2>1 DEF Pending
  <2>3. CASE Stale(job[j])
    <3>1. Free(j) = 1
      BY <2>3 DEF Stale, Free, Settled
    <3>. QED
      BY <1>t, <1>o, <2>1, <2>2, <3>1 DEF Accounted
  <2>4. CASE ~Stale(job[j])
    <3>1. job'[j] = job[j]
      BY <1>8, <2>4 DEF RecoverStaleLeases
    <3>2. Free(j)' = Free(j)
      BY <3>1 DEF Free
    <3>. QED
      BY <1>t, <1>o, <2>1, <2>2, <3>2 DEF Accounted
  <2>. QED
    BY <2>3, <2>4
<1>9. ASSUME UNCHANGED vars PROVE Accounted(j)'
  BY <1>9, <1>o DEF vars, Accounted, Pending, Free
<1>. QED
  BY <1>1, <1>2, <1>3, <1>4, <1>5, <1>6, <1>7, <1>8, <1>9 DEF Next, LapseAbandoned, LapseLate

(* The relay accepts a message or its failure is told once, and once more   *)
(* for each lapsed lease and each lost reply, whoever crashes or comes late *)
(* (relay.go, ProcessOne).                                                  *)
THEOREM OneOutcomeHolds == Spec => []OneOutcome
<1>1. TypeOK /\ OutcomeInv => OneOutcome
  <2>. SUFFICES ASSUME TypeOK, OutcomeInv, NEW j \in Jobs PROVE accepted[j] + reported[j] <= 1 + excuses[j]
    BY DEF OneOutcome
  <2>1. accepted[j] + reported[j] + Cardinality(Pending(j)) + Free(j) <= 1 + excuses[j]
    BY DEF OutcomeInv, Accounted
  <2>. QED
    BY <2>1, OutcomesType
<1>. QED
  BY <1>1, InitOutcomes, NextOutcomes, TypeCorrect, PTL DEF Spec

------------------------------------------------------------------------------
(* The refinement of DeliveryQueue. *)

(* A step in which no job changes in the eyes of a submitter. *)
LEMMA SameState ==
  ASSUME \A j \in Jobs : Seen(job'[j].status) = Seen(job[j].status)
  PROVE  StateView' = StateView
  BY DEF StateView

(* A step in which no debt of a report changes. *)
LEMMA SameOwed ==
  ASSUME \A j \in Jobs : Owed(j)' = Owed(j)
  PROVE  OwedView' = OwedView
  BY DEF OwedView

(* A step in which one job changes. *)
LEMMA NewState ==
  ASSUME NEW k \in Jobs, NEW s, Seen(job'[k].status) = s,
         \A j \in Jobs \ {k} : job'[j].status = job[j].status
  PROVE  StateView' = [StateView EXCEPT ![k] = s]
  BY DEF StateView

(* A step in which the debt of one job changes. *)
LEMMA NewOwed ==
  ASSUME NEW k \in Jobs, NEW b \in BOOLEAN, Owed(k)' = b,
         \A j \in Jobs \ {k} : Owed(j)' = Owed(j)
  PROVE  OwedView' = [OwedView EXCEPT ![k] = b]
  BY DEF OwedView

(* A step in which the debts of the jobs in S are dropped. *)
LEMMA ForgetOwed ==
  ASSUME NEW S, \A j \in Jobs : Owed(j)' = (Owed(j) /\ j \notin S)
  PROVE  OwedView' = [j \in Jobs |-> OwedView[j] /\ j \notin S]
<1>1. \A j \in Jobs : OwedView[j] = Owed(j)
  BY DEF OwedView
<1>2. OwedView' = [j \in Jobs |-> Owed(j)']
  BY DEF OwedView
<1>. QED
  BY <1>1, <1>2

(* No worker begins or ends to owe a report. *)
LEMMA OwedKept ==
  ASSUME \A w \in Workers : at[w].pc = "report" \/ at'[w].pc = "report" => at'[w] = at[w]
  PROVE  OwedView' = OwedView
<1>1. \A j \in Jobs : Owed(j)' = Owed(j)
  BY DEF Owed
<1>. QED
  BY <1>1, SameOwed

(* Every step of the queue is a step of DeliveryQueue or invisible there. *)
LEMMA NextPromise == TypeOK /\ QueueInv /\ [Next]_vars => [Promise!Next]_(Promise!vars)
<1>. SUFFICES ASSUME TypeOK, QueueInv, [Next]_vars PROVE [Promise!Next]_(Promise!vars)
  OBVIOUS
<1>a. \A w \in Workers : at[w] \in Activity /\ at[w].job \in Jobs
  BY DEF TypeOK, Activity
<1>i. Idle.pc = "idle"
  BY DEF Idle
<1>b. \A j \in Jobs : Owed(j) \in BOOLEAN /\ Owed(j)' \in BOOLEAN
  BY DEF Owed
<1>q. StateView' = StateView /\ OwedView' = OwedView /\ reported' = reported => UNCHANGED Promise!vars
  BY DEF Promise!vars
<1>1. ASSUME NEW k \in Jobs, Enqueue(k) PROVE Promise!Enqueue(k)
  <2>1. StateView[k] = "absent"
    BY <1>1 DEF Enqueue, StateView, Seen, Open
  <2>2. job'[k].status = "queued" /\ \A j \in Jobs \ {k} : job'[j].status = job[j].status
    BY <1>1 DEF Enqueue, TypeOK, JobRow
  <2>3. StateView' = [StateView EXCEPT ![k] = "open"]
    <3>1. Seen(job'[k].status) = "open"
      BY <2>2 DEF Seen, Open
    <3>. QED
      BY <2>2, <3>1, NewState
  <2>4. OwedView' = OwedView /\ reported' = reported
    BY <1>1, OwedKept DEF Enqueue
  <2>. QED
    BY <2>1, <2>3, <2>4 DEF Promise!Enqueue
<1>2. ASSUME NEW k \in Jobs, Prune(k) PROVE Promise!Remove(k)
  <2>1. StateView[k] \in {"sent", "failed"}
    BY <1>2 DEF Prune, StateView, Seen, Open, Settled
  <2>2. job'[k].status = "pruned" /\ \A j \in Jobs \ {k} : job'[j].status = job[j].status
    BY <1>2 DEF Prune, TypeOK, JobRow
  <2>3. StateView' = [StateView EXCEPT ![k] = "gone"]
    <3>1. Seen(job'[k].status) = "gone"
      BY <2>2 DEF Seen, Open
    <3>. QED
      BY <2>2, <3>1, NewState
  <2>4. OwedView' = OwedView /\ reported' = reported
    BY <1>2, OwedKept DEF Prune
  <2>. QED
    BY <2>1, <2>3, <2>4 DEF Promise!Remove
<1>3. ASSUME NEW k \in Jobs, BecomeDue(k) \/ Lapse(k) PROVE UNCHANGED Promise!vars
  <2>1. \A j \in Jobs : job'[j].status = job[j].status
    <3>1. CASE BecomeDue(k)
      BY <3>1 DEF BecomeDue, TypeOK, JobRow
    <3>2. CASE Lapse(k)
      BY <3>2 DEF Lapse, TypeOK, JobRow
    <3>. QED
      BY <1>3, <3>1, <3>2
  <2>2. StateView' = StateView
    BY <2>1, SameState
  <2>3. at' = at /\ reported' = reported
    BY <1>3 DEF BecomeDue, Lapse
  <2>. QED
    BY <1>q, <2>2, <2>3, OwedKept
<1>4. ASSUME RecoverStaleLeases PROVE UNCHANGED Promise!vars
  <2>1. \A j \in Jobs : Seen(job'[j].status) = Seen(job[j].status)
    <3>. TAKE j \in Jobs
    <3>1. CASE Stale(job[j])
      <4>1. job'[j].status = "retry" /\ job[j].status = "processing"
        BY <1>4, <3>1, RecoveredType DEF RecoverStaleLeases, Stale, TypeOK
      <4>. QED
        BY <4>1 DEF Seen, Open
    <3>2. CASE ~Stale(job[j])
      BY <1>4, <3>2 DEF RecoverStaleLeases
    <3>. QED
      BY <3>1, <3>2
  <2>2. at' = at /\ reported' = reported
    BY <1>4 DEF RecoverStaleLeases
  <2>. QED
    BY <1>q, <2>1, <2>2, SameState, OwedKept
<1>5. ASSUME NEW w \in Workers, NEW k \in Jobs, Claim(w, k) PROVE UNCHANGED Promise!vars
  <2>1. job[k].status \in Open /\ job'[k].status \in Open
    BY <1>5, ClaimRow DEF Claim, Claimable, TypeOK, Open
  <2>2. \A j \in Jobs \ {k} : job'[j] = job[j]
    BY <1>5 DEF Claim, TypeOK
  <2>3. \A j \in Jobs : Seen(job'[j].status) = Seen(job[j].status)
    <3>1. Seen(job'[k].status) = "open" /\ Seen(job[k].status) = "open"
      BY <2>1 DEF Seen, Open
    <3>. QED
      BY <2>2, <3>1
  <2>4. at[w].pc = "idle" /\ at'[w].pc = "claimed" /\ \A v \in Workers \ {w} : at'[v] = at[v]
    BY <1>5 DEF Claim, TypeOK
  <2>5. OwedView' = OwedView
    BY <2>4, OwedKept
  <2>6. reported' = reported
    BY <1>5 DEF Claim
  <2>. QED
    BY <1>q, <2>3, <2>5, <2>6, SameState
<1>6. ASSUME NEW w \in Workers, Deliver(w) PROVE UNCHANGED Promise!vars
  <2>1. at[w].pc = "claimed" /\ at'[w].pc = "delivered" /\ \A v \in Workers \ {w} : at'[v] = at[v]
    BY <1>6, <1>a DEF Deliver, TypeOK, Activity
  <2>2. OwedView' = OwedView
    BY <2>1, OwedKept
  <2>3. job' = job /\ reported' = reported
    BY <1>6 DEF Deliver
  <2>. QED
    BY <1>q, <2>2, <2>3, SameState
<1>7. ASSUME NEW w \in Workers, Finish(w) PROVE [Promise!Next]_(Promise!vars)
  <2>k. PICK k \in Jobs : k = at[w].job
    BY <1>a
  <2>. DEFINE row == Finished(job[k], at[w])
  <2>a. at[w].pc = "delivered" /\ reported' = reported
    BY <1>7 DEF Finish
  <2>1. CASE at' = [at EXCEPT ![w] = Idle] /\ job' = job
    <3>1. at'[w].pc = "idle" /\ \A v \in Workers \ {w} : at'[v] = at[v]
      BY <2>1, <1>i DEF TypeOK
    <3>2. OwedView' = OwedView
      BY <2>a, <3>1, OwedKept
    <3>3. StateView' = StateView
      BY <2>1, SameState
    <3>. QED
      BY <1>q, <2>a, <3>2, <3>3
  <2>2. CASE /\ MayFinish(w)
             /\ job' = [job EXCEPT ![k] = row]
             /\ at' = [at EXCEPT ![w] = IF row.status = "failed"
                                        THEN [@ EXCEPT !.pc = "report"] ELSE Idle]
    <3>1. job[k].status = "processing"
      <4>1. job[k].owner # NoOwner
        BY <2>2, <2>k, QueueAssumption DEF MayFinish
      <4>. QED
        BY <4>1, <2>a DEF QueueInv, LeaseInv, OwnedIffProcessing
    <3>2. StateView[k] = "open"
      BY <2>a, <3>1 DEF StateView, Seen, Open
    <3>3. row.status \in {"sent", "retry", "failed"}
      <4>1. job[k] \in JobRow /\ at[w] \in Activity
        BY <1>a, <2>a DEF TypeOK
      <4>. QED
        BY <4>1, FinishedType
    <3>4. job'[k].status = row.status /\ \A j \in Jobs \ {k} : job'[j].status = job[j].status
      <4>. HIDE DEF row
      <4>. QED
        BY <2>2, <2>a DEF TypeOK
    <3>5. \A v \in Workers \ {w} : at'[v] = at[v]
      BY <2>2 DEF TypeOK
    <3>. HIDE DEF row
    <3>6. CASE row.status = "sent"
      <4>1. StateView' = [StateView EXCEPT ![k] = "sent"]
        <5>1. Seen(job'[k].status) = "sent"
          BY <3>4, <3>6 DEF Seen, Open
        <5>. QED
          BY <5>1, <3>4, <2>a, NewState
      <4>2. at'[w].pc = "idle"
        BY <2>2, <3>6, <1>i DEF TypeOK
      <4>3. OwedView' = OwedView
        BY <4>2, <3>5, <2>a, OwedKept
      <4>4. Promise!Send(k)
        BY <4>1, <4>3, <3>2, <2>a DEF Promise!Send
      <4>. QED
        BY <4>4, <2>a DEF Promise!Next
    <3>7. CASE row.status = "retry"
      <4>1. Seen(job'[k].status) = Seen(job[k].status)
        BY <3>1, <3>4, <3>7 DEF Seen, Open
      <4>2. StateView' = StateView
        <5>1. \A j \in Jobs : Seen(job'[j].status) = Seen(job[j].status)
          BY <4>1, <3>4
        <5>. QED
          BY <5>1, SameState
      <4>3. at'[w].pc = "idle"
        BY <2>2, <3>7, <1>i DEF TypeOK
      <4>4. OwedView' = OwedView
        BY <4>3, <3>5, <2>a, OwedKept
      <4>. QED
        BY <1>q, <4>2, <4>4, <2>a
    <3>8. CASE row.status = "failed"
      <4>1. StateView' = [StateView EXCEPT ![k] = "failed"]
        <5>1. Seen(job'[k].status) = "failed"
          BY <3>4, <3>8 DEF Seen, Open
        <5>. QED
          BY <5>1, <3>4, <2>a, NewState
      <4>2. at'[w].pc = "report" /\ at'[w].job = k
        BY <2>2, <3>8, <1>a, <2>k DEF TypeOK, Activity
      <4>3. OwedView' = [OwedView EXCEPT ![k] = TRUE]
        <5>1. Owed(k)' = TRUE
          BY <4>2 DEF Owed
        <5>2. \A j \in Jobs \ {k} : Owed(j)' = Owed(j)
          BY <4>2, <3>5, <2>a, <2>k DEF Owed
        <5>. QED
          BY <5>1, <5>2, <2>a, NewOwed
      <4>4. Promise!GiveUp(k)
        BY <4>1, <4>3, <3>2, <2>a DEF Promise!GiveUp
      <4>. QED
        BY <4>4, <2>a DEF Promise!Next
    <3>. QED
      BY <3>3, <3>6, <3>7, <3>8
  <2>. QED
    BY <1>7, <2>1, <2>2, <2>k DEF Finish
<1>8. ASSUME NEW w \in Workers, Report(w) PROVE [Promise!Next]_(Promise!vars)
  <2>k. PICK k \in Jobs : k = at[w].job
    BY <1>a
  <2>1. at[w].pc = "report" /\ job' = job
    BY <1>8 DEF Report
  <2>2. at'[w].pc = "idle" /\ \A v \in Workers \ {w} : at'[v] = at[v]
    BY <1>8, <1>i DEF Report, TypeOK
  <2>3. \A v \in Workers : at[v].pc = "report" /\ at[v].job = k => v = w
    BY <2>1, <2>k DEF QueueInv, LeaseInv, OneReporter
  <2>4. StateView' = StateView
    BY <2>1, SameState
  <2>5. Owed(k) = TRUE /\ Owed(k)' = FALSE /\ \A j \in Jobs \ {k} : Owed(j)' = Owed(j)
    <3>1. Owed(k) = TRUE
      BY <2>1, <2>k DEF Owed
    <3>2. Owed(k)' = FALSE
      BY <2>2, <2>3 DEF Owed
    <3>3. \A j \in Jobs \ {k} : Owed(j)' = Owed(j)
      BY <2>2, <2>1, <2>k DEF Owed
    <3>. QED
      BY <3>1, <3>2, <3>3
  <2>6. CASE reported' = [reported EXCEPT ![k] = @ + 1]
    <3>1. OwedView' = [OwedView EXCEPT ![k] = FALSE]
      BY <2>5, <2>1, NewOwed
    <3>2. OwedView[k]
      BY <2>5, <2>1 DEF OwedView
    <3>3. Promise!Tell(k)
      BY <3>1, <3>2, <2>4, <2>6 DEF Promise!Tell
    <3>. QED
      BY <3>3, <2>1 DEF Promise!Next
  <2>7. CASE reported' = reported
    <3>1. OwedView' = [j \in Jobs |-> OwedView[j] /\ j \notin {k}]
      <4>1. \A j \in Jobs : Owed(j)' = (Owed(j) /\ j \notin {k})
        BY <2>5, <1>b
      <4>. QED
        BY <4>1, ForgetOwed
    <3>2. Promise!Forget({k})
      BY <3>1, <2>4, <2>7 DEF Promise!Forget
    <3>3. {k} \in SUBSET Jobs
      BY <2>1
    <3>. QED
      BY <3>2, <3>3 DEF Promise!Next
  <2>. QED
    BY <1>8, <2>6, <2>7, <2>k DEF Report
<1>9. ASSUME NEW i \in Instances, Crash(i) PROVE [Promise!Next]_(Promise!vars)
  <2>. DEFINE S == {j \in Jobs : Owed(j) /\ ~Owed(j)'}
  <2>1. \A v \in Workers : at'[v] = at[v] \/ at'[v].pc = "idle"
    BY <1>9, <1>i DEF Crash
  <2>2. \A j \in Jobs : Owed(j)' => Owed(j)
    BY <2>1 DEF Owed
  <2>3. \A j \in Jobs : Owed(j)' = (Owed(j) /\ j \notin S)
    BY <2>2, <1>b
  <2>4. OwedView' = [j \in Jobs |-> OwedView[j] /\ j \notin S]
    <3>. HIDE DEF S
    <3>. QED
      BY <2>3, ForgetOwed
  <2>5. job' = job /\ reported' = reported
    BY <1>9 DEF Crash
  <2>6. Promise!Forget(S)
    BY <2>4, <2>5, SameState DEF Promise!Forget
  <2>7. S \in SUBSET Jobs
    OBVIOUS
  <2>. QED
    BY <2>6, <2>7 DEF Promise!Next
<1>10. ASSUME NEW k \in Jobs, RemoveMessage(k) PROVE UNCHANGED Promise!vars
  <2>1. job' = job /\ at' = at /\ reported' = reported
    BY <1>10 DEF RemoveMessage
  <2>. QED
    BY <1>q, <2>1, SameState, OwedKept
<1>11. CASE UNCHANGED vars
  <2>1. job' = job /\ at' = at /\ reported' = reported
    BY <1>11 DEF vars
  <2>. QED
    BY <1>q, <2>1, SameState, OwedKept
<1>12. ASSUME NEW k \in Jobs, Enqueue(k) \/ Prune(k) PROVE Promise!Next
  BY <1>1, <1>2, <1>12 DEF Promise!Next
<1>. QED
  BY <1>3, <1>4, <1>5, <1>6, <1>7, <1>8, <1>9, <1>10, <1>11, <1>12
  DEF Next, LapseAbandoned, LapseLate

(* An empty queue owes nothing. *)
LEMMA InitPromise == Init => Promise!Init
<1>. SUFFICES ASSUME Init PROVE Promise!Init
  OBVIOUS
<1>1. StateView = [j \in Jobs |-> "absent"]
  BY DEF Init, StateView, Seen, Open
<1>2. OwedView = [j \in Jobs |-> FALSE]
  <2>1. \A w \in Workers : at[w].pc = "idle"
    BY DEF Init, Idle
  <2>2. \A j \in Jobs : Owed(j) = FALSE
    BY <2>1 DEF Owed
  <2>. QED
    BY <2>2 DEF OwedView
<1>. QED
  BY <1>1, <1>2 DEF Init, Promise!Init

(* The relay queue refines the promise submitters rely on: whatever workers  *)
(* claim, deliver, finish, report, lose to a crash or take over from each    *)
(* other (relay.go, cleanup/worker.go), a submitter sees each job settled    *)
(* once and its failure told at most once, by whoever settled it.            *)
THEOREM ImplementsPromise == Spec => Promise!Spec
<1>1. Init => Promise!Init
  BY InitPromise
<1>2. TypeOK /\ QueueInv /\ [Next]_vars => [Promise!Next]_(Promise!vars)
  BY NextPromise
<1>. QED
  BY <1>1, <1>2, TypeCorrect, QueueInvariant, PTL DEF Spec, Promise!Spec

==============================================================================
