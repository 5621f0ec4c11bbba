--------------------------- MODULE JobLeaseProofs ---------------------------
(***************************************************************************)
(* What JobLease promises for any number of jobs, workers and messages,    *)
(* any lease that outlasts the renewals, and any number of faults.         *)
(***************************************************************************)
EXTENDS JobLease, FiniteSetTheorems, TLAPS

(* A worker at rest is well formed. *)
LEMMA IdleType ==
  /\ Idle \in Activity /\ Idle.pc = "idle" /\ Idle.line = "up" /\ Idle.tick = Renew /\ Idle.since = 0
  /\ Idle.cancelled = FALSE /\ Idle.stop = FALSE
<1>1. (CHOOSE j \in Jobs : TRUE) \in Jobs
  BY LeaseAssumption
<1>2. 0 \in 0..Lease /\ Renew \in 0..Renew
  BY LeaseAssumption
<1>. QED
  BY <1>1, <1>2 DEF Idle, Activity

------------------------------------------------------------------------------
(* What a step of a worker does to the worker and to the row of its job. *)

Others(w) == \A v \in Workers \ {w} : at'[v] = at[v]

(* The worker goes on under its lease. *)
GoesOn(w) ==
  /\ at'[w].job = at[w].job /\ at'[w].token = at[w].token /\ at'[w].stop = at[w].stop
  /\ at'[w].cancelled = at[w].cancelled /\ at'[w].since = at[w].since
  /\ at'[w].tick = at[w].tick /\ at'[w].line = at[w].line

(* What the statements that ask for a lease look at. *)
SameLock(j) ==
  /\ job'[j].status = job[j].status /\ job'[j].owner = job[j].owner /\ job'[j].left = job[j].left

(* Work moves a worker on to a state for which it is well formed, and       *)
(* touches nothing of the jobs but the count.                               *)
LEMMA WorkStep ==
  ASSUME TypeOK, NEW w \in Workers, Work(w)
  PROVE  /\ at' \in [Workers -> Activity] /\ Others(w) /\ GoesOn(w)
         /\ at[w].pc \in {"next", "lookup", "create", "attach", "upload"}
         /\ at'[w].pc \in {"next", "lookup", "create", "attach", "finished"}
         /\ at'[w].pc \in {"lookup", "create", "attach"} => at'[w].item \in Contents
         /\ job' \in [Jobs -> JobRow] /\ \A j \in Jobs : SameLock(j)
         /\ rows' \in [Contents -> Nat] /\ attached' \in [Contents -> SUBSET Nat] /\ archive' \in [Jobs -> Nat]
<1>a. at[w] \in Activity /\ at \in [Workers -> Activity] /\ job \in [Jobs -> JobRow]
  BY DEF TypeOK
<1>1. CASE CheckAttached(w)
  <2>1. PICK c \in at[w].todo :
          \/ at' = [at EXCEPT ![w].todo = @ \ {c}]
          \/ at' = [at EXCEPT ![w].pc = "lookup", ![w].item = c]
    BY <1>1 DEF CheckAttached
  <2>2. at[w].pc = "next" /\ job' = job /\ rows' = rows /\ attached' = attached /\ archive' = archive
    BY <1>1 DEF CheckAttached, mail
  <2>3. c \in Contents /\ at[w].todo \ {c} \in SUBSET Contents
    BY <1>a DEF Activity
  <2>4. /\ at'[w] \in Activity /\ GoesOn(w) /\ at'[w].pc \in {"next", "lookup"}
        /\ at'[w].pc = "lookup" => at'[w].item \in Contents
    <3>1. CASE at' = [at EXCEPT ![w].todo = @ \ {c}]
      <4>1. at'[w] = [at[w] EXCEPT !.todo = at[w].todo \ {c}]
        BY <3>1, <1>a
      <4>. QED
        BY <2>2, <2>3, <4>1, <1>a DEF Activity, GoesOn
    <3>2. CASE at' = [at EXCEPT ![w].pc = "lookup", ![w].item = c]
      <4>1. at'[w] = [at[w] EXCEPT !.pc = "lookup", !.item = c]
        BY <3>2, <1>a
      <4>. QED
        BY <2>2, <2>3, <4>1, <1>a DEF Activity, GoesOn
    <3>. QED
      BY <2>1, <3>1, <3>2
  <2>5. at' \in [Workers -> Activity] /\ Others(w)
    BY <2>1, <2>4, <1>a DEF Others
  <2>. QED
    BY <2>2, <2>4, <2>5 DEF TypeOK, SameLock
<1>2. CASE LookUp(w)
  <2>1. at[w].pc = "lookup" /\ job' = job /\ rows' = rows /\ attached' = attached /\ archive' = archive
    BY <1>2 DEF LookUp, mail
  <2>2. at' = [at EXCEPT ![w].pc = "attach", ![w].row = 1] \/ at' = [at EXCEPT ![w].pc = "create"]
    BY <1>2 DEF LookUp
  <2>4. /\ at'[w] \in Activity /\ GoesOn(w) /\ at'[w].pc \in {"attach", "create"} /\ at'[w].item = at[w].item
    <3>1. CASE at' = [at EXCEPT ![w].pc = "attach", ![w].row = 1]
      <4>1. at'[w] = [at[w] EXCEPT !.pc = "attach", !.row = 1] /\ 1 \in Nat
        BY <3>1, <1>a
      <4>2. at'[w] \in Activity
        BY <4>1, <1>a DEF Activity
      <4>. QED
        BY <4>1, <4>2, <1>a DEF Activity, GoesOn
    <3>2. CASE at' = [at EXCEPT ![w].pc = "create"]
      <4>1. at'[w] = [at[w] EXCEPT !.pc = "create"]
        BY <3>2, <1>a
      <4>. QED
        BY <4>1, <1>a DEF Activity, GoesOn
    <3>. QED
      BY <2>2, <3>1, <3>2
  <2>5. at' \in [Workers -> Activity] /\ Others(w)
    BY <2>2, <2>4, <1>a DEF Others
  <2>. QED
    BY <2>1, <2>4, <2>5 DEF TypeOK, SameLock
<1>3. CASE CreateMessage(w)
  <2>1. /\ at[w].pc = "create" /\ job' = job /\ attached' = attached /\ archive' = archive
        /\ rows' = [rows EXCEPT ![at[w].item] = @ + 1]
        /\ at' = [at EXCEPT ![w].pc = "attach", ![w].row = rows[at[w].item] + 1]
    BY <1>3 DEF CreateMessage
  <2>2. at[w].item \in Contents /\ rows[at[w].item] + 1 \in Nat
    BY <2>1 DEF TypeOK
  <2>3. at'[w] = [at[w] EXCEPT !.pc = "attach", !.row = rows[at[w].item] + 1]
    BY <2>1, <1>a
  <2>4. /\ at'[w] \in Activity /\ GoesOn(w) /\ at'[w].pc = "attach" /\ at'[w].item = at[w].item
    BY <2>2, <2>3, <1>a DEF Activity, GoesOn
  <2>5. at' \in [Workers -> Activity] /\ Others(w)
    BY <2>1, <2>4, <1>a DEF Others
  <2>6. rows' \in [Contents -> Nat]
    BY <2>1, <2>2 DEF TypeOK
  <2>. QED
    BY <2>1, <2>2, <2>4, <2>5, <2>6 DEF TypeOK, SameLock
<1>4. CASE AttachMessage(w)
  <2>1. PICK n \in Nat, flush \in BOOLEAN :
          /\ at' = [at EXCEPT ![w].pc = "next", ![w].todo = @ \ {at[w].item}, ![w].count = n]
          /\ job' = [job EXCEPT ![at[w].job].count = IF flush THEN n ELSE @]
    <3>1. at[w].count + (IF at[w].row \notin attached[at[w].item] THEN 1 ELSE 0) \in Nat
      BY <1>a DEF Activity
    <3>. QED
      BY <1>4, <3>1 DEF AttachMessage
  <2>2. /\ at[w].pc = "attach" /\ rows' = rows /\ archive' = archive
        /\ attached' = [attached EXCEPT ![at[w].item] = @ \cup {at[w].row}]
    BY <1>4 DEF AttachMessage
  <2>3. at'[w] = [at[w] EXCEPT !.pc = "next", !.todo = at[w].todo \ {at[w].item}, !.count = n]
    BY <2>1, <1>a
  <2>4. at'[w] \in Activity /\ GoesOn(w) /\ at'[w].pc = "next"
    BY <2>3, <1>a DEF Activity, GoesOn
  <2>5. at' \in [Workers -> Activity] /\ Others(w)
    BY <2>1, <2>4, <1>a DEF Others
  <2>6. job' \in [Jobs -> JobRow] /\ \A j \in Jobs : SameLock(j)
    BY <2>1, <1>a DEF JobRow, SameLock
  <2>7. attached' \in [Contents -> SUBSET Nat]
    BY <2>2, <1>a DEF TypeOK, Activity
  <2>. QED
    BY <2>2, <2>4, <2>5, <2>6, <2>7 DEF TypeOK
<1>5. CASE EndOfImport(w)
  <2>1. /\ at[w].pc = "next" /\ rows' = rows /\ attached' = attached /\ archive' = archive
        /\ at' = [at EXCEPT ![w].pc = "finished"]
        /\ job' = [job EXCEPT ![at[w].job].count = IF at[w].cancelled \/ at[w].count = 0 THEN @ ELSE at[w].count]
    BY <1>5 DEF EndOfImport, mail
  <2>2. at'[w] = [at[w] EXCEPT !.pc = "finished"]
    BY <2>1, <1>a
  <2>3. at'[w] \in Activity /\ GoesOn(w) /\ at'[w].pc = "finished"
    BY <2>2, <1>a DEF Activity, GoesOn
  <2>4. at' \in [Workers -> Activity] /\ Others(w)
    BY <2>1, <2>3, <1>a DEF Others
  <2>5. job' \in [Jobs -> JobRow] /\ \A j \in Jobs : SameLock(j)
    <3>1. at[w].count \in Nat
      BY <1>a DEF Activity
    <3>. QED
      BY <2>1, <3>1, <1>a DEF JobRow, SameLock
  <2>. QED
    BY <2>1, <2>3, <2>4, <2>5 DEF TypeOK
<1>6. CASE Upload(w)
  <2>1. /\ at[w].pc = "upload" /\ job' = job /\ rows' = rows /\ attached' = attached
        /\ archive' = [archive EXCEPT ![at[w].job] = at[w].token]
        /\ at' = [at EXCEPT ![w].pc = "finished"]
    BY <1>6 DEF Upload
  <2>2. at'[w] = [at[w] EXCEPT !.pc = "finished"]
    BY <2>1, <1>a
  <2>3. at'[w] \in Activity /\ GoesOn(w) /\ at'[w].pc = "finished"
    BY <2>2, <1>a DEF Activity, GoesOn
  <2>4. at' \in [Workers -> Activity] /\ Others(w)
    BY <2>1, <2>3, <1>a DEF Others
  <2>5. archive' \in [Jobs -> Nat]
    BY <2>1, <1>a DEF TypeOK, Activity
  <2>. QED
    BY <2>1, <2>3, <2>4, <2>5 DEF TypeOK, SameLock
<1>. QED
  BY <1>1, <1>2, <1>3, <1>4, <1>5, <1>6 DEF Work

(* claim: the worker begins with a token nobody had. *)
LEMMA ClaimStep ==
  ASSUME TypeOK, NEW w \in Workers, NEW j \in Jobs, Claim(w, j)
  PROVE  /\ at' \in [Workers -> Activity] /\ Others(w) /\ at[w].pc = "idle"
         /\ at'[w].pc = (IF kind[j] = "import" THEN "next" ELSE "upload")
         /\ at'[w].job = j /\ at'[w].token = claims + 1 /\ at'[w].cancelled = FALSE
         /\ at'[w].since = 0 /\ at'[w].tick = Renew /\ at'[w].line = "up" /\ at'[w].todo = Contents
         /\ job[j].left = 0 /\ job[j].status \in {"queued", "processing"}
         /\ job' \in [Jobs -> JobRow] /\ \A k \in Jobs \ {j} : job'[k] = job[k]
         /\ job'[j].status = "processing" /\ job'[j].owner = claims + 1 /\ job'[j].count = job[j].count
         /\ job'[j].left >= Lease - Slack
<1>a. at \in [Workers -> Activity] /\ job \in [Jobs -> JobRow] /\ claims + 1 \in Nat
  BY DEF TypeOK
<1>1. PICK s \in 0..Slack :
        job' = [job EXCEPT ![j].status = "processing", ![j].owner = claims + 1, ![j].left = Lease - s]
  BY DEF Claim, Granted
<1>2. Lease - s \in 0..Lease /\ Lease - s >= Lease - Slack
  BY LeaseAssumption
<1>3. at' = [at EXCEPT ![w] = [Idle EXCEPT !.pc = IF kind[j] = "import" THEN "next" ELSE "upload",
                                          !.job = j, !.token = claims + 1, !.todo = Contents]]
  BY DEF Claim
<1>4. PICK pc \in {"next", "upload"} : pc = IF kind[j] = "import" THEN "next" ELSE "upload"
  OBVIOUS
<1>5. at'[w] = [Idle EXCEPT !.pc = pc, !.job = j, !.token = claims + 1, !.todo = Contents]
  BY <1>3, <1>4, <1>a
<1>6. /\ at'[w] \in Activity /\ at'[w].pc = pc
      /\ at'[w].job = j /\ at'[w].token = claims + 1 /\ at'[w].cancelled = FALSE
      /\ at'[w].since = 0 /\ at'[w].tick = Renew /\ at'[w].line = "up" /\ at'[w].todo = Contents
  BY <1>5, <1>a, IdleType, ZenonT(60) DEF Activity
<1>7. at' \in [Workers -> Activity] /\ Others(w)
  BY <1>3, <1>6, <1>a DEF Others
<1>8. job'[j] = [job[j] EXCEPT !.status = "processing", !.owner = claims + 1, !.left = Lease - s]
  BY <1>1, <1>a
<1>9. /\ job'[j] \in JobRow /\ job'[j].status = "processing" /\ job'[j].owner = claims + 1
      /\ job'[j].count = job[j].count /\ job'[j].left = Lease - s
  BY <1>8, <1>2, <1>a DEF JobRow
<1>10. job' \in [Jobs -> JobRow] /\ \A k \in Jobs \ {j} : job'[k] = job[k]
  BY <1>1, <1>9, <1>a
<1>. QED
  BY <1>2, <1>4, <1>6, <1>7, <1>9, <1>10 DEF Claim, Claimable

(* The renewal takes effect, finds that the lease is lost, or fails: then   *)
(* the worker goes on only if it was renewed lately.                        *)
Extended(w) ==
  /\ Renewable(w) /\ job' \in [Jobs -> JobRow] /\ \A k \in Jobs \ {at[w].job} : job'[k] = job[k]
  /\ job'[at[w].job].status = job[at[w].job].status /\ job'[at[w].job].owner = job[at[w].job].owner
  /\ job'[at[w].job].count = job[at[w].job].count /\ job'[at[w].job].left >= Lease - Slack
  /\ at'[w].cancelled = at[w].cancelled /\ at'[w].since = 0 /\ at'[w].tick = Renew /\ at'[w].line = "up"

NotExtended(w) ==
  /\ job' = job /\ at'[w].since = at[w].since
  /\ at'[w].line \in {at[w].line, "down"}
  /\ at'[w].cancelled \/ (at'[w].cancelled = at[w].cancelled /\ at[w].since <= GiveUp /\ at'[w].tick = Renew)

(* What renewing changes in a worker is only how long it may go on. *)
SameWork(w) ==
  /\ at'[w].pc = at[w].pc /\ at'[w].job = at[w].job /\ at'[w].token = at[w].token
  /\ at'[w].todo = at[w].todo /\ at'[w].item = at[w].item /\ at'[w].row = at[w].row /\ at'[w].count = at[w].count

(* The renewer's tick, and the return of a call that hung. *)
LEMMA RenewStep ==
  ASSUME TypeOK, NEW w \in Workers, RenewLease(w) \/ HangEnds(w)
  PROVE  /\ at' \in [Workers -> Activity] /\ Others(w) /\ SameWork(w) /\ Alive(w) /\ faults' \in Nat
         /\ Extended(w) \/ NotExtended(w)
<1>a. at \in [Workers -> Activity] /\ job \in [Jobs -> JobRow] /\ at[w] \in Activity /\ at[w].job \in Jobs
  BY DEF TypeOK, Activity
<1>n. Renew \in 0..Renew /\ 0 \in 0..Lease
  BY LeaseAssumption
<1>f. Alive(w) /\ faults' \in Nat
  BY DEF RenewLease, HangEnds, Fault, TypeOK
<1>1. CASE Renewed(w) /\ Renewable(w)
  <2>1. PICK s \in 0..Slack : job' = [job EXCEPT ![at[w].job].left = Lease - s]
    BY <1>1 DEF Renewed, Granted
  <2>2. Lease - s \in 0..Lease /\ Lease - s >= Lease - Slack
    BY LeaseAssumption
  <2>3. at' = [at EXCEPT ![w].since = 0, ![w].tick = Renew, ![w].line = "up"]
    BY <1>1 DEF Renewed
  <2>4. at'[w] = [at[w] EXCEPT !.since = 0, !.tick = Renew, !.line = "up"]
    BY <2>3, <1>a
  <2>5. /\ at'[w] \in Activity /\ at'[w].since = 0 /\ at'[w].tick = Renew /\ at'[w].line = "up"
        /\ at'[w].cancelled = at[w].cancelled
    BY <2>4, <1>a, <1>n DEF Activity
  <2>6. SameWork(w)
    BY <2>4, <1>a DEF Activity, SameWork
  <2>7. at' \in [Workers -> Activity] /\ Others(w)
    BY <2>3, <2>5, <1>a DEF Others
  <2>8. job'[at[w].job] = [job[at[w].job] EXCEPT !.left = Lease - s]
    BY <2>1, <1>a
  <2>9. job'[at[w].job] \in JobRow /\ job'[at[w].job].left = Lease - s
        /\ job'[at[w].job].status = job[at[w].job].status /\ job'[at[w].job].owner = job[at[w].job].owner
        /\ job'[at[w].job].count = job[at[w].job].count
    BY <2>8, <2>2, <1>a DEF JobRow
  <2>10. job' \in [Jobs -> JobRow] /\ \A k \in Jobs \ {at[w].job} : job'[k] = job[k]
    BY <2>1, <2>9, <1>a
  <2>. QED
    BY <1>1, <1>f, <2>2, <2>5, <2>6, <2>7, <2>9, <2>10 DEF Extended
<1>2. CASE Renewed(w) /\ ~Renewable(w)
  <2>1. at' = [at EXCEPT ![w].cancelled = TRUE] /\ job' = job
    BY <1>2 DEF Renewed
  <2>2. at'[w] = [at[w] EXCEPT !.cancelled = TRUE]
    BY <2>1, <1>a
  <2>3. /\ at'[w] \in Activity /\ at'[w].cancelled /\ at'[w].since = at[w].since /\ at'[w].line = at[w].line
        /\ SameWork(w)
    BY <2>2, <1>a DEF Activity, SameWork
  <2>4. at' \in [Workers -> Activity] /\ Others(w)
    BY <2>1, <2>3, <1>a DEF Others
  <2>. QED
    BY <1>f, <2>1, <2>3, <2>4 DEF NotExtended
<1>3. CASE RenewalFailed(w)
  <2>1. PICK cancel \in BOOLEAN :
          /\ IF cancel THEN ~MustGoOn(w) ELSE MayGoOn(w)
          /\ at' = [at EXCEPT ![w].cancelled = cancel, ![w].tick = Renew, ![w].line = "down"]
    BY <1>3 DEF RenewalFailed
  <2>2. at'[w] = [at[w] EXCEPT !.cancelled = cancel, !.tick = Renew, !.line = "down"]
    BY <2>1, <1>a
  <2>3. at'[w] \in Activity
    BY <2>2, <1>a, <1>n DEF Activity
  <2>4. /\ at'[w].cancelled = cancel /\ at'[w].since = at[w].since /\ at'[w].line = "down"
        /\ at'[w].tick = Renew /\ SameWork(w)
    BY <2>2, <1>a DEF Activity, SameWork
  <2>5. at' \in [Workers -> Activity] /\ Others(w)
    BY <2>1, <2>3, <1>a DEF Others
  <2>6. ~at[w].cancelled /\ at[w].cancelled \in BOOLEAN
    BY <1>f, <1>a DEF Alive, Activity
  <2>7. NotExtended(w)
    <3>1. CASE cancel
      BY <1>3, <2>4, <3>1 DEF NotExtended, RenewalFailed
    <3>2. CASE ~cancel
      <4>1. at[w].since <= GiveUp
        BY <2>1, <3>2 DEF MayGoOn
      <4>2. at'[w].cancelled = at[w].cancelled
        BY <2>4, <2>6, <3>2
      <4>. QED
        BY <1>3, <2>4, <4>1, <4>2 DEF NotExtended, RenewalFailed
    <3>. QED
      BY <3>1, <3>2
  <2>. QED
    BY <1>f, <2>4, <2>5, <2>7
<1>. QED
  BY <1>1, <1>2, <1>3 DEF RenewLease, HangEnds

(* The worker drops its job, or ends it. *)
Rests(w) == at' = [at EXCEPT ![w] = Idle]

(* It rests in good order. *)
LEMMA RestStep ==
  ASSUME TypeOK, NEW w \in Workers, Rests(w)
  PROVE  at' \in [Workers -> Activity] /\ Others(w) /\ at'[w].pc = "idle" /\ at'[w].line = "up"
<1>a. at \in [Workers -> Activity]
  BY DEF TypeOK
<1>. QED
  BY <1>a, IdleType DEF Rests, Others

(* The worker's update settles the job. *)
Settling(w, status) ==
  /\ Owns(w) /\ ~at[w].stop
  /\ at' \in [Workers -> Activity] /\ Others(w) /\ GoesOn(w) /\ at'[w].pc = "emit"
  /\ job' \in [Jobs -> JobRow] /\ \A k \in Jobs \ {at[w].job} : job'[k] = job[k]
  /\ job'[at[w].job].status = status /\ job'[at[w].job].owner = 0
  /\ settler' = [settler EXCEPT ![at[w].job] = at[w].token]

(* The end of a job that was done or has failed. *)
LEMMA SettleStep ==
  ASSUME TypeOK, NEW w \in Workers, NEW status \in Settled, Settle(w, status)
  PROVE  /\ faults' \in Nat
         /\ Settling(w, status) \/ (Rests(w) /\ job' = job /\ settler' = settler)
<1>a. /\ at \in [Workers -> Activity] /\ job \in [Jobs -> JobRow] /\ at[w] \in Activity
      /\ at[w].job \in Jobs /\ at[w].count \in Nat /\ job[at[w].job].count \in Nat
  BY DEF TypeOK, Activity, JobRow
<1>f. faults' \in Nat
  BY DEF Settle, Fault, TypeOK
<1>1. CASE Rests(w) /\ job' = job /\ settler' = settler
  BY <1>1, <1>f
<1>2. CASE /\ ~at[w].stop /\ MayUpdate(w) /\ at' = [at EXCEPT ![w].pc = "emit"]
           /\ job' = [job EXCEPT ![at[w].job] = [Unlocked(job[at[w].job], status) EXCEPT
                        !.count = IF kind[at[w].job] = "import" THEN at[w].count ELSE job[at[w].job].count]]
           /\ settler' = [settler EXCEPT ![at[w].job] = at[w].token]
  <2>1. PICK n \in Nat : job'[at[w].job] = [Unlocked(job[at[w].job], status) EXCEPT !.count = n]
    BY <1>2, <1>a
  <2>2. 0 \in Nat /\ 0 \in 0..Lease
    BY LeaseAssumption
  <2>3. Unlocked(job[at[w].job], status) \in JobRow
    BY <1>a, <2>2 DEF Unlocked, JobRow
  <2>4. Unlocked(job[at[w].job], status).status = status /\ Unlocked(job[at[w].job], status).owner = 0
    BY <1>a DEF Unlocked, JobRow
  <2>5. job'[at[w].job] \in JobRow /\ job'[at[w].job].status = status /\ job'[at[w].job].owner = 0
    BY <2>1, <2>3, <2>4 DEF JobRow
  <2>6. job' \in [Jobs -> JobRow] /\ \A k \in Jobs \ {at[w].job} : job'[k] = job[k]
    BY <1>2, <1>a, <2>5
  <2>7. at'[w] = [at[w] EXCEPT !.pc = "emit"]
    BY <1>2, <1>a
  <2>8. at'[w] \in Activity /\ GoesOn(w) /\ at'[w].pc = "emit"
    BY <2>7, <1>a DEF Activity, GoesOn
  <2>9. at' \in [Workers -> Activity] /\ Others(w)
    BY <1>2, <2>8, <1>a DEF Others
  <2>. QED
    BY <1>2, <1>f, <2>5, <2>6, <2>8, <2>9 DEF Settling, MayUpdate
<1>. QED
  BY <1>1, <1>2 DEF Settle, Rests

(* A failed step leaves the job to be failed or released; a silent server   *)
(* leaves the worker waiting.                                               *)
LEMMA BreakStep ==
  ASSUME TypeOK, NEW w \in Workers, WorkFails(w) \/ Stall(w)
  PROVE  /\ at' \in [Workers -> Activity] /\ Others(w) /\ GoesOn(w) /\ at'[w].pc \in {"broken", "silent"}
         /\ Working(w)
         /\ job' \in [Jobs -> JobRow] /\ \A j \in Jobs : SameLock(j)
         /\ \A j \in Jobs : job'[j].count # job[j].count => j = at[w].job /\ ~at[w].cancelled
<1>a. at \in [Workers -> Activity] /\ job \in [Jobs -> JobRow] /\ at[w] \in Activity
  BY DEF TypeOK
<1>1. PICK pc \in {"broken", "silent"} : at' = [at EXCEPT ![w].pc = pc]
  BY DEF WorkFails, Stall
<1>2. at'[w] = [at[w] EXCEPT !.pc = pc] /\ Others(w)
  BY <1>a, <1>1 DEF Others
<1>3. at'[w] \in Activity /\ GoesOn(w) /\ at'[w].pc \in {"broken", "silent"}
  BY <1>2, <1>a DEF Activity, GoesOn
<1>4. at' \in [Workers -> Activity]
  BY <1>a, <1>1, <1>3
<1>5. at[w].count \in Nat
  BY <1>a DEF Activity
<1>6. \/ job' = job
      \/ job' = [job EXCEPT ![at[w].job].count = IF at[w].cancelled \/ at[w].count = 0 THEN @ ELSE at[w].count]
  BY DEF WorkFails, Stall
<1>7. job' \in [Jobs -> JobRow] /\ \A j \in Jobs : SameLock(j)
  BY <1>5, <1>6, <1>a DEF JobRow, SameLock
<1>8. \A j \in Jobs : job'[j].count # job[j].count => j = at[w].job /\ ~at[w].cancelled
  BY <1>6, <1>a DEF JobRow
<1>9. Working(w)
  BY DEF WorkFails, Stall, Working
<1>. QED
  BY <1>2, <1>3, <1>4, <1>7, <1>8, <1>9

(* release: the job is queued again if the worker still has it. *)
LEMMA ReleaseStep ==
  ASSUME TypeOK, NEW w \in Workers, Release(w)
  PROVE  /\ Rests(w) /\ at[w].pc = "broken" /\ at[w].cancelled /\ faults' \in Nat
         /\ job' \in [Jobs -> JobRow] /\ \A k \in Jobs \ {at[w].job} : job'[k] = job[k]
         /\ \/ job' = job
            \/ Owns(w) /\ job'[at[w].job].status = "queued" /\ job'[at[w].job].owner = 0
<1>a. job \in [Jobs -> JobRow] /\ at[w].job \in Jobs
  BY DEF TypeOK, Activity
<1>1. Rests(w) /\ at[w].pc = "broken" /\ at[w].cancelled /\ faults' \in Nat
  BY DEF Release, Rests, Fault, TypeOK
<1>2. CASE job' = job
  BY <1>1, <1>2, <1>a
<1>3. CASE Owns(w) /\ job' = [job EXCEPT ![at[w].job] = Unlocked(job[at[w].job], "queued")]
  <2>1. 0 \in Nat /\ 0 \in 0..Lease
    BY LeaseAssumption
  <2>2. /\ Unlocked(job[at[w].job], "queued") \in JobRow
        /\ Unlocked(job[at[w].job], "queued").status = "queued" /\ Unlocked(job[at[w].job], "queued").owner = 0
    BY <1>a, <2>1 DEF Unlocked, JobRow
  <2>. QED
    BY <1>1, <1>3, <1>a, <2>2
<1>. QED
  BY <1>2, <1>3 DEF Release, MayUpdate

(* A shutdown ends both contexts of a worker. *)
LEMMA ShutdownStep ==
  ASSUME TypeOK, NEW w \in Workers, Shutdown(w)
  PROVE  /\ at' \in [Workers -> Activity] /\ Others(w) /\ SameWork(w) /\ at'[w].cancelled
         /\ at'[w].line = at[w].line
<1>a. at \in [Workers -> Activity] /\ at[w] \in Activity
  BY DEF TypeOK
<1>1. at'[w] = [at[w] EXCEPT !.stop = TRUE, !.cancelled = TRUE] /\ Others(w)
  BY <1>a DEF Shutdown, Others
<1>2. at'[w] \in Activity /\ at'[w].cancelled /\ SameWork(w) /\ at'[w].line = at[w].line
  BY <1>1, <1>a DEF Activity, SameWork
<1>3. at' \in [Workers -> Activity]
  BY <1>a, <1>2 DEF Shutdown
<1>. QED
  BY <1>1, <1>2, <1>3

(* A renewal that hangs. *)
LEMMA HangStep ==
  ASSUME TypeOK, NEW w \in Workers, Hang(w)
  PROVE  at' \in [Workers -> Activity] /\ Others(w) /\ SameWork(w) /\ Alive(w) /\ Alive(w)' = Alive(w)
<1>a. at \in [Workers -> Activity] /\ at[w] \in Activity
  BY DEF TypeOK
<1>1. at'[w] = [at[w] EXCEPT !.line = "hung"] /\ Others(w)
  BY <1>a DEF Hang, Others
<1>2. at'[w] \in Activity /\ SameWork(w) /\ at'[w].cancelled = at[w].cancelled
  BY <1>1, <1>a DEF Activity, SameWork
<1>3. at' \in [Workers -> Activity]
  BY <1>a, <1>2 DEF Hang
<1>4. Alive(w)
  BY DEF Hang
<1>5. Alive(w)' = Alive(w)
  BY <1>2 DEF Alive, Busy, SameWork
<1>. QED
  BY <1>1, <1>2, <1>3, <1>4, <1>5

(* A minute passes for the rows and for the renewers. *)
LEMMA TickStep ==
  ASSUME TypeOK, Tick
  PROVE  /\ at' \in [Workers -> Activity]
         /\ \A w \in Workers :
              /\ SameWork(w) /\ at'[w].cancelled = at[w].cancelled /\ at'[w].line = at[w].line
              /\ Alive(w) /\ at[w].tick > 0 /\ at[w].since < Lease =>
                   at'[w].since = at[w].since + 1 /\ at'[w].tick = at[w].tick - 1
         /\ job' \in [Jobs -> JobRow]
         /\ \A j \in Jobs :
              /\ job'[j].status = job[j].status /\ job'[j].owner = job[j].owner /\ job'[j].count = job[j].count
              /\ job[j].left > 0 => job'[j].left = job[j].left - 1
<1>1. ASSUME NEW w \in Workers
      PROVE  /\ at'[w] \in Activity
             /\ SameWork(w) /\ at'[w].cancelled = at[w].cancelled /\ at'[w].line = at[w].line
             /\ Alive(w) /\ at[w].tick > 0 /\ at[w].since < Lease =>
                  at'[w].since = at[w].since + 1 /\ at'[w].tick = at[w].tick - 1
  <2>a. at[w] \in Activity
    BY DEF TypeOK
  <2>1. CASE ~Alive(w)
    <3>1. at'[w] = at[w]
      BY <2>1 DEF Tick
    <3>. QED
      BY <2>1, <2>a, <3>1 DEF SameWork
  <2>2. CASE Alive(w)
    <3>1. PICK t, s : /\ t = IF at[w].tick > 0 THEN at[w].tick - 1 ELSE 0
                      /\ s = IF at[w].since < Lease THEN at[w].since + 1 ELSE at[w].since
      OBVIOUS
    <3>2. at'[w] = [at[w] EXCEPT !.tick = t, !.since = s]
      BY <2>2, <3>1 DEF Tick
    <3>3. at[w].tick \in 0..Renew /\ at[w].since \in 0..Lease
      BY <2>a DEF Activity
    <3>4. t \in 0..Renew /\ s \in 0..Lease
      BY <3>1, <3>3, LeaseAssumption
    <3>5. at'[w] \in Activity
      BY <2>a, <3>2, <3>4 DEF Activity
    <3>6. /\ at'[w].tick = t /\ at'[w].since = s /\ SameWork(w)
          /\ at'[w].cancelled = at[w].cancelled /\ at'[w].line = at[w].line
      BY <2>a, <3>2 DEF Activity, SameWork
    <3>. QED
      BY <3>1, <3>5, <3>6
  <2>. QED
    BY <2>1, <2>2
<1>2. ASSUME NEW j \in Jobs
      PROVE  /\ job'[j] \in JobRow
             /\ job'[j].status = job[j].status /\ job'[j].owner = job[j].owner /\ job'[j].count = job[j].count
             /\ job[j].left > 0 => job'[j].left = job[j].left - 1
  <2>a. job[j] \in JobRow /\ job[j].left \in 0..Lease
    BY DEF TypeOK, JobRow
  <2>1. PICK n : n = IF job[j].left > 0 THEN job[j].left - 1 ELSE 0
    OBVIOUS
  <2>2. job'[j] = [job[j] EXCEPT !.left = n]
    BY <2>1 DEF Tick
  <2>3. n \in 0..Lease
    BY <2>a, <2>1, LeaseAssumption
  <2>. QED
    BY <2>a, <2>1, <2>2, <2>3 DEF JobRow
<1>3. at' \in [Workers -> Activity] /\ job' \in [Jobs -> JobRow]
  BY <1>1, <1>2 DEF Tick
<1>. QED
  BY <1>1, <1>2, <1>3

(* Creation, recovery and expiry of jobs. *)
LEMMA RowStep ==
  ASSUME TypeOK, RecoverStaleLeases \/ \E k \in Jobs : Create(k) \/ CleanupExpiredExports(k)
  PROVE  /\ job' \in [Jobs -> JobRow]
         /\ \A j \in Jobs : /\ job'[j].count = job[j].count
                            /\ \/ job'[j] = job[j]
                               \/ job[j].status = "absent" /\ job'[j].status = "queued" /\ job'[j].owner = job[j].owner
                               \/ job[j].status = "completed" /\ kind[j] = "export" /\ job'[j].status = "expired"
                                    /\ job'[j].owner = job[j].owner
                               \/ Stale(job[j]) /\ job'[j].status = "queued" /\ job'[j].owner = 0
<1>a. job \in [Jobs -> JobRow]
  BY DEF TypeOK
<1>1. CASE RecoverStaleLeases
  <2>1. 0 \in Nat /\ 0 \in 0..Lease
    BY LeaseAssumption
  <2>2. \A j \in Jobs : /\ Unlocked(job[j], "queued") \in JobRow /\ Unlocked(job[j], "queued").status = "queued"
                        /\ Unlocked(job[j], "queued").owner = 0 /\ Unlocked(job[j], "queued").count = job[j].count
    BY <1>a, <2>1 DEF Unlocked, JobRow
  <2>. QED
    BY <1>1, <1>a, <2>2 DEF RecoverStaleLeases
<1>2. ASSUME NEW k \in Jobs, Create(k)
      PROVE  /\ job' \in [Jobs -> JobRow]
             /\ \A j \in Jobs : /\ job'[j].count = job[j].count
                                /\ \/ job'[j] = job[j]
                                   \/ job[j].status = "absent" /\ job'[j].status = "queued"
                                        /\ job'[j].owner = job[j].owner
  BY <1>2, <1>a DEF Create, JobRow
<1>3. ASSUME NEW k \in Jobs, CleanupExpiredExports(k)
      PROVE  /\ job' \in [Jobs -> JobRow]
             /\ \A j \in Jobs : /\ job'[j].count = job[j].count
                                /\ \/ job'[j] = job[j]
                                   \/ job[j].status = "completed" /\ kind[j] = "export" /\ job'[j].status = "expired"
                                        /\ job'[j].owner = job[j].owner
  <2>1. job' = job \/ job' = [job EXCEPT ![k].status = "expired"]
    BY <1>3 DEF CleanupExpiredExports
  <2>. QED
    BY <1>3, <1>a, <2>1 DEF CleanupExpiredExports, JobRow
<1>. QED
  BY <1>1, <1>2, <1>3

------------------------------------------------------------------------------
(* Types. *)

(* At the beginning there are no jobs. *)
LEMMA InitType == Init => TypeOK
<1>. SUFFICES ASSUME Init PROVE TypeOK
  OBVIOUS
<1>1. at \in [Workers -> Activity] /\ \A w \in Workers : at[w].pc = "idle"
  BY IdleType DEF Init
<1>2. job \in [Jobs -> JobRow]
  <2>1. 0 \in 0..Lease
    BY LeaseAssumption
  <2>. QED
    BY <2>1 DEF Init, JobRow
<1>. QED
  BY <1>1, <1>2 DEF Init, TypeOK

(* Every step of workers, renewers, time and cleanup keeps the types. *)
LEMMA NextType == TypeOK /\ [Next]_vars => TypeOK'
<1>. SUFFICES ASSUME TypeOK, [Next]_vars PROVE TypeOK'
  OBVIOUS
<1>i. \A w \in Workers : at[w].pc \in {"lookup", "create", "attach"} => at[w].item \in Contents
  BY DEF TypeOK
<1>1. ASSUME NEW w \in Workers, NEW j \in Jobs, Claim(w, j) PROVE TypeOK'
  <2>1. at' \in [Workers -> Activity] /\ job' \in [Jobs -> JobRow] /\ at'[w].pc \in {"next", "upload"} /\ Others(w)
    BY <1>1, ClaimStep
  <2>. QED
    BY <1>1, <1>i, <2>1 DEF Claim, TypeOK, mail, Others
<1>2. ASSUME NEW w \in Workers, RenewLease(w) \/ HangEnds(w) PROVE TypeOK'
  <2>1. at' \in [Workers -> Activity] /\ Others(w) /\ SameWork(w) /\ faults' \in Nat
    BY <1>2, RenewStep
  <2>2. job' \in [Jobs -> JobRow]
    BY <1>2, RenewStep DEF Extended, NotExtended, TypeOK
  <2>. QED
    BY <1>2, <1>i, <2>1, <2>2 DEF RenewLease, HangEnds, TypeOK, mail, history, Others, SameWork
<1>3. ASSUME NEW w \in Workers, Hang(w) PROVE TypeOK'
  <2>1. at' \in [Workers -> Activity] /\ Others(w) /\ SameWork(w)
    BY <1>3, HangStep
  <2>. QED
    BY <1>3, <1>i, <2>1 DEF Hang, Fault, TypeOK, mail, Others, SameWork
<1>4. ASSUME NEW w \in Workers, Work(w) PROVE TypeOK'
  <2>1. /\ at' \in [Workers -> Activity] /\ Others(w) /\ job' \in [Jobs -> JobRow]
        /\ at'[w].pc \in {"lookup", "create", "attach"} => at'[w].item \in Contents
        /\ rows' \in [Contents -> Nat] /\ attached' \in [Contents -> SUBSET Nat] /\ archive' \in [Jobs -> Nat]
    BY <1>4, WorkStep
  <2>. QED
    BY <1>4, <1>i, <2>1 DEF Work, TypeOK, Others
<1>5. ASSUME NEW w \in Workers, WorkFails(w) \/ Stall(w) PROVE TypeOK'
  <2>1. at' \in [Workers -> Activity] /\ Others(w) /\ at'[w].pc \in {"broken", "silent"} /\ job' \in [Jobs -> JobRow]
    BY <1>5, BreakStep
  <2>. QED
    BY <1>5, <1>i, <2>1 DEF WorkFails, Stall, TypeOK, mail, history, Others
<1>6. ASSUME NEW w \in Workers, Complete(w) \/ Fail(w) PROVE TypeOK'
  <2>1. PICK status \in Settled : Settle(w, status)
    BY <1>6 DEF Complete, Fail, Settled
  <2>2. faults' \in Nat
    BY <2>1, SettleStep
  <2>3. CASE Settling(w, status)
    <3>1. at[w].token \in Nat
      BY DEF TypeOK, Activity
    <3>2. settler' \in [Jobs -> Nat]
      BY <2>3, <3>1 DEF Settling, TypeOK
    <3>. QED
      BY <1>6, <1>i, <2>2, <2>3, <3>2 DEF Settling, Complete, Fail, TypeOK, mail, Others
  <2>4. CASE Rests(w) /\ job' = job /\ settler' = settler
    <3>1. at' \in [Workers -> Activity] /\ Others(w) /\ at'[w].pc = "idle"
      BY <2>4, RestStep
    <3>. QED
      BY <1>6, <1>i, <2>2, <2>4, <3>1 DEF Complete, Fail, TypeOK, mail, Others
  <2>. QED
    BY <2>1, <2>3, <2>4, SettleStep
<1>7. ASSUME NEW w \in Workers, Release(w) PROVE TypeOK'
  <2>1. Rests(w) /\ faults' \in Nat /\ job' \in [Jobs -> JobRow]
    BY <1>7, ReleaseStep
  <2>2. at' \in [Workers -> Activity] /\ Others(w) /\ at'[w].pc = "idle"
    BY <2>1, RestStep
  <2>. QED
    BY <1>7, <1>i, <2>1, <2>2 DEF Release, TypeOK, mail, history, Others
<1>8. ASSUME NEW w \in Workers, Emit(w) \/ Crash(w) PROVE TypeOK'
  <2>1. Rests(w)
    BY <1>8 DEF Emit, Crash, Rests
  <2>2. at' \in [Workers -> Activity] /\ Others(w) /\ at'[w].pc = "idle"
    BY <2>1, RestStep
  <2>3. faults' \in Nat /\ emitted' \in [Jobs -> Nat]
    BY <1>8 DEF Emit, Crash, Fault, TypeOK, history
  <2>. QED
    BY <1>8, <1>i, <2>2, <2>3 DEF Emit, Crash, TypeOK, mail, history, Others
<1>9. ASSUME NEW w \in Workers, Shutdown(w) PROVE TypeOK'
  <2>1. at' \in [Workers -> Activity] /\ Others(w) /\ SameWork(w)
    BY <1>9, ShutdownStep
  <2>. QED
    BY <1>9, <1>i, <2>1 DEF Shutdown, Fault, TypeOK, mail, history, Others, SameWork
<1>10. ASSUME NEW j \in Jobs, Create(j) \/ CleanupExpiredExports(j) PROVE TypeOK'
  <2>1. job' \in [Jobs -> JobRow]
    BY <1>10, RowStep
  <2>2. archive' \in [Jobs -> Nat] /\ faults' \in Nat
    BY <1>10 DEF Create, CleanupExpiredExports, Fault, TypeOK, mail
  <2>. QED
    BY <1>10, <2>1, <2>2 DEF Create, CleanupExpiredExports, TypeOK, mail, history
<1>11. ASSUME RecoverStaleLeases PROVE TypeOK'
  <2>1. job' \in [Jobs -> JobRow]
    BY <1>11, RowStep
  <2>. QED
    BY <1>11, <2>1 DEF RecoverStaleLeases, TypeOK, mail, history
<1>12. ASSUME Tick PROVE TypeOK'
  <2>1. at' \in [Workers -> Activity] /\ job' \in [Jobs -> JobRow] /\ \A w \in Workers : SameWork(w)
    BY <1>12, TickStep
  <2>. QED
    BY <1>12, <1>i, <2>1 DEF Tick, TypeOK, mail, history, SameWork
<1>13. ASSUME UNCHANGED vars PROVE TypeOK'
  BY <1>13 DEF vars, TypeOK
<1>. QED
  BY <1>1, <1>2, <1>3, <1>4, <1>5, <1>6, <1>7, <1>8, <1>9, <1>10, <1>11, <1>12, <1>13 DEF Next

(* The jobs, their workers and what these leave behind are well typed. *)
THEOREM TypeCorrect == Spec => []TypeOK
  BY InitType, NextType, PTL DEF Spec

------------------------------------------------------------------------------
(* Tokens and leases. *)

(* A token is given out once, and a job has an owner only while it is being *)
(* processed.                                                               *)
TokenInv ==
  /\ \A j \in Jobs : job[j].owner <= claims /\ (job[j].owner # 0 => job[j].status = "processing")
  /\ \A w \in Workers : Busy(w) =>
       /\ at[w].token \in 1..claims
       /\ \A v \in Workers : Busy(v) /\ at[v].token = at[w].token => v = w

(* No worker begins a job, and no job gets an owner. *)
LEMMA QuietToken ==
  ASSUME TypeOK, TokenInv, claims' = claims,
         \A w \in Workers : Busy(w)' => Busy(w) /\ at'[w].token = at[w].token,
         \A j \in Jobs : job'[j].owner = 0 \/ (job'[j].owner = job[j].owner /\ job'[j].status = job[j].status)
  PROVE  TokenInv'
<1>1. claims \in Nat
  BY DEF TypeOK
<1>2. \A j \in Jobs : job'[j].owner <= claims' /\ (job'[j].owner # 0 => job'[j].status = "processing")
  BY <1>1 DEF TokenInv
<1>3. \A w \in Workers : Busy(w)' => /\ at'[w].token \in 1..claims'
                                    /\ \A v \in Workers : Busy(v)' /\ at'[v].token = at'[w].token => v = w
  BY DEF TokenInv
<1>. QED
  BY <1>2, <1>3 DEF TokenInv

(* Whoever steps, tokens stay distinct. *)
LEMMA NextToken == TypeOK /\ TokenInv /\ [Next]_vars => TokenInv'
<1>. SUFFICES ASSUME TypeOK, TokenInv, [Next]_vars PROVE TokenInv'
  OBVIOUS
<1>1. ASSUME NEW w \in Workers, NEW j \in Jobs, Claim(w, j) PROVE TokenInv'
  <2>0. claims' = claims + 1 /\ claims \in Nat
    BY <1>1 DEF Claim, TypeOK
  <2>1. /\ Others(w) /\ at'[w].token = claims + 1 /\ claims' = claims + 1 /\ claims \in Nat
        /\ job'[j].status = "processing" /\ job'[j].owner = claims + 1 /\ \A k \in Jobs \ {j} : job'[k] = job[k]
    BY <1>1, <2>0, ClaimStep
  <2>2. \A k \in Jobs : job[k].owner \in Nat
    BY DEF TypeOK, JobRow
  <2>3. \A k \in Jobs : job'[k].owner <= claims' /\ (job'[k].owner # 0 => job'[k].status = "processing")
    BY <2>1, <2>2 DEF TokenInv
  <2>4. \A v \in Workers \ {w} : Busy(v)' => Busy(v) /\ at'[v].token = at[v].token /\ at[v].token \in 1..claims
    BY <2>1 DEF TokenInv, Others, Busy
  <2>5. \A v \in Workers : Busy(v)' => /\ at'[v].token \in 1..claims'
                                      /\ \A u \in Workers : Busy(u)' /\ at'[u].token = at'[v].token => u = v
    BY <2>1, <2>4 DEF TokenInv
  <2>. QED
    BY <2>3, <2>5 DEF TokenInv
<1>2. ASSUME NEW w \in Workers, RenewLease(w) \/ HangEnds(w) PROVE TokenInv'
  <2>1. Others(w) /\ SameWork(w) /\ (Extended(w) \/ NotExtended(w)) /\ claims' = claims
    BY <1>2, RenewStep DEF RenewLease, HangEnds, history
  <2>. QED
    BY <2>1, QuietToken DEF Others, SameWork, Extended, NotExtended, Busy
<1>3. ASSUME NEW w \in Workers, Hang(w) \/ Shutdown(w) PROVE TokenInv'
  <2>1. Others(w) /\ SameWork(w) /\ claims' = claims /\ job' = job
    BY <1>3, HangStep, ShutdownStep DEF Hang, Shutdown, history
  <2>. QED
    BY <2>1, QuietToken DEF Others, SameWork, Busy
<1>4. ASSUME NEW w \in Workers, Work(w) \/ WorkFails(w) \/ Stall(w) PROVE TokenInv'
  <2>1. /\ Others(w) /\ GoesOn(w) /\ claims' = claims /\ \A j \in Jobs : SameLock(j)
        /\ at[w].pc \in {"next", "lookup", "create", "attach", "upload"}
    BY <1>4, WorkStep, BreakStep DEF Work, WorkFails, Stall, history, Working
  <2>. QED
    BY <2>1, QuietToken DEF Others, GoesOn, SameLock, Busy
<1>5. ASSUME NEW w \in Workers, Complete(w) \/ Fail(w) PROVE TokenInv'
  <2>1. PICK status \in Settled : Settle(w, status)
    BY <1>5 DEF Complete, Fail, Settled
  <2>2. claims' = claims /\ at[w].pc # "idle"
    BY <1>5 DEF Complete, Fail
  <2>3. CASE Settling(w, status)
    BY <2>2, <2>3, QuietToken DEF Settling, Others, GoesOn, Busy
  <2>4. CASE Rests(w) /\ job' = job
    BY <2>2, <2>4, RestStep, QuietToken DEF Others, Busy
  <2>. QED
    BY <2>1, <2>3, <2>4, SettleStep
<1>6. ASSUME NEW w \in Workers, Release(w) PROVE TokenInv'
  <2>1. /\ Rests(w) /\ claims' = claims
        /\ \A j \in Jobs : job'[j] = job[j] \/ job'[j].owner = 0
    BY <1>6, ReleaseStep DEF Release, history
  <2>. QED
    BY <2>1, RestStep, QuietToken DEF Others, Busy
<1>7. ASSUME NEW w \in Workers, Emit(w) \/ Crash(w) PROVE TokenInv'
  <2>1. Rests(w) /\ job' = job /\ claims' = claims
    BY <1>7 DEF Emit, Crash, Rests, history
  <2>. QED
    BY <2>1, RestStep, QuietToken DEF Others, Busy
<1>8. ASSUME RecoverStaleLeases \/ \E k \in Jobs : Create(k) \/ CleanupExpiredExports(k) PROVE TokenInv'
  <2>1. at' = at /\ claims' = claims
    BY <1>8 DEF RecoverStaleLeases, Create, CleanupExpiredExports, history
  <2>2. \A j \in Jobs : job[j].status \in {"absent", "completed"} => job[j].owner = 0
    BY DEF TokenInv
  <2>3. \A j \in Jobs : job'[j].owner = 0 \/ (job'[j].owner = job[j].owner /\ job'[j].status = job[j].status)
    BY <1>8, <2>2, RowStep
  <2>. QED
    BY <2>1, <2>3, QuietToken DEF Busy
<1>9. ASSUME Tick PROVE TokenInv'
  <2>1. claims' = claims
    BY <1>9 DEF Tick, history
  <2>. QED
    BY <1>9, <2>1, TickStep, QuietToken DEF SameWork, Busy
<1>10. ASSUME UNCHANGED vars PROVE TokenInv'
  BY <1>10, QuietToken DEF vars, Busy
<1>. QED
  BY <1>1, <1>2, <1>3, <1>4, <1>5, <1>6, <1>7, <1>8, <1>9, <1>10 DEF Next

(* A worker that may go on with its job, and has not settled it yet. *)
AtWork(w) == Alive(w) /\ at[w].pc # "emit"

(* It has the lease, and will have it until after its renewer's next tick:  *)
(* since and left move together, and a renewer that has not given up after  *)
(* GiveUp minutes does so one tick later, which is sooner than the slack    *)
(* lets the lease end.                                                      *)
Held(w) ==
  /\ Renewable(w)
  /\ job[at[w].job].left >= Lease - Slack - at[w].since
  /\ at[w].since + at[w].tick <= Lease - Renew

HoldInv ==
  /\ \A w \in Workers : at[w].line = "hung" => hung
  /\ ~hung => \A w \in Workers : AtWork(w) => Held(w)

(* While a worker holds its job the lease has not ended. *)
LEMMA HeldRuns ==
  ASSUME TypeOK, NEW w \in Workers, Held(w)
  PROVE  /\ job[at[w].job].left > 0 /\ job[at[w].job].status = "processing"
         /\ job[at[w].job].owner = at[w].token /\ at[w].job \in Jobs
         /\ at[w].since < Lease
<1>1. /\ at[w].job \in Jobs /\ at[w].since \in 0..Lease /\ at[w].tick \in 0..Renew
      /\ job[at[w].job].left \in 0..Lease
  BY DEF TypeOK, Activity, JobRow
<1>. QED
  BY <1>1, LeaseAssumption DEF Held, Renewable, Owns

(* Of two workers at work, each has a job of its own. *)
LEMMA OneOwner ==
  ASSUME TypeOK, TokenInv, NEW v \in Workers, NEW w \in Workers, Busy(v), Owns(v), AtWork(w), Held(w),
         at[v].job = at[w].job
  PROVE  v = w
<1>1. Busy(w) /\ at[v].token = at[w].token
  BY DEF Owns, AtWork, Alive, Held, Renewable
<1>. QED
  BY <1>1 DEF TokenInv

(* A step that leaves alone the leases of those that stay at work. *)
LEMMA QuietHold ==
  ASSUME HoldInv, hung' = hung,
         \A w \in Workers : at'[w].line # "hung" \/ at'[w].line = at[w].line,
         ~hung => \A w \in Workers : AtWork(w)' =>
           /\ AtWork(w)
           /\ at'[w].job = at[w].job /\ at'[w].token = at[w].token
           /\ at'[w].since = at[w].since /\ at'[w].tick = at[w].tick
           /\ SameLock(at[w].job)
  PROVE  HoldInv'
<1>1. \A w \in Workers : at'[w].line = "hung" => hung'
  BY DEF HoldInv
<1>2. ASSUME ~hung', NEW w \in Workers, AtWork(w)' PROVE Held(w)'
  <2>1. Held(w)
    BY <1>2 DEF HoldInv
  <2>2. /\ at'[w].job = at[w].job /\ at'[w].token = at[w].token
        /\ at'[w].since = at[w].since /\ at'[w].tick = at[w].tick
        /\ SameLock(at[w].job)
    BY <1>2
  <2>. QED
    BY <2>1, <2>2 DEF Held, Renewable, Owns, SameLock
<1>. QED
  BY <1>1, <1>2 DEF HoldInv

(* Whoever steps, those at work keep their leases. *)
LEMMA NextHold == TypeOK /\ TokenInv /\ HoldInv /\ [Next]_vars => HoldInv'
<1>. SUFFICES ASSUME TypeOK, TokenInv, HoldInv, [Next]_vars PROVE HoldInv'
  OBVIOUS
<1>h. ~hung => \A w \in Workers : AtWork(w) => Held(w)
  BY DEF HoldInv
<1>l. \A w \in Workers : at[w].line = "hung" => hung
  BY DEF HoldInv
<1>j. \A w \in Workers : at[w].job \in Jobs
  BY DEF TypeOK, Activity
(* Who ends, breaks off or is interrupted is at work no more, or goes on as *)
(* before; the others are not affected by what happens to its job, if it is *)
(* its owner who does it.                                                   *)
<1>r. ASSUME NEW w \in Workers, Others(w), hung' = hung, Busy(w), AtWork(w)' => GoesOn(w) /\ AtWork(w),
             at'[w].line \in {at[w].line, "up"},
             \A j \in Jobs : SameLock(j) \/ (j = at[w].job /\ Owns(w) /\ ~AtWork(w)')
      PROVE  HoldInv'
  <2>1. \A v \in Workers : at'[v].line # "hung" \/ at'[v].line = at[v].line
    BY <1>r DEF Others
  <2>2. ASSUME ~hung, NEW v \in Workers, AtWork(v)'
        PROVE  /\ AtWork(v) /\ at'[v].job = at[v].job /\ at'[v].token = at[v].token
               /\ at'[v].since = at[v].since /\ at'[v].tick = at[v].tick
               /\ SameLock(at[v].job)
    <3>1. CASE v = w
      <4>1. GoesOn(w) /\ AtWork(w) /\ SameLock(at[w].job)
        BY <1>r, <1>j, <2>2, <3>1
      <4>. QED
        BY <3>1, <4>1 DEF GoesOn
    <3>2. CASE v # w
      <4>1. at'[v] = at[v] /\ AtWork(v)
        BY <1>r, <2>2, <3>2 DEF Others, AtWork, Alive, Busy
      <4>2. Held(v)
        BY <1>h, <2>2, <4>1
      <4>3. SameLock(at[v].job)
        BY <1>r, <1>j, <3>2, <4>1, <4>2, OneOwner
      <4>. QED
        BY <4>1, <4>3
    <3>. QED
      BY <3>1, <3>2
  <2>. QED
    BY <1>r, <2>1, <2>2, QuietHold
<1>1. ASSUME NEW w \in Workers, NEW j \in Jobs, Claim(w, j) PROVE HoldInv'
  <2>0. hung' = hung
    BY <1>1 DEF Claim
  <2>1. /\ Others(w) /\ at'[w].job = j /\ at'[w].token = claims + 1
        /\ at'[w].since = 0 /\ at'[w].tick = Renew /\ at'[w].line = "up"
        /\ job[j].left = 0 /\ \A k \in Jobs \ {j} : job'[k] = job[k]
        /\ job'[j].status = "processing" /\ job'[j].owner = claims + 1
        /\ job'[j].left >= Lease - Slack
    BY <1>1, ClaimStep
  <2>2. Held(w)'
    <3>1. Renewable(w)'
      BY <2>1 DEF Renewable, Owns
    <3>2. at'[w].since + at'[w].tick <= Lease - Renew
      BY <2>1, LeaseAssumption
    <3>3. job'[at'[w].job].left >= Lease - Slack - at'[w].since
      BY <2>1, LeaseAssumption
    <3>. QED
      BY <3>1, <3>2, <3>3 DEF Held
  <2>3. ASSUME ~hung, NEW v \in Workers \ {w}, AtWork(v)' PROVE Held(v)'
    <3>1. at'[v] = at[v] /\ AtWork(v)
      BY <2>1, <2>3 DEF Others, AtWork, Alive, Busy
    <3>2. Held(v)
      BY <1>h, <2>3, <3>1
    <3>3. at[v].job # j
      BY <2>1, <3>2, HeldRuns
    <3>4. job'[at[v].job] = job[at[v].job]
      BY <1>j, <2>1, <3>3
    <3>. QED
      BY <3>1, <3>2, <3>4 DEF Held, Renewable, Owns
  <2>4. \A v \in Workers : at'[v].line = "hung" => hung'
    BY <1>l, <2>0, <2>1 DEF Others
  <2>. QED
    BY <2>0, <2>2, <2>3, <2>4 DEF HoldInv
<1>2. ASSUME NEW w \in Workers, RenewLease(w) \/ HangEnds(w) PROVE HoldInv'
  <2>0. hung' = hung
    BY <1>2 DEF RenewLease, HangEnds, history
  <2>1. Others(w) /\ SameWork(w) /\ Alive(w) /\ (Extended(w) \/ NotExtended(w))
    BY <1>2, RenewStep
  <2>2. ASSUME ~hung, AtWork(w)' PROVE Held(w)'
    <3>1. AtWork(w) /\ Held(w)
      BY <1>h, <2>1, <2>2 DEF AtWork, SameWork
    <3>2. CASE Extended(w)
      <4>1. Renewable(w)'
        BY <2>1, <3>2 DEF Extended, SameWork, Renewable, Owns
      <4>2. at'[w].since + at'[w].tick <= Lease - Renew
        BY <3>2, LeaseAssumption DEF Extended
      <4>3. job'[at'[w].job].left >= Lease - Slack - at'[w].since
        BY <2>1, <3>2, LeaseAssumption DEF Extended, SameWork
      <4>. QED
        BY <4>1, <4>2, <4>3 DEF Held
    <3>3. CASE NotExtended(w)
      <4>1. at[w].since <= GiveUp /\ at'[w].since = at[w].since /\ at'[w].tick = Renew /\ job' = job
        BY <2>2, <3>3 DEF NotExtended, AtWork, Alive
      <4>2. at'[w].since + at'[w].tick <= Lease - Renew
        <5>1. at[w].since \in 0..Lease
          BY DEF TypeOK, Activity
        <5>. QED
          BY <4>1, <5>1, LeaseAssumption
      <4>. QED
        BY <2>1, <3>1, <4>1, <4>2 DEF Held, Renewable, Owns, SameWork
    <3>. QED
      BY <2>1, <3>2, <3>3
  <2>3. ASSUME ~hung, NEW v \in Workers \ {w}, AtWork(v)' PROVE Held(v)'
    <3>1. at'[v] = at[v] /\ AtWork(v)
      BY <2>1, <2>3 DEF Others, AtWork, Alive, Busy
    <3>2. Held(v)
      BY <1>h, <2>3, <3>1
    <3>3. Extended(w) => at[v].job # at[w].job
      BY <2>1, <3>1, <3>2, OneOwner DEF Extended, Renewable, Alive
    <3>4. job'[at[v].job] = job[at[v].job]
      BY <1>j, <2>1, <3>3 DEF Extended, NotExtended
    <3>. QED
      BY <3>1, <3>2, <3>4 DEF Held, Renewable, Owns
  <2>4. \A v \in Workers : at'[v].line = "hung" => hung'
    BY <1>l, <2>0, <2>1 DEF Others, Extended, NotExtended
  <2>. QED
    BY <2>0, <2>2, <2>3, <2>4 DEF HoldInv
<1>3. ASSUME NEW w \in Workers, Hang(w) PROVE HoldInv'
  BY <1>3 DEF Hang, HoldInv
<1>4. ASSUME NEW w \in Workers, Work(w) \/ WorkFails(w) \/ Stall(w) PROVE HoldInv'
  <2>1. /\ Others(w) /\ GoesOn(w) /\ \A j \in Jobs : SameLock(j)
        /\ at[w].pc \in {"next", "lookup", "create", "attach", "upload"}
    BY <1>4, WorkStep, BreakStep DEF Working
  <2>2. hung' = hung
    BY <1>4 DEF Work, WorkFails, Stall, history
  <2>3. Busy(w) /\ (AtWork(w)' => AtWork(w)) /\ at'[w].line = at[w].line
    BY <2>1 DEF Busy, GoesOn, AtWork, Alive
  <2>. QED
    BY <1>r, <2>1, <2>2, <2>3
<1>5. ASSUME NEW w \in Workers, Complete(w) \/ Fail(w) PROVE HoldInv'
  <2>1. PICK status \in Settled : Settle(w, status)
    BY <1>5 DEF Complete, Fail, Settled
  <2>2. hung' = hung /\ Busy(w)
    BY <1>5 DEF Complete, Fail, Busy
  <2>3. CASE Settling(w, status)
    <3>1. Others(w) /\ ~AtWork(w)' /\ at'[w].line = at[w].line
      BY <2>3 DEF Settling, GoesOn, AtWork
    <3>2. \A j \in Jobs : SameLock(j) \/ (j = at[w].job /\ Owns(w) /\ ~AtWork(w)')
      BY <2>3, <3>1 DEF Settling, SameLock
    <3>. QED
      BY <1>r, <2>2, <3>1, <3>2
  <2>4. CASE Rests(w) /\ job' = job
    <3>1. Others(w) /\ ~AtWork(w)' /\ at'[w].line = "up"
      BY <2>4, RestStep DEF AtWork, Alive, Busy
    <3>2. \A j \in Jobs : SameLock(j)
      BY <2>4 DEF SameLock
    <3>. QED
      BY <1>r, <2>2, <3>1, <3>2
  <2>. QED
    BY <2>1, <2>3, <2>4, SettleStep
<1>6. ASSUME NEW w \in Workers, Release(w) PROVE HoldInv'
  <2>1. Rests(w) /\ at[w].pc = "broken"
    BY <1>6, ReleaseStep
  <2>2. Others(w) /\ ~AtWork(w)' /\ at'[w].line = "up" /\ Busy(w)
    BY <2>1, RestStep DEF AtWork, Alive, Busy
  <2>3. hung' = hung
    BY <1>6 DEF Release, history
  <2>4. \A j \in Jobs : SameLock(j) \/ (j = at[w].job /\ Owns(w) /\ ~AtWork(w)')
    BY <1>6, <2>2, ReleaseStep DEF SameLock
  <2>. QED
    BY <1>r, <2>2, <2>3, <2>4
<1>7. ASSUME NEW w \in Workers, Emit(w) \/ Crash(w) PROVE HoldInv'
  <2>1. Rests(w) /\ job' = job /\ hung' = hung /\ Busy(w)
    BY <1>7 DEF Emit, Crash, Rests, history, Busy
  <2>2. Others(w) /\ ~AtWork(w)' /\ at'[w].line = "up"
    BY <2>1, RestStep DEF AtWork, Alive, Busy
  <2>3. \A j \in Jobs : SameLock(j)
    BY <2>1 DEF SameLock
  <2>. QED
    BY <1>r, <2>1, <2>2, <2>3
<1>8. ASSUME NEW w \in Workers, Shutdown(w) PROVE HoldInv'
  <2>1. job' = job /\ hung' = hung /\ Busy(w)
    BY <1>8 DEF Shutdown, history
  <2>2. Others(w) /\ ~AtWork(w)' /\ at'[w].line = at[w].line
    BY <1>8, ShutdownStep DEF AtWork, Alive
  <2>3. \A j \in Jobs : SameLock(j)
    BY <2>1 DEF SameLock
  <2>. QED
    BY <1>r, <2>1, <2>2, <2>3
<1>9. ASSUME RecoverStaleLeases \/ \E k \in Jobs : Create(k) \/ CleanupExpiredExports(k) PROVE HoldInv'
  <2>1. at' = at /\ hung' = hung
    BY <1>9 DEF RecoverStaleLeases, Create, CleanupExpiredExports, history
  <2>2. ASSUME ~hung, NEW w \in Workers, AtWork(w)' PROVE AtWork(w) /\ SameLock(at[w].job)
    <3>1. AtWork(w)
      BY <2>1, <2>2 DEF AtWork, Alive, Busy
    <3>2. Held(w)
      BY <1>h, <2>2, <3>1
    <3>3. job[at[w].job].left > 0 /\ job[at[w].job].status = "processing"
      BY <3>2, HeldRuns
    <3>4. job'[at[w].job] = job[at[w].job]
      BY <1>9, <1>j, <3>3, RowStep DEF Stale
    <3>. QED
      BY <3>1, <3>4 DEF SameLock
  <2>. QED
    BY <2>1, <2>2, QuietHold
<1>10. ASSUME Tick PROVE HoldInv'
  <2>0. hung' = hung
    BY <1>10 DEF Tick, history
  <2>1. \A w \in Workers : SameWork(w) /\ at'[w].cancelled = at[w].cancelled /\ at'[w].line = at[w].line
    BY <1>10, TickStep
  <2>2. ASSUME ~hung, NEW w \in Workers, AtWork(w)' PROVE Held(w)'
    <3>1. AtWork(w)
      BY <2>1, <2>2 DEF SameWork, AtWork, Alive, Busy
    <3>2. Held(w)
      BY <1>h, <2>2, <3>1
    <3>3. at[w].tick > 0
      BY <1>10, <1>l, <2>2, <3>1 DEF Tick, AtWork
    <3>4. at[w].since < Lease /\ job[at[w].job].left > 0
      BY <3>2, HeldRuns
    <3>5. /\ at'[w].since = at[w].since + 1 /\ at'[w].tick = at[w].tick - 1
          /\ job'[at[w].job].left = job[at[w].job].left - 1
          /\ job'[at[w].job].status = job[at[w].job].status /\ job'[at[w].job].owner = job[at[w].job].owner
      BY <1>10, <1>j, <3>1, <3>3, <3>4, TickStep DEF AtWork
    <3>6. at[w].since \in Nat /\ at[w].tick \in Nat /\ job[at[w].job].left \in Nat
      BY <1>j DEF TypeOK, Activity, JobRow
    <3>7. at'[w].job = at[w].job /\ at'[w].token = at[w].token
      BY <2>1 DEF SameWork
    <3>. QED
      BY <3>2, <3>5, <3>6, <3>7, LeaseAssumption DEF Held, Renewable, Owns
  <2>. QED
    BY <1>l, <2>0, <2>1, <2>2 DEF HoldInv
<1>11. ASSUME UNCHANGED vars PROVE HoldInv'
  <2>1. at' = at /\ hung' = hung /\ job' = job
    BY <1>11 DEF vars
  <2>. QED
    BY <2>1, QuietHold DEF SameLock, AtWork, Alive, Busy
<1>. QED
  BY <1>1, <1>2, <1>3, <1>4, <1>5, <1>6, <1>7, <1>8, <1>9, <1>10, <1>11 DEF Next

(* Nobody is at work at the beginning. *)
LEMMA InitLease == Init => TokenInv /\ HoldInv
  BY IdleType DEF Init, TokenInv, HoldInv, AtWork, Alive, Busy

(* Both hold of every reachable state. *)
LEMMA LeaseInvariant == Spec => [](TypeOK /\ TokenInv /\ HoldInv)
  BY TypeCorrect, InitLease, NextToken, NextHold, PTL DEF Spec

(* The comment at jobLeaseGiveUp holds for every lease that the renewals    *)
(* fit into: a worker whose context is not done is alone with its job, as   *)
(* long as no renewal hangs (importexport, renewLease).                     *)
THEOREM Exclusive == Spec => []ExclusiveUnlessHung
<1>1. TypeOK /\ TokenInv /\ HoldInv => ExclusiveUnlessHung
  <2>. SUFFICES ASSUME TypeOK, TokenInv, HoldInv, ~hung, NEW v \in Workers, NEW w \in Workers,
                       Alive(v), Working(v), Alive(w), Working(w), at[v].job = at[w].job
                PROVE  v = w
    BY DEF ExclusiveUnlessHung
  <2>1. AtWork(v) /\ AtWork(w) /\ Busy(v)
    BY DEF AtWork, Working, Alive
  <2>2. Held(v) /\ Held(w)
    BY <2>1 DEF HoldInv
  <2>3. Owns(v)
    BY <2>2 DEF Held, Renewable
  <2>. QED
    BY <2>1, <2>2, <2>3, OneOwner
<1>. QED
  BY <1>1, LeaseInvariant, PTL

------------------------------------------------------------------------------
(* Settled jobs. *)

(* A settled job has no owner, and who updates one must be its owner. *)
LEMMA OwnerProcessing ==
  ASSUME TypeOK, TokenInv, NEW w \in Workers, Busy(w), Owns(w)
  PROVE  job[at[w].job].status = "processing" /\ at[w].job \in Jobs
<1>1. at[w].job \in Jobs /\ at[w].token # 0
  BY DEF TypeOK, Activity, TokenInv
<1>. QED
  BY <1>1 DEF TokenInv, Owns

(* Work changes no count but that of the worker's job, and not even that    *)
(* once the context is done.                                                *)
LEMMA WorkCount ==
  ASSUME TypeOK, NEW w \in Workers, Work(w), NEW j \in Jobs, job'[j].count # job[j].count
  PROVE  j = at[w].job /\ Alive(w)
<1>a. job \in [Jobs -> JobRow]
  BY DEF TypeOK
<1>1. CASE job' = job
  BY <1>1
<1>2. CASE AttachMessage(w)
  <2>1. \E n : job' = [job EXCEPT ![at[w].job].count = n]
    BY <1>2 DEF AttachMessage
  <2>2. Alive(w)
    BY <1>2 DEF Work, AttachMessage, EndOfImport
  <2>. QED
    BY <1>a, <2>1, <2>2 DEF JobRow
<1>3. CASE EndOfImport(w)
  <2>1. /\ at[w].pc = "next"
        /\ job' = [job EXCEPT ![at[w].job].count = IF at[w].cancelled \/ at[w].count = 0 THEN @ ELSE at[w].count]
    BY <1>3 DEF EndOfImport
  <2>2. j = at[w].job /\ ~at[w].cancelled
    BY <1>a, <2>1 DEF JobRow
  <2>. QED
    BY <2>1, <2>2 DEF Alive, Busy
<1>. QED
  BY <1>1, <1>2, <1>3 DEF Work, CheckAttached, LookUp, CreateMessage, Upload

(* No late worker, release or recovery changes a settled job, and no flush  *)
(* of the progress its count unless a renewal has hung: the guard of every  *)
(* update is locked_by, that of the flush the context (importexport).       *)
THEOREM SettledStays == Spec => SettledForGood
<1>1. TypeOK /\ TokenInv /\ HoldInv /\ [Next]_vars =>
        [\A j \in Jobs : job[j].status \in Settled =>
           /\ job'[j].status \in {job[j].status, "expired"}
           /\ hung \/ job'[j].count = job[j].count]_vars
  <2>. SUFFICES ASSUME TypeOK, TokenInv, HoldInv, Next, NEW j \in Jobs, job[j].status \in Settled
                PROVE  job'[j].status \in {job[j].status, "expired"} /\ (hung \/ job'[j].count = job[j].count)
    OBVIOUS
  <2>j. \A w \in Workers : at[w].job \in Jobs
    BY DEF TypeOK, Activity
  <2>s. job[j].status \notin {"absent", "queued", "processing", "expired"}
    BY DEF Settled
  <2>o. \A w \in Workers : Busy(w) /\ Owns(w) => at[w].job # j
    BY <2>s, OwnerProcessing
  <2>h. \A w \in Workers : AtWork(w) => hung \/ at[w].job # j
    BY <2>s, HeldRuns DEF HoldInv
  <2>u. CASE job'[j] = job[j]
    BY <2>u
  <2>1. ASSUME NEW w \in Workers, NEW k \in Jobs, Claim(w, k) PROVE job'[j] = job[j]
    BY <2>1, <2>s, ClaimStep
  <2>2. ASSUME NEW w \in Workers, RenewLease(w) \/ HangEnds(w) PROVE job'[j] = job[j]
    <3>1. Alive(w) /\ (Extended(w) \/ NotExtended(w))
      BY <2>2, RenewStep
    <3>. QED
      BY <2>o, <3>1 DEF Extended, NotExtended, Renewable, Alive
  <2>3. ASSUME NEW w \in Workers, Work(w)
        PROVE  job'[j].status \in {job[j].status, "expired"} /\ (hung \/ job'[j].count = job[j].count)
    <3>1. SameLock(j) /\ at[w].pc \in {"next", "lookup", "create", "attach", "upload"}
      BY <2>3, WorkStep
    <3>2. job'[j].count # job[j].count => j = at[w].job /\ AtWork(w)
      BY <2>3, <3>1, WorkCount DEF AtWork
    <3>. QED
      BY <2>h, <3>1, <3>2 DEF SameLock
  <2>4. ASSUME NEW w \in Workers, WorkFails(w) \/ Stall(w)
        PROVE  job'[j].status \in {job[j].status, "expired"} /\ (hung \/ job'[j].count = job[j].count)
    <3>1. SameLock(j) /\ Working(w)
      BY <2>4, BreakStep
    <3>2. ~at[w].cancelled => AtWork(w)
      BY <3>1 DEF AtWork, Alive, Busy, Working
    <3>3. job'[j].count # job[j].count => j = at[w].job /\ ~at[w].cancelled
      BY <2>4, BreakStep
    <3>. QED
      BY <2>h, <3>1, <3>2, <3>3 DEF SameLock
  <2>5. ASSUME NEW w \in Workers, Complete(w) \/ Fail(w) PROVE job'[j] = job[j]
    <3>1. PICK status \in Settled : Settle(w, status)
      BY <2>5 DEF Complete, Fail, Settled
    <3>2. Busy(w)
      BY <2>5 DEF Complete, Fail, Busy
    <3>3. Settling(w, status) \/ job' = job
      BY <3>1, SettleStep
    <3>. QED
      BY <2>o, <3>2, <3>3 DEF Settling
  <2>6. ASSUME NEW w \in Workers, Release(w) PROVE job'[j] = job[j]
    <3>1. Busy(w)
      BY <2>6 DEF Release, Busy
    <3>. QED
      BY <2>6, <2>o, <3>1, ReleaseStep
  <2>7. ASSUME NEW w \in Workers, Hang(w) \/ Shutdown(w) \/ Emit(w) \/ Crash(w) PROVE job'[j] = job[j]
    BY <2>7 DEF Hang, Shutdown, Emit, Crash
  <2>8. ASSUME RecoverStaleLeases \/ \E k \in Jobs : Create(k) \/ CleanupExpiredExports(k)
        PROVE  job'[j].status \in {job[j].status, "expired"} /\ (hung \/ job'[j].count = job[j].count)
    BY <2>8, <2>s, RowStep DEF Stale
  <2>9. ASSUME Tick
        PROVE  job'[j].status \in {job[j].status, "expired"} /\ (hung \/ job'[j].count = job[j].count)
    BY <2>9, TickStep
  <2>. QED
    BY <2>u, <2>1, <2>2, <2>3, <2>4, <2>5, <2>6, <2>7, <2>8, <2>9 DEF Next
<1>. QED
  BY <1>1, LeaseInvariant, PTL DEF Spec, SettledForGood

------------------------------------------------------------------------------
(* Events. *)

(* A worker about to emit is the only one about its job, which is settled   *)
(* and of which no event has been emitted.                                  *)
EmitInv ==
  /\ \A w \in Workers : at[w].pc = "emit" =>
       /\ job[at[w].job].status \in Settled \cup {"expired"} /\ emitted[at[w].job] = 0
       /\ \A v \in Workers : at[v].pc = "emit" /\ at[v].job = at[w].job => v = w
  /\ \A j \in Jobs : emitted[j] # 0 => emitted[j] = 1 /\ job[j].status \in Settled \cup {"expired"}

(* No worker begins to emit, and what is settled stays so. *)
LEMMA QuietEmit ==
  ASSUME TypeOK, EmitInv, emitted' = emitted,
         \A w \in Workers : at'[w].pc = "emit" => at[w].pc = "emit" /\ at'[w].job = at[w].job,
         \A j \in Jobs : job[j].status \in Settled \cup {"expired"} => job'[j].status \in Settled \cup {"expired"}
  PROVE  EmitInv'
<1>1. \A w \in Workers : at[w].job \in Jobs
  BY DEF TypeOK, Activity
<1>. QED
  BY <1>1 DEF EmitInv

(* Whoever steps, a job has one event at most. *)
LEMMA NextEmit == TypeOK /\ TokenInv /\ EmitInv /\ [Next]_vars => EmitInv'
<1>. SUFFICES ASSUME TypeOK, TokenInv, EmitInv, [Next]_vars PROVE EmitInv'
  OBVIOUS
<1>j. \A w \in Workers : at[w].job \in Jobs
  BY DEF TypeOK, Activity
<1>d. {"queued", "processing", "absent"} \cap (Settled \cup {"expired"}) = {}
  BY DEF Settled
<1>1. ASSUME NEW w \in Workers, NEW j \in Jobs, Claim(w, j) PROVE EmitInv'
  <2>1. /\ Others(w) /\ at'[w].pc \in {"next", "upload"} /\ job[j].status \in {"queued", "processing"}
        /\ \A k \in Jobs \ {j} : job'[k] = job[k]
    BY <1>1, ClaimStep
  <2>2. emitted' = emitted
    BY <1>1 DEF Claim
  <2>. QED
    BY <1>d, <2>1, <2>2, QuietEmit DEF Others
<1>2. ASSUME NEW w \in Workers, RenewLease(w) \/ HangEnds(w) PROVE EmitInv'
  <2>1. Others(w) /\ SameWork(w) /\ (Extended(w) \/ NotExtended(w))
    BY <1>2, RenewStep
  <2>2. emitted' = emitted
    BY <1>2 DEF RenewLease, HangEnds, history
  <2>. QED
    BY <2>1, <2>2, QuietEmit DEF Others, SameWork, Extended, NotExtended
<1>3. ASSUME NEW w \in Workers, Hang(w) \/ Shutdown(w) PROVE EmitInv'
  <2>1. Others(w) /\ SameWork(w)
    BY <1>3, HangStep, ShutdownStep
  <2>2. emitted' = emitted /\ job' = job
    BY <1>3 DEF Hang, Shutdown, history
  <2>. QED
    BY <2>1, <2>2, QuietEmit DEF Others, SameWork
<1>4. ASSUME NEW w \in Workers, Work(w) \/ WorkFails(w) \/ Stall(w) PROVE EmitInv'
  <2>1. Others(w) /\ at'[w].pc # "emit" /\ \A j \in Jobs : SameLock(j)
    BY <1>4, WorkStep, BreakStep
  <2>2. emitted' = emitted
    BY <1>4 DEF Work, WorkFails, Stall, history
  <2>. QED
    BY <2>1, <2>2, QuietEmit DEF Others, SameLock
<1>5. ASSUME NEW w \in Workers, Complete(w) \/ Fail(w) PROVE EmitInv'
  <2>1. PICK status \in Settled : Settle(w, status)
    BY <1>5 DEF Complete, Fail, Settled
  <2>2. emitted' = emitted /\ Busy(w)
    BY <1>5 DEF Complete, Fail, Busy
  <2>3. CASE Settling(w, status)
    <3>1. PICK j \in Jobs : j = at[w].job
      BY <1>j
    <3>2. /\ Others(w) /\ at'[w].pc = "emit" /\ at'[w].job = j
          /\ job'[j].status = status /\ \A k \in Jobs \ {j} : job'[k] = job[k]
      BY <2>3, <3>1 DEF Settling, GoesOn
    <3>3. job[j].status = "processing"
      BY <2>2, <2>3, <3>1, OwnerProcessing DEF Settling
    <3>4. /\ emitted[j] = 0 /\ \A v \in Workers : at[v].pc = "emit" => at[v].job # j
      BY <1>d, <3>3 DEF EmitInv
    <3>5. \A k \in Jobs : emitted'[k] # 0 => emitted'[k] = 1 /\ job'[k].status \in Settled \cup {"expired"}
      BY <2>2, <3>2, <3>4 DEF EmitInv
    <3>6. ASSUME NEW v \in Workers, at'[v].pc = "emit"
          PROVE  /\ job'[at'[v].job].status \in Settled \cup {"expired"} /\ emitted'[at'[v].job] = 0
                 /\ \A u \in Workers : at'[u].pc = "emit" /\ at'[u].job = at'[v].job => u = v
      <4>1. CASE v = w
        BY <2>2, <3>2, <3>4, <4>1 DEF Others
      <4>2. CASE v # w
        <5>1. at'[v] = at[v] /\ at[v].job # j /\ at[v].job \in Jobs
          BY <1>j, <3>2, <3>4, <3>6, <4>2 DEF Others
        <5>. QED
          BY <2>2, <3>2, <3>6, <5>1 DEF Others, EmitInv
      <4>. QED
        BY <4>1, <4>2
    <3>. QED
      BY <3>5, <3>6 DEF EmitInv
  <2>4. CASE Rests(w) /\ job' = job
    BY <2>2, <2>4, RestStep, QuietEmit DEF Others
  <2>. QED
    BY <2>1, <2>3, <2>4, SettleStep
<1>6. ASSUME NEW w \in Workers, Release(w) PROVE EmitInv'
  <2>1. /\ Rests(w) /\ \A k \in Jobs \ {at[w].job} : job'[k] = job[k]
        /\ job' = job \/ Owns(w)
    BY <1>6, ReleaseStep
  <2>2. emitted' = emitted /\ Busy(w)
    BY <1>6 DEF Release, history, Busy
  <2>3. Owns(w) => job[at[w].job].status = "processing"
    BY <2>2, OwnerProcessing
  <2>. QED
    BY <1>d, <2>1, <2>2, <2>3, RestStep, QuietEmit DEF Others
<1>7. ASSUME NEW w \in Workers, Crash(w) PROVE EmitInv'
  <2>1. Rests(w) /\ job' = job /\ emitted' = emitted
    BY <1>7 DEF Crash, Rests, history
  <2>. QED
    BY <2>1, RestStep, QuietEmit DEF Others
<1>8. ASSUME NEW w \in Workers, Emit(w) PROVE EmitInv'
  <2>1. PICK j \in Jobs : j = at[w].job
    BY <1>j
  <2>2. /\ at[w].pc = "emit" /\ job' = job /\ Rests(w)
        /\ emitted' = emitted \/ emitted' = [emitted EXCEPT ![j] = @ + 1]
    BY <1>8, <2>1 DEF Emit, Rests
  <2>3. Others(w) /\ at'[w].pc = "idle"
    BY <2>2, RestStep
  <2>4. /\ emitted[j] = 0 /\ job[j].status \in Settled \cup {"expired"}
        /\ \A v \in Workers : at[v].pc = "emit" /\ at[v].job = j => v = w
    BY <2>1, <2>2 DEF EmitInv
  <2>5. emitted'[j] \in {0, 1} /\ \A k \in Jobs \ {j} : emitted'[k] = emitted[k]
    BY <2>2, <2>4 DEF TypeOK
  <2>6. \A k \in Jobs : emitted'[k] # 0 => emitted'[k] = 1 /\ job'[k].status \in Settled \cup {"expired"}
    BY <2>2, <2>4, <2>5 DEF EmitInv
  <2>7. \A v \in Workers : at'[v].pc = "emit" => v # w /\ at'[v] = at[v] /\ at[v].job \in Jobs \ {j}
    BY <1>j, <2>3, <2>4 DEF Others
  <2>. QED
    BY <2>2, <2>5, <2>6, <2>7 DEF EmitInv
<1>9. ASSUME RecoverStaleLeases \/ \E k \in Jobs : Create(k) \/ CleanupExpiredExports(k) PROVE EmitInv'
  <2>1. at' = at /\ emitted' = emitted
    BY <1>9 DEF RecoverStaleLeases, Create, CleanupExpiredExports, history
  <2>2. \A j \in Jobs : job[j].status \in Settled \cup {"expired"} => job'[j].status \in Settled \cup {"expired"}
    BY <1>9, <1>d, RowStep DEF Stale
  <2>. QED
    BY <2>1, <2>2, QuietEmit
<1>10. ASSUME Tick PROVE EmitInv'
  <2>1. emitted' = emitted
    BY <1>10 DEF Tick, history
  <2>. QED
    BY <1>10, <2>1, TickStep, QuietEmit DEF SameWork
<1>11. ASSUME UNCHANGED vars PROVE EmitInv'
  BY <1>11, QuietEmit DEF vars
<1>. QED
  BY <1>1, <1>2, <1>3, <1>4, <1>5, <1>6, <1>7, <1>8, <1>9, <1>10, <1>11 DEF Next

(* Whatever renewals, crashes and late workers do, at most one event is     *)
(* emitted about a job, and only once it is settled (importexport: emit     *)
(* follows an update that found its row).                                   *)
THEOREM OneEventHolds == Spec => []OneEvent
<1>1. Init => EmitInv
  BY IdleType DEF Init, EmitInv
<1>2. TypeOK /\ EmitInv => OneEvent
  <2>. SUFFICES ASSUME TypeOK, EmitInv, NEW j \in Jobs
                PROVE  emitted[j] <= 1 /\ (emitted[j] = 1 => job[j].status \in Settled \cup {"expired"})
    BY DEF OneEvent
  <2>1. emitted[j] = 0 \/ emitted[j] = 1
    BY DEF EmitInv
  <2>2. emitted[j] = 1 => job[j].status \in Settled \cup {"expired"}
    BY DEF EmitInv
  <2>. QED
    BY <2>1, <2>2
<1>. QED
  BY <1>1, <1>2, LeaseInvariant, NextEmit, PTL DEF Spec

------------------------------------------------------------------------------
(* What a completed job stands for. *)

(* What work does to the messages and to the worker's place among them. *)
Checked(w) ==
  /\ at[w].pc = "next" /\ rows' = rows /\ attached' = attached /\ archive' = archive
  /\ \E c \in at[w].todo :
       \/ at'[w].pc = "next" /\ at'[w].todo = at[w].todo \ {c} /\ attached[c] # {}
       \/ at'[w].pc = "lookup" /\ at'[w].todo = at[w].todo
LookedUp(w) ==
  /\ at[w].pc = "lookup" /\ rows' = rows /\ attached' = attached /\ archive' = archive
  /\ at'[w].item = at[w].item /\ at'[w].todo = at[w].todo
  /\ \/ at'[w].pc = "attach" /\ at'[w].row \in 1..rows[at[w].item]
     \/ at'[w].pc = "create" /\ rows[at[w].item] = 0
Created(w) ==
  /\ at[w].pc = "create" /\ attached' = attached /\ archive' = archive
  /\ rows' = [rows EXCEPT ![at[w].item] = @ + 1]
  /\ at'[w].pc = "attach" /\ at'[w].item = at[w].item /\ at'[w].todo = at[w].todo
  /\ at'[w].row = rows[at[w].item] + 1
Attached(w) ==
  /\ at[w].pc = "attach" /\ rows' = rows /\ archive' = archive
  /\ attached' = [attached EXCEPT ![at[w].item] = @ \cup {at[w].row}]
  /\ at'[w].pc = "next" /\ at'[w].todo = at[w].todo \ {at[w].item}
Imported(w) ==
  /\ at[w].pc = "next" /\ rows' = rows /\ attached' = attached /\ archive' = archive
  /\ at[w].todo = {} /\ at'[w].pc = "finished" /\ at'[w].todo = {}
Uploaded(w) ==
  /\ at[w].pc = "upload" /\ rows' = rows /\ attached' = attached
  /\ archive' = [archive EXCEPT ![at[w].job] = at[w].token]
  /\ at'[w].pc = "finished"

(* Work is one of these. *)
LEMMA WorkDetail ==
  ASSUME TypeOK, NEW w \in Workers, Work(w)
  PROVE  \/ Checked(w) \/ LookedUp(w) \/ Created(w) \/ Attached(w) \/ Imported(w) \/ Uploaded(w)
<1>a. at \in [Workers -> Activity] /\ at[w] \in Activity
  BY DEF TypeOK
<1>1. CASE CheckAttached(w)
  <2>0. at[w].pc = "next" /\ rows' = rows /\ attached' = attached /\ archive' = archive
    BY <1>1 DEF CheckAttached, mail
  <2>1. PICK c \in at[w].todo :
          \/ attached[c] # {} /\ at' = [at EXCEPT ![w].todo = @ \ {c}]
          \/ at' = [at EXCEPT ![w].pc = "lookup", ![w].item = c]
    BY <1>1 DEF CheckAttached
  <2>2. CASE attached[c] # {} /\ at' = [at EXCEPT ![w].todo = @ \ {c}]
    <3>1. at'[w].pc = "next" /\ at'[w].todo = at[w].todo \ {c}
      BY <2>0, <2>2, <1>a DEF Activity
    <3>. QED
      BY <2>0, <2>2, <3>1 DEF Checked
  <2>3. CASE at' = [at EXCEPT ![w].pc = "lookup", ![w].item = c]
    <3>1. at'[w].pc = "lookup" /\ at'[w].todo = at[w].todo
      BY <2>3, <1>a DEF Activity
    <3>. QED
      BY <2>0, <3>1 DEF Checked
  <2>. QED
    BY <2>1, <2>2, <2>3
<1>2. CASE LookUp(w)
  <2>0. at[w].pc = "lookup" /\ rows' = rows /\ attached' = attached /\ archive' = archive
    BY <1>2 DEF LookUp, mail
  <2>r. rows[at[w].item] \in Nat
    BY <2>0 DEF TypeOK
  <2>1. CASE 1..rows[at[w].item] # {}
    <3>1. at' = [at EXCEPT ![w].pc = "attach", ![w].row = 1]
      BY <1>2, <2>1 DEF LookUp, RowsWithSha
    <3>2. /\ at'[w].pc = "attach" /\ at'[w].row = 1 /\ at'[w].item = at[w].item /\ at'[w].todo = at[w].todo
      BY <3>1, <1>a DEF Activity
    <3>3. 1 \in 1..rows[at[w].item]
      BY <2>1, <2>r
    <3>. QED
      BY <2>0, <3>2, <3>3 DEF LookedUp
  <2>2. CASE 1..rows[at[w].item] = {}
    <3>1. at' = [at EXCEPT ![w].pc = "create"]
      BY <1>2, <2>2 DEF LookUp, RowsWithSha
    <3>2. /\ at'[w].pc = "create" /\ at'[w].item = at[w].item /\ at'[w].todo = at[w].todo
      BY <3>1, <1>a DEF Activity
    <3>3. rows[at[w].item] = 0
      <4>1. 1 \notin 1..rows[at[w].item]
        BY <2>2
      <4>. QED
        BY <4>1, <2>r
    <3>. QED
      BY <2>0, <3>2, <3>3 DEF LookedUp
  <2>. QED
    BY <2>1, <2>2
<1>3. CASE CreateMessage(w)
  <2>1. /\ at[w].pc = "create" /\ attached' = attached /\ archive' = archive
        /\ rows' = [rows EXCEPT ![at[w].item] = @ + 1]
        /\ at' = [at EXCEPT ![w].pc = "attach", ![w].row = rows[at[w].item] + 1]
    BY <1>3 DEF CreateMessage
  <2>2. /\ at'[w].pc = "attach" /\ at'[w].row = rows[at[w].item] + 1
        /\ at'[w].item = at[w].item /\ at'[w].todo = at[w].todo
    BY <2>1, <1>a DEF Activity
  <2>. QED
    BY <2>1, <2>2 DEF Created
<1>4. CASE AttachMessage(w)
  <2>1. /\ at[w].pc = "attach" /\ rows' = rows /\ archive' = archive
        /\ attached' = [attached EXCEPT ![at[w].item] = @ \cup {at[w].row}]
    BY <1>4 DEF AttachMessage
  <2>2. \E n : at' = [at EXCEPT ![w].pc = "next", ![w].todo = @ \ {at[w].item}, ![w].count = n]
    BY <1>4 DEF AttachMessage
  <2>3. at'[w].pc = "next" /\ at'[w].todo = at[w].todo \ {at[w].item}
    BY <2>2, <1>a DEF Activity
  <2>. QED
    BY <2>1, <2>3 DEF Attached
<1>5. CASE EndOfImport(w)
  <2>1. /\ at[w].pc = "next" /\ rows' = rows /\ attached' = attached /\ archive' = archive
        /\ at[w].todo = {} /\ at' = [at EXCEPT ![w].pc = "finished"]
    BY <1>5 DEF EndOfImport, mail, AllRead
  <2>2. at'[w].pc = "finished" /\ at'[w].todo = {}
    BY <2>1, <1>a DEF Activity
  <2>. QED
    BY <2>1, <2>2 DEF Imported
<1>6. CASE Upload(w)
  <2>1. at'[w].pc = "finished"
    BY <1>6, <1>a DEF Upload, Activity
  <2>. QED
    BY <1>6, <2>1 DEF Upload, Uploaded
<1>. QED
  BY <1>1, <1>2, <1>3, <1>4, <1>5, <1>6 DEF Work

(* Everything else leaves messages alone, and workers where they are unless *)
(* they end what they do.                                                   *)
Passive ==
  /\ kind' = kind /\ rows' = rows /\ attached' = attached
  /\ \A w \in Workers : \/ SameWork(w) /\ (Alive(w)' => Alive(w))
                        \/ at'[w].pc \in {"idle", "broken", "silent", "emit"}

(* A claim starts at the beginning, work goes on, the rest is passive. *)
LEMMA Steps ==
  ASSUME TypeOK, [Next]_vars
  PROVE  \/ Passive
         \/ \E w \in Workers : Work(w)
         \/ \E w \in Workers, j \in Jobs : Claim(w, j)
<1>1. ASSUME NEW w \in Workers, RenewLease(w) \/ HangEnds(w) PROVE Passive
  <2>1. kind' = kind /\ rows' = rows /\ attached' = attached
    BY <1>1 DEF RenewLease, HangEnds, mail
  <2>2. Others(w) /\ SameWork(w) /\ Alive(w)
    BY <1>1, RenewStep
  <2>. QED
    BY <2>1, <2>2 DEF Passive, Others, SameWork, Alive, Busy
<1>2. ASSUME NEW w \in Workers, Hang(w) \/ Shutdown(w) PROVE Passive
  <2>1. kind' = kind /\ rows' = rows /\ attached' = attached
    BY <1>2 DEF Hang, Shutdown, mail
  <2>2. Others(w) /\ SameWork(w) /\ (Alive(w)' => Alive(w))
    BY <1>2, HangStep, ShutdownStep DEF Alive
  <2>. QED
    BY <2>1, <2>2 DEF Passive, Others, SameWork, Alive, Busy
<1>3. ASSUME NEW w \in Workers, WorkFails(w) \/ Stall(w) PROVE Passive
  <2>1. kind' = kind /\ rows' = rows /\ attached' = attached
    BY <1>3 DEF WorkFails, Stall, mail
  <2>. QED
    BY <1>3, <2>1, BreakStep DEF Passive, Others, SameWork, Alive, Busy
<1>4. ASSUME NEW w \in Workers, Complete(w) \/ Fail(w) PROVE Passive
  <2>1. kind' = kind /\ rows' = rows /\ attached' = attached
    BY <1>4 DEF Complete, Fail, mail
  <2>2. PICK status \in Settled : Settle(w, status)
    BY <1>4 DEF Complete, Fail, Settled
  <2>3. Others(w) /\ at'[w].pc \in {"idle", "emit"}
    BY <2>2, SettleStep, RestStep DEF Settling
  <2>. QED
    BY <2>1, <2>3 DEF Passive, Others, SameWork, Alive, Busy
<1>5. ASSUME NEW w \in Workers, Release(w) \/ Emit(w) \/ Crash(w) PROVE Passive
  <2>1. kind' = kind /\ rows' = rows /\ attached' = attached /\ Rests(w)
    BY <1>5 DEF Release, Emit, Crash, mail, Rests
  <2>. QED
    BY <2>1, RestStep DEF Passive, Others, SameWork, Alive, Busy
<1>6. ASSUME RecoverStaleLeases \/ \E k \in Jobs : Create(k) \/ CleanupExpiredExports(k) PROVE Passive
  BY <1>6 DEF RecoverStaleLeases, Create, CleanupExpiredExports, mail, Passive, SameWork, Alive, Busy
<1>7. ASSUME Tick PROVE Passive
  <2>1. kind' = kind /\ rows' = rows /\ attached' = attached
    BY <1>7 DEF Tick, mail
  <2>. QED
    BY <1>7, <2>1, TickStep DEF Passive, SameWork, Alive, Busy
<1>8. ASSUME UNCHANGED vars PROVE Passive
  BY <1>8 DEF vars, Passive, SameWork, Alive, Busy
<1>. QED
  BY <1>1, <1>2, <1>3, <1>4, <1>5, <1>6, <1>7, <1>8 DEF Next

(* A job becomes completed by a worker that has finished it. *)
LEMMA CompletedFrom ==
  ASSUME TypeOK, [Next]_vars, NEW j \in Jobs, job'[j].status = "completed", job[j].status # "completed"
  PROVE  \E w \in Workers : at[w].pc = "finished" /\ at[w].job = j /\ Settling(w, "completed")
<1>1. ASSUME NEW w \in Workers, NEW k \in Jobs, Claim(w, k) PROVE FALSE
  BY <1>1, ClaimStep
<1>2. ASSUME NEW w \in Workers, RenewLease(w) \/ HangEnds(w) PROVE FALSE
  BY <1>2, RenewStep DEF Extended, NotExtended
<1>3. ASSUME NEW w \in Workers, Hang(w) \/ Shutdown(w) \/ Emit(w) \/ Crash(w) PROVE FALSE
  BY <1>3 DEF Hang, Shutdown, Emit, Crash
<1>4. ASSUME NEW w \in Workers, Work(w) \/ WorkFails(w) \/ Stall(w) PROVE FALSE
  BY <1>4, WorkStep, BreakStep DEF SameLock
<1>5. ASSUME NEW w \in Workers, Fail(w) PROVE FALSE
  <2>1. Settle(w, "failed") /\ "failed" \in Settled
    BY <1>5 DEF Fail, Settled
  <2>. QED
    BY <2>1, SettleStep DEF Settling
<1>6. ASSUME NEW w \in Workers, Release(w) PROVE FALSE
  BY <1>6, ReleaseStep
<1>7. ASSUME RecoverStaleLeases \/ \E k \in Jobs : Create(k) \/ CleanupExpiredExports(k) PROVE FALSE
  BY <1>7, RowStep
<1>8. ASSUME Tick PROVE FALSE
  BY <1>8, TickStep
<1>9. ASSUME NEW w \in Workers, Complete(w)
      PROVE  at[w].pc = "finished" /\ at[w].job = j /\ Settling(w, "completed")
  <2>1. Settle(w, "completed") /\ "completed" \in Settled /\ at[w].pc = "finished"
    BY <1>9 DEF Complete, Settled
  <2>2. Settling(w, "completed")
    BY <2>1, SettleStep
  <2>. QED
    BY <2>1, <2>2 DEF Settling
<1>. QED
  BY <1>1, <1>2, <1>3, <1>4, <1>5, <1>6, <1>7, <1>8, <1>9 DEF Next, vars

Importing == {"next", "lookup", "create", "attach"}

(* A worker importing has attached what it has done with, and what it is    *)
(* about to attach exists; a completed import has attached everything.      *)
Progress(w) ==
  /\ at[w].pc \in Importing => kind[at[w].job] = "import"
  /\ at[w].pc = "upload" => kind[at[w].job] = "export"
  /\ at[w].pc \in Importing \/ (at[w].pc = "finished" /\ kind[at[w].job] = "import") =>
       \A c \in Contents \ at[w].todo : attached[c] # {}
  /\ at[w].pc = "finished" /\ kind[at[w].job] = "import" => at[w].todo = {}
  /\ at[w].pc = "attach" => at[w].row \in 1..rows[at[w].item]

MailInv ==
  /\ \A w \in Workers : Progress(w)
  /\ \A c \in Contents : attached[c] \subseteq 1..rows[c]
  /\ \A j \in Jobs : job[j].status = "completed" /\ kind[j] = "import" =>
       \A c \in Contents : attached[c] # {}

(* Nothing is imported at the beginning. *)
LEMMA InitMail == Init => MailInv
  BY IdleType DEF Init, MailInv, Progress, Importing

(* Attached messages stay, so progress does. *)
LEMMA NextMail == TypeOK /\ MailInv /\ [Next]_vars => MailInv'
<1>. SUFFICES ASSUME TypeOK, MailInv, [Next]_vars PROVE MailInv'
  OBVIOUS
<1>p. \A w \in Workers : Progress(w)
  BY DEF MailInv
<1>c. \A c \in Contents : attached[c] \subseteq 1..rows[c]
  BY DEF MailInv
<1>t. /\ rows \in [Contents -> Nat] /\ attached \in [Contents -> SUBSET Nat]
      /\ \A w \in Workers : at[w].job \in Jobs /\ kind[at[w].job] \in {"import", "export"}
      /\ \A w \in Workers : at[w].pc \in {"lookup", "create", "attach"} => at[w].item \in Contents
  BY DEF TypeOK, Activity
<1>d. ASSUME kind' = kind, \A c \in Contents : attached[c] # {} => attached'[c] # {},
             NEW j \in Jobs, job'[j].status = "completed", kind'[j] = "import", NEW c \in Contents
      PROVE  attached'[c] # {}
  <2>1. CASE job[j].status = "completed"
    BY <1>d, <2>1 DEF MailInv
  <2>2. CASE job[j].status # "completed"
    <3>1. PICK w \in Workers : at[w].pc = "finished" /\ at[w].job = j
      BY <1>d, <2>2, CompletedFrom
    <3>. QED
      BY <1>p, <1>d, <3>1 DEF Progress
  <2>. QED
    BY <2>1, <2>2
<1>1. CASE Passive
  <2>1. \A w \in Workers : Progress(w)'
    BY <1>p, <1>1 DEF Passive, Progress, SameWork, Importing
  <2>. QED
    BY <1>1, <1>c, <1>d, <2>1 DEF MailInv, Passive
<1>2. ASSUME NEW w \in Workers, NEW j \in Jobs, Claim(w, j) PROVE MailInv'
  <2>1. kind' = kind /\ rows' = rows /\ attached' = attached
    BY <1>2 DEF Claim, mail
  <2>2. /\ Others(w) /\ at'[w].job = j /\ at'[w].todo = Contents
        /\ at'[w].pc = IF kind[j] = "import" THEN "next" ELSE "upload"
    BY <1>2, ClaimStep
  <2>3. kind[j] \in {"import", "export"}
    BY DEF TypeOK
  <2>4. Progress(w)'
    BY <2>1, <2>2, <2>3 DEF Progress, Importing
  <2>5. \A v \in Workers \ {w} : Progress(v)'
    BY <1>p, <2>1, <2>2 DEF Progress, Others
  <2>. QED
    BY <1>c, <1>d, <2>1, <2>4, <2>5 DEF MailInv
<1>3. ASSUME NEW w \in Workers, Work(w) PROVE MailInv'
  <2>1. kind' = kind
    BY <1>3 DEF Work
  <2>2. Others(w) /\ GoesOn(w) /\ at'[w].job = at[w].job
    BY <1>3, WorkStep DEF GoesOn
  <2>3. /\ \A c \in Contents : attached[c] \subseteq attached'[c] /\ rows[c] <= rows'[c]
        /\ rows' \in [Contents -> Nat]
    <3>1. CASE attached' = attached /\ rows' = rows
      BY <1>t, <3>1
    <3>2. CASE Created(w)
      BY <1>t, <3>2 DEF Created
    <3>3. CASE Attached(w)
      BY <1>t, <3>3 DEF Attached
    <3>. QED
      BY <1>3, <3>1, <3>2, <3>3, WorkDetail DEF Checked, LookedUp, Imported, Uploaded
  <2>4. \A v \in Workers \ {w} : Progress(v)'
    <3>. SUFFICES ASSUME NEW v \in Workers \ {w} PROVE Progress(v)'
      OBVIOUS
    <3>1. at'[v] = at[v]
      BY <2>2 DEF Others
    <3>2. at[v].pc = "attach" => at[v].row \in 1..rows'[at[v].item]
      <4>. SUFFICES ASSUME at[v].pc = "attach" PROVE at[v].row \in 1..rows'[at[v].item]
        OBVIOUS
      <4>1. at[v].item \in Contents /\ at[v].row \in 1..rows[at[v].item]
        BY <1>t, <1>p DEF Progress
      <4>. QED
        BY <1>t, <2>3, <4>1
    <3>. QED
      BY <1>p, <2>1, <2>3, <3>1, <3>2 DEF Progress
  <2>5. Progress(w)' /\ \A c \in Contents : attached'[c] \subseteq 1..rows'[c]
    <3>1. CASE Checked(w)
      <4>1. PICK c \in at[w].todo : \/ at'[w].pc = "next" /\ at'[w].todo = at[w].todo \ {c} /\ attached[c] # {}
                                    \/ at'[w].pc = "lookup" /\ at'[w].todo = at[w].todo
        BY <3>1 DEF Checked
      <4>. QED
        BY <1>p, <1>c, <2>1, <2>2, <3>1, <4>1 DEF Checked, Progress, Importing
    <3>2. CASE LookedUp(w)
      BY <1>p, <1>c, <2>1, <2>2, <3>2 DEF LookedUp, Progress, Importing
    <3>3. CASE Created(w)
      <4>1. at[w].item \in Contents /\ rows[at[w].item] \in Nat
        BY <1>t, <3>3 DEF Created
      <4>2. rows'[at[w].item] = rows[at[w].item] + 1 /\ \A c \in Contents \ {at[w].item} : rows'[c] = rows[c]
        BY <1>t, <3>3, <4>1 DEF Created
      <4>3. at'[w].row \in 1..rows'[at'[w].item]
        BY <3>3, <4>1, <4>2 DEF Created
      <4>4. \A c \in Contents : attached'[c] \subseteq 1..rows'[c]
        <5>. SUFFICES ASSUME NEW c \in Contents, NEW r \in attached[c] PROVE r \in 1..rows'[c]
          BY <3>3 DEF Created
        <5>1. r \in 1..rows[c] /\ rows[c] \in Nat /\ rows'[c] \in Nat /\ rows[c] <= rows'[c]
          BY <1>c, <1>t, <2>3
        <5>. QED
          BY <5>1
      <4>. QED
        BY <1>p, <2>1, <2>2, <3>3, <4>3, <4>4 DEF Created, Progress, Importing
    <3>4. CASE Attached(w)
      <4>1. at[w].item \in Contents /\ at[w].row \in 1..rows[at[w].item]
        BY <1>t, <1>p, <3>4 DEF Attached, Progress
      <4>2. /\ attached'[at[w].item] = attached[at[w].item] \cup {at[w].row}
            /\ \A c \in Contents \ {at[w].item} : attached'[c] = attached[c]
        BY <1>t, <3>4, <4>1 DEF Attached
      <4>3. \A c \in Contents : attached'[c] \subseteq 1..rows'[c]
        BY <1>c, <3>4, <4>1, <4>2 DEF Attached
      <4>4. \A c \in Contents \ at'[w].todo : attached'[c] # {}
        BY <1>p, <3>4, <4>2 DEF Attached, Progress, Importing
      <4>. QED
        BY <1>p, <2>1, <2>2, <3>4, <4>3, <4>4 DEF Attached, Progress, Importing
    <3>5. CASE Imported(w)
      BY <1>p, <1>c, <2>1, <2>2, <3>5 DEF Imported, Progress, Importing
    <3>6. CASE Uploaded(w)
      BY <1>p, <1>c, <2>1, <2>2, <3>6 DEF Uploaded, Progress, Importing
    <3>. QED
      BY <1>3, <3>1, <3>2, <3>3, <3>4, <3>5, <3>6, WorkDetail
  <2>6. \A c \in Contents : attached[c] # {} => attached'[c] # {}
    BY <2>3
  <2>. QED
    BY <1>d, <2>1, <2>4, <2>5, <2>6 DEF MailInv
<1>. QED
  BY <1>1, <1>2, <1>3, Steps

(* While one import at a time is at work, a message that it has not found   *)
(* is not there, and there is never a second copy.                          *)
CopyInv ==
  OneImport /\ ~hung =>
    /\ \A c \in Contents : rows[c] <= 1
    /\ \A w \in Workers : AtWork(w) /\ at[w].pc = "create" => rows[at[w].item] = 0

(* Whoever steps, no second copy is made. *)
LEMMA NextCopy == TypeOK /\ TokenInv /\ HoldInv /\ MailInv /\ CopyInv /\ [Next]_vars => CopyInv'
<1>. SUFFICES ASSUME TypeOK, TokenInv, HoldInv, MailInv, CopyInv, [Next]_vars, OneImport', ~hung'
              PROVE  /\ \A c \in Contents : rows'[c] <= 1
                     /\ \A w \in Workers : AtWork(w)' /\ at'[w].pc = "create" => rows'[at'[w].item] = 0
  BY DEF CopyInv
<1>0. OneImport /\ ~hung
  <2>1. kind' = kind
    BY Steps DEF Passive, Work, Claim
  <2>2. hung => hung'
    BY DEF Next, vars, Claim, RenewLease, Hang, HangEnds, Work, WorkFails, Stall, Complete, Fail, Release, Emit, Shutdown,
           Crash, Create, CleanupExpiredExports, Tick, RecoverStaleLeases, history
  <2>. QED
    BY <2>1, <2>2 DEF OneImport
<1>c. /\ \A c \in Contents : rows[c] <= 1
      /\ \A w \in Workers : AtWork(w) /\ at[w].pc = "create" => rows[at[w].item] = 0
  BY <1>0 DEF CopyInv
<1>t. \A w \in Workers : at[w].pc \in {"lookup", "create", "attach"} => at[w].item \in Contents
  BY DEF TypeOK
<1>1. CASE Passive
  <2>1. \A w \in Workers : AtWork(w)' /\ at'[w].pc = "create" =>
          AtWork(w) /\ at[w].pc = "create" /\ at'[w].item = at[w].item
    BY <1>1 DEF Passive, SameWork, AtWork
  <2>. QED
    BY <1>1, <1>c, <2>1 DEF Passive
<1>2. ASSUME NEW w \in Workers, NEW j \in Jobs, Claim(w, j)
      PROVE  /\ \A c \in Contents : rows'[c] <= 1
             /\ \A v \in Workers : AtWork(v)' /\ at'[v].pc = "create" => rows'[at'[v].item] = 0
  <2>1. rows' = rows
    BY <1>2 DEF Claim, mail
  <2>2. Others(w) /\ at'[w].pc \in {"next", "upload"}
    BY <1>2, ClaimStep
  <2>. QED
    BY <1>c, <2>1, <2>2 DEF Others, AtWork, Alive, Busy
<1>3. ASSUME NEW w \in Workers, Work(w)
      PROVE  /\ \A c \in Contents : rows'[c] <= 1
             /\ \A v \in Workers : AtWork(v)' /\ at'[v].pc = "create" => rows'[at'[v].item] = 0
  <2>1. Others(w) /\ at[w].pc \in {"next", "lookup", "create", "attach", "upload"}
        /\ (Alive(w) \/ at[w].pc = "next")
    BY <1>3, WorkStep DEF Work, EndOfImport
  <2>2. at[w].pc = "create" => AtWork(w)
    BY <2>1 DEF AtWork
  <2>3. ASSUME NEW v \in Workers \ {w}, AtWork(v)' PROVE AtWork(v) /\ at'[v] = at[v]
    <3>1. at'[v] = at[v]
      BY <2>1 DEF Others
    <3>. QED
      BY <2>3, <3>1 DEF AtWork, Alive, Busy
  <2>4. CASE rows' = rows /\ at'[w].pc # "create"
    BY <1>c, <2>3, <2>4
  <2>5. CASE LookedUp(w)
    BY <1>c, <2>3, <2>5 DEF LookedUp
  <2>6. CASE Created(w)
    <3>1. at[w].pc = "create" /\ at'[w].pc = "attach" /\ rows' = [rows EXCEPT ![at[w].item] = @ + 1]
      BY <2>6 DEF Created
    <3>2. rows[at[w].item] = 0 /\ at[w].item \in Contents
      BY <1>c, <1>t, <2>2, <3>1
    <3>3. rows'[at[w].item] = 1 /\ \A c \in Contents \ {at[w].item} : rows'[c] = rows[c]
      BY <3>1, <3>2 DEF TypeOK
    <3>4. \A v \in Workers : AtWork(v) /\ at[v].pc = "create" => v = w
      <4>. SUFFICES ASSUME NEW v \in Workers, AtWork(v), at[v].pc = "create" PROVE v = w
        OBVIOUS
      <4>1. at[v].job \in Jobs /\ at[w].job \in Jobs
        BY DEF TypeOK, Activity
      <4>2. kind[at[v].job] = "import" /\ kind[at[w].job] = "import"
        BY <3>1 DEF MailInv, Progress, Importing
      <4>3. at[v].job = at[w].job
        BY <1>0, <4>1, <4>2 DEF OneImport
      <4>4. Held(v) /\ Held(w)
        BY <1>0, <2>2, <3>1 DEF HoldInv
      <4>5. Busy(v) /\ Owns(v)
        BY <4>4 DEF Held, Renewable, AtWork, Alive
      <4>. QED
        BY <2>2, <3>1, <4>3, <4>4, <4>5, OneOwner
    <3>5. \A v \in Workers : AtWork(v)' => at'[v].pc # "create"
      BY <2>3, <3>1, <3>4
    <3>. QED
      BY <1>c, <3>3, <3>5
  <2>. QED
    BY <1>3, <2>4, <2>5, <2>6, WorkDetail DEF Checked, Attached, Imported, Uploaded
<1>. QED
  BY <1>1, <1>2, <1>3, Steps

(* Begun and begun again, by whatever worker, an import that is the only    *)
(* one attaches no message twice, as long as no renewal hangs (importexport *)
(* addToMailbox, messageForRaw: nothing but the lease keeps two workers     *)
(* from both finding a message missing).                                    *)
THEOREM AttachedOnce == Spec => []AttachedOnceUnlessHung
<1>1. Init => CopyInv
  BY IdleType DEF Init, CopyInv, AtWork, Alive, Busy
<1>2. TypeOK /\ MailInv /\ CopyInv => AttachedOnceUnlessHung
  <2>. SUFFICES ASSUME TypeOK, MailInv, CopyInv, OneImport, ~hung, NEW c \in Contents
                PROVE  Cardinality(attached[c]) <= 1
    BY DEF AttachedOnceUnlessHung
  <2>1. rows[c] \in Nat /\ rows[c] <= 1 /\ attached[c] \subseteq 1..rows[c]
    BY DEF TypeOK, CopyInv, MailInv
  <2>2. attached[c] \subseteq {1}
    BY <2>1
  <2>3. IsFiniteSet({1}) /\ Cardinality({1}) = 1
    BY FS_Singleton
  <2>. QED
    BY <2>2, <2>3, FS_Subset
<1>. QED
  BY <1>1, <1>2, LeaseInvariant, InitMail, NextMail, NextCopy, PTL DEF Spec

------------------------------------------------------------------------------
(* What completed stands for. *)

(* The archive of an export that is finished and still owned is the one its *)
(* worker wrote, and so is that of a completed one: a worker that has lost  *)
(* the job no longer writes.                                                *)
ArchiveInv ==
  ~hung =>
    /\ \A w \in Workers : at[w].pc = "finished" /\ kind[at[w].job] = "export" /\ Owns(w) =>
         archive[at[w].job] = at[w].token
    /\ \A j \in Jobs : job[j].status = "completed" /\ kind[j] = "export" => archive[j] \in {0, settler[j]}

(* Nobody writes an archive, finishes or completes. *)
LEMMA QuietArchive ==
  ASSUME TypeOK, TokenInv, ArchiveInv, hung' = hung, kind' = kind, archive' = archive, settler' = settler,
         \A w \in Workers : at'[w].pc = "finished" =>
           at[w].pc = "finished" /\ at'[w].job = at[w].job /\ at'[w].token = at[w].token,
         \A j \in Jobs : job'[j].owner \in {job[j].owner, 0, claims + 1},
         \A j \in Jobs : job'[j].status = "completed" => job[j].status = "completed"
  PROVE  ArchiveInv'
<1>1. ASSUME NEW w \in Workers, at'[w].pc = "finished", Owns(w)' PROVE Owns(w)
  <2>1. Busy(w) /\ at[w].job \in Jobs /\ claims \in Nat
    BY <1>1 DEF TypeOK, Activity, Busy
  <2>2. at[w].token \in 1..claims
    BY <2>1 DEF TokenInv
  <2>3. at[w].token # 0 /\ at[w].token # claims + 1
    BY <2>1, <2>2
  <2>. QED
    BY <1>1, <2>1, <2>3 DEF Owns
<1>. QED
  BY <1>1 DEF ArchiveInv

(* Whoever steps, the archive is that of the worker that completes. *)
LEMMA NextArchive == TypeOK /\ TokenInv /\ HoldInv /\ MailInv /\ ArchiveInv /\ [Next]_vars => ArchiveInv'
<1>. SUFFICES ASSUME TypeOK, TokenInv, HoldInv, MailInv, ArchiveInv, [Next]_vars PROVE ArchiveInv'
  OBVIOUS
<1>j. \A w \in Workers : at[w].job \in Jobs
  BY DEF TypeOK, Activity
<1>1. ASSUME NEW w \in Workers, NEW j \in Jobs, Claim(w, j) PROVE ArchiveInv'
  <2>1. kind' = kind /\ archive' = archive /\ settler' = settler /\ hung' = hung
    BY <1>1 DEF Claim, mail
  <2>2. /\ Others(w) /\ at'[w].pc \in {"next", "upload"} /\ \A k \in Jobs \ {j} : job'[k] = job[k]
        /\ job'[j].status = "processing" /\ job'[j].owner = claims + 1
    BY <1>1, ClaimStep
  <2>. QED
    BY <2>1, <2>2, QuietArchive DEF Others
<1>2. ASSUME NEW w \in Workers, RenewLease(w) \/ HangEnds(w) PROVE ArchiveInv'
  <2>1. kind' = kind /\ archive' = archive /\ settler' = settler /\ hung' = hung
    BY <1>2 DEF RenewLease, HangEnds, mail, history
  <2>2. Others(w) /\ SameWork(w) /\ (Extended(w) \/ NotExtended(w))
    BY <1>2, RenewStep
  <2>3. \A j \in Jobs : job'[j].owner = job[j].owner /\ job'[j].status = job[j].status
    BY <2>2 DEF Extended, NotExtended
  <2>. QED
    BY <2>1, <2>2, <2>3, QuietArchive DEF Others, SameWork
<1>3. ASSUME NEW w \in Workers, Hang(w) PROVE ArchiveInv'
  BY <1>3 DEF Hang, ArchiveInv
<1>4. ASSUME NEW w \in Workers, Shutdown(w) PROVE ArchiveInv'
  <2>1. kind' = kind /\ archive' = archive /\ settler' = settler /\ hung' = hung /\ job' = job
    BY <1>4 DEF Shutdown, mail, history
  <2>2. Others(w) /\ SameWork(w)
    BY <1>4, ShutdownStep
  <2>. QED
    BY <2>1, <2>2, QuietArchive DEF Others, SameWork
<1>5. ASSUME NEW w \in Workers, Work(w) PROVE ArchiveInv'
  <2>1. kind' = kind /\ settler' = settler /\ hung' = hung /\ (Alive(w) \/ at[w].pc = "next")
    BY <1>5 DEF Work, EndOfImport
  <2>2. /\ Others(w) /\ GoesOn(w) /\ \A j \in Jobs : SameLock(j)
        /\ at[w].pc \in {"next", "lookup", "create", "attach", "upload"}
    BY <1>5, WorkStep
  <2>3. CASE archive' = archive /\ at'[w].pc # "finished"
    BY <2>1, <2>2, <2>3, QuietArchive DEF Others, SameLock
  <2>4. CASE Imported(w)
    <3>1. kind[at[w].job] = "import" /\ at'[w].job = at[w].job
      BY <2>2, <2>4 DEF Imported, MailInv, Progress, Importing, GoesOn
    <3>. QED
      BY <1>j, <2>1, <2>2, <2>4, <3>1 DEF ArchiveInv, Imported, Others, SameLock, Owns
  <2>5. CASE Uploaded(w)
    <3>. SUFFICES ASSUME ~hung PROVE ArchiveInv'
      BY <2>1 DEF ArchiveInv
    <3>1. AtWork(w) /\ Held(w)
      BY <2>1, <2>2, <2>5 DEF AtWork, HoldInv, Uploaded
    <3>2. PICK k \in Jobs : k = at[w].job
      BY <1>j
    <3>3. at'[w].job = k /\ at'[w].token = at[w].token /\ job[k].status = "processing"
      BY <2>2, <3>1, <3>2, HeldRuns DEF GoesOn
    <3>4. archive'[k] = at[w].token /\ \A i \in Jobs \ {k} : archive'[i] = archive[i]
      BY <2>5, <3>2 DEF Uploaded, TypeOK
    <3>5. ASSUME NEW v \in Workers, v # w, at'[v].pc = "finished", kind'[at'[v].job] = "export", Owns(v)'
          PROVE  archive'[at'[v].job] = at'[v].token
      <4>1. at'[v] = at[v] /\ at[v].job \in Jobs
        BY <1>j, <2>2, <3>5 DEF Others
      <4>2. Busy(v) /\ Owns(v)
        BY <2>2, <3>5, <4>1 DEF Busy, Owns, SameLock
      <4>3. at[v].job # k
        BY <3>1, <3>2, <3>5, <4>2, OneOwner
      <4>4. archive[at[v].job] = at[v].token
        BY <2>1, <3>5, <4>1, <4>2 DEF ArchiveInv
      <4>. QED
        BY <3>4, <4>1, <4>3, <4>4
    <3>6. ASSUME NEW i \in Jobs, job'[i].status = "completed", kind'[i] = "export"
          PROVE  archive'[i] \in {0, settler'[i]}
      <4>1. job[i].status = "completed" /\ i # k
        BY <2>2, <3>3, <3>6 DEF SameLock
      <4>. QED
        BY <2>1, <3>4, <3>6, <4>1 DEF ArchiveInv
    <3>. QED
      BY <3>3, <3>4, <3>5, <3>6 DEF ArchiveInv
  <2>. QED
    BY <1>5, <2>3, <2>4, <2>5, WorkDetail DEF Checked, LookedUp, Created, Attached
<1>6. ASSUME NEW w \in Workers, WorkFails(w) \/ Stall(w) PROVE ArchiveInv'
  <2>1. kind' = kind /\ archive' = archive /\ settler' = settler /\ hung' = hung
    BY <1>6 DEF WorkFails, Stall, mail, history
  <2>2. Others(w) /\ at'[w].pc \in {"broken", "silent"} /\ \A j \in Jobs : SameLock(j)
    BY <1>6, BreakStep
  <2>. QED
    BY <2>1, <2>2, QuietArchive DEF Others, SameLock
<1>7. ASSUME NEW w \in Workers, Complete(w) \/ Fail(w) PROVE ArchiveInv'
  <2>1. kind' = kind /\ archive' = archive /\ hung' = hung /\ at[w].pc \in {"finished", "broken"}
    BY <1>7 DEF Complete, Fail, mail
  <2>2. PICK status \in Settled : Settle(w, status) /\ (status = "completed" => at[w].pc = "finished")
    BY <1>7 DEF Complete, Fail, Settled
  <2>3. CASE Rests(w) /\ job' = job /\ settler' = settler
    <3>1. Others(w) /\ at'[w].pc = "idle"
      BY <2>3, RestStep
    <3>. QED
      BY <2>1, <2>3, <3>1, QuietArchive DEF Others
  <2>4. CASE Settling(w, status)
    <3>. SUFFICES ASSUME ~hung PROVE ArchiveInv'
      BY <2>1 DEF ArchiveInv
    <3>2. PICK k \in Jobs : k = at[w].job
      BY <1>j
    <3>3. /\ Others(w) /\ at'[w].pc = "emit" /\ Owns(w) /\ \A i \in Jobs \ {k} : job'[i] = job[i]
          /\ job'[k].status = status /\ job'[k].owner = 0
      BY <2>4, <3>2 DEF Settling
    <3>4. settler'[k] = at[w].token /\ \A i \in Jobs \ {k} : settler'[i] = settler[i]
      BY <2>4, <3>2 DEF Settling, TypeOK
    <3>5. ASSUME NEW v \in Workers, at'[v].pc = "finished", kind'[at'[v].job] = "export", Owns(v)'
          PROVE  archive'[at'[v].job] = at'[v].token
      <4>1. v # w /\ at'[v] = at[v] /\ at[v].job \in Jobs /\ Busy(v)
        BY <1>j, <3>3, <3>5 DEF Others, Busy
      <4>2. at[v].token # 0
        BY <4>1 DEF TokenInv
      <4>3. at[v].job # k
        BY <3>3, <3>5, <4>1, <4>2 DEF Owns
      <4>4. Owns(v)
        BY <3>3, <3>5, <4>1, <4>3 DEF Owns
      <4>. QED
        BY <2>1, <3>5, <4>1, <4>4 DEF ArchiveInv
    <3>6. ASSUME NEW i \in Jobs, job'[i].status = "completed", kind'[i] = "export"
          PROVE  archive'[i] \in {0, settler'[i]}
      <4>1. CASE i = k
        <5>1. archive[k] = at[w].token
          BY <2>1, <2>2, <3>2, <3>3, <3>6, <4>1 DEF ArchiveInv
        <5>. QED
          BY <2>1, <3>4, <4>1, <5>1
      <4>2. CASE i # k
        BY <2>1, <3>3, <3>4, <3>6, <4>2 DEF ArchiveInv
      <4>. QED
        BY <4>1, <4>2
    <3>. QED
      BY <3>5, <3>6 DEF ArchiveInv
  <2>. QED
    BY <2>2, <2>3, <2>4, SettleStep
<1>8. ASSUME NEW w \in Workers, Release(w) \/ Emit(w) \/ Crash(w) PROVE ArchiveInv'
  <2>1. kind' = kind /\ archive' = archive /\ settler' = settler /\ hung' = hung /\ Rests(w)
    BY <1>8 DEF Release, Emit, Crash, mail, history, Rests
  <2>2. Others(w) /\ at'[w].pc = "idle"
    BY <2>1, RestStep
  <2>3. \A j \in Jobs : /\ job'[j].owner \in {job[j].owner, 0}
                        /\ job'[j].status = "completed" => job[j].status = "completed"
    <3>1. CASE Release(w)
      BY <3>1, ReleaseStep
    <3>2. CASE job' = job
      BY <3>2
    <3>. QED
      BY <1>8, <3>1, <3>2 DEF Emit, Crash
  <2>. QED
    BY <2>1, <2>2, <2>3, QuietArchive DEF Others
<1>9. ASSUME RecoverStaleLeases \/ \E k \in Jobs : Create(k) PROVE ArchiveInv'
  <2>1. kind' = kind /\ archive' = archive /\ settler' = settler /\ hung' = hung /\ at' = at
    BY <1>9 DEF RecoverStaleLeases, Create, mail, history
  <2>2. \A j \in Jobs : /\ job'[j].owner \in {job[j].owner, 0}
                        /\ job'[j].status = "completed" => job[j].status = "completed"
    BY <1>9, RowStep
  <2>. QED
    BY <2>1, <2>2, QuietArchive
<1>10. ASSUME NEW k \in Jobs, CleanupExpiredExports(k) PROVE ArchiveInv'
  <2>1. /\ kind' = kind /\ settler' = settler /\ hung' = hung /\ at' = at /\ job[k].status = "completed"
        /\ archive' = [archive EXCEPT ![k] = 0]
    BY <1>10 DEF CleanupExpiredExports, history
  <2>2. \A j \in Jobs : /\ job'[j].owner = job[j].owner \/ job'[j].owner = 0
                        /\ job'[j].status = "completed" => job[j].status = "completed"
    BY <1>10, RowStep
  <2>3. archive'[k] = 0 /\ \A i \in Jobs \ {k} : archive'[i] = archive[i]
    BY <2>1 DEF TypeOK
  <2>4. ASSUME NEW w \in Workers, at[w].pc = "finished", Owns(w)' PROVE Owns(w) /\ at[w].job # k
    <3>1. Busy(w) /\ at[w].token # 0
      BY <2>4 DEF TokenInv, Busy
    <3>2. Owns(w)
      BY <1>j, <2>1, <2>2, <2>4, <3>1 DEF Owns
    <3>. QED
      BY <2>1, <3>1, <3>2, OwnerProcessing
  <2>. QED
    BY <1>j, <2>1, <2>2, <2>3, <2>4 DEF ArchiveInv
<1>11. ASSUME Tick PROVE ArchiveInv'
  <2>1. kind' = kind /\ archive' = archive /\ settler' = settler /\ hung' = hung
    BY <1>11 DEF Tick, mail, history
  <2>. QED
    BY <1>11, <2>1, TickStep, QuietArchive DEF SameWork
<1>12. ASSUME UNCHANGED vars PROVE ArchiveInv'
  BY <1>12, QuietArchive DEF vars
<1>. QED
  BY <1>1, <1>2, <1>3, <1>4, <1>5, <1>6, <1>7, <1>8, <1>9, <1>10, <1>11, <1>12 DEF Next

(* Whatever crashes, outages and other workers there were, an import that   *)
(* is completed has attached every message, and the archive of a completed  *)
(* export is that of the worker that completed it, unless a renewal hung    *)
(* (importexport processImport, processExport).                             *)
THEOREM CompletedWhole == Spec => []CompletedIsWhole
<1>1. Init => ArchiveInv
  BY IdleType DEF Init, ArchiveInv
<1>2. TypeOK /\ MailInv /\ ArchiveInv => CompletedIsWhole
  <2>. SUFFICES ASSUME TypeOK, MailInv, ArchiveInv, NEW j \in Jobs, job[j].status = "completed"
                PROVE  CASE kind[j] = "import" -> \A c \in Contents : attached[c] # {}
                         [] kind[j] = "export" -> hung \/ archive[j] \in {0, settler[j]}
    BY DEF CompletedIsWhole
  <2>1. CASE kind[j] = "import"
    <3>1. (\A c \in Contents : attached[c] # {}) /\ kind[j] # "export"
      BY <2>1 DEF MailInv
    <3>. QED
      BY <2>1, <3>1
  <2>2. CASE kind[j] = "export"
    <3>1. (hung \/ archive[j] \in {0, settler[j]}) /\ kind[j] # "import"
      BY <2>2 DEF ArchiveInv
    <3>. QED
      BY <2>2, <3>1
  <2>. QED
    BY <2>1, <2>2 DEF TypeOK
<1>. QED
  BY <1>1, <1>2, LeaseInvariant, InitMail, NextMail, NextArchive, PTL DEF Spec

==============================================================================
