------------------------------ MODULE JobLease ------------------------------
(***************************************************************************)
(* Import and export jobs (internal/importexport).  A worker claims a job  *)
(* for Lease minutes under a token of its own, works on it with a context  *)
(* that a second goroutine, the renewer, cancels when it finds the lease   *)
(* lost or cannot renew it any more; then it releases, fails or completes  *)
(* the job with updates guarded by the token, and emits an event.          *)
(*                                                                         *)
(* Time is relative: left is what remains of locked_until, since the time  *)
(* since the renewer's lastRenewed, tick the time to its next tick.  Time  *)
(* waits for a renewer whose tick is due, unless its call has hung: the    *)
(* renewing UPDATE has no deadline.                                        *)
(***************************************************************************)
EXTENDS Integers, FiniteSets

CONSTANTS
  Jobs,        \* ids of jobs, numbered in the order of created_at
  Workers,     \* goroutines of all instances
  Contents,    \* distinct messages of the archive to be imported
  Lease,       \* jobLeaseDuration, in minutes
  Renew,       \* jobLeaseRenewInterval
  GiveUp,      \* jobLeaseGiveUp
  Slack,       \* how far a granted lease may fall short of Lease: the worker
               \* computes locked_until before the statement runs and by its
               \* own clock, PostgreSQL compares it with NOW()
  FlushEvery,  \* progressFlushEvery
  MaxFaults    \* bound on crashes, shutdowns, outages, hangs, failed writes

ASSUME LeaseAssumption ==
  /\ Jobs \subseteq Nat /\ Jobs # {}
  /\ Lease \in Nat /\ Renew \in Nat \ {0} /\ FlushEvery \in Nat \ {0} /\ MaxFaults \in Nat
  /\ GiveUp = Lease - 2 * Renew /\ GiveUp \in Nat
  /\ Slack \in Nat /\ Slack < Renew

VARIABLES
  kind,      \* import or export
  job,       \* ImportJob and ExportJob rows
  at,        \* what each worker is doing
  rows,      \* Message rows that carry the bytes of a content
  attached,  \* the ones of them that the mailbox holds
  archive,   \* exports/<id> in the object store: the claim that wrote it
  faults,    \* number of faults so far
  claims,    \* history: claims so far; the latest one's number is its token
  settler,   \* history: the claim that settled a job
  emitted,   \* history: events about a job
  hung       \* history: a renewal has hung

vars == <<kind, job, at, rows, attached, archive, faults, claims, settler, emitted, hung>>

Settled == {"completed", "failed"}

(* owner: locked_by, 0 for NULL; left: 0 when locked_until is NULL or past. *)
JobRow == [status : {"absent", "queued", "processing", "expired"} \cup Settled,
           owner : Nat, left : 0..Lease, count : Nat]

(* The item of a worker that looks at none yet. *)
NoItem == CHOOSE c \in Contents : TRUE

(* line: how the renewer's calls fare; cancelled: jobCtx is done; stop: the *)
(* worker's own context is done.                                            *)
Activity == [pc : {"idle", "next", "lookup", "create", "attach", "upload", "silent", "finished", "broken", "emit"},
             job : Jobs, token : Nat, cancelled : BOOLEAN, stop : BOOLEAN,
             since : 0..Lease, tick : 0..Renew, line : {"up", "down", "hung"},
             todo : SUBSET Contents, item : Contents \cup {NoItem}, row : Nat, count : Nat]

Idle == [pc |-> "idle", job |-> CHOOSE j \in Jobs : TRUE, token |-> 0, cancelled |-> FALSE, stop |-> FALSE,
         since |-> 0, tick |-> Renew, line |-> "up", todo |-> {}, item |-> NoItem, row |-> 0, count |-> 0]

Init ==
  /\ kind \in [Jobs -> {"import", "export"}]
  /\ job = [j \in Jobs |-> [status |-> "absent", owner |-> 0, left |-> 0, count |-> 0]]
  /\ at = [w \in Workers |-> Idle]
  /\ rows = [c \in Contents |-> 0]
  /\ attached = [c \in Contents |-> {}]
  /\ archive = [j \in Jobs |-> 0]
  /\ faults = 0
  /\ claims = 0
  /\ settler = [j \in Jobs |-> 0]
  /\ emitted = [j \in Jobs |-> 0]
  /\ hung = FALSE

Fault == faults < MaxFaults /\ faults' = faults + 1

mail    == <<rows, attached, archive>>
history == <<claims, settler, emitted, hung>>

Busy(w)  == at[w].pc # "idle"
Owns(w)  == job[at[w].job].owner = at[w].token
(* jobCtx lets the worker go on. *)
Alive(w) == Busy(w) /\ ~at[w].cancelled

Unlocked(row, status) == [row EXCEPT !.status = status, !.owner = 0, !.left = 0]

------------------------------------------------------------------------------
(* A definition Name_Fault that precedes Name is Name with a mistake the    *)
(* code could contain; with it in place of Name a property below must fail. *)

(* createImport, createExport. *)
Create(j) ==
  /\ job[j].status = "absent"
  /\ job' = [job EXCEPT ![j].status = "queued"]
  /\ UNCHANGED <<kind, at, mail, faults, history>>

(* locked_until, with the slack of clocks and calls. *)
Granted(s) == Lease - s

Claimable_NullIsLater(j) ==
  job[j].status \in {"queued", "processing"} /\ job[j].owner # 0 /\ job[j].left = 0
Claimable(j) == job[j].status \in {"queued", "processing"} /\ job[j].left = 0

(* claim, and the start of the renewer. *)
Claim(w, j) ==
  /\ at[w].pc = "idle"
  /\ Claimable(j)
  /\ \A k \in Jobs : Claimable(k) => j <= k
  /\ claims' = claims + 1
  /\ \E s \in 0..Slack :
       job' = [job EXCEPT ![j].status = "processing", ![j].owner = claims + 1, ![j].left = Granted(s)]
  /\ at' = [at EXCEPT ![w] = [Idle EXCEPT
              !.pc = IF kind[j] = "import" THEN "next" ELSE "upload",
              !.job = j, !.token = claims + 1, !.todo = Contents]]
  /\ UNCHANGED <<kind, mail, faults, settler, emitted, hung>>

------------------------------------------------------------------------------
(* renewLease. *)

(* After a failed renewal.  lastRenewed was taken after the call that       *)
(* succeeded, the time is compared after the one that failed: the          *)
(* difference may fall short of GiveUp at the tick that reaches it.        *)
MayGoOn_Lease(w) == at[w].since <= Lease
MayGoOn(w) == at[w].since <= GiveUp
MustGoOn(w) == at[w].since < GiveUp

(* The WHERE clause of the renewal. *)
Renewable(w) == job[at[w].job].status = "processing" /\ Owns(w)

Renewed(w) ==
  /\ IF Renewable(w)
     THEN /\ \E s \in 0..Slack : job' = [job EXCEPT ![at[w].job].left = Granted(s)]
          /\ at' = [at EXCEPT ![w].since = 0, ![w].tick = Renew, ![w].line = "up"]
     ELSE /\ at' = [at EXCEPT ![w].cancelled = TRUE]
          /\ UNCHANGED job

RenewalFailed(w) ==
  /\ \E cancel \in BOOLEAN :
       /\ IF cancel THEN ~MustGoOn(w) ELSE MayGoOn(w)
       /\ at' = [at EXCEPT ![w].cancelled = cancel, ![w].tick = Renew, ![w].line = "down"]
  /\ UNCHANGED job

(* A tick: the renewal succeeds or finds no row; or it fails, and so may    *)
(* the next ones (an outage is one fault, however long).                    *)
RenewLease(w) ==
  /\ Alive(w)
  /\ at[w].tick = 0
  /\ at[w].line # "hung"
  /\ \/ Renewed(w) /\ UNCHANGED faults
     \/ RenewalFailed(w) /\ IF at[w].line = "down" THEN UNCHANGED faults ELSE Fault
  /\ UNCHANGED <<kind, mail, history>>

(* The call hangs, and comes back some time later. *)
Hang(w) ==
  /\ Alive(w) /\ at[w].tick = 0 /\ at[w].line = "up"
  /\ Fault
  /\ at' = [at EXCEPT ![w].line = "hung"]
  /\ hung' = TRUE
  /\ UNCHANGED <<kind, job, mail, claims, settler, emitted>>

HangEnds(w) ==
  /\ Alive(w) /\ at[w].line = "hung"
  /\ Renewed(w) \/ RenewalFailed(w)
  /\ UNCHANGED <<kind, mail, faults, history>>

------------------------------------------------------------------------------
(* importJob, buildZIP and PutExportStream.  Every statement is given       *)
(* jobCtx; the calls to a remote IMAP server are given no context at all.   *)

(* The lookups by SHA-256, of which there is no unique index. *)
RowsWithSha_None(c) == {}
RowsWithSha(c) == 1..rows[c]

(* addToMailbox, alreadyAttached. *)
CheckAttached(w) ==
  /\ at[w].pc = "next"
  /\ \E c \in at[w].todo :
       at' = IF RowsWithSha(c) \cap attached[c] # {}
             THEN [at EXCEPT ![w].todo = @ \ {c}]
             ELSE [at EXCEPT ![w].pc = "lookup", ![w].item = c]
  /\ UNCHANGED <<job, mail>>

(* messageForRaw: the oldest row, or a new one. *)
LookUp(w) ==
  /\ at[w].pc = "lookup"
  /\ at' = IF RowsWithSha(at[w].item) # {}
           THEN [at EXCEPT ![w].pc = "attach", ![w].row = 1]
           ELSE [at EXCEPT ![w].pc = "create"]
  /\ UNCHANGED <<job, mail>>

CreateMessage(w) ==
  /\ at[w].pc = "create"
  /\ rows' = [rows EXCEPT ![at[w].item] = @ + 1]
  /\ at' = [at EXCEPT ![w].pc = "attach", ![w].row = rows[at[w].item] + 1]
  /\ UNCHANGED <<job, attached, archive>>

(* attachMessage: the unique index refuses a row that is there already.     *)
(* recordCreated counts the others and now and then writes the count.       *)
AttachMessage(w) ==
  /\ at[w].pc = "attach"
  /\ LET j == at[w].job
         c == at[w].item
         new == at[w].row \notin attached[c]
         n == at[w].count + (IF new THEN 1 ELSE 0)
     IN /\ attached' = [attached EXCEPT ![c] = @ \cup {at[w].row}]
        /\ at' = [at EXCEPT ![w].pc = "next", ![w].todo = @ \ {c}, ![w].count = n]
        /\ job' = [job EXCEPT ![j].count = IF new /\ n % FlushEvery = 0 THEN n ELSE @]
  /\ UNCHANGED <<rows, archive>>

(* The source has been read to its end.  The last flush of importJob fails  *)
(* if jobCtx is done, which is no error of the import.                      *)
AllRead_Always(w) == TRUE
AllRead(w) == at[w].todo = {}

EndOfImport(w) ==
  /\ at[w].pc = "next" /\ AllRead(w)
  /\ at' = [at EXCEPT ![w].pc = "finished"]
  /\ job' = [job EXCEPT ![at[w].job].count = IF at[w].cancelled \/ at[w].count = 0 THEN @ ELSE at[w].count]
  /\ UNCHANGED mail

Upload(w) ==
  /\ at[w].pc = "upload"
  /\ archive' = [archive EXCEPT ![at[w].job] = at[w].token]
  /\ at' = [at EXCEPT ![w].pc = "finished"]
  /\ UNCHANGED <<job, rows, attached>>

Working(w) == at[w].pc \in {"next", "lookup", "create", "attach", "upload"}

Work(w) ==
  /\ \/ /\ Alive(w)
        /\ CheckAttached(w) \/ LookUp(w) \/ CreateMessage(w) \/ AttachMessage(w) \/ Upload(w)
     \/ EndOfImport(w)
  /\ UNCHANGED <<kind, faults, claims, settler, emitted, hung>>

(* A statement fails: because jobCtx is done, or for good (a message that   *)
(* is too large, a full mailbox, an unreachable source); importJob flushes  *)
(* then too.                                                                *)
WorkFails(w) ==
  /\ Working(w)
  /\ at' = [at EXCEPT ![w].pc = "broken"]
  /\ job' = [job EXCEPT ![at[w].job].count = IF at[w].cancelled \/ at[w].count = 0 THEN @ ELSE at[w].count]
  /\ UNCHANGED <<kind, mail, faults, history>>

(* The IMAP server an import reads from never answers: to LOGIN, LIST,      *)
(* SELECT or FETCH, or when the fetch is closed after a statement failed.   *)
(* Nothing wakes the worker, not even the end of jobCtx; its renewer goes   *)
(* on renewing.                                                             *)
Stall(w) ==
  /\ kind[at[w].job] = "import" /\ at[w].pc \in {"next", "lookup", "create", "attach"}
  /\ at' = [at EXCEPT ![w].pc = "silent"]
  /\ UNCHANGED <<kind, job, mail, faults, history>>

------------------------------------------------------------------------------
(* The end of processOne. *)

(* The guard LockedByEQ(owner) of release, fail and the completion. *)
MayUpdate_Anyone(w) == TRUE
MayUpdate(w) == Owns(w)

(* An update that settles the job, its row count, and the event after it.   *)
Settle(w, status) ==
  LET j == at[w].job
  IN \/ /\ ~at[w].stop
        /\ IF MayUpdate(w)
           THEN /\ job' = [job EXCEPT ![j] = [Unlocked(job[j], status) EXCEPT
                             !.count = IF kind[j] = "import" THEN at[w].count ELSE job[j].count]]
                /\ settler' = [settler EXCEPT ![j] = at[w].token]
                /\ at' = [at EXCEPT ![w].pc = "emit"]
           ELSE /\ at' = [at EXCEPT ![w] = Idle]
                /\ UNCHANGED <<job, settler>>
        /\ UNCHANGED faults
     \/ /\ IF at[w].stop THEN UNCHANGED faults ELSE Fault
        /\ at' = [at EXCEPT ![w] = Idle]
        /\ UNCHANGED <<job, settler>>

Complete(w) ==
  /\ at[w].pc = "finished"
  /\ Settle(w, "completed")
  /\ UNCHANGED <<kind, mail, claims, emitted, hung>>

Fail(w) ==
  /\ at[w].pc = "broken" /\ ~at[w].cancelled
  /\ Settle(w, "failed")
  /\ UNCHANGED <<kind, mail, claims, emitted, hung>>

(* release, under a context of its own. *)
Release(w) ==
  /\ at[w].pc = "broken" /\ at[w].cancelled
  /\ \/ /\ job' = IF MayUpdate(w) THEN [job EXCEPT ![at[w].job] = Unlocked(@, "queued")] ELSE job
        /\ UNCHANGED faults
     \/ Fault /\ UNCHANGED job
  /\ at' = [at EXCEPT ![w] = Idle]
  /\ UNCHANGED <<kind, mail, history>>

Emit(w) ==
  /\ at[w].pc = "emit"
  /\ \/ /\ ~at[w].stop
        /\ emitted' = [emitted EXCEPT ![at[w].job] = @ + 1]
        /\ UNCHANGED faults
     \/ /\ IF at[w].stop THEN UNCHANGED faults ELSE Fault
        /\ UNCHANGED emitted
  /\ at' = [at EXCEPT ![w] = Idle]
  /\ UNCHANGED <<kind, job, mail, claims, settler, hung>>

------------------------------------------------------------------------------
(* Time, shutdown, crashes, cleanup. *)

Shutdown(w) ==
  /\ Busy(w) /\ ~at[w].stop
  /\ Fault
  /\ at' = [at EXCEPT ![w].stop = TRUE, ![w].cancelled = TRUE]
  /\ UNCHANGED <<kind, job, mail, history>>

Crash(w) ==
  /\ Busy(w)
  /\ Fault
  /\ at' = [at EXCEPT ![w] = Idle]
  /\ UNCHANGED <<kind, job, mail, history>>

Tick ==
  /\ \E j \in Jobs : job[j].left > 0
  /\ \A w \in Workers : Alive(w) /\ at[w].line # "hung" => at[w].tick > 0
  /\ job' = [j \in Jobs |-> [job[j] EXCEPT !.left = IF @ > 0 THEN @ - 1 ELSE 0]]
  /\ at' = [w \in Workers |-> IF Alive(w)
              THEN [at[w] EXCEPT !.tick = IF @ > 0 THEN @ - 1 ELSE 0,
                                 !.since = IF @ < Lease THEN @ + 1 ELSE @]
              ELSE at[w]]
  /\ UNCHANGED <<kind, mail, faults, history>>

Stale(row) == row.status = "processing" /\ row.left = 0

(* recoverStaleLeases. *)
RecoverStaleLeases ==
  /\ \E j \in Jobs : Stale(job[j])
  /\ job' = [j \in Jobs |-> IF Stale(job[j]) THEN Unlocked(job[j], "queued") ELSE job[j]]
  /\ UNCHANGED <<kind, at, mail, faults, history>>

(* cleanupExpiredExports: the object goes first, and then the row; or the   *)
(* second statement fails, and both are done again an hour later.           *)
CleanupExpiredExports(j) ==
  /\ kind[j] = "export" /\ job[j].status = "completed"
  /\ archive' = [archive EXCEPT ![j] = 0]
  /\ \/ job' = [job EXCEPT ![j].status = "expired"] /\ UNCHANGED faults
     \/ archive[j] # 0 /\ Fault /\ UNCHANGED job
  /\ UNCHANGED <<kind, at, rows, attached, history>>

Next ==
  \/ \E w \in Workers :
       \/ \E j \in Jobs : Claim(w, j)
       \/ RenewLease(w) \/ Hang(w) \/ HangEnds(w)
       \/ Work(w) \/ WorkFails(w) \/ Stall(w) \/ Complete(w) \/ Fail(w) \/ Release(w) \/ Emit(w)
       \/ Shutdown(w) \/ Crash(w)
  \/ \E j \in Jobs : Create(j) \/ CleanupExpiredExports(j)
  \/ Tick \/ RecoverStaleLeases

Spec == Init /\ [][Next]_vars

(* Goroutines poll every 5 seconds, the database and the object store       *)
(* answer or fail, a statement whose context is done returns, the renewer's *)
(* ticker fires, and time passes.  The cleanup worker may never come, a     *)
(* renewal may hang for ever, and an IMAP server may never answer: a worker *)
(* that waits for it has no step that fairness could ask for.               *)
Fairness ==
  /\ WF_vars(Tick)
  /\ \A w \in Workers :
       /\ WF_vars(\E j \in Jobs : Claim(w, j)) /\ WF_vars(RenewLease(w))
       /\ WF_vars(Work(w)) /\ WF_vars(at[w].cancelled /\ WorkFails(w))
       /\ WF_vars(Complete(w)) /\ WF_vars(Fail(w)) /\ WF_vars(Release(w)) /\ WF_vars(Emit(w))

FairSpec == Spec /\ Fairness

------------------------------------------------------------------------------
(* Properties. *)

(* Rows, workers and counters have their shape, and a worker that looks a   *)
(* message up, creates or attaches it has one.                              *)
TypeOK ==
  /\ kind \in [Jobs -> {"import", "export"}]
  /\ job \in [Jobs -> JobRow]
  /\ at \in [Workers -> Activity]
  /\ rows \in [Contents -> Nat] /\ attached \in [Contents -> SUBSET Nat]
  /\ archive \in [Jobs -> Nat]
  /\ faults \in Nat /\ claims \in Nat
  /\ settler \in [Jobs -> Nat] /\ emitted \in [Jobs -> Nat]
  /\ hung \in BOOLEAN
  /\ \A w \in Workers : at[w].pc \in {"lookup", "create", "attach"} => at[w].item \in Contents

(* The comment at jobLeaseGiveUp: "the worker stops before another worker   *)
(* can claim the job".  Two workers are never both at work on a job, with   *)
(* contexts that are not done, unless a renewal has hung; outages of any    *)
(* length, crashes and leases that fall short are no reason.                *)
ExclusiveUnlessHung ==
  hung \/ \A v, w \in Workers :
    Alive(v) /\ Working(v) /\ Alive(w) /\ Working(w) /\ at[v].job = at[w].job => v = w

(* A settled job stays settled, also after a hang: no late worker, release  *)
(* or recovery queues it again.  Nor is its imported_count overwritten,     *)
(* which importProgress.flush does without looking at locked_by.            *)
SettledForGood ==
  [][\A j \in Jobs : job[j].status \in Settled =>
       /\ job'[j].status \in {job[j].status, "expired"}
       /\ hung \/ job'[j].count = job[j].count]_vars

(* An import that was interrupted and begun again, any number of times,     *)
(* attaches each message once; with two imports into the mailbox this says  *)
(* nothing, as either may look a message up before the other stores it.     *)
OneImport == \A j, k \in Jobs : kind[j] = "import" /\ kind[k] = "import" => j = k

AttachedOnceUnlessHung ==
  OneImport => hung \/ \A c \in Contents : Cardinality(attached[c]) <= 1

(* At most one event per job, and only about a settled one. *)
OneEvent ==
  \A j \in Jobs : emitted[j] <= 1 /\ (emitted[j] = 1 => job[j].status \in Settled \cup {"expired"})

(* What completed stands for, whatever happened on the way: an import has   *)
(* attached every message of its source; the archive of an export, until    *)
(* cleanup takes it away, is the one that the completing worker wrote and   *)
(* whose size the row states.                                               *)
CompletedIsWhole ==
  \A j \in Jobs : job[j].status = "completed" =>
    CASE kind[j] = "import" -> \A c \in Contents : attached[c] # {}
      [] kind[j] = "export" -> hung \/ archive[j] \in {0, settler[j]}

(* A worker that waits for an IMAP server keeps the job, or all of them     *)
(* wait for one.                                                            *)
Stuck(j) ==
  \/ \E w \in Workers : at[w].pc = "silent" /\ ~at[w].cancelled /\ at[w].job = j /\ Owns(w)
  \/ \A w \in Workers : at[w].pc = "silent"

(* Every job is completed or failed in the end, after crashes, lost leases  *)
(* and outages and without the cleanup worker, unless from some time on it  *)
(* is stuck for ever behind IMAP servers that have fallen silent.           *)
Settles ==
  \A j \in Jobs : []<>~Stuck(j) =>
    (job[j].status = "queued" ~> job[j].status \in Settled \cup {"expired"})

==============================================================================
