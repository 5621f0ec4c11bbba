---------------------------- MODULE WebhookQueue ----------------------------
(***************************************************************************)
(* The event_logs queue: services emit events (internal/events), webhook   *)
(* workers (internal/webhooks/worker.go) claim, post and finish them, the  *)
(* cleanup worker resets lapsed leases and prunes.                         *)
(*                                                                         *)
(* Unlike the relay's, this claim passes over rows in processing, lapsed   *)
(* or not, and the final update is not guarded by locked_by, which nothing *)
(* ever reads.  Time is abstracted to what the queries ask: whether        *)
(* locked_until (lease) and next_attempt_at (due) have passed.             *)
(***************************************************************************)
EXTENDS Integers, FiniteSets

CONSTANTS
  Events,       \* ids of events, numbered in the order of created_at
  Workers,      \* goroutines of all instances
  MaxAttempts,  \* webhooks.max_attempts
  MaxFaults     \* bound on crashes, late workers, lost replies, failed
                \* writes, changes of the configuration

ASSUME WebhookAssumption ==
  /\ Events \subseteq Nat /\ Events # {}
  /\ IsFiniteSet(Workers)
  /\ MaxAttempts \in Nat \ {0} /\ MaxFaults \in Nat

VARIABLES
  event,     \* EventLog rows
  at,        \* what each worker is doing
  endpoint,  \* the configuration has an endpoint for the events' type
  faults,    \* number of faults so far
  claims,    \* history: times an event was claimed
  accepted,  \* history: times the endpoint answered 2xx, heard or not
  excuses,   \* history: posts of an event that were not recorded as such
  overtaken  \* history: events whose lease lapsed under a worker at work

vars == <<event, at, endpoint, faults, claims, accepted, excuses, overtaken>>

Open    == {"queued", "retry", "processing"}
Settled == {"delivered", "failed", "no_endpoint"}

EventRow == [status : {"absent", "pruned"} \cup Open \cup Settled, attempts : Nat,
             lease : {"none", "held", "lapsed"}, due : BOOLEAN]

(* attempts: as RETURNED by the claim; serial: which claim it is (history). *)
Activity == [pc : {"idle", "claimed", "posted"}, event : Events, attempts : Nat,
             result : {"delivered", "error", "no_endpoint"}, serial : Nat]

Idle == [pc |-> "idle", event |-> CHOOSE e \in Events : TRUE, attempts |-> 0,
         result |-> "error", serial |-> 0]

Init ==
  /\ event = [e \in Events |-> [status |-> "absent", attempts |-> 0, lease |-> "none", due |-> TRUE]]
  /\ at = [w \in Workers |-> Idle]
  /\ endpoint \in BOOLEAN
  /\ faults = 0
  /\ claims = [e \in Events |-> 0]
  /\ accepted = [e \in Events |-> 0]
  /\ excuses = [e \in Events |-> 0]
  /\ overtaken = {}

Fault == faults < MaxFaults /\ faults' = faults + 1

Holder(w, e) == at[w].pc # "idle" /\ at[w].event = e /\ at[w].serial = claims[e]

(* A worker drops what it was doing: a post that was accepted is forgotten. *)
Forgotten(w) == IF at[w].pc = "posted" /\ at[w].result = "delivered" THEN {at[w].event} ELSE {}

------------------------------------------------------------------------------
(* A definition Name_Fault that precedes Name is Name with a mistake the    *)
(* code could contain; with it in place of Name a property below must fail. *)

(* Emit, EmitMessageReceived. *)
Emit(e) ==
  /\ event[e].status = "absent"
  /\ \A d \in Events : d < e => event[d].status # "absent"
  /\ event' = [event EXCEPT ![e].status = "queued"]
  /\ UNCHANGED <<at, endpoint, faults, claims, accepted, excuses, overtaken>>

(* The WHERE clause of the claim. *)
Claimable_Processing(e) == event[e].status \in Open /\ event[e].due
Claimable(e) == event[e].status \in {"queued", "retry"} /\ event[e].due /\ event[e].lease # "held"

Claim(w, e) ==
  /\ at[w].pc = "idle"
  /\ Claimable(e)
  /\ \A d \in Events : Claimable(d) => e <= d
  /\ event' = [event EXCEPT ![e].status = "processing", ![e].lease = "held"]
  /\ at' = [at EXCEPT ![w] = [pc |-> "claimed", event |-> e, attempts |-> event[e].attempts,
                              result |-> "error", serial |-> claims[e] + 1]]
  /\ claims' = [claims EXCEPT ![e] = @ + 1]
  /\ UNCHANGED <<endpoint, faults, accepted, excuses, overtaken>>

(* ProcessOne reads the configuration and posts.  The endpoint may accept   *)
(* and the answer be lost or late: an error to the worker.                  *)
Post(w) ==
  /\ at[w].pc = "claimed"
  /\ \E r \in {"delivered", "error", "no_endpoint"}, taken \in BOOLEAN :
       LET e == at[w].event
       IN /\ (r = "no_endpoint") <=> ~endpoint
          /\ r = "delivered" => taken
          /\ r = "no_endpoint" => ~taken
          /\ at' = [at EXCEPT ![w].pc = "posted", ![w].result = r]
          /\ accepted' = [accepted EXCEPT ![e] = @ + IF taken THEN 1 ELSE 0]
          /\ IF taken /\ r = "error"
             THEN Fault /\ excuses' = [excuses EXCEPT ![e] = @ + 1]
             ELSE UNCHANGED <<faults, excuses>>
  /\ UNCHANGED <<event, endpoint, claims, overtaken>>

Exhausted_OffByOne(n) == n > MaxAttempts
Exhausted(n) == n >= MaxAttempts

Released(row) == [row EXCEPT !.lease = "none"]

(* The final updates: no_endpoint, delivered, and fail, which adds to the   *)
(* row's attempts and judges by those the claim returned.                   *)
Finished(row, act) ==
  IF act.result = "error"
  THEN LET again == ~Exhausted(act.attempts + 1)
       IN [Released(row) EXCEPT !.status = IF again THEN "retry" ELSE "failed",
                                !.due = IF again THEN FALSE ELSE @,
                                !.attempts = @ + 1]
  ELSE [Released(row) EXCEPT !.status = act.result,
                             !.due = IF act.result = "delivered" THEN TRUE ELSE @]

(* UpdateOneID: whatever the row has become, as long as it exists.          *)
Finish(w) ==
  LET e == at[w].event
  IN /\ at[w].pc = "posted"
     /\ \/ /\ event' = IF event[e].status = "pruned" THEN event
                       ELSE [event EXCEPT ![e] = Finished(@, at[w])]
           /\ UNCHANGED <<faults, excuses>>
        \/ /\ Fault
           /\ excuses' = [d \in Events |-> excuses[d] + IF d \in Forgotten(w) THEN 1 ELSE 0]
           /\ UNCHANGED event
     /\ at' = [at EXCEPT ![w] = Idle]
     /\ UNCHANGED <<endpoint, claims, accepted, overtaken>>

------------------------------------------------------------------------------
(* Time, crashes, reloads, cleanup. *)

BecomeDue(e) ==
  /\ ~event[e].due
  /\ event' = [event EXCEPT ![e].due = TRUE]
  /\ UNCHANGED <<at, endpoint, faults, claims, accepted, excuses, overtaken>>

(* locked_until passes after its holder is gone; or while it is at work,    *)
(* which takes a stalled final update: a post ends after 10 seconds.        *)
LapseAbandoned(e) ==
  /\ event[e].lease = "held"
  /\ \A w \in Workers : ~Holder(w, e)
  /\ event' = [event EXCEPT ![e].lease = "lapsed"]
  /\ UNCHANGED <<at, endpoint, faults, claims, accepted, excuses, overtaken>>

LapseLate(e) ==
  /\ event[e].lease = "held"
  /\ \E w \in Workers : Holder(w, e)
  /\ Fault
  /\ event' = [event EXCEPT ![e].lease = "lapsed"]
  /\ excuses' = [excuses EXCEPT ![e] = @ + 1]
  /\ overtaken' = overtaken \cup {e}
  /\ UNCHANGED <<at, endpoint, claims, accepted>>

Crash(w) ==
  /\ at[w].pc # "idle"
  /\ Fault
  /\ at' = [at EXCEPT ![w] = Idle]
  /\ excuses' = [d \in Events |-> excuses[d] + IF d \in Forgotten(w) THEN 1 ELSE 0]
  /\ UNCHANGED <<event, endpoint, claims, accepted, overtaken>>

(* Reload: webhooks.endpoints is read anew for every event. *)
Reload ==
  /\ Fault
  /\ endpoint' = ~endpoint
  /\ UNCHANGED <<event, at, claims, accepted, excuses, overtaken>>

(* recoverStaleLeases. *)
Stale_Forgotten(row) == FALSE
Stale_Held(row) == row.status = "processing"
Stale(row) == row.status = "processing" /\ row.lease = "lapsed"

RecoverStaleLeases ==
  /\ \E e \in Events : Stale(event[e])
  /\ event' = [e \in Events |-> IF Stale(event[e])
                                THEN [Released(event[e]) EXCEPT !.status = "retry"] ELSE event[e]]
  /\ UNCHANGED <<at, endpoint, faults, claims, accepted, excuses, overtaken>>

(* pruneHistory, 90 days later. *)
Prune(e) ==
  /\ event[e].status \in Settled
  /\ event' = [event EXCEPT ![e].status = "pruned"]
  /\ UNCHANGED <<at, endpoint, faults, claims, accepted, excuses, overtaken>>

Next ==
  \/ \E e \in Events :
       \/ Emit(e) \/ BecomeDue(e) \/ LapseAbandoned(e) \/ LapseLate(e) \/ Prune(e)
       \/ \E w \in Workers : Claim(w, e)
  \/ \E w \in Workers : Post(w) \/ Finish(w) \/ Crash(w)
  \/ Reload \/ RecoverStaleLeases

Spec == Init /\ [][Next]_vars

(* Goroutines poll at least every 30 seconds, a post has a timeout, updates *)
(* end, time passes, and, which the queue relies on, the cleanup worker     *)
(* comes round every hour.                                                  *)
Fairness ==
  /\ \A w \in Workers : WF_vars(\E e \in Events : Claim(w, e)) /\ WF_vars(Post(w)) /\ WF_vars(Finish(w))
  /\ \A e \in Events : WF_vars(BecomeDue(e)) /\ WF_vars(LapseAbandoned(e))
  /\ WF_vars(RecoverStaleLeases)

FairSpec == Spec /\ Fairness

------------------------------------------------------------------------------
(* Properties. *)

(* Rows, workers and counters have their shape. *)
TypeOK ==
  /\ event \in [Events -> EventRow]
  /\ at \in [Workers -> Activity]
  /\ endpoint \in BOOLEAN
  /\ faults \in Nat
  /\ claims \in [Events -> Nat] /\ accepted \in [Events -> Nat] /\ excuses \in [Events -> Nat]
  /\ overtaken \subseteq Events

(* A settled event stays settled.  The exception is an event whose worker   *)
(* outlived its lease: its update is not guarded, and may put an event that *)
(* another worker has delivered back to retry.                              *)
SettledUnlessOvertaken ==
  [][\A e \in Events : event[e].status \in Settled /\ e \notin overtaken' =>
       event'[e].status \in {event[e].status, "pruned"}]_vars

(* The endpoint accepts an event once: every further time is due to an      *)
(* answer, an update or a worker that was lost, or to a lapsed lease.       *)
AcceptedOnce == \A e \in Events : accepted[e] <= 1 + excuses[e]

(* An event in the queue has attempts left.  Once overtaken, it may have    *)
(* used them up: a late worker puts even a failed event back to retry, but  *)
(* each lapsed lease costs at most two attempts more.                       *)
RetriesBounded ==
  \A e \in Events : event[e].status \in Open =>
    event[e].attempts < MaxAttempts + (IF e \in overtaken THEN 2 * excuses[e] ELSE 0)

(* Every event is settled in the end: delivered, given up, or without an    *)
(* endpoint to go to.                                                       *)
Settles == \A e \in Events : event[e].status = "queued" ~> event[e].status \in Settled \cup {"pruned"}

==============================================================================
