-------------------------- MODULE WebhookQueueProofs --------------------------
(***************************************************************************)
(* What WebhookQueue promises for any number of events, workers, attempts  *)
(* and faults: a settled event stays settled, is accepted once and retried *)
(* boundedly, except for what lost answers and late workers account for.   *)
(***************************************************************************)
EXTENDS WebhookQueue, FiniteSetTheorems, TLAPS

(* A worker at rest is well formed. *)
LEMMA IdleType == Idle \in Activity /\ Idle.pc = "idle"
<1>1. (CHOOSE e \in Events : TRUE) \in Events
  BY WebhookAssumption
<1>. QED
  BY <1>1 DEF Idle, Activity

(* What the final update makes of a row. *)
LEMMA FinishedRow ==
  ASSUME NEW row \in EventRow, NEW act \in Activity
  PROVE  /\ Finished(row, act) \in EventRow
         /\ Finished(row, act).lease = "none"
         /\ act.result # "error" => /\ Finished(row, act).status = act.result
                                    /\ Finished(row, act).attempts = row.attempts
         /\ act.result = "error" =>
              /\ Finished(row, act).status = IF Exhausted(act.attempts + 1) THEN "failed" ELSE "retry"
              /\ Finished(row, act).attempts = row.attempts + 1
<1>1. Released(row) \in EventRow /\ Released(row).lease = "none" /\ Released(row).attempts = row.attempts
  BY DEF Released, EventRow
<1>a. row.attempts + 1 \in Nat
  BY DEF EventRow
<1>2. CASE act.result = "error" /\ ~Exhausted(act.attempts + 1)
  <2>1. Finished(row, act) = [Released(row) EXCEPT !.status = "retry", !.due = FALSE,
                                                 !.attempts = row.attempts + 1]
    BY <1>1, <1>2 DEF Finished
  <2>2. /\ Finished(row, act) \in EventRow /\ Finished(row, act).lease = "none"
        /\ Finished(row, act).status = "retry" /\ Finished(row, act).attempts = row.attempts + 1
    BY <1>1, <1>a, <2>1 DEF EventRow, Open
  <2>. QED
    BY <1>2, <2>2
<1>3. CASE act.result = "error" /\ Exhausted(act.attempts + 1)
  <2>1. Finished(row, act) = [Released(row) EXCEPT !.status = "failed",
                                                 !.due = Released(row).due, !.attempts = row.attempts + 1]
    BY <1>1, <1>3 DEF Finished
  <2>2. /\ Finished(row, act) \in EventRow /\ Finished(row, act).lease = "none"
        /\ Finished(row, act).status = "failed" /\ Finished(row, act).attempts = row.attempts + 1
    BY <1>1, <1>a, <2>1 DEF EventRow, Settled
  <2>. QED
    BY <1>3, <2>2
<1>4. CASE act.result # "error"
  <2>1. Finished(row, act) = [Released(row) EXCEPT !.status = act.result,
                                !.due = IF act.result = "delivered" THEN TRUE ELSE @]
    BY <1>4 DEF Finished
  <2>2. act.result \in {"delivered", "no_endpoint"}
    BY <1>4 DEF Activity
  <2>3. (IF act.result = "delivered" THEN TRUE ELSE Released(row).due) \in BOOLEAN
    BY <1>1 DEF EventRow
  <2>. QED
    BY <1>1, <1>4, <2>1, <2>2, <2>3 DEF EventRow, Settled
<1>. QED
  BY <1>2, <1>3, <1>4

(* A worker ends its job: the update applies, finds no row, or fails, or    *)
(* the worker itself stops.                                                 *)
Applied(w) ==
  /\ at[w].pc = "posted"
  /\ event' = IF event[at[w].event].status = "pruned" THEN event
              ELSE [event EXCEPT ![at[w].event] = Finished(@, at[w])]
  /\ UNCHANGED <<faults, excuses>>

Dropped(w) ==
  /\ at[w].pc # "idle"
  /\ faults' = faults + 1
  /\ excuses' = [d \in Events |-> excuses[d] + IF d \in Forgotten(w) THEN 1 ELSE 0]
  /\ UNCHANGED event

Ended(w) ==
  /\ Applied(w) \/ Dropped(w)
  /\ at' = [at EXCEPT ![w] = Idle]
  /\ UNCHANGED <<endpoint, claims, accepted, overtaken>>

(* Finish and Crash are such ends. *)
LEMMA Endings == ASSUME NEW w \in Workers, Finish(w) \/ Crash(w) PROVE Ended(w)
  BY DEF Finish, Crash, Ended, Applied, Dropped, Fault

------------------------------------------------------------------------------
(* Types. *)

(* An empty queue is well typed. *)
LEMMA InitType == Init => TypeOK
  BY IdleType DEF Init, TypeOK, EventRow

(* Every step of every worker and of the cleanup keeps the types. *)
LEMMA NextType == TypeOK /\ [Next]_vars => TypeOK'
<1>. SUFFICES ASSUME TypeOK, [Next]_vars PROVE TypeOK'
  OBVIOUS
<1>. USE DEF TypeOK
<1>1. ASSUME NEW e \in Events, Emit(e) PROVE TypeOK'
  <2>1. event' \in [Events -> EventRow]
    BY <1>1 DEF Emit, EventRow, Open
  <2>. QED
    BY <1>1, <2>1 DEF Emit
<1>2. ASSUME NEW e \in Events, BecomeDue(e) PROVE TypeOK'
  <2>1. event' \in [Events -> EventRow]
    BY <1>2 DEF BecomeDue, EventRow
  <2>. QED
    BY <1>2, <2>1 DEF BecomeDue
<1>3. ASSUME NEW e \in Events, LapseAbandoned(e) PROVE TypeOK'
  <2>1. event' \in [Events -> EventRow]
    BY <1>3 DEF LapseAbandoned, EventRow
  <2>. QED
    BY <1>3, <2>1 DEF LapseAbandoned
<1>4. ASSUME NEW e \in Events, LapseLate(e) PROVE TypeOK'
  <2>1. event' \in [Events -> EventRow]
    BY <1>4 DEF LapseLate, EventRow
  <2>. QED
    BY <1>4, <2>1 DEF LapseLate, Fault
<1>5. ASSUME NEW e \in Events, Prune(e) PROVE TypeOK'
  <2>1. event' \in [Events -> EventRow]
    BY <1>5 DEF Prune, EventRow
  <2>. QED
    BY <1>5, <2>1 DEF Prune
<1>6. ASSUME NEW w \in Workers, NEW e \in Events, Claim(w, e) PROVE TypeOK'
  <2>1. event' \in [Events -> EventRow]
    BY <1>6, ZenonT(60) DEF Claim, EventRow, Open
  <2>2. at' \in [Workers -> Activity]
    BY <1>6 DEF Claim, EventRow, Activity
  <2>. QED
    BY <1>6, <2>1, <2>2 DEF Claim
<1>7. ASSUME NEW w \in Workers, Post(w) PROVE TypeOK'
  <2>e. at[w].event \in Events
    BY DEF Activity
  <2>p. PICK r \in {"delivered", "error", "no_endpoint"}, taken \in BOOLEAN :
          /\ at' = [at EXCEPT ![w].pc = "posted", ![w].result = r]
          /\ accepted' = [accepted EXCEPT ![at[w].event] = @ + IF taken THEN 1 ELSE 0]
          /\ \/ faults' = faults + 1 /\ excuses' = [excuses EXCEPT ![at[w].event] = @ + 1]
             \/ faults' = faults /\ excuses' = excuses
    BY <1>7 DEF Post, Fault
  <2>1. at' \in [Workers -> Activity]
    BY <2>p, ZenonT(60) DEF Activity
  <2>2. accepted' \in [Events -> Nat] /\ excuses' \in [Events -> Nat] /\ faults' \in Nat
    BY <2>p, <2>e
  <2>. QED
    BY <1>7, <2>1, <2>2 DEF Post
<1>8. ASSUME NEW w \in Workers, Finish(w) \/ Crash(w) PROVE TypeOK'
  <2>1. Ended(w)
    BY <1>8, Endings
  <2>2. event' \in [Events -> EventRow]
    <3>1. at[w].event \in Events /\ at[w] \in Activity
      BY DEF Activity
    <3>2. Finished(event[at[w].event], at[w]) \in EventRow
      BY <3>1, FinishedRow
    <3>. QED
      BY <2>1, <3>1, <3>2 DEF Ended, Applied, Dropped
  <2>3. excuses' \in [Events -> Nat] /\ faults' \in Nat
    BY <2>1 DEF Ended, Applied, Dropped
  <2>4. at' \in [Workers -> Activity]
    BY <2>1, IdleType DEF Ended
  <2>. QED
    BY <2>1, <2>2, <2>3, <2>4 DEF Ended
<1>9. ASSUME Reload PROVE TypeOK'
  BY <1>9 DEF Reload, Fault
<1>10. ASSUME RecoverStaleLeases PROVE TypeOK'
  <2>1. event' \in [Events -> EventRow]
    BY <1>10 DEF RecoverStaleLeases, Released, EventRow, Open
  <2>. QED
    BY <1>10, <2>1 DEF RecoverStaleLeases
<1>11. ASSUME UNCHANGED vars PROVE TypeOK'
  BY <1>11 DEF vars
<1>. QED
  BY <1>1, <1>2, <1>3, <1>4, <1>5, <1>6, <1>7, <1>8, <1>9, <1>10, <1>11 DEF Next

(* The queue of events is well typed whatever workers, reloads and the      *)
(* cleanup do.                                                              *)
THEOREM TypeCorrect == Spec => []TypeOK
  BY InitType, NextType, PTL DEF Spec

------------------------------------------------------------------------------
(* Who works on an event. *)

Active(w, e) == at[w].pc # "idle" /\ at[w].event = e

(* The lease runs and the worker it was given to is at work. *)
Held(e) == event[e].lease = "held" /\ \E w \in Workers : Holder(w, e)

(* Claims are told apart by their serial; while a lease runs, its holder    *)
(* knows the attempts of the row; and unless the event was overtaken, who   *)
(* works on it is its holder.                                               *)
WorkerInv ==
  \A e \in Events, w \in Workers : Active(w, e) =>
    /\ at[w].serial <= claims[e]
    /\ \A v \in Workers : Active(v, e) /\ at[v].serial = at[w].serial => v = w
    /\ Holder(w, e) /\ event[e].lease = "held" => at[w].attempts = event[e].attempts
    /\ e \notin overtaken =>
         Holder(w, e) /\ event[e].lease = "held" /\ event[e].status = "processing"

LeaseInv == \A e \in Events : event[e].lease = "held" => event[e].status = "processing"

HoldInv == WorkerInv /\ LeaseInv

(* It holds of an empty queue. *)
LEMMA InitHold == Init => HoldInv
  BY IdleType DEF Init, HoldInv, WorkerInv, LeaseInv, Active

(* Status, lease and attempts of a row are left alone. *)
Same(e) ==
  /\ event'[e].status = event[e].status /\ event'[e].lease = event[e].lease
  /\ event'[e].attempts = event[e].attempts

(* A step in which no worker begins a job: it may end leases and jobs, but  *)
(* not the lease of an event on which a worker goes on that is its holder.  *)
LEMMA QuietHold ==
  ASSUME HoldInv, claims' = claims, overtaken \subseteq overtaken',
         \A v \in Workers : at'[v].pc # "idle" => /\ at[v].pc # "idle" /\ at'[v].event = at[v].event
                                                /\ at'[v].serial = at[v].serial
                                                /\ at'[v].attempts = at[v].attempts,
         \A e \in Events : event'[e].lease = "held" => Same(e),
         \A e \in Events : \A v \in Workers : Active(v, e)' /\ e \notin overtaken' => Same(e)
  PROVE  HoldInv'
<1>1. LeaseInv'
  BY DEF HoldInv, LeaseInv, Same
<1>2. ASSUME NEW e \in Events, NEW w \in Workers, Active(w, e)'
      PROVE  /\ at'[w].serial <= claims'[e]
             /\ \A v \in Workers : Active(v, e)' /\ at'[v].serial = at'[w].serial => v = w
             /\ Holder(w, e)' /\ event'[e].lease = "held" => at'[w].attempts = event'[e].attempts
             /\ e \notin overtaken' =>
                  Holder(w, e)' /\ event'[e].lease = "held" /\ event'[e].status = "processing"
  <2>1. \A v \in Workers : Active(v, e)' => Active(v, e) /\ at'[v].serial = at[v].serial
                                       /\ at'[v].attempts = at[v].attempts /\ (Holder(v, e)' <=> Holder(v, e))
    BY DEF Active, Holder
  <2>. QED
    BY <1>2, <2>1 DEF HoldInv, WorkerInv, Same
<1>. QED
  BY <1>1, <1>2 DEF HoldInv, WorkerInv

(* Every step keeps these. *)
LEMMA NextHold == TypeOK /\ HoldInv /\ [Next]_vars => HoldInv'
<1>. SUFFICES ASSUME TypeOK, HoldInv, [Next]_vars PROVE HoldInv'
  OBVIOUS
<1>h. \A e \in Events : event[e].lease = "held" => event[e].status = "processing"
  BY DEF HoldInv, LeaseInv
<1>w. \A e \in Events, v \in Workers : Active(v, e) /\ e \notin overtaken =>
        Holder(v, e) /\ event[e].lease = "held" /\ event[e].status = "processing"
  BY DEF HoldInv, WorkerInv
<1>1. ASSUME NEW k \in Events, Emit(k) \/ Prune(k) PROVE HoldInv'
  <2>1. at' = at /\ claims' = claims /\ overtaken' = overtaken /\ \A e \in Events \ {k} : Same(e)
    BY <1>1 DEF Emit, Prune, TypeOK, Same
  <2>2. event[k].status # "processing" /\ event'[k].lease = event[k].lease
    BY <1>1 DEF Emit, Prune, TypeOK, EventRow, Settled
  <2>. QED
    BY <1>h, <1>w, <2>1, <2>2, QuietHold DEF Active, Same
<1>2. ASSUME NEW k \in Events, BecomeDue(k) PROVE HoldInv'
  <2>1. at' = at /\ claims' = claims /\ overtaken' = overtaken /\ \A e \in Events : Same(e)
    BY <1>2 DEF BecomeDue, TypeOK, EventRow, Same
  <2>. QED
    BY <2>1, QuietHold DEF Active, Same
<1>3. ASSUME NEW k \in Events, LapseAbandoned(k) \/ LapseLate(k) PROVE HoldInv'
  <2>1. /\ at' = at /\ claims' = claims /\ overtaken \subseteq overtaken'
        /\ event'[k].lease = "lapsed" /\ \A e \in Events \ {k} : Same(e)
    BY <1>3 DEF LapseAbandoned, LapseLate, TypeOK, EventRow, Same
  <2>2. k \in overtaken' \/ \A w \in Workers : ~Holder(w, k)
    BY <1>3 DEF LapseAbandoned, LapseLate
  <2>. QED
    BY <1>w, <2>1, <2>2, QuietHold DEF Active, Same
<1>4. ASSUME NEW w \in Workers, NEW k \in Events, Claim(w, k) PROVE HoldInv'
  <2>1. /\ at[w].pc = "idle" /\ event[k].status \in {"queued", "retry"}
        /\ overtaken' = overtaken /\ claims' = [claims EXCEPT ![k] = @ + 1]
        /\ event'[k].lease = "held" /\ event'[k].status = "processing" /\ event'[k].attempts = event[k].attempts
        /\ \A e \in Events \ {k} : Same(e) /\ event'[e] = event[e]
    BY <1>4 DEF Claim, Claimable, TypeOK, EventRow, Same
  <2>2. /\ at'[w].pc = "claimed" /\ at'[w].event = k /\ at'[w].attempts = event[k].attempts
        /\ at'[w].serial = claims[k] + 1 /\ \A v \in Workers \ {w} : at'[v] = at[v]
    BY <1>4 DEF Claim, TypeOK
  <2>3. LeaseInv'
    BY <1>h, <2>1 DEF LeaseInv
  <2>4. \A v \in Workers \ {w}, e \in Events : Active(v, e)' <=> Active(v, e)
    BY <2>2 DEF Active
  <2>5. claims'[k] = claims[k] + 1 /\ claims[k] \in Nat /\ \A e \in Events \ {k} : claims'[e] = claims[e]
    BY <2>1 DEF TypeOK
  <2>6. ASSUME NEW e \in Events, NEW v \in Workers, Active(v, e)'
        PROVE  /\ at'[v].serial <= claims'[e]
               /\ \A u \in Workers : Active(u, e)' /\ at'[u].serial = at'[v].serial => u = v
               /\ Holder(v, e)' /\ event'[e].lease = "held" => at'[v].attempts = event'[e].attempts
               /\ e \notin overtaken' =>
                    Holder(v, e)' /\ event'[e].lease = "held" /\ event'[e].status = "processing"
    <3>0. \A u \in Workers : Active(u, k) => at[u].serial <= claims[k] /\ at[u].serial \in Nat
      BY DEF HoldInv, WorkerInv, TypeOK, Activity
    <3>1. CASE v = w
      <4>1. e = k
        BY <2>2, <2>6, <3>1 DEF Active
      <4>. QED
        BY <2>1, <2>2, <2>4, <2>5, <3>0, <3>1, <4>1 DEF Holder
    <3>2. CASE v # w /\ e = k
      <4>1. Active(v, k) /\ at'[v] = at[v]
        BY <2>2, <2>4, <2>6, <3>2
      <4>2. k \in overtaken
        BY <4>1, <2>1, <1>w
      <4>3. at'[v].serial # at'[w].serial /\ ~Holder(v, k)'
        BY <4>1, <3>0, <2>2, <2>5 DEF Holder
      <4>4. \A u \in Workers : Active(u, k) /\ at[u].serial = at[v].serial => u = v
        BY <4>1 DEF HoldInv, WorkerInv
      <4>. QED
        BY <2>1, <2>2, <2>4, <2>5, <3>0, <3>2, <4>1, <4>2, <4>3, <4>4
    <3>3. CASE v # w /\ e # k
      <4>1. Active(v, e) /\ at'[v] = at[v] /\ ~Active(w, e)'
        BY <2>2, <2>4, <2>6, <3>3 DEF Active
      <4>2. Holder(v, e)' <=> Holder(v, e)
        BY <4>1, <2>5, <3>3 DEF Holder
      <4>3. /\ at[v].serial <= claims[e]
            /\ \A u \in Workers : Active(u, e) /\ at[u].serial = at[v].serial => u = v
            /\ Holder(v, e) /\ event[e].lease = "held" => at[v].attempts = event[e].attempts
        BY <4>1 DEF HoldInv, WorkerInv
      <4>. QED
        BY <1>w, <2>1, <2>2, <2>4, <2>5, <3>3, <4>1, <4>2, <4>3
    <3>. QED
      BY <3>1, <3>2, <3>3
  <2>. QED
    BY <2>3, <2>6 DEF HoldInv, WorkerInv
<1>5. ASSUME NEW w \in Workers, Post(w) PROVE HoldInv'
  <2>1. event' = event /\ claims' = claims /\ overtaken' = overtaken /\ at[w].pc = "claimed"
    BY <1>5 DEF Post
  <2>2. \E r : at' = [at EXCEPT ![w].pc = "posted", ![w].result = r]
    BY <1>5 DEF Post
  <2>3. \A v \in Workers : at'[v].pc # "idle" =>
          /\ at[v].pc # "idle" /\ at'[v].event = at[v].event
          /\ at'[v].serial = at[v].serial /\ at'[v].attempts = at[v].attempts
    BY <2>1, <2>2 DEF TypeOK, Activity
  <2>. QED
    BY <2>1, <2>3, QuietHold DEF Same
<1>6. ASSUME NEW w \in Workers, Finish(w) \/ Crash(w) PROVE HoldInv'
  <2>1. Ended(w)
    BY <1>6, Endings
  <2>2. /\ claims' = claims /\ overtaken' = overtaken /\ at'[w].pc = "idle" /\ at[w].pc # "idle"
        /\ \A v \in Workers \ {w} : at'[v] = at[v]
    BY <2>1, IdleType DEF Ended, Applied, Dropped, TypeOK
  <2>3. \A e \in Events : Same(e) \/ (event'[e].lease = "none" /\ e = at[w].event)
    <3>1. at[w].event \in Events /\ at[w] \in Activity
      BY DEF TypeOK, Activity
    <3>2. Finished(event[at[w].event], at[w]).lease = "none"
      BY <3>1, FinishedRow DEF TypeOK
    <3>. QED
      BY <2>1, <3>1, <3>2 DEF Ended, Applied, Dropped, Same, TypeOK
  <2>4. ASSUME NEW e \in Events, NEW v \in Workers, Active(v, e)', e \notin overtaken'
        PROVE  Same(e)
    <3>1. v # w /\ Active(v, e)
      BY <2>2, <2>4 DEF Active
    <3>2. e # at[w].event
      <4>. SUFFICES ASSUME e = at[w].event PROVE FALSE
        OBVIOUS
      <4>1. Active(w, e)
        BY <2>2 DEF Active
      <4>2. at[v].serial = at[w].serial
        BY <1>w, <2>2, <2>4, <3>1, <4>1 DEF Holder
      <4>. QED
        BY <3>1, <4>1, <4>2 DEF HoldInv, WorkerInv
    <3>. QED
      BY <2>3, <3>2
  <2>. QED
    BY <2>2, <2>3, <2>4, QuietHold DEF Same
<1>7. ASSUME RecoverStaleLeases PROVE HoldInv'
  <2>1. at' = at /\ claims' = claims /\ overtaken' = overtaken
    BY <1>7 DEF RecoverStaleLeases
  <2>2. \A e \in Events : Same(e) \/ (event'[e].lease = "none" /\ event[e].lease = "lapsed")
    BY <1>7 DEF RecoverStaleLeases, Stale, Released, Same, TypeOK, EventRow
  <2>. QED
    BY <1>w, <2>1, <2>2, QuietHold DEF Active, Same
<1>8. ASSUME Reload \/ UNCHANGED vars PROVE HoldInv'
  <2>1. at' = at /\ claims' = claims /\ overtaken' = overtaken /\ event' = event
    BY <1>8 DEF Reload, vars
  <2>. QED
    BY <2>1, QuietHold DEF Active, Same
<1>. QED
  BY <1>1, <1>2, <1>3, <1>4, <1>5, <1>6, <1>7, <1>8 DEF Next

(* Every reachable state has them. *)
LEMMA HoldInvariant == Spec => []HoldInv
  BY InitHold, NextHold, TypeCorrect, PTL DEF Spec

(* A settled event is not touched by any worker, unless its lease once      *)
(* lapsed under a worker at work (worker.go: the final updates name the row *)
(* by its id alone, and nothing but the length of the lease protects it).   *)
THEOREM SettledStays == Spec => SettledUnlessOvertaken
<1>1. TypeOK /\ HoldInv /\ [Next]_vars =>
        [\A e \in Events : event[e].status \in Settled /\ e \notin overtaken' =>
           event'[e].status \in {event[e].status, "pruned"}]_vars
  <2>. SUFFICES ASSUME TypeOK, HoldInv, Next, NEW e \in Events, event[e].status \in Settled, e \notin overtaken'
                PROVE  event'[e].status \in {event[e].status, "pruned"}
    OBVIOUS
  <2>0. overtaken \subseteq overtaken'
    BY DEF Next, Emit, Prune, BecomeDue, LapseAbandoned, LapseLate, Claim, Post, Finish, Crash, Reload,
           RecoverStaleLeases
  <2>1. \A v \in Workers : ~Active(v, e)
    BY <2>0 DEF HoldInv, WorkerInv, Settled
  <2>2. ASSUME NEW k \in Events, Emit(k) \/ Prune(k) \/ BecomeDue(k) \/ LapseAbandoned(k) \/ LapseLate(k)
        PROVE  event'[e].status \in {event[e].status, "pruned"}
    BY <2>2 DEF Emit, Prune, BecomeDue, LapseAbandoned, LapseLate, TypeOK, EventRow, Settled
  <2>3. ASSUME NEW k \in Events, NEW w \in Workers, Claim(w, k)
        PROVE  event'[e].status \in {event[e].status, "pruned"}
    BY <2>3 DEF Claim, Claimable, TypeOK, EventRow, Settled
  <2>4. ASSUME NEW w \in Workers, Finish(w) \/ Crash(w)
        PROVE  event'[e].status \in {event[e].status, "pruned"}
    <3>1. Ended(w)
      BY <2>4, Endings
    <3>2. at[w].event # e
      BY <2>1, <3>1 DEF Ended, Applied, Dropped, Active
    <3>. QED
      BY <3>1, <3>2 DEF Ended, Applied, Dropped, TypeOK, Activity
  <2>5. ASSUME RecoverStaleLeases PROVE event'[e].status \in {event[e].status, "pruned"}
    BY <2>5 DEF RecoverStaleLeases, Stale, Settled
  <2>6. ASSUME NEW w \in Workers, Post(w) PROVE event'[e].status \in {event[e].status, "pruned"}
    BY <2>6 DEF Post
  <2>7. ASSUME Reload PROVE event'[e].status \in {event[e].status, "pruned"}
    BY <2>7 DEF Reload
  <2>. QED
    BY <2>2, <2>3, <2>4, <2>5, <2>6, <2>7 DEF Next
<1>. QED
  BY <1>1, TypeCorrect, HoldInvariant, PTL DEF Spec, SettledUnlessOvertaken

------------------------------------------------------------------------------
(* Counting workers. *)

(* A set of workers can be counted, also when one joins or leaves it. *)
LEMMA Count ==
  ASSUME NEW S \in SUBSET Workers, NEW w
  PROVE  /\ Cardinality(S) \in Nat
         /\ Cardinality(S \ {w}) = IF w \in S THEN Cardinality(S) - 1 ELSE Cardinality(S)
         /\ Cardinality(S \cup {w}) = IF w \in S THEN Cardinality(S) ELSE Cardinality(S) + 1
<1>1. IsFiniteSet(S)
  BY WebhookAssumption, FS_Subset
<1>. QED
  BY <1>1, FS_CardinalityType, FS_AddElement, FS_RemoveElement

(* The event may be claimed, now or once time has passed. *)
Free(e) == IF event[e].status \in Settled \cup {"pruned"} \/ Held(e) THEN 0 ELSE 1

(* An event counts for one claim at most. *)
LEMMA FreeType == \A e \in Events : Free(e) \in {0, 1} /\ Free(e)' \in {0, 1}
  BY DEF Free

(* A step that leaves status, lease and workers of an event alone leaves    *)
(* alone who holds it and whether it may be claimed.                        *)
LEMMA FreeSame ==
  ASSUME NEW e \in Events, event'[e].status = event[e].status, event'[e].lease = event[e].lease,
         claims'[e] = claims[e],
         \A w \in Workers : Active(w, e)' = Active(w, e) /\ (Active(w, e) => at'[w].serial = at[w].serial)
  PROVE  Free(e)' = Free(e) /\ Held(e)' = Held(e)
<1>1. \A w \in Workers : Holder(w, e)' = Holder(w, e)
  BY DEF Holder, Active
<1>2. Held(e)' = Held(e)
  BY <1>1 DEF Held
<1>. QED
  BY <1>2 DEF Free

------------------------------------------------------------------------------
(* How often an event is accepted. *)

(* The workers that may still have their event accepted, or have it claimed *)
(* once more if they stop: all but those that know it was.                  *)
Pending(e) == {w \in Workers : Active(w, e) /\ ~(at[w].pc = "posted" /\ at[w].result = "delivered")}

(* Each acceptance, each pending worker and the next claim of the event     *)
(* need an excuse of their own, but one.                                    *)
AcceptInv == \A e \in Events : accepted[e] + Cardinality(Pending(e)) + Free(e) <= 1 + excuses[e]

(* An event that was never emitted may be accepted once. *)
LEMMA InitAccept == Init => AcceptInv
<1>. SUFFICES ASSUME Init, NEW e \in Events PROVE accepted[e] + Cardinality(Pending(e)) + Free(e) <= 1 + excuses[e]
  BY DEF AcceptInv
<1>1. Pending(e) = {}
  BY IdleType DEF Init, Pending, Active
<1>. QED
  BY <1>1, FS_EmptySet, FreeType DEF Init

(* A claim turns the next claim into a pending worker, a post a pending     *)
(* worker into an acceptance; what turns back or comes again is excused.    *)
LEMMA NextAccept == TypeOK /\ AcceptInv /\ [Next]_vars => AcceptInv'
<1>. SUFFICES ASSUME TypeOK, AcceptInv, [Next]_vars, NEW e \in Events
              PROVE  accepted'[e] + Cardinality(Pending(e)') + Free(e)' <= 1 + excuses'[e]
  BY DEF AcceptInv
<1>a. /\ accepted[e] + Cardinality(Pending(e)) + Free(e) <= 1 + excuses[e]
      /\ accepted[e] \in Nat /\ excuses[e] \in Nat
  BY DEF AcceptInv, TypeOK
<1>c. /\ Pending(e) \in SUBSET Workers /\ Cardinality(Pending(e)) \in Nat
      /\ Free(e) \in {0, 1} /\ Free(e)' \in {0, 1}
  <2>1. Pending(e) \in SUBSET Workers
    BY DEF Pending
  <2>. QED
    BY <2>1, Count, FreeType
<1>q. ASSUME at' = at, claims' = claims, accepted' = accepted,
             \/ Free(e)' <= Free(e) /\ excuses'[e] = excuses[e]
             \/ excuses'[e] = excuses[e] + 1
      PROVE  accepted'[e] + Cardinality(Pending(e)') + Free(e)' <= 1 + excuses'[e]
  <2>1. Pending(e)' = Pending(e)
    BY <1>q DEF Pending, Active
  <2>. QED
    BY <1>a, <1>c, <1>q, <2>1
<1>1. ASSUME NEW k \in Events, Emit(k) \/ Prune(k) \/ BecomeDue(k) \/ LapseAbandoned(k)
      PROVE  accepted'[e] + Cardinality(Pending(e)') + Free(e)' <= 1 + excuses'[e]
  <2>1. at' = at /\ claims' = claims /\ accepted' = accepted /\ excuses' = excuses
    BY <1>1 DEF Emit, Prune, BecomeDue, LapseAbandoned
  <2>2. Free(e)' <= Free(e)
    <3>1. CASE event'[e].status = event[e].status /\ event'[e].lease = event[e].lease
      BY <2>1, <3>1, <1>c, FreeSame DEF Active
    <3>2. CASE e = k /\ (Emit(k) \/ Prune(k))
      <4>1. event'[k].lease = event[k].lease /\ Held(k)' = Held(k)
        BY <2>1, <3>2 DEF Emit, Prune, TypeOK, EventRow, Held, Holder
      <4>2. CASE Emit(k)
        BY <3>2, <4>1, <4>2 DEF Emit, Free, TypeOK, EventRow, Settled
      <4>3. CASE Prune(k)
        BY <3>2, <4>1, <4>3 DEF Prune, Free, TypeOK, EventRow, Settled
      <4>. QED
        BY <3>2, <4>2, <4>3
    <3>3. CASE e = k /\ LapseAbandoned(k)
      <4>1. ~Held(k) /\ event'[k].status = event[k].status
        BY <3>3 DEF LapseAbandoned, Held, TypeOK, EventRow
      <4>. QED
        BY <3>3, <4>1, <1>c DEF Free
    <3>. QED
      BY <1>1, <3>1, <3>2, <3>3 DEF Emit, Prune, BecomeDue, LapseAbandoned, TypeOK, EventRow
  <2>. QED
    BY <1>q, <2>1, <2>2
<1>2. ASSUME NEW k \in Events, LapseLate(k)
      PROVE  accepted'[e] + Cardinality(Pending(e)') + Free(e)' <= 1 + excuses'[e]
  <2>1. at' = at /\ claims' = claims /\ accepted' = accepted
    BY <1>2 DEF LapseLate
  <2>2. CASE e = k
    <3>1. excuses'[e] = excuses[e] + 1
      BY <1>2, <2>2 DEF LapseLate, TypeOK
    <3>. QED
      BY <1>q, <2>1, <3>1
  <2>3. CASE e # k
    <3>1. excuses'[e] = excuses[e] /\ event'[e] = event[e]
      BY <1>2, <2>3 DEF LapseLate, TypeOK
    <3>2. Free(e)' = Free(e)
      BY <2>1, <3>1, FreeSame DEF Active
    <3>. QED
      BY <1>q, <1>c, <2>1, <3>1, <3>2
  <2>. QED
    BY <2>2, <2>3
<1>3. ASSUME NEW w \in Workers, NEW k \in Events, Claim(w, k)
      PROVE  accepted'[e] + Cardinality(Pending(e)') + Free(e)' <= 1 + excuses'[e]
  <2>1. /\ at[w].pc = "idle" /\ accepted' = accepted /\ excuses' = excuses
        /\ at'[w].pc = "claimed" /\ at'[w].event = k /\ at'[w].serial = claims[k] + 1
        /\ \A v \in Workers \ {w} : at'[v] = at[v]
        /\ claims'[k] = claims[k] + 1 /\ \A d \in Events \ {k} : claims'[d] = claims[d] /\ event'[d] = event[d]
    BY <1>3 DEF Claim, TypeOK
  <2>2. CASE e = k
    <3>1. Pending(e)' = Pending(e) \cup {w} /\ w \notin Pending(e)
      BY <2>1, <2>2 DEF Pending, Active
    <3>2. Cardinality(Pending(e)') = Cardinality(Pending(e)) + 1
      BY <3>1, <1>c, Count
    <3>3. Free(e) = 1
      BY <1>3, <2>2 DEF Claim, Claimable, Free, Held, Settled
    <3>4. Free(e)' = 0
      <4>1. event'[e].lease = "held" /\ Holder(w, e)'
        BY <1>3, <2>1, <2>2 DEF Claim, Holder, TypeOK, EventRow
      <4>. QED
        BY <4>1 DEF Free, Held
    <3>. QED
      BY <1>a, <1>c, <2>1, <3>2, <3>3, <3>4
  <2>3. CASE e # k
    <3>1. Pending(e)' = Pending(e)
      BY <2>1, <2>3 DEF Pending, Active
    <3>2. Free(e)' = Free(e)
      <4>1. \A v \in Workers : Active(v, e)' = Active(v, e) /\ (Active(v, e) => at'[v].serial = at[v].serial)
        BY <2>1, <2>3 DEF Active
      <4>. QED
        BY <2>1, <2>3, <4>1, FreeSame
    <3>. QED
      BY <1>a, <1>c, <2>1, <3>1, <3>2
  <2>. QED
    BY <2>2, <2>3
<1>4. ASSUME NEW w \in Workers, Post(w)
      PROVE  accepted'[e] + Cardinality(Pending(e)') + Free(e)' <= 1 + excuses'[e]
  <2>1. PICK r \in {"delivered", "error", "no_endpoint"}, taken \in BOOLEAN :
          /\ r = "delivered" => taken
          /\ r = "no_endpoint" => ~taken
          /\ at' = [at EXCEPT ![w].pc = "posted", ![w].result = r]
          /\ accepted' = [accepted EXCEPT ![at[w].event] = @ + IF taken THEN 1 ELSE 0]
          /\ excuses' = IF taken /\ r = "error" THEN [excuses EXCEPT ![at[w].event] = @ + 1] ELSE excuses
    BY <1>4 DEF Post
  <2>2. at[w].pc = "claimed" /\ event' = event /\ claims' = claims /\ at[w].event \in Events
    BY <1>4 DEF Post, TypeOK, Activity
  <2>3. /\ at'[w].pc = "posted" /\ at'[w].result = r /\ at'[w].event = at[w].event /\ at'[w].serial = at[w].serial
        /\ \A v \in Workers \ {w} : at'[v] = at[v]
    BY <2>1 DEF TypeOK, Activity
  <2>4. \A v \in Workers : Active(v, e)' = Active(v, e) /\ (Active(v, e) => at'[v].serial = at[v].serial)
    BY <2>2, <2>3 DEF Active
  <2>5. Free(e)' = Free(e)
    BY <2>2, <2>4, FreeSame
  <2>6. CASE at[w].event # e
    <3>1. Pending(e)' = Pending(e)
      BY <2>2, <2>3, <2>6 DEF Pending, Active
    <3>2. accepted'[e] = accepted[e] /\ excuses'[e] = excuses[e]
      BY <2>1, <2>6 DEF TypeOK
    <3>. QED
      BY <1>a, <1>c, <2>5, <3>1, <3>2
  <2>7. CASE at[w].event = e /\ r = "delivered"
    <3>1. Pending(e)' = Pending(e) \ {w} /\ w \in Pending(e)
      BY <2>2, <2>3, <2>7 DEF Pending, Active
    <3>2. Cardinality(Pending(e)') = Cardinality(Pending(e)) - 1
      BY <3>1, <1>c, Count
    <3>3. accepted'[e] = accepted[e] + 1 /\ excuses'[e] = excuses[e]
      BY <2>1, <2>7 DEF TypeOK
    <3>. QED
      BY <1>a, <1>c, <2>5, <3>2, <3>3
  <2>8. CASE at[w].event = e /\ r # "delivered"
    <3>1. Pending(e)' = Pending(e)
      BY <2>2, <2>3, <2>8 DEF Pending, Active
    <3>2. accepted'[e] - accepted[e] = excuses'[e] - excuses[e] /\ accepted'[e] \in Nat /\ excuses'[e] \in Nat
      BY <2>1, <2>8 DEF TypeOK
    <3>. QED
      BY <1>a, <1>c, <2>5, <3>1, <3>2
  <2>. QED
    BY <2>6, <2>7, <2>8
<1>5. ASSUME NEW w \in Workers, Finish(w) \/ Crash(w)
      PROVE  accepted'[e] + Cardinality(Pending(e)') + Free(e)' <= 1 + excuses'[e]
  <2>1. Ended(w)
    BY <1>5, Endings
  <2>2. /\ claims' = claims /\ accepted' = accepted /\ at'[w].pc = "idle" /\ at[w].pc # "idle"
        /\ \A v \in Workers \ {w} : at'[v] = at[v]
    BY <2>1, IdleType DEF Ended, Applied, Dropped, TypeOK
  <2>3. Pending(e)' = Pending(e) \ {w}
    BY <2>2 DEF Pending, Active
  <2>4. Cardinality(Pending(e)') = IF w \in Pending(e) THEN Cardinality(Pending(e)) - 1 ELSE Cardinality(Pending(e))
    <3>1. Cardinality(Pending(e) \ {w}) = IF w \in Pending(e) THEN Cardinality(Pending(e)) - 1
                                          ELSE Cardinality(Pending(e))
      BY <1>c, Count
    <3>. QED
      BY <2>3, <3>1
  <2>5. CASE at[w].event # e
    <3>1. \A v \in Workers : Active(v, e)' = Active(v, e) /\ (Active(v, e) => at'[v].serial = at[v].serial)
      BY <2>2, <2>5 DEF Active
    <3>2. event'[e] = event[e] /\ excuses'[e] = excuses[e]
      <4>1. e \notin Forgotten(w)
        BY <2>5 DEF Forgotten
      <4>. QED
        BY <2>1, <2>5, <4>1 DEF Ended, Applied, Dropped, TypeOK
    <3>3. Free(e)' = Free(e)
      BY <2>2, <3>1, <3>2, FreeSame
    <3>. QED
      BY <1>a, <1>c, <2>2, <2>4, <3>2, <3>3
  <2>6. CASE at[w].event = e /\ w \in Pending(e)
    <3>1. excuses'[e] >= excuses[e] /\ excuses'[e] \in Nat
      BY <2>1, <1>a DEF Ended, Applied, Dropped
    <3>. QED
      BY <1>a, <1>c, <2>2, <2>4, <2>6, <3>1
  <2>7. CASE at[w].event = e /\ w \notin Pending(e)
    <3>1. at[w].pc = "posted" /\ at[w].result = "delivered"
      BY <2>2, <2>7 DEF Pending, Active
    <3>2. CASE Dropped(w)
      <4>1. excuses'[e] = excuses[e] + 1
        BY <2>7, <3>1, <3>2 DEF Dropped, Forgotten
      <4>. QED
        BY <1>a, <1>c, <2>2, <2>4, <2>7, <4>1
    <3>3. CASE Applied(w)
      <4>1. excuses' = excuses
        BY <3>3 DEF Applied
      <4>2. event'[e].status \in Settled \cup {"pruned"}
        <5>1. Finished(event[e], at[w]).status = "delivered"
          BY <3>1, FinishedRow DEF TypeOK
        <5>. QED
          BY <2>7, <3>3, <5>1 DEF Applied, TypeOK, Settled
      <4>3. Free(e)' = 0
        BY <4>2 DEF Free
      <4>. QED
        BY <1>a, <1>c, <2>2, <2>4, <2>7, <4>1, <4>3
    <3>. QED
      BY <2>1, <3>2, <3>3 DEF Ended
  <2>. QED
    BY <2>5, <2>6, <2>7
<1>6. ASSUME RecoverStaleLeases
      PROVE  accepted'[e] + Cardinality(Pending(e)') + Free(e)' <= 1 + excuses'[e]
  <2>1. at' = at /\ claims' = claims /\ accepted' = accepted /\ excuses' = excuses
    BY <1>6 DEF RecoverStaleLeases
  <2>2. Free(e)' <= Free(e)
    <3>1. CASE Stale(event[e])
      <4>1. Free(e) = 1
        BY <3>1 DEF Stale, Free, Held, Settled
      <4>. QED
        BY <4>1, <1>c
    <3>2. CASE ~Stale(event[e])
      <4>1. event'[e] = event[e]
        BY <1>6, <3>2 DEF RecoverStaleLeases
      <4>. QED
        BY <2>1, <4>1, <1>c, FreeSame DEF Active
    <3>. QED
      BY <3>1, <3>2
  <2>. QED
    BY <1>q, <2>1, <2>2
<1>7. ASSUME Reload \/ UNCHANGED vars
      PROVE  accepted'[e] + Cardinality(Pending(e)') + Free(e)' <= 1 + excuses'[e]
  <2>1. at' = at /\ claims' = claims /\ accepted' = accepted /\ excuses' = excuses /\ event' = event
    BY <1>7 DEF Reload, vars
  <2>. QED
    BY <1>q, <1>c, <2>1, FreeSame DEF Active
<1>. QED
  BY <1>1, <1>2, <1>3, <1>4, <1>5, <1>6, <1>7 DEF Next

(* However late workers and answers are, the endpoint accepts an event once *)
(* and then once for each answer, update or worker lost and each lease that *)
(* lapsed under a worker at work (worker.go, ProcessOne).                   *)
THEOREM AcceptedOnceHolds == Spec => []AcceptedOnce
<1>1. TypeOK /\ AcceptInv => AcceptedOnce
  <2>. SUFFICES ASSUME TypeOK, AcceptInv, NEW e \in Events PROVE accepted[e] <= 1 + excuses[e]
    BY DEF AcceptedOnce
  <2>1. Pending(e) \in SUBSET Workers
    BY DEF Pending
  <2>2. Cardinality(Pending(e)) \in Nat
    BY <2>1, Count
  <2>3. Free(e) \in {0, 1} /\ accepted[e] \in Nat /\ excuses[e] \in Nat
    BY FreeType DEF TypeOK
  <2>4. accepted[e] + Cardinality(Pending(e)) + Free(e) <= 1 + excuses[e]
    BY DEF AcceptInv
  <2>. QED
    BY <2>2, <2>3, <2>4
<1>. QED
  BY <1>1, InitAccept, NextAccept, TypeCorrect, PTL DEF Spec

------------------------------------------------------------------------------
(* How often an event is tried. *)

(* The workers whose reading of the row leaves an attempt after theirs, and *)
(* those who will give the event up.                                        *)
Low(e)  == {w \in Workers : Active(w, e) /\ ~Exhausted(at[w].attempts + 1)}
High(e) == {w \in Workers : Active(w, e) /\ Exhausted(at[w].attempts + 1)}

(* The attempts of the row, counted only from the last one on. *)
Top(e) == IF Exhausted(event[e].attempts + 1) THEN event[e].attempts ELSE MaxAttempts - 1

Lapses(e) == IF e \in overtaken THEN excuses[e] ELSE 0
Bonus(e) == IF Held(e) /\ ~Exhausted(event[e].attempts + 1) THEN 1 ELSE 0

(* Every worker that may add an attempt, and the claim that may follow it,  *)
(* is paid for by MaxAttempts, by a lapsed lease, or by being the holder of *)
(* a row with attempts left.                                                *)
Retry(e) ==
  Top(e) + Free(e) + Cardinality(High(e)) + 2 * Cardinality(Low(e)) <= MaxAttempts + 2 * Lapses(e) + Bonus(e)
RetryInv == \A e \in Events : Retry(e)

(* The parts of the bound are natural numbers. *)
LEMMA RetryType ==
  ASSUME TypeOK, NEW e \in Events
  PROVE  /\ Top(e) \in Nat /\ Free(e) \in {0, 1} /\ Lapses(e) \in Nat /\ Bonus(e) \in {0, 1}
         /\ Low(e) \in SUBSET Workers /\ High(e) \in SUBSET Workers
         /\ Cardinality(Low(e)) \in Nat /\ Cardinality(High(e)) \in Nat
         /\ event[e].attempts \in Nat /\ MaxAttempts \in Nat \ {0}
<1>1. Low(e) \in SUBSET Workers /\ High(e) \in SUBSET Workers
  BY DEF Low, High
<1>2. Cardinality(Low(e)) \in Nat /\ Cardinality(High(e)) \in Nat
  BY <1>1, Count
<1>3. event[e].attempts \in Nat /\ MaxAttempts \in Nat \ {0}
  BY WebhookAssumption DEF TypeOK, EventRow
<1>4. Top(e) \in Nat
  BY <1>3 DEF Top
<1>5. Lapses(e) \in Nat /\ Bonus(e) \in {0, 1}
  BY DEF TypeOK, Lapses, Bonus
<1>. QED
  BY <1>1, <1>2, <1>3, <1>4, <1>5, FreeType

(* An event that was never emitted has all its attempts. *)
LEMMA InitRetry == Init => RetryInv
<1>. SUFFICES ASSUME Init, NEW e \in Events PROVE Retry(e)
  BY DEF RetryInv
<1>0. TypeOK
  BY InitType
<1>1. Low(e) = {} /\ High(e) = {}
  BY IdleType DEF Init, Low, High, Active
<1>2. Cardinality(Low(e)) = 0 /\ Cardinality(High(e)) = 0
  BY <1>1, FS_EmptySet
<1>3. Top(e) = MaxAttempts - 1
  BY WebhookAssumption DEF Init, Top, Exhausted
<1>. QED
  BY <1>0, <1>2, <1>3, RetryType DEF Retry

(* What no step does to an event it is not about, and few do to their own. *)
Untouched(e) ==
  /\ \A v \in Workers : /\ Active(v, e)' = Active(v, e)
                        /\ Active(v, e) => at'[v].serial = at[v].serial /\ at'[v].attempts = at[v].attempts
  /\ claims'[e] = claims[e] /\ event'[e].attempts = event[e].attempts

(* It leaves the counts of its workers alone. *)
LEMMA UntouchedSets ==
  ASSUME TypeOK, TypeOK', NEW e \in Events, Untouched(e)
  PROVE  Low(e)' = Low(e) /\ High(e)' = High(e) /\ Top(e)' = Top(e)
  BY DEF Untouched, Low, High, Top

(* Such a step keeps the bound when it keeps who holds the event and makes  *)
(* no new claim possible.                                                   *)
LEMMA UntouchedRetry ==
  ASSUME TypeOK, TypeOK', NEW e \in Events, Untouched(e), Retry(e),
         Free(e)' <= Free(e), Held(e)' = Held(e), Lapses(e)' >= Lapses(e)
  PROVE  Retry(e)'
<1>1. Low(e)' = Low(e) /\ High(e)' = High(e) /\ Top(e)' = Top(e)
  BY UntouchedSets
<1>2. Bonus(e)' = Bonus(e)
  BY DEF Bonus, Untouched
<1>3. Lapses(e)' \in Nat /\ Free(e)' \in {0, 1}
  BY FreeType DEF TypeOK, Lapses
<1>. QED
  BY <1>1, <1>2, <1>3, RetryType DEF Retry

(* A worker that ends its job pays for the attempt it adds, for the claim   *)
(* that it makes possible, and for the bonus that it ends.                  *)
LEMMA EndRetry ==
  ASSUME TypeOK, TypeOK', HoldInv, NEW w \in Workers, Ended(w), NEW e \in Events, at[w].event = e, Retry(e)
  PROVE  Retry(e)'
<1>1. /\ claims' = claims /\ overtaken' = overtaken /\ at'[w].pc = "idle" /\ at[w].pc # "idle"
      /\ \A v \in Workers \ {w} : at'[v] = at[v]
  BY IdleType DEF Ended, Applied, Dropped, TypeOK
<1>2. Active(w, e) /\ at[w].attempts \in Nat
  BY <1>1 DEF Active, TypeOK, Activity
<1>3. Low(e)' = Low(e) \ {w} /\ High(e)' = High(e) \ {w}
  BY <1>1 DEF Low, High, Active
<1>4. \/ w \in High(e) /\ w \notin Low(e) /\ Exhausted(at[w].attempts + 1)
      \/ w \in Low(e) /\ w \notin High(e) /\ ~Exhausted(at[w].attempts + 1)
  BY <1>2 DEF Low, High
<1>t. /\ Top(e) \in Nat /\ Free(e) \in {0, 1} /\ Lapses(e) \in Nat /\ Bonus(e) \in {0, 1}
      /\ Low(e) \in SUBSET Workers /\ High(e) \in SUBSET Workers
      /\ Cardinality(Low(e)) \in Nat /\ Cardinality(High(e)) \in Nat
      /\ event[e].attempts \in Nat /\ MaxAttempts \in Nat \ {0}
  BY RetryType
<1>5. /\ Cardinality(Low(e) \ {w}) = IF w \in Low(e) THEN Cardinality(Low(e)) - 1 ELSE Cardinality(Low(e))
      /\ Cardinality(High(e) \ {w}) = IF w \in High(e) THEN Cardinality(High(e)) - 1 ELSE Cardinality(High(e))
  BY <1>t, Count
<1>6. /\ w \in High(e) => /\ Cardinality(High(e)') = Cardinality(High(e)) - 1
                          /\ Cardinality(Low(e)') = Cardinality(Low(e))
      /\ w \in Low(e) => /\ Cardinality(High(e)') = Cardinality(High(e))
                         /\ Cardinality(Low(e)') = Cardinality(Low(e)) - 1
  BY <1>3, <1>4, <1>5
<1>7. Top(e)' \in Nat /\ Free(e)' \in {0, 1} /\ Lapses(e)' \in Nat /\ Bonus(e)' \in {0, 1}
  <2>1. event'[e].attempts \in Nat
    BY DEF TypeOK, EventRow
  <2>2. Top(e)' \in Nat
    BY <2>1, <1>t DEF Top
  <2>. QED
    BY <2>2, FreeType DEF Bonus, Lapses, TypeOK
<1>8. Lapses(e)' >= Lapses(e)
  <2>1. excuses'[e] >= excuses[e]
    BY DEF Ended, Applied, Dropped, TypeOK
  <2>. QED
    BY <1>1, <2>1 DEF Lapses, TypeOK
<1>9. CASE event' = event
  <2>1. Top(e)' = Top(e)
    BY <1>9 DEF Top
  <2>2. \A v \in Workers \ {w} : Holder(v, e)' = Holder(v, e)
    BY <1>1 DEF Holder
  <2>3. CASE Held(e)' = Held(e)
    <3>1. Free(e)' = Free(e) /\ Bonus(e)' = Bonus(e)
      BY <1>9, <2>3 DEF Free, Bonus
    <3>. QED
      BY <1>4, <1>6, <1>7, <1>8, <1>t, <2>1, <3>1 DEF Retry
  <2>4. CASE Held(e)' # Held(e)
    <3>1. Holder(w, e) /\ event[e].lease = "held" /\ Held(e) /\ ~Held(e)'
      BY <1>1, <1>9, <2>2, <2>4 DEF Held, Holder
    <3>2. at[w].attempts = event[e].attempts
      BY <1>2, <3>1 DEF HoldInv, WorkerInv
    <3>3. Free(e) = 0 /\ Bonus(e)' = 0
      BY <3>1 DEF Free, Bonus
    <3>4. Bonus(e) = 1 => w \in Low(e)
      BY <1>4, <3>2 DEF Bonus
    <3>. QED
      BY <1>4, <1>6, <1>7, <1>8, <1>t, <2>1, <3>3, <3>4 DEF Retry
  <2>. QED
    BY <2>3, <2>4
<1>10. CASE Applied(w) /\ event' = [event EXCEPT ![e] = Finished(event[e], at[w])]
  <2>1. event'[e] = Finished(event[e], at[w])
    BY <1>10 DEF TypeOK
  <2>2. event[e] \in EventRow /\ at[w] \in Activity
    BY DEF TypeOK
  <2>3. event'[e].lease = "none" /\ Bonus(e)' = 0
    BY <2>1, <2>2, FinishedRow DEF Bonus, Held
  <2>4. CASE at[w].result # "error"
    <3>1. event'[e].status = at[w].result /\ event'[e].attempts = event[e].attempts
      BY <2>1, <2>2, <2>4, FinishedRow
    <3>2. Free(e)' = 0 /\ Top(e)' = Top(e)
      BY <2>2, <2>4, <3>1 DEF Free, Top, Settled, Activity
    <3>. QED
      BY <1>4, <1>6, <1>7, <1>8, <1>t, <2>3, <3>2 DEF Retry
  <2>5. CASE at[w].result = "error"
    <3>1. /\ event'[e].status = IF Exhausted(at[w].attempts + 1) THEN "failed" ELSE "retry"
          /\ event'[e].attempts = event[e].attempts + 1
      BY <2>1, <2>2, <2>5, FinishedRow
    <3>2. Exhausted(event[e].attempts + 1) => Top(e)' = Top(e) + 1 /\ Bonus(e) = 0
      BY <3>1, <1>t DEF Top, Bonus, Exhausted
    <3>3. ~Exhausted(event[e].attempts + 1) => Top(e)' = Top(e)
      BY <3>1, <1>t DEF Top, Exhausted
    <3>4. w \in High(e) => Free(e)' = 0
      BY <1>4, <3>1 DEF Free, Settled
    <3>. QED
      BY <1>4, <1>6, <1>7, <1>8, <1>t, <2>3, <3>2, <3>3, <3>4 DEF Retry
  <2>. QED
    BY <2>4, <2>5
<1>. QED
  BY <1>9, <1>10 DEF Ended, Applied, Dropped

(* A claim turns the claim that was possible into a worker at work. *)
LEMMA ClaimRetry ==
  ASSUME TypeOK, TypeOK', NEW w \in Workers, NEW e \in Events, Claim(w, e), Retry(e)
  PROVE  Retry(e)'
<1>1. /\ at[w].pc = "idle" /\ overtaken' = overtaken /\ excuses' = excuses
      /\ at'[w].pc = "claimed" /\ at'[w].event = e /\ at'[w].serial = claims[e] + 1
      /\ at'[w].attempts = event[e].attempts
      /\ \A v \in Workers \ {w} : at'[v] = at[v]
      /\ claims'[e] = claims[e] + 1
  BY DEF Claim, TypeOK
<1>2. /\ event'[e].attempts = event[e].attempts /\ event'[e].lease = "held"
      /\ event[e].lease # "held" /\ event[e].status \in {"queued", "retry"}
  BY DEF Claim, Claimable, TypeOK, EventRow
<1>3. Held(e)' /\ ~Held(e)
  <2>1. Holder(w, e)'
    BY <1>1 DEF Holder
  <2>. QED
    BY <1>2, <2>1 DEF Held
<1>4. Free(e) = 1 /\ Free(e)' = 0 /\ Bonus(e) = 0
  BY <1>2, <1>3 DEF Free, Settled, Bonus
<1>5. Top(e)' = Top(e) /\ Lapses(e)' = Lapses(e)
  BY <1>1, <1>2 DEF Top, Lapses
<1>t. /\ Top(e) \in Nat /\ Lapses(e) \in Nat
      /\ Low(e) \in SUBSET Workers /\ High(e) \in SUBSET Workers
      /\ Cardinality(Low(e)) \in Nat /\ Cardinality(High(e)) \in Nat
      /\ MaxAttempts \in Nat
  BY RetryType
<1>6. /\ w \notin Low(e) => Cardinality(Low(e) \cup {w}) = Cardinality(Low(e)) + 1
      /\ w \notin High(e) => Cardinality(High(e) \cup {w}) = Cardinality(High(e)) + 1
  BY <1>t, Count
<1>7. w \notin Low(e) /\ w \notin High(e)
  BY <1>1 DEF Low, High, Active
<1>8. CASE Exhausted(event[e].attempts + 1)
  <2>1. Low(e)' = Low(e) /\ High(e)' = High(e) \cup {w}
    BY <1>1, <1>8 DEF Low, High, Active
  <2>2. Bonus(e)' = 0
    BY <1>2, <1>8 DEF Bonus
  <2>3. Cardinality(High(e)') = Cardinality(High(e)) + 1
    BY <1>6, <1>7, <2>1
  <2>. QED
    BY <1>4, <1>5, <1>t, <2>1, <2>2, <2>3 DEF Retry
<1>9. CASE ~Exhausted(event[e].attempts + 1)
  <2>1. Low(e)' = Low(e) \cup {w} /\ High(e)' = High(e)
    BY <1>1, <1>9 DEF Low, High, Active
  <2>2. Bonus(e)' = 1
    BY <1>2, <1>3, <1>9 DEF Bonus
  <2>3. Cardinality(Low(e)') = Cardinality(Low(e)) + 1
    BY <1>6, <1>7, <2>1
  <2>. QED
    BY <1>4, <1>5, <1>t, <2>1, <2>2, <2>3 DEF Retry
<1>. QED
  BY <1>8, <1>9

(* A lease that lapses under a worker at work pays for the claim it makes   *)
(* possible and for the bonus it ends.                                      *)
LEMMA LapseRetry ==
  ASSUME TypeOK, TypeOK', NEW e \in Events, LapseLate(e), Retry(e)
  PROVE  Retry(e)'
<1>1. Untouched(e)
  BY DEF LapseLate, Untouched, Active, TypeOK, EventRow
<1>2. Low(e)' = Low(e) /\ High(e)' = High(e) /\ Top(e)' = Top(e)
  BY <1>1, UntouchedSets
<1>3. Lapses(e)' >= Lapses(e) + 1 /\ Lapses(e)' \in Nat
  BY DEF LapseLate, Lapses, TypeOK
<1>4. Free(e)' \in {0, 1} /\ Bonus(e)' \in {0, 1}
  BY FreeType DEF Bonus
<1>. QED
  BY <1>2, <1>3, <1>4, RetryType DEF Retry

(* The bound is kept by every step of every worker and of the cleanup. *)
LEMMA NextRetry == TypeOK /\ HoldInv /\ RetryInv /\ [Next]_vars => RetryInv'
<1>. SUFFICES ASSUME TypeOK, HoldInv, RetryInv, [Next]_vars, NEW e \in Events PROVE Retry(e)'
  BY DEF RetryInv
<1>a. Retry(e) /\ TypeOK' /\ Free(e) \in {0, 1} /\ Free(e)' \in {0, 1}
  BY NextType, FreeType DEF RetryInv
<1>s. ASSUME Untouched(e), event'[e].status = event[e].status, event'[e].lease = event[e].lease,
             overtaken' = overtaken, excuses'[e] >= excuses[e]
      PROVE  Retry(e)'
  <2>1. Free(e)' = Free(e) /\ Held(e)' = Held(e)
    BY <1>s, FreeSame DEF Untouched
  <2>2. Lapses(e)' >= Lapses(e)
    BY <1>s, <1>a DEF Lapses, TypeOK
  <2>. QED
    BY <1>a, <1>s, <2>1, <2>2, UntouchedRetry
<1>1. ASSUME NEW k \in Events, Emit(k) \/ Prune(k) \/ BecomeDue(k) \/ LapseAbandoned(k) PROVE Retry(e)'
  <2>1. at' = at /\ claims' = claims /\ overtaken' = overtaken /\ excuses' = excuses
    BY <1>1 DEF Emit, Prune, BecomeDue, LapseAbandoned
  <2>2. event'[e].attempts = event[e].attempts
    <3>1. CASE Emit(k)
      BY <3>1 DEF Emit, TypeOK, EventRow
    <3>2. CASE Prune(k)
      BY <3>2 DEF Prune, TypeOK, EventRow
    <3>3. CASE BecomeDue(k)
      BY <3>3 DEF BecomeDue, TypeOK, EventRow
    <3>4. CASE LapseAbandoned(k)
      BY <3>4 DEF LapseAbandoned, TypeOK, EventRow
    <3>. QED
      BY <1>1, <3>1, <3>2, <3>3, <3>4
  <2>3. Untouched(e)
    BY <2>1, <2>2 DEF Untouched, Active
  <2>4. Lapses(e)' >= Lapses(e)
    BY <2>1 DEF Lapses, TypeOK
  <2>5. CASE event'[e].status = event[e].status /\ event'[e].lease = event[e].lease
    BY <1>s, <2>1, <2>3, <2>5 DEF TypeOK
  <2>6. CASE e = k /\ (Emit(k) \/ Prune(k))
    <3>1. Held(k)' = Held(k)
      BY <2>1, <2>6 DEF Emit, Prune, TypeOK, EventRow, Held, Holder
    <3>2. CASE Emit(k)
      <4>1. Free(e)' <= Free(e)
        BY <2>6, <3>1, <3>2 DEF Emit, Free, TypeOK, EventRow, Settled
      <4>. QED
        BY <1>a, <2>3, <2>4, <2>6, <3>1, <4>1, UntouchedRetry
    <3>3. CASE Prune(k)
      <4>1. Free(e)' <= Free(e)
        BY <2>6, <3>1, <3>3 DEF Prune, Free, TypeOK, EventRow, Settled
      <4>. QED
        BY <1>a, <2>3, <2>4, <2>6, <3>1, <4>1, UntouchedRetry
    <3>. QED
      BY <2>6, <3>2, <3>3
  <2>7. CASE e = k /\ LapseAbandoned(k)
    <3>1. ~Held(k) /\ ~Held(k)' /\ event'[k].status = event[k].status
      BY <2>7 DEF LapseAbandoned, Held, TypeOK, EventRow
    <3>2. Free(e)' <= Free(e)
      BY <2>7, <3>1, <1>a DEF Free
    <3>3. Held(e)' = Held(e)
      BY <2>7, <3>1 DEF Held
    <3>. QED
      BY <1>a, <2>3, <2>4, <3>2, <3>3, UntouchedRetry
  <2>. QED
    BY <1>1, <2>5, <2>6, <2>7 DEF Emit, Prune, BecomeDue, LapseAbandoned, TypeOK, EventRow
<1>2. ASSUME NEW k \in Events, LapseLate(k) PROVE Retry(e)'
  <2>1. CASE e = k
    BY <1>2, <1>a, <2>1, LapseRetry
  <2>2. CASE e # k
    <3>1. event'[e] = event[e] /\ excuses'[e] = excuses[e] /\ at' = at /\ claims' = claims
      BY <1>2, <2>2 DEF LapseLate, TypeOK
    <3>2. Untouched(e)
      BY <3>1 DEF Untouched, Active
    <3>3. Free(e)' = Free(e) /\ Held(e)' = Held(e)
      BY <3>1, <3>2, FreeSame DEF Untouched
    <3>4. Lapses(e)' = Lapses(e) /\ Lapses(e) \in Nat
      BY <1>2, <2>2, <3>1 DEF LapseLate, Lapses, TypeOK
    <3>. QED
      BY <1>a, <3>2, <3>3, <3>4, UntouchedRetry
  <2>. QED
    BY <2>1, <2>2
<1>3. ASSUME NEW w \in Workers, NEW k \in Events, Claim(w, k) PROVE Retry(e)'
  <2>1. CASE e = k
    BY <1>3, <1>a, <2>1, ClaimRetry
  <2>2. CASE e # k
    <3>1. /\ at[w].pc = "idle" /\ excuses' = excuses /\ overtaken' = overtaken
          /\ at'[w].event = k /\ \A v \in Workers \ {w} : at'[v] = at[v]
          /\ claims'[e] = claims[e] /\ event'[e] = event[e]
      BY <1>3, <2>2 DEF Claim, TypeOK
    <3>2. Untouched(e)
      BY <2>2, <3>1 DEF Untouched, Active
    <3>. QED
      BY <1>s, <3>1, <3>2 DEF TypeOK
  <2>. QED
    BY <2>1, <2>2
<1>4. ASSUME NEW w \in Workers, Post(w) PROVE Retry(e)'
  <2>1. PICK r \in {"delivered", "error", "no_endpoint"} : at' = [at EXCEPT ![w].pc = "posted", ![w].result = r]
    BY <1>4 DEF Post
  <2>2. at[w].pc = "claimed" /\ event' = event /\ claims' = claims /\ overtaken' = overtaken
    BY <1>4 DEF Post
  <2>3. /\ at'[w].pc = "posted" /\ at'[w].event = at[w].event /\ at'[w].serial = at[w].serial
        /\ at'[w].attempts = at[w].attempts /\ \A v \in Workers \ {w} : at'[v] = at[v]
    BY <2>1 DEF TypeOK, Activity
  <2>4. Untouched(e)
    BY <2>2, <2>3 DEF Untouched, Active
  <2>5. excuses' = [excuses EXCEPT ![at[w].event] = @ + 1] \/ excuses' = excuses
    BY <1>4 DEF Post
  <2>6. excuses'[e] >= excuses[e]
    BY <2>5 DEF TypeOK
  <2>. QED
    BY <1>s, <2>2, <2>4, <2>6
<1>5. ASSUME NEW w \in Workers, Finish(w) \/ Crash(w) PROVE Retry(e)'
  <2>1. Ended(w)
    BY <1>5, Endings
  <2>2. CASE at[w].event = e
    BY <1>a, <2>1, <2>2, EndRetry
  <2>3. CASE at[w].event # e
    <3>1. /\ claims' = claims /\ overtaken' = overtaken /\ at'[w].pc = "idle"
          /\ \A v \in Workers \ {w} : at'[v] = at[v]
      BY <2>1, IdleType DEF Ended, TypeOK
    <3>2. event'[e] = event[e]
      BY <2>1, <2>3 DEF Ended, Applied, Dropped, TypeOK
    <3>3. Untouched(e)
      BY <2>3, <3>1, <3>2 DEF Untouched, Active
    <3>4. excuses'[e] >= excuses[e]
      BY <2>1 DEF Ended, Applied, Dropped, TypeOK
    <3>. QED
      BY <1>s, <3>1, <3>2, <3>3, <3>4
  <2>. QED
    BY <2>2, <2>3
<1>6. ASSUME RecoverStaleLeases PROVE Retry(e)'
  <2>1. at' = at /\ claims' = claims /\ excuses' = excuses /\ overtaken' = overtaken
    BY <1>6 DEF RecoverStaleLeases
  <2>2. CASE Stale(event[e])
    <3>1. event'[e].attempts = event[e].attempts /\ event'[e].lease = "none"
      BY <1>6, <2>2 DEF RecoverStaleLeases, Released, TypeOK, EventRow
    <3>2. Held(e)' = Held(e) /\ Free(e) = 1
      BY <2>2, <3>1 DEF Stale, Free, Held, Settled
    <3>3. Untouched(e)
      BY <2>1, <3>1 DEF Untouched, Active
    <3>4. Lapses(e)' >= Lapses(e)
      BY <2>1 DEF Lapses, TypeOK
    <3>5. Free(e)' <= Free(e)
      BY <1>a, <3>2
    <3>. QED
      BY <1>a, <3>2, <3>3, <3>4, <3>5, UntouchedRetry
  <2>3. CASE ~Stale(event[e])
    <3>1. event'[e] = event[e]
      BY <1>6, <2>3 DEF RecoverStaleLeases
    <3>2. Untouched(e)
      BY <2>1, <3>1 DEF Untouched, Active
    <3>. QED
      BY <1>s, <2>1, <3>1, <3>2 DEF TypeOK
  <2>. QED
    BY <2>2, <2>3
<1>7. ASSUME Reload \/ UNCHANGED vars PROVE Retry(e)'
  <2>1. at' = at /\ claims' = claims /\ overtaken' = overtaken /\ event' = event /\ excuses' = excuses
    BY <1>7 DEF Reload, vars
  <2>2. Untouched(e)
    BY <2>1 DEF Untouched, Active
  <2>. QED
    BY <1>s, <2>1, <2>2 DEF TypeOK
<1>. QED
  BY <1>1, <1>2, <1>3, <1>4, <1>5, <1>6, <1>7 DEF Next

(* An event in the queue has attempts left, but for two for each lease that *)
(* lapsed under a worker at work (worker.go, fail: the attempts are added   *)
(* to the row and judged by what the claim returned).                       *)
THEOREM RetriesBoundedHolds == Spec => []RetriesBounded
<1>1. TypeOK /\ HoldInv /\ RetryInv => RetriesBounded
  <2>. SUFFICES ASSUME TypeOK, HoldInv, RetryInv, NEW e \in Events, event[e].status \in Open
                PROVE  event[e].attempts < MaxAttempts + 2 * Lapses(e)
    BY DEF RetriesBounded, Lapses
  <2>t. /\ Top(e) \in Nat /\ Free(e) \in {0, 1} /\ Lapses(e) \in Nat /\ Bonus(e) \in {0, 1}
        /\ Low(e) \in SUBSET Workers /\ High(e) \in SUBSET Workers
        /\ Cardinality(Low(e)) \in Nat /\ Cardinality(High(e)) \in Nat
        /\ event[e].attempts \in Nat /\ MaxAttempts \in Nat \ {0}
    BY RetryType
  <2>r. Top(e) + Free(e) + Cardinality(High(e)) + 2 * Cardinality(Low(e)) <= MaxAttempts + 2 * Lapses(e) + Bonus(e)
    BY DEF RetryInv, Retry
  <2>1. event[e].attempts <= Top(e)
    BY <2>t DEF Top, Exhausted
  <2>2. CASE ~Held(e)
    <3>1. Free(e) = 1 /\ Bonus(e) = 0
      BY <2>2 DEF Free, Bonus, Open, Settled
    <3>. QED
      BY <2>t, <2>r, <2>1, <3>1
  <2>3. CASE Held(e)
    <3>1. PICK w \in Workers : Holder(w, e) /\ event[e].lease = "held"
      BY <2>3 DEF Held
    <3>2. Active(w, e) /\ at[w].attempts = event[e].attempts
      BY <3>1 DEF Active, Holder, HoldInv, WorkerInv
    <3>3. CASE Exhausted(event[e].attempts + 1)
      <4>1. w \in High(e) /\ Bonus(e) = 0
        BY <3>2, <3>3 DEF High, Bonus
      <4>2. Cardinality(High(e) \ {w}) = Cardinality(High(e)) - 1 /\ Cardinality(High(e) \ {w}) \in Nat
        BY <2>t, <4>1, Count
      <4>. QED
        BY <2>t, <2>r, <2>1, <4>1, <4>2
    <3>4. CASE ~Exhausted(event[e].attempts + 1)
      <4>1. w \in Low(e)
        BY <3>2, <3>4 DEF Low
      <4>2. Cardinality(Low(e) \ {w}) = Cardinality(Low(e)) - 1 /\ Cardinality(Low(e) \ {w}) \in Nat
        BY <2>t, <4>1, Count
      <4>. QED
        BY <2>t, <2>r, <2>1, <4>2
    <3>. QED
      BY <3>3, <3>4
  <2>. QED
    BY <2>2, <2>3
<1>. QED
  BY <1>1, InitRetry, NextRetry, TypeCorrect, HoldInvariant, PTL DEF Spec

==============================================================================
