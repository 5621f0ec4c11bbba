---------------------------- MODULE DeliveryQueue ----------------------------
(***************************************************************************)
(* What a queue of deliveries promises to those who submit: a job is open  *)
(* until it is sent or has failed, and that for good; a failure is told    *)
(* at most once, by whoever settled the job, or not at all (when the       *)
(* teller stops before it has).  How the jobs are shared out to workers,   *)
(* leased, retried and recovered is not visible here.                      *)
(***************************************************************************)
EXTENDS Naturals

CONSTANT Jobs

VARIABLES
  state,  \* where a job is
  owed,   \* its failure is about to be told
  told    \* how often it has been

vars == <<state, owed, told>>

States == {"absent", "open", "sent", "failed", "gone"}

Init ==
  /\ state = [j \in Jobs |-> "absent"]
  /\ owed = [j \in Jobs |-> FALSE]
  /\ told = [j \in Jobs |-> 0]

Enqueue(j) ==
  /\ state[j] = "absent"
  /\ state' = [state EXCEPT ![j] = "open"]
  /\ UNCHANGED <<owed, told>>

Send(j) ==
  /\ state[j] = "open"
  /\ state' = [state EXCEPT ![j] = "sent"]
  /\ UNCHANGED <<owed, told>>

GiveUp(j) ==
  /\ state[j] = "open"
  /\ state' = [state EXCEPT ![j] = "failed"]
  /\ owed' = [owed EXCEPT ![j] = TRUE]
  /\ UNCHANGED told

Tell(j) ==
  /\ owed[j]
  /\ owed' = [owed EXCEPT ![j] = FALSE]
  /\ told' = [told EXCEPT ![j] = @ + 1]
  /\ UNCHANGED state

Forget(S) ==
  /\ owed' = [j \in Jobs |-> owed[j] /\ j \notin S]
  /\ UNCHANGED <<state, told>>

Remove(j) ==
  /\ state[j] \in {"sent", "failed"}
  /\ state' = [state EXCEPT ![j] = "gone"]
  /\ UNCHANGED <<owed, told>>

Next ==
  \/ \E j \in Jobs : Enqueue(j) \/ Send(j) \/ GiveUp(j) \/ Tell(j) \/ Remove(j)
  \/ \E S \in SUBSET Jobs : Forget(S)

Spec == Init /\ [][Next]_vars

(* An open job is settled in the end. *)
FairSpec == Spec /\ \A j \in Jobs : WF_vars(Send(j) \/ GiveUp(j))

==============================================================================
