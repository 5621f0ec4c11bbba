--------------------------- MODULE FailureThrottle ---------------------------
(***************************************************************************)
(* The login throttle (internal/auth/throttle.go) for one client address,  *)
(* as the IMAP and the submission servers use it: every server object      *)
(* (node) keeps an entry in memory and all share a row of auth_lockouts.   *)
(* A login asks Blocked, checks the password and records the outcome; the  *)
(* statements of logins that run at once interleave.                       *)
(*                                                                         *)
(* Times are kept as distances from now: age is the time since             *)
(* windowStart, lock the time to lockedUntil.  A unit is longer than       *)
(* storeTimeout, so a login that records its outcome sees the clock move   *)
(* at most once.                                                           *)
(***************************************************************************)
EXTENDS Integers, FiniteSets

CONSTANTS
  Nodes,
  Logins,       \* connections, on each of which one login runs at a time
  NodeOf,       \* the node that serves each connection
  MaxFailures,
  Window,
  Lockout,      \* outlasts the recording of a failure, so more than a unit
  MaxFaults     \* bound on failed statements and restarts

ASSUME ThrottleAssumption ==
  /\ Logins # {} /\ IsFiniteSet(Logins) /\ NodeOf \in [Logins -> Nodes]
  /\ {MaxFailures, Window} \subseteq Nat \ {0} /\ Lockout \in Nat \ {0, 1}
  /\ MaxFaults \in Nat

VARIABLES
  row,      \* the auth_lockouts row of the address
  entry,    \* entries[address] of each node
  login,    \* the logins under way
  faults,   \* number of failed statements and restarts so far
  tried,    \* history: wrong passwords since the row last began afresh
  cleared,  \* history: a success has removed the row
  missed    \* history: wrong passwords whose recording was cut short or late

vars == <<row, entry, login, faults, tried, cleared, missed>>

(* A lock that is over, or was never set; an age beyond the window. *)
Over == -2
Aged == Window + 2

Entry == [there : BOOLEAN, failures : 0..MaxFailures + 1, age : 0..Aged, lock : Over..Lockout]
None == [there |-> FALSE, failures |-> 0, age |-> 0, lock |-> Over]

(* since: time since now was read; got: the row as it was read. *)
Login == [pc : {"idle", "read", "cache", "verify", "fail", "reset", "bump", "get", "lock", "set",
                "forget", "delete"},
          since : 0..1, got : Entry]
Ready == [pc |-> "idle", since |-> 0, got |-> None]

Init ==
  /\ row = None
  /\ entry = [n \in Nodes |-> None]
  /\ login = [l \in Logins |-> Ready]
  /\ faults = 0
  /\ tried = 0
  /\ cleared = FALSE
  /\ missed = 0

Fault == faults < MaxFaults /\ faults' = faults + 1

Goto(l, pc) == login' = [login EXCEPT ![l].pc = pc]
Done(l) == login' = [login EXCEPT ![l] = Ready]

(* The password was wrong and the row is not locked yet. *)
Wrong(l) == login[l].pc \in {"fail", "reset", "bump", "get", "lock"}

(* The password was wrong and the row does not have it yet. *)
Unrecorded == {l \in Logins : login[l].pc \in {"fail", "reset", "bump"}}

------------------------------------------------------------------------------
(* A definition Name_Fault that precedes Name is Name with a mistake the    *)
(* code could contain; with it in place of Name a property must fail.       *)

Reached_Late(n) == n > MaxFailures
Reached(n) == n >= MaxFailures

(* Blocked. *)

StoreBlocks_Count(r) == r.there /\ Reached(r.failures)
StoreBlocks(r) == r.there /\ r.lock > 0

(* blockedLocally; an entry that is locked refuses the login. *)
Blocked(l) ==
  /\ login[l].pc = "idle"
  /\ ~(entry[NodeOf[l]].there /\ entry[NodeOf[l]].lock > 0)
  /\ Goto(l, "read")
  /\ UNCHANGED <<row, entry, faults, tried, cleared, missed>>

(* The row has the last word; without an answer the login is refused. *)
Read(l) ==
  /\ login[l].pc = "read"
  /\ \/ /\ login' = [login EXCEPT ![l].pc = IF StoreBlocks(row) THEN "cache" ELSE "verify",
                                  ![l].got = IF StoreBlocks(row) THEN row ELSE None]
        /\ UNCHANGED faults
     \/ Fault /\ Done(l)
  /\ UNCHANGED <<row, entry, tried, cleared, missed>>

(* setEntry, after the row was read. *)
SetEntry(l) ==
  /\ login[l].pc \in {"cache", "set"}
  /\ entry' = [entry EXCEPT ![NodeOf[l]] = login[l].got]
  /\ Done(l)
  /\ UNCHANGED <<row, faults, tried, cleared, missed>>

(* The password (external): right or wrong. *)
Verify(l) ==
  /\ login[l].pc = "verify"
  /\ \/ Goto(l, "forget") /\ UNCHANGED tried
     \/ Goto(l, "fail") /\ tried' = tried + 1
  /\ UNCHANGED <<row, entry, faults, cleared, missed>>

------------------------------------------------------------------------------
(* RecordFailure. *)

(* One failure more; beyond MaxFailures the count tells nothing apart. *)
Plus1(n) == IF n <= MaxFailures THEN n + 1 ELSE n

(* The entry in memory; pruneExpired removes only entries that are over. *)
FailLocal(l) ==
  LET n == NodeOf[l]
      e == IF entry[n].there /\ entry[n].age <= Window THEN entry[n]
                                                       ELSE [None EXCEPT !.there = TRUE]
      f == Plus1(e.failures)
  IN /\ login[l].pc = "fail"
     /\ entry' = [entry EXCEPT ![n] = [e EXCEPT !.failures = f,
                                                !.lock = IF Reached(f) THEN Lockout ELSE e.lock]]
     /\ Goto(l, "reset")
     /\ UNCHANGED <<row, faults, tried, cleared, missed>>

(* recordFailureInStore, statement by statement, with the now of FailLocal: *)
(* a row whose window and lock are over begins afresh, ...                  *)
Expired_Locked(l) == row.there /\ row.age - login[l].since > Window
Expired(l) == row.there /\ row.age - login[l].since > Window /\ row.lock + login[l].since < 0

Reset(l) ==
  /\ login[l].pc = "reset"
  /\ IF Expired(l)
     THEN /\ row' = [there |-> TRUE, failures |-> 0, age |-> login[l].since, lock |-> Over]
          /\ tried' = Cardinality(Unrecorded)
     ELSE UNCHANGED <<row, tried>>
  /\ Goto(l, "bump")
  /\ UNCHANGED <<entry, faults, cleared, missed>>

(* ... the failure is counted, or the row created, ... *)
Bump(l) ==
  /\ login[l].pc = "bump"
  /\ row' = IF row.there THEN [row EXCEPT !.failures = Plus1(@)]
            ELSE [there |-> TRUE, failures |-> 1, age |-> login[l].since, lock |-> Over]
  /\ Goto(l, "get")
  /\ UNCHANGED <<entry, faults, tried, cleared, missed>>

(* ... the row is read (a success may have removed it; a lock that ended    *)
(* since now was read counts as set), ...                                   *)
Get(l) ==
  /\ login[l].pc = "get"
  /\ IF row.there
     THEN login' = [login EXCEPT ![l].got = row,
                      ![l].pc = IF Reached(row.failures) /\ row.lock + login[l].since <= 0
                                THEN "lock" ELSE "set"]
     ELSE Done(l)
  /\ missed' = missed + (IF row.there /\ row.lock <= 0 /\ row.lock + login[l].since > 0 THEN 1 ELSE 0)
  /\ UNCHANGED <<row, entry, faults, tried, cleared>>

(* ... and locked. *)
Locked(l) == [row EXCEPT !.lock = Lockout - login[l].since]

Lock(l) ==
  /\ login[l].pc = "lock"
  /\ IF row.there
     THEN row' = Locked(l) /\ login' = [login EXCEPT ![l].got = Locked(l), ![l].pc = "set"]
     ELSE Done(l) /\ UNCHANGED row
  /\ UNCHANGED <<entry, faults, tried, cleared, missed>>

(* A statement fails, or its two seconds are over. *)
StoreFails(l) ==
  /\ login[l].pc \in {"reset", "bump", "get", "lock", "delete"}
  /\ Fault
  /\ Done(l)
  /\ missed' = missed + (IF Wrong(l) THEN 1 ELSE 0)
  /\ UNCHANGED <<row, entry, tried, cleared>>

------------------------------------------------------------------------------
(* RecordSuccess. *)

Forget(l) ==
  /\ login[l].pc = "forget"
  /\ entry' = [entry EXCEPT ![NodeOf[l]] = None]
  /\ Goto(l, "delete")
  /\ UNCHANGED <<row, faults, tried, cleared, missed>>

Delete(l) ==
  /\ login[l].pc = "delete"
  /\ row' = None
  /\ tried' = Cardinality(Unrecorded)
  /\ cleared' = TRUE
  /\ Done(l)
  /\ UNCHANGED <<entry, faults, missed>>

------------------------------------------------------------------------------
Restart(n) ==
  /\ Fault
  /\ entry' = [entry EXCEPT ![n] = None]
  /\ login' = [l \in Logins |-> IF NodeOf[l] = n THEN Ready ELSE login[l]]
  /\ missed' = missed + Cardinality({l \in Logins : NodeOf[l] = n /\ Wrong(l)})
  /\ UNCHANGED <<row, tried, cleared>>

(* cleanupAuthLockouts removes rows whose window began a day ago; a lock    *)
(* that was set in it is over by then.                                      *)
CleanupAuthLockouts ==
  /\ row.there /\ row.age = Aged /\ row.lock = Over
  /\ row' = None
  /\ tried' = Cardinality(Unrecorded)
  /\ UNCHANGED <<entry, login, faults, cleared, missed>>

Later(e) ==
  IF ~e.there THEN e
  ELSE [e EXCEPT !.age = IF @ < Aged THEN @ + 1 ELSE @, !.lock = IF @ > Over THEN @ - 1 ELSE @]

Recording(l) == login[l].pc \in {"reset", "bump", "get", "lock", "set"}

(* The end of a lockout begins a new count of guesses. *)
Tick ==
  /\ \A l \in Logins : login[l].since = 0
  /\ row' = Later(row)
  /\ entry' = [n \in Nodes |-> Later(entry[n])]
  /\ login' = [l \in Logins |-> [login[l] EXCEPT !.got = Later(login[l].got),
                                                 !.since = IF Recording(l) THEN 1 ELSE 0]]
  /\ IF row.there /\ row.lock = 1 THEN tried' = Cardinality(Unrecorded) /\ missed' = 0
                                   ELSE UNCHANGED <<tried, missed>>
  /\ UNCHANGED <<faults, cleared>>

Step(l) ==
  \/ Read(l) \/ SetEntry(l) \/ Verify(l) \/ FailLocal(l) \/ Reset(l) \/ Bump(l) \/ Get(l) \/ Lock(l)
  \/ StoreFails(l) \/ Forget(l) \/ Delete(l)

Next ==
  \/ \E l \in Logins : Step(l) \/ Blocked(l)
  \/ \E n \in Nodes : Restart(n)
  \/ CleanupAuthLockouts
  \/ Tick

Spec == Init /\ [][Next]_vars

(* Time passes and a login that has begun goes on (its statements have a    *)
(* deadline).                                                               *)
FairSpec == Spec /\ WF_vars(Tick) /\ \A l \in Logins : WF_vars(Step(l))

------------------------------------------------------------------------------
(* Properties. *)

(* The row, the entries and the logins have their shape. *)
TypeOK ==
  /\ row \in Entry /\ entry \in [Nodes -> Entry] /\ login \in [Logins -> Login]
  /\ faults \in Nat /\ tried \in Nat /\ missed \in Nat /\ cleared \in BOOLEAN

(* However many nodes a client spreads its logins over: between two         *)
(* lockouts it gets no more wrong guesses than MaxFailures - 1, one for     *)
(* each login that was under way when the lock was set, and one for each    *)
(* whose recording was cut short by an error or a restart, or overlapped    *)
(* the end of the lockout before.                                           *)
GuessesBounded == tried <= MaxFailures - 1 + Cardinality(Logins) + missed

(* A node that refuses an address from memory does so because the row is    *)
(* locked for as long (but for the seconds by which a second login that     *)
(* locks it may set the lock back); the exceptions are a login that is      *)
(* still recording, failures of the database, and a row that a success has  *)
(* removed: other nodes keep their lock.                                    *)
LockBacked ==
  \A n \in Nodes :
    \/ entry[n].lock <= 0
    \/ row.lock + 1 >= entry[n].lock
    \/ cleared \/ faults > 0
    \/ \E l \in Logins : NodeOf[l] = n /\ Recording(l)

(* A lockout ends, in the row and in memory, whatever is tried meanwhile.   *)
LockoutEnds == []<>~StoreBlocks(row) /\ \A n \in Nodes : []<>(entry[n].lock <= 0)

==============================================================================
