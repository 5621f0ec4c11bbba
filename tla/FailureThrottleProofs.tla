------------------------ MODULE FailureThrottleProofs ------------------------
(***************************************************************************)
(* What FailureThrottle promises for any number of nodes and connections,  *)
(* any limits, and any number of failed statements and restarts.           *)
(***************************************************************************)
EXTENDS FailureThrottle, FiniteSetTheorems, TLAPS

(* The constants, one by one. *)
LEMMA Constants ==
  /\ MaxFailures \in Nat /\ MaxFailures >= 1 /\ Window \in Nat /\ Window >= 1
  /\ Lockout \in Nat /\ Lockout >= 2 /\ Over = -2 /\ Aged = Window + 2
  BY ThrottleAssumption DEF Over, Aged

(* No entry and no login are well formed. *)
LEMMA Blank ==
  /\ None \in Entry /\ None.there = FALSE /\ None.failures = 0 /\ None.lock = Over
  /\ Ready \in Login /\ Ready.pc = "idle" /\ Ready.since = 0 /\ Ready.got = None
<1>1. 0 \in 0..MaxFailures + 1 /\ 0 \in 0..Aged /\ Over \in Over..Lockout /\ 0 \in 0..1
  BY Constants
<1>2. None \in Entry /\ None.there = FALSE /\ None.failures = 0 /\ None.lock = Over
  BY <1>1 DEF None, Entry
<1>. QED
  BY <1>1, <1>2 DEF Ready, Login

(* The fields of an entry. *)
LEMMA EntryFields ==
  ASSUME NEW e \in Entry
  PROVE  /\ e.there \in BOOLEAN /\ e.failures \in Nat /\ e.failures <= MaxFailures + 1
         /\ e.age \in Nat /\ e.age <= Aged
         /\ e.lock \in Int /\ Over <= e.lock /\ e.lock <= Lockout
  BY Constants DEF Entry

(* One failure more is within bounds. *)
LEMMA Plus1Type ==
  ASSUME NEW n \in Nat, n <= MaxFailures + 1
  PROVE  /\ Plus1(n) \in 0..MaxFailures + 1
         /\ n <= MaxFailures => Plus1(n) = n + 1
         /\ n > MaxFailures => Plus1(n) = n
  BY Constants DEF Plus1

(* The passing of time, for a row or an entry. *)
LEMMA LaterIs ==
  ASSUME NEW e \in Entry
  PROVE  /\ Later(e) \in Entry /\ Later(e).there = e.there /\ Later(e).failures = e.failures
         /\ ~e.there => Later(e) = e
         /\ e.there => /\ Later(e).lock = IF e.lock > Over THEN e.lock - 1 ELSE e.lock
                       /\ Later(e).age = IF e.age < Aged THEN e.age + 1 ELSE e.age
<1>1. CASE ~e.there
  BY <1>1 DEF Later
<1>2. CASE e.there
  <2>1. PICK a, k : /\ a = IF e.age < Aged THEN e.age + 1 ELSE e.age
                    /\ k = IF e.lock > Over THEN e.lock - 1 ELSE e.lock
    OBVIOUS
  <2>2. Later(e) = [e EXCEPT !.age = a, !.lock = k]
    BY <1>2, <2>1 DEF Later
  <2>3. a \in 0..Aged /\ k \in Over..Lockout
    BY <2>1, Constants, EntryFields
  <2>. QED
    BY <1>2, <2>1, <2>2, <2>3 DEF Entry
<1>. QED
  BY <1>1, <1>2, EntryFields

------------------------------------------------------------------------------
(* What a step of a login does to the logins. *)

Pcs == {"idle", "read", "cache", "verify", "fail", "reset", "bump", "get", "lock", "set", "forget", "delete"}

Others(l) == \A k \in Logins \ {l} : login'[k] = login[k]

(* It goes on, ... *)
LEMMA GotoIs ==
  ASSUME TypeOK, NEW l \in Logins, NEW pc \in Pcs, Goto(l, pc)
  PROVE  /\ login' \in [Logins -> Login] /\ Others(l)
         /\ login'[l].pc = pc /\ login'[l].since = login[l].since /\ login'[l].got = login[l].got
<1>a. login \in [Logins -> Login] /\ login[l] \in Login
  BY DEF TypeOK
<1>1. login'[l] = [login[l] EXCEPT !.pc = pc] /\ Others(l)
  BY <1>a DEF Goto, Others
<1>2. /\ login'[l] \in Login /\ login'[l].pc = pc /\ login'[l].since = login[l].since
      /\ login'[l].got = login[l].got
  BY <1>a, <1>1 DEF Login, Pcs
<1>. QED
  BY <1>a, <1>1, <1>2 DEF Goto

(* ... goes on with a row it has read, ... *)
GotoWith(l, pc, e) == login' = [login EXCEPT ![l].pc = pc, ![l].got = e]

(* ... which it keeps, ... *)
LEMMA GotoWithIs ==
  ASSUME TypeOK, NEW l \in Logins, NEW pc \in Pcs, NEW e \in Entry, GotoWith(l, pc, e)
  PROVE  /\ login' \in [Logins -> Login] /\ Others(l)
         /\ login'[l].pc = pc /\ login'[l].since = login[l].since /\ login'[l].got = e
<1>a. login \in [Logins -> Login] /\ login[l] \in Login
  BY DEF TypeOK
<1>1. login'[l] = [login[l] EXCEPT !.pc = pc, !.got = e] /\ Others(l)
  BY <1>a DEF GotoWith, Others
<1>2. login'[l] \in Login /\ login'[l].pc = pc /\ login'[l].since = login[l].since /\ login'[l].got = e
  BY <1>a, <1>1 DEF Login, Pcs
<1>. QED
  BY <1>a, <1>1, <1>2 DEF GotoWith

(* ... or ends. *)
LEMMA DoneIs ==
  ASSUME TypeOK, NEW l \in Logins, Done(l)
  PROVE  login' \in [Logins -> Login] /\ Others(l) /\ login'[l] = Ready
<1>a. login \in [Logins -> Login]
  BY DEF TypeOK
<1>. QED
  BY <1>a, Blank DEF Done, Others

(* What the statements do to the row: begin it afresh, count, lock. *)
LEMMA FreshRow ==
  ASSUME NEW f \in 0..1, NEW s \in 0..1, NEW e, e = [there |-> TRUE, failures |-> f, age |-> s, lock |-> Over]
  PROVE  e \in Entry /\ e.there = TRUE /\ e.failures = f /\ e.age = s /\ e.lock = Over
<1>1. f \in 0..MaxFailures + 1 /\ s \in 0..Aged /\ Over \in Over..Lockout
  BY Constants
<1>. QED
  BY <1>1 DEF Entry

(* Bump. *)
LEMMA BumpIs ==
  ASSUME TypeOK, NEW l \in Logins, Bump(l)
  PROVE  /\ row' \in Entry /\ row'.there = TRUE
         /\ row.there => /\ row'.failures = Plus1(row.failures) /\ row'.age = row.age /\ row'.lock = row.lock
         /\ ~row.there => row'.failures = 1 /\ row'.age = login[l].since /\ row'.lock = Over
         /\ login[l].pc = "bump" /\ Goto(l, "get")
         /\ UNCHANGED <<entry, faults, tried, cleared, missed>>
<1>a. row \in Entry /\ login[l].since \in 0..1
  BY DEF TypeOK, Login
<1>1. CASE row.there
  <2>1. row' = [row EXCEPT !.failures = Plus1(row.failures)]
    BY <1>1 DEF Bump
  <2>2. Plus1(row.failures) \in 0..MaxFailures + 1
    BY <1>a, EntryFields, Plus1Type
  <2>3. /\ row' \in Entry /\ row'.there = row.there /\ row'.failures = Plus1(row.failures)
        /\ row'.age = row.age /\ row'.lock = row.lock
    BY <1>a, <2>1, <2>2 DEF Entry
  <2>. QED
    BY <1>1, <1>a, <2>3, EntryFields DEF Bump
<1>2. CASE ~row.there
  <2>1. row' = [there |-> TRUE, failures |-> 1, age |-> login[l].since, lock |-> Over]
    BY <1>2 DEF Bump
  <2>2. /\ row' \in Entry /\ row'.there = TRUE /\ row'.failures = 1 /\ row'.age = login[l].since
        /\ row'.lock = Over
    <3>1. 1 \in 0..1
      OBVIOUS
    <3>. QED
      BY <1>a, <2>1, <3>1, FreshRow
  <2>. QED
    BY <1>2, <2>2 DEF Bump
<1>. QED
  BY <1>1, <1>2

(* Lock. *)
LEMMA LockIs ==
  ASSUME TypeOK, NEW l \in Logins
  PROVE  /\ Locked(l) \in Entry /\ Locked(l).there = row.there /\ Locked(l).failures = row.failures
         /\ Locked(l).age = row.age /\ Locked(l).lock = Lockout - login[l].since
         /\ Locked(l).lock > 0 /\ Locked(l).lock >= Lockout - 1
<1>a. row \in Entry /\ login[l].since \in 0..1
  BY DEF TypeOK, Login
<1>1. Lockout - login[l].since \in Over..Lockout /\ Lockout - login[l].since >= 1
      /\ Lockout - login[l].since >= Lockout - 1
  BY <1>a, Constants
<1>2. Locked(l) = [row EXCEPT !.lock = Lockout - login[l].since]
  BY DEF Locked
<1>3. /\ Locked(l) \in Entry /\ Locked(l).there = row.there /\ Locked(l).failures = row.failures
      /\ Locked(l).age = row.age /\ Locked(l).lock = Lockout - login[l].since
  BY <1>a, <1>1, <1>2 DEF Entry
<1>. QED
  BY <1>1, <1>3

(* Reset: the row begins afresh, or it does not and need not. *)
LEMMA ResetIs ==
  ASSUME TypeOK, NEW l \in Logins, Reset(l)
  PROVE  /\ login[l].pc = "reset" /\ Goto(l, "bump") /\ UNCHANGED <<entry, faults, cleared, missed>>
         /\ \/ /\ Expired(l) /\ row' \in Entry /\ row'.there = TRUE /\ row'.failures = 0
               /\ row'.age = login[l].since /\ row'.lock = Over /\ tried' = Cardinality(Unrecorded)
            \/ ~Expired(l) /\ row' = row /\ tried' = tried
<1>1. CASE Expired(l)
  <2>1. row' = [there |-> TRUE, failures |-> 0, age |-> login[l].since, lock |-> Over]
    BY <1>1 DEF Reset
  <2>2. 0 \in 0..1 /\ login[l].since \in 0..1
    BY DEF TypeOK, Login
  <2>3. row' \in Entry /\ row'.there = TRUE /\ row'.failures = 0 /\ row'.age = login[l].since /\ row'.lock = Over
    BY <2>1, <2>2, FreshRow
  <2>. QED
    BY <1>1, <2>3 DEF Reset
<1>. QED
  BY <1>1 DEF Reset

(* The entry in memory after a failure. *)
LEMMA FailLocalIs ==
  ASSUME TypeOK, NEW l \in Logins, FailLocal(l)
  PROVE  /\ entry' \in [Nodes -> Entry] /\ entry'[NodeOf[l]].there = TRUE
         /\ \A n \in Nodes \ {NodeOf[l]} : entry'[n] = entry[n]
         /\ login[l].pc = "fail" /\ Goto(l, "reset") /\ UNCHANGED <<row, faults, tried, cleared, missed>>
<1>. DEFINE n == NodeOf[l]
            e == IF entry[n].there /\ entry[n].age <= Window THEN entry[n] ELSE [None EXCEPT !.there = TRUE]
            f == Plus1(e.failures)
<1>a. entry \in [Nodes -> Entry] /\ n \in Nodes
  BY ThrottleAssumption DEF TypeOK
<1>1. e \in Entry /\ e.there = TRUE
  <2>1. CASE entry[n].there /\ entry[n].age <= Window
    BY <1>a, <2>1, EntryFields
  <2>2. CASE ~(entry[n].there /\ entry[n].age <= Window)
    <3>1. e = [None EXCEPT !.there = TRUE]
      BY <2>2
    <3>. QED
      BY <3>1, Blank DEF Entry
  <2>. QED
    BY <2>1, <2>2
<1>2. f \in 0..MaxFailures + 1
  BY <1>1, EntryFields, Plus1Type
<1>3. PICK k : k = IF Reached(f) THEN Lockout ELSE e.lock
  OBVIOUS
<1>4. k \in Over..Lockout
  <2>. HIDE DEF e, f
  <2>1. e.lock \in Over..Lockout /\ Lockout \in Over..Lockout
    BY <1>1, Constants DEF Entry
  <2>. QED
    BY <1>3, <2>1
<1>5. entry' = [entry EXCEPT ![n] = [e EXCEPT !.failures = f, !.lock = k]]
  BY <1>3 DEF FailLocal
<1>6. [e EXCEPT !.failures = f, !.lock = k] \in Entry /\ [e EXCEPT !.failures = f, !.lock = k].there = TRUE
  <2>. HIDE DEF e, f
  <2>. QED
    BY <1>1, <1>2, <1>4 DEF Entry
<1>. HIDE DEF e, f
<1>. QED
  BY <1>a, <1>5, <1>6 DEF FailLocal

(* A tick, for every login. *)
LEMMA TickIs ==
  ASSUME TypeOK, Tick
  PROVE  /\ row' = Later(row) /\ row' \in Entry
         /\ entry' \in [Nodes -> Entry] /\ \A n \in Nodes : entry'[n] = Later(entry[n])
         /\ login' \in [Logins -> Login]
         /\ \A l \in Logins : /\ login[l].since = 0 /\ login'[l].pc = login[l].pc /\ login'[l].got = Later(login[l].got)
                              /\ login'[l].since = IF Recording(l) THEN 1 ELSE 0
<1>1. row' = Later(row) /\ row' \in Entry
  BY LaterIs DEF Tick, TypeOK
<1>2. entry' \in [Nodes -> Entry] /\ \A n \in Nodes : entry'[n] = Later(entry[n])
  BY LaterIs DEF Tick, TypeOK
<1>3. ASSUME NEW l \in Logins
      PROVE  /\ login'[l] \in Login /\ login'[l].pc = login[l].pc /\ login'[l].got = Later(login[l].got)
             /\ login'[l].since = IF Recording(l) THEN 1 ELSE 0
  <2>1. PICK s \in 0..1 : s = IF Recording(l) THEN 1 ELSE 0
    OBVIOUS
  <2>2. login'[l] = [login[l] EXCEPT !.got = Later(login[l].got), !.since = s]
    BY <2>1 DEF Tick
  <2>3. login[l] \in Login /\ Later(login[l].got) \in Entry
    BY LaterIs DEF TypeOK, Login
  <2>. QED
    BY <2>1, <2>2, <2>3 DEF Login
<1>4. login' \in [Logins -> Login]
  BY <1>3 DEF Tick
<1>. QED
  BY <1>1, <1>2, <1>3, <1>4 DEF Tick

(* A restart, for every login. *)
LEMMA RestartIs ==
  ASSUME TypeOK, NEW n \in Nodes, Restart(n)
  PROVE  /\ login' \in [Logins -> Login] /\ entry' \in [Nodes -> Entry] /\ entry'[n] = None
         /\ \A m \in Nodes \ {n} : entry'[m] = entry[m]
         /\ \A l \in Logins : login'[l] = IF NodeOf[l] = n THEN Ready ELSE login[l]
  BY Blank DEF Restart, TypeOK

------------------------------------------------------------------------------
(* Types, and what is blank. *)

(* What is not there is blank, and the clock moves only for those who       *)
(* record.                                                                  *)
Shaped(e) == ~e.there => e = None

ShapeInv ==
  /\ Shaped(row)
  /\ \A n \in Nodes : Shaped(entry[n])
  /\ \A l \in Logins : Shaped(login[l].got)

(* The size of a set of logins is a number. *)
LEMMA Count ==
  ASSUME NEW S \in SUBSET Logins, NEW l
  PROVE  /\ Cardinality(S) \in Nat /\ Cardinality(S) <= Cardinality(Logins) /\ Cardinality(Logins) \in Nat
         /\ Cardinality(S \ {l}) = IF l \in S THEN Cardinality(S) - 1 ELSE Cardinality(S)
         /\ Cardinality(S \cup {l}) = IF l \in S THEN Cardinality(S) ELSE Cardinality(S) + 1
<1>1. IsFiniteSet(S) /\ Cardinality(S) <= Cardinality(Logins)
  BY ThrottleAssumption, FS_Subset
<1>2. IsFiniteSet(Logins)
  BY ThrottleAssumption
<1>. QED
  BY <1>1, <1>2, FS_CardinalityType, FS_AddElement, FS_RemoveElement

(* Whoever steps, everything stays well formed. *)
LEMMA NextType == TypeOK /\ ShapeInv /\ [Next]_vars => TypeOK' /\ ShapeInv'
<1>. SUFFICES ASSUME TypeOK, ShapeInv, [Next]_vars PROVE TypeOK' /\ ShapeInv'
  OBVIOUS
<1>a. /\ row \in Entry /\ entry \in [Nodes -> Entry] /\ login \in [Logins -> Login]
      /\ faults \in Nat /\ tried \in Nat /\ missed \in Nat /\ cleared \in BOOLEAN
      /\ \A l \in Logins : login[l].got \in Entry /\ login[l].since \in 0..1
  BY DEF TypeOK, Login
<1>n. \A l \in Logins : NodeOf[l] \in Nodes
  BY ThrottleAssumption
<1>s. Shaped(row) /\ (\A n \in Nodes : Shaped(entry[n])) /\ (\A l \in Logins : Shaped(login[l].got)) /\ Shaped(None)
  BY DEF ShapeInv, Shaped
<1>c. Unrecorded \in SUBSET Logins /\ Cardinality(Unrecorded) \in Nat
  <2>1. Unrecorded \in SUBSET Logins
    BY DEF Unrecorded
  <2>. QED
    BY <2>1, Count
<1>o. ASSUME NEW l \in Logins, Others(l), login' \in [Logins -> Login], Shaped(login'[l].got),
             row' \in Entry, Shaped(row'), entry' \in [Nodes -> Entry], \A n \in Nodes : Shaped(entry'[n]),
             faults' \in Nat, tried' \in Nat, missed' \in Nat, cleared' \in BOOLEAN
      PROVE  TypeOK' /\ ShapeInv'
  <2>1. \A k \in Logins : Shaped(login'[k].got)
    BY <1>s, <1>o DEF Others
  <2>. QED
    BY <1>o, <2>1 DEF TypeOK, ShapeInv, Shaped
<1>1. ASSUME NEW l \in Logins, Blocked(l) \/ Verify(l) \/ FailLocal(l) \/ Reset(l) \/ Bump(l) \/ Forget(l)
      PROVE  TypeOK' /\ ShapeInv'
  <2>1. PICK pc \in Pcs : Goto(l, pc)
    BY <1>1 DEF Blocked, Verify, FailLocal, Reset, Bump, Forget, Pcs
  <2>2. login' \in [Logins -> Login] /\ Others(l) /\ login'[l].got = login[l].got
    BY <2>1, GotoIs
  <2>3. faults' \in Nat /\ tried' \in Nat /\ missed' \in Nat /\ cleared' \in BOOLEAN
    BY <1>1, <1>a, <1>c DEF Blocked, Verify, FailLocal, Reset, Bump, Forget
  <2>4. row' \in Entry /\ Shaped(row')
    <3>1. CASE Reset(l)
      BY <1>a, <1>s, <3>1, ResetIs DEF Shaped
    <3>2. CASE Bump(l)
      BY <3>2, BumpIs DEF Shaped
    <3>3. CASE row' = row
      BY <1>a, <1>s, <3>3
    <3>. QED
      BY <1>1, <3>1, <3>2, <3>3 DEF Blocked, Verify, FailLocal, Forget
  <2>5. entry' \in [Nodes -> Entry] /\ \A n \in Nodes : Shaped(entry'[n])
    <3>1. CASE FailLocal(l)
      BY <1>s, <3>1, FailLocalIs DEF Shaped
    <3>2. CASE Forget(l)
      BY <1>a, <1>n, <1>s, <3>2, Blank DEF Forget
    <3>3. CASE entry' = entry
      BY <1>a, <1>s, <3>3
    <3>. QED
      BY <1>1, <3>1, <3>2, <3>3 DEF Blocked, Verify, Reset, Bump
  <2>. QED
    BY <1>o, <1>s, <2>2, <2>3, <2>4, <2>5
<1>2. ASSUME NEW l \in Logins, Read(l) PROVE TypeOK' /\ ShapeInv'
  <2>1. UNCHANGED <<row, entry, tried, cleared, missed>> /\ faults' \in Nat
    BY <1>2, <1>a DEF Read, Fault
  <2>2. CASE Done(l)
    BY <1>a, <1>o, <1>s, <2>1, <2>2, DoneIs, Blank
  <2>3. ASSUME NEW pc \in Pcs, NEW e \in {row, None}, GotoWith(l, pc, e) PROVE TypeOK' /\ ShapeInv'
    <3>1. e \in Entry /\ Shaped(e)
      BY <1>a, <1>s, Blank
    <3>2. login' \in [Logins -> Login] /\ Others(l) /\ login'[l].got = e
      BY <2>3, <3>1, GotoWithIs
    <3>. QED
      BY <1>a, <1>o, <1>s, <2>1, <3>1, <3>2
  <2>4. \/ Done(l)
        \/ \E pc \in Pcs, e \in {row, None} : GotoWith(l, pc, e)
    BY <1>2 DEF Read, GotoWith, Pcs
  <2>. QED
    BY <2>2, <2>3, <2>4
<1>3. ASSUME NEW l \in Logins, SetEntry(l) PROVE TypeOK' /\ ShapeInv'
  <2>1. UNCHANGED <<row, faults, tried, cleared, missed>> /\ Done(l)
    BY <1>3 DEF SetEntry
  <2>2. entry' = [entry EXCEPT ![NodeOf[l]] = login[l].got]
    BY <1>3 DEF SetEntry
  <2>3. entry' \in [Nodes -> Entry] /\ \A n \in Nodes : Shaped(entry'[n])
    BY <1>a, <1>n, <1>s, <2>2
  <2>. QED
    BY <1>a, <1>o, <1>s, <2>1, <2>3, DoneIs, Blank
<1>4. ASSUME NEW l \in Logins, Get(l) PROVE TypeOK' /\ ShapeInv'
  <2>1. UNCHANGED <<row, entry, faults, tried, cleared>> /\ missed' \in Nat
    BY <1>4, <1>a DEF Get
  <2>2. CASE Done(l)
    BY <1>a, <1>o, <1>s, <2>1, <2>2, DoneIs, Blank
  <2>3. ASSUME NEW pc \in Pcs, GotoWith(l, pc, row) PROVE TypeOK' /\ ShapeInv'
    <3>1. login' \in [Logins -> Login] /\ Others(l) /\ login'[l].got = row
      BY <1>a, <2>3, GotoWithIs
    <3>. QED
      BY <1>a, <1>o, <1>s, <2>1, <3>1
  <2>4. Done(l) \/ \E pc \in Pcs : GotoWith(l, pc, row)
    <3>1. CASE row.there
      <4>1. PICK pc \in Pcs : pc = IF Reached(row.failures) /\ row.lock + login[l].since <= 0 THEN "lock" ELSE "set"
        BY DEF Pcs
      <4>2. login' = [login EXCEPT ![l].got = row, ![l].pc = pc]
        BY <1>4, <3>1, <4>1 DEF Get
      <4>3. GotoWith(l, pc, row)
        BY <1>a, <4>2 DEF GotoWith, Login
      <4>. QED
        BY <4>3
    <3>. QED
      BY <1>4, <3>1 DEF Get
  <2>. QED
    BY <2>2, <2>3, <2>4
<1>5. ASSUME NEW l \in Logins, Lock(l) PROVE TypeOK' /\ ShapeInv'
  <2>1. UNCHANGED <<entry, faults, tried, cleared, missed>>
    BY <1>5 DEF Lock
  <2>2. CASE Done(l) /\ row' = row
    BY <1>a, <1>o, <1>s, <2>1, <2>2, DoneIs, Blank
  <2>3. CASE row.there /\ row' = Locked(l) /\ login' = [login EXCEPT ![l].got = Locked(l), ![l].pc = "set"]
    <3>1. Locked(l) \in Entry /\ Shaped(Locked(l))
      BY <2>3, LockIs DEF Shaped
    <3>2. "set" \in Pcs /\ GotoWith(l, "set", Locked(l))
      BY <1>a, <2>3 DEF GotoWith, Login, Pcs
    <3>3. login' \in [Logins -> Login] /\ Others(l) /\ login'[l].got = Locked(l)
      BY <3>1, <3>2, GotoWithIs
    <3>. QED
      BY <1>a, <1>o, <1>s, <2>1, <2>3, <3>1, <3>3
  <2>. QED
    BY <1>5, <2>2, <2>3 DEF Lock
<1>6. ASSUME NEW l \in Logins, StoreFails(l) \/ Delete(l) PROVE TypeOK' /\ ShapeInv'
  <2>1. /\ Done(l) /\ entry' = entry /\ faults' \in Nat /\ missed' \in Nat /\ tried' \in Nat
        /\ cleared' \in BOOLEAN /\ row' \in {row, None}
    <3>1. CASE StoreFails(l)
      <4>1. missed' \in Nat
        BY <1>a, <3>1 DEF StoreFails
      <4>. QED
        BY <1>a, <3>1, <4>1 DEF StoreFails, Fault
    <3>2. CASE Delete(l)
      BY <1>a, <1>c, <3>2 DEF Delete
    <3>. QED
      BY <1>6, <3>1, <3>2
  <2>. QED
    BY <1>a, <1>o, <1>s, <2>1, DoneIs, Blank
<1>7. ASSUME NEW n \in Nodes, Restart(n) PROVE TypeOK' /\ ShapeInv'
  <2>1. UNCHANGED <<row, tried, cleared>> /\ faults' \in Nat /\ missed' \in Nat
    <3>1. {l \in Logins : NodeOf[l] = n /\ Wrong(l)} \in SUBSET Logins
      OBVIOUS
    <3>2. Cardinality({l \in Logins : NodeOf[l] = n /\ Wrong(l)}) \in Nat
      BY <3>1, Count
    <3>. QED
      BY <1>a, <1>7, <3>2 DEF Restart, Fault
  <2>2. /\ \A m \in Nodes : entry'[m] \in {entry[m], None}
        /\ \A l \in Logins : login'[l].got \in {login[l].got, None}
        /\ login' \in [Logins -> Login] /\ entry' \in [Nodes -> Entry]
    BY <1>7, RestartIs, Blank
  <2>. QED
    BY <1>a, <1>s, <2>1, <2>2 DEF TypeOK, ShapeInv, Shaped
<1>8. ASSUME CleanupAuthLockouts PROVE TypeOK' /\ ShapeInv'
  BY <1>a, <1>c, <1>s, <1>8, Blank DEF CleanupAuthLockouts, TypeOK, ShapeInv, Shaped
<1>9. ASSUME Tick PROVE TypeOK' /\ ShapeInv'
  <2>1. \A e \in Entry : Shaped(e) => Shaped(Later(e))
    BY LaterIs DEF Shaped
  <2>2. faults' \in Nat /\ cleared' \in BOOLEAN /\ tried' \in Nat /\ missed' \in Nat
    <3>1. faults' = faults /\ cleared' = cleared
      BY <1>9 DEF Tick
    <3>2. CASE row.there /\ row.lock = 1
      <4>1. tried' = Cardinality(Unrecorded) /\ missed' = 0
        BY <1>9, <3>2 DEF Tick
      <4>. QED
        BY <1>a, <1>c, <3>1, <4>1
    <3>3. CASE ~(row.there /\ row.lock = 1)
      <4>1. tried' = tried /\ missed' = missed
        BY <1>9, <3>3 DEF Tick
      <4>. QED
        BY <1>a, <3>1, <4>1
    <3>. QED
      BY <3>2, <3>3
  <2>3. /\ row' \in Entry /\ entry' \in [Nodes -> Entry] /\ login' \in [Logins -> Login]
    BY <1>9, TickIs
  <2>4. Shaped(row') /\ (\A n \in Nodes : Shaped(entry'[n])) /\ \A l \in Logins : Shaped(login'[l].got)
    BY <1>a, <1>s, <1>9, <2>1, TickIs
  <2>. QED
    BY <2>2, <2>3, <2>4 DEF TypeOK, ShapeInv, Shaped
<1>10. ASSUME UNCHANGED vars PROVE TypeOK' /\ ShapeInv'
  BY <1>10 DEF vars, TypeOK, ShapeInv, Shaped
<1>. QED
  BY <1>1, <1>2, <1>3, <1>4, <1>5, <1>6, <1>7, <1>8, <1>9, <1>10 DEF Next, Step

(* Everything is blank at the beginning. *)
LEMMA InitType == Init => TypeOK /\ ShapeInv
<1>. SUFFICES ASSUME Init PROVE TypeOK /\ ShapeInv
  OBVIOUS
<1>1. row \in Entry /\ entry \in [Nodes -> Entry] /\ login \in [Logins -> Login]
  BY Blank DEF Init
<1>2. faults \in Nat /\ tried \in Nat /\ missed \in Nat
  BY DEF Init
<1>3. cleared \in BOOLEAN
  BY DEF Init
<1>4. ShapeInv
  BY Blank DEF Init, ShapeInv, Shaped
<1>. QED
  BY <1>1, <1>2, <1>3, <1>4 DEF TypeOK

(* Rows, entries and logins stay well formed: counts and locks stay within  *)
(* their limits.                                                            *)
THEOREM TypeCorrect == Spec => [](TypeOK /\ ShapeInv)
  BY InitType, NextType, PTL DEF Spec

------------------------------------------------------------------------------
(* Guesses. *)

(* The logins that will learn whether their password is wrong, and the ones *)
(* whose wrong password has not led to a lock yet.                          *)
Verifying == {l \in Logins : login[l].pc = "verify"}
Wrongs    == {l \in Logins : Wrong(l)}

(* A row that is not locked counts all wrong guesses but those on their way *)
(* to it.  Once it has reached the limit, all the guesses beyond belong to  *)
(* logins that are going to lock it; when it is locked the passwords being  *)
(* verified are the last.                                                   *)
GuessInv ==
  /\ row.lock > 0 => tried + Cardinality(Verifying) <= MaxFailures - 1 + Cardinality(Logins) + missed
  /\ row.lock <= 0 /\ row.failures < MaxFailures => tried <= row.failures + Cardinality(Unrecorded) + missed
  /\ row.lock <= 0 /\ row.failures >= MaxFailures => tried <= MaxFailures - 1 + Cardinality(Wrongs) + missed

(* Counts are numbers, and nobody is counted twice. *)
LEMMA Sizes ==
  /\ Cardinality(Unrecorded) \in Nat /\ Cardinality(Wrongs) \in Nat /\ Cardinality(Verifying) \in Nat
  /\ Cardinality(Logins) \in Nat
  /\ Cardinality(Unrecorded) <= Cardinality(Wrongs)
  /\ Cardinality(Wrongs) + Cardinality(Verifying) <= Cardinality(Logins)
<1>1. /\ Unrecorded \in SUBSET Wrongs /\ Wrongs \in SUBSET Logins /\ Verifying \in SUBSET Logins
      /\ Wrongs \cap Verifying = {} /\ Wrongs \cup Verifying \in SUBSET Logins
  BY DEF Unrecorded, Wrongs, Verifying, Wrong
<1>2. IsFiniteSet(Wrongs) /\ IsFiniteSet(Verifying) /\ IsFiniteSet(Logins)
  BY <1>1, ThrottleAssumption, FS_Subset
<1>3. Cardinality(Unrecorded) <= Cardinality(Wrongs) /\ IsFiniteSet(Unrecorded)
  BY <1>1, <1>2, FS_Subset
<1>4. Cardinality(Wrongs \cup Verifying) = Cardinality(Wrongs) + Cardinality(Verifying) - 0
  BY <1>1, <1>2, FS_Union, FS_EmptySet
<1>5. Cardinality(Wrongs \cup Verifying) <= Cardinality(Logins)
  BY <1>1, <1>2, FS_Subset
<1>6. /\ Cardinality(Unrecorded) \in Nat /\ Cardinality(Wrongs) \in Nat /\ Cardinality(Verifying) \in Nat
      /\ Cardinality(Logins) \in Nat
  BY <1>2, <1>3, FS_CardinalityType
<1>. QED
  BY <1>3, <1>4, <1>5, <1>6

Bit(b) == IF b THEN 1 ELSE 0

(* One login moves and the others do not: the counts differ by it. *)
LEMMA Moves ==
  ASSUME NEW l \in Logins, Others(l)
  PROVE  \E u, w, v \in Nat :
           /\ Cardinality(Unrecorded) = u + Bit(login[l].pc \in {"fail", "reset", "bump"})
           /\ Cardinality(Unrecorded)' = u + Bit(login'[l].pc \in {"fail", "reset", "bump"})
           /\ Cardinality(Wrongs) = w + Bit(login[l].pc \in {"fail", "reset", "bump", "get", "lock"})
           /\ Cardinality(Wrongs)' = w + Bit(login'[l].pc \in {"fail", "reset", "bump", "get", "lock"})
           /\ Cardinality(Verifying) = v + Bit(login[l].pc = "verify")
           /\ Cardinality(Verifying)' = v + Bit(login'[l].pc = "verify")
<1>1. ASSUME NEW S, NEW T, S \in SUBSET Logins, T \in SUBSET Logins, S \ {l} = T \ {l}
      PROVE  \E n \in Nat : Cardinality(S) = n + Bit(l \in S) /\ Cardinality(T) = n + Bit(l \in T)
  <2>1. Cardinality(S \ {l}) \in Nat /\ Cardinality(T \ {l}) = Cardinality(S \ {l})
    <3>1. S \ {l} \in SUBSET Logins
      BY <1>1
    <3>. QED
      BY <1>1, <3>1, Count
  <2>2. /\ Cardinality(S \ {l}) = IF l \in S THEN Cardinality(S) - 1 ELSE Cardinality(S)
        /\ Cardinality(T \ {l}) = IF l \in T THEN Cardinality(T) - 1 ELSE Cardinality(T)
        /\ Cardinality(S) \in Nat /\ Cardinality(T) \in Nat
    BY <1>1, Count
  <2>3. Cardinality(S) = Cardinality(S \ {l}) + Bit(l \in S) /\ Cardinality(T) = Cardinality(S \ {l}) + Bit(l \in T)
    BY <2>1, <2>2 DEF Bit
  <2>. QED
    BY <2>1, <2>3
<1>2. /\ Unrecorded \in SUBSET Logins /\ Unrecorded' \in SUBSET Logins /\ Unrecorded \ {l} = Unrecorded' \ {l}
      /\ l \in Unrecorded <=> login[l].pc \in {"fail", "reset", "bump"}
      /\ l \in Unrecorded' <=> login'[l].pc \in {"fail", "reset", "bump"}
  BY DEF Unrecorded, Others
<1>3. /\ Wrongs \in SUBSET Logins /\ Wrongs' \in SUBSET Logins /\ Wrongs \ {l} = Wrongs' \ {l}
      /\ l \in Wrongs <=> login[l].pc \in {"fail", "reset", "bump", "get", "lock"}
      /\ l \in Wrongs' <=> login'[l].pc \in {"fail", "reset", "bump", "get", "lock"}
  BY DEF Wrongs, Wrong, Others
<1>4. /\ Verifying \in SUBSET Logins /\ Verifying' \in SUBSET Logins /\ Verifying \ {l} = Verifying' \ {l}
      /\ l \in Verifying <=> login[l].pc = "verify"
      /\ l \in Verifying' <=> login'[l].pc = "verify"
  BY DEF Verifying, Others
<1>5. PICK u \in Nat : Cardinality(Unrecorded) = u + Bit(l \in Unrecorded)
                       /\ Cardinality(Unrecorded') = u + Bit(l \in Unrecorded')
  BY <1>1, <1>2
<1>6. PICK w \in Nat : Cardinality(Wrongs) = w + Bit(l \in Wrongs) /\ Cardinality(Wrongs') = w + Bit(l \in Wrongs')
  BY <1>1, <1>3
<1>7. PICK v \in Nat : Cardinality(Verifying) = v + Bit(l \in Verifying)
                       /\ Cardinality(Verifying') = v + Bit(l \in Verifying')
  BY <1>1, <1>4
<1>. QED
  BY <1>2, <1>3, <1>4, <1>5, <1>6, <1>7 DEF Bit

(* Nobody moves. *)
LEMMA Stays ==
  ASSUME \A l \in Logins : login'[l].pc = login[l].pc
  PROVE  Unrecorded' = Unrecorded /\ Wrongs' = Wrongs /\ Verifying' = Verifying
  BY DEF Unrecorded, Wrongs, Wrong, Verifying

(* A set of logins of which some are dropped. *)
LEMMA Dropped ==
  ASSUME NEW S \in SUBSET Logins, NEW T \in SUBSET Logins, NEW K \in SUBSET Logins, S \subseteq T \cup K
  PROVE  Cardinality(S) <= Cardinality(T) + Cardinality(K)
<1>1. IsFiniteSet(S) /\ IsFiniteSet(T) /\ IsFiniteSet(K) /\ IsFiniteSet(T \cup K) /\ IsFiniteSet(T \cap K)
  BY ThrottleAssumption, FS_Subset, FS_Union, FS_Intersection
<1>2. Cardinality(S) <= Cardinality(T \cup K)
  BY <1>1, FS_Subset
<1>3. Cardinality(T \cup K) = Cardinality(T) + Cardinality(K) - Cardinality(T \cap K)
  BY <1>1, FS_Union
<1>4. /\ Cardinality(S) \in Nat /\ Cardinality(T) \in Nat /\ Cardinality(K) \in Nat
      /\ Cardinality(T \cap K) \in Nat
  BY <1>1, FS_CardinalityType
<1>. QED
  BY <1>2, <1>3, <1>4

(* Whoever steps, no guess is lost. *)
LEMMA NextGuess == TypeOK /\ ShapeInv /\ GuessInv /\ [Next]_vars => GuessInv'
<1>. SUFFICES ASSUME TypeOK, ShapeInv, GuessInv, [Next]_vars PROVE GuessInv'
  OBVIOUS
<1>a. /\ row \in Entry /\ row.there \in BOOLEAN /\ row.failures \in Nat /\ row.failures <= MaxFailures + 1
      /\ row.lock \in Int /\ tried \in Nat /\ missed \in Nat
      /\ \A l \in Logins : login[l].since \in 0..1
  BY EntryFields DEF TypeOK, Login
<1>s. ~row.there => row = None /\ row.failures = 0 /\ row.lock <= 0
  BY Constants, Blank DEF ShapeInv, Shaped
<1>m. MaxFailures \in Nat /\ MaxFailures >= 1
  BY Constants
<1>1. ASSUME NEW l \in Logins, Blocked(l) PROVE GuessInv'
  <2>1. login[l].pc = "idle" /\ Goto(l, "read") /\ UNCHANGED <<row, tried, missed>>
    BY <1>1 DEF Blocked
  <2>2. Others(l) /\ login'[l].pc = "read"
    BY <2>1, GotoIs DEF Pcs
  <2>3. /\ Cardinality(Unrecorded)' = Cardinality(Unrecorded) /\ Cardinality(Wrongs)' = Cardinality(Wrongs)
        /\ Cardinality(Verifying)' = Cardinality(Verifying)
    BY <2>1, <2>2, Moves DEF Bit
  <2>. QED
    BY <2>1, <2>3 DEF GuessInv
<1>2. ASSUME NEW l \in Logins, Read(l) PROVE GuessInv'
  <2>1. login[l].pc = "read" /\ UNCHANGED <<row, tried, missed>>
    BY <1>2 DEF Read
  <2>2. CASE Done(l) \/ GotoWith(l, "cache", row)
    <3>1. Others(l) /\ login'[l].pc \in {"idle", "cache"}
      BY <1>a, <2>2, DoneIs, GotoWithIs, Blank DEF Pcs
    <3>2. /\ Cardinality(Unrecorded)' = Cardinality(Unrecorded) /\ Cardinality(Wrongs)' = Cardinality(Wrongs)
          /\ Cardinality(Verifying)' = Cardinality(Verifying)
      BY <2>1, <3>1, Moves DEF Bit
    <3>. QED
      BY <2>1, <3>2 DEF GuessInv
  <2>3. CASE ~StoreBlocks(row) /\ GotoWith(l, "verify", None)
    <3>1. Others(l) /\ login'[l].pc = "verify"
      BY <2>3, GotoWithIs, Blank DEF Pcs
    <3>2. Cardinality(Unrecorded)' = Cardinality(Unrecorded) /\ Cardinality(Wrongs)' = Cardinality(Wrongs)
      BY <2>1, <3>1, Moves DEF Bit
    <3>3. row.lock <= 0
      BY <1>a, <1>s, <2>3 DEF StoreBlocks
    <3>. QED
      BY <1>a, <2>1, <3>2, <3>3 DEF GuessInv
  <2>. QED
    BY <1>2, <2>2, <2>3 DEF Read, GotoWith
<1>3. ASSUME NEW l \in Logins, SetEntry(l) PROVE GuessInv'
  <2>1. login[l].pc \in {"cache", "set"} /\ Done(l) /\ UNCHANGED <<row, tried, missed>>
    BY <1>3 DEF SetEntry
  <2>2. Others(l) /\ login'[l].pc = "idle"
    BY <2>1, DoneIs, Blank
  <2>3. /\ Cardinality(Unrecorded)' = Cardinality(Unrecorded) /\ Cardinality(Wrongs)' = Cardinality(Wrongs)
        /\ Cardinality(Verifying)' = Cardinality(Verifying)
    BY <2>1, <2>2, Moves DEF Bit
  <2>. QED
    BY <2>1, <2>3 DEF GuessInv
<1>4. ASSUME NEW l \in Logins, Verify(l) PROVE GuessInv'
  <2>1. login[l].pc = "verify" /\ UNCHANGED <<row, missed>>
    BY <1>4 DEF Verify
  <2>2. CASE Goto(l, "forget") /\ tried' = tried
    <3>1. Others(l) /\ login'[l].pc = "forget"
      BY <2>2, GotoIs DEF Pcs
    <3>2. /\ Cardinality(Unrecorded)' = Cardinality(Unrecorded) /\ Cardinality(Wrongs)' = Cardinality(Wrongs)
          /\ Cardinality(Verifying)' = Cardinality(Verifying) - 1
      BY <2>1, <3>1, Moves DEF Bit
    <3>. QED
      BY <1>a, <1>m, <2>1, <2>2, <3>2, Sizes DEF GuessInv
  <2>3. CASE Goto(l, "fail") /\ tried' = tried + 1
    <3>1. Others(l) /\ login'[l].pc = "fail"
      BY <2>3, GotoIs DEF Pcs
    <3>2. /\ Cardinality(Unrecorded)' = Cardinality(Unrecorded) + 1 /\ Cardinality(Wrongs)' = Cardinality(Wrongs) + 1
          /\ Cardinality(Verifying)' = Cardinality(Verifying) - 1
      BY <2>1, <3>1, Moves DEF Bit
    <3>. QED
      BY <1>a, <1>m, <2>1, <2>3, <3>2, Sizes DEF GuessInv
  <2>. QED
    BY <1>4, <2>2, <2>3 DEF Verify
<1>5. ASSUME NEW l \in Logins, FailLocal(l) PROVE GuessInv'
  <2>1. login[l].pc = "fail" /\ Goto(l, "reset") /\ UNCHANGED <<row, tried, missed>>
    BY <1>5, FailLocalIs
  <2>2. Others(l) /\ login'[l].pc = "reset"
    BY <2>1, GotoIs DEF Pcs
  <2>3. /\ Cardinality(Unrecorded)' = Cardinality(Unrecorded) /\ Cardinality(Wrongs)' = Cardinality(Wrongs)
        /\ Cardinality(Verifying)' = Cardinality(Verifying)
    BY <2>1, <2>2, Moves DEF Bit
  <2>. QED
    BY <2>1, <2>3 DEF GuessInv
<1>6. ASSUME NEW l \in Logins, Reset(l) PROVE GuessInv'
  <2>1. login[l].pc = "reset" /\ Goto(l, "bump") /\ missed' = missed
    BY <1>6, ResetIs
  <2>2. Others(l) /\ login'[l].pc = "bump"
    BY <2>1, GotoIs DEF Pcs
  <2>3. /\ Cardinality(Unrecorded)' = Cardinality(Unrecorded) /\ Cardinality(Wrongs)' = Cardinality(Wrongs)
        /\ Cardinality(Verifying)' = Cardinality(Verifying)
    BY <2>1, <2>2, Moves DEF Bit
  <2>4. CASE row' = row /\ tried' = tried
    BY <2>1, <2>3, <2>4 DEF GuessInv
  <2>5. CASE row'.failures = 0 /\ row'.lock = Over /\ tried' = Cardinality(Unrecorded)
    BY <1>a, <1>m, <2>1, <2>3, <2>5, Sizes, Constants DEF GuessInv
  <2>. QED
    BY <1>6, <2>4, <2>5, ResetIs
<1>7. ASSUME NEW l \in Logins, Bump(l) PROVE GuessInv'
  <2>1. login[l].pc = "bump" /\ Goto(l, "get") /\ tried' = tried /\ missed' = missed
    BY <1>7, BumpIs
  <2>2. Others(l) /\ login'[l].pc = "get"
    BY <2>1, GotoIs DEF Pcs
  <2>3. /\ Cardinality(Unrecorded)' = Cardinality(Unrecorded) - 1 /\ Cardinality(Wrongs)' = Cardinality(Wrongs)
        /\ Cardinality(Verifying)' = Cardinality(Verifying)
    BY <2>1, <2>2, Moves DEF Bit
  <2>4. CASE row.there
    <3>1. row'.lock = row.lock /\ row'.failures = Plus1(row.failures)
      BY <1>7, <2>4, BumpIs
    <3>2. /\ row.failures <= MaxFailures => row'.failures = row.failures + 1
          /\ row.failures > MaxFailures => row'.failures = row.failures
      BY <1>a, <3>1, Plus1Type
    <3>. QED
      BY <1>a, <1>m, <2>1, <2>3, <3>1, <3>2, Sizes DEF GuessInv
  <2>5. CASE ~row.there
    <3>1. row'.lock = Over /\ row'.failures = 1
      BY <1>7, <2>5, BumpIs
    <3>. QED
      BY <1>a, <1>m, <1>s, <2>1, <2>3, <2>5, <3>1, Sizes, Constants DEF GuessInv
  <2>. QED
    BY <2>4, <2>5
<1>8. ASSUME NEW l \in Logins, Get(l) PROVE GuessInv'
  <2>1. login[l].pc = "get" /\ UNCHANGED <<row, tried>>
    BY <1>8 DEF Get
  <2>2. CASE ~row.there
    <3>1. Done(l) /\ missed' = missed
      BY <1>a, <1>8, <2>2 DEF Get
    <3>2. Others(l) /\ login'[l].pc = "idle"
      BY <3>1, DoneIs, Blank
    <3>3. Cardinality(Unrecorded)' = Cardinality(Unrecorded)
      BY <2>1, <3>2, Moves DEF Bit
    <3>. QED
      BY <1>a, <1>m, <1>s, <2>1, <2>2, <3>1, <3>3 DEF GuessInv
  <2>3. CASE row.there /\ GotoWith(l, "lock", row) /\ missed' \in {missed, missed + 1}
    <3>1. Others(l) /\ login'[l].pc = "lock"
      BY <1>a, <2>3, GotoWithIs DEF Pcs
    <3>2. /\ Cardinality(Unrecorded)' = Cardinality(Unrecorded) /\ Cardinality(Wrongs)' = Cardinality(Wrongs)
          /\ Cardinality(Verifying)' = Cardinality(Verifying)
      BY <2>1, <3>1, Moves DEF Bit
    <3>. QED
      BY <1>a, <1>m, <2>1, <2>3, <3>2, Sizes DEF GuessInv
  <2>4. CASE /\ row.there /\ GotoWith(l, "set", row)
             /\ row.failures < MaxFailures \/ row.lock + login[l].since > 0
             /\ missed' = missed + (IF row.lock <= 0 /\ row.lock + login[l].since > 0 THEN 1 ELSE 0)
    <3>1. Others(l) /\ login'[l].pc = "set"
      BY <1>a, <2>4, GotoWithIs DEF Pcs
    <3>2. /\ Cardinality(Unrecorded)' = Cardinality(Unrecorded) /\ Cardinality(Wrongs)' = Cardinality(Wrongs) - 1
          /\ Cardinality(Verifying)' = Cardinality(Verifying)
      BY <2>1, <3>1, Moves DEF Bit
    <3>. QED
      BY <1>a, <1>m, <2>1, <2>4, <3>2, Sizes DEF GuessInv
  <2>5. CASE row.there
    <3>1. missed' = missed + (IF row.lock <= 0 /\ row.lock + login[l].since > 0 THEN 1 ELSE 0)
      BY <1>8, <2>5 DEF Get
    <3>2. missed' \in {missed, missed + 1}
      BY <1>a, <3>1
    <3>3. CASE Reached(row.failures) /\ row.lock + login[l].since <= 0
      <4>1. login' = [login EXCEPT ![l].got = row, ![l].pc = "lock"]
        BY <1>8, <2>5, <3>3 DEF Get
      <4>2. GotoWith(l, "lock", row)
        BY <4>1 DEF GotoWith, TypeOK, Login
      <4>. QED
        BY <2>3, <2>5, <3>2, <4>2
    <3>4. CASE ~(Reached(row.failures) /\ row.lock + login[l].since <= 0)
      <4>1. login' = [login EXCEPT ![l].got = row, ![l].pc = "set"]
        BY <1>8, <2>5, <3>4 DEF Get
      <4>2. GotoWith(l, "set", row)
        BY <4>1 DEF GotoWith, TypeOK, Login
      <4>3. row.failures < MaxFailures \/ row.lock + login[l].since > 0
        BY <1>a, <1>m, <3>4 DEF Reached
      <4>. QED
        BY <2>4, <2>5, <3>1, <4>2, <4>3
    <3>. QED
      BY <3>3, <3>4
  <2>. QED
    BY <2>2, <2>5
<1>9. ASSUME NEW l \in Logins, Lock(l) PROVE GuessInv'
  <2>1. login[l].pc = "lock" /\ tried' = tried /\ missed' = missed
    BY <1>9 DEF Lock
  <2>2. CASE ~row.there
    <3>1. Done(l) /\ row' = row
      BY <1>9, <2>2 DEF Lock
    <3>2. Others(l) /\ login'[l].pc = "idle"
      BY <3>1, DoneIs, Blank
    <3>3. Cardinality(Unrecorded)' = Cardinality(Unrecorded)
      BY <2>1, <3>2, Moves DEF Bit
    <3>. QED
      BY <1>a, <1>m, <1>s, <2>1, <2>2, <3>1, <3>3 DEF GuessInv
  <2>3. CASE row.there
    <3>1. row' = Locked(l) /\ login' = [login EXCEPT ![l].got = Locked(l), ![l].pc = "set"]
      BY <1>9, <2>3 DEF Lock
    <3>2. GotoWith(l, "set", Locked(l))
      BY <3>1 DEF GotoWith, TypeOK, Login
    <3>3. Others(l) /\ login'[l].pc = "set"
      BY <3>2, GotoWithIs, LockIs DEF Pcs
    <3>4. /\ Cardinality(Wrongs)' = Cardinality(Wrongs) - 1
          /\ Cardinality(Verifying)' = Cardinality(Verifying)
      BY <2>1, <3>3, Moves DEF Bit
    <3>5. row'.lock > 0 /\ row'.lock \in Int
      BY <3>1, LockIs, EntryFields
    <3>6. tried + Cardinality(Verifying) <= MaxFailures - 1 + Cardinality(Logins) + missed
      BY <1>a, <1>m, Sizes DEF GuessInv
    <3>. QED
      BY <2>1, <3>4, <3>5, <3>6 DEF GuessInv
  <2>. QED
    BY <1>a, <2>2, <2>3
<1>10. ASSUME NEW l \in Logins, StoreFails(l) PROVE GuessInv'
  <2>1. /\ login[l].pc \in {"reset", "bump", "get", "lock", "delete"} /\ Done(l) /\ UNCHANGED <<row, tried>>
        /\ missed' = missed + (IF Wrong(l) THEN 1 ELSE 0)
    BY <1>10 DEF StoreFails
  <2>2. Others(l) /\ login'[l].pc = "idle"
    BY <2>1, DoneIs, Blank
  <2>3. PICK b \in 0..1 : b = IF Wrong(l) THEN 1 ELSE 0
    OBVIOUS
  <2>4. /\ Cardinality(Unrecorded) <= Cardinality(Unrecorded)' + b
        /\ Cardinality(Wrongs)' = Cardinality(Wrongs) - b
        /\ Cardinality(Verifying)' = Cardinality(Verifying)
        /\ Cardinality(Unrecorded)' \in Nat
    <3>1. CASE login[l].pc \in {"reset", "bump"}
      BY <2>2, <2>3, <3>1, Moves DEF Bit, Wrong
    <3>2. CASE login[l].pc \in {"get", "lock"}
      BY <2>2, <2>3, <3>2, Moves DEF Bit, Wrong
    <3>3. CASE login[l].pc = "delete"
      BY <2>2, <2>3, <3>3, Moves DEF Bit, Wrong
    <3>. QED
      BY <2>1, <3>1, <3>2, <3>3
  <2>. QED
    BY <1>a, <1>m, <2>1, <2>3, <2>4, Sizes DEF GuessInv
<1>11. ASSUME NEW l \in Logins, Forget(l) PROVE GuessInv'
  <2>1. login[l].pc = "forget" /\ Goto(l, "delete") /\ UNCHANGED <<row, tried, missed>>
    BY <1>11 DEF Forget
  <2>2. Others(l) /\ login'[l].pc = "delete"
    BY <2>1, GotoIs DEF Pcs
  <2>3. /\ Cardinality(Unrecorded)' = Cardinality(Unrecorded) /\ Cardinality(Wrongs)' = Cardinality(Wrongs)
        /\ Cardinality(Verifying)' = Cardinality(Verifying)
    BY <2>1, <2>2, Moves DEF Bit
  <2>. QED
    BY <2>1, <2>3 DEF GuessInv
<1>12. ASSUME NEW l \in Logins, Delete(l) PROVE GuessInv'
  <2>1. /\ login[l].pc = "delete" /\ Done(l) /\ row' = None /\ missed' = missed
        /\ tried' = Cardinality(Unrecorded)
    BY <1>12 DEF Delete
  <2>2. Others(l) /\ login'[l].pc = "idle"
    BY <2>1, DoneIs, Blank
  <2>3. Cardinality(Unrecorded)' = Cardinality(Unrecorded)
    BY <2>1, <2>2, Moves DEF Bit
  <2>4. row'.lock = Over /\ row'.failures = 0
    BY <2>1, Blank
  <2>. QED
    BY <1>a, <1>m, <2>1, <2>3, <2>4, Sizes, Constants DEF GuessInv
<1>13. ASSUME NEW n \in Nodes, Restart(n) PROVE GuessInv'
  <2>. DEFINE K == {l \in Logins : NodeOf[l] = n /\ Wrong(l)}
  <2>1. UNCHANGED <<row, tried>> /\ missed' = missed + Cardinality(K)
    BY <1>13 DEF Restart
  <2>2. \A l \in Logins : login'[l] = IF NodeOf[l] = n THEN Ready ELSE login[l]
    BY <1>13, RestartIs
  <2>3. /\ Unrecorded \in SUBSET Logins /\ Unrecorded' \in SUBSET Logins /\ Unrecorded \subseteq Unrecorded' \cup K
        /\ Wrongs \in SUBSET Logins /\ Wrongs' \in SUBSET Logins /\ Wrongs \subseteq Wrongs' \cup K
        /\ Verifying \in SUBSET Logins /\ Verifying' \in SUBSET Logins /\ Verifying' \subseteq Verifying \cup {}
        /\ K \in SUBSET Logins /\ {} \in SUBSET Logins
    BY <2>2, Blank DEF Unrecorded, Wrongs, Verifying, Wrong
  <2>. HIDE DEF K
  <2>4. /\ Cardinality(Unrecorded) <= Cardinality(Unrecorded') + Cardinality(K)
        /\ Cardinality(Wrongs) <= Cardinality(Wrongs') + Cardinality(K)
        /\ Cardinality(Verifying') <= Cardinality(Verifying) + 0
    BY <2>3, Dropped, FS_EmptySet
  <2>5. /\ Cardinality(Unrecorded') \in Nat /\ Cardinality(Wrongs') \in Nat /\ Cardinality(Verifying') \in Nat
        /\ Cardinality(K) \in Nat
    BY <2>3, Count
  <2>. QED
    BY <1>a, <1>m, <2>1, <2>4, <2>5, Sizes DEF GuessInv
<1>14. ASSUME CleanupAuthLockouts PROVE GuessInv'
  <2>1. row' = None /\ tried' = Cardinality(Unrecorded) /\ missed' = missed /\ login' = login
    BY <1>14 DEF CleanupAuthLockouts
  <2>2. Unrecorded' = Unrecorded
    BY <2>1, Stays
  <2>3. row'.lock = Over /\ row'.failures = 0
    BY <2>1, Blank
  <2>. QED
    BY <1>a, <1>m, <2>1, <2>2, <2>3, Sizes, Constants DEF GuessInv
<1>15. ASSUME Tick PROVE GuessInv'
  <2>1. Unrecorded' = Unrecorded /\ Wrongs' = Wrongs /\ Verifying' = Verifying
    BY <1>15, Stays, TickIs
  <2>2. /\ row'.failures = row.failures
        /\ ~row.there => row'.lock = row.lock
        /\ row.there => row'.lock = IF row.lock > Over THEN row.lock - 1 ELSE row.lock
    <3>1. row' = Later(row)
      BY <1>15, TickIs
    <3>. QED
      BY <1>a, <3>1, LaterIs
  <2>3. CASE row.there /\ row.lock = 1
    <3>1. tried' = Cardinality(Unrecorded) /\ missed' = 0
      BY <1>15, <2>3 DEF Tick
    <3>2. row'.lock = 0
      BY <2>2, <2>3, Constants
    <3>. QED
      BY <1>a, <1>m, <2>1, <2>2, <3>1, <3>2, Sizes DEF GuessInv
  <2>4. CASE ~(row.there /\ row.lock = 1)
    <3>1. tried' = tried /\ missed' = missed
      BY <1>15, <2>4 DEF Tick
    <3>2. row'.lock > 0 <=> row.lock > 0
      BY <1>a, <1>s, <2>2, <2>4, Constants
    <3>3. row'.lock \in Int
      BY <1>a, <2>2
    <3>. QED
      BY <1>a, <1>m, <2>1, <2>2, <3>1, <3>2, <3>3, Sizes DEF GuessInv
  <2>. QED
    BY <2>3, <2>4
<1>16. ASSUME UNCHANGED vars PROVE GuessInv'
  <2>1. Unrecorded' = Unrecorded /\ Wrongs' = Wrongs /\ Verifying' = Verifying
    BY <1>16, Stays DEF vars
  <2>. QED
    BY <1>16, <2>1 DEF vars, GuessInv
<1>. QED
  BY <1>1, <1>2, <1>3, <1>4, <1>5, <1>6, <1>7, <1>8, <1>9, <1>10, <1>11, <1>12, <1>13, <1>14, <1>15, <1>16
  DEF Next, Step

(* However many nodes a client spreads its logins over, between two         *)
(* lockouts it gets MaxFailures - 1 wrong guesses, one for each login that  *)
(* is under way when the row is locked, and those whose recording failed.   *)
THEOREM GuessesAreBounded == Spec => []GuessesBounded
<1>1. Init => TypeOK /\ ShapeInv /\ GuessInv
  <2>. SUFFICES ASSUME Init PROVE GuessInv
    BY InitType
  <2>1. row.lock = Over /\ row.failures = 0 /\ tried = 0 /\ missed = 0
    BY Blank DEF Init
  <2>. QED
    BY <2>1, Constants, Sizes DEF GuessInv
<1>2. TypeOK /\ ShapeInv /\ GuessInv /\ [Next]_vars => (TypeOK /\ ShapeInv /\ GuessInv)'
  BY NextType, NextGuess
<1>3. TypeOK /\ GuessInv => GuessesBounded
  <2>. SUFFICES ASSUME TypeOK, GuessInv PROVE GuessesBounded
    OBVIOUS
  <2>1. /\ row.lock \in Int /\ row.failures \in Nat /\ tried \in Nat /\ missed \in Nat
        /\ MaxFailures \in Nat /\ MaxFailures >= 1
    BY Constants, EntryFields DEF TypeOK
  <2>. QED
    BY <2>1, Sizes DEF GuessInv, GuessesBounded
<1>. QED
  BY <1>1, <1>2, <1>3, PTL DEF Spec

------------------------------------------------------------------------------
(* Locks. *)

(* A lock in memory is no longer than that of the row, but for a unit. *)
Backs(r, k) == k <= 0 \/ r.lock + 1 >= k

(* The row is still in force for a login that began s ago: its window is    *)
(* open, or its lock was not over when the login read the clock.            *)
InForce(r, s) == r.age - s <= Window \/ r.lock + s >= 0

Calm == ~cleared /\ faults = 0

EntriesBacked ==
  \A n \in Nodes : Backs(row, entry[n].lock) \/ \E l \in Logins : NodeOf[l] = n /\ Recording(l)

(* A login that carries a copy of the row carries no longer lock, ... *)
CopiesBacked == \A l \in Logins : login[l].pc \in {"cache", "set"} => Backs(row, login[l].got.lock)

(* ... and one that has begun its window anew finds the row in force, so    *)
(* that nobody removes it before the lock is set.                           *)
RowInForce ==
  \A l \in Logins :
    /\ login[l].pc = "bump" /\ row.there => InForce(row, login[l].since)
    /\ login[l].pc \in {"get", "lock"} => row.there /\ InForce(row, login[l].since)

LockInv == Calm => EntriesBacked /\ CopiesBacked /\ RowInForce

(* A row whose lock is kept, was over, or is set now backs what it did. *)
RowBacks ==
  row' \in Entry /\ (row'.lock = row.lock \/ row.lock < 0 \/ row'.lock >= Lockout - 1)

LEMMA StillBacks ==
  ASSUME TypeOK, RowBacks, NEW e \in Entry, Backs(row, e.lock)
  PROVE  Backs(row', e.lock)
<1>1. /\ e.lock \in Int /\ e.lock <= Lockout /\ row.lock \in Int /\ row'.lock \in Int /\ Lockout \in Nat
  BY Constants, EntryFields DEF TypeOK, RowBacks
<1>. QED
  BY <1>1 DEF RowBacks, Backs

(* The entries of the other nodes stay backed; that of the login's node     *)
(* does when it is untouched, the login goes on recording, or what it wrote *)
(* is backed.                                                               *)
LEMMA KeepsEntries ==
  ASSUME TypeOK, EntriesBacked, RowBacks, NEW l \in Logins, Others(l),
         \A n \in Nodes \ {NodeOf[l]} : entry'[n] = entry[n],
         \/ entry' = entry /\ ~Recording(l)
         \/ login'[l].pc \in {"reset", "bump", "get", "lock", "set"}
         \/ Backs(row', entry'[NodeOf[l]].lock)
  PROVE  EntriesBacked'
<1>. SUFFICES ASSUME NEW n \in Nodes
              PROVE  Backs(row', entry'[n].lock) \/ \E k \in Logins : NodeOf[k] = n /\ Recording(k)'
  BY DEF EntriesBacked
<1>1. entry[n] \in Entry
  BY DEF TypeOK
<1>2. CASE Backs(row', entry'[n].lock) \/ (Recording(l)' /\ NodeOf[l] = n)
  BY <1>2
<1>3. CASE Backs(row, entry[n].lock) /\ entry'[n] = entry[n]
  BY <1>1, <1>3, StillBacks
<1>4. ASSUME entry'[n] = entry[n], n = NodeOf[l] => ~Recording(l)
      PROVE  Backs(row', entry'[n].lock) \/ \E k \in Logins : NodeOf[k] = n /\ Recording(k)'
  <2>1. CASE Backs(row, entry[n].lock)
    BY <1>3, <1>4, <2>1
  <2>2. ASSUME NEW k \in Logins, NodeOf[k] = n, Recording(k)
        PROVE  Recording(k)'
    <3>1. login'[k] = login[k]
      BY <1>4, <2>2 DEF Others
    <3>. QED
      BY <2>2, <3>1 DEF Recording
  <2>. QED
    BY <2>1, <2>2 DEF EntriesBacked
<1>5. CASE n = NodeOf[l] /\ login'[l].pc \in {"reset", "bump", "get", "lock", "set"}
  <2>1. Recording(l)'
    BY <1>5 DEF Recording
  <2>. QED
    BY <1>2, <1>5, <2>1
<1>6. CASE n = NodeOf[l] /\ Backs(row', entry'[NodeOf[l]].lock)
  BY <1>2, <1>6
<1>7. CASE n = NodeOf[l]
  <2>1. CASE entry' = entry /\ ~Recording(l)
    <3>1. entry'[n] = entry[n]
      BY <2>1
    <3>. QED
      BY <1>4, <2>1, <3>1
  <2>2. CASE login'[l].pc \in {"reset", "bump", "get", "lock", "set"}
    BY <1>5, <1>7, <2>2
  <2>3. CASE Backs(row', entry'[NodeOf[l]].lock)
    BY <1>6, <1>7, <2>3
  <2>. QED
    BY <2>1, <2>2, <2>3
<1>8. CASE n # NodeOf[l]
  <2>1. entry'[n] = entry[n]
    BY <1>8
  <2>. QED
    BY <1>4, <1>8, <2>1
<1>. QED
  BY <1>7, <1>8

(* The copies stay backed, if that of the login is. *)
LEMMA KeepsCopies ==
  ASSUME TypeOK, CopiesBacked, RowBacks, NEW l \in Logins, Others(l),
         login'[l].pc \in {"cache", "set"} => Backs(row', login'[l].got.lock)
  PROVE  CopiesBacked'
<1>. SUFFICES ASSUME NEW k \in Logins, login'[k].pc \in {"cache", "set"}
              PROVE  Backs(row', login'[k].got.lock)
  BY DEF CopiesBacked
<1>1. CASE k = l
  BY <1>1
<1>2. CASE k # l
  <2>1. login'[k] = login[k] /\ login[k].got \in Entry
    BY <1>2 DEF Others, TypeOK, Login
  <2>. QED
    BY <2>1, StillBacks DEF CopiesBacked
<1>. QED
  BY <1>1, <1>2

(* The row stays in force for the others if it keeps its window and its     *)
(* lock, begins a window, or is locked.                                     *)
LEMMA KeepsInForce ==
  ASSUME TypeOK, RowInForce, row' \in Entry, NEW l \in Logins, Others(l),
         \/ row'.there = row.there /\ row'.age = row.age /\ row'.lock = row.lock
         \/ row'.there /\ (row'.age <= 1 \/ row'.lock >= 0),
         login'[l].pc \in {"bump", "get", "lock"} /\ row'.there => InForce(row', login'[l].since),
         login'[l].pc \in {"get", "lock"} => row'.there
  PROVE  RowInForce'
<1>. SUFFICES ASSUME NEW k \in Logins
              PROVE  /\ login'[k].pc = "bump" /\ row'.there => InForce(row', login'[k].since)
                     /\ login'[k].pc \in {"get", "lock"} => row'.there /\ InForce(row', login'[k].since)
  BY DEF RowInForce
<1>1. CASE k = l
  BY <1>1
<1>2. CASE k # l
  <2>1. login'[k] = login[k] /\ login[k].since \in 0..1
    BY <1>2 DEF Others, TypeOK, Login
  <2>2. row'.age \in Nat /\ row'.lock \in Int /\ Window \in Nat /\ Window >= 1
    BY Constants, EntryFields
  <2>3. CASE row'.there = row.there /\ row'.age = row.age /\ row'.lock = row.lock
    BY <2>1, <2>3 DEF RowInForce, InForce
  <2>4. CASE row'.there /\ (row'.age <= 1 \/ row'.lock >= 0)
    BY <2>1, <2>2, <2>4 DEF InForce
  <2>. QED
    BY <2>3, <2>4
<1>. QED
  BY <1>1, <1>2

(* The three together, for a step of one login. *)
Kept(l) ==
  /\ Others(l) /\ RowBacks
  /\ \A n \in Nodes \ {NodeOf[l]} : entry'[n] = entry[n]
  /\ \/ entry' = entry /\ ~Recording(l)
     \/ login'[l].pc \in {"reset", "bump", "get", "lock", "set"}
     \/ Backs(row', entry'[NodeOf[l]].lock)
  /\ login'[l].pc \in {"cache", "set"} => Backs(row', login'[l].got.lock)
  /\ \/ row'.there = row.there /\ row'.age = row.age /\ row'.lock = row.lock
     \/ row'.there /\ (row'.age <= 1 \/ row'.lock >= 0)
  /\ login'[l].pc \in {"bump", "get", "lock"} /\ row'.there => InForce(row', login'[l].since)
  /\ login'[l].pc \in {"get", "lock"} => row'.there

LEMMA KeepsLocks ==
  ASSUME TypeOK, EntriesBacked, CopiesBacked, RowInForce, NEW l \in Logins, Kept(l)
  PROVE  LockInv'
<1>1. row' \in Entry
  BY DEF Kept, RowBacks
<1>2. EntriesBacked'
  BY KeepsEntries DEF Kept
<1>3. CopiesBacked'
  BY KeepsCopies DEF Kept
<1>4. RowInForce'
  BY <1>1, KeepsInForce DEF Kept
<1>. QED
  BY <1>2, <1>3, <1>4 DEF LockInv

(* Whoever steps, no lock in memory outlasts that of the row. *)
LEMMA NextLock == TypeOK /\ ShapeInv /\ LockInv /\ [Next]_vars => LockInv'
<1>. SUFFICES ASSUME TypeOK, ShapeInv, LockInv, [Next]_vars, Calm' PROVE LockInv'
  BY DEF LockInv
<1>a. /\ row \in Entry /\ row.there \in BOOLEAN /\ row.age \in Nat /\ row.age <= Aged /\ row.lock \in Int
      /\ Over <= row.lock /\ row.lock <= Lockout /\ faults \in Nat
      /\ \A l \in Logins : login[l].since \in 0..1 /\ login[l].got \in Entry
      /\ \A n \in Nodes : entry[n] \in Entry
  BY EntryFields DEF TypeOK, Login
<1>s. /\ ~row.there => row = None /\ row.lock = Over
      /\ \A n \in Nodes : ~entry[n].there => entry[n].lock = Over
      /\ \A l \in Logins : ~login[l].got.there => login[l].got.lock = Over
  BY Blank DEF ShapeInv, Shaped
<1>n. \A l \in Logins : NodeOf[l] \in Nodes
  BY ThrottleAssumption
<1>c. ASSUME Calm PROVE EntriesBacked /\ CopiesBacked /\ RowInForce
  BY <1>c DEF LockInv
<1>f. ~Fault /\ ~(cleared' = TRUE)
  BY <1>a DEF Fault, Calm
<1>k. Window \in Nat /\ Window >= 1 /\ Lockout \in Nat /\ Lockout >= 2 /\ Over = -2 /\ Aged = Window + 2
  BY Constants
<1>1. ASSUME NEW l \in Logins, Blocked(l) PROVE LockInv'
  <2>1. login[l].pc = "idle" /\ Goto(l, "read") /\ UNCHANGED <<row, entry, faults, cleared>>
    BY <1>1 DEF Blocked
  <2>2. Others(l) /\ login'[l].pc = "read" /\ login'[l].got = login[l].got
    BY <2>1, GotoIs DEF Pcs
  <2>3. Kept(l)
    BY <1>a, <2>1, <2>2 DEF Kept, RowBacks, Recording
  <2>. QED
    BY <1>c, <2>1, <2>3, KeepsLocks DEF Calm
<1>2. ASSUME NEW l \in Logins, Read(l) PROVE LockInv'
  <2>1. login[l].pc = "read" /\ UNCHANGED <<row, entry, cleared>>
    BY <1>2 DEF Read
  <2>2. faults' = faults /\ (GotoWith(l, "cache", row) \/ GotoWith(l, "verify", None))
    BY <1>2, <1>f DEF Read, GotoWith
  <2>3. Others(l) /\ ((login'[l].pc = "cache" /\ login'[l].got = row) \/ login'[l].pc = "verify")
    <3>1. CASE GotoWith(l, "cache", row)
      BY <1>a, <3>1, GotoWithIs DEF Pcs
    <3>2. CASE GotoWith(l, "verify", None)
      BY <3>2, GotoWithIs, Blank DEF Pcs
    <3>. QED
      BY <2>2, <3>1, <3>2
  <2>4. Kept(l)
    BY <1>a, <2>1, <2>3 DEF Kept, RowBacks, Recording, Backs
  <2>. QED
    BY <1>c, <2>1, <2>2, <2>4, KeepsLocks DEF Calm
<1>3. ASSUME NEW l \in Logins, SetEntry(l) PROVE LockInv'
  <2>1. login[l].pc \in {"cache", "set"} /\ Done(l) /\ UNCHANGED <<row, faults, cleared>>
    BY <1>3 DEF SetEntry
  <2>2. Others(l) /\ login'[l].pc = "idle"
    BY <2>1, DoneIs, Blank
  <2>3. entry'[NodeOf[l]] = login[l].got /\ \A n \in Nodes \ {NodeOf[l]} : entry'[n] = entry[n]
    BY <1>3, <1>n DEF SetEntry, TypeOK
  <2>4. Backs(row', entry'[NodeOf[l]].lock)
    BY <1>c, <2>1, <2>3 DEF Calm, CopiesBacked
  <2>5. Kept(l)
    BY <1>a, <2>1, <2>2, <2>3, <2>4 DEF Kept, RowBacks
  <2>. QED
    BY <1>c, <2>1, <2>5, KeepsLocks DEF Calm
<1>4. ASSUME NEW l \in Logins, Verify(l) PROVE LockInv'
  <2>1. login[l].pc = "verify" /\ UNCHANGED <<row, entry, faults, cleared>>
    BY <1>4 DEF Verify
  <2>2. Others(l) /\ login'[l].pc \in {"forget", "fail"}
    BY <1>4, GotoIs DEF Verify, Pcs
  <2>3. Kept(l)
    BY <1>a, <2>1, <2>2 DEF Kept, RowBacks, Recording
  <2>. QED
    BY <1>c, <2>1, <2>3, KeepsLocks DEF Calm
<1>5. ASSUME NEW l \in Logins, FailLocal(l) PROVE LockInv'
  <2>1. /\ login[l].pc = "fail" /\ Goto(l, "reset") /\ UNCHANGED <<row, faults, cleared>>
        /\ \A n \in Nodes \ {NodeOf[l]} : entry'[n] = entry[n]
    BY <1>5, FailLocalIs
  <2>2. Others(l) /\ login'[l].pc = "reset"
    BY <2>1, GotoIs DEF Pcs
  <2>3. Kept(l)
    BY <1>a, <2>1, <2>2 DEF Kept, RowBacks
  <2>. QED
    BY <1>c, <2>1, <2>3, KeepsLocks DEF Calm
<1>6. ASSUME NEW l \in Logins, Reset(l) PROVE LockInv'
  <2>1. login[l].pc = "reset" /\ Goto(l, "bump") /\ UNCHANGED <<entry, faults, cleared>>
    BY <1>6, ResetIs
  <2>2. Others(l) /\ login'[l].pc = "bump" /\ login'[l].since = login[l].since
    BY <2>1, GotoIs DEF Pcs
  <2>3. CASE ~Expired(l) /\ row' = row
    <3>1. row.there => InForce(row, login[l].since)
      BY <1>a, <1>k, <2>3 DEF Expired, InForce
    <3>2. Kept(l)
      BY <1>a, <2>1, <2>2, <2>3, <3>1 DEF Kept, RowBacks
    <3>. QED
      BY <1>c, <2>1, <3>2, KeepsLocks DEF Calm
  <2>4. CASE Expired(l) /\ row' \in Entry /\ row'.there = TRUE /\ row'.age = login[l].since /\ row'.lock = Over
    <3>1. row.lock < 0 /\ row'.age <= 1 /\ InForce(row', login'[l].since)
      BY <1>a, <1>k, <2>2, <2>4 DEF Expired, InForce
    <3>2. Kept(l)
      BY <1>a, <2>1, <2>2, <2>4, <3>1 DEF Kept, RowBacks
    <3>. QED
      BY <1>c, <2>1, <3>2, KeepsLocks DEF Calm
  <2>. QED
    BY <1>6, <2>3, <2>4, ResetIs
<1>7. ASSUME NEW l \in Logins, Bump(l) PROVE LockInv'
  <2>1. /\ login[l].pc = "bump" /\ Goto(l, "get") /\ UNCHANGED <<entry, faults, cleared>>
        /\ row' \in Entry /\ row'.there = TRUE
    BY <1>7, BumpIs
  <2>2. Others(l) /\ login'[l].pc = "get" /\ login'[l].since = login[l].since
    BY <2>1, GotoIs DEF Pcs
  <2>3. row'.lock = row.lock /\ (row.there => row'.age = row.age) /\ (~row.there => row'.age = login[l].since)
    BY <1>7, <1>s, BumpIs
  <2>4. InForce(row', login'[l].since)
    <3>1. CASE row.there
      BY <1>c, <2>1, <2>2, <2>3, <3>1 DEF Calm, RowInForce, InForce
    <3>2. CASE ~row.there
      BY <1>a, <1>k, <2>2, <2>3, <3>2 DEF InForce
    <3>. QED
      BY <1>a, <3>1, <3>2
  <2>5. (row'.there = row.there /\ row'.age = row.age) \/ row'.age <= 1
    <3>1. CASE row.there
      <4>1. row'.there = row.there /\ row'.age = row.age
        BY <1>a, <2>1, <2>3, <3>1
      <4>. QED
        BY <4>1
    <3>2. CASE ~row.there
      <4>1. row'.age = login[l].since
        BY <2>3, <3>2
      <4>. QED
        BY <1>a, <4>1
    <3>. QED
      BY <3>1, <3>2
  <2>6. Kept(l)
    BY <2>1, <2>2, <2>3, <2>4, <2>5 DEF Kept, RowBacks
  <2>. QED
    BY <1>c, <2>1, <2>6, KeepsLocks DEF Calm
<1>8. ASSUME NEW l \in Logins, Get(l) PROVE LockInv'
  <2>1. login[l].pc = "get" /\ UNCHANGED <<row, entry, faults, cleared>>
    BY <1>8 DEF Get
  <2>2. row.there /\ InForce(row, login[l].since)
    BY <1>c, <2>1 DEF Calm, RowInForce
  <2>3. PICK pc \in {"lock", "set"} : login' = [login EXCEPT ![l].got = row, ![l].pc = pc]
    BY <1>8, <2>2 DEF Get
  <2>4. pc \in Pcs /\ GotoWith(l, pc, row)
    BY <2>3 DEF GotoWith, TypeOK, Login, Pcs
  <2>5. Others(l) /\ login'[l].pc = pc /\ login'[l].got = row /\ login'[l].since = login[l].since
    BY <1>a, <2>4, GotoWithIs
  <2>6. Kept(l)
    BY <1>a, <2>1, <2>2, <2>3, <2>5 DEF Kept, RowBacks, Backs
  <2>. QED
    BY <1>c, <2>1, <2>6, KeepsLocks DEF Calm
<1>9. ASSUME NEW l \in Logins, Lock(l) PROVE LockInv'
  <2>1. login[l].pc = "lock" /\ UNCHANGED <<entry, faults, cleared>>
    BY <1>9 DEF Lock
  <2>2. row.there
    BY <1>c, <2>1 DEF Calm, RowInForce
  <2>3. row' = Locked(l) /\ login' = [login EXCEPT ![l].got = Locked(l), ![l].pc = "set"]
    BY <1>9, <2>2 DEF Lock
  <2>4. GotoWith(l, "set", Locked(l))
    BY <2>3 DEF GotoWith, TypeOK, Login
  <2>5. Others(l) /\ login'[l].pc = "set" /\ login'[l].got = Locked(l)
    BY <2>4, GotoWithIs, LockIs DEF Pcs
  <2>6. row' \in Entry /\ row'.there = row.there /\ row'.lock >= Lockout - 1
    BY <2>3, LockIs
  <2>7. row'.lock \in Int /\ row'.lock >= 0
    BY <1>k, <2>6, EntryFields
  <2>8. row'.there
    BY <2>2, <2>6
  <2>9. Backs(row', login'[l].got.lock)
    BY <2>3, <2>5, <2>7 DEF Backs
  <2>10. Kept(l)
    BY <2>1, <2>5, <2>6, <2>7, <2>8, <2>9 DEF Kept, RowBacks
  <2>. QED
    BY <1>c, <2>1, <2>10, KeepsLocks DEF Calm
<1>10. ASSUME NEW l \in Logins, StoreFails(l) \/ Delete(l) PROVE LockInv'
  BY <1>10, <1>f DEF StoreFails, Delete
<1>11. ASSUME NEW l \in Logins, Forget(l) PROVE LockInv'
  <2>1. login[l].pc = "forget" /\ Goto(l, "delete") /\ UNCHANGED <<row, faults, cleared>>
    BY <1>11 DEF Forget
  <2>2. Others(l) /\ login'[l].pc = "delete"
    BY <2>1, GotoIs DEF Pcs
  <2>3. entry'[NodeOf[l]] = None /\ \A n \in Nodes \ {NodeOf[l]} : entry'[n] = entry[n]
    BY <1>11, <1>n DEF Forget, TypeOK
  <2>4. Backs(row', entry'[NodeOf[l]].lock)
    BY <1>k, <2>3, Blank DEF Backs
  <2>5. Kept(l)
    BY <1>a, <2>1, <2>2, <2>3, <2>4 DEF Kept, RowBacks
  <2>. QED
    BY <1>c, <2>1, <2>5, KeepsLocks DEF Calm
<1>12. ASSUME NEW n \in Nodes, Restart(n) PROVE LockInv'
  BY <1>12, <1>f DEF Restart
<1>13. ASSUME CleanupAuthLockouts PROVE LockInv'
  <2>1. UNCHANGED <<entry, login, faults, cleared>> /\ row' = None /\ row.there /\ row.age = Aged /\ row.lock = Over
    BY <1>13 DEF CleanupAuthLockouts
  <2>2. row'.lock = row.lock /\ ~row'.there
    BY <2>1, Blank
  <2>3. EntriesBacked' /\ CopiesBacked'
    BY <1>c, <2>1, <2>2 DEF Calm, EntriesBacked, CopiesBacked, Backs, Recording
  <2>4. ASSUME NEW l \in Logins, login[l].pc \in {"get", "lock"} PROVE FALSE
    <3>1. InForce(row, login[l].since)
      BY <1>c, <2>1, <2>4 DEF Calm, RowInForce
    <3>. QED
      BY <1>a, <1>k, <2>1, <3>1 DEF InForce
  <2>5. RowInForce'
    BY <2>1, <2>2, <2>4 DEF RowInForce
  <2>. QED
    BY <2>3, <2>5 DEF LockInv
<1>14. ASSUME Tick PROVE LockInv'
  <2>1. EntriesBacked /\ CopiesBacked /\ RowInForce
    BY <1>14, <1>c DEF Tick, Calm
  <2>2. ASSUME NEW e \in Entry, ~e.there => e.lock = Over, Backs(row, e.lock)
        PROVE  Backs(row', Later(e).lock)
    <3>1. /\ row.there => row'.lock = IF row.lock > Over THEN row.lock - 1 ELSE row.lock
          /\ e.there => Later(e).lock = IF e.lock > Over THEN e.lock - 1 ELSE e.lock
          /\ ~e.there => Later(e) = e
      BY <1>14, <1>a, <2>2, LaterIs, TickIs
    <3>2. e.there \in BOOLEAN /\ e.lock \in Int
      BY EntryFields
    <3>3. CASE e.lock <= 0
      BY <1>k, <2>2, <3>1, <3>2, <3>3 DEF Backs
    <3>4. CASE e.lock > 0
      <4>1. row.lock >= 0 /\ row.lock + 1 >= e.lock
        BY <1>a, <2>2, <3>2, <3>4 DEF Backs
      <4>2. row.there /\ e.there
        BY <1>k, <1>s, <2>2, <3>4, <4>1
      <4>. QED
        BY <1>a, <1>k, <3>1, <3>2, <4>1, <4>2 DEF Backs
    <3>. QED
      BY <3>2, <3>3, <3>4
  <2>3. \A l \in Logins : login'[l].pc = login[l].pc /\ (Recording(l) => Recording(l)')
    BY <1>14, TickIs DEF Recording
  <2>4. EntriesBacked'
    <3>. SUFFICES ASSUME NEW n \in Nodes
                  PROVE  Backs(row', entry'[n].lock) \/ \E l \in Logins : NodeOf[l] = n /\ Recording(l)'
      BY DEF EntriesBacked
    <3>1. CASE Backs(row, entry[n].lock)
      BY <1>14, <1>a, <1>s, <2>2, <3>1, TickIs
    <3>. QED
      BY <2>1, <2>3, <3>1 DEF EntriesBacked
  <2>5. CopiesBacked'
    <3>. SUFFICES ASSUME NEW l \in Logins, login'[l].pc \in {"cache", "set"}
                  PROVE  Backs(row', login'[l].got.lock)
      BY DEF CopiesBacked
    <3>1. Backs(row, login[l].got.lock) /\ login'[l].got = Later(login[l].got)
      BY <1>14, <2>1, TickIs DEF CopiesBacked
    <3>. QED
      BY <1>a, <1>s, <2>2, <3>1
  <2>6. RowInForce'
    <3>. SUFFICES ASSUME NEW l \in Logins, login'[l].pc \in {"bump", "get", "lock"},
                         login'[l].pc = "bump" => row'.there
                  PROVE  row'.there /\ InForce(row', login'[l].since)
      BY DEF RowInForce
    <3>1. /\ login[l].pc \in {"bump", "get", "lock"} /\ login[l].since = 0 /\ login'[l].since = 1
          /\ row'.there = row.there
          /\ row.there => /\ row'.lock = IF row.lock > Over THEN row.lock - 1 ELSE row.lock
                          /\ row'.age = IF row.age < Aged THEN row.age + 1 ELSE row.age
      BY <1>14, <1>a, LaterIs, TickIs DEF Recording
    <3>2. row.there /\ InForce(row, login[l].since)
      BY <1>14, <2>1, <3>1, TickIs DEF RowInForce
    <3>. QED
      BY <1>a, <1>k, <3>1, <3>2 DEF InForce
  <2>. QED
    BY <2>4, <2>5, <2>6 DEF LockInv
<1>15. ASSUME UNCHANGED vars PROVE LockInv'
  BY <1>c, <1>15 DEF vars, Calm, LockInv, EntriesBacked, CopiesBacked, RowInForce, Recording
<1>. QED
  BY <1>1, <1>2, <1>3, <1>4, <1>5, <1>6, <1>7, <1>8, <1>9, <1>10, <1>11, <1>12, <1>13, <1>14, <1>15
  DEF Next, Step

(* A node that refuses an address from memory does so because the row is    *)
(* locked as long, but for a login that is still recording, failures of the *)
(* database, and a row that a success has removed.                          *)
THEOREM LocksAreBacked == Spec => []LockBacked
<1>1. Init => TypeOK /\ ShapeInv /\ LockInv
  <2>. SUFFICES ASSUME Init PROVE LockInv
    BY InitType
  <2>1. (\A n \in Nodes : entry[n].lock <= 0) /\ \A l \in Logins : login[l].pc = "idle"
    BY Blank, Constants DEF Init
  <2>. QED
    BY <2>1 DEF LockInv, EntriesBacked, CopiesBacked, RowInForce, Backs
<1>2. TypeOK /\ ShapeInv /\ LockInv /\ [Next]_vars => (TypeOK /\ ShapeInv /\ LockInv)'
  BY NextType, NextLock
<1>3. TypeOK /\ LockInv => LockBacked
  <2>. SUFFICES ASSUME TypeOK, LockInv, ~cleared, ~(faults > 0) PROVE LockBacked
    BY DEF LockBacked
  <2>1. Calm
    BY DEF Calm, TypeOK
  <2>. QED
    BY <2>1 DEF LockInv, EntriesBacked, Backs, LockBacked
<1>. QED
  BY <1>1, <1>2, <1>3, PTL DEF Spec

==============================================================================
