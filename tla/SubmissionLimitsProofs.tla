------------------------ MODULE SubmissionLimitsProofs ------------------------
(***************************************************************************)
(* The send limits hold for every number of clients and every limit: the   *)
(* row that a submission locks first keeps the others of its scope from    *)
(* looking at the limits until its own job counts.                         *)
(***************************************************************************)
EXTENDS SubmissionLimits, FiniteSetTheorems, TLAPS

(* The recipients of jobs younger than t, of w[a] recipients at each age a. *)
Recipients(w, t) == UNION {{a} \X (1..w[a]) : a \in 0..t - 1}

(* A submitter beyond the first row of its plan, with which it has looked   *)
(* at the limits again, still holds that row, so that each scope has one    *)
(* such submitter at most, and there is room for its recipients.            *)
Beyond(c) == c \in Submitters /\ client[c].at > 1

HasRoom(c) ==
  /\ PerHour > 0 => Since(Kind[c], Hour) + client[c].count <= PerHour
  /\ PerDay > 0 => Since(Kind[c], Day) + client[c].count <= PerDay

Backed(c) ==
  /\ client[c].at >= 1
  /\ client[c].pc \in {"idle", "put"} => client[c].at = 1
  /\ client[c].pc = "commit" => client[c].at > 1
  /\ Beyond(c) => lock[Plan(c)[1]] = c /\ HasRoom(c)

RoomInv == \A c \in Clients : Backed(c)

------------------------------------------------------------------------------
(* The parts of a plan are rows; the first row of a submitter's is that of  *)
(* its scope alone.                                                         *)
LEMMA Plans ==
  ASSUME NEW c \in Clients
  PROVE  /\ Plan(c) \in Seq(Rows) /\ Len(Plan(c)) \in Nat \ {0} /\ Plan(c)[1] \in Rows
         /\ \A i \in 1..Len(Plan(c)) : Plan(c)[i] \in Rows
         /\ Kind[c] = "mailbox" => Plan(c)[1] = "mailbox"
         /\ Kind[c] = "domain" => Plan(c)[1] = "keys"
<1>1. Kind[c] \in {"mailbox", "domain", "append"}
  BY LimitsAssumption
<1>2. CASE Kind[c] = "mailbox"
  <2>1. Plan(c) = <<"mailbox", "sent", "mailbox">>
    BY <1>2 DEF Plan
  <2>. QED
    BY <1>2, <2>1 DEF Rows
<1>3. CASE Kind[c] = "domain"
  <2>1. Plan(c) = <<"keys">>
    BY <1>3 DEF Plan
  <2>. QED
    BY <1>3, <2>1 DEF Rows
<1>4. CASE Kind[c] = "append"
  <2>1. Plan(c) = <<"sent", "mailbox">>
    BY <1>4 DEF Plan
  <2>. QED
    BY <1>4, <2>1 DEF Rows
<1>. QED
  BY <1>1, <1>2, <1>3, <1>4

(* The hour and the day are within what is kept. *)
LEMMA Times == Hour \in 1..Day /\ Day \in Nat /\ Day >= 2 /\ Day \in 1..Day
  BY LimitsAssumption

(* recipientsSince counts the recipients of a scope, before and after a     *)
(* step.                                                                    *)
LEMMA SinceIs ==
  ASSUME NEW s, NEW t
  PROVE  /\ Since(s, t) = Cardinality(Recipients(jobs[s], t))
         /\ Since(s, t)' = Cardinality(Recipients(jobs'[s], t))
<1>1. Since(s, t) = Cardinality(Recipients(jobs[s], t))
  BY DEF Since, Recipients
<1>2. (Since(s, t) = Cardinality(Recipients(jobs[s], t)))'
  BY <1>1, PTL
<1>3. Recipients(jobs[s], t)' = Recipients(jobs'[s], t)
  BY DEF Recipients
<1>. QED
  BY <1>1, <1>2, <1>3

(* The ages that are counted are some of those that are kept. *)
LEMMA Ages ==
  ASSUME NEW t \in 1..Day
  PROVE  IsFiniteSet(0..t - 1) /\ 0..t - 1 \subseteq 0..Day - 1
<1>1. t \in Int /\ t - 1 \in Int /\ t <= Day /\ Day \in Int
  BY Times
<1>2. IsFiniteSet(0..t - 1)
  BY <1>1, FS_Interval
<1>. QED
  BY <1>1, <1>2

(* Who the recipients are, and that they can be counted. *)
LEMMA RecipientsAre ==
  ASSUME NEW w, NEW t
  PROVE  \A r : r \in Recipients(w, t) <=> \E a \in 0..t - 1 : \E k \in 1..w[a] : r = <<a, k>>
<1>. SUFFICES ASSUME NEW r
              PROVE  r \in Recipients(w, t) <=> \E a \in 0..t - 1 : \E k \in 1..w[a] : r = <<a, k>>
  OBVIOUS
<1>1. ASSUME r \in Recipients(w, t) PROVE \E a \in 0..t - 1 : \E k \in 1..w[a] : r = <<a, k>>
  <2>1. PICK a \in 0..t - 1 : r \in {a} \X (1..w[a])
    BY <1>1 DEF Recipients
  <2>. QED
    BY <2>1
<1>2. ASSUME NEW a \in 0..t - 1, NEW k \in 1..w[a], r = <<a, k>> PROVE r \in Recipients(w, t)
  <2>1. r \in {a} \X (1..w[a])
    BY <1>2
  <2>. QED
    BY <2>1 DEF Recipients
<1>. QED
  BY <1>1, <1>2

LEMMA RecipientsFinite ==
  ASSUME NEW w, NEW t \in 1..Day, \A x \in 0..t - 1 : w[x] \in Nat
  PROVE  IsFiniteSet(Recipients(w, t)) /\ Cardinality(Recipients(w, t)) \in Nat
<1>. DEFINE f == [a \in 0..t - 1 |-> {a} \X (1..w[a])]
            parts == {{a} \X (1..w[a]) : a \in 0..t - 1}
<1>1. f \in Surjection(0..t - 1, parts)
  <2>1. ASSUME NEW a \in 0..t - 1 PROVE f[a] \in parts
    OBVIOUS
  <2>2. \A p \in parts : \E a \in 0..t - 1 : f[a] = p
    OBVIOUS
  <2>3. f = [a \in 0..t - 1 |-> f[a]]
    OBVIOUS
  <2>. HIDE DEF f, parts
  <2>4. f \in [0..t - 1 -> parts]
    BY <2>1, <2>3
  <2>. QED
    BY <2>2, <2>4 DEF Surjection
<1>2. IsFiniteSet(parts)
  <2>. HIDE DEF f, parts
  <2>. QED
    BY <1>1, Ages, FS_Surjection
<1>3. ASSUME NEW a \in 0..t - 1 PROVE IsFiniteSet({a} \X (1..w[a]))
  <2>1. IsFiniteSet({a})
    BY FS_Singleton
  <2>2. IsFiniteSet(1..w[a])
    <3>1. 1 \in Int /\ w[a] \in Int
      BY <1>3
    <3>. QED
      BY <3>1, FS_Interval, Zenon
  <2>. QED
    BY <2>1, <2>2, FS_Product
<1>4. \A p \in parts : IsFiniteSet(p)
  BY <1>3
<1>5. IsFiniteSet(UNION parts)
  <2>. HIDE DEF parts
  <2>. QED
    BY <1>2, <1>4, FS_UNION
<1>. QED
  BY <1>5, FS_CardinalityType DEF Recipients

(* One age has n recipients more. *)
LEMMA RecipientsGrow ==
  ASSUME NEW w, NEW v, NEW t \in 1..Day, NEW a, NEW n \in Nat,
         \A x \in 0..t - 1 : w[x] \in Nat,
         \A x \in (0..t - 1) \ {a} : v[x] = w[x],
         a \in 0..t - 1 => v[a] = w[a] + n
  PROVE  Cardinality(Recipients(v, t)) <= Cardinality(Recipients(w, t)) + n
<1>. DEFINE R == Recipients(w, t)
            E == {a} \X (w[a] + 1..w[a] + n)
<1>1. IsFiniteSet(R) /\ Cardinality(R) \in Nat
  BY RecipientsFinite
<1>2. CASE a \notin 0..t - 1
  <2>1. Recipients(v, t) = R
    BY <1>2 DEF Recipients
  <2>. QED
    BY <1>1, <2>1
<1>3. CASE a \in 0..t - 1
  <2>1. w[a] \in Nat
    BY <1>3
  <2>2. IsFiniteSet(E) /\ Cardinality(E) = n
    <3>1. IsFiniteSet({a}) /\ Cardinality({a}) = 1
      BY FS_Singleton
    <3>2. IsFiniteSet(w[a] + 1..w[a] + n) /\ Cardinality(w[a] + 1..w[a] + n) = n
      <4>1. w[a] + 1 \in Int /\ w[a] + n \in Int
        BY <2>1
      <4>2. /\ IsFiniteSet(w[a] + 1..w[a] + n)
            /\ Cardinality(w[a] + 1..w[a] + n)
                 = IF w[a] + 1 > w[a] + n THEN 0 ELSE (w[a] + n) - (w[a] + 1) + 1
        BY <4>1, FS_Interval
      <4>. QED
        BY <4>2, <2>1
    <3>3. IsFiniteSet(E) /\ Cardinality(E) = Cardinality({a}) * Cardinality(w[a] + 1..w[a] + n)
      BY <3>1, <3>2, FS_Product
    <3>. QED
      BY <3>1, <3>2, <3>3
  <2>3. Recipients(v, t) \subseteq R \cup E
    <3>1. ASSUME NEW x \in 0..t - 1, NEW k \in 1..v[x] PROVE <<x, k>> \in R \cup E
      <4>1. CASE x # a
        <5>1. k \in 1..w[x]
          BY <4>1
        <5>. QED
          BY <5>1, RecipientsAre
      <4>2. CASE x = a /\ k <= w[a]
        <5>1. k \in 1..w[x]
          BY <4>2, <2>1, <1>3
        <5>. QED
          BY <5>1, RecipientsAre
      <4>3. CASE x = a /\ ~(k <= w[a])
        <5>1. k \in w[a] + 1..w[a] + n
          BY <1>3, <2>1, <4>3
        <5>. QED
          BY <4>3, <5>1
      <4>. QED
        BY <4>1, <4>2, <4>3
    <3>. QED
      BY <3>1, RecipientsAre
  <2>4. IsFiniteSet(R \cup E) /\ Cardinality(R \cup E) = Cardinality(R) + n - Cardinality(R \cap E)
    <3>. HIDE DEF R, E
    <3>. QED
      BY <1>1, <2>2, FS_Union
  <2>5. Cardinality(R \cap E) \in Nat
    <3>. HIDE DEF R, E
    <3>. QED
      BY <1>1, FS_Intersection, FS_CardinalityType
  <2>6. Cardinality(Recipients(v, t)) <= Cardinality(R \cup E) /\ IsFiniteSet(Recipients(v, t))
    <3>. HIDE DEF R, E
    <3>. QED
      BY <2>3, <2>4, FS_Subset
  <2>7. Cardinality(Recipients(v, t)) \in Nat
    BY <2>6, FS_CardinalityType
  <2>. HIDE DEF R, E
  <2>8. Cardinality(Recipients(v, t)) <= Cardinality(R) + n
    BY <1>1, <2>4, <2>5, <2>6, <2>7
  <2>. QED
    BY <2>8 DEF R
<1>. QED
  BY <1>2, <1>3

(* Every age moves on by one, and there is none new. *)
LEMMA RecipientsShift ==
  ASSUME NEW w, NEW v, NEW t \in 1..Day, \A x \in 0..Day - 1 : w[x] \in Nat,
         v[0] = 0, \A x \in 1..Day - 1 : v[x] = w[x - 1]
  PROVE  Cardinality(Recipients(v, t)) <= Cardinality(Recipients(w, t))
<1>. DEFINE f == [r \in Recipients(v, t) |-> <<r[1] - 1, r[2]>>]
<1>1. ASSUME NEW x \in 0..t - 1, NEW k \in 1..v[x]
      PROVE  x - 1 \in 0..t - 1 /\ k \in 1..w[x - 1]
  <2>1. x # 0
    BY <1>1
  <2>2. x \in 1..Day - 1 /\ x - 1 \in 0..t - 1
    BY <2>1, Times
  <2>. QED
    BY <1>1, <2>2
<1>2. ASSUME NEW r \in Recipients(v, t) PROVE f[r] \in Recipients(w, t) /\ r[1] \in Int /\ r = <<r[1], r[2]>>
  <2>1. PICK x \in 0..t - 1 : \E k \in 1..v[x] : r = <<x, k>>
    BY <1>2, RecipientsAre
  <2>2. PICK k \in 1..v[x] : r = <<x, k>>
    BY <2>1
  <2>3. f[r] = <<x - 1, k>>
    BY <2>2
  <2>4. x - 1 \in 0..t - 1 /\ k \in 1..w[x - 1]
    BY <1>1
  <2>. QED
    BY <2>2, <2>3, <2>4, RecipientsAre
<1>3. f \in Injection(Recipients(v, t), Recipients(w, t))
  <2>1. f \in [Recipients(v, t) -> Recipients(w, t)]
    BY <1>2
  <2>2. ASSUME NEW r \in Recipients(v, t), NEW q \in Recipients(v, t), f[r] = f[q] PROVE r = q
    <3>1. r[1] - 1 = q[1] - 1 /\ r[2] = q[2]
      BY <2>2
    <3>2. r[1] \in Int /\ q[1] \in Int /\ r = <<r[1], r[2]>> /\ q = <<q[1], q[2]>>
      BY <1>2
    <3>. QED
      BY <3>1, <3>2
  <2>. QED
    BY <2>1, <2>2 DEF Injection, IsInjective
<1>4. IsFiniteSet(Recipients(w, t))
  BY Ages, RecipientsFinite
<1>. QED
  BY <1>3, <1>4, FS_Injection

(* So is what has been sent in a scope. *)
LEMMA SinceNat ==
  ASSUME TypeOK, TypeOK', NEW s \in Scopes, NEW t \in 1..Day
  PROVE  Since(s, t) \in Nat /\ Since(s, t)' \in Nat
<1>1. jobs \in [Scopes -> [0..Day - 1 -> Nat]] /\ jobs' \in [Scopes -> [0..Day - 1 -> Nat]]
  BY DEF TypeOK
<1>2. /\ \A x \in 0..t - 1 : jobs[s][x] \in Nat
      /\ \A x \in 0..t - 1 : jobs'[s][x] \in Nat
  BY <1>1, Ages
<1>. QED
  BY <1>2, SinceIs, RecipientsFinite

(* The initial state is well formed. *)
LEMMA InitType == Init => TypeOK
<1>. SUFFICES ASSUME Init PROVE TypeOK
  OBVIOUS
<1>1. jobs \in [Scopes -> [0..Day - 1 -> Nat]] /\ lock \in [Rows -> Clients \cup {Nobody}]
  BY DEF Init
<1>2. Ready \in Client
  BY DEF Ready, Client
<1>. QED
  BY <1>1, <1>2 DEF Init, TypeOK

(* The end of a transaction keeps the shapes. *)
LEMMA EndedType ==
  ASSUME TypeOK, NEW c \in Clients, Ended(c)
  PROVE  /\ lock' \in [Rows -> Clients \cup {Nobody}] /\ client' \in [Clients -> Client]
         /\ client' = [client EXCEPT ![c] = Ready]
         /\ \A r \in Rows : lock'[r] = IF lock[r] = c THEN Nobody ELSE lock[r]
<1>1. Ready \in Client
  BY DEF Ready, Client
<1>. QED
  BY <1>1 DEF Ended, TypeOK

(* Every step keeps the shapes. *)
LEMMA NextType == TypeOK /\ [Next]_vars => TypeOK'
<1>. SUFFICES ASSUME TypeOK, [Next]_vars PROVE TypeOK'
  OBVIOUS
<1>a. /\ jobs \in [Scopes -> [0..Day - 1 -> Nat]] /\ client \in [Clients -> Client]
      /\ lock \in [Rows -> Clients \cup {Nobody}]
  BY DEF TypeOK
<1>1. ASSUME NEW c \in Clients, Prepare(c) PROVE TypeOK'
  <2>1. PICK n \in Counts : client' = [client EXCEPT ![c].pc = "put", ![c].count = n]
    BY <1>1 DEF Prepare
  <2>2. n \in Nat
    BY LimitsAssumption
  <2>3. client' \in [Clients -> Client]
    BY <1>a, <2>1, <2>2, ZenonT(40) DEF Client
  <2>. QED
    BY <1>a, <1>1, <2>3 DEF Prepare, TypeOK
<1>2. ASSUME NEW c \in Clients, Begin(c) \/ Create(c) PROVE TypeOK'
  <2>1. client' \in [Clients -> Client]
    BY <1>a, <1>2, ZenonT(40) DEF Begin, Create, Client
  <2>. QED
    BY <1>a, <1>2, <2>1 DEF Begin, Create, TypeOK
<1>3. ASSUME NEW c \in Clients, Update(c) PROVE TypeOK'
  <2>1. CASE Ended(c)
    BY <1>a, <1>3, <2>1, EndedType DEF Update, TypeOK
  <2>2. CASE /\ lock' = [lock EXCEPT ![Plan(c)[client[c].at]] = c]
             /\ client' = [client EXCEPT ![c].at = client[c].at + 1]
    <3>1. client' \in [Clients -> Client]
      <4>1. client[c] \in Client
        BY <1>a
      <4>2. client[c].at \in Nat
        BY <4>1 DEF Client
      <4>3. [client[c] EXCEPT !.at = client[c].at + 1] \in Client
        BY <4>1, <4>2 DEF Client
      <4>4. client' = [client EXCEPT ![c] = [client[c] EXCEPT !.at = client[c].at + 1]]
        BY <1>a, <2>2
      <4>. QED
        BY <1>a, <4>3, <4>4
    <3>2. lock' \in [Rows -> Clients \cup {Nobody}]
      BY <1>a, <2>2
    <3>. QED
      BY <1>a, <1>3, <3>1, <3>2 DEF Update, TypeOK
  <2>. QED
    BY <1>3, <2>1, <2>2 DEF Update
<1>4. ASSUME NEW c \in Clients, Commit(c) PROVE TypeOK'
  <2>1. CASE jobs' = jobs
    BY <1>a, <1>4, <2>1, EndedType DEF Commit, TypeOK
  <2>2. CASE /\ c \in Submitters
             /\ jobs' = [jobs EXCEPT ![Kind[c]][client[c].age] = jobs[Kind[c]][client[c].age] + client[c].count]
    <3>1. client[c].age \in 0..Day - 1 /\ client[c].count \in Nat /\ Kind[c] \in Scopes
      BY <1>a, <2>2, Times DEF Client, Submitters
    <3>2. jobs[Kind[c]] \in [0..Day - 1 -> Nat]
      BY <1>a, <3>1
    <3>3. jobs[Kind[c]][client[c].age] + client[c].count \in Nat
      <4>1. jobs[Kind[c]][client[c].age] \in Nat
        BY <3>1, <3>2
      <4>. QED
        BY <3>1, <4>1
    <3>4. jobs' \in [Scopes -> [0..Day - 1 -> Nat]]
      BY <1>a, <2>2, <3>1, <3>2, <3>3
    <3>. QED
      BY <1>4, <3>4, EndedType DEF Commit, TypeOK
  <2>. QED
    BY <1>4, <2>1, <2>2 DEF Commit
<1>5. ASSUME NEW c \in Clients, Abort(c) PROVE TypeOK'
  BY <1>a, <1>5, EndedType DEF Abort, TypeOK
<1>6. ASSUME Tick PROVE TypeOK'
  <2>1. jobs' \in [Scopes -> [0..Day - 1 -> Nat]]
    <3>1. ASSUME NEW s \in Scopes, NEW x \in 0..Day - 1
          PROVE  (IF x = 0 THEN 0 ELSE jobs[s][x - 1]) \in Nat
      <4>1. CASE x = 0
        BY <4>1
      <4>2. CASE x # 0
        <5>1. x - 1 \in 0..Day - 1
          BY <4>2, Times
        <5>. QED
          BY <1>a, <4>2, <5>1
      <4>. QED
        BY <4>1, <4>2
    <3>. QED
      BY <1>6, <3>1 DEF Tick
  <2>2. client' \in [Clients -> Client]
    <3>1. ASSUME NEW c \in Clients
          PROVE  (IF client[c].pc = "commit" THEN [client[c] EXCEPT !.age = 1] ELSE client[c]) \in Client
      <4>1. client[c] \in Client
        BY <1>a
      <4>. QED
        BY <4>1 DEF Client
    <3>. QED
      BY <1>6, <3>1 DEF Tick
  <2>. QED
    BY <1>a, <1>6, <2>1, <2>2 DEF Tick, TypeOK
<1>7. CASE UNCHANGED vars
  BY <1>a, <1>7 DEF vars, TypeOK
<1>. QED
  BY <1>1, <1>2, <1>3, <1>4, <1>5, <1>6, <1>7 DEF Next, Step

(* Every value keeps its shape: the rows of jobs, the locks, the clients.   *)
THEOREM TypeCorrect == Spec => []TypeOK
  BY InitType, NextType, PTL DEF Spec

------------------------------------------------------------------------------
(* The room that a submitter beyond its first row has.                      *)

(* What is counted in a scope whose jobs stay is the same after the step.   *)
LEMMA SinceStays ==
  ASSUME NEW s, NEW t, jobs'[s] = jobs[s]
  PROVE  Since(s, t)' = Since(s, t)
  BY SinceIs

(* A client that does not step, beside one that does: its row is not taken. *)
LEMMA OthersStay ==
  ASSUME TypeOK, RoomInv, NEW c \in Clients, NEW d \in Clients, d # c, client'[d] = client[d],
         \A r \in Rows : lock'[r] = lock[r] \/ (lock[r] \in {Nobody, c}),
         Beyond(d) => jobs'[Kind[d]] = jobs[Kind[d]]
  PROVE  Backed(d)'
<1>1. Backed(d)
  BY DEF RoomInv, Backed
<1>2. ASSUME Beyond(d) PROVE lock'[Plan(d)[1]] = d
  <2>1. lock[Plan(d)[1]] = d /\ Plan(d)[1] \in Rows
    BY <1>1, <1>2, Plans DEF Backed
  <2>2. d \notin {Nobody, c}
    BY LimitsAssumption
  <2>. QED
    BY <2>1, <2>2
<1>3. ASSUME Beyond(d) PROVE HasRoom(d)'
  <2>1. /\ Since(Kind[d], Hour)' = Since(Kind[d], Hour) /\ Since(Kind[d], Day)' = Since(Kind[d], Day)
    BY <1>3, SinceStays
  <2>. QED
    BY <1>1, <1>3, <2>1 DEF HasRoom, Backed
<1>4. Beyond(d)' <=> Beyond(d)
  BY DEF Beyond
<1>. QED
  BY <1>1, <1>2, <1>3, <1>4 DEF Backed

(* Two submitters of one scope are not both beyond their first row.         *)
LEMMA OneBeyond ==
  ASSUME RoomInv, NEW c \in Clients, NEW d \in Clients, Beyond(c), Beyond(d), Kind[c] = Kind[d]
  PROVE  c = d
<1>1. lock[Plan(c)[1]] = c /\ lock[Plan(d)[1]] = d
  BY DEF RoomInv, Backed
<1>2. Plan(c) = Plan(d)
  BY DEF Plan
<1>. QED
  BY <1>1, <1>2

(* The client that steps is done, or does not go beyond its first row. *)
LEMMA ReadyBacked ==
  ASSUME NEW c \in Clients, client'[c].at = 1, client'[c].pc # "commit" PROVE Backed(c)'
  BY DEF Backed, Beyond

(* What is counted after c has added its recipients to one of the ages.     *)
LEMMA SinceAdds ==
  ASSUME TypeOK, NEW s \in Scopes, NEW t \in 1..Day, NEW a \in 0..Day - 1, NEW n \in Nat,
         jobs' = [jobs EXCEPT ![s][a] = jobs[s][a] + n]
  PROVE  Since(s, t)' <= Since(s, t) + n
<1>1. jobs[s] \in [0..Day - 1 -> Nat] /\ jobs'[s] = [jobs[s] EXCEPT ![a] = jobs[s][a] + n]
  BY DEF TypeOK
<1>2. 0..t - 1 \subseteq 0..Day - 1
  BY Ages
<1>3. /\ \A x \in 0..t - 1 : jobs[s][x] \in Nat
      /\ \A x \in (0..t - 1) \ {a} : jobs'[s][x] = jobs[s][x]
      /\ jobs'[s][a] = jobs[s][a] + n
  BY <1>1, <1>2
<1>4. Cardinality(Recipients(jobs'[s], t)) <= Cardinality(Recipients(jobs[s], t)) + n
  BY <1>3, RecipientsGrow
<1>. QED
  BY <1>4, SinceIs

(* With time what is counted does not grow. *)
LEMMA SinceTicks ==
  ASSUME TypeOK, Tick, NEW s \in Scopes, NEW t \in 1..Day
  PROVE  Since(s, t)' <= Since(s, t)
<1>1. jobs'[s] = [a \in 0..Day - 1 |-> IF a = 0 THEN 0 ELSE jobs[s][a - 1]]
  BY DEF Tick
<1>2. Day \in Nat \ {0} /\ jobs[s] \in [0..Day - 1 -> Nat]
  BY Times DEF TypeOK
<1>3. \A x \in 0..Day - 1 : jobs[s][x] \in Nat
  BY <1>2
<1>4. jobs'[s][0] = 0 /\ \A x \in 1..Day - 1 : jobs'[s][x] = jobs[s][x - 1]
  BY <1>1, <1>2
<1>5. Cardinality(Recipients(jobs'[s], t)) <= Cardinality(Recipients(jobs[s], t))
  BY <1>3, <1>4, RecipientsShift
<1>. QED
  BY <1>5, SinceIs

(* Every step keeps the room. *)
LEMMA NextRoom == TypeOK /\ TypeOK' /\ RoomInv /\ [Next]_vars => RoomInv'
<1>. SUFFICES ASSUME TypeOK, TypeOK', RoomInv, [Next]_vars, NEW d \in Clients PROVE Backed(d)'
  BY DEF RoomInv
<1>a. client \in [Clients -> Client] /\ lock \in [Rows -> Clients \cup {Nobody}]
  BY DEF TypeOK
<1>b. Backed(d)
  BY DEF RoomInv
<1>1. ASSUME NEW c \in Clients, Ended(c), jobs' = jobs PROVE Backed(d)'
  <2>1. CASE c = d
    BY <1>a, <1>1, <2>1, EndedType, ReadyBacked DEF Ready
  <2>2. CASE c # d
    <3>1. client'[d] = client[d] /\ \A r \in Rows : lock'[r] = lock[r] \/ (lock[r] \in {Nobody, c})
      BY <1>a, <1>1, <2>2, EndedType
    <3>. QED
      BY <1>1, <2>2, <3>1, OthersStay
  <2>. QED
    BY <2>1, <2>2
<1>2. ASSUME NEW c \in Clients, Prepare(c) PROVE Backed(d)'
  <2>1. PICK n \in Counts : client' = [client EXCEPT ![c].pc = "put", ![c].count = n]
    BY <1>2 DEF Prepare
  <2>2. CASE c = d
    <3>1. client[d] \in Client /\ client[d].at = 1
      BY <1>a, <1>b, <1>2, <2>2 DEF Prepare, Backed
    <3>2. client'[d].at = 1 /\ client'[d].pc # "commit"
      BY <1>a, <2>1, <2>2, <3>1 DEF Client
    <3>. QED
      BY <3>2, ReadyBacked
  <2>3. CASE c # d
    BY <1>a, <1>2, <2>1, <2>3, OthersStay DEF Prepare
  <2>. QED
    BY <2>2, <2>3
<1>3. ASSUME NEW c \in Clients, Begin(c) PROVE Backed(d)'
  <2>1. client' = [client EXCEPT ![c].pc = "tx"] /\ UNCHANGED <<jobs, lock>> /\ client[c].pc \in {"idle", "put"}
    BY <1>3 DEF Begin
  <2>2. CASE c = d
    <3>1. client[d] \in Client /\ client[d].at = 1
      BY <1>a, <1>b, <2>1, <2>2 DEF Backed
    <3>2. client'[d].at = 1 /\ client'[d].pc # "commit"
      BY <1>a, <2>1, <2>2, <3>1 DEF Client
    <3>. QED
      BY <3>2, ReadyBacked
  <2>3. CASE c # d
    BY <1>a, <2>1, <2>3, OthersStay
  <2>. QED
    BY <2>2, <2>3
<1>4. ASSUME NEW c \in Clients, Create(c) PROVE Backed(d)'
  <2>1. /\ client' = [client EXCEPT ![c].pc = "commit"] /\ UNCHANGED <<jobs, lock>>
        /\ client[c].at > Len(Plan(c))
    BY <1>4 DEF Create
  <2>2. CASE c = d
    <3>1. client[d] \in Client /\ client[d].at > 1 /\ client[d].at >= 1
      <4>1. client[d] \in Client
        BY <1>a
      <4>2. client[d].at \in Nat /\ Len(Plan(d)) \in Nat \ {0}
        BY <4>1, Plans DEF Client
      <4>. QED
        BY <2>1, <2>2, <4>1, <4>2
    <3>2. client'[d] = [client[d] EXCEPT !.pc = "commit"]
      BY <1>a, <2>1, <2>2
    <3>3. client'[d].at = client[d].at /\ client'[d].count = client[d].count /\ client'[d].pc = "commit"
      BY <3>1, <3>2 DEF Client
    <3>4. HasRoom(d)' <=> HasRoom(d)
      <4>1. Since(Kind[d], Hour)' = Since(Kind[d], Hour) /\ Since(Kind[d], Day)' = Since(Kind[d], Day)
        BY <2>1, SinceStays
      <4>. QED
        BY <3>3, <4>1 DEF HasRoom
    <3>. QED
      BY <1>b, <2>1, <3>1, <3>3, <3>4 DEF Backed, Beyond
  <2>3. CASE c # d
    BY <1>a, <2>1, <2>3, OthersStay
  <2>. QED
    BY <2>2, <2>3
<1>5. ASSUME NEW c \in Clients, Update(c) PROVE Backed(d)'
  <2>1. CASE Ended(c)
    BY <1>1, <1>5, <2>1 DEF Update
  <2>2. CASE /\ Recheck(c) => Within(c, client[c].count)
             /\ lock' = [lock EXCEPT ![Plan(c)[client[c].at]] = c]
             /\ client' = [client EXCEPT ![c].at = client[c].at + 1]
    <3>1. /\ client[c].pc = "tx" /\ client[c].at <= Len(Plan(c)) /\ jobs' = jobs
          /\ lock[Plan(c)[client[c].at]] \in {Nobody, c}
      BY <1>5 DEF Update
    <3>2. client[c] \in Client /\ client[c].at \in Nat /\ client[c].at >= 1
      BY <1>a DEF Client, RoomInv, Backed
    <3>3. Plan(c)[client[c].at] \in Rows
      BY <3>1, <3>2, Plans
    <3>4. lock'[Plan(c)[client[c].at]] = c /\ \A r \in Rows : r # Plan(c)[client[c].at] => lock'[r] = lock[r]
      BY <1>a, <2>2, <3>3
    <3>5. CASE c = d
      <4>1. client'[d] = [client[d] EXCEPT !.at = client[d].at + 1]
        BY <1>a, <2>2, <3>5
      <4>2. client'[d].at = client[d].at + 1 /\ client'[d].pc = "tx" /\ client'[d].count = client[d].count
        BY <3>1, <3>2, <3>5, <4>1 DEF Client
      <4>3. client'[d].at > 1
        BY <3>2, <3>5, <4>2
      <4>4. ASSUME d \in Submitters PROVE lock'[Plan(d)[1]] = d /\ HasRoom(d)
        <5>1. CASE client[d].at = 1
          <6>1. Within(d, client[d].count)
            BY <2>2, <3>5, <4>4, <5>1 DEF Recheck
          <6>. QED
            BY <3>4, <3>5, <5>1, <6>1 DEF Within, HasRoom
        <5>2. CASE client[d].at > 1
          <6>1. lock[Plan(d)[1]] = d /\ HasRoom(d)
            BY <1>b, <4>4, <5>2 DEF Backed, Beyond
          <6>2. lock'[Plan(d)[1]] = d
            BY <3>4, <3>5, <6>1, Plans
          <6>. QED
            BY <6>1, <6>2
        <5>. QED
          BY <3>2, <3>5, <5>1, <5>2
      <4>5. HasRoom(d)' <=> HasRoom(d)
        <5>1. Since(Kind[d], Hour)' = Since(Kind[d], Hour) /\ Since(Kind[d], Day)' = Since(Kind[d], Day)
          BY <3>1, SinceStays
        <5>. QED
          BY <4>2, <5>1 DEF HasRoom
      <4>6. client'[d].at >= 1
        BY <3>2, <3>5, <4>2
      <4>. QED
        BY <4>2, <4>3, <4>4, <4>5, <4>6 DEF Backed, Beyond
    <3>6. CASE c # d
      <4>1. client'[d] = client[d]
        BY <1>a, <2>2, <3>6
      <4>2. \A r \in Rows : lock'[r] = lock[r] \/ (lock[r] \in {Nobody, c})
        BY <3>1, <3>4
      <4>. QED
        BY <3>1, <3>6, <4>1, <4>2, OthersStay
    <3>. QED
      BY <3>5, <3>6
  <2>. QED
    BY <1>5, <2>1, <2>2 DEF Update
<1>6. ASSUME NEW c \in Clients, Commit(c) PROVE Backed(d)'
  <2>1. /\ client[c].pc = "commit" /\ Ended(c)
        /\ jobs' = IF c \in Submitters
                   THEN [jobs EXCEPT ![Kind[c]][client[c].age] = jobs[Kind[c]][client[c].age] + client[c].count]
                   ELSE jobs
    BY <1>6 DEF Commit
  <2>2. CASE c = d
    BY <1>a, <2>1, <2>2, EndedType, ReadyBacked DEF Ready
  <2>3. CASE c # d
    <3>1. /\ client'[d] = client[d]
          /\ \A r \in Rows : lock'[r] = lock[r] \/ (lock[r] \in {Nobody, c})
      BY <1>a, <2>1, <2>3, EndedType
    <3>2. ASSUME Beyond(d) PROVE jobs'[Kind[d]] = jobs[Kind[d]]
      <4>1. CASE c \in Submitters
        <5>1. Beyond(c)
          BY <2>1, <4>1 DEF RoomInv, Backed, Beyond
        <5>2. Kind[c] # Kind[d]
          BY <2>3, <3>2, <5>1, OneBeyond
        <5>3. Kind[d] \in Scopes
          BY <3>2 DEF Beyond, Submitters
        <5>. QED
          BY <2>1, <4>1, <5>2, <5>3 DEF TypeOK
      <4>2. CASE c \notin Submitters
        BY <2>1, <4>2
      <4>. QED
        BY <4>1, <4>2
    <3>. QED
      BY <2>3, <3>1, <3>2, OthersStay
  <2>. QED
    BY <2>2, <2>3
<1>7. ASSUME NEW c \in Clients, Abort(c) PROVE Backed(d)'
  BY <1>1, <1>7 DEF Abort
<1>8. ASSUME Tick PROVE Backed(d)'
  <2>1. /\ client' = [c \in Clients |-> IF client[c].pc = "commit" THEN [client[c] EXCEPT !.age = 1] ELSE client[c]]
        /\ lock' = lock
    BY <1>8 DEF Tick
  <2>2. client[d] \in Client
    BY <1>a
  <2>3. client'[d].pc = client[d].pc /\ client'[d].at = client[d].at /\ client'[d].count = client[d].count
    BY <2>1, <2>2 DEF Client
  <2>4. ASSUME Beyond(d) PROVE HasRoom(d)'
    <3>1. Kind[d] \in Scopes /\ HasRoom(d)
      BY <1>b, <2>4 DEF Beyond, Submitters, Backed
    <3>2. Since(Kind[d], Hour)' <= Since(Kind[d], Hour) /\ Since(Kind[d], Day)' <= Since(Kind[d], Day)
      BY <1>8, <3>1, Times, SinceTicks
    <3>3. Since(Kind[d], Hour) \in Nat /\ Since(Kind[d], Day) \in Nat
      BY <3>1, Times, SinceNat
    <3>4. Since(Kind[d], Hour)' \in Nat /\ Since(Kind[d], Day)' \in Nat
      BY <3>1, Times, SinceNat
    <3>5. client[d].count \in Nat /\ {PerHour, PerDay} \subseteq Nat
      BY <2>2, LimitsAssumption DEF Client
    <3>. QED
      BY <2>3, <3>1, <3>2, <3>3, <3>4, <3>5 DEF HasRoom
  <2>. QED
    BY <1>b, <2>1, <2>3, <2>4 DEF Backed, Beyond
<1>9. CASE UNCHANGED vars
  <2>1. Since(Kind[d], Hour)' = Since(Kind[d], Hour) /\ Since(Kind[d], Day)' = Since(Kind[d], Day)
    BY <1>9, SinceStays DEF vars
  <2>. QED
    BY <1>9, <1>b, <2>1 DEF vars, Backed, Beyond, HasRoom
<1>. QED
  BY <1>2, <1>3, <1>4, <1>5, <1>6, <1>7, <1>8, <1>9 DEF Next, Step

(* At first nobody is beyond its first row, and nothing has been sent.      *)
LEMMA InitRoom == Init => RoomInv /\ LimitsHold
<1>. SUFFICES ASSUME Init PROVE RoomInv /\ LimitsHold
  OBVIOUS
<1>1. RoomInv
  BY DEF Init, RoomInv, Backed, Beyond, Ready
<1>2. ASSUME NEW s \in Scopes, NEW t \in 1..Day PROVE Since(s, t) = 0
  <2>1. \A x \in 0..t - 1 : jobs[s][x] = 0
    BY Times DEF Init
  <2>2. Recipients(jobs[s], t) = {}
    BY <2>1, RecipientsAre
  <2>. QED
    BY <2>2, SinceIs, FS_EmptySet
<1>. QED
  BY <1>1, <1>2, Times, LimitsAssumption DEF LimitsHold

(* A job counts against the limits of its scope from the commit on, and     *)
(* there was room for it.                                                   *)
LEMMA NextLimits == TypeOK /\ TypeOK' /\ RoomInv /\ LimitsHold /\ [Next]_vars => LimitsHold'
<1>. SUFFICES ASSUME TypeOK, TypeOK', RoomInv, LimitsHold, [Next]_vars, NEW s \in Scopes,
                     NEW t \in {Hour, Day}, NEW limit \in Nat, limit > 0,
                     t = Hour => limit = PerHour, t = Day => limit = PerDay
              PROVE  Since(s, t)' <= limit
  BY LimitsAssumption DEF LimitsHold
<1>a. t \in 1..Day /\ Since(s, t) <= limit
  BY Times DEF LimitsHold
<1>b. Since(s, t) \in Nat /\ Since(s, t)' \in Nat
  BY <1>a, SinceNat
<1>1. CASE jobs'[s] = jobs[s]
  BY <1>1, <1>a, SinceStays
<1>2. ASSUME NEW c \in Clients, Commit(c) PROVE Since(s, t)' <= limit
  <2>1. CASE c \in Submitters /\ Kind[c] = s
    <3>1. /\ client[c].pc = "commit"
          /\ jobs' = [jobs EXCEPT ![s][client[c].age] = jobs[s][client[c].age] + client[c].count]
      BY <1>2, <2>1 DEF Commit
    <3>2. client[c].age \in 0..Day - 1 /\ client[c].count \in Nat
      <4>1. client[c] \in Client
        BY DEF TypeOK
      <4>. QED
        BY <4>1, Times DEF Client
    <3>3. Since(s, t)' <= Since(s, t) + client[c].count
      BY <1>a, <3>1, <3>2, SinceAdds
    <3>4. HasRoom(c)
      BY <2>1, <3>1 DEF RoomInv, Backed, Beyond
    <3>5. Since(s, t) + client[c].count <= limit
      BY <2>1, <3>4 DEF HasRoom
    <3>. QED
      BY <1>b, <3>2, <3>3, <3>5
  <2>2. CASE ~(c \in Submitters /\ Kind[c] = s)
    <3>1. jobs'[s] = jobs[s]
      BY <1>2, <2>2 DEF Commit, Submitters, TypeOK
    <3>. QED
      BY <1>1, <3>1
  <2>. QED
    BY <2>1, <2>2
<1>3. CASE Tick
  BY <1>3, <1>a, <1>b, SinceTicks
<1>4. CASE jobs' = jobs
  BY <1>1, <1>4
<1>. QED
  BY <1>2, <1>3, <1>4 DEF Next, Step, Prepare, Begin, Update, Create, Abort, vars

(* No more recipients than the limits allow are accepted within an hour or  *)
(* a day, however many clients submit, for a mailbox or for a domain.       *)
THEOREM LimitsAreKept == Spec => []LimitsHold
<1>1. TypeOK /\ TypeOK' /\ RoomInv /\ LimitsHold /\ [Next]_vars => RoomInv' /\ LimitsHold'
  BY NextRoom, NextLimits
<1>. QED
  BY <1>1, InitRoom, TypeCorrect, PTL DEF Spec

=============================================================================
