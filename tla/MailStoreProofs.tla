--------------------------- MODULE MailStoreProofs ---------------------------
(***************************************************************************)
(* What MailStore promises for every number of messages, folders, labels   *)
(* and callers: its types; that no UID is ever given to a second message;  *)
(* that used_bytes is exact and the quota kept but for races and restores; *)
(* that messages appear at the top of a folder; and that watchers are told *)
(* of what leaves a folder and what comes.                                 *)
(***************************************************************************)
EXTENDS MailStore, FiniteSetTheorems, WellFoundedInduction, TLAPS

------------------------------------------------------------------------------
(* Sums over finite sets, as FiniteSetsExt defines them: the recursion has  *)
(* a solution, and the sum does not depend on the order it is taken in.     *)
(* Induction is by a smallest set for which the claim would be false.       *)

(* The sum of w over S, as the models write it with a LAMBDA. *)
SumOver(w, S) == MapThenSumSet(LAMBDA x : w[x], S)

------------------------------------------------------------------------------
(* The recursion has a solution. *)

(* The recursion of MapThenFoldSet: the element taken out, and the function *)
(* on the subsets of S it defines.                                          *)
Taken(s) == CHOOSE x \in s : TRUE
Adds(f, w, S) == f = [s \in SUBSET S |-> IF s = {} THEN 0 ELSE w[Taken(s)] + f[s \ {Taken(s)}]]

(* A family of subsets of a finite set has a smallest member. *)
LEMMA Smallest ==
  ASSUME NEW S, IsFiniteSet(S), NEW F, F \subseteq SUBSET S, F # {}
  PROVE  \E T \in F : \A U \in F : U \subseteq T => U = T
<1>1. IsWellFoundedOn(StrictSubsetOrdering(S), FiniteSubsetsOf(S))
  BY FS_StrictSubsetOrderingWellFounded
<1>2. F \subseteq FiniteSubsetsOf(S)
  BY FS_Subset DEF FiniteSubsetsOf
<1>3. PICK T \in F : \A U \in F : <<U, T>> \notin StrictSubsetOrdering(S)
  BY <1>1, <1>2, WFMin
<1>. QED
  BY <1>3 DEF StrictSubsetOrdering

(* The element taken is one of the set. *)
LEMMA TakenIs == ASSUME NEW s, s # {} PROVE Taken(s) \in s
  BY DEF Taken

(* Two solutions agree where both are defined. *)
LEMMA AddsUnique ==
  ASSUME NEW w, NEW T, IsFiniteSet(T), NEW S \in SUBSET T, NEW f, NEW g, Adds(f, w, S), Adds(g, w, T),
         NEW s \in SUBSET S
  PROVE  f[s] = g[s]
<1>. DEFINE F == {u \in SUBSET S : f[u] # g[u]}
<1>1. SUFFICES ASSUME F # {} PROVE FALSE
  OBVIOUS
<1>2. IsFiniteSet(S)
  BY FS_Subset
<1>3. PICK u \in F : \A v \in F : v \subseteq u => v = u
  <2>. HIDE DEF F
  <2>1. F \subseteq SUBSET S
    BY DEF F
  <2>. QED
    BY <1>1, <1>2, <2>1, Smallest
<1>4. u \in SUBSET S /\ u \in SUBSET T /\ f[u] # g[u]
  BY <1>3
<1>5. /\ f[u] = IF u = {} THEN 0 ELSE w[Taken(u)] + f[u \ {Taken(u)}]
      /\ g[u] = IF u = {} THEN 0 ELSE w[Taken(u)] + g[u \ {Taken(u)}]
  BY <1>4 DEF Adds
<1>6. u # {} /\ Taken(u) \in u
  BY <1>4, <1>5, TakenIs
<1>7. u \ {Taken(u)} \in SUBSET S /\ u \ {Taken(u)} \subseteq u /\ u \ {Taken(u)} # u
  BY <1>4, <1>6
<1>8. f[u \ {Taken(u)}] = g[u \ {Taken(u)}]
  BY <1>3, <1>7
<1>. QED
  BY <1>4, <1>5, <1>8

(* There is a solution. *)
LEMMA AddsExists ==
  ASSUME NEW w, NEW S, IsFiniteSet(S)
  PROVE  \E f : Adds(f, w, S)
<1>. DEFINE F == {s \in SUBSET S : ~\E f : Adds(f, w, s)}
<1>1. SUFFICES ASSUME F # {} PROVE FALSE
  OBVIOUS
<1>2. PICK T \in F : \A u \in F : u \subseteq T => u = T
  <2>. HIDE DEF F
  <2>1. F \subseteq SUBSET S
    BY DEF F
  <2>. QED
    BY <1>1, <2>1, Smallest
<1>. DEFINE h(u) == CHOOSE f : Adds(f, w, u)
            g == [u \in SUBSET T |-> IF u = {} THEN 0 ELSE w[Taken(u)] + h(u \ {Taken(u)})[u \ {Taken(u)}]]
<1>3. ASSUME NEW u, u \in SUBSET T, u # T PROVE Adds(h(u), w, u) /\ IsFiniteSet(u)
  <2>1. u \in SUBSET S /\ u \notin F
    BY <1>2, <1>3
  <2>2. \E f : Adds(f, w, u)
    BY <2>1
  <2>. QED
    BY <2>1, <2>2, FS_Subset
<1>4. ASSUME NEW u \in SUBSET T, u # {}
      PROVE  g[u \ {Taken(u)}] = h(u \ {Taken(u)})[u \ {Taken(u)}]
  <2>. DEFINE r == u \ {Taken(u)}
  <2>1. r \in SUBSET T /\ r # T
    BY <1>4, TakenIs
  <2>2. Adds(h(r), w, r) /\ IsFiniteSet(r)
    BY <1>3, <2>1
  <2>3. g[r] = IF r = {} THEN 0 ELSE w[Taken(r)] + h(r \ {Taken(r)})[r \ {Taken(r)}]
    BY <2>1
  <2>. HIDE DEF r, h, g
  <2>4. h(r)[r] = IF r = {} THEN 0 ELSE w[Taken(r)] + h(r)[r \ {Taken(r)}]
    BY <2>2 DEF Adds
  <2>5. CASE r = {}
    BY <2>3, <2>4, <2>5 DEF r
  <2>6. CASE r # {}
    <3>1. r \ {Taken(r)} \in SUBSET r /\ r \ {Taken(r)} \in SUBSET T /\ r \ {Taken(r)} # T
      BY <2>1, <2>6, TakenIs
    <3>2. Adds(h(r \ {Taken(r)}), w, r \ {Taken(r)})
      BY <1>3, <3>1
    <3>3. h(r \ {Taken(r)})[r \ {Taken(r)}] = h(r)[r \ {Taken(r)}]
      BY <2>2, <3>1, <3>2, AddsUnique
    <3>. QED
      BY <2>3, <2>4, <2>6, <3>3 DEF r
  <2>. QED
    BY <2>5, <2>6
<1>5. Adds(g, w, T)
  <2>1. ASSUME NEW u \in SUBSET T
        PROVE  g[u] = IF u = {} THEN 0 ELSE w[Taken(u)] + g[u \ {Taken(u)}]
    <3>1. g[u] = IF u = {} THEN 0 ELSE w[Taken(u)] + h(u \ {Taken(u)})[u \ {Taken(u)}]
      OBVIOUS
    <3>. HIDE DEF g, h
    <3>. QED
      BY <1>4, <3>1
  <2>2. g = [u \in SUBSET T |-> g[u]]
    OBVIOUS
  <2>. HIDE DEF g
  <2>. QED
    BY <2>1, <2>2 DEF Adds
<1>. QED
  BY <1>2, <1>5

(* The sum is that of a solution. *)
LEMMA SumIs ==
  ASSUME NEW w, NEW S, IsFiniteSet(S), NEW f, Adds(f, w, S)
  PROVE  \A s \in SUBSET S : SumOver(w, s) = f[s]
<1>. SUFFICES ASSUME NEW s \in SUBSET S PROVE SumOver(w, s) = f[s]
  OBVIOUS
<1>1. SumOver(w, s) = (CHOOSE g : Adds(g, w, s))[s]
  BY DEF SumOver, MapThenSumSet, MapThenFoldSet, Adds, Taken
<1>2. IsFiniteSet(s)
  BY FS_Subset
<1>3. Adds(CHOOSE g : Adds(g, w, s), w, s)
  BY <1>2, AddsExists
<1>. QED
  BY <1>1, <1>3, AddsUnique
------------------------------------------------------------------------------
(* What sums do. *)

(* The sum over nothing, and over a set of which one element is taken out.  *)
LEMMA SumStep ==
  ASSUME NEW w, NEW S, IsFiniteSet(S)
  PROVE  SumOver(w, S) = IF S = {} THEN 0 ELSE w[Taken(S)] + SumOver(w, S \ {Taken(S)})
<1>1. PICK f : Adds(f, w, S)
  BY AddsExists
<1>2. S \in SUBSET S /\ S \ {Taken(S)} \in SUBSET S
  OBVIOUS
<1>3. f[S] = IF S = {} THEN 0 ELSE w[Taken(S)] + f[S \ {Taken(S)}]
  BY <1>1, <1>2 DEF Adds
<1>4. SumOver(w, S) = f[S] /\ SumOver(w, S \ {Taken(S)}) = f[S \ {Taken(S)}]
  BY <1>1, <1>2, SumIs
<1>. QED
  BY <1>3, <1>4

(* A sum of integers is one. *)
LEMMA SumType ==
  ASSUME NEW w, NEW S, IsFiniteSet(S), \A x \in S : w[x] \in Int
  PROVE  SumOver(w, S) \in Int
<1>. DEFINE F == {s \in SUBSET S : SumOver(w, s) \notin Int}
<1>1. SUFFICES ASSUME F # {} PROVE FALSE
  OBVIOUS
<1>2. PICK T \in F : \A u \in F : u \subseteq T => u = T
  <2>. HIDE DEF F
  <2>1. F \subseteq SUBSET S
    BY DEF F
  <2>. QED
    BY <1>1, <2>1, Smallest
<1>3. T \in SUBSET S /\ SumOver(w, T) \notin Int /\ IsFiniteSet(T)
  BY <1>2, FS_Subset
<1>4. T # {} /\ SumOver(w, T) = w[Taken(T)] + SumOver(w, T \ {Taken(T)})
  BY <1>3, SumStep
<1>5. T \ {Taken(T)} \in SUBSET S /\ T \ {Taken(T)} \subseteq T /\ T \ {Taken(T)} # T /\ w[Taken(T)] \in Int
  BY <1>3, <1>4, TakenIs
<1>6. SumOver(w, T \ {Taken(T)}) \in Int
  BY <1>2, <1>5
<1>. QED
  BY <1>3, <1>4, <1>5, <1>6

(* Any element may be taken out of a sum first. *)
LEMMA SumRemove ==
  ASSUME NEW w, NEW S, IsFiniteSet(S), \A x \in S : w[x] \in Int, NEW y \in S
  PROVE  SumOver(w, S) = w[y] + SumOver(w, S \ {y})
<1>. DEFINE F == {s \in SUBSET S : \E z \in s : SumOver(w, s) # w[z] + SumOver(w, s \ {z})}
<1>1. SUFFICES ASSUME F # {} PROVE FALSE
  OBVIOUS
<1>2. PICK T \in F : \A u \in F : u \subseteq T => u = T
  <2>. HIDE DEF F
  <2>1. F \subseteq SUBSET S
    BY DEF F
  <2>. QED
    BY <1>1, <2>1, Smallest
<1>3. PICK z \in T : SumOver(w, T) # w[z] + SumOver(w, T \ {z})
  BY <1>2
<1>. DEFINE x == Taken(T)
<1>4. T \in SUBSET S /\ IsFiniteSet(T) /\ T # {} /\ x \in T
  BY <1>2, <1>3, TakenIs, FS_Subset
<1>5. SumOver(w, T) = w[x] + SumOver(w, T \ {x})
  BY <1>4, SumStep
<1>. HIDE DEF x
<1>6. x # z
  BY <1>3, <1>5
<1>7. ASSUME NEW u, u \subseteq T, u # T, NEW a \in u
      PROVE  SumOver(w, u) = w[a] + SumOver(w, u \ {a})
  <2>1. u \in SUBSET S /\ u \notin F
    BY <1>2, <1>4, <1>7
  <2>. QED
    BY <1>7, <2>1
<1>8. SumOver(w, T \ {x}) = w[z] + SumOver(w, (T \ {x}) \ {z})
  <2>1. T \ {x} \subseteq T /\ T \ {x} # T /\ z \in T \ {x}
    BY <1>3, <1>4, <1>6
  <2>. QED
    BY <1>7, <2>1
<1>9. SumOver(w, T \ {z}) = w[x] + SumOver(w, (T \ {z}) \ {x})
  <2>1. T \ {z} \subseteq T /\ T \ {z} # T /\ x \in T \ {z}
    BY <1>3, <1>4, <1>6
  <2>. QED
    BY <1>7, <2>1
<1>10. (T \ {x}) \ {z} = (T \ {z}) \ {x}
  OBVIOUS
<1>11. w[x] \in Int /\ w[z] \in Int /\ SumOver(w, (T \ {z}) \ {x}) \in Int
  <2>1. (T \ {z}) \ {x} \in SUBSET S
    BY <1>4
  <2>2. IsFiniteSet((T \ {z}) \ {x}) /\ \A a \in (T \ {z}) \ {x} : w[a] \in Int
    BY <1>4, <2>1, FS_Subset
  <2>. QED
    BY <1>3, <1>4, <2>2, SumType
<1>12. /\ SumOver(w, T) = w[x] + (w[z] + SumOver(w, (T \ {z}) \ {x}))
       /\ SumOver(w, T \ {z}) = w[x] + SumOver(w, (T \ {z}) \ {x})
  BY <1>5, <1>8, <1>9, <1>10
<1>13. SumOver(w, T) = w[z] + SumOver(w, T \ {z})
  <2>. HIDE DEF F
  <2>. QED
    BY <1>11, <1>12
<1>. QED
  BY <1>3, <1>13

(* A sum over no elements. *)
LEMMA SumEmpty ==
  ASSUME NEW w
  PROVE  SumOver(w, {}) = 0
  BY FS_EmptySet, SumStep

(* A sum may be taken in two parts. *)
LEMMA SumParts ==
  ASSUME NEW w, NEW S, IsFiniteSet(S), \A x \in S : w[x] \in Int, NEW R \in SUBSET S
  PROVE  SumOver(w, S) = SumOver(w, R) + SumOver(w, S \ R)
<1>. DEFINE F == {s \in SUBSET R : SumOver(w, S) # SumOver(w, s) + SumOver(w, S \ s)}
<1>1. SUFFICES ASSUME F # {} PROVE FALSE
  OBVIOUS
<1>f. IsFiniteSet(R)
  BY FS_Subset
<1>2. PICK T \in F : \A u \in F : u \subseteq T => u = T
  <2>. HIDE DEF F
  <2>1. F \subseteq SUBSET R
    BY DEF F
  <2>. QED
    BY <1>1, <1>f, <2>1, Smallest
<1>3. T \in SUBSET R /\ SumOver(w, S) # SumOver(w, T) + SumOver(w, S \ T)
  BY <1>2
<1>4. IsFiniteSet(T) /\ IsFiniteSet(S \ T) /\ SumOver(w, S) \in Int /\ SumOver(w, S \ T) \in Int
  <2>1. T \in SUBSET S /\ S \ T \in SUBSET S
    BY <1>3
  <2>2. IsFiniteSet(T) /\ IsFiniteSet(S \ T)
    BY <2>1, FS_Subset
  <2>. QED
    BY <2>1, <2>2, SumType
<1>5. T # {}
  <2>1. CASE T = {}
    <3>1. S \ T = S /\ SumOver(w, T) = 0
      BY <2>1, SumEmpty
    <3>2. SumOver(w, S) = SumOver(w, T) + SumOver(w, S \ T)
      BY <1>4, <3>1
    <3>. QED
      BY <1>3, <3>2
  <2>. QED
    BY <2>1
<1>6. PICK x \in T : TRUE
  BY <1>5
<1>7. T \ {x} \in SUBSET R /\ T \ {x} \subseteq T /\ T \ {x} # T
  BY <1>3
<1>8. SumOver(w, S) = SumOver(w, T \ {x}) + SumOver(w, S \ (T \ {x}))
  BY <1>2, <1>7
<1>9. SumOver(w, T) = w[x] + SumOver(w, T \ {x})
  BY <1>3, <1>4, SumRemove
<1>10. SumOver(w, S \ (T \ {x})) = w[x] + SumOver(w, S \ T)
  <2>1. (S \ (T \ {x})) \in SUBSET S /\ x \in S \ (T \ {x}) /\ (S \ (T \ {x})) \ {x} = S \ T
    BY <1>3
  <2>2. IsFiniteSet(S \ (T \ {x})) /\ \A a \in S \ (T \ {x}) : w[a] \in Int
    BY <2>1, FS_Subset
  <2>3. SumOver(w, S \ (T \ {x})) = w[x] + SumOver(w, (S \ (T \ {x})) \ {x})
    BY <2>1, <2>2, SumRemove
  <2>. QED
    BY <2>1, <2>3
<1>11. w[x] \in Int /\ SumOver(w, T \ {x}) \in Int
  <2>1. T \ {x} \in SUBSET S
    BY <1>3
  <2>2. IsFiniteSet(T \ {x})
    BY <2>1, FS_Subset
  <2>. QED
    BY <1>3, <2>1, <2>2, SumType
<1>12. SumOver(w, S) = SumOver(w, T) + SumOver(w, S \ T)
  BY <1>4, <1>8, <1>9, <1>10, <1>11
<1>. QED
  BY <1>3, <1>12

(* A sum of natural numbers is one. *)
LEMMA SumNat ==
  ASSUME NEW w, NEW S, IsFiniteSet(S), \A x \in S : w[x] \in Nat
  PROVE  SumOver(w, S) \in Nat
<1>. DEFINE F == {s \in SUBSET S : SumOver(w, s) \notin Nat}
<1>1. SUFFICES ASSUME F # {} PROVE FALSE
  OBVIOUS
<1>2. PICK T \in F : \A u \in F : u \subseteq T => u = T
  <2>. HIDE DEF F
  <2>1. F \subseteq SUBSET S
    BY DEF F
  <2>. QED
    BY <1>1, <2>1, Smallest
<1>3. T \in SUBSET S /\ SumOver(w, T) \notin Nat /\ IsFiniteSet(T)
  BY <1>2, FS_Subset
<1>4. T # {} /\ SumOver(w, T) = w[Taken(T)] + SumOver(w, T \ {Taken(T)})
  BY <1>3, SumStep
<1>5. T \ {Taken(T)} \in SUBSET S /\ T \ {Taken(T)} \subseteq T /\ T \ {Taken(T)} # T /\ w[Taken(T)] \in Nat
  BY <1>3, <1>4, TakenIs
<1>6. SumOver(w, T \ {Taken(T)}) \in Nat
  BY <1>2, <1>5
<1>. QED
  BY <1>3, <1>4, <1>5, <1>6

------------------------------------------------------------------------------
(* Types. *)

(* The initial values of a caller are well formed. *)
LEMMA NothingType == Nothing \in Held
<1>1. (CHOOSE m \in Messages : TRUE) \in Messages
  BY ConstantsAssumption
<1>2. Trash \in Folders
  BY ConstantsAssumption DEF Folders
<1>. QED
  BY <1>1, <1>2, ConstantsAssumption DEF Nothing, Held, ItemRow

(* A request that is in the middle of nothing is well formed. *)
LEMMA IdleJobType == IdleJob \in Job
  BY ConstantsAssumption DEF IdleJob, Job, Boxes, Folders

(* What clients can see after a step is made of well-formed rows. *)
LEMMA ObserveType ==
  ASSUME TypeOK, Observe, box' \in [Boxes -> BoxRow], item' \in [Messages -> ItemRow],
         link' \in [Labels -> [Messages -> 0..MaxUID]]
  PROVE  ever' \subseteq [box : Boxes, name : AllNames, validity : 0..MaxClock,
                          uid : 0..MaxUID, msg : Messages]
<1>1. \A m \in Messages :
        /\ item'[m].folder \in Boxes /\ item'[m].uid \in 0..MaxUID
        /\ box'[item'[m].folder].name \in AllNames
        /\ box'[item'[m].folder].uidValidity \in 0..MaxClock
  BY DEF ItemRow, BoxRow, Boxes
<1>2. \A l \in Labels, m \in Messages :
        /\ l \in Boxes /\ link'[l][m] \in 0..MaxUID
        /\ box'[l].name \in AllNames /\ box'[l].uidValidity \in 0..MaxClock
  BY DEF BoxRow, Boxes
<1>3. Visible' \subseteq [box : Boxes, name : AllNames, validity : 0..MaxClock,
                          uid : 0..MaxUID, msg : Messages]
  BY <1>1, <1>2 DEF Visible, LiveSet
<1>. QED
  BY <1>3 DEF Observe, TypeOK

(* Taking a UID keeps the containers well formed, and the UID is not 0. *)
LEMMA AllocateType ==
  ASSUME box \in [Boxes -> BoxRow], NEW c \in Boxes, CanAllocate(c), Allocate(c)
  PROVE  /\ box' \in [Boxes -> BoxRow]
         /\ AllocatedUID(c) \in 1..MaxUID
<1>1. box[c] \in BoxRow /\ box[c].uidNext \in 1..MaxUID /\ box[c].uidNext + 1 \in 1..MaxUID
  BY ConstantsAssumption DEF BoxRow, CanAllocate
<1>2. [box[c] EXCEPT !.uidNext = @ + 1] \in BoxRow
  BY <1>1 DEF BoxRow
<1>. QED
  BY <1>1, <1>2 DEF Allocate, AllocatedUID
(* A row with a fresh UID is well formed. *)
LEMMA PlacedType ==
  ASSUME NEW f \in Folders, NEW u \in 1..MaxUID
  PROVE  [st |-> "live", folder |-> f, uid |-> u] \in ItemRow
  BY ConstantsAssumption DEF ItemRow

(* Changing only the status of a row, or only a caller's job, keeps types.  *)
LEMMA SnapshotsType ==
  ASSUME item \in [Messages -> ItemRow], NEW f
  PROVE  SnapshotsIn(f) \subseteq Snapshot
  BY DEF SnapshotsIn, Snapshot, LiveSet

(* A new mailbox is well typed. *)
LEMMA InitType == Init => TypeOK
<1>. SUFFICES ASSUME Init PROVE TypeOK
  OBVIOUS
<1>1. box \in [Boxes -> BoxRow]
  BY ConstantsAssumption DEF Init, BoxRow, Boxes, AllNames
<1>2. item \in [Messages -> ItemRow]
  BY ConstantsAssumption DEF Init, ItemRow, Folders
<1>3. link \in [Labels -> [Messages -> 0..MaxUID]]
  BY ConstantsAssumption DEF Init
<1>4. snap \in [Sessions -> Held]
  BY NothingType DEF Init
<1>5. job \in [Requests -> Job]
  BY IdleJobType DEF Init
<1>6. \A m \in Messages : HasRow(item[m]) => item[m].uid # 0
  BY DEF Init, HasRow
<1>7. now \in 1..MaxClock
  BY ConstantsAssumption DEF Init
<1>. QED
  BY <1>1, <1>2, <1>3, <1>4, <1>5, <1>6, <1>7 DEF Init, TypeOK

(* Every step keeps the types. *)
LEMMA NextType == TypeOK /\ [Next]_vars => TypeOK'
<1>. SUFFICES ASSUME TypeOK, [Next]_vars PROVE TypeOK'
  OBVIOUS
<1>. USE DEF TypeOK
<1>f. Folders \subseteq Boxes /\ Labels \subseteq Boxes /\ Requests \subseteq Sessions /\ Engines \subseteq Sessions
  BY DEF Boxes, Sessions
<1>e. \A c \in Boxes, u \in 0..MaxUID :
        /\ Exists(c, u) \in [kind : {"exists", "expunge"}, box : Boxes, uid : 0..MaxUID]
        /\ Expunge(c, u) \in [kind : {"exists", "expunge"}, box : Boxes, uid : 0..MaxUID]
  BY DEF Exists, Expunge
<1>u. \A s \in Sessions : AfterUse(s) => snap' \in [Sessions -> Held]
  BY NothingType DEF AfterUse
<1>s. \A s \in Sessions :
        /\ snap[s].msg \in Messages /\ snap[s].row \in ItemRow
        /\ snap[s].row.folder \in Boxes /\ snap[s].row.uid \in 0..MaxUID
  BY <1>f DEF Held, ItemRow
<1>1. ASSUME NEW s \in Sessions, NEW m \in Messages, NEW f \in Folders, Attach(s, m, f)
      PROVE  TypeOK'
  <2>1. box' \in [Boxes -> BoxRow] /\ AllocatedUID(f) \in 1..MaxUID
    BY <1>1, <1>f, AllocateType DEF Attach
  <2>2. [st |-> "live", folder |-> f, uid |-> AllocatedUID(f)] \in ItemRow
    BY <2>1, PlacedType
  <2>3. /\ item' \in [Messages -> ItemRow]
        /\ \A n \in Messages : HasRow(item'[n]) => item'[n].uid # 0
    BY <1>1, <2>1, <2>2 DEF Attach, HasRow
  <2>4. snap' \in [Sessions -> Held]
    BY <1>1, <2>2 DEF Attach, Held
  <2>5. pub' \subseteq [kind : {"exists", "expunge"}, box : Boxes, uid : 0..MaxUID]
    BY <1>1, <1>e, <1>f, <2>1 DEF Attach
  <2>6. link' = link /\ job' = job /\ now' = now /\ raced' = raced /\ fresh' = TRUE /\ Observe
    BY <1>1 DEF Attach
  <2>. QED
    BY <2>1, <2>3, <2>4, <2>5, <2>6, ObserveType
<1>2. ASSUME NEW s \in Sessions, NEW m \in Messages, NEW f \in Folders, Move(s, m, f)
      PROVE  TypeOK'
  <2>1. /\ snap' \in [Sessions -> Held] /\ link' = link /\ job' = job /\ now' = now /\ Observe
    BY <1>2, <1>u DEF Move
  <2>2. CASE UNCHANGED <<box, item, used, raced, exempt>> /\ pub' = {} /\ fresh' = TRUE
    <3>1. /\ box' \in [Boxes -> BoxRow] /\ item' \in [Messages -> ItemRow]
          /\ link' \in [Labels -> [Messages -> 0..MaxUID]]
      BY <2>1, <2>2
    <3>. QED
      BY <2>1, <2>2, <3>1, ObserveType DEF HasRow
  <2>3. CASE /\ CanAllocate(f) /\ Allocate(f)
             /\ item' = [item EXCEPT ![m] = [st |-> "live", folder |-> f, uid |-> AllocatedUID(f)]]
             /\ pub' = MoveChanges(snap[s].row, f, AllocatedUID(f))
             /\ raced' = (raced \/ (snap[s].row.st = "live") # Live(m))
             /\ fresh' = (snap[s].row = item[m])
    <3>1. box' \in [Boxes -> BoxRow] /\ AllocatedUID(f) \in 1..MaxUID
      BY <2>3, <1>f, AllocateType
    <3>2. [st |-> "live", folder |-> f, uid |-> AllocatedUID(f)] \in ItemRow
      BY <3>1, PlacedType
    <3>3. /\ item' \in [Messages -> ItemRow]
          /\ \A n \in Messages : HasRow(item'[n]) => item'[n].uid # 0
      BY <2>3, <3>1, <3>2 DEF HasRow
    <3>4. pub' \subseteq [kind : {"exists", "expunge"}, box : Boxes, uid : 0..MaxUID]
      <4>1. pub' \subseteq {Exists(f, AllocatedUID(f)), Expunge(snap[s].row.folder, snap[s].row.uid)}
        BY <2>3 DEF MoveChanges
      <4>2. Exists(f, AllocatedUID(f)) \in [kind : {"exists", "expunge"}, box : Boxes, uid : 0..MaxUID]
        BY <1>e, <1>f, <3>1
      <4>3. Expunge(snap[s].row.folder, snap[s].row.uid)
              \in [kind : {"exists", "expunge"}, box : Boxes, uid : 0..MaxUID]
        BY <1>e, <1>s
      <4>. QED
        BY <4>1, <4>2, <4>3
    <3>5. raced' \in BOOLEAN /\ fresh' \in BOOLEAN
      BY <2>3
    <3>. QED
      BY <2>1, <3>1, <3>3, <3>4, <3>5, ObserveType
  <2>. QED
    BY <1>2, <2>2, <2>3 DEF Move
<1>3. ASSUME NEW s \in Sessions, NEW m \in Messages, Get(s, m)
      PROVE  TypeOK'
  <2>1. snap' \in [Sessions -> Held]
    BY <1>3 DEF Get, Held
  <2>2. UNCHANGED <<box, item, link, job, now, raced>> /\ Quietly
    BY <1>3 DEF Get
  <2>. QED
    BY <2>1, <2>2, ObserveType DEF Quietly, HasRow
<1>4. ASSUME NEW s \in Sessions, NEW m \in Messages, SoftDelete(s, m)
      PROVE  TypeOK'
  <2>1. snap' \in [Sessions -> Held]
    BY <1>4, <1>u DEF SoftDelete
  <2>2. /\ item' \in [Messages -> ItemRow]
        /\ \A n \in Messages : HasRow(item'[n]) => item'[n].uid # 0
    <3>1. CASE item' = item
      BY <3>1
    <3>2. CASE item' = [item EXCEPT ![m].st = "deleted"] /\ Live(m)
      <4>1. item[m] \in ItemRow /\ item[m].uid # 0
        BY <3>2 DEF Live, HasRow
      <4>2. [item[m] EXCEPT !.st = "deleted"] \in ItemRow
        BY <4>1 DEF ItemRow
      <4>. QED
        BY <3>2, <4>1, <4>2 DEF ItemRow, HasRow
    <3>. QED
      BY <1>4, <3>1, <3>2 DEF SoftDelete
  <2>3. pub' \subseteq [kind : {"exists", "expunge"}, box : Boxes, uid : 0..MaxUID]
    BY <1>4, <1>e, <1>s DEF SoftDelete
  <2>4. UNCHANGED <<box, link, job, now, raced>> /\ fresh' \in BOOLEAN /\ Observe
    BY <1>4 DEF SoftDelete
  <2>. QED
    BY <2>1, <2>2, <2>3, <2>4, ObserveType
<1>5. ASSUME NEW s \in Sessions, NEW m \in Messages, NEW l \in Labels, AddLabel(s, m, l)
      PROVE  TypeOK'
  <2>1. box' \in [Boxes -> BoxRow] /\ AllocatedUID(l) \in 1..MaxUID
    BY <1>5, <1>f, AllocateType DEF AddLabel
  <2>2. snap' \in [Sessions -> Held]
    BY <1>5, <1>u DEF AddLabel
  <2>3. link' \in [Labels -> [Messages -> 0..MaxUID]]
    BY <1>5, <2>1 DEF AddLabel
  <2>4. pub' \subseteq [kind : {"exists", "expunge"}, box : Boxes, uid : 0..MaxUID]
    BY <1>5, <1>e, <1>f, <2>1 DEF AddLabel
  <2>5. UNCHANGED <<item, job, now, raced>> /\ fresh' \in BOOLEAN /\ Observe
    BY <1>5 DEF AddLabel
  <2>. QED
    BY <2>1, <2>2, <2>3, <2>4, <2>5, ObserveType DEF HasRow
<1>6. ASSUME NEW s \in Sessions, NEW m \in Messages, NEW l \in Labels, RemoveLabel(s, m, l)
      PROVE  TypeOK'
  <2>1. snap' \in [Sessions -> Held]
    BY <1>6, <1>u DEF RemoveLabel
  <2>2. link' \in [Labels -> [Messages -> 0..MaxUID]]
    BY <1>6, ConstantsAssumption DEF RemoveLabel
  <2>3. pub' \subseteq [kind : {"exists", "expunge"}, box : Boxes, uid : 0..MaxUID]
    BY <1>6, <1>e, <1>f DEF RemoveLabel
  <2>4. UNCHANGED <<box, item, job, now, raced>> /\ fresh' \in BOOLEAN /\ Observe
    BY <1>6 DEF RemoveLabel
  <2>. QED
    BY <2>1, <2>2, <2>3, <2>4, ObserveType DEF HasRow
<1>7. ASSUME NEW s \in Requests, NEW f \in Folders, NEW drop \in BOOLEAN, ListFolder(s, f, drop)
      PROVE  TypeOK'
  <2>1. PICK list \in SUBSET SnapshotsIn(f) :
          job' = [job EXCEPT ![s] = [IdleJob EXCEPT !.pc = IF list = {} THEN "droprow" ELSE "listed",
                                                    !.box = f, !.drop = drop, !.list = list]]
    BY <1>7 DEF ListFolder
  <2>2. job' \in [Requests -> Job]
    BY <2>1, <1>f, SnapshotsType, IdleJobType DEF Job
  <2>3. UNCHANGED <<box, item, link, snap, now, raced>> /\ Quietly
    BY <1>7 DEF ListFolder
  <2>. QED
    BY <2>2, <2>3, ObserveType DEF Quietly, HasRow
<1>8. ASSUME NEW s \in Requests, SelectLive(s)
      PROVE  TypeOK'
  <2>1. {x.msg : x \in {y \in job[s].list : Live(y.msg)}} \subseteq Messages
    BY DEF Job, Snapshot
  <2>2. job' \in [Requests -> Job]
    <3>1. [job[s] EXCEPT !.pc = "selected",
                         !.live = {x.msg : x \in {y \in job[s].list : Live(y.msg)}}] \in Job
      BY <2>1, ZenonT(60) DEF Job
    <3>2. job' = [job EXCEPT ![s] = [job[s] EXCEPT !.pc = "selected",
                         !.live = {x.msg : x \in {y \in job[s].list : Live(y.msg)}}]]
      BY <1>8 DEF SelectLive
    <3>. QED
      BY <3>1, <3>2
  <2>3. UNCHANGED <<box, item, link, snap, now, raced>> /\ Quietly
    BY <1>8 DEF SelectLive
  <2>. QED
    BY <2>2, <2>3, ObserveType DEF Quietly, HasRow
<1>9. ASSUME NEW s \in Requests, UpdateSelected(s)
      PROVE  TypeOK'
  <2>1. job[s] \in Job /\ job[s].list \subseteq Snapshot
    BY DEF Job
  <2>2. /\ item' \in [Messages -> ItemRow]
        /\ \A n \in Messages : HasRow(item'[n]) => item'[n].uid # 0
    BY <1>9 DEF UpdateSelected, ItemRow, HasRow, Live
  <2>3. job' \in [Requests -> Job]
    BY <1>9, <2>1, IdleJobType DEF UpdateSelected, Job
  <2>4. pub' \subseteq [kind : {"exists", "expunge"}, box : Boxes, uid : 0..MaxUID]
    BY <1>9, <1>e, <1>f, <2>1 DEF UpdateSelected, BatchChanges, Snapshot, ItemRow
  <2>5. UNCHANGED <<box, link, snap, now>> /\ raced' \in BOOLEAN /\ fresh' \in BOOLEAN /\ Observe
    BY <1>9 DEF UpdateSelected
  <2>. QED
    BY <2>2, <2>3, <2>4, <2>5, ObserveType
<1>10. ASSUME NEW s \in Requests, DropFolder(s) \/ DropLabel(s)
       PROVE  TypeOK'
  <2>1. box' \in [Boxes -> BoxRow]
    BY <1>10, <1>f DEF DropFolder, DropLabel, BoxRow
  <2>2. job' \in [Requests -> Job]
    BY <1>10, IdleJobType DEF DropFolder, DropLabel
  <2>3. UNCHANGED <<item, link, snap, now, raced>> /\ Quietly
    BY <1>10 DEF DropFolder, DropLabel
  <2>. QED
    BY <2>1, <2>2, <2>3, ObserveType DEF Quietly, HasRow
<1>11. ASSUME NEW s \in Requests, NEW l \in Labels, DropLinks(s, l)
       PROVE  TypeOK'
  <2>1. link' \in [Labels -> [Messages -> 0..MaxUID]]
    BY <1>11, ConstantsAssumption DEF DropLinks
  <2>2. job' \in [Requests -> Job]
    BY <1>11, <1>f, IdleJobType DEF DropLinks, Job
  <2>3. UNCHANGED <<box, item, snap, now, raced>> /\ Quietly
    BY <1>11 DEF DropLinks
  <2>. QED
    BY <2>1, <2>2, <2>3, ObserveType DEF Quietly, HasRow
<1>12. ASSUME NEW s \in Requests, RecomputeRead(s)
       PROVE  TypeOK'
  <2>1. job' \in [Requests -> Job]
    BY <1>12, IdleJobType DEF RecomputeRead, Job, LiveSet
  <2>2. UNCHANGED <<box, item, link, snap, now, raced>> /\ Quietly
    BY <1>12 DEF RecomputeRead
  <2>. QED
    BY <2>1, <2>2, ObserveType DEF Quietly, HasRow
<1>13. ASSUME NEW s \in Requests, RecomputeWrite(s)
       PROVE  TypeOK'
  <2>1. job' \in [Requests -> Job]
    BY <1>13, IdleJobType DEF RecomputeWrite
  <2>2. UNCHANGED <<box, item, link, snap, now>> /\ raced' \in BOOLEAN /\ Quietly
    BY <1>13 DEF RecomputeWrite
  <2>. QED
    BY <2>1, <2>2, ObserveType DEF Quietly, HasRow
<1>14. ASSUME NEW c \in Boxes, NEW name \in Names, Create(c, name) \/ Rename(c, name)
       PROVE  TypeOK'
  <2>1. now \in 0..MaxClock /\ 1 \in 1..MaxUID /\ name \in AllNames
    BY ConstantsAssumption DEF AllNames
  <2>2. box' \in [Boxes -> BoxRow]
    <3>1. CASE Create(c, name)
      <4>1. [st |-> "present", name |-> name, uidNext |-> 1, uidValidity |-> now] \in BoxRow
        BY <2>1 DEF BoxRow
      <4>. QED
        BY <3>1, <4>1 DEF Create
    <3>2. CASE Rename(c, name)
      <4>1. [box[c] EXCEPT !.name = name] \in BoxRow
        BY <2>1 DEF BoxRow
      <4>. QED
        BY <3>2, <4>1 DEF Rename
    <3>. QED
      BY <1>14, <3>1, <3>2
  <2>3. UNCHANGED <<item, link, snap, job, now, raced>> /\ Quietly
    BY <1>14 DEF Create, Rename
  <2>. QED
    BY <2>2, <2>3, ObserveType DEF Quietly, HasRow
<1>15. ASSUME NEW m \in Messages, Expire(m) \/ PurgeMessage(m)
       PROVE  TypeOK'
  <2>1. /\ item' \in [Messages -> ItemRow]
        /\ \A n \in Messages : HasRow(item'[n]) => item'[n].uid # 0
    <3>1. CASE Expire(m)
      BY <3>1 DEF Expire, ItemRow, HasRow
    <3>2. CASE PurgeMessage(m)
      BY <3>2 DEF PurgeMessage, ItemRow, HasRow
    <3>. QED
      BY <1>15, <3>1, <3>2
  <2>2. link' \in [Labels -> [Messages -> 0..MaxUID]]
    BY <1>15, ConstantsAssumption DEF Expire, PurgeMessage
  <2>3. UNCHANGED <<box, snap, job, now, raced>> /\ Quietly
    BY <1>15 DEF Expire, PurgeMessage
  <2>. QED
    BY <2>1, <2>2, <2>3, ObserveType DEF Quietly
<1>16. CASE Tick
  <2>1. now' \in 1..MaxClock
    BY <1>16, ConstantsAssumption DEF Tick
  <2>2. UNCHANGED <<box, item, link, snap, job, raced>> /\ Quietly
    BY <1>16 DEF Tick
  <2>. QED
    BY <2>1, <2>2, ObserveType DEF Quietly, HasRow
<1>17. CASE UNCHANGED vars
  BY <1>17 DEF vars, HasRow
<1>. QED
  BY <1>1, <1>2, <1>3, <1>4, <1>5, <1>6, <1>7, <1>8, <1>9, <1>10, <1>11, <1>12, <1>13,
     <1>14, <1>15, <1>16, <1>17 DEF Next

(* Every reachable state is well typed, whatever the callers interleave. *)
THEOREM TypeCorrect == Spec => []TypeOK
  BY InitType, NextType, PTL DEF Spec

------------------------------------------------------------------------------
(* No UID is given to a second message. *)

(* After a step, a claim is one that clients had seen before, or one that a *)
(* row or a link carries now: what becomes visible is always carried.       *)
LEMMA ClaimAfter ==
  ASSUME TypeOK', Observe, NEW c, NEW u, NEW m \in Messages, Claim(c, u, m)'
  PROVE  \/ \E h \in ever : h.box = c /\ h.uid = u /\ h.msg = m
         \/ HasRow(item'[m]) /\ item'[m].folder = c /\ item'[m].uid = u
         \/ c \in Labels /\ u # 0 /\ link'[c][m] = u
<1>1. ASSUME NEW h \in Visible', h.box = c, h.uid = u, h.msg = m
      PROVE  \/ HasRow(item'[m]) /\ item'[m].folder = c /\ item'[m].uid = u
             \/ c \in Labels /\ u # 0 /\ link'[c][m] = u
  BY <1>1 DEF Visible, LiveSet, Live, HasRow
<1>. QED
  BY <1>1 DEF Claim, Observe

(* A step that gives no row and no link a new UID keeps the claims apart. *)
LEMMA KeepClaims ==
  ASSUME TypeOK, TypeOK', ClaimsInv, Observe,
         \A m \in Messages : HasRow(item'[m]) =>
           HasRow(item[m]) /\ item'[m].folder = item[m].folder /\ item'[m].uid = item[m].uid,
         \A l \in Labels, m \in Messages : link'[l][m] # 0 => link'[l][m] = link[l][m],
         \A c \in Boxes : box[c].st # "absent" =>
           box'[c].st # "absent" /\ box'[c].uidNext = box[c].uidNext
  PROVE  ClaimsInv'
<1>1. ASSUME NEW c \in Boxes, NEW u \in 0..MaxUID, NEW m \in Messages, Claim(c, u, m)'
      PROVE  Claim(c, u, m)
  BY <1>1, ClaimAfter DEF Claim
<1>2. SUFFICES ASSUME NEW c \in Boxes, NEW u \in 0..MaxUID, NEW m \in Messages, Claim(c, u, m)'
               PROVE  /\ box'[c].st # "absent" /\ u < box'[c].uidNext
                      /\ \A n \in Messages : Claim(c, u, n)' => m = n
  BY DEF ClaimsInv
<1>3. Claim(c, u, m)
  BY <1>1, <1>2
<1>4. box[c].st # "absent" /\ u < box[c].uidNext
  BY <1>3 DEF ClaimsInv
<1>5. ASSUME NEW n \in Messages, Claim(c, u, n)' PROVE m = n
  BY <1>1, <1>3, <1>5 DEF ClaimsInv
<1>. QED
  BY <1>4, <1>5

(* A step that takes a UID of one box for one message keeps them apart too: *)
(* the UID taken is above all claims.                                       *)
LEMMA TakeClaims ==
  ASSUME TypeOK, TypeOK', ClaimsInv, Observe,
         NEW d \in Boxes, NEW x \in Messages, CanAllocate(d), Allocate(d),
         \A m \in Messages : HasRow(item'[m]) =>
           \/ HasRow(item[m]) /\ item'[m].folder = item[m].folder /\ item'[m].uid = item[m].uid
           \/ m = x /\ item'[m].folder = d /\ item'[m].uid = AllocatedUID(d),
         \A l \in Labels, m \in Messages : link'[l][m] # 0 =>
           \/ link'[l][m] = link[l][m]
           \/ m = x /\ l = d /\ link'[l][m] = AllocatedUID(d)
  PROVE  ClaimsInv'
<1>1. ASSUME NEW c \in Boxes, NEW u \in 0..MaxUID, NEW m \in Messages, Claim(c, u, m)'
      PROVE  Claim(c, u, m) \/ (c = d /\ m = x /\ u = box[d].uidNext)
  BY <1>1, ClaimAfter, SMTT(30) DEF Claim, AllocatedUID
<1>2. /\ box'[d].uidNext = box[d].uidNext + 1 /\ box'[d].st = box[d].st
      /\ box[d].st # "absent" /\ box[d].uidNext \in 1..MaxUID
      /\ \A c \in Boxes : c # d => box'[c] = box[c]
      /\ \A c \in Boxes : box[c].uidNext \in 1..MaxUID
  BY DEF TypeOK, BoxRow, Allocate, CanAllocate, Present
<1>3. SUFFICES ASSUME NEW c \in Boxes, NEW u \in 0..MaxUID, NEW m \in Messages, Claim(c, u, m)'
               PROVE  /\ box'[c].st # "absent" /\ u < box'[c].uidNext
                      /\ \A n \in Messages : Claim(c, u, n)' => m = n
  BY DEF ClaimsInv
<1>4. \A n \in Messages : Claim(c, u, n) => box[c].st # "absent" /\ u < box[c].uidNext
  BY DEF ClaimsInv
<1>5. box'[c].st # "absent" /\ u < box'[c].uidNext
  BY <1>1, <1>2, <1>3, <1>4, ConstantsAssumption
<1>6. ASSUME NEW n \in Messages, Claim(c, u, n)' PROVE m = n
  <2>1. CASE Claim(c, u, m) /\ Claim(c, u, n)
    BY <2>1 DEF ClaimsInv
  <2>2. CASE c = d /\ u = box[d].uidNext
    <3>1. ~Claim(c, u, m) /\ ~Claim(c, u, n)
      BY <2>2, <1>2, <1>4
    <3>. QED
      BY <3>1, <1>1, <1>3, <1>6
  <2>. QED
    BY <2>1, <2>2, <1>1, <1>3, <1>6
<1>. QED
  BY <1>5, <1>6

(* In a new mailbox nobody has a claim. *)
LEMMA InitClaims == Init => ClaimsInv
  BY DEF Init, ClaimsInv, Claim, HasRow

(* Every step keeps the claims apart. *)
LEMMA NextClaims == TypeOK /\ TypeOK' /\ ClaimsInv /\ [Next]_vars => ClaimsInv'
<1>. SUFFICES ASSUME TypeOK, TypeOK', ClaimsInv, [Next]_vars PROVE ClaimsInv'
  OBVIOUS
<1>f. Folders \subseteq Boxes /\ Labels \subseteq Boxes /\ Folders \cap Labels = {}
  BY ConstantsAssumption DEF Boxes
<1>1. ASSUME NEW s \in Sessions, NEW m \in Messages, NEW f \in Folders, Attach(s, m, f)
      PROVE  ClaimsInv'
  <2>1. CanAllocate(f) /\ Allocate(f) /\ link' = link /\ Observe
    BY <1>1 DEF Attach
  <2>2. item' = [item EXCEPT ![m] = [st |-> "live", folder |-> f, uid |-> AllocatedUID(f)]]
    BY <1>1 DEF Attach
  <2>. QED
    BY <1>f, <2>1, <2>2, TakeClaims DEF TypeOK
<1>2. ASSUME NEW s \in Sessions, NEW m \in Messages, NEW f \in Folders, Move(s, m, f)
      PROVE  ClaimsInv'
  <2>1. link' = link /\ Observe
    BY <1>2 DEF Move
  <2>2. CASE UNCHANGED <<box, item>>
    BY <2>1, <2>2, KeepClaims
  <2>3. CASE /\ CanAllocate(f) /\ Allocate(f)
             /\ item' = [item EXCEPT ![m] = [st |-> "live", folder |-> f, uid |-> AllocatedUID(f)]]
    BY <1>f, <2>1, <2>3, TakeClaims DEF TypeOK
  <2>. QED
    BY <1>2, <2>2, <2>3 DEF Move
<1>3. ASSUME NEW s \in Sessions, NEW m \in Messages, SoftDelete(s, m)
      PROVE  ClaimsInv'
  <2>1. box' = box /\ link' = link /\ Observe
    BY <1>3 DEF SoftDelete
  <2>2. \A n \in Messages : HasRow(item'[n]) =>
          HasRow(item[n]) /\ item'[n].folder = item[n].folder /\ item'[n].uid = item[n].uid
    BY <1>3 DEF SoftDelete, TypeOK, ItemRow, HasRow, Live
  <2>. QED
    BY <2>1, <2>2, KeepClaims
<1>4. ASSUME NEW s \in Sessions, NEW m \in Messages, NEW l \in Labels, AddLabel(s, m, l)
      PROVE  ClaimsInv'
  <2>1. CanAllocate(l) /\ Allocate(l) /\ item' = item /\ Observe
    BY <1>4 DEF AddLabel
  <2>2. \A k \in Labels, n \in Messages :
          link'[k][n] = IF k = l /\ n = m THEN AllocatedUID(l) ELSE link[k][n]
    BY <1>4 DEF AddLabel, TypeOK
  <2>. QED
    BY <1>f, <2>1, <2>2, TakeClaims
<1>5. ASSUME NEW s \in Sessions, NEW m \in Messages, NEW l \in Labels, RemoveLabel(s, m, l)
      PROVE  ClaimsInv'
  <2>1. box' = box /\ item' = item /\ Observe
    BY <1>5 DEF RemoveLabel
  <2>2. \A k \in Labels, n \in Messages :
          link'[k][n] = IF k = l /\ n = m THEN 0 ELSE link[k][n]
    BY <1>5 DEF RemoveLabel, TypeOK
  <2>. QED
    BY <2>1, <2>2, KeepClaims
<1>6. ASSUME NEW s \in Requests, UpdateSelected(s)
      PROVE  ClaimsInv'
  <2>1. box' = box /\ link' = link /\ Observe
    BY <1>6 DEF UpdateSelected
  <2>2. \A n \in Messages : HasRow(item'[n]) =>
          HasRow(item[n]) /\ item'[n].folder = item[n].folder /\ item'[n].uid = item[n].uid
    BY <1>6 DEF UpdateSelected, TypeOK, ItemRow, HasRow, Live
  <2>. QED
    BY <2>1, <2>2, KeepClaims
<1>7. ASSUME NEW s \in Requests, DropFolder(s) \/ DropLabel(s)
      PROVE  ClaimsInv'
  <2>1. item' = item /\ link' = link /\ Observe
    BY <1>7 DEF DropFolder, DropLabel, Quietly
  <2>2. \A c \in Boxes : box'[c].uidNext = box[c].uidNext
                           /\ (box[c].st # "absent" => box'[c].st # "absent")
    BY <1>7 DEF DropFolder, DropLabel, TypeOK, BoxRow
  <2>. QED
    BY <2>1, <2>2, KeepClaims
<1>8. ASSUME NEW s \in Requests, NEW l \in Labels, DropLinks(s, l)
      PROVE  ClaimsInv'
  <2>1. box' = box /\ item' = item /\ Observe
    BY <1>8 DEF DropLinks, Quietly
  <2>2. \A k \in Labels, n \in Messages : link'[k][n] = IF k = l THEN 0 ELSE link[k][n]
    BY <1>8 DEF DropLinks, TypeOK
  <2>. QED
    BY <2>1, <2>2, KeepClaims
<1>9. ASSUME NEW c \in Boxes, NEW name \in Names, Create(c, name)
      PROVE  ClaimsInv'
  <2>1. item' = item /\ link' = link /\ Observe /\ box[c].st = "absent"
    BY <1>9 DEF Create, Quietly
  <2>2. \A d \in Boxes : d # c => box'[d] = box[d]
    BY <1>9 DEF Create, TypeOK
  <2>. QED
    BY <2>1, <2>2, KeepClaims
<1>10. ASSUME NEW c \in Boxes, NEW name \in Names, Rename(c, name)
       PROVE  ClaimsInv'
  <2>1. item' = item /\ link' = link /\ Observe
    BY <1>10 DEF Rename, Quietly
  <2>2. \A d \in Boxes : box'[d].st = box[d].st /\ box'[d].uidNext = box[d].uidNext
    BY <1>10 DEF Rename, TypeOK, BoxRow
  <2>. QED
    BY <2>1, <2>2, KeepClaims
<1>11. ASSUME NEW m \in Messages, Expire(m)
       PROVE  ClaimsInv'
  <2>1. box' = box /\ link' = link /\ Observe
    BY <1>11 DEF Expire, Quietly
  <2>2. \A n \in Messages : HasRow(item'[n]) =>
          HasRow(item[n]) /\ item'[n].folder = item[n].folder /\ item'[n].uid = item[n].uid
    BY <1>11 DEF Expire, TypeOK, ItemRow, HasRow
  <2>. QED
    BY <2>1, <2>2, KeepClaims
<1>12. ASSUME NEW m \in Messages, PurgeMessage(m)
       PROVE  ClaimsInv'
  <2>1. box' = box /\ Observe
    BY <1>12 DEF PurgeMessage, Quietly
  <2>2. \A n \in Messages : HasRow(item'[n]) =>
          HasRow(item[n]) /\ item'[n].folder = item[n].folder /\ item'[n].uid = item[n].uid
    BY <1>12 DEF PurgeMessage, TypeOK, ItemRow, HasRow
  <2>3. \A k \in Labels, n \in Messages : link'[k][n] = IF n = m THEN 0 ELSE link[k][n]
    BY <1>12 DEF PurgeMessage, TypeOK
  <2>. QED
    BY <2>1, <2>2, <2>3, KeepClaims
<1>13. ASSUME \/ \E s \in Sessions, m \in Messages : Get(s, m)
              \/ \E s \in Requests, f \in Folders, drop \in BOOLEAN : ListFolder(s, f, drop)
              \/ \E s \in Requests : SelectLive(s) \/ RecomputeRead(s) \/ RecomputeWrite(s)
              \/ Tick
       PROVE  ClaimsInv'
  <2>1. box' = box /\ item' = item /\ link' = link /\ Observe
    BY <1>13 DEF Get, ListFolder, SelectLive, RecomputeRead, RecomputeWrite, Tick, Quietly
  <2>. QED
    BY <2>1, KeepClaims
<1>14. CASE UNCHANGED vars
  BY <1>14 DEF vars, ClaimsInv, Claim, HasRow
<1>. QED
  BY <1>1, <1>2, <1>3, <1>4, <1>5, <1>6, <1>7, <1>8, <1>9, <1>10, <1>11, <1>12, <1>13, <1>14
     DEF Next

(* Claims never collide and lie below uid_next: the inductive invariant. *)
THEOREM ClaimsHold == Spec => []ClaimsInv
  BY InitType, NextType, InitClaims, NextClaims, PTL DEF Spec

(* A UID of a container never names two messages, for any number of         *)
(* messages, containers and callers (allocateFolderUID, allocateLabelUID    *)
(* under concurrent Attach, Move, AddLabel and deletions).                  *)
THEOREM NoReuse == Spec => []NoUIDReuse
<1>1. TypeOK /\ ClaimsInv => NoUIDReuse
  BY DEF TypeOK, ClaimsInv, Claim, NoUIDReuse
<1>. QED
  BY <1>1, TypeCorrect, ClaimsHold, PTL

------------------------------------------------------------------------------
(* Bytes. *)

(* The bytes of a set of messages, and how they change with it. *)
LEMMA BytesAre ==
  ASSUME NEW S \in SUBSET Messages
  PROVE  /\ Bytes(S) \in Nat
         /\ \A m \in Messages \ S : Bytes(S \cup {m}) = Bytes(S) + Size[m]
         /\ \A m \in S : Bytes(S \ {m}) = Bytes(S) - Size[m]
         /\ \A R \in SUBSET S : Bytes(S \ R) = Bytes(S) - Bytes(R)
<1>1. \A T : Bytes(T) = SumOver(Size, T)
  BY DEF Bytes, SumOver
<1>2. \A T \in SUBSET Messages : IsFiniteSet(T) /\ \A m \in T : Size[m] \in Nat /\ Size[m] \in Int
  BY ConstantsAssumption, FS_Subset
<1>3. \A T \in SUBSET Messages : Bytes(T) \in Nat
  BY <1>1, <1>2, SumNat
<1>4. ASSUME NEW T \in SUBSET Messages, NEW m \in T
      PROVE  Bytes(T) = Size[m] + Bytes(T \ {m})
  <2>1. SumOver(Size, T) = Size[m] + SumOver(Size, T \ {m})
    BY <1>2, SumRemove
  <2>. QED
    BY <1>1, <2>1
<1>5. ASSUME NEW m \in Messages \ S PROVE Bytes(S \cup {m}) = Bytes(S) + Size[m]
  <2>1. S \cup {m} \in SUBSET Messages /\ m \in S \cup {m} /\ (S \cup {m}) \ {m} = S
    BY <1>5
  <2>2. Bytes(S \cup {m}) = Size[m] + Bytes(S)
    BY <1>4, <2>1
  <2>3. Bytes(S) \in Nat /\ Size[m] \in Nat
    BY <1>2, <1>3, <2>1
  <2>. QED
    BY <2>2, <2>3
<1>6. ASSUME NEW m \in S PROVE Bytes(S \ {m}) = Bytes(S) - Size[m]
  <2>1. Bytes(S) = Size[m] + Bytes(S \ {m})
    BY <1>4
  <2>2. Bytes(S \ {m}) \in Nat /\ Size[m] \in Nat
    BY <1>2, <1>3
  <2>. QED
    BY <2>1, <2>2
<1>7. ASSUME NEW R \in SUBSET S PROVE Bytes(S \ R) = Bytes(S) - Bytes(R)
  <2>1. SumOver(Size, S) = SumOver(Size, R) + SumOver(Size, S \ R)
    BY <1>2, SumParts
  <2>2. Bytes(S \ R) \in Nat /\ Bytes(R) \in Nat
    BY <1>3
  <2>. QED
    BY <1>1, <2>1, <2>2
<1>. QED
  BY <1>3, <1>5, <1>6, <1>7

(* used_bytes and the bytes taken in unchecked are numbers; the one is the  *)
(* sum of the live messages, and exceeds the quota by no more than the      *)
(* other.                                                                   *)
UsageInv ==
  /\ used \in Int /\ exempt \in Nat
  /\ ~raced => used = LiveBytes
  /\ Quota > 0 => used <= Quota + exempt

(* A step that changes neither the live messages nor the accounts. *)
LEMMA KeepUsage ==
  ASSUME TypeOK, UsageInv, UNCHANGED <<used, raced, exempt>>, \A m \in Messages : Live(m)' <=> Live(m)
  PROVE  UsageInv'
<1>1. LiveSet' = LiveSet
  BY DEF LiveSet
<1>. QED
  BY <1>1 DEF UsageInv, LiveBytes

(* Whoever steps, the accounts are kept. *)
LEMMA NextUsage == TypeOK /\ UsageInv /\ [Next]_vars => UsageInv'
<1>. SUFFICES ASSUME TypeOK, UsageInv, [Next]_vars PROVE UsageInv'
  OBVIOUS
<1>a. /\ item \in [Messages -> ItemRow] /\ used \in Int /\ exempt \in Nat /\ raced \in BOOLEAN
      /\ LiveSet \in SUBSET Messages /\ Bytes(LiveSet) \in Nat /\ Quota \in Int
      /\ \A m \in Messages : Size[m] \in Nat
  <2>1. LiveSet \in SUBSET Messages
    BY DEF LiveSet
  <2>. QED
    BY <2>1, BytesAre, ConstantsAssumption DEF TypeOK, UsageInv
<1>1. ASSUME NEW s \in Sessions, NEW m \in Messages, NEW f \in Folders, Attach(s, m, f)
      PROVE  UsageInv'
  <2>1. /\ item[m].st = "none" /\ Fits(m) /\ used' = used + Size[m] /\ raced' = raced /\ exempt' = exempt
        /\ item' = [item EXCEPT ![m] = [st |-> "live", folder |-> f, uid |-> AllocatedUID(f)]]
    BY <1>1 DEF Attach
  <2>2. LiveSet' = LiveSet \cup {m} /\ m \in Messages \ LiveSet
    BY <1>a, <2>1 DEF LiveSet, Live
  <2>3. LiveBytes' = LiveBytes + Size[m]
    BY <2>2, <1>a, BytesAre DEF LiveBytes
  <2>. QED
    BY <1>a, <2>1, <2>3 DEF UsageInv, Fits
<1>2. ASSUME NEW s \in Sessions, NEW m \in Messages, NEW f \in Folders, Move(s, m, f)
      PROVE  UsageInv'
  <2>. DEFINE old == snap[s].row
  <2>1. CASE UNCHANGED <<box, item, used, raced, exempt>>
    BY <2>1, KeepUsage DEF Live
  <2>2. CASE /\ item' = [item EXCEPT ![m] = [st |-> "live", folder |-> f, uid |-> AllocatedUID(f)]]
             /\ used' = IF Restores(old) THEN used + Size[m] ELSE used
             /\ exempt' = IF Restores(old) THEN exempt + Size[m] ELSE exempt
             /\ raced' = (raced \/ (old.st = "live") # Live(m))
    <3>1. LiveSet' = LiveSet \cup {m}
      BY <1>a, <2>2 DEF LiveSet, Live
    <3>2. ASSUME ~raced' PROVE used' = LiveBytes'
      <4>1. ~raced /\ (Restores(old) <=> ~Live(m)) /\ used = LiveBytes
        BY <2>2, <3>2 DEF Restores, UsageInv
      <4>2. CASE Live(m)
        <5>1. LiveSet' = LiveSet /\ used' = used
          BY <2>2, <3>1, <4>1, <4>2 DEF LiveSet
        <5>. QED
          BY <4>1, <5>1 DEF LiveBytes
      <4>3. CASE ~Live(m)
        <5>1. used' = used + Size[m] /\ m \in Messages \ LiveSet
          BY <2>2, <4>1, <4>3 DEF LiveSet
        <5>2. Bytes(LiveSet \cup {m}) = Bytes(LiveSet) + Size[m]
          BY <1>a, <5>1, BytesAre
        <5>. QED
          BY <3>1, <4>1, <5>1, <5>2 DEF LiveBytes
      <4>. QED
        BY <4>2, <4>3
    <3>3. used' \in Int /\ exempt' \in Nat /\ (Quota > 0 => used' <= Quota + exempt')
      BY <1>a, <2>2 DEF UsageInv
    <3>. QED
      BY <3>2, <3>3 DEF UsageInv
  <2>. QED
    BY <1>2, <2>1, <2>2 DEF Move
<1>3. ASSUME NEW s \in Sessions, NEW m \in Messages, SoftDelete(s, m)
      PROVE  UsageInv'
  <2>1. CASE UNCHANGED <<item, used>>
    BY <1>3, <2>1, KeepUsage DEF SoftDelete, Live
  <2>2. CASE Live(m) /\ item' = [item EXCEPT ![m].st = "deleted"] /\ used' = used - Size[m]
    <3>1. LiveSet' = LiveSet \ {m} /\ m \in LiveSet
      BY <1>a, <2>2 DEF LiveSet, Live, ItemRow
    <3>2. LiveBytes' = LiveBytes - Size[m]
      BY <1>a, <3>1, BytesAre DEF LiveBytes
    <3>3. raced' = raced /\ exempt' = exempt
      BY <1>3 DEF SoftDelete
    <3>. QED
      BY <1>a, <2>2, <3>2, <3>3 DEF UsageInv
  <2>. QED
    BY <1>3, <2>1, <2>2 DEF SoftDelete
<1>4. ASSUME NEW s \in Requests, UpdateSelected(s)
      PROVE  UsageInv'
  <2>. DEFINE gone == job[s].live
  <2>1. /\ item' = [n \in Messages |-> IF n \in gone /\ Live(n) THEN [item[n] EXCEPT !.st = "deleted"] ELSE item[n]]
        /\ used' = used - Bytes(gone) /\ exempt' = exempt
        /\ raced' = (raced \/ \E n \in gone : ~Live(n))
    BY <1>4 DEF UpdateSelected
  <2>2. gone \in SUBSET Messages
    BY DEF TypeOK, Job
  <2>. HIDE DEF gone
  <2>3. LiveSet' = LiveSet \ gone
    BY <1>a, <2>1 DEF LiveSet, Live, ItemRow
  <2>4. Bytes(gone) \in Nat
    BY <2>2, BytesAre
  <2>5. ASSUME ~raced' PROVE used' = LiveBytes'
    <3>1. ~raced /\ gone \in SUBSET LiveSet /\ used = LiveBytes
      BY <2>1, <2>2, <2>5 DEF UsageInv, LiveSet
    <3>2. Bytes(LiveSet \ gone) = Bytes(LiveSet) - Bytes(gone)
      BY <1>a, <3>1, BytesAre
    <3>. QED
      BY <2>1, <2>3, <3>1, <3>2 DEF LiveBytes
  <2>6. used' \in Int /\ exempt' \in Nat /\ (Quota > 0 => used' <= Quota + exempt')
    BY <1>a, <2>1, <2>4 DEF UsageInv
  <2>. QED
    BY <2>5, <2>6 DEF UsageInv
<1>5. ASSUME NEW s \in Requests, RecomputeWrite(s)
      PROVE  UsageInv'
  <2>1. /\ used' = Bytes(job[s].live) /\ raced' = (Bytes(job[s].live) # LiveBytes)
        /\ exempt' = Overrun(Bytes(job[s].live)) /\ item' = item
    BY <1>5 DEF RecomputeWrite
  <2>2. LiveBytes' = LiveBytes
    BY <2>1 DEF LiveBytes, LiveSet, Live
  <2>3. Bytes(job[s].live) \in Nat
    BY BytesAre DEF TypeOK, Job
  <2>4. ~raced' => used' = LiveBytes'
    BY <2>1, <2>2
  <2>5. used' \in Int /\ exempt' \in Nat /\ (Quota > 0 => used' <= Quota + exempt')
    BY <1>a, <2>1, <2>3 DEF Overrun
  <2>. QED
    BY <2>4, <2>5 DEF UsageInv
<1>6. ASSUME NEW m \in Messages, Expire(m) \/ PurgeMessage(m)
      PROVE  UsageInv'
  <2>1. UNCHANGED <<used, raced, exempt>>
    BY <1>6 DEF Expire, PurgeMessage
  <2>2. \A n \in Messages : Live(n)' <=> Live(n)
    BY <1>a, <1>6 DEF Expire, PurgeMessage, Live, ItemRow
  <2>. QED
    BY <2>1, <2>2, KeepUsage
<1>7. ASSUME UNCHANGED <<item, used, raced, exempt>>
      PROVE  UsageInv'
  BY <1>7, KeepUsage DEF Live
<1>. QED
  BY <1>1, <1>2, <1>3, <1>4, <1>5, <1>6, <1>7, ZenonT(60)
     DEF Next, Get, AddLabel, RemoveLabel, ListFolder, SelectLive, DropFolder, DropLinks, DropLabel,
         RecomputeRead, Create, Rename, Tick, vars

(* A new mailbox holds nothing. *)
LEMMA InitUsage == Init => UsageInv
<1>. SUFFICES ASSUME Init PROVE UsageInv
  OBVIOUS
<1>1. LiveSet = {}
  BY DEF Init, LiveSet, Live
<1>2. LiveBytes = 0
  <2>1. Bytes({}) = SumOver(Size, {})
    BY DEF Bytes, SumOver
  <2>. QED
    BY <1>1, <2>1, SumEmpty DEF LiveBytes
<1>. QED
  BY <1>2, ConstantsAssumption DEF Init, UsageInv

(* used_bytes is the sum of the live messages, whatever the callers         *)
(* interleave, until one of them acts on a read that is out of date.        *)
THEOREM UsageIsExact == Spec => []ExactUnlessRaced
<1>1. UsageInv => ExactUnlessRaced
  BY DEF UsageInv, ExactUnlessRaced
<1>. QED
  BY <1>1, TypeCorrect, InitUsage, NextUsage, PTL DEF Spec

(* The live messages outgrow the quota only by what was restored unchecked. *)
THEOREM QuotaIsKept == Spec => []QuotaHolds
<1>1. UsageInv => QuotaHolds
  BY DEF UsageInv, QuotaHolds
<1>. QED
  BY <1>1, TypeCorrect, InitUsage, NextUsage, PTL DEF Spec

------------------------------------------------------------------------------
(* What the watchers of a folder see. *)

(* A row that is live after a step was so before and is where it was, or    *)
(* has the UID its folder had to give.                                      *)
Placed(m) ==
  item'[m].st = "live" =>
    (item[m].st = "live" /\ item'[m] = item[m]) \/ item'[m].uid = box[item'[m].folder].uidNext

(* Every step does so. *)
LEMMA NextPlaces == TypeOK /\ [Next]_vars => \A m \in Messages : Placed(m)
<1>. SUFFICES ASSUME TypeOK, [Next]_vars, NEW n \in Messages PROVE Placed(n)
  OBVIOUS
<1>a. item \in [Messages -> ItemRow]
  BY DEF TypeOK
<1>1. ASSUME NEW m \in Messages, NEW f \in Folders,
             item' = [item EXCEPT ![m] = [st |-> "live", folder |-> f, uid |-> AllocatedUID(f)]]
      PROVE  Placed(n)
  BY <1>a, <1>1 DEF Placed, AllocatedUID
<1>2. ASSUME item'[n] = item[n] \/ item'[n].st # "live" PROVE Placed(n)
  BY <1>2 DEF Placed
<1>3. ASSUME NEW s \in Sessions, NEW m \in Messages, NEW f \in Folders, Attach(s, m, f) \/ Move(s, m, f)
      PROVE  Placed(n)
  BY <1>1, <1>2, <1>3 DEF Attach, Move
<1>4. ASSUME NEW s \in Sessions, NEW m \in Messages, SoftDelete(s, m) PROVE Placed(n)
  <2>1. item'[n] = item[n] \/ item'[n].st # "live"
    BY <1>a, <1>4 DEF SoftDelete, ItemRow
  <2>. QED
    BY <1>2, <2>1
<1>5. ASSUME NEW s \in Requests, UpdateSelected(s) PROVE Placed(n)
  <2>1. item'[n] = item[n] \/ item'[n].st # "live"
    BY <1>a, <1>5 DEF UpdateSelected, ItemRow
  <2>. QED
    BY <1>2, <2>1
<1>6. ASSUME NEW m \in Messages, Expire(m) \/ PurgeMessage(m) PROVE Placed(n)
  <2>1. item'[n] = item[n] \/ item'[n].st # "live"
    BY <1>a, <1>6 DEF Expire, PurgeMessage, ItemRow
  <2>. QED
    BY <1>2, <2>1
<1>7. ASSUME item' = item PROVE Placed(n)
  BY <1>2, <1>7
<1>. QED
  BY <1>3, <1>4, <1>5, <1>6, <1>7, ZenonT(60)
     DEF Next, Get, AddLabel, RemoveLabel, ListFolder, SelectLive, DropFolder, DropLinks, DropLabel,
         RecomputeRead, RecomputeWrite, Create, Rename, Tick, vars

(* A message that turns up in a folder has a UID at or above the uid_next   *)
(* of the folder, so that a client that asks from there finds it.           *)
THEOREM AppearsAbove == Spec => AppearsAtTop
<1>1. TypeOK /\ [Next]_vars => [\A f \in Folders : \A p \in Members(f)' \ Members(f) : p[2] >= box[f].uidNext]_vars
  <2>. SUFFICES ASSUME TypeOK, [Next]_vars, NEW f \in Folders, NEW p \in Members(f)', p \notin Members(f)
                PROVE  p[2] >= box[f].uidNext
    OBVIOUS
  <2>1. PICK m \in Messages : item'[m].st = "live" /\ item'[m].folder = f /\ p = <<m, item'[m].uid>>
    BY DEF Members, LiveSet, Live
  <2>2. ~(item[m].st = "live" /\ item'[m] = item[m])
    BY <2>1 DEF Members, LiveSet, Live
  <2>3. p[2] = box[f].uidNext
    BY <2>1, <2>2, NextPlaces DEF Placed
  <2>4. box[f].uidNext \in Int
    BY DEF TypeOK, BoxRow, Boxes
  <2>. QED
    BY <2>3, <2>4
<1>. QED
  BY <1>1, TypeCorrect, PTL DEF Spec, AppearsAtTop

(* m is in a folder under a UID. *)
In(m, f, u) == Live(m) /\ item[m].folder = f /\ item[m].uid = u

(* The UIDs of a folder, before and after a step. *)
LEMMA UIDsAre ==
  ASSUME NEW f, NEW u
  PROVE  /\ u \in UIDs(f) <=> \E m \in Messages : In(m, f, u)
         /\ u \in UIDs(f)' <=> \E m \in Messages : In(m, f, u)'
<1>1. u \in UIDs(f) <=> \E m \in Messages : In(m, f, u)
  <2>1. ASSUME u \in UIDs(f) PROVE \E m \in Messages : In(m, f, u)
    <3>1. PICK p \in Members(f) : u = p[2]
      BY <2>1 DEF UIDs
    <3>2. PICK m \in {x \in LiveSet : item[x].folder = f} : p = <<m, item[m].uid>>
      BY <3>1 DEF Members
    <3>. QED
      BY <3>1, <3>2 DEF LiveSet, In
  <2>2. ASSUME NEW m \in Messages, In(m, f, u) PROVE u \in UIDs(f)
    <3>1. <<m, item[m].uid>> \in Members(f)
      BY <2>2 DEF Members, LiveSet, In
    <3>2. <<m, item[m].uid>>[2] = u
      BY <2>2 DEF In
    <3>. QED
      BY <3>1, <3>2 DEF UIDs
  <2>. QED
    BY <2>1, <2>2
<1>2. (u \in UIDs(f) <=> \E m \in Messages : In(m, f, u))'
  BY <1>1, PTL
<1>. QED
  BY <1>1, <1>2

(* No two messages share one. *)
LEMMA OneMessage ==
  ASSUME TypeOK, ClaimsInv, NEW m \in Messages, NEW n \in Messages, NEW f, NEW u, In(m, f, u), In(n, f, u)
  PROVE  m = n
<1>1. HasRow(item[m]) /\ HasRow(item[n]) /\ item[m] \in ItemRow
  BY DEF In, Live, HasRow, TypeOK
<1>2. f \in Boxes /\ u \in 0..MaxUID
  BY <1>1 DEF In, ItemRow, Boxes
<1>3. Claim(f, u, m) /\ Claim(f, u, n)
  BY <1>1 DEF Claim, In
<1>. QED
  BY <1>2, <1>3 DEF ClaimsInv

(* What Announced says of a step. *)
Told ==
  \A f \in Folders :
    /\ \A u \in UIDs(f) \ UIDs(f)' : Expunge(f, u) \in pub'
    /\ \A u \in UIDs(f)' \ UIDs(f) : Exists(f, u) \in pub'
    /\ \A p \in pub' : p.box = f =>
         IF p.kind = "exists" THEN p.uid \in UIDs(f)' ELSE p.uid \notin UIDs(f)'

(* The same, message by message. *)
Lost(m, f, u)   == In(m, f, u) /\ ~In(m, f, u)'
Gained(m, f, u) == ~In(m, f, u) /\ In(m, f, u)'
TrueOf(p) ==
  IF p.kind = "exists" THEN \E m \in Messages : In(m, p.box, p.uid)'
                       ELSE \A m \in Messages : ~In(m, p.box, p.uid)'

LEMMA ToldIf ==
  ASSUME \A f, u : \A m \in Messages : Lost(m, f, u) => Expunge(f, u) \in pub',
         \A f, u : \A m \in Messages : Gained(m, f, u) => Exists(f, u) \in pub',
         \A p \in pub' : p.box \in Folders => TrueOf(p)
  PROVE  Told
<1>. SUFFICES ASSUME NEW f \in Folders
              PROVE  /\ \A u \in UIDs(f) \ UIDs(f)' : Expunge(f, u) \in pub'
                     /\ \A u \in UIDs(f)' \ UIDs(f) : Exists(f, u) \in pub'
                     /\ \A p \in pub' : p.box = f =>
                          IF p.kind = "exists" THEN p.uid \in UIDs(f)' ELSE p.uid \notin UIDs(f)'
  BY DEF Told
<1>1. ASSUME NEW u \in UIDs(f) \ UIDs(f)' PROVE Expunge(f, u) \in pub'
  BY <1>1, UIDsAre DEF Lost
<1>2. ASSUME NEW u \in UIDs(f)' \ UIDs(f) PROVE Exists(f, u) \in pub'
  BY <1>2, UIDsAre DEF Gained
<1>3. ASSUME NEW p \in pub', p.box = f
      PROVE  IF p.kind = "exists" THEN p.uid \in UIDs(f)' ELSE p.uid \notin UIDs(f)'
  BY <1>3, UIDsAre DEF TrueOf
<1>. QED
  BY <1>1, <1>2, <1>3

(* A box that was created stays so, and its UIDs go up only. *)
LEMMA NextGrows ==
  TypeOK /\ [Next]_vars =>
    \A c \in Boxes : box[c].st # "absent" => box'[c].st # "absent" /\ box'[c].uidNext >= box[c].uidNext
<1>. SUFFICES ASSUME TypeOK, [Next]_vars, NEW c \in Boxes, box[c].st # "absent"
              PROVE  box'[c].st # "absent" /\ box'[c].uidNext >= box[c].uidNext
  OBVIOUS
<1>a. box \in [Boxes -> BoxRow] /\ box[c].uidNext \in Int
  BY DEF TypeOK, BoxRow
<1>1. CASE box' = box
  BY <1>a, <1>1
<1>2. ASSUME NEW d \in Boxes, Allocate(d) PROVE box'[c].st # "absent" /\ box'[c].uidNext >= box[c].uidNext
  BY <1>a, <1>2 DEF Allocate, BoxRow
<1>3. ASSUME NEW s \in Requests, DropFolder(s) \/ DropLabel(s)
      PROVE  box'[c].st # "absent" /\ box'[c].uidNext >= box[c].uidNext
  BY <1>a, <1>3 DEF DropFolder, DropLabel, BoxRow
<1>4. ASSUME NEW d \in Boxes, NEW name \in Names, Create(d, name) \/ Rename(d, name)
      PROVE  box'[c].st # "absent" /\ box'[c].uidNext >= box[c].uidNext
  <2>1. CASE Create(d, name)
    <3>1. box'[c] = box[c]
      BY <1>a, <2>1 DEF Create
    <3>. QED
      BY <1>a, <3>1
  <2>2. CASE Rename(d, name)
    BY <1>a, <2>2 DEF Rename, BoxRow
  <2>. QED
    BY <1>4, <2>1, <2>2
<1>5. ASSUME NEW s \in Sessions, NEW m \in Messages, NEW f \in Folders, Attach(s, m, f) \/ Move(s, m, f)
      PROVE  box'[c].st # "absent" /\ box'[c].uidNext >= box[c].uidNext
  BY <1>1, <1>2, <1>5 DEF Attach, Move, Boxes
<1>6. ASSUME NEW s \in Sessions, NEW m \in Messages, NEW l \in Labels, AddLabel(s, m, l)
      PROVE  box'[c].st # "absent" /\ box'[c].uidNext >= box[c].uidNext
  BY <1>2, <1>6 DEF AddLabel, Boxes
<1>. QED
  BY <1>1, <1>3, <1>4, <1>5, <1>6
     DEF Next, Get, SoftDelete, RemoveLabel, ListFolder, SelectLive, UpdateSelected, DropLinks,
         RecomputeRead, RecomputeWrite, Expire, PurgeMessage, Tick, vars

(* What a request has listed were live rows with UIDs that had been given;  *)
(* and once it has selected the rows that are still live, those it has not  *)
(* selected can never again be what it listed: a row that comes back comes  *)
(* back under a new UID.                                                    *)
Listed(s) ==
  \A x \in job[s].list :
    /\ x.row.st = "live" /\ box[x.row.folder].st # "absent" /\ x.row.uid < box[x.row.folder].uidNext

Selected(s) ==
  job[s].pc = "selected" =>
    /\ \A m \in job[s].live : \E x \in job[s].list : x.msg = m
    /\ \A x \in job[s].list : x.msg \in job[s].live \/ item[x.msg] # x.row

SelectedInv == \A s \in Requests : Listed(s) /\ Selected(s)

LEMMA KeepSelected ==
  ASSUME TypeOK, [Next]_vars, NEW s \in Requests, Listed(s), Selected(s), job'[s] = job[s]
  PROVE  Listed(s)' /\ Selected(s)'
<1>1. \A x \in job[s].list :
        /\ x.msg \in Messages /\ x.row.uid \in Int /\ x.row.folder \in Boxes
        /\ box[x.row.folder].uidNext \in Int
  <2>1. \A x \in job[s].list : x.msg \in Messages /\ x.row.uid \in Int /\ x.row.folder \in Boxes
    BY DEF TypeOK, Job, Snapshot, ItemRow, Boxes
  <2>. QED
    BY <2>1 DEF TypeOK, BoxRow
<1>2. ASSUME NEW x \in job[s].list
      PROVE  /\ x.row.st = "live" /\ box'[x.row.folder].st # "absent" /\ x.row.uid < box'[x.row.folder].uidNext
             /\ box'[x.row.folder].uidNext >= box[x.row.folder].uidNext
  <2>1. box'[x.row.folder].st # "absent" /\ box'[x.row.folder].uidNext >= box[x.row.folder].uidNext
    BY <1>1, NextGrows DEF Listed
  <2>2. box'[x.row.folder].uidNext \in Int
    BY <1>1, NextType DEF TypeOK, BoxRow
  <2>. QED
    BY <1>1, <2>1, <2>2 DEF Listed
<1>3. ASSUME NEW x \in job[s].list, item'[x.msg] = x.row
      PROVE  item[x.msg] = x.row
  <2>1. Placed(x.msg)
    BY <1>1, NextPlaces
  <2>2. item'[x.msg].uid # box[item'[x.msg].folder].uidNext
    BY <1>1, <1>3 DEF Listed
  <2>. QED
    BY <1>3, <2>1, <2>2 DEF Listed, Placed
<1>. QED
  BY <1>2, <1>3 DEF Listed, Selected

(* Whoever steps, what was selected stays apart from what was not. *)
LEMMA NextSelected == TypeOK /\ ClaimsInv /\ SelectedInv /\ [Next]_vars => SelectedInv'
<1>. SUFFICES ASSUME TypeOK, ClaimsInv, SelectedInv, [Next]_vars, NEW r \in Requests
              PROVE  Listed(r)' /\ Selected(r)'
  BY DEF SelectedInv
<1>a. job \in [Requests -> Job] /\ Listed(r) /\ Selected(r)
  BY DEF TypeOK, SelectedInv
<1>1. CASE job'[r] = job[r]
  BY <1>a, <1>1, KeepSelected
<1>2. CASE job'[r].list = {} /\ job'[r].pc # "selected"
  BY <1>2 DEF Listed, Selected
<1>3. ASSUME NEW f \in Folders, NEW drop \in BOOLEAN, ListFolder(r, f, drop)
      PROVE  Listed(r)' /\ Selected(r)'
  <2>1. PICK list \in SUBSET SnapshotsIn(f) :
          job' = [job EXCEPT ![r] = [IdleJob EXCEPT !.pc = IF list = {} THEN "droprow" ELSE "listed",
                                                    !.box = f, !.drop = drop, !.list = list]]
    BY <1>3 DEF ListFolder
  <2>2. job'[r].list = list /\ job'[r].pc # "selected"
    BY <1>a, <2>1 DEF IdleJob
  <2>3. box' = box
    BY <1>3 DEF ListFolder
  <2>4. ASSUME NEW x \in list
        PROVE  x.row.st = "live" /\ box[x.row.folder].st # "absent" /\ x.row.uid < box[x.row.folder].uidNext
    <3>1. PICK m \in Messages : item[m].st = "live" /\ x = [msg |-> m, row |-> item[m]]
      BY <2>4 DEF SnapshotsIn, LiveSet, Live
    <3>2. HasRow(item[m]) /\ item[m].folder \in Boxes /\ item[m].uid \in 0..MaxUID
      BY <3>1 DEF HasRow, TypeOK, ItemRow, Boxes
    <3>3. Claim(item[m].folder, item[m].uid, m)
      BY <3>2 DEF Claim
    <3>. QED
      BY <3>1, <3>2, <3>3 DEF ClaimsInv
  <2>. QED
    BY <2>2, <2>3, <2>4 DEF Listed, Selected
<1>4. ASSUME SelectLive(r)
      PROVE  Listed(r)' /\ Selected(r)'
  <2>1. job[r] \in Job /\ UNCHANGED <<box, item>>
    BY <1>a, <1>4 DEF SelectLive
  <2>2. job'[r] = [job[r] EXCEPT !.pc = "selected", !.live = {x.msg : x \in {y \in job[r].list : Live(y.msg)}}]
    BY <1>a, <1>4 DEF SelectLive
  <2>3. job'[r].list = job[r].list /\ job'[r].live = {x.msg : x \in {y \in job[r].list : Live(y.msg)}}
    BY <2>1, <2>2 DEF Job
  <2>4. \A x \in job[r].list : x.msg \in job'[r].live \/ item'[x.msg] # x.row
    <3>1. ASSUME NEW x \in job[r].list, x.msg \notin job'[r].live PROVE item'[x.msg] # x.row
      <4>1. ~Live(x.msg)
        BY <2>3, <3>1
      <4>. QED
        BY <1>a, <2>1, <4>1 DEF Listed, Live
    <3>. QED
      BY <3>1
  <2>5. \A m \in job'[r].live : \E x \in job'[r].list : x.msg = m
    BY <2>3
  <2>6. Listed(r)'
    BY <1>a, <2>1, <2>3 DEF Listed
  <2>. QED
    BY <2>3, <2>4, <2>5, <2>6 DEF Selected
<1>5. ASSUME NEW s \in Requests, NEW j, job' = [job EXCEPT ![s] = j], j.list = {}, j.pc # "selected"
      PROVE  Listed(r)' /\ Selected(r)'
  BY <1>1, <1>2, <1>5, <1>a
<1>6. ASSUME NEW s \in Requests, NEW f \in Folders, NEW drop \in BOOLEAN, ListFolder(s, f, drop)
      PROVE  Listed(r)' /\ Selected(r)'
  BY <1>1, <1>3, <1>6, <1>a DEF ListFolder
<1>7. ASSUME NEW s \in Requests, SelectLive(s) PROVE Listed(r)' /\ Selected(r)'
  BY <1>1, <1>4, <1>7, <1>a DEF SelectLive
<1>d. ASSUME NEW c, NEW j, j \in {IdleJob, [IdleJob EXCEPT !.pc = "droprow", !.box = c],
                                 [IdleJob EXCEPT !.pc = "recompute", !.live = LiveSet]}
      PROVE  j.list = {} /\ j.pc # "selected"
  <2>1. CASE j = IdleJob
    BY <2>1 DEF IdleJob
  <2>2. CASE j = [IdleJob EXCEPT !.pc = "droprow", !.box = c]
    BY <2>2 DEF IdleJob
  <2>3. CASE j = [IdleJob EXCEPT !.pc = "recompute", !.live = LiveSet]
    BY <2>3 DEF IdleJob
  <2>. QED
    BY <1>d, <2>1, <2>2, <2>3
<1>8. ASSUME NEW s \in Requests, UpdateSelected(s) PROVE Listed(r)' /\ Selected(r)'
  <2>1. PICK j \in {IdleJob, [IdleJob EXCEPT !.pc = "droprow", !.box = job[s].box]} : job' = [job EXCEPT ![s] = j]
    BY <1>8 DEF UpdateSelected
  <2>. QED
    BY <1>5, <1>d, <2>1
<1>9. ASSUME NEW s \in Requests, DropFolder(s) \/ DropLabel(s) \/ RecomputeWrite(s)
      PROVE  Listed(r)' /\ Selected(r)'
  <2>1. job' = [job EXCEPT ![s] = IdleJob]
    BY <1>9 DEF DropFolder, DropLabel, RecomputeWrite
  <2>. QED
    BY <1>5, <1>d, <2>1
<1>10. ASSUME NEW s \in Requests, NEW l \in Labels, DropLinks(s, l) PROVE Listed(r)' /\ Selected(r)'
  <2>1. job' = [job EXCEPT ![s] = [IdleJob EXCEPT !.pc = "droprow", !.box = l]]
    BY <1>10 DEF DropLinks
  <2>. QED
    BY <1>5, <1>d, <2>1
<1>11. ASSUME NEW s \in Requests, RecomputeRead(s) PROVE Listed(r)' /\ Selected(r)'
  <2>1. job' = [job EXCEPT ![s] = [IdleJob EXCEPT !.pc = "recompute", !.live = LiveSet]]
    BY <1>11 DEF RecomputeRead
  <2>. QED
    BY <1>5, <1>d, <2>1
<1>. QED
  BY <1>1, <1>6, <1>7, <1>8, <1>9, <1>10, <1>11
     DEF Next, Attach, Move, Get, SoftDelete, AddLabel, RemoveLabel, Create, Rename, Expire, PurgeMessage, Tick, vars

(* A step whose caller had read what is so tells every watcher of a folder  *)
(* what left it and what came.                                              *)
LEMMA NextTold == TypeOK /\ ClaimsInv /\ SelectedInv /\ [Next]_vars => (fresh' => Told \/ UNCHANGED vars)
<1>. SUFFICES ASSUME TypeOK, ClaimsInv, SelectedInv, Next, fresh' PROVE Told
  OBVIOUS
<1>a. item \in [Messages -> ItemRow] /\ Folders \cap Labels = {}
  BY ConstantsAssumption DEF TypeOK
<1>1. ASSUME pub' = {}, \A m \in Messages : item'[m] = item[m] \/ (~Live(m) /\ item'[m].st # "live")
      PROVE  Told
  <2>1. \A f, u : \A m \in Messages : ~Lost(m, f, u) /\ ~Gained(m, f, u)
    BY <1>1 DEF Lost, Gained, In, Live
  <2>. QED
    BY <1>1, <2>1, ToldIf
<1>2. ASSUME pub' = {}, item' = item PROVE Told
  <2>1. \A m \in Messages : item'[m] = item[m]
    BY <1>2
  <2>. QED
    BY <1>1, <1>2, <2>1
<1>3. ASSUME item' = item, \A p \in pub' : p.box \in Labels PROVE Told
  <2>1. \A f, u : \A m \in Messages : ~Lost(m, f, u) /\ ~Gained(m, f, u)
    BY <1>3 DEF Lost, Gained, In, Live
  <2>2. \A p \in pub' : p.box \in Folders => TrueOf(p)
    BY <1>a, <1>3
  <2>. QED
    BY <2>1, <2>2, ToldIf
<1>4. ASSUME NEW m \in Messages, NEW f \in Folders, NEW u, NEW old, old = item[m],
             item' = [item EXCEPT ![m] = [st |-> "live", folder |-> f, uid |-> u]],
             IF old.st = "live" THEN old.folder # f /\ pub' = {Exists(f, u)} \cup {Expunge(old.folder, old.uid)}
                                ELSE pub' = {Exists(f, u)}
      PROVE  Told
  <2>1. item'[m] = [st |-> "live", folder |-> f, uid |-> u] /\ \A n \in Messages \ {m} : item'[n] = item[n]
    BY <1>a, <1>4
  <2>2. ASSUME NEW n \in Messages, NEW g, NEW v, Lost(n, g, v) PROVE Expunge(g, v) \in pub'
    <3>1. n = m
      BY <2>1, <2>2 DEF Lost, In, Live
    <3>. QED
      BY <1>4, <2>2, <3>1 DEF Lost, In, Live
  <2>3. ASSUME NEW n \in Messages, NEW g, NEW v, Gained(n, g, v) PROVE Exists(g, v) \in pub'
    <3>1. n = m
      BY <2>1, <2>3 DEF Gained, In, Live
    <3>. QED
      BY <1>4, <2>1, <2>3, <3>1 DEF Gained, In, Live
  <2>4. TrueOf(Exists(f, u))
    BY <2>1 DEF TrueOf, Exists, In, Live
  <2>5. ASSUME old.st = "live" PROVE TrueOf(Expunge(old.folder, old.uid))
    <3>1. ASSUME NEW n \in Messages, In(n, old.folder, old.uid)' PROVE FALSE
      <4>1. n # m
        BY <1>4, <2>1, <2>5, <3>1 DEF In
      <4>2. In(n, old.folder, old.uid) /\ In(m, old.folder, old.uid)
        BY <1>4, <2>1, <2>5, <3>1, <4>1 DEF In, Live
      <4>. QED
        BY <4>1, <4>2, OneMessage
    <3>. QED
      BY <3>1 DEF TrueOf, Expunge
  <2>6. \A p \in pub' : TrueOf(p)
    BY <1>4, <2>4, <2>5
  <2>. QED
    BY <2>2, <2>3, <2>6, ToldIf
<1>5. ASSUME NEW s \in Sessions, NEW m \in Messages, NEW f \in Folders, Attach(s, m, f) PROVE Told
  <2>1. /\ item' = [item EXCEPT ![m] = [st |-> "live", folder |-> f, uid |-> AllocatedUID(f)]]
        /\ pub' = {Exists(f, AllocatedUID(f))} /\ item[m].st # "live"
    BY <1>5 DEF Attach
  <2>. QED
    BY <1>4, <2>1
<1>6. ASSUME NEW s \in Sessions, NEW m \in Messages, NEW f \in Folders, Move(s, m, f) PROVE Told
  <2>1. CASE pub' = {} /\ item' = item
    BY <1>2, <2>1
  <2>2. CASE /\ snap[s].row.folder # f \/ Restores(snap[s].row)
             /\ item' = [item EXCEPT ![m] = [st |-> "live", folder |-> f, uid |-> AllocatedUID(f)]]
             /\ pub' = MoveChanges(snap[s].row, f, AllocatedUID(f))
             /\ fresh' = (snap[s].row = item[m])
    <3>1. snap[s].row = item[m]
      BY <2>2
    <3>2. IF item[m].st = "live"
          THEN item[m].folder # f
               /\ pub' = {Exists(f, AllocatedUID(f))} \cup {Expunge(item[m].folder, item[m].uid)}
          ELSE pub' = {Exists(f, AllocatedUID(f))}
      BY <2>2, <3>1 DEF MoveChanges, Restores
    <3>. QED
      BY <1>4, <2>2, <3>2
  <2>. QED
    BY <1>6, <2>1, <2>2 DEF Move
<1>7. ASSUME NEW D \in SUBSET Messages, NEW P,
             item' = [m \in Messages |-> IF m \in D THEN [item[m] EXCEPT !.st = "deleted"] ELSE item[m]],
             \A m \in D : Live(m) /\ Expunge(item[m].folder, item[m].uid) \in P,
             \A p \in P : \E m \in D : p = Expunge(item[m].folder, item[m].uid),
             pub' = P
      PROVE  Told
  <2>1. \A m \in D : item'[m].st # "live"
    <3>1. ASSUME NEW m \in D PROVE item'[m].st # "live"
      <4>1. item[m] \in ItemRow /\ item'[m] = [item[m] EXCEPT !.st = "deleted"]
        BY <1>a, <1>7
      <4>. QED
        BY <4>1 DEF ItemRow
    <3>. QED
      BY <3>1
  <2>2. \A m \in Messages \ D : item'[m] = item[m]
    BY <1>7
  <2>3. ASSUME NEW n \in Messages, NEW g, NEW v, Lost(n, g, v) PROVE Expunge(g, v) \in pub'
    <3>1. n \in D /\ item[n].folder = g /\ item[n].uid = v
      BY <2>2, <2>3 DEF Lost, In, Live
    <3>. QED
      BY <1>7, <3>1
  <2>4. ASSUME NEW n \in Messages, NEW g, NEW v, Gained(n, g, v) PROVE FALSE
    BY <2>1, <2>2, <2>4 DEF Gained, In, Live
  <2>5. ASSUME NEW p \in pub' PROVE TrueOf(p)
    <3>1. PICK m \in D : p = Expunge(item[m].folder, item[m].uid)
      BY <1>7, <2>5
    <3>2. ASSUME NEW n \in Messages, In(n, item[m].folder, item[m].uid)' PROVE FALSE
      <4>1. n \notin D
        BY <2>1, <3>2 DEF In, Live
      <4>2. In(n, item[m].folder, item[m].uid) /\ In(m, item[m].folder, item[m].uid)
        BY <1>7, <2>2, <3>2, <4>1 DEF In, Live
      <4>. QED
        BY <1>7, <4>1, <4>2, OneMessage
    <3>3. TrueOf(Expunge(item[m].folder, item[m].uid))
      BY <3>2 DEF TrueOf, Expunge
    <3>. QED
      BY <3>1, <3>3
  <2>. QED
    BY <2>3, <2>4, <2>5, ToldIf
<1>8. ASSUME NEW s \in Sessions, NEW m \in Messages, SoftDelete(s, m) PROVE Told
  <2>1. snap[s].row = item[m] /\ Live(m)
    BY <1>8 DEF SoftDelete, Live
  <2>2. item' = [item EXCEPT ![m].st = "deleted"] /\ pub' = {Expunge(item[m].folder, item[m].uid)}
    BY <1>8, <2>1 DEF SoftDelete
  <2>3. item' = [n \in Messages |-> IF n \in {m} THEN [item[n] EXCEPT !.st = "deleted"] ELSE item[n]]
    BY <1>a, <2>2
  <2>4. {m} \in SUBSET Messages
    OBVIOUS
  <2>5. \A n \in {m} : Live(n) /\ Expunge(item[n].folder, item[n].uid) \in pub'
    BY <2>1, <2>2
  <2>6. \A p \in pub' : \E n \in {m} : p = Expunge(item[n].folder, item[n].uid)
    BY <2>2
  <2>. QED
    BY <1>7, <2>3, <2>4, <2>5, <2>6
<1>9. ASSUME NEW s \in Requests, UpdateSelected(s) PROVE Told
  <2>. DEFINE D == {m \in Messages : m \in job[s].live /\ Live(m)}
  <2>1. /\ item' = [m \in Messages |-> IF m \in job[s].live /\ Live(m)
                                       THEN [item[m] EXCEPT !.st = "deleted"] ELSE item[m]]
        /\ pub' = BatchChanges(job[s].list) /\ \A x \in job[s].list : x.row = item[x.msg]
        /\ job[s].pc = "selected"
    BY <1>9 DEF UpdateSelected
  <2>2. item' = [m \in Messages |-> IF m \in D THEN [item[m] EXCEPT !.st = "deleted"] ELSE item[m]]
    BY <2>1
  <2>3. /\ \A x \in job[s].list : x.msg \in Messages
        /\ Listed(s) /\ Selected(s)
    BY DEF TypeOK, Job, Snapshot, SelectedInv
  <2>4. \A x \in job[s].list : x.msg \in D /\ x.row = item[x.msg]
    BY <2>1, <2>3 DEF Listed, Selected, Live
  <2>5. \A m \in D : \E x \in job[s].list : x.msg = m
    BY <2>1, <2>3 DEF Selected
  <2>6. \A m \in D : Live(m) /\ Expunge(item[m].folder, item[m].uid) \in pub'
    BY <2>1, <2>4, <2>5 DEF BatchChanges
  <2>7. \A p \in pub' : \E m \in D : p = Expunge(item[m].folder, item[m].uid)
    BY <2>1, <2>4 DEF BatchChanges
  <2>8. D \in SUBSET Messages
    OBVIOUS
  <2>. HIDE DEF D
  <2>. QED
    BY <1>7, <2>2, <2>6, <2>7, <2>8
<1>10. ASSUME NEW s \in Sessions, NEW m \in Messages, NEW l \in Labels, AddLabel(s, m, l) \/ RemoveLabel(s, m, l)
       PROVE  Told
  <2>1. CASE AddLabel(s, m, l)
    <3>1. item' = item /\ pub' = {Exists(l, AllocatedUID(l))}
      BY <2>1 DEF AddLabel
    <3>2. \A p \in pub' : p.box \in Labels
      BY <3>1 DEF Exists
    <3>. QED
      BY <1>3, <3>1, <3>2
  <2>2. CASE RemoveLabel(s, m, l)
    <3>1. item' = item /\ pub' = {Expunge(l, link[l][m])}
      BY <2>2 DEF RemoveLabel
    <3>2. \A p \in pub' : p.box \in Labels
      BY <3>1 DEF Expunge
    <3>. QED
      BY <1>3, <3>1, <3>2
  <2>. QED
    BY <1>10, <2>1, <2>2
<1>11. ASSUME NEW m \in Messages, Expire(m) \/ PurgeMessage(m) PROVE Told
  <2>1. pub' = {} /\ ~Live(m) /\ (item' = [item EXCEPT ![m].st = "expired"] \/ item' = [item EXCEPT ![m].st = "purged"])
    BY <1>11 DEF Expire, PurgeMessage, Quietly, Live
  <2>2. \A n \in Messages \ {m} : item'[n] = item[n]
    BY <1>a, <2>1
  <2>3. item'[m].st # "live"
    <3>1. item[m] \in ItemRow /\ (item'[m] = [item[m] EXCEPT !.st = "expired"] \/ item'[m] = [item[m] EXCEPT !.st = "purged"])
      BY <1>a, <2>1
    <3>. QED
      BY <3>1 DEF ItemRow
  <2>4. \A n \in Messages : item'[n] = item[n] \/ (~Live(n) /\ item'[n].st # "live")
    BY <2>1, <2>2, <2>3
  <2>. QED
    BY <1>1, <2>1, <2>4
<1>12. ASSUME item' = item, Quietly PROVE Told
  BY <1>2, <1>12 DEF Quietly
<1>. QED
  BY <1>5, <1>6, <1>8, <1>9, <1>10, <1>11, <1>12
     DEF Next, Get, ListFolder, SelectLive, DropFolder, DropLinks, DropLabel,
         RecomputeRead, RecomputeWrite, Create, Rename, Tick

(* No request has listed anything to begin with. *)
LEMMA InitSelected == Init => SelectedInv
<1>. SUFFICES ASSUME Init, NEW s \in Requests PROVE Listed(s) /\ Selected(s)
  BY DEF SelectedInv
<1>1. job[s].list = {} /\ job[s].pc = "idle"
  BY DEF Init, IdleJob
<1>. QED
  BY <1>1 DEF Listed, Selected

(* When the caller's item was current, what a step publishes tells the      *)
(* watchers of each folder exactly which messages left it and which came.   *)
THEOREM Announces == Spec => Announced
<1>1. TypeOK /\ ClaimsInv /\ [Next]_vars /\ SelectedInv => SelectedInv'
  BY NextSelected
<1>2. TypeOK /\ ClaimsInv /\ SelectedInv /\ [Next]_vars => [fresh' => Told]_vars
  BY NextTold
<1>3. Spec => [][fresh' => Told]_vars
  BY <1>1, <1>2, InitSelected, TypeCorrect, ClaimsHold, PTL DEF Spec
<1>. QED
  BY <1>3 DEF Announced, Told

=============================================================================
