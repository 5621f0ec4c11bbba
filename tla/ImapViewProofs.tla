---------------------------- MODULE ImapViewProofs ----------------------------
(***************************************************************************)
(* What a session shows of its folder (ImapView), proved for every number  *)
(* of messages: the client's sequence numbers are the session's, EXPUNGE   *)
(* names only messages that have left, commands change the message that    *)
(* was meant, and the flags the client was told are those of the view.     *)
(***************************************************************************)
EXTENDS ImapView, SequenceTheorems, FiniteSetTheorems, WellFoundedInduction, TLAPS

(* The command a session executes. *)
Ops == {"none", "select", "poll", "idle", "fetch", "search", "copy", "body",
        "store", "expunge", "move"}
Command == [op : Ops, pc : {"ready", "subscribe", "idle", "drain", "load", "act", "end", "filed"},
            n : 0..MaxUID, named : 0..MaxUID, flag : FlagValues,
            kept : Seq(Entry), at : Nat, allow : BOOLEAN]

(* Where each command can be, and on which view. *)
StageInv ==
  /\ cmd \in Command
  /\ cmd.op = "none" <=> cmd.pc = "ready"
  /\ cmd.op = "select" <=> cmd.pc = "subscribe"
  /\ cmd.pc = "idle" => cmd.op = "idle"
  /\ cmd.pc = "end" => cmd.op \in {"body", "store", "move"}
  /\ cmd.pc = "filed" => cmd.op = "move" /\ InArchive
  /\ cmd.op \notin {"none", "select"} => view.open

(* No message is in a view twice. *)
Distinct(es) == \A i, j \in DOMAIN es : es[i].uid = es[j].uid => i = j

DistinctInv ==
  /\ Distinct(view.entries)
  /\ cmd.op = "select" => Distinct(cmd.kept)

(* The loop of Expunge: what it has kept are entries it has passed, in      *)
(* order, and all of them if it has kept as many as it has passed.          *)
KeptInv ==
  cmd.op = "expunge" =>
    /\ cmd.pc # "act" => cmd.at = 1 /\ cmd.kept = <<>>
    /\ cmd.at \in 1..Len(view.entries) + 1
    /\ Len(cmd.kept) <= cmd.at - 1
    /\ Distinct(cmd.kept)
    /\ \A i \in 1..Len(cmd.kept) : \E j \in 1..cmd.at - 1 : cmd.kept[i] = view.entries[j]
    /\ Len(cmd.kept) = cmd.at - 1 => \A i \in 1..Len(cmd.kept) : cmd.kept[i] = view.entries[i]

(* The message a command by number goes for is in the view, and is the one  *)
(* the client named; the one MOVE has moved has left for good, unless it    *)
(* was filed where it was.                                                  *)
TargetInv ==
  /\ cmd.op \in {"body", "store"} => /\ cmd.n \in DOMAIN view.entries
                                     /\ ~broken => view.entries[cmd.n].uid = cmd.named
  /\ cmd.op = "move" => /\ cmd.at \in UIDs
                        /\ ~broken => cmd.at = cmd.named
                        /\ cmd.pc = "end" => rows[cmd.at].st = "gone"
                        /\ cmd.pc \in {"end", "filed"} =>
                             \E i \in DOMAIN view.entries : view.entries[i].uid = cmd.at

(* The client knows flags only of messages it has a number for. *)
ToldInv == ~broken => \A u \in UIDs : told[u] # "unknown" => u \in ToSet(mirror)

ViewInv ==
  /\ TypeOK /\ StageInv /\ DistinctInv /\ KeptInv /\ TargetInv
  /\ SameNumberingUnlessBroken /\ ToldInv /\ FlagsAgreeUnlessMuted

------------------------------------------------------------------------------
(* Sequences. *)

(* A set of numbers has a smallest. *)
LEMMA SmallestNumber ==
  ASSUME NEW T, T \subseteq Nat, T # {}
  PROVE  \E n \in T : \A m \in T : n <= m
<1>1. PICK n \in T : \A m \in T : <<m, n>> \notin OpToRel(<, Nat)
  BY NatLessThanWellFounded, WFMin
<1>2. \A m \in T : ~(m < n)
  BY <1>1 DEF OpToRel
<1>. QED
  BY <1>2

(* What is left of a sequence without one element. *)
LEMMA RemoveAtIs ==
  ASSUME NEW S, NEW s \in Seq(S), NEW n \in 1..Len(s)
  PROVE  /\ RemoveAt(s, n) \in Seq(S)
         /\ Len(RemoveAt(s, n)) = Len(s) - 1
         /\ \A i \in 1..Len(s) - 1 : RemoveAt(s, n)[i] = IF i < n THEN s[i] ELSE s[i + 1]
<1>. DEFINE before == SubSeq(s, 1, n - 1)
            after  == SubSeq(s, n + 1, Len(s))
<1>1. Len(s) \in Nat /\ \A i \in 1..Len(s) : s[i] \in S
  OBVIOUS
<1>2. /\ before \in Seq(S) /\ Len(before) = n - 1
      /\ \A i \in 1..n - 1 : before[i] = s[i]
  BY <1>1, SubSeqProperties
<1>3. /\ after \in Seq(S) /\ Len(after) = Len(s) - n
      /\ \A i \in 1..Len(s) - n : after[i] = s[n + i]
  BY <1>1, SubSeqProperties
<1>4. RemoveAt(s, n) = before \o after
  BY DEF RemoveAt
<1>. HIDE DEF before, after
<1>5. /\ before \o after \in Seq(S) /\ Len(before \o after) = Len(s) - 1
      /\ \A i \in 1..Len(s) - 1 : (before \o after)[i] = IF i <= n - 1 THEN before[i] ELSE after[i - (n - 1)]
  <2>1. /\ before \o after \in Seq(S) /\ Len(before \o after) = Len(before) + Len(after)
        /\ \A i \in 1..Len(before) + Len(after) :
             (before \o after)[i] = IF i <= Len(before) THEN before[i] ELSE after[i - Len(before)]
    BY <1>2, <1>3, ConcatProperties
  <2>2. Len(before) + Len(after) = Len(s) - 1
    BY <1>1, <1>2, <1>3
  <2>. QED
    BY <1>2, <2>1, <2>2
<1>6. ASSUME NEW i \in 1..Len(s) - 1 PROVE (before \o after)[i] = IF i < n THEN s[i] ELSE s[i + 1]
  <2>1. CASE i < n
    BY <1>1, <1>2, <1>5, <2>1
  <2>2. CASE ~(i < n)
    <3>1. i - (n - 1) \in 1..Len(s) - n /\ n + (i - (n - 1)) = i + 1
      BY <1>1, <2>2
    <3>. QED
      BY <1>3, <1>5, <2>2, <3>1
  <2>. QED
    BY <2>1, <2>2
<1>. QED
  BY <1>4, <1>5, <1>6

(* The parts of a joined sequence. *)
LEMMA JoinIs ==
  ASSUME NEW S, NEW a \in Seq(S), NEW b \in Seq(S), NEW m, m = Len(a), NEW n, n = Len(b)
  PROVE  /\ a \o b \in Seq(S) /\ Len(a \o b) = m + n
         /\ \A i \in 1..m : (a \o b)[i] = a[i]
         /\ \A i \in 1..n : (a \o b)[m + i] = b[i]
<1>1. m \in Nat /\ n \in Nat
  OBVIOUS
<1>2. /\ a \o b \in Seq(S) /\ Len(a \o b) = Len(a) + Len(b)
      /\ \A i \in 1..Len(a) + Len(b) : (a \o b)[i] = IF i <= Len(a) THEN a[i] ELSE b[i - Len(a)]
  BY ConcatProperties
<1>3. ASSUME NEW i \in 1..n PROVE (a \o b)[m + i] = b[i]
  <2>1. m + i \in 1..Len(a) + Len(b) /\ ~(m + i <= Len(a)) /\ (m + i) - Len(a) = i
    BY <1>1
  <2>. QED
    BY <1>2, <2>1
<1>4. ASSUME NEW i \in 1..m PROVE (a \o b)[i] = a[i]
  BY <1>1, <1>2
<1>. QED
  BY <1>2, <1>3, <1>4

(* The client's idea keeps its shape. *)
LEMMA DropType ==
  ASSUME NEW s \in Seq(UIDs), NEW n
  PROVE  DropNumber(s, n) \in Seq(UIDs)
<1>1. DOMAIN s = 1..Len(s)
  OBVIOUS
<1>. QED
  BY <1>1, RemoveAtIs DEF DropNumber

(* The UIDs of a view. *)
LEMMA UidsAre ==
  ASSUME NEW es \in Seq(Entry)
  PROVE  /\ Uids(es) \in Seq(UIDs) /\ Len(Uids(es)) = Len(es) /\ Len(es) \in Nat
         /\ DOMAIN es = 1..Len(es) /\ DOMAIN Uids(es) = 1..Len(es)
         /\ \A i \in 1..Len(es) : Uids(es)[i] = es[i].uid /\ es[i] \in Entry /\ es[i].uid \in UIDs
<1>1. Len(es) \in Nat /\ DOMAIN es = 1..Len(es)
  OBVIOUS
<1>2. \A i \in 1..Len(es) : es[i] \in Entry /\ es[i].uid \in UIDs
  <2>1. \A i \in 1..Len(es) : es[i] \in Entry
    OBVIOUS
  <2>2. \A e \in Entry : e.uid \in UIDs
    BY DEF Entry
  <2>. QED
    BY <2>1, <2>2
<1>3. Uids(es) = [i \in 1..Len(es) |-> es[i].uid]
  BY <1>1 DEF Uids
<1>. QED
  BY <1>1, <1>2, <1>3

(* The numbering in the middle of a loop over the entries es: kept are      *)
(* those that stay of the ones before the index at.                         *)
Rest(kept, es, at) == Uids(kept) \o Uids(SubSeq(es, at, Len(es)))

(* Its places: first the kept ones, then those not yet looked at.           *)
LEMMA RestIs ==
  ASSUME NEW kept \in Seq(Entry), NEW es \in Seq(Entry), NEW at \in 1..Len(es) + 1
  PROVE  /\ Rest(kept, es, at) \in Seq(UIDs)
         /\ Len(Rest(kept, es, at)) = Len(kept) + Len(es) - at + 1
         /\ \A i \in 1..Len(kept) : Rest(kept, es, at)[i] = kept[i].uid
         /\ \A i \in at..Len(es) : Rest(kept, es, at)[Len(kept) + i - at + 1] = es[i].uid
<1>. DEFINE tail == SubSeq(es, at, Len(es))
<1>1. Len(es) \in Nat /\ Len(kept) \in Nat /\ at \in Nat /\ at \in 1..Len(es) + 1
  OBVIOUS
<1>2. \A i \in at..Len(es) : es[i] \in Entry
  BY <1>1
<1>3. /\ tail \in Seq(Entry) /\ Len(tail) = Len(es) - at + 1
      /\ \A i \in 1..Len(es) - at + 1 : tail[i] = es[at + i - 1]
  <2>1. /\ tail \in Seq(Entry) /\ Len(tail) = IF at <= Len(es) THEN Len(es) - at + 1 ELSE 0
        /\ \A i \in 1..Len(es) - at + 1 : tail[i] = es[at + i - 1]
    BY <1>1, <1>2, SubSeqProperties
  <2>. QED
    BY <1>1, <2>1
<1>. HIDE DEF tail
<1>4. /\ Uids(kept) \in Seq(UIDs) /\ Len(Uids(kept)) = Len(kept)
      /\ \A i \in 1..Len(kept) : Uids(kept)[i] = kept[i].uid
  BY UidsAre
<1>5. /\ Uids(tail) \in Seq(UIDs) /\ Len(Uids(tail)) = Len(tail)
      /\ \A i \in 1..Len(tail) : Uids(tail)[i] = tail[i].uid
  BY <1>3, UidsAre
<1>. DEFINE joined == Uids(kept) \o Uids(tail)
<1>6. /\ joined \in Seq(UIDs) /\ Len(joined) = Len(kept) + Len(tail)
      /\ \A i \in 1..Len(kept) : joined[i] = Uids(kept)[i]
      /\ \A i \in 1..Len(tail) : joined[Len(kept) + i] = Uids(tail)[i]
  <2>. DEFINE a == Uids(kept)
              b == Uids(tail)
  <2>1. a \in Seq(UIDs) /\ b \in Seq(UIDs) /\ Len(kept) = Len(a) /\ Len(tail) = Len(b)
    BY <1>4, <1>5
  <2>2. joined = a \o b
    OBVIOUS
  <2>. HIDE DEF a, b, joined
  <2>3. /\ a \o b \in Seq(UIDs) /\ Len(a \o b) = Len(kept) + Len(tail)
        /\ \A i \in 1..Len(kept) : (a \o b)[i] = a[i]
        /\ \A i \in 1..Len(tail) : (a \o b)[Len(kept) + i] = b[i]
    BY <2>1, JoinIs
  <2>. QED
    BY <2>2, <2>3 DEF a, b
<1>9. Rest(kept, es, at) = joined
  BY DEF Rest, tail
<1>. HIDE DEF joined
<1>7. \A i \in 1..Len(kept) : joined[i] = kept[i].uid
  BY <1>4, <1>6
<1>8. ASSUME NEW i \in at..Len(es)
      PROVE  joined[Len(kept) + i - at + 1] = es[i].uid
  <2>1. PICK k \in 1..Len(tail) : k = i - at + 1
    BY <1>1, <1>3
  <2>2. at + k - 1 = i /\ k \in 1..Len(es) - at + 1 /\ Len(kept) + i - at + 1 = Len(kept) + k
    BY <1>1, <1>3, <2>1
  <2>3. tail[k] = es[i]
    BY <1>3, <2>2
  <2>4. Uids(tail)[k] = es[i].uid
    BY <1>5, <2>1, <2>3
  <2>. QED
    BY <1>6, <2>1, <2>2, <2>4
<1>10. Len(joined) = Len(kept) + Len(es) - at + 1
  BY <1>1, <1>3, <1>6
<1>. QED
  BY <1>6, <1>7, <1>8, <1>9, <1>10

(* At the start nothing is renumbered, in the end all that is kept is left. *)
LEMMA RestEnds ==
  ASSUME NEW kept \in Seq(Entry), NEW es \in Seq(Entry)
  PROVE  Rest(<<>>, es, 1) = Uids(es) /\ Rest(kept, es, Len(es) + 1) = Uids(kept)
<1>1. /\ Uids(es) \in Seq(UIDs) /\ Len(Uids(es)) = Len(es) /\ Len(es) \in Nat
      /\ \A i \in 1..Len(es) : Uids(es)[i] = es[i].uid
  BY UidsAre
<1>2. /\ Uids(kept) \in Seq(UIDs) /\ Len(Uids(kept)) = Len(kept) /\ Len(kept) \in Nat
      /\ \A i \in 1..Len(kept) : Uids(kept)[i] = kept[i].uid
  BY UidsAre
<1>3. Rest(<<>>, es, 1) = Uids(es)
  <2>1. <<>> \in Seq(Entry) /\ Len(<<>>) = 0 /\ 1 \in 1..Len(es) + 1
    BY <1>1
  <2>2. /\ Rest(<<>>, es, 1) \in Seq(UIDs) /\ Len(Rest(<<>>, es, 1)) = Len(es)
        /\ \A i \in 1..Len(es) : Rest(<<>>, es, 1)[i] = es[i].uid
    <3>. DEFINE none == <<>>
                r == Rest(none, es, 1)
    <3>1. none \in Seq(Entry) /\ Len(none) = 0
      OBVIOUS
    <3>. HIDE DEF none
    <3>2. /\ r \in Seq(UIDs) /\ Len(r) = Len(none) + Len(es) - 1 + 1
          /\ \A i \in 1..Len(es) : r[Len(none) + i - 1 + 1] = es[i].uid
      <4>1. r = Rest(none, es, 1)
        OBVIOUS
      <4>. HIDE DEF r
      <4>. QED
        BY <2>1, <3>1, <4>1, RestIs, ZenonT(60)
    <3>. HIDE DEF r
    <3>3. Len(r) = Len(es) /\ \A i \in 1..Len(es) : Len(none) + i - 1 + 1 = i
      BY <1>1, <3>1, <3>2
    <3>4. r \in Seq(UIDs) /\ Len(r) = Len(es) /\ \A i \in 1..Len(es) : r[i] = es[i].uid
      BY <3>2, <3>3
    <3>. QED
      BY <3>4 DEF r, none
  <2>. QED
    BY <1>1, <2>2, SeqEqual
<1>4. Rest(kept, es, Len(es) + 1) = Uids(kept)
  <2>1. Len(es) + 1 \in 1..Len(es) + 1
    BY <1>1
  <2>2. /\ Rest(kept, es, Len(es) + 1) \in Seq(UIDs)
        /\ Len(Rest(kept, es, Len(es) + 1)) = Len(kept) + Len(es) - (Len(es) + 1) + 1
        /\ \A i \in 1..Len(kept) : Rest(kept, es, Len(es) + 1)[i] = kept[i].uid
    BY <2>1, RestIs
  <2>3. Len(Rest(kept, es, Len(es) + 1)) = Len(kept)
    BY <1>1, <1>2, <2>2
  <2>. QED
    BY <1>2, <2>2, <2>3, SeqEqual
<1>. QED
  BY <1>3, <1>4

(* The entry at the index stays: the numbering is as before. *)
LEMMA RestKeep ==
  ASSUME NEW kept \in Seq(Entry), NEW es \in Seq(Entry), NEW at \in 1..Len(es),
         NEW e \in Entry, e.uid = es[at].uid
  PROVE  Rest(Append(kept, e), es, at + 1) = Rest(kept, es, at)
<1>. DEFINE more == Append(kept, e)
            r == Rest(kept, es, at)
            q == Rest(more, es, at + 1)
<1>1. Len(es) \in Nat /\ Len(kept) \in Nat /\ at \in Nat /\ at \in 1..Len(es) + 1
  OBVIOUS
<1>2. /\ more \in Seq(Entry) /\ Len(more) = Len(kept) + 1
      /\ \A i \in 1..Len(kept) : more[i] = kept[i]
      /\ more[Len(kept) + 1] = e
  BY AppendProperties
<1>. HIDE DEF more
<1>3. /\ r \in Seq(UIDs) /\ Len(r) = Len(kept) + Len(es) - at + 1
      /\ \A i \in 1..Len(kept) : r[i] = kept[i].uid
      /\ \A i \in at..Len(es) : r[Len(kept) + i - at + 1] = es[i].uid
  BY <1>1, RestIs
<1>4. /\ q \in Seq(UIDs) /\ Len(q) = Len(more) + Len(es) - (at + 1) + 1
      /\ \A i \in 1..Len(more) : q[i] = more[i].uid
      /\ \A i \in at + 1..Len(es) : q[Len(more) + i - (at + 1) + 1] = es[i].uid
  <2>1. at + 1 \in 1..Len(es) + 1
    BY <1>1
  <2>. QED
    BY <1>2, <2>1, RestIs
<1>. HIDE DEF r, q
<1>5. Len(q) = Len(r)
  BY <1>1, <1>2, <1>3, <1>4
<1>6. ASSUME NEW i \in 1..Len(r) PROVE q[i] = r[i]
  <2>1. CASE i <= Len(kept)
    <3>1. i \in 1..Len(kept) /\ i \in 1..Len(more)
      BY <1>1, <1>2, <2>1
    <3>. QED
      BY <1>2, <1>3, <1>4, <3>1
  <2>2. CASE i = Len(kept) + 1
    <3>1. at \in at..Len(es) /\ Len(kept) + at - at + 1 = i /\ i \in 1..Len(more)
      BY <1>1, <1>2, <2>2
    <3>2. r[i] = es[at].uid
      BY <1>3, <3>1
    <3>. QED
      BY <1>2, <1>4, <2>2, <3>1, <3>2
  <2>3. CASE i > Len(kept) + 1
    <3>. DEFINE j == i - Len(kept) + at - 1
    <3>1. j \in at + 1..Len(es)
      <4>1. i \in Nat /\ i <= Len(kept) + Len(es) - at + 1
        BY <1>1, <1>3
      <4>. QED
        BY <1>1, <2>3, <4>1
    <3>2. j \in at..Len(es) /\ Len(kept) + j - at + 1 = i /\ Len(more) + j - (at + 1) + 1 = i
      BY <1>1, <1>2, <3>1
    <3>. QED
      BY <1>3, <1>4, <3>1, <3>2
  <2>. QED
    BY <1>1, <2>1, <2>2, <2>3
<1>7. q = r
  BY <1>3, <1>4, <1>5, <1>6, SeqEqual
<1>. QED
  BY <1>7 DEF q, r, more

(* The entry at the index goes: the client drops the number after those     *)

(* A loop that has kept all it has passed has renumbered nothing. *)
LEMMA RestSame ==
  ASSUME NEW kept \in Seq(Entry), NEW es \in Seq(Entry), NEW at \in 1..Len(es) + 1,
         Len(kept) = at - 1, \A i \in 1..Len(kept) : kept[i] = es[i]
  PROVE  Rest(kept, es, at) = Uids(es)
<1>. DEFINE r == Rest(kept, es, at)
            us == Uids(es)
<1>1. /\ us \in Seq(UIDs) /\ Len(us) = Len(es) /\ Len(es) \in Nat
      /\ \A i \in 1..Len(es) : us[i] = es[i].uid
  BY UidsAre
<1>2. /\ r \in Seq(UIDs) /\ Len(r) = Len(kept) + Len(es) - at + 1
      /\ \A i \in 1..Len(kept) : r[i] = kept[i].uid
      /\ \A i \in at..Len(es) : r[Len(kept) + i - at + 1] = es[i].uid
  BY RestIs
<1>. HIDE DEF r, us
<1>3. Len(r) = Len(us)
  BY <1>1, <1>2
<1>4. ASSUME NEW i \in 1..Len(us) PROVE r[i] = us[i]
  <2>1. CASE i \in 1..Len(kept)
    BY <1>1, <1>2, <2>1
  <2>2. CASE i \in at..Len(es)
    <3>1. Len(kept) + i - at + 1 = i
      BY <1>1, <2>2
    <3>. QED
      BY <1>1, <1>2, <2>2, <3>1
  <2>3. i \in 1..Len(kept) \/ i \in at..Len(es)
    BY <1>1
  <2>. QED
    BY <2>1, <2>2, <2>3
<1>5. r = us
  BY <1>1, <1>2, <1>3, <1>4, SeqEqual
<1>. QED
  BY <1>5 DEF r, us

(* View and client leave the same message out. *)
LEMMA DropUids ==
  ASSUME NEW es \in Seq(Entry), NEW n \in 1..Len(es)
  PROVE  DropNumber(Uids(es), n) = Uids(RemoveAt(es, n))
<1>. DEFINE us == Uids(es)
            fs == RemoveAt(es, n)
            vs == RemoveAt(us, n)
<1>1. /\ us \in Seq(UIDs) /\ Len(us) = Len(es) /\ Len(es) \in Nat /\ DOMAIN us = 1..Len(es)
      /\ \A i \in 1..Len(es) : us[i] = es[i].uid
  BY UidsAre
<1>2. /\ fs \in Seq(Entry) /\ Len(fs) = Len(es) - 1
      /\ \A i \in 1..Len(es) - 1 : fs[i] = IF i < n THEN es[i] ELSE es[i + 1]
  BY RemoveAtIs
<1>3. DropNumber(us, n) = vs
  BY <1>1 DEF DropNumber
<1>. HIDE DEF us
<1>4. /\ vs \in Seq(UIDs) /\ Len(vs) = Len(es) - 1
      /\ \A i \in 1..Len(es) - 1 : vs[i] = IF i < n THEN us[i] ELSE us[i + 1]
  <2>1. n \in 1..Len(us)
    BY <1>1
  <2>. QED
    BY <1>1, <2>1, RemoveAtIs
<1>. HIDE DEF fs, vs
<1>5. /\ Uids(fs) \in Seq(UIDs) /\ Len(Uids(fs)) = Len(es) - 1
      /\ \A i \in 1..Len(es) - 1 : Uids(fs)[i] = fs[i].uid
  BY <1>2, UidsAre
<1>6. ASSUME NEW i \in 1..Len(es) - 1 PROVE vs[i] = Uids(fs)[i]
  <2>1. i \in 1..Len(es) /\ i + 1 \in 1..Len(es)
    BY <1>1
  <2>. QED
    BY <1>1, <1>2, <1>4, <1>5, <2>1
<1>7. vs = Uids(fs)
  BY <1>1, <1>4, <1>5, <1>6, SeqEqual
<1>. QED
  BY <1>3, <1>7 DEF fs, us

(* that are kept.                                                           *)
LEMMA RestDrop ==
  ASSUME NEW kept \in Seq(Entry), NEW es \in Seq(Entry), NEW at \in 1..Len(es)
  PROVE  /\ DropNumber(Rest(kept, es, at), Len(kept) + 1) = Rest(kept, es, at + 1)
         /\ Rest(kept, es, at)[Len(kept) + 1] = es[at].uid
         /\ Len(kept) + 1 \in 1..Len(Rest(kept, es, at))
<1>. DEFINE r == Rest(kept, es, at)
            q == Rest(kept, es, at + 1)
            n == Len(kept) + 1
<1>1. Len(es) \in Nat /\ Len(kept) \in Nat /\ at \in Nat /\ at \in 1..Len(es) + 1
  OBVIOUS
<1>2. /\ r \in Seq(UIDs) /\ Len(r) = Len(kept) + Len(es) - at + 1
      /\ \A i \in 1..Len(kept) : r[i] = kept[i].uid
      /\ \A i \in at..Len(es) : r[Len(kept) + i - at + 1] = es[i].uid
  BY <1>1, RestIs
<1>3. /\ q \in Seq(UIDs) /\ Len(q) = Len(kept) + Len(es) - (at + 1) + 1
      /\ \A i \in 1..Len(kept) : q[i] = kept[i].uid
      /\ \A i \in at + 1..Len(es) : q[Len(kept) + i - (at + 1) + 1] = es[i].uid
  <2>1. at + 1 \in 1..Len(es) + 1
    BY <1>1
  <2>. QED
    BY <2>1, RestIs
<1>. HIDE DEF r, q
<1>4. n \in 1..Len(r) /\ n \in DOMAIN r
  BY <1>1, <1>2
<1>5. DropNumber(r, n) = RemoveAt(r, n)
  BY <1>4 DEF DropNumber
<1>. DEFINE d == RemoveAt(r, n)
<1>6. /\ d \in Seq(UIDs) /\ Len(d) = Len(r) - 1
      /\ \A i \in 1..Len(r) - 1 : d[i] = IF i < n THEN r[i] ELSE r[i + 1]
  BY <1>2, <1>4, RemoveAtIs
<1>. HIDE DEF d
<1>7. Len(d) = Len(q)
  BY <1>1, <1>2, <1>3, <1>6
<1>8. ASSUME NEW i \in 1..Len(d) PROVE d[i] = q[i]
  <2>0. i \in 1..Len(r) - 1
    BY <1>6
  <2>1. CASE i < n
    <3>1. i \in 1..Len(kept)
      BY <1>1, <2>1
    <3>. QED
      BY <1>2, <1>3, <1>6, <2>0, <2>1, <3>1
  <2>2. CASE ~(i < n)
    <3>. DEFINE j == i - Len(kept) + at
    <3>1. j \in at + 1..Len(es)
      <4>1. i \in Nat /\ i <= Len(kept) + Len(es) - at
        BY <1>1, <1>2, <1>6
      <4>. QED
        BY <1>1, <2>2, <4>1
    <3>2. j \in at..Len(es) /\ Len(kept) + j - at + 1 = i + 1 /\ Len(kept) + j - (at + 1) + 1 = i
      BY <1>1, <3>1
    <3>. QED
      BY <1>2, <1>3, <1>6, <2>0, <2>2, <3>1, <3>2
  <2>. QED
    BY <2>1, <2>2
<1>9. d = q
  BY <1>3, <1>6, <1>7, <1>8, SeqEqual
<1>10. r[n] = es[at].uid
  <2>1. at \in at..Len(es) /\ Len(kept) + at - at + 1 = n
    BY <1>1
  <2>. QED
    BY <1>2, <2>1
<1>. QED
  BY <1>4, <1>5, <1>9, <1>10 DEF d, q, r

------------------------------------------------------------------------------
(* The folder as loadEntries reads it. *)

(* A set of numbers in order. *)
Listing(s, S) == s \in [1..Cardinality(S) -> S] /\ \A i, j \in DOMAIN s : i < j => s[i] < s[j]

(* A set of UIDs is finite.                                                 *)
LEMMA Counted ==
  ASSUME NEW n \in Nat, NEW U \in SUBSET (1..n)
  PROVE  IsFiniteSet(U) /\ Cardinality(U) \in Nat
<1>1. 1 \in Int /\ n \in Int
  OBVIOUS
<1>2. IsFiniteSet(1..n)
  BY <1>1, FS_Interval, Zenon
<1>. QED
  BY <1>2, FS_Subset, FS_CardinalityType

(* Every such set can be listed, by the smallest size that could not.       *)
LEMMA Listable ==
  ASSUME NEW n \in Nat, NEW S \in SUBSET (1..n)
  PROVE  \E s : Listing(s, S)
<1>. DEFINE Bad == {k \in Nat : \E U \in SUBSET (1..k) : ~\E s : Listing(s, U)}
<1>1. SUFFICES ASSUME Bad # {} PROVE FALSE
  OBVIOUS
<1>2. PICK k \in Bad : \A m \in Bad : k <= m
  <2>1. Bad \subseteq Nat
    OBVIOUS
  <2>. HIDE DEF Bad
  <2>. QED
    BY <1>1, <2>1, SmallestNumber
<1>3. PICK U \in SUBSET (1..k) : ~\E s : Listing(s, U)
  BY <1>2
<1>4. k \in Nat
  BY <1>2
<1>5. IsFiniteSet(U) /\ Cardinality(U) \in Nat
  BY <1>4, Counted
<1>6. CASE k = 0
  <2>1. U = {} /\ Cardinality(U) = 0
    <3>1. U = {}
      BY <1>6
    <3>. QED
      BY <3>1, FS_EmptySet
  <2>2. Listing([i \in {} |-> i], U)
    BY <2>1 DEF Listing
  <2>. QED
    BY <1>3, <2>2
<1>7. CASE k # 0
  <2>1. k - 1 \in Nat /\ k - 1 \notin Bad
    <3>1. k - 1 \in Nat /\ ~(k <= k - 1)
      BY <1>4, <1>7
    <3>. HIDE DEF Bad
    <3>. QED
      BY <1>2, <3>1
  <2>2. \A V \in SUBSET (1..k - 1) : \E s : Listing(s, V)
    BY <2>1
  <2>3. U \ {k} \in SUBSET (1..k - 1)
    BY <1>4
  <2>4. PICK s : Listing(s, U \ {k})
    BY <2>2, <2>3
  <2>. HIDE DEF Bad
  <2>5. CASE k \notin U
    <3>1. U \ {k} = U
      BY <2>5
    <3>. QED
      BY <1>3, <2>4, <3>1
  <2>6. CASE k \in U
    <3>. DEFINE c == Cardinality(U)
                t == [i \in 1..c |-> IF i = c THEN k ELSE s[i]]
    <3>1. c \in Nat /\ Cardinality(U \ {k}) = c - 1 /\ c >= 1
      <4>1. Cardinality(U \ {k}) = c - 1
        BY <1>5, <2>6, FS_RemoveElement
      <4>2. Cardinality(U \ {k}) \in Nat
        BY <1>5, FS_RemoveElement, FS_CardinalityType
      <4>. QED
        BY <1>5, <4>1, <4>2
    <3>2. /\ s \in [1..c - 1 -> U \ {k}]
          /\ \A i, j \in 1..c - 1 : i < j => s[i] < s[j]
      BY <2>4, <3>1 DEF Listing
    <3>3. ASSUME NEW i \in 1..c PROVE t[i] \in U /\ (i # c => i \in 1..c - 1 /\ t[i] = s[i] /\ t[i] \in 1..k - 1)
      <4>1. CASE i = c
        BY <2>6, <4>1
      <4>2. CASE i # c
        <5>1. i \in 1..c - 1 /\ t[i] = s[i]
          BY <3>1, <4>2
        <5>2. s[i] \in U \ {k}
          BY <3>2, <5>1
        <5>. QED
          BY <2>3, <4>2, <5>1, <5>2
      <4>. QED
        BY <4>1, <4>2
    <3>4. ASSUME NEW i \in 1..c, NEW j \in 1..c, i < j PROVE t[i] < t[j]
      <4>1. i # c
        BY <3>1, <3>4
      <4>2. CASE j = c
        <5>1. t[j] = k /\ t[i] \in 1..k - 1
          BY <3>3, <4>1, <4>2
        <5>. QED
          BY <1>4, <5>1
      <4>3. CASE j # c
        BY <3>2, <3>3, <3>4, <4>1, <4>3
      <4>. QED
        BY <4>2, <4>3
    <3>5. DOMAIN t = 1..c /\ t \in [1..c -> U]
      BY <3>3
    <3>6. Listing(t, U)
      <4>. HIDE DEF t
      <4>. QED
        BY <3>4, <3>5 DEF Listing
    <3>. QED
      BY <1>3, <3>6
  <2>. QED
    BY <2>5, <2>6
<1>. QED
  BY <1>6, <1>7

(* loadEntries yields entries of the messages asked for, none twice. *)
LEMMA LoadIs ==
  ASSUME rows \in [UIDs -> Row], NEW S \in SUBSET UIDs
  PROVE  /\ Load(S) \in Seq(Entry) /\ Distinct(Load(S))
         /\ \A i \in 1..Len(Load(S)) : Load(S)[i].uid \in S
         /\ S = {} => Load(S) = <<>>
<1>. DEFINE us == Ascending(S)
            c  == Cardinality(S)
<1>1. IsFiniteSet(S) /\ c \in Nat
  BY ViewAssumption, Counted DEF UIDs
<1>2. us \in [1..c -> S] /\ \A i, j \in 1..c : i < j => us[i] < us[j]
  <2>1. \E s : Listing(s, S)
    BY ViewAssumption, Listable DEF UIDs
  <2>2. \E s \in [1..c -> S] : \A i, j \in DOMAIN s : i < j => s[i] < s[j]
    BY <2>1 DEF Listing
  <2>3. us \in [1..c -> S] /\ \A i, j \in DOMAIN us : i < j => us[i] < us[j]
    BY <2>2 DEF Ascending
  <2>. QED
    BY <2>3
<1>. DEFINE l == [i \in 1..c |-> [uid |-> us[i], flag |-> rows[us[i]].flag, gone |-> FALSE]]
<1>3. Load(S) = l
  <2>1. DOMAIN us = 1..c
    BY <1>2
  <2>. HIDE DEF c
  <2>. QED
    BY <2>1 DEF Load
<1>. HIDE DEF us, c
<1>4. ASSUME NEW i \in 1..c PROVE l[i] \in Entry /\ l[i].uid = us[i] /\ us[i] \in S /\ us[i] \in Int
  <2>1. us[i] \in S /\ us[i] \in UIDs
    BY <1>2
  <2>2. us[i] \in Int
    BY <2>1, ViewAssumption DEF UIDs
  <2>3. rows[us[i]].flag \in FlagValues
    BY <2>1 DEF Row
  <2>. QED
    BY <2>1, <2>2, <2>3 DEF Entry
<1>5. l = [i \in 1..c |-> l[i]]
  OBVIOUS
<1>. HIDE DEF l
<1>6. l \in Seq(Entry) /\ Len(l) = c /\ DOMAIN l = 1..c
  BY <1>1, <1>4, <1>5
<1>7. Distinct(l)
  <2>1. SUFFICES ASSUME NEW i \in 1..c, NEW j \in 1..c, l[i].uid = l[j].uid PROVE i = j
    BY <1>6 DEF Distinct
  <2>2. us[i] = us[j] /\ us[i] \in Int /\ ~(us[i] < us[j]) /\ ~(us[j] < us[i])
    BY <1>4, <2>1
  <2>. QED
    BY <1>1, <1>2, <2>2
<1>8. ASSUME S = {} PROVE l = <<>>
  <2>1. c = 0
    BY <1>8, FS_EmptySet DEF c
  <2>. QED
    BY <1>6, <2>1
<1>. QED
  BY <1>3, <1>4, <1>6, <1>7, <1>8

------------------------------------------------------------------------------
(* The loop of resync. *)

(* What one turn makes of next and of the client's idea, and the loop up to *)
(* an index.                                                                *)
Pass(v, i, m) ==
  IF Stays(view.entries[i], m)
  THEN [next |-> Append(v.next, Refreshed(view.entries[i], m)), left |-> v.left]
  ELSE [next |-> v.next, left |-> DropNumber(v.left, ExpungeNumber(i, v.next))]

Begun == [next |-> <<>>, left |-> mirror]

Loop(w, k, m) == w = [i \in 0..k |-> IF i = 0 THEN Begun ELSE Pass(w[i - 1], i, m)]

(* The recursion has a solution, by the smallest length without one.        *)
LEMMA LoopExists == ASSUME NEW k \in Nat, NEW m PROVE \E w : Loop(w, k, m)
<1>. DEFINE Bad == {i \in Nat : ~\E w : Loop(w, i, m)}
<1>1. SUFFICES ASSUME Bad # {} PROVE FALSE
  OBVIOUS
<1>2. PICK i \in Bad : \A j \in Bad : i <= j
  <2>1. Bad \subseteq Nat
    OBVIOUS
  <2>. HIDE DEF Bad
  <2>. QED
    BY <1>1, <2>1, SmallestNumber
<1>3. i \in Nat /\ ~\E w : Loop(w, i, m)
  BY <1>2
<1>4. CASE i = 0
  <2>. DEFINE w == [j \in 0..0 |-> Begun]
  <2>1. w = [j \in 0..0 |-> IF j = 0 THEN Begun ELSE Pass(w[j - 1], j, m)]
    <3>1. \A j \in 0..0 : j = 0
      OBVIOUS
    <3>. QED
      BY <3>1
  <2>2. Loop(w, 0, m)
    BY <2>1 DEF Loop
  <2>. QED
    BY <1>3, <1>4, <2>2
<1>5. CASE i # 0
  <2>1. PICK w : Loop(w, i - 1, m)
    <3>1. i - 1 \in Nat /\ ~(i <= i - 1)
      BY <1>3, <1>5
    <3>2. i - 1 \notin Bad
      <4>. HIDE DEF Bad
      <4>. QED
        BY <1>2, <3>1
    <3>. QED
      BY <3>1, <3>2
  <2>. HIDE DEF Bad
  <2>. DEFINE last == Pass(w[i - 1], i, m)
              v == [j \in 0..i |-> IF j = i THEN last ELSE w[j]]
  <2>2. ASSUME NEW j \in 0..i PROVE v[j] = IF j = 0 THEN Begun ELSE Pass(v[j - 1], j, m)
    <3>1. CASE j = i
      <4>1. v[j] = last /\ j # 0 /\ v[j - 1] = w[i - 1]
        BY <1>3, <1>5, <3>1
      <4>. QED
        BY <3>1, <4>1
    <3>2. CASE j # i
      <4>1. j \in 0..i - 1 /\ v[j] = w[j] /\ (j # 0 => v[j - 1] = w[j - 1])
        BY <1>3, <3>2
      <4>2. w[j] = IF j = 0 THEN Begun ELSE Pass(w[j - 1], j, m)
        BY <2>1, <4>1 DEF Loop
      <4>. HIDE DEF v
      <4>. QED
        BY <4>1, <4>2
    <3>. QED
      BY <3>1, <3>2
  <2>3. v = [j \in 0..i |-> v[j]]
    OBVIOUS
  <2>. HIDE DEF v
  <2>4. v = [j \in 0..i |-> IF j = 0 THEN Begun ELSE Pass(v[j - 1], j, m)]
    BY <2>2, <2>3
  <2>. QED
    BY <1>3, <2>4 DEF Loop
<1>. QED
  BY <1>4, <1>5

(* Walk is what the loop leaves in the end. *)
LEMMA WalkIs ==
  ASSUME NEW m, Len(view.entries) \in Nat
  PROVE  \E w : Loop(w, Len(view.entries), m) /\ Walk(m) = w[Len(view.entries)]
<1>. DEFINE w == CHOOSE f : Loop(f, Len(view.entries), m)
<1>1. Walk(m) = w[Len(view.entries)]
  BY DEF Walk, Loop, Pass, Begun
<1>2. Loop(w, Len(view.entries), m)
  BY LoopExists
<1>. QED
  BY <1>1, <1>2

(* After i turns: next are the entries that stay of the first i, refreshed  *)
(* and none twice; and the client has renumbered as the loop has.           *)
Walked(v, i, m) ==
  /\ v.next \in Seq(Entry) /\ v.left \in Seq(UIDs)
  /\ \A k \in 1..Len(v.next) :
       \E j \in 1..i : Stays(view.entries[j], m) /\ v.next[k] = Refreshed(view.entries[j], m)
  /\ \A j \in 1..i : Stays(view.entries[j], m) =>
       \E k \in 1..Len(v.next) : v.next[k].uid = view.entries[j].uid
  /\ Distinct(view.entries) => Distinct(v.next)
  /\ mirror = Uids(view.entries) => v.left = Rest(v.next, view.entries, i + 1)
  /\ ~m.expunge => Len(v.next) = i /\ \A k \in 1..i : v.next[k].uid = view.entries[k].uid

(* A refreshed entry is one of the same message. *)
LEMMA RefreshedIs ==
  ASSUME rows \in [UIDs -> Row], NEW e \in Entry, NEW m
  PROVE  Refreshed(e, m) \in Entry /\ Refreshed(e, m).uid = e.uid
<1>1. e.uid \in UIDs /\ e.flag \in FlagValues /\ rows[e.uid].flag \in FlagValues
  BY DEF Entry, Row
<1>. QED
  BY <1>1 DEF Refreshed, Entry

(* Before the loop.                                                         *)
LEMMA WalkedFirst ==
  ASSUME TypeOK, NEW m
  PROVE  Walked(Begun, 0, m)
<1>1. view.entries \in Seq(Entry) /\ mirror \in Seq(UIDs)
  BY DEF TypeOK
<1>2. Begun.next = <<>> /\ Begun.left = mirror /\ Len(<<>>) = 0
  BY DEF Begun
<1>3. mirror = Uids(view.entries) => Begun.left = Rest(Begun.next, view.entries, 0 + 1)
  BY <1>1, <1>2, RestEnds
<1>. QED
  BY <1>1, <1>2, <1>3 DEF Walked, Distinct

(* A turn for an entry that stays. *)
LEMMA WalkedKeep ==
  ASSUME TypeOK, NEW m, NEW i \in 1..Len(view.entries), NEW v, Walked(v, i - 1, m),
         Stays(view.entries[i], m)
  PROVE  Walked(Pass(v, i, m), i, m)
<1>. DEFINE es == view.entries
            e == Refreshed(es[i], m)
            q == Append(v.next, e)
<1>1. es \in Seq(Entry) /\ es[i] \in Entry /\ i \in Nat \ {0} /\ Len(es) \in Nat
  BY DEF TypeOK
<1>2. e \in Entry /\ e.uid = es[i].uid
  BY <1>1, RefreshedIs DEF TypeOK
<1>3. Pass(v, i, m).next = q /\ Pass(v, i, m).left = v.left
  BY DEF Pass
<1>. DEFINE l == Len(v.next)
<1>4. v.next \in Seq(Entry) /\ l \in Nat /\ v.left \in Seq(UIDs)
  BY DEF Walked
<1>. HIDE DEF e
<1>5. /\ q \in Seq(Entry) /\ Len(q) = l + 1
      /\ \A k \in 1..l : q[k] = v.next[k]
      /\ q[l + 1] = e
  BY <1>2, <1>4, AppendProperties
<1>. HIDE DEF q, l
<1>6. ASSUME NEW k \in 1..l + 1 PROVE k \in 1..l \/ k = l + 1
  BY <1>4
<1>7. /\ \A k \in 1..l : \E j \in 1..i - 1 : Stays(es[j], m) /\ v.next[k] = Refreshed(es[j], m)
      /\ \A j \in 1..i - 1 : Stays(es[j], m) => \E k \in 1..l : v.next[k].uid = es[j].uid
      /\ Distinct(es) => Distinct(v.next)
      /\ mirror = Uids(es) => v.left = Rest(v.next, es, i)
      /\ ~m.expunge => l = i - 1 /\ \A k \in 1..i - 1 : v.next[k].uid = es[k].uid
  <2>1. i - 1 + 1 = i
    BY <1>1
  <2>. QED
    BY <2>1 DEF Walked, l
<1>8. 1..i - 1 \subseteq 1..i /\ i \in 1..i /\ 1..l \subseteq 1..l + 1 /\ l + 1 \in 1..l + 1
  BY <1>1, <1>4
<1>9. ASSUME NEW k \in 1..Len(q)
      PROVE  \E j \in 1..i : Stays(es[j], m) /\ q[k] = Refreshed(es[j], m)
  <2>1. CASE k \in 1..l
    BY <1>5, <1>7, <1>8, <2>1
  <2>2. CASE k = l + 1
    BY <1>5, <1>8, <2>2 DEF e
  <2>. QED
    BY <1>5, <1>6, <2>1, <2>2
<1>10. ASSUME NEW j \in 1..i, Stays(es[j], m)
       PROVE  \E k \in 1..Len(q) : q[k].uid = es[j].uid
  <2>1. CASE j = i
    BY <1>2, <1>5, <1>8, <2>1
  <2>2. CASE j # i
    <3>1. j \in 1..i - 1
      BY <1>1, <2>2
    <3>2. PICK k \in 1..l : v.next[k].uid = es[j].uid
      BY <1>7, <1>10, <3>1
    <3>. QED
      BY <1>5, <1>8, <3>2
  <2>. QED
    BY <2>1, <2>2
<1>11. ASSUME Distinct(es) PROVE Distinct(q)
  <2>1. ASSUME NEW k \in 1..l PROVE v.next[k].uid # e.uid
    <3>1. PICK j \in 1..i - 1 : v.next[k] = Refreshed(es[j], m)
      BY <1>7
    <3>2. j \in 1..Len(es) /\ j # i /\ es[j] \in Entry
      BY <1>1
    <3>3. v.next[k].uid = es[j].uid
      BY <3>1, <3>2, RefreshedIs DEF TypeOK
    <3>. QED
      BY <1>1, <1>2, <1>11, <3>2, <3>3 DEF Distinct
  <2>2. ASSUME NEW a \in 1..l + 1, NEW b \in 1..l + 1, q[a].uid = q[b].uid PROVE a = b
    <3>1. CASE a \in 1..l /\ b \in 1..l
      <4>1. v.next[a].uid = v.next[b].uid /\ a \in DOMAIN v.next /\ b \in DOMAIN v.next
        BY <1>4, <1>5, <2>2, <3>1 DEF l
      <4>. QED
        BY <1>7, <1>11, <4>1 DEF Distinct
    <3>2. CASE a = l + 1 /\ b \in 1..l
      BY <1>5, <2>1, <2>2, <3>2
    <3>3. CASE a \in 1..l /\ b = l + 1
      BY <1>5, <2>1, <2>2, <3>3
    <3>. QED
      BY <1>6, <3>1, <3>2, <3>3
  <2>3. DOMAIN q = 1..l + 1
    BY <1>5
  <2>. QED
    BY <2>2, <2>3 DEF Distinct
<1>12. ASSUME mirror = Uids(es) PROVE v.left = Rest(q, es, i + 1)
  BY <1>1, <1>2, <1>4, <1>7, <1>12, RestKeep DEF q
<1>13. ASSUME ~m.expunge PROVE Len(q) = i /\ \A k \in 1..i : q[k].uid = es[k].uid
  <2>1. l = i - 1
    BY <1>7, <1>13
  <2>2. ASSUME NEW k \in 1..i PROVE q[k].uid = es[k].uid
    <3>1. CASE k = i
      BY <1>1, <1>2, <1>5, <2>1, <3>1
    <3>2. CASE k # i
      <4>1. k \in 1..i - 1
        BY <1>1, <3>2
      <4>. QED
        BY <1>5, <1>7, <1>13, <2>1, <4>1
    <3>. QED
      BY <3>1, <3>2
  <2>. QED
    BY <1>1, <1>5, <2>1, <2>2
<1>. QED
  BY <1>3, <1>4, <1>5, <1>9, <1>10, <1>11, <1>12, <1>13 DEF Walked

(* A turn for an entry that goes. *)
LEMMA WalkedDrop ==
  ASSUME TypeOK, NEW m, NEW i \in 1..Len(view.entries), NEW v, Walked(v, i - 1, m),
         ~Stays(view.entries[i], m)
  PROVE  Walked(Pass(v, i, m), i, m)
<1>. DEFINE es == view.entries
            l == DropNumber(v.left, Len(v.next) + 1)
<1>1. es \in Seq(Entry) /\ i \in Nat \ {0} /\ i - 1 + 1 = i
  BY DEF TypeOK
<1>2. Pass(v, i, m).next = v.next /\ Pass(v, i, m).left = l
  BY DEF Pass, ExpungeNumber
<1>3. v.next \in Seq(Entry) /\ v.left \in Seq(UIDs)
  BY DEF Walked
<1>4. l \in Seq(UIDs)
  BY <1>3, DropType
<1>5. ASSUME mirror = Uids(es) PROVE l = Rest(v.next, es, i + 1)
  <2>1. v.left = Rest(v.next, es, i)
    BY <1>1, <1>5 DEF Walked
  <2>. QED
    BY <1>1, <1>3, <2>1, RestDrop
<1>6. m.expunge
  BY DEF Stays
<1>7. \A j \in 1..i : Stays(es[j], m) => j \in 1..i - 1
  BY <1>1
<1>8. 1..i - 1 \subseteq 1..i
  BY <1>1
<1>. HIDE DEF l
<1>. QED
  BY <1>2, <1>3, <1>4, <1>5, <1>6, <1>7, <1>8 DEF Walked

(* After the whole loop of resync, by the first index where it would fail.  *)
LEMMA WalkWalked ==
  ASSUME TypeOK, NEW m
  PROVE  Walked(Walk(m), Len(view.entries), m)
<1>. DEFINE n == Len(view.entries)
<1>1. n \in Nat
  BY DEF TypeOK
<1>2. PICK w : Loop(w, n, m) /\ Walk(m) = w[n]
  BY <1>1, WalkIs
<1>. DEFINE Bad == {i \in 0..n : ~Walked(w[i], i, m)}
<1>3. SUFFICES ASSUME Bad # {} PROVE FALSE
  BY <1>1, <1>2
<1>4. PICK i \in Bad : \A j \in Bad : i <= j
  <2>1. Bad \subseteq Nat
    BY <1>1
  <2>. HIDE DEF Bad
  <2>. QED
    BY <1>3, <2>1, SmallestNumber
<1>5. i \in 0..n /\ ~Walked(w[i], i, m)
  BY <1>4
<1>6. w[i] = IF i = 0 THEN Begun ELSE Pass(w[i - 1], i, m)
  BY <1>2, <1>5 DEF Loop
<1>7. i # 0
  BY <1>5, <1>6, WalkedFirst
<1>8. Walked(w[i - 1], i - 1, m)
  <2>1. i - 1 \in 0..n /\ ~(i <= i - 1)
    BY <1>1, <1>5, <1>7
  <2>2. i - 1 \notin Bad
    <3>. HIDE DEF Bad
    <3>. QED
      BY <1>4, <2>1
  <2>. QED
    BY <2>1, <2>2
<1>9. i \in 1..Len(view.entries)
  BY <1>1, <1>5, <1>7
<1>. HIDE DEF n, Bad
<1>10. Walked(Pass(w[i - 1], i, m), i, m)
  BY <1>8, <1>9, WalkedKeep, WalkedDrop
<1>. QED
  BY <1>5, <1>6, <1>7, <1>10

------------------------------------------------------------------------------
(* What resync makes of a view, and the client of its responses. *)

(* New messages are none of those of the view. *)
LEMMA ArrivalsAre ==
  ASSUME TypeOK
  PROVE  /\ Arrivals \in SUBSET UIDs /\ Arrivals \subseteq LiveUIDs
         /\ \A j \in 1..Len(view.entries) : view.entries[j].uid \notin Arrivals
<1>1. /\ DOMAIN Uids(view.entries) = 1..Len(view.entries)
      /\ \A j \in 1..Len(view.entries) : Uids(view.entries)[j] = view.entries[j].uid
  BY UidsAre DEF TypeOK
<1>. QED
  BY <1>1 DEF Arrivals, ToSet, LiveUIDs

(* What resync puts last are arrivals, each once.                           *)
LEMMA AppendedIs ==
  ASSUME TypeOK, NEW m
  PROVE  /\ Appended(m) \in Seq(Entry) /\ Distinct(Appended(m)) /\ Len(Appended(m)) \in Nat
         /\ DOMAIN Appended(m) = 1..Len(Appended(m))
         /\ \A i \in 1..Len(Appended(m)) : Appended(m)[i].uid \in Arrivals
         /\ ~m.exists \/ Arrivals = {} => Appended(m) = <<>>
<1>. DEFINE a == Appended(m)
<1>1. /\ Load(Arrivals) \in Seq(Entry) /\ Distinct(Load(Arrivals))
      /\ \A i \in 1..Len(Load(Arrivals)) : Load(Arrivals)[i].uid \in Arrivals
      /\ Arrivals = {} => Load(Arrivals) = <<>>
  BY ArrivalsAre, LoadIs DEF TypeOK
<1>2. /\ <<>> \in Seq(Entry) /\ Distinct(<<>>) /\ \A i \in 1..Len(<<>>) : <<>>[i].uid \in Arrivals
  <2>1. DOMAIN <<>> = {} /\ 1..Len(<<>>) = {}
    OBVIOUS
  <2>. QED
    BY <2>1 DEF Distinct
<1>3. a = Load(Arrivals) \/ a = <<>>
  BY DEF Appended
<1>4. ~m.exists \/ Arrivals = {} => a = <<>>
  BY <1>1 DEF Appended
<1>. HIDE DEF a
<1>5. a \in Seq(Entry) /\ Distinct(a) /\ \A i \in 1..Len(a) : a[i].uid \in Arrivals
  BY <1>1, <1>2, <1>3
<1>6. Len(a) \in Nat /\ DOMAIN a = 1..Len(a)
  BY <1>5
<1>. QED
  BY <1>4, <1>5, <1>6 DEF a

(* The entries of the view: those that stayed, refreshed, then new ones.    *)
LEMMA ResyncedIs ==
  ASSUME TypeOK, NEW m
  PROVE  /\ Resynced(m).entries \in Seq(Entry) /\ Len(Resynced(m).entries) \in Nat
         /\ Distinct(view.entries) => Distinct(Resynced(m).entries)
         /\ \A i \in 1..Len(Resynced(m).entries) :
              \/ \E j \in 1..Len(view.entries) :
                   Stays(view.entries[j], m) /\ Resynced(m).entries[i] = Refreshed(view.entries[j], m)
              \/ Resynced(m).entries[i].uid \in Arrivals
         /\ \A j \in 1..Len(view.entries) : Stays(view.entries[j], m) =>
              \E i \in 1..Len(Resynced(m).entries) : Resynced(m).entries[i].uid = view.entries[j].uid
         /\ ~m.expunge /\ ~m.exists =>
              /\ Len(Resynced(m).entries) = Len(view.entries)
              /\ \A i \in 1..Len(view.entries) : Resynced(m).entries[i].uid = view.entries[i].uid
<1>. DEFINE es == view.entries
            next == Walk(m).next
            app == Appended(m)
            all == next \o app
            l == Len(next)
            k == Len(app)
<1>1. Resynced(m).entries = all
  BY DEF Resynced
<1>2. es \in Seq(Entry) /\ Len(es) \in Nat
  BY DEF TypeOK
<1>3. /\ next \in Seq(Entry)
      /\ \A i \in 1..l : \E j \in 1..Len(es) : Stays(es[j], m) /\ next[i] = Refreshed(es[j], m)
      /\ \A j \in 1..Len(es) : Stays(es[j], m) => \E i \in 1..l : next[i].uid = es[j].uid
      /\ Distinct(es) => Distinct(next)
      /\ ~m.expunge => l = Len(es) /\ \A i \in 1..Len(es) : next[i].uid = es[i].uid
  BY WalkWalked DEF Walked
<1>4. /\ app \in Seq(Entry) /\ Distinct(app) /\ k \in Nat /\ DOMAIN app = 1..k
      /\ \A i \in 1..k : app[i].uid \in Arrivals
      /\ ~m.exists => app = <<>>
  BY AppendedIs
<1>. HIDE DEF next, app
<1>5. l \in Nat /\ DOMAIN next = 1..l
  BY <1>3
<1>6. /\ all \in Seq(Entry) /\ Len(all) = l + k
      /\ \A i \in 1..l : all[i] = next[i]
      /\ \A i \in 1..k : all[l + i] = app[i]
  BY <1>3, <1>4, JoinIs
<1>. HIDE DEF all, l, k
<1>7. ASSUME NEW i \in 1..l + k PROVE i \in 1..l \/ \E h \in 1..k : i = l + h
  <2>1. CASE i <= l
    BY <1>5, <2>1
  <2>2. CASE ~(i <= l)
    <3>1. i - l \in 1..k /\ i = l + (i - l)
      BY <1>4, <1>5, <2>2
    <3>. QED
      BY <3>1
  <2>. QED
    BY <2>1, <2>2
<1>8. 1..l \subseteq 1..l + k /\ l + k \in Nat
  BY <1>4, <1>5
<1>9. ASSUME NEW i \in 1..Len(all)
      PROVE  \/ \E j \in 1..Len(es) : Stays(es[j], m) /\ all[i] = Refreshed(es[j], m)
             \/ all[i].uid \in Arrivals
  <2>1. i \in 1..l + k
    BY <1>6
  <2>2. CASE i \in 1..l
    <3>1. all[i] = next[i]
      BY <1>6, <2>2
    <3>2. PICK j \in 1..Len(es) : Stays(es[j], m) /\ next[i] = Refreshed(es[j], m)
      BY <1>3, <2>2
    <3>. QED
      BY <3>1, <3>2
  <2>3. ASSUME NEW h \in 1..k, i = l + h PROVE all[i].uid \in Arrivals
    BY <1>4, <1>6, <2>3
  <2>. QED
    BY <1>7, <2>1, <2>2, <2>3
<1>10. ASSUME NEW j \in 1..Len(es), Stays(es[j], m)
       PROVE  \E i \in 1..Len(all) : all[i].uid = es[j].uid
  <2>1. PICK i \in 1..l : next[i].uid = es[j].uid
    BY <1>3, <1>10
  <2>2. i \in 1..Len(all) /\ all[i] = next[i]
    BY <1>6, <1>8, <2>1
  <2>. QED
    BY <2>1, <2>2
<1>11. ASSUME NEW i \in 1..l PROVE next[i].uid \notin Arrivals
  <2>1. PICK j \in 1..Len(es) : next[i] = Refreshed(es[j], m)
    BY <1>3
  <2>2. es[j] \in Entry /\ rows \in [UIDs -> Row]
    BY <1>2 DEF TypeOK
  <2>3. next[i].uid = es[j].uid
    BY <2>1, <2>2, RefreshedIs
  <2>. QED
    BY <2>3, ArrivalsAre
<1>12. ASSUME Distinct(es) PROVE Distinct(all)
  <2>1. ASSUME NEW a \in 1..l + k, NEW b \in 1..l + k, all[a].uid = all[b].uid PROVE a = b
    <3>1. CASE a \in 1..l /\ b \in 1..l
      <4>1. next[a].uid = next[b].uid
        BY <1>6, <2>1, <3>1
      <4>2. Distinct(next) /\ a \in DOMAIN next /\ b \in DOMAIN next
        BY <1>3, <1>5, <1>12, <3>1
      <4>. QED
        BY <4>1, <4>2 DEF Distinct
    <3>2. CASE a \notin 1..l /\ b \in 1..l
      BY <1>4, <1>6, <1>7, <1>11, <2>1, <3>2
    <3>3. CASE a \in 1..l /\ b \notin 1..l
      BY <1>4, <1>6, <1>7, <1>11, <2>1, <3>3
    <3>4. CASE a \notin 1..l /\ b \notin 1..l
      <4>1. PICK g \in 1..k : a = l + g
        BY <1>7, <3>4
      <4>2. PICK h \in 1..k : b = l + h
        BY <1>7, <3>4
      <4>3. app[g].uid = app[h].uid
        BY <1>6, <2>1, <4>1, <4>2
      <4>. QED
        BY <1>4, <4>1, <4>2, <4>3 DEF Distinct
    <3>. QED
      BY <3>1, <3>2, <3>3, <3>4
  <2>2. DOMAIN all = 1..l + k
    BY <1>6
  <2>. QED
    BY <2>1, <2>2 DEF Distinct
<1>13. ASSUME ~m.expunge, ~m.exists
       PROVE  Len(all) = Len(es) /\ \A i \in 1..Len(es) : all[i].uid = es[i].uid
  <2>1. k = 0 /\ l = Len(es)
    BY <1>3, <1>4, <1>13 DEF k
  <2>2. Len(all) = Len(es) /\ \A i \in 1..Len(es) : all[i] = next[i]
    BY <1>2, <1>6, <2>1
  <2>. QED
    BY <1>3, <1>13, <2>2
<1>14. Len(all) \in Nat
  BY <1>6, <1>8
<1>. QED
  BY <1>1, <1>6, <1>9, <1>10, <1>12, <1>13, <1>14

(* Only when something new is announced does the client look past what the  *)
(* EXPUNGEs have left; either way it ends with the numbering of the view.   *)
LEMMA MirroredIs ==
  ASSUME TypeOK, NEW m
  PROVE  /\ Mirrored(m) \in Seq(UIDs)
         /\ mirror = Uids(view.entries) /\ (m.exists => m.writer = "all") =>
              Mirrored(m) = Uids(Resynced(m).entries)
<1>. DEFINE es == view.entries
            next == Walk(m).next
            less == Walk(m).left
            all == Uids(Resynced(m).entries)
            grown == [i \in DOMAIN all |-> IF i \in DOMAIN less THEN less[i] ELSE all[i]]
            announced == m.exists /\ m.writer = "all" /\ Arrivals # {}
<1>1. Mirrored(m) = IF announced THEN grown ELSE less
  BY DEF Mirrored
<1>2. es \in Seq(Entry) /\ Len(es) \in Nat
  BY DEF TypeOK
<1>3. next \in Seq(Entry) /\ less \in Seq(UIDs) /\ (mirror = Uids(es) => less = Rest(next, es, Len(es) + 1))
  BY WalkWalked DEF Walked
<1>4. mirror = Uids(es) => less = Uids(next)
  <2>. HIDE DEF next, less
  <2>. QED
    BY <1>2, <1>3, RestEnds
<1>5. Resynced(m).entries = next \o Appended(m) /\ Resynced(m).entries \in Seq(Entry)
  BY ResyncedIs DEF Resynced
<1>. DEFINE n == Len(Resynced(m).entries)
<1>6. /\ all \in Seq(UIDs) /\ DOMAIN all = 1..n /\ n \in Nat
      /\ \A i \in 1..n : all[i] = Resynced(m).entries[i].uid
  BY <1>5, UidsAre
<1>7. /\ Appended(m) \in Seq(Entry)
      /\ ~m.exists \/ Arrivals = {} => Appended(m) = <<>>
  BY AppendedIs
<1>. HIDE DEF next, less, all, n
<1>8. Len(next) \in Nat /\ DOMAIN less = 1..Len(less) /\ Len(less) \in Nat
  BY <1>3
<1>9. ASSUME NEW i \in 1..n PROVE grown[i] \in UIDs
  <2>1. all[i] \in UIDs /\ (i \in DOMAIN less => less[i] \in UIDs)
    BY <1>3, <1>6, <1>8
  <2>. QED
    BY <1>6, <2>1
<1>10. grown \in Seq(UIDs) /\ DOMAIN grown = DOMAIN all
  <2>1. grown = [i \in 1..n |-> grown[i]]
    BY <1>6
  <2>. HIDE DEF grown
  <2>. QED
    BY <1>6, <1>9, <2>1
<1>11. ASSUME mirror = Uids(es), m.exists => m.writer = "all"
       PROVE  (IF announced THEN grown ELSE less) = all
  <2>1. less = Uids(next) /\ Len(less) = Len(next) /\ \A i \in 1..Len(next) : less[i] = next[i].uid
    BY <1>3, <1>4, <1>11, UidsAre
  <2>2. CASE announced
    <3>1. ASSUME NEW i \in 1..n PROVE grown[i] = all[i]
      <4>1. ASSUME i \in DOMAIN less PROVE less[i] = all[i]
        <5>1. i \in 1..Len(next)
          BY <1>8, <2>1, <4>1
        <5>2. Resynced(m).entries[i] = next[i]
          BY <1>3, <1>5, <1>7, <5>1, JoinIs
        <5>. QED
          BY <1>6, <2>1, <5>1, <5>2
      <4>. QED
        BY <1>6, <4>1
    <3>2. grown = [i \in 1..n |-> grown[i]] /\ all = [i \in 1..n |-> all[i]]
      BY <1>6
    <3>. HIDE DEF grown
    <3>. QED
      BY <2>2, <3>1, <3>2
  <2>3. CASE ~announced
    <3>1. Appended(m) = <<>>
      BY <1>7, <1>11, <2>3
    <3>2. Resynced(m).entries = next
      BY <1>3, <1>5, <3>1, ConcatEmptySeq
    <3>. QED
      BY <2>1, <2>3, <3>2 DEF all
  <2>. QED
    BY <2>2, <2>3
<1>. QED
  BY <1>1, <1>3, <1>10, <1>11 DEF all

------------------------------------------------------------------------------
(* The kinds of steps. *)

(* A step of others changes the folder and the signals only, and what has   *)
(* left for good does not come back.                                        *)
Others ==
  /\ UNCHANGED <<view, cmd, client, broken>>
  /\ rows' \in [UIDs -> Row]
  /\ wire' \in 0..MaxWire /\ queued' \in BOOLEAN /\ stale' \in BOOLEAN
  /\ \A u \in UIDs : rows[u].st = "gone" => rows'[u].st = "gone"

(* Commands that name no message and do not go through the entries. *)
Calm(c) ==
  /\ c \in Command /\ c.op \in {"none", "poll", "idle", "fetch", "search", "copy"}
  /\ c.op = "none" <=> c.pc = "ready"
  /\ c.pc \notin {"subscribe", "end", "filed"}
  /\ c.pc = "idle" => c.op = "idle"
  /\ c.op # "none" => view.open

(* A step to such a command that changes nothing else. *)
Calmed ==
  /\ UNCHANGED <<folder, stale, view, client, broken>>
  /\ queued' \in BOOLEAN
  /\ ~Expunging
  /\ Calm(cmd')

(* The commands with which others begin and end. *)
LEMMA ReadyType == Ready \in Command
<1>1. 0 \in 0..MaxUID /\ "deleted" \in FlagValues /\ <<>> \in Seq(Entry)
  BY ViewAssumption
<1>. QED
  BY <1>1 DEF Ready, Command, Ops

(* The poll after a command. *)
LEMMA PollIs ==
  ASSUME NEW op
  PROVE  PollAfter(op) \in Command /\ PollAfter(op).op = "poll" /\ PollAfter(op).pc = "drain"
<1>. DEFINE b == op \notin {"fetch", "search", "store"}
<1>1. PollAfter(op) = [Ready EXCEPT !.op = "poll", !.pc = "drain", !.allow = b] /\ b \in BOOLEAN
  BY DEF PollAfter
<1>. HIDE DEF b
<1>. QED
  BY <1>1, ReadyType DEF Command, Ops

(* The poll after a command goes on in the same view.                       *)
LEMMA PollCalm ==
  ASSUME view.open, NEW op
  PROVE  Calm(PollAfter(op))
<1>1. PollAfter(op) = [Ready EXCEPT !.op = "poll", !.pc = "drain", !.allow = op \notin {"fetch", "search", "store"}]
  BY DEF PollAfter
<1>2. (op \notin {"fetch", "search", "store"}) \in BOOLEAN
  OBVIOUS
<1>. DEFINE b == op \notin {"fetch", "search", "store"}
<1>. HIDE DEF b
<1>3. [Ready EXCEPT !.op = "poll", !.pc = "drain", !.allow = b] \in Command
  BY <1>2, ReadyType DEF Command, Ops, b
<1>. QED
  BY <1>1, <1>3 DEF Calm, Ready, b

(* A change of the folder that does not bring back what has left.           *)
LEMMA CommitKind ==
  ASSUME ViewInv, NEW u \in UIDs, NEW row \in Row, rows[u].st # "gone", Commit(u, row)
  PROVE  Others
<1>1. rows' = [rows EXCEPT ![u] = row] /\ wire' = wire + 1 /\ wire < MaxWire
  BY DEF Commit
<1>2. rows \in [UIDs -> Row] /\ wire \in 0..MaxWire /\ queued \in BOOLEAN /\ stale \in BOOLEAN
  BY DEF ViewInv, TypeOK
<1>3. wire' \in 0..MaxWire
  BY <1>1, <1>2, ViewAssumption
<1>4. \A t \in UIDs : rows'[t] = IF t = u THEN row ELSE rows[t]
  BY <1>1, <1>2
<1>5. rows' \in [UIDs -> Row]
  BY <1>1, <1>2
<1>. QED
  BY <1>2, <1>3, <1>4, <1>5 DEF Commit, Others, client

(* What other sessions, deliveries and the REST interface do.               *)
LEMMA FolderKind ==
  ASSUME ViewInv, NEW u \in UIDs,
         Arrive(u) \/ Leave(u) \/ Return(u) \/ \E v \in FlagValues : SetFlag(u, v)
  PROVE  Others
<1>1. rows[u] \in Row
  BY DEF ViewInv, TypeOK
<1>2. CASE Arrive(u)
  <2>1. PICK v \in FlagValues : Commit(u, [st |-> "live", flag |-> v])
    BY <1>2 DEF Arrive
  <2>2. [st |-> "live", flag |-> v] \in Row /\ rows[u].st # "gone"
    BY <1>2 DEF Arrive, Row
  <2>. QED
    BY <2>1, <2>2, CommitKind
<1>3. CASE Leave(u)
  <2>1. PICK st \in {"gone", "hidden"} : Commit(u, [rows[u] EXCEPT !.st = st])
    BY <1>3 DEF Leave
  <2>2. [rows[u] EXCEPT !.st = st] \in Row /\ rows[u].st # "gone"
    BY <1>1, <1>3 DEF Leave, Row
  <2>. QED
    BY <2>1, <2>2, CommitKind
<1>4. CASE Return(u)
  <2>1. [rows[u] EXCEPT !.st = "live"] \in Row /\ rows[u].st # "gone"
    BY <1>1, <1>4 DEF Return, Row
  <2>. QED
    BY <1>4, <2>1, CommitKind DEF Return
<1>5. ASSUME NEW v \in FlagValues, SetFlag(u, v) PROVE Others
  <2>1. [rows[u] EXCEPT !.flag = v] \in Row /\ rows[u].st # "gone"
    BY <1>1, <1>5 DEF SetFlag, Row
  <2>. QED
    BY <1>5, <2>1, CommitKind DEF SetFlag
<1>. QED
  BY <1>2, <1>3, <1>4, <1>5

(* Steps that begin, go on with or end a calm command.                      *)
LEMMA QuietKind ==
  ASSUME ViewInv,
         \/ LoadFails \/ PollDone \/ CommandFails \/ Noop \/ Idle \/ IdleWake \/ IdleWait \/ IdleDone
         \/ \E op \in {"fetch", "search", "copy"} : Read(op)
  PROVE  Calmed
<1>1. StageInv /\ queued \in BOOLEAN
  BY DEF ViewInv, TypeOK
<1>2. CASE LoadFails \/ PollDone
  <2>1. cmd' = Ready /\ ~Expunging
    BY <1>2 DEF LoadFails, PollDone, Expunging
  <2>. QED
    BY <1>1, <1>2, <2>1, ReadyType DEF LoadFails, PollDone, Calmed, Calm, Ready
<1>3. CASE CommandFails \/ IdleDone
  <2>1. view.open /\ ~Expunging
    BY <1>1, <1>3 DEF CommandFails, IdleDone, StageInv, Expunging
  <2>2. \E op : cmd' = PollAfter(op)
    BY <1>3 DEF CommandFails, IdleDone
  <2>. QED
    BY <1>1, <1>3, <2>1, <2>2, PollCalm DEF CommandFails, IdleDone, Calmed
<1>4. CASE Noop
  <2>1. view.open /\ cmd' = [PollAfter("noop") EXCEPT !.pc = "drain"] /\ ~Expunging
    BY <1>4 DEF Noop, Begin, Expunging
  <2>2. Calm(PollAfter("noop"))
    BY <2>1, PollCalm
  <2>3. PollAfter("noop").op = "poll" /\ PollAfter("noop") \in Command
    BY PollIs
  <2>4. Calm(cmd')
    BY <2>1, <2>2, <2>3 DEF Calm, Command
  <2>. QED
    BY <1>1, <1>4, <2>1, <2>4 DEF Noop, Begin, Calmed
<1>5. CASE Idle
  <2>1. view.open /\ cmd' = [Ready EXCEPT !.op = "idle", !.pc = "idle"] /\ ~Expunging
    BY <1>5 DEF Idle, Expunging
  <2>2. Calm(cmd')
    BY <2>1, ReadyType DEF Calm, Command, Ops, Ready
  <2>. QED
    BY <1>1, <1>5, <2>1, <2>2 DEF Idle, Calmed
<1>6. CASE IdleWake \/ IdleWait
  <2>1. cmd.op = "idle" /\ cmd \in Command /\ ~Expunging /\ view.open
    BY <1>1, <1>6 DEF IdleWake, IdleWait, Expunging, StageInv
  <2>2. cmd' = [cmd EXCEPT !.pc = "drain"] \/ cmd' = [cmd EXCEPT !.pc = "idle"]
    BY <1>6 DEF IdleWake, IdleWait
  <2>3. Calm(cmd')
    BY <2>1, <2>2 DEF Calm, Command
  <2>. QED
    BY <1>1, <1>6, <2>1, <2>3 DEF IdleWake, IdleWait, Calmed
<1>7. ASSUME NEW op \in {"fetch", "search", "copy"}, Read(op) PROVE Calmed
  <2>1. view.open /\ cmd' = [[Ready EXCEPT !.op = op] EXCEPT !.pc = "drain"] /\ ~Expunging
    BY <1>7 DEF Read, Begin, Expunging
  <2>2. Calm(cmd')
    BY <2>1, ReadyType DEF Calm, Command, Ops, Ready
  <2>. QED
    BY <1>1, <1>7, <2>1, <2>2 DEF Read, Begin, Calmed
<1>. QED
  BY <1>2, <1>3, <1>4, <1>5, <1>6, <1>7

(* The steps that the proofs below tell apart. *)
Kinds ==
  \/ Others \/ Calmed \/ Drain \/ LoadView \/ Select \/ Subscribe \/ Unselect
  \/ \E n \in UIDs : FetchBody(n) \/ Move(n) \/ \E v \in FlagValues : Store(n, v)
  \/ ReadDone \/ BodyRead \/ BodyWrite \/ StoreWrite \/ StoreEnd
  \/ Expunge \/ ExpungeKeep \/ ExpungeEntry \/ ExpungeFails \/ ExpungeEnd
  \/ MoveOne \/ MoveEnd

(* Every step is of one of these kinds.                                     *)
LEMMA StepKinds == ViewInv /\ [Next]_vars => Kinds
<1>. SUFFICES ASSUME ViewInv, [Next]_vars PROVE Kinds
  OBVIOUS
<1>1. /\ rows \in [UIDs -> Row] /\ wire \in 0..MaxWire /\ queued \in BOOLEAN /\ stale \in BOOLEAN
      /\ view.open \in BOOLEAN
  BY DEF ViewInv, TypeOK
<1>2. CASE Publish
  <2>1. /\ wire > 0 /\ wire' = wire - 1 /\ queued' \in {queued, view.open}
        /\ UNCHANGED <<rows, stale, view, cmd, client, broken>>
    BY <1>2 DEF Publish
  <2>2. wire' \in 0..MaxWire
    BY <1>1, <2>1, ViewAssumption
  <2>3. queued' \in BOOLEAN
    BY <1>1, <2>1
  <2>4. Others
    BY <1>1, <2>1, <2>2, <2>3 DEF Others
  <2>. QED
    BY <2>4 DEF Kinds
<1>3. CASE GrowStale
  <2>1. stale' = TRUE /\ UNCHANGED <<rows, wire, queued, view, cmd, client, broken>>
    BY <1>3 DEF GrowStale, folder
  <2>2. Others
    BY <1>1, <2>1 DEF Others
  <2>. QED
    BY <2>2 DEF Kinds
<1>4. CASE UNCHANGED vars
  <2>1. UNCHANGED <<rows, wire, queued, stale, view, cmd, client, broken>>
    BY <1>4 DEF vars, client
  <2>2. Others
    BY <1>1, <2>1 DEF Others
  <2>. QED
    BY <2>2 DEF Kinds
<1>5. ASSUME NEW u \in UIDs, Arrive(u) \/ Leave(u) \/ Return(u) \/ \E v \in FlagValues : SetFlag(u, v)
      PROVE  Kinds
  BY <1>5, FolderKind DEF Kinds
<1>6. CASE \/ LoadFails \/ PollDone \/ CommandFails \/ Noop \/ Idle \/ IdleWake \/ IdleWait \/ IdleDone
           \/ \E op \in {"fetch", "search", "copy"} : Read(op)
  BY <1>6, QuietKind DEF Kinds
<1>. QED
  BY <1>2, <1>3, <1>4, <1>5, <1>6 DEF Next, Steps, Kinds


(* The index of the message to move. *)
LEMMA MoveIndexIs ==
  ASSUME TypeOK
  PROVE  /\ MoveIndex # 0 => /\ MoveIndex \in 1..Len(view.entries)
                             /\ view.entries[MoveIndex].uid = cmd.at
         /\ MoveIndex = 0 => \A i \in 1..Len(view.entries) : view.entries[i].uid # cmd.at
<1>. DEFINE es == view.entries
            I  == {i \in 1..Len(es) : es[i].uid = cmd.at}
<1>1. es \in Seq(Entry)
  BY DEF TypeOK
<1>2. /\ Len(Uids(es)) = Len(es) /\ Len(es) \in Nat
      /\ \A i \in 1..Len(es) : Uids(es)[i] = es[i].uid
  BY <1>1, UidsAre
<1>3. I = {i \in 1..Len(Uids(es)) : Uids(es)[i] = cmd.at}
  BY <1>2
<1>4. I \subseteq Nat
  BY <1>2
<1>5. MoveIndex = IF I = {} THEN 0 ELSE Min(I)
  BY <1>3 DEF MoveIndex, SelectInSeq
<1>6. I # {} => Min(I) \in I
  <2>. SUFFICES ASSUME I # {} PROVE Min(I) \in I
    OBVIOUS
  <2>. HIDE DEF I
  <2>1. \E n \in I : \A m \in I : n <= m
    BY <1>4, SmallestNumber
  <2>. QED
    BY <2>1 DEF Min
<1>. QED
  BY <1>5, <1>6


(* A command by number, as it begins. *)
LEMMA NamedIs ==
  ASSUME ViewInv, NEW n \in UIDs,
         FetchBody(n) \/ Move(n) \/ \E v \in FlagValues : Store(n, v)
  PROVE  /\ view.open /\ cmd.op = "none"
         /\ UNCHANGED <<rows, wire, queued, stale, view, client, broken>>
         /\ n \in DOMAIN mirror /\ n \in 1..Len(view.entries)
         /\ cmd' \in Command /\ cmd'.pc = "drain"
         /\ cmd'.n = n /\ cmd'.named = mirror[n]
         /\ \/ cmd'.op \in {"body", "store"}
            \/ cmd'.op = "move" /\ cmd'.at = view.entries[n].uid
<1>1. /\ mirror \in Seq(UIDs) /\ view.entries \in Seq(Entry) /\ Len(view.entries) \in Nat
      /\ DOMAIN view.entries = 1..Len(view.entries) /\ StageInv
  BY UidsAre DEF ViewInv, TypeOK
<1>2. cmd.pc = "ready" /\ view.open /\ n \in DOMAIN mirror /\ n \in DOMAIN view.entries
      /\ UNCHANGED <<rows, wire, queued, stale, view, client, broken>>
  BY DEF FetchBody, Move, Store, Begin, folder
<1>3. mirror[n] \in UIDs /\ view.entries[n] \in Entry /\ n \in 1..Len(view.entries)
  BY <1>1, <1>2
<1>4. n \in 0..MaxUID /\ mirror[n] \in 0..MaxUID /\ view.entries[n].uid \in Nat
  <2>1. view.entries[n].uid \in UIDs
    BY <1>3 DEF Entry
  <2>. QED
    BY <1>3, <2>1, ViewAssumption DEF UIDs
<1>5. CASE FetchBody(n)
  <2>1. cmd' = [[Ready EXCEPT !.op = "body", !.n = n, !.named = mirror[n]] EXCEPT !.pc = "drain"]
    BY <1>5 DEF FetchBody, Begin
  <2>. QED
    BY <1>1, <1>2, <1>3, <1>4, <2>1, ReadyType DEF Command, Ops, StageInv
<1>6. CASE Move(n)
  <2>1. cmd' = [[Ready EXCEPT !.op = "move", !.n = n, !.named = mirror[n],
                              !.at = view.entries[n].uid] EXCEPT !.pc = "drain"]
    BY <1>6 DEF Move, Begin
  <2>. QED
    BY <1>1, <1>2, <1>3, <1>4, <2>1, ReadyType DEF Command, Ops, StageInv
<1>7. ASSUME NEW v \in FlagValues, Store(n, v)
      PROVE  /\ cmd' \in Command /\ cmd'.pc = "drain" /\ cmd'.n = n /\ cmd'.named = mirror[n]
             /\ cmd'.op = "store"
  <2>1. cmd' = [[Ready EXCEPT !.op = "store", !.n = n, !.named = mirror[n], !.flag = v] EXCEPT !.pc = "drain"]
    BY <1>7 DEF Store, Begin
  <2>. QED
    BY <1>1, <1>2, <1>3, <1>4, <2>1, ReadyType DEF Command, Ops
<1>. QED
  BY <1>1, <1>2, <1>3, <1>5, <1>6, <1>7 DEF StageInv

(* The shape of a view. *)
View == [open : BOOLEAN, entries : Seq(Entry), pendingGone : BOOLEAN,
         pendingExists : BOOLEAN, pendingFlags : BOOLEAN]

(* A view in which an entry has a new flag. *)
LEMMA FlagPut ==
  ASSUME view \in View, NEW n \in 1..Len(view.entries), NEW v \in FlagValues,
         view' = [view EXCEPT !.entries[n].flag = v]
  PROVE  /\ view' \in View /\ view'.open = view.open
         /\ Len(view'.entries) = Len(view.entries)
         /\ \A i \in 1..Len(view.entries) :
              /\ view'.entries[i].uid = view.entries[i].uid
              /\ view'.entries[i].flag = IF i = n THEN v ELSE view.entries[i].flag
<1>. DEFINE es == view.entries
            fs == [es EXCEPT ![n].flag = v]
<1>1. es \in Seq(Entry) /\ Len(es) \in Nat /\ DOMAIN es = 1..Len(es) /\ \A i \in 1..Len(es) : es[i] \in Entry
  BY UidsAre DEF View
<1>2. es[n] \in Entry /\ [es[n] EXCEPT !.flag = v] \in Entry
  BY <1>1 DEF Entry
<1>3. \A i \in 1..Len(es) : fs[i] = IF i = n THEN [es[n] EXCEPT !.flag = v] ELSE es[i]
  BY <1>1
<1>4. /\ fs \in Seq(Entry) /\ Len(fs) = Len(es)
  BY <1>1, <1>2
<1>5. view' = [view EXCEPT !.entries = fs]
  BY DEF View
<1>. HIDE DEF fs
<1>6. view' \in View /\ view'.open = view.open /\ view'.entries = fs
  BY <1>4, <1>5 DEF View
<1>7. \A i \in 1..Len(es) : fs[i].uid = es[i].uid /\ fs[i].flag = IF i = n THEN v ELSE es[i].flag
  BY <1>1, <1>3 DEF Entry
<1>. QED
  BY <1>4, <1>6, <1>7

(* What a client knows has its shape. *)
LEMMA KnownIs ==
  ASSUME NEW t \in [UIDs -> FlagValues \cup {"unknown"}], NEW m
  PROVE  /\ Known(t, m) \in [UIDs -> FlagValues \cup {"unknown"}]
         /\ \A u \in UIDs : Known(t, m)[u] = IF u \in ToSet(m) THEN t[u] ELSE "unknown"
BY DEF Known

------------------------------------------------------------------------------
(* One lemma for each part of the invariant. *)

(* A command goes from point to point in its order, on an open view.        *)
LEMMA StageKept == ViewInv /\ Kinds => StageInv'
<1>. SUFFICES ASSUME ViewInv, Kinds PROVE StageInv'
  OBVIOUS
<1>1. /\ StageInv /\ cmd \in Command /\ view.open \in BOOLEAN /\ rows \in [UIDs -> Row]
      /\ view.entries \in Seq(Entry) /\ Len(view.entries) \in Nat
  BY UidsAre DEF ViewInv, TypeOK, StageInv
<1>2. CASE Others
  BY <1>1, <1>2 DEF Others, StageInv
<1>3. CASE Calmed
  BY <1>1, <1>3 DEF Calmed, Calm, StageInv
<1>4. CASE Drain
  <2>1. cmd.pc = "drain" /\ (cmd' = [cmd EXCEPT !.pc = "load"] \/ cmd' = [cmd EXCEPT !.pc = "act"])
        /\ view' = view
    BY <1>4 DEF Drain
  <2>. QED
    BY <1>1, <2>1 DEF StageInv, Command
<1>5. CASE LoadView
  <2>1. cmd.pc = "load" /\ cmd' = [cmd EXCEPT !.pc = "act"] /\ view'.open = TRUE
    BY <1>5 DEF LoadView, Resynced
  <2>. QED
    BY <1>1, <2>1 DEF StageInv, Command
<1>6. CASE Select
  <2>1. cmd' = [Ready EXCEPT !.op = "select", !.pc = "subscribe", !.kept = Load(LiveUIDs)] /\ view' = view
    BY <1>6 DEF Select
  <2>2. Load(LiveUIDs) \in Seq(Entry)
    BY <1>1, LoadIs DEF LiveUIDs
  <2>. QED
    BY <2>1, <2>2, ReadyType DEF StageInv, Command, Ops
<1>7. CASE Subscribe
  <2>1. cmd' = PollAfter("select") /\ view'.open = TRUE
    BY <1>7 DEF Subscribe, Closed
  <2>. QED
    BY <2>1, PollIs DEF StageInv
<1>8. CASE Unselect
  <2>1. cmd.pc = "ready" /\ cmd' = cmd
    BY <1>8 DEF Unselect
  <2>. QED
    BY <1>1, <2>1 DEF StageInv
<1>9. ASSUME NEW n \in UIDs, FetchBody(n) \/ Move(n) \/ \E v \in FlagValues : Store(n, v)
      PROVE  StageInv'
  BY <1>9, NamedIs DEF StageInv
<1>10. ASSUME NEW op, cmd' = PollAfter(op), view'.open
       PROVE  StageInv'
  BY <1>10, PollIs DEF StageInv
<1>11. CASE ReadDone
  BY <1>1, <1>10, <1>11 DEF ReadDone, StageInv
<1>12. CASE BodyRead
  <2>1. cmd.pc = "act" /\ cmd.op = "body" /\ view.open /\ view' = view
    BY <1>1, <1>12 DEF BodyRead, StageInv
  <2>2. CASE cmd' = PollAfter("fetch")
    BY <1>10, <2>1, <2>2
  <2>3. CASE cmd' = [cmd EXCEPT !.pc = "end", !.flag = Seen(rows[view.entries[cmd.n].uid].flag)]
             /\ view.entries[cmd.n].flag = "plain"
    <3>1. cmd.n \in 1..Len(view.entries)
      BY <1>1, <2>1 DEF ViewInv, TargetInv
    <3>2. rows[view.entries[cmd.n].uid].flag \in FlagValues
      <4>1. view.entries[cmd.n].uid \in UIDs
        BY <1>1, <3>1, UidsAre
      <4>. QED
        BY <1>1, <4>1 DEF Row
    <3>3. Seen(rows[view.entries[cmd.n].uid].flag) \in FlagValues
      BY <2>3, <3>2, ViewAssumption DEF Seen
    <3>. QED
      BY <1>1, <2>1, <2>3, <3>3 DEF StageInv, Command
  <2>. QED
    BY <1>12, <2>2, <2>3 DEF BodyRead
<1>13. CASE BodyWrite
  BY <1>1, <1>10, <1>13 DEF BodyWrite, StageInv
<1>14. CASE StoreWrite
  <2>1. cmd.pc = "act" /\ cmd.op = "store" /\ view.open /\ view' = view
    BY <1>1, <1>14 DEF StoreWrite, StageInv
  <2>2. CASE cmd' = PollAfter("store")
    BY <1>10, <2>1, <2>2
  <2>3. CASE cmd' = [cmd EXCEPT !.pc = "end"]
    BY <1>1, <2>1, <2>3 DEF StageInv, Command
  <2>. QED
    BY <1>14, <2>2, <2>3 DEF StoreWrite
<1>15. CASE StoreEnd
  BY <1>1, <1>10, <1>15 DEF StoreEnd, StageInv
<1>16. CASE Expunge
  <2>1. cmd' = [[Ready EXCEPT !.op = "expunge"] EXCEPT !.pc = "drain"] /\ view.open /\ view' = view
    BY <1>16 DEF Expunge, Begin
  <2>. QED
    BY <2>1, ReadyType DEF StageInv, Command, Ops
<1>17. CASE ExpungeKeep
  <2>1. /\ cmd.pc = "act" /\ cmd.op = "expunge" /\ view' = view
        /\ cmd' = [cmd EXCEPT !.at = @ + 1, !.kept = Append(@, Current)]
        /\ cmd.at <= Len(view.entries)
    BY <1>17 DEF ExpungeKeep, Expunging
  <2>2. cmd.at \in 1..Len(view.entries)
    BY <1>1, <2>1 DEF ViewInv, KeptInv
  <2>3. Current \in Entry
    BY <1>1, <2>2 DEF Current
  <2>4. Append(cmd.kept, Current) \in Seq(Entry) /\ cmd.at + 1 \in Nat
    BY <1>1, <2>2, <2>3 DEF Command
  <2>. QED
    BY <1>1, <2>1, <2>4 DEF StageInv, Command
<1>18. CASE ExpungeEntry
  <2>1. /\ cmd.pc = "act" /\ cmd.op = "expunge" /\ view' = view
        /\ cmd' = [cmd EXCEPT !.at = @ + 1]
    BY <1>18 DEF ExpungeEntry, Expunging
  <2>. QED
    BY <1>1, <2>1 DEF StageInv, Command
<1>19. CASE ExpungeFails
  BY <1>1, <1>10, <1>19 DEF ExpungeFails, Expunging, StageInv
<1>20. CASE ExpungeEnd
  BY <1>1, <1>10, <1>20 DEF ExpungeEnd, Expunging, StageInv
<1>21. CASE MoveOne
  <2>1. cmd.pc = "act" /\ cmd.op = "move" /\ view.open /\ view' = view
    BY <1>1, <1>21 DEF MoveOne, StageInv
  <2>2. CASE cmd' = PollAfter("move")
    BY <1>10, <2>1, <2>2
  <2>3. CASE cmd' = [cmd EXCEPT !.pc = "end"] \/ (InArchive /\ cmd' = [cmd EXCEPT !.pc = "filed"])
    BY <1>1, <2>1, <2>3 DEF StageInv, Command
  <2>. QED
    BY <1>21, <2>2, <2>3 DEF MoveOne
<1>22. CASE MoveEnd
  BY <1>1, <1>10, <1>22 DEF MoveEnd, StageInv
<1>. QED
  BY <1>2, <1>3, <1>4, <1>5, <1>6, <1>7, <1>8, <1>9, <1>11, <1>12, <1>13, <1>14, <1>15, <1>16,
     <1>17, <1>18, <1>19, <1>20, <1>21, <1>22 DEF Kinds


(* View, folder and client keep their shape.                                *)
LEMMA TypeKept == ViewInv /\ Kinds /\ StageInv' => TypeOK'
<1>. SUFFICES ASSUME ViewInv, Kinds, StageInv' PROVE TypeOK'
  OBVIOUS
<1>. DEFINE Told == [UIDs -> FlagValues \cup {"unknown"}]
<1>1. /\ rows \in [UIDs -> Row] /\ wire \in 0..MaxWire /\ queued \in BOOLEAN /\ stale \in BOOLEAN
      /\ broken \in BOOLEAN /\ view \in View /\ mirror \in Seq(UIDs) /\ told \in Told
      /\ muted \subseteq UIDs
  BY DEF ViewInv, TypeOK, View
<1>2. /\ StageInv /\ cmd \in Command /\ view.open \in BOOLEAN /\ TypeOK
      /\ view.entries \in Seq(Entry) /\ Len(view.entries) \in Nat
      /\ \A i \in 1..Len(view.entries) : view.entries[i] \in Entry /\ view.entries[i].uid \in UIDs
  <2>1. view.open \in BOOLEAN /\ view.entries \in Seq(Entry)
    BY <1>1 DEF View
  <2>. QED
    BY <2>1, UidsAre DEF ViewInv, StageInv
<1>3. cmd'.named \in 0..MaxUID /\ cmd'.kept \in Seq(Entry)
  BY DEF StageInv, Command
<1>. DEFINE Shaped == /\ rows' \in [UIDs -> Row] /\ wire' \in 0..MaxWire /\ queued' \in BOOLEAN
                      /\ stale' \in BOOLEAN /\ broken' \in BOOLEAN /\ view' \in View
                      /\ mirror' \in Seq(UIDs) /\ told' \in Told /\ muted' \subseteq UIDs
<1>4. SUFFICES Shaped
  BY <1>3 DEF TypeOK, View
<1>6. CASE Others
  BY <1>1, <1>6 DEF Others, client
<1>7. CASE Calmed \/ Drain
  BY <1>1, <1>7 DEF Calmed, Drain, client, folder
<1>8. CASE LoadView
  <2>. DEFINE m == Mode(cmd)
              changed == {e.uid : e \in {x \in ToSet(view.entries) : FlagChanged(x)}}
              flags == [u \in UIDs |-> IF m.writer = "all" /\ u \in changed THEN rows[u].flag ELSE told[u]]
  <2>1. /\ view' = Resynced(m) /\ mirror' = Mirrored(m) /\ told' = Known(flags, mirror')
        /\ muted' \in {muted, muted \ changed, muted \cup changed}
        /\ stale' = FALSE /\ UNCHANGED <<rows, wire, queued, broken>>
    BY <1>8 DEF LoadView, folder
  <2>2. changed \subseteq UIDs
    BY <1>2 DEF ToSet
  <2>3. Resynced(m) \in View
    <3>1. Resynced(m).entries \in Seq(Entry)
      BY <1>2, ResyncedIs
    <3>. DEFINE g == \E i \in DOMAIN Walk(m).next : Walk(m).next[i].gone
                x == Arrivals # {} /\ Appended(m) = <<>>
                f == m.writer = "none" /\ \E i \in DOMAIN view.entries : FlagChanged(view.entries[i])
                es == Walk(m).next \o Appended(m)
    <3>2. g \in BOOLEAN /\ x \in BOOLEAN /\ f \in BOOLEAN
      OBVIOUS
    <3>3. Resynced(m) = [open |-> TRUE, entries |-> es, pendingGone |-> g,
                         pendingExists |-> x, pendingFlags |-> f]
      BY DEF Resynced
    <3>. HIDE DEF g, x, f, es, m
    <3>4. es \in Seq(Entry)
      BY <3>1, <3>3
    <3>. QED
      BY <3>2, <3>3, <3>4 DEF View
  <2>4. Mirrored(m) \in Seq(UIDs)
    BY <1>2, MirroredIs
  <2>. HIDE DEF changed, m
  <2>5. flags \in Told
    <3>1. \A u \in UIDs : rows[u].flag \in FlagValues
      BY <1>1 DEF Row
    <3>. QED
      BY <1>1, <3>1
  <2>. HIDE DEF flags
  <2>6. told' \in Told
    BY <2>1, <2>5, KnownIs
  <2>. QED
    BY <1>1, <2>1, <2>2, <2>3, <2>4, <2>6
<1>9. CASE Select
  BY <1>1, <1>9 DEF Select, client, folder
<1>10. ASSUME rows' = rows, wire' = wire, queued' = FALSE, stale' = FALSE, broken' = FALSE,
              muted' = {}, told' = [u \in UIDs |-> "unknown"], view' \in View, mirror' \in Seq(UIDs)
       PROVE  Shaped
  BY <1>1, <1>10
<1>11. CASE Subscribe
  <2>1. cmd.kept \in Seq(Entry)
    BY <1>2 DEF Command
  <2>2. view' \in View
    BY <1>11, <2>1 DEF Subscribe, Closed, View
  <2>3. mirror' \in Seq(UIDs)
    BY <1>11, <2>1, UidsAre DEF Subscribe
  <2>. QED
    BY <1>10, <1>11, <2>2, <2>3 DEF Subscribe, folder
<1>12. CASE Unselect
  <2>1. view' \in View /\ mirror' \in Seq(UIDs)
    BY <1>12 DEF Unselect, Closed, View
  <2>. QED
    BY <1>10, <1>12, <2>1 DEF Unselect, folder
<1>13. ASSUME NEW n \in UIDs, FetchBody(n) \/ Move(n) \/ \E v \in FlagValues : Store(n, v)
       PROVE  Shaped
  <2>1. UNCHANGED <<rows, wire, queued, stale, view, mirror, told, muted, broken>>
    BY <1>13, NamedIs DEF client
  <2>. QED
    BY <1>1, <2>1
<1>14. CASE ReadDone
  <2>. DEFINE shown == {e \in ToSet(view.entries) : cmd.op = "fetch" /\ ~e.gone}
  <2>1. /\ told' = [u \in UIDs |-> IF \E e \in shown : e.uid = u
                                   THEN (CHOOSE e \in shown : e.uid = u).flag ELSE told[u]]
        /\ muted' = muted \ {e.uid : e \in shown}
        /\ UNCHANGED <<rows, wire, queued, stale, view, mirror, broken>>
    BY <1>14 DEF ReadDone, folder
  <2>2. \A e \in shown : e.flag \in FlagValues
    BY <1>2 DEF ToSet, Entry
  <2>. HIDE DEF shown
  <2>3. ASSUME NEW u \in UIDs
        PROVE  (IF \E e \in shown : e.uid = u THEN (CHOOSE e \in shown : e.uid = u).flag ELSE told[u])
                 \in FlagValues \cup {"unknown"}
    BY <1>1, <2>2
  <2>4. told' \in Told
    BY <2>1, <2>3
  <2>. QED
    BY <1>1, <2>1, <2>4
<1>15. CASE BodyRead \/ Expunge \/ ExpungeKeep
  BY <1>1, <1>15 DEF BodyRead, Expunge, Begin, ExpungeKeep, folder, client
<1>16. cmd.op \in {"body", "store"} =>
         /\ cmd.n \in 1..Len(view.entries) /\ cmd.flag \in FlagValues
         /\ view.entries[cmd.n].uid \in UIDs
  BY <1>2 DEF ViewInv, TargetInv, Command
<1>17. \A u \in UIDs, v \in FlagValues :
         /\ [rows EXCEPT ![u].flag = v] \in [UIDs -> Row]
         /\ [told EXCEPT ![u] = v] \in Told
         /\ [told EXCEPT ![u] = "unknown"] \in Told
  BY <1>1 DEF Row
<1>18. \A u \in UIDs : [rows EXCEPT ![u].st = "gone"] \in [UIDs -> Row]
  BY <1>1 DEF Row
<1>19. wire < MaxWire => wire + 1 \in 0..MaxWire
  BY <1>1, ViewAssumption
<1>20. CASE BodyWrite
  <2>1. view' = [view EXCEPT !.entries[cmd.n].flag = cmd.flag] /\ cmd.op = "body"
    BY <1>20 DEF BodyWrite
  <2>2. view' \in View
    BY <1>1, <1>16, <2>1, FlagPut
  <2>3. rows' \in [UIDs -> Row] /\ told' \in Told /\ muted' \subseteq UIDs
    BY <1>1, <1>16, <1>17, <1>20 DEF BodyWrite
  <2>. QED
    BY <1>1, <1>19, <1>20, <2>2, <2>3 DEF BodyWrite
<1>21. CASE StoreWrite
  <2>1. rows' = rows \/ rows' = [rows EXCEPT ![view.entries[cmd.n].uid].flag = cmd.flag]
    BY <1>21 DEF StoreWrite, folder
  <2>2. rows' \in [UIDs -> Row]
    <3>1. cmd.op = "store"
      BY <1>21 DEF StoreWrite
    <3>2. [rows EXCEPT ![view.entries[cmd.n].uid].flag = cmd.flag] \in [UIDs -> Row]
      BY <1>16, <1>17, <3>1
    <3>. QED
      BY <1>1, <2>1, <3>2
  <2>3. wire' \in 0..MaxWire /\ queued' \in BOOLEAN
    BY <1>1, <1>19, <1>21 DEF StoreWrite, folder
  <2>. QED
    BY <1>1, <1>21, <2>2, <2>3 DEF StoreWrite, client
<1>22. CASE StoreEnd
  <2>1. view' = [view EXCEPT !.entries[cmd.n].flag = cmd.flag] /\ cmd.op = "store"
    BY <1>22 DEF StoreEnd
  <2>2. view' \in View
    BY <1>1, <1>16, <2>1, FlagPut
  <2>3. told' \in Told /\ muted' \subseteq UIDs
    BY <1>1, <1>16, <1>17, <1>22 DEF StoreEnd
  <2>. QED
    BY <1>1, <1>22, <2>2, <2>3 DEF StoreEnd, folder
<1>23. CASE ExpungeEntry
  <2>1. cmd.at \in 1..Len(view.entries)
    BY <1>2, <1>23 DEF ExpungeEntry, Expunging, ViewInv, KeptInv
  <2>2. Current.uid \in UIDs
    BY <1>2, <2>1 DEF Current
  <2>3. /\ rows' = [rows EXCEPT ![Current.uid].st = "gone"] /\ wire' = wire + 1 /\ wire < MaxWire
        /\ mirror' = DropNumber(mirror, Remaining) /\ told' = Known(told, mirror')
        /\ UNCHANGED <<queued, stale, view, muted, broken>>
    BY <1>23 DEF ExpungeEntry
  <2>4. rows' \in [UIDs -> Row] /\ wire' \in 0..MaxWire
    BY <1>18, <1>19, <2>2, <2>3
  <2>5. mirror' \in Seq(UIDs) /\ told' \in Told
    BY <1>1, <2>3, DropType, KnownIs
  <2>. QED
    BY <1>1, <2>3, <2>4, <2>5
<1>24. CASE ExpungeFails
  <2>1. broken' = (broken \/ cmd.at > Len(cmd.kept) + 1)
    BY <1>24 DEF ExpungeFails
  <2>2. broken' \in BOOLEAN
    BY <2>1
  <2>. QED
    BY <1>1, <1>24, <2>2 DEF ExpungeFails, folder, client
<1>25. CASE ExpungeEnd
  <2>1. /\ view' = [view EXCEPT !.entries = cmd.kept] /\ queued' = FALSE
        /\ UNCHANGED <<rows, wire, stale, mirror, told, muted, broken>>
    BY <1>25 DEF ExpungeEnd, folder, client
  <2>2. view' \in View
    BY <1>1, <1>2, <2>1 DEF View, Command
  <2>. QED
    BY <1>1, <2>1, <2>2
<1>26. CASE MoveOne
  <2>1. rows' = rows \/ (MoveIndex # 0 /\ rows' = [rows EXCEPT ![view.entries[MoveIndex].uid].st = "gone"])
    BY <1>26 DEF MoveOne, folder
  <2>2. rows' \in [UIDs -> Row]
    BY <1>1, <1>2, <1>18, <2>1, MoveIndexIs
  <2>3. wire' \in 0..MaxWire
    BY <1>1, <1>19, <1>26 DEF MoveOne, folder
  <2>. QED
    BY <1>1, <1>26, <2>2, <2>3 DEF MoveOne, client
<1>27. CASE MoveEnd
  <2>1. cmd.op = "move" /\ cmd.pc \in {"end", "filed"}
    BY <1>27 DEF MoveEnd
  <2>2. MoveIndex \in 1..Len(view.entries)
    <3>1. \E i \in DOMAIN view.entries : view.entries[i].uid = cmd.at
      BY <2>1 DEF ViewInv, TargetInv
    <3>2. DOMAIN view.entries = 1..Len(view.entries)
      BY <1>2
    <3>. QED
      BY <1>2, <3>1, <3>2, MoveIndexIs
  <2>3. RemoveAt(view.entries, MoveIndex) \in Seq(Entry)
    BY <1>2, <2>2, RemoveAtIs
  <2>4. /\ view' = [view EXCEPT !.entries = RemoveAt(view.entries, MoveIndex)]
        /\ mirror' = DropNumber(mirror, MoveIndex) /\ told' = Known(told, mirror') /\ queued' = FALSE
        /\ UNCHANGED <<rows, wire, stale, muted, broken>>
    BY <1>27 DEF MoveEnd, folder
  <2>5. view' \in View
    BY <1>1, <2>3, <2>4 DEF View
  <2>6. mirror' \in Seq(UIDs) /\ told' \in Told
    BY <1>1, <2>4, DropType, KnownIs
  <2>. QED
    BY <1>1, <2>4, <2>5, <2>6
<1>. QED
  BY <1>6, <1>7, <1>8, <1>9, <1>11, <1>12, <1>13, <1>14, <1>15, <1>20, <1>21, <1>22,
     <1>23, <1>24, <1>25, <1>26, <1>27 DEF Kinds


(* resync adds only what was not there; the others add nothing.             *)
LEMMA DistinctKept == ViewInv /\ Kinds => DistinctInv'
<1>. SUFFICES ASSUME ViewInv, Kinds PROVE DistinctInv'
  OBVIOUS
<1>1. /\ TypeOK /\ StageInv /\ DistinctInv /\ view \in View /\ rows \in [UIDs -> Row]
      /\ view.entries \in Seq(Entry) /\ Len(view.entries) \in Nat
      /\ DOMAIN view.entries = 1..Len(view.entries)
  <2>1. view \in View /\ view.entries \in Seq(Entry) /\ rows \in [UIDs -> Row]
    BY DEF ViewInv, TypeOK, View
  <2>. QED
    BY <2>1, UidsAre DEF ViewInv
<1>2. ASSUME view'.entries = view.entries, cmd'.op = "select" => cmd' = cmd
      PROVE  DistinctInv'
  BY <1>1, <1>2 DEF DistinctInv, Distinct
<1>3. \A op : PollAfter(op).op = "poll"
  BY PollIs
<1>4. CASE Others \/ Calmed
  BY <1>2, <1>4 DEF Others, Calmed, Calm
<1>5. CASE \/ Drain \/ BodyRead \/ StoreWrite \/ Expunge \/ ExpungeKeep \/ ExpungeEntry
           \/ ExpungeFails \/ MoveOne
  <2>1. view' = view
    BY <1>5 DEF Drain, BodyRead, StoreWrite, Expunge, Begin, ExpungeKeep, ExpungeEntry, ExpungeFails, MoveOne
  <2>2. cmd'.op # "select"
    <3>1. cmd \in Command /\ (cmd.op = "select" <=> cmd.pc = "subscribe")
      BY <1>1 DEF StageInv
    <3>2. CASE Drain \/ ExpungeKeep \/ ExpungeEntry
      BY <3>1, <3>2 DEF Drain, ExpungeKeep, ExpungeEntry, Expunging, Command
    <3>3. CASE BodyRead \/ StoreWrite \/ MoveOne
      BY <1>3, <3>1, <3>3 DEF BodyRead, StoreWrite, MoveOne, Command
    <3>4. CASE Expunge
      BY <3>4, ReadyType DEF Expunge, Begin, Command
    <3>5. CASE ExpungeFails
      BY <1>3, <3>5 DEF ExpungeFails
    <3>. QED
      BY <1>5, <3>2, <3>3, <3>4, <3>5
  <2>. QED
    BY <1>2, <2>1, <2>2
<1>6. CASE LoadView
  <2>1. cmd.pc = "load" /\ cmd' = [cmd EXCEPT !.pc = "act"] /\ view' = Resynced(Mode(cmd))
    BY <1>6 DEF LoadView
  <2>2. cmd'.op # "select"
    BY <1>1, <2>1 DEF StageInv, Command
  <2>3. Distinct(view'.entries)
    BY <1>1, <2>1, ResyncedIs DEF DistinctInv
  <2>. QED
    BY <2>2, <2>3 DEF DistinctInv, Distinct
<1>7. CASE Select
  <2>1. cmd'.kept = Load(LiveUIDs) /\ view' = view
    BY <1>7 DEF Select, Ready
  <2>2. Distinct(Load(LiveUIDs))
    BY <1>1, LoadIs DEF LiveUIDs
  <2>. QED
    BY <1>1, <2>1, <2>2 DEF DistinctInv, Distinct
<1>8. CASE Subscribe
  <2>1. cmd.op = "select" /\ view'.entries = cmd.kept /\ cmd'.op # "select"
    BY <1>1, <1>3, <1>8 DEF Subscribe, Closed, StageInv
  <2>. QED
    BY <1>1, <2>1 DEF DistinctInv, Distinct
<1>9. CASE Unselect
  <2>1. view'.entries = <<>> /\ cmd'.op # "select"
    BY <1>1, <1>9 DEF Unselect, Closed, StageInv
  <2>. QED
    BY <2>1 DEF DistinctInv, Distinct
<1>10. ASSUME NEW n \in UIDs, FetchBody(n) \/ Move(n) \/ \E v \in FlagValues : Store(n, v)
       PROVE  DistinctInv'
  BY <1>1, <1>2, <1>10, NamedIs
<1>11. CASE ReadDone
  BY <1>2, <1>3, <1>11 DEF ReadDone
<1>12. CASE BodyWrite \/ StoreEnd
  <2>1. /\ view' = [view EXCEPT !.entries[cmd.n].flag = cmd.flag] /\ cmd'.op # "select"
        /\ cmd.op \in {"body", "store"}
    BY <1>3, <1>12 DEF BodyWrite, StoreEnd
  <2>2. cmd.n \in 1..Len(view.entries) /\ cmd.flag \in FlagValues
    BY <1>1, <2>1 DEF ViewInv, TargetInv, StageInv, Command
  <2>3. /\ view' \in View /\ Len(view'.entries) = Len(view.entries)
        /\ \A i \in 1..Len(view.entries) : view'.entries[i].uid = view.entries[i].uid
    BY <1>1, <2>1, <2>2, FlagPut
  <2>4. DOMAIN view'.entries = 1..Len(view.entries)
    BY <1>1, <2>3 DEF View
  <2>. QED
    BY <1>1, <2>1, <2>3, <2>4 DEF DistinctInv, Distinct
<1>13. CASE ExpungeEnd
  <2>1. view'.entries = cmd.kept /\ cmd.op = "expunge" /\ cmd'.op # "select"
    BY <1>1, <1>3, <1>13 DEF ExpungeEnd, Expunging, View
  <2>. QED
    BY <2>1 DEF ViewInv, KeptInv, DistinctInv, Distinct
<1>14. CASE MoveEnd
  <2>1. cmd.op = "move" /\ cmd.pc \in {"end", "filed"} /\ cmd'.op # "select"
        /\ view'.entries = RemoveAt(view.entries, MoveIndex)
    BY <1>1, <1>3, <1>14 DEF MoveEnd, View
  <2>2. MoveIndex \in 1..Len(view.entries)
    BY <1>1, <2>1, MoveIndexIs DEF ViewInv, TargetInv
  <2>. DEFINE es == view.entries
              n  == MoveIndex
              fs == RemoveAt(es, n)
  <2>. HIDE DEF n
  <2>3. /\ fs \in Seq(Entry) /\ Len(fs) = Len(es) - 1
        /\ \A i \in 1..Len(es) - 1 : fs[i] = IF i < n THEN es[i] ELSE es[i + 1]
    BY <1>1, <2>2, RemoveAtIs DEF n
  <2>. HIDE DEF fs
  <2>4. ASSUME NEW i \in 1..Len(es) - 1, NEW j \in 1..Len(es) - 1, fs[i].uid = fs[j].uid
        PROVE  i = j
    <3>. DEFINE o(k) == IF k < n THEN k ELSE k + 1
    <3>1. o(i) \in 1..Len(es) /\ o(j) \in 1..Len(es) /\ n \in Nat
      BY <1>1, <2>2 DEF n
    <3>2. fs[i] = es[o(i)] /\ fs[j] = es[o(j)]
      BY <2>3
    <3>3. o(i) = o(j)
      BY <1>1, <2>4, <3>1, <3>2 DEF DistinctInv, Distinct
    <3>. QED
      BY <3>1, <3>3
  <2>5. DOMAIN fs = 1..Len(es) - 1
    BY <1>1, <2>3
  <2>6. Distinct(fs)
    BY <2>4, <2>5 DEF Distinct
  <2>. QED
    BY <2>1, <2>6 DEF DistinctInv, Distinct, fs, n
<1>. QED
  BY <1>4, <1>5, <1>6, <1>7, <1>8, <1>9, <1>10, <1>11, <1>12, <1>13, <1>14 DEF Kinds


(* The loop of Expunge, entry by entry.                                     *)
LEMMA KeptKept == ViewInv /\ Kinds => KeptInv'
<1>. SUFFICES ASSUME ViewInv, Kinds PROVE KeptInv'
  OBVIOUS
<1>. DEFINE es == view.entries
            kept == cmd.kept
            at == cmd.at
<1>1. /\ TypeOK /\ StageInv /\ KeptInv /\ Distinct(es) /\ es \in Seq(Entry) /\ Len(es) \in Nat
      /\ DOMAIN es = 1..Len(es) /\ \A i \in 1..Len(es) : es[i] \in Entry
  <2>1. es \in Seq(Entry)
    BY DEF ViewInv, TypeOK
  <2>. QED
    BY <2>1, UidsAre DEF ViewInv, DistinctInv
<1>2. /\ cmd \in Command /\ kept \in Seq(Entry) /\ Len(kept) \in Nat /\ DOMAIN kept = 1..Len(kept)
      /\ at \in Nat
  <2>1. cmd \in Command /\ kept \in Seq(Entry) /\ at \in Nat
    BY <1>1 DEF StageInv, Command
  <2>. QED
    BY <2>1, UidsAre
<1>3. \A op : PollAfter(op).op # "expunge"
  BY PollIs
<1>4. ASSUME cmd'.op # "expunge" PROVE KeptInv'
  BY <1>4 DEF KeptInv
<1>5. ASSUME cmd'.at = 1, cmd'.kept = <<>>, Len(view'.entries) \in Nat PROVE KeptInv'
  BY <1>5 DEF KeptInv, Distinct
<1>6. CASE Others
  BY <1>1, <1>6 DEF Others, KeptInv, Distinct
<1>7. CASE Calmed
  BY <1>4, <1>7 DEF Calmed, Calm
<1>8. CASE Drain \/ LoadView
  <2>1. /\ cmd.pc # "act" /\ cmd'.op = cmd.op /\ cmd'.at = cmd.at /\ cmd'.kept = cmd.kept
    BY <1>2, <1>8 DEF Drain, LoadView, Command
  <2>2. Len(view'.entries) \in Nat
    BY <1>1, <1>8, ResyncedIs DEF Drain, LoadView
  <2>3. cmd.op = "expunge" => cmd.at = 1 /\ cmd.kept = <<>>
    BY <1>1, <2>1 DEF KeptInv
  <2>. QED
    BY <1>4, <1>5, <2>1, <2>2, <2>3
<1>9. CASE Select \/ Unselect
  <2>1. cmd'.op \in {"select", "none"}
    BY <1>1, <1>9, ReadyType DEF Select, Unselect, StageInv, Command
  <2>. QED
    BY <1>4, <2>1
<1>10. ASSUME NEW n \in UIDs, FetchBody(n) \/ Move(n) \/ \E v \in FlagValues : Store(n, v)
       PROVE  KeptInv'
  BY <1>4, <1>10, NamedIs
<1>11. CASE Subscribe \/ ReadDone \/ BodyWrite \/ StoreEnd \/ ExpungeFails \/ ExpungeEnd \/ MoveEnd
  <2>1. \E op : cmd' = PollAfter(op)
    BY <1>11 DEF Subscribe, ReadDone, BodyWrite, StoreEnd, ExpungeFails, ExpungeEnd, MoveEnd
  <2>. QED
    BY <1>3, <1>4, <2>1
<1>12. CASE BodyRead \/ StoreWrite \/ MoveOne
  <2>1. cmd.op # "expunge" /\ ((\E op : cmd' = PollAfter(op)) \/ cmd'.op = cmd.op)
    BY <1>2, <1>12 DEF BodyRead, StoreWrite, MoveOne, Command
  <2>. QED
    BY <1>3, <1>4, <2>1
<1>13. CASE Expunge
  <2>1. cmd' = [[Ready EXCEPT !.op = "expunge"] EXCEPT !.pc = "drain"] /\ view' = view
    BY <1>13 DEF Expunge, Begin
  <2>2. cmd'.at = 1 /\ cmd'.kept = <<>>
    BY <2>1 DEF Ready
  <2>. QED
    BY <1>1, <1>5, <2>1, <2>2
<1>14. ASSUME Expunging, at <= Len(es), view' = view
       PROVE  /\ at \in 1..Len(es) /\ cmd.op = "expunge" /\ cmd.pc = "act"
              /\ Len(kept) <= at - 1 /\ Distinct(kept)
              /\ \A i \in 1..Len(kept) : \E j \in 1..at - 1 : kept[i] = es[j]
              /\ Len(kept) = at - 1 => \A i \in 1..Len(kept) : kept[i] = es[i]
  BY <1>1, <1>2, <1>14 DEF Expunging, KeptInv
<1>15. CASE ExpungeKeep
  <2>. DEFINE more == Append(kept, es[at])
  <2>1. /\ Expunging /\ at <= Len(es) /\ view' = view /\ cmd' = [cmd EXCEPT !.at = at + 1, !.kept = more]
    BY <1>15 DEF ExpungeKeep, Current
  <2>2. cmd'.at = at + 1 /\ cmd'.kept = more /\ cmd'.op = "expunge" /\ cmd'.pc = "act"
    BY <1>2, <1>14, <2>1 DEF Command
  <2>3. /\ more \in Seq(Entry) /\ Len(more) = Len(kept) + 1
        /\ \A i \in 1..Len(kept) : more[i] = kept[i]
        /\ more[Len(kept) + 1] = es[at]
    BY <1>1, <1>2, <1>14, <2>1, AppendProperties
  <2>4. DOMAIN more = 1..Len(kept) + 1
    BY <2>3
  <2>. HIDE DEF more
  <2>5. \A i \in 1..Len(kept) + 1 : \E j \in 1..at : more[i] = es[j] /\ (i <= Len(kept) => j < at)
    <3>. TAKE i \in 1..Len(kept) + 1
    <3>1. CASE i = Len(kept) + 1
      BY <1>2, <1>14, <2>1, <2>3, <3>1
    <3>2. CASE i \in 1..Len(kept)
      <4>1. PICK j \in 1..at - 1 : kept[i] = es[j]
        BY <1>14, <2>1, <3>2
      <4>2. j \in 1..at /\ j < at
        BY <1>2
      <4>. QED
        BY <2>3, <3>2, <4>1, <4>2
    <3>. QED
      BY <1>2, <3>1, <3>2
  <2>6. Distinct(more)
    <3>1. ASSUME NEW i \in 1..Len(kept) PROVE more[i].uid # es[at].uid
      <4>1. PICK j \in 1..at - 1 : kept[i] = es[j]
        BY <1>14, <2>1
      <4>2. j \in 1..Len(es) /\ at \in 1..Len(es) /\ j # at
        BY <1>1, <1>2, <1>14, <2>1
      <4>3. \A k, l \in 1..Len(es) : es[k].uid = es[l].uid => k = l
        BY <1>1 DEF Distinct
      <4>4. es[j].uid # es[at].uid
        BY <4>2, <4>3
      <4>. QED
        BY <2>3, <4>1, <4>4
    <3>2. ASSUME NEW i \in 1..Len(kept), NEW j \in 1..Len(kept), more[i].uid = more[j].uid
          PROVE  i = j
      <4>1. Distinct(kept)
        BY <1>14, <2>1
      <4>2. \A k, l \in 1..Len(kept) : kept[k].uid = kept[l].uid => k = l
        BY <1>2, <4>1 DEF Distinct
      <4>3. kept[i].uid = kept[j].uid
        BY <2>3, <3>2
      <4>. QED
        BY <4>2, <4>3
    <3>3. ASSUME NEW i \in 1..Len(kept) + 1, NEW j \in 1..Len(kept) + 1, more[i].uid = more[j].uid
          PROVE  i = j
      <4>1. (i \in 1..Len(kept) \/ i = Len(kept) + 1) /\ (j \in 1..Len(kept) \/ j = Len(kept) + 1)
        BY <1>2
      <4>. QED
        BY <2>3, <3>1, <3>2, <3>3, <4>1
    <3>. QED
      BY <2>4, <3>3 DEF Distinct
  <2>7. Len(more) <= (at + 1) - 1 /\ at + 1 \in 1..Len(es) + 1
    <3>1. at \in 1..Len(es) /\ Len(kept) <= at - 1 /\ Len(more) = Len(kept) + 1
      BY <1>14, <2>1, <2>3
    <3>. QED
      BY <1>1, <1>2, <3>1
  <2>8. ASSUME Len(more) = (at + 1) - 1, NEW i \in 1..Len(more) PROVE more[i] = es[i]
    <3>1. Len(kept) = at - 1 /\ Len(kept) + 1 = at /\ (i \in 1..Len(kept) \/ i = at)
      BY <1>2, <2>3, <2>8
    <3>2. CASE i \in 1..Len(kept)
      BY <1>14, <2>1, <2>3, <3>1, <3>2
    <3>3. CASE i = at
      BY <2>3, <3>1, <3>3
    <3>. QED
      BY <3>1, <3>2, <3>3
  <2>9. (at + 1) - 1 = at
    BY <1>2
  <2>. QED
    <3>1. /\ cmd'.at \in 1..Len(view'.entries) + 1 /\ Len(cmd'.kept) <= cmd'.at - 1
          /\ Distinct(cmd'.kept)
      BY <2>1, <2>2, <2>6, <2>7
    <3>2. \A i \in 1..Len(cmd'.kept) : \E j \in 1..cmd'.at - 1 : cmd'.kept[i] = view'.entries[j]
      BY <2>1, <2>2, <2>3, <2>5, <2>9
    <3>3. Len(cmd'.kept) = cmd'.at - 1 => \A i \in 1..Len(cmd'.kept) : cmd'.kept[i] = view'.entries[i]
      BY <2>1, <2>2, <2>8
    <3>4. Distinct(cmd.kept)' <=> Distinct(cmd'.kept)
      BY DEF Distinct
    <3>. QED
      BY <2>2, <3>1, <3>2, <3>3, <3>4 DEF KeptInv
<1>16. CASE ExpungeEntry
  <2>1. Expunging /\ at <= Len(es) /\ view' = view /\ cmd' = [cmd EXCEPT !.at = at + 1]
    BY <1>16 DEF ExpungeEntry
  <2>2. cmd'.at = at + 1 /\ cmd'.kept = kept /\ cmd'.op = "expunge" /\ cmd'.pc = "act"
    BY <1>2, <1>14, <2>1 DEF Command
  <2>3. /\ at + 1 \in 1..Len(es) + 1 /\ (at + 1) - 1 = at /\ Len(kept) <= at /\ Len(kept) # at
        /\ \A j \in 1..at - 1 : j \in 1..at
    BY <1>1, <1>2, <1>14, <2>1
  <2>. QED
    BY <1>14, <2>1, <2>2, <2>3 DEF KeptInv, Distinct
<1>. QED
  BY <1>6, <1>7, <1>8, <1>9, <1>10, <1>11, <1>12, <1>13, <1>15, <1>16 DEF Kinds


(* Outside the loop of Expunge the client's numbers are those of the view. *)
LEMMA NumbersAre ==
  ASSUME ViewInv, view.open, ~broken, ~Expunging
  PROVE  mirror = Uids(view.entries)
BY DEF ViewInv, SameNumberingUnlessBroken, SameNumbering, Numbering

(* The message meant stays in the view until its command has acted.         *)
LEMMA TargetKept == ViewInv /\ Kinds => TargetInv'
<1>. SUFFICES ASSUME ViewInv, Kinds PROVE TargetInv'
  OBVIOUS
<1>. DEFINE es == view.entries
<1>1. /\ TypeOK /\ StageInv /\ TargetInv /\ es \in Seq(Entry) /\ Len(es) \in Nat
      /\ DOMAIN es = 1..Len(es) /\ \A i \in 1..Len(es) : es[i].uid \in UIDs
      /\ cmd \in Command /\ rows \in [UIDs -> Row]
  <2>1. es \in Seq(Entry) /\ rows \in [UIDs -> Row]
    BY DEF ViewInv, TypeOK
  <2>. QED
    BY <2>1, UidsAre DEF ViewInv, StageInv
<1>2. ASSUME cmd'.op \notin {"body", "store", "move"} PROVE TargetInv'
  BY <1>2 DEF TargetInv
<1>3. CASE Others
  BY <1>1, <1>3 DEF Others, TargetInv
<1>4. CASE Calmed
  BY <1>2, <1>4 DEF Calmed, Calm
<1>5. CASE Drain
  <2>1. /\ cmd'.op = cmd.op /\ cmd'.n = cmd.n /\ cmd'.named = cmd.named /\ cmd'.at = cmd.at
        /\ cmd'.pc \notin {"end", "filed"} /\ view' = view /\ broken' = broken
    BY <1>1, <1>5 DEF Drain, Command
  <2>. QED
    BY <1>1, <2>1 DEF TargetInv
<1>6. CASE LoadView
  <2>. DEFINE m == Mode(cmd)
              fs == Resynced(m).entries
  <2>1. /\ cmd'.op = cmd.op /\ cmd'.n = cmd.n /\ cmd'.named = cmd.named /\ cmd'.at = cmd.at
        /\ cmd'.pc \notin {"end", "filed"} /\ view'.entries = fs /\ broken' = broken
    BY <1>1, <1>6 DEF LoadView, Command
  <2>2. fs \in Seq(Entry)
    BY <1>1, ResyncedIs
  <2>3. CASE cmd.op \in {"body", "store"}
    <3>1. ~m.expunge /\ ~m.exists
      BY <2>3 DEF Mode
    <3>2. Len(fs) = Len(es) /\ \A i \in 1..Len(es) : fs[i].uid = es[i].uid
      BY <1>1, <3>1, ResyncedIs
    <3>3. DOMAIN fs = 1..Len(es)
      BY <2>2, <3>2
    <3>. HIDE DEF fs
    <3>. QED
      BY <1>1, <2>1, <2>3, <3>2, <3>3 DEF TargetInv
  <2>4. CASE cmd.op = "move"
    BY <1>1, <2>1, <2>4 DEF TargetInv
  <2>. QED
    BY <1>2, <2>1, <2>3, <2>4
<1>7. CASE Select \/ Unselect \/ Expunge
  <2>1. cmd'.op \in {"select", "none", "expunge"}
    BY <1>1, <1>7, ReadyType DEF Select, Unselect, Expunge, Begin, StageInv, Command
  <2>. QED
    BY <1>2, <2>1
<1>8. CASE Subscribe \/ ReadDone \/ BodyWrite \/ StoreEnd \/ ExpungeFails \/ ExpungeEnd \/ MoveEnd
  <2>1. \E op : cmd' = PollAfter(op)
    BY <1>8 DEF Subscribe, ReadDone, BodyWrite, StoreEnd, ExpungeFails, ExpungeEnd, MoveEnd
  <2>. QED
    BY <1>2, <2>1, PollIs
<1>9. CASE ExpungeKeep \/ ExpungeEntry
  <2>1. cmd'.op = "expunge"
    BY <1>1, <1>9 DEF ExpungeKeep, ExpungeEntry, Expunging, Command
  <2>. QED
    BY <1>2, <2>1
<1>10. ASSUME NEW n \in UIDs, FetchBody(n) \/ Move(n) \/ \E v \in FlagValues : Store(n, v)
       PROVE  TargetInv'
  <2>1. /\ view.open /\ cmd.op = "none" /\ view' = view /\ broken' = broken /\ n \in 1..Len(es)
        /\ cmd'.pc = "drain" /\ cmd'.n = n /\ cmd'.named = mirror[n]
        /\ \/ cmd'.op \in {"body", "store"}
           \/ cmd'.op = "move" /\ cmd'.at = es[n].uid
    BY <1>10, NamedIs
  <2>2. ~broken => mirror[n] = es[n].uid
    <3>1. ~broken => mirror = Uids(es)
      BY <2>1, NumbersAre DEF Expunging
    <3>. QED
      BY <1>1, <2>1, <3>1, UidsAre
  <2>. QED
    BY <1>1, <2>1, <2>2 DEF TargetInv
<1>11. CASE BodyRead \/ StoreWrite
  <2>1. /\ view' = view /\ broken' = broken
        /\ \/ \E op : cmd' = PollAfter(op)
           \/ cmd'.op \in {"body", "store"} /\ cmd'.op = cmd.op /\ cmd'.n = cmd.n /\ cmd'.named = cmd.named
    BY <1>1, <1>11 DEF BodyRead, StoreWrite, Command
  <2>2. CASE \E op : cmd' = PollAfter(op)
    BY <1>2, <2>2, PollIs
  <2>3. CASE cmd'.op \in {"body", "store"} /\ cmd'.op = cmd.op /\ cmd'.n = cmd.n /\ cmd'.named = cmd.named
    BY <1>1, <2>1, <2>3 DEF TargetInv
  <2>. QED
    BY <2>1, <2>2, <2>3
<1>12. CASE MoveOne
  <2>1. cmd.op = "move" /\ view' = view /\ broken' = broken
    BY <1>12 DEF MoveOne
  <2>2. CASE cmd' = PollAfter("move")
    BY <1>2, <2>2, PollIs
  <2>3. CASE /\ MoveIndex # 0 /\ rows' = [rows EXCEPT ![es[MoveIndex].uid].st = "gone"]
             /\ cmd' = [cmd EXCEPT !.pc = "end"]
    <3>1. MoveIndex \in 1..Len(es) /\ es[MoveIndex].uid = cmd.at /\ cmd.at \in UIDs
      BY <1>1, <2>3, MoveIndexIs
    <3>2. rows'[cmd.at].st = "gone"
      BY <1>1, <2>3, <3>1 DEF Row
    <3>3. cmd'.op = "move" /\ cmd'.at = cmd.at /\ cmd'.named = cmd.named
      BY <1>1, <2>1, <2>3 DEF Command
    <3>. QED
      BY <1>1, <2>1, <3>1, <3>2, <3>3 DEF TargetInv
  <2>4. CASE MoveIndex # 0 /\ cmd' = [cmd EXCEPT !.pc = "filed"]
    <3>1. MoveIndex \in 1..Len(es) /\ es[MoveIndex].uid = cmd.at /\ cmd.at \in UIDs
      BY <1>1, <2>4, MoveIndexIs
    <3>2. cmd'.op = "move" /\ cmd'.at = cmd.at /\ cmd'.named = cmd.named /\ cmd'.pc = "filed"
      BY <1>1, <2>1, <2>4 DEF Command
    <3>. QED
      BY <1>1, <2>1, <3>1, <3>2 DEF TargetInv
  <2>. QED
    BY <1>12, <2>2, <2>3, <2>4 DEF MoveOne
<1>. QED
  BY <1>3, <1>4, <1>5, <1>6, <1>7, <1>8, <1>9, <1>10, <1>11, <1>12 DEF Kinds


(* Whatever renumbers the view is told to the client.                       *)
LEMMA NumbersKept == ViewInv /\ Kinds => SameNumberingUnlessBroken'
<1>. SUFFICES ASSUME ViewInv, Kinds, view'.open, ~broken' PROVE mirror' = Numbering'
  BY DEF SameNumberingUnlessBroken, SameNumbering
<1>. DEFINE es == view.entries
            kept == cmd.kept
            at == cmd.at
<1>1. /\ TypeOK /\ StageInv /\ KeptInv /\ es \in Seq(Entry) /\ Len(es) \in Nat
      /\ DOMAIN es = 1..Len(es) /\ \A i \in 1..Len(es) : es[i] \in Entry
      /\ view \in View /\ mirror \in Seq(UIDs)
  <2>1. es \in Seq(Entry) /\ view \in View /\ mirror \in Seq(UIDs)
    BY DEF ViewInv, TypeOK, View
  <2>. QED
    BY <2>1, UidsAre DEF ViewInv
<1>2. cmd \in Command /\ kept \in Seq(Entry) /\ Len(kept) \in Nat /\ at \in Nat
  <2>1. cmd \in Command /\ kept \in Seq(Entry) /\ at \in Nat
    BY <1>1 DEF StageInv, Command
  <2>. QED
    BY <2>1, UidsAre
<1>3. \A op : PollAfter(op).op = "poll"
  BY PollIs
<1>4. ASSUME mirror' = Uids(view'.entries), cmd'.op # "expunge" \/ cmd'.pc # "act"
      PROVE  mirror' = Numbering'
  BY <1>4 DEF Numbering, Expunging
<1>5. ASSUME mirror' = Rest(cmd'.kept, view'.entries, cmd'.at), cmd'.op = "expunge", cmd'.pc = "act"
      PROVE  mirror' = Numbering'
  BY <1>5 DEF Numbering, Expunging, Rest
<1>6. ASSUME broken' = broken, mirror' = mirror, Uids(view'.entries) = Uids(es), view.open, ~Expunging,
             cmd'.op # "expunge" \/ cmd'.pc # "act"
      PROVE  mirror' = Numbering'
  BY <1>4, <1>6, NumbersAre
<1>7. ASSUME view.open, ~broken, Expunging PROVE mirror = Rest(kept, es, at)
  BY <1>7 DEF ViewInv, SameNumberingUnlessBroken, SameNumbering, Numbering, Rest
<1>8. CASE Others
  <2>1. view' = view /\ cmd' = cmd /\ mirror' = mirror /\ broken' = broken
    BY <1>8 DEF Others, client
  <2>2. mirror = Numbering
    BY <2>1 DEF ViewInv, SameNumberingUnlessBroken, SameNumbering
  <2>. QED
    BY <2>1, <2>2 DEF Numbering, Expunging
<1>9. CASE Calmed
  <2>1. view' = view /\ mirror' = mirror /\ broken' = broken /\ ~Expunging /\ cmd'.op # "expunge"
    BY <1>9 DEF Calmed, Calm, client
  <2>. QED
    BY <1>6, <2>1
<1>10. ASSUME cmd.op = "expunge", cmd.pc # "act", cmd'.kept = kept, cmd'.at = at, cmd'.op = "expunge",
              cmd'.pc = "act", mirror' = Uids(view'.entries), view'.entries \in Seq(Entry)
       PROVE  mirror' = Numbering'
  <2>1. kept = <<>> /\ at = 1
    BY <1>1, <1>10 DEF KeptInv
  <2>2. Rest(<<>>, view'.entries, 1) = Uids(view'.entries)
    <3>1. <<>> \in Seq(Entry)
      OBVIOUS
    <3>. QED
      BY <1>10, <3>1, RestEnds
  <2>. QED
    BY <1>5, <1>10, <2>1, <2>2
<1>11. CASE Drain
  <2>1. /\ cmd.pc = "drain" /\ cmd'.op = cmd.op /\ cmd'.kept = kept /\ cmd'.at = at
        /\ view' = view /\ mirror' = mirror /\ broken' = broken
    BY <1>2, <1>11 DEF Drain, Command, client
  <2>2. ~Expunging /\ mirror = Uids(es)
    <3>1. ~Expunging
      BY <2>1 DEF Expunging
    <3>. QED
      BY <2>1, <3>1, NumbersAre
  <2>3. CASE cmd'.op # "expunge" \/ cmd'.pc # "act"
    BY <1>6, <2>1, <2>2, <2>3
  <2>4. CASE cmd'.op = "expunge" /\ cmd'.pc = "act"
    BY <1>1, <1>10, <2>1, <2>2, <2>4
  <2>. QED
    BY <2>3, <2>4
<1>12. CASE LoadView
  <2>. DEFINE m == Mode(cmd)
  <2>1. /\ cmd.pc = "load" /\ cmd'.op = cmd.op /\ cmd'.kept = kept /\ cmd'.at = at
        /\ view' = Resynced(m) /\ mirror' = Mirrored(m) /\ broken' = broken
    BY <1>2, <1>12 DEF LoadView, Command
  <2>2. ~Expunging /\ view.open
    BY <1>1, <2>1 DEF Expunging, StageInv
  <2>3. mirror = Uids(es)
    BY <2>1, <2>2, NumbersAre
  <2>4. m.exists => m.writer = "all"
    BY DEF Mode
  <2>. HIDE DEF m
  <2>5. mirror' = Uids(view'.entries) /\ view'.entries \in Seq(Entry)
    BY <1>1, <2>1, <2>3, <2>4, MirroredIs, ResyncedIs
  <2>6. CASE cmd'.op # "expunge" \/ cmd'.pc # "act"
    BY <1>4, <2>5, <2>6
  <2>7. CASE cmd'.op = "expunge" /\ cmd'.pc = "act"
    BY <1>10, <2>1, <2>5, <2>7
  <2>. QED
    BY <2>6, <2>7
<1>13. CASE Select
  <2>1. /\ view' = view /\ mirror' = mirror /\ broken' = broken /\ ~Expunging /\ cmd'.op # "expunge"
    BY <1>13, ReadyType DEF Select, client, Expunging, Command
  <2>. QED
    BY <1>6, <2>1
<1>14. CASE Subscribe
  <2>1. mirror' = Uids(view'.entries) /\ cmd'.op # "expunge"
    BY <1>3, <1>14 DEF Subscribe, Closed
  <2>. QED
    BY <1>4, <2>1
<1>15. CASE Unselect
  BY <1>15 DEF Unselect, Closed
<1>16. ASSUME NEW n \in UIDs, FetchBody(n) \/ Move(n) \/ \E v \in FlagValues : Store(n, v)
       PROVE  mirror' = Numbering'
  <2>1. cmd.op = "none" /\ view' = view /\ mirror' = mirror /\ broken' = broken /\ cmd'.pc = "drain"
    BY <1>16, NamedIs DEF client
  <2>. QED
    BY <1>6, <2>1 DEF Expunging
<1>17. CASE ReadDone \/ BodyRead \/ StoreWrite \/ MoveOne \/ Expunge
  <2>1. view' = view /\ mirror' = mirror /\ broken' = broken /\ ~Expunging
    BY <1>17 DEF ReadDone, BodyRead, StoreWrite, MoveOne, Expunge, Begin, client, Expunging
  <2>2. cmd'.op # "expunge" \/ cmd'.pc # "act"
    <3>1. CASE ReadDone \/ BodyRead \/ StoreWrite \/ MoveOne
      BY <1>2, <1>3, <3>1 DEF ReadDone, BodyRead, StoreWrite, MoveOne, Command
    <3>2. CASE Expunge
      BY <3>2, ReadyType DEF Expunge, Begin, Command
    <3>. QED
      BY <1>17, <3>1, <3>2
  <2>. QED
    BY <1>6, <2>1, <2>2
<1>18. CASE BodyWrite \/ StoreEnd
  <2>1. /\ view' = [view EXCEPT !.entries[cmd.n].flag = cmd.flag] /\ cmd'.op # "expunge"
        /\ cmd.op \in {"body", "store"} /\ mirror' = mirror /\ broken' = broken
    BY <1>3, <1>18 DEF BodyWrite, StoreEnd
  <2>2. cmd.n \in 1..Len(es) /\ cmd.flag \in FlagValues
    BY <1>1, <1>2, <2>1 DEF ViewInv, TargetInv, Command
  <2>3. /\ view' \in View /\ view'.open = view.open /\ Len(view'.entries) = Len(es)
        /\ \A i \in 1..Len(es) : view'.entries[i].uid = es[i].uid
    BY <1>1, <2>1, <2>2, FlagPut
  <2>4. DOMAIN view'.entries = 1..Len(es)
    BY <1>1, <2>3 DEF View
  <2>5. Uids(view'.entries) = Uids(es)
    BY <1>1, <2>3, <2>4 DEF Uids
  <2>. QED
    BY <1>6, <2>1, <2>3, <2>5 DEF Expunging
<1>19. CASE ExpungeKeep
  <2>1. /\ Expunging /\ at <= Len(es) /\ view' = view /\ mirror' = mirror /\ broken' = broken
        /\ cmd' = [cmd EXCEPT !.at = at + 1, !.kept = Append(kept, es[at])]
    BY <1>19 DEF ExpungeKeep, Current, client
  <2>2. at \in 1..Len(es)
    BY <1>1, <1>2, <2>1 DEF KeptInv, Expunging
  <2>3. /\ cmd'.at = at + 1 /\ cmd'.kept = Append(kept, es[at]) /\ cmd'.op = "expunge" /\ cmd'.pc = "act"
    BY <1>2, <2>1 DEF Expunging, Command
  <2>4. Rest(Append(kept, es[at]), es, at + 1) = Rest(kept, es, at)
    BY <1>1, <1>2, <2>2, RestKeep
  <2>5. mirror = Rest(kept, es, at)
    BY <1>7, <2>1
  <2>. QED
    BY <1>5, <2>1, <2>3, <2>4, <2>5
<1>20. CASE ExpungeEntry
  <2>1. /\ Expunging /\ at <= Len(es) /\ view' = view /\ broken' = broken
        /\ mirror' = DropNumber(mirror, Len(kept) + 1) /\ cmd' = [cmd EXCEPT !.at = at + 1]
    BY <1>20 DEF ExpungeEntry, Remaining
  <2>2. at \in 1..Len(es)
    BY <1>1, <1>2, <2>1 DEF KeptInv, Expunging
  <2>3. cmd'.at = at + 1 /\ cmd'.kept = kept /\ cmd'.op = "expunge" /\ cmd'.pc = "act"
    BY <1>2, <2>1 DEF Expunging, Command
  <2>4. DropNumber(Rest(kept, es, at), Len(kept) + 1) = Rest(kept, es, at + 1)
    BY <1>1, <1>2, <2>2, RestDrop
  <2>5. mirror = Rest(kept, es, at)
    BY <1>7, <2>1
  <2>. QED
    BY <1>5, <2>1, <2>3, <2>4, <2>5
<1>21. CASE ExpungeFails
  <2>1. /\ Expunging /\ view' = view /\ mirror' = mirror /\ ~broken /\ ~(at > Len(kept) + 1)
        /\ cmd'.op # "expunge"
    BY <1>3, <1>21 DEF ExpungeFails, client
  <2>2. /\ at \in 1..Len(es) + 1 /\ Len(kept) = at - 1
        /\ \A i \in 1..Len(kept) : kept[i] = es[i]
    BY <1>1, <1>2, <2>1 DEF KeptInv, Expunging
  <2>3. mirror = Uids(es)
    BY <1>1, <1>2, <1>7, <2>1, <2>2, RestSame
  <2>. QED
    BY <1>4, <2>1, <2>3
<1>22. CASE ExpungeEnd
  <2>1. /\ Expunging /\ at > Len(es) /\ view'.entries = kept /\ view'.open = view.open
        /\ mirror' = mirror /\ broken' = broken /\ cmd'.op # "expunge"
    BY <1>1, <1>3, <1>22 DEF ExpungeEnd, client, View
  <2>2. at = Len(es) + 1
    BY <1>1, <1>2, <2>1 DEF KeptInv, Expunging
  <2>3. mirror = Uids(kept)
    BY <1>1, <1>2, <1>7, <2>1, <2>2, RestEnds
  <2>. QED
    BY <1>4, <2>1, <2>3
<1>23. CASE MoveEnd
  <2>1. /\ cmd.op = "move" /\ cmd.pc \in {"end", "filed"} /\ broken' = broken /\ cmd'.op # "expunge"
        /\ mirror' = DropNumber(mirror, MoveIndex) /\ view'.open = view.open
        /\ view'.entries = RemoveAt(es, MoveIndex)
    BY <1>1, <1>3, <1>23 DEF MoveEnd, View
  <2>2. MoveIndex \in 1..Len(es)
    BY <1>1, <2>1, MoveIndexIs DEF ViewInv, TargetInv
  <2>3. mirror = Uids(es)
    BY <2>1, NumbersAre DEF Expunging
  <2>. QED
    BY <1>1, <1>4, <2>1, <2>2, <2>3, DropUids
<1>. QED
  BY <1>8, <1>9, <1>11, <1>12, <1>13, <1>14, <1>15, <1>16, <1>17, <1>18, <1>19, <1>20, <1>21,
     <1>22, <1>23 DEF Kinds


(* A message without a number is forgotten.                                 *)
LEMMA ToldKept == ViewInv /\ Kinds => ToldInv'
<1>. SUFFICES ASSUME ViewInv, Kinds, ~broken' PROVE \A u \in UIDs : told'[u] # "unknown" => u \in ToSet(mirror')
  BY DEF ToldInv
<1>. DEFINE es == view.entries
            Goal == \A u \in UIDs : told'[u] # "unknown" => u \in ToSet(mirror')
<1>1. /\ StageInv /\ ToldInv /\ es \in Seq(Entry) /\ DOMAIN es = 1..Len(es)
      /\ told \in [UIDs -> FlagValues \cup {"unknown"}]
  <2>1. es \in Seq(Entry) /\ told \in [UIDs -> FlagValues \cup {"unknown"}]
    BY DEF ViewInv, TypeOK
  <2>. QED
    BY <2>1, UidsAre DEF ViewInv
<1>2. ASSUME told' = told, mirror' = mirror, ~broken PROVE Goal
  BY <1>1, <1>2 DEF ToldInv
<1>3. ASSUME NEW t, told' = Known(t, mirror') PROVE Goal
  BY <1>3 DEF Known
<1>4. ASSUME told' = [u \in UIDs |-> "unknown"] PROVE Goal
  BY <1>4
<1>5. ASSUME NEW n \in UIDs, FetchBody(n) \/ Move(n) \/ \E v \in FlagValues : Store(n, v)
      PROVE  Goal
  <2>1. told' = told /\ mirror' = mirror /\ broken' = broken
    BY <1>5, NamedIs DEF client
  <2>. QED
    BY <1>2, <2>1
<1>6. CASE \/ Others \/ Calmed \/ Drain \/ Select \/ BodyRead \/ StoreWrite \/ Expunge
           \/ ExpungeKeep \/ ExpungeFails \/ ExpungeEnd \/ MoveOne
  <2>1. told' = told /\ mirror' = mirror
    BY <1>6 DEF Others, Calmed, Drain, Select, BodyRead, StoreWrite, Expunge, Begin, ExpungeKeep,
                ExpungeFails, ExpungeEnd, MoveOne, client
  <2>2. ~broken
    BY <1>6 DEF Others, Calmed, Drain, Select, BodyRead, StoreWrite, Expunge, Begin, ExpungeKeep,
                ExpungeFails, ExpungeEnd, MoveOne
  <2>. QED
    BY <1>2, <2>1, <2>2
<1>7. CASE LoadView \/ ExpungeEntry \/ MoveEnd
  <2>1. \E t : told' = Known(t, mirror')
    BY <1>7 DEF LoadView, ExpungeEntry, MoveEnd
  <2>. QED
    BY <1>3, <2>1
<1>8. CASE Subscribe \/ Unselect
  BY <1>4, <1>8 DEF Subscribe, Unselect
<1>9. ASSUME view.open, ~broken, ~Expunging, NEW i \in 1..Len(es)
      PROVE  es[i].uid \in ToSet(mirror)
  <2>1. mirror = Uids(es)
    BY <1>9, NumbersAre
  <2>. QED
    BY <1>1, <2>1, UidsAre DEF ToSet
<1>10. CASE ReadDone
  <2>. DEFINE shown == {e \in ToSet(es) : cmd.op = "fetch" /\ ~e.gone}
  <2>1. /\ told' = [u \in UIDs |-> IF \E e \in shown : e.uid = u
                                   THEN (CHOOSE e \in shown : e.uid = u).flag ELSE told[u]]
        /\ mirror' = mirror /\ ~broken /\ cmd.pc = "act" /\ cmd.op \in {"fetch", "search", "copy"}
    BY <1>10 DEF ReadDone
  <2>2. view.open /\ ~Expunging
    BY <1>1, <2>1 DEF StageInv, Expunging
  <2>3. \A e \in shown : e.uid \in ToSet(mirror)
    BY <1>1, <1>9, <2>1, <2>2 DEF ToSet
  <2>. HIDE DEF shown
  <2>4. ASSUME NEW u \in UIDs, told'[u] # "unknown" PROVE u \in ToSet(mirror')
    <3>1. CASE \E e \in shown : e.uid = u
      BY <2>1, <2>3, <3>1
    <3>2. CASE ~\E e \in shown : e.uid = u
      BY <1>1, <2>1, <2>4, <3>2 DEF ToldInv
    <3>. QED
      BY <3>1, <3>2
  <2>. QED
    BY <2>4
<1>11. CASE BodyWrite \/ StoreEnd
  <2>. DEFINE u == es[cmd.n].uid
  <2>1. /\ told' \in {[told EXCEPT ![u] = cmd.flag], [told EXCEPT ![u] = "unknown"]}
        /\ cmd.op \in {"body", "store"} /\ mirror' = mirror /\ broken' = broken
    BY <1>11 DEF BodyWrite, StoreEnd
  <2>2. view.open /\ ~Expunging /\ cmd.n \in 1..Len(es)
    BY <1>1, <2>1 DEF StageInv, Expunging, ViewInv, TargetInv
  <2>3. u \in ToSet(mirror)
    BY <1>9, <2>1, <2>2
  <2>4. \A w \in UIDs : w # u => told'[w] = told[w]
    BY <1>1, <2>1
  <2>. QED
    BY <1>1, <2>1, <2>3, <2>4 DEF ToldInv
<1>. QED
  BY <1>5, <1>6, <1>7, <1>8, <1>10, <1>11 DEF Kinds

(* A flag the view takes over has been told, or swallowed.                  *)
LEMMA FlagsKept == ViewInv /\ Kinds => FlagsAgreeUnlessMuted'
<1>. DEFINE Agrees(e, t, q) == t[e.uid] = "unknown" \/ t[e.uid] = e.flag \/ e.uid \in q
            es == view.entries
            Goal == \A i \in DOMAIN view'.entries : Agrees(view'.entries[i], told', muted')
<1>. SUFFICES ASSUME ViewInv, Kinds, ~broken' PROVE Goal
  BY DEF FlagsAgreeUnlessMuted
<1>1. /\ TypeOK /\ StageInv /\ KeptInv /\ Distinct(es) /\ view \in View
      /\ es \in Seq(Entry) /\ Len(es) \in Nat
      /\ DOMAIN es = 1..Len(es) /\ \A i \in 1..Len(es) : es[i] \in Entry /\ es[i].uid \in UIDs
      /\ told \in [UIDs -> FlagValues \cup {"unknown"}] /\ cmd \in Command
      /\ rows \in [UIDs -> Row]
  <2>1. /\ es \in Seq(Entry) /\ told \in [UIDs -> FlagValues \cup {"unknown"}] /\ view \in View
        /\ rows \in [UIDs -> Row]
    BY DEF ViewInv, TypeOK, View
  <2>. QED
    BY <2>1, UidsAre DEF ViewInv, DistinctInv, StageInv
<1>2. ~broken => \A i \in 1..Len(es) : Agrees(es[i], told, muted)
  BY <1>1 DEF ViewInv, FlagsAgreeUnlessMuted
<1>3. ASSUME NEW n \in UIDs, FetchBody(n) \/ Move(n) \/ \E v \in FlagValues : Store(n, v)
      PROVE  Goal
  <2>1. told' = told /\ muted' = muted /\ view' = view /\ broken' = broken
    BY <1>3, NamedIs DEF client
  <2>. QED
    BY <1>1, <1>2, <2>1
<1>4. CASE \/ Others \/ Calmed \/ Drain \/ Select \/ BodyRead \/ StoreWrite \/ Expunge
           \/ ExpungeKeep \/ ExpungeFails \/ MoveOne
  <2>1. told' = told /\ muted' = muted /\ view' = view
    BY <1>4 DEF Others, Calmed, Drain, Select, BodyRead, StoreWrite, Expunge, Begin, ExpungeKeep,
                ExpungeFails, MoveOne, client
  <2>2. ~broken
    BY <1>4 DEF Others, Calmed, Drain, Select, BodyRead, StoreWrite, Expunge, Begin, ExpungeKeep,
                ExpungeFails, MoveOne
  <2>. QED
    BY <1>1, <1>2, <2>1, <2>2
<1>5. ASSUME ~broken, muted' = muted, told' = Known(told, mirror') \/ told' = told,
             \A i \in DOMAIN view'.entries : \E j \in 1..Len(es) : view'.entries[i] = es[j]
      PROVE  Goal
  <2>1. \A u \in UIDs : told'[u] = "unknown" \/ told'[u] = told[u]
    BY <1>5 DEF Known
  <2>. QED
    BY <1>1, <1>2, <1>5, <2>1
<1>6. CASE ExpungeEntry
  <2>1. ~broken /\ muted' = muted /\ told' = Known(told, mirror') /\ view' = view
    BY <1>6 DEF ExpungeEntry
  <2>. QED
    BY <1>1, <1>5, <2>1
<1>7. CASE ExpungeEnd
  <2>1. ~broken /\ muted' = muted /\ told' = told /\ view'.entries = cmd.kept /\ Expunging
        /\ cmd.at > Len(es)
    BY <1>1, <1>7 DEF ExpungeEnd, View, client
  <2>2. DOMAIN cmd.kept = 1..Len(cmd.kept) /\ cmd.at = Len(es) + 1
    BY <1>1, <2>1, UidsAre DEF KeptInv, Expunging, Command
  <2>3. \A i \in 1..Len(cmd.kept) : \E j \in 1..cmd.at - 1 : cmd.kept[i] = es[j]
    BY <1>1, <2>1 DEF KeptInv, Expunging
  <2>4. cmd.at - 1 = Len(es)
    BY <1>1, <2>2
  <2>. QED
    BY <1>5, <2>1, <2>2, <2>3, <2>4
<1>8. CASE MoveEnd
  <2>1. /\ cmd.op = "move" /\ cmd.pc \in {"end", "filed"} /\ ~broken /\ muted' = muted
        /\ told' = Known(told, mirror') /\ view'.entries = RemoveAt(es, MoveIndex)
    BY <1>1, <1>8 DEF MoveEnd, View
  <2>2. MoveIndex \in 1..Len(es)
    BY <1>1, <2>1, MoveIndexIs DEF ViewInv, TargetInv
  <2>. DEFINE n == MoveIndex
              fs == RemoveAt(es, n)
  <2>. HIDE DEF n
  <2>3. /\ fs \in Seq(Entry) /\ Len(fs) = Len(es) - 1
        /\ \A i \in 1..Len(es) - 1 : fs[i] = IF i < n THEN es[i] ELSE es[i + 1]
    BY <1>1, <2>2, RemoveAtIs DEF n
  <2>. HIDE DEF fs
  <2>4. \A i \in 1..Len(es) - 1 : i \in 1..Len(es) /\ i + 1 \in 1..Len(es)
    BY <1>1
  <2>5. DOMAIN fs = 1..Len(es) - 1
    BY <1>1, <2>3
  <2>6. \A i \in DOMAIN fs : \E j \in 1..Len(es) : fs[i] = es[j]
    BY <2>3, <2>4, <2>5
  <2>. QED
    BY <1>5, <2>1, <2>6 DEF fs, n
<1>9. CASE Subscribe
  <2>1. told' = [u \in UIDs |-> "unknown"] /\ view'.entries = cmd.kept
    BY <1>9 DEF Subscribe, Closed
  <2>2. \A i \in DOMAIN cmd.kept : cmd.kept[i].uid \in UIDs
    BY <1>1, UidsAre DEF Command
  <2>. QED
    BY <2>1, <2>2
<1>10. CASE Unselect
  BY <1>10 DEF Unselect, Closed
<1>11. CASE ReadDone
  <2>. DEFINE shown == {e \in ToSet(es) : cmd.op = "fetch" /\ ~e.gone}
  <2>1. /\ told' = [u \in UIDs |-> IF \E e \in shown : e.uid = u
                                   THEN (CHOOSE e \in shown : e.uid = u).flag ELSE told[u]]
        /\ muted' = muted \ {e.uid : e \in shown} /\ view' = view /\ ~broken
    BY <1>11 DEF ReadDone
  <2>2. \A e \in shown : \E j \in 1..Len(es) : e = es[j]
    BY <1>1 DEF ToSet
  <2>. HIDE DEF shown
  <2>3. ASSUME NEW i \in 1..Len(es) PROVE Agrees(es[i], told', muted')
    <3>. DEFINE u == es[i].uid
    <3>1. u \in UIDs
      BY <1>1
    <3>2. CASE \E e \in shown : e.uid = u
      <4>. DEFINE c == CHOOSE e \in shown : e.uid = u
      <4>1. c \in shown /\ c.uid = u
        BY <3>2
      <4>2. PICK j \in 1..Len(es) : c = es[j]
        BY <2>2, <4>1
      <4>3. j = i
        BY <1>1, <4>1, <4>2 DEF Distinct
      <4>4. told'[u] = c.flag
        BY <2>1, <3>1, <3>2
      <4>. QED
        BY <4>2, <4>3, <4>4
    <3>3. CASE ~\E e \in shown : e.uid = u
      <4>1. told'[u] = told[u] /\ (u \in muted => u \in muted')
        BY <2>1, <3>1, <3>3
      <4>. QED
        BY <1>2, <2>1, <4>1
    <3>. QED
      BY <3>2, <3>3
  <2>. QED
    BY <1>1, <2>1, <2>3
<1>12. CASE BodyWrite \/ StoreEnd
  <2>. DEFINE u == es[cmd.n].uid
  <2>1. /\ told' \in {[told EXCEPT ![u] = cmd.flag], [told EXCEPT ![u] = "unknown"]}
        /\ muted' = muted \ {u} /\ cmd.op \in {"body", "store"} /\ ~broken
        /\ view' = [view EXCEPT !.entries[cmd.n].flag = cmd.flag]
    <3>1. CASE BodyWrite
      BY <3>1 DEF BodyWrite
    <3>2. CASE StoreEnd
      BY <3>2 DEF StoreEnd
    <3>. QED
      BY <1>12, <3>1, <3>2
  <2>2. cmd.n \in 1..Len(es) /\ cmd.flag \in FlagValues
    BY <1>1, <2>1 DEF ViewInv, TargetInv, Command
  <2>3. /\ view' \in View /\ Len(view'.entries) = Len(es)
        /\ \A i \in 1..Len(es) : /\ view'.entries[i].uid = es[i].uid
                                 /\ view'.entries[i].flag = IF i = cmd.n THEN cmd.flag ELSE es[i].flag
    BY <1>1, <2>1, <2>2, FlagPut
  <2>4. DOMAIN view'.entries = 1..Len(es)
    BY <1>1, <2>3 DEF View
  <2>5. ASSUME NEW i \in 1..Len(es) PROVE Agrees(view'.entries[i], told', muted')
    <3>1. CASE i = cmd.n
      <4>1. u \in UIDs
        BY <1>1, <2>2
      <4>2. told'[u] = cmd.flag \/ told'[u] = "unknown"
        BY <1>1, <2>1, <4>1
      <4>. QED
        BY <2>3, <3>1, <4>2
    <3>2. CASE i # cmd.n
      <4>1. es[i].uid # u /\ es[i].uid \in UIDs
        BY <1>1, <2>2, <3>2 DEF Distinct
      <4>2. told'[es[i].uid] = told[es[i].uid]
        BY <1>1, <2>1, <4>1
      <4>3. Agrees(es[i], told, muted) /\ (es[i].uid \in muted => es[i].uid \in muted')
        BY <1>2, <2>1, <4>1
      <4>. QED
        BY <2>3, <3>2, <4>2, <4>3
    <3>. QED
      BY <3>1, <3>2
  <2>. QED
    BY <2>4, <2>5
<1>13. CASE LoadView
  <2>. DEFINE m == Mode(cmd)
              changed == {e.uid : e \in {x \in ToSet(es) : FlagChanged(x)}}
              flags == [u \in UIDs |-> IF m.writer = "all" /\ u \in changed THEN rows[u].flag ELSE told[u]]
              fs == Resynced(m).entries
  <2>1. /\ cmd.pc = "load" /\ view'.entries = fs /\ told' = Known(flags, mirror') /\ ~broken
        /\ muted' = CASE m.writer = "all" -> muted \ changed
                      [] m.writer = "expunges" -> muted \cup changed
                      [] OTHER -> muted
    BY <1>13 DEF LoadView
  <2>2. /\ fs \in Seq(Entry)
        /\ \A i \in 1..Len(fs) :
             \/ \E j \in 1..Len(es) : fs[i] = Refreshed(es[j], m)
             \/ fs[i].uid \in Arrivals
    BY <1>1, ResyncedIs
  <2>3. m.writer \in {"all", "expunges", "none"}
    BY DEF Mode
  <2>4. \A u : u \in changed <=> \E j \in 1..Len(es) : es[j].uid = u /\ FlagChanged(es[j])
    BY <1>1 DEF ToSet
  <2>5. \A u \in UIDs : told'[u] = "unknown" \/ told'[u] = flags[u]
    BY <2>1 DEF Known
  <2>6. \A u \in UIDs : flags[u] = IF m.writer = "all" /\ u \in changed THEN rows[u].flag ELSE told[u]
    OBVIOUS
  <2>. HIDE DEF changed, flags, fs, m
  <2>7. ASSUME NEW j \in 1..Len(es) PROVE Agrees(Refreshed(es[j], m), told', muted')
    <3>. DEFINE e == es[j]
                u == e.uid
    <3>1. u \in UIDs /\ Agrees(e, told, muted) /\ Refreshed(e, m).uid = u
      BY <1>1, <1>2, <2>1, RefreshedIs
    <3>2. CASE u \in LiveUIDs /\ m.writer = "none"
      <4>1. Refreshed(e, m).flag = e.flag /\ muted' = muted /\ flags[u] = told[u]
        BY <2>1, <2>6, <3>1, <3>2 DEF Refreshed
      <4>. QED
        BY <2>5, <3>1, <4>1
    <3>3. CASE u \in LiveUIDs /\ m.writer # "none"
      <4>1. Refreshed(e, m).flag = rows[u].flag /\ (FlagChanged(e) <=> e.flag # rows[u].flag)
        BY <3>3 DEF Refreshed, FlagChanged
      <4>2. CASE m.writer = "all" /\ u \in changed
        BY <2>5, <2>6, <3>1, <4>1, <4>2
      <4>3. CASE m.writer = "all" /\ u \notin changed
        <5>1. e.flag = rows[u].flag
          BY <2>4, <4>1, <4>3
        <5>2. flags[u] = told[u] /\ (u \in muted => u \in muted')
          BY <2>1, <2>6, <3>1, <4>3
        <5>. QED
          BY <2>5, <3>1, <4>1, <5>1, <5>2
      <4>4. CASE m.writer = "expunges"
        <5>1. flags[u] = told[u] /\ muted' = muted \cup changed
          BY <2>1, <2>6, <3>1, <4>4
        <5>2. e.flag = rows[u].flag \/ u \in changed
          BY <2>4, <4>1
        <5>. QED
          BY <2>5, <3>1, <4>1, <5>1, <5>2
      <4>. QED
        BY <2>3, <3>3, <4>2, <4>3, <4>4
    <3>4. CASE u \notin LiveUIDs
      <4>1. e \in Entry
        BY <1>1
      <4>2. Refreshed(e, m).flag = e.flag
        BY <3>4, <4>1 DEF Refreshed, Entry
      <4>3. u \notin changed
        BY <2>4, <3>4 DEF FlagChanged
      <4>4. flags[u] = told[u] /\ (u \in muted => u \in muted')
        BY <2>1, <2>3, <2>6, <3>1, <4>3
      <4>. QED
        BY <2>5, <3>1, <4>2, <4>4
    <3>. QED
      BY <3>2, <3>3, <3>4
  <2>8. ASSUME NEW u \in Arrivals PROVE told'[u] = "unknown"
    <3>1. u \in UIDs /\ \A j \in 1..Len(es) : es[j].uid # u
      BY <1>1, ArrivalsAre
    <3>2. mirror = Uids(es)
      BY <1>1, <2>1, NumbersAre DEF StageInv, Expunging
    <3>3. u \notin ToSet(mirror)
      <4>1. DOMAIN mirror = 1..Len(es) /\ \A j \in 1..Len(es) : mirror[j] = es[j].uid
        BY <1>1, <3>2, UidsAre
      <4>. QED
        BY <3>1, <4>1 DEF ToSet
    <3>4. told[u] = "unknown"
      BY <2>1, <3>1, <3>3 DEF ViewInv, ToldInv
    <3>5. u \notin changed
      BY <2>4, <3>1
    <3>. QED
      BY <2>5, <2>6, <3>1, <3>4, <3>5
  <2>9. DOMAIN fs = 1..Len(fs)
    BY <2>2
  <2>. QED
    BY <2>1, <2>2, <2>7, <2>8, <2>9
<1>. QED
  BY <1>3, <1>4, <1>6, <1>7, <1>8, <1>9, <1>10, <1>11, <1>12, <1>13 DEF Kinds


------------------------------------------------------------------------------
(* The invariant, and what follows from it. *)

(* No view is open at first.                                                *)
LEMMA InitView == Init => ViewInv
<1>. SUFFICES ASSUME Init PROVE ViewInv
  OBVIOUS
<1>1. /\ rows = [u \in UIDs |-> [st |-> "none", flag |-> "deleted"]] /\ wire = 0
      /\ queued = FALSE /\ stale = FALSE /\ broken = FALSE /\ view = Closed /\ cmd = Ready
      /\ mirror = <<>> /\ told = [u \in UIDs |-> "unknown"] /\ muted = {}
  BY DEF Init
<1>2. /\ rows \in [UIDs -> Row] /\ wire \in 0..MaxWire /\ view \in View
      /\ told \in [UIDs -> FlagValues \cup {"unknown"}] /\ mirror \in Seq(UIDs)
  <2>1. rows \in [UIDs -> Row]
    BY <1>1, ViewAssumption DEF Row
  <2>2. wire \in 0..MaxWire /\ told \in [UIDs -> FlagValues \cup {"unknown"}] /\ mirror \in Seq(UIDs)
    BY <1>1, ViewAssumption
  <2>3. view \in View
    BY <1>1 DEF Closed, View
  <2>. QED
    BY <2>1, <2>2, <2>3
<1>3. cmd \in Command /\ cmd.op = "none" /\ cmd.pc = "ready"
  BY <1>1, ReadyType DEF Ready
<1>4. view.open = FALSE /\ view.entries = <<>> /\ DOMAIN view.entries = {}
  BY <1>1 DEF Closed
<1>5. TypeOK
  BY <1>1, <1>2, <1>3 DEF TypeOK, View, Command
<1>6. StageInv
  BY <1>3 DEF StageInv
<1>7. DistinctInv /\ KeptInv /\ TargetInv /\ SameNumberingUnlessBroken
  BY <1>3, <1>4 DEF DistinctInv, Distinct, KeptInv, TargetInv, SameNumberingUnlessBroken
<1>8. ToldInv /\ FlagsAgreeUnlessMuted
  BY <1>1, <1>4 DEF ToldInv, FlagsAgreeUnlessMuted
<1>. QED
  BY <1>5, <1>6, <1>7, <1>8 DEF ViewInv

(* Every part is kept by every step. *)
LEMMA Inductive == Spec => []ViewInv
<1>1. ViewInv /\ [Next]_vars => ViewInv'
  BY StepKinds, StageKept, TypeKept, DistinctKept, KeptKept, TargetKept, NumbersKept, ToldKept,
     FlagsKept DEF ViewInv
<1>. QED
  BY <1>1, InitView, PTL DEF Spec

(* A client without one number keeps the others. *)
LEMMA DropOthers ==
  ASSUME NEW s \in Seq(UIDs), NEW n \in 1..Len(s), NEW i \in 1..Len(s), i # n
  PROVE  s[i] \in ToSet(DropNumber(s, n))
<1>. DEFINE r == RemoveAt(s, n)
            j == IF i < n THEN i ELSE i - 1
<1>1. DOMAIN s = 1..Len(s) /\ Len(s) \in Nat
  OBVIOUS
<1>2. /\ r \in Seq(UIDs) /\ Len(r) = Len(s) - 1
      /\ \A k \in 1..Len(s) - 1 : r[k] = IF k < n THEN s[k] ELSE s[k + 1]
  BY RemoveAtIs
<1>3. DropNumber(s, n) = r
  BY <1>1 DEF DropNumber
<1>. HIDE DEF r
<1>4. j \in 1..Len(s) - 1 /\ (IF j < n THEN j ELSE j + 1) = i
  BY <1>1
<1>. HIDE DEF j
<1>5. r[j] = s[i] /\ j \in DOMAIN r
  BY <1>2, <1>4
<1>. QED
  BY <1>3, <1>5 DEF ToSet

(* resync, poll, Expunge and Move keep the shape of the view, of the        *)
(* command and of what the client knows (view.go, session.go, copy.go), so  *)
(* that an entry always has a UID of the folder.                            *)
THEOREM TypeCorrect == Spec => []TypeOK
<1>1. ViewInv => TypeOK
  BY DEF ViewInv
<1>. QED
  BY <1>1, Inductive, PTL

(* Whatever EXPUNGE and EXISTS responses resync, Expunge and Move write, in *)
(* whatever order, client and session number the messages alike, for any    *)
(* number of messages (until an EXPUNGE fails half way).                    *)
THEOREM SameNumbers == Spec => []SameNumberingUnlessBroken
<1>1. ViewInv => SameNumberingUnlessBroken
  BY DEF ViewInv
<1>. QED
  BY <1>1, Inductive, PTL

(* What resync compares a flag with is what the client was last told, save  *)
(* where expungeOnlyWriter has swallowed the change.                        *)
THEOREM FlagsAgree == Spec => []FlagsAgreeUnlessMuted
<1>1. ViewInv => FlagsAgreeUnlessMuted
  BY DEF ViewInv
<1>. QED
  BY <1>1, Inductive, PTL

(* What a step takes from the client has left.                              *)
LEMMA ExpungeStep ==
  ASSUME ViewInv, [Next]_vars, ~broken, view.open, view'.open, cmd.pc \notin {"subscribe", "filed"},
         NEW i \in DOMAIN mirror, rows'[mirror[i]].st = "live"
  PROVE  mirror[i] \in ToSet(mirror')
<1>. DEFINE es == view.entries
            u == mirror[i]
            Goal == u \in ToSet(mirror')
<1>1. /\ TypeOK /\ StageInv /\ KeptInv /\ es \in Seq(Entry) /\ Len(es) \in Nat
      /\ DOMAIN es = 1..Len(es) /\ mirror \in Seq(UIDs) /\ rows \in [UIDs -> Row]
      /\ \A j \in 1..Len(es) : es[j].uid \in UIDs
      /\ DOMAIN mirror = 1..Len(mirror) /\ cmd \in Command
  <2>1. es \in Seq(Entry) /\ mirror \in Seq(UIDs) /\ rows \in [UIDs -> Row]
    BY DEF ViewInv, TypeOK
  <2>. QED
    BY <2>1, UidsAre DEF ViewInv, StageInv
<1>2. u \in UIDs
  BY <1>1
<1>3. CASE mirror' = mirror
  BY <1>3 DEF ToSet
<1>4. CASE LoadView
  <2>. DEFINE m == Mode(cmd)
              fs == Resynced(m).entries
  <2>1. cmd.pc = "load" /\ mirror' = Mirrored(m) /\ rows' = rows
    BY <1>4 DEF LoadView, folder
  <2>2. mirror = Uids(es)
    BY <2>1, NumbersAre DEF Expunging
  <2>3. m.exists => m.writer = "all"
    BY DEF Mode
  <2>4. i \in 1..Len(es) /\ es[i].uid = u
    BY <1>1, <2>2, UidsAre
  <2>5. Stays(es[i], m)
    BY <1>2, <2>1, <2>4 DEF Stays, LiveUIDs
  <2>. HIDE DEF m
  <2>6. mirror' = Uids(fs) /\ fs \in Seq(Entry) /\ \E k \in 1..Len(fs) : fs[k].uid = u
    BY <1>1, <2>1, <2>2, <2>3, <2>4, <2>5, MirroredIs, ResyncedIs
  <2>. HIDE DEF fs
  <2>7. DOMAIN Uids(fs) = 1..Len(fs) /\ \A k \in 1..Len(fs) : Uids(fs)[k] = fs[k].uid
    BY <2>6, UidsAre
  <2>. QED
    BY <2>6, <2>7 DEF ToSet
<1>5. ASSUME NEW n \in 1..Len(mirror), mirror' = DropNumber(mirror, n), rows'[mirror[n]].st = "gone"
      PROVE  Goal
  BY <1>1, <1>5, DropOthers
<1>6. CASE ExpungeEntry
  <2>. DEFINE kept == cmd.kept
              at == cmd.at
  <2>1. /\ Expunging /\ at <= Len(es) /\ mirror' = DropNumber(mirror, Len(kept) + 1)
        /\ rows' = [rows EXCEPT ![es[at].uid].st = "gone"]
    BY <1>6 DEF ExpungeEntry, Remaining, Current
  <2>2. at \in 1..Len(es) /\ kept \in Seq(Entry)
    BY <1>1, <2>1 DEF KeptInv, Expunging, Command
  <2>3. mirror = Rest(kept, es, at)
    BY <2>1 DEF ViewInv, SameNumberingUnlessBroken, SameNumbering, Numbering, Rest
  <2>4. Len(kept) + 1 \in 1..Len(mirror) /\ mirror[Len(kept) + 1] = es[at].uid
    BY <1>1, <2>2, <2>3, RestDrop
  <2>5. rows'[es[at].uid].st = "gone"
    BY <1>1, <2>1, <2>2 DEF Row
  <2>. QED
    BY <1>5, <2>1, <2>4, <2>5
<1>7. CASE MoveEnd
  <2>1. cmd.op = "move" /\ cmd.pc = "end" /\ mirror' = DropNumber(mirror, MoveIndex) /\ rows' = rows
    BY <1>7 DEF MoveEnd, folder
  <2>2. /\ MoveIndex \in 1..Len(es) /\ es[MoveIndex].uid = cmd.at /\ rows[cmd.at].st = "gone"
    BY <1>1, <2>1, MoveIndexIs DEF ViewInv, TargetInv
  <2>3. mirror = Uids(es)
    BY <2>1, NumbersAre DEF Expunging
  <2>4. MoveIndex \in 1..Len(mirror) /\ mirror[MoveIndex] = cmd.at
    BY <1>1, <2>2, <2>3, UidsAre
  <2>. QED
    BY <1>5, <2>1, <2>2, <2>4
<1>8. ASSUME NEW n \in UIDs, FetchBody(n) \/ Move(n) \/ \E v \in FlagValues : Store(n, v)
      PROVE  Goal
  BY <1>3, <1>8, NamedIs DEF client
<1>9. CASE \/ Others \/ Calmed \/ Drain \/ Select \/ ReadDone \/ BodyRead \/ BodyWrite \/ StoreWrite
           \/ StoreEnd \/ Expunge \/ ExpungeKeep \/ ExpungeFails \/ ExpungeEnd \/ MoveOne
  <2>1. mirror' = mirror
    BY <1>9 DEF Others, Calmed, Drain, Select, ReadDone, BodyRead, BodyWrite, StoreWrite, StoreEnd,
                Expunge, Begin, ExpungeKeep, ExpungeFails, ExpungeEnd, MoveOne, client
  <2>. QED
    BY <1>3, <2>1
<1>10. CASE Subscribe \/ Unselect
  BY <1>10 DEF Subscribe, Unselect, Closed
<1>11. Kinds
  BY StepKinds
<1>. QED
  BY <1>4, <1>6, <1>7, <1>8, <1>9, <1>10, <1>11 DEF Kinds

LEMMA ExpungeHonest == ViewInv /\ [Next]_vars => (cmd.pc # "filed" => ~FalseExpunge)
  BY ExpungeStep DEF FalseExpunge

(* An EXPUNGE response, from the loop of resync, from Expunge or from Move, *)
(* takes from the client only a message that has left the folder, but for   *)
(* the MOVE of a message of the Archive to a label.                         *)
THEOREM NoOtherFalseExpunges == Spec => NoFalseExpungeUnlessFiled
<1>1. ViewInv /\ [Next]_vars => [cmd.pc # "filed" => ~FalseExpunge]_vars
  BY ExpungeHonest
<1>. QED
  BY <1>1, Inductive, PTL DEF Spec, NoFalseExpungeUnlessFiled

(* In every folder but the Archive it never takes another (moveOne moves to *)
(* the Archive, and Move of the store returns at once if the message is     *)
(* there).                                                                  *)
THEOREM NoFalseExpunges == ASSUME ~InArchive PROVE Spec => NoFalseExpunge
<1>1. ViewInv /\ [Next]_vars => [~FalseExpunge]_vars
  BY ExpungeHonest DEF ViewInv, StageInv
<1>. QED
  BY <1>1, Inductive, PTL DEF Spec, NoFalseExpunge

(* What a step of such a command writes is what was named.                  *)
LEMMA TargetStep ==
  ASSUME ViewInv, [Next]_vars, ~broken, cmd.op \in {"body", "store", "move"}, cmd' # cmd,
         NEW u \in UIDs, rows'[u] # rows[u]
  PROVE  u = cmd.named
<1>. DEFINE es == view.entries
<1>1. /\ TypeOK /\ TargetInv /\ rows \in [UIDs -> Row]
  BY DEF ViewInv, TypeOK
<1>2. ASSUME NEW w, NEW x, rows' = [rows EXCEPT ![w] = x] PROVE u = w
  BY <1>1, <1>2
<1>3. CASE BodyWrite \/ StoreWrite
  <2>1. cmd.op \in {"body", "store"}
    BY <1>3 DEF BodyWrite, StoreWrite
  <2>2. rows' = rows \/ rows' = [rows EXCEPT ![es[cmd.n].uid].flag = cmd.flag]
    BY <1>3 DEF BodyWrite, StoreWrite, folder
  <2>3. u = es[cmd.n].uid
    BY <1>2, <2>2
  <2>. QED
    BY <1>1, <2>1, <2>3 DEF TargetInv
<1>4. CASE MoveOne
  <2>1. cmd.op = "move" /\ (rows' = rows \/ (MoveIndex # 0 /\ rows' = [rows EXCEPT ![es[MoveIndex].uid].st = "gone"]))
    BY <1>4 DEF MoveOne, folder
  <2>2. MoveIndex # 0 /\ u = es[MoveIndex].uid
    BY <1>2, <2>1
  <2>3. u = cmd.at
    BY <1>1, <2>2, MoveIndexIs
  <2>. QED
    BY <1>1, <2>1, <2>3 DEF TargetInv
<1>5. CASE Others \/ ExpungeEntry
  BY <1>5 DEF Others, ExpungeEntry, Expunging
<1>6. ASSUME NEW n \in UIDs, FetchBody(n) \/ Move(n) \/ \E v \in FlagValues : Store(n, v)
      PROVE  FALSE
  BY <1>6, NamedIs
<1>7. CASE \/ Calmed \/ Drain \/ LoadView \/ Select \/ Subscribe \/ Unselect \/ ReadDone \/ BodyRead
           \/ StoreEnd \/ Expunge \/ ExpungeKeep \/ ExpungeFails \/ ExpungeEnd \/ MoveEnd
  <2>1. rows' = rows
    BY <1>7 DEF Calmed, Drain, LoadView, Select, Subscribe, Unselect, ReadDone, BodyRead, StoreEnd,
                Expunge, Begin, ExpungeKeep, ExpungeFails, ExpungeEnd, MoveEnd, folder
  <2>. QED
    BY <2>1
<1>8. Kinds
  BY StepKinds
<1>. QED
  BY <1>3, <1>4, <1>5, <1>6, <1>7, <1>8 DEF Kinds

(* FETCH, STORE and MOVE by sequence number write the message the client    *)
(* meant: the view they resolve the number in is not renumbered first, and  *)
(* Move looks its message up by UID again.                                  *)
THEOREM RightTargets == Spec => RightTarget
<1>1. ViewInv /\ [Next]_vars =>
        [~broken /\ cmd.op \in {"body", "store", "move"} /\ cmd' # cmd =>
           \A u \in UIDs : rows'[u] # rows[u] => u = cmd.named]_vars
  BY TargetStep
<1>. QED
  BY <1>1, Inductive, PTL DEF Spec, RightTarget

==============================================================================
