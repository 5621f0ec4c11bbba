------------------------ MODULE InboundDeliveryProofs ------------------------
(***************************************************************************)
(* What InboundDelivery and MailboxLifecycle promise for any mailboxes,    *)
(* addresses and routes, any quotas and limits, and any number of faults.  *)
(***************************************************************************)
EXTENDS InboundDelivery, TLAPS

------------------------------------------------------------------------------
(* Types. *)

(* Every operation on mailboxes leaves them well formed. *)
LEMMA LifeType == LifeTypeOK /\ LifeNext => LifeTypeOK'
<1>. SUFFICES ASSUME LifeTypeOK, LifeNext PROVE LifeTypeOK'
  OBVIOUS
<1>a. /\ mbox \in [Mailboxes -> MailboxRow] /\ copies \in [Mailboxes -> Nat] /\ purge \in [Purgers -> Purge]
      /\ faults \in Nat /\ purging \subseteq Mailboxes /\ raced \subseteq Mailboxes
  BY DEF LifeTypeOK
<1>p. "cleanup" \in Purgers /\ "request" \in Purgers
  BY DEF Purgers
<1>1. ASSUME NEW m \in Mailboxes, DeleteMailbox(m) \/ RestoreMailbox(m) \/ UpdateMailbox(m) PROVE LifeTypeOK'
  <2>1. mbox' \in [Mailboxes -> MailboxRow]
    <3>1. CASE DeleteMailbox(m)
      BY <1>a, <3>1, ZenonT(60) DEF DeleteMailbox, MailboxRow
    <3>2. CASE RestoreMailbox(m)
      BY <1>a, <3>2, ZenonT(60) DEF RestoreMailbox, MailboxRow
    <3>3. CASE UpdateMailbox(m)
      <4>1. PICK s \in {"active", "disabled"} : mbox' = [mbox EXCEPT ![m].status = s]
        BY <3>3 DEF UpdateMailbox
      <4>. QED
        BY <1>a, <4>1 DEF MailboxRow
    <3>. QED
      BY <1>1, <3>1, <3>2, <3>3
  <2>2. faults' \in Nat /\ UNCHANGED <<copies, purge, purging, raced>>
    BY <1>1, <1>a DEF DeleteMailbox, RestoreMailbox, UpdateMailbox, Fault
  <2>. QED
    BY <1>a, <2>1, <2>2 DEF LifeTypeOK
<1>2. ASSUME NEW m \in Mailboxes, Age(m) PROVE LifeTypeOK'
  <2>1. mbox' \in [Mailboxes -> MailboxRow]
    BY <1>a, <1>2 DEF Age, MailboxRow
  <2>. QED
    BY <1>a, <1>2, <2>1 DEF LifeTypeOK, Age
<1>3. ASSUME NEW m \in Mailboxes, PurgeNext(m) \/ HardDelete(m) PROVE LifeTypeOK'
  <2>1. purge' \in [Purgers -> Purge]
    BY <1>a, <1>p, <1>3 DEF PurgeNext, HardDelete, Purge
  <2>2. faults' \in Nat /\ UNCHANGED <<mbox, copies, purging, raced>>
    BY <1>a, <1>3 DEF PurgeNext, HardDelete, Fault
  <2>. QED
    BY <1>a, <2>1, <2>2 DEF LifeTypeOK
<1>4. ASSUME ListDeleted PROVE LifeTypeOK'
  <2>1. purge' \in [Purgers -> Purge]
    BY <1>a, <1>p, <1>4 DEF ListDeleted, Purge
  <2>. QED
    BY <1>a, <1>4, <2>1 DEF LifeTypeOK, ListDeleted
<1>5. ASSUME NEW p \in Purgers, PurgeItems(p) PROVE LifeTypeOK'
  <2>1. purge' \in [Purgers -> Purge] /\ purge[p].of \in Mailboxes
    BY <1>a, <1>5 DEF PurgeItems, Purge
  <2>2. copies' \in [Mailboxes -> Nat]
    BY <1>a, <1>5, <2>1 DEF PurgeItems
  <2>. QED
    BY <1>a, <1>5, <2>1, <2>2 DEF LifeTypeOK, PurgeItems
<1>6. ASSUME NEW p \in Purgers, PurgeFolders(p) PROVE LifeTypeOK'
  <2>1. purge' \in [Purgers -> Purge] /\ purge[p].of \in Mailboxes
    BY <1>a, <1>6 DEF PurgeFolders, Purge
  <2>2. mbox' \in [Mailboxes -> MailboxRow]
    BY <1>a, <1>6, <2>1, ZenonT(60) DEF PurgeFolders, MailboxRow
  <2>. QED
    BY <1>a, <1>6, <2>1, <2>2 DEF LifeTypeOK, PurgeFolders
<1>8. ASSUME NEW p \in Purgers, PurgeRow(p) PROVE LifeTypeOK'
  <2>1. purge' \in [Purgers -> Purge] /\ purge[p].of \in Mailboxes
    BY <1>a, <1>8 DEF PurgeRow, Purge
  <2>2. mbox' \in [Mailboxes -> MailboxRow]
    BY <1>a, <1>8, <2>1 DEF PurgeRow, MailboxRow
  <2>. QED
    BY <1>a, <1>8, <2>1, <2>2 DEF LifeTypeOK, PurgeRow
<1>7. ASSUME NEW p \in Purgers, PurgeFails(p) PROVE LifeTypeOK'
  <2>1. purge' \in [Purgers -> Purge]
    BY <1>a, <1>7 DEF PurgeFails, Purge
  <2>. QED
    BY <1>a, <1>7, <2>1 DEF LifeTypeOK, PurgeFails, Fault
<1>. QED
  BY <1>1, <1>2, <1>3, <1>4, <1>5, <1>6, <1>7, <1>8 DEF LifeNext, PurgeStep

(* The constants of this module, one by one. *)
LEMMA Constants ==
  /\ Verp \subseteq Addresses /\ Tagged \subseteq Addresses /\ Quota \in [Mailboxes -> Nat]
  /\ MailboxOf \in [Addresses -> SUBSET Mailboxes] /\ BaseOf \in [Addresses -> SUBSET Mailboxes]
  /\ RouteOf \in [Addresses -> SUBSET Mailboxes] /\ BaseRoute \in [Addresses -> SUBSET Mailboxes]
  /\ PatternOf \in [Addresses -> SUBSET Mailboxes] /\ CatchAll \in SUBSET Mailboxes
  /\ Size \in Nat /\ Headers \in Nat /\ Burst \in Nat /\ MaxBounceRecipients \in Nat
  /\ Stored \in Nat
<1>1. Size \in Nat /\ Headers \in Nat
  BY InboundAssumption
<1>. QED
  BY <1>1, InboundAssumption, MailboxAssumption DEF Stored

(* The stages of the resolver are four or five sets of mailboxes. *)
LEMMA StagesType ==
  ASSUME NEW a \in Addresses
  PROVE  /\ DOMAIN Stages(a) = 1..Len(Stages(a)) /\ Len(Stages(a)) \in {4, 5}
         /\ \A i \in DOMAIN Stages(a) : Stages(a)[i] \subseteq Mailboxes
<1>0. /\ MailboxOf[a] \in SUBSET Mailboxes /\ BaseOf[a] \in SUBSET Mailboxes /\ RouteOf[a] \in SUBSET Mailboxes
      /\ BaseRoute[a] \in SUBSET Mailboxes /\ PatternOf[a] \in SUBSET Mailboxes /\ CatchAll \in SUBSET Mailboxes
  BY Constants
<1>1. CASE a \in Tagged
  <2>1. Stages(a) = <<RouteOf[a], BaseOf[a], BaseRoute[a]>> \o <<PatternOf[a], CatchAll>>
    BY <1>1 DEF Stages
  <2>2. /\ DOMAIN Stages(a) = 1..5 /\ Len(Stages(a)) = 5
        /\ Stages(a)[1] = RouteOf[a] /\ Stages(a)[2] = BaseOf[a] /\ Stages(a)[3] = BaseRoute[a]
        /\ Stages(a)[4] = PatternOf[a] /\ Stages(a)[5] = CatchAll
    BY <2>1
  <2>3. \A i \in 1..5 : i = 1 \/ i = 2 \/ i = 3 \/ i = 4 \/ i = 5
    OBVIOUS
  <2>. QED
    BY <1>0, <2>2, <2>3
<1>2. CASE a \notin Tagged
  <2>1. Stages(a) = <<MailboxOf[a], RouteOf[a]>> \o <<PatternOf[a], CatchAll>>
    BY <1>2 DEF Stages
  <2>2. /\ DOMAIN Stages(a) = 1..4 /\ Len(Stages(a)) = 4
        /\ Stages(a)[1] = MailboxOf[a] /\ Stages(a)[2] = RouteOf[a]
        /\ Stages(a)[3] = PatternOf[a] /\ Stages(a)[4] = CatchAll
    BY <2>1
  <2>3. \A i \in 1..4 : i = 1 \/ i = 2 \/ i = 3 \/ i = 4
    OBVIOUS
  <2>. QED
    BY <1>0, <2>2, <2>3
<1>. QED
  BY <1>1, <1>2

(* No session at all is well formed. *)
LEMMA NoSessionType ==
  /\ NoSession \in Session /\ NoSession.pc = "idle" /\ NoSession.verp = {} /\ NoSession.tried = {}
  /\ NoSession.asked = {} /\ NoSession.stage = 1 /\ NoSession.accepted = 0 /\ \A a \in Addresses : NoSession.rcpt[a] = {}
<1>1. [a \in Addresses |-> {}] \in [Addresses -> SUBSET Mailboxes]
  OBVIOUS
<1>. QED
  BY <1>1 DEF NoSession, Session

(* What a step does to the session: MAIL begins one, ... *)
Begun == \E n \in Nat : session' = [NoSession EXCEPT !.pc = "rcpt", !.size = n]

(* ... which is well formed. *)
LEMMA BegunIs ==
  ASSUME Begun
  PROVE  /\ session' \in Session /\ session'.pc = "rcpt" /\ session'.verp = {} /\ session'.tried = {}
         /\ session'.asked = {} /\ session'.stage = 1
         /\ \A a \in Addresses : session'.rcpt[a] = {}
<1>1. PICK n \in Nat : session' = [NoSession EXCEPT !.pc = "rcpt", !.size = n]
  BY DEF Begun
<1>. QED
  BY <1>1, NoSessionType DEF Session

(* ... and the stages of DATA move it on. *)
MovesTo(pc) == session' = [session EXCEPT !.pc = pc]

(* Only where the session is changes. *)
LEMMA MovesToIs ==
  ASSUME session \in Session, NEW pc \in {"record", "spam", "pending", "attach", "reply"}, MovesTo(pc)
  PROVE  /\ session' \in Session /\ session'.pc = pc /\ session'.verp = session.verp /\ session'.tried = session.tried
         /\ session'.rcpt = session.rcpt /\ session'.pending = session.pending /\ Targets' = Targets
         /\ session'.asked = session.asked /\ session'.stage = session.stage
<1>1. /\ session' \in Session /\ session'.pc = pc /\ session'.verp = session.verp /\ session'.tried = session.tried
      /\ session'.rcpt = session.rcpt /\ session'.pending = session.pending
      /\ session'.asked = session.asked /\ session'.stage = session.stage
  BY DEF MovesTo, Session
<1>. QED
  BY <1>1 DEF Targets

(* The mailboxes as they are for everything but the life cycle. *)
SameLife == UNCHANGED <<mbox, copies, purge, purging, raced>>

(* An address that is accepted, ... *)
LEMMA AcceptIs ==
  ASSUME session \in Session, tokens \in Nat, NEW a \in Addresses, NEW boxes \in SUBSET Mailboxes,
         Chargeable, Accept(a, boxes)
  PROVE  /\ session' \in Session /\ session'.pc = "rcpt" /\ session'.tried = session.tried \cup {a}
         /\ session'.asked = {} /\ session'.stage = 1
         /\ session'.verp = IF a \in Verp THEN session.verp \cup {a} ELSE session.verp
         /\ session'.rcpt[a] = boxes /\ \A b \in Addresses \ {a} : session'.rcpt[b] = session.rcpt[b]
         /\ tokens' \in Nat /\ want' = want /\ refused' = refused
<1>1. session' = [session EXCEPT !.pc = "rcpt", !.asked = {}, !.stage = 1,
                                 !.tried = session.tried \cup {a}, !.accepted = session.accepted + 1,
                                 !.rcpt = [session.rcpt EXCEPT ![a] = boxes],
                                 !.verp = IF a \in Verp THEN session.verp \cup {a} ELSE session.verp]
  BY DEF Accept, Answered, Session
<1>2. /\ session.tried \cup {a} \in SUBSET Addresses /\ session.accepted + 1 \in Nat
      /\ [session.rcpt EXCEPT ![a] = boxes] \in [Addresses -> SUBSET Mailboxes]
      /\ (IF a \in Verp THEN session.verp \cup {a} ELSE session.verp) \in SUBSET Addresses
  BY DEF Session
<1>3. /\ session' \in Session /\ session'.pc = "rcpt" /\ session'.tried = session.tried \cup {a}
      /\ session'.asked = {} /\ session'.stage = 1
      /\ session'.verp = IF a \in Verp THEN session.verp \cup {a} ELSE session.verp
      /\ session'.rcpt = [session.rcpt EXCEPT ![a] = boxes]
  BY <1>1, <1>2 DEF Session
<1>4. session'.rcpt[a] = boxes /\ \A b \in Addresses \ {a} : session'.rcpt[b] = session.rcpt[b]
  BY <1>3 DEF Session
<1>5. tokens' \in Nat
  BY DEF Accept, Chargeable
<1>. QED
  BY <1>3, <1>4, <1>5 DEF Accept

(* ... and one that is not. *)
LEMMA DeferIs ==
  ASSUME session \in Session, NEW a \in Addresses, Defer(a) \/ Refuse(a)
  PROVE  /\ session' \in Session /\ session'.pc = "rcpt" /\ session'.tried = session.tried \cup {a}
         /\ session'.asked = {} /\ session'.stage = 1
         /\ session'.verp = session.verp /\ session'.rcpt = session.rcpt /\ tokens' = tokens
<1>1. session' = Answered(a) /\ tokens' = tokens
  BY DEF Defer, Refuse
<1>. QED
  BY <1>1 DEF Answered, Session

(* What the search for an address has seen so far: no earlier stage had a   *)
(* mailbox that is active to this day, and none has been active all the     *)
(* time among the ones that are not active now.                             *)
Searching(a) ==
  /\ session.asked = {a} /\ a \notin Verp
  /\ session.stage \in DOMAIN Stages(a)
  /\ \A i \in DOMAIN Stages(a) : i < session.stage => Stages(a)[i] \cap steady = {}

SearchInv ==
  /\ \A m \in steady : Active(m)
  /\ IF session.pc = "resolve" THEN \E a \in Addresses : Searching(a) ELSE session.asked = {} /\ session.stage = 1

(* RCPT of a bounce address accepts, defers or refuses it. *)
LEMMA BounceStep ==
  ASSUME NEW a \in Addresses, RcptBounce(a), faults \in Nat
  PROVE  /\ session.pc = "rcpt" /\ a \in want \ session.tried /\ a \in Verp /\ faults' \in Nat
         /\ SameLife /\ UNCHANGED <<bounces, acked, lost, retold, steady>>
         /\ (Chargeable /\ Accept(a, {})) \/ Defer(a) \/ Refuse(a)
<1>1. /\ session.pc = "rcpt" /\ a \in want \ session.tried /\ a \in Verp
      /\ SameLife /\ UNCHANGED <<bounces, acked, lost, retold, steady>>
  BY DEF RcptBounce, RcptVars, SameLife
<1>2. faults' \in Nat
  BY DEF RcptBounce, Fault
<1>3. (Chargeable /\ Accept(a, {})) \/ Defer(a) \/ Refuse(a)
  BY DEF RcptBounce
<1>. QED
  BY <1>1, <1>2, <1>3

(* RCPT of any other begins a search. *)
LEMMA SearchBegins ==
  ASSUME session \in Session, NEW a \in Addresses, Rcpt(a)
  PROVE  /\ session.pc = "rcpt" /\ a \in want \ session.tried /\ a \notin Verp
         /\ SameLife /\ UNCHANGED <<faults, want, tokens, refused, bounces, acked, lost, retold>>
         /\ session' \in Session /\ session'.pc = "resolve" /\ session'.asked = {a}
         /\ session'.stage = session.stage /\ session'.rcpt = session.rcpt
         /\ session'.verp = session.verp /\ session'.tried = session.tried
         /\ steady' = {m \in Mailboxes : Active(m)}
<1>1. /\ session.pc = "rcpt" /\ a \in want \ session.tried /\ a \notin Verp
      /\ SameLife /\ UNCHANGED <<faults, want, tokens, refused, bounces, acked, lost, retold>>
      /\ steady' = {m \in Mailboxes : Active(m)}
  BY DEF Rcpt, RcptVars, SameLife
<1>2. session' = [session EXCEPT !.pc = "resolve", !.asked = {a}]
  BY DEF Rcpt
<1>3. /\ session' \in Session /\ session'.pc = "resolve" /\ session'.asked = {a}
      /\ session'.stage = session.stage /\ session'.rcpt = session.rcpt
      /\ session'.verp = session.verp /\ session'.tried = session.tried
  BY <1>2 DEF Session
<1>. QED
  BY <1>1, <1>3

(* The search passes on to the next stage. *)
PassesOn(a) ==
  /\ Kept(Stages(a)[session.stage]) = {} /\ session.stage + 1 \in DOMAIN Stages(a)
  /\ session' = [session EXCEPT !.stage = @ + 1]
  /\ UNCHANGED <<want, tokens, refused, steady>>

(* All else stays as it was, and the search goes on for the same address. *)
LEMMA PassesOnIs ==
  ASSUME session \in Session, NEW a \in Addresses, PassesOn(a)
  PROVE  /\ session' \in Session /\ session'.pc = session.pc /\ session'.asked = session.asked
         /\ session'.stage = session.stage + 1 /\ session'.rcpt = session.rcpt
         /\ session'.verp = session.verp /\ session'.tried = session.tried
BY DEF PassesOn, Session

(* A query passes on, or ends the search; with a refusal only if it was the *)
(* last and nothing was there all the time.                                 *)
LEMMA StageOfSearch ==
  ASSUME SearchInv, session \in Session, NEW a \in Addresses, ResolveStage(a), faults \in Nat
  PROVE  /\ session.pc = "resolve" /\ Searching(a) /\ faults' \in Nat
         /\ SameLife /\ UNCHANGED <<bounces, acked, lost, retold>>
         /\ \/ PassesOn(a)
            \/ /\ steady' = {}
               /\ \/ Chargeable /\ \E boxes \in SUBSET Mailboxes : Accept(a, boxes)
                  \/ Defer(a)
                  \/ Refuse(a) /\ \A i \in DOMAIN Stages(a) : Stages(a)[i] \cap steady = {}
<1>1. /\ session.pc = "resolve" /\ a \in session.asked
      /\ SameLife /\ UNCHANGED <<bounces, acked, lost, retold>>
  BY DEF ResolveStage, RcptVars, SameLife
<1>2. Searching(a)
  <2>1. PICK b \in Addresses : Searching(b)
    BY <1>1 DEF SearchInv
  <2>2. a = b
    BY <1>1, <2>1 DEF Searching
  <2>. QED
    BY <2>1, <2>2
<1>3. faults' \in Nat
  BY DEF ResolveStage, Fault
<1>. DEFINE found == Kept(Stages(a)[session.stage])
            boxes == {m \in found : HasRoom(m, session.size)}
            last  == session.stage = Len(Stages(a))
<1>4. \/ /\ found = {} /\ ~last /\ session' = [session EXCEPT !.stage = @ + 1]
         /\ UNCHANGED <<want, tokens, refused, steady>>
      \/ steady' = {} /\ found = {} /\ last /\ Refuse(a)
      \/ steady' = {} /\ Chargeable /\ Accept(a, boxes)
      \/ steady' = {} /\ Defer(a)
  BY DEF ResolveStage
<1>5. /\ session.stage \in DOMAIN Stages(a) /\ DOMAIN Stages(a) = 1..Len(Stages(a))
      /\ Len(Stages(a)) \in {4, 5} /\ Stages(a)[session.stage] \subseteq Mailboxes
  BY <1>2, StagesType DEF Searching
<1>6. ~last => session.stage + 1 \in DOMAIN Stages(a)
  BY <1>5
<1>7. boxes \in SUBSET Mailboxes
  BY <1>5 DEF Kept
<1>8. ASSUME found = {}, last, NEW i \in DOMAIN Stages(a) PROVE Stages(a)[i] \cap steady = {}
  <2>1. CASE i < session.stage
    BY <1>2, <2>1 DEF Searching
  <2>2. CASE i = session.stage
    BY <1>8, <2>2 DEF Kept, SearchInv
  <2>3. i < session.stage \/ i = session.stage
    BY <1>5, <1>8
  <2>. QED
    BY <2>1, <2>2, <2>3
<1>9. \/ PassesOn(a)
      \/ /\ steady' = {}
         /\ \/ Chargeable /\ \E bs \in SUBSET Mailboxes : Accept(a, bs)
            \/ Defer(a)
            \/ Refuse(a) /\ \A i \in DOMAIN Stages(a) : Stages(a)[i] \cap steady = {}
  <2>. HIDE DEF boxes
  <2>1. CASE found = {} /\ ~last /\ session' = [session EXCEPT !.stage = @ + 1]
             /\ UNCHANGED <<want, tokens, refused, steady>>
    BY <1>6, <2>1 DEF PassesOn
  <2>2. CASE steady' = {} /\ found = {} /\ last /\ Refuse(a)
    BY <1>8, <2>2
  <2>3. CASE steady' = {} /\ Chargeable /\ Accept(a, boxes)
    BY <1>7, <2>3
  <2>. QED
    BY <1>4, <2>1, <2>2, <2>3
<1>. QED
  BY <1>1, <1>2, <1>3, <1>9

(* The stages of DATA other than the transaction: the session moves on,     *)
(* ends for some addresses, or fails.                                       *)
LEMMA StageStep ==
  ASSUME faults \in Nat, Data \/ Record \/ CheckSpam \/ Pending \/ Reply
  PROVE  /\ SameLife /\ faults' \in Nat /\ UNCHANGED <<tokens, refused, steady>>
         /\ Reply \/ (acked' = acked /\ lost' = lost)
         /\ Record \/ bounces' = bounces
<1>1. CASE Data
  BY <1>1 DEF Data, lifeVars, SameLife
<1>2. CASE Record
  BY <1>2 DEF Record, SameLife, Fault
<1>3. CASE CheckSpam
  BY <1>3 DEF CheckSpam, SameLife, Fault
<1>4. CASE Pending
  BY <1>4 DEF Pending, SameLife, Fault
<1>5. CASE Reply
  BY <1>5 DEF Reply, SameLife, Fault
<1>. QED
  BY <1>1, <1>2, <1>3, <1>4, <1>5

(* A well formed state is left by every step to a well formed one. *)
LEMMA NextType == TypeOK /\ SearchInv /\ [Next]_vars => TypeOK'
<1>. SUFFICES ASSUME TypeOK, SearchInv, [Next]_vars PROVE TypeOK'
  OBVIOUS
<1>a. /\ LifeTypeOK /\ want \subseteq Addresses /\ session \in Session /\ tokens \in Nat /\ faults \in Nat
      /\ bounces \in [Verp -> 0..2] /\ refused \subseteq Addresses /\ retold \subseteq Addresses
      /\ acked \in [Mailboxes -> Nat] /\ lost \in [Mailboxes -> Nat] /\ steady \subseteq Mailboxes
  BY DEF TypeOK, LifeTypeOK
<1>v. session.verp \subseteq Addresses
  BY <1>a DEF Session
<1>u. ASSUME SameLife, faults' \in Nat PROVE LifeTypeOK'
  BY <1>a, <1>u DEF LifeTypeOK, SameLife
<1>f. ASSUME Fails PROVE session' \in Session /\ want' \subseteq Addresses /\ retold' \subseteq Addresses
  BY <1>a, <1>v, <1>f, NoSessionType DEF Fails, Ends
<1>e. ASSUME NEW S, Ends(S) PROVE session' \in Session /\ want' \subseteq Addresses
  BY <1>a, <1>e, NoSessionType DEF Ends
<1>m. ASSUME NEW pc \in {"record", "spam", "pending", "attach", "reply"}, MovesTo(pc) PROVE session' \in Session
  BY <1>a, <1>m, MovesToIs
<1>1. ASSUME Meanwhile PROVE TypeOK'
  <2>1. LifeNext /\ steady' \subseteq Mailboxes /\ UNCHANGED <<want, session, tokens, bounces, refused, acked, lost, retold>>
    BY <1>a, <1>1 DEF Meanwhile, Beside
  <2>. QED
    BY <1>a, <2>1, LifeType DEF TypeOK
<1>2. ASSUME Mail PROVE TypeOK'
  <2>1. Begun /\ tokens' \in Nat
    <3>1. PICK n \in {0, Size} : session' = [NoSession EXCEPT !.pc = "rcpt", !.size = n]
      BY <1>2 DEF Mail
    <3>2. n \in Nat
      BY Constants
    <3>3. tokens' \in Nat
      BY <1>a, <1>2 DEF Mail
    <3>. QED
      BY <3>1, <3>2, <3>3 DEF Begun
  <2>2. SameLife /\ faults' = faults
    BY <1>2 DEF Mail, SameLife, lifeVars
  <2>3. UNCHANGED <<want, bounces, refused, acked, lost, retold, steady>>
    BY <1>2 DEF Mail
  <2>. QED
    BY <1>a, <1>u, <2>1, <2>2, <2>3, BegunIs DEF TypeOK
<1>r. ASSUME NEW a \in Addresses, Chargeable,
             Defer(a) \/ Refuse(a) \/ \E boxes \in SUBSET Mailboxes : Accept(a, boxes)
      PROVE  session' \in Session /\ tokens' \in Nat /\ want' \subseteq Addresses /\ refused' \subseteq Addresses
  <2>1. CASE Defer(a) \/ Refuse(a)
    <3>1. want' \subseteq Addresses /\ refused' \subseteq Addresses
      BY <1>a, <2>1 DEF Defer, Refuse
    <3>. QED
      BY <1>a, <2>1, <3>1, DeferIs
  <2>2. ASSUME NEW boxes \in SUBSET Mailboxes, Accept(a, boxes)
        PROVE  session' \in Session /\ tokens' \in Nat /\ want' \subseteq Addresses /\ refused' \subseteq Addresses
    BY <1>a, <1>r, <2>2, AcceptIs
  <2>. QED
    BY <1>r, <2>1, <2>2
<1>d. ASSUME NEW a \in Addresses, Defer(a) \/ Refuse(a)
      PROVE  session' \in Session /\ tokens' \in Nat /\ want' \subseteq Addresses /\ refused' \subseteq Addresses
  <2>1. want' \subseteq Addresses /\ refused' \subseteq Addresses
    BY <1>a, <1>d DEF Defer, Refuse
  <2>. QED
    BY <1>a, <1>d, <2>1, DeferIs
<1>3. ASSUME NEW a \in Addresses, RcptBounce(a) PROVE TypeOK'
  <2>1. faults' \in Nat /\ SameLife /\ UNCHANGED <<bounces, acked, lost, retold, steady>>
    BY <1>a, <1>3, BounceStep
  <2>2. session' \in Session /\ tokens' \in Nat /\ want' \subseteq Addresses /\ refused' \subseteq Addresses
    BY <1>a, <1>3, <1>r, <1>d, BounceStep
  <2>. QED
    BY <1>a, <1>u, <2>1, <2>2 DEF TypeOK
<1>9. ASSUME NEW a \in Addresses, Rcpt(a) PROVE TypeOK'
  <2>1. /\ SameLife /\ UNCHANGED <<faults, want, tokens, refused, bounces, acked, lost, retold>>
        /\ session' \in Session /\ steady' \subseteq Mailboxes
    BY <1>a, <1>9, SearchBegins
  <2>. QED
    BY <1>a, <1>u, <2>1 DEF TypeOK
<1>10. ASSUME NEW a \in Addresses, ResolveStage(a) PROVE TypeOK'
  <2>1. faults' \in Nat /\ SameLife /\ UNCHANGED <<bounces, acked, lost, retold>>
    BY <1>a, <1>10, StageOfSearch
  <2>2. /\ session' \in Session /\ tokens' \in Nat /\ want' \subseteq Addresses /\ refused' \subseteq Addresses
        /\ steady' \subseteq Mailboxes
    <3>1. CASE PassesOn(a)
      <4>1. UNCHANGED <<want, tokens, refused, steady>>
        BY <3>1 DEF PassesOn
      <4>. QED
        BY <1>a, <3>1, <4>1, PassesOnIs
    <3>2. CASE ~PassesOn(a)
      <4>1. /\ steady' = {}
            /\ \/ Chargeable /\ \E boxes \in SUBSET Mailboxes : Accept(a, boxes)
               \/ Defer(a) \/ Refuse(a)
        BY <1>a, <1>10, <3>2, StageOfSearch
      <4>. QED
        BY <1>r, <1>d, <4>1
    <3>. QED
      BY <3>1, <3>2
  <2>. QED
    BY <1>a, <1>u, <2>1, <2>2 DEF TypeOK
<1>4. ASSUME Data \/ Record \/ CheckSpam \/ Pending \/ Reply PROVE TypeOK'
  <2>1. /\ SameLife /\ faults' \in Nat /\ UNCHANGED <<tokens, refused, steady>>
        /\ Reply \/ (acked' = acked /\ lost' = lost)
        /\ Record \/ bounces' = bounces
    BY <1>a, <1>4, StageStep
  <2>2. session' \in Session /\ want' \subseteq Addresses /\ retold' \subseteq Addresses
    <3>1. CASE Data
      BY <1>a, <1>e, <1>m, <3>1 DEF Data, MovesTo
    <3>2. CASE Record
      BY <1>a, <1>e, <1>f, <1>m, <3>2 DEF Record, MovesTo
    <3>3. CASE CheckSpam
      BY <1>a, <1>e, <1>f, <1>m, <3>3 DEF CheckSpam, MovesTo
    <3>4. CASE Pending
      <4>1. CASE session' = [session EXCEPT !.pc = "attach", !.pending = Targets] /\ UNCHANGED <<want, retold>>
        <5>1. Targets \in SUBSET Mailboxes
          BY <1>a DEF Targets, Session
        <5>. QED
          BY <1>a, <4>1, <5>1 DEF Session
      <4>. QED
        BY <1>f, <3>4, <4>1 DEF Pending
    <3>5. CASE Reply
      BY <1>a, <1>e, <1>f, <3>5 DEF Reply
    <3>. QED
      BY <1>4, <3>1, <3>2, <3>3, <3>4, <3>5
  <2>3. acked' \in [Mailboxes -> Nat] /\ lost' \in [Mailboxes -> Nat]
    <3>1. CASE Reply
      BY <1>a, <3>1 DEF Reply
    <3>. QED
      BY <1>a, <2>1, <3>1
  <2>4. bounces' \in [Verp -> 0..2]
    <3>1. CASE Record
      <4>1. \A a \in Verp : Upto2(bounces[a] + IF a \in session.verp THEN 1 ELSE 0) \in 0..2
        BY <1>a DEF Upto2
      <4>. QED
        BY <1>a, <3>1, <4>1 DEF Record, NewBounces
    <3>. QED
      BY <1>a, <2>1, <3>1
  <2>. QED
    BY <1>a, <1>u, <2>1, <2>2, <2>3, <2>4 DEF TypeOK
<1>5. ASSUME Attach PROVE TypeOK'
  <2>1. mbox' \in [Mailboxes -> MailboxRow] /\ copies' \in [Mailboxes -> Nat]
    <3>1. /\ mbox' = [m \in Mailboxes |-> IF m \in Attached THEN [mbox[m] EXCEPT !.used = @ + Stored] ELSE mbox[m]]
          /\ copies' = [m \in Mailboxes |-> copies[m] + IF m \in Attached THEN 1 ELSE 0]
      BY <1>5 DEF Attach
    <3>2. mbox \in [Mailboxes -> MailboxRow] /\ copies \in [Mailboxes -> Nat]
      BY <1>a DEF LifeTypeOK
    <3>3. \A m \in Mailboxes : [mbox[m] EXCEPT !.used = @ + Stored] \in MailboxRow
      BY <3>2, Constants, SMTT(30) DEF MailboxRow
    <3>. QED
      BY <3>1, <3>2, <3>3
  <2>2. raced' \subseteq Mailboxes
    <3>1. session.pending \subseteq Mailboxes /\ raced \subseteq Mailboxes
      BY <1>a DEF Session, LifeTypeOK
    <3>. QED
      BY <1>5, <3>1 DEF Attach, Attached
  <2>3. UNCHANGED <<purge, faults, purging, tokens, bounces, refused, acked, lost, steady>>
    BY <1>5 DEF Attach
  <2>4. session' \in Session /\ want' \subseteq Addresses /\ retold' \subseteq Addresses
    BY <1>a, <1>f, <1>m, <1>5 DEF Attach, MovesTo
  <2>. QED
    BY <1>a, <2>1, <2>2, <2>3, <2>4 DEF TypeOK, LifeTypeOK
<1>6. ASSUME Refill PROVE TypeOK'
  BY <1>a, <1>6 DEF Refill, TypeOK, LifeTypeOK, lifeVars
<1>7. ASSUME NEW m \in Mailboxes, OtherMail(m) PROVE TypeOK'
  <2>0. mbox \in [Mailboxes -> MailboxRow] /\ copies[m] \in Nat /\ Stored \in Nat /\ mbox[m].used \in Nat
    BY <1>a, Constants DEF LifeTypeOK, MailboxRow
  <2>1. PICK used \in {mbox[m].used - 1, mbox[m].used + 1} :
          used >= copies[m] * Stored /\ mbox' = [mbox EXCEPT ![m].used = used]
    BY <1>7 DEF OtherMail
  <2>2. used \in Nat
    <3>1. copies[m] * Stored \in Nat
      BY <2>0
    <3>. QED
      BY <2>0, <2>1, <3>1
  <2>3. mbox' \in [Mailboxes -> MailboxRow]
    BY <2>0, <2>1, <2>2 DEF MailboxRow
  <2>4. UNCHANGED <<copies, purge, faults, purging, raced, inVars>>
    BY <1>7 DEF OtherMail
  <2>. QED
    BY <1>a, <2>3, <2>4 DEF TypeOK, LifeTypeOK, inVars
<1>8. ASSUME UNCHANGED vars PROVE TypeOK'
  BY <1>a, <1>8 DEF vars, lifeVars, inVars, TypeOK, LifeTypeOK
<1>. QED
  BY <1>1, <1>2, <1>3, <1>4, <1>5, <1>6, <1>7, <1>8, <1>9, <1>10 DEF Next, Deliver

(* What a search has seen stays true to the stages and to the mailboxes     *)
(* that have been active since it began.                                    *)
LEMMA NextSearch == TypeOK /\ SearchInv /\ [Next]_vars => SearchInv'
<1>. SUFFICES ASSUME TypeOK, SearchInv, [Next]_vars PROVE SearchInv'
  OBVIOUS
<1>a. /\ mbox \in [Mailboxes -> MailboxRow] /\ session \in Session /\ tokens \in Nat /\ faults \in Nat
      /\ steady \subseteq Mailboxes
  BY DEF TypeOK, LifeTypeOK
<1>n. session.pc # "resolve" => session.asked = {} /\ session.stage = 1
  BY DEF SearchInv
<1>q. ASSUME session'.pc # "resolve", session'.asked = {}, session'.stage = 1,
             \A m \in steady' : Active(m)'
      PROVE  SearchInv'
  BY <1>q DEF SearchInv
<1>s. ASSUME UNCHANGED <<mbox, steady>> PROVE \A m \in steady' : Active(m)'
  BY <1>s DEF SearchInv, Active
<1>u. ASSUME session' = session, steady' \subseteq steady, \A m \in steady' : Active(m)' PROVE SearchInv'
  <2>1. CASE session.pc = "resolve"
    <3>1. PICK a \in Addresses : Searching(a)
      BY <2>1 DEF SearchInv
    <3>2. Stages(a)' = Stages(a)
      BY DEF Stages
    <3>3. Searching(a)'
      BY <1>u, <3>1, <3>2 DEF Searching
    <3>. QED
      BY <1>u, <2>1, <3>3 DEF SearchInv
  <2>2. CASE session.pc # "resolve"
    BY <1>n, <1>q, <1>u, <2>2
  <2>. QED
    BY <2>1, <2>2
<1>1. ASSUME Meanwhile PROVE SearchInv'
  <2>1. session' = session /\ steady' \subseteq steady /\ \A m \in steady' : Active(m)'
    BY <1>1 DEF Meanwhile, Beside
  <2>. QED
    BY <1>u, <2>1
<1>2. ASSUME Mail PROVE SearchInv'
  <2>1. Begun
    <3>1. PICK n \in {0, Size} : session' = [NoSession EXCEPT !.pc = "rcpt", !.size = n]
      BY <1>2 DEF Mail
    <3>. QED
      BY <3>1, Constants DEF Begun
  <2>2. UNCHANGED <<mbox, steady>>
    BY <1>2 DEF Mail, lifeVars
  <2>. QED
    BY <1>q, <1>s, <2>1, <2>2, BegunIs
<1>r. ASSUME NEW a \in Addresses, Chargeable, UNCHANGED mbox, steady' \subseteq steady,
             NEW boxes \in SUBSET Mailboxes, Accept(a, boxes)
      PROVE  SearchInv'
  <2>1. \A m \in steady' : Active(m)'
    BY <1>r DEF SearchInv, Active
  <2>. QED
    BY <1>a, <1>q, <1>r, <2>1, AcceptIs
<1>d. ASSUME NEW a \in Addresses, UNCHANGED mbox, steady' \subseteq steady, Defer(a) \/ Refuse(a)
      PROVE  SearchInv'
  <2>1. \A m \in steady' : Active(m)'
    BY <1>d DEF SearchInv, Active
  <2>. QED
    BY <1>a, <1>q, <1>d, <2>1, DeferIs
<1>3. ASSUME NEW a \in Addresses, RcptBounce(a) PROVE SearchInv'
  <2>1. UNCHANGED mbox /\ steady' \subseteq steady
    BY <1>a, <1>3, BounceStep DEF SameLife
  <2>2. (Chargeable /\ Accept(a, {})) \/ Defer(a) \/ Refuse(a)
    BY <1>a, <1>3, BounceStep
  <2>. QED
    BY <1>r, <1>d, <2>1, <2>2
<1>4. ASSUME NEW a \in Addresses, Rcpt(a) PROVE SearchInv'
  <2>1. /\ session.pc = "rcpt" /\ a \notin Verp /\ mbox' = mbox
        /\ session'.pc = "resolve" /\ session'.asked = {a} /\ session'.stage = session.stage
        /\ steady' = {m \in Mailboxes : Active(m)}
    BY <1>a, <1>4, SearchBegins DEF SameLife
  <2>2. session'.stage = 1
    BY <1>n, <2>1
  <2>3. /\ Stages(a)' = Stages(a) /\ DOMAIN Stages(a) = 1..Len(Stages(a)) /\ Len(Stages(a)) \in {4, 5}
    BY StagesType DEF Stages
  <2>4. Searching(a)'
    <3>1. 1 \in DOMAIN Stages(a) /\ \A i \in DOMAIN Stages(a) : ~(i < 1)
      BY <2>3
    <3>. QED
      BY <2>1, <2>2, <2>3, <3>1 DEF Searching
  <2>5. \A m \in steady' : Active(m)'
    BY <2>1 DEF Active
  <2>. QED
    BY <2>1, <2>4, <2>5 DEF SearchInv
<1>5. ASSUME NEW a \in Addresses, ResolveStage(a) PROVE SearchInv'
  <2>1. /\ session.pc = "resolve" /\ Searching(a) /\ mbox' = mbox
        /\ \/ PassesOn(a)
           \/ /\ steady' = {}
              /\ \/ Chargeable /\ \E boxes \in SUBSET Mailboxes : Accept(a, boxes)
                 \/ Defer(a) \/ Refuse(a)
    BY <1>a, <1>5, StageOfSearch DEF SameLife
  <2>2. CASE PassesOn(a)
    <3>1. /\ session'.pc = "resolve" /\ session'.asked = session.asked /\ session'.stage = session.stage + 1
      BY <1>a, <2>1, <2>2, PassesOnIs
    <3>2. /\ Kept(Stages(a)[session.stage]) = {} /\ session.stage + 1 \in DOMAIN Stages(a) /\ steady' = steady
      BY <2>2 DEF PassesOn
    <3>3. Stages(a)' = Stages(a) /\ DOMAIN Stages(a) = 1..Len(Stages(a)) /\ Len(Stages(a)) \in {4, 5}
      BY StagesType DEF Stages
    <3>4. ASSUME NEW i \in DOMAIN Stages(a), i < session'.stage PROVE Stages(a)[i] \cap steady = {}
      <4>1. i < session.stage \/ i = session.stage
        BY <2>1, <3>1, <3>3, <3>4 DEF Searching
      <4>2. CASE i < session.stage
        BY <2>1, <4>2 DEF Searching
      <4>3. CASE i = session.stage
        BY <3>2, <4>3 DEF Kept, SearchInv
      <4>. QED
        BY <4>1, <4>2, <4>3
    <3>5. Searching(a)'
      BY <2>1, <3>1, <3>2, <3>3, <3>4 DEF Searching
    <3>6. \A m \in steady' : Active(m)'
      BY <2>1, <3>2, <1>s
    <3>. QED
      BY <3>1, <3>5, <3>6 DEF SearchInv
  <2>3. CASE ~PassesOn(a)
    <3>1. steady' \subseteq steady
      BY <2>1, <2>3
    <3>. QED
      BY <1>r, <1>d, <2>1, <2>3, <3>1
  <2>. QED
    BY <2>2, <2>3
<1>m. ASSUME session.pc # "resolve", UNCHANGED <<mbox, steady>>,
             session' = NoSession \/ \E pc \in {"record", "spam", "pending", "attach", "reply"} : MovesTo(pc)
      PROVE  SearchInv'
  <2>1. session'.pc # "resolve" /\ session'.asked = {} /\ session'.stage = 1
    BY <1>a, <1>n, <1>m, NoSessionType, MovesToIs
  <2>. QED
    BY <1>q, <1>s, <1>m, <2>1
<1>6. ASSUME Data \/ Record \/ CheckSpam \/ Reply PROVE SearchInv'
  <2>1. session.pc # "resolve" /\ UNCHANGED <<mbox, steady>>
    BY <1>6 DEF Data, Record, CheckSpam, Reply, lifeVars
  <2>2. session' = NoSession \/ \E pc \in {"record", "spam", "pending", "attach", "reply"} : MovesTo(pc)
    BY <1>6 DEF Data, Record, CheckSpam, Reply, Ends, Fails, MovesTo
  <2>. QED
    BY <1>m, <2>1, <2>2
<1>7. ASSUME Pending PROVE SearchInv'
  <2>1. session.pc # "resolve" /\ UNCHANGED <<mbox, steady>>
    BY <1>7 DEF Pending
  <2>2. CASE session' = NoSession
    BY <1>m, <2>1, <2>2
  <2>3. CASE session' = [session EXCEPT !.pc = "attach", !.pending = Targets]
    <3>1. session'.pc # "resolve" /\ session'.asked = {} /\ session'.stage = 1
      BY <1>a, <1>n, <2>1, <2>3 DEF Session
    <3>. QED
      BY <1>q, <1>s, <2>1, <3>1
  <2>. QED
    BY <1>7, <2>2, <2>3 DEF Pending, Fails, Ends
<1>8. ASSUME Attach PROVE SearchInv'
  <2>1. /\ mbox' = [m \in Mailboxes |-> IF m \in Attached THEN [mbox[m] EXCEPT !.used = @ + Stored] ELSE mbox[m]]
        /\ session.pc = "attach" /\ steady' = steady
    BY <1>8 DEF Attach
  <2>2. \A m \in Mailboxes : /\ mbox'[m].row = mbox[m].row /\ mbox'[m].status = mbox[m].status
                             /\ mbox'[m].deleted = mbox[m].deleted
    BY <1>a, <2>1 DEF MailboxRow
  <2>3. \A m \in steady' : Active(m)'
    BY <1>a, <2>1, <2>2 DEF SearchInv, Active
  <2>4. session' = NoSession \/ MovesTo("reply")
    BY <1>8 DEF Attach, Fails, Ends, MovesTo
  <2>5. session'.pc # "resolve" /\ session'.asked = {} /\ session'.stage = 1
    BY <1>a, <1>n, <2>1, <2>4, NoSessionType, MovesToIs
  <2>. QED
    BY <1>q, <2>3, <2>5
<1>9. ASSUME NEW m \in Mailboxes, OtherMail(m) PROVE SearchInv'
  <2>1. PICK used : mbox' = [mbox EXCEPT ![m].used = used]
    BY <1>9 DEF OtherMail
  <2>2. \A k \in Mailboxes : /\ mbox'[k].row = mbox[k].row /\ mbox'[k].status = mbox[k].status
                             /\ mbox'[k].deleted = mbox[k].deleted
    BY <1>a, <2>1 DEF MailboxRow
  <2>3. session' = session /\ steady' = steady
    BY <1>9 DEF OtherMail, inVars
  <2>4. \A k \in steady' : Active(k)'
    BY <1>a, <2>2, <2>3 DEF SearchInv, Active
  <2>. QED
    BY <1>u, <2>3, <2>4
<1>10. ASSUME Refill \/ UNCHANGED vars PROVE SearchInv'
  <2>1. UNCHANGED <<mbox, session, steady>>
    BY <1>10 DEF Refill, vars, lifeVars, inVars
  <2>. QED
    BY <1>s, <1>u, <2>1
<1>. QED
  BY <1>1, <1>2, <1>3, <1>4, <1>5, <1>6, <1>7, <1>8, <1>9, <1>10 DEF Next, Deliver

(* A fresh system is well formed. *)
LEMMA InitType == Init => TypeOK
<1>. SUFFICES ASSUME Init PROVE TypeOK
  OBVIOUS
<1>1. (CHOOSE m \in Mailboxes : TRUE) \in Mailboxes
  BY MailboxAssumption
<1>2. LifeTypeOK
  BY <1>1 DEF Init, LifeInit, LifeTypeOK, MailboxRow, Purge, Purgers
<1>. QED
  BY <1>2, NoSessionType, Constants DEF Init, TypeOK

(* Well formed states in which a search has seen what it should. *)
LEMMA TypeInvariant == Spec => [](TypeOK /\ SearchInv)
<1>1. Init => SearchInv
  BY NoSessionType DEF Init, SearchInv
<1>. QED
  BY <1>1, InitType, NextType, NextSearch, PTL DEF Spec

(* Rows, purges and sessions stay well formed; in particular the limiter's  *)
(* bucket is never overdrawn by chargeRecipient.                            *)
THEOREM TypeCorrect == Spec => []TypeOK
  BY TypeInvariant, PTL

------------------------------------------------------------------------------
(* Purges. *)

(* Once a purge is past the messages of a mailbox it has none that did not  *)
(* come in since.                                                           *)
Emptied(m) == copies[m] = 0 \/ m \in raced

OrphanInv ==
  /\ \A p \in Purgers : purge[p].step \in {"folders", "row"} => Emptied(purge[p].of)
  /\ \A m \in Mailboxes : ~mbox[m].row => Emptied(m)

(* A step that changes no purge, takes no row away and adds mail to no      *)
(* mailbox that is being purged without a note of it.                       *)
LEMMA QuietPurge ==
  ASSUME TypeOK, OrphanInv, purge' = purge,
         \A m \in Mailboxes : mbox'[m].row = mbox[m].row,
         \A m \in Mailboxes : (~mbox[m].row \/ BeingPurged(m)) /\ Emptied(m) => Emptied(m)'
  PROVE  OrphanInv'
<1>1. \A p \in Purgers : purge[p].of \in Mailboxes
  BY DEF TypeOK, LifeTypeOK, Purge
<1>2. ASSUME NEW p \in Purgers, purge'[p].step \in {"folders", "row"} PROVE Emptied(purge[p].of)'
  <2>1. PICK k \in Mailboxes : k = purge[p].of
    BY <1>1
  <2>2. BeingPurged(k) /\ Emptied(k)
    BY <1>2, <2>1 DEF BeingPurged, OrphanInv
  <2>3. Emptied(k)'
    BY <2>2
  <2>. QED
    BY <2>1, <2>3 DEF Emptied
<1>3. ASSUME NEW m \in Mailboxes, ~mbox'[m].row PROVE Emptied(m)'
  BY <1>3 DEF OrphanInv
<1>. QED
  BY <1>2, <1>3 DEF OrphanInv

(* A purge has emptied its mailbox before it takes the row away, whoever    *)
(* else steps in between.                                                   *)
LEMMA NextPurge == TypeOK /\ OrphanInv /\ [Next]_vars => OrphanInv'
<1>. SUFFICES ASSUME TypeOK, OrphanInv, [Next]_vars PROVE OrphanInv'
  OBVIOUS
<1>a. /\ mbox \in [Mailboxes -> MailboxRow] /\ copies \in [Mailboxes -> Nat] /\ purge \in [Purgers -> Purge]
      /\ raced \subseteq Mailboxes
  BY DEF TypeOK, LifeTypeOK
<1>p. "cleanup" \in Purgers /\ "request" \in Purgers /\ "cleanup" # "request"
  BY DEF Purgers
<1>t. \A p \in Purgers : purge[p] \in Purge /\ purge[p].of \in Mailboxes
  BY <1>a DEF Purge
<1>u. ASSUME UNCHANGED <<mbox, copies, purge, raced>> PROVE OrphanInv'
  BY <1>u DEF OrphanInv, Emptied
<1>i. ASSUME NEW q \in Purgers, UNCHANGED <<mbox, copies, raced>>, purge'[q].step \in {"idle", "items"},
             \A p \in Purgers \ {q} : purge'[p] = purge[p]
      PROVE  OrphanInv'
  BY <1>i DEF OrphanInv, Emptied
<1>1. ASSUME NEW m \in Mailboxes, DeleteMailbox(m) \/ RestoreMailbox(m) \/ UpdateMailbox(m) \/ Age(m)
      PROVE  OrphanInv'
  <2>1. UNCHANGED <<copies, purge, raced>>
    BY <1>1 DEF DeleteMailbox, RestoreMailbox, UpdateMailbox, Age
  <2>2. \A k \in Mailboxes : mbox'[k].row = mbox[k].row
    BY <1>1, <1>a DEF DeleteMailbox, RestoreMailbox, UpdateMailbox, Age, MailboxRow
  <2>. QED
    BY <2>1, <2>2 DEF OrphanInv, Emptied
<1>3. ASSUME NEW m \in Mailboxes, PurgeNext(m) PROVE OrphanInv'
  <2>1. UNCHANGED <<mbox, copies, raced>>
    BY <1>3 DEF PurgeNext
  <2>2. purge'["cleanup"].step = "items" /\ \A p \in Purgers \ {"cleanup"} : purge'[p] = purge[p]
    BY <1>3, <1>a, <1>p DEF PurgeNext
  <2>. QED
    BY <1>i, <1>p, <2>1, <2>2
<1>4. ASSUME NEW m \in Mailboxes, HardDelete(m) PROVE OrphanInv'
  <2>1. UNCHANGED <<mbox, copies, raced>>
    BY <1>4 DEF HardDelete
  <2>2. purge'["request"].step = "items" /\ \A p \in Purgers \ {"request"} : purge'[p] = purge[p]
    BY <1>4, <1>a, <1>p DEF HardDelete
  <2>. QED
    BY <1>i, <1>p, <2>1, <2>2
<1>5. ASSUME ListDeleted PROVE OrphanInv'
  <2>1. UNCHANGED <<mbox, copies, raced>>
    BY <1>5 DEF ListDeleted
  <2>2. purge'["cleanup"].step = "idle" /\ \A p \in Purgers \ {"cleanup"} : purge'[p] = purge[p]
    <3>1. purge' = [purge EXCEPT !["cleanup"].todo = {m \in Mailboxes : Expired(m)}] /\ purge["cleanup"].step = "idle"
      BY <1>5 DEF ListDeleted
    <3>. QED
      BY <3>1, <1>a, <1>p DEF Purge
  <2>. QED
    BY <1>i, <1>p, <2>1, <2>2
<1>6. ASSUME NEW p \in Purgers, PurgeItems(p) PROVE OrphanInv'
  <2>0. PICK k \in Mailboxes : k = purge[p].of
    BY <1>t
  <2>1. UNCHANGED <<mbox, raced>> /\ copies'[k] = 0 /\ \A m \in Mailboxes \ {k} : copies'[m] = copies[m]
    BY <1>6, <1>a, <2>0 DEF PurgeItems
  <2>2. /\ purge'[p].step = "folders" /\ purge'[p].of = k
        /\ \A q \in Purgers \ {p} : purge'[q] = purge[q]
    BY <1>6, <1>a, <2>0 DEF PurgeItems, Purge
  <2>4. \A m \in Mailboxes : Emptied(m) \/ m = k => Emptied(m)'
    BY <2>1 DEF Emptied
  <2>5. \A q \in Purgers : purge'[q].step \in {"folders", "row"} => Emptied(purge[q].of)'
    <3>. SUFFICES ASSUME NEW q \in Purgers, purge'[q].step \in {"folders", "row"} PROVE Emptied(purge[q].of)'
      OBVIOUS
    <3>1. PICK i \in Mailboxes : i = purge[q].of
      BY <1>t
    <3>2. Emptied(i) \/ i = k
      BY <2>0, <2>2, <3>1 DEF OrphanInv
    <3>3. Emptied(i)' /\ purge'[q].of = i
      BY <2>0, <2>2, <2>4, <3>1, <3>2
    <3>. QED
      BY <3>3 DEF Emptied
  <2>6. \A m \in Mailboxes : ~mbox'[m].row => Emptied(m)'
    BY <2>1, <2>4 DEF OrphanInv
  <2>. QED
    BY <2>5, <2>6 DEF OrphanInv
<1>7. ASSUME NEW p \in Purgers, PurgeFolders(p) \/ PurgeRow(p) PROVE OrphanInv'
  <2>0. PICK k \in Mailboxes : k = purge[p].of
    BY <1>t
  <2>1. UNCHANGED <<copies, raced>> /\ Emptied(k)
    BY <1>7, <2>0 DEF PurgeFolders, PurgeRow, OrphanInv
  <2>2. /\ purge'[p].step \in {"row", "idle"} /\ purge'[p].of = k
        /\ \A q \in Purgers \ {p} : purge'[q] = purge[q]
    <3>1. CASE PurgeFolders(p)
      BY <3>1, <1>a, <2>0 DEF PurgeFolders, Purge
    <3>2. CASE PurgeRow(p)
      BY <3>2, <1>a, <2>0 DEF PurgeRow, Purge
    <3>. QED
      BY <1>7, <3>1, <3>2
  <2>3. \A m \in Mailboxes \ {k} : mbox'[m] = mbox[m]
    <3>1. CASE PurgeFolders(p)
      BY <3>1, <1>a, <2>0 DEF PurgeFolders, MailboxRow
    <3>2. CASE PurgeRow(p)
      BY <3>2, <1>a, <2>0 DEF PurgeRow, MailboxRow
    <3>. QED
      BY <1>7, <3>1, <3>2
  <2>6. \A m \in Mailboxes : Emptied(m)' <=> Emptied(m)
    BY <2>1 DEF Emptied
  <2>7. \A q \in Purgers : purge'[q].step \in {"folders", "row"} => Emptied(purge[q].of)'
    BY <1>t, <2>0, <2>1, <2>2 DEF OrphanInv, Emptied
  <2>8. \A m \in Mailboxes : ~mbox'[m].row => Emptied(m)'
    BY <2>1, <2>3, <2>6 DEF OrphanInv
  <2>. QED
    BY <2>7, <2>8 DEF OrphanInv
<1>8. ASSUME NEW p \in Purgers, PurgeFails(p) PROVE OrphanInv'
  <2>1. UNCHANGED <<mbox, copies, raced>>
    BY <1>8 DEF PurgeFails
  <2>2. purge'[p].step = "idle" /\ \A q \in Purgers \ {p} : purge'[q] = purge[q]
    BY <1>8, <1>a DEF PurgeFails, Purge
  <2>. QED
    BY <1>i, <2>1, <2>2
<1>9. ASSUME Attach PROVE OrphanInv'
  <2>1. purge' = purge
    BY <1>9 DEF Attach
  <2>2. mbox' = [m \in Mailboxes |-> IF m \in Attached THEN [mbox[m] EXCEPT !.used = @ + Stored] ELSE mbox[m]]
    BY <1>9 DEF Attach
  <2>3. \A m \in Mailboxes : mbox'[m].row = mbox[m].row
    BY <1>a, <2>2 DEF MailboxRow
  <2>4. ASSUME NEW m \in Mailboxes, ~mbox[m].row \/ BeingPurged(m), Emptied(m) PROVE Emptied(m)'
    <3>1. /\ copies'[m] = copies[m] + IF m \in Attached THEN 1 ELSE 0
          /\ raced' = raced \cup {i \in Attached : BeingPurged(i)}
      BY <1>9 DEF Attach
    <3>2. m \in Attached => mbox[m].row
      BY DEF Attached, Attachable
    <3>. QED
      BY <1>a, <2>4, <3>1, <3>2 DEF Emptied
  <2>. QED
    BY <2>1, <2>3, <2>4, QuietPurge
<1>10. ASSUME NEW m \in Mailboxes, OtherMail(m) PROVE OrphanInv'
  <2>1. UNCHANGED <<purge, copies, raced>>
    BY <1>10 DEF OtherMail
  <2>2. PICK used : mbox' = [mbox EXCEPT ![m].used = used]
    BY <1>10 DEF OtherMail
  <2>3. \A k \in Mailboxes : mbox'[k].row = mbox[k].row
    BY <1>a, <2>2 DEF MailboxRow
  <2>. QED
    BY <2>1, <2>3, QuietPurge DEF Emptied
<1>11. ASSUME \/ Mail \/ Data \/ Record \/ CheckSpam \/ Pending \/ Reply \/ Refill
              \/ \E a \in Addresses : RcptBounce(a) \/ Rcpt(a) \/ ResolveStage(a)
       PROVE  OrphanInv'
  <2>1. UNCHANGED <<mbox, copies, purge, raced>>
    BY <1>11 DEF Mail, Data, Record, CheckSpam, Pending, Reply, Refill, RcptBounce, Rcpt, ResolveStage, RcptVars,
                 lifeVars
  <2>. QED
    BY <1>u, <2>1
<1>12. ASSUME UNCHANGED vars PROVE OrphanInv'
  BY <1>u, <1>12 DEF vars, lifeVars
<1>. QED
  BY <1>1, <1>3, <1>4, <1>5, <1>6, <1>7, <1>8, <1>9, <1>10, <1>11, <1>12
  DEF Next, Meanwhile, Beside, LifeNext, PurgeStep, Deliver

(* What the two purgers, failing and starting again in any order, leave     *)
(* behind is only what was delivered in the middle of a purge (PurgeMailbox *)
(* beside AttachAll).                                                       *)
THEOREM LeavesNoOrphans == Spec => []NoOrphans
<1>1. Init => OrphanInv
  BY DEF Init, LifeInit, OrphanInv, Purgers
<1>2. OrphanInv => NoOrphans
  BY DEF OrphanInv, NoOrphans, Emptied
<1>. QED
  BY <1>1, <1>2, TypeCorrect, NextPurge, PTL DEF Spec

------------------------------------------------------------------------------
(* Copies and replies. *)

(* The transaction is for the mailboxes of the recipients. *)
ToldInv ==
  /\ StoredAsTold
  /\ session.pc = "attach" => session.pending = Targets

(* A step before the transaction: no reply is due before or after it, and   *)
(* nothing is stored or told.                                               *)
LEMMA QuietTold ==
  ASSUME ToldInv, copies' = copies, acked' = acked, lost' = lost, purging \subseteq purging',
         session.pc # "reply" /\ session'.pc # "reply",
         session'.pc = "attach" => (session'.pending = Targets')
  PROVE  ToldInv'
  BY DEF ToldInv, StoredAsTold

(* Whoever steps, copies and replies agree. *)
LEMMA NextTold == TypeOK /\ SearchInv /\ ToldInv /\ [Next]_vars => ToldInv'
<1>. SUFFICES ASSUME TypeOK, SearchInv, ToldInv, [Next]_vars PROVE ToldInv'
  OBVIOUS
<1>a. /\ session \in Session /\ copies \in [Mailboxes -> Nat] /\ purge \in [Purgers -> Purge]
      /\ acked \in [Mailboxes -> Nat] /\ lost \in [Mailboxes -> Nat] /\ faults \in Nat /\ tokens \in Nat
  BY DEF TypeOK, LifeTypeOK
<1>s. /\ \A m \in Mailboxes \ purging :
           copies[m] = acked[m] + lost[m] + (IF session.pc = "reply" /\ m \in Targets THEN 1 ELSE 0)
      /\ session.pc = "attach" => session.pending = Targets
  BY DEF ToldInv, StoredAsTold
<1>u. ASSUME UNCHANGED <<session, acked, lost>>, purging \subseteq purging',
             \A m \in Mailboxes \ purging' : copies'[m] = copies[m]
      PROVE  ToldInv'
  <2>1. Targets' = Targets
    BY <1>u DEF Targets
  <2>. QED
    BY <1>s, <1>u, <2>1 DEF ToldInv, StoredAsTold
<1>1. ASSUME Meanwhile PROVE ToldInv'
  <2>1. LifeNext /\ UNCHANGED <<session, acked, lost>>
    BY <1>1 DEF Meanwhile, Beside
  <2>2. ASSUME NEW p \in Purgers, PurgeItems(p)
        PROVE  purging \subseteq purging' /\ \A m \in Mailboxes \ purging' : copies'[m] = copies[m]
    BY <1>a, <2>2 DEF PurgeItems
  <2>3. \/ purging' = purging /\ copies' = copies
        \/ \E p \in Purgers : PurgeItems(p)
    BY <2>1 DEF LifeNext, PurgeStep, DeleteMailbox, RestoreMailbox, UpdateMailbox, Age, PurgeNext, HardDelete,
                ListDeleted, PurgeFolders, PurgeRow, PurgeFails
  <2>. QED
    BY <1>u, <2>1, <2>2, <2>3
<1>2. ASSUME Mail PROVE ToldInv'
  <2>1. Begun
    <3>1. PICK n \in {0, Size} : session' = [NoSession EXCEPT !.pc = "rcpt", !.size = n]
      BY <1>2 DEF Mail
    <3>. QED
      BY <3>1, Constants DEF Begun
  <2>2. session.pc = "idle" /\ UNCHANGED <<copies, acked, lost, purging>>
    BY <1>2 DEF Mail, lifeVars
  <2>. QED
    BY <2>1, <2>2, BegunIs, QuietTold
<1>3. ASSUME NEW a \in Addresses, RcptBounce(a) \/ Rcpt(a) \/ ResolveStage(a) PROVE ToldInv'
  <2>1. session.pc \in {"rcpt", "resolve"} /\ UNCHANGED <<copies, acked, lost, purging>>
    BY <1>3 DEF RcptBounce, Rcpt, ResolveStage, RcptVars
  <2>2. session'.pc \in {"rcpt", "resolve"}
    <3>1. CASE Rcpt(a)
      BY <1>a, <3>1, SearchBegins
    <3>2. CASE PassesOn(a)
      BY <1>a, <2>1, <3>2, PassesOnIs
    <3>3. CASE Defer(a) \/ Refuse(a)
      BY <1>a, <3>3, DeferIs
    <3>4. ASSUME NEW boxes \in SUBSET Mailboxes, Accept(a, boxes), Chargeable PROVE session'.pc = "rcpt"
      BY <1>a, <3>4, AcceptIs
    <3>5. CASE RcptBounce(a)
      BY <1>a, <3>3, <3>4, <3>5, BounceStep
    <3>6. CASE ResolveStage(a)
      BY <1>a, <3>2, <3>3, <3>4, <3>6, StageOfSearch
    <3>. QED
      BY <1>3, <3>1, <3>5, <3>6
  <2>. QED
    BY <2>1, <2>2, QuietTold
<1>4. ASSUME Data \/ CheckSpam PROVE ToldInv'
  <2>1. UNCHANGED <<copies, acked, lost, purging>> /\ session.pc \in {"rcpt", "spam"}
    BY <1>4 DEF Data, CheckSpam, lifeVars
  <2>2. \/ session' = NoSession
        \/ \E pc \in {"record", "pending"} : MovesTo(pc)
    BY <1>4 DEF Data, CheckSpam, Ends, Fails, MovesTo
  <2>3. session'.pc \in {"idle", "record", "pending"}
    BY <1>a, <2>2, NoSessionType, MovesToIs
  <2>. QED
    BY <2>1, <2>3, QuietTold
<1>9. ASSUME Record PROVE ToldInv'
  <2>1. UNCHANGED <<copies, acked, lost, purging>> /\ session.pc = "record"
    BY <1>9 DEF Record
  <2>2. CASE session' = NoSession
    BY <2>1, <2>2, NoSessionType, QuietTold
  <2>3. CASE MovesTo("spam")
    BY <1>a, <2>1, <2>3, MovesToIs, QuietTold
  <2>4. CASE MovesTo("reply") /\ Accepted = {}
    <3>1. session'.pc = "reply" /\ Targets' = Targets
      BY <1>a, <2>4, MovesToIs
    <3>2. Targets = {}
      BY <2>4 DEF Accepted, Targets
    <3>. QED
      BY <1>s, <2>1, <3>1, <3>2 DEF ToldInv, StoredAsTold
  <2>. QED
    BY <1>9, <2>2, <2>3, <2>4 DEF Record, Fails, Ends, MovesTo
<1>5. ASSUME Pending PROVE ToldInv'
  <2>1. UNCHANGED <<copies, acked, lost, purging>> /\ session.pc = "pending"
    BY <1>5 DEF Pending
  <2>2. CASE session' = NoSession
    BY <2>1, <2>2, NoSessionType, QuietTold
  <2>3. CASE session' = [session EXCEPT !.pc = "attach", !.pending = Targets]
    <3>1. session'.pc = "attach" /\ session'.pending = Targets /\ session'.rcpt = session.rcpt
      BY <1>a, <2>3 DEF Session
    <3>2. Targets' = Targets
      BY <3>1 DEF Targets
    <3>. QED
      BY <2>1, <3>1, <3>2, QuietTold
  <2>. QED
    BY <1>5, <2>2, <2>3 DEF Pending, Fails, Ends
<1>6. ASSUME Attach PROVE ToldInv'
  <2>1. /\ session.pc = "attach" /\ UNCHANGED <<acked, lost, purging>> /\ session.pending = Targets
        /\ \A m \in Mailboxes : copies'[m] = copies[m] + IF m \in Attached THEN 1 ELSE 0
    BY <1>s, <1>6 DEF Attach
  <2>2. CASE Attached = session.pending
    <3>1. MovesTo("reply")
      BY <1>6, <2>2 DEF Attach, MovesTo
    <3>2. session'.pc = "reply" /\ Targets' = Targets
      BY <1>a, <3>1, MovesToIs
    <3>. QED
      BY <1>a, <1>s, <2>1, <2>2, <3>2 DEF ToldInv, StoredAsTold
  <2>3. CASE Attached # session.pending
    <3>1. Attached = {} /\ session' = NoSession
      BY <1>6, <2>3 DEF Attach, Attached, Fails, Ends
    <3>2. session'.pc = "idle"
      BY <3>1, NoSessionType
    <3>. QED
      BY <1>a, <1>s, <2>1, <3>1, <3>2 DEF ToldInv, StoredAsTold
  <2>. QED
    BY <2>2, <2>3
<1>7. ASSUME Reply PROVE ToldInv'
  <2>1. session.pc = "reply" /\ UNCHANGED <<copies, purging>>
    BY <1>7 DEF Reply
  <2>2. session' = NoSession /\ session'.pc = "idle"
    BY <1>7, NoSessionType DEF Reply, Ends, Fails
  <2>3. \A m \in Mailboxes : acked'[m] + lost'[m] = acked[m] + lost[m] + IF m \in Targets THEN 1 ELSE 0
    BY <1>a, <1>7 DEF Reply
  <2>. QED
    BY <1>a, <1>s, <2>1, <2>2, <2>3 DEF ToldInv, StoredAsTold
<1>8. ASSUME Refill \/ (\E m \in Mailboxes : OtherMail(m)) \/ UNCHANGED vars PROVE ToldInv'
  <2>1. UNCHANGED <<session, acked, lost, purging, copies>>
    BY <1>8 DEF Refill, OtherMail, vars, lifeVars, inVars
  <2>. QED
    BY <1>u, <2>1
<1>. QED
  BY <1>1, <1>2, <1>3, <1>4, <1>5, <1>6, <1>7, <1>8, <1>9 DEF Next, Deliver

(* A mailbox that no purge has touched holds exactly the copies the sender  *)
(* was told of or would have been, whatever failed on the way: AttachAll is *)
(* one transaction for all recipients (messages/delivery.go, deliver).      *)
THEOREM StoredIsTold == Spec => []StoredAsTold
<1>1. Init => ToldInv
  BY NoSessionType DEF Init, LifeInit, ToldInv, StoredAsTold
<1>2. ToldInv => StoredAsTold
  BY DEF ToldInv
<1>. QED
  BY <1>1, <1>2, TypeInvariant, NextTold, PTL DEF Spec

------------------------------------------------------------------------------
(* Bounces and refusals. *)

(* The stages of DATA after the recording. *)
Recorded == {"spam", "pending", "attach", "reply"}

(* Of the bounce addresses: the session's are still wanted, none leads to a *)
(* mailbox; the ones recorded in this session are recorded; and one that is *)
(* recorded is done with, or is being dealt with, or was repeated.          *)
BounceInv ==
  /\ session.verp \subseteq (Verp \cap want) \cap session.tried
  /\ \A a \in Verp : session.rcpt[a] = {}
  /\ \A a \in Verp :
       /\ a \notin want \cup refused => bounces[a] > 0
       /\ bounces[a] > 1 => a \in retold
       /\ bounces[a] > 0 => \/ a \in retold \/ a \notin want
                            \/ a \in session.verp /\ session.pc \in Recorded
       /\ a \in session.verp /\ session.pc \in Recorded => bounces[a] > 0

(* A session that ends for the addresses in S, of which the bounces were    *)
(* recorded, or for none after the bounces of it were noted as repeated.    *)
LEMMA BounceEnds ==
  ASSUME TypeOK, BounceInv, bounces' = bounces, refused' = refused, NEW S, Ends(S),
         \A a \in S \cap Verp : bounces[a] > 0,
         retold \subseteq retold',
         session.pc \in Recorded => session.verp \subseteq S \cup retold'
  PROVE  BounceInv'
<1>1. session'.verp = {} /\ session'.pc = "idle" /\ (\A a \in Addresses : session'.rcpt[a] = {}) /\ want' = want \ S
  BY NoSessionType DEF Ends
<1>2. \A a \in Verp : session'.rcpt[a] = {}
  BY <1>1, Constants
<1>3. ASSUME NEW a \in Verp
      PROVE  /\ a \notin want' \cup refused' => bounces'[a] > 0
             /\ bounces'[a] > 1 => a \in retold'
             /\ bounces'[a] > 0 => a \in retold' \/ a \notin want'
  BY <1>1 DEF BounceInv
<1>4. session'.pc \notin Recorded
  BY <1>1 DEF Recorded
<1>. QED
  BY <1>1, <1>2, <1>3, <1>4 DEF BounceInv

(* A step that changes nothing of bounces. *)
LEMMA QuietBounce ==
  ASSUME BounceInv, UNCHANGED <<want, bounces, refused, retold>>,
         session'.verp = session.verp, session'.tried = session.tried, session'.rcpt = session.rcpt,
         session'.pc \in Recorded <=> session.pc \in Recorded
  PROVE  BounceInv'
  BY DEF BounceInv

(* Whoever steps, no bounce is lost or recorded twice without a repetition. *)
LEMMA NextBounce == TypeOK /\ SearchInv /\ BounceInv /\ [Next]_vars => BounceInv'
<1>. SUFFICES ASSUME TypeOK, SearchInv, BounceInv, [Next]_vars PROVE BounceInv'
  OBVIOUS
<1>a. /\ session \in Session /\ faults \in Nat /\ tokens \in Nat /\ bounces \in [Verp -> 0..2]
      /\ retold \subseteq Addresses /\ Verp \subseteq Addresses
  BY Constants DEF TypeOK, LifeTypeOK
<1>v. /\ session.verp \subseteq (Verp \cap want) \cap session.tried
      /\ \A a \in Verp : session.rcpt[a] = {}
  BY DEF BounceInv
<1>u. ASSUME UNCHANGED <<want, session, bounces, refused, retold>> PROVE BounceInv'
  BY <1>u DEF BounceInv
<1>1. ASSUME Meanwhile \/ Refill \/ (\E m \in Mailboxes : OtherMail(m)) \/ UNCHANGED vars
      PROVE  BounceInv'
  BY <1>u, <1>1 DEF Meanwhile, Beside, inVars, Refill, OtherMail, vars
<1>2. ASSUME Mail PROVE BounceInv'
  <2>1. Begun
    <3>1. PICK n \in {0, Size} : session' = [NoSession EXCEPT !.pc = "rcpt", !.size = n]
      BY <1>2 DEF Mail
    <3>. QED
      BY <3>1, Constants DEF Begun
  <2>2. session.pc = "idle" /\ UNCHANGED <<want, bounces, refused, retold>>
    BY <1>2 DEF Mail
  <2>3. /\ session'.pc = "rcpt" /\ session'.verp = {} /\ session'.tried = {}
        /\ \A a \in Verp : session'.rcpt[a] = {}
    BY <1>a, <2>1, BegunIs
  <2>. QED
    BY <2>2, <2>3 DEF BounceInv, Recorded
<1>r. "rcpt" \notin Recorded /\ "resolve" \notin Recorded
  BY DEF Recorded
<1>3. ASSUME NEW a \in Addresses, Defer(a), session.pc \notin Recorded, UNCHANGED <<bounces, retold>> PROVE BounceInv'
  <2>1. /\ session'.pc = "rcpt" /\ session'.tried = session.tried \cup {a} /\ session'.verp = session.verp
        /\ session'.rcpt = session.rcpt
    BY <1>a, <1>3, DeferIs
  <2>2. want' = want /\ refused' = refused
    BY <1>3 DEF Defer
  <2>. QED
    BY <1>3, <1>r, <2>1, <2>2 DEF BounceInv
<1>g. ASSUME NEW a \in Addresses, Refuse(a), a \notin session.verp, session.pc \notin Recorded,
             UNCHANGED <<bounces, retold>>
      PROVE  BounceInv'
  <2>1. /\ session'.pc = "rcpt" /\ session'.tried = session.tried \cup {a} /\ session'.verp = session.verp
        /\ session'.rcpt = session.rcpt
    BY <1>a, <1>g, DeferIs
  <2>2. want' = want \ {a} /\ refused' = refused \cup {a}
    BY <1>g DEF Refuse
  <2>. QED
    BY <1>g, <1>r, <2>1, <2>2 DEF BounceInv
<1>h. ASSUME NEW a \in Addresses, NEW boxes \in SUBSET Mailboxes, Accept(a, boxes), Chargeable,
             a \in Verp => boxes = {} /\ a \in want, session.pc \notin Recorded, UNCHANGED <<bounces, retold>>
      PROVE  BounceInv'
  <2>1. /\ session'.pc = "rcpt" /\ session'.tried = session.tried \cup {a}
        /\ session'.verp = IF a \in Verp THEN session.verp \cup {a} ELSE session.verp
        /\ session'.rcpt[a] = boxes /\ \A b \in Addresses \ {a} : session'.rcpt[b] = session.rcpt[b]
        /\ want' = want /\ refused' = refused
    BY <1>a, <1>h, AcceptIs
  <2>2. \A b \in Verp : session'.rcpt[b] = {}
    BY <1>a, <1>v, <1>h, <2>1
  <2>3. session'.verp \subseteq (Verp \cap want) \cap session'.tried
    BY <1>v, <1>h, <2>1
  <2>. QED
    BY <1>h, <1>r, <2>1, <2>2, <2>3 DEF BounceInv
<1>k. ASSUME NEW a \in Addresses, RcptBounce(a) PROVE BounceInv'
  <2>1. /\ session.pc = "rcpt" /\ a \in want \ session.tried /\ UNCHANGED <<bounces, retold>>
        /\ (Chargeable /\ Accept(a, {})) \/ Defer(a) \/ Refuse(a)
    BY <1>a, <1>k, BounceStep
  <2>2. a \notin session.verp
    BY <1>v, <2>1
  <2>. QED
    BY <1>r, <1>3, <1>g, <1>h, <2>1, <2>2
<1>10. ASSUME NEW a \in Addresses, Rcpt(a) PROVE BounceInv'
  <2>1. /\ session.pc = "rcpt" /\ UNCHANGED <<want, refused, bounces, retold>>
        /\ session'.pc = "resolve" /\ session'.rcpt = session.rcpt
        /\ session'.verp = session.verp /\ session'.tried = session.tried
    BY <1>a, <1>10, SearchBegins
  <2>. QED
    BY <1>r, <2>1, QuietBounce
<1>11. ASSUME NEW a \in Addresses, ResolveStage(a) PROVE BounceInv'
  <2>1. /\ session.pc = "resolve" /\ a \notin Verp /\ UNCHANGED <<bounces, retold>>
        /\ \/ PassesOn(a)
           \/ Chargeable /\ \E boxes \in SUBSET Mailboxes : Accept(a, boxes)
           \/ Defer(a) \/ Refuse(a)
    BY <1>a, <1>11, StageOfSearch DEF Searching
  <2>2. a \notin session.verp
    BY <1>v, <2>1
  <2>3. CASE PassesOn(a)
    <3>1. /\ session'.pc = session.pc /\ session'.rcpt = session.rcpt
          /\ session'.verp = session.verp /\ session'.tried = session.tried
      BY <1>a, <2>3, PassesOnIs
    <3>2. want' = want /\ refused' = refused
      BY <2>3 DEF PassesOn
    <3>. QED
      BY <2>1, <3>1, <3>2, QuietBounce
  <2>. QED
    BY <1>r, <1>3, <1>g, <1>h, <2>1, <2>2, <2>3
<1>m. ASSUME NEW pc \in {"record", "spam", "pending", "attach", "reply"}, MovesTo(pc),
             UNCHANGED <<want, bounces, refused, retold>>,
             pc \in Recorded <=> session.pc \in Recorded
      PROVE  BounceInv'
  BY <1>a, <1>m, MovesToIs, QuietBounce
<1>f. ASSUME Fails, UNCHANGED <<bounces, refused>> PROVE BounceInv'
  <2>1. Ends({}) /\ retold \subseteq retold' /\ (session.pc # "record" => session.verp \subseteq retold')
    BY <1>f DEF Fails
  <2>2. session.pc \in Recorded => session.pc # "record"
    BY DEF Recorded
  <2>. QED
    BY <1>f, <2>1, <2>2, BounceEnds
<1>e. ASSUME Ends(Accepted \cup session.verp), UNCHANGED <<bounces, refused, retold>>, session.pc \in Recorded
      PROVE  BounceInv'
  <2>1. \A a \in (Accepted \cup session.verp) \cap Verp : bounces[a] > 0
    BY <1>v, <1>e DEF Accepted, BounceInv
  <2>. QED
    BY <1>e, <2>1, BounceEnds
<1>4. ASSUME Data PROVE BounceInv'
  <2>1. session.pc = "rcpt" /\ UNCHANGED <<bounces, refused, retold>>
    BY <1>4 DEF Data
  <2>2. "rcpt" \notin Recorded /\ "record" \notin Recorded
    BY DEF Recorded
  <2>3. CASE Ends({})
    BY <2>1, <2>2, <2>3, BounceEnds
  <2>4. CASE MovesTo("record") /\ UNCHANGED want
    BY <1>m, <2>1, <2>2, <2>4
  <2>. QED
    BY <1>4, <2>3, <2>4 DEF Data, MovesTo
<1>5. ASSUME Record PROVE BounceInv'
  <2>1. session.pc = "record" /\ refused' = refused
    BY <1>5 DEF Record
  <2>2. CASE Fails /\ UNCHANGED bounces
    BY <1>f, <2>1, <2>2
  <2>3. ASSUME bounces' = NewBounces, UNCHANGED retold,
               MovesTo("spam") \/ MovesTo("reply"), UNCHANGED want
        PROVE  BounceInv'
    <3>1. \A a \in Verp : bounces'[a] = Upto2(bounces[a] + IF a \in session.verp THEN 1 ELSE 0)
      BY <2>3 DEF NewBounces
    <3>2. ASSUME NEW a \in Verp
          PROVE  /\ bounces[a] \in 0..2
                 /\ a \notin session.verp => bounces'[a] = bounces[a]
                 /\ a \in session.verp => bounces'[a] > 0 /\ (bounces'[a] > 1 => bounces[a] > 0)
      <4>1. bounces[a] \in 0..2
        BY <1>a
      <4>. QED
        BY <3>1, <4>1 DEF Upto2
    <3>3. "record" \notin Recorded /\ "spam" \in Recorded /\ "reply" \in Recorded
      BY DEF Recorded
    <3>4. ASSUME NEW a \in Verp, a \in session.verp, bounces'[a] > 1 PROVE a \in retold
      BY <1>v, <2>1, <3>2, <3>3, <3>4 DEF BounceInv
    <3>5. ASSUME NEW a \in Verp
          PROVE  /\ a \notin want \cup refused => bounces'[a] > 0
                 /\ bounces'[a] > 1 => a \in retold
                 /\ bounces'[a] > 0 => a \in retold \/ a \notin want \/ a \in session.verp
      <4>1. CASE a \in session.verp
        BY <3>2, <3>4, <4>1
      <4>2. CASE a \notin session.verp
        BY <2>1, <3>2, <3>3, <4>2 DEF BounceInv
      <4>. QED
        BY <4>1, <4>2
    <3>6. /\ session'.pc \in Recorded /\ session'.verp = session.verp /\ session'.tried = session.tried
          /\ session'.rcpt = session.rcpt
      BY <1>a, <2>3, <3>3, MovesToIs
    <3>. QED
      BY <1>v, <2>1, <2>3, <3>2, <3>3, <3>5, <3>6 DEF BounceInv
  <2>. QED
    BY <1>5, <2>2, <2>3 DEF Record, MovesTo
<1>6. ASSUME CheckSpam PROVE BounceInv'
  <2>1. session.pc = "spam" /\ UNCHANGED <<bounces, refused>> /\ "spam" \in Recorded /\ "pending" \in Recorded
    BY <1>6 DEF CheckSpam, Recorded
  <2>. QED
    BY <1>e, <1>f, <1>m, <1>6, <2>1 DEF CheckSpam, MovesTo
<1>7. ASSUME Pending PROVE BounceInv'
  <2>1. session.pc = "pending" /\ UNCHANGED <<bounces, refused>>
    BY <1>7 DEF Pending
  <2>2. CASE session' = [session EXCEPT !.pc = "attach", !.pending = Targets] /\ UNCHANGED <<want, retold>>
    <3>1. /\ session'.pc = "attach" /\ session'.rcpt = session.rcpt /\ session'.verp = session.verp
          /\ session'.tried = session.tried
      BY <1>a, <2>2 DEF Session
    <3>2. "pending" \in Recorded /\ "attach" \in Recorded
      BY DEF Recorded
    <3>. QED
      BY <2>1, <2>2, <3>1, <3>2, QuietBounce
  <2>. QED
    BY <1>f, <1>7, <2>1, <2>2 DEF Pending
<1>8. ASSUME Attach PROVE BounceInv'
  <2>1. session.pc = "attach" /\ UNCHANGED <<bounces, refused>> /\ "attach" \in Recorded /\ "reply" \in Recorded
    BY <1>8 DEF Attach, Recorded
  <2>2. CASE MovesTo("reply") /\ UNCHANGED <<want, retold>>
    BY <1>m, <2>1, <2>2
  <2>. QED
    BY <1>f, <1>8, <2>1, <2>2 DEF Attach, MovesTo
<1>9. ASSUME Reply PROVE BounceInv'
  <2>1. session.pc = "reply" /\ UNCHANGED <<bounces, refused>> /\ "reply" \in Recorded
    BY <1>9 DEF Reply, Recorded
  <2>2. CASE Ends(Accepted \cup session.verp) /\ UNCHANGED retold
    BY <1>e, <2>1, <2>2
  <2>. QED
    BY <1>f, <1>9, <2>1, <2>2 DEF Reply
<1>. QED
  BY <1>1, <1>2, <1>3, <1>4, <1>5, <1>6, <1>7, <1>8, <1>9, <1>10, <1>11, <1>k DEF Next, Deliver

(* Through refusals, failures, lost replies and repetitions, a bounce the   *)
(* sender is rid of has been recorded, and only a DATA that failed after    *)
(* the recording, or whose 250 was lost, leads to a second record           *)
(* (smtp/inbound Data, bounce.Record).                                      *)
THEOREM BouncesKept == Spec => []BouncesRecorded
<1>1. Init => BounceInv
  <2>. SUFFICES ASSUME Init PROVE BounceInv
    OBVIOUS
  <2>1. session.verp = {} /\ session.pc = "idle" /\ \A a \in Verp : session.rcpt[a] = {}
    BY NoSessionType, Constants DEF Init
  <2>2. want = Addresses /\ bounces = [a \in Verp |-> 0]
    BY DEF Init
  <2>. QED
    BY <2>1, <2>2, Constants DEF BounceInv
<1>2. BounceInv => BouncesRecorded
  BY DEF BounceInv, BouncesRecorded
<1>. QED
  BY <1>1, <1>2, TypeInvariant, NextBounce, PTL DEF Spec

(* RCPT answers 550 to an address only when no mailbox that any stage of    *)
(* the resolver can lead to, tag, route, pattern or catch-all, was active   *)
(* from the first query to the last, whatever was done to mailboxes between *)
(* the queries (routing/routing.go Resolve).                                *)
THEOREM RefusesOnlyIfNone == Spec => RefusedOnlyIfNone
<1>1. TypeOK /\ SearchInv /\ [Next]_vars =>
        [\A a \in (refused' \ refused) \ Verp :
           \A i \in DOMAIN Stages(a) : Stages(a)[i] \cap steady = {}]_vars
  <2>. SUFFICES ASSUME TypeOK, SearchInv, Next, NEW a \in (refused' \ refused) \ Verp
                PROVE  \A i \in DOMAIN Stages(a) : Stages(a)[i] \cap steady = {}
    OBVIOUS
  <2>0. faults \in Nat /\ session \in Session
    BY DEF TypeOK, LifeTypeOK
  <2>1. PICK b \in Addresses : RcptBounce(b) \/ ResolveStage(b)
    BY DEF Next, Meanwhile, Beside, Deliver, inVars, Mail, Rcpt, Data, Record, CheckSpam, Pending, Attach, Reply, Refill,
           OtherMail
  <2>2. a = b
    <3>1. refused' = refused \/ refused' = refused \cup {b}
      <4>1. CASE RcptBounce(b)
        BY <4>1 DEF RcptBounce, Accept, Defer, Refuse
      <4>2. CASE ResolveStage(b)
        BY <4>2 DEF ResolveStage, Accept, Defer, Refuse
      <4>. QED
        BY <2>1, <4>1, <4>2
    <3>. QED
      BY <3>1
  <2>3. ResolveStage(b)
    BY <2>1, <2>2 DEF RcptBounce
  <2>4. ~PassesOn(b) /\ ~Defer(b) /\ \A boxes \in SUBSET Mailboxes : ~Accept(b, boxes)
    BY DEF PassesOn, Defer, Accept
  <2>. QED
    BY <2>0, <2>2, <2>3, <2>4, StageOfSearch
<1>. QED
  BY <1>1, TypeInvariant, PTL DEF Spec, RefusedOnlyIfNone

==============================================================================
