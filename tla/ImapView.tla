------------------------------- MODULE ImapView -------------------------------
(***************************************************************************)
(* What an IMAP session shows of the folder its client has selected        *)
(* (internal/imapserver: view.go, session.go, copy.go), while other        *)
(* sessions, deliveries and the REST interface change the folder.          *)
(*                                                                         *)
(* The session keeps a view: the messages in the order of the sequence     *)
(* numbers its client uses.  The client keeps a mirror of it, which it     *)
(* updates from the EXPUNGE and EXISTS responses alone; the model computes *)
(* those responses as the code does and applies them as a client does.     *)
(* The view follows the folder through resync, prompted by the changes     *)
(* the store publishes (which may be lost on the way) or by its age.       *)
(*                                                                         *)
(* A handler is several steps wherever it reads or writes the database or  *)
(* the change channel.  A message is its UID; of its flags one is modelled.*)
(***************************************************************************)
EXTENDS Integers, FiniteSets, Sequences, SequencesExt

CONSTANTS
  MaxUID,      \* number of messages the folder ever holds
  FlagValues,  \* flags of a message: "plain", "seen", or "deleted" (\\Deleted)
  Returns,     \* a message may come back under its old UID (label folders)
  InArchive,   \* the selected folder is the one named Archive
  MaxWire      \* bound on changes committed and not yet published

UIDs == 1..MaxUID

ASSUME ViewAssumption ==
  /\ MaxUID \in Nat \ {0}
  /\ "deleted" \in FlagValues /\ FlagValues \subseteq {"plain", "seen", "deleted"}
  /\ "plain" \in FlagValues => "seen" \in FlagValues
  /\ Returns \in BOOLEAN
  /\ InArchive \in BOOLEAN /\ ~(InArchive /\ Returns)
  /\ MaxWire \in Nat \ {0}

VARIABLES
  rows,    \* the folder in the database
  wire,    \* changes committed and not yet published
  queued,  \* the change channel of the view is not empty
  stale,   \* lastSync is staleViewInterval ago
  view,    \* s.view
  cmd,     \* the command the session executes
  mirror,  \* the client's idea of the folder: UIDs by sequence number
  told,    \* the flag the client was last told of each message
  muted,   \* history: flag changes that were swallowed
  broken   \* history: an EXPUNGE broke off after it had reported some

vars == <<rows, wire, queued, stale, view, cmd, mirror, told, muted, broken>>
folder == <<rows, wire>>
client == <<mirror, told, muted>>

(* "hidden": a label's link to a message that is deleted; it can come back. *)
Row   == [st : {"none", "live", "hidden", "gone"}, flag : FlagValues]
Entry == [uid : UIDs, flag : FlagValues, gone : BOOLEAN]

(* The entries of a view, by sequence number, and what it still owes the    *)
(* client.                                                                  *)
Closed == [open |-> FALSE, entries |-> <<>>, pendingGone |-> FALSE,
           pendingExists |-> FALSE, pendingFlags |-> FALSE]

(* n: the sequence number the client gave; named: the message it meant;     *)
(* kept, at: the variables of the loop in Expunge; allow: allowExpunge.     *)
Ready == [op |-> "none", pc |-> "ready", n |-> 0, named |-> 0, flag |-> "deleted",
          kept |-> <<>>, at |-> 1, allow |-> FALSE]

Uids(es) == [i \in DOMAIN es |-> es[i].uid]
LiveUIDs == {u \in UIDs : rows[u].st = "live"}
Ascending(S) == CHOOSE s \in [1..Cardinality(S) -> S] :
                  \A i, j \in DOMAIN s : i < j => s[i] < s[j]

(* loadEntries: live rows ordered by UID. *)
Load(S) == LET us == Ascending(S)
           IN [i \in DOMAIN us |-> [uid |-> us[i], flag |-> rows[us[i]].flag, gone |-> FALSE]]

Init ==
  /\ rows = [u \in UIDs |-> [st |-> "none", flag |-> "deleted"]]
  /\ wire = 0
  /\ queued = FALSE
  /\ stale = FALSE
  /\ view = Closed
  /\ cmd = Ready
  /\ mirror = <<>>
  /\ told = [u \in UIDs |-> "unknown"]
  /\ muted = {}
  /\ broken = FALSE

------------------------------------------------------------------------------
(* The folder, as everybody else changes it. *)

Commit(u, row) ==
  /\ wire < MaxWire
  /\ rows' = [rows EXCEPT ![u] = row]
  /\ wire' = wire + 1
  /\ UNCHANGED <<queued, stale, view, cmd, client, broken>>

(* A message arrives under the next UID, unread or already deleted. *)
Arrive(u) ==
  /\ rows[u].st = "none"
  /\ \A t \in UIDs : t < u => rows[t].st # "none"
  /\ \E v \in FlagValues \ {"seen"} : Commit(u, [st |-> "live", flag |-> v])

Leave(u) ==
  /\ rows[u].st = "live"
  /\ \E st \in {"gone"} \cup (IF Returns THEN {"hidden"} ELSE {}) :
       Commit(u, [rows[u] EXCEPT !.st = st])

(* A label's link outlives the deletion of the message; when the message is *)
(* restored the link shows it again.                                        *)
Return(u) ==
  /\ rows[u].st = "hidden"
  /\ Commit(u, [rows[u] EXCEPT !.st = "live"])

SetFlag(u, v) ==
  /\ rows[u].st = "live" /\ rows[u].flag # v
  /\ Commit(u, [rows[u] EXCEPT !.flag = v])

(* Publish, dispatch: the channel of an open view receives the change, if   *)
(* the bus between the servers does not lose it.  (A full channel drops it, *)
(* but then is not empty, which is all that matters.)                       *)
Publish ==
  /\ wire > 0
  /\ wire' = wire - 1
  /\ queued' \in {queued, view.open}
  /\ UNCHANGED <<rows, stale, view, cmd, client, broken>>

(* 30 seconds pass since the last resync. *)
GrowStale ==
  /\ view.open /\ ~stale
  /\ stale' = TRUE
  /\ UNCHANGED <<folder, queued, view, cmd, client, broken>>

------------------------------------------------------------------------------
(* resync.  A definition Name_Fault that precedes Name is Name with a       *)
(* mistake the code could contain; with it in place of Name a property      *)
(* below must fail.                                                         *)

(* The mode and the writer the handlers call resync with. *)
Mode_IdleUnforced(c) ==
  [expunge |-> c.op \in {"expunge", "move", "idle"} \/ (c.op = "poll" /\ c.allow),
   exists  |-> c.op \in {"poll", "idle"},
   force   |-> c.op \in {"expunge", "move"},
   writer  |-> CASE c.op \in {"poll", "idle"} -> "all"
                 [] c.op \in {"expunge", "move"} -> "expunges"
                 [] OTHER -> "none"]
Mode(c) ==
  [expunge |-> c.op \in {"expunge", "move", "idle"} \/ (c.op = "poll" /\ c.allow),
   exists  |-> c.op \in {"poll", "idle"},
   force   |-> c.op \in {"expunge", "move", "idle"},
   writer  |-> CASE c.op \in {"poll", "idle"} -> "all"
                 [] c.op \in {"expunge", "move"} -> "expunges"
                 [] OTHER -> "none"]

(* drainChanges empties the channel; without a change, a debt this call can *)
(* settle, or age, the view is left alone.                                  *)
NeedsLoad(m) ==
  \/ queued \/ m.force \/ stale
  \/ m.expunge /\ view.pendingGone
  \/ m.exists /\ view.pendingExists
  \/ m.writer # "none" /\ view.pendingFlags

Drain ==
  /\ cmd.pc = "drain"
  /\ queued' = FALSE
  /\ cmd' = [cmd EXCEPT !.pc = IF NeedsLoad(Mode(cmd)) THEN "load" ELSE "act"]
  /\ UNCHANGED <<folder, stale, view, client, broken>>

Stays(e, m) == e.uid \in LiveUIDs \/ ~m.expunge

(* An entry that stays: flag changes are held back without a writer. *)
Refreshed_FlagsAnyway(e, m) ==
  IF e.uid \in LiveUIDs
  THEN [uid |-> e.uid, gone |-> FALSE, flag |-> rows[e.uid].flag]
  ELSE [e EXCEPT !.gone = TRUE]
Refreshed_ZeroEntry(e, m) ==
  IF e.uid \in LiveUIDs THEN Refreshed_FlagsAnyway(e, m) ELSE [e EXCEPT !.uid = 0]
Refreshed(e, m) ==
  IF e.uid \in LiveUIDs
  THEN [uid |-> e.uid, gone |-> FALSE,
        flag |-> IF m.writer = "none" THEN e.flag ELSE rows[e.uid].flag]
  ELSE [e EXCEPT !.gone = TRUE]

FlagChanged(e) == e.uid \in LiveUIDs /\ e.flag # rows[e.uid].flag

(* A client drops the message with that number. *)
DropNumber(s, n) == IF n \in DOMAIN s THEN RemoveAt(s, n) ELSE s

(* The number in the EXPUNGE for the entry at index i. *)
ExpungeNumber_OldIndex(i, next) == i
ExpungeNumber(i, next) == Len(next) + 1

(* The loop over the entries: those that stay, and what the EXPUNGEs for    *)
(* the others leave of the client's idea.                                   *)
Walk(m) ==
  LET es == view.entries
      walk[i \in 0..Len(es)] ==
        IF i = 0 THEN [next |-> <<>>, left |-> mirror]
        ELSE LET w == walk[i - 1]
             IN IF Stays(es[i], m)
                THEN [next |-> Append(w.next, Refreshed(es[i], m)), left |-> w.left]
                ELSE [next |-> w.next, left |-> DropNumber(w.left, ExpungeNumber(i, w.next))]
  IN walk[Len(es)]

(* New messages come last, only when EXISTS can be written. *)
Arrivals == LiveUIDs \ ToSet(Uids(view.entries))
Appended_Unannounced(m) == Load(Arrivals)
Appended(m) == IF m.exists /\ m.writer # "none" THEN Load(Arrivals) ELSE <<>>

Resynced(m) ==
  LET next == Walk(m).next
  IN [open |-> TRUE,
      entries |-> next \o Appended(m),
      pendingGone |-> \E i \in DOMAIN next : next[i].gone,
      pendingExists |-> Arrivals # {} /\ Appended(m) = <<>>,
      pendingFlags |-> m.writer = "none" /\ \E i \in DOMAIN view.entries : FlagChanged(view.entries[i])]

(* What the client makes of the responses: EXPUNGEs in the order written,   *)
(* then EXISTS.                                                             *)
Mirrored(m) ==
  LET less == Walk(m).left
      all  == Uids(Resynced(m).entries)
  IN IF m.exists /\ m.writer = "all" /\ Arrivals # {}
     THEN [i \in DOMAIN all |-> IF i \in DOMAIN less THEN less[i] ELSE all[i]]
     ELSE less

(* A client knows flags of the messages it has numbers for. *)
Known(t, m) == [u \in UIDs |-> IF u \in ToSet(m) THEN t[u] ELSE "unknown"]

LoadView ==
  /\ cmd.pc = "load"
  /\ LET m == Mode(cmd)
         changed == {e.uid : e \in {x \in ToSet(view.entries) : FlagChanged(x)}}
     IN /\ view' = Resynced(m)
        /\ mirror' = Mirrored(m)
        /\ told' = Known([u \in UIDs |-> IF m.writer = "all" /\ u \in changed
                                         THEN rows[u].flag ELSE told[u]], mirror')
        /\ muted' = CASE m.writer = "all" -> muted \ changed
                      [] m.writer = "expunges" -> muted \cup changed
                      [] OTHER -> muted
  /\ stale' = FALSE
  /\ cmd' = [cmd EXCEPT !.pc = "act"]
  /\ UNCHANGED <<folder, queued, broken>>

(* The query fails: the command ends with an error; what was drained is     *)
(* forgotten.                                                               *)
LoadFails ==
  /\ cmd.pc = "load"
  /\ cmd' = Ready
  /\ UNCHANGED <<folder, queued, stale, view, client, broken>>

------------------------------------------------------------------------------
(* Commands.  The IMAP library polls after each, and forbids EXPUNGE        *)
(* responses after FETCH, STORE and SEARCH.                                 *)

PollAfter(op) == [Ready EXCEPT !.op = "poll", !.pc = "drain",
                               !.allow = op \notin {"fetch", "search", "store"}]
Begin(c) ==
  /\ cmd.pc = "ready" /\ view.open
  /\ cmd' = [c EXCEPT !.pc = "drain"]
  /\ UNCHANGED <<folder, queued, stale, view, client, broken>>

(* Select reads the folder first, then gives up the old view and subscribes *)
(* to the changes.                                                          *)
Select ==
  /\ cmd.pc = "ready"
  /\ cmd' = [Ready EXCEPT !.op = "select", !.pc = "subscribe", !.kept = Load(LiveUIDs)]
  /\ UNCHANGED <<folder, queued, stale, view, client, broken>>

Subscribe ==
  /\ cmd.pc = "subscribe"
  /\ view' = [Closed EXCEPT !.open = TRUE, !.entries = cmd.kept]
  /\ mirror' = Uids(cmd.kept)
  /\ queued' = FALSE
  /\ stale' = FALSE
  /\ told' = [u \in UIDs |-> "unknown"]
  /\ muted' = {}
  /\ broken' = FALSE
  /\ cmd' = PollAfter("select")
  /\ UNCHANGED folder

(* Unselect, or the end of the session. *)
Unselect ==
  /\ cmd.pc = "ready" /\ view.open
  /\ view' = Closed
  /\ mirror' = <<>>
  /\ queued' = FALSE /\ stale' = FALSE /\ broken' = FALSE
  /\ told' = [u \in UIDs |-> "unknown"]
  /\ muted' = {}
  /\ UNCHANGED <<folder, cmd>>

Noop == Begin(PollAfter("noop"))

(* Poll. *)
PollDone ==
  /\ cmd.pc = "act" /\ cmd.op = "poll"
  /\ cmd' = Ready
  /\ UNCHANGED <<folder, queued, stale, view, client, broken>>

(* FETCH tells the flags of the view; SEARCH and COPY have no effect here.  *)
Read(op) == Begin([Ready EXCEPT !.op = op])

ReadDone ==
  /\ cmd.pc = "act" /\ cmd.op \in {"fetch", "search", "copy"}
  /\ LET shown == {e \in ToSet(view.entries) : cmd.op = "fetch" /\ ~e.gone}
     IN /\ told' = [u \in UIDs |-> IF \E e \in shown : e.uid = u
                                   THEN (CHOOSE e \in shown : e.uid = u).flag ELSE told[u]]
        /\ muted' = muted \ {e.uid : e \in shown}
  /\ cmd' = PollAfter(cmd.op)
  /\ UNCHANGED <<folder, queued, stale, view, mirror, broken>>

(* FETCH n BODY[]: the first look at a message marks it seen (markSeen      *)
(* reads the flags, then writes them back) and tells the client.            *)
Seen(v) == IF v = "plain" THEN "seen" ELSE v

FetchBody(n) ==
  /\ n \in DOMAIN mirror \cap DOMAIN view.entries
  /\ Begin([Ready EXCEPT !.op = "body", !.n = n, !.named = mirror[n]])

BodyRead ==
  /\ cmd.pc = "act" /\ cmd.op = "body"
  /\ LET e == view.entries[cmd.n]
         marks == ~e.gone /\ e.flag = "plain"
     IN \/ /\ marks => rows[e.uid].st # "live"
           /\ cmd' = PollAfter("fetch")
        \/ /\ marks
           /\ cmd' = [cmd EXCEPT !.pc = "end", !.flag = Seen(rows[e.uid].flag)]
  /\ UNCHANGED <<folder, queued, stale, view, client, broken>>

BodyWrite ==
  /\ cmd.pc = "end" /\ cmd.op = "body"
  /\ wire < MaxWire
  /\ LET u == view.entries[cmd.n].uid
     IN /\ rows' = [rows EXCEPT ![u].flag = cmd.flag]
        /\ view' = [view EXCEPT !.entries[cmd.n].flag = cmd.flag]
        /\ told' = [told EXCEPT ![u] = cmd.flag]
        /\ muted' = muted \ {u}
  /\ wire' = wire + 1
  /\ cmd' = PollAfter("fetch")
  /\ UNCHANGED <<queued, stale, mirror, broken>>

(* STORE n FLAGS v: n is resolved in the resynced view. *)
Store(n, v) ==
  /\ n \in DOMAIN mirror \cap DOMAIN view.entries
  /\ Begin([Ready EXCEPT !.op = "store", !.n = n, !.named = mirror[n], !.flag = v])

(* The rows are read and updated; an entry known to be gone is skipped, and *)
(* so is a row that no longer exists anywhere.                              *)
StoreWrite ==
  /\ cmd.pc = "act" /\ cmd.op = "store"
  /\ LET e == view.entries[cmd.n]
     IN \/ /\ e.gone \/ rows[e.uid].st # "live"
           /\ cmd' = PollAfter("store")
           /\ queued' = FALSE
           /\ UNCHANGED folder
        \/ /\ ~e.gone
           /\ wire < MaxWire
           /\ rows' = [rows EXCEPT ![e.uid].flag = cmd.flag]
           /\ wire' = wire + 1
           /\ cmd' = [cmd EXCEPT !.pc = "end"]
           /\ UNCHANGED queued
  /\ UNCHANGED <<stale, view, client, broken>>

(* The view takes the new flag over, the client is told unless it asked for *)
(* silence, and whatever was published meanwhile is discarded.              *)
StoreEnd ==
  /\ cmd.pc = "end" /\ cmd.op = "store"
  /\ LET u == view.entries[cmd.n].uid
     IN /\ view' = [view EXCEPT !.entries[cmd.n].flag = cmd.flag]
        /\ told' \in {[told EXCEPT ![u] = cmd.flag], [told EXCEPT ![u] = "unknown"]}
        /\ muted' = muted \ {u}
  /\ queued' = FALSE
  /\ cmd' = PollAfter("store")
  /\ UNCHANGED <<folder, stale, mirror, broken>>

(* EXPUNGE. *)
Expunge == Begin([Ready EXCEPT !.op = "expunge"])

Current == view.entries[cmd.at]
Expunging == cmd.pc = "act" /\ cmd.op = "expunge"

(* Not marked deleted, or not in the set of a UID EXPUNGE: with some set,   *)
(* any entry may be passed over.                                            *)
ExpungeKeep ==
  /\ Expunging /\ cmd.at <= Len(view.entries)
  /\ cmd' = [cmd EXCEPT !.at = @ + 1, !.kept = Append(@, Current)]
  /\ UNCHANGED <<folder, queued, stale, view, client, broken>>

(* The number of the entry among those that remain. *)
Remaining_OldIndex == cmd.at
Remaining == Len(cmd.kept) + 1

(* expungeEntry moves the message to the Trash (or deletes it there). *)
ExpungeEntry ==
  /\ Expunging /\ cmd.at <= Len(view.entries)
  /\ Current.flag = "deleted"
  /\ wire < MaxWire
  /\ rows' = [rows EXCEPT ![Current.uid].st = "gone"]
  /\ wire' = wire + 1
  /\ mirror' = DropNumber(mirror, Remaining)
  /\ told' = Known(told, mirror')
  /\ cmd' = [cmd EXCEPT !.at = @ + 1]
  /\ UNCHANGED <<queued, stale, view, muted, broken>>

(* It fails: the handler returns with the entries as they were. *)
ExpungeFails ==
  /\ Expunging /\ cmd.at <= Len(view.entries)
  /\ Current.flag = "deleted"
  /\ broken' = (broken \/ cmd.at > Len(cmd.kept) + 1)
  /\ cmd' = PollAfter("expunge")
  /\ UNCHANGED <<folder, queued, stale, view, client>>

ExpungeEnd ==
  /\ Expunging /\ cmd.at > Len(view.entries)
  /\ view' = [view EXCEPT !.entries = cmd.kept]
  /\ queued' = FALSE
  /\ cmd' = PollAfter("expunge")
  /\ UNCHANGED <<folder, stale, client, broken>>

(* MOVE n: the message is looked up before the resync renumbers the view;   *)
(* it is moved from wherever it is by then, unless it is deleted.  A MOVE   *)
(* to a label links the message and moves it to the Archive: one that is    *)
(* there already stays, under its UID ("filed").                            *)
Move(n) ==
  /\ n \in DOMAIN mirror \cap DOMAIN view.entries
  /\ Begin([Ready EXCEPT !.op = "move", !.n = n, !.named = mirror[n],
                         !.at = view.entries[n].uid])

(* The index of the message to move, 0 if it has left. *)
MoveIndex_ByNumber == IF cmd.n \in DOMAIN view.entries THEN cmd.n ELSE 0
MoveIndex == SelectInSeq(Uids(view.entries), LAMBDA u : u = cmd.at)

MoveOne ==
  /\ cmd.pc = "act" /\ cmd.op = "move"
  /\ \/ /\ MoveIndex # 0 => rows[view.entries[MoveIndex].uid].st # "live"
        /\ cmd' = PollAfter("move")
        /\ UNCHANGED folder
     \/ /\ MoveIndex # 0
        /\ rows[view.entries[MoveIndex].uid].st # "hidden"
        /\ wire < MaxWire
        /\ rows' = [rows EXCEPT ![view.entries[MoveIndex].uid].st = "gone"]
        /\ wire' = wire + 1
        /\ cmd' = [cmd EXCEPT !.pc = "end"]
     \/ /\ InArchive /\ MoveIndex # 0
        /\ rows[view.entries[MoveIndex].uid].st = "live"
        /\ cmd' = [cmd EXCEPT !.pc = "filed"]
        /\ UNCHANGED folder
  /\ UNCHANGED <<queued, stale, view, client, broken>>

MoveEnd ==
  /\ cmd.pc \in {"end", "filed"} /\ cmd.op = "move"
  /\ view' = [view EXCEPT !.entries = RemoveAt(@, MoveIndex)]
  /\ mirror' = DropNumber(mirror, MoveIndex)
  /\ told' = Known(told, mirror')
  /\ queued' = FALSE
  /\ cmd' = PollAfter("move")
  /\ UNCHANGED <<folder, stale, muted, broken>>

(* A read or a write of these commands fails, the last one perhaps after    *)
(* the first message of several is done: the view is left as it was.        *)
CommandFails ==
  /\ cmd.pc \in {"act", "end", "filed"} /\ cmd.op \in {"body", "store", "move"}
  /\ cmd' = PollAfter(IF cmd.op = "body" THEN "fetch" ELSE cmd.op)
  /\ UNCHANGED <<folder, queued, stale, view, client, broken>>

(* IDLE waits for a change or for its ticker, resyncs, and waits again. *)
Idle ==
  /\ cmd.pc = "ready" /\ view.open
  /\ cmd' = [Ready EXCEPT !.op = "idle", !.pc = "idle"]
  /\ UNCHANGED <<folder, queued, stale, view, client, broken>>

IdleWake ==
  /\ cmd.pc = "idle"
  /\ cmd' = [cmd EXCEPT !.pc = "drain"]
  /\ UNCHANGED <<folder, queued, stale, view, client, broken>>

IdleWait ==
  /\ cmd.pc = "act" /\ cmd.op = "idle"
  /\ cmd' = [cmd EXCEPT !.pc = "idle"]
  /\ UNCHANGED <<folder, queued, stale, view, client, broken>>

IdleDone ==
  /\ cmd.pc = "idle"
  /\ cmd' = PollAfter("idle")
  /\ UNCHANGED <<folder, queued, stale, view, client, broken>>

Steps ==
  \/ Drain \/ LoadView \/ LoadFails \/ Subscribe \/ PollDone \/ ReadDone
  \/ BodyRead \/ BodyWrite \/ StoreWrite \/ StoreEnd
  \/ ExpungeKeep \/ ExpungeEntry \/ ExpungeFails \/ ExpungeEnd
  \/ MoveOne \/ MoveEnd \/ CommandFails \/ IdleWait

Next ==
  \/ \E u \in UIDs : Arrive(u) \/ Leave(u) \/ Return(u) \/ \E v \in FlagValues : SetFlag(u, v)
  \/ Publish \/ GrowStale
  \/ Select \/ Unselect \/ Noop \/ Expunge \/ Idle \/ IdleWake \/ IdleDone
  \/ \E op \in {"fetch", "search", "copy"} : Read(op)
  \/ \E n \in UIDs : FetchBody(n) \/ Move(n) \/ \E v \in FlagValues : Store(n, v)
  \/ Steps

Spec == Init /\ [][Next]_vars

(* A handler that has begun goes on, and the ticker of IDLE fires. *)
Fairness == WF_vars(Steps) /\ WF_vars(IdleWake)

FairSpec == Spec /\ Fairness

------------------------------------------------------------------------------
(* Properties. *)

(* The folder, the view, the command and the client have their shape. *)
TypeOK ==
  /\ rows \in [UIDs -> Row]
  /\ wire \in 0..MaxWire
  /\ queued \in BOOLEAN /\ stale \in BOOLEAN /\ broken \in BOOLEAN
  /\ view \in [open : BOOLEAN, entries : Seq(Entry), pendingGone : BOOLEAN,
               pendingExists : BOOLEAN, pendingFlags : BOOLEAN]
  /\ cmd.named \in 0..MaxUID /\ cmd.kept \in Seq(Entry)
  /\ mirror \in Seq(UIDs)
  /\ told \in [UIDs -> FlagValues \cup {"unknown"}]
  /\ muted \subseteq UIDs

(* The sequence of UIDs the session goes by; in the middle of an EXPUNGE    *)
(* the part already dealt with has been renumbered.                         *)
Numbering ==
  IF Expunging
  THEN Uids(cmd.kept) \o Uids(SubSeq(view.entries, cmd.at, Len(view.entries)))
  ELSE Uids(view.entries)

SameNumbering == mirror = Numbering

(* Client and server mean the same message by a sequence number, after any  *)
(* mix of EXPUNGE and EXISTS responses from polls, IDLE, EXPUNGE and MOVE,  *)
(* as long as no EXPUNGE failed half way.                                   *)
SameNumberingUnlessBroken == view.open /\ ~broken => SameNumbering

(* The client is told of the expunge of a message that is still there.      *)
FalseExpunge ==
  /\ ~broken /\ view.open /\ view'.open /\ cmd.pc # "subscribe"
  /\ \E i \in DOMAIN mirror : rows'[mirror[i]].st = "live" /\ mirror[i] \notin ToSet(mirror')

(* What MOVE promises: the client is told of an expunge only of a message   *)
(* that has left.  This fails: MOVE out of the Archive to a label reports   *)
(* the expunge of a message that stays (moveOne, and Move of the store).    *)
NoFalseExpunge == [][~FalseExpunge]_vars

(* That MOVE apart, no resync, EXPUNGE or MOVE, whatever others do to the   *)
(* folder before and while it runs, reports the expunge of a message that   *)
(* is still there.                                                          *)
NoFalseExpungeUnlessFiled == [][cmd.pc # "filed" => ~FalseExpunge]_vars

(* FETCH, STORE and MOVE by sequence number change the message the client named,   *)
(* whatever left the folder in the meantime.                                *)
RightTarget ==
  [][~broken /\ cmd.op \in {"body", "store", "move"} /\ cmd' # cmd =>
       \A u \in UIDs : rows'[u] # rows[u] => u = cmd.named]_vars

(* The flags the view takes its client to know are those it was told,       *)
(* apart from changes that EXPUNGE and MOVE come across: expungeOnlyWriter  *)
(* takes them for written.  (After an EXPUNGE that failed half way the      *)
(* client may hold on to a message the view has dropped, and to its flags   *)
(* when the message returns.)                                               *)
FlagsAgreeUnlessMuted ==
  ~broken =>
    \A i \in DOMAIN view.entries :
      LET e == view.entries[i]
      IN told[e.uid] = "unknown" \/ told[e.uid] = e.flag \/ e.uid \in muted

(* A client that stays in IDLE is brought up to date again and again (and   *)
(* stays so once the folder no longer changes), even if every notification  *)
(* was lost.                                                                *)
IdleConverges ==
  <>[](cmd.op = "idle" /\ ~broken) => []<>(ToSet(mirror) = LiveUIDs)

==============================================================================
