------------------------------ MODULE MailStore ------------------------------
(***************************************************************************)
(* The rows that make up one mailbox (internal/mailstore/store.go) and the *)
(* callers that work on them at the same time: IMAP sessions, REST         *)
(* requests, the routing rules of a delivery, the cleanup worker.          *)
(*                                                                         *)
(* A mailbox has containers ("boxes"): folders and labels.  Each has a     *)
(* UIDVALIDITY and a counter uid_next from which the UIDs of its messages  *)
(* are taken.  A MailboxMessage row places a message in one folder; a      *)
(* MailboxMessageLabel row (a "link") shows it in a label as well.  The    *)
(* unique index on (mailbox_id, message_id) allows one row per message, so *)
(* a row is identified here by its message.                                *)
(*                                                                         *)
(* A transaction that only writes rows it locks (Attach, Move, SoftDelete, *)
(* AddLabel) is one step.  Where the code reads first and writes later (a  *)
(* caller holding an item, SoftDeleteMany, RecomputeUsedBytes, the         *)
(* deletion of a container) the read and the write are separate steps, as  *)
(* they are at the READ COMMITTED isolation the server runs with.          *)
(***************************************************************************)
EXTENDS Integers, FiniteSets, FiniteSetsExt

CONSTANTS
  Messages,       \* message ids
  Size,           \* Size[m]: Message.size_bytes
  SystemFolders,  \* folders created with the mailbox; each is named after itself
  Trash,          \* the system folder the cleanup worker empties
  UserFolders,    \* ids for folders that clients create
  Labels,         \* ids for labels that clients create
  Names,          \* names clients give to folders and labels
  Requests,       \* IMAP commands, REST requests, the cleanup worker
  Engines,        \* runs of the routing rules for one delivery
  Quota,          \* quota_bytes; 0 or less is unlimited
  MaxUID,         \* bound on uid_next
  MaxClock        \* bound on the clock (seconds) UIDVALIDITY is taken from

Folders  == SystemFolders \cup UserFolders
Boxes    == Folders \cup Labels
AllNames == SystemFolders \cup Names
Sessions == Requests \cup Engines

ASSUME ConstantsAssumption ==
  /\ IsFiniteSet(Messages) /\ Messages # {}
  /\ Size \in [Messages -> Nat \ {0}]
  /\ Trash \in SystemFolders
  /\ SystemFolders \cap (UserFolders \cup Names) = {}
  /\ Folders \cap Labels = {}
  /\ Requests \cap Engines = {}
  /\ Quota \in Int
  /\ MaxUID \in Nat \ {0}
  /\ MaxClock \in Nat \ {0}

VARIABLES
  box,      \* Folder and Label rows
  item,     \* MailboxMessage rows
  link,     \* link[l][m]: the UID of m in label l, 0 when there is no link
  used,     \* Mailbox.used_bytes
  snap,     \* the item a caller read earlier and still holds
  job,      \* multi-statement operation a request is in the middle of
  now,      \* seconds
  pub,      \* changes published by the last step
  ever,     \* history: every (box, UID, message) a client could have seen
  raced,    \* history: used_bytes was last touched through a stale read
  exempt,   \* history: bytes taken in without a quota check
  fresh     \* history: what the last step had read before was still so

vars == <<box, item, link, used, snap, job, now, pub, ever, raced, exempt, fresh>>

------------------------------------------------------------------------------
(* Rows. *)

BoxRow == [st : {"absent", "present", "gone"}, name : AllNames,
           uidNext : 1..MaxUID, uidValidity : 0..MaxClock]

(* "deleted": deleted_at is set; "expired": it is older than the 30 days    *)
(* the cleanup worker keeps a deleted row.                                  *)
ItemRow == [st : {"none", "live", "deleted", "expired", "purged"},
            folder : Folders, uid : 0..MaxUID]

Snapshot == [msg : Messages, row : ItemRow]

Held == [held : BOOLEAN, msg : Messages, row : ItemRow]

Job == [pc : {"idle", "listed", "selected", "droprow", "recompute"},
        box : Boxes, drop : BOOLEAN, list : SUBSET Snapshot,
        live : SUBSET Messages]

Present(c)  == box[c].st = "present"
HasRow(r)   == r.st \in {"live", "deleted", "expired"}
Live(m)     == item[m].st = "live"
LiveSet     == {m \in Messages : Live(m)}
Bytes(S)    == MapThenSumSet(LAMBDA m : Size[m], S)
LiveBytes   == Bytes(LiveSet)

(* What a client that selects a box can be shown: the live rows of a        *)
(* folder, the links of a label whose item is live.                         *)
Visible ==
  {[box |-> item[m].folder, name |-> box[item[m].folder].name,
    validity |-> box[item[m].folder].uidValidity, uid |-> item[m].uid, msg |-> m]
      : m \in {x \in LiveSet : Present(item[x].folder)}}
  \cup
  {[box |-> p[1], name |-> box[p[1]].name,
    validity |-> box[p[1]].uidValidity, uid |-> link[p[1]][p[2]], msg |-> p[2]]
      : p \in {x \in Labels \X LiveSet : Present(x[1]) /\ link[x[1]][x[2]] # 0}}

Nothing == [held |-> FALSE, msg |-> CHOOSE m \in Messages : TRUE,
            row |-> [st |-> "none", folder |-> Trash, uid |-> 0]]

IdleJob == [pc |-> "idle", box |-> Trash, drop |-> FALSE, list |-> {}, live |-> {}]

Init ==
  /\ box = [c \in Boxes |->
              IF c \in SystemFolders
              THEN [st |-> "present", name |-> c, uidNext |-> 1, uidValidity |-> 1]
              ELSE [st |-> "absent", name |-> Trash, uidNext |-> 1, uidValidity |-> 0]]
  /\ item = [m \in Messages |-> [st |-> "none", folder |-> Trash, uid |-> 0]]
  /\ link = [l \in Labels |-> [m \in Messages |-> 0]]
  /\ used = 0
  /\ snap = [s \in Sessions |-> Nothing]
  /\ job = [s \in Requests |-> IdleJob]
  /\ now = 1
  /\ pub = {}
  /\ ever = {}
  /\ raced = FALSE
  /\ exempt = 0
  /\ fresh = TRUE

------------------------------------------------------------------------------
(* Helpers of the operations.  A definition Name_Fault that precedes Name   *)
(* is Name with a mistake the code could contain; with it in place of Name  *)
(* one of the properties below must fail.                                   *)

(* allocateFolderUID, allocateLabelUID: the UID taken is uid_next; the      *)
(* increment fails when the row is gone.                                    *)
CanAllocate(c)  == Present(c) /\ box[c].uidNext < MaxUID
AllocatedUID_OffByOne(c) == box[c].uidNext - 1
AllocatedUID(c) == box[c].uidNext
Allocate_NoIncrement(c) == box' = box
Allocate(c)     == box' = [box EXCEPT ![c].uidNext = @ + 1]

(* addUsedBytes with EnforceQuota: the conditional UPDATE. *)
Fits_IgnoresSize(m) == Quota <= 0 \/ used < Quota
Fits(m) == Quota <= 0 \/ used + Size[m] <= Quota

Exists(c, uid)  == [kind |-> "exists", box |-> c, uid |-> uid]
Expunge(c, uid) == [kind |-> "expunge", box |-> c, uid |-> uid]

Holds(s, m) == snap[s].held /\ snap[s].msg = m

(* A request drops the item once it has used it; the rules apply every      *)
(* action to the item the delivery created.                                 *)
AfterUse(s) == snap' = IF s \in Engines THEN snap ELSE [snap EXCEPT ![s] = Nothing]

(* Every step may show clients something new. *)
Observe == ever' = ever \cup Visible'
Quietly == pub' = {} /\ fresh' = TRUE /\ Observe

Idle(s) == s \in Requests => job[s].pc = "idle"

------------------------------------------------------------------------------
(* Operations. *)

(* Attach: a delivery, an APPEND, a COPY, an import or a submission puts a  *)
(* message into a folder.  Over quota, or a second row for the message, is  *)
(* an error and rolls back.                                                 *)
Attach(s, m, f) ==
  /\ Idle(s) /\ ~snap[s].held
  /\ item[m].st = "none"
  /\ CanAllocate(f)
  /\ Fits(m)
  /\ Allocate(f)
  /\ LET row == [st |-> "live", folder |-> f, uid |-> AllocatedUID(f)]
     IN /\ item' = [item EXCEPT ![m] = row]
        /\ snap' = IF s \in Engines
                   THEN [snap EXCEPT ![s] = [held |-> TRUE, msg |-> m, row |-> row]]
                   ELSE snap
  /\ used' = used + Size[m]
  /\ pub' = {Exists(f, AllocatedUID(f))}
  /\ fresh' = TRUE
  /\ UNCHANGED <<link, job, now, raced, exempt>>
  /\ Observe

(* A request reads the row it is going to work on (MailboxMessage.Get). *)
Get(s, m) ==
  /\ s \in Requests /\ Idle(s) /\ ~snap[s].held
  /\ HasRow(item[m])
  /\ snap' = [snap EXCEPT ![s] = [held |-> TRUE, msg |-> m, row |-> item[m]]]
  /\ UNCHANGED <<box, item, link, used, job, now, raced, exempt>>
  /\ Quietly

(* Whether a Move restores, by the item the caller holds. *)
Restores(row) == row.st # "live"

(* What a Move publishes: a restored message was in no folder before. *)
MoveChanges_AlwaysExpunge(old, f, uid) == {Exists(f, uid), Expunge(f, uid)}
MoveChanges(old, f, uid) ==
  {Exists(f, uid)} \cup (IF Restores(old) THEN {} ELSE {Expunge(old.folder, old.uid)})

(* Move within the folder of a live item is nothing; otherwise the row as   *)
(* it is now gets a new place, whatever the caller's item said of it.       *)
Move(s, m, f) ==
  /\ Idle(s) /\ Holds(s, m)
  /\ AfterUse(s)
  /\ LET old == snap[s].row
     IN \/ /\ old.folder = f /\ ~Restores(old)
           /\ UNCHANGED <<box, item, used, raced, exempt>>
           /\ pub' = {} /\ fresh' = TRUE
        \/ /\ old.folder # f \/ Restores(old)
           /\ CanAllocate(f)
           /\ HasRow(item[m])
           /\ Allocate(f)
           /\ item' = [item EXCEPT ![m] = [st |-> "live", folder |-> f, uid |-> AllocatedUID(f)]]
           /\ used' = IF Restores(old) THEN used + Size[m] ELSE used
           /\ exempt' = IF Restores(old) THEN exempt + Size[m] ELSE exempt
           /\ pub' = MoveChanges(old, f, AllocatedUID(f))
           /\ raced' = (raced \/ (old.st = "live") # Live(m))
           /\ fresh' = (old = item[m])
  /\ UNCHANGED <<link, job, now>>
  /\ Observe

SoftDelete_FreesTwice(s, m) ==
  /\ Idle(s) /\ Holds(s, m)
  /\ snap[s].row.st = "live"
  /\ AfterUse(s)
  /\ item' = [item EXCEPT ![m].st = IF Live(m) THEN "deleted" ELSE @]
  /\ used' = used - Size[m]
  /\ pub' = {Expunge(snap[s].row.folder, snap[s].row.uid)}
  /\ fresh' = (snap[s].row = item[m])
  /\ UNCHANGED <<box, link, job, now, raced, exempt>>
  /\ Observe

(* SoftDelete: only the row that is not yet deleted frees its bytes. *)
SoftDelete(s, m) ==
  /\ Idle(s) /\ Holds(s, m)
  /\ snap[s].row.st = "live"
  /\ AfterUse(s)
  /\ IF Live(m)
     THEN /\ item' = [item EXCEPT ![m].st = "deleted"]
          /\ used' = used - Size[m]
     ELSE UNCHANGED <<item, used>>
  /\ pub' = {Expunge(snap[s].row.folder, snap[s].row.uid)}
  /\ fresh' = (snap[s].row = item[m])
  /\ UNCHANGED <<box, link, job, now, raced, exempt>>
  /\ Observe

(* AddLabel: an existing link is returned as it is; the item is not read   *)
(* again, and no foreign key ties the link to its row.                      *)
AddLabel(s, m, l) ==
  /\ Idle(s) /\ Holds(s, m)
  /\ link[l][m] = 0
  /\ CanAllocate(l)
  /\ AfterUse(s)
  /\ Allocate(l)
  /\ link' = [link EXCEPT ![l][m] = AllocatedUID(l)]
  /\ pub' = {Exists(l, AllocatedUID(l))}
  /\ fresh' = (snap[s].row = item[m])
  /\ UNCHANGED <<item, used, job, now, raced, exempt>>
  /\ Observe

RemoveLabel(s, m, l) ==
  /\ s \in Requests /\ Idle(s) /\ Holds(s, m)
  /\ link[l][m] # 0
  /\ AfterUse(s)
  /\ link' = [link EXCEPT ![l][m] = 0]
  /\ pub' = {Expunge(l, link[l][m])}
  /\ fresh' = (snap[s].row = item[m])
  /\ UNCHANGED <<box, item, used, job, now, raced, exempt>>
  /\ Observe

------------------------------------------------------------------------------
(* SoftDeleteMany, for the deletion of a folder and for the Trash cleanup. *)

SnapshotsIn(f) == {[msg |-> m, row |-> item[m]] : m \in {x \in LiveSet : item[x].folder = f}}

(* The caller lists what it will delete: all of a folder it then removes,   *)
(* or the messages that have been 30 days in the folder named Trash.        *)
ListFolder(s, f, drop) ==
  /\ Idle(s) /\ ~snap[s].held
  /\ Present(f)
  /\ IF drop THEN f \notin SystemFolders ELSE box[f].name = Trash
  /\ \E list \in SUBSET SnapshotsIn(f) :
       /\ drop => list = SnapshotsIn(f)
       /\ ~drop => list # {}
       /\ job' = [job EXCEPT ![s] = [IdleJob EXCEPT !.pc = IF list = {} THEN "droprow" ELSE "listed",
                                                    !.box = f, !.drop = drop, !.list = list]]
  /\ UNCHANGED <<box, item, link, used, snap, now, raced, exempt>>
  /\ Quietly

(* softDeleteBatchInTx, the SELECT of the rows that are still live. *)
SelectLive(s) ==
  /\ job[s].pc = "listed"
  /\ job' = [job EXCEPT ![s].pc = "selected",
                        ![s].live = {x.msg : x \in {y \in job[s].list : Live(y.msg)}}]
  /\ UNCHANGED <<box, item, link, used, snap, now, raced, exempt>>
  /\ Quietly

BatchChanges(list) == {Expunge(x.row.folder, x.row.uid) : x \in list}

(* softDeleteBatchInTx, the UPDATE: rows deleted in between are skipped,    *)
(* the bytes are freed for all that were selected.                          *)
UpdateSelected(s) ==
  /\ job[s].pc = "selected"
  /\ item' = [m \in Messages |-> IF m \in job[s].live /\ Live(m)
                                 THEN [item[m] EXCEPT !.st = "deleted"] ELSE item[m]]
  /\ used' = used - Bytes(job[s].live)
  /\ job' = [job EXCEPT ![s] = IF job[s].drop
                               THEN [IdleJob EXCEPT !.pc = "droprow", !.box = job[s].box]
                               ELSE IdleJob]
  /\ pub' = BatchChanges(job[s].list)
  /\ raced' = (raced \/ \E m \in job[s].live : ~Live(m))
  /\ fresh' = \A x \in job[s].list : x.row = item[x.msg]
  /\ UNCHANGED <<box, link, snap, now, exempt>>
  /\ Observe

(* The Folder row goes last. *)
DropFolder(s) ==
  /\ job[s].pc = "droprow" /\ job[s].box \in Folders
  /\ box' = [box EXCEPT ![job[s].box].st = "gone"]
  /\ job' = [job EXCEPT ![s] = IdleJob]
  /\ UNCHANGED <<item, link, used, snap, now, raced, exempt>>
  /\ Quietly

(* A label is deleted in two statements: its links, then its row. *)
DropLinks(s, l) ==
  /\ Idle(s) /\ ~snap[s].held
  /\ Present(l)
  /\ link' = [link EXCEPT ![l] = [m \in Messages |-> 0]]
  /\ job' = [job EXCEPT ![s] = [IdleJob EXCEPT !.pc = "droprow", !.box = l]]
  /\ UNCHANGED <<box, item, used, snap, now, raced, exempt>>
  /\ Quietly

DropLabel(s) ==
  /\ job[s].pc = "droprow" /\ job[s].box \in Labels
  /\ box' = [box EXCEPT ![job[s].box].st = "gone"]
  /\ job' = [job EXCEPT ![s] = IdleJob]
  /\ UNCHANGED <<item, link, used, snap, now, raced, exempt>>
  /\ Quietly

------------------------------------------------------------------------------
(* Containers, usage, the passing of time. *)

(* The unique index on (mailbox_id, name); labels have their own table. *)
NameFree(c, name) ==
  \A d \in Boxes : Present(d) /\ (d \in Labels <=> c \in Labels) => box[d].name # name

(* CreateFolder, CreateLabel: UIDVALIDITY is the clock in seconds. *)
Create(c, name) ==
  /\ box[c].st = "absent"
  /\ NameFree(c, name)
  /\ box' = [box EXCEPT ![c] = [st |-> "present", name |-> name, uidNext |-> 1, uidValidity |-> now]]
  /\ UNCHANGED <<item, link, used, snap, job, now, raced, exempt>>
  /\ Quietly

(* IMAP refuses to rename a system folder, the REST interface does not. *)
Rename(c, name) ==
  /\ Present(c)
  /\ NameFree(c, name)
  /\ box' = [box EXCEPT ![c].name = name]
  /\ UNCHANGED <<item, link, used, snap, job, now, raced, exempt>>
  /\ Quietly

(* RecomputeUsedBytes: the live rows are read, then their sum is written. *)
RecomputeRead(s) ==
  /\ Idle(s) /\ ~snap[s].held
  /\ job' = [job EXCEPT ![s] = [IdleJob EXCEPT !.pc = "recompute", !.live = LiveSet]]
  /\ UNCHANGED <<box, item, link, used, snap, now, raced, exempt>>
  /\ Quietly

Overrun(bytes) == IF Quota > 0 /\ bytes > Quota THEN bytes - Quota ELSE 0

RecomputeWrite(s) ==
  /\ job[s].pc = "recompute"
  /\ used' = Bytes(job[s].live)
  /\ job' = [job EXCEPT ![s] = IdleJob]
  /\ raced' = (Bytes(job[s].live) # LiveBytes)
  /\ exempt' = Overrun(Bytes(job[s].live))
  /\ UNCHANGED <<box, item, link, snap, now>>
  /\ Quietly

(* 30 days pass since a row was deleted. *)
Expire(m) ==
  /\ item[m].st = "deleted"
  /\ item' = [item EXCEPT ![m].st = "expired"]
  /\ UNCHANGED <<box, link, used, snap, job, now, raced, exempt>>
  /\ Quietly

(* deleteMessageRows: the cleanup worker removes an expired row, its links  *)
(* and the message.                                                         *)
PurgeMessage(m) ==
  /\ item[m].st = "expired"
  /\ item' = [item EXCEPT ![m].st = "purged"]
  /\ link' = [l \in Labels |-> [link[l] EXCEPT ![m] = 0]]
  /\ UNCHANGED <<box, used, snap, job, now, raced, exempt>>
  /\ Quietly

Tick ==
  /\ now < MaxClock
  /\ now' = now + 1
  /\ UNCHANGED <<box, item, link, used, snap, job, raced, exempt>>
  /\ Quietly

Next ==
  \/ \E s \in Sessions, m \in Messages :
       \/ \E f \in Folders : Attach(s, m, f) \/ Move(s, m, f)
       \/ Get(s, m) \/ SoftDelete(s, m)
       \/ \E l \in Labels : AddLabel(s, m, l) \/ RemoveLabel(s, m, l)
  \/ \E s \in Requests :
       \/ \E f \in Folders, drop \in BOOLEAN : ListFolder(s, f, drop)
       \/ SelectLive(s) \/ UpdateSelected(s) \/ DropFolder(s)
       \/ \E l \in Labels : DropLinks(s, l)
       \/ DropLabel(s) \/ RecomputeRead(s) \/ RecomputeWrite(s)
  \/ \E c \in Boxes, name \in Names : Create(c, name) \/ Rename(c, name)
  \/ \E m \in Messages : Expire(m) \/ PurgeMessage(m)
  \/ Tick

Spec == Init /\ [][Next]_vars
------------------------------------------------------------------------------
(* Properties. *)

(* Every row and every held value has its shape; a stored UID is not 0.     *)
(* (The sums, used and exempt, have invariants of their own.)               *)
TypeOK ==
  /\ box \in [Boxes -> BoxRow]
  /\ item \in [Messages -> ItemRow]
  /\ link \in [Labels -> [Messages -> 0..MaxUID]]
  /\ snap \in [Sessions -> Held]
  /\ job \in [Requests -> Job]
  /\ now \in 1..MaxClock
  /\ pub \subseteq [kind : {"exists", "expunge"}, box : Boxes, uid : 0..MaxUID]
  /\ ever \subseteq [box : Boxes, name : AllNames, validity : 0..MaxClock,
                     uid : 0..MaxUID, msg : Messages]
  /\ \A m \in Messages : HasRow(item[m]) => item[m].uid # 0
  /\ raced \in BOOLEAN /\ fresh \in BOOLEAN

(* A UID of a folder or label names one message for as long as the         *)
(* container exists, through moves, deletions, restores and relabelling by  *)
(* callers that hold outdated items: a client's cache keyed by UID never    *)
(* serves another message.                                                  *)
NoUIDReuse ==
  \A g, h \in ever : g.box = h.box /\ g.uid = h.uid => g.msg = h.msg

(* m has a claim to a UID of a box while its row (live or deleted) or its   *)
(* link carries it, and for ever once a client may have seen it.            *)
Claim(c, u, m) ==
  \/ \E h \in ever : h.box = c /\ h.uid = u /\ h.msg = m
  \/ HasRow(item[m]) /\ item[m].folder = c /\ item[m].uid = u
  \/ c \in Labels /\ u # 0 /\ link[c][m] = u

(* The inductive invariant that MailStoreProofs proves:                     *)
(* a claimed UID lies below uid_next of a box that exists or existed, and   *)
(* is claimed by one message only.                                          *)
ClaimsInv ==
  \A c \in Boxes, u \in 0..MaxUID, m \in Messages :
    Claim(c, u, m) => /\ box[c].st # "absent" /\ u < box[c].uidNext
                      /\ \A n \in Messages : Claim(c, u, n) => m = n

Members(f) == {<<m, item[m].uid>> : m \in {x \in LiveSet : item[x].folder = f}}

(* A message that turns up in a folder (delivered, moved in, restored) has  *)
(* a UID above every UID the folder ever handed out, so a client that asks  *)
(* for "uid_next:*" finds it.                                               *)
AppearsAtTop ==
  [][\A f \in Folders : \A p \in Members(f)' \ Members(f) : p[2] >= box[f].uidNext]_vars

(* used_bytes is the sum of the live messages unless some caller restored,  *)
(* moved, batch-deleted or recomputed from a read that was out of date;     *)
(* a recompute nobody interferes with puts it right again.                  *)
ExactUnlessRaced == ~raced => used = LiveBytes

(* The live messages outgrow the quota only by what was restored (Move has  *)
(* no quota check) or by what a race has hidden from used_bytes.            *)
QuotaHolds == Quota > 0 /\ ~raced => LiveBytes <= Quota + exempt

UIDs(f) == {p[2] : p \in Members(f)}

(* When the caller's item was current, the changes published with a step    *)
(* tell a folder's watchers exactly which messages left it and which came.  *)
Announced ==
  [][fresh' => \A f \in Folders :
       /\ \A u \in UIDs(f) \ UIDs(f)' : Expunge(f, u) \in pub'
       /\ \A u \in UIDs(f)' \ UIDs(f) : Exists(f, u) \in pub'
       /\ \A p \in pub' : p.box = f =>
            IF p.kind = "exists" THEN p.uid \in UIDs(f)' ELSE p.uid \notin UIDs(f)']_vars

(* README.md: "Quota accounting that tracks deletes and expunges":          *)
(* used_bytes is always the size of what is live.                           *)
UsageTracksDeletes == used = LiveBytes

(* README.md: "stable per-folder UIDs": what IMAP identifies a message by,  *)
(* the folder's name, its UIDVALIDITY and the UID, never means another      *)
(* message.                                                                 *)
StableUIDs ==
  \A g, h \in ever :
    (g.box \in Labels <=> h.box \in Labels) /\ g.name = h.name
      /\ g.validity = h.validity /\ g.uid = h.uid => g.msg = h.msg

==============================================================================
