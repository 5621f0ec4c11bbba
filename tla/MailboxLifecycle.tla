-------------------------- MODULE MailboxLifecycle --------------------------
(***************************************************************************)
(* The life of a mailbox: the REST interface deletes it (it can be         *)
(* restored for 30 days), changes its status or deletes it at once         *)
(* (internal/api/routes.go); the cleanup worker purges those that were     *)
(* deleted long ago.  PurgeMailbox (internal/mailstore/store.go) is a      *)
(* sequence of statements outside any transaction.                         *)
(*                                                                         *)
(* Of the mail in a mailbox one message is followed (copies); all other    *)
(* mail is part of used.                                                   *)
(***************************************************************************)
EXTENDS Integers, FiniteSets

CONSTANTS
  Mailboxes,
  Quota,      \* quota_bytes of each mailbox, 0 for none
  MaxFaults   \* bound on failures, lost replies and changes of a mailbox

ASSUME MailboxAssumption ==
  /\ Mailboxes # {} /\ IsFiniteSet(Mailboxes)
  /\ Quota \in [Mailboxes -> Nat]
  /\ MaxFaults \in Nat

VARIABLES
  mbox,     \* Mailbox rows and whether their folders exist
  copies,   \* MailboxMessage rows of the message that is followed
  purge,    \* PurgeMailbox as run by the cleanup worker and by a request
  faults,   \* number of those so far
  purging,  \* history: mailboxes a purge has begun on
  raced     \* history: mailboxes that got mail while they were purged

lifeVars == <<mbox, copies, purge, faults, purging, raced>>

(* deleted: deleted_at is NULL, recent, or more than 30 days past. *)
MailboxRow == [row : BOOLEAN, status : {"active", "disabled", "deleted"},
               deleted : {"no", "recent", "old"}, used : Nat, folders : BOOLEAN]

Purgers == {"cleanup", "request"}

(* todo: mailboxes listed and not yet begun on; of: the one being purged.   *)
Purge == [step : {"idle", "items", "folders", "row"}, of : Mailboxes, todo : SUBSET Mailboxes]

LifeInit ==
  /\ mbox = [m \in Mailboxes |-> [row |-> TRUE, status |-> "active", deleted |-> "no",
                                  used |-> 0, folders |-> TRUE]]
  /\ copies = [m \in Mailboxes |-> 0]
  /\ purge = [p \in Purgers |-> [step |-> "idle", of |-> CHOOSE m \in Mailboxes : TRUE, todo |-> {}]]
  /\ faults = 0
  /\ purging = {}
  /\ raced = {}

Fault == faults < MaxFaults /\ faults' = faults + 1

(* How the resolver, and the login, look for a mailbox. *)
Active(m) == mbox[m].row /\ mbox[m].status = "active" /\ mbox[m].deleted = "no"

------------------------------------------------------------------------------
(* A definition Name_Fault that precedes Name is Name with a mistake the    *)
(* code could contain; with it in place of Name a property must fail.       *)

(* deleteMailbox; also of one that is deleted already.  (Its app passwords  *)
(* are revoked as well, and restoring does not bring them back.)            *)
DeleteMailbox(m) ==
  /\ mbox[m].row
  /\ Fault
  /\ mbox' = [mbox EXCEPT ![m].status = "deleted", ![m].deleted = "recent"]
  /\ UNCHANGED <<copies, purge, purging, raced>>

RestoreMailbox(m) ==
  /\ mbox[m].row
  /\ Fault
  /\ mbox' = [mbox EXCEPT ![m].status = "active", ![m].deleted = "no"]
  /\ UNCHANGED <<copies, purge, purging, raced>>

(* updateMailbox sets the status, of a deleted mailbox too, and leaves      *)
(* deleted_at alone.                                                        *)
UpdateMailbox(m) ==
  /\ mbox[m].row
  /\ \E s \in {"active", "disabled"} :
       /\ mbox[m].status # s
       /\ Fault
       /\ mbox' = [mbox EXCEPT ![m].status = s]
  /\ UNCHANGED <<copies, purge, purging, raced>>

(* Thirty days. *)
Age(m) ==
  /\ mbox[m].deleted = "recent"
  /\ mbox' = [mbox EXCEPT ![m].deleted = "old"]
  /\ UNCHANGED <<copies, purge, faults, purging, raced>>

(* More than 30 days deleted. *)
Expired_WithFolders(m) == mbox[m].row /\ mbox[m].status = "deleted" /\ mbox[m].deleted = "old" /\ mbox[m].folders
Expired(m) == mbox[m].row /\ mbox[m].status = "deleted" /\ mbox[m].deleted = "old"

(* cleanupDeletedMailboxes: the list, ... *)
ListDeleted ==
  /\ purge["cleanup"].step = "idle" /\ purge["cleanup"].todo = {}
  /\ \E m \in Mailboxes : Expired(m)
  /\ purge' = [purge EXCEPT !["cleanup"].todo = {m \in Mailboxes : Expired(m)}]
  /\ UNCHANGED <<mbox, copies, faults, purging, raced>>

(* ... and each mailbox on it, without another look. *)
PurgeNext(m) ==
  /\ purge["cleanup"].step = "idle" /\ m \in purge["cleanup"].todo
  /\ purge' = [purge EXCEPT !["cleanup"] = [step |-> "items", of |-> m, todo |-> @.todo \ {m}]]
  /\ UNCHANGED <<mbox, copies, faults, purging, raced>>

(* hardDeleteMailbox, whatever the status. *)
HardDelete(m) ==
  /\ purge["request"].step = "idle"
  /\ mbox[m].row
  /\ Fault
  /\ purge' = [purge EXCEPT !["request"] = [step |-> "items", of |-> m, todo |-> {}]]
  /\ UNCHANGED <<mbox, copies, purging, raced>>

(* PurgeMailbox: label links and messages, labels and folders, the row. *)
PurgeItems_LinksOnly(p) ==
  /\ purge[p].step = "items"
  /\ purging' = purging \cup {purge[p].of}
  /\ purge' = [purge EXCEPT ![p].step = "folders"]
  /\ UNCHANGED <<mbox, copies, faults, raced>>
PurgeItems(p) ==
  /\ purge[p].step = "items"
  /\ copies' = [copies EXCEPT ![purge[p].of] = 0]
  /\ purging' = purging \cup {purge[p].of}
  /\ purge' = [purge EXCEPT ![p].step = "folders"]
  /\ UNCHANGED <<mbox, faults, raced>>

PurgeFolders(p) ==
  /\ purge[p].step = "folders"
  /\ mbox' = [mbox EXCEPT ![purge[p].of].folders = FALSE]
  /\ purge' = [purge EXCEPT ![p].step = "row"]
  /\ UNCHANGED <<copies, faults, purging, raced>>

PurgeRow(p) ==
  /\ purge[p].step = "row"
  /\ mbox' = [mbox EXCEPT ![purge[p].of].row = FALSE]
  /\ purge' = [purge EXCEPT ![p].step = "idle"]
  /\ UNCHANGED <<copies, faults, purging, raced>>

(* A statement fails, or the server stops: the rest of the list is dropped. *)
PurgeFails(p) ==
  /\ purge[p].step # "idle"
  /\ Fault
  /\ purge' = [purge EXCEPT ![p].step = "idle", ![p].todo = {}]
  /\ UNCHANGED <<mbox, copies, purging, raced>>

PurgeStep(p) == PurgeItems(p) \/ PurgeFolders(p) \/ PurgeRow(p)

LifeNext ==
  \/ \E m \in Mailboxes :
       \/ DeleteMailbox(m) \/ RestoreMailbox(m) \/ UpdateMailbox(m) \/ Age(m)
       \/ PurgeNext(m) \/ HardDelete(m)
  \/ ListDeleted
  \/ \E p \in Purgers : PurgeStep(p) \/ PurgeFails(p)

(* The cleanup worker's part, which comes round every hour.                 *)
Cleanup == ListDeleted \/ (\E m \in Mailboxes : PurgeNext(m)) \/ PurgeStep("cleanup")

------------------------------------------------------------------------------
(* Properties, checked of InboundDelivery. *)

(* Rows, purges and counters have their shape. *)
LifeTypeOK ==
  /\ mbox \in [Mailboxes -> MailboxRow]
  /\ copies \in [Mailboxes -> Nat]
  /\ purge \in [Purgers -> Purge]
  /\ faults \in Nat
  /\ purging \subseteq Mailboxes /\ raced \subseteq Mailboxes

(* Nothing is left of a purged mailbox, except mail delivered to it between *)
(* two statements of the purge, which nothing removes any more.             *)
NoOrphans == \A m \in Mailboxes : ~mbox[m].row => copies[m] = 0 \/ m \in raced

(* Deleted for more than 30 days, and not purged yet.                       *)
Overdue(m) == mbox[m].row /\ mbox[m].status = "deleted" /\ mbox[m].deleted = "old"

(* A purge that breaks off half way is taken up again by the cleanup        *)
(* worker, since the row it is found by goes last: no mailbox stays expired *)
(* for ever, whether its purge failed between two statements, the list was  *)
(* dropped before its turn, or a request purges it at the same time.        *)
PurgeEnds == \A m \in Mailboxes : []<>~Overdue(m)

==============================================================================
