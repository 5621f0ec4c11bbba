# Haitatsu in TLA+

TLA+ models of Haitatsu, an email server (SMTP in and out, IMAP, a REST
interface, background workers) written in Go. Paths are relative to the
repository, usually `internal/...`. Each component has a module with its state,
one action per operation and its properties; TLC checks the configurations
`*.cfg`; modules `*Proofs` hold theorems checked by TLAPS; modules `MC*` give a
component's constants the values that a configuration cannot write down.
`PROJECT.json` maps every definition to the lines it models.

In the modules a definition `Name_Fault` in front of `Name` is `Name` with a
mistake the code could contain. With it in place of `Name`, the property it is
listed with in `PROJECT.json` ("mutants") fails: this is how the properties are
known to depend on the code.

## The system

All persistent state is in one database (PostgreSQL, SQLite or libSQL) and an
object store for the raw messages. One or more instances of the server run
against it. They share nothing else but a bus for change notifications.

| component | state | operations | talks to |
|---|---|---|---|
| mail store (`mailstore`) | Folder, Label, MailboxMessage, MailboxMessageLabel rows; `used_bytes` | attach, move, delete, label, recompute | publishes changes |
| IMAP server (`imapserver`) | one view per session | SELECT ... IDLE | mail store, change channel |
| REST interface (`api`) | none | mailboxes, folders, messages, submissions | mail store, queues |
| rules (`rules`) | none | actions on a delivered message | mail store |
| inbound SMTP, delivery (`smtp/inbound`, `messages`) | session; connection counters | MAIL, RCPT, DATA | routing, spam, mail store |
| submission and relay (`outbound`) | OutboundJob rows | submit; claim, deliver, finish, report | relay host, events |
| webhooks (`webhooks`, `events`) | EventLog rows | emit; claim, post, finish | HTTP endpoints |
| import, export (`importexport`) | job rows with a lease | claim, renew, release, run | mail store, object store |
| cleanup (`cleanup`) | none | Trash, deleted mailboxes, orphans, lapsed leases, history | all tables |
| login throttle, limits (`auth`, `ratelimit`) | counters, local and shared | block, record, acquire, release | sessions |
| change bus (`database/changebus.go`) | LISTEN/NOTIFY, or a polled table | publish, subscribe | IMAP sessions |
| routing, spam, bounce, parsing | none | decide | delivery |
| configuration, certificates, migrations | current configuration; a lock | reload, renew, migrate | everything |

What is hard about it, and what would make each part correct:

* Callers of the mail store read a row, and act on it in a later transaction,
  while others do the same. UIDs must never be used twice, `used_bytes` must be
  the size of what is live, watchers must be told what changed.
* An IMAP client and its session must agree on what a sequence number means at
  every moment, whatever other sessions delete and whichever notifications are
  lost.
* Queues are worked by leases. Instances crash, workers outlive their lease,
  the other side's answer gets lost. A job must end, be counted right, be
  reported once and not be reopened.
* Counters must be given back once, limits must hold under concurrency.
* The cleanup worker decides on rows that may change before it acts.

The list "hazards" in `PROJECT.json` has these at their lines.

## Modules

| module | models | built on |
|---|---|---|
| `MailStore` | rows, UIDs and bytes of one mailbox | |
| `ImapView` | one IMAP session against a folder that others change | |
| `DeliveryQueue` | what a queue promises (abstract) | |
| `OutboundQueue` | the relay's queue | implements `DeliveryQueue` |
| `WebhookQueue` | the queue of events | |
| `JobLease` | import and export jobs | |
| `MailboxLifecycle` | deletion, restoring and purge of mailboxes | |
| `InboundDelivery` | a message on its way in | extends `MailboxLifecycle` |
| `FailureThrottle` | the lockout of an address | |
| `SubmissionLimits` | submissions at the edge of the limits, row locks | |
| `MailStoreProofs`, `ImapViewProofs`, `OutboundQueueProofs`, `WebhookQueueProofs`, `JobLeaseProofs`, `InboundDeliveryProofs`, `FailureThrottleProofs`, `SubmissionLimitsProofs` | theorems about the module of that name | extend that module |

### MailStore (`mailstore/store.go`, its callers in `api`, `imapserver`, `rules`, `cleanup`)

`box` holds folders and labels (name, `uid_next`, UIDVALIDITY), `item` the
MailboxMessage row of each message (the unique index allows one), `link` the
labels of a message with the UID each gives it, `used` the `used_bytes` of the
mailbox. `snap[s]` is the row a caller read some time ago: a request reads it
with `Get`, the rules engine keeps the item of the delivery for all its actions.
`job[s]` is a multi-statement operation in progress (batch deletion, removal of
a folder or label, recomputation). A transaction whose reads are protected by
row locks is one step. `ever`, `raced`, `exempt`, `fresh` and `pub` are history.

| run | instance | shows |
|---|---|---|
| `mailstore_uids` | two messages (interchangeable: symmetry), a folder and a label that come and go, a request | `TypeOK`, `NoUIDReuse` |
| `mailstore_bytes` | two messages of size 1 and 2, quota 2, rules of a delivery and a request | `ExactUnlessRaced`, `QuotaHolds`, `AppearsAtTop`, `Announced` |
| `mailstore_usage` | a delivery with rules "delete", then "move" | violation of `UsageTracksDeletes` |
| `mailstore_stable` | two folders, two seconds | violation of `StableUIDs` |

Two messages, two or three containers and two callers (in `mailstore_uids` the
cleanup worker is the second) are enough for every pair of operations to
interleave on the same row and on the same counter; `MaxUID`
leaves room for a message to be placed, moved away and moved back. Nothing more
is gained from more callers because an operation has at most two steps between
which another one can interfere. `MaxClock` counts the seconds that matter to
UIDVALIDITY.

The violations: `Move` decides from the caller's row whether it restores. After
a rule has deleted the message, a second rule's move undeletes it without
charging its bytes, so `used_bytes` is too low from then on. UIDVALIDITY is the
clock in seconds: a folder that gets the name of one created in the same second
and deleted since is, to an IMAP client, the same folder with other messages.

### ImapView (`imapserver/view.go`, `session.go`, `copy.go`, `fetch.go`, `mailstore/notify.go`)

`rows` is the selected folder, changed by anybody (`Arrive`, `Leave`, `SetFlag`,
in labels `Return`). `view` is the session's: entries in the order of sequence
numbers and what it owes the client. `wire` and `queued` are changes committed
and not yet published, and the channel of the view; `Publish` may lose one.
`mirror` is the client's list, changed only by applying the EXPUNGE numbers and
EXISTS the code computes; `told` what it was told of flags. `cmd` is the command
in progress: `drain`, `load`, `act`, `end` are the points between which the
database and the channel may change. After each command the IMAP library polls
(`PollAfter`; external). A message is its UID, its flags one value of
`FlagValues`.

| run | instance | shows |
|---|---|---|
| `imap_numbers` | three messages in the Archive, all marked deleted | `TypeOK`, `SameNumberingUnlessBroken`, `NoFalseExpungeUnlessFiled`, `RightTarget` |
| `imap_idle` | one message of a label, with three flag values, that may return; fairness | `FlagsAgreeUnlessMuted`, `IdleConverges` |

Three messages are the least with which two can leave in one resync in front of
one that stays, which is where numbers go wrong. The other sessions need no
state of their own: whatever they do is one of the four changes of `rows`. A UID
EXPUNGE names an arbitrary set, so `ExpungeKeep` may pass over any entry.

Fairness: a handler that has begun takes its next step, and the ticker of IDLE
fires (`session.go`, `Idle`). Nothing is assumed of notifications or of the
client, and any notification may be lost; `IdleConverges` speaks of a client
that stays in IDLE, and says that it is brought up to date again and again.

MOVE to a label moves the message to the Archive as well. If it is
there already (`InArchive`: the selected folder is the Archive), `MoveToFolderName`
returns it as it is (`copy.go:124`, `store.go:201`), and yet `Move` reports it as
expunged and drops it from the view (`copy.go:67`): the client is told that a
message has gone which is live under the same UID, and which comes back at the
next reload as a new one at the end, under a UID it was told had gone. That is a
bug, at odds with the "stable per-folder UIDs" and the "MOVE" of the repository's
README: `NoFalseExpunge`, which forbids it, fails in the first command when
checked in place of `NoFalseExpungeUnlessFiled` in `ImapView_numbers.cfg`. In
`MoveOne` the command is then at `filed`; `NoFalseExpungeUnlessFiled` says that
no other step does such a thing.

What "unless" stands for: `Expunge` reports messages one by one but shortens the
view only at the end (`session.go:504`), so an error in between leaves view and
client with different numbers (broken). `expungeOnlyWriter` (`view.go:250`)
swallows flag changes that `resync` then takes for reported (muted). In a label
folder the view may also leave the order of UIDs: the link survives the deletion
of its message, a restored message reappears under its old UID, and an open view
puts it last.

### OutboundQueue and DeliveryQueue (`outbound/relay.go`, `outbound/submission.go`, `cleanup/worker.go`)

`job` holds the OutboundJob rows, with `lease` and `due` for what the queries ask
of `locked_until` and `next_attempt_at`; `at[w]` what each relay goroutine is
doing, with the attempts it read when it claimed. Claim, delivery, finish and
report are separate steps; `Crash` stops an instance between any two;
`LapseLate` lets a lease pass while its holder is still at work; `Deliver` may
lose the reply of the relay; `Finish` and `Report` may fail. `faults` bounds
these. `claims`, `accepted`, `reported`, `excuses` are history.

`DeliveryQueue` is what submitters rely on: a job is open, then sent or failed
for good, then gone; its failure is told at most once, by whoever settled it, or
forgotten; an open job is settled in the end. `OutboundQueue!Promise` maps the
statuses of a row to it and takes a failure to be owed while a worker
stands before its report. `KeepsPromise` is `DeliveryQueue!FairSpec` under this
mapping.

| run | instance | shows |
|---|---|---|
| `outbound_workers` | three goroutines in two instances, one job, three attempts, four faults, fairness | `TypeOK`, `AttemptsExact`, `ReportedOnce`, `OneOutcome`, `OpenHasMessage`, `SettledForGood`, `KeepsPromise` |

Three goroutines in two instances distinguish "same worker", "same `locked_by`"
and "other `locked_by`". Jobs do not touch each other's rows, so one is enough.
Three attempts allow a retry that fails again; four faults
allow a lapsed lease to be taken over and lapse again, with a crash and a lost
reply besides.

Fairness: each goroutine polls for ever, every step of `ProcessOne` ends (the
SMTP transaction has a timeout, the final update a deadline of 30 s), and time
passes. The cleanup worker is assumed to do nothing. Faults are finite in
number, otherwise a job could be interrupted for ever.

What the properties leave open on purpose: `locked_by` is the instance name
(`relay.go:318`, `app.go:122`), so a goroutine that is late finishes a job that
another goroutine of its instance has claimed since. The status `failed` is
committed before the bounce is emitted (`relay.go:337`), and nothing repeats a
report that did not come about: `Forget` of `DeliveryQueue`.

### WebhookQueue (`webhooks/worker.go`, `events`, `cleanup/worker.go`)

A queue like the relay's with two differences: the claim passes over rows in
processing, so that a lapsed lease waits for `recoverStaleLeases`, and the final
updates name the row by its id only. `event` are the EventLog rows, `at` the
goroutines, `endpoint` whether the configuration has an endpoint for the type
(`Reload` changes it). `overtaken` are the events whose lease lapsed under a
worker that was still at work.

| run | instance | shows |
|---|---|---|
| `webhook_workers` | three goroutines, one event, three attempts, three faults, fairness | `AcceptedOnce`, `RetriesBounded`, `SettledUnlessOvertaken`, `Settles` |

Two goroutines that have both claimed the event and a third to claim it again is
what the missing guard needs to do harm; three faults are a lapse under each of
the first two and one more. The exceptions are behaviour of the code: a worker
that outlives its five minutes puts an event that another one has delivered, or
given up, back to `retry` (`worker.go:127`), after which it is posted again, up
to twice more for each lapse.

Fairness as for the relay, and here the cleanup worker has to come round, since
nothing else frees an event left in processing by a crash.

### JobLease (`importexport/import.go`, `export.go`, `cleanup/worker.go`)

A worker claims a job with a token of its own and works with a context that the
renewer, a second goroutine, cancels. Time is integer minutes, with the code's
10 (lease), 2 (renewal) and 6 (giving up); `Tick` moves all clocks at once.
`left` is what remains of `locked_until`, `since` the time since the renewer
last succeeded. A call of the renewer may fail for any length of time (`down`)
or hang (`hung`). An import goes message by message: look for the bytes, create
the row, attach, count, flush; an export writes its archive.
`Slack` is how much shorter than `Lease` a lease may turn out. The server an
IMAP import reads from may never answer (`Stall`): only the dial has a timeout
(`imapdial.go:18`), the calls behind it have neither context nor deadline
(`import.go:489-617`). The worker then stands still, even when its context is
cancelled, and its renewer keeps the lease alive.

| run | instance | shows |
|---|---|---|
| `job_workers` | two goroutines, one import or export, two faults, fairness | `ExclusiveUnlessHung`, `AttachedOnceUnlessHung`, `CompletedIsWhole`, `OneEvent`, `SettledForGood`, `Settles` |

Two goroutines are what exclusion is about; with one message each point between
two statements of an import is one at which it may be interrupted and begun
again by the other. Two faults combine any two of a crash, a shutdown, an
outage, a hang and a failed write; an IMAP server may fall silent besides, at
every message and as often as it likes.

Fairness: goroutines poll, statements of the database end unless the renewal
hangs, time passes. Nothing is assumed of IMAP servers, so a job need not be
settled: one whose worker waits for a server that never answers is renewed for
ever, and when all workers wait, no other job is begun. `Settles` says so: a job
is settled unless, from some time on, it is stuck in one of these ways for good
(`Stuck`). A worker that was cancelled while it waits has stopped renewing, and
does not count: its job is taken over by another one. No help from the cleanup
worker is needed, since a claim takes lapsed leases itself.

The comment at `jobLeaseGiveUp` promises that a worker stops before another can
claim. That is what `ExclusiveUnlessHung` shows for calls that return; the
renewing update has no deadline, and while it hangs nobody measures the time.
Also visible in the model: `imported_count` begins at 0 again with every claim,
and the archive of an export that failed after its upload stays in the store.

### MailboxLifecycle and InboundDelivery (`api/routes.go`, `cleanup/worker.go`, `mailstore.PurgeMailbox`; `smtp/inbound`, `messages/delivery.go`, `routing`, `bounce`, `ratelimit`)

`MailboxLifecycle` has the mailbox rows with status, `deleted_at`, `used_bytes`
and whether the folders are there, and `purge`, the statements of `PurgeMailbox`
as run by the cleanup worker (over a list it made before) and by a request.
`InboundDelivery` adds the SMTP session step by step, the search for the
mailboxes of an address (mailbox, route, the same without the tag, pattern,
catch-all), each stage a query of its own (`ResolveStage`) between which
mailboxes may change, the recording of bounces, the transaction that attaches a message to
all mailboxes it is for, and the sender's bucket. The sender is external: it
repeats what was answered 4xx or not at all. One message is followed; other mail
only fills mailboxes up.

| run | instance | shows |
|---|---|---|
| `inbound` | an address with a tag that a route sends to two mailboxes, one of which has room for one copy; a bounce address; two faults; fairness | `StoredAsTold`, `BouncesRecorded`, `NoOrphans`, `RefusedOnlyIfNone`, `GetsThrough`, `PurgeEnds` |

Two mailboxes are the least for a transaction that fails for one recipient's
sake; the tagged address passes through all stages of `Resolve`, as deletions
make the earlier ones empty, before the search or in the middle of it. Two faults are two of: a deletion, a restore, a
lost reply, a failed statement. With a third address the state space is beyond
reach; two recipients that lead to the same mailbox are deduplicated by the code
before the transaction, and are a set in the model.

What a search may conclude is told by `steady`, the mailboxes that have been
active since its first query: `RefusedOnlyIfNone` says that an address is refused
for good only if none of them is a mailbox it can lead to. It may be refused
although at each moment it had one: a mailbox restored behind the search and one
deleted ahead of it are both missed. Routes are constants, so an edit of a route
during the search is not covered; neither is the repetition of a bounce address
in one session, which the code answers without counting it again.

`PurgeEnds`: a mailbox that has been deleted for 30 days does not stay for ever.
The two faults are then a deletion and a purge that breaks off between any two of
its statements, which the worker takes up again, since `PurgeMailbox` removes the
row, by which the mailbox is found, last; or a deletion and a request that purges
the mailbox at the same time.

Fairness of `inbound`: the sender tries again, the bucket refills, a session's
next step is taken; the cleanup worker comes round (its ticker) and its
statements end or fail. `GetsThrough` assumes that in the end every mailbox in use can take the
message, and needs it of every one: a mailbox that passes RCPT and fails in DATA
makes the whole DATA fail with 452, so one that is almost full holds up the
others (`RCPT` looks at the declared size, which trace headers make larger).

Also visible: PATCH of the status of a deleted mailbox leaves `deleted_at` set;
the purge works off a list, so a mailbox restored after the listing is purged;
a purge that stops half way and a restore leave an active mailbox without
folders, which answers 451 for ever; mail delivered between two statements of a
purge leaves rows that nothing removes; a bounce is recorded again if its DATA
then fails or its 250 is lost, also that of a DATA for bounce addresses alone;
`ParseRecipient` (`bounce.go:112`) takes a database error for an
invalid address, so the bounce is refused for good; a lost 250 leads to a second
copy. Lowering a quota is not modelled.

### FailureThrottle (`auth/throttle.go`, `cleanup/worker.go`)

One client address, the shared row of `auth_lockouts` and the entry in each
server's memory. A login is its statements (`Blocked`: read, cache; the
password; `RecordFailure`: reset, bump, get, lock, set; `RecordSuccess`: forget,
delete), any of which may fail. Times are distances from now.

| run | instance | shows |
|---|---|---|
| `throttle` | two servers with one connection each, two failures allowed, window 1, lockout 2, one fault; fairness | `GuessesBounded`, `LockBacked`, `LockoutEnds` |

Two logins at once suffice to lose or double an increment, the lockout is longer
than the window as in the code, and a unit of time is longer than
`storeTimeout`. Fairness: time passes and statements end.

Also visible: a success removes the row, but other servers keep the lock they
have in memory (the comment calls the store authoritative); a second login that
locks may set the lock back by seconds; a login whose `now` is from before the
end of a lockout counts a failure that does not lock; a database error during
the password check counts as a failure; `PruneStore` is never called, the
cleanup worker does its work.

### SubmissionLimits (`outbound/submission.go`, `mailstore.Attach`)

Submissions for a mailbox and for a domain look at the limits, store the
message, and look again in a transaction that begins by locking; appends to Sent
run beside them. `jobs` are recipients by scope and age, `lock` the row locks as
PostgreSQL keeps them (external).

| run | instance | shows |
|---|---|---|
| `submission_limits` | two submissions for a mailbox, one for a domain, an append; limits 2 an hour, 3 a day; fairness | `LimitsHold`, `Ends` |

Two submitters with one or two recipients meet each limit from below at the same
time; two units of time distinguish the hour from the day. A submission locks
the mailbox and then Sent, an append Sent and then the mailbox: they can wait for
each other, and PostgreSQL ends one of them (`BreakCircle`). Hence the fairness:
weak for `BreakCircle`, strong for a step that waits for a lock others take in
turn.

## Theorems

Proved for every value of the constants that satisfies the assumptions. Each
module states its own, and they are what the code gives: sorts are disjoint,
bounds are numbers, sizes are positive, workers, clients and logins are finite in
number. Three say more. `LeaseAssumption`: the renewer gives up when two renewals
and the lease's slack would no longer fit (`GiveUp = Lease - 2 * Renew`, `Slack <
Renew`), as `importexport/import.go:37` sets it up with 10, 2 and 6 minutes; without
it exclusion is false. `ThrottleAssumption`: a lockout is longer than a unit of
time, that is than the deadline of a statement. `LimitsAssumption`: an hour is
shorter than a day, and the mark for an unlocked row is no client.

The properties are proved as the runs check them, action properties included.
For each component there is `TypeCorrect`, which the other
proofs use; what follows is what each adds, and why the property alone is not
enough.

### MailStoreProofs

* `ClaimsHold`, `NoReuse`: no UID of a container ever names two messages.
  `NoUIDReuse` speaks of what clients could have seen and is not inductive: a
  deleted row is not visible but can be restored, and nothing in it says that
  UIDs lie below `uid_next`. `ClaimsInv` adds both. A message has a claim to a
  UID if a client may have seen it there, if its row carries it, deleted or not,
  or if a link does; claims lie below `uid_next`, in a container that exists or
  existed, and do not collide. Two lemmas carry the proof: a step that adds no
  claim keeps the invariant (`KeepClaims`), and so does one that takes
  `uid_next` and increments it (`TakeClaims`); every action is one or the other.
* `UsageIsExact`, `QuotaIsKept`. `UsageInv` relates `used_bytes` to the sum over
  the live rows, as long as nothing has raced, and (always) to the quota and what
  restores took in without a check; a step changes the set of live messages by
  one message, or by the messages of a batch all of which are live, and both
  sides by the same bytes (sums: see below).
* `AppearsAbove`: a row that becomes live or changes place has taken `uid_next`
  (`NextPlaces`).
* `Announces`: what is published is what happened. For a single row this rests on
  `ClaimsInv`: the UID that is announced as expunged is not carried by a second
  message of the folder (`OneMessage`). For a batch it needs `SelectedInv`: what a
  request listed but did not find live when it selected can never again be the
  row it listed, since a message that comes back comes back under a new UID. So
  if the list is still true at the update, every listed message was selected.

The store adds up with `MapThenSumSet`, a recursion over a finite set that takes
out an arbitrary element each time. Nothing about it follows without induction,
and an induction theorem takes an operator as a parameter, which the provers do
not instantiate. `Smallest` replaces it: a nonempty family of subsets of a finite
set has a smallest member (from `WFMin` and the well-foundedness of strict
inclusion). A claim is proved by supposing that some subset violates it and
looking at a smallest one. In this way: the recursion has a solution and only
one, a sum of numbers is a number, any element may be taken out first
(lemma `SumRemove`), sums may be taken in parts (lemma `SumParts`).

### ImapViewProofs

* `SameNumbers`. `resync` is a loop over the entries, `Expunge` one that other
  steps interrupt; both say EXPUNGE with a number from among those that remain.
  What makes that right is the same for both: while the loop stands at index
  `at` and has kept `kept`, the client's list is `Rest(kept, entries, at)`, the
  kept ones followed by those not yet looked at. Keeping an entry leaves it as it
  is (`RestKeep`), and leaving one out drops exactly the number
  `Len(kept) + 1` (`RestDrop`). For `Expunge` this is `SameNumberingUnlessBroken`
  itself. For `resync`, whose loop is one step, it is proved of the recursive
  function `Walk` (`WalkWalked`): were it false after some index, it would be
  after a smallest one. That the recursion has a solution at all is shown in the
  same way (`LoopExists`, `WalkIs`). Arrivals come behind both lists when EXISTS
  is written (`MirroredIs`), from rows put in order by UID (`LoadIs`, by a
  smallest set that could not be listed).
* The invariant needs more than that. `DistinctInv`: no message is in a view
  twice. `KeptInv`: what the loop of `Expunge` has kept are entries before `at`,
  and all of them if it has kept that many. So an `Expunge` that fails before
  it has reported anything leaves the numbers as they were (`RestSame`), which is
  why only one that breaks off half way sets `broken`. `StageInv` says which
  command can be where.
* `RightTargets`. `TargetInv`: the message a command goes for is in the view
  and is the one named. For FETCH and STORE this is because their resync neither
  takes nor adds an entry, for MOVE because it looks for a UID (`MoveIndexIs`).
* `NoOtherFalseExpunges`: a row that is live stays in the view through every
  resync, the entry `Expunge` reports has just been moved away, and the one MOVE
  reports is gone for good (`TargetInv`), for no message returns from another
  folder, unless it was filed in the Archive it was in. `NoFalseExpunges`: so in
  every other folder nothing live is reported as expunged.
* `FlagsAgree`. `ToldInv` is needed for messages that return: of a message
  it has no number for, the client knows no flags. This fails after an
  `Expunge` that broke off, for then the client holds on to a message the view
  has dropped; when the message returns in a label, the view takes its flags for
  known. TLC shows it with three messages, and so `FlagsAgreeUnlessMuted`
  is about views that are not broken.

### OutboundQueueProofs

* `AttemptsAreExact`; `FailureReportedOnce`; `SettledStays`; `MessageKept`, that
  cleanup never takes the message of an open job. They rest on
  `QueueInv`: `locked_by` is set exactly while a job is processing
  (`OwnedIffProcessing`), which is why the guard of `finish` also protects
  settled rows, and a worker about to report has a failed job to itself
  (`OneReporter`).
* `OneOutcomeHolds`: acceptances and reports are bounded by one and the excuses.
  `OutcomeInv` also counts those who may still produce an outcome: the workers
  that hold an attempt in their hands, and the next claim if the job can be
  claimed. A lapsed lease, a crash or a lost reply makes one more of them, and an
  excuse with it.
* `ImplementsPromise`, that `OutboundQueue` refines `DeliveryQueue` as far as
  safety goes: `Spec => Promise!Spec`. Each action is shown to be one of the
  abstract queue or to change nothing there. `QueueInv` is needed twice: a
  `Finish` that applies finds an open job (`OwnedIffProcessing`), so it is `Send`
  or `GiveUp` or invisible, and the worker that reports is the only one to do so
  (`OneReporter`), so its report discharges the debt. A crash is a `Forget` of
  the debts it destroys.

### WebhookQueueProofs

* `SettledStays`: unless an event was overtaken, whoever works on it is the
  holder of a lease that runs (`HoldInv`), so it is not settled.
* `AcceptedOnceHolds`: as for the relay, over pending posts (`AcceptInv`).
* `RetriesBoundedHolds`: `RetryInv` weighs the workers under way, by whether
  the number of attempts they go by leaves another (two: they add one and put the
  event back for another claim) or not (one), against `MaxAttempts` and twice the
  lapses.

### JobLeaseProofs

* `Exclusive`. `HoldInv`: while nothing hangs, a worker at work owns its job, the
  lease has at least `Lease - Slack - since` left, and the next renewal comes
  before the renewer would give up. So the lease outlasts the context, and with
  `TokenInv` (a claim's token is its own) nobody else can have claimed.
* `SettledStays`, from the guards on `locked_by` and, for the flush of the
  progress, from `Exclusive`; `OneEventHolds` from `EmitInv`: who is about to
  emit is alone in that, for a job that is settled.
* `AttachedOnce`: between the look for a message and its creation nobody else
  creates it (`CopyInv`). That needs exclusion, and that there is one import: two
  imports of the same bytes into one mailbox do attach them twice, and
  `AttachedOnceUnlessHung` says so by its condition `OneImport`.
* `CompletedWhole`: what an import has ticked off is attached (`MailInv`); the
  archive is its owner's (`ArchiveInv`).

### InboundDeliveryProofs

* `LeavesNoOrphans`, about `MailboxLifecycle` with deliveries: a purge that is
  past the messages leaves none but those that came in since (`OrphanInv`).
* `StoredIsTold`: the transaction is for exactly the mailboxes of the recipients
  (`ToldInv`), and a reply is due only behind it, or behind the recording for no
  mailbox at all.
* `BouncesKept`: `BounceInv` follows a bounce address from RCPT through the
  recording to the reply, which may be lost.
* `RefusesOnlyIfNone`. `SearchInv`: the stages a search has passed had no mailbox
  that has been active since it began, and `steady` is active still. A deletion
  makes `steady` smaller and a restore does not add to it, so what was found of a
  stage stays true of it whatever happens between the queries.

### FailureThrottleProofs

* `GuessesAreBounded`: `GuessInv` has a case for each state of the row. Not
  locked and below the limit, it has counted all guesses but those on their way;
  not locked and at the limit, all guesses beyond belong to logins that are about
  to lock it; locked, the passwords being verified are the last.
* `LocksAreBacked`: `LockInv` says so of the copies of the row that logins carry as
  well, and that a login which has begun the window anew finds the row in force,
  so that the clean-up does not remove it before the lock is set.

### SubmissionLimitsProofs

* `LimitsAreKept`. `RoomInv`: a submitter past its first row, with which it has
  looked at the limits again, holds that row and has room for its recipients. So
  of each scope there is one such submitter (`OneBeyond`), and nobody else adds to
  the sums it looked at. Commit turns room into recipients. Recipients of each
  age are numbered, so a sum over the ages is the cardinality of a set of pairs,
  and time, which moves every pair up or out, makes no sum grow
  (`RecipientsShift`).

### Only model-checked

Liveness, which is out of the prover's reach: `Settles`, `IdleConverges`,
`PurgeEnds`, `GetsThrough`, `LockoutEnds`, `Ends`, and the fair part of `KeepsPromise`, of which
`ImplementsPromise` proves the rest.
All invariants and the other action properties of the passing runs are proved.
That a purge begins only on mailboxes that have expired is no property: the list
it works off is read once, and a mailbox restored after that is purged.

## Plan

Done: mail store, IMAP view, relay queue with its abstract specification,
webhooks, import and export, mailbox lifecycle with inbound delivery, login
throttle, submission limits; theorems for all of them. Left, in this order:

1. `ConnectionGate` (`smtp/inbound/listener.go`, `ratelimit`): slots given back
   once.
2. `ChangeBus` (`database/changebus.go`) and `MigrationLock`
   (`database/database.go`), whose lease of 300 s is not renewed.
3. `SpamPolicy` (`spam`): the decision on a message from the checks' results,
   the per-mailbox thresholds and the classifier's fallback.

## Not modelled

About 87 of the repository's 103 thousand lines of Go are the database client
under `internal/database/ent`, generated from the schema (and thus not code in
which this project looks for mistakes); what it does is in the models as rows,
queries and updates. Any measure of how much is modelled should be taken against
the 16 to 17 thousand lines written by hand.

Of those: parsing, composing and hashing; DNS and the checks' scores; the object
store beyond "the message still exists" and the archive of an export;
certificates (one pointer that is swapped); metrics, logs, health; the offline
evaluation tool. Lost updates of flags (`SetFlags` writes all flags it read
before) appear in ImapView only as changes of the row. Deliveries that attach to
several mailboxes take their rows in the order of the recipients; two that do so
in opposite orders can wait for each other, like submission and append, which
`InboundDelivery` does not show because its transaction is one step. Nor is the
limit on app passwords (`routes.go:406`), which two requests at once may pass.
