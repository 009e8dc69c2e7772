# Verification of the CRM support back end

TLA+ models of the back end in `src/`, the TLC runs that check them on small
instances, and theorems about them that TLAPS proves for every instance.

The server is Node and Express over MongoDB (mongoose), with Redis and BullMQ
for jobs and Socket.IO for live events. Three facts shape almost everything
below:

* A handler is a chain of awaits. Between two of them any other handler may
  run, in this process or in another one.
* The code uses no MongoDB transaction and no document versions. A handler
  loads a document, decides on what it has loaded, changes it in memory, and
  `save()` writes the paths it has changed over whatever is stored by then
  (`MongooseDocument.SavedPath`).
* A process may stop at any await, and what was written stays.

So the question asked of each component is: what is still true when the checks
of a handler and its writes are apart?

## Inventory

| component | state | operations | what is hard | what makes it correct |
|---|---|---|---|---|
| workspace members | membership documents (role, status, dates) | role, suspend, activate, remove | checks on stale documents, the count of owners, revoking sessions | always an owner; admins manage only below; a removal is final; no old session survives |
| workspace invites | invite documents, e-mail index, TTL | create, resend, revoke, accept | seats are counted before they are taken; two writes of an accept | seat limit; an accepted invite has a member |
| workspaces, active workspace | workspace, session's workspace | resolve, switch | deleted or suspended membership behind a session | the session's workspace is one the user is active in |
| authentication, sessions | users, sessions, refresh hashes | login, refresh, logout, reset | two refreshes of one token, reset against login | a revoked session gets no token |
| one-time codes | code documents | create, verify | counting attempts, double use, rate limit | used once, at most five attempts |
| billing enforcement | (reads entitlement, usage) | seat, mailbox, upload, SLA checks | check apart from the write | bounded overshoot |
| billing webhooks, queue, sync | inbox events, jobs, subscription, entitlement | accept, enqueue, process, sweep | redelivery, order, crash, retry, overlap with the sweep | every event is processed; the workspace ends with what Stripe has |
| billing lifecycle, plan changes | subscription dates | trial, past due, grace, block | time, a plan change against its own webhook | status follows the dates |
| tickets | ticket, its counters and clock | create, update, assign, status, close, reopen | stale loads, a second document (conversation) | closed stays closed; nobody's ticket is stolen; mailboxes agree |
| ticket messages | messages, conversation | create with rollback | two parallel saves, rollback over later writes | counters match messages |
| SLA runtime | ticket.sla | snapshot, pause, resume, resolve | every order of status changes, rebuild | the clock follows the status |
| business time, SLA policies | weekly hours, policies, defaults | add minutes, default policy | windows, holidays, zero-length days | equal to minute-by-minute counting; one default |
| mailboxes | mailboxes, default flag | create, default, activate | two defaults, no default | one active default |
| categories, tags, participants | trees and counters | create, move, deactivate | paths of descendants, counters | paths match parents |
| customers | contacts, organizations | create, update | uniqueness | one contact per address |
| files, links, storage | file documents, objects, links | upload, delete, link | a document without an object, or the reverse | no link to a deleted file |
| widget | widgets, visitor sessions, recovery codes | bootstrap, message, recover | two messages open two tickets; recovery after expiry | one open ticket per session |
| realtime, collaboration | sockets, rooms, presence, claims | join, leave, claim, typing | revoked sessions, time-to-live, several servers | no room without membership; one claim per ticket |
| admin, platform | platform sessions | login, refresh, metrics | as authentication | as authentication |
| reports, references, notifications, automations, integrations, inbox, health, users, roles | - | reads, or models only | - | - |

The components meet in four places: members and invites take seats from the
billing entitlement; a membership change ends sessions, which sockets and
refreshes are checked against; a message changes ticket, conversation and
clock; and webhooks write the subscription and the entitlement that the seat
checks read.

## Modules

| module | models |
|---|---|
| `MongooseDocument` | what `save()` writes of a changed document (external: mongoose) |
| `WorkspaceMembership`, `..._proofs` | members, invites, seats and the sessions bound to one workspace; theorems |
| `TicketSla` | which clock of a ticket runs, as pure operators |
| `TicketLifecycle`, `..._proofs` | one ticket, its conversation, its messages, with the clock; theorems, those on `Files` included |
| `BillingWebhooks`, `..._proofs` | the inbox of Stripe's events, its queue, workers and sweep, and what they write; theorems, those on `Subscriptions` included |
| `MailboxDefaults`, `..._proofs` | the mailboxes of a workspace, and its default kept in two documents; theorems |
| `OneTimeCodes` | the codes of one address: cooldown, window, attempts, consumption, deletion by TTL |
| `AuthSessions`, `..._proofs` | the sessions of one user, their refresh tokens, his password and his sockets; theorems, those on `OneTimeCodes` included |
| `SlaPolicies`, `..._proofs` | the SLA policies of a workspace, its default and the overrides of mailboxes; theorems |
| `BusinessTime` | business hours: adding and counting minutes, as pure operators |
| `TicketClock` | the SLA dates of a ticket in time, made of `BusinessTime` |
| `SlaStopwatch` | what the clock promises: a stopwatch that counts open minutes; `TicketClock` implements it |
| `TicketCategories` | the tree of categories, with stored paths |
| `TicketCreation`, `..._proofs` | the creation of tickets, with number, clean-up, usage, and references that change meanwhile; theorems |
| `TicketParticipants` | the participants of a ticket and the count it keeps |
| `Customers` | a contact under overlapping updates, identities, lists of tags |
| `WidgetSessions`, `..._proofs` | a chat widget: visitors, contacts, tickets, recovery, sockets; theorems |
| `Collaboration` | the agents on one ticket: signals, claims, timers, what each is told |
| `Files` | objects, documents, links, and the storage in use |
| `Subscriptions` | a subscription through trial, grace, block, Stripe, and an admin's changes |
| `Accounts` | a user's sessions and his one-time codes, side by side |
| `TicketsAndFiles` | a ticket and the files of its workspace, side by side |
| `WorkspaceBilling` | a subscription under names that are free in the other modules |
| `MC...` | the constants of the instances below, and the runs that put several parts together |

In every module a request, a job or a sweep is a record: `pc` names the await
it is at, and the other fields hold what the handler has read. An action is the
code between two awaits. Variables marked "history" are not in the code: they
remember what a property needs, such as that two requests overlapped.

A name with an underscore, such as `MayManage_AnyTarget`, is a mutant: a
plausible mistake in the definition that follows it, kept to show that a
property notices. Every conjunct of a property has one in its module;
`PROJECT.json` lists one per property of each run.

### WorkspaceMembership

`member`, `invite`, `session` hold the documents, `req` the requests.
`Authenticate` is the middlewares: they read the actor's role once. A member
operation is `LoadTarget` (find, not removed, authority), `CheckTarget` (last
owner or free seat), `SaveTarget`, `ListSessions` and `RevokeSessions`. An
invite is `InviteCheckMember`, `InviteCheckSeat`, `InviteCreate`; resend and
revoke are `LoadInvite` and `SaveInvite`, with `MarkExpired` for an expired
one; an accept is `AcceptFind`, `AcceptFindMember`, `AcceptCheckSeat`,
`AcceptSaveMember`, `AcceptSaveInvite`. `EnterResolve` and `EnterBind` are a
login, refresh or switch into the workspace, `LeaveWorkspace` a switch away. A
bind takes a session that is new, here already, or in another workspace, so one
that has left may come back; only a revoked one stays revoked.
`InviteLapses` and `InvitePurged` are time and the TTL monitor, `Fail` an error
or a stop at any await.

The histories, written by `Records` and read by properties only. Of owners:
`overlap`, a request has made a step while another was in flight; `late`, the
requests about to save since whose count of owners an owner was lost; `raced`,
an owner was lost to one of those, or to a request whose target was no active
owner when it was read, so that nothing was counted. Of sessions: `old`, those
of a change's target that have been live here ever since it was saved; `again`,
the changes whose target has been active since then; `stale`, the enters whose
membership has changed since they resolved it; `stray`, the live sessions that
one of these has bound. `NoOldSessionSurvives` says of a change that ends that
the `old` sessions are gone, and that what is live is in `stray`, unless the
target was active `again`.

Left out: the account an accept creates for a new address, e-mail, realtime
disconnects (best effort), and the dates beside the statuses. `deleted` stands
for `deletedAt` and `removedAt`. Two requests that resend one invite write
tokens one after the other; the model keeps only the expiry.

### TicketSla and TicketLifecycle

`TicketSla` keeps of `ticket.sla` whether there is a resolution target, whether
the clock is paused, and which dates are set. A date a handler has just made is
`"now"`, which always differs from the stored one, so `save()` writes it.

A message is `LoadTicket`, `LoadConversation` (and the check of the loaded
status), `CreateMessage`, and then `SaveTicket` and `SaveConversation` in either
order, as under `Promise.all`. `SaveFails` starts the catch block while the
other save may still be under way; `DeleteMessage` (or `DeleteFails`) and the
two rollbacks follow. All other operations are `LoadTicket` and `SaveTicket`;
`Accepted` holds their checks, `Changed` what they do to the document. A
mailbox change moves the conversation first (`SyncConversationMailbox`), then
rebuilds the clock by reads that may fail (`ReadFails`), and moves it back when
the ticket's save fails (`UnsyncConversationMailbox`). What restores a document
is under `Promise.allSettled` and may fail without anybody hearing of it
(`UndoFails`), and the process may stop at any await (`Stop`).

The history `amiss`, written by `Records` and read by properties only, keeps
what has gone wrong so far: `overlap`, a request made a step while another was
in flight; `failed`, a save failed; `late`, a message was deleted while one of
its saves could still land; `torn`, a stored message was left half counted or
half undone, because it could not be deleted, a document could not be restored,
or the process stopped; `rebuilt`, a change of priority or mailbox began the
clock anew; `apart`, a mailbox change had moved the conversation and then
stopped, could not rebuild the clock, or could not move it back. A property names
the values it excepts (`Spared`) and holds of every other behaviour. A behaviour
may also begin with `overlap`, when nobody asks what holds until two requests
meet; this keeps the runs with two requests small.

Left out: subject, category and tags (plain fields of the same save),
attachments and their links, participants, previews, and breaches and minutes
of the clock. The three message types the handler accepts are all there.

### BillingWebhooks

Stripe's subscription is its version, the number of the event that announced
its latest change; ignored events announce none. `Deliver` hands an event to a request in any order,
until it is answered and possibly again. The request is `Persist` (an atomic
upsert, and the decision about a duplicate), `Enqueue` (one job per event) and
`Mark`, or `EnqueueFails`, or `RequestLost`. A worker's run is `Find`,
`OpenSubscription`, `AskStripe` for events without a subscription in them,
`SaveSubscription`, `ReadForEntitlement`, `WriteEntitlement`, `Settle`; the
catch block is `RunFails` and `SettleFailed`. The sweep processes the oldest
failed or old pending events one after the other. `WorkerStops` is a crash at
any await, `JobEvicted` the removal of old jobs by BullMQ.

`Poison` events always fail (no local plan has their price). `applied` is
history. Left out: the case that Stripe confirms that there is no
subscription, several workspaces (events of different workspaces do not meet),
and a job that BullMQ runs twice at once because its lock was lost.

### MailboxDefaults

`mailbox` holds the documents, `pointer` the workspace's `defaultMailboxId`.
Every request ends in the alignment of the two: `LoadWorkspace`,
`ListMailboxes` (with `Canonical`, the choice of the default) and perhaps
`SeedMailbox`, then `UnsetOthers`, `SetDefault` (refused by the unique index
when another mailbox has the flag, and tried twice), `SetPointer` (or
`SetPointerFails`, tried twice) and `Verify`. A set-default starts at
`UnsetOthers`; the others come there after `CheckLimit`, `InsertMailbox`,
`CountActive` and `SaveActive`. `Fail` is an error or a stop at any other await.

`Verify` answers with success or a conflict and changes nothing. Left out: the
update of plain fields and of the SLA policy, and duplicate e-mail addresses.
Mailboxes are numbered in the order of `createdAt`; the code never deletes one.

### OneTimeCodes

`code` holds the documents of one address, purpose and scope, `now` the time in
steps of the cooldown. A send is `Begin`, `CheckCooldown`, `CheckWindow`,
`CreateCode`, a verification `FindCode` and then `CountAttempt` or `Consume`,
each of which saves what was loaded. `Purge` is the TTL monitor, `Fail` an
error at any await. The hash of a code is left out: a verification is told
whether it brought the right one. `SendAssumption` is what the limit on codes
needs of the configuration: a code outlives the cooldown, and the window is at
least as long as its life.

### AuthSessions

`session` has the documents with the refresh token they hold the hash of,
`held` the tokens clients have. Tokens are numbered in the order in which they
are built (`built`), which need not be that of the saves. A login is `LoadUser`
(it compares the password), `CreateSession`, `FinishLogin` (which saves the
user); a refresh `ValidateRefresh` (a token that does not match revokes the
session: `RevokeReused`), `BuildTokens`, and `RotateTokens`, the save and the
answer; a logout, a logout of all and a change or
reset of the password go through `Authenticate`, `SetPassword`, `ListSessions`,
`RevokeSessions`, `DisconnectSockets`. A socket is authenticated and joins its
rooms by `JoinRooms`. `Fail` is an error or a lost answer. Sessions of platform
admins follow the same code, without passwords. Signup is left out.

### SlaPolicies

`policy` and `pointer` keep the default twice, `override` is the policy of each
mailbox. A set-default is `CheckTarget`, `SetPointer`, `UnsetFlags`, `SetFlag`,
`ReadBack` and, if these do not agree, the repair (`ReadPointer`,
`CheckCanonical`, `ClearCanonical`). A deactivation is `LoadWorkspace`,
`LoadPolicy`, perhaps `LoadReplacement`, then `Deactivate`, `ClearOverrides`, `ClearPointer`, and a set-default of the replacement. `TicketPolicy` is the policy a
new ticket gets. Names and targets are left out; business hours are documents
written once each.

### BusinessTime, TicketClock, SlaStopwatch

`BusinessTime` computes on windows of local days, as the code does; `IsOpen`
and `OpenMinutes` are the definition it is compared with, minute by minute. The
time zone is a fixed offset (the code asks `Intl` at every date, so changes of
daylight saving are left out). `TicketClock` has the dates of `ticket.sla` and
the actions `Tick`, `ChangeStatus`, `Reply`. Nothing counts minutes while time
passes: `Elapsed` is what was consumed and what the running clock would add.
With `elapsed <- Elapsed` every behaviour is one of `SlaStopwatch`, which does
count (`CountsAsStopwatch`). `AgreesWithFlags` ties the dates to the flags of
`TicketSla`, which `TicketLifecycle` uses.

### TicketCategories

`category` has slug, parent and path of each. A request walks the parents of
the new parent (`ReadParent`, `WalkUp` with the visited set), saves the category
(`Save`), and then rewrites the paths of what is below (`FindDescendants`,
`WriteDescendant`), one await each. An update changes the parent or the slug;
both at once go through the same save. Left out: descriptions and order, and
tags, which are single documents.

### TicketCreation

A request resolves the organization, the assignee and the labels one await
after another, allocates the number (`AllocateNumber`, an atomic increment),
writes ticket, conversation, link, first message and summary, reads the message
back (`HydrateMessage`), then the ticket (`View`), and counts it. A summary that
fails takes its message with it (`DeleteMessage`); `CleanUp` takes ticket and
conversation back when anything up to the reading of the message fails. That
reading comes after the `try` of `createTicketMessage`, so when it fails the
message stays, without its ticket; the ticket stays when it is its own reading
that fails. The history `unread` remembers these two. `ChangeReferences`
switches contacts, labels and members meanwhile. `Crash` is a stop of the
process.

### TicketParticipants, Customers

A participant is found, written (created or taken up again; the unique index
refuses a second one), counted, and the count saved in the ticket. A contact is
loaded and saved, with the names it is shown and found by; `CreateIdentity` is
the unique index on identities, `NormalizeTagList` what becomes of a list of
tags. Organizations are single documents and left out.

### WidgetSessions

`session`, `contact`, `identity`, `ticket` and `recovery` are the documents in
the order of their creation; `touched` and `recent` the two orders the code
sorts by. A message finds or makes the contact (`FindContact`, `WriteContact`,
`EnsureIdentity`), then the ticket (`FindEligible`, `CreateTicket` or
`AppendMessage`), and saves the session (`Sync`). A recovery is `BeginVerify`
and `CreateRecovery`, and its use `BeginUse`, `Prove`, `CreateIdentity`,
`CreateSession`, `Supersede`, the disconnecting, and the consumption of the
record. Sockets subscribe and an event is published to the bound sessions
(`Bound`). What `createTicket` and a message do inside is one step here.
Histories record what the properties speak of: the addresses a contact has borne
(`borne`), the last answer of a session, and which requests met or failed.

### Collaboration

`value` and `claim` are what the store has, which expire; `listed`, `ref` and
`claimRef` its sets, which do not; `timer` and `claimTimer` are the timers of
the node; `view` is what each socket was last told. A request looks at the
store, writes, schedules its timer, loads again, prunes what has expired, and
tells the room. `Expire` is time, `Fire` a timer. Presence and typing are kept
alike, so a signal stands for either. Left out: the action guard (a rate
limit), Redis as the second store, and several nodes.

### Files

`object` is the storage, `file` the documents, `link` and `ticketLink` the
links of files with messages and with the ticket, `snapshot` the storage the
entitlement has. An upload is `CheckLimit`, `PutObject`, `CreateFile` (or
`CleanUpObject`), `Count`, `WriteSnapshot`; a deletion `RemoveObject`,
`MarkDeleted`, `DropLinks`; an attachment `BeginAttach`, `CreateMessage`,
`LinkMessage`, `FindLink`, `LinkTicket`, `SaveSummary`, with `Undo` and
`DeleteMessage` as its catch block. Any step may fail, those of the catch block
without anybody hearing of it, and `Stop` is a crash.
All files have one size; there is one ticket.

### Subscriptions

`sub` is the subscription of the workspace, `remote` the checkout sessions and
the subscriptions at Stripe they became, `now` the day. `Load` and `SaveLocal`
are the lifecycle that every check of the billing begins with (trial, past due,
grace, block: `TrialIsOver`, `PastDue`), `OpenSession` a checkout, `Complete`
and `RemoteChanges` are Stripe's, `SyncLoad`, `SyncSave` an event, `AskStripe`,
`UpdateRemote` a change of plan or add-ons. An admin extends
(`SaveExtended`, `MarkWorkspace`), suspends and reactivates. Left out: the
portal (its effects are those of an event), the customers of Stripe, and the
catalog; a plan with its add-ons is one value. Two histories tell when a
document was saved that had changed since it was loaded: `mixed` for ever,
`crossed` until a subscription of Stripe's is saved again.

## Runs

Deadlock is not checked: a ticket, a workspace or an inbox may come to rest,
and bounds on messages, requests or faults end a behaviour.

| run | shows | bounds |
|---|---|---|
| `membership_overlap` | With two requests at once the seats exceed the limit by at most one, an accepted invite has a member, an owner is left unless `raced`, and a membership change leaves of its user's sessions only those bound since by an enter that had resolved the membership before. One request at a time, whatever query fails: an owner is left, `deleted` means removed, admins manage below, a removed member returns by an invite. | four users, two invites, limit two; two sessions of one member in `sessions` (suspensions, activations, removals) and `roles` (changes of role, suspensions); `lone`: one invite, of an agent |
| `ticket_concurrent` | With two requests at once: no count exceeds the messages, an assigned ticket is not new, a closed one has its date, the first response is not forgotten. One at a time, whatever read, save, deletion or undoing fails, whatever save lands late and wherever the process stops: counters match messages (but for a message deleted under its save, or `torn`), the clock follows the status until it is begun anew, closed tickets are only reopened, nobody's ticket is taken but by an owner's or admin's assignment, the mailboxes agree unless `apart`. | `status`: one message, one agent; `messages`: three messages; one at a time: `lone`, three messages, a manager and an agent, failing reads and saves; `late`, two messages and every failure; `moved`, one message, two mailboxes, changes of priority and every failure |
| `billing_worker` | One worker that looks every change up at Stripe: a processed event stays processed; between runs the entitlement is the subscription's and the subscription is Stripe's. | three events, one of an ignored type, two attempts, one fault (it may cost an answer, so that Stripe delivers again) |
| `billing_overlap` | Worker and sweep at once: a processed event has been applied and is reopened only by a run that overlapped; every event is processed in the end, although another one fails for good. | two events, one of which always fails, one fault, sweeps of two events |
| `mailbox_defaults` | Two requests at once, one of which may fail: a request that runs alone leaves flag and pointer aligned, whatever it started from; overlapping ones leave one active default; alone, only a set-default moves it. | three mailboxes, an active limit of two, one fault |
| `accounts` | Sessions: what ends them ends them for good, with their sockets; a session accepts a token some client has, and the newest unless two were built side by side. Codes: used once, tried and sent a limited number of times. | `rotations`: two sessions with three and one tokens, one password, one fault; `refreshes`: four and one tokens, no fault; `changes`: two and one tokens, two passwords, no fault; `codes`: three codes in four units of time, two attempts; two requests |
| `sla` | The default policy and what points to it agree after requests that run alone, and nothing activates a policy by itself; the clock is a stopwatch over open minutes and its due date is when they are used up; the check of a day accepts disjoint windows only. | two policies, one mailbox, two requests, one fault; weeks of two days of four minutes, four schedules, eight minutes; every day of up to two windows |
| `desk` | Categories stay trees whose paths are right; a ticket is created with its conversation and its message, or leaves none of them but what could not be read back, and no number is given twice; participants, contacts and identities agree with what is derived from them. | three categories, four slugs, three requests; two creations with one organization, one label and one member, two faults; two users; three updates; lists of four |
| `widget` | A visitor is in the conversation his last answer was about, and never in that of another address; a recovery opens one session and ends those it replaces; what has ended hears nothing. | two visitors, two addresses, two mailboxes, two tickets, up to five sessions, two requests at once; four in all for `visits`, three for `moves`, `recoveries`, `verifications` and `sockets`, whose disconnecting may fail once |
| `collaboration` | Everybody in the room has been told what is so; who goes leaves nothing behind; what is held has its timer; a claim stays while others go. | three sockets of two agents; `tabs`: two values, four requests one by one; `signals`, `claims`: three requests, two at once |
| `workspace` | Files under overlapping requests, and the subscription under its lifecycle, Stripe and an admin. | `files`: three files, two messages, five requests, two at once, one fault; `trial`: four days, four requests, one checkout; `payment`: three requests, two checkouts; `lone_payment`: five requests one by one |
| `collaboration_unsubscribe` | *violated*: a tab that unsubscribes clears the claim of another tab. | as `collaboration` |

Most runs join parts that share nothing, or several instances of one module
with other bounds: `part` says which a behaviour is of. The properties of a
part are the conjuncts of the run's properties, each stated and explained in
the module it is of. Groups that theorems are about are defined where the
theorem and the run both find them: in the module they are of
(`MembersRemain` and `LoneRequestsObey` of `WorkspaceMembership`, the
`LoneRequestsObey` of `TicketLifecycle`, `LoneRequestsRepair`, `CreatedWhole`, `WorkspaceAsStripe`, `PoliciesAligned`,
`SessionsEnd`) or in the one that puts it beside another (`CodesLimited` in
`Accounts`, `FilesAgree` in `TicketsAndFiles`, `SubscriptionHolds` and
`OnlyAllowedSteps` in `WorkspaceBilling`). The other groups are in the MC modules.

Why these bounds are enough: the properties relate at most two requests (one
that checks, one that changes what was checked) to one document, or two events
to one subscription. Two requests give every order of reading and writing of a
pair; a third repeats the second. Where a third request matters (after an
overlap comes one that runs alone) the bound on requests in all is three or
more. Two mailboxes, two messages, two visitors and two events are the least that let the interesting case happen; four users and a
limit of two let the seats overflow by two if they could. A week of two days
has a closed day, a window over the week's end, and windows that meet.

### What overlap breaks

What holds for one request at a time and fails for two is part of the result;
the hazards in `PROJECT.json` name the lines.

* That an owner is left: two owners who demote or remove one another both count
  two (`src/docs/user-management-module-plan.md:421` promises the last one
  stays). `HasActiveOwner` excepts just this (`raced`): a save that takes
  ownership after another owner was lost since its count, or from one who was
  no active owner when it was read and has become one since.
* `ManagesBelow` fails when an owner promotes a member an admin is suspending;
  `ReturnsReinvited` and `DeletedIffRemoved` when a suspension overlaps a
  removal.
* `ClosedOnlyReopened`: a reply that overlaps a close reopens the ticket, though
  `src/docs/api.md:4768` says that closed tickets accept only internal notes.
  `NeverStolen` fails when a self-assignment overlaps an assignment,
  `MailboxAligned` when two mailbox changes overlap.
* A login or a switch that resolved the membership before it was ended opens a
  session, or brings back one that had left, after the revocation has listed
  the user's sessions (`stray`).
* A change of priority restarts the clock of a waiting or solved ticket, also
  alone (`src/docs/app-current-state-report.md:614`); `SlaFollowsStatus` and
  `FirstResponseOnce` hold until then (`rebuilt`).
* Two events that carry the subscription, processed in the other order, leave
  the older state (`src/docs/api.md:6377`); `EntitlementFollows` fails when
  worker and sweep overlap, and `EveryEventProcessed` when as many events as the
  sweep's limit fail for good.
* Flag and pointer of the default mailbox end apart when two alignments
  overlap, until the next request that runs alone.
* A login that compared the old password before it was changed opens a session
  afterwards. Two refreshes with one token both get new ones; the session
  accepts the one that was saved last, which need not be the newer, and the
  client with the other ends it by using that.
* Two verifications that overlap both accept one code.
* A set-default that overlaps a deactivation makes the inactive policy active.
* Two moves of categories together make a loop.
* Two first messages of one visitor make two contacts and two tickets, and may
  bring a session back to a conversation whose recovery has replaced it.
* Overlapping signals are told in any order, until the next one; with two tabs
  unsubscribing the one clears the claim of the other, also alone (the finding:
  `src/docs/api.md:1072`).
* A link that `linkAttachments` made before it failed stays, and keeps the file
  from being attached again.
* A lifecycle or an extension that saves over Stripe's subscription leaves a
  paid workspace past due until the next event, and may leave the date of a block
  behind, which the next block then takes for its own. Two of them can leave a
  workspace bound to one subscription at Stripe with the status of another, say
  canceled, so that a checkout lets it pay twice. Two checkouts side by side end
  in two paid subscriptions.

Symmetry is used for joining users, invites, policies and requests, only in
runs without liveness.

### Fairness

Only `billing_overlap` needs it. `Fairness` is weak fairness of: the first
delivery of each event (Stripe repeats a delivery that is not answered), each
step of a request and of a run (Node runs what is ready), taking a waiting job
(BullMQ), the ageing of an event, and the sweep (a job scheduler repeats it
every hour). Faults are not fair and are bounded, so they stop in the end, as
the documents assume of Redis ("temporarily unavailable").

## Theorems

`WorkspaceMembership_proofs` proves, for any sets of users, invites, sessions
and requests, with `MembershipAssumption` (the roles and the start are
consistent, and there is a founder):

* `TypeCorrect`: `TypeOK`, `RequestsWellFormed`, `InvitesHaveUsers` always hold.
* `AcceptedHasMember`: `AcceptedInviteHasMember`.
* `OldSessionsEnd`: `NoOldSessionSurvives`.
* `NobodyIsMissing`: `MembersRemain`, and `LoneRequestsDoObey`: `LoneRequestsObey`,
  both with `SeatAssumption` (a count of the owners is of a finite set).
* `SeatsBounded`: `SeatOvershootBounded`, with `SeatAssumption` as well (finite
  sets, and a workspace that starts within its limit). For one request it says
  that the limit is exact.

`IndInv`, at the end of `WorkspaceMembership`, is the invariant behind them.
Its parts, and why each is needed:

* `RequestsWellFormed`: what a request holds at each step. A request that is
  about to accept an invite has found or made the membership; without this
  `AcceptedInviteHasMember` is not kept by `AcceptSaveInvite`.
* `SeatsReserved`: the users in seats together with the users of the requests
  that have passed their seat check are at most the limit plus one per further
  request. A seat check counts what is in seats, so it bounds those, and each
  request at its save adds one user; the seats alone would not be inductive,
  because a save would add a user without a check in the same step.
* `SessionsListed`: a revocation has listed every live session of its user but
  those bound since the change was saved. As long as the user has not been
  active since then, only an enter that is `stale` can have bound these: one
  that is not still sees him active. It links the histories of the sessions to
  the `ids` that are revoked.
* `OwnersCounted`: a request that is about to take ownership has seen two
  owners, and as long as none is lost (`late`) there still are two. So its save
  leaves one. `HasActiveOwner` alone is not kept by `SaveTarget`, which counts
  nothing.
* `LoneHolds`: until two requests overlap, what a request has loaded is so
  (`StillSo`): the actor still has the role it was authenticated with, and the
  target is as it was read. So authority that was checked on what was read holds
  of what is written, and no owner is lost behind a count.

The proofs go action by action: a lemma per part of the invariant, one step per
action, and finite-set lemmas for the seats (adding a user adds at most one).

`TicketLifecycle_proofs` proves, for any sets of requests, users and mailboxes
and any number of messages, with `TicketAssumption`:

* `ClosedTicketsHaveDates`: `ClosedHasDate`, whatever overlaps, fails or lands late.
* `AssignedTicketsLeaveNew`: `AssignedNotNew`, until a save fails: a rollback
  may bring "new" back to a ticket that was assigned in between.
* `FirstResponseKept`: `FirstResponseOnce`, until a save fails or a change of
  priority or mailbox rebuilds `ticket.sla` as for a new ticket, without the
  response.

The argument has two halves. `Effect` says all that a step does to the ticket:
it stays, or one request's `save()` merges its change, or a rollback writes the
ticket back that the request had loaded; `StepInv` (documents and requests are
well-formed) is what makes every action such a step. The other half is about
one change: `ChangedFields` says what a request may have done in memory to
status, date, assignee and first response, and `SaveKeepsDate` and
`SaveKeepsAssigned` that merging such a change path by path into a ticket that
others have changed since keeps status and date, and status and assignee, consistent. Each invariant
also speaks of the tickets that requests hold in memory, because a save
compares against those: a ticket that is not new in some memory is not new in
the database (`NewInv`).

* `NoMessageIsInvented`: `CountersNeverExceed`, until a save fails (a message
  that is taken back may have been counted in another request's memory).
  A save writes what the request counted in memory, so the invariant
  (`CountInv`) bounds the counts in every request's memory by the messages
  stored by now; a request that has stored its message may count that one too.
* `MailboxesStayAligned`: `MailboxAligned`, for requests that come one at a time,
  whatever fails or stops, but for the three failures that leave the conversation
  moved (`apart`). Between the two writes of a mailbox change the documents
  differ; `MovesMailbox` says which one has moved, and that the loaded mailbox,
  which the rollback restores, is still the ticket's.
* `LoneTicketRequestsObey`: `LoneRequestsObey`. While one request is in flight,
  three facts hold of what it has in memory (`LoneInv`). Of its ticket, what it
  has loaded and checked is still so (`Known`), so a closed ticket is left by a
  reopening and a self-assignment finds nobody. Of the clock, the one it is
  about to save follows the status it is about to save (`ClockKnown`): every
  change of status makes the matching change of the clock, a save merges both
  path by path into the ticket as it was loaded, and a rollback writes both back.
  Of the counts, each document counts the stored messages, or one fewer as long
  as this request has still to save it, or one more between the deletion
  of its message and the rollback (`CountsKnown`). That a deletion finds the
  message it counts on needs that as many messages of a type are stored as
  requests may still delete one (`StoredInv`), which is why the set of requests
  is assumed finite. The three exceptions (`late`, `torn`, `rebuilt`) fall away
  one by one from the part they spoil; the others go on holding.

None of these has a hypothesis on what fails: the exceptions are in the
properties, as what has happened (`amiss`), and `FailureInv` says that without a
failed save no request is in its catch block.

* `FilesDoAgree`: `FilesAgree`, for any number of files, messages and requests that
  overlap, fail or stop anywhere, with `FilesAssumption`. Numbers of files and messages are used once and a request owns
  those it is making (`NumbersAreNew`); an object outlives its document, but for
  the deletion under way (`ObjectsFollow`); what is stored, and what uploads have
  made sure of, bounds the room (`RoomIsCounted`); the count of a request that
  runs alone is the storage (`LoneCounts`); and the links of a file whose requests
  neither crossed nor failed are those of one message, or half-way as its request
  says (`LinksFollow`).

`AuthSessions_proofs` proves, with `SessionsAssumption` (bounds are numbers):

* `RevokedStaysRevoked`: `RevokedStays`: revoked sessions and replaced passwords do
  not come back, and a refresh that runs alone uses its token up: while it runs
  no other request does, so the token it has validated is still the session's
  (`AloneInv`).
* `SessionsAreEnded`: `SessionsEnd`, as long as nothing fails. A live session
  opened with an older password is one a racing login opened, or the request
  that set the password has still to list or to revoke it (`OldSessionsEnd`);
  the socket of a revoked session is about to be disconnected, or one that was
  joining at that time (`OldSocketsEnd`).
* `NewestTokenIsAccepted`: `NewestTokenWorks`. The token a session accepts was
  handed out, or the login that opened it has yet to answer; and of a session in
  which no two tokens wait for their saves, the newest token that was built is
  saved, or is the one that waits (`NewestIsHeld`).

* `CodesAreLimited`: `CodesLimited`, for any number of requests and codes, from
  `SendAssumption`, which the defaults of `src/src/config/auth.config.js:37`
  satisfy (a cooldown of a minute, a life of ten, a window of fifteen). A code is
  accepted once per request that loaded it while it was open, and nobody loads
  it after that (`UsesCounted`). Of requests one after the other: each answered
  attempt is stored or loaded by the request about to count it (`TriesCounted`),
  and what a send has checked of cooldown and window is so until it creates its
  code, because the TTL monitor deletes only expired codes (`SendsChecked`).

`MailboxDefaults_proofs` proves, for any number of mailboxes and requests, with
`MailboxAssumption`:

* `TypeCorrect`, with what a request holds at each await.
* `OneDefaultIsLeft`: `OneActiveDefault`. The unique index keeps the flags to
  one (`OneDefault`); as long as nothing fails, some request is about to give a
  missing flag, or to take it from an inactive mailbox (`Mending`). Neither
  could be said of single requests: the one that mends may be another than the
  one that broke.
* `LoneRequestsDoRepair`: `LoneRequestsRepair`, and `OnlySetDefaultMovesDefault`:
  `OnlySetDefaultMoves`. While a request runs alone no other is under way, and
  what it has read is so and what it has written has stayed (`LoneAchieves`).

`BillingWebhooks_proofs` proves, with `BillingAssumption`:

* `OnlyOverlapsReopen`: `OnlyOverlapReopens`: of all steps only the failure of a
  run that had read the event before takes it from "processed".
* `ProcessedEventsWereApplied`: `ProcessedWasApplied`, by `SettlesApplied`: a run
  about to settle has written the entitlement.
* `SettledForGood`: `ProcessedForGood`, for a single run (one worker, no sweep).
  Nobody else settles the event of the run (`OwnEventOpen`).
* `WorkspaceEndsAsStripe`: `WorkspaceAsStripe`, for a single run and events that
  make the code ask Stripe. The subscription holds an announced version, the
  entitlement one not newer, no processed event is newer than the entitlement,
  and the run is as far as its step says (`FollowInv`).

* `SubscriptionIsKept`: `SubscriptionHolds`, and `OnlyAllowedAreTaken`:
  `OnlyAllowedSteps`, for any numbers of days, checkouts and requests that
  overlap, with `SubscriptionsAssumption` (bounds are numbers). What a request
  holds in memory is right, and stays so while others go on (`RequestsHold`):
  days only pass, trials are only extended, a subscription canceled at Stripe
  remains canceled. Saved over the document it was loaded from, it leaves the
  document right (`SubHolds`); saved over another, it sets `mixed` and `crossed`,
  and what still holds of a mixture is proved path by path. One subscription is
  paid for because a document that says "canceled" says so truly (`Truthful`),
  so that the checkout it allows finds none alive. `StatusFollows` needs what a
  request is about to save: a lifecycle or an extension is of a subscription
  without Stripe (`AboutTrial`), an event of the one it was told
  (`KnowsStripe`).

`SlaPolicies_proofs` proves, with `PoliciesAssumption`:

* `PoliciesStayAligned`: `PoliciesAligned`. As in `MailboxDefaults`, a lone
  request's reads hold (`LoneAchieves`), and as long as nothing fails the
  request that deactivates the default is about to clear or to replace it
  (`DefaultMends`), and so with the overrides (`OverrideMends`).
* `OnlyActivationReactivates`: `OnlyActivationActivates`, by the same invariant:
  a set-default that runs alone has seen its target active, and it still is.

`TicketCreation_proofs` proves, with `CreationAssumption` (the requests are
numbered and finitely many):

* `TicketsAreCreatedWhole`: `CreatedWhole`, for any number of requests that
  overlap and fail anywhere. Five facts carry it. What a request has written is
  known at each of its awaits (`AllWritten`), so that the clean-up removes what
  is there; and so are its message and what it could not read back (`AllWhole`),
  so that a refusal leaves nothing else. The numbers of tickets, and those allocated and not yet used, are
  allocated once each (`NumbersFresh`): the counter alone would not do, because
  a number that is allocated and not yet used must not be allocated again. The
  counter does not exceed the requests past their allocation
  (`CounterBounded`). What a request has found valid was so during the request
  (`AllFound`), which is all the code promises: it does not check again before
  it saves.

`WidgetSessions_proofs` proves, with `WidgetAssumption` (the bound on sessions is
a number, and "none" no address; only the last theorem uses it), on the types,
the existence of every document referred to, and which operation may be at which
await (`Basic`):

* `EndedAreSilent`: `EndedIsSilent`. It needs that what a publishing has left
  out had ended (`HeldHaveEnded`), and that the socket of an ended session, or
  of an inactive widget, has failed to be disconnected or is in the hands of the
  request that will do so (`SocketsWatched`).
* `RecoveriesReplace`: `RecoveryReplaces`. That two sessions of one record make
  it contested is not inductive: a record that has made one must not be free for
  a second. So it is contested, used up, or held by the request about to use it
  up (`UsesCounted`). A session that was in the conversation stays away once it
  has left (`HeldEnd`), because a request that has met no other of its visitor
  holds the ticket that the session holds (`VisitorsStay`). A visitor who
  continues alone is followed through all his steps (`AloneContinues`).

* `ConversationsAreOwn`: `OwnConversation`. A lookup by an address finds one who
  has borne it, because identities, records and requests hold none but such
  (`AddressesBorne`); so a session, and a request that has loaded it, is in a
  ticket it opened or recovered (`TicketsOwned`). A visitor of whom no two
  requests met keeps the ticket of the last answer (`AnswerKept`) and the contact
  of the first ticket (`ContactKept`): a first ticket is of a contact that the
  session does not have until the request that opened it saves it. Before two
  requests race, one at most is between its lookup of a contact and the writing,
  and nobody bears what it did not find (`LoneLookup`).

The attempt at `RecoveriesReplace` refuted an earlier `SupersededEnd`, that a recovery
ends every session it found in its conversation: a session may have left for a
new ticket after an agent closed the old one, and one whose requests overlapped
may come back. That at `ConversationsAreOwn` refuted an earlier
`OnlyOwnConversation`, that the contact of a recovered conversation bears the
address now: two messages of one session may both find its contact without an
address and fill it, and the later one overwrites the address that a recovery
was verified with in between. That at `SubscriptionIsKept` refuted three. The
date of a block need not be the end of the grace once two documents have mixed;
the grace may begin again across a save over a document that had changed; and
two such saves can let a workspace pay twice. The runs were too small to show any of these; the
properties now say what is so. That `touched` and `recent` list every session and
ticket was dropped from `TypeOK`: the length of a `SelectSeq` needs induction.

Only model-checked: the clock, its flags and its refinement of the stopwatch;
participants and customers (`RecordsAgree`, `OnlyAskedSteps`); categories (`TreeHolds`); collaboration (`ViewIsTrue`,
`SignalsEnd`, `LoneClaimStays`). Out of the prover's reach: liveness
(`EveryEventProcessed`), and what the folds and recursive functions of
`BusinessTime`, `TicketCategories` and `Customers` compute, which would need
induction over data.

## Plan

Next, in this order:

1. Proofs: the signals and claims of the collaboration, participants, the
   trees of categories.
2. Abstract specifications: `SeatLedger` (a workspace hands out seats, bounded)
   implemented by `WorkspaceMembership`; `WebhookInbox` (received, processed
   once or more, never lost) implemented by `BillingWebhooks`; the step
   simulations of both, and of `TicketClock`, as theorems.
3. `Collaboration` over Redis and two nodes; the action guard; workspace rooms.
4. Signup with e-mail verification, and the first workspace of a new user.

## Not modelled

Validation of input, wording, e-mail, storage back ends, the API documents,
reports and other reads: they change no state, or state of one document by one
write. So are organizations, tags, business hours, the management of widgets,
users and the catalog of plans. Changes of daylight saving, several nodes, and
the Redis store of the collaboration are left out of the parts that are
modelled. The `components` list of `PROJECT.json` names each part with the
reason.
