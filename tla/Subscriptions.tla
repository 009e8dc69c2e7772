---------------------------- MODULE Subscriptions ----------------------------
(***************************************************************************)
(* The subscription of a workspace through its trial, the days of grace,   *)
(* the block and its life at Stripe, and what the platform's admins do to  *)
(* the trial and to the workspace.                                         *)
(*                                                                         *)
(* Times are days.  graceEndsAt stands for the four fields of the window   *)
(* that are set and cleared together, save partialBlockStartsAt.  The plan *)
(* and the add-ons of a subscription are one value, its items.  How events *)
(* reach the server, late, twice or out of order, is in BillingWebhooks,   *)
(* with the entitlement; here an event has the subscription as it was when *)
(* the processing began.                                                   *)
(*                                                                         *)
(* Sources: billing-lifecycle.js, billing-foundation.service.js and        *)
(* billing-sync.service.js of src/src/modules/billing, and                 *)
(* src/src/modules/admin/services/admin-workspaces.service.js.  Stripe is  *)
(* modelled from how they use it.                                          *)
(***************************************************************************)
EXTENDS Naturals, FiniteSets, MongooseDocument

CONSTANTS
    Ops,         \* what is asked for, a subset of AllOps
    Handlers,    \* requests in flight at once, 1 .. n: the first free one is next
    TrialDays, GraceDays, \* of the configuration
    ExtendDays,  \* what an admin adds to a trial
    Items,       \* plans with their add-ons
    FirstItems,  \* the default plan
    MaxDay, MaxSessions, MaxRequests \* bounds

Never == 0
AllOps == {"use", "extend", "suspend", "reactivate", "checkout", "change", "sync"}
Sessions == 1 .. MaxSessions

SubscriptionsAssumption ==
    /\ Ops \subseteq AllOps /\ Handlers \subseteq Nat \ {0} /\ FirstItems \in Items
    /\ {TrialDays, GraceDays, ExtendDays, MaxDay, MaxSessions, MaxRequests} \subseteq Nat
    /\ MaxDay > 0

VARIABLES
    now,      \* today
    sub,      \* the Subscription of the workspace
    status,   \* the status of the Workspace
    remote,   \* the checkout sessions, and the subscriptions at Stripe they became
    req, begun, \* requests in flight, and how many began
    granted,  \* history: the end of the trial the workspace was given
    mixed,    \* history: a document that had changed meanwhile was saved
    crossed,  \* history: the same, and no subscription of Stripe's has been saved since
    followed, \* history: the subscription whose state at Stripe was saved last; 0 when it
              \* has changed since, or a document that had changed meanwhile was saved
    doubled   \* history: a session was opened beside another, or beside a subscription
              \* the workspace had not been told of

history == <<granted, mixed, crossed, followed, doubled>>
vars == <<now, sub, status, remote, req, begun, history>>

Gone == {"canceled", "incomplete_expired"}
Live == {"trialing", "active", "past_due", "unpaid"}

(* bound is the subscription at Stripe, 0 for none.                        *)
Subscription == [status : {"trialing", "active", "past_due", "canceled"},
                 bound : {0} \cup Sessions, items : Items, trialEndsAt : Nat,
                 graceEndsAt : Nat, partialBlockStartsAt : Nat]
Remote == [status : {"none", "open", "canceled"} \cup Live, items : Items, trialEndsAt : Nat]

FirstSub == [status |-> "trialing", bound |-> 0, items |-> FirstItems,
             trialEndsAt |-> 1 + TrialDays, graceEndsAt |-> Never, partialBlockStartsAt |-> Never]
NoRemote == [status |-> "none", items |-> FirstItems, trialEndsAt |-> Never]

(* loaded and next are the document as it was loaded, and as it is in      *)
(* memory; seen is the subscription Stripe gave, which is number i.        *)
Idle == [pc |-> "idle", op |-> "use", loaded |-> FirstSub, next |-> FirstSub,
         i |-> 0, seen |-> NoRemote]

At(h, pc) == req[h].pc = pc
Goto(h, pc) == req' = [req EXCEPT ![h].pc = pc]
Done(h) == req' = [req EXCEPT ![h] = Idle]
Free(h) == \A g \in 1 .. h : At(g, "idle") <=> g = h

Begin(h, r) ==
    /\ Free(h) /\ r.op \in Ops /\ begun < MaxRequests
    /\ begun' = begun + 1
    /\ req' = [req EXCEPT ![h] = r]

Init ==
    /\ now = 1 /\ sub = FirstSub /\ status = "trial"
    /\ remote = [i \in Sessions |-> NoRemote]
    /\ req = [h \in Handlers |-> Idle] /\ begun = 0
    /\ granted = FirstSub.trialEndsAt
    /\ mixed = FALSE /\ crossed = FALSE /\ followed = 0 /\ doubled = FALSE

Tick ==
    /\ now < MaxDay /\ now' = now + 1
    /\ UNCHANGED <<sub, status, remote, req, begun, history>>

(* save() of the document of h.                                            *)
Stale(h) == req[h].loaded # sub
Saved(h) ==
    LET r == req[h]
    IN  [k \in DOMAIN sub |-> SavedPath(sub[k], r.loaded[k], r.next[k])]

----------------------------------------------------------------------------
(* billing-lifecycle.js *)

(* buildPastDueWindow: what there is of a window stays.  Mutant: each time *)
(* the days of grace begin again.                                          *)
GraceEnds_Again(s, anchor) == anchor + GraceDays
GraceEnds(s, anchor) == IF s.graceEndsAt # Never THEN s.graceEndsAt ELSE anchor + GraceDays

PastDue(s, anchor) ==
    LET ends == GraceEnds(s, anchor)
        block == IF s.partialBlockStartsAt # Never THEN s.partialBlockStartsAt ELSE ends
    IN  [s EXCEPT !.status = "past_due", !.graceEndsAt = ends,
                  !.partialBlockStartsAt = IF ends < now THEN block ELSE Never]

(* mapStripeStatusToBillingStatus.                                         *)
Local(s) == IF s = "unpaid" THEN "past_due" ELSE s

(* buildStripeLifecyclePatch.                                              *)
FromStripe(s, r, i) ==
    LET base == [s EXCEPT !.status = Local(r.status), !.bound = i, !.items = r.items,
                          !.trialEndsAt = IF r.trialEndsAt # Never THEN r.trialEndsAt ELSE @]
    IN  IF base.status = "past_due" THEN PastDue(base, now)
        ELSE [base EXCEPT !.graceEndsAt = Never, !.partialBlockStartsAt = Never]

(* buildLocalLifecyclePatch.  Mutant: also for subscriptions of Stripe's.  *)
TrialIsOver_Everywhere(s) ==
    s.status = "past_due" \/ (s.status = "trialing" /\ s.trialEndsAt <= now)
TrialIsOver(s) ==
    /\ s.bound = 0
    /\ \/ s.status = "past_due"
       \/ s.status = "trialing" /\ s.trialEndsAt <= now

----------------------------------------------------------------------------
(* ensureWorkspaceSubscriptionFoundation, with which every request about   *)
(* the billing begins, and every one that the plan may refuse.             *)

Then(op) == CASE op = "use" -> "idle" [] op = "checkout" -> "open"
              [] op = "change" -> "ask" [] op = "sync" -> "sync_load"
GoOn(h, r) == req' = [req EXCEPT ![h] = IF Then(r.op) = "idle" THEN Idle
                                        ELSE [r EXCEPT !.pc = Then(r.op)]]

BeginUse(h, op) ==
    /\ op \in {"use", "checkout", "change"}
    /\ Begin(h, [Idle EXCEPT !.op = op, !.pc = "load"])
    /\ UNCHANGED <<now, sub, status, remote, history>>

Load(h) ==
    LET r == [req[h] EXCEPT !.loaded = sub, !.next = sub]
    IN  /\ At(h, "load")
        /\ IF TrialIsOver(sub) /\ PastDue(sub, sub.trialEndsAt) # sub
           THEN req' = [req EXCEPT ![h] = [r EXCEPT !.next = PastDue(sub, sub.trialEndsAt),
                                                    !.pc = "save"]]
           ELSE GoOn(h, r)
        /\ UNCHANGED <<now, sub, status, remote, begun, history>>

SaveLocal(h) ==
    /\ At(h, "save")
    /\ sub' = Saved(h)
    /\ GoOn(h, req[h])
    /\ mixed' = (mixed \/ Stale(h)) /\ crossed' = (crossed \/ Stale(h))
    /\ followed' = IF Stale(h) THEN 0 ELSE followed
    /\ UNCHANGED <<now, status, remote, begun, granted, doubled>>

----------------------------------------------------------------------------
(* createWorkspaceCheckoutSession: refused to a subscription that Stripe   *)
(* manages.  What is left of the trial goes with the session.              *)
Managed(s) == s.bound # 0 /\ s.status \notin Gone

TrialLeft(s) == IF s.trialEndsAt > now THEN s.trialEndsAt ELSE Never

OpenSession(h) ==
    LET s == req[h].next
    IN  /\ At(h, "open")
        /\ Done(h)
        /\ \/ Managed(s) /\ UNCHANGED <<remote, doubled>>
           \/ /\ ~Managed(s)
              /\ \E i \in Sessions, items \in Items :
                   /\ remote[i].status = "none" /\ \A j \in 1 .. i - 1 : remote[j].status # "none"
                   /\ remote' = [remote EXCEPT ![i] = [status |-> "open", items |-> items,
                                                       trialEndsAt |-> TrialLeft(s)]]
              /\ doubled' = (doubled \/ \E j \in Sessions :
                                            \/ remote[j].status = "open"
                                            \/ remote[j].status \in Live /\ s.bound # j)
        /\ UNCHANGED <<now, sub, status, begun, granted, mixed, crossed, followed>>

(* The customer pays, at any time.                                         *)
Complete(i) ==
    /\ remote[i].status = "open"
    /\ remote' = [remote EXCEPT ![i].status = IF remote[i].trialEndsAt > now THEN "trialing"
                                              ELSE "active"]
    /\ UNCHANGED <<now, sub, status, req, begun, history>>

Changed(i) == followed' = IF followed = i THEN 0 ELSE followed

RemoteChanges(i) ==
    /\ \E s \in Live \cup {"canceled"} :
         /\ \/ <<remote[i].status, s>> \in
              {<<"trialing", "canceled">>, <<"active", "past_due">>, <<"active", "canceled">>,
               <<"past_due", "active">>, <<"past_due", "unpaid">>, <<"past_due", "canceled">>,
               <<"unpaid", "active">>, <<"unpaid", "canceled">>}
            \/ /\ remote[i].status = "trialing" /\ remote[i].trialEndsAt <= now
               /\ s \in {"active", "past_due"}
         /\ remote' = [remote EXCEPT ![i].status = s]
    /\ Changed(i)
    /\ UNCHANGED <<now, sub, status, req, begun, granted, mixed, crossed, doubled>>

----------------------------------------------------------------------------
(* syncWorkspaceSubscriptionFromStripe, for an event about a subscription  *)
BeginSync(h, i) ==
    /\ remote[i].status \in Live \cup {"canceled"}
    /\ Begin(h, [Idle EXCEPT !.op = "sync", !.pc = "load", !.i = i, !.seen = remote[i]])
    /\ UNCHANGED <<now, sub, status, remote, history>>

SyncLoad(h) ==
    LET r == req[h]
    IN  /\ At(h, "sync_load")
        /\ req' = [req EXCEPT ![h] = [r EXCEPT !.loaded = sub, !.pc = "sync_save",
                                               !.next = FromStripe(sub, r.seen, r.i)]]
        /\ UNCHANGED <<now, sub, status, remote, begun, history>>

SyncSave(h) ==
    LET r == req[h]
    IN  /\ At(h, "sync_save")
        /\ sub' = Saved(h)
        /\ Done(h)
        /\ mixed' = (mixed \/ Stale(h)) /\ crossed' = Stale(h)
        /\ followed' = IF ~Stale(h) /\ r.seen = remote[r.i] THEN r.i ELSE 0
        /\ UNCHANGED <<now, status, remote, begun, granted, doubled>>

(* changeWorkspaceBillingPlan and updateWorkspaceBillingAddons: Stripe is  *)
(* asked, then told, and what it answers is saved.                         *)
AskStripe(h) ==
    LET i == req[h].next.bound
    IN  /\ At(h, "ask")
        /\ IF i = 0 THEN Done(h)
           ELSE req' = [req EXCEPT ![h].i = i, ![h].seen = remote[i], ![h].pc = "update"]
        /\ UNCHANGED <<now, sub, status, remote, begun, history>>

UpdateRemote(h) ==
    LET i == req[h].i
    IN  /\ At(h, "update")
        /\ \/ Goto(h, "sync_load") /\ UNCHANGED <<remote, followed>>
           \/ remote[i].status = "canceled" /\ Done(h) /\ UNCHANGED <<remote, followed>>
           \/ \E items \in Items \ {req[h].seen.items} :
                /\ remote[i].status # "canceled"
                /\ remote' = [remote EXCEPT ![i].items = items]
                /\ req' = [req EXCEPT ![h].seen = remote'[i], ![h].pc = "sync_load"]
                /\ Changed(i)
        /\ UNCHANGED <<now, sub, status, begun, granted, mixed, crossed, doubled>>

----------------------------------------------------------------------------
(* extendAdminWorkspaceTrial *)
BeginExtend(h) ==
    /\ sub.status = "trialing" /\ sub.bound = 0
    /\ Begin(h, [Idle EXCEPT
           !.op = "extend", !.pc = "extend", !.loaded = sub,
           !.next = [sub EXCEPT !.trialEndsAt = @ + ExtendDays, !.graceEndsAt = Never,
                                !.partialBlockStartsAt = Never]])
    /\ UNCHANGED <<now, sub, status, remote, history>>

SaveExtended(h) ==
    /\ At(h, "extend")
    /\ sub' = Saved(h)
    /\ Goto(h, "mark")
    /\ granted' = granted + ExtendDays
    /\ mixed' = (mixed \/ Stale(h)) /\ crossed' = (crossed \/ Stale(h))
    /\ UNCHANGED <<now, status, remote, begun, followed, doubled>>

Marked(s) == IF s = "suspended" THEN s ELSE "trial"

MarkWorkspace(h) ==
    /\ At(h, "mark")
    /\ status' = Marked(status)
    /\ Done(h)
    /\ UNCHANGED <<now, sub, remote, begun, history>>

(* suspendAdminWorkspace and reactivateAdminWorkspace: a status is read,   *)
(* and the other is written.                                               *)
BeginSuspend(h) ==
    /\ status # "suspended"
    /\ Begin(h, [Idle EXCEPT !.op = "suspend", !.pc = "suspend"])
    /\ UNCHANGED <<now, sub, status, remote, history>>
Suspend(h) ==
    /\ At(h, "suspend")
    /\ status' = "suspended" /\ Done(h)
    /\ UNCHANGED <<now, sub, remote, begun, history>>

BeginReactivate(h) ==
    /\ status = "suspended"
    /\ Begin(h, [Idle EXCEPT !.op = "reactivate", !.pc = "resolve"])
    /\ UNCHANGED <<now, sub, status, remote, history>>
ResolveActiveStatus(h) ==
    /\ At(h, "resolve")
    /\ Goto(h, IF sub.status = "trialing" THEN "trial" ELSE "active")
    /\ UNCHANGED <<now, sub, status, remote, begun, history>>
Reactivate(h) ==
    /\ req[h].pc \in {"trial", "active"}
    /\ status' = req[h].pc /\ Done(h)
    /\ UNCHANGED <<now, sub, remote, begun, history>>

----------------------------------------------------------------------------
Step(h) ==
    \/ \E op \in Ops : BeginUse(h, op)
    \/ Load(h) \/ SaveLocal(h) \/ OpenSession(h)
    \/ \E i \in Sessions : BeginSync(h, i)
    \/ SyncLoad(h) \/ SyncSave(h) \/ AskStripe(h) \/ UpdateRemote(h)
    \/ BeginExtend(h) \/ SaveExtended(h) \/ MarkWorkspace(h)
    \/ BeginSuspend(h) \/ Suspend(h)
    \/ BeginReactivate(h) \/ ResolveActiveStatus(h) \/ Reactivate(h)

Next ==
    \/ Tick
    \/ \E i \in Sessions : Complete(i) \/ RemoteChanges(i)
    \/ \E h \in Handlers : Step(h)

Spec == Init /\ [][Next]_vars

----------------------------------------------------------------------------
TypeOK ==
    /\ now \in 1 .. MaxDay
    /\ sub \in Subscription /\ remote \in [Sessions -> Remote]
    /\ status \in {"trial", "active", "suspended"}

(* A workspace is blocked only while its payment is due and its days of    *)
(* grace are over, and one that has paid is not: unless a document was     *)
(* saved that had changed meanwhile, until Stripe's subscription is saved  *)
(* the next time.  The date of the block is the end of the grace, unless   *)
(* such a document was ever saved: a date that was left behind is taken    *)
(* for that of the next block.                                             *)
BlockIsDue ==
    sub.partialBlockStartsAt # Never =>
        /\ ~crossed => sub.status = "past_due" /\ sub.graceEndsAt < now
        /\ ~mixed => sub.partialBlockStartsAt = sub.graceEndsAt

(* The trial of a workspace that has no subscription at Stripe lasts until *)
(* its end, the days an admin added included.                              *)
TrialIsHonoured ==
    ~crossed /\ sub.bound = 0 /\ sub.status # "trialing" => sub.trialEndsAt <= now

(* The days of grace do not begin again while the payment stays due, from  *)
(* one subscription or invoice event to the next, unless one of the two    *)
(* was saved over a document that had changed meanwhile.                   *)
GraceStays ==
    ~crossed /\ ~crossed' /\ sub.status = "past_due" /\ sub'.status = "past_due"
    => sub'.graceEndsAt = sub.graceEndsAt
GraceIsFixed == [][GraceStays]_vars

(* What was saved of Stripe's subscription stays until that changes:       *)
(* neither the end of the trial nor an admin's extension overwrites it.    *)
StatusFollows ==
    followed # 0 => /\ sub.bound = followed
                    /\ sub.status = Local(remote[followed].status)
                    /\ sub.items = remote[followed].items

(* A workspace pays for one subscription only, unless a session was opened *)
(* beside another, or before Stripe's events had arrived, or a document    *)
(* that had changed meanwhile was saved: that can leave the subscription   *)
(* bound to one at Stripe with the status of another.                      *)
PaysOnce ==
    ~doubled /\ ~mixed => Cardinality({i \in Sessions : remote[i].status \in Live}) <= 1

(* No trial, here or at Stripe, outlasts the one that was given: a         *)
(* checkout, or a subscription after a canceled one, starts none.          *)
TrialNeverGrows ==
    sub.trialEndsAt <= granted /\ \A i \in Sessions : remote[i].trialEndsAt <= granted

(* A suspended workspace stays suspended until it is reactivated, though   *)
(* its trial is extended at the same time.                                 *)
LiftedByAdmin ==
    status = "suspended" /\ status' # status
    => \E h \in Handlers : req[h].op = "reactivate" /\ req'[h] = Idle
SuspensionHolds == [][LiftedByAdmin]_vars
----------------------------------------------------------------------------
(* The inductive invariant behind them *)

Steps == {"load", "save", "open", "ask", "update", "sync_load", "sync_save", "extend", "mark",
          "suspend", "resolve", "trial", "active"}
Request == [pc : {"idle"} \cup Steps, op : AllOps, loaded : Subscription, next : Subscription,
            i : {0} \cup Sessions, seen : Remote]

TypeInv ==
    /\ TypeOK
    /\ req \in [Handlers -> Request] /\ begun \in Nat /\ granted \in Nat
    /\ mixed \in BOOLEAN /\ crossed \in BOOLEAN /\ doubled \in BOOLEAN
    /\ followed \in {0} \cup Sessions

(* A number of a subscription at Stripe is of one that is, or was, there;  *)
(* and what Stripe told a request may have changed since, save that it is  *)
(* canceled.                                                               *)
AtStripe(i) == i # 0 => remote[i].status \in Live \cup {"canceled"}

KnowsStripe(r) ==
    /\ AtStripe(r.loaded.bound) /\ AtStripe(r.next.bound) /\ AtStripe(r.i)
    /\ r.i # 0 => r.seen.status \in Live \cup {"canceled"}
    /\ r.i # 0 /\ r.seen.status = "canceled" => remote[r.i].status = "canceled"
    /\ r.op = "sync" \/ r.pc \in {"update", "sync_load", "sync_save"} => r.i # 0
    /\ r.pc = "sync_save" => /\ r.next.status = Local(r.seen.status)
                             /\ r.next.bound = r.i /\ r.next.items = r.seen.items

(* What is saved of a trial without Stripe is about it only.               *)
AboutTrial(r) ==
    /\ r.pc \in {"load", "save"} => r.op \in {"use", "checkout", "change", "sync"}
    /\ r.pc \in {"resolve", "trial", "active"} => r.op = "reactivate"
    /\ r.pc \in {"save", "extend"} => /\ r.loaded.bound = 0 /\ r.next.bound = 0
                                      /\ r.next.items = r.loaded.items
    /\ r.pc = "save" => /\ r.next.status = "past_due"
                        /\ r.next.trialEndsAt = r.loaded.trialEndsAt
    /\ r.pc = "extend" => r.loaded.status = "trialing" /\ r.next.status = "trialing"

(* The days of a trial are given before they are saved.                    *)
Given(r) ==
    /\ r.loaded.trialEndsAt \in 1 .. granted /\ r.seen.trialEndsAt <= granted
    /\ r.next.trialEndsAt \in 1 .. granted + IF r.pc = "extend" THEN ExtendDays ELSE 0

(* The grace and the block of a document, in the collection and on its way *)
(* there; and the trial, which may have been over when it was loaded.      *)
Due(s) == /\ s.status = "past_due" => s.graceEndsAt # Never
          /\ s.partialBlockStartsAt # Never => s.status = "past_due" /\ s.graceEndsAt < now
Dated(s) == s.partialBlockStartsAt # Never => s.partialBlockStartsAt = s.graceEndsAt
TrialOver(s) == s.bound = 0 /\ s.status # "trialing" => s.trialEndsAt <= now

Windowed(r) ==
    /\ r.pc \in {"save", "sync_save", "extend"} =>
          /\ Due(r.next) /\ (Dated(r.loaded) => Dated(r.next))
          /\ r.loaded.graceEndsAt # Never /\ r.next.status = "past_due" =>
                r.next.graceEndsAt = r.loaded.graceEndsAt
    /\ r.pc = "save" => TrialOver(r.next) \/ r.loaded.status = "past_due"

(* A document that says its subscription is canceled says so truly, until  *)
(* two of them are mixed.                                                  *)
Truthful(s) == s.bound # 0 /\ s.status = "canceled" => remote[s.bound].status = "canceled"

RequestsHold ==
    \A h \in Handlers :
        LET r == req[h]
        IN  /\ KnowsStripe(r) /\ AboutTrial(r) /\ Given(r) /\ Windowed(r)
            /\ ~mixed => Truthful(r.next)

SubHolds ==
    /\ AtStripe(sub.bound) /\ sub.trialEndsAt \in 1 .. granted
    /\ ~crossed => Due(sub) /\ TrialOver(sub)
    /\ ~mixed => Dated(sub) /\ Truthful(sub)

RemoteHolds ==
    /\ FirstSub.trialEndsAt <= granted /\ \A i \in Sessions : remote[i].trialEndsAt <= granted
    /\ ~mixed /\ ~doubled => \A i, j \in Sessions :
          {remote[i].status, remote[j].status} \subseteq Live \cup {"open"} => i = j

IndInv == TypeInv /\ RequestsHold /\ SubHolds /\ RemoteHolds /\ StatusFollows
==============================================================================
