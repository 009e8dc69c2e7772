-------------------------- MODULE WorkspaceBilling --------------------------
(***************************************************************************)
(* The subscription of Subscriptions, under names of its own, so that it   *)
(* can stand beside the other things a workspace has.                      *)
(***************************************************************************)
CONSTANTS
    BillingOps, BillingHandlers, TrialDays, GraceDays, ExtendDays, Items, FirstItems,
    MaxDay, MaxSessions, MaxBillingRequests

VARIABLES
    today, subscription, standing, atStripe, asked, begun,
    granted, mixed, outdated, followed, doubled

billing == <<today, subscription, standing, atStripe, asked, begun, granted, mixed, outdated,
             followed, doubled>>

Plan == INSTANCE Subscriptions WITH
    Ops <- BillingOps, Handlers <- BillingHandlers, MaxRequests <- MaxBillingRequests,
    now <- today, sub <- subscription, status <- standing, remote <- atStripe, req <- asked,
    crossed <- outdated

ASSUME BillingBounds == Plan!SubscriptionsAssumption

(* The subscription is what was paid for and what time has made of it: it  *)
(* follows Stripe, there is one only, a trial lasts as long as was given,  *)
(* and a block comes with the end of the grace; each part is explained in  *)
(* Subscriptions.                                                          *)
SubscriptionHolds ==
    /\ Plan!TypeOK /\ Plan!BlockIsDue /\ Plan!TrialIsHonoured /\ Plan!StatusFollows
    /\ Plan!PaysOnce /\ Plan!TrialNeverGrows

(* The days of grace do not begin again, and a suspension is lifted by an  *)
(* admin only.                                                             *)
OnlyAllowedSteps == [][Plan!GraceStays /\ Plan!LiftedByAdmin]_(Plan!vars)
=============================================================================
