---------------------------- MODULE MCWorkspace ----------------------------
(***************************************************************************)
(* A run over what a workspace has, each for itself; part says which:      *)
(* files, or the subscription, with the days of its trial, with its        *)
(* payments, and with its payments when the requests come one by one.      *)
(* They are those of TicketsAndFiles and WorkspaceBilling, so that what    *)
(* there are theorems about is checked as it is; the ticket is at rest.    *)
(***************************************************************************)
EXTENDS TicketsAndFiles, WorkspaceBilling

CONSTANTS h1, box1

VARIABLES part

workspaceVars == <<part, vars, files, billing>>

Billed == {"trial", "payment", "lone_payment"}

WorkspaceInit ==
    /\ part \in {"files"} \cup Billed
    /\ Init /\ amiss = {}
    /\ Disk!Init
    /\ Plan!Init

(* The bounds of the parts about the subscription: what is asked for, for  *)
(* how many days, and how often; and the sessions and plans of a trial.    *)
AskedFor(ops) == \A h \in BillingHandlers : asked'[h] # Plan!Idle => asked'[h].op \in ops
PaymentOps == {"checkout", "change", "sync"}

WithinBounds ==
    \/ /\ part = "trial" /\ AskedFor(BillingOps \ {"change"}) /\ begun' <= 4
       /\ atStripe'[2] = Plan!NoRemote /\ atStripe'[1].items = FirstItems
    \/ part = "payment" /\ AskedFor(PaymentOps) /\ today' <= 2 /\ begun' <= 3
    \/ part = "lone_payment" /\ AskedFor(PaymentOps) /\ today' <= 2 /\ asked'[2] = Plan!Idle

WorkspaceNext ==
    /\ UNCHANGED <<part, vars>>
    /\ \/ /\ part = "files" /\ Disk!Next
          /\ UNCHANGED billing
       \/ /\ part \in Billed /\ Plan!Next /\ WithinBounds
          /\ UNCHANGED files

WorkspaceSpec == WorkspaceInit /\ [][WorkspaceNext]_workspaceVars
============================================================================
