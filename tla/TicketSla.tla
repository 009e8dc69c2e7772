----------------------------- MODULE TicketSla -----------------------------
(***************************************************************************)
(* The service-level clock of a ticket: the fields of ticket.sla that say  *)
(* whether the resolution time runs, is paused or has been met, and        *)
(* whether the first response has been given.  Pure operators, translated  *)
(* from src/src/modules/sla/services/sla-ticket-runtime.service.js; the    *)
(* business minutes themselves are left out.                               *)
(*                                                                         *)
(* A date is "unset", "set", or "now" while a handler holds a date it has  *)
(* just made: a new Date always differs from the one that was loaded, so   *)
(* save() writes it.                                                       *)
(***************************************************************************)
Stamp == {"unset", "set"}
FreshStamp == Stamp \cup {"now"}
Stored(date) == IF date = "now" THEN "set" ELSE date

ActiveStatus == {"new", "open", "pending"}
ResolvedStatus == {"solved", "closed"}
TicketStatus == ActiveStatus \cup {"waiting_on_customer"} \cup ResolvedStatus

(* hasResolution: the policy has a resolution target; running, resolved    *)
(* and responded are resolutionRunningSince, resolvedAt, firstResponseAt.  *)
SlaOf(Date) == [hasResolution : BOOLEAN, paused : BOOLEAN,
                running : Date, resolved : Date, responded : Date]

(* resolveTicketSlaSnapshot: the snapshot of a new ticket, which a change  *)
(* of priority or mailbox makes again.                                     *)
SlaSnapshot(hasResolution) ==
    [hasResolution |-> hasResolution, paused |-> FALSE,
     running |-> IF hasResolution THEN "set" ELSE "unset",
     resolved |-> "unset", responded |-> "unset"]

PauseResolution(sla) ==
    IF sla.paused THEN sla
    ELSE [sla EXCEPT !.paused = TRUE, !.running = "unset"]

ResumeResolution(sla) == [sla EXCEPT !.paused = FALSE, !.running = "now"]

ResolveResolution(sla) ==
    [sla EXCEPT !.paused = FALSE, !.running = "unset", !.resolved = "now"]

(* Mutant: a reopen forgets the first response as well.                    *)
ClearResolvedForReopen_Responded(sla, next) ==
    [sla EXCEPT !.resolved = "unset", !.responded = "unset",
                !.running = IF sla.hasResolution THEN "now" ELSE @]

ClearResolvedForReopen(sla, next) ==
    LET cleared == [sla EXCEPT !.resolved = "unset"]
    IN  IF ~sla.hasResolution THEN cleared
        ELSE IF next \in ActiveStatus THEN ResumeResolution(cleared)
        ELSE IF next = "waiting_on_customer"
             THEN [cleared EXCEPT !.paused = TRUE, !.running = "unset"]
             ELSE cleared

(* applyTicketStatusTransitionSla.                                         *)
StatusTransitionSla(sla, current, next) ==
    LET reopened == current \in ResolvedStatus /\ next # "closed"
        s == IF reopened THEN ClearResolvedForReopen(sla, next) ELSE sla
    IN  CASE ~s.hasResolution /\ next = "solved" -> [s EXCEPT !.resolved = "now"]
          [] ~s.hasResolution /\ next # "solved" -> s
          [] s.hasResolution /\ next = "waiting_on_customer" -> PauseResolution(s)
          [] s.hasResolution /\ next \in ActiveStatus ->
                IF s.paused THEN ResumeResolution(s) ELSE s
          [] s.hasResolution /\ next = "solved" -> ResolveResolution(s)
          [] OTHER -> s

(* applyFirstResponseSlaOnPublicReply: only the first reply counts.        *)
FirstResponseSla(sla) ==
    IF sla.responded = "unset" THEN [sla EXCEPT !.responded = "now"] ELSE sla
============================================================================
