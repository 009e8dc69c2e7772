----------------------------- MODULE TicketClock -----------------------------
(***************************************************************************)
(* The SLA fields of a ticket in time.  No process counts minutes: what    *)
(* was consumed is computed from dates when the status changes, and a      *)
(* breach when somebody looks.  The module implements SlaStopwatch, and    *)
(* its steps agree with the flags of TicketSla, on which the life of a     *)
(* ticket is modelled.                                                     *)
(*                                                                         *)
(* Source: src/src/modules/sla/services/sla-ticket-runtime.service.js.     *)
(***************************************************************************)
EXTENDS BusinessTime

CONSTANTS
    Schedules, \* the weekly schedules of the business hours
    Targets,   \* targets of a policy, in business minutes
    MaxTime    \* bound on the time

ClockAssumption == /\ Targets \subseteq Nat /\ MaxTime \in Nat
                   /\ \A s \in Schedules : ValidSchedule(s)

VARIABLES
    now,
    status,
    week,  \* businessHoursWeeklySchedule, as of the creation of the ticket
    sla    \* the other fields of ticket.sla

vars == <<now, status, week, sla>>

Flags == INSTANCE TicketSla

Time == {Never} \cup Nat
Sla == [target : Targets, due : Time, running : Time, paused : BOOLEAN,
        consumed : Nat, remaining : Nat, breached : BOOLEAN, resolved : Time,
        firstTarget : Targets, firstDue : Time, firstAt : Time, firstBreached : BOOLEAN]

(* resolveTicketSlaSnapshot for a ticket that is created now.              *)
Snapshot(target, firstTarget) ==
    [target |-> target, due |-> AddBusinessMinutes(week, now, target), running |-> now,
     paused |-> FALSE, consumed |-> 0, remaining |-> target, breached |-> FALSE,
     resolved |-> Never, firstTarget |-> firstTarget,
     firstDue |-> AddBusinessMinutes(week, now, firstTarget), firstAt |-> Never,
     firstBreached |-> FALSE]

Late(due) == due # Never /\ now > due

(* consumeResolutionBusinessMinutes, which also stops the clock.           *)
Consume(s) ==
    LET total == s.consumed + BusinessMinutesBetween(week, s.running, now)
    IN  IF s.running = Never THEN s
        ELSE [s EXCEPT !.consumed = total, !.remaining = Max({0, s.target - total}),
                       !.breached = @ \/ Late(s.due), !.running = Never]

Pause(s) == IF s.paused THEN s
            ELSE [Consume(s) EXCEPT !.paused = TRUE, !.due = Never]

(* Mutant: the whole target is available again.                            *)
Resume_Anew(s) ==
    [s EXCEPT !.paused = FALSE, !.running = now, !.due = AddBusinessMinutes(week, now, s.target)]

Resume(s) ==
    [s EXCEPT !.paused = FALSE, !.running = now,
              !.due = IF s.remaining = 0 THEN now
                      ELSE AddBusinessMinutes(week, now, s.remaining)]

(* clearResolvedStateForReopen.                                            *)
Reopen(s, next) ==
    LET cleared == [s EXCEPT !.resolved = Never]
    IN  IF next = "waiting_on_customer"
        THEN [cleared EXCEPT !.paused = TRUE, !.running = Never, !.due = Never]
        ELSE Resume(cleared)

Resolve(s) ==
    LET c == IF s.paused THEN s ELSE Consume(s)
    IN  [c EXCEPT !.paused = FALSE, !.running = Never, !.resolved = now,
                  !.breached = @ \/ c.remaining = 0 \/ Late(c.due)]

(* applyTicketStatusTransitionSla.                                         *)
Transition(s, current, next) ==
    LET r == IF current \in Flags!ResolvedStatus /\ next # "closed"
             THEN Reopen(s, next) ELSE s
    IN  CASE next = "waiting_on_customer" -> Pause(r)
          [] next \in Flags!ActiveStatus -> IF r.paused THEN Resume(r) ELSE r
          [] next = "solved" -> Resolve(r)
          [] OTHER -> r

(* The statuses a handler or a message changes a status to.                *)
Follows(s) ==
    CASE s = "new" -> {"open", "pending", "waiting_on_customer", "solved"}
      [] s = "open" -> {"pending", "waiting_on_customer", "solved"}
      [] s = "pending" -> {"open", "waiting_on_customer", "solved"}
      [] s = "waiting_on_customer" -> {"open", "pending", "solved"}
      [] s = "solved" -> {"open", "waiting_on_customer", "closed"}
      [] OTHER -> {"open"}

----------------------------------------------------------------------------
Init == /\ now = 0 /\ status = "new"
        /\ week \in {Week(s) : s \in Schedules}
        /\ \E t, f \in Targets : sla = Snapshot(t, f)

Tick == now < MaxTime /\ now' = now + 1 /\ UNCHANGED <<status, week, sla>>

ChangeStatus ==
    /\ status' \in Follows(status)
    /\ sla' = Transition(sla, status, status')
    /\ UNCHANGED <<now, week>>

(* applyFirstResponseSlaOnPublicReply.                                     *)
FirstReply(s) ==
    IF s.firstAt # Never THEN s
    ELSE [s EXCEPT !.firstAt = now, !.firstBreached = @ \/ Late(s.firstDue)]

(* A public reply, which leaves the ticket waiting for the customer.       *)
Reply ==
    /\ status # "closed"
    /\ status' = "waiting_on_customer"
    /\ sla' = Transition(FirstReply(sla), status, status')
    /\ UNCHANGED <<now, week>>

Next == Tick \/ ChangeStatus \/ Reply

Spec == Init /\ [][Next]_vars

(* deriveTicketSlaState: what is shown of a ticket.                        *)
IsBreached(s) ==
    \/ s.breached
    \/ s.resolved # Never /\ s.due # Never /\ s.resolved > s.due
    \/ s.resolved = Never /\ (Late(s.due) \/ s.remaining = 0)

IsFirstBreached(s) ==
    \/ s.firstBreached
    \/ s.firstAt # Never /\ s.firstDue # Never /\ s.firstAt > s.firstDue
    \/ s.firstAt = Never /\ Late(s.firstDue)

----------------------------------------------------------------------------
(* Properties *)

TypeOK == now \in 0 .. MaxTime /\ status \in Flags!TicketStatus /\ sla \in Sla

Elapsed == sla.consumed + (IF sla.running = Never THEN 0
                           ELSE BusinessMinutesBetween(week, sla.running, now))

(* The dates implement the stopwatch: whatever the history of statuses,    *)
(* what was consumed and what the running clock adds are the open minutes  *)
(* of the time that counts.                                                *)
Stopwatch == INSTANCE SlaStopwatch WITH elapsed <- Elapsed
CountsAsStopwatch == Stopwatch!Spec

(* The due date of a running clock is when the target will be used up: the *)
(* first moment, if some of it is left.                                    *)
DueWhenUsedUp ==
    LET left == sla.target - Elapsed
    IN  sla.running # Never /\ sla.due # Never =>
          /\ left >= 0 /\ now =< sla.due => OpenMinutes(week, now, sla.due) = left
          /\ left > 0 => now < sla.due /\ IsOpen(week, sla.due - 1)
          /\ left < 0 => now >= sla.due

(* The next business minute is the first open one, from now on, also of    *)
(* the windows that have begun and of those of the next week.              *)
NextStartIsOpen ==
    LET next == NextBusinessStart(week, now)
    IN  /\ IsWithinBusinessWindow(week, now) <=> IsOpen(week, now)
        /\ next = Never <=> \A d \in Weekday : week[d] = <<>>
        /\ next # Never => /\ next >= now /\ IsOpen(week, next)
                           /\ OpenMinutes(week, now, next) = 0

(* A ticket is shown as breached when more than the target has been used,  *)
(* and only when it has been used up.                                      *)
BreachedWhenOver == /\ Elapsed > sla.target => IsBreached(sla)
                    /\ IsBreached(sla) => Elapsed >= sla.target

(* A breach that has been shown does not go away, whatever happens to the  *)
(* ticket; nor does the first response, or the date of it.                 *)
BreachStays ==
    [][/\ IsBreached(sla) => IsBreached(sla)'
       /\ IsFirstBreached(sla) => IsFirstBreached(sla)'
       /\ sla.firstAt # Never => sla'.firstAt = sla.firstAt]_vars

(* The flags of TicketSla: what is running, paused, resolved, answered.    *)
Stamp(date) == IF date = Never THEN "unset" ELSE "set"
FlagsOf(s) == [hasResolution |-> TRUE, paused |-> s.paused, running |-> Stamp(s.running),
               resolved |-> Stamp(s.resolved), responded |-> Stamp(s.firstAt)]

(* Every change of status does to the dates what TicketSla says it does to *)
(* the flags.                                                              *)
AgreesWithFlags ==
    [][status' # status =>
        LET f == Flags!StatusTransitionSla(FlagsOf(sla), status, status')
        IN  /\ FlagsOf(sla').paused = f.paused
            /\ FlagsOf(sla').running = Flags!Stored(f.running)
            /\ FlagsOf(sla').resolved = Flags!Stored(f.resolved)]_vars
============================================================================
