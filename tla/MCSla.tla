-------------------------------- MODULE MCSla --------------------------------
(***************************************************************************)
(* A run over three parts of the SLA module that share nothing: the        *)
(* policies of a workspace, the clock of a ticket, and the check of the    *)
(* windows of one day.  Each behaviour is of one of them.                  *)
(***************************************************************************)
EXTENDS SlaPolicies, TLC, Sequences

CONSTANTS p1, p2, m1, h1, h2, DayLength, WeekDays, Offset, Targets, MaxTime

VARIABLES part, now, status, week, sla, day

clockVars == <<now, status, week, sla>>

Open(d, ws) == [dayOfWeek |-> d, isOpen |-> TRUE, windows |-> ws]
W(s, e) == [start |-> s, end |-> e]

(* Never open; one day of the week, given in the wrong order; every day;   *)
(* and two windows that meet, on a day that is given before another.       *)
Schedules == {<<>>, <<Open(1, <<W(2, 3), W(0, 1)>>)>>,
              <<Open(0, <<W(1, 3)>>), Open(1, <<W(0, 3)>>)>>,
              <<Open(1, <<W(0, 1), W(1, 2)>>), Open(0, <<W(2, 3)>>)>>}

Clock == INSTANCE TicketClock

ASSUME ClockConstants == Clock!TimeAssumption /\ Clock!ClockAssumption

Days == [isOpen : BOOLEAN, windows : UNION {[1 .. n -> Clock!Window] : n \in 0 .. 2}]
NoDay == [isOpen |-> FALSE, windows |-> <<>>]

SlaInit == /\ part \in {"policies", "clock", "day"}
           /\ Init
           /\ Clock!Init /\ (part # "clock" => week = Clock!Week(<<>>) /\ sla.target = 0
                                               /\ sla.firstTarget = 0)
           /\ day = NoDay

SlaNext ==
    \/ part = "policies" /\ Next /\ UNCHANGED <<part, clockVars, day>>
    \/ part = "clock" /\ Clock!Next /\ UNCHANGED <<part, vars, day>>
    \/ part = "day" /\ day = NoDay /\ day' \in Days /\ UNCHANGED <<part, vars, clockVars>>

SlaSpec == SlaInit /\ [][SlaNext]_<<part, vars, clockVars, day>>

Symmetry == Permutations(Policies) \cup Permutations(Handlers)

(* The check of a day accepts what the sums rely on: windows that are not  *)
(* empty and do not overlap, in whatever order they are given.             *)
ValidDayIsDisjoint ==
    LET ws == day.windows
        minutes(i) == ws[i].start .. ws[i].end - 1
    IN  Clock!ValidDay(day) <=>
          /\ day.isOpen <=> DOMAIN ws # {}
          /\ \A i \in DOMAIN ws : minutes(i) # {}
          /\ \A i, j \in DOMAIN ws : i # j => minutes(i) \cap minutes(j) = {}

(* The properties of the parts; each is explained where it is defined.     *)

(* The due date is when the minutes that are left are used up, all of them *)
(* open; a target counts as breached when more than it has gone by, and    *)
(* stays so; and a change of status stops, pauses and resumes the clock as *)
(* TicketSla says.                                                         *)
ClockIsRight == /\ [](Clock!TypeOK /\ Clock!DueWhenUsedUp /\ Clock!NextStartIsOpen
                      /\ Clock!BreachedWhenOver /\ ValidDayIsDisjoint)
                /\ Clock!BreachStays /\ Clock!AgreesWithFlags

(* The clock refines the stopwatch of SlaStopwatch.                        *)
CountsAsStopwatch == Clock!CountsAsStopwatch
==============================================================================
