---------------------------- MODULE SlaStopwatch ----------------------------
(***************************************************************************)
(* What the resolution clock of a ticket promises: a stopwatch that counts *)
(* the open minutes while the ticket is new, open or pending, stops while  *)
(* it waits for the customer or is solved, and goes on when it is          *)
(* reopened.                                                               *)
(***************************************************************************)
EXTENDS BusinessTime

CONSTANT MaxTime \* bound on the time

VARIABLES week, now, status, elapsed

Counted == {"new", "open", "pending"}
Uncounted == {"waiting_on_customer", "solved", "closed"}

Init == now = 0 /\ status = "new" /\ elapsed = 0

Tick == /\ now < MaxTime /\ now' = now + 1
        /\ elapsed' = IF status \in Counted /\ IsOpen(week, now) THEN elapsed + 1 ELSE elapsed
        /\ UNCHANGED <<week, status>>

Change == /\ status' \in Counted \cup Uncounted
          /\ UNCHANGED <<week, now, elapsed>>

Spec == Init /\ [][Tick \/ Change]_<<week, now, status, elapsed>>
============================================================================
