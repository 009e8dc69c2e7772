------------------------------- MODULE MCWidget -------------------------------
(***************************************************************************)
(* A run over the widget.  part says what is asked for: visits, the moving *)
(* of tickets and of the widget to another mailbox between them, the       *)
(* recovery of a conversation that is there, the verification that makes   *)
(* more recoveries of it, or sockets while sessions end.                   *)
(***************************************************************************)
EXTENDS WidgetSessions

CONSTANTS e1, e2, m1, m2

VARIABLE part

(* The visits have the constants of this module.                           *)
Moves == INSTANCE WidgetSessions WITH
    Ops <- {"initialize", "message", "status", "mailbox"}, Emails <- {e1}, Mailboxes <- {m1, m2},
    Statuses <- {"open", "closed"},
    MaxSessions <- 2, MaxTickets <- 2, MaxContacts <- 2, MaxRecoveries <- 0,
    MaxRequests <- 3, MaxFaults <- 0
Recovering == INSTANCE WidgetSessions WITH
    Ops <- {"message", "continue", "start_new", "status"},
    Emails <- {e1, e2}, Mailboxes <- {m1}, Statuses <- {"old"},
    MaxSessions <- 5, MaxTickets <- 2, MaxContacts <- 2, MaxRecoveries <- 1,
    MaxRequests <- 3, MaxFaults <- 0
Verifications == INSTANCE WidgetSessions WITH
    Ops <- {"verify", "continue", "start_new"},
    Emails <- {e1, e2}, Mailboxes <- {m1}, Statuses <- {"old"},
    MaxSessions <- 5, MaxTickets <- 2, MaxContacts <- 2, MaxRecoveries <- 2,
    MaxRequests <- 3, MaxFaults <- 0
Sockets == INSTANCE WidgetSessions WITH
    Ops <- {"continue", "subscribe", "publish", "deactivate", "activate", "expire"},
    Emails <- {e1, e2}, Mailboxes <- {m1}, Statuses <- {"old"},
    MaxSessions <- 4, MaxTickets <- 2, MaxContacts <- 2, MaxRecoveries <- 1,
    MaxRequests <- 3, MaxFaults <- 1

(* What the visits of two visitors have left: each has opened a ticket,    *)
(* with an address of its own, and somebody has verified the first.        *)
Opened ==
    /\ widget = [active |-> TRUE, mailbox |-> m1]
    /\ session = [s \in 1 .. 2 |-> [live |-> TRUE, ticket |-> s, contact |-> s, proof |-> 0]]
    /\ contact = <<e1, e2>>
    /\ identity = [e \in {e1, e2} |-> IF e = e1 THEN 1 ELSE 2]
    /\ ticket = [t \in 1 .. 2 |-> [session |-> t, contact |-> t, status |-> "open",
                                   mailbox |-> m1]]
    /\ recovery = <<[email |-> e1, contact |-> 1, session |-> 1, ticket |-> 1,
                     consumed |-> FALSE, expired |-> FALSE]>>
    /\ touched = <<1, 2>> /\ recent = <<1, 2>>
    /\ borne = {<<1, e1>>, <<2, e2>>}
    /\ answered = [s \in 1 .. 5 |-> IF s <= 2 THEN s ELSE 0]

Quiet == /\ req = [h \in Handlers |-> Idle]
         /\ socket = {1} /\ begun = 0 /\ faults = 0 /\ crossed = {} /\ raced = FALSE
         /\ contested = {} /\ late = {}

WidgetInit ==
    \/ part \in {"visits", "moves"} /\ Init /\ widget.mailbox = m1
    \/ part \in {"recoveries", "verifications", "sockets"} /\ Opened /\ Quiet

WidgetNext ==
    /\ UNCHANGED part
    /\ \/ part = "visits" /\ Next
       \/ part = "moves" /\ Moves!Next
       \/ part = "recoveries" /\ Recovering!Next
       \/ part = "verifications" /\ Verifications!Next
       \/ part = "sockets" /\ Sockets!Next

WidgetSpec == WidgetInit /\ [][WidgetNext]_<<part, vars>>

==============================================================================
