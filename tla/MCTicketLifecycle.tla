------------------------ MODULE MCTicketLifecycle ------------------------
(***************************************************************************)
(* A ticket of TicketLifecycle for TLC; part says what is asked for.  Two  *)
(* requests overlap on its status, with one message, or on more messages,  *)
(* where only a close and a reopening change the status.  Or they come one *)
(* at a time: from a manager and an agent, where reads and saves may fail; *)
(* or on a ticket of nobody, where everything may go wrong with the        *)
(* messages, or with one message and the changes of priority and mailbox.  *)
(***************************************************************************)
EXTENDS TicketLifecycle, TLC

CONSTANTS boss, agent, box1, box2, h1, h2

VARIABLE part

lifecycleVars == <<part, vars>>

Status == INSTANCE TicketLifecycle WITH
    Agents <- {agent}, Managers <- {}, Mailboxes <- {box1}, MaxMessages <- 1,
    Operations <- {"message", "assign", "status"}, Failures <- {}
Messages == INSTANCE TicketLifecycle WITH
    Agents <- {agent}, Managers <- {}, Mailboxes <- {box1},
    Operations <- {"message", "assign", "self_assign", "unassign", "close", "reopen"},
    Failures <- {}
Lone == INSTANCE TicketLifecycle WITH
    Mailboxes <- {box1}, Failures <- {"read", "save"},
    Operations <- {"message", "assign", "self_assign", "unassign", "status", "close", "reopen"}
Late == INSTANCE TicketLifecycle WITH
    Agents <- {}, Managers <- {}, Mailboxes <- {box1}, MaxMessages <- 2,
    Operations <- {"message", "status", "close", "reopen"}
Moved == INSTANCE TicketLifecycle WITH
    Agents <- {}, Managers <- {}, MaxMessages <- 1,
    Operations <- {"message", "status", "close", "reopen", "priority", "mailbox"}

LifecycleInit ==
    \/ part \in {"status", "messages"} /\ Status!Init /\ amiss = {"overlap"}
       /\ ticket.sla.hasResolution
    \/ part = "lone" /\ Lone!Init /\ amiss = {}
    \/ part \in {"late", "moved"} /\ Late!Init /\ amiss = {}

OneAtATime(h) == \A g \in Handlers \ {h} : At(g, "idle")

LifecycleNext ==
    /\ UNCHANGED part
    /\ \/ part = "status" /\ Status!Next
       \/ part = "messages" /\ Messages!Next
       \/ \E h \in Handlers :
            /\ OneAtATime(h)
            /\ \/ part = "lone" /\ Lone!Handle(h) /\ Lone!Records(h)
               \/ part = "late" /\ Late!Handle(h) /\ Late!Records(h)
               \/ part = "moved" /\ Moved!Handle(h) /\ Moved!Records(h)

LifecycleSpec == LifecycleInit /\ [][LifecycleNext]_lifecycleVars

HandlerSymmetry == Permutations(Handlers)
============================================================================
