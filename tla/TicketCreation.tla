---------------------------- MODULE TicketCreation ----------------------------
(***************************************************************************)
(* The creation of tickets: what a ticket refers to is looked up by one    *)
(* await after another, a number is allocated, and the ticket, its         *)
(* conversation and its first message are written and, when one of these   *)
(* fails, taken back.  Meanwhile contacts change their organization,       *)
(* categories and tags are switched off and on, and members come and go.   *)
(* The SLA of the new ticket is in TicketSla.                              *)
(*                                                                         *)
(* Sources: src/src/modules/tickets/services/tickets.service.js            *)
(* (createTicket), ticket-reference.service.js, ticket-tags.service.js,    *)
(* ticket-categories.service.js, models/ticket-counter.model.js, and       *)
(* billing/services/billing-foundation.service.js for the usage.           *)
(***************************************************************************)
EXTENDS Naturals, FiniteSets

CONSTANTS
    Reqs,     \* the requests to create a ticket, 1 .. n, in the order they come;
              \* each names its ticket, and asks for at most one label or assignee
    Orgs,     \* the organizations (there is one contact)
    Labels,   \* the categories and tags of the workspace
    Members,  \* the users that can be assigned
    MaxFaults \* bound on the awaits that fail

None == "none"

ASSUME CreationAssumption ==
    /\ IsFiniteSet(Reqs) /\ Reqs = 1 .. Cardinality(Reqs)
    /\ None \notin Orgs \cup Labels \cup Members
    /\ MaxFaults \in Nat

VARIABLES
    ticket, conversation, \* the documents, by ticket
    messages,             \* how many messages the conversation has
    counter,              \* TicketCounter.seq
    usage,                \* ticketsCreated of the workspace
    organization,         \* organizationId of the contact
    usable,               \* the active categories and tags, the assignable members
    req, faults,
    issued,               \* history: the numbers tickets have had, with the ticket
    seen,                 \* history: what has been valid since the request began
    broken,               \* history: the process stopped, or a clean-up failed
    unread                \* history: what a request has written and could not read back,
                          \* "ticket" or "message"

refs == <<organization, usable>>
docs == <<ticket, conversation, messages>>
vars == <<docs, counter, usage, refs, req, faults, issued, seen, broken, unread>>

NoTicket == [exists |-> FALSE, number |-> 0, organization |-> None, ref |-> None,
             status |-> "new", linked |-> FALSE]
Waiting == [pc |-> "waiting", asked |-> None, ref |-> None, message |-> FALSE,
            organization |-> None, number |-> 0]
NothingSeen == [orgs |-> {}, ref |-> FALSE]

Init ==
    /\ ticket = [t \in Reqs |-> NoTicket]
    /\ conversation = [t \in Reqs |-> FALSE]
    /\ messages = [t \in Reqs |-> 0]
    /\ counter = 0 /\ usage = 0 /\ faults = 0
    /\ organization \in Orgs \cup {None}
    /\ usable = Labels \cup Members
    /\ req = [r \in Reqs |-> Waiting]
    /\ issued = {}
    /\ seen = [r \in Reqs |-> NothingSeen]
    /\ broken = FALSE
    /\ unread = [r \in Reqs |-> None]

At(r, pc) == req[r].pc = pc
Ended(r) == req[r].pc \in {"waiting", "created", "refused"}
Resolving == {"contact", "assignee", "labels", "number", "ticket"}
InFlight == {r \in Reqs : ~Ended(r)}

(* What has been valid at some moment of a request that is in flight.      *)
Watch ==
    seen' = [r \in Reqs |->
        IF req'[r].pc \notin Resolving THEN NothingSeen
        ELSE [orgs |-> seen[r].orgs \cup {organization'},
              ref |-> seen[r].ref \/ req'[r].ref \in usable' \cup {None}]]

Goto(r, pc) == req' = [req EXCEPT ![r].pc = pc]
\* (With a ticket the model remembers whether a message was asked for.)
End(r, pc) ==
    req' = [req EXCEPT ![r] = [Waiting EXCEPT !.pc = pc,
                                              !.message = (pc = "created" /\ req[r].message)]]
Refuse(r) == End(r, "refused")

Begin(r) ==
    /\ At(r, "waiting") /\ \A q \in 1 .. r - 1 : ~At(q, "waiting")
    /\ \E asked \in Orgs \cup {None}, ref \in Labels \cup Members \cup {None}, message \in BOOLEAN :
         req' = [req EXCEPT ![r] = [Waiting EXCEPT !.pc = "contact", !.asked = asked,
                                                   !.ref = ref, !.message = message]]
    /\ UNCHANGED <<docs, counter, usage, refs, faults, issued, broken>>

(* resolveTicketContactForWrite, resolveTicketOrganizationForWrite: the    *)
(* organization is the contact's, or the one asked for if it has none.     *)
Resolved(asked) == IF organization # None THEN organization ELSE asked
ResolveOrganization(r) ==
    /\ At(r, "contact")
    /\ IF {req[r].asked, Resolved(req[r].asked)} \ {None, Resolved(req[r].asked)} # {}
       THEN Refuse(r)
       ELSE /\ req' = [req EXCEPT ![r].organization = Resolved(req[r].asked),
                                  ![r].pc = "assignee"]
    /\ UNCHANGED <<docs, counter, usage, refs, faults, issued, broken>>

(* resolveTicketAssigneeForWrite.                                          *)
ResolveAssignee(r) ==
    /\ At(r, "assignee")
    /\ IF req[r].ref \in Members => req[r].ref \in usable THEN Goto(r, "labels") ELSE Refuse(r)
    /\ UNCHANGED <<docs, counter, usage, refs, faults, issued, broken>>

(* resolveActiveTicketCategoryForWrite, resolveActiveTicketTagsForWrite.   *)
ResolveLabels(r) ==
    /\ At(r, "labels")
    /\ IF req[r].ref \in Labels => req[r].ref \in usable THEN Goto(r, "number") ELSE Refuse(r)
    /\ UNCHANGED <<docs, counter, usage, refs, faults, issued, broken>>

(* TicketCounter.allocateNextNumber; a number is not given back.           *)
NextNumber(r) == counter + 1
AllocateNumber(r) ==
    /\ At(r, "number")
    /\ counter' = NextNumber(r)
    /\ req' = [req EXCEPT ![r].number = NextNumber(r), ![r].pc = "ticket"]
    /\ UNCHANGED <<docs, usage, refs, faults, issued, broken>>

(* createTicket: the ticket, its conversation, the link between them, ...  *)
CreateTicket(r) ==
    LET q == req[r]
    IN  /\ At(r, "ticket")
        /\ ticket' = [ticket EXCEPT ![r] =
              [exists |-> TRUE, number |-> q.number, organization |-> q.organization,
               ref |-> q.ref, status |-> IF q.ref \in Members THEN "open" ELSE "new",
               linked |-> FALSE]]
        /\ issued' = issued \cup {<<r, q.number>>}
        /\ req' = [req EXCEPT ![r] = [Waiting EXCEPT !.pc = "conversation",
                                                     !.message = q.message]]
        /\ UNCHANGED <<conversation, messages, counter, usage, refs, faults, broken>>

CreateConversation(r) ==
    /\ At(r, "conversation")
    /\ conversation' = [conversation EXCEPT ![r] = TRUE]
    /\ Goto(r, "link")
    /\ UNCHANGED <<ticket, messages, counter, usage, refs, faults, issued, broken>>

LinkConversation(r) ==
    /\ At(r, "link")
    /\ ticket' = [ticket EXCEPT ![r].linked = TRUE]
    /\ Goto(r, IF req[r].message THEN "message" ELSE "view")
    /\ UNCHANGED <<conversation, messages, counter, usage, refs, faults, issued, broken>>

(* ... and the message (createTicketMessage: TicketLifecycle has the rest  *)
(* of what it writes).                                                     *)
CreateMessage(r) ==
    /\ At(r, "message")
    /\ messages' = [messages EXCEPT ![r] = 1]
    /\ Goto(r, "summaries")
    /\ UNCHANGED <<ticket, conversation, counter, usage, refs, faults, issued, broken>>
Summarise(r) ==
    /\ At(r, "summaries")
    /\ Goto(r, "hydrate")
    /\ UNCHANGED <<docs, counter, usage, refs, faults, issued, broken>>
HydrateMessage(r) ==
    /\ At(r, "hydrate")
    /\ Goto(r, "view")
    /\ UNCHANGED <<docs, counter, usage, refs, faults, issued, broken>>

Tried == {"ticket", "conversation", "link", "message", "summaries", "hydrate"}

(* The catch of createTicketMessage: the message is deleted, and a failure *)
(* of that is passed over.                                                 *)
DeleteMessage(r) ==
    /\ At(r, "delete_message")
    /\ \/ messages' = [messages EXCEPT ![r] = 0] /\ UNCHANGED <<faults, broken>>
       \/ /\ faults < MaxFaults /\ faults' = faults + 1
          /\ broken' = TRUE /\ UNCHANGED messages
    /\ Goto(r, "clean_up")
    /\ UNCHANGED <<ticket, conversation, counter, usage, refs, issued>>

(* The catch of createTicket: the two deletes are sent together, and one   *)
(* that fails is passed over (allSettled).  Mutant: nothing is taken back. *)
CleanUp_Skipped(r) ==
    /\ At(r, "clean_up")
    /\ Refuse(r)
    /\ UNCHANGED <<docs, counter, usage, refs, faults, issued, broken>>
CleanUp(r) ==
    /\ At(r, "clean_up")
    /\ \E done \in SUBSET {"ticket", "conversation"} :
         LET failed == 2 - Cardinality(done)
         IN  /\ faults + failed <= MaxFaults
             /\ faults' = faults + failed
             /\ broken' = (broken \/ failed > 0)
             /\ ticket' = IF "ticket" \in done THEN [ticket EXCEPT ![r] = NoTicket] ELSE ticket
             /\ conversation' = IF "conversation" \in done
                                THEN [conversation EXCEPT ![r] = FALSE] ELSE conversation
    /\ Refuse(r)
    /\ UNCHANGED <<messages, counter, usage, refs, issued>>

(* getTicketById, after what can be taken back.                            *)
View(r) ==
    /\ At(r, "view")
    /\ Goto(r, "usage")
    /\ UNCHANGED <<docs, counter, usage, refs, faults, issued, broken>>

(* incrementWorkspaceTicketsCreated: its failure is passed over.           *)
CountUsage(r) ==
    /\ At(r, "usage")
    /\ usage' = usage + 1
    /\ End(r, "created")
    /\ UNCHANGED <<docs, counter, refs, faults, issued, broken>>

(* An await fails, once there is something to take back.  A message that   *)
(* is written and cannot be read back (hydrateMessages, after the try of   *)
(* createTicketMessage) stays when the ticket is taken back; a ticket that *)
(* cannot be (getTicketById) stays with all it has.                        *)
Fail(r) ==
    /\ req[r].pc \in Tried \cup {"view", "usage"} /\ faults < MaxFaults
    /\ faults' = faults + 1
    /\ End(r, CASE At(r, "usage") -> "created"
                [] At(r, "view") -> "refused"
                [] At(r, "summaries") -> "delete_message"
                [] OTHER -> "clean_up")
    /\ unread' = [unread EXCEPT ![r] = CASE At(r, "view") -> "ticket"
                                         [] At(r, "hydrate") -> "message"
                                         [] OTHER -> None]
    /\ UNCHANGED <<docs, counter, usage, refs, issued, broken>>

(* The process stops, with every request in flight.                        *)
Crash ==
    /\ InFlight # {} /\ faults < MaxFaults /\ faults' = faults + 1
    /\ req' = [r \in Reqs |-> IF Ended(r) THEN req[r] ELSE [Waiting EXCEPT !.pc = "refused"]]
    /\ broken' = TRUE
    /\ UNCHANGED <<docs, counter, usage, refs, issued, unread>>

(* updateContact, and the switches of categories, tags and members, while  *)
(* a request has yet to look at them.                                      *)
ChangeReferences ==
    /\ \E r \in Reqs :
         \/ /\ At(r, "contact")
            /\ organization' \in Orgs \cup {None} /\ UNCHANGED usable
         \/ /\ req[r].pc \in {"contact", "assignee", "labels"} /\ req[r].ref # None
            /\ usable' \in {usable \ {req[r].ref}, usable \cup {req[r].ref}}
            /\ UNCHANGED organization
    /\ UNCHANGED <<docs, counter, usage, req, faults, issued, broken, unread>>

Proceed(r) ==
    \/ Begin(r) \/ ResolveOrganization(r) \/ ResolveAssignee(r) \/ ResolveLabels(r)
    \/ AllocateNumber(r) \/ CreateTicket(r) \/ CreateConversation(r) \/ LinkConversation(r)
    \/ CreateMessage(r) \/ Summarise(r) \/ HydrateMessage(r) \/ DeleteMessage(r)
    \/ CleanUp(r) \/ View(r) \/ CountUsage(r)
Step(r) == (Proceed(r) /\ UNCHANGED unread) \/ Fail(r)

Next == ((\E r \in Reqs : Step(r)) \/ Crash \/ ChangeReferences) /\ Watch
Spec == Init /\ [][Next]_vars

----------------------------------------------------------------------------
(* Properties *)

(* Every variable has its type.                                            *)
TypeOK ==
    /\ \A t \in Reqs :
         /\ ticket[t].exists \/ ticket[t] = NoTicket
         /\ ticket[t].number \in 0 .. Cardinality(Reqs)
         /\ ticket[t].organization \in Orgs \cup {None}
         /\ (ticket[t].status = "open") <=> (ticket[t].ref \in Members)
    /\ conversation \in [Reqs -> BOOLEAN]
    /\ messages \in [Reqs -> 0 .. 1]
    /\ counter \in 0 .. Cardinality(Reqs)
    /\ faults \in 0 .. MaxFaults

(* No two tickets ever have one number, also when one of them was taken    *)
(* back (allocateNextNumber).                                              *)
NumbersNeverReused == \A i, j \in issued : i[2] = j[2] => i = j

(* When no request is in flight, unless the process stopped or a clean-up  *)
(* failed, a request that has created a ticket has left the ticket, linked *)
(* to its conversation, and its message if one was asked for, and one that *)
(* was refused has left neither ticket, conversation nor message.  Except  *)
(* what is written and could not be read back: such a message stays, and   *)
(* such a ticket stays whole.                                              *)
WholeOrNothing ==
    (InFlight = {} /\ ~broken) =>
        \A t \in Reqs :
            /\ ticket[t].exists <=> At(t, "created") \/ unread[t] = "ticket"
            /\ conversation[t] = ticket[t].exists /\ ticket[t].linked = ticket[t].exists
            /\ At(t, "created") => messages[t] = IF req[t].message THEN 1 ELSE 0
            /\ messages[t] = 1 => ticket[t].exists \/ unread[t] = "message"

(* ticketsCreated, which the plan limits, never exceeds the tickets made,  *)
(* and counts all of them when nothing has failed.                         *)
UsageNeverExceeds ==
    LET created == Cardinality({t \in Reqs : At(t, "created")})
    IN  usage <= created /\ (faults = 0 => usage = created)

(* What a new ticket refers to was valid at some moment of its request:    *)
(* its organization was the contact's, or the contact had none; its labels *)
(* were active, its assignee an active member.                             *)
RefersToHeld ==
    \A t \in Reqs : ticket'[t].exists /\ ~ticket[t].exists =>
        /\ \/ ticket'[t].organization \in seen[t].orgs
           \/ None \in seen[t].orgs /\ ticket'[t].organization = req[t].asked
        /\ seen[t].ref
ReferencesHeld == [][RefersToHeld]_vars

(* What the run checks of these: a ticket is created whole or leaves       *)
(* nothing, under a number that no other gets, with references that were   *)
(* valid, and is counted at most once.                                     *)
CreatedWhole == /\ [](TypeOK /\ NumbersNeverReused /\ WholeOrNothing /\ UsageNeverExceeds)
                /\ ReferencesHeld
==============================================================================
