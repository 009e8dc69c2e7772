-------------------------- MODULE TicketLifecycle --------------------------
(***************************************************************************)
(* One ticket with its conversation and messages: messages, assignment,    *)
(* status, priority and mailbox changes by concurrent requests.            *)
(*                                                                         *)
(* Sources: src/src/modules/tickets/services/tickets.service.js,           *)
(* ticket-messages.service.js and models/ticket.model.js.                  *)
(*                                                                         *)
(* Every handler loads the documents, changes them in memory and saves     *)
(* them in later awaits; save() writes the changed paths only.             *)
(***************************************************************************)
EXTENDS Naturals, FiniteSets, MongooseDocument, TicketSla

CONSTANTS
    Handlers,     \* requests in flight at once
    Agents,       \* users a ticket can be assigned to
    Managers,     \* those of them that are owners or admins
    Mailboxes,    \* mailboxes of the workspace
    FirstMailbox, \* the mailbox the ticket is created in
    SlaOffered,   \* whether a snapshot may find a resolution target
    MaxMessages,  \* bound on the messages of the ticket, stored and counted
    Operations,   \* the operations this instance explores
    Failures,     \* what may go wrong: "read", "save", "delete", "undo" (that step
                  \* fails), "stop" (of the process), "late" (a write lands after
                  \* its handler has gone on)
    Nobody        \* no assignee

MessageType == {"customer_message", "public_reply", "internal_note"}

ASSUME TicketAssumption ==
    /\ Managers \subseteq Agents
    /\ Nobody \notin Agents
    /\ FirstMailbox \in Mailboxes
    /\ SlaOffered \subseteq BOOLEAN
    /\ MaxMessages \in Nat
    /\ IsFiniteSet(Handlers)
    /\ Failures \subseteq {"read", "save", "delete", "undo", "stop", "late"}

VARIABLES
    ticket,   \* the ticket document
    conv,     \* the conversation document
    stored,   \* how many messages of each type the collection holds
    req,      \* the requests in flight
    amiss     \* history: what has happened after which less is promised

vars == <<ticket, conv, stored, req, amiss>>

(* Requests overlapped; a save failed; the message of a failed request was *)
(* deleted while one of its saves was still under way; a message that was  *)
(* stored was left half counted or half undone, because the process        *)
(* stopped, or the message could not be deleted, or a document not be      *)
(* restored; the clock was begun anew in the middle of the life of the     *)
(* ticket; or a mailbox change ended with the conversation moved only.     *)
Trouble == {"overlap", "failed", "late", "torn", "rebuilt", "apart"}

(* closed is closedAt; msgs, pubs and notes are the three message counters.*)
TicketDocOf(Date) ==
    [status : TicketStatus, closed : Date, assignee : Agents \cup {Nobody},
     mailbox : Mailboxes, msgs : Nat, pubs : Nat, notes : Nat, sla : SlaOf(Date)]
TicketDoc == TicketDocOf(Stamp)
ConvDoc == [mailbox : Mailboxes, msgs : Nat, pubs : Nat, notes : Nat]

Ops == {"message", "assign", "self_assign", "unassign", "status", "close",
        "reopen", "priority", "mailbox"}

(* The writes a request has under way; the undo writes are the rollback of *)
(* a message.                                                              *)
Write == {"ticket", "conv", "undo_ticket", "undo_conv"}

(* A request: what was asked for, the documents it has loaded (doc, chat), *)
(* and which of its parallel writes are still to be made.                  *)
Request == [pc : {"idle", "load", "chat", "create", "sync", "save", "unsync",
                  "delete", "rollback"},
            op : Ops \cup {"none"}, actor : Agents \cup {Nobody},
            type : MessageType, status : TicketStatus,
            assignee : Agents \cup {Nobody}, mailbox : Mailboxes,
            fresh : BOOLEAN, doc : TicketDoc, chat : ConvDoc,
            writes : SUBSET Write]

NewTicket(assignee, hasResolution) ==
    [status |-> IF assignee = Nobody THEN "new" ELSE "open", closed |-> "unset",
     assignee |-> assignee, mailbox |-> FirstMailbox,
     msgs |-> 0, pubs |-> 0, notes |-> 0, sla |-> SlaSnapshot(hasResolution)]
NewConv == [mailbox |-> FirstMailbox, msgs |-> 0, pubs |-> 0, notes |-> 0]

Idle == [pc |-> "idle", op |-> "none", actor |-> Nobody,
         type |-> "internal_note", status |-> "open", assignee |-> Nobody,
         mailbox |-> FirstMailbox, fresh |-> FALSE,
         doc |-> NewTicket(Nobody, FALSE), chat |-> NewConv, writes |-> {}]

----------------------------------------------------------------------------
At(h, pc) == req[h].pc = pc
Respond(h) == req' = [req EXCEPT ![h] = Idle]
Goto(h, r) == req' = [req EXCEPT ![h] = r]

Total == stored["customer_message"] + stored["public_reply"] + stored["internal_note"]
Unstored == {h \in Handlers : req[h].op = "message" /\ req[h].pc \in {"load", "chat", "create"}}

(* save() of the ticket: the changed paths, or all of sla when a handler   *)
(* has replaced the subdocument.                                           *)
SavedSla(now, loaded, changed) ==
    [hasResolution |-> SavedPath(now.hasResolution, loaded.hasResolution, changed.hasResolution),
     paused    |-> SavedPath(now.paused, loaded.paused, changed.paused),
     running   |-> Stored(SavedPath(now.running, loaded.running, changed.running)),
     resolved  |-> Stored(SavedPath(now.resolved, loaded.resolved, changed.resolved)),
     responded |-> Stored(SavedPath(now.responded, loaded.responded, changed.responded))]

SavedTicket(now, loaded, changed, newSla) ==
    [status   |-> SavedPath(now.status, loaded.status, changed.status),
     closed   |-> Stored(SavedPath(now.closed, loaded.closed, changed.closed)),
     assignee |-> SavedPath(now.assignee, loaded.assignee, changed.assignee),
     mailbox  |-> SavedPath(now.mailbox, loaded.mailbox, changed.mailbox),
     msgs     |-> SavedPath(now.msgs, loaded.msgs, changed.msgs),
     pubs     |-> SavedPath(now.pubs, loaded.pubs, changed.pubs),
     notes    |-> SavedPath(now.notes, loaded.notes, changed.notes),
     sla      |-> IF newSla THEN changed.sla ELSE SavedSla(now.sla, loaded.sla, changed.sla)]

(* A new status, with the clock's transition and, from the schema's        *)
(* pre-validate hook, the closing date.                                    *)
WithStatus(doc, next) ==
    [doc EXCEPT !.status = next,
                !.sla = StatusTransitionSla(doc.sla, doc.status, next),
                !.closed = IF next = doc.status THEN @ ELSE "unset"]

(* closeTicket leaves the clock alone.                                     *)
Closed(doc) == [doc EXCEPT !.status = "closed", !.closed = "now"]

(* Mutant: whatever is not the customer's counts as a note.                *)
Counted_ReplyIsNote(doc, type) ==
    [doc EXCEPT !.msgs = @ + 1,
                !.pubs = IF type = "public_reply" THEN @ + 1 ELSE @,
                !.notes = IF type # "customer_message" THEN @ + 1 ELSE @]

(* applyMessageSummarySideEffects on the ticket and on the conversation.   *)
Counted(doc, type) ==
    [doc EXCEPT !.msgs = @ + 1,
                !.pubs = IF type = "public_reply" THEN @ + 1 ELSE @,
                !.notes = IF type = "internal_note" THEN @ + 1 ELSE @]

WithMessage(doc, type) ==
    LET counted == Counted(doc, type)
    IN  CASE type = "internal_note" -> counted
          [] type = "customer_message" -> WithStatus(counted, "open")
          [] type = "public_reply" ->
                WithStatus([counted EXCEPT !.sla = FirstResponseSla(@)], "waiting_on_customer")

(* Mutant: the status stays.                                               *)
WithAssignee_StaysNew(doc, assignee) == [doc EXCEPT !.assignee = assignee]

(* assignTicket and selfAssignTicket: maybeMoveAssignedNewTicketToOpen     *)
(* changes the status without touching the clock.                          *)
WithAssignee(doc, assignee) ==
    [doc EXCEPT !.assignee = assignee,
                !.status = IF @ = "new" THEN "open" ELSE @,
                !.closed = IF doc.status = "new" THEN "unset" ELSE @]

(* The ticket as a request has it in memory when it saves it.              *)
Changed(r) ==
    CASE r.op = "message"  -> WithMessage(r.doc, r.type)
      [] r.op \in {"assign", "self_assign"} -> WithAssignee(r.doc, r.assignee)
      [] r.op = "unassign" -> [r.doc EXCEPT !.assignee = Nobody]
      [] r.op = "status"   -> WithStatus(r.doc, r.status)
      [] r.op = "close"    -> Closed(r.doc)
      [] r.op = "reopen"   -> WithStatus(r.doc, "open")
      [] r.op = "priority" -> [r.doc EXCEPT !.sla = SlaSnapshot(r.fresh)]
      [] OTHER -> [r.doc EXCEPT !.mailbox = r.mailbox, !.sla = SlaSnapshot(r.fresh)]

(* EXPLICIT_STATUS_TRANSITIONS; the same status is accepted and is no      *)
(* change.                                                                 *)
ExplicitNext(status) ==
    CASE status = "new"     -> {"open", "pending", "waiting_on_customer", "solved"}
      [] status = "open"    -> {"pending", "waiting_on_customer", "solved"}
      [] status = "pending" -> {"open", "waiting_on_customer", "solved"}
      [] status = "waiting_on_customer" -> {"open", "pending", "solved"}
      [] status = "solved"  -> {"open"}
      [] OTHER -> {}

(* What the handler checks on the ticket it has loaded, and whether the    *)
(* request changes anything.                                               *)
Accepted(r, doc) ==
    CASE r.op = "assign"      -> /\ \/ r.actor \in Managers
                                    \/ /\ r.assignee = r.actor
                                       /\ doc.assignee \in {Nobody, r.actor}
                                 /\ doc.assignee # r.assignee \/ doc.status = "new"
      [] r.op = "self_assign" -> /\ doc.assignee \in {Nobody, r.actor}
                                 /\ doc.assignee = Nobody \/ doc.status = "new"
      [] r.op = "unassign"    -> /\ doc.assignee # Nobody
                                 /\ r.actor \in Managers \/ doc.assignee = r.actor
      [] r.op = "status"      -> r.status \in ExplicitNext(doc.status)
      [] r.op = "close"       -> doc.status = "solved"
      [] r.op = "reopen"      -> doc.status \in ResolvedStatus
      [] r.op = "mailbox"     -> doc.mailbox # r.mailbox /\ doc.msgs = 0
      [] OTHER -> TRUE

----------------------------------------------------------------------------
Init ==
    /\ \E a \in Agents \cup {Nobody}, s \in SlaOffered : ticket = NewTicket(a, s)
    /\ conv = NewConv
    /\ stored = [t \in MessageType |-> 0]
    /\ req = [h \in Handlers |-> Idle]
    /\ amiss \in {{}, {"overlap"}}

(* A request arrives.  Who asks matters to the assignments only.           *)
Begin(h) ==
    /\ At(h, "idle")
    /\ \E op \in Operations : \E r \in {[Idle EXCEPT !.pc = "load", !.op = op]} :
         \/ /\ op = "message" /\ Total + Cardinality(Unstored) < MaxMessages
            /\ ticket.msgs < MaxMessages /\ conv.msgs < MaxMessages
            /\ \E t \in MessageType : Goto(h, [r EXCEPT !.type = t])
         \/ /\ op = "assign"
            /\ \E a, u \in Agents : Goto(h, [r EXCEPT !.actor = a, !.assignee = u])
         \/ /\ op = "self_assign"
            /\ \E a \in Agents : Goto(h, [r EXCEPT !.actor = a, !.assignee = a])
         \/ /\ op = "unassign"
            /\ \E a \in Agents : Goto(h, [r EXCEPT !.actor = a])
         \/ /\ op \in {"close", "reopen"}
            /\ Goto(h, r)
         \/ /\ op = "status"
            /\ \E s \in TicketStatus \ {"closed"} : Goto(h, [r EXCEPT !.status = s])
         \/ /\ op = "priority"
            /\ \E f \in SlaOffered : Goto(h, [r EXCEPT !.fresh = f])
         \/ /\ op = "mailbox"
            /\ \E m \in Mailboxes, f \in SlaOffered :
                 Goto(h, [r EXCEPT !.mailbox = m, !.fresh = f])
    /\ UNCHANGED <<ticket, conv, stored>>

(* The ticket is loaded and, for all but a message, checked.               *)
LoadTicket(h) ==
    LET r == [req[h] EXCEPT !.doc = ticket]
    IN  /\ At(h, "load")
        /\ CASE r.op = "message" -> Goto(h, [r EXCEPT !.pc = "chat"])
             [] r.op # "message" /\ ~Accepted(r, ticket) -> Respond(h)
             [] r.op = "mailbox" /\ Accepted(r, ticket) -> Goto(h, [r EXCEPT !.pc = "sync"])
             [] OTHER -> Goto(h, [r EXCEPT !.pc = "save", !.writes = {"ticket"}])
        /\ UNCHANGED <<ticket, conv, stored>>

(* createTicketMessage loads the conversation, and then refuses all but    *)
(* internal notes on a ticket it has loaded as closed.                     *)
LoadConversation(h) ==
    /\ At(h, "chat")
    /\ IF req[h].doc.status = "closed" /\ req[h].type # "internal_note"
       THEN Respond(h)
       ELSE Goto(h, [req[h] EXCEPT !.pc = "create", !.chat = conv])
    /\ UNCHANGED <<ticket, conv, stored>>

(* Message.create, with the links of its attachments.                      *)
CreateMessage(h) ==
    /\ At(h, "create")
    /\ stored' = [stored EXCEPT ![req[h].type] = @ + 1]
    /\ Goto(h, [req[h] EXCEPT !.pc = "save", !.writes = {"ticket", "conv"}])
    /\ UNCHANGED <<ticket, conv>>

(* One write of the request is done; the last one ends it, unless its      *)
(* catch block still has to delete the message.                            *)
Done(h, w) ==
    IF req[h].writes = {w} /\ ~At(h, "delete") THEN Respond(h)
    ELSE Goto(h, [req[h] EXCEPT !.writes = @ \ {w}])

(* ticket.save(); a message's conversation.save() runs in parallel, and    *)
(* each may still land when the other has failed.                          *)
SaveTicket(h) ==
    LET r == req[h]
    IN  /\ "ticket" \in r.writes
        /\ ticket' = SavedTicket(ticket, r.doc, Changed(r), r.op \in {"priority", "mailbox"})
        /\ Done(h, "ticket")
        /\ UNCHANGED <<conv, stored>>

SaveConversation(h) ==
    LET r == req[h]
        changed == Counted(r.chat, r.type)
    IN  /\ "conv" \in r.writes
        /\ conv' = [conv EXCEPT !.msgs = changed.msgs,
                                !.pubs = SavedPath(@, r.chat.pubs, changed.pubs),
                                !.notes = SavedPath(@, r.chat.notes, changed.notes)]
        /\ Done(h, "conv")
        /\ UNCHANGED <<ticket, stored>>

(* A save fails.  The catch block of a message starts while the other save *)
(* may still be under way; a failed mailbox change restores the            *)
(* conversation; the other handlers just answer with the error.            *)
SaveFails(h, w) ==
    LET r == req[h]
    IN  /\ "save" \in Failures /\ w \in r.writes \cap {"ticket", "conv"}
        /\ \/ /\ At(h, "save") /\ r.op = "message"
              /\ Goto(h, [r EXCEPT !.pc = "delete", !.writes = @ \ {w}])
           \/ /\ At(h, "save") /\ r.op = "mailbox"
              /\ Goto(h, [r EXCEPT !.pc = "unsync", !.writes = {}])
           \/ /\ ~At(h, "save") \/ r.op \notin {"message", "mailbox"}
              /\ Done(h, w)
        /\ UNCHANGED <<ticket, conv, stored>>

(* The catch block deletes the message, and when that has worked writes    *)
(* the snapshots of both documents back, over whatever they hold by then.  *)
(* Nothing waits for a save that is still under way.                       *)
DeleteMessage(h) ==
    LET r == req[h]
    IN  /\ At(h, "delete")
        /\ r.writes = {} \/ "late" \in Failures
        /\ stored' = [stored EXCEPT ![r.type] = @ - 1]
        /\ Goto(h, [r EXCEPT !.pc = "rollback",
                             !.writes = @ \cup {"undo_ticket", "undo_conv"}])
        /\ UNCHANGED <<ticket, conv>>

DeleteFails(h) ==
    /\ At(h, "delete") /\ "delete" \in Failures
    /\ IF req[h].writes = {} THEN Respond(h) ELSE Goto(h, [req[h] EXCEPT !.pc = "rollback"])
    /\ UNCHANGED <<ticket, conv, stored>>

(* Mutants: the rollback leaves the counters, or writes no closing date.   *)
RollbackTicket_KeepsCounts(h) ==
    /\ "undo_ticket" \in req[h].writes
    /\ ticket' = [ticket EXCEPT !.status = req[h].doc.status, !.sla = req[h].doc.sla]
    /\ Done(h, "undo_ticket")
    /\ UNCHANGED <<conv, stored>>
RollbackTicket_NoDate(h) ==
    /\ "undo_ticket" \in req[h].writes
    /\ ticket' = [req[h].doc EXCEPT !.assignee = ticket.assignee,
                                    !.mailbox = ticket.mailbox, !.closed = "unset"]
    /\ Done(h, "undo_ticket")
    /\ UNCHANGED <<conv, stored>>

RollbackTicket(h) ==
    /\ "undo_ticket" \in req[h].writes
    /\ ticket' = [req[h].doc EXCEPT !.assignee = ticket.assignee,
                                    !.mailbox = ticket.mailbox]
    /\ Done(h, "undo_ticket")
    /\ UNCHANGED <<conv, stored>>

RollbackConversation(h) ==
    /\ "undo_conv" \in req[h].writes
    /\ conv' = [req[h].chat EXCEPT !.mailbox = conv.mailbox]
    /\ Done(h, "undo_conv")
    /\ UNCHANGED <<ticket, stored>>

(* updateTicket moves the conversation to the new mailbox before the       *)
(* ticket, and back when the ticket's save fails.                          *)
SyncConversationMailbox(h) ==
    /\ At(h, "sync")
    /\ conv' = [conv EXCEPT !.mailbox = req[h].mailbox]
    /\ Goto(h, [req[h] EXCEPT !.pc = "save", !.writes = {"ticket"}])
    /\ UNCHANGED <<ticket, stored>>

(* A read fails before the first write, and the request just ends.  Only   *)
(* a mailbox change has moved the conversation by then: the reads that     *)
(* rebuild its clock lie outside the try block that would move it back.    *)
ReadFails(h) ==
    /\ "read" \in Failures
    /\ \/ req[h].pc \in {"load", "chat", "create", "sync"}
       \/ At(h, "save") /\ req[h].op \in {"priority", "mailbox"}
    /\ Respond(h)
    /\ UNCHANGED <<ticket, conv, stored>>

(* Mutant: the conversation is not moved back.                             *)
UnsyncConversationMailbox_Never(h) ==
    /\ At(h, "unsync")
    /\ Respond(h)
    /\ UNCHANGED <<ticket, conv, stored>>

UnsyncConversationMailbox(h) ==
    /\ At(h, "unsync")
    /\ conv' = [conv EXCEPT !.mailbox = req[h].doc.mailbox]
    /\ Respond(h)
    /\ UNCHANGED <<ticket, stored>>

(* What restores a document fails, and Promise.allSettled swallows that.   *)
UndoFails(h) ==
    /\ "undo" \in Failures
    /\ \/ \E w \in req[h].writes \cap {"undo_ticket", "undo_conv"} : Done(h, w)
       \/ At(h, "unsync") /\ Respond(h)
    /\ UNCHANGED <<ticket, conv, stored>>

(* The process stops, and the request goes no further.                     *)
Stop(h) ==
    /\ "stop" \in Failures /\ ~At(h, "idle")
    /\ Respond(h)
    /\ UNCHANGED <<ticket, conv, stored>>

Handle(h) ==
    \/ Begin(h) \/ LoadTicket(h)
    \/ LoadConversation(h) \/ CreateMessage(h)
    \/ SaveTicket(h) \/ SaveConversation(h)
    \/ \E w \in {"ticket", "conv"} : SaveFails(h, w)
    \/ DeleteMessage(h) \/ DeleteFails(h) \/ RollbackTicket(h) \/ RollbackConversation(h)
    \/ SyncConversationMailbox(h) \/ ReadFails(h) \/ UnsyncConversationMailbox(h)
    \/ UndoFails(h) \/ Stop(h)

(* A document is restored, if only because it never changed.               *)
Restores(h) == RollbackTicket(h) \/ RollbackConversation(h) \/ UnsyncConversationMailbox(h)

(* The history is read by properties only.                                 *)
Happens(h, w) ==
    \/ w = "overlap" /\ \E g \in Handlers \ {h} : ~At(g, "idle")
    \/ w = "failed"  /\ \E x \in {"ticket", "conv"} : SaveFails(h, x)
    \/ w = "late"    /\ DeleteMessage(h) /\ req[h].writes # {}
    \/ w = "torn"    /\ \/ DeleteFails(h)
                        \/ /\ UndoFails(h) \/ (Stop(h) /\ req[h].pc \in {"save", "delete", "rollback"})
                           /\ req[h].op = "message" /\ ~Restores(h)
    \/ w = "rebuilt" /\ req[h].op \in {"priority", "mailbox"} /\ ticket'.sla # ticket.sla
    \/ w = "apart"   /\ \/ ReadFails(h) /\ At(h, "save")
                        \/ UndoFails(h) \/ (Stop(h) /\ req[h].pc \in {"save", "unsync"})
                     /\ req[h].op = "mailbox" /\ ~Restores(h)
Records(h) == amiss' = amiss \cup {w \in Trouble : Happens(h, w)}

(* None of this has happened.                                              *)
Spared(what) == amiss \cap what = {}

Next == \E h \in Handlers : Handle(h) /\ Records(h)

Spec == Init /\ [][Next]_vars

----------------------------------------------------------------------------
(* Properties *)

(* Every variable has its type.                                            *)
TypeOK ==
    /\ ticket \in TicketDoc
    /\ conv \in ConvDoc
    /\ stored \in [MessageType -> Nat]
    /\ req \in [Handlers -> Request]
    /\ amiss \subseteq Trouble

Quiet == \A h \in Handlers : At(h, "idle")

(* When nothing is in flight, the counters of the ticket and of the        *)
(* conversation agree with the messages that are stored, also after a      *)
(* message whose saves failed has been rolled back.                        *)
CountersMatchMessages ==
    Quiet => \A d \in {ticket, conv} :
        d.msgs = Total /\ d.pubs = stored["public_reply"] /\ d.notes = stored["internal_note"]

(* Requests that overlap may lose counts, but never count a message that   *)
(* is not stored, as long as no save fails.                                *)
CountersNeverExceed ==
    Spared({"failed"}) => \A d \in {ticket, conv} :
        d.msgs =< Total /\ d.pubs =< stored["public_reply"] /\ d.notes =< stored["internal_note"]

(* The resolution clock runs on new, open and pending tickets, is paused   *)
(* while the ticket waits for the customer, and is met exactly when the    *)
(* ticket is solved or closed.                                             *)
SlaFollowsStatus ==
    Quiet =>
        /\ ticket.sla.resolved = "set" <=> ticket.status \in ResolvedStatus
        /\ ticket.sla.hasResolution =>
              /\ ticket.sla.running = "set" <=> ticket.status \in ActiveStatus
              /\ ticket.sla.paused <=> ticket.status = "waiting_on_customer"

(* A closed ticket has its closing date, whatever overlaps or fails.       *)
ClosedHasDate == ticket.status = "closed" => ticket.closed = "set"

(* An assigned ticket has left "new" (maybeMoveAssignedNewTicketToOpen),   *)
(* unless a failed message has brought it back.                            *)
AssignedNotNew == Spared({"failed"}) /\ ticket.assignee # Nobody => ticket.status # "new"

(* The ticket and its conversation are in the same mailbox when nothing is *)
(* in flight and requests did not overlap, unless, once the conversation   *)
(* was moved, the process stopped or the clock could not be rebuilt, or    *)
(* the ticket could not be saved and then the conversation not moved back. *)
MailboxAligned == Quiet /\ Spared({"overlap", "apart"}) => ticket.mailbox = conv.mailbox

(* The ticket step of request h.                                           *)
Saves(h) == "ticket" \in req[h].writes /\ "ticket" \notin req'[h].writes

(* Only a reopen takes a ticket out of "closed".                           *)
LeavesClosedReopened ==
    ticket.status = "closed" /\ ticket'.status # "closed"
    => \E h \in Handlers : req[h].op = "reopen" /\ Saves(h)
ClosedOnlyReopened == [][LeavesClosedReopened]_vars

(* Only an owner or an admin takes a ticket from another assignee, and     *)
(* none does so by a self-assignment.                                      *)
TakesUnassigned ==
    \A h \in Handlers :
        /\ \/ req[h].op = "self_assign"
           \/ req[h].op \in {"assign", "unassign"} /\ req[h].actor \notin Managers
        /\ Saves(h) /\ ticket'.assignee # ticket.assignee
        => ticket.assignee \in {Nobody, req[h].actor}
NeverStolen == [][TakesUnassigned]_vars

(* Requests that come one at a time keep the counts in step with the       *)
(* messages and the clock with the status, whatever save fails; they       *)
(* reopen a closed ticket by a reopening only, and take no ticket from its *)
(* assignee.  The counts are spoiled by a message that was deleted under   *)
(* its own save, or that a stop of the process, a failed deletion or a     *)
(* failed restoring has left half counted or half undone; the clock by a   *)
(* change of priority or mailbox.                                          *)
LoneRequestsObey ==
    /\ [](/\ TypeOK
          /\ Spared({"overlap", "late", "torn"}) => CountersMatchMessages
          /\ Spared({"overlap", "rebuilt"}) => SlaFollowsStatus)
    /\ [][ "overlap" \notin amiss' => LeavesClosedReopened /\ TakesUnassigned]_vars

(* The first response is given once: no later request forgets it, unless   *)
(* the clock is begun anew or a failed message is taken back.              *)
FirstResponseOnce ==
    [][Spared({"failed", "rebuilt"})' /\ ticket.sla.responded = "set" => ticket'.sla.responded = "set"]_vars
============================================================================
