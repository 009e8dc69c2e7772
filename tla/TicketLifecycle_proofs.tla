---------------------- MODULE TicketLifecycle_proofs ----------------------
(***************************************************************************)
(* Theorems about TicketLifecycle, for any number of requests, users and   *)
(* mailboxes.  What a request writes is judged by lemmas about the change  *)
(* it makes in memory, and by lemmas about the save() that merges the      *)
(* change into whatever the ticket holds by then.                          *)
(***************************************************************************)
EXTENDS TicketsAndFiles, FiniteSetTheorems, TLAPS

(* The documents and the requests are well-formed.                         *)
DocsOK == /\ ticket \in TicketDoc
          /\ conv \in ConvDoc
          /\ req \in [Handlers -> Request]

----------------------------------------------------------------------------
(* What the operators return. *)

(* A status transition makes a well-formed clock and keeps the response.   *)
LEMMA StatusTransitionType ==
    ASSUME NEW sla \in SlaOf(FreshStamp), NEW current, NEW next
    PROVE  /\ StatusTransitionSla(sla, current, next) \in SlaOf(FreshStamp)
           /\ StatusTransitionSla(sla, current, next).responded = sla.responded
  <1>. DEFINE Fine(s) == s \in SlaOf(FreshStamp) /\ s.responded = sla.responded
  <1>1. Fine(ClearResolvedForReopen(sla, next))
    BY DEF ClearResolvedForReopen, ResumeResolution, SlaOf, FreshStamp, Stamp
  <1>2. ASSUME NEW s, Fine(s)
        PROVE  /\ Fine([s EXCEPT !.resolved = "now"])
               /\ Fine(PauseResolution(s))
               /\ Fine(ResumeResolution(s))
               /\ Fine(ResolveResolution(s))
               /\ s.hasResolution \in BOOLEAN
    BY <1>2 DEF PauseResolution, ResumeResolution, ResolveResolution, SlaOf, FreshStamp, Stamp
  <1>. DEFINE s == IF current \in ResolvedStatus /\ next # "closed"
                   THEN ClearResolvedForReopen(sla, next) ELSE sla
  <1>3. Fine(s)
    BY <1>1
  <1>4. StatusTransitionSla(sla, current, next)
          \in {s, [s EXCEPT !.resolved = "now"], PauseResolution(s),
               ResumeResolution(s), ResolveResolution(s)}
    BY DEF StatusTransitionSla
  <1>. HIDE DEF s
  <1>5. Fine(StatusTransitionSla(sla, current, next))
    BY <1>2, <1>3, <1>4
  <1>. QED
    BY <1>5

LEMMA SnapshotType ==
    ASSUME NEW hasResolution \in BOOLEAN
    PROVE  SlaSnapshot(hasResolution) \in SlaOf(Stamp)
  BY DEF SlaSnapshot, SlaOf, Stamp

LEMMA WithStatusType ==
    ASSUME NEW doc \in TicketDocOf(FreshStamp), NEW next \in TicketStatus
    PROVE  WithStatus(doc, next) \in TicketDocOf(FreshStamp)
  <1>1. doc.sla \in SlaOf(FreshStamp)
    BY DEF TicketDocOf
  <1>2. StatusTransitionSla(doc.sla, doc.status, next) \in SlaOf(FreshStamp)
    BY <1>1, StatusTransitionType
  <1>3. ASSUME NEW sla \in SlaOf(FreshStamp), NEW closed \in FreshStamp
        PROVE  [doc EXCEPT !.status = next, !.sla = sla, !.closed = closed]
                 \in TicketDocOf(FreshStamp)
    BY DEF TicketDocOf
  <1>. DEFINE closed == IF next = doc.status THEN doc.closed ELSE "unset"
             sla == StatusTransitionSla(doc.sla, doc.status, next)
  <1>4. closed \in FreshStamp
    BY DEF TicketDocOf, FreshStamp, Stamp
  <1>5. WithStatus(doc, next) = [doc EXCEPT !.status = next, !.sla = sla, !.closed = closed]
    BY DEF WithStatus, TicketDocOf
  <1>. HIDE DEF closed, sla
  <1>6. sla \in SlaOf(FreshStamp)
    BY <1>2 DEF sla
  <1>7. [doc EXCEPT !.status = next, !.sla = sla, !.closed = closed] \in TicketDocOf(FreshStamp)
    BY <1>3, <1>4, <1>6
  <1>. QED
    BY <1>5, <1>7, Zenon

LEMMA CountedType ==
    ASSUME NEW doc \in TicketDocOf(FreshStamp), NEW type \in MessageType
    PROVE  Counted(doc, type) \in TicketDocOf(FreshStamp)
  <1>. DEFINE pubs == IF type = "public_reply" THEN doc.pubs + 1 ELSE doc.pubs
             notes == IF type = "internal_note" THEN doc.notes + 1 ELSE doc.notes
  <1>1. doc.msgs + 1 \in Nat /\ pubs \in Nat /\ notes \in Nat
    BY DEF TicketDocOf
  <1>2. ASSUME NEW m \in Nat, NEW p \in Nat, NEW n \in Nat
        PROVE  [doc EXCEPT !.msgs = m, !.pubs = p, !.notes = n] \in TicketDocOf(FreshStamp)
    BY DEF TicketDocOf
  <1>. HIDE DEF pubs, notes
  <1>3. [doc EXCEPT !.msgs = doc.msgs + 1, !.pubs = pubs, !.notes = notes]
          \in TicketDocOf(FreshStamp)
    BY <1>1, <1>2
  <1>. QED
    BY <1>3, Zenon DEF Counted, pubs, notes

LEMMA WithMessageType ==
    ASSUME NEW doc \in TicketDocOf(FreshStamp), NEW type \in MessageType
    PROVE  WithMessage(doc, type) \in TicketDocOf(FreshStamp)
  <1>1. Counted(doc, type) \in TicketDocOf(FreshStamp)
    BY CountedType
  <1>2. Counted(doc, type).sla \in SlaOf(FreshStamp)
    BY <1>1 DEF TicketDocOf
  <1>3. FirstResponseSla(Counted(doc, type).sla) \in SlaOf(FreshStamp)
    BY <1>2 DEF FirstResponseSla, SlaOf, FreshStamp
  <1>4. [Counted(doc, type) EXCEPT !.sla = FirstResponseSla(@)] \in TicketDocOf(FreshStamp)
    BY <1>1, <1>3 DEF TicketDocOf
  <1>5. "open" \in TicketStatus /\ "waiting_on_customer" \in TicketStatus
    BY DEF TicketStatus, ActiveStatus
  <1>6. CASE type = "internal_note"
    BY <1>1, <1>6 DEF WithMessage
  <1>7. CASE type = "customer_message"
    BY <1>1, <1>5, <1>7, WithStatusType DEF WithMessage
  <1>8. CASE type = "public_reply"
    BY <1>4, <1>5, <1>8, WithStatusType DEF WithMessage
  <1>. QED
    BY <1>6, <1>7, <1>8 DEF MessageType

LEMMA StampsAreFresh ==
    TicketDoc \subseteq TicketDocOf(FreshStamp)
  BY DEF TicketDoc, TicketDocOf, SlaOf, FreshStamp

(* The ticket as a request is about to save it; a snapshot is made of      *)
(* stored dates only, so it may replace the subdocument as it is.          *)
LEMMA ChangedType ==
    ASSUME NEW r \in Request
    PROVE  /\ Changed(r) \in TicketDocOf(FreshStamp)
           /\ r.op \in {"priority", "mailbox"} => Changed(r).sla \in SlaOf(Stamp)
  <1>1. /\ r.doc \in TicketDoc /\ r.doc \in TicketDocOf(FreshStamp)
        /\ r.type \in MessageType /\ r.status \in TicketStatus /\ r.fresh \in BOOLEAN
        /\ r.assignee \in Agents \cup {Nobody} /\ r.mailbox \in Mailboxes
    BY StampsAreFresh DEF Request
  <1>2. SlaSnapshot(r.fresh) \in SlaOf(Stamp) /\ SlaSnapshot(r.fresh) \in SlaOf(FreshStamp)
    BY <1>1, SnapshotType DEF SlaOf, FreshStamp
  <1>3. CASE r.op = "message"
    BY <1>1, <1>3, WithMessageType DEF Changed
  <1>4. CASE r.op \in {"assign", "self_assign"}
    <2>1. WithAssignee(r.doc, r.assignee) \in TicketDocOf(FreshStamp)
      BY <1>1 DEF WithAssignee, TicketDocOf, TicketStatus, ActiveStatus, FreshStamp, Stamp
    <2>2. QED
      BY <1>4, <2>1 DEF Changed
  <1>5. CASE r.op = "unassign"
    <2>1. [r.doc EXCEPT !.assignee = Nobody] \in TicketDocOf(FreshStamp)
      BY <1>1 DEF TicketDocOf
    <2>2. QED
      BY <1>5, <2>1 DEF Changed
  <1>6. CASE r.op \in {"status", "reopen"}
    BY <1>1, <1>6, WithStatusType DEF Changed, TicketStatus, ActiveStatus
  <1>7. CASE r.op = "close"
    <2>1. Closed(r.doc) \in TicketDocOf(FreshStamp)
      BY <1>1 DEF Closed, TicketDocOf, TicketStatus, ResolvedStatus, FreshStamp
    <2>2. QED
      BY <1>7, <2>1 DEF Changed
  <1>8. CASE r.op = "priority"
    <2>1. /\ [r.doc EXCEPT !.sla = SlaSnapshot(r.fresh)] \in TicketDocOf(FreshStamp)
          /\ [r.doc EXCEPT !.sla = SlaSnapshot(r.fresh)].sla = SlaSnapshot(r.fresh)
      BY <1>1, <1>2 DEF TicketDocOf
    <2>2. QED
      BY <1>2, <1>8, <2>1 DEF Changed
  <1>9. CASE r.op \in {"mailbox", "none"}
    <2>. DEFINE moved == [r.doc EXCEPT !.mailbox = r.mailbox, !.sla = SlaSnapshot(r.fresh)]
    <2>1. moved \in TicketDocOf(FreshStamp) /\ moved.sla = SlaSnapshot(r.fresh)
      BY <1>1, <1>2 DEF TicketDocOf
    <2>2. QED
      BY <1>2, <1>9, <2>1 DEF Changed
  <1>. QED
    BY <1>3, <1>4, <1>5, <1>6, <1>7, <1>8, <1>9 DEF Request, Ops

LEMMA SavedType ==
    ASSUME NEW now \in TicketDoc, NEW r \in Request
    PROVE  SavedTicket(now, r.doc, Changed(r), r.op \in {"priority", "mailbox"}) \in TicketDoc
  <1>. DEFINE changed == Changed(r)
             newSla == r.op \in {"priority", "mailbox"}
             merged == SavedSla(now.sla, r.doc.sla, changed.sla)
  <1>1. changed \in TicketDocOf(FreshStamp) /\ (newSla => changed.sla \in SlaOf(Stamp))
    BY ChangedType
  <1>. HIDE DEF changed, newSla
  <1>2. ASSUME NEW old \in Stamp, NEW loaded, NEW new \in FreshStamp
        PROVE  Stored(SavedPath(old, loaded, new)) \in Stamp
    BY DEF Stored, SavedPath, Stamp, FreshStamp
  <1>3. merged \in SlaOf(Stamp)
    <2>1. now.sla \in SlaOf(Stamp) /\ changed.sla \in SlaOf(FreshStamp)
      BY <1>1 DEF TicketDoc, TicketDocOf
    <2>. DEFINE running == Stored(SavedPath(now.sla.running, r.doc.sla.running, changed.sla.running))
               resolved == Stored(SavedPath(now.sla.resolved, r.doc.sla.resolved, changed.sla.resolved))
               responded == Stored(SavedPath(now.sla.responded, r.doc.sla.responded, changed.sla.responded))
    <2>2. running \in Stamp /\ resolved \in Stamp /\ responded \in Stamp
      BY <1>2, <2>1 DEF SlaOf
    <2>3. /\ SavedPath(now.sla.hasResolution, r.doc.sla.hasResolution, changed.sla.hasResolution) \in BOOLEAN
          /\ SavedPath(now.sla.paused, r.doc.sla.paused, changed.sla.paused) \in BOOLEAN
      BY <2>1 DEF SlaOf, SavedPath
    <2>. HIDE DEF running, resolved, responded
    <2>4. merged.running = running /\ merged.resolved = resolved /\ merged.responded = responded
      BY DEF SavedSla, running, resolved, responded
    <2>. QED
      BY <2>2, <2>3 DEF SavedSla, SlaOf, running, resolved, responded
  <1>. HIDE DEF merged
  <1>4. Stored(SavedPath(now.closed, r.doc.closed, changed.closed)) \in Stamp
    BY <1>1, <1>2 DEF TicketDoc, TicketDocOf
  <1>5. /\ SavedPath(now.status, r.doc.status, changed.status) \in TicketStatus
        /\ SavedPath(now.assignee, r.doc.assignee, changed.assignee) \in Agents \cup {Nobody}
        /\ SavedPath(now.mailbox, r.doc.mailbox, changed.mailbox) \in Mailboxes
        /\ SavedPath(now.msgs, r.doc.msgs, changed.msgs) \in Nat
        /\ SavedPath(now.pubs, r.doc.pubs, changed.pubs) \in Nat
        /\ SavedPath(now.notes, r.doc.notes, changed.notes) \in Nat
    BY <1>1 DEF TicketDoc, TicketDocOf, SavedPath
  <1>6. (IF newSla THEN changed.sla ELSE merged) \in SlaOf(Stamp)
    BY <1>1, <1>3
  <1>7. SavedTicket(now, r.doc, changed, newSla) \in TicketDoc
    BY <1>4, <1>5, <1>6 DEF SavedTicket, TicketDoc, TicketDocOf, merged
  <1>. QED
    BY <1>7 DEF changed, newSla

LEMMA CountedConversation ==
    ASSUME NEW now \in ConvDoc, NEW chat \in ConvDoc, NEW type \in MessageType
    PROVE  [now EXCEPT !.msgs = Counted(chat, type).msgs,
                       !.pubs = SavedPath(@, chat.pubs, Counted(chat, type).pubs),
                       !.notes = SavedPath(@, chat.notes, Counted(chat, type).notes)] \in ConvDoc
  <1>1. /\ Counted(chat, type).msgs \in Nat
        /\ Counted(chat, type).pubs \in Nat
        /\ Counted(chat, type).notes \in Nat
    BY DEF Counted, ConvDoc
  <1>2. QED
    BY <1>1 DEF SavedPath, ConvDoc
----------------------------------------------------------------------------
(* Requests, and what one step does to the ticket. *)

(* What every request in flight is: one of the operations offered; one     *)
(* that may still save a status asks for one the table allows; and nobody  *)
(* assigns himself to another.                                             *)
RequestOK(r) ==
    /\ r.op \in Operations \cup {"none"}
    /\ r.op = "none" => r.pc = "idle" /\ r.writes = {}
    /\ r.op = "status" => /\ r.status # "closed"
                          /\ "ticket" \in r.writes => r.status # "new"
                          /\ r.pc \notin {"chat", "create", "sync"}
    /\ r.op = "self_assign" => r.assignee = r.actor

RequestsOK == \A h \in Handlers : RequestOK(req[h])

StepInv == DocsOK /\ RequestsOK

SavedBy(r) == SavedTicket(ticket, r.doc, Changed(r), r.op \in {"priority", "mailbox"})

UndoneBy(r) == [r.doc EXCEPT !.assignee = ticket.assignee, !.mailbox = ticket.mailbox]

(* All that the ticket's invariants need of a step: a request holds the    *)
(* ticket it held, the ticket as it is now, or none; and the ticket only   *)
(* changes by a save or by a rollback.                                     *)
Effect ==
    /\ \A g \in Handlers : req'[g].doc \in {req[g].doc, ticket, Idle.doc}
    /\ \/ ticket' = ticket
       \/ \E h \in Handlers : "ticket" \in req[h].writes /\ ticket' = SavedBy(req[h])
       \/ \E h \in Handlers : "undo_ticket" \in req[h].writes /\ ticket' = UndoneBy(req[h])

LEMMA IdleOK == Idle \in Request /\ RequestOK(Idle)
  <1>1. NewTicket(Nobody, FALSE) \in TicketDoc
    <2>1. SlaSnapshot(FALSE) \in SlaOf(Stamp)
      BY SnapshotType
    <2>2. QED
      BY <2>1, TicketAssumption
         DEF NewTicket, TicketDoc, TicketDocOf, TicketStatus, ActiveStatus, Stamp
  <1>2. NewConv \in ConvDoc
    BY TicketAssumption DEF NewConv, ConvDoc
  <1>3. QED
    BY <1>1, <1>2, TicketAssumption
       DEF Idle, Request, RequestOK, MessageType, TicketStatus, ActiveStatus, Ops, Write

(* A step that moves one request and leaves the others.                    *)
LEMMA RequestMoves ==
    ASSUME StepInv, NEW h \in Handlers, NEW r \in Request, Goto(h, r), RequestOK(r),
           r.doc \in {req[h].doc, ticket, Idle.doc},
           ticket' \in TicketDoc, conv' \in ConvDoc
    PROVE  /\ StepInv'
           /\ \A g \in Handlers : req'[g].doc \in {req[g].doc, ticket, Idle.doc}
  <1>1. req' \in [Handlers -> Request]
    BY DEF StepInv, DocsOK, Goto
  <1>2. ASSUME NEW g \in Handlers
        PROVE  RequestOK(req'[g]) /\ req'[g].doc \in {req[g].doc, ticket, Idle.doc}
    <2>1. CASE g = h
      <3>1. req'[g] = r
        BY <2>1 DEF StepInv, DocsOK, Goto
      <3>2. QED
        BY <2>1, <3>1
    <2>2. CASE g # h
      <3>1. req'[g] = req[g]
        BY <2>2 DEF StepInv, DocsOK, Goto
      <3>2. QED
        BY <3>1 DEF StepInv, RequestsOK
    <2>3. QED
      BY <2>1, <2>2
  <1>3. RequestsOK'
    BY <1>2 DEF RequestsOK, RequestOK
  <1>4. QED
    BY <1>1, <1>2, <1>3 DEF StepInv, DocsOK

LEMMA RequestEnds ==
    ASSUME StepInv, NEW h \in Handlers, Respond(h),
           ticket' \in TicketDoc, conv' \in ConvDoc
    PROVE  /\ StepInv'
           /\ \A g \in Handlers : req'[g].doc \in {req[g].doc, ticket, Idle.doc}
  BY IdleOK, RequestMoves DEF Respond, Goto

(* The end of one write: the request goes on with fewer writes, or ends.   *)
LEMMA WriteDone ==
    ASSUME StepInv, NEW h \in Handlers, NEW w, Done(h, w),
           ticket' \in TicketDoc, conv' \in ConvDoc
    PROVE  /\ StepInv'
           /\ \A g \in Handlers : req'[g].doc \in {req[g].doc, ticket, Idle.doc}
  <1>. DEFINE r == [req[h] EXCEPT !.writes = @ \ {w}]
  <1>1. r \in Request /\ r.doc = req[h].doc /\ RequestOK(r)
    BY DEF StepInv, DocsOK, RequestsOK, RequestOK, Request
  <1>2. CASE Respond(h)
    BY <1>2, RequestEnds
  <1>3. CASE Goto(h, r)
    BY <1>1, <1>3, RequestMoves
  <1>. QED
    BY <1>2, <1>3 DEF Done
LEMMA InitStep == Init => StepInv
  <1>. SUFFICES ASSUME Init PROVE StepInv
    OBVIOUS
  <1>1. ticket \in TicketDoc
    <2>1. PICK a \in Agents \cup {Nobody}, f \in SlaOffered : ticket = NewTicket(a, f)
      BY DEF Init
    <2>2. SlaSnapshot(f) \in SlaOf(Stamp)
      BY SnapshotType, TicketAssumption
    <2>3. QED
      BY <2>1, <2>2, TicketAssumption
         DEF NewTicket, TicketDoc, TicketDocOf, TicketStatus, ActiveStatus, Stamp
  <1>2. conv \in ConvDoc
    BY TicketAssumption DEF Init, NewConv, ConvDoc
  <1>3. QED
    BY <1>1, <1>2, IdleOK DEF Init, StepInv, DocsOK, RequestsOK

LEMMA BeginEffect ==
    ASSUME StepInv, NEW h \in Handlers, Begin(h)
    PROVE  StepInv' /\ Effect
  <1>. DEFINE Started(op) == [Idle EXCEPT !.pc = "load", !.op = op]
  <1>1. PICK op \in Operations :
             \/ /\ op = "message"
                /\ \E t \in MessageType : Goto(h, [Started(op) EXCEPT !.type = t])
             \/ /\ op = "assign"
                /\ \E a, u \in Agents : Goto(h, [Started(op) EXCEPT !.actor = a, !.assignee = u])
             \/ /\ op = "self_assign"
                /\ \E a \in Agents : Goto(h, [Started(op) EXCEPT !.actor = a, !.assignee = a])
             \/ /\ op = "unassign"
                /\ \E a \in Agents : Goto(h, [Started(op) EXCEPT !.actor = a])
             \/ /\ op \in {"close", "reopen"}
                /\ Goto(h, Started(op))
             \/ /\ op = "status"
                /\ \E s \in TicketStatus \ {"closed"} : Goto(h, [Started(op) EXCEPT !.status = s])
             \/ /\ op = "priority"
                /\ \E f \in SlaOffered : Goto(h, [Started(op) EXCEPT !.fresh = f])
             \/ /\ op = "mailbox"
                /\ \E m \in Mailboxes, f \in SlaOffered :
                     Goto(h, [Started(op) EXCEPT !.mailbox = m, !.fresh = f])
    BY DEF Begin
  <1>. DEFINE r == Started(op)
             Asks(q) == q \in Request /\ RequestOK(q) /\ q.doc = Idle.doc
  <1>2. op \in Ops => r \in Request /\ r.op = op /\ r.doc = Idle.doc /\ r.writes = {} /\ r.pc = "load"
    BY IdleOK DEF Idle, Request
  <1>3. \E q : Asks(q) /\ Goto(h, q)
    <2>1. CASE op = "message" /\ \E t \in MessageType : Goto(h, [r EXCEPT !.type = t])
      <3>1. PICK t \in MessageType : Goto(h, [r EXCEPT !.type = t])
        BY <2>1
      <3>2. Asks([r EXCEPT !.type = t])
        BY <1>2, <2>1 DEF Ops, RequestOK, Request
      <3>3. QED
        BY <3>1, <3>2
    <2>2. CASE op = "assign" /\ \E a, u \in Agents : Goto(h, [r EXCEPT !.actor = a, !.assignee = u])
      <3>1. PICK a \in Agents, u \in Agents : Goto(h, [r EXCEPT !.actor = a, !.assignee = u])
        BY <2>2
      <3>2. Asks([r EXCEPT !.actor = a, !.assignee = u])
        BY <1>2, <2>2 DEF Ops, RequestOK, Request
      <3>3. QED
        BY <3>1, <3>2
    <2>3. CASE op = "self_assign" /\ \E a \in Agents : Goto(h, [r EXCEPT !.actor = a, !.assignee = a])
      <3>1. PICK a \in Agents : Goto(h, [r EXCEPT !.actor = a, !.assignee = a])
        BY <2>3
      <3>2. Asks([r EXCEPT !.actor = a, !.assignee = a])
        BY <1>2, <2>3 DEF Ops, RequestOK, Request
      <3>3. QED
        BY <3>1, <3>2
    <2>4. CASE op = "unassign" /\ \E a \in Agents : Goto(h, [r EXCEPT !.actor = a])
      <3>1. PICK a \in Agents : Goto(h, [r EXCEPT !.actor = a])
        BY <2>4
      <3>2. Asks([r EXCEPT !.actor = a])
        BY <1>2, <2>4 DEF Ops, RequestOK, Request
      <3>3. QED
        BY <3>1, <3>2
    <2>5. CASE op \in {"close", "reopen"} /\ Goto(h, r)
      BY <1>2, <2>5 DEF Ops, RequestOK
    <2>6. CASE op = "status" /\ \E s \in TicketStatus \ {"closed"} : Goto(h, [r EXCEPT !.status = s])
      <3>1. PICK s \in TicketStatus \ {"closed"} : Goto(h, [r EXCEPT !.status = s])
        BY <2>6
      <3>2. Asks([r EXCEPT !.status = s])
        BY <1>2, <2>6 DEF Ops, RequestOK, Request
      <3>3. QED
        BY <3>1, <3>2
    <2>7. CASE op = "priority" /\ \E f \in SlaOffered : Goto(h, [r EXCEPT !.fresh = f])
      <3>1. PICK f \in SlaOffered : Goto(h, [r EXCEPT !.fresh = f])
        BY <2>7
      <3>2. Asks([r EXCEPT !.fresh = f])
        BY <1>2, <2>7, TicketAssumption DEF Ops, RequestOK, Request
      <3>3. QED
        BY <3>1, <3>2
    <2>8. CASE /\ op = "mailbox"
               /\ \E m \in Mailboxes, f \in SlaOffered :
                    Goto(h, [r EXCEPT !.mailbox = m, !.fresh = f])
      <3>1. PICK m \in Mailboxes, f \in SlaOffered :
                 Goto(h, [r EXCEPT !.mailbox = m, !.fresh = f])
        BY <2>8
      <3>2. Asks([r EXCEPT !.mailbox = m, !.fresh = f])
        BY <1>2, <2>8, TicketAssumption DEF Ops, RequestOK, Request
      <3>3. QED
        BY <3>1, <3>2
    <2>. QED
      BY <1>1, <2>1, <2>2, <2>3, <2>4, <2>5, <2>6, <2>7, <2>8
  <1>4. ticket' = ticket /\ conv' = conv
    BY DEF Begin
  <1>5. QED
    BY <1>3, <1>4, RequestMoves DEF Effect, StepInv, DocsOK

LEMMA LoadEffect ==
    ASSUME StepInv, NEW h \in Handlers, LoadTicket(h) \/ LoadConversation(h)
    PROVE  StepInv' /\ Effect
  <1>1. ticket' = ticket /\ conv' = conv /\ ticket' \in TicketDoc /\ conv' \in ConvDoc
    BY DEF LoadTicket, LoadConversation, StepInv, DocsOK
  <1>. DEFINE r == [req[h] EXCEPT !.doc = ticket]
             s == [req[h] EXCEPT !.pc = "create", !.chat = conv]
  <1>2. /\ req[h] \in Request /\ RequestOK(req[h])
        /\ ticket \in TicketDoc /\ conv \in ConvDoc
    BY DEF StepInv, DocsOK, RequestsOK
  <1>3. r \in Request /\ r.doc = ticket /\ r.op = req[h].op /\ r.status = req[h].status
        /\ r.writes = req[h].writes /\ r.assignee = req[h].assignee /\ r.actor = req[h].actor
    BY <1>2 DEF Request
  <1>4. CASE Respond(h)
    BY <1>1, <1>4, RequestEnds DEF Effect
  <1>5. CASE r.op = "message" /\ Goto(h, [r EXCEPT !.pc = "chat"])
    <2>1. /\ [r EXCEPT !.pc = "chat"] \in Request
          /\ RequestOK([r EXCEPT !.pc = "chat"])
          /\ [r EXCEPT !.pc = "chat"].doc = ticket
      BY <1>2, <1>3, <1>5 DEF Request, RequestOK
    <2>2. QED
      BY <1>1, <1>5, <2>1, RequestMoves DEF Effect
  <1>6. CASE r.op = "mailbox" /\ Goto(h, [r EXCEPT !.pc = "sync"])
    <2>1. /\ [r EXCEPT !.pc = "sync"] \in Request
          /\ RequestOK([r EXCEPT !.pc = "sync"])
          /\ [r EXCEPT !.pc = "sync"].doc = ticket
      BY <1>2, <1>3, <1>6 DEF Request, RequestOK
    <2>2. QED
      BY <1>1, <1>6, <2>1, RequestMoves DEF Effect
  <1>7. CASE At(h, "load") /\ Accepted(r, ticket) /\ Goto(h, [r EXCEPT !.pc = "save", !.writes = {"ticket"}])
    <2>. DEFINE t == [r EXCEPT !.pc = "save", !.writes = {"ticket"}]
    <2>1. (r.op = "status" => r.status # "new") /\ req[h].op # "none"
      BY <1>2, <1>7 DEF Accepted, ExplicitNext, At, RequestOK, Request
    <2>. HIDE DEF r
    <2>2. /\ t \in Request /\ t.doc = ticket /\ t.op = r.op /\ t.status = r.status
          /\ t.pc = "save" /\ t.writes = {"ticket"}
          /\ t.assignee = r.assignee /\ t.actor = r.actor
      BY <1>3 DEF Request, Write
    <2>. HIDE DEF t
    <2>3. RequestOK(t)
      BY <1>2, <1>3, <2>1, <2>2 DEF RequestOK
    <2>4. QED
      BY <1>1, <1>7, <2>2, <2>3, RequestMoves DEF Effect, t
  <1>8. CASE At(h, "chat") /\ Goto(h, s)
    <2>1. s \in Request /\ s.doc = req[h].doc /\ RequestOK(s)
      BY <1>2, <1>8 DEF Request, RequestOK, At
    <2>2. QED
      BY <1>1, <1>8, <2>1, RequestMoves DEF Effect
  <1>9. CASE LoadTicket(h)
    <2>1. \/ r.op = "message" /\ Goto(h, [r EXCEPT !.pc = "chat"])
          \/ Respond(h)
          \/ r.op = "mailbox" /\ Goto(h, [r EXCEPT !.pc = "sync"])
          \/ At(h, "load") /\ Accepted(r, ticket) /\ Goto(h, [r EXCEPT !.pc = "save", !.writes = {"ticket"}])
      BY <1>9 DEF LoadTicket
    <2>2. QED
      BY <1>4, <1>5, <1>6, <1>7, <2>1
  <1>10. CASE LoadConversation(h)
    BY <1>4, <1>8, <1>10 DEF LoadConversation
  <1>. QED
    BY <1>9, <1>10

LEMMA WriteEffect ==
    ASSUME StepInv, NEW h \in Handlers,
           SaveTicket(h) \/ SaveConversation(h) \/ RollbackTicket(h) \/ RollbackConversation(h)
    PROVE  StepInv' /\ Effect
  <1>1. /\ req[h] \in Request
        /\ ticket \in TicketDoc /\ conv \in ConvDoc
    BY DEF StepInv, DocsOK
  <1>2. CASE SaveTicket(h)
    <2>1. /\ "ticket" \in req[h].writes /\ Done(h, "ticket") /\ conv' = conv
          /\ ticket' = SavedBy(req[h])
      BY <1>2 DEF SaveTicket, SavedBy
    <2>2. ticket' \in TicketDoc
      BY <1>1, <2>1, SavedType DEF SavedBy
    <2>3. QED
      BY <1>1, <2>1, <2>2, WriteDone DEF Effect
  <1>3. CASE SaveConversation(h)
    <2>1. conv' \in ConvDoc
      <3>1. req[h].chat \in ConvDoc /\ req[h].type \in MessageType
        BY <1>1 DEF Request
      <3>2. QED
        BY <1>1, <1>3, <3>1, CountedConversation DEF SaveConversation
    <2>2. ticket' = ticket /\ Done(h, "conv")
      BY <1>3 DEF SaveConversation
    <2>3. QED
      BY <1>1, <2>1, <2>2, WriteDone DEF Effect
  <1>4. CASE RollbackTicket(h)
    <2>1. /\ "undo_ticket" \in req[h].writes /\ Done(h, "undo_ticket") /\ conv' = conv
          /\ ticket' = UndoneBy(req[h])
      BY <1>4 DEF RollbackTicket, UndoneBy
    <2>2. ticket' \in TicketDoc
      <3>1. req[h].doc \in TicketDoc
        BY <1>1 DEF Request
      <3>2. QED
        BY <1>1, <2>1, <3>1 DEF UndoneBy, TicketDoc, TicketDocOf
    <2>3. QED
      BY <1>1, <2>1, <2>2, WriteDone DEF Effect
  <1>5. CASE RollbackConversation(h)
    <2>1. conv' \in ConvDoc
      <3>1. req[h].chat \in ConvDoc
        BY <1>1 DEF Request
      <3>2. QED
        BY <1>1, <1>5, <3>1 DEF RollbackConversation, ConvDoc
    <2>2. ticket' = ticket /\ Done(h, "undo_conv")
      BY <1>5 DEF RollbackConversation
    <2>3. QED
      BY <1>1, <2>1, <2>2, WriteDone DEF Effect
  <1>. QED
    BY <1>2, <1>3, <1>4, <1>5
LEMMA FailureEffect ==
    ASSUME StepInv, NEW h \in Handlers,
           \/ \E w \in {"ticket", "conv"} : SaveFails(h, w)
           \/ DeleteMessage(h) \/ DeleteFails(h) \/ ReadFails(h) \/ UndoFails(h) \/ Stop(h)
    PROVE  StepInv' /\ Effect
  <1>1. /\ ticket' = ticket /\ conv' = conv /\ ticket' \in TicketDoc /\ conv' \in ConvDoc
        /\ req[h] \in Request /\ RequestOK(req[h])
    BY DEF SaveFails, DeleteMessage, DeleteFails, ReadFails, UndoFails, Stop,
           StepInv, DocsOK, RequestsOK
  <1>2. CASE Respond(h)
    BY <1>1, <1>2, RequestEnds DEF Effect
  <1>3. ASSUME NEW w, Done(h, w) PROVE StepInv' /\ Effect
    BY <1>1, <1>3, WriteDone DEF Effect
  <1>4. ASSUME req[h].op # "none", NEW pc \in {"delete", "unsync", "rollback"},
               NEW ws \in SUBSET Write,
               Goto(h, [req[h] EXCEPT !.pc = pc, !.writes = ws]),
               req[h].op = "status" => "ticket" \notin ws \/ "ticket" \in req[h].writes
        PROVE  StepInv' /\ Effect
    <2>. DEFINE r == [req[h] EXCEPT !.pc = pc, !.writes = ws]
    <2>1. r \in Request /\ r.doc = req[h].doc /\ RequestOK(r)
      BY <1>1, <1>4 DEF Request, RequestOK
    <2>2. QED
      BY <1>1, <1>4, <2>1, RequestMoves DEF Effect
  <1>5. ASSUME NEW w \in {"ticket", "conv"}, SaveFails(h, w)
        PROVE  StepInv' /\ Effect
    <2>1. /\ req[h].op # "none"
          /\ \/ Goto(h, [req[h] EXCEPT !.pc = "delete", !.writes = req[h].writes \ {w}])
             \/ Goto(h, [req[h] EXCEPT !.pc = "unsync", !.writes = {}])
             \/ Done(h, w)
      BY <1>1, <1>5 DEF SaveFails, RequestOK, Request
    <2>2. req[h].writes \ {w} \in SUBSET Write /\ {} \in SUBSET Write
      BY <1>1 DEF Request
    <2>3. QED
      BY <1>3, <1>4, <2>1, <2>2
  <1>6. CASE DeleteMessage(h)
    <2>1. /\ req[h].op # "none"
          /\ Goto(h, [req[h] EXCEPT !.pc = "rollback",
                                    !.writes = req[h].writes \cup {"undo_ticket", "undo_conv"}])
      BY <1>1, <1>6 DEF DeleteMessage, At, RequestOK, Request
    <2>2. req[h].writes \cup {"undo_ticket", "undo_conv"} \in SUBSET Write
      BY <1>1 DEF Request, Write
    <2>3. QED
      BY <1>4, <2>1, <2>2
  <1>7. CASE DeleteFails(h)
    <2>1. /\ req[h].op # "none"
          /\ \/ Respond(h)
             \/ Goto(h, [req[h] EXCEPT !.pc = "rollback", !.writes = req[h].writes])
      BY <1>1, <1>7 DEF DeleteFails, At, RequestOK, Request
    <2>2. req[h].writes \in SUBSET Write
      BY <1>1 DEF Request
    <2>3. QED
      BY <1>2, <1>4, <2>1, <2>2
  <1>8. CASE ReadFails(h) \/ Stop(h)
    BY <1>2, <1>8 DEF ReadFails, Stop
  <1>9. CASE UndoFails(h)
    BY <1>2, <1>3, <1>9 DEF UndoFails
  <1>. QED
    BY <1>5, <1>6, <1>7, <1>8, <1>9

LEMMA OtherEffect ==
    ASSUME StepInv, NEW h \in Handlers,
           CreateMessage(h) \/ SyncConversationMailbox(h) \/ UnsyncConversationMailbox(h)
    PROVE  StepInv' /\ Effect
  <1>1. /\ req[h] \in Request /\ RequestOK(req[h])
        /\ req[h].doc.mailbox \in Mailboxes /\ req[h].mailbox \in Mailboxes
        /\ ticket' = ticket /\ ticket' \in TicketDoc /\ conv \in ConvDoc
    BY DEF CreateMessage, SyncConversationMailbox, UnsyncConversationMailbox,
           StepInv, DocsOK, RequestsOK, Request, TicketDoc, TicketDocOf
  <1>2. conv' \in ConvDoc
    BY <1>1 DEF CreateMessage, SyncConversationMailbox, UnsyncConversationMailbox, ConvDoc
  <1>3. CASE CreateMessage(h)
    <2>. DEFINE r == [req[h] EXCEPT !.pc = "save", !.writes = {"ticket", "conv"}]
    <2>1. Goto(h, r) /\ req[h].op \notin {"status", "none"}
      BY <1>1, <1>3 DEF CreateMessage, At, RequestOK
    <2>2. r \in Request /\ r.doc = req[h].doc /\ RequestOK(r)
      BY <1>1, <2>1 DEF Request, RequestOK, Write
    <2>3. QED
      BY <1>1, <1>2, <2>1, <2>2, RequestMoves DEF Effect
  <1>4. CASE SyncConversationMailbox(h)
    <2>. DEFINE r == [req[h] EXCEPT !.pc = "save", !.writes = {"ticket"}]
    <2>1. Goto(h, r) /\ req[h].op \notin {"status", "none"}
      BY <1>1, <1>4 DEF SyncConversationMailbox, At, RequestOK
    <2>2. r \in Request /\ r.doc = req[h].doc /\ RequestOK(r)
      BY <1>1, <2>1 DEF Request, RequestOK, Write
    <2>3. QED
      BY <1>1, <1>2, <2>1, <2>2, RequestMoves DEF Effect
  <1>5. CASE UnsyncConversationMailbox(h)
    BY <1>1, <1>2, <1>5, RequestEnds DEF UnsyncConversationMailbox, Effect
  <1>. QED
    BY <1>3, <1>4, <1>5
THEOREM StepInvariant == Spec => []StepInv
  <1>1. StepInv /\ [Next]_vars => StepInv'
    <2>. SUFFICES ASSUME StepInv, [Next]_vars PROVE StepInv'
      OBVIOUS
    <2>1. CASE UNCHANGED vars
      BY <2>1 DEF vars, StepInv, DocsOK, RequestsOK, RequestOK
    <2>2. CASE Next
      BY <2>2, BeginEffect, LoadEffect, WriteEffect, FailureEffect, OtherEffect
         DEF Next, Handle
    <2>3. QED
      BY <2>1, <2>2
  <1>2. QED
    BY <1>1, InitStep, PTL DEF Spec

LEMMA StepEffect ==
    ASSUME StepInv, Next
    PROVE  Effect
  BY BeginEffect, LoadEffect, WriteEffect, FailureEffect, OtherEffect DEF Next, Handle

----------------------------------------------------------------------------
(* The closing date. *)

(* A closed ticket, in the database or in a request's memory, has a date.  *)
Dated(doc) == doc.closed \in Stamp /\ (doc.status = "closed" => doc.closed = "set")
DateInv == Dated(ticket) /\ \A h \in Handlers : Dated(req[h].doc)

(* What a request does to status and date in memory: a new status is       *)
(* "closed" only with a new date, and the date goes only with the status.  *)
DatedChange(loaded, changed) ==
    /\ changed.status = "closed" /\ changed.status # loaded.status => changed.closed = "now"
    /\ changed.closed # loaded.closed /\ changed.closed # "now"
         => changed.status # "closed" /\ changed.status # loaded.status
    /\ changed.closed \in FreshStamp

LEMMA SaveKeepsDate ==
    ASSUME NEW now, NEW loaded, NEW changed, NEW newSla,
           Dated(now), Dated(loaded), DatedChange(loaded, changed)
    PROVE  Dated(SavedTicket(now, loaded, changed, newSla))
  BY DEF Dated, DatedChange, SavedTicket, SavedPath, Stored, Stamp, FreshStamp

(* How the operators that set a status leave the rest of the ticket.       *)
LEMMA WithStatusFields ==
    ASSUME NEW doc \in TicketDocOf(FreshStamp), NEW next \in TicketStatus
    PROVE  /\ WithStatus(doc, next).status = next
           /\ WithStatus(doc, next).closed = IF next = doc.status THEN doc.closed ELSE "unset"
           /\ WithStatus(doc, next).assignee = doc.assignee
           /\ WithStatus(doc, next).sla.responded = doc.sla.responded
  <1>1. /\ WithStatus(doc, next).status = next
        /\ WithStatus(doc, next).closed = IF next = doc.status THEN doc.closed ELSE "unset"
        /\ WithStatus(doc, next).assignee = doc.assignee
        /\ WithStatus(doc, next).sla = StatusTransitionSla(doc.sla, doc.status, next)
    BY DEF WithStatus, TicketDocOf
  <1>2. doc.sla \in SlaOf(FreshStamp)
    BY DEF TicketDocOf
  <1>. QED
    BY <1>1, <1>2, StatusTransitionType

LEMMA WithMessageFields ==
    ASSUME NEW doc \in TicketDocOf(FreshStamp), NEW type \in MessageType
    PROVE  \E next \in {doc.status, "open", "waiting_on_customer"} :
             /\ WithMessage(doc, type).status = next
             /\ WithMessage(doc, type).closed = IF next = doc.status THEN doc.closed ELSE "unset"
             /\ WithMessage(doc, type).assignee = doc.assignee
             /\ WithMessage(doc, type).sla.responded \in {doc.sla.responded, "now"}
  <1>. DEFINE counted == Counted(doc, type)
             replied == [counted EXCEPT !.sla = FirstResponseSla(@)]
             Same(d) == /\ d \in TicketDocOf(FreshStamp)
                        /\ d.status = doc.status /\ d.closed = doc.closed
                        /\ d.assignee = doc.assignee
                        /\ d.sla.responded \in {doc.sla.responded, "now"}
  <1>1. Same(counted) /\ counted.sla = doc.sla
    BY ZenonT(40), CountedType DEF Counted, TicketDocOf
  <1>. HIDE DEF counted
  <1>2. Same(replied)
    <2>1. doc.sla \in SlaOf(FreshStamp)
      BY DEF TicketDocOf
    <2>2. /\ FirstResponseSla(doc.sla) \in SlaOf(FreshStamp)
          /\ FirstResponseSla(doc.sla).responded \in {doc.sla.responded, "now"}
      BY <2>1 DEF FirstResponseSla, SlaOf, FreshStamp
    <2>3. QED
      BY <1>1, <2>2 DEF TicketDocOf
  <1>. HIDE DEF replied
  <1>3. ASSUME NEW d, Same(d), NEW next \in {"open", "waiting_on_customer"},
               WithMessage(doc, type) = WithStatus(d, next)
        PROVE  /\ WithMessage(doc, type).status = next
               /\ WithMessage(doc, type).closed = IF next = doc.status THEN doc.closed ELSE "unset"
               /\ WithMessage(doc, type).assignee = doc.assignee
               /\ WithMessage(doc, type).sla.responded \in {doc.sla.responded, "now"}
    BY <1>3, WithStatusFields DEF TicketStatus, ActiveStatus
  <1>4. CASE type = "internal_note"
    BY <1>1, <1>4 DEF WithMessage, counted
  <1>5. CASE type = "customer_message"
    BY <1>1, <1>3, <1>5 DEF WithMessage, counted
  <1>6. CASE type = "public_reply"
    BY <1>2, <1>3, <1>6 DEF WithMessage, counted, replied
  <1>. QED
    BY <1>4, <1>5, <1>6 DEF MessageType
(* What a request may change of assignee, status and first response: it    *)
(* never makes a ticket new, it assigns only a ticket that is not new, and *)
(* it forgets no first response, a new snapshot apart.                     *)
SettledChange(loaded, changed) ==
    /\ changed.status = "new" => loaded.status = "new"
    /\ changed.assignee \notin {loaded.assignee, Nobody} => changed.status # "new"

LEMMA ChangedFields ==
    ASSUME NEW r \in Request, RequestOK(r), "ticket" \in r.writes
    PROVE  /\ DatedChange(r.doc, Changed(r))
           /\ SettledChange(r.doc, Changed(r))
           /\ r.op \notin {"priority", "mailbox"}
                => Changed(r).sla.responded \in {r.doc.sla.responded, "now"}
  <1>. DEFINE Fine(changed) ==
                /\ DatedChange(r.doc, changed) /\ SettledChange(r.doc, changed)
                /\ r.op \notin {"priority", "mailbox"}
                     => changed.sla.responded \in {r.doc.sla.responded, "now"}
  <1>1. /\ r.doc \in TicketDoc /\ r.doc \in TicketDocOf(FreshStamp)
        /\ r.doc.closed \in FreshStamp
        /\ r.type \in MessageType /\ r.status \in TicketStatus
        /\ r.op \in Ops
    BY StampsAreFresh DEF Request, RequestOK, TicketDocOf
  <1>2. CASE r.op = "message"
    <2>. DEFINE changed == WithMessage(r.doc, r.type)
    <2>1. PICK next \in {r.doc.status, "open", "waiting_on_customer"} :
             /\ changed.status = next
             /\ changed.closed = IF next = r.doc.status THEN r.doc.closed ELSE "unset"
             /\ changed.assignee = r.doc.assignee
             /\ changed.sla.responded \in {r.doc.sla.responded, "now"}
      BY <1>1, WithMessageFields
    <2>. HIDE DEF changed
    <2>2. Fine(changed)
      BY <1>1, <2>1 DEF DatedChange, SettledChange, FreshStamp, Stamp
    <2>3. QED
      BY <1>2, <2>2 DEF Changed, changed
  <1>3. CASE r.op \in {"assign", "self_assign"}
    <2>1. Fine(WithAssignee(r.doc, r.assignee))
      BY <1>1 DEF WithAssignee, DatedChange, SettledChange, TicketDocOf, FreshStamp, Stamp
    <2>2. QED
      BY <1>3, <2>1 DEF Changed
  <1>4. CASE r.op = "unassign"
    <2>1. Fine([r.doc EXCEPT !.assignee = Nobody])
      BY <1>1 DEF DatedChange, SettledChange, TicketDocOf
    <2>2. QED
      BY <1>4, <2>1 DEF Changed
  <1>5. CASE r.op \in {"status", "reopen"}
    <2>. DEFINE next == IF r.op = "status" THEN r.status ELSE "open"
    <2>1. next \in TicketStatus /\ next \notin {"closed", "new"}
      BY <1>1 DEF RequestOK, TicketStatus, ActiveStatus
    <2>. HIDE DEF next
    <2>2. Fine(WithStatus(r.doc, next))
      BY <1>1, <2>1, WithStatusFields DEF DatedChange, SettledChange, FreshStamp, Stamp
    <2>3. QED
      BY <1>5, <2>2 DEF Changed, next
  <1>6. CASE r.op = "close"
    <2>1. Fine(Closed(r.doc))
      BY <1>1 DEF Closed, DatedChange, SettledChange, TicketDocOf, FreshStamp, Stamp
    <2>2. QED
      BY <1>6, <2>1 DEF Changed
  <1>7. CASE r.op = "priority"
    <2>1. Fine([r.doc EXCEPT !.sla = SlaSnapshot(r.fresh)])
      BY <1>1, <1>7 DEF DatedChange, SettledChange, TicketDocOf
    <2>2. QED
      BY <1>7, <2>1 DEF Changed
  <1>8. CASE r.op = "mailbox"
    <2>1. Fine([r.doc EXCEPT !.mailbox = r.mailbox, !.sla = SlaSnapshot(r.fresh)])
      BY <1>1, <1>8 DEF DatedChange, SettledChange, TicketDocOf
    <2>2. QED
      BY <1>8, <2>1 DEF Changed
  <1>. QED
    BY <1>1, <1>2, <1>3, <1>4, <1>5, <1>6, <1>7, <1>8 DEF Ops
LEMMA DateStep ==
    ASSUME StepInv, DateInv, Effect
    PROVE  DateInv'
  <1>1. Dated(Idle.doc)
    BY DEF Idle, NewTicket, Dated, Stamp
  <1>2. Dated(ticket')
    <2>1. CASE ticket' = ticket
      BY <2>1 DEF DateInv
    <2>2. CASE \E h \in Handlers : "ticket" \in req[h].writes /\ ticket' = SavedBy(req[h])
      <3>1. PICK h \in Handlers : "ticket" \in req[h].writes /\ ticket' = SavedBy(req[h])
        BY <2>2
      <3>2. DatedChange(req[h].doc, Changed(req[h]))
        BY <3>1, ChangedFields DEF StepInv, DocsOK, RequestsOK
      <3>3. QED
        BY <3>1, <3>2, SaveKeepsDate DEF SavedBy, DateInv
    <2>3. CASE \E h \in Handlers : "undo_ticket" \in req[h].writes /\ ticket' = UndoneBy(req[h])
      <3>1. PICK h \in Handlers : ticket' = UndoneBy(req[h])
        BY <2>3
      <3>2. req[h].doc \in TicketDoc /\ Dated(req[h].doc)
        BY DEF StepInv, DocsOK, Request, DateInv
      <3>3. QED
        BY <3>1, <3>2 DEF UndoneBy, Dated, TicketDoc, TicketDocOf
    <2>4. QED
      BY <2>1, <2>2, <2>3 DEF Effect
  <1>3. ASSUME NEW g \in Handlers PROVE Dated(req'[g].doc)
    BY <1>1 DEF DateInv, Effect
  <1>4. QED
    BY <1>2, <1>3 DEF DateInv, Dated

(* A closed ticket has its closing date, however many requests overlap or  *)
(* stop, and whichever of their steps fail or land late: closing           *)
(* writes status and closedAt together, and only leaving "closed" or a     *)
(* rollback to a ticket that had both right takes the date away            *)
(* (closeTicket, the pre-validate hook of ticket.model.js, and the catch   *)
(* block of createTicketMessage).                                          *)
THEOREM ClosedTicketsHaveDates == Spec => []ClosedHasDate
  <1>1. Init => DateInv
    BY DEF Init, DateInv, Dated, NewTicket, Idle, Stamp
  <1>2. StepInv /\ DateInv /\ [Next]_vars => DateInv'
    <2>. SUFFICES ASSUME StepInv, DateInv, [Next]_vars PROVE DateInv'
      OBVIOUS
    <2>1. CASE UNCHANGED vars
      BY <2>1 DEF vars, DateInv, Dated
    <2>2. CASE Next
      BY <2>2, StepEffect, DateStep
    <2>3. QED
      BY <2>1, <2>2
  <1>3. DateInv => ClosedHasDate
    BY DEF DateInv, Dated, ClosedHasDate
  <1>4. QED
    BY <1>1, <1>2, <1>3, StepInvariant, PTL DEF Spec

----------------------------------------------------------------------------
(* Where a request is, and what it has under way. *)

(* Only a message has its conversation to save and writes to undo, only a  *)
(* mailbox change moves a conversation, and a request that is not a        *)
(* message has its one write under way until it ends.                      *)
Shape(r) ==
    /\ r.pc = "idle" => r.op = "none"
    /\ r.pc \in {"idle", "load", "chat", "create", "sync", "unsync"} => r.writes = {}
    /\ r.pc \in {"chat", "create", "delete", "rollback"} => r.op = "message"
    /\ r.pc \in {"sync", "unsync"} => r.op = "mailbox"
    /\ r.pc = "save" => r.writes \subseteq {"ticket", "conv"}
    /\ r.pc = "save" /\ r.op # "message" => r.writes = {"ticket"}

Shapes == \A h \in Handlers : Shape(req[h])

LEMMA OthersWait ==
    ASSUME StepInv, NEW h \in Handlers, Handle(h)
    PROVE  \A g \in Handlers \ {h} : req'[g] = req[g]
  <1>1. ASSUME NEW r, Goto(h, r) PROVE \A g \in Handlers \ {h} : req'[g] = req[g]
    BY <1>1 DEF Goto, StepInv, DocsOK
  <1>2. Respond(h) => \A g \in Handlers \ {h} : req'[g] = req[g]
    BY DEF Respond, StepInv, DocsOK
  <1>3. \E r : Goto(h, r) \/ Respond(h)
    <2>1. CASE Begin(h)
      BY <2>1, Zenon DEF Begin
    <2>2. CASE LoadTicket(h) \/ LoadConversation(h) \/ CreateMessage(h)
      BY <2>2 DEF LoadTicket, LoadConversation, CreateMessage
    <2>3. CASE \/ SaveTicket(h) \/ SaveConversation(h)
               \/ RollbackTicket(h) \/ RollbackConversation(h)
      BY <2>3, Zenon DEF SaveTicket, SaveConversation, RollbackTicket, RollbackConversation, Done
    <2>4. CASE \E w \in {"ticket", "conv"} : SaveFails(h, w)
      BY <2>4, Zenon DEF SaveFails, Done
    <2>5. CASE \/ DeleteMessage(h) \/ DeleteFails(h) \/ SyncConversationMailbox(h)
               \/ ReadFails(h) \/ UnsyncConversationMailbox(h) \/ Stop(h)
      BY <2>5, Zenon DEF DeleteMessage, DeleteFails, SyncConversationMailbox, ReadFails,
                  UnsyncConversationMailbox, Stop
    <2>6. CASE UndoFails(h)
      BY <2>6, Zenon DEF UndoFails, Done
    <2>. QED
      BY <2>1, <2>2, <2>3, <2>4, <2>5, <2>6 DEF Handle
  <1>. QED
    BY <1>1, <1>2, <1>3

(* A request that ends is idle again; one that goes on keeps what it was   *)
(* asked for.                                                              *)
Asked(s, r) ==
    s.status = r.status /\ s.assignee = r.assignee /\ s.actor = r.actor /\ s.fresh = r.fresh
Kept(s, r) ==
    /\ s.op = r.op /\ s.type = r.type /\ s.mailbox = r.mailbox /\ s.doc = r.doc /\ s.chat = r.chat
    /\ Asked(s, r)

LEMMA GoesOn ==
    ASSUME StepInv, NEW h \in Handlers, NEW pc, NEW ws,
           Goto(h, [req[h] EXCEPT !.pc = pc, !.writes = ws])
    PROVE  Kept(req'[h], req[h]) /\ req'[h].pc = pc /\ req'[h].writes = ws
  <1>. DEFINE r == [req[h] EXCEPT !.pc = pc, !.writes = ws]
  <1>1. req'[h] = r
    BY DEF Goto, StepInv, DocsOK
  <1>2. Kept(r, req[h]) /\ r.pc = pc /\ r.writes = ws
    BY DEF StepInv, DocsOK, Request, Kept, Asked
  <1>. QED
    BY <1>1, <1>2 DEF Kept, Asked

LEMMA Ends ==
    ASSUME StepInv, NEW h \in Handlers, Respond(h)
    PROVE  req'[h] = Idle
  BY DEF Respond, StepInv, DocsOK

(* The first write of a request that is no message ends it.                *)
LEMMA DoneMoves ==
    ASSUME StepInv, NEW h \in Handlers, NEW w, Done(h, w)
    PROVE  \/ req'[h] = Idle
           \/ /\ Kept(req'[h], req[h]) /\ req'[h].pc = req[h].pc
              /\ req'[h].writes = req[h].writes \ {w}
              /\ req[h].writes # {w} \/ req[h].pc = "delete"
  <1>1. CASE Respond(h)
    BY <1>1, Ends
  <1>2. CASE req[h].writes # {w} \/ req[h].pc = "delete"
    <2>1. CASE Goto(h, [req[h] EXCEPT !.writes = @ \ {w}])
      <3>. DEFINE r == [req[h] EXCEPT !.writes = @ \ {w}]
      <3>1. req'[h] = r
        BY <2>1 DEF Goto, StepInv, DocsOK
      <3>2. Kept(r, req[h]) /\ r.pc = req[h].pc /\ r.writes = req[h].writes \ {w}
        BY DEF StepInv, DocsOK, Request, Kept, Asked
      <3>. QED
        BY <1>2, <3>1, <3>2 DEF Kept, Asked
    <2>. QED
      BY <1>1, <2>1 DEF Done
  <1>. QED
    BY <1>1, <1>2 DEF Done, At

LEMMA BeginMoves ==
    ASSUME StepInv, NEW h \in Handlers, Begin(h)
    PROVE  /\ req'[h].pc = "load" /\ req'[h].writes = {} /\ req'[h].op \in Ops
           /\ req'[h].doc = Idle.doc /\ req'[h].chat = Idle.chat
           /\ req[h].pc = "idle"
  <1>. DEFINE Fresh(r) == /\ r.pc = "load" /\ r.writes = {} /\ r.op \in Ops
                          /\ r.doc = Idle.doc /\ r.chat = Idle.chat
  <1>1. Idle \in Request /\ Idle.writes = {}
    BY IdleOK DEF Idle
  <1>2. ASSUME NEW op \in Ops, NEW t, NEW u, NEW a, NEW s, NEW f, NEW m
        PROVE  LET r == [Idle EXCEPT !.pc = "load", !.op = op]
               IN  /\ Fresh(r)
                   /\ Fresh([r EXCEPT !.type = t])
                   /\ Fresh([r EXCEPT !.actor = a, !.assignee = u])
                   /\ Fresh([r EXCEPT !.actor = a])
                   /\ Fresh([r EXCEPT !.status = s])
                   /\ Fresh([r EXCEPT !.fresh = f])
                   /\ Fresh([r EXCEPT !.mailbox = m, !.fresh = f])
    BY <1>1 DEF Request
  <1>3. ASSUME NEW r, Goto(h, r) PROVE req'[h] = r
    BY <1>3 DEF Goto, StepInv, DocsOK
  <1>. HIDE DEF Fresh
  <1>4. Fresh(req'[h])
    <2>. DEFINE r(op) == [Idle EXCEPT !.pc = "load", !.op = op]
    <2>1. PICK op \in Operations :
             \/ /\ op = "message"
                /\ \E t \in MessageType : Goto(h, [r(op) EXCEPT !.type = t])
             \/ /\ op = "assign"
                /\ \E a, u \in Agents : Goto(h, [r(op) EXCEPT !.actor = a, !.assignee = u])
             \/ /\ op = "self_assign"
                /\ \E a \in Agents : Goto(h, [r(op) EXCEPT !.actor = a, !.assignee = a])
             \/ /\ op = "unassign"
                /\ \E a \in Agents : Goto(h, [r(op) EXCEPT !.actor = a])
             \/ /\ op \in {"close", "reopen"}
                /\ Goto(h, r(op))
             \/ /\ op = "status"
                /\ \E s \in TicketStatus \ {"closed"} : Goto(h, [r(op) EXCEPT !.status = s])
             \/ /\ op = "priority"
                /\ \E f \in SlaOffered : Goto(h, [r(op) EXCEPT !.fresh = f])
             \/ /\ op = "mailbox"
                /\ \E m \in Mailboxes, f \in SlaOffered :
                     Goto(h, [r(op) EXCEPT !.mailbox = m, !.fresh = f])
      BY DEF Begin
    <2>2. op \in Ops
      BY <2>1 DEF Ops
    <2>3. /\ Fresh(r(op))
          /\ \A t : Fresh([r(op) EXCEPT !.type = t])
          /\ \A a, u : Fresh([r(op) EXCEPT !.actor = a, !.assignee = u])
          /\ \A a : Fresh([r(op) EXCEPT !.actor = a])
          /\ \A s : Fresh([r(op) EXCEPT !.status = s])
          /\ \A f : Fresh([r(op) EXCEPT !.fresh = f])
          /\ \A m, f : Fresh([r(op) EXCEPT !.mailbox = m, !.fresh = f])
      BY <1>2, <2>2
    <2>. HIDE DEF r
    <2>4. \E q : Goto(h, q) /\ Fresh(q)
      BY <2>1, <2>3, Zenon
    <2>. QED
      BY <1>3, <2>4
  <1>. QED
    BY <1>4 DEF Fresh, Begin, At
LEMMA LoadMoves ==
    ASSUME StepInv, NEW h \in Handlers, LoadTicket(h)
    PROVE  \/ req'[h] = Idle
           \/ /\ req'[h].op = req[h].op /\ req'[h].type = req[h].type
              /\ req'[h].mailbox = req[h].mailbox /\ Asked(req'[h], req[h])
              /\ req'[h].doc = ticket /\ req'[h].chat = req[h].chat
              /\ \/ /\ req[h].op = "message" /\ req'[h].pc = "chat"
                    /\ req'[h].writes = req[h].writes
                 \/ /\ req[h].op = "mailbox" /\ req'[h].pc = "sync"
                    /\ req'[h].writes = req[h].writes
                 \/ /\ req[h].op \notin {"message", "mailbox"} /\ req'[h].pc = "save"
                    /\ req'[h].writes = {"ticket"}
  <1>. DEFINE r == [req[h] EXCEPT !.doc = ticket]
             Loaded(q) == /\ q.op = req[h].op /\ q.type = req[h].type
                          /\ q.mailbox = req[h].mailbox /\ Asked(q, req[h])
                          /\ q.doc = ticket /\ q.chat = req[h].chat
  <1>1. req[h] \in Request /\ Loaded(r) /\ r.writes = req[h].writes
    BY DEF StepInv, DocsOK, Request, Asked
  <1>2. ASSUME NEW pc
        PROVE  Loaded([r EXCEPT !.pc = pc]) /\ [r EXCEPT !.pc = pc].pc = pc
               /\ [r EXCEPT !.pc = pc].writes = req[h].writes
    BY <1>1 DEF Request, Asked
  <1>. DEFINE one == {"ticket"}
  <1>3. /\ Loaded([r EXCEPT !.pc = "save", !.writes = one])
        /\ [r EXCEPT !.pc = "save", !.writes = one].pc = "save"
        /\ [r EXCEPT !.pc = "save", !.writes = one].writes = one
    BY <1>1 DEF Request, Asked
  <1>4. ASSUME NEW q, Goto(h, q) PROVE req'[h] = q
    BY <1>4 DEF Goto, StepInv, DocsOK
  <1>5. r.op = req[h].op
    BY <1>1
  <1>. HIDE DEF r, Loaded
  <1>6. \/ Respond(h)
        \/ req[h].op = "message" /\ Goto(h, [r EXCEPT !.pc = "chat"])
        \/ req[h].op = "mailbox" /\ Goto(h, [r EXCEPT !.pc = "sync"])
        \/ req[h].op \notin {"message", "mailbox"} /\ Goto(h, [r EXCEPT !.pc = "save", !.writes = one])
    BY <1>5 DEF LoadTicket, r
  <1>. HIDE DEF one
  <1>7. \/ req'[h] = Idle
        \/ /\ Loaded(req'[h])
           /\ \/ /\ req[h].op = "message" /\ req'[h].pc = "chat"
                 /\ req'[h].writes = req[h].writes
              \/ /\ req[h].op = "mailbox" /\ req'[h].pc = "sync"
                 /\ req'[h].writes = req[h].writes
              \/ /\ req[h].op \notin {"message", "mailbox"} /\ req'[h].pc = "save"
                 /\ req'[h].writes = one
    <2>1. CASE Respond(h)
      BY <2>1, Ends
    <2>2. ASSUME NEW pc, Goto(h, [r EXCEPT !.pc = pc])
          PROVE  Loaded(req'[h]) /\ req'[h].pc = pc /\ req'[h].writes = req[h].writes
      BY ZenonT(40), <1>2, <1>4, <2>2
    <2>3. ASSUME Goto(h, [r EXCEPT !.pc = "save", !.writes = one])
          PROVE  Loaded(req'[h]) /\ req'[h].pc = "save" /\ req'[h].writes = one
      BY <1>3, <1>4, <2>3
    <2>. QED
      BY <1>6, <2>1, <2>2, <2>3
  <1>. QED
    BY <1>7 DEF Loaded, one

LEMMA ChatMoves ==
    ASSUME StepInv, NEW h \in Handlers, LoadConversation(h)
    PROVE  \/ req'[h] = Idle
           \/ /\ req'[h].op = req[h].op /\ req'[h].type = req[h].type
              /\ req'[h].mailbox = req[h].mailbox /\ Asked(req'[h], req[h])
              /\ req'[h].doc = req[h].doc /\ req'[h].chat = conv
              /\ req'[h].pc = "create" /\ req'[h].writes = req[h].writes
              /\ req[h].doc.status # "closed" \/ req[h].type = "internal_note"
  <1>. DEFINE r == [req[h] EXCEPT !.pc = "create", !.chat = conv]
  <1>1. /\ r.op = req[h].op /\ r.type = req[h].type /\ r.doc = req[h].doc /\ r.chat = conv
        /\ r.pc = "create" /\ r.writes = req[h].writes
        /\ r.mailbox = req[h].mailbox /\ Asked(r, req[h])
    BY DEF StepInv, DocsOK, Request, Asked
  <1>2. Goto(h, r) => req'[h] = r
    BY DEF Goto, StepInv, DocsOK
  <1>. HIDE DEF r
  <1>3. \/ Respond(h)
        \/ Goto(h, r) /\ (req[h].doc.status # "closed" \/ req[h].type = "internal_note")
    BY DEF LoadConversation, r
  <1>. QED
    BY <1>1, <1>2, <1>3, Ends

LEMMA ShapesStep ==
    ASSUME StepInv, Shapes, NEW h \in Handlers, Handle(h)
    PROVE  Shapes'
  <1>0. /\ req[h] \in Request /\ Shape(req[h])
        /\ \A g \in Handlers \ {h} : Shape(req'[g])
    BY OthersWait DEF Shapes, StepInv, DocsOK
  <1>. SUFFICES Shape(req'[h])
    BY <1>0 DEF Shapes, Shape
  <1>1. Shape(Idle)
    BY DEF Shape, Idle
  <1>2. ASSUME NEW w \in req[h].writes, Done(h, w) PROVE Shape(req'[h])
    BY <1>0, <1>1, <1>2, DoneMoves DEF Shape, Kept, Request
  <1>3. ASSUME Respond(h) PROVE Shape(req'[h])
    BY <1>1, <1>3, Ends
  <1>4. ASSUME NEW pc, NEW ws, Goto(h, [req[h] EXCEPT !.pc = pc, !.writes = ws])
         PROVE  req'[h].op = req[h].op /\ req'[h].pc = pc
    BY <1>4, GoesOn DEF Kept
  <1>5. ASSUME NEW pc, NEW ws, Goto(h, [req[h] EXCEPT !.pc = pc, !.writes = ws])
         PROVE  req'[h].writes = ws
    BY <1>5, GoesOn
  <1>6. CASE Begin(h)
    BY <1>6, BeginMoves DEF Shape
  <1>7. CASE LoadTicket(h)
    BY ZenonT(40), <1>0, <1>1, <1>7, LoadMoves DEF Shape, LoadTicket, At
  <1>8. CASE LoadConversation(h)
    BY <1>0, <1>1, <1>8, ChatMoves DEF Shape, LoadConversation, At
  <1>9. CASE CreateMessage(h)
    <2>. DEFINE ws == {"ticket", "conv"}
    <2>1. Goto(h, [req[h] EXCEPT !.pc = "save", !.writes = ws])
      BY <1>9 DEF CreateMessage
    <2>. HIDE DEF ws
    <2>2. req'[h].op = req[h].op /\ req'[h].pc = "save" /\ req'[h].writes = ws
      BY <1>4, <1>5, <2>1
    <2>. QED
      BY <1>0, <1>9, <2>2 DEF ws, Shape, CreateMessage, At
  <1>10. CASE SaveTicket(h) \/ SaveConversation(h) \/ RollbackTicket(h) \/ RollbackConversation(h)
    BY <1>2, <1>10 DEF SaveTicket, SaveConversation, RollbackTicket, RollbackConversation
  <1>11. CASE \E w \in {"ticket", "conv"} : SaveFails(h, w)
    <2>1. PICK w \in {"ticket", "conv"} : SaveFails(h, w)
      BY <1>11
    <2>2. w \in req[h].writes
      BY <2>1 DEF SaveFails
    <2>3. \/ At(h, "save") /\ req[h].op = "message"
             /\ Goto(h, [req[h] EXCEPT !.pc = "delete", !.writes = req[h].writes \ {w}])
          \/ At(h, "save") /\ req[h].op = "mailbox"
             /\ Goto(h, [req[h] EXCEPT !.pc = "unsync", !.writes = {}])
          \/ Done(h, w)
      BY <1>0, <2>1 DEF SaveFails, Request
    <2>4. \/ req[h].op = "message" /\ req'[h].op = "message" /\ req'[h].pc = "delete"
          \/ /\ req[h].op = "mailbox" /\ req'[h].op = "mailbox" /\ req'[h].pc = "unsync"
             /\ req'[h].writes = {}
          \/ Done(h, w)
      BY <1>4, <1>5, <2>3
    <2>. QED
      BY <1>0, <1>2, <2>2, <2>4 DEF Shape
  <1>12. CASE DeleteMessage(h)
    <2>. DEFINE ws == req[h].writes \cup {"undo_ticket", "undo_conv"}
    <2>1. Goto(h, [req[h] EXCEPT !.pc = "rollback", !.writes = ws])
      BY <1>12, <1>0 DEF DeleteMessage, Request
    <2>. HIDE DEF ws
    <2>2. req'[h].op = req[h].op /\ req'[h].pc = "rollback" /\ req'[h].writes = ws
      BY <1>4, <1>5, <2>1
    <2>. QED
      BY <1>0, <1>12, <2>2 DEF ws, Shape, DeleteMessage, At
  <1>13. CASE DeleteFails(h)
    <2>1. Respond(h) \/ Goto(h, [req[h] EXCEPT !.pc = "rollback", !.writes = req[h].writes])
      BY <1>0, <1>13 DEF DeleteFails, Request
    <2>2. CASE Goto(h, [req[h] EXCEPT !.pc = "rollback", !.writes = req[h].writes])
      <3>1. req'[h].op = req[h].op /\ req'[h].pc = "rollback"
        BY <1>4, <2>2
      <3>. QED
        BY <1>0, <1>13, <3>1 DEF Shape, DeleteFails, At
    <2>. QED
      BY <1>3, <2>1, <2>2
  <1>14. CASE SyncConversationMailbox(h)
    <2>. DEFINE ws == {"ticket"}
    <2>1. Goto(h, [req[h] EXCEPT !.pc = "save", !.writes = ws])
      BY <1>14 DEF SyncConversationMailbox
    <2>. HIDE DEF ws
    <2>2. req'[h].op = req[h].op /\ req'[h].pc = "save" /\ req'[h].writes = ws
      BY <1>4, <1>5, <2>1
    <2>. QED
      BY <1>0, <1>14, <2>2 DEF ws, Shape, SyncConversationMailbox, At
  <1>15. CASE ReadFails(h) \/ UnsyncConversationMailbox(h) \/ Stop(h)
    BY <1>3, <1>15 DEF ReadFails, UnsyncConversationMailbox, Stop
  <1>16. CASE UndoFails(h)
    BY <1>2, <1>3, <1>16 DEF UndoFails
  <1>. QED
    BY <1>6, <1>7, <1>8, <1>9, <1>10, <1>11, <1>12, <1>13, <1>14, <1>15, <1>16 DEF Handle

LEMMA ShapesInvariant == Spec => [](StepInv /\ Shapes)
  <1>1. Init => Shapes
    BY DEF Init, Shapes, Shape, Idle
  <1>2. StepInv /\ Shapes /\ [Next]_vars => Shapes'
    <2>1. StepInv /\ Shapes /\ UNCHANGED vars => Shapes'
      BY DEF Shapes, Shape, vars
    <2>. QED
      BY <2>1, ShapesStep DEF Next
  <1>. QED
    BY <1>1, <1>2, StepInvariant, PTL DEF Spec

(* Only a save or a rollback writes the ticket.                            *)
LEMMA TicketMoves ==
    ASSUME NEW h \in Handlers, Handle(h)
    PROVE  ticket' = ticket \/ SaveTicket(h) \/ RollbackTicket(h)
  <1>1. CASE Begin(h) \/ LoadTicket(h) \/ LoadConversation(h) \/ CreateMessage(h)
    BY <1>1 DEF Begin, LoadTicket, LoadConversation, CreateMessage
  <1>2. CASE SaveConversation(h) \/ RollbackConversation(h)
    BY <1>2 DEF SaveConversation, RollbackConversation
  <1>3. CASE \/ \E w \in {"ticket", "conv"} : SaveFails(h, w)
             \/ DeleteMessage(h) \/ DeleteFails(h) \/ ReadFails(h) \/ UndoFails(h) \/ Stop(h)
    BY <1>3 DEF SaveFails, DeleteMessage, DeleteFails, ReadFails, UndoFails, Stop
  <1>4. CASE SyncConversationMailbox(h) \/ UnsyncConversationMailbox(h)
    BY <1>4 DEF SyncConversationMailbox, UnsyncConversationMailbox
  <1>. QED
    BY <1>1, <1>2, <1>3, <1>4 DEF Handle

(* As long as no save has failed, nothing is taken back.                   *)
Unfailed(r) == r.pc # "delete" /\ r.writes \subseteq {"ticket", "conv"}
FailureInv == "failed" \notin amiss => \A h \in Handlers : Unfailed(req[h])

LEMMA FailureStep ==
    ASSUME StepInv, Shapes, FailureInv, NEW h \in Handlers, Handle(h), Records(h),
           "failed" \notin amiss'
    PROVE  /\ \A g \in Handlers : Unfailed(req[g]) /\ Unfailed(req'[g])
           /\ ~RollbackTicket(h) /\ \A w \in {"ticket", "conv"} : ~SaveFails(h, w)
  <1>1. "failed" \notin amiss /\ \A w \in {"ticket", "conv"} : ~SaveFails(h, w)
    BY Zenon DEF Records, Happens, Trouble
  <1>2. /\ \A g \in Handlers : Unfailed(req[g])
        /\ \A g \in Handlers \ {h} : req'[g] = req[g]
        /\ Unfailed(req[h]) /\ Shape(req[h]) /\ req[h] \in Request
    BY <1>1, OthersWait DEF FailureInv, Shapes, StepInv, DocsOK
  <1>3. ~DeleteMessage(h) /\ ~DeleteFails(h) /\ ~RollbackTicket(h) /\ ~RollbackConversation(h)
    BY <1>2 DEF DeleteMessage, DeleteFails, RollbackTicket, RollbackConversation, At, Unfailed
  <1>4. Unfailed(Idle)
    BY DEF Unfailed, Idle
  <1>5. ASSUME NEW w, Done(h, w) PROVE Unfailed(req'[h])
    BY <1>2, <1>4, <1>5, DoneMoves DEF Unfailed
  <1>6. ASSUME NEW pc, NEW ws, Goto(h, [req[h] EXCEPT !.pc = pc, !.writes = ws])
        PROVE  req'[h].pc = pc /\ req'[h].writes = ws
    BY <1>6, GoesOn
  <1>7. ASSUME Respond(h) PROVE Unfailed(req'[h])
    BY <1>4, <1>7, Ends
  <1>8. ASSUME Begin(h) PROVE Unfailed(req'[h])
    BY <1>8, BeginMoves DEF Unfailed
  <1>9. ASSUME LoadTicket(h) PROVE Unfailed(req'[h])
    BY <1>2, <1>4, <1>9, LoadMoves DEF Unfailed
  <1>10. ASSUME LoadConversation(h) PROVE Unfailed(req'[h])
    BY <1>2, <1>4, <1>10, ChatMoves DEF Unfailed
  <1>11. ASSUME CreateMessage(h) PROVE Unfailed(req'[h])
    <2>. DEFINE ws == {"ticket", "conv"}
    <2>1. Goto(h, [req[h] EXCEPT !.pc = "save", !.writes = ws])
      BY <1>11 DEF CreateMessage
    <2>. HIDE DEF ws
    <2>2. req'[h].pc = "save" /\ req'[h].writes = ws
      BY <1>6, <2>1
    <2>. QED
      BY <2>2 DEF ws, Unfailed
  <1>12. ASSUME SyncConversationMailbox(h) PROVE Unfailed(req'[h])
    <2>. DEFINE ws == {"ticket"}
    <2>1. Goto(h, [req[h] EXCEPT !.pc = "save", !.writes = ws])
      BY <1>12 DEF SyncConversationMailbox
    <2>. HIDE DEF ws
    <2>2. req'[h].pc = "save" /\ req'[h].writes = ws
      BY <1>6, <2>1
    <2>. QED
      BY <2>2 DEF ws, Unfailed
  <1>13. ASSUME SaveTicket(h) \/ SaveConversation(h) PROVE Unfailed(req'[h])
    BY <1>5, <1>13 DEF SaveTicket, SaveConversation
  <1>14. ASSUME ReadFails(h) \/ UnsyncConversationMailbox(h) \/ UndoFails(h) \/ Stop(h)
         PROVE  Unfailed(req'[h])
    BY <1>5, <1>7, <1>14 DEF ReadFails, UnsyncConversationMailbox, UndoFails, Stop
  <1>15. Unfailed(req'[h])
    BY <1>1, <1>3, <1>8, <1>9, <1>10, <1>11, <1>12, <1>13, <1>14, Zenon DEF Handle
  <1>16. ASSUME NEW g \in Handlers PROVE Unfailed(req'[g])
    BY <1>2, <1>15
  <1>. QED
    BY <1>1, <1>2, <1>3, <1>16

LEMMA FailureInvariant == Spec => []FailureInv
  <1>1. Init => FailureInv
    BY DEF Init, FailureInv, Unfailed, Idle
  <1>2. StepInv /\ Shapes /\ FailureInv /\ [Next]_vars => FailureInv'
    <2>1. FailureInv /\ UNCHANGED vars => FailureInv'
      BY DEF FailureInv, Unfailed, vars
    <2>2. ASSUME StepInv, Shapes, FailureInv, Next PROVE FailureInv'
      BY <2>2, FailureStep DEF Next, FailureInv, Unfailed
    <2>. QED
      BY <2>1, <2>2
  <1>. QED
    BY <1>1, <1>2, ShapesInvariant, PTL DEF Spec

----------------------------------------------------------------------------
(* Assignment. *)

(* No request remembers a later status than "new" while the ticket is new: *)
(* without rollbacks, no ticket becomes new again.                         *)
NewInv == "failed" \notin amiss =>
    /\ ticket.assignee # Nobody => ticket.status # "new"
    /\ \A h \in Handlers : req[h].doc.status # "new" => ticket.status # "new"

LEMMA SaveKeepsAssigned ==
    ASSUME NEW now, NEW loaded, NEW changed, NEW newSla,
           SettledChange(loaded, changed),
           loaded.status # "new" => now.status # "new",
           now.assignee # Nobody => now.status # "new"
    PROVE  LET saved == SavedTicket(now, loaded, changed, newSla)
           IN  /\ saved.assignee # Nobody => saved.status # "new"
               /\ now.status # "new" => saved.status # "new"
  BY DEF SettledChange, SavedTicket, SavedPath

(* An assigned ticket has left "new" (maybeMoveAssignedNewTicketToOpen),   *)
(* however the requests overlap, until a save fails: two that change the   *)
(* same ticket at once cannot assign it and leave it new.                  *)
THEOREM AssignedTicketsLeaveNew == Spec => []AssignedNotNew
  <1>1. Init => NewInv
    BY DEF Init, NewInv, NewTicket, Idle
  <1>2. StepInv /\ Shapes /\ FailureInv /\ NewInv /\ [Next]_vars => NewInv'
    <2>. SUFFICES ASSUME StepInv, Shapes, FailureInv, NewInv, [Next]_vars PROVE NewInv'
      OBVIOUS
    <2>1. CASE UNCHANGED vars
      BY <2>1 DEF vars, NewInv
    <2>2. CASE Next
      <3>. SUFFICES ASSUME "failed" \notin amiss'
                    PROVE  /\ ticket'.assignee # Nobody => ticket'.status # "new"
                           /\ \A g \in Handlers : req'[g].doc.status # "new" => ticket'.status # "new"
        BY DEF NewInv
      <3>1. Effect
        BY <2>2, StepEffect
      <3>2. PICK h \in Handlers : Handle(h) /\ Records(h)
        BY <2>2 DEF Next
      <3>3. /\ ticket.assignee # Nobody => ticket.status # "new"
            /\ \A g \in Handlers : req[g].doc.status # "new" => ticket.status # "new"
        BY <3>2 DEF NewInv, Records
      <3>4. ticket' = ticket \/ SaveTicket(h)
        BY <3>2, TicketMoves, FailureStep
      <3>5. /\ ticket'.assignee # Nobody => ticket'.status # "new"
            /\ ticket.status # "new" => ticket'.status # "new"
        <4>1. CASE ticket' = ticket
          BY <3>3, <4>1
        <4>2. CASE SaveTicket(h)
          <5>1. "ticket" \in req[h].writes /\ ticket' = SavedBy(req[h])
            BY <4>2 DEF SaveTicket, SavedBy
          <5>2. SettledChange(req[h].doc, Changed(req[h]))
            BY <5>1, ChangedFields DEF StepInv, DocsOK, RequestsOK
          <5>. QED
            BY <3>3, <5>1, <5>2, SaveKeepsAssigned DEF SavedBy
        <4>. QED
          BY <3>4, <4>1, <4>2
      <3>6. ASSUME NEW g \in Handlers, req'[g].doc.status # "new"
            PROVE  ticket'.status # "new"
        <4>1. Idle.doc.status = "new"
          BY DEF Idle, NewTicket
        <4>2. ticket.status # "new"
          BY <3>1, <3>3, <3>6, <4>1 DEF Effect
        <4>. QED
          BY <3>5, <4>2
      <3>. QED
        BY <3>5, <3>6
    <2>3. QED
      BY <2>1, <2>2
  <1>3. NewInv => AssignedNotNew
    BY DEF NewInv, AssignedNotNew, Spared
  <1>4. QED
    BY <1>1, <1>2, <1>3, ShapesInvariant, FailureInvariant, PTL DEF Spec

----------------------------------------------------------------------------
(* The first response. *)

(* No request forgets the first response, however requests overlap         *)
(* (applyFirstResponseSlaOnPublicReply), until a save fails or a change of *)
(* priority or mailbox begins the clock anew.                              *)
THEOREM FirstResponseKept == Spec => FirstResponseOnce
  <1>1. ASSUME StepInv, Shapes, FailureInv, [Next]_vars, Spared({"failed", "rebuilt"})',
               ticket.sla.responded = "set"
        PROVE  ticket'.sla.responded = "set"
    <2>1. CASE UNCHANGED vars
      BY <1>1, <2>1 DEF vars
    <2>2. CASE Next
      <3>1. PICK h \in Handlers : Handle(h) /\ Records(h)
        BY <2>2 DEF Next
      <3>2. "failed" \notin amiss' /\ "rebuilt" \notin amiss'
        BY <1>1 DEF Spared
      <3>3. ticket' = ticket \/ SaveTicket(h)
        BY <1>1, <3>1, <3>2, TicketMoves, FailureStep
      <3>4. req[h].op \notin {"priority", "mailbox"} \/ ticket'.sla = ticket.sla
        BY <3>1, <3>2, Zenon DEF Records, Happens, Trouble
      <3>5. CASE SaveTicket(h) /\ req[h].op \notin {"priority", "mailbox"}
        <4>1. "ticket" \in req[h].writes /\ ticket' = SavedBy(req[h])
          BY <3>5 DEF SaveTicket, SavedBy
        <4>2. Changed(req[h]).sla.responded \in {req[h].doc.sla.responded, "now"}
          BY <1>1, <3>5, <4>1, ChangedFields DEF StepInv, DocsOK, RequestsOK
        <4>3. ticket'.sla = SavedSla(ticket.sla, req[h].doc.sla, Changed(req[h]).sla)
          BY <3>5, <4>1 DEF SavedBy, SavedTicket
        <4>. QED
          BY <1>1, <4>2, <4>3 DEF SavedSla, SavedPath, Stored
      <3>. QED
        BY <1>1, <3>3, <3>4, <3>5
    <2>. QED
      BY <1>1, <2>1, <2>2
  <1>2. StepInv /\ Shapes /\ FailureInv /\ [Next]_vars =>
          [Spared({"failed", "rebuilt"})' /\ ticket.sla.responded = "set"
              => ticket'.sla.responded = "set"]_vars
    BY <1>1
  <1>. QED
    BY <1>2, ShapesInvariant, FailureInvariant, PTL DEF Spec, FirstResponseOnce

----------------------------------------------------------------------------
(* The counters. *)

(* A document counts no message that is not in the collection s.           *)
Within(d, s) ==
    /\ d.msgs =< s["customer_message"] + s["public_reply"] + s["internal_note"]
    /\ d.pubs =< s["public_reply"]
    /\ d.notes =< s["internal_note"]

(* What a request has loaded counts stored messages only; one that saves a *)
(* message may count that one as well, as it is stored by then; and none   *)
(* rolls a conversation back.                                              *)
CountsStored(r, s) ==
    /\ Within(r.doc, s) /\ Within(r.chat, s)
    /\ r.op = "message" /\ r.writes # {} =>
          Within(Counted(r.doc, r.type), s) /\ Within(Counted(r.chat, r.type), s)
    /\ r.writes \subseteq {"ticket", "conv"}

CountInv ==
    /\ stored \in [MessageType -> Nat]
    /\ Within(ticket, stored) /\ Within(conv, stored)
    /\ \A h \in Handlers : CountsStored(req[h], stored)

LEMMA CountedFields ==
    ASSUME NEW doc \in TicketDoc \cup ConvDoc, NEW type \in MessageType
    PROVE  /\ doc.msgs \in Nat /\ doc.pubs \in Nat /\ doc.notes \in Nat
           /\ Counted(doc, type).msgs = doc.msgs + 1
           /\ Counted(doc, type).pubs = IF type = "public_reply" THEN doc.pubs + 1 ELSE doc.pubs
           /\ Counted(doc, type).notes = IF type = "internal_note" THEN doc.notes + 1 ELSE doc.notes
  <1>1. CASE doc \in TicketDoc
    BY <1>1 DEF Counted, TicketDoc, TicketDocOf
  <1>2. CASE doc \in ConvDoc
    BY <1>2 DEF Counted, ConvDoc
  <1>. QED
    BY <1>1, <1>2

LEMMA MoreStored ==
    ASSUME NEW s \in [MessageType -> Nat], NEW type \in MessageType,
           NEW doc \in TicketDoc \cup ConvDoc, Within(doc, s)
    PROVE  /\ [s EXCEPT ![type] = @ + 1] \in [MessageType -> Nat]
           /\ Within(doc, [s EXCEPT ![type] = @ + 1])
           /\ Within(Counted(doc, type), [s EXCEPT ![type] = @ + 1])
  <1>. DEFINE t == [s EXCEPT ![type] = @ + 1]
  <1>1. /\ t \in [MessageType -> Nat]
        /\ \A m \in MessageType : t[m] = IF m = type THEN s[m] + 1 ELSE s[m]
        /\ \A m \in MessageType : s[m] \in Nat
    OBVIOUS
  <1>2. /\ "customer_message" \in MessageType /\ "public_reply" \in MessageType
        /\ "internal_note" \in MessageType
    BY DEF MessageType
  <1>. HIDE DEF t
  <1>. DEFINE c == Counted(doc, type)
  <1>3. /\ doc.msgs \in Nat /\ doc.pubs \in Nat /\ doc.notes \in Nat
        /\ c.msgs = doc.msgs + 1
        /\ c.pubs = IF type = "public_reply" THEN doc.pubs + 1 ELSE doc.pubs
        /\ c.notes = IF type = "internal_note" THEN doc.notes + 1 ELSE doc.notes
    BY CountedFields
  <1>. HIDE DEF c
  <1>4. Within(doc, t) /\ Within(c, t)
    <2>1. CASE type = "customer_message"
      BY <1>1, <1>2, <1>3, <2>1 DEF Within
    <2>2. CASE type = "public_reply"
      BY <1>1, <1>2, <1>3, <2>2 DEF Within
    <2>3. CASE type = "internal_note"
      BY <1>1, <1>2, <1>3, <2>3 DEF Within
    <2>. QED
      BY <2>1, <2>2, <2>3 DEF MessageType
  <1>. QED
    BY <1>1, <1>4 DEF t, c

(* What a request changes of the counters in memory: a message counts      *)
(* itself, and the others change none.                                     *)
LEMMA ChangedCounters ==
    ASSUME NEW r \in Request, r.op \in Ops
    PROVE  LET from == IF r.op = "message" THEN Counted(r.doc, r.type) ELSE r.doc
           IN  /\ Changed(r).msgs = from.msgs
               /\ Changed(r).pubs = from.pubs
               /\ Changed(r).notes = from.notes
  <1>. DEFINE Same(d, e) == d.msgs = e.msgs /\ d.pubs = e.pubs /\ d.notes = e.notes
  <1>1. r.doc \in TicketDocOf(FreshStamp) /\ r.type \in MessageType
    BY StampsAreFresh DEF Request
  <1>2. ASSUME NEW d \in TicketDocOf(FreshStamp), NEW next
        PROVE  Same(WithStatus(d, next), d)
    BY <1>2 DEF WithStatus, TicketDocOf
  <1>3. CASE r.op = "message"
    <2>. DEFINE c == Counted(r.doc, r.type)
               replied == [c EXCEPT !.sla = FirstResponseSla(@)]
    <2>1. c \in TicketDocOf(FreshStamp)
      BY <1>1, CountedType
    <2>. HIDE DEF c
    <2>2. c.sla \in SlaOf(FreshStamp)
      BY <2>1 DEF TicketDocOf
    <2>3. FirstResponseSla(c.sla) \in SlaOf(FreshStamp)
      BY <2>2 DEF FirstResponseSla, SlaOf, FreshStamp
    <2>4. replied \in TicketDocOf(FreshStamp) /\ Same(replied, c)
      BY <2>1, <2>3 DEF TicketDocOf
    <2>. HIDE DEF replied
    <2>5. WithMessage(r.doc, r.type)
            \in {c, WithStatus(c, "open"), WithStatus(replied, "waiting_on_customer")}
      BY <1>1 DEF WithMessage, MessageType, c, replied
    <2>6. Same(WithMessage(r.doc, r.type), c)
      <3>1. Same(WithStatus(c, "open"), c)
        BY <1>2, <2>1
      <3>2. Same(WithStatus(replied, "waiting_on_customer"), c)
        BY <1>2, <2>4
      <3>. QED
        BY <2>5, <3>1, <3>2
    <2>. QED
      BY <1>3, <2>6 DEF Changed, c
  <1>4. CASE r.op \in {"assign", "self_assign"}
    <2>1. Same(WithAssignee(r.doc, r.assignee), r.doc)
      BY <1>1 DEF WithAssignee, TicketDocOf
    <2>. QED
      BY <1>4, <2>1 DEF Changed
  <1>5. CASE r.op = "unassign"
    <2>1. Same([r.doc EXCEPT !.assignee = Nobody], r.doc)
      BY <1>1 DEF TicketDocOf
    <2>. QED
      BY <1>5, <2>1 DEF Changed
  <1>6. CASE r.op \in {"status", "reopen"}
    BY <1>1, <1>2, <1>6 DEF Changed
  <1>7. CASE r.op = "close"
    <2>1. Same(Closed(r.doc), r.doc)
      BY <1>1 DEF Closed, TicketDocOf
    <2>. QED
      BY <1>7, <2>1 DEF Changed
  <1>8. CASE r.op = "priority"
    <2>1. Same([r.doc EXCEPT !.sla = SlaSnapshot(r.fresh)], r.doc)
      BY <1>1 DEF TicketDocOf
    <2>. QED
      BY <1>8, <2>1 DEF Changed
  <1>9. CASE r.op = "mailbox"
    <2>1. Same([r.doc EXCEPT !.mailbox = r.mailbox, !.sla = SlaSnapshot(r.fresh)], r.doc)
      BY <1>1 DEF TicketDocOf
    <2>. QED
      BY <1>9, <2>1 DEF Changed
  <1>. QED
    BY <1>3, <1>4, <1>5, <1>6, <1>7, <1>8, <1>9 DEF Ops
LEMMA SaveCountsStored ==
    ASSUME NEW now, NEW loaded, NEW changed, NEW newSla, NEW s,
           Within(now, s), Within(changed, s)
    PROVE  Within(SavedTicket(now, loaded, changed, newSla), s)
  BY DEF Within, SavedTicket, SavedPath

LEMMA ConversationCountsStored ==
    ASSUME NEW now \in ConvDoc, NEW chat, NEW changed, NEW s,
           Within(now, s), Within(changed, s)
    PROVE  Within([now EXCEPT !.msgs = changed.msgs,
                              !.pubs = SavedPath(@, chat.pubs, changed.pubs),
                              !.notes = SavedPath(@, chat.notes, changed.notes)], s)
  <1>1. ASSUME NEW m, NEW p, NEW n
        PROVE  LET d == [now EXCEPT !.msgs = m, !.pubs = p, !.notes = n]
               IN  d.msgs = m /\ d.pubs = p /\ d.notes = n
    BY DEF ConvDoc
  <1>. DEFINE pubs == SavedPath(now.pubs, chat.pubs, changed.pubs)
             notes == SavedPath(now.notes, chat.notes, changed.notes)
             d == [now EXCEPT !.msgs = changed.msgs, !.pubs = pubs, !.notes = notes]
  <1>2. d.msgs = changed.msgs /\ d.pubs = pubs /\ d.notes = notes
    BY <1>1
  <1>3. pubs =< s["public_reply"] /\ notes =< s["internal_note"]
    BY DEF SavedPath, Within
  <1>. HIDE DEF pubs, notes, d
  <1>4. Within(d, s)
    BY <1>2, <1>3 DEF Within
  <1>. QED
    BY <1>4 DEF d, pubs, notes

LEMMA CountStep ==
    ASSUME StepInv, Shapes, FailureInv, CountInv, NEW h \in Handlers, Handle(h), Records(h),
           "failed" \notin amiss'
    PROVE  CountInv'
  <1>1. /\ req[h] \in Request /\ Shape(req[h]) /\ RequestOK(req[h])
        /\ CountsStored(req[h], stored) /\ req[h].pc # "delete"
        /\ req[h].doc \in TicketDoc /\ req[h].chat \in ConvDoc /\ req[h].type \in MessageType
        /\ ticket \in TicketDoc /\ conv \in ConvDoc /\ stored \in [MessageType -> Nat]
        /\ Within(ticket, stored) /\ Within(conv, stored)
    BY FailureStep DEF StepInv, DocsOK, RequestsOK, Unfailed, Shapes, CountInv, Request
  <1>2. \A g \in Handlers \ {h} : req'[g] = req[g]
    BY OthersWait
  <1>3. ASSUME stored' = stored, Within(ticket', stored), Within(conv', stored),
               CountsStored(req'[h], stored)
        PROVE  CountInv'
    <2>1. ASSUME NEW g \in Handlers PROVE CountsStored(req'[g], stored')
      BY <1>2, <1>3 DEF CountInv
    <2>2. Within(ticket', stored') /\ Within(conv', stored') /\ stored' \in [MessageType -> Nat]
      BY <1>1, <1>3
    <2>. QED
      BY <2>1, <2>2 DEF CountInv, CountsStored, Within
  <1>4. CountsStored(Idle, stored)
    <2>1. /\ Idle.doc.msgs = 0 /\ Idle.doc.pubs = 0 /\ Idle.doc.notes = 0
          /\ Idle.chat.msgs = 0 /\ Idle.chat.pubs = 0 /\ Idle.chat.notes = 0
          /\ Idle.op = "none" /\ Idle.writes = {}
      BY DEF Idle, NewTicket, NewConv
    <2>2. /\ stored["customer_message"] \in Nat /\ stored["public_reply"] \in Nat
          /\ stored["internal_note"] \in Nat
      BY <1>1 DEF MessageType
    <2>. QED
      BY <2>1, <2>2 DEF CountsStored, Within
  <1>5. ASSUME NEW w, Done(h, w) PROVE CountsStored(req'[h], stored)
    BY <1>1, <1>4, <1>5, DoneMoves DEF CountsStored, Kept
  <1>6. ASSUME Respond(h) PROVE CountsStored(req'[h], stored)
    BY <1>4, <1>6, Ends
  <1>7. CASE Begin(h)
    <2>1. CountsStored(req'[h], stored)
      BY <1>4, <1>7, BeginMoves DEF CountsStored
    <2>. QED
      BY <1>1, <1>3, <1>7, <2>1 DEF Begin
  <1>8. CASE LoadTicket(h)
    <2>1. \/ req'[h] = Idle
          \/ /\ req'[h].doc = ticket /\ req'[h].chat = req[h].chat
             /\ req'[h].op = "message" => req'[h].writes = {}
             /\ req'[h].writes \subseteq {"ticket"}
      BY <1>1, <1>8, LoadMoves DEF LoadTicket, At, Shape
    <2>2. CountsStored(req'[h], stored)
      BY <1>1, <1>4, <2>1 DEF CountsStored
    <2>. QED
      BY <1>1, <1>3, <1>8, <2>2 DEF LoadTicket
  <1>9. CASE LoadConversation(h)
    <2>1. \/ req'[h] = Idle
          \/ req'[h].doc = req[h].doc /\ req'[h].chat = conv /\ req'[h].writes = {}
      BY <1>1, <1>9, ChatMoves DEF LoadConversation, At, Shape
    <2>2. CountsStored(req'[h], stored)
      BY <1>1, <1>4, <2>1 DEF CountsStored
    <2>. QED
      BY <1>1, <1>3, <1>9, <2>2 DEF LoadConversation
  <1>10. CASE CreateMessage(h)
    <2>. DEFINE type == req[h].type
               s == [stored EXCEPT ![type] = @ + 1]
               ws == {"ticket", "conv"}
    <2>1. Goto(h, [req[h] EXCEPT !.pc = "save", !.writes = ws])
      BY <1>10 DEF CreateMessage
    <2>2. stored' = s /\ ticket' = ticket /\ conv' = conv
      BY <1>10 DEF CreateMessage
    <2>3. ASSUME NEW doc \in TicketDoc \cup ConvDoc, Within(doc, stored)
          PROVE  s \in [MessageType -> Nat] /\ Within(doc, s) /\ Within(Counted(doc, type), s)
      BY <1>1, <2>3, MoreStored
    <2>. HIDE DEF s, ws
    <2>4. ASSUME NEW pc, NEW vs, Goto(h, [req[h] EXCEPT !.pc = pc, !.writes = vs])
          PROVE  Kept(req'[h], req[h]) /\ req'[h].writes = vs
      BY <2>4, GoesOn
    <2>5. Kept(req'[h], req[h]) /\ req'[h].writes = ws
      BY <2>1, <2>4
    <2>6. CountsStored(req'[h], s)
      <3>1. /\ Within(req[h].doc, s) /\ Within(req[h].chat, s)
            /\ Within(Counted(req[h].doc, type), s) /\ Within(Counted(req[h].chat, type), s)
        BY <1>1, <2>3 DEF CountsStored
      <3>2. /\ req'[h].doc = req[h].doc /\ req'[h].chat = req[h].chat /\ req'[h].type = type
            /\ req'[h].writes = ws
        BY <2>5 DEF Kept
      <3>. QED
        BY <3>1, <3>2 DEF CountsStored, ws
    <2>7. ASSUME NEW g \in Handlers PROVE CountsStored(req'[g], s)
      <3>1. CASE g = h
        BY <2>6, <3>1
      <3>2. CASE g # h
        <4>1. /\ req'[g] = req[g] /\ CountsStored(req[g], stored) /\ req[g] \in Request
              /\ req[g].doc \in TicketDoc /\ req[g].chat \in ConvDoc
              /\ req[g].type \in MessageType
          BY <1>2, <3>2 DEF CountInv, StepInv, DocsOK, Request
        <4>2. Within(req[g].doc, s) /\ Within(req[g].chat, s)
          BY <2>3, <4>1 DEF CountsStored
        <4>3. ASSUME NEW doc \in TicketDoc \cup ConvDoc
              PROVE  /\ Counted(doc, req[g].type).msgs \in Nat
                     /\ Counted(doc, req[g].type).pubs \in Nat
                     /\ Counted(doc, req[g].type).notes \in Nat
          BY <4>1, <4>3, CountedFields
        <4>4. ASSUME NEW d, d.msgs \in Nat, d.pubs \in Nat, d.notes \in Nat, Within(d, stored)
              PROVE  Within(d, s)
          <5>1. /\ \A m \in MessageType : s[m] \in Nat /\ stored[m] \in Nat /\ stored[m] =< s[m]
                /\ "customer_message" \in MessageType /\ "public_reply" \in MessageType
                /\ "internal_note" \in MessageType
            BY <1>1 DEF s, MessageType
          <5>. QED
            BY <4>4, <5>1 DEF Within
        <4>5. req[g].op = "message" /\ req[g].writes # {} =>
                 /\ Within(Counted(req[g].doc, req[g].type), s)
                 /\ Within(Counted(req[g].chat, req[g].type), s)
          BY <4>1, <4>3, <4>4 DEF CountsStored
        <4>. QED
          BY <4>1, <4>2, <4>5 DEF CountsStored
      <3>. QED
        BY <3>1, <3>2
    <2>8. s \in [MessageType -> Nat] /\ Within(ticket, s) /\ Within(conv, s)
      BY <1>1, <2>3
    <2>9. /\ stored' \in [MessageType -> Nat]
          /\ Within(ticket', stored') /\ Within(conv', stored')
          /\ \A g \in Handlers : CountsStored(req'[g], stored')
      BY <2>2, <2>7, <2>8
    <2>. QED
      BY <2>9 DEF CountInv, CountsStored, Within
  <1>11. CASE SaveTicket(h)
    <2>1. /\ "ticket" \in req[h].writes /\ Done(h, "ticket") /\ ticket' = SavedBy(req[h])
          /\ conv' = conv /\ stored' = stored
      BY <1>11 DEF SaveTicket, SavedBy
    <2>. DEFINE from == IF req[h].op = "message" THEN Counted(req[h].doc, req[h].type)
                        ELSE req[h].doc
    <2>2. /\ Changed(req[h]).msgs = from.msgs /\ Changed(req[h]).pubs = from.pubs
          /\ Changed(req[h]).notes = from.notes
      <3>1. req[h].op \in Ops
        BY <1>1, <2>1 DEF RequestOK, Request
      <3>. QED
        BY <1>1, <3>1, ChangedCounters
    <2>3. Within(from, stored)
      BY <1>1, <2>1 DEF CountsStored
    <2>. HIDE DEF from
    <2>4. Within(Changed(req[h]), stored)
      BY <2>2, <2>3 DEF Within
    <2>5. Within(ticket', stored)
      BY <1>1, <2>1, <2>4, SaveCountsStored DEF SavedBy
    <2>. QED
      BY <1>1, <1>3, <1>5, <2>1, <2>5
  <1>12. CASE SaveConversation(h)
    <2>. DEFINE changed == Counted(req[h].chat, req[h].type)
    <2>1. /\ "conv" \in req[h].writes /\ Done(h, "conv")
          /\ conv' = [conv EXCEPT !.msgs = changed.msgs,
                                  !.pubs = SavedPath(@, req[h].chat.pubs, changed.pubs),
                                  !.notes = SavedPath(@, req[h].chat.notes, changed.notes)]
          /\ ticket' = ticket /\ stored' = stored
      BY <1>12 DEF SaveConversation
    <2>2. req[h].op = "message"
      BY <1>1, <2>1 DEF Shape, Request
    <2>3. Within(changed, stored)
      BY <1>1, <2>1, <2>2 DEF CountsStored
    <2>. HIDE DEF changed
    <2>4. Within(conv', stored)
      BY <1>1, <2>1, <2>3, ConversationCountsStored
    <2>. QED
      BY <1>1, <1>3, <1>5, <2>1, <2>4
  <1>13. CASE SyncConversationMailbox(h) \/ UnsyncConversationMailbox(h)
    <2>1. PICK m : conv' = [conv EXCEPT !.mailbox = m]
      BY <1>13 DEF SyncConversationMailbox, UnsyncConversationMailbox
    <2>2. conv'.msgs = conv.msgs /\ conv'.pubs = conv.pubs /\ conv'.notes = conv.notes
      BY <1>1, <2>1 DEF ConvDoc
    <2>3. Within(conv', stored)
      BY <1>1, <2>2 DEF Within
    <2>4. CountsStored(req'[h], stored)
      <3>1. CASE SyncConversationMailbox(h)
        <4>. DEFINE ws == {"ticket"}
        <4>1. Goto(h, [req[h] EXCEPT !.pc = "save", !.writes = ws])
          BY <3>1 DEF SyncConversationMailbox
        <4>. HIDE DEF ws
        <4>2. ASSUME NEW pc, NEW vs, Goto(h, [req[h] EXCEPT !.pc = pc, !.writes = vs])
              PROVE  Kept(req'[h], req[h]) /\ req'[h].writes = vs
          BY <4>2, GoesOn
        <4>3. Kept(req'[h], req[h]) /\ req'[h].writes = ws
          BY <4>1, <4>2
        <4>4. req[h].op = "mailbox"
          BY <1>1, <3>1 DEF SyncConversationMailbox, At, Shape
        <4>. QED
          BY <1>1, <4>3, <4>4 DEF CountsStored, Kept, ws
      <3>2. CASE UnsyncConversationMailbox(h)
        BY <1>6, <3>2 DEF UnsyncConversationMailbox
      <3>. QED
        BY <1>13, <3>1, <3>2
    <2>. QED
      BY <1>1, <1>3, <1>13, <2>3, <2>4 DEF SyncConversationMailbox, UnsyncConversationMailbox
  <1>14. CASE ReadFails(h) \/ Stop(h) \/ UndoFails(h)
    <2>1. ticket' = ticket /\ conv' = conv /\ stored' = stored
      BY <1>14 DEF ReadFails, Stop, UndoFails
    <2>2. CountsStored(req'[h], stored)
      BY <1>5, <1>6, <1>14 DEF ReadFails, Stop, UndoFails
    <2>. QED
      BY <1>1, <1>3, <2>1, <2>2
  <1>15. ~(RollbackTicket(h) \/ RollbackConversation(h))
    BY <1>1 DEF RollbackTicket, RollbackConversation, CountsStored
  <1>16. ~(\/ \E w \in {"ticket", "conv"} : SaveFails(h, w)
           \/ DeleteMessage(h) \/ DeleteFails(h))
    BY <1>1, FailureStep DEF DeleteMessage, DeleteFails, At
  <1>. QED
    BY <1>7, <1>8, <1>9, <1>10, <1>11, <1>12, <1>13, <1>14, <1>15, <1>16 DEF Handle

(* However requests overlap, until a save fails, neither the               *)
(* ticket nor its conversation counts a message that is not stored: counts *)
(* may be lost, as every request writes what it has counted on the         *)
(* documents it had loaded, but a message is stored before it is counted   *)
(* (createTicketMessage, applyMessageSummarySideEffects).                  *)
THEOREM NoMessageIsInvented == Spec => []CountersNeverExceed
  <1>. DEFINE Inv == "failed" \notin amiss => CountInv
  <1>1. Init => CountInv
    <2>. SUFFICES ASSUME Init PROVE CountInv
      OBVIOUS
    <2>1. /\ stored \in [MessageType -> Nat]
          /\ stored["customer_message"] = 0 /\ stored["public_reply"] = 0
          /\ stored["internal_note"] = 0
      BY DEF Init, MessageType
    <2>2. ASSUME NEW d, d.msgs = 0, d.pubs = 0, d.notes = 0
          PROVE  Within(d, stored)
      BY <2>1, <2>2 DEF Within
    <2>3. Within(ticket, stored) /\ Within(conv, stored)
      <3>1. ticket.msgs = 0 /\ ticket.pubs = 0 /\ ticket.notes = 0
        BY DEF Init, NewTicket
      <3>2. conv.msgs = 0 /\ conv.pubs = 0 /\ conv.notes = 0
        BY DEF Init, NewConv
      <3>. QED
        BY <2>2, <3>1, <3>2
    <2>4. CountsStored(Idle, stored)
      <3>1. /\ Idle.doc.msgs = 0 /\ Idle.doc.pubs = 0 /\ Idle.doc.notes = 0
            /\ Idle.chat.msgs = 0 /\ Idle.chat.pubs = 0 /\ Idle.chat.notes = 0
            /\ Idle.op = "none" /\ Idle.writes = {}
        BY DEF Idle, NewTicket, NewConv
      <3>. QED
        BY <2>2, <3>1 DEF CountsStored
    <2>. QED
      BY <2>1, <2>3, <2>4 DEF Init, CountInv
  <1>2. StepInv /\ Shapes /\ FailureInv /\ Inv /\ [Next]_vars => Inv'
    <2>1. Inv /\ UNCHANGED vars => Inv'
      BY DEF CountInv, CountsStored, Within, vars
    <2>2. ASSUME StepInv, Shapes, FailureInv, Inv, Next, "failed" \notin amiss' PROVE CountInv'
      <3>1. PICK h \in Handlers : Handle(h) /\ Records(h)
        BY <2>2 DEF Next
      <3>2. CountInv
        BY <2>2, <3>1 DEF Records
      <3>. QED
        BY <2>2, <3>1, <3>2, CountStep
    <2>. QED
      BY <2>1, <2>2
  <1>3. Inv => CountersNeverExceed
    BY DEF CountInv, Within, CountersNeverExceed, Total, Spared
  <1>4. Init => Inv
    BY <1>1
  <1>. HIDE DEF Inv
  <1>. QED
    BY <1>2, <1>3, <1>4, ShapesInvariant, FailureInvariant, PTL DEF Spec
----------------------------------------------------------------------------
(* The mailbox. *)

(* Between the two writes of a mailbox change the ticket is still in the   *)
(* mailbox it was loaded in; at all other times the two documents agree.   *)
MovesMailbox(r) ==
    /\ ~(r.op = "mailbox" /\ r.pc \in {"save", "unsync"}) => ticket.mailbox = conv.mailbox
    /\ r.op = "mailbox" /\ r.pc = "save" => conv.mailbox = r.mailbox
    /\ r.pc \notin {"idle", "load"} => r.doc.mailbox = ticket.mailbox

(* A request that does not change the mailbox saves the one it has loaded. *)
LEMMA ChangedMailbox ==
    ASSUME NEW r \in Request, r.op \in Ops
    PROVE  Changed(r).mailbox = IF r.op = "mailbox" THEN r.mailbox ELSE r.doc.mailbox
  <1>1. r.doc \in TicketDocOf(FreshStamp) /\ r.type \in MessageType
    BY StampsAreFresh DEF Request
  <1>2. ASSUME NEW d \in TicketDocOf(FreshStamp), NEW next
        PROVE  WithStatus(d, next).mailbox = d.mailbox
    BY <1>2 DEF WithStatus, TicketDocOf
  <1>3. CASE r.op = "message"
    <2>. DEFINE c == Counted(r.doc, r.type)
               replied == [c EXCEPT !.sla = FirstResponseSla(@)]
    <2>1. c \in TicketDocOf(FreshStamp) /\ c.mailbox = r.doc.mailbox
      BY ZenonT(40), <1>1, CountedType DEF Counted, TicketDocOf
    <2>. HIDE DEF c
    <2>2. c.sla \in SlaOf(FreshStamp)
      BY <2>1 DEF TicketDocOf
    <2>3. FirstResponseSla(c.sla) \in SlaOf(FreshStamp)
      BY <2>2 DEF FirstResponseSla, SlaOf, FreshStamp
    <2>4. replied \in TicketDocOf(FreshStamp) /\ replied.mailbox = c.mailbox
      BY <2>1, <2>3 DEF TicketDocOf
    <2>. HIDE DEF replied
    <2>5. WithMessage(r.doc, r.type)
            \in {c, WithStatus(c, "open"), WithStatus(replied, "waiting_on_customer")}
      BY <1>1 DEF WithMessage, MessageType, c, replied
    <2>6. WithMessage(r.doc, r.type).mailbox = r.doc.mailbox
      <3>1. WithStatus(c, "open").mailbox = c.mailbox
        BY <1>2, <2>1
      <3>2. WithStatus(replied, "waiting_on_customer").mailbox = c.mailbox
        BY <1>2, <2>4
      <3>. QED
        BY <2>1, <2>5, <3>1, <3>2
    <2>. QED
      BY <1>3, <2>6 DEF Changed
  <1>4. CASE r.op \in {"assign", "self_assign"}
    <2>1. WithAssignee(r.doc, r.assignee).mailbox = r.doc.mailbox
      BY <1>1 DEF WithAssignee, TicketDocOf
    <2>. QED
      BY <1>4, <2>1 DEF Changed
  <1>5. CASE r.op = "unassign"
    <2>1. [r.doc EXCEPT !.assignee = Nobody].mailbox = r.doc.mailbox
      BY <1>1 DEF TicketDocOf
    <2>. QED
      BY <1>5, <2>1 DEF Changed
  <1>6. CASE r.op \in {"status", "reopen"}
    BY <1>1, <1>2, <1>6 DEF Changed
  <1>7. CASE r.op = "close"
    <2>1. Closed(r.doc).mailbox = r.doc.mailbox
      BY <1>1 DEF Closed, TicketDocOf
    <2>. QED
      BY <1>7, <2>1 DEF Changed
  <1>8. CASE r.op = "priority"
    <2>1. [r.doc EXCEPT !.sla = SlaSnapshot(r.fresh)].mailbox = r.doc.mailbox
      BY <1>1 DEF TicketDocOf
    <2>. QED
      BY <1>8, <2>1 DEF Changed
  <1>9. CASE r.op = "mailbox"
    <2>1. [r.doc EXCEPT !.mailbox = r.mailbox, !.sla = SlaSnapshot(r.fresh)].mailbox = r.mailbox
      BY <1>1 DEF TicketDocOf
    <2>. QED
      BY <1>9, <2>1 DEF Changed
  <1>. QED
    BY <1>3, <1>4, <1>5, <1>6, <1>7, <1>8, <1>9 DEF Ops

(* A mailbox change is left half made.                                     *)
LeavesApart(h) ==
    /\ req[h].op = "mailbox" /\ ~Restores(h)
    /\ \/ ReadFails(h) /\ At(h, "save")
       \/ UndoFails(h)
       \/ Stop(h) /\ req[h].pc \in {"save", "unsync"}

LEMMA MailboxStep ==
    ASSUME NEW h \in Handlers, StepInv, Shapes, MovesMailbox(req[h]), Handle(h),
           ~LeavesApart(h)
    PROVE  MovesMailbox(req[h])'
  <1>. DEFINE Moves(r, t, c) ==
         /\ ~(r.op = "mailbox" /\ r.pc \in {"save", "unsync"}) => t = c
         /\ r.op = "mailbox" /\ r.pc = "save" => c = r.mailbox
         /\ r.pc \notin {"idle", "load"} => r.doc.mailbox = t
  <1>0. /\ req[h] \in Request /\ Shape(req[h]) /\ RequestOK(req[h])
        /\ Moves(req[h], ticket.mailbox, conv.mailbox)
        /\ ticket \in TicketDoc /\ conv \in ConvDoc /\ req[h].doc \in TicketDoc
        /\ req[h].chat \in ConvDoc
    BY DEF StepInv, DocsOK, RequestsOK, Shapes, MovesMailbox, Request
  <1>. SUFFICES Moves(req'[h], ticket'.mailbox, conv'.mailbox)
    BY DEF MovesMailbox
  <1>1. Idle.op = "none" /\ Idle.pc = "idle"
    BY DEF Idle
  <1>2. ASSUME NEW w \in req[h].writes, Done(h, w), conv'.mailbox = conv.mailbox,
               ticket'.mailbox = IF w = "ticket" /\ req[h].op = "mailbox"
                                 THEN req[h].mailbox ELSE ticket.mailbox
        PROVE  Moves(req'[h], ticket'.mailbox, conv'.mailbox)
    <2>1. req[h].op = "mailbox" => req[h].pc = "save" /\ req[h].writes = {"ticket"}
      BY <1>0, <1>2 DEF Shape, Request
    <2>2. CASE req'[h] = Idle
      BY <1>0, <1>1, <1>2, <2>1, <2>2
    <2>3. CASE /\ Kept(req'[h], req[h]) /\ req'[h].pc = req[h].pc
               /\ req[h].writes # {w} \/ req[h].pc = "delete"
      <3>1. req[h].op # "mailbox"
        BY <1>0, <1>2, <2>1, <2>3
      <3>. QED
        BY <1>0, <1>2, <2>3, <3>1 DEF Kept
    <2>. QED
      BY <1>2, <2>2, <2>3, DoneMoves
  <1>3. ASSUME NEW pc, NEW ws, Goto(h, [req[h] EXCEPT !.pc = pc, !.writes = ws])
        PROVE  Kept(req'[h], req[h]) /\ req'[h].pc = pc
    BY <1>3, GoesOn
  <1>4. CASE Begin(h)
    BY <1>0, <1>4, BeginMoves DEF Begin, Shape
  <1>5. CASE LoadTicket(h)
    BY <1>0, <1>1, <1>5, LoadMoves DEF LoadTicket, At
  <1>6. CASE LoadConversation(h)
    BY <1>0, <1>1, <1>6, ChatMoves DEF LoadConversation, At, Shape
  <1>7. CASE CreateMessage(h)
    <2>1. Kept(req'[h], req[h]) /\ req'[h].pc = "save" /\ ticket' = ticket /\ conv' = conv
      BY <1>3, <1>7 DEF CreateMessage
    <2>. QED
      BY <1>0, <1>7, <2>1 DEF CreateMessage, At, Shape, Kept
  <1>8. CASE SaveTicket(h)
    <2>1. /\ "ticket" \in req[h].writes /\ Done(h, "ticket") /\ ticket' = SavedBy(req[h])
          /\ conv' = conv
      BY <1>8 DEF SaveTicket, SavedBy
    <2>2. Changed(req[h]).mailbox = IF req[h].op = "mailbox" THEN req[h].mailbox
                                    ELSE req[h].doc.mailbox
      <3>1. req[h].op \in Ops
        BY <1>0, <2>1 DEF RequestOK, Request
      <3>. QED
        BY <1>0, <3>1, ChangedMailbox
    <2>3. ticket'.mailbox = SavedPath(ticket.mailbox, req[h].doc.mailbox, Changed(req[h]).mailbox)
      BY <2>1 DEF SavedBy, SavedTicket
    <2>4. req[h].doc.mailbox = ticket.mailbox
      BY <1>0, <2>1 DEF Shape
    <2>5. ticket'.mailbox = IF req[h].op = "mailbox" THEN req[h].mailbox ELSE ticket.mailbox
      BY <2>2, <2>3, <2>4 DEF SavedPath
    <2>. QED
      BY <1>2, <2>1, <2>5
  <1>9. CASE SaveConversation(h)
    <2>1. PICK m, p, n : conv' = [conv EXCEPT !.msgs = m, !.pubs = p, !.notes = n]
      BY <1>9 DEF SaveConversation
    <2>2. conv'.mailbox = conv.mailbox
      BY <1>0, <2>1 DEF ConvDoc
    <2>3. "conv" \in req[h].writes /\ Done(h, "conv") /\ ticket' = ticket
      BY <1>9 DEF SaveConversation
    <2>. QED
      BY <1>2, <2>2, <2>3
  <1>10. CASE \E w \in {"ticket", "conv"} : SaveFails(h, w)
    <2>1. PICK w \in {"ticket", "conv"} : SaveFails(h, w)
      BY <1>10
    <2>2. ticket' = ticket /\ conv' = conv /\ w \in req[h].writes
      BY <2>1 DEF SaveFails
    <2>3. \/ At(h, "save") /\ req[h].op = "message"
             /\ Goto(h, [req[h] EXCEPT !.pc = "delete", !.writes = req[h].writes \ {w}])
          \/ At(h, "save") /\ req[h].op = "mailbox"
             /\ Goto(h, [req[h] EXCEPT !.pc = "unsync", !.writes = {}])
          \/ Done(h, w) /\ req[h].op # "mailbox"
      BY <1>0, <2>1 DEF SaveFails, Request, Shape, At
    <2>4. CASE /\ Kept(req'[h], req[h]) /\ At(h, "save")
               /\ \/ req[h].op = "message" /\ req'[h].pc = "delete"
                  \/ req[h].op = "mailbox" /\ req'[h].pc = "unsync"
      BY <1>0, <2>2, <2>4 DEF Kept, At
    <2>5. CASE Done(h, w) /\ req[h].op # "mailbox"
      BY <1>2, <2>2, <2>5
    <2>. QED
      BY <1>3, <2>3, <2>4, <2>5
  <1>11. CASE DeleteMessage(h)
    <2>. DEFINE ws == req[h].writes \cup {"undo_ticket", "undo_conv"}
    <2>1. Goto(h, [req[h] EXCEPT !.pc = "rollback", !.writes = ws])
      BY <1>0, <1>11 DEF DeleteMessage, Request
    <2>. HIDE DEF ws
    <2>2. Kept(req'[h], req[h]) /\ req'[h].pc = "rollback" /\ ticket' = ticket /\ conv' = conv
      BY <1>3, <1>11, <2>1 DEF DeleteMessage
    <2>. QED
      BY <1>0, <1>11, <2>2 DEF DeleteMessage, At, Shape, Kept
  <1>12. CASE DeleteFails(h)
    <2>1. /\ Respond(h) \/ Goto(h, [req[h] EXCEPT !.pc = "rollback", !.writes = req[h].writes])
          /\ ticket' = ticket /\ conv' = conv
      BY <1>0, <1>12 DEF DeleteFails, Request
    <2>2. \/ req'[h] = Idle
          \/ Kept(req'[h], req[h]) /\ req'[h].pc = "rollback"
      BY <1>3, <2>1, Ends
    <2>. QED
      BY <1>0, <1>1, <1>12, <2>1, <2>2 DEF DeleteFails, At, Shape, Kept
  <1>13. CASE RollbackTicket(h)
    <2>1. /\ "undo_ticket" \in req[h].writes /\ Done(h, "undo_ticket")
          /\ ticket' = UndoneBy(req[h]) /\ conv' = conv
      BY <1>13 DEF RollbackTicket, UndoneBy
    <2>2. ticket'.mailbox = ticket.mailbox
      BY <1>0, <2>1 DEF UndoneBy, TicketDoc, TicketDocOf
    <2>. QED
      BY <1>2, <2>1, <2>2
  <1>14. CASE RollbackConversation(h)
    <2>1. /\ "undo_conv" \in req[h].writes /\ Done(h, "undo_conv")
          /\ conv' = [req[h].chat EXCEPT !.mailbox = conv.mailbox] /\ ticket' = ticket
      BY <1>14 DEF RollbackConversation
    <2>2. conv'.mailbox = conv.mailbox
      BY <1>0, <2>1 DEF ConvDoc
    <2>. QED
      BY <1>2, <2>1, <2>2
  <1>15. CASE SyncConversationMailbox(h)
    <2>. DEFINE ws == {"ticket"}
    <2>1. Goto(h, [req[h] EXCEPT !.pc = "save", !.writes = ws])
      BY <1>15 DEF SyncConversationMailbox
    <2>. HIDE DEF ws
    <2>2. Kept(req'[h], req[h]) /\ req'[h].pc = "save" /\ ticket' = ticket
      BY <1>3, <1>15, <2>1 DEF SyncConversationMailbox
    <2>3. conv'.mailbox = req[h].mailbox
      BY <1>0, <1>15 DEF SyncConversationMailbox, ConvDoc
    <2>. QED
      BY <1>0, <1>15, <2>2, <2>3 DEF SyncConversationMailbox, At, Shape, Kept
  <1>16. CASE UnsyncConversationMailbox(h)
    <2>1. req'[h] = Idle /\ ticket' = ticket
      BY <1>16, Ends DEF UnsyncConversationMailbox
    <2>2. conv'.mailbox = req[h].doc.mailbox
      BY <1>0, <1>16 DEF UnsyncConversationMailbox, ConvDoc
    <2>. QED
      BY <1>0, <1>1, <1>16, <2>1, <2>2 DEF UnsyncConversationMailbox, At
  <1>17. CASE ReadFails(h) /\ ~Restores(h)
    <2>1. req'[h] = Idle /\ ticket' = ticket /\ conv' = conv
      BY <1>17, Ends DEF ReadFails
    <2>. QED
      BY <1>0, <1>1, <1>17, <2>1 DEF ReadFails, At, LeavesApart
  <1>18. CASE Stop(h) /\ ~Restores(h)
    <2>1. req'[h] = Idle /\ ticket' = ticket /\ conv' = conv
      BY <1>18, Ends DEF Stop
    <2>. QED
      BY <1>0, <1>1, <1>18, <2>1 DEF LeavesApart
  <1>19. CASE UndoFails(h) /\ ~Restores(h)
    <2>1. /\ ticket' = ticket /\ conv' = conv
          /\ \/ \E w \in req[h].writes \cap {"undo_ticket", "undo_conv"} : Done(h, w)
             \/ req[h].pc = "unsync"
      BY <1>19 DEF UndoFails, At
    <2>2. req[h].pc # "unsync"
      BY <1>0, <1>19 DEF Shape, LeavesApart
    <2>. QED
      BY <1>2, <2>1, <2>2
  <1>. QED
    BY <1>4, <1>5, <1>6, <1>7, <1>8, <1>9, <1>10, <1>11, <1>12, <1>13, <1>14, <1>15, <1>16,
       <1>17, <1>18, <1>19 DEF Handle, Restores

(* A request whose step is no overlap is alone before and after it.        *)
Alone(h) == \A g \in Handlers \ {h} : At(g, "idle")

LEMMA LoneIsAlone ==
    ASSUME StepInv, NEW h \in Handlers, Handle(h), Records(h), "overlap" \notin amiss'
    PROVE  /\ "overlap" \notin amiss /\ Alone(h)
           /\ \A g \in Handlers \ {h} : req'[g] = req[g] /\ req'[g].pc = "idle"
  <1>1. "overlap" \notin amiss /\ Alone(h)
    BY Zenon DEF Records, Happens, Trouble, Alone
  <1>. QED
    BY <1>1, OthersWait DEF Alone, At

(* Requests that come one at a time leave the ticket and its conversation  *)
(* in the same mailbox, also when a save fails, the message cannot be      *)
(* deleted or its writes not be undone, or a save lands after the          *)
(* rollback: updateTicket moves the conversation back.  Three things are   *)
(* excepted: a failing read between the two writes, which does not reach   *)
(* that catch block; a stop of the process between them; and a failure of  *)
(* the write that moves the conversation back, which is swallowed.         *)
THEOREM MailboxesStayAligned == Spec => []MailboxAligned
  <1>. DEFINE Inv == Spared({"overlap", "apart"}) =>
                       /\ Quiet => ticket.mailbox = conv.mailbox
                       /\ \A h \in Handlers : Alone(h) => MovesMailbox(req[h])
  <1>1. Init => Inv
    <2>1. Init => ticket.mailbox = FirstMailbox /\ conv.mailbox = FirstMailbox
      BY DEF Init, NewTicket, NewConv
    <2>. QED
      BY <2>1 DEF Init, MovesMailbox, Idle
  <1>2. StepInv /\ Shapes /\ Inv /\ [Next]_vars => Inv'
    <2>1. Inv /\ UNCHANGED vars => Inv'
      BY DEF Spared, Quiet, Alone, At, MovesMailbox, vars
    <2>2. ASSUME StepInv, Shapes, Inv, Next, Spared({"overlap", "apart"})'
          PROVE  /\ Quiet' => ticket'.mailbox = conv'.mailbox
                 /\ \A g \in Handlers : Alone(g)' => MovesMailbox(req[g])'
      <3>1. PICK h \in Handlers : Handle(h) /\ Records(h)
        BY <2>2 DEF Next
      <3>2. "overlap" \notin amiss' /\ "apart" \notin amiss'
        BY <2>2 DEF Spared
      <3>3. /\ Spared({"overlap", "apart"})
            /\ ~LeavesApart(h)
        <4>1. amiss \subseteq amiss'
          BY <3>1 DEF Records
        <4>2. "apart" \in Trouble
          BY DEF Trouble
        <4>3. ~Happens(h, "apart")
          BY <3>1, <3>2, <4>2, Zenon DEF Records
        <4>4. ~LeavesApart(h)
          BY <4>3, Zenon DEF Happens, LeavesApart
        <4>. QED
          BY <3>2, <4>1, <4>4 DEF Spared
      <3>4. /\ Alone(h)
            /\ \A f \in Handlers \ {h} : req'[f].pc = "idle" /\ req'[f] = req[f]
        BY <2>2, <3>1, <3>2, LoneIsAlone
      <3>5. MovesMailbox(req[h])'
        BY <2>2, <3>1, <3>3, <3>4, MailboxStep
      <3>6. Shapes'
        BY <2>2, <3>1, ShapesStep
      <3>7. ASSUME Quiet' PROVE ticket'.mailbox = conv'.mailbox
        <4>1. req'[h].pc = "idle"
          BY <3>7 DEF Quiet, At
        <4>. QED
          BY <3>5, <4>1 DEF MovesMailbox
      <3>8. ASSUME NEW g \in Handlers, g # h, Alone(g)' PROVE MovesMailbox(req[g])'
        <4>1. req'[h].pc = "idle" /\ req'[g].pc = "idle"
          BY <3>4, <3>8 DEF Alone, At
        <4>. QED
          BY <3>5, <3>6, <4>1 DEF MovesMailbox, Shapes, Shape
      <3>. QED
        BY <3>5, <3>7, <3>8
    <2>. QED
      BY <2>1, <2>2
  <1>3. Inv => MailboxAligned
    BY DEF MailboxAligned
  <1>. HIDE DEF Inv
  <1>. QED
    BY <1>1, <1>2, <1>3, ShapesInvariant, PTL DEF Spec

----------------------------------------------------------------------------
(* Requests that come one at a time. *)

(* What each step does to its request and to the documents.                *)
Untouched == ticket' = ticket /\ conv' = conv /\ stored' = stored

WriteEnds(h, w) ==
    /\ w \in req[h].writes
    /\ \/ req'[h] = Idle /\ req[h].writes = {w} /\ req[h].pc # "delete"
       \/ /\ Kept(req'[h], req[h]) /\ req'[h].pc = req[h].pc
          /\ req'[h].writes = req[h].writes \ {w}
          /\ req[h].writes # {w} \/ req[h].pc = "delete"

LEMMA DoneEnds ==
    ASSUME StepInv, NEW h \in Handlers, NEW w \in req[h].writes, Done(h, w)
    PROVE  WriteEnds(h, w)
  <1>1. CASE req[h].writes = {w} /\ ~At(h, "delete")
    BY <1>1, Ends DEF Done, WriteEnds, At
  <1>2. CASE ~(req[h].writes = {w} /\ ~At(h, "delete"))
    <2>. DEFINE ws == req[h].writes \ {w}
    <2>1. Goto(h, [req[h] EXCEPT !.pc = req[h].pc, !.writes = ws])
      BY <1>2 DEF Done, StepInv, DocsOK, Request
    <2>. HIDE DEF ws
    <2>2. Kept(req'[h], req[h]) /\ req'[h].pc = req[h].pc /\ req'[h].writes = ws
      BY <2>1, GoesOn
    <2>. QED
      BY <1>2, <2>2 DEF WriteEnds, At, ws
  <1>. QED
    BY <1>1, <1>2

LEMMA LoadChecks ==
    ASSUME StepInv, NEW h \in Handlers, LoadTicket(h)
    PROVE  req'[h] = Idle \/ req[h].op = "message" \/ Accepted(req'[h], ticket)
  <1>. DEFINE r == [req[h] EXCEPT !.doc = ticket]
  <1>1. /\ r.op = req[h].op /\ r.assignee = req[h].assignee /\ r.actor = req[h].actor
        /\ r.status = req[h].status /\ r.mailbox = req[h].mailbox /\ r.fresh = req[h].fresh
    BY DEF StepInv, DocsOK, Request
  <1>2. req[h].op # "message" /\ ~Accepted(r, ticket) => Respond(h)
    <2>. HIDE DEF r
    <2>1. r.op = req[h].op
      BY <1>1
    <2>. QED
      BY <2>1 DEF LoadTicket, r
  <1>. HIDE DEF r
  <1>3. ASSUME req'[h] # Idle PROVE req'[h].op = r.op /\ req'[h].mailbox = r.mailbox /\ Asked(req'[h], r)
    <2>1. req'[h].op = req[h].op /\ req'[h].mailbox = req[h].mailbox /\ Asked(req'[h], req[h])
      BY <1>3, LoadMoves
    <2>. QED
      BY <1>1, <2>1 DEF Asked
  <1>4. ASSUME req'[h] # Idle PROVE Accepted(req'[h], ticket) = Accepted(r, ticket)
    BY <1>3, <1>4 DEF Accepted, Asked
  <1>. QED
    BY <1>2, <1>4, Ends

LEMMA WriteMoves ==
    ASSUME StepInv, Shapes, NEW h \in Handlers
    PROVE  /\ CreateMessage(h) =>
                /\ req[h].pc = "create" /\ Kept(req'[h], req[h]) /\ req'[h].pc = "save"
                /\ req'[h].writes = {"ticket", "conv"} /\ ticket' = ticket /\ conv' = conv
                /\ stored' = [stored EXCEPT ![req[h].type] = @ + 1]
           /\ SaveTicket(h) =>
                /\ WriteEnds(h, "ticket") /\ ticket' = SavedBy(req[h])
                /\ conv' = conv /\ stored' = stored
           /\ SaveConversation(h) =>
                /\ WriteEnds(h, "conv") /\ req[h].op = "message"
                /\ ticket' = ticket /\ stored' = stored
           /\ SyncConversationMailbox(h) =>
                /\ req[h].pc = "sync" /\ Kept(req'[h], req[h]) /\ req'[h].pc = "save"
                /\ req'[h].writes = {"ticket"} /\ ticket' = ticket /\ stored' = stored
                /\ conv' = [conv EXCEPT !.mailbox = req[h].mailbox]
  <1>0. /\ req[h] \in Request /\ Shape(req[h])
    BY DEF Shapes, StepInv, DocsOK
  <1>1. ASSUME NEW pc, NEW ws, Goto(h, [req[h] EXCEPT !.pc = pc, !.writes = ws])
        PROVE  Kept(req'[h], req[h]) /\ req'[h].pc = pc /\ req'[h].writes = ws
    BY <1>1, GoesOn
  <1>2. ASSUME CreateMessage(h)
        PROVE  Kept(req'[h], req[h]) /\ req'[h].pc = "save" /\ req'[h].writes = {"ticket", "conv"}
    <2>. DEFINE ws == {"ticket", "conv"}
    <2>1. Goto(h, [req[h] EXCEPT !.pc = "save", !.writes = ws])
      BY <1>2 DEF CreateMessage
    <2>. HIDE DEF ws
    <2>2. Kept(req'[h], req[h]) /\ req'[h].pc = "save" /\ req'[h].writes = ws
      BY <1>1, <2>1
    <2>. QED
      BY <2>2 DEF ws
  <1>3. ASSUME SyncConversationMailbox(h)
        PROVE  Kept(req'[h], req[h]) /\ req'[h].pc = "save" /\ req'[h].writes = {"ticket"}
    <2>. DEFINE ws == {"ticket"}
    <2>1. Goto(h, [req[h] EXCEPT !.pc = "save", !.writes = ws])
      BY <1>3 DEF SyncConversationMailbox
    <2>. HIDE DEF ws
    <2>2. Kept(req'[h], req[h]) /\ req'[h].pc = "save" /\ req'[h].writes = ws
      BY <1>1, <2>1
    <2>. QED
      BY <2>2 DEF ws
  <1>4. ASSUME SaveTicket(h) PROVE WriteEnds(h, "ticket")
    BY <1>4, DoneEnds DEF SaveTicket
  <1>5. ASSUME SaveConversation(h) PROVE WriteEnds(h, "conv") /\ req[h].op = "message"
    BY <1>0, <1>5, DoneEnds DEF SaveConversation, Shape, Request
  <1>6. CreateMessage(h) =>
          /\ req[h].pc = "create" /\ ticket' = ticket /\ conv' = conv
          /\ stored' = [stored EXCEPT ![req[h].type] = @ + 1]
    BY DEF CreateMessage, At
  <1>7. SaveTicket(h) => ticket' = SavedBy(req[h]) /\ conv' = conv /\ stored' = stored
    BY DEF SaveTicket, SavedBy
  <1>8. SaveConversation(h) => ticket' = ticket /\ stored' = stored
    BY DEF SaveConversation
  <1>9. SyncConversationMailbox(h) =>
          /\ req[h].pc = "sync" /\ ticket' = ticket /\ stored' = stored
          /\ conv' = [conv EXCEPT !.mailbox = req[h].mailbox]
    BY DEF SyncConversationMailbox, At
  <1>. QED
    BY <1>2, <1>3, <1>4, <1>5, <1>6, <1>7, <1>8, <1>9

LEMMA FailureMoves ==
    ASSUME StepInv, Shapes, NEW h \in Handlers
    PROVE  /\ \A w \in {"ticket", "conv"} : SaveFails(h, w) =>
                /\ Untouched /\ w \in req[h].writes
                /\ \/ /\ req[h].pc = "save" /\ req[h].op = "message" /\ Kept(req'[h], req[h])
                      /\ req'[h].pc = "delete" /\ req'[h].writes = req[h].writes \ {w}
                   \/ /\ req[h].pc = "save" /\ req[h].op = "mailbox" /\ Kept(req'[h], req[h])
                      /\ req'[h].pc = "unsync" /\ req'[h].writes = {}
                   \/ /\ WriteEnds(h, w)
                      /\ req[h].op = "message" => req[h].pc \in {"delete", "rollback"}
           /\ DeleteMessage(h) =>
                /\ req[h].pc = "delete" /\ Kept(req'[h], req[h]) /\ req'[h].pc = "rollback"
                /\ req'[h].writes = req[h].writes \cup {"undo_ticket", "undo_conv"}
                /\ stored' = [stored EXCEPT ![req[h].type] = @ - 1]
                /\ ticket' = ticket /\ conv' = conv
           /\ DeleteFails(h) =>
                /\ Untouched /\ req[h].pc = "delete"
                /\ \/ req'[h] = Idle
                   \/ /\ Kept(req'[h], req[h]) /\ req'[h].pc = "rollback"
                      /\ req'[h].writes = req[h].writes
           /\ RollbackTicket(h) =>
                /\ WriteEnds(h, "undo_ticket") /\ req[h].pc \in {"delete", "rollback"}
                /\ ticket' = UndoneBy(req[h]) /\ conv' = conv /\ stored' = stored
           /\ RollbackConversation(h) =>
                /\ WriteEnds(h, "undo_conv") /\ req[h].pc \in {"delete", "rollback"}
                /\ conv' = [req[h].chat EXCEPT !.mailbox = conv.mailbox]
                /\ ticket' = ticket /\ stored' = stored
           /\ ReadFails(h) =>
                /\ Untouched /\ req'[h] = Idle
                /\ \/ req[h].pc \in {"load", "chat", "create", "sync"}
                   \/ req[h].pc = "save" /\ req[h].op \in {"priority", "mailbox"}
           /\ UnsyncConversationMailbox(h) =>
                /\ req[h].pc = "unsync" /\ req'[h] = Idle
                /\ conv' = [conv EXCEPT !.mailbox = req[h].doc.mailbox]
                /\ ticket' = ticket /\ stored' = stored
           /\ UndoFails(h) =>
                /\ Untouched
                /\ \/ \E w \in {"undo_ticket", "undo_conv"} :
                        WriteEnds(h, w) /\ req[h].pc \in {"delete", "rollback"}
                   \/ req[h].pc = "unsync" /\ req'[h] = Idle
           /\ Stop(h) => Untouched /\ req[h].pc # "idle" /\ req'[h] = Idle
  <1>0. /\ req[h] \in Request /\ Shape(req[h])
    BY DEF Shapes, StepInv, DocsOK
  <1>1. ASSUME NEW pc, NEW ws, Goto(h, [req[h] EXCEPT !.pc = pc, !.writes = ws])
        PROVE  Kept(req'[h], req[h]) /\ req'[h].pc = pc /\ req'[h].writes = ws
    BY <1>1, GoesOn
  <1>2. ASSUME NEW w \in {"ticket", "conv"}, SaveFails(h, w)
        PROVE  /\ Untouched /\ w \in req[h].writes
               /\ \/ /\ req[h].pc = "save" /\ req[h].op = "message" /\ Kept(req'[h], req[h])
                     /\ req'[h].pc = "delete" /\ req'[h].writes = req[h].writes \ {w}
                  \/ /\ req[h].pc = "save" /\ req[h].op = "mailbox" /\ Kept(req'[h], req[h])
                     /\ req'[h].pc = "unsync" /\ req'[h].writes = {}
                  \/ /\ WriteEnds(h, w)
                     /\ req[h].op = "message" => req[h].pc \in {"delete", "rollback"}
    <2>. DEFINE ws == req[h].writes \ {w}
               none == {}
    <2>1. /\ w \in req[h].writes
          /\ \/ /\ At(h, "save") /\ req[h].op = "message"
                /\ Goto(h, [req[h] EXCEPT !.pc = "delete", !.writes = ws])
             \/ /\ At(h, "save") /\ req[h].op = "mailbox"
                /\ Goto(h, [req[h] EXCEPT !.pc = "unsync", !.writes = none])
             \/ (~At(h, "save") \/ req[h].op \notin {"message", "mailbox"}) /\ Done(h, w)
      BY <1>0, <1>2 DEF SaveFails, Request
    <2>2. Untouched
      BY <1>2 DEF SaveFails, Untouched
    <2>. HIDE DEF ws, none
    <2>3. CASE At(h, "save") /\ Goto(h, [req[h] EXCEPT !.pc = "delete", !.writes = ws]) /\ req[h].op = "message"
      <3>1. Kept(req'[h], req[h]) /\ req'[h].pc = "delete" /\ req'[h].writes = ws
        BY <1>1, <2>3
      <3>. QED
        BY <2>1, <2>2, <2>3, <3>1 DEF At, ws
    <2>4. CASE At(h, "save") /\ Goto(h, [req[h] EXCEPT !.pc = "unsync", !.writes = none]) /\ req[h].op = "mailbox"
      <3>1. Kept(req'[h], req[h]) /\ req'[h].pc = "unsync" /\ req'[h].writes = none
        BY <1>1, <2>4
      <3>. QED
        BY <2>1, <2>2, <2>4, <3>1 DEF At, none
    <2>5. CASE (~At(h, "save") \/ req[h].op \notin {"message", "mailbox"}) /\ Done(h, w)
      <3>1. WriteEnds(h, w)
        BY <2>1, <2>5, DoneEnds
      <3>2. req[h].op = "message" => req[h].pc \in {"delete", "rollback"}
        BY <1>0, <2>1, <2>5 DEF At, Shape, Request
      <3>. QED
        BY <2>1, <2>2, <3>1, <3>2
    <2>. QED
      BY <2>1, <2>3, <2>4, <2>5
  <1>3. ASSUME DeleteMessage(h)
        PROVE  /\ Kept(req'[h], req[h]) /\ req'[h].pc = "rollback"
               /\ req'[h].writes = req[h].writes \cup {"undo_ticket", "undo_conv"}
    <2>. DEFINE ws == req[h].writes \cup {"undo_ticket", "undo_conv"}
    <2>1. Goto(h, [req[h] EXCEPT !.pc = "rollback", !.writes = ws])
      BY <1>0, <1>3 DEF DeleteMessage, Request
    <2>. HIDE DEF ws
    <2>2. Kept(req'[h], req[h]) /\ req'[h].pc = "rollback" /\ req'[h].writes = ws
      BY <1>1, <2>1
    <2>. QED
      BY <2>2 DEF ws
  <1>4. ASSUME DeleteFails(h)
        PROVE  \/ req'[h] = Idle
               \/ /\ Kept(req'[h], req[h]) /\ req'[h].pc = "rollback"
                  /\ req'[h].writes = req[h].writes
    <2>1. Respond(h) \/ Goto(h, [req[h] EXCEPT !.pc = "rollback", !.writes = req[h].writes])
      BY <1>0, <1>4 DEF DeleteFails, Request
    <2>2. Respond(h) => req'[h] = Idle
      BY Ends
    <2>. QED
      BY <1>1, <2>1, <2>2
  <1>5. ASSUME NEW w \in {"undo_ticket", "undo_conv"}, w \in req[h].writes, Done(h, w)
        PROVE  WriteEnds(h, w) /\ req[h].pc \in {"delete", "rollback"}
    BY <1>0, <1>5, DoneEnds DEF Shape, Request
  <1>6. ReadFails(h) \/ UnsyncConversationMailbox(h) => req'[h] = Idle
    BY Ends DEF ReadFails, UnsyncConversationMailbox
  <1>7. /\ DeleteMessage(h) => /\ req[h].pc = "delete" /\ ticket' = ticket /\ conv' = conv
                               /\ stored' = [stored EXCEPT ![req[h].type] = @ - 1]
        /\ DeleteFails(h) => Untouched /\ req[h].pc = "delete"
    BY DEF DeleteMessage, DeleteFails, At, Untouched
  <1>8. RollbackTicket(h) => /\ "undo_ticket" \in req[h].writes /\ Done(h, "undo_ticket")
                             /\ ticket' = UndoneBy(req[h]) /\ conv' = conv /\ stored' = stored
    BY DEF RollbackTicket, UndoneBy
  <1>9. RollbackConversation(h) =>
          /\ "undo_conv" \in req[h].writes /\ Done(h, "undo_conv")
          /\ conv' = [req[h].chat EXCEPT !.mailbox = conv.mailbox]
          /\ ticket' = ticket /\ stored' = stored
    BY DEF RollbackConversation
  <1>10. ReadFails(h) =>
           /\ Untouched
           /\ \/ req[h].pc \in {"load", "chat", "create", "sync"}
              \/ req[h].pc = "save" /\ req[h].op \in {"priority", "mailbox"}
    BY DEF ReadFails, Untouched, At
  <1>11. UnsyncConversationMailbox(h) =>
           /\ req[h].pc = "unsync" /\ conv' = [conv EXCEPT !.mailbox = req[h].doc.mailbox]
           /\ ticket' = ticket /\ stored' = stored
    BY DEF UnsyncConversationMailbox, At
  <1>12. ASSUME UndoFails(h)
         PROVE  /\ Untouched
                /\ \/ \E w \in {"undo_ticket", "undo_conv"} :
                        WriteEnds(h, w) /\ req[h].pc \in {"delete", "rollback"}
                   \/ req[h].pc = "unsync" /\ req'[h] = Idle
    <2>1. Untouched
      BY <1>12 DEF UndoFails, Untouched
    <2>2. \/ \E w \in {"undo_ticket", "undo_conv"} : w \in req[h].writes /\ Done(h, w)
          \/ req[h].pc = "unsync" /\ Respond(h)
      BY <1>12 DEF UndoFails, At
    <2>. QED
      BY <1>5, <2>1, <2>2, Ends
  <1>13. Stop(h) => Untouched /\ req[h].pc # "idle" /\ req'[h] = Idle
    BY Ends DEF Stop, Untouched, At
  <1>. QED
    BY <1>2, <1>3, <1>4, <1>5, <1>6, <1>7, <1>8, <1>9, <1>10, <1>11, <1>12, <1>13

(* Every message that a request may still delete is stored.                *)
Deletable(r, type) == r.op = "message" /\ r.type = type /\ r.pc \in {"save", "delete"}
Deleters(type) == {h \in Handlers : Deletable(req[h], type)}
StoredInv ==
    /\ stored \in [MessageType -> Nat]
    /\ \A type \in MessageType : Cardinality(Deleters(type)) =< stored[type]

LEMMA DeletersCount ==
    ASSUME StepInv, NEW h \in Handlers, Handle(h), NEW type \in MessageType
    PROVE  /\ Cardinality(Deleters(type)) \in Nat /\ Cardinality(Deleters(type)') \in Nat
           /\ Cardinality(Deleters(type)') =< Cardinality(Deleters(type)) + 1
           /\ (Deletable(req'[h], type) => Deletable(req[h], type))
                => Cardinality(Deleters(type)') =< Cardinality(Deleters(type))
           /\ Deletable(req[h], type) /\ ~Deletable(req'[h], type)
                => /\ Cardinality(Deleters(type)) >= 1
                   /\ Cardinality(Deleters(type)') =< Cardinality(Deleters(type)) - 1
  <1>. DEFINE now == Deleters(type)
             next == {g \in Handlers : Deletable(req'[g], type)}
  <1>1. now \subseteq Handlers /\ next \subseteq Handlers
    BY DEF Deleters
  <1>2. /\ Deleters(type)' = next
        /\ \A g \in Handlers \ {h} : g \in now <=> g \in next
        /\ h \in now <=> Deletable(req[h], type)
        /\ h \in next <=> Deletable(req'[h], type)
    BY OthersWait DEF Deleters, Deletable
  <1>. HIDE DEF now, next
  <1>3. IsFiniteSet(now) /\ IsFiniteSet(next)
    BY <1>1, FS_Subset, TicketAssumption
  <1>4. Cardinality(now) \in Nat /\ Cardinality(next) \in Nat
    BY <1>3, FS_CardinalityType
  <1>5. /\ IsFiniteSet(now \cup {h})
        /\ Cardinality(now \cup {h}) = IF h \in now THEN Cardinality(now) ELSE Cardinality(now) + 1
    BY <1>3, FS_AddElement
  <1>6. Cardinality(next) =< Cardinality(now \cup {h})
    <2>1. next \subseteq now \cup {h}
      BY <1>1, <1>2
    <2>. QED
      BY <1>5, <2>1, FS_Subset
  <1>7. h \notin next \/ h \in now => Cardinality(next) =< Cardinality(now)
    <2>1. h \notin next \/ h \in now => next \subseteq now
      BY <1>1, <1>2
    <2>. QED
      BY <1>3, <2>1, FS_Subset
  <1>8. h \in now /\ h \notin next
          => Cardinality(now) >= 1 /\ Cardinality(next) =< Cardinality(now) - 1
    <2>1. /\ IsFiniteSet(now \ {h})
          /\ Cardinality(now \ {h}) = IF h \in now THEN Cardinality(now) - 1 ELSE Cardinality(now)
          /\ Cardinality(now \ {h}) \in Nat
      BY <1>3, FS_RemoveElement, FS_CardinalityType
    <2>2. h \notin next => next \subseteq now \ {h}
      BY <1>1, <1>2
    <2>3. h \notin next => Cardinality(next) =< Cardinality(now \ {h})
      BY <2>1, <2>2, FS_Subset
    <2>. QED
      BY <1>4, <2>1, <2>3
  <1>9. now = Deleters(type)
    BY DEF now
  <1>. QED
    BY <1>2, <1>4, <1>5, <1>6, <1>7, <1>8, <1>9

LEMMA StoredStep ==
    ASSUME StepInv, Shapes, StoredInv, NEW h \in Handlers, Handle(h)
    PROVE  StoredInv'
  <1>0. /\ req[h] \in Request /\ Shape(req[h]) /\ req[h].type \in MessageType
        /\ stored \in [MessageType -> Nat]
    BY DEF Shapes, StepInv, DocsOK, StoredInv, Request
  <1>1. ASSUME stored' = stored,
               NEW pc, pc = req'[h].pc,
               \/ pc \notin {"save", "delete"}
               \/ req'[h].op # "message"
               \/ Kept(req'[h], req[h]) /\ req[h].pc \in {"save", "delete"}
        PROVE  StoredInv'
    <2>1. ASSUME NEW type \in MessageType
          PROVE  Cardinality(Deleters(type)') =< stored'[type]
      <3>1. Deletable(req'[h], type) => Deletable(req[h], type)
        BY <1>1 DEF Deletable, Kept
      <3>2. Cardinality(Deleters(type)') =< Cardinality(Deleters(type))
        BY <3>1, DeletersCount
      <3>3. /\ Cardinality(Deleters(type)') \in Nat /\ Cardinality(Deleters(type)) \in Nat
            /\ Cardinality(Deleters(type)) =< stored[type] /\ stored[type] \in Nat
        BY <1>0, DeletersCount DEF StoredInv
      <3>. QED
        BY <1>1, <3>2, <3>3
    <2>. QED
      BY <1>0, <1>1, <2>1 DEF StoredInv
  <1>2. Idle.pc = "idle"
    BY DEF Idle
  <1>3. ASSUME NEW w, WriteEnds(h, w), stored' = stored PROVE StoredInv'
    <2>1. req'[h] = Idle \/ (Kept(req'[h], req[h]) /\ req'[h].pc = req[h].pc)
      BY <1>3 DEF WriteEnds
    <2>. QED
      BY <1>1, <1>2, <1>3, <2>1
  <1>4. CASE Begin(h)
    BY <1>1, <1>4, BeginMoves DEF Begin
  <1>5. CASE LoadTicket(h)
    <2>1. req'[h].pc \notin {"save", "delete"} \/ req'[h].op # "message"
      BY <1>2, <1>5, LoadMoves
    <2>. QED
      BY <1>1, <1>5, <2>1 DEF LoadTicket
  <1>6. CASE LoadConversation(h)
    <2>1. req'[h].pc \notin {"save", "delete"}
      BY <1>2, <1>6, ChatMoves
    <2>. QED
      BY <1>1, <1>6, <2>1 DEF LoadConversation
  <1>7. CASE CreateMessage(h)
    <2>1. /\ Kept(req'[h], req[h]) /\ req[h].pc = "create"
          /\ stored' = [stored EXCEPT ![req[h].type] = @ + 1]
      BY <1>7, WriteMoves
    <2>2. /\ stored' \in [MessageType -> Nat]
          /\ \A type \in MessageType :
                stored'[type] = IF type = req[h].type THEN stored[type] + 1 ELSE stored[type]
      BY <1>0, <2>1
    <2>3. ASSUME NEW type \in MessageType
          PROVE  Cardinality(Deleters(type)') =< stored'[type]
      <3>1. Deletable(req'[h], type) => type = req[h].type
        BY <2>1 DEF Deletable, Kept
      <3>2. /\ Cardinality(Deleters(type)') \in Nat /\ Cardinality(Deleters(type)) \in Nat
            /\ Cardinality(Deleters(type)) =< stored[type] /\ stored[type] \in Nat
            /\ Cardinality(Deleters(type)') =< Cardinality(Deleters(type)) + 1
            /\ type # req[h].type => Cardinality(Deleters(type)') =< Cardinality(Deleters(type))
        BY <1>0, <3>1, DeletersCount DEF StoredInv
      <3>. QED
        BY <2>2, <3>2
    <2>. QED
      BY <2>2, <2>3 DEF StoredInv
  <1>8. CASE DeleteMessage(h)
    <2>1. /\ Kept(req'[h], req[h]) /\ req[h].pc = "delete" /\ req'[h].pc = "rollback"
          /\ stored' = [stored EXCEPT ![req[h].type] = @ - 1] /\ req[h].op = "message"
      BY <1>0, <1>8, FailureMoves DEF Shape
    <2>0. PICK gone \in MessageType : gone = req[h].type
      BY <1>0
    <2>2. /\ Deletable(req[h], gone)
          /\ \A type \in MessageType : ~Deletable(req'[h], type)
      BY <2>0, <2>1 DEF Deletable
    <2>3. /\ Cardinality(Deleters(gone)) >= 1
          /\ Cardinality(Deleters(gone)') =< Cardinality(Deleters(gone)) - 1
      BY <2>2, DeletersCount
    <2>4. /\ \A type \in MessageType : stored[type] \in Nat
          /\ Cardinality(Deleters(gone)) =< stored[gone]
          /\ Cardinality(Deleters(gone)) \in Nat
      BY <1>0, DeletersCount DEF StoredInv
    <2>5. /\ stored' \in [MessageType -> Nat]
          /\ \A type \in MessageType :
                stored'[type] = IF type = gone THEN stored[type] - 1 ELSE stored[type]
      BY <1>0, <2>0, <2>1, <2>3, <2>4
    <2>6. ASSUME NEW type \in MessageType
          PROVE  Cardinality(Deleters(type)') =< stored'[type]
      <3>1. /\ Cardinality(Deleters(type)') \in Nat /\ Cardinality(Deleters(type)) \in Nat
            /\ Cardinality(Deleters(type)) =< stored[type] /\ stored[type] \in Nat
            /\ Cardinality(Deleters(type)') =< Cardinality(Deleters(type))
        BY <1>0, <2>2, DeletersCount DEF StoredInv
      <3>2. CASE type = gone
        BY <2>3, <2>5, <3>1, <3>2
      <3>3. CASE type # gone
        BY <2>5, <3>1, <3>3
      <3>. QED
        BY <3>2, <3>3
    <2>. QED
      BY <2>5, <2>6 DEF StoredInv
  <1>9. CASE SaveTicket(h)
    <2>1. WriteEnds(h, "ticket") /\ stored' = stored
      BY <1>9, WriteMoves
    <2>. QED
      BY <1>3, <2>1
  <1>10. CASE SaveConversation(h)
    <2>1. WriteEnds(h, "conv") /\ stored' = stored
      BY <1>10, WriteMoves
    <2>. QED
      BY <1>3, <2>1
  <1>11. CASE RollbackTicket(h)
    <2>1. WriteEnds(h, "undo_ticket") /\ stored' = stored
      BY <1>11, FailureMoves
    <2>. QED
      BY <1>3, <2>1
  <1>12. CASE RollbackConversation(h)
    <2>1. WriteEnds(h, "undo_conv") /\ stored' = stored
      BY <1>12, FailureMoves
    <2>. QED
      BY <1>3, <2>1
  <1>13. CASE \E w \in {"ticket", "conv"} : SaveFails(h, w)
    <2>1. PICK w \in {"ticket", "conv"} : SaveFails(h, w)
      BY <1>13
    <2>2. /\ stored' = stored
          /\ \/ Kept(req'[h], req[h]) /\ req[h].pc = "save"
             \/ WriteEnds(h, w)
      BY <2>1, FailureMoves DEF Untouched
    <2>. QED
      BY <1>1, <1>3, <2>2
  <1>14. CASE DeleteFails(h)
    <2>1. stored' = stored /\ req'[h].pc \in {"idle", "rollback"}
      BY <1>2, <1>14, FailureMoves DEF Untouched
    <2>. QED
      BY <1>1, <2>1
  <1>15. CASE SyncConversationMailbox(h)
    <2>1. stored' = stored /\ req'[h].op # "message"
      BY <1>0, <1>15, WriteMoves DEF Kept, Shape
    <2>. QED
      BY <1>1, <2>1
  <1>16. CASE ReadFails(h) \/ UnsyncConversationMailbox(h) \/ Stop(h)
    <2>1. stored' = stored /\ req'[h].pc = "idle"
      BY <1>2, <1>16, FailureMoves DEF Untouched
    <2>. QED
      BY <1>1, <2>1
  <1>17. CASE UndoFails(h)
    <2>1. /\ stored' = stored
          /\ req'[h].pc = "idle" \/ \E w \in {"undo_ticket", "undo_conv"} : WriteEnds(h, w)
      BY <1>2, <1>17, FailureMoves DEF Untouched
    <2>. QED
      BY <1>1, <1>3, <2>1
  <1>. QED
    BY <1>4, <1>5, <1>6, <1>7, <1>8, <1>9, <1>10, <1>11, <1>12, <1>13, <1>14, <1>15, <1>16,
       <1>17 DEF Handle

LEMMA StoredInvariant == Spec => []StoredInv
  <1>1. Init => StoredInv
    <2>. SUFFICES ASSUME Init PROVE StoredInv
      OBVIOUS
    <2>1. stored \in [MessageType -> Nat] /\ \A type \in MessageType : stored[type] = 0
      BY DEF Init
    <2>2. \A type \in MessageType : Deleters(type) = {}
      BY DEF Init, Deleters, Deletable, Idle
    <2>. QED
      BY <2>1, <2>2, FS_EmptySet DEF StoredInv
  <1>2. StepInv /\ Shapes /\ StoredInv /\ [Next]_vars => StoredInv'
    <2>1. StoredInv /\ UNCHANGED vars => StoredInv'
      BY DEF StoredInv, Deleters, Deletable, vars
    <2>. QED
      BY <2>1, StoredStep DEF Next
  <1>. QED
    BY <1>1, <1>2, ShapesInvariant, PTL DEF Spec

(* The ticket as a request saves it that has it in memory as it is.        *)
SavedOn(r) == SavedTicket(r.doc, r.doc, Changed(r), r.op \in {"priority", "mailbox"})

(* A clock that follows a status.                                          *)
Follows(sla, status) ==
    /\ sla.resolved # "unset" <=> status \in ResolvedStatus
    /\ sla.hasResolution =>
          /\ sla.running # "unset" <=> status \in ActiveStatus
          /\ sla.paused <=> status = "waiting_on_customer"

LEMMA SavedAlone ==
    ASSUME NEW r \in Request, r.op \in Ops
    PROVE  /\ SavedOn(r).status = Changed(r).status
           /\ SavedOn(r).assignee = Changed(r).assignee
           /\ SavedOn(r).mailbox = Changed(r).mailbox
           /\ SavedOn(r).msgs = Changed(r).msgs /\ SavedOn(r).pubs = Changed(r).pubs
           /\ SavedOn(r).notes = Changed(r).notes
           /\ Follows(Changed(r).sla, Changed(r).status) => Follows(SavedOn(r).sla, SavedOn(r).status)
  <1>1. /\ Changed(r) \in TicketDocOf(FreshStamp)
        /\ Changed(r).sla \in SlaOf(FreshStamp)
    BY ChangedType DEF TicketDocOf
  <1>2. \A loaded, changed : SavedPath(loaded, loaded, changed) = changed
    BY DEF SavedPath
  <1>3. /\ SavedOn(r).status = Changed(r).status
        /\ SavedOn(r).assignee = Changed(r).assignee
        /\ SavedOn(r).mailbox = Changed(r).mailbox
        /\ SavedOn(r).msgs = Changed(r).msgs /\ SavedOn(r).pubs = Changed(r).pubs
        /\ SavedOn(r).notes = Changed(r).notes
        /\ SavedOn(r).sla \in {Changed(r).sla, SavedSla(r.doc.sla, r.doc.sla, Changed(r).sla)}
    BY <1>2 DEF SavedOn, SavedTicket
  <1>4. LET merged == SavedSla(r.doc.sla, r.doc.sla, Changed(r).sla)
        IN  /\ merged.hasResolution = Changed(r).sla.hasResolution
            /\ merged.paused = Changed(r).sla.paused
            /\ merged.running # "unset" <=> Changed(r).sla.running # "unset"
            /\ merged.resolved # "unset" <=> Changed(r).sla.resolved # "unset"
    BY <1>1, <1>2 DEF SavedSla, Stored
  <1>. QED
    BY <1>3, <1>4 DEF Follows

(* What a request that is alone has checked on the ticket.                 *)
Checked(r) ==
    /\ r.op \in {"assign", "self_assign", "unassign", "status", "close"} /\ "ticket" \in r.writes
          => Accepted(r, r.doc)
    /\ r.op = "message" /\ r.pc \in {"create", "save", "delete", "rollback"} =>
          r.doc.status # "closed" \/ r.type = "internal_note"

LEMMA KeptSame ==
    ASSUME NEW r, NEW s, Kept(s, r)
    PROVE  /\ SavedOn(s) = SavedOn(r) /\ Accepted(s, s.doc) = Accepted(r, r.doc)
           /\ s.doc = r.doc /\ s.op = r.op /\ s.type = r.type /\ s.chat = r.chat
  <1>1. Changed(s) = Changed(r)
    BY DEF Changed, Kept, Asked
  <1>. QED
    BY <1>1 DEF SavedOn, Accepted, Kept, Asked

LEMMA NoteFields ==
    ASSUME NEW r \in Request, r.op = "message"
    PROVE  r.type = "internal_note" => Changed(r).status = r.doc.status
  <1>1. r.type = "internal_note" => Changed(r) = Counted(r.doc, r.type)
    BY DEF Changed, WithMessage
  <1>2. Counted(r.doc, r.type).status = r.doc.status
    BY DEF Counted, Request, TicketDoc, TicketDocOf
  <1>. QED
    BY <1>1, <1>2

(* A message leaves assignee and mailbox as they were, so that its         *)
(* rollback restores the ticket whole.                                     *)
LEMMA MessageUndone ==
    ASSUME NEW r \in Request, r.op = "message", NEW t \in {r.doc, SavedOn(r)}
    PROVE  [r.doc EXCEPT !.assignee = t.assignee, !.mailbox = t.mailbox] = r.doc
  <1>1. r.doc \in TicketDoc /\ r.doc \in TicketDocOf(FreshStamp) /\ r.type \in MessageType
    BY StampsAreFresh DEF Request
  <1>2. Changed(r).assignee = r.doc.assignee
    BY <1>1, WithMessageFields DEF Changed
  <1>3. Changed(r).mailbox = r.doc.mailbox
    BY ChangedMailbox DEF Ops
  <1>4. t.assignee = r.doc.assignee /\ t.mailbox = r.doc.mailbox
    BY <1>2, <1>3, SavedAlone DEF Ops
  <1>. QED
    BY <1>1, <1>4 DEF TicketDoc, TicketDocOf

(* Only a reopening takes a ticket out of "closed".                        *)
LEMMA ClosedStays ==
    ASSUME NEW r \in Request, RequestOK(r), Checked(r), "ticket" \in r.writes, Shape(r),
           r.doc.status = "closed", r.op # "reopen"
    PROVE  Changed(r).status = "closed"
  <1>1. r.op \in Ops /\ r.doc \in TicketDoc
    BY DEF Request, RequestOK
  <1>2. CASE r.op = "message"
    <2>1. r.type = "internal_note"
      BY <1>1, <1>2 DEF Checked, Shape, Request
    <2>. QED
      BY <1>2, <2>1, NoteFields
  <1>3. CASE r.op \in {"assign", "self_assign"}
    <2>1. WithAssignee(r.doc, r.assignee).status = "closed"
      BY <1>1 DEF WithAssignee, TicketDoc, TicketDocOf
    <2>. QED
      BY <1>3, <2>1 DEF Changed
  <1>4. CASE r.op = "unassign"
    <2>1. [r.doc EXCEPT !.assignee = Nobody].status = "closed"
      BY <1>1 DEF TicketDoc, TicketDocOf
    <2>. QED
      BY <1>4, <2>1 DEF Changed
  <1>5. CASE r.op \in {"status", "close"}
    <2>1. Accepted(r, r.doc)
      BY <1>5 DEF Checked
    <2>2. r.op = "status" => ~Accepted(r, r.doc)
      BY DEF Accepted, ExplicitNext
    <2>3. r.op = "close" => ~Accepted(r, r.doc)
      BY DEF Accepted
    <2>. QED
      BY <1>5, <2>1, <2>2, <2>3
  <1>6. CASE r.op = "priority"
    <2>1. [r.doc EXCEPT !.sla = SlaSnapshot(r.fresh)].status = "closed"
      BY <1>1 DEF TicketDoc, TicketDocOf
    <2>. QED
      BY <1>6, <2>1 DEF Changed
  <1>7. CASE r.op = "mailbox"
    <2>1. [r.doc EXCEPT !.mailbox = r.mailbox, !.sla = SlaSnapshot(r.fresh)].status = "closed"
      BY <1>1 DEF TicketDoc, TicketDocOf
    <2>. QED
      BY <1>7, <2>1 DEF Changed
  <1>. QED
    BY <1>1, <1>2, <1>3, <1>4, <1>5, <1>6, <1>7 DEF Ops

(* The ticket as a request that is alone knows it.                         *)
Known(r, t) ==
    /\ r.pc \in {"chat", "create", "sync", "unsync"} \/ "ticket" \in r.writes => t = r.doc
    /\ r.pc \in {"save", "delete", "rollback"} => t \in {r.doc, SavedOn(r)}
    /\ Checked(r)

LEMMA KnownStep ==
    ASSUME StepInv, Shapes, NEW h \in Handlers, Handle(h), Known(req[h], ticket)
    PROVE  /\ Known(req'[h], ticket')
           /\ \/ ticket' = ticket
              \/ /\ SaveTicket(h) /\ ticket = req[h].doc /\ ticket' = SavedOn(req[h])
                 /\ WriteEnds(h, "ticket")
              \/ RollbackTicket(h) /\ ticket' = req[h].doc /\ req[h].op = "message"
  <1>0. /\ req[h] \in Request /\ Shape(req[h]) /\ RequestOK(req[h])
        /\ Known(req[h], ticket) /\ ticket \in TicketDoc
    BY DEF StepInv, DocsOK, RequestsOK, Shapes
  <1>1. Known(Idle, ticket')
    BY DEF Known, Checked, Idle
  <1>2. ASSUME Kept(req'[h], req[h])
        PROVE  /\ SavedOn(req'[h]) = SavedOn(req[h])
               /\ Accepted(req'[h], req'[h].doc) = Accepted(req[h], req[h].doc)
               /\ req'[h].doc = req[h].doc /\ req'[h].op = req[h].op /\ req'[h].type = req[h].type
    BY <1>2, KeptSame
  <1>3. ASSUME NEW w, WriteEnds(h, w), ticket' = ticket PROVE Known(req'[h], ticket')
    <2>1. CASE req'[h] = Idle
      BY <1>1, <2>1
    <2>2. CASE /\ Kept(req'[h], req[h]) /\ req'[h].pc = req[h].pc
               /\ req'[h].writes = req[h].writes \ {w}
      BY <1>0, <1>2, <1>3, <2>2 DEF Known, Checked
    <2>. QED
      BY <1>3, <2>1, <2>2 DEF WriteEnds
  <1>4. CASE Begin(h)
    <2>1. req'[h].pc = "load" /\ req'[h].writes = {} /\ ticket' = ticket
      BY <1>4, BeginMoves DEF Begin
    <2>. QED
      BY <2>1 DEF Known, Checked
  <1>5. CASE LoadTicket(h)
    <2>1. ticket' = ticket /\ req[h].writes = {}
      BY <1>0, <1>5 DEF LoadTicket, At, Shape
    <2>2. \/ req'[h] = Idle
          \/ /\ req'[h].doc = ticket /\ req'[h].pc \in {"chat", "sync", "save"}
             /\ req'[h].op = "message" => req'[h].pc = "chat" /\ req'[h].writes = {}
             /\ req'[h].op # "message" => Accepted(req'[h], ticket)
      BY <2>1, <1>5, LoadMoves, LoadChecks
    <2>. QED
      BY <1>1, <2>1, <2>2 DEF Known, Checked
  <1>6. CASE LoadConversation(h)
    <2>1. ticket' = ticket /\ req[h].pc = "chat" /\ req[h].writes = {} /\ req[h].op = "message"
      BY <1>0, <1>6 DEF LoadConversation, At, Shape
    <2>2. \/ req'[h] = Idle
          \/ /\ req'[h].doc = req[h].doc /\ req'[h].pc = "create" /\ req'[h].writes = {}
             /\ req'[h].op = "message"
             /\ req'[h].doc.status # "closed" \/ req'[h].type = "internal_note"
      BY <2>1, <1>6, ChatMoves
    <2>. QED
      BY <1>0, <1>1, <2>1, <2>2 DEF Known, Checked
  <1>7. CASE CreateMessage(h)
    <2>1. /\ ticket' = ticket /\ req[h].pc = "create" /\ req[h].op = "message"
          /\ req'[h].pc = "save" /\ Kept(req'[h], req[h])
      BY <1>0, <1>7, WriteMoves DEF Shape
    <2>. QED
      BY <1>0, <1>2, <2>1 DEF Known, Checked
  <1>8. CASE SaveTicket(h)
    <2>1. WriteEnds(h, "ticket") /\ ticket' = SavedBy(req[h])
      BY <1>8, WriteMoves
    <2>2. ticket = req[h].doc /\ ticket' = SavedOn(req[h])
      BY <1>0, <2>1 DEF Known, WriteEnds, SavedBy, SavedOn
    <2>3. CASE req'[h] = Idle
      BY <1>1, <1>8, <2>1, <2>2, <2>3
    <2>4. CASE /\ Kept(req'[h], req[h]) /\ req'[h].pc = req[h].pc
               /\ req'[h].writes = req[h].writes \ {"ticket"}
      <3>1. req[h].pc \notin {"chat", "create", "sync", "unsync"}
        BY <1>0, <2>1 DEF Shape, WriteEnds
      <3>2. Known(req'[h], ticket')
        BY <1>0, <1>2, <2>2, <2>4, <3>1 DEF Known, Checked
      <3>. QED
        BY <1>8, <2>1, <2>2, <3>2
    <2>. QED
      BY <2>1, <2>3, <2>4 DEF WriteEnds
  <1>9. CASE SaveConversation(h)
    <2>1. WriteEnds(h, "conv") /\ ticket' = ticket
      BY <1>9, WriteMoves
    <2>. QED
      BY <1>3, <2>1
  <1>10. CASE \E w \in {"ticket", "conv"} : SaveFails(h, w)
    <2>1. PICK w \in {"ticket", "conv"} : SaveFails(h, w)
      BY <1>10
    <2>2. /\ ticket' = ticket /\ w \in req[h].writes
          /\ \/ /\ req[h].pc = "save" /\ req[h].op = "message" /\ Kept(req'[h], req[h])
                /\ req'[h].pc = "delete" /\ req'[h].writes = req[h].writes \ {w}
             \/ /\ req[h].pc = "save" /\ req[h].op = "mailbox" /\ Kept(req'[h], req[h])
                /\ req'[h].pc = "unsync" /\ req'[h].writes = {}
             \/ WriteEnds(h, w)
      BY <2>1, FailureMoves DEF Untouched
    <2>3. CASE req[h].pc = "save" /\ req[h].op = "message" /\ Kept(req'[h], req[h])
               /\ req'[h].pc = "delete" /\ req'[h].writes = req[h].writes \ {w}
      BY <1>0, <1>2, <2>2, <2>3 DEF Known, Checked
    <2>4. CASE req[h].pc = "save" /\ req[h].op = "mailbox" /\ Kept(req'[h], req[h])
               /\ req'[h].pc = "unsync" /\ req'[h].writes = {}
      <3>1. "ticket" \in req[h].writes
        BY <1>0, <2>4 DEF Shape
      <3>. QED
        BY <1>0, <1>2, <2>2, <2>4, <3>1 DEF Known, Checked
    <2>. QED
      BY <1>3, <2>2, <2>3, <2>4
  <1>11. CASE DeleteMessage(h) \/ DeleteFails(h)
    <2>1. /\ ticket' = ticket /\ req[h].pc = "delete"
          /\ \/ req'[h] = Idle
             \/ /\ Kept(req'[h], req[h]) /\ req'[h].pc = "rollback"
                /\ "ticket" \in req'[h].writes => "ticket" \in req[h].writes
      BY <1>11, FailureMoves DEF Untouched
    <2>. QED
      BY <1>0, <1>1, <1>2, <2>1 DEF Known, Checked, Shape
  <1>12. CASE RollbackTicket(h)
    <2>1. /\ WriteEnds(h, "undo_ticket") /\ req[h].pc \in {"delete", "rollback"}
          /\ ticket' = UndoneBy(req[h])
      BY <1>12, FailureMoves
    <2>2. req[h].op = "message" /\ ticket \in {req[h].doc, SavedOn(req[h])}
      BY <1>0, <2>1 DEF Shape, Known
    <2>3. ticket' = req[h].doc
      BY <1>0, <2>1, <2>2, MessageUndone DEF UndoneBy
    <2>4. CASE req'[h] = Idle
      BY <1>1, <1>12, <2>2, <2>3, <2>4
    <2>5. CASE Kept(req'[h], req[h]) /\ req'[h].pc = req[h].pc
      <3>1. Known(req'[h], ticket')
        BY <1>0, <1>2, <2>1, <2>2, <2>3, <2>5 DEF Known, Checked
      <3>. QED
        BY <1>12, <2>2, <2>3, <3>1
    <2>. QED
      BY <2>1, <2>4, <2>5 DEF WriteEnds
  <1>13. CASE RollbackConversation(h)
    <2>1. WriteEnds(h, "undo_conv") /\ ticket' = ticket
      BY <1>13, FailureMoves
    <2>. QED
      BY <1>3, <2>1
  <1>14. CASE SyncConversationMailbox(h)
    <2>1. /\ ticket' = ticket /\ req[h].pc = "sync" /\ req[h].op = "mailbox"
          /\ req'[h].pc = "save" /\ Kept(req'[h], req[h])
      BY <1>0, <1>14, WriteMoves DEF Shape
    <2>. QED
      BY <1>0, <1>2, <2>1 DEF Known, Checked
  <1>15. CASE ReadFails(h) \/ UnsyncConversationMailbox(h) \/ Stop(h)
    <2>1. ticket' = ticket /\ req'[h] = Idle
      BY <1>15, FailureMoves DEF Untouched
    <2>. QED
      BY <1>1, <2>1
  <1>16. CASE UndoFails(h)
    <2>1. /\ ticket' = ticket
          /\ req'[h] = Idle \/ \E w \in {"undo_ticket", "undo_conv"} : WriteEnds(h, w)
      BY <1>16, FailureMoves DEF Untouched
    <2>. QED
      BY <1>1, <1>3, <2>1
  <1>. QED
    BY <1>4, <1>5, <1>6, <1>7, <1>8, <1>9, <1>10, <1>11, <1>12, <1>13, <1>14, <1>15, <1>16
       DEF Handle

(* A status transition leaves a clock that follows the new status.         *)
LEMMA TransitionFollows ==
    ASSUME NEW sla \in SlaOf(FreshStamp), NEW current \in TicketStatus, NEW next \in TicketStatus,
           next # "closed", Follows(sla, current)
    PROVE  Follows(StatusTransitionSla(sla, current, next), next)
  <1>1. /\ sla.hasResolution \in BOOLEAN /\ sla.paused \in BOOLEAN
        /\ next \in ActiveStatus \/ next = "waiting_on_customer" \/ next = "solved"
        /\ ~("waiting_on_customer" \in ActiveStatus) /\ ~("solved" \in ActiveStatus)
        /\ ~("waiting_on_customer" \in ResolvedStatus) /\ "solved" \in ResolvedStatus
        /\ next \in ActiveStatus => next \notin ResolvedStatus
    BY DEF SlaOf, TicketStatus, ActiveStatus, ResolvedStatus
  <1>. DEFINE open == ClearResolvedForReopen(sla, next)
  <1>2. CASE current \in ResolvedStatus
    <2>1. /\ open \in SlaOf(FreshStamp) /\ open.hasResolution = sla.hasResolution
          /\ open.resolved = "unset"
          /\ sla.hasResolution /\ next \in ActiveStatus => open.running = "now" /\ open.paused = FALSE
          /\ sla.hasResolution /\ next = "waiting_on_customer" => open.running = "unset" /\ open.paused = TRUE
      BY <1>1 DEF ClearResolvedForReopen, ResumeResolution, SlaOf, FreshStamp, Stamp
    <2>2. StatusTransitionSla(sla, current, next) =
            CASE ~open.hasResolution /\ next = "solved" -> [open EXCEPT !.resolved = "now"]
              [] ~open.hasResolution /\ next # "solved" -> open
              [] open.hasResolution /\ next = "waiting_on_customer" -> PauseResolution(open)
              [] open.hasResolution /\ next \in ActiveStatus ->
                    IF open.paused THEN ResumeResolution(open) ELSE open
              [] open.hasResolution /\ next = "solved" -> ResolveResolution(open)
              [] OTHER -> open
      BY <1>2 DEF StatusTransitionSla
    <2>. HIDE DEF open
    <2>3. CASE next = "solved"
      BY <1>1, <2>1, <2>2, <2>3 DEF Follows, ResolveResolution, SlaOf
    <2>4. CASE next = "waiting_on_customer"
      BY <1>1, <2>1, <2>2, <2>4 DEF Follows, PauseResolution, SlaOf
    <2>5. CASE next \in ActiveStatus
      BY <1>1, <2>1, <2>2, <2>5 DEF Follows, ResumeResolution, SlaOf
    <2>. QED
      BY <1>1, <2>3, <2>4, <2>5
  <1>3. CASE current \notin ResolvedStatus
    <2>1. StatusTransitionSla(sla, current, next) =
            CASE ~sla.hasResolution /\ next = "solved" -> [sla EXCEPT !.resolved = "now"]
              [] ~sla.hasResolution /\ next # "solved" -> sla
              [] sla.hasResolution /\ next = "waiting_on_customer" -> PauseResolution(sla)
              [] sla.hasResolution /\ next \in ActiveStatus ->
                    IF sla.paused THEN ResumeResolution(sla) ELSE sla
              [] sla.hasResolution /\ next = "solved" -> ResolveResolution(sla)
              [] OTHER -> sla
      BY <1>3 DEF StatusTransitionSla
    <2>2. current \in ActiveStatus \/ current = "waiting_on_customer"
      BY <1>3 DEF TicketStatus
    <2>3. CASE next = "solved"
      BY <1>1, <2>1, <2>3 DEF Follows, ResolveResolution, SlaOf
    <2>4. CASE next = "waiting_on_customer"
      BY <1>1, <1>3, <2>1, <2>2, <2>4 DEF Follows, PauseResolution, SlaOf
    <2>5. CASE next \in ActiveStatus
      BY <1>1, <1>3, <2>1, <2>2, <2>5 DEF Follows, ResumeResolution, SlaOf
    <2>. QED
      BY <1>1, <2>3, <2>4, <2>5
  <1>. QED
    BY <1>2, <1>3

LEMMA ChangedFollows ==
    ASSUME NEW r \in Request, RequestOK(r), Checked(r), "ticket" \in r.writes,
           r.op \notin {"priority", "mailbox"}, Follows(r.doc.sla, r.doc.status)
    PROVE  Follows(Changed(r).sla, Changed(r).status)
  <1>1. /\ r.op \in Ops \ {"priority", "mailbox"}
        /\ r.doc \in TicketDoc /\ r.doc \in TicketDocOf(FreshStamp)
        /\ r.type \in MessageType /\ r.status \in TicketStatus
    BY StampsAreFresh DEF Request, RequestOK
  <1>2. ASSUME NEW d \in TicketDocOf(FreshStamp), Follows(d.sla, d.status),
               NEW next \in TicketStatus \ {"closed"}
        PROVE  Follows(WithStatus(d, next).sla, WithStatus(d, next).status)
    <2>1. /\ WithStatus(d, next).status = next
          /\ WithStatus(d, next).sla = StatusTransitionSla(d.sla, d.status, next)
      BY DEF WithStatus, TicketDocOf
    <2>2. d.sla \in SlaOf(FreshStamp) /\ d.status \in TicketStatus
      BY DEF TicketDocOf
    <2>. QED
      BY <1>2, <2>1, <2>2, TransitionFollows
  <1>3. CASE r.op = "message"
    <2>. DEFINE c == Counted(r.doc, r.type)
               replied == [c EXCEPT !.sla = FirstResponseSla(@)]
    <2>1. c \in TicketDocOf(FreshStamp) /\ c.sla = r.doc.sla /\ c.status = r.doc.status
      BY ZenonT(40), <1>1, CountedType DEF Counted, TicketDocOf
    <2>. HIDE DEF c
    <2>2. c.sla \in SlaOf(FreshStamp)
      BY <2>1 DEF TicketDocOf
    <2>3. /\ FirstResponseSla(c.sla) \in SlaOf(FreshStamp)
          /\ FirstResponseSla(c.sla).hasResolution = c.sla.hasResolution
          /\ FirstResponseSla(c.sla).paused = c.sla.paused
          /\ FirstResponseSla(c.sla).running = c.sla.running
          /\ FirstResponseSla(c.sla).resolved = c.sla.resolved
      BY <2>2 DEF FirstResponseSla, SlaOf, FreshStamp
    <2>4. /\ replied \in TicketDocOf(FreshStamp) /\ replied.status = c.status
          /\ replied.sla = FirstResponseSla(c.sla)
      BY <2>1, <2>3 DEF TicketDocOf
    <2>. HIDE DEF replied
    <2>5. Follows(c.sla, c.status) /\ Follows(replied.sla, replied.status)
      BY <2>1, <2>3, <2>4 DEF Follows
    <2>6. "open" \in TicketStatus \ {"closed"} /\ "waiting_on_customer" \in TicketStatus \ {"closed"}
      BY DEF TicketStatus, ActiveStatus
    <2>7. WithMessage(r.doc, r.type)
            \in {c, WithStatus(c, "open"), WithStatus(replied, "waiting_on_customer")}
      BY <1>1 DEF WithMessage, MessageType, c, replied
    <2>8. /\ Follows(WithStatus(c, "open").sla, WithStatus(c, "open").status)
          /\ Follows(WithStatus(replied, "waiting_on_customer").sla,
                     WithStatus(replied, "waiting_on_customer").status)
      BY <1>2, <2>1, <2>4, <2>5, <2>6
    <2>9. Changed(r) = WithMessage(r.doc, r.type)
      BY <1>3 DEF Changed
    <2>. QED
      BY <2>5, <2>7, <2>8, <2>9
  <1>4. CASE r.op \in {"assign", "self_assign"}
    <2>1. /\ WithAssignee(r.doc, r.assignee).sla = r.doc.sla
          /\ WithAssignee(r.doc, r.assignee).status
               = IF r.doc.status = "new" THEN "open" ELSE r.doc.status
      BY <1>1 DEF WithAssignee, TicketDocOf
    <2>2. Changed(r) = WithAssignee(r.doc, r.assignee)
      BY <1>4 DEF Changed
    <2>. QED
      BY <2>1, <2>2 DEF Follows, ActiveStatus, ResolvedStatus
  <1>5. CASE r.op = "unassign"
    <2>1. /\ [r.doc EXCEPT !.assignee = Nobody].sla = r.doc.sla
          /\ [r.doc EXCEPT !.assignee = Nobody].status = r.doc.status
      BY <1>1 DEF TicketDocOf
    <2>. QED
      BY <1>5, <2>1 DEF Changed
  <1>6. CASE r.op \in {"status", "reopen"}
    <2>. DEFINE next == IF r.op = "status" THEN r.status ELSE "open"
    <2>1. next \in TicketStatus \ {"closed"}
      BY <1>1 DEF RequestOK, TicketStatus, ActiveStatus
    <2>2. Changed(r) = WithStatus(r.doc, next)
      BY <1>6 DEF Changed
    <2>. HIDE DEF next
    <2>. QED
      BY <1>1, <1>2, <2>1, <2>2
  <1>7. CASE r.op = "close"
    <2>1. Closed(r.doc).sla = r.doc.sla /\ Closed(r.doc).status = "closed"
      BY <1>1 DEF Closed, TicketDocOf
    <2>2. r.doc.status = "solved"
      BY <1>7 DEF Checked, Accepted
    <2>3. Changed(r) = Closed(r.doc)
      BY <1>7 DEF Changed
    <2>. QED
      BY <2>1, <2>2, <2>3 DEF Follows, ActiveStatus, ResolvedStatus
  <1>. QED
    BY <1>1, <1>3, <1>4, <1>5, <1>6, <1>7 DEF Ops

(* Until a change of priority or mailbox begins the clock anew, it follows *)
(* the status, on the ticket and as a request has loaded it.               *)
ClockKnown(r, t) ==
    /\ Follows(t.sla, t.status)
    /\ r.pc \notin {"idle", "load"} => Follows(r.doc.sla, r.doc.status)

LEMMA DocMoves ==
    ASSUME StepInv, Shapes, NEW h \in Handlers, Handle(h)
    PROVE  \/ req'[h].pc \in {"idle", "load"}
           \/ req'[h].doc = ticket
           \/ req'[h].doc = req[h].doc /\ req[h].pc \notin {"idle", "load"}
  <1>0. Idle.pc = "idle" /\ Shape(req[h])
    BY DEF Idle, Shapes
  <1>1. ASSUME Kept(req'[h], req[h]) PROVE req'[h].doc = req[h].doc
    BY <1>1 DEF Kept
  <1>2. ASSUME NEW w, WriteEnds(h, w)
        PROVE  /\ req'[h].pc = "idle" \/ req'[h].doc = req[h].doc
               /\ req[h].pc \notin {"idle", "load"}
    BY <1>0, <1>2 DEF WriteEnds, Kept, Shape
  <1>3. CASE Begin(h)
    BY <1>3, BeginMoves
  <1>4. CASE LoadTicket(h)
    BY <1>0, <1>4, LoadMoves
  <1>5. CASE LoadConversation(h)
    BY <1>0, <1>5, ChatMoves DEF LoadConversation, At
  <1>6. CASE CreateMessage(h) \/ SyncConversationMailbox(h)
    <2>1. Kept(req'[h], req[h]) /\ req[h].pc \in {"create", "sync"}
      BY <1>6, WriteMoves
    <2>. QED
      BY <1>1, <2>1
  <1>7. CASE SaveTicket(h) \/ SaveConversation(h)
    <2>1. WriteEnds(h, "ticket") \/ WriteEnds(h, "conv")
      BY <1>7, WriteMoves
    <2>. QED
      BY <1>2, <2>1
  <1>8. CASE RollbackTicket(h) \/ RollbackConversation(h)
    <2>1. WriteEnds(h, "undo_ticket") \/ WriteEnds(h, "undo_conv")
      BY <1>8, FailureMoves
    <2>. QED
      BY <1>2, <2>1
  <1>9. CASE \E w \in {"ticket", "conv"} : SaveFails(h, w)
    <2>1. PICK w \in {"ticket", "conv"} : SaveFails(h, w)
      BY <1>9
    <2>2. WriteEnds(h, w) \/ (Kept(req'[h], req[h]) /\ req[h].pc = "save")
      BY <2>1, FailureMoves
    <2>. QED
      BY <1>1, <1>2, <2>2
  <1>10. CASE DeleteMessage(h) \/ DeleteFails(h)
    <2>1. req'[h] = Idle \/ (Kept(req'[h], req[h]) /\ req[h].pc = "delete")
      BY <1>10, FailureMoves
    <2>. QED
      BY <1>0, <1>1, <2>1
  <1>11. CASE ReadFails(h) \/ UnsyncConversationMailbox(h) \/ Stop(h)
    BY <1>0, <1>11, FailureMoves
  <1>12. CASE UndoFails(h)
    <2>1. req'[h] = Idle \/ \E w \in {"undo_ticket", "undo_conv"} : WriteEnds(h, w)
      BY <1>12, FailureMoves
    <2>. QED
      BY <1>0, <1>2, <2>1
  <1>. QED
    BY <1>3, <1>4, <1>5, <1>6, <1>7, <1>8, <1>9, <1>10, <1>11, <1>12 DEF Handle

LEMMA ClockStep ==
    ASSUME StepInv, Shapes, NEW h \in Handlers, Handle(h), Known(req[h], ticket),
           ClockKnown(req[h], ticket),
           req[h].op \notin {"priority", "mailbox"} \/ ticket'.sla = ticket.sla
    PROVE  ClockKnown(req'[h], ticket')
  <1>0. /\ req[h] \in Request /\ Shape(req[h]) /\ RequestOK(req[h])
        /\ Follows(ticket.sla, ticket.status)
    BY DEF StepInv, DocsOK, RequestsOK, Shapes, ClockKnown
  <1>1. Follows(ticket'.sla, ticket'.status)
    <2>1. CASE ticket' = ticket
      BY <1>0, <2>1
    <2>2. CASE ticket = req[h].doc /\ ticket' = SavedOn(req[h]) /\ WriteEnds(h, "ticket")
      <3>1. "ticket" \in req[h].writes /\ req[h].op \in Ops
        BY <1>0, <2>2 DEF WriteEnds, Request, RequestOK
      <3>2. CASE req[h].op \notin {"priority", "mailbox"}
        <4>1. Follows(Changed(req[h]).sla, Changed(req[h]).status)
          BY <1>0, <2>2, <3>1, <3>2, ChangedFollows DEF Known
        <4>. QED
          BY <1>0, <2>2, <3>1, <4>1, SavedAlone
      <3>3. CASE req[h].op \in {"priority", "mailbox"}
        <4>1. ticket'.sla = ticket.sla /\ ticket'.status = Changed(req[h]).status
          BY <1>0, <2>2, <3>1, <3>3, SavedAlone
        <4>2. Changed(req[h]).status = req[h].doc.status
          <5>1. /\ [req[h].doc EXCEPT !.sla = SlaSnapshot(req[h].fresh)].status = req[h].doc.status
                /\ [req[h].doc EXCEPT !.mailbox = req[h].mailbox,
                                      !.sla = SlaSnapshot(req[h].fresh)].status = req[h].doc.status
            BY <1>0 DEF Request, TicketDoc, TicketDocOf
          <5>. QED
            BY <3>3, <5>1 DEF Changed
        <4>. QED
          BY <1>0, <2>2, <4>1, <4>2
      <3>. QED
        BY <3>2, <3>3
    <2>3. CASE RollbackTicket(h) /\ ticket' = req[h].doc
      <3>1. req[h].pc \in {"delete", "rollback"}
        BY <2>3, FailureMoves
      <3>. QED
        BY <2>3, <3>1 DEF ClockKnown
    <2>. QED
      BY <2>1, <2>2, <2>3, KnownStep
  <1>2. req'[h].pc \notin {"idle", "load"} => Follows(req'[h].doc.sla, req'[h].doc.status)
    BY <1>0, DocMoves DEF ClockKnown
  <1>. QED
    BY <1>1, <1>2 DEF ClockKnown

(* A document counts the messages that the collection s holds.             *)
Counts(d, s) ==
    /\ d.msgs = s["customer_message"] + s["public_reply"] + s["internal_note"]
    /\ d.pubs = s["public_reply"]
    /\ d.notes = s["internal_note"]
SameCounts(d, e) == d.msgs = e.msgs /\ d.pubs = e.pubs /\ d.notes = e.notes

(* A message is stored and then counted by both documents, or taken back   *)
(* by both.                                                                *)
CountsKnown(r, t, c, s) ==
    /\ r.op # "message" \/ r.pc \in {"load", "chat", "create"} => Counts(t, s) /\ Counts(c, s)
    /\ r.pc = "create" \/ "conv" \in r.writes => SameCounts(c, r.chat)
    /\ r.pc \in {"save", "delete"} /\ r.op = "message" =>
          /\ Counts(Counted(r.doc, r.type), s) /\ Counts(Counted(r.chat, r.type), s)
          /\ r.writes \subseteq {"ticket", "conv"}
    /\ r.pc = "save" /\ r.op = "message" =>
          /\ "ticket" \notin r.writes => Counts(t, s)
          /\ "conv" \notin r.writes => Counts(c, s)
    /\ r.pc = "rollback" =>
          /\ Counts(r.doc, s) /\ Counts(r.chat, s)
          /\ r.writes \subseteq {"undo_ticket", "undo_conv"}
          /\ "undo_ticket" \notin r.writes => Counts(t, s)
          /\ "undo_conv" \notin r.writes => Counts(c, s)

LEMMA SameCounted ==
    ASSUME NEW d, NEW e, NEW s, SameCounts(d, e), Counts(d, s)
    PROVE  Counts(e, s)
  BY DEF SameCounts, Counts

(* One more message of a type is one more message counted.                 *)
LEMMA CountedOneMore ==
    ASSUME NEW s \in [MessageType -> Nat], NEW t \in [MessageType -> Nat], NEW type \in MessageType,
           t = [s EXCEPT ![type] = @ + 1] \/ s = [t EXCEPT ![type] = @ - 1],
           NEW doc \in TicketDoc \cup ConvDoc
    PROVE  Counts(doc, s) <=> Counts(Counted(doc, type), t)
  <1>1. /\ "customer_message" \in MessageType /\ "public_reply" \in MessageType
        /\ "internal_note" \in MessageType
        /\ \A m \in MessageType : s[m] \in Nat /\ t[m] \in Nat
    BY DEF MessageType
  <1>2. \A m \in MessageType : t[m] = IF m = type THEN s[m] + 1 ELSE s[m]
    <2>1. CASE t = [s EXCEPT ![type] = @ + 1]
      BY <2>1
    <2>2. CASE s = [t EXCEPT ![type] = @ - 1]
      BY <1>1, <2>2
    <2>. QED
      BY <2>1, <2>2
  <1>. DEFINE c == Counted(doc, type)
  <1>3. /\ doc.msgs \in Nat /\ doc.pubs \in Nat /\ doc.notes \in Nat
        /\ c.msgs = doc.msgs + 1
        /\ c.pubs = IF type = "public_reply" THEN doc.pubs + 1 ELSE doc.pubs
        /\ c.notes = IF type = "internal_note" THEN doc.notes + 1 ELSE doc.notes
    BY CountedFields
  <1>. HIDE DEF c
  <1>4. Counts(doc, s) <=> Counts(c, t)
    <2>1. CASE type = "customer_message"
      BY <1>1, <1>2, <1>3, <2>1 DEF Counts
    <2>2. CASE type = "public_reply"
      <3>1. /\ t["customer_message"] = s["customer_message"]
            /\ t["public_reply"] = s["public_reply"] + 1
            /\ t["internal_note"] = s["internal_note"]
        BY <1>1, <1>2, <2>2
      <3>2. c.pubs = doc.pubs + 1 /\ c.notes = doc.notes
        BY <1>3, <2>2
      <3>. QED
        BY <1>1, <1>3, <3>1, <3>2 DEF Counts
    <2>3. CASE type = "internal_note"
      <3>1. /\ t["customer_message"] = s["customer_message"]
            /\ t["public_reply"] = s["public_reply"]
            /\ t["internal_note"] = s["internal_note"] + 1
        BY <1>1, <1>2, <2>3
      <3>2. c.pubs = doc.pubs /\ c.notes = doc.notes + 1
        BY <1>3, <2>3
      <3>. QED
        BY <1>1, <1>3, <3>1, <3>2 DEF Counts
    <2>. QED
      BY <2>1, <2>2, <2>3 DEF MessageType
  <1>. QED
    BY <1>4 DEF c

(* A stored message is left half counted or half undone.                   *)
LeavesTorn(h) ==
    \/ DeleteFails(h)
    \/ /\ req[h].op = "message" /\ ~Restores(h)
       /\ UndoFails(h) \/ (Stop(h) /\ req[h].pc \in {"save", "delete", "rollback"})

(* A step during which no message is deleted under its own save, and none  *)
(* is left half counted or half undone.                                    *)
LEMMA CountsStep ==
    ASSUME StepInv, Shapes, StoredInv, StoredInv', NEW h \in Handlers, Handle(h),
           Known(req[h], ticket), CountsKnown(req[h], ticket, conv, stored),
           ~LeavesTorn(h), DeleteMessage(h) => req[h].writes = {}
    PROVE  CountsKnown(req'[h], ticket', conv', stored')
  <1>0. /\ req[h] \in Request /\ Shape(req[h]) /\ RequestOK(req[h])
        /\ ticket \in TicketDoc /\ conv \in ConvDoc
        /\ req[h].doc \in TicketDoc /\ req[h].chat \in ConvDoc /\ req[h].type \in MessageType
        /\ stored \in [MessageType -> Nat] /\ stored' \in [MessageType -> Nat]
        /\ CountsKnown(req[h], ticket, conv, stored)
    BY DEF StepInv, DocsOK, RequestsOK, Shapes, Request, StoredInv
  <1>1. ASSUME NEW t, NEW c, NEW s, Counts(t, s), Counts(c, s) PROVE CountsKnown(Idle, t, c, s)
    BY <1>1 DEF CountsKnown, Idle
  <1>2. ASSUME Untouched, Counts(ticket, stored), Counts(conv, stored), req'[h] = Idle
        PROVE  CountsKnown(req'[h], ticket', conv', stored')
    BY <1>1, <1>2 DEF Untouched
  <1>3. CASE Begin(h)
    <2>1. Untouched /\ Counts(ticket, stored) /\ Counts(conv, stored)
      BY <1>0, <1>3 DEF Begin, At, Untouched, CountsKnown, Shape
    <2>2. req'[h].pc = "load" /\ req'[h].writes = {}
      BY <1>3, BeginMoves
    <2>. QED
      BY <2>1, <2>2 DEF CountsKnown, Untouched
  <1>4. CASE LoadTicket(h)
    <2>1. /\ Untouched /\ Counts(ticket, stored) /\ Counts(conv, stored) /\ req[h].writes = {}
      BY <1>0, <1>4 DEF LoadTicket, At, Untouched, CountsKnown, Shape
    <2>2. \/ req'[h] = Idle
          \/ req'[h].pc \in {"chat", "sync"} /\ req'[h].writes = {}
          \/ req'[h].op # "message" /\ req'[h].pc = "save" /\ req'[h].writes = {"ticket"}
      BY <1>4, <2>1, LoadMoves
    <2>3. CASE req'[h] # Idle
      BY <2>1, <2>2, <2>3 DEF CountsKnown, Untouched
    <2>. QED
      BY <1>2, <2>1, <2>3
  <1>5. CASE LoadConversation(h)
    <2>1. /\ Untouched /\ Counts(ticket, stored) /\ Counts(conv, stored) /\ req[h].writes = {}
      BY <1>0, <1>5 DEF LoadConversation, At, Untouched, CountsKnown, Shape
    <2>2. \/ req'[h] = Idle
          \/ req'[h].pc = "create" /\ req'[h].writes = {} /\ req'[h].chat = conv
      BY <1>5, <2>1, ChatMoves
    <2>3. CASE req'[h] # Idle
      BY <2>1, <2>2, <2>3 DEF CountsKnown, Untouched, SameCounts
    <2>. QED
      BY <1>2, <2>1, <2>3
  <1>6. CASE CreateMessage(h)
    <2>1. /\ req[h].pc = "create" /\ Kept(req'[h], req[h]) /\ req'[h].pc = "save"
          /\ req'[h].writes = {"ticket", "conv"} /\ ticket' = ticket /\ conv' = conv
          /\ stored' = [stored EXCEPT ![req[h].type] = @ + 1]
      BY <1>6, WriteMoves
    <2>2. /\ Counts(req[h].doc, stored) /\ Counts(req[h].chat, stored)
          /\ SameCounts(conv, req[h].chat)
      BY <1>0, <2>1, SameCounted DEF CountsKnown, Known
    <2>3. /\ Counts(Counted(req[h].doc, req[h].type), stored')
          /\ Counts(Counted(req[h].chat, req[h].type), stored')
      BY <1>0, <2>1, <2>2, CountedOneMore
    <2>4. req'[h].op = "message"
      BY <1>0, <2>1 DEF Shape, Kept
    <2>. QED
      BY <2>1, <2>2, <2>3, <2>4 DEF CountsKnown, Kept
  <1>7. CASE SaveTicket(h)
    <2>1. /\ WriteEnds(h, "ticket") /\ "ticket" \in req[h].writes
          /\ ticket' = SavedOn(req[h]) /\ conv' = conv /\ stored' = stored
      BY <1>0, <1>7, WriteMoves DEF Known, WriteEnds, SavedBy, SavedOn
    <2>2. req[h].op \in Ops
      BY <1>0, <2>1 DEF RequestOK, Request
    <2>3. CASE req[h].op = "message"
      <3>1. SameCounts(Counted(req[h].doc, req[h].type), ticket')
        BY <1>0, <2>1, <2>2, <2>3, ChangedCounters, SavedAlone DEF SameCounts
      <3>2. req[h].pc \in {"save", "delete"}
        BY <1>0, <2>1 DEF Shape, CountsKnown, Request
      <3>3. Counts(ticket', stored)
        BY <1>0, <2>3, <3>1, <3>2, SameCounted DEF CountsKnown
      <3>4. CASE req'[h] = Idle /\ req[h].writes = {"ticket"} /\ req[h].pc # "delete"
        <4>1. Counts(conv, stored)
          BY <1>0, <2>3, <3>2, <3>4 DEF CountsKnown
        <4>. QED
          BY <1>1, <2>1, <3>3, <3>4, <4>1
      <3>5. CASE /\ Kept(req'[h], req[h]) /\ req'[h].pc = req[h].pc
                 /\ req'[h].writes = req[h].writes \ {"ticket"}
        BY <1>0, <2>1, <2>3, <3>2, <3>3, <3>5 DEF CountsKnown, Kept
      <3>. QED
        BY <2>1, <3>4, <3>5 DEF WriteEnds
    <2>4. CASE req[h].op # "message"
      <3>1. SameCounts(req[h].doc, ticket')
        BY <1>0, <2>1, <2>2, <2>4, ChangedCounters, SavedAlone DEF SameCounts
      <3>2. Counts(ticket, stored) /\ Counts(conv, stored) /\ ticket = req[h].doc
        BY <1>0, <2>1, <2>4 DEF CountsKnown, Known
      <3>3. Counts(ticket', stored)
        BY <3>1, <3>2, SameCounted
      <3>4. req'[h] = Idle
        BY <1>0, <2>1, <2>4 DEF WriteEnds, Shape, Request
      <3>. QED
        BY <1>1, <2>1, <3>2, <3>3, <3>4
    <2>. QED
      BY <2>3, <2>4
  <1>8. CASE SaveConversation(h)
    <2>. DEFINE changed == Counted(req[h].chat, req[h].type)
    <2>1. /\ WriteEnds(h, "conv") /\ "conv" \in req[h].writes /\ req[h].op = "message"
          /\ ticket' = ticket /\ stored' = stored
      BY <1>8, WriteMoves DEF WriteEnds
    <2>2. conv' = [conv EXCEPT !.msgs = changed.msgs,
                               !.pubs = SavedPath(conv.pubs, req[h].chat.pubs, changed.pubs),
                               !.notes = SavedPath(conv.notes, req[h].chat.notes, changed.notes)]
      BY <1>8 DEF SaveConversation
    <2>. HIDE DEF changed
    <2>3. conv.pubs = req[h].chat.pubs /\ conv.notes = req[h].chat.notes
      BY <1>0, <2>1 DEF CountsKnown, SameCounts
    <2>4. SameCounts(changed, conv')
      BY <1>0, <2>2, <2>3 DEF SavedPath, SameCounts, ConvDoc
    <2>5. req[h].pc \in {"save", "delete"}
      BY <1>0, <2>1 DEF Shape, CountsKnown, Request
    <2>6. Counts(conv', stored)
      BY <1>0, <2>1, <2>4, <2>5, SameCounted DEF CountsKnown, changed
    <2>7. CASE req'[h] = Idle /\ req[h].writes = {"conv"} /\ req[h].pc # "delete"
      <3>1. Counts(ticket, stored)
        BY <1>0, <2>1, <2>5, <2>7 DEF CountsKnown
      <3>. QED
        BY <1>1, <2>1, <2>6, <2>7, <3>1
    <2>8. CASE /\ Kept(req'[h], req[h]) /\ req'[h].pc = req[h].pc
               /\ req'[h].writes = req[h].writes \ {"conv"}
      BY <1>0, <2>1, <2>5, <2>6, <2>8 DEF CountsKnown, Kept
    <2>. QED
      BY <2>1, <2>7, <2>8 DEF WriteEnds
  <1>9. CASE \E w \in {"ticket", "conv"} : SaveFails(h, w)
    <2>1. PICK w \in {"ticket", "conv"} : SaveFails(h, w)
      BY <1>9
    <2>2. /\ Untouched /\ w \in req[h].writes
          /\ \/ /\ req[h].pc = "save" /\ req[h].op = "message" /\ Kept(req'[h], req[h])
                /\ req'[h].pc = "delete" /\ req'[h].writes = req[h].writes \ {w}
             \/ /\ req[h].pc = "save" /\ req[h].op = "mailbox" /\ Kept(req'[h], req[h])
                /\ req'[h].pc = "unsync" /\ req'[h].writes = {}
             \/ /\ WriteEnds(h, w)
                /\ req[h].op = "message" => req[h].pc \in {"delete", "rollback"}
      BY <2>1, FailureMoves
    <2>3. CASE /\ req[h].pc = "save" /\ req[h].op = "message" /\ Kept(req'[h], req[h])
               /\ req'[h].pc = "delete" /\ req'[h].writes = req[h].writes \ {w}
      BY <1>0, <2>2, <2>3 DEF CountsKnown, Kept, Untouched
    <2>4. CASE /\ req[h].pc = "save" /\ req[h].op = "mailbox" /\ Kept(req'[h], req[h])
               /\ req'[h].pc = "unsync" /\ req'[h].writes = {}
      BY <1>0, <2>2, <2>4 DEF CountsKnown, Kept, Untouched
    <2>5. CASE WriteEnds(h, w) /\ (req[h].op = "message" => req[h].pc \in {"delete", "rollback"})
      <3>1. CASE req[h].op = "message"
        <4>1. req[h].pc = "delete"
          BY <1>0, <2>2, <2>5, <3>1 DEF CountsKnown
        <4>2. /\ Kept(req'[h], req[h]) /\ req'[h].pc = "delete"
              /\ req'[h].writes = req[h].writes \ {w}
          BY <2>5, <4>1 DEF WriteEnds
        <4>. QED
          BY <1>0, <2>2, <4>1, <4>2 DEF CountsKnown, Kept, Untouched
      <3>2. CASE req[h].op # "message"
        <4>1. req'[h] = Idle
          BY <1>0, <2>2, <2>5, <3>2 DEF WriteEnds, Shape, Request
        <4>2. Counts(ticket, stored) /\ Counts(conv, stored)
          BY <1>0, <3>2 DEF CountsKnown
        <4>. QED
          BY <1>2, <2>2, <4>1, <4>2
      <3>. QED
        BY <3>1, <3>2
    <2>. QED
      BY <2>2, <2>3, <2>4, <2>5
  <1>10. CASE DeleteMessage(h)
    <2>1. /\ req[h].pc = "delete" /\ Kept(req'[h], req[h]) /\ req'[h].pc = "rollback"
          /\ req'[h].writes = {"undo_ticket", "undo_conv"}
          /\ stored' = [stored EXCEPT ![req[h].type] = @ - 1]
          /\ ticket' = ticket /\ conv' = conv /\ req[h].op = "message"
      BY <1>0, <1>10, FailureMoves DEF Shape
    <2>2. /\ Counts(Counted(req[h].doc, req[h].type), stored)
          /\ Counts(Counted(req[h].chat, req[h].type), stored)
      BY <1>0, <2>1 DEF CountsKnown
    <2>3. ASSUME NEW d \in TicketDoc \cup ConvDoc, Counts(Counted(d, req[h].type), stored)
          PROVE  Counts(d, stored')
      BY <1>0, <2>1, <2>3, CountedOneMore
    <2>4. Counts(req[h].doc, stored') /\ Counts(req[h].chat, stored')
      BY <1>0, <2>2, <2>3
    <2>. QED
      BY <2>1, <2>4 DEF CountsKnown, Kept
  <1>11. CASE RollbackTicket(h)
    <2>1. /\ WriteEnds(h, "undo_ticket") /\ "undo_ticket" \in req[h].writes
          /\ req[h].pc \in {"delete", "rollback"} /\ conv' = conv /\ stored' = stored
      BY <1>11, FailureMoves DEF WriteEnds
    <2>2. req[h].pc = "rollback" /\ req[h].op = "message"
      BY <1>0, <2>1 DEF CountsKnown, Shape
    <2>3. ticket' = req[h].doc
      <3>1. ticket' = UndoneBy(req[h])
        BY <1>11, FailureMoves
      <3>. QED
        BY <1>0, <2>2, <3>1, MessageUndone DEF UndoneBy, Known
    <2>4. Counts(ticket', stored)
      BY <1>0, <2>2, <2>3 DEF CountsKnown
    <2>5. CASE req'[h] = Idle /\ req[h].writes = {"undo_ticket"}
      <3>1. Counts(conv, stored)
        BY <1>0, <2>2, <2>5 DEF CountsKnown
      <3>. QED
        BY <1>1, <2>1, <2>4, <2>5, <3>1
    <2>6. CASE /\ Kept(req'[h], req[h]) /\ req'[h].pc = req[h].pc
               /\ req'[h].writes = req[h].writes \ {"undo_ticket"}
      BY <1>0, <2>1, <2>2, <2>4, <2>6 DEF CountsKnown, Kept
    <2>. QED
      BY <2>1, <2>5, <2>6 DEF WriteEnds
  <1>12. CASE RollbackConversation(h)
    <2>1. /\ WriteEnds(h, "undo_conv") /\ "undo_conv" \in req[h].writes
          /\ req[h].pc \in {"delete", "rollback"} /\ ticket' = ticket /\ stored' = stored
          /\ conv' = [req[h].chat EXCEPT !.mailbox = conv.mailbox]
      BY <1>12, FailureMoves DEF WriteEnds
    <2>2. req[h].pc = "rollback" /\ req[h].op = "message"
      BY <1>0, <2>1 DEF CountsKnown, Shape
    <2>3. SameCounts(req[h].chat, conv')
      BY <1>0, <2>1 DEF SameCounts, ConvDoc
    <2>4. Counts(conv', stored)
      BY <1>0, <2>2, <2>3, SameCounted DEF CountsKnown
    <2>5. CASE req'[h] = Idle /\ req[h].writes = {"undo_conv"}
      <3>1. Counts(ticket, stored)
        BY <1>0, <2>2, <2>5 DEF CountsKnown
      <3>. QED
        BY <1>1, <2>1, <2>4, <2>5, <3>1
    <2>6. CASE /\ Kept(req'[h], req[h]) /\ req'[h].pc = req[h].pc
               /\ req'[h].writes = req[h].writes \ {"undo_conv"}
      BY <1>0, <2>1, <2>2, <2>4, <2>6 DEF CountsKnown, Kept
    <2>. QED
      BY <2>1, <2>5, <2>6 DEF WriteEnds
  <1>13. CASE SyncConversationMailbox(h)
    <2>1. /\ req[h].pc = "sync" /\ Kept(req'[h], req[h]) /\ req'[h].pc = "save"
          /\ req'[h].writes = {"ticket"} /\ ticket' = ticket /\ stored' = stored
          /\ conv' = [conv EXCEPT !.mailbox = req[h].mailbox]
      BY <1>13, WriteMoves
    <2>2. req[h].op = "mailbox" /\ SameCounts(conv, conv')
      BY <1>0, <2>1 DEF Shape, SameCounts, ConvDoc
    <2>3. Counts(ticket, stored) /\ Counts(conv', stored)
      BY <1>0, <2>2, SameCounted DEF CountsKnown
    <2>. QED
      BY <2>1, <2>2, <2>3 DEF CountsKnown, Kept
  <1>14. CASE ReadFails(h)
    <2>1. /\ Untouched /\ req'[h] = Idle
          /\ req[h].pc \in {"load", "chat", "create"} \/ req[h].op # "message"
      BY <1>0, <1>14, FailureMoves DEF Shape
    <2>2. Counts(ticket, stored) /\ Counts(conv, stored)
      BY <1>0, <2>1 DEF CountsKnown
    <2>. QED
      BY <1>2, <2>1, <2>2
  <1>15. CASE UnsyncConversationMailbox(h)
    <2>1. /\ req[h].pc = "unsync" /\ req'[h] = Idle /\ ticket' = ticket /\ stored' = stored
          /\ conv' = [conv EXCEPT !.mailbox = req[h].doc.mailbox]
      BY <1>15, FailureMoves
    <2>2. req[h].op = "mailbox" /\ SameCounts(conv, conv')
      BY <1>0, <2>1 DEF Shape, SameCounts, ConvDoc
    <2>3. Counts(ticket, stored) /\ Counts(conv', stored)
      BY <1>0, <2>2, SameCounted DEF CountsKnown
    <2>. QED
      BY <1>1, <2>1, <2>3
  <1>16. CASE (UndoFails(h) \/ Stop(h)) /\ ~Restores(h)
    <2>1. /\ Untouched
          /\ \/ req'[h] = Idle
             \/ req[h].pc \in {"delete", "rollback"} /\ UndoFails(h)
          /\ Stop(h) => req[h].pc # "idle"
          /\ UndoFails(h) => req[h].pc \in {"delete", "rollback", "unsync"}
      BY <1>16, FailureMoves
    <2>2. \/ req'[h] = Idle /\ req[h].op # "message"
          \/ req'[h] = Idle /\ Stop(h) /\ req[h].pc \in {"load", "chat", "create"}
      BY <1>0, <1>16, <2>1 DEF LeavesTorn, Shape, Request
    <2>3. Counts(ticket, stored) /\ Counts(conv, stored)
      BY <1>0, <2>2 DEF CountsKnown
    <2>. QED
      BY <1>2, <2>1, <2>2, <2>3
  <1>17. ~DeleteFails(h)
    BY DEF LeavesTorn
  <1>. QED
    BY <1>3, <1>4, <1>5, <1>6, <1>7, <1>8, <1>9, <1>10, <1>11, <1>12, <1>13, <1>14, <1>15,
       <1>16, <1>17 DEF Handle, Restores

(* What holds of a request while no other is in flight.                    *)
Lone(r) ==
    /\ Known(r, ticket)
    /\ "rebuilt" \notin amiss => ClockKnown(r, ticket)
    /\ amiss \cap {"late", "torn"} = {} => CountsKnown(r, ticket, conv, stored)

LoneInv == "overlap" \notin amiss =>
    /\ Quiet => Lone(Idle)
    /\ \A h \in Handlers : Alone(h) => Lone(req[h])

LEMMA LoneStart == Init => LoneInv
  <1>. SUFFICES ASSUME Init PROVE Lone(Idle)
    BY DEF Init, LoneInv, Lone
  <1>1. Known(Idle, ticket)
    BY DEF Known, Checked, Idle
  <1>2. ClockKnown(Idle, ticket)
    <2>1. PICK a \in Agents \cup {Nobody}, s \in SlaOffered : ticket = NewTicket(a, s)
      BY DEF Init
    <2>2. /\ ticket.sla = SlaSnapshot(s) /\ ticket.status \in {"new", "open"}
      BY <2>1 DEF NewTicket
    <2>3. Follows(ticket.sla, ticket.status)
      BY <2>2 DEF SlaSnapshot, Follows, ActiveStatus, ResolvedStatus
    <2>. QED
      BY <2>3 DEF ClockKnown, Idle
  <1>3. CountsKnown(Idle, ticket, conv, stored)
    <2>1. /\ stored["customer_message"] = 0 /\ stored["public_reply"] = 0
          /\ stored["internal_note"] = 0
      BY DEF Init, MessageType
    <2>2. /\ ticket.msgs = 0 /\ ticket.pubs = 0 /\ ticket.notes = 0
          /\ conv.msgs = 0 /\ conv.pubs = 0 /\ conv.notes = 0
      BY DEF Init, NewTicket, NewConv
    <2>. QED
      BY <2>1, <2>2 DEF CountsKnown, Counts, Idle
  <1>. QED
    BY <1>1, <1>2, <1>3 DEF Lone

LEMMA LoneTicketStep ==
    ASSUME StepInv, Shapes, StoredInv, LoneInv, NEW h \in Handlers, Handle(h), Records(h),
           "overlap" \notin amiss'
    PROVE  LoneInv' /\ Lone(req[h]) /\ Alone(h)
  <1>1. /\ "overlap" \notin amiss /\ Alone(h) /\ Lone(req[h])
        /\ \A g \in Handlers \ {h} : req'[g] = req[g] /\ req'[g].pc = "idle"
    BY LoneIsAlone DEF LoneInv
  <1>2. StoredInv' /\ Shapes'
    BY StoredStep, ShapesStep
  <1>. DEFINE Good(r) ==
                /\ Known(r, ticket')
                /\ "rebuilt" \notin amiss' => ClockKnown(r, ticket')
                /\ amiss' \cap {"late", "torn"} = {} => CountsKnown(r, ticket', conv', stored')
  <1>3. Good(req'[h])
    <2>1. Known(req'[h], ticket')
      BY <1>1, KnownStep DEF Lone
    <2>2. ASSUME "rebuilt" \notin amiss' PROVE ClockKnown(req'[h], ticket')
      <3>1. /\ "rebuilt" \notin amiss
            /\ req[h].op \notin {"priority", "mailbox"} \/ ticket'.sla = ticket.sla
        BY <2>2, Zenon DEF Records, Happens, Trouble
      <3>. QED
        BY <1>1, <3>1, ClockStep DEF Lone
    <2>3. ASSUME amiss' \cap {"late", "torn"} = {}
          PROVE  CountsKnown(req'[h], ticket', conv', stored')
      <3>1. "late" \notin amiss' /\ "torn" \notin amiss' /\ {"late", "torn"} \subseteq Trouble
        BY <2>3 DEF Trouble
      <3>2. /\ "late" \notin amiss /\ "torn" \notin amiss
            /\ ~Happens(h, "late") /\ ~Happens(h, "torn")
        BY <3>1, Zenon DEF Records
      <3>3. ~LeavesTorn(h)
        BY <3>2, Zenon DEF Happens, LeavesTorn
      <3>4. DeleteMessage(h) => req[h].writes = {}
        BY <3>2, Zenon DEF Happens
      <3>. QED
        BY <1>1, <1>2, <3>2, <3>3, <3>4, CountsStep DEF Lone
    <2>. QED
      BY <2>1, <2>2, <2>3
  <1>4. ASSUME NEW r, r.pc = "idle", r.writes = {}, req'[h].pc = "idle" PROVE Good(r)
    <2>1. req'[h].op = "none" /\ req'[h].writes = {}
      BY <1>2, <1>4 DEF Shapes, Shape
    <2>2. "rebuilt" \notin amiss' => Follows(ticket'.sla, ticket'.status)
      BY <1>3 DEF ClockKnown
    <2>3. amiss' \cap {"late", "torn"} = {} => Counts(ticket', stored') /\ Counts(conv', stored')
      BY <1>3, <1>4, <2>1 DEF CountsKnown
    <2>. HIDE DEF Good
    <2>4. Known(r, ticket')
      BY <1>4 DEF Known, Checked
    <2>5. "rebuilt" \notin amiss' => ClockKnown(r, ticket')
      BY <1>4, <2>2 DEF ClockKnown
    <2>6. amiss' \cap {"late", "torn"} = {} => CountsKnown(r, ticket', conv', stored')
      BY <1>4, <2>3 DEF CountsKnown
    <2>. QED
      BY <2>4, <2>5, <2>6 DEF Good
  <1>5. ASSUME Quiet' PROVE Good(Idle)
    <2>1. req'[h].pc = "idle"
      BY <1>5 DEF Quiet, At
    <2>2. Idle.pc = "idle" /\ Idle.writes = {}
      BY DEF Idle
    <2>. QED
      BY <1>4, <2>1, <2>2
  <1>6. ASSUME NEW g \in Handlers, Alone(g)' PROVE Good(req'[g])
    <2>1. CASE g = h
      BY <1>3, <2>1
    <2>2. CASE g # h
      <3>1. req'[h].pc = "idle" /\ req'[g].pc = "idle"
        BY <1>1, <1>6, <2>2 DEF Alone, At
      <3>2. req'[g].writes = {}
        BY <1>2, <3>1 DEF Shapes, Shape
      <3>. QED
        BY <1>4, <3>1, <3>2
    <2>. QED
      BY <2>1, <2>2
  <1>7. LoneInv'
    BY <1>5, <1>6 DEF LoneInv, Lone
  <1>. QED
    BY <1>1, <1>7

(* Requests that come one at a time keep the counts in step with the       *)
(* messages, as long as the catch block of a failed message finds no save  *)
(* under way and can delete the message and restore both documents, and    *)
(* the process does not stop between the message and its counts; and the   *)
(* clock in step with the status until a change of priority or mailbox     *)
(* begins it anew, whatever fails.  They take a ticket out of "closed" by  *)
(* a reopening only; and neither a self-assignment nor an assignment by    *)
(* one who is no owner or admin takes it from another (createTicketMessage,*)
(* updateTicketStatus, closeTicket, assignTicket, selfAssignTicket,        *)
(* unassignTicket and applyTicketStatusTransitionSla).                     *)
THEOREM LoneTicketRequestsObey == Spec => LoneRequestsObey
  <1>. DEFINE Noted == amiss \subseteq Trouble
             Inv == StepInv /\ Shapes /\ StoredInv /\ LoneInv /\ Noted
  <1>1. Init => LoneInv /\ Noted
    BY LoneStart DEF Init, Trouble
  <1>2. StepInv /\ Shapes /\ StoredInv /\ LoneInv /\ Noted /\ [Next]_vars
          => LoneInv' /\ Noted'
    <2>1. LoneInv /\ UNCHANGED vars => LoneInv'
      BY DEF LoneInv, Lone, Quiet, Alone, At, vars
    <2>2. ASSUME StepInv, Shapes, StoredInv, LoneInv, Next PROVE LoneInv'
      <3>1. PICK h \in Handlers : Handle(h) /\ Records(h)
        BY <2>2 DEF Next
      <3>2. "overlap" \in amiss' => LoneInv'
        BY DEF LoneInv
      <3>. QED
        BY <2>2, <3>1, <3>2, LoneTicketStep
    <2>3. Noted /\ [Next]_vars => Noted'
      BY DEF Next, Records, vars
    <2>. QED
      BY <2>1, <2>2, <2>3
  <1>3. Inv => /\ TypeOK
               /\ Spared({"overlap", "late", "torn"}) => CountersMatchMessages
               /\ Spared({"overlap", "rebuilt"}) => SlaFollowsStatus
    <2>1. Inv => TypeOK
      BY DEF StepInv, DocsOK, StoredInv, TypeOK
    <2>2. ASSUME Inv, Spared({"overlap", "late", "torn"}) PROVE CountersMatchMessages
      <3>1. Quiet => CountsKnown(Idle, ticket, conv, stored)
        BY <2>2 DEF LoneInv, Lone, Spared
      <3>2. Quiet => Counts(ticket, stored) /\ Counts(conv, stored)
        BY <3>1 DEF CountsKnown, Idle
      <3>. QED
        BY <3>2 DEF CountersMatchMessages, Counts, Total
    <2>3. ASSUME Inv, Spared({"overlap", "rebuilt"}) PROVE SlaFollowsStatus
      <3>1. Quiet => Follows(ticket.sla, ticket.status)
        BY <2>3 DEF LoneInv, Lone, Spared, ClockKnown
      <3>2. ticket.sla.resolved \in {"unset", "set"} /\ ticket.sla.running \in {"unset", "set"}
        BY <2>3 DEF StepInv, DocsOK, TicketDoc, TicketDocOf, SlaOf, Stamp
      <3>. QED
        BY <3>1, <3>2 DEF SlaFollowsStatus, Follows
    <2>. QED
      BY <2>1, <2>2, <2>3
  <1>4. ASSUME StepInv, Shapes, StoredInv, LoneInv, Next, "overlap" \notin amiss'
        PROVE  LeavesClosedReopened /\ TakesUnassigned
    <2>1. PICK h \in Handlers : Handle(h) /\ Records(h)
      BY <1>4 DEF Next
    <2>2. Lone(req[h]) /\ Alone(h)
      BY <1>4, <2>1, LoneTicketStep
    <2>3. /\ req[h] \in Request /\ Shape(req[h]) /\ RequestOK(req[h]) /\ Known(req[h], ticket)
      BY <1>4, <2>2 DEF StepInv, DocsOK, RequestsOK, Shapes, Lone
    <2>4. \A g \in Handlers \ {h} : req[g].writes = {}
      BY <1>4, <2>2 DEF Alone, At, Shapes, Shape
    <2>5. \/ ticket' = ticket
          \/ /\ SaveTicket(h) /\ ticket = req[h].doc /\ ticket' = SavedOn(req[h])
             /\ WriteEnds(h, "ticket")
          \/ RollbackTicket(h) /\ ticket' = req[h].doc /\ req[h].op = "message"
      BY <1>4, <2>1, <2>3, KnownStep
    <2>6. ASSUME WriteEnds(h, "ticket")
          PROVE  "ticket" \in req[h].writes /\ req[h].op \in Ops /\ Saves(h)
      <3>1. Idle.writes = {}
        BY DEF Idle
      <3>. QED
        BY <2>3, <2>6, <3>1 DEF WriteEnds, Saves, RequestOK, Request
    <2>7. LeavesClosedReopened
      <3>. SUFFICES ASSUME ticket.status = "closed", ticket'.status # "closed"
                    PROVE  req[h].op = "reopen" /\ Saves(h)
        BY DEF LeavesClosedReopened
      <3>1. CASE SaveTicket(h) /\ ticket = req[h].doc /\ ticket' = SavedOn(req[h]) /\ WriteEnds(h, "ticket")
        <4>1. Changed(req[h]).status # "closed"
          BY <2>3, <2>6, <3>1, SavedAlone
        <4>. QED
          BY <2>3, <2>6, <3>1, <4>1, ClosedStays DEF Known
      <3>2. CASE RollbackTicket(h) /\ ticket' = req[h].doc /\ req[h].op = "message"
        <4>1. req[h].pc \in {"delete", "rollback"}
          BY <1>4, <2>1, <3>2, FailureMoves
        <4>2. ticket = SavedOn(req[h])
          BY <2>3, <3>2, <4>1 DEF Known
        <4>3. \E next \in {req[h].doc.status, "open", "waiting_on_customer"} :
                 Changed(req[h]).status = next
          <5>1. req[h].doc \in TicketDocOf(FreshStamp) /\ req[h].type \in MessageType
            BY <2>3, StampsAreFresh DEF Request
          <5>. QED
            BY <3>2, <5>1, WithMessageFields DEF Changed
        <4>4. SavedOn(req[h]).status = Changed(req[h]).status
          BY <2>3, <3>2, SavedAlone DEF Ops
        <4>. QED
          BY <3>2, <4>2, <4>3, <4>4
      <3>. QED
        BY <2>5, <3>1, <3>2
    <2>8. TakesUnassigned
      <3>. SUFFICES ASSUME NEW g \in Handlers, Saves(g),
                           \/ req[g].op = "self_assign"
                           \/ /\ req[g].op \in {"assign", "unassign"}
                              /\ req[g].actor \notin Managers
                    PROVE  ticket.assignee \in {Nobody, req[g].actor}
        BY Zenon DEF TakesUnassigned
      <3>1. g = h /\ "ticket" \in req[h].writes
        BY <2>4 DEF Saves
      <3>2. ticket = req[h].doc
        BY <2>3, <3>1 DEF Known
      <3>3. Accepted(req[h], req[h].doc)
        BY <2>3, <3>1 DEF Known, Checked
      <3>4. CASE req[h].op = "self_assign"
        BY <3>1, <3>2, <3>3, <3>4 DEF Accepted
      <3>5. CASE req[h].op = "assign" /\ req[h].actor \notin Managers
        BY <3>1, <3>2, <3>3, <3>5 DEF Accepted
      <3>6. CASE req[h].op = "unassign" /\ req[h].actor \notin Managers
        BY <3>1, <3>2, <3>3, <3>6 DEF Accepted
      <3>. QED
        BY <3>1, <3>4, <3>5, <3>6
    <2>. QED
      BY <2>7, <2>8
  <1>5. Inv /\ [Next]_vars =>
          [ "overlap" \notin amiss' => LeavesClosedReopened /\ TakesUnassigned ]_vars
    BY <1>4
  <1>. HIDE DEF Noted
  <1>6. Spec => []Inv
    BY <1>1, <1>2, ShapesInvariant, StoredInvariant, PTL DEF Spec
  <1>. HIDE DEF Inv
  <1>. QED
    BY <1>3, <1>5, <1>6, PTL DEF Spec, LoneRequestsObey

----------------------------------------------------------------------------
(* The files. *)

(* What the module of the files takes from the library is the same here.   *)
LEMMA SameCount == \A S : Disk!Cardinality(S) = Cardinality(S)
  BY DEF Disk!Cardinality, Cardinality

LEMMA SameFinite == \A S : Disk!IsFiniteSet(S) = IsFiniteSet(S)
  BY DEF Disk!IsFiniteSet, IsFiniteSet


LEMMA FileNumbers ==
    /\ StorageLimit \in Nat /\ MaxFiles \in Nat /\ MaxFileMessages \in Nat
    /\ FileHandlers \subseteq Nat \ {0} /\ IsFiniteSet(FileHandlers) /\ FileHandlers # {}
    /\ Cardinality(FileHandlers) \in Nat /\ Cardinality(FileHandlers) >= 1
  <1>1. IsFiniteSet(FileHandlers) /\ FileHandlers # {}
    BY FileBounds, SameCount, SameFinite DEF Disk!FilesAssumption
  <1>2. Cardinality(FileHandlers) \in Nat /\ Cardinality(FileHandlers) # 0
    BY <1>1, FS_CardinalityType, FS_EmptySet
  <1>. QED
    BY <1>1, <1>2, FileBounds DEF Disk!FilesAssumption

LEMMA IdleIsRequest == Disk!Idle \in Disk!Request /\ Disk!Idle.pc = "idle" /\ Disk!Idle.alone = TRUE
  BY FileNumbers DEF Disk!Idle, Disk!Request

LEMMA ReadyCount ==
    ASSUME Disk!TypeOK
    PROVE  IsFiniteSet(Disk!Ready) /\ Cardinality(Disk!Ready) \in 0 .. MaxFiles
  <1>1. IsFiniteSet(Disk!FileIds) /\ Cardinality(Disk!FileIds) = MaxFiles
    BY SMTT(20), FileNumbers, FS_Interval DEF Disk!FileIds
  <1>2. Disk!Ready \subseteq Disk!FileIds
    BY DEF Disk!Ready
  <1>3. IsFiniteSet(Disk!Ready) /\ Cardinality(Disk!Ready) =< Cardinality(Disk!FileIds)
    BY <1>1, <1>2, FS_Subset
  <1>. QED
    BY <1>1, <1>3, FS_CardinalityType, FileNumbers

----------------------------------------------------------------------------
(* How a step moves the requests. *)

(* Of another request a step only notes that it is not alone.              *)
Waits(r, s) ==
    s \in Disk!Request /\ \E alone_ \in BOOLEAN : s = [r EXCEPT !.alone = r.alone /\ alone_]

Begins(h) == Disk!BeginUpload(h) \/ Disk!BeginDelete(h) \/ Disk!BeginAttach(h)

LEMMA Arrives ==
    ASSUME Disk!TypeInv, NEW h \in FileHandlers, NEW r \in Disk!Request, r.pc # "idle",
           Disk!Begin(h, r)
    PROVE  /\ fileReq' \in [FileHandlers -> Disk!Request] /\ fileReq[h].pc = "idle"
           /\ fileReq'[h] = [r EXCEPT !.alone = (Disk!Busy = {})]
           /\ \A g \in FileHandlers \ {h} : Waits(fileReq[g], fileReq'[g]) /\ (g \in Disk!Busy => ~fileReq'[g].alone)
           /\ h \notin Disk!Busy /\ Disk!Busy' = Disk!Busy \cup {h}
           /\ fileBegun' \in Nat /\ crossed' = IF Disk!InUse(r.f) THEN crossed \cup {r.f} ELSE crossed
           /\ unsettled' = (unsettled \/ Disk!Busy # {})
  <1>1. fileReq \in [FileHandlers -> Disk!Request] /\ fileBegun \in Nat
    BY DEF Disk!TypeInv
  <1>2. h \notin Disk!Busy /\ fileReq[h].pc = "idle"
    BY DEF Disk!Begin, Disk!Free, Disk!Busy, Disk!At
  <1>3. /\ fileBegun' = fileBegun + 1
        /\ fileReq' = [g \in FileHandlers |-> IF g = h THEN [r EXCEPT !.alone = (Disk!Busy = {})]
                                          ELSE [fileReq[g] EXCEPT !.alone = @ /\ g \notin Disk!Busy]]
        /\ crossed' = IF Disk!InUse(r.f) THEN crossed \cup {r.f} ELSE crossed
        /\ unsettled' = (unsettled \/ Disk!Busy # {})
    BY DEF Disk!Begin
  <1>4. \A s \in Disk!Request, b \in BOOLEAN : [s EXCEPT !.alone = b] \in Disk!Request
    BY DEF Disk!Request
  <1>5. fileReq' \in [FileHandlers -> Disk!Request]
    <2>1. ASSUME NEW g \in FileHandlers PROVE fileReq'[g] \in Disk!Request
      <3>1. CASE g = h
        BY <1>3, <1>4, <3>1
      <3>2. CASE g # h
        <4>1. (fileReq[g].alone /\ g \notin Disk!Busy) \in BOOLEAN
          OBVIOUS
        <4>2. fileReq'[g] = [fileReq[g] EXCEPT !.alone = fileReq[g].alone /\ g \notin Disk!Busy]
          BY <1>3, <3>2
        <4>. QED
          BY <1>1, <1>4, <4>1, <4>2
      <3>. QED
        BY <3>1, <3>2
    <2>. QED
      BY <1>3, <2>1
  <1>6. fileReq'[h] = [r EXCEPT !.alone = (Disk!Busy = {})]
    BY <1>3
  <1>7. ASSUME NEW g \in FileHandlers \ {h}
        PROVE  /\ fileReq'[g] = [fileReq[g] EXCEPT !.alone = fileReq[g].alone /\ g \notin Disk!Busy]
               /\ Waits(fileReq[g], fileReq'[g]) /\ (g \in Disk!Busy => ~fileReq'[g].alone)
    <2>1. fileReq'[g] = [fileReq[g] EXCEPT !.alone = fileReq[g].alone /\ g \notin Disk!Busy]
      BY <1>3
    <2>2. (g \notin Disk!Busy) \in BOOLEAN
      OBVIOUS
    <2>3. Waits(fileReq[g], fileReq'[g])
      BY <1>5, <2>1, <2>2 DEF Waits
    <2>4. fileReq'[g].alone = (fileReq[g].alone /\ g \notin Disk!Busy)
      BY <1>1, <2>1 DEF Disk!Request
    <2>. QED
      BY <2>1, <2>3, <2>4
  <1>8. \A g \in FileHandlers \ {h} : fileReq'[g].pc = fileReq[g].pc
    BY ZenonT(40), <1>1, <1>7 DEF Disk!Request
  <1>9. fileReq'[h].pc # "idle"
    BY <1>6 DEF Disk!Request
  <1>10. Disk!Busy' = Disk!Busy \cup {h}
    BY <1>8, <1>9 DEF Disk!Busy, Disk!At
  <1>. QED
    BY <1>1, <1>2, <1>3, <1>5, <1>6, <1>7, <1>10

(* What a request is, when it begins.                                      *)
LEMMA Fresh ==
    ASSUME Disk!TypeInv, NEW h \in FileHandlers, Begins(h)
    PROVE  \E r \in Disk!Request :
             /\ Disk!Begin(h, r) /\ r.pc # "idle" /\ r.f \in Disk!FileIds
             /\ UNCHANGED <<Disk!documents, faults, broken>>
             /\ \/ /\ r.pc = "count" /\ r.op = "upload"
                   /\ r.f = given.files + 1 /\ given' = [given EXCEPT !.files = r.f]
                \/ r.pc = "remove" /\ r.op = "delete" /\ r.f \in Disk!Ready /\ given' = given
                \/ /\ r.pc = "message" /\ r.op = "attach" /\ Disk!Attachable(r.f)
                   /\ r.m = given.messages + 1 /\ r.m \in Disk!MessageIds
                   /\ given' = [given EXCEPT !.messages = r.m]
  <1>0. /\ given.files \in 0 .. MaxFiles /\ given.messages \in 0 .. MaxFileMessages
        /\ \A f \in Disk!Ready : f \in Disk!FileIds
        /\ \A o \in Disk!AllOps : o # Disk!None
    BY DEF Disk!TypeInv, Disk!Ready, Disk!AllOps, Disk!None
  <1>1. CASE Disk!BeginUpload(h)
    <2>. DEFINE r == [Disk!Idle EXCEPT !.op = "upload", !.f = given.files + 1, !.pc = "count"]
    <2>1. Disk!Begin(h, r) /\ given.files + 1 <= MaxFiles /\ UNCHANGED <<Disk!documents, faults, broken>>
          /\ given' = [given EXCEPT !.files = given.files + 1]
      BY <1>1 DEF Disk!BeginUpload
    <2>2. r.op \in FileOps
      BY <2>1 DEF Disk!Begin
    <2>3. r \in Disk!Request /\ r.pc = "count" /\ r.op = "upload" /\ r.f = given.files + 1
      <3>1. Disk!Idle \in Disk!Request
        BY IdleIsRequest
      <3>2. 0 \in 0 .. MaxFiles /\ given.files + 1 \in 0 .. MaxFiles /\ 0 \in 0 .. MaxFileMessages
        BY <1>0, <2>1, <2>2, FileNumbers DEF Disk!FileIds
      <3>3. "upload" \in FileOps /\ "count" \in Disk!Uploading
        BY <1>0, <2>1, <2>2, FileNumbers DEF Disk!Idle, Disk!Uploading
      <3>. QED
        BY <3>1, <3>2, <3>3 DEF Disk!Request
    <2>. HIDE DEF r
    <2>4. r.f \in Disk!FileIds
      BY <1>0, <2>1, <2>3, FileNumbers DEF Disk!FileIds
    <2>. QED
      BY <2>1, <2>3, <2>4
  <1>2. CASE Disk!BeginDelete(h)
    <2>1. PICK f \in Disk!Ready : Disk!Begin(h, [Disk!Idle EXCEPT !.op = "delete", !.f = f, !.pc = "remove"])
      BY <1>2 DEF Disk!BeginDelete
    <2>. DEFINE r == [Disk!Idle EXCEPT !.op = "delete", !.f = f, !.pc = "remove"]
    <2>2. r.op \in FileOps
      BY <2>1 DEF Disk!Begin
    <2>3. r \in Disk!Request /\ r.pc = "remove" /\ r.op = "delete" /\ r.f = f
      <3>1. Disk!Idle \in Disk!Request
        BY IdleIsRequest
      <3>2. 0 \in 0 .. MaxFiles /\ f \in 0 .. MaxFiles /\ 0 \in 0 .. MaxFileMessages
        BY <1>0, <2>2, FileNumbers DEF Disk!FileIds
      <3>3. "delete" \in FileOps /\ "remove" \in Disk!Deleting
        BY <1>0, <2>2, FileNumbers DEF Disk!Idle, Disk!Deleting
      <3>. QED
        BY <3>1, <3>2, <3>3 DEF Disk!Request
    <2>4. Disk!Begin(h, r) /\ UNCHANGED <<Disk!documents, faults, broken, given>>
      BY <1>2, <2>1 DEF Disk!BeginDelete, Disk!Begin
    <2>. HIDE DEF r
    <2>. QED
      BY <1>0, <2>3, <2>4
  <1>3. CASE Disk!BeginAttach(h)
    <2>1. PICK f \in Disk!FileIds :
            /\ Disk!Attachable(f)
            /\ Disk!Begin(h, [Disk!Idle EXCEPT !.op = "attach", !.f = f, !.m = given.messages + 1,
                                             !.pc = "message"])
      BY <1>3 DEF Disk!BeginAttach
    <2>. DEFINE r == [Disk!Idle EXCEPT !.op = "attach", !.f = f, !.m = given.messages + 1,
                                      !.pc = "message"]
    <2>2. /\ given.messages + 1 <= MaxFileMessages /\ UNCHANGED <<Disk!documents, faults, broken>>
          /\ given' = [given EXCEPT !.messages = given.messages + 1]
      BY <1>3 DEF Disk!BeginAttach
    <2>3. r.op \in FileOps
      BY <2>1 DEF Disk!Begin
    <2>4. /\ r \in Disk!Request /\ r.pc = "message" /\ r.op = "attach" /\ r.f = f
          /\ r.m = given.messages + 1
      <3>1. Disk!Idle \in Disk!Request
        BY IdleIsRequest
      <3>2. 0 \in 0 .. MaxFiles /\ f \in 0 .. MaxFiles /\ given.messages + 1 \in 0 .. MaxFileMessages
        BY <1>0, <2>2, <2>3, FileNumbers DEF Disk!FileIds
      <3>3. "attach" \in FileOps /\ "message" \in Disk!Attaching
        BY <1>0, <2>2, <2>3, FileNumbers DEF Disk!Idle, Disk!Attaching
      <3>. QED
        BY <3>1, <3>2, <3>3 DEF Disk!Request
    <2>5. r.m \in Disk!MessageIds
      BY <1>0, <2>2, <2>4, FileNumbers DEF Disk!MessageIds
    <2>6. Disk!Begin(h, r)
      BY <2>1
    <2>. HIDE DEF r
    <2>. QED
      BY <2>1, <2>2, <2>4, <2>5, <2>6
  <1>. QED
    BY <1>1, <1>2, <1>3 DEF Begins

Steps == Disk!Uploading \cup Disk!Counting \cup Disk!Deleting \cup Disk!Attaching

(* A request that goes on is about the same.                               *)
Onward(r, s) == /\ s \in Disk!Request /\ s.pc \in Steps /\ s.op = r.op /\ s.f = r.f /\ s.m = r.m
                /\ s.alone = r.alone

LEMMA FileEnds ==
    ASSUME Disk!TypeInv, NEW h \in FileHandlers, Disk!Done(h)
    PROVE  /\ fileReq' \in [FileHandlers -> Disk!Request] /\ fileReq'[h] = Disk!Idle /\ fileReq'[h].pc = "idle"
           /\ \A g \in FileHandlers \ {h} : fileReq'[g] = fileReq[g]
  BY IdleIsRequest DEF Disk!TypeInv, Disk!Done

LEMMA StepsAreBusy == "idle" \notin Steps
  BY DEF Steps, Disk!Uploading, Disk!Counting, Disk!Deleting, Disk!Attaching

LEMMA Goes ==
    ASSUME Disk!TypeInv, NEW h \in FileHandlers, NEW pc \in Steps, Disk!Goto(h, pc)
    PROVE  /\ fileReq' \in [FileHandlers -> Disk!Request] /\ fileReq'[h].pc = pc /\ Onward(fileReq[h], fileReq'[h])
           /\ fileReq'[h].seen = fileReq[h].seen /\ fileReq'[h].found = fileReq[h].found
           /\ \A g \in FileHandlers \ {h} : fileReq'[g] = fileReq[g]
  <1>1. fileReq \in [FileHandlers -> Disk!Request]
    BY DEF Disk!TypeInv
  <1>2. [fileReq[h] EXCEPT !.pc = pc] \in Disk!Request
    BY <1>1 DEF Disk!Request, Steps
  <1>3. fileReq' = [fileReq EXCEPT ![h] = [fileReq[h] EXCEPT !.pc = pc]]
    BY DEF Disk!Goto
  <1>4. fileReq'[h] = [fileReq[h] EXCEPT !.pc = pc]
    BY <1>1, <1>3
  <1>. QED
    BY <1>1, <1>2, <1>3, <1>4 DEF Onward, Disk!Request

(* What every step that begins no request leaves as it is.                 *)
LEMMA FileGoesOn ==
    ASSUME Disk!TypeInv, NEW h \in FileHandlers, Disk!Step(h), ~Begins(h)
    PROVE  /\ fileReq[h].pc # "idle" /\ fileReq' \in [FileHandlers -> Disk!Request]
           /\ \A g \in FileHandlers \ {h} : fileReq'[g] = fileReq[g]
           /\ fileReq'[h] = Disk!Idle \/ Onward(fileReq[h], fileReq'[h])
           /\ UNCHANGED <<given, crossed, fileBegun>> /\ faults' \in Nat
           /\ broken' = broken \/ broken' = broken \cup {fileReq[h].f}
  <1>1. fileReq[h].pc # "idle"
    BY DEF Disk!Step, Begins, Disk!Count, Disk!WriteSnapshot, Disk!CheckLimit, Disk!PutObject,
           Disk!CreateFile, Disk!CleanUpObject, Disk!CountUpload, Disk!RemoveObject,
           Disk!MarkDeleted, Disk!DropLinks, Disk!CreateMessage, Disk!LinkMessage, Disk!FindLink,
           Disk!LinkTicket, Disk!SaveSummary, Disk!Undo, Disk!Unlinked, Disk!DeleteMessage, Disk!Stop, Disk!At,
           Disk!Busy
  <1>2. UNCHANGED <<given, crossed, fileBegun>>
    BY DEF Disk!Step, Begins, Disk!Count, Disk!WriteSnapshot, Disk!CheckLimit, Disk!PutObject,
           Disk!CreateFile, Disk!CleanUpObject, Disk!CountUpload, Disk!RemoveObject,
           Disk!MarkDeleted, Disk!DropLinks, Disk!CreateMessage, Disk!LinkMessage, Disk!FindLink,
           Disk!LinkTicket, Disk!SaveSummary, Disk!Undo, Disk!Unlinked, Disk!DeleteMessage, Disk!Stop, Disk!history
  <1>3. faults' = faults \/ Disk!Fault
    BY DEF Disk!Step, Begins, Disk!Count, Disk!WriteSnapshot, Disk!CheckLimit, Disk!PutObject,
           Disk!CreateFile, Disk!CleanUpObject, Disk!CountUpload, Disk!RemoveObject,
           Disk!MarkDeleted, Disk!DropLinks, Disk!CreateMessage, Disk!LinkMessage, Disk!FindLink,
           Disk!LinkTicket, Disk!SaveSummary, Disk!Undo, Disk!Unlinked, Disk!DeleteMessage, Disk!Stop
  <1>4. faults' \in Nat
    BY <1>3 DEF Disk!Fault, Disk!TypeInv
  <1>5. broken' = broken \/ broken' = broken \cup {fileReq[h].f}
    BY DEF Disk!Step, Begins, Disk!Count, Disk!WriteSnapshot, Disk!CheckLimit, Disk!PutObject,
           Disk!CreateFile, Disk!CleanUpObject, Disk!CountUpload, Disk!RemoveObject,
           Disk!MarkDeleted, Disk!DropLinks, Disk!CreateMessage, Disk!LinkMessage, Disk!FindLink,
           Disk!LinkTicket, Disk!SaveSummary, Disk!Undo, Disk!Unlinked, Disk!DeleteMessage, Disk!Stop, Disk!history
  <1>6. Disk!Done(h) \/ (\E pc \in Steps : Disk!Goto(h, pc)) \/ Disk!Count(h) \/ Disk!FindLink(h)
    <2>1. {"write", "check", "put", "create", "cleanup", "meter", "recount", "rewrite", "mark",
           "drop", "link", "find", "link_ticket", "save", "undo", "retract"} \subseteq Steps
      BY DEF Steps, Disk!Uploading, Disk!Counting, Disk!Deleting, Disk!Attaching
    <2>. QED
      BY <2>1 DEF Disk!Step, Begins, Disk!WriteSnapshot, Disk!CheckLimit, Disk!PutObject,
                  Disk!CreateFile, Disk!CleanUpObject, Disk!CountUpload, Disk!RemoveObject,
                  Disk!MarkDeleted, Disk!DropLinks, Disk!CreateMessage, Disk!LinkMessage,
                  Disk!LinkTicket, Disk!SaveSummary, Disk!Undo, Disk!Unlinked, Disk!DeleteMessage, Disk!Stop,
                  Disk!AfterCreateFailed
  <1>7. CASE Disk!Done(h)
    BY <1>1, <1>2, <1>4, <1>5, <1>7, FileEnds
  <1>8. CASE \E pc \in Steps : Disk!Goto(h, pc)
    BY <1>1, <1>2, <1>4, <1>5, <1>8, Goes
  <1>9. CASE Disk!Count(h) \/ Disk!FindLink(h)
    <2>0. fileReq \in [FileHandlers -> Disk!Request] /\ ticketLink \in [Disk!FileIds -> {Disk!None, "active", "deleted"}]
      BY DEF Disk!TypeInv, Disk!TypeOK
    <2>1. PICK s \in Disk!Request : fileReq' = [fileReq EXCEPT ![h] = s] /\ Onward(fileReq[h], s)
      <3>1. CASE Disk!Count(h)
        <4>1. PICK pc \in {"write", "rewrite"} :
                fileReq' = [fileReq EXCEPT ![h].pc = pc, ![h].seen = Cardinality(Disk!Ready)]
          BY <3>1, SameCount DEF Disk!Count
        <4>. DEFINE s == [fileReq[h] EXCEPT !.pc = pc, !.seen = Cardinality(Disk!Ready)]
        <4>2. Cardinality(Disk!Ready) \in 0 .. MaxFiles
          BY ReadyCount DEF Disk!TypeInv
        <4>3. s \in Disk!Request /\ Onward(fileReq[h], s)
          BY <2>0, <4>2 DEF Disk!Request, Onward, Steps, Disk!Uploading, Disk!Counting
        <4>4. fileReq' = [fileReq EXCEPT ![h] = s]
          BY <4>1
        <4>. QED
          BY <4>3, <4>4
      <3>2. CASE Disk!FindLink(h)
        <4>. DEFINE s == [fileReq[h] EXCEPT !.pc = "link_ticket", !.found = ticketLink[fileReq[h].f]]
        <4>1. fileReq[h].f \in Disk!FileIds
          BY <1>1 DEF Disk!TypeInv, Disk!Busy, Disk!At
        <4>2. s \in Disk!Request /\ Onward(fileReq[h], s)
          BY <2>0, <4>1 DEF Disk!Request, Onward, Steps, Disk!Attaching
        <4>3. fileReq' = [fileReq EXCEPT ![h] = s]
          BY <3>2 DEF Disk!FindLink
        <4>. QED
          BY <4>2, <4>3
      <3>. QED
        BY <1>9, <3>1, <3>2
    <2>. QED
      BY <1>1, <1>2, <1>4, <1>5, <2>0, <2>1
  <1>. QED
    BY <1>6, <1>7, <1>8, <1>9

----------------------------------------------------------------------------
(* Every variable has its type. *)

LEMMA FilesTypeInit == Disk!Init => Disk!TypeInv
  <1>. SUFFICES ASSUME Disk!Init PROVE Disk!TypeInv
    OBVIOUS
  <1>1. Disk!TypeOK
    BY FileNumbers DEF Disk!Init, Disk!TypeOK
  <1>2. \A h \in FileHandlers : fileReq[h] = Disk!Idle /\ fileReq[h].pc = "idle"
    BY IdleIsRequest DEF Disk!Init
  <1>3. fileReq \in [FileHandlers -> Disk!Request]
    BY IdleIsRequest DEF Disk!Init
  <1>4. Disk!Busy = {} /\ "idle" \notin Disk!Attaching
    BY <1>2 DEF Disk!Busy, Disk!At, Disk!Attaching
  <1>5. given \in [files : 0 .. MaxFiles, messages : 0 .. MaxFileMessages]
    BY FileNumbers DEF Disk!Init
  <1>. QED
    BY <1>1, <1>2, <1>3, <1>4, <1>5 DEF Disk!Init, Disk!TypeInv

(* What a request has to do with a file and a message.                     *)
LEMMA RequestData ==
    ASSUME Disk!TypeInv, NEW h \in FileHandlers
    PROVE  /\ fileReq[h] \in Disk!Request
           /\ fileReq[h].pc # "idle" => fileReq[h].f \in Disk!FileIds
           /\ fileReq[h].pc \in Disk!Attaching => fileReq[h].m \in Disk!MessageIds /\ fileReq[h].f \in Disk!FileIds
           /\ h \in Disk!Busy <=> fileReq[h].pc # "idle"
  BY DEF Disk!TypeInv, Disk!Busy, Disk!At, Disk!Attaching

LEMMA DocumentsType ==
    ASSUME Disk!TypeInv, NEW h \in FileHandlers, Disk!Step(h), ~Begins(h)
    PROVE  Disk!TypeOK' /\ unsettled' \in BOOLEAN
  <1>. DEFINE f == fileReq[h].f
              m == fileReq[h].m
  <1>0. /\ fileReq[h] \in Disk!Request /\ fileReq[h].pc # "idle" /\ f \in Disk!FileIds
        /\ fileReq[h].pc \in {"message", "link", "undo", "retract"} => m \in Disk!MessageIds
    BY RequestData, FileGoesOn DEF Disk!Attaching
  <1>1. unsettled' \in BOOLEAN
    <2>1. unsettled \in BOOLEAN
      BY DEF Disk!TypeInv
    <2>2. UNCHANGED unsettled \/ unsettled' = TRUE \/ unsettled' = (unsettled /\ ~fileReq[h].alone)
      BY DEF Disk!Step, Begins, Disk!Count, Disk!WriteSnapshot, Disk!CheckLimit, Disk!PutObject,
             Disk!CreateFile, Disk!CleanUpObject, Disk!CountUpload, Disk!RemoveObject,
             Disk!MarkDeleted, Disk!DropLinks, Disk!CreateMessage, Disk!LinkMessage,
             Disk!FindLink, Disk!LinkTicket, Disk!SaveSummary, Disk!Undo, Disk!Unlinked, Disk!DeleteMessage,
             Disk!Stop, Disk!history
    <2>3. (unsettled /\ ~fileReq[h].alone) \in BOOLEAN
      OBVIOUS
    <2>. QED
      BY <2>1, <2>2, <2>3
  <1>2. CASE Disk!WriteSnapshot(h)
    <2>1. snapshot' \in 0 .. MaxFiles /\ UNCHANGED <<object, file, message, link, ticketLink>>
      BY <1>0, <1>2 DEF Disk!WriteSnapshot, Disk!Request
    <2>. QED
      BY <1>1, <2>1 DEF Disk!TypeInv, Disk!TypeOK
  <1>3. CASE Disk!PutObject(h) \/ Disk!CleanUpObject(h) \/ Disk!RemoveObject(h)
    <2>1. object' \subseteq object \cup {f} /\ UNCHANGED <<file, message, link, ticketLink, snapshot>>
      BY <1>3 DEF Disk!PutObject, Disk!CleanUpObject, Disk!RemoveObject
    <2>. QED
      BY <1>0, <1>1, <2>1 DEF Disk!TypeInv, Disk!TypeOK
  <1>4. CASE Disk!CreateFile(h) \/ Disk!MarkDeleted(h)
    <2>1. file' \in [Disk!FileIds -> {Disk!None, "ready", "deleted"}]
      BY <1>0, <1>4 DEF Disk!CreateFile, Disk!MarkDeleted, Disk!TypeInv, Disk!TypeOK
    <2>2. UNCHANGED <<object, message, link, ticketLink, snapshot>>
      BY <1>4 DEF Disk!CreateFile, Disk!MarkDeleted
    <2>. QED
      BY <1>1, <2>1, <2>2 DEF Disk!TypeInv, Disk!TypeOK
  <1>5. CASE Disk!CreateMessage(h) \/ Disk!DeleteMessage(h)
    <2>1. UNCHANGED <<object, file, link, ticketLink, snapshot>>
      BY <1>5 DEF Disk!CreateMessage, Disk!DeleteMessage
    <2>2. /\ \/ message' = message
             \/ message' = [message EXCEPT ![m] = f]
             \/ message' = [message EXCEPT ![m] = 0]
          /\ m \in Disk!MessageIds /\ f \in 0 .. MaxFiles /\ 0 \in 0 .. MaxFiles
      BY <1>0, <1>5, FileNumbers DEF Disk!CreateMessage, Disk!DeleteMessage, Disk!At, Disk!FileIds
    <2>3. message' \in [Disk!MessageIds -> 0 .. MaxFiles]
      BY <2>2 DEF Disk!TypeInv, Disk!TypeOK
    <2>. QED
      BY <1>1, <2>1, <2>3 DEF Disk!TypeInv, Disk!TypeOK
  <1>6. CASE Disk!DropLinks(h) \/ Disk!LinkMessage(h) \/ Disk!LinkTicket(h) \/ Disk!Undo(h)
    <2>1. UNCHANGED <<object, file, message, snapshot>>
      BY <1>6 DEF Disk!DropLinks, Disk!LinkMessage, Disk!LinkTicket, Disk!Undo
    <2>2. link' \subseteq [f : Disk!FileIds, m : Disk!MessageIds]
      <3>1. CASE Disk!LinkMessage(h)
        <4>1. [f |-> f, m |-> m] \in [f : Disk!FileIds, m : Disk!MessageIds]
          BY <1>0, <3>1 DEF Disk!LinkMessage, Disk!At
        <4>. QED
          BY <3>1, <4>1 DEF Disk!LinkMessage, Disk!TypeInv, Disk!TypeOK
      <3>2. CASE ~Disk!LinkMessage(h)
        BY <1>6, <3>2 DEF Disk!DropLinks, Disk!LinkTicket, Disk!Undo, Disk!Unlinked, Disk!TypeInv, Disk!TypeOK
      <3>. QED
        BY <3>1, <3>2
    <2>3. ticketLink' \in [Disk!FileIds -> {Disk!None, "active", "deleted"}]
      BY <1>0, <1>6 DEF Disk!DropLinks, Disk!LinkMessage, Disk!LinkTicket, Disk!Undo, Disk!Unlinked,
                        Disk!TypeInv, Disk!TypeOK
    <2>. QED
      BY <1>1, <2>1, <2>2, <2>3 DEF Disk!TypeInv, Disk!TypeOK
  <1>7. CASE UNCHANGED Disk!documents
    BY <1>1, <1>7 DEF Disk!TypeInv, Disk!TypeOK, Disk!documents
  <1>. QED
    BY <1>2, <1>3, <1>4, <1>5, <1>6, <1>7
       DEF Disk!Step, Begins, Disk!Count, Disk!CheckLimit, Disk!CountUpload, Disk!FindLink, Disk!SaveSummary, Disk!Stop

LEMMA StepsAttach ==
    ASSUME Disk!TypeInv, NEW h \in FileHandlers, Disk!Step(h), ~Begins(h),
           fileReq'[h].pc \in Disk!Attaching
    PROVE  fileReq[h].pc \in Disk!Attaching
  <1>1. "idle" \notin Disk!Attaching /\ Disk!Attaching \cap (Disk!Uploading \cup Disk!Counting \cup Disk!Deleting) = {}
    BY DEF Disk!Attaching, Disk!Uploading, Disk!Counting, Disk!Deleting
  <1>2. ~Disk!Done(h)
    BY <1>1, FileEnds
  <1>3. CASE Disk!Count(h)
    <2>1. fileReq'[h].pc \in {"write", "rewrite"}
      BY <1>3 DEF Disk!Count, Disk!TypeInv, Disk!Request
    <2>. QED
      BY <2>1 DEF Disk!Attaching
  <1>4. CASE Disk!WriteSnapshot(h) \/ Disk!CheckLimit(h) \/ Disk!PutObject(h) \/ Disk!CreateFile(h)
                  \/ Disk!CountUpload(h)
             \/ Disk!RemoveObject(h) \/ Disk!MarkDeleted(h) \/ Disk!DropLinks(h) \/ Disk!CleanUpObject(h) \/ Disk!Stop(h)
    <2>1. PICK pc \in {"check", "put", "create", "cleanup", "meter", "recount", "mark", "drop"} :
             Disk!Goto(h, pc)
      BY <1>2, <1>4 DEF Disk!WriteSnapshot, Disk!CheckLimit, Disk!PutObject, Disk!CreateFile,
                        Disk!CountUpload, Disk!RemoveObject, Disk!MarkDeleted, Disk!DropLinks,
                        Disk!CleanUpObject, Disk!Stop, Disk!AfterCreateFailed
    <2>2. fileReq'[h].pc = pc
      BY <2>1, Goes DEF Steps, Disk!Uploading, Disk!Counting, Disk!Deleting
    <2>. QED
      BY <2>2 DEF Disk!Attaching
  <1>5. CASE Disk!CreateMessage(h) \/ Disk!LinkMessage(h) \/ Disk!FindLink(h) \/ Disk!LinkTicket(h)
                  \/ Disk!SaveSummary(h)
             \/ Disk!Undo(h) \/ Disk!DeleteMessage(h)
    BY <1>5 DEF Disk!CreateMessage, Disk!LinkMessage, Disk!FindLink, Disk!LinkTicket,
                Disk!SaveSummary, Disk!Undo, Disk!Unlinked, Disk!DeleteMessage, Disk!At, Disk!Attaching
  <1>. QED
    BY <1>3, <1>4, <1>5 DEF Disk!Step, Begins

LEMMA FilesTypeStep == Disk!TypeInv /\ [Disk!Next]_(Disk!vars) => Disk!TypeInv'
  <1>. SUFFICES ASSUME Disk!TypeInv, [Disk!Next]_(Disk!vars) PROVE Disk!TypeInv'
    OBVIOUS
  <1>1. ASSUME NEW h \in FileHandlers, Disk!Step(h), ~Begins(h) PROVE Disk!TypeInv'
    <2>1. Disk!TypeOK' /\ unsettled' \in BOOLEAN
      BY <1>1, DocumentsType
    <2>2. /\ fileReq[h].pc # "idle" /\ fileReq' \in [FileHandlers -> Disk!Request]
          /\ \A g \in FileHandlers \ {h} : fileReq'[g] = fileReq[g]
          /\ fileReq'[h] = Disk!Idle \/ Onward(fileReq[h], fileReq'[h])
          /\ UNCHANGED <<given, crossed, fileBegun>> /\ faults' \in Nat
          /\ broken' = broken \/ broken' = broken \cup {fileReq[h].f}
      BY <1>1, FileGoesOn
    <2>3. fileReq[h].f \in Disk!FileIds /\ (fileReq[h].pc \in Disk!Attaching => fileReq[h].m \in Disk!MessageIds)
      BY <2>2, RequestData
    <2>4. \A g \in FileHandlers : fileReq'[g].pc # "idle" => fileReq'[g].f \in Disk!FileIds
      BY <2>2, <2>3, IdleIsRequest, RequestData DEF Onward
    <2>5. \A g \in FileHandlers : fileReq'[g].pc \in Disk!Attaching => fileReq'[g].m \in Disk!MessageIds
      <3>1. ASSUME fileReq'[h].pc \in Disk!Attaching PROVE fileReq'[h].m \in Disk!MessageIds
        <4>1. fileReq'[h].pc # "idle"
          BY <3>1 DEF Disk!Attaching
        <4>. QED
          BY <1>1, <2>2, <2>3, <3>1, <4>1, StepsAttach, IdleIsRequest DEF Onward
      <3>. QED
        BY <2>2, <3>1, RequestData
    <2>. QED
      BY <2>1, <2>2, <2>3, <2>4, <2>5 DEF Disk!TypeInv, Disk!Busy, Disk!At
  <1>2. ASSUME NEW h \in FileHandlers, Begins(h) PROVE Disk!TypeInv'
    <2>1. PICK r \in Disk!Request :
             /\ Disk!Begin(h, r) /\ r.pc # "idle" /\ r.f \in Disk!FileIds
             /\ UNCHANGED <<Disk!documents, faults, broken>>
             /\ \/ /\ r.pc = "count" /\ r.op = "upload"
                   /\ r.f = given.files + 1 /\ given' = [given EXCEPT !.files = r.f]
                \/ r.pc = "remove" /\ r.op = "delete" /\ r.f \in Disk!Ready /\ given' = given
                \/ /\ r.pc = "message" /\ r.op = "attach" /\ Disk!Attachable(r.f)
                   /\ r.m = given.messages + 1 /\ r.m \in Disk!MessageIds
                   /\ given' = [given EXCEPT !.messages = r.m]
      BY <1>2, Fresh
    <2>2. /\ fileReq' \in [FileHandlers -> Disk!Request] /\ fileReq[h].pc = "idle"
          /\ fileReq'[h] = [r EXCEPT !.alone = (Disk!Busy = {})]
          /\ \A g \in FileHandlers \ {h} : Waits(fileReq[g], fileReq'[g])
          /\ fileBegun' \in Nat /\ crossed' = IF Disk!InUse(r.f) THEN crossed \cup {r.f} ELSE crossed
          /\ unsettled' = (unsettled \/ Disk!Busy # {})
      BY <2>1, Arrives
    <2>3. fileReq'[h].f = r.f /\ fileReq'[h].m = r.m /\ fileReq'[h].pc = r.pc
      BY <2>2 DEF Disk!Request
    <2>4. \A g \in FileHandlers \ {h} :
             fileReq'[g].f = fileReq[g].f /\ fileReq'[g].m = fileReq[g].m /\ fileReq'[g].pc = fileReq[g].pc
      BY <2>2 DEF Waits, Disk!Request, Disk!TypeInv
    <2>5. given' \in [files : 0 .. MaxFiles, messages : 0 .. MaxFileMessages]
      BY <2>1, FileNumbers DEF Disk!TypeInv, Disk!FileIds, Disk!MessageIds
    <2>6. Disk!TypeOK'
      BY <2>1 DEF Disk!documents, Disk!TypeInv, Disk!TypeOK
    <2>7. \A g \in FileHandlers : fileReq'[g].pc # "idle" => fileReq'[g].f \in Disk!FileIds
      BY <2>1, <2>3, <2>4, RequestData
    <2>8. \A g \in FileHandlers : fileReq'[g].pc \in Disk!Attaching => fileReq'[g].m \in Disk!MessageIds
      BY <2>1, <2>3, <2>4, RequestData DEF Disk!Attaching
    <2>9. unsettled' \in BOOLEAN /\ crossed' \subseteq Disk!FileIds
      BY <2>1, <2>2 DEF Disk!TypeInv
    <2>. QED
      BY <2>1, <2>2, <2>5, <2>6, <2>7, <2>8, <2>9 DEF Disk!TypeInv, Disk!Busy, Disk!At
  <1>3. CASE UNCHANGED Disk!vars
    BY <1>3 DEF Disk!vars, Disk!documents, Disk!history, Disk!TypeInv, Disk!TypeOK, Disk!Busy,
                Disk!At
  <1>. QED
    BY <1>1, <1>2, <1>3 DEF Disk!Next

----------------------------------------------------------------------------
(* A number is of one file, or message. *)

(* All that a request which begins changes.                                *)
Opens(h, r) ==
    /\ r \in Disk!Request /\ r.pc # "idle" /\ r.f \in Disk!FileIds
    /\ UNCHANGED <<Disk!documents, faults, broken>>
    /\ \/ /\ r.pc = "count" /\ r.op = "upload"
          /\ r.f = given.files + 1 /\ given' = [given EXCEPT !.files = r.f]
       \/ r.pc = "remove" /\ r.op = "delete" /\ r.f \in Disk!Ready /\ given' = given
       \/ /\ r.pc = "message" /\ r.op = "attach" /\ Disk!Attachable(r.f)
          /\ r.m = given.messages + 1 /\ r.m \in Disk!MessageIds
          /\ given' = [given EXCEPT !.messages = r.m]
    /\ fileReq' \in [FileHandlers -> Disk!Request] /\ fileReq[h].pc = "idle"
    /\ fileReq'[h].pc = r.pc /\ fileReq'[h].f = r.f /\ fileReq'[h].m = r.m
    /\ fileReq'[h].alone = (Disk!Busy = {}) /\ Disk!Busy' = Disk!Busy \cup {h} /\ h \notin Disk!Busy
    /\ \A g \in FileHandlers \ {h} :
          /\ fileReq'[g].pc = fileReq[g].pc /\ fileReq'[g].f = fileReq[g].f /\ fileReq'[g].m = fileReq[g].m
          /\ fileReq'[g].seen = fileReq[g].seen /\ fileReq'[g].found = fileReq[g].found
          /\ g \in Disk!Busy => ~fileReq'[g].alone
    /\ crossed' = IF Disk!InUse(r.f) THEN crossed \cup {r.f} ELSE crossed
    /\ unsettled' = (unsettled \/ Disk!Busy # {})

LEMMA Opening ==
    ASSUME Disk!TypeInv, NEW h \in FileHandlers, Begins(h)
    PROVE  \E r \in Disk!Request : Opens(h, r)
  <1>1. PICK r \in Disk!Request :
             /\ Disk!Begin(h, r) /\ r.pc # "idle" /\ r.f \in Disk!FileIds
             /\ UNCHANGED <<Disk!documents, faults, broken>>
             /\ \/ /\ r.pc = "count" /\ r.op = "upload"
                   /\ r.f = given.files + 1 /\ given' = [given EXCEPT !.files = r.f]
                \/ r.pc = "remove" /\ r.op = "delete" /\ r.f \in Disk!Ready /\ given' = given
                \/ /\ r.pc = "message" /\ r.op = "attach" /\ Disk!Attachable(r.f)
                   /\ r.m = given.messages + 1 /\ r.m \in Disk!MessageIds
                   /\ given' = [given EXCEPT !.messages = r.m]
    BY Fresh
  <1>2. /\ fileReq' \in [FileHandlers -> Disk!Request] /\ fileReq[h].pc = "idle"
        /\ fileReq'[h] = [r EXCEPT !.alone = (Disk!Busy = {})]
        /\ \A g \in FileHandlers \ {h} : Waits(fileReq[g], fileReq'[g]) /\ (g \in Disk!Busy => ~fileReq'[g].alone)
        /\ h \notin Disk!Busy /\ Disk!Busy' = Disk!Busy \cup {h}
        /\ crossed' = IF Disk!InUse(r.f) THEN crossed \cup {r.f} ELSE crossed
        /\ unsettled' = (unsettled \/ Disk!Busy # {})
    BY <1>1, Arrives
  <1>3. /\ fileReq'[h].pc = r.pc /\ fileReq'[h].f = r.f /\ fileReq'[h].m = r.m
        /\ fileReq'[h].alone = (Disk!Busy = {})
    BY <1>2 DEF Disk!Request
  <1>4. ASSUME NEW g \in FileHandlers \ {h}
        PROVE  /\ fileReq'[g].pc = fileReq[g].pc /\ fileReq'[g].f = fileReq[g].f /\ fileReq'[g].m = fileReq[g].m
               /\ fileReq'[g].seen = fileReq[g].seen /\ fileReq'[g].found = fileReq[g].found
    BY <1>2 DEF Waits, Disk!Request, Disk!TypeInv
  <1>. QED
    BY <1>1, <1>2, <1>3, <1>4 DEF Opens

LEMMA NumbersStep ==
    Disk!TypeInv /\ Disk!NumbersAreNew /\ [Disk!Next]_(Disk!vars)
      => Disk!NumbersAreNew'
  <1>. SUFFICES ASSUME Disk!TypeInv, Disk!NumbersAreNew,
                       [Disk!Next]_(Disk!vars) PROVE Disk!NumbersAreNew'
    OBVIOUS
  <1>0. /\ given.files \in Nat /\ given.messages \in Nat /\ \A f \in Disk!FileIds : f \in Nat
        /\ \A m \in Disk!MessageIds : m \in Nat
        /\ \A h \in FileHandlers : fileReq[h] \in Disk!Request /\ fileReq[h].f \in Nat /\ fileReq[h].m \in Nat
    BY DEF Disk!TypeInv, Disk!FileIds, Disk!MessageIds, Disk!Request
  <1>n. /\ \A f \in Disk!FileIds : f > given.files => file[f] = Disk!None /\ f \notin object
        /\ \A h \in FileHandlers : fileReq[h].pc # "idle" => fileReq[h].f =< given.files
        /\ \A m \in Disk!MessageIds : m > given.messages => message[m] = 0
        /\ \A h \in FileHandlers : fileReq[h].pc \in Disk!Attaching =>
             /\ fileReq[h].m =< given.messages /\ message[fileReq[h].m] \in {0, fileReq[h].f}
             /\ \A g \in FileHandlers \ {h} : fileReq[g].pc \in Disk!Attaching => fileReq[g].m # fileReq[h].m
    BY DEF Disk!NumbersAreNew, Disk!Busy, Disk!At
  <1>1. ASSUME NEW h \in FileHandlers, Disk!Step(h), ~Begins(h) PROVE Disk!NumbersAreNew'
    <2>. DEFINE f == fileReq[h].f
                m == fileReq[h].m
    <2>1. /\ fileReq[h].pc # "idle" /\ \A g \in FileHandlers \ {h} : fileReq'[g] = fileReq[g]
          /\ fileReq'[h] = Disk!Idle \/ Onward(fileReq[h], fileReq'[h])
          /\ given' = given
      BY <1>1, FileGoesOn
    <2>2. f \in Disk!FileIds /\ f =< given.files
      BY <1>n, <2>1, RequestData
    <2>3. \A x \in Disk!FileIds \ {f} : file'[x] = file[x] /\ (x \in object' => x \in object)
      <3>1. \/ file' = file
            \/ file' = [file EXCEPT ![f] = "ready"]
            \/ file' = [file EXCEPT ![f] = "deleted"]
        BY <1>1 DEF Disk!Step, Begins, Disk!Count, Disk!WriteSnapshot, Disk!CheckLimit,
                    Disk!PutObject, Disk!CreateFile, Disk!CleanUpObject, Disk!CountUpload,
                    Disk!RemoveObject, Disk!MarkDeleted, Disk!DropLinks, Disk!CreateMessage,
                    Disk!LinkMessage, Disk!FindLink, Disk!LinkTicket, Disk!SaveSummary, Disk!Undo, Disk!Unlinked,
                    Disk!DeleteMessage, Disk!Stop, Disk!documents
      <3>2. object' = object \/ object' = object \cup {f} \/ object' = object \ {f}
        BY <1>1 DEF Disk!Step, Begins, Disk!Count, Disk!WriteSnapshot, Disk!CheckLimit,
                    Disk!PutObject, Disk!CreateFile, Disk!CleanUpObject, Disk!CountUpload,
                    Disk!RemoveObject, Disk!MarkDeleted, Disk!DropLinks, Disk!CreateMessage,
                    Disk!LinkMessage, Disk!FindLink, Disk!LinkTicket, Disk!SaveSummary, Disk!Undo, Disk!Unlinked,
                    Disk!DeleteMessage, Disk!Stop, Disk!documents
      <3>. QED
        BY <3>1, <3>2 DEF Disk!TypeInv, Disk!TypeOK
    <2>4. UNCHANGED message \/ Disk!CreateMessage(h) \/ Disk!DeleteMessage(h)
      BY <1>1 DEF Disk!Step, Begins, Disk!Count, Disk!WriteSnapshot, Disk!CheckLimit,
                  Disk!PutObject, Disk!CreateFile, Disk!CleanUpObject, Disk!CountUpload,
                  Disk!RemoveObject, Disk!MarkDeleted, Disk!DropLinks, Disk!LinkMessage,
                  Disk!FindLink, Disk!LinkTicket, Disk!SaveSummary, Disk!Undo, Disk!Unlinked, Disk!Stop,
                  Disk!documents
    <2>5. /\ Disk!CreateMessage(h) \/ Disk!DeleteMessage(h) => fileReq[h].pc \in Disk!Attaching
          /\ fileReq[h].pc \in Disk!Attaching => m \in Disk!MessageIds /\ m =< given.messages
                                                 /\ message[m] \in {0, f}
      BY <1>n, RequestData DEF Disk!CreateMessage, Disk!DeleteMessage, Disk!At, Disk!Attaching
    <2>6. /\ \A x \in Disk!MessageIds : (x = m /\ fileReq[h].pc \in Disk!Attaching) \/ message'[x] = message[x]
          /\ fileReq[h].pc \in Disk!Attaching => message'[m] \in {0, f}
      <3>1. CASE UNCHANGED message
        BY <2>5, <3>1
      <3>2. CASE Disk!CreateMessage(h) \/ Disk!DeleteMessage(h)
        <4>1. \/ message' = message
              \/ message' = [message EXCEPT ![m] = f]
              \/ message' = [message EXCEPT ![m] = 0]
          BY <3>2 DEF Disk!CreateMessage, Disk!DeleteMessage
        <4>. QED
          BY <2>5, <3>2, <4>1 DEF Disk!TypeInv, Disk!TypeOK
      <3>. QED
        BY <2>4, <3>1, <3>2
    <2>7. \A g \in FileHandlers : fileReq'[g].pc # "idle" =>
             fileReq[g].pc # "idle" /\ fileReq'[g].f = fileReq[g].f /\ fileReq'[g].m = fileReq[g].m
      BY <2>1, IdleIsRequest DEF Onward
    <2>8. \A g \in FileHandlers : fileReq'[g].pc \in Disk!Attaching =>
             fileReq[g].pc \in Disk!Attaching /\ fileReq'[g].pc # "idle"
      <3>1. ASSUME NEW g \in FileHandlers, fileReq'[g].pc \in Disk!Attaching
            PROVE fileReq[g].pc \in Disk!Attaching /\ fileReq'[g].pc # "idle"
        <4>1. fileReq'[g].pc # "idle"
          BY <3>1 DEF Disk!Attaching
        <4>2. CASE g = h
          BY <1>1, <3>1, <4>1, <4>2, StepsAttach
        <4>3. CASE g # h
          BY <2>1, <3>1, <4>1, <4>3
        <4>. QED
          BY <4>2, <4>3
      <3>. QED
        BY <3>1
    <2>. HIDE DEF f, m
    <2>9. \A x \in Disk!FileIds : x > given.files => file'[x] = Disk!None /\ x \notin object'
      BY <1>0, <1>n, <2>2, <2>3
    <2>10. \A x \in Disk!MessageIds : x > given.messages => message'[x] = 0
      BY <1>0, <1>n, <2>5, <2>6
    <2>11. ASSUME NEW g \in FileHandlers, fileReq'[g].pc \in Disk!Attaching
           PROVE  /\ fileReq'[g].m =< given.messages /\ message'[fileReq'[g].m] \in {0, fileReq'[g].f}
                  /\ \A k \in FileHandlers \ {g} : fileReq'[k].pc \in Disk!Attaching => fileReq'[k].m # fileReq'[g].m
      <3>1. fileReq[g].pc \in Disk!Attaching /\ fileReq'[g].f = fileReq[g].f /\ fileReq'[g].m = fileReq[g].m
        BY <2>7, <2>8, <2>11
      <3>2. /\ fileReq[g].m =< given.messages /\ fileReq[g].m \in Disk!MessageIds
            /\ message[fileReq[g].m] \in {0, fileReq[g].f}
        BY <1>n, <3>1, RequestData
      <3>3. message'[fileReq[g].m] \in {0, fileReq[g].f}
        <4>1. CASE g = h
          BY <2>6, <3>1, <4>1 DEF f, m
        <4>2. CASE g # h
          <5>1. ~(fileReq[g].m = m /\ fileReq[h].pc \in Disk!Attaching)
            BY <1>n, <3>1, <4>2 DEF m
          <5>. QED
            BY <2>6, <3>2, <5>1
        <4>. QED
          BY <4>1, <4>2
      <3>4. \A k \in FileHandlers \ {g} : fileReq'[k].pc \in Disk!Attaching => fileReq'[k].m # fileReq'[g].m
        BY <1>n, <2>7, <2>8, <3>1
      <3>. QED
        BY <3>1, <3>2, <3>3, <3>4
    <2>. QED
      BY <1>n, <2>1, <2>7, <2>9, <2>10, <2>11 DEF Disk!NumbersAreNew, Disk!Busy, Disk!At
  <1>2. ASSUME NEW h \in FileHandlers, Begins(h) PROVE Disk!NumbersAreNew'
    <2>1. PICK r \in Disk!Request : Opens(h, r)
      BY <1>2, Opening
    <2>2. UNCHANGED <<file, object, message>>
      BY <2>1 DEF Opens, Disk!documents
    <2>3. /\ given'.files \in Nat /\ given'.messages \in Nat
          /\ given.files =< given'.files /\ given.messages =< given'.messages
          /\ r.f =< given'.files /\ r.f \in Disk!FileIds
          /\ r.pc \in Disk!Attaching => r.m > given.messages /\ r.m =< given'.messages
                                        /\ r.m \in Disk!MessageIds
      <3>1. CASE r.pc = "count"
        BY <1>0, <2>1, <3>1 DEF Opens, Disk!TypeInv, Disk!Attaching
      <3>2. CASE r.pc = "remove"
        <4>1. file[r.f] # Disk!None /\ given' = given
          BY <2>1, <3>2 DEF Opens, Disk!Ready, Disk!None
        <4>. QED
          BY <1>0, <1>n, <2>1, <3>2, <4>1 DEF Opens, Disk!Attaching
      <3>3. CASE r.pc = "message"
        <4>1. file[r.f] # Disk!None
          BY <2>1, <3>3 DEF Opens, Disk!Attachable, Disk!Ready, Disk!None
        <4>. QED
          BY <1>0, <1>n, <2>1, <3>3, <4>1 DEF Opens, Disk!TypeInv
      <3>. QED
        BY <2>1, <3>1, <3>2, <3>3 DEF Opens
    <2>4. \A g \in FileHandlers : fileReq'[g].pc # "idle" => fileReq'[g].f =< given'.files
      BY <1>0, <1>n, <2>1, <2>3 DEF Opens
    <2>5. ASSUME NEW g \in FileHandlers, fileReq'[g].pc \in Disk!Attaching
          PROVE  /\ fileReq'[g].m =< given'.messages /\ message[fileReq'[g].m] \in {0, fileReq'[g].f}
                 /\ \A k \in FileHandlers \ {g} : fileReq'[k].pc \in Disk!Attaching => fileReq'[k].m # fileReq'[g].m
      <3>1. CASE g = h
        BY <1>0, <1>n, <2>1, <2>3, <2>5, <3>1 DEF Opens
      <3>2. CASE g # h
        BY <1>0, <1>n, <2>1, <2>3, <2>5, <3>2 DEF Opens
      <3>. QED
        BY <3>1, <3>2
    <2>6. /\ \A x \in Disk!FileIds : x > given'.files => file[x] = Disk!None /\ x \notin object
          /\ \A x \in Disk!MessageIds : x > given'.messages => message[x] = 0
      BY <1>0, <1>n, <2>3
    <2>. QED
      BY <2>2, <2>4, <2>5, <2>6 DEF Disk!NumbersAreNew, Disk!Busy, Disk!At
  <1>3. CASE UNCHANGED Disk!vars
    BY <1>3 DEF Disk!vars, Disk!documents, Disk!history, Disk!NumbersAreNew, Disk!Busy, Disk!At
  <1>. QED
    BY <1>1, <1>2, <1>3 DEF Disk!Next

----------------------------------------------------------------------------
(* Objects and documents. *)

(* What a step leaves of the file that its request is about.               *)
OwnFile(h) ==
    LET f == fileReq[h].f
    IN  /\ fileReq'[h].pc \in Disk!Uploading =>
                  /\ fileReq[h].pc \in Disk!Uploading /\ file'[f] = Disk!None
                  /\ f \in object' <=> fileReq'[h].pc \in {"create", "cleanup"}
        /\ fileReq'[h].pc \notin Disk!Uploading \cup {"idle"} =>
                  file'[f] # Disk!None /\ (fileReq'[h].pc = "mark" => f \notin object')
        /\ fileReq[h].pc \notin Disk!Uploading => file'[f] # Disk!None /\ (f \in object' => f \in object)
        /\ file'[f] = "deleted" => f \notin object'
        /\ f \in object' /\ file'[f] = Disk!None =>
              f \in broken' \/ fileReq'[h].pc \in {"create", "cleanup"}
        /\ f \notin object' /\ file'[f] = "ready" =>
              \/ f \in broken' \/ fileReq'[h].pc = "mark"
              \/ \E k \in FileHandlers \ {h} : fileReq[k].f = f /\ fileReq[k].pc = "mark"

(* What is known of the file before it.                                    *)
LEMMA OwnFileBefore ==
    ASSUME Disk!TypeInv, Disk!ObjectsFollow, NEW h \in FileHandlers, fileReq[h].pc # "idle"
    PROVE  LET f == fileReq[h].f
           IN  /\ f \in Disk!FileIds
               /\ fileReq[h].pc \in Disk!Uploading =>
                         file[f] = Disk!None /\ (f \in object <=> fileReq[h].pc \in {"create", "cleanup"})
               /\ fileReq[h].pc \notin Disk!Uploading => file[f] # Disk!None
               /\ fileReq[h].pc = "mark" => f \notin object
               /\ file[f] = "deleted" => f \notin object
               /\ f \in object /\ file[f] = Disk!None =>
                     f \in broken \/ fileReq[h].pc \in {"create", "cleanup"}
               /\ f \notin object /\ file[f] = "ready" =>
                     \/ f \in broken \/ fileReq[h].pc = "mark"
                     \/ \E k \in FileHandlers \ {h} : fileReq[k].f = f /\ fileReq[k].pc = "mark"
  <1>. DEFINE f == fileReq[h].f
  <1>1. f \in Disk!FileIds /\ h \in Disk!Busy
    BY RequestData
  <1>2. /\ fileReq[h].pc \in Disk!Uploading =>
                 /\ file[f] = Disk!None /\ (f \in object <=> fileReq[h].pc \in {"create", "cleanup"})
                 /\ \A g \in Disk!Busy : fileReq[g].f = f => g = h
        /\ fileReq[h].pc \notin Disk!Uploading => file[f] # Disk!None /\ (fileReq[h].pc = "mark" => f \notin object)
    BY <1>1 DEF Disk!ObjectsFollow, Disk!At
  <1>3. /\ file[f] = "deleted" => f \notin object
        /\ f \in object /\ file[f] = Disk!None =>
              f \in broken \/ \E k \in Disk!Busy : fileReq[k].f = f /\ fileReq[k].pc \in {"create", "cleanup"}
        /\ f \notin object /\ file[f] = "ready" =>
              f \in broken \/ \E k \in Disk!Busy : fileReq[k].f = f /\ fileReq[k].pc = "mark"
    BY <1>1 DEF Disk!ObjectsFollow, Disk!At
  <1>4. /\ "mark" \notin Disk!Uploading /\ Disk!Busy \subseteq FileHandlers
    BY DEF Disk!Uploading, Disk!Busy
  <1>. QED
    BY <1>1, <1>2, <1>3, <1>4

LEMMA OwnFileAfter ==
    ASSUME Disk!TypeInv, Disk!ObjectsFollow, NEW h \in FileHandlers, Disk!Step(h),
           ~Begins(h)
    PROVE  OwnFile(h)
  <1>. DEFINE f == fileReq[h].f
              q == fileReq'[h].pc
  <1>0. /\ fileReq[h].pc # "idle" /\ broken \subseteq broken' /\ fileReq[h] \in Disk!Request
        /\ "idle" \notin Disk!Uploading /\ "mark" \notin Disk!Uploading
    BY FileGoesOn, RequestData DEF Disk!Uploading
  <1>1. /\ f \in Disk!FileIds
        /\ fileReq[h].pc \in Disk!Uploading =>
                  file[f] = Disk!None /\ (f \in object <=> fileReq[h].pc \in {"create", "cleanup"})
        /\ fileReq[h].pc \notin Disk!Uploading => file[f] # Disk!None
        /\ fileReq[h].pc = "mark" => f \notin object
        /\ file[f] = "deleted" => f \notin object
        /\ f \in object /\ file[f] = Disk!None =>
              f \in broken \/ fileReq[h].pc \in {"create", "cleanup"}
        /\ f \notin object /\ file[f] = "ready" =>
              \/ f \in broken \/ fileReq[h].pc = "mark"
              \/ \E k \in FileHandlers \ {h} : fileReq[k].f = f /\ fileReq[k].pc = "mark"
    BY <1>0, OwnFileBefore
  <1>2. /\ Disk!Done(h) => q = "idle"
        /\ \A pc \in Steps : Disk!Goto(h, pc) => q = pc
    BY FileEnds, Goes
  <1>3. CASE /\ UNCHANGED <<object, file>>
             /\ \/ q = "idle" /\ (fileReq[h].pc \in {"create", "cleanup", "mark"} => f \in broken')
                \/ /\ q \in Disk!Uploading /\ fileReq[h].pc \in Disk!Uploading
                   /\ q \in {"create", "cleanup"} <=> fileReq[h].pc \in {"create", "cleanup"}
                \/ q \notin Disk!Uploading \cup {"mark"} /\ fileReq[h].pc \notin Disk!Uploading \cup {"mark"}
    <2>. HIDE DEF f, q
    <2>. QED
      BY <1>0, <1>1, <1>3 DEF OwnFile, f, q
  <1>4. CASE Disk!Count(h)
    <2>1. \/ fileReq[h].pc = "count" /\ q = "write"
          \/ fileReq[h].pc = "recount" /\ q = "rewrite"
      BY <1>4 DEF Disk!Count, Disk!At, Disk!TypeInv, Disk!Request
    <2>2. UNCHANGED <<object, file>>
      BY <1>4 DEF Disk!Count, Disk!documents
    <2>. QED
      BY <1>3, <2>1, <2>2 DEF Disk!Uploading
  <1>5. CASE Disk!WriteSnapshot(h) \/ Disk!CheckLimit(h)
    <2>1. \/ fileReq[h].pc = "write" /\ q = "check"
          \/ fileReq[h].pc = "check" /\ q = "put"
          \/ fileReq[h].pc \in {"rewrite", "check"} /\ q = "idle"
      BY <1>2, <1>5 DEF Disk!WriteSnapshot, Disk!CheckLimit, Disk!At, Steps, Disk!Uploading
    <2>2. UNCHANGED <<object, file>>
      BY <1>5 DEF Disk!WriteSnapshot, Disk!CheckLimit, Disk!documents
    <2>. QED
      BY <1>3, <2>1, <2>2 DEF Disk!Uploading
  <1>6. CASE Disk!PutObject(h)
    <2>1. fileReq[h].pc = "put" /\ file' = file
      BY <1>6 DEF Disk!PutObject, Disk!At
    <2>2. \/ object' = object \cup {f} /\ q = "create"
          \/ object' = object /\ q = "idle"
      BY <1>2, <1>6 DEF Disk!PutObject, Steps, Disk!Uploading
    <2>. HIDE DEF f, q
    <2>. QED
      BY <1>0, <1>1, <2>1, <2>2 DEF OwnFile, f, q, Disk!Uploading, Disk!None
  <1>7. CASE Disk!CreateFile(h)
    <2>1. fileReq[h].pc = "create" /\ object' = object
      BY <1>7 DEF Disk!CreateFile, Disk!At
    <2>2. \/ file' = [file EXCEPT ![f] = "ready"] /\ q = "meter"
          \/ file' = file /\ q = "cleanup"
      BY <1>2, <1>7 DEF Disk!CreateFile, Steps, Disk!Uploading, Disk!Counting,
                        Disk!AfterCreateFailed
    <2>3. (file'[f] = "ready" /\ q = "meter") \/ (file' = file /\ q = "cleanup")
      <3>1. CASE file' = [file EXCEPT ![f] = "ready"]
        BY <1>1, <2>2, <3>1 DEF Disk!TypeInv, Disk!TypeOK
      <3>2. CASE file' = file
        BY <1>1, <2>2, <3>2 DEF Disk!TypeInv, Disk!TypeOK
      <3>. QED
        BY <2>2, <3>1, <3>2
    <2>. HIDE DEF f, q
    <2>. QED
      BY <1>0, <1>1, <2>1, <2>3 DEF OwnFile, f, q, Disk!Uploading, Disk!None
  <1>8. CASE Disk!CleanUpObject(h)
    <2>1. fileReq[h].pc = "cleanup" /\ file' = file /\ q = "idle"
      BY <1>2, <1>8 DEF Disk!CleanUpObject, Disk!At
    <2>2. \/ object' = object \ {f}
          \/ object' = object /\ f \in broken'
      BY <1>8 DEF Disk!CleanUpObject
    <2>. HIDE DEF f, q
    <2>. QED
      BY <1>0, <1>1, <2>1, <2>2 DEF OwnFile, f, q, Disk!Uploading, Disk!None
  <1>9. CASE Disk!CountUpload(h) \/ Disk!DropLinks(h)
    <2>1. fileReq[h].pc \in {"meter", "drop"} /\ q \in {"recount", "idle"}
      BY <1>2, <1>9 DEF Disk!CountUpload, Disk!DropLinks, Disk!At, Steps, Disk!Counting
    <2>2. UNCHANGED <<object, file>>
      BY <1>9 DEF Disk!CountUpload, Disk!DropLinks, Disk!documents
    <2>. QED
      BY <1>3, <2>1, <2>2 DEF Disk!Uploading
  <1>10. CASE Disk!RemoveObject(h)
    <2>1. fileReq[h].pc = "remove" /\ file' = file
      BY <1>10 DEF Disk!RemoveObject, Disk!At
    <2>2. \/ object' = object \ {f} /\ q = "mark"
          \/ object' = object /\ q = "idle"
      BY <1>2, <1>10 DEF Disk!RemoveObject, Steps, Disk!Deleting
    <2>. HIDE DEF f, q
    <2>. QED
      BY <1>0, <1>1, <2>1, <2>2 DEF OwnFile, f, q, Disk!Uploading, Disk!None
  <1>11. CASE Disk!MarkDeleted(h)
    <2>1. fileReq[h].pc = "mark" /\ object' = object /\ q = "drop"
      BY <1>2, <1>11 DEF Disk!MarkDeleted, Disk!At, Steps, Disk!Deleting
    <2>2. file'[f] = "deleted"
      BY <1>1, <1>11 DEF Disk!MarkDeleted, Disk!TypeInv, Disk!TypeOK
    <2>. HIDE DEF f, q
    <2>. QED
      BY <1>0, <1>1, <2>1, <2>2 DEF OwnFile, f, q, Disk!Uploading, Disk!None
  <1>12. CASE Disk!CreateMessage(h) \/ Disk!LinkMessage(h) \/ Disk!FindLink(h)
                   \/ Disk!LinkTicket(h) \/ Disk!SaveSummary(h)
              \/ Disk!Undo(h) \/ Disk!DeleteMessage(h)
    <2>1. UNCHANGED <<object, file>>
      BY <1>12 DEF Disk!CreateMessage, Disk!LinkMessage, Disk!FindLink, Disk!LinkTicket,
                   Disk!SaveSummary, Disk!Undo, Disk!Unlinked, Disk!DeleteMessage, Disk!documents
    <2>2. fileReq[h].pc \in Disk!Attaching
      BY <1>12 DEF Disk!CreateMessage, Disk!LinkMessage, Disk!FindLink, Disk!LinkTicket,
                   Disk!SaveSummary, Disk!Undo, Disk!Unlinked, Disk!DeleteMessage, Disk!At, Disk!Attaching
    <2>3. q \in {"idle", "link", "find", "link_ticket", "save", "undo", "retract"}
      <3>1. CASE Disk!FindLink(h)
        BY <3>1 DEF Disk!FindLink, Disk!TypeInv, Disk!Request
      <3>2. CASE ~Disk!FindLink(h)
        BY <1>2, <1>12, <3>2 DEF Disk!CreateMessage, Disk!LinkMessage, Disk!LinkTicket,
                                 Disk!SaveSummary, Disk!Undo, Disk!Unlinked, Disk!DeleteMessage, Steps,
                                 Disk!Attaching
      <3>. QED
        BY <3>1, <3>2
    <2>. QED
      BY <1>3, <2>1, <2>2, <2>3 DEF Disk!Attaching, Disk!Uploading
  <1>13. CASE Disk!Stop(h)
    <2>1. UNCHANGED <<object, file>> /\ q = "idle" /\ f \in broken'
      BY <1>2, <1>13 DEF Disk!Stop, Disk!documents
    <2>. QED
      BY <1>3, <2>1
  <1>. QED
    BY <1>4, <1>5, <1>6, <1>7, <1>8, <1>9, <1>10, <1>11, <1>12, <1>13 DEF Disk!Step, Begins

LEMMA ObjectsStep ==
    Disk!TypeInv /\ Disk!NumbersAreNew /\ Disk!ObjectsFollow /\ [Disk!Next]_(Disk!vars)
      => Disk!ObjectsFollow'
  <1>. SUFFICES ASSUME Disk!TypeInv, Disk!NumbersAreNew, Disk!ObjectsFollow,
                       [Disk!Next]_(Disk!vars) PROVE Disk!ObjectsFollow'
    OBVIOUS
  <1>b. \A g : /\ g \in Disk!Busy <=> g \in FileHandlers /\ fileReq[g].pc # "idle"
               /\ g \in Disk!Busy' <=> g \in FileHandlers /\ fileReq'[g].pc # "idle"
    BY DEF Disk!Busy, Disk!At
  <1>u. "idle" \notin Disk!Uploading /\ "mark" \notin Disk!Uploading
    BY DEF Disk!Uploading
  <1>o. /\ \A g \in Disk!Busy :
             /\ fileReq[g].pc \in Disk!Uploading =>
                       /\ file[fileReq[g].f] = Disk!None
                       /\ fileReq[g].f \in object <=> fileReq[g].pc \in {"create", "cleanup"}
                       /\ \A k \in Disk!Busy : fileReq[k].f = fileReq[g].f => k = g
             /\ fileReq[g].pc \notin Disk!Uploading =>
                       file[fileReq[g].f] # Disk!None /\ (fileReq[g].pc = "mark" => fileReq[g].f \notin object)
        /\ \A f \in Disk!FileIds :
             /\ file[f] = "deleted" => f \notin object
             /\ f \in object /\ file[f] = Disk!None =>
                   f \in broken \/ \E g \in Disk!Busy : fileReq[g].f = f /\ fileReq[g].pc \in {"create", "cleanup"}
             /\ f \notin object /\ file[f] = "ready" =>
                   f \in broken \/ \E g \in Disk!Busy : fileReq[g].f = f /\ fileReq[g].pc = "mark"
    BY DEF Disk!ObjectsFollow, Disk!At
  <1>s. SUFFICES
          /\ \A g \in Disk!Busy' :
               /\ fileReq'[g].pc \in Disk!Uploading =>
                         /\ file'[fileReq'[g].f] = Disk!None
                         /\ fileReq'[g].f \in object' <=> fileReq'[g].pc \in {"create", "cleanup"}
                         /\ \A k \in Disk!Busy' : fileReq'[k].f = fileReq'[g].f => k = g
               /\ fileReq'[g].pc \notin Disk!Uploading =>
                         file'[fileReq'[g].f] # Disk!None /\ (fileReq'[g].pc = "mark" => fileReq'[g].f \notin object')
          /\ \A f \in Disk!FileIds :
               /\ file'[f] = "deleted" => f \notin object'
               /\ f \in object' /\ file'[f] = Disk!None =>
                     \/ f \in broken'
                     \/ \E g \in Disk!Busy' : fileReq'[g].f = f /\ fileReq'[g].pc \in {"create", "cleanup"}
               /\ f \notin object' /\ file'[f] = "ready" =>
                     f \in broken' \/ \E g \in Disk!Busy' : fileReq'[g].f = f /\ fileReq'[g].pc = "mark"
    BY DEF Disk!ObjectsFollow, Disk!At
  <1>1. ASSUME NEW h \in FileHandlers, Disk!Step(h), ~Begins(h)
        PROVE  /\ \A g \in Disk!Busy' :
                    /\ fileReq'[g].pc \in Disk!Uploading =>
                              /\ file'[fileReq'[g].f] = Disk!None
                              /\ fileReq'[g].f \in object' <=> fileReq'[g].pc \in {"create", "cleanup"}
                              /\ \A k \in Disk!Busy' : fileReq'[k].f = fileReq'[g].f => k = g
                    /\ fileReq'[g].pc \notin Disk!Uploading =>
                              /\ file'[fileReq'[g].f] # Disk!None
                              /\ fileReq'[g].pc = "mark" => fileReq'[g].f \notin object'
               /\ \A f \in Disk!FileIds :
                    /\ file'[f] = "deleted" => f \notin object'
                    /\ f \in object' /\ file'[f] = Disk!None =>
                          \/ f \in broken'
                          \/ \E g \in Disk!Busy' : fileReq'[g].f = f /\ fileReq'[g].pc \in {"create", "cleanup"}
                    /\ f \notin object' /\ file'[f] = "ready" =>
                          f \in broken' \/ \E g \in Disk!Busy' : fileReq'[g].f = f /\ fileReq'[g].pc = "mark"
    <2>. DEFINE x == fileReq[h].f
    <2>1. /\ h \in Disk!Busy /\ x \in Disk!FileIds
          /\ \A g \in FileHandlers \ {h} : fileReq'[g] = fileReq[g]
          /\ fileReq'[h].pc # "idle" => fileReq'[h].f = x
          /\ broken \subseteq broken'
      BY <1>1, <1>b, FileGoesOn, RequestData, IdleIsRequest DEF Onward
    <2>2. OwnFile(h)
      BY <1>1, OwnFileAfter
    <2>3. \A f \in Disk!FileIds \ {x} : file'[f] = file[f] /\ (f \in object' <=> f \in object)
      <3>1. \/ file' = file
            \/ file' = [file EXCEPT ![x] = "ready"]
            \/ file' = [file EXCEPT ![x] = "deleted"]
        BY <1>1 DEF Disk!Step, Begins, Disk!Count, Disk!WriteSnapshot, Disk!CheckLimit,
                    Disk!PutObject, Disk!CreateFile, Disk!CleanUpObject, Disk!CountUpload,
                    Disk!RemoveObject, Disk!MarkDeleted, Disk!DropLinks, Disk!CreateMessage,
                    Disk!LinkMessage, Disk!FindLink, Disk!LinkTicket, Disk!SaveSummary, Disk!Undo, Disk!Unlinked,
                    Disk!DeleteMessage, Disk!Stop, Disk!documents
      <3>2. object' = object \/ object' = object \cup {x} \/ object' = object \ {x}
        BY <1>1 DEF Disk!Step, Begins, Disk!Count, Disk!WriteSnapshot, Disk!CheckLimit,
                    Disk!PutObject, Disk!CreateFile, Disk!CleanUpObject, Disk!CountUpload,
                    Disk!RemoveObject, Disk!MarkDeleted, Disk!DropLinks, Disk!CreateMessage,
                    Disk!LinkMessage, Disk!FindLink, Disk!LinkTicket, Disk!SaveSummary, Disk!Undo, Disk!Unlinked,
                    Disk!DeleteMessage, Disk!Stop, Disk!documents
      <3>3. file \in [Disk!FileIds -> {Disk!None, "ready", "deleted"}]
        BY DEF Disk!TypeInv, Disk!TypeOK
      <3>. HIDE DEF x
      <3>. QED
        BY <3>1, <3>2, <3>3
    <2>4. ASSUME NEW g \in Disk!Busy', g # h
          PROVE  /\ fileReq'[g].pc \in Disk!Uploading =>
                           /\ file'[fileReq'[g].f] = Disk!None
                           /\ fileReq'[g].f \in object' <=> fileReq'[g].pc \in {"create", "cleanup"}
                           /\ \A k \in Disk!Busy' : fileReq'[k].f = fileReq'[g].f => k = g
                 /\ fileReq'[g].pc \notin Disk!Uploading =>
                           /\ file'[fileReq'[g].f] # Disk!None
                           /\ fileReq'[g].pc = "mark" => fileReq'[g].f \notin object'
      <3>1. g \in Disk!Busy /\ g \in FileHandlers /\ fileReq'[g] = fileReq[g] /\ fileReq[g].f \in Disk!FileIds
        BY <1>b, <2>1, <2>4, RequestData
      <3>2. CASE fileReq[g].f = x
        <4>1. fileReq[h].pc \notin Disk!Uploading /\ fileReq[g].pc \notin Disk!Uploading
          BY <1>o, <2>1, <2>4, <3>1, <3>2
        <4>2. file'[x] # Disk!None /\ (x \in object' => x \in object)
          BY <2>2, <4>1 DEF OwnFile
        <4>. QED
          BY <1>o, <3>1, <3>2, <4>1, <4>2
      <3>3. CASE fileReq[g].f # x
        <4>1. \A k \in Disk!Busy' : k \in Disk!Busy /\ fileReq'[k].f = fileReq[k].f
          BY <1>b, <2>1
        <4>. HIDE DEF x
        <4>. QED
          BY <1>o, <2>3, <3>1, <3>3, <4>1
      <3>. QED
        BY <3>2, <3>3
    <2>5. ASSUME h \in Disk!Busy'
          PROVE  /\ fileReq'[h].pc \in Disk!Uploading =>
                           /\ file'[x] = Disk!None
                           /\ x \in object' <=> fileReq'[h].pc \in {"create", "cleanup"}
                           /\ \A k \in Disk!Busy' : fileReq'[k].f = x => k = h
                 /\ fileReq'[h].pc \notin Disk!Uploading =>
                           file'[x] # Disk!None /\ (fileReq'[h].pc = "mark" => x \notin object')
      <3>1. fileReq'[h].pc # "idle"
        BY <1>b, <2>5
      <3>2. fileReq'[h].pc \in Disk!Uploading => fileReq[h].pc \in Disk!Uploading
        BY <2>2 DEF OwnFile
      <3>3. fileReq[h].pc \in Disk!Uploading => \A k \in Disk!Busy' : fileReq'[k].f = x => k = h
        BY <1>b, <1>o, <2>1
      <3>. QED
        BY <2>2, <3>1, <3>2, <3>3 DEF OwnFile
    <2>6. ASSUME NEW f \in Disk!FileIds, f # x
          PROVE  /\ file'[f] = "deleted" => f \notin object'
                 /\ f \in object' /\ file'[f] = Disk!None =>
                       \/ f \in broken'
                       \/ \E g \in Disk!Busy' : fileReq'[g].f = f /\ fileReq'[g].pc \in {"create", "cleanup"}
                 /\ f \notin object' /\ file'[f] = "ready" =>
                       f \in broken' \/ \E g \in Disk!Busy' : fileReq'[g].f = f /\ fileReq'[g].pc = "mark"
      <3>1. file'[f] = file[f] /\ (f \in object' <=> f \in object)
        BY <2>3, <2>6
      <3>2. \A g \in Disk!Busy : fileReq[g].f = f => g \in Disk!Busy' /\ fileReq'[g] = fileReq[g]
        BY <1>b, <2>1, <2>6
      <3>. HIDE DEF x
      <3>. QED
        BY <1>o, <2>1, <3>1, <3>2
    <2>7. /\ file'[x] = "deleted" => x \notin object'
          /\ x \in object' /\ file'[x] = Disk!None =>
                \/ x \in broken'
                \/ \E g \in Disk!Busy' : fileReq'[g].f = x /\ fileReq'[g].pc \in {"create", "cleanup"}
          /\ x \notin object' /\ file'[x] = "ready" =>
                x \in broken' \/ \E g \in Disk!Busy' : fileReq'[g].f = x /\ fileReq'[g].pc = "mark"
      <3>1. /\ fileReq'[h].pc # "idle" => h \in Disk!Busy' /\ fileReq'[h].f = x
            /\ \A k \in FileHandlers \ {h} : fileReq[k].pc = "mark" => k \in Disk!Busy' /\ fileReq'[k] = fileReq[k]
        BY <1>b, <2>1
      <3>. QED
        BY <2>2, <3>1 DEF OwnFile
    <2>8. h \in Disk!Busy' => fileReq'[h].f = x
      BY <1>b, <2>1
    <2>. HIDE DEF x
    <2>. QED
      BY <2>4, <2>5, <2>6, <2>7, <2>8
  <1>2. ASSUME NEW h \in FileHandlers, Begins(h)
        PROVE  /\ \A g \in Disk!Busy' :
                    /\ fileReq'[g].pc \in Disk!Uploading =>
                              /\ file'[fileReq'[g].f] = Disk!None
                              /\ fileReq'[g].f \in object' <=> fileReq'[g].pc \in {"create", "cleanup"}
                              /\ \A k \in Disk!Busy' : fileReq'[k].f = fileReq'[g].f => k = g
                    /\ fileReq'[g].pc \notin Disk!Uploading =>
                              /\ file'[fileReq'[g].f] # Disk!None
                              /\ fileReq'[g].pc = "mark" => fileReq'[g].f \notin object'
               /\ \A f \in Disk!FileIds :
                    /\ file'[f] = "deleted" => f \notin object'
                    /\ f \in object' /\ file'[f] = Disk!None =>
                          \/ f \in broken'
                          \/ \E g \in Disk!Busy' : fileReq'[g].f = f /\ fileReq'[g].pc \in {"create", "cleanup"}
                    /\ f \notin object' /\ file'[f] = "ready" =>
                          f \in broken' \/ \E g \in Disk!Busy' : fileReq'[g].f = f /\ fileReq'[g].pc = "mark"
    <2>1. PICK r \in Disk!Request : Opens(h, r)
      BY <1>2, Opening
    <2>2. /\ UNCHANGED <<file, object, broken>> /\ r.f \in Disk!FileIds /\ h \notin Disk!Busy
          /\ Disk!Busy' = Disk!Busy \cup {h} /\ fileReq'[h].pc = r.pc /\ fileReq'[h].f = r.f
          /\ \A g \in Disk!Busy : fileReq'[g].pc = fileReq[g].pc /\ fileReq'[g].f = fileReq[g].f
      BY <1>b, <2>1 DEF Opens, Disk!documents
    <2>3. \/ /\ r.pc = "count" /\ file[r.f] = Disk!None /\ r.f \notin object
             /\ \A g \in Disk!Busy : fileReq[g].f # r.f
          \/ r.pc \in {"remove", "message"} /\ file[r.f] = "ready"
      <3>1. CASE r.pc = "count"
        <4>1. r.f = given.files + 1 /\ given.files \in Nat
          BY <2>1, <3>1 DEF Opens, Disk!TypeInv
        <4>2. file[r.f] = Disk!None /\ r.f \notin object
          BY <2>2, <4>1 DEF Disk!NumbersAreNew
        <4>3. \A g \in Disk!Busy : fileReq[g].f =< given.files
          BY DEF Disk!NumbersAreNew
        <4>. QED
          BY <3>1, <4>1, <4>2, <4>3
      <3>2. CASE r.pc # "count"
        BY <2>1, <3>2 DEF Opens, Disk!Attachable, Disk!Ready
      <3>. QED
        BY <3>1, <3>2
    <2>4. "count" \in Disk!Uploading /\ "remove" \notin Disk!Uploading /\ "message" \notin Disk!Uploading
      BY DEF Disk!Uploading
    <2>5. "ready" # Disk!None
      BY DEF Disk!None
    <2>. QED
      BY <1>o, <2>2, <2>3, <2>4, <2>5
  <1>3. CASE UNCHANGED Disk!vars
    BY <1>3, <1>o DEF Disk!vars, Disk!documents, Disk!history, Disk!Busy, Disk!At
  <1>. QED
    BY <1>1, <1>2, <1>3 DEF Disk!Next

----------------------------------------------------------------------------
(* The limit of the plan. *)

LEMMA EnteringFinite ==
    /\ IsFiniteSet(Disk!Entering) /\ Cardinality(Disk!Entering) \in Nat
    /\ Cardinality(Disk!Entering) =< Cardinality(FileHandlers)
  BY FileNumbers, FS_Subset, FS_CardinalityType DEF Disk!Entering

LEMMA EnteringFiniteNext ==
    /\ IsFiniteSet(Disk!Entering') /\ Cardinality(Disk!Entering') \in Nat
    /\ Cardinality(Disk!Entering') =< Cardinality(FileHandlers)
  BY FileNumbers, FS_Subset, FS_CardinalityType DEF Disk!Entering

(* Nobody enters, and no file is added.                                    *)
LEMMA NobodyEnters ==
    ASSUME Disk!TypeInv, Disk!RoomIsCounted, Disk!Entering' \subseteq Disk!Entering,
           Disk!Ready' \subseteq Disk!Ready
    PROVE  Disk!RoomIsCounted'
  <1>1. Cardinality(Disk!Entering') =< Cardinality(Disk!Entering)
    BY EnteringFinite, FS_Subset
  <1>2. Cardinality(Disk!Ready') =< Cardinality(Disk!Ready) /\ Cardinality(Disk!Ready') \in Nat
    BY ReadyCount, FS_Subset, FS_CardinalityType DEF Disk!TypeInv
  <1>3. Cardinality(Disk!Ready) \in Nat
    BY ReadyCount DEF Disk!TypeInv
  <1>. QED
    BY <1>1, <1>2, <1>3, EnteringFinite, EnteringFiniteNext, FileNumbers,
       SameCount DEF Disk!RoomIsCounted

LEMMA OthersEnter ==
    ASSUME NEW h \in FileHandlers,
           \A g \in FileHandlers \ {h} : fileReq'[g].pc = fileReq[g].pc /\ fileReq'[g].seen = fileReq[g].seen
    PROVE  \A g \in FileHandlers \ {h} : g \in Disk!Entering' <=> g \in Disk!Entering
  BY DEF Disk!Entering, Disk!Allowed

LEMMA RoomStep ==
    Disk!TypeInv /\ Disk!RoomIsCounted /\ [Disk!Next]_(Disk!vars)
      => Disk!RoomIsCounted'
  <1>. SUFFICES ASSUME Disk!TypeInv, Disk!RoomIsCounted,
                       [Disk!Next]_(Disk!vars) PROVE Disk!RoomIsCounted'
    OBVIOUS
  <1>1. ASSUME NEW h \in FileHandlers, Disk!Step(h), ~Begins(h) PROVE Disk!RoomIsCounted'
    <2>1. /\ fileReq[h] \in Disk!Request /\ fileReq[h].pc # "idle"
          /\ \A g \in FileHandlers \ {h} : fileReq'[g] = fileReq[g]
      BY <1>1, FileGoesOn, RequestData
    <2>2. \A g \in FileHandlers \ {h} : g \in Disk!Entering' <=> g \in Disk!Entering
      BY <2>1, OthersEnter
    <2>3. /\ Disk!Done(h) => fileReq'[h].pc = "idle"
          /\ \A pc \in Steps : Disk!Goto(h, pc) => fileReq'[h].pc = pc /\ fileReq'[h].seen = fileReq[h].seen
      BY FileEnds, Goes
    <2>4. ASSUME h \in Disk!Entering' => h \in Disk!Entering,
                 file' = file \/ Disk!MarkDeleted(h)
          PROVE  Disk!RoomIsCounted'
      <3>1. Disk!Ready' \subseteq Disk!Ready
        BY <2>4 DEF Disk!Ready, Disk!MarkDeleted, Disk!TypeInv, Disk!TypeOK
      <3>2. Disk!Entering' \subseteq Disk!Entering
        BY <2>2, <2>4 DEF Disk!Entering
      <3>. QED
        BY <3>1, <3>2, NobodyEnters
    <2>5. CASE Disk!Count(h)
      <3>1. file' = file
        BY <2>5 DEF Disk!Count, Disk!documents
      <3>2. CASE fileReq[h].pc = "count" /\ Disk!Allowed(Cardinality(Disk!Ready))
        <4>1. Disk!Ready' = Disk!Ready
          BY <3>1 DEF Disk!Ready
        <4>. QED
          BY <3>2, <4>1, ReadyCount, EnteringFiniteNext, FileNumbers,
             SameCount DEF Disk!RoomIsCounted, Disk!Allowed, Disk!TypeInv
      <3>3. CASE ~(fileReq[h].pc = "count" /\ Disk!Allowed(Cardinality(Disk!Ready)))
        <4>1. \/ fileReq'[h].pc = "write" /\ fileReq'[h].seen = Cardinality(Disk!Ready) /\ fileReq[h].pc = "count"
              \/ fileReq'[h].pc = "rewrite"
          BY <2>5, SameCount DEF Disk!Count, Disk!At, Disk!TypeInv, Disk!Request
        <4>2. h \notin Disk!Entering'
          BY <3>3, <4>1 DEF Disk!Entering, Disk!Allowed
        <4>. QED
          BY <2>4, <3>1, <4>2
      <3>. QED
        BY <3>2, <3>3
    <2>6. CASE Disk!CreateFile(h)
      <3>1. h \in Disk!Entering /\ fileReq[h].f \in Disk!FileIds
        BY <2>1, <2>6, RequestData DEF Disk!CreateFile, Disk!At, Disk!Entering
      <3>2. CASE file' = file
        BY <2>4, <3>1, <3>2
      <3>3. CASE file' = [file EXCEPT ![fileReq[h].f] = "ready"] /\ Disk!Goto(h, "meter")
        <4>1. Disk!Ready' \subseteq Disk!Ready \cup {fileReq[h].f}
          BY <3>3 DEF Disk!Ready, Disk!TypeInv, Disk!TypeOK
        <4>2. IsFiniteSet(Disk!Ready) /\ Cardinality(Disk!Ready) \in Nat
          BY ReadyCount DEF Disk!TypeInv
        <4>3. /\ IsFiniteSet(Disk!Ready \cup {fileReq[h].f}) /\ Cardinality(Disk!Ready \cup {fileReq[h].f}) \in Nat
              /\ Cardinality(Disk!Ready \cup {fileReq[h].f}) =< Cardinality(Disk!Ready) + 1
          <5>1. /\ IsFiniteSet(Disk!Ready \cup {fileReq[h].f})
                /\ \/ Cardinality(Disk!Ready \cup {fileReq[h].f}) = Cardinality(Disk!Ready)
                   \/ Cardinality(Disk!Ready \cup {fileReq[h].f}) = Cardinality(Disk!Ready) + 1
            BY <4>2, FS_AddElement
          <5>. QED
            BY <4>2, <5>1
        <4>4. Cardinality(Disk!Ready') \in Nat /\ Cardinality(Disk!Ready') =< Cardinality(Disk!Ready) + 1
          <5>1. /\ Cardinality(Disk!Ready') \in Nat
                /\ Cardinality(Disk!Ready') =< Cardinality(Disk!Ready \cup {fileReq[h].f})
            BY <4>1, <4>3, FS_Subset, FS_CardinalityType
          <5>. QED
            BY <5>1, <4>2, <4>3
        <4>5. fileReq'[h].pc = "meter"
          BY <2>3, <3>3 DEF Steps, Disk!Counting
        <4>6. h \notin Disk!Entering'
          BY <4>5 DEF Disk!Entering
        <4>7. Disk!Entering' \subseteq Disk!Entering \ {h}
          BY <2>2, <4>6 DEF Disk!Entering
        <4>8. /\ IsFiniteSet(Disk!Entering \ {h})
              /\ Cardinality(Disk!Entering \ {h}) = Cardinality(Disk!Entering) - 1
          BY <3>1, EnteringFinite, FS_RemoveElement
        <4>9. Cardinality(Disk!Entering') =< Cardinality(Disk!Entering) - 1
          BY <4>7, <4>8, FS_Subset
        <4>. QED
          BY <4>2, <4>4, <4>9, EnteringFinite, EnteringFiniteNext, SameCount,
             FileNumbers DEF Disk!RoomIsCounted
      <3>. QED
        BY <2>6, <3>2, <3>3 DEF Disk!CreateFile
    <2>7. CASE Disk!WriteSnapshot(h) \/ Disk!CheckLimit(h) \/ Disk!PutObject(h)
      <3>1. file' = file
        BY <2>7 DEF Disk!WriteSnapshot, Disk!CheckLimit, Disk!PutObject, Disk!documents
      <3>2. \/ fileReq'[h].pc = "idle"
            \/ fileReq[h].pc = "write" /\ fileReq'[h].pc = "check" /\ fileReq'[h].seen = fileReq[h].seen
            \/ fileReq[h].pc = "check" /\ Disk!Allowed(fileReq[h].seen)
            \/ fileReq[h].pc = "put"
        BY <2>3, <2>7 DEF Disk!WriteSnapshot, Disk!CheckLimit, Disk!PutObject, Disk!At, Steps,
                          Disk!Uploading
      <3>3. h \in Disk!Entering' => h \in Disk!Entering
        BY <3>2 DEF Disk!Entering, Disk!Allowed
      <3>. QED
        BY <2>4, <3>1, <3>3
    <2>8. CASE ~(Disk!Count(h) \/ Disk!CreateFile(h) \/ Disk!WriteSnapshot(h) \/ Disk!CheckLimit(h)
                    \/ Disk!PutObject(h))
      <3>1. file' = file \/ Disk!MarkDeleted(h)
        BY <1>1, <2>8 DEF Disk!Step, Begins, Disk!CleanUpObject, Disk!CountUpload,
                          Disk!RemoveObject, Disk!DropLinks, Disk!CreateMessage, Disk!LinkMessage,
                          Disk!FindLink, Disk!LinkTicket, Disk!SaveSummary, Disk!Undo, Disk!Unlinked,
                          Disk!DeleteMessage, Disk!Stop, Disk!documents
      <3>2. fileReq'[h].pc \in {"idle", "mark", "drop", "recount", "link", "find", "link_ticket", "save",
                                "undo", "retract"}
        <4>1. CASE Disk!FindLink(h)
          BY <4>1 DEF Disk!FindLink, Disk!TypeInv, Disk!Request
        <4>2. CASE ~Disk!FindLink(h)
          BY <1>1, <2>3, <2>8, <4>2 DEF Disk!Step, Begins, Disk!CleanUpObject, Disk!CountUpload,
                                        Disk!RemoveObject, Disk!MarkDeleted, Disk!DropLinks,
                                        Disk!CreateMessage, Disk!LinkMessage, Disk!LinkTicket,
                                        Disk!SaveSummary, Disk!Undo, Disk!Unlinked, Disk!DeleteMessage,
                                        Disk!Stop, Steps, Disk!Uploading, Disk!Counting,
                                        Disk!Deleting, Disk!Attaching
        <4>. QED
          BY <4>1, <4>2
      <3>3. h \notin Disk!Entering'
        BY <3>2 DEF Disk!Entering
      <3>. QED
        BY <2>4, <3>1, <3>3
    <2>. QED
      BY <2>5, <2>6, <2>7, <2>8
  <1>2. ASSUME NEW h \in FileHandlers, Begins(h) PROVE Disk!RoomIsCounted'
    <2>1. PICK r \in Disk!Request : Opens(h, r)
      BY <1>2, Opening
    <2>2. Disk!Ready' = Disk!Ready
      BY <2>1 DEF Opens, Disk!documents, Disk!Ready
    <2>3. \A g \in FileHandlers \ {h} : g \in Disk!Entering' <=> g \in Disk!Entering
      BY <2>1, OthersEnter DEF Opens
    <2>4. fileReq'[h].pc \in {"count", "remove", "message"}
      BY <2>1 DEF Opens
    <2>5. Disk!Entering' \subseteq Disk!Entering
      BY <2>3, <2>4 DEF Disk!Entering
    <2>. QED
      BY <2>2, <2>5, NobodyEnters
  <1>3. CASE UNCHANGED Disk!vars
    BY <1>3 DEF Disk!vars, Disk!documents, Disk!RoomIsCounted, Disk!Ready, Disk!Entering,
                Disk!Allowed
  <1>. QED
    BY <1>1, <1>2, <1>3 DEF Disk!Next

----------------------------------------------------------------------------
(* The entitlement. *)

LEMMA LoneStep == Disk!TypeInv /\ Disk!LoneCounts /\ [Disk!Next]_(Disk!vars) => Disk!LoneCounts'
  <1>. SUFFICES ASSUME Disk!TypeInv, Disk!LoneCounts,
                       [Disk!Next]_(Disk!vars) PROVE Disk!LoneCounts'
    OBVIOUS
  <1>b. \A g : /\ g \in Disk!Busy <=> g \in FileHandlers /\ fileReq[g].pc # "idle"
               /\ g \in Disk!Busy' <=> g \in FileHandlers /\ fileReq'[g].pc # "idle"
    BY DEF Disk!Busy, Disk!At
  <1>1. ASSUME NEW h \in FileHandlers, Disk!Step(h), ~Begins(h) PROVE Disk!LoneCounts'
    <2>1. /\ fileReq[h] \in Disk!Request /\ h \in Disk!Busy
          /\ \A g \in FileHandlers \ {h} : fileReq'[g] = fileReq[g]
          /\ fileReq'[h].pc # "idle" => fileReq'[h].alone = fileReq[h].alone
      BY <1>1, <1>b, FileGoesOn, RequestData, IdleIsRequest DEF Onward
    <2>2. /\ Disk!Done(h) => fileReq'[h].pc = "idle"
          /\ \A pc \in Steps : Disk!Goto(h, pc) => fileReq'[h].pc = pc /\ fileReq'[h].seen = fileReq[h].seen
      BY FileEnds, Goes
    <2>3. /\ \A g \in Disk!Busy : fileReq[g].alone => g = h /\ Disk!Busy = {h}
          /\ fileReq[h].alone /\ fileReq[h].pc \in {"write", "rewrite"} => fileReq[h].seen = Cardinality(Disk!Ready)
      BY <2>1, SameCount DEF Disk!LoneCounts
    <2>4. \A g \in Disk!Busy' : fileReq'[g].alone => g = h /\ Disk!Busy' = {h} /\ fileReq[h].alone
      BY <1>b, <2>1, <2>3
    <2>5. CASE fileReq[h].alone
      <3>1. Disk!Busy = {h} /\ Disk!Busy' \subseteq {h}
        BY <1>b, <2>1, <2>3, <2>5
      <3>2. ASSUME \/ fileReq'[h].pc \notin {"write", "rewrite"}
                   \/ fileReq'[h].seen = Cardinality(Disk!Ready')
            PROVE  \A g \in Disk!Busy' : fileReq'[g].alone =>
                     /\ Disk!Busy' = {g}
                     /\ fileReq'[g].pc \in {"write", "rewrite"} => fileReq'[g].seen = Cardinality(Disk!Ready')
        BY <2>4, <3>2
      <3>3. ASSUME NEW q \in {"idle"} \cup Steps, fileReq'[h].pc = q,
                   q \in {"write", "rewrite"} => fileReq'[h].seen = Cardinality(Disk!Ready'),
                   ~unsettled' => \/ q \in Disk!Counting \cup {"drop"}
                                  \/ snapshot' = Cardinality(Disk!Ready')
            PROVE  Disk!LoneCounts'
        <4>1. q \in Disk!Counting \cup {"drop"} => h \in Disk!Busy'
          BY <1>b, <3>3 DEF Disk!Counting
        <4>2. \A g \in Disk!Busy' : fileReq'[g].alone
          BY <1>b, <2>1, <2>5, <3>1
        <4>3. \A g \in Disk!Busy' : fileReq'[g].alone =>
                 /\ Disk!Busy' = {g}
                 /\ fileReq'[g].pc \in {"write", "rewrite"} => fileReq'[g].seen = Cardinality(Disk!Ready')
          BY <3>2, <3>3
        <4>. QED
          BY <3>3, <4>1, <4>2, <4>3, SameCount DEF Disk!LoneCounts
      <3>4. ~unsettled => snapshot = Cardinality(Disk!Ready) \/ fileReq[h].pc \in Disk!Counting \cup {"drop"}
        BY <3>1, SameCount DEF Disk!LoneCounts
      <3>5. CASE Disk!Count(h)
        <4>1. UNCHANGED <<snapshot, unsettled>> /\ Disk!Ready' = Disk!Ready
          BY <3>5 DEF Disk!Count, Disk!documents, Disk!history, Disk!Ready
        <4>2. /\ \/ fileReq[h].pc = "count" /\ fileReq'[h].pc = "write"
                 \/ fileReq[h].pc = "recount" /\ fileReq'[h].pc = "rewrite"
              /\ fileReq'[h].seen = Cardinality(Disk!Ready)
          BY <3>5, SameCount DEF Disk!Count, Disk!At, Disk!TypeInv, Disk!Request
        <4>. QED
          BY <3>3, <3>4, <4>1, <4>2 DEF Steps, Disk!Uploading, Disk!Counting
      <3>6. CASE Disk!WriteSnapshot(h)
        <4>1. /\ \/ fileReq[h].pc = "write" /\ fileReq'[h].pc = "check"
                 \/ fileReq[h].pc = "rewrite" /\ fileReq'[h].pc = "idle"
              /\ snapshot' = fileReq[h].seen /\ Disk!Ready' = Disk!Ready
          BY <2>2, <3>6 DEF Disk!WriteSnapshot, Disk!At, Steps, Disk!Uploading, Disk!Ready
        <4>2. snapshot' = Cardinality(Disk!Ready')
          BY <2>3, <2>5, <4>1
        <4>. QED
          BY <3>3, <4>1, <4>2 DEF Steps, Disk!Uploading
      <3>7. CASE Disk!CreateFile(h) \/ Disk!MarkDeleted(h)
        <4>1. \/ fileReq'[h].pc \in {"meter", "drop"}
              \/ /\ fileReq[h].pc = "create" /\ fileReq'[h].pc = "cleanup" /\ file' = file
          BY <2>2, <3>7 DEF Disk!CreateFile, Disk!MarkDeleted, Disk!At, Disk!AfterCreateFailed,
                            Steps, Disk!Uploading, Disk!Counting, Disk!Deleting
        <4>2. UNCHANGED <<snapshot, unsettled>> /\ (file' = file => Disk!Ready' = Disk!Ready)
          BY <3>7 DEF Disk!CreateFile, Disk!MarkDeleted, Disk!history, Disk!Ready
        <4>. QED
          BY <3>3, <3>4, <4>1, <4>2 DEF Steps, Disk!Uploading, Disk!Counting, Disk!Deleting
      <3>8. CASE Disk!CheckLimit(h) \/ Disk!PutObject(h) \/ Disk!CleanUpObject(h)
                      \/ Disk!CountUpload(h) \/ Disk!RemoveObject(h)
                 \/ Disk!DropLinks(h) \/ Disk!CreateMessage(h) \/ Disk!LinkMessage(h) \/ Disk!FindLink(h) \/ Disk!LinkTicket(h)
                 \/ Disk!SaveSummary(h) \/ Disk!Undo(h) \/ Disk!DeleteMessage(h) \/ Disk!Stop(h)
        <4>1. snapshot' = snapshot /\ Disk!Ready' = Disk!Ready
          BY <3>8 DEF Disk!CheckLimit, Disk!PutObject, Disk!CleanUpObject, Disk!CountUpload,
                      Disk!RemoveObject, Disk!DropLinks, Disk!CreateMessage, Disk!LinkMessage,
                      Disk!FindLink, Disk!LinkTicket, Disk!SaveSummary, Disk!Undo, Disk!Unlinked,
                      Disk!DeleteMessage, Disk!Stop, Disk!documents, Disk!Ready
        <4>2. unsettled' = unsettled \/ (unsettled' = TRUE /\ fileReq'[h].pc = "idle")
          BY <2>2, <3>8 DEF Disk!CheckLimit, Disk!PutObject, Disk!CleanUpObject, Disk!CountUpload,
                            Disk!RemoveObject, Disk!DropLinks, Disk!CreateMessage,
                            Disk!LinkMessage, Disk!FindLink, Disk!LinkTicket, Disk!SaveSummary,
                            Disk!Undo, Disk!Unlinked, Disk!DeleteMessage, Disk!Stop, Disk!history
        <4>3. \/ unsettled' = TRUE /\ fileReq'[h].pc = "idle"
              \/ fileReq'[h].pc = "recount"
              \/ /\ fileReq[h].pc \notin Disk!Counting \cup {"drop"}
                 /\ fileReq'[h].pc \in {"idle", "put", "create", "mark", "link", "find", "link_ticket",
                                        "save", "undo", "retract"}
          <5>1. CASE Disk!FindLink(h)
            BY <5>1 DEF Disk!FindLink, Disk!At, Disk!TypeInv, Disk!Request, Disk!Counting
          <5>2. CASE ~Disk!FindLink(h)
            BY <2>2, <3>8, <5>2 DEF Disk!CheckLimit, Disk!PutObject, Disk!CleanUpObject,
                                    Disk!CountUpload, Disk!RemoveObject, Disk!DropLinks,
                                    Disk!CreateMessage, Disk!LinkMessage, Disk!LinkTicket,
                                    Disk!SaveSummary, Disk!Undo, Disk!Unlinked, Disk!DeleteMessage, Disk!Stop,
                                    Disk!At, Steps, Disk!Uploading, Disk!Counting, Disk!Deleting,
                                    Disk!Attaching
          <5>. QED
            BY <5>1, <5>2
        <4>. QED
          BY <3>3, <3>4, <4>1, <4>2, <4>3 DEF Steps, Disk!Uploading, Disk!Counting, Disk!Deleting,
                                              Disk!Attaching
      <3>. QED
        BY <1>1, <3>5, <3>6, <3>7, <3>8 DEF Disk!Step, Begins
    <2>6. CASE ~fileReq[h].alone
      <3>1. unsettled /\ unsettled \in BOOLEAN
        BY <2>1, <2>6 DEF Disk!LoneCounts, Disk!TypeInv
      <3>2. unsettled'
        BY <1>1, <2>6, <3>1 DEF Disk!Step, Begins, Disk!Count, Disk!WriteSnapshot,
                                Disk!CheckLimit, Disk!PutObject, Disk!CreateFile,
                                Disk!CleanUpObject, Disk!CountUpload, Disk!RemoveObject,
                                Disk!MarkDeleted, Disk!DropLinks, Disk!CreateMessage,
                                Disk!LinkMessage, Disk!FindLink, Disk!LinkTicket,
                                Disk!SaveSummary, Disk!Undo, Disk!Unlinked, Disk!DeleteMessage, Disk!Stop,
                                Disk!history
      <3>3. \A g \in Disk!Busy' : ~fileReq'[g].alone
        BY <2>4, <2>6
      <3>. QED
        BY <3>2, <3>3 DEF Disk!LoneCounts
    <2>. QED
      BY <2>5, <2>6
  <1>2. ASSUME NEW h \in FileHandlers, Begins(h) PROVE Disk!LoneCounts'
    <2>1. PICK r \in Disk!Request : Opens(h, r)
      BY <1>2, Opening
    <2>2. snapshot' = snapshot /\ Disk!Ready' = Disk!Ready /\ Disk!Busy' = Disk!Busy \cup {h} /\ h \notin Disk!Busy
      BY <2>1 DEF Opens, Disk!documents, Disk!Ready
    <2>3. fileReq'[h].pc \in {"count", "remove", "message"} /\ fileReq'[h].alone = (Disk!Busy = {})
      BY <2>1 DEF Opens
    <2>4. \A g \in Disk!Busy : ~fileReq'[g].alone
      BY <1>b, <2>1, <2>2 DEF Opens
    <2>5. unsettled' = (unsettled \/ Disk!Busy # {})
      BY <2>1 DEF Opens
    <2>6. \A g \in Disk!Busy' : fileReq'[g].alone => g = h /\ Disk!Busy = {}
      BY <2>2, <2>3, <2>4
    <2>7. ~unsettled' => Disk!Busy = {} /\ snapshot = Cardinality(Disk!Ready)
      BY <2>5, SameCount DEF Disk!LoneCounts
    <2>. QED
      BY <2>2, <2>3, <2>6, <2>7, SameCount DEF Disk!LoneCounts
  <1>3. CASE UNCHANGED Disk!vars
    BY <1>3 DEF Disk!vars, Disk!documents, Disk!history, Disk!LoneCounts, Disk!Busy, Disk!At,
                Disk!Ready
  <1>. QED
    BY <1>1, <1>2, <1>3 DEF Disk!Next

----------------------------------------------------------------------------
(* Messages and links. *)

(* What there is of a file stays.                                          *)
Same(f) ==
    /\ file'[f] = file[f] /\ ticketLink'[f] = ticketLink[f]
    /\ Disk!MessagesOf(f)' = Disk!MessagesOf(f) /\ Disk!LinksOf(f)' = Disk!LinksOf(f)

LEMMA StaysAtRest ==
    ASSUME NEW f \in Disk!FileIds, Same(f)
    PROVE  Disk!AtRest(f)' <=> Disk!AtRest(f)
  BY DEF Same, Disk!AtRest

LEMMA StaysInOrder ==
    ASSUME NEW f \in Disk!FileIds, Disk!InOrder(f), Same(f),
           \A h \in FileHandlers : fileReq'[h].pc # "idle" /\ fileReq'[h].f = f =>
              /\ fileReq[h].pc # "idle" /\ fileReq[h].f = f /\ fileReq'[h].pc = fileReq[h].pc
              /\ fileReq'[h].m = fileReq[h].m /\ fileReq'[h].found = fileReq[h].found,
           \A h \in FileHandlers : fileReq[h].pc \in Disk!Attaching \cup {"drop"} /\ fileReq[h].f = f =>
              fileReq'[h].pc = fileReq[h].pc /\ fileReq'[h].f = f
    PROVE  Disk!InOrder(f)'
  <1>b. \A g : /\ g \in Disk!Busy <=> g \in FileHandlers /\ fileReq[g].pc # "idle"
               /\ g \in Disk!Busy' <=> g \in FileHandlers /\ fileReq'[g].pc # "idle"
    BY DEF Disk!Busy, Disk!At
  <1>1. \A g, h \in Disk!Busy' : fileReq'[g].f = f /\ fileReq'[h].f = f => g = h
    BY <1>b DEF Disk!InOrder
  <1>2. \A m, n \in Disk!MessagesOf(f)' : m = n
    BY DEF Disk!InOrder, Same
  <1>3. ASSUME NEW h \in Disk!Busy', fileReq'[h].f = f
        PROVE  /\ fileReq'[h].pc \in Disk!Attaching => Disk!HalfAttached(fileReq[h])'
               /\ fileReq'[h].pc = "drop" => file'[f] = "deleted"
    <2>1. /\ h \in Disk!Busy /\ fileReq[h].f = f /\ fileReq'[h].pc = fileReq[h].pc
          /\ fileReq'[h].m = fileReq[h].m /\ fileReq'[h].found = fileReq[h].found
      BY <1>b, <1>3
    <2>2. fileReq[h].pc = "drop" => file[f] = "deleted"
      BY <2>1 DEF Disk!InOrder, Disk!At
    <2>3. fileReq[h].pc \in Disk!Attaching => Disk!HalfAttached(fileReq[h])
      BY <2>1 DEF Disk!InOrder
    <2>4. Disk!HalfAttached(fileReq[h]) => Disk!HalfAttached(fileReq[h])'
      BY <2>1, <1>3 DEF Disk!HalfAttached, Same
    <2>. QED
      BY <2>1, <2>2, <2>3, <2>4 DEF Same
  <1>4. Disk!AtRest(f)' \/ \E h \in Disk!Busy' : fileReq'[h].f = f /\ fileReq'[h].pc \in Disk!Attaching \cup {"drop"}
    <2>1. "idle" \notin Disk!Attaching \cup {"drop"}
      BY DEF Disk!Attaching
    <2>. QED
      BY <1>b, <2>1, StaysAtRest DEF Disk!InOrder
  <1>. QED
    BY <1>1, <1>2, <1>3, <1>4 DEF Disk!InOrder, Disk!At

(* A request changes what there is of its own file only.                   *)
LEMMA OtherFiles ==
    ASSUME Disk!TypeInv, Disk!NumbersAreNew, NEW h \in FileHandlers, Disk!Step(h),
           ~Begins(h),
           NEW f \in Disk!FileIds, f # fileReq[h].f
    PROVE  Same(f)
  <1>. DEFINE x == fileReq[h].f
              y == fileReq[h].m
  <1>0. fileReq[h].pc \in Disk!Attaching => y \in Disk!MessageIds /\ message[y] \in {0, x}
    BY RequestData DEF Disk!NumbersAreNew
  <1>t. /\ file \in [Disk!FileIds -> {Disk!None, "ready", "deleted"}]
        /\ ticketLink \in [Disk!FileIds -> {Disk!None, "active", "deleted"}]
        /\ message \in [Disk!MessageIds -> 0 .. MaxFiles]
    BY DEF Disk!TypeInv, Disk!TypeOK
  <1>f. \A k \in Disk!FileIds : k # 0
    BY DEF Disk!FileIds
  <1>1. file'[f] = file[f]
    <2>1. \/ file' = file
          \/ file' = [file EXCEPT ![x] = "ready"]
          \/ file' = [file EXCEPT ![x] = "deleted"]
      BY DEF Disk!Step, Begins, Disk!Count, Disk!WriteSnapshot, Disk!CheckLimit, Disk!PutObject,
             Disk!CreateFile, Disk!CleanUpObject, Disk!CountUpload, Disk!RemoveObject,
             Disk!MarkDeleted, Disk!DropLinks, Disk!CreateMessage, Disk!LinkMessage,
             Disk!FindLink, Disk!LinkTicket, Disk!SaveSummary, Disk!Undo, Disk!Unlinked, Disk!DeleteMessage,
             Disk!Stop, Disk!documents
    <2>. HIDE DEF x
    <2>. QED
      BY <1>t, <2>1, f # x DEF x
  <1>2. ticketLink'[f] = ticketLink[f]
    <2>1. \/ ticketLink' = ticketLink
          \/ \E v : ticketLink' = [ticketLink EXCEPT ![x] = v]
      <3>1. CASE Disk!DropLinks(h) \/ Disk!Undo(h) \/ Disk!LinkTicket(h)
        BY <3>1 DEF Disk!DropLinks, Disk!Undo, Disk!Unlinked, Disk!LinkTicket
      <3>2. CASE ~(Disk!DropLinks(h) \/ Disk!Undo(h) \/ Disk!LinkTicket(h))
        BY <3>2 DEF Disk!Step, Begins, Disk!Count, Disk!WriteSnapshot, Disk!CheckLimit,
                    Disk!PutObject, Disk!CreateFile, Disk!CleanUpObject, Disk!CountUpload,
                    Disk!RemoveObject, Disk!MarkDeleted, Disk!CreateMessage, Disk!LinkMessage,
                    Disk!FindLink, Disk!SaveSummary, Disk!DeleteMessage, Disk!Stop, Disk!documents
      <3>. QED
        BY <3>1, <3>2
    <2>. QED
      BY <1>t, <2>1
  <1>3. Disk!MessagesOf(f)' = Disk!MessagesOf(f)
    <2>1. UNCHANGED message \/ Disk!CreateMessage(h) \/ Disk!DeleteMessage(h)
      BY DEF Disk!Step, Begins, Disk!Count, Disk!WriteSnapshot, Disk!CheckLimit, Disk!PutObject,
             Disk!CreateFile, Disk!CleanUpObject, Disk!CountUpload, Disk!RemoveObject,
             Disk!MarkDeleted, Disk!DropLinks, Disk!LinkMessage, Disk!FindLink, Disk!LinkTicket,
             Disk!SaveSummary, Disk!Undo, Disk!Unlinked, Disk!Stop, Disk!documents
    <2>2. CASE UNCHANGED message
      BY <2>2 DEF Disk!MessagesOf
    <2>3. CASE Disk!CreateMessage(h) \/ Disk!DeleteMessage(h)
      <3>1. fileReq[h].pc \in Disk!Attaching
        BY <2>3 DEF Disk!CreateMessage, Disk!DeleteMessage, Disk!At, Disk!Attaching
      <3>2. \/ message' = message
            \/ message' = [message EXCEPT ![y] = x]
            \/ message' = [message EXCEPT ![y] = 0]
        BY <2>3 DEF Disk!CreateMessage, Disk!DeleteMessage
      <3>3. /\ \A m \in Disk!MessageIds \ {y} : message'[m] = message[m]
            /\ message[y] # f /\ message'[y] # f
        BY <1>0, <1>f, <1>t, <3>1, <3>2
      <3>. QED
        BY <3>3 DEF Disk!MessagesOf
    <2>. QED
      BY <2>1, <2>2, <2>3
  <1>4. Disk!LinksOf(f)' = Disk!LinksOf(f)
    <2>1. \/ link' = link
          \/ link' = {l \in link : l.f # x}
          \/ link' = link \cup {[f |-> x, m |-> y]}
          \/ link' = link \ {[f |-> x, m |-> y]}
      BY DEF Disk!Step, Begins, Disk!Count, Disk!WriteSnapshot, Disk!CheckLimit, Disk!PutObject,
             Disk!CreateFile, Disk!CleanUpObject, Disk!CountUpload, Disk!RemoveObject,
             Disk!MarkDeleted, Disk!DropLinks, Disk!CreateMessage, Disk!LinkMessage,
             Disk!FindLink, Disk!LinkTicket, Disk!SaveSummary, Disk!Undo, Disk!Unlinked, Disk!DeleteMessage,
             Disk!Stop, Disk!documents
    <2>. QED
      BY <2>1 DEF Disk!LinksOf
  <1>. QED
    BY <1>1, <1>2, <1>3, <1>4 DEF Same

(* What a step leaves of the file its request is about.                    *)
LEMMA OwnLinks ==
    ASSUME Disk!TypeInv, Disk!NumbersAreNew, Disk!ObjectsFollow, NEW h \in FileHandlers,
           Disk!Step(h), ~Begins(h),
           NEW f \in Disk!FileIds, f = fileReq[h].f, Disk!InOrder(f), f \notin broken'
    PROVE  /\ \A m, n \in Disk!MessagesOf(f)' : m = n
           /\ fileReq'[h].pc \in Disk!Attaching => Disk!HalfAttached(fileReq[h])'
           /\ fileReq'[h].pc = "drop" => file'[f] = "deleted"
           /\ Disk!AtRest(f)' \/ fileReq'[h].pc \in Disk!Attaching \cup {"drop"}
  <1>. DEFINE q == fileReq'[h].pc
              m == fileReq[h].m
  <1>0. /\ h \in Disk!Busy /\ fileReq[h] \in Disk!Request
        /\ q # "idle" => fileReq'[h].f = f /\ fileReq'[h].m = m
    BY FileGoesOn, RequestData, IdleIsRequest DEF Onward
  <1>1. /\ \A a, b \in Disk!MessagesOf(f) : a = b
        /\ fileReq[h].pc \in Disk!Attaching => Disk!HalfAttached(fileReq[h])
        /\ fileReq[h].pc = "drop" => file[f] = "deleted"
        /\ fileReq[h].pc \notin Disk!Attaching \cup {"drop"} => Disk!AtRest(f)
    BY <1>0 DEF Disk!InOrder, Disk!At
  <1>2. /\ Disk!Done(h) => q = "idle"
        /\ \A pc \in Steps : Disk!Goto(h, pc) => q = pc /\ fileReq'[h].found = fileReq[h].found
    BY FileEnds, Goes
  <1>t. /\ file \in [Disk!FileIds -> {Disk!None, "ready", "deleted"}]
        /\ ticketLink \in [Disk!FileIds -> {Disk!None, "active", "deleted"}]
        /\ message \in [Disk!MessageIds -> 0 .. MaxFiles] /\ link \subseteq [f : Disk!FileIds, m : Disk!MessageIds]
    BY DEF Disk!TypeInv, Disk!TypeOK
  <1>m. fileReq[h].pc \in Disk!Attaching => m \in Disk!MessageIds /\ f # 0
    BY RequestData DEF Disk!FileIds
  <1>a. "idle" \notin Disk!Attaching /\ "drop" \notin Disk!Attaching
    BY DEF Disk!Attaching
  <1>r. ASSUME Disk!AtRest(f)', q \notin Disk!Attaching \cup {"drop"},
               \A a, b \in Disk!MessagesOf(f)' : a = b
        PROVE  /\ \A a, b \in Disk!MessagesOf(f)' : a = b
               /\ q \in Disk!Attaching => Disk!HalfAttached(fileReq[h])'
               /\ q = "drop" => file'[f] = "deleted"
               /\ Disk!AtRest(f)' \/ q \in Disk!Attaching \cup {"drop"}
    BY <1>r
  <1>3. CASE /\ Same(f) /\ fileReq[h].pc \notin Disk!Attaching \cup {"drop"}
             /\ q \notin Disk!Attaching \cup {"drop"}
    <2>1. Disk!AtRest(f)' /\ \A a, b \in Disk!MessagesOf(f)' : a = b
      BY <1>1, <1>3, StaysAtRest DEF Same
    <2>. QED
      BY <1>3, <1>r, <2>1
  <1>4. CASE Disk!Count(h) \/ Disk!WriteSnapshot(h) \/ Disk!CheckLimit(h) \/ Disk!PutObject(h)
                  \/ Disk!CleanUpObject(h)
             \/ Disk!CountUpload(h) \/ Disk!RemoveObject(h)
    <2>1. UNCHANGED <<file, message, link, ticketLink>>
      BY <1>4 DEF Disk!Count, Disk!WriteSnapshot, Disk!CheckLimit, Disk!PutObject,
                  Disk!CleanUpObject, Disk!CountUpload, Disk!RemoveObject, Disk!documents
    <2>2. Same(f)
      BY <2>1 DEF Same, Disk!MessagesOf, Disk!LinksOf
    <2>3. fileReq[h].pc \in {"count", "recount", "write", "rewrite", "check", "put", "cleanup", "meter",
                             "remove"}
      BY <1>4 DEF Disk!Count, Disk!WriteSnapshot, Disk!CheckLimit, Disk!PutObject,
                  Disk!CleanUpObject, Disk!CountUpload, Disk!RemoveObject, Disk!At
    <2>4. q \in {"idle", "write", "rewrite", "check", "put", "create", "recount", "mark"}
      <3>1. CASE Disk!Count(h)
        BY <3>1 DEF Disk!Count, Disk!TypeInv, Disk!Request
      <3>2. CASE ~Disk!Count(h)
        BY <1>2, <1>4, <3>2 DEF Disk!WriteSnapshot, Disk!CheckLimit, Disk!PutObject,
                                Disk!CleanUpObject, Disk!CountUpload, Disk!RemoveObject, Steps,
                                Disk!Uploading, Disk!Counting, Disk!Deleting
      <3>. QED
        BY <3>1, <3>2
    <2>. QED
      BY <1>3, <2>2, <2>3, <2>4 DEF Disk!Attaching
  <1>5. CASE Disk!CreateFile(h)
    <2>1. fileReq[h].pc = "create" /\ UNCHANGED <<message, link, ticketLink>>
      BY <1>5 DEF Disk!CreateFile, Disk!At
    <2>2. /\ "create" \in Disk!Uploading /\ "create" \notin Disk!Attaching \cup {"drop"}
          /\ "meter" \notin Disk!Attaching \cup {"drop"} /\ "cleanup" \notin Disk!Attaching \cup {"drop"}
      BY DEF Disk!Uploading, Disk!Attaching
    <2>3. Disk!MessagesOf(f)' = Disk!MessagesOf(f) /\ Disk!LinksOf(f)' = Disk!LinksOf(f)
      BY <2>1 DEF Disk!MessagesOf, Disk!LinksOf
    <2>4. file[f] = Disk!None /\ Disk!AtRest(f)
      BY <1>0, <1>1, <2>1, <2>2 DEF Disk!ObjectsFollow
    <2>5. \/ file'[f] = "ready" /\ q = "meter"
          \/ file' = file /\ q = "cleanup"
      BY <1>2, <1>5, <1>t DEF Disk!CreateFile, Steps, Disk!Uploading, Disk!Counting,
                              Disk!AfterCreateFailed
    <2>6. Disk!MessagesOf(f) = {} /\ Disk!LinksOf(f) = {} /\ ticketLink[f] # "active"
      BY <2>4 DEF Disk!AtRest, Disk!None
    <2>7. Disk!AtRest(f)'
      BY <2>1, <2>3, <2>6 DEF Disk!AtRest
    <2>. QED
      BY <1>r, <2>2, <2>3, <2>5, <2>6, <2>7
  <1>6. CASE Disk!MarkDeleted(h)
    <2>1. UNCHANGED message /\ q = "drop"
      BY <1>2, <1>6 DEF Disk!MarkDeleted, Steps, Disk!Deleting
    <2>2. file'[f] = "deleted" /\ Disk!MessagesOf(f)' = Disk!MessagesOf(f)
      BY <1>6, <1>t, <2>1 DEF Disk!MarkDeleted, Disk!MessagesOf
    <2>. QED
      BY <1>1, <1>a, <2>1, <2>2
  <1>7. CASE Disk!DropLinks(h)
    <2>1. file'[f] = "deleted" /\ Disk!MessagesOf(f)' = Disk!MessagesOf(f) /\ q = "recount"
      BY <1>1, <1>2, <1>7 DEF Disk!DropLinks, Disk!At, Steps, Disk!Counting, Disk!MessagesOf
    <2>2. Disk!LinksOf(f)' = {} /\ ticketLink'[f] # "active"
      BY <1>7, <1>t DEF Disk!DropLinks, Disk!LinksOf
    <2>3. Disk!AtRest(f)'
      BY <2>1, <2>2 DEF Disk!AtRest, Disk!None
    <2>. QED
      BY <1>1, <1>r, <2>1, <2>3 DEF Disk!Attaching
  <1>8. CASE Disk!CreateMessage(h)
    <2>1. /\ fileReq[h].pc = "message" /\ q = "link" /\ UNCHANGED <<file, link, ticketLink>>
          /\ message' = [message EXCEPT ![m] = f]
      BY <1>2, <1>8 DEF Disk!CreateMessage, Disk!At, Steps, Disk!Attaching
    <2>2. m \in Disk!MessageIds /\ Disk!HalfAttached(fileReq[h])
      BY <1>1, <1>m, <2>1 DEF Disk!Attaching
    <2>3. /\ file[f] = "ready" /\ Disk!MessagesOf(f) = {} /\ Disk!LinksOf(f) = {}
          /\ ticketLink[f] # "active"
      BY <2>1, <2>2 DEF Disk!HalfAttached
    <2>4. Disk!MessagesOf(f)' = {m} /\ Disk!LinksOf(f)' = Disk!LinksOf(f)
      BY <1>t, <2>1, <2>2, <2>3 DEF Disk!MessagesOf, Disk!LinksOf
    <2>5. Disk!HalfAttached(fileReq[h])'
      BY <1>0, <2>1, <2>3, <2>4 DEF Disk!HalfAttached
    <2>. QED
      BY <1>a, <2>1, <2>4, <2>5 DEF Disk!Attaching
  <1>9. CASE Disk!LinkMessage(h)
    <2>1. /\ fileReq[h].pc = "link" /\ q = "find" /\ UNCHANGED <<file, message, ticketLink>>
          /\ link' = link \cup {[f |-> f, m |-> m]}
      BY <1>2, <1>9 DEF Disk!LinkMessage, Disk!At, Steps, Disk!Attaching
    <2>2. Disk!HalfAttached(fileReq[h])
      BY <1>1, <2>1 DEF Disk!Attaching
    <2>3. /\ file[f] = "ready" /\ Disk!MessagesOf(f) = {m} /\ Disk!LinksOf(f) = {}
          /\ ticketLink[f] # "active"
      BY <2>1, <2>2 DEF Disk!HalfAttached
    <2>4. Disk!MessagesOf(f)' = {m} /\ Disk!LinksOf(f)' = {[f |-> f, m |-> m]}
      BY <2>1, <2>3 DEF Disk!MessagesOf, Disk!LinksOf
    <2>5. Disk!HalfAttached(fileReq[h])'
      BY <1>0, <2>1, <2>3, <2>4 DEF Disk!HalfAttached
    <2>. QED
      BY <1>a, <2>1, <2>4, <2>5 DEF Disk!Attaching
  <1>10. CASE Disk!FindLink(h)
    <2>1. /\ fileReq[h].pc = "find" /\ q = "link_ticket" /\ fileReq'[h].found = ticketLink[f]
          /\ UNCHANGED <<file, message, link, ticketLink>>
      BY <1>10 DEF Disk!FindLink, Disk!At, Disk!documents, Disk!TypeInv, Disk!Request
    <2>2. Disk!HalfAttached(fileReq[h])
      BY <1>1, <2>1 DEF Disk!Attaching
    <2>3. /\ file[f] = "ready" /\ Disk!MessagesOf(f) = {m} /\ Disk!LinksOf(f) = {[f |-> f, m |-> m]}
          /\ ticketLink[f] # "active"
      BY <2>1, <2>2 DEF Disk!HalfAttached
    <2>4. Disk!MessagesOf(f)' = {m} /\ Disk!LinksOf(f)' = {[f |-> f, m |-> m]}
      BY <2>1, <2>3 DEF Disk!MessagesOf, Disk!LinksOf
    <2>5. Disk!HalfAttached(fileReq[h])'
      BY <1>0, <2>1, <2>3, <2>4 DEF Disk!HalfAttached
    <2>. QED
      BY <1>a, <2>1, <2>4, <2>5 DEF Disk!Attaching
  <1>11. CASE Disk!LinkTicket(h)
    <2>1. fileReq[h].pc = "link_ticket" /\ UNCHANGED <<file, message, link>>
      BY <1>11 DEF Disk!LinkTicket, Disk!At
    <2>2. Disk!HalfAttached(fileReq[h])
      BY <1>1, <2>1 DEF Disk!Attaching
    <2>3. /\ file[f] = "ready" /\ Disk!MessagesOf(f) = {m} /\ Disk!LinksOf(f) = {[f |-> f, m |-> m]}
          /\ ticketLink[f] # "active" /\ fileReq[h].found # "active"
      BY <2>1, <2>2 DEF Disk!HalfAttached
    <2>4. /\ ticketLink' = [ticketLink EXCEPT ![f] = IF fileReq[h].found = "active" THEN @ ELSE "active"]
          /\ q = "save"
      BY <1>2, <1>11 DEF Disk!LinkTicket, Steps, Disk!Attaching
    <2>5. ticketLink'[f] = "active"
      BY <1>t, <2>3, <2>4
    <2>6. Disk!MessagesOf(f)' = {m} /\ Disk!LinksOf(f)' = {[f |-> f, m |-> m]}
      BY <2>1, <2>3 DEF Disk!MessagesOf, Disk!LinksOf
    <2>7. Disk!HalfAttached(fileReq[h])'
      BY <1>0, <2>1, <2>3, <2>4, <2>5, <2>6 DEF Disk!HalfAttached
    <2>. QED
      BY <1>a, <2>4, <2>6, <2>7 DEF Disk!Attaching
  <1>12. CASE Disk!SaveSummary(h)
    <2>1. /\ fileReq[h].pc = "save" /\ q \in {"idle", "undo"}
          /\ UNCHANGED <<file, message, link, ticketLink>>
      BY <1>2, <1>12 DEF Disk!SaveSummary, Disk!At, Disk!documents, Steps, Disk!Attaching
    <2>2. Disk!HalfAttached(fileReq[h])
      BY <1>1, <2>1 DEF Disk!Attaching
    <2>3. /\ file[f] = "ready" /\ Disk!MessagesOf(f) = {m} /\ Disk!LinksOf(f) = {[f |-> f, m |-> m]}
          /\ ticketLink[f] = "active"
      BY <2>1, <2>2 DEF Disk!HalfAttached
    <2>4. Disk!MessagesOf(f)' = {m} /\ Disk!LinksOf(f)' = {[f |-> f, m |-> m]}
      BY <2>1, <2>3 DEF Disk!MessagesOf, Disk!LinksOf
    <2>5. CASE q = "undo"
      <3>1. Disk!HalfAttached(fileReq[h])'
        BY <1>0, <2>1, <2>3, <2>4, <2>5 DEF Disk!HalfAttached
      <3>. QED
        BY <1>a, <2>4, <2>5, <3>1 DEF Disk!Attaching
    <2>6. CASE q = "idle"
      <3>1. Disk!AtRest(f)'
        BY <2>1, <2>3, <2>4 DEF Disk!AtRest, Disk!None
      <3>. QED
        BY <1>a, <1>r, <2>4, <2>6, <3>1
    <2>. QED
      BY <2>1, <2>5, <2>6
  <1>13. CASE Disk!Undo(h)
    <2>1. /\ fileReq[h].pc = "undo" /\ q = "retract" /\ UNCHANGED <<file, message>>
          /\ link' = link \ {[f |-> f, m |-> m]}
          /\ ticketLink' = [ticketLink EXCEPT ![f] = IF @ = "active" THEN "deleted" ELSE @]
      BY <1>2, <1>13 DEF Disk!Undo, Disk!Unlinked, Disk!At, Steps, Disk!Attaching
    <2>2. Disk!HalfAttached(fileReq[h])
      BY <1>1, <2>1 DEF Disk!Attaching
    <2>3. /\ file[f] = "ready" /\ Disk!MessagesOf(f) = {m} /\ Disk!LinksOf(f) = {[f |-> f, m |-> m]}
      BY <2>1, <2>2 DEF Disk!HalfAttached
    <2>4. Disk!MessagesOf(f)' = {m} /\ Disk!LinksOf(f)' = {} /\ ticketLink'[f] # "active"
      BY <1>t, <2>1, <2>3 DEF Disk!MessagesOf, Disk!LinksOf
    <2>5. Disk!HalfAttached(fileReq[h])'
      BY <1>0, <2>1, <2>3, <2>4 DEF Disk!HalfAttached
    <2>. QED
      BY <1>a, <2>1, <2>4, <2>5 DEF Disk!Attaching
  <1>14. CASE Disk!DeleteMessage(h)
    <2>1. /\ fileReq[h].pc = "retract" /\ q = "idle" /\ UNCHANGED <<file, link, ticketLink>>
          /\ message' = [message EXCEPT ![m] = 0]
      BY <1>2, <1>14 DEF Disk!DeleteMessage, Disk!At
    <2>2. m \in Disk!MessageIds /\ f # 0 /\ Disk!HalfAttached(fileReq[h])
      BY <1>1, <1>m, <2>1 DEF Disk!Attaching
    <2>3. /\ file[f] = "ready" /\ Disk!MessagesOf(f) = {m} /\ Disk!LinksOf(f) = {}
          /\ ticketLink[f] # "active"
      BY <2>1, <2>2 DEF Disk!HalfAttached
    <2>4. Disk!MessagesOf(f)' = {} /\ Disk!LinksOf(f)' = {}
      BY <1>t, <2>1, <2>2, <2>3 DEF Disk!MessagesOf, Disk!LinksOf
    <2>5. Disk!AtRest(f)'
      BY <2>1, <2>3, <2>4 DEF Disk!AtRest
    <2>. QED
      BY <1>a, <1>r, <2>1, <2>4, <2>5
  <1>15. CASE Disk!Stop(h)
    BY <1>15 DEF Disk!Stop
  <1>. QED
    BY <1>4, <1>5, <1>6, <1>7, <1>8, <1>9, <1>10, <1>11, <1>12, <1>13, <1>14, <1>15 DEF Disk!Step,
       Begins

LEMMA LinksStep ==
    Disk!TypeInv /\ Disk!NumbersAreNew /\ Disk!ObjectsFollow /\ Disk!LinksFollow /\ [Disk!Next]_(Disk!vars)
      => Disk!LinksFollow'
  <1>. SUFFICES ASSUME Disk!TypeInv, Disk!NumbersAreNew, Disk!ObjectsFollow,
                       Disk!LinksFollow, [Disk!Next]_(Disk!vars),
                       NEW f \in Disk!FileIds, f \notin crossed', f \notin broken'
                PROVE  Disk!InOrder(f)'
    BY DEF Disk!LinksFollow
  <1>b. \A g : /\ g \in Disk!Busy <=> g \in FileHandlers /\ fileReq[g].pc # "idle"
               /\ g \in Disk!Busy' <=> g \in FileHandlers /\ fileReq'[g].pc # "idle"
    BY DEF Disk!Busy, Disk!At
  <1>a. "idle" \notin Disk!Attaching \cup {"drop"}
    BY DEF Disk!Attaching
  <1>1. ASSUME NEW h \in FileHandlers, Disk!Step(h), ~Begins(h) PROVE Disk!InOrder(f)'
    <2>1. /\ fileReq[h].pc # "idle" /\ \A g \in FileHandlers \ {h} : fileReq'[g] = fileReq[g]
          /\ fileReq'[h].pc # "idle" => fileReq'[h].f = fileReq[h].f
          /\ crossed' = crossed /\ broken \subseteq broken'
      BY <1>1, FileGoesOn, IdleIsRequest DEF Onward
    <2>2. Disk!InOrder(f)
      BY <2>1 DEF Disk!LinksFollow
    <2>3. CASE f # fileReq[h].f
      <3>1. Same(f)
        BY <1>1, <2>3, OtherFiles
      <3>2. /\ \A g \in FileHandlers : fileReq'[g].pc # "idle" /\ fileReq'[g].f = f => fileReq'[g] = fileReq[g]
            /\ \A g \in FileHandlers : fileReq[g].f = f => fileReq'[g] = fileReq[g]
        BY <2>1, <2>3
      <3>. QED
        BY <1>a, <2>2, <3>1, <3>2, StaysInOrder
    <2>4. CASE f = fileReq[h].f
      <3>1. /\ \A m, n \in Disk!MessagesOf(f)' : m = n
            /\ fileReq'[h].pc \in Disk!Attaching => Disk!HalfAttached(fileReq[h])'
            /\ fileReq'[h].pc = "drop" => file'[f] = "deleted"
            /\ Disk!AtRest(f)' \/ fileReq'[h].pc \in Disk!Attaching \cup {"drop"}
        BY <1>1, <2>2, <2>4, OwnLinks
      <3>2. \A g \in Disk!Busy : fileReq[g].f = f => g = h
        BY <1>b, <2>1, <2>2, <2>4 DEF Disk!InOrder
      <3>3. \A g \in Disk!Busy' : fileReq'[g].f = f => g = h
        BY <1>b, <2>1, <3>2
      <3>4. fileReq'[h].pc \in Disk!Attaching \cup {"drop"} => h \in Disk!Busy' /\ fileReq'[h].f = f
        BY <1>a, <1>b, <2>1, <2>4
      <3>. QED
        BY <3>1, <3>3, <3>4 DEF Disk!InOrder, Disk!At
    <2>. QED
      BY <2>3, <2>4
  <1>2. ASSUME NEW h \in FileHandlers, Begins(h) PROVE Disk!InOrder(f)'
    <2>1. PICK r \in Disk!Request : Opens(h, r)
      BY <1>2, Opening
    <2>2. /\ fileReq[h].pc = "idle" /\ fileReq'[h].pc = r.pc /\ fileReq'[h].f = r.f /\ fileReq'[h].m = r.m
          /\ \A g \in FileHandlers \ {h} :
                /\ fileReq'[g].pc = fileReq[g].pc /\ fileReq'[g].f = fileReq[g].f /\ fileReq'[g].m = fileReq[g].m
                /\ fileReq'[g].found = fileReq[g].found
          /\ crossed' = IF Disk!InUse(r.f) THEN crossed \cup {r.f} ELSE crossed
          /\ broken' = broken
      BY <2>1 DEF Opens
    <2>3. Same(f)
      BY <2>1 DEF Opens, Disk!documents, Same, Disk!MessagesOf, Disk!LinksOf
    <2>4. Disk!InOrder(f)
      BY <2>2 DEF Disk!LinksFollow
    <2>5. CASE f # r.f
      <3>1. \A g \in FileHandlers : fileReq'[g].pc # "idle" /\ fileReq'[g].f = f => g # h
        BY <2>2, <2>5
      <3>. QED
        BY <1>a, <2>2, <2>3, <2>4, <2>5, <3>1, StaysInOrder
    <2>6. CASE f = r.f
      <3>1. \A g \in Disk!Busy : fileReq[g].f # f
        BY <2>2, <2>6 DEF Disk!InUse
      <3>2. \A g \in Disk!Busy' : fileReq'[g].f = f => g = h
        BY <1>b, <2>2, <3>1
      <3>3. Disk!AtRest(f) /\ Disk!AtRest(f)'
        BY <2>3, <2>4, <3>1, StaysAtRest DEF Disk!InOrder
      <3>4. \A m, n \in Disk!MessagesOf(f)' : m = n
        BY <2>3, <2>4 DEF Same, Disk!InOrder
      <3>5. CASE r.pc = "message"
        <4>1. file[f] = "ready" /\ \A l \in link : l.f # f
          BY <2>1, <2>6, <3>5 DEF Opens, Disk!Attachable, Disk!Ready
        <4>2. Disk!LinksOf(f) = {}
          BY <4>1 DEF Disk!LinksOf
        <4>3. Disk!MessagesOf(f) = {} /\ ticketLink[f] # "active"
          BY <3>3, <4>1, <4>2 DEF Disk!AtRest, Disk!None
        <4>4. /\ Disk!MessagesOf(f)' = {} /\ Disk!LinksOf(f)' = {} /\ file'[f] = "ready"
              /\ ticketLink'[f] # "active"
          BY <2>3, <4>1, <4>2, <4>3 DEF Same
        <4>5. Disk!HalfAttached(fileReq[h])'
          BY <2>2, <2>6, <3>5, <4>4 DEF Disk!HalfAttached
        <4>. QED
          BY <2>2, <3>2, <3>3, <3>4, <3>5, <4>5 DEF Disk!InOrder, Disk!At
      <3>6. CASE r.pc \in {"count", "remove"}
        <4>1. fileReq'[h].pc \notin Disk!Attaching \cup {"drop"}
          BY <2>2, <3>6 DEF Disk!Attaching
        <4>. QED
          BY <3>2, <3>3, <3>4, <4>1 DEF Disk!InOrder, Disk!At
      <3>. QED
        BY <2>1, <3>5, <3>6 DEF Opens
    <2>. QED
      BY <2>5, <2>6
  <1>3. CASE UNCHANGED Disk!vars
    <2>1. UNCHANGED <<file, message, link, ticketLink, fileReq, crossed, broken>>
      BY <1>3 DEF Disk!vars, Disk!documents, Disk!history
    <2>2. Same(f) /\ Disk!InOrder(f)
      BY <2>1 DEF Same, Disk!MessagesOf, Disk!LinksOf, Disk!LinksFollow
    <2>. QED
      BY <1>a, <2>1, <2>2, StaysInOrder
  <1>. QED
    BY <1>1, <1>2, <1>3 DEF Disk!Next

----------------------------------------------------------------------------
(* The invariant. *)

LEMMA FilesInit == Disk!Init => Disk!IndInv
  <1>. SUFFICES ASSUME Disk!Init PROVE Disk!IndInv
    OBVIOUS
  <1>1. Disk!TypeInv
    BY FilesTypeInit
  <1>2. \A h \in FileHandlers : fileReq[h] = Disk!Idle /\ fileReq[h].pc = "idle"
    BY IdleIsRequest DEF Disk!Init
  <1>3. Disk!Busy = {} /\ "idle" \notin Disk!Attaching
    BY <1>2 DEF Disk!Busy, Disk!At, Disk!Attaching
  <1>4. /\ object = {} /\ link = {} /\ snapshot = 0 /\ crossed = {} /\ broken = {}
        /\ \A f \in Disk!FileIds : file[f] = Disk!None /\ ticketLink[f] = Disk!None
        /\ \A m \in Disk!MessageIds : message[m] = 0
    BY DEF Disk!Init
  <1>5. Disk!NumbersAreNew
    BY <1>2, <1>3, <1>4 DEF Disk!NumbersAreNew
  <1>6. Disk!ObjectsFollow
    BY <1>3, <1>4 DEF Disk!ObjectsFollow, Disk!None
  <1>7. Disk!Ready = {} /\ Cardinality(Disk!Ready) = 0
    BY <1>4, FS_EmptySet DEF Disk!Ready, Disk!None
  <1>8. Disk!Entering = {} /\ Cardinality(Disk!Entering) = 0
    BY <1>2, FS_EmptySet DEF Disk!Entering
  <1>9. Disk!RoomIsCounted
    BY <1>7, <1>8, FileNumbers, SameCount DEF Disk!RoomIsCounted
  <1>10. Disk!LoneCounts
    BY <1>3, <1>4, <1>7, SameCount DEF Disk!LoneCounts
  <1>11. Disk!LinksFollow
    <2>1. ASSUME NEW f \in Disk!FileIds PROVE Disk!InOrder(f)
      <3>1. f # 0 /\ file[f] = Disk!None /\ ticketLink[f] = Disk!None
        BY <1>4, <2>1, FileNumbers DEF Disk!FileIds
      <3>2. Disk!MessagesOf(f) = {} /\ Disk!LinksOf(f) = {}
        BY <1>4, <3>1 DEF Disk!MessagesOf, Disk!LinksOf
      <3>3. Disk!AtRest(f)
        BY <3>1, <3>2 DEF Disk!AtRest, Disk!None
      <3>. QED
        BY <1>3, <3>2, <3>3 DEF Disk!InOrder
    <2>. QED
      BY <2>1 DEF Disk!LinksFollow
  <1>. QED
    BY <1>1, <1>5, <1>6, <1>9, <1>10, <1>11 DEF Disk!IndInv

LEMMA FilesStep == Disk!IndInv /\ [Disk!Next]_(Disk!vars) => Disk!IndInv'
  BY FilesTypeStep, NumbersStep, ObjectsStep, RoomStep, LoneStep, LinksStep DEF Disk!IndInv

LEMMA LinksFromInv == Disk!IndInv => Disk!LinksAreLive /\ Disk!AttachedOnce
  <1>. SUFFICES ASSUME Disk!IndInv, NEW f \in Disk!FileIds, f \notin crossed, f \notin broken
                PROVE  /\ Cardinality({m \in Disk!MessageIds : message[m] = f}) <= 1
                       /\ ~Disk!InUse(f) =>
                                 /\ \A l \in link : l.f = f => message[l.m] = f /\ file[f] = "ready"
                                 /\ ticketLink[f] = "active" =>
                                       file[f] = "ready" /\ \E m \in Disk!MessageIds : message[m] = f
                                 /\ \A m \in Disk!MessageIds : message[m] = f /\ file[f] = "ready" =>
                                       [f |-> f, m |-> m] \in link /\ ticketLink[f] = "active"
    BY SameCount DEF Disk!LinksAreLive, Disk!AttachedOnce
  <1>1. Disk!InOrder(f)
    BY DEF Disk!IndInv, Disk!LinksFollow
  <1>2. Cardinality(Disk!MessagesOf(f)) <= 1
    <2>1. CASE Disk!MessagesOf(f) = {}
      BY <2>1, FS_EmptySet
    <2>2. CASE Disk!MessagesOf(f) # {}
      <3>1. PICK m : m \in Disk!MessagesOf(f)
        BY <2>2
      <3>2. Disk!MessagesOf(f) = {m}
        BY <1>1, <3>1 DEF Disk!InOrder
      <3>3. Cardinality(Disk!MessagesOf(f)) = 1
        BY ONLY <3>2, FS_Singleton
      <3>. QED
        BY <3>3
    <2>. QED
      BY <2>1, <2>2
  <1>3. ~Disk!InUse(f) => Disk!AtRest(f)
    BY <1>1 DEF Disk!InOrder, Disk!InUse
  <1>. QED
    BY <1>2, <1>3 DEF Disk!AtRest, Disk!MessagesOf, Disk!LinksOf

LEMMA ObjectsFromInv == Disk!IndInv => Disk!ObjectsHaveFiles
  <1>. SUFFICES ASSUME Disk!IndInv, NEW f \in Disk!FileIds
                PROVE  /\ ~Disk!InUse(f) /\ f \notin broken => (f \in object <=> file[f] = "ready")
                       /\ file[f] = "deleted" => f \notin object
    BY DEF Disk!ObjectsHaveFiles
  <1>1. file[f] \in {Disk!None, "ready", "deleted"}
    BY DEF Disk!IndInv, Disk!TypeInv, Disk!TypeOK
  <1>. QED
    BY <1>1 DEF Disk!IndInv, Disk!ObjectsFollow, Disk!InUse

LEMMA StorageFromInv == Disk!IndInv => Disk!StorageWithinLimit /\ Disk!SnapshotFollows
  <1>. SUFFICES ASSUME Disk!IndInv PROVE Disk!StorageWithinLimit /\ Disk!SnapshotFollows
    OBVIOUS
  <1>1. Cardinality(Disk!Ready) \in Nat
    BY ReadyCount DEF Disk!IndInv, Disk!TypeInv
  <1>2. Disk!StorageWithinLimit
    BY <1>1, EnteringFinite, FileNumbers, SameCount DEF Disk!IndInv, Disk!RoomIsCounted,
                                                        Disk!StorageWithinLimit
  <1>3. Disk!SnapshotFollows
    BY DEF Disk!IndInv, Disk!LoneCounts, Disk!SnapshotFollows
  <1>. QED
    BY <1>2, <1>3

(* The objects in storage, the documents, the messages, the links and the  *)
(* storage in use agree, and stay within the plan (files.service.js,       *)
(* createTicketMessage and linkAttachments), whatever requests do at the   *)
(* same time and wherever they fail; the files that two requests were      *)
(* about at once, or of which one stopped half-way, are left out.          *)
THEOREM FilesDoAgree == Disk!Spec => []FilesAgree
  <1>1. Disk!IndInv => FilesAgree
    BY LinksFromInv, ObjectsFromInv, StorageFromInv DEF Disk!IndInv, Disk!TypeInv, FilesAgree
  <1>. QED
    BY <1>1, FilesInit, FilesStep, PTL DEF Disk!Spec
=============================================================================
