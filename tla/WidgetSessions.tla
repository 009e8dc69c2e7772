---------------------------- MODULE WidgetSessions ----------------------------
(***************************************************************************)
(* One chat widget: the sessions of its visitors, the contacts and the     *)
(* tickets their messages make, the recovery of a conversation by someone  *)
(* who proves to own an e-mail address, and the sockets on which a         *)
(* session hears of its conversation.                                      *)
(*                                                                         *)
(* A session is known by a token that only its visitor has; here a request *)
(* names the session.  An invalidated session has no token.  What          *)
(* createTicket and createTicketMessage do inside is in TicketCreation and *)
(* TicketLifecycle: here each is one step.  The one-time code that starts  *)
(* a recovery is in OneTimeCodes: here a request that brings it is         *)
(* admitted.  Names, locales, bodies and files are left out.               *)
(*                                                                         *)
(* Source: src/src/modules/widget/services                                 *)
(***************************************************************************)
EXTENDS Naturals, Sequences, SequencesExt, MongooseDocument

CONSTANTS
    Ops,           \* what is asked for, a subset of AllOps
    Emails,        \* addresses
    Mailboxes,     \* mailboxes the widget may be given
    Statuses,      \* statuses agents give, a subset of {"open", "old", "closed"}
    Handlers,      \* requests in flight at once, 1 .. n: the first free one is next
    MaxSessions, MaxTickets, MaxContacts, MaxRecoveries, \* bounds on the documents
    MaxRequests,   \* bound on the requests
    MaxFaults      \* bound on the requests that fail half-way

None == "none"
WidgetAssumption == MaxSessions \in Nat /\ None \notin Emails
ASSUME WidgetAssumption
AllOps == {"initialize", "message", "verify", "continue", "start_new", "subscribe",
           "publish", "deactivate", "activate", "mailbox", "status", "expire"}

VARIABLES
    widget,   \* active (with its mailbox) or not, and its mailbox
    session,  \* the sessions, in the order of their creation
    contact,  \* the e-mail address of each contact
    identity, \* the contact that holds the identity of each address; 0 is none
    ticket,   \* the tickets of the widget
    recovery, \* the recovery records
    touched,  \* the sessions in the order of updatedAt
    recent,   \* the tickets in the order of lastMessageAt
    socket,   \* the sessions that have a socket in their room
    req, begun, faults, \* the requests in flight; how many began, and failed half-way
    borne,    \* history: the contacts with the addresses each has borne
    answered, \* history: the ticket of the last answered message of each session
    crossed,  \* history: sessions of which two requests overlapped, or one failed
    raced,    \* history: two requests looked for contacts, and then wrote them
    contested,\* history: records of which two uses overlapped, or one failed
    late      \* history: sessions whose socket joined after they, or the widget, ended

documents == <<widget, session, contact, identity, ticket, recovery, touched, recent>>
history == <<borne, answered, crossed, raced, contested, late>>
vars == <<documents, socket, req, begun, faults, history>>

Sessions == DOMAIN session
Tickets == DOMAIN ticket
Contacts == DOMAIN contact
Recoveries == DOMAIN recovery

Idle == [pc |-> "idle", op |-> None, s |-> 0, loaded |-> [ticket |-> 0, contact |-> 0],
         e |-> None, c |-> 0, t |-> 0, r |-> 0, mailbox |-> None, write |-> FALSE,
         held |-> {}, ids |-> {}, alone |-> TRUE]

At(h, pc) == req[h].pc = pc
Busy == {h \in Handlers : ~At(h, "idle")}
Free(h) == h \notin Busy /\ (1 .. h - 1) \subseteq Busy
Goto(h, r) == req' = [req EXCEPT ![h] = r]
Done(h) == Goto(h, Idle)

(* A request begins: it, and those it meets, are no longer alone.          *)
Begin(h, r) ==
    /\ Free(h) /\ r.op \in Ops /\ begun < MaxRequests
    /\ begun' = begun + 1
    /\ req' = [g \in Handlers |-> IF g = h THEN [r EXCEPT !.alone = (Busy = {})]
                                  ELSE [req[g] EXCEPT !.alone = @ /\ g \notin Busy]]
    /\ crossed' = crossed \cup {s \in {r.s} \ {0} : \E g \in Busy : req[g].s = s}
    /\ contested' = contested \cup {n \in {r.r} \ {0} : \E g \in Busy : req[g].r = n}

Touch(order, n) == Append(Remove(order, n), n)
IsLast(order, i, S) == /\ order[i] \in S
                       /\ \A j \in DOMAIN order : order[j] \in S => j <= i
Latest(order, S) == IF \E i \in DOMAIN order : IsLast(order, i, S)
                    THEN order[CHOOSE i \in DOMAIN order : IsLast(order, i, S)] ELSE 0
FirstOf(a, b, c) == IF a # 0 THEN a ELSE IF b # 0 THEN b ELSE c

Live(s) == session[s].live
Ended(s) == ~Live(s) \/ ~widget.active
NewSession(t, c, proof) == [live |-> TRUE, ticket |-> t, contact |-> c, proof |-> proof]
AddSession(t, c, proof) ==
    /\ Len(session) < MaxSessions
    /\ session' = Append(session, NewSession(t, c, proof))
    /\ touched' = Append(touched, Len(session) + 1)

Init ==
    /\ widget \in [active : {TRUE}, mailbox : Mailboxes]
    /\ session = <<>> /\ contact = <<>> /\ ticket = <<>> /\ recovery = <<>>
    /\ touched = <<>> /\ recent = <<>>
    /\ identity = [e \in Emails |-> 0]
    /\ socket = {} /\ begun = 0 /\ faults = 0
    /\ req = [h \in Handlers |-> Idle]
    /\ answered = [s \in 1 .. MaxSessions |-> 0] /\ borne = {}
    /\ crossed = {} /\ contested = {} /\ late = {} /\ raced = FALSE

----------------------------------------------------------------------------
(* What is read.                                                           *)

(* The ticket a session is in: the one it points to, or else one that it   *)
(* has opened.  (Of several the code takes the one changed last; the order *)
(* of all changes of tickets is not kept here.)                            *)
CurrentTicket(s, pointed) ==
    LET opened == {t \in Tickets : ticket[t].session = s}
    IN  IF pointed # 0 THEN {pointed} ELSE IF opened # {} THEN opened ELSE {0}

(* The contact of an address: the one that holds its identity, or else the *)
(* first that has it.                                                      *)
ContactByEmail(e) ==
    LET having == {c \in Contacts : contact[c] = e}
    IN  IF identity[e] # 0 THEN identity[e]
        ELSE IF having = {} THEN 0 ELSE CHOOSE c \in having : \A d \in having : c <= d

BearsAddress(c, e) == contact[c] = e \/ identity[e] = c
Bears == borne' = borne \cup {<<c, contact'[c]>> : c \in {d \in Contacts' : contact'[d] # None}}
Known(e) == {c \in Contacts : BearsAddress(c, e)}

(* The latest ticket of one of the contacts that is open, or solved within *)
(* the window: both are "open" here, and "old" is solved before it.        *)
Recoverable(t) == ticket[t].status = "open"
LatestRecoverable(contacts) ==
    Latest(recent, {t \in Tickets : Recoverable(t) /\ ticket[t].contact \in contacts})

----------------------------------------------------------------------------
(* The visitor comes (initializePublicWidgetSession): with a session, or   *)
(* without one, or with one that is no longer live, and then it gets a new *)
(* one.                                                                    *)
BeginInitialize(h) ==
    /\ widget.active
    /\ \/ /\ AddSession(0, 0, 0)
          /\ Begin(h, [Idle EXCEPT !.pc = "load", !.op = "initialize", !.s = Len(session) + 1])
       \/ \E s \in Sessions :
            /\ Live(s)
            /\ touched' = Touch(touched, s)
            /\ Begin(h, [Idle EXCEPT !.pc = "load", !.op = "initialize", !.s = s,
                                     !.loaded = [ticket |-> session[s].ticket,
                                                 contact |-> session[s].contact],
                                     !.c = session[s].contact])
            /\ UNCHANGED session
    /\ UNCHANGED <<widget, contact, identity, ticket, recovery, recent, socket, faults,
                   borne, answered, raced, late>>

LoadTicket(h) ==
    /\ At(h, "load")
    /\ \E t \in CurrentTicket(req[h].s, req[h].loaded.ticket) :
         Goto(h, [req[h] EXCEPT !.pc = "sync", !.t = t])
    /\ UNCHANGED <<documents, socket, begun, faults, history>>

(* syncSessionTicketPointers saves the session with what differs from what *)
(* was loaded, and the request is answered.  Mutant: the ticket is not     *)
(* kept.                                                                   *)
Sync_NoTicket(h) ==
    LET r == req[h]
    IN  /\ At(h, "sync")
        /\ session' = [session EXCEPT ![r.s].contact = SavedPath(@, r.loaded.contact, r.c)]
        /\ touched' = Touch(touched, r.s)
        /\ answered' = IF r.op = "message" THEN [answered EXCEPT ![r.s] = r.t] ELSE answered
        /\ Done(h)
        /\ UNCHANGED <<widget, contact, identity, ticket, recovery, recent, socket, begun, faults,
                       borne, crossed, raced, contested, late>>
Sync(h) ==
    LET r == req[h]
    IN  /\ At(h, "sync")
        /\ session' = [session EXCEPT ![r.s].ticket = SavedPath(@, r.loaded.ticket, r.t),
                                      ![r.s].contact = SavedPath(@, r.loaded.contact, r.c)]
        /\ touched' = Touch(touched, r.s)
        /\ answered' = IF r.op = "message" THEN [answered EXCEPT ![r.s] = r.t] ELSE answered
        /\ Done(h)
        /\ UNCHANGED <<widget, contact, identity, ticket, recovery, recent, socket, begun, faults,
                       borne, crossed, raced, contested, late>>

----------------------------------------------------------------------------
(* The visitor writes (createPublicWidgetMessage), and may give an address.*)
BeginMessage(h) ==
    /\ widget.active
    /\ \E s \in Sessions, e \in Emails \cup {None} :
         /\ Live(s)
         /\ Begin(h, [Idle EXCEPT !.pc = "contact", !.op = "message", !.s = s, !.e = e,
                                  !.loaded = [ticket |-> session[s].ticket,
                                              contact |-> session[s].contact],
                                  !.mailbox = widget.mailbox])
    /\ UNCHANGED <<documents, socket, faults, borne, answered, raced, late>>

(* resolveOrCreateSessionContact reads: the contact of the session, which  *)
(* gets the address when it has none and nobody else has that one; or the  *)
(* contact of the address; or a contact is to be created.                  *)
FindContact(h) ==
    LET r == req[h]
        c == r.loaded.contact
        found == IF r.e = None THEN 0 ELSE ContactByEmail(r.e)
        fills == c # 0 /\ r.e # None /\ contact[c] = None /\ found \in {0, c}
    IN  /\ At(h, "contact")
        /\ Goto(h, IF c # 0 THEN [r EXCEPT !.c = c, !.pc = "write", !.write = fills,
                                           !.e = IF fills THEN r.e ELSE contact[c]]
                   ELSE [r EXCEPT !.c = found, !.pc = "write", !.write = FALSE])
        /\ raced' = (raced \/ \E g \in Busy : At(g, "write"))
        /\ UNCHANGED <<documents, socket, begun, faults, borne, answered, crossed, contested, late>>

WriteContact(h) ==
    LET r == req[h]
    IN  /\ At(h, "write")
        /\ IF r.c = 0
           THEN /\ Len(contact) < MaxContacts
                /\ contact' = Append(contact, r.e)
                /\ Goto(h, [r EXCEPT !.c = Len(contact) + 1, !.pc = "identify"])
           ELSE /\ contact' = IF r.write THEN [contact EXCEPT ![r.c] = r.e] ELSE contact
                /\ Goto(h, [r EXCEPT !.pc = "identify", !.write = FALSE])
        /\ Bears
        /\ UNCHANGED <<widget, session, identity, ticket, recovery, touched, recent, socket,
                       begun, faults, answered, crossed, raced, contested, late>>

(* ensureEmailIdentity: that another contact holds it is passed over.      *)
EnsureIdentity(h) ==
    LET r == req[h]
    IN  /\ At(h, "identify")
        /\ identity' = IF r.e # None /\ identity[r.e] = 0 THEN [identity EXCEPT ![r.e] = r.c]
                       ELSE identity
        /\ Goto(h, [r EXCEPT !.e = None, !.pc = "eligible"])
        /\ UNCHANGED <<widget, session, contact, ticket, recovery, touched, recent, socket,
                       begun, faults, history>>

(* findEligibleTicketForSession: the ticket of the session, unless it is   *)
(* closed or of another mailbox.                                           *)
FindEligible(h) ==
    LET r == req[h]
    IN  /\ At(h, "eligible")
        /\ \E t \in CurrentTicket(r.s, r.loaded.ticket) :
             IF t # 0 /\ ticket[t].mailbox = r.mailbox /\ ticket[t].status # "closed"
             THEN Goto(h, [r EXCEPT !.t = t, !.pc = "append"])
             ELSE Goto(h, [r EXCEPT !.pc = "create"])
        /\ UNCHANGED <<documents, socket, begun, faults, history>>

CreateTicket(h) ==
    LET r == req[h]
    IN  /\ At(h, "create") /\ Len(ticket) < MaxTickets
        /\ ticket' = Append(ticket, [session |-> r.s, contact |-> r.c, status |-> "open",
                                     mailbox |-> r.mailbox])
        /\ recent' = Append(recent, Len(ticket) + 1)
        /\ Goto(h, [r EXCEPT !.t = Len(ticket) + 1, !.pc = "sync"])
        /\ UNCHANGED <<widget, session, contact, identity, recovery, touched, socket, begun, faults,
                       history>>

(* A ticket that was closed meanwhile refuses the message; any other is    *)
(* open again.                                                             *)
AppendMessage(h) ==
    LET r == req[h]
    IN  /\ At(h, "append")
        /\ IF ticket[r.t].status = "closed"
           THEN /\ Done(h)
                /\ crossed' = crossed \cup {r.s}
                /\ UNCHANGED <<ticket, recent>>
           ELSE /\ ticket' = [ticket EXCEPT ![r.t].status = "open"]
                /\ recent' = Touch(recent, r.t)
                /\ Goto(h, [r EXCEPT !.pc = "sync"])
                /\ UNCHANGED crossed
        /\ UNCHANGED <<widget, session, contact, identity, recovery, touched, socket, begun, faults,
                       borne, answered, raced, contested, late>>

----------------------------------------------------------------------------
(* Recovery.  A code proved that the visitor reads the mail of an address  *)
(* (requestWidgetRecovery sends one only when the lookup finds something); *)
(* verifyWidgetRecovery looks up what there is to recover, with            *)
(* loadWidgetRecoveryLookup.                                               *)
BeginVerify(h) ==
    /\ widget.active
    /\ \E e \in Emails :
         LET contacts == Known(e)
             known == Latest(touched, {s \in Sessions : session[s].contact \in contacts})
             t == LatestRecoverable(contacts)
             candidate == Latest(touched, {s \in Sessions : /\ t # 0 /\ session[s].ticket = t
                                                            /\ session[s].contact \in contacts})
             found == IF contacts = {} THEN 0 ELSE ContactByEmail(e)
             c == FirstOf(IF candidate = 0 THEN 0 ELSE session[candidate].contact,
                          IF known = 0 THEN 0 ELSE session[known].contact, found)
         IN  /\ known # 0 \/ t # 0
             /\ Begin(h, [Idle EXCEPT !.pc = "record", !.op = "verify", !.e = e, !.c = c, !.t = t,
                                      !.s = FirstOf(candidate, known, 0)])
    /\ UNCHANGED <<documents, socket, faults, borne, answered, raced, late>>

CreateRecovery(h) ==
    LET r == req[h]
    IN  /\ At(h, "record") /\ Len(recovery) < MaxRecoveries
        /\ recovery' = Append(recovery, [email |-> r.e, contact |-> r.c, session |-> r.s,
                                         ticket |-> r.t, consumed |-> FALSE, expired |-> FALSE])
        /\ Done(h)
        /\ UNCHANGED <<widget, session, contact, identity, ticket, touched, recent, socket,
                       begun, faults, history>>

(* continueRecoveredWidgetConversation and                                 *)
(* startNewRecoveredWidgetConversation: the record must be unused, and for *)
(* the first its ticket must still be recoverable.                         *)
BeginUse(h) ==
    /\ widget.active
    /\ \E n \in Recoveries, op \in {"continue", "start_new"} :
         LET t == recovery[n].ticket
         IN  /\ ~recovery[n].consumed /\ ~recovery[n].expired
             /\ op = "continue" => t # 0 /\ Recoverable(t)
             /\ Begin(h, [Idle EXCEPT !.pc = "prove", !.op = op, !.r = n,
                                      !.e = recovery[n].email, !.c = recovery[n].contact,
                                      !.t = IF op = "continue" THEN t ELSE 0,
                                      !.held = {s \in Sessions : Live(s) /\ t # 0
                                                                 /\ session[s].ticket = t}])
    /\ UNCHANGED <<documents, socket, faults, borne, answered, raced, late>>

(* ensureVerifiedRecoveryContact: contacts are not deleted here, so the    *)
(* recorded one is found, and gets the address if it has none.  When it    *)
(* does not hold the identity of the address, one is created, which the    *)
(* index refuses when another contact holds it, and the request fails.     *)
Prove(h) ==
    LET r == req[h]
    IN  /\ At(h, "prove")
        /\ contact' = IF contact[r.c] = None THEN [contact EXCEPT ![r.c] = r.e] ELSE contact
        /\ Bears
        /\ Goto(h, [r EXCEPT !.pc = IF identity[r.e] = r.c THEN "session" ELSE "identity"])
        /\ UNCHANGED <<widget, session, identity, ticket, recovery, touched, recent, socket,
                       begun, faults, answered, crossed, raced, contested, late>>

CreateIdentity(h) ==
    LET r == req[h]
    IN  /\ At(h, "identity")
        /\ IF identity[r.e] # 0
           THEN /\ Done(h)
                /\ contested' = contested \cup {r.r}
                /\ UNCHANGED identity
           ELSE /\ identity' = [identity EXCEPT ![r.e] = r.c]
                /\ Goto(h, [r EXCEPT !.pc = "session"])
                /\ UNCHANGED contested
        /\ UNCHANGED <<widget, session, contact, ticket, recovery, touched, recent, socket,
                       begun, faults, borne, answered, crossed, raced, late>>

CreateSession(h) ==
    LET r == req[h]
    IN  /\ At(h, "session")
        /\ AddSession(r.t, r.c, r.r)
        /\ Goto(h, [r EXCEPT !.s = Len(session) + 1, !.pc = "supersede"])
        /\ UNCHANGED <<widget, contact, identity, ticket, recovery, recent, socket, begun, faults,
                       history>>

(* invalidateSupersededRecoverySessions: the live sessions that point to   *)
(* the ticket of the record, and the session of the record, except the one *)
(* just created; then their sockets are disconnected.  Mutant: only the    *)
(* session of the record.                                                  *)
Superseded_RecordOnly(h) ==
    {s \in Sessions \ {req[h].s} : Live(s) /\ s = recovery[req[h].r].session}
Superseded(h) ==
    {s \in Sessions \ {req[h].s} : Live(s) /\ \/ s = recovery[req[h].r].session
                                              \/ /\ recovery[req[h].r].ticket # 0
                                                 /\ session[s].ticket = recovery[req[h].r].ticket}

Supersede(h) ==
    LET ended == Superseded(h)
    IN  /\ At(h, "supersede")
        /\ session' = [s \in Sessions |-> IF s \in ended THEN [session[s] EXCEPT !.live = FALSE]
                                          ELSE session[s]]
        /\ touched' = SelectSeq(touched, LAMBDA s : s \notin ended)
                      \o SelectSeq(touched, LAMBDA s : s \in ended)
        /\ Goto(h, [req[h] EXCEPT !.pc = "disconnect", !.ids = ended])
        /\ UNCHANGED <<widget, contact, identity, ticket, recovery, recent, socket, begun, faults,
                       history>>

Disconnect(h) ==
    /\ At(h, "disconnect")
    /\ socket' = socket \ req[h].ids
    /\ Goto(h, [req[h] EXCEPT !.pc = "consume", !.ids = {}])
    /\ UNCHANGED <<documents, begun, faults, history>>

(* consumeRecoveryRecord.                                                  *)
Consume(h) ==
    LET r == req[h]
    IN  /\ At(h, "consume")
        /\ recovery' = [recovery EXCEPT ![r.r].consumed = TRUE]
        /\ Goto(h, [r EXCEPT !.pc = "answer"])
        /\ UNCHANGED <<widget, session, contact, identity, ticket, touched, recent, socket,
                       begun, faults, history>>

(* The answer is that of initializePublicWidgetSession for the session:    *)
(* it fails when the widget has been deactivated, and if the session is no *)
(* longer live it makes an empty one.                                      *)
Resume(h) ==
    LET r == req[h]
    IN  /\ At(h, "answer")
        /\ IF ~widget.active THEN Done(h) /\ UNCHANGED <<session, touched>>
           ELSE IF Live(r.s)
           THEN /\ touched' = Touch(touched, r.s)
                /\ Goto(h, [r EXCEPT !.pc = "load",
                                     !.loaded = [ticket |-> session[r.s].ticket,
                                                 contact |-> session[r.s].contact],
                                     !.c = session[r.s].contact])
                /\ UNCHANGED session
           ELSE /\ AddSession(0, 0, 0)
                /\ Goto(h, [r EXCEPT !.pc = "load", !.s = Len(session) + 1, !.c = 0])
        /\ UNCHANGED <<widget, contact, identity, ticket, recovery, recent, socket, begun, faults,
                       history>>

Expire == /\ "expire" \in Ops
          /\ \E n \in Recoveries : /\ ~recovery[n].expired
                                   /\ recovery' = [recovery EXCEPT ![n].expired = TRUE]
          /\ UNCHANGED <<widget, session, contact, identity, ticket, touched, recent, socket,
                         req, begun, faults, history>>

----------------------------------------------------------------------------
(* A connected socket asks to hear of its session: the session and the     *)
(* widget are read (refreshRealtimeSocketAuthContext), the socket joins    *)
(* the room of the session, and is answered as one who comes               *)
(* (subscribeWidgetRoom).  Sockets that have not joined hear nothing.      *)
BeginSubscribe(h) ==
    /\ \E s \in Sessions :
         /\ ~Ended(s)
         /\ Begin(h, [Idle EXCEPT !.pc = "join", !.op = "subscribe", !.s = s])
    /\ UNCHANGED <<documents, socket, faults, borne, answered, raced, late>>

Join(h) ==
    LET s == req[h].s
    IN  /\ At(h, "join")
        /\ socket' = socket \cup {s}
        /\ late' = IF Ended(s) THEN late \cup {s} ELSE late \ {s}
        /\ Goto(h, [req[h] EXCEPT !.pc = "answer"])
        /\ UNCHANGED <<documents, begun, faults, borne, answered, crossed, raced, contested>>

(* publishWidgetMessageCreated and publishWidgetConversationUpdated: the   *)
(* ticket and the widget are read, then the sessions that point to the     *)
(* ticket, then what each is shown is read and sent to its sockets.        *)
(* Mutant: sessions are taken whether live or not.                         *)
BeginPublish(h) ==
    /\ widget.active
    /\ \E t \in Tickets :
         Begin(h, [Idle EXCEPT !.pc = "bound", !.op = "publish", !.t = t,
                               !.held = {s \in Sessions : ~Live(s)}])
    /\ UNCHANGED <<documents, socket, faults, borne, answered, raced, late>>

Bound_Any(t) == {s \in Sessions : session[s].ticket = t}
Bound(t) == {s \in Sessions : Live(s) /\ session[s].ticket = t}

LoadBound(h) ==
    /\ At(h, "bound")
    /\ Goto(h, [req[h] EXCEPT !.pc = "emit", !.ids = Bound(req[h].t)])
    /\ UNCHANGED <<documents, socket, begun, faults, history>>

Hears(h) == req[h].ids \cap socket
Emit(h) ==
    /\ At(h, "emit")
    /\ Done(h)
    /\ UNCHANGED <<documents, socket, begun, faults, history>>

----------------------------------------------------------------------------
(* The widget.  deactivateWidget saves, then disconnects the sockets of    *)
(* the sessions that are live by then.                                     *)
BeginDeactivate(h) ==
    /\ widget' = [widget EXCEPT !.active = FALSE]
    /\ Begin(h, [Idle EXCEPT !.pc = "drop", !.op = "deactivate"])
    /\ UNCHANGED <<session, contact, identity, ticket, recovery, touched, recent, socket, faults,
                   borne, answered, raced, late>>

Drop(h) ==
    /\ At(h, "drop")
    /\ socket' = {s \in socket : ~Live(s)}
    /\ Done(h)
    /\ UNCHANGED <<documents, begun, faults, history>>

Activate == /\ "activate" \in Ops /\ ~widget.active
            /\ widget' = [widget EXCEPT !.active = TRUE]
            /\ UNCHANGED <<session, contact, identity, ticket, recovery, touched, recent,
                           socket, req, begun, faults, history>>

ChangeMailbox == /\ "mailbox" \in Ops
                 /\ \E m \in Mailboxes \ {widget.mailbox} : widget' = [widget EXCEPT !.mailbox = m]
                 /\ UNCHANGED <<session, contact, identity, ticket, recovery, touched, recent,
                                socket, req, begun, faults, history>>

(* Agents solve, close and reopen a ticket (TicketLifecycle), and time     *)
(* passes.                                                                 *)
ChangeStatus ==
    /\ "status" \in Ops
    /\ \E t \in Tickets, status \in Statuses :
         /\ status # ticket[t].status
         /\ ticket' = [ticket EXCEPT ![t].status = status]
    /\ UNCHANGED <<widget, session, contact, identity, recovery, touched, recent, socket, req,
                   begun, faults, history>>

(* An await of a request fails, and it goes no further; but that sockets   *)
(* could not be disconnected is passed over                                *)
(* (disconnectRealtimeWidgetSessionSockets).                               *)
Fail(h) ==
    LET r == req[h]
    IN  /\ h \in Busy /\ r.pc \notin {"disconnect", "drop"} /\ faults < MaxFaults
        /\ Done(h)
        /\ faults' = faults + 1
        /\ crossed' = crossed \cup ({r.s} \ {0})
        /\ contested' = contested \cup ({r.r} \ {0})
        /\ UNCHANGED <<documents, socket, begun, borne, answered, raced, late>>

MissSockets(h) ==
    LET r == req[h]
    IN  /\ r.pc \in {"disconnect", "drop"} /\ faults < MaxFaults
        /\ Goto(h, IF r.pc = "drop" THEN Idle ELSE [r EXCEPT !.pc = "consume", !.ids = {}])
        /\ faults' = faults + 1
        /\ late' = late \cup (IF r.pc = "drop" THEN socket ELSE socket \cap r.ids)
        /\ UNCHANGED <<documents, socket, begun, borne, answered, crossed, raced, contested>>

Visit(h) == \/ BeginInitialize(h) \/ LoadTicket(h) \/ Sync(h)
            \/ BeginMessage(h) \/ FindContact(h) \/ WriteContact(h) \/ EnsureIdentity(h)
            \/ FindEligible(h) \/ CreateTicket(h) \/ AppendMessage(h)
Recover(h) == \/ BeginVerify(h) \/ CreateRecovery(h)
              \/ BeginUse(h) \/ Prove(h) \/ CreateIdentity(h) \/ CreateSession(h)
              \/ Supersede(h) \/ Disconnect(h) \/ Consume(h) \/ Resume(h)
Listen(h) == \/ BeginSubscribe(h) \/ Join(h) \/ BeginPublish(h) \/ LoadBound(h) \/ Emit(h)
             \/ BeginDeactivate(h) \/ Drop(h)
Next == \/ \E h \in Handlers : Visit(h) \/ Recover(h) \/ Listen(h) \/ Fail(h) \/ MissSockets(h)
        \/ Expire \/ Activate \/ ChangeMailbox \/ ChangeStatus
Spec == Init /\ [][Next]_vars

----------------------------------------------------------------------------
TypeOK ==
    /\ widget.active \in BOOLEAN /\ widget.mailbox \in Mailboxes
    /\ \A s \in Sessions : /\ session[s].ticket \in 0 .. Len(ticket)
                           /\ session[s].contact \in 0 .. Len(contact)
                           /\ session[s].proof \in 0 .. Len(recovery)
    /\ \A e \in Emails : identity[e] \in 0 .. Len(contact)
    /\ \A t \in Tickets : /\ ticket[t].session \in Sessions
                          /\ ticket[t].contact \in Contacts
    /\ socket \cup late \cup crossed \subseteq Sessions /\ contested \subseteq Recoveries

On(s) == {h \in Handlers : req[h].s = s /\ ~At(h, "idle")}

(* A visitor whose requests did not overlap and did not fail is in the     *)
(* conversation that its last answered message is in                       *)
(* (findEligibleTicketForSession, syncSessionTicketPointers).              *)
ShownToSender ==
    \A s \in Sessions : (answered[s] # 0 /\ s \notin crossed /\ On(s) = {})
                        => session[s].ticket = answered[s]

(* ... and all the tickets it has opened are of one contact, the one the   *)
(* session keeps, whatever the addresses it gave                           *)
(* (resolveOrCreateSessionContact).                                        *)
OneContactPerVisitor ==
    \A t \in Tickets : LET s == ticket[t].session
                       IN  (s \notin crossed /\ On(s) = {})
                           => session[s].contact = ticket[t].contact

(* Two contacts have the same address only when two requests looked for    *)
(* contacts before either wrote one: contact e-mails have no index         *)
(* (findContactByEmail, resolveOrCreateSessionContact).                    *)
LoneAddressOneContact ==
    \A c, d \in Contacts : (c # d /\ contact[c] # None /\ contact[c] = contact[d]) => raced

(* A session is in a conversation that it opened itself, or that it has    *)
(* recovered: one of a contact that bears, or has borne, the address it    *)
(* was recovered with (loadWidgetRecoveryLookup).                          *)
OnlyOwnConversation ==
    \A s \in Sessions : LET r == session[s].proof
                            t == session[s].ticket
                        IN  (t # 0 /\ ticket[t].session # s)
                            => r # 0 /\ <<ticket[t].contact, recovery[r].email>> \in borne

(* One recovery makes one session, unless two uses of it overlapped or one *)
(* failed before its end: the record is checked at the start of a use and  *)
(* used up at its end (loadRecoveryRecordByTokenOrThrow,                   *)
(* consumeRecoveryRecord).                                                 *)
OneSessionPerRecovery ==
    \A s1, s2 \in Sessions : (s1 # s2 /\ session[s1].proof # 0
                              /\ session[s1].proof = session[s2].proof)
                             => session[s1].proof \in contested

(* When a recovery uses its record up, of the sessions that were in its    *)
(* conversation when it began none is live and in it                       *)
(* (invalidateWidgetSessions): one may have left, for the ticket it opened *)
(* when an agent closed that one.  But one whose requests overlapped may   *)
(* come back: of two first messages it may be given the one conversation,  *)
(* and then the other.                                                     *)
SupersededEnd ==
    \A h \in Handlers : At(h, "answer") =>
        \A s \in req[h].held \ crossed :
            Live(s) => session[s].ticket # recovery[req[h].r].ticket

(* A visitor who continues a conversation, alone, is answered with it: the *)
(* session that replaces the others is not among those it ends.            *)
AnswersWithConversation ==
    \A h \in Handlers : (/\ req[h].op = "continue" /\ req[h].alone
                         /\ req[h].pc \in {"load", "sync"})
                        => /\ session[req[h].s].proof = req[h].r
                           /\ session[req[h].s].ticket = recovery[req[h].r].ticket

(* No event reaches a session that had ended before its publishing began,  *)
(* not even one whose socket is still connected (loadBoundWidgetSessions). *)
EndedHearNothing == \A h \in Handlers : At(h, "emit") => Hears(h) \cap req[h].held = {}

(* A socket outlives its session, or the activity of the widget, only      *)
(* while the disconnecting is still to come, or when it asked to join      *)
(* before the end and joined after it, or the disconnecting failed.        *)
SocketsEndWithSession ==
    \A s \in socket : Ended(s) => \/ s \in late
                                  \/ \E h \in Handlers : \/ At(h, "drop")
                                                         \/ At(h, "disconnect") /\ s \in req[h].ids

(* A visitor is shown the conversation of what he sent, as one contact,    *)
(* and never the conversation of another.                                  *)
OwnConversation ==
    /\ TypeOK /\ ShownToSender /\ OneContactPerVisitor
    /\ LoneAddressOneContact /\ OnlyOwnConversation

(* A recovery opens one session, with the conversation it answers, and     *)
(* ends those it replaces.                                                 *)
RecoveryReplaces == OneSessionPerRecovery /\ SupersededEnd /\ AnswersWithConversation

(* What has ended hears nothing more: nor has it a socket.                 *)
EndedIsSilent == EndedHearNothing /\ SocketsEndWithSession
==============================================================================
