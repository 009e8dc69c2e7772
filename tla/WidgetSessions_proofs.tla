------------------------- MODULE WidgetSessions_proofs -------------------------
(***************************************************************************)
(* Theorems of WidgetSessions: what a recovery makes and ends, that what   *)
(* has ended hears nothing, and that visitors are in conversations of      *)
(* their own, for any number of visitors, addresses, mailboxes and         *)
(* requests.                                                               *)
(***************************************************************************)
EXTENDS WidgetSessions, SequenceTheorems, WellFoundedInduction, TLAPS

(* The documents and the requests.                                         *)
Message == {"contact", "write", "identify", "eligible", "create", "append"}
Visiting == Message \cup {"load", "sync"}
Using == {"prove", "identity", "session"}
Replacing == {"supersede", "disconnect", "consume"}
Steps == Visiting \cup Using \cup Replacing
         \cup {"idle", "record", "answer", "join", "bound", "emit", "drop"}

SessionDoc == [live : BOOLEAN, ticket : Nat, contact : Nat, proof : Nat]
TicketDoc == [session : Nat, contact : Nat, status : Statuses \cup {"open"},
              mailbox : Mailboxes \cup {None}]
RecoveryDoc == [email : Emails \cup {None}, contact : Nat, session : Nat, ticket : Nat,
                consumed : BOOLEAN, expired : BOOLEAN]
Request == [pc : Steps, op : AllOps \cup {None}, s : Nat,
            loaded : [ticket : Nat, contact : Nat], e : Emails \cup {None},
            c : Nat, t : Nat, r : Nat, mailbox : Mailboxes \cup {None},
            write : BOOLEAN, held : SUBSET Nat, ids : SUBSET Nat, alone : BOOLEAN]

TypeInv ==
    /\ widget \in [active : BOOLEAN, mailbox : Mailboxes]
    /\ session \in Seq(SessionDoc) /\ contact \in Seq(Emails \cup {None})
    /\ identity \in [Emails -> Nat]
    /\ ticket \in Seq(TicketDoc) /\ recovery \in Seq(RecoveryDoc)
    /\ req \in [Handlers -> Request]

(* What documents and requests refer to is there.                          *)
RefersWithin(q, sessions, contacts, tickets, recoveries) ==
    /\ q.s <= sessions /\ q.c <= contacts /\ q.t <= tickets /\ q.r <= recoveries
    /\ q.loaded.ticket <= tickets /\ q.loaded.contact <= contacts
    /\ q.pc \in Visiting \cup Replacing \cup {"answer", "join"} => q.s # 0
    /\ q.pc = "append" => q.t # 0
    /\ q.pc \in Using \cup Replacing => q.r # 0
    /\ q.pc = "idle" => q.s = 0 /\ q.r = 0
Refers(q) == RefersWithin(q, Len(session), Len(contact), Len(ticket), Len(recovery))
RefersNext(q) == RefersWithin(q, Len(session'), Len(contact'), Len(ticket'), Len(recovery'))

ReferencesThere ==
    /\ \A s \in Sessions : /\ session[s].ticket <= Len(ticket)
                           /\ session[s].contact <= Len(contact)
    /\ \A e \in Emails : identity[e] <= Len(contact)
    /\ \A n \in Recoveries : /\ recovery[n].ticket <= Len(ticket)
                             /\ recovery[n].contact <= Len(contact)
                             /\ recovery[n].session <= Len(session)
    /\ \A h \in Handlers : Refers(req[h])

(* Which operation is at which await.                                      *)
OpAt(q) ==
    /\ q.pc \in Message => q.op = "message"
    /\ q.pc = "join" => q.op = "subscribe"
    /\ q.pc \notin Visiting => q.loaded = [ticket |-> 0, contact |-> 0]

OpsInPlace == \A h \in Handlers : OpAt(req[h])

(* A publishing has left out what had ended before it began.               *)
EndedIn(q) == /\ q.pc = "bound" => \A s \in q.held : s \in Sessions /\ ~Live(s)
              /\ q.pc = "emit" => q.held \cap q.ids = {}

HeldHaveEnded == \A h \in Handlers : EndedIn(req[h])

(* A socket of a session that has ended is late, or about to be            *)
(* disconnected; so is that of a live one once the widget is inactive.     *)
SocketsWatched ==
    \A s \in socket :
       /\ s \in Sessions
       /\ ~Live(s) => s \in late \/ \E h \in Handlers : At(h, "disconnect") /\ s \in req[h].ids
       /\ (Live(s) /\ ~widget.active) => s \in late \/ \E h \in Handlers : At(h, "drop")

(* A record that two requests use, or have used up half-way, is contested; *)
(* a request that has yet to make its session is the first to do so.       *)
Unused(q) == (q.pc \in Using /\ q.r \notin contested)
             => \A s \in Sessions : session[s].proof # q.r
Accounted(n) == \/ n = 0 \/ n \in contested
                \/ n \in Recoveries /\ recovery[n].consumed
                \/ \E h \in Handlers : req[h].pc \in Replacing /\ req[h].r = n

UsesMeet == \A g, h \in Handlers : (g # h /\ req[g].r # 0 /\ req[g].r = req[h].r)
                                  => req[g].r \in contested

UsesCounted ==
    /\ UsesMeet /\ OneSessionPerRecovery
    /\ \A h \in Handlers : Unused(req[h])
    /\ \A s \in Sessions : Accounted(session[s].proof)

(* Two requests of one visitor, or for one record, have met; a visitor who *)
(* has met none of his own keeps the ticket that his request has loaded,   *)
(* and a request that has loaded one answers with one.                     *)
Stays(q) ==
    /\ (q.pc \in Visiting /\ q.s \notin crossed) => q.loaded.ticket = session[q.s].ticket
    /\ (q.pc = "sync" /\ q.loaded.ticket # 0) => q.t # 0

VisitorsMeet == \A g, h \in Handlers : (g # h /\ req[g].s # 0 /\ req[g].s = req[h].s)
                                     => req[g].s \in crossed

VisitorsStay == VisitorsMeet /\ \A h \in Handlers : Stays(req[h])

(* A session that was in the conversation of a record when its use began   *)
(* is in one, does not return to that one once it has left it, and has     *)
(* left or ended when it has been replaced.                                *)
Away(s, n) == session[s].ticket # n => \A g \in Handlers : (/\ req[g].s = s
                                                           /\ req[g].pc \in {"append", "sync"})
                                                          => req[g].t # n
HeldIn(q, s, n) ==
    /\ s \in Sessions /\ n # 0 /\ session[s].ticket # 0 /\ Away(s, n)
    /\ q.pc = "supersede" => q.s # s
    /\ (q.pc \notin Using \cup {"supersede"} /\ Live(s)) => session[s].ticket # n
Held(q) ==
    /\ (q.r = 0 /\ q.pc \in {"join", "answer"}) => q.held = {}
    /\ q.r # 0 => \A s \in q.held \ crossed : HeldIn(q, s, recovery[q.r].ticket)

HeldEnd == \A h \in Handlers : Held(req[h])

(* A request that has met no other has what it began with.                 *)
Continued(q) ==
    LET n == recovery[q.r].ticket
    IN  /\ q.pc \in Using => q.t = n
        /\ q.pc \in Using \cup Replacing \cup {"answer", "load", "sync"} =>
              q.r \in Recoveries /\ n # 0
        /\ q.pc \in Replacing \cup {"answer"} => Live(q.s)
        /\ q.pc \in Replacing \cup {"answer", "load", "sync"} =>
              session[q.s].proof = q.r /\ session[q.s].ticket = n
        /\ q.pc \in {"load", "sync"} => q.loaded.ticket = n
        /\ q.pc = "sync" => q.t = n

Alone == \A g, h \in Handlers : (g # h /\ req[h].alone /\ ~At(h, "idle")) => At(g, "idle")

AloneContinues ==
    /\ Alone
    /\ \A h \in Handlers : (req[h].alone /\ req[h].op = "continue") => Continued(req[h])

(* What histories and documents refer to is there.                         *)
Recorded ==
    /\ Len(session) <= MaxSessions
    /\ socket \cup late \cup crossed \subseteq Sessions /\ contested \subseteq Recoveries
    /\ \A s \in Sessions : session[s].proof \in {0} \cup Recoveries
    /\ answered \in [1 .. MaxSessions -> Nat]
    /\ \A s \in 1 .. MaxSessions : s \notin Sessions => answered[s] = 0
    /\ \A t \in Tickets : ticket[t].session \in Sessions /\ ticket[t].contact \in Contacts

(* Whoever looks a contact up by an address gets one that has borne it.    *)
Borne(c, e) == <<c, e>> \in borne
TicketBorne(t, e) == t # 0 => Borne(ticket[t].contact, e)
BorneBy(q) ==
    /\ q.pc \in {"identify", "eligible", "create"} => q.c # 0
    /\ (q.pc = "write" /\ q.c # 0 /\ ~q.write /\ q.e # None) => Borne(q.c, q.e)
    /\ (q.pc = "write" /\ q.write) => q.c # 0 /\ q.e # None
    /\ (q.pc = "identify" /\ q.e # None) => Borne(q.c, q.e)
    /\ q.pc = "record" => Borne(q.c, q.e) /\ TicketBorne(q.t, q.e)
    /\ q.pc \in Using => /\ q.e = recovery[q.r].email /\ q.c = recovery[q.r].contact
                         /\ q.t \in {0, recovery[q.r].ticket}

AddressesBorne ==
    /\ \A p \in borne : p[2] \in Emails /\ p[1] \in Contacts /\ contact[p[1]] # None
    /\ \A c \in Contacts : contact[c] # None => Borne(c, contact[c])
    /\ \A e \in Emails : identity[e] # 0 => Borne(identity[e], e)
    /\ \A n \in Recoveries : /\ Borne(recovery[n].contact, recovery[n].email)
                             /\ TicketBorne(recovery[n].ticket, recovery[n].email)
    /\ \A h \in Handlers : BorneBy(req[h])

(* Until two requests have raced, at most one is between its lookup of a   *)
(* contact and the writing, and what it has not found is not there.        *)
Unborne(q) == (q.pc = "write" /\ (q.c = 0 \/ q.write) /\ q.e # None)
              => \A c \in Contacts \ {q.c} : contact[c] # q.e
LoneLookup ==
    ~raced => /\ \A c, d \in Contacts : (c # d /\ contact[c] # None) => contact[c] # contact[d]
              /\ \A g, h \in Handlers : (At(g, "write") /\ At(h, "write")) => g = h
              /\ \A h \in Handlers : Unborne(req[h])

(* A session, and a request that has loaded it, has the ticket it opened   *)
(* or recovered.                                                           *)
Opened(s, t) == (t # 0 /\ ticket[t].session # s)
                => session[s].proof # 0 /\ Borne(ticket[t].contact, recovery[session[s].proof].email)
OwnTickets(q) == /\ q.pc \in Visiting => Opened(q.s, q.loaded.ticket)
                 /\ q.pc \in {"append", "sync"} => Opened(q.s, q.t)
TicketsOwned == /\ \A s \in Sessions : Opened(s, session[s].ticket)
                /\ \A h \in Handlers : OwnTickets(req[h])

(* A session of which no two requests met keeps the ticket of its last     *)
(* answer ...                                                              *)
AnswerKept ==
    /\ \A s \in Sessions \ crossed : answered[s] # 0 => session[s].ticket = answered[s]
    /\ \A h \in Handlers : (At(h, "sync") /\ req[h].op # "message" /\ req[h].loaded.ticket # 0)
                           => req[h].t = req[h].loaded.ticket

(* ... and the contact of its first ticket.                                *)
KeepsContact(q) ==
    /\ (q.pc \in Visiting /\ q.s \notin crossed) => q.loaded.contact = session[q.s].contact
    /\ (q.pc \in Visiting \ {"contact"} /\ q.loaded.contact # 0) => q.c = q.loaded.contact
    /\ (q.pc = "load" \/ (q.pc = "sync" /\ q.op # "message")) => q.c = q.loaded.contact
ContactKept ==
    /\ \A h \in Handlers : KeepsContact(req[h])
    /\ \A t \in Tickets : LET s == ticket[t].session
                          IN  s \notin crossed =>
                                 \/ session[s].contact = ticket[t].contact
                                 \/ \E h \in Handlers : /\ At(h, "sync") /\ req[h].s = s
                                                        /\ req[h].c = ticket[t].contact

(* Two requests that differ in who else they have met at most.             *)
Alike(q, r) ==
    /\ q.pc = r.pc /\ q.op = r.op /\ q.s = r.s /\ q.loaded = r.loaded /\ q.c = r.c
    /\ q.t = r.t /\ q.r = r.r /\ q.mailbox = r.mailbox /\ q.held = r.held /\ q.ids = r.ids
    /\ q.e = r.e /\ q.write = r.write

----------------------------------------------------------------------------
(* What is read, and what a step does to the requests.                     *)

(* A nonempty set of numbers has a smallest one.                           *)
LEMMA SmallestExists ==
    ASSUME NEW S \in SUBSET Nat, S # {}
    PROVE  \E x \in S : \A y \in S : x <= y
<1> DEFINE Below == {p \in Nat \X Nat : p[1] < p[2]}
<1>1. IsWellFoundedOn(Below, Nat)
  <2>1. OpToRel(<, Nat) = Below
    BY DEF OpToRel
  <2> QED BY NatLessThanWellFounded, <2>1
<1>2. PICK x \in S : \A y \in S : <<y, x>> \notin Below
  <2> HIDE DEF Below
  <2> QED BY <1>1, WFMin
<1>3. \A y \in S : x <= y
  <2>1. TAKE y \in S
  <2>2. x \in Nat /\ y \in Nat
    OBVIOUS
  <2>3. y < x => <<y, x>> \in Below
    BY <2>2
  <2> QED BY <1>2, <2>2, <2>3
<1> QED BY <1>3

LEMMA LatestIn ==
    ASSUME NEW order, NEW S
    PROVE  Latest(order, S) \in S \cup {0}
BY DEF Latest, IsLast

(* The contact of an address is one there is.                              *)
LEMMA ContactIn ==
    ASSUME TypeInv, NEW e \in Emails
    PROVE  /\ ContactByEmail(e) \in Nat
           /\ identity[e] <= Len(contact) => ContactByEmail(e) <= Len(contact)
<1> DEFINE having == {c \in Contacts : contact[c] = e}
<1>1. Contacts = 1 .. Len(contact) /\ Len(contact) \in Nat /\ identity[e] \in Nat
  BY DEF TypeInv, Contacts
<1>2. CASE identity[e] = 0 /\ having # {}
  <2>1. having \in SUBSET Nat
    BY <1>1
  <2>2. PICK c \in having : \A d \in having : c <= d
    BY <1>2, <2>1, SmallestExists
  <2>3. ContactByEmail(e) \in having
    BY <1>2, <2>2 DEF ContactByEmail
  <2> QED BY <1>1, <2>3
<1>3. CASE identity[e] = 0 /\ having = {}
  BY <1>1, <1>3 DEF ContactByEmail
<1>4. CASE identity[e] # 0
  BY <1>1, <1>4 DEF ContactByEmail
<1> QED BY <1>2, <1>3, <1>4

LEMMA IdleType == Idle \in Request
BY DEF Idle, Request, Steps, AllOps, None, Visiting, Using, Replacing, Message

LEMMA Goes ==
    ASSUME TypeInv, NEW h \in Handlers, NEW r \in Request, Goto(h, r)
    PROVE  /\ req' \in [Handlers -> Request]
           /\ req'[h] = r
           /\ \A g \in Handlers \ {h} : req'[g] = req[g]
BY DEF TypeInv, Goto

LEMMA Ends ==
    ASSUME TypeInv, NEW h \in Handlers, Done(h)
    PROVE  /\ req' \in [Handlers -> Request]
           /\ req'[h] = Idle
           /\ \A g \in Handlers \ {h} : req'[g] = req[g]
BY IdleType, Goes DEF Done

LEMMA BeginsWith ==
    ASSUME TypeInv, NEW h \in Handlers, NEW r, Begin(h, r)
    PROVE  /\ At(h, "idle")
           /\ req'[h] = [r EXCEPT !.alone = (Busy = {})]
           /\ \A g \in Handlers \ {h} : /\ Alike(req'[g], req[g])
                                        /\ req'[g].alone = (req[g].alone /\ g \notin Busy)
           /\ crossed' = crossed \cup {s \in {r.s} \ {0} : \E g \in Busy : req[g].s = s}
           /\ contested' = contested \cup {n \in {r.r} \ {0} : \E g \in Busy : req[g].r = n}
<1>1. /\ At(h, "idle") /\ req \in [Handlers -> Request]
      /\ req' = [g \in Handlers |-> IF g = h THEN [r EXCEPT !.alone = (Busy = {})]
                                    ELSE [req[g] EXCEPT !.alone = @ /\ g \notin Busy]]
  BY DEF Begin, Free, Busy, TypeInv
<1>2. req'[h] = [r EXCEPT !.alone = (Busy = {})]
  BY <1>1
<1> DEFINE met(g) == req[g].alone /\ g \notin Busy
<1>3. /\ \A g \in Handlers : met(g) \in BOOLEAN
      /\ \A g \in Handlers \ {h} : req'[g] = [req[g] EXCEPT !.alone = met(g)]
  BY <1>1
<1> HIDE DEF met
<1>4. ASSUME NEW g \in Handlers \ {h}
      PROVE  Alike(req'[g], req[g]) /\ req'[g].alone = met(g)
  <2>1. req[g] \in Request /\ met(g) \in BOOLEAN /\ req'[g] = [req[g] EXCEPT !.alone = met(g)]
    BY <1>1, <1>3
  <2> QED BY <2>1 DEF Request, Alike
<1>5. /\ crossed' = crossed \cup {s \in {r.s} \ {0} : \E g \in Busy : req[g].s = s}
      /\ contested' = contested \cup {n \in {r.r} \ {0} : \E g \in Busy : req[g].r = n}
  BY DEF Begin
<1> QED BY <1>1, <1>2, <1>4, <1>5 DEF met

LEMMA Begins ==
    ASSUME TypeInv, NEW h \in Handlers, NEW r \in Request, Begin(h, r)
    PROVE  /\ req' \in [Handlers -> Request] /\ Alike(req'[h], r)
           /\ \A g \in Handlers \ {h} : Alike(req'[g], req[g])
<1> DEFINE none == Busy = {}
           met(g) == req[g].alone /\ g \notin Busy
<1>1. req' = [g \in Handlers |-> IF g = h THEN [r EXCEPT !.alone = none]
                                ELSE [req[g] EXCEPT !.alone = met(g)]]
  BY DEF Begin
<1>2. none \in BOOLEAN /\ \A g \in Handlers : met(g) \in BOOLEAN
  OBVIOUS
<1> HIDE DEF none, met
<1>3. [r EXCEPT !.alone = none] \in Request /\ Alike([r EXCEPT !.alone = none], r)
  BY <1>2 DEF Request, Alike
<1>4. \A g \in Handlers : [req[g] EXCEPT !.alone = met(g)] \in Request
  BY <1>2 DEF TypeInv, Request
<1> QED BY <1>1, <1>3, <1>4, BeginsWith

(* The same holds of a request that is only no longer alone, and for       *)
(* larger collections.                                                     *)
LEMMA OthersRefer ==
    ASSUME TypeInv, ReferencesThere, OpsInPlace,
           session' \in Seq(SessionDoc), contact' \in Seq(Emails \cup {None}),
           ticket' \in Seq(TicketDoc), recovery' \in Seq(RecoveryDoc),
           Len(session) <= Len(session'), Len(contact) <= Len(contact'),
           Len(ticket) <= Len(ticket'), Len(recovery) <= Len(recovery'),
           NEW g \in Handlers, Alike(req'[g], req[g])
    PROVE  Refers(req[g])' /\ OpAt(req[g])'
<1>1. req[g] \in Request /\ Refers(req[g]) /\ OpAt(req[g])
  BY DEF TypeInv, ReferencesThere, OpsInPlace
<1>2. OpAt(req[g])'
  BY <1>1 DEF OpAt, Alike
<1>3. /\ Len(session) \in Nat /\ Len(session') \in Nat /\ Len(contact) \in Nat
      /\ Len(contact') \in Nat /\ Len(ticket) \in Nat /\ Len(ticket') \in Nat
      /\ Len(recovery) \in Nat /\ Len(recovery') \in Nat
  BY DEF TypeInv
<1>4. /\ req[g].s \in Nat /\ req[g].c \in Nat /\ req[g].t \in Nat /\ req[g].r \in Nat
      /\ req[g].loaded.ticket \in Nat /\ req[g].loaded.contact \in Nat
  BY <1>1 DEF Request
<1>5. /\ req'[g].pc = req[g].pc /\ req'[g].s = req[g].s /\ req'[g].c = req[g].c
      /\ req'[g].t = req[g].t /\ req'[g].r = req[g].r /\ req'[g].loaded = req[g].loaded
  BY DEF Alike
<1>6. /\ req'[g].s <= Len(session') /\ req'[g].c <= Len(contact')
      /\ req'[g].t <= Len(ticket') /\ req'[g].r <= Len(recovery')
      /\ req'[g].loaded.ticket <= Len(ticket') /\ req'[g].loaded.contact <= Len(contact')
  <2>1. /\ req[g].s <= Len(session) /\ req[g].c <= Len(contact)
        /\ req[g].t <= Len(ticket) /\ req[g].r <= Len(recovery)
        /\ req[g].loaded.ticket <= Len(ticket) /\ req[g].loaded.contact <= Len(contact)
    BY <1>1 DEF Refers, RefersWithin
  <2>2. req'[g].s <= Len(session')
    BY <2>1, <1>3, <1>4, <1>5
  <2>3. req'[g].c <= Len(contact')
    BY <2>1, <1>3, <1>4, <1>5
  <2>4. req'[g].t <= Len(ticket')
    BY <2>1, <1>3, <1>4, <1>5
  <2>5. req'[g].r <= Len(recovery')
    BY <2>1, <1>3, <1>4, <1>5
  <2>6. req'[g].loaded.ticket <= Len(ticket') /\ req'[g].loaded.contact <= Len(contact')
    <3>1. /\ req'[g].loaded.ticket = req[g].loaded.ticket
          /\ req'[g].loaded.contact = req[g].loaded.contact
      BY <1>5
    <3>2. /\ req[g].loaded.ticket \in Nat /\ req[g].loaded.ticket <= Len(ticket)
          /\ req[g].loaded.contact \in Nat /\ req[g].loaded.contact <= Len(contact)
      BY <1>4, <2>1
    <3>3. Len(ticket) <= Len(ticket') /\ Len(contact) <= Len(contact')
      OBVIOUS
    <3>4. \A a, b, c \in Nat : a <= b /\ b <= c => a <= c
      OBVIOUS
    <3>5. req[g].loaded.ticket <= Len(ticket') /\ req[g].loaded.contact <= Len(contact')
      BY <1>3, <3>2, <3>3, <3>4
    <3> QED BY <3>1, <3>5
  <2> QED BY <2>2, <2>3, <2>4, <2>5, <2>6
<1>7. Refers(req[g])'
  BY <1>1, <1>5, <1>6 DEF Refers, RefersWithin
<1> QED BY <1>2, <1>7

Basic == TypeInv /\ ReferencesThere /\ OpsInPlace

LEMMA BasicInit == Init => Basic
<1> SUFFICES ASSUME Init PROVE Basic
  OBVIOUS
<1>1. TypeInv
  <2>1. widget \in [active : BOOLEAN, mailbox : Mailboxes]
    BY DEF Init
  <2>2. /\ session \in Seq(SessionDoc) /\ contact \in Seq(Emails \cup {None})
        /\ ticket \in Seq(TicketDoc) /\ recovery \in Seq(RecoveryDoc)
    BY DEF Init
  <2>3. identity \in [Emails -> Nat] /\ req \in [Handlers -> Request]
    BY IdleType DEF Init
  <2> QED BY <2>1, <2>2, <2>3 DEF TypeInv
<1>2. ReferencesThere
  BY
  DEF Init, ReferencesThere, Refers, RefersWithin, Idle, Sessions, Recoveries, Visiting, Message,
      Using,
         Replacing
<1>3. OpsInPlace
  BY DEF Init, OpsInPlace, OpAt, Idle, Message
<1> QED BY <1>1, <1>2, <1>3 DEF Basic

(* What becomes of the requests when one of them goes on and the documents *)
(* only grow.                                                              *)
LEMMA BasicKept ==
    ASSUME Basic, TypeInv',
           Len(session) <= Len(session'), Len(contact) <= Len(contact'),
           Len(ticket) <= Len(ticket'), Len(recovery) <= Len(recovery'),
           NEW h \in Handlers,
           \A g \in Handlers \ {h} : Alike(req'[g], req[g]),
           Refers(req[h])', OpAt(req[h])',
           \A s \in Sessions' : session'[s].ticket <= Len(ticket')
                                /\ session'[s].contact <= Len(contact'),
           \A e \in Emails : identity'[e] <= Len(contact'),
           \A n \in Recoveries' : /\ recovery'[n].ticket <= Len(ticket')
                                  /\ recovery'[n].contact <= Len(contact')
                                  /\ recovery'[n].session <= Len(session')
    PROVE  Basic'
<1>1. ASSUME NEW g \in Handlers PROVE Refers(req[g])' /\ OpAt(req[g])'
  <2>1. CASE g = h
    BY <2>1
  <2>2. CASE g # h
    BY <2>2, OthersRefer DEF Basic, TypeInv
  <2> QED BY <2>1, <2>2
<1> QED BY <1>1 DEF Basic, ReferencesThere, OpsInPlace

LEMMA Lengths ==
    ASSUME TypeInv
    PROVE  /\ Len(session) \in Nat /\ Sessions = 1 .. Len(session)
           /\ Len(contact) \in Nat /\ Contacts = 1 .. Len(contact)
           /\ Len(ticket) \in Nat /\ Tickets = 1 .. Len(ticket)
           /\ Len(recovery) \in Nat /\ Recoveries = 1 .. Len(recovery)
           /\ \A s \in Sessions : session[s] \in SessionDoc
           /\ \A c \in Contacts : contact[c] \in Emails \cup {None}
           /\ \A t \in Tickets : ticket[t] \in TicketDoc
           /\ \A n \in Recoveries : recovery[n] \in RecoveryDoc
BY DEF TypeInv, Sessions, Contacts, Tickets, Recoveries

LEMMA CurrentIn ==
    ASSUME TypeInv, NEW s, NEW pointed \in Nat, NEW t \in CurrentTicket(s, pointed)
    PROVE  /\ t \in Nat
           /\ pointed <= Len(ticket) => t <= Len(ticket)
           /\ pointed # 0 => t = pointed
BY Lengths DEF CurrentTicket

(* h goes on as r says; the others have met a further request at most.     *)
Takes(h, r) == /\ req' \in [Handlers -> Request]
               /\ Alike(req'[h], r)
               /\ \A g \in Handlers \ {h} : Alike(req'[g], req[g])

LEMMA Taken ==
    ASSUME TypeInv, NEW h \in Handlers, NEW r \in Request,
           Goto(h, r) \/ Begin(h, r) \/ (Done(h) /\ r = Idle)
    PROVE  Takes(h, r)
<1>1. CASE Goto(h, r)
  BY <1>1, Goes DEF Takes, Alike
<1>2. CASE Begin(h, r)
  BY <1>2, Begins DEF Takes
<1>3. CASE Done(h) /\ r = Idle
  BY <1>3, Ends DEF Takes, Alike
<1> QED BY <1>1, <1>2, <1>3

(* The documents grow and hold what is there.                              *)
Grow == /\ widget' \in [active : BOOLEAN, mailbox : Mailboxes]
        /\ session' \in Seq(SessionDoc) /\ contact' \in Seq(Emails \cup {None})
        /\ identity' \in [Emails -> Nat]
        /\ ticket' \in Seq(TicketDoc) /\ recovery' \in Seq(RecoveryDoc)
        /\ Len(session) <= Len(session') /\ Len(contact) <= Len(contact')
        /\ Len(ticket) <= Len(ticket') /\ Len(recovery) <= Len(recovery')
        /\ \A s \in Sessions' : /\ session'[s].ticket <= Len(ticket')
                                /\ session'[s].contact <= Len(contact')
        /\ \A e \in Emails : identity'[e] <= Len(contact')
        /\ \A n \in Recoveries' : /\ recovery'[n].ticket <= Len(ticket')
                                  /\ recovery'[n].contact <= Len(contact')
                                  /\ recovery'[n].session <= Len(session')

LEMMA SameGrow ==
    ASSUME Basic, UNCHANGED documents
    PROVE  Grow
<1>1. TypeInv /\ ReferencesThere
  BY DEF Basic
<1>2. /\ Len(session) \in Nat /\ Len(contact) \in Nat
      /\ Len(ticket) \in Nat /\ Len(recovery) \in Nat
  BY <1>1, Lengths
<1> QED BY <1>1, <1>2 DEF Grow, TypeInv, ReferencesThere, documents, Sessions, Recoveries

(* A request in a step and what it refers to.                              *)
LEMMA BasicWrites ==
    ASSUME Basic, Grow, NEW h \in Handlers, NEW r \in Request,
           Takes(h, r), RefersNext(r), OpAt(r)
    PROVE  Basic'
<1>1. TypeInv'
  BY DEF Grow, Takes, TypeInv
<1>2. Refers(req[h])' /\ OpAt(req[h])'
  <2>1. Alike(req'[h], r)
    BY DEF Takes
  <2>2. Refers(req[h])'
    BY <2>1 DEF Alike, Refers, RefersNext, RefersWithin
  <2>3. OpAt(req[h])'
    BY <2>1 DEF Alike, OpAt
  <2> QED BY <2>2, <2>3
<1> QED BY <1>1, <1>2, BasicKept DEF Grow, Takes

LEMMA BasicGoes ==
    ASSUME Basic, UNCHANGED documents, NEW h \in Handlers, NEW r \in Request,
           Goto(h, r) \/ Begin(h, r), Refers(r), OpAt(r)
    PROVE  Basic'
<1>1. RefersNext(r)
  BY DEF Refers, RefersNext, documents
<1>2. Takes(h, r)
  BY Taken DEF Basic
<1> QED BY <1>1, <1>2, SameGrow, BasicWrites

LEMMA BasicEnds ==
    ASSUME Basic, UNCHANGED documents, NEW h \in Handlers, Done(h)
    PROVE  Basic'
<1>1. Refers(Idle) /\ OpAt(Idle)
  <2>1. TypeInv
    BY DEF Basic
  <2> QED BY <2>1, Lengths DEF Refers, RefersWithin, OpAt, Idle, Visiting, Message, Using, Replacing
<1>2. RefersNext(Idle)
  BY <1>1 DEF Refers, RefersNext, documents
<1>3. Takes(h, Idle)
  BY Taken, IdleType DEF Basic
<1> QED BY <1>1, <1>2, <1>3, SameGrow, BasicWrites, IdleType

(* What a request is like in its step.                                     *)
LEMMA OneRequest ==
    ASSUME Basic, NEW h \in Handlers
    PROVE  /\ req[h] \in Request /\ Refers(req[h]) /\ OpAt(req[h])
BY DEF Basic, TypeInv, ReferencesThere, OpsInPlace

LEMMA OneSession ==
    ASSUME Basic, NEW s \in Sessions
    PROVE  /\ s \in Nat /\ s # 0 /\ s <= Len(session)
           /\ session[s] \in SessionDoc /\ session[s].live \in BOOLEAN
           /\ session[s].ticket \in Nat /\ session[s].contact \in Nat
           /\ session[s].proof \in Nat
           /\ session[s].ticket <= Len(ticket) /\ session[s].contact <= Len(contact)
<1>1. TypeInv /\ ReferencesThere
  BY DEF Basic
<1>2. s \in Nat /\ s # 0 /\ s <= Len(session) /\ session[s] \in SessionDoc
  BY <1>1, Lengths
<1> QED BY <1>1, <1>2 DEF SessionDoc, ReferencesThere

LEMMA BasicJoin ==
    ASSUME Basic, NEW h \in Handlers, Join(h)
    PROVE  Basic'
<1> DEFINE q == req[h]
           r == [q EXCEPT !.pc = "answer"]
<1>1. TypeInv /\ q \in Request /\ q.pc = "join" /\ Refers(q) /\ OpAt(q)
  BY OneRequest DEF Basic, Join, At
<1>2. r \in Request
  BY <1>1 DEF Request, Steps, AllOps, None, Visiting, Message, Using, Replacing
<1>3. Refers(r) /\ OpAt(r)
  <2>1. /\ r.pc = "answer" /\ r.op = q.op /\ r.s = q.s /\ r.c = q.c
        /\ r.t = q.t /\ r.r = q.r /\ r.loaded = q.loaded
    BY <1>1 DEF Request
  <2> HIDE DEF r
  <2> QED BY <1>1, <2>1 DEF Refers, RefersWithin, OpAt, Visiting, Message, Using, Replacing
<1> QED BY <1>2, <1>3, BasicGoes DEF Join

LEMMA BasicLoadBound ==
    ASSUME Basic, NEW h \in Handlers, LoadBound(h)
    PROVE  Basic'
<1> DEFINE q == req[h]
           bound == Bound(req[h].t)
           r == [q EXCEPT !.pc = "emit", !.ids = bound]
<1>1. TypeInv /\ q \in Request /\ q.pc = "bound" /\ Refers(q) /\ OpAt(q)
  BY OneRequest DEF Basic, LoadBound, At
<1>2. bound \in SUBSET Nat
  BY <1>1, Lengths DEF Bound
<1> HIDE DEF bound
<1>3. r \in Request
  BY <1>2, <1>1 DEF Request, Steps, AllOps, None, Visiting, Message, Using, Replacing
<1>4. Refers(r) /\ OpAt(r)
  <2>1. /\ r.pc = "emit" /\ r.op = q.op /\ r.s = q.s /\ r.c = q.c
        /\ r.t = q.t /\ r.r = q.r /\ r.loaded = q.loaded
    BY <1>1 DEF Request
  <2> HIDE DEF r
  <2> QED BY <1>1, <2>1 DEF Refers, RefersWithin, OpAt, Visiting, Message, Using, Replacing
<1> QED BY <1>3, <1>4, BasicGoes DEF LoadBound, bound

LEMMA BasicDisconnect ==
    ASSUME Basic, NEW h \in Handlers, Disconnect(h)
    PROVE  Basic'
<1> DEFINE q == req[h]
           r == [q EXCEPT !.pc = "consume", !.ids = {}]
<1>1. TypeInv /\ q \in Request /\ q.pc = "disconnect" /\ Refers(q) /\ OpAt(q)
  BY OneRequest DEF Basic, Disconnect, At
<1>2. r \in Request
  BY <1>1 DEF Request, Steps, AllOps, None, Visiting, Message, Using, Replacing
<1>3. Refers(r) /\ OpAt(r)
  <2>1. /\ r.pc = "consume" /\ r.op = q.op /\ r.s = q.s /\ r.c = q.c
        /\ r.t = q.t /\ r.r = q.r /\ r.loaded = q.loaded
    BY <1>1 DEF Request
  <2> HIDE DEF r
  <2> QED BY <1>1, <2>1 DEF Refers, RefersWithin, OpAt, Visiting, Message, Using, Replacing
<1> QED BY <1>2, <1>3, BasicGoes DEF Disconnect

LEMMA BasicLoadTicket ==
    ASSUME Basic, NEW h \in Handlers, LoadTicket(h)
    PROVE  Basic'
<1> DEFINE q == req[h]
<1>1. TypeInv /\ q \in Request /\ q.pc = "load" /\ Refers(q) /\ OpAt(q)
  BY OneRequest DEF Basic, LoadTicket, At
<1>2. PICK t \in CurrentTicket(q.s, q.loaded.ticket) : Goto(h, [q EXCEPT !.pc = "sync", !.t = t])
  BY DEF LoadTicket
<1>3. t \in Nat /\ t <= Len(ticket)
  <2>1. q.loaded.ticket \in Nat /\ q.loaded.ticket <= Len(ticket)
    BY <1>1 DEF Refers, RefersWithin, Request
  <2> QED BY <1>1, <1>2, <2>1, CurrentIn
<1> DEFINE r == [q EXCEPT !.pc = "sync", !.t = t]
<1>4. r \in Request
  BY <1>1, <1>3 DEF Request, Steps, Visiting
<1>5. Refers(r) /\ OpAt(r)
  <2>1. /\ r.pc = "sync" /\ r.t = t /\ r.s = q.s /\ r.c = q.c /\ r.r = q.r
        /\ r.loaded = q.loaded
    BY <1>1 DEF Request
  <2> HIDE DEF r
  <2> QED BY <1>1, <1>3, <2>1 DEF Refers, RefersWithin, OpAt, Visiting, Message, Using, Replacing
<1> QED BY <1>2, <1>4, <1>5, BasicGoes DEF LoadTicket

LEMMA BasicFindContact ==
    ASSUME Basic, NEW h \in Handlers, FindContact(h)
    PROVE  Basic'
<1> DEFINE q == req[h]
           c == q.loaded.contact
           found == IF q.e = None THEN 0 ELSE ContactByEmail(q.e)
           fills == c # 0 /\ q.e # None /\ contact[c] = None /\ found \in {0, c}
           own == [q EXCEPT !.c = c, !.pc = "write", !.write = fills,
                            !.e = IF fills THEN q.e ELSE contact[c]]
           other == [q EXCEPT !.c = found, !.pc = "write", !.write = FALSE]
<1>1. TypeInv /\ q \in Request /\ q.pc = "contact" /\ Refers(q) /\ OpAt(q)
  BY OneRequest DEF Basic, FindContact, At
<1>2. c \in Nat /\ c <= Len(contact)
  BY <1>1 DEF Refers, RefersWithin, Request
<1>3. found \in Nat /\ found <= Len(contact)
  <2>1. q.e \in Emails \cup {None}
    BY <1>1 DEF Request
  <2>2. \A e \in Emails : identity[e] <= Len(contact)
    BY DEF Basic, ReferencesThere
  <2> QED BY <1>1, <2>1, <2>2, ContactIn, Lengths
<1>4. CASE c # 0
  <2>1. c \in Contacts /\ contact[c] \in Emails \cup {None}
    BY <1>1, <1>2, <1>4, Lengths
  <2>2. fills \in BOOLEAN
    OBVIOUS
  <2> DEFINE email == IF fills THEN q.e ELSE contact[c]
  <2>3. q.e \in Emails \cup {None}
    BY <1>1 DEF Request
  <2>4. email \in Emails \cup {None}
    BY <2>1, <2>3
  <2>5. own = [q EXCEPT !.c = c, !.pc = "write", !.write = fills, !.e = email]
    OBVIOUS
  <2> HIDE DEF c, fills, email
  <2>6. own \in Request
    <3> HIDE DEF own
    <3>1. "write" \in Steps \cup {"idle"} /\ c \in Nat
      BY <1>2 DEF Steps, Visiting, Message
    <3> QED BY <1>1, <2>2, <2>4, <2>5, <3>1 DEF Request
  <2>7. Refers(own) /\ OpAt(own)
    <3>1. /\ own.pc = "write" /\ own.op = q.op /\ own.s = q.s /\ own.c = c /\ own.t = q.t
          /\ own.r = q.r /\ own.loaded = q.loaded
      BY <1>1 DEF Request
    <3> HIDE DEF own
    <3> QED BY <1>1, <1>2, <3>1 DEF Refers, RefersWithin, OpAt, Visiting, Message, Using, Replacing
  <2>8. Goto(h, own)
    BY <1>4 DEF FindContact, c, fills
  <2>9. UNCHANGED documents
    BY DEF FindContact
  <2> HIDE DEF own
  <2> QED BY <2>6, <2>7, <2>8, <2>9, BasicGoes
<1>5. CASE c = 0
  <2> HIDE DEF found
  <2>1. other \in Request
    BY <1>1, <1>3 DEF Request, Steps, Visiting, Message
  <2>2. Refers(other) /\ OpAt(other)
    <3>1. /\ other.pc = "write" /\ other.op = q.op /\ other.s = q.s /\ other.c = found
          /\ other.t = q.t /\ other.r = q.r /\ other.loaded = q.loaded
      BY <1>1 DEF Request
    <3> HIDE DEF other
    <3> QED BY <1>1, <1>3, <3>1 DEF Refers, RefersWithin, OpAt, Visiting, Message, Using, Replacing
  <2>3. Goto(h, other)
    BY <1>5 DEF FindContact, found
  <2>4. UNCHANGED documents
    BY DEF FindContact
  <2> HIDE DEF other
  <2> QED BY <2>1, <2>2, <2>3, <2>4, BasicGoes
<1> QED BY <1>4, <1>5

LEMMA BasicFindEligible ==
    ASSUME Basic, NEW h \in Handlers, FindEligible(h)
    PROVE  Basic'
<1> DEFINE q == req[h]
<1>1. TypeInv /\ q \in Request /\ q.pc = "eligible" /\ Refers(q) /\ OpAt(q)
  BY OneRequest DEF Basic, FindEligible, At
<1>2. PICK t \in CurrentTicket(q.s, q.loaded.ticket) :
          IF t # 0 /\ ticket[t].mailbox = q.mailbox /\ ticket[t].status # "closed"
          THEN Goto(h, [q EXCEPT !.t = t, !.pc = "append"])
          ELSE Goto(h, [q EXCEPT !.pc = "create"])
  BY DEF FindEligible
<1>3. t \in Nat /\ t <= Len(ticket)
  <2>1. q.loaded.ticket \in Nat /\ q.loaded.ticket <= Len(ticket)
    BY <1>1 DEF Refers, RefersWithin, Request
  <2> QED BY <1>1, <1>2, <2>1, CurrentIn
<1> DEFINE a == [q EXCEPT !.t = t, !.pc = "append"]
           c == [q EXCEPT !.pc = "create"]
<1>4. CASE Goto(h, a) /\ t # 0
  <2>1. a \in Request
    BY <1>1, <1>3 DEF Request, Steps, Visiting, Message
  <2>2. /\ a.pc = "append" /\ a.t = t /\ a.s = q.s /\ a.c = q.c /\ a.r = q.r
        /\ a.loaded = q.loaded /\ a.op = q.op
    BY <1>1 DEF Request
  <2> HIDE DEF a
  <2>3. Refers(a) /\ OpAt(a)
    BY <1>1, <1>3, <1>4, <2>2 DEF Refers, RefersWithin, OpAt, Visiting, Message, Using, Replacing
  <2> QED BY <1>4, <2>1, <2>3, BasicGoes DEF FindEligible
<1>5. CASE Goto(h, c)
  <2>1. c \in Request
    BY <1>1 DEF Request, Steps, Visiting, Message
  <2>2. /\ c.pc = "create" /\ c.t = q.t /\ c.s = q.s /\ c.c = q.c /\ c.r = q.r
        /\ c.loaded = q.loaded /\ c.op = q.op
    BY <1>1 DEF Request
  <2> HIDE DEF c
  <2>3. Refers(c) /\ OpAt(c)
    BY <1>1, <2>2 DEF Refers, RefersWithin, OpAt, Visiting, Message, Using, Replacing
  <2> QED BY <1>5, <2>1, <2>3, BasicGoes DEF FindEligible
<1> QED BY <1>2, <1>4, <1>5

LEMMA BasicMissSockets ==
    ASSUME Basic, NEW h \in Handlers, MissSockets(h)
    PROVE  Basic'
<1> DEFINE q == req[h]
           r == [q EXCEPT !.pc = "consume", !.ids = {}]
<1>1. TypeInv /\ q \in Request /\ q.pc \in {"disconnect", "drop"} /\ Refers(q) /\ OpAt(q)
  BY OneRequest DEF Basic, MissSockets, At
<1>2. CASE q.pc = "drop"
  BY <1>2, BasicEnds DEF MissSockets, Done
<1>3. CASE q.pc = "disconnect"
  <2>1. r \in Request
    BY <1>1 DEF Request, Steps, Replacing
  <2>2. /\ r.pc = "consume" /\ r.op = q.op /\ r.s = q.s /\ r.c = q.c /\ r.t = q.t
        /\ r.r = q.r /\ r.loaded = q.loaded
    BY <1>1 DEF Request
  <2>3. Goto(h, r)
    BY <1>3 DEF MissSockets
  <2> HIDE DEF r
  <2>4. Refers(r) /\ OpAt(r)
    BY <1>1, <1>3, <2>2 DEF Refers, RefersWithin, OpAt, Visiting, Message, Using, Replacing
  <2> QED BY <2>1, <2>3, <2>4, BasicGoes DEF MissSockets
<1> QED BY <1>1, <1>2, <1>3

(* The requests that begin and change no document.                         *)
LEMMA BasicBeginMessage ==
    ASSUME Basic, NEW h \in Handlers, BeginMessage(h)
    PROVE  Basic'
<1>1. TypeInv /\ ReferencesThere
  BY DEF Basic
<1>2. PICK s \in Sessions, e \in Emails \cup {None} :
          Begin(h, [Idle EXCEPT !.pc = "contact", !.op = "message", !.s = s, !.e = e,
                                !.loaded = [ticket |-> session[s].ticket,
                                            contact |-> session[s].contact],
                                !.mailbox = widget.mailbox])
  BY DEF BeginMessage
<1> DEFINE l == [ticket |-> session[s].ticket, contact |-> session[s].contact]
           r == [Idle EXCEPT !.pc = "contact", !.op = "message", !.s = s, !.e = e,
                             !.loaded = l, !.mailbox = widget.mailbox]
<1>3. /\ s \in Nat /\ s # 0 /\ s <= Len(session)
      /\ l \in [ticket : Nat, contact : Nat] /\ widget.mailbox \in Mailboxes
      /\ l.ticket <= Len(ticket) /\ l.contact <= Len(contact)
  BY <1>1, OneSession DEF TypeInv
<1> HIDE DEF l
<1>4. /\ r \in Request /\ r.pc = "contact" /\ r.op = "message" /\ r.s = s /\ r.c = 0
      /\ r.t = 0 /\ r.r = 0 /\ r.loaded = l
  BY <1>3 DEF Idle, Request, Steps, Visiting, Message, AllOps, None
<1>5. Begin(h, r)
  BY <1>2 DEF l
<1> HIDE DEF r
<1>6. Refers(r) /\ OpAt(r)
  BY <1>1, <1>3, <1>4, Lengths DEF Refers, RefersWithin, OpAt, Visiting, Message, Using, Replacing
<1> QED BY <1>4, <1>5, <1>6, BasicGoes DEF BeginMessage

LEMMA BasicBeginVerify ==
    ASSUME Basic, NEW h \in Handlers, BeginVerify(h)
    PROVE  Basic'
<1>1. TypeInv /\ ReferencesThere
  BY DEF Basic
<1>2. PICK e \in Emails :
         LET contacts == Known(e)
             known == Latest(touched, {s \in Sessions : session[s].contact \in contacts})
             t == LatestRecoverable(contacts)
             candidate == Latest(touched, {s \in Sessions : /\ t # 0 /\ session[s].ticket = t
                                                            /\ session[s].contact \in contacts})
             found == IF contacts = {} THEN 0 ELSE ContactByEmail(e)
             c == FirstOf(IF candidate = 0 THEN 0 ELSE session[candidate].contact,
                          IF known = 0 THEN 0 ELSE session[known].contact, found)
         IN  Begin(h, [Idle EXCEPT !.pc = "record", !.op = "verify", !.e = e, !.c = c, !.t = t,
                                   !.s = FirstOf(candidate, known, 0)])
  BY DEF BeginVerify
<1> DEFINE contacts == Known(e)
           known == Latest(touched, {s \in Sessions : session[s].contact \in contacts})
           t == LatestRecoverable(contacts)
           candidate == Latest(touched, {s \in Sessions : /\ t # 0 /\ session[s].ticket = t
                                                          /\ session[s].contact \in contacts})
           found == IF contacts = {} THEN 0 ELSE ContactByEmail(e)
           ofCandidate == IF candidate = 0 THEN 0 ELSE session[candidate].contact
           ofKnown == IF known = 0 THEN 0 ELSE session[known].contact
           c == FirstOf(ofCandidate, ofKnown, found)
           s == FirstOf(candidate, known, 0)
<1>3. known \in Sessions \cup {0}
  BY LatestIn
<1>4. t \in Tickets \cup {0}
  BY LatestIn DEF LatestRecoverable
<1> HIDE DEF t
<1>5. candidate \in Sessions \cup {0}
  BY LatestIn
<1>6. found \in Nat /\ found <= Len(contact)
  BY <1>1, ContactIn, Lengths DEF ReferencesThere
<1> HIDE DEF known, candidate, found
<1>7. /\ ofCandidate \in Nat /\ ofCandidate <= Len(contact)
      /\ ofKnown \in Nat /\ ofKnown <= Len(contact)
  BY <1>1, <1>3, <1>5, OneSession, Lengths
<1>8. s \in Nat /\ s <= Len(session) /\ t \in Nat /\ t <= Len(ticket)
  BY <1>1, <1>3, <1>4, <1>5, Lengths DEF FirstOf
<1> HIDE DEF ofCandidate, ofKnown
<1>9. c \in Nat /\ c <= Len(contact)
  BY <1>6, <1>7 DEF FirstOf
<1> HIDE DEF s, c
<1> DEFINE r == [Idle EXCEPT !.pc = "record", !.op = "verify", !.e = e, !.c = c, !.t = t, !.s = s]
<1>10. /\ r \in Request /\ r.pc = "record" /\ r.op = "verify" /\ r.s = s /\ r.c = c
       /\ r.t = t /\ r.r = 0 /\ r.loaded = [ticket |-> 0, contact |-> 0]
  BY <1>8, <1>9 DEF Idle, Request, Steps, AllOps, None
<1>11. Begin(h, r)
  BY <1>2 DEF c, s, t, known, candidate, found, ofCandidate, ofKnown
<1> HIDE DEF r
<1>12. Refers(r) /\ OpAt(r)
  BY <1>1, <1>8, <1>9, <1>10, Lengths
  DEF Refers, RefersWithin, OpAt, Visiting, Message, Using, Replacing
<1> QED BY <1>10, <1>11, <1>12, BasicGoes DEF BeginVerify

LEMMA OneRecovery ==
    ASSUME Basic, NEW n \in Recoveries
    PROVE  /\ n \in Nat /\ n # 0 /\ n <= Len(recovery) /\ recovery[n] \in RecoveryDoc
           /\ recovery[n].email \in Emails \cup {None} /\ recovery[n].contact \in Nat
           /\ recovery[n].ticket \in Nat /\ recovery[n].session \in Nat
           /\ recovery[n].contact <= Len(contact) /\ recovery[n].ticket <= Len(ticket)
           /\ recovery[n].session <= Len(session)
<1>1. TypeInv /\ ReferencesThere
  BY DEF Basic
<1>2. n \in Nat /\ n # 0 /\ n <= Len(recovery) /\ recovery[n] \in RecoveryDoc
  BY <1>1, Lengths
<1> QED BY <1>1, <1>2 DEF RecoveryDoc, ReferencesThere

LEMMA BasicBeginUse ==
    ASSUME Basic, NEW h \in Handlers, BeginUse(h)
    PROVE  Basic'
<1>1. TypeInv
  BY DEF Basic
<1>2. PICK n \in Recoveries, op \in {"continue", "start_new"} :
         LET t == recovery[n].ticket
         IN  Begin(h, [Idle EXCEPT !.pc = "prove", !.op = op, !.r = n,
                                   !.e = recovery[n].email, !.c = recovery[n].contact,
                                   !.t = IF op = "continue" THEN t ELSE 0,
                                   !.held = {s \in Sessions : Live(s) /\ t # 0
                                                              /\ session[s].ticket = t}])
  BY DEF BeginUse
<1> DEFINE d == recovery[n]
           t == IF op = "continue" THEN d.ticket ELSE 0
           held == {s \in Sessions : Live(s) /\ d.ticket # 0 /\ session[s].ticket = d.ticket}
           r == [Idle EXCEPT !.pc = "prove", !.op = op, !.r = n, !.e = d.email,
                             !.c = d.contact, !.t = t, !.held = held]
<1>3. /\ n \in Nat /\ n # 0 /\ n <= Len(recovery) /\ d.email \in Emails \cup {None}
      /\ d.contact \in Nat /\ d.contact <= Len(contact)
      /\ t \in Nat /\ t <= Len(ticket) /\ held \in SUBSET Nat
  BY <1>1, OneRecovery, Lengths
<1>4. Begin(h, r)
  BY <1>2
<1> HIDE DEF d, t, held
<1>5. /\ r \in Request /\ r.pc = "prove" /\ r.op = op /\ r.s = 0 /\ r.c = d.contact
      /\ r.t = t /\ r.r = n /\ r.loaded = [ticket |-> 0, contact |-> 0]
  BY <1>3 DEF Idle, Request, Steps, Using, AllOps, None
<1> HIDE DEF r
<1>6. Refers(r) /\ OpAt(r)
  BY <1>1, <1>3, <1>5, Lengths DEF Refers, RefersWithin, OpAt, Visiting, Message, Using, Replacing
<1> QED BY <1>4, <1>5, <1>6, BasicGoes DEF BeginUse

LEMMA BasicBeginSubscribe ==
    ASSUME Basic, NEW h \in Handlers, BeginSubscribe(h)
    PROVE  Basic'
<1>1. TypeInv
  BY DEF Basic
<1>2. PICK s \in Sessions :
          Begin(h, [Idle EXCEPT !.pc = "join", !.op = "subscribe", !.s = s])
  BY DEF BeginSubscribe
<1> DEFINE r == [Idle EXCEPT !.pc = "join", !.op = "subscribe", !.s = s]
<1>3. s \in Nat /\ s # 0 /\ s <= Len(session)
  BY OneSession
<1>4. /\ r \in Request /\ r.pc = "join" /\ r.op = "subscribe" /\ r.s = s /\ r.c = 0
      /\ r.t = 0 /\ r.r = 0 /\ r.loaded = [ticket |-> 0, contact |-> 0]
  BY <1>3 DEF Idle, Request, Steps, AllOps, None
<1> HIDE DEF r
<1>5. Refers(r) /\ OpAt(r)
  BY <1>1, <1>3, <1>4, Lengths DEF Refers, RefersWithin, OpAt, Visiting, Message, Using, Replacing
<1> QED BY <1>2, <1>4, <1>5, BasicGoes DEF BeginSubscribe, r

LEMMA BasicBeginPublish ==
    ASSUME Basic, NEW h \in Handlers, BeginPublish(h)
    PROVE  Basic'
<1>1. TypeInv
  BY DEF Basic
<1> DEFINE held == {s \in Sessions : ~Live(s)}
<1>2. PICK t \in Tickets :
          Begin(h, [Idle EXCEPT !.pc = "bound", !.op = "publish", !.t = t, !.held = held])
  BY DEF BeginPublish
<1> DEFINE r == [Idle EXCEPT !.pc = "bound", !.op = "publish", !.t = t, !.held = held]
<1>3. t \in Nat /\ t <= Len(ticket) /\ held \in SUBSET Nat
  BY <1>1, Lengths
<1>4. Begin(h, r)
  BY <1>2
<1> HIDE DEF held
<1>5. /\ r \in Request /\ r.pc = "bound" /\ r.op = "publish" /\ r.s = 0 /\ r.c = 0
      /\ r.t = t /\ r.r = 0 /\ r.loaded = [ticket |-> 0, contact |-> 0]
  BY <1>3 DEF Idle, Request, Steps, AllOps, None
<1> HIDE DEF r
<1>6. Refers(r) /\ OpAt(r)
  BY <1>1, <1>3, <1>5, Lengths DEF Refers, RefersWithin, OpAt, Visiting, Message, Using, Replacing
<1> QED BY <1>4, <1>5, <1>6, BasicGoes DEF BeginPublish

(* The steps that change documents: each leaves the others as they are.    *)
LEMMA SessionsGrow ==
    ASSUME Basic, session' \in Seq(SessionDoc), Len(session) <= Len(session'),
           \A s \in Sessions' : /\ session'[s].ticket <= Len(ticket)
                                /\ session'[s].contact <= Len(contact),
           UNCHANGED <<widget, contact, identity, ticket, recovery>>
    PROVE  Grow
<1>1. TypeInv /\ ReferencesThere
  BY DEF Basic
<1>2. /\ Len(session) \in Nat /\ Len(session') \in Nat /\ Len(contact) \in Nat
      /\ Len(ticket) \in Nat /\ Len(recovery) \in Nat
  BY <1>1, Lengths
<1>3. ASSUME NEW n \in Recoveries PROVE recovery[n].session <= Len(session')
  <2>1. recovery[n].session \in Nat /\ recovery[n].session <= Len(session)
    BY OneRecovery
  <2> QED BY <1>2, <2>1
<1>4. /\ \A e \in Emails : identity[e] <= Len(contact)
      /\ \A n \in Recoveries : /\ recovery[n].ticket <= Len(ticket)
                               /\ recovery[n].contact <= Len(contact)
  BY <1>1 DEF ReferencesThere
<1> QED BY <1>1, <1>2, <1>3, <1>4 DEF Grow, TypeInv, Sessions, Recoveries

LEMMA ContactsGrow ==
    ASSUME Basic, contact' \in Seq(Emails \cup {None}), Len(contact) <= Len(contact'),
           identity' \in [Emails -> Nat], \A e \in Emails : identity'[e] <= Len(contact'),
           UNCHANGED <<widget, session, ticket, recovery>>
    PROVE  Grow
<1>1. TypeInv /\ ReferencesThere
  BY DEF Basic
<1>2. /\ Len(session) \in Nat /\ Len(contact') \in Nat /\ Len(contact) \in Nat
      /\ Len(ticket) \in Nat /\ Len(recovery) \in Nat
  BY <1>1, Lengths
<1>3. ASSUME NEW n \in Recoveries
      PROVE  /\ recovery[n].contact <= Len(contact') /\ recovery[n].ticket <= Len(ticket)
             /\ recovery[n].session <= Len(session)
  <2>1. /\ recovery[n].contact \in Nat /\ recovery[n].contact <= Len(contact)
        /\ recovery[n].ticket <= Len(ticket) /\ recovery[n].session <= Len(session)
    BY OneRecovery
  <2> QED BY <1>2, <2>1
<1>4. ASSUME NEW s \in Sessions
      PROVE  session[s].contact <= Len(contact') /\ session[s].ticket <= Len(ticket)
  <2>1. /\ session[s].contact \in Nat /\ session[s].contact <= Len(contact)
        /\ session[s].ticket <= Len(ticket)
    BY OneSession
  <2> QED BY <1>2, <2>1
<1> QED BY <1>1, <1>2, <1>3, <1>4 DEF Grow, TypeInv, Sessions, Recoveries

LEMMA TicketsGrow ==
    ASSUME Basic, ticket' \in Seq(TicketDoc), Len(ticket) <= Len(ticket'),
           UNCHANGED <<widget, session, contact, identity, recovery>>
    PROVE  Grow
<1>1. TypeInv /\ ReferencesThere
  BY DEF Basic
<1>2. /\ Len(session) \in Nat /\ Len(ticket') \in Nat /\ Len(contact) \in Nat
      /\ Len(ticket) \in Nat /\ Len(recovery) \in Nat
  BY <1>1, Lengths
<1>3. ASSUME NEW n \in Recoveries
      PROVE  /\ recovery[n].contact <= Len(contact) /\ recovery[n].ticket <= Len(ticket')
             /\ recovery[n].session <= Len(session)
  <2>1. /\ recovery[n].ticket \in Nat /\ recovery[n].ticket <= Len(ticket)
        /\ recovery[n].contact <= Len(contact) /\ recovery[n].session <= Len(session)
    BY OneRecovery
  <2> QED BY <1>2, <2>1
<1>4. ASSUME NEW s \in Sessions
      PROVE  session[s].contact <= Len(contact) /\ session[s].ticket <= Len(ticket')
  <2>1. /\ session[s].ticket \in Nat /\ session[s].ticket <= Len(ticket)
        /\ session[s].contact <= Len(contact)
    BY OneSession
  <2> QED BY <1>2, <2>1
<1>5. \A e \in Emails : identity[e] <= Len(contact)
  BY <1>1 DEF ReferencesThere
<1> QED BY <1>1, <1>2, <1>3, <1>4, <1>5 DEF Grow, TypeInv, Sessions, Recoveries

LEMMA RecoveriesGrow ==
    ASSUME Basic, recovery' \in Seq(RecoveryDoc), Len(recovery) <= Len(recovery'),
           \A n \in Recoveries' : /\ recovery'[n].ticket <= Len(ticket)
                                  /\ recovery'[n].contact <= Len(contact)
                                  /\ recovery'[n].session <= Len(session),
           UNCHANGED <<widget, session, contact, identity, ticket>>
    PROVE  Grow
<1>1. TypeInv /\ ReferencesThere
  BY DEF Basic
<1>2. /\ Len(session) \in Nat /\ Len(contact) \in Nat /\ Len(ticket) \in Nat
  BY <1>1, Lengths
<1>3. /\ \A e \in Emails : identity[e] <= Len(contact)
      /\ \A s \in Sessions : /\ session[s].ticket <= Len(ticket)
                             /\ session[s].contact <= Len(contact)
  BY <1>1 DEF ReferencesThere
<1> QED BY <1>1, <1>2, <1>3 DEF Grow, TypeInv, Sessions, Recoveries

(* A session is added.                                                     *)
LEMMA SessionAdded ==
    ASSUME Basic, NEW t \in Nat, NEW c \in Nat, NEW p \in Nat, AddSession(t, c, p)
    PROVE  /\ session' \in Seq(SessionDoc) /\ Len(session') = Len(session) + 1
           /\ Sessions' = Sessions \cup {Len(session) + 1}
           /\ \A s \in Sessions : session'[s] = session[s]
           /\ session'[Len(session) + 1] = NewSession(t, c, p)
           /\ Len(session) + 1 \notin Sessions
<1>1. session \in Seq(SessionDoc) /\ Len(session) \in Nat
  BY DEF Basic, TypeInv
<1>2. NewSession(t, c, p) \in SessionDoc
  BY DEF NewSession, SessionDoc
<1>3. session' = Append(session, NewSession(t, c, p))
  BY DEF AddSession
<1> HIDE DEF NewSession
<1> QED BY <1>1, <1>2, <1>3 DEF Sessions

LEMMA AddedGrow ==
    ASSUME Basic, NEW t \in Nat, NEW c \in Nat, NEW p \in Nat, AddSession(t, c, p),
           t <= Len(ticket), c <= Len(contact),
           UNCHANGED <<widget, contact, identity, ticket, recovery>>
    PROVE  Grow
<1>1. \A s \in Sessions' : session'[s].ticket <= Len(ticket) /\ session'[s].contact <= Len(contact)
  <2>1. NewSession(t, c, p).ticket = t /\ NewSession(t, c, p).contact = c
    BY DEF NewSession
  <2> QED BY <2>1, SessionAdded, OneSession
<1>2. Len(session) \in Nat
  BY DEF Basic, TypeInv
<1> QED BY <1>1, <1>2, SessionAdded, SessionsGrow

LEMMA BasicBeginInitialize ==
    ASSUME Basic, NEW h \in Handlers, BeginInitialize(h)
    PROVE  Basic'
<1>1. TypeInv /\ Len(session) \in Nat /\ Len(ticket) \in Nat /\ Len(contact) \in Nat
      /\ Len(recovery) \in Nat
  BY Lengths DEF Basic
<1>2. CASE /\ AddSession(0, 0, 0)
           /\ Begin(h, [Idle EXCEPT !.pc = "load", !.op = "initialize", !.s = Len(session) + 1])
  <2> DEFINE s == Len(session) + 1
             r == [Idle EXCEPT !.pc = "load", !.op = "initialize", !.s = s]
  <2>1. Grow
    <3>1. UNCHANGED <<widget, contact, identity, ticket, recovery>>
      BY DEF BeginInitialize
    <3>2. 0 \in Nat /\ 0 <= Len(ticket) /\ 0 <= Len(contact)
      BY <1>1
    <3> QED BY <1>2, <3>1, <3>2, AddedGrow
  <2>2. s \in Nat /\ s # 0 /\ s = Len(session) + 1
    BY <1>1
  <2>3. Begin(h, r)
    BY <1>2
  <2> HIDE DEF s
  <2>4. /\ r \in Request /\ r.pc = "load" /\ r.s = s /\ r.c = 0
        /\ r.t = 0 /\ r.r = 0 /\ r.loaded = [ticket |-> 0, contact |-> 0]
    BY <2>2 DEF Idle, Request, Steps, Visiting, AllOps, None
  <2> HIDE DEF r
  <2>5. Takes(h, r)
    BY <1>1, <2>3, <2>4, Taken
  <2>6. Len(session') = Len(session) + 1 /\ UNCHANGED <<contact, ticket, recovery>>
    BY <1>2, SessionAdded DEF BeginInitialize
  <2>7. RefersNext(r) /\ OpAt(r)
    BY <1>1, <2>2, <2>6, <2>4
    DEF Refers, RefersNext, RefersWithin, OpAt, Visiting, Message, Using, Replacing
  <2> QED BY <2>1, <2>5, <2>7, <2>4, BasicWrites
<1>3. CASE /\ \E s \in Sessions :
                Begin(h, [Idle EXCEPT !.pc = "load", !.op = "initialize", !.s = s,
                                      !.loaded = [ticket |-> session[s].ticket,
                                                  contact |-> session[s].contact],
                                      !.c = session[s].contact])
           /\ UNCHANGED session
  <2>1. PICK s \in Sessions :
                Begin(h, [Idle EXCEPT !.pc = "load", !.op = "initialize", !.s = s,
                                      !.loaded = [ticket |-> session[s].ticket,
                                                  contact |-> session[s].contact],
                                      !.c = session[s].contact])
    BY <1>3
  <2> DEFINE l == [ticket |-> session[s].ticket, contact |-> session[s].contact]
             r == [Idle EXCEPT !.pc = "load", !.op = "initialize", !.s = s, !.loaded = l,
                               !.c = session[s].contact]
  <2>2. /\ s \in Nat /\ s # 0 /\ s <= Len(session) /\ l \in [ticket : Nat, contact : Nat]
        /\ l.ticket <= Len(ticket) /\ l.contact <= Len(contact)
        /\ session[s].contact \in Nat /\ session[s].contact <= Len(contact)
    BY OneSession
  <2>3. Begin(h, r)
    BY <2>1
  <2> HIDE DEF l
  <2>4. /\ r \in Request /\ r.pc = "load" /\ r.s = s /\ r.c = session[s].contact
        /\ r.t = 0 /\ r.r = 0 /\ r.loaded = l
    BY <2>2 DEF Idle, Request, Steps, Visiting, AllOps, None
  <2> HIDE DEF r
  <2>5. Takes(h, r)
    BY <1>1, <2>3, <2>4, Taken
  <2>6. Grow
    <3>1. UNCHANGED <<widget, contact, identity, ticket, recovery>>
      BY DEF BeginInitialize
    <3>2. session' \in Seq(SessionDoc) /\ Sessions' = Sessions /\ session' = session
      BY <1>1, <1>3 DEF TypeInv, Sessions
    <3>3. Len(session) <= Len(session')
      BY <1>1, <3>2
    <3> QED BY <3>1, <3>2, <3>3, OneSession, SessionsGrow
  <2>7. UNCHANGED <<session, contact, ticket, recovery>>
    BY <1>3 DEF BeginInitialize
  <2>8. RefersNext(r) /\ OpAt(r)
    BY <1>1, <2>2, <2>4, <2>7
    DEF Refers, RefersNext, RefersWithin, OpAt, Visiting, Message, Using, Replacing
  <2> QED BY <2>4, <2>5, <2>6, <2>8, BasicWrites
<1> QED BY <1>2, <1>3 DEF BeginInitialize

(* A step that ends its request refers to nothing.                         *)
LEMMA BasicLast ==
    ASSUME Basic, Grow, NEW h \in Handlers, Done(h)
    PROVE  Basic'
<1>1. /\ Len(session') \in Nat /\ Len(contact') \in Nat /\ Len(ticket') \in Nat
      /\ Len(recovery') \in Nat
  BY DEF Grow
<1>2. RefersNext(Idle) /\ OpAt(Idle)
  BY <1>1 DEF Refers, RefersNext, RefersWithin, OpAt, Idle, Visiting, Message, Using, Replacing
<1>3. Takes(h, Idle)
  BY Taken, IdleType DEF Basic
<1> QED BY <1>2, <1>3, BasicWrites, IdleType

LEMMA BasicSync ==
    ASSUME Basic, NEW h \in Handlers, Sync(h)
    PROVE  Basic'
<1> DEFINE q == req[h]
           t == SavedPath(session[q.s].ticket, q.loaded.ticket, q.t)
           c == SavedPath(session[q.s].contact, q.loaded.contact, q.c)
<1>1. TypeInv /\ q \in Request /\ q.pc = "sync" /\ Refers(q)
  BY OneRequest DEF Basic, Sync, At
<1>2. q.s \in Sessions
  BY <1>1, Lengths DEF Refers, RefersWithin, Request, Visiting
<1>3. t \in Nat /\ c \in Nat /\ t <= Len(ticket) /\ c <= Len(contact)
  BY <1>1, <1>2, OneSession DEF SavedPath, Refers, RefersWithin, Request
<1>4. session' = [session EXCEPT ![q.s].ticket = t, ![q.s].contact = c]
  BY DEF Sync
<1> HIDE DEF t, c
<1>5. session' = [session EXCEPT ![q.s] = [session[q.s] EXCEPT !.ticket = t, !.contact = c]]
  BY <1>1, <1>2, <1>4, Lengths
<1> DEFINE d == [session[q.s] EXCEPT !.ticket = t, !.contact = c]
<1>6. d \in SessionDoc /\ d.ticket = t /\ d.contact = c
  BY <1>2, <1>3, OneSession DEF SessionDoc
<1> HIDE DEF d
<1>7. /\ session' \in Seq(SessionDoc) /\ Len(session') = Len(session) /\ Sessions' = Sessions
      /\ \A s \in Sessions : session'[s] = IF s = q.s THEN d ELSE session[s]
  BY <1>1, <1>2, <1>5, <1>6 DEF TypeInv, Sessions, d
<1>8. Grow
  <2>1. \A s \in Sessions' : /\ session'[s].ticket <= Len(ticket)
                             /\ session'[s].contact <= Len(contact)
    BY <1>3, <1>6, <1>7, OneSession
  <2>2. UNCHANGED <<widget, contact, identity, ticket, recovery>>
    BY DEF Sync
  <2>3. Len(session) <= Len(session')
    BY <1>1, <1>7, Lengths
  <2> QED BY <1>7, <2>1, <2>2, <2>3, SessionsGrow
<1> QED BY <1>8, BasicLast DEF Sync

LEMMA BasicWriteContact ==
    ASSUME Basic, NEW h \in Handlers, WriteContact(h)
    PROVE  Basic'
<1> DEFINE q == req[h]
<1>1. TypeInv /\ q \in Request /\ q.pc = "write" /\ Refers(q) /\ OpAt(q)
  BY OneRequest DEF Basic, WriteContact, At
<1>2. /\ Len(session) \in Nat /\ Len(contact) \in Nat /\ Len(ticket) \in Nat
      /\ Len(recovery) \in Nat /\ q.e \in Emails \cup {None}
      /\ q.c \in Nat /\ q.s \in Nat /\ q.t \in Nat /\ q.r \in Nat
  BY <1>1, Lengths DEF Request
<1>3. \A e \in Emails : identity[e] \in Nat /\ identity[e] <= Len(contact)
  BY DEF Basic, TypeInv, ReferencesThere
<1>4. UNCHANGED <<widget, session, identity, ticket, recovery>>
  BY DEF WriteContact
<1>5. CASE q.c = 0
  <2> DEFINE c == Len(contact) + 1
             r == [q EXCEPT !.c = c, !.pc = "identify"]
  <2>1. contact' = Append(contact, q.e) /\ Goto(h, r)
    BY <1>5 DEF WriteContact
  <2>2. /\ contact' \in Seq(Emails \cup {None}) /\ Len(contact') = Len(contact) + 1
    BY <1>1, <1>2, <2>1 DEF TypeInv
  <2>3. c \in Nat /\ c = Len(contact) + 1
    BY <1>2
  <2> HIDE DEF c
  <2>4. /\ r \in Request /\ r.pc = "identify" /\ r.op = q.op /\ r.s = q.s
        /\ r.c = c /\ r.t = q.t /\ r.r = q.r /\ r.loaded = q.loaded
    BY <1>1, <2>3 DEF Request, Steps, Visiting, Message
  <2> HIDE DEF r
  <2>5. Grow
    <3>1. \A e \in Emails : identity'[e] <= Len(contact')
      BY <1>2, <1>3, <1>4, <2>2
    <3>2. identity' \in [Emails -> Nat] /\ Len(contact) <= Len(contact')
      BY <1>1, <1>2, <1>4, <2>2 DEF TypeInv
    <3> QED BY <1>4, <2>2, <3>1, <3>2, ContactsGrow
  <2>6. Takes(h, r)
    BY <1>1, <2>1, <2>4, Taken
  <2>7. q.loaded.contact \in Nat /\ q.loaded.contact <= Len(contact)
    BY <1>1 DEF Request, Refers, RefersWithin
  <2>8. RefersNext(r) /\ OpAt(r)
    BY <1>1, <1>2, <1>4, <2>2, <2>4, <2>7, <2>3
    DEF Refers, RefersNext, RefersWithin, OpAt, Visiting, Message, Using, Replacing
  <2> QED BY <2>4, <2>5, <2>6, <2>8, BasicWrites
<1>6. CASE q.c # 0
  <2> DEFINE r == [q EXCEPT !.pc = "identify", !.write = FALSE]
  <2>1. /\ contact' = IF q.write THEN [contact EXCEPT ![q.c] = q.e] ELSE contact
        /\ Goto(h, r)
    BY <1>6 DEF WriteContact
  <2>2. /\ contact' \in Seq(Emails \cup {None}) /\ Len(contact') = Len(contact)
    <3>1. contact \in Seq(Emails \cup {None})
      BY <1>1 DEF TypeInv
    <3>2. CASE q.write
      <4>1. q.c \in 1 .. Len(contact)
        BY <1>1, <1>2, <1>6 DEF Refers, RefersWithin
      <4>2. contact' = [contact EXCEPT ![q.c] = q.e]
        BY <2>1, <3>2
      <4> QED BY <1>2, <3>1, <4>1, <4>2
    <3>3. CASE ~q.write
      BY <2>1, <3>1, <3>3
    <3> QED BY <3>2, <3>3
  <2>3. /\ r \in Request /\ r.pc = "identify" /\ r.op = q.op /\ r.s = q.s
        /\ r.c = q.c /\ r.t = q.t /\ r.r = q.r /\ r.loaded = q.loaded
    BY <1>1, <1>2 DEF Request, Steps, Visiting, Message
  <2> HIDE DEF r
  <2>4. Grow
    <3>1. \A e \in Emails : identity'[e] <= Len(contact')
      BY <1>2, <1>3, <1>4, <2>2
    <3>2. identity' \in [Emails -> Nat] /\ Len(contact) <= Len(contact')
      BY <1>1, <1>2, <1>4, <2>2 DEF TypeInv
    <3> QED BY <1>4, <2>2, <3>1, <3>2, ContactsGrow
  <2>5. Takes(h, r)
    BY <1>1, <2>1, <2>3, Taken
  <2>6. RefersNext(r) /\ OpAt(r)
    BY <1>1, <1>2, <1>4, <2>2, <2>3
    DEF Refers, RefersNext, RefersWithin, OpAt, Visiting, Message, Using, Replacing
  <2> QED BY <2>3, <2>4, <2>5, <2>6, BasicWrites
<1> QED BY <1>5, <1>6

LEMMA BasicEnsureIdentity ==
    ASSUME Basic, NEW h \in Handlers, EnsureIdentity(h)
    PROVE  Basic'
<1> DEFINE q == req[h]
           r == [q EXCEPT !.e = None, !.pc = "eligible"]
<1>1. TypeInv /\ q \in Request /\ q.pc = "identify" /\ Refers(q) /\ OpAt(q)
  BY OneRequest DEF Basic, EnsureIdentity, At
<1>2. q.e \in Emails \cup {None} /\ q.c \in Nat /\ q.c <= Len(contact) /\ Len(contact) \in Nat
  BY <1>1, Lengths DEF Request, Refers, RefersWithin
<1>3. \A e \in Emails : identity[e] \in Nat /\ identity[e] <= Len(contact)
  BY DEF Basic, TypeInv, ReferencesThere
<1>4. /\ r \in Request /\ r.pc = "eligible" /\ r.op = q.op /\ r.s = q.s
      /\ r.c = q.c /\ r.t = q.t /\ r.r = q.r /\ r.loaded = q.loaded
  BY <1>1 DEF Request, Steps, Visiting, Message
<1>5. Goto(h, r) /\ UNCHANGED <<widget, session, contact, ticket, recovery>>
  BY DEF EnsureIdentity
<1> HIDE DEF r
<1>6. Grow
  <2>1. identity' \in [Emails -> Nat] /\ \A e \in Emails : identity'[e] <= Len(contact)
    BY <1>1, <1>2, <1>3 DEF EnsureIdentity, TypeInv
  <2>2. contact' \in Seq(Emails \cup {None}) /\ Len(contact) <= Len(contact')
    BY <1>1, <1>2, <1>5 DEF TypeInv
  <2> QED BY <1>5, <2>1, <2>2, ContactsGrow
<1>7. Takes(h, r)
  BY <1>1, <1>4, <1>5, Taken
<1>8. RefersNext(r) /\ OpAt(r)
  BY <1>1, <1>4, <1>5
  DEF Refers, RefersNext, RefersWithin, OpAt, Visiting, Message, Using, Replacing
<1> QED BY <1>4, <1>6, <1>7, <1>8, BasicWrites

LEMMA OneTicket ==
    ASSUME Basic, NEW t \in Tickets
    PROVE  t \in Nat /\ t # 0 /\ t <= Len(ticket) /\ ticket[t] \in TicketDoc
BY Lengths DEF Basic

LEMMA BasicCreateTicket ==
    ASSUME Basic, NEW h \in Handlers, CreateTicket(h)
    PROVE  Basic'
<1> DEFINE q == req[h]
           n == Len(ticket) + 1
           d == [session |-> q.s, contact |-> q.c, status |-> "open", mailbox |-> q.mailbox]
           r == [q EXCEPT !.t = n, !.pc = "sync"]
<1>1. TypeInv /\ q \in Request /\ q.pc = "create" /\ Refers(q) /\ OpAt(q)
  BY OneRequest DEF Basic, CreateTicket, At
<1>2. /\ Len(session) \in Nat /\ Len(contact) \in Nat /\ Len(ticket) \in Nat
      /\ Len(recovery) \in Nat /\ q.c \in Nat /\ q.s \in Nat /\ q.t \in Nat /\ q.r \in Nat
      /\ q.loaded.ticket \in Nat /\ q.loaded.ticket <= Len(ticket)
      /\ q.mailbox \in Mailboxes \cup {None}
  BY <1>1, Lengths DEF Request, Refers, RefersWithin
<1>3. d \in TicketDoc
  BY <1>2 DEF TicketDoc
<1>4. n \in Nat /\ n = Len(ticket) + 1
  BY <1>2
<1>5. Goto(h, r) /\ ticket' = Append(ticket, d)
      /\ UNCHANGED <<widget, session, contact, identity, recovery>>
  BY DEF CreateTicket
<1> HIDE DEF n, d
<1>6. ticket' \in Seq(TicketDoc) /\ Len(ticket') = n
  BY <1>1, <1>3, <1>4, <1>5 DEF TypeInv
<1>7. Grow
  BY <1>2, <1>4, <1>5, <1>6, TicketsGrow
<1>8. /\ r \in Request /\ r.pc = "sync" /\ r.op = q.op /\ r.s = q.s /\ r.c = q.c
      /\ r.t = n /\ r.r = q.r /\ r.loaded = q.loaded
  BY <1>1, <1>4 DEF Request, Steps, Visiting
<1> HIDE DEF r
<1>9. Takes(h, r)
  BY <1>1, <1>5, <1>8, Taken
<1>10. RefersNext(r) /\ OpAt(r)
  BY <1>1, <1>2, <1>4, <1>5, <1>6, <1>8
  DEF Refers, RefersNext, RefersWithin, OpAt, Visiting, Message, Using, Replacing
<1> QED BY <1>7, <1>8, <1>9, <1>10, BasicWrites

(* A ticket whose status changes.                                          *)
LEMMA StatusGrow ==
    ASSUME Basic, NEW t \in Tickets, NEW status \in Statuses \cup {"open"},
           ticket' = [ticket EXCEPT ![t].status = status],
           UNCHANGED <<widget, session, contact, identity, recovery>>
    PROVE  Grow /\ Len(ticket') = Len(ticket)
<1>1. TypeInv /\ Len(ticket) \in Nat
  BY Lengths DEF Basic
<1> DEFINE d == [ticket[t] EXCEPT !.status = status]
<1>2. d \in TicketDoc
  BY OneTicket DEF TicketDoc
<1>3. ticket' = [ticket EXCEPT ![t] = d]
  OBVIOUS
<1> HIDE DEF d
<1>4. ticket' \in Seq(TicketDoc) /\ Len(ticket') = Len(ticket)
  <2>1. ticket \in Seq(TicketDoc) /\ t \in 1 .. Len(ticket)
    BY <1>1, OneTicket DEF TypeInv
  <2> QED BY <1>1, <1>2, <1>3, <2>1
<1> QED BY <1>1, <1>4, TicketsGrow

LEMMA BasicAppendMessage ==
    ASSUME Basic, NEW h \in Handlers, AppendMessage(h)
    PROVE  Basic'
<1> DEFINE q == req[h]
           r == [q EXCEPT !.pc = "sync"]
<1>1. TypeInv /\ q \in Request /\ q.pc = "append" /\ Refers(q) /\ OpAt(q)
  BY OneRequest DEF Basic, AppendMessage, At
<1>2. UNCHANGED <<widget, session, contact, identity, recovery>>
  BY DEF AppendMessage
<1>3. CASE Done(h) /\ UNCHANGED <<ticket, recent>>
  <2>1. Grow
    <3>1. TypeInv /\ ReferencesThere
      BY DEF Basic
    <3>2. /\ Len(session) \in Nat /\ Len(contact) \in Nat
          /\ Len(ticket) \in Nat /\ Len(recovery) \in Nat
      BY <3>1, Lengths
    <3> QED BY <1>2, <1>3, <3>1, <3>2 DEF Grow, TypeInv, ReferencesThere, Sessions, Recoveries
  <2> QED BY <1>3, <2>1, BasicLast
<1>4. CASE /\ ticket' = [ticket EXCEPT ![q.t].status = "open"]
           /\ Goto(h, r)
  <2>1. q.t \in Tickets
    BY <1>1, Lengths DEF Request, Refers, RefersWithin
  <2>2. Grow /\ Len(ticket') = Len(ticket)
    BY <1>2, <1>4, <2>1, StatusGrow
  <2>3. /\ r \in Request /\ r.pc = "sync" /\ r.op = q.op /\ r.s = q.s /\ r.c = q.c
        /\ r.t = q.t /\ r.r = q.r /\ r.loaded = q.loaded
    BY <1>1 DEF Request, Steps, Visiting
  <2> HIDE DEF r
  <2>4. Takes(h, r)
    BY <1>1, <1>4, <2>3, Taken
  <2>5. RefersNext(r) /\ OpAt(r)
    BY <1>1, <1>2, <2>2, <2>3
    DEF Refers, RefersNext, RefersWithin, OpAt, Visiting, Message, Using, Replacing
  <2> QED BY <2>2, <2>3, <2>4, <2>5, BasicWrites
<1> QED BY <1>3, <1>4 DEF AppendMessage

LEMMA BasicCreateRecovery ==
    ASSUME Basic, NEW h \in Handlers, CreateRecovery(h)
    PROVE  Basic'
<1> DEFINE q == req[h]
           d == [email |-> q.e, contact |-> q.c, session |-> q.s, ticket |-> q.t,
                 consumed |-> FALSE, expired |-> FALSE]
<1>1. TypeInv /\ q \in Request /\ q.pc = "record" /\ Refers(q) /\ OpAt(q)
  BY OneRequest DEF Basic, CreateRecovery, At
<1>2. /\ q.c \in Nat /\ q.c <= Len(contact) /\ q.s \in Nat /\ q.s <= Len(session)
      /\ q.t \in Nat /\ q.t <= Len(ticket) /\ q.e \in Emails \cup {None}
  BY <1>1 DEF Request, Refers, RefersWithin, OpAt
<1>3. d \in RecoveryDoc /\ d.contact = q.c /\ d.session = q.s /\ d.ticket = q.t
  BY <1>2 DEF RecoveryDoc
<1>4. recovery' = Append(recovery, d) /\ Done(h)
      /\ UNCHANGED <<widget, session, contact, identity, ticket>>
  BY DEF CreateRecovery
<1> HIDE DEF d
<1>5. /\ recovery' \in Seq(RecoveryDoc) /\ Len(recovery) <= Len(recovery')
      /\ Recoveries' = Recoveries \cup {Len(recovery) + 1}
      /\ \A n \in Recoveries : recovery'[n] = recovery[n]
      /\ recovery'[Len(recovery) + 1] = d
  BY <1>1, <1>3, <1>4 DEF TypeInv, Recoveries
<1>6. Grow
  BY <1>2, <1>3, <1>4, <1>5, OneRecovery, RecoveriesGrow
<1> QED BY <1>4, <1>6, BasicLast

LEMMA BasicProve ==
    ASSUME Basic, NEW h \in Handlers, Prove(h)
    PROVE  Basic'
<1> DEFINE q == req[h]
           pc == IF identity[q.e] = q.c THEN "session" ELSE "identity"
           r == [q EXCEPT !.pc = pc]
<1>1. TypeInv /\ q \in Request /\ q.pc = "prove" /\ Refers(q) /\ OpAt(q)
  BY OneRequest DEF Basic, Prove, At
<1>2. /\ Len(contact) \in Nat /\ q.e \in Emails \cup {None}
      /\ \A e \in Emails : identity[e] \in Nat /\ identity[e] <= Len(contact)
  BY <1>1, Lengths DEF Request, Basic, TypeInv, ReferencesThere
<1>3. UNCHANGED <<widget, session, identity, ticket, recovery>> /\ Goto(h, r)
  BY DEF Prove
<1>4. contact' \in Seq(Emails \cup {None}) /\ Len(contact') = Len(contact)
  <2>1. contact \in Seq(Emails \cup {None})
    BY <1>1 DEF TypeInv
  <2>2. contact' = contact \/ contact' = [contact EXCEPT ![q.c] = q.e]
    BY DEF Prove
  <2>3. CASE contact' = [contact EXCEPT ![q.c] = q.e]
    <3>1. CASE q.c \in 1 .. Len(contact)
      BY <1>2, <2>1, <2>3, <3>1
    <3>2. CASE q.c \notin 1 .. Len(contact)
      <4>1. contact' = contact
        BY <2>1, <2>3, <3>2
      <4> QED BY <2>1, <4>1
    <3> QED BY <3>1, <3>2
  <2> QED BY <2>1, <2>2, <2>3
<1>5. Grow
  BY <1>1, <1>2, <1>3, <1>4, ContactsGrow DEF TypeInv
<1>6. pc \in {"session", "identity"}
  OBVIOUS
<1> HIDE DEF pc
<1>7. /\ r \in Request /\ r.pc = pc /\ r.op = q.op /\ r.s = q.s /\ r.c = q.c
      /\ r.t = q.t /\ r.r = q.r /\ r.loaded = q.loaded
  BY <1>1, <1>6 DEF Request, Steps, Using
<1> HIDE DEF r
<1>8. Takes(h, r)
  BY <1>1, <1>3, <1>7, Taken
<1>9. RefersNext(r) /\ OpAt(r)
  BY <1>1, <1>3, <1>4, <1>6, <1>7
  DEF Refers, RefersNext, RefersWithin, OpAt, Visiting, Message, Using, Replacing
<1> QED BY <1>5, <1>7, <1>8, <1>9, BasicWrites

LEMMA BasicCreateIdentity ==
    ASSUME Basic, NEW h \in Handlers, CreateIdentity(h)
    PROVE  Basic'
<1> DEFINE q == req[h]
           r == [q EXCEPT !.pc = "session"]
<1>1. TypeInv /\ q \in Request /\ q.pc = "identity" /\ Refers(q) /\ OpAt(q)
  BY OneRequest DEF Basic, CreateIdentity, At
<1>2. UNCHANGED <<widget, session, contact, ticket, recovery>>
  BY DEF CreateIdentity
<1>3. /\ Len(contact) \in Nat /\ q.c \in Nat /\ q.c <= Len(contact)
      /\ \A e \in Emails : identity[e] \in Nat /\ identity[e] <= Len(contact)
      /\ contact \in Seq(Emails \cup {None})
  BY <1>1, Lengths DEF Request, Refers, RefersWithin, Basic, TypeInv, ReferencesThere
<1>4. Grow
  <2>1. identity' \in [Emails -> Nat] /\ \A e \in Emails : identity'[e] <= Len(contact)
    BY <1>1, <1>3 DEF CreateIdentity, TypeInv
  <2> QED BY <1>2, <1>3, <2>1, ContactsGrow
<1>5. CASE Done(h)
  BY <1>4, <1>5, BasicLast
<1>6. CASE Goto(h, r)
  <2>1. /\ r \in Request /\ r.pc = "session" /\ r.op = q.op /\ r.s = q.s /\ r.c = q.c
        /\ r.t = q.t /\ r.r = q.r /\ r.loaded = q.loaded
    BY <1>1 DEF Request, Steps, Using
  <2> HIDE DEF r
  <2>2. Takes(h, r)
    BY <1>1, <1>6, <2>1, Taken
  <2>3. RefersNext(r) /\ OpAt(r)
    BY <1>1, <1>2, <2>1
    DEF Refers, RefersNext, RefersWithin, OpAt, Visiting, Message, Using, Replacing
  <2> QED BY <1>4, <2>1, <2>2, <2>3, BasicWrites
<1> QED BY <1>5, <1>6 DEF CreateIdentity

LEMMA BasicCreateSession ==
    ASSUME Basic, NEW h \in Handlers, CreateSession(h)
    PROVE  Basic'
<1> DEFINE q == req[h]
           n == Len(session) + 1
           r == [q EXCEPT !.s = n, !.pc = "supersede"]
<1>1. TypeInv /\ q \in Request /\ q.pc = "session" /\ Refers(q) /\ OpAt(q)
  BY OneRequest DEF Basic, CreateSession, At
<1>2. /\ q.t \in Nat /\ q.t <= Len(ticket) /\ q.c \in Nat /\ q.c <= Len(contact)
      /\ q.r \in Nat /\ Len(session) \in Nat
  BY <1>1, Lengths DEF Request, Refers, RefersWithin
<1>3. /\ AddSession(q.t, q.c, q.r) /\ Goto(h, r)
      /\ UNCHANGED <<widget, contact, identity, ticket, recovery>>
  BY DEF CreateSession
<1>4. n \in Nat /\ n # 0 /\ Len(session') = n
  BY <1>2, <1>3, SessionAdded
<1> HIDE DEF n
<1>5. Grow
  BY <1>2, <1>3, AddedGrow
<1>6. /\ r \in Request /\ r.pc = "supersede" /\ r.op = q.op /\ r.s = n /\ r.c = q.c
      /\ r.t = q.t /\ r.r = q.r /\ r.loaded = q.loaded
  BY <1>1, <1>4 DEF Request, Steps, Replacing
<1> HIDE DEF r
<1>7. Takes(h, r)
  BY <1>1, <1>3, <1>6, Taken
<1>8. RefersNext(r) /\ OpAt(r)
  BY <1>1, <1>3, <1>4, <1>6
  DEF Refers, RefersNext, RefersWithin, OpAt, Visiting, Message, Using, Replacing
<1> QED BY <1>5, <1>6, <1>7, <1>8, BasicWrites

(* What a recovery ends: the sessions stay as they are but for that.       *)
LEMMA SupersedeEnds ==
    ASSUME Basic, NEW h \in Handlers, Supersede(h)
    PROVE  /\ session' \in Seq(SessionDoc) /\ Len(session') = Len(session)
           /\ Sessions' = Sessions
           /\ \A s \in Sessions : /\ session'[s].ticket = session[s].ticket
                                  /\ session'[s].contact = session[s].contact
                                  /\ session'[s].proof = session[s].proof
                                  /\ session'[s].live = (session[s].live /\ s \notin Superseded(h))
<1>1. session \in Seq(SessionDoc) /\ Len(session) \in Nat /\ Sessions = 1 .. Len(session)
  BY Lengths DEF Basic, TypeInv
<1> DEFINE d(s) == IF s \in Superseded(h) THEN [session[s] EXCEPT !.live = FALSE] ELSE session[s]
<1>2. session' = [s \in 1 .. Len(session) |-> d(s)]
  BY <1>1 DEF Supersede
<1>3. ASSUME NEW s \in Sessions
      PROVE  /\ d(s) \in SessionDoc /\ d(s).ticket = session[s].ticket
             /\ d(s).contact = session[s].contact /\ d(s).proof = session[s].proof
             /\ d(s).live = (session[s].live /\ s \notin Superseded(h))
  <2>1. session[s] \in SessionDoc /\ session[s].live \in BOOLEAN
    BY OneSession
  <2>2. CASE s \in Superseded(h)
    BY <2>1, <2>2 DEF SessionDoc
  <2>3. CASE s \notin Superseded(h)
    BY <2>1, <2>3 DEF SessionDoc
  <2> QED BY <2>2, <2>3
<1> HIDE DEF d
<1>4. /\ session' \in Seq(SessionDoc) /\ Len(session') = Len(session)
      /\ DOMAIN session' = 1 .. Len(session)
      /\ \A s \in Sessions : session'[s] = d(s)
  BY <1>1, <1>2, <1>3
<1> QED BY <1>1, <1>3, <1>4 DEF Sessions

LEMMA BasicSupersede ==
    ASSUME Basic, NEW h \in Handlers, Supersede(h)
    PROVE  Basic'
<1> DEFINE q == req[h]
           ended == Superseded(h)
           r == [q EXCEPT !.pc = "disconnect", !.ids = ended]
<1>1. TypeInv /\ q \in Request /\ q.pc = "supersede" /\ Refers(q) /\ OpAt(q)
  BY OneRequest DEF Basic, Supersede, At
<1>2. UNCHANGED <<widget, contact, identity, ticket, recovery>> /\ Goto(h, r)
  BY DEF Supersede
<1>3. ended \in SUBSET Nat
  BY <1>1, Lengths DEF Superseded
<1> HIDE DEF ended
<1>4. Grow
  <2>1. \A s \in Sessions' : /\ session'[s].ticket <= Len(ticket)
                             /\ session'[s].contact <= Len(contact)
    BY SupersedeEnds, OneSession
  <2>2. session' \in Seq(SessionDoc) /\ Len(session) <= Len(session')
    BY <1>1, SupersedeEnds, Lengths
  <2> QED BY <1>2, <2>1, <2>2, SessionsGrow
<1>5. /\ r \in Request /\ r.pc = "disconnect" /\ r.op = q.op /\ r.s = q.s /\ r.c = q.c
      /\ r.t = q.t /\ r.r = q.r /\ r.loaded = q.loaded
  BY <1>1, <1>3 DEF Request, Steps, Replacing
<1> HIDE DEF r
<1>6. Takes(h, r)
  BY <1>1, <1>2, <1>5, Taken
<1>7. RefersNext(r) /\ OpAt(r)
  BY <1>1, <1>2, <1>5, SupersedeEnds
  DEF Refers, RefersNext, RefersWithin, OpAt, Visiting, Message, Using, Replacing
<1> QED BY <1>4, <1>5, <1>6, <1>7, BasicWrites

(* A record that is used up or expires.                                    *)
LEMMA RecordMarked ==
    ASSUME Basic, NEW n \in Recoveries,
           \/ recovery' = [recovery EXCEPT ![n].consumed = TRUE]
           \/ recovery' = [recovery EXCEPT ![n].expired = TRUE]
    PROVE  /\ recovery' \in Seq(RecoveryDoc) /\ Len(recovery') = Len(recovery)
           /\ Recoveries' = Recoveries
           /\ \A m \in Recoveries : /\ recovery'[m].ticket = recovery[m].ticket
                                    /\ recovery'[m].contact = recovery[m].contact
                                    /\ recovery'[m].session = recovery[m].session
                                    /\ recovery'[m].email = recovery[m].email
                                    /\ recovery[m].consumed => recovery'[m].consumed
           /\ recovery' = [recovery EXCEPT ![n].consumed = TRUE] => recovery'[n].consumed
<1>1. recovery \in Seq(RecoveryDoc) /\ Len(recovery) \in Nat /\ Recoveries = 1 .. Len(recovery)
  BY Lengths DEF Basic, TypeInv
<1> DEFINE used == [recovery[n] EXCEPT !.consumed = TRUE]
           old == [recovery[n] EXCEPT !.expired = TRUE]
<1>2. /\ used \in RecoveryDoc /\ used.ticket = recovery[n].ticket
      /\ used.contact = recovery[n].contact /\ used.session = recovery[n].session
      /\ used.consumed /\ used.email = recovery[n].email /\ old.email = recovery[n].email
      /\ old \in RecoveryDoc /\ old.ticket = recovery[n].ticket
      /\ old.contact = recovery[n].contact /\ old.session = recovery[n].session
      /\ old.consumed = recovery[n].consumed
  BY OneRecovery DEF RecoveryDoc
<1>3. CASE recovery' = [recovery EXCEPT ![n].consumed = TRUE]
  <2>1. recovery' = [recovery EXCEPT ![n] = used]
    BY <1>3
  <2> HIDE DEF used, old
  <2>2. /\ recovery' \in Seq(RecoveryDoc) /\ Len(recovery') = Len(recovery)
        /\ DOMAIN recovery' = DOMAIN recovery
        /\ \A m \in Recoveries : recovery'[m] = IF m = n THEN used ELSE recovery[m]
    BY <1>1, <1>2, <2>1
  <2> QED BY <1>2, <2>2 DEF Recoveries
<1>4. CASE /\ recovery' = [recovery EXCEPT ![n].expired = TRUE]
           /\ recovery' # [recovery EXCEPT ![n].consumed = TRUE]
  <2>1. recovery' = [recovery EXCEPT ![n] = old]
    BY <1>4
  <2>2. recovery' # [recovery EXCEPT ![n].consumed = TRUE]
    BY <1>4
  <2> HIDE DEF used, old
  <2>3. /\ recovery' \in Seq(RecoveryDoc) /\ Len(recovery') = Len(recovery)
        /\ DOMAIN recovery' = DOMAIN recovery
        /\ \A m \in Recoveries : recovery'[m] = IF m = n THEN old ELSE recovery[m]
    BY <1>1, <1>2, <2>1
  <2> QED BY <1>2, <2>2, <2>3 DEF Recoveries
<1> QED BY <1>3, <1>4

LEMMA MarkedGrow ==
    ASSUME Basic, NEW n \in Recoveries,
           \/ recovery' = [recovery EXCEPT ![n].consumed = TRUE]
           \/ recovery' = [recovery EXCEPT ![n].expired = TRUE],
           UNCHANGED <<widget, session, contact, identity, ticket>>
    PROVE  Grow /\ Len(recovery') = Len(recovery)
<1>1. /\ recovery' \in Seq(RecoveryDoc) /\ Len(recovery') = Len(recovery)
      /\ Recoveries' = Recoveries
      /\ \A m \in Recoveries : /\ recovery'[m].ticket = recovery[m].ticket
                               /\ recovery'[m].contact = recovery[m].contact
                               /\ recovery'[m].session = recovery[m].session
  BY RecordMarked
<1>2. Len(recovery) \in Nat
  BY Lengths DEF Basic
<1> QED BY <1>1, <1>2, OneRecovery, RecoveriesGrow

LEMMA BasicConsume ==
    ASSUME Basic, NEW h \in Handlers, Consume(h)
    PROVE  Basic'
<1> DEFINE q == req[h]
           r == [q EXCEPT !.pc = "answer"]
<1>1. TypeInv /\ q \in Request /\ q.pc = "consume" /\ Refers(q) /\ OpAt(q)
  BY OneRequest DEF Basic, Consume, At
<1>2. /\ recovery' = [recovery EXCEPT ![q.r].consumed = TRUE] /\ Goto(h, r)
      /\ UNCHANGED <<widget, session, contact, identity, ticket>>
  BY DEF Consume
<1>3. q.r \in Recoveries
  BY <1>1, Lengths DEF Request, Refers, RefersWithin, Using, Replacing
<1>4. Grow /\ Len(recovery') = Len(recovery)
  BY <1>2, <1>3, MarkedGrow
<1>5. /\ r \in Request /\ r.pc = "answer" /\ r.op = q.op /\ r.s = q.s /\ r.c = q.c
      /\ r.t = q.t /\ r.r = q.r /\ r.loaded = q.loaded
  BY <1>1 DEF Request, Steps
<1> HIDE DEF r
<1>6. Takes(h, r)
  BY <1>1, <1>2, <1>5, Taken
<1>7. RefersNext(r) /\ OpAt(r)
  BY <1>1, <1>2, <1>4, <1>5
  DEF Refers, RefersNext, RefersWithin, OpAt, Visiting, Message, Using, Replacing
<1> QED BY <1>4, <1>5, <1>6, <1>7, BasicWrites

LEMMA BasicResume ==
    ASSUME Basic, NEW h \in Handlers, Resume(h)
    PROVE  Basic'
<1> DEFINE q == req[h]
<1>1. TypeInv /\ q \in Request /\ q.pc = "answer" /\ Refers(q) /\ OpAt(q)
  BY OneRequest DEF Basic, Resume, At
<1>2. q.s \in Sessions /\ Len(session) \in Nat
  BY <1>1, Lengths DEF Request, Refers, RefersWithin
<1>3. UNCHANGED <<widget, contact, identity, ticket, recovery>>
  BY DEF Resume
<1>4. ASSUME session' = session PROVE Grow
  <2>1. session' \in Seq(SessionDoc) /\ Sessions' = Sessions
    BY <1>1, <1>4 DEF TypeInv, Sessions
  <2>2. Len(session) <= Len(session')
    BY <1>2, <1>4
  <2> QED BY <1>3, <1>4, <2>1, <2>2, OneSession, SessionsGrow
<1>5. CASE ~widget.active
  BY <1>4, <1>5, BasicLast DEF Resume
<1>6. CASE widget.active /\ Live(q.s)
  <2> DEFINE l == [ticket |-> session[q.s].ticket, contact |-> session[q.s].contact]
             c == session[q.s].contact
             r == [q EXCEPT !.pc = "load", !.loaded = l, !.c = c]
  <2>1. /\ l \in [ticket : Nat, contact : Nat] /\ l.ticket <= Len(ticket)
        /\ l.contact <= Len(contact) /\ c \in Nat /\ c <= Len(contact)
    BY <1>2, OneSession
  <2>2. Goto(h, r) /\ session' = session
    BY <1>6 DEF Resume
  <2> HIDE DEF l, c
  <2>3. /\ r \in Request /\ r.pc = "load" /\ r.op = q.op /\ r.s = q.s /\ r.c = c
        /\ r.t = q.t /\ r.r = q.r /\ r.loaded = l
    BY <1>1, <2>1 DEF Request, Steps, Visiting
  <2> HIDE DEF r
  <2>4. Takes(h, r)
    BY <1>1, <2>2, <2>3, Taken
  <2>5. RefersNext(r) /\ OpAt(r)
    BY <1>1, <1>3, <2>1, <2>2, <2>3
    DEF Refers, RefersNext, RefersWithin, OpAt, Visiting, Message, Using, Replacing
  <2> QED BY <1>4, <2>2, <2>3, <2>4, <2>5, BasicWrites
<1>7. CASE widget.active /\ ~Live(q.s)
  <2> DEFINE n == Len(session) + 1
             r == [q EXCEPT !.pc = "load", !.s = n, !.c = 0]
  <2>1. AddSession(0, 0, 0) /\ Goto(h, r)
    BY <1>7 DEF Resume
  <2>2. n \in Nat /\ n # 0 /\ Len(session') = n
    <3>1. Len(session') = Len(session) + 1
      BY <2>1, 0 \in Nat, SessionAdded
    <3> QED BY <1>2, <3>1
  <2>3. Len(ticket) \in Nat /\ Len(contact) \in Nat
    BY <1>1, Lengths
  <2>4. Grow
    BY <1>3, <2>1, <2>3, AddedGrow
  <2> HIDE DEF n
  <2>5. /\ r \in Request /\ r.pc = "load" /\ r.op = q.op /\ r.s = n /\ r.c = 0
        /\ r.t = q.t /\ r.r = q.r /\ r.loaded = q.loaded
    BY <1>1, <2>2 DEF Request, Steps, Visiting
  <2> HIDE DEF r
  <2>6. Takes(h, r)
    BY <1>1, <2>1, <2>5, Taken
  <2>7. RefersNext(r) /\ OpAt(r)
    BY <1>1, <1>3, <2>2, <2>3, <2>5
    DEF Refers, RefersNext, RefersWithin, OpAt, Visiting, Message, Using, Replacing
  <2> QED BY <2>4, <2>5, <2>6, <2>7, BasicWrites
<1> QED BY <1>5, <1>6, <1>7

LEMMA WidgetGrow ==
    ASSUME Basic, widget' \in [active : BOOLEAN, mailbox : Mailboxes],
           UNCHANGED <<session, contact, identity, ticket, recovery>>
    PROVE  Grow
<1>1. TypeInv /\ ReferencesThere
  BY DEF Basic
<1>2. /\ Len(session) \in Nat /\ Len(contact) \in Nat
      /\ Len(ticket) \in Nat /\ Len(recovery) \in Nat
  BY <1>1, Lengths
<1> QED BY <1>1, <1>2 DEF Grow, TypeInv, ReferencesThere, Sessions, Recoveries

LEMMA BasicBeginDeactivate ==
    ASSUME Basic, NEW h \in Handlers, BeginDeactivate(h)
    PROVE  Basic'
<1>1. TypeInv
  BY DEF Basic
<1> DEFINE r == [Idle EXCEPT !.pc = "drop", !.op = "deactivate"]
<1>2. Begin(h, r) /\ UNCHANGED <<session, contact, identity, ticket, recovery>>
  BY DEF BeginDeactivate
<1>3. Grow
  BY <1>1, <1>2, WidgetGrow DEF BeginDeactivate, TypeInv
<1>4. /\ r \in Request /\ r.pc = "drop" /\ r.s = 0 /\ r.c = 0 /\ r.t = 0 /\ r.r = 0
      /\ r.loaded = [ticket |-> 0, contact |-> 0]
  BY DEF Idle, Request, Steps, AllOps, None
<1> HIDE DEF r
<1>5. Takes(h, r)
  BY <1>1, <1>2, <1>4, Taken
<1>6. RefersNext(r) /\ OpAt(r)
  BY <1>1, <1>2, <1>4, Lengths
  DEF RefersNext, RefersWithin, OpAt, Visiting, Message, Using, Replacing
<1> QED BY <1>3, <1>4, <1>5, <1>6, BasicWrites

(* The steps that no request takes.                                        *)
LEMMA BasicAlone ==
    ASSUME Basic, Grow, UNCHANGED req
    PROVE  Basic'
<1>1. TypeInv'
  BY DEF Basic, Grow, TypeInv
<1>2. ASSUME NEW g \in Handlers PROVE Refers(req[g])' /\ OpAt(req[g])'
  <2>1. Alike(req'[g], req[g])
    BY DEF Alike
  <2> QED BY <2>1, OthersRefer DEF Basic, Grow
<1>3. ReferencesThere' /\ OpsInPlace'
  BY <1>2 DEF Grow, ReferencesThere, OpsInPlace
<1> QED BY <1>1, <1>3 DEF Basic

LEMMA BasicChanges ==
    ASSUME Basic, Expire \/ Activate \/ ChangeMailbox \/ ChangeStatus
    PROVE  Basic'
<1>1. TypeInv
  BY DEF Basic
<1>2. CASE Expire
  <2>1. PICK n \in Recoveries : recovery' = [recovery EXCEPT ![n].expired = TRUE]
    BY <1>2 DEF Expire
  <2> QED BY <1>2, <2>1, MarkedGrow, BasicAlone DEF Expire
<1>3. CASE Activate
  <2>1. widget' \in [active : BOOLEAN, mailbox : Mailboxes]
    BY <1>1, <1>3 DEF Activate, TypeInv
  <2> QED BY <1>3, <2>1, WidgetGrow, BasicAlone DEF Activate
<1>4. CASE ChangeMailbox
  <2>1. widget' \in [active : BOOLEAN, mailbox : Mailboxes]
    BY <1>1, <1>4 DEF ChangeMailbox, TypeInv
  <2> QED BY <1>4, <2>1, WidgetGrow, BasicAlone DEF ChangeMailbox
<1>5. CASE ChangeStatus
  <2>1. PICK t \in Tickets, status \in Statuses : ticket' = [ticket EXCEPT ![t].status = status]
    BY <1>5 DEF ChangeStatus
  <2> QED BY <1>5, <2>1, StatusGrow, BasicAlone DEF ChangeStatus
<1> QED BY <1>2, <1>3, <1>4, <1>5

(* Documents and requests are what they should be, after every step.       *)
LEMMA BasicStep ==
    ASSUME Basic, [Next]_vars
    PROVE  Basic'
<1>1. CASE UNCHANGED vars
  <2>1. UNCHANGED documents /\ UNCHANGED req
    BY <1>1 DEF vars
  <2> QED BY <2>1, SameGrow, BasicAlone
<1>2. ASSUME NEW h \in Handlers, Visit(h) PROVE Basic'
  BY <1>2, BasicBeginInitialize, BasicLoadTicket, BasicSync, BasicBeginMessage,
     BasicFindContact, BasicWriteContact, BasicEnsureIdentity, BasicFindEligible,
     BasicCreateTicket, BasicAppendMessage DEF Visit
<1>3. ASSUME NEW h \in Handlers, Recover(h) PROVE Basic'
  BY <1>3, BasicBeginVerify, BasicCreateRecovery, BasicBeginUse, BasicProve,
     BasicCreateIdentity, BasicCreateSession, BasicSupersede, BasicDisconnect,
     BasicConsume, BasicResume DEF Recover
<1>4. ASSUME NEW h \in Handlers, Listen(h) PROVE Basic'
  <2>1. CASE Emit(h) \/ Drop(h)
    BY <2>1, BasicEnds DEF Emit, Drop
  <2> QED BY <1>4, <2>1, BasicBeginSubscribe, BasicJoin, BasicBeginPublish, BasicLoadBound,
             BasicBeginDeactivate DEF Listen
<1>5. ASSUME NEW h \in Handlers, Fail(h) PROVE Basic'
  BY <1>5, BasicEnds DEF Fail
<1> QED BY <1>1, <1>2, <1>3, <1>4, <1>5, BasicMissSockets, BasicChanges DEF Next

----------------------------------------------------------------------------
(* What every step keeps: histories grow, sessions do not come back, and   *)
(* neither the proof of a session nor the ticket of a record changes.      *)
Later ==
    /\ crossed \subseteq crossed' /\ contested \subseteq contested'
    /\ Sessions \subseteq Sessions'
    /\ \A s \in Sessions : /\ session'[s].proof = session[s].proof
                           /\ session'[s].live => session[s].live
    /\ Recoveries \subseteq Recoveries'
    /\ \A n \in Recoveries : /\ recovery'[n].ticket = recovery[n].ticket
                             /\ recovery[n].consumed => recovery'[n].consumed

LEMMA AddedLater ==
    ASSUME Basic, NEW t \in Nat, NEW c \in Nat, NEW p \in Nat, AddSession(t, c, p),
           UNCHANGED recovery, crossed \subseteq crossed', contested \subseteq contested'
    PROVE  Later
BY SessionAdded DEF Later, Recoveries

LEMMA UnchangedLater ==
    ASSUME UNCHANGED <<session, recovery>>,
           crossed \subseteq crossed', contested \subseteq contested'
    PROVE  Later
BY DEF Later, Sessions, Recoveries

(* The pointers that a session is saved with.                              *)
LEMMA SyncSaves ==
    ASSUME Basic, NEW h \in Handlers, Sync(h)
    PROVE  /\ req[h].s \in Sessions /\ Sessions' = Sessions
           /\ \A s \in Sessions :
                 /\ session'[s].proof = session[s].proof
                 /\ session'[s].live = session[s].live
                 /\ session'[s].ticket =
                       IF s = req[h].s
                       THEN SavedPath(session[s].ticket, req[h].loaded.ticket, req[h].t)
                       ELSE session[s].ticket
                 /\ session'[s].contact =
                       IF s = req[h].s
                       THEN SavedPath(session[s].contact, req[h].loaded.contact, req[h].c)
                       ELSE session[s].contact
<1> DEFINE q == req[h]
           t == SavedPath(session[q.s].ticket, q.loaded.ticket, q.t)
           c == SavedPath(session[q.s].contact, q.loaded.contact, q.c)
           d == [session[q.s] EXCEPT !.ticket = t, !.contact = c]
<1>1. TypeInv /\ q \in Request /\ q.pc = "sync" /\ Refers(q)
  BY OneRequest DEF Basic, Sync, At
<1>2. q.s \in Sessions
  BY <1>1, Lengths DEF Refers, RefersWithin, Request, Visiting
<1>3. session' = [session EXCEPT ![q.s].ticket = t, ![q.s].contact = c]
  BY DEF Sync
<1> HIDE DEF t, c
<1>4. session' = [session EXCEPT ![q.s] = d]
  BY <1>1, <1>2, <1>3, Lengths
<1>5. /\ d.ticket = t /\ d.proof = session[q.s].proof /\ d.live = session[q.s].live
      /\ d.contact = c
  BY <1>2, OneSession DEF SessionDoc
<1> HIDE DEF d
<1>6. Sessions' = Sessions /\ \A s \in Sessions : session'[s] = IF s = q.s THEN d ELSE session[s]
  BY <1>1, <1>2, <1>4 DEF TypeInv, Sessions
<1> QED BY <1>2, <1>5, <1>6 DEF t, c

LEMMA StepLater ==
    ASSUME Basic, [Next]_vars
    PROVE  Later
<1>1. CASE UNCHANGED vars
  BY <1>1, UnchangedLater DEF vars, documents, history
<1>2. ASSUME NEW h \in Handlers, Visit(h) PROVE Later
  <2>1. CASE BeginInitialize(h)
    <3>1. UNCHANGED recovery /\ crossed \subseteq crossed' /\ contested \subseteq contested'
      BY <2>1 DEF BeginInitialize, Begin
    <3>2. CASE AddSession(0, 0, 0)
      BY <3>1, <3>2, 0 \in Nat, AddedLater
    <3> QED BY <2>1, <3>1, <3>2, UnchangedLater DEF BeginInitialize
  <2>2. CASE Sync(h)
    <3>1. UNCHANGED <<recovery, crossed, contested>>
      BY <2>2 DEF Sync
    <3> QED BY <2>2, <3>1, SyncSaves DEF Later, Recoveries
  <2>3. CASE BeginMessage(h)
    BY <2>3, UnchangedLater DEF BeginMessage, Begin, documents
  <2>4. CASE LoadTicket(h) \/ FindContact(h) \/ FindEligible(h)
    BY <2>4, UnchangedLater DEF LoadTicket, FindContact, FindEligible, documents, history
  <2>5. CASE WriteContact(h) \/ EnsureIdentity(h)
    BY <2>5, UnchangedLater DEF WriteContact, EnsureIdentity, history
  <2>6. CASE CreateTicket(h) \/ AppendMessage(h)
    BY <2>6, UnchangedLater DEF CreateTicket, AppendMessage, history
  <2> QED BY <1>2, <2>1, <2>2, <2>3, <2>4, <2>5, <2>6 DEF Visit
<1>3. ASSUME NEW h \in Handlers, Recover(h) PROVE Later
  <2>1. CASE BeginVerify(h)
    BY <2>1, UnchangedLater DEF BeginVerify, Begin, documents
  <2>2. CASE BeginUse(h)
    BY <2>2, UnchangedLater DEF BeginUse, Begin, documents
  <2>3. CASE CreateRecovery(h)
    <3>1. UNCHANGED <<session, crossed, contested>>
      BY <2>3 DEF CreateRecovery, history
    <3>2. recovery \in Seq(RecoveryDoc)
      BY DEF Basic, TypeInv
    <3>3. /\ Recoveries \subseteq Recoveries'
          /\ \A n \in Recoveries : recovery'[n] = recovery[n]
      <4>1. PICK d : recovery' = Append(recovery, d)
        BY <2>3 DEF CreateRecovery
      <4> QED BY <3>2, <4>1 DEF Recoveries
    <3> QED BY <3>1, <3>3 DEF Later, Sessions
  <2>4. CASE Prove(h) \/ CreateIdentity(h)
    BY <2>4, UnchangedLater DEF Prove, CreateIdentity, history
  <2>5. CASE CreateSession(h)
    <3>1. req[h].t \in Nat /\ req[h].c \in Nat /\ req[h].r \in Nat
      BY OneRequest DEF Request
    <3> QED BY <2>5, <3>1, AddedLater DEF CreateSession, history
  <2>6. CASE Supersede(h)
    <3>1. UNCHANGED <<recovery, crossed, contested>>
      BY <2>6 DEF Supersede, history
    <3> QED BY <2>6, <3>1, SupersedeEnds DEF Later, Recoveries
  <2>7. CASE Disconnect(h)
    BY <2>7, UnchangedLater DEF Disconnect, documents, history
  <2>8. CASE Consume(h)
    <3>1. recovery' = [recovery EXCEPT ![req[h].r].consumed = TRUE]
          /\ UNCHANGED <<session, crossed, contested>>
      BY <2>8 DEF Consume, history
    <3>2. req[h].r \in Recoveries
      BY <2>8, OneRequest, Lengths DEF Consume, At, Request, Refers, RefersWithin, Using,
         Replacing, Basic
    <3> QED BY <3>1, <3>2, RecordMarked DEF Later, Sessions
  <2>9. CASE Resume(h)
    <3>1. UNCHANGED <<recovery, crossed, contested>>
      BY <2>9 DEF Resume, history
    <3>2. CASE AddSession(0, 0, 0)
      BY <3>1, <3>2, 0 \in Nat, AddedLater
    <3> QED BY <2>9, <3>1, <3>2, UnchangedLater DEF Resume
  <2> QED BY <1>3, <2>1, <2>2, <2>3, <2>4, <2>5, <2>6, <2>7, <2>8, <2>9 DEF Recover
<1>4. ASSUME NEW h \in Handlers, Listen(h) PROVE Later
  <2>1. CASE BeginSubscribe(h) \/ BeginPublish(h)
    BY <2>1, UnchangedLater DEF BeginSubscribe, BeginPublish, Begin, documents
  <2>2. CASE BeginDeactivate(h)
    BY <2>2, UnchangedLater DEF BeginDeactivate, Begin
  <2>3. CASE Join(h) \/ LoadBound(h) \/ Emit(h) \/ Drop(h)
    BY <2>3, UnchangedLater DEF Join, LoadBound, Emit, Drop, documents, history
  <2> QED BY <1>4, <2>1, <2>2, <2>3 DEF Listen
<1>5. ASSUME NEW h \in Handlers, Fail(h) \/ MissSockets(h) PROVE Later
  BY <1>5, UnchangedLater DEF Fail, MissSockets, documents
<1>6. CASE Expire
  <2>1. PICK n \in Recoveries : recovery' = [recovery EXCEPT ![n].expired = TRUE]
    BY <1>6 DEF Expire
  <2>2. UNCHANGED <<session, crossed, contested>>
    BY <1>6 DEF Expire, history
  <2> QED BY <2>1, <2>2, RecordMarked DEF Later, Sessions
<1>7. CASE Activate \/ ChangeMailbox \/ ChangeStatus
  BY <1>7, UnchangedLater DEF Activate, ChangeMailbox, ChangeStatus, history
<1> QED BY <1>1, <1>2, <1>3, <1>4, <1>5, <1>6, <1>7 DEF Next

----------------------------------------------------------------------------
(* How a request goes on after its beginning: it keeps what it is about,   *)
(* and awaits what comes next.                                             *)
Edges == {<<"load", "sync">>, <<"contact", "write">>, <<"write", "identify">>,
          <<"identify", "eligible">>, <<"eligible", "append">>, <<"eligible", "create">>,
          <<"append", "sync">>, <<"create", "sync">>, <<"prove", "identity">>,
          <<"prove", "session">>, <<"identity", "session">>, <<"session", "supersede">>,
          <<"supersede", "disconnect">>, <<"disconnect", "consume">>, <<"consume", "answer">>,
          <<"join", "answer">>, <<"answer", "load">>, <<"bound", "emit">>}

Follows(q, r) ==
    /\ <<q.pc, r.pc>> \in Edges
    /\ r.op = q.op /\ r.r = q.r /\ r.held = q.held /\ r.alone = q.alone
    /\ q.pc \notin {"session", "answer"} => r.s = q.s
    /\ q.pc # "answer" => r.loaded = q.loaded
    /\ q.pc \notin {"load", "eligible", "create"} => r.t = q.t
    /\ q.pc \notin {"contact", "write", "answer"} => r.c = q.c
    /\ q.pc \notin {"contact", "identify"} => r.e = q.e
    /\ q.pc \notin {"contact", "write"} => r.write = q.write

GoesOn(h) == \/ LoadTicket(h) \/ Sync(h) \/ FindContact(h) \/ WriteContact(h)
             \/ EnsureIdentity(h) \/ FindEligible(h) \/ CreateTicket(h) \/ AppendMessage(h)
             \/ CreateRecovery(h) \/ Prove(h) \/ CreateIdentity(h) \/ CreateSession(h)
             \/ Supersede(h) \/ Disconnect(h) \/ Consume(h) \/ Resume(h) \/ Join(h)
             \/ LoadBound(h) \/ Emit(h) \/ Drop(h) \/ Fail(h) \/ MissSockets(h)

LEMMA FollowsOn ==
    ASSUME Basic, NEW h \in Handlers, NEW r, Goto(h, r), Follows(req[h], r)
    PROVE  /\ req[h].pc # "idle"
           /\ Follows(req[h], req'[h])
           /\ \A g \in Handlers \ {h} : req'[g] = req[g]
<1>1. req \in [Handlers -> Request]
  BY DEF Basic, TypeInv
<1>2. req'[h] = r /\ \A g \in Handlers \ {h} : req'[g] = req[g]
  BY <1>1 DEF Goto
<1>3. req[h].pc # "idle"
  BY DEF Follows, Edges
<1> QED BY <1>2, <1>3

LEMMA FollowsEnd ==
    ASSUME Basic, NEW h \in Handlers, Done(h)
    PROVE  /\ req'[h] = Idle
           /\ \A g \in Handlers \ {h} : req'[g] = req[g]
BY Ends DEF Basic

LEMMA StepOn ==
    ASSUME Basic, NEW h \in Handlers, GoesOn(h)
    PROVE  /\ req[h].pc # "idle"
           /\ req'[h] = Idle \/ Follows(req[h], req'[h])
           /\ \A g \in Handlers \ {h} : req'[g] = req[g]
<1> DEFINE q == req[h]
           Goal == /\ q.pc # "idle"
                   /\ req'[h] = Idle \/ Follows(q, req'[h])
                   /\ \A g \in Handlers \ {h} : req'[g] = req[g]
<1>1. q \in Request /\ req \in [Handlers -> Request]
  BY OneRequest DEF Basic, TypeInv
<1>2. ASSUME NEW r, Goto(h, r), Follows(q, r) PROVE Goal
  BY <1>2, FollowsOn
<1>3. ASSUME Done(h), q.pc # "idle" PROVE Goal
  BY <1>3, FollowsEnd
<1>4. SUFFICES Goal
  OBVIOUS
<1> HIDE DEF Goal
<1>5. CASE Sync(h) \/ CreateRecovery(h) \/ Emit(h) \/ Drop(h) \/ Fail(h)
  BY <1>3, <1>5 DEF Sync, CreateRecovery, Emit, Drop, Fail, At, Busy
<1>6. CASE LoadTicket(h)
  <2>1. PICK t : Goto(h, [q EXCEPT !.pc = "sync", !.t = t])
    BY <1>6 DEF LoadTicket
  <2>2. q.pc = "load"
    BY <1>6 DEF LoadTicket, At
  <2>3. Follows(q, [q EXCEPT !.pc = "sync", !.t = t])
    BY <1>1, <2>2 DEF Follows, Edges, Request
  <2> QED BY <1>2, <2>1, <2>3
<1>7. CASE FindContact(h)
  <2> DEFINE c == q.loaded.contact
             found == IF q.e = None THEN 0 ELSE ContactByEmail(q.e)
             fills == c # 0 /\ q.e # None /\ contact[c] = None /\ found \in {0, c}
             e == IF fills THEN q.e ELSE contact[c]
             r1 == [q EXCEPT !.c = c, !.pc = "write", !.write = fills, !.e = e]
             r2 == [q EXCEPT !.c = found, !.pc = "write", !.write = FALSE]
  <2>1. Goto(h, r1) \/ Goto(h, r2)
    BY <1>7 DEF FindContact
  <2>2. q.pc = "contact"
    BY <1>7 DEF FindContact, At
  <2> HIDE DEF c, found, fills, e
  <2>3. Follows(q, r1) /\ Follows(q, r2)
    BY <1>1, <2>2 DEF Follows, Edges, Request
  <2> QED BY <1>2, <2>1, <2>3
<1>8. CASE WriteContact(h)
  <2> DEFINE n == Len(contact) + 1
             r1 == [q EXCEPT !.c = n, !.pc = "identify"]
             r2 == [q EXCEPT !.pc = "identify", !.write = FALSE]
  <2>1. q.pc = "write" /\ (Goto(h, r1) \/ Goto(h, r2))
    BY <1>8 DEF WriteContact, At
  <2> HIDE DEF n
  <2>2. Follows(q, r1) /\ Follows(q, r2)
    BY <1>1, <2>1 DEF Follows, Edges, Request
  <2> QED BY <1>2, <2>1, <2>2
<1>9. CASE EnsureIdentity(h)
  <2>1. q.pc = "identify" /\ Goto(h, [q EXCEPT !.e = None, !.pc = "eligible"])
    BY <1>9 DEF EnsureIdentity, At
  <2>2. Follows(q, [q EXCEPT !.e = None, !.pc = "eligible"])
    BY <1>1, <2>1 DEF Follows, Edges, Request
  <2> QED BY <1>2, <2>1, <2>2
<1>10. CASE FindEligible(h)
  <2>1. q.pc = "eligible"
    BY <1>10 DEF FindEligible, At
  <2>2. PICK t : \/ Goto(h, [q EXCEPT !.t = t, !.pc = "append"])
                 \/ Goto(h, [q EXCEPT !.pc = "create"])
    BY <1>10 DEF FindEligible
  <2>3. /\ Follows(q, [q EXCEPT !.t = t, !.pc = "append"])
        /\ Follows(q, [q EXCEPT !.pc = "create"])
    BY <1>1, <2>1 DEF Follows, Edges, Request
  <2> QED BY <1>2, <2>2, <2>3
<1>11. CASE CreateTicket(h)
  <2> DEFINE n == Len(ticket) + 1
  <2>1. q.pc = "create" /\ Goto(h, [q EXCEPT !.t = n, !.pc = "sync"])
    BY <1>11 DEF CreateTicket, At
  <2> HIDE DEF n
  <2>2. Follows(q, [q EXCEPT !.t = n, !.pc = "sync"])
    BY <1>1, <2>1 DEF Follows, Edges, Request
  <2> QED BY <1>2, <2>1, <2>2
<1>12. CASE AppendMessage(h)
  <2>1. q.pc = "append" /\ (Done(h) \/ Goto(h, [q EXCEPT !.pc = "sync"]))
    BY <1>12 DEF AppendMessage, At
  <2>2. Follows(q, [q EXCEPT !.pc = "sync"])
    BY <1>1, <2>1 DEF Follows, Edges, Request
  <2> QED BY <1>2, <1>3, <2>1, <2>2
<1>13. CASE Prove(h)
  <2>1. q.pc = "prove" /\ (\/ Goto(h, [q EXCEPT !.pc = "session"])
                           \/ Goto(h, [q EXCEPT !.pc = "identity"]))
    BY <1>13 DEF Prove, At
  <2>2. Follows(q, [q EXCEPT !.pc = "session"]) /\ Follows(q, [q EXCEPT !.pc = "identity"])
    BY <1>1, <2>1 DEF Follows, Edges, Request
  <2> QED BY <1>2, <2>1, <2>2
<1>14. CASE CreateIdentity(h)
  <2>1. q.pc = "identity" /\ (Done(h) \/ Goto(h, [q EXCEPT !.pc = "session"]))
    BY <1>14 DEF CreateIdentity, At
  <2>2. Follows(q, [q EXCEPT !.pc = "session"])
    BY <1>1, <2>1 DEF Follows, Edges, Request
  <2> QED BY <1>2, <1>3, <2>1, <2>2
<1>15. CASE CreateSession(h)
  <2> DEFINE n == Len(session) + 1
  <2>1. q.pc = "session" /\ Goto(h, [q EXCEPT !.s = n, !.pc = "supersede"])
    BY <1>15 DEF CreateSession, At
  <2> HIDE DEF n
  <2>2. Follows(q, [q EXCEPT !.s = n, !.pc = "supersede"])
    BY <1>1, <2>1 DEF Follows, Edges, Request
  <2> QED BY <1>2, <2>1, <2>2
<1>16. CASE Supersede(h)
  <2>1. PICK ended : Goto(h, [q EXCEPT !.pc = "disconnect", !.ids = ended])
    BY <1>16 DEF Supersede
  <2>2. q.pc = "supersede"
    BY <1>16 DEF Supersede, At
  <2>3. Follows(q, [q EXCEPT !.pc = "disconnect", !.ids = ended])
    BY <1>1, <2>2 DEF Follows, Edges, Request
  <2> QED BY <1>2, <2>1, <2>3
<1>17. CASE Disconnect(h) \/ (MissSockets(h) /\ ~At(h, "drop"))
  <2>1. q.pc = "disconnect" /\ Goto(h, [q EXCEPT !.pc = "consume", !.ids = {}])
    BY <1>17 DEF Disconnect, MissSockets, At
  <2>2. Follows(q, [q EXCEPT !.pc = "consume", !.ids = {}])
    BY <1>1, <2>1 DEF Follows, Edges, Request
  <2> QED BY <1>2, <2>1, <2>2
<1>18. CASE MissSockets(h) /\ At(h, "drop")
  BY <1>3, <1>18 DEF MissSockets, At, Done
<1>19. CASE Consume(h) \/ Join(h)
  <2>1. q.pc \in {"consume", "join"} /\ Goto(h, [q EXCEPT !.pc = "answer"])
    BY <1>19 DEF Consume, Join, At
  <2>2. Follows(q, [q EXCEPT !.pc = "answer"])
    BY <1>1, <2>1 DEF Follows, Edges, Request
  <2> QED BY <1>2, <2>1, <2>2
<1>20. CASE Resume(h)
  <2> DEFINE n == Len(session) + 1
             l == [ticket |-> session[q.s].ticket, contact |-> session[q.s].contact]
             c == session[q.s].contact
             r1 == [q EXCEPT !.pc = "load", !.loaded = l, !.c = c]
             r2 == [q EXCEPT !.pc = "load", !.s = n, !.c = 0]
  <2>1. q.pc = "answer" /\ (Done(h) \/ Goto(h, r1) \/ Goto(h, r2))
    BY <1>20 DEF Resume, At
  <2> HIDE DEF n, l, c
  <2>2. Follows(q, r1) /\ Follows(q, r2)
    BY <1>1, <2>1 DEF Follows, Edges, Request
  <2> QED BY <1>2, <1>3, <2>1, <2>2
<1>21. CASE LoadBound(h)
  <2>1. PICK ids : Goto(h, [q EXCEPT !.pc = "emit", !.ids = ids])
    BY <1>21 DEF LoadBound
  <2>2. q.pc = "bound"
    BY <1>21 DEF LoadBound, At
  <2>3. Follows(q, [q EXCEPT !.pc = "emit", !.ids = ids])
    BY <1>1, <2>2 DEF Follows, Edges, Request
  <2> QED BY <1>2, <2>1, <2>3
<1> QED BY <1>5, <1>6, <1>7, <1>8, <1>9, <1>10, <1>11, <1>12, <1>13, <1>14, <1>15, <1>16,
           <1>17, <1>18, <1>19, <1>20, <1>21 DEF GoesOn

(* How a request begins.                                                   *)
Starts(h) == \/ BeginInitialize(h) \/ BeginMessage(h) \/ BeginVerify(h) \/ BeginUse(h)
             \/ BeginSubscribe(h) \/ BeginPublish(h) \/ BeginDeactivate(h)

(* The first await of each, and what it holds.                             *)
Begun(q) ==
    \/ /\ q.pc \in {"load", "contact", "record", "join", "drop"}
       /\ q.op \notin {"continue", "start_new"} /\ q.r = 0 /\ q.held = {}
       /\ q.pc \in {"load", "contact"} => /\ q.s \in Sessions'
                                          /\ q.loaded.ticket = session'[q.s].ticket
                                          /\ q.loaded.contact = session'[q.s].contact
       /\ q.pc = "load" => q.c = q.loaded.contact
    \/ /\ q.pc = "bound" /\ q.op = "publish" /\ q.r = 0
       /\ q.held = {s \in Sessions : ~Live(s)}
    \/ /\ q.pc = "prove" /\ q.op \in {"continue", "start_new"} /\ q.r \in Recoveries /\ q.s = 0
       /\ ~recovery[q.r].consumed
       /\ q.op = "continue" => q.t = recovery[q.r].ticket /\ q.t # 0
       /\ q.e = recovery[q.r].email /\ q.c = recovery[q.r].contact
       /\ q.t \in {0, recovery[q.r].ticket}
       /\ q.held = {s \in Sessions : /\ Live(s) /\ recovery[q.r].ticket # 0
                                     /\ session[s].ticket = recovery[q.r].ticket}

LEMMA StepStarts ==
    ASSUME Basic, NEW h \in Handlers, Starts(h)
    PROVE  /\ At(h, "idle")
           /\ Begun(req'[h]) /\ req'[h].alone = (Busy = {})
           /\ \A g \in Handlers \ {h} : /\ Alike(req'[g], req[g])
                                        /\ req'[g].alone = (req[g].alone /\ g \notin Busy)
           /\ \A g \in Busy : /\ (req[g].s # 0 /\ req[g].s = req'[h].s) => req[g].s \in crossed'
                              /\ (req[g].r # 0 /\ req[g].r = req'[h].r) => req[g].r \in contested'
<1> DEFINE q == req'[h]
           none == Busy = {}
           Fits(r) == /\ Begin(h, r) /\ q.s = r.s /\ q.r = r.r
                      /\ Begun(q) /\ q.alone = none
<1>1. TypeInv /\ none \in BOOLEAN
  BY DEF Basic
<1>2. ASSUME NEW r, Begin(h, r) PROVE q = [r EXCEPT !.alone = none]
  BY <1>2, BeginsWith DEF Basic
<1> HIDE DEF none
<1>3. ASSUME BeginInitialize(h) PROVE \E r : Fits(r)
  <2>1. ASSUME AddSession(0, 0, 0),
               Begin(h, [Idle EXCEPT !.pc = "load", !.op = "initialize", !.s = Len(session) + 1])
        PROVE  \E r : Fits(r)
    <3> DEFINE n == Len(session) + 1
               r == [Idle EXCEPT !.pc = "load", !.op = "initialize", !.s = n]
    <3>1. n \in Sessions' /\ session'[n].ticket = 0 /\ session'[n].contact = 0
      <4>1. /\ Sessions' = Sessions \cup {Len(session) + 1}
            /\ session'[Len(session) + 1] = NewSession(0, 0, 0)
        BY <2>1, 0 \in Nat, SessionAdded
      <4> QED BY <4>1 DEF NewSession
    <3>2. Begin(h, r) /\ q = [r EXCEPT !.alone = none]
      BY <2>1, <1>2
    <3> HIDE DEF n
    <3>3. /\ q.pc = "load" /\ q.op = "initialize" /\ q.s = n /\ q.r = 0 /\ q.held = {}
          /\ q.loaded.ticket = 0 /\ q.alone = none /\ r.s = n /\ r.r = 0
          /\ q.loaded.contact = 0 /\ q.c = 0
      BY <3>2 DEF Idle
    <3>4. Begun(q)
      BY <3>1, <3>3 DEF Begun
    <3>5. Fits(r)
      BY <3>2, <3>3, <3>4
    <3> QED BY <3>5
  <2>2. ASSUME NEW s \in Sessions, session' = session,
               Begin(h, [Idle EXCEPT !.pc = "load", !.op = "initialize", !.s = s,
                                     !.loaded = [ticket |-> session[s].ticket,
                                                 contact |-> session[s].contact],
                                     !.c = session[s].contact])
        PROVE  \E r : Fits(r)
    <3> DEFINE t == session[s].ticket
               c == session[s].contact
               r == [Idle EXCEPT !.pc = "load", !.op = "initialize", !.s = s,
                                 !.loaded = [ticket |-> t, contact |-> c], !.c = c]
    <3>1. s \in Sessions' /\ session'[s].ticket = t /\ session'[s].contact = c
      BY <2>2 DEF Sessions
    <3>2. Begin(h, r) /\ q = [r EXCEPT !.alone = none]
      BY <2>2, <1>2
    <3> HIDE DEF t, c
    <3>3. /\ q.pc = "load" /\ q.op = "initialize" /\ q.s = s /\ q.r = 0 /\ q.held = {}
          /\ q.loaded.ticket = t /\ q.alone = none /\ r.s = s /\ r.r = 0
          /\ q.loaded.contact = c /\ q.c = c
      BY <3>2 DEF Idle
    <3>4. Begun(q)
      BY <3>1, <3>3 DEF Begun
    <3>5. Fits(r)
      BY <3>2, <3>3, <3>4
    <3> QED BY <3>5
  <2> QED BY <1>3, <2>1, <2>2 DEF BeginInitialize
<1>4. ASSUME BeginMessage(h) PROVE \E r : Fits(r)
  <2>1. PICK s \in Sessions, e \in Emails \cup {None} :
           Begin(h, [Idle EXCEPT !.pc = "contact", !.op = "message", !.s = s, !.e = e,
                                 !.loaded = [ticket |-> session[s].ticket,
                                             contact |-> session[s].contact],
                                 !.mailbox = widget.mailbox])
    BY <1>4 DEF BeginMessage
  <2> DEFINE t == session[s].ticket
             c == session[s].contact
             m == widget.mailbox
             r == [Idle EXCEPT !.pc = "contact", !.op = "message", !.s = s, !.e = e,
                               !.loaded = [ticket |-> t, contact |-> c], !.mailbox = m]
  <2>2. s \in Sessions' /\ session'[s].ticket = t /\ session'[s].contact = c
    BY <1>4 DEF BeginMessage, documents, Sessions
  <2>3. Begin(h, r) /\ q = [r EXCEPT !.alone = none]
    BY <2>1, <1>2
  <2> HIDE DEF t, c, m
  <2>4. /\ q.pc = "contact" /\ q.op = "message" /\ q.s = s /\ q.r = 0 /\ q.held = {}
        /\ q.loaded.ticket = t /\ q.alone = none /\ r.s = s /\ r.r = 0
        /\ q.loaded.contact = c
    BY <2>3 DEF Idle
  <2>5. Begun(q)
    BY <2>2, <2>4 DEF Begun
  <2>6. Fits(r)
    BY <2>3, <2>4, <2>5
  <2> QED BY <2>6
<1>5. ASSUME BeginVerify(h) PROVE \E r : Fits(r)
  <2>1. PICK e, c, t, s :
           Begin(h, [Idle EXCEPT !.pc = "record", !.op = "verify", !.e = e, !.c = c, !.t = t,
                                 !.s = s])
    BY <1>5 DEF BeginVerify
  <2> DEFINE r == [Idle EXCEPT !.pc = "record", !.op = "verify", !.e = e, !.c = c, !.t = t,
                               !.s = s]
  <2>2. q = [r EXCEPT !.alone = none]
    BY <2>1, <1>2
  <2>3. /\ q.pc = "record" /\ q.op = "verify" /\ q.s = s /\ q.r = 0 /\ q.held = {}
        /\ q.alone = none /\ r.s = s /\ r.r = 0
    BY <2>2 DEF Idle
  <2>4. Begun(q)
    BY <2>3 DEF Begun
  <2>5. Fits(r)
    BY <2>1, <2>3, <2>4
  <2> QED BY <2>5
<1>6. ASSUME BeginUse(h) PROVE \E r : Fits(r)
  <2>1. PICK n \in Recoveries, op \in {"continue", "start_new"} :
           /\ ~recovery[n].consumed
           /\ op = "continue" => recovery[n].ticket # 0
           /\ Begin(h, [Idle EXCEPT !.pc = "prove", !.op = op, !.r = n,
                                    !.e = recovery[n].email, !.c = recovery[n].contact,
                                    !.t = IF op = "continue" THEN recovery[n].ticket ELSE 0,
                                    !.held = {s \in Sessions : Live(s) /\ recovery[n].ticket # 0
                                                      /\ session[s].ticket = recovery[n].ticket}])
    BY <1>6 DEF BeginUse
  <2> DEFINE e == recovery[n].email
             c == recovery[n].contact
             t == IF op = "continue" THEN recovery[n].ticket ELSE 0
             held == {s \in Sessions : Live(s) /\ recovery[n].ticket # 0
                                       /\ session[s].ticket = recovery[n].ticket}
             r == [Idle EXCEPT !.pc = "prove", !.op = op, !.r = n, !.e = e, !.c = c, !.t = t,
                               !.held = held]
  <2>2. Begin(h, r) /\ q = [r EXCEPT !.alone = none]
    BY <2>1, <1>2
  <2>3. /\ op = "continue" => t = recovery[n].ticket
        /\ e = recovery[n].email /\ c = recovery[n].contact /\ t \in {0, recovery[n].ticket}
    OBVIOUS
  <2>4. held = {s \in Sessions : /\ Live(s) /\ recovery[n].ticket # 0
                                 /\ session[s].ticket = recovery[n].ticket}
    OBVIOUS
  <2> HIDE DEF e, c, t, held
  <2>5. /\ q.pc = "prove" /\ q.op = op /\ q.s = 0 /\ q.r = n /\ q.held = held /\ q.t = t
        /\ q.e = e /\ q.c = c /\ q.alone = none /\ r.s = 0 /\ r.r = n
    BY <2>2 DEF Idle
  <2>6. Begun(q)
    BY <2>1, <2>3, <2>4, <2>5 DEF Begun
  <2>7. Fits(r)
    BY <2>2, <2>5, <2>6
  <2> QED BY <2>7
<1>7. ASSUME BeginSubscribe(h) PROVE \E r : Fits(r)
  <2>1. PICK s : Begin(h, [Idle EXCEPT !.pc = "join", !.op = "subscribe", !.s = s])
    BY <1>7 DEF BeginSubscribe
  <2> DEFINE r == [Idle EXCEPT !.pc = "join", !.op = "subscribe", !.s = s]
  <2>2. q = [r EXCEPT !.alone = none]
    BY <2>1, <1>2
  <2>3. /\ q.pc = "join" /\ q.op = "subscribe" /\ q.s = s /\ q.r = 0 /\ q.held = {}
        /\ q.alone = none /\ r.s = s /\ r.r = 0
    BY <2>2 DEF Idle
  <2>4. Begun(q)
    BY <2>3 DEF Begun
  <2>5. Fits(r)
    BY <2>1, <2>3, <2>4
  <2> QED BY <2>5
<1>8. ASSUME BeginPublish(h) PROVE \E r : Fits(r)
  <2> DEFINE held == {s \in Sessions : ~Live(s)}
  <2>1. PICK t : Begin(h, [Idle EXCEPT !.pc = "bound", !.op = "publish", !.t = t, !.held = held])
    BY <1>8 DEF BeginPublish
  <2> DEFINE r == [Idle EXCEPT !.pc = "bound", !.op = "publish", !.t = t, !.held = held]
  <2>2. held = {s \in Sessions : ~Live(s)}
    OBVIOUS
  <2> HIDE DEF held
  <2>3. Begin(h, r) /\ q = [r EXCEPT !.alone = none]
    BY <2>1, <1>2
  <2>4. /\ q.pc = "bound" /\ q.op = "publish" /\ q.s = 0 /\ q.r = 0 /\ q.held = held
        /\ q.alone = none /\ r.s = 0 /\ r.r = 0
    BY <2>3 DEF Idle
  <2>5. Begun(q)
    BY <2>2, <2>4 DEF Begun
  <2>6. Fits(r)
    BY <2>3, <2>4, <2>5
  <2> QED BY <2>6
<1>9. ASSUME BeginDeactivate(h) PROVE \E r : Fits(r)
  <2> DEFINE r == [Idle EXCEPT !.pc = "drop", !.op = "deactivate"]
  <2>1. Begin(h, r) /\ q = [r EXCEPT !.alone = none]
    BY <1>9, <1>2 DEF BeginDeactivate
  <2>2. /\ q.pc = "drop" /\ q.op = "deactivate" /\ q.s = 0 /\ q.r = 0 /\ q.held = {}
        /\ q.alone = none /\ r.s = 0 /\ r.r = 0
    BY <2>1 DEF Idle
  <2>3. Begun(q)
    BY <2>2 DEF Begun
  <2>4. Fits(r)
    BY <2>1, <2>2, <2>3
  <2> QED BY <2>4
<1>10. PICK r : Fits(r)
  BY <1>3, <1>4, <1>5, <1>6, <1>7, <1>8, <1>9 DEF Starts
<1>11. Begin(h, r)
  BY <1>10
<1>12. At(h, "idle") /\ \A g \in Handlers \ {h} : /\ Alike(req'[g], req[g])
                                        /\ req'[g].alone = (req[g].alone /\ g \notin Busy)
  BY <1>11, BeginsWith DEF Basic
<1>13. \A g \in Busy : /\ (req[g].s # 0 /\ req[g].s = r.s) => req[g].s \in crossed'
                       /\ (req[g].r # 0 /\ req[g].r = r.r) => req[g].r \in contested'
  <2>1. /\ crossed' = crossed \cup {s \in {r.s} \ {0} : \E g \in Busy : req[g].s = s}
        /\ contested' = contested \cup {n \in {r.r} \ {0} : \E g \in Busy : req[g].r = n}
    BY <1>11, BeginsWith DEF Basic
  <2> QED BY <2>1
<1> QED BY <1>10, <1>12, <1>13 DEF none

(* The steps of a request, and those of none.                              *)
Changes == Expire \/ Activate \/ ChangeMailbox \/ ChangeStatus

LEMMA NextIs ==
    ASSUME Next
    PROVE  Changes \/ \E h \in Handlers : Starts(h) \/ GoesOn(h)
BY DEF Next, Visit, Recover, Listen, Changes, Starts, GoesOn

LEMMA StepChanges ==
    ASSUME Basic, Changes \/ UNCHANGED vars
    PROVE  /\ UNCHANGED <<session, socket, req, crossed, contested, late>>
           /\ widget'.active = widget.active \/ widget'.active
<1>1. CASE UNCHANGED vars
  BY <1>1 DEF vars, documents, history
<1>2. CASE Expire \/ ChangeStatus
  BY <1>2 DEF Expire, ChangeStatus, history
<1>3. CASE Activate
  BY <1>3 DEF Activate, history
<1>4. CASE ChangeMailbox
  <2>1. PICK m : widget' = [widget EXCEPT !.mailbox = m]
    BY <1>4 DEF ChangeMailbox
  <2>2. widget'.active = widget.active
    BY <2>1 DEF Basic, TypeInv
  <2> QED BY <1>4, <2>2 DEF ChangeMailbox, history
<1> QED BY <1>1, <1>2, <1>3, <1>4 DEF Changes

----------------------------------------------------------------------------
(* What has ended is silent.                                               *)
LEMMA EndedKept ==
    ASSUME HeldHaveEnded, Later, NEW g \in Handlers, Alike(req'[g], req[g])
    PROVE  EndedIn(req[g])'
<1>1. EndedIn(req[g])
  BY DEF HeldHaveEnded
<1> QED BY <1>1 DEF EndedIn, Alike, Later, Live

LEMMA HeldHaveEndedStep ==
    ASSUME Basic, HeldHaveEnded, [Next]_vars
    PROVE  HeldHaveEnded'
<1>1. Later
  BY StepLater
<1>2. CASE Changes \/ UNCHANGED vars
  BY <1>1, <1>2, StepChanges, EndedKept DEF HeldHaveEnded, Alike
<1>3. ASSUME NEW h \in Handlers, Starts(h) PROVE HeldHaveEnded'
  <2>1. EndedIn(req[h])'
    <3>1. Begun(req'[h])
      BY <1>3, StepStarts
    <3> QED BY <1>1, <3>1 DEF Begun, EndedIn, Later, Live
  <2>2. \A g \in Handlers \ {h} : Alike(req'[g], req[g])
    BY <1>3, StepStarts
  <2> QED BY <1>1, <2>1, <2>2, EndedKept DEF HeldHaveEnded
<1>4. ASSUME NEW h \in Handlers, GoesOn(h) PROVE HeldHaveEnded'
  <2>1. EndedIn(req[h])'
    <3>1. CASE LoadBound(h)
      <4>1. req[h] \in Request /\ req[h].pc = "bound" /\ UNCHANGED session
        BY <3>1, OneRequest DEF LoadBound, At, documents
      <4>2. req'[h] = [req[h] EXCEPT !.pc = "emit", !.ids = Bound(req[h].t)]
        BY <3>1 DEF LoadBound, Goto, Basic, TypeInv
      <4>3. /\ req'[h].pc = "emit" /\ req'[h].held = req[h].held
            /\ req'[h].ids = Bound(req[h].t)
        BY <4>1, <4>2 DEF Request
      <4>4. \A s \in req[h].held : ~Live(s)
        BY <4>1 DEF HeldHaveEnded, EndedIn
      <4> QED BY <4>3, <4>4 DEF EndedIn, Bound
    <3>2. CASE Fail(h)
      BY <3>2, FollowsEnd DEF Fail, EndedIn, Idle
    <3>3. CASE ~LoadBound(h) /\ ~Fail(h)
      <4>1. req[h].pc # "bound"
        BY <1>4, <3>3 DEF GoesOn, LoadTicket, Sync, FindContact, WriteContact, EnsureIdentity,
           FindEligible, CreateTicket, AppendMessage, CreateRecovery, Prove, CreateIdentity,
           CreateSession, Supersede, Disconnect, Consume, Resume, Join, Emit, Drop,
           MissSockets, At
      <4>2. req'[h] = Idle \/ Follows(req[h], req'[h])
        BY <1>4, StepOn
      <4> QED BY <4>1, <4>2 DEF Follows, Edges, EndedIn, Idle
    <3> QED BY <3>1, <3>2, <3>3
  <2>2. \A g \in Handlers \ {h} : Alike(req'[g], req[g])
    BY <1>4, StepOn DEF Alike
  <2> QED BY <1>1, <2>1, <2>2, EndedKept DEF HeldHaveEnded
<1> QED BY <1>2, <1>3, <1>4, NextIs

LEMMA SocketsKept ==
    ASSUME SocketsWatched, Sessions \subseteq Sessions',
           socket' \subseteq socket, late \subseteq late',
           \A s \in Sessions : session'[s].live = session[s].live,
           ~widget'.active => ~widget.active,
           \A g \in Handlers : req[g].pc \in {"disconnect", "drop"} =>
                                  req'[g].pc = req[g].pc /\ req'[g].ids = req[g].ids
    PROVE  SocketsWatched'
BY DEF SocketsWatched, Live, At

(* The sessions that are there stay live, whoever begins.                  *)
LEMMA StartsKeep ==
    ASSUME Basic, NEW h \in Handlers, Starts(h)
    PROVE  /\ UNCHANGED <<socket, late, recovery>>
           /\ Sessions \subseteq Sessions' /\ \A s \in Sessions : session'[s] = session[s]
           /\ \A s \in Sessions' \ Sessions : session'[s].proof = 0
           /\ BeginDeactivate(h) \/ UNCHANGED widget
<1>1. CASE BeginInitialize(h)
  <2>1. UNCHANGED <<widget, socket, late, recovery>>
    BY <1>1 DEF BeginInitialize
  <2>2. CASE AddSession(0, 0, 0)
    <3>1. /\ Sessions' = Sessions \cup {Len(session) + 1}
          /\ \A s \in Sessions : session'[s] = session[s]
          /\ session'[Len(session) + 1] = NewSession(0, 0, 0)
      BY <2>2, 0 \in Nat, SessionAdded
    <3> QED BY <2>1, <3>1 DEF NewSession
  <2>3. CASE UNCHANGED session
    BY <2>1, <2>3 DEF Sessions
  <2> QED BY <1>1, <2>2, <2>3 DEF BeginInitialize
<1>2. CASE \/ BeginMessage(h) \/ BeginVerify(h) \/ BeginUse(h) \/ BeginSubscribe(h)
           \/ BeginPublish(h) \/ BeginDeactivate(h)
  BY <1>2 DEF BeginMessage, BeginVerify, BeginUse, BeginSubscribe, BeginPublish,
     BeginDeactivate, documents, Sessions
<1> QED BY <1>1, <1>2 DEF Starts

(* The sessions that are there, and the records, when requests go on.      *)
LEMMA GoesOnKeeps ==
    ASSUME Basic, NEW h \in Handlers, GoesOn(h)
    PROVE  /\ UNCHANGED widget
           /\ Sync(h) \/ CreateSession(h) \/ Supersede(h) \/ Resume(h) \/ UNCHANGED session
           /\ CreateRecovery(h) \/ Consume(h) \/ UNCHANGED recovery
BY DEF GoesOn, LoadTicket, Sync, FindContact, WriteContact, EnsureIdentity, FindEligible,
   CreateTicket, AppendMessage, CreateRecovery, Prove, CreateIdentity, CreateSession,
   Supersede, Disconnect, Consume, Resume, Join, LoadBound, Emit, Drop, Fail, MissSockets,
   documents

(* Only superseding ends sessions.                                         *)
LEMMA LiveKept ==
    ASSUME Basic, NEW h \in Handlers, GoesOn(h), ~Supersede(h)
    PROVE  \A s \in Sessions : session'[s].live = session[s].live
<1>1. CASE Sync(h)
  BY <1>1, SyncSaves
<1>2. CASE CreateSession(h)
  <2>1. req[h].t \in Nat /\ req[h].c \in Nat /\ req[h].r \in Nat
    BY OneRequest DEF Request
  <2> QED BY <1>2, <2>1, SessionAdded DEF CreateSession
<1>3. CASE Resume(h)
  <2>1. CASE AddSession(0, 0, 0)
    BY <2>1, 0 \in Nat, SessionAdded
  <2> QED BY <1>3, <2>1 DEF Resume
<1> QED BY <1>1, <1>2, <1>3, GoesOnKeeps

LEMMA SocketsWatchedStep ==
    ASSUME Basic, SocketsWatched, [Next]_vars
    PROVE  SocketsWatched'
<1>1. Later
  BY StepLater
<1>2. Sessions \subseteq Sessions'
  BY <1>1 DEF Later
<1>3. CASE Changes \/ UNCHANGED vars
  BY <1>3, StepChanges, <1>2, SocketsKept
<1>4. ASSUME NEW h \in Handlers, Starts(h) PROVE SocketsWatched'
  <2>1. /\ req[h].pc = "idle"
        /\ \A g \in Handlers \ {h} : req'[g].pc = req[g].pc /\ req'[g].ids = req[g].ids
    BY <1>4, StepStarts DEF At, Alike
  <2>2. /\ UNCHANGED <<socket, late>> /\ \A s \in Sessions : session'[s] = session[s]
    BY <1>4, StartsKeep
  <2>3. CASE UNCHANGED widget
    BY <1>2, <2>1, <2>2, <2>3, SocketsKept
  <2>4. CASE BeginDeactivate(h)
    <3>1. req'[h].pc = "drop"
      <4>1. Begin(h, [Idle EXCEPT !.pc = "drop", !.op = "deactivate"])
        BY <2>4 DEF BeginDeactivate
      <4>2. req'[h] = [[Idle EXCEPT !.pc = "drop", !.op = "deactivate"]
                          EXCEPT !.alone = (Busy = {})]
        BY <4>1, BeginsWith DEF Basic
      <4> QED BY <4>2 DEF Idle
    <3> QED BY <1>2, <2>1, <2>2, <3>1 DEF SocketsWatched, At, Live
  <2> QED BY <1>4, <2>3, <2>4, StartsKeep
<1>5. ASSUME NEW h \in Handlers, GoesOn(h) PROVE SocketsWatched'
  <2>1. \A g \in Handlers \ {h} : req'[g] = req[g]
    BY <1>5, StepOn
  <2>2. UNCHANGED widget
    BY <1>5, GoesOnKeeps
  <2>3. ~Supersede(h) => \A s \in Sessions : session'[s].live = session[s].live
    BY <1>5, LiveKept
  <2>4. req[h] \in Request /\ req \in [Handlers -> Request]
    BY OneRequest DEF Basic, TypeInv
  <2>5. CASE Supersede(h)
    <3>1. /\ req[h].pc = "supersede" /\ UNCHANGED <<socket, late>>
          /\ req' = [req EXCEPT ![h] = [req[h] EXCEPT !.pc = "disconnect", !.ids = Superseded(h)]]
      BY <2>5 DEF Supersede, At, Goto, history
    <3>2. req'[h] = [req[h] EXCEPT !.pc = "disconnect", !.ids = Superseded(h)]
      BY <2>4, <3>1
    <3>3. req'[h].pc = "disconnect" /\ req'[h].ids = Superseded(h)
      BY <2>4, <3>2 DEF Request
    <3>4. \A s \in Sessions : session'[s].live <=> (session[s].live /\ s \notin Superseded(h))
      BY <2>5, SupersedeEnds
    <3>5. ASSUME NEW s \in socket, ~session'[s].live
          PROVE  s \in late \/ \E g \in Handlers : req'[g].pc = "disconnect" /\ s \in req'[g].ids
      <4>1. s \in Sessions
        BY DEF SocketsWatched
      <4>2. CASE s \in Superseded(h)
        BY <3>3, <4>2
      <4>3. CASE s \notin Superseded(h)
        <5>1. ~Live(s)
          BY <3>4, <3>5, <4>1, <4>3 DEF Live
        <5> QED BY <2>1, <3>1, <5>1 DEF SocketsWatched, At
      <4> QED BY <4>2, <4>3
    <3>6. ASSUME NEW s \in socket, session'[s].live, ~widget.active
          PROVE  s \in late \/ \E g \in Handlers : req'[g].pc = "drop"
      <4>1. s \in Sessions /\ Live(s)
        BY <3>4, <3>6 DEF SocketsWatched, Live
      <4> QED BY <2>1, <3>1, <3>6, <4>1 DEF SocketsWatched, At
    <3> QED BY <1>2, <2>2, <3>1, <3>5, <3>6 DEF SocketsWatched, At, Live
  <2>6. CASE Disconnect(h)
    BY <1>2, <2>1, <2>2, <2>3, <2>6 DEF Disconnect, SocketsWatched, At, Live, documents,
       history
  <2>7. CASE Join(h)
    <3>1. req[h].s \in Sessions
      BY <2>7, OneRequest, Lengths DEF Join, At, Request, Refers, RefersWithin, Basic
    <3>2. /\ req[h].pc = "join" /\ UNCHANGED session /\ socket' = socket \cup {req[h].s}
          /\ late' = IF Ended(req[h].s) THEN late \cup {req[h].s} ELSE late \ {req[h].s}
      BY <2>7 DEF Join, At, documents
    <3> QED BY <2>1, <2>2, <3>1, <3>2 DEF SocketsWatched, At, Live, Ended, Sessions
  <2>8. CASE Drop(h)
    BY <1>2, <2>1, <2>2, <2>8 DEF Drop, SocketsWatched, At, Live, documents, history
  <2>9. CASE MissSockets(h)
    BY <1>2, <2>1, <2>2, <2>9 DEF MissSockets, SocketsWatched, At, Live, documents
  <2>10. CASE ~(Supersede(h) \/ Disconnect(h) \/ Join(h) \/ Drop(h) \/ MissSockets(h))
    <3>1. req[h].pc \notin {"disconnect", "drop"} /\ UNCHANGED <<socket, late>>
      BY <1>5, <2>10 DEF GoesOn, LoadTicket, Sync, FindContact, WriteContact, EnsureIdentity,
         FindEligible, CreateTicket, AppendMessage, CreateRecovery, Prove, CreateIdentity,
         CreateSession, Consume, Resume, LoadBound, Emit, Fail, At, history
    <3> QED BY <1>2, <2>1, <2>2, <2>3, <2>10, <3>1, SocketsKept
  <2> QED BY <2>5, <2>6, <2>7, <2>8, <2>9, <2>10
<1> QED BY <1>3, <1>4, <1>5, NextIs

LEMMA SilentInit == Init => HeldHaveEnded /\ SocketsWatched
BY DEF Init, HeldHaveEnded, EndedIn, SocketsWatched, Idle

(* What has ended hears nothing, not even on a socket that is still        *)
(* connected, and no socket outlives its session, or the activity of the   *)
(* widget, that is not about to be disconnected: however many visitors     *)
(* come, recover, listen and leave, and whoever overlaps with whom         *)
(* (loadBoundWidgetSessions, disconnectRealtimeWidgetSessionSockets).      *)
THEOREM EndedAreSilent == Spec => []EndedIsSilent
<1> DEFINE IInv == Basic /\ HeldHaveEnded /\ SocketsWatched
<1>1. Init => IInv
  BY BasicInit, SilentInit
<1>2. IInv /\ [Next]_vars => IInv'
  BY BasicStep, HeldHaveEndedStep, SocketsWatchedStep
<1>3. IInv => EndedIsSilent
  <2> SUFFICES ASSUME IInv PROVE EndedIsSilent
    OBVIOUS
  <2>1. EndedHearNothing
    BY DEF HeldHaveEnded, EndedIn, EndedHearNothing, Hears, At
  <2>2. SocketsEndWithSession
    BY DEF SocketsWatched, SocketsEndWithSession, Ended
  <2> QED BY <2>1, <2>2 DEF EndedIsSilent
<1> QED BY <1>1, <1>2, <1>3, PTL DEF Spec

----------------------------------------------------------------------------
(* One recovery makes one session.                                         *)
LEMMA IdleHasNone ==
    ASSUME Basic, NEW g \in Handlers, req[g].pc = "idle"
    PROVE  req[g].s = 0 /\ req[g].r = 0
BY OneRequest DEF Refers, RefersWithin

LEMMA UsesMeetStep ==
    ASSUME Basic, UsesMeet, [Next]_vars
    PROVE  UsesMeet'
<1>1. contested \subseteq contested'
  BY StepLater DEF Later
<1>2. CASE Changes \/ UNCHANGED vars
  BY <1>2, StepChanges DEF UsesMeet
<1>3. ASSUME NEW h \in Handlers, Starts(h) PROVE UsesMeet'
  <2>1. \A g \in Handlers \ {h} : req'[g].r = req[g].r
    BY <1>3, StepStarts DEF Alike
  <2>2. \A g \in Handlers \ {h} : (req'[g].r # 0 /\ req'[g].r = req'[h].r)
                                  => req'[g].r \in contested'
    BY <1>3, <2>1, StepStarts, IdleHasNone DEF Busy, At
  <2> QED BY <1>1, <2>1, <2>2 DEF UsesMeet
<1>4. ASSUME NEW h \in Handlers, GoesOn(h) PROVE UsesMeet'
  <2>1. \A g \in Handlers \ {h} : req'[g].r = req[g].r
    BY <1>4, StepOn
  <2>2. req'[h].r = 0 \/ req'[h].r = req[h].r
    <3>1. req'[h] = Idle \/ Follows(req[h], req'[h])
      BY <1>4, StepOn
    <3>2. Idle.r = 0
      BY DEF Idle
    <3> QED BY <3>1, <3>2 DEF Follows
  <2> QED BY <1>1, <2>1, <2>2 DEF UsesMeet
<1> QED BY <1>2, <1>3, <1>4, NextIs

(* The session that a request adds has the proof of its record, or none.   *)
LEMMA SessionsMade ==
    ASSUME Basic, NEW h \in Handlers, GoesOn(h)
    PROVE  \A s \in Sessions' \ Sessions :
              \/ session'[s].proof = 0
              \/ /\ CreateSession(h) /\ s = Len(session) + 1
                 /\ session'[s].proof = req[h].r
<1>1. CASE Sync(h) \/ Supersede(h)
  BY <1>1, SyncSaves, SupersedeEnds
<1>2. CASE CreateSession(h)
  <2>1. req[h].t \in Nat /\ req[h].c \in Nat /\ req[h].r \in Nat
    BY OneRequest DEF Request
  <2>2. /\ Sessions' = Sessions \cup {Len(session) + 1}
        /\ session'[Len(session) + 1] = NewSession(req[h].t, req[h].c, req[h].r)
    BY <1>2, <2>1, SessionAdded DEF CreateSession
  <2> QED BY <1>2, <2>2 DEF NewSession
<1>3. CASE Resume(h)
  <2>1. CASE AddSession(0, 0, 0)
    <3>1. /\ Sessions' = Sessions \cup {Len(session) + 1}
          /\ session'[Len(session) + 1] = NewSession(0, 0, 0)
      BY <2>1, 0 \in Nat, SessionAdded
    <3> QED BY <3>1 DEF NewSession
  <2>2. CASE UNCHANGED session
    BY <2>2 DEF Sessions
  <2> QED BY <1>3, <2>1, <2>2 DEF Resume
<1>4. CASE UNCHANGED session
  BY <1>4 DEF Sessions
<1> QED BY <1>1, <1>2, <1>3, <1>4, GoesOnKeeps

(* A record that is accounted for stays so.                                *)
LEMMA AccountedStep ==
    ASSUME Basic, [Next]_vars, NEW n, Accounted(n)
    PROVE  Accounted(n)'
<1>1. Later
  BY StepLater
<1>2. SUFFICES ASSUME n # 0, n \notin contested', ~(n \in Recoveries /\ recovery[n].consumed)
               PROVE  Accounted(n)'
  BY <1>1 DEF Accounted, Later
<1>3. PICK h \in Handlers : req[h].pc \in Replacing /\ req[h].r = n
  BY <1>1, <1>2 DEF Accounted, Later
<1>4. CASE Changes \/ UNCHANGED vars
  BY <1>3, <1>4, StepChanges DEF Accounted
<1>5. ASSUME NEW g \in Handlers, Starts(g) PROVE Accounted(n)'
  <2>1. g # h
    BY <1>3, <1>5, StepStarts DEF At, Replacing
  <2> QED BY <1>3, <1>5, <2>1, StepStarts DEF Accounted, Alike
<1>6. ASSUME NEW g \in Handlers, GoesOn(g), g # h PROVE Accounted(n)'
  BY <1>3, <1>6, StepOn DEF Accounted
<1>7. CASE GoesOn(h)
  <2>1. CASE Fail(h)
    BY <1>2, <1>3, <2>1 DEF Fail
  <2>2. CASE Consume(h)
    <3>1. n \in Recoveries
      BY <1>3, OneRequest, Lengths DEF Basic, Request, Refers, RefersWithin, Replacing
    <3>2. recovery' = [recovery EXCEPT ![n].consumed = TRUE]
      BY <1>3, <2>2 DEF Consume
    <3> QED BY <3>1, <3>2, RecordMarked DEF Accounted
  <2>3. CASE ~Fail(h) /\ ~Consume(h)
    <3>1. Supersede(h) \/ Disconnect(h) \/ (MissSockets(h) /\ req[h].pc = "disconnect")
      BY <1>3, <1>7, <2>3 DEF GoesOn, LoadTicket, Sync, FindContact, WriteContact,
         EnsureIdentity, FindEligible, CreateTicket, AppendMessage, CreateRecovery, Prove,
         CreateIdentity, CreateSession, Resume, Join, LoadBound, Emit, Drop, MissSockets, At,
         Replacing
    <3>2. req'[h] # Idle
      <4>1. req \in [Handlers -> Request] /\ req[h] \in Request
        BY OneRequest DEF Basic, TypeInv
      <4>2. ASSUME NEW ids, NEW pc \in {"disconnect", "consume"},
                   Goto(h, [req[h] EXCEPT !.pc = pc, !.ids = ids])
            PROVE  req'[h].pc = pc
        <5>1. req'[h] = [req[h] EXCEPT !.pc = pc, !.ids = ids]
          BY <4>1, <4>2 DEF Goto
        <5> QED BY <4>1, <5>1 DEF Request
      <4>3. Idle.pc = "idle"
        BY DEF Idle
      <4>4. CASE Supersede(h)
        <5>1. Goto(h, [req[h] EXCEPT !.pc = "disconnect", !.ids = Superseded(h)])
          BY <4>4 DEF Supersede
        <5> QED BY <4>2, <4>3, <5>1
      <4>5. CASE Disconnect(h) \/ (MissSockets(h) /\ req[h].pc = "disconnect")
        <5>1. Goto(h, [req[h] EXCEPT !.pc = "consume", !.ids = {}])
          BY <4>5 DEF Disconnect, MissSockets
        <5> QED BY <4>2, <4>3, <5>1
      <4> QED BY <3>1, <4>4, <4>5
    <3>3. Follows(req[h], req'[h]) /\ req[h].pc # "consume"
      BY <1>7, <3>1, <3>2, StepOn DEF Supersede, Disconnect, At
    <3>4. req'[h].pc \in Replacing /\ req'[h].r = n
      BY <1>3, <3>3 DEF Follows, Edges, Replacing
    <3> QED BY <3>4 DEF Accounted
  <2> QED BY <2>1, <2>2, <2>3
<1> QED BY <1>4, <1>5, <1>6, <1>7, NextIs

LEMMA UsesCountedStep ==
    ASSUME Basic, UsesCounted, [Next]_vars
    PROVE  UsesCounted'
<1>1. Later /\ UsesMeet'
  BY StepLater, UsesMeetStep DEF UsesCounted
<1>2. \A s \in Sessions : session'[s].proof = session[s].proof /\ Accounted(session[s].proof)'
  <2>1. TAKE s \in Sessions
  <2>2. Accounted(session[s].proof)
    BY DEF UsesCounted
  <2>3. PICK n : n = session[s].proof
    OBVIOUS
  <2>4. Accounted(n)'
    BY <2>2, <2>3, AccountedStep
  <2> QED BY <1>1, <2>3, <2>4 DEF Later, Accounted
<1>3. contested \subseteq contested'
  BY <1>1 DEF Later
<1>4. ASSUME NEW g \in Handlers, Alike(req'[g], req[g]),
             \A s \in Sessions' \ Sessions : session'[s].proof \notin {req[g].r} \ contested'
      PROVE  Unused(req[g])'
  <2>1. Unused(req[g])
    BY DEF UsesCounted
  <2> QED BY <1>2, <1>3, <1>4, <2>1 DEF Unused, Alike
<1>5. ASSUME NEW g \in Handlers, req[g].pc \in Using PROVE req[g].r # 0
  BY <1>5, OneRequest DEF Refers, RefersWithin
<1>6. ASSUME \A s \in Sessions' \ Sessions : Accounted(session[s].proof)',
             \A s \in Sessions' \ Sessions : \/ session'[s].proof = 0
                                             \/ session'[s].proof \in contested'
      PROVE  OneSessionPerRecovery' /\ \A s \in Sessions' : Accounted(session[s].proof)'
  <2>1. OneSessionPerRecovery
    BY DEF UsesCounted
  <2> QED BY <1>2, <1>3, <1>6, <2>1 DEF OneSessionPerRecovery
<1>7. ASSUME Sessions' = Sessions
      PROVE  OneSessionPerRecovery' /\ \A s \in Sessions' : Accounted(session[s].proof)'
  BY <1>6, <1>7
<1>8. CASE Changes \/ UNCHANGED vars
  <2>1. UNCHANGED <<session, req>>
    BY <1>8, StepChanges
  <2>2. Sessions' = Sessions /\ \A g \in Handlers : Alike(req'[g], req[g])
    BY <2>1 DEF Sessions, Alike
  <2> QED BY <1>1, <1>4, <1>7, <2>2 DEF UsesCounted
<1>9. ASSUME NEW h \in Handlers, Starts(h) PROVE UsesCounted'
  <2>1. /\ \A s \in Sessions' \ Sessions : session'[s].proof = 0
        /\ \A g \in Handlers \ {h} : Alike(req'[g], req[g])
    BY <1>9, StepStarts, StartsKeep
  <2>2. \A g \in Handlers \ {h} : Unused(req[g])'
    <3>1. TAKE g \in Handlers \ {h}
    <3>2. CASE req[g].pc \in Using
      BY <1>4, <1>5, <2>1, <3>2
    <3>3. CASE req[g].pc \notin Using
      BY <2>1, <3>3 DEF Unused, Alike
    <3> QED BY <3>2, <3>3
  <2>3. \A s \in Sessions' \ Sessions : Accounted(session[s].proof)'
    BY <2>1 DEF Accounted
  <2>4. Unused(req[h])'
    <3> DEFINE n == req'[h].r
    <3>1. SUFFICES ASSUME req'[h].pc \in Using, n \notin contested'
                   PROVE  \A s \in Sessions' : session'[s].proof # n
      BY DEF Unused
    <3>2. n \in Recoveries /\ ~recovery[n].consumed
      BY <1>9, <3>1, StepStarts DEF Begun, Using
    <3>3. n # 0
      BY <3>2, Lengths DEF Basic
    <3>4. \A g \in Handlers : req[g].pc \in Replacing => req[g].r # n
      <4>1. \A g \in Busy : req[g].r # n
        BY <1>9, <3>1, <3>3, StepStarts
      <4> QED BY <4>1 DEF Busy, At, Replacing
    <3>5. ~Accounted(n)
      BY <1>3, <3>1, <3>2, <3>3, <3>4 DEF Accounted
    <3>6. \A s \in Sessions : session'[s].proof # n
      BY <1>2, <3>5 DEF UsesCounted
    <3> QED BY <2>1, <3>3, <3>6
  <2> QED BY <1>1, <1>6, <2>1, <2>2, <2>3, <2>4 DEF UsesCounted
<1>10. ASSUME NEW h \in Handlers, GoesOn(h) PROVE UsesCounted'
  <2>1. \A g \in Handlers \ {h} : Alike(req'[g], req[g])
    BY <1>10, StepOn DEF Alike
  <2>2. CASE CreateSession(h)
    <3> DEFINE n == req[h].r
    <3>1. /\ req[h].pc = "session" /\ n \in Nat /\ n # 0
      BY <1>5, <2>2, OneRequest DEF CreateSession, At, Using, Request
    <3>2. /\ Sessions' = Sessions \cup {Len(session) + 1} /\ Len(session) + 1 \notin Sessions
          /\ session'[Len(session) + 1].proof = n
      <4>1. req[h].t \in Nat /\ req[h].c \in Nat /\ AddSession(req[h].t, req[h].c, n)
        BY <2>2, OneRequest DEF CreateSession, Request
      <4>2. session'[Len(session) + 1] = NewSession(req[h].t, req[h].c, n)
            /\ Sessions' = Sessions \cup {Len(session) + 1} /\ Len(session) + 1 \notin Sessions
        BY <3>1, <4>1, SessionAdded
      <4> QED BY <4>2 DEF NewSession
    <3>3. req'[h].pc = "supersede" /\ req'[h].r = n
      <4>1. req'[h] = [req[h] EXCEPT !.s = Len(session) + 1, !.pc = "supersede"]
        BY <2>2 DEF CreateSession, Goto, Basic, TypeInv
      <4>2. req[h] \in Request
        BY OneRequest
      <4> QED BY <4>1, <4>2 DEF Request
    <3>4. \A g \in Handlers \ {h} : Unused(req[g])'
      <4>1. TAKE g \in Handlers \ {h}
      <4>2. req[g].r = n => n \in contested
        BY <3>1 DEF UsesCounted, UsesMeet
      <4> QED BY <1>3, <1>4, <2>1, <3>2, <4>2
    <3>5. Unused(req[h])'
      BY <3>3 DEF Unused, Using
    <3>6. \A s \in Sessions' \ Sessions : Accounted(session[s].proof)'
      BY <3>2, <3>3 DEF Accounted, Replacing
    <3>7. OneSessionPerRecovery'
      <4>1. n \in contested' \/ \A s \in Sessions : session'[s].proof # n
        <5>1. Unused(req[h])
          BY DEF UsesCounted
        <5> QED BY <1>2, <1>3, <3>1, <5>1 DEF Unused, Using
      <4>2. OneSessionPerRecovery
        BY DEF UsesCounted
      <4> QED BY <1>2, <1>3, <3>2, <4>1, <4>2 DEF OneSessionPerRecovery
    <3> QED BY <1>1, <1>2, <3>4, <3>5, <3>6, <3>7 DEF UsesCounted
  <2>3. CASE ~CreateSession(h)
    <3>1. \A s \in Sessions' \ Sessions : session'[s].proof = 0
      BY <1>10, <2>3, SessionsMade
    <3>2. \A g \in Handlers \ {h} : Unused(req[g])'
      <4>1. TAKE g \in Handlers \ {h}
      <4>2. CASE req[g].pc \in Using
        BY <1>4, <1>5, <2>1, <3>1, <4>2
      <4>3. CASE req[g].pc \notin Using
        BY <2>1, <4>3 DEF Unused, Alike
      <4> QED BY <4>2, <4>3
    <3>3. Unused(req[h])'
      <4>1. req'[h] = Idle \/ Follows(req[h], req'[h])
        BY <1>10, StepOn
      <4>2. Idle.pc \notin Using
        BY DEF Idle, Using
      <4>3. SUFFICES ASSUME req'[h].pc \in Using PROVE Unused(req[h])'
        BY DEF Unused
      <4>4. req[h].pc \in Using /\ req'[h].r = req[h].r
        BY <4>1, <4>2, <4>3 DEF Follows, Edges, Using
      <4>5. Unused(req[h])
        BY DEF UsesCounted
      <4> QED BY <1>2, <1>3, <1>5, <3>1, <4>4, <4>5 DEF Unused
    <3>4. \A s \in Sessions' \ Sessions : Accounted(session[s].proof)'
      BY <3>1 DEF Accounted
    <3> QED BY <1>1, <1>6, <3>1, <3>2, <3>3, <3>4 DEF UsesCounted
  <2> QED BY <2>2, <2>3
<1> QED BY <1>8, <1>9, <1>10, NextIs

----------------------------------------------------------------------------
(* A visitor who continues a conversation, alone, is answered with it.     *)
LEMMA AloneStep ==
    ASSUME Basic, Alone, [Next]_vars
    PROVE  Alone'
<1>1. CASE Changes \/ UNCHANGED vars
  BY <1>1, StepChanges DEF Alone, At
<1>2. ASSUME NEW h \in Handlers, Starts(h) PROVE Alone'
  <2>1. /\ req'[h].alone = (Busy = {})
        /\ \A g \in Handlers \ {h} : /\ req'[g].pc = req[g].pc
                                     /\ req'[g].alone = (req[g].alone /\ g \notin Busy)
    BY <1>2, StepStarts DEF Alike
  <2> QED BY ZenonT(40), <2>1 DEF Alone, At, Busy
<1>3. ASSUME NEW h \in Handlers, GoesOn(h) PROVE Alone'
  <2>1. /\ req[h].pc # "idle" /\ \A g \in Handlers \ {h} : req'[g] = req[g]
        /\ req'[h] = Idle \/ Follows(req[h], req'[h])
    BY <1>3, StepOn
  <2>2. req'[h].pc = "idle" \/ req'[h].alone = req[h].alone
    <3>1. Idle.pc = "idle"
      BY DEF Idle
    <3> QED BY <2>1, <3>1 DEF Follows
  <2> QED BY <2>1, <2>2 DEF Alone, At
<1> QED BY <1>1, <1>2, <1>3, NextIs

(* What a request that goes on has read or made.                           *)
LEMMA StepReads ==
    ASSUME Basic, NEW h \in Handlers
    PROVE  /\ LoadTicket(h) => req'[h].t \in CurrentTicket(req[h].s, req[h].loaded.ticket)
           /\ FindEligible(h) => \/ req'[h].pc = "create"
                                 \/ /\ req'[h].t \in CurrentTicket(req[h].s, req[h].loaded.ticket)
                                    /\ req'[h].t # 0
           /\ CreateTicket(h) => req'[h].t = Len(ticket) + 1
           /\ CreateSession(h) => req'[h].s = Len(session) + 1
           /\ (Resume(h) /\ Live(req[h].s)) =>
                 \/ req'[h] = Idle /\ UNCHANGED session
                 \/ /\ req'[h].s = req[h].s /\ UNCHANGED session
                    /\ req'[h].loaded.ticket = session[req[h].s].ticket
                    /\ req'[h].loaded.contact = session[req[h].s].contact
                    /\ req'[h].c = req'[h].loaded.contact
           /\ (Resume(h) /\ ~Live(req[h].s)) =>
                 \/ req'[h] = Idle /\ UNCHANGED session
                 \/ /\ req'[h].s = Len(session) + 1 /\ AddSession(0, 0, 0)
                    /\ req'[h].loaded = req[h].loaded /\ req'[h].c = 0
<1> DEFINE q == req[h]
<1>1. q \in Request /\ req \in [Handlers -> Request]
  BY OneRequest DEF Basic, TypeInv
<1>2. ASSUME LoadTicket(h) PROVE req'[h].t \in CurrentTicket(q.s, q.loaded.ticket)
  <2>1. PICK t \in CurrentTicket(q.s, q.loaded.ticket) : Goto(h, [q EXCEPT !.pc = "sync", !.t = t])
    BY <1>2 DEF LoadTicket
  <2>2. req'[h] = [q EXCEPT !.pc = "sync", !.t = t]
    BY <1>1, <2>1 DEF Goto
  <2>3. req'[h].t = t
    BY <1>1, <2>2 DEF Request
  <2> QED BY <2>3
<1>3. ASSUME FindEligible(h)
      PROVE  \/ req'[h].pc = "create"
             \/ req'[h].t \in CurrentTicket(q.s, q.loaded.ticket) /\ req'[h].t # 0
  <2>1. PICK t \in CurrentTicket(q.s, q.loaded.ticket) :
           \/ t # 0 /\ Goto(h, [q EXCEPT !.t = t, !.pc = "append"])
           \/ Goto(h, [q EXCEPT !.pc = "create"])
    BY <1>3 DEF FindEligible
  <2>2. \/ t # 0 /\ req'[h] = [q EXCEPT !.t = t, !.pc = "append"]
        \/ req'[h] = [q EXCEPT !.pc = "create"]
    BY <1>1, <2>1 DEF Goto
  <2>3. (t # 0 /\ req'[h].t = t) \/ req'[h].pc = "create"
    BY <1>1, <2>2 DEF Request
  <2> QED BY <2>3
<1>4. ASSUME CreateTicket(h) PROVE req'[h].t = Len(ticket) + 1
  <2> DEFINE n == Len(ticket) + 1
  <2>1. req'[h] = [q EXCEPT !.t = n, !.pc = "sync"]
    BY <1>1, <1>4 DEF CreateTicket, Goto
  <2> HIDE DEF n
  <2>2. req'[h].t = n
    BY <1>1, <2>1 DEF Request
  <2> QED BY <2>2 DEF n
<1>5. ASSUME CreateSession(h) PROVE req'[h].s = Len(session) + 1
  <2> DEFINE n == Len(session) + 1
  <2>1. req'[h] = [q EXCEPT !.s = n, !.pc = "supersede"]
    BY <1>1, <1>5 DEF CreateSession, Goto
  <2> HIDE DEF n
  <2>2. req'[h].s = n
    BY <1>1, <2>1 DEF Request
  <2> QED BY <2>2 DEF n
<1>6. ASSUME Resume(h), ~widget.active PROVE req'[h] = Idle /\ UNCHANGED session
  BY <1>6, FollowsEnd DEF Resume
<1>7. ASSUME Resume(h), widget.active, Live(q.s)
      PROVE  /\ req'[h].s = q.s /\ UNCHANGED session
             /\ req'[h].loaded.ticket = session[q.s].ticket
             /\ req'[h].loaded.contact = session[q.s].contact
             /\ req'[h].c = req'[h].loaded.contact
  <2> DEFINE t == session[q.s].ticket
             c == session[q.s].contact
             r == [q EXCEPT !.pc = "load", !.loaded = [ticket |-> t, contact |-> c], !.c = c]
  <2>1. Goto(h, r) /\ UNCHANGED session
    BY <1>7 DEF Resume
  <2>2. t = session[q.s].ticket /\ c = session[q.s].contact
    OBVIOUS
  <2> HIDE DEF t, c
  <2>3. req'[h] = r
    BY <1>1, <2>1 DEF Goto
  <2>4. /\ req'[h].s = q.s /\ req'[h].loaded.ticket = t
        /\ req'[h].loaded.contact = c /\ req'[h].c = c
    BY <1>1, <2>3 DEF Request
  <2> QED BY <2>1, <2>2, <2>4
<1>8. ASSUME Resume(h), widget.active, ~Live(q.s)
      PROVE  /\ req'[h].s = Len(session) + 1 /\ AddSession(0, 0, 0)
             /\ req'[h].loaded = q.loaded /\ req'[h].c = 0
  <2> DEFINE n == Len(session) + 1
             r == [q EXCEPT !.pc = "load", !.s = n, !.c = 0]
  <2>1. Goto(h, r) /\ AddSession(0, 0, 0)
    BY <1>8 DEF Resume
  <2>2. n = Len(session) + 1
    OBVIOUS
  <2> HIDE DEF n
  <2>3. req'[h] = r
    BY <1>1, <2>1 DEF Goto
  <2>4. req'[h].s = n /\ req'[h].loaded = q.loaded /\ req'[h].c = 0
    BY <1>1, <2>3 DEF Request
  <2> QED BY <2>1, <2>2, <2>4
<1> QED BY <1>2, <1>3, <1>4, <1>5, <1>6, <1>7, <1>8

LEMMA ContinuedGoes ==
    ASSUME Basic, NEW h \in Handlers, GoesOn(h), req[h].op = "continue", Continued(req[h])
    PROVE  Continued(req[h])'
<1> DEFINE q == req[h]
           r == req'[h]
           n == recovery[q.r].ticket
<1>1. Later
  BY StepLater DEF Next, GoesOn, Visit, Recover, Listen
<1>2. Idle.pc = "idle"
  BY DEF Idle
<1>3. SUFFICES ASSUME r.pc \in Using \cup Replacing \cup {"answer", "load", "sync"}
               PROVE  Continued(req[h])'
  BY DEF Continued, Using, Replacing
<1>4. Follows(q, r)
  BY <1>2, <1>3, StepOn DEF Using, Replacing
<1>5. q.pc \in Using \cup Replacing \cup {"answer", "load"}
  <2>1. q.pc \notin Message \cup {"join"}
    BY OneRequest DEF OpAt
  <2> QED BY <1>3, <1>4, <2>1 DEF Follows, Edges, Using, Replacing, Message
<1>6. q.r \in Recoveries /\ n # 0 /\ r.r = q.r /\ r.r \in Recoveries' /\ recovery'[r.r].ticket = n
  BY <1>1, <1>4, <1>5 DEF Later, Follows, Continued, Using, Replacing
<1>7. q \in Request /\ Refers(q)
  BY OneRequest
<1>8. CASE Prove(h) \/ CreateIdentity(h)
  <2>1. q.pc \in {"prove", "identity"}
    BY <1>8 DEF Prove, CreateIdentity, At
  <2>2. r.pc \in Using /\ r.t = q.t /\ q.t = n
    BY <1>4, <2>1 DEF Follows, Edges, Using, Continued
  <2> QED BY <1>6, <2>2 DEF Continued, Using, Replacing
<1>9. CASE CreateSession(h)
  <2> DEFINE m == Len(session) + 1
  <2>1. q.pc = "session" /\ q.t = n /\ q.t \in Nat /\ q.c \in Nat /\ q.r \in Nat
    BY <1>7, <1>9 DEF CreateSession, At, Continued, Using, Request
  <2>2. session'[m] = NewSession(q.t, q.c, q.r)
    BY <1>9, <2>1, SessionAdded DEF CreateSession
  <2>3. session'[m].live /\ session'[m].proof = q.r /\ session'[m].ticket = n
    BY <2>1, <2>2 DEF NewSession
  <2>4. r.s = m
    BY <1>9, StepReads
  <2>5. r.pc = "supersede"
    BY <1>4, <2>1 DEF Follows, Edges
  <2> QED BY <1>6, <2>3, <2>4, <2>5 DEF Continued, Using, Replacing, Live
<1>10. CASE Supersede(h)
  <2>1. q.pc = "supersede" /\ q.s \notin Superseded(h)
    BY <1>10 DEF Supersede, At, Superseded
  <2>2. q.s \in Sessions
    BY <1>7, <2>1, Lengths DEF Basic, Request, Refers, RefersWithin, Replacing
  <2>3. Live(q.s) /\ session[q.s].proof = q.r /\ session[q.s].ticket = n
    BY <2>1 DEF Continued, Replacing
  <2>4. session'[q.s].live /\ session'[q.s].proof = q.r /\ session'[q.s].ticket = n
    BY <1>10, <2>1, <2>2, <2>3, SupersedeEnds DEF Live
  <2>5. r.pc = "disconnect" /\ r.s = q.s
    BY <1>4, <2>1 DEF Follows, Edges
  <2> QED BY <1>6, <2>4, <2>5 DEF Continued, Using, Replacing, Live
<1>11. CASE Disconnect(h) \/ MissSockets(h) \/ Consume(h)
  <2>1. q.pc \in {"disconnect", "consume"} /\ UNCHANGED session
    BY <1>5, <1>11 DEF Disconnect, MissSockets, Consume, At, documents, Using, Replacing
  <2>2. Live(q.s) /\ session[q.s].proof = q.r /\ session[q.s].ticket = n
    BY <2>1 DEF Continued, Replacing
  <2>3. r.pc \in {"consume", "answer"} /\ r.s = q.s
    BY <1>4, <2>1 DEF Follows, Edges
  <2> QED BY <1>6, <2>1, <2>2, <2>3 DEF Continued, Using, Replacing, Live
<1>12. CASE Resume(h)
  <2>1. q.pc = "answer"
    BY <1>12 DEF Resume, At
  <2>2. Live(q.s) /\ session[q.s].proof = q.r /\ session[q.s].ticket = n
    BY <2>1 DEF Continued, Replacing
  <2>3. r.pc = "load"
    BY <1>4, <2>1 DEF Follows, Edges
  <2>4. UNCHANGED session /\ r.s = q.s /\ r.loaded.ticket = n
    BY <1>2, <1>12, <2>2, <2>3, StepReads
  <2> QED BY <1>6, <2>2, <2>3, <2>4 DEF Continued, Using, Replacing, Live
<1>13. CASE LoadTicket(h)
  <2>1. q.pc = "load" /\ UNCHANGED session
    BY <1>13 DEF LoadTicket, At, documents
  <2>2. session[q.s].proof = q.r /\ session[q.s].ticket = n /\ q.loaded.ticket = n
    BY <2>1 DEF Continued
  <2>3. r.pc = "sync" /\ r.s = q.s /\ r.loaded = q.loaded
    BY <1>4, <2>1 DEF Follows, Edges
  <2>4. r.t = n
    BY <1>6, <1>13, <2>2, StepReads DEF CurrentTicket
  <2> QED BY <1>6, <2>1, <2>2, <2>3, <2>4 DEF Continued, Using, Replacing
<1>14. CASE Fail(h)
  BY <1>2, <1>3, <1>14, FollowsEnd DEF Fail, Using, Replacing
<1>15. Prove(h) \/ CreateIdentity(h) \/ CreateSession(h) \/ Supersede(h) \/ Disconnect(h)
       \/ MissSockets(h) \/ Consume(h) \/ Resume(h) \/ LoadTicket(h) \/ Fail(h)
  BY <1>5 DEF GoesOn, Sync, FindContact, WriteContact, EnsureIdentity, FindEligible,
     CreateTicket, AppendMessage, CreateRecovery, Join, LoadBound, Emit, Drop, At, Using,
     Replacing
<1> QED BY <1>8, <1>9, <1>10, <1>11, <1>12, <1>13, <1>14, <1>15

LEMMA AloneContinuesStep ==
    ASSUME Basic, AloneContinues, [Next]_vars
    PROVE  AloneContinues'
<1>1. Alone' /\ Later
  BY AloneStep, StepLater DEF AloneContinues
<1>2. CASE Changes \/ UNCHANGED vars
  <2>1. UNCHANGED <<session, req>>
    BY <1>2, StepChanges
  <2>2. \A h \in Handlers : Continued(req[h]) => Continued(req[h])'
    BY <1>1, <2>1 DEF Continued, Later, Live
  <2> QED BY <1>1, <2>1, <2>2 DEF AloneContinues
<1>3. ASSUME NEW h \in Handlers, Starts(h) PROVE AloneContinues'
  <2>1. ASSUME NEW g \in Handlers \ {h}, req'[g].alone PROVE Continued(req[g])'
    <3>1. /\ Alike(req'[g], req[g])
          /\ req'[g].alone = (req[g].alone /\ g \notin Busy)
      BY <1>3, StepStarts
    <3>2. g \notin Busy
      BY <2>1, <3>1
    <3>3. req'[g].pc = "idle"
      BY <3>1, <3>2 DEF Alike, Busy, At
    <3> QED BY <3>3 DEF Continued, Using, Replacing
  <2>2. ASSUME req'[h].op = "continue" PROVE Continued(req[h])'
    <3>1. Begun(req'[h])
      BY <1>3, StepStarts
    <3>2. /\ req'[h].pc = "prove" /\ req'[h].r \in Recoveries
          /\ req'[h].t = recovery[req'[h].r].ticket /\ req'[h].t # 0
      BY <2>2, <3>1 DEF Begun
    <3> QED BY <1>1, <3>2 DEF Continued, Later, Using, Replacing
  <2> QED BY <1>1, <2>1, <2>2 DEF AloneContinues
<1>4. ASSUME NEW h \in Handlers, GoesOn(h) PROVE AloneContinues'
  <2>1. /\ req[h].pc # "idle" /\ \A g \in Handlers \ {h} : req'[g] = req[g]
        /\ req'[h] = Idle \/ Follows(req[h], req'[h])
    BY <1>4, StepOn
  <2>2. ASSUME NEW g \in Handlers \ {h}, req'[g].alone PROVE Continued(req[g])'
    <3>1. req'[g].pc = "idle"
      BY <2>1, <2>2 DEF AloneContinues, Alone, At
    <3> QED BY <3>1 DEF Continued, Using, Replacing
  <2>3. ASSUME req'[h].alone, req'[h].op = "continue" PROVE Continued(req[h])'
    <3>1. Idle.op # "continue"
      BY DEF Idle, None
    <3>2. req[h].alone /\ req[h].op = "continue"
      BY <2>1, <2>3, <3>1 DEF Follows
    <3>3. Continued(req[h])
      BY <3>2 DEF AloneContinues
    <3> QED BY <1>4, <3>2, <3>3, ContinuedGoes
  <2> QED BY <1>1, <2>2, <2>3 DEF AloneContinues
<1> QED BY <1>2, <1>3, <1>4, NextIs

----------------------------------------------------------------------------
(* Of the sessions in the conversation of a record, none is live and in it *)
(* when the record is used up.                                             *)
LEMMA VisitorsMeetStep ==
    ASSUME Basic, VisitorsMeet, [Next]_vars
    PROVE  VisitorsMeet'
<1>1. crossed \subseteq crossed'
  BY StepLater DEF Later
<1>2. CASE Changes \/ UNCHANGED vars
  BY <1>2, StepChanges DEF VisitorsMeet
<1>3. ASSUME NEW h \in Handlers, Starts(h) PROVE VisitorsMeet'
  <2>1. \A g \in Handlers \ {h} : req'[g].s = req[g].s
    BY <1>3, StepStarts DEF Alike
  <2>2. \A g \in Handlers \ {h} : (req'[g].s # 0 /\ req'[g].s = req'[h].s) => req'[g].s \in crossed'
    BY <1>3, <2>1, StepStarts, IdleHasNone DEF Busy, At
  <2> QED BY <1>1, <2>1, <2>2 DEF VisitorsMeet
<1>4. ASSUME NEW h \in Handlers, GoesOn(h) PROVE VisitorsMeet'
  <2>1. /\ \A g \in Handlers \ {h} : req'[g].s = req[g].s
        /\ req'[h] = Idle \/ Follows(req[h], req'[h])
    BY <1>4, StepOn
  <2>2. \A g \in Handlers : req[g].s # Len(session) + 1
    <3>1. TAKE g \in Handlers
    <3>2. req[g].s \in Nat /\ req[g].s <= Len(session) /\ Len(session) \in Nat
      BY OneRequest, Lengths DEF Basic, Request, Refers, RefersWithin
    <3> QED BY <3>2
  <2>3. req'[h].s \in {0, req[h].s, Len(session) + 1}
    <3>1. Idle.s = 0
      BY DEF Idle
    <3>2. CASE Follows(req[h], req'[h]) /\ req[h].pc \in {"session", "answer"}
      <4>1. CreateSession(h) \/ Resume(h) \/ Fail(h)
        BY <1>4, <3>2 DEF GoesOn, LoadTicket, Sync, FindContact, WriteContact, EnsureIdentity,
           FindEligible, CreateTicket, AppendMessage, CreateRecovery, Prove, CreateIdentity,
           Supersede, Disconnect, Consume, Join, LoadBound, Emit, Drop, MissSockets, At
      <4>2. CASE Fail(h)
        BY <3>1, <4>2, FollowsEnd DEF Fail
      <4> QED BY <3>1, <4>1, <4>2, StepReads
    <3> QED BY <2>1, <3>1, <3>2 DEF Follows
  <2> QED BY <1>1, <2>1, <2>2, <2>3 DEF VisitorsMeet
<1> QED BY <1>2, <1>3, <1>4, NextIs

(* Only the saving of a session moves it to another ticket.                *)
LEMMA TicketKept ==
    ASSUME Basic, NEW h \in Handlers, GoesOn(h), NEW s \in Sessions, ~(Sync(h) /\ req[h].s = s)
    PROVE  session'[s].ticket = session[s].ticket
<1>1. CASE Sync(h)
  BY <1>1, SyncSaves
<1>2. CASE CreateSession(h)
  <2>1. req[h].t \in Nat /\ req[h].c \in Nat /\ req[h].r \in Nat
    BY OneRequest DEF Request
  <2> QED BY <1>2, <2>1, SessionAdded DEF CreateSession
<1>3. CASE Resume(h)
  <2>1. CASE AddSession(0, 0, 0)
    BY <2>1, 0 \in Nat, SessionAdded
  <2> QED BY <1>3, <2>1 DEF Resume
<1>4. CASE Supersede(h)
  BY <1>4, SupersedeEnds
<1> QED BY <1>1, <1>2, <1>3, <1>4, GoesOnKeeps

LEMMA StaysStep ==
    ASSUME Basic, VisitorsStay, [Next]_vars
    PROVE  VisitorsStay'
<1>1. VisitorsMeet' /\ crossed \subseteq crossed'
  BY VisitorsMeetStep, StepLater DEF VisitorsStay, Later
<1>2. ASSUME NEW g \in Handlers, Alike(req'[g], req[g]),
             req[g].s \notin crossed' /\ req[g].s \in Sessions
                => session'[req[g].s].ticket = session[req[g].s].ticket
      PROVE  Stays(req[g])'
  <2>1. Stays(req[g])
    BY DEF VisitorsStay
  <2>2. req[g].pc \in Visiting => req[g].s \in Sessions
    BY OneRequest, Lengths DEF Basic, Request, Refers, RefersWithin
  <2> QED BY <1>1, <1>2, <2>1, <2>2 DEF Stays, Alike, Visiting
<1>3. CASE Changes \/ UNCHANGED vars
  <2>1. UNCHANGED <<session, req>>
    BY <1>3, StepChanges
  <2>2. \A g \in Handlers : Stays(req[g])'
    BY <1>2, <2>1 DEF Alike
  <2> QED BY <1>1, <2>2 DEF VisitorsStay
<1>4. ASSUME NEW h \in Handlers, Starts(h) PROVE VisitorsStay'
  <2>1. /\ \A g \in Handlers \ {h} : Alike(req'[g], req[g])
        /\ \A s \in Sessions : session'[s] = session[s]
    BY <1>4, StepStarts, StartsKeep
  <2>2. \A g \in Handlers \ {h} : Stays(req[g])'
    BY <1>2, <2>1
  <2>3. Stays(req[h])'
    <3>1. Begun(req'[h])
      BY <1>4, StepStarts
    <3> QED BY <3>1 DEF Begun, Stays, Visiting, Message
  <2> QED BY <1>1, <2>2, <2>3 DEF VisitorsStay
<1>5. ASSUME NEW h \in Handlers, GoesOn(h) PROVE VisitorsStay'
  <2> DEFINE q == req[h]
             r == req'[h]
  <2>1. /\ \A g \in Handlers \ {h} : req'[g] = req[g]
        /\ r = Idle \/ Follows(q, r)
    BY <1>5, StepOn
  <2>2. ASSUME NEW g \in Handlers \ {h} PROVE Stays(req[g])'
    <3>1. SUFFICES ASSUME req[g].s \notin crossed', req[g].s \in Sessions
                   PROVE  session'[req[g].s].ticket = session[req[g].s].ticket
      BY <1>2, <2>1 DEF Alike
    <3>2. req[g].s # req[h].s
      <4>1. req[g].s # 0
        BY <3>1, OneSession
      <4> QED BY <1>1, <3>1, <4>1 DEF VisitorsStay, VisitorsMeet
    <3> QED BY <1>5, <3>1, <3>2, TicketKept
  <2>3. Stays(q) /\ q \in Request /\ Refers(q) /\ OpAt(q)
    BY OneRequest DEF VisitorsStay
  <2>4. Stays(req[h])'
    <3>1. CASE r = Idle
      <4>1. Idle.pc = "idle"
        BY DEF Idle
      <4> QED BY <3>1, <4>1 DEF Stays, Visiting, Message
    <3>2. CASE Follows(q, r) /\ q.pc = "answer"
      <4>1. r.pc = "load" /\ r # Idle
        <5>1. Idle.pc = "idle"
          BY DEF Idle
        <5> QED BY <3>2, <5>1 DEF Follows, Edges
      <4>2. Resume(h)
        <5>1. Resume(h) \/ Fail(h)
          BY <1>5, <3>2 DEF GoesOn, LoadTicket, Sync, FindContact, WriteContact,
             EnsureIdentity, FindEligible, CreateTicket, AppendMessage, CreateRecovery, Prove,
             CreateIdentity, CreateSession, Supersede, Disconnect, Consume, Join, LoadBound,
             Emit, Drop, MissSockets, At
        <5> QED BY <4>1, <5>1, FollowsEnd DEF Fail
      <4>3. CASE Live(q.s)
        BY <4>1, <4>2, <4>3, StepReads DEF Stays
      <4>4. CASE ~Live(q.s)
        <5>1. r.s = Len(session) + 1 /\ AddSession(0, 0, 0) /\ r.loaded.ticket = q.loaded.ticket
          BY <4>1, <4>2, <4>4, StepReads
        <5>2. q.loaded.ticket = 0
          BY <2>3, <3>2 DEF OpAt, Visiting, Message
        <5>3. session'[r.s] = NewSession(0, 0, 0)
          BY <5>1, 0 \in Nat, SessionAdded
        <5>4. session'[r.s].ticket = 0
          BY <5>3 DEF NewSession
        <5> QED BY <4>1, <5>1, <5>2, <5>4 DEF Stays
      <4> QED BY <4>3, <4>4
    <3>3. CASE Follows(q, r) /\ q.pc # "answer"
      <4>1. r.loaded = q.loaded /\ (q.pc # "session" => r.s = q.s)
        BY <3>3 DEF Follows
      <4>2. ASSUME r.pc \in Visiting, r.s \notin crossed'
            PROVE  r.loaded.ticket = session'[r.s].ticket
        <5>1. q.pc \in Visiting /\ ~Sync(h)
          <6>1. Idle.pc = "idle"
            BY DEF Idle
          <6> QED BY <3>3, <4>2, <6>1, FollowsEnd DEF Follows, Edges, Visiting, Message, Sync
        <5>2. r.s = q.s
          BY <4>1, <5>1 DEF Visiting, Message
        <5>3. q.s \in Sessions
          BY <2>3, <5>1, Lengths DEF Basic, Request, Refers, RefersWithin
        <5>4. session'[q.s].ticket = session[q.s].ticket
          BY <1>5, <5>1, <5>3, TicketKept
        <5> QED BY <1>1, <2>3, <4>1, <4>2, <5>1, <5>2, <5>4 DEF Stays
      <4>3. ASSUME r.pc = "sync", r.loaded.ticket # 0 PROVE r.t # 0
        <5>1. q.pc \in {"load", "append", "create"}
          BY <3>3, <4>3 DEF Follows, Edges
        <5>2. CASE q.pc = "append"
          BY <2>3, <3>3, <5>2 DEF Follows, Refers, RefersWithin
        <5>3. CASE q.pc \in {"load", "create"}
          <6>1. LoadTicket(h) \/ CreateTicket(h) \/ Fail(h)
            BY <1>5, <5>3 DEF GoesOn, Resume, Sync, FindContact, WriteContact,
             EnsureIdentity, FindEligible, AppendMessage, CreateRecovery, Prove,
             CreateIdentity, CreateSession, Supersede, Disconnect, Consume, Join, LoadBound,
             Emit, Drop, MissSockets, At
          <6>2. CASE LoadTicket(h)
            BY <4>1, <4>3, <6>2, StepReads DEF CurrentTicket
          <6>3. CASE CreateTicket(h)
            <7>1. Len(ticket) \in Nat
              BY Lengths DEF Basic
            <7> QED BY <6>3, <7>1, StepReads
          <6>4. CASE Fail(h)
            BY <4>3, <6>4, FollowsEnd DEF Fail, Idle
          <6> QED BY <6>1, <6>2, <6>3, <6>4
        <5> QED BY <5>1, <5>2, <5>3
      <4> QED BY <4>2, <4>3 DEF Stays
    <3> QED BY <2>1, <3>1, <3>2, <3>3
  <2> QED BY <1>1, <2>2, <2>4 DEF VisitorsStay
<1> QED BY <1>3, <1>4, <1>5, NextIs

LEMMA AwayStep ==
    ASSUME Basic, VisitorsStay, [Next]_vars, NEW s \in Sessions, s \notin crossed',
           NEW n \in Nat, n <= Len(ticket), session[s].ticket # 0, Away(s, n)
    PROVE  /\ session'[s].ticket # 0 /\ Away(s, n)'
           /\ session[s].ticket # n => session'[s].ticket # n
<1> DEFINE Goal == /\ session'[s].ticket # 0 /\ Away(s, n)'
                   /\ session[s].ticket # n => session'[s].ticket # n
<1>1. VisitorsStay' /\ s \notin crossed /\ s # 0
  BY StaysStep, StepLater, OneSession DEF Later
<1>2. CASE Changes \/ UNCHANGED vars
  BY <1>2, StepChanges DEF Away
<1>3. ASSUME NEW h \in Handlers, Starts(h) PROVE Goal
  <2>1. session'[s] = session[s] /\ \A g \in Handlers \ {h} : Alike(req'[g], req[g])
    BY <1>3, StepStarts, StartsKeep
  <2>2. req'[h].pc \notin {"append", "sync"}
    <3>1. Begun(req'[h])
      BY <1>3, StepStarts
    <3> QED BY <3>1 DEF Begun
  <2> QED BY <2>1, <2>2 DEF Away, Alike
<1>4. ASSUME NEW h \in Handlers, GoesOn(h) PROVE Goal
  <2> DEFINE q == req[h]
             r == req'[h]
  <2>1. /\ \A g \in Handlers \ {h} : req'[g] = req[g]
        /\ r = Idle \/ Follows(q, r)
    BY <1>4, StepOn
  <2>2. Idle.pc = "idle" /\ Idle.s = 0
    BY DEF Idle
  <2>3. CASE Sync(h) /\ q.s = s
    <3>1. q.pc = "sync" /\ q.loaded.ticket = session[s].ticket /\ q.t # 0
      BY <1>1, <2>3 DEF Sync, At, VisitorsStay, Stays, Visiting
    <3>2. session'[s].ticket = SavedPath(session[s].ticket, q.loaded.ticket, q.t)
      BY <2>3, SyncSaves
    <3>3. session'[s].ticket = q.t
      BY <3>1, <3>2 DEF SavedPath
    <3>4. session[s].ticket # n => q.t # n
      BY <2>3, <3>1 DEF Away
    <3>5. \A g \in Handlers : req'[g].s # s
      <4>1. r = Idle
        BY <2>3, FollowsEnd DEF Sync
      <4>2. \A g \in Handlers \ {h} : req[g].s # s
        BY <1>1, <2>3 DEF VisitorsStay, VisitorsMeet
      <4> QED BY <1>1, <2>1, <2>2, <4>1, <4>2
    <3> QED BY <3>1, <3>3, <3>4, <3>5 DEF Away
  <2>4. CASE ~(Sync(h) /\ q.s = s)
    <3>1. session'[s].ticket = session[s].ticket
      BY <1>4, <2>4, TicketKept
    <3>2. ASSUME session[s].ticket # n, r.s = s, r.pc \in {"append", "sync"} PROVE r.t # n
      <4>1. Follows(q, r) /\ q.pc \in {"eligible", "load", "append", "create"}
        BY <2>1, <2>2, <3>2 DEF Follows, Edges
      <4>2. q.s = s
        BY <3>2, <4>1 DEF Follows
      <4>3. q.loaded.ticket = session[s].ticket
        BY <1>1, <4>1, <4>2 DEF VisitorsStay, Stays, Visiting, Message
      <4>4. CASE q.pc = "append"
        BY <3>2, <4>1, <4>2, <4>4 DEF Away, Follows
      <4>5. CASE q.pc \in {"eligible", "load", "create"}
        <5>1. FindEligible(h) \/ LoadTicket(h) \/ CreateTicket(h) \/ Fail(h)
          BY <1>4, <4>5 DEF GoesOn, Resume, Sync, FindContact, WriteContact, EnsureIdentity,
             AppendMessage, CreateRecovery, Prove, CreateIdentity, CreateSession, Supersede,
             Disconnect, Consume, Join, LoadBound, Emit, Drop, MissSockets, At
        <5>2. CASE Fail(h)
          BY <2>2, <3>2, <5>2, FollowsEnd DEF Fail
        <5>3. CASE FindEligible(h) \/ LoadTicket(h)
          <6>1. r.t \in CurrentTicket(q.s, q.loaded.ticket)
            BY <3>2, <5>3, StepReads
          <6> QED BY <3>2, <4>3, <6>1 DEF CurrentTicket
        <5>4. CASE CreateTicket(h)
          <6>1. r.t = Len(ticket) + 1 /\ Len(ticket) \in Nat
            BY <5>4, StepReads, Lengths DEF Basic
          <6> QED BY <6>1
        <5> QED BY <5>1, <5>2, <5>3, <5>4
      <4> QED BY <4>1, <4>4, <4>5
    <3> QED BY <2>1, <3>1, <3>2 DEF Away
  <2> QED BY <2>3, <2>4
<1> QED BY <1>2, <1>3, <1>4, NextIs

(* The same holds of what the requests hold.                               *)
LEMMA HeldKept ==
    ASSUME Basic, VisitorsStay, HeldEnd, [Next]_vars, NEW h \in Handlers, req[h].r # 0,
           NEW s \in req[h].held \ crossed', NEW n, n = recovery[req[h].r].ticket
    PROVE  /\ recovery'[req[h].r].ticket = n
           /\ HeldIn(req[h], s, n)
           /\ s \in Sessions' /\ n # 0 /\ session'[s].ticket # 0 /\ Away(s, n)'
           /\ session[s].ticket # n => session'[s].ticket # n
<1>1. Later
  BY StepLater
<1>2. HeldIn(req[h], s, n)
  BY <1>1 DEF HeldEnd, Held, Later
<1>3. req[h].r \in Recoveries
  BY OneRequest, Lengths DEF Basic, Request, Refers, RefersWithin
<1>4. n \in Nat /\ n <= Len(ticket)
  BY <1>3, OneRecovery
<1>5. s \in Sessions /\ n # 0 /\ session[s].ticket # 0 /\ Away(s, n)
  BY <1>2 DEF HeldIn
<1>6. /\ session'[s].ticket # 0 /\ Away(s, n)'
      /\ session[s].ticket # n => session'[s].ticket # n
  BY <1>4, <1>5, AwayStep
<1> QED BY <1>1, <1>2, <1>3, <1>5, <1>6 DEF Later

LEMMA HeldAlike ==
    ASSUME Basic, VisitorsStay, HeldEnd, [Next]_vars, NEW g \in Handlers,
           Alike(req'[g], req[g])
    PROVE  Held(req[g])'
<1>1. Later
  BY StepLater
<1>2. /\ req'[g].r = req[g].r /\ req'[g].pc = req[g].pc /\ req'[g].held = req[g].held
      /\ req'[g].s = req[g].s
  BY DEF Alike
<1>3. (req'[g].r = 0 /\ req'[g].pc \in {"join", "answer"}) => req'[g].held = {}
  BY <1>2 DEF HeldEnd, Held
<1>4. ASSUME req[g].r # 0, NEW s \in req[g].held \ crossed'
      PROVE  HeldIn(req[g], s, recovery[req[g].r].ticket)'
  <2>1. PICK n : n = recovery[req[g].r].ticket
    OBVIOUS
  <2>2. /\ recovery'[req[g].r].ticket = n
        /\ HeldIn(req[g], s, n)
        /\ s \in Sessions' /\ n # 0 /\ session'[s].ticket # 0 /\ Away(s, n)'
        /\ session[s].ticket # n => session'[s].ticket # n
    BY <1>4, <2>1, HeldKept
  <2>3. req[g].pc = "supersede" => req[g].s # s
    BY <2>2 DEF HeldIn
  <2>4. (req[g].pc \notin Using \cup {"supersede"} /\ session'[s].live) => session'[s].ticket # n
    BY <1>1, <2>2 DEF HeldIn, Later, Live
  <2>5. HeldIn(req[g], s, n)'
    BY <1>2, <2>2, <2>3, <2>4 DEF HeldIn, Live
  <2> QED BY <1>2, <2>2, <2>5
<1> QED BY <1>2, <1>3, <1>4 DEF Held

LEMMA HeldGoes ==
    ASSUME Basic, VisitorsStay, HeldEnd, [Next]_vars, NEW h \in Handlers, GoesOn(h)
    PROVE  Held(req[h])'
<1> DEFINE q == req[h]
           r == req'[h]
<1>1. Later
  BY StepLater
<1>2. r = Idle \/ Follows(q, r)
  BY StepOn
<1>3. CASE r = Idle
  <2>1. Idle.pc = "idle" /\ Idle.r = 0
    BY DEF Idle
  <2> QED BY <1>3, <2>1 DEF Held
<1>4. CASE Follows(q, r) /\ r # Idle
  <2>1. r.r = q.r /\ r.held = q.held /\ <<q.pc, r.pc>> \in Edges
    BY <1>4 DEF Follows
  <2>2. (r.r = 0 /\ r.pc \in {"join", "answer"}) => r.held = {}
    <3>1. q.pc \in Replacing => q.r # 0
      BY OneRequest DEF Refers, RefersWithin
    <3>2. r.pc \in {"join", "answer"} => q.pc \in {"consume", "join"}
      BY <2>1 DEF Edges
    <3> QED BY <2>1, <3>1, <3>2 DEF HeldEnd, Held, Replacing
  <2>3. ASSUME q.r # 0, NEW s \in q.held \ crossed'
        PROVE  HeldIn(req[h], s, recovery[req[h].r].ticket)'
    <3>1. PICK n : n = recovery[q.r].ticket
      OBVIOUS
    <3>2. /\ recovery'[q.r].ticket = n
          /\ HeldIn(q, s, n)
          /\ s \in Sessions' /\ n # 0 /\ session'[s].ticket # 0 /\ Away(s, n)'
          /\ session[s].ticket # n => session'[s].ticket # n
      BY <2>3, <3>1, HeldKept
    <3>3. s \in Sessions
      BY <3>2 DEF HeldIn
    <3>4. r.pc = "supersede" => r.s # s
      <4>1. SUFFICES ASSUME r.pc = "supersede" PROVE r.s # s
        OBVIOUS
      <4>2. q.pc = "session"
        BY <2>1, <4>1 DEF Edges
      <4>3. CreateSession(h)
        <5>1. CreateSession(h) \/ Fail(h)
          BY <4>2 DEF GoesOn, LoadTicket, Sync, FindContact, WriteContact, EnsureIdentity,
             FindEligible, CreateTicket, AppendMessage, CreateRecovery, Prove, CreateIdentity,
             Supersede, Disconnect, Consume, Resume, Join, LoadBound, Emit, Drop, MissSockets,
             At
        <5> QED BY <1>4, <5>1, FollowsEnd DEF Fail
      <4>4. r.s = Len(session) + 1 /\ s <= Len(session) /\ s \in Nat /\ Len(session) \in Nat
        BY <3>3, <4>3, StepReads, OneSession, Lengths DEF Basic
      <4> QED BY <4>4
    <3>5. ASSUME r.pc \notin Using \cup {"supersede"}, session'[s].live
          PROVE  session'[s].ticket # n
      <4>1. CASE q.pc \notin Using \cup {"supersede"}
        BY <1>1, <3>2, <3>3, <3>5, <4>1 DEF HeldIn, Later, Live
      <4>2. CASE q.pc \in Using \cup {"supersede"}
        <5>1. q.pc = "supersede"
          BY <2>1, <3>5, <4>2 DEF Edges, Using
        <5>2. Supersede(h)
          <6>1. Supersede(h) \/ Fail(h)
            BY <5>1 DEF GoesOn, LoadTicket, Sync, FindContact, WriteContact, EnsureIdentity,
             FindEligible, CreateTicket, AppendMessage, CreateRecovery, Prove, CreateIdentity,
             CreateSession, Disconnect, Consume, Resume, Join, LoadBound, Emit, Drop,
             MissSockets, At
          <6> QED BY <1>4, <6>1, FollowsEnd DEF Fail
        <5>3. session[s].live /\ s \notin Superseded(h)
          BY <3>3, <3>5, <5>2, SupersedeEnds
        <5>4. q.s # s
          BY <3>2, <5>1 DEF HeldIn
        <5>5. session[s].ticket # n
          BY <3>1, <3>2, <3>3, <5>3, <5>4 DEF Superseded, Live
        <5> QED BY <3>2, <5>5
      <4> QED BY <4>1, <4>2
    <3>6. HeldIn(req[h], s, n)'
      BY <3>2, <3>4, <3>5 DEF HeldIn, Live
    <3> QED BY <2>1, <3>2, <3>6
  <2> QED BY <2>1, <2>2, <2>3 DEF Held
<1> QED BY <1>2, <1>3, <1>4

LEMMA HeldEndStep ==
    ASSUME Basic, VisitorsStay, HeldEnd, [Next]_vars
    PROVE  HeldEnd'
<1>1. CASE Changes \/ UNCHANGED vars
  BY <1>1, StepChanges, HeldAlike DEF HeldEnd, Alike
<1>2. ASSUME NEW h \in Handlers, Starts(h) PROVE HeldEnd'
  <2>1. Held(req[h])'
    <3>1. Begun(req'[h]) /\ Later
      BY <1>2, StepStarts, StepLater
    <3>2. CASE req'[h].r = 0
      BY <3>1, <3>2 DEF Held, Begun
    <3>3. CASE req'[h].r # 0
      <4> DEFINE n == recovery[req'[h].r].ticket
      <4>1. /\ req'[h].pc = "prove" /\ req'[h].r \in Recoveries
            /\ \A s \in req'[h].held : s \in Sessions /\ n # 0 /\ session[s].ticket = n
        BY <3>1, <3>3 DEF Begun
      <4>2. recovery'[req'[h].r].ticket = n
        BY <3>1, <4>1 DEF Later
      <4>3. \A s \in Sessions : s \in Sessions' /\ session'[s] = session[s]
        BY <1>2, StartsKeep
      <4>4. ASSUME NEW s \in req'[h].held PROVE HeldIn(req[h], s, recovery[req[h].r].ticket)'
        BY <4>1, <4>2, <4>3 DEF HeldIn, Away, Using
      <4> QED BY <3>3, <4>1, <4>4 DEF Held
    <3> QED BY <3>2, <3>3
  <2>2. \A g \in Handlers \ {h} : Alike(req'[g], req[g])
    BY <1>2, StepStarts
  <2> QED BY <2>1, <2>2, HeldAlike DEF HeldEnd
<1>3. ASSUME NEW h \in Handlers, GoesOn(h) PROVE HeldEnd'
  <2>1. \A g \in Handlers \ {h} : Alike(req'[g], req[g])
    BY <1>3, StepOn DEF Alike
  <2> QED BY <1>3, <2>1, HeldAlike, HeldGoes DEF HeldEnd
<1> QED BY <1>1, <1>2, <1>3, NextIs

LEMMA ReplacesInit == Init => UsesCounted /\ AloneContinues /\ VisitorsStay /\ HeldEnd
<1> SUFFICES ASSUME Init PROVE UsesCounted /\ AloneContinues /\ VisitorsStay /\ HeldEnd
  OBVIOUS
<1>1. Sessions = {} /\ \A h \in Handlers : req[h] = Idle
  BY DEF Init, Sessions
<1>2. Idle.pc = "idle" /\ Idle.r = 0 /\ Idle.s = 0 /\ Idle.op # "continue"
  BY DEF Idle, None
<1>3. UsesCounted
  BY <1>1, <1>2 DEF UsesCounted, UsesMeet, OneSessionPerRecovery, Unused, Using
<1>4. AloneContinues
  BY <1>1, <1>2 DEF AloneContinues, Alone, At
<1>5. VisitorsStay
  BY <1>1, <1>2 DEF VisitorsStay, VisitorsMeet, Stays, Visiting, Message
<1>6. HeldEnd
  BY <1>1, <1>2 DEF HeldEnd, Held
<1> QED BY <1>3, <1>4, <1>5, <1>6

(* A recovery opens one session, unless two uses of it overlapped or one   *)
(* failed; when it is used up none of the sessions it replaces is still    *)
(* live in its conversation; and a visitor who continues alone is answered *)
(* with it: for any number of visitors, tickets, records and requests      *)
(* (loadRecoveryRecordByTokenOrThrow, invalidateSupersededRecoverySessions,*)
(* consumeRecoveryRecord, continueRecoveredWidgetConversation).            *)
THEOREM RecoveriesReplace == Spec => []RecoveryReplaces
<1> DEFINE IInv == Basic /\ UsesCounted /\ AloneContinues /\ VisitorsStay /\ HeldEnd
<1>1. Init => IInv
  BY BasicInit, ReplacesInit
<1>2. IInv /\ [Next]_vars => IInv'
  BY BasicStep, UsesCountedStep, AloneContinuesStep, StaysStep, HeldEndStep
<1>3. IInv => RecoveryReplaces
  <2> SUFFICES ASSUME IInv PROVE RecoveryReplaces
    OBVIOUS
  <2>1. OneSessionPerRecovery
    BY DEF UsesCounted
  <2>2. SupersededEnd
    <3>1. ASSUME NEW h \in Handlers, At(h, "answer"), NEW s \in req[h].held \ crossed, Live(s)
          PROVE  session[s].ticket # recovery[req[h].r].ticket
      BY <3>1 DEF HeldEnd, Held, HeldIn, At, Using
    <3> QED BY <3>1 DEF SupersededEnd
  <2>3. AnswersWithConversation
    BY DEF AloneContinues, Continued, AnswersWithConversation
  <2> QED BY <2>1, <2>2, <2>3 DEF RecoveryReplaces
<1> QED BY <1>1, <1>2, <1>3, PTL DEF Spec

----------------------------------------------------------------------------
(* A visitor is in a conversation of his own.                              *)

(* Tickets keep whom they are of, and one is made for the request.         *)
LEMMA TicketMade ==
    ASSUME Basic, NEW h \in Handlers, CreateTicket(h)
    PROVE  /\ Tickets' = Tickets \cup {Len(ticket) + 1} /\ Len(ticket) + 1 \notin Tickets
           /\ \A t \in Tickets : ticket'[t] = ticket[t]
           /\ ticket'[Len(ticket) + 1].session = req[h].s
           /\ ticket'[Len(ticket) + 1].contact = req[h].c
<1> DEFINE q == req[h]
           d == [session |-> q.s, contact |-> q.c, status |-> "open", mailbox |-> q.mailbox]
<1>1. ticket \in Seq(TicketDoc) /\ Len(ticket) \in Nat /\ Tickets = 1 .. Len(ticket)
  BY Lengths DEF Basic, TypeInv
<1>2. ticket' = Append(ticket, d) /\ d.session = q.s /\ d.contact = q.c
  BY DEF CreateTicket
<1> HIDE DEF d
<1> QED BY <1>1, <1>2 DEF Tickets

LEMMA TicketMarked ==
    ASSUME Basic, NEW t \in Tickets, NEW status, ticket' = [ticket EXCEPT ![t].status = status]
    PROVE  /\ Tickets' = Tickets
           /\ \A x \in Tickets : /\ ticket'[x].session = ticket[x].session
                                 /\ ticket'[x].contact = ticket[x].contact
<1> DEFINE d == [ticket[t] EXCEPT !.status = status]
<1>1. ticket \in Seq(TicketDoc)
  BY DEF Basic, TypeInv
<1>2. ticket' = [ticket EXCEPT ![t] = d] /\ d.session = ticket[t].session
      /\ d.contact = ticket[t].contact
  BY OneTicket DEF TicketDoc
<1> HIDE DEF d
<1> QED BY <1>1, <1>2 DEF Tickets

LEMMA TicketsSame ==
    ASSUME Basic, \/ Changes \/ UNCHANGED vars
                  \/ \E h \in Handlers : Starts(h) \/ (GoesOn(h) /\ ~CreateTicket(h))
    PROVE  /\ Tickets' = Tickets
           /\ \A x \in Tickets : /\ ticket'[x].session = ticket[x].session
                                 /\ ticket'[x].contact = ticket[x].contact
<1>1. CASE UNCHANGED ticket
  BY <1>1 DEF Tickets
<1>2. CASE ChangeStatus
  BY <1>2, TicketMarked DEF ChangeStatus
<1>3. ASSUME NEW h \in Handlers, AppendMessage(h)
      PROVE  UNCHANGED ticket \/ ticket' = [ticket EXCEPT ![req[h].t].status = "open"]
  BY <1>3 DEF AppendMessage
<1>4. ASSUME NEW h \in Handlers, AppendMessage(h) PROVE req[h].t \in Tickets
  <2>1. req[h].t \in Nat /\ req[h].t # 0 /\ req[h].t <= Len(ticket)
    BY <1>4, OneRequest DEF AppendMessage, At, Request, Refers, RefersWithin
  <2> QED BY <2>1, Lengths DEF Basic
<1>5. ASSUME NEW h \in Handlers, AppendMessage(h) PROVE UNCHANGED ticket \/
        \E t \in Tickets : ticket' = [ticket EXCEPT ![t].status = "open"]
  BY <1>3, <1>4, <1>5
<1>6. CASE Changes \/ UNCHANGED vars
  BY <1>1, <1>2, <1>6 DEF Changes, Expire, Activate, ChangeMailbox, vars, documents
<1>7. ASSUME NEW h \in Handlers, Starts(h) PROVE UNCHANGED ticket
  BY <1>7 DEF Starts, BeginInitialize, BeginMessage, BeginVerify, BeginUse, BeginSubscribe,
     BeginPublish, BeginDeactivate, documents
<1>8. ASSUME NEW h \in Handlers, GoesOn(h), ~CreateTicket(h), ~AppendMessage(h)
      PROVE  UNCHANGED ticket
  BY <1>8 DEF GoesOn, LoadTicket, Sync, FindContact, WriteContact, EnsureIdentity,
     FindEligible, CreateRecovery, Prove, CreateIdentity, CreateSession,
     Supersede, Disconnect, Consume, Resume, Join, LoadBound, Emit, Drop, Fail, MissSockets,
     documents
<1> QED BY <1>1, <1>5, <1>6, <1>7, <1>8, TicketMarked

(* Tickets and records keep what they were made with.                      *)
Lasting ==
    /\ Tickets \subseteq Tickets'
    /\ \A t \in Tickets : /\ ticket'[t].session = ticket[t].session
                          /\ ticket'[t].contact = ticket[t].contact
    /\ \A n \in Recoveries : /\ recovery'[n].email = recovery[n].email
                             /\ recovery'[n].contact = recovery[n].contact
                             /\ recovery'[n].ticket = recovery[n].ticket

(* A verification makes a record of what it has found.                     *)
LEMMA RecordMade ==
    ASSUME Basic, NEW h \in Handlers, CreateRecovery(h)
    PROVE  LET d == recovery'[Len(recovery) + 1]
           IN  /\ Recoveries' = Recoveries \cup {Len(recovery) + 1}
               /\ \A n \in Recoveries : recovery'[n] = recovery[n]
               /\ d.email = req[h].e /\ d.contact = req[h].c /\ d.ticket = req[h].t
<1> DEFINE q == req[h]
           d == [email |-> q.e, contact |-> q.c, session |-> q.s, ticket |-> q.t,
                 consumed |-> FALSE, expired |-> FALSE]
<1>1. recovery \in Seq(RecoveryDoc) /\ Len(recovery) \in Nat /\ Recoveries = 1 .. Len(recovery)
  BY Lengths DEF Basic, TypeInv
<1>2. recovery' = Append(recovery, d) /\ d.email = q.e /\ d.contact = q.c /\ d.ticket = q.t
  BY DEF CreateRecovery
<1> HIDE DEF d
<1> QED BY <1>1, <1>2 DEF Recoveries

LEMMA StepLasts ==
    ASSUME Basic, [Next]_vars
    PROVE  Lasting
<1>1. /\ Tickets \subseteq Tickets'
      /\ \A t \in Tickets : /\ ticket'[t].session = ticket[t].session
                            /\ ticket'[t].contact = ticket[t].contact
  BY TicketMade, TicketsSame, NextIs
<1>2. \A n \in Recoveries : /\ recovery'[n].email = recovery[n].email
                            /\ recovery'[n].contact = recovery[n].contact
                            /\ recovery'[n].ticket = recovery[n].ticket
  <2>1. CASE UNCHANGED recovery
    BY <2>1
  <2>2. CASE Expire
    BY <2>2, RecordMarked DEF Expire
  <2>3. CASE UNCHANGED vars \/ Activate \/ ChangeMailbox \/ ChangeStatus
    BY <2>1, <2>3 DEF vars, documents, Activate, ChangeMailbox, ChangeStatus
  <2>4. ASSUME NEW h \in Handlers, Consume(h) PROVE \E n \in Recoveries :
           recovery' = [recovery EXCEPT ![n].consumed = TRUE]
    <3>1. req[h].r \in Recoveries
      BY <2>4, OneRequest, Lengths DEF Basic, Consume, At, Request, Refers, RefersWithin, Replacing
    <3> QED BY <2>4, <3>1 DEF Consume
  <2>5. ASSUME NEW h \in Handlers, GoesOn(h), ~Consume(h), ~CreateRecovery(h)
        PROVE  UNCHANGED recovery
    BY <2>5, GoesOnKeeps
  <2> QED BY <2>1, <2>2, <2>3, <2>4, <2>5, NextIs, RecordMarked, RecordMade, StartsKeep DEF Changes
<1> QED BY <1>1, <1>2 DEF Lasting

(* Contacts are made and given an address by WriteContact alone, and       *)
(* identities by it and by CreateIdentity: Prove finds an address there.   *)
LEMMA ContactsSame ==
    ASSUME Basic, \/ Changes \/ UNCHANGED vars
                  \/ \E h \in Handlers : \/ Starts(h)
                                         \/ GoesOn(h) /\ ~WriteContact(h) /\ ~Prove(h)
    PROVE  UNCHANGED <<contact, borne>>
<1>1. CASE Changes \/ UNCHANGED vars
  BY <1>1 DEF Changes, Expire, Activate, ChangeMailbox, ChangeStatus, vars, documents, history
<1>2. ASSUME NEW h \in Handlers, Starts(h) PROVE UNCHANGED <<contact, borne>>
  BY <1>2 DEF Starts, BeginInitialize, BeginMessage, BeginVerify, BeginUse, BeginSubscribe,
     BeginPublish, BeginDeactivate, documents
<1>3. ASSUME NEW h \in Handlers, GoesOn(h), ~WriteContact(h), ~Prove(h)
      PROVE  UNCHANGED <<contact, borne>>
  BY <1>3 DEF GoesOn, LoadTicket, Sync, FindContact, EnsureIdentity,
     FindEligible, CreateTicket, AppendMessage, CreateRecovery, CreateIdentity, CreateSession,
     Supersede, Disconnect, Consume, Resume, Join, LoadBound, Emit, Drop, Fail, MissSockets,
     documents, history
<1> QED BY <1>1, <1>2, <1>3

LEMMA IdentitiesSame ==
    ASSUME Basic, \/ Changes \/ UNCHANGED vars
                  \/ \E h \in Handlers : \/ Starts(h)
                                         \/ GoesOn(h) /\ ~EnsureIdentity(h) /\ ~CreateIdentity(h)
    PROVE  UNCHANGED identity
<1>1. CASE Changes \/ UNCHANGED vars
  BY <1>1 DEF Changes, Expire, Activate, ChangeMailbox, ChangeStatus, vars, documents
<1>2. ASSUME NEW h \in Handlers, Starts(h) PROVE UNCHANGED identity
  BY <1>2 DEF Starts, BeginInitialize, BeginMessage, BeginVerify, BeginUse, BeginSubscribe,
     BeginPublish, BeginDeactivate, documents
<1>3. ASSUME NEW h \in Handlers, GoesOn(h), ~EnsureIdentity(h), ~CreateIdentity(h)
      PROVE  UNCHANGED identity
  BY <1>3 DEF GoesOn, LoadTicket, Sync, FindContact, WriteContact, Prove,
     FindEligible, CreateTicket, AppendMessage, CreateRecovery, CreateSession,
     Supersede, Disconnect, Consume, Resume, Join, LoadBound, Emit, Drop, Fail, MissSockets,
     documents
<1> QED BY <1>1, <1>2, <1>3

(* What is awaited tells which step it is.                                 *)
LEMMA WhichStep ==
    ASSUME Basic, NEW h \in Handlers, GoesOn(h), ~At(h, "disconnect"), ~At(h, "drop"),
           req'[h] # Idle
    PROVE  /\ At(h, "load") => LoadTicket(h)
           /\ At(h, "contact") => FindContact(h)
           /\ At(h, "write") => WriteContact(h)
           /\ At(h, "identify") => EnsureIdentity(h)
           /\ At(h, "eligible") => FindEligible(h)
           /\ At(h, "create") => CreateTicket(h)
           /\ At(h, "append") => AppendMessage(h)
           /\ At(h, "session") => CreateSession(h)
           /\ At(h, "answer") => Resume(h)
<1>1. ~Fail(h)
  BY FollowsEnd DEF Fail
<1> QED BY <1>1 DEF GoesOn, LoadTicket, Sync, FindContact, WriteContact, EnsureIdentity,
   FindEligible, CreateTicket, AppendMessage, CreateRecovery, Prove, CreateIdentity,
   CreateSession, Supersede, Disconnect, Consume, Resume, Join, LoadBound, Emit, Drop,
   MissSockets, At

(* A lookup by an address finds one who has borne it, or nobody bears it.  *)
LEMMA LookupBorne ==
    ASSUME Basic, AddressesBorne, WidgetAssumption, NEW e \in Emails
    PROVE  /\ ContactByEmail(e) # 0 => Borne(ContactByEmail(e), e)
           /\ ContactByEmail(e) = 0 => \A c \in Contacts : contact[c] # e
           /\ \A c \in Known(e) : Borne(c, e)
           /\ Known(e) # {} => ContactByEmail(e) # 0
<1> DEFINE having == {c \in Contacts : contact[c] = e}
<1>1. Contacts = 1 .. Len(contact) /\ Len(contact) \in Nat /\ identity[e] \in Nat
  BY Lengths DEF Basic, TypeInv
<1>2. e # None
  BY DEF WidgetAssumption
<1>3. \A c \in having : Borne(c, e) /\ c # 0
  BY <1>1, <1>2 DEF AddressesBorne
<1>4. identity[e] # 0 => Borne(identity[e], e)
  BY DEF AddressesBorne
<1>5. identity[e] = 0 /\ having # {} => ContactByEmail(e) \in having
  <2>1. SUFFICES ASSUME identity[e] = 0, having # {} PROVE ContactByEmail(e) \in having
    OBVIOUS
  <2>2. having \in SUBSET Nat
    BY <1>1
  <2>3. PICK c \in having : \A d \in having : c <= d
    BY <2>1, <2>2, SmallestExists
  <2> QED BY <2>1, <2>3 DEF ContactByEmail
<1>6. /\ identity[e] = 0 /\ having = {} => ContactByEmail(e) = 0
      /\ identity[e] # 0 => ContactByEmail(e) = identity[e]
  BY DEF ContactByEmail
<1>7. \A c \in Known(e) : Borne(c, e) /\ (identity[e] # 0 \/ having # {})
  <2>1. TAKE c \in Known(e)
  <2>2. c \in Contacts /\ (contact[c] = e \/ identity[e] = c)
    BY DEF Known, BearsAddress
  <2> QED BY <1>1, <1>3, <1>4, <2>2
<1>8. ContactByEmail(e) = 0 => \A c \in Contacts : contact[c] # e
  <2>1. SUFFICES ASSUME ContactByEmail(e) = 0 PROVE having = {}
    OBVIOUS
  <2>2. identity[e] = 0
    BY <1>6, <2>1
  <2> QED BY <1>3, <1>5, <2>1, <2>2
<1> HIDE DEF having
<1> QED BY <1>3, <1>4, <1>5, <1>6, <1>7, <1>8

(* What FindContact has found.                                             *)
LEMMA FindReads ==
    ASSUME Basic, NEW h \in Handlers, FindContact(h)
    PROVE  LET q == req[h]
               r == req'[h]
           IN  /\ r.pc = "write" /\ r.s = q.s /\ r.loaded = q.loaded /\ r.write \in BOOLEAN
               /\ q.loaded.contact # 0 => /\ r.c = q.loaded.contact /\ r.c \in Contacts
                                          /\ ~r.write => r.e = contact[r.c]
               /\ r.write => /\ q.loaded.contact # 0 /\ q.e # None /\ r.e = q.e
                             /\ contact[r.c] = None /\ ContactByEmail(q.e) \in {0, r.c}
               /\ q.loaded.contact = 0 =>
                     /\ r.write = FALSE /\ r.e = q.e
                     /\ r.c = IF q.e = None THEN 0 ELSE ContactByEmail(q.e)
<1> DEFINE q == req[h]
           c == q.loaded.contact
           found == IF q.e = None THEN 0 ELSE ContactByEmail(q.e)
           fills == c # 0 /\ q.e # None /\ contact[c] = None /\ found \in {0, c}
           e == IF fills THEN q.e ELSE contact[c]
           own == [q EXCEPT !.c = c, !.pc = "write", !.write = fills, !.e = e]
           other == [q EXCEPT !.c = found, !.pc = "write", !.write = FALSE]
<1>1. TypeInv /\ q \in Request /\ req \in [Handlers -> Request] /\ Refers(q)
  BY OneRequest DEF Basic, TypeInv
<1>2. IF c # 0 THEN req'[h] = own ELSE req'[h] = other
  BY <1>1 DEF FindContact, Goto
<1>3. fills \in BOOLEAN
  OBVIOUS
<1>4. c # 0 => c \in Contacts
  BY <1>1, Lengths DEF Refers, RefersWithin, Request
<1>5. /\ fills => /\ c # 0 /\ q.e # None /\ e = q.e /\ contact[c] = None
                  /\ ContactByEmail(q.e) \in {0, c}
      /\ ~fills => e = contact[c]
  OBVIOUS
<1>6. found = IF q.e = None THEN 0 ELSE ContactByEmail(q.e)
  OBVIOUS
<1> HIDE DEF fills, e, found
<1>7. CASE c # 0
  <2>1. req'[h] = own
    BY <1>2, <1>7
  <2>2. /\ own.pc = "write" /\ own.s = q.s /\ own.loaded = q.loaded /\ own.write = fills
        /\ own.c = c /\ own.e = e
    BY <1>1 DEF Request
  <2> HIDE DEF own
  <2> QED BY <1>3, <1>4, <1>5, <1>7, <2>1, <2>2
<1>8. CASE c = 0
  <2>1. req'[h] = other
    BY <1>2, <1>8
  <2>2. /\ other.pc = "write" /\ other.s = q.s /\ other.loaded = q.loaded /\ other.write = FALSE
        /\ other.c = found /\ other.e = q.e
    BY <1>1 DEF Request
  <2> HIDE DEF other
  <2> QED BY <1>6, <1>8, <2>1, <2>2
<1> QED BY <1>7, <1>8

(* What WriteContact writes.                                               *)
LEMMA WriteMakes ==
    ASSUME Basic, NEW h \in Handlers, WriteContact(h)
    PROVE  LET q == req[h]
               r == req'[h]
           IN  /\ r.pc = "identify" /\ r.s = q.s /\ r.loaded = q.loaded /\ r.e = q.e
               /\ q.c = 0 => /\ r.c = Len(contact) + 1 /\ contact'[r.c] = q.e
                             /\ Contacts' = Contacts \cup {r.c} /\ r.c \notin Contacts
                             /\ \A c \in Contacts : contact'[c] = contact[c]
               /\ q.c # 0 => /\ r.c = q.c /\ q.c \in Contacts /\ Contacts' = Contacts
                             /\ \A c \in Contacts : contact'[c] = IF q.write /\ c = q.c THEN q.e
                                                                  ELSE contact[c]
<1> DEFINE q == req[h]
<1>1. /\ contact \in Seq(Emails \cup {None}) /\ Len(contact) \in Nat
      /\ Contacts = 1 .. Len(contact)
      /\ q \in Request /\ req \in [Handlers -> Request] /\ Refers(q)
  BY OneRequest, Lengths DEF Basic, TypeInv
<1>2. q.e \in Emails \cup {None} /\ q.c \in Nat /\ q.write \in BOOLEAN
  BY <1>1 DEF Request
<1>3. CASE q.c = 0
  <2> DEFINE n == Len(contact) + 1
             r == [q EXCEPT !.c = n, !.pc = "identify"]
  <2>1. contact' = Append(contact, q.e) /\ req'[h] = r
    BY <1>1, <1>3 DEF WriteContact, Goto
  <2>2. Contacts' = Contacts \cup {n} /\ n \notin Contacts /\ contact'[n] = q.e
        /\ \A c \in Contacts : contact'[c] = contact[c]
    BY <1>1, <1>2, <2>1 DEF Contacts
  <2>3. n = Len(contact) + 1
    OBVIOUS
  <2> HIDE DEF n
  <2>4. r.c = n /\ r.pc = "identify" /\ r.s = q.s /\ r.loaded = q.loaded /\ r.e = q.e
    BY <1>1 DEF Request
  <2> HIDE DEF r
  <2> QED BY <1>3, <2>1, <2>2, <2>3, <2>4
<1>4. CASE q.c # 0
  <2> DEFINE r == [q EXCEPT !.pc = "identify", !.write = FALSE]
  <2>1. /\ contact' = IF q.write THEN [contact EXCEPT ![q.c] = q.e] ELSE contact
        /\ req'[h] = r
    BY <1>1, <1>4 DEF WriteContact, Goto
  <2>2. q.c \in Contacts
    BY <1>1, <1>2, <1>4 DEF Refers, RefersWithin
  <2>3. /\ Contacts' = Contacts
        /\ \A c \in Contacts : contact'[c] = IF q.write /\ c = q.c THEN q.e ELSE contact[c]
    BY <1>1, <1>2, <2>1, <2>2 DEF Contacts
  <2>4. r.c = q.c /\ r.pc = "identify" /\ r.s = q.s /\ r.loaded = q.loaded /\ r.e = q.e
    BY <1>1 DEF Request
  <2> HIDE DEF r
  <2> QED BY <1>4, <2>1, <2>2, <2>3, <2>4
<1> QED BY <1>3, <1>4

(* The addresses that contacts bear, and have borne.                       *)
ContactsBorne ==
    /\ \A p \in borne : p[2] \in Emails /\ p[1] \in Contacts /\ contact[p[1]] # None
    /\ \A c \in Contacts : contact[c] # None => Borne(c, contact[c])

LEMMA ProveChangesNone ==
    ASSUME Basic, AddressesBorne, NEW h \in Handlers, Prove(h)
    PROVE  UNCHANGED contact /\ borne' = borne
<1> DEFINE q == req[h]
<1>1. q.pc = "prove" /\ q \in Request /\ Refers(q) /\ BorneBy(q)
  BY OneRequest DEF Prove, At, AddressesBorne
<1>2. q.r \in Recoveries /\ q.c = recovery[q.r].contact /\ q.e = recovery[q.r].email
  BY <1>1, Lengths DEF Basic, Request, Refers, RefersWithin, BorneBy, Using
<1>3. <<q.c, q.e>> \in borne
  BY <1>2 DEF AddressesBorne, Borne
<1>4. q.c \in Contacts /\ contact[q.c] # None
  BY <1>3 DEF AddressesBorne
<1>5. UNCHANGED contact
  BY <1>4 DEF Prove
<1>6. borne' = borne
  <2>1. Contacts' = Contacts
    BY <1>5 DEF Contacts
  <2>2. borne' = borne \cup {<<c, contact[c]>> : c \in {d \in Contacts : contact[d] # None}}
    BY <1>5, <2>1 DEF Prove, Bears
  <2>3. \A c \in {d \in Contacts : contact[d] # None} : <<c, contact[c]>> \in borne
    BY DEF AddressesBorne, Borne
  <2> QED BY <2>2, <2>3
<1> QED BY <1>5, <1>6

LEMMA WriteBears ==
    ASSUME Basic, AddressesBorne, WidgetAssumption, NEW h \in Handlers, WriteContact(h)
    PROVE  /\ ContactsBorne' /\ borne \subseteq borne'
           /\ req'[h].c # 0 /\ (req'[h].e # None => <<req'[h].c, req'[h].e>> \in borne')
<1> DEFINE q == req[h]
           r == req'[h]
<1>1. /\ q.pc = "write" /\ q \in Request /\ BorneBy(q) /\ Len(contact) \in Nat
      /\ Contacts = 1 .. Len(contact) /\ contact \in Seq(Emails \cup {None})
  BY OneRequest, Lengths DEF Basic, TypeInv, WriteContact, At, AddressesBorne
<1>2. q.e \in Emails \cup {None} /\ q.c \in Nat /\ q.write \in BOOLEAN
  BY <1>1 DEF Request
<1>3. borne' = borne \cup {<<c, contact'[c]>> : c \in {d \in Contacts' : contact'[d] # None}}
  BY DEF WriteContact, Bears
<1>4. /\ \A c \in Contacts' : contact'[c] \in Emails \cup {None}
      /\ Contacts \subseteq Contacts'
      /\ \A c \in Contacts : contact[c] # None => contact'[c] # None
  BY <1>1, <1>2, WriteMakes DEF BorneBy
<1>5. ContactsBorne'
  <2>1. \A p \in borne' : p[2] \in Emails /\ p[1] \in Contacts' /\ contact'[p[1]] # None
    <3>1. TAKE p \in borne'
    <3>2. CASE p \in borne
      BY <1>4, <3>2 DEF AddressesBorne
    <3>3. CASE p \notin borne
      <4>1. PICK c \in {d \in Contacts' : contact'[d] # None} : p = <<c, contact'[c]>>
        BY <1>3, <3>1, <3>3
      <4> QED BY <1>4, <4>1
    <3> QED BY <3>2, <3>3
  <2>2. \A c \in Contacts' : contact'[c] # None => <<c, contact'[c]>> \in borne'
    BY <1>3
  <2> QED BY <2>1, <2>2 DEF ContactsBorne, Borne
<1>6. r.c # 0 /\ r.e = q.e
  BY <1>1, <1>2, WriteMakes
<1>7. ASSUME r.e # None PROVE <<r.c, r.e>> \in borne'
  <2>1. CASE q.c = 0
    <3>1. r.c \in Contacts' /\ contact'[r.c] = r.e
      BY <2>1, WriteMakes
    <3> QED BY <1>3, <1>7, <3>1
  <2>2. CASE q.c # 0 /\ q.write
    <3>1. r.c \in Contacts' /\ contact'[r.c] = r.e
      BY <2>2, WriteMakes
    <3> QED BY <1>3, <1>7, <3>1
  <2>3. CASE q.c # 0 /\ ~q.write
    <3>1. r.c = q.c
      BY <2>3, WriteMakes
    <3>2. <<q.c, q.e>> \in borne
      BY <1>1, <1>6, <1>7, <2>3 DEF BorneBy, Borne
    <3> QED BY <1>3, <1>6, <3>1, <3>2
  <2> QED BY <1>2, <2>1, <2>2, <2>3
<1>8. borne \subseteq borne'
  BY <1>3
<1> QED BY <1>5, <1>6, <1>7, <1>8

LEMMA ContactsBorneStep ==
    ASSUME Basic, AddressesBorne, WidgetAssumption, [Next]_vars
    PROVE  ContactsBorne' /\ borne \subseteq borne'
<1>1. ASSUME UNCHANGED <<contact, borne>> PROVE ContactsBorne' /\ borne \subseteq borne'
  BY <1>1 DEF AddressesBorne, ContactsBorne, Borne, Contacts
<1>2. ASSUME NEW h \in Handlers, Prove(h) PROVE UNCHANGED <<contact, borne>>
  BY <1>2, ProveChangesNone
<1>3. CASE \E h \in Handlers : WriteContact(h)
  BY <1>3, WriteBears
<1> QED BY <1>1, <1>2, <1>3, ContactsSame, NextIs

(* A verification finds a contact, and a ticket of a contact, that have    *)
(* borne the address.                                                      *)
LEMMA VerifyFinds ==
    ASSUME Basic, AddressesBorne, WidgetAssumption, NEW h \in Handlers, BeginVerify(h)
    PROVE  /\ req'[h].pc = "record"
           /\ Borne(req'[h].c, req'[h].e) /\ TicketBorne(req'[h].t, req'[h].e)
<1>1. PICK e \in Emails :
         LET contacts == Known(e)
             known == Latest(touched, {s \in Sessions : session[s].contact \in contacts})
             t == LatestRecoverable(contacts)
             candidate == Latest(touched, {s \in Sessions : /\ t # 0 /\ session[s].ticket = t
                                                            /\ session[s].contact \in contacts})
             found == IF contacts = {} THEN 0 ELSE ContactByEmail(e)
             c == FirstOf(IF candidate = 0 THEN 0 ELSE session[candidate].contact,
                          IF known = 0 THEN 0 ELSE session[known].contact, found)
         IN  /\ known # 0 \/ t # 0
             /\ Begin(h, [Idle EXCEPT !.pc = "record", !.op = "verify", !.e = e, !.c = c, !.t = t,
                                      !.s = FirstOf(candidate, known, 0)])
  BY DEF BeginVerify
<1> DEFINE contacts == Known(e)
           known == Latest(touched, {s \in Sessions : session[s].contact \in contacts})
           t == LatestRecoverable(contacts)
           candidate == Latest(touched, {s \in Sessions : /\ t # 0 /\ session[s].ticket = t
                                                          /\ session[s].contact \in contacts})
           found == IF contacts = {} THEN 0 ELSE ContactByEmail(e)
           ofCandidate == IF candidate = 0 THEN 0 ELSE session[candidate].contact
           ofKnown == IF known = 0 THEN 0 ELSE session[known].contact
           c == FirstOf(ofCandidate, ofKnown, found)
           s == FirstOf(candidate, known, 0)
           r == [Idle EXCEPT !.pc = "record", !.op = "verify", !.e = e, !.c = c, !.t = t, !.s = s]
<1>2. known # 0 \/ t # 0
  BY <1>1
<1>3. Begin(h, r)
  BY <1>1
<1>4. known # 0 => ofKnown \in contacts
  BY LatestIn
<1>5. t # 0 => t \in Tickets /\ ticket[t].contact \in contacts
  BY LatestIn DEF LatestRecoverable
<1> HIDE DEF t
<1>6. candidate # 0 => ofCandidate \in contacts
  BY LatestIn
<1>7. contacts # {} => found = ContactByEmail(e)
  OBVIOUS
<1>8. ofCandidate = 0 \/ candidate # 0
  OBVIOUS
<1>9. ofKnown = 0 \/ known # 0
  OBVIOUS
<1>10. c = FirstOf(ofCandidate, ofKnown, found)
  OBVIOUS
<1>11. contacts = Known(e)
  OBVIOUS
<1> HIDE DEF contacts, known, candidate, found, ofCandidate, ofKnown, c, s
<1>12. contacts # {}
  BY <1>2, <1>4, <1>5
<1>13. found # 0 /\ Borne(found, e) /\ \A d \in contacts : Borne(d, e)
  BY <1>7, <1>11, <1>12, LookupBorne
<1>14. Borne(c, e)
  BY <1>4, <1>6, <1>8, <1>9, <1>10, <1>13 DEF FirstOf
<1>15. TicketBorne(t, e)
  BY <1>5, <1>13 DEF TicketBorne
<1>16. req'[h] = [r EXCEPT !.alone = (Busy = {})]
  BY <1>3, BeginsWith DEF Basic
<1>17. r.pc = "record" /\ r.c = c /\ r.e = e /\ r.t = t
  BY DEF Idle
<1>18. req'[h].pc = "record" /\ req'[h].c = c /\ req'[h].e = e /\ req'[h].t = t
  BY <1>16 DEF Idle
<1> QED BY <1>14, <1>15, <1>18

LEMMA BorneByKept ==
    ASSUME Basic, AddressesBorne, Lasting, borne \subseteq borne',
           NEW g \in Handlers, Alike(req'[g], req[g])
    PROVE  BorneBy(req[g])'
<1> DEFINE q == req[g]
           r == req'[g]
<1>1. q \in Request /\ Refers(q) /\ BorneBy(q)
  BY OneRequest DEF AddressesBorne
<1>2. r.pc = q.pc /\ r.c = q.c /\ r.e = q.e /\ r.t = q.t /\ r.r = q.r /\ r.write = q.write
  BY DEF Alike
<1>3. q.t # 0 => ticket'[q.t].contact = ticket[q.t].contact
  <2>1. q.t # 0 => q.t \in Tickets
    BY <1>1, Lengths DEF Basic, Request, Refers, RefersWithin
  <2> QED BY <2>1 DEF Lasting
<1>4. q.pc \in Using => /\ recovery'[q.r].email = recovery[q.r].email
                        /\ recovery'[q.r].contact = recovery[q.r].contact
                        /\ recovery'[q.r].ticket = recovery[q.r].ticket
  <2>1. q.pc \in Using => q.r \in Recoveries
    BY <1>1, Lengths DEF Basic, Request, Refers, RefersWithin
  <2> QED BY <2>1 DEF Lasting
<1>5. <<q.c, q.e>> \in borne => <<r.c, r.e>> \in borne'
  BY <1>2
<1>6. (q.pc = "record" /\ r.t # 0) => <<ticket'[r.t].contact, r.e>> \in borne'
  BY <1>1, <1>2, <1>3 DEF BorneBy, TicketBorne, Borne
<1> QED BY <1>1, <1>2, <1>4, <1>5, <1>6 DEF BorneBy, TicketBorne, Borne

LEMMA BorneByGoes ==
    ASSUME Basic, AddressesBorne, WidgetAssumption, [Next]_vars, NEW h \in Handlers, GoesOn(h)
    PROVE  BorneBy(req[h])'
<1> DEFINE q == req[h]
           r == req'[h]
<1>1. /\ q \in Request /\ Refers(q) /\ BorneBy(q)
      /\ r = Idle \/ Follows(q, r)
  BY OneRequest, StepOn DEF AddressesBorne
<1>2. CASE r = Idle
  BY <1>2 DEF BorneBy, Idle, Using
<1>3. CASE r # Idle /\ q.pc = "contact"
  <2>1. FindContact(h)
    BY <1>3, WhichStep DEF At
  <2>2. UNCHANGED <<contact, borne>>
    BY <2>1 DEF FindContact, documents
  <2>3. q.e \in Emails \cup {None} /\ r.pc = "write"
    BY <1>1, <2>1, FindReads DEF Request
  <2>4. r.write => r.c # 0 /\ r.e # None
    BY <2>1, FindReads
  <2>5. (r.c # 0 /\ ~r.write /\ r.e # None) => <<r.c, r.e>> \in borne
    <3>1. SUFFICES ASSUME r.c # 0, ~r.write, r.e # None PROVE <<r.c, r.e>> \in borne
      OBVIOUS
    <3>2. CASE q.loaded.contact # 0
      <4>1. r.e = contact[r.c] /\ r.c \in Contacts
        BY <2>1, <3>1, <3>2, FindReads
      <4> QED BY <3>1, <4>1 DEF AddressesBorne, Borne
    <3>3. CASE q.loaded.contact = 0
      <4>1. r.e = q.e /\ q.e \in Emails /\ r.c = ContactByEmail(q.e)
        BY <2>1, <2>3, <3>1, <3>3, FindReads
      <4> QED BY <3>1, <4>1, LookupBorne DEF Borne
    <3> QED BY <3>2, <3>3
  <2> QED BY <2>2, <2>3, <2>4, <2>5 DEF BorneBy, Borne, Using
<1>4. CASE r # Idle /\ q.pc = "write"
  <2>1. WriteContact(h)
    BY <1>4, WhichStep DEF At
  <2>2. r.pc = "identify"
    BY <2>1, WriteMakes
  <2> QED BY <2>1, <2>2, WriteBears DEF BorneBy, Borne, Using
<1>5. CASE r # Idle /\ q.pc \in {"identify", "eligible"}
  <2>1. r.c = q.c /\ r.pc \in {"eligible", "create", "append"} /\ q.c # 0
    BY <1>1, <1>5 DEF Follows, Edges, BorneBy
  <2> QED BY <2>1 DEF BorneBy, Using
<1>6. CASE r # Idle /\ q.pc \in {"prove", "identity"}
  <2>1. r.c = q.c /\ r.e = q.e /\ r.t = q.t /\ r.r = q.r /\ r.pc \in Using
    BY <1>1, <1>6 DEF Follows, Edges, Using
  <2>2. /\ recovery'[q.r].email = recovery[q.r].email
        /\ recovery'[q.r].contact = recovery[q.r].contact
        /\ recovery'[q.r].ticket = recovery[q.r].ticket
    <3>1. q.r \in Recoveries
      BY <1>1, <1>6, Lengths DEF Basic, Request, Refers, RefersWithin, Using
    <3> QED BY <3>1, StepLasts DEF Lasting
  <2>3. /\ q.e = recovery[q.r].email /\ q.c = recovery[q.r].contact
        /\ q.t \in {0, recovery[q.r].ticket}
    BY <1>1, <1>6 DEF BorneBy, Using
  <2> QED BY <2>1, <2>2, <2>3 DEF BorneBy, Using
<1>7. CASE r # Idle /\ q.pc \notin {"contact", "write", "identify", "eligible", "prove", "identity"}
  <2>1. r.pc \notin {"identify", "eligible", "create", "write", "record"} \cup Using
    BY <1>1, <1>7 DEF Follows, Edges, Using
  <2> QED BY <2>1 DEF BorneBy
<1> QED BY <1>2, <1>3, <1>4, <1>5, <1>6, <1>7

LEMMA BorneByStarts ==
    ASSUME Basic, AddressesBorne, WidgetAssumption, NEW h \in Handlers, Starts(h)
    PROVE  BorneBy(req[h])'
<1> DEFINE r == req'[h]
<1>1. Begun(r) /\ UNCHANGED recovery
  BY StepStarts, StartsKeep
<1>2. CASE r.pc = "record"
  <2>1. BeginVerify(h)
    <3>1. ASSUME NEW q, Begin(h, q), q.pc # "record" PROVE r.pc # "record"
      <4>1. r = [q EXCEPT !.alone = (Busy = {})]
        BY <3>1, BeginsWith DEF Basic
      <4> QED BY <3>1, <4>1
    <3> QED BY <1>2, <3>1 DEF Starts, BeginInitialize, BeginMessage, BeginUse, BeginSubscribe,
               BeginPublish, BeginDeactivate, Idle
  <2>2. Borne(r.c, r.e) /\ TicketBorne(r.t, r.e)
    BY <2>1, VerifyFinds
  <2>3. UNCHANGED <<ticket, borne>>
    BY <2>1 DEF BeginVerify, documents
  <2> QED BY <1>2, <2>2, <2>3 DEF BorneBy, Borne, TicketBorne, Using
<1>3. CASE r.pc # "record"
  BY <1>1, <1>3 DEF Begun, BorneBy, Using
<1> QED BY <1>2, <1>3

LEMMA AddressesBorneStep ==
    ASSUME Basic, AddressesBorne, WidgetAssumption, [Next]_vars
    PROVE  AddressesBorne'
<1>1. ContactsBorne' /\ borne \subseteq borne' /\ Lasting
  BY ContactsBorneStep, StepLasts
<1>2. \A e \in Emails : identity'[e] # 0 => <<identity'[e], e>> \in borne'
  <2>1. ASSUME UNCHANGED identity
        PROVE  \A e \in Emails : identity'[e] # 0 => <<identity'[e], e>> \in borne'
    BY <1>1, <2>1 DEF AddressesBorne, Borne
  <2>2. ASSUME NEW h \in Handlers, EnsureIdentity(h) \/ CreateIdentity(h)
        PROVE  \A e \in Emails : identity'[e] # 0 => <<identity'[e], e>> \in borne'
    <3> DEFINE q == req[h]
    <3>1. BorneBy(q) /\ q \in Request /\ Refers(q)
      BY OneRequest DEF AddressesBorne
    <3>2. identity' # identity => <<q.c, q.e>> \in borne
      <4>1. CASE EnsureIdentity(h)
        BY <3>1, <4>1 DEF EnsureIdentity, At, BorneBy, Borne
      <4>2. CASE CreateIdentity(h)
        <5>1. q.pc = "identity" /\ q.r \in Recoveries
          BY <3>1, <4>2, Lengths DEF CreateIdentity, At, Basic, Request, Refers, RefersWithin, Using
        <5>2. q.c = recovery[q.r].contact /\ q.e = recovery[q.r].email
          BY <3>1, <5>1 DEF BorneBy, Using
        <5> QED BY <5>1, <5>2 DEF AddressesBorne, Borne
      <4> QED BY <2>2, <4>1, <4>2
    <3>3. UNCHANGED identity \/ identity' = [identity EXCEPT ![q.e] = q.c]
      BY <2>2 DEF EnsureIdentity, CreateIdentity
    <3>4. identity \in [Emails -> Nat]
      BY DEF Basic, TypeInv
    <3>5. CASE identity' # identity
      <4>1. TAKE e \in Emails
      <4>2. identity'[e] = IF e = q.e THEN q.c ELSE identity[e]
        BY <3>3, <3>4, <3>5
      <4> QED BY <1>1, <3>2, <3>5, <4>2 DEF AddressesBorne, Borne
    <3> QED BY <2>1, <3>5
  <2>3. CASE \E h \in Handlers : EnsureIdentity(h) \/ CreateIdentity(h)
    BY <2>2, <2>3 DEF Borne
  <2>4. CASE UNCHANGED identity
    BY <2>1, <2>4 DEF Borne
  <2> QED BY <2>3, <2>4, IdentitiesSame, NextIs
<1>3. \A n \in Recoveries' : /\ <<recovery'[n].contact, recovery'[n].email>> \in borne'
                             /\ recovery'[n].ticket # 0 =>
                                   <<ticket'[recovery'[n].ticket].contact, recovery'[n].email>>
                                      \in borne'
  <2>1. ASSUME NEW n \in Recoveries
        PROVE  /\ <<recovery'[n].contact, recovery'[n].email>> \in borne'
               /\ recovery'[n].ticket # 0 =>
                     <<ticket'[recovery'[n].ticket].contact, recovery'[n].email>> \in borne'
    <3>1. recovery[n].ticket # 0 => recovery[n].ticket \in Tickets
      BY OneRecovery, Lengths DEF Basic
    <3> QED BY <1>1, <3>1 DEF AddressesBorne, Borne, TicketBorne, Lasting
  <2>2. ASSUME NEW h \in Handlers, CreateRecovery(h)
        PROVE  LET n == Len(recovery) + 1
               IN  /\ <<recovery'[n].contact, recovery'[n].email>> \in borne'
                   /\ recovery'[n].ticket # 0 =>
                         <<ticket'[recovery'[n].ticket].contact, recovery'[n].email>> \in borne'
    <3>1. BorneBy(req[h]) /\ At(h, "record") /\ UNCHANGED ticket
      BY <2>2 DEF AddressesBorne, CreateRecovery
    <3> QED BY <1>1, <2>2, <3>1, RecordMade DEF BorneBy, Borne, TicketBorne, At
  <2>3. Recoveries' = Recoveries \/ \E h \in Handlers : CreateRecovery(h)
    <3>1. ASSUME UNCHANGED recovery PROVE Recoveries' = Recoveries
      BY <3>1 DEF Recoveries
    <3>2. CASE Expire
      BY <3>2, RecordMarked DEF Expire
    <3>3. CASE UNCHANGED vars \/ Activate \/ ChangeMailbox \/ ChangeStatus
      BY <3>1, <3>3 DEF vars, documents, Activate, ChangeMailbox, ChangeStatus
    <3>4. ASSUME NEW h \in Handlers, Consume(h) PROVE Recoveries' = Recoveries
      <4>1. req[h].r \in Recoveries
        BY <3>4, OneRequest, Lengths DEF Basic, Consume, At, Request, Refers, RefersWithin,
           Replacing
      <4>2. recovery' = [recovery EXCEPT ![req[h].r].consumed = TRUE]
        BY <3>4 DEF Consume
      <4> QED BY <4>1, <4>2, RecordMarked
    <3>5. ASSUME NEW h \in Handlers, GoesOn(h), ~Consume(h), ~CreateRecovery(h)
          PROVE  UNCHANGED recovery
      BY <3>5, GoesOnKeeps
    <3> QED BY <3>1, <3>2, <3>3, <3>4, <3>5, NextIs, StartsKeep DEF Changes
  <2> QED BY <2>1, <2>2, <2>3, RecordMade
<1>4. \A h \in Handlers : BorneBy(req[h])'
  <2>1. CASE Changes \/ UNCHANGED vars
    <3>1. \A h \in Handlers : Alike(req'[h], req[h])
      BY <2>1, StepChanges DEF Alike
    <3> QED BY <1>1, <3>1, BorneByKept
  <2>2. ASSUME NEW h \in Handlers, Starts(h) PROVE \A g \in Handlers : BorneBy(req[g])'
    BY <1>1, <2>2, StepStarts, BorneByKept, BorneByStarts
  <2>3. ASSUME NEW h \in Handlers, GoesOn(h) PROVE \A g \in Handlers : BorneBy(req[g])'
    <3>1. \A g \in Handlers \ {h} : Alike(req'[g], req[g])
      BY <2>3, StepOn DEF Alike
    <3> QED BY <1>1, <2>3, <3>1, BorneByKept, BorneByGoes
  <2> QED BY <2>1, <2>2, <2>3, NextIs
<1> QED BY <1>1, <1>2, <1>3, <1>4 DEF AddressesBorne, ContactsBorne, Borne, TicketBorne

(* Sessions are added within the bound.                                    *)
LEMMA SessionsMany ==
    ASSUME Basic, [Next]_vars
    PROVE  \/ Len(session') = Len(session)
           \/ Len(session) < MaxSessions /\ Len(session') = Len(session) + 1
<1>1. ASSUME AddSession(0, 0, 0)
      PROVE  Len(session) < MaxSessions /\ Len(session') = Len(session) + 1
  BY <1>1, 0 \in Nat, SessionAdded DEF AddSession
<1>2. ASSUME NEW h \in Handlers, CreateSession(h)
      PROVE  Len(session) < MaxSessions /\ Len(session') = Len(session) + 1
  <2>1. req[h].t \in Nat /\ req[h].c \in Nat /\ req[h].r \in Nat
    BY OneRequest DEF Request
  <2>2. AddSession(req[h].t, req[h].c, req[h].r)
    BY <1>2 DEF CreateSession
  <2> QED BY <2>1, <2>2, SessionAdded DEF AddSession
<1>3. ASSUME NEW h \in Handlers, Sync(h) PROVE Len(session') = Len(session)
  BY <1>3 DEF Sync, Basic, TypeInv
<1>4. ASSUME NEW h \in Handlers, Starts(h) PROVE AddSession(0, 0, 0) \/ UNCHANGED session
  BY <1>4 DEF Starts, BeginInitialize, BeginMessage, BeginVerify, BeginUse, BeginSubscribe,
     BeginPublish, BeginDeactivate, documents
<1>5. ASSUME NEW h \in Handlers, Resume(h) PROVE AddSession(0, 0, 0) \/ UNCHANGED session
  BY <1>5 DEF Resume
<1> QED BY <1>1, <1>2, <1>3, <1>4, <1>5, SupersedeEnds, StepChanges, GoesOnKeeps, NextIs

(* Contacts are added.                                                     *)
LEMMA ContactsStay ==
    ASSUME Basic, AddressesBorne, [Next]_vars
    PROVE  Contacts \subseteq Contacts'
<1>1. ASSUME UNCHANGED contact PROVE Contacts \subseteq Contacts'
  BY <1>1 DEF Contacts
<1>2. CASE \E h \in Handlers : WriteContact(h)
  BY <1>2, WriteMakes
<1> QED BY <1>1, <1>2, ProveChangesNone, ContactsSame, NextIs

(* The histories hold what requests are about.                             *)
LEMMA HistoriesStep ==
    ASSUME Basic, Recorded, [Next]_vars
    PROVE  /\ socket' \cup late' \cup crossed' \subseteq Sessions'
           /\ contested' \subseteq Recoveries'
<1> DEFINE Goal == /\ socket' \cup late' \cup crossed' \subseteq Sessions
                   /\ contested' \subseteq Recoveries
<1>1. Sessions \subseteq Sessions' /\ Recoveries \subseteq Recoveries'
  BY StepLater DEF Later
<1>2. socket \cup late \cup crossed \subseteq Sessions /\ contested \subseteq Recoveries
  BY DEF Recorded
<1>3. \A g \in Handlers : req[g].s \in {0} \cup Sessions /\ req[g].r \in {0} \cup Recoveries
  <2>1. TAKE g \in Handlers
  <2>2. /\ req[g].s \in Nat /\ req[g].r \in Nat
        /\ req[g].s <= Len(session) /\ req[g].r <= Len(recovery)
    BY OneRequest DEF Request, Refers, RefersWithin
  <2> QED BY <2>2, Lengths DEF Basic
<1>4. ASSUME UNCHANGED <<socket, late, crossed, contested>> PROVE Goal
  BY <1>2, <1>4
<1>5. ASSUME NEW h \in Handlers, Starts(h) PROVE Goal
  <2>1. PICK r : Begin(h, r)
    BY <1>5 DEF Starts, BeginInitialize, BeginMessage, BeginVerify, BeginUse, BeginSubscribe,
       BeginPublish, BeginDeactivate
  <2>2. /\ crossed' = crossed \cup {s \in {r.s} \ {0} : \E g \in Busy : req[g].s = s}
        /\ contested' = contested \cup {n \in {r.r} \ {0} : \E g \in Busy : req[g].r = n}
    BY <2>1, BeginsWith DEF Basic
  <2>3. crossed' \subseteq Sessions /\ contested' \subseteq Recoveries
    BY <1>2, <1>3, <2>2 DEF Busy
  <2> QED BY <1>2, <1>5, <2>3, StartsKeep
<1>6. ASSUME NEW h \in Handlers, Join(h) PROVE Goal
  <2>1. req[h].s \in Sessions
    BY <1>3, <1>6, OneRequest DEF Join, At, Refers, RefersWithin
  <2> QED BY <1>2, <1>6, <2>1 DEF Join
<1>7. ASSUME NEW h \in Handlers, AppendMessage(h) PROVE Goal
  <2>1. req[h].s \in Sessions
    BY <1>3, <1>7, OneRequest DEF AppendMessage, At, Refers, RefersWithin, Visiting, Message
  <2> QED BY <1>2, <1>7, <2>1 DEF AppendMessage
<1>8. ASSUME NEW h \in Handlers, CreateIdentity(h) PROVE Goal
  <2>1. req[h].r \in Recoveries
    BY <1>3, <1>8, OneRequest DEF CreateIdentity, At, Refers, RefersWithin, Using
  <2> QED BY <1>2, <1>8, <2>1 DEF CreateIdentity
<1>9. ASSUME NEW h \in Handlers, Fail(h) PROVE Goal
  BY <1>2, <1>3, <1>9 DEF Fail
<1>10. ASSUME NEW h \in Handlers, Disconnect(h) \/ Drop(h) \/ MissSockets(h) PROVE Goal
  BY <1>2, <1>10 DEF Disconnect, Drop, MissSockets, history
<1>11. ASSUME NEW h \in Handlers, GoesOn(h), ~Join(h), ~AppendMessage(h), ~CreateIdentity(h),
              ~Fail(h), ~Disconnect(h), ~Drop(h), ~MissSockets(h)
       PROVE  UNCHANGED <<socket, late, crossed, contested>>
  BY <1>11 DEF GoesOn, LoadTicket, Sync, FindContact, WriteContact, EnsureIdentity, FindEligible,
     CreateTicket, CreateRecovery, Prove, CreateSession, Supersede, Consume, Resume, LoadBound,
     Emit, history
<1>12. Goal
  BY <1>4, <1>5, <1>6, <1>7, <1>8, <1>9, <1>10, <1>11, StepChanges, NextIs
<1> QED BY <1>1, <1>12

LEMMA RecordedStep ==
    ASSUME Basic, Recorded, AddressesBorne, WidgetAssumption, [Next]_vars
    PROVE  Recorded'
<1>1. Basic' /\ Later /\ Lasting
  BY BasicStep, StepLater, StepLasts
<1>2. Len(session') <= MaxSessions
  BY SessionsMany, Lengths DEF Basic, Recorded, WidgetAssumption
<1>3. \A s \in Sessions' : session'[s].proof \in {0} \cup Recoveries'
  <2>1. \A s \in Sessions : session'[s].proof \in {0} \cup Recoveries'
    BY <1>1 DEF Later, Recorded
  <2>2. ASSUME NEW h \in Handlers, CreateSession(h) PROVE req[h].r \in {0} \cup Recoveries
    <3>1. req[h].r \in Nat /\ req[h].r <= Len(recovery)
      BY OneRequest DEF Request, Refers, RefersWithin
    <3> QED BY <3>1, Lengths DEF Basic
  <2>3. \A s \in Sessions' \ Sessions : session'[s].proof \in {0} \cup Recoveries'
    <3>1. CASE Changes \/ UNCHANGED vars
      BY <3>1, StepChanges DEF Sessions
    <3> QED BY <1>1, <2>2, <3>1, SessionsMade, StartsKeep, NextIs DEF Later
  <2> QED BY <2>1, <2>3
<1>4. /\ answered' \in [1 .. MaxSessions -> Nat]
      /\ \A s \in 1 .. MaxSessions : s \notin Sessions' => answered'[s] = 0
  <2>1. CASE UNCHANGED answered
    BY <1>1, <2>1 DEF Recorded, Later
  <2>2. ASSUME NEW h \in Handlers, Sync(h)
        PROVE  /\ answered' \in [1 .. MaxSessions -> Nat]
               /\ \A s \in 1 .. MaxSessions : s \notin Sessions' => answered'[s] = 0
    <3>1. answered' = [answered EXCEPT ![req[h].s] = req[h].t] \/ answered' = answered
      BY <2>2 DEF Sync
    <3>2. req[h].s \in Sessions /\ Sessions' = Sessions /\ req[h].t \in Nat
      BY <2>2, SyncSaves, OneRequest DEF Request
    <3> QED BY <3>1, <3>2 DEF Recorded
  <2>3. ASSUME NEW h \in Handlers, GoesOn(h), ~Sync(h) PROVE UNCHANGED answered
    BY <2>3 DEF GoesOn, LoadTicket, FindContact, WriteContact, EnsureIdentity, FindEligible,
       CreateTicket, AppendMessage, CreateRecovery, Prove, CreateIdentity, CreateSession,
       Supersede, Disconnect, Consume, Resume, Join, LoadBound, Emit, Drop, Fail, MissSockets,
       history
  <2>4. ASSUME NEW h \in Handlers, Starts(h) PROVE UNCHANGED answered
    BY <2>4 DEF Starts, BeginInitialize, BeginMessage, BeginVerify, BeginUse, BeginSubscribe,
       BeginPublish, BeginDeactivate
  <2>5. CASE Changes \/ UNCHANGED vars
    <3>1. UNCHANGED answered
      BY <2>5 DEF Changes, Expire, Activate, ChangeMailbox, ChangeStatus, vars, history
    <3> QED BY <2>1, <3>1
  <2> QED BY <2>1, <2>2, <2>3, <2>4, <2>5, NextIs
<1>5. \A t \in Tickets' : ticket'[t].session \in Sessions' /\ ticket'[t].contact \in Contacts'
  <2>1. \A t \in Tickets : ticket'[t].session \in Sessions' /\ ticket'[t].contact \in Contacts'
    BY <1>1, ContactsStay DEF Lasting, Later, Recorded
  <2>2. ASSUME NEW h \in Handlers, CreateTicket(h)
        PROVE  req[h].s \in Sessions /\ req[h].c \in Contacts
    <3>1. req[h] \in Request /\ Refers(req[h]) /\ req[h].pc = "create" /\ BorneBy(req[h])
      BY <2>2, OneRequest DEF CreateTicket, At, AddressesBorne
    <3>2. req[h].s # 0 /\ req[h].c # 0 /\ req[h].s \in Nat /\ req[h].c \in Nat
      BY <3>1 DEF Refers, RefersWithin, BorneBy, Request, Visiting, Message
    <3> QED BY <3>1, <3>2, Lengths DEF Basic, Refers, RefersWithin
  <2>3. ASSUME NEW h \in Handlers, CreateTicket(h), NEW t \in Tickets' \ Tickets
        PROVE  ticket'[t].session \in Sessions' /\ ticket'[t].contact \in Contacts'
    BY <1>1, <2>2, <2>3, TicketMade, ContactsStay DEF Later
  <2> QED BY <2>1, <2>3, TicketsSame, NextIs
<1> QED BY <1>2, <1>3, <1>4, <1>5, HistoriesStep DEF Recorded

(* A session, and what it may be in, after a step.                         *)
OpenedNext(s, t) == (t # 0 /\ ticket'[t].session # s)
                    => /\ session'[s].proof # 0
                       /\ <<ticket'[t].contact, recovery'[session'[s].proof].email>> \in borne'

LEMMA OpenedKept ==
    ASSUME Basic, Recorded, Later, Lasting, borne \subseteq borne',
           NEW s \in Sessions, NEW t \in Nat, t <= Len(ticket), Opened(s, t)
    PROVE  OpenedNext(s, t)
<1>1. SUFFICES ASSUME t # 0, ticket'[t].session # s
               PROVE  /\ session'[s].proof # 0
                      /\ <<ticket'[t].contact, recovery'[session'[s].proof].email>> \in borne'
  BY DEF OpenedNext
<1>2. t \in Tickets
  BY <1>1, Lengths DEF Basic
<1>3. ticket'[t].session = ticket[t].session /\ ticket'[t].contact = ticket[t].contact
  BY <1>2 DEF Lasting
<1>4. session[s].proof # 0 /\ Borne(ticket[t].contact, recovery[session[s].proof].email)
  BY <1>1, <1>3 DEF Opened
<1>5. session'[s].proof = session[s].proof /\ session[s].proof \in Recoveries
  BY <1>4 DEF Later, Recorded
<1>6. recovery'[session[s].proof].email = recovery[session[s].proof].email
  BY <1>5 DEF Lasting
<1> QED BY <1>3, <1>4, <1>5, <1>6 DEF Borne

(* What a request takes up is its session's.                               *)
LEMMA CurrentOwned ==
    ASSUME NEW s, NEW p, Opened(s, p), NEW t \in CurrentTicket(s, p)
    PROVE  Opened(s, t)
BY DEF Opened, CurrentTicket

(* The sessions that a step adds.                                          *)
LEMMA SessionsNew ==
    ASSUME Basic, [Next]_vars, NEW s \in Sessions' \ Sessions
    PROVE  \/ session'[s].ticket = 0 /\ session'[s].contact = 0
           \/ \E h \in Handlers : /\ CreateSession(h) /\ s = Len(session) + 1
                                  /\ session'[s].ticket = req[h].t
                                  /\ session'[s].contact = req[h].c
                                  /\ session'[s].proof = req[h].r
<1>1. CASE AddSession(0, 0, 0)
  <2>1. session'[s] = NewSession(0, 0, 0)
    BY <1>1, 0 \in Nat, SessionAdded
  <2> QED BY <2>1 DEF NewSession
<1>2. ASSUME NEW h \in Handlers, CreateSession(h)
      PROVE  /\ s = Len(session) + 1 /\ session'[s].ticket = req[h].t
             /\ session'[s].contact = req[h].c /\ session'[s].proof = req[h].r
  <2>1. req[h].t \in Nat /\ req[h].c \in Nat /\ req[h].r \in Nat
    BY OneRequest DEF Request
  <2>2. s = Len(session) + 1 /\ session'[s] = NewSession(req[h].t, req[h].c, req[h].r)
    BY <1>2, <2>1, SessionAdded DEF CreateSession
  <2> QED BY <2>2 DEF NewSession
<1>3. ASSUME NEW h \in Handlers, Starts(h) PROVE AddSession(0, 0, 0) \/ UNCHANGED session
  BY <1>3 DEF Starts, BeginInitialize, BeginMessage, BeginVerify, BeginUse, BeginSubscribe,
     BeginPublish, BeginDeactivate, documents
<1>4. ASSUME NEW h \in Handlers, Resume(h) PROVE AddSession(0, 0, 0) \/ UNCHANGED session
  BY <1>4 DEF Resume
<1>5. Sessions' # Sessions
  OBVIOUS
<1>6. ~UNCHANGED session
  BY <1>5 DEF Sessions
<1> QED BY <1>1, <1>2, <1>3, <1>4, <1>5, <1>6, SyncSaves, SupersedeEnds, StepChanges, GoesOnKeeps,
   NextIs

LEMMA SessionsOwn ==
    ASSUME Basic, Recorded, AddressesBorne, TicketsOwned, WidgetAssumption, [Next]_vars
    PROVE  \A s \in Sessions' : OpenedNext(s, session'[s].ticket)
<1>1. Later /\ Lasting /\ borne \subseteq borne'
  BY StepLater, StepLasts, ContactsBorneStep
<1>2. ASSUME NEW s \in Sessions PROVE OpenedNext(s, session'[s].ticket)
  <2>1. Opened(s, session[s].ticket) /\ session[s].ticket \in Nat
        /\ session[s].ticket <= Len(ticket)
    BY OneSession DEF TicketsOwned
  <2>2. CASE session'[s].ticket = session[s].ticket
    BY <1>1, <2>1, <2>2, OpenedKept
  <2>3. ASSUME NEW h \in Handlers, Sync(h), req[h].s = s
        PROVE  OpenedNext(s, session'[s].ticket)
    <3>1. session'[s].ticket \in {session[s].ticket, req[h].t}
      BY <2>3, SyncSaves DEF SavedPath
    <3>2. Opened(s, req[h].t)
      BY <2>3 DEF TicketsOwned, OwnTickets, Sync, At
    <3>3. req[h].t \in Nat /\ req[h].t <= Len(ticket)
      BY OneRequest DEF Request, Refers, RefersWithin
    <3> QED BY <1>1, <2>1, <3>1, <3>2, <3>3, OpenedKept
  <2> QED BY <2>2, <2>3, TicketKept, StartsKeep, StepChanges, NextIs
<1>3. ASSUME NEW s \in Sessions' \ Sessions PROVE OpenedNext(s, session'[s].ticket)
  <2>1. CASE session'[s].ticket = 0
    BY <2>1 DEF OpenedNext
  <2>2. ASSUME NEW h \in Handlers, CreateSession(h), session'[s].ticket = req[h].t,
               session'[s].proof = req[h].r, req[h].t # 0
        PROVE  OpenedNext(s, session'[s].ticket)
    <3> DEFINE q == req[h]
    <3>1. q \in Request /\ Refers(q) /\ BorneBy(q) /\ q.pc = "session"
      BY <2>2, OneRequest DEF CreateSession, At, AddressesBorne
    <3>2. q.r # 0 /\ q.r \in Recoveries /\ q.t \in Tickets /\ q.t = recovery[q.r].ticket
      BY <2>2, <3>1, Lengths DEF Basic, Request, Refers, RefersWithin, BorneBy, Using
    <3>3. <<ticket[q.t].contact, recovery[q.r].email>> \in borne
      BY <2>2, <3>2 DEF AddressesBorne, TicketBorne, Borne
    <3>4. ticket'[q.t].contact = ticket[q.t].contact /\ recovery'[q.r].email = recovery[q.r].email
      BY <1>1, <3>2 DEF Lasting
    <3> QED BY <1>1, <2>2, <3>2, <3>3, <3>4 DEF OpenedNext
  <2> QED BY <2>1, <2>2, SessionsNew
<1> QED BY <1>2, <1>3

LEMMA OwnTicketsGoes ==
    ASSUME Basic, Recorded, AddressesBorne, TicketsOwned, WidgetAssumption, [Next]_vars,
           NEW h \in Handlers, GoesOn(h)
    PROVE  /\ req'[h].pc \in Visiting => OpenedNext(req'[h].s, req'[h].loaded.ticket)
           /\ req'[h].pc \in {"append", "sync"} => OpenedNext(req'[h].s, req'[h].t)
<1> DEFINE q == req[h]
           r == req'[h]
<1>1. Later /\ Lasting /\ borne \subseteq borne'
  BY StepLater, StepLasts, ContactsBorneStep
<1>2. /\ q \in Request /\ Refers(q) /\ OpAt(q) /\ OwnTickets(q)
      /\ r = Idle \/ Follows(q, r)
  BY OneRequest, StepOn DEF TicketsOwned
<1>3. SUFFICES ASSUME r.pc \in Visiting, r # Idle
               PROVE  /\ OpenedNext(r.s, r.loaded.ticket)
                      /\ r.pc \in {"append", "sync"} => OpenedNext(r.s, r.t)
  BY DEF Visiting, Message, Idle
<1>4. /\ q.loaded.ticket \in Nat /\ q.loaded.ticket <= Len(ticket)
      /\ q.t \in Nat /\ q.t <= Len(ticket) /\ q.s \in Nat /\ q.s <= Len(session)
  BY <1>2 DEF Request, Refers, RefersWithin
<1>5. q.pc \in Visiting \cup {"answer"}
  BY <1>2, <1>3 DEF Follows, Edges, Visiting, Message
<1>6. q.s \in Sessions
  BY <1>2, <1>4, <1>5, Lengths DEF Basic, Refers, RefersWithin
<1>7. CASE q.pc = "answer"
  <2>1. Resume(h) /\ r.pc = "load"
    BY <1>2, <1>3, <1>7, WhichStep DEF At, Follows, Edges
  <2>2. CASE Live(q.s)
    <3>1. r.s = q.s /\ r.loaded.ticket = session[q.s].ticket
      BY <1>3, <2>1, <2>2, StepReads
    <3>2. /\ Opened(q.s, session[q.s].ticket) /\ session[q.s].ticket \in Nat
          /\ session[q.s].ticket <= Len(ticket)
      BY <1>6, OneSession DEF TicketsOwned
    <3>3. OpenedNext(q.s, session[q.s].ticket)
      BY <1>1, <1>6, <3>2, OpenedKept
    <3> QED BY <2>1, <3>1, <3>3
  <2>3. CASE ~Live(q.s)
    <3>1. r.loaded = q.loaded /\ q.loaded.ticket = 0
      BY <1>2, <1>3, <1>7, <2>1, <2>3, StepReads DEF OpAt, Visiting, Message
    <3> QED BY <2>1, <3>1 DEF OpenedNext
  <2> QED BY <2>2, <2>3
<1>8. CASE q.pc \in Visiting
  <2>1. r.s = q.s /\ r.loaded = q.loaded
    BY <1>2, <1>3, <1>8 DEF Follows, Visiting, Message
  <2>2. Opened(q.s, q.loaded.ticket)
    BY <1>2, <1>8 DEF OwnTickets
  <2>3. OpenedNext(r.s, r.loaded.ticket)
    BY <1>1, <1>4, <1>6, <2>1, <2>2, OpenedKept
  <2>4. ASSUME r.pc \in {"append", "sync"} PROVE OpenedNext(r.s, r.t)
    <3>1. q.pc \in {"load", "eligible", "create", "append"}
      BY <1>2, <1>3, <1>8, <2>4 DEF Follows, Edges, Visiting, Message
    <3>2. CASE q.pc = "append"
      BY <1>1, <1>2, <1>3, <1>4, <1>6, <2>1, <3>2, OpenedKept DEF OwnTickets, Follows
    <3>3. CASE q.pc = "create"
      <4>1. CreateTicket(h)
        BY <1>3, <3>3, WhichStep DEF At
      <4>2. r.t = Len(ticket) + 1 /\ ticket'[Len(ticket) + 1].session = q.s
        BY <4>1, StepReads, TicketMade
      <4> QED BY <2>1, <4>2 DEF OpenedNext
    <3>4. CASE q.pc \in {"load", "eligible"}
      <4>1. LoadTicket(h) \/ FindEligible(h)
        BY <1>3, <3>4, WhichStep DEF At
      <4>2. r.t \in CurrentTicket(q.s, q.loaded.ticket)
        BY <2>4, <4>1, StepReads
      <4>3. Opened(q.s, r.t)
        BY <2>2, <4>2, CurrentOwned
      <4>4. r.t \in Nat /\ r.t <= Len(ticket)
        BY <1>4, <4>2, CurrentIn DEF Basic
      <4> QED BY <1>1, <1>6, <2>1, <4>3, <4>4, OpenedKept
    <3> QED BY <3>1, <3>2, <3>3, <3>4
  <2> QED BY <2>3, <2>4
<1> QED BY <1>5, <1>7, <1>8

LEMMA TicketsOwnedStep ==
    ASSUME Basic, Recorded, AddressesBorne, TicketsOwned, WidgetAssumption, [Next]_vars
    PROVE  TicketsOwned'
<1>1. Later /\ Lasting /\ borne \subseteq borne'
  BY StepLater, StepLasts, ContactsBorneStep
<1>2. \A s \in Sessions' : OpenedNext(s, session'[s].ticket)
  BY SessionsOwn
<1> DEFINE Owns(g) == /\ req'[g].pc \in Visiting => OpenedNext(req'[g].s, req'[g].loaded.ticket)
                      /\ req'[g].pc \in {"append", "sync"} => OpenedNext(req'[g].s, req'[g].t)
<1>3. ASSUME NEW g \in Handlers, Alike(req'[g], req[g]) PROVE Owns(g)
  <2> DEFINE q == req[g]
  <2>1. q \in Request /\ Refers(q) /\ OwnTickets(q)
    BY OneRequest DEF TicketsOwned
  <2>2. SUFFICES ASSUME q.pc \in Visiting PROVE Owns(g)
    BY <1>3 DEF Alike, Visiting, Message
  <2>3. /\ q.loaded.ticket \in Nat /\ q.loaded.ticket <= Len(ticket)
        /\ q.t \in Nat /\ q.t <= Len(ticket) /\ q.s \in Sessions
    BY <2>1, <2>2, Lengths DEF Basic, Request, Refers, RefersWithin
  <2>4. OpenedNext(q.s, q.loaded.ticket)
    BY <1>1, <2>1, <2>2, <2>3, OpenedKept DEF OwnTickets
  <2>5. q.pc \in {"append", "sync"} => OpenedNext(q.s, q.t)
    BY <1>1, <2>1, <2>3, OpenedKept DEF OwnTickets
  <2> QED BY <1>3, <2>4, <2>5 DEF Alike
<1>4. ASSUME NEW h \in Handlers, Starts(h) PROVE Owns(h)
  <2>1. Begun(req'[h])
    BY <1>4, StepStarts
  <2> QED BY <1>2, <2>1 DEF Begun, Visiting, Message
<1>5. \A g \in Handlers : Owns(g)
  <2>1. CASE Changes \/ UNCHANGED vars
    <3>1. \A g \in Handlers : Alike(req'[g], req[g])
      BY <2>1, StepChanges DEF Alike
    <3> QED BY <1>3, <3>1
  <2>2. ASSUME NEW h \in Handlers, Starts(h) PROVE \A g \in Handlers : Owns(g)
    BY <1>3, <1>4, <2>2, StepStarts
  <2>3. ASSUME NEW h \in Handlers, GoesOn(h) PROVE \A g \in Handlers : Owns(g)
    <3>1. \A g \in Handlers \ {h} : Alike(req'[g], req[g])
      BY <2>3, StepOn DEF Alike
    <3> QED BY <1>3, <2>3, <3>1, OwnTicketsGoes
  <2> QED BY <2>1, <2>2, <2>3, NextIs
<1>6. \A s \in Sessions' : Opened(s, session[s].ticket)'
  BY <1>2 DEF Opened, OpenedNext, Borne
<1>7. \A g \in Handlers : OwnTickets(req[g])'
  BY <1>5 DEF OwnTickets, Opened, OpenedNext, Borne
<1> QED BY <1>6, <1>7 DEF TicketsOwned

(* From its last await a request of a visitor answers, or fails.           *)
LEMMA SyncOrFail ==
    ASSUME Basic, NEW h \in Handlers, GoesOn(h), At(h, "sync")
    PROVE  Sync(h) \/ (req[h].s \in crossed' /\ ~Sync(h))
<1>1. Sync(h) \/ Fail(h)
  BY DEF GoesOn, LoadTicket, FindContact, WriteContact, EnsureIdentity, FindEligible,
     CreateTicket, AppendMessage, CreateRecovery, Prove, CreateIdentity, CreateSession,
     Supersede, Disconnect, Consume, Resume, Join, LoadBound, Emit, Drop, MissSockets, At
<1>2. req[h].s # 0
  BY OneRequest DEF At, Refers, RefersWithin, Visiting
<1> QED BY <1>1, <1>2 DEF Fail

LEMMA AnswersSame ==
    ASSUME Basic, [Next]_vars
    PROVE  \/ UNCHANGED answered
           \/ \E h \in Handlers : /\ Sync(h) /\ req[h].op = "message"
                                  /\ answered' = [answered EXCEPT ![req[h].s] = req[h].t]
<1>1. CASE Changes \/ UNCHANGED vars
  BY <1>1 DEF Changes, Expire, Activate, ChangeMailbox, ChangeStatus, vars, history
<1>2. ASSUME NEW h \in Handlers, Starts(h) PROVE UNCHANGED answered
  BY <1>2 DEF Starts, BeginInitialize, BeginMessage, BeginVerify, BeginUse, BeginSubscribe,
     BeginPublish, BeginDeactivate
<1>3. ASSUME NEW h \in Handlers, GoesOn(h), ~Sync(h) PROVE UNCHANGED answered
  BY <1>3 DEF GoesOn, LoadTicket, FindContact, WriteContact, EnsureIdentity, FindEligible,
     CreateTicket, AppendMessage, CreateRecovery, Prove, CreateIdentity, CreateSession,
     Supersede, Disconnect, Consume, Resume, Join, LoadBound, Emit, Drop, Fail, MissSockets,
     history
<1>4. ASSUME NEW h \in Handlers, Sync(h)
      PROVE  \/ UNCHANGED answered
             \/ /\ req[h].op = "message"
                /\ answered' = [answered EXCEPT ![req[h].s] = req[h].t]
  BY <1>4 DEF Sync
<1> QED BY <1>1, <1>2, <1>3, <1>4, NextIs

LEMMA SessionsWithin ==
    ASSUME Basic, Recorded, WidgetAssumption, [Next]_vars
    PROVE  Sessions \subseteq 1 .. MaxSessions /\ Sessions' \subseteq 1 .. MaxSessions
<1>1. Len(session) \in Nat /\ Sessions = 1 .. Len(session) /\ MaxSessions \in Nat
  BY Lengths DEF Basic, WidgetAssumption
<1>2. Len(session) <= MaxSessions
  BY DEF Recorded
<1>3. Len(session') \in Nat /\ Len(session') <= MaxSessions
  BY <1>1, <1>2, SessionsMany
<1>4. session' \in Seq(SessionDoc)
  BY BasicStep DEF Basic, TypeInv
<1>5. Sessions' = 1 .. Len(session')
  BY <1>4 DEF Sessions
<1> QED BY <1>1, <1>2, <1>3, <1>5

LEMMA AnswerKeptStep ==
    ASSUME Basic, Recorded, VisitorsStay, AnswerKept, WidgetAssumption, [Next]_vars
    PROVE  AnswerKept'
<1>1. Later
  BY StepLater
<1>2. ASSUME NEW s \in Sessions' \ crossed', answered'[s] # 0
      PROVE  session'[s].ticket = answered'[s]
  <2>1. s \in 1 .. MaxSessions
    BY SessionsWithin
  <2>2. ASSUME NEW h \in Handlers, Sync(h), req[h].s = s
        PROVE  session'[s].ticket = answered'[s]
    <3> DEFINE q == req[h]
    <3>1. s \in Sessions /\ s \notin crossed /\ s \in 1 .. MaxSessions
      BY <1>1, <1>2, <2>1, <2>2, SyncSaves DEF Later
    <3>2. q.pc = "sync" /\ q.loaded.ticket = session[s].ticket
      BY <2>2, <3>1 DEF Sync, At, VisitorsStay, Stays, Visiting
    <3>3. session'[s].ticket = q.t
      BY <2>2, <3>2, SyncSaves DEF SavedPath
    <3>4. CASE q.op = "message"
      <4>1. answered' = [answered EXCEPT ![s] = q.t]
        BY <2>2, <3>4 DEF Sync
      <4> QED BY <3>1, <3>3, <4>1 DEF Recorded
    <3>5. CASE q.op # "message"
      <4>1. answered' = answered
        BY <2>2, <3>5 DEF Sync
      <4>2. session[s].ticket = answered[s] /\ answered[s] # 0
        BY <1>2, <3>1, <4>1 DEF AnswerKept
      <4>3. q.t = q.loaded.ticket
        BY <3>2, <3>5, <4>2 DEF AnswerKept, At
      <4> QED BY <3>2, <3>3, <4>1, <4>2, <4>3
    <3> QED BY <3>4, <3>5
  <2>3. CASE ~\E h \in Handlers : Sync(h) /\ req[h].s = s
    <3>1. answered'[s] = answered[s]
      BY <2>1, <2>3, AnswersSame DEF Recorded
    <3>2. s \in Sessions
      BY <1>2, <2>1, <3>1 DEF Recorded
    <3>3. session'[s].ticket = session[s].ticket
      BY <2>3, <3>2, TicketKept, StartsKeep, StepChanges, NextIs
    <3> QED BY <1>1, <1>2, <3>1, <3>2, <3>3 DEF Later, AnswerKept
  <2> QED BY <2>2, <2>3
<1> DEFINE Answers(q) == (q.pc = "sync" /\ q.op # "message" /\ q.loaded.ticket # 0)
                         => q.t = q.loaded.ticket
<1>3. \A h \in Handlers : Answers(req'[h])
  <2>1. ASSUME NEW g \in Handlers, Alike(req'[g], req[g]) PROVE Answers(req'[g])
    BY <2>1 DEF Alike, AnswerKept, At
  <2>2. CASE Changes \/ UNCHANGED vars
    <3>1. \A g \in Handlers : Alike(req'[g], req[g])
      BY <2>2, StepChanges DEF Alike
    <3> QED BY <2>1, <3>1
  <2>3. ASSUME NEW h \in Handlers, Starts(h) PROVE Answers(req'[h])
    BY <2>3, StepStarts DEF Begun
  <2>4. ASSUME NEW h \in Handlers, GoesOn(h) PROVE Answers(req'[h])
    <3> DEFINE q == req[h]
               r == req'[h]
    <3>1. SUFFICES ASSUME r.pc = "sync", r.op # "message", r.loaded.ticket # 0
                   PROVE  r.t = r.loaded.ticket
      OBVIOUS
    <3>2. r # Idle
      BY <3>1 DEF Idle
    <3>3. Follows(q, r)
      BY <2>4, <3>2, StepOn
    <3>4. q.pc = "load" /\ r.loaded = q.loaded
      BY <3>1, <3>3, OneRequest DEF Follows, Edges, OpAt, Message
    <3>5. LoadTicket(h)
      BY <2>4, <3>2, <3>4, WhichStep DEF At
    <3> QED BY <3>1, <3>4, <3>5, StepReads DEF CurrentTicket
  <2>5. ASSUME NEW h \in Handlers, Starts(h) PROVE \A g \in Handlers \ {h} : Answers(req'[g])
    BY <2>1, <2>5, StepStarts
  <2>6. ASSUME NEW h \in Handlers, GoesOn(h) PROVE \A g \in Handlers \ {h} : Answers(req'[g])
    <3>1. \A g \in Handlers \ {h} : Alike(req'[g], req[g])
      BY <2>6, StepOn DEF Alike
    <3> QED BY <2>1, <3>1
  <2> HIDE DEF Answers
  <2> QED BY <2>2, <2>3, <2>4, <2>5, <2>6, NextIs
<1> QED BY <1>2, <1>3 DEF AnswerKept, At

(* Only the saving of a session gives it another contact.                  *)
LEMMA ContactKeptBy ==
    ASSUME Basic, [Next]_vars, NEW s \in Sessions, ~\E h \in Handlers : Sync(h) /\ req[h].s = s
    PROVE  session'[s].contact = session[s].contact
<1>1. ASSUME NEW h \in Handlers, Sync(h) PROVE session'[s].contact = session[s].contact
  BY <1>1, SyncSaves
<1>2. ASSUME NEW h \in Handlers, CreateSession(h) PROVE session'[s] = session[s]
  <2>1. req[h].t \in Nat /\ req[h].c \in Nat /\ req[h].r \in Nat
    BY OneRequest DEF Request
  <2> QED BY <1>2, <2>1, SessionAdded DEF CreateSession
<1>3. ASSUME NEW h \in Handlers, Resume(h) PROVE session'[s] = session[s]
  <2>1. CASE AddSession(0, 0, 0)
    BY <2>1, 0 \in Nat, SessionAdded
  <2> QED BY <1>3, <2>1 DEF Resume
<1> QED BY <1>1, <1>2, <1>3, SupersedeEnds, GoesOnKeeps, StartsKeep, StepChanges, NextIs

LEMMA KeepsContactGoes ==
    ASSUME Basic, VisitorsStay, ContactKept, [Next]_vars, NEW h \in Handlers, GoesOn(h)
    PROVE  KeepsContact(req[h])'
<1> DEFINE q == req[h]
           r == req'[h]
<1>1. /\ q \in Request /\ Refers(q) /\ OpAt(q) /\ KeepsContact(q)
      /\ r = Idle \/ Follows(q, r)
      /\ crossed \subseteq crossed'
  BY OneRequest, StepOn, StepLater DEF ContactKept, Later
<1>2. CASE r.pc \notin Visiting
  BY <1>2 DEF KeepsContact, Visiting, Message
<1>3. CASE r.pc \in Visiting /\ q.pc = "answer"
  <2>1. r # Idle
    BY <1>3 DEF Idle, Visiting, Message
  <2>2. Resume(h) /\ r.pc = "load"
    BY <1>1, <1>3, <2>1, WhichStep DEF At, Follows, Edges
  <2>3. CASE Live(q.s)
    BY <2>1, <2>2, <2>3, StepReads DEF KeepsContact
  <2>4. CASE ~Live(q.s)
    <3>1. r.s = Len(session) + 1 /\ AddSession(0, 0, 0) /\ r.loaded = q.loaded /\ r.c = 0
      BY <2>1, <2>2, <2>4, StepReads
    <3>2. q.loaded.contact = 0
      BY <1>1, <1>3 DEF OpAt, Visiting, Message
    <3>3. AddSession(0, 0, 0)
      BY <3>1
    <3>4. session'[Len(session) + 1] = NewSession(0, 0, 0)
      BY <3>3, 0 \in Nat, SessionAdded
    <3>5. session'[r.s].contact = 0
      BY <3>1, <3>4 DEF NewSession
    <3> QED BY <2>2, <3>1, <3>2, <3>5 DEF KeepsContact
  <2> QED BY <2>3, <2>4
<1>4. CASE r.pc \in Visiting /\ q.pc # "answer"
  <2>1. r # Idle
    BY <1>4 DEF Idle, Visiting, Message
  <2>2. q.pc \in Visiting /\ r.s = q.s /\ r.loaded = q.loaded /\ r.op = q.op
        /\ <<q.pc, r.pc>> \in Edges
    BY <1>1, <1>4, <2>1 DEF Follows, Edges, Visiting, Message
  <2>3. q.s \in Sessions
    BY <1>1, <2>2, Lengths DEF Basic, Request, Refers, RefersWithin
  <2>4. r.s \notin crossed' => r.loaded.contact = session'[r.s].contact
    <3>1. SUFFICES ASSUME q.s \notin crossed' PROVE q.loaded.contact = session'[q.s].contact
      BY <2>2
    <3>2. q.loaded.contact = session[q.s].contact
      BY <1>1, <2>2, <3>1 DEF KeepsContact
    <3>3. ASSUME NEW g \in Handlers, Sync(g), req[g].s = q.s PROVE FALSE
      <4>1. g # h
        BY <2>1, <3>3, FollowsEnd DEF Sync
      <4>2. q.s # 0
        BY <2>3, OneSession
      <4> QED BY <1>1, <3>1, <3>3, <4>1, <4>2 DEF VisitorsStay, VisitorsMeet
    <3> QED BY <2>3, <3>2, <3>3, ContactKeptBy
  <2>5. (r.pc # "contact" /\ r.loaded.contact # 0) => r.c = r.loaded.contact
    <3>1. SUFFICES ASSUME q.loaded.contact # 0 PROVE r.c = q.loaded.contact
      BY <2>2
    <3>2. CASE q.pc = "contact"
      BY <2>1, <3>1, <3>2, WhichStep, FindReads DEF At
    <3>3. CASE q.pc = "write"
      <4>1. q.c = q.loaded.contact
        BY <1>1, <2>2, <3>1, <3>3 DEF KeepsContact
      <4> QED BY <2>1, <3>1, <3>3, <4>1, WhichStep, WriteMakes DEF At
    <3>4. CASE q.pc \notin {"contact", "write"}
      <4>1. r.c = q.c
        BY <1>1, <1>4, <2>1, <3>4 DEF Follows
      <4> QED BY <1>1, <2>2, <3>1, <3>4, <4>1 DEF KeepsContact
    <3> QED BY <3>2, <3>3, <3>4
  <2>6. (r.pc = "load" \/ (r.pc = "sync" /\ r.op # "message")) => r.c = r.loaded.contact
    <3>1. SUFFICES ASSUME r.pc = "load" \/ (r.pc = "sync" /\ r.op # "message")
                   PROVE  r.c = r.loaded.contact
      OBVIOUS
    <3>2. q.pc = "load"
      BY <1>1, <2>2, <3>1 DEF Edges, OpAt, Visiting, Message
    <3> QED BY <1>1, <2>1, <2>2, <3>2 DEF KeepsContact, Follows
  <2> QED BY <2>4, <2>5, <2>6 DEF KeepsContact
<1> QED BY <1>2, <1>3, <1>4

LEMMA ContactsKeptStep ==
    ASSUME Basic, VisitorsStay, ContactKept, [Next]_vars
    PROVE  \A h \in Handlers : KeepsContact(req[h])'
<1>1. ASSUME NEW g \in Handlers, Alike(req'[g], req[g]), req[g].pc # "idle",
             ~\E h \in Handlers : Sync(h) /\ req[h].s = req[g].s /\ req[h].s \notin crossed'
      PROVE  KeepsContact(req[g])'
  <2> DEFINE q == req[g]
  <2>1. KeepsContact(q) /\ crossed \subseteq crossed'
    BY StepLater DEF ContactKept, Later
  <2>2. (q.pc \in Visiting /\ q.s \notin crossed') => q.loaded.contact = session'[q.s].contact
    <3>1. q.pc \in Visiting => q.s \in Sessions
      BY OneRequest, Lengths DEF Basic, Request, Refers, RefersWithin
    <3> QED BY <1>1, <2>1, <3>1, ContactKeptBy DEF KeepsContact
  <2> QED BY <1>1, <2>1, <2>2 DEF KeepsContact, Alike
<1>2. ASSUME NEW g \in Handlers, req'[g].pc = "idle" PROVE KeepsContact(req[g])'
  BY <1>2 DEF KeepsContact, Visiting, Message
<1>3. CASE Changes \/ UNCHANGED vars
  <2>1. UNCHANGED <<session, req, crossed>>
    BY <1>3, StepChanges
  <2> QED BY <2>1 DEF ContactKept, KeepsContact
<1>4. ASSUME NEW h \in Handlers, Starts(h) PROVE \A g \in Handlers : KeepsContact(req[g])'
  <2>1. KeepsContact(req[h])'
    <3>1. Begun(req'[h])
      BY <1>4, StepStarts
    <3> QED BY <3>1 DEF Begun, KeepsContact, Visiting, Message
  <2>2. ASSUME NEW g \in Handlers \ {h} PROVE KeepsContact(req[g])'
    <3>1. Alike(req'[g], req[g]) /\ KeepsContact(req[g])
      BY <1>4, StepStarts DEF ContactKept
    <3>2. crossed \subseteq crossed' /\ \A s \in Sessions : session'[s] = session[s]
      BY <1>4, StepLater, StartsKeep DEF Later
    <3>3. req[g].pc \in Visiting => req[g].s \in Sessions
      BY OneRequest, Lengths DEF Basic, Request, Refers, RefersWithin
    <3> QED BY <3>1, <3>2, <3>3 DEF KeepsContact, Alike
  <2> QED BY <2>1, <2>2
<1>5. ASSUME NEW h \in Handlers, GoesOn(h) PROVE \A g \in Handlers : KeepsContact(req[g])'
  <2>1. ASSUME NEW g \in Handlers \ {h}, req[g].pc # "idle" PROVE KeepsContact(req[g])'
    <3>1. Alike(req'[g], req[g])
      BY <1>5, StepOn DEF Alike
    <3>2. ASSUME NEW f \in Handlers, Sync(f), req[f].s = req[g].s, req[f].s \notin crossed'
          PROVE  FALSE
      <4>1. f # g
        <5>1. req'[f] = Idle /\ req'[g] = req[g]
          BY <1>5, <3>2, StepOn, FollowsEnd DEF Sync
        <5>2. Idle.pc = "idle"
          BY DEF Idle
        <5> QED BY <2>1, <5>1, <5>2
      <4>2. req[f].s # 0 /\ req[f].s \notin crossed
        BY <3>2, SyncSaves, OneSession, StepLater DEF Later
      <4> QED BY <3>2, <4>1, <4>2 DEF VisitorsStay, VisitorsMeet
    <3> QED BY <1>1, <2>1, <3>1, <3>2
  <2>2. ASSUME NEW g \in Handlers \ {h}, req[g].pc = "idle" PROVE KeepsContact(req[g])'
    BY <1>2, <1>5, <2>2, StepOn
  <2> QED BY <1>5, <2>1, <2>2, KeepsContactGoes
<1> QED BY <1>3, <1>4, <1>5, NextIs

LEMMA ContactKeptStep ==
    ASSUME Basic, Recorded, VisitorsStay, ContactKept, [Next]_vars
    PROVE  ContactKept'
<1>1. Later /\ Lasting
  BY StepLater, StepLasts
<1> DEFINE Keeps(s, c) == \/ session'[s].contact = c
                          \/ \E h \in Handlers : /\ req'[h].pc = "sync" /\ req'[h].s = s
                                                 /\ req'[h].c = c
<1>2. ASSUME NEW t \in Tickets, ticket[t].session \notin crossed'
      PROVE  Keeps(ticket[t].session, ticket[t].contact)
  <2> DEFINE s == ticket[t].session
             c == ticket[t].contact
  <2>1. s \in Sessions /\ s \notin crossed /\ c \in Contacts /\ c # 0
    BY <1>1, <1>2, Lengths DEF Basic, Later, Recorded
  <2>2. CASE session[s].contact = c
    <3>1. ASSUME NEW h \in Handlers, Sync(h), req[h].s = s PROVE session'[s].contact = c
      <4>1. req[h].pc = "sync"
        BY <3>1 DEF Sync, At
      <4>2. req[h].loaded.contact = c /\ req[h].c = c
        BY <2>1, <2>2, <3>1, <4>1 DEF ContactKept, KeepsContact, Visiting
      <4> QED BY <2>1, <2>2, <3>1, <4>2, SyncSaves DEF SavedPath
    <3> QED BY <2>1, <2>2, <3>1, ContactKeptBy
  <2>3. ASSUME NEW h \in Handlers, At(h, "sync"), req[h].s = s, req[h].c = c
        PROVE  Keeps(s, c)
    <3>1. CASE Sync(h)
      <4>1. req[h].loaded.contact = session[s].contact
        BY <2>1, <2>3 DEF ContactKept, KeepsContact, Visiting, At
      <4> QED BY <2>1, <2>3, <3>1, <4>1, SyncSaves DEF SavedPath
    <3>2. CASE ~Sync(h)
      <4>1. Alike(req'[h], req[h])
        <5>1. ~GoesOn(h)
          BY <1>2, <2>3, <3>2, SyncOrFail
        <5>2. CASE Changes \/ UNCHANGED vars
          BY <5>2, StepChanges DEF Alike
        <5>3. ASSUME NEW g \in Handlers, Starts(g) PROVE Alike(req'[h], req[h])
          BY <2>3, <5>3, StepStarts DEF At
        <5>4. ASSUME NEW g \in Handlers, GoesOn(g) PROVE Alike(req'[h], req[h])
          BY <5>1, <5>4, StepOn DEF Alike
        <5> QED BY <5>2, <5>3, <5>4, NextIs
      <4> QED BY <2>3, <4>1 DEF Alike, At
    <3> QED BY <3>1, <3>2
  <2> HIDE DEF Keeps
  <2> QED BY <2>1, <2>2, <2>3 DEF ContactKept, Keeps
<1>3. ASSUME NEW t \in Tickets' \ Tickets
      PROVE  Keeps(ticket'[t].session, ticket'[t].contact)
  <2>1. PICK h \in Handlers : CreateTicket(h)
    BY <1>3, TicketsSame, NextIs
  <2>2. ticket'[t].session = req[h].s /\ ticket'[t].contact = req[h].c
    BY <1>3, <2>1, TicketMade
  <2>3. req'[h].t = Len(ticket) + 1 /\ Len(ticket) \in Nat /\ req[h].pc = "create"
    BY <2>1, StepReads, Lengths DEF Basic, CreateTicket, At
  <2>4. Follows(req[h], req'[h])
    <3>1. Idle.t = 0
      BY DEF Idle
    <3> QED BY <2>1, <2>3, <3>1, StepOn DEF GoesOn
  <2>5. req'[h].pc = "sync" /\ req'[h].s = req[h].s /\ req'[h].c = req[h].c
    BY <2>3, <2>4 DEF Follows, Edges
  <2> QED BY <2>2, <2>5
<1>4. ASSUME NEW t \in Tickets', ticket'[t].session \notin crossed'
      PROVE  Keeps(ticket'[t].session, ticket'[t].contact)
  <2> HIDE DEF Keeps
  <2>1. CASE t \in Tickets
    <3>1. ticket'[t].session = ticket[t].session /\ ticket'[t].contact = ticket[t].contact
      BY <1>1, <2>1 DEF Lasting
    <3> QED BY <1>2, <1>4, <2>1, <3>1
  <2> QED BY <1>3, <1>4, <2>1
<1> QED BY <1>4, ContactsKeptStep DEF ContactKept, At

----------------------------------------------------------------------------
(* Who has looked for a contact before another wrote one has raced.        *)
LEMMA RacedStays ==
    ASSUME Basic, [Next]_vars
    PROVE  \/ UNCHANGED raced
           \/ \E h \in Handlers : FindContact(h)
<1>1. CASE Changes \/ UNCHANGED vars
  BY <1>1 DEF Changes, Expire, Activate, ChangeMailbox, ChangeStatus, vars, history
<1>2. ASSUME NEW h \in Handlers, Starts(h) PROVE UNCHANGED raced
  BY <1>2 DEF Starts, BeginInitialize, BeginMessage, BeginVerify, BeginUse, BeginSubscribe,
     BeginPublish, BeginDeactivate
<1>3. ASSUME NEW h \in Handlers, GoesOn(h), ~FindContact(h) PROVE UNCHANGED raced
  BY <1>3 DEF GoesOn, LoadTicket, Sync, WriteContact, EnsureIdentity, FindEligible,
     CreateTicket, AppendMessage, CreateRecovery, Prove, CreateIdentity, CreateSession,
     Supersede, Disconnect, Consume, Resume, Join, LoadBound, Emit, Drop, Fail, MissSockets,
     history
<1> QED BY <1>1, <1>2, <1>3, NextIs

(* No one else is at a writing that a lookup leads to, and no one bears    *)
(* the address.                                                            *)
LEMMA FindLone ==
    ASSUME Basic, AddressesBorne, WidgetAssumption, NEW h \in Handlers, FindContact(h), ~raced'
    PROVE  ~raced /\ (\A g \in Handlers \ {h} : ~At(g, "write")) /\ Unborne(req'[h])
<1> DEFINE q == req[h]
           r == req'[h]
<1>1. ~raced /\ \A g \in Handlers : ~At(g, "write")
  <2>1. ~raced /\ ~\E g \in Busy : At(g, "write")
    BY DEF FindContact
  <2> QED BY <2>1 DEF Busy, At
<1>2. q \in Request /\ q.e \in Emails \cup {None}
  BY OneRequest DEF Request
<1>3. ASSUME r.c = 0 \/ r.write, r.e # None PROVE \A c \in Contacts \ {r.c} : contact[c] # r.e
  <2>1. CASE r.write
    <3>1. r.e = q.e /\ q.e \in Emails /\ contact[r.c] = None /\ ContactByEmail(q.e) \in {0, r.c}
      BY <1>2, <2>1, FindReads
    <3>2. ContactByEmail(q.e) # 0 => contact[ContactByEmail(q.e)] # None
      BY <3>1, LookupBorne DEF AddressesBorne, Borne
    <3>3. ContactByEmail(q.e) = 0
      BY <3>1, <3>2
    <3> QED BY <3>1, <3>3, LookupBorne
  <2>2. CASE ~r.write
    <3>1. q.loaded.contact = 0 /\ r.e = q.e /\ q.e \in Emails /\ ContactByEmail(q.e) = 0
      BY <1>2, <1>3, <2>2, FindReads
    <3> QED BY <3>1, LookupBorne
  <2> QED BY <2>1, <2>2
<1> QED BY <1>1, <1>3 DEF Unborne

LEMMA LoneLookupStep ==
    ASSUME Basic, AddressesBorne, LoneLookup, WidgetAssumption, [Next]_vars
    PROVE  LoneLookup'
<1> DEFINE Wide == \A c, d \in Contacts' : (c # d /\ contact'[c] # None)
                                           => contact'[c] # contact'[d]
           UnborneNext(q) == (q.pc = "write" /\ (q.c = 0 \/ q.write) /\ q.e # None)
                             => \A c \in Contacts' \ {q.c} : contact'[c] # q.e
           Lone == \A g, h \in Handlers : (req'[g].pc = "write" /\ req'[h].pc = "write") => g = h
           Goal == Wide /\ Lone /\ \A h \in Handlers : UnborneNext(req'[h])
<1>1. SUFFICES ASSUME ~raced' PROVE Goal
  BY DEF LoneLookup, Unborne, At
<1>2. ~raced
  BY <1>1, RacedStays, FindLone
<1>3. /\ \A c, d \in Contacts : (c # d /\ contact[c] # None) => contact[c] # contact[d]
      /\ \A g, h \in Handlers : (At(g, "write") /\ At(h, "write")) => g = h
      /\ \A h \in Handlers : Unborne(req[h])
  BY <1>2 DEF LoneLookup
<1>4. ASSUME UNCHANGED contact PROVE Wide /\ \A q : Unborne(q) => UnborneNext(q)
  BY <1>3, <1>4 DEF Contacts, Unborne
<1>5. ASSUME NEW g, Alike(req'[g], req[g]), Unborne(req[g]), UNCHANGED contact
      PROVE  UnborneNext(req'[g]) /\ (req'[g].pc = "write" => At(g, "write"))
  BY <1>5 DEF Unborne, Contacts, Alike, At
<1>6. CASE Changes \/ UNCHANGED vars
  <2>1. UNCHANGED <<contact, req>>
    BY <1>6, StepChanges, ContactsSame
  <2> QED BY <1>3, <1>4, <2>1 DEF At
<1>7. ASSUME NEW h \in Handlers, Starts(h) PROVE Goal
  <2>1. UNCHANGED contact /\ \A g \in Handlers \ {h} : Alike(req'[g], req[g])
    BY <1>7, ContactsSame, StepStarts
  <2>2. req'[h].pc # "write"
    BY <1>7, StepStarts DEF Begun
  <2> QED BY <1>3, <1>4, <1>5, <2>1, <2>2
<1>8. ASSUME NEW h \in Handlers, GoesOn(h) PROVE Goal
  <2>1. /\ \A g \in Handlers \ {h} : req'[g] = req[g]
        /\ req'[h] = Idle \/ Follows(req[h], req'[h])
    BY <1>8, StepOn
  <2>2. CASE FindContact(h)
    <3>1. UNCHANGED contact
      BY <2>2 DEF FindContact, documents
    <3>2. Unborne(req'[h]) /\ \A g \in Handlers \ {h} : ~At(g, "write")
      BY <1>1, <2>2, FindLone
    <3> QED BY <1>3, <1>4, <2>1, <3>1, <3>2 DEF At
  <2>3. CASE ~FindContact(h)
    <3>1. req'[h].pc # "write"
      <4>1. Idle.pc = "idle"
        BY DEF Idle
      <4>2. req[h].pc = "contact" => req'[h] = Idle
        BY <1>8, <2>3, WhichStep DEF At
      <4> QED BY <2>1, <4>1, <4>2 DEF Follows, Edges
    <3>2. CASE WriteContact(h)
      <4> DEFINE q == req[h]
      <4>1. q.pc = "write" /\ BorneBy(q) /\ Unborne(q) /\ q.write \in BOOLEAN
        BY <1>3, <3>2, OneRequest DEF WriteContact, At, AddressesBorne, Request
      <4>2. \A g \in Handlers : req'[g].pc # "write"
        BY <1>3, <2>1, <3>1, <4>1 DEF At
      <4>3. Wide
        <5>1. CASE q.c = 0
          <6>1. /\ contact'[req'[h].c] = q.e /\ Contacts' = Contacts \cup {req'[h].c}
                /\ req'[h].c \notin Contacts /\ \A c \in Contacts : contact'[c] = contact[c]
            BY <3>2, <5>1, WriteMakes
          <6>2. q.e # None => \A c \in Contacts : contact[c] # q.e
            <7>1. 0 \notin Contacts
              BY Lengths DEF Basic
            <7> QED BY <4>1, <5>1, <7>1 DEF Unborne
          <6> QED BY <1>3, <6>1, <6>2
        <5>2. CASE q.c # 0
          <6>1. /\ q.c \in Contacts /\ Contacts' = Contacts
                /\ \A c \in Contacts : contact'[c] = IF q.write /\ c = q.c THEN q.e ELSE contact[c]
            BY <3>2, <5>2, WriteMakes
          <6>2. q.write => q.e # None /\ \A c \in Contacts \ {q.c} : contact[c] # q.e
            BY <4>1 DEF Unborne, BorneBy
          <6> QED BY <1>3, <6>1, <6>2
        <5> QED BY <5>1, <5>2
      <4> QED BY <4>2, <4>3
    <3>3. CASE ~WriteContact(h)
      <4>1. UNCHANGED contact
        BY <1>8, <3>3, ContactsSame, ProveChangesNone
      <4> QED BY <1>3, <1>4, <2>1, <3>1, <4>1 DEF At
    <3> QED BY <3>2, <3>3
  <2> QED BY <2>2, <2>3
<1> HIDE DEF Goal
<1> QED BY <1>6, <1>7, <1>8, NextIs

LEMMA OwnInit ==
    ASSUME Init, WidgetAssumption
    PROVE  Recorded /\ AddressesBorne /\ LoneLookup /\ TicketsOwned /\ AnswerKept /\ ContactKept
<1>1. /\ Sessions = {} /\ Contacts = {} /\ Tickets = {} /\ Recoveries = {} /\ Len(session) = 0
      /\ \A h \in Handlers : req[h] = Idle
      /\ \A e \in Emails : identity[e] = 0
      /\ socket = {} /\ late = {} /\ crossed = {} /\ contested = {} /\ borne = {}
      /\ answered = [s \in 1 .. MaxSessions |-> 0]
  BY DEF Init, Sessions, Contacts, Tickets, Recoveries
<1>2. Idle.pc = "idle"
  BY DEF Idle
<1>3. Recorded
  BY <1>1 DEF Recorded, WidgetAssumption
<1>4. AddressesBorne
  BY <1>1, <1>2 DEF AddressesBorne, BorneBy, Using
<1>5. LoneLookup
  BY <1>1, <1>2 DEF LoneLookup, Unborne, At
<1>6. TicketsOwned
  BY <1>1, <1>2 DEF TicketsOwned, OwnTickets, Visiting, Message
<1>7. AnswerKept
  BY <1>1, <1>2 DEF AnswerKept, At
<1>8. ContactKept
  BY <1>1, <1>2 DEF ContactKept, KeepsContact, Visiting, Message
<1> QED BY <1>3, <1>4, <1>5, <1>6, <1>7, <1>8

(* A visitor is shown the conversation of what he sent, as one contact, in *)
(* a conversation he opened or recovered with an address that its contact  *)
(* has borne; and two contacts have one address only when lookups raced:   *)
(* for any number of visitors, contacts, tickets, records and requests     *)
(* (resolveOrCreateSessionContact, findEligibleTicketForSession,           *)
(* syncSessionTicketPointers, loadWidgetRecoveryLookup).                   *)
THEOREM ConversationsAreOwn == Spec => []OwnConversation
<1> USE WidgetAssumption
<1> DEFINE IInv == /\ Basic /\ VisitorsStay /\ Recorded /\ AddressesBorne /\ LoneLookup
                   /\ TicketsOwned /\ AnswerKept /\ ContactKept
<1>1. Init => IInv
  BY BasicInit, ReplacesInit, OwnInit
<1>2. IInv /\ [Next]_vars => IInv'
  BY BasicStep, StaysStep, RecordedStep, AddressesBorneStep, LoneLookupStep, TicketsOwnedStep,
     AnswerKeptStep, ContactKeptStep
<1>3. IInv => OwnConversation
  <2> SUFFICES ASSUME IInv PROVE OwnConversation
    OBVIOUS
  <2>1. TypeOK
    <3>1. widget.active \in BOOLEAN /\ widget.mailbox \in Mailboxes
      BY DEF Basic, TypeInv
    <3>2. \A s \in Sessions : /\ session[s].ticket \in 0 .. Len(ticket)
                              /\ session[s].contact \in 0 .. Len(contact)
                              /\ session[s].proof \in 0 .. Len(recovery)
      <4>1. TAKE s \in Sessions
      <4> QED BY OneSession, Lengths DEF Basic, Recorded
    <3>3. \A e \in Emails : identity[e] \in 0 .. Len(contact)
      BY Lengths DEF Basic, TypeInv, ReferencesThere
    <3> QED BY <3>1, <3>2, <3>3 DEF TypeOK, Recorded
  <2>2. ShownToSender
    BY DEF AnswerKept, ShownToSender
  <2>3. OneContactPerVisitor
    <3>1. ASSUME NEW t \in Tickets, ticket[t].session \notin crossed, On(ticket[t].session) = {}
          PROVE  session[ticket[t].session].contact = ticket[t].contact
      BY <3>1 DEF ContactKept, On, At
    <3> QED BY <3>1 DEF OneContactPerVisitor
  <2>4. LoneAddressOneContact
    BY DEF LoneLookup, LoneAddressOneContact
  <2>5. OnlyOwnConversation
    BY DEF TicketsOwned, Opened, Borne, OnlyOwnConversation
  <2> QED BY <2>1, <2>2, <2>3, <2>4, <2>5 DEF OwnConversation
<1> QED BY <1>1, <1>2, <1>3, PTL DEF Spec
================================================================================
