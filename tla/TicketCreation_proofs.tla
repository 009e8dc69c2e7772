----------------------- MODULE TicketCreation_proofs -----------------------
(***************************************************************************)
(* Theorems about TicketCreation, for any number of requests and faults    *)
(* and any organizations, labels and members.  The invariant says of each  *)
(* request what it has written when it is at an await, which numbers are   *)
(* still to be given to a ticket, and that the history has seen what the   *)
(* request has found valid.                                                *)
(***************************************************************************)
EXTENDS TicketCreation, FiniteSetTheorems, TLAPS

Refs == Labels \cup Members \cup {None}
Pcs == {"waiting", "created", "refused", "delete_message", "clean_up", "view", "usage"}
         \cup Resolving \cup Tried
Request == [pc : Pcs, asked : Orgs \cup {None}, ref : Refs, message : BOOLEAN,
            organization : Orgs \cup {None}, number : Nat]
TicketDoc == [exists : BOOLEAN, number : Nat, organization : Orgs \cup {None}, ref : Refs,
              status : {"new", "open"}, linked : BOOLEAN]

Unread == {None, "ticket", "message"}

TypeInv ==
    /\ ticket \in [Reqs -> TicketDoc]
    /\ conversation \in [Reqs -> BOOLEAN]
    /\ messages \in [Reqs -> 0 .. 1]
    /\ counter \in Nat /\ usage \in Nat /\ faults \in 0 .. MaxFaults
    /\ organization \in Orgs \cup {None} /\ usable \subseteq Labels \cup Members
    /\ req \in [Reqs -> Request]
    /\ issued \subseteq Reqs \X Nat
    /\ seen \in [Reqs -> [orgs : SUBSET (Orgs \cup {None}), ref : BOOLEAN]]
    /\ broken \in BOOLEAN
    /\ unread \in [Reqs -> Unread]

(* What the request q has written: the ticket d and, when c, its           *)
(* conversation; b when the process has stopped or a clean-up has failed.  *)
Written(q, d, c, b) ==
    /\ q.pc \in {"waiting"} \cup Resolving => d = NoTicket /\ c = FALSE
    /\ q.pc = "conversation" => d.exists /\ ~d.linked /\ c = FALSE
    /\ q.pc = "link" => d.exists /\ ~d.linked /\ c
    /\ q.pc \in {"message", "summaries", "hydrate", "view", "usage", "created"} =>
          d.exists /\ d.linked /\ c
    /\ q.pc = "refused" /\ ~b => d.exists = c /\ d.linked = c
    /\ d.exists \/ d = NoTicket
    /\ (d.status = "open") <=> (d.ref \in Members)

AllWritten == \A t \in Reqs : Written(req[t], ticket[t], conversation[t], broken)

(* What there is of the ticket (d, m messages), when u could not be read   *)
(* back and b says what it says in Written.                                *)
Whole(q, d, m, u, b) ==
    /\ q.pc \in {"waiting", "conversation", "link", "message"} \cup Resolving => m = 0
    /\ q.pc \in {"message", "summaries", "hydrate"} => q.message
    /\ q.pc \in {"summaries", "hydrate"} => m = 1
    /\ q.pc \in {"view", "usage", "created"} => m = IF q.message THEN 1 ELSE 0
    /\ q.pc \notin {"clean_up", "refused"} => u = None
    /\ q.pc = "clean_up" => u # "ticket"
    /\ q.pc \in {"clean_up", "refused"} /\ ~b /\ m = 1 => u # None
    /\ q.pc = "refused" /\ ~b => (d.exists <=> u = "ticket")

AllWhole == \A t \in Reqs : Whole(req[t], ticket[t], messages[t], unread[t], broken)

(* The numbers given to tickets, and those that requests hold for theirs,  *)
(* have been allocated, each once.                                         *)
NumbersFresh ==
    /\ \A t \in Reqs : ticket[t].number \in 0 .. counter
    /\ \A i \in issued : i[2] \in 1 .. counter
    /\ \A r \in Reqs : At(r, "ticket") =>
          /\ req[r].number \in 1 .. counter
          /\ \A i \in issued : i[2] # req[r].number
          /\ \A q \in Reqs : At(q, "ticket") /\ req[q].number = req[r].number => q = r
    /\ NumbersNeverReused

(* The requests that may have allocated a number.                          *)
Numbered == {r \in Reqs : req[r].pc \notin {"waiting", "contact", "assignee", "labels", "number"}}
CounterBounded == counter <= Cardinality(Numbered)

(* What a request that still resolves its references has found valid has   *)
(* been seen by the history.                                               *)
Found(q, o, u, s) ==
    /\ q.pc \in Resolving => o \in s.orgs /\ (q.ref \in u \cup {None} => s.ref)
    /\ q.pc \in Resolving \ {"contact"} =>
          \/ q.organization \in s.orgs
          \/ None \in s.orgs /\ q.organization = q.asked
    /\ q.pc \in {"labels", "number", "ticket"} /\ q.ref \in Members => s.ref
    /\ q.pc \in {"number", "ticket"} => s.ref

AllFound == \A r \in Reqs : Found(req[r], organization, usable, seen[r])

----------------------------------------------------------------------------
(* What a step does to requests and documents. *)

LEMMA WaitingType == /\ Waiting \in Request /\ NoTicket \in TicketDoc
  BY DEF Waiting, NoTicket, Request, TicketDoc, Pcs, Refs

(* A request ends, or is refused.                                          *)
LEMMA Ends ==
    ASSUME TypeInv, NEW r \in Reqs, NEW pc \in Pcs, End(r, pc)
    PROVE  /\ req' \in [Reqs -> Request]
           /\ req'[r].pc = pc /\ (pc = "created" => req'[r].message = req[r].message)
           /\ \A q \in Reqs \ {r} : req'[q] = req[q]
  <1>. DEFINE asked == pc = "created" /\ req[r].message
              ended == [Waiting EXCEPT !.pc = pc, !.message = asked]
  <1>1. asked \in BOOLEAN /\ (pc = "created" => asked = req[r].message)
    BY DEF TypeInv, Request
  <1>2. req' = [req EXCEPT ![r] = ended]
    BY DEF End
  <1>. HIDE DEF asked
  <1>3. ended \in Request /\ ended.pc = pc /\ ended.message = asked
    BY <1>1, WaitingType DEF Request, Waiting
  <1>. HIDE DEF ended
  <1>. QED
    BY <1>1, <1>2, <1>3 DEF TypeInv

(* A request goes on.                                                      *)
LEMMA Goes ==
    ASSUME TypeInv, NEW r \in Reqs, NEW pc \in Pcs, Goto(r, pc)
    PROVE  /\ req' \in [Reqs -> Request]
           /\ req'[r] = [req[r] EXCEPT !.pc = pc] /\ req'[r].pc = pc
           /\ req'[r].ref = req[r].ref /\ req'[r].asked = req[r].asked
           /\ req'[r].organization = req[r].organization /\ req'[r].number = req[r].number
           /\ req'[r].message = req[r].message
           /\ \A q \in Reqs \ {r} : req'[q] = req[q]
  <1>1. req[r] \in Request /\ req' = [req EXCEPT ![r] = [req[r] EXCEPT !.pc = pc]]
    BY DEF TypeInv, Goto
  <1>. QED
    BY <1>1 DEF TypeInv, Request

LEMMA SeenType == TypeInv /\ Watch /\ organization' \in Orgs \cup {None} =>
                    seen' \in [Reqs -> [orgs : SUBSET (Orgs \cup {None}), ref : BOOLEAN]]
  BY DEF TypeInv, Watch, NothingSeen

LEMMA TwoAtMost ==
    ASSUME NEW done \in SUBSET {"ticket", "conversation"}
    PROVE  /\ Cardinality(done) \in 0 .. 2
           /\ done # {"ticket", "conversation"} => 2 - Cardinality(done) > 0
  <1>1. IsFiniteSet({"ticket", "conversation"}) /\ Cardinality({"ticket", "conversation"}) = 2
    <2>1. IsFiniteSet({}) /\ Cardinality({}) = 0
      BY FS_EmptySet
    <2>2. IsFiniteSet({} \cup {"ticket"}) /\ Cardinality({} \cup {"ticket"}) = 1
      BY <2>1, FS_AddElement
    <2>3. {"ticket", "conversation"} = ({} \cup {"ticket"}) \cup {"conversation"}
      OBVIOUS
    <2>. QED
      BY <2>2, <2>3, FS_AddElement
  <1>2. IsFiniteSet(done) /\ Cardinality(done) <= 2
    BY <1>1, FS_Subset
  <1>4. done # {"ticket", "conversation"} => Cardinality(done) # 2
    BY <1>1, FS_Subset
  <1>3. Cardinality(done) \in Nat
    BY <1>2, FS_CardinalityType
  <1>. QED
    BY <1>2, <1>3, <1>4

(* What only one kind of step changes.                                     *)
LEMMA Kept ==
    ASSUME NEW r \in Reqs, Step(r)
    PROVE  /\ UNCHANGED broken \/ CleanUp(r) \/ DeleteMessage(r)
           /\ UNCHANGED counter \/ AllocateNumber(r)
           /\ UNCHANGED issued \/ CreateTicket(r)
           /\ UNCHANGED usage \/ CountUsage(r)
  <1>1. CASE Fail(r)
    BY <1>1 DEF Fail
  <1>2. CASE Begin(r) \/ ResolveOrganization(r) \/ ResolveAssignee(r) \/ ResolveLabels(r)
    BY <1>2 DEF Begin, ResolveOrganization, ResolveAssignee, ResolveLabels
  <1>3. CASE AllocateNumber(r) \/ CreateTicket(r) \/ CreateConversation(r) \/ LinkConversation(r)
    BY <1>3 DEF AllocateNumber, CreateTicket, CreateConversation, LinkConversation
  <1>4. CASE \/ CreateMessage(r) \/ Summarise(r) \/ HydrateMessage(r) \/ DeleteMessage(r)
             \/ CleanUp(r) \/ View(r) \/ CountUsage(r)
    BY <1>4 DEF CreateMessage, Summarise, HydrateMessage, DeleteMessage, CleanUp, View, CountUsage
  <1>. QED
    BY <1>1, <1>2, <1>3, <1>4 DEF Step, Proceed

LEMMA FaultsGrow ==
    ASSUME TypeInv, NEW r \in Reqs, Step(r)
    PROVE  faults' = 0 => faults = 0
  <1>0. faults \in Nat
    BY CreationAssumption DEF TypeInv
  <1>1. CASE CleanUp(r)
    <2>. PICK done \in SUBSET {"ticket", "conversation"} : faults' = faults + (2 - Cardinality(done))
      BY <1>1 DEF CleanUp
    <2>. QED
      BY <1>0, TwoAtMost
  <1>2. CASE Fail(r)
    BY <1>0, <1>2 DEF Fail
  <1>3. CASE DeleteMessage(r)
    BY <1>0, <1>3 DEF DeleteMessage
  <1>4. CASE ~CleanUp(r) /\ ~Fail(r) /\ ~DeleteMessage(r)
    BY <1>4 DEF Step, Proceed, Begin, ResolveOrganization, ResolveAssignee, ResolveLabels, AllocateNumber,
         CreateTicket, CreateConversation, LinkConversation, CreateMessage, Summarise,
         HydrateMessage, View, CountUsage
  <1>. QED
    BY <1>1, <1>2, <1>3, <1>4

(* What has been read back, and the messages of other requests.            *)
LEMMA OthersKept ==
    ASSUME TypeInv, NEW r \in Reqs, Step(r)
    PROVE  /\ unread' \in [Reqs -> Unread]
           /\ \A t \in Reqs \ {r} : unread'[t] = unread[t] /\ messages'[t] = messages[t]
  <1>1. unread \in [Reqs -> Unread] /\ messages \in [Reqs -> 0 .. 1]
    BY DEF TypeInv
  <1>2. unread' = unread \/ \E u \in Unread : unread' = [unread EXCEPT ![r] = u]
    <2>1. CASE Fail(r)
      <3>. DEFINE u == CASE At(r, "view") -> "ticket"
                         [] At(r, "hydrate") -> "message"
                         [] OTHER -> None
      <3>1. u \in Unread
        BY DEF Unread
      <3>2. unread' = [unread EXCEPT ![r] = u]
        BY <2>1 DEF Fail
      <3>. QED
        BY <3>1, <3>2
    <2>2. CASE ~Fail(r)
      BY <2>2 DEF Step
    <2>. QED
      BY <2>1, <2>2
  <1>3. \/ messages' = messages
        \/ \E n \in 0 .. 1 : messages' = [messages EXCEPT ![r] = n]
    <2>1. CASE CreateMessage(r) \/ DeleteMessage(r)
      BY <2>1 DEF CreateMessage, DeleteMessage
    <2>2. CASE ~CreateMessage(r) /\ ~DeleteMessage(r)
      BY <2>2 DEF Step, Proceed, Begin, ResolveOrganization, ResolveAssignee, ResolveLabels,
         AllocateNumber, CreateTicket, CreateConversation, LinkConversation, Summarise,
         HydrateMessage, CleanUp, View, CountUsage, Fail, docs
    <2>. QED
      BY <2>1, <2>2
  <1>. QED
    BY <1>1, <1>2, <1>3

(* What every step of one request does.                                    *)
LEMMA OneSteps ==
    ASSUME TypeInv, NEW r \in Reqs, Step(r), Watch
    PROVE  /\ req' \in [Reqs -> Request]
           /\ \A q \in Reqs \ {r} : req'[q] = req[q]
           /\ \A t \in Reqs \ {r} : ticket'[t] = ticket[t] /\ conversation'[t] = conversation[t]
           /\ ticket' \in [Reqs -> TicketDoc] /\ conversation' \in [Reqs -> BOOLEAN]
           /\ messages' \in [Reqs -> 0 .. 1]
           /\ counter' \in Nat /\ usage' \in Nat /\ faults' \in 0 .. MaxFaults
           /\ issued' \subseteq Reqs \X Nat /\ broken' \in BOOLEAN
           /\ UNCHANGED refs
  <1>0. /\ ticket \in [Reqs -> TicketDoc] /\ conversation \in [Reqs -> BOOLEAN]
        /\ messages \in [Reqs -> 0 .. 1]
        /\ counter \in Nat /\ usage \in Nat /\ faults \in 0 .. MaxFaults /\ MaxFaults \in Nat
        /\ req \in [Reqs -> Request] /\ req[r] \in Request
        /\ issued \subseteq Reqs \X Nat /\ broken \in BOOLEAN
        /\ organization \in Orgs \cup {None}
    BY CreationAssumption DEF TypeInv
  <1>1. CASE Begin(r)
    <2>. PICK asked \in Orgs \cup {None}, ref \in Refs, message \in BOOLEAN :
              req' = [req EXCEPT ![r] = [Waiting EXCEPT !.pc = "contact", !.asked = asked,
                                                        !.ref = ref, !.message = message]]
      BY <1>1 DEF Begin, Refs
    <2>1. [Waiting EXCEPT !.pc = "contact", !.asked = asked,
                          !.ref = ref, !.message = message] \in Request
      BY DEF Waiting, Request, Pcs, Resolving
    <2>. QED
      BY <1>0, <1>1, <2>1 DEF Begin, docs, refs
  <1>2. CASE ResolveOrganization(r)
    <2>1. CASE Refuse(r)
      BY <1>0, <1>2, <2>1, Ends DEF ResolveOrganization, Refuse, Pcs, docs, refs
    <2>2. CASE ~Refuse(r)
      <3>1. req' = [req EXCEPT ![r] = [req[r] EXCEPT !.organization = Resolved(req[r].asked),
                                                     !.pc = "assignee"]]
        BY <1>0, <1>2, <2>2 DEF ResolveOrganization
      <3>2. [req[r] EXCEPT !.organization = Resolved(req[r].asked), !.pc = "assignee"] \in Request
        BY <1>0 DEF Request, Resolved, Pcs, Resolving
      <3>. QED
        BY <1>0, <1>2, <3>1, <3>2 DEF ResolveOrganization, docs, refs
    <2>. QED
      BY <2>1, <2>2
  <1>3. CASE ResolveAssignee(r)
    <2>1. Goto(r, "labels") \/ End(r, "refused")
      BY <1>3 DEF ResolveAssignee, Refuse
    <2>. QED
      BY <1>0, <1>3, <2>1, Ends, Goes DEF ResolveAssignee, Pcs, Resolving, docs, refs
  <1>4. CASE ResolveLabels(r)
    <2>1. Goto(r, "number") \/ End(r, "refused")
      BY <1>4 DEF ResolveLabels, Refuse
    <2>. QED
      BY <1>0, <1>4, <2>1, Ends, Goes DEF ResolveLabels, Pcs, Resolving, docs, refs
  <1>5. CASE AllocateNumber(r)
    <2>1. req' = [req EXCEPT ![r] = [req[r] EXCEPT !.number = NextNumber(r), !.pc = "ticket"]]
      BY <1>0, <1>5 DEF AllocateNumber
    <2>2. [req[r] EXCEPT !.number = NextNumber(r), !.pc = "ticket"] \in Request
      <3>1. NextNumber(r) \in Nat /\ "ticket" \in Pcs
        BY <1>0 DEF NextNumber, Pcs, Resolving
      <3>. QED
        BY <1>0, <3>1 DEF Request
    <2>. QED
      BY <1>0, <1>5, <2>1, <2>2 DEF AllocateNumber, NextNumber, docs, refs
  <1>6. CASE CreateTicket(r)
    <2>1. [Waiting EXCEPT !.pc = "conversation", !.message = req[r].message] \in Request
      BY <1>0 DEF Waiting, Request, Pcs, Tried, Refs
    <2>2. [exists |-> TRUE, number |-> req[r].number, organization |-> req[r].organization,
           ref |-> req[r].ref, status |-> IF req[r].ref \in Members THEN "open" ELSE "new",
           linked |-> FALSE] \in TicketDoc
      BY <1>0 DEF Request, TicketDoc
    <2>3. req[r].number \in Nat
      BY <1>0 DEF Request
    <2>4. /\ ticket' = [ticket EXCEPT ![r] =
               [exists |-> TRUE, number |-> req[r].number, organization |-> req[r].organization,
                ref |-> req[r].ref, status |-> IF req[r].ref \in Members THEN "open" ELSE "new",
                linked |-> FALSE]]
          /\ req' = [req EXCEPT ![r] = [Waiting EXCEPT !.pc = "conversation",
                                                      !.message = req[r].message]]
          /\ issued' = issued \cup {<<r, req[r].number>>}
          /\ UNCHANGED <<conversation, messages, counter, usage, refs, faults, broken>>
      BY <1>6 DEF CreateTicket
    <2>5. req' \in [Reqs -> Request] /\ \A q \in Reqs \ {r} : req'[q] = req[q]
      BY <1>0, <2>1, <2>4
    <2>6. ticket' \in [Reqs -> TicketDoc] /\ \A t \in Reqs \ {r} : ticket'[t] = ticket[t]
      BY <1>0, <2>2, <2>4
    <2>. QED
      BY <1>0, <2>3, <2>4, <2>5, <2>6
  <1>7. CASE CreateConversation(r)
    <2>1. /\ Goto(r, "link") /\ conversation' = [conversation EXCEPT ![r] = TRUE]
          /\ UNCHANGED <<ticket, messages, counter, usage, refs, faults, issued, broken>>
      BY <1>7 DEF CreateConversation
    <2>. QED
      BY <1>0, <2>1, Goes DEF Pcs, Tried
  <1>8. CASE LinkConversation(r)
    <2>1. ticket' = [ticket EXCEPT ![r] = [ticket[r] EXCEPT !.linked = TRUE]]
      BY <1>0, <1>8 DEF LinkConversation
    <2>2. [ticket[r] EXCEPT !.linked = TRUE] \in TicketDoc
      BY <1>0 DEF TicketDoc
    <2>3. /\ Goto(r, "message") \/ Goto(r, "view")
          /\ UNCHANGED <<conversation, messages, counter, usage, refs, faults, issued, broken>>
      BY <1>8 DEF LinkConversation
    <2>4. req' \in [Reqs -> Request] /\ \A q \in Reqs \ {r} : req'[q] = req[q]
      BY <2>3, Goes DEF Pcs, Tried
    <2>. QED
      BY <1>0, <2>1, <2>2, <2>3, <2>4
  <1>9. CASE CreateMessage(r)
    <2>1. /\ Goto(r, "summaries") /\ messages' = [messages EXCEPT ![r] = 1]
          /\ UNCHANGED <<ticket, conversation, counter, usage, refs, faults, issued, broken>>
      BY <1>9 DEF CreateMessage
    <2>2. req' \in [Reqs -> Request] /\ \A q \in Reqs \ {r} : req'[q] = req[q]
      BY <2>1, Goes DEF Pcs, Tried
    <2>3. messages' \in [Reqs -> 0 .. 1]
      BY <1>0, <2>1
    <2>. QED
      BY <1>0, <2>1, <2>2, <2>3
  <1>10. CASE Summarise(r)
    <2>1. Goto(r, "hydrate") /\ UNCHANGED <<docs, counter, usage, refs, faults, issued, broken>>
      BY <1>10 DEF Summarise
    <2>2. req' \in [Reqs -> Request] /\ \A q \in Reqs \ {r} : req'[q] = req[q]
      BY <2>1, Goes DEF Pcs, Tried
    <2>. QED
      BY <1>0, <2>1, <2>2 DEF docs
  <1>15. CASE HydrateMessage(r)
    <2>1. Goto(r, "view") /\ UNCHANGED <<docs, counter, usage, refs, faults, issued, broken>>
      BY <1>15 DEF HydrateMessage
    <2>2. req' \in [Reqs -> Request] /\ \A q \in Reqs \ {r} : req'[q] = req[q]
      BY <2>1, Goes DEF Pcs, Tried
    <2>. QED
      BY <1>0, <2>1, <2>2 DEF docs
  <1>16. CASE DeleteMessage(r)
    <2>1. /\ Goto(r, "clean_up")
          /\ UNCHANGED <<ticket, conversation, counter, usage, refs, issued>>
          /\ \/ messages' = [messages EXCEPT ![r] = 0] /\ UNCHANGED <<faults, broken>>
             \/ /\ faults < MaxFaults /\ faults' = faults + 1
                /\ broken' = TRUE /\ UNCHANGED messages
      BY <1>16 DEF DeleteMessage
    <2>2. req' \in [Reqs -> Request] /\ \A q \in Reqs \ {r} : req'[q] = req[q]
      BY <2>1, Goes DEF Pcs, Tried
    <2>3. messages' \in [Reqs -> 0 .. 1]
      BY <1>0, <2>1
    <2>4. faults' \in 0 .. MaxFaults
      BY <1>0, <2>1
    <2>5. broken' \in BOOLEAN
      BY <1>0, <2>1
    <2>. QED
      BY <1>0, <2>1, <2>2, <2>3, <2>4, <2>5
  <1>11. CASE CleanUp(r)
    <2>. PICK done \in SUBSET {"ticket", "conversation"} :
             /\ faults' = faults + (2 - Cardinality(done)) /\ faults' <= MaxFaults
             /\ broken' = (broken \/ 2 - Cardinality(done) > 0)
             /\ ticket' = IF "ticket" \in done THEN [ticket EXCEPT ![r] = NoTicket] ELSE ticket
             /\ conversation' = IF "conversation" \in done
                                THEN [conversation EXCEPT ![r] = FALSE] ELSE conversation
      BY <1>11 DEF CleanUp
    <2>1. Cardinality(done) \in 0 .. 2
      BY TwoAtMost
    <2>2. /\ faults' \in 0 .. MaxFaults /\ broken' \in BOOLEAN
          /\ ticket' \in [Reqs -> TicketDoc] /\ conversation' \in [Reqs -> BOOLEAN]
          /\ \A t \in Reqs \ {r} : ticket'[t] = ticket[t] /\ conversation'[t] = conversation[t]
      BY <1>0, <2>1, WaitingType
    <2>3. End(r, "refused") /\ UNCHANGED <<messages, counter, usage, refs, issued>>
      BY <1>11 DEF CleanUp, Refuse
    <2>. QED
      BY <1>0, <2>2, <2>3, Ends DEF Pcs
  <1>12. CASE View(r)
    <2>1. Goto(r, "usage") /\ UNCHANGED <<docs, counter, usage, refs, faults, issued, broken>>
      BY <1>12 DEF View
    <2>. QED
      BY <1>0, <2>1, Goes DEF Pcs, docs
  <1>13. CASE CountUsage(r)
    <2>1. /\ End(r, "created") /\ usage' = usage + 1
          /\ UNCHANGED <<docs, counter, refs, faults, issued, broken>>
      BY <1>13 DEF CountUsage
    <2>2. req' \in [Reqs -> Request] /\ \A q \in Reqs \ {r} : req'[q] = req[q]
      BY <2>1, Ends DEF Pcs
    <2>. QED
      BY <1>0, <2>1, <2>2 DEF docs
  <1>14. CASE Fail(r)
    <2>1. /\ \/ End(r, "created") \/ End(r, "refused") \/ End(r, "clean_up")
             \/ End(r, "delete_message")
          /\ faults' = faults + 1 /\ faults < MaxFaults
          /\ UNCHANGED <<docs, counter, usage, refs, issued, broken>>
      BY <1>14 DEF Fail
    <2>2. req' \in [Reqs -> Request] /\ \A q \in Reqs \ {r} : req'[q] = req[q]
      BY <2>1, Ends DEF Pcs
    <2>. QED
      BY <1>0, <2>1, <2>2 DEF docs
  <1>. QED
    BY <1>1, <1>2, <1>3, <1>4, <1>5, <1>6, <1>7, <1>8, <1>9, <1>10, <1>11, <1>12, <1>13, <1>14,
       <1>15, <1>16 DEF Step, Proceed

LEMMA CrashStops ==
    ASSUME TypeInv, Crash
    PROVE  /\ req' \in [Reqs -> Request]
           /\ \A r \in Reqs : IF Ended(r) THEN req'[r] = req[r] ELSE req'[r].pc = "refused"
           /\ faults' \in 0 .. MaxFaults /\ faults' # 0
  <1>1. [Waiting EXCEPT !.pc = "refused"] \in Request
        /\ [Waiting EXCEPT !.pc = "refused"].pc = "refused"
    BY WaitingType DEF Request, Waiting, Pcs
  <1>2. \A r \in Reqs : req[r] \in Request
    BY DEF TypeInv
  <1>3. req' = [r \in Reqs |-> IF Ended(r) THEN req[r] ELSE [Waiting EXCEPT !.pc = "refused"]]
    BY DEF Crash
  <1>4. faults' \in 0 .. MaxFaults /\ faults' # 0
    BY CreationAssumption DEF Crash, TypeInv
  <1>. QED
    BY <1>1, <1>2, <1>3, <1>4

LEMMA TypeStep == TypeInv /\ [Next]_vars => TypeInv'
  <1>1. TypeInv /\ UNCHANGED vars => TypeInv'
    BY DEF TypeInv, vars, docs, refs
  <1>2. ASSUME TypeInv, NEW r \in Reqs, Step(r), Watch PROVE TypeInv'
    <2>1. organization' = organization /\ usable' = usable
      BY <1>2, OneSteps DEF refs
    <2>2. organization' \in Orgs \cup {None}
      BY <1>2, <2>1 DEF TypeInv
    <2>3. seen' \in [Reqs -> [orgs : SUBSET (Orgs \cup {None}), ref : BOOLEAN]]
      BY <1>2, <2>2, SeenType
    <2>. QED
      BY <1>2, <2>1, <2>2, <2>3, OneSteps, OthersKept DEF TypeInv
  <1>3. ASSUME TypeInv, Crash, Watch PROVE TypeInv'
    <2>1. organization' \in Orgs \cup {None}
      BY <1>3 DEF TypeInv, Crash, refs
    <2>2. seen' \in [Reqs -> [orgs : SUBSET (Orgs \cup {None}), ref : BOOLEAN]]
      BY <1>3, <2>1, SeenType
    <2>3. req' \in [Reqs -> Request] /\ faults' \in 0 .. MaxFaults
      BY <1>3, CrashStops
    <2>. QED
      BY <1>3, <2>1, <2>2, <2>3 DEF TypeInv, Crash, docs, refs
  <1>4. ASSUME TypeInv, ChangeReferences, Watch PROVE TypeInv'
    <2>1. organization' \in Orgs \cup {None} /\ usable' \subseteq Labels \cup Members
      <3>1. \A r \in Reqs : req[r].ref \in Refs
        BY <1>4 DEF TypeInv, Request
      <3>. QED
        BY <1>4, <3>1 DEF ChangeReferences, TypeInv, Refs
    <2>2. seen' \in [Reqs -> [orgs : SUBSET (Orgs \cup {None}), ref : BOOLEAN]]
      BY <1>4, <2>1, SeenType
    <2>. QED
      BY <1>4, <2>1, <2>2 DEF TypeInv, ChangeReferences, docs
  <1>. QED
    BY <1>1, <1>2, <1>3, <1>4 DEF Next

LEMMA Typed == Spec => []TypeInv
  <1>1. Init => TypeInv
    <2>. SUFFICES ASSUME Init PROVE TypeInv
      OBVIOUS
    <2>1. /\ ticket \in [Reqs -> TicketDoc] /\ req \in [Reqs -> Request]
          /\ conversation \in [Reqs -> BOOLEAN] /\ messages \in [Reqs -> 0 .. 1]
      BY WaitingType DEF Init
    <2>2. seen \in [Reqs -> [orgs : SUBSET (Orgs \cup {None}), ref : BOOLEAN]]
      BY DEF Init, NothingSeen
    <2>3. /\ counter \in Nat /\ usage \in Nat /\ faults \in 0 .. MaxFaults
          /\ issued \subseteq Reqs \X Nat /\ broken \in BOOLEAN
          /\ unread \in [Reqs -> Unread]
      <3>1. counter = 0 /\ usage = 0 /\ faults = 0 /\ issued = {} /\ broken = FALSE
        BY DEF Init
      <3>2. 0 \in 0 .. MaxFaults /\ 0 \in Nat
        BY CreationAssumption
      <3>3. {} \subseteq Reqs \X Nat
        OBVIOUS
      <3>4. unread \in [Reqs -> Unread]
        BY DEF Init, Unread
      <3>. QED
        BY <3>1, <3>2, <3>3, <3>4
    <2>4. organization \in Orgs \cup {None} /\ usable \subseteq Labels \cup Members
      BY DEF Init
    <2>. QED
      BY <2>1, <2>2, <2>3, <2>4 DEF TypeInv
  <1>. QED
    BY <1>1, TypeStep, PTL DEF Spec

(* Where a request goes from each of its awaits.                           *)
Moves(from, to) ==
    \/ from = "waiting" /\ to = "contact"
    \/ from = "contact" /\ to \in {"assignee", "refused"}
    \/ from = "assignee" /\ to \in {"labels", "refused"}
    \/ from = "labels" /\ to \in {"number", "refused"}
    \/ from = "number" /\ to = "ticket"
    \/ from \in Tried /\ to \in (Tried \ {"ticket"}) \cup {"view", "delete_message", "clean_up"}
    \/ from = "delete_message" /\ to = "clean_up"
    \/ from = "clean_up" /\ to = "refused"
    \/ from = "view" /\ to \in {"usage", "refused"}
    \/ from = "usage" /\ to = "created"

LEMMA StepMoves ==
    ASSUME TypeInv, NEW r \in Reqs, Step(r)
    PROVE  Moves(req[r].pc, req'[r].pc)
  <1>. USE DEF Moves, Tried, At
  <1>0. /\ \A pc \in Pcs : End(r, pc) \/ Goto(r, pc) => req'[r].pc = pc
        /\ req \in [Reqs -> Request] /\ req[r] \in Request
    BY Ends, Goes DEF TypeInv
  <1>1. CASE Begin(r)
    BY <1>0, <1>1 DEF Begin, Waiting
  <1>2. CASE ResolveOrganization(r)
    <2>1. CASE Refuse(r)
      BY <1>0, <1>2, <2>1 DEF ResolveOrganization, Refuse, Pcs
    <2>2. CASE ~Refuse(r)
      <3>1. req' = [req EXCEPT ![r] = [req[r] EXCEPT !.organization = Resolved(req[r].asked),
                                                     !.pc = "assignee"]]
        BY <1>0, <1>2, <2>2 DEF ResolveOrganization
      <3>2. req'[r].pc = "assignee"
        BY <1>0, <3>1 DEF Request
      <3>. QED
        BY <1>2, <3>2 DEF ResolveOrganization
    <2>. QED
      BY <2>1, <2>2
  <1>3. CASE ResolveAssignee(r)
    BY <1>0, <1>3 DEF ResolveAssignee, Refuse, Pcs, Resolving
  <1>4. CASE ResolveLabels(r)
    BY <1>0, <1>4 DEF ResolveLabels, Refuse, Pcs, Resolving
  <1>5. CASE AllocateNumber(r)
    <2>1. req' = [req EXCEPT ![r] = [req[r] EXCEPT !.number = NextNumber(r), !.pc = "ticket"]]
      BY <1>0, <1>5 DEF AllocateNumber
    <2>2. req'[r].pc = "ticket"
      BY <1>0, <2>1 DEF Request
    <2>. QED
      BY <1>5, <2>2 DEF AllocateNumber
  <1>6. CASE CreateTicket(r)
    BY <1>0, <1>6 DEF CreateTicket, Waiting
  <1>7. CASE CreateConversation(r)
    BY <1>0, <1>7 DEF CreateConversation, Pcs
  <1>8. CASE LinkConversation(r)
    <2>1. req'[r].pc \in {"message", "view"}
      BY <1>0, <1>8 DEF LinkConversation, Pcs
    <2>. QED
      BY <1>8, <2>1 DEF LinkConversation
  <1>9. CASE CreateMessage(r)
    BY <1>0, <1>9 DEF CreateMessage, Pcs
  <1>10. CASE Summarise(r)
    BY <1>0, <1>10 DEF Summarise, Pcs
  <1>15. CASE HydrateMessage(r)
    BY <1>0, <1>15 DEF HydrateMessage, Pcs
  <1>16. CASE DeleteMessage(r)
    BY <1>0, <1>16 DEF DeleteMessage, Pcs
  <1>11. CASE CleanUp(r)
    BY <1>0, <1>11 DEF CleanUp, Refuse, Pcs
  <1>12. CASE View(r)
    BY <1>0, <1>12 DEF View, Pcs
  <1>13. CASE CountUsage(r)
    BY <1>0, <1>13 DEF CountUsage, Pcs
  <1>14. CASE Fail(r)
    <2>1. \/ req[r].pc = "usage" /\ End(r, "created")
          \/ req[r].pc = "view" /\ End(r, "refused")
          \/ req[r].pc \in Tried /\ (End(r, "delete_message") \/ End(r, "clean_up"))
      BY <1>14 DEF Fail
    <2>. QED
      BY <1>0, <2>1 DEF Pcs
  <1>. QED
    BY <1>1, <1>2, <1>3, <1>4, <1>5, <1>6, <1>7, <1>8, <1>9, <1>10, <1>11, <1>12, <1>13, <1>14,
       <1>15, <1>16 DEF Step, Proceed

----------------------------------------------------------------------------
(* What each request has written. *)

LEMMA WrittenStep ==
    ASSUME TypeInv, AllWritten, NEW r \in Reqs, Step(r), Watch
    PROVE  AllWritten'
  <1>. USE DEF Resolving, Tried
  <1>0. /\ ticket \in [Reqs -> TicketDoc] /\ conversation \in [Reqs -> BOOLEAN]
        /\ req \in [Reqs -> Request] /\ req[r] \in Request /\ ticket[r] \in TicketDoc
        /\ conversation[r] \in BOOLEAN
        /\ ticket[r].exists \in BOOLEAN /\ ticket[r].linked \in BOOLEAN
        /\ Written(req[r], ticket[r], conversation[r], broken)
    BY DEF TypeInv, AllWritten, TicketDoc
  <1>1. broken => broken'
    <2>1. CASE CleanUp(r) \/ DeleteMessage(r)
      BY <2>1 DEF CleanUp, DeleteMessage
    <2>2. CASE ~CleanUp(r) /\ ~DeleteMessage(r)
      BY <2>2, Kept
    <2>. QED
      BY <2>1, <2>2
  <1>2. ASSUME NEW t \in Reqs \ {r} PROVE Written(req'[t], ticket'[t], conversation'[t], broken')
    <2>1. Written(req[t], ticket[t], conversation[t], broken)
      BY DEF AllWritten
    <2>2. req'[t] = req[t] /\ ticket'[t] = ticket[t] /\ conversation'[t] = conversation[t]
      BY OneSteps
    <2>. QED
      BY <1>1, <2>1, <2>2 DEF Written
  <1>3. Written(req'[r], ticket'[r], conversation'[r], broken')
    \* The documents stay and the request goes on.
    <2>1. ASSUME UNCHANGED <<ticket, conversation>>,
                 \/ /\ req[r].pc \in {"waiting"} \cup Resolving
                    /\ req'[r].pc \in {"waiting", "refused"} \cup Resolving
                 \/ /\ req[r].pc \in {"message", "summaries", "hydrate", "view", "usage"}
                    /\ req'[r].pc \in {"summaries", "hydrate", "view", "usage", "created", "refused"}
                 \/ req'[r].pc \in {"delete_message", "clean_up"}
          PROVE  Written(req'[r], ticket'[r], conversation'[r], broken')
      BY <1>0, <2>1 DEF Written, NoTicket
    <2>2. CASE Begin(r)
      <3>1. /\ req[r].pc = "waiting" /\ UNCHANGED <<ticket, conversation>> /\ broken' = broken
            /\ req'[r].pc = "contact"
        BY <1>0, <2>2 DEF Begin, At, docs, Waiting
      <3>. QED
        BY <2>1, <3>1
    <2>3. CASE ResolveOrganization(r)
      <3>1. /\ req[r].pc = "contact" /\ UNCHANGED <<ticket, conversation>> /\ broken' = broken
            /\ req'[r].pc \in {"refused", "assignee"}
        <4>1. CASE Refuse(r)
          BY <2>3, <4>1, Ends DEF ResolveOrganization, At, docs, Refuse, Pcs
        <4>2. CASE ~Refuse(r)
          <5>1. req' = [req EXCEPT ![r] = [req[r] EXCEPT !.organization = Resolved(req[r].asked),
                                                         !.pc = "assignee"]]
            BY <1>0, <2>3, <4>2 DEF ResolveOrganization
          <5>2. req'[r].pc = "assignee"
            BY <1>0, <5>1 DEF Request
          <5>. QED
            BY <2>3, <5>2 DEF ResolveOrganization, At, docs
        <4>. QED
          BY <4>1, <4>2
      <3>. QED
        BY <2>1, <3>1
    <2>4. CASE ResolveAssignee(r)
      <3>1. /\ req[r].pc = "assignee" /\ UNCHANGED <<ticket, conversation>> /\ broken' = broken
            /\ Goto(r, "labels") \/ End(r, "refused")
        BY <2>4 DEF ResolveAssignee, At, docs, Refuse
      <3>2. req'[r].pc \in {"refused", "labels"}
        BY <3>1, Ends, Goes DEF Pcs
      <3>. QED
        BY <2>1, <3>1, <3>2
    <2>5. CASE ResolveLabels(r)
      <3>1. /\ req[r].pc = "labels" /\ UNCHANGED <<ticket, conversation>> /\ broken' = broken
            /\ Goto(r, "number") \/ End(r, "refused")
        BY <2>5 DEF ResolveLabels, At, docs, Refuse
      <3>2. req'[r].pc \in {"refused", "number"}
        BY <3>1, Ends, Goes DEF Pcs
      <3>. QED
        BY <2>1, <3>1, <3>2
    <2>6. CASE AllocateNumber(r)
      <3>1. /\ req[r].pc = "number" /\ UNCHANGED <<ticket, conversation>> /\ broken' = broken
            /\ req'[r].pc = "ticket"
        BY <1>0, <2>6 DEF AllocateNumber, At, docs, Request
      <3>. QED
        BY <2>1, <3>1
    <2>7. CASE CreateTicket(r)
      <3>1. /\ req[r].pc = "ticket" /\ req'[r].pc = "conversation"
            /\ conversation'[r] = conversation[r]
            /\ ticket'[r] =
                 [exists |-> TRUE, number |-> req[r].number, organization |-> req[r].organization,
                  ref |-> req[r].ref, status |-> IF req[r].ref \in Members THEN "open" ELSE "new",
                  linked |-> FALSE]
        BY <1>0, <2>7 DEF CreateTicket, At, Waiting
      <3>. QED
        BY <1>0, <3>1 DEF Written
    <2>8. CASE CreateConversation(r)
      <3>1. /\ req[r].pc = "conversation" /\ Goto(r, "link") /\ ticket' = ticket
            /\ conversation'[r] = TRUE
        BY <1>0, <2>8 DEF CreateConversation, At
      <3>2. req'[r].pc = "link"
        BY <3>1, Goes DEF Pcs
      <3>. QED
        BY <1>0, <3>1, <3>2 DEF Written
    <2>9. CASE LinkConversation(r)
      <3>1. /\ req[r].pc = "link"
            /\ Goto(r, "message") \/ Goto(r, "view")
            /\ ticket'[r] = [ticket[r] EXCEPT !.linked = TRUE]
            /\ conversation' = conversation
        BY <1>0, <2>9 DEF LinkConversation, At
      <3>2. req'[r].pc \in {"message", "view"}
        BY <3>1, Goes DEF Pcs
      <3>3. /\ ticket'[r].linked = TRUE /\ ticket'[r].exists = ticket[r].exists
            /\ ticket'[r].status = ticket[r].status /\ ticket'[r].ref = ticket[r].ref
        BY <1>0, <3>1 DEF TicketDoc
      <3>4. ticket[r].exists /\ conversation[r] /\ conversation'[r] = conversation[r]
        BY <1>0, <3>1 DEF Written
      <3>5. (ticket[r].status = "open") <=> (ticket[r].ref \in Members)
        BY <1>0 DEF Written
      <3>. QED
        BY <3>2, <3>3, <3>4, <3>5 DEF Written
    <2>10. CASE CreateMessage(r)
      <3>1. /\ req[r].pc = "message" /\ Goto(r, "summaries")
            /\ UNCHANGED <<ticket, conversation>> /\ broken' = broken
        BY <2>10 DEF CreateMessage, At
      <3>2. req'[r].pc = "summaries"
        BY <3>1, Goes DEF Pcs
      <3>. QED
        BY <2>1, <3>1, <3>2
    <2>11. CASE Summarise(r)
      <3>1. /\ req[r].pc = "summaries" /\ Goto(r, "hydrate")
            /\ UNCHANGED <<ticket, conversation>>
        BY <2>11 DEF Summarise, At, docs
      <3>2. req'[r].pc = "hydrate"
        BY <3>1, Goes DEF Pcs
      <3>. QED
        BY <2>1, <3>1, <3>2
    <2>16. CASE HydrateMessage(r)
      <3>1. /\ req[r].pc = "hydrate" /\ Goto(r, "view")
            /\ UNCHANGED <<ticket, conversation>>
        BY <2>16 DEF HydrateMessage, At, docs
      <3>2. req'[r].pc = "view"
        BY <3>1, Goes DEF Pcs
      <3>. QED
        BY <2>1, <3>1, <3>2
    <2>17. CASE DeleteMessage(r)
      <3>1. Goto(r, "clean_up") /\ UNCHANGED <<ticket, conversation>>
        BY <2>17 DEF DeleteMessage
      <3>2. req'[r].pc = "clean_up"
        BY <3>1, Goes DEF Pcs
      <3>. QED
        BY <2>1, <3>1, <3>2
    <2>12. CASE View(r)
      <3>1. /\ req[r].pc = "view" /\ Goto(r, "usage")
            /\ UNCHANGED <<ticket, conversation>> /\ broken' = broken
        BY <2>12 DEF View, At, docs
      <3>2. req'[r].pc = "usage"
        BY <3>1, Goes DEF Pcs
      <3>. QED
        BY <2>1, <3>1, <3>2
    <2>13. CASE CountUsage(r)
      <3>1. /\ req[r].pc = "usage" /\ End(r, "created")
            /\ UNCHANGED <<ticket, conversation>> /\ broken' = broken
        BY <2>13 DEF CountUsage, At, docs
      <3>2. req'[r].pc = "created"
        BY <3>1, Ends DEF Pcs
      <3>. QED
        BY <2>1, <3>1, <3>2
    <2>14. CASE Fail(r)
      <3>1. /\ \/ req[r].pc = "usage" /\ End(r, "created")
               \/ req[r].pc = "view" /\ End(r, "refused")
               \/ End(r, "delete_message") \/ End(r, "clean_up")
            /\ UNCHANGED <<ticket, conversation>>
        BY <2>14 DEF Fail, At, docs
      <3>2. \/ req[r].pc = "usage" /\ req'[r].pc = "created"
            \/ req[r].pc = "view" /\ req'[r].pc = "refused"
            \/ req'[r].pc \in {"delete_message", "clean_up"}
        BY <3>1, Ends DEF Pcs
      <3>. QED
        BY <2>1, <3>1, <3>2
    <2>15. CASE CleanUp(r)
      <3>. PICK done \in SUBSET {"ticket", "conversation"} :
               /\ broken' = (broken \/ 2 - Cardinality(done) > 0)
               /\ ticket' = IF "ticket" \in done THEN [ticket EXCEPT ![r] = NoTicket] ELSE ticket
               /\ conversation' = IF "conversation" \in done
                                  THEN [conversation EXCEPT ![r] = FALSE] ELSE conversation
        BY <2>15 DEF CleanUp
      <3>1. req'[r].pc = "refused"
        BY <2>15, Ends DEF CleanUp, Refuse, Pcs
      <3>2. done # {"ticket", "conversation"} => broken'
        BY TwoAtMost
      <3>3. /\ ticket'[r] = IF "ticket" \in done THEN NoTicket ELSE ticket[r]
            /\ conversation'[r] = IF "conversation" \in done THEN FALSE ELSE conversation[r]
        BY <1>0
      <3>4. (NoTicket.status = "open") <=> (NoTicket.ref \in Members)
        BY CreationAssumption DEF NoTicket
      <3>5. CASE done = {"ticket", "conversation"}
        <4>1. ticket'[r] = NoTicket /\ conversation'[r] = FALSE
          BY <3>3, <3>5
        <4>2. NoTicket.exists = FALSE /\ NoTicket.linked = FALSE
          BY DEF NoTicket
        <4>. QED
          BY <3>1, <3>4, <4>1, <4>2 DEF Written
      <3>6. CASE done # {"ticket", "conversation"}
        BY <1>0, <3>1, <3>2, <3>3, <3>4, <3>6 DEF Written
      <3>. QED
        BY <3>5, <3>6
    <2>. QED
      BY <2>2, <2>3, <2>4, <2>5, <2>6, <2>7, <2>8, <2>9, <2>10, <2>11, <2>12, <2>13, <2>14, <2>15,
         <2>16, <2>17 DEF Step, Proceed
  <1>. QED
    BY <1>2, <1>3 DEF AllWritten

LEMMA WrittenInv == Spec => []AllWritten
  <1>1. Init => AllWritten
    <2>. SUFFICES ASSUME Init, NEW t \in Reqs
                  PROVE  Written(req[t], ticket[t], conversation[t], broken)
      BY DEF AllWritten
    <2>1. req[t].pc = "waiting" /\ ticket[t] = NoTicket /\ conversation[t] = FALSE
      BY DEF Init, Waiting
    <2>2. (NoTicket.status = "open") <=> (NoTicket.ref \in Members)
      BY CreationAssumption DEF NoTicket
    <2>. QED
      BY <2>1, <2>2 DEF Written
  <1>2. TypeInv /\ AllWritten /\ [Next]_vars => AllWritten'
    <2>1. AllWritten /\ UNCHANGED vars => AllWritten'
      BY DEF AllWritten, vars, docs
    <2>2. ASSUME TypeInv, AllWritten, Crash PROVE AllWritten'
      <3>1. /\ broken' /\ UNCHANGED <<ticket, conversation>>
        BY <2>2 DEF Crash, docs
      <3>2. ASSUME NEW t \in Reqs PROVE Written(req'[t], ticket'[t], conversation'[t], broken')
        <4>1. Written(req[t], ticket[t], conversation[t], broken)
          BY <2>2 DEF AllWritten
        <4>2. IF Ended(t) THEN req'[t] = req[t] ELSE req'[t].pc = "refused"
          BY <2>2, CrashStops
        <4>. QED
          BY <3>1, <4>1, <4>2 DEF Written, Resolving
      <3>. QED
        BY <3>2 DEF AllWritten
    <2>3. ASSUME AllWritten, ChangeReferences PROVE AllWritten'
      BY <2>3 DEF ChangeReferences, AllWritten, docs
    <2>. QED
      BY <2>1, <2>2, <2>3, WrittenStep DEF Next
  <1>. QED
    BY <1>1, <1>2, Typed, PTL DEF Spec

----------------------------------------------------------------------------
(* What is left of it. *)

(* The request goes on, and the messages and what has been read stay.      *)
LEMMA WholeGoes ==
    ASSUME TypeInv, AllWritten, AllWhole, NEW r \in Reqs, NEW pc \in Pcs, Goto(r, pc),
           messages' = messages, unread' = unread,
           \/ req[r].pc \in Resolving /\ pc \in Resolving
           \/ req[r].pc = "conversation" /\ pc = "link"
           \/ req[r].pc = "link" /\ pc = IF req[r].message THEN "message" ELSE "view"
           \/ req[r].pc = "summaries" /\ pc = "hydrate"
           \/ req[r].pc = "hydrate" /\ pc = "view"
           \/ req[r].pc = "view" /\ pc = "usage"
    PROVE  Whole(req'[r], ticket'[r], messages'[r], unread'[r], broken')
  <1>1. Whole(req[r], ticket[r], messages[r], unread[r], broken)
    BY DEF AllWhole
  <1>2. req'[r].pc = pc /\ req'[r].message = req[r].message /\ req[r].message \in BOOLEAN
    BY Goes DEF TypeInv, Request
  <1>. QED
    BY <1>1, <1>2 DEF Whole, Resolving

(* The request is refused before there is anything.                        *)
LEMMA WholeRefused ==
    ASSUME TypeInv, AllWritten, AllWhole, NEW r \in Reqs, req[r].pc \in Resolving, Refuse(r),
           UNCHANGED <<ticket, messages, unread>>
    PROVE  Whole(req'[r], ticket'[r], messages'[r], unread'[r], broken')
  <1>1. Whole(req[r], ticket[r], messages[r], unread[r], broken)
    BY DEF AllWhole
  <1>2. req'[r].pc = "refused"
    BY Ends DEF Refuse, Pcs
  <1>3. ticket[r] = NoTicket
    BY DEF AllWritten, Written
  <1>4. ~ticket[r].exists /\ None # "ticket"
    BY <1>3 DEF NoTicket, None
  <1>. QED
    BY <1>1, <1>2, <1>4 DEF Whole, Resolving

LEMMA WholeStep ==
    ASSUME TypeInv, AllWritten, AllWhole, NEW r \in Reqs, Step(r), Watch
    PROVE  AllWhole'
  <1>0. /\ req \in [Reqs -> Request] /\ req[r] \in Request /\ req[r].message \in BOOLEAN
        /\ messages \in [Reqs -> 0 .. 1] /\ messages[r] \in 0 .. 1
        /\ ticket \in [Reqs -> TicketDoc] /\ unread \in [Reqs -> Unread]
        /\ Whole(req[r], ticket[r], messages[r], unread[r], broken)
        /\ Written(req[r], ticket[r], conversation[r], broken)
    BY DEF TypeInv, AllWhole, AllWritten, Request
  <1>1. broken => broken'
    <2>1. CASE CleanUp(r) \/ DeleteMessage(r)
      BY <2>1 DEF CleanUp, DeleteMessage
    <2>2. CASE ~CleanUp(r) /\ ~DeleteMessage(r)
      BY <2>2, Kept
    <2>. QED
      BY <2>1, <2>2
  <1>2. ASSUME NEW t \in Reqs \ {r}
        PROVE  Whole(req'[t], ticket'[t], messages'[t], unread'[t], broken')
    <2>1. Whole(req[t], ticket[t], messages[t], unread[t], broken)
      BY DEF AllWhole
    <2>2. /\ req'[t] = req[t] /\ ticket'[t] = ticket[t]
          /\ messages'[t] = messages[t] /\ unread'[t] = unread[t]
      BY OneSteps, OthersKept
    <2>. QED
      BY <1>1, <2>1, <2>2 DEF Whole
  <1>3. ASSUME Proceed(r), unread' = unread
        PROVE  Whole(req'[r], ticket'[r], messages'[r], unread'[r], broken')
    <2>. USE <1>3
    <2>1. CASE Begin(r)
      <3>1. req[r].pc = "waiting" /\ req'[r].pc = "contact" /\ messages' = messages
        BY <1>0, <2>1 DEF Begin, At, docs, Waiting
      <3>. QED
        BY <1>0, <3>1 DEF Whole, Resolving
    <2>2. CASE ResolveOrganization(r)
      <3>1. req[r].pc = "contact" /\ UNCHANGED <<ticket, messages, unread>>
        BY <2>2 DEF ResolveOrganization, At, docs
      <3>2. CASE Refuse(r)
        BY <3>1, <3>2, WholeRefused DEF Resolving
      <3>3. CASE ~Refuse(r)
        <4>1. req' = [req EXCEPT ![r] = [req[r] EXCEPT !.organization = Resolved(req[r].asked),
                                                       !.pc = "assignee"]]
          BY <1>0, <2>2, <3>3 DEF ResolveOrganization
        <4>2. req'[r].pc = "assignee"
          BY <1>0, <4>1 DEF Request
        <4>. QED
          BY <1>0, <3>1, <4>2 DEF Whole, Resolving
      <3>. QED
        BY <3>2, <3>3
    <2>3. CASE ResolveAssignee(r)
      <3>1. /\ req[r].pc = "assignee" /\ UNCHANGED <<ticket, messages, unread>>
            /\ Goto(r, "labels") \/ Refuse(r)
        BY <2>3 DEF ResolveAssignee, At, docs
      <3>. QED
        BY <3>1, WholeRefused, WholeGoes DEF Resolving, Pcs
    <2>4. CASE ResolveLabels(r)
      <3>1. /\ req[r].pc = "labels" /\ UNCHANGED <<ticket, messages, unread>>
            /\ Goto(r, "number") \/ Refuse(r)
        BY <2>4 DEF ResolveLabels, At, docs
      <3>. QED
        BY <3>1, WholeRefused, WholeGoes DEF Resolving, Pcs
    <2>5. CASE AllocateNumber(r)
      <3>1. req[r].pc = "number" /\ req'[r].pc = "ticket" /\ messages' = messages
        BY <1>0, <2>5 DEF AllocateNumber, At, docs, Request
      <3>. QED
        BY <1>0, <3>1 DEF Whole, Resolving
    <2>6. CASE CreateTicket(r)
      <3>1. req[r].pc = "ticket" /\ req'[r].pc = "conversation" /\ messages' = messages
        BY <1>0, <2>6 DEF CreateTicket, At, Waiting
      <3>. QED
        BY <1>0, <3>1 DEF Whole, Resolving
    <2>7. CASE CreateConversation(r)
      <3>1. req[r].pc = "conversation" /\ Goto(r, "link") /\ messages' = messages
        BY <2>7 DEF CreateConversation, At
      <3>. QED
        BY <3>1, WholeGoes DEF Pcs, Tried
    <2>8. CASE LinkConversation(r)
      <3>1. /\ req[r].pc = "link" /\ messages' = messages
            /\ Goto(r, IF req[r].message THEN "message" ELSE "view")
        BY <2>8 DEF LinkConversation, At
      <3>2. CASE req[r].message
        BY <3>1, <3>2, WholeGoes DEF Pcs, Tried
      <3>3. CASE ~req[r].message
        BY <3>1, <3>3, WholeGoes DEF Pcs, Tried
      <3>. QED
        BY <3>2, <3>3
    <2>9. CASE CreateMessage(r)
      <3>1. /\ req[r].pc = "message" /\ Goto(r, "summaries")
            /\ messages' = [messages EXCEPT ![r] = 1]
        BY <2>9 DEF CreateMessage, At
      <3>2. req'[r].pc = "summaries" /\ req'[r].message = req[r].message
        BY <3>1, Goes DEF Pcs, Tried
      <3>3. messages'[r] = 1
        BY <1>0, <3>1
      <3>. QED
        BY <1>0, <3>1, <3>2, <3>3 DEF Whole, Resolving
    <2>10. CASE Summarise(r)
      <3>1. req[r].pc = "summaries" /\ Goto(r, "hydrate") /\ messages' = messages
        BY <2>10 DEF Summarise, At, docs
      <3>. QED
        BY <3>1, WholeGoes DEF Pcs, Tried
    <2>11. CASE HydrateMessage(r)
      <3>1. req[r].pc = "hydrate" /\ Goto(r, "view") /\ messages' = messages
        BY <2>11 DEF HydrateMessage, At, docs
      <3>. QED
        BY <3>1, WholeGoes DEF Pcs, Tried
    <2>12. CASE DeleteMessage(r)
      <3>1. /\ req[r].pc = "delete_message" /\ Goto(r, "clean_up")
            /\ messages' = [messages EXCEPT ![r] = 0] \/ broken' = TRUE
        BY <2>12 DEF DeleteMessage, At
      <3>2. req'[r].pc = "clean_up"
        BY <3>1, Goes DEF Pcs
      <3>3. messages'[r] = 0 \/ broken'
        BY <1>0, <3>1
      <3>. QED
        BY <1>0, <3>1, <3>2, <3>3 DEF Whole, Resolving, None
    <2>13. CASE CleanUp(r)
      <3>. PICK done \in SUBSET {"ticket", "conversation"} :
               /\ broken' = (broken \/ 2 - Cardinality(done) > 0)
               /\ ticket' = IF "ticket" \in done THEN [ticket EXCEPT ![r] = NoTicket] ELSE ticket
        BY <2>13 DEF CleanUp
      <3>1. req[r].pc = "clean_up" /\ messages' = messages /\ Refuse(r)
        BY <2>13 DEF CleanUp, At
      <3>2. req'[r].pc = "refused"
        BY <3>1, Ends DEF Refuse, Pcs
      <3>3. done # {"ticket", "conversation"} => broken'
        BY TwoAtMost
      <3>4. ~broken' => ~ticket'[r].exists
        BY <1>0, <3>3 DEF NoTicket
      <3>. QED
        BY <1>0, <1>1, <3>1, <3>2, <3>4 DEF Whole, Resolving
    <2>14. CASE View(r)
      <3>1. req[r].pc = "view" /\ Goto(r, "usage") /\ messages' = messages
        BY <2>14 DEF View, At, docs
      <3>. QED
        BY <3>1, WholeGoes DEF Pcs
    <2>15. CASE CountUsage(r)
      <3>1. req[r].pc = "usage" /\ End(r, "created") /\ messages' = messages
        BY <2>15 DEF CountUsage, At, docs
      <3>2. req'[r].pc = "created" /\ req'[r].message = req[r].message
        BY <3>1, Ends DEF Pcs
      <3>. QED
        BY <1>0, <3>1, <3>2 DEF Whole, Resolving
    <2>. QED
      BY <2>1, <2>2, <2>3, <2>4, <2>5, <2>6, <2>7, <2>8, <2>9, <2>10, <2>11, <2>12, <2>13,
         <2>14, <2>15 DEF Proceed
  <1>4. ASSUME Fail(r)
        PROVE  Whole(req'[r], ticket'[r], messages'[r], unread'[r], broken')
    <2>0. /\ messages' = messages /\ ticket' = ticket /\ broken' = broken
          /\ unread' = [unread EXCEPT ![r] = CASE At(r, "view") -> "ticket"
                                               [] At(r, "hydrate") -> "message"
                                               [] OTHER -> None]
          /\ req[r].pc \in Tried \cup {"view", "usage"}
      BY <1>4 DEF Fail, docs
    <2>1. CASE req[r].pc = "usage"
      <3>1. End(r, "created") /\ unread'[r] = None
        BY <1>0, <1>4, <2>0, <2>1 DEF Fail, At
      <3>2. req'[r].pc = "created" /\ req'[r].message = req[r].message
        BY <3>1, Ends DEF Pcs
      <3>. QED
        BY <1>0, <2>0, <2>1, <3>1, <3>2 DEF Whole, Resolving
    <2>2. CASE req[r].pc = "view"
      <3>1. End(r, "refused") /\ unread'[r] = "ticket"
        BY <1>0, <1>4, <2>0, <2>2 DEF Fail, At
      <3>2. req'[r].pc = "refused"
        BY <3>1, Ends DEF Pcs
      <3>3. ticket[r].exists
        BY <1>0, <2>2 DEF Written
      <3>. QED
        BY <1>0, <2>0, <2>2, <3>1, <3>2, <3>3 DEF Whole, Resolving, None
    <2>3. CASE req[r].pc = "hydrate"
      <3>1. End(r, "clean_up") /\ unread'[r] = "message"
        BY <1>0, <1>4, <2>0, <2>3 DEF Fail, At
      <3>2. req'[r].pc = "clean_up"
        BY <3>1, Ends DEF Pcs
      <3>. QED
        BY <1>0, <2>0, <2>3, <3>1, <3>2 DEF Whole, Resolving, None
    <2>4. CASE req[r].pc = "summaries"
      <3>1. End(r, "delete_message") /\ unread'[r] = None
        BY <1>0, <1>4, <2>0, <2>4 DEF Fail, At
      <3>2. req'[r].pc = "delete_message"
        BY <3>1, Ends DEF Pcs
      <3>. QED
        BY <1>0, <2>0, <2>4, <3>1, <3>2 DEF Whole, Resolving, None
    <2>5. CASE req[r].pc \in {"ticket", "conversation", "link", "message"}
      <3>1. End(r, "clean_up") /\ unread'[r] = None
        BY <1>0, <1>4, <2>0, <2>5 DEF Fail, At
      <3>2. req'[r].pc = "clean_up"
        BY <3>1, Ends DEF Pcs
      <3>3. messages[r] = 0
        BY <1>0, <2>5 DEF Whole, Resolving
      <3>. QED
        BY <2>0, <2>5, <3>1, <3>2, <3>3 DEF Whole, Resolving, None
    <2>. QED
      BY <2>0, <2>1, <2>2, <2>3, <2>4, <2>5 DEF Tried
  <1>. QED
    BY <1>2, <1>3, <1>4 DEF Step, AllWhole

LEMMA WholeInv == Spec => []AllWhole
  <1>1. Init => AllWhole
    BY DEF Init, AllWhole, Whole, Waiting, Resolving
  <1>2. TypeInv /\ AllWritten /\ AllWhole /\ [Next]_vars => AllWhole'
    <2>1. AllWhole /\ UNCHANGED vars => AllWhole'
      BY DEF AllWhole, vars, docs
    <2>2. ASSUME TypeInv, AllWhole, Crash PROVE AllWhole'
      <3>1. broken' /\ UNCHANGED <<ticket, messages, unread>>
        BY <2>2 DEF Crash, docs
      <3>2. ASSUME NEW t \in Reqs
            PROVE  Whole(req'[t], ticket'[t], messages'[t], unread'[t], broken')
        <4>1. Whole(req[t], ticket[t], messages[t], unread[t], broken)
          BY <2>2 DEF AllWhole
        <4>2. IF Ended(t) THEN req'[t] = req[t] ELSE req'[t].pc = "refused"
          BY <2>2, CrashStops
        <4>. QED
          BY <3>1, <4>1, <4>2 DEF Whole, Resolving
      <3>. QED
        BY <3>2 DEF AllWhole
    <2>3. ASSUME AllWhole, ChangeReferences PROVE AllWhole'
      BY <2>3 DEF ChangeReferences, AllWhole, docs
    <2>. QED
      BY <2>1, <2>2, <2>3, WholeStep DEF Next
  <1>. QED
    BY <1>1, <1>2, Typed, WrittenInv, PTL DEF Spec

----------------------------------------------------------------------------
(* The numbers. *)

LEMMA NumbersStep ==
    ASSUME TypeInv, NumbersFresh, NEW r \in Reqs, Step(r), Watch
    PROVE  NumbersFresh'
  <1>0. /\ ticket \in [Reqs -> TicketDoc] /\ req \in [Reqs -> Request] /\ req[r] \in Request
        /\ counter \in Nat /\ issued \subseteq Reqs \X Nat
        /\ \A t \in Reqs : ticket[t].number \in Nat /\ req[t].number \in Nat
    <2>1. \A t \in Reqs : ticket[t] \in TicketDoc /\ req[t] \in Request
      BY DEF TypeInv
    <2>. QED
      BY <2>1 DEF TypeInv, TicketDoc, Request
  <1>1. \A q \in Reqs \ {r} : req'[q] = req[q] /\ ticket'[q] = ticket[q]
    BY OneSteps
  <1>2. CASE AllocateNumber(r)
    <2>1. /\ counter' = counter + 1 /\ issued' = issued /\ ticket' = ticket
          /\ req'[r].number = counter + 1
      BY <1>0, <1>2 DEF AllocateNumber, NextNumber, docs, Request
    <2>2. \A q \in Reqs \ {r} : At(q, "ticket")' <=> At(q, "ticket")
      BY <1>1 DEF At
    <2>3. ASSUME NEW q \in Reqs, At(q, "ticket")'
          PROVE  /\ req'[q].number \in 1 .. counter'
                 /\ \A i \in issued' : i[2] # req'[q].number
                 /\ \A p \in Reqs : At(p, "ticket")' /\ req'[p].number = req'[q].number => p = q
      <3>1. CASE q = r
        BY <1>0, <1>1, <2>1, <2>2, <3>1 DEF NumbersFresh
      <3>2. CASE q # r
        BY <1>0, <1>1, <2>1, <2>2, <2>3, <3>2 DEF NumbersFresh
      <3>. QED
        BY <3>1, <3>2
    <2>. QED
      BY <1>0, <2>1, <2>3 DEF NumbersFresh, NumbersNeverReused
  <1>3. CASE CreateTicket(r)
    <2>1. /\ counter' = counter /\ issued' = issued \cup {<<r, req[r].number>>}
          /\ ticket'[r].number = req[r].number /\ At(r, "ticket") /\ req'[r].pc = "conversation"
      BY <1>0, <1>3 DEF CreateTicket, Waiting
    <2>2. \A q \in Reqs : At(q, "ticket")' => At(q, "ticket") /\ q # r
      BY <1>1, <2>1 DEF At
    <2>3. /\ req[r].number \in 1 .. counter
          /\ \A i \in issued : i[2] # req[r].number
          /\ \A q \in Reqs \ {r} : At(q, "ticket") => req[q].number # req[r].number
      BY <2>1 DEF NumbersFresh
    <2>4. \A t \in Reqs : ticket'[t].number \in 0 .. counter'
      BY <1>0, <1>1, <2>1, <2>3 DEF NumbersFresh
    <2>5. \A i \in issued' : i[2] \in 1 .. counter'
      BY <2>1, <2>3 DEF NumbersFresh
    <2>6. NumbersNeverReused'
      BY <2>1, <2>3 DEF NumbersFresh, NumbersNeverReused
    <2>7. ASSUME NEW q \in Reqs, At(q, "ticket")'
          PROVE  /\ req'[q].number \in 1 .. counter'
                 /\ \A i \in issued' : i[2] # req'[q].number
                 /\ \A p \in Reqs : At(p, "ticket")' /\ req'[p].number = req'[q].number => p = q
      BY <1>1, <2>1, <2>2, <2>3, <2>7 DEF NumbersFresh
    <2>. QED
      BY <2>4, <2>5, <2>6, <2>7 DEF NumbersFresh
  <1>4. CASE ~AllocateNumber(r) /\ ~CreateTicket(r)
    <2>1. counter' = counter /\ issued' = issued
      BY <1>4, Kept
    <2>2. req'[r].pc # "ticket" /\ ticket'[r].number \in {0, ticket[r].number}
      <3>1. req'[r].pc # "ticket"
        <4>1. req[r].pc = "number" => AllocateNumber(r)
          BY DEF Step, Proceed, Begin, ResolveOrganization, ResolveAssignee, ResolveLabels, CreateTicket,
                 CreateConversation, LinkConversation, CreateMessage, Summarise, HydrateMessage, DeleteMessage, CleanUp, View,
                 CountUsage, Fail, At, Tried
        <4>. QED
          BY <1>4, <4>1, StepMoves DEF Moves
      <3>2. \/ UNCHANGED ticket
            \/ LinkConversation(r)
            \/ ticket' = [ticket EXCEPT ![r] = NoTicket]
        <4>1. CASE CleanUp(r)
          BY <4>1 DEF CleanUp
        <4>2. CASE ~CleanUp(r)
          BY <1>4, <4>2 DEF Step, Proceed, Begin, ResolveOrganization, ResolveAssignee, ResolveLabels,
             CreateConversation, CreateMessage, Summarise, HydrateMessage, DeleteMessage, View, CountUsage, Fail, docs
        <4>. QED
          BY <4>1, <4>2
      <3>3. CASE LinkConversation(r)
        <4>1. ticket' = [ticket EXCEPT ![r] = [ticket[r] EXCEPT !.linked = TRUE]]
          BY <1>0, <3>3 DEF LinkConversation
        <4>. QED
          BY <1>0, <3>1, <4>1 DEF TicketDoc
      <3>. QED
        BY <1>0, <3>1, <3>2, <3>3 DEF NoTicket
    <2>3. \A q \in Reqs : At(q, "ticket")' => At(q, "ticket") /\ req'[q] = req[q]
      BY <1>1, <2>2 DEF At
    <2>4. \A t \in Reqs : ticket'[t].number \in 0 .. counter'
      BY <1>0, <1>1, <2>1, <2>2 DEF NumbersFresh
    <2>. QED
      BY <2>1, <2>3, <2>4 DEF NumbersFresh, NumbersNeverReused
  <1>. QED
    BY <1>2, <1>3, <1>4

LEMMA NumbersInv == Spec => []NumbersFresh
  <1>1. Init => NumbersFresh
    <2>. SUFFICES ASSUME Init PROVE NumbersFresh
      OBVIOUS
    <2>1. /\ issued = {} /\ counter = 0 /\ \A t \in Reqs : ticket[t].number = 0
          /\ \A r \in Reqs : req[r].pc = "waiting"
      BY DEF Init, NoTicket, Waiting
    <2>. QED
      BY <2>1 DEF NumbersFresh, NumbersNeverReused, At
  <1>2. TypeInv /\ NumbersFresh /\ [Next]_vars => NumbersFresh'
    <2>1. NumbersFresh /\ UNCHANGED vars => NumbersFresh'
      BY DEF NumbersFresh, NumbersNeverReused, At, vars, docs
    <2>2. ASSUME TypeInv, NumbersFresh, Crash PROVE NumbersFresh'
      <3>1. UNCHANGED <<ticket, counter, issued>>
        BY <2>2 DEF Crash, docs
      <3>2. \A r \in Reqs : req'[r].pc = "ticket" => req'[r] = req[r]
        BY <2>2, CrashStops
      <3>. QED
        BY <2>2, <3>1, <3>2 DEF NumbersFresh, NumbersNeverReused, At
    <2>3. ASSUME NumbersFresh, ChangeReferences PROVE NumbersFresh'
      BY <2>3 DEF ChangeReferences, NumbersFresh, NumbersNeverReused, At, docs
    <2>. QED
      BY <2>1, <2>2, <2>3, NumbersStep DEF Next
  <1>. QED
    BY <1>1, <1>2, Typed, PTL DEF Spec

(* No more numbers are allocated than requests have come to it.            *)
LEMMA CounterInv == Spec => [](CounterBounded /\ counter <= Cardinality(Reqs))
  <1>. DEFINE Early == {"waiting", "contact", "assignee", "labels", "number"}
  <1>1. IsFiniteSet(Numbered) /\ Cardinality(Numbered) \in Nat
        /\ Cardinality(Numbered) <= Cardinality(Reqs)
    BY CreationAssumption, FS_Subset, FS_CardinalityType DEF Numbered
  <1>2. IsFiniteSet(Numbered') /\ Cardinality(Numbered') \in Nat
    BY CreationAssumption, FS_Subset, FS_CardinalityType DEF Numbered
  <1>3. Cardinality(Reqs) \in Nat
    BY CreationAssumption, FS_CardinalityType
  <1>4. Init => CounterBounded
    BY <1>1 DEF Init, CounterBounded
  <1>5. TypeInv /\ CounterBounded /\ [Next]_vars => CounterBounded'
    <2>. SUFFICES ASSUME TypeInv, CounterBounded, [Next]_vars PROVE CounterBounded'
      OBVIOUS
    <2>0. counter \in Nat
      BY DEF TypeInv
    <2>1. ASSUME counter' = counter, \A r \in Reqs : req[r].pc \notin Early => req'[r].pc \notin Early
          PROVE  CounterBounded'
      <3>1. Numbered \subseteq Numbered'
        BY <2>1 DEF Numbered
      <3>2. Cardinality(Numbered) <= Cardinality(Numbered')
        BY <1>2, <3>1, FS_Subset
      <3>. QED
        BY <1>1, <1>2, <2>0, <2>1, <3>2 DEF CounterBounded
    <2>2. CASE UNCHANGED vars
      BY <2>1, <2>2 DEF vars
    <2>3. ASSUME NEW r \in Reqs, Step(r), Watch PROVE CounterBounded'
      <3>1. \A q \in Reqs : req[q].pc \notin Early => req'[q].pc \notin Early
        <4>1. \A q \in Reqs \ {r} : req'[q] = req[q]
          BY <2>3, OneSteps
        <4>2. req[r].pc \notin Early => req'[r].pc \notin Early
          BY <2>3, StepMoves DEF Moves, Tried
        <4>. QED
          BY <4>1, <4>2
      <3>2. CASE ~AllocateNumber(r)
        <4>1. counter' = counter
          BY <2>3, <3>2, Kept
        <4>. QED
          BY <2>1, <3>1, <4>1
      <3>3. CASE AllocateNumber(r)
        <4>1. counter' = counter + 1 /\ req[r].pc = "number"
          BY <3>3 DEF AllocateNumber, NextNumber, At
        <4>2. req'[r].pc = "ticket"
          BY <2>3, <4>1, StepMoves DEF Moves, Tried
        <4>3. r \notin Numbered /\ Numbered \cup {r} \subseteq Numbered'
          BY <3>1, <4>1, <4>2 DEF Numbered
        <4>4. Cardinality(Numbered \cup {r}) = Cardinality(Numbered) + 1
          BY <1>1, <4>3, FS_AddElement
        <4>5. Cardinality(Numbered \cup {r}) <= Cardinality(Numbered')
          BY <1>2, <4>3, FS_Subset
        <4>. QED
          BY <1>1, <1>2, <2>0, <4>1, <4>4, <4>5 DEF CounterBounded
      <3>. QED
        BY <3>2, <3>3
    <2>4. CASE Crash
      <3>1. \A q \in Reqs : req[q].pc \notin Early => req'[q].pc \notin Early
        BY <2>4, CrashStops
      <3>. QED
        BY <2>1, <2>4, <3>1 DEF Crash
    <2>5. CASE ChangeReferences
      BY <2>1, <2>5 DEF ChangeReferences
    <2>. QED
      BY <2>2, <2>3, <2>4, <2>5 DEF Next
  <1>6. TypeInv /\ CounterBounded => counter <= Cardinality(Reqs)
    BY <1>1, <1>3 DEF TypeInv, CounterBounded
  <1>. QED
    BY <1>4, <1>5, <1>6, Typed, PTL DEF Spec

----------------------------------------------------------------------------
(* The usage. *)

Created == {t \in Reqs : At(t, "created")}

LEMMA UsageInv == Spec => []UsageNeverExceeds
  <1>1. IsFiniteSet(Created) /\ Cardinality(Created) \in Nat
    BY CreationAssumption, FS_Subset, FS_CardinalityType DEF Created
  <1>2. IsFiniteSet(Created') /\ Cardinality(Created') \in Nat
    BY CreationAssumption, FS_Subset, FS_CardinalityType DEF Created
  <1>3. Init => UsageNeverExceeds
    <2>. SUFFICES ASSUME Init PROVE UsageNeverExceeds
      OBVIOUS
    <2>1. Created = {} /\ usage = 0
      BY DEF Init, Waiting, Created, At
    <2>. QED
      BY <2>1, FS_EmptySet DEF UsageNeverExceeds, Created
  <1>4. TypeInv /\ UsageNeverExceeds /\ [Next]_vars => UsageNeverExceeds'
    <2>. SUFFICES ASSUME TypeInv, UsageNeverExceeds, [Next]_vars PROVE UsageNeverExceeds'
      OBVIOUS
    <2>0. /\ usage \in Nat /\ faults \in Nat
          /\ usage <= Cardinality(Created) /\ (faults = 0 => usage = Cardinality(Created))
      BY CreationAssumption DEF TypeInv, UsageNeverExceeds, Created
    <2>1. ASSUME usage' <= Cardinality(Created'), faults' = 0 => usage' = Cardinality(Created')
          PROVE  UsageNeverExceeds'
      BY <2>1 DEF UsageNeverExceeds, Created
    <2>2. ASSUME Created' = Created, usage' = usage, faults' = 0 => faults = 0
          PROVE  UsageNeverExceeds'
      BY <2>0, <2>1, <2>2
    <2>3. CASE UNCHANGED vars
      <3>1. Created' = Created
        BY <2>3 DEF Created, At, vars
      <3>. QED
        BY <2>2, <2>3, <3>1 DEF vars
    <2>4. ASSUME NEW r \in Reqs, Step(r), Watch PROVE UsageNeverExceeds'
      <3>1. \A q \in Reqs \ {r} : req'[q] = req[q]
        BY <2>4, OneSteps
      <3>2. CASE req[r].pc = "usage"
        <4>1. /\ r \notin Created /\ Created' = Created \cup {r}
          BY <2>4, <3>1, <3>2, StepMoves DEF Moves, Tried, Created, At
        <4>2. Cardinality(Created') = Cardinality(Created) + 1
          BY <1>1, <4>1, FS_AddElement
        <4>3. CountUsage(r) \/ Fail(r)
          BY <2>4, <3>2 DEF Step, Proceed, Begin, ResolveOrganization, ResolveAssignee, ResolveLabels,
             AllocateNumber, CreateTicket, CreateConversation, LinkConversation, CreateMessage,
             Summarise, HydrateMessage, DeleteMessage, CleanUp, View, At
        <4>4. \/ usage' = usage + 1 /\ faults' = faults
              \/ usage' = usage /\ faults' = faults + 1
          BY <4>3 DEF CountUsage, Fail
        <4>. QED
          BY <1>1, <2>0, <2>1, <4>2, <4>4
      <3>3. CASE req[r].pc # "usage"
        <4>1. Created' = Created
          <5>1. req[r].pc # "created" /\ req'[r].pc # "created"
            BY <2>4, <3>3, StepMoves DEF Moves, Tried
          <5>. QED
            BY <3>1, <5>1 DEF Created, At
        <4>2. usage' = usage
          BY <2>4, <3>3, Kept DEF CountUsage, At
        <4>3. faults' = 0 => faults = 0
          BY <2>0, <2>4, FaultsGrow
        <4>. QED
          BY <2>2, <4>1, <4>2, <4>3
      <3>. QED
        BY <3>2, <3>3
    <2>5. CASE Crash
      <3>1. Created' = Created
        <4>1. \A q \in Reqs : At(q, "created")' <=> At(q, "created")
          BY <2>5, CrashStops DEF At, Ended
        <4>. QED
          BY <4>1 DEF Created
      <3>. QED
        BY <2>2, <2>5, <3>1, CrashStops DEF Crash
    <2>6. CASE ChangeReferences
      <3>1. Created' = Created
        BY <2>6 DEF Created, At, ChangeReferences
      <3>. QED
        BY <2>2, <2>6, <3>1 DEF ChangeReferences
    <2>. QED
      BY <2>3, <2>4, <2>5, <2>6 DEF Next
  <1>. QED
    BY <1>3, <1>4, Typed, PTL DEF Spec

----------------------------------------------------------------------------
(* The references. *)

(* The history has seen what is so after the step.                         *)
LEMMA SeenAfter ==
    ASSUME TypeInv, Watch, NEW q \in Reqs,
           req'[q].pc \in Resolving \ {"contact"} =>
              LET orgs == seen[q].orgs \cup {organization'}
              IN  \/ req'[q].organization \in orgs
                  \/ None \in orgs /\ req'[q].organization = req'[q].asked,
           req'[q].pc \in {"labels", "number", "ticket"} /\ req'[q].ref \in Members =>
              seen[q].ref \/ req'[q].ref \in usable',
           req'[q].pc \in {"number", "ticket"} => seen[q].ref \/ req'[q].ref \in usable' \cup {None}
    PROVE  Found(req'[q], organization', usable', seen'[q])
  <1>1. CASE req'[q].pc \in Resolving
    <2>. DEFINE orgs == seen[q].orgs \cup {organization'}
                ref == seen[q].ref \/ req'[q].ref \in usable' \cup {None}
    <2>1. seen'[q] = [orgs |-> orgs, ref |-> ref]
      BY <1>1 DEF Watch
    <2>. HIDE DEF orgs, ref
    <2>2. seen'[q].orgs = orgs /\ seen'[q].ref = ref
      BY <2>1
    <2>. QED
      BY <2>2 DEF Found, orgs, ref
  <1>2. CASE req'[q].pc \notin Resolving
    BY <1>2 DEF Found, Resolving
  <1>. QED
    BY <1>1, <1>2

(* A request that does not move has seen what it had.                      *)
LEMMA SeenStays ==
    ASSUME TypeInv, AllFound, Watch, NEW q \in Reqs, req'[q] = req[q]
    PROVE  Found(req'[q], organization', usable', seen'[q])
  <1>1. Found(req[q], organization, usable, seen[q])
    BY DEF AllFound
  <1>. QED
    BY <1>1, SeenAfter DEF Found

(* Nor has one that leaves the references behind.                          *)
LEMMA SeenOver ==
    ASSUME NEW q \in Reqs, req'[q].pc \notin Resolving
    PROVE  Found(req'[q], organization', usable', seen'[q])
  BY DEF Found, Resolving

LEMMA FoundStep ==
    ASSUME TypeInv, AllFound, NEW r \in Reqs, Step(r), Watch
    PROVE  AllFound'
  <1>0. /\ req \in [Reqs -> Request] /\ req[r] \in Request
        /\ Found(req[r], organization, usable, seen[r])
        /\ organization' = organization /\ usable' = usable
    BY OneSteps DEF TypeInv, AllFound, refs
  <1>1. ASSUME NEW q \in Reqs \ {r} PROVE Found(req'[q], organization', usable', seen'[q])
    BY OneSteps, SeenStays
  <1>2. Found(req'[r], organization', usable', seen'[r])
    <2>1. CASE req'[r].pc \notin Resolving
      BY <2>1, SeenOver
    <2>2. CASE req'[r].pc = "contact"
      BY <2>2, SeenAfter
    <2>3. CASE req'[r].pc = "assignee"
      <3>1. req[r].pc = "contact"
        BY <2>3, StepMoves DEF Moves, Tried
      <3>2. ResolveOrganization(r) /\ ~Refuse(r)
        <4>1. ~Fail(r)
          BY <3>1 DEF Fail, Tried
        <4>2. ResolveOrganization(r)
          BY <3>1, <4>1 DEF Step, Proceed, Begin, ResolveAssignee, ResolveLabels, AllocateNumber,
             CreateTicket, CreateConversation, LinkConversation, CreateMessage, Summarise, HydrateMessage, DeleteMessage,
             CleanUp, View, CountUsage, At
        <4>. QED
          BY <2>3, <4>2, Ends DEF Refuse, Pcs
      <3>3. req' = [req EXCEPT ![r] = [req[r] EXCEPT !.organization = Resolved(req[r].asked),
                                                     !.pc = "assignee"]]
        BY <1>0, <3>2 DEF ResolveOrganization
      <3>4. req'[r].organization = Resolved(req[r].asked) /\ req'[r].asked = req[r].asked
        BY <1>0, <3>3 DEF Request
      <3>5. \/ req'[r].organization = organization'
            \/ None = organization' /\ req'[r].organization = req'[r].asked
        BY <1>0, <3>4 DEF Resolved
      <3>. QED
        BY <2>3, <3>5, SeenAfter
    <2>4. CASE req'[r].pc \in {"labels", "number"}
      <3>1. /\ req'[r].pc = "labels" => req[r].pc = "assignee"
            /\ req'[r].pc = "number" => req[r].pc = "labels"
        BY <2>4, StepMoves DEF Moves, Tried
      <3>2. \/ req[r].pc = "assignee" /\ ResolveAssignee(r)
            \/ req[r].pc = "labels" /\ ResolveLabels(r)
        <4>1. ~Fail(r)
          BY <2>4, <3>1 DEF Fail, Tried
        <4>. QED
          BY <2>4, <3>1, <4>1 DEF Step, Proceed, Begin, ResolveOrganization, ResolveAssignee, ResolveLabels,
             AllocateNumber, CreateTicket, CreateConversation, LinkConversation, CreateMessage,
             Summarise, HydrateMessage, DeleteMessage, CleanUp, View, CountUsage, At
      <3>3. ~End(r, "refused")
        BY <2>4, Ends DEF Pcs
      <3>4. \/ Goto(r, "labels") /\ (req[r].ref \in Members => req[r].ref \in usable)
            \/ /\ Goto(r, "number") /\ req[r].pc = "labels"
               /\ req[r].ref \in Labels => req[r].ref \in usable
        BY <3>2, <3>3 DEF ResolveAssignee, ResolveLabels, Refuse
      <3>5. /\ req'[r].ref = req[r].ref /\ req'[r].asked = req[r].asked
            /\ req'[r].organization = req[r].organization
            /\ Goto(r, "labels") => req'[r].pc = "labels"
            /\ Goto(r, "number") => req'[r].pc = "number"
        BY <3>4, Goes DEF Pcs, Resolving
      <3>6. req[r].ref \in Labels \cup Members \cup {None}
        BY <1>0 DEF Request, Refs
      <3>7. \/ req[r].organization \in seen[r].orgs
            \/ None \in seen[r].orgs /\ req[r].organization = req[r].asked
        BY <1>0, <2>4, <3>1 DEF Found, Resolving
      <3>8. req[r].pc = "labels" /\ req[r].ref \in Members => seen[r].ref
        BY <1>0 DEF Found
      <3>9. /\ req'[r].ref \in Members => seen[r].ref \/ req'[r].ref \in usable'
            /\ req'[r].pc = "number" => seen[r].ref \/ req'[r].ref \in usable' \cup {None}
        BY <1>0, <3>4, <3>5, <3>6, <3>8
      <3>. QED
        BY <2>4, <3>5, <3>7, <3>9, SeenAfter
    <2>5. CASE req'[r].pc = "ticket"
      <3>1. req[r].pc = "number"
        BY <2>5, StepMoves DEF Moves, Tried
      <3>2. AllocateNumber(r)
        <4>1. ~Fail(r)
          BY <3>1 DEF Fail, Tried
        <4>. QED
          BY <3>1, <4>1 DEF Step, Proceed, Begin, ResolveOrganization, ResolveAssignee, ResolveLabels,
             CreateTicket, CreateConversation, LinkConversation, CreateMessage, Summarise, HydrateMessage, DeleteMessage,
             CleanUp, View, CountUsage, At
      <3>3. req' = [req EXCEPT ![r] = [req[r] EXCEPT !.number = NextNumber(r), !.pc = "ticket"]]
        BY <1>0, <3>2 DEF AllocateNumber
      <3>4. /\ req'[r].ref = req[r].ref /\ req'[r].asked = req[r].asked
            /\ req'[r].organization = req[r].organization
        BY <1>0, <3>3 DEF Request
      <3>5. /\ seen[r].ref
            /\ \/ req[r].organization \in seen[r].orgs
               \/ None \in seen[r].orgs /\ req[r].organization = req[r].asked
        BY <1>0, <3>1 DEF Found, Resolving
      <3>. QED
        BY <2>5, <3>4, <3>5, SeenAfter
    <2>. QED
      BY <2>1, <2>2, <2>3, <2>4, <2>5 DEF Resolving
  <1>. QED
    BY <1>1, <1>2 DEF AllFound

LEMMA FoundInv == Spec => []AllFound
  <1>1. Init => AllFound
    BY DEF Init, AllFound, Found, Waiting, Resolving
  <1>2. TypeInv /\ AllFound /\ [Next]_vars => AllFound'
    <2>1. AllFound /\ UNCHANGED vars => AllFound'
      BY DEF AllFound, vars, refs
    <2>2. ASSUME TypeInv, AllFound, Crash, Watch PROVE AllFound'
      <3>1. ASSUME NEW q \in Reqs PROVE Found(req'[q], organization', usable', seen'[q])
        <4>1. CASE Ended(q)
          BY <2>2, <4>1, CrashStops, SeenStays
        <4>2. CASE ~Ended(q)
          BY <2>2, <4>2, CrashStops, SeenOver DEF Resolving
        <4>. QED
          BY <4>1, <4>2
      <3>. QED
        BY <3>1 DEF AllFound
    <2>3. ASSUME TypeInv, AllFound, ChangeReferences, Watch PROVE AllFound'
      <3>1. req' = req
        BY <2>3 DEF ChangeReferences
      <3>2. ASSUME NEW q \in Reqs PROVE Found(req'[q], organization', usable', seen'[q])
        BY <2>3, <3>1, SeenStays
      <3>. QED
        BY <3>2 DEF AllFound
    <2>. QED
      BY <2>1, <2>2, <2>3, FoundStep DEF Next
  <1>. QED
    BY <1>1, <1>2, Typed, PTL DEF Spec

LEMMA NewTicketRefersToHeld == TypeInv /\ AllFound /\ Next => RefersToHeld
  <1>. SUFFICES ASSUME TypeInv, AllFound, Next, NEW t \in Reqs,
                       ticket'[t].exists, ~ticket[t].exists
                PROVE  /\ \/ ticket'[t].organization \in seen[t].orgs
                          \/ None \in seen[t].orgs /\ ticket'[t].organization = req[t].asked
                       /\ seen[t].ref
    BY DEF RefersToHeld
  <1>0. ticket \in [Reqs -> TicketDoc] /\ ticket[t] \in TicketDoc
    BY DEF TypeInv
  <1>1. PICK r \in Reqs : Step(r) /\ Watch
    BY DEF Next, Crash, ChangeReferences, docs
  <1>2. r = t
    BY <1>1, OneSteps
  <1>3. CreateTicket(t)
    <2>1. CASE CleanUp(t)
      <3>1. ticket' = [ticket EXCEPT ![t] = NoTicket] \/ ticket' = ticket
        BY <2>1 DEF CleanUp
      <3>. QED
        BY <1>0, <3>1 DEF NoTicket
    <2>2. CASE LinkConversation(t)
      <3>1. ticket' = [ticket EXCEPT ![t] = [ticket[t] EXCEPT !.linked = TRUE]]
        BY <1>0, <2>2 DEF LinkConversation
      <3>2. ticket'[t].exists = ticket[t].exists
        BY <1>0, <3>1 DEF TicketDoc
      <3>. QED
        BY <3>2
    <2>3. CASE ~CleanUp(t) /\ ~LinkConversation(t) /\ ~CreateTicket(t)
      <3>1. ticket' = ticket
        BY <1>1, <1>2, <2>3 DEF Step, Proceed, Begin, ResolveOrganization, ResolveAssignee, ResolveLabels,
           AllocateNumber, CreateConversation, CreateMessage, Summarise, HydrateMessage, DeleteMessage, View, CountUsage, Fail, docs
      <3>. QED
        BY <3>1
    <2>. QED
      BY <2>1, <2>2, <2>3
  <1>4. req[t].pc = "ticket" /\ ticket'[t].organization = req[t].organization
    BY <1>0, <1>3 DEF CreateTicket, At
  <1>. QED
    BY <1>4 DEF AllFound, Found, Resolving

----------------------------------------------------------------------------
(* However many requests to create a ticket overlap, fail at any await,    *)
(* are stopped, and whatever becomes of contacts, labels and members in    *)
(* the meantime (createTicket): numbers are never given twice; when no     *)
(* request is in flight, and neither the process has stopped nor a         *)
(* clean-up failed, a created ticket is there with its conversation and    *)
(* its message, and a refused request has left nothing, but for what it    *)
(* could not read back; the usage counts at most the tickets made; and a   *)
(* new ticket refers to what was valid at some moment of its request.      *)
THEOREM TicketsAreCreatedWhole == Spec => CreatedWhole
  <1>1. TypeInv /\ AllWritten /\ NumbersFresh /\ counter <= Cardinality(Reqs) => TypeOK
    <2>. SUFFICES ASSUME TypeInv, AllWritten, NumbersFresh, counter <= Cardinality(Reqs)
                  PROVE  TypeOK
      OBVIOUS
    <2>1. counter \in 0 .. Cardinality(Reqs) /\ counter \in Nat /\ Cardinality(Reqs) \in Nat
      BY CreationAssumption, FS_CardinalityType DEF TypeInv
    <2>2. ASSUME NEW t \in Reqs
          PROVE  /\ ticket[t].exists \/ ticket[t] = NoTicket
                 /\ ticket[t].number \in 0 .. Cardinality(Reqs)
                 /\ ticket[t].organization \in Orgs \cup {None}
                 /\ (ticket[t].status = "open") <=> (ticket[t].ref \in Members)
      <3>1. Written(req[t], ticket[t], conversation[t], broken) /\ ticket[t] \in TicketDoc
        BY DEF AllWritten, TypeInv
      <3>2. ticket[t].number \in 0 .. counter
        BY DEF NumbersFresh
      <3>. QED
        BY <2>1, <3>1, <3>2 DEF Written, TicketDoc
    <2>. QED
      BY <2>1, <2>2 DEF TypeOK, TypeInv
  <1>2. TypeInv /\ AllWritten /\ AllWhole => WholeOrNothing
    <2>. SUFFICES ASSUME TypeInv, AllWritten, AllWhole, InFlight = {}, ~broken, NEW t \in Reqs
                  PROVE  /\ ticket[t].exists <=> At(t, "created") \/ unread[t] = "ticket"
                         /\ conversation[t] = ticket[t].exists
                         /\ ticket[t].linked = ticket[t].exists
                         /\ At(t, "created") => messages[t] = IF req[t].message THEN 1 ELSE 0
                         /\ messages[t] = 1 => ticket[t].exists \/ unread[t] = "message"
      BY DEF WholeOrNothing
    <2>1. req[t].pc \in {"waiting", "created", "refused"}
      BY DEF InFlight, Ended
    <2>2. Written(req[t], ticket[t], conversation[t], broken)
      BY DEF AllWritten
    <2>3. /\ ticket[t].exists \in BOOLEAN /\ ticket[t].linked \in BOOLEAN
          /\ conversation[t] \in BOOLEAN
      <3>1. ticket[t] \in TicketDoc
        BY DEF TypeInv
      <3>. QED
        BY <3>1 DEF TypeInv, TicketDoc
    <2>4. NoTicket.exists = FALSE /\ NoTicket.linked = FALSE /\ None # "ticket"
      BY DEF NoTicket, None
    <2>5. Whole(req[t], ticket[t], messages[t], unread[t], broken)
      BY DEF AllWhole
    <2>6. unread[t] \in {None, "ticket", "message"}
      BY DEF TypeInv, Unread
    <2>7. conversation[t] = ticket[t].exists /\ ticket[t].linked = ticket[t].exists
      BY <2>1, <2>2, <2>3, <2>4 DEF Written
    <2>8. CASE At(t, "waiting")
      BY <2>2, <2>4, <2>5, <2>7, <2>8 DEF At, Written, Whole
    <2>9. CASE At(t, "created")
      BY <2>2, <2>4, <2>5, <2>7, <2>9 DEF At, Written, Whole
    <2>10. CASE At(t, "refused")
      BY <2>4, <2>5, <2>6, <2>7, <2>10 DEF At, Whole
    <2>. QED
      BY <2>1, <2>8, <2>9, <2>10 DEF At
  <1>3. NumbersFresh => NumbersNeverReused
    BY DEF NumbersFresh
  <1>4. TypeInv /\ AllFound /\ [Next]_vars => [RefersToHeld]_vars
    BY NewTicketRefersToHeld
  <1>5. Spec => []TypeOK /\ []NumbersNeverReused /\ []WholeOrNothing /\ []UsageNeverExceeds
    BY <1>1, <1>2, <1>3, Typed, WrittenInv, WholeInv, NumbersInv, CounterInv, UsageInv, PTL
  <1>6. Spec => ReferencesHeld
    BY <1>4, Typed, FoundInv, PTL DEF Spec, ReferencesHeld
  <1>. QED
    BY <1>5, <1>6, PTL DEF CreatedWhole
============================================================================
