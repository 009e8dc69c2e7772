-------------------------- MODULE TicketParticipants --------------------------
(***************************************************************************)
(* The participants of one ticket and participantCount, the summary of     *)
(* them that the ticket keeps.  A participant that is removed stays as a   *)
(* deleted document, which is taken up again when the user comes back.     *)
(*                                                                         *)
(* Source: src/src/modules/tickets/services/ticket-participants.service.js *)
(***************************************************************************)
EXTENDS Naturals, FiniteSets, MongooseDocument

CONSTANTS
    Users,       \* the active members of the workspace
    Operational, \* those whose role lets them collaborate
    MaxDocs,     \* bound on the documents
    Handlers,    \* requests in flight at once, 1 .. n: the first free one is next
    MaxFaults    \* bound on the awaits that fail

None == "none"
Types == {"watcher", "collaborator"}
Docs == 1 .. MaxDocs

VARIABLES doc, participantCount, req, faults,
    settled, \* history: a request that ran alone wrote the count, and no
             \* document has changed since
    last     \* history: the request that has just ended, when no opposite one
             \* for the same user overlapped it

vars == <<doc, participantCount, req, faults, settled, last>>

NoDoc == [user |-> None, type |-> None, live |-> FALSE]
Idle == [pc |-> "idle", op |-> None, user |-> None, type |-> None, doc |-> 0,
         loaded |-> NoDoc, count |-> 0, alone |-> TRUE, crossed |-> FALSE]
NoAnswer == [op |-> None, user |-> None]

At(h, pc) == req[h].pc = pc
Busy == {h \in Handlers : ~At(h, "idle")}
Goto(h, r) == req' = [req EXCEPT ![h] = r] /\ last' = NoAnswer
Refuse(h) == Goto(h, Idle)
Answer(h) == /\ req' = [req EXCEPT ![h] = Idle]
             /\ last' = IF req[h].crossed THEN NoAnswer
                        ELSE [op |-> req[h].op, user |-> req[h].user]

Of(u) == {d \in Docs : doc[d].user = u}
Live == {d \in Docs : doc[d].live}
LiveOf(u) == Of(u) \cap Live

Init ==
    /\ doc = [d \in Docs |-> NoDoc]
    /\ participantCount = 0 /\ faults = 0
    /\ req = [h \in Handlers |-> Idle]
    /\ settled = TRUE
    /\ last = NoAnswer

(* saveTicketParticipant and removeTicketParticipant; who may not be what  *)
(* was asked for is refused (resolveTicketParticipantUserForWrite).        *)
Begin(h) ==
    /\ h \notin Busy /\ (1 .. h - 1) \subseteq Busy
    /\ \E op \in {"save", "remove"}, u \in Users, type \in Types :
         LET opposite == {g \in Busy : req[g].user = u /\ req[g].op # op}
         IN  /\ op = "remove" => type = "watcher"
             /\ type = "collaborator" => u \in Operational
             /\ req' = [g \in Handlers |->
                  IF g = h THEN [Idle EXCEPT !.pc = "find", !.op = op, !.user = u, !.type = type,
                                             !.alone = (Busy = {}), !.crossed = (opposite # {})]
                  ELSE [req[g] EXCEPT !.alone = @ /\ g \notin Busy,
                                      !.crossed = @ \/ g \in opposite]]
    /\ last' = NoAnswer
    /\ UNCHANGED <<doc, participantCount, faults, settled>>

(* The document of the user: the one that is not deleted, if there is one, *)
(* or one of the deleted ones (the code takes the latest).                 *)
FindToSave(h) ==
    LET r == req[h]
        candidates == IF LiveOf(r.user) # {} THEN LiveOf(r.user) ELSE Of(r.user)
    IN  /\ At(h, "find") /\ r.op = "save"
        /\ IF candidates = {} THEN Goto(h, [r EXCEPT !.pc = "create"])
           ELSE \E d \in candidates :
                  IF doc[d].live /\ doc[d].type = r.type THEN Answer(h)
                  ELSE Goto(h, [r EXCEPT !.doc = d, !.loaded = doc[d], !.pc = "update"])
        /\ UNCHANGED <<doc, participantCount, faults, settled>>

FindToRemove(h) ==
    LET r == req[h]
    IN  /\ At(h, "find") /\ r.op = "remove"
        /\ IF LiveOf(r.user) = {} THEN Answer(h)
           ELSE \E d \in LiveOf(r.user) :
                  Goto(h, [r EXCEPT !.doc = d, !.loaded = doc[d], !.pc = "update"])
        /\ UNCHANGED <<doc, participantCount, faults, settled>>

(* A document is written, unless the index finds that the user has another *)
(* that is not deleted.                                                    *)
Write(h, d, document) ==
    IF document.live /\ LiveOf(document.user) \ {d} # {}
    THEN Refuse(h) /\ UNCHANGED <<doc, settled>>
    ELSE /\ doc' = [doc EXCEPT ![d] = document]
         /\ settled' = FALSE
         /\ Goto(h, [req[h] EXCEPT !.pc = "count", !.doc = 0, !.loaded = NoDoc])

Create(h) ==
    LET d == Cardinality({e \in Docs : doc[e] # NoDoc}) + 1
    IN  /\ At(h, "create") /\ d \in Docs
        /\ Write(h, d, [user |-> req[h].user, type |-> req[h].type, live |-> TRUE])
        /\ UNCHANGED <<participantCount, faults>>

(* save() writes what differs from what was loaded.                        *)
Update(h) ==
    LET r == req[h]
        stored == doc[r.doc]
        saved(live) == SavedPath(stored.live, r.loaded.live, live)
    IN  /\ At(h, "update")
        /\ Write(h, r.doc,
                 IF r.op = "remove" THEN [stored EXCEPT !.live = saved(FALSE)]
                 ELSE [stored EXCEPT !.live = saved(TRUE),
                                     !.type = SavedPath(@, r.loaded.type, r.type)])
        /\ UNCHANGED <<participantCount, faults>>

(* syncTicketParticipantCount: the participants are counted, and then the  *)
(* count is written.  Mutant: the stored count goes up or down by one.     *)
CountParticipants_Step(h) ==
    /\ At(h, "count")
    /\ Goto(h, [req[h] EXCEPT !.pc = "write",
                   !.count = IF req[h].op = "save" THEN participantCount + 1
                             ELSE IF participantCount > 0 THEN participantCount - 1 ELSE 0])
    /\ UNCHANGED <<doc, participantCount, faults, settled>>
CountParticipants(h) ==
    /\ At(h, "count")
    /\ Goto(h, [req[h] EXCEPT !.pc = "write", !.count = Cardinality(Live)])
    /\ UNCHANGED <<doc, participantCount, faults, settled>>

WriteCount(h) ==
    /\ At(h, "write")
    /\ participantCount' = req[h].count
    /\ settled' = req[h].alone
    /\ Answer(h)
    /\ UNCHANGED <<doc, faults>>

(* An await fails, once something has been saved.                          *)
Fail(h) ==
    /\ req[h].pc \in {"count", "write"} /\ faults < MaxFaults /\ faults' = faults + 1
    /\ Refuse(h)
    /\ UNCHANGED <<doc, participantCount, settled>>

Next == \E h \in Handlers :
    \/ Begin(h) \/ FindToSave(h) \/ FindToRemove(h) \/ Create(h) \/ Update(h)
    \/ CountParticipants(h) \/ WriteCount(h) \/ Fail(h)

Spec == Init /\ [][Next]_vars

----------------------------------------------------------------------------
(* Properties *)

(* Every variable has its type, and no user takes part twice.              *)
TypeOK ==
    /\ \A d \in Docs : doc[d] = NoDoc \/ doc[d] \in [user : Users, type : Types, live : BOOLEAN]
    /\ \A u \in Users : Cardinality(LiveOf(u)) <= 1
    /\ participantCount \in 0 .. MaxDocs
    /\ faults \in 0 .. MaxFaults /\ settled \in BOOLEAN

(* From when a request that ran alone has written it until the next        *)
(* change, participantCount is the number of participants, whatever        *)
(* overlapping or failed requests made of it before.                       *)
LoneRequestCounts == settled => participantCount = Cardinality(Live)

(* A user that was saved takes part, and one that was removed does not,    *)
(* unless the opposite request for the same user overlapped.               *)
AnswerHolds == last.op # None => (last.op = "save") = (LiveOf(last.user) # {})
==============================================================================
