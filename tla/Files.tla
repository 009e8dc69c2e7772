-------------------------------- MODULE Files --------------------------------
(***************************************************************************)
(* The files of a workspace: the objects in storage, their documents, the  *)
(* storage that counts for the plan, and the messages that files are       *)
(* attached to.                                                            *)
(*                                                                         *)
(* All files have one size, and there is one ticket.  An object has the    *)
(* number of its file, which is known before the document is created.      *)
(* What else a message changes is in TicketLifecycle, and what else the    *)
(* foundation of the billing does in BillingWebhooks.                      *)
(*                                                                         *)
(* Source: src/src/modules/files/services, and linkAttachments and         *)
(* createTicketMessage of src/src/modules/tickets/services                 *)
(***************************************************************************)
EXTENDS Naturals, FiniteSets

CONSTANTS
    Ops,          \* what is asked for, a subset of AllOps
    Handlers,     \* requests in flight at once, 1 .. n: the first free one is next
    StorageLimit, \* how many files the plan allows
    MaxFiles, MaxMessages, MaxRequests, MaxFaults \* bounds

None == "none"
AllOps == {"upload", "delete", "attach"}
FileIds == 1 .. MaxFiles
MessageIds == 1 .. MaxMessages

FilesAssumption ==
    /\ Ops \subseteq AllOps /\ Handlers \subseteq Nat \ {0}
    /\ IsFiniteSet(Handlers) /\ Handlers # {}
    /\ {StorageLimit, MaxFiles, MaxMessages, MaxRequests, MaxFaults} \subseteq Nat

VARIABLES
    object,     \* the objects in storage
    file,       \* of each file: no document yet, "ready" or "deleted"
    message,    \* the file of each message; 0 is no message
    link,       \* the active links between files and messages
    ticketLink, \* of each file, its link to the ticket: none, "active" or "deleted"
    snapshot,   \* the storage used, as the entitlement of the workspace keeps it
    req, begun, faults, \* requests in flight; how many began, and went wrong
    given,      \* how many file and message numbers have been taken
    crossed,    \* history: files of which two requests overlapped
    broken,     \* history: files of which a request stopped or could not clean up
    unsettled   \* history: the snapshot may be an old one

documents == <<object, file, message, link, ticketLink, snapshot>>
history == <<crossed, broken, unsettled>>
vars == <<documents, req, begun, faults, given, history>>

Idle == [pc |-> "idle", op |-> None, f |-> 0, m |-> 0, seen |-> 0, found |-> None, alone |-> TRUE]

At(h, pc) == req[h].pc = pc
Busy == {h \in Handlers : ~At(h, "idle")}
Free(h) == h \notin Busy /\ (1 .. h - 1) \subseteq Busy
Goto(h, pc) == req' = [req EXCEPT ![h].pc = pc]
Done(h) == req' = [req EXCEPT ![h] = Idle]

Ready == {f \in FileIds : file[f] = "ready"}
InUse(f) == \E h \in Busy : req[h].f = f

Begin(h, r) ==
    /\ Free(h) /\ r.op \in Ops /\ begun < MaxRequests
    /\ begun' = begun + 1
    /\ req' = [g \in Handlers |-> IF g = h THEN [r EXCEPT !.alone = (Busy = {})]
                                  ELSE [req[g] EXCEPT !.alone = @ /\ g \notin Busy]]
    /\ crossed' = IF InUse(r.f) THEN crossed \cup {r.f} ELSE crossed
    /\ unsettled' = (unsettled \/ Busy # {})

Fault == faults < MaxFaults /\ faults' = faults + 1

Init ==
    /\ object = {} /\ link = {} /\ snapshot = 0
    /\ file = [f \in FileIds |-> None]
    /\ message = [m \in MessageIds |-> 0]
    /\ ticketLink = [f \in FileIds |-> None]
    /\ req = [h \in Handlers |-> Idle] /\ begun = 0 /\ faults = 0
    /\ given = [files |-> 0, messages |-> 0]
    /\ crossed = {} /\ broken = {} /\ unsettled = FALSE

----------------------------------------------------------------------------
(* refreshWorkspaceBillingUsageSnapshot, and the recount with which        *)
(* assertWorkspaceUploadAllowed begins: the files are counted, and the     *)
(* entitlement is written with the count.  A refresh that fails is passed  *)
(* over.                                                                   *)
Count(h) ==
    /\ \E from, to \in {"count", "write", "recount", "rewrite"} :
         /\ <<from, to>> \in {<<"count", "write">>, <<"recount", "rewrite">>}
         /\ At(h, from)
         /\ req' = [req EXCEPT ![h].pc = to, ![h].seen = Cardinality(Ready)]
    /\ UNCHANGED <<documents, begun, faults, given, history>>

WriteSnapshot(h) ==
    LET r == req[h]
    IN  /\ \/ At(h, "write") /\ Goto(h, "check")
           \/ At(h, "rewrite") /\ Done(h)
        /\ snapshot' = r.seen
        /\ unsettled' = (unsettled /\ ~r.alone)
        /\ UNCHANGED <<object, file, message, link, ticketLink, begun, faults, given, crossed, broken>>

----------------------------------------------------------------------------
(* uploadFile.  The object is stored, then its document is created; when   *)
(* that fails the object is deleted again.  A use of storage that cannot   *)
(* be counted is passed over.                                              *)
BeginUpload(h) ==
    LET f == given.files + 1
    IN  /\ f <= MaxFiles
        /\ Begin(h, [Idle EXCEPT !.op = "upload", !.f = f, !.pc = "count"])
        /\ given' = [given EXCEPT !.files = f]
        /\ UNCHANGED <<documents, faults, broken>>

Allowed(used) == used + 1 <= StorageLimit

CheckLimit(h) ==
    LET r == req[h]
    IN  /\ At(h, "check")
        /\ IF Allowed(r.seen) THEN Goto(h, "put") ELSE Done(h)
        /\ UNCHANGED <<documents, begun, faults, given, history>>

PutObject(h) ==
    /\ At(h, "put")
    /\ \/ /\ object' = object \cup {req[h].f}
          /\ Goto(h, "create")
          /\ UNCHANGED faults
       \/ Fault /\ Done(h) /\ UNCHANGED object
    /\ UNCHANGED <<file, message, link, ticketLink, snapshot, begun, given, history>>

AfterCreateFailed == "cleanup"

CreateFile(h) ==
    /\ At(h, "create")
    /\ \/ /\ file' = [file EXCEPT ![req[h].f] = "ready"]
          /\ Goto(h, "meter")
          /\ UNCHANGED faults
       \/ Fault /\ Goto(h, AfterCreateFailed) /\ UNCHANGED file
    /\ UNCHANGED <<object, message, link, ticketLink, snapshot, begun, given, history>>

CleanUpObject(h) ==
    LET f == req[h].f
    IN  /\ At(h, "cleanup")
        /\ Done(h)
        /\ \/ object' = object \ {f} /\ UNCHANGED <<faults, broken>>
           \/ Fault /\ broken' = broken \cup {f} /\ UNCHANGED object
        /\ UNCHANGED <<file, message, link, ticketLink, snapshot, begun, given, crossed, unsettled>>

(* incrementWorkspaceUploadsCount: the meter itself is in TicketCreation.  *)
CountUpload(h) ==
    /\ At(h, "meter")
    /\ \/ Goto(h, "recount") /\ UNCHANGED <<faults, unsettled>>
       \/ Fault /\ Done(h) /\ unsettled' = TRUE
    /\ UNCHANGED <<documents, begun, given, crossed, broken>>

----------------------------------------------------------------------------
(* deleteFileById: the object, then the document, then the links.  A file  *)
(* whose object has gone is deleted all the same; a deleted file is left   *)
(* as it is, with the links it has.                                        *)
BeginDelete(h) ==
    /\ \E f \in Ready : Begin(h, [Idle EXCEPT !.op = "delete", !.f = f, !.pc = "remove"])
    /\ UNCHANGED <<documents, faults, given, broken>>

RemoveObject(h) ==
    /\ At(h, "remove")
    /\ \/ object' = object \ {req[h].f} /\ Goto(h, "mark") /\ UNCHANGED faults
       \/ Fault /\ Done(h) /\ UNCHANGED object
    /\ UNCHANGED <<file, message, link, ticketLink, snapshot, begun, given, history>>

MarkDeleted(h) ==
    /\ At(h, "mark")
    /\ file' = [file EXCEPT ![req[h].f] = "deleted"]
    /\ Goto(h, "drop")
    /\ UNCHANGED <<object, message, link, ticketLink, snapshot, begun, faults, given, history>>

(* softDeleteLinksForFile.                                                 *)
DropLinks(h) ==
    LET f == req[h].f
    IN  /\ At(h, "drop")
        /\ link' = {l \in link : l.f # f}
        /\ ticketLink' = [ticketLink EXCEPT ![f] = IF @ = "active" THEN "deleted" ELSE @]
        /\ Goto(h, "recount")
        /\ UNCHANGED <<object, file, message, snapshot, begun, faults, given, history>>

----------------------------------------------------------------------------
(* createTicketMessage with one attachment (validateAndLoadAttachmentFiles,*)
(* linkAttachments): a file that is ready, and that no message has yet.    *)
Attachable(f) == f \in Ready /\ \A l \in link : l.f # f

BeginAttach(h) ==
    LET m == given.messages + 1
    IN  /\ m <= MaxMessages
        /\ \E f \in FileIds : /\ Attachable(f)
                              /\ Begin(h, [Idle EXCEPT !.op = "attach", !.f = f, !.m = m,
                                                       !.pc = "message"])
        /\ given' = [given EXCEPT !.messages = m]
        /\ UNCHANGED <<documents, faults, broken>>

CreateMessage(h) ==
    /\ At(h, "message")
    /\ message' = [message EXCEPT ![req[h].m] = req[h].f]
    /\ Goto(h, "link")
    /\ UNCHANGED <<object, file, link, ticketLink, snapshot, begun, faults, given, history>>

LinkMessage(h) ==
    /\ At(h, "link")
    /\ link' = link \cup {[f |-> req[h].f, m |-> req[h].m]}
    /\ Goto(h, "find")
    /\ UNCHANGED <<object, file, message, ticketLink, snapshot, begun, faults, given, history>>

(* createLink looks for an active link, then for a deleted one to restore, *)
(* and creates one when there is neither.  A second active link is refused *)
(* by the index, and then nobody knows any more of the link to the message:*)
(* only the message is deleted.                                            *)
FindLink(h) ==
    /\ At(h, "find")
    /\ req' = [req EXCEPT ![h].pc = "link_ticket", ![h].found = ticketLink[req[h].f]]
    /\ UNCHANGED <<documents, begun, faults, given, history>>

LinkTicket(h) ==
    LET r == req[h]
        refused == r.found = None /\ ticketLink[r.f] = "active"
    IN  /\ At(h, "link_ticket")
        /\ \/ /\ \/ refused /\ UNCHANGED faults
                 \/ Fault
              /\ Goto(h, "retract")
              /\ broken' = broken \cup {r.f}
              /\ UNCHANGED ticketLink
           \/ /\ ~refused
              /\ ticketLink' = [ticketLink EXCEPT ![r.f] = IF r.found = "active" THEN @
                                                           ELSE "active"]
              /\ Goto(h, "save")
              /\ UNCHANGED <<faults, broken>>
        /\ UNCHANGED <<object, file, message, link, snapshot, begun, given, crossed, unsettled>>

(* The ticket and the conversation are saved.  If that fails the links are *)
(* taken back and the message is deleted.                                  *)
SaveSummary(h) ==
    /\ At(h, "save")
    /\ \/ Done(h) /\ UNCHANGED faults
       \/ Fault /\ Goto(h, "undo")
    /\ UNCHANGED <<documents, begun, given, history>>

Unlinked(f) == [ticketLink EXCEPT ![f] = IF @ = "active" THEN "deleted" ELSE @]

(* Mutant: only the link to the ticket is taken back.                      *)
Undo_Ticket(h) ==
    LET r == req[h]
    IN  /\ At(h, "undo")
        /\ ticketLink' = Unlinked(r.f)
        /\ Goto(h, "retract")
        /\ UNCHANGED <<object, file, message, link, snapshot, begun, faults, given, history>>
(* The two are sent together, and one that fails is passed over; it is not *)
(* counted, since it follows a failure that is.                            *)
Undo(h) ==
    LET r == req[h]
        others == link \ {[f |-> r.f, m |-> r.m]}
    IN  /\ At(h, "undo")
        /\ \/ link' = others /\ ticketLink' = Unlinked(r.f) /\ UNCHANGED broken
           \/ /\ broken' = broken \cup {r.f}
              /\ \/ link' = others /\ UNCHANGED ticketLink
                 \/ UNCHANGED link /\ ticketLink' \in {ticketLink, Unlinked(r.f)}
        /\ Goto(h, "retract")
        /\ UNCHANGED <<object, file, message, snapshot, begun, faults, given, crossed, unsettled>>

DeleteMessage(h) ==
    LET r == req[h]
    IN  /\ At(h, "retract")
        /\ Done(h)
        /\ \/ message' = [message EXCEPT ![r.m] = 0] /\ UNCHANGED <<faults, broken>>
           \/ Fault /\ broken' = broken \cup {r.f} /\ UNCHANGED message
        /\ UNCHANGED <<object, file, link, ticketLink, snapshot, begun, given, crossed, unsettled>>

----------------------------------------------------------------------------
(* A request ends where it is: a query fails, or the process stops.        *)
Stop(h) ==
    /\ h \in Busy /\ Fault
    /\ Done(h)
    /\ broken' = broken \cup {req[h].f}
    /\ unsettled' = TRUE
    /\ UNCHANGED <<documents, begun, given, crossed>>

Step(h) ==
    \/ Count(h) \/ WriteSnapshot(h)
    \/ BeginUpload(h) \/ CheckLimit(h) \/ PutObject(h) \/ CreateFile(h) \/ CleanUpObject(h)
    \/ CountUpload(h)
    \/ BeginDelete(h) \/ RemoveObject(h) \/ MarkDeleted(h) \/ DropLinks(h)
    \/ BeginAttach(h) \/ CreateMessage(h) \/ LinkMessage(h) \/ FindLink(h) \/ LinkTicket(h)
    \/ SaveSummary(h) \/ Undo(h) \/ DeleteMessage(h)
    \/ Stop(h)

Next == \E h \in Handlers : Step(h)

Spec == Init /\ [][Next]_vars

----------------------------------------------------------------------------
TypeOK ==
    /\ object \subseteq FileIds
    /\ file \in [FileIds -> {None, "ready", "deleted"}]
    /\ message \in [MessageIds -> 0 .. MaxFiles]
    /\ link \subseteq [f : FileIds, m : MessageIds]
    /\ ticketLink \in [FileIds -> {None, "active", "deleted"}]
    /\ snapshot \in 0 .. MaxFiles

(* An object in storage has a document that says so, and a document its    *)
(* object, once the requests about the file have ended; it takes a stop    *)
(* half-way, or a clean-up that fails, to leave one without the other.  A  *)
(* deleted file never has its object.                                      *)
ObjectsHaveFiles ==
    \A f \in FileIds :
        /\ ~InUse(f) /\ f \notin broken => (f \in object <=> file[f] = "ready")
        /\ file[f] = "deleted" => f \notin object

(* Uploads that overlap pass the limit of the plan by no more than the     *)
(* others that were under way when each was checked.                       *)
StorageWithinLimit == Cardinality(Ready) <= StorageLimit + Cardinality(Handlers) - 1

(* When all is quiet the entitlement has the storage in use, unless the    *)
(* last requests overlapped, or one of them failed.                        *)
SnapshotFollows == Busy = {} /\ ~unsettled => snapshot = Cardinality(Ready)

(* No file is attached to two messages, unless two requests about it       *)
(* overlapped, or one stopped half-way.                                    *)
AttachedOnce ==
    \A f \in FileIds \ (crossed \cup broken) : Cardinality({m \in MessageIds : message[m] = f}) <= 1

(* An active link is of a file that is there, and between a file and a     *)
(* message that is there, and a message has its links: whatever of the     *)
(* attaching failed, unless it was the linking itself or the clean-up.  A  *)
(* link to a message that is not there keeps the file from being attached  *)
(* to any other.                                                           *)
LinksAreLive ==
    \A f \in FileIds \ (crossed \cup broken) : ~InUse(f) =>
        /\ \A l \in link : l.f = f => message[l.m] = f /\ file[f] = "ready"
        /\ ticketLink[f] = "active" => file[f] = "ready" /\ \E m \in MessageIds : message[m] = f
        /\ \A m \in MessageIds : message[m] = f /\ file[f] = "ready" =>
               [f |-> f, m |-> m] \in link /\ ticketLink[f] = "active"
----------------------------------------------------------------------------
(* The inductive invariant behind them *)

Uploading == {"count", "write", "check", "put", "create", "cleanup"}
Counting == {"meter", "recount", "rewrite"}   \* an upload, and from recount on a deletion
Deleting == {"remove", "mark", "drop"}
Attaching == {"message", "link", "find", "link_ticket", "save", "undo", "retract"}

Request == [pc : {"idle"} \cup Uploading \cup Counting \cup Deleting \cup Attaching,
            op : Ops \cup {None}, f : 0 .. MaxFiles, m : 0 .. MaxMessages,
            seen : 0 .. MaxFiles, found : {None, "active", "deleted"}, alone : BOOLEAN]

TypeInv ==
    /\ TypeOK
    /\ req \in [Handlers -> Request]
    /\ given \in [files : 0 .. MaxFiles, messages : 0 .. MaxMessages]
    /\ begun \in Nat /\ faults \in Nat
    /\ crossed \subseteq FileIds /\ broken \subseteq FileIds /\ unsettled \in BOOLEAN
    /\ \A h \in Busy : req[h].f \in FileIds
    /\ \A h \in Handlers : req[h].pc \in Attaching => req[h].m \in MessageIds

(* A number is of one file, and of one message: until its document is      *)
(* there, a file is known to its upload only.                              *)
NumbersAreNew ==
    /\ \A f \in FileIds : f > given.files => file[f] = None /\ f \notin object
    /\ \A h \in Busy : req[h].f =< given.files
    /\ \A m \in MessageIds : m > given.messages => message[m] = 0
    /\ \A h \in Handlers : req[h].pc \in Attaching =>
          /\ req[h].m =< given.messages /\ message[req[h].m] \in {0, req[h].f}
          /\ \A g \in Handlers \ {h} : req[g].pc \in Attaching => req[g].m # req[h].m

(* The document of a file is there when others than its upload may know it,*)
(* and then its object is not stored again.                                *)
ObjectsFollow ==
    /\ \A h \in Busy :
          IF req[h].pc \in Uploading
          THEN /\ file[req[h].f] = None
               /\ req[h].f \in object <=> req[h].pc \in {"create", "cleanup"}
               /\ \A g \in Busy : req[g].f = req[h].f => g = h
          ELSE /\ file[req[h].f] # None
               /\ At(h, "mark") => req[h].f \notin object
    /\ \A f \in FileIds :
          /\ file[f] = "deleted" => f \notin object
          /\ f \in object /\ file[f] = None =>
                f \in broken \/ \E h \in Busy : req[h].f = f /\ req[h].pc \in {"create", "cleanup"}
          /\ f \notin object /\ file[f] = "ready" =>
                f \in broken \/ \E h \in Busy : req[h].f = f /\ At(h, "mark")

(* Those that have seen room for their file, and may yet create it.        *)
Entering == {h \in Handlers : \/ req[h].pc \in {"write", "check"} /\ Allowed(req[h].seen)
                              \/ req[h].pc \in {"put", "create"}}
RoomIsCounted ==
    Cardinality(Ready) + Cardinality(Entering) + 1 =< StorageLimit + Cardinality(Handlers)

(* What a request that is alone has counted is so, and the entitlement is  *)
(* right but for what it is about to count again.                          *)
LoneCounts ==
    /\ \A h \in Busy : req[h].alone =>
          /\ Busy = {h}
          /\ req[h].pc \in {"write", "rewrite"} => req[h].seen = Cardinality(Ready)
    /\ ~unsettled =>
          /\ \A h \in Busy : req[h].alone
          /\ \/ snapshot = Cardinality(Ready)
             \/ \E h \in Busy : req[h].pc \in Counting \cup {"drop"}

(* What there is of a file that no two requests overlapped on: at rest,    *)
(* and at each step of an attaching.                                       *)
MessagesOf(f) == {m \in MessageIds : message[m] = f}
LinksOf(f) == {l \in link : l.f = f}

AtRest(f) ==
    /\ \A l \in LinksOf(f) : l.m \in MessagesOf(f) /\ file[f] = "ready"
    /\ ticketLink[f] = "active" => file[f] = "ready" /\ MessagesOf(f) # {}
    /\ file[f] = None => MessagesOf(f) = {}
    /\ file[f] = "ready" =>
          \A m \in MessagesOf(f) : [f |-> f, m |-> m] \in LinksOf(f) /\ ticketLink[f] = "active"

HalfAttached(r) ==
    /\ file[r.f] = "ready"
    /\ MessagesOf(r.f) = IF r.pc = "message" THEN {} ELSE {r.m}
    /\ LinksOf(r.f) = IF r.pc \in {"find", "link_ticket", "save", "undo"}
                      THEN {[f |-> r.f, m |-> r.m]} ELSE {}
    /\ ticketLink[r.f] = "active" <=> r.pc \in {"save", "undo"}
    /\ r.pc = "link_ticket" => r.found # "active"

InOrder(f) ==
    /\ \A g, h \in Busy : req[g].f = f /\ req[h].f = f => g = h
    /\ \A m, n \in MessagesOf(f) : m = n
    /\ \A h \in Busy : req[h].f = f =>
          /\ req[h].pc \in Attaching => HalfAttached(req[h])
          /\ At(h, "drop") => file[f] = "deleted"
    /\ AtRest(f) \/ \E h \in Busy : req[h].f = f /\ req[h].pc \in Attaching \cup {"drop"}

LinksFollow == \A f \in FileIds \ (crossed \cup broken) : InOrder(f)

IndInv == TypeInv /\ NumbersAreNew /\ ObjectsFollow /\ RoomIsCounted /\ LoneCounts /\ LinksFollow
==============================================================================
