-------------------------- MODULE TicketsAndFiles --------------------------
(***************************************************************************)
(* A ticket, and the files of its workspace.  Of the messages that files   *)
(* are attached to, the files know the numbers only: what else a message   *)
(* changes is in the ticket, so that the two go their own way.             *)
(***************************************************************************)
EXTENDS TicketLifecycle

CONSTANTS FileOps, FileHandlers, StorageLimit, MaxFiles, MaxFileMessages, MaxFileRequests, MaxFaults

VARIABLES
    object, file, message, link, ticketLink, snapshot,
    fileReq, fileBegun, faults, given, crossed, broken, unsettled

files == <<object, file, message, link, ticketLink, snapshot, fileReq, fileBegun, faults, given,
           crossed, broken, unsettled>>

Disk == INSTANCE Files WITH
    Ops <- FileOps, Handlers <- FileHandlers, MaxMessages <- MaxFileMessages,
    MaxRequests <- MaxFileRequests, req <- fileReq, begun <- fileBegun

ASSUME FileBounds == Disk!FilesAssumption

(* Objects, documents, links, messages and the storage in use agree,       *)
(* within the plan, unless requests about a file overlap or stop half-way; *)
(* each part is explained in Files.                                        *)
FilesAgree ==
    /\ Disk!TypeOK
    /\ Disk!ObjectsHaveFiles /\ Disk!LinksAreLive /\ Disk!AttachedOnce
    /\ Disk!StorageWithinLimit /\ Disk!SnapshotFollows
============================================================================
