-------------------------------- MODULE MCDesk --------------------------------
(***************************************************************************)
(* A run over what surrounds a ticket: the tree of categories, the         *)
(* creation of tickets, the participants of a ticket, a contact, and what  *)
(* requests bring for contacts.  These share nothing, and each behaviour   *)
(* is of one of them: part says which, and the variables of the others     *)
(* stay empty.  The creation is TicketCreation itself, so that its         *)
(* CreatedWhole, about which there is a theorem, is checked as it is.      *)
(***************************************************************************)
EXTENDS TicketCreation, Sequences

CONSTANTS k1, k2, k3, k4, o1, l1, m1, u1, u2, Handlers

VARIABLES
    part,
    asked, failed, raced, \* the requests of the other parts, and how many failed
    category, requests, overlapped,
    doc, participantCount, settled, last,
    contact, identities, updates, tags

categoryVars == <<category, requests, overlapped>>
participantVars == <<doc, participantCount, settled, last>>
contactVars == <<contact, identities, updates>>
deskVars == <<part, vars, asked, failed, raced, categoryVars, participantVars, contactVars, tags>>

Order == <<k1, k2, k3>>
NewSlugs == {k4}
Words == [key : {"v1", "v2"}, form : 0 .. 1]
Texts == Words \cup {[key |-> "none", form |-> 0]}

Categories == INSTANCE TicketCategories WITH req <- asked, faults <- failed,
                                             MaxRequests <- 3, MaxFaults <- 1
Participants == INSTANCE TicketParticipants WITH req <- asked, faults <- failed,
                                                 Users <- {u1, u2}, Operational <- {u1},
                                                 MaxDocs <- 2, MaxFaults <- 1
Contacts == INSTANCE Customers WITH req <- asked, Contacts <- {u1, u2}, MaxUpdates <- 3,
                                    Texts <- Texts \ {[key |-> "v2", form |-> 1]}

NoRequests == asked = {} /\ failed = 0 /\ raced = FALSE
NoCategories == category = {} /\ requests = 0 /\ overlapped = FALSE
NoTickets == organization = None
NoParticipants == doc = {} /\ participantCount = 0 /\ settled = FALSE /\ last = {}
NoContacts == contact = {} /\ identities = {} /\ updates = 0

DeskInit ==
    /\ Init /\ tags = <<>>
    /\ \/ /\ part = "categories" /\ Categories!Init
          /\ NoTickets /\ NoParticipants /\ NoContacts
       \/ /\ part = "creation" /\ NoRequests
          /\ NoCategories /\ NoParticipants /\ NoContacts
       \/ /\ part = "participants" /\ Participants!Init /\ raced = FALSE
          /\ NoCategories /\ NoTickets /\ NoContacts
       \/ /\ part \in {"contact", "lists"} /\ Contacts!Init /\ failed = 0
          /\ NoCategories /\ NoTickets /\ NoParticipants

DeskNext ==
    \/ /\ part = "categories" /\ Categories!Next
       /\ UNCHANGED <<part, vars, participantVars, contactVars, tags>>
    \/ /\ part = "creation" /\ Next
       /\ UNCHANGED <<part, asked, failed, raced, categoryVars, participantVars, contactVars, tags>>
    \/ /\ part = "participants" /\ Participants!Next
       /\ UNCHANGED <<part, vars, raced, categoryVars, contactVars, tags>>
    \/ /\ part = "contact" /\ Contacts!UpdateContact
       /\ UNCHANGED <<part, vars, failed, categoryVars, participantVars, tags>>
    \/ /\ part = "lists" /\ Contacts!CreateIdentities
       /\ UNCHANGED <<part, vars, failed, categoryVars, participantVars, tags>>
    \/ /\ part = "lists" /\ identities = {} /\ Len(tags) < 4
       /\ \E t \in Texts : tags' = Append(tags, t)
       /\ UNCHANGED <<part, vars, asked, failed, raced, categoryVars, participantVars, contactVars>>

DeskSpec == DeskInit /\ [][DeskNext]_deskVars

----------------------------------------------------------------------------
(* A request for a contact keeps each tag once, as it was first written    *)
(* and in that order (normalizeTagList).                                   *)
TagsAsFirstWritten ==
    LET kept == Contacts!NormalizeTagList(tags)
        first == {i \in DOMAIN tags : /\ tags[i].key # "none"
                                      /\ \A j \in 1 .. i - 1 : tags[j].key # tags[i].key}
    IN  /\ Len(kept) = Cardinality(first)
        /\ \A i \in first : kept[Cardinality({j \in first : j <= i})] = tags[i]

(* The properties of the parts; each is explained where it is defined.     *)

(* The categories are trees, whose paths a lone request leaves right.      *)
TreeHolds == part = "categories" =>
    /\ Categories!TypeOK /\ Categories!LoneRequestsKeepPaths
    /\ Categories!OneMoveAtATimeKeepsTree

(* What is kept twice agrees: participants and their count, the name of a  *)
(* contact and the one it is found by; and lists keep each value once.     *)
RecordsAgree ==
    /\ part = "participants" => /\ Participants!TypeOK /\ Participants!LoneRequestCounts
                                /\ Participants!AnswerHolds
    /\ part = "contact" => Contacts!TypeOK /\ Contacts!SearchedAsShown
    /\ part = "lists" => Contacts!IdentityOfOneContact /\ TagsAsFirstWritten

(* The walk to the root of the categories always comes further, and an     *)
(* update of a contact changes what was asked.                             *)
OnlyAskedSteps ==
    [][/\ part = "categories" => Categories!WalkDescends
       /\ part = "contact" => Contacts!ChangesWhatIsAsked]_deskVars
==============================================================================
