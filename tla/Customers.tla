------------------------------- MODULE Customers -------------------------------
(***************************************************************************)
(* A contact of the workspace, which requests change at the same time; the *)
(* identities by which contacts are known; and the tags that a request     *)
(* brings.  The name and the e-mail of a contact are each kept twice, as   *)
(* they are shown and as they are searched for.                            *)
(*                                                                         *)
(* Sources: src/src/modules/customers/services, utils and models.          *)
(***************************************************************************)
EXTENDS Naturals, FiniteSets, Sequences, SequencesExt, MongooseDocument

CONSTANTS
    Texts,     \* what a request may bring: [key |-> what it is normalized to,
               \* form |-> how it is written]; a blank one has the key None
    Contacts,  \* the contacts that have identities
    Handlers,  \* requests in flight at once, 1 .. n: the first free one is next
    MaxUpdates \* bound on the requests to change the contact

None == "none"
Keep == [key |-> "keep", form |-> 0]
Fields == {"name", "email"}

VARIABLES
    contact,    \* per field: what is shown, and what is searched for
    identities, \* <<contact, value>> of each identity
    req, updates,
    raced       \* history: requests for the name have overlapped, and none that
                \* ran alone has set it since

vars == <<contact, identities, req, updates, raced>>

NoContact == [f \in Fields |-> [shown |-> Keep, searched |-> None]]
Idle == [pc |-> "idle", value |-> [f \in Fields |-> Keep], loaded |-> NoContact, alone |-> TRUE]
At(h, pc) == req[h].pc = pc
Busy == {h \in Handlers : ~At(h, "idle")}

(* What is stored: an e-mail is normalized before, a name only             *)
(* where it is searched for (normalizeContactFields, normalizeName).       *)
Normalized(text) == [text EXCEPT !.form = 0]
Shown(f, text) == IF f = "email" THEN Normalized(text) ELSE text
Field(f, text) == [shown |-> Shown(f, text), searched |-> text.key]

(* A contact that has been created (createContact).                        *)
Init ==
    /\ \E t \in {u \in Texts : u.key # None} : contact = [f \in Fields |-> Field(f, t)]
    /\ identities = {}
    /\ req = [h \in Handlers |-> Idle]
    /\ updates = 0
    /\ raced = FALSE

(* updateContact: a blank name is refused, a blank e-mail taken away.      *)
Begin(h) ==
    /\ h \notin Busy /\ (1 .. h - 1) \subseteq Busy /\ updates < MaxUpdates
    /\ \E value \in [Fields -> Texts \cup {Keep}] :
         /\ \E f \in Fields : value[f] # Keep
         /\ value["name"].key # None
         /\ req' = [g \in Handlers |->
              IF g = h THEN [Idle EXCEPT !.pc = "load", !.value = value, !.alone = (Busy = {})]
              ELSE [req[g] EXCEPT !.alone = @ /\ g \notin Busy]]
         /\ raced' = (raced \/ /\ value["name"] # Keep
                               /\ \E g \in Busy : req[g].value["name"] # Keep)
    /\ updates' = updates + 1
    /\ UNCHANGED <<contact, identities>>

LoadContact(h) ==
    /\ At(h, "load")
    /\ req' = [req EXCEPT ![h].loaded = contact, ![h].pc = "save"]
    /\ UNCHANGED <<contact, identities, updates, raced>>

(* save(): what is searched for is computed anew when what is shown has    *)
(* been modified, and is written when it differs from what was loaded.     *)
(* Mutant: the whole document.                                             *)
Written_WholeDocument(stored, loaded, f, value) ==
    IF value = Keep THEN loaded ELSE Field(f, value)
Written(stored, loaded, f, value) ==
    IF value = Keep \/ Shown(f, value) = loaded.shown THEN stored
    ELSE [shown |-> Shown(f, value),
          searched |-> SavedPath(stored.searched, loaded.searched, value.key)]

SaveContact(h) ==
    LET r == req[h]
    IN  /\ At(h, "save")
        /\ contact' = [f \in Fields |->
                         Written(contact[f], r.loaded[f], f, r.value[f])]
        /\ raced' = (raced /\ (~r.alone \/ r.value["name"] \in {Keep, r.loaded["name"].shown}))
        /\ req' = [req EXCEPT ![h] = Idle]
        /\ UNCHANGED <<identities, updates>>

(* createContactIdentity: of one type, e-mail or phone; refused when the   *)
(* index has the value (of any contact).                                   *)
IdentityValue(text) == Normalized(text)
CreateIdentity(c, text) ==
    /\ text.key # None
    /\ ~\E i \in identities : i[2] = IdentityValue(text)
    /\ identities' = identities \cup {<<c, IdentityValue(text)>>}
    /\ UNCHANGED <<contact, req, updates, raced>>

UpdateContact == \E h \in Handlers : Begin(h) \/ LoadContact(h) \/ SaveContact(h)
CreateIdentities == \E c \in Contacts, text \in Texts : CreateIdentity(c, text)

Next == UpdateContact \/ CreateIdentities

Spec == Init /\ [][Next]_vars

(* normalizeTagList: blank tags are dropped, and those that differ from an *)
(* earlier one only in how they are written.                               *)
NormalizeTagList(list) ==
    FoldLeft(LAMBDA tags, t : IF t.key = None \/ \E i \in DOMAIN tags : tags[i].key = t.key
                              THEN tags ELSE Append(tags, t), <<>>, list)

----------------------------------------------------------------------------
(* Properties *)

(* Every variable has its type; an e-mail is kept as it is normalized.     *)
TypeOK ==
    /\ \A f \in Fields : \E t \in Texts, u \in Texts :
         contact[f] = [shown |-> Shown(f, t), searched |-> u.key]
    /\ identities \subseteq Contacts \X {Normalized(t) : t \in Texts}
    /\ \A h \in Handlers : req[h].pc \in {"idle", "load", "save"}

(* What is searched for is what is shown; for the name, unless requests    *)
(* for it have overlapped since one that ran alone has set it              *)
(* (normalizeContactFields).                                               *)
SearchedAsShown ==
    \A f \in Fields : contact[f].searched = contact[f].shown.key \/ (f = "name" /\ raced)

(* A value is the identity of one contact only, however it is written.     *)
IdentityOfOneContact ==
    \A i, j \in identities : i[2].key = j[2].key => i = j

(* A request changes only what it brings: what overlapping requests make   *)
(* of the other fields stays (updateContact).                              *)
ChangesWhatIsAsked ==
    \A f \in Fields : contact'[f] # contact[f] =>
        \E h \in Handlers : At(h, "save") /\ req'[h].pc = "idle" /\ req[h].value[f] # Keep
OnlyAskedFieldsChange == [][ChangesWhatIsAsked]_vars
==============================================================================
