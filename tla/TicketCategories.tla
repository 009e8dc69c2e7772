--------------------------- MODULE TicketCategories ---------------------------
(***************************************************************************)
(* The tree of the ticket categories of a workspace.  Each category has    *)
(* its parent, a slug no other has, and the path of slugs from its root,   *)
(* stored with it; moving or renaming a category rewrites the paths of     *)
(* everything below it.  Requests overlap and may fail at any await.       *)
(*                                                                         *)
(* Source: src/src/modules/tickets/services/ticket-categories.service.js   *)
(***************************************************************************)
EXTENDS Naturals, FiniteSets, Sequences, MongooseDocument

CONSTANTS
    Order,       \* the categories, parents first; each is its own first slug
    NewSlugs,    \* other slugs
    Handlers,    \* requests in flight at once, 1 .. n: the first free one is next
    MaxRequests, \* bound on the requests
    MaxFaults    \* bound on the awaits that fail

None == "none"
Keep == "keep"
Cats == {Order[i] : i \in DOMAIN Order}
Slugs == Cats \cup NewSlugs

VARIABLES category, req, requests, faults,
    overlapped, \* history: two requests have been in flight at once
    raced       \* history: two of them moved a category

vars == <<category, req, requests, faults, overlapped, raced>>

NoCategory == [exists |-> FALSE, slug |-> None, parent |-> None, path |-> <<>>]
Idle == [pc |-> "idle", cat |-> None, new |-> FALSE, parent |-> Keep, slug |-> Keep,
         loaded |-> NoCategory, parentPath |-> <<>>, at |-> None, visited |-> {},
         path |-> <<>>, todo |-> {}]

At(h, pc) == req[h].pc = pc
Busy == {h \in Handlers : ~At(h, "idle")}
Moving == {h \in Busy : ~req[h].new /\ req[h].parent \in Cats}
Goto(h, r) == req' = [req EXCEPT ![h] = r]
Leave(h) == Goto(h, Idle)
Existing == {c \in Cats : category[c].exists}

(* The trees that requests could have built, one after the other.          *)
Depth == Cardinality(Cats)
Tree(live, up) ==
    LET path[n \in 0 .. Depth, c \in Cats] ==
            IF n = 0 THEN <<>>
            ELSE IF up[c] = None THEN <<c>> ELSE Append(path[n - 1, up[c]], c)
    IN  [c \in Cats |-> IF c \in live
                        THEN [exists |-> TRUE, slug |-> c, parent |-> up[c],
                              path |-> path[Depth, c]]
                        ELSE NoCategory]

(* Following parents from any category of up ends.                         *)
Rooted(up) ==
    LET above[n \in 0 .. Depth, c \in Cats] ==
            IF n = 0 \/ up[c] = None THEN up[c] ELSE above[n - 1, up[c]]
    IN  \A c \in Cats : above[Depth, c] = None
Acyclic == Rooted([c \in Cats |-> category[c].parent])

Init ==
    /\ \E n \in 0 .. Len(Order), up \in [Cats -> Cats \cup {None}] :
         /\ \A i \in DOMAIN Order :
              up[Order[i]] \in {None} \cup {Order[j] : j \in 1 .. (IF i > n THEN 0 ELSE i - 1)}
         /\ category = Tree({Order[i] : i \in 1 .. n}, up)
    /\ req = [h \in Handlers |-> Idle]
    /\ requests = 0 /\ faults = 0
    /\ overlapped = FALSE /\ raced = FALSE

(* createTicketCategory and updateTicketCategory, of the parent or of the  *)
(* slug.  A category that is to be its own parent is refused.              *)
Begin(h) ==
    /\ h \notin Busy /\ (1 .. h - 1) \subseteq Busy /\ requests < MaxRequests
    /\ \E c \in Cats, parent \in Existing \cup {None, Keep} :
       \E slug \in NewSlugs \cup {IF c \in Existing THEN Keep ELSE c} :
         /\ IF c \in Existing THEN parent # c /\ (parent = Keep) # (slug = Keep)
            ELSE parent # Keep
         /\ Goto(h, [Idle EXCEPT !.pc = IF c \in Existing THEN "load"
                                        ELSE IF parent = None THEN "save" ELSE "parent",
                                 !.cat = c, !.new = c \notin Existing,
                                 !.parent = parent, !.slug = slug])
    /\ requests' = requests + 1
    /\ overlapped' = (overlapped \/ Busy # {})
    /\ raced' = (raced \/ Cardinality(Moving') > 1)
    /\ UNCHANGED <<category, faults>>

(* findCategoryInWorkspaceOrThrow.                                         *)
LoadCategory(h) ==
    LET c == category[req[h].cat]
    IN  /\ At(h, "load")
        /\ Goto(h, [req[h] EXCEPT !.loaded = c,
                       !.pc = IF None = (IF req[h].parent = Keep THEN c.parent ELSE req[h].parent)
                              THEN "save" ELSE "parent"])
        /\ UNCHANGED <<category, requests, faults, overlapped, raced>>

(* One step of the walk up the parents: c must be neither the category     *)
(* that moves nor one that has been seen.                                  *)
Visit(r, c) ==
    IF c = r.cat \/ c \in r.visited THEN Idle
    ELSE IF category[c].parent = None THEN [r EXCEPT !.at = None, !.visited = {}, !.pc = "save"]
    ELSE [r EXCEPT !.at = category[c].parent, !.visited = @ \cup {c}, !.pc = "walk"]

(* resolveParentCategory: the parent and its path are read, and when the   *)
(* category exists already the walk begins.                                *)
ReadParent(h) ==
    LET p == IF req[h].parent = Keep THEN req[h].loaded.parent ELSE req[h].parent
        r == [req[h] EXCEPT !.parentPath = category[p].path]
    IN  /\ At(h, "parent")
        /\ Goto(h, IF r.new \/ r.parent = Keep THEN [r EXCEPT !.pc = "save"] ELSE Visit(r, p))
        /\ UNCHANGED <<category, requests, faults, overlapped, raced>>

WalkUp(h) ==
    /\ At(h, "walk")
    /\ Goto(h, Visit(req[h], req[h].at))
    /\ UNCHANGED <<category, requests, faults, overlapped, raced>>

(* The slug the category is to have.                                       *)
NextSlug(r) == IF r.slug = Keep THEN r.loaded.slug ELSE r.slug

(* TicketCategory.create or save(); a slug that is taken is refused.       *)
Save(h) ==
    LET r == req[h]
        slug == NextSlug(r)
        parent == IF r.parent = Keep THEN r.loaded.parent ELSE r.parent
        path == Append(r.parentPath, slug)
        c == category[r.cat]
        saved == [exists |-> TRUE,
                  slug |-> SavedPath(c.slug, r.loaded.slug, slug),
                  parent |-> SavedPath(c.parent, r.loaded.parent, parent),
                  path |-> SavedPath(c.path, r.loaded.path, path)]
    IN  /\ At(h, "save")
        /\ IF \/ \E d \in Existing \ {r.cat} : category[d].slug = saved.slug
              \/ r.new /\ r.cat \in Existing
           THEN Leave(h) /\ UNCHANGED category
           ELSE /\ category' = [category EXCEPT ![r.cat] = saved]
                /\ IF r.new \/ path = r.loaded.path THEN Leave(h)
                   ELSE Goto(h, [r EXCEPT !.pc = "find", !.path = path, !.parentPath = <<>>])
        /\ UNCHANGED <<requests, faults, overlapped, raced>>

(* updateDescendantPaths: those below the old path are found (mutant: the  *)
(* children of the category), ...                                          *)
Below(path, prefix) ==
    /\ Len(path) > Len(prefix)
    /\ SubSeq(path, 1, Len(prefix)) = prefix

FindDescendants_Children(h) ==
    LET r == req[h]
        found == {d \in Existing : category[d].parent = r.cat}
    IN  /\ At(h, "find")
        /\ IF found = {} THEN Leave(h)
           ELSE Goto(h, [r EXCEPT !.pc = "write",
                                  !.todo = {<<d, category[d].path>> : d \in found}])
        /\ UNCHANGED <<category, requests, faults, overlapped, raced>>
FindDescendants(h) ==
    LET r == req[h]
        found == {d \in Existing : Below(category[d].path, r.loaded.path)}
    IN  /\ At(h, "find")
        /\ IF found = {} THEN Leave(h)
           ELSE Goto(h, [r EXCEPT !.pc = "write",
                                  !.todo = {<<d, category[d].path>> : d \in found}])
        /\ UNCHANGED <<category, requests, faults, overlapped, raced>>

(* ... and their paths, as found, are written one by one.                  *)
WriteDescendant(h) ==
    LET r == req[h]
        moved(path) == r.path \o SubSeq(path, Len(r.loaded.path) + 1, Len(path))
    IN  /\ At(h, "write")
        /\ \E d \in r.todo :
             /\ category' = [category EXCEPT ![d[1]].path = moved(d[2])]
             /\ IF r.todo = {d} THEN Leave(h) ELSE Goto(h, [r EXCEPT !.todo = @ \ {d}])
        /\ UNCHANGED <<requests, faults, overlapped, raced>>

(* An await fails, or the process stops, once something has been saved     *)
(* (before that the request has done nothing).                             *)
Fail(h) ==
    /\ req[h].pc \in {"find", "write"} /\ faults < MaxFaults /\ faults' = faults + 1
    /\ Leave(h)
    /\ UNCHANGED <<category, requests, overlapped, raced>>

Next == \E h \in Handlers :
    \/ Begin(h) \/ LoadCategory(h) \/ ReadParent(h) \/ WalkUp(h) \/ Save(h)
    \/ FindDescendants(h) \/ WriteDescendant(h) \/ Fail(h)

Spec == Init /\ [][Next]_vars

----------------------------------------------------------------------------
(* Properties *)

(* Every variable has its type, and parents exist.                         *)
TypeOK ==
    /\ \A c \in Cats :
         IF c \in Existing
         THEN /\ category[c].slug \in Slugs
              /\ category[c].parent \in (Existing \cup {None}) \ {c}
              /\ category[c].path \in Seq(Slugs)
         ELSE category[c] = NoCategory
    /\ \A h \in Handlers :
         /\ req[h].pc \in {"idle", "load", "parent", "walk", "save", "find", "write"}
         /\ req[h].visited \subseteq Existing
         /\ req[h].todo \subseteq Existing \X Seq(Slugs)
    /\ requests \in 0 .. MaxRequests /\ faults \in 0 .. MaxFaults
    /\ {overlapped, raced} \subseteq BOOLEAN

(* After requests that came one by one and did not fail, every category    *)
(* has the path of its parent followed by its slug (buildCategoryPath).    *)
LoneRequestsKeepPaths ==
    (~overlapped /\ faults = 0 /\ Busy = {}) =>
        /\ Acyclic
        /\ \A c \in Existing :
             category[c].path =
               Append(IF category[c].parent = None THEN <<>>
                      ELSE category[category[c].parent].path, category[c].slug)

(* Unless two moves overlap, and whatever fails, the categories stay a     *)
(* tree (errors.ticketCategory.parentCycle).                               *)
OneMoveAtATimeKeepsTree == ~raced => Acyclic

(* The walk up the parents ends, also among categories that two            *)
(* overlapping moves have made parents of one another: every step of it    *)
(* leaves fewer categories that it has not seen (visited).                 *)
WalkDescends ==
    \A h \in Handlers : At(h, "walk") /\ req'[h].pc = "walk" /\ req'[h] # req[h] =>
        Cardinality(Cats \ req'[h].visited) < Cardinality(Cats \ req[h].visited)
WalksEnd == [][WalkDescends]_vars
============================================================================
