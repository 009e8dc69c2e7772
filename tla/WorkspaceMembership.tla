------------------------ MODULE WorkspaceMembership ------------------------
(***************************************************************************)
(* The members and the invites of one workspace, the seats they use and    *)
(* the sessions that are bound to the workspace.                           *)
(*                                                                         *)
(* Sources: src/src/modules/workspaces/services/workspace-members.service  *)
(* .js and workspaces.service.js, the seat checks of                       *)
(* billing-enforcement.service.js, and the revocation of                   *)
(* auth/services/session.service.js.                                       *)
(*                                                                         *)
(* A request is a handler that reads, checks and writes in separate        *)
(* awaits, without a transaction: every await is a step, and what the      *)
(* handler has read is kept in its record.  Requests interleave freely.    *)
(***************************************************************************)
EXTENDS Naturals, FiniteSets, MongooseDocument

CONSTANTS
    Users,        \* the users that are, or may become, members
    Founders,     \* the users that are active owners at the start
    Staff,        \* the users that are active members at the start
    StaffRole,    \* and the role each of them has
    Invites,      \* invite documents the workspace may create
    Sessions,     \* sessions the users may open in the workspace
    SessionUser,  \* the user of each session
    Handlers,     \* requests the server may have in flight at once
    Roles,        \* the roles in use; agent and viewer are managed alike
    SeatLimit,    \* limits.seatsIncluded of the workspace's entitlement
    Operations,   \* the operations this instance explores
    CanFail,      \* whether a request may end at any await with an error
    None          \* "no user", "no invite"

Manageable == {"agent", "viewer"}
ManagerRoles == {"owner", "admin"}
MemberStatus == {"none", "active", "suspended", "removed"}
InviteStatus == {"none", "pending", "accepted", "revoked", "expired", "purged"}
MemberOps == {"role", "suspend", "activate", "remove"}
InviteOps == {"invite", "resend", "revoke"}

ASSUME MembershipAssumption ==
    /\ {"owner", "agent"} \subseteq Roles
    /\ Roles \subseteq {"owner", "admin", "agent", "viewer"}
    /\ Founders \subseteq Users /\ Founders # {} /\ Staff \subseteq Users
    /\ Founders \cap Staff = {}
    /\ StaffRole \in [Staff -> Roles \ {"owner"}]
    /\ SessionUser \in [Sessions -> Users]
    /\ CanFail \in BOOLEAN
    /\ None \notin Users \cup Invites

(* The workspace starts within its plan, and the server can serve at least *)
(* one request.                                                            *)
ASSUME SeatAssumption ==
    /\ IsFiniteSet(Users) /\ IsFiniteSet(Invites)
    /\ IsFiniteSet(Handlers) /\ Handlers # {}
    /\ SeatLimit \in Nat
    /\ Cardinality(Founders \cup Staff) =< SeatLimit

VARIABLES
    member,   \* the workspace's membership record of each user
    invite,   \* its invites
    session,  \* "none", "live" in this workspace, "left" it, or "revoked"
    req,      \* the requests in flight
    overlap,  \* history: a request made a step while another was in flight (or nobody
              \* asks: then TRUE from the start)
    late,     \* history: requests about to save; an owner was lost since they checked
    raced,    \* history: an owner was lost to one of them, or to one that saw no owner
    old,      \* history: for a change, the target's sessions that have been live in
              \* the workspace ever since it was saved
    stale,    \* history: enters whose membership has changed since they resolved it
    again,    \* history: changes whose target has been active since they were saved
    stray     \* history: the live sessions that a stale enter has bound

history == <<overlap, late, raced, old, stale, again, stray>>
vars == <<member, invite, session, req, history>>

(* A membership document; `deleted` stands for deletedAt and removedAt,    *)
(* which the code sets and clears together.                                *)
MemberDoc == [role : Roles, status : MemberStatus, deleted : BOOLEAN]

(* An invite document; `lapsed` is expiresAt being in the past.            *)
InviteDoc == [user : Users \cup {None}, role : Roles, status : InviteStatus,
              deleted : BOOLEAN, lapsed : BOOLEAN]

NoMember == [role |-> "agent", status |-> "none", deleted |-> FALSE]
NoInvite == [user |-> None, role |-> "agent", status |-> "none",
             deleted |-> FALSE, lapsed |-> FALSE]

(* A request: what it was asked for (op, user, role, invite), who asked    *)
(* and with which role, the membership it has read and the sessions it has *)
(* listed.                                                                 *)
Request == [pc : {"idle", "load", "check", "save", "list", "revoke",
                  "expire", "accept", "find", "open"},
            op : MemberOps \cup InviteOps \cup {"accept", "enter", "none"},
            actor : Users \cup {None}, actorRole : Roles,
            user : Users \cup {None}, role : Roles,
            invite : Invites \cup {None}, doc : MemberDoc,
            ids : SUBSET Sessions]

Idle == [pc |-> "idle", op |-> "none", actor |-> None, actorRole |-> "agent",
         user |-> None, role |-> "agent", invite |-> None,
         doc |-> NoMember, ids |-> {}]

----------------------------------------------------------------------------
(* Queries of the collections *)

IsActive(m) == m.status = "active" /\ ~m.deleted
ActiveMembers == {u \in Users : IsActive(member[u])}
ActiveOwners == {u \in ActiveMembers : member[u].role = "owner"}

ReservesSeat(i) == i.status = "pending" /\ ~i.deleted /\ ~i.lapsed
SeatInvites == {i \in Invites : ReservesSeat(invite[i])}
SeatsUsed(excluded) ==
    Cardinality(ActiveMembers) + Cardinality(SeatInvites \ excluded)

(* The partial unique index: one pending, undeleted invite per e-mail.     *)
HasPendingInvite(u) ==
    \E i \in Invites : /\ invite[i].user = u
                       /\ invite[i].status = "pending" /\ ~invite[i].deleted

SavedMember(stored, loaded, changed) ==
    [role    |-> SavedPath(stored.role, loaded.role, changed.role),
     status  |-> SavedPath(stored.status, loaded.status, changed.status),
     deleted |-> SavedPath(stored.deleted, loaded.deleted, changed.deleted)]

LiveSessionsOf(u) == {s \in Sessions : SessionUser[s] = u /\ session[s] = "live"}

----------------------------------------------------------------------------
(* How a request proceeds *)

At(h, pc) == req[h].pc = pc
Respond(h) == req' = [req EXCEPT ![h] = Idle]
Goto(h, r) == req' = [req EXCEPT ![h] = r]

----------------------------------------------------------------------------
Init ==
    /\ member = [u \in Users |->
         IF u \in Founders THEN [role |-> "owner", status |-> "active", deleted |-> FALSE]
         ELSE IF u \in Staff
         THEN [role |-> StaffRole[u], status |-> "active", deleted |-> FALSE]
         ELSE NoMember]
    /\ invite = [i \in Invites |-> NoInvite]
    /\ session = [s \in Sessions |-> "none"]
    /\ req = [h \in Handlers |-> Idle]
    /\ overlap \in BOOLEAN /\ late = {} /\ raced = FALSE
    /\ old = [h \in Handlers |-> {}] /\ stale = {} /\ again = {} /\ stray = {}

(* The middlewares: the actor is an active member whose current role may   *)
(* call the route.  The role goes into the request and is not read again.  *)
Authenticate(h, a) ==
    /\ At(h, "idle")
    /\ IsActive(member[a]) /\ member[a].role \in ManagerRoles
    /\ \E op \in Operations \cap (MemberOps \cup InviteOps), u \in Users,
          ro \in Roles, i \in Invites \cup {None} :
         /\ op \in MemberOps \cup {"invite"} => i = None
         /\ op \in {"resend", "revoke"} => u = a /\ ro = "agent" /\ i # None
         /\ op \in {"suspend", "activate", "remove"} => ro = "agent"
         /\ Goto(h, [Idle EXCEPT !.pc = "load", !.op = op, !.actor = a,
                         !.actorRole = member[a].role, !.user = u,
                         !.role = ro, !.invite = i])
    /\ UNCHANGED <<member, invite, session>>

(* Mutant: the role of the target is not looked at.                        *)
MayManage_AnyTarget(r, target) ==
    /\ r.user # r.actor
    /\ r.op = "role" => r.actorRole = "owner" \/ r.role \in Manageable

(* assertWorkspaceMemberAuthority: never oneself; an owner manages anyone, *)
(* an admin only members, and next roles, below admin.                     *)
MayManage(r, target) ==
    /\ r.user # r.actor
    /\ r.actorRole = "owner" \/ target.role \in Manageable
    /\ r.op = "role" => r.actorRole = "owner" \/ r.role \in Manageable

(* findMemberForActionOrThrow, assertNotRemoved and the authority check.   *)
LoadTarget(h) ==
    LET r == req[h]
        target == member[r.user]
        found == target.status # "none" /\ (~target.deleted \/ target.status = "removed")
        refused == r.op # "remove" /\ target.status = "removed"
    IN  /\ At(h, "load") /\ r.op \in MemberOps
        /\ IF found /\ ~refused /\ MayManage(r, target)
           THEN Goto(h, [r EXCEPT !.pc = "check", !.doc = target])
           ELSE Respond(h)
        /\ UNCHANGED <<member, invite, session>>

(* Mutant: a status that is one of the invites.                            *)
Changed_InviteStatus(r) ==
    CASE r.op = "role"     -> [r.doc EXCEPT !.role = r.role]
      [] r.op = "suspend"  -> [r.doc EXCEPT !.status = "revoked", !.deleted = FALSE]
      [] r.op = "activate" -> [r.doc EXCEPT !.status = "active", !.deleted = FALSE]
      [] OTHER             -> [r.doc EXCEPT !.status = "revoked", !.deleted = TRUE]

(* The document as the handler changes it in memory.                       *)
Changed(r) ==
    CASE r.op = "role"     -> [r.doc EXCEPT !.role = r.role]
      [] r.op = "suspend"  -> [r.doc EXCEPT !.status = "suspended", !.deleted = FALSE]
      [] r.op = "activate" -> [r.doc EXCEPT !.status = "active", !.deleted = FALSE]
      [] OTHER             -> [r.doc EXCEPT !.status = "removed", !.deleted = TRUE]

(* assertLastOwnerSafety: a count of the active owners when the request    *)
(* would take active ownership from its target, as it was loaded.          *)
LosesOwner(r) ==
    /\ r.doc.role = "owner" /\ r.doc.status = "active"
    /\ ~(Changed(r).role = "owner" /\ Changed(r).status = "active")
TakesOwner(r) == r.op \in MemberOps /\ LosesOwner(r)

(* Mutant: the owners that are active are not counted.                     *)
LastOwnerSafe_Unchecked(r) == TRUE
LastOwnerSafe(r) == LosesOwner(r) => Cardinality(ActiveOwners) > 1

(* The checks made before the save: the last owner for a demotion, a       *)
(* suspension or a removal, a free seat for an activation.  A request that *)
(* changes nothing succeeds here without a save.                           *)
CheckTarget(h) ==
    LET r == req[h]
        seatFree == SeatsUsed({}) + 1 =< SeatLimit
        allowed == IF r.op = "activate" THEN seatFree ELSE LastOwnerSafe(r)
    IN  /\ At(h, "check") /\ r.op \in MemberOps
        /\ IF Changed(r) # r.doc /\ allowed
           THEN Goto(h, [r EXCEPT !.pc = "save"])
           ELSE Respond(h)
        /\ UNCHANGED <<member, invite, session>>

(* member.save(), after which the target's sessions are invalidated.  A    *)
(* removal of an already removed member only fills in the dates.           *)
SaveTarget(h) ==
    LET r == req[h]
    IN  /\ At(h, "save") /\ r.op \in MemberOps
        /\ member' = [member EXCEPT ![r.user] = SavedMember(@, r.doc, Changed(r))]
        /\ IF r.doc.status = "removed"
           THEN Respond(h)
           ELSE Goto(h, [r EXCEPT !.pc = "list"])
        /\ UNCHANGED <<invite, session>>

(* revokeUserWorkspaceSessions first lists the live sessions...            *)
ListSessions(h) ==
    LET r == req[h]
        ids == LiveSessionsOf(r.user)
    IN  /\ At(h, "list")
        /\ IF ids = {} THEN Respond(h)
           ELSE Goto(h, [r EXCEPT !.pc = "revoke", !.ids = ids])
        /\ UNCHANGED <<member, invite, session>>

(* Mutant: the sessions of whoever asked, not of the member.               *)
RevokeSessions_Actor(h) ==
    /\ At(h, "revoke")
    /\ session' = [s \in Sessions |-> IF SessionUser[s] = req[h].actor THEN "revoked"
                                      ELSE session[s]]
    /\ Respond(h)
    /\ UNCHANGED <<member, invite>>

(* ... and then revokes the listed ones that nobody has revoked meanwhile, *)
(* wherever they have been switched to.                                    *)
RevokeSessions(h) ==
    /\ At(h, "revoke")
    /\ session' = [s \in Sessions |-> IF s \in req[h].ids THEN "revoked" ELSE session[s]]
    /\ Respond(h)
    /\ UNCHANGED <<member, invite>>

----------------------------------------------------------------------------
(* Invites *)

(* createWorkspaceInvite: role authority, and no membership unless removed.*)
InviteCheckMember(h) ==
    LET r == req[h]
        target == member[r.user]
        isMember == target.status \in {"active", "suspended"} /\ ~target.deleted
        mayInvite == r.actorRole = "owner" \/ r.role \in Manageable
    IN  /\ At(h, "load") /\ r.op = "invite"
        /\ IF mayInvite /\ ~isMember
           THEN Goto(h, [r EXCEPT !.pc = "check"])
           ELSE Respond(h)
        /\ UNCHANGED <<member, invite, session>>

(* Mutant: the seat of the new invite itself is not counted.               *)
InviteCheckSeat_OffByOne(h) ==
    /\ At(h, "check") /\ req[h].op = "invite"
    /\ IF SeatsUsed({}) =< SeatLimit
       THEN Goto(h, [req[h] EXCEPT !.pc = "save"])
       ELSE Respond(h)
    /\ UNCHANGED <<member, invite, session>>

(* assertWorkspaceSeatReservationAllowed.                                  *)
InviteCheckSeat(h) ==
    /\ At(h, "check") /\ req[h].op = "invite"
    /\ IF SeatsUsed({}) + 1 =< SeatLimit
       THEN Goto(h, [req[h] EXCEPT !.pc = "save"])
       ELSE Respond(h)
    /\ UNCHANGED <<member, invite, session>>

(* WorkspaceInvite.create, refused by the index when one is pending.       *)
InviteCreate(h) ==
    LET r == req[h]
        created(i) == [user |-> r.user, role |-> r.role, status |-> "pending",
                       deleted |-> FALSE, lapsed |-> FALSE]
    IN  /\ At(h, "save") /\ r.op = "invite"
        /\ \/ /\ ~HasPendingInvite(r.user)
              /\ \E i \in Invites : /\ invite[i].status = "none"
                                    /\ invite' = [invite EXCEPT ![i] = created(i)]
           \/ /\ HasPendingInvite(r.user)
              /\ UNCHANGED invite
        /\ Respond(h)
        /\ UNCHANGED <<member, session>>

(* resendWorkspaceInvite and revokeWorkspaceInvite load an undeleted       *)
(* invite; a resend needs a pending one, and first marks an expired one.   *)
LoadInvite(h) ==
    LET r == req[h]
        doc == invite[r.invite]
        found == doc.status \notin {"none", "purged"} /\ ~doc.deleted
        usable == doc.status = "pending" \/ (r.op = "revoke" /\ doc.status # "revoked")
        lapsed == r.op = "resend" /\ doc.lapsed
    IN  /\ At(h, "load") /\ r.op \in {"resend", "revoke"}
        /\ IF found /\ usable
           THEN Goto(h, [r EXCEPT !.pc = IF lapsed THEN "expire" ELSE "save",
                                  !.user = doc.user])
           ELSE Respond(h)
        /\ UNCHANGED <<member, invite, session>>

(* save() of an invite a request has loaded and changed: it writes nothing *)
(* when the TTL monitor has deleted the document meanwhile.                *)
SaveInviteDoc(i, changed) ==
    invite' = [invite EXCEPT ![i] = IF @.status = "purged" THEN @ ELSE changed]

(* A resend writes a new token and a new expiry (the link of the old token *)
(* is dead), a revocation the revoked status and the deletion date.        *)
SaveInvite(h) ==
    LET i == req[h].invite
    IN  /\ At(h, "save") /\ req[h].op \in {"resend", "revoke"}
        /\ \/ /\ req[h].op = "resend"
              /\ SaveInviteDoc(i, [invite[i] EXCEPT !.lapsed = FALSE])
           \/ /\ req[h].op = "revoke"
              /\ SaveInviteDoc(i, [invite[i] EXCEPT !.status = "revoked", !.deleted = TRUE])
        /\ Respond(h)
        /\ UNCHANGED <<member, session>>

(* markInviteExpiredIfNeeded saves the expired status, then the request is *)
(* refused.                                                                *)
MarkExpired(h) ==
    LET i == req[h].invite
    IN  /\ At(h, "expire")
        /\ SaveInviteDoc(i, [invite[i] EXCEPT !.status = "expired"])
        /\ Respond(h)
        /\ UNCHANGED <<member, session>>

(* acceptWorkspaceInvite by the invited user, with the token of the link:  *)
(* findInviteByRawToken.                                                   *)
AcceptFind(h) ==
    /\ At(h, "idle") /\ "accept" \in Operations
    /\ \E i \in Invites :
         LET doc == invite[i]
         IN  /\ doc.status = "pending" /\ ~doc.deleted
             /\ Goto(h, [Idle EXCEPT !.pc = IF doc.lapsed THEN "expire" ELSE "find",
                             !.op = "accept", !.user = doc.user, !.role = doc.role,
                             !.invite = i])
    /\ UNCHANGED <<member, invite, session>>

(* createOrActivateMember: the existing membership, refused when active.   *)
AcceptFindMember(h) ==
    LET r == req[h]
        existing == member[r.user]
    IN  /\ At(h, "find")
        /\ IF IsActive(existing)
           THEN Respond(h)
           ELSE Goto(h, [r EXCEPT !.pc = "check", !.doc = existing])
        /\ UNCHANGED <<member, invite, session>>

(* Mutant: the invite is accepted before the membership exists.            *)
AcceptCheckSeat_InviteFirst(h) ==
    /\ At(h, "check") /\ req[h].op = "accept"
    /\ IF SeatsUsed({req[h].invite}) + 1 =< SeatLimit
       THEN Goto(h, [req[h] EXCEPT !.pc = "accept"])
       ELSE Respond(h)
    /\ UNCHANGED <<member, invite, session>>

(* assertWorkspaceMemberActivationAllowed, leaving out the invite's seat.  *)
AcceptCheckSeat(h) ==
    /\ At(h, "check") /\ req[h].op = "accept"
    /\ IF SeatsUsed({req[h].invite}) + 1 =< SeatLimit
       THEN Goto(h, [req[h] EXCEPT !.pc = "save"])
       ELSE Respond(h)
    /\ UNCHANGED <<member, invite, session>>

(* The membership is created, or restored with the invite's role; the      *)
(* unique index refuses a second membership of the same user.              *)
AcceptSaveMember(h) ==
    LET r == req[h]
        restored == [role |-> r.role, status |-> "active", deleted |-> FALSE]
        duplicate == r.doc.status = "none" /\ member[r.user].status # "none"
    IN  /\ At(h, "save") /\ r.op = "accept"
        /\ IF duplicate
           THEN Respond(h) /\ UNCHANGED member
           ELSE /\ member' = [member EXCEPT ![r.user] =
                       IF r.doc.status = "none" THEN restored
                       ELSE SavedMember(@, r.doc, restored)]
                /\ Goto(h, [r EXCEPT !.pc = "accept"])
        /\ UNCHANGED <<invite, session>>

(* The invite is marked accepted, whatever has become of it meanwhile.     *)
AcceptSaveInvite(h) ==
    LET i == req[h].invite
    IN  /\ At(h, "accept")
        /\ SaveInviteDoc(i, [invite[i] EXCEPT !.status = "accepted"])
        /\ Respond(h)
        /\ UNCHANGED <<member, session>>

----------------------------------------------------------------------------
(* Sessions *)

(* A login, a refresh or a switch resolves the active membership of the    *)
(* user of a session...                                                    *)
EnterResolve(h) ==
    /\ At(h, "idle") /\ "enter" \in Operations
    /\ \E s \in Sessions :
         LET u == SessionUser[s]
         IN  /\ IsActive(member[u])
             /\ Goto(h, [Idle EXCEPT !.pc = "open", !.op = "enter", !.user = u])
    /\ UNCHANGED <<member, invite, session>>

(* ... and then binds a session of the user to the workspace: a new one    *)
(* (a login), or one that is in another workspace, or here (a switch or a  *)
(* refresh).  The update of a switch does not match a revoked session, and *)
(* the save of a refresh leaves it revoked.                                *)
EnterBind(h) ==
    /\ At(h, "open")
    /\ \E s \in Sessions :
         /\ SessionUser[s] = req[h].user
         /\ session' = [session EXCEPT ![s] = IF @ = "revoked" THEN @ ELSE "live"]
    /\ Respond(h)
    /\ UNCHANGED <<member, invite>>

(* A session is switched to another workspace by one update.               *)
LeaveWorkspace(s) ==
    /\ session[s] = "live"
    /\ session' = [session EXCEPT ![s] = "left"]
    /\ old' = [h \in Handlers |-> old[h] \ {s}] /\ stray' = stray \ {s}
    /\ UNCHANGED <<member, invite, req, overlap, late, raced, stale, again>>

----------------------------------------------------------------------------
(* The environment *)

(* expiresAt passes, and later the TTL monitor deletes the document.       *)
InviteLapses(i) ==
    /\ invite[i].status \notin {"none", "purged"} /\ ~invite[i].lapsed
    /\ invite' = [invite EXCEPT ![i].lapsed = TRUE]
    /\ UNCHANGED <<member, session, req>>

InvitePurged(i) ==
    /\ invite[i].status \notin {"none", "purged"} /\ invite[i].lapsed
    /\ invite' = [invite EXCEPT ![i].status = "purged"]
    /\ UNCHANGED <<member, session, req>>

(* A request ends at an await with an error, or the process stops: what it *)
(* has written stays.                                                      *)
Fail(h) ==
    /\ CanFail /\ ~At(h, "idle")
    /\ Respond(h)
    /\ UNCHANGED <<member, invite, session>>

Handle(h) ==
    \/ \E a \in Users : Authenticate(h, a)
    \/ LoadTarget(h) \/ CheckTarget(h) \/ SaveTarget(h)
    \/ ListSessions(h) \/ RevokeSessions(h)
    \/ InviteCheckMember(h) \/ InviteCheckSeat(h) \/ InviteCreate(h)
    \/ LoadInvite(h) \/ SaveInvite(h) \/ MarkExpired(h)
    \/ AcceptFind(h) \/ AcceptFindMember(h) \/ AcceptCheckSeat(h)
    \/ AcceptSaveMember(h) \/ AcceptSaveInvite(h)
    \/ EnterResolve(h) \/ EnterBind(h)
    \/ Fail(h)

Lost == {u \in ActiveOwners : ~(IsActive(member'[u]) /\ member'[u].role = "owner")}
RecordsOwners(h) ==
    /\ overlap' = (overlap \/ \E g \in Handlers \ {h} : ~At(g, "idle"))
    /\ late' = IF Lost = {} THEN late \ {h} ELSE {g \in Handlers \ {h} : At(g, "save")}
    /\ raced' = (raced \/ (Lost # {} /\ (h \in late \/ ~TakesOwner(req[h]))))

RecordsSessions(h) ==
    /\ old' = [old EXCEPT ![h] = CASE req'[h].pc = "list"   -> LiveSessionsOf(req[h].user)
                                   [] req'[h].pc = "revoke" -> @
                                   [] OTHER                 -> {}]
    /\ stale' = {g \in Handlers : /\ req'[g].pc = "open"
                                  /\ g \in stale \/ (member' # member /\ req[g].user = req[h].user)}
    /\ again' = {g \in Handlers : /\ req'[g].pc \in {"list", "revoke"}
                                  /\ g \in again \/ IsActive(member'[req'[g].user])}
    /\ stray' = {s \in Sessions : /\ session'[s] = "live"
                                  /\ IF session[s] = "live" THEN s \in stray ELSE h \in stale}

Records(h) == RecordsOwners(h) /\ RecordsSessions(h)

Next ==
    \/ \E h \in Handlers : Handle(h) /\ Records(h)
    \/ \E s \in Sessions : LeaveWorkspace(s)
    \/ \E i \in Invites : (InviteLapses(i) \/ InvitePurged(i)) /\ UNCHANGED history

Spec == Init /\ [][Next]_vars

----------------------------------------------------------------------------
(* Properties *)

(* Every variable has its type.                                            *)
Typed ==
    /\ member \in [Users -> MemberDoc]
    /\ invite \in [Invites -> InviteDoc]
    /\ session \in [Sessions -> {"none", "live", "left", "revoked"}]
    /\ req \in [Handlers -> Request]
TypeOK ==
    /\ Typed
    /\ overlap \in BOOLEAN /\ late \subseteq Handlers /\ raced \in BOOLEAN
    /\ old \in [Handlers -> SUBSET Sessions]
    /\ stale \subseteq Handlers /\ again \subseteq Handlers /\ stray \subseteq Sessions

(* The users that take a seat: active members, and users with an invite    *)
(* that still reserves one.                                                *)
SeatHolders == ActiveMembers \cup {invite[i].user : i \in SeatInvites}

(* The seat checks are not atomic with the writes they guard, but they     *)
(* lose at most one seat per request in flight beyond the first: whatever  *)
(* the interleaving, the failures and the expiries.  With one request at a *)
(* time the plan's limit is exact.                                         *)
SeatOvershootBounded ==
    Cardinality(SeatHolders) =< SeatLimit + Cardinality(Handlers) - 1

(* An accepted invite always has brought its user a membership, also when  *)
(* the request that accepts it stops between its two writes.               *)
AcceptedInviteHasMember ==
    \A i \in Invites : invite[i].status = "accepted" => member[invite[i].user].status # "none"

(* The workspace has an active owner (assertLastOwnerSafety), unless       *)
(* ownership was taken by a request that had counted the owners before     *)
(* another one was lost, or that had not seen an active owner in its       *)
(* target.  Other requests may overlap.                                    *)
HasActiveOwner == ~raced => ActiveOwners # {}

(* Nobody is missing: neither the member of an invite nor the owner.       *)
MembersRemain == AcceptedInviteHasMember /\ HasActiveOwner

(* A membership is marked deleted exactly when it is removed: otherwise no *)
(* action of a manager finds it again.                                     *)
DeletedIffRemoved ==
    \A u \in Users : member[u].deleted <=> member[u].status = "removed"

(* An admin's request never changes a member that is, or becomes, an owner *)
(* or an admin (assertWorkspaceMemberAuthority).                           *)
ManagesBelow ==
    \A h \in Handlers, u \in Users :
        /\ At(h, "save") /\ req[h].op \in MemberOps /\ req[h].actorRole = "admin"
        /\ req'[h].pc # "save" /\ member'[u] # member[u]
        => member[u].role \in Manageable /\ member'[u].role \in Manageable

(* A removed member comes back only by accepting an invite.                *)
ReturnsReinvited ==
    \A u \in Users :
        member[u].status = "removed" /\ member'[u].status # "removed"
        => \E h \in Handlers : req[h].op = "accept" /\ At(h, "save") /\ req[h].user = u

(* Requests that come one at a time, and may fail anywhere, leave an       *)
(* active owner, keep what a membership says of its end, manage only       *)
(* members below the actor, and bring removed members back by invites      *)
(* only.  All of it fails once two requests have overlapped.               *)
LoneRequestsObey ==
    /\ [](~overlap => ActiveOwners # {} /\ DeletedIffRemoved)
    /\ [][~overlap' => ManagesBelow /\ ReturnsReinvited]_vars

(* When a membership change has run to its end, a session of its user that *)
(* is live in the workspace has been bound to it since the change was      *)
(* saved.  If the member has not been active since then, an enter did it   *)
(* that had resolved the membership before a change: it opened a session   *)
(* (createSessionWithTokens), or brought one back that had left            *)
(* (switchWorkspaceForSession), after the revocation had listed them.      *)
NoOldSessionSurvives ==
    [][\A h \in Handlers :
         (ListSessions(h) \/ RevokeSessions(h)) /\ req'[h].pc = "idle"
         => \A s \in Sessions : SessionUser[s] = req[h].user /\ session'[s] = "live"
                => s \notin old[h] /\ (h \in again \/ s \in stray)]_vars

----------------------------------------------------------------------------
(* The inductive invariant behind the properties that hold however many    *)
(* requests overlap                                                        *)

(* What a request holds at each step of its way.                           *)
WellFormed(r) ==
    /\ r.op = "none" <=> r.pc = "idle"
    /\ r.op # "none" => r.user \in Users
    /\ r.op \in {"resend", "revoke", "accept"} => r.invite \in Invites
    /\ r.pc \in {"find", "accept"} => r.op = "accept"
    /\ r.pc = "expire" => r.op \in {"resend", "accept"}
    /\ r.pc \in {"list", "revoke"} => r.op \in MemberOps
    /\ r.op = "enter" <=> r.pc = "open"
    /\ r.op = "accept" \/ (r.op \in {"resend", "revoke"} /\ r.pc # "load")
       => invite[r.invite].status # "none" /\ invite[r.invite].user = r.user
    /\ r.op \in MemberOps \ {"remove"} /\ r.pc \in {"check", "save"} => ~r.doc.deleted
    /\ r.pc = "accept" \/ (r.op = "accept" /\ r.doc.status # "none")
       => member[r.user].status # "none"

RequestsWellFormed == \A h \in Handlers : WellFormed(req[h])

(* An invite that exists has a user.                                       *)
InvitesHaveUsers ==
    \A i \in Invites : invite[i].status # "none" => invite[i].user \in Users

(* The requests that have passed their seat check, or found the seat of    *)
(* the invite they renew, and are about to write: each holds one seat.     *)
Reserving == {h \in Handlers : /\ At(h, "save")
                               /\ req[h].op \in {"activate", "invite", "resend", "accept"}}
Reserved == SeatHolders \cup {req[h].user : h \in Reserving}
SeatsReserved == Cardinality(Reserved) =< SeatLimit + Cardinality(Handlers) - 1

(* An enter that is not stale still sees its user active, and a change     *)
(* whose target was not active since it was saved does not.  A revocation  *)
(* has listed every live session of its user but the ones that were bound  *)
(* since.  A session that has stayed since a save is live, or revoked.     *)
SessionsListed ==
    /\ \A h \in Handlers : \A s \in old[h] : session[s] \in {"live", "revoked"}
    /\ \A h \in Handlers :
          At(h, "open") /\ h \notin stale => IsActive(member[req[h].user])
    /\ \A h \in Handlers :
          req[h].pc \in {"list", "revoke"} /\ h \notin again => ~IsActive(member[req[h].user])
    /\ \A h \in Handlers, s \in Sessions :
          /\ At(h, "revoke") /\ SessionUser[s] = req[h].user
          /\ session[s] = "live" /\ s \notin req[h].ids
          => s \notin old[h] /\ (h \in again \/ s \in stray)

(* What a request that nobody has overlapped has loaded is still so, and   *)
(* so is the role it was authenticated with.                               *)
StillSo(r) ==
    /\ r.op \in MemberOps /\ r.pc \in {"load", "check", "save"} =>
          /\ r.actor \in Users /\ IsActive(member[r.actor])
          /\ member[r.actor].role = r.actorRole /\ r.actorRole \in ManagerRoles
    /\ r.op \in MemberOps /\ r.pc \in {"check", "save"} =>
          /\ r.doc = member[r.user] /\ MayManage(r, r.doc)
          /\ r.doc.status = "removed" => r.op = "remove"
    /\ r.op = "accept" /\ r.pc \in {"check", "save"} =>
          r.doc = member[r.user] /\ ~IsActive(r.doc)

LoneHolds ==
    ~overlap =>
        /\ \A g, h \in Handlers : ~At(g, "idle") /\ ~At(h, "idle") => g = h
        /\ \A h \in Handlers : StillSo(req[h])
        /\ DeletedIffRemoved /\ late = {} /\ ~raced

(* A request that is about to take ownership has seen another owner, and   *)
(* if none was lost since, there is still another.                         *)
OwnersCounted ==
    \A h \in Handlers : At(h, "save") /\ TakesOwner(req[h]) /\ h \notin late =>
        Cardinality(ActiveOwners) > 1

IndInv == /\ TypeOK /\ RequestsWellFormed /\ InvitesHaveUsers
          /\ AcceptedInviteHasMember /\ SeatsReserved /\ SessionsListed
          /\ HasActiveOwner /\ OwnersCounted /\ LoneHolds
=============================================================================
