-------------------- MODULE WorkspaceMembership_proofs --------------------
(***************************************************************************)
(* Proofs about WorkspaceMembership, for any number of users, invites,     *)
(* sessions and overlapping requests.                                      *)
(***************************************************************************)
EXTENDS WorkspaceMembership, TLAPS, FiniteSetTheorems

(* The part of the inductive invariant that every other part needs.        *)
TypeInv == Typed /\ RequestsWellFormed /\ InvitesHaveUsers

(* What every step does to the collections: no membership and no invite    *)
(* that exists is forgotten, and an invite keeps its user.                 *)
Remembers ==
    /\ \A u \in Users : member[u].status # "none" => member'[u].status # "none"
    /\ \A i \in Invites :
          invite[i].status # "none" => /\ invite'[i].status # "none"
                                       /\ invite'[i].user = invite[i].user

(* A step that moves one request to a well-formed one, and remembers what  *)
(* the others rely on, keeps all of them well-formed.                      *)
LEMMA OneRequestMoves ==
    ASSUME TypeInv, Remembers, NEW h \in Handlers, NEW r \in Request,
           req' = [req EXCEPT ![h] = r], WellFormed(req[h])'
    PROVE  req' \in [Handlers -> Request] /\ RequestsWellFormed'
  <1>1. req' \in [Handlers -> Request]
    BY DEF TypeInv, Typed
  <1>2. ASSUME NEW g \in Handlers
        PROVE  WellFormed(req[g])'
    <2>1. CASE g = h
      BY <2>1 DEF TypeInv, Typed
    <2>2. CASE g # h
      <3>1. req'[g] = req[g] /\ req[g] \in Request /\ WellFormed(req[g])
        BY <2>2 DEF TypeInv, Typed, RequestsWellFormed
      <3>2. QED
        BY <3>1 DEF Remembers, WellFormed
    <2>3. QED
      BY <2>1, <2>2
  <1>3. QED
    BY <1>1, <1>2 DEF RequestsWellFormed

(* Ending a request is such a move.                                        *)
LEMMA IdleIsWellFormed ==
    ASSUME MembershipAssumption
    PROVE  Idle \in Request /\ WellFormed(Idle) /\ WellFormed(Idle)'
  BY DEF MembershipAssumption, Idle, Request, WellFormed, NoMember, MemberDoc, MemberStatus, MemberOps, InviteOps

USE MembershipAssumption

(* Every member action ends in one of two ways: the request is over, or it *)
(* goes on with another record.                                            *)
LEMMA RequestEnds ==
    ASSUME TypeInv, Remembers, NEW h \in Handlers, Respond(h),
           member' \in [Users -> MemberDoc], invite' \in [Invites -> InviteDoc],
           session' \in [Sessions -> {"none", "live", "left", "revoked"}],
           InvitesHaveUsers'
    PROVE  TypeInv' /\ Remembers
  <1>1. req' = [req EXCEPT ![h] = Idle] /\ req'[h] = Idle
    BY DEF Respond, TypeInv, Typed
  <1>2. WellFormed(req[h])'
    BY <1>1 DEF Idle, WellFormed, MemberOps
  <1>3. QED
    BY <1>1, <1>2, OneRequestMoves, IdleIsWellFormed DEF TypeInv, Typed

LEMMA RequestGoesOn ==
    ASSUME TypeInv, Remembers, NEW h \in Handlers, NEW r \in Request,
           Goto(h, r), WellFormed(req[h])',
           member' \in [Users -> MemberDoc], invite' \in [Invites -> InviteDoc],
           session' \in [Sessions -> {"none", "live", "left", "revoked"}],
           InvitesHaveUsers'
    PROVE  TypeInv' /\ Remembers
  BY OneRequestMoves DEF TypeInv, Typed, Goto

(* Steps that only read.                                                   *)
LEMMA ReadRemembers ==
    ASSUME TypeInv, UNCHANGED <<member, invite, session>>
    PROVE  /\ Remembers /\ InvitesHaveUsers'
           /\ member' \in [Users -> MemberDoc] /\ invite' \in [Invites -> InviteDoc]
           /\ session' \in [Sessions -> {"none", "live", "left", "revoked"}]
  BY DEF TypeInv, Typed, Remembers, InvitesHaveUsers

LEMMA AuthenticateType ==
    ASSUME TypeInv, NEW h \in Handlers, NEW a \in Users, Authenticate(h, a)
    PROVE  TypeInv' /\ Remembers
  <1> PICK op \in Operations \cap (MemberOps \cup InviteOps), u \in Users, ro \in Roles,
           i \in Invites \cup {None} :
              /\ op \in {"resend", "revoke"} => i # None
              /\ Goto(h, [Idle EXCEPT !.pc = "load", !.op = op, !.actor = a,
                              !.actorRole = member[a].role, !.user = u,
                              !.role = ro, !.invite = i])
    BY DEF Authenticate
  <1> DEFINE r == [Idle EXCEPT !.pc = "load", !.op = op, !.actor = a,
                       !.actorRole = member[a].role, !.user = u,
                       !.role = ro, !.invite = i]
  <1>1. r \in Request
    BY IdleIsWellFormed DEF Request, TypeInv, Typed, MemberDoc
  <1>2. WellFormed(req[h])'
    BY DEF Idle, WellFormed, MemberOps, InviteOps, Goto, TypeInv, Typed
  <1>3. QED
    BY <1>1, <1>2, ReadRemembers, RequestGoesOn DEF Authenticate

LEMMA LoadTargetType ==
    ASSUME TypeInv, NEW h \in Handlers, LoadTarget(h)
    PROVE  TypeInv' /\ Remembers
  <1> DEFINE r == [req[h] EXCEPT !.pc = "check", !.doc = member[req[h].user]]
  <1>1. /\ req[h] \in Request /\ WellFormed(req[h]) /\ req[h].op \in MemberOps
        /\ req[h].user \in Users /\ req[h].pc = "load"
    BY DEF LoadTarget, At, TypeInv, Typed, RequestsWellFormed, WellFormed, MemberOps
  <1>2. CASE Respond(h)
    BY <1>2, ReadRemembers, RequestEnds DEF LoadTarget
  <1>3. CASE Goto(h, r) /\ (req[h].op # "remove" => ~r.doc.deleted)
    <2>1. r \in Request
      BY <1>1 DEF Request, TypeInv, Typed
    <2>2. WellFormed(req[h])'
      BY <1>1, <1>3, <1>3 DEF Goto, TypeInv, Typed, WellFormed, MemberOps
    <2>3. QED
      BY <1>3, <2>1, <2>2, ReadRemembers, RequestGoesOn DEF LoadTarget
  <1>4. QED
    BY <1>1, <1>2, <1>3 DEF LoadTarget, Request

LEMMA CheckTargetType ==
    ASSUME TypeInv, NEW h \in Handlers, CheckTarget(h)
    PROVE  TypeInv' /\ Remembers
  <1> DEFINE r == [req[h] EXCEPT !.pc = "save"]
  <1>1. /\ req[h] \in Request /\ WellFormed(req[h]) /\ req[h].op \in MemberOps
        /\ req[h].pc = "check"
    BY DEF CheckTarget, At, TypeInv, Typed, RequestsWellFormed
  <1>2. CASE Respond(h)
    BY <1>2, ReadRemembers, RequestEnds DEF CheckTarget
  <1>3. CASE Goto(h, r)
    <2>1. r \in Request
      BY <1>1 DEF Request
    <2>2. WellFormed(req[h])'
      BY <1>1, <1>3 DEF Goto, TypeInv, Typed, WellFormed, MemberOps, Request
    <2>3. QED
      BY <1>3, <2>1, <2>2, ReadRemembers, RequestGoesOn DEF CheckTarget
  <1>4. QED
    BY <1>2, <1>3 DEF CheckTarget

(* save() of a membership writes a membership.                             *)
LEMMA SavedMemberType ==
    ASSUME NEW stored \in MemberDoc, NEW loaded \in MemberDoc, NEW changed \in MemberDoc
    PROVE  /\ SavedMember(stored, loaded, changed) \in MemberDoc
           /\ stored.status # "none" /\ changed.status # "none"
              => SavedMember(stored, loaded, changed).status # "none"
  BY DEF SavedMember, SavedPath, MemberDoc

LEMMA ChangedType ==
    ASSUME NEW r \in Request
    PROVE  /\ Changed(r) \in MemberDoc
           /\ r.op \in MemberOps /\ r.doc.status # "none" => Changed(r).status # "none"
  BY DEF Changed, Request, MemberDoc, MemberStatus, MemberOps

LEMMA SaveTargetType ==
    ASSUME TypeInv, NEW h \in Handlers, SaveTarget(h)
    PROVE  TypeInv' /\ Remembers
  <1> DEFINE r == [req[h] EXCEPT !.pc = "list"]
  <1>1. /\ req[h] \in Request /\ WellFormed(req[h]) /\ req[h].op \in MemberOps
        /\ req[h].user \in Users /\ req[h].pc = "save"
    BY DEF SaveTarget, At, TypeInv, Typed, RequestsWellFormed, WellFormed, MemberOps
  <1> DEFINE saved == SavedMember(member[req[h].user], req[h].doc, Changed(req[h]))
  <1>2. saved \in MemberDoc /\ (member[req[h].user].status # "none" => saved.status # "none")
    <2>1. req[h].doc \in MemberDoc /\ member[req[h].user] \in MemberDoc
      BY <1>1 DEF Request, TypeInv, Typed
    <2>2. Changed(req[h]) \in MemberDoc
      BY <1>1, ChangedType
    <2>3. saved \in MemberDoc
      BY <2>1, <2>2, SavedMemberType
    <2>4. ASSUME member[req[h].user].status # "none"
          PROVE  saved.status # "none"
      BY <1>1, <2>1, <2>4 DEF SavedMember, SavedPath, Changed, MemberDoc, MemberOps
    <2>5. QED
      BY <2>3, <2>4
  <1>3. member' = [member EXCEPT ![req[h].user] = saved] /\ UNCHANGED <<invite, session>>
    BY DEF SaveTarget
  <1>4. /\ Remembers /\ InvitesHaveUsers' /\ member' \in [Users -> MemberDoc]
        /\ invite' \in [Invites -> InviteDoc]
        /\ session' \in [Sessions -> {"none", "live", "left", "revoked"}]
    BY <1>1, <1>2, <1>3 DEF TypeInv, Typed, Remembers, InvitesHaveUsers
  <1>5. CASE Respond(h)
    BY <1>4, <1>5, RequestEnds
  <1>6. CASE Goto(h, r)
    <2>1. r \in Request
      BY <1>1 DEF Request
    <2>2. WellFormed(req[h])'
      BY <1>1, <1>6, <1>3 DEF Goto, TypeInv, Typed, WellFormed, MemberOps, Request
    <2>3. QED
      BY <1>4, <1>6, <2>1, <2>2, RequestGoesOn
  <1>7. QED
    BY <1>5, <1>6 DEF SaveTarget

LEMMA ListSessionsType ==
    ASSUME TypeInv, NEW h \in Handlers, ListSessions(h)
    PROVE  TypeInv' /\ Remembers
  <1> DEFINE r == [req[h] EXCEPT !.pc = "revoke", !.ids = LiveSessionsOf(req[h].user)]
  <1>1. req[h] \in Request /\ WellFormed(req[h]) /\ req[h].pc = "list"
    BY DEF ListSessions, At, TypeInv, Typed, RequestsWellFormed
  <1>2. CASE Respond(h)
    BY <1>2, ReadRemembers, RequestEnds DEF ListSessions
  <1>3. CASE Goto(h, r)
    <2>1. r \in Request
      BY <1>1 DEF Request, LiveSessionsOf
    <2>2. WellFormed(req[h])'
      BY <1>1, <1>3 DEF Goto, TypeInv, Typed, WellFormed, MemberOps, Request, ListSessions
    <2>3. QED
      BY <1>3, <2>1, <2>2, ReadRemembers, RequestGoesOn DEF ListSessions
  <1>4. QED
    BY <1>2, <1>3 DEF ListSessions

LEMMA RevokeSessionsType ==
    ASSUME TypeInv, NEW h \in Handlers, RevokeSessions(h)
    PROVE  TypeInv' /\ Remembers
  <1>1. /\ Remembers /\ InvitesHaveUsers' /\ member' \in [Users -> MemberDoc]
        /\ invite' \in [Invites -> InviteDoc]
        /\ session' \in [Sessions -> {"none", "live", "left", "revoked"}]
    BY DEF TypeInv, Typed, Remembers, InvitesHaveUsers, RevokeSessions
  <1>2. QED
    BY <1>1, RequestEnds DEF RevokeSessions

LEMMA InviteCheckMemberType ==
    ASSUME TypeInv, NEW h \in Handlers, InviteCheckMember(h)
    PROVE  TypeInv' /\ Remembers
  <1> DEFINE r == [req[h] EXCEPT !.pc = "check"]
  <1>1. /\ req[h] \in Request /\ WellFormed(req[h])
        /\ req[h].pc = "load" /\ req[h].op = "invite"
    BY DEF InviteCheckMember, At, TypeInv, Typed, RequestsWellFormed
  <1>2. CASE Respond(h)
    BY <1>2, ReadRemembers, RequestEnds DEF InviteCheckMember
  <1>3. CASE Goto(h, r)
    <2>1. r \in Request
      BY <1>1 DEF Request, TypeInv, Typed, WellFormed
    <2>2. WellFormed(req[h])'
      BY <1>1, <1>3 DEF Goto, TypeInv, Typed, WellFormed, MemberOps, Request, InviteCheckMember
    <2>3. QED
      BY <1>3, <2>1, <2>2, ReadRemembers, RequestGoesOn DEF InviteCheckMember
  <1>4. QED
    BY <1>2, <1>3 DEF InviteCheckMember

LEMMA InviteCheckSeatType ==
    ASSUME TypeInv, NEW h \in Handlers, InviteCheckSeat(h)
    PROVE  TypeInv' /\ Remembers
  <1> DEFINE r == [req[h] EXCEPT !.pc = "save"]
  <1>1. /\ req[h] \in Request /\ WellFormed(req[h])
        /\ req[h].pc = "check" /\ req[h].op = "invite"
    BY DEF InviteCheckSeat, At, TypeInv, Typed, RequestsWellFormed
  <1>2. CASE Respond(h)
    BY <1>2, ReadRemembers, RequestEnds DEF InviteCheckSeat
  <1>3. CASE Goto(h, r)
    <2>1. r \in Request
      BY <1>1 DEF Request, TypeInv, Typed, WellFormed
    <2>2. WellFormed(req[h])'
      BY <1>1, <1>3 DEF Goto, TypeInv, Typed, WellFormed, MemberOps, Request, InviteCheckSeat
    <2>3. QED
      BY <1>3, <2>1, <2>2, ReadRemembers, RequestGoesOn DEF InviteCheckSeat
  <1>4. QED
    BY <1>2, <1>3 DEF InviteCheckSeat

LEMMA AcceptFindMemberType ==
    ASSUME TypeInv, NEW h \in Handlers, AcceptFindMember(h)
    PROVE  TypeInv' /\ Remembers
  <1> DEFINE r == [req[h] EXCEPT !.pc = "check", !.doc = member[req[h].user]]
  <1>1. /\ req[h] \in Request /\ WellFormed(req[h])
        /\ req[h].pc = "find"
    BY DEF AcceptFindMember, At, TypeInv, Typed, RequestsWellFormed
  <1>2. CASE Respond(h)
    BY <1>2, ReadRemembers, RequestEnds DEF AcceptFindMember
  <1>3. CASE Goto(h, r)
    <2>1. r \in Request
      BY <1>1 DEF Request, TypeInv, Typed, WellFormed
    <2>2. WellFormed(req[h])'
      BY <1>1, <1>3 DEF Goto, TypeInv, Typed, WellFormed, MemberOps, Request, AcceptFindMember
    <2>3. QED
      BY <1>3, <2>1, <2>2, ReadRemembers, RequestGoesOn DEF AcceptFindMember
  <1>4. QED
    BY <1>2, <1>3 DEF AcceptFindMember

LEMMA AcceptCheckSeatType ==
    ASSUME TypeInv, NEW h \in Handlers, AcceptCheckSeat(h)
    PROVE  TypeInv' /\ Remembers
  <1> DEFINE r == [req[h] EXCEPT !.pc = "save"]
  <1>1. /\ req[h] \in Request /\ WellFormed(req[h])
        /\ req[h].pc = "check" /\ req[h].op = "accept"
    BY DEF AcceptCheckSeat, At, TypeInv, Typed, RequestsWellFormed
  <1>2. CASE Respond(h)
    BY <1>2, ReadRemembers, RequestEnds DEF AcceptCheckSeat
  <1>3. CASE Goto(h, r)
    <2>1. r \in Request
      BY <1>1 DEF Request, TypeInv, Typed, WellFormed
    <2>2. WellFormed(req[h])'
      BY <1>1, <1>3 DEF Goto, TypeInv, Typed, WellFormed, MemberOps, Request, AcceptCheckSeat
    <2>3. QED
      BY <1>3, <2>1, <2>2, ReadRemembers, RequestGoesOn DEF AcceptCheckSeat
  <1>4. QED
    BY <1>2, <1>3 DEF AcceptCheckSeat

(* Writing an invite that exists keeps its user.                           *)
LEMMA InviteWriteType ==
    ASSUME TypeInv, NEW i \in Invites, NEW doc \in InviteDoc,
           doc.user = invite[i].user, doc.status # "none",
           invite[i].status # "none", SaveInviteDoc(i, doc), UNCHANGED member
    PROVE  Remembers /\ InvitesHaveUsers' /\ invite' \in [Invites -> InviteDoc]
  BY DEF TypeInv, Typed, SaveInviteDoc, InviteDoc, Remembers, InvitesHaveUsers

LEMMA InviteCreateType ==
    ASSUME TypeInv, NEW h \in Handlers, InviteCreate(h)
    PROVE  TypeInv' /\ Remembers
  <1>1. req[h] \in Request /\ req[h].user \in Users
    BY DEF InviteCreate, At, TypeInv, Typed, RequestsWellFormed, WellFormed
  <1>2. Remembers /\ InvitesHaveUsers' /\ invite' \in [Invites -> InviteDoc]
    <2>1. CASE UNCHANGED invite
      BY <2>1, ReadRemembers DEF InviteCreate
    <2>2. ASSUME NEW i \in Invites, invite[i].status = "none",
                 invite' = [invite EXCEPT ![i] =
                              [user |-> req[h].user, role |-> req[h].role,
                               status |-> "pending", deleted |-> FALSE, lapsed |-> FALSE]]
          PROVE  Remembers /\ InvitesHaveUsers' /\ invite' \in [Invites -> InviteDoc]
      BY <1>1, <2>2 DEF InviteCreate, TypeInv, Typed, Request, InviteDoc, InviteStatus,
                        Remembers, InvitesHaveUsers
    <2>3. QED
      BY <2>1, <2>2 DEF InviteCreate
  <1>3. QED
    BY <1>2, RequestEnds DEF InviteCreate, TypeInv, Typed

LEMMA LoadInviteType ==
    ASSUME TypeInv, NEW h \in Handlers, LoadInvite(h)
    PROVE  TypeInv' /\ Remembers
  <1> DEFINE r(pc) == [req[h] EXCEPT !.pc = pc, !.user = invite[req[h].invite].user]
  <1>1. /\ req[h] \in Request /\ WellFormed(req[h])
        /\ req[h].pc = "load" /\ req[h].op \in {"resend", "revoke"}
        /\ req[h].invite \in Invites
    BY DEF LoadInvite, At, TypeInv, Typed, RequestsWellFormed, WellFormed
  <1>2. CASE Respond(h)
    BY <1>2, ReadRemembers, RequestEnds DEF LoadInvite
  <1>3. ASSUME NEW pc \in {"expire", "save"}, Goto(h, r(pc)),
               pc = "expire" => req[h].op = "resend",
               invite[req[h].invite].status # "none"
        PROVE  TypeInv' /\ Remembers
    <2>1. invite[req[h].invite].user \in Users
      BY <1>1, <1>3 DEF TypeInv, InvitesHaveUsers
    <2>2. r(pc) \in Request
      BY <1>1, <2>1 DEF Request
    <2>3. WellFormed(req[h])'
      BY <1>1, <1>3, <2>1 DEF Goto, TypeInv, Typed, WellFormed, MemberOps, Request, LoadInvite
    <2>4. QED
      BY <1>3, <2>2, <2>3, ReadRemembers, RequestGoesOn DEF LoadInvite
  <1>4. QED
    BY <1>2, <1>3 DEF LoadInvite

LEMMA SaveInviteType ==
    ASSUME TypeInv, NEW h \in Handlers, SaveInvite(h)
    PROVE  TypeInv' /\ Remembers
  <1> DEFINE i == req[h].invite
  <1>1. /\ req[h] \in Request /\ i \in Invites /\ invite[i] \in InviteDoc
        /\ invite[i].status # "none"
    BY DEF SaveInvite, TypeInv, Typed, RequestsWellFormed, WellFormed, At
  <1>2. Remembers /\ InvitesHaveUsers' /\ invite' \in [Invites -> InviteDoc]
    <2> DEFINE renewed == [invite[i] EXCEPT !.lapsed = FALSE]
               revoked == [invite[i] EXCEPT !.status = "revoked", !.deleted = TRUE]
    <2>1. \A doc \in {renewed, revoked} :
             doc \in InviteDoc /\ doc.user = invite[i].user /\ doc.status # "none"
      BY ZenonT(40), <1>1 DEF InviteDoc, InviteStatus
    <2>2. CASE SaveInviteDoc(i, renewed)
      BY <1>1, <2>1, <2>2, InviteWriteType DEF SaveInvite
    <2>3. CASE SaveInviteDoc(i, revoked)
      BY <1>1, <2>1, <2>3, InviteWriteType DEF SaveInvite
    <2>4. QED
      BY <2>2, <2>3 DEF SaveInvite
  <1>3. QED
    BY <1>2, RequestEnds DEF SaveInvite, TypeInv, Typed

LEMMA MarkExpiredType ==
    ASSUME TypeInv, NEW h \in Handlers, MarkExpired(h)
    PROVE  TypeInv' /\ Remembers
  <1> DEFINE i == req[h].invite
             doc == [invite[i] EXCEPT !.status = "expired"]
  <1>1. /\ req[h] \in Request /\ i \in Invites /\ invite[i] \in InviteDoc
        /\ invite[i].status # "none"
    BY DEF MarkExpired, TypeInv, Typed, RequestsWellFormed, WellFormed, At
  <1>2. doc \in InviteDoc /\ doc.user = invite[i].user /\ doc.status # "none"
    BY <1>1 DEF InviteDoc, InviteStatus
  <1>3. Remembers /\ InvitesHaveUsers' /\ invite' \in [Invites -> InviteDoc]
    BY <1>1, <1>2, InviteWriteType DEF MarkExpired
  <1>4. QED
    BY <1>3, RequestEnds DEF MarkExpired, TypeInv, Typed

LEMMA AcceptFindType ==
    ASSUME TypeInv, NEW h \in Handlers, AcceptFind(h)
    PROVE  TypeInv' /\ Remembers
  <1> DEFINE r(i, pc) == [Idle EXCEPT !.pc = pc, !.op = "accept", !.user = invite[i].user,
                                      !.role = invite[i].role, !.invite = i]
  <1>1. PICK i \in Invites : /\ invite[i].status = "pending"
                             /\ \E pc \in {"expire", "find"} : Goto(h, r(i, pc))
    BY DEF AcceptFind
  <1>2. PICK pc \in {"expire", "find"} : Goto(h, r(i, pc))
    BY <1>1
  <1>3. invite[i].user \in Users /\ invite[i] \in InviteDoc
    BY <1>1 DEF TypeInv, Typed, InvitesHaveUsers
  <1>4. r(i, pc) \in Request
    BY <1>3, IdleIsWellFormed DEF Request, InviteDoc
  <1>5. WellFormed(req[h])'
    BY ZenonT(40), <1>1, <1>2, <1>3 DEF AcceptFind, Goto, TypeInv, Typed, WellFormed, MemberOps, Idle, NoMember
  <1>6. QED
    BY <1>2, <1>4, <1>5, ReadRemembers, RequestGoesOn DEF AcceptFind

LEMMA AcceptSaveMemberType ==
    ASSUME TypeInv, NEW h \in Handlers, AcceptSaveMember(h)
    PROVE  TypeInv' /\ Remembers
  <1> DEFINE r == [req[h] EXCEPT !.pc = "accept"]
             u == req[h].user
             restored == [role |-> req[h].role, status |-> "active", deleted |-> FALSE]
             saved == IF req[h].doc.status = "none" THEN restored
                      ELSE SavedMember(member[u], req[h].doc, restored)
  <1>1. /\ req[h] \in Request /\ WellFormed(req[h]) /\ req[h].op = "accept"
        /\ u \in Users /\ member[u] \in MemberDoc /\ req[h].doc \in MemberDoc
        /\ restored \in MemberDoc /\ invite[req[h].invite] \in InviteDoc
    BY DEF AcceptSaveMember, At, TypeInv, Typed, RequestsWellFormed, WellFormed, Request,
           MemberDoc, MemberStatus
  <1>2. CASE Respond(h) /\ UNCHANGED member
    BY <1>2, ReadRemembers, RequestEnds DEF AcceptSaveMember
  <1>3. CASE member' = [member EXCEPT ![u] = saved] /\ Goto(h, r)
    <2>1. saved \in MemberDoc /\ saved.status # "none"
      BY <1>1, SavedMemberType DEF SavedMember, SavedPath, MemberDoc, WellFormed
    <2>2. /\ Remembers /\ InvitesHaveUsers' /\ member' \in [Users -> MemberDoc]
          /\ invite' \in [Invites -> InviteDoc]
          /\ session' \in [Sessions -> {"none", "live", "left", "revoked"}]
          /\ member'[u].status # "none"
      BY <1>1, <1>3, <2>1 DEF AcceptSaveMember, TypeInv, Typed, Remembers, InvitesHaveUsers
    <2>3. r \in Request
      BY <1>1 DEF Request
    <2>4. WellFormed(req[h])'
      BY <1>1, <1>3, <2>2 DEF Goto, TypeInv, Typed, WellFormed, MemberOps, Request,
                              AcceptSaveMember
    <2>5. QED
      BY <1>3, <2>2, <2>3, <2>4, RequestGoesOn
  <1>4. QED
    BY <1>2, <1>3 DEF AcceptSaveMember

LEMMA AcceptSaveInviteType ==
    ASSUME TypeInv, NEW h \in Handlers, AcceptSaveInvite(h)
    PROVE  TypeInv' /\ Remembers
  <1> DEFINE i == req[h].invite
             doc == [invite[i] EXCEPT !.status = "accepted"]
  <1>1. /\ req[h] \in Request /\ i \in Invites /\ invite[i] \in InviteDoc
        /\ invite[i].status # "none"
    BY DEF AcceptSaveInvite, TypeInv, Typed, RequestsWellFormed, WellFormed, At
  <1>2. doc \in InviteDoc /\ doc.user = invite[i].user /\ doc.status # "none"
    BY <1>1 DEF InviteDoc, InviteStatus
  <1>3. Remembers /\ InvitesHaveUsers' /\ invite' \in [Invites -> InviteDoc]
    BY <1>1, <1>2, InviteWriteType DEF AcceptSaveInvite
  <1>4. QED
    BY <1>3, RequestEnds DEF AcceptSaveInvite, TypeInv, Typed

LEMMA EnterType ==
    ASSUME TypeInv, NEW h \in Handlers, EnterResolve(h) \/ EnterBind(h) \/ Fail(h)
    PROVE  TypeInv' /\ Remembers
  <1> DEFINE r(u) == [Idle EXCEPT !.pc = "open", !.op = "enter", !.user = u]
  <1>1. ASSUME NEW u \in Users, Goto(h, r(u)), UNCHANGED <<member, invite, session>>
        PROVE  TypeInv' /\ Remembers
    <2>1. r(u) \in Request
      BY IdleIsWellFormed DEF Request
    <2>2. WellFormed(req[h])'
      BY <1>1 DEF Goto, TypeInv, Typed, WellFormed, MemberOps, Idle
    <2>3. QED
      BY <1>1, <2>1, <2>2, ReadRemembers, RequestGoesOn
  <1>2. CASE EnterBind(h)
    <2>1. /\ Remembers /\ InvitesHaveUsers' /\ member' \in [Users -> MemberDoc]
          /\ invite' \in [Invites -> InviteDoc]
          /\ session' \in [Sessions -> {"none", "live", "left", "revoked"}]
      BY <1>2 DEF EnterBind, TypeInv, Typed, Remembers, InvitesHaveUsers
    <2>2. QED
      BY <1>2, <2>1, RequestEnds DEF EnterBind
  <1>3. CASE Fail(h)
    BY <1>3, ReadRemembers, RequestEnds DEF Fail
  <1>4. QED
    BY <1>1, <1>2, <1>3 DEF EnterResolve, MembershipAssumption

LEMMA EnvironmentType ==
    ASSUME TypeInv,
           \/ \E s \in Sessions : LeaveWorkspace(s)
           \/ \E i \in Invites : InviteLapses(i) \/ InvitePurged(i)
           \/ UNCHANGED vars
    PROVE  TypeInv' /\ Remembers
  <1>1. /\ Remembers /\ InvitesHaveUsers' /\ member' \in [Users -> MemberDoc]
        /\ invite' \in [Invites -> InviteDoc]
        /\ session' \in [Sessions -> {"none", "live", "left", "revoked"}]
    <2>1. ASSUME NEW i \in Invites, InviteLapses(i) \/ InvitePurged(i)
          PROVE  invite' \in [Invites -> InviteDoc] /\ Remembers /\ InvitesHaveUsers'
      <3>1. invite[i] \in InviteDoc /\ invite[i].status # "none"
        BY <2>1 DEF InviteLapses, InvitePurged, TypeInv, Typed, InviteDoc
      <3> DEFINE lapsed == [invite[i] EXCEPT !.lapsed = TRUE]
                 purged == [invite[i] EXCEPT !.status = "purged"]
      <3>2. \E doc \in InviteDoc : /\ invite' = [invite EXCEPT ![i] = doc]
                                   /\ doc.user = invite[i].user /\ doc.status # "none"
        <4>1. \A doc \in {lapsed, purged} :
                 doc \in InviteDoc /\ doc.user = invite[i].user /\ doc.status # "none"
          BY ZenonT(40), <3>1 DEF InviteDoc, InviteStatus
        <4>2. invite' = [invite EXCEPT ![i] = lapsed] \/ invite' = [invite EXCEPT ![i] = purged]
          BY <2>1 DEF InviteLapses, InvitePurged
        <4>3. QED
          BY <4>1, <4>2
      <3>3. UNCHANGED member
        BY <2>1 DEF InviteLapses, InvitePurged
      <3>4. QED
        BY <3>1, <3>2, <3>3 DEF TypeInv, Typed, Remembers, InvitesHaveUsers
    <2>2. ASSUME NEW s \in Sessions, LeaveWorkspace(s)
          PROVE  /\ Remembers /\ InvitesHaveUsers'
                 /\ session' \in [Sessions -> {"none", "live", "left", "revoked"}]
      BY <2>2 DEF LeaveWorkspace, TypeInv, Typed, Remembers, InvitesHaveUsers
    <2>3. QED
      BY <2>1, <2>2, ReadRemembers DEF InviteLapses, InvitePurged, LeaveWorkspace, TypeInv,
         Typed, vars
  <1>2. req' = req
    BY DEF InviteLapses, InvitePurged, LeaveWorkspace, vars
  <1>3. ASSUME NEW g \in Handlers
        PROVE  WellFormed(req[g])'
    <2>1. req[g] \in Request /\ WellFormed(req[g])
      BY DEF TypeInv, Typed, RequestsWellFormed
    <2>2. QED
      BY <1>1, <1>2, <2>1 DEF Remembers, WellFormed
  <1>4. QED
    BY <1>1, <1>2, <1>3 DEF TypeInv, Typed, RequestsWellFormed

LEMMA InitType == Init => TypeInv
  <1> SUFFICES ASSUME Init PROVE TypeInv
    OBVIOUS
  <1>1. member \in [Users -> MemberDoc]
    BY DEF Init, MemberDoc, MemberStatus, NoMember
  <1>2. invite \in [Invites -> InviteDoc] /\ InvitesHaveUsers
    BY DEF Init, InviteDoc, InviteStatus, NoInvite, InvitesHaveUsers
  <1>3. QED
    BY <1>1, <1>2, IdleIsWellFormed DEF Init, TypeInv, Typed, RequestsWellFormed

LEMMA NextType == TypeInv /\ [Next]_vars => TypeInv' /\ Remembers
  BY AuthenticateType, LoadTargetType, CheckTargetType, SaveTargetType, ListSessionsType,
     RevokeSessionsType, InviteCheckMemberType, InviteCheckSeatType, InviteCreateType,
     LoadInviteType, SaveInviteType, MarkExpiredType, AcceptFindType, AcceptFindMemberType,
     AcceptCheckSeatType, AcceptSaveMemberType, AcceptSaveInviteType, EnterType,
     EnvironmentType
     DEF Next, Handle

(* Every reachable state is well typed, and every request in flight holds  *)
(* what its next step reads: no handler works on a membership or an invite *)
(* it has not loaded.                                                      *)
THEOREM TypeCorrect == Spec => [](TypeOK /\ RequestsWellFormed /\ InvitesHaveUsers)
  <1> DEFINE Histories ==
        /\ overlap \in BOOLEAN /\ late \subseteq Handlers /\ raced \in BOOLEAN
        /\ old \in [Handlers -> SUBSET Sessions]
        /\ stale \subseteq Handlers /\ again \subseteq Handlers /\ stray \subseteq Sessions
  <1>1. Init => TypeInv /\ Histories
    BY InitType DEF Init
  <1>2. TypeInv /\ Histories /\ [Next]_vars => TypeInv' /\ Histories'
    <2> SUFFICES ASSUME TypeInv, Histories, [Next]_vars PROVE Histories'
      BY NextType
    <2>1. CASE UNCHANGED history
      BY <2>1 DEF history
    <2>2. ASSUME NEW s \in Sessions, LeaveWorkspace(s) PROVE Histories'
      BY <2>2 DEF LeaveWorkspace
    <2>3. ASSUME NEW h \in Handlers, Records(h) PROVE Histories'
      BY <2>3 DEF Records, RecordsOwners, RecordsSessions, LiveSessionsOf
    <2>4. QED
      BY <2>1, <2>2, <2>3 DEF Next, vars
  <1>3. TypeInv /\ Histories => TypeOK /\ RequestsWellFormed /\ InvitesHaveUsers
    BY DEF TypeInv, TypeOK
  <1>4. QED
    BY <1>1, <1>2, <1>3, PTL DEF Spec

----------------------------------------------------------------------------
(* Accepted invites *)

LEMMA NewlyAccepted ==
    ASSUME TypeInv, [Next]_vars, NEW i \in Invites, invite'[i].status = "accepted"
    PROVE  \/ invite[i].status = "accepted"
           \/ \E h \in Handlers : /\ At(h, "accept") /\ req[h].invite = i
                                  /\ UNCHANGED member
  <1> DEFINE New == \E h \in Handlers : At(h, "accept") /\ req[h].invite = i /\ UNCHANGED member
  <1>1. CASE UNCHANGED invite
    BY <1>1
  <1>2. ASSUME NEW h \in Handlers, InviteCreate(h)
        PROVE  invite[i].status = "accepted" \/ New
    BY <1>2 DEF InviteCreate, TypeInv, Typed
  <1>3. ASSUME NEW h \in Handlers, SaveInvite(h) \/ MarkExpired(h)
        PROVE  invite[i].status = "accepted" \/ New
    <2>1. invite[req[h].invite] \in InviteDoc
      BY <1>3 DEF SaveInvite, MarkExpired, At, TypeInv, Typed, RequestsWellFormed, WellFormed
    <2> DEFINE doc == invite[req[h].invite]
    <2>2. ASSUME NEW changed \in InviteDoc, SaveInviteDoc(req[h].invite, changed),
                 changed.status # "accepted" \/ changed.status = doc.status
          PROVE  invite[i].status = "accepted"
      BY <2>2 DEF SaveInviteDoc, TypeInv, Typed
    <2>3. \A d \in {[doc EXCEPT !.lapsed = FALSE], [doc EXCEPT !.status = "expired"],
                    [doc EXCEPT !.status = "revoked", !.deleted = TRUE]} :
             d \in InviteDoc /\ (d.status # "accepted" \/ d.status = doc.status)
      BY ZenonT(40), <2>1 DEF InviteDoc, InviteStatus
    <2>4. CASE MarkExpired(h)
      BY <2>2, <2>3, <2>4 DEF MarkExpired
    <2>5. CASE SaveInvite(h)
      BY <2>2, <2>3, <2>5 DEF SaveInvite
    <2>6. QED
      BY <1>3, <2>4, <2>5
  <1>4. ASSUME NEW h \in Handlers, AcceptSaveInvite(h)
        PROVE  invite[i].status = "accepted" \/ New
    BY <1>4 DEF AcceptSaveInvite, SaveInviteDoc, TypeInv, Typed
  <1>5. ASSUME NEW j \in Invites, InviteLapses(j) \/ InvitePurged(j)
        PROVE  invite[i].status = "accepted" \/ New
    BY <1>5 DEF InviteLapses, InvitePurged, TypeInv, Typed, InviteDoc
  <1>6. QED
    BY <1>1, <1>2, <1>3, <1>4, <1>5
       DEF Next, Handle, vars, Authenticate, LoadTarget, CheckTarget, SaveTarget, ListSessions,
           RevokeSessions, InviteCheckMember, InviteCheckSeat, LoadInvite, AcceptFind,
           AcceptFindMember, AcceptCheckSeat, AcceptSaveMember, EnterResolve, EnterBind, Fail,
           LeaveWorkspace

(* However many requests overlap and wherever they stop, an invite that is *)
(* marked accepted has brought its user a membership: the handler writes   *)
(* the membership first and memberships are never erased.                  *)
THEOREM AcceptedHasMember == Spec => []AcceptedInviteHasMember
  <1> DEFINE Inv == TypeInv /\ AcceptedInviteHasMember
  <1>1. Init => Inv
    BY InitType DEF Init, AcceptedInviteHasMember, NoInvite
  <1>2. Inv /\ [Next]_vars => Inv'
    <2> SUFFICES ASSUME Inv, [Next]_vars
                 PROVE  TypeInv' /\ AcceptedInviteHasMember'
      OBVIOUS
    <2>1. TypeInv' /\ Remembers
      BY NextType
    <2>2. ASSUME NEW i \in Invites, invite'[i].status = "accepted"
          PROVE  member'[invite'[i].user].status # "none"
      <3>1. CASE invite[i].status = "accepted"
        BY <2>1, <3>1 DEF AcceptedInviteHasMember, Remembers, TypeInv, InvitesHaveUsers
      <3>2. ASSUME NEW h \in Handlers, At(h, "accept"), req[h].invite = i, UNCHANGED member
            PROVE  member'[invite'[i].user].status # "none"
        BY <2>1, <3>2 DEF At, Remembers, TypeInv, RequestsWellFormed, WellFormed
      <3>3. QED
        BY <2>2, <3>1, <3>2, NewlyAccepted
    <2>3. QED
      BY <2>1, <2>2 DEF AcceptedInviteHasMember
  <1>3. QED
    BY <1>1, <1>2, PTL DEF Spec

----------------------------------------------------------------------------
(* Seats *)

(* A function's values are no more than its arguments.                     *)
LEMMA ImageBound ==
    ASSUME NEW S, IsFiniteSet(S), NEW f, f = [x \in S |-> f[x]]
    PROVE  LET R == {f[x] : x \in S}
           IN  IsFiniteSet(R) /\ Cardinality(R) =< Cardinality(S)
  <1> DEFINE R == {f[x] : x \in S}
  <1>1. f \in Surjection(S, R)
    BY DEF Surjection
  <1>2. QED
    BY <1>1, FS_Surjection

(* Uniting adds sizes at most.                                             *)
LEMMA UnionBound ==
    ASSUME NEW S, IsFiniteSet(S), NEW T, IsFiniteSet(T)
    PROVE  /\ IsFiniteSet(S \cup T)
           /\ Cardinality(S \cup T) =< Cardinality(S) + Cardinality(T)
  <1>1. IsFiniteSet(S \cap T) /\ Cardinality(S \cap T) \in Nat
    BY FS_Intersection, FS_CardinalityType
  <1>2. Cardinality(S) \in Nat /\ Cardinality(T) \in Nat
    BY FS_CardinalityType
  <1>3. /\ IsFiniteSet(S \cup T)
        /\ Cardinality(S \cup T) = Cardinality(S) + Cardinality(T) - Cardinality(S \cap T)
    BY FS_Union
  <1>4. QED
    BY <1>1, <1>2, <1>3

(* The seats that requests other than h hold.                              *)
HeldByOthers(h) == {req[g].user : g \in Reserving \ {h}}

(* The arithmetic of every seat check: with room for one more seat among   *)
(* the members and the invites it counts, the seat it grants and one seat  *)
(* for each other request stay within the bound.                           *)
LEMMA SeatArithmetic ==
    ASSUME TypeInv, SeatAssumption, NEW h \in Handlers, NEW u, NEW SI \in SUBSET Invites,
           Cardinality(ActiveMembers) + Cardinality(SI) + 1 =< SeatLimit
    PROVE  Cardinality((ActiveMembers \cup {invite[i].user : i \in SI})
                       \cup ({u} \cup HeldByOthers(h)))
             =< SeatLimit + Cardinality(Handlers) - 1
  <1> DEFINE A == ActiveMembers
             I == {invite[i].user : i \in SI}
             O == Reserving \ {h}
             G == HeldByOthers(h)
  <1>1. IsFiniteSet(A) /\ Cardinality(A) \in Nat
    BY FS_Subset, FS_CardinalityType DEF SeatAssumption, ActiveMembers
  <1>2. IsFiniteSet(SI) /\ Cardinality(SI) \in Nat
    BY FS_Subset, FS_CardinalityType DEF SeatAssumption
  <1>3. IsFiniteSet(I) /\ Cardinality(I) =< Cardinality(SI) /\ Cardinality(I) \in Nat
    <2> DEFINE f == [i \in SI |-> invite[i].user]
    <2>1. I = {f[i] : i \in SI}
      OBVIOUS
    <2>2. IsFiniteSet(I) /\ Cardinality(I) =< Cardinality(SI)
      <3>1. f = [i \in SI |-> f[i]]
        OBVIOUS
      <3> HIDE DEF f, I
      <3>2. QED
        BY <1>2, <2>1, <3>1, ImageBound
    <2>3. QED
      BY <2>2, FS_CardinalityType
  <1>4. IsFiniteSet(O) /\ Cardinality(O) =< Cardinality(Handlers) - 1
    <2>1. IsFiniteSet(Handlers \ {h}) /\ Cardinality(Handlers \ {h}) = Cardinality(Handlers) - 1
      BY FS_RemoveElement DEF SeatAssumption
    <2>2. O \in SUBSET (Handlers \ {h})
      BY DEF Reserving
    <2>3. QED
      BY <2>1, <2>2, FS_Subset
  <1>5. IsFiniteSet(G) /\ Cardinality(G) =< Cardinality(Handlers) - 1 /\ Cardinality(G) \in Nat
    <2> DEFINE f == [g \in O |-> req[g].user]
    <2>1. G = {f[g] : g \in O}
      BY DEF HeldByOthers
    <2>2. IsFiniteSet(G) /\ Cardinality(G) =< Cardinality(O)
      <3>1. f = [g \in O |-> f[g]]
        OBVIOUS
      <3> HIDE DEF f
      <3>2. QED
        BY <1>4, <2>1, <3>1, ImageBound
    <2>3. Cardinality(G) \in Nat /\ Cardinality(O) \in Nat /\ Cardinality(Handlers) \in Nat
      BY <1>4, <2>2, FS_CardinalityType DEF SeatAssumption
    <2>4. QED
      BY <1>4, <2>2, <2>3
  <1>6. IsFiniteSet(A \cup I) /\ Cardinality(A \cup I) =< Cardinality(A) + Cardinality(I)
    BY <1>1, <1>3, UnionBound
  <1>7. IsFiniteSet({u} \cup G) /\ Cardinality({u} \cup G) =< 1 + Cardinality(G)
    <2>1. IsFiniteSet({u}) /\ Cardinality({u}) = 1
      BY FS_Singleton
    <2>2. QED
      BY <1>5, <2>1, UnionBound
  <1>8. Cardinality((A \cup I) \cup ({u} \cup G)) =< Cardinality(A \cup I) + Cardinality({u} \cup G)
    BY <1>6, <1>7, UnionBound
  <1>9. /\ Cardinality((A \cup I) \cup ({u} \cup G)) \in Nat /\ Cardinality(A \cup I) \in Nat
        /\ Cardinality({u} \cup G) \in Nat /\ Cardinality(Handlers) \in Nat
        /\ SeatLimit \in Nat
    BY <1>6, <1>7, UnionBound, FS_CardinalityType DEF SeatAssumption
  <1>10. Cardinality((A \cup I) \cup ({u} \cup G)) =< SeatLimit + Cardinality(Handlers) - 1
    <2>1. Cardinality(A) + Cardinality(SI) + 1 =< SeatLimit
      OBVIOUS
    <2> HIDE DEF A, I, G
    <2>2. QED
      BY <1>1, <1>2, <1>3, <1>5, <1>6, <1>7, <1>8, <1>9, <2>1
  <1>11. QED
    BY <1>10

(* A step of request h that adds no seat beyond the one h holds.           *)
LEMMA ReservedShrinks ==
    ASSUME TypeInv, NEW h \in Handlers,
           \A g \in Handlers \ {h} : req'[g] = req[g],
           \A u \in Users : IsActive(member'[u]) =>
              IsActive(member[u]) \/ (h \in Reserving /\ u = req[h].user),
           \A i \in Invites : ReservesSeat(invite'[i]) =>
              \/ ReservesSeat(invite[i]) /\ invite'[i].user = invite[i].user
              \/ h \in Reserving /\ invite'[i].user = req[h].user,
           h \in Reserving' => req'[h].user \in Reserved
    PROVE  Reserved' \subseteq Reserved
  <1>1. ASSUME NEW u \in ActiveMembers' PROVE u \in Reserved
    BY <1>1 DEF ActiveMembers, Reserved, SeatHolders
  <1>2. ASSUME NEW i \in SeatInvites' PROVE invite'[i].user \in Reserved
    BY <1>2 DEF SeatInvites, Reserved, SeatHolders
  <1>3. ASSUME NEW g \in Reserving' PROVE req'[g].user \in Reserved
    <2>1. CASE g = h
      BY <1>3, <2>1
    <2>2. CASE g # h
      <3>1. g \in Reserving /\ req'[g] = req[g]
        BY <1>3, <2>2 DEF Reserving, At
      <3>2. QED
        BY <3>1 DEF Reserved
    <2>3. QED
      BY <2>1, <2>2
  <1>4. QED
    BY <1>1, <1>2, <1>3 DEF Reserved, SeatHolders

(* The first case of it: h writes nothing and reserves nothing.            *)
LEMMA ReadShrinks ==
    ASSUME TypeInv, NEW h \in Handlers, UNCHANGED <<member, invite>>,
           \A g \in Handlers \ {h} : req'[g] = req[g],
           h \notin Reserving'
    PROVE  Reserved' \subseteq Reserved
  BY ReservedShrinks

LEMMA EndingReservesNothing ==
    ASSUME TypeInv, NEW h \in Handlers, Respond(h)
    PROVE  h \notin Reserving' /\ \A g \in Handlers \ {h} : req'[g] = req[g]
  BY DEF Respond, Idle, Reserving, At, TypeInv, Typed

LEMMA SteppingReservesNothing ==
    ASSUME TypeInv, NEW h \in Handlers, NEW r, Goto(h, r), r.pc # "save"
    PROVE  h \notin Reserving' /\ \A g \in Handlers \ {h} : req'[g] = req[g]
  BY DEF Goto, Reserving, At, TypeInv, Typed

(* The steps that pass a check: h gets a seat, and there was room for it.  *)
LEMMA CheckStep ==
    ASSUME TypeInv, SeatAssumption, NEW h \in Handlers, NEW SI \in SUBSET Invites,
           UNCHANGED <<member, invite>>,
           Goto(h, [req[h] EXCEPT !.pc = "save"]),
           \A i \in SeatInvites \ SI : invite[i].user = req[h].user,
           Cardinality(ActiveMembers) + Cardinality(SI) + 1 =< SeatLimit
    PROVE  SeatsReserved'
  <1> DEFINE B == (ActiveMembers \cup {invite[i].user : i \in SI})
                  \cup ({req[h].user} \cup HeldByOthers(h))
  <1>1. Cardinality(B) =< SeatLimit + Cardinality(Handlers) - 1
    BY SeatArithmetic
  <1>2. /\ req[h] \in Request /\ req' = [req EXCEPT ![h] = [req[h] EXCEPT !.pc = "save"]]
        /\ req'[h].user = req[h].user
    BY DEF Goto, TypeInv, Typed, Request
  <1>3. Reserved' \subseteq B
    <2>1. ActiveMembers' = ActiveMembers /\ SeatInvites' = SeatInvites
      BY DEF ActiveMembers, SeatInvites
    <2>2. ASSUME NEW i \in SeatInvites PROVE invite[i].user \in B
      BY <2>2
    <2>3. ASSUME NEW g \in Reserving' PROVE req'[g].user \in B
      <3>1. CASE g = h
        BY <1>2, <3>1
      <3>2. CASE g # h
        <4>1. g \in Reserving \ {h} /\ req'[g] = req[g]
          BY <1>2, <2>3, <3>2 DEF Reserving, At, TypeInv, Typed
        <4>2. QED
          BY <4>1 DEF HeldByOthers
      <3>3. QED
        BY <3>1, <3>2
    <2>4. QED
      BY <2>1, <2>2, <2>3 DEF Reserved, SeatHolders
  <1>4. IsFiniteSet(B) /\ Cardinality(B) \in Nat
    <2>1. B \in SUBSET (Users \cup {None} \cup {req[h].user})
      BY DEF ActiveMembers, HeldByOthers, Reserving, TypeInv, Typed, InviteDoc, Request
    <2>2. IsFiniteSet(Users \cup {None} \cup {req[h].user})
      BY FS_AddElement DEF SeatAssumption
    <2>3. QED
      BY <2>1, <2>2, FS_Subset, FS_CardinalityType
  <1>5. Cardinality(Reserved') =< Cardinality(B) /\ Cardinality(Reserved') \in Nat
    BY <1>3, <1>4, FS_Subset, FS_CardinalityType
  <1>6. QED
    BY <1>1, <1>4, <1>5, FS_CardinalityType DEF SeatsReserved, SeatAssumption

(* A handler at another step than a reserving save reserves nothing.       *)
LEMMA ReadingStepSeats ==
    ASSUME TypeInv, NEW h \in Handlers, UNCHANGED <<member, invite>>,
           Respond(h) \/ \E r : Goto(h, r) /\ r.pc # "save"
    PROVE  Reserved' \subseteq Reserved
  BY EndingReservesNothing, SteppingReservesNothing, ReadShrinks

LEMMA ArrivingSeats ==
    ASSUME TypeInv, NEW h \in Handlers,
           (\E a \in Users : Authenticate(h, a)) \/ AcceptFind(h) \/ EnterResolve(h)
    PROVE  Reserved' \subseteq Reserved
  <1>1. ASSUME NEW a \in Users, Authenticate(h, a)
        PROVE  Reserved' \subseteq Reserved
    <2> DEFINE r(op, u, ro, i) ==
          [Idle EXCEPT !.pc = "load", !.op = op, !.actor = a, !.actorRole = member[a].role,
                       !.user = u, !.role = ro, !.invite = i]
    <2>1. PICK op, u, ro, i : Goto(h, r(op, u, ro, i))
      BY <1>1 DEF Authenticate
    <2>2. r(op, u, ro, i).pc = "load"
      BY DEF Idle
    <2>3. QED
      BY <1>1, <2>1, <2>2, ReadingStepSeats DEF Authenticate
  <1>2. CASE AcceptFind(h)
    <2> DEFINE r(i, pc) == [Idle EXCEPT !.pc = pc, !.op = "accept", !.user = invite[i].user,
                                        !.role = invite[i].role, !.invite = i]
    <2>1. PICK i \in Invites, pc \in {"expire", "find"} : Goto(h, r(i, pc))
      BY <1>2 DEF AcceptFind
    <2>2. r(i, pc).pc = pc
      BY DEF Idle
    <2>3. QED
      BY <1>2, <2>1, <2>2, ReadingStepSeats DEF AcceptFind
  <1>3. CASE EnterResolve(h)
    <2> DEFINE r(u) == [Idle EXCEPT !.pc = "open", !.op = "enter", !.user = u]
    <2>1. PICK u \in Users : Goto(h, r(u))
      BY <1>3 DEF EnterResolve
    <2>2. r(u).pc = "open"
      BY DEF Idle
    <2>3. QED
      BY <1>3, <2>1, <2>2, ReadingStepSeats DEF EnterResolve
  <1>4. QED
    BY <1>1, <1>2, <1>3

LEMMA LoadingSeats ==
    ASSUME TypeInv, NEW h \in Handlers,
           \/ LoadTarget(h) \/ ListSessions(h) \/ RevokeSessions(h) \/ InviteCheckMember(h)
           \/ AcceptFindMember(h) \/ EnterBind(h) \/ Fail(h)
    PROVE  Reserved' \subseteq Reserved
  <1>1. req[h] \in Request
    BY DEF TypeInv, Typed
  <1>2. ASSUME NEW doc, Goto(h, [req[h] EXCEPT !.pc = "check", !.doc = doc]),
               UNCHANGED <<member, invite>>
        PROVE  Reserved' \subseteq Reserved
    <2>1. [req[h] EXCEPT !.pc = "check", !.doc = doc].pc = "check"
      BY <1>1 DEF Request
    <2>2. QED
      BY <1>2, <2>1, ReadingStepSeats
  <1>3. CASE LoadTarget(h) \/ AcceptFindMember(h)
    BY <1>2, <1>3, ReadingStepSeats DEF LoadTarget, AcceptFindMember
  <1>4. CASE InviteCheckMember(h)
    <2>1. [req[h] EXCEPT !.pc = "check"].pc = "check"
      BY <1>1 DEF Request
    <2>2. QED
      BY <1>4, <2>1, ReadingStepSeats DEF InviteCheckMember
  <1>5. CASE ListSessions(h)
    <2>1. [req[h] EXCEPT !.pc = "revoke", !.ids = LiveSessionsOf(req[h].user)].pc = "revoke"
      BY <1>1 DEF Request
    <2>2. QED
      BY <1>5, <2>1, ReadingStepSeats DEF ListSessions
  <1>6. CASE RevokeSessions(h) \/ EnterBind(h) \/ Fail(h)
    BY <1>6, ReadingStepSeats DEF RevokeSessions, EnterBind, Fail
  <1>7. QED
    BY <1>3, <1>4, <1>5, <1>6

LEMMA LoadInviteSeats ==
    ASSUME TypeInv, NEW h \in Handlers, LoadInvite(h)
    PROVE  Reserved' \subseteq Reserved
  <1> DEFINE j == req[h].invite
             r(pc) == [req[h] EXCEPT !.pc = pc, !.user = invite[j].user]
  <1>1. /\ req[h] \in Request /\ j \in Invites /\ invite[j] \in InviteDoc
        /\ req[h].op \in {"resend", "revoke"}
    BY DEF LoadInvite, TypeInv, Typed, RequestsWellFormed, WellFormed
  <1>2. CASE Respond(h)
    BY <1>2, ReadingStepSeats DEF LoadInvite
  <1>3. CASE Goto(h, r("expire"))
    <2>1. r("expire").pc = "expire"
      BY <1>1 DEF Request
    <2>2. QED
      BY <1>3, <2>1, ReadingStepSeats DEF LoadInvite
  <1>4. CASE Goto(h, r("save")) /\ (req[h].op = "resend" => ReservesSeat(invite[j]))
    <2>1. /\ req'[h].user = invite[j].user /\ req'[h].op = req[h].op
          /\ \A g \in Handlers \ {h} : req'[g] = req[g]
      BY <1>1, <1>4 DEF Goto, Request, TypeInv, Typed
    <2>2. h \in Reserving' => req'[h].user \in Reserved
      BY <1>1, <1>4, <2>1 DEF Reserving, At, Reserved, SeatHolders, SeatInvites
    <2>3. UNCHANGED <<member, invite>>
      BY DEF LoadInvite
    <2>4. QED
      BY <2>1, <2>2, <2>3, ReservedShrinks
  <1>5. QED
    BY <1>1, <1>2, <1>3, <1>4 DEF LoadInvite, ReservesSeat, InviteDoc

(* No membership is activated by a save, but by an activation.             *)
LEMMA SaveTargetSeats ==
    ASSUME TypeInv, NEW h \in Handlers, SaveTarget(h)
    PROVE  Reserved' \subseteq Reserved
  <1> DEFINE u == req[h].user
             saved == SavedMember(member[u], req[h].doc, Changed(req[h]))
             r == [req[h] EXCEPT !.pc = "list"]
  <1>1. /\ req[h] \in Request /\ WellFormed(req[h]) /\ req[h].op \in MemberOps
        /\ u \in Users /\ req[h].pc = "save" /\ member[u] \in MemberDoc
        /\ req[h].doc \in MemberDoc
    BY DEF SaveTarget, At, TypeInv, Typed, RequestsWellFormed, WellFormed, MemberOps, Request
  <1>2. member' = [member EXCEPT ![u] = saved] /\ UNCHANGED invite
    BY DEF SaveTarget
  <1>3. IsActive(saved) => IsActive(member[u]) \/ h \in Reserving
    <2>1. CASE req[h].op = "activate"
      BY <1>1, <2>1 DEF Reserving, At
    <2>2. CASE req[h].op = "role"
      BY <1>1, <2>2 DEF IsActive, SavedMember, SavedPath, Changed, MemberDoc
    <2>3. CASE req[h].op = "suspend"
      <3>1. saved.status \in {"suspended", member[u].status} /\ saved.deleted = member[u].deleted
        BY <1>1, <2>3 DEF SavedMember, SavedPath, Changed, MemberDoc, WellFormed, MemberOps
      <3>2. QED
        BY <3>1 DEF IsActive
    <2>4. CASE req[h].op = "remove"
      <3>1. /\ saved.status \in {"removed", member[u].status}
            /\ saved.deleted \in {TRUE, member[u].deleted}
        BY <1>1, <2>4 DEF SavedMember, SavedPath, Changed, MemberDoc
      <3>2. QED
        BY <1>1, <3>1 DEF IsActive, MemberDoc
    <2>5. QED
      BY <1>1, <2>1, <2>2, <2>3, <2>4 DEF MemberOps
  <1>4. h \notin Reserving' /\ \A g \in Handlers \ {h} : req'[g] = req[g]
    <2>1. r.pc # "save"
      BY <1>1 DEF Request
    <2>2. QED
      BY <2>1, EndingReservesNothing, SteppingReservesNothing DEF SaveTarget
  <1>5. \A v \in Users : IsActive(member'[v]) =>
              IsActive(member[v]) \/ (h \in Reserving /\ v = req[h].user)
    BY <1>1, <1>2, <1>3 DEF TypeInv, Typed
  <1>6. QED
    BY <1>2, <1>4, <1>5, ReservedShrinks

LEMMA AcceptSaveMemberSeats ==
    ASSUME TypeInv, NEW h \in Handlers, AcceptSaveMember(h)
    PROVE  Reserved' \subseteq Reserved
  <1> DEFINE r == [req[h] EXCEPT !.pc = "accept"]
  <1>1. req[h] \in Request /\ h \in Reserving
    BY DEF AcceptSaveMember, Reserving, At, TypeInv, Typed
  <1>2. \A v \in Users : IsActive(member'[v]) => IsActive(member[v]) \/ v = req[h].user
    BY DEF AcceptSaveMember, TypeInv, Typed
  <1>3. h \notin Reserving' /\ \A g \in Handlers \ {h} : req'[g] = req[g]
    <2>1. r.pc # "save"
      BY <1>1 DEF Request
    <2>2. QED
      BY <2>1, EndingReservesNothing, SteppingReservesNothing DEF AcceptSaveMember
  <1>4. QED
    BY <1>1, <1>2, <1>3, ReservedShrinks DEF AcceptSaveMember

LEMMA InviteCreateSeats ==
    ASSUME TypeInv, NEW h \in Handlers, InviteCreate(h)
    PROVE  Reserved' \subseteq Reserved
  <1>1. h \in Reserving /\ h \notin Reserving' /\ \A g \in Handlers \ {h} : req'[g] = req[g]
    BY EndingReservesNothing DEF InviteCreate, Reserving, At
  <1>2. \A i \in Invites : ReservesSeat(invite'[i]) =>
              \/ ReservesSeat(invite[i]) /\ invite'[i].user = invite[i].user
              \/ invite'[i].user = req[h].user
    BY DEF InviteCreate, TypeInv, Typed
  <1>3. QED
    BY <1>1, <1>2, ReservedShrinks DEF InviteCreate

LEMMA SaveInviteSeats ==
    ASSUME TypeInv, NEW h \in Handlers,
           SaveInvite(h) \/ MarkExpired(h) \/ AcceptSaveInvite(h)
    PROVE  Reserved' \subseteq Reserved
  <1> DEFINE j == req[h].invite
             doc == invite[j]
  <1>1. /\ j \in Invites /\ doc \in InviteDoc /\ UNCHANGED member /\ req[h] \in Request
        /\ SaveInvite(h) => req[h].user = doc.user
    BY DEF SaveInvite, MarkExpired, AcceptSaveInvite, At, TypeInv, Typed, RequestsWellFormed,
           WellFormed
  <1>2. h \notin Reserving' /\ \A g \in Handlers \ {h} : req'[g] = req[g]
    BY EndingReservesNothing DEF SaveInvite, MarkExpired, AcceptSaveInvite
  <1>3. ASSUME NEW changed, SaveInviteDoc(j, changed),
               \/ ~ReservesSeat(changed)
               \/ h \in Reserving /\ changed.user = req[h].user
        PROVE  Reserved' \subseteq Reserved
    <2>1. \A i \in Invites : ReservesSeat(invite'[i]) =>
              \/ ReservesSeat(invite[i]) /\ invite'[i].user = invite[i].user
              \/ h \in Reserving /\ invite'[i].user = req[h].user
      BY <1>1, <1>3 DEF SaveInviteDoc, TypeInv, Typed
    <2>2. QED
      BY <1>1, <1>2, <2>1, ReservedShrinks
  <1>4. /\ ~ReservesSeat([doc EXCEPT !.status = "expired"])
        /\ ~ReservesSeat([doc EXCEPT !.status = "accepted"])
        /\ ~ReservesSeat([doc EXCEPT !.status = "revoked", !.deleted = TRUE])
        /\ [doc EXCEPT !.lapsed = FALSE].user = doc.user
    BY <1>1 DEF ReservesSeat, InviteDoc
  <1>5. CASE MarkExpired(h)
    BY <1>3, <1>4, <1>5 DEF MarkExpired
  <1>6. CASE AcceptSaveInvite(h)
    BY <1>3, <1>4, <1>6 DEF AcceptSaveInvite
  <1>7. CASE SaveInvite(h) /\ req[h].op = "resend"
    <2>1. h \in Reserving
      BY <1>7 DEF SaveInvite, Reserving, At
    <2>2. SaveInviteDoc(j, [doc EXCEPT !.lapsed = FALSE])
      BY <1>7 DEF SaveInvite
    <2>3. QED
      BY <1>1, <1>3, <1>4, <1>7, <2>1, <2>2
  <1>8. CASE SaveInvite(h) /\ req[h].op # "resend"
    <2>1. SaveInviteDoc(j, [doc EXCEPT !.status = "revoked", !.deleted = TRUE])
      BY <1>8 DEF SaveInvite
    <2>2. QED
      BY <1>3, <1>4, <2>1
  <1>9. QED
    BY <1>5, <1>6, <1>7, <1>8

LEMMA CheckSeats ==
    ASSUME TypeInv, SeatAssumption, NEW h \in Handlers,
           CheckTarget(h) \/ InviteCheckSeat(h) \/ AcceptCheckSeat(h)
    PROVE  Reserved' \subseteq Reserved \/ SeatsReserved'
  <1> DEFINE r == [req[h] EXCEPT !.pc = "save"]
  <1>1. req[h] \in Request /\ UNCHANGED <<member, invite>>
    BY DEF CheckTarget, InviteCheckSeat, AcceptCheckSeat, TypeInv, Typed
  <1>2. CASE Respond(h)
    BY <1>1, <1>2, ReadingStepSeats
  <1>3. CASE Goto(h, r) /\ req[h].op \in {"activate", "invite"}
    <2>1. SeatsUsed({}) + 1 =< SeatLimit
      <3>1. r.pc = "save" /\ req'[h] = r
        BY <1>1, <1>3 DEF Goto, Request, TypeInv, Typed
      <3>2. ~ Respond(h)
        BY <3>1 DEF Respond, Idle, TypeInv, Typed
      <3>3. CASE InviteCheckSeat(h)
        BY <3>2, <3>3 DEF InviteCheckSeat
      <3>4. CASE CheckTarget(h)
        BY <1>3, <3>2, <3>4 DEF CheckTarget, MemberOps
      <3>5. QED
        BY <1>3, <3>3, <3>4 DEF AcceptCheckSeat
    <2>2. Cardinality(ActiveMembers) + Cardinality(SeatInvites) + 1 =< SeatLimit
      <3>1. SeatInvites \ {} = SeatInvites
        OBVIOUS
      <3>2. QED
        BY <2>1, <3>1 DEF SeatsUsed
    <2>3. SeatInvites \in SUBSET Invites
      BY DEF SeatInvites
    <2>4. QED
      BY <1>1, <1>3, <2>2, <2>3, CheckStep
  <1>4. CASE Goto(h, r) /\ AcceptCheckSeat(h)
    <2>1. SeatsUsed({req[h].invite}) + 1 =< SeatLimit
      <3>1. r.pc = "save" /\ req'[h] = r
        BY <1>1, <1>4 DEF Goto, Request, TypeInv, Typed
      <3>2. ~ Respond(h)
        BY <3>1 DEF Respond, Idle, TypeInv, Typed
      <3>3. QED
        BY <1>4, <3>2 DEF AcceptCheckSeat
    <2>2. Cardinality(ActiveMembers) + Cardinality(SeatInvites \ {req[h].invite}) + 1 =< SeatLimit
      BY <2>1 DEF SeatsUsed
    <2>3. SeatInvites \ {req[h].invite} \in SUBSET Invites
      BY DEF SeatInvites
    <2>4. invite[req[h].invite].user = req[h].user
      BY <1>4 DEF AcceptCheckSeat, At, TypeInv, RequestsWellFormed, WellFormed
    <2>5. QED
      BY <1>1, <1>4, <2>2, <2>3, <2>4, CheckStep
  <1>5. CASE Goto(h, r) /\ req[h].op \in MemberOps \ {"activate"}
    <2>1. /\ \A g \in Handlers \ {h} : req'[g] = req[g]
          /\ h \notin Reserving'
      BY <1>1, <1>5 DEF Goto, Reserving, At, Request, TypeInv, Typed, MemberOps
    <2>2. QED
      BY <1>1, <2>1, ReadShrinks
  <1>6. QED
    BY <1>2, <1>3, <1>4, <1>5 DEF CheckTarget, InviteCheckSeat, AcceptCheckSeat, MemberOps

LEMMA EnvironmentSeats ==
    ASSUME TypeInv, req' = req, UNCHANGED member,
           \A i \in Invites : ReservesSeat(invite'[i]) =>
              ReservesSeat(invite[i]) /\ invite'[i].user = invite[i].user
    PROVE  Reserved' \subseteq Reserved
  BY DEF Reserved, SeatHolders, ActiveMembers, SeatInvites, Reserving, At

LEMMA ExpirySeats ==
    ASSUME TypeInv, NEW i \in Invites, InviteLapses(i) \/ InvitePurged(i)
    PROVE  Reserved' \subseteq Reserved
  <1>1. invite[i] \in InviteDoc
    BY DEF TypeInv, Typed
  <1>2. ~ReservesSeat([invite[i] EXCEPT !.lapsed = TRUE])
        /\ ~ReservesSeat([invite[i] EXCEPT !.status = "purged"])
    BY <1>1 DEF ReservesSeat, InviteDoc
  <1>3. \/ invite' = [invite EXCEPT ![i] = [invite[i] EXCEPT !.lapsed = TRUE]]
        \/ invite' = [invite EXCEPT ![i] = [invite[i] EXCEPT !.status = "purged"]]
    BY DEF InviteLapses, InvitePurged
  <1>4. \A j \in Invites : ReservesSeat(invite'[j]) =>
              ReservesSeat(invite[j]) /\ invite'[j].user = invite[j].user
    BY <1>2, <1>3 DEF TypeInv, Typed
  <1>5. QED
    BY <1>4, EnvironmentSeats DEF InviteLapses, InvitePurged

LEMMA NextSeats ==
    ASSUME TypeInv, SeatAssumption, [Next]_vars
    PROVE  Reserved' \subseteq Reserved \/ SeatsReserved'
  <1>1. CASE UNCHANGED vars
    BY <1>1, EnvironmentSeats DEF vars
  <1>2. ASSUME NEW s \in Sessions, LeaveWorkspace(s)
        PROVE  Reserved' \subseteq Reserved
    BY <1>2, EnvironmentSeats DEF LeaveWorkspace
  <1>3. QED
    BY <1>1, <1>2, ArrivingSeats, LoadingSeats, LoadInviteSeats, SaveTargetSeats, AcceptSaveMemberSeats,
       InviteCreateSeats, SaveInviteSeats, CheckSeats, ExpirySeats
       DEF Next, Handle

(* The seat checks read a count and write later, without a transaction;    *)
(* still, for any number of users, invites and overlapping requests, the   *)
(* plan's limit is passed by at most one seat for each request in flight   *)
(* beyond the first, and never when requests are served one at a time.     *)
THEOREM SeatsBounded ==
    ASSUME SeatAssumption
    PROVE  Spec => []SeatOvershootBounded
  <1> USE SeatAssumption
  <1> DEFINE Inv == TypeInv /\ SeatsReserved
  <1>1. ASSUME TypeInv
        PROVE  IsFiniteSet(Reserved) /\ Cardinality(Reserved) \in Nat
    <2>1. SeatHolders \subseteq Users \cup {None}
      BY <1>1 DEF SeatHolders, ActiveMembers, SeatInvites, TypeInv, Typed, InviteDoc
    <2>2. Reserved \in SUBSET (Users \cup {None})
      BY <1>1, <2>1 DEF Reserved, Reserving, TypeInv, Typed, Request
    <2>3. IsFiniteSet(Users \cup {None})
      BY FS_AddElement DEF SeatAssumption
    <2>4. QED
      BY <2>2, <2>3, FS_Subset, FS_CardinalityType
  <1>2. Cardinality(Handlers) \in Nat \ {0}
    BY FS_CardinalityType, FS_EmptySet DEF SeatAssumption
  <1>3. Init => Inv
    <2> SUFFICES ASSUME Init PROVE TypeInv /\ SeatsReserved
      OBVIOUS
    <2>1. TypeInv
      BY InitType
    <2>2. Reserved \subseteq Founders \cup Staff
      BY DEF Init, Reserved, SeatHolders, ActiveMembers, IsActive, NoMember, SeatInvites,
             ReservesSeat, NoInvite, Reserving, At, Idle
    <2>3. IsFiniteSet(Founders \cup Staff)
      BY FS_Subset DEF SeatAssumption
    <2>4. Cardinality(Reserved) =< Cardinality(Founders \cup Staff)
      BY <2>2, <2>3, FS_Subset
    <2>5. Cardinality(Founders \cup Staff) \in Nat
      BY <2>3, FS_CardinalityType
    <2>6. QED
      BY <1>1, <1>2, <2>1, <2>4, <2>5 DEF SeatsReserved, SeatAssumption
  <1>4. Inv /\ [Next]_vars => Inv'
    <2> SUFFICES ASSUME TypeInv, SeatsReserved, [Next]_vars
                 PROVE  TypeInv' /\ SeatsReserved'
      OBVIOUS
    <2>1. TypeInv'
      BY NextType
    <2>2. CASE Reserved' \subseteq Reserved
      <3>1. Cardinality(Reserved') =< Cardinality(Reserved) /\ IsFiniteSet(Reserved')
        BY <1>1, <2>2, FS_Subset
      <3>2. Cardinality(Reserved') \in Nat
        BY <3>1, FS_CardinalityType
      <3>3. QED
        BY <1>1, <1>2, <2>1, <3>1, <3>2 DEF SeatsReserved, SeatAssumption
    <2>3. QED
      BY <2>1, <2>2, NextSeats
  <1>5. Inv => SeatOvershootBounded
    <2> SUFFICES ASSUME TypeInv, SeatsReserved PROVE SeatOvershootBounded
      OBVIOUS
    <2>1. SeatHolders \in SUBSET Reserved
      BY DEF Reserved
    <2>2. Cardinality(SeatHolders) =< Cardinality(Reserved) /\ Cardinality(SeatHolders) \in Nat
      BY <1>1, <2>1, FS_Subset, FS_CardinalityType
    <2>3. QED
      BY <1>1, <1>2, <2>2 DEF SeatsReserved, SeatOvershootBounded, SeatAssumption
  <1>6. QED
    BY <1>3, <1>4, <1>5, PTL DEF Spec

----------------------------------------------------------------------------
(* Owners *)

(* A step is one of a request, which is recorded, or leaves members,       *)
(* requests and histories alone.                                           *)
LEMMA StepOfRequest ==
    ASSUME [Next]_vars
    PROVE  \/ \E h \in Handlers : Handle(h) /\ Records(h)
           \/ UNCHANGED <<member, req, overlap, late, raced>>
  BY DEF Next, vars, history, LeaveWorkspace, InviteLapses, InvitePurged

(* A request moves itself only.                                            *)
LEMMA OthersStay ==
    ASSUME Typed, NEW h \in Handlers, Handle(h)
    PROVE  \A g \in Handlers \ {h} : req'[g] = req[g]
  <1>1. ASSUME NEW r, req' = [req EXCEPT ![h] = r]
        PROVE  \A g \in Handlers \ {h} : req'[g] = req[g]
    BY <1>1 DEF Typed
  <1>2. ASSUME Respond(h) PROVE \A g \in Handlers \ {h} : req'[g] = req[g]
    BY <1>1, <1>2 DEF Respond
  <1>3. ASSUME NEW r, Goto(h, r) PROVE \A g \in Handlers \ {h} : req'[g] = req[g]
    BY <1>1, <1>3 DEF Goto
  <1>4. CASE (\E a \in Users : Authenticate(h, a)) \/ AcceptFind(h) \/ EnterResolve(h)
    BY <1>3, <1>4 DEF Authenticate, AcceptFind, EnterResolve
  <1>5. CASE LoadTarget(h) \/ CheckTarget(h) \/ SaveTarget(h) \/ ListSessions(h)
             \/ RevokeSessions(h)
    BY <1>2, <1>3, <1>5 DEF LoadTarget, CheckTarget, SaveTarget, ListSessions, RevokeSessions
  <1>6. CASE InviteCheckMember(h) \/ InviteCheckSeat(h) \/ InviteCreate(h) \/ LoadInvite(h)
             \/ SaveInvite(h) \/ MarkExpired(h)
    BY <1>2, <1>3, <1>6 DEF InviteCheckMember, InviteCheckSeat, InviteCreate, LoadInvite,
                            SaveInvite, MarkExpired
  <1>7. CASE AcceptFindMember(h) \/ AcceptCheckSeat(h) \/ AcceptSaveMember(h)
             \/ AcceptSaveInvite(h) \/ EnterBind(h) \/ Fail(h)
    BY <1>2, <1>3, <1>7 DEF AcceptFindMember, AcceptCheckSeat, AcceptSaveMember,
                            AcceptSaveInvite, EnterBind, Fail
  <1>8. QED
    BY <1>4, <1>5, <1>6, <1>7 DEF Handle

(* Memberships are written by two steps, each of a request at its save, of *)
(* the membership of its user; then it is past the save.                   *)
LEMMA MembersWritten ==
    ASSUME TypeInv, NEW h \in Handlers, Handle(h), member' # member
    PROVE  /\ SaveTarget(h) \/ AcceptSaveMember(h)
           /\ At(h, "save") /\ req'[h].pc # "save" /\ req[h].user \in Users
           /\ \A u \in Users \ {req[h].user} : member'[u] = member[u]
  <1>1. SaveTarget(h) \/ AcceptSaveMember(h)
    BY DEF Handle, Authenticate, LoadTarget, CheckTarget, ListSessions, RevokeSessions,
           InviteCheckMember, InviteCheckSeat, InviteCreate, LoadInvite, SaveInvite, MarkExpired,
           AcceptFind, AcceptFindMember, AcceptCheckSeat, AcceptSaveInvite, EnterResolve,
           EnterBind, Fail
  <1>2. req[h] \in Request /\ WellFormed(req[h])
    BY DEF TypeInv, Typed, RequestsWellFormed
  <1>3. At(h, "save") /\ req[h].user \in Users
    BY <1>1, <1>2 DEF SaveTarget, AcceptSaveMember, At, WellFormed, MemberOps
  <1>4. \E doc : member' = [member EXCEPT ![req[h].user] = doc]
    BY <1>1 DEF SaveTarget, AcceptSaveMember
  <1>5. \A u \in Users \ {req[h].user} : member'[u] = member[u]
    BY <1>4 DEF TypeInv, Typed
  <1>6. ASSUME NEW r, Goto(h, r) \/ (Respond(h) /\ r = Idle), r.pc # "save"
        PROVE  req'[h].pc # "save"
    BY <1>6 DEF Goto, Respond, TypeInv, Typed
  <1>7. /\ [req[h] EXCEPT !.pc = "list"].pc = "list"
        /\ [req[h] EXCEPT !.pc = "accept"].pc = "accept" /\ Idle.pc = "idle"
    BY <1>2 DEF Request, Idle
  <1>8. req'[h].pc # "save"
    BY <1>1, <1>6, <1>7 DEF SaveTarget, AcceptSaveMember
  <1>9. QED
    BY <1>1, <1>3, <1>5, <1>8

(* A request about members comes to its save by the check only.            *)
LEMMA SaveIsChecked ==
    ASSUME TypeInv, NEW h \in Handlers, Handle(h)
    PROVE  \/ CheckTarget(h)
           \/ req'[h].pc # "save"
           \/ req'[h].op \notin MemberOps
  <1>1. /\ req \in [Handlers -> Request] /\ req[h] \in Request /\ WellFormed(req[h])
        /\ req[h].op \in MemberOps <=> req[h].op \notin {"none", "invite", "resend", "revoke", "accept", "enter"}
    BY DEF TypeInv, Typed, RequestsWellFormed, Request, MemberOps, InviteOps
  <1> DEFINE Unsaved == req'[h].pc # "save" \/ req'[h].op \notin MemberOps
  <1>2. ASSUME Respond(h) PROVE Unsaved
    BY <1>1, <1>2 DEF Respond, Idle
  <1>3. ASSUME NEW r, Goto(h, r), r.pc # "save" \/ r.op \notin MemberOps PROVE Unsaved
    BY <1>1, <1>3 DEF Goto
  <1>4. CASE \E a \in Users : Authenticate(h, a)
    BY <1>1, <1>4 DEF Authenticate, Goto, Idle
  <1>5. CASE AcceptFind(h)
    BY <1>1, <1>5 DEF AcceptFind, Goto, Idle, MemberOps
  <1>6. CASE EnterResolve(h)
    BY <1>1, <1>6 DEF EnterResolve, Goto, Idle
  <1>7. CASE LoadTarget(h)
    <2>1. [req[h] EXCEPT !.pc = "check", !.doc = member[req[h].user]].pc = "check"
      BY <1>1 DEF Request
    <2>2. QED
      BY <1>2, <1>3, <1>7, <2>1 DEF LoadTarget
  <1>8. CASE SaveTarget(h)
    <2>1. [req[h] EXCEPT !.pc = "list"].pc = "list"
      BY <1>1 DEF Request
    <2>2. QED
      BY <1>2, <1>3, <1>8, <2>1 DEF SaveTarget
  <1>9. CASE ListSessions(h)
    <2>1. [req[h] EXCEPT !.pc = "revoke", !.ids = LiveSessionsOf(req[h].user)].pc = "revoke"
      BY <1>1 DEF Request
    <2>2. QED
      BY <1>2, <1>3, <1>9, <2>1 DEF ListSessions
  <1>10. CASE RevokeSessions(h) \/ InviteCreate(h) \/ SaveInvite(h) \/ MarkExpired(h)
              \/ AcceptSaveInvite(h) \/ EnterBind(h) \/ Fail(h)
    BY <1>2, <1>10 DEF RevokeSessions, InviteCreate, SaveInvite, MarkExpired, AcceptSaveInvite,
                       EnterBind, Fail
  <1>11. CASE InviteCheckMember(h) \/ InviteCheckSeat(h) \/ AcceptCheckSeat(h)
    <2>1. req[h].op \notin MemberOps
      BY <1>11 DEF InviteCheckMember, InviteCheckSeat, AcceptCheckSeat, MemberOps
    <2>2. /\ [req[h] EXCEPT !.pc = "check"].op = req[h].op
          /\ [req[h] EXCEPT !.pc = "save"].op = req[h].op
      BY <1>1 DEF Request
    <2>3. QED
      BY <1>2, <1>3, <1>11, <2>1, <2>2 DEF InviteCheckMember, InviteCheckSeat, AcceptCheckSeat
  <1>12. CASE LoadInvite(h)
    <2>1. req[h].op \notin MemberOps
      BY <1>12 DEF LoadInvite, MemberOps
    <2>2. \A pc, u : [req[h] EXCEPT !.pc = pc, !.user = u].op = req[h].op
      BY <1>1 DEF Request
    <2>3. QED
      BY <1>2, <1>3, <1>12, <2>1, <2>2 DEF LoadInvite
  <1>13. CASE AcceptFindMember(h)
    <2>1. [req[h] EXCEPT !.pc = "check", !.doc = member[req[h].user]].pc = "check"
      BY <1>1 DEF Request
    <2>2. QED
      BY <1>2, <1>3, <1>13, <2>1 DEF AcceptFindMember
  <1>14. CASE AcceptSaveMember(h)
    <2>1. [req[h] EXCEPT !.pc = "accept"].pc = "accept"
      BY <1>1 DEF Request
    <2>2. QED
      BY <1>2, <1>3, <1>14, <2>1 DEF AcceptSaveMember
  <1>15. CASE CheckTarget(h)
    BY <1>15
  <1>16. QED
    BY <1>4, <1>5, <1>6, <1>7, <1>8, <1>9, <1>10, <1>11, <1>12, <1>13, <1>14, <1>15 DEF Handle

(* That check has counted two owners when the request takes ownership.     *)
LEMMA OwnersAreCounted ==
    ASSUME TypeInv, NEW h \in Handlers, CheckTarget(h), req'[h].pc = "save",
           TakesOwner(req[h])'
    PROVE  Cardinality(ActiveOwners) > 1 /\ member' = member
  <1> DEFINE r == req[h]
             n == req'[h]
  <1>1. req \in [Handlers -> Request] /\ r \in Request
    BY DEF TypeInv, Typed
  <1>2. n = [r EXCEPT !.pc = "save"] /\ (r.op # "activate" => LastOwnerSafe(r)) /\ member' = member
    BY <1>1 DEF CheckTarget, Respond, Goto, Idle
  <1>3. n.op = r.op /\ n.doc = r.doc /\ n.role = r.role
    BY <1>1, <1>2 DEF Request
  <1>4. TakesOwner(n)
    BY DEF TakesOwner, LosesOwner, Changed
  <1>5. LosesOwner(r)
    BY <1>3, <1>4 DEF TakesOwner, LosesOwner, Changed
  <1>6. r.op # "activate"
    BY <1>1, <1>5 DEF LosesOwner, Changed, Request, MemberDoc
  <1>7. QED
    BY <1>2, <1>5, <1>6 DEF LastOwnerSafe

(* More owners count for more, and of two one is left.                     *)
LEMMA OwnersFinite ==
    ASSUME IsFiniteSet(Users)
    PROVE  /\ IsFiniteSet(ActiveOwners) /\ Cardinality(ActiveOwners) \in Nat
           /\ IsFiniteSet(ActiveOwners') /\ Cardinality(ActiveOwners') \in Nat
           /\ ActiveOwners \subseteq ActiveOwners' =>
                 Cardinality(ActiveOwners) <= Cardinality(ActiveOwners')
           /\ \A u : Cardinality(ActiveOwners) > 1 => ActiveOwners \ {u} # {}
  <1>1. ActiveOwners \in SUBSET Users /\ ActiveOwners' \in SUBSET Users
    BY DEF ActiveOwners, ActiveMembers
  <1>2. /\ IsFiniteSet(ActiveOwners) /\ Cardinality(ActiveOwners) \in Nat
        /\ IsFiniteSet(ActiveOwners') /\ Cardinality(ActiveOwners') \in Nat
    BY <1>1, FS_Subset, FS_CardinalityType
  <1>3. ASSUME NEW u, Cardinality(ActiveOwners) > 1, ActiveOwners \ {u} = {} PROVE FALSE
    <2>1. ActiveOwners \in SUBSET {u}
      BY <1>3
    <2>2. IsFiniteSet({u}) /\ Cardinality({u}) = 1
      BY FS_Singleton
    <2>3. Cardinality(ActiveOwners) <= 1
      BY <2>1, <2>2, FS_Subset
    <2>4. QED
      BY <1>2, <1>3, <2>3
  <1>4. ActiveOwners \subseteq ActiveOwners' => Cardinality(ActiveOwners) <= Cardinality(ActiveOwners')
    BY <1>2, FS_Subset
  <1>5. QED
    BY <1>2, <1>3, <1>4

(* The owners after a step are those before it, but for the lost ones.     *)
LEMMA OwnersAfter == ActiveOwners \ Lost \subseteq ActiveOwners'
  BY DEF Lost, ActiveOwners, ActiveMembers

LEMMA OwnersStep ==
    ASSUME IsFiniteSet(Users), TypeInv, HasActiveOwner, OwnersCounted, [Next]_vars
    PROVE  HasActiveOwner' /\ OwnersCounted'
  <1>1. CASE UNCHANGED <<member, req, overlap, late, raced>>
    BY <1>1 DEF HasActiveOwner, OwnersCounted, ActiveOwners, ActiveMembers, history, At,
                TakesOwner, LosesOwner, Changed
  <1>2. ASSUME NEW h \in Handlers, Handle(h), Records(h)
        PROVE  HasActiveOwner' /\ OwnersCounted'
    <2>1. \A g \in Handlers \ {h} : req'[g] = req[g]
      BY <1>2, OthersStay DEF TypeInv
    <2>2. CASE Lost = {}
      <3>1. ActiveOwners \subseteq ActiveOwners'
        BY <2>2, OwnersAfter
      <3>2. late' = late \ {h} /\ (raced => raced')
        BY <1>2, <2>2 DEF Records, RecordsOwners, TypeInv
      <3>3. ASSUME NEW g \in Handlers, At(g, "save")', TakesOwner(req[g])', g \notin late'
            PROVE  Cardinality(ActiveOwners') > 1
        <4>1. Cardinality(ActiveOwners) > 1
          <5>1. CASE g = h
            BY <1>2, <3>3, <5>1, SaveIsChecked, OwnersAreCounted DEF At, TakesOwner
          <5>2. CASE g # h
            <6>1. req'[g] = req[g]
              BY <2>1, <5>2
            <6>2. At(g, "save") /\ TakesOwner(req[g]) /\ g \notin late
              BY <3>2, <3>3, <5>2, <6>1 DEF At, TakesOwner, LosesOwner, Changed
            <6>3. QED
              BY <6>2 DEF OwnersCounted
          <5>3. QED
            BY <5>1, <5>2
        <4>2. QED
          BY <3>1, <4>1, OwnersFinite
      <3>4. QED
        BY <3>1, <3>2, <3>3 DEF HasActiveOwner, OwnersCounted
    <2>3. CASE Lost # {}
      <3>1. member' # member
        BY <2>3 DEF Lost, ActiveOwners, ActiveMembers
      <3>2. /\ SaveTarget(h) \/ AcceptSaveMember(h)
            /\ At(h, "save") /\ req'[h].pc # "save" /\ req[h].user \in Users
            /\ \A u \in Users \ {req[h].user} : member'[u] = member[u]
        BY <1>2, <3>1, MembersWritten
      <3>3. late' = {g \in Handlers \ {h} : At(g, "save")}
        BY <1>2, <2>3 DEF Records, RecordsOwners
      <3>4. OwnersCounted'
        BY <2>1, <3>2, <3>3 DEF OwnersCounted, At
      <3>5. ASSUME ~raced' PROVE ActiveOwners' # {}
        <4>1. h \notin late /\ TakesOwner(req[h])
          BY <1>2, <2>3, <3>5 DEF Records, RecordsOwners
        <4>2. Cardinality(ActiveOwners) > 1
          BY <3>2, <4>1 DEF OwnersCounted
        <4>3. ActiveOwners \ {req[h].user} # {}
          BY <4>2, OwnersFinite
        <4>4. Lost \subseteq {req[h].user}
          BY <3>2 DEF Lost, ActiveOwners, ActiveMembers
        <4>5. QED
          BY <4>3, <4>4, OwnersAfter
      <3>6. QED
        BY <3>4, <3>5 DEF HasActiveOwner
    <2>4. QED
      BY <2>2, <2>3
  <1>3. QED
    BY <1>1, <1>2, StepOfRequest

(* Nobody is missing, whatever overlaps or fails: an accepted invite has   *)
(* brought its member, and an active owner is left, unless two requests    *)
(* that take ownership both counted before either saved, or one took it    *)
(* from a target that was no active owner when it was read.                *)
THEOREM NobodyIsMissing ==
    ASSUME SeatAssumption
    PROVE  Spec => []MembersRemain
  <1>1. Init => HasActiveOwner /\ OwnersCounted
    <2> SUFFICES ASSUME Init PROVE HasActiveOwner /\ OwnersCounted
      OBVIOUS
    <2>1. Founders \subseteq ActiveOwners
      BY DEF Init, ActiveOwners, ActiveMembers, IsActive, MembershipAssumption
    <2>2. OwnersCounted
      BY DEF Init, OwnersCounted, At, Idle
    <2>3. QED
      BY <2>1, <2>2 DEF HasActiveOwner, MembershipAssumption
  <1>2. TypeInv /\ HasActiveOwner /\ OwnersCounted /\ [Next]_vars
        => (HasActiveOwner /\ OwnersCounted)'
    BY OwnersStep DEF SeatAssumption
  <1>3. Init => TypeInv
    BY InitType
  <1>4. TypeInv /\ [Next]_vars => TypeInv'
    BY NextType
  <1>5. AcceptedInviteHasMember /\ HasActiveOwner => MembersRemain
    BY DEF MembersRemain
  <1>6. QED
    BY <1>1, <1>2, <1>3, <1>4, <1>5, AcceptedHasMember, PTL DEF Spec

----------------------------------------------------------------------------
(* Requests that come one at a time *)

(* What is known of a step of a request that has overlapped no other.      *)
LEMMA StepIsLone ==
    ASSUME TypeInv, NEW h \in Handlers, Handle(h), Records(h), ~overlap', LoneHolds
    PROVE  /\ ~overlap
           /\ \A g \in Handlers \ {h} : At(g, "idle") /\ req'[g] = req[g]
           /\ StillSo(req[h]) /\ DeletedIffRemoved
           /\ req \in [Handlers -> Request] /\ req[h] \in Request /\ WellFormed(req[h])
  <1>1. ~overlap /\ \A g \in Handlers \ {h} : At(g, "idle")
    BY DEF Records, RecordsOwners
  <1>2. QED
    BY <1>1, OthersStay DEF LoneHolds, TypeInv, Typed, RequestsWellFormed

(* It is enough to look at the request that moves: the others are idle.    *)
LEMMA LoneGoesOn ==
    ASSUME TypeInv, NEW h \in Handlers, Handle(h), Records(h), ~overlap', LoneHolds,
           StillSo(req[h])', DeletedIffRemoved', Lost # {} => TakesOwner(req[h])
    PROVE  LoneHolds'
  <1>1. \A g \in Handlers \ {h} : At(g, "idle")'
    BY StepIsLone DEF At
  <1>2. \A f, g \in Handlers : ~At(f, "idle")' /\ ~At(g, "idle")' => f = g
    BY <1>1
  <1>3. ASSUME NEW g \in Handlers PROVE StillSo(req[g])'
    <2>1. CASE g = h
      BY <2>1
    <2>2. CASE g # h
      BY <1>1, <2>2 DEF StillSo, At
    <2>3. QED
      BY <2>1, <2>2
  <1>4. late' = {} /\ ~raced'
    <2>1. late = {} /\ ~raced /\ ~overlap
      BY StepIsLone DEF LoneHolds
    <2>2. \A g \in Handlers \ {h} : ~At(g, "save")
      BY StepIsLone DEF At
    <2>3. QED
      BY <2>1, <2>2 DEF Records, RecordsOwners
  <1>5. QED
    BY <1>2, <1>3, <1>4 DEF LoneHolds

(* A member operation writes what it has made of the stored membership...  *)
LEMMA LoneSave ==
    ASSUME TypeInv, NEW h \in Handlers, SaveTarget(h), StillSo(req[h])
    PROVE  LET r == req[h]
           IN  /\ r.user \in Users /\ r.doc \in MemberDoc /\ r.doc = member[r.user]
               /\ r.op \in MemberOps /\ MayManage(r, r.doc)
               /\ r.doc.status = "removed" => r.op = "remove"
               /\ member' = [member EXCEPT ![r.user] = Changed(r)]
  <1> DEFINE r == req[h]
  <1>1. /\ r \in Request /\ WellFormed(r) /\ r.op \in MemberOps /\ r.pc = "save"
        /\ member' = [member EXCEPT ![r.user] = SavedMember(member[r.user], r.doc, Changed(r))]
    BY DEF SaveTarget, At, TypeInv, Typed, RequestsWellFormed
  <1>2. r.user \in Users /\ r.doc \in MemberDoc
    BY <1>1 DEF WellFormed, MemberOps, Request
  <1>3. /\ r.doc = member[r.user] /\ MayManage(r, r.doc)
        /\ r.doc.status = "removed" => r.op = "remove"
    BY <1>1 DEF StillSo
  <1>4. ASSUME NEW doc \in MemberDoc, NEW changed \in MemberDoc
        PROVE  SavedMember(doc, doc, changed) = changed
    BY DEF SavedMember, SavedPath, MemberDoc
  <1>5. Changed(r) \in MemberDoc
    BY <1>1, ChangedType
  <1>6. QED
    BY <1>1, <1>2, <1>3, <1>4, <1>5

(* ... and an accept the membership of the invite.                         *)
LEMMA LoneAccept ==
    ASSUME TypeInv, NEW h \in Handlers, AcceptSaveMember(h), StillSo(req[h])
    PROVE  /\ req[h].user \in Users /\ req[h].op = "accept" /\ At(h, "save")
           /\ \/ member' = member
              \/ \E doc \in MemberDoc : /\ doc.status = "active" /\ ~doc.deleted
                                        /\ member' = [member EXCEPT ![req[h].user] = doc]
  <1> DEFINE r == req[h]
             restored == [role |-> r.role, status |-> "active", deleted |-> FALSE]
  <1>1. r \in Request /\ WellFormed(r) /\ r.op = "accept" /\ r.pc = "save"
    BY DEF AcceptSaveMember, At, TypeInv, Typed, RequestsWellFormed
  <1>2. r.user \in Users /\ r.doc \in MemberDoc /\ restored \in MemberDoc
    BY <1>1 DEF WellFormed, Request, MemberDoc, MemberStatus
  <1>3. r.doc = member[r.user]
    BY <1>1 DEF StillSo
  <1>4. ASSUME NEW doc \in MemberDoc, NEW changed \in MemberDoc
        PROVE  SavedMember(doc, doc, changed) = changed
    BY DEF SavedMember, SavedPath, MemberDoc
  <1>5. SavedMember(member[r.user], r.doc, restored) = restored
    BY <1>2, <1>3, <1>4
  <1>6. member' = member \/ member' = [member EXCEPT ![r.user] = restored]
    BY <1>5 DEF AcceptSaveMember
  <1>7. QED
    BY <1>1, <1>2, <1>6 DEF At

LEMMA DeletedIffRemovedStep ==
    ASSUME TypeInv, NEW h \in Handlers, Handle(h), StillSo(req[h]), DeletedIffRemoved
    PROVE  DeletedIffRemoved'
  <1>1. CASE member' = member
    BY <1>1 DEF DeletedIffRemoved
  <1>2. CASE SaveTarget(h)
    <2> DEFINE r == req[h]
    <2>1. /\ r.user \in Users /\ r.doc \in MemberDoc /\ r.doc = member[r.user]
          /\ r.op \in MemberOps /\ (r.doc.status = "removed" => r.op = "remove")
          /\ member' = [member EXCEPT ![r.user] = Changed(r)]
      BY <1>2, LoneSave
    <2>2. r.doc.deleted <=> r.doc.status = "removed"
      BY <2>1 DEF DeletedIffRemoved
    <2>3. Changed(r).deleted <=> Changed(r).status = "removed"
      BY <2>1, <2>2 DEF Changed, MemberDoc, MemberOps
    <2> HIDE DEF r
    <2>4. QED
      BY <2>1, <2>3 DEF DeletedIffRemoved, TypeInv, Typed
  <1>3. CASE AcceptSaveMember(h)
    BY <1>3, LoneAccept DEF DeletedIffRemoved, TypeInv, Typed
  <1>4. QED
    BY <1>1, <1>2, <1>3, MembersWritten

(* Ownership is taken by a request that has seen the owner.                *)
LEMMA OwnersAreSeen ==
    ASSUME TypeInv, NEW h \in Handlers, Handle(h), StillSo(req[h]), DeletedIffRemoved, Lost # {}
    PROVE  TakesOwner(req[h])
  <1>1. PICK u \in Users : /\ IsActive(member[u]) /\ member[u].role = "owner"
                           /\ ~(IsActive(member'[u]) /\ member'[u].role = "owner")
    BY DEF Lost, ActiveOwners, ActiveMembers
  <1>2. /\ SaveTarget(h) \/ AcceptSaveMember(h)
        /\ At(h, "save") /\ u = req[h].user
    BY <1>1, MembersWritten
  <1>3. CASE SaveTarget(h)
    <2> DEFINE r == req[h]
    <2>1. /\ r.user \in Users /\ r.doc \in MemberDoc /\ r.doc = member[r.user]
          /\ r.op \in MemberOps /\ member' = [member EXCEPT ![r.user] = Changed(r)]
      BY <1>3, LoneSave
    <2>2. member'[u] = Changed(r)
      BY <1>2, <2>1 DEF TypeInv, Typed
    <2>3. /\ r.doc.role = "owner" /\ r.doc.status = "active" /\ ~r.doc.deleted
          /\ ~(Changed(r).status = "active" /\ ~Changed(r).deleted /\ Changed(r).role = "owner")
      BY <1>1, <1>2, <2>1, <2>2 DEF IsActive
    <2>4. Changed(r).status = "active" => ~Changed(r).deleted
      BY <2>1, <2>3 DEF Changed, MemberDoc, MemberOps
    <2>5. QED
      BY <2>1, <2>3, <2>4 DEF TakesOwner, LosesOwner
  <1>4. CASE AcceptSaveMember(h)
    <2>1. req[h].op = "accept" /\ req[h].doc = member[u] /\ ~IsActive(req[h].doc)
      BY <1>2, <1>4, LoneAccept DEF StillSo, At
    <2>2. QED
      BY <1>1, <2>1
  <1>5. QED
    BY <1>2, <1>3, <1>4

(* What the request holds is so still.                                     *)
LEMMA StillSoStep ==
    ASSUME TypeInv, NEW h \in Handlers, Handle(h), StillSo(req[h])
    PROVE  StillSo(req[h])'
  <1>1. req \in [Handlers -> Request] /\ req[h] \in Request /\ WellFormed(req[h])
    BY DEF TypeInv, Typed, RequestsWellFormed
  <1>2. ASSUME Respond(h) PROVE StillSo(req[h])'
    BY <1>1, <1>2 DEF Respond, Idle, StillSo, MemberOps
  <1>3. ASSUME NEW r, Goto(h, r), r.pc \notin {"load", "check", "save"} PROVE StillSo(req[h])'
    BY <1>1, <1>3 DEF Goto, StillSo
  <1>4. ASSUME NEW r, Goto(h, r), r.op \notin MemberOps \cup {"accept"} PROVE StillSo(req[h])'
    BY <1>1, <1>4 DEF Goto, StillSo
  <1>5. CASE \E a \in Users : Authenticate(h, a)
    <2>1. PICK a \in Users : Authenticate(h, a)
      BY <1>5
    <2>2. /\ IsActive(member[a]) /\ member[a].role \in ManagerRoles /\ member' = member
          /\ req'[h].pc = "load" /\ req'[h].op # "accept"
          /\ req'[h].actor = a /\ req'[h].actorRole = member[a].role
      BY <1>1, <2>1 DEF Authenticate, Goto, Idle, MemberOps, InviteOps
    <2>3. QED
      BY <2>2 DEF StillSo
  <1>6. CASE AcceptFind(h)
    BY <1>1, <1>6 DEF AcceptFind, Goto, Idle, StillSo, MemberOps
  <1>7. CASE EnterResolve(h)
    BY <1>1, <1>7 DEF EnterResolve, Goto, Idle, StillSo, MemberOps
  <1>8. CASE LoadTarget(h)
    <2> DEFINE t == member[req[h].user]
               n == [req[h] EXCEPT !.pc = "check", !.doc = t]
    <2>1. CASE Goto(h, n) /\ MayManage(req[h], t) /\ (t.status = "removed" => req[h].op = "remove")
      <3>1. /\ n.pc = "check" /\ n.doc = t /\ n.op = req[h].op /\ n.user = req[h].user
            /\ n.actor = req[h].actor /\ n.actorRole = req[h].actorRole /\ n.role = req[h].role
        BY <1>1 DEF Request
      <3>2. req'[h] = n /\ member' = member
        BY <1>1, <1>8, <2>1 DEF Goto, LoadTarget
      <3>3. req[h].pc = "load" /\ req[h].op \in MemberOps
        BY <1>8 DEF LoadTarget, At
      <3>4. MayManage(n, t)
        BY <2>1, <3>1 DEF MayManage
      <3> HIDE DEF n
      <3>5. QED
        BY <2>1, <3>1, <3>2, <3>3, <3>4 DEF StillSo, MemberOps, MayManage
    <2>2. QED
      BY <1>2, <1>8, <2>1 DEF LoadTarget
  <1>9. CASE CheckTarget(h) \/ AcceptCheckSeat(h)
    <2> DEFINE n == [req[h] EXCEPT !.pc = "save"]
    <2>1. CASE Goto(h, n)
      <3>1. /\ n.pc = "save" /\ n.doc = req[h].doc /\ n.op = req[h].op /\ n.user = req[h].user
            /\ n.actor = req[h].actor /\ n.actorRole = req[h].actorRole /\ n.role = req[h].role
        BY <1>1 DEF Request
      <3>2. req'[h] = n /\ member' = member /\ req[h].pc = "check"
        BY <1>1, <1>9, <2>1 DEF Goto, CheckTarget, AcceptCheckSeat, At
      <3> HIDE DEF n
      <3>3. QED
        BY <3>1, <3>2 DEF StillSo, MayManage
    <2>2. QED
      BY <1>2, <1>9, <2>1 DEF CheckTarget, AcceptCheckSeat
  <1>10. CASE SaveTarget(h)
    <2>1. [req[h] EXCEPT !.pc = "list"].pc = "list"
      BY <1>1 DEF Request
    <2>2. QED
      BY <1>2, <1>3, <1>10, <2>1 DEF SaveTarget
  <1>11. CASE ListSessions(h)
    <2>1. [req[h] EXCEPT !.pc = "revoke", !.ids = LiveSessionsOf(req[h].user)].pc = "revoke"
      BY <1>1 DEF Request
    <2>2. QED
      BY <1>2, <1>3, <1>11, <2>1 DEF ListSessions
  <1>12. CASE RevokeSessions(h) \/ InviteCreate(h) \/ SaveInvite(h) \/ MarkExpired(h)
              \/ AcceptSaveInvite(h) \/ EnterBind(h) \/ Fail(h)
    BY <1>2, <1>12 DEF RevokeSessions, InviteCreate, SaveInvite, MarkExpired, AcceptSaveInvite,
                       EnterBind, Fail
  <1>13. CASE InviteCheckMember(h) \/ InviteCheckSeat(h)
    <2>1. req[h].op \notin MemberOps \cup {"accept"}
      BY <1>13 DEF InviteCheckMember, InviteCheckSeat, MemberOps
    <2>2. /\ [req[h] EXCEPT !.pc = "check"].op = req[h].op
          /\ [req[h] EXCEPT !.pc = "save"].op = req[h].op
      BY <1>1 DEF Request
    <2>3. QED
      BY <1>2, <1>4, <1>13, <2>1, <2>2 DEF InviteCheckMember, InviteCheckSeat
  <1>14. CASE LoadInvite(h)
    <2>1. req[h].op \notin MemberOps \cup {"accept"}
      BY <1>14 DEF LoadInvite, MemberOps
    <2>2. \A pc, u : [req[h] EXCEPT !.pc = pc, !.user = u].op = req[h].op
      BY <1>1 DEF Request
    <2>3. QED
      BY <1>2, <1>4, <1>14, <2>1, <2>2 DEF LoadInvite
  <1>15. CASE AcceptFindMember(h)
    <2> DEFINE t == member[req[h].user]
               n == [req[h] EXCEPT !.pc = "check", !.doc = t]
    <2>1. CASE Goto(h, n) /\ ~IsActive(t)
      <3>1. n.doc = t /\ n.op = req[h].op /\ n.user = req[h].user
        BY <1>1 DEF Request
      <3>2. req'[h] = n /\ member' = member
        BY <1>1, <1>15, <2>1 DEF Goto, AcceptFindMember
      <3>3. req[h].op = "accept"
        BY <1>1, <1>15 DEF AcceptFindMember, At, WellFormed
      <3> HIDE DEF n
      <3>4. QED
        BY <2>1, <3>1, <3>2, <3>3 DEF StillSo, MemberOps
    <2>2. QED
      BY <1>2, <1>15, <2>1 DEF AcceptFindMember
  <1>16. CASE AcceptSaveMember(h)
    <2>1. [req[h] EXCEPT !.pc = "accept"].pc = "accept"
      BY <1>1 DEF Request
    <2>2. QED
      BY <1>2, <1>3, <1>16, <2>1 DEF AcceptSaveMember
  <1>17. QED
    BY <1>5, <1>6, <1>7, <1>8, <1>9, <1>10, <1>11, <1>12, <1>13, <1>14, <1>15, <1>16 DEF Handle

LEMMA LoneStep ==
    ASSUME TypeInv, LoneHolds, [Next]_vars
    PROVE  LoneHolds'
  <1>1. CASE UNCHANGED <<member, req, overlap, late, raced>>
    BY <1>1 DEF LoneHolds, history, StillSo, MayManage, At, DeletedIffRemoved
  <1>2. ASSUME NEW h \in Handlers, Handle(h), Records(h) PROVE LoneHolds'
    <2>1. CASE ~overlap'
      BY <1>2, <2>1, StepIsLone, LoneGoesOn, StillSoStep, DeletedIffRemovedStep,
         OwnersAreSeen
    <2>2. CASE overlap'
      BY <2>2 DEF LoneHolds
    <2>3. QED
      BY <2>1, <2>2
  <1>3. QED
    BY <1>1, <1>2, StepOfRequest

(* A step of a lone request manages below, and returns by an invite only.  *)
LEMMA LoneStepObeys ==
    ASSUME TypeInv, LoneHolds, [Next]_vars, ~overlap'
    PROVE  ManagesBelow /\ ReturnsReinvited
  <1>1. CASE member' = member
    BY <1>1 DEF ManagesBelow, ReturnsReinvited
  <1>2. ASSUME NEW h \in Handlers, Handle(h), Records(h), member' # member
        PROVE  ManagesBelow /\ ReturnsReinvited
    <2>1. /\ \A g \in Handlers \ {h} : At(g, "idle")
          /\ StillSo(req[h]) /\ req[h] \in Request
      BY <1>2, StepIsLone
    <2>2. /\ SaveTarget(h) \/ AcceptSaveMember(h)
          /\ \A u \in Users \ {req[h].user} : member'[u] = member[u]
      BY <1>2, MembersWritten
    <2> DEFINE r == req[h]
    <2>3. CASE SaveTarget(h)
      <3>1. /\ r.user \in Users /\ r.doc \in MemberDoc /\ r.doc = member[r.user]
            /\ r.op \in MemberOps /\ MayManage(r, r.doc)
            /\ r.doc.status = "removed" => r.op = "remove"
            /\ member' = [member EXCEPT ![r.user] = Changed(r)]
        BY <2>1, <2>3, LoneSave
      <3>2. member'[r.user] = Changed(r)
        BY <3>1 DEF TypeInv, Typed
      <3>3. r.doc.status = "removed" => Changed(r).status = "removed"
        BY <3>1 DEF Changed
      <3>4. r.actorRole = "admin" =>
               member[r.user].role \in Manageable /\ Changed(r).role \in Manageable
        BY <3>1 DEF MayManage, Changed, MemberDoc, MemberOps, Manageable
      <3>5. \A g \in Handlers : At(g, "save") => g = h
        BY <2>1 DEF At
      <3> HIDE DEF r
      <3>6. ReturnsReinvited
        BY <2>2, <3>1, <3>2, <3>3 DEF ReturnsReinvited, r
      <3>7. ManagesBelow
        <4> SUFFICES ASSUME NEW g \in Handlers, NEW u \in Users,
                            At(g, "save"), req[g].actorRole = "admin", member'[u] # member[u]
                     PROVE  member[u].role \in Manageable /\ member'[u].role \in Manageable
          BY DEF ManagesBelow
        <4>1. g = h /\ u = r.user
          BY <2>2, <3>5 DEF r
        <4>2. QED
          BY <3>2, <3>4, <4>1 DEF r
      <3>8. QED
        BY <3>6, <3>7
    <2>4. CASE AcceptSaveMember(h)
      <3>1. r.op = "accept" /\ At(h, "save") /\ r.user \in Users
        BY <2>1, <2>4, LoneAccept
      <3>2. ReturnsReinvited
        BY <2>2, <3>1 DEF ReturnsReinvited
      <3>3. ManagesBelow
        BY <2>1, <3>1 DEF ManagesBelow, At, MemberOps
      <3>4. QED
        BY <3>2, <3>3
    <2>5. QED
      BY <2>2, <2>3, <2>4
  <1>3. QED
    BY <1>1, <1>2, StepOfRequest

(* Requests that come one at a time, and may fail at any await, leave an   *)
(* owner, mark as deleted exactly the removed members, manage only below,  *)
(* and bring a removed member back by an invite only: what a request has   *)
(* loaded is so until it saves.                                            *)
THEOREM LoneRequestsDoObey ==
    ASSUME SeatAssumption
    PROVE  Spec => LoneRequestsObey
  <1>1. Init => LoneHolds
    <2> SUFFICES ASSUME Init PROVE LoneHolds
      OBVIOUS
    <2>1. \A h \in Handlers : req[h] = Idle /\ At(h, "idle")
      BY DEF Init, At, Idle
    <2>2. StillSo(Idle)
      BY DEF StillSo, Idle, MemberOps
    <2>3. DeletedIffRemoved
      BY DEF Init, DeletedIffRemoved, NoMember
    <2>4. late = {} /\ ~raced
      BY DEF Init
    <2>5. QED
      BY <2>1, <2>2, <2>3, <2>4 DEF LoneHolds
  <1>2. TypeInv /\ LoneHolds /\ [Next]_vars => LoneHolds'
    BY LoneStep
  <1>3. TypeInv /\ LoneHolds /\ [Next]_vars
        => [~overlap' => ManagesBelow /\ ReturnsReinvited]_vars
    BY LoneStepObeys
  <1>4. Init => TypeInv
    BY InitType
  <1>5. TypeInv /\ [Next]_vars => TypeInv'
    BY NextType
  <1>6. LoneHolds /\ MembersRemain => (~overlap => ActiveOwners # {} /\ DeletedIffRemoved)
    BY DEF LoneHolds, MembersRemain, HasActiveOwner
  <1>7. QED
    BY <1>1, <1>2, <1>3, <1>4, <1>5, <1>6, NobodyIsMissing, PTL DEF Spec, LoneRequestsObey
----------------------------------------------------------------------------
(* Sessions that a change of the member ends *)

(* What happens to one request that is invalidating sessions.              *)
LEMMA RevokingRequest ==
    ASSUME TypeInv, [Next]_vars, NEW h \in Handlers, req'[h].pc \in {"list", "revoke"}
    PROVE  \/ req'[h] = req[h]
           \/ /\ SaveTarget(h) /\ req'[h].user = req[h].user
              /\ req'[h].pc = "list"
           \/ /\ ListSessions(h) /\ req'[h].user = req[h].user
              /\ req'[h].pc = "revoke" /\ req'[h].ids = LiveSessionsOf(req[h].user)
  <1> DEFINE Goal == \/ req'[h] = req[h]
                     \/ /\ SaveTarget(h) /\ req'[h].user = req[h].user
                        /\ req'[h].pc = "list"
                     \/ /\ ListSessions(h) /\ req'[h].user = req[h].user
                        /\ req'[h].pc = "revoke"
                        /\ req'[h].ids = LiveSessionsOf(req[h].user)
  <1>1. req \in [Handlers -> Request]
    BY DEF TypeInv, Typed
  <1>2. ASSUME NEW g \in Handlers, NEW r, req' = [req EXCEPT ![g] = r],
               g # h \/ r.pc \notin {"list", "revoke"}
        PROVE  Goal
    BY <1>1, <1>2
  <1>3. ASSUME NEW g \in Handlers, Respond(g)
        PROVE  Goal
    BY <1>2, <1>3 DEF Respond, Idle
  <1>4. ASSUME NEW g \in Handlers, SaveTarget(g)
        PROVE  Goal
    <2> DEFINE r == [req[g] EXCEPT !.pc = "list"]
    <2>1. r.pc = "list" /\ r.user = req[g].user
      BY <1>1 DEF Request
    <2>2. CASE Goto(g, r) /\ g = h
      BY <1>1, <1>4, <2>1, <2>2 DEF Goto
    <2>3. CASE Goto(g, r) /\ g # h
      BY <1>2, <2>3 DEF Goto
    <2>4. QED
      BY <1>3, <1>4, <2>2, <2>3 DEF SaveTarget
  <1>5. ASSUME NEW g \in Handlers, ListSessions(g)
        PROVE  Goal
    <2> DEFINE r == [req[g] EXCEPT !.pc = "revoke", !.ids = LiveSessionsOf(req[g].user)]
    <2>1. /\ r.pc = "revoke" /\ r.user = req[g].user
          /\ r.ids = LiveSessionsOf(req[g].user)
      BY <1>1 DEF Request
    <2>2. CASE Goto(g, r) /\ g = h
      BY <1>1, <1>5, <2>1, <2>2 DEF Goto
    <2>3. CASE Goto(g, r) /\ g # h
      BY <1>2, <2>3 DEF Goto
    <2>4. QED
      BY <1>3, <1>5, <2>2, <2>3 DEF ListSessions
  <1>6. ASSUME NEW g \in Handlers, NEW a \in Users, Authenticate(g, a)
        PROVE  Goal
    <2> DEFINE r(op, u, ro, i) ==
          [Idle EXCEPT !.pc = "load", !.op = op, !.actor = a, !.actorRole = member[a].role,
                       !.user = u, !.role = ro, !.invite = i]
    <2>1. PICK op, u, ro, i : Goto(g, r(op, u, ro, i))
      BY <1>6 DEF Authenticate
    <2>2. r(op, u, ro, i).pc = "load"
      BY DEF Idle
    <2>3. QED
      BY <1>2, <2>1, <2>2 DEF Goto
  <1>7. ASSUME NEW g \in Handlers,
               \/ LoadTarget(g) \/ CheckTarget(g) \/ InviteCheckMember(g) \/ InviteCheckSeat(g)
               \/ AcceptFindMember(g) \/ AcceptCheckSeat(g) \/ AcceptSaveMember(g)
               \/ LoadInvite(g) \/ AcceptFind(g) \/ EnterResolve(g)
        PROVE  Goal
    <2>1. ASSUME NEW pc \in {"check", "save", "accept"}, Goto(g, [req[g] EXCEPT !.pc = pc])
          PROVE  Goal
      <3>1. [req[g] EXCEPT !.pc = pc].pc = pc
        BY <1>1 DEF Request
      <3>2. QED
        BY <1>2, <2>1, <3>1 DEF Goto
    <2>2. ASSUME NEW doc, Goto(g, [req[g] EXCEPT !.pc = "check", !.doc = doc])
          PROVE  Goal
      <3>1. [req[g] EXCEPT !.pc = "check", !.doc = doc].pc = "check"
        BY <1>1 DEF Request
      <3>2. QED
        BY <1>2, <2>2, <3>1 DEF Goto
    <2>3. CASE LoadTarget(g) \/ CheckTarget(g) \/ InviteCheckMember(g) \/ InviteCheckSeat(g)
      BY <1>3, <2>1, <2>2, <2>3 DEF LoadTarget, CheckTarget, InviteCheckMember, InviteCheckSeat
    <2>4. CASE AcceptFindMember(g) \/ AcceptCheckSeat(g) \/ AcceptSaveMember(g)
      BY <1>3, <2>1, <2>2, <2>4 DEF AcceptFindMember, AcceptCheckSeat, AcceptSaveMember
    <2>5. CASE LoadInvite(g)
      <3> DEFINE r(pc) == [req[g] EXCEPT !.pc = pc, !.user = invite[req[g].invite].user]
      <3>1. Respond(g) \/ \E pc \in {"expire", "save"} : Goto(g, r(pc))
        BY <2>5 DEF LoadInvite
      <3>2. \A pc \in {"expire", "save"} : r(pc).pc = pc
        BY <1>1 DEF Request
      <3>3. QED
        BY <1>2, <1>3, <3>1, <3>2 DEF Goto
    <2>6. CASE AcceptFind(g)
      <3> DEFINE r(i, pc) == [Idle EXCEPT !.pc = pc, !.op = "accept", !.user = invite[i].user,
                                          !.role = invite[i].role, !.invite = i]
      <3>1. PICK i \in Invites, pc \in {"expire", "find"} : Goto(g, r(i, pc))
        BY <2>6 DEF AcceptFind
      <3>2. r(i, pc).pc = pc
        BY DEF Idle
      <3>3. QED
        BY <1>2, <3>1, <3>2 DEF Goto
    <2>7. CASE EnterResolve(g)
      <3> DEFINE r(u) == [Idle EXCEPT !.pc = "open", !.op = "enter", !.user = u]
      <3>1. PICK u \in Users : Goto(g, r(u))
        BY <2>7 DEF EnterResolve, MembershipAssumption
      <3>2. r(u).pc = "open"
        BY DEF Idle
      <3>3. QED
        BY <1>2, <3>1, <3>2 DEF Goto
    <2>8. QED
      BY <1>7, <2>3, <2>4, <2>5, <2>6, <2>7
  <1>8. CASE UNCHANGED req
    BY <1>8
  <1>9. QED
    BY <1>3, <1>4, <1>5, <1>6, <1>7, <1>8
       DEF Next, Handle, vars, RevokeSessions, InviteCreate, SaveInvite, MarkExpired,
           AcceptSaveInvite, EnterBind, Fail, LeaveWorkspace, InviteLapses, InvitePurged

(* An enter that is about to bind a session has waited, or has just seen   *)
(* its user active.                                                        *)
LEMMA OpeningRequest ==
    ASSUME TypeInv, NEW h \in Handlers, Handle(h), req'[h].pc = "open"
    PROVE  UNCHANGED member /\ IsActive(member[req'[h].user])
  <1>1. req \in [Handlers -> Request] /\ req[h] \in Request
    BY DEF TypeInv, Typed
  <1>2. ASSUME NEW r, Goto(h, r), r.pc # "open" PROVE FALSE
    BY <1>1, <1>2 DEF Goto
  <1>3. ASSUME Respond(h) PROVE FALSE
    BY <1>1, <1>3 DEF Respond, Idle
  <1>4. ASSUME NEW pc \in {"check", "save", "accept", "list"}, Goto(h, [req[h] EXCEPT !.pc = pc])
        PROVE  FALSE
    <2>1. [req[h] EXCEPT !.pc = pc].pc = pc
      BY <1>1 DEF Request
    <2>2. QED
      BY <1>2, <1>4, <2>1
  <1>5. ASSUME NEW doc, Goto(h, [req[h] EXCEPT !.pc = "check", !.doc = doc]) PROVE FALSE
    <2>1. [req[h] EXCEPT !.pc = "check", !.doc = doc].pc = "check"
      BY <1>1 DEF Request
    <2>2. QED
      BY <1>2, <1>5, <2>1
  <1>6. CASE \E a \in Users : Authenticate(h, a)
    <2>1. PICK a, op, u, ro, i : Goto(h, [Idle EXCEPT !.pc = "load", !.op = op, !.actor = a,
                                              !.actorRole = member[a].role, !.user = u,
                                              !.role = ro, !.invite = i])
      BY <1>6 DEF Authenticate
    <2>2. QED
      BY <1>1, <2>1 DEF Goto, Idle
  <1>7. CASE LoadInvite(h)
    <2> DEFINE r(pc) == [req[h] EXCEPT !.pc = pc, !.user = invite[req[h].invite].user]
    <2>1. Respond(h) \/ \E pc \in {"expire", "save"} : Goto(h, r(pc))
      BY <1>7 DEF LoadInvite
    <2>2. \A pc \in {"expire", "save"} : r(pc).pc = pc
      BY <1>1 DEF Request
    <2>3. QED
      BY <1>2, <1>3, <2>1, <2>2
  <1>8. CASE AcceptFind(h)
    BY <1>1, <1>8 DEF AcceptFind, Goto, Idle
  <1>9. CASE ListSessions(h)
    <2>1. \A ids : [req[h] EXCEPT !.pc = "revoke", !.ids = ids].pc = "revoke"
      BY <1>1 DEF Request
    <2>2. QED
      BY <1>2, <1>3, <1>9, <2>1 DEF ListSessions
  <1>10. CASE EnterResolve(h)
    <2>1. PICK u : /\ IsActive(member[u])
                   /\ Goto(h, [Idle EXCEPT !.pc = "open", !.op = "enter", !.user = u])
      BY <1>10 DEF EnterResolve
    <2>2. req'[h].user = u
      BY <1>1, <2>1 DEF Goto, Idle
    <2>3. QED
      BY <1>10, <2>1, <2>2 DEF EnterResolve
  <1>11. CASE LoadTarget(h) \/ CheckTarget(h) \/ SaveTarget(h) \/ InviteCheckMember(h)
              \/ InviteCheckSeat(h)
    BY <1>3, <1>4, <1>5, <1>11
       DEF LoadTarget, CheckTarget, SaveTarget, InviteCheckMember, InviteCheckSeat
  <1>12. CASE AcceptFindMember(h) \/ AcceptCheckSeat(h) \/ AcceptSaveMember(h)
    BY <1>3, <1>4, <1>5, <1>12 DEF AcceptFindMember, AcceptCheckSeat, AcceptSaveMember
  <1>13. QED
    BY <1>3, <1>6, <1>7, <1>8, <1>9, <1>10, <1>11, <1>12
       DEF Handle, RevokeSessions, InviteCreate, SaveInvite, MarkExpired, AcceptSaveInvite,
           EnterBind, Fail

(* What a request does to one session: only an enter makes it live, and    *)
(* nothing a revoked one.                                                  *)
LEMMA SessionsBound ==
    ASSUME TypeInv, NEW h \in Handlers, Handle(h), NEW s \in Sessions
    PROVE  /\ session[s] \in {"live", "revoked"} => session'[s] \in {"live", "revoked"}
           /\ session'[s] = "live" /\ session[s] # "live" =>
                 /\ session[s] # "revoked" /\ At(h, "open") /\ UNCHANGED member
                 /\ SessionUser[s] = req[h].user
  <1>1. CASE EnterBind(h)
    <2>1. PICK t \in Sessions :
             /\ SessionUser[t] = req[h].user
             /\ session' = [session EXCEPT ![t] = IF @ = "revoked" THEN @ ELSE "live"]
      BY <1>1 DEF EnterBind
    <2>2. session'[s] = IF s = t /\ session[s] # "revoked" THEN "live" ELSE session[s]
      BY <2>1 DEF TypeInv, Typed
    <2>3. QED
      BY <1>1, <2>1, <2>2 DEF EnterBind
  <1>2. CASE RevokeSessions(h)
    BY <1>2 DEF RevokeSessions
  <1>3. CASE session' = session
    BY <1>3
  <1>4. QED
    BY <1>1, <1>2, <1>3
       DEF Handle, Authenticate, LoadTarget, CheckTarget, SaveTarget, ListSessions,
           InviteCheckMember, InviteCheckSeat, InviteCreate, LoadInvite, SaveInvite,
           MarkExpired, AcceptFind, AcceptFindMember, AcceptCheckSeat, AcceptSaveMember,
           AcceptSaveInvite, EnterResolve, Fail

(* What the history remembers of a request that revokes sessions.          *)
LEMMA HistoryKept ==
    ASSUME old \in [Handlers -> SUBSET Sessions], NEW k \in Handlers, Records(k),
           NEW h \in Handlers, req'[h].pc = "revoke"
    PROVE  /\ old'[h] = old[h]
           /\ h \in again => h \in again'
           /\ IsActive(member'[req'[h].user]) => h \in again'
           /\ \A s \in Sessions : session'[s] = "live" =>
                 (s \in stray' <=> IF session[s] = "live" THEN s \in stray ELSE k \in stale)
  <1>1. old'[h] = old[h]
    BY DEF Records, RecordsSessions
  <1>2. QED
    BY <1>1 DEF Records, RecordsSessions

LEMMA StepOfRequestOrSession ==
    ASSUME [Next]_vars
    PROVE  \/ \E h \in Handlers : Handle(h) /\ Records(h)
           \/ \E s \in Sessions : LeaveWorkspace(s)
           \/ UNCHANGED <<member, session, req, old, stale, again, stray>>
  BY DEF Next, vars, history, InviteLapses, InvitePurged

LEMMA SessionsListedStep ==
    ASSUME TypeInv, old \in [Handlers -> SUBSET Sessions], SessionsListed, [Next]_vars
    PROVE  SessionsListed'
  <1>1. CASE UNCHANGED <<member, session, req, old, stale, again, stray>>
    BY <1>1 DEF SessionsListed, At
  <1>2. ASSUME NEW t \in Sessions, LeaveWorkspace(t) PROVE SessionsListed'
    <2>1. /\ UNCHANGED <<member, req, stale, again>>
          /\ \A h \in Handlers : old'[h] = old[h] \ {t}
          /\ stray' = stray \ {t}
          /\ session'[t] = "left" /\ \A s \in Sessions \ {t} : session'[s] = session[s]
      BY <1>2 DEF LeaveWorkspace, TypeInv, Typed
    <2>2. QED
      BY <2>1 DEF SessionsListed, At
  <1>3. ASSUME NEW k \in Handlers, Handle(k), Records(k) PROVE SessionsListed'
    <2>1. ASSUME NEW h \in Handlers, NEW s \in old'[h] PROVE session'[s] \in {"live", "revoked"}
      <3>1. s \in old[h] \/ s \in LiveSessionsOf(req[k].user)
        BY <1>3, <2>1 DEF Records, RecordsSessions
      <3>2. s \in Sessions /\ session[s] \in {"live", "revoked"}
        BY <3>1 DEF SessionsListed, LiveSessionsOf
      <3>3. QED
        BY <1>3, <3>2, SessionsBound
    <2>2. ASSUME NEW h \in Handlers, req'[h].pc = "open", h \notin stale'
          PROVE  IsActive(member'[req'[h].user])
      <3>1. CASE h = k
        BY <1>3, <2>2, <3>1, OpeningRequest
      <3>2. CASE h # k
        <4>1. req'[h] = req[h]
          BY <1>3, <3>2, OthersStay DEF TypeInv
        <4>2. /\ h \notin stale /\ IsActive(member[req[h].user])
              /\ member' = member \/ req[h].user # req[k].user
          BY <1>3, <2>2, <4>1 DEF Records, RecordsSessions, SessionsListed, At
        <4>3. req[h].user \in Users
          BY <2>2, <4>1 DEF TypeInv, RequestsWellFormed, WellFormed
        <4>4. member'[req[h].user] = member[req[h].user]
          BY <1>3, <4>2, <4>3, MembersWritten
        <4>5. QED
          BY <4>1, <4>2, <4>4 DEF IsActive
      <3>3. QED
        BY <3>1, <3>2
    <2>3. ASSUME NEW h \in Handlers, req'[h].pc \in {"list", "revoke"}, h \notin again'
          PROVE  ~IsActive(member'[req'[h].user])
      BY <1>3, <2>3 DEF Records, RecordsSessions
    <2>4. ASSUME NEW h \in Handlers, NEW s \in Sessions, req'[h].pc = "revoke",
                 SessionUser[s] = req'[h].user, session'[s] = "live", s \notin req'[h].ids
          PROVE  s \notin old'[h] /\ (h \in again' \/ s \in stray')
      <3>1. CASE req'[h] = req[h] /\ session[s] = "live"
        <4>1. s \notin old[h] /\ (h \in again \/ s \in stray)
          BY <2>4, <3>1 DEF SessionsListed, At
        <4>2. QED
          BY <1>3, <2>4, <3>1, <4>1, HistoryKept
      <3>2. CASE req'[h] = req[h] /\ session[s] # "live"
        <4>1. /\ session[s] # "revoked" /\ At(k, "open") /\ UNCHANGED member
              /\ SessionUser[s] = req[k].user
          BY <1>3, <2>4, <3>2, SessionsBound
        <4>2. s \notin old[h]
          BY <3>2, <4>1 DEF SessionsListed
        <4>3. k \in stale \/ IsActive(member'[req'[h].user])
          BY <2>4, <4>1 DEF SessionsListed
        <4>4. QED
          BY <1>3, <2>4, <3>2, <4>2, <4>3, HistoryKept
      <3>3. CASE ListSessions(h) /\ req'[h].ids = LiveSessionsOf(req[h].user)
                 /\ req'[h].user = req[h].user
        BY <2>4, <3>3 DEF ListSessions, LiveSessionsOf
      <3>4. QED
        BY <2>4, <3>1, <3>2, <3>3, RevokingRequest
    <2>5. QED
      BY <2>1, <2>2, <2>3, <2>4 DEF SessionsListed, At
  <1>4. QED
    BY <1>1, <1>2, <1>3, StepOfRequestOrSession

(* When changing, suspending or removing a member has run to its end, none *)
(* of the sessions that stayed in the workspace since the save is live; if *)
(* the member was not active since, the only live ones were bound after    *)
(* the list by enters that had resolved the membership before: whatever    *)
(* logins, refreshes, switches and other member changes overlap.           *)
THEOREM OldSessionsEnd == Spec => NoOldSessionSurvives
  <1> DEFINE Ends ==
        \A h \in Handlers :
           (ListSessions(h) \/ RevokeSessions(h)) /\ req'[h].pc = "idle"
           => \A s \in Sessions : SessionUser[s] = req[h].user /\ session'[s] = "live"
                  => s \notin old[h] /\ (h \in again \/ s \in stray)
  <1>1. Init => TypeInv /\ SessionsListed
    <2>1. Init => SessionsListed
      BY DEF Init, SessionsListed, Idle, At
    <2>2. QED
      BY <2>1, InitType
  <1>2. TypeOK /\ TypeInv /\ SessionsListed /\ [Next]_vars => TypeInv' /\ SessionsListed'
    BY NextType, SessionsListedStep DEF TypeOK
  <1>3. TypeInv /\ SessionsListed => Ends
    <2> SUFFICES ASSUME TypeInv, SessionsListed, NEW h \in Handlers, req'[h].pc = "idle",
                        NEW s \in Sessions, SessionUser[s] = req[h].user, session'[s] = "live",
                        ListSessions(h) \/ RevokeSessions(h)
                 PROVE  s \notin old[h] /\ (h \in again \/ s \in stray)
      BY Zenon
    <2>1. req[h] \in Request /\ req \in [Handlers -> Request]
      BY DEF TypeInv, Typed
    <2>2. CASE RevokeSessions(h)
      <3>1. At(h, "revoke") /\ session[s] = "live" /\ s \notin req[h].ids
        BY <2>2 DEF RevokeSessions
      <3>2. QED
        BY <3>1 DEF SessionsListed
    <2>3. CASE ListSessions(h)
      <3> DEFINE r == [req[h] EXCEPT !.pc = "revoke", !.ids = LiveSessionsOf(req[h].user)]
      <3>1. r.pc = "revoke"
        BY <2>1 DEF Request
      <3>2. ~ Goto(h, r)
        BY <2>1, <3>1 DEF Goto
      <3>3. LiveSessionsOf(req[h].user) = {} /\ session' = session
        BY <2>3, <3>2 DEF ListSessions
      <3>4. QED
        BY <3>3 DEF LiveSessionsOf
    <2>4. QED
      BY <2>2, <2>3
  <1>4. QED
    BY <1>1, <1>2, <1>3, TypeCorrect, PTL DEF Spec, NoOldSessionSurvives
============================================================================
