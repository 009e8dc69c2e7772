---------------------- MODULE MCWorkspaceMembership ----------------------
(***************************************************************************)
(* A small workspace of WorkspaceMembership for TLC; part says what is     *)
(* asked for.  Two requests overlap on the seats, on members or roles, and *)
(* the two sessions of a member: while one is revoked, the other that had  *)
(* left may come back; or requests come one at a time, use every operation *)
(* but the sessions, and any of their queries may fail.  o1 is the         *)
(* founding owner, a1 is on the staff, the n's join by invite.             *)
(***************************************************************************)
EXTENDS WorkspaceMembership, TLC

CONSTANTS o1, a1, n1, n2, s1, s2, i1, i2, h1, h2

VARIABLE part

membershipVars == <<part, vars>>

MCStaffRole == [u \in Staff |-> "agent"]
MCSessionUser == [s \in Sessions |-> a1]

InvitesOfMembers == INSTANCE WorkspaceMembership WITH
    Operations <- {"suspend", "invite", "accept"}, Roles <- {"owner", "agent"}, CanFail <- FALSE
SessionsOfMembers == INSTANCE WorkspaceMembership WITH
    Operations <- {"suspend", "activate", "remove", "enter"}, Roles <- {"owner", "agent"},
    CanFail <- FALSE
RolesOfMembers == INSTANCE WorkspaceMembership WITH
    Operations <- {"role", "suspend", "enter"}, Roles <- {"owner", "agent"}, CanFail <- FALSE
SeatsOfMembers == INSTANCE WorkspaceMembership WITH
    Operations <- {"suspend", "activate", "invite"}, Roles <- {"owner", "agent"},
    CanFail <- FALSE
Lone == INSTANCE WorkspaceMembership WITH
    StaffRole <- [u \in Staff |-> "admin"],
    Operations <- {"role", "suspend", "activate", "remove", "invite", "resend", "revoke", "accept"}

MembershipInit ==
    \/ part \in {"invites", "activations", "sessions", "roles"} /\ Init /\ overlap
    \/ part = "lone" /\ Lone!Init /\ ~overlap

(* Those that come one at a time make one invite, of an agent.             *)
LoneNext ==
    /\ \/ \E h \in Handlers : /\ \A g \in Handlers \ {h} : At(g, "idle")
                               /\ Lone!Handle(h) /\ Lone!Records(h)
       \/ \E i \in Invites : (InviteLapses(i) \/ InvitePurged(i)) /\ UNCHANGED history
    /\ \E i \in Invites : invite'[i] = NoInvite
    /\ \A i \in Invites : invite'[i].role = "agent"

MembershipNext ==
    /\ UNCHANGED part
    /\ \/ part = "invites" /\ InvitesOfMembers!Next
       \/ part = "activations" /\ SeatsOfMembers!Next
       \/ part = "sessions" /\ SessionsOfMembers!Next
       \/ part = "roles" /\ RolesOfMembers!Next
       \/ part = "lone" /\ LoneNext

MembershipSpec == MembershipInit /\ [][MembershipNext]_membershipVars

JoinerSymmetry == Permutations({n1, n2}) \cup Permutations(Invites) \cup Permutations(Handlers)
                  \cup Permutations(Sessions)
============================================================================
