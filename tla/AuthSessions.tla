---------------------------- MODULE AuthSessions ----------------------------
(***************************************************************************)
(* The sessions of one user: opened by a login or by verifying the e-mail  *)
(* address, refreshed by rotating tokens, revoked by a logout, a changed   *)
(* or reset password or a token that is used again; and the sockets that   *)
(* are connected with them.  Requests overlap; an action is the code       *)
(* between two awaits.  The sessions of different users do not meet, and   *)
(* those of platform admins follow the same code without the passwords.    *)
(*                                                                         *)
(* Sources: src/src/modules/auth/services/auth.service.js and              *)
(* session.service.js, src/src/infra/realtime/socket-auth.js and           *)
(* socket-management.js.                                                   *)
(***************************************************************************)
EXTENDS Naturals, FiniteSets

CONSTANTS
    Handlers,     \* requests in flight at once
    Sessions,     \* bound on the sessions opened
    MaxToken,     \* bound on the refresh tokens of each session
    MaxPassword,  \* bound on the passwords set
    MaxFaults     \* bound on the awaits that fail and the requests that crash

ASSUME SessionsAssumption == /\ MaxToken \in [Sessions -> Nat]
                             /\ MaxPassword \in Nat \ {0} /\ MaxFaults \in Nat

None == "none"
Passwords == 1 .. MaxPassword   \* numbered in the order they are set
SessionDoc == [state : {"none", "live", "revoked", "expired"}, token : Nat]
NoSession == [state |-> "none", token |-> 0]

VARIABLES
    password, \* the password whose hash the user document holds
    session,  \* the session documents; token is the refresh token whose hash
              \* the document holds
    built,    \* the refresh tokens signed for each session, numbered in that order
    socket,   \* the sessions with a connected socket
    req,      \* the requests in flight
    held,     \* the refresh tokens that clients have been given
    faults,   \* how many faults there have been
    opened,   \* history: the password each session was opened with
    raced,    \* history: the sessions that were being opened while a password
              \* was set
    stray,    \* history: the sockets that no disconnect has reached: they were
              \* being connected, or the session was revoked for a reused token
    crossed   \* history: the sessions whose newest token was signed while another
              \* one was signed but not yet saved

vars == <<password, session, built, socket, req, held, faults, opened, raced, stray, crossed>>
history == <<opened, raced, stray, crossed>>

(* open: a login, or a verification of the e-mail address.                 *)
Ops == {"open", "refresh", "logout", "logout_all", "change", "reset", "connect"}

(* token: the one that was sent in; next: the one signed to replace it;     *)
(* secret: the password as loaded; ids: the sessions listed to be revoked;  *)
(* raced: what the history wants to know of a login or handshake; alone: no *)
(* other request has been in flight at the same time.                       *)
Request == [pc : {"idle", "user", "create", "finish", "validate", "kill", "rotate",
                  "auth", "set", "list", "revoke", "disconnect", "join"},
            op : Ops, session : Sessions \cup {None}, token : Nat, next : Nat,
            secret : 0 .. MaxPassword, ids : SUBSET Sessions, raced : BOOLEAN,
            alone : BOOLEAN]

Idle == [pc |-> "idle", op |-> "open", session |-> None, token |-> 0, next |-> 0,
         secret |-> 0, ids |-> {}, raced |-> FALSE, alone |-> TRUE]

At(h, pc) == req[h].pc = pc
Goto(h, r) == req' = [req EXCEPT ![h] = r]
Respond(h) == Goto(h, Idle)
RespondRacing(h, pc) == req' = [g \in Handlers |->
                                   IF g = h THEN Idle
                                   ELSE [req[g] EXCEPT !.raced = @ \/ At(g, pc)]]
Proceed(h, pc) == Goto(h, [req[h] EXCEPT !.pc = pc])
Busy == {h \in Handlers : ~At(h, "idle")}
Arrive(h, r) == req' = [g \in Handlers |->
                          IF g = h THEN [r EXCEPT !.alone = (Busy = {})]
                          ELSE [req[g] EXCEPT !.alone = @ /\ g \notin Busy]]
Live == {s \in Sessions : session[s].state = "live"}

Init ==
    /\ password = 1
    /\ session = [s \in Sessions |-> NoSession] /\ built = [s \in Sessions |-> 0]
    /\ socket = {} /\ held = {} /\ faults = 0
    /\ req = [h \in Handlers |-> Idle]
    /\ opened = [s \in Sessions |-> 0] /\ raced = {} /\ stray = {} /\ crossed = {}

(* A request arrives: a refresh with any token that was ever given to a    *)
(* client, a logout or handshake with an access token of any session.      *)
(* A verification or reset has had its one-time code accepted.             *)
Begin(h) ==
    /\ At(h, "idle")
    /\ \/ \E op \in {"open", "reset"} :
             Arrive(h, [Idle EXCEPT !.op = op, !.pc = "user"])
       \/ \E t \in held :
             \/ Arrive(h, [Idle EXCEPT !.op = "refresh", !.pc = "validate",
                                       !.session = t[1], !.token = t[2]])
             \/ \E op \in {"logout", "logout_all", "change", "connect"} :
                   Arrive(h, [Idle EXCEPT !.op = op, !.pc = "auth", !.session = t[1]])
    /\ UNCHANGED <<password, session, built, socket, held, faults, history>>

(* login and changePassword find the user and compare the password given;  *)
(* only the current one goes on.  verifyEmailAndLogin and resetPassword    *)
(* need none.                                                              *)
LoadUser(h) ==
    /\ At(h, "user")
    /\ \/ /\ req[h].op = "open"
          /\ Goto(h, [req[h] EXCEPT !.secret = password, !.pc = "create"])
       \/ req[h].op \in {"change", "reset"} /\ Proceed(h, "set")
    /\ UNCHANGED <<password, session, built, socket, held, faults, history>>

(* createSessionWithTokens signs the first token and creates the session.  *)
CreateSession(h) ==
    /\ At(h, "create")
    /\ \E s \in Sessions :
         /\ session[s].state = "none"
         /\ session' = [session EXCEPT ![s] = [state |-> "live", token |-> 1]]
         /\ built' = [built EXCEPT ![s] = 1]
         /\ opened' = [opened EXCEPT ![s] = req[h].secret]
         /\ raced' = IF req[h].raced THEN raced \cup {s} ELSE raced
         /\ Goto(h, [req[h] EXCEPT !.session = s, !.pc = "finish"])
    /\ UNCHANGED <<password, socket, held, faults, stray, crossed>>

(* user.save() writes lastLoginAt and lastWorkspaceId; the tokens are      *)
(* handed out.                                                             *)
FinishLogin(h) ==
    /\ At(h, "finish")
    /\ held' = held \cup {<<req[h].session, 1>>}
    /\ Respond(h)
    /\ UNCHANGED <<password, session, built, socket, faults, history>>

(* validateRefreshSession: a token that is not the current one of a live   *)
(* session revokes it.                                                     *)
ValidateRefresh(h) ==
    LET r == req[h]
    IN  /\ At(h, "validate")
        /\ \/ r.session \notin Live /\ Respond(h)
           \/ r.session \in Live /\ r.token = session[r.session].token /\ Proceed(h, "user")
           \/ r.session \in Live /\ r.token # session[r.session].token /\ Proceed(h, "kill")
        /\ UNCHANGED <<password, session, built, socket, held, faults, history>>

RevokeReused(h) ==
    /\ At(h, "kill")   \* no socket is disconnected
    /\ session' = [session EXCEPT ![req[h].session].state = "revoked"]
    /\ stray' = stray \cup ({req[h].session} \cap socket)
    /\ RespondRacing(h, "join")
    /\ UNCHANGED <<password, built, socket, held, faults, opened, raced, crossed>>

(* A refresh loads the user and the membership, and rotateSessionTokens    *)
(* signs the next token: from here on it is in the request only.           *)
BuildTokens(h) ==
    LET s == req[h].session
        n == built[s] + 1
        waiting == \E g \in Handlers : At(g, "rotate") /\ req[g].session = s
    IN  /\ At(h, "user") /\ req[h].op = "refresh" /\ n =< MaxToken[s]
        /\ built' = [built EXCEPT ![s] = n]
        /\ Goto(h, [req[h] EXCEPT !.next = n, !.pc = "rotate"])
        /\ crossed' = IF waiting THEN crossed \cup {s} ELSE crossed \ {s}
        /\ UNCHANGED <<password, session, socket, held, faults, opened, raced, stray>>

(* Mutants: the new hash is not saved, or the session is saved as loaded.  *)
RotateTokens_NotSaved(h) ==
    /\ At(h, "rotate")
    /\ held' = held \cup {<<req[h].session, req[h].next>>}
    /\ Respond(h)
    /\ UNCHANGED <<password, session, built, socket, faults, history>>

RotateTokens_WholeDocument(h) ==
    LET s == req[h].session
    IN  /\ At(h, "rotate")
        /\ session' = [session EXCEPT ![s] = [state |-> "live", token |-> req[h].next]]
        /\ held' = held \cup {<<s, req[h].next>>}
        /\ Respond(h)
        /\ UNCHANGED <<password, built, socket, faults, history>>

(* Its save writes the hash and the expiry of the token it has signed (not *)
(* revokedAt) over those of whichever was saved last, and the tokens are   *)
(* handed out, also when the session has been revoked since; the answer    *)
(* may be lost.                                                            *)
RotateTokens(h) ==
    LET s == req[h].session
    IN  /\ At(h, "rotate")
        /\ session' = [session EXCEPT ![s].token = req[h].next]
        /\ \/ held' = held \cup {<<s, req[h].next>>} /\ UNCHANGED faults
           \/ faults < MaxFaults /\ faults' = faults + 1 /\ UNCHANGED held
        /\ Respond(h)
        /\ UNCHANGED <<password, built, socket, history>>

(* requireAuth, and for a socket's handshake authenticateRealtimeSocket:   *)
(* the session must be live.                                               *)
Authenticate(h) ==
    /\ At(h, "auth")
    /\ IF req[h].session \in Live
       THEN Proceed(h, CASE req[h].op = "connect" -> "join"
                         [] req[h].op = "change" -> "user"
                         [] OTHER -> "list")
       ELSE Respond(h)
    /\ UNCHANGED <<password, session, built, socket, held, faults, history>>

(* user.save() writes the new password hash.                               *)
SetPassword(h) ==
    /\ At(h, "set") /\ password < MaxPassword
    /\ password' = password + 1
    /\ req' = [g \in Handlers |->
                 IF g = h THEN [req[h] EXCEPT !.pc = "list", !.op = "logout_all"]
                 ELSE [req[g] EXCEPT !.raced = @ \/ At(g, "create")]]
    /\ UNCHANGED <<session, built, socket, held, faults, history>>

(* Mutant: only the session of the request is listed.                      *)
ListSessions_Own(h) ==
    /\ At(h, "list")
    /\ Goto(h, [req[h] EXCEPT !.ids = {req[h].session} \cap Live, !.pc = "revoke"])
    /\ UNCHANGED <<password, session, built, socket, held, faults, history>>

(* listActiveSessionIds: one session, or all that are not revoked.         *)
ListSessions(h) ==
    LET all == {s \in Sessions : session[s].state \in {"live", "expired"}}
        mine == IF req[h].op = "logout" THEN {req[h].session} ELSE Sessions
    IN  /\ At(h, "list")
        /\ Goto(h, [req[h] EXCEPT !.ids = all \cap mine, !.pc = "revoke"])
        /\ UNCHANGED <<password, session, built, socket, held, faults, history>>

(* revokeSessionById, revokeAllUserSessions: one updateMany.               *)
RevokeSessions(h) ==
    LET ids == req[h].ids
    IN  /\ At(h, "revoke")
        /\ session' = [s \in Sessions |->
                         IF s \in ids THEN [session[s] EXCEPT !.state = "revoked"]
                         ELSE session[s]]
        /\ Proceed(h, "disconnect")
        /\ UNCHANGED <<password, built, socket, held, faults, history>>

(* disconnectRealtimeSessionSocketsBatch, by the rooms of the sessions.    *)
DisconnectSockets(h) ==
    LET ids == req[h].ids
    IN  /\ At(h, "disconnect")
        /\ socket' = socket \ ids /\ stray' = stray \ ids
        /\ RespondRacing(h, "join")
        /\ UNCHANGED <<password, session, built, held, faults, opened, raced, crossed>>

(* The connection event: the socket joins the rooms of user and session.   *)
JoinRooms(h) ==
    LET s == req[h].session
    IN  /\ At(h, "join")
        /\ socket' = socket \cup {s}
        /\ stray' = IF req[h].raced THEN stray \cup {s} ELSE stray
        /\ Respond(h)
        /\ UNCHANGED <<password, session, built, held, faults, opened, raced, crossed>>

(* A socket is disconnected when it asks for something and bindAckHandler, *)
(* which reads the session again, finds it not live; or by the client.     *)
SocketLeaves(s) ==
    /\ s \in socket
    /\ socket' = socket \ {s} /\ stray' = stray \ {s}
    /\ UNCHANGED <<password, session, built, req, held, faults, opened, raced, crossed>>

(* A session that is not refreshed in time expires: in days, so not while  *)
(* a request is in flight.                                                 *)
Expire(s) ==
    /\ s \in Live /\ Busy = {}
    /\ session' = [session EXCEPT ![s].state = "expired"]
    /\ UNCHANGED <<password, built, socket, req, held, faults, history>>

(* An await fails, or the process stops.                                   *)
Fail(h) ==
    /\ ~At(h, "idle") /\ faults < MaxFaults /\ faults' = faults + 1
    /\ Respond(h)
    /\ UNCHANGED <<password, session, built, socket, held, history>>

Handle(h) ==
    \/ Begin(h) \/ LoadUser(h) \/ CreateSession(h) \/ FinishLogin(h)
    \/ ValidateRefresh(h) \/ RevokeReused(h) \/ BuildTokens(h) \/ RotateTokens(h)
    \/ Authenticate(h) \/ SetPassword(h) \/ ListSessions(h) \/ RevokeSessions(h)
    \/ DisconnectSockets(h) \/ JoinRooms(h) \/ Fail(h)

Next == \/ \E h \in Handlers : Handle(h)
        \/ \E s \in Sessions : SocketLeaves(s) \/ Expire(s)

Spec == Init /\ [][Next]_vars

----------------------------------------------------------------------------
(* Properties *)

(* Every variable has its type; a request beyond its first checks works on *)
(* a session that exists, and only tokens of such sessions are held.       *)
TypeOK ==
    /\ password \in Passwords
    /\ session \in [Sessions -> SessionDoc]
    /\ socket \subseteq Sessions
    /\ req \in [Handlers -> Request]
    /\ held \subseteq Sessions \X Nat
    /\ faults \in 0 .. MaxFaults
    /\ opened \in [Sessions -> 0 .. MaxPassword]
    /\ built \in [Sessions -> Nat]
    /\ raced \subseteq Sessions /\ stray \subseteq socket /\ crossed \subseteq Sessions
    /\ \A t \in held : session[t[1]].state # "none"
    /\ \A h \in Handlers :
          req[h].pc \in {"finish", "kill", "rotate", "join"} =>
              req[h].session \in Sessions /\ session[req[h].session].state # "none"

Calm == faults = 0 /\ Busy = {}

(* However a refresh overlaps what revokes its session, and however late   *)
(* its save lands, a revoked session is never live again.                  *)
RevokedForGood ==
    [][\A s \in Sessions :
         session[s].state = "revoked" => session'[s].state = "revoked"]_vars

(* When no request is under way, the live sessions were opened with   *)
(* the current one; except by a login that had compared the old password   *)
(* before and opened its session after (it is not listed).                 *)
PasswordEndsSessions ==
    Calm => \A s \in Live : opened[s] = password \/ s \in raced

(* The sockets of a revoked session are disconnected, unless they were     *)
(* just being connected, or the session was revoked for a reused token.    *)
SocketsEndWithSession ==
    Calm => \A s \in socket \ stray : session[s].state # "revoked"

(* Whatever refreshes of a session overlap and in whatever order they      *)
(* save, some client has the token the session accepts; and it is the      *)
(* newest, unless two tokens were waiting for their saves at once and no   *)
(* refresh has come alone since: then the older token may be the one, and  *)
(* the client that goes on with the newer ends the session.                *)
NewestTokenWorks ==
    Calm => \A s \in Live :
        /\ <<s, session[s].token>> \in held
        /\ s \notin crossed => \A t \in held : t[1] = s => t[2] =< session[s].token

(* A refresh that runs alone buys a new token only with the current one,   *)
(* so a token is used once.  (Two at once both buy one; the client with    *)
(* the older of the two ends the session when it uses it.)                 *)
TokenUsedOnce ==
    [][\A h \in Handlers :
         At(h, "rotate") /\ req[h].alone /\ req'[h].pc = "idle" /\ session' # session
         => req[h].token = session[req[h].session].token]_vars

(* A login that has loaded the user before a change of the password does   *)
(* not bring the old password back when it saves the user.                 *)
PasswordNeverReverts == [][password' >= password]_vars

(* What the runs check of these: what ends the sessions of a user leaves   *)
(* none of them live, and no socket of a session that has ended; and what  *)
(* has been revoked or replaced does not come back.                        *)
SessionsEnd == TypeOK /\ PasswordEndsSessions /\ SocketsEndWithSession
RevokedStays == RevokedForGood /\ TokenUsedOnce /\ PasswordNeverReverts
============================================================================
