------------------------ MODULE AuthSessions_proofs ------------------------
(***************************************************************************)
(* Theorems about AuthSessions, for any number of requests, sessions and   *)
(* tokens.  What holds between requests is proved from what the requests   *)
(* still under way are about to do; each invariant below says which of     *)
(* them a state that is not yet as it should be still waits for.           *)
(***************************************************************************)
EXTENDS Accounts, WellFoundedInduction, FiniteSetTheorems, TLAPS

Refreshing(r) == r.pc = "rotate" \/ (r.pc = "user" /\ r.op = "refresh")
OnSession(r) == Refreshing(r) \/ r.pc \in {"finish", "validate", "kill", "auth", "join"}
Started(s) == s \in Sessions /\ session[s].state # "none"

(* A request that came with a token, or has opened a session, works on a   *)
(* session that exists, and so does one that has listed sessions.          *)
HasSessions(r) == /\ OnSession(r) => Started(r.session)
                  /\ \A s \in r.ids : Started(s)

WorksOnSession == \A h \in Handlers : HasSessions(req[h])

TypeInv == TypeOK /\ WorksOnSession

----------------------------------------------------------------------------
(* How a step moves the requests. *)

(* One request goes on with r; of the others a step only notes that they   *)
(* race, or that they are no longer alone.                                 *)
MovesTo(h, r) ==
    /\ req' \in [Handlers -> Request]
    /\ req'[h] = r
    /\ \A g \in Handlers \ {h} :
          \E raced_, alone_ \in BOOLEAN :
             /\ req'[g] = [req[g] EXCEPT !.raced = raced_, !.alone = alone_]
             /\ req[g].raced => raced_
             /\ alone_ => req[g].alone

LEMMA OthersGoOn ==
    ASSUME req \in [Handlers -> Request], NEW h \in Handlers, NEW r, MovesTo(h, r),
           NEW g \in Handlers \ {h}
    PROVE  /\ req'[g].pc = req[g].pc /\ req'[g].op = req[g].op
           /\ req'[g].session = req[g].session /\ req'[g].token = req[g].token
           /\ req'[g].secret = req[g].secret /\ req'[g].ids = req[g].ids
           /\ req'[g].next = req[g].next
           /\ req[g].raced => req'[g].raced
           /\ req'[g].alone => req[g].alone
  <1>1. PICK raced_, alone_ \in BOOLEAN :
           /\ req'[g] = [req[g] EXCEPT !.raced = raced_, !.alone = alone_]
           /\ req[g].raced => raced_
           /\ alone_ => req[g].alone
    BY DEF MovesTo
  <1>2. req[g] \in Request
    OBVIOUS
  <1>. QED
    BY <1>1, <1>2 DEF Request

LEMMA IdleType == Idle \in Request
  BY SessionsAssumption DEF Idle, Request, Ops

LEMMA GotoMoves ==
    ASSUME req \in [Handlers -> Request], NEW h \in Handlers, NEW r \in Request, Goto(h, r)
    PROVE  MovesTo(h, r)
  <1>1. req' \in [Handlers -> Request] /\ req'[h] = r
    BY DEF Goto
  <1>2. ASSUME NEW g \in Handlers \ {h}
        PROVE  req'[g] = [req[g] EXCEPT !.raced = req[g].raced, !.alone = req[g].alone]
               /\ req[g].raced \in BOOLEAN /\ req[g].alone \in BOOLEAN
    BY DEF Goto, Request
  <1>. QED
    BY <1>1, <1>2 DEF MovesTo

LEMMA RespondMoves ==
    ASSUME req \in [Handlers -> Request], NEW h \in Handlers, Respond(h)
    PROVE  MovesTo(h, Idle)
  BY IdleType, GotoMoves DEF Respond

LEMMA ProceedMoves ==
    ASSUME req \in [Handlers -> Request], NEW h \in Handlers, NEW pc, Proceed(h, pc),
           [req[h] EXCEPT !.pc = pc] \in Request
    PROVE  MovesTo(h, [req[h] EXCEPT !.pc = pc])
  BY GotoMoves DEF Proceed

LEMMA RacingMoves ==
    ASSUME req \in [Handlers -> Request], NEW h \in Handlers, NEW pc,
           NEW r \in Request,
           req' = [g \in Handlers |-> IF g = h THEN r ELSE [req[g] EXCEPT !.raced = @ \/ At(g, pc)]]
    PROVE  MovesTo(h, r)
  <1>1. ASSUME NEW g \in Handlers \ {h}
        PROVE  /\ req'[g] = [req[g] EXCEPT !.raced = req[g].raced \/ At(g, pc),
                                           !.alone = req[g].alone]
               /\ (req[g].raced \/ At(g, pc)) \in BOOLEAN /\ req[g].alone \in BOOLEAN
               /\ req'[g] \in Request
    BY DEF Request
  <1>2. req' \in [Handlers -> Request] /\ req'[h] = r
    BY <1>1
  <1>. QED
    BY <1>1, <1>2 DEF MovesTo

LEMMA ArriveMoves ==
    ASSUME req \in [Handlers -> Request], NEW h \in Handlers, NEW r \in Request, Arrive(h, r)
    PROVE  MovesTo(h, [r EXCEPT !.alone = (Busy = {})])
  <1>1. ASSUME NEW g \in Handlers \ {h}
        PROVE  /\ req'[g] = [req[g] EXCEPT !.raced = req[g].raced,
                                           !.alone = req[g].alone /\ g \notin Busy]
               /\ req[g].raced \in BOOLEAN /\ (req[g].alone /\ g \notin Busy) \in BOOLEAN
               /\ req'[g] \in Request
    BY DEF Arrive, Request
  <1>2. [r EXCEPT !.alone = (Busy = {})] \in Request
    BY DEF Request
  <1>3. req' \in [Handlers -> Request] /\ req'[h] = [r EXCEPT !.alone = (Busy = {})]
    BY <1>1, <1>2 DEF Arrive
  <1>. QED
    BY <1>1, <1>3 DEF MovesTo

----------------------------------------------------------------------------
(* Types *)

LEMMA InitType == Init => TypeInv
  <1>. SUFFICES ASSUME Init PROVE TypeInv
    OBVIOUS
  <1>1. req \in [Handlers -> Request]
    BY IdleType DEF Init
  <1>2. session \in [Sessions -> SessionDoc] /\ built \in [Sessions -> Nat]
    BY DEF Init, SessionDoc, NoSession
  <1>3. password \in Passwords /\ opened \in [Sessions -> 0 .. MaxPassword]
        /\ faults \in 0 .. MaxFaults
    BY SessionsAssumption DEF Init, Passwords
  <1>. QED
    BY <1>1, <1>2, <1>3
       DEF Init, TypeInv, TypeOK, WorksOnSession, HasSessions, OnSession, Refreshing, At, Idle

(* A session that exists goes on existing.                                 *)
SessionsGoOn ==
    /\ session' \in [Sessions -> SessionDoc]
    /\ \A s \in Sessions : session[s].state # "none" => session'[s].state # "none"

LEMMA SessionsStay ==
    ASSUME TypeInv, session' = session
    PROVE  SessionsGoOn
  BY DEF TypeInv, TypeOK, SessionsGoOn

LEMMA TypeKept ==
    ASSUME TypeInv, SessionsGoOn, password' \in Passwords, faults' \in 0 .. MaxFaults,
           socket' \subseteq Sessions, opened' \in [Sessions -> 0 .. MaxPassword],
           raced' \subseteq Sessions, stray' \subseteq socket',
           built' \in [Sessions -> Nat], crossed' \subseteq Sessions,
           NEW h \in Handlers, NEW r \in Request, MovesTo(h, r),
           OnSession(r) => r.session \in Sessions /\ session'[r.session].state # "none",
           \A s \in r.ids : session'[s].state # "none",
           \/ held' = held
           \/ \E t \in Sessions \X Nat : /\ held' = held \cup {t}
                                         /\ session'[t[1]].state # "none"
    PROVE  TypeInv'
  <1>1. /\ req' \in [Handlers -> Request]
        /\ \A g \in Handlers \ {h} : /\ req'[g].pc = req[g].pc
                                     /\ req'[g].op = req[g].op
                                     /\ req'[g].session = req[g].session
                                     /\ req'[g].ids = req[g].ids
    BY OthersGoOn DEF MovesTo, TypeInv, TypeOK
  <1>2. \A g \in Handlers :
           /\ OnSession(req'[g]) => /\ req'[g].session \in Sessions
                                    /\ session'[req'[g].session].state # "none"
           /\ \A s \in req'[g].ids : s \in Sessions /\ session'[s].state # "none"
    <2>1. ASSUME NEW g \in Handlers \ {h}
          PROVE  /\ OnSession(req'[g]) => Started(req[g].session)
                 /\ req'[g].ids = req[g].ids /\ \A s \in req[g].ids : Started(s)
      BY <1>1 DEF TypeInv, WorksOnSession, HasSessions, OnSession, Refreshing
    <2>2. r.ids \subseteq Sessions
      BY DEF Request
    <2>. QED
      BY <1>1, <2>1, <2>2 DEF MovesTo, Started, SessionsGoOn
  <1>3. /\ held' \subseteq Sessions \X Nat
        /\ \A t \in held' : session'[t[1]].state # "none"
    <2>1. ASSUME NEW t \in held
          PROVE  t \in Sessions \X Nat /\ session'[t[1]].state # "none"
      BY DEF TypeInv, TypeOK, SessionsGoOn
    <2>. QED
      BY <2>1
  <1>4. \A g \in Handlers : req'[g].pc \in {"finish", "kill", "rotate", "join"} =>
           OnSession(req'[g])
    BY DEF OnSession, Refreshing
  <1>. QED
    BY <1>1, <1>2, <1>3, <1>4
       DEF TypeInv, TypeOK, WorksOnSession, HasSessions, Started, SessionsGoOn

(* A step that changes no document.                                        *)
LEMMA TypeMoves ==
    ASSUME TypeInv, NEW h \in Handlers, NEW r \in Request, MovesTo(h, r),
           HasSessions(r), faults' \in 0 .. MaxFaults,
           UNCHANGED <<password, session, built, socket, held, opened, raced, stray, crossed>>
    PROVE  TypeInv'
  BY SessionsStay, TypeKept DEF TypeInv, TypeOK, HasSessions, Started

LEMMA IdleWorks == HasSessions(Idle) /\ ~OnSession(Idle) /\ Idle.ids = {}
  BY DEF Idle, HasSessions, OnSession, Refreshing

(* The requests that arrive.                                               *)
Arriving(r) == /\ HasSessions(r) /\ ~r.raced
               /\ r.pc \in {"user", "validate", "auth"}
               /\ (r.pc = "user" => r.op # "refresh")

LEMMA BeginMoves ==
    ASSUME TypeInv, NEW h \in Handlers, Begin(h)
    PROVE  \E r \in Request : Arriving(r) /\ Arrive(h, r)
  <1>1. CASE \E op \in {"open", "reset"} :
                Arrive(h, [Idle EXCEPT !.op = op, !.pc = "user"])
    <2>1. PICK op \in {"open", "reset"} : Arrive(h, [Idle EXCEPT !.op = op, !.pc = "user"])
      BY <1>1
    <2>. DEFINE r == [Idle EXCEPT !.op = op, !.pc = "user"]
    <2>2. r \in Request
      BY IdleType DEF Request, Ops
    <2>3. Arriving(r)
      BY DEF Arriving, Idle, HasSessions, OnSession, Refreshing
    <2>. QED
      BY <2>1, <2>2, <2>3
  <1>2. ASSUME NEW t \in held,
               Arrive(h, [Idle EXCEPT !.op = "refresh", !.pc = "validate",
                                      !.session = t[1], !.token = t[2]])
        PROVE  \E r \in Request : Arriving(r) /\ Arrive(h, r)
    <2>. DEFINE r == [Idle EXCEPT !.op = "refresh", !.pc = "validate",
                                 !.session = t[1], !.token = t[2]]
    <2>1. Started(t[1]) /\ t[2] \in Nat
      BY DEF Started, TypeInv, TypeOK
    <2>2. r \in Request
      BY <2>1, IdleType DEF Request, Ops, Started
    <2>3. Arriving(r)
      BY <2>1 DEF Arriving, Idle, HasSessions
    <2>. QED
      BY <1>2, <2>2, <2>3
  <1>3. ASSUME NEW t \in held, NEW op \in {"logout", "logout_all", "change", "connect"},
               Arrive(h, [Idle EXCEPT !.op = op, !.pc = "auth", !.session = t[1]])
        PROVE  \E r \in Request : Arriving(r) /\ Arrive(h, r)
    <2>. DEFINE r == [Idle EXCEPT !.op = op, !.pc = "auth", !.session = t[1]]
    <2>1. Started(t[1])
      BY DEF Started, TypeInv, TypeOK
    <2>2. r \in Request
      BY <2>1, IdleType DEF Request, Ops, Started
    <2>3. Arriving(r)
      BY <2>1 DEF Arriving, Idle, HasSessions
    <2>. QED
      BY <1>3, <2>2, <2>3
  <1>. QED
    BY <1>1, <1>2, <1>3 DEF Begin

LEMMA TypeStep == TypeInv /\ [Next]_vars => TypeInv'
  <1>. SUFFICES ASSUME TypeInv, [Next]_vars PROVE TypeInv'
    OBVIOUS
  <1>. DEFINE Docs ==
         UNCHANGED <<password, session, built, socket, held, opened, raced, stray, crossed>>
  <1>0. /\ req \in [Handlers -> Request]
        /\ faults \in 0 .. MaxFaults
        /\ faults < MaxFaults => faults + 1 \in 0 .. MaxFaults
    BY SessionsAssumption DEF TypeInv, TypeOK
  <1>1. CASE UNCHANGED vars
    BY <1>1 DEF vars, history, TypeInv, TypeOK, WorksOnSession, HasSessions,
               OnSession, Refreshing, Started
  <1>2. ASSUME NEW h \in Handlers, Begin(h) PROVE TypeInv'
    <2>1. PICK r \in Request : Arrive(h, r) /\ HasSessions(r)
      BY <1>2, BeginMoves DEF Arriving
    <2>. DEFINE r1 == [r EXCEPT !.alone = (Busy = {})]
    <2>2. MovesTo(h, r1) /\ r1 \in Request
      BY <1>0, <2>1, ArriveMoves DEF Request
    <2>3. HasSessions(r1)
      BY <2>1 DEF Request, HasSessions, OnSession, Refreshing
    <2>. QED
      BY <1>0, <1>2, <2>2, <2>3, TypeMoves DEF Begin, history
  <1>3. ASSUME NEW h \in Handlers, NEW r \in Request, Goto(h, r),
               HasSessions(r), faults' \in 0 .. MaxFaults, Docs
        PROVE  TypeInv'
    BY <1>0, <1>3, GotoMoves, TypeMoves
  <1>4. ASSUME NEW h \in Handlers, NEW pc, Proceed(h, pc), [req[h] EXCEPT !.pc = pc] \in Request,
               HasSessions([req[h] EXCEPT !.pc = pc]),
               faults' = faults, Docs
        PROVE  TypeInv'
    BY <1>0, <1>3, <1>4 DEF Proceed, Request
  <1>5. ASSUME NEW h \in Handlers, Respond(h), faults' \in 0 .. MaxFaults, Docs
        PROVE  TypeInv'
    BY <1>3, <1>5, IdleType, IdleWorks DEF Respond
  <1>6. ASSUME NEW h \in Handlers, LoadUser(h) PROVE TypeInv'
    <2>1. req[h] \in Request /\ HasSessions(req[h])
      BY DEF TypeInv, TypeOK, WorksOnSession
    <2>2. CASE Goto(h, [req[h] EXCEPT !.secret = password, !.pc = "create"])
      <3>. DEFINE r == [req[h] EXCEPT !.secret = password, !.pc = "create"]
      <3>1. password \in 0 .. MaxPassword
        BY SessionsAssumption DEF TypeInv, TypeOK, Passwords
      <3>2. r \in Request /\ HasSessions(r)
        BY <2>1, <3>1 DEF Request, HasSessions, OnSession, Refreshing
      <3>. QED
        BY <1>0, <1>3, <1>6, <2>2, <3>2 DEF LoadUser, history
    <2>3. CASE Proceed(h, "set")
      BY <1>0, <1>4, <1>6, <2>1, <2>3 DEF LoadUser, history, Request, HasSessions, OnSession,
                                          Refreshing
    <2>. QED
      BY <1>6, <2>2, <2>3 DEF LoadUser
  <1>7. ASSUME NEW h \in Handlers, CreateSession(h) PROVE TypeInv'
    <2>1. PICK s \in Sessions :
             /\ session[s].state = "none"
             /\ session' = [session EXCEPT ![s] = [state |-> "live", token |-> 1]]
             /\ opened' = [opened EXCEPT ![s] = req[h].secret]
             /\ raced' = IF req[h].raced THEN raced \cup {s} ELSE raced
             /\ built' = [built EXCEPT ![s] = 1]
             /\ Goto(h, [req[h] EXCEPT !.session = s, !.pc = "finish"])
      BY <1>7 DEF CreateSession
    <2>. DEFINE r == [req[h] EXCEPT !.session = s, !.pc = "finish"]
    <2>2. /\ r \in Request /\ r.session = s /\ req[h].secret \in 0 .. MaxPassword
          /\ r.ids = req[h].ids /\ r.ids \subseteq Sessions
      BY ZenonT(40) DEF TypeInv, TypeOK, Request
    <2>3. SessionsGoOn /\ session'[s].state # "none"
      BY <2>1 DEF SessionsGoOn, SessionDoc, TypeInv, TypeOK, WorksOnSession
    <2>4. MovesTo(h, r)
      BY <1>0, <2>1, <2>2, GotoMoves
    <2>5. \A i \in r.ids : session'[i].state # "none"
      BY <2>2, <2>3 DEF SessionsGoOn, TypeInv, WorksOnSession, HasSessions, Started
    <2>. HIDE DEF r
    <2>. QED
      BY <1>7, <2>1, <2>2, <2>3, <2>4, <2>5, TypeKept DEF CreateSession, TypeInv, TypeOK
  <1>8. ASSUME NEW h \in Handlers, FinishLogin(h) PROVE TypeInv'
    <2>1. Started(req[h].session)
      BY <1>8 DEF FinishLogin, At, TypeInv, WorksOnSession, HasSessions, OnSession
    <2>2. SessionsGoOn
      BY <1>8, SessionsStay DEF FinishLogin
    <2>3. MovesTo(h, Idle)
      BY <1>0, <1>8, RespondMoves DEF FinishLogin
    <2>4. /\ <<req[h].session, 1>> \in Sessions \X Nat
          /\ session'[req[h].session].state # "none"
      BY <1>8, <2>1 DEF FinishLogin, Started, TypeInv, WorksOnSession
    <2>. QED
      BY <1>8, <2>2, <2>3, <2>4, IdleType, IdleWorks, TypeKept
         DEF FinishLogin, TypeInv, TypeOK, history
  <1>9. ASSUME NEW h \in Handlers, ValidateRefresh(h) PROVE TypeInv'
    <2>1. req[h] \in Request /\ HasSessions(req[h])
      BY DEF TypeInv, TypeOK, WorksOnSession
    <2>. QED
      BY <1>0, <1>4, <1>5, <1>9, <2>1
         DEF ValidateRefresh, history, Request, At, HasSessions, OnSession, Refreshing
  <1>10. ASSUME NEW h \in Handlers, RevokeReused(h) PROVE TypeInv'
    <2>1. Started(req[h].session)
      BY <1>10 DEF RevokeReused, At, TypeInv, WorksOnSession, HasSessions, OnSession
    <2>2. SessionsGoOn
      BY <1>10, <2>1 DEF RevokeReused, SessionsGoOn, SessionDoc, TypeInv, TypeOK, WorksOnSession,
                         Started
    <2>3. MovesTo(h, Idle)
      BY <1>0, <1>10, IdleType, RacingMoves DEF RevokeReused, RespondRacing
    <2>. QED
      BY <1>10, <2>2, <2>3, IdleType, IdleWorks, TypeKept DEF RevokeReused, TypeInv, TypeOK
  <1>11. ASSUME NEW h \in Handlers, RotateTokens(h) PROVE TypeInv'
    <2>. DEFINE s == req[h].session
    <2>1. Started(s)
      BY <1>11 DEF RotateTokens, At, TypeInv, WorksOnSession, HasSessions, OnSession, Refreshing
    <2>0. req[h].next \in Nat
      BY DEF TypeInv, TypeOK, Request
    <2>2. SessionsGoOn /\ session'[s].state # "none"
      BY <1>11, <2>0, <2>1 DEF RotateTokens, SessionsGoOn, SessionDoc, TypeInv, TypeOK, Started
    <2>3. MovesTo(h, Idle)
      BY <1>0, <1>11, RespondMoves DEF RotateTokens
    <2>4. faults' \in 0 .. MaxFaults
      BY <1>0, <1>11 DEF RotateTokens
    <2>5. \/ held' = held
          \/ /\ held' = held \cup {<<s, req[h].next>>}
             /\ <<s, req[h].next>> \in Sessions \X Nat
      BY <1>11, <2>0, <2>1 DEF RotateTokens, Started
    <2>. HIDE DEF s
    <2>6. \/ held' = held
          \/ \E t \in Sessions \X Nat : /\ held' = held \cup {t}
                                        /\ session'[t[1]].state # "none"
      BY <2>2, <2>5
    <2>. QED
      BY <1>11, <2>2, <2>3, <2>4, <2>6, IdleType, IdleWorks, TypeKept
         DEF RotateTokens, TypeInv, TypeOK, history
  <1>21. ASSUME NEW h \in Handlers, BuildTokens(h) PROVE TypeInv'
    <2>. DEFINE s == req[h].session
                r == [req[h] EXCEPT !.next = built[s] + 1, !.pc = "rotate"]
    <2>1. Started(s) /\ req[h].op = "refresh" /\ Goto(h, r)
      BY <1>21 DEF BuildTokens, At, TypeInv, WorksOnSession, HasSessions, OnSession, Refreshing
    <2>2. built[s] + 1 \in Nat
      BY <2>1 DEF Started, TypeInv, TypeOK
    <2>3. /\ r \in Request /\ r.session = s /\ r.ids = req[h].ids
          /\ req[h].ids \subseteq Sessions
      BY <1>0, <2>2 DEF Request
    <2>4. built' \in [Sessions -> Nat] /\ crossed' \subseteq Sessions
      BY <1>21, <2>1, <2>2 DEF BuildTokens, Started, TypeInv, TypeOK
    <2>5. MovesTo(h, r)
      BY <1>0, <2>1, <2>3, GotoMoves
    <2>6. \A i \in r.ids : session[i].state # "none"
      BY <2>3 DEF TypeInv, WorksOnSession, HasSessions, Started
    <2>7. SessionsGoOn /\ session' = session
      BY <1>21, SessionsStay DEF BuildTokens
    <2>. HIDE DEF r, s
    <2>. QED
      BY <1>21, <2>1, <2>3, <2>4, <2>5, <2>6, <2>7, TypeKept
         DEF BuildTokens, TypeInv, TypeOK, Started
  <1>12. ASSUME NEW h \in Handlers, Authenticate(h) PROVE TypeInv'
    <2>1. req[h] \in Request /\ HasSessions(req[h])
      BY DEF TypeInv, TypeOK, WorksOnSession
    <2>. QED
      BY <1>0, <1>4, <1>5, <1>12, <2>1
         DEF Authenticate, history, Request, At, HasSessions, OnSession, Refreshing
  <1>13. ASSUME NEW h \in Handlers, SetPassword(h) PROVE TypeInv'
    <2>. DEFINE r == [req[h] EXCEPT !.pc = "list", !.op = "logout_all"]
    <2>1. r \in Request /\ ~OnSession(r)
      BY ZenonT(40) DEF TypeInv, TypeOK, Request, Ops, OnSession, Refreshing
    <2>5. \A s \in r.ids : session'[s].state # "none"
      BY <1>13 DEF SetPassword, TypeInv, TypeOK, WorksOnSession, HasSessions, Started, Request
    <2>2. MovesTo(h, r)
      BY <1>0, <1>13, <2>1, RacingMoves DEF SetPassword
    <2>3. SessionsGoOn
      BY <1>13, SessionsStay DEF SetPassword
    <2>4. password' \in Passwords
      BY <1>13, SessionsAssumption DEF SetPassword, Passwords, TypeInv, TypeOK
    <2>. HIDE DEF r
    <2>. QED
      BY <1>13, <2>1, <2>2, <2>3, <2>4, <2>5, TypeKept DEF SetPassword, TypeInv, TypeOK, history
  <1>14. ASSUME NEW h \in Handlers, ListSessions(h) PROVE TypeInv'
    <2>1. PICK ids \in SUBSET {s \in Sessions : session[s].state # "none"} :
             Goto(h, [req[h] EXCEPT !.ids = ids, !.pc = "revoke"])
      <3>. DEFINE all == {s \in Sessions : session[s].state \in {"live", "expired"}}
                 mine == IF req[h].op = "logout" THEN {req[h].session} ELSE Sessions
      <3>1. Goto(h, [req[h] EXCEPT !.ids = all \cap mine, !.pc = "revoke"])
        BY <1>14 DEF ListSessions
      <3>2. all \cap mine \in SUBSET {s \in Sessions : session[s].state # "none"}
        BY DEF all
      <3>. QED
        BY <3>1, <3>2
    <2>2. [req[h] EXCEPT !.ids = ids, !.pc = "revoke"] \in Request
          /\ HasSessions([req[h] EXCEPT !.ids = ids, !.pc = "revoke"])
      BY ZenonT(40) DEF TypeInv, TypeOK, Request, HasSessions, OnSession, Refreshing, Started
    <2>. QED
      BY <1>0, <1>3, <1>14, <2>1, <2>2 DEF ListSessions, history
  <1>15. ASSUME NEW h \in Handlers, RevokeSessions(h) PROVE TypeInv'
    <2>. DEFINE r == [req[h] EXCEPT !.pc = "disconnect"]
    <2>1. r \in Request /\ ~OnSession(r)
      BY DEF TypeInv, TypeOK, Request, OnSession, Refreshing
    <2>2. MovesTo(h, r)
      BY <1>0, <1>15, <2>1, ProceedMoves DEF RevokeSessions
    <2>3. \A s \in req[h].ids : s \in Sessions /\ session[s].state # "none"
      BY DEF TypeInv, TypeOK, WorksOnSession, HasSessions, Started
    <2>4. SessionsGoOn
      <3>1. ASSUME NEW s \in Sessions
            PROVE  /\ session'[s] \in SessionDoc
                   /\ session'[s].state = "none" <=> session[s].state = "none"
        <4>1. session[s] \in SessionDoc
          BY DEF TypeInv, TypeOK
        <4>. QED
          BY <1>15, <2>3, <4>1 DEF RevokeSessions, SessionDoc
      <3>2. session' \in [Sessions -> SessionDoc]
        BY <1>15, <3>1 DEF RevokeSessions
      <3>. QED
        BY <3>1, <3>2 DEF SessionsGoOn, SessionDoc, TypeInv, TypeOK, WorksOnSession
    <2>5. \A s \in r.ids : session'[s].state # "none"
      BY <2>3, <2>4 DEF SessionsGoOn, TypeInv, TypeOK, Request
    <2>. HIDE DEF r
    <2>. QED
      BY <1>15, <2>1, <2>2, <2>4, <2>5, TypeKept DEF RevokeSessions, TypeInv, TypeOK, history
  <1>16. ASSUME NEW h \in Handlers, DisconnectSockets(h) PROVE TypeInv'
    <2>1. SessionsGoOn
      BY <1>16, SessionsStay DEF DisconnectSockets
    <2>2. MovesTo(h, Idle)
      BY <1>0, <1>16, IdleType, RacingMoves DEF DisconnectSockets, RespondRacing
    <2>. QED
      BY <1>16, <2>1, <2>2, IdleType, IdleWorks, TypeKept
         DEF DisconnectSockets, TypeInv, TypeOK
  <1>17. ASSUME NEW h \in Handlers, JoinRooms(h) PROVE TypeInv'
    <2>1. SessionsGoOn
      BY <1>17, SessionsStay DEF JoinRooms
    <2>2. MovesTo(h, Idle)
      BY <1>0, <1>17, RespondMoves DEF JoinRooms
    <2>3. req[h].session \in Sessions
      BY <1>17 DEF JoinRooms, At, TypeInv, TypeOK
    <2>. QED
      BY <1>17, <2>1, <2>2, <2>3, IdleType, IdleWorks, TypeKept DEF JoinRooms, TypeInv, TypeOK
  <1>18. ASSUME NEW h \in Handlers, Fail(h) PROVE TypeInv'
    BY <1>0, <1>5, <1>18 DEF Fail, history
  <1>19. ASSUME NEW s \in Sessions, SocketLeaves(s) PROVE TypeInv'
    BY <1>19 DEF SocketLeaves, TypeInv, TypeOK, WorksOnSession, HasSessions, OnSession,
                 Refreshing, Started
  <1>20. ASSUME NEW s \in Sessions, Expire(s) PROVE TypeInv'
    <2>1. SessionsGoOn
      BY <1>20 DEF Expire, Live, SessionsGoOn, SessionDoc, TypeInv, TypeOK, WorksOnSession
    <2>. QED
      BY <1>20, <2>1
         DEF Expire, history, SessionsGoOn, TypeInv, TypeOK, WorksOnSession, HasSessions,
             OnSession, Refreshing, Started, Request
  <1>. QED
    BY <1>1, <1>2, <1>6, <1>7, <1>8, <1>9, <1>10, <1>11, <1>12, <1>13, <1>14, <1>15,
       <1>16, <1>17, <1>18, <1>19, <1>20, <1>21
       DEF Next, Handle

LEMMA Typed == Spec => []TypeInv
  BY InitType, TypeStep, PTL DEF Spec

----------------------------------------------------------------------------
(* The requests that did not take the step. *)

Unmoved(h) ==
    \A g \in Handlers \ {h} :
       /\ req'[g].pc = req[g].pc /\ req'[g].op = req[g].op
       /\ req'[g].session = req[g].session /\ req'[g].token = req[g].token
       /\ req'[g].secret = req[g].secret /\ req'[g].ids = req[g].ids
       /\ req'[g].next = req[g].next
       /\ req[g].raced => req'[g].raced
       /\ req'[g].alone => req[g].alone

LEMMA OthersKeep ==
    ASSUME TypeInv, NEW h \in Handlers, Handle(h)
    PROVE  Unmoved(h)
  <1>0. req \in [Handlers -> Request]
    BY DEF TypeInv, TypeOK
  <1>1. ASSUME NEW r, MovesTo(h, r) PROVE Unmoved(h)
    BY <1>0, <1>1, OthersGoOn DEF Unmoved
  <1>2. ASSUME NEW r, Goto(h, r) PROVE Unmoved(h)
    BY <1>0, <1>2 DEF Goto, Unmoved
  <1>3. CASE Begin(h)
    BY <1>0, <1>1, <1>3, BeginMoves, ArriveMoves
  <1>4. ASSUME NEW pc, RespondRacing(h, pc) PROVE Unmoved(h)
    BY <1>0, <1>1, <1>4, IdleType, RacingMoves DEF RespondRacing
  <1>5. CASE SetPassword(h)
    <2>1. [req[h] EXCEPT !.pc = "list", !.op = "logout_all"] \in Request
      BY ZenonT(40), <1>0 DEF Request, Ops
    <2>. QED
      BY <1>0, <1>1, <1>5, <2>1, RacingMoves DEF SetPassword
  <1>6. CASE CreateSession(h) \/ BuildTokens(h)
    BY <1>2, <1>6 DEF CreateSession, BuildTokens
  <1>7. CASE LoadUser(h) \/ ValidateRefresh(h) \/ Authenticate(h) \/ ListSessions(h)
    BY <1>2, <1>7
       DEF LoadUser, ValidateRefresh, Authenticate, ListSessions, Proceed, Respond
  <1>8. CASE FinishLogin(h) \/ RotateTokens(h) \/ RevokeSessions(h) \/ JoinRooms(h) \/ Fail(h)
    BY <1>2, <1>8
       DEF FinishLogin, RotateTokens, RevokeSessions, JoinRooms, Fail, Proceed, Respond
  <1>9. CASE RevokeReused(h) \/ DisconnectSockets(h)
    BY <1>4, <1>9 DEF RevokeReused, DisconnectSockets
  <1>. QED
    BY <1>3, <1>5, <1>6, <1>7, <1>8, <1>9 DEF Handle

----------------------------------------------------------------------------
(* What has been revoked or replaced does not come back. *)

(* A request that is still alone has no other beside it, and has checked   *)
(* the token that the session still has.                                   *)
AloneInv ==
    /\ \A h, g \in Handlers : req[h].alone /\ h \in Busy /\ g \in Busy => g = h
    /\ \A h \in Handlers : req[h].alone /\ Refreshing(req[h]) =>
                             req[h].token = session[req[h].session].token

(* What a request in flight becomes by a step of its own.                  *)
LEMMA OwnStep ==
    ASSUME TypeInv, NEW h \in Handlers, Handle(h), h \in Busy
    PROVE  /\ req'[h].pc # "idle" /\ req'[h].alone => req[h].alone
           /\ Refreshing(req'[h]) =>
                 /\ session' = session /\ req'[h].session = req[h].session
                 /\ req'[h].token = req[h].token
                 /\ \/ Refreshing(req[h])
                    \/ req[h].token = session[req[h].session].token
  <1>. USE DEF Refreshing, Busy, At
  <1>0. req \in [Handlers -> Request] /\ req[h] \in Request
    BY DEF TypeInv, TypeOK
  <1>1. ~Begin(h)
    BY DEF Begin
  <1>2. CASE LoadUser(h)
    <2>1. \/ req'[h] = [req[h] EXCEPT !.secret = password, !.pc = "create"]
          \/ req'[h] = [req[h] EXCEPT !.pc = "set"]
      BY <1>0, <1>2 DEF LoadUser, Goto, Proceed
    <2>2. session' = session
      BY <1>2 DEF LoadUser
    <2>. QED
      BY <1>0, <2>1, <2>2 DEF Request
  <1>8. CASE BuildTokens(h)
    BY <1>0, <1>8 DEF BuildTokens, Goto, Request
  <1>3. CASE ValidateRefresh(h)
    BY <1>0, <1>3 DEF ValidateRefresh, Goto, Proceed, Respond, Idle, Request
  <1>4. CASE Authenticate(h)
    <2>1. req'[h] = Idle \/ \E pc \in {"join", "user", "list"} :
             /\ req'[h] = [req[h] EXCEPT !.pc = pc]
             /\ pc = "user" => req[h].op = "change"
      BY <1>0, <1>4 DEF Authenticate, Goto, Proceed, Respond
    <2>. QED
      BY <1>0, <2>1 DEF Idle, Request
  <1>5. CASE CreateSession(h) \/ ListSessions(h) \/ RevokeSessions(h) \/ SetPassword(h)
    <2>1. CASE CreateSession(h)
      BY <1>0, <2>1 DEF CreateSession, Goto, Request
    <2>2. CASE ListSessions(h)
      BY <1>0, <2>2 DEF ListSessions, Goto, Request
    <2>3. CASE RevokeSessions(h)
      BY <1>0, <2>3 DEF RevokeSessions, Goto, Proceed, Request
    <2>4. CASE SetPassword(h)
      BY <1>0, <2>4 DEF SetPassword, Request
    <2>. QED
      BY <1>5, <2>1, <2>2, <2>3, <2>4
  <1>6. CASE FinishLogin(h) \/ RotateTokens(h) \/ JoinRooms(h) \/ Fail(h)
    <2>1. Respond(h)
      BY <1>6 DEF FinishLogin, RotateTokens, JoinRooms, Fail
    <2>. QED
      BY <1>0, <2>1 DEF Respond, Goto, Idle
  <1>7. CASE RevokeReused(h) \/ DisconnectSockets(h)
    <2>1. req'[h] = Idle
      BY <1>7 DEF RevokeReused, DisconnectSockets, RespondRacing
    <2>. QED
      BY <2>1 DEF Idle
  <1>. QED
    BY <1>1, <1>2, <1>3, <1>4, <1>5, <1>6, <1>7, <1>8 DEF Handle

LEMMA AloneStep == TypeInv /\ AloneInv /\ [Next]_vars => AloneInv'
  <1>. SUFFICES ASSUME TypeInv, AloneInv, [Next]_vars PROVE AloneInv'
    OBVIOUS
  <1>0. req \in [Handlers -> Request]
    BY DEF TypeInv, TypeOK
  <1>1. CASE UNCHANGED vars
    BY <1>1 DEF vars, AloneInv, Busy, At, Refreshing
  <1>2. ASSUME NEW h \in Handlers, Begin(h) PROVE AloneInv'
    <2>1. PICK r \in Request : Arriving(r) /\ Arrive(h, r)
      BY <1>2, BeginMoves
    <2>2. /\ h \notin Busy /\ session' = session
          /\ req'[h].alone = (Busy = {}) /\ ~Refreshing(req'[h])
      BY <1>0, <1>2, <2>1 DEF Begin, Busy, Arrive, Arriving, Refreshing, Request
    <2>3. \A g \in Handlers \ {h} :
             /\ req'[g].pc = req[g].pc /\ req'[g].alone = (req[g].alone /\ g \notin Busy)
             /\ req'[g].op = req[g].op
      BY <1>0, <2>1 DEF Arrive, Request
    <2>4. \A g \in Handlers \ {h} : g \in Busy' <=> g \in Busy
      BY <2>3 DEF Busy, At
    <2>5. \A g \in Handlers \ {h} : Refreshing(req'[g]) => g \in Busy
      BY <2>3 DEF Refreshing, Busy, At
    <2>. QED
      BY <2>2, <2>3, <2>4, <2>5 DEF AloneInv
  <1>3. ASSUME NEW h \in Handlers, Handle(h), h \in Busy PROVE AloneInv'
    <2>1. \A g \in Handlers : g \in Busy' /\ req'[g].alone => g \in Busy /\ req[g].alone
      BY <1>3, OthersKeep, OwnStep DEF Unmoved, Busy, At
    <2>2. \A g \in Handlers : g \in Busy' => g \in Busy
      BY <1>3, OthersKeep DEF Unmoved, Busy, At
    <2>3. \A g \in Handlers : Refreshing(req'[g]) => g \in Busy'
      BY DEF Refreshing, Busy, At
    <2>4. ASSUME NEW g \in Handlers, req'[g].alone, Refreshing(req'[g])
          PROVE  req'[g].token = session'[req'[g].session].token
      <3>1. g = h /\ req[h].alone
        BY <1>3, <2>1, <2>3, <2>4 DEF AloneInv
      <3>. QED
        BY <1>3, <2>4, <3>1, OwnStep DEF AloneInv
    <2>. QED
      BY <2>1, <2>2, <2>4 DEF AloneInv
  <1>4. ASSUME NEW s \in Sessions, SocketLeaves(s) PROVE AloneInv'
    BY <1>4 DEF SocketLeaves, AloneInv, Busy, At, Refreshing
  <1>5. ASSUME NEW s \in Sessions, Expire(s) PROVE AloneInv'
    BY <1>5 DEF Expire, AloneInv, Busy, At, Refreshing
  <1>6. ASSUME NEW h \in Handlers, Handle(h), h \notin Busy PROVE Begin(h)
    BY <1>6 DEF Handle, Busy, At, LoadUser, CreateSession, FinishLogin, ValidateRefresh,
                RevokeReused, BuildTokens, RotateTokens, Authenticate, SetPassword,
                ListSessions, RevokeSessions, DisconnectSockets, JoinRooms, Fail
  <1>. QED
    BY <1>1, <1>2, <1>3, <1>4, <1>5, <1>6 DEF Next

LEMMA Alone == Spec => []AloneInv
  <1>1. Init => AloneInv
    BY DEF Init, AloneInv, Busy, At, Idle, Refreshing
  <1>. QED
    BY <1>1, AloneStep, Typed, PTL DEF Spec

(* A session that is revoked or replaced stays so: it is never live again, *)
(* a refresh that runs alone uses its token up, and no login brings an old *)
(* password back: although rotateSessionTokens saves a session that was    *)
(* found live some awaits ago, and nothing holds two refreshes apart.      *)
THEOREM RevokedStaysRevoked == Spec => RevokedStays
  <1>1. TypeInv /\ [Next]_vars
          => [\A s \in Sessions :
                session[s].state = "revoked" => session'[s].state = "revoked"]_vars
    <2>. SUFFICES ASSUME TypeInv, Next, NEW s \in Sessions, session[s].state = "revoked"
                  PROVE  session'[s].state = "revoked"
      OBVIOUS
    <2>1. session \in [Sessions -> SessionDoc] /\ session[s] \in SessionDoc
      BY DEF TypeInv, TypeOK
    <2>2. ASSUME session' = session PROVE session'[s].state = "revoked"
      BY <2>2
    <2>3. ASSUME NEW h \in Handlers, Handle(h) PROVE session'[s].state = "revoked"
      <3>1. CASE CreateSession(h)
        BY <2>1, <3>1 DEF CreateSession
      <3>2. CASE RevokeReused(h)
        BY <2>1, <3>2 DEF RevokeReused, SessionDoc
      <3>3. CASE RotateTokens(h)
        BY <2>1, <3>3 DEF RotateTokens, SessionDoc
      <3>4. CASE RevokeSessions(h)
        BY <2>1, <3>4 DEF RevokeSessions, SessionDoc
      <3>. QED
        BY <2>2, <2>3, <3>1, <3>2, <3>3, <3>4
           DEF Handle, Begin, LoadUser, FinishLogin, ValidateRefresh, BuildTokens, Authenticate,
               SetPassword, ListSessions, DisconnectSockets, JoinRooms, Fail
    <2>4. ASSUME NEW x \in Sessions, Expire(x) PROVE session'[s].state = "revoked"
      BY <2>1, <2>4 DEF Expire, Live
    <2>. QED
      BY <2>2, <2>3, <2>4 DEF Next, SocketLeaves
  <1>2. TypeInv /\ AloneInv /\ [Next]_vars
          => [\A h \in Handlers :
                At(h, "rotate") /\ req[h].alone /\ req'[h].pc = "idle" /\ session' # session
                => req[h].token = session[req[h].session].token]_vars
    BY DEF AloneInv, Refreshing, At
  <1>3. TypeInv /\ [Next]_vars => [password' >= password]_vars
    <2>. SUFFICES ASSUME TypeInv, Next PROVE password' >= password
      OBVIOUS
    <2>1. password \in Nat
      BY SessionsAssumption DEF TypeInv, TypeOK, Passwords
    <2>2. password' \in {password, password + 1}
      BY DEF Next, Handle, Begin, LoadUser, CreateSession, FinishLogin, ValidateRefresh,
             RevokeReused, BuildTokens, RotateTokens, Authenticate, SetPassword, ListSessions,
             RevokeSessions, DisconnectSockets, JoinRooms, Fail, SocketLeaves, Expire
    <2>. QED
      BY <2>1, <2>2
  <1>. QED
    BY <1>1, <1>2, <1>3, Typed, Alone, PTL
       DEF Spec, RevokedStays, RevokedForGood, TokenUsedOnce, PasswordNeverReverts

----------------------------------------------------------------------------
(* What ends the sessions of the user ends them all. *)

(* A session opened with an older password is about to be revoked, by the  *)
(* request that has set the new one; a login that has compared the older   *)
(* one races.                                                              *)
Revoking(h, s) == \/ At(h, "list") /\ req[h].op # "logout"
                  \/ At(h, "revoke") /\ s \in req[h].ids

OldSessionsEnd ==
    /\ \A h \in Handlers : At(h, "create") => req[h].secret = password \/ req[h].raced
    /\ faults = 0 => \A s \in Live : \/ opened[s] = password \/ s \in raced
                                     \/ \E h \in Handlers : Revoking(h, s)

LEMMA OldSessionsStep == TypeInv /\ OldSessionsEnd /\ [Next]_vars => OldSessionsEnd'
  <1>. SUFFICES ASSUME TypeInv, OldSessionsEnd, [Next]_vars PROVE OldSessionsEnd'
    OBVIOUS
  <1>. USE DEF Revoking, At
  <1>0. /\ req \in [Handlers -> Request] /\ session \in [Sessions -> SessionDoc]
        /\ opened \in [Sessions -> 0 .. MaxPassword]
        /\ faults \in Nat
    BY DEF TypeInv, TypeOK
  <1>1. CASE UNCHANGED vars
    BY <1>1 DEF vars, history, OldSessionsEnd, Live
  \* A step that sets no password, opens no session and forgets none.
  <1>2. ASSUME NEW h \in Handlers, Handle(h),
               password' = password, opened' = opened, raced' = raced,
               Live' \subseteq Live, faults' = 0 => faults = 0,
               At(h, "create")' => req'[h].secret = password,
               faults' = 0 => \A s \in Live' : Revoking(h, s) => Revoking(h, s)'
        PROVE  OldSessionsEnd'
    <2>1. \A g \in Handlers : At(g, "create")' => req'[g].secret = password' \/ req'[g].raced
      BY <1>2, OthersKeep DEF Unmoved, OldSessionsEnd
    <2>2. ASSUME faults' = 0, NEW s \in Live'
          PROVE  \/ opened'[s] = password' \/ s \in raced'
                 \/ \E g \in Handlers : Revoking(g, s)'
      <3>1. ASSUME NEW g \in Handlers, Revoking(g, s)
            PROVE  Revoking(g, s)'
        <4>1. CASE g = h
          BY <1>2, <2>2, <3>1, <4>1
        <4>2. CASE g # h
          BY <1>2, <3>1, <4>2, OthersKeep DEF Unmoved
        <4>. QED
          BY <4>1, <4>2
      <3>2. s \in Live /\ faults = 0
        BY <1>2, <2>2
      <3>. QED
        BY <1>2, <3>1, <3>2 DEF OldSessionsEnd
    <2>. QED
      BY <2>1, <2>2 DEF OldSessionsEnd
  <1>3. ASSUME NEW h \in Handlers, Begin(h) PROVE OldSessionsEnd'
    <2>1. PICK r \in Request : Arriving(r) /\ Arrive(h, r)
      BY <1>3, BeginMoves
    <2>2. req'[h].pc # "create" /\ ~At(h, "list") /\ ~At(h, "revoke")
      BY <1>0, <1>3, <2>1 DEF Begin, Arrive, Arriving, Request
    <2>. QED
      BY <1>2, <1>3, <2>2 DEF Handle, Begin, history, Live
  <1>4. ASSUME NEW h \in Handlers,
               LoadUser(h) \/ ValidateRefresh(h) \/ Authenticate(h) \/ BuildTokens(h)
        PROVE  OldSessionsEnd'
    <2>1. req'[h].pc = "create" => req'[h].secret = password
      <3>1. CASE LoadUser(h)
        BY <1>0, <3>1 DEF LoadUser, Goto, Proceed, Request
      <3>2. CASE ValidateRefresh(h)
        BY <1>0, <3>2 DEF ValidateRefresh, Goto, Proceed, Respond, Idle, Request
      <3>3. CASE Authenticate(h)
        <4>1. req'[h] = Idle \/ \E pc \in {"join", "user", "list"} :
                 req'[h] = [req[h] EXCEPT !.pc = pc]
          BY <1>0, <3>3 DEF Authenticate, Goto, Proceed, Respond
        <4>. QED
          BY <1>0, <4>1 DEF Idle, Request
      <3>4. CASE BuildTokens(h)
        BY <1>0, <3>4 DEF BuildTokens, Goto, Request
      <3>. QED
        BY <1>4, <3>1, <3>2, <3>3, <3>4
    <2>2. ~At(h, "list") /\ ~At(h, "revoke")
      BY <1>4 DEF LoadUser, ValidateRefresh, Authenticate, BuildTokens
    <2>. QED
      BY <1>2, <1>4, <2>1, <2>2
         DEF Handle, LoadUser, ValidateRefresh, Authenticate, BuildTokens, history, Live
  <1>5. ASSUME NEW h \in Handlers, CreateSession(h) PROVE OldSessionsEnd'
    <2>1. PICK s \in Sessions :
             /\ session[s].state = "none"
             /\ session' = [session EXCEPT ![s] = [state |-> "live", token |-> 1]]
             /\ opened' = [opened EXCEPT ![s] = req[h].secret]
             /\ raced' = IF req[h].raced THEN raced \cup {s} ELSE raced
             /\ Goto(h, [req[h] EXCEPT !.session = s, !.pc = "finish"])
      BY <1>5 DEF CreateSession
    <2>2. /\ password' = password /\ faults' = faults /\ At(h, "create")
          /\ req'[h].pc = "finish"
      BY <1>0, <1>5, <2>1 DEF CreateSession, Goto, Request
    <2>3. opened'[s] = password \/ s \in raced'
      BY <1>0, <2>1, <2>2 DEF OldSessionsEnd
    <2>4. \A x \in Sessions \ {s} : session'[x] = session[x] /\ opened'[x] = opened[x]
      BY <1>0, <2>1
    <2>5. \A g \in Handlers : At(g, "create")' => req'[g].secret = password' \/ req'[g].raced
      BY <1>5, <2>2, OthersKeep DEF Unmoved, OldSessionsEnd, Handle
    <2>6. \A g \in Handlers, x \in Sessions : Revoking(g, x) => Revoking(g, x)'
      BY <1>5, <2>2, OthersKeep DEF Unmoved, Handle
    <2>7. raced \subseteq raced'
      BY <2>1
    <2>8. ASSUME faults' = 0, NEW x \in Live'
          PROVE  \/ opened'[x] = password' \/ x \in raced'
                 \/ \E g \in Handlers : Revoking(g, x)'
      <3>1. CASE x = s
        BY <2>2, <2>3, <3>1
      <3>2. CASE x # s
        BY <2>2, <2>4, <2>6, <2>7, <2>8, <3>2 DEF OldSessionsEnd, Live
      <3>. QED
        BY <3>1, <3>2
    <2>. QED
      BY <2>5, <2>8 DEF OldSessionsEnd
  <1>6. ASSUME NEW h \in Handlers, FinishLogin(h) \/ RotateTokens(h) PROVE OldSessionsEnd'
    <2>1. /\ req'[h].pc = "idle" /\ ~At(h, "list") /\ ~At(h, "revoke")
          /\ faults' = 0 => faults = 0
      BY <1>0, <1>6 DEF FinishLogin, RotateTokens, Respond, Goto, Idle
    <2>2. Live' \subseteq Live
      BY <1>0, <1>6 DEF FinishLogin, RotateTokens, Live, SessionDoc
    <2>. QED
      BY <1>2, <1>6, <2>1, <2>2 DEF Handle, FinishLogin, RotateTokens, history
  <1>7. ASSUME NEW h \in Handlers, RevokeReused(h) \/ DisconnectSockets(h) \/ JoinRooms(h)
        PROVE  OldSessionsEnd'
    <2>1. req'[h].pc = "idle" /\ ~At(h, "list") /\ ~At(h, "revoke")
      BY <1>0, <1>7
         DEF RevokeReused, DisconnectSockets, JoinRooms, RespondRacing, Respond, Goto, Idle
    <2>2. Live' \subseteq Live
      BY <1>0, <1>7 DEF RevokeReused, DisconnectSockets, JoinRooms, Live, SessionDoc
    <2>. QED
      BY <1>2, <1>7, <2>1, <2>2 DEF Handle, RevokeReused, DisconnectSockets, JoinRooms
  <1>8. ASSUME NEW h \in Handlers, SetPassword(h) PROVE OldSessionsEnd'
    <2>1. /\ req'[h].pc = "list" /\ req'[h].op = "logout_all"
          /\ \A g \in Handlers \ {h} : req'[g].pc = req[g].pc
          /\ \A g \in Handlers \ {h} : req[g].pc = "create" => req'[g].raced
      BY <1>0, <1>8 DEF SetPassword, Request
    <2>. QED
      BY <2>1 DEF OldSessionsEnd
  <1>9. ASSUME NEW h \in Handlers, ListSessions(h) PROVE OldSessionsEnd'
    <2>1. req'[h].pc = "revoke" /\ (req[h].op # "logout" => Live \subseteq req'[h].ids)
      BY <1>0, <1>9 DEF ListSessions, Goto, Request, Live
    <2>. QED
      BY <1>2, <1>9, <2>1 DEF Handle, ListSessions, history, Live
  <1>10. ASSUME NEW h \in Handlers, RevokeSessions(h) PROVE OldSessionsEnd'
    <2>1. req'[h].pc = "disconnect" /\ At(h, "revoke")
      BY <1>0, <1>10 DEF RevokeSessions, Proceed, Goto, Request
    <2>2. Live' = Live \ req[h].ids
      BY <1>0, <1>10 DEF RevokeSessions, Live, SessionDoc
    <2>. QED
      BY <1>2, <1>10, <2>1, <2>2 DEF Handle, RevokeSessions, history
  <1>11. ASSUME NEW h \in Handlers, Fail(h) PROVE OldSessionsEnd'
    <2>1. faults' # 0 /\ req'[h].pc = "idle"
      BY <1>0, <1>11 DEF Fail, Respond, Goto, Idle
    <2>. QED
      BY <1>2, <1>11, <2>1 DEF Handle, Fail, history, Live
  <1>12. ASSUME NEW s \in Sessions, SocketLeaves(s) \/ Expire(s) PROVE OldSessionsEnd'
    <2>1. Live' \subseteq Live
      BY <1>0, <1>12 DEF SocketLeaves, Expire, Live, SessionDoc
    <2>. QED
      BY <1>12, <2>1 DEF SocketLeaves, Expire, history, OldSessionsEnd
  <1>. QED
    BY <1>1, <1>3, <1>4, <1>5, <1>6, <1>7, <1>8, <1>9, <1>10, <1>11, <1>12 DEF Next, Handle

(* The socket of a revoked session is about to be disconnected, and one    *)
(* that is being connected to it races.                                    *)
Leaving(h, s) == At(h, "disconnect") /\ s \in req[h].ids
SocketEnds(s) == session[s].state = "revoked" => \E h \in Handlers : Leaving(h, s)

OldSocketsEnd ==
    faults = 0 =>
       /\ \A s \in socket \ stray : SocketEnds(s)
       /\ \A h \in Handlers : At(h, "join") => req[h].raced \/ SocketEnds(req[h].session)

LEMMA OldSocketsStep == TypeInv /\ OldSocketsEnd /\ [Next]_vars => OldSocketsEnd'
  <1>. SUFFICES ASSUME TypeInv, OldSocketsEnd, [Next]_vars PROVE OldSocketsEnd'
    OBVIOUS
  <1>. USE DEF Leaving, At
  <1>0. /\ req \in [Handlers -> Request] /\ session \in [Sessions -> SessionDoc]
        /\ faults \in Nat /\ stray \subseteq socket /\ socket \subseteq Sessions
    BY DEF TypeInv, TypeOK
  <1>1. CASE UNCHANGED vars
    BY <1>1 DEF vars, history, OldSocketsEnd, SocketEnds
  \* A step that revokes no session and disconnects no socket.
  <1>2. ASSUME NEW h \in Handlers, Handle(h), faults' = 0 => faults = 0,
               \A s \in Sessions : session'[s].state = "revoked" => session[s].state = "revoked",
               socket' \ stray' \subseteq socket \ stray,
               ~At(h, "disconnect"),
               faults' = 0 /\ At(h, "join")' =>
                  req'[h].session \in Sessions /\ session'[req'[h].session].state # "revoked"
        PROVE  OldSocketsEnd'
    <2>1. ASSUME NEW s \in Sessions, SocketEnds(s) PROVE SocketEnds(s)'
      BY <1>2, <2>1, OthersKeep DEF Unmoved, SocketEnds
    <2>2. \A g \in Handlers : At(g, "join") => req[g].session \in Sessions
      BY DEF TypeInv, TypeOK
    <2>3. ASSUME faults' = 0, NEW g \in Handlers, At(g, "join")'
          PROVE  req'[g].raced \/ SocketEnds(req[g].session)'
      <3>1. CASE g = h
        BY <1>2, <2>3, <3>1 DEF SocketEnds
      <3>2. CASE g # h
        <4>1. /\ At(g, "join") /\ req'[g].session = req[g].session
              /\ req[g].raced => req'[g].raced
          BY <1>2, <2>3, <3>2, OthersKeep DEF Unmoved
        <4>2. SocketEnds(req[g].session) => SocketEnds(req[g].session)'
          BY <2>1, <2>2, <4>1 DEF SocketEnds
        <4>. QED
          BY <1>2, <2>3, <4>1, <4>2 DEF OldSocketsEnd
      <3>. QED
        BY <3>1, <3>2
    <2>4. ASSUME faults' = 0, NEW s \in socket' \ stray'
          PROVE  SocketEnds(s)'
      BY <1>0, <1>2, <2>1, <2>4 DEF OldSocketsEnd
    <2>. QED
      BY <2>3, <2>4 DEF OldSocketsEnd, SocketEnds
  <1>3. ASSUME NEW h \in Handlers, Begin(h) PROVE OldSocketsEnd'
    <2>1. PICK r \in Request : Arriving(r) /\ Arrive(h, r)
      BY <1>3, BeginMoves
    <2>2. req'[h].pc # "join" /\ ~At(h, "disconnect")
      BY <1>0, <1>3, <2>1 DEF Begin, Arrive, Arriving, Request
    <2>. QED
      BY <1>2, <1>3, <2>2 DEF Handle, Begin, history
  <1>4. ASSUME NEW h \in Handlers, LoadUser(h) \/ ValidateRefresh(h) \/ BuildTokens(h)
        PROVE  OldSocketsEnd'
    <2>1. req'[h].pc # "join"
      <3>1. CASE LoadUser(h)
        BY <1>0, <3>1 DEF LoadUser, Goto, Proceed, Request
      <3>2. CASE ValidateRefresh(h)
        BY <1>0, <3>2 DEF ValidateRefresh, Goto, Proceed, Respond, Idle, Request
      <3>3. CASE BuildTokens(h)
        BY <1>0, <3>3 DEF BuildTokens, Goto, Request
      <3>. QED
        BY <1>4, <3>1, <3>2, <3>3
    <2>2. ~At(h, "disconnect")
      BY <1>4 DEF LoadUser, ValidateRefresh, BuildTokens
    <2>. QED
      BY <1>2, <1>4, <2>1, <2>2 DEF Handle, LoadUser, ValidateRefresh, BuildTokens, history
  <1>5. ASSUME NEW h \in Handlers, Authenticate(h) PROVE OldSocketsEnd'
    <2>1. req'[h] = Idle \/ \E pc \in {"join", "user", "list"} :
             req'[h] = [req[h] EXCEPT !.pc = pc] /\ req[h].session \in Live
      BY <1>0, <1>5 DEF Authenticate, Goto, Proceed, Respond
    <2>2. req'[h].pc = "join" => req'[h].session \in Live
      BY <1>0, <2>1 DEF Idle, Request
    <2>. QED
      BY <1>2, <1>5, <2>2 DEF Handle, Authenticate, history, Live
  <1>6. ASSUME NEW h \in Handlers, CreateSession(h) PROVE OldSocketsEnd'
    <2>1. /\ req'[h].pc = "finish" /\ ~At(h, "disconnect")
          /\ \A s \in Sessions : session'[s].state = "revoked" => session[s].state = "revoked"
      BY <1>0, <1>6 DEF CreateSession, Goto, Request
    <2>. QED
      BY <1>2, <1>6, <2>1 DEF Handle, CreateSession
  <1>7. ASSUME NEW h \in Handlers, FinishLogin(h) \/ RotateTokens(h) PROVE OldSocketsEnd'
    <2>1. /\ req'[h].pc = "idle" /\ ~At(h, "disconnect") /\ (faults' = 0 => faults = 0)
      BY <1>0, <1>7 DEF FinishLogin, RotateTokens, Respond, Goto, Idle
    <2>2. \A s \in Sessions : session'[s].state = "revoked" => session[s].state = "revoked"
      BY <1>0, <1>7 DEF FinishLogin, RotateTokens, SessionDoc
    <2>. QED
      BY <1>2, <1>7, <2>1, <2>2 DEF Handle, FinishLogin, RotateTokens, history
  <1>8. ASSUME NEW h \in Handlers, SetPassword(h) \/ ListSessions(h) PROVE OldSocketsEnd'
    <2>1. req'[h].pc \in {"list", "revoke"} /\ ~At(h, "disconnect")
      BY ZenonT(40), <1>0, <1>8 DEF SetPassword, ListSessions, Goto, Request
    <2>. QED
      BY <1>2, <1>8, <2>1 DEF Handle, SetPassword, ListSessions, history
  <1>9. ASSUME NEW h \in Handlers, Fail(h) PROVE OldSocketsEnd'
    BY <1>0, <1>9 DEF Fail, OldSocketsEnd
  <1>10. ASSUME NEW h \in Handlers, RevokeReused(h) PROVE OldSocketsEnd'
    <2>. DEFINE x == req[h].session
    <2>1. /\ \A s \in Sessions \ {x} : session'[s] = session[s]
          /\ socket' = socket /\ faults' = faults /\ stray' = stray \cup ({x} \cap socket)
          /\ ~At(h, "disconnect")
          /\ req'[h].pc = "idle"
          /\ \A g \in Handlers \ {h} : At(g, "join") => req'[g].raced
      BY <1>0, <1>10 DEF RevokeReused, RespondRacing, Idle, Request
    <2>2. ASSUME NEW s \in Sessions \ {x}, SocketEnds(s) PROVE SocketEnds(s)'
      BY <1>10, <2>1, <2>2, OthersKeep DEF Unmoved, SocketEnds, Handle
    <2>3. \A g \in Handlers : At(g, "join")' => req'[g].raced
      BY <1>10, <2>1, OthersKeep DEF Unmoved, Handle
    <2>4. \A s \in socket' \ stray' : s \in (socket \ stray) \ {x} /\ s \in Sessions
      BY <1>0, <2>1
    <2>. HIDE DEF x
    <2>. QED
      BY <2>1, <2>2, <2>3, <2>4 DEF OldSocketsEnd
  <1>11. ASSUME NEW h \in Handlers, RevokeSessions(h) PROVE OldSocketsEnd'
    <2>1. /\ req'[h].pc = "disconnect" /\ req'[h].ids = req[h].ids /\ ~At(h, "disconnect")
          /\ \A s \in Sessions \ req[h].ids : session'[s] = session[s]
      BY <1>0, <1>11 DEF RevokeSessions, Proceed, Goto, Request
    <2>2. ASSUME NEW s \in Sessions, SocketEnds(s) PROVE SocketEnds(s)'
      <3>1. CASE s \in req[h].ids
        BY <2>1, <3>1 DEF SocketEnds
      <3>2. CASE s \notin req[h].ids
        BY <1>11, <2>1, <2>2, <3>2, OthersKeep DEF Unmoved, SocketEnds, Handle
      <3>. QED
        BY <3>1, <3>2
    <2>3. ASSUME NEW g \in Handlers, At(g, "join")', faults = 0
          PROVE  req'[g].raced \/ SocketEnds(req[g].session)'
      <3>1. /\ g # h /\ At(g, "join") /\ req'[g].session = req[g].session
            /\ req[g].raced => req'[g].raced
        BY <1>11, <2>1, <2>3, OthersKeep DEF Unmoved, Handle
      <3>2. req[g].session \in Sessions
        BY <3>1 DEF TypeInv, TypeOK
      <3>3. SocketEnds(req[g].session) => SocketEnds(req[g].session)'
        BY <2>2, <3>1, <3>2 DEF SocketEnds
      <3>. QED
        BY <2>3, <3>1, <3>3 DEF OldSocketsEnd
    <2>4. ASSUME NEW s \in socket \ stray, faults = 0 PROVE SocketEnds(s)'
      BY <1>0, <2>2, <2>4 DEF OldSocketsEnd
    <2>. QED
      BY <1>11, <2>3, <2>4 DEF RevokeSessions, history, OldSocketsEnd
  <1>12. ASSUME NEW h \in Handlers, DisconnectSockets(h) PROVE OldSocketsEnd'
    <2>1. /\ session' = session /\ faults' = faults /\ req'[h].pc = "idle"
          /\ socket' = socket \ req[h].ids /\ stray' = stray \ req[h].ids
          /\ \A g \in Handlers \ {h} : At(g, "join") => req'[g].raced
      BY <1>0, <1>12 DEF DisconnectSockets, RespondRacing, Idle, Request
    <2>2. ASSUME NEW s \in Sessions \ req[h].ids, SocketEnds(s) PROVE SocketEnds(s)'
      BY <1>12, <2>1, <2>2, OthersKeep DEF Unmoved, SocketEnds, Handle
    <2>3. \A g \in Handlers : At(g, "join")' => req'[g].raced
      BY <1>12, <2>1, OthersKeep DEF Unmoved, Handle
    <2>4. \A s \in socket' \ stray' : s \in socket \ stray /\ s \in Sessions \ req[h].ids
      BY <1>0, <2>1
    <2>. QED
      BY <2>1, <2>2, <2>3, <2>4 DEF OldSocketsEnd
  <1>13. ASSUME NEW h \in Handlers, JoinRooms(h) PROVE OldSocketsEnd'
    <2>1. /\ session' = session /\ faults' = faults /\ At(h, "join")
          /\ socket' = socket \cup {req[h].session}
          /\ stray' = IF req[h].raced THEN stray \cup {req[h].session} ELSE stray
          /\ req'[h].pc = "idle"
      BY <1>0, <1>13 DEF JoinRooms, Respond, Goto, Idle
    <2>2. req[h].session \in Sessions
      BY <2>1 DEF TypeInv, TypeOK
    <2>3. ASSUME NEW s \in Sessions, SocketEnds(s) PROVE SocketEnds(s)'
      BY <1>13, <2>1, <2>3, OthersKeep DEF Unmoved, SocketEnds, Handle
    <2>4. ASSUME NEW g \in Handlers, At(g, "join")', faults = 0
          PROVE  req'[g].raced \/ SocketEnds(req[g].session)'
      <3>1. /\ g # h /\ At(g, "join") /\ req'[g].session = req[g].session
            /\ req[g].raced => req'[g].raced
        BY <1>13, <2>1, <2>4, OthersKeep DEF Unmoved, Handle
      <3>2. req[g].session \in Sessions
        BY <3>1 DEF TypeInv, TypeOK
      <3>3. SocketEnds(req[g].session) => SocketEnds(req[g].session)'
        BY <2>3, <3>1, <3>2 DEF SocketEnds
      <3>. QED
        BY <2>1, <2>4, <3>1, <3>3 DEF OldSocketsEnd
    <2>5. ASSUME NEW s \in socket' \ stray', faults = 0 PROVE SocketEnds(s)'
      <3>1. s \in Sessions /\ SocketEnds(s)
        BY <1>0, <2>1, <2>2, <2>5 DEF OldSocketsEnd
      <3>. QED
        BY <2>3, <3>1
    <2>. QED
      BY <2>1, <2>4, <2>5 DEF OldSocketsEnd
  <1>14. ASSUME NEW s \in Sessions, SocketLeaves(s) \/ Expire(s) PROVE OldSocketsEnd'
    <2>1. \A x \in Sessions : session'[x].state = "revoked" => session[x].state = "revoked"
      BY <1>0, <1>14 DEF SocketLeaves, Expire, SessionDoc
    <2>2. \A h \in Handlers : At(h, "join") => req[h].session \in Sessions
      BY DEF TypeInv, TypeOK
    <2>3. socket' \ stray' \subseteq socket \ stray /\ req' = req /\ faults' = faults
      BY <1>14 DEF SocketLeaves, Expire, history
    <2>. QED
      BY <1>0, <2>1, <2>2, <2>3 DEF OldSocketsEnd, SocketEnds
  <1>. QED
    BY <1>1, <1>3, <1>4, <1>5, <1>6, <1>7, <1>8, <1>9, <1>10, <1>11, <1>12, <1>13, <1>14
       DEF Next, Handle

(* Once nothing is under way and nothing has failed, a change or reset of  *)
(* the password, or a logout, has left no session and no socket that it    *)
(* ends: only those of a login or handshake that raced with it             *)
(* (revokeAllUserSessions lists, revokes and disconnects one after the     *)
(* other).                                                                 *)
THEOREM SessionsAreEnded == Spec => []SessionsEnd
  <1>1. Init => OldSessionsEnd /\ OldSocketsEnd
    BY DEF Init, OldSessionsEnd, OldSocketsEnd, Live, NoSession, At, Idle
  <1>2. TypeInv /\ OldSessionsEnd /\ OldSocketsEnd => SessionsEnd
    <2>. SUFFICES ASSUME TypeInv, OldSessionsEnd, OldSocketsEnd PROVE SessionsEnd
      OBVIOUS
    <2>1. Busy = {} => \A h \in Handlers : req[h].pc = "idle"
      BY DEF Busy, At
    <2>2. PasswordEndsSessions
      BY <2>1 DEF OldSessionsEnd, PasswordEndsSessions, Calm, Revoking, At
    <2>3. SocketsEndWithSession
      BY <2>1 DEF OldSocketsEnd, SocketEnds, SocketsEndWithSession, Calm, Leaving, At
    <2>. QED
      BY <2>2, <2>3 DEF TypeInv, SessionsEnd
  <1>. QED
    BY <1>1, <1>2, OldSessionsStep, OldSocketsStep, Typed, PTL DEF Spec

----------------------------------------------------------------------------
(* The newest token. *)

(* The token that a session accepts has been handed out, or is about to be *)
(* by the login that has opened the session.                               *)
TokenIsOut(s) == \/ <<s, session[s].token>> \in held
                 \/ /\ session[s].token = 1
                    /\ \E h \in Handlers : At(h, "finish") /\ req[h].session = s

(* A signed token waits to be saved.                                       *)
Waits(h, s) == At(h, "rotate") /\ req[h].session = s

(* No token is newer than the last one signed.  That one is saved, or the  *)
(* only one that waits to be, unless two have waited at once.              *)
SavedOrWaiting(s) ==
    \/ session[s].token = built[s] /\ \A h \in Handlers : ~Waits(h, s)
    \/ \E h \in Handlers : /\ Waits(h, s) /\ req[h].next = built[s]
                           /\ \A g \in Handlers \ {h} : ~Waits(g, s)

TokensInOrder(s) ==
    /\ TokenIsOut(s)
    /\ built[s] >= 1
    /\ \A t \in held : t[1] = s => t[2] =< built[s]
    /\ \A h \in Handlers : Waits(h, s) => req[h].next =< built[s]
    /\ s \notin crossed => SavedOrWaiting(s)

NewestIsHeld ==
    faults = 0 => \A s \in Sessions : session[s].state # "none" => TokensInOrder(s)

(* A step about another session leaves the tokens of this one in order.    *)
LEMMA TokensKept ==
    ASSUME TypeInv, NEW h \in Handlers, Handle(h), NEW s \in Sessions, TokensInOrder(s),
           session'[s].token = session[s].token, built'[s] = built[s],
           s \in crossed' <=> s \in crossed,
           held \subseteq held', \A t \in held' : t[1] = s => t \in held \/ t[2] = 1,
           At(h, "finish") /\ req[h].session = s => <<s, 1>> \in held',
           ~Waits(h, s), ~(req'[h].pc = "rotate" /\ req'[h].session = s)
    PROVE  TokensInOrder(s)'
  <1>. USE DEF At
  <1>0. built[s] \in Nat
    BY DEF TypeInv, TypeOK
  <1>1. \A g \in Handlers \ {h} :
           /\ req'[g].pc = req[g].pc /\ req'[g].session = req[g].session
           /\ req'[g].next = req[g].next
    BY OthersKeep DEF Unmoved
  <1>2. TokenIsOut(s)'
    BY <1>1 DEF TokensInOrder, TokenIsOut
  <1>3. \A g \in Handlers : Waits(g, s)' <=> Waits(g, s)
    BY <1>1 DEF Waits
  <1>4. \A g \in Handlers : Waits(g, s) => req'[g].next = req[g].next
    BY <1>1
  <1>5. SavedOrWaiting(s) => SavedOrWaiting(s)'
    BY <1>3, <1>4 DEF SavedOrWaiting
  <1>6. \A t \in held' : t[1] = s => t[2] =< built'[s]
    BY <1>0 DEF TokensInOrder
  <1>7. \A g \in Handlers : Waits(g, s)' => req'[g].next =< built'[s]
    BY <1>3, <1>4 DEF TokensInOrder
  <1>8. built'[s] >= 1 /\ (s \notin crossed' => SavedOrWaiting(s)')
    BY <1>5 DEF TokensInOrder
  <1>. QED
    BY <1>2, <1>6, <1>7, <1>8 DEF TokensInOrder

LEMMA NewestStep == TypeInv /\ NewestIsHeld /\ [Next]_vars => NewestIsHeld'
  <1>. SUFFICES ASSUME TypeInv, NewestIsHeld, [Next]_vars PROVE NewestIsHeld'
    OBVIOUS
  <1>. USE DEF At
  <1>0. /\ req \in [Handlers -> Request] /\ session \in [Sessions -> SessionDoc]
        /\ faults \in Nat /\ built \in [Sessions -> Nat] /\ held \subseteq Sessions \X Nat
    BY DEF TypeInv, TypeOK
  <1>1. CASE UNCHANGED vars
    BY <1>1 DEF vars, history, NewestIsHeld, TokensInOrder, TokenIsOut, SavedOrWaiting, Waits
  \* A step that signs and saves no token and finishes no login.
  <1>2. ASSUME NEW h \in Handlers, Handle(h), faults' = 0 => faults = 0,
               held' = held, built' = built, crossed' = crossed, ~At(h, "finish"),
               ~At(h, "rotate"), req'[h].pc # "rotate",
               \A s \in Sessions : session'[s].token = session[s].token,
               \A s \in Sessions : session'[s].state # "none" => session[s].state # "none"
        PROVE  NewestIsHeld'
    <2>1. ASSUME NEW s \in Sessions, TokensInOrder(s) PROVE TokensInOrder(s)'
      BY <1>2, <2>1, TokensKept DEF Waits
    <2>. QED
      BY <1>2, <2>1 DEF NewestIsHeld
  <1>3. ASSUME NEW h \in Handlers, Begin(h) PROVE NewestIsHeld'
    <2>1. PICK r \in Request : Arriving(r) /\ Arrive(h, r)
      BY <1>3, BeginMoves
    <2>2. req'[h].pc # "rotate" /\ ~At(h, "finish") /\ ~At(h, "rotate")
      BY <1>0, <1>3, <2>1 DEF Begin, Arrive, Arriving, Request
    <2>3. /\ session' = session /\ held' = held /\ faults' = faults
          /\ built' = built /\ crossed' = crossed
      BY <1>3 DEF Begin, history
    <2>. QED
      BY <1>2, <1>3, <2>2, <2>3 DEF Handle
  <1>4. ASSUME NEW h \in Handlers,
               \/ LoadUser(h) \/ ValidateRefresh(h) \/ Authenticate(h)
               \/ SetPassword(h) \/ ListSessions(h) \/ DisconnectSockets(h) \/ JoinRooms(h)
        PROVE  NewestIsHeld'
    <2>1. /\ session' = session /\ held' = held /\ faults' = faults
          /\ built' = built /\ crossed' = crossed /\ ~At(h, "finish") /\ ~At(h, "rotate")
      BY <1>4 DEF LoadUser, ValidateRefresh, Authenticate, SetPassword, ListSessions,
                  DisconnectSockets, JoinRooms, history
    <2>2. Handle(h)
      BY <1>4 DEF Handle
    <2>3. req'[h].pc # "rotate"
      <3>1. CASE LoadUser(h)
        BY <1>0, <3>1 DEF LoadUser, Goto, Proceed, Request
      <3>2. CASE ValidateRefresh(h)
        BY <1>0, <3>2 DEF ValidateRefresh, Goto, Proceed, Respond, Idle, Request
      <3>3. CASE Authenticate(h)
        <4>1. req'[h] = Idle \/ \E pc \in {"join", "user", "list"} :
                 req'[h] = [req[h] EXCEPT !.pc = pc]
          BY <1>0, <3>3 DEF Authenticate, Goto, Proceed, Respond
        <4>. QED
          BY <1>0, <4>1 DEF Idle, Request
      <3>4. CASE SetPassword(h)
        BY <1>0, <3>4 DEF SetPassword, Request
      <3>5. CASE ListSessions(h)
        BY <1>0, <3>5 DEF ListSessions, Goto, Request
      <3>6. CASE DisconnectSockets(h) \/ JoinRooms(h)
        BY <1>0, <3>6 DEF DisconnectSockets, JoinRooms, RespondRacing, Respond, Goto, Idle
      <3>. QED
        BY <1>4, <3>1, <3>2, <3>3, <3>4, <3>5, <3>6
    <2>. QED
      BY <1>2, <2>1, <2>2, <2>3
  <1>5. ASSUME NEW h \in Handlers, RevokeReused(h) \/ RevokeSessions(h) PROVE NewestIsHeld'
    <2>1. /\ held' = held /\ faults' = faults /\ built' = built /\ crossed' = crossed
          /\ ~At(h, "finish") /\ ~At(h, "rotate") /\ Handle(h)
      BY <1>5 DEF RevokeReused, RevokeSessions, Handle, history
    <2>2. req'[h].pc # "rotate"
      BY <1>0, <1>5 DEF RevokeReused, RevokeSessions, RespondRacing, Proceed, Goto, Idle, Request
    <2>3. /\ At(h, "kill") => Started(req[h].session)
          /\ \A s \in req[h].ids : Started(s)
      BY DEF TypeInv, WorksOnSession, HasSessions, OnSession
    <2>4. ASSUME NEW s \in Sessions
          PROVE  /\ session'[s].token = session[s].token
                 /\ session[s].state = "none" => session'[s].state = "none"
      <3>1. CASE RevokeReused(h)
        BY <1>0, <2>3, <3>1 DEF RevokeReused, Started, SessionDoc
      <3>2. CASE RevokeSessions(h)
        BY <1>0, <2>3, <3>2 DEF RevokeSessions, Started, SessionDoc
      <3>. QED
        BY <1>5, <3>1, <3>2
    <2>. QED
      BY <1>2, <2>1, <2>2, <2>4
  <1>6. ASSUME NEW h \in Handlers, CreateSession(h) PROVE NewestIsHeld'
    <2>1. PICK s \in Sessions :
             /\ session[s].state = "none"
             /\ session' = [session EXCEPT ![s] = [state |-> "live", token |-> 1]]
             /\ built' = [built EXCEPT ![s] = 1]
             /\ Goto(h, [req[h] EXCEPT !.session = s, !.pc = "finish"])
      BY <1>6 DEF CreateSession
    <2>2. /\ held' = held /\ faults' = faults /\ crossed' = crossed /\ At(h, "create")
          /\ session'[s].token = 1 /\ built'[s] = 1
          /\ \A x \in Sessions \ {s} : session'[x] = session[x] /\ built'[x] = built[x]
          /\ req'[h].pc = "finish" /\ req'[h].session = s
      BY <1>0, <1>6, <2>1 DEF CreateSession, Goto, Request
    <2>3. \A t \in held : t[1] # s
      BY <2>1 DEF TypeInv, TypeOK
    <2>4. \A g \in Handlers : ~Waits(g, s)
      BY <2>1 DEF TypeInv, TypeOK, Waits
    <2>5. \A g \in Handlers : ~Waits(g, s)'
      BY <1>6, <2>2, <2>4, OthersKeep DEF Unmoved, Waits, Handle
    <2>6. TokensInOrder(s)'
      BY <2>2, <2>3, <2>5 DEF TokensInOrder, TokenIsOut, SavedOrWaiting
    <2>7. ASSUME NEW x \in Sessions \ {s}, TokensInOrder(x) PROVE TokensInOrder(x)'
      BY <1>6, <2>2, <2>7, TokensKept DEF Waits, Handle
    <2>. QED
      BY <2>2, <2>6, <2>7 DEF NewestIsHeld
  <1>7. ASSUME NEW h \in Handlers, FinishLogin(h) PROVE NewestIsHeld'
    <2>1. /\ session' = session /\ faults' = faults /\ built' = built /\ crossed' = crossed
          /\ held' = held \cup {<<req[h].session, 1>>} /\ At(h, "finish")
          /\ req'[h].pc = "idle"
      BY <1>0, <1>7 DEF FinishLogin, history, Respond, Goto, Idle
    <2>2. ASSUME NEW s \in Sessions, TokensInOrder(s) PROVE TokensInOrder(s)'
      <3>1. \A t \in held' : t[1] = s => t \in held \/ t[2] = 1
        BY <2>1
      <3>. QED
        BY <1>7, <2>1, <2>2, <3>1, TokensKept DEF Waits, Handle
    <2>. QED
      BY <2>1, <2>2 DEF NewestIsHeld
  <1>8. ASSUME NEW h \in Handlers, BuildTokens(h) PROVE NewestIsHeld'
    <2>0. PICK x : x = req[h].session
      OBVIOUS
    <2>1. x \in Sessions /\ At(h, "user")
      BY <1>8, <2>0
         DEF BuildTokens, TypeInv, WorksOnSession, HasSessions, OnSession, Refreshing, Started
    <2>2. /\ session' = session /\ faults' = faults /\ held' = held
          /\ built' = [built EXCEPT ![x] = built[x] + 1]
          /\ crossed' = IF \E g \in Handlers : Waits(g, x)
                        THEN crossed \cup {x} ELSE crossed \ {x}
          /\ req' = [req EXCEPT ![h] = [req[h] EXCEPT !.next = built[x] + 1, !.pc = "rotate"]]
      BY <1>8, <2>0 DEF BuildTokens, Goto, Waits
    <2>3. /\ req'[h].pc = "rotate" /\ req'[h].session = x /\ req'[h].next = built[x] + 1
          /\ built'[x] = built[x] + 1 /\ \A s \in Sessions \ {x} : built'[s] = built[s]
      BY <1>0, <2>0, <2>1, <2>2 DEF Request
    <2>4. ASSUME NEW s \in Sessions \ {x}, TokensInOrder(s) PROVE TokensInOrder(s)'
      <3>1. s \in crossed' <=> s \in crossed
        BY <2>2
      <3>. QED
        BY <1>8, <2>1, <2>2, <2>3, <2>4, <3>1, TokensKept DEF Waits, Handle
    <2>5. ASSUME TokensInOrder(x) PROVE TokensInOrder(x)'
      <3>1. \A g \in Handlers \ {h} :
               /\ req'[g].pc = req[g].pc /\ req'[g].session = req[g].session
               /\ req'[g].next = req[g].next
        BY <1>8, OthersKeep DEF Unmoved, Handle
      <3>2. TokenIsOut(x)'
        BY <2>1, <2>2, <2>5, <3>1 DEF TokensInOrder, TokenIsOut
      <3>3. \A t \in held' : t[1] = x => t[2] =< built'[x]
        BY <1>0, <2>1, <2>2, <2>3, <2>5 DEF TokensInOrder
      <3>4. ASSUME NEW g \in Handlers, Waits(g, x)' PROVE req'[g].next =< built'[x]
        <4>1. CASE g = h
          BY <1>0, <2>1, <2>3, <4>1
        <4>2. CASE g # h
          <5>1. Waits(g, x) /\ req'[g].next = req[g].next
            BY <3>1, <3>4, <4>2 DEF Waits
          <5>2. req[g].next \in Nat /\ req[g].next =< built[x]
            BY <1>0, <2>5, <5>1 DEF TokensInOrder, Request
          <5>. QED
            BY <1>0, <2>1, <2>3, <5>1, <5>2
        <4>. QED
          BY <4>1, <4>2
      <3>5. x \notin crossed' => SavedOrWaiting(x)'
        <4>1. ASSUME x \notin crossed' PROVE \A g \in Handlers \ {h} : ~Waits(g, x)'
          BY <2>2, <3>1, <4>1 DEF Waits
        <4>2. Waits(h, x)' /\ req'[h].next = built'[x]
          BY <2>3 DEF Waits
        <4>. QED
          BY <4>1, <4>2 DEF SavedOrWaiting
      <3>6. built'[x] >= 1
        BY <1>0, <2>1, <2>3
      <3>. QED
        BY <3>2, <3>3, <3>4, <3>5, <3>6 DEF TokensInOrder
    <2>. QED
      BY <2>2, <2>4, <2>5 DEF NewestIsHeld
  <1>9. ASSUME NEW h \in Handlers, RotateTokens(h) PROVE NewestIsHeld'
    <2>0. PICK x : x = req[h].session
      OBVIOUS
    <2>1. Started(x) /\ At(h, "rotate") /\ Waits(h, x)
      BY <1>9, <2>0 DEF RotateTokens, TypeInv, WorksOnSession, HasSessions, OnSession,
                        Refreshing, Waits
    <2>2. /\ session'[x].token = req[h].next
          /\ \A s \in Sessions \ {x} : session'[s] = session[s]
          /\ built' = built /\ crossed' = crossed /\ req'[h].pc = "idle"
          /\ \/ faults' # 0
             \/ held' = held \cup {<<x, req[h].next>>} /\ faults' = faults
      BY <1>0, <1>9, <2>0, <2>1
         DEF RotateTokens, Started, SessionDoc, history, Respond, Goto, Idle
    <2>3. ASSUME held' = held \cup {<<x, req[h].next>>},
                 NEW s \in Sessions \ {x}, TokensInOrder(s)
          PROVE  TokensInOrder(s)'
      <3>1. \A t \in held' : t[1] = s => t \in held \/ t[2] = 1
        BY <2>3
      <3>. QED
        BY <1>9, <2>1, <2>2, <2>3, <3>1, TokensKept DEF Waits, Handle
    <2>4. ASSUME held' = held \cup {<<x, req[h].next>>}, TokensInOrder(x)
          PROVE  TokensInOrder(x)'
      <3>1. \A g \in Handlers \ {h} :
               /\ req'[g].pc = req[g].pc /\ req'[g].session = req[g].session
               /\ req'[g].next = req[g].next
        BY <1>9, OthersKeep DEF Unmoved, Handle
      <3>2. req[h].next =< built[x]
        BY <2>1, <2>4 DEF TokensInOrder
      <3>3. TokenIsOut(x)'
        BY <2>2, <2>4 DEF TokenIsOut
      <3>4. \A t \in held' : t[1] = x => t[2] =< built'[x]
        BY <2>2, <2>4, <3>2 DEF TokensInOrder
      <3>5. \A g \in Handlers : Waits(g, x)' => g # h /\ Waits(g, x)
        BY <2>2, <3>1 DEF Waits
      <3>6. \A g \in Handlers : Waits(g, x)' => req'[g].next =< built'[x]
        BY <2>2, <2>4, <3>1, <3>5 DEF TokensInOrder
      <3>7. x \notin crossed' => SavedOrWaiting(x)'
        <4>1. SavedOrWaiting(x) => \/ req[h].next = built[x] /\ \A g \in Handlers \ {h} : ~Waits(g, x)
          BY <2>1 DEF SavedOrWaiting
        <4>. QED
          BY <2>2, <2>4, <3>5, <4>1 DEF TokensInOrder, SavedOrWaiting
      <3>. QED
        BY <2>2, <2>4, <3>3, <3>4, <3>6, <3>7 DEF TokensInOrder
    <2>. QED
      BY <2>1, <2>2, <2>3, <2>4 DEF NewestIsHeld, Started
  <1>10. ASSUME NEW h \in Handlers, Fail(h) PROVE NewestIsHeld'
    BY <1>0, <1>10 DEF Fail, NewestIsHeld
  <1>11. ASSUME NEW s \in Sessions, SocketLeaves(s) \/ Expire(s) PROVE NewestIsHeld'
    <2>1. \A x \in Sessions : /\ session'[x].token = session[x].token
                              /\ session[x].state = "none" => session'[x].state = "none"
      BY <1>0, <1>11 DEF SocketLeaves, Expire, Live, SessionDoc
    <2>2. /\ req' = req /\ held' = held /\ faults' = faults
          /\ built' = built /\ crossed' = crossed
      BY <1>11 DEF SocketLeaves, Expire, history
    <2>3. ASSUME NEW x \in Sessions, TokensInOrder(x) PROVE TokensInOrder(x)'
      BY <2>1, <2>2, <2>3 DEF TokensInOrder, TokenIsOut, SavedOrWaiting, Waits
    <2>. QED
      BY <2>1, <2>2, <2>3 DEF NewestIsHeld
  <1>. QED
    BY <1>1, <1>3, <1>4, <1>5, <1>6, <1>7, <1>8, <1>9, <1>10, <1>11 DEF Next, Handle

(* Without failures no overlap of refreshes locks every client out: one of *)
(* them holds the token its session accepts, though each signs its token   *)
(* before its save and the saves come in any order; and it is the newest   *)
(* that was handed out, unless two of them waited for their saves at once  *)
(* (rotateSessionTokens).                                                  *)
THEOREM NewestTokenIsAccepted == Spec => []NewestTokenWorks
  <1>1. Init => NewestIsHeld
    BY DEF Init, NewestIsHeld, NoSession
  <1>2. TypeInv /\ NewestIsHeld => NewestTokenWorks
    <2>. SUFFICES ASSUME TypeInv, NewestIsHeld, Calm, NEW s \in Live
                  PROVE  /\ <<s, session[s].token>> \in held
                         /\ s \notin crossed =>
                               \A t \in held : t[1] = s => t[2] =< session[s].token
      BY DEF NewestTokenWorks
    <2>1. TokensInOrder(s) /\ \A h \in Handlers : req[h].pc = "idle"
      BY DEF NewestIsHeld, Calm, Busy, Live, At
    <2>2. <<s, session[s].token>> \in held
      BY <2>1 DEF TokensInOrder, TokenIsOut, At
    <2>3. s \notin crossed => session[s].token = built[s]
      BY <2>1 DEF TokensInOrder, SavedOrWaiting, Waits, At
    <2>. QED
      BY <2>1, <2>2, <2>3 DEF TokensInOrder
  <1>. QED
    BY <1>1, <1>2, NewestStep, Typed, PTL DEF Spec

----------------------------------------------------------------------------
(* The one-time codes. *)


(* What the module of the codes takes from the library is the same here.   *)
LEMMA SameCount == \A S : Otp!Cardinality(S) = Cardinality(S)
  BY DEF Otp!Cardinality, Cardinality

LEMMA SameFinite == \A S : Otp!IsFiniteSet(S) = IsFiniteSet(S)
  BY DEF Otp!IsFiniteSet, IsFiniteSet

(* What every proof about the codes needs of the bounds.                   *)
LEMMA CodeNumbers ==
    /\ MaxCodes \in Nat /\ MaxTime \in Nat /\ Expires \in Nat /\ Cooldown \in Nat
    /\ Window \in Nat /\ MaxPerWindow \in Nat /\ MaxAttempts \in Nat
  BY CodeBounds DEF Otp!CodesAssumption

Less == {m \in Nat \X Nat : m[1] < m[2]}

LEMMA LessWellFounded == IsWellFoundedOn(Less, Nat)
  BY NatLessThanWellFounded DEF OpToRel, Less

(* The largest code of a set that is not empty.                            *)
LEMMA NewestCode ==
    ASSUME NEW S, S \subseteq Otp!Codes, S # {}
    PROVE  Otp!Max(S) \in S /\ \A c \in S : c =< Otp!Max(S)
  <1>. DEFINE Room == {MaxCodes - c : c \in S}
  <1>1. \A c \in S : c \in Nat /\ MaxCodes - c \in Nat
    BY CodeNumbers DEF Otp!Codes
  <1>2. Room \subseteq Nat /\ Room # {}
    BY <1>1
  <1>3. PICK n \in Room : \A m \in Room : ~(<<m, n>> \in Less)
    BY <1>2, LessWellFounded, WFMin
  <1>4. PICK c \in S : n = MaxCodes - c
    BY <1>3
  <1>5. ASSUME NEW d \in S PROVE d =< c
    <2>1. MaxCodes - d \in Room /\ MaxCodes - d \in Nat /\ n \in Nat
      BY <1>1, <1>2
    <2>2. ~(MaxCodes - d < n)
      BY <1>3, <2>1 DEF Less
    <2>. QED
      BY <2>1, <2>2, <1>4, <1>1, CodeNumbers
  <1>6. \E x \in S : \A y \in S : x >= y
    BY <1>5, <1>1
  <1>7. Otp!Max(S) \in S /\ \A y \in S : Otp!Max(S) >= y
    BY <1>6 DEF Otp!Max
  <1>. QED
    BY <1>7, <1>1

LEMMA IdleCode == Otp!NoCode \in Otp!CodeDoc /\ Otp!Idle \in Otp!Request
  BY CodeNumbers DEF Otp!NoCode, Otp!CodeDoc, Otp!Idle, Otp!Request, Otp!None

LEMMA SentNumbers ==
    ASSUME Otp!TypeOK
    PROVE  /\ Otp!Sent \subseteq Otp!Codes /\ DOMAIN sentAt = Otp!Sent
           /\ Cardinality(Otp!Sent) \in Nat
           /\ \A c \in Otp!Sent : sentAt[c] \in Nat
           /\ \A c \in Otp!Codes : c \in Otp!Sent <=> c =< Cardinality(Otp!Sent)
  <1>1. Otp!Sent \subseteq Otp!Codes /\ DOMAIN sentAt = Otp!Sent /\ Otp!Sent = 1 .. Cardinality(Otp!Sent)
    BY SameCount DEF Otp!TypeOK, Otp!Sent
  <1>2. IsFiniteSet(Otp!Sent)
    <2>1. IsFiniteSet(Otp!Codes)
      BY CodeNumbers, FS_Interval DEF Otp!Codes
    <2>. QED
      BY <1>1, <2>1, FS_Subset
  <1>3. Cardinality(Otp!Sent) \in Nat
    BY <1>2, FS_CardinalityType
  <1>4. \A c \in Otp!Sent : sentAt[c] \in Nat
    BY <1>1 DEF Otp!TypeOK, Otp!Times
  <1>5. \A c \in Otp!Codes : c \in Nat /\ c >= 1
    BY DEF Otp!Codes
  <1>. QED
    BY <1>1, <1>3, <1>4, <1>5

(* The code that is sent next is the one after those that were sent.       *)
LEMMA NextNumber ==
    ASSUME Otp!TypeOK, NEW c, c = Cardinality(Otp!Sent) + 1, c =< MaxCodes,
           sentAt' = [d \in Otp!Sent \cup {c} |-> IF d = c THEN now ELSE sentAt[d]]
    PROVE  /\ c \in Otp!Codes \ Otp!Sent /\ Otp!Sent' = Otp!Sent \cup {c}
           /\ \A d \in Otp!Sent : d < c
           /\ Otp!Sent' = 1 .. Cardinality(Otp!Sent')
           /\ sentAt' \in [Otp!Sent' -> Otp!Times]
           /\ sentAt'[c] = now /\ \A d \in Otp!Sent : sentAt'[d] = sentAt[d]
  <1>1. /\ Otp!Sent \subseteq Otp!Codes /\ DOMAIN sentAt = Otp!Sent
        /\ Cardinality(Otp!Sent) \in Nat
        /\ \A d \in Otp!Codes : d \in Otp!Sent <=> d =< Cardinality(Otp!Sent)
    BY SentNumbers
  <1>2. c \in Otp!Codes /\ c \notin Otp!Sent /\ \A d \in Otp!Sent : d < c
    BY <1>1, CodeNumbers DEF Otp!Codes
  <1>3. DOMAIN sentAt' = Otp!Sent \cup {c}
    OBVIOUS
  <1>4. Otp!Sent' = Otp!Sent \cup {c}
    BY <1>1, <1>2, <1>3 DEF Otp!Sent
  <1>5. Otp!Sent \cup {c} = 1 .. c
    BY <1>1, <1>2, SameCount DEF Otp!TypeOK
  <1>6. Cardinality(Otp!Sent') = c
    <2>1. 1 \in Int /\ c \in Int /\ c >= 1
      BY <1>1
    <2>2. Cardinality(1 .. c) = c
      BY <2>1, FS_Interval
    <2>. QED
      BY <2>2, <1>4, <1>5
  <1>7. sentAt'[c] = now /\ \A d \in Otp!Sent : sentAt'[d] = sentAt[d]
    BY <1>2
  <1>8. sentAt' \in [Otp!Sent' -> Otp!Times]
    BY <1>4 DEF Otp!TypeOK
  <1>. QED
    BY <1>2, <1>4, <1>5, <1>6, <1>7, <1>8

(* The requests after a step: one has changed, to one that has its type.   *)
LEMMA OthersWait ==
    ASSUME Otp!TypeOK, NEW h \in Handlers, NEW r \in Otp!Request,
           codeReq' = [codeReq EXCEPT ![h] = r]
    PROVE  /\ codeReq' \in [Handlers -> Otp!Request] /\ codeReq'[h] = r
           /\ \A g \in Handlers \ {h} : codeReq'[g] = codeReq[g]
  BY DEF Otp!TypeOK

(* What a verification has loaded.                                         *)
LoadedIsOpen(r) ==
    r.pc \in {"miss", "hit"} =>
        r.code \in Otp!Sent /\ ~r.loaded.consumed /\ r.loaded.attempts < MaxAttempts

LEMMA ReqTypeKept ==
    ASSUME Otp!TypeOK, Otp!Sent \subseteq Otp!Sent', NEW h \in Handlers, NEW r \in Otp!Request,
           codeReq' = [codeReq EXCEPT ![h] = r], LoadedIsOpen(r)
    PROVE  /\ codeReq' \in [Handlers -> Otp!Request]
           /\ \A g \in Handlers : codeReq'[g].pc \in {"miss", "hit"} =>
                 /\ codeReq'[g].code \in Otp!Sent' /\ ~codeReq'[g].loaded.consumed
                 /\ codeReq'[g].loaded.attempts < MaxAttempts
  <1>1. /\ codeReq' \in [Handlers -> Otp!Request] /\ codeReq'[h] = r
        /\ \A g \in Handlers \ {h} : codeReq'[g] = codeReq[g]
    BY OthersWait
  <1>. QED
    BY <1>1 DEF Otp!TypeOK, LoadedIsOpen

(* A verification opens the newest code that is not consumed.              *)
LEMMA FoundIsOpen ==
    ASSUME Otp!TypeOK, NEW h \in Handlers, Otp!FindCode(h),
           ~(codeReq' = [codeReq EXCEPT ![h] = Otp!Idle])
    PROVE  \E c \in Otp!Stored, pc \in {"hit", "miss"} :
              /\ ~code[c].consumed /\ code[c].attempts < MaxAttempts /\ c \in Otp!Sent
              /\ [pc |-> pc, code |-> c, loaded |-> code[c]] \in Otp!Request
              /\ codeReq' = [codeReq EXCEPT ![h] = [pc |-> pc, code |-> c, loaded |-> code[c]]]
  <1>. DEFINE open == {c \in Otp!Stored : ~code[c].consumed}
              c == Otp!Max(open)
  <1>1. open # {} /\ ~(code[c].attempts >= MaxAttempts)
    BY DEF Otp!FindCode, Otp!Respond
  <1>2. open \subseteq Otp!Codes
    BY DEF Otp!Stored
  <1>3. c \in open
    BY <1>1, <1>2, NewestCode
  <1>4. PICK right \in BOOLEAN :
           codeReq' = [codeReq EXCEPT ![h] = [pc |-> IF right THEN "hit" ELSE "miss",
                                              code |-> c, loaded |-> code[c]]]
    BY <1>1 DEF Otp!FindCode, Otp!Respond
  <1>. HIDE DEF c
  <1>5. code[c] \in Otp!CodeDoc /\ c \in Otp!Codes
    BY <1>2, <1>3 DEF Otp!TypeOK
  <1>6. code[c].attempts < MaxAttempts
    BY <1>1, <1>5, CodeNumbers DEF Otp!CodeDoc
  <1>7. c \in Otp!Stored /\ c \in Otp!Sent /\ ~code[c].consumed
    BY <1>3 DEF Otp!TypeOK
  <1>8. \A pc \in {"hit", "miss"} : [pc |-> pc, code |-> c, loaded |-> code[c]] \in Otp!Request
    BY <1>5 DEF Otp!Request
  <1>9. codeReq' = [codeReq EXCEPT ![h] = [pc |-> "hit", code |-> c, loaded |-> code[c]]]
        \/ codeReq' = [codeReq EXCEPT ![h] = [pc |-> "miss", code |-> c, loaded |-> code[c]]]
    BY <1>4
  <1>. QED
    BY <1>6, <1>7, <1>8, <1>9

LEMMA OneMore ==
    ASSUME NEW f \in [Otp!Codes -> Nat], NEW c \in Otp!Codes
    PROVE  [f EXCEPT ![c] = @ + 1] \in [Otp!Codes -> Nat]
  OBVIOUS

LEMMA CodesTypeInit == Otp!Init => Otp!TypeOK
  <1>. SUFFICES ASSUME Otp!Init PROVE Otp!TypeOK
    OBVIOUS
  <1>1. Otp!Sent = {} /\ Otp!Stored = {}
    BY DEF Otp!Init, Otp!Sent, Otp!Stored, Otp!NoCode
  <1>2. Cardinality(Otp!Sent) = 0
    BY <1>1, FS_EmptySet
  <1>3. sentAt \in [Otp!Sent -> Otp!Times]
    BY <1>1 DEF Otp!Init
  <1>4. codeReq \in [Handlers -> Otp!Request] /\ code \in [Otp!Codes -> Otp!CodeDoc]
    BY IdleCode DEF Otp!Init
  <1>5. \A h \in Handlers : codeReq[h].pc = "idle"
    BY DEF Otp!Init, Otp!Idle
  <1>6. now \in Otp!Times /\ Otp!Sent = 1 .. Cardinality(Otp!Sent) /\ Otp!Stored \subseteq Otp!Sent
    BY <1>1, <1>2, CodeNumbers DEF Otp!Init, Otp!Times
  <1>7. tried \in [Otp!Codes -> Nat] /\ accepted \in [Otp!Codes -> Nat] /\ overlap \in BOOLEAN
    BY DEF Otp!Init
  <1>. QED
    BY <1>3, <1>4, <1>5, <1>6, <1>7, SameCount DEF Otp!TypeOK

LEMMA CodesTypeStep == Otp!TypeOK /\ [Otp!Next]_(Otp!vars) => Otp!TypeOK'
  <1>. SUFFICES ASSUME Otp!TypeOK, [Otp!Next]_(Otp!vars) PROVE Otp!TypeOK'
    OBVIOUS
  <1>0. Otp!Idle \in Otp!Request /\ LoadedIsOpen(Otp!Idle)
    BY IdleCode DEF LoadedIsOpen, Otp!Idle
  <1>1. ASSUME NEW h \in Handlers, Otp!Begin(h) PROVE Otp!TypeOK'
    <2>1. PICK pc \in {"latest", "find"} : Otp!Proceed(h, pc)
      BY <1>1 DEF Otp!Begin
    <2>. DEFINE r == [codeReq[h] EXCEPT !.pc = pc]
    <2>2. r \in Otp!Request /\ LoadedIsOpen(r) /\ codeReq' = [codeReq EXCEPT ![h] = r]
      BY <2>1 DEF Otp!TypeOK, Otp!Request, LoadedIsOpen, Otp!Proceed
    <2>. HIDE DEF r
    <2>3. Otp!Sent' = Otp!Sent /\ Otp!Stored' = Otp!Stored
      BY <1>1 DEF Otp!Begin, Otp!Sent, Otp!Stored
    <2>4. tried' \in [Otp!Codes -> Nat] /\ overlap' \in BOOLEAN
      BY <1>1 DEF Otp!Begin, Otp!TypeOK
    <2>. QED
      BY <1>1, <2>2, <2>3, <2>4, ReqTypeKept DEF Otp!Begin, Otp!TypeOK
  <1>2. ASSUME NEW h \in Handlers,
               Otp!CheckCooldown(h) \/ Otp!CheckWindow(h) \/ Otp!Fail(h) PROVE Otp!TypeOK'
    <2>1. PICK r \in Otp!Request : LoadedIsOpen(r) /\ codeReq' = [codeReq EXCEPT ![h] = r]
      <3>1. CASE Otp!Respond(h)
        BY <1>0, <3>1 DEF Otp!Respond
      <3>2. CASE \E pc \in {"count", "create"} : Otp!Proceed(h, pc)
        <4>1. PICK pc \in {"count", "create"} : Otp!Proceed(h, pc)
          BY <3>2
        <4>2. [codeReq[h] EXCEPT !.pc = pc] \in Otp!Request /\ LoadedIsOpen([codeReq[h] EXCEPT !.pc = pc])
          BY DEF Otp!TypeOK, Otp!Request, LoadedIsOpen
        <4>. QED
          BY <4>1, <4>2 DEF Otp!Proceed
      <3>. QED
        BY <1>2, <3>1, <3>2 DEF Otp!CheckCooldown, Otp!CheckWindow, Otp!Fail
    <2>2. UNCHANGED <<now, code, sentAt, tried, accepted, overlap>>
      BY <1>2 DEF Otp!CheckCooldown, Otp!CheckWindow, Otp!Fail
    <2>3. Otp!Sent' = Otp!Sent /\ Otp!Stored' = Otp!Stored
      BY <2>2 DEF Otp!Sent, Otp!Stored
    <2>. QED
      BY <2>1, <2>2, <2>3, ReqTypeKept DEF Otp!TypeOK
  <1>3. ASSUME NEW h \in Handlers, Otp!CreateCode(h) PROVE Otp!TypeOK'
    <2>. DEFINE c == Cardinality(Otp!Sent) + 1
    <2>1. /\ c \in Otp!Codes \ Otp!Sent /\ Otp!Sent' = Otp!Sent \cup {c}
          /\ Otp!Sent' = 1 .. Cardinality(Otp!Sent') /\ sentAt' \in [Otp!Sent' -> Otp!Times]
      BY <1>3, NextNumber, SameCount DEF Otp!CreateCode
    <2>2. code' = [code EXCEPT ![c].exists = TRUE]
      BY <1>3, SameCount DEF Otp!CreateCode
    <2>. HIDE DEF c
    <2>3. code' \in [Otp!Codes -> Otp!CodeDoc] /\ Otp!Stored' \subseteq Otp!Stored \cup {c}
      BY ZenonT(40), <2>1, <2>2 DEF Otp!TypeOK, Otp!CodeDoc, Otp!Stored
    <2>. QED
      BY <1>0, <1>3, <2>1, <2>3, ReqTypeKept, SameCount DEF Otp!CreateCode, Otp!Respond, Otp!TypeOK
  <1>4. ASSUME NEW h \in Handlers, Otp!FindCode(h) PROVE Otp!TypeOK'
    <2>1. PICK r \in Otp!Request : LoadedIsOpen(r) /\ codeReq' = [codeReq EXCEPT ![h] = r]
      <3>1. CASE codeReq' = [codeReq EXCEPT ![h] = Otp!Idle]
        BY <1>0, <3>1
      <3>2. CASE ~(codeReq' = [codeReq EXCEPT ![h] = Otp!Idle])
        <4>1. PICK c \in Otp!Stored, pc \in {"hit", "miss"} :
                /\ ~code[c].consumed /\ code[c].attempts < MaxAttempts /\ c \in Otp!Sent
                /\ [pc |-> pc, code |-> c, loaded |-> code[c]] \in Otp!Request
                /\ codeReq' = [codeReq EXCEPT ![h] = [pc |-> pc, code |-> c, loaded |-> code[c]]]
          BY <1>4, <3>2, FoundIsOpen
        <4>2. LoadedIsOpen([pc |-> pc, code |-> c, loaded |-> code[c]])
          BY <4>1 DEF LoadedIsOpen
        <4>. QED
          BY <4>1, <4>2
      <3>. QED
        BY <3>1, <3>2
    <2>2. UNCHANGED <<now, code, sentAt, tried, accepted, overlap>>
      BY <1>4 DEF Otp!FindCode
    <2>3. Otp!Sent' = Otp!Sent /\ Otp!Stored' = Otp!Stored
      BY <2>2 DEF Otp!Sent, Otp!Stored
    <2>. QED
      BY <2>1, <2>2, <2>3, ReqTypeKept DEF Otp!TypeOK
  <1>5. ASSUME NEW h \in Handlers, Otp!CountAttempt(h) \/ Otp!Consume(h) PROVE Otp!TypeOK'
    <2>1. codeReq[h] \in Otp!Request /\ codeReq[h].code \in Otp!Sent /\ codeReq[h].code \in Otp!Codes
          /\ codeReq[h].loaded.attempts < MaxAttempts /\ codeReq[h].loaded \in Otp!CodeDoc
      BY <1>5, SentNumbers DEF Otp!CountAttempt, Otp!Consume, Otp!At, Otp!TypeOK, Otp!Request
    <2>2. code' \in [Otp!Codes -> Otp!CodeDoc] /\ Otp!Stored' \subseteq Otp!Stored
      <3>1. CASE Otp!CountAttempt(h)
        <4>1. codeReq[h].loaded.attempts + 1 \in 0 .. MaxAttempts
          BY <2>1, CodeNumbers DEF Otp!CodeDoc
        <4>. QED
          BY <2>1, <3>1, <4>1 DEF Otp!CountAttempt, Otp!TypeOK, Otp!CodeDoc, Otp!Stored
      <3>2. CASE Otp!Consume(h)
        <4>1. \/ code' = code
              \/ code' = [code EXCEPT ![codeReq[h].code].consumed = TRUE]
          BY <3>2 DEF Otp!Consume
        <4>. QED
          BY ZenonT(40), <4>1, <2>1 DEF Otp!TypeOK, Otp!CodeDoc, Otp!Stored
      <3>. QED
        BY <1>5, <3>1, <3>2
    <2>3. tried' \in [Otp!Codes -> Nat] /\ accepted' \in [Otp!Codes -> Nat]
      <3>1. /\ tried' = tried \/ tried' = [tried EXCEPT ![codeReq[h].code] = @ + 1]
            /\ accepted' = accepted \/ accepted' = [accepted EXCEPT ![codeReq[h].code] = @ + 1]
        BY <1>5 DEF Otp!CountAttempt, Otp!Consume, Otp!Tried
      <3>2. tried \in [Otp!Codes -> Nat] /\ accepted \in [Otp!Codes -> Nat]
        BY DEF Otp!TypeOK
      <3>3. tried' \in [Otp!Codes -> Nat]
        BY <3>1, <3>2, <2>1, OneMore
      <3>4. accepted' \in [Otp!Codes -> Nat]
        BY <3>1, <3>2, <2>1, OneMore
      <3>. QED
        BY <3>3, <3>4
    <2>4. Otp!Sent' = Otp!Sent /\ UNCHANGED <<now, sentAt, overlap>> /\ codeReq' = [codeReq EXCEPT ![h] = Otp!Idle]
      BY <1>5 DEF Otp!CountAttempt, Otp!Consume, Otp!Sent, Otp!Respond
    <2>. QED
      BY <1>0, <2>2, <2>3, <2>4, ReqTypeKept DEF Otp!TypeOK
  <1>6. CASE Otp!Tick
    <2>1. now' \in Otp!Times /\ UNCHANGED <<code, codeReq, sentAt, tried, accepted, overlap>>
      BY <1>6, CodeNumbers DEF Otp!Tick, Otp!TypeOK, Otp!Times
    <2>2. Otp!Sent' = Otp!Sent /\ Otp!Stored' = Otp!Stored
      BY <2>1 DEF Otp!Sent, Otp!Stored
    <2>. QED
      BY <2>1, <2>2 DEF Otp!TypeOK
  <1>7. ASSUME NEW c \in Otp!Codes, Otp!Purge(c) PROVE Otp!TypeOK'
    <2>1. code' \in [Otp!Codes -> Otp!CodeDoc] /\ Otp!Stored' \subseteq Otp!Stored
      BY <1>7, IdleCode DEF Otp!Purge, Otp!TypeOK, Otp!Stored, Otp!NoCode
    <2>. QED
      BY <1>7, <2>1 DEF Otp!Purge, Otp!TypeOK, Otp!Sent
  <1>8. CASE UNCHANGED Otp!vars
    BY <1>8 DEF Otp!vars, Otp!TypeOK, Otp!Sent, Otp!Stored
  <1>. QED
    BY <1>1, <1>2, <1>3, <1>4, <1>5, <1>6, <1>7, <1>8 DEF Otp!Next, Otp!Handle

----------------------------------------------------------------------------
(* What a code is, and how the requests overlap. *)

LEMMA CodesAreNewStep == Otp!TypeOK /\ Otp!CodesAreNew /\ [Otp!Next]_(Otp!vars) => Otp!CodesAreNew'
  <1>. SUFFICES ASSUME Otp!TypeOK, Otp!CodesAreNew, [Otp!Next]_(Otp!vars) PROVE Otp!CodesAreNew'
    OBVIOUS
  <1>. USE DEF Otp!CodesAreNew
  <1>1. ASSUME NEW h \in Handlers, Otp!Begin(h) PROVE Otp!CodesAreNew'
    BY <1>1 DEF Otp!Begin, Otp!Sent, Otp!TypeOK
  <1>2. ASSUME NEW h \in Handlers,
               Otp!CheckCooldown(h) \/ Otp!CheckWindow(h) \/ Otp!FindCode(h) \/ Otp!Fail(h)
        PROVE  Otp!CodesAreNew'
    BY <1>2 DEF Otp!CheckCooldown, Otp!CheckWindow, Otp!FindCode, Otp!Fail, Otp!Sent
  <1>3. ASSUME NEW h \in Handlers, Otp!CreateCode(h) PROVE Otp!CodesAreNew'
    <2>. DEFINE c == Cardinality(Otp!Sent) + 1
    <2>1. c \in Otp!Codes \ Otp!Sent /\ Otp!Sent' = Otp!Sent \cup {c}
      BY <1>3, NextNumber, SameCount DEF Otp!CreateCode
    <2>2. code' = [code EXCEPT ![c].exists = TRUE] /\ UNCHANGED <<tried, accepted>>
      BY <1>3, SameCount DEF Otp!CreateCode
    <2>. HIDE DEF c
    <2>. QED
      BY <2>1, <2>2 DEF Otp!TypeOK, Otp!CodeDoc
  <1>4. ASSUME NEW h \in Handlers, Otp!CountAttempt(h) \/ Otp!Consume(h) PROVE Otp!CodesAreNew'
    <2>1. codeReq[h].code \in Otp!Sent /\ Otp!Sent' = Otp!Sent
      BY <1>4 DEF Otp!CountAttempt, Otp!Consume, Otp!At, Otp!TypeOK, Otp!Sent
    <2>2. \A c \in Otp!Codes : ~code'[c].exists => code'[c] = Otp!NoCode
      <3>1. \/ code' = code
            \/ /\ code[codeReq[h].code].exists
               /\ \/ code' = [code EXCEPT ![codeReq[h].code].consumed = TRUE]
                  \/ code' = [code EXCEPT ![codeReq[h].code].attempts = codeReq[h].loaded.attempts + 1]
        BY <1>4 DEF Otp!CountAttempt, Otp!Consume
      <3>2. codeReq[h].code \in Otp!Codes
        BY <2>1, SentNumbers
      <3>3. \A c \in Otp!Codes : code'[c].exists = code[c].exists
        <4>1. CASE code' = code
          BY <4>1
        <4>2. CASE code' = [code EXCEPT ![codeReq[h].code].consumed = TRUE]
          BY <4>2, <3>2 DEF Otp!TypeOK, Otp!CodeDoc
        <4>3. CASE code' = [code EXCEPT ![codeReq[h].code].attempts = codeReq[h].loaded.attempts + 1]
          BY <4>3, <3>2 DEF Otp!TypeOK, Otp!CodeDoc
        <4>. QED
          BY <3>1, <4>1, <4>2, <4>3
      <3>4. \A c \in Otp!Codes : ~code[c].exists => code'[c] = code[c]
        BY <3>1 DEF Otp!TypeOK, Otp!CodeDoc
      <3>. QED
        BY <3>3, <3>4
    <2>3. /\ tried' = tried \/ tried' = [tried EXCEPT ![codeReq[h].code] = @ + 1]
          /\ accepted' = accepted \/ accepted' = [accepted EXCEPT ![codeReq[h].code] = @ + 1]
      BY <1>4 DEF Otp!CountAttempt, Otp!Consume, Otp!Tried
    <2>4. \A c \in Otp!Codes : c \notin Otp!Sent => tried'[c] = 0 /\ accepted'[c] = 0
      BY <2>1, <2>3 DEF Otp!TypeOK
    <2>. QED
      BY <2>1, <2>2, <2>4
  <1>5. CASE Otp!Tick \/ UNCHANGED Otp!vars
    BY <1>5 DEF Otp!Tick, Otp!vars, Otp!Sent
  <1>6. ASSUME NEW c \in Otp!Codes, Otp!Purge(c) PROVE Otp!CodesAreNew'
    BY <1>6 DEF Otp!Purge, Otp!Sent, Otp!TypeOK
  <1>. QED
    BY <1>1, <1>2, <1>3, <1>4, <1>5, <1>6 DEF Otp!Next, Otp!Handle

(* A request that has begun changes no other; and none begins otherwise.   *)
LEMMA OneRequestMoves ==
    ASSUME Otp!TypeOK, NEW h \in Handlers, Otp!Handle(h)
    PROVE  \E r \in Otp!Request : codeReq' = [codeReq EXCEPT ![h] = r]
  <1>. USE IdleCode DEF Otp!TypeOK
  <1>1. CASE Otp!Begin(h)
    <2>1. PICK pc \in {"latest", "find"} : Otp!Proceed(h, pc)
      BY <1>1 DEF Otp!Begin
    <2>2. [codeReq[h] EXCEPT !.pc = pc] \in Otp!Request
      BY DEF Otp!Request
    <2>. QED
      BY <2>1, <2>2 DEF Otp!Proceed
  <1>2. CASE Otp!CheckCooldown(h) \/ Otp!CheckWindow(h)
    <2>1. Otp!Respond(h) \/ Otp!Proceed(h, "count") \/ Otp!Proceed(h, "create")
      BY <1>2 DEF Otp!CheckCooldown, Otp!CheckWindow
    <2>2. \A pc \in {"count", "create"} : [codeReq[h] EXCEPT !.pc = pc] \in Otp!Request
      BY DEF Otp!Request
    <2>. QED
      BY <2>1, <2>2 DEF Otp!Proceed, Otp!Respond
  <1>3. CASE Otp!FindCode(h)
    BY <1>3, FoundIsOpen
  <1>4. CASE Otp!CreateCode(h) \/ Otp!CountAttempt(h) \/ Otp!Consume(h) \/ Otp!Fail(h)
    BY <1>4 DEF Otp!CreateCode, Otp!CountAttempt, Otp!Consume, Otp!Fail, Otp!Respond
  <1>. QED
    BY <1>1, <1>2, <1>3, <1>4 DEF Otp!Handle

LEMMA LoneRequestStep == Otp!TypeOK /\ Otp!LoneRequest /\ [Otp!Next]_(Otp!vars) => Otp!LoneRequest'
  <1>. SUFFICES ASSUME Otp!TypeOK, Otp!LoneRequest, [Otp!Next]_(Otp!vars), ~overlap',
                       NEW g \in Handlers, NEW k \in Handlers, ~Otp!At(g, "idle")', ~Otp!At(k,
                       "idle")'
                PROVE  g = k
    BY DEF Otp!LoneRequest
  <1>1. ASSUME NEW h \in Handlers, Otp!Handle(h) PROVE g = k
    <2>1. PICK r \in Otp!Request : codeReq' = [codeReq EXCEPT ![h] = r]
      BY <1>1, OneRequestMoves
    <2>2. \A x \in Handlers \ {h} : Otp!At(x, "idle")' <=> Otp!At(x, "idle")
      BY <2>1, OthersWait DEF Otp!At
    <2>3. CASE Otp!Begin(h)
      <3>1. \A x \in Handlers \ {h} : Otp!At(x, "idle")
        BY <2>3 DEF Otp!Begin
      <3>. QED
        BY <3>1, <2>2
    <2>4. CASE ~Otp!Begin(h)
      <3>1. ~Otp!At(h, "idle") /\ overlap' = overlap
        BY <1>1, <2>4 DEF Otp!Handle, Otp!CheckCooldown, Otp!CheckWindow, Otp!CreateCode,
                          Otp!FindCode, Otp!CountAttempt,
                          Otp!Consume, Otp!Fail, Otp!At
      <3>. QED
        BY <3>1, <2>2 DEF Otp!LoneRequest
    <2>. QED
      BY <2>3, <2>4
  <1>2. CASE Otp!Tick \/ (\E c \in Otp!Codes : Otp!Purge(c)) \/ UNCHANGED Otp!vars
    BY <1>2 DEF Otp!Tick, Otp!Purge, Otp!vars, Otp!LoneRequest, Otp!At
  <1>. QED
    BY <1>1, <1>2 DEF Otp!Next

----------------------------------------------------------------------------
(* A code is used once. *)

LEMMA AcceptingFinite ==
    ASSUME NEW c
    PROVE  /\ IsFiniteSet(Otp!Accepting(c)) /\ Cardinality(Otp!Accepting(c)) \in Nat
           /\ Cardinality(Otp!Accepting(c)) =< Cardinality(Handlers)
           /\ Cardinality(Handlers) \in Nat
  <1>1. IsFiniteSet(Handlers) /\ Otp!Accepting(c) \subseteq Handlers
    BY CodeBounds, SameCount, SameFinite DEF Otp!CodesAssumption, Otp!Accepting
  <1>. QED
    BY <1>1, FS_Subset, FS_CardinalityType

(* Nobody accepts a code, and no code becomes open again.                  *)
LEMMA UsesKept ==
    ASSUME Otp!TypeOK, Otp!UsesCounted, accepted' = accepted, overlap => overlap',
           \A c \in Otp!Codes : Otp!Accepting(c)' \subseteq Otp!Accepting(c),
           \A c \in Otp!Codes : accepted[c] > 0 => code'[c].consumed \/ ~code'[c].exists
    PROVE  Otp!UsesCounted'
  <1>. SUFFICES ASSUME NEW c \in Otp!Codes
                PROVE  /\ accepted[c] + Cardinality(Otp!Accepting(c)') =< Cardinality(Handlers)
                       /\ ~overlap' => accepted[c] =< 1 /\ (Otp!Accepting(c)' # {} => accepted[c] = 0)
    BY SameCount DEF Otp!UsesCounted, Otp!Accepting
  <1>1. /\ IsFiniteSet(Otp!Accepting(c)) /\ Cardinality(Otp!Accepting(c)) \in Nat
        /\ Cardinality(Handlers) \in Nat /\ accepted[c] \in Nat
    BY AcceptingFinite DEF Otp!TypeOK
  <1>2. /\ Cardinality(Otp!Accepting(c)') \in Nat
        /\ Cardinality(Otp!Accepting(c)') =< Cardinality(Otp!Accepting(c))
    BY <1>1, FS_Subset, FS_CardinalityType
  <1>3. accepted[c] + Cardinality(Otp!Accepting(c)) =< Cardinality(Handlers)
    BY SameCount DEF Otp!UsesCounted
  <1>4. accepted[c] + Cardinality(Otp!Accepting(c)') =< Cardinality(Handlers)
    BY <1>1, <1>2, <1>3
  <1>5. ~overlap' => accepted[c] =< 1 /\ (Otp!Accepting(c) # {} => accepted[c] = 0)
    BY DEF Otp!UsesCounted
  <1>. QED
    BY <1>4, <1>5

LEMMA FindUses ==
    ASSUME Otp!TypeOK, Otp!UsesCounted, NEW h \in Handlers, Otp!FindCode(h)
    PROVE  Otp!UsesCounted'
  <1>1. UNCHANGED <<accepted, code, overlap>> /\ Otp!At(h, "find")
    BY DEF Otp!FindCode
  <1>2. CASE codeReq' = [codeReq EXCEPT ![h] = Otp!Idle]
    <2>1. \A c \in Otp!Codes : Otp!Accepting(c)' \subseteq Otp!Accepting(c)
      BY <1>2, IdleCode, OthersWait DEF Otp!Accepting, Otp!At, Otp!Idle
    <2>. QED
      BY <1>1, <2>1, UsesKept DEF Otp!UsesCounted
  <1>3. CASE ~(codeReq' = [codeReq EXCEPT ![h] = Otp!Idle])
    <2>1. PICK d \in Otp!Stored, pc \in {"hit", "miss"} :
            /\ ~code[d].consumed /\ code[d].attempts < MaxAttempts /\ d \in Otp!Sent
            /\ [pc |-> pc, code |-> d, loaded |-> code[d]] \in Otp!Request
            /\ codeReq' = [codeReq EXCEPT ![h] = [pc |-> pc, code |-> d, loaded |-> code[d]]]
      BY <1>3, FoundIsOpen
    <2>2. d \in Otp!Codes /\ code[d].exists /\ ~code[d].consumed
      BY <2>1 DEF Otp!Stored
    <2>3. accepted[d] = 0
      BY <2>2 DEF Otp!UsesCounted, Otp!TypeOK
    <2>4. \A c \in Otp!Codes \ {d} : Otp!Accepting(c)' \subseteq Otp!Accepting(c)
      BY <2>1, OthersWait DEF Otp!Accepting, Otp!At
    <2>5. Cardinality(Otp!Accepting(d)') \in Nat /\ Cardinality(Otp!Accepting(d)') =< Cardinality(Handlers)
      <3>1. IsFiniteSet(Handlers) /\ Otp!Accepting(d)' \subseteq Handlers
        BY CodeBounds, SameCount, SameFinite DEF Otp!CodesAssumption, Otp!Accepting
      <3>. QED
        BY <3>1, FS_Subset, FS_CardinalityType
    <2>6. ASSUME NEW c \in Otp!Codes
          PROVE  /\ accepted[c] + Cardinality(Otp!Accepting(c)') =< Cardinality(Handlers)
                 /\ ~overlap => accepted[c] =< 1 /\ (Otp!Accepting(c)' # {} => accepted[c] = 0)
      <3>1. CASE c = d
        BY <3>1, <2>3, <2>5
      <3>2. CASE c # d
        <4>1. /\ IsFiniteSet(Otp!Accepting(c)) /\ Cardinality(Otp!Accepting(c)) \in Nat
              /\ Cardinality(Handlers) \in Nat /\ accepted[c] \in Nat
          BY AcceptingFinite DEF Otp!TypeOK
        <4>2. /\ Cardinality(Otp!Accepting(c)') \in Nat
              /\ Cardinality(Otp!Accepting(c)') =< Cardinality(Otp!Accepting(c))
              /\ Otp!Accepting(c)' \subseteq Otp!Accepting(c)
          BY <3>2, <2>4, <4>1, FS_Subset, FS_CardinalityType
        <4>3. /\ accepted[c] + Cardinality(Otp!Accepting(c)) =< Cardinality(Handlers)
              /\ ~overlap => accepted[c] =< 1 /\ (Otp!Accepting(c) # {} => accepted[c] = 0)
          BY SameCount DEF Otp!UsesCounted
        <4>4. accepted[c] + Cardinality(Otp!Accepting(c)') =< Cardinality(Handlers)
          BY <4>1, <4>2, <4>3
        <4>. QED
          BY <4>2, <4>3, <4>4
      <3>. QED
        BY <3>1, <3>2
    <2>7. \A c \in Otp!Codes : accepted[c] > 0 => code[c].consumed \/ ~code[c].exists
      BY DEF Otp!UsesCounted
    <2>. QED
      BY <1>1, <2>6, <2>7, SameCount DEF Otp!UsesCounted, Otp!Accepting
  <1>. QED
    BY <1>2, <1>3

LEMMA ConsumeUses ==
    ASSUME Otp!TypeOK, Otp!UsesCounted, Otp!LoneRequest, NEW h \in Handlers, Otp!Consume(h)
    PROVE  Otp!UsesCounted'
  <1>. DEFINE d == codeReq[h].code
  <1>1. d \in Otp!Codes /\ Otp!At(h, "hit") /\ h \in Otp!Accepting(d)
    BY SentNumbers DEF Otp!Consume, Otp!At, Otp!TypeOK, Otp!Accepting
  <1>2. codeReq' = [codeReq EXCEPT ![h] = Otp!Idle] /\ overlap' = overlap
    BY DEF Otp!Consume, Otp!Respond
  <1>3. \A c \in Otp!Codes : Otp!Accepting(c)' = Otp!Accepting(c) \ {h}
    BY <1>2, IdleCode, OthersWait DEF Otp!Accepting, Otp!At, Otp!Idle
  <1>4. CASE UNCHANGED <<code, accepted>>
    <2>1. \A c \in Otp!Codes : Otp!Accepting(c)' \subseteq Otp!Accepting(c)
      BY <1>3
    <2>. QED
      BY <1>2, <1>4, <2>1, UsesKept DEF Otp!UsesCounted
  <1>5. CASE /\ code' = [code EXCEPT ![d].consumed = TRUE]
             /\ accepted' = [accepted EXCEPT ![d] = @ + 1]
    <2>1. \A c \in Otp!Codes : code'[c].consumed \/ (c # d /\ code'[c] = code[c])
      BY <1>1, <1>5 DEF Otp!TypeOK, Otp!CodeDoc
    <2>2. /\ accepted'[d] = accepted[d] + 1
          /\ \A c \in Otp!Codes \ {d} : accepted'[c] = accepted[c]
      BY <1>1, <1>5 DEF Otp!TypeOK
    <2>. HIDE DEF d
    <2>3. \A c \in Otp!Codes : accepted'[c] > 0 => code'[c].consumed \/ ~code'[c].exists
      BY <2>1, <2>2 DEF Otp!UsesCounted
    <2>4. ASSUME NEW c \in Otp!Codes
          PROVE  /\ accepted'[c] + Cardinality(Otp!Accepting(c)') =< Cardinality(Handlers)
                 /\ ~overlap => accepted'[c] =< 1 /\ (Otp!Accepting(c)' # {} => accepted'[c] = 0)
      <3>1. /\ IsFiniteSet(Otp!Accepting(c)) /\ Cardinality(Otp!Accepting(c)) \in Nat
            /\ Cardinality(Handlers) \in Nat /\ accepted[c] \in Nat
        BY AcceptingFinite DEF Otp!TypeOK
      <3>2. /\ accepted[c] + Cardinality(Otp!Accepting(c)) =< Cardinality(Handlers)
            /\ ~overlap => accepted[c] =< 1 /\ (Otp!Accepting(c) # {} => accepted[c] = 0)
        BY SameCount DEF Otp!UsesCounted
      <3>3. Cardinality(Otp!Accepting(c)') =
              IF h \in Otp!Accepting(c) THEN Cardinality(Otp!Accepting(c)) - 1 ELSE Cardinality(Otp!Accepting(c))
        BY <1>3, <3>1, FS_RemoveElement
      <3>4. CASE c = d
        <4>1. accepted'[c] + Cardinality(Otp!Accepting(c)') =< Cardinality(Handlers)
          BY <3>1, <3>2, <3>3, <3>4, <1>1, <2>2
        <4>2. ~overlap => Otp!Accepting(c)' = {} /\ accepted[c] = 0
          <5>1. ~overlap => \A g \in Handlers : Otp!At(g, "hit") => g = h
            BY <1>1 DEF Otp!LoneRequest, Otp!At
          <5>. QED
            BY <5>1, <1>1, <1>3, <3>2, <3>4 DEF Otp!Accepting
        <4>. QED
          BY <4>1, <4>2, <2>2, <3>4
      <3>5. CASE c # d
        <4>1. h \notin Otp!Accepting(c)
          BY <3>5 DEF Otp!Accepting, d
        <4>2. Otp!Accepting(c)' = Otp!Accepting(c)
          BY <4>1, <1>3
        <4>. QED
          BY <3>2, <3>5, <4>2, <2>2
      <3>. QED
        BY <3>4, <3>5
    <2>. QED
      BY <1>2, <2>3, <2>4, SameCount DEF Otp!UsesCounted, Otp!Accepting
  <1>. QED
    BY <1>4, <1>5 DEF Otp!Consume

LEMMA UsesStep ==
    Otp!TypeOK /\ Otp!CodesAreNew /\ Otp!LoneRequest /\ Otp!UsesCounted /\ [Otp!Next]_(Otp!vars) => Otp!UsesCounted'
  <1>. SUFFICES ASSUME Otp!TypeOK, Otp!CodesAreNew, Otp!LoneRequest, Otp!UsesCounted,
                       [Otp!Next]_(Otp!vars)
                PROVE  Otp!UsesCounted'
    OBVIOUS
  <1>1. \A c \in Otp!Codes : accepted[c] > 0 => code[c].consumed \/ ~code[c].exists
    BY DEF Otp!UsesCounted
  <1>2. ASSUME NEW h \in Handlers, Otp!Handle(h), ~Otp!FindCode(h), ~Otp!Consume(h)
        PROVE  Otp!UsesCounted'
    <2>1. PICK r \in Otp!Request : codeReq' = [codeReq EXCEPT ![h] = r]
      BY <1>2, OneRequestMoves
    <2>2. r.pc # "hit"
      <3>1. r = codeReq'[h]
        BY <2>1, OthersWait
      <3>2. Otp!Respond(h) \/ \E pc \in {"latest", "find", "count", "create"} : Otp!Proceed(h, pc)
        BY <1>2 DEF Otp!Handle, Otp!Begin, Otp!CheckCooldown, Otp!CheckWindow, Otp!CreateCode,
                    Otp!CountAttempt, Otp!Fail
      <3>3. CASE Otp!Respond(h)
        BY <3>1, <3>3 DEF Otp!Respond, Otp!Idle, Otp!TypeOK
      <3>4. CASE \E pc \in {"latest", "find", "count", "create"} : Otp!Proceed(h, pc)
        BY <3>1, <3>4 DEF Otp!Proceed, Otp!TypeOK, Otp!Request
      <3>. QED
        BY <3>2, <3>3, <3>4
    <2>3. \A c \in Otp!Codes : Otp!Accepting(c)' \subseteq Otp!Accepting(c)
      BY <2>1, <2>2, OthersWait DEF Otp!Accepting, Otp!At
    <2>4. accepted' = accepted /\ (overlap => overlap')
      <3>1. CASE Otp!Begin(h)
        BY <3>1 DEF Otp!Begin
      <3>2. CASE Otp!CheckCooldown(h) \/ Otp!CheckWindow(h) \/ Otp!CreateCode(h) \/ Otp!CountAttempt(h) \/ Otp!Fail(h)
        BY <3>2 DEF Otp!CheckCooldown, Otp!CheckWindow, Otp!CreateCode, Otp!CountAttempt, Otp!Fail
      <3>. QED
        BY <1>2, <3>1, <3>2 DEF Otp!Handle
    <2>5. \A c \in Otp!Codes : accepted[c] > 0 => code'[c].consumed \/ ~code'[c].exists
      <3>1. CASE Otp!CreateCode(h)
        <4>. DEFINE d == Cardinality(Otp!Sent) + 1
        <4>1. d \in Otp!Codes \ Otp!Sent
          BY <3>1, NextNumber, SameCount DEF Otp!CreateCode
        <4>2. accepted[d] = 0
          BY <4>1 DEF Otp!CodesAreNew
        <4>3. code' = [code EXCEPT ![d].exists = TRUE]
          BY <3>1, SameCount DEF Otp!CreateCode
        <4>. HIDE DEF d
        <4>. QED
          BY <1>1, <4>1, <4>2, <4>3 DEF Otp!TypeOK, Otp!CodeDoc
      <3>2. CASE Otp!CountAttempt(h)
        BY <1>1, <3>2 DEF Otp!CountAttempt, Otp!TypeOK, Otp!CodeDoc
      <3>3. CASE ~Otp!CreateCode(h) /\ ~Otp!CountAttempt(h)
        <4>1. code' = code
          BY <1>2, <3>3 DEF Otp!Handle, Otp!Begin, Otp!CheckCooldown, Otp!CheckWindow, Otp!Fail
        <4>. QED
          BY <1>1, <4>1
      <3>. QED
        BY <3>1, <3>2, <3>3
    <2>. QED
      BY <2>3, <2>4, <2>5, UsesKept
  <1>3. ASSUME NEW h \in Handlers, Otp!FindCode(h) PROVE Otp!UsesCounted'
    BY <1>3, FindUses
  <1>4. ASSUME NEW h \in Handlers, Otp!Consume(h) PROVE Otp!UsesCounted'
    BY <1>4, ConsumeUses
  <1>5. CASE Otp!Tick \/ (\E c \in Otp!Codes : Otp!Purge(c)) \/ UNCHANGED Otp!vars
    <2>1. UNCHANGED <<accepted, overlap, codeReq>>
      BY <1>5 DEF Otp!Tick, Otp!Purge, Otp!vars
    <2>2. \A c \in Otp!Codes : Otp!Accepting(c)' = Otp!Accepting(c)
      BY <2>1 DEF Otp!Accepting, Otp!At
    <2>3. \A c \in Otp!Codes : accepted[c] > 0 => code'[c].consumed \/ ~code'[c].exists
      BY <1>1, <1>5 DEF Otp!Tick, Otp!Purge, Otp!vars, Otp!NoCode, Otp!TypeOK
    <2>. QED
      BY <2>1, <2>2, <2>3, UsesKept
  <1>. QED
    BY <1>2, <1>3, <1>4, <1>5 DEF Otp!Next

----------------------------------------------------------------------------
(* A code is tried a limited number of times. *)

(* What a save of a request leaves of the codes that are stored.           *)
LEMMA SavesKeep ==
    ASSUME Otp!TypeOK, NEW h \in Handlers, Otp!Handle(h), ~Otp!CreateCode(h),
           ~Otp!CountAttempt(h), NEW c \in Otp!Codes
    PROVE  code'[c].exists = code[c].exists /\ code'[c].attempts = code[c].attempts
  <1>1. CASE Otp!Consume(h)
    <2>1. code' = code \/ code' = [code EXCEPT ![codeReq[h].code].consumed = TRUE]
      BY <1>1 DEF Otp!Consume
    <2>2. codeReq[h].code \in Otp!Codes
      BY <1>1, SentNumbers DEF Otp!Consume, Otp!At, Otp!TypeOK
    <2>3. CASE code' = code
      BY <2>3
    <2>4. CASE code' = [code EXCEPT ![codeReq[h].code].consumed = TRUE]
      BY <2>2, <2>4 DEF Otp!TypeOK, Otp!CodeDoc
    <2>. QED
      BY <2>1, <2>3, <2>4
  <1>2. CASE ~Otp!Consume(h)
    BY <1>2 DEF Otp!Handle, Otp!Begin, Otp!CheckCooldown, Otp!CheckWindow, Otp!FindCode, Otp!Fail
  <1>. QED
    BY <1>1, <1>2

LEMMA TriesStep ==
    Otp!TypeOK /\ Otp!CodesAreNew /\ Otp!LoneRequest /\ Otp!TriesCounted /\ [Otp!Next]_(Otp!vars) => Otp!TriesCounted'
  <1>. SUFFICES ASSUME Otp!TypeOK, Otp!CodesAreNew, Otp!LoneRequest, Otp!TriesCounted,
                       [Otp!Next]_(Otp!vars), ~overlap'
                PROVE  /\ \A c \in Otp!Codes : /\ tried'[c] =< MaxAttempts
                                               /\ code'[c].exists => tried'[c] =< code'[c].attempts
                       /\ \A g \in Handlers : Otp!At(g, "miss")' =>
                             tried'[codeReq'[g].code] =< codeReq'[g].loaded.attempts
    BY DEF Otp!TriesCounted, Otp!At
  <1>1. ASSUME NEW h \in Handlers, Otp!Handle(h)
        PROVE  /\ \A c \in Otp!Codes : /\ tried'[c] =< MaxAttempts
                                       /\ code'[c].exists => tried'[c] =< code'[c].attempts
               /\ \A g \in Handlers : Otp!At(g, "miss")' =>
                     tried'[codeReq'[g].code] =< codeReq'[g].loaded.attempts
    <2>1. PICK r \in Otp!Request : codeReq' = [codeReq EXCEPT ![h] = r]
      BY <1>1, OneRequestMoves
    <2>2. codeReq'[h] = r /\ \A g \in Handlers \ {h} : codeReq'[g] = codeReq[g]
      BY <2>1, OthersWait
    <2>3. ~overlap
      <3>1. CASE Otp!Begin(h)
        BY <3>1 DEF Otp!Begin
      <3>2. CASE ~Otp!Begin(h)
        BY <1>1, <3>2 DEF Otp!Handle, Otp!CheckCooldown, Otp!CheckWindow, Otp!CreateCode,
                          Otp!FindCode, Otp!CountAttempt,
                          Otp!Consume, Otp!Fail
      <3>. QED
        BY <3>1, <3>2
    <2>4. /\ \A c \in Otp!Codes : /\ tried[c] =< MaxAttempts
                                  /\ code[c].exists => tried[c] =< code[c].attempts
          /\ \A g \in Handlers : Otp!At(g, "miss") => tried[codeReq[g].code] =< codeReq[g].loaded.attempts
      BY <2>3 DEF Otp!TriesCounted
    <2>5. CASE Otp!CountAttempt(h)
      <3>. DEFINE d == codeReq[h].code
                  n == codeReq[h].loaded.attempts
      <3>1. /\ d \in Otp!Codes /\ n \in Nat /\ n < MaxAttempts /\ Otp!At(h, "miss") /\ tried[d] =< n
        BY <2>4, <2>5, SentNumbers DEF Otp!CountAttempt, Otp!At, Otp!TypeOK, Otp!Request,
                                       Otp!CodeDoc
      <3>2. tried' = [tried EXCEPT ![d] = @ + 1]
        BY <2>3, <2>5 DEF Otp!CountAttempt, Otp!Tried
      <3>3. \/ ~code[d].exists /\ code' = code
            \/ code' = [code EXCEPT ![d].attempts = n + 1]
        BY <2>5 DEF Otp!CountAttempt
      <3>4. r.pc = "idle"
        BY <2>2, <2>5 DEF Otp!CountAttempt, Otp!Respond, Otp!Idle, Otp!TypeOK
      <3>5. \A g \in Handlers \ {h} : ~Otp!At(g, "miss")
        BY <2>3, <3>1 DEF Otp!LoneRequest, Otp!At
      <3>. HIDE DEF d, n
      <3>6. tried'[d] = tried[d] + 1 /\ tried[d] \in Nat
            /\ \A c \in Otp!Codes \ {d} : tried'[c] = tried[c]
        BY <3>1, <3>2 DEF Otp!TypeOK
      <3>7. /\ \A c \in Otp!Codes \ {d} : code'[c] = code[c]
            /\ code'[d].exists => code'[d].attempts = n + 1
        BY <3>1, <3>3 DEF Otp!TypeOK, Otp!CodeDoc
      <3>8. tried'[d] =< n + 1 /\ n + 1 =< MaxAttempts /\ tried'[d] =< MaxAttempts
        BY <3>1, <3>6, CodeNumbers
      <3>9. \A g \in Handlers : ~Otp!At(g, "miss")'
        BY <2>2, <3>4, <3>5 DEF Otp!At
      <3>. QED
        BY <2>4, <3>6, <3>7, <3>8, <3>9
    <2>6. CASE ~Otp!CountAttempt(h)
      <3>1. tried' = tried
        BY <1>1, <2>6 DEF Otp!Handle, Otp!Begin, Otp!CheckCooldown, Otp!CheckWindow,
                          Otp!CreateCode, Otp!FindCode, Otp!Consume,
                          Otp!Fail
      <3>2. \A c \in Otp!Codes : code'[c].exists => tried[c] =< code'[c].attempts
        <4>1. CASE Otp!CreateCode(h)
          <5>. DEFINE c == Cardinality(Otp!Sent) + 1
          <5>1. c \in Otp!Codes \ Otp!Sent
            BY <4>1, NextNumber, SameCount DEF Otp!CreateCode
          <5>2. code' = [code EXCEPT ![c].exists = TRUE]
            BY <4>1, SameCount DEF Otp!CreateCode
          <5>. HIDE DEF c
          <5>3. tried[c] = 0 /\ code'[c].attempts \in Nat
            BY <5>1, <5>2 DEF Otp!CodesAreNew, Otp!TypeOK, Otp!CodeDoc
          <5>4. \A e \in Otp!Codes \ {c} : code'[e] = code[e]
            BY <5>1, <5>2 DEF Otp!TypeOK
          <5>. QED
            BY <2>4, <5>3, <5>4
        <4>2. CASE ~Otp!CreateCode(h)
          BY <1>1, <2>4, <2>6, <4>2, SavesKeep
        <4>. QED
          BY <4>1, <4>2
      <3>3. r.pc = "miss" => tried[r.code] =< r.loaded.attempts
        <4>1. CASE Otp!FindCode(h) /\ ~(codeReq' = [codeReq EXCEPT ![h] = Otp!Idle])
          <5>1. PICK c \in Otp!Stored, pc \in {"hit", "miss"} :
                  codeReq' = [codeReq EXCEPT ![h] = [pc |-> pc, code |-> c, loaded |-> code[c]]]
            BY <4>1, FoundIsOpen
          <5>2. r = [pc |-> pc, code |-> c, loaded |-> code[c]]
            BY <2>2, <5>1 DEF Otp!TypeOK
          <5>. QED
            BY <2>4, <5>2 DEF Otp!Stored
        <4>2. CASE \/ codeReq' = [codeReq EXCEPT ![h] = Otp!Idle]
                   \/ \E pc \in {"latest", "find", "count", "create"} : Otp!Proceed(h, pc)
          <5>1. r.pc # "miss"
            <6>1. CASE codeReq' = [codeReq EXCEPT ![h] = Otp!Idle]
              BY <2>2, <6>1 DEF Otp!Idle, Otp!TypeOK
            <6>2. CASE \E pc \in {"latest", "find", "count", "create"} : Otp!Proceed(h, pc)
              BY <2>2, <6>2 DEF Otp!Proceed, Otp!TypeOK, Otp!Request
            <6>. QED
              BY <4>2, <6>1, <6>2
          <5>. QED
            BY <5>1
        <4>. QED
          BY <1>1, <2>6, <4>1, <4>2 DEF Otp!Handle, Otp!Begin, Otp!CheckCooldown, Otp!CheckWindow,
                                        Otp!CreateCode,
                                        Otp!Consume, Otp!Fail, Otp!Respond
      <3>. QED
        BY <2>2, <2>4, <3>1, <3>2, <3>3 DEF Otp!At
    <2>. QED
      BY <2>5, <2>6
  <1>2. CASE Otp!Tick \/ (\E c \in Otp!Codes : Otp!Purge(c)) \/ UNCHANGED Otp!vars
    <2>1. UNCHANGED <<tried, overlap, codeReq>>
      BY <1>2 DEF Otp!Tick, Otp!Purge, Otp!vars
    <2>2. \A c \in Otp!Codes : code'[c].exists => code'[c] = code[c]
      BY <1>2 DEF Otp!Tick, Otp!Purge, Otp!vars, Otp!NoCode, Otp!TypeOK
    <2>. QED
      BY <2>1, <2>2 DEF Otp!TriesCounted, Otp!At
  <1>. QED
    BY <1>1, <1>2 DEF Otp!Next

----------------------------------------------------------------------------
(* Codes are sent a cooldown apart, and a limited number of them. *)

LEMMA CooldownHasPassed ==
    ASSUME Otp!TypeOK, Otp!SendsLimited, Otp!SendsChecked, Otp!SendAssumption, ~overlap,
           Otp!Stored # {} => ~(now < sentAt[Otp!Max(Otp!Stored)] + Cooldown), NEW c \in Otp!Sent
    PROVE  sentAt[c] + Cooldown =< now
  <1>1. /\ Otp!Sent \subseteq Otp!Codes /\ Otp!Stored \subseteq Otp!Sent /\ now \in Nat
        /\ \A d \in Otp!Sent : sentAt[d] \in Nat
    BY SentNumbers DEF Otp!TypeOK, Otp!Times
  <1>2. CASE c \notin Otp!Stored
    <2>1. sentAt[c] + Expires =< now
      BY <1>2 DEF Otp!SendsChecked, Otp!Expired
    <2>. QED
      BY <2>1, <1>1, CodeNumbers DEF Otp!SendAssumption
  <1>3. CASE c \in Otp!Stored
    <2>1. Otp!Max(Otp!Stored) \in Otp!Stored /\ c =< Otp!Max(Otp!Stored)
      BY <1>1, <1>3, NewestCode
    <2>2. PICK m \in Otp!Stored : m = Otp!Max(Otp!Stored)
      BY <2>1
    <2>3. sentAt[m] + Cooldown =< now /\ m \in Otp!Sent /\ m \in Nat /\ c \in Nat /\ c =< m
      <3>1. ~(now < sentAt[m] + Cooldown)
        BY <1>3, <2>2
      <3>2. m \in Nat /\ c \in Nat
        BY <1>1 DEF Otp!Codes
      <3>. QED
        BY <1>1, <2>1, <2>2, <3>1, <3>2, CodeNumbers
    <2>4. CASE c = m
      BY <2>3, <2>4
    <2>5. CASE c < m
      <3>1. sentAt[c] + Cooldown =< sentAt[m]
        BY <2>3, <2>5 DEF Otp!SendsLimited
      <3>. QED
        BY <1>1, <2>3, <3>1, CodeNumbers
    <2>. QED
      BY <2>3, <2>4, <2>5
  <1>. QED
    BY <1>2, <1>3

LEMMA UnexpiredFinite ==
    ASSUME Otp!TypeOK
    PROVE  IsFiniteSet(Otp!Unexpired) /\ Cardinality(Otp!Unexpired) \in Nat
  <1>1. IsFiniteSet(Otp!Codes) /\ Otp!Unexpired \subseteq Otp!Codes
    BY CodeNumbers, FS_Interval, SentNumbers DEF Otp!Codes, Otp!Unexpired
  <1>. QED
    BY <1>1, FS_Subset, FS_CardinalityType

LEMMA WindowHasRoom ==
    ASSUME Otp!TypeOK, Otp!SendsChecked, Otp!SendAssumption,
           ~(Cardinality({c \in Otp!Stored : sentAt[c] + Window >= now}) >= MaxPerWindow)
    PROVE  Cardinality(Otp!Unexpired) < MaxPerWindow
  <1>. DEFINE counted == {c \in Otp!Stored : sentAt[c] + Window >= now}
  <1>1. /\ Otp!Sent \subseteq Otp!Codes /\ now \in Nat /\ \A d \in Otp!Sent : sentAt[d] \in Nat
    BY SentNumbers DEF Otp!TypeOK, Otp!Times
  <1>2. IsFiniteSet(counted) /\ Cardinality(counted) \in Nat
    <2>1. IsFiniteSet(Otp!Codes) /\ counted \subseteq Otp!Codes
      BY CodeNumbers, FS_Interval DEF Otp!Codes, Otp!Stored
    <2>. QED
      BY <2>1, FS_Subset, FS_CardinalityType
  <1>3. Otp!Unexpired \subseteq counted
    <2>1. ASSUME NEW c \in Otp!Unexpired PROVE c \in Otp!Stored /\ sentAt[c] + Window >= now
      <3>1. c \in Otp!Sent /\ ~(sentAt[c] + Expires =< now) /\ c \in Otp!Stored
        BY DEF Otp!Unexpired, Otp!Expired, Otp!SendsChecked
      <3>. QED
        BY <1>1, <3>1, CodeNumbers DEF Otp!SendAssumption
    <2>. QED
      BY <2>1
  <1>4. Cardinality(Otp!Unexpired) =< Cardinality(counted)
    BY <1>2, <1>3, FS_Subset
  <1>5. ~(Cardinality(counted) >= MaxPerWindow)
    OBVIOUS
  <1>. HIDE DEF counted
  <1>. QED
    BY <1>2, <1>4, <1>5, UnexpiredFinite, CodeNumbers

(* A step that sends no code.                                              *)
LEMMA SendsKept ==
    ASSUME Otp!TypeOK, Otp!SendsLimited, Otp!SendsChecked, UNCHANGED <<now, sentAt>>,
           overlap => overlap',
           \A c \in Otp!Codes : code[c].exists => code'[c].exists \/ Otp!Expired(c),
           ~overlap' => \A h \in Handlers :
             /\ codeReq'[h].pc \in {"count", "create"} => \A c \in Otp!Sent : sentAt[c] + Cooldown =< now
             /\ codeReq'[h].pc = "create" => Cardinality(Otp!Unexpired) < MaxPerWindow
    PROVE  Otp!SendsLimited' /\ Otp!SendsChecked'
  <1>1. Otp!Sent' = Otp!Sent /\ \A c : Otp!Expired(c)' <=> Otp!Expired(c)
    BY DEF Otp!Sent, Otp!Expired
  <1>2. Otp!Unexpired' = Otp!Unexpired
    BY <1>1 DEF Otp!Unexpired
  <1>3. Otp!SendsLimited'
    BY <1>1 DEF Otp!SendsLimited
  <1>4. \A c \in Otp!Sent' : sentAt'[c] =< now' /\ (c \in Otp!Stored' \/ Otp!Expired(c)')
    BY <1>1, SentNumbers DEF Otp!SendsChecked, Otp!Stored
  <1>5. ~overlap' => \A h \in Handlers :
             /\ codeReq'[h].pc \in {"count", "create"} =>
                        \A c \in Otp!Sent' : sentAt'[c] + Cooldown =< now'
             /\ Otp!At(h, "create")' => Cardinality(Otp!Unexpired') < MaxPerWindow
    BY <1>1, <1>2 DEF Otp!At
  <1>. QED
    BY <1>3, <1>4, <1>5, SameCount DEF Otp!SendsChecked

LEMMA CreateSends ==
    ASSUME Otp!TypeOK, Otp!LoneRequest, Otp!SendsLimited, Otp!SendsChecked, NEW h \in Handlers,
           Otp!CreateCode(h)
    PROVE  Otp!SendsLimited' /\ Otp!SendsChecked'
  <1>. DEFINE c == Cardinality(Otp!Sent) + 1
  <1>1. /\ c \in Otp!Codes \ Otp!Sent /\ Otp!Sent' = Otp!Sent \cup {c} /\ \A d \in Otp!Sent : d < c
        /\ sentAt'[c] = now /\ \A d \in Otp!Sent : sentAt'[d] = sentAt[d]
    BY NextNumber, SameCount DEF Otp!CreateCode
  <1>2. /\ code' = [code EXCEPT ![c].exists = TRUE] /\ codeReq' = [codeReq EXCEPT ![h] = Otp!Idle]
        /\ Otp!At(h, "create") /\ now' = now /\ overlap' = overlap
    BY SameCount DEF Otp!CreateCode, Otp!Respond
  <1>. HIDE DEF c
  <1>3. /\ Otp!Sent \subseteq Otp!Codes /\ now \in Nat /\ \A d \in Otp!Sent : sentAt[d] \in Nat /\ d \in Nat
        /\ c \in Nat
    BY <1>1, SentNumbers DEF Otp!TypeOK, Otp!Times, Otp!Codes
  <1>4. \A d \in Otp!Codes : code'[d].exists <=> d = c \/ code[d].exists
    BY <1>1, <1>2 DEF Otp!TypeOK, Otp!CodeDoc
  <1>5. \A d \in Otp!Sent' : sentAt'[d] =< now' /\ (d \in Otp!Stored' \/ Otp!Expired(d)')
    BY <1>1, <1>2, <1>3, <1>4 DEF Otp!SendsChecked, Otp!Stored, Otp!Expired
  <1>6. ~overlap => \A g \in Handlers : codeReq'[g].pc \notin {"count", "create"}
    <2>1. codeReq'[h].pc = "idle" /\ \A g \in Handlers \ {h} : codeReq'[g] = codeReq[g]
      BY <1>2, IdleCode, OthersWait DEF Otp!Idle
    <2>2. ~overlap => \A g \in Handlers \ {h} : codeReq[g].pc = "idle"
      BY <1>2 DEF Otp!LoneRequest, Otp!At
    <2>. QED
      BY <2>1, <2>2
  <1>7. ASSUME ~overlap, NEW e \in Otp!Sent'
        PROVE  /\ \A d \in Otp!Sent' : d < e => sentAt'[d] + Cooldown =< sentAt'[e]
               /\ Cardinality({d \in Otp!Sent' : d =< e /\ sentAt'[e] < sentAt'[d] + Expires})
                     =< MaxPerWindow
    <2>1. CASE e = c
      <3>1. \A d \in Otp!Sent : sentAt[d] + Cooldown =< now
        BY <1>2, <1>7 DEF Otp!SendsChecked, Otp!At
      <3>2. Cardinality(Otp!Unexpired) < MaxPerWindow
        BY <1>2, <1>7, SameCount DEF Otp!SendsChecked
      <3>3. \A d \in Otp!Sent' : d < e => sentAt'[d] + Cooldown =< sentAt'[e]
        BY <1>1, <1>3, <2>1, <3>1
      <3>. DEFINE alive == {d \in Otp!Sent' : d =< e /\ sentAt'[e] < sentAt'[d] + Expires}
      <3>4. alive \subseteq Otp!Unexpired \cup {c}
        <4>1. ASSUME NEW d \in alive, d # c PROVE d \in Otp!Unexpired
          <5>1. d \in Otp!Sent /\ now < sentAt[d] + Expires
            BY <1>1, <2>1, <4>1
          <5>2. ~(sentAt[d] + Expires =< now)
            BY <1>3, <5>1, CodeNumbers
          <5>. QED
            BY <5>1, <5>2 DEF Otp!Unexpired, Otp!Expired
        <4>. QED
          BY <4>1
      <3>5. /\ IsFiniteSet(Otp!Unexpired) /\ Cardinality(Otp!Unexpired) \in Nat
            /\ IsFiniteSet(Otp!Unexpired \cup {c})
            /\ Cardinality(Otp!Unexpired \cup {c}) =< Cardinality(Otp!Unexpired) + 1
        BY UnexpiredFinite, FS_AddElement
      <3>6. /\ Cardinality(alive) \in Nat
            /\ Cardinality(alive) =< Cardinality(Otp!Unexpired \cup {c})
            /\ Cardinality(Otp!Unexpired \cup {c}) \in Nat
        BY <3>4, <3>5, FS_Subset, FS_CardinalityType
      <3>7. Cardinality(alive) =< MaxPerWindow
        <4>. HIDE DEF alive
        <4>. QED
          BY <3>2, <3>5, <3>6, CodeNumbers
      <3>. QED
        BY <3>3, <3>7
    <2>2. CASE e # c
      <3>1. e \in Otp!Sent /\ e < c
        BY <1>1, <2>2
      <3>2. /\ \A d \in Otp!Sent : d < e => sentAt[d] + Cooldown =< sentAt[e]
            /\ Cardinality({d \in Otp!Sent : d =< e /\ sentAt[e] < sentAt[d] + Expires})
                  =< MaxPerWindow
        BY <1>7, <3>1, SameCount DEF Otp!SendsLimited
      <3>3. {d \in Otp!Sent' : d =< e /\ sentAt'[e] < sentAt'[d] + Expires} =
              {d \in Otp!Sent : d =< e /\ sentAt[e] < sentAt[d] + Expires}
        <4>1. ASSUME NEW d \in Otp!Sent', d =< e PROVE d \in Otp!Sent
          BY <1>1, <1>3, <3>1, <4>1
        <4>. QED
          BY <4>1, <1>1, <3>1
      <3>4. \A d \in Otp!Sent' : d < e => d \in Otp!Sent
        BY <1>1, <1>3, <3>1
      <3>. QED
        BY <1>1, <3>1, <3>2, <3>3, <3>4
    <2>. QED
      BY <2>1, <2>2
  <1>8. Otp!SendsLimited'
    BY <1>2, <1>7, SameCount DEF Otp!SendsLimited
  <1>. QED
    BY <1>2, <1>5, <1>6, <1>8 DEF Otp!SendsChecked, Otp!At

LEMMA SendsStep ==
    ASSUME Otp!TypeOK, Otp!LoneRequest, Otp!SendsLimited, Otp!SendsChecked, Otp!SendAssumption,
           [Otp!Next]_(Otp!vars)
    PROVE  Otp!SendsLimited' /\ Otp!SendsChecked'
  <1>1. ASSUME NEW h \in Handlers, Otp!Handle(h), ~Otp!CreateCode(h)
        PROVE  Otp!SendsLimited' /\ Otp!SendsChecked'
    <2>1. PICK r \in Otp!Request : codeReq' = [codeReq EXCEPT ![h] = r]
      BY <1>1, OneRequestMoves
    <2>2. codeReq'[h] = r /\ \A g \in Handlers \ {h} : codeReq'[g] = codeReq[g]
      BY <2>1, OthersWait
    <2>3. UNCHANGED <<now, sentAt>>
      BY <1>1 DEF Otp!Handle, Otp!Begin, Otp!CheckCooldown, Otp!CheckWindow, Otp!FindCode,
                  Otp!CountAttempt, Otp!Consume, Otp!Fail
    <2>4. overlap => overlap'
      <3>1. CASE Otp!Begin(h)
        BY <3>1 DEF Otp!Begin
      <3>2. CASE ~Otp!Begin(h)
        BY <1>1, <3>2 DEF Otp!Handle, Otp!CheckCooldown, Otp!CheckWindow, Otp!FindCode,
                          Otp!CountAttempt, Otp!Consume, Otp!Fail
      <3>. QED
        BY <3>1, <3>2
    <2>5. \A c \in Otp!Codes : code[c].exists => code'[c].exists
      <3>1. CASE Otp!CountAttempt(h)
        BY <3>1 DEF Otp!CountAttempt, Otp!TypeOK, Otp!CodeDoc
      <3>2. CASE ~Otp!CountAttempt(h)
        BY <1>1, <3>2, SavesKeep
      <3>. QED
        BY <3>1, <3>2
    <2>6. ~overlap => \A g \in Handlers :
             /\ codeReq[g].pc \in {"count", "create"} => \A c \in Otp!Sent : sentAt[c] + Cooldown =< now
             /\ codeReq[g].pc = "create" => Cardinality(Otp!Unexpired) < MaxPerWindow
      BY SameCount DEF Otp!SendsChecked, Otp!At
    <2>7. ~overlap => /\ r.pc \in {"count", "create"} => \A c \in Otp!Sent : sentAt[c] + Cooldown =< now
                      /\ r.pc = "create" => Cardinality(Otp!Unexpired) < MaxPerWindow
      <3>1. CASE Otp!Respond(h)
        BY <2>2, <3>1 DEF Otp!Respond, Otp!Idle, Otp!TypeOK
      <3>2. CASE Otp!CheckCooldown(h) /\ ~Otp!Respond(h)
        <4>1. r.pc = "count"
          BY <2>2, <3>2 DEF Otp!CheckCooldown, Otp!Proceed, Otp!TypeOK, Otp!Request
        <4>2. Otp!Stored # {} => ~(now < sentAt[Otp!Max(Otp!Stored)] + Cooldown)
          BY <3>2 DEF Otp!CheckCooldown
        <4>. QED
          BY <4>1, <4>2, CooldownHasPassed
      <3>3. CASE Otp!CheckWindow(h) /\ ~Otp!Respond(h)
        <4>1. r.pc = "create" /\ codeReq[h].pc = "count"
          BY <2>2, <3>3 DEF Otp!CheckWindow, Otp!Proceed, Otp!TypeOK, Otp!Request, Otp!At
        <4>2. Cardinality(Otp!Unexpired) < MaxPerWindow
          BY <3>3, WindowHasRoom, SameCount DEF Otp!CheckWindow
        <4>. QED
          BY <2>6, <4>1, <4>2
      <3>4. CASE Otp!Begin(h) \/ (Otp!FindCode(h) /\ ~Otp!Respond(h))
        <4>1. r.pc \notin {"count", "create"}
          <5>1. CASE Otp!Begin(h)
            BY <2>2, <5>1 DEF Otp!Begin, Otp!Proceed, Otp!TypeOK, Otp!Request
          <5>2. CASE Otp!FindCode(h) /\ ~Otp!Respond(h)
            <6>1. PICK c \in Otp!Stored, pc \in {"hit", "miss"} :
                    codeReq' = [codeReq EXCEPT ![h] = [pc |-> pc, code |-> c, loaded |-> code[c]]]
              BY <5>2, FoundIsOpen DEF Otp!Respond
            <6>. QED
              BY <2>2, <6>1 DEF Otp!TypeOK
          <5>. QED
            BY <3>4, <5>1, <5>2
        <4>. QED
          BY <4>1
      <3>. QED
        BY <1>1, <3>1, <3>2, <3>3, <3>4 DEF Otp!Handle, Otp!CountAttempt, Otp!Consume, Otp!Fail
    <2>8. ~overlap' => \A g \in Handlers :
             /\ codeReq'[g].pc \in {"count", "create"} => \A c \in Otp!Sent : sentAt[c] + Cooldown =< now
             /\ codeReq'[g].pc = "create" => Cardinality(Otp!Unexpired) < MaxPerWindow
      BY <2>2, <2>4, <2>6, <2>7
    <2>. QED
      BY <2>3, <2>4, <2>5, <2>8, SendsKept
  <1>2. ASSUME NEW h \in Handlers, Otp!CreateCode(h) PROVE Otp!SendsLimited' /\ Otp!SendsChecked'
    BY <1>2, CreateSends
  <1>3. CASE Otp!Tick
    <2>1. Otp!Sent' = Otp!Sent /\ Otp!Stored' = Otp!Stored /\ UNCHANGED <<sentAt, codeReq, overlap>> /\ now' = now + 1
      BY <1>3 DEF Otp!Tick, Otp!Sent, Otp!Stored
    <2>2. Otp!SendsLimited'
      BY <2>1 DEF Otp!SendsLimited
    <2>3. now \in Nat /\ \A c \in Otp!Sent : sentAt[c] \in Nat
      BY SentNumbers DEF Otp!TypeOK, Otp!Times
    <2>4. \A c \in Otp!Sent' : sentAt'[c] =< now' /\ (c \in Otp!Stored' \/ Otp!Expired(c)')
      BY <2>1, <2>3, CodeNumbers DEF Otp!SendsChecked, Otp!Expired
    <2>5. \A h \in Handlers : codeReq'[h].pc = "idle"
      BY <1>3, <2>1 DEF Otp!Tick, Otp!At
    <2>. QED
      BY <2>2, <2>4, <2>5 DEF Otp!SendsChecked, Otp!At
  <1>4. CASE (\E c \in Otp!Codes : Otp!Purge(c)) \/ UNCHANGED Otp!vars
    <2>1. UNCHANGED <<now, sentAt, overlap, codeReq>>
      BY <1>4 DEF Otp!Purge, Otp!vars
    <2>2. \A c \in Otp!Codes : code[c].exists => code'[c].exists \/ Otp!Expired(c)
      BY <1>4 DEF Otp!Purge, Otp!vars, Otp!TypeOK
    <2>3. ~overlap => \A g \in Handlers :
             /\ codeReq[g].pc \in {"count", "create"} => \A c \in Otp!Sent : sentAt[c] + Cooldown =< now
             /\ codeReq[g].pc = "create" => Cardinality(Otp!Unexpired) < MaxPerWindow
      BY SameCount DEF Otp!SendsChecked, Otp!At
    <2>. QED
      BY <2>1, <2>2, <2>3, SendsKept
  <1>. QED
    BY <1>1, <1>2, <1>3, <1>4 DEF Otp!Next

----------------------------------------------------------------------------
(* The theorem. *)

LEMMA CodesIndInit == Otp!Init => Otp!IndInv
  <1>. SUFFICES ASSUME Otp!Init PROVE Otp!IndInv
    OBVIOUS
  <1>1. Otp!TypeOK
    BY CodesTypeInit
  <1>2. Otp!Sent = {}
    BY DEF Otp!Init, Otp!Sent
  <1>3. \A h \in Handlers : codeReq[h].pc = "idle"
    BY DEF Otp!Init, Otp!Idle
  <1>4. Otp!CodesAreNew /\ Otp!LoneRequest
    BY <1>3 DEF Otp!Init, Otp!CodesAreNew, Otp!LoneRequest, Otp!At, Otp!NoCode
  <1>5. Otp!UsesCounted
    <2>1. \A c \in Otp!Codes : Otp!Accepting(c) = {} /\ accepted[c] = 0
      BY <1>3 DEF Otp!Init, Otp!Accepting, Otp!At
    <2>2. Cardinality({}) = 0 /\ Cardinality(Handlers) \in Nat
      BY FS_EmptySet, AcceptingFinite
    <2>. QED
      BY <2>1, <2>2, SameCount DEF Otp!UsesCounted
  <1>6. Otp!TriesCounted
    BY <1>3, CodeNumbers DEF Otp!Init, Otp!TriesCounted, Otp!At, Otp!NoCode
  <1>7. Otp!SendsLimited /\ Otp!SendsChecked
    BY <1>2, <1>3 DEF Otp!SendsLimited, Otp!SendsChecked, Otp!At
  <1>. QED
    BY <1>1, <1>4, <1>5, <1>6, <1>7 DEF Otp!IndInv

LEMMA CodesIndStep ==
    ASSUME Otp!SendAssumption, Otp!IndInv, [Otp!Next]_(Otp!vars)
    PROVE  Otp!IndInv'
  <1>1. /\ Otp!TypeOK /\ Otp!CodesAreNew /\ Otp!LoneRequest /\ Otp!UsesCounted /\ Otp!TriesCounted
        /\ Otp!SendsLimited /\ Otp!SendsChecked
    BY DEF Otp!IndInv
  <1>2. Otp!TypeOK'
    BY <1>1, CodesTypeStep
  <1>3. Otp!CodesAreNew'
    BY <1>1, CodesAreNewStep
  <1>4. Otp!LoneRequest'
    BY <1>1, LoneRequestStep
  <1>5. Otp!UsesCounted'
    BY <1>1, UsesStep
  <1>6. Otp!TriesCounted'
    BY <1>1, TriesStep
  <1>7. Otp!SendsLimited' /\ Otp!SendsChecked'
    BY <1>1, SendsStep
  <1>. QED
    BY <1>2, <1>3, <1>4, <1>5, <1>6, <1>7 DEF Otp!IndInv

LEMMA CodesIndHolds ==
    ASSUME Otp!TypeOK, Otp!UsesCounted, Otp!TriesCounted
    PROVE  Otp!CodeUsedOnce /\ Otp!AttemptsLimited
  <1>1. Otp!CodeUsedOnce
    <2>1. ASSUME NEW c \in Otp!Codes
          PROVE  accepted[c] =< IF overlap THEN Cardinality(Handlers) ELSE 1
      <3>1. /\ accepted[c] + Cardinality(Otp!Accepting(c)) =< Cardinality(Handlers)
            /\ ~overlap => accepted[c] =< 1
        BY SameCount DEF Otp!UsesCounted
      <3>2. accepted[c] \in Nat /\ Cardinality(Otp!Accepting(c)) \in Nat /\ Cardinality(Handlers) \in Nat
        BY AcceptingFinite DEF Otp!TypeOK
      <3>3. accepted[c] =< Cardinality(Handlers)
        BY <3>1, <3>2
      <3>. QED
        BY <3>1, <3>3
    <2>. QED
      BY <2>1, SameCount DEF Otp!CodeUsedOnce
  <1>2. Otp!AttemptsLimited
    BY DEF Otp!TriesCounted, Otp!AttemptsLimited
  <1>. QED
    BY <1>1, <1>2

LEMMA ConsumedStays ==
    ASSUME Otp!TypeOK, Otp!CodesAreNew, [Otp!Next]_(Otp!vars), NEW c \in Otp!Codes,
           code[c].consumed, code'[c].exists
    PROVE  code'[c].consumed
  <1>1. code[c].exists
    BY DEF Otp!CodesAreNew, Otp!NoCode
  <1>2. ASSUME NEW h \in Handlers, Otp!CreateCode(h) PROVE code'[c].consumed
    <2>. DEFINE d == Cardinality(Otp!Sent) + 1
    <2>1. d \in Otp!Codes \ Otp!Sent /\ code' = [code EXCEPT ![d].exists = TRUE]
      BY <1>2, NextNumber, SameCount DEF Otp!CreateCode
    <2>2. c # d
      BY <1>1, <2>1 DEF Otp!TypeOK, Otp!Stored
    <2>. HIDE DEF d
    <2>. QED
      BY <2>1, <2>2 DEF Otp!TypeOK
  <1>3. ASSUME NEW h \in Handlers, Otp!CountAttempt(h) \/ Otp!Consume(h) PROVE code'[c].consumed
    <2>1. \/ code' = code
          \/ code' = [code EXCEPT ![codeReq[h].code].consumed = TRUE]
          \/ code' = [code EXCEPT ![codeReq[h].code].attempts = codeReq[h].loaded.attempts + 1]
      BY <1>3 DEF Otp!CountAttempt, Otp!Consume
    <2>. DEFINE d == codeReq[h].code
                n == codeReq[h].loaded.attempts + 1
    <2>2. code \in [Otp!Codes -> Otp!CodeDoc] /\ c \in Otp!Codes
      BY DEF Otp!TypeOK
    <2>. HIDE DEF d, n
    <2>3. CASE code' = code
      BY <2>3
    <2>4. CASE code' = [code EXCEPT ![d].consumed = TRUE]
      BY <2>2, <2>4 DEF Otp!CodeDoc
    <2>5. CASE code' = [code EXCEPT ![d].attempts = n]
      BY <2>2, <2>5 DEF Otp!CodeDoc
    <2>. QED
      BY <2>1, <2>3, <2>4, <2>5 DEF d, n
  <1>4. ASSUME NEW h \in Handlers,
               Otp!Begin(h) \/ Otp!CheckCooldown(h) \/ Otp!CheckWindow(h) \/ Otp!FindCode(h) \/ Otp!Fail(h)
        PROVE  code'[c].consumed
    BY <1>4 DEF Otp!Begin, Otp!CheckCooldown, Otp!CheckWindow, Otp!FindCode, Otp!Fail
  <1>5. CASE Otp!Tick \/ (\E d \in Otp!Codes : Otp!Purge(d)) \/ UNCHANGED Otp!vars
    BY <1>5 DEF Otp!Tick, Otp!Purge, Otp!vars, Otp!NoCode, Otp!TypeOK
  <1>. QED
    BY <1>2, <1>3, <1>4, <1>5 DEF Otp!Next, Otp!Handle

THEOREM CodesAreLimited ==
    ASSUME Otp!SendAssumption
    PROVE  Otp!Spec => CodesLimited
  <1>1. Otp!Init => Otp!IndInv
    BY CodesIndInit
  <1>2. Otp!IndInv /\ [Otp!Next]_(Otp!vars) => Otp!IndInv'
    BY CodesIndStep
  <1>3. Otp!IndInv => Otp!TypeOK /\ Otp!CodeUsedOnce /\ Otp!AttemptsLimited /\ Otp!SendsLimited
    BY CodesIndHolds DEF Otp!IndInv
  <1>4. Otp!IndInv /\ [Otp!Next]_(Otp!vars) =>
               [\A c \in Otp!Codes : code[c].consumed /\ code'[c].exists => code'[c].consumed]_(Otp!vars)
    BY ConsumedStays DEF Otp!IndInv
  <1>. QED
    BY <1>1, <1>2, <1>3, <1>4, PTL DEF Otp!Spec, CodesLimited, Otp!ConsumedForGood
============================================================================
