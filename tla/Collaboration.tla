---------------------------- MODULE Collaboration ----------------------------
(***************************************************************************)
(* The agents who have one ticket open: what each is doing on it, who says *)
(* to be handling it (the soft claim), and what each is told of the others.*)
(*                                                                         *)
(* Presence and typing are kept in the same way, so a signal stands for    *)
(* either.  The values expire by themselves in the store (Redis, or the    *)
(* memory of one node); the sets of sockets and of tickets do not, and a   *)
(* timer of the node sees to them a little later.  The action guard, which *)
(* turns away what comes too fast, is left out, and so are the members'    *)
(* names that go with an event.                                            *)
(*                                                                         *)
(* Source: src/src/modules/realtime/services/ticket-collaboration.service.js*)
(***************************************************************************)
EXTENDS Naturals, Sequences, SequencesExt

CONSTANTS
    Sockets,     \* sockets, 1 .. n; one that has gone never returns
    User,        \* the user of each socket
    Modes,       \* what an agent may be doing
    Ops,         \* what is asked for, a subset of AllOps
    Handlers,    \* requests in flight at once, 1 .. n: the first free one is next
    MaxRequests  \* bound on the requests

None == "none"
AllOps == {"set", "stop", "claim", "unclaim", "subscribe", "unsubscribe", "disconnect"}
Parts == {"signal", "claim"}
Users == {User[s] : s \in Sockets}

VARIABLES
    connected, \* sockets that have not gone
    joined,    \* those in the room of the ticket
    value,     \* the signal of each socket
    order,     \* the sockets in the order of the updatedAt of their signals
    listed,    \* the ticket's set of sockets with a signal
    ref,       \* the sockets whose own set of signals has the ticket
    timer,     \* the sockets whose signal has a timer
    claim,     \* the socket of the soft claim; 0 is none
    claimRef,  \* the sockets whose own set of claims has the ticket
    claimTimer,\* the socket for which the timer of the claim was set; 0 is no timer
    view,      \* what each socket was last told
    req, begun,\* the requests in flight, and how many began
    unsure,    \* history: parts of the view that the last event may have wrong
    crossed,   \* history: sockets of which two requests overlapped
    contested, \* history: two requests about the claim overlapped, or one followed a claim
               \* that had expired and whose timer had not run
    taken      \* history: whose claim a lone unsubscribe or disconnect cleared

store == <<value, order, listed, ref, claim, claimRef>>
timers == <<timer, claimTimer>>
history == <<unsure, crossed, contested, taken>>
vars == <<connected, joined, store, timers, view, req, begun, history>>

Idle == [pc |-> "idle", op |-> None, s |-> 0, mode |-> None, what |-> {}, tell |-> {},
         previous |-> None, holder |-> 0, stale |-> {}, seen |-> [u \in Users |-> None],
         claimed |-> 0, alone |-> TRUE]

At(h, pc) == req[h].pc = pc
Busy == {h \in Handlers : ~At(h, "idle")}
Free(h) == h \notin Busy /\ (1 .. h - 1) \subseteq Busy
Goto(h, r) == req' = [req EXCEPT ![h] = r]

(* The parts of the store that a request changes when it was asked for.    *)
Concerns(op) == CASE op \in {"set", "stop", "fire"} -> {"signal"}
                  [] op \in {"claim", "unclaim", "claim_fire"} -> {"claim"}
                  [] op = "subscribe" -> {}
                  [] OTHER -> Parts

(* A request begins: it, and those it meets, are no longer alone.          *)
Begin(h, r) ==
    LET met == {g \in Busy : req[g].s = r.s}
    IN  /\ Free(h)
        /\ req' = [g \in Handlers |-> IF g = h THEN [r EXCEPT !.alone = (Busy = {})]
                                      ELSE [req[g] EXCEPT !.alone = @ /\ g \notin Busy]]
        /\ unsure' = IF Busy = {} THEN unsure ELSE Parts
        /\ crossed' = IF met = {} THEN crossed ELSE crossed \cup {r.s}
        /\ contested' = (contested \/ \E g \in Busy : "claim" \in Concerns(r.op)
                                                      /\ "claim" \in Concerns(req[g].op))

Asked(h, op, s, r) ==
    /\ op \in Ops /\ begun < MaxRequests /\ begun' = begun + 1
    /\ Begin(h, [r EXCEPT !.op = op, !.s = s])

Init ==
    /\ connected = Sockets /\ joined = {}
    /\ value = [s \in Sockets |-> None] /\ order = <<>>
    /\ listed = {} /\ ref = {} /\ timer = {}
    /\ claim = 0 /\ claimRef = {} /\ claimTimer = 0
    /\ view = [s \in Sockets |-> [seen |-> [u \in Users |-> None], claimed |-> 0]]
    /\ req = [h \in Handlers |-> Idle] /\ begun = 0
    /\ unsure = {} /\ crossed = {} /\ contested = FALSE /\ taken = {}

----------------------------------------------------------------------------
(* What a snapshot shows (listPresenceEntries, groupLatestEntriesByUserId):*)
(* of each user the latest signal of those listed.                         *)
LatestOf(sockets, u) ==
    LET mine == SelectSeq(order, LAMBDA s : s \in sockets /\ User[s] = u /\ value[s] # None)
    IN  IF mine = <<>> THEN None ELSE value[Last(mine)]
Shown(sockets) == [u \in Users |-> LatestOf(sockets, u)]

----------------------------------------------------------------------------
(* The requests begin.  All but subscribe and unsubscribe are of a socket  *)
(* that is in the room (loadReadableTicketContextOrThrow).                 *)
BeginSet(h) ==
    /\ \E s \in joined, m \in Modes :
         Asked(h, "set", s, [Idle EXCEPT !.pc = "look", !.mode = m, !.what = {"signal"}])
    /\ UNCHANGED <<connected, joined, store, timers, view, taken>>

BeginStop(h) ==
    /\ \E s \in joined : Asked(h, "stop", s, [Idle EXCEPT !.pc = "look", !.what = {"signal"}])
    /\ UNCHANGED <<connected, joined, store, timers, view, taken>>

BeginClaim(h) ==
    /\ \E s \in joined, op \in {"claim", "unclaim"} :
         Asked(h, op, s, [Idle EXCEPT !.pc = "look", !.what = {"claim"}])
    /\ UNCHANGED <<connected, joined, store, timers, view, taken>>

(* subscribeTicketRoom: the socket joins, and is given a snapshot.         *)
Subscribe(h) ==
    /\ \E s \in connected :
         /\ Asked(h, "subscribe", s, [Idle EXCEPT !.pc = "load"])
         /\ joined' = joined \cup {s}
    /\ UNCHANGED <<connected, store, timers, view, taken>>

(* unsubscribeTicketRoom, clearSocketTicketCollaboration.                  *)
Unsubscribe(h) ==
    /\ \E s \in connected :
         /\ Asked(h, "unsubscribe", s, [Idle EXCEPT !.pc = "look", !.what = Parts])
         /\ joined' = joined \ {s}
    /\ UNCHANGED <<connected, store, timers, view, taken>>

(* cleanupDisconnectedSocketCollaboration clears what the socket's own     *)
(* sets name.                                                              *)
Disconnect(h) ==
    /\ \E s \in connected :
         LET named == {p \in Parts : s \in IF p = "signal" THEN ref ELSE claimRef}
         IN  /\ Asked(h, "disconnect", s,
                      [Idle EXCEPT !.pc = IF named = {} THEN "idle" ELSE "look", !.what = named])
             /\ connected' = connected \ {s} /\ joined' = joined \ {s}
    /\ UNCHANGED <<store, timers, view, taken>>

(* What there was before is read.                                          *)
Look(h) ==
    LET r == req[h]
    IN  /\ At(h, "look")
        /\ Goto(h, [r EXCEPT !.previous = IF "signal" \in r.what THEN value[r.s] ELSE None,
                             !.holder = IF "claim" \in r.what THEN claim ELSE 0,
                             !.pc = IF r.op \in {"set", "claim"} THEN "write" ELSE "clear"])
        /\ UNCHANGED <<connected, joined, store, timers, view, begun, history>>

----------------------------------------------------------------------------
Touched(s) == Append(Remove(order, s), s)

(* upsertPresenceState, upsertTypingState.  A signal that only repeats     *)
(* what the socket said before is not told, although it may become the     *)
(* latest of its user.  Mutant: the socket's own set is forgotten.         *)
WriteSignal_NoRef(h) ==
    LET r == req[h]
    IN  /\ At(h, "write") /\ r.op = "set"
        /\ value' = [value EXCEPT ![r.s] = r.mode]
        /\ order' = Touched(r.s)
        /\ listed' = listed \cup {r.s}
        /\ unsure' = IF r.previous = r.mode /\ Shown(listed)' # Shown(listed)
                     THEN unsure \cup {"signal"} ELSE unsure
        /\ Goto(h, [r EXCEPT !.pc = "schedule"])
        /\ UNCHANGED <<connected, joined, ref, claim, claimRef, timers, view, begun, crossed,
                       contested, taken>>
WriteSignal(h) ==
    LET r == req[h]
    IN  /\ At(h, "write") /\ r.op = "set"
        /\ value' = [value EXCEPT ![r.s] = r.mode]
        /\ order' = Touched(r.s)
        /\ listed' = listed \cup {r.s} /\ ref' = ref \cup {r.s}
        /\ unsure' = IF r.previous = r.mode /\ Shown(listed)' # Shown(listed)
                     THEN unsure \cup {"signal"} ELSE unsure
        /\ Goto(h, [r EXCEPT !.pc = "schedule"])
        /\ UNCHANGED <<connected, joined, claim, claimRef, timers, view, begun, crossed,
                       contested, taken>>

(* upsertSoftClaimState.                                                   *)
WriteClaim(h) ==
    LET r == req[h]
    IN  /\ At(h, "write") /\ r.op = "claim"
        /\ claim' = r.s /\ claimRef' = claimRef \cup {r.s}
        /\ contested' = (contested \/ (claim = 0 /\ claimTimer \notin {0, r.s}))
        /\ Goto(h, [r EXCEPT !.pc = "schedule"])
        /\ UNCHANGED <<connected, joined, value, order, listed, ref, timers, view, begun, unsure,
                       crossed, taken>>

(* The timer is set anew.  A claim first takes the ticket from the set of  *)
(* the socket that held it.  Mutant: it leaves it there.                   *)
Schedule_KeepRef(h) ==
    LET r == req[h]
        changed == IF r.op = "set" THEN r.previous # r.mode ELSE r.holder # r.s
    IN  /\ At(h, "schedule")
        /\ IF r.op = "set"
           THEN timer' = timer \cup {r.s} /\ UNCHANGED <<claimRef, claimTimer>>
           ELSE claimTimer' = r.s /\ UNCHANGED <<claimRef, timer>>
        /\ Goto(h, IF changed THEN [r EXCEPT !.pc = "load", !.tell = r.what] ELSE Idle)
        /\ UNCHANGED <<connected, joined, value, order, listed, ref, claim, view, begun, history>>
Schedule(h) ==
    LET r == req[h]
        changed == IF r.op = "set" THEN r.previous # r.mode ELSE r.holder # r.s
    IN  /\ At(h, "schedule")
        /\ IF r.op = "set"
           THEN timer' = timer \cup {r.s} /\ UNCHANGED <<claimRef, claimTimer>>
           ELSE /\ claimRef' = IF changed THEN claimRef \ {r.holder} ELSE claimRef
                /\ claimTimer' = r.s
                /\ UNCHANGED timer
        /\ Goto(h, IF changed THEN [r EXCEPT !.pc = "load", !.tell = r.what] ELSE Idle)
        /\ UNCHANGED <<connected, joined, value, order, listed, ref, claim, view, begun, history>>

----------------------------------------------------------------------------
(* clearPresenceState, clearTypingState, clearSoftClaimState: the timers   *)
(* are stopped and the values deleted; the claim is deleted whoever holds  *)
(* it.  A signal or a claim that had expired by itself, and whose timer is *)
(* stopped here, is not told.                                              *)
ToTell(r) == {p \in r.what : IF p = "signal" THEN r.previous # None ELSE r.holder # 0}

Clear(h) ==
    LET r == req[h]
        cleared(p) == p \in r.what
        untold == {p \in r.what : IF p = "signal" THEN r.previous = None /\ r.s \in timer
                                  ELSE r.holder = 0 /\ claimTimer # 0}
    IN  /\ At(h, "clear")
        /\ IF cleared("signal")
           THEN /\ value' = [value EXCEPT ![r.s] = None] /\ order' = Remove(order, r.s)
                /\ listed' = listed \ {r.s} /\ ref' = ref \ {r.s} /\ timer' = timer \ {r.s}
           ELSE UNCHANGED <<value, order, listed, ref, timer>>
        /\ IF cleared("claim")
           THEN claim' = 0 /\ claimTimer' = 0
           ELSE UNCHANGED <<claim, claimTimer>>
        /\ unsure' = unsure \cup untold
        /\ contested' = (contested \/ (cleared("claim") /\ claim = 0 /\ claimTimer \notin {0, r.s}))
        /\ taken' = IF /\ cleared("claim") /\ r.op \in {"unsubscribe", "disconnect"}
                       /\ claim \notin {0, r.s} /\ ~contested
                    THEN taken \cup {r.op} ELSE taken
        /\ Goto(h, [r EXCEPT !.pc = "unref", !.tell = ToTell(r)])
        /\ UNCHANGED <<connected, joined, claimRef, view, begun, crossed>>

(* The sets of the one who held the claim, and of the one who asks, lose it.*)
Unref(h) ==
    LET r == req[h]
    IN  /\ At(h, "unref")
        /\ claimRef' = IF "claim" \in r.what THEN claimRef \ {r.holder, r.s} ELSE claimRef
        /\ Goto(h, IF r.tell = {} THEN Idle ELSE [r EXCEPT !.pc = "load"])
        /\ UNCHANGED <<connected, joined, value, order, listed, ref, claim, timers, view, begun,
                       history>>

----------------------------------------------------------------------------
(* loadTicketCollaborationSnapshot reads the listed signals and the claim, *)
(* and takes from the list those it found to have no value.                *)
Load(h) ==
    LET r == req[h]
        stale == {s \in listed : value[s] = None}
    IN  /\ At(h, "load")
        /\ Goto(h, [r EXCEPT !.pc = IF stale = {} THEN "tell" ELSE "prune", !.stale = stale,
                             !.seen = Shown(listed), !.claimed = claim])
        /\ UNCHANGED <<connected, joined, store, timers, view, begun, history>>

Prune(h) ==
    LET r == req[h]
    IN  /\ At(h, "prune")
        /\ listed' = listed \ r.stale
        /\ crossed' = crossed \cup {s \in r.stale : value[s] # None}
        /\ Goto(h, [r EXCEPT !.pc = "tell", !.stale = {}])
        /\ UNCHANGED <<connected, joined, value, order, ref, claim, claimRef, timers, view, begun,
                       unsure, contested, taken>>

(* A subscriber is given the snapshot; a change is told to the room, the   *)
(* signals before the claim.                                               *)
Hear(h, p) ==
    LET r == req[h]
    IN  view' = [s \in Sockets |->
            IF s \notin joined THEN view[s]
            ELSE IF p = "signal" THEN [view[s] EXCEPT !.seen = r.seen]
            ELSE [view[s] EXCEPT !.claimed = r.claimed]]

TellSocket(h) ==
    LET r == req[h]
    IN  /\ At(h, "tell") /\ r.op = "subscribe"
        /\ view' = [view EXCEPT ![r.s] = [seen |-> r.seen, claimed |-> r.claimed]]
        /\ Goto(h, Idle)
        /\ UNCHANGED <<connected, joined, store, timers, begun, history>>

TellRoom(h) ==
    LET r == req[h]
        p == IF "signal" \in r.tell THEN "signal" ELSE "claim"
        left == r.tell \ {p}
    IN  /\ At(h, "tell") /\ r.op # "subscribe"
        /\ Hear(h, p)
        /\ unsure' = IF r.alone THEN unsure \ {p} ELSE unsure
        /\ Goto(h, IF left = {} THEN Idle ELSE [r EXCEPT !.pc = "load", !.tell = left])
        /\ UNCHANGED <<connected, joined, store, timers, begun, crossed, contested, taken>>

----------------------------------------------------------------------------
(* Values expire.  The timer runs a little later, and so never before the  *)
(* value it was set for has expired; it ends when there is a value again.  *)
Expire ==
    /\ \/ \E s \in Sockets : /\ value[s] # None
                             /\ value' = [value EXCEPT ![s] = None]
                             /\ order' = Remove(order, s)
          /\ UNCHANGED claim
       \/ claim # 0 /\ claim' = 0 /\ UNCHANGED <<value, order>>
    /\ UNCHANGED <<connected, joined, listed, ref, claimRef, timers, view, req, begun, history>>

Rewritten(s, op) == \E h \in Handlers : At(h, "schedule") /\ req[h].s = s /\ req[h].op = op

Due(s) == value[s] = None \/ Rewritten(s, "set")

(* schedulePresenceExpiry, scheduleTypingExpiry, scheduleSoftClaimExpiry.  *)
Fire(h) ==
    /\ \/ \E s \in timer :
            /\ Due(s)
            /\ timer' = timer \ {s}
            /\ Begin(h, [Idle EXCEPT !.op = "fire", !.s = s, !.what = {"signal"},
                                     !.pc = IF value[s] = None THEN "forget" ELSE "idle"])
            /\ UNCHANGED claimTimer
       \/ LET s == claimTimer
          IN  /\ s # 0
              /\ claim = 0 \/ \E g \in Handlers : At(g, "schedule") /\ req[g].op = "claim"
              /\ claimTimer' = 0
              /\ Begin(h, [Idle EXCEPT !.op = "claim_fire", !.s = s, !.what = {"claim"},
                                       !.pc = IF claim = 0 THEN "forget" ELSE "idle"])
              /\ UNCHANGED timer
    /\ UNCHANGED <<connected, joined, store, view, begun, taken>>

(* Mutant: the sockets are not told that the signal has gone.              *)
Forget_Quietly(h) ==
    LET r == req[h]
    IN  /\ At(h, "forget")
        /\ IF r.op = "fire"
           THEN listed' = listed \ {r.s} /\ ref' = ref \ {r.s} /\ UNCHANGED claimRef
           ELSE claimRef' = claimRef \ {r.s} /\ UNCHANGED <<listed, ref>>
        /\ Goto(h, Idle)
        /\ UNCHANGED <<connected, joined, value, order, claim, timers, view, begun, history>>
Forget(h) ==
    LET r == req[h]
    IN  /\ At(h, "forget")
        /\ IF r.op = "fire"
           THEN listed' = listed \ {r.s} /\ ref' = ref \ {r.s} /\ UNCHANGED claimRef
           ELSE claimRef' = claimRef \ {r.s} /\ UNCHANGED <<listed, ref>>
        /\ Goto(h, [r EXCEPT !.pc = "load", !.tell = r.what])
        /\ UNCHANGED <<connected, joined, value, order, claim, timers, view, begun, history>>

----------------------------------------------------------------------------
Step(h) ==
    \/ BeginSet(h) \/ BeginStop(h) \/ BeginClaim(h) \/ Subscribe(h) \/ Unsubscribe(h)
    \/ Disconnect(h) \/ Look(h) \/ WriteSignal(h) \/ WriteClaim(h) \/ Schedule(h)
    \/ Clear(h) \/ Unref(h) \/ Load(h) \/ Prune(h) \/ TellSocket(h) \/ TellRoom(h)
    \/ Fire(h) \/ Forget(h)

Next == Expire \/ \E h \in Handlers : Step(h)

Spec == Init /\ [][Next]_vars

----------------------------------------------------------------------------
(* Types, and: only one who is connected is in the room; the signals that  *)
(* there are, and no others, have a time.                                  *)
TypeOK ==
    /\ joined \subseteq connected /\ connected \subseteq Sockets
    /\ value \in [Sockets -> Modes \cup {None}]
    /\ IsInjective(order) /\ ToSet(order) = {s \in Sockets : value[s] # None}
    /\ listed \subseteq Sockets /\ ref \subseteq Sockets /\ timer \subseteq Sockets
    /\ {claim, claimTimer} \subseteq Sockets \cup {0} /\ claimRef \subseteq Sockets
    /\ view \in [Sockets -> [seen : [Users -> Modes \cup {None}], claimed : Sockets \cup {0}]]
    /\ \A h \in Handlers : req[h].op \in AllOps \cup {None, "fire", "claim_fire"}

(* When nothing is going on and no timer is due, every agent in the room   *)
(* has been told what the others do: the latest signal of each user and    *)
(* the holder of the claim.  It fails, until the next event, when requests *)
(* overlapped; when a stop or a clear met what had expired before its      *)
(* timer ran; and when a repeated signal became the latest of its user.    *)
Quiet == Busy = {}
ViewIsTrue ==
    Quiet => \A s \in joined :
        /\ \/ "signal" \in unsure \/ \E t \in timer : value[t] = None
           \/ \A u \in Users : \/ view[s].seen[u] = LatestOf(Sockets, u)
                               \/ \E t \in crossed : User[t] = u
        /\ "claim" \in unsure \/ (claimTimer # 0 /\ claim = 0) \/ view[s].claimed = claim

(* A socket that has gone leaves nothing in the store, unless a request of *)
(* its own overlapped its going: then its signal stays until it expires.   *)
GoneLeaveNothing ==
    \A s \in Sockets \ connected :
        (\A h \in Busy : req[h].s # s) =>
            /\ s \in crossed \/ (value[s] = None /\ s \notin listed \cup ref)
            /\ contested \/ claim # s

(* A signal always has its timer, and the one that holds the claim is the  *)
(* one for which the timer runs: or nobody would be told that it expired.  *)
(* It takes two requests of one socket, or two about the claim, to lose    *)
(* one.                                                                    *)
HeldHasTimer ==
    /\ \A s \in Sockets :
         value[s] # None /\ s \notin crossed => s \in timer \/ \E h \in Busy : req[h].s = s
    /\ claim # 0 /\ ~contested => \/ claimTimer = claim
                                  \/ \E h \in Busy : "claim" \in Concerns(req[h].op)

(* A socket that goes does not take the claim of another with it, unless   *)
(* two requests about the claim overlapped, or one came just after a claim *)
(* had expired: then the set of the socket that held it may still name the *)
(* ticket.                                                                 *)
LoneClaimStays == "disconnect" \notin taken

(* What the API documentation says of unsubscribing: that it clears the    *)
(* soft claim of that socket.  The code clears the claim of whoever holds  *)
(* it.                                                                     *)
UnsubscribeClearsOwn == "unsubscribe" \notin taken
==============================================================================
