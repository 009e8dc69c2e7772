---------------------------- MODULE MCCollaboration ----------------------------
(***************************************************************************)
(* A run over the agents on one ticket.  part says what is asked for: the  *)
(* signals of two tabs of one agent and of another agent, one request at a *)
(* time; the signals of two at once; or claims.                            *)
(***************************************************************************)
EXTENDS Naturals, Sequences

CONSTANTS u1, u2, a, b, Handlers

VARIABLES
    part, connected, joined, value, order, listed, ref, timer, claim, claimRef, claimTimer,
    view, req, begun, unsure, crossed, contested, taken

vars == <<part, connected, joined, value, order, listed, ref, timer, claim, claimRef, claimTimer,
          view, req, begun, unsure, crossed, contested, taken>>

Tabs == INSTANCE Collaboration WITH
    Sockets <- 1 .. 3, User <- <<u1, u1, u2>>, Modes <- {a, b}, MaxRequests <- 4,
    Ops <- {"set", "stop", "subscribe", "unsubscribe", "disconnect"}
Signals == INSTANCE Collaboration WITH
    Sockets <- 1 .. 3, User <- <<u1, u1, u2>>, Modes <- {a}, MaxRequests <- 3,
    Ops <- {"set", "stop", "subscribe", "disconnect"}
Claims == INSTANCE Collaboration WITH
    Sockets <- 1 .. 3, User <- <<u1, u1, u2>>, Modes <- {a}, MaxRequests <- 3,
    Ops <- {"claim", "unclaim", "subscribe", "unsubscribe", "disconnect"}

(* Everybody, or only the first and the third, are there and in the room. *)
LiveInit ==
    /\ \/ part \in {"tabs", "claims"} /\ connected = 1 .. 3
       \/ part = "signals" /\ connected = {1, 3}
    /\ joined = connected
    /\ value = [s \in 1 .. 3 |-> Tabs!None] /\ order = <<>>
    /\ listed = {} /\ ref = {} /\ timer = {}
    /\ claim = 0 /\ claimRef = {} /\ claimTimer = 0
    /\ view = [s \in 1 .. 3 |-> [seen |-> [u \in {u1, u2} |-> Tabs!None], claimed |-> 0]]
    /\ req = [h \in Handlers |-> Tabs!Idle] /\ begun = 0
    /\ unsure = {} /\ crossed = {} /\ contested = FALSE /\ taken = {}

LiveNext ==
    /\ UNCHANGED part
    /\ \/ part = "tabs" /\ (Tabs!Expire \/ Tabs!Step(1))
       \/ part = "signals" /\ Signals!Next
       \/ part = "claims" /\ Claims!Next

CollaborationSpec == LiveInit /\ [][LiveNext]_vars

----------------------------------------------------------------------------
(* The properties of Collaboration; each is explained there.               *)

(* Everybody in the room has been told what is so.                         *)
ViewIsTrue == Tabs!ViewIsTrue

(* What a socket leaves behind when it goes ends, and what there is has    *)
(* its timer.                                                              *)
SignalsEnd == Tabs!TypeOK /\ Tabs!GoneLeaveNothing /\ Tabs!HeldHasTimer

(* A claim stays while only others go.                                     *)
LoneClaimStays == Tabs!LoneClaimStays

(* Violated: unsubscribing clears the claim of its own socket only.        *)
UnsubscribeClearsOwn == Tabs!UnsubscribeClearsOwn
==============================================================================
