---------------------------- MODULE OneTimeCodes ----------------------------
(***************************************************************************)
(* The one-time codes of one address, purpose and scope: sending them      *)
(* under a cooldown and a limit per window, and verifying them with a      *)
(* limited number of attempts, by overlapping requests.  MongoDB deletes   *)
(* a code some time after it has expired.                                  *)
(*                                                                         *)
(* Sources: src/src/modules/auth/services/otp.service.js and               *)
(* users/models/otp-code.model.js.                                         *)
(***************************************************************************)
EXTENDS Naturals, FiniteSets, FiniteSetsExt

CONSTANTS
    Handlers,     \* requests in flight at once
    MaxCodes,     \* bound on the codes sent
    MaxTime,      \* bound on the time
    Expires,      \* authConfig.otp.expiresMinutes
    Cooldown,     \* resendCooldownSeconds
    Window,       \* rateLimitWindowMinutes
    MaxPerWindow, \* rateLimitMaxPerWindow
    MaxAttempts   \* maxAttempts

CodesAssumption ==
    /\ {MaxCodes, MaxTime, Expires, Cooldown, Window, MaxPerWindow, MaxAttempts} \subseteq Nat
    /\ IsFiniteSet(Handlers)

Codes == 1 .. MaxCodes   \* in the order of createdAt
None == 0
Times == 0 .. MaxTime

VARIABLES
    now,      \* the time, in steps of the cooldown
    code,     \* the code documents
    req,      \* the requests in flight
    sentAt,   \* history: when each code was sent
    tried,    \* history: the wrong codes answered for each, until an overlap
    accepted, \* history: how often each code was accepted
    overlap   \* history: two requests have been in flight at once

vars == <<now, code, req, sentAt, tried, accepted, overlap>>

(* lastSentAt and expiresAt follow from sentAt.                            *)
CodeDoc == [exists : BOOLEAN, consumed : BOOLEAN, attempts : 0 .. MaxAttempts]

Request == [pc : {"idle", "latest", "count", "create", "find", "miss", "hit"},
            code : Codes \cup {None}, loaded : CodeDoc]

NoCode == [exists |-> FALSE, consumed |-> FALSE, attempts |-> 0]
Idle == [pc |-> "idle", code |-> None, loaded |-> NoCode]

At(h, pc) == req[h].pc = pc
Respond(h) == req' = [req EXCEPT ![h] = Idle]
Proceed(h, pc) == req' = [req EXCEPT ![h].pc = pc]

Sent == {c \in Codes : c \in DOMAIN sentAt}
Stored == {c \in Codes : code[c].exists}
Expired(c) == sentAt[c] + Expires =< now

----------------------------------------------------------------------------
Init == /\ now = 0
        /\ code = [c \in Codes |-> NoCode]
        /\ req = [h \in Handlers |-> Idle]
        /\ sentAt = <<>>
        /\ tried = [c \in Codes |-> 0]
        /\ accepted = [c \in Codes |-> 0]
        /\ overlap = FALSE

(* A request of createOtp or verifyOtp arrives.                            *)
Begin(h) ==
    /\ At(h, "idle")
    /\ \E pc \in {"latest", "find"} : Proceed(h, pc)
    /\ overlap' = (overlap \/ \E g \in Handlers \ {h} : ~At(g, "idle"))
    /\ tried' = IF overlap' THEN [c \in Codes |-> 0] ELSE tried
    /\ UNCHANGED <<now, code, sentAt, accepted>>

(* assertOtpSendRateLimit: the cooldown after the latest code, ...         *)
CheckCooldown(h) ==
    /\ At(h, "latest")
    /\ IF Stored # {} /\ now < sentAt[Max(Stored)] + Cooldown THEN Respond(h)
       ELSE Proceed(h, "count")
    /\ UNCHANGED <<now, code, sentAt, tried, accepted, overlap>>

(* ... and the number of codes in the window that are still stored.        *)
CheckWindow(h) ==
    /\ At(h, "count")
    /\ IF Cardinality({c \in Stored : sentAt[c] + Window >= now}) >= MaxPerWindow
       THEN Respond(h) ELSE Proceed(h, "create")
    /\ UNCHANGED <<now, code, sentAt, tried, accepted, overlap>>

(* OtpCode.create; the code is sent by e-mail.                             *)
CreateCode(h) ==
    LET c == Cardinality(Sent) + 1
    IN  /\ At(h, "create") /\ c =< MaxCodes
        /\ code' = [code EXCEPT ![c].exists = TRUE]
        /\ sentAt' = [d \in Sent \cup {c} |-> IF d = c THEN now ELSE sentAt[d]]
        /\ Respond(h)
        /\ UNCHANGED <<now, tried, accepted, overlap>>

(* verifyOtp loads the newest code that is not consumed, and compares it   *)
(* with what the user has entered: one of the codes, or a wrong one.       *)
FindCode(h) ==
    LET open == {c \in Stored : ~code[c].consumed}
        c == Max(open)
    IN  /\ At(h, "find")
        /\ IF open = {} \/ (open # {} /\ (Expired(c) \/ code[c].attempts >= MaxAttempts))
           THEN Respond(h)
           ELSE \E right \in BOOLEAN :
                  req' = [req EXCEPT ![h] =
                               [pc |-> IF right THEN "hit" ELSE "miss",
                                code |-> c, loaded |-> code[c]]]
        /\ UNCHANGED <<now, code, sentAt, tried, accepted, overlap>>

Tried(c) == tried' = IF overlap THEN tried ELSE [tried EXCEPT ![c] = @ + 1]

(* A wrong code: save() writes the attempts as loaded plus one.  It fails  *)
(* when the document has been deleted.                                     *)
CountAttempt(h) ==
    LET r == req[h]
    IN  /\ At(h, "miss")
        /\ code' = IF code[r.code].exists
                   THEN [code EXCEPT ![r.code].attempts = r.loaded.attempts + 1]
                   ELSE code
        /\ Respond(h)
        /\ Tried(r.code)
        /\ UNCHANGED <<now, sentAt, accepted, overlap>>

(* Mutant: consumedAt is not written.                                      *)
Consume_Never(h) ==
    LET c == req[h].code
    IN  /\ At(h, "hit")
        /\ accepted' = [accepted EXCEPT ![c] = @ + 1]
        /\ Respond(h)
        /\ UNCHANGED <<now, code, sentAt, tried, overlap>>

(* The right code: save() writes consumedAt.                               *)
Consume(h) ==
    LET c == req[h].code
    IN  /\ At(h, "hit")
        /\ IF code[c].exists
           THEN /\ code' = [code EXCEPT ![c].consumed = TRUE]
                /\ accepted' = [accepted EXCEPT ![c] = @ + 1]
           ELSE UNCHANGED <<code, accepted>>
        /\ Respond(h)
        /\ UNCHANGED <<now, sentAt, tried, overlap>>

(* Time passes: a step of the cooldown is much longer than a request.      *)
Tick ==
    /\ now < MaxTime /\ \A h \in Handlers : At(h, "idle")
    /\ now' = now + 1
    /\ UNCHANGED <<code, req, sentAt, tried, accepted, overlap>>

(* The TTL index deletes an expired code.                                  *)
Purge(c) ==
    /\ code[c].exists /\ Expired(c)
    /\ code' = [code EXCEPT ![c] = NoCode]
    /\ UNCHANGED <<now, req, sentAt, tried, accepted, overlap>>

(* An await fails, or the process stops.                                   *)
Fail(h) ==
    /\ ~At(h, "idle") /\ Respond(h)
    /\ UNCHANGED <<now, code, sentAt, tried, accepted, overlap>>

Handle(h) ==
    \/ Begin(h) \/ CheckCooldown(h) \/ CheckWindow(h) \/ CreateCode(h)
    \/ FindCode(h) \/ CountAttempt(h) \/ Consume(h) \/ Fail(h)

Next == (\E h \in Handlers : Handle(h)) \/ Tick \/ (\E c \in Codes : Purge(c))

Spec == Init /\ [][Next]_vars

----------------------------------------------------------------------------
(* Properties *)

(* Every variable has its type; a loaded code was open when it was loaded. *)
TypeOK ==
    /\ now \in Times
    /\ code \in [Codes -> CodeDoc]
    /\ req \in [Handlers -> Request]
    /\ sentAt \in [Sent -> Times]
    /\ Sent = 1 .. Cardinality(Sent) /\ Stored \subseteq Sent
    /\ tried \in [Codes -> Nat] /\ accepted \in [Codes -> Nat]
    /\ overlap \in BOOLEAN
    /\ \A h \in Handlers :
          req[h].pc \in {"miss", "hit"} =>
              /\ req[h].code \in Sent /\ ~req[h].loaded.consumed
              /\ req[h].loaded.attempts < MaxAttempts

(* A code is accepted once.  Verifications that overlap may each accept it *)
(* (all have loaded it before the first consumes it), but no later one.    *)
CodeUsedOnce ==
    \A c \in Codes : accepted[c] =< IF overlap THEN Cardinality(Handlers) ELSE 1

(* One after the other, no more than maxAttempts wrong codes are answered  *)
(* for one code, whatever other codes are sent, consumed or deleted.       *)
AttemptsLimited == ~overlap => \A c \in Codes : tried[c] =< MaxAttempts

(* One after the other, codes are sent at least a cooldown apart, and at   *)
(* most maxPerWindow in the life of a code.  (Not in the longer window of  *)
(* the configuration: expired codes are deleted, and then not counted.)    *)
SendsLimited ==
    ~overlap => \A c \in Sent :
        /\ \A d \in Sent : d < c => sentAt[d] + Cooldown =< sentAt[c]
        /\ Cardinality({d \in Sent : d =< c /\ sentAt[c] < sentAt[d] + Expires})
              =< MaxPerWindow

(* No request gives a consumed code back, however late its save lands.     *)
ConsumedForGood ==
    [][\A c \in Codes : code[c].consumed /\ code'[c].exists => code'[c].consumed]_vars

----------------------------------------------------------------------------
(* The inductive invariant behind them *)

(* As the configuration has it: a code outlives the cooldown, and the      *)
(* window is as long as its life.                                          *)
SendAssumption == Cooldown =< Expires /\ Expires =< Window

(* A code that is not stored has left nothing; one that was not sent was   *)
(* neither tried nor accepted.                                             *)
CodesAreNew == \A c \in Codes :
    /\ ~code[c].exists => code[c] = NoCode
    /\ c \notin Sent => tried[c] = 0 /\ accepted[c] = 0

LoneRequest == ~overlap => \A g, h \in Handlers : ~At(g, "idle") /\ ~At(h, "idle") => g = h

(* A code that was accepted is no longer open, and so nobody else loads    *)
(* it: each use is of a request, of those that had loaded it before.       *)
Accepting(c) == {h \in Handlers : At(h, "hit") /\ req[h].code = c}
UsesCounted == \A c \in Codes :
    /\ accepted[c] + Cardinality(Accepting(c)) =< Cardinality(Handlers)
    /\ accepted[c] > 0 => code[c].consumed \/ ~code[c].exists
    /\ ~overlap => accepted[c] =< 1 /\ (Accepting(c) # {} => accepted[c] = 0)

(* The attempts that are stored, or loaded by the request that is about to *)
(* count one, are those that were answered.                                *)
TriesCounted == ~overlap =>
    /\ \A c \in Codes : /\ tried[c] =< MaxAttempts
                        /\ code[c].exists => tried[c] =< code[c].attempts
    /\ \A h \in Handlers : At(h, "miss") => tried[req[h].code] =< req[h].loaded.attempts

(* Only expired codes are deleted; what a request has checked is so until  *)
(* its code is created.                                                    *)
Unexpired == {c \in Sent : ~Expired(c)}
SendsChecked ==
    /\ \A c \in Sent : sentAt[c] =< now /\ (c \in Stored \/ Expired(c))
    /\ ~overlap => \A h \in Handlers :
         /\ req[h].pc \in {"count", "create"} => \A c \in Sent : sentAt[c] + Cooldown =< now
         /\ At(h, "create") => Cardinality(Unexpired) < MaxPerWindow

IndInv == /\ TypeOK /\ CodesAreNew /\ LoneRequest /\ UsesCounted /\ TriesCounted
          /\ SendsLimited /\ SendsChecked
============================================================================
