----------------------- MODULE MailboxDefaults_proofs -----------------------
(***************************************************************************)
(* Theorems about MailboxDefaults, for any number of requests and          *)
(* mailboxes.  The flags and the pointer are out of step while requests    *)
(* are under way; the invariants below say which request still puts them   *)
(* right, and what one that runs alone has achieved at each of its awaits. *)
(***************************************************************************)
EXTENDS MailboxDefaults, WellFoundedInduction, FiniteSetTheorems, TLAPS

(* A request that asks for a mailbox has found it.                         *)
HasBox(r) ==
    /\ r.pc \in {"load", "count", "save"} => r.box \in Existing
    /\ (r.pc = "limit" /\ r.op # "create") => r.box \in Existing

TypeInv == TypeOK /\ \A h \in Handlers : HasBox(req[h])

----------------------------------------------------------------------------
(* What the operators return. *)

LEMMA IdleType == Idle \in Request
  BY DEF Idle, Request, Ops

(* The natural numbers are well-ordered.                                   *)
Less == {m \in Nat \X Nat : m[1] < m[2]}

LEMMA LessWellFounded == IsWellFoundedOn(Less, Nat)
  BY NatLessThanWellFounded DEF OpToRel, Less

LEMMA FirstIsLeast ==
    ASSUME NEW boxes \in SUBSET Box, boxes # {}
    PROVE  First(boxes) \in boxes /\ \A c \in boxes : First(boxes) =< c
  <1>1. boxes \in SUBSET Nat
    BY MailboxAssumption DEF Box
  <1>2. PICK b \in boxes : \A c \in boxes : <<c, b>> \notin Less
    BY <1>1, LessWellFounded, WFMin
  <1>3. ASSUME NEW c \in boxes PROVE b =< c
    <2>1. b \in Nat /\ c \in Nat /\ ~(c < b)
      BY <1>1, <1>2 DEF Less
    <2>. QED
      BY <2>1
  <1>. QED
    BY <1>3 DEF First

(* The mailbox to be the default is one that exists.                       *)
LEMMA CanonicalExists ==
    ASSUME Existing # {}, NEW seen
    PROVE  Canonical(seen) \in Existing
  <1>1. /\ Active \subseteq Existing /\ Defaults \subseteq Existing
        /\ Existing \in SUBSET Box /\ Active \in SUBSET Box /\ Defaults \in SUBSET Box
    BY DEF Active, Defaults, Existing
  <1>2. First(Existing) \in Existing
    BY <1>1, FirstIsLeast
  <1>3. Active # {} => First(Active) \in Existing
    BY <1>1, FirstIsLeast
  <1>4. Defaults # {} => First(Defaults) \in Existing
    BY <1>1, FirstIsLeast
  <1>. QED
    BY <1>1, <1>2, <1>3, <1>4 DEF Canonical

----------------------------------------------------------------------------
(* How a step moves the requests. *)

(* The requests that did not take the step only learn that they are no     *)
(* longer alone.                                                           *)
Unmoved(h) ==
    \A g \in Handlers \ {h} :
       /\ req'[g].pc = req[g].pc /\ req'[g].op = req[g].op /\ req'[g].box = req[g].box
       /\ req'[g].seen = req[g].seen /\ req'[g].target = req[g].target
       /\ req'[g].retried = req[g].retried
       /\ (req'[g].alone => req[g].alone)

LEMMA OthersKeep ==
    ASSUME TypeInv, NEW h \in Handlers, Handle(h)
    PROVE  Unmoved(h)
  <1>0. req \in [Handlers -> Request]
    BY DEF TypeInv, TypeOK
  <1>1. ASSUME NEW r, Goto(h, r) PROVE Unmoved(h)
    BY <1>0, <1>1 DEF Goto, Unmoved
  <1>2. CASE Begin(h)
    <2>1. \E r : req' = [g \in Handlers |->
                            IF g = h THEN r ELSE [req[g] EXCEPT !.alone = @ /\ g \notin Busy]]
      BY <1>2 DEF Begin
    <2>2. ASSUME NEW g \in Handlers \ {h}
          PROVE  req[g] \in Request /\ req'[g] = [req[g] EXCEPT !.alone = @ /\ g \notin Busy]
      BY <1>0, <2>1
    <2>. QED
      BY ZenonT(40), <2>2 DEF Unmoved, Request
  <1>3. CASE ~Begin(h)
    <2>1. \E r : Goto(h, r)
      BY <1>3 DEF Handle, LoadMailbox, CheckLimit, InsertMailbox, CountActive, SaveActive,
                  LoadWorkspace, ListMailboxes, SeedMailbox, UnsetOthers, SetDefault,
                  SetPointer, SetPointerFails, Verify, Fail, Proceed, Respond, Goto
    <2>. QED
      BY <1>1, <2>1
  <1>. QED
    BY <1>2, <1>3
----------------------------------------------------------------------------
(* Types *)

LEMMA InitType == Init => TypeInv
  <1>. SUFFICES ASSUME Init PROVE TypeInv
    OBVIOUS
  <1>1. req \in [Handlers -> Request] /\ \A h \in Handlers : req[h] = Idle
    BY IdleType DEF Init
  <1>2. mailbox \in [Box -> MailboxDoc]
    BY DEF Init, NoMailbox, MailboxDoc
  <1>3. pointer \in Box \cup {None} /\ faults \in 0 .. MaxFaults
    BY MailboxAssumption DEF Init
  <1>4. ASSUME NEW h \in Handlers
        PROVE  HasBox(req[h]) /\ req[h].pc = "idle"
    BY <1>1 DEF HasBox, Idle
  <1>. QED
    BY <1>1, <1>2, <1>3, <1>4 DEF TypeInv, TypeOK

(* A mailbox that exists goes on existing.                                 *)
LEMMA MailboxesStay ==
    ASSUME TypeInv, NEW h \in Handlers, Handle(h)
    PROVE  mailbox' \in [Box -> MailboxDoc] /\ Existing \subseteq Existing'
  <1>. DEFINE New(b, d) == [exists |-> TRUE, active |-> TRUE, isDefault |-> d]
  <1>0. /\ mailbox \in [Box -> MailboxDoc] /\ req[h] \in Request
        /\ \A b \in Box : mailbox[b] \in MailboxDoc
    BY DEF TypeInv, TypeOK
  <1>1. ASSUME mailbox' = mailbox
        PROVE  mailbox' \in [Box -> MailboxDoc] /\ Existing \subseteq Existing'
    BY <1>0, <1>1 DEF Existing
  <1>2. ASSUME NEW b \in Box, NEW d \in BOOLEAN, mailbox' = [mailbox EXCEPT ![b] = New(b, d)]
        PROVE  mailbox' \in [Box -> MailboxDoc] /\ Existing \subseteq Existing'
    BY <1>0, <1>2 DEF Existing, MailboxDoc
  <1>3. CASE InsertMailbox(h) \/ SeedMailbox(h)
    <2>1. CASE mailbox' = mailbox
      BY <1>1, <2>1
    <2>2. CASE mailbox' # mailbox
      <3>1. Box \ Existing # {} /\ \E d \in BOOLEAN :
              mailbox' = [mailbox EXCEPT ![First(Box \ Existing)] =
                            [exists |-> TRUE, active |-> TRUE, isDefault |-> d]]
        BY <1>3, <2>2 DEF InsertMailbox, SeedMailbox, Existing
      <3>2. First(Box \ Existing) \in Box
        BY <3>1, FirstIsLeast
      <3>. QED
        BY <1>2, <3>1, <3>2
    <2>. QED
      BY <2>1, <2>2
  <1>4. CASE SaveActive(h)
    <2>1. mailbox' = [mailbox EXCEPT ![req[h].box].active = (req[h].op = "activate")]
      BY <1>4 DEF SaveActive
    <2>2. (req[h].op = "activate") \in BOOLEAN
      OBVIOUS
    <2>. QED
      BY ZenonT(40), <1>0, <2>1, <2>2 DEF Existing, MailboxDoc
  <1>5. CASE UnsetOthers(h)
    <2>1. mailbox' = [b \in Box |-> [mailbox[b] EXCEPT !.isDefault = @ /\ b = req[h].target]]
      BY <1>5 DEF UnsetOthers
    <2>2. ASSUME NEW b \in Box
          PROVE  /\ [mailbox[b] EXCEPT !.isDefault = @ /\ b = req[h].target] \in MailboxDoc
                 /\ mailbox'[b].exists = mailbox[b].exists
      BY <1>0, <2>1 DEF MailboxDoc
    <2>. QED
      BY <2>1, <2>2 DEF Existing
  <1>6. CASE SetDefault(h)
    <2>1. CASE mailbox' = mailbox
      BY <1>1, <2>1
    <2>2. CASE mailbox' = [mailbox EXCEPT ![req[h].target].isDefault = TRUE,
                                          ![req[h].target].active = TRUE]
      BY <1>0, <2>2 DEF Existing, MailboxDoc
    <2>. QED
      BY <1>6, <2>1, <2>2 DEF SetDefault
  <1>7. CASE ~(\/ InsertMailbox(h) \/ SeedMailbox(h) \/ SaveActive(h)
               \/ UnsetOthers(h) \/ SetDefault(h))
    BY <1>1, <1>7 DEF Handle, Begin, LoadMailbox, CheckLimit, CountActive, LoadWorkspace,
                      ListMailboxes, SetPointer, SetPointerFails, Verify, Fail
  <1>. QED
    BY <1>3, <1>4, <1>5, <1>6, <1>7
(* A step leaves the request that takes it with what its next step needs.  *)
LEMMA StepType ==
    ASSUME TypeInv, NEW h \in Handlers, Handle(h)
    PROVE  TypeInv'
  <1>. DEFINE Ready(r) ==
         /\ r \in Request
         /\ r.pc \in {"unset", "set", "point", "repoint", "unpointed", "verify"}
            => r.target \in Existing'
         /\ r.pc \in {"load", "count", "save"} => r.box \in Existing'
         /\ (r.pc = "limit" /\ r.op # "create") => r.box \in Existing'
  <1>0. /\ req \in [Handlers -> Request] /\ req[h] \in Request /\ HasBox(req[h])
        /\ req[h].pc \in {"unset", "set", "point", "repoint", "unpointed", "verify"}
           => req[h].target \in Existing
        /\ pointer \in Box \cup {None} /\ faults \in 0 .. MaxFaults
    BY DEF TypeInv, TypeOK
  <1>1. mailbox' \in [Box -> MailboxDoc] /\ Existing \subseteq Existing'
    BY MailboxesStay
  <1>2. Existing \in SUBSET Box /\ Existing' \in SUBSET Box
    BY DEF Existing
  <1>3. Unmoved(h)
    BY OthersKeep
  <1>4. Ready(Idle)
    BY IdleType DEF Idle
  <1>5. ASSUME req' \in [Handlers -> Request], Ready(req'[h])
        PROVE  TypeInv'
    <2>1. ASSUME NEW g \in Handlers PROVE Ready(req'[g])
      <3>1. CASE g = h
        BY <1>5, <3>1
      <3>2. CASE g # h
        <4>1. /\ HasBox(req[g])
              /\ req[g].pc \in {"unset", "set", "point", "repoint", "unpointed", "verify"}
                 => req[g].target \in Existing
          BY DEF TypeInv, TypeOK
        <4>2. req'[g].pc = req[g].pc /\ req'[g].op = req[g].op
              /\ req'[g].box = req[g].box /\ req'[g].target = req[g].target
          BY <1>3, <3>2 DEF Unmoved
        <4>. QED
          BY <1>1, <1>5, <4>1, <4>2 DEF HasBox
      <3>. QED
        BY <3>1, <3>2
    <2>2. pointer' \in Box \cup {None}
      <3>1. CASE SetPointer(h)
        BY <1>0, <1>2, <3>1 DEF SetPointer
      <3>2. CASE ~SetPointer(h)
        BY <1>0, <3>2 DEF Handle, Begin, LoadMailbox, CheckLimit, InsertMailbox, CountActive,
                  SaveActive, LoadWorkspace, ListMailboxes, SeedMailbox, UnsetOthers,
                  SetDefault, SetPointerFails, Verify, Fail
      <3>. QED
        BY <3>1, <3>2
    <2>3. faults' \in 0 .. MaxFaults
      <3>1. faults' = faults \/ (faults < MaxFaults /\ faults' = faults + 1)
        BY DEF Handle, Begin, LoadMailbox, CheckLimit, InsertMailbox, CountActive,
               SaveActive, LoadWorkspace, ListMailboxes, SeedMailbox, UnsetOthers,
               SetDefault, SetPointer, SetPointerFails, Verify, Fail
      <3>. QED
        BY <1>0, <3>1, MailboxAssumption
    <2>. QED
      BY <1>1, <1>5, <2>1, <2>2, <2>3 DEF TypeInv, TypeOK, HasBox
  <1>6. ASSUME NEW r, Goto(h, r), Ready(r)
        PROVE  TypeInv'
    <2>1. req' \in [Handlers -> Request] /\ req'[h] = r
      BY <1>0, <1>6 DEF Goto
    <2>. QED
      BY <1>5, <1>6, <2>1
  <1>7. CASE Begin(h)
    <2>1. PICK op \in Ops, b \in Existing \cup {None} :
             /\ b = None <=> op \in {"create", "ensure"}
             /\ req' = [g \in Handlers |->
                          IF g = h
                          THEN [Idle EXCEPT !.op = op, !.box = b, !.alone = (Busy = {}),
                                  !.pc = CASE op = "create" -> "limit"
                                           [] op = "ensure" -> "ensure"
                                           [] OTHER -> "load"]
                          ELSE [req[g] EXCEPT !.alone = @ /\ g \notin Busy]]
      BY <1>7 DEF Begin
    <2>2. req'[h] \in Request /\ req'[h].op = op /\ req'[h].box = b
          /\ req'[h].pc \in {"limit", "ensure", "load"}
          /\ (req'[h].pc = "limit" => op = "create")
          /\ (req'[h].pc = "load" => b \in Existing)
      BY <1>2, <2>1 DEF Idle, Request, Ops
    <2>3. ASSUME NEW g \in Handlers \ {h} PROVE req'[g] \in Request
      <3>1. req'[g] = [req[g] EXCEPT !.alone = @ /\ g \notin Busy] /\ req[g] \in Request
        BY <1>0, <2>1
      <3>. QED
        BY <3>1 DEF Request
    <2>4. req' \in [Handlers -> Request]
      BY <2>1, <2>2, <2>3
    <2>. QED
      BY <1>1, <1>5, <2>2, <2>4
  <1>8. CASE LoadMailbox(h)
    <2>1. req[h].box \in Existing
      BY <1>0, <1>8 DEF LoadMailbox, At, HasBox
    <2>2. \E r : Goto(h, r) /\ r \in {Idle, [req[h] EXCEPT !.pc = "unset", !.target = req[h].box],
                                      [req[h] EXCEPT !.pc = "ensure"],
                                      [req[h] EXCEPT !.pc = "limit"],
                                      [req[h] EXCEPT !.pc = "count"]}
      BY <1>8 DEF LoadMailbox, Proceed, Respond, Goto
    <2>3. \A r \in {[req[h] EXCEPT !.pc = "unset", !.target = req[h].box],
                    [req[h] EXCEPT !.pc = "ensure"], [req[h] EXCEPT !.pc = "limit"],
                    [req[h] EXCEPT !.pc = "count"]} : Ready(r)
      BY ZenonT(40), <1>0, <1>1, <1>2, <2>1 DEF Request
    <2>. QED
      BY <1>4, <1>6, <2>2, <2>3
  <1>9. CASE CheckLimit(h) \/ CountActive(h)
    <2>1. \E r : Goto(h, r) /\ (\/ r = Idle
                                \/ r = [req[h] EXCEPT !.pc = "insert"] /\ req[h].op = "create"
                                \/ r = [req[h] EXCEPT !.pc = "save"] /\ req[h].box \in Existing)
      BY <1>0, <1>9 DEF CheckLimit, CountActive, Proceed, Respond, Goto, HasBox, At
    <2>2. Ready([req[h] EXCEPT !.pc = "insert"])
      BY <1>0 DEF Request
    <2>3. ASSUME req[h].box \in Existing PROVE Ready([req[h] EXCEPT !.pc = "save"])
      BY <1>0, <1>1, <2>3 DEF Request
    <2>. QED
      BY <1>4, <1>6, <2>1, <2>2, <2>3
  <1>10. CASE InsertMailbox(h) \/ SaveActive(h)
    <2>1. Goto(h, [req[h] EXCEPT !.pc = "ensure"])
      BY <1>10 DEF InsertMailbox, SaveActive, Proceed
    <2>2. Ready([req[h] EXCEPT !.pc = "ensure"])
      BY <1>0 DEF Request
    <2>. QED
      BY <1>6, <2>1, <2>2
  <1>11. CASE LoadWorkspace(h)
    <2>1. Goto(h, [req[h] EXCEPT !.pc = "list", !.seen = pointer])
      BY <1>11 DEF LoadWorkspace
    <2>2. Ready([req[h] EXCEPT !.pc = "list", !.seen = pointer])
      BY <1>0 DEF Request
    <2>. QED
      BY <1>6, <2>1, <2>2
  <1>12. CASE ListMailboxes(h)
    <2>1. CASE Existing = {}
      <3>1. Goto(h, [req[h] EXCEPT !.pc = "seed"])
        BY <1>12, <2>1 DEF ListMailboxes, Proceed
      <3>2. Ready([req[h] EXCEPT !.pc = "seed"])
        BY <1>0 DEF Request
      <3>. QED
        BY <1>6, <3>1, <3>2
    <2>2. CASE Existing # {}
      <3>1. PICK b \in Existing : b = Canonical(req[h].seen)
        BY <2>2, CanonicalExists
      <3>2. Goto(h, [req[h] EXCEPT !.pc = "unset", !.target = b])
        BY <1>12, <2>2, <3>1 DEF ListMailboxes
      <3>3. Ready([req[h] EXCEPT !.pc = "unset", !.target = b])
        BY <1>0, <1>1, <1>2, <3>1 DEF Request
      <3>. QED
        BY <1>6, <3>2, <3>3
    <2>. QED
      BY <2>1, <2>2
  <1>13. CASE SeedMailbox(h)
    <2>1. CASE Goto(h, [req[h] EXCEPT !.pc = "list"])
      <3>1. Ready([req[h] EXCEPT !.pc = "list"])
        BY <1>0 DEF Request
      <3>. QED
        BY <1>6, <2>1, <3>1
    <2>2. CASE ~Goto(h, [req[h] EXCEPT !.pc = "list"])
      <3>1. /\ Box \ Existing # {}
            /\ mailbox' = [mailbox EXCEPT ![First(Box \ Existing)] =
                             [exists |-> TRUE, active |-> TRUE, isDefault |-> TRUE]]
            /\ Goto(h, [req[h] EXCEPT !.pc = "unset", !.target = First(Box \ Existing)])
        BY <1>2, <1>13, <2>2 DEF SeedMailbox, Proceed
      <3>2. PICK b \in Box : b = First(Box \ Existing)
        BY <3>1, FirstIsLeast
      <3>3. b \in Existing'
        BY <3>1, <3>2 DEF Existing, TypeInv, TypeOK
      <3>4. Ready([req[h] EXCEPT !.pc = "unset", !.target = b])
        BY <1>0, <3>3 DEF Request
      <3>. QED
        BY <1>6, <3>1, <3>2, <3>4
    <2>. QED
      BY <2>1, <2>2
  <1>14. CASE UnsetOthers(h) \/ SetDefault(h) \/ SetPointer(h) \/ SetPointerFails(h)
    <2>1. req[h].target \in Existing'
      BY <1>0, <1>1, <1>14 DEF UnsetOthers, SetDefault, SetPointer, SetPointerFails, At
    <2>2. \E pc \in {"set", "point", "repoint", "unpointed", "verify"} :
             \E r : Goto(h, r) /\ r \in {Idle, [req[h] EXCEPT !.pc = pc],
                                         [req[h] EXCEPT !.pc = "unset", !.retried = TRUE]}
      BY <1>14 DEF UnsetOthers, SetDefault, SetPointer, SetPointerFails, Proceed, Respond, Goto
    <2>3. \A pc \in {"set", "point", "repoint", "unpointed", "verify"} :
             Ready([req[h] EXCEPT !.pc = pc])
      BY <1>0, <2>1 DEF Request
    <2>4. Ready([req[h] EXCEPT !.pc = "unset", !.retried = TRUE])
      BY <1>0, <2>1 DEF Request
    <2>. QED
      BY <1>4, <1>6, <2>2, <2>3, <2>4
  <1>15. CASE Verify(h) \/ Fail(h)
    BY <1>4, <1>6, <1>15 DEF Verify, Fail, Respond, Goto
  <1>. QED
    BY <1>7, <1>8, <1>9, <1>10, <1>11, <1>12, <1>13, <1>14, <1>15 DEF Handle

(* Every variable has its type, and every request has what it works on.    *)
THEOREM TypeCorrect == Spec => []TypeInv
  <1>1. TypeInv /\ [Next]_vars => TypeInv'
    <2>1. TypeInv /\ UNCHANGED vars => TypeInv'
      BY DEF TypeInv, TypeOK, HasBox, Existing, vars
    <2>. QED
      BY <2>1, StepType DEF Next
  <1>. QED
    BY InitType, <1>1, PTL DEF Spec
----------------------------------------------------------------------------
(* What each step makes of the flags. *)

LEMMA InsertKeepsDefaults ==
    ASSUME TypeInv, NEW h \in Handlers, InsertMailbox(h)
    PROVE  Existing' # {} /\ Defaults' = Defaults /\ Active \subseteq Active'
  <1>1. Box \ Existing # {}
    BY DEF InsertMailbox, Existing
  <1>2. PICK b \in Box \ Existing : b = First(Box \ Existing)
    BY <1>1, FirstIsLeast
  <1>3. mailbox' = [mailbox EXCEPT ![b] = [exists |-> TRUE, active |-> TRUE, isDefault |-> FALSE]]
    BY <1>2 DEF InsertMailbox
  <1>4. mailbox'[b] = [exists |-> TRUE, active |-> TRUE, isDefault |-> FALSE]
        /\ \A c \in Box \ {b} : mailbox'[c] = mailbox[c]
    BY <1>3 DEF TypeInv, TypeOK
  <1>. QED
    BY <1>2, <1>4 DEF Existing, Defaults, Active

LEMMA SaveKeepsDefaults ==
    ASSUME TypeInv, NEW h \in Handlers, SaveActive(h)
    PROVE  Existing' = Existing /\ Defaults' = Defaults
  <1>. DEFINE on == req[h].op = "activate"
  <1>1. mailbox' = [mailbox EXCEPT ![req[h].box].active = on]
    BY DEF SaveActive
  <1>2. ASSUME NEW b \in Box
        PROVE  mailbox'[b].exists = mailbox[b].exists /\ mailbox'[b].isDefault = mailbox[b].isDefault
    <2>1. mailbox[b] \in MailboxDoc
          /\ mailbox'[b] \in {mailbox[b], [mailbox[b] EXCEPT !.active = on]}
      BY <1>1 DEF TypeInv, TypeOK
    <2>. QED
      BY <2>1 DEF MailboxDoc
  <1>. QED
    BY <1>2 DEF Existing, Defaults

(* The seeded mailbox is the only default, and it is active.               *)
LEMMA SeedMakesDefault ==
    ASSUME TypeInv, NEW h \in Handlers, SeedMailbox(h), mailbox' # mailbox
    PROVE  /\ Goto(h, [req[h] EXCEPT !.pc = "unset", !.target = First(Box \ Existing)])
           /\ Defaults = {} /\ Defaults' = {First(Box \ Existing)} /\ Defaults' \subseteq Active'
  <1>1. Box \ Existing # {}
    BY DEF SeedMailbox, Existing
  <1>2. PICK b \in Box \ Existing : b = First(Box \ Existing)
    BY <1>1, FirstIsLeast
  <1>3. /\ mailbox' = [mailbox EXCEPT ![b] = [exists |-> TRUE, active |-> TRUE, isDefault |-> TRUE]]
        /\ Goto(h, [req[h] EXCEPT !.pc = "unset", !.target = b]) /\ Defaults = {}
    BY <1>2 DEF SeedMailbox
  <1>4. mailbox'[b] = [exists |-> TRUE, active |-> TRUE, isDefault |-> TRUE]
        /\ \A c \in Box \ {b} : mailbox'[c] = mailbox[c]
    BY <1>3 DEF TypeInv, TypeOK
  <1>. QED
    BY <1>2, <1>3, <1>4 DEF Existing, Defaults, Active

LEMMA UnsetKeepsTarget ==
    ASSUME TypeInv, NEW h \in Handlers, UnsetOthers(h)
    PROVE  /\ Existing' = Existing /\ Active' = Active
           /\ Defaults' = Defaults \cap {req[h].target}
  <1>1. ASSUME NEW b \in Box
        PROVE  /\ mailbox'[b].exists = mailbox[b].exists /\ mailbox'[b].active = mailbox[b].active
               /\ mailbox'[b].isDefault = (mailbox[b].isDefault /\ b = req[h].target)
    <2>1. mailbox[b] \in MailboxDoc
          /\ mailbox'[b] = [mailbox[b] EXCEPT !.isDefault = @ /\ b = req[h].target]
      BY DEF TypeInv, TypeOK, UnsetOthers
    <2>. QED
      BY <2>1 DEF MailboxDoc
  <1>. QED
    BY <1>1 DEF Existing, Defaults, Active

(* The flag goes to the target, or another mailbox has it still.           *)
LEMMA SetMakesDefault ==
    ASSUME TypeInv, NEW h \in Handlers, SetDefault(h)
    PROVE  \/ /\ Defaults \subseteq {req[h].target}
              /\ Proceed(h, "point")
              /\ Defaults' = {req[h].target} /\ Defaults' \subseteq Active'
              /\ Existing' = Existing
           \/ /\ ~(Defaults \subseteq {req[h].target}) /\ mailbox' = mailbox
              /\ IF req[h].retried THEN Respond(h)
                 ELSE Goto(h, [req[h] EXCEPT !.pc = "unset", !.retried = TRUE])
  <1>. DEFINE b == req[h].target
  <1>1. CASE mailbox' = mailbox /\ ~(Defaults \subseteq {b})
    BY <1>1 DEF SetDefault
  <1>2. CASE ~(mailbox' = mailbox /\ ~(Defaults \subseteq {b}))
    <2>1. /\ Defaults \subseteq {b} /\ Proceed(h, "point")
          /\ mailbox' = [mailbox EXCEPT ![b].isDefault = TRUE, ![b].active = TRUE]
      BY <1>2 DEF SetDefault
    <2>2. b \in Existing /\ mailbox \in [Box -> MailboxDoc]
      BY DEF SetDefault, At, TypeInv, TypeOK
    <2>3. /\ mailbox'[b].exists /\ mailbox'[b].isDefault /\ mailbox'[b].active
          /\ \A c \in Box \ {b} : mailbox'[c] = mailbox[c]
      BY <2>1, <2>2 DEF Existing, MailboxDoc
    <2>4. Existing' = Existing
      BY <2>2, <2>3 DEF Existing
    <2>5. Defaults' = {b}
      BY <2>1, <2>2, <2>3 DEF Existing, Defaults
    <2>6. b \in Active'
      BY <2>2, <2>3 DEF Existing, Active
    <2>. QED
      BY <2>1, <2>4, <2>5, <2>6
  <1>. QED
    BY <1>1, <1>2

(* No other step touches a mailbox.                                        *)
LEMMA OthersKeepMailboxes ==
    ASSUME NEW h \in Handlers, Handle(h), mailbox' # mailbox
    PROVE  \/ InsertMailbox(h) \/ SaveActive(h) \/ SeedMailbox(h)
           \/ UnsetOthers(h) \/ SetDefault(h)
  BY DEF Handle, Begin, LoadMailbox, CheckLimit, CountActive, LoadWorkspace,
         ListMailboxes, SetPointer, SetPointerFails, Verify, Fail

LEMMA SameMailboxes ==
    ASSUME mailbox' = mailbox
    PROVE  Existing' = Existing /\ Active' = Active /\ Defaults' = Defaults
  BY DEF Existing, Active, Defaults

----------------------------------------------------------------------------
(* One default mailbox, and who sees to it. *)

(* The unique index: two mailboxes are never the default at once.          *)
OneDefault == \A b, c \in Defaults : b = c

LEMMA StaysOneDefault ==
    ASSUME TypeInv, OneDefault, NEW h \in Handlers, Handle(h)
    PROVE  OneDefault'
  <1>1. \/ Defaults' \subseteq Defaults
        \/ \E b : Defaults' = {b}
    <2>1. CASE mailbox' = mailbox
      BY <2>1, SameMailboxes
    <2>2. CASE mailbox' # mailbox
      BY <2>2, OthersKeepMailboxes, InsertKeepsDefaults, SaveKeepsDefaults,
         SeedMakesDefault, UnsetKeepsTarget, SetMakesDefault
    <2>. QED
      BY <2>1, <2>2
  <1>. QED
    BY <1>1 DEF OneDefault

(* A request that has not aligned the flags yet.                           *)
Aligning(r) == r.pc \in {"ensure", "list", "seed", "unset"}

(* While no await has failed, there is a request under way that gives the  *)
(* flag to a mailbox where none has it, and one that takes it from each    *)
(* inactive default, or activates that: also where a deactivation saves    *)
(* after its check.                                                        *)
Mending ==
    faults = 0 =>
       /\ Existing # {} /\ Defaults = {} =>
             \E h \in Handlers : Aligning(req[h]) \/ At(h, "set")
       /\ \A d \in Defaults \ Active :
             \E h \in Handlers :
                \/ Aligning(req[h])
                \/ At(h, "set") /\ (req[h].target = d \/ ~req[h].retried)

LEMMA MendingGoesOn ==
    ASSUME TypeInv, OneDefault, Mending, NEW h \in Handlers, Handle(h)
    PROVE  Mending'
  <1>. SUFFICES ASSUME faults' = 0
                PROVE  /\ Existing' # {} /\ Defaults' = {} =>
                            \E g \in Handlers : Aligning(req'[g]) \/ req'[g].pc = "set"
                       /\ \A d \in Defaults' \ Active' :
                            \E g \in Handlers :
                               \/ Aligning(req'[g])
                               \/ /\ req'[g].pc = "set"
                                  /\ (req'[g].target = d \/ ~req'[g].retried)
    BY DEF Mending, Aligning, At
  <1>0. /\ req[h] \in Request /\ req \in [Handlers -> Request]
        /\ faults \in Nat /\ Unmoved(h)
    BY OthersKeep, MailboxAssumption DEF TypeInv, TypeOK
  <1>1. faults = 0 /\ ~Fail(h)
    <2>1. faults' = faults \/ faults' = faults + 1
      BY DEF Handle, Begin, LoadMailbox, CheckLimit, InsertMailbox, CountActive,
             SaveActive, LoadWorkspace, ListMailboxes, SeedMailbox, UnsetOthers,
             SetDefault, SetPointer, SetPointerFails, Verify, Fail
    <2>. QED
      BY <1>0, <2>1 DEF Fail
  <1>2. CASE Aligning(req'[h])
    BY <1>2
  <1>3. CASE UnsetOthers(h)
    <2>1. req'[h].pc = "set" /\ req'[h].target = req[h].target
      BY <1>0, <1>3 DEF UnsetOthers, Proceed, Goto, Request
    <2>2. Defaults' \subseteq {req[h].target}
      BY <1>3, UnsetKeepsTarget
    <2>. QED
      BY <2>1, <2>2
  <1>4. CASE SetDefault(h)
    <2>1. CASE Defaults \subseteq {req[h].target}
      BY <1>4, <2>1, SetMakesDefault
    <2>2. CASE ~(Defaults \subseteq {req[h].target}) /\ ~req[h].retried
      <3>1. Goto(h, [req[h] EXCEPT !.pc = "unset", !.retried = TRUE])
        BY <1>4, <2>2, SetMakesDefault
      <3>2. req'[h].pc = "unset"
        BY <1>0, <3>1 DEF Goto, Request
      <3>. QED
        BY <1>2, <3>2 DEF Aligning
    <2>3. CASE ~(Defaults \subseteq {req[h].target}) /\ req[h].retried
      <3>1. mailbox' = mailbox
        BY <1>4, <2>3, SetMakesDefault
      <3>2. Defaults' # {} /\ Defaults' \ Active' = Defaults \ Active
        BY <2>3, <3>1, SameMailboxes
      <3>3. ASSUME NEW d \in Defaults \ Active
            PROVE  \E g \in Handlers : \/ Aligning(req'[g])
                                       \/ /\ req'[g].pc = "set"
                                          /\ (req'[g].target = d \/ ~req'[g].retried)
        <4>1. PICK g \in Handlers : \/ Aligning(req[g])
                                    \/ At(g, "set") /\ (req[g].target = d \/ ~req[g].retried)
          BY <1>1 DEF Mending
        <4>2. req[h].target # d /\ ~Aligning(req[h])
          BY <1>4, <2>3 DEF OneDefault, SetDefault, At, Aligning
        <4>3. g # h
          BY <2>3, <4>1, <4>2
        <4>. QED
          BY <1>0, <4>1, <4>3 DEF Unmoved, Aligning, At
      <3>. QED
        BY <3>2, <3>3
    <2>. QED
      BY <2>1, <2>2, <2>3
  <1>5. ASSUME mailbox' = mailbox, ~Aligning(req[h]), ~At(h, "set")
        PROVE  /\ Existing' # {} /\ Defaults' = {} =>
                     \E g \in Handlers : Aligning(req'[g]) \/ req'[g].pc = "set"
               /\ \A d \in Defaults' \ Active' :
                     \E g \in Handlers :
                        \/ Aligning(req'[g])
                        \/ /\ req'[g].pc = "set"
                           /\ (req'[g].target = d \/ ~req'[g].retried)
    <2>1. Existing' = Existing /\ Active' = Active /\ Defaults' = Defaults
      BY <1>5, SameMailboxes
    <2>2. ASSUME NEW g \in Handlers, Aligning(req[g]) \/ At(g, "set")
          PROVE  /\ req'[g].pc = req[g].pc /\ req'[g].target = req[g].target
                 /\ req'[g].retried = req[g].retried
      BY <1>0, <1>5, <2>2 DEF Unmoved
    <2>. QED
      BY <1>1, <2>1, <2>2 DEF Mending, Aligning, At
  <1>6. CASE \/ Begin(h) \/ LoadMailbox(h) \/ CheckLimit(h) \/ CountActive(h)
             \/ SetPointer(h) \/ SetPointerFails(h) \/ Verify(h)
    <2>1. mailbox' = mailbox /\ ~Aligning(req[h]) /\ ~At(h, "set")
      BY <1>6 DEF Begin, LoadMailbox, CheckLimit, CountActive, SetPointer,
                  SetPointerFails, Verify, At, Aligning
    <2>. QED
      BY <1>5, <2>1
  <1>7. CASE \/ InsertMailbox(h) \/ SaveActive(h) \/ LoadWorkspace(h)
             \/ ListMailboxes(h) \/ SeedMailbox(h)
    <2>1. \E r : Goto(h, r) /\ Aligning(r)
      <3>1. PICK r : /\ Goto(h, r)
                     /\ \/ r = [req[h] EXCEPT !.pc = "ensure"]
                        \/ r = [req[h] EXCEPT !.pc = "list"]
                        \/ r = [req[h] EXCEPT !.pc = "seed"]
                        \/ r = [req[h] EXCEPT !.pc = "list", !.seen = pointer]
                        \/ \E b : r = [req[h] EXCEPT !.pc = "unset", !.target = b]
        BY <1>7 DEF InsertMailbox, SaveActive, LoadWorkspace, ListMailboxes, SeedMailbox, Proceed
      <3>2. r.pc \in {"ensure", "list", "seed", "unset"}
        BY <1>0, <3>1 DEF Request
      <3>. QED
        BY <3>1, <3>2 DEF Aligning
    <2>2. Aligning(req'[h])
      BY <1>0, <2>1 DEF Goto
    <2>. QED
      BY <1>2, <2>2
  <1>. QED
    BY <1>1, <1>3, <1>4, <1>6, <1>7 DEF Handle

(* Overlapping requests leave exactly one default mailbox, and it is       *)
(* active, unless an await has failed: the retry, the unique index and the *)
(* alignment at the end of every request together see to it.               *)
THEOREM OneDefaultIsLeft == Spec => []OneActiveDefault
  <1>. DEFINE Inv == TypeInv /\ OneDefault /\ Mending
  <1>1. Init => Inv
    <2>1. Init => Existing = {} /\ Defaults = {}
      BY DEF Init, NoMailbox, Existing, Defaults
    <2>. QED
      BY <2>1, InitType DEF OneDefault, Mending
  <1>2. Inv /\ [Next]_vars => Inv'
    <2>1. Inv /\ UNCHANGED vars => Inv'
      BY DEF TypeInv, TypeOK, HasBox, OneDefault, Mending, Aligning, At,
             Existing, Active, Defaults, vars
    <2>. QED
      BY <2>1, StepType, StaysOneDefault, MendingGoesOn DEF Next
  <1>3. Inv => OneActiveDefault
    <2>. SUFFICES ASSUME Inv, faults = 0, Busy = {}, Existing # {}
                  PROVE  Cardinality(Defaults) = 1 /\ Defaults \subseteq Active
      BY DEF OneActiveDefault
    <2>1. \A h \in Handlers : ~Aligning(req[h]) /\ ~At(h, "set")
      BY DEF Busy, At, Aligning
    <2>2. Defaults # {} /\ Defaults \subseteq Active
      BY <2>1 DEF Mending
    <2>3. PICK d : d \in Defaults
      BY <2>2
    <2>4. Defaults = {d}
      BY <2>3 DEF OneDefault
    <2>. QED
      BY <2>2, <2>4, FS_Singleton
  <1>. QED
    BY <1>1, <1>2, <1>3, PTL DEF Spec
----------------------------------------------------------------------------
(* A request that runs alone. *)

(* While it is under way, no other is.                                     *)
RunsAlone == \A h, g \in Handlers : req[h].alone /\ ~At(h, "idle") /\ ~At(g, "idle") => g = h

LEMMA OthersNotAlone ==
    ASSUME TypeInv, RunsAlone, NEW h \in Handlers, Handle(h)
    PROVE  /\ RunsAlone'
           /\ \A g \in Handlers \ {h} : req'[g].alone => req'[g].pc = "idle"
  <1>0. /\ req[h] \in Request /\ req \in [Handlers -> Request] /\ Unmoved(h)
    BY OthersKeep DEF TypeInv, TypeOK
  <1>1. CASE Begin(h)
    <2>1. PICK r : /\ r.alone = (Busy = {})
                   /\ req' = [g \in Handlers |->
                               IF g = h THEN r ELSE [req[g] EXCEPT !.alone = @ /\ g \notin Busy]]
      <3>1. PICK op \in Ops, b \in Existing \cup {None} :
               req' = [g \in Handlers |->
                          IF g = h
                          THEN [Idle EXCEPT !.op = op, !.box = b, !.alone = (Busy = {}),
                                  !.pc = CASE op = "create" -> "limit"
                                           [] op = "ensure" -> "ensure"
                                           [] OTHER -> "load"]
                          ELSE [req[g] EXCEPT !.alone = @ /\ g \notin Busy]]
        BY <1>1 DEF Begin
      <3>2. req'[h].alone = (Busy = {})
        BY <3>1 DEF Idle
      <3>3. req' = [g \in Handlers |-> IF g = h THEN req'[h]
                                       ELSE [req[g] EXCEPT !.alone = @ /\ g \notin Busy]]
        BY <3>1
      <3>. QED
        BY <3>2, <3>3
    <2>2. ASSUME NEW g \in Handlers \ {h}
          PROVE  req'[g].alone = (req[g].alone /\ g \notin Busy) /\ req'[g].pc = req[g].pc
      BY <1>0, <2>1 DEF Request
    <2>3. \A g \in Handlers \ {h} : req'[g].alone => req'[g].pc = "idle"
      BY <2>2 DEF Busy, At
    <2>4. req'[h].alone => \A g \in Handlers \ {h} : req'[g].pc = "idle"
      BY <2>1, <2>2 DEF Busy, At
    <2>. QED
      BY <2>3, <2>4 DEF RunsAlone, At
  <1>2. CASE ~Begin(h)
    <2>1. ~At(h, "idle")
      BY <1>2 DEF Handle, LoadMailbox, CheckLimit, InsertMailbox, CountActive, SaveActive,
                  LoadWorkspace, ListMailboxes, SeedMailbox, UnsetOthers, SetDefault,
                  SetPointer, SetPointerFails, Verify, Fail, At
    <2>2. \A g \in Handlers \ {h} : req'[g].alone => req'[g].pc = "idle"
      BY <1>0, <2>1 DEF RunsAlone, Unmoved, At
    <2>3. req'[h].pc = "idle" \/ (req'[h].alone => req[h].alone)
      <3>1. \E r : Goto(h, r) /\ (r = Idle \/ r.alone = req[h].alone)
        <4>1. PICK r : /\ Goto(h, r)
                       /\ \/ r = Idle
                          \/ \E pc : r = [req[h] EXCEPT !.pc = pc]
                          \/ \E pc, b : r = [req[h] EXCEPT !.pc = pc, !.target = b]
                          \/ r = [req[h] EXCEPT !.pc = "list", !.seen = pointer]
                          \/ r = [req[h] EXCEPT !.pc = "unset", !.retried = TRUE]
          <5>1. CASE LoadMailbox(h)
            <6>1. \/ Respond(h) \/ Proceed(h, "ensure") \/ Proceed(h, "limit") \/ Proceed(h, "count")
                  \/ Goto(h, [req[h] EXCEPT !.pc = "unset", !.target = req[h].box])
              BY <5>1 DEF LoadMailbox
            <6>2. CASE Goto(h, [req[h] EXCEPT !.pc = "unset", !.target = req[h].box])
              BY ZenonT(40), <6>2
            <6>. QED
              BY <6>1, <6>2 DEF Respond, Proceed, Goto
          <5>2. CASE \/ CheckLimit(h) \/ InsertMailbox(h) \/ CountActive(h) \/ SaveActive(h)
                     \/ UnsetOthers(h) \/ SetPointer(h) \/ SetPointerFails(h)
                     \/ Verify(h) \/ Fail(h)
            <6>1. Respond(h) \/ \E pc : Proceed(h, pc)
              BY <5>2 DEF CheckLimit, InsertMailbox, CountActive, SaveActive, UnsetOthers,
                          SetPointer, SetPointerFails, Verify, Fail
            <6>. QED
              BY <6>1 DEF Respond, Proceed, Goto
          <5>3. CASE LoadWorkspace(h)
            BY <5>3 DEF LoadWorkspace
          <5>4. CASE ListMailboxes(h) \/ SeedMailbox(h)
            <6>1. (\E pc : Proceed(h, pc))
                  \/ \E b : Goto(h, [req[h] EXCEPT !.pc = "unset", !.target = b])
              BY <5>4 DEF ListMailboxes, SeedMailbox
            <6>. QED
              BY ZenonT(40), <6>1 DEF Proceed
          <5>5. CASE SetDefault(h)
            <6>1. \/ Respond(h) \/ (\E pc : Proceed(h, pc))
                  \/ Goto(h, [req[h] EXCEPT !.pc = "unset", !.retried = TRUE])
              BY <5>5 DEF SetDefault
            <6>. QED
              BY <6>1 DEF Respond, Proceed, Goto
          <5>. QED
            BY <1>2, <5>1, <5>2, <5>3, <5>4, <5>5 DEF Handle
        <4>2. r = Idle \/ r.alone = req[h].alone
          BY <1>0, <4>1 DEF Request
        <4>. QED
          BY <4>1, <4>2
      <3>. QED
        BY <1>0, <3>1 DEF Goto, Idle
    <2>4. ASSUME NEW g \in Handlers, req'[h].alone, req'[h].pc # "idle", req'[g].pc # "idle"
          PROVE  g = h
      BY <1>0, <2>1, <2>3, <2>4 DEF RunsAlone, Unmoved, At
    <2>. QED
      BY <2>2, <2>4 DEF RunsAlone, At
  <1>. QED
    BY <1>1, <1>2

(* What a request that runs alone has achieved at each of its awaits: what *)
(* it has read is so, and what it has written has stayed.                  *)
Achieved(r) ==
    /\ r.pc = "list" => r.seen = pointer
    /\ r.pc = "seed" => Existing = {}
    /\ (r.pc = "unset" /\ r.op # "set_default" /\ Aligned) => r.target = pointer
    /\ r.pc = "set" => Defaults \subseteq {r.target}
    /\ r.pc \in {"point", "repoint", "unpointed", "verify"} =>
          Defaults = {r.target} /\ r.target \in Active
    /\ r.pc = "verify" => pointer = r.target

LoneAchieves == \A h \in Handlers : req[h].alone => Achieved(req[h])

LEMMA LoneGoesOn ==
    ASSUME TypeInv, RunsAlone, LoneAchieves, NEW h \in Handlers, Handle(h)
    PROVE  LoneAchieves'
  <1>. DEFINE Later(r) ==
         /\ r.pc = "list" => r.seen = pointer'
         /\ r.pc = "seed" => Existing' = {}
         /\ (r.pc = "unset" /\ r.op # "set_default" /\ Aligned') => r.target = pointer'
         /\ r.pc = "set" => Defaults' \subseteq {r.target}
         /\ r.pc \in {"point", "repoint", "unpointed", "verify"} =>
               Defaults' = {r.target} /\ r.target \in Active'
         /\ r.pc = "verify" => pointer' = r.target
  <1>0. /\ req[h] \in Request /\ req \in [Handlers -> Request]
    BY DEF TypeInv, TypeOK
  <1>1. SUFFICES ASSUME req'[h].alone PROVE Later(req'[h])
    <2>1. ASSUME NEW g \in Handlers \ {h}, req'[g].alone PROVE Later(req'[g])
      BY <2>1, OthersNotAlone
    <2>. QED
      BY <2>1 DEF LoneAchieves, Achieved
  <1>2. CASE req'[h].pc \notin {"list", "seed", "unset", "set", "point", "repoint", "unpointed", "verify"}
    BY <1>2
  <1>3. ASSUME NEW r, Goto(h, r) PROVE req'[h] = r
    BY <1>0, <1>3 DEF Goto
  <1>4. ASSUME NEW r, Goto(h, r), r.alone = req[h].alone
        PROVE  Achieved(req[h])
    BY <1>1, <1>3, <1>4 DEF LoneAchieves
  <1>5. ASSUME mailbox' = mailbox
        PROVE  /\ Existing' = Existing /\ Active' = Active /\ Defaults' = Defaults
               /\ pointer' = pointer => Aligned' = Aligned
    BY <1>5 DEF Existing, Active, Defaults, Aligned
  <1>6. CASE Begin(h)
    <2>1. req'[h].pc \in {"limit", "ensure", "load"}
      <3>1. PICK op \in Ops, b \in Existing \cup {None} :
               req' = [g \in Handlers |->
                          IF g = h
                          THEN [Idle EXCEPT !.op = op, !.box = b, !.alone = (Busy = {}),
                                  !.pc = CASE op = "create" -> "limit"
                                           [] op = "ensure" -> "ensure"
                                           [] OTHER -> "load"]
                          ELSE [req[g] EXCEPT !.alone = @ /\ g \notin Busy]]
        BY <1>6 DEF Begin
      <3>. QED
        BY <3>1 DEF Idle
    <2>. QED
      BY <1>2, <2>1
  <1>7. CASE LoadMailbox(h)
    <2>1. PICK r :
             /\ Goto(h, r)
             /\ \/ r \in {Idle, [req[h] EXCEPT !.pc = "ensure"],
                          [req[h] EXCEPT !.pc = "limit"], [req[h] EXCEPT !.pc = "count"]}
                \/ /\ r = [req[h] EXCEPT !.pc = "unset", !.target = req[h].box]
                   /\ req[h].op = "set_default"
      <3>1. CASE req[h].op = "set_default"
        BY <1>7, <3>1 DEF LoadMailbox, Proceed, Respond, Goto
      <3>2. CASE req[h].op # "set_default"
        <4>1. \/ Proceed(h, "ensure") \/ Proceed(h, "limit") \/ Proceed(h, "count") \/ Respond(h)
          BY <1>7, <3>2 DEF LoadMailbox
        <4>. QED
          BY <4>1 DEF Proceed, Respond, Goto
      <3>. QED
        BY <3>1, <3>2
    <2>2. r.pc \in {"idle", "ensure", "limit", "count"} \/ (r.pc = "unset" /\ r.op = "set_default")
      <3>1. /\ [req[h] EXCEPT !.pc = "ensure"].pc = "ensure"
            /\ [req[h] EXCEPT !.pc = "limit"].pc = "limit"
            /\ [req[h] EXCEPT !.pc = "count"].pc = "count"
            /\ [req[h] EXCEPT !.pc = "unset", !.target = req[h].box].pc = "unset"
            /\ [req[h] EXCEPT !.pc = "unset", !.target = req[h].box].op = req[h].op
            /\ Idle.pc = "idle"
        BY <1>0 DEF Request, Idle
      <3>. QED
        BY <2>1, <3>1
    <2>. QED
      BY <1>3, <2>1, <2>2
  <1>8. CASE CheckLimit(h) \/ CountActive(h) \/ InsertMailbox(h) \/ SaveActive(h)
    <2>1. PICK r : Goto(h, r) /\ r \in {Idle, [req[h] EXCEPT !.pc = "insert"],
                                       [req[h] EXCEPT !.pc = "save"],
                                       [req[h] EXCEPT !.pc = "ensure"]}
      BY <1>8 DEF CheckLimit, CountActive, InsertMailbox, SaveActive, Proceed, Respond, Goto
    <2>2. r.pc \in {"idle", "insert", "save", "ensure"}
      BY <1>0, <2>1 DEF Request, Idle
    <2>. QED
      BY <1>2, <1>3, <2>1, <2>2
  <1>9. CASE LoadWorkspace(h)
    <2>1. Goto(h, [req[h] EXCEPT !.pc = "list", !.seen = pointer]) /\ pointer' = pointer
      BY <1>9 DEF LoadWorkspace
    <2>2. req'[h].pc = "list" /\ req'[h].seen = pointer'
      BY <1>0, <1>3, <2>1 DEF Request
    <2>. QED
      BY <2>2
  <1>10. CASE ListMailboxes(h)
    <2>1. CASE Existing = {}
      <3>1. Goto(h, [req[h] EXCEPT !.pc = "seed"])
        BY <1>10, <2>1 DEF ListMailboxes, Proceed
      <3>2. req'[h].pc = "seed"
        BY <1>0, <1>3, <3>1 DEF Request
      <3>3. Existing' = {}
        BY <1>5, <1>10, <2>1 DEF ListMailboxes
      <3>. QED
        BY <3>2, <3>3
    <2>2. CASE Existing # {}
      <3>1. PICK b : b = Canonical(req[h].seen)
        OBVIOUS
      <3>2. /\ Goto(h, [req[h] EXCEPT !.pc = "unset", !.target = b])
            /\ mailbox' = mailbox /\ pointer' = pointer /\ req[h].pc = "list"
        BY <1>10, <2>2, <3>1 DEF ListMailboxes, At
      <3>3. req'[h].pc = "unset" /\ req'[h].target = b /\ req'[h].alone = req[h].alone
        BY <1>0, <1>3, <3>2 DEF Request
      <3>4. req[h].seen = pointer
        BY <1>1, <3>2, <3>3 DEF LoneAchieves, Achieved
      <3>5. ASSUME Aligned PROVE b = pointer
        BY <3>1, <3>4, <3>5 DEF Aligned, Canonical
      <3>. QED
        BY <1>5, <3>2, <3>3, <3>5
    <2>. QED
      BY <2>1, <2>2
  <1>11. CASE SeedMailbox(h)
    <2>1. CASE mailbox' = mailbox
      <3>1. Defaults # {} /\ Proceed(h, "list") /\ req[h].pc = "seed"
        <4>1. CASE Defaults # {} /\ Proceed(h, "list")
          BY <1>11, <4>1 DEF SeedMailbox, At
        <4>2. CASE ~(Defaults # {} /\ Proceed(h, "list"))
          <5>1. Box \ Existing # {} /\ mailbox \in [Box -> MailboxDoc]
                /\ mailbox' = [mailbox EXCEPT ![First(Box \ Existing)] =
                                 [exists |-> TRUE, active |-> TRUE, isDefault |-> TRUE]]
            BY <1>11, <4>2 DEF SeedMailbox, Existing, TypeInv, TypeOK
          <5>2. PICK b \in Box \ Existing : b = First(Box \ Existing)
            BY <5>1, FirstIsLeast
          <5>3. mailbox'[b].exists /\ ~mailbox[b].exists
            BY <5>1, <5>2 DEF Existing
          <5>. QED
            BY <2>1, <5>3
        <4>. QED
          BY <4>1, <4>2
      <3>2. Achieved(req[h])
        <4>1. [req[h] EXCEPT !.pc = "list"].alone = req[h].alone
          BY <1>0 DEF Request
        <4>. QED
          BY <1>4, <3>1, <4>1 DEF Proceed
      <3>. QED
        BY <3>1, <3>2 DEF Achieved, Defaults
    <2>2. CASE mailbox' # mailbox
      <3>1. PICK b : b = First(Box \ Existing)
        OBVIOUS
      <3>2. /\ Goto(h, [req[h] EXCEPT !.pc = "unset", !.target = b])
            /\ Defaults' = {b}
        BY <1>11, <2>2, <3>1, SeedMakesDefault
      <3>3. req'[h].pc = "unset" /\ req'[h].target = b
        BY <1>0, <1>3, <3>2 DEF Request
      <3>4. Aligned' => pointer' = b
        BY <3>2 DEF Aligned
      <3>. QED
        BY <3>3, <3>4
    <2>. QED
      BY <2>1, <2>2
  <1>12. CASE UnsetOthers(h)
    <2>1. Goto(h, [req[h] EXCEPT !.pc = "set"])
      BY <1>12 DEF UnsetOthers, Proceed
    <2>2. req'[h].pc = "set" /\ req'[h].target = req[h].target
      BY <1>0, <1>3, <2>1 DEF Request
    <2>3. Defaults' \subseteq {req[h].target}
      BY <1>12, UnsetKeepsTarget
    <2>. QED
      BY <2>2, <2>3
  <1>13. CASE SetDefault(h)
    <2>1. CASE Defaults \subseteq {req[h].target}
      <3>1. /\ Goto(h, [req[h] EXCEPT !.pc = "point"])
            /\ Defaults' = {req[h].target} /\ Defaults' \subseteq Active'
        BY <1>13, <2>1, SetMakesDefault DEF Proceed
      <3>2. req'[h].pc = "point" /\ req'[h].target = req[h].target
        BY <1>0, <1>3, <3>1 DEF Request
      <3>. QED
        BY <3>1, <3>2
    <2>2. CASE ~(Defaults \subseteq {req[h].target})
      <3>1. CASE req[h].retried
        <4>1. Goto(h, Idle)
          BY <1>13, <2>2, <3>1, SetMakesDefault DEF Respond, Goto
        <4>. QED
          BY <1>2, <1>3, <4>1 DEF Idle
      <3>2. CASE ~req[h].retried
        <4>1. Goto(h, [req[h] EXCEPT !.pc = "unset", !.retried = TRUE])
          BY <1>13, <2>2, <3>2, SetMakesDefault
        <4>2. [req[h] EXCEPT !.pc = "unset", !.retried = TRUE].alone = req[h].alone
          BY <1>0 DEF Request
        <4>. QED
          BY <1>4, <1>13, <2>2, <4>1, <4>2 DEF Achieved, SetDefault, At
      <3>. QED
        BY <3>1, <3>2
    <2>. QED
      BY <2>1, <2>2
  <1>14. CASE SetPointer(h) \/ SetPointerFails(h)
    <2>1. \E pc \in {"verify", "repoint", "unpointed"} :
             /\ Goto(h, [req[h] EXCEPT !.pc = pc])
             /\ (pc = "verify" => pointer' = req[h].target)
      BY <1>14 DEF SetPointer, SetPointerFails, Proceed
    <2>2. /\ req'[h].pc \in {"verify", "repoint", "unpointed"}
          /\ req'[h].target = req[h].target
          /\ (req'[h].pc = "verify" => pointer' = req[h].target)
      BY <1>0, <1>3, <2>1 DEF Request
    <2>3. Achieved(req[h])
      <3>1. \A pc : [req[h] EXCEPT !.pc = pc].alone = req[h].alone
        BY <1>0 DEF Request
      <3>. QED
        BY <1>4, <2>1, <3>1
    <2>4. Defaults = {req[h].target} /\ req[h].target \in Active /\ mailbox' = mailbox
      BY <1>14, <2>3 DEF SetPointer, SetPointerFails, Achieved, At
    <2>. QED
      BY <1>5, <2>2, <2>4
  <1>15. CASE Verify(h) \/ Fail(h)
    <2>1. Goto(h, Idle)
      BY <1>15 DEF Verify, Fail, Respond, Goto
    <2>. QED
      BY <1>2, <1>3, <2>1 DEF Idle
  <1>. QED
    BY <1>6, <1>7, <1>8, <1>9, <1>10, <1>11, <1>12, <1>13, <1>14, <1>15 DEF Handle

LoneInv == TypeInv /\ RunsAlone /\ LoneAchieves

LEMMA LoneInvariant == Spec => []LoneInv
  <1>1. Init => LoneInv
    <2>1. Init => \A h \in Handlers : req[h].pc = "idle"
      BY DEF Init, Idle
    <2>. QED
      BY <2>1, InitType DEF LoneInv, RunsAlone, LoneAchieves, Achieved, At
  <1>2. LoneInv /\ [Next]_vars => LoneInv'
    <2>1. LoneInv /\ UNCHANGED vars => LoneInv'
      BY DEF LoneInv, TypeInv, TypeOK, HasBox, RunsAlone, LoneAchieves, Achieved,
             Aligned, At, Existing, Active, Defaults, vars
    <2>. QED
      BY <2>1, StepType, OthersNotAlone, LoneGoesOn DEF LoneInv, Next
  <1>. QED
    BY <1>1, <1>2, PTL DEF Spec

(* From whatever overlapping and broken requests have left behind, one     *)
(* request that runs alone and whose writes succeed repairs the workspace  *)
(* before it answers: what the comment above applyCanonicalDefaultMailbox  *)
(* promises, for any number of mailboxes.                                  *)
THEOREM LoneRequestsDoRepair == Spec => []LoneRequestsRepair
  <1>1. LoneInv => LoneRequestsRepair
    <2>. SUFFICES ASSUME LoneInv, NEW h \in Handlers, req[h].pc = "verify", req[h].alone
                  PROVE  Aligned
      BY DEF LoneInv, TypeInv, LoneRequestsRepair, LoneRequestRepairs, At
    <2>1. Achieved(req[h])
      BY DEF LoneInv, LoneAchieves
    <2>. QED
      BY <2>1 DEF Achieved, Aligned
  <1>. QED
    BY <1>1, LoneInvariant, PTL

(* In an aligned workspace no request but a set-default moves the default: *)
(* the alignment at the end of the others finds the flag and the pointer   *)
(* as it wants them.                                                       *)
THEOREM OnlySetDefaultMovesDefault == Spec => OnlySetDefaultMoves
  <1>. DEFINE Keeps == pointer' = pointer /\ Defaults' = Defaults
  <1>1. ASSUME LoneInv, NEW h \in Handlers, Aligned, req[h].alone, ~At(h, "idle"),
               req[h].op # "set_default", NEW g \in Handlers, Handle(g)
        PROVE  Keeps
    <2>1. CASE g # h
      <3>1. At(g, "idle")
        BY <1>1, <2>1 DEF LoneInv, RunsAlone
      <3>2. Begin(g)
        BY <1>1, <3>1 DEF Handle, LoadMailbox, CheckLimit, InsertMailbox, CountActive, SaveActive,
                  LoadWorkspace, ListMailboxes, SeedMailbox, UnsetOthers, SetDefault,
                  SetPointer, SetPointerFails, Verify, Fail, At
      <3>. QED
        BY <3>2, SameMailboxes DEF Begin
    <2>2. CASE g = h
      <3>1. Achieved(req[h]) /\ Defaults = {pointer} /\ TypeInv /\ Handle(h)
        BY <1>1, <2>2 DEF LoneInv, LoneAchieves, Aligned
      <3>2. CASE SetPointer(h)
        <4>1. Defaults = {req[h].target} /\ mailbox' = mailbox /\ pointer' = req[h].target
          BY <3>1, <3>2 DEF SetPointer, Achieved
        <4>. QED
          BY <3>1, <4>1, SameMailboxes
      <3>3. CASE ~SetPointer(h)
        <4>1. pointer' = pointer
          BY <3>1, <3>3 DEF Handle, Begin, LoadMailbox, CheckLimit, InsertMailbox, CountActive,
                  SaveActive, LoadWorkspace, ListMailboxes, SeedMailbox, UnsetOthers,
                  SetDefault, SetPointerFails, Verify, Fail
        <4>2. Defaults' = Defaults
          <5>1. CASE mailbox' = mailbox
            BY <5>1, SameMailboxes
          <5>2. CASE InsertMailbox(h) \/ SaveActive(h)
            BY <3>1, <5>2, InsertKeepsDefaults, SaveKeepsDefaults
          <5>3. CASE SeedMailbox(h) /\ mailbox' # mailbox
            BY <3>1, <5>3, SeedMakesDefault
          <5>4. CASE UnsetOthers(h)
            <6>1. req[h].target = pointer
              BY <1>1, <3>1, <5>4 DEF UnsetOthers, At, Achieved
            <6>. QED
              BY <3>1, <5>4, <6>1, UnsetKeepsTarget
          <5>5. CASE SetDefault(h)
            <6>1. Defaults \subseteq {req[h].target}
              BY <3>1, <5>5 DEF SetDefault, At, Achieved
            <6>. QED
              BY <3>1, <5>5, <6>1, SetMakesDefault
          <5>. QED
            BY <3>1, <5>1, <5>2, <5>3, <5>4, <5>5, OthersKeepMailboxes
        <4>. QED
          BY <4>1, <4>2
      <3>. QED
        BY <3>2, <3>3
    <2>. QED
      BY <2>1, <2>2
  <1>2. LoneInv /\ [Next]_vars =>
          [\A h \in Handlers :
             Aligned /\ req[h].alone /\ ~At(h, "idle") /\ req[h].op # "set_default"
             => pointer' = pointer /\ Defaults' = Defaults]_vars
    BY <1>1 DEF Next
  <1>. QED
    BY <1>2, LoneInvariant, PTL DEF Spec, OnlySetDefaultMoves
============================================================================
