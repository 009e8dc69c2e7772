------------------------ MODULE SlaPolicies_proofs ------------------------
(***************************************************************************)
(* Theorems about SlaPolicies, for any number of policies, mailboxes,      *)
(* requests and faults.  While requests are under way the default policy   *)
(* may be inactive, and pointer and flags apart; the invariants below say  *)
(* which request still puts them right, and what a request that runs alone *)
(* has achieved at each of its awaits.                                     *)
(***************************************************************************)
EXTENDS SlaPolicies, TLAPS

Clearing == {"replacement", "deactivate", "clear_overrides", "clear_pointer"}
Aligning == {"target", "point", "unset", "set", "read", "repair", "canonical", "clear"}

(* What a request is at each of its awaits, when E are the policies that   *)
(* exist: it works on one of them, a set-default aligns with its own       *)
(* policy and a deactivation with another.                                 *)
Sound(r, E) ==
    /\ r.pc # "idle" /\ r.op # "create" => r.id \in E \cup {None}
    /\ r.pc \notin {"idle", "override"} => r.id \in Policies
    /\ r.pc = "insert" => r.op = "create"
    /\ r.pc = "override" => r.op = "assign" /\ r.mailbox \in Mailboxes
    /\ r.op = "assign" => r.mailbox \in Mailboxes
    /\ r.pc = "workspace" => r.op \in {"activate", "deactivate"}
    /\ r.pc = "policy" => r.op # "create"
    /\ r.pc = "activate" => r.op = "activate"
    /\ r.pc \in Clearing => r.op = "deactivate"
    /\ r.pc \in Aligning => r.op \in {"default", "deactivate"}
    /\ r.pc \in {"target", "point"} => r.sync = r.target /\ r.phase = "apply"
    /\ r.pc \in {"point", "unset"} => r.sync \in E \cup {None}
    /\ r.pc \in {"set", "canonical"} => r.sync \in E
    /\ r.pc = "read" => r.phase # "repair"
    /\ r.op = "default" /\ r.pc \in Aligning => r.target = r.id /\ r.phase # "repair"
    /\ r.op = "deactivate" => r.replacement # r.id
    /\ r.op = "deactivate" /\ r.pc \in Aligning => r.target # r.id \/ r.phase = "repair"

TypeInv == TypeOK /\ \A h \in Handlers : Sound(req[h], Existing)

(* While a request that runs alone is under way, no other is.              *)
RunsAlone == \A h, g \in Handlers : req[h].alone /\ ~At(h, "idle") /\ ~At(g, "idle") => g = h

(* What such a request has achieved: what it has read is still so, and     *)
(* what it has written has stayed.                                         *)
Achieved(r) ==
    /\ r.pc = "override" => r.id \in Active \cup {None}
    /\ r.pc \in {"replacement", "deactivate"} => r.loaded = policy[r.id]
    /\ r.pc \in {"clear_overrides", "clear_pointer"} => r.id \notin Active
    /\ r.pc \in Aligning /\ r.op = "deactivate" => r.id \notin Active
    /\ r.pc \in {"point", "unset"} => r.sync \in Active \cup {None}
    /\ r.pc = "set" => r.sync \in Active /\ Defaults \subseteq {r.sync}
    /\ r.pc \in {"unset", "set", "canonical"} /\ r.phase = "repair" => pointer = r.sync

LoneAchieves == \A h \in Handlers : req[h].alone => Achieved(req[h])

(* As long as nothing fails, an inactive default is about to be cleared by *)
(* the request that has deactivated it, or to be activated by one that     *)
(* makes it the default; ...                                               *)
DefaultMends ==
    faults = 0 /\ pointer # None /\ pointer \notin Active =>
        \E h \in Handlers :
            \/ req[h].pc \in {"clear_overrides", "clear_pointer"} /\ req[h].id = pointer
            \/ req[h].pc \in {"unset", "set"} /\ req[h].sync = pointer

(* ... and an inactive override that no overlapping assignment has saved   *)
(* is about to be cleared.                                                 *)
OverrideMends ==
    faults = 0 =>
        \A m \in Mailboxes \ stray :
            override[m] # None /\ override[m] \notin Active =>
                \E h \in Handlers : At(h, "clear_overrides") /\ req[h].id = override[m]

Inv == TypeInv /\ RunsAlone /\ LoneAchieves /\ DefaultMends /\ OverrideMends /\ LoneRequestAligns
----------------------------------------------------------------------------
(* What a request goes on as. *)

LEMMA IdleType == Idle \in Request
  BY DEF Idle, Request, Ops, Id, PolicyDoc, NoPolicy

Kept(s, r) == s.op = r.op /\ s.id = r.id /\ s.mailbox = r.mailbox /\ s.alone = r.alone
Read(s, r) == s.replacement = r.replacement /\ s.loaded = r.loaded
Aims(s, r) == s.target = r.target /\ s.phase = r.phase

PCs == {"guard", "insert", "workspace", "policy", "activate", "override"} \cup Clearing \cup Aligning

Quits(h) == req'[h] = Idle /\ last' = NoAnswer
Answers(h) ==
    /\ req'[h] = Idle
    /\ last' = IF req[h].alone THEN [op |-> req[h].op, id |-> req[h].id] ELSE NoAnswer
Goes(h, pc) ==
    /\ req'[h] \in Request /\ Kept(req'[h], req[h]) /\ req'[h].pc = pc /\ last' = NoAnswer
Continues(h, pc) ==
    /\ Goes(h, pc) /\ Read(req'[h], req[h])
    /\ Aims(req'[h], req[h]) /\ req'[h].sync = req[h].sync

(* It aligns the default with policy p, or repairs it as it is.            *)
Applies(h, p) ==
    /\ Goes(h, IF p = None THEN "point" ELSE "target")
    /\ req'[h].replacement = None
    /\ req'[h].target = p /\ req'[h].sync = p /\ req'[h].phase = "apply"
Repairs(h) ==
    Goes(h, "repair") /\ req'[h].replacement = None /\ req'[h].phase = "repair"
Deactivates(h) ==
    \/ /\ req'[h].loaded.isActive /\ Goes(h, "deactivate")
       /\ req'[h].replacement = req[h].replacement
    \/ Applies(h, req[h].replacement)
    \/ Repairs(h)

LEMMA Went ==
    ASSUME TypeInv, NEW h \in Handlers
    PROVE  /\ \A r : Goto(h, r) => req'[h] = r /\ last' = NoAnswer
           /\ Refuse(h) => Quits(h)
           /\ Answer(h) => Answers(h)
  BY DEF TypeInv, TypeOK, Goto, Refuse, Answer, Quits, Answers

LEMMA Proceeds ==
    ASSUME TypeInv, NEW h \in Handlers, NEW pc \in PCs, Proceed(h, pc)
    PROVE  Continues(h, pc)
  <1>. DEFINE r == [req[h] EXCEPT !.pc = pc]
  <1>1. r \in Request /\ Kept(r, req[h]) /\ Read(r, req[h]) /\ Aims(r, req[h])
        /\ r.pc = pc /\ r.sync = req[h].sync
    BY DEF TypeInv, TypeOK, Request, PCs, Clearing, Aligning, Kept, Read, Aims
  <1>2. req'[h] = r /\ last' = NoAnswer
    BY Went DEF Proceed
  <1>. QED
    BY <1>1, <1>2 DEF Continues, Goes, Kept, Read, Aims

LEMMA Synced ==
    ASSUME TypeInv, NEW h \in Handlers, NEW pc \in PCs, NEW p \in Id,
           Goto(h, [req[h] EXCEPT !.sync = p, !.pc = pc])
    PROVE  Goes(h, pc) /\ Read(req'[h], req[h]) /\ Aims(req'[h], req[h]) /\ req'[h].sync = p
  <1>. DEFINE r == [req[h] EXCEPT !.sync = p, !.pc = pc]
  <1>1. r \in Request /\ Kept(r, req[h]) /\ Read(r, req[h]) /\ Aims(r, req[h])
        /\ r.pc = pc /\ r.sync = p
    BY ZenonT(40) DEF TypeInv, TypeOK, Request, PCs, Clearing, Aligning, Kept, Read, Aims
  <1>2. req'[h] = r /\ last' = NoAnswer
    BY Went
  <1>. QED
    BY <1>1, <1>2 DEF Goes, Kept, Read, Aims

(* The record a request goes on with when it aligns or repairs.            *)
LEMMA ApplyShape ==
    ASSUME NEW r \in Request, NEW p \in Id
    PROVE  /\ Apply(r, p) \in Request /\ Kept(Apply(r, p), r)
           /\ Apply(r, p).replacement = None
           /\ Apply(r, p).target = p /\ Apply(r, p).sync = p /\ Apply(r, p).phase = "apply"
           /\ Apply(r, p).pc = IF p = None THEN "point" ELSE "target"
           /\ Repair(r) \in Request /\ Kept(Repair(r), r)
           /\ Repair(r).replacement = None
           /\ Repair(r).phase = "repair" /\ Repair(r).pc = "repair"
  <1>. DEFINE s == Loaded(r)
  <1>1. s \in Request /\ Kept(s, r) /\ s.replacement = None
    BY ZenonT(40) DEF Loaded, Request, Id, PolicyDoc, NoPolicy, Kept
  <1>. HIDE DEF s
  <1>. DEFINE pc == IF p = None THEN "point" ELSE "target"
  <1>2. /\ pc \in {"point", "target"}
        /\ Apply(r, p) = [s EXCEPT !.target = p, !.sync = p, !.phase = "apply", !.pc = pc]
        /\ Repair(r) = [s EXCEPT !.phase = "repair", !.pc = "repair"]
    BY DEF Apply, Repair, s
  <1>. HIDE DEF pc
  <1>. DEFINE a == [s EXCEPT !.target = p, !.sync = p, !.phase = "apply", !.pc = pc]
             b == [s EXCEPT !.phase = "repair", !.pc = "repair"]
  <1>3. /\ a \in Request /\ Kept(a, s) /\ a.replacement = s.replacement
        /\ a.target = p /\ a.sync = p /\ a.phase = "apply" /\ a.pc = pc
    BY <1>1, <1>2 DEF Request, Kept
  <1>4. /\ b \in Request /\ Kept(b, s) /\ b.replacement = s.replacement
        /\ b.phase = "repair" /\ b.pc = "repair"
    BY <1>1 DEF Request, Kept
  <1>. HIDE DEF a, b
  <1>5. Apply(r, p) = a /\ Repair(r) = b
    BY <1>2 DEF a, b
  <1>. QED
    BY <1>1, <1>3, <1>4, <1>5 DEF Kept, pc

LEMMA Applying ==
    ASSUME TypeInv, NEW h \in Handlers, NEW r \in Request, NEW p \in Id, Kept(r, req[h])
    PROVE  /\ Goto(h, Apply(r, p)) => Applies(h, p)
           /\ Goto(h, Repair(r)) => Repairs(h)
  <1>1. Goto(h, Apply(r, p)) => Applies(h, p)
    BY Went, ApplyShape DEF Applies, Goes, Kept
  <1>2. Goto(h, Repair(r)) => Repairs(h)
    BY Went, ApplyShape DEF Repairs, Goes, Kept
  <1>. QED
    BY <1>1, <1>2

LEMMA Deactivating ==
    ASSUME TypeInv, NEW h \in Handlers, NEW r \in Request, Kept(r, req[h]),
           r.replacement = req[h].replacement, Goto(h, Deactivation(r))
    PROVE  /\ Deactivates(h)
           /\ r.loaded.isActive <=> req'[h].pc = "deactivate"
           /\ req'[h].pc = "deactivate" => req'[h].loaded = r.loaded
  <1>. DEFINE s == [r EXCEPT !.pc = "deactivate"]
  <1>1. s \in Request /\ Kept(s, r) /\ s.replacement = r.replacement /\ s.loaded = r.loaded
        /\ s.pc = "deactivate" /\ r.replacement \in Id
    BY DEF Request, Kept
  <1>2. CASE r.loaded.isActive
    <2>1. req'[h] = s /\ last' = NoAnswer
      BY <1>2, Went DEF Deactivation
    <2>. QED
      BY <1>1, <1>2, <2>1 DEF Deactivates, Goes, Kept
  <1>3. CASE ~r.loaded.isActive
    <2>1. Goto(h, Apply(r, r.replacement)) \/ Goto(h, Repair(r))
      BY <1>3 DEF Deactivation
    <2>2. Applies(h, req[h].replacement) \/ Repairs(h)
      BY <1>1, <2>1, Applying
    <2>. QED
      BY <1>3, <2>2 DEF Deactivates, Applies, Repairs, Goes
  <1>. QED
    BY <1>2, <1>3
----------------------------------------------------------------------------
(* What each step does. *)

(* A request that arrives asks for what is there, and overlaps the others. *)
LEMMA BeginStep ==
    ASSUME TypeInv, NEW h \in Handlers, Begin(h)
    PROVE  /\ req' \in [Handlers -> Request]
           /\ req[h].pc = "idle" /\ last' = NoAnswer
           /\ Sound(req'[h], Existing)
           /\ req'[h].pc = "guard" \/ (req'[h].pc = "override" /\ req'[h].id = None)
           /\ req'[h].alone = (Busy = {})
           /\ \A g \in Handlers \ {h} :
                /\ Kept(req'[g], [req[g] EXCEPT !.alone = @ /\ g \notin Busy])
                /\ req'[g].pc = req[g].pc /\ Read(req'[g], req[g]) /\ Aims(req'[g], req[g])
                /\ req'[g].sync = req[g].sync
  <1>1. PICK r \in [op : Ops, id : Id, mailbox : Mailboxes \cup {None}, replacement : Id] :
         /\ (r.id = None) => r.op = "assign"
         /\ (r.op = "create") <=> (r.id \in Policies \ Existing)
         /\ (r.op = "assign") <=> (r.mailbox # None)
         /\ r.replacement # None => r.op = "deactivate" /\ r.replacement # r.id
         /\ req' = [g \in Handlers |->
              IF g = h
              THEN [Idle EXCEPT !.pc = IF r.id = None THEN "override" ELSE "guard",
                                !.op = r.op, !.id = r.id, !.mailbox = r.mailbox,
                                !.replacement = r.replacement, !.alone = (Busy = {})]
              ELSE [req[g] EXCEPT !.alone = @ /\ g \notin Busy]]
    BY DEF Begin
  <1>. DEFINE pc == IF r.id = None THEN "override" ELSE "guard"
             new == [Idle EXCEPT !.pc = pc, !.op = r.op, !.id = r.id, !.mailbox = r.mailbox,
                                 !.replacement = r.replacement, !.alone = (Busy = {})]
             other(g) == [req[g] EXCEPT !.alone = @ /\ g \notin Busy]
  <1>2. /\ r.op \in Ops /\ r.id \in Id /\ r.mailbox \in Mailboxes \cup {None} /\ r.replacement \in Id
    OBVIOUS
  <1>3. /\ new \in Request /\ new.pc = pc /\ new.op = r.op /\ new.id = r.id
        /\ new.mailbox = r.mailbox /\ new.replacement = r.replacement
        /\ new.alone = (Busy = {}) /\ new.target = None /\ new.sync = None
    <2>1. Idle.target = None /\ Idle.sync = None
      BY DEF Idle
    <2>. QED
      BY <1>2, <2>1, IdleType DEF Request
  <1>4. req'[h] = new
    BY <1>1
  <1>. HIDE DEF new
  <1>5. Sound(new, Existing)
    <2>1. /\ r.id \in Policies \/ (r.id = None /\ r.op = "assign")
          /\ r.op # "create" => r.id \in Existing \cup {None}
      BY <1>1, <1>2 DEF Id
    <2>2. r.op = "deactivate" => r.replacement # r.id
      BY <1>1, <2>1
    <2>3. r.op = "assign" => r.mailbox \in Mailboxes
      BY <1>1, <1>2
    <2>. QED
      BY <1>3, <2>1, <2>2, <2>3, PoliciesAssumption DEF Sound, Clearing, Aligning
  <1>6. ASSUME NEW g \in Handlers \ {h}
        PROVE  /\ req'[g] = other(g) /\ other(g) \in Request /\ other(g).pc = req[g].pc
               /\ Read(other(g), req[g]) /\ Aims(other(g), req[g]) /\ other(g).sync = req[g].sync
    <2>. DEFINE b == req[g].alone /\ g \notin Busy
    <2>1. b \in BOOLEAN /\ req[g] \in Request
      BY DEF TypeInv, TypeOK
    <2>2. req'[g] = [req[g] EXCEPT !.alone = b]
      BY <1>1
    <2>. HIDE DEF b
    <2>3. LET s == [req[g] EXCEPT !.alone = b]
          IN  /\ s \in Request /\ s.pc = req[g].pc
              /\ Read(s, req[g]) /\ Aims(s, req[g]) /\ s.sync = req[g].sync
      BY <2>1 DEF Request, Read, Aims
    <2>. QED
      BY <2>2, <2>3 DEF b
  <1>7. req' \in [Handlers -> Request]
    <2>1. req' = [g \in Handlers |-> IF g = h THEN new ELSE other(g)]
      BY <1>1, Zenon DEF new
    <2>2. \A g \in Handlers : (IF g = h THEN new ELSE other(g)) \in Request
      BY <1>3, <1>6
    <2>. HIDE DEF other
    <2>. QED
      BY <2>1, <2>2
  <1>8. \A g \in Handlers \ {h} : Kept(req'[g], other(g))
    BY <1>6 DEF Kept
  <1>9. new.pc = "guard" \/ (new.pc = "override" /\ new.id = None)
    BY <1>3
  <1>10. req[h].pc = "idle" /\ last' = NoAnswer
    BY DEF Begin, At
  <1>. QED
    BY ZenonT(40), <1>3, <1>4, <1>5, <1>6, <1>7, <1>8, <1>9, <1>10

(* All other steps leave the other requests alone.                         *)
LEMMA OthersWait ==
    ASSUME TypeInv, NEW h \in Handlers, Handle(h), ~Begin(h)
    PROVE  /\ \A g \in Handlers \ {h} : req'[g] = req[g]
           /\ req'[h] \in Request => req' \in [Handlers -> Request]
  <1>1. \A r : Goto(h, r) => req' = [req EXCEPT ![h] = req'[h]]
    BY DEF Goto, TypeInv, TypeOK
  <1>2. Answer(h) => req' = [req EXCEPT ![h] = req'[h]]
    BY DEF Answer, TypeInv, TypeOK
  <1>3. Answer(h) \/ \E r : Goto(h, r)
    <2>1. CASE Guard(h) \/ CreatePolicy(h) \/ LoadWorkspace(h)
      BY <2>1, Zenon DEF Guard, CreatePolicy, LoadWorkspace, Refuse, Proceed
    <2>2. CASE LoadPolicy(h)
      BY <2>2, Zenon DEF LoadPolicy, Refuse
    <2>3. CASE LoadReplacement(h) \/ Activate(h) \/ SaveOverride(h) \/ Deactivate(h)
      BY <2>3, Zenon DEF LoadReplacement, Activate, SaveOverride, Deactivate, Refuse, Proceed
    <2>4. CASE ClearOverrides(h) \/ ClearPointer(h) \/ CheckTarget(h) \/ SetPointer(h)
      BY <2>4, Zenon DEF ClearOverrides, ClearPointer, CheckTarget, SetPointer, Refuse, Proceed
    <2>5. CASE UnsetFlags(h) \/ SetFlag(h)
      <3>1. AfterSync(h) \/ Proceed(h, "set")
        BY <2>5 DEF UnsetFlags, SetFlag
      <3>. QED
        BY <3>1 DEF AfterSync, Proceed
    <2>6. CASE ReadBack(h)
      BY <2>6, Zenon DEF ReadBack, Refuse
    <2>7. CASE ReadPointer(h) \/ CheckCanonical(h) \/ ClearCanonical(h)
      BY <2>7, Zenon DEF ReadPointer, CheckCanonical, ClearCanonical, Proceed
    <2>8. CASE Fail(h)
      BY <2>8, Zenon DEF Fail, Refuse, Proceed
    <2>. QED
      BY <2>1, <2>2, <2>3, <2>4, <2>5, <2>6, <2>7, <2>8 DEF Handle
  <1>4. req' = [req EXCEPT ![h] = req'[h]] /\ req \in [Handlers -> Request]
    BY <1>1, <1>2, <1>3 DEF TypeInv, TypeOK
  <1>. QED
    BY <1>4

LEMMA LoadSteps ==
    ASSUME TypeInv, NEW h \in Handlers
    PROVE  /\ Guard(h) =>
                 \/ Quits(h)
                 \/ req[h].op = "create" /\ Continues(h, "insert")
                 \/ req[h].op \in {"activate", "deactivate"} /\ Continues(h, "workspace")
                 \/ req[h].op \in {"default", "assign"} /\ Continues(h, "policy")
           /\ LoadWorkspace(h) =>
                 Goes(h, "policy") /\ req'[h].replacement = req[h].replacement
           /\ LoadReplacement(h) =>
                 \/ Quits(h)
                 \/ /\ Deactivates(h)
                    /\ req[h].loaded.isActive <=> req'[h].pc = "deactivate"
                    /\ req'[h].pc = "deactivate" => req'[h].loaded = req[h].loaded
           /\ LoadPolicy(h) =>
                 \/ Quits(h)
                 \/ req[h].op = "activate" /\ Answers(h)
                 \/ /\ req[h].op = "activate" /\ Goes(h, "activate")
                    /\ req'[h].replacement = req[h].replacement
                 \/ /\ req[h].op = "deactivate" /\ Deactivates(h)
                    /\ policy[req[h].id].isActive <=> req'[h].pc = "deactivate"
                    /\ req'[h].pc = "deactivate" => req'[h].loaded = policy[req[h].id]
                 \/ /\ req[h].op = "deactivate" /\ Goes(h, "replacement")
                    /\ req'[h].replacement = req[h].replacement
                    /\ req'[h].loaded = policy[req[h].id]
                 \/ req[h].op = "default" /\ req[h].id \in Active /\ Applies(h, req[h].id)
                 \/ /\ req[h].op = "assign" /\ req[h].id \in Active /\ Goes(h, "override")
  <1>0. req[h] \in Request
    BY DEF TypeInv, TypeOK
  <1>1. ASSUME Guard(h)
        PROVE  \/ Quits(h)
               \/ req[h].op = "create" /\ Continues(h, "insert")
               \/ req[h].op \in {"activate", "deactivate"} /\ Continues(h, "workspace")
               \/ req[h].op \in {"default", "assign"} /\ Continues(h, "policy")
    <2>1. \/ Refuse(h)
          \/ req[h].op = "create" /\ Proceed(h, "insert")
          \/ req[h].op \in {"activate", "deactivate"} /\ Proceed(h, "workspace")
          \/ req[h].op \in {"default", "assign"} /\ Proceed(h, "policy")
      BY <1>0, <1>1 DEF Guard, Request, Ops
    <2>. QED
      BY <2>1, Went, Proceeds DEF PCs
  <1>2. ASSUME LoadWorkspace(h)
        PROVE  Goes(h, "policy") /\ req'[h].replacement = req[h].replacement
    <2>. DEFINE b == (pointer = req[h].id)
               r == [req[h] EXCEPT !.wasDefault = b, !.pc = "policy"]
    <2>1. b \in BOOLEAN /\ Goto(h, r)
      BY <1>2 DEF LoadWorkspace
    <2>. HIDE DEF b
    <2>2. /\ r \in Request /\ Kept(r, req[h]) /\ r.replacement = req[h].replacement
          /\ r.pc = "policy"
      BY <1>0, <2>1 DEF Request, Kept
    <2>3. req'[h] = r /\ last' = NoAnswer
      BY <2>1, Went
    <2>. QED
      BY <2>2, <2>3 DEF Goes, Kept
  <1>3. ASSUME LoadReplacement(h)
        PROVE  \/ Quits(h)
               \/ /\ Deactivates(h)
                  /\ req[h].loaded.isActive <=> req'[h].pc = "deactivate"
                  /\ req'[h].pc = "deactivate" => req'[h].loaded = req[h].loaded
    <2>1. Refuse(h) \/ Goto(h, Deactivation(req[h]))
      BY <1>3 DEF LoadReplacement
    <2>2. Kept(req[h], req[h])
      BY DEF Kept
    <2>. QED
      BY <1>0, <2>1, <2>2, Went, Deactivating
  <1>4. ASSUME LoadPolicy(h)
        PROVE  \/ Quits(h)
               \/ req[h].op = "activate" /\ Answers(h)
               \/ /\ req[h].op = "activate" /\ Goes(h, "activate")
                  /\ req'[h].replacement = req[h].replacement
               \/ /\ req[h].op = "deactivate" /\ Deactivates(h)
                  /\ policy[req[h].id].isActive <=> req'[h].pc = "deactivate"
                  /\ req'[h].pc = "deactivate" => req'[h].loaded = policy[req[h].id]
               \/ /\ req[h].op = "deactivate" /\ Goes(h, "replacement")
                  /\ req'[h].replacement = req[h].replacement
                  /\ req'[h].loaded = policy[req[h].id]
               \/ req[h].op = "default" /\ req[h].id \in Active /\ Applies(h, req[h].id)
               \/ /\ req[h].op = "assign" /\ req[h].id \in Active /\ Goes(h, "override")
    <2>. DEFINE d == policy[req[h].id]
               r == [req[h] EXCEPT !.loaded = d]
    <2>1. req[h].pc = "policy" /\ req[h].id \in Policies /\ d \in PolicyDoc /\ req[h].id \in Id
      BY <1>4 DEF LoadPolicy, At, TypeInv, TypeOK, Sound, Id
    <2>. HIDE DEF d
    <2>2. /\ r \in Request /\ Kept(r, req[h]) /\ r.replacement = req[h].replacement
          /\ r.loaded = d
      BY <1>0, <2>1 DEF Request, Kept
    <2>3. ASSUME NEW pc \in PCs, Goto(h, [r EXCEPT !.pc = pc])
          PROVE  /\ Goes(h, pc) /\ req'[h].replacement = req[h].replacement
                 /\ req'[h].loaded = d
      <3>1. /\ [r EXCEPT !.pc = pc] \in Request /\ Kept([r EXCEPT !.pc = pc], r)
            /\ [r EXCEPT !.pc = pc].replacement = r.replacement
            /\ [r EXCEPT !.pc = pc].loaded = d /\ [r EXCEPT !.pc = pc].pc = pc
        BY <2>2 DEF Request, Kept, PCs, Clearing, Aligning
      <3>2. req'[h] = [r EXCEPT !.pc = pc] /\ last' = NoAnswer
        BY <2>3, Went
      <3>. QED
        BY <2>2, <3>1, <3>2 DEF Goes, Kept
    <2>4. /\ "activate" \in PCs /\ "replacement" \in PCs /\ "override" \in PCs
      BY DEF PCs, Clearing
    <2>5. \/ r.op = "activate" /\ Goto(h, [r EXCEPT !.pc = "activate"])
          \/ r.op = "activate" /\ Answer(h)
          \/ r.op = "deactivate" /\ Goto(h, Deactivation(r))
          \/ r.op = "deactivate" /\ Goto(h, [r EXCEPT !.pc = "replacement"])
          \/ Refuse(h)
          \/ r.op = "default" /\ r.id \in Active /\ Goto(h, Apply(r, r.id))
          \/ r.op = "assign" /\ r.id \in Active /\ Goto(h, [r EXCEPT !.pc = "override"])
      BY <1>4, Zenon DEF LoadPolicy, d
    <2>6. r.op = req[h].op /\ r.id = req[h].id
      BY <2>2 DEF Kept
    <2>. HIDE DEF r
    <2>7. CASE r.op = "deactivate" /\ Goto(h, Deactivation(r))
      BY <2>2, <2>6, <2>7, Deactivating DEF d
    <2>8. CASE r.op = "default" /\ r.id \in Active /\ Goto(h, Apply(r, r.id))
      BY <2>1, <2>2, <2>6, <2>8, Applying
    <2>. QED
      BY <2>3, <2>4, <2>5, <2>6, <2>7, <2>8, Went DEF d
  <1>. QED
    BY <1>1, <1>2, <1>3, <1>4

(* When the flags are written, an alignment reads them back, and a repair  *)
(* on its own is done.                                                     *)
Finishes(h) ==
    \/ req[h].phase # "repair" /\ Continues(h, "read")
    \/ req[h].phase = "repair" /\ Answers(h)

LEMMA AlignSteps ==
    ASSUME TypeInv, NEW h \in Handlers
    PROVE  /\ ClearPointer(h) =>
                 \/ pointer = req[h].id /\ pointer' = None /\ Applies(h, req[h].replacement)
                 \/ pointer # req[h].id /\ pointer' = pointer /\ Repairs(h)
           /\ CheckTarget(h) =>
                 Quits(h) \/ (req[h].target \in Active /\ Continues(h, "point"))
           /\ UnsetFlags(h) =>
                 \/ req[h].sync = None /\ Finishes(h)
                 \/ req[h].sync # None /\ Continues(h, "set")
           /\ SetFlag(h) => Finishes(h)
           /\ ReadBack(h) =>
                 \/ Consistent /\ pointer = req[h].target /\ Answers(h)
                 \/ Quits(h)
                 \/ /\ Goes(h, "repair") /\ Read(req'[h], req[h])
                    /\ req'[h].target = req[h].target /\ req'[h].phase = "fix"
           /\ ReadPointer(h) =>
                 /\ Goes(h, IF pointer = None THEN "unset" ELSE "canonical")
                 /\ Read(req'[h], req[h]) /\ Aims(req'[h], req[h]) /\ req'[h].sync = pointer
           /\ CheckCanonical(h) =>
                 \/ req[h].sync \in Active /\ Continues(h, "unset")
                 \/ Continues(h, "clear")
           /\ ClearCanonical(h) =>
                 /\ Goes(h, "unset") /\ Read(req'[h], req[h]) /\ Aims(req'[h], req[h])
                 /\ req'[h].sync = None
           /\ Fail(h) =>
                 \/ Quits(h)
                 \/ req[h].pc = "point" /\ Continues(h, "unset")
                 \/ /\ req[h].pc \in {"unset", "set"} /\ req[h].phase # "repair"
                    /\ Continues(h, "read")
                 \/ /\ req[h].pc \in {"repair", "canonical", "clear"} /\ req[h].phase = "fix"
                    /\ Continues(h, "read")
  <1>0. req[h] \in Request /\ Kept(req[h], req[h])
    BY DEF TypeInv, TypeOK, Kept
  <1>1. ASSUME NEW pc \in {"point", "unset", "set", "read", "clear"}, Proceed(h, pc)
        PROVE  Continues(h, pc)
    BY <1>1, Proceeds DEF PCs, Aligning
  <1>2. AfterSync(h) => Finishes(h)
    BY <1>0, <1>1, Went DEF AfterSync, Finishes, Request
  <1>3. ASSUME ClearPointer(h)
        PROVE  \/ pointer = req[h].id /\ pointer' = None /\ Applies(h, req[h].replacement)
               \/ pointer # req[h].id /\ pointer' = pointer /\ Repairs(h)
    <2>1. req[h].replacement \in Id
      BY <1>0 DEF Request
    <2>2. \/ /\ pointer = req[h].id /\ pointer' = None
             /\ Goto(h, Apply(req[h], req[h].replacement))
          \/ pointer # req[h].id /\ pointer' = pointer /\ Goto(h, Repair(req[h]))
      BY <1>3 DEF ClearPointer
    <2>. QED
      BY <1>0, <2>1, <2>2, Applying
  <1>4. CheckTarget(h) => Quits(h) \/ (req[h].target \in Active /\ Continues(h, "point"))
    BY <1>1, Went DEF CheckTarget
  <1>5. ASSUME UnsetFlags(h)
        PROVE  \/ req[h].sync = None /\ Finishes(h)
               \/ req[h].sync # None /\ Continues(h, "set")
    <2>1. IF req[h].sync = None THEN AfterSync(h) ELSE Proceed(h, "set")
      BY <1>5 DEF UnsetFlags
    <2>. QED
      BY <1>1, <1>2, <2>1
  <1>6. SetFlag(h) => Finishes(h)
    BY <1>2 DEF SetFlag
  <1>7. ASSUME ReadBack(h)
        PROVE  \/ Consistent /\ pointer = req[h].target /\ Answers(h)
               \/ Quits(h)
               \/ /\ Goes(h, "repair") /\ Read(req'[h], req[h])
                  /\ req'[h].target = req[h].target /\ req'[h].phase = "fix"
    <2>. DEFINE r == [req[h] EXCEPT !.phase = "fix", !.pc = "repair"]
    <2>1. /\ r \in Request /\ Kept(r, req[h]) /\ Read(r, req[h])
          /\ r.target = req[h].target /\ r.phase = "fix" /\ r.pc = "repair"
      BY <1>0 DEF Request, Kept, Read
    <2>2. \/ Consistent /\ pointer = req[h].target /\ Answer(h)
          \/ Refuse(h)
          \/ Goto(h, r)
      BY <1>7 DEF ReadBack
    <2>3. CASE Goto(h, r)
      <3>1. req'[h] = r /\ last' = NoAnswer
        BY <2>3, Went
      <3>. QED
        BY <2>1, <3>1 DEF Goes, Kept, Read
    <2>. QED
      BY <2>2, <2>3, Went
  <1>8. ASSUME ReadPointer(h)
        PROVE  /\ Goes(h, IF pointer = None THEN "unset" ELSE "canonical")
               /\ Read(req'[h], req[h]) /\ Aims(req'[h], req[h]) /\ req'[h].sync = pointer
    <2>. DEFINE pc == IF pointer = None THEN "unset" ELSE "canonical"
    <2>1. pc \in PCs /\ pointer \in Id
      BY DEF PCs, Aligning, TypeInv, TypeOK, Id, Existing
    <2>2. Goto(h, [req[h] EXCEPT !.sync = pointer, !.pc = pc])
      BY <1>8 DEF ReadPointer
    <2>. HIDE DEF pc
    <2>3. Goes(h, pc) /\ Read(req'[h], req[h]) /\ Aims(req'[h], req[h]) /\ req'[h].sync = pointer
      BY <2>1, <2>2, Synced
    <2>. QED
      BY <2>3 DEF pc
  <1>9. ASSUME CheckCanonical(h)
        PROVE  \/ req[h].sync \in Active /\ Continues(h, "unset")
               \/ Continues(h, "clear")
    BY <1>1, <1>9 DEF CheckCanonical
  <1>10. ASSUME ClearCanonical(h)
         PROVE  /\ Goes(h, "unset") /\ Read(req'[h], req[h]) /\ Aims(req'[h], req[h])
                /\ req'[h].sync = None
    <2>1. "unset" \in PCs /\ None \in Id
      BY DEF PCs, Aligning, Id
    <2>2. Goto(h, [req[h] EXCEPT !.sync = None, !.pc = "unset"])
      BY <1>10 DEF ClearCanonical
    <2>. QED
      BY <2>1, <2>2, Synced
  <1>11. Fail(h) =>
            \/ Quits(h)
            \/ req[h].pc = "point" /\ Continues(h, "unset")
            \/ /\ req[h].pc \in {"unset", "set"} /\ req[h].phase # "repair"
               /\ Continues(h, "read")
            \/ /\ req[h].pc \in {"repair", "canonical", "clear"} /\ req[h].phase = "fix"
               /\ Continues(h, "read")
    BY <1>1, Went DEF Fail
  <1>. QED
    BY <1>3, <1>4, <1>5, <1>6, <1>7, <1>8, <1>9, <1>10, <1>11

(* What the writes make of the policies.                                   *)
LEMMA PolicyWrites ==
    ASSUME TypeInv, NEW h \in Handlers
    PROVE  /\ policy' = policy => Existing' = Existing /\ Active' = Active /\ Defaults' = Defaults
           /\ CreatePolicy(h) =>
                 \/ Quits(h) /\ policy' = policy
                 \/ /\ Answers(h) /\ req[h].id \notin Existing /\ req[h].id \in Policies
                    /\ policy' \in [Policies -> PolicyDoc]
                    /\ \A p \in Policies \ Existing' : policy'[p] = NoPolicy
                    /\ Existing' = Existing \cup {req[h].id}
                    /\ Active' = Active \cup {req[h].id} /\ Defaults' = Defaults
           /\ Activate(h) =>
                 /\ Answers(h) /\ req[h].id \in Existing
                 /\ policy' \in [Policies -> PolicyDoc]
                 /\ \A p \in Policies \ Existing' : policy'[p] = NoPolicy
                 /\ Existing' = Existing
                 /\ Active' = Active \cup {req[h].id} /\ Defaults' = Defaults
           /\ Deactivate(h) =>
                 /\ Continues(h, "clear_overrides") /\ req[h].id \in Existing
                 /\ policy' \in [Policies -> PolicyDoc]
                 /\ \A p \in Policies \ Existing' : policy'[p] = NoPolicy
                 /\ Existing' = Existing
                 /\ Active' = Active \ {req[h].id} /\ Defaults' \subseteq Defaults
           /\ UnsetFlags(h) =>
                 /\ policy' \in [Policies -> PolicyDoc]
                 /\ \A p \in Policies \ Existing' : policy'[p] = NoPolicy
                 /\ Existing' = Existing
                 /\ Active' = Active /\ Defaults' = Defaults \cap {req[h].sync}
           /\ SetFlag(h) =>
                 /\ req[h].sync \in Existing
                 /\ policy' \in [Policies -> PolicyDoc]
                 /\ \A p \in Policies \ Existing' : policy'[p] = NoPolicy
                 /\ Existing' = Existing
                 /\ Active' = Active \cup {req[h].sync}
                 /\ Defaults' = Defaults \cup {req[h].sync}
  <1>0. /\ policy \in [Policies -> PolicyDoc] /\ req[h] \in Request /\ Sound(req[h], Existing)
        /\ \A p \in Policies \ Existing : policy[p] = NoPolicy
        /\ \A p \in Policies : policy[p] \in PolicyDoc
    BY DEF TypeInv, TypeOK
  <1>1. policy' = policy => Existing' = Existing /\ Active' = Active /\ Defaults' = Defaults
    BY DEF Existing, Active, Defaults
  <1>2. ASSUME NEW id \in Policies, NEW d \in PolicyDoc, policy' = [policy EXCEPT ![id] = d],
               d.exists
        PROVE  /\ policy' \in [Policies -> PolicyDoc]
               /\ \A p \in Policies \ Existing' : policy'[p] = NoPolicy
               /\ Existing' = Existing \cup {id}
               /\ \A p : p \in Active' <=> IF p = id THEN d.isActive ELSE p \in Active
               /\ \A p : p \in Defaults' <=> IF p = id THEN d.isDefault ELSE p \in Defaults
    <2>1. /\ policy' \in [Policies -> PolicyDoc] /\ policy'[id] = d
          /\ \A p \in Policies \ {id} : policy'[p] = policy[p]
      BY <1>0, <1>2
    <2>2. Existing' = Existing \cup {id}
      BY <1>2, <2>1 DEF Existing
    <2>3. \A p : p \in Active' <=> IF p = id THEN d.isActive ELSE p \in Active
      BY <1>2, <2>1, <2>2 DEF Active, Existing
    <2>4. \A p : p \in Defaults' <=> IF p = id THEN d.isDefault ELSE p \in Defaults
      BY <1>2, <2>1, <2>2 DEF Defaults, Existing
    <2>. QED
      BY <1>0, <2>1, <2>2, <2>3, <2>4
  <1>3. ASSUME CreatePolicy(h)
        PROVE  \/ Quits(h) /\ policy' = policy
               \/ /\ Answers(h) /\ req[h].id \notin Existing /\ req[h].id \in Policies
                  /\ policy' \in [Policies -> PolicyDoc]
                  /\ \A p \in Policies \ Existing' : policy'[p] = NoPolicy
                  /\ Existing' = Existing \cup {req[h].id}
                  /\ Active' = Active \cup {req[h].id} /\ Defaults' = Defaults
    <2>. DEFINE d == [exists |-> TRUE, isActive |-> TRUE, isDefault |-> FALSE]
    <2>1. d \in PolicyDoc /\ d.exists /\ d.isActive /\ ~d.isDefault
      BY DEF PolicyDoc
    <2>2. \/ Refuse(h) /\ policy' = policy
          \/ Answer(h) /\ req[h].id \notin Existing /\ policy' = [policy EXCEPT ![req[h].id] = d]
      BY <1>3 DEF CreatePolicy
    <2>3. req[h].id \in Policies
      BY <1>0, <1>3 DEF CreatePolicy, At, Sound
    <2>. HIDE DEF d
    <2>4. CASE Answer(h) /\ req[h].id \notin Existing /\ policy' = [policy EXCEPT ![req[h].id] = d]
      <3>1. /\ policy' \in [Policies -> PolicyDoc]
            /\ \A p \in Policies \ Existing' : policy'[p] = NoPolicy
            /\ Existing' = Existing \cup {req[h].id}
            /\ \A p : p \in Active' <=> IF p = req[h].id THEN d.isActive ELSE p \in Active
            /\ \A p : p \in Defaults' <=> IF p = req[h].id THEN d.isDefault ELSE p \in Defaults
        BY <1>2, <2>1, <2>3, <2>4
      <3>2. req[h].id \notin Defaults
        BY <2>4 DEF Defaults
      <3>. QED
        BY <2>1, <2>3, <2>4, <3>1, <3>2, Went
    <2>. QED
      BY <2>2, <2>4, Went
  <1>4. ASSUME Activate(h)
        PROVE  /\ Answers(h) /\ req[h].id \in Existing
               /\ policy' \in [Policies -> PolicyDoc]
               /\ \A p \in Policies \ Existing' : policy'[p] = NoPolicy
               /\ Existing' = Existing
               /\ Active' = Active \cup {req[h].id} /\ Defaults' = Defaults
    <2>. DEFINE id == req[h].id
               d == [policy[id] EXCEPT !.isActive = TRUE]
    <2>1. id \in Existing /\ id \in Policies
      BY <1>0, <1>4, PoliciesAssumption DEF Activate, At, Sound, Existing
    <2>2. /\ d \in PolicyDoc /\ d.exists /\ d.isActive /\ d.isDefault = policy[id].isDefault
          /\ policy' = [policy EXCEPT ![id] = d]
      BY <1>0, <1>4, <2>1 DEF Activate, PolicyDoc, Existing
    <2>. HIDE DEF d
    <2>3. /\ policy' \in [Policies -> PolicyDoc]
          /\ \A p \in Policies \ Existing' : policy'[p] = NoPolicy
          /\ Existing' = Existing \cup {id}
          /\ \A p : p \in Active' <=> IF p = id THEN d.isActive ELSE p \in Active
          /\ \A p : p \in Defaults' <=> IF p = id THEN d.isDefault ELSE p \in Defaults
      BY <1>2, <2>1, <2>2
    <2>4. id \in Defaults <=> policy[id].isDefault
      BY <2>1 DEF Defaults
    <2>5. Answers(h)
      BY <1>4, Went DEF Activate
    <2>. QED
      BY <2>1, <2>2, <2>3, <2>4, <2>5
  <1>5. ASSUME Deactivate(h)
        PROVE  /\ Continues(h, "clear_overrides") /\ req[h].id \in Existing
               /\ policy' \in [Policies -> PolicyDoc]
               /\ \A p \in Policies \ Existing' : policy'[p] = NoPolicy
               /\ Existing' = Existing
               /\ Active' = Active \ {req[h].id} /\ Defaults' \subseteq Defaults
    <2>. DEFINE id == req[h].id
               f == policy[id].isDefault /\ ~req[h].loaded.isDefault
               d == [policy[id] EXCEPT !.isActive = FALSE, !.isDefault = f]
    <2>1. id \in Existing /\ id \in Policies
      BY <1>0, <1>5, PoliciesAssumption DEF Deactivate, At, Sound, Existing, Clearing
    <2>2. f \in BOOLEAN /\ (f => policy[id].isDefault)
      OBVIOUS
    <2>3. policy' = [policy EXCEPT ![id] = d]
      BY <1>0, <1>5, <2>1 DEF Deactivate, PolicyDoc
    <2>. HIDE DEF f
    <2>4. d \in PolicyDoc /\ d.exists /\ ~d.isActive /\ d.isDefault = f
      BY <1>0, <2>1, <2>2 DEF PolicyDoc, Existing
    <2>. HIDE DEF d
    <2>5. /\ policy' \in [Policies -> PolicyDoc]
          /\ \A p \in Policies \ Existing' : policy'[p] = NoPolicy
          /\ Existing' = Existing \cup {id}
          /\ \A p : p \in Active' <=> IF p = id THEN d.isActive ELSE p \in Active
          /\ \A p : p \in Defaults' <=> IF p = id THEN d.isDefault ELSE p \in Defaults
      BY <1>2, <2>1, <2>3, <2>4
    <2>6. id \in Defaults <=> policy[id].isDefault
      BY <2>1 DEF Defaults
    <2>7. Continues(h, "clear_overrides")
      BY <1>5, Proceeds DEF Deactivate, PCs, Clearing
    <2>. QED
      BY <2>1, <2>2, <2>4, <2>5, <2>6, <2>7
  <1>6. ASSUME UnsetFlags(h)
        PROVE  /\ policy' \in [Policies -> PolicyDoc]
               /\ \A p \in Policies \ Existing' : policy'[p] = NoPolicy
               /\ Existing' = Existing
               /\ Active' = Active /\ Defaults' = Defaults \cap {req[h].sync}
    <2>. DEFINE unset(p) == [policy[p] EXCEPT !.isDefault = FALSE]
    <2>1. policy' = [p \in Policies |-> IF p = req[h].sync THEN policy[p] ELSE unset(p)]
      BY <1>6 DEF UnsetFlags
    <2>2. ASSUME NEW p \in Policies
          PROVE  /\ unset(p) \in PolicyDoc /\ unset(p).exists = policy[p].exists
                 /\ unset(p).isActive = policy[p].isActive /\ ~unset(p).isDefault
                 /\ policy[p] = NoPolicy => unset(p) = NoPolicy
      <3>1. policy[p] \in PolicyDoc
        BY <1>0
      <3>2. ASSUME NEW d \in PolicyDoc
            PROVE  LET u == [d EXCEPT !.isDefault = FALSE]
                   IN  /\ u \in PolicyDoc /\ u.exists = d.exists
                       /\ u.isActive = d.isActive /\ ~u.isDefault
        BY DEF PolicyDoc
      <3>3. ASSUME NEW d \in PolicyDoc, NEW e \in PolicyDoc, d.exists = e.exists,
                   d.isActive = e.isActive, d.isDefault = e.isDefault
            PROVE  d = e
        <4>1. /\ d = [exists |-> d.exists, isActive |-> d.isActive, isDefault |-> d.isDefault]
              /\ e = [exists |-> e.exists, isActive |-> e.isActive, isDefault |-> e.isDefault]
          BY DEF PolicyDoc
        <4>. QED
          BY <3>3, <4>1
      <3>4. NoPolicy \in PolicyDoc /\ NoPolicy.isDefault = FALSE
        BY DEF NoPolicy, PolicyDoc
      <3>5. unset(p).isDefault = FALSE
        BY <3>1 DEF PolicyDoc
      <3>. QED
        BY <3>1, <3>2, <3>3, <3>4, <3>5
    <2>. HIDE DEF unset
    <2>3. /\ policy' \in [Policies -> PolicyDoc]
          /\ \A p \in Policies : /\ policy'[p].exists = policy[p].exists
                                 /\ policy'[p].isActive = policy[p].isActive
                                 /\ policy[p] = NoPolicy => policy'[p] = NoPolicy
                                 /\ policy'[p].isDefault <=> p = req[h].sync /\ policy[p].isDefault
      BY <1>0, <2>1, <2>2
    <2>4. Existing' = Existing
      BY <2>3 DEF Existing
    <2>5. Active' = Active
      BY <2>3, <2>4 DEF Active, Existing
    <2>6. Defaults' = Defaults \cap {req[h].sync}
      BY <2>3, <2>4 DEF Defaults, Existing
    <2>. QED
      BY <1>0, <2>3, <2>4, <2>5, <2>6
  <1>7. ASSUME SetFlag(h)
        PROVE  /\ req[h].sync \in Existing
               /\ policy' \in [Policies -> PolicyDoc]
               /\ \A p \in Policies \ Existing' : policy'[p] = NoPolicy
               /\ Existing' = Existing
               /\ Active' = Active \cup {req[h].sync}
               /\ Defaults' = Defaults \cup {req[h].sync}
    <2>. DEFINE id == req[h].sync
               d == [policy[id] EXCEPT !.isDefault = TRUE, !.isActive = TRUE]
    <2>1. id \in Existing /\ id \in Policies
      BY <1>0, <1>7 DEF SetFlag, At, Sound, Existing
    <2>2. /\ d \in PolicyDoc /\ d.exists /\ d.isActive /\ d.isDefault
          /\ policy' = [policy EXCEPT ![id] = d]
      BY <1>0, <1>7, <2>1 DEF SetFlag, PolicyDoc, Existing
    <2>. HIDE DEF d
    <2>3. /\ policy' \in [Policies -> PolicyDoc]
          /\ \A p \in Policies \ Existing' : policy'[p] = NoPolicy
          /\ Existing' = Existing \cup {id}
          /\ \A p : p \in Active' <=> IF p = id THEN d.isActive ELSE p \in Active
          /\ \A p : p \in Defaults' <=> IF p = id THEN d.isDefault ELSE p \in Defaults
      BY <1>2, <2>1, <2>2
    <2>. QED
      BY <2>1, <2>2, <2>3
  <1>. QED
    BY <1>1, <1>3, <1>4, <1>5, <1>6, <1>7

(* A step changes nothing of the other requests, but that one that arrives *)
(* overlaps those under way.                                               *)
Same(s, r) ==
    /\ s.pc = r.pc /\ s.op = r.op /\ s.id = r.id /\ s.mailbox = r.mailbox
    /\ Read(s, r) /\ Aims(s, r) /\ s.sync = r.sync

LEMMA Others ==
    ASSUME TypeInv, NEW h \in Handlers, Handle(h), NEW g \in Handlers \ {h}
    PROVE  /\ Same(req'[g], req[g])
           /\ req'[g].alone => req[g].alone
           /\ Begin(h) /\ ~At(g, "idle") => ~req'[g].alone
  <1>1. CASE Begin(h)
    <2>1. req[g] \in Request
      BY DEF TypeInv, TypeOK
    <2>2. ASSUME NEW b \in BOOLEAN, Kept(req'[g], [req[g] EXCEPT !.alone = b])
          PROVE  /\ req'[g].op = req[g].op /\ req'[g].id = req[g].id
                 /\ req'[g].mailbox = req[g].mailbox /\ req'[g].alone = b
      BY <2>1, <2>2 DEF Kept, Request
    <2>3. req[g].alone \in BOOLEAN
      BY <2>1 DEF Request
    <2>4. /\ Kept(req'[g], [req[g] EXCEPT !.alone = req[g].alone /\ g \notin Busy])
          /\ req'[g].pc = req[g].pc /\ Read(req'[g], req[g]) /\ Aims(req'[g], req[g])
          /\ req'[g].sync = req[g].sync
      <3>1. Kept(req'[g], [req[g] EXCEPT !.alone = @ /\ g \notin Busy])
        BY <1>1, BeginStep
      <3>. QED
        BY <1>1, <3>1, BeginStep
    <2>5. /\ req'[g].op = req[g].op /\ req'[g].id = req[g].id /\ req'[g].mailbox = req[g].mailbox
          /\ req'[g].alone = (req[g].alone /\ g \notin Busy)
      BY <2>2, <2>3, <2>4
    <2>. QED
      BY <2>4, <2>5 DEF Same, Busy
  <1>2. CASE ~Begin(h)
    BY <1>2, OthersWait DEF Same, Read, Aims
  <1>. QED
    BY <1>1, <1>2

(* The steps that only read.                                               *)
Reading(h) ==
    \/ Begin(h) \/ Guard(h) \/ LoadWorkspace(h) \/ LoadPolicy(h) \/ LoadReplacement(h)
    \/ CheckTarget(h) \/ ReadBack(h) \/ ReadPointer(h) \/ CheckCanonical(h)

LEMMA Reads ==
    ASSUME NEW h \in Handlers, Reading(h)
    PROVE  UNCHANGED <<policy, pointer, override, faults, stray>>
  BY DEF Reading, Begin, Guard, LoadWorkspace, LoadPolicy, LoadReplacement, CheckTarget,
         ReadBack, ReadPointer, CheckCanonical
----------------------------------------------------------------------------
(* Types: what a request is after its step. *)

LEMMA StoreType ==
    ASSUME TypeInv, NEW h \in Handlers, Handle(h)
    PROVE  /\ policy' \in [Policies -> PolicyDoc]
           /\ \A p \in Policies \ Existing' : policy'[p] = NoPolicy
           /\ Existing \subseteq Existing'
           /\ pointer' \in Existing' \cup {None}
           /\ override' \in [Mailboxes -> Existing' \cup {None}]
           /\ faults' \in 0 .. MaxFaults
  <1>0. /\ policy \in [Policies -> PolicyDoc] /\ pointer \in Existing \cup {None}
        /\ override \in [Mailboxes -> Existing \cup {None}] /\ faults \in 0 .. MaxFaults
        /\ \A p \in Policies \ Existing : policy[p] = NoPolicy
        /\ Sound(req[h], Existing)
    BY DEF TypeInv, TypeOK
  <1>1. /\ policy' \in [Policies -> PolicyDoc]
        /\ \A p \in Policies \ Existing' : policy'[p] = NoPolicy
        /\ Existing \subseteq Existing'
    <2>1. CASE policy' = policy
      BY <1>0, <2>1, PolicyWrites
    <2>2. CASE CreatePolicy(h) \/ Activate(h) \/ Deactivate(h) \/ UnsetFlags(h) \/ SetFlag(h)
      BY <1>0, <2>2, PolicyWrites
    <2>3. CASE Reading(h)
      BY <2>1, <2>3, Reads
    <2>4. CASE SaveOverride(h) \/ ClearOverrides(h) \/ ClearPointer(h) \/ SetPointer(h)
      BY <2>1, <2>4 DEF SaveOverride, ClearOverrides, ClearPointer, SetPointer
    <2>5. CASE ClearCanonical(h) \/ Fail(h)
      BY <2>1, <2>5 DEF ClearCanonical, Fail
    <2>. QED
      BY <2>2, <2>3, <2>4, <2>5 DEF Handle, Reading
  <1>2. pointer' \in Existing' \cup {None}
    <2>1. CASE pointer' = pointer \/ pointer' = None
      BY <1>0, <1>1, <2>1
    <2>2. CASE SetPointer(h)
      BY <1>0, <1>1, <2>2 DEF SetPointer, At, Sound
    <2>3. CASE Reading(h)
      BY <2>1, <2>3, Reads
    <2>4. CASE CreatePolicy(h) \/ Activate(h) \/ Deactivate(h) \/ UnsetFlags(h) \/ SetFlag(h)
      BY <2>1, <2>4 DEF CreatePolicy, Activate, Deactivate, UnsetFlags, SetFlag
    <2>5. CASE SaveOverride(h) \/ ClearOverrides(h) \/ ClearPointer(h)
      BY <2>1, <2>5 DEF SaveOverride, ClearOverrides, ClearPointer
    <2>6. CASE ClearCanonical(h) \/ Fail(h)
      BY <2>1, <2>6 DEF ClearCanonical, Fail
    <2>. QED
      BY <2>2, <2>3, <2>4, <2>5, <2>6 DEF Handle, Reading
  <1>3. override' \in [Mailboxes -> Existing' \cup {None}]
    <2>1. CASE override' = override
      BY <1>0, <1>1, <2>1
    <2>2. CASE SaveOverride(h)
      <3>1. req[h].id \in Existing \cup {None} /\ req[h].mailbox \in Mailboxes
        BY <1>0, <2>2 DEF SaveOverride, At, Sound
      <3>2. override' = [override EXCEPT ![req[h].mailbox] = req[h].id]
        BY <2>2 DEF SaveOverride
      <3>. QED
        BY <1>0, <1>1, <3>1, <3>2
    <2>3. CASE ClearOverrides(h)
      <3>1. override' = [m \in Mailboxes |-> IF override[m] = req[h].id THEN None ELSE override[m]]
        BY <2>3 DEF ClearOverrides
      <3>. QED
        BY <1>0, <1>1, <3>1
    <2>4. CASE Reading(h)
      BY <2>1, <2>4, Reads
    <2>5. CASE CreatePolicy(h) \/ Activate(h) \/ Deactivate(h) \/ UnsetFlags(h) \/ SetFlag(h)
      BY <2>1, <2>5 DEF CreatePolicy, Activate, Deactivate, UnsetFlags, SetFlag
    <2>6. CASE ClearPointer(h) \/ SetPointer(h) \/ ClearCanonical(h) \/ Fail(h)
      BY <2>1, <2>6 DEF ClearPointer, SetPointer, ClearCanonical, Fail
    <2>. QED
      BY <2>2, <2>3, <2>4, <2>5, <2>6 DEF Handle, Reading
  <1>4. faults' \in 0 .. MaxFaults
    <2>1. CASE faults' = faults
      BY <1>0, <2>1
    <2>2. CASE Fail(h)
      BY <1>0, <2>2, PoliciesAssumption DEF Fail
    <2>3. CASE Reading(h)
      BY <2>1, <2>3, Reads
    <2>4. CASE CreatePolicy(h) \/ Activate(h) \/ Deactivate(h) \/ UnsetFlags(h) \/ SetFlag(h)
      BY <2>1, <2>4 DEF CreatePolicy, Activate, Deactivate, UnsetFlags, SetFlag
    <2>5. CASE SaveOverride(h) \/ ClearOverrides(h) \/ ClearPointer(h) \/ SetPointer(h)
      BY <2>1, <2>5 DEF SaveOverride, ClearOverrides, ClearPointer, SetPointer
    <2>6. CASE ClearCanonical(h)
      BY <2>1, <2>6 DEF ClearCanonical
    <2>. QED
      BY <2>2, <2>3, <2>4, <2>5, <2>6 DEF Handle, Reading
  <1>. QED
    BY <1>1, <1>2, <1>3, <1>4

LEMMA SoundGrows ==
    ASSUME NEW E, NEW F, E \subseteq F, NEW r, NEW s, Same(s, r), Sound(r, E)
    PROVE  Sound(s, F)
  BY DEF Sound, Same, Read, Aims, Clearing, Aligning

(* A request stays sound when what it takes along is, ...                  *)
LEMMA SoundStep ==
    ASSUME TypeInv, NEW h \in Handlers, ~At(h, "idle"), ~At(h, "override"),
           NEW pc \in PCs, Goes(h, pc),
           req'[h].replacement \in {None, req[h].replacement}
    PROVE  /\ req'[h] \in Request /\ req'[h].pc = pc /\ req'[h].op = req[h].op
           /\ req'[h].id = req[h].id /\ req'[h].mailbox = req[h].mailbox
           /\ req'[h].id \in Policies
           /\ req'[h].op # "create" => req'[h].id \in Existing
           /\ req'[h].op = "assign" => req'[h].mailbox \in Mailboxes
           /\ req'[h].op = "deactivate" => req'[h].replacement # req'[h].id
  BY PoliciesAssumption DEF TypeInv, Goes, Kept, Sound, At

(* ... and what it is about to do is what it may do there.                 *)
LEMMA SoundApplies ==
    ASSUME TypeInv, NEW h \in Handlers, ~At(h, "idle"), ~At(h, "override"), NEW p \in Id,
           Applies(h, p),
           \/ req[h].op = "default" /\ p = req[h].id
           \/ req[h].op = "deactivate" /\ p # req[h].id
    PROVE  req'[h] \in Request /\ Sound(req'[h], Existing)
  <1>. DEFINE pc == IF p = None THEN "point" ELSE "target"
  <1>1. pc \in {"point", "target"} /\ (pc = "point" => p = None) /\ pc \in PCs
    BY DEF PCs, Aligning
  <1>2. /\ Goes(h, pc) /\ req'[h].replacement = None
        /\ req'[h].target = p /\ req'[h].sync = p /\ req'[h].phase = "apply"
    BY DEF Applies
  <1>. HIDE DEF pc
  <1>3. /\ req'[h] \in Request /\ req'[h].pc = pc
        /\ req'[h].op = req[h].op /\ req'[h].id = req[h].id
        /\ req'[h].id \in Policies /\ req'[h].id \in Existing
    BY <1>1, <1>2, SoundStep
  <1>. QED
    BY <1>1, <1>2, <1>3, PoliciesAssumption DEF Sound, Clearing, Aligning

LEMMA SoundRepairs ==
    ASSUME TypeInv, NEW h \in Handlers, ~At(h, "idle"), ~At(h, "override"),
           Repairs(h), req[h].op = "deactivate"
    PROVE  req'[h] \in Request /\ Sound(req'[h], Existing)
  <1>1. "repair" \in PCs
    BY DEF PCs, Aligning
  <1>2. /\ req'[h] \in Request /\ req'[h].pc = "repair"
        /\ req'[h].op = req[h].op /\ req'[h].id = req[h].id
        /\ req'[h].id \in Policies /\ req'[h].id \in Existing
    BY <1>1, SoundStep DEF Repairs
  <1>. QED
    BY <1>2, PoliciesAssumption DEF Repairs, Sound, Clearing, Aligning

LEMMA SoundDeactivates ==
    ASSUME TypeInv, NEW h \in Handlers, ~At(h, "idle"), ~At(h, "override"),
           Deactivates(h), req[h].op = "deactivate"
    PROVE  req'[h] \in Request /\ Sound(req'[h], Existing)
  <1>1. "deactivate" \in PCs /\ req[h].replacement \in Id /\ req[h].replacement # req[h].id
    BY DEF PCs, Clearing, TypeInv, TypeOK, Request, Sound
  <1>2. CASE Goes(h, "deactivate") /\ req'[h].replacement = req[h].replacement
    <2>1. /\ req'[h] \in Request /\ req'[h].pc = "deactivate"
          /\ req'[h].op = req[h].op /\ req'[h].id = req[h].id
          /\ req'[h].id \in Policies /\ req'[h].id \in Existing
      BY <1>1, <1>2, SoundStep
    <2>. QED
      BY <1>1, <1>2, <2>1 DEF Sound, Clearing, Aligning
  <1>. QED
    BY <1>1, <1>2, SoundApplies, SoundRepairs DEF Deactivates

LEMMA SoundIdle == ASSUME NEW E PROVE Idle \in Request /\ Sound(Idle, E)
  BY IdleType DEF Sound, Idle, Clearing, Aligning

LEMMA SoundLoads ==
    ASSUME TypeInv, NEW h \in Handlers,
           Guard(h) \/ LoadWorkspace(h) \/ LoadPolicy(h) \/ LoadReplacement(h)
    PROVE  req'[h] \in Request /\ Sound(req'[h], Existing)
  <1>1. /\ req[h].pc \in {"guard", "workspace", "policy", "replacement"}
        /\ Sound(req[h], Existing) /\ ~At(h, "idle") /\ ~At(h, "override")
    BY DEF TypeInv, At, Guard, LoadWorkspace, LoadPolicy, LoadReplacement
  <1>2. ASSUME Quits(h) \/ Answers(h)
        PROVE  req'[h] \in Request /\ Sound(req'[h], Existing)
    BY <1>2, SoundIdle DEF Quits, Answers
  <1>3. ASSUME NEW pc \in {"insert", "workspace", "policy", "activate", "override", "replacement"},
               Goes(h, pc), req'[h].replacement = req[h].replacement \/ req[h].op = "assign",
               pc = "insert" => req[h].op = "create",
               pc = "workspace" => req[h].op \in {"activate", "deactivate"},
               pc = "policy" => req[h].op # "create",
               pc = "activate" => req[h].op = "activate",
               pc = "override" => req[h].op = "assign",
               pc = "replacement" => req[h].op = "deactivate"
        PROVE  req'[h] \in Request /\ Sound(req'[h], Existing)
    <2>1. pc \in PCs
      BY DEF PCs, Clearing
    <2>2. CASE req'[h].replacement = req[h].replacement
      BY <1>1, <1>3, <2>1, <2>2, SoundStep DEF Sound, Clearing, Aligning
    <2>3. CASE req[h].op = "assign"
      <3>1. req'[h] \in Request /\ Kept(req'[h], req[h]) /\ req'[h].pc = pc
        BY <1>3 DEF Goes
      <3>. QED
        BY <1>1, <1>3, <2>3, <3>1 DEF Kept, Sound, Clearing, Aligning, At
    <2>. QED
      BY <1>3, <2>2, <2>3
  <1>4. CASE Guard(h)
    <2>1. \/ Quits(h)
          \/ req[h].op = "create" /\ Continues(h, "insert")
          \/ req[h].op \in {"activate", "deactivate"} /\ Continues(h, "workspace")
          \/ req[h].op \in {"default", "assign"} /\ Continues(h, "policy")
      BY <1>4, LoadSteps
    <2>2. \A pc : Continues(h, pc) => Goes(h, pc) /\ req'[h].replacement = req[h].replacement
      BY DEF Continues, Read
    <2>3. CASE req[h].op = "create" /\ Continues(h, "insert")
      BY <1>3, <2>2, <2>3
    <2>4. CASE req[h].op \in {"activate", "deactivate"} /\ Continues(h, "workspace")
      BY <1>3, <2>2, <2>4
    <2>5. CASE req[h].op \in {"default", "assign"} /\ Continues(h, "policy")
      BY <1>3, <2>2, <2>5
    <2>. QED
      BY <1>2, <2>1, <2>3, <2>4, <2>5
  <1>5. CASE LoadWorkspace(h)
    <2>1. req[h].op # "create"
      BY <1>1, <1>5 DEF LoadWorkspace, At, Sound
    <2>2. Goes(h, "policy") /\ req'[h].replacement = req[h].replacement
      BY <1>5, LoadSteps
    <2>. QED
      BY <1>3, <2>1, <2>2
  <1>6. CASE LoadPolicy(h)
    <2>1. req[h].id \in Id
      BY DEF TypeInv, TypeOK, Request
    <2>2. CASE req[h].op = "default" /\ Applies(h, req[h].id)
      BY <1>1, <2>1, <2>2, SoundApplies
    <2>3. CASE req[h].op = "deactivate" /\ Deactivates(h)
      BY <1>1, <2>3, SoundDeactivates
    <2>4. CASE /\ req[h].op = "activate" /\ Goes(h, "activate")
               /\ req'[h].replacement = req[h].replacement
      BY <1>3, <2>4
    <2>5. CASE /\ req[h].op = "deactivate" /\ Goes(h, "replacement")
               /\ req'[h].replacement = req[h].replacement
      BY <1>3, <2>5
    <2>6. CASE req[h].op = "assign" /\ Goes(h, "override")
      BY <1>3, <2>6
    <2>. QED
      BY <1>2, <1>6, <2>2, <2>3, <2>4, <2>5, <2>6, LoadSteps
  <1>7. CASE LoadReplacement(h)
    <2>1. req[h].op = "deactivate"
      BY <1>1, <1>7 DEF LoadReplacement, At, Sound, Clearing
    <2>. QED
      BY <1>1, <1>2, <1>7, <2>1, LoadSteps, SoundDeactivates
  <1>. QED
    BY <1>4, <1>5, <1>6, <1>7

LEMMA SoundAligns ==
    ASSUME TypeInv, NEW h \in Handlers, Handle(h), ~Begin(h),
           ~(Guard(h) \/ LoadWorkspace(h) \/ LoadPolicy(h) \/ LoadReplacement(h))
    PROVE  req'[h] \in Request /\ Sound(req'[h], Existing)
  <1>0. Sound(req[h], Existing) /\ req[h] \in Request /\ pointer \in Existing \cup {None}
    BY DEF TypeInv, TypeOK
  <1>1. ASSUME Quits(h) \/ Answers(h)
        PROVE  req'[h] \in Request /\ Sound(req'[h], Existing)
    BY <1>1, SoundIdle DEF Quits, Answers
  <1>2. ASSUME ~At(h, "idle"), ~At(h, "override"),
               NEW pc \in Clearing \cup Aligning, Goes(h, pc),
               req'[h].replacement = req[h].replacement, req'[h].target = req[h].target,
               req[h].op = "deactivate" \/ (req[h].pc \in Aligning /\ pc \in Aligning),
               req'[h].phase = req[h].phase \/ (pc = "repair" /\ req'[h].phase = "fix" /\ req[h].phase # "repair"),
               pc \in Aligning => req[h].pc \in Aligning,
               pc = "point" => At(h, "target") /\ req'[h].sync = req[h].sync,
               pc # "target",
               pc \in {"point", "unset"} => req'[h].sync \in Existing \cup {None},
               pc \in {"set", "canonical"} => req'[h].sync \in Existing,
               pc = "read" => req[h].phase # "repair"
        PROVE  req'[h] \in Request /\ Sound(req'[h], Existing)
    <2>1. pc \in PCs /\ req[h].op # "create"
      BY <1>0, <1>2 DEF PCs, Sound
    <2>2. /\ req'[h] \in Request /\ req'[h].pc = pc /\ req'[h].op = req[h].op
          /\ req'[h].id = req[h].id /\ req'[h].mailbox = req[h].mailbox
          /\ req'[h].id \in Policies /\ req'[h].id \in Existing
          /\ req'[h].op = "assign" => req'[h].mailbox \in Mailboxes
          /\ req'[h].op = "deactivate" => req'[h].replacement # req'[h].id
      BY <1>2, <2>1, SoundStep
    <2>. QED
      BY <1>0, <1>2, <2>2 DEF Sound, Clearing, Aligning, At
  <1>3. ASSUME ~At(h, "idle"), ~At(h, "override"),
               NEW pc \in Clearing \cup Aligning, Continues(h, pc),
               req[h].op = "deactivate" \/ (req[h].pc \in Aligning /\ pc \in Aligning),
               pc \in Aligning => req[h].pc \in Aligning,
               pc = "point" => At(h, "target"),
               pc # "target",
               pc \in {"point", "unset"} => req[h].sync \in Existing \cup {None},
               pc \in {"set", "canonical"} => req[h].sync \in Existing,
               pc = "read" => req[h].phase # "repair"
        PROVE  req'[h] \in Request /\ Sound(req'[h], Existing)
    <2>1. /\ Goes(h, pc) /\ req'[h].replacement = req[h].replacement
          /\ req'[h].target = req[h].target /\ req'[h].phase = req[h].phase
          /\ req'[h].sync = req[h].sync
      BY <1>3 DEF Continues, Read, Aims
    <2>. QED
      BY <1>2, <1>3, <2>1
  <1>4. ASSUME req[h].pc \in Aligning, Finishes(h)
        PROVE  req'[h] \in Request /\ Sound(req'[h], Existing)
    BY <1>1, <1>3, <1>4 DEF Finishes, Aligning, At
  <1>5. CASE CreatePolicy(h) \/ Activate(h)
    BY <1>1, <1>5, PolicyWrites
  <1>6. CASE SaveOverride(h)
    BY <1>1, <1>6, Went DEF SaveOverride
  <1>7. CASE Deactivate(h)
    <2>1. Continues(h, "clear_overrides") /\ At(h, "deactivate")
      BY <1>7, PolicyWrites DEF Deactivate
    <2>. QED
      BY <1>0, <1>3, <2>1 DEF Sound, At, Clearing, Aligning
  <1>8. CASE ClearOverrides(h)
    <2>1. Continues(h, "clear_pointer") /\ At(h, "clear_overrides")
      BY <1>8, Proceeds DEF ClearOverrides, PCs, Clearing
    <2>. QED
      BY <1>0, <1>3, <2>1 DEF Sound, At, Clearing, Aligning
  <1>9. CASE ClearPointer(h)
    <2>1. /\ At(h, "clear_pointer") /\ req[h].op = "deactivate" /\ req[h].replacement # req[h].id
          /\ req[h].replacement \in Id /\ ~At(h, "idle") /\ ~At(h, "override")
      BY <1>0, <1>9 DEF ClearPointer, Sound, At, Clearing, Request
    <2>. QED
      BY <1>9, <2>1, AlignSteps, SoundApplies, SoundRepairs
  <1>10. CASE CheckTarget(h)
    <2>1. At(h, "target") /\ req[h].sync = req[h].target
      BY <1>0, <1>10 DEF CheckTarget, Sound, At
    <2>2. Quits(h) \/ (req[h].target \in Active /\ Continues(h, "point"))
      BY <1>10, AlignSteps
    <2>. QED
      BY <1>1, <1>3, <2>1, <2>2 DEF At, Clearing, Aligning, Active
  <1>11. CASE SetPointer(h)
    <2>1. At(h, "point") /\ req[h].sync \in Existing \cup {None} /\ Continues(h, "unset")
      BY <1>0, <1>11, Proceeds DEF SetPointer, Sound, At, PCs, Aligning
    <2>. QED
      BY <1>3, <2>1 DEF At, Clearing, Aligning
  <1>12. CASE UnsetFlags(h)
    <2>1. At(h, "unset") /\ req[h].sync \in Existing \cup {None}
      BY <1>0, <1>12 DEF UnsetFlags, Sound, At
    <2>2. \/ Finishes(h)
          \/ req[h].sync # None /\ Continues(h, "set")
      BY <1>12, AlignSteps
    <2>. QED
      BY <1>3, <1>4, <2>1, <2>2 DEF At, Clearing, Aligning
  <1>13. CASE SetFlag(h)
    <2>1. At(h, "set") /\ Finishes(h)
      BY <1>13, AlignSteps DEF SetFlag
    <2>. QED
      BY <1>4, <2>1 DEF At, Aligning
  <1>14. CASE ReadBack(h)
    <2>1. At(h, "read") /\ req[h].phase # "repair"
      BY <1>0, <1>14 DEF ReadBack, Sound, At
    <2>2. CASE /\ Goes(h, "repair") /\ Read(req'[h], req[h])
               /\ req'[h].target = req[h].target /\ req'[h].phase = "fix"
      BY <1>2, <2>1, <2>2 DEF At, Clearing, Aligning, Read
    <2>. QED
      BY <1>1, <1>14, <2>2, AlignSteps
  <1>15. CASE ReadPointer(h)
    <2>. DEFINE pc == IF pointer = None THEN "unset" ELSE "canonical"
    <2>1. /\ At(h, "repair") /\ pc \in {"unset", "canonical"}
          /\ pc = "canonical" => pointer # None
      BY <1>15 DEF ReadPointer
    <2>2. /\ Goes(h, pc) /\ req'[h].replacement = req[h].replacement
          /\ req'[h].target = req[h].target /\ req'[h].phase = req[h].phase
          /\ req'[h].sync = pointer
      BY <1>15, AlignSteps DEF Read, Aims
    <2>. HIDE DEF pc
    <2>. QED
      BY <1>0, <1>2, <2>1, <2>2 DEF At, Clearing, Aligning
  <1>16. CASE CheckCanonical(h)
    <2>1. At(h, "canonical") /\ req[h].sync \in Existing
      BY <1>0, <1>16 DEF CheckCanonical, Sound, At
    <2>2. Continues(h, "unset") \/ Continues(h, "clear")
      BY <1>16, AlignSteps
    <2>. QED
      BY <1>3, <2>1, <2>2 DEF At, Clearing, Aligning
  <1>17. CASE ClearCanonical(h)
    <2>1. /\ At(h, "clear") /\ Goes(h, "unset") /\ req'[h].replacement = req[h].replacement
          /\ req'[h].target = req[h].target /\ req'[h].phase = req[h].phase
          /\ req'[h].sync = None
      BY <1>17, AlignSteps DEF ClearCanonical, Read, Aims
    <2>. QED
      BY <1>2, <2>1 DEF At, Clearing, Aligning
  <1>18. CASE Fail(h)
    <2>1. CASE req[h].pc = "point" /\ Continues(h, "unset")
      <3>1. req[h].sync \in Existing \cup {None}
        BY <1>0, <2>1 DEF Sound
      <3>. QED
        BY <1>3, <2>1, <3>1 DEF At, Clearing, Aligning
    <2>2. CASE /\ req[h].pc \in {"unset", "set", "repair", "canonical", "clear"}
               /\ req[h].phase # "repair" /\ Continues(h, "read")
      BY <1>3, <2>2 DEF At, Clearing, Aligning
    <2>. QED
      BY <1>1, <1>18, <2>1, <2>2, AlignSteps
  <1>. QED
    BY <1>5, <1>6, <1>7, <1>8, <1>9, <1>10, <1>11, <1>12, <1>13, <1>14, <1>15, <1>16,
       <1>17, <1>18 DEF Handle

LEMMA TypeStep ==
    ASSUME TypeInv, NEW h \in Handlers, Handle(h)
    PROVE  TypeInv'
  <1>1. req'[h] \in Request /\ Sound(req'[h], Existing)
    <2>1. CASE Begin(h)
      BY <2>1, BeginStep
    <2>. QED
      BY <2>1, SoundLoads, SoundAligns
  <1>2. req' \in [Handlers -> Request]
    <2>1. CASE Begin(h)
      BY <2>1, BeginStep
    <2>. QED
      BY <1>1, <2>1, OthersWait
  <1>3. \A g \in Handlers : Sound(req'[g], Existing')
    <2>1. TAKE g \in Handlers
    <2>2. CASE g = h
      <3>1. Same(req'[h], req'[h])
        BY DEF Same, Read, Aims
      <3>. QED
        BY <1>1, <2>2, <3>1, StoreType, SoundGrows
    <2>3. CASE g # h
      <3>1. Same(req'[g], req[g]) /\ Sound(req[g], Existing)
        BY <2>3, Others DEF TypeInv
      <3>. QED
        BY <3>1, StoreType, SoundGrows
    <2>. QED
      BY <2>2, <2>3
  <1>4. \A g \in Handlers :
          /\ req'[g].pc \in {"set", "canonical"} => req'[g].sync \in Existing'
          /\ req'[g].pc = "point" => req'[g].target \in Existing' \cup {None}
    BY <1>3 DEF Sound
  <1>5. TypeOK'
    BY <1>2, <1>4, StoreType DEF TypeOK
  <1>. QED
    BY <1>3, <1>5 DEF TypeInv
----------------------------------------------------------------------------
(* Requests that run alone. *)

(* What a request keeps over its step: unless it ends, that it is alone,   *)
(* and what it is for.                                                     *)
LEMMA Keeps ==
    ASSUME TypeInv, NEW h \in Handlers, Handle(h), ~Begin(h)
    PROVE  /\ ~At(h, "idle")
           /\ \/ Quits(h) \/ Answers(h)
              \/ Kept(req'[h], req[h]) /\ last' = NoAnswer
  <1>2. (\E pc : Goes(h, pc)) => Kept(req'[h], req[h]) /\ last' = NoAnswer
    BY DEF Goes
  <1>3. (\E pc : Continues(h, pc)) => \E pc : Goes(h, pc)
    BY DEF Continues
  <1>4. (\E p : Applies(h, p)) \/ Repairs(h) \/ Deactivates(h) => \E pc : Goes(h, pc)
    BY DEF Applies, Repairs, Deactivates
  <1>5. \/ Quits(h) \/ Answers(h) \/ (\E pc : Goes(h, pc)) \/ (\E pc : Continues(h, pc))
        \/ (\E p : Applies(h, p)) \/ Repairs(h) \/ Deactivates(h)
    <2>1. CASE Guard(h) \/ LoadWorkspace(h) \/ LoadPolicy(h) \/ LoadReplacement(h)
      BY <2>1, LoadSteps
    <2>2. CASE CreatePolicy(h) \/ Activate(h) \/ Deactivate(h)
      BY <2>2, PolicyWrites
    <2>3. CASE SaveOverride(h) \/ ClearOverrides(h) \/ SetPointer(h)
      BY <2>3, Went, Proceeds DEF SaveOverride, ClearOverrides, SetPointer, PCs, Clearing, Aligning
    <2>4. CASE \/ ClearPointer(h) \/ CheckTarget(h) \/ UnsetFlags(h) \/ SetFlag(h) \/ ReadBack(h)
               \/ ReadPointer(h) \/ CheckCanonical(h) \/ ClearCanonical(h) \/ Fail(h)
      BY <2>4, AlignSteps DEF Finishes
    <2>. QED
      BY <2>1, <2>2, <2>3, <2>4 DEF Handle
  <1>6. ~At(h, "idle")
    BY DEF Handle, Guard, CreatePolicy, LoadWorkspace, LoadPolicy, LoadReplacement, Activate,
           SaveOverride, Deactivate, ClearOverrides, ClearPointer, CheckTarget, SetPointer,
           UnsetFlags, SetFlag, ReadBack, ReadPointer, CheckCanonical, ClearCanonical, Fail, At
  <1>. QED
    BY <1>2, <1>3, <1>4, <1>5, <1>6

LEMMA AloneStep ==
    ASSUME TypeInv, RunsAlone, NEW h \in Handlers, Handle(h)
    PROVE  RunsAlone'
  <1>1. SUFFICES ASSUME NEW k \in Handlers, NEW g \in Handlers, req'[k].alone,
                        req'[k].pc # "idle", req'[g].pc # "idle"
                 PROVE  g = k
    BY DEF RunsAlone, At
  <1>2. CASE Begin(h)
    <2>1. CASE k = h
      <3>1. Busy = {}
        BY <1>1, <1>2, <2>1, BeginStep
      <3>2. ASSUME g # h PROVE g \in Busy
        BY <1>1, <3>2, Others DEF Busy, At, Same
      <3>. QED
        BY <2>1, <3>1, <3>2
    <2>2. CASE k # h
      BY <1>1, <1>2, <2>2, Others DEF At, Same
    <2>. QED
      BY <2>1, <2>2
  <1>3. CASE ~Begin(h)
    <2>1. ASSUME NEW j \in Handlers, req'[j].pc # "idle"
          PROVE  ~At(j, "idle") /\ (req'[j].alone => req[j].alone)
      <3>1. CASE j = h
        BY <1>3, <2>1, <3>1, Keeps DEF Kept, Idle, Quits, Answers
      <3>2. CASE j # h
        BY <2>1, <3>2, Others DEF Same, At
      <3>. QED
        BY <3>1, <3>2
    <2>. QED
      BY <1>1, <2>1 DEF RunsAlone
  <1>. QED
    BY <1>2, <1>3

(* Only the request that takes the step can be alone and under way.        *)
LEMMA LoneStep ==
    ASSUME TypeInv, RunsAlone, LoneAchieves, NEW h \in Handlers, Handle(h),
           req'[h].alone => Achieved(req[h])'
    PROVE  LoneAchieves'
  <1>1. SUFFICES ASSUME NEW g \in Handlers \ {h}, req'[g].alone
                 PROVE  Achieved(req[g])'
    BY DEF LoneAchieves
  <1>2. req'[g].pc = "idle"
    <2>1. CASE Begin(h)
      BY <1>1, <2>1, Others DEF At, Same
    <2>2. CASE ~Begin(h)
      BY <1>1, <2>2, Others, Keeps DEF RunsAlone, At, Same
    <2>. QED
      BY <2>1, <2>2
  <1>. QED
    BY <1>2 DEF Achieved, Aligning

(* What it achieves in its step.                                           *)
LEMMA AchievesIdle ==
    ASSUME NEW h \in Handlers, req'[h] = Idle PROVE Achieved(req[h])'
  BY DEF Achieved, Idle, Aligning

LEMMA AchievesLoads ==
    ASSUME TypeInv, NEW h \in Handlers, req[h].alone => Achieved(req[h]), req'[h].alone,
           Begin(h) \/ Guard(h) \/ LoadWorkspace(h) \/ LoadPolicy(h) \/ LoadReplacement(h)
    PROVE  Achieved(req[h])'
  <1>0. /\ Reading(h) /\ UNCHANGED <<policy, pointer>>
        /\ Active' = Active
        /\ Sound(req[h], Existing) /\ req[h].id \in Id
    <2>1. Reading(h)
      BY DEF Reading
    <2>. QED
      BY <2>1, Reads, PolicyWrites DEF TypeInv, TypeOK, Request
  <1>1. ASSUME NEW pc \in {"guard", "insert", "workspace", "policy", "activate"}, req'[h].pc = pc
        PROVE  Achieved(req[h])'
    BY <1>1 DEF Achieved, Aligning
  <1>2. CASE Begin(h)
    <2>1. req'[h].pc = "guard" \/ (req'[h].pc = "override" /\ req'[h].id = None)
      BY <1>2, BeginStep
    <2>2. CASE req'[h].pc = "override" /\ req'[h].id = None
      BY <2>2 DEF Achieved, Aligning
    <2>. QED
      BY <1>1, <2>1, <2>2
  <1>3. CASE Guard(h)
    <2>1. Quits(h) \/ Goes(h, "insert") \/ Goes(h, "workspace") \/ Goes(h, "policy")
      BY <1>3, LoadSteps DEF Continues
    <2>2. req'[h] = Idle \/ req'[h].pc \in {"insert", "workspace", "policy"}
      BY <2>1 DEF Quits, Goes
    <2>. QED
      BY <1>1, <2>2, AchievesIdle
  <1>4. CASE LoadWorkspace(h)
    <2>1. req'[h].pc = "policy"
      BY <1>4, LoadSteps DEF Goes
    <2>. QED
      BY <1>1, <2>1
  (* A deactivation that goes on has read whether its policy is active.    *)
  <1>5. ASSUME req[h].op = "deactivate", req[h].id \in Policies, Deactivates(h),
               policy[req[h].id].isActive <=> req'[h].pc = "deactivate",
               req'[h].pc = "deactivate" => req'[h].loaded = policy[req[h].id]
        PROVE  Achieved(req[h])'
    <2>1. req'[h].id = req[h].id /\ req'[h].op = "deactivate"
      BY <1>5 DEF Deactivates, Applies, Repairs, Goes, Kept
    <2>2. CASE req'[h].pc = "deactivate"
      <3>1. req'[h].loaded = policy'[req'[h].id]
        BY <1>0, <1>5, <2>1, <2>2
      <3>. QED
        BY <2>2, <3>1 DEF Achieved, Aligning
    <2>3. CASE req'[h].pc # "deactivate"
      <3>1. req'[h].id \notin Active'
        BY <1>0, <1>5, <2>1, <2>3 DEF Active
      <3>2. \/ req'[h].pc = "point" /\ req'[h].sync = None
            \/ req'[h].pc \in {"target", "repair"}
        BY <1>5, <2>3 DEF Deactivates, Applies, Repairs, Goes
      <3>. QED
        BY <3>1, <3>2 DEF Achieved, Aligning
    <2>. QED
      BY <2>2, <2>3
  <1>6. CASE LoadPolicy(h)
    <2>0. req[h].id \in Policies
      BY <1>0, <1>6 DEF LoadPolicy, At, Sound
    <2>1. CASE Quits(h) \/ Answers(h)
      BY <2>1, AchievesIdle DEF Quits, Answers
    <2>2. CASE Goes(h, "activate")
      BY <1>1, <2>2 DEF Goes
    <2>3. CASE /\ req[h].op = "deactivate" /\ Deactivates(h)
               /\ policy[req[h].id].isActive <=> req'[h].pc = "deactivate"
               /\ req'[h].pc = "deactivate" => req'[h].loaded = policy[req[h].id]
      BY <1>5, <2>0, <2>3
    <2>4. CASE /\ req[h].op = "deactivate" /\ Goes(h, "replacement")
               /\ req'[h].loaded = policy[req[h].id]
      <3>1. req'[h].pc = "replacement" /\ req'[h].loaded = policy'[req'[h].id]
        BY <1>0, <2>4 DEF Goes, Kept
      <3>. QED
        BY <3>1 DEF Achieved, Aligning
    <2>5. CASE req[h].op = "default" /\ req[h].id \in Active /\ Applies(h, req[h].id)
      <3>1. req'[h].pc = "target" /\ req'[h].op = "default"
        BY <2>0, <2>5, PoliciesAssumption DEF Applies, Goes, Kept
      <3>. QED
        BY <3>1 DEF Achieved, Aligning
    <2>6. CASE req[h].op = "assign" /\ req[h].id \in Active /\ Goes(h, "override")
      <3>1. req'[h].pc = "override" /\ req'[h].id \in Active'
        BY <1>0, <2>6 DEF Goes, Kept
      <3>. QED
        BY <3>1 DEF Achieved, Aligning
    <2>. QED
      BY <1>6, <2>1, <2>2, <2>3, <2>4, <2>5, <2>6, LoadSteps
  <1>7. CASE LoadReplacement(h)
    <2>1. CASE Quits(h)
      BY <2>1, AchievesIdle DEF Quits
    <2>2. CASE Deactivates(h)
      <3>1. req[h].alone /\ At(h, "replacement") /\ req[h].op = "deactivate" /\ req[h].id \in Policies
        <4>1. req'[h].alone = req[h].alone
          BY <2>2 DEF Deactivates, Applies, Repairs, Goes, Kept
        <4>. QED
          BY <1>0, <1>7, <4>1 DEF LoadReplacement, At, Sound, Clearing
      <3>2. req[h].loaded = policy[req[h].id]
        BY <3>1 DEF Achieved, At
      <3>3. /\ req[h].loaded.isActive <=> req'[h].pc = "deactivate"
            /\ req'[h].pc = "deactivate" => req'[h].loaded = req[h].loaded
        <4>1. ~Quits(h)
          BY <2>2, <3>1 DEF Quits, Deactivates, Applies, Repairs, Goes, Kept, Idle
        <4>. QED
          BY <1>7, <4>1, LoadSteps
      <3>. QED
        BY <1>5, <2>2, <3>1, <3>2, <3>3
    <2>. QED
      BY <1>7, <2>1, <2>2, LoadSteps
  <1>. QED
    BY <1>2, <1>3, <1>4, <1>6, <1>7

LEMMA AchievesAligns ==
    ASSUME TypeInv, NEW h \in Handlers, req[h].alone => Achieved(req[h]), req'[h].alone,
           Handle(h), ~Begin(h),
           ~(Guard(h) \/ LoadWorkspace(h) \/ LoadPolicy(h) \/ LoadReplacement(h))
    PROVE  Achieved(req[h])'
  <1>0. /\ Sound(req[h], Existing)
        /\ policy' = policy => Active' = Active /\ Defaults' = Defaults
    BY PolicyWrites DEF TypeInv
  <1>1. ASSUME Quits(h) \/ Answers(h) PROVE Achieved(req[h])'
    BY <1>1, AchievesIdle DEF Quits, Answers
  <1>2. ASSUME NEW pc, Goes(h, pc)
        PROVE  /\ req'[h].pc = pc /\ req'[h].id = req[h].id /\ req'[h].op = req[h].op
               /\ Achieved(req[h])
    BY <1>2 DEF Goes, Kept
  <1>3. ASSUME NEW pc, Continues(h, pc)
        PROVE  /\ req'[h].pc = pc /\ req'[h].id = req[h].id /\ req'[h].op = req[h].op
               /\ Achieved(req[h])
               /\ req'[h].sync = req[h].sync /\ req'[h].target = req[h].target
               /\ req'[h].phase = req[h].phase
    BY <1>2, <1>3 DEF Continues, Aims
  (* What is read back, or repaired next, is done by a request whose policy *)
  (* is still inactive when it deactivates it.                             *)
  <1>4. ASSUME Achieved(req[h]), req[h].pc \in Aligning, req'[h].pc \in {"read", "repair", "clear"},
               req'[h].id = req[h].id, req'[h].op = req[h].op, Active' \subseteq Active
        PROVE  Achieved(req[h])'
    BY <1>4 DEF Achieved, Aligning
  <1>5. CASE CreatePolicy(h) \/ Activate(h)
    BY <1>1, <1>5, PolicyWrites
  <1>6. CASE SaveOverride(h)
    BY <1>1, <1>6, Went DEF SaveOverride
  <1>7. CASE Deactivate(h)
    <2>1. req'[h].pc = "clear_overrides" /\ req'[h].id = req[h].id /\ Active' = Active \ {req[h].id}
      BY <1>3, <1>7, PolicyWrites
    <2>. QED
      BY <2>1 DEF Achieved, Aligning
  <1>8. CASE ClearOverrides(h)
    <2>1. Continues(h, "clear_pointer") /\ At(h, "clear_overrides") /\ policy' = policy
      BY <1>8, Proceeds DEF ClearOverrides, PCs, Clearing
    <2>2. req'[h].pc = "clear_pointer" /\ req'[h].id \notin Active'
      BY <1>0, <1>3, <2>1 DEF Achieved, At
    <2>. QED
      BY <2>2 DEF Achieved, Aligning
  <1>9. CASE ClearPointer(h)
    <2>1. At(h, "clear_pointer") /\ policy' = policy
      BY <1>9 DEF ClearPointer
    <2>2. CASE Applies(h, req[h].replacement)
      <3>1. \/ req'[h].pc = "point" /\ req'[h].sync = None
            \/ req'[h].pc = "target"
        BY <2>2 DEF Applies, Goes
      <3>2. req'[h].id = req[h].id /\ Achieved(req[h])
        BY <1>2, <2>2 DEF Applies
      <3>3. req'[h].id \notin Active'
        BY <1>0, <2>1, <3>2 DEF Achieved, At
      <3>. QED
        BY <3>1, <3>3 DEF Achieved, Aligning
    <2>3. CASE Repairs(h)
      <3>1. req'[h].pc = "repair" /\ req'[h].id = req[h].id /\ Achieved(req[h])
        BY <1>2, <2>3 DEF Repairs
      <3>2. req'[h].id \notin Active'
        BY <1>0, <2>1, <3>1 DEF Achieved, At
      <3>. QED
        BY <3>1, <3>2 DEF Achieved, Aligning
    <2>. QED
      BY <1>9, <2>2, <2>3, AlignSteps
  <1>10. CASE CheckTarget(h)
    <2>1. At(h, "target") /\ req[h].sync = req[h].target /\ policy' = policy
      BY <1>0, <1>10 DEF CheckTarget, Sound, At
    <2>2. CASE req[h].target \in Active /\ Continues(h, "point")
      <3>1. /\ req'[h].pc = "point" /\ req'[h].sync \in Active'
            /\ req'[h].op = "deactivate" => req'[h].id \notin Active'
        BY <1>0, <1>3, <2>1, <2>2 DEF Achieved, At, Aligning
      <3>. QED
        BY <3>1 DEF Achieved, Aligning
    <2>. QED
      BY <1>1, <1>10, <2>2, AlignSteps
  <1>11. CASE SetPointer(h)
    <2>1. /\ At(h, "point") /\ req[h].phase = "apply" /\ Continues(h, "unset") /\ policy' = policy
      BY <1>0, <1>11, Proceeds DEF SetPointer, Sound, At, PCs, Aligning
    <2>2. /\ req'[h].pc = "unset" /\ req'[h].sync \in Active' \cup {None} /\ req'[h].phase = "apply"
          /\ req'[h].op = "deactivate" => req'[h].id \notin Active'
      BY <1>0, <1>3, <2>1 DEF Achieved, At, Aligning
    <2>. QED
      BY <2>2 DEF Achieved, Aligning
  <1>12. CASE UnsetFlags(h)
    <2>1. /\ At(h, "unset") /\ Active' = Active /\ Defaults' = Defaults \cap {req[h].sync}
          /\ pointer' = pointer
      BY <1>12, PolicyWrites DEF UnsetFlags
    <2>2. CASE Continues(h, "read")
      BY <1>3, <1>4, <2>1, <2>2 DEF At, Aligning
    <2>3. CASE req[h].sync # None /\ Continues(h, "set")
      <3>1. /\ req'[h].pc = "set" /\ req'[h].sync \in Active' /\ Defaults' \subseteq {req'[h].sync}
            /\ req'[h].op = "deactivate" => req'[h].id \notin Active'
            /\ req'[h].phase = "repair" => pointer' = req'[h].sync
        BY <1>3, <2>1, <2>3 DEF Achieved, At, Aligning
      <3>. QED
        BY <3>1 DEF Achieved, Aligning
    <2>. QED
      BY <1>1, <1>12, <2>2, <2>3, AlignSteps DEF Finishes
  <1>13. CASE SetFlag(h)
    <2>1. At(h, "set") /\ Active' = Active \cup {req[h].sync} /\ Finishes(h)
      BY <1>13, PolicyWrites, AlignSteps DEF SetFlag
    <2>2. CASE Continues(h, "read")
      <3>1. Achieved(req[h]) /\ req[h].sync \in Active
        BY <1>3, <2>1, <2>2 DEF Achieved, At
      <3>. QED
        BY <1>3, <1>4, <2>1, <2>2, <3>1 DEF At, Aligning
    <2>. QED
      BY <1>1, <2>1, <2>2 DEF Finishes
  <1>14. CASE ReadBack(h)
    <2>1. At(h, "read") /\ policy' = policy
      BY <1>14 DEF ReadBack
    <2>2. CASE Goes(h, "repair")
      BY <1>0, <1>2, <1>4, <2>1, <2>2 DEF At, Aligning
    <2>. QED
      BY <1>1, <1>14, <2>2, AlignSteps
  <1>15. CASE ReadPointer(h)
    <2>. DEFINE pc == IF pointer = None THEN "unset" ELSE "canonical"
    <2>1. /\ At(h, "repair") /\ policy' = policy /\ pointer' = pointer
          /\ pc \in {"unset", "canonical"} /\ (pc = "unset" => pointer = None)
      BY <1>15 DEF ReadPointer
    <2>2. Goes(h, pc) /\ req'[h].sync = pointer
      BY <1>15, AlignSteps
    <2>. HIDE DEF pc
    <2>3. /\ req'[h].pc = pc
          /\ req'[h].op = "deactivate" => req'[h].id \notin Active'
      BY <1>0, <1>2, <2>1, <2>2 DEF Achieved, At, Aligning
    <2>. QED
      BY <2>1, <2>2, <2>3 DEF Achieved, Aligning
  <1>16. CASE CheckCanonical(h)
    <2>1. At(h, "canonical") /\ policy' = policy /\ pointer' = pointer
      BY <1>16 DEF CheckCanonical
    <2>2. CASE req[h].sync \in Active /\ Continues(h, "unset")
      <3>1. /\ req'[h].pc = "unset" /\ req'[h].sync \in Active'
            /\ req'[h].op = "deactivate" => req'[h].id \notin Active'
            /\ req'[h].phase = "repair" => pointer' = req'[h].sync
        BY <1>0, <1>3, <2>1, <2>2 DEF Achieved, At, Aligning
      <3>. QED
        BY <3>1 DEF Achieved, Aligning
    <2>3. CASE Continues(h, "clear")
      BY <1>0, <1>3, <1>4, <2>1, <2>3 DEF At, Aligning
    <2>. QED
      BY <1>16, <2>2, <2>3, AlignSteps
  <1>17. CASE ClearCanonical(h)
    <2>1. /\ At(h, "clear") /\ policy' = policy /\ pointer' = None
          /\ Goes(h, "unset") /\ req'[h].sync = None
      BY <1>17, AlignSteps DEF ClearCanonical
    <2>2. /\ req'[h].pc = "unset"
          /\ req'[h].op = "deactivate" => req'[h].id \notin Active'
      BY <1>0, <1>2, <2>1 DEF Achieved, At, Aligning
    <2>. QED
      BY <2>1, <2>2 DEF Achieved, Aligning
  <1>18. CASE Fail(h)
    <2>1. policy' = policy /\ pointer' = pointer
      BY <1>18 DEF Fail
    <2>2. CASE req[h].pc = "point" /\ Continues(h, "unset")
      <3>1. req[h].phase = "apply"
        BY <1>0, <2>2 DEF Sound
      <3>2. /\ req'[h].pc = "unset" /\ req'[h].sync \in Active' \cup {None}
            /\ req'[h].phase = "apply"
            /\ req'[h].op = "deactivate" => req'[h].id \notin Active'
        BY <1>0, <1>3, <2>1, <2>2, <3>1 DEF Achieved, Aligning
      <3>. QED
        BY <3>2 DEF Achieved, Aligning
    <2>3. CASE /\ req[h].pc \in {"unset", "set", "repair", "canonical", "clear"}
               /\ Continues(h, "read")
      BY <1>0, <1>3, <1>4, <2>1, <2>3 DEF Aligning
    <2>. QED
      BY <1>1, <1>18, <2>2, <2>3, AlignSteps
  <1>. QED
    BY <1>5, <1>6, <1>7, <1>8, <1>9, <1>10, <1>11, <1>12, <1>13, <1>14, <1>15, <1>16,
       <1>17, <1>18 DEF Handle
----------------------------------------------------------------------------
(* What is put right. *)

(* Which policies a step leaves active: only a deactivation takes one away.*)
LEMMA ActiveStep ==
    ASSUME TypeInv, NEW h \in Handlers, Handle(h)
    PROVE  /\ ~Deactivate(h) => Active \subseteq Active'
           /\ Deactivate(h) => Active' = Active \ {req[h].id}
           /\ SetFlag(h) => Active' = Active \cup {req[h].sync}
           /\ \A p \in Existing \ Active : p \in Active' =>
                \/ Activate(h) /\ p = req[h].id
                \/ SetFlag(h) /\ p = req[h].sync
  <1>1. CASE policy' = policy
    <2>1. Active' = Active
      BY <1>1, PolicyWrites
    <2>2. ~Deactivate(h) \/ Active' = Active \ {req[h].id}
      BY PolicyWrites
    <2>3. ~SetFlag(h) \/ Active' = Active \cup {req[h].sync}
      BY PolicyWrites
    <2>. QED
      BY <2>1, <2>2, <2>3
  <1>2. CASE CreatePolicy(h) \/ Activate(h) \/ Deactivate(h) \/ UnsetFlags(h) \/ SetFlag(h)
    <2>1. Deactivate(h) => ~SetFlag(h) /\ ~CreatePolicy(h) /\ ~Activate(h) /\ ~UnsetFlags(h)
      BY DEF Deactivate, SetFlag, CreatePolicy, Activate, UnsetFlags, At
    <2>. QED
      BY <1>1, <1>2, <2>1, PolicyWrites
  <1>3. CASE Reading(h)
    BY <1>1, <1>3, Reads
  <1>4. CASE SaveOverride(h) \/ ClearOverrides(h) \/ ClearPointer(h) \/ SetPointer(h)
    BY <1>1, <1>4 DEF SaveOverride, ClearOverrides, ClearPointer, SetPointer
  <1>5. CASE ClearCanonical(h) \/ Fail(h)
    BY <1>1, <1>5 DEF ClearCanonical, Fail
  <1>. QED
    BY <1>2, <1>3, <1>4, <1>5 DEF Handle, Reading

(* What a request does next that does not fail.                            *)
LEMMA Awaits ==
    ASSUME NEW h \in Handlers, Handle(h), ~Fail(h)
    PROVE  /\ At(h, "clear_overrides") => ClearOverrides(h)
           /\ At(h, "clear_pointer") => ClearPointer(h)
           /\ At(h, "unset") => UnsetFlags(h)
           /\ At(h, "set") => SetFlag(h)
  BY DEF At, Handle, Begin, Guard, CreatePolicy, LoadWorkspace, LoadPolicy, LoadReplacement,
         Activate, SaveOverride, Deactivate, ClearOverrides, ClearPointer, CheckTarget, SetPointer,
         UnsetFlags, SetFlag, ReadBack, ReadPointer, CheckCanonical, ClearCanonical

(* As long as there has been no fault, there was none before.              *)
LEMMA NoFaults ==
    ASSUME TypeInv, NEW h \in Handlers, Handle(h), faults' = 0
    PROVE  faults = 0 /\ ~Fail(h)
  <1>1. faults \in Nat
    BY PoliciesAssumption DEF TypeInv, TypeOK
  <1>2. ~Fail(h)
    BY <1>1 DEF Fail
  <1>3. CASE Reading(h)
    BY <1>2, <1>3, Reads
  <1>4. CASE CreatePolicy(h) \/ Activate(h) \/ Deactivate(h) \/ UnsetFlags(h) \/ SetFlag(h)
    BY <1>2, <1>4 DEF CreatePolicy, Activate, Deactivate, UnsetFlags, SetFlag
  <1>5. CASE \/ SaveOverride(h) \/ ClearOverrides(h) \/ ClearPointer(h) \/ SetPointer(h)
             \/ ClearCanonical(h)
    BY <1>2, <1>5 DEF SaveOverride, ClearOverrides, ClearPointer, SetPointer, ClearCanonical
  <1>. QED
    BY <1>2, <1>3, <1>4, <1>5 DEF Handle, Reading

LEMMA DefaultStep ==
    ASSUME TypeInv, DefaultMends, NEW h \in Handlers, Handle(h)
    PROVE  DefaultMends'
  <1>. DEFINE Mends(k, p) ==
                \/ req[k].pc \in {"clear_overrides", "clear_pointer"} /\ req[k].id = p
                \/ req[k].pc \in {"unset", "set"} /\ req[k].sync = p
  <1>1. SUFFICES ASSUME faults' = 0, pointer' # None, pointer' \notin Active'
                 PROVE  \E k \in Handlers : Mends(k, pointer)'
    BY DEF DefaultMends
  <1>2. Sound(req[h], Existing)
    BY DEF TypeInv
  <1>3. faults = 0 /\ ~Fail(h)
    BY <1>1, NoFaults
  <1>4. ASSUME NEW k \in Handlers \ {h}, Mends(k, pointer), pointer' = pointer
        PROVE  Mends(k, pointer)'
    BY <1>4, Others DEF Same
  <1>5. CASE SetPointer(h)
    <2>1. /\ At(h, "point") /\ req[h].sync = req[h].target /\ pointer' = req[h].target
          /\ Continues(h, "unset")
      BY <1>2, <1>5, Proceeds DEF SetPointer, Sound, At, PCs, Aligning
    <2>2. req'[h].pc = "unset" /\ req'[h].sync = pointer'
      BY <2>1 DEF Continues, Goes
    <2>. QED
      BY <2>2
  <1>6. CASE Deactivate(h)
    <2>1. Continues(h, "clear_overrides") /\ pointer' = pointer /\ Active' = Active \ {req[h].id}
      BY <1>6, PolicyWrites DEF Deactivate
    <2>2. CASE pointer = req[h].id
      BY <2>1, <2>2 DEF Continues, Goes, Kept
    <2>3. CASE pointer # req[h].id
      <3>1. PICK k \in Handlers : Mends(k, pointer)
        BY <1>1, <1>3, <2>1, <2>3 DEF DefaultMends
      <3>2. k # h
        BY <1>6, <3>1 DEF Deactivate, At
      <3>. QED
        BY <1>4, <2>1, <3>1, <3>2
    <2>. QED
      BY <2>2, <2>3
  <1>7. CASE ~SetPointer(h) /\ ~Deactivate(h)
    <2>1. pointer' = pointer
      <3>1. CASE ClearPointer(h) \/ ClearCanonical(h)
        BY <1>1, <3>1 DEF ClearPointer, ClearCanonical
      <3>2. CASE Reading(h)
        BY <3>2, Reads
      <3>3. CASE CreatePolicy(h) \/ Activate(h) \/ UnsetFlags(h) \/ SetFlag(h)
        BY <3>3 DEF CreatePolicy, Activate, UnsetFlags, SetFlag
      <3>4. CASE SaveOverride(h) \/ ClearOverrides(h)
        BY <3>4 DEF SaveOverride, ClearOverrides
      <3>. QED
        BY <1>3, <1>7, <3>1, <3>2, <3>3, <3>4 DEF Handle, Reading
    <2>2. PICK k \in Handlers : Mends(k, pointer)
      <3>1. pointer \notin Active
        BY <1>1, <1>7, <2>1, ActiveStep
      <3>. QED
        BY <1>1, <1>3, <2>1, <3>1 DEF DefaultMends
    <2>3. CASE k # h
      BY <1>4, <2>1, <2>2, <2>3
    <2>4. CASE k = h
      <3>1. CASE At(h, "clear_overrides") /\ req[h].id = pointer
        <4>1. ClearOverrides(h)
          BY <1>3, <3>1, Awaits
        <4>2. Continues(h, "clear_pointer")
          BY <4>1, Proceeds DEF ClearOverrides, PCs, Clearing
        <4>. QED
          BY <2>1, <3>1, <4>2 DEF Continues, Goes, Kept
      <3>2. CASE At(h, "clear_pointer") /\ req[h].id = pointer
        <4>1. ClearPointer(h)
          BY <1>3, <3>2, Awaits
        <4>. QED
          BY <1>1, <3>2, <4>1 DEF ClearPointer
      <3>3. CASE At(h, "unset") /\ req[h].sync = pointer
        <4>1. UnsetFlags(h)
          BY <1>3, <3>3, Awaits
        <4>2. Continues(h, "set")
          BY <1>1, <2>1, <3>3, <4>1, AlignSteps
        <4>. QED
          BY <2>1, <3>3, <4>2 DEF Continues, Goes
      <3>4. CASE At(h, "set") /\ req[h].sync = pointer
        <4>1. SetFlag(h)
          BY <1>3, <3>4, Awaits
        <4>. QED
          BY <1>1, <2>1, <3>4, <4>1, ActiveStep
      <3>. QED
        BY <2>2, <2>4, <3>1, <3>2, <3>3, <3>4 DEF At
    <2>. QED
      BY <2>3, <2>4
  <1>. QED
    BY <1>5, <1>6, <1>7

LEMMA OverrideStep ==
    ASSUME TypeInv, LoneAchieves, OverrideMends, NEW h \in Handlers, Handle(h)
    PROVE  OverrideMends'
  <1>1. SUFFICES ASSUME faults' = 0, NEW m \in Mailboxes \ stray', override'[m] # None,
                        override'[m] \notin Active'
                 PROVE  \E k \in Handlers : req'[k].pc = "clear_overrides" /\ req'[k].id = override'[m]
    BY DEF OverrideMends, At
  <1>2. /\ faults = 0 /\ ~Fail(h) /\ Sound(req[h], Existing)
        /\ override \in [Mailboxes -> Existing \cup {None}]
    BY <1>1, NoFaults DEF TypeInv, TypeOK
  (* Another request that clears this override still does.                 *)
  <1>3. ASSUME m \notin stray, override'[m] = override[m], override[m] \notin Active,
               At(h, "clear_overrides") => req[h].id # override[m]
        PROVE  \E k \in Handlers : req'[k].pc = "clear_overrides" /\ req'[k].id = override'[m]
    <2>1. PICK k \in Handlers : At(k, "clear_overrides") /\ req[k].id = override[m]
      BY <1>1, <1>2, <1>3 DEF OverrideMends
    <2>2. k # h
      BY <1>3, <2>1
    <2>. QED
      BY <1>3, <2>1, <2>2, Others DEF Same, At
  <1>4. CASE SaveOverride(h)
    <2>1. /\ override' = [override EXCEPT ![req[h].mailbox] = req[h].id] /\ policy' = policy
          /\ At(h, "override")
          /\ stray' = IF req[h].alone THEN stray \ {req[h].mailbox} ELSE stray \cup {req[h].mailbox}
      BY <1>4 DEF SaveOverride
    <2>2. Active' = Active
      BY <2>1, PolicyWrites
    <2>3. CASE m = req[h].mailbox
      <3>1. req[h].alone /\ override'[m] = req[h].id
        BY <1>1, <1>2, <2>1, <2>3
      <3>2. req[h].id \in Active \cup {None}
        BY <2>1, <3>1 DEF LoneAchieves, Achieved, At
      <3>. QED
        BY <1>1, <2>2, <3>1, <3>2
    <2>4. CASE m # req[h].mailbox
      <3>1. m \notin stray /\ override'[m] = override[m]
        BY <1>1, <1>2, <2>1, <2>4
      <3>. QED
        BY <1>1, <1>3, <2>1, <2>2, <3>1 DEF At
    <2>. QED
      BY <2>3, <2>4
  <1>5. CASE ClearOverrides(h)
    <2>1. /\ override' = [n \in Mailboxes |-> IF override[n] = req[h].id THEN None ELSE override[n]]
          /\ policy' = policy /\ stray' = stray
      BY <1>5 DEF ClearOverrides
    <2>2. Active' = Active
      BY <2>1, PolicyWrites
    <2>3. override'[m] = override[m] /\ override[m] # req[h].id
      BY <1>1, <2>1
    <2>. QED
      BY <1>1, <1>3, <2>1, <2>2, <2>3
  <1>6. CASE Deactivate(h)
    <2>1. /\ Continues(h, "clear_overrides") /\ At(h, "deactivate") /\ override' = override
          /\ stray' = stray /\ Active' = Active \ {req[h].id}
      BY <1>6, PolicyWrites DEF Deactivate
    <2>2. CASE override[m] = req[h].id
      BY <2>1, <2>2 DEF Continues, Goes, Kept
    <2>3. CASE override[m] # req[h].id
      BY <1>1, <1>3, <2>1, <2>3 DEF At
    <2>. QED
      BY <2>2, <2>3
  <1>7. CASE ~SaveOverride(h) /\ ~ClearOverrides(h) /\ ~Deactivate(h)
    <2>1. override' = override /\ stray' = stray
      <3>1. CASE Reading(h)
        BY <3>1, Reads
      <3>2. CASE CreatePolicy(h) \/ Activate(h) \/ UnsetFlags(h) \/ SetFlag(h)
        BY <3>2 DEF CreatePolicy, Activate, UnsetFlags, SetFlag
      <3>3. CASE ClearPointer(h) \/ SetPointer(h) \/ ClearCanonical(h)
        BY <3>3 DEF ClearPointer, SetPointer, ClearCanonical
      <3>. QED
        BY <1>2, <1>7, <3>1, <3>2, <3>3 DEF Handle, Reading
    <2>2. override[m] \notin Active /\ ~At(h, "clear_overrides")
      BY <1>1, <1>2, <1>7, <2>1, ActiveStep, Awaits
    <2>. QED
      BY <1>1, <1>3, <2>1, <2>2
  <1>. QED
    BY <1>4, <1>5, <1>6, <1>7
----------------------------------------------------------------------------
(* What a request that has run alone leaves behind. *)

LEMMA AnswerStep ==
    ASSUME TypeInv, LoneAchieves, NEW h \in Handlers, Handle(h)
    PROVE  LoneRequestAligns'
  <1>0. Sound(req[h], Existing) /\ pointer \in Existing \cup {None}
    BY DEF TypeInv, TypeOK
  <1>1. CASE last' = NoAnswer
    BY <1>1 DEF LoneRequestAligns, NoAnswer
  <1>2. CASE Begin(h)
    BY <1>1, <1>2, BeginStep
  <1>3. SUFFICES ASSUME ~Begin(h), Answers(h), req[h].alone,
                        req[h].op \in {"default", "deactivate"}
                 PROVE  LoneRequestAligns'
    <2>1. CASE Quits(h) \/ (Answers(h) /\ ~req[h].alone)
      BY <1>1, <2>1 DEF Quits, Answers
    <2>2. CASE Answers(h) /\ req[h].alone /\ req[h].op \notin {"default", "deactivate"}
      BY <2>2 DEF Answers, LoneRequestAligns
    <2>. QED
      BY <1>1, <1>2, <1>3, <2>1, <2>2, Keeps
  <1>4. /\ Achieved(req[h]) /\ last' = [op |-> req[h].op, id |-> req[h].id]
        /\ last' # NoAnswer
    BY <1>3 DEF LoneAchieves, Answers, NoAnswer
  (* It ends with pointer and flag in agreement.                           *)
  <1>5. ASSUME Consistent', req[h].op = "default" => pointer' = req[h].id,
               req[h].op = "deactivate" => req[h].id \notin Active' /\ pointer' # req[h].id
        PROVE  LoneRequestAligns'
    BY <1>4, <1>5 DEF LoneRequestAligns
  <1>6. ASSUME \/ Quits(h) \/ (\E pc : Goes(h, pc)) \/ (\E pc : Continues(h, pc))
               \/ (\E p : Applies(h, p)) \/ Repairs(h) \/ Deactivates(h)
        PROVE  FALSE
    BY <1>4, <1>6 DEF Quits, Goes, Continues, Applies, Repairs, Deactivates
  <1>7. CASE Guard(h) \/ LoadWorkspace(h) \/ LoadPolicy(h) \/ LoadReplacement(h)
    BY <1>3, <1>6, <1>7, LoadSteps
  <1>8. CASE CreatePolicy(h) \/ Activate(h) \/ SaveOverride(h)
    BY <1>0, <1>3, <1>8 DEF CreatePolicy, Activate, SaveOverride, At, Sound
  <1>9. CASE Deactivate(h) \/ ClearOverrides(h) \/ SetPointer(h)
    BY <1>6, <1>9, Proceeds DEF Deactivate, ClearOverrides, SetPointer, PCs, Clearing, Aligning
  <1>10. CASE \/ ClearPointer(h) \/ CheckTarget(h) \/ ReadPointer(h) \/ CheckCanonical(h)
              \/ ClearCanonical(h) \/ Fail(h)
    BY <1>6, <1>10, AlignSteps
  <1>11. CASE UnsetFlags(h)
    <2>1. /\ At(h, "unset") /\ pointer' = pointer /\ Active' = Active
          /\ Defaults' = Defaults \cap {req[h].sync}
      BY <1>11, PolicyWrites DEF UnsetFlags
    <2>2. req[h].sync = None /\ req[h].phase = "repair"
      BY <1>6, <1>11, AlignSteps DEF Finishes
    <2>3. pointer = None /\ req[h].op = "deactivate" /\ req[h].id \in Policies
          /\ req[h].id \notin Active
      BY <1>0, <1>3, <1>4, <2>1, <2>2 DEF Achieved, At, Sound, Aligning
    <2>4. Defaults' = {} /\ pointer' = None
      BY <2>1, <2>2, <2>3, PoliciesAssumption DEF Defaults, Existing
    <2>. QED
      BY <1>5, <2>1, <2>3, <2>4, PoliciesAssumption DEF Consistent
  <1>12. CASE SetFlag(h)
    <2>1. /\ At(h, "set") /\ pointer' = pointer /\ Active' = Active \cup {req[h].sync}
          /\ Defaults' = Defaults \cup {req[h].sync} /\ req[h].sync \in Existing
      BY <1>12, PolicyWrites DEF SetFlag
    <2>2. req[h].phase = "repair"
      BY <1>6, <1>12, AlignSteps DEF Finishes
    <2>3. /\ pointer = req[h].sync /\ req[h].op = "deactivate" /\ req[h].id \notin Active
          /\ req[h].sync \in Active /\ Defaults \subseteq {req[h].sync}
      BY <1>0, <1>3, <1>4, <2>1, <2>2 DEF Achieved, At, Sound, Aligning
    <2>4. pointer' \in Active' /\ Defaults' = {pointer'} /\ pointer' # None
      BY <2>1, <2>3, PoliciesAssumption DEF Existing
    <2>. QED
      BY <1>5, <2>1, <2>3, <2>4 DEF Consistent
  <1>13. CASE ReadBack(h)
    <2>1. At(h, "read") /\ UNCHANGED <<policy, pointer>> /\ req[h].phase # "repair"
      BY <1>0, <1>13 DEF ReadBack, At, Sound
    <2>2. Consistent /\ pointer = req[h].target
      BY <1>6, <1>13, AlignSteps
    <2>3. Consistent' /\ Active' = Active
      BY <2>1, <2>2, PolicyWrites DEF Consistent
    <2>4. /\ req[h].op = "default" => pointer = req[h].id
          /\ req[h].op = "deactivate" => req[h].id \notin Active /\ pointer # req[h].id
      BY <1>0, <1>3, <1>4, <2>1, <2>2 DEF Achieved, At, Sound, Aligning
    <2>. QED
      BY <1>5, <2>1, <2>3, <2>4
  <1>. QED
    BY <1>3, <1>7, <1>8, <1>9, <1>10, <1>11, <1>12, <1>13 DEF Handle
----------------------------------------------------------------------------
(* The theorems. *)

LEMMA InvInit == Init => Inv
  <1>. SUFFICES ASSUME Init PROVE Inv
    OBVIOUS
  <1>1. /\ policy \in [Policies -> PolicyDoc] /\ Existing = {}
        /\ \A p \in Policies : policy[p] = NoPolicy
    BY DEF Init, PolicyDoc, NoPolicy, Existing
  <1>2. \A h \in Handlers : req[h] = Idle
    BY DEF Init
  <1>3. /\ pointer = None /\ \A m \in Mailboxes : override[m] = None
        /\ override \in [Mailboxes -> Existing \cup {None}]
        /\ req \in [Handlers -> Request] /\ faults \in 0 .. MaxFaults
    BY IdleType, PoliciesAssumption DEF Init
  <1>4. Idle.pc = "idle"
    BY DEF Idle
  <1>5. TypeInv
    BY <1>1, <1>2, <1>3, <1>4, SoundIdle DEF TypeInv, TypeOK
  <1>6. RunsAlone /\ LoneAchieves
    BY <1>2, <1>4 DEF RunsAlone, LoneAchieves, Achieved, Aligning, At
  <1>7. DefaultMends /\ OverrideMends
    BY <1>3 DEF DefaultMends, OverrideMends
  <1>8. LoneRequestAligns
    BY DEF Init, LoneRequestAligns, NoAnswer
  <1>. QED
    BY <1>5, <1>6, <1>7, <1>8 DEF Inv

LEMMA InvStep == Inv /\ [Next]_vars => Inv'
  <1>. SUFFICES ASSUME Inv, [Next]_vars PROVE Inv'
    OBVIOUS
  <1>1. CASE Next
    <2>1. PICK h \in Handlers : Handle(h)
      BY <1>1 DEF Next
    <2>2. TypeInv /\ RunsAlone /\ LoneAchieves /\ DefaultMends /\ OverrideMends
      BY DEF Inv
    <2>3. TypeInv' /\ RunsAlone' /\ DefaultMends' /\ OverrideMends' /\ LoneRequestAligns'
      BY <2>1, <2>2, TypeStep, AloneStep, DefaultStep, OverrideStep, AnswerStep
    <2>4. req[h].alone => Achieved(req[h])
      BY <2>2 DEF LoneAchieves
    <2>5. req'[h].alone => Achieved(req[h])'
      BY <2>1, <2>2, <2>4, AchievesLoads, AchievesAligns
    <2>6. LoneAchieves'
      BY <2>1, <2>2, <2>5, LoneStep
    <2>. QED
      BY <2>3, <2>6 DEF Inv
  <1>2. CASE UNCHANGED vars
    BY <1>2 DEF vars, Inv, TypeInv, TypeOK, RunsAlone, LoneAchieves, Achieved, DefaultMends,
                OverrideMends, LoneRequestAligns, Consistent, Existing, Active, Defaults, At
  <1>. QED
    BY <1>1, <1>2

THEOREM Invariance == Spec => []Inv
  BY InvInit, InvStep, PTL DEF Spec

(* However set-defaults, assignments, activations and deactivations of     *)
(* policies overlap, fail and crash: a set-default or a deactivation that  *)
(* nothing overlaps leaves the pointer of the workspace and the flags of   *)
(* the policies in agreement; and as long as nothing has failed, once all  *)
(* requests have ended the default is an active policy, and so is every    *)
(* override that was not saved by an assignment another request overlapped.*)
THEOREM PoliciesStayAligned == Spec => []PoliciesAligned
  <1>1. Inv => PoliciesAligned
    <2>. SUFFICES ASSUME Inv PROVE PoliciesAligned
      OBVIOUS
    <2>1. ASSUME Busy = {}, faults = 0, pointer # None
          PROVE  pointer \in Active
      BY <2>1 DEF Inv, DefaultMends, Busy, At
    <2>2. ASSUME Busy = {}, faults = 0, NEW m \in Mailboxes \ stray
          PROVE  TicketPolicy(m) = Selection(m)
      <3>1. override[m] # None => override[m] \in Active
        BY <2>2 DEF Inv, OverrideMends, Busy, At
      <3>. QED
        BY <2>1, <2>2, <3>1 DEF TicketPolicy, Selection
    <2>. QED
      BY <2>1, <2>2 DEF Inv, TypeInv, PoliciesAligned, DefaultIsActive, SelectedIsApplied
  <1>. QED
    BY <1>1, Invariance, PTL

(* A deactivated policy becomes active again only by its activation, or    *)
(* because a request that makes it the default overlapped its deactivation:*)
(* no request that runs alone reactivates a policy by setting its flag.    *)
THEOREM OnlyActivationReactivates == Spec => OnlyActivationActivates
  <1>. DEFINE Reactivates ==
                \A p \in Existing \ Active :
                   policy'[p].isActive =>
                      \E h \in Handlers :
                         \/ At(h, "activate") /\ req[h].id = p
                         \/ At(h, "set") /\ req[h].sync = p /\ ~req[h].alone
  <1>1. ASSUME Inv, Next PROVE Reactivates
    <2>1. PICK h \in Handlers : Handle(h)
      BY <1>1 DEF Next
    <2>2. TypeInv /\ LoneAchieves
      BY <1>1 DEF Inv
    <2>. SUFFICES ASSUME NEW p \in Existing \ Active, policy'[p].isActive
                  PROVE  \/ At(h, "activate") /\ req[h].id = p
                         \/ At(h, "set") /\ req[h].sync = p /\ ~req[h].alone
      BY <2>1
    <2>3. p \in Active'
      BY <2>1, <2>2, StoreType DEF Active, Existing
    <2>4. CASE Activate(h) /\ p = req[h].id
      BY <2>4 DEF Activate
    <2>5. CASE SetFlag(h) /\ p = req[h].sync
      BY <2>2, <2>5 DEF SetFlag, LoneAchieves, Achieved, At
    <2>. QED
      BY <2>1, <2>2, <2>3, <2>4, <2>5, ActiveStep
  <1>. HIDE DEF Reactivates
  <1>2. Inv /\ [Next]_vars => [Reactivates]_vars
    BY <1>1
  <1>3. Spec => [][Reactivates]_vars
    BY <1>2, Invariance, PTL DEF Spec
  <1>. QED
    BY <1>3 DEF OnlyActivationActivates, Reactivates
=============================================================================
