----------------------------- MODULE SlaPolicies -----------------------------
(***************************************************************************)
(* The SLA policies of one workspace: the default policy, kept as a        *)
(* pointer in the workspace and as a flag on the policy, the overrides of  *)
(* mailboxes, and the deactivation that takes both away.  Requests overlap *)
(* and may fail at any await; an action is the code between two awaits.    *)
(*                                                                         *)
(* Sources: src/src/modules/sla/services/sla.service.js, and the override  *)
(* of a mailbox in mailboxes/services/mailboxes.service.js.                *)
(***************************************************************************)
EXTENDS Naturals, FiniteSets

CONSTANTS
    Policies,  \* bound on the policies created
    Mailboxes, \* the mailboxes of the workspace
    Handlers,  \* requests in flight at once
    MaxFaults  \* bound on the awaits that fail and the requests that crash

None == "none"

ASSUME PoliciesAssumption ==
    MaxFaults \in Nat /\ None \notin Policies /\ None \notin Mailboxes

Id == Policies \cup {None}
PolicyDoc == [exists : BOOLEAN, isActive : BOOLEAN, isDefault : BOOLEAN]

VARIABLES
    policy,   \* the policy documents
    pointer,  \* defaultSlaPolicyId of the workspace
    override, \* slaPolicyId of each mailbox
    req,      \* the requests in flight
    faults,   \* how many faults there have been
    last,     \* history: the request that has just ended well and alone
    stray     \* history: the mailboxes whose override was saved by a request
              \* that another one has overlapped

vars == <<policy, pointer, override, req, faults, last, stray>>

Ops == {"create", "activate", "deactivate", "default", "assign"}

(* target: the policy to become the default; sync: the one whose flag is   *)
(* being set; phase: whether applyCanonicalDefaultSlaPolicy sets it, or a  *)
(* repair within it, or a repair on its own.                               *)
Request == [pc : {"idle", "guard", "insert", "workspace", "policy", "replacement",
                  "activate", "override", "deactivate", "clear_overrides",
                  "clear_pointer", "target", "point", "unset", "set", "read",
                  "repair", "canonical", "clear"},
            op : Ops, id : Id, mailbox : Mailboxes \cup {None}, replacement : Id,
            loaded : PolicyDoc, wasDefault : BOOLEAN,
            target : Id, sync : Id, phase : {"apply", "fix", "repair"},
            alone : BOOLEAN]

NoPolicy == [exists |-> FALSE, isActive |-> FALSE, isDefault |-> FALSE]
Idle == [pc |-> "idle", op |-> "create", id |-> None, mailbox |-> None,
         replacement |-> None, loaded |-> NoPolicy, wasDefault |-> FALSE,
         target |-> None, sync |-> None, phase |-> "apply", alone |-> TRUE]
NoAnswer == [op |-> "none", id |-> None]

At(h, pc) == req[h].pc = pc
Busy == {h \in Handlers : ~At(h, "idle")}
Goto(h, r) == req' = [req EXCEPT ![h] = r] /\ last' = NoAnswer
Proceed(h, pc) == Goto(h, [req[h] EXCEPT !.pc = pc])
Refuse(h) == Goto(h, Idle)
Answer(h) == /\ req' = [req EXCEPT ![h] = Idle]
             /\ last' = IF req[h].alone
                        THEN [op |-> req[h].op, id |-> req[h].id]
                        ELSE NoAnswer

Existing == {p \in Policies : policy[p].exists}
Active == {p \in Existing : policy[p].isActive}
Defaults == {p \in Existing : policy[p].isDefault}

Init == /\ policy = [p \in Policies |-> NoPolicy]
        /\ pointer = None
        /\ override = [m \in Mailboxes |-> None]
        /\ req = [h \in Handlers |-> Idle]
        /\ faults = 0
        /\ last = NoAnswer
        /\ stray = {}

(* A request arrives; the validators refuse a replacement by the same one. *)
Begin(h) ==
    /\ At(h, "idle")
    /\ \E r \in [op : Ops, id : Id, mailbox : Mailboxes \cup {None}, replacement : Id] :
         /\ (r.id = None) => (r.op = "assign" /\ \E m \in Mailboxes : override[m] # None)
         /\ (r.op = "create") <=> (r.id \in Policies \ Existing)
         /\ (r.op = "assign") <=> (r.mailbox # None)
         /\ r.replacement # None => r.op = "deactivate" /\ r.replacement # r.id
         /\ req' = [g \in Handlers |->
              IF g = h
              THEN [Idle EXCEPT !.pc = IF r.id = None THEN "override" ELSE "guard",
                                !.op = r.op, !.id = r.id, !.mailbox = r.mailbox,
                                !.replacement = r.replacement, !.alone = (Busy = {})]
              ELSE [req[g] EXCEPT !.alone = @ /\ g \notin Busy]]
    /\ last' = NoAnswer
    /\ UNCHANGED <<policy, pointer, override, faults, stray>>

(* assertWorkspaceSlaWriteAllowed: the plan has the feature, and is not    *)
(* blocked; the billing of the workspace is either.                        *)
Guard(h) ==
    /\ At(h, "guard")
    /\ \/ Refuse(h)
       \/ Proceed(h, CASE req[h].op = "create" -> "insert"
                       [] req[h].op \in {"activate", "deactivate"} -> "workspace"
                       [] OTHER -> "policy")
    /\ UNCHANGED <<policy, pointer, override, faults, stray>>

(* createSlaPolicy (the business hours exist, they are never deleted).     *)
CreatePolicy(h) ==
    /\ At(h, "insert")
    /\ IF req[h].id \in Existing THEN Refuse(h) /\ UNCHANGED policy
       ELSE /\ policy' = [policy EXCEPT ![req[h].id] =
                              [exists |-> TRUE, isActive |-> TRUE, isDefault |-> FALSE]]
            /\ Answer(h)
    /\ UNCHANGED <<pointer, override, faults, stray>>

LoadWorkspace(h) ==
    /\ At(h, "workspace")
    /\ Goto(h, [req[h] EXCEPT !.wasDefault = (pointer = req[h].id), !.pc = "policy"])
    /\ UNCHANGED <<policy, pointer, override, faults, stray>>

(* What a request goes on to do when it has read what it works on.         *)
Loaded(r) == [r EXCEPT !.loaded = NoPolicy, !.wasDefault = FALSE, !.replacement = None]
Apply(r, p) == [Loaded(r) EXCEPT !.target = p, !.sync = p, !.phase = "apply",
                                 !.pc = IF p = None THEN "point" ELSE "target"]
Repair(r) == [Loaded(r) EXCEPT !.phase = "repair", !.pc = "repair"]
Deactivation(r) ==
    IF r.loaded.isActive THEN [r EXCEPT !.pc = "deactivate"]
    ELSE IF r.wasDefault THEN Apply(r, r.replacement) ELSE Repair(r)

(* findSlaPolicyInWorkspaceOrThrow: to become the default, or the override *)
(* of a mailbox, the policy must be active.                                *)
LoadPolicy(h) ==
    LET r == [req[h] EXCEPT !.loaded = policy[req[h].id]]
    IN  /\ At(h, "policy")
        /\ \/ r.op = "activate" /\ ~r.loaded.isActive /\ Goto(h, [r EXCEPT !.pc = "activate"])
           \/ r.op = "activate" /\ r.loaded.isActive /\ Answer(h)
           \/ r.op = "deactivate" /\ r.replacement = None /\ Goto(h, Deactivation(r))
           \/ r.op = "deactivate" /\ r.replacement # None
              /\ Goto(h, [r EXCEPT !.pc = "replacement"])
           \/ r.op \in {"default", "assign"} /\ r.id \notin Active /\ Refuse(h)
           \/ r.op = "default" /\ r.id \in Active /\ Goto(h, Apply(r, r.id))
           \/ r.op = "assign" /\ r.id \in Active /\ Goto(h, [r EXCEPT !.pc = "override"])
        /\ UNCHANGED <<policy, pointer, override, faults, stray>>

LoadReplacement(h) ==
    /\ At(h, "replacement")
    /\ IF req[h].replacement \in Active THEN Goto(h, Deactivation(req[h])) ELSE Refuse(h)
    /\ UNCHANGED <<policy, pointer, override, faults, stray>>

(* activateSlaPolicy.                                                      *)
Activate(h) ==
    /\ At(h, "activate")
    /\ policy' = [policy EXCEPT ![req[h].id].isActive = TRUE]
    /\ Answer(h)
    /\ UNCHANGED <<pointer, override, faults, stray>>

(* createMailbox or updateMailbox saves the override.                      *)
SaveOverride(h) ==
    /\ At(h, "override")
    /\ override' = [override EXCEPT ![req[h].mailbox] = req[h].id]
    /\ stray' = IF req[h].alone THEN stray \ {req[h].mailbox}
                ELSE stray \cup {req[h].mailbox}
    /\ Answer(h)
    /\ UNCHANGED <<policy, pointer, faults>>

(* deactivateSlaPolicy: save() writes the paths that differ from what was  *)
(* loaded.                                                                 *)
Deactivate(h) ==
    LET r == req[h]
    IN  /\ At(h, "deactivate")
        /\ policy' = [policy EXCEPT ![r.id].isActive = FALSE,
                                    ![r.id].isDefault = @ /\ ~r.loaded.isDefault]
        /\ Proceed(h, "clear_overrides")
        /\ UNCHANGED <<pointer, override, faults, stray>>

(* clearPolicyAssignments: the mailboxes, ...                              *)
ClearOverrides(h) ==
    /\ At(h, "clear_overrides")
    /\ override' = [m \in Mailboxes |-> IF override[m] = req[h].id THEN None ELSE override[m]]
    /\ Proceed(h, "clear_pointer")
    /\ UNCHANGED <<policy, pointer, faults, stray>>

(* Mutant: what was loaded decides whether the pointer is cleared.         *)
ClearPointer_AsLoaded(h) ==
    LET r == req[h]
    IN  /\ At(h, "clear_pointer")
        /\ IF r.wasDefault
           THEN pointer' = None /\ Goto(h, Apply(r, r.replacement))
           ELSE UNCHANGED pointer /\ Answer(h)
        /\ UNCHANGED <<policy, override, faults, stray>>

(* ... and the pointer, if it is still this policy: a default to replace.  *)
ClearPointer(h) ==
    LET r == req[h]
    IN  /\ At(h, "clear_pointer")
        /\ IF pointer = r.id
           THEN pointer' = None /\ Goto(h, Apply(r, r.replacement))
           ELSE UNCHANGED pointer /\ Goto(h, Repair(r))
        /\ UNCHANGED <<policy, override, faults, stray>>

(* applyCanonicalDefaultSlaPolicy: the policy must be active, ...          *)
CheckTarget(h) ==
    /\ At(h, "target")
    /\ IF req[h].target \in Active THEN Proceed(h, "point") ELSE Refuse(h)
    /\ UNCHANGED <<policy, pointer, override, faults, stray>>

(* ... the pointer is set (setWorkspaceDefaultSlaPolicyPointer), ...       *)
SetPointer(h) ==
    /\ At(h, "point")
    /\ pointer' = req[h].target
    /\ Proceed(h, "unset")
    /\ UNCHANGED <<policy, override, faults, stray>>

(* ... and the flags (syncPolicyDefaultFlags): first those of the others.  *)
AfterSync(h) == CASE req[h].phase = "apply" -> Proceed(h, "read")
                  [] req[h].phase = "fix" -> Proceed(h, "read")
                  [] OTHER -> Answer(h)

UnsetFlags(h) ==
    LET r == req[h]
    IN  /\ At(h, "unset")
        /\ policy' = [p \in Policies |-> IF p = r.sync THEN policy[p]
                                         ELSE [policy[p] EXCEPT !.isDefault = FALSE]]
        /\ IF r.sync = None THEN AfterSync(h) ELSE Proceed(h, "set")
        /\ UNCHANGED <<pointer, override, faults, stray>>

SetFlag(h) ==
    /\ At(h, "set")
    /\ policy' = [policy EXCEPT ![req[h].sync].isDefault = TRUE,
                                ![req[h].sync].isActive = TRUE]
    /\ AfterSync(h)
    /\ UNCHANGED <<pointer, override, faults, stray>>

(* Pointer and flags agree (readCanonicalDefaultSlaPolicyState).           *)
Consistent == IF pointer = None THEN Defaults = {}
              ELSE Defaults = {pointer} /\ pointer \in Active

(* What was written is read back; what is inconsistent is repaired once,   *)
(* and then refused.                                                       *)
ReadBack(h) ==
    LET r == req[h]
    IN  /\ At(h, "read")
        /\ \/ Consistent /\ pointer = r.target /\ Answer(h)
           \/ ~(Consistent /\ pointer = r.target)
              /\ IF r.phase = "fix" THEN Refuse(h)
                 ELSE Goto(h, [r EXCEPT !.phase = "fix", !.pc = "repair"])
        /\ UNCHANGED <<policy, pointer, override, faults, stray>>

(* repairCanonicalDefaultSlaPolicyState follows the pointer, ...           *)
ReadPointer(h) ==
    /\ At(h, "repair")
    /\ Goto(h, [req[h] EXCEPT !.sync = pointer,
                              !.pc = IF pointer = None THEN "unset" ELSE "canonical"])
    /\ UNCHANGED <<policy, pointer, override, faults, stray>>

(* Mutant: an inactive policy is not looked for.                           *)
CheckCanonical_Never(h) ==
    /\ At(h, "canonical")
    /\ Proceed(h, "unset")
    /\ UNCHANGED <<policy, pointer, override, faults, stray>>

CheckCanonical(h) ==
    /\ At(h, "canonical")
    /\ Proceed(h, IF req[h].sync \in Active THEN "unset" ELSE "clear")
    /\ UNCHANGED <<policy, pointer, override, faults, stray>>

(* ... or clears it, whatever it has become, when its policy is inactive.  *)
ClearCanonical(h) ==
    /\ At(h, "clear")
    /\ pointer' = None
    /\ Goto(h, [req[h] EXCEPT !.sync = None, !.pc = "unset"])
    /\ UNCHANGED <<policy, override, faults, stray>>

(* An await fails, or the process stops.  applyCanonicalDefaultSlaPolicy   *)
(* goes on when setting the pointer (twice), the flags or the repair fails *)
(* and lets what it reads back decide.                                     *)
Fail(h) ==
    LET r == req[h]
    IN  /\ ~At(h, "idle") /\ faults < MaxFaults /\ faults' = faults + 1
        /\ \/ Refuse(h)
           \/ r.pc = "point" /\ Proceed(h, "unset")
           \/ r.pc \in {"unset", "set"} /\ r.phase # "repair" /\ Proceed(h, "read")
           \/ r.pc \in {"repair", "canonical", "clear"} /\ r.phase = "fix"
              /\ Proceed(h, "read")
        /\ UNCHANGED <<policy, pointer, override, stray>>

Handle(h) ==
    \/ Begin(h) \/ Guard(h) \/ CreatePolicy(h)
    \/ LoadWorkspace(h) \/ LoadPolicy(h) \/ LoadReplacement(h)
    \/ Activate(h) \/ SaveOverride(h)
    \/ Deactivate(h) \/ ClearOverrides(h) \/ ClearPointer(h)
    \/ CheckTarget(h) \/ SetPointer(h) \/ UnsetFlags(h) \/ SetFlag(h) \/ ReadBack(h)
    \/ ReadPointer(h) \/ CheckCanonical(h) \/ ClearCanonical(h) \/ Fail(h)

Next == \E h \in Handlers : Handle(h)

(* resolveSlaSelection, and resolveTicketSlaSnapshot, which takes only an  *)
(* active policy.                                                          *)
Selection(m) == IF override[m] # None THEN override[m] ELSE pointer
TicketPolicy(m) == IF Selection(m) \in Active THEN Selection(m) ELSE None

Spec == Init /\ [][Next]_vars

----------------------------------------------------------------------------
(* Properties *)

(* Every variable has its type; what is pointed at or flagged exists.      *)
TypeOK ==
    /\ policy \in [Policies -> PolicyDoc]
    /\ pointer \in Existing \cup {None}
    /\ override \in [Mailboxes -> Existing \cup {None}]
    /\ req \in [Handlers -> Request]
    /\ faults \in 0 .. MaxFaults
    /\ \A p \in Policies \ Existing : policy[p] = NoPolicy
    /\ \A h \in Handlers :
          /\ req[h].pc \in {"set", "canonical"} => req[h].sync \in Existing
          /\ req[h].pc = "point" => req[h].target \in Existing \cup {None}

(* Whatever requests have crashed, failed or overlapped before: when one   *)
(* sets or deactivates a policy and ends well, and nothing has overlapped  *)
(* it, pointer and flag agree; the default is the one set, and the         *)
(* deactivated policy is not the default or the override of a mailbox.     *)
LoneRequestAligns ==
    /\ last.op \in {"default", "deactivate"} => Consistent
    /\ last.op = "default" => pointer = last.id
    /\ last.op = "deactivate" =>
          /\ last.id \notin Active /\ pointer # last.id

(* However set-defaults, activations and deactivations overlap, when       *)
(* nothing has failed and all have ended the default policy is active.     *)
DefaultIsActive == Busy = {} /\ faults = 0 /\ pointer # None => pointer \in Active

(* A ticket gets the policy that is selected for it.  (It gets none, not   *)
(* even the default, when its mailbox is left with an inactive one: by an  *)
(* assignment that overlaps the deactivation, and by nothing else.)        *)
SelectedIsApplied ==
    Busy = {} /\ faults = 0 =>
        \A m \in Mailboxes \ stray : TicketPolicy(m) = Selection(m)

(* A deactivated policy becomes active only when someone activates it, or  *)
(* when it is being made the default while it is deactivated.              *)
OnlyActivationActivates ==
    [][\A p \in Existing \ Active :
         policy'[p].isActive =>
            \E h \in Handlers : \/ At(h, "activate") /\ req[h].id = p
                                \/ At(h, "set") /\ req[h].sync = p /\ ~req[h].alone]_vars

(* The invariants together: the default policy of the workspace and of its *)
(* mailboxes, and the flags and the pointers that say so, agree.           *)
PoliciesAligned == TypeOK /\ LoneRequestAligns /\ DefaultIsActive /\ SelectedIsApplied
============================================================================
