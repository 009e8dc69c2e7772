-------------------------- MODULE MailboxDefaults --------------------------
(***************************************************************************)
(* The mailboxes of one workspace and its default mailbox, which is kept   *)
(* twice: as the flag isDefault of a mailbox and as defaultMailboxId of    *)
(* the workspace.  No write spans both; every request that may disturb     *)
(* them ends in ensureWorkspaceDefaultMailbox or in the alignment it uses. *)
(*                                                                         *)
(* Sources: src/src/modules/mailboxes/services/mailboxes.service.js and    *)
(* models/mailbox.model.js.  Mailboxes are never deleted.                  *)
(***************************************************************************)
EXTENDS Naturals, FiniteSets

CONSTANTS
    Handlers,     \* requests in flight at once
    MaxMailboxes, \* bound on the mailboxes created
    ActiveLimit,  \* the plan's limit of active mailboxes
    MaxFaults     \* bound on the awaits that fail and the requests that crash

ASSUME MailboxAssumption == /\ MaxMailboxes \in Nat /\ ActiveLimit \in Nat
                            /\ MaxFaults \in Nat

Box == 1 .. MaxMailboxes   \* in the order of createdAt
None == 0
MailboxDoc == [exists : BOOLEAN, active : BOOLEAN, isDefault : BOOLEAN]

VARIABLES
    mailbox,  \* the mailbox documents
    pointer,  \* workspace.defaultMailboxId
    req,      \* the requests in flight
    faults    \* how many faults there have been

vars == <<mailbox, pointer, req, faults>>

Ops == {"create", "set_default", "activate", "deactivate", "ensure"}

(* box: the mailbox asked for; seen: the pointer as it was loaded; target: *)
(* the mailbox to be the default; retried: the flags are set for a second  *)
(* time; alone: no other request has been in flight at the same time.      *)
Request == [pc : {"idle", "load", "limit", "insert", "count", "save", "ensure", "list",
                  "seed", "unset", "set", "point", "repoint", "unpointed",
                  "verify"},
            op : Ops, box : Box \cup {None}, seen : Box \cup {None},
            target : Box \cup {None}, retried : BOOLEAN, alone : BOOLEAN]

NoMailbox == [exists |-> FALSE, active |-> FALSE, isDefault |-> FALSE]
Idle == [pc |-> "idle", op |-> "ensure", box |-> None, seen |-> None,
         target |-> None, retried |-> FALSE, alone |-> TRUE]

----------------------------------------------------------------------------
At(h, pc) == req[h].pc = pc
Busy == {h \in Handlers : ~At(h, "idle")}
Respond(h) == req' = [req EXCEPT ![h] = Idle]
Goto(h, r) == req' = [req EXCEPT ![h] = r]
Proceed(h, pc) == Goto(h, [req[h] EXCEPT !.pc = pc])

Existing == {b \in Box : mailbox[b].exists}
Active == {b \in Existing : mailbox[b].active}
Defaults == {b \in Existing : mailbox[b].isDefault}
First(boxes) == CHOOSE b \in boxes : \A c \in boxes : b =< c

(* Mutant: the flags are not looked at.                                    *)
Canonical_Oldest(seen) == IF Active # {} THEN First(Active) ELSE First(Existing)

(* chooseCanonicalDefaultMailboxId on the mailboxes as listed now.         *)
Canonical(seen) ==
    CASE Defaults = {} /\ seen \in Existing -> seen
      [] Defaults = {} /\ seen \notin Existing ->
            IF Active # {} THEN First(Active) ELSE First(Existing)
      [] Defaults # {} /\ seen \in Defaults -> seen
      [] OTHER -> First(Defaults)

----------------------------------------------------------------------------
Init == /\ mailbox = [b \in Box |-> NoMailbox]
        /\ pointer = None
        /\ req = [h \in Handlers |-> Idle]
        /\ faults = 0

(* A request arrives, or ensureWorkspaceDefaultMailbox is called for a new *)
(* workspace or by the backfill.                                           *)
Begin(h) ==
    /\ At(h, "idle")
    /\ \E op \in Ops, b \in Existing \cup {None} :
         LET r == [Idle EXCEPT !.op = op, !.box = b, !.alone = (Busy = {}),
                     !.pc = CASE op = "create" -> "limit"
                              [] op = "ensure" -> "ensure"
                              [] OTHER -> "load"]
         IN  /\ b = None <=> op \in {"create", "ensure"}
             /\ req' = [g \in Handlers |->
                          IF g = h THEN r ELSE [req[g] EXCEPT !.alone = @ /\ g \notin Busy]]
    /\ UNCHANGED <<mailbox, pointer, faults>>

(* findMailboxInWorkspaceOrThrow and the checks on the loaded document.    *)
(* setDefaultMailbox goes on to align the default with it.                 *)
LoadMailbox(h) ==
    LET r == req[h]
        doc == mailbox[r.box]
    IN  /\ At(h, "load")
        /\ \/ /\ r.op = "set_default" /\ doc.active
              /\ Goto(h, [r EXCEPT !.pc = "unset", !.target = r.box])
           \/ /\ r.op = "activate"
              /\ Proceed(h, IF doc.active THEN "ensure" ELSE "limit")
           \/ /\ r.op = "deactivate" /\ ~doc.isDefault /\ doc.active
              /\ Proceed(h, "count")
           \/ /\ \/ r.op = "set_default" /\ ~doc.active
                 \/ r.op = "deactivate" /\ (doc.isDefault \/ ~doc.active)
              /\ Respond(h)
        /\ UNCHANGED <<mailbox, pointer, faults>>

(* assertWorkspaceMailboxWriteAllowed, before a mailbox is created or      *)
(* activated.                                                              *)
CheckLimit(h) ==
    /\ At(h, "limit")
    /\ IF Cardinality(Active) + 1 > ActiveLimit THEN Respond(h)
       ELSE Proceed(h, IF req[h].op = "create" THEN "insert" ELSE "save")
    /\ UNCHANGED <<mailbox, pointer, faults>>

(* Mailbox.create of createMailbox: active, and never the default.         *)
InsertMailbox(h) ==
    /\ At(h, "insert") /\ Existing # Box
    /\ mailbox' = [mailbox EXCEPT ![First(Box \ Existing)] =
                     [exists |-> TRUE, active |-> TRUE, isDefault |-> FALSE]]
    /\ Proceed(h, "ensure")
    /\ UNCHANGED <<pointer, faults>>

(* deactivateMailbox refuses to take the last active mailbox.              *)
CountActive(h) ==
    /\ At(h, "count")
    /\ IF Cardinality(Active) =< 1 THEN Respond(h) ELSE Proceed(h, "save")
    /\ UNCHANGED <<mailbox, pointer, faults>>

(* mailbox.save() writes isActive only.                                    *)
SaveActive(h) ==
    /\ At(h, "save")
    /\ mailbox' = [mailbox EXCEPT ![req[h].box].active = (req[h].op = "activate")]
    /\ Proceed(h, "ensure")
    /\ UNCHANGED <<pointer, faults>>

(* ensureWorkspaceDefaultMailbox loads the workspace, then the mailboxes.  *)
LoadWorkspace(h) ==
    /\ At(h, "ensure")
    /\ Goto(h, [req[h] EXCEPT !.pc = "list", !.seen = pointer])
    /\ UNCHANGED <<mailbox, pointer, faults>>

ListMailboxes(h) ==
    /\ At(h, "list")
    /\ IF Existing = {} THEN Proceed(h, "seed")
       ELSE Goto(h, [req[h] EXCEPT !.pc = "unset", !.target = Canonical(req[h].seen)])
    /\ UNCHANGED <<mailbox, pointer, faults>>

(* Mailbox.create of the first mailbox, as the default.  The unique index  *)
(* refuses it when there is a default by now; then the mailboxes are       *)
(* listed again.                                                           *)
SeedMailbox(h) ==
    /\ At(h, "seed")
    /\ \/ /\ Defaults = {} /\ Existing # Box
          /\ LET b == First(Box \ Existing)
             IN  /\ mailbox' = [mailbox EXCEPT ![b] =
                                  [exists |-> TRUE, active |-> TRUE, isDefault |-> TRUE]]
                 /\ Goto(h, [req[h] EXCEPT !.pc = "unset", !.target = b])
       \/ /\ Defaults # {}
          /\ Proceed(h, "list")
          /\ UNCHANGED mailbox
    /\ UNCHANGED <<pointer, faults>>

(* setCanonicalMailboxFlags: the flag is taken from all others, and then   *)
(* given to the target, which becomes active.  The unique index refuses    *)
(* that while another mailbox has the flag: one retry, then a conflict.    *)
UnsetOthers(h) ==
    /\ At(h, "unset")
    /\ mailbox' = [b \in Box |->
                     [mailbox[b] EXCEPT !.isDefault = @ /\ b = req[h].target]]
    /\ Proceed(h, "set")
    /\ UNCHANGED <<pointer, faults>>

(* Mutant: the target is not activated.                                    *)
SetDefault_Inactive(h) ==
    LET r == req[h]
    IN  /\ At(h, "set")
        /\ \/ /\ Defaults \subseteq {r.target}
              /\ mailbox' = [mailbox EXCEPT ![r.target].isDefault = TRUE]
              /\ Proceed(h, "point")
           \/ /\ ~(Defaults \subseteq {r.target})
              /\ IF r.retried THEN Respond(h)
                 ELSE Goto(h, [r EXCEPT !.pc = "unset", !.retried = TRUE])
              /\ UNCHANGED mailbox
        /\ UNCHANGED <<pointer, faults>>

SetDefault(h) ==
    LET r == req[h]
    IN  /\ At(h, "set")
        /\ \/ /\ Defaults \subseteq {r.target}
              /\ mailbox' = [mailbox EXCEPT ![r.target].isDefault = TRUE,
                                            ![r.target].active = TRUE]
              /\ Proceed(h, "point")
           \/ /\ ~(Defaults \subseteq {r.target})
              /\ IF r.retried THEN Respond(h)
                 ELSE Goto(h, [r EXCEPT !.pc = "unset", !.retried = TRUE])
              /\ UNCHANGED mailbox
        /\ UNCHANGED <<pointer, faults>>

(* Mutant: only a missing pointer is written.                              *)
SetPointer_Missing(h) ==
    /\ req[h].pc \in {"point", "repoint"}
    /\ pointer' = IF pointer = None THEN req[h].target ELSE pointer
    /\ Proceed(h, "verify")
    /\ UNCHANGED <<mailbox, faults>>

(* setWorkspaceDefaultMailboxId.                                           *)
SetPointer(h) ==
    /\ req[h].pc \in {"point", "repoint"}
    /\ pointer' = req[h].target
    /\ Proceed(h, "verify")
    /\ UNCHANGED <<mailbox, faults>>

(* The pointer's write fails: it is tried once more.  When the same fault  *)
(* hits that as well, the check that follows finds the pointer unwritten.  *)
SetPointerFails(h) ==
    /\ \/ /\ At(h, "point") /\ Proceed(h, "repoint")
          /\ faults < MaxFaults /\ faults' = faults + 1
       \/ /\ At(h, "repoint") /\ Proceed(h, "unpointed")
          /\ UNCHANGED faults
    /\ UNCHANGED <<mailbox, pointer>>

(* readCanonicalDefaultState: its three reads decide between success and a *)
(* conflict, and change nothing.                                           *)
Verify(h) ==
    /\ req[h].pc \in {"verify", "unpointed"}
    /\ Respond(h)
    /\ UNCHANGED <<mailbox, pointer, faults>>

(* Any other await fails, or the process stops: the request is over and    *)
(* what it has written stays.                                              *)
Fail(h) ==
    /\ ~At(h, "idle") /\ faults < MaxFaults /\ faults' = faults + 1
    /\ Respond(h)
    /\ UNCHANGED <<mailbox, pointer>>

Handle(h) ==
    \/ Begin(h) \/ LoadMailbox(h) \/ CheckLimit(h) \/ InsertMailbox(h)
    \/ CountActive(h) \/ SaveActive(h)
    \/ LoadWorkspace(h) \/ ListMailboxes(h) \/ SeedMailbox(h)
    \/ UnsetOthers(h) \/ SetDefault(h) \/ SetPointer(h) \/ SetPointerFails(h)
    \/ Verify(h) \/ Fail(h)

Next == \E h \in Handlers : Handle(h)

Spec == Init /\ [][Next]_vars

----------------------------------------------------------------------------
(* Properties *)

(* Every variable has its type, and whoever aligns the default has found   *)
(* an existing mailbox to align it with.                                   *)
TypeOK ==
    /\ mailbox \in [Box -> MailboxDoc]
    /\ pointer \in Box \cup {None}
    /\ req \in [Handlers -> Request]
    /\ faults \in 0 .. MaxFaults
    /\ \A h \in Handlers :
          req[h].pc \in {"unset", "set", "point", "repoint", "unpointed", "verify"}
          => req[h].target \in Existing

(* One active default mailbox, and the workspace points at it.             *)
Aligned == \E b \in Active : Defaults = {b} /\ pointer = b

(* From whatever overlapping or broken requests have left behind, one      *)
(* request that runs alone, and whose own writes succeed, repairs the      *)
(* workspace before it answers: the promise of                             *)
(* applyCanonicalDefaultMailbox and of the backfill.                       *)
LoneRequestRepairs ==
    \A h \in Handlers : At(h, "verify") /\ req[h].alone => Aligned

(* The two together: every variable has its type, and a request that runs  *)
(* alone repairs what it finds.                                            *)
LoneRequestsRepair == TypeOK /\ LoneRequestRepairs

(* Requests that overlap, but do not fail, leave exactly one default       *)
(* mailbox, and it is active, also where a deactivation has passed its     *)
(* check on a mailbox that became the default meanwhile.                   *)
OneActiveDefault ==
    faults = 0 /\ Busy = {} /\ Existing # {} =>
        Cardinality(Defaults) = 1 /\ Defaults \subseteq Active

(* In an aligned workspace the default only moves by a set-default: the    *)
(* alignment at the end of the other requests changes nothing.             *)
OnlySetDefaultMoves ==
    [][\A h \in Handlers :
         Aligned /\ req[h].alone /\ ~At(h, "idle") /\ req[h].op # "set_default"
         => pointer' = pointer /\ Defaults' = Defaults]_vars
============================================================================
