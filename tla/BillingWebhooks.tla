-------------------------- MODULE BillingWebhooks --------------------------
(***************************************************************************)
(* The inbox of Stripe's webhook events: accepting, queueing, processing   *)
(* and replaying them, and the subscription and entitlement they write.    *)
(*                                                                         *)
(* Sources: src/src/modules/billing/services/billing-webhooks.service.js,  *)
(* billing-queue.service.js and billing-sync.service.js.  Stripe and       *)
(* BullMQ are modelled from how that code uses them.                       *)
(*                                                                         *)
(* The state of the workspace's subscription at Stripe is its version: the *)
(* number of the event that announced its latest change.  Events of a type *)
(* the code ignores announce no change of the subscription.                *)
(***************************************************************************)
EXTENDS Naturals, FiniteSets, MongooseDocument

CONSTANTS
    Events,       \* 1..n, in the order Stripe makes them
    Lookups,      \* those that make the code ask Stripe for the subscription
    Ignored,      \* those of a type the code does not handle
    Poison,       \* those whose processing always fails (an unknown price)
    Requests,     \* deliveries the server may have in flight at once
    Workers,      \* slots of the webhook worker (its concurrency)
    Sweeper,      \* the repair worker; {} when it is not running
    SweepLimit,   \* BILLING_REPLAY_SWEEP_LIMIT
    JobAttempts,  \* attempts of a queued job
    MaxDuplicates,\* bound on deliveries of an event Stripe was answered for
    MaxFaults     \* bound on transient faults: lost requests, failing calls

Runs == Workers \cup Sweeper

ASSUME BillingAssumption ==
    /\ Events = 1 .. Cardinality(Events) /\ IsFiniteSet(Events) /\ IsFiniteSet(Requests)
    /\ Lookups \subseteq Events /\ Ignored \subseteq Events /\ Poison \subseteq Events
    /\ Lookups \cap Ignored = {} /\ Poison \cap Ignored = {}
    /\ SweepLimit \in Nat \ {0} /\ JobAttempts \in Nat \ {0}
    /\ MaxDuplicates \in Nat /\ MaxFaults \in Nat
    /\ Workers \cap Sweeper = {}

VARIABLES
    remote,    \* how many events Stripe has made
    answered,  \* how often Stripe was answered for each event
    request,   \* the deliveries in flight
    inbox,     \* the BillingWebhookEvent of each event
    arrived,   \* receivedAt of each event: its place among the received, 0 before
    job,       \* the BullMQ job of each event
    run,       \* what each worker is doing
    sub,       \* the version the Subscription holds
    ent,       \* the version the Entitlement was computed from
    applied,   \* history: events whose processing wrote the entitlement
    faults     \* transient faults so far

vars == <<remote, answered, request, inbox, arrived, job, run, sub, ent, applied, faults>>
delivery == <<remote, answered, request, arrived>>
books == <<sub, ent, applied>>

Version == {0} \cup Events
NoEvent == 0

(* queued: processingJobId is set; old: received five minutes ago.         *)
InboxDoc == [status : {"none", "pending", "failed", "processed"},
             queued : BOOLEAN, old : BOOLEAN]
Job == [state : {"none", "waiting", "active", "completed", "failed"}, tries : Nat]
Request == [pc : {"idle", "persist", "enqueue", "mark"}, event : {NoEvent} \cup Events]

(* status, was and seen are what the run has read: the event's status, the *)
(* subscription's version, and the version it is about to write.           *)
Run == [pc : {"idle", "find", "open", "ask", "save", "recompute", "grant", "settle", "fail"},
        event : {NoEvent} \cup Events, status : {"pending", "failed", "processed"},
        was : Version, seen : Version, todo : SUBSET Events]

IdleRequest == [pc |-> "idle", event |-> NoEvent]
IdleRun == [pc |-> "idle", event |-> NoEvent, status |-> "pending",
            was |-> 0, seen |-> 0, todo |-> {}]

----------------------------------------------------------------------------
Init ==
    /\ remote = 0
    /\ answered = [e \in Events |-> 0]
    /\ request = [q \in Requests |-> IdleRequest]
    /\ inbox = [e \in Events |-> [status |-> "none", queued |-> FALSE, old |-> FALSE]]
    /\ arrived = [e \in Events |-> 0]
    /\ job = [e \in Events |-> [state |-> "none", tries |-> 0]]
    /\ run = [w \in Runs |-> IdleRun]
    /\ sub = 0 /\ ent = 0 /\ applied = {}
    /\ faults = 0

Fault == faults < MaxFaults /\ faults' = faults + 1

----------------------------------------------------------------------------
(* Stripe *)

Announced == {0} \cup {e \in 1 .. remote : e \notin Ignored}
StripeVersion == CHOOSE v \in Announced : \A e \in Announced : e =< v

StripeChanges ==
    /\ remote + 1 \in Events
    /\ remote' = remote + 1
    /\ UNCHANGED <<answered, request, inbox, arrived, job, run, books, faults>>

(* Stripe delivers until it is answered, in any order, and may deliver     *)
(* again.                                                                  *)
Deliver(q, e) ==
    /\ request[q].pc = "idle"
    /\ e =< remote /\ answered[e] =< MaxDuplicates
    /\ request' = [request EXCEPT ![q] = [pc |-> "persist", event |-> e]]
    /\ UNCHANGED <<remote, answered, inbox, arrived, job, run, books, faults>>

----------------------------------------------------------------------------
(* acceptStripeWebhookEvent *)

Answer(q) ==
    /\ answered' = [answered EXCEPT ![request[q].event] = @ + 1]
    /\ request' = [request EXCEPT ![q] = IdleRequest]

ArrivesNow(e) == [arrived EXCEPT ![e] = Cardinality({d \in Events : arrived[d] # 0}) + 1]

(* Mutant: the upsert sets the fields of an event that exists too.         *)
Persist_Overwrites(q) ==
    LET e == request[q].event
    IN  /\ request[q].pc = "persist"
        /\ inbox' = [inbox EXCEPT ![e].status = "pending", ![e].queued = FALSE]
        /\ arrived' = IF inbox[e].status = "none" THEN ArrivesNow(e) ELSE arrived
        /\ request' = [request EXCEPT ![q].pc = "enqueue"]
        /\ UNCHANGED <<remote, answered, job, run, books, faults>>

(* persistStripeWebhookEvent, an atomic upsert, and what becomes of a      *)
(* duplicate.                                                              *)
Persist(q) ==
    LET e == request[q].event
        settled == \/ inbox[e].status = "processed"
                   \/ inbox[e].status = "pending" /\ inbox[e].queued
    IN  /\ request[q].pc = "persist"
        /\ IF inbox[e].status = "none"
           THEN /\ inbox' = [inbox EXCEPT ![e].status = "pending"]
                /\ arrived' = ArrivesNow(e)
           ELSE UNCHANGED <<inbox, arrived>>
        /\ IF settled
           THEN Answer(q)
           ELSE /\ request' = [request EXCEPT ![q].pc = "enqueue"]
                /\ UNCHANGED answered
        /\ UNCHANGED <<remote, job, run, books, faults>>

(* enqueueBillingWebhookEvent: one job per event, also when the job found  *)
(* under its id has completed or failed long ago.                          *)
Enqueue(q) ==
    LET e == request[q].event
    IN  /\ request[q].pc = "enqueue"
        /\ job' = [job EXCEPT ![e] = IF @.state = "none"
                                     THEN [state |-> "waiting", tries |-> 0] ELSE @]
        /\ request' = [request EXCEPT ![q].pc = "mark"]
        /\ UNCHANGED <<remote, answered, inbox, arrived, run, books, faults>>

(* The queue is unavailable, or the job cannot be noted: the event is      *)
(* accepted all the same.                                                  *)
EnqueueFails(q) ==
    /\ request[q].pc \in {"enqueue", "mark"} /\ Fault
    /\ Answer(q)
    /\ UNCHANGED <<remote, inbox, arrived, job, run, books>>

Mark(q) ==
    /\ request[q].pc = "mark"
    /\ inbox' = [inbox EXCEPT ![request[q].event].queued = TRUE]
    /\ Answer(q)
    /\ UNCHANGED <<remote, arrived, job, run, books, faults>>

(* The request ends with an error or the server stops: no answer.          *)
RequestLost(q) ==
    /\ request[q].pc # "idle" /\ Fault
    /\ request' = [request EXCEPT ![q] = IdleRequest]
    /\ UNCHANGED <<remote, answered, inbox, arrived, job, run, books>>

----------------------------------------------------------------------------
(* The queue and the sweep *)

(* The run of a worker that has these events to process, in the order in   *)
(* which they were received.                                               *)
Earliest(events) == CHOOSE e \in events : \A d \in events : arrived[e] =< arrived[d]
Processing(events) ==
    IF events = {} THEN IdleRun
    ELSE LET e == Earliest(events)
         IN  [IdleRun EXCEPT !.pc = "find", !.event = e, !.todo = events \ {e}]

TakeJob(w, e) ==
    /\ w \in Workers /\ run[w].pc = "idle" /\ job[e].state = "waiting"
    /\ job' = [job EXCEPT ![e].state = "active"]
    /\ run' = [run EXCEPT ![w] = Processing({e})]
    /\ UNCHANGED <<delivery, inbox, books, faults>>

(* Only the last jobs that ended are kept (removeOnComplete, removeOnFail).*)
JobEvicted(e) ==
    /\ job[e].state \in {"completed", "failed"}
    /\ job' = [job EXCEPT ![e] = [state |-> "none", tries |-> 0]]
    /\ UNCHANGED <<delivery, inbox, run, books, faults>>

EventAges(e) ==
    /\ inbox[e].status # "none" /\ ~inbox[e].old
    /\ inbox' = [inbox EXCEPT ![e].old = TRUE]
    /\ UNCHANGED <<delivery, job, run, books, faults>>

(* Mutant: events that failed are not taken up again.                      *)
ToReplay_PendingOnly(e) == inbox[e].status = "pending" /\ inbox[e].old

(* replayPendingBillingWebhookEvents: the oldest failed, or old pending,   *)
(* events, up to the limit.                                                *)
ToReplay(e) == \/ inbox[e].status = "failed"
               \/ inbox[e].status = "pending" /\ inbox[e].old
Replayed ==
    {e \in Events : /\ ToReplay(e)
                    /\ Cardinality({d \in Events : ToReplay(d) /\ arrived[d] < arrived[e]})
                         < SweepLimit}

Sweep(w) ==
    /\ w \in Sweeper /\ run[w].pc = "idle" /\ Replayed # {}
    /\ run' = [run EXCEPT ![w] = Processing(Replayed)]
    /\ UNCHANGED <<delivery, inbox, job, books, faults>>

----------------------------------------------------------------------------
(* processBillingWebhookEventById *)

(* The call returns or throws: BullMQ completes the job, or retries it     *)
(* until its attempts are used up; the sweep goes on with its next event.  *)
JobEnds(w, failed) ==
    LET Ended(j) == IF ~failed THEN [j EXCEPT !.state = "completed"]
                    ELSE [state |-> IF j.tries + 1 < JobAttempts THEN "waiting" ELSE "failed",
                          tries |-> j.tries + 1]
    IN  job' = IF w \in Workers THEN [job EXCEPT ![run[w].event] = Ended(@)] ELSE job
RunEnds(w, failed) ==
    /\ run' = [run EXCEPT ![w] = Processing(run[w].todo)]
    /\ JobEnds(w, failed)

Step(w, from) == run[w].pc = from
Goto(w, to) == run' = [run EXCEPT ![w].pc = to]

Find(w) ==
    LET e == run[w].event
    IN  /\ Step(w, "find")
        /\ IF inbox[e].status = "processed"
           THEN RunEnds(w, FALSE)
           ELSE /\ run' = [run EXCEPT ![w].status = inbox[e].status,
                                      ![w].pc = IF e \in Ignored THEN "settle" ELSE "open"]
                /\ UNCHANGED job
        /\ UNCHANGED <<delivery, inbox, books, faults>>

(* syncWorkspaceSubscriptionFromStripe: load the subscription; the event   *)
(* carries Stripe's, as it was when the event was made, or Stripe is asked.*)
OpenSubscription(w) ==
    LET e == run[w].event
    IN  /\ Step(w, "open")
        /\ run' = [run EXCEPT ![w].was = sub,
                              ![w].seen = IF e \in Lookups THEN @ ELSE e,
                              ![w].pc = IF e \in Lookups THEN "ask" ELSE "save"]
        /\ UNCHANGED <<delivery, inbox, job, books, faults>>

(* Mutant: the state announced by the event instead of Stripe's.           *)
AskStripe_Snapshot(w) ==
    /\ Step(w, "ask")
    /\ run' = [run EXCEPT ![w].seen = run[w].event, ![w].pc = "save"]
    /\ UNCHANGED <<delivery, inbox, job, books, faults>>

AskStripe(w) ==
    /\ Step(w, "ask")
    /\ run' = [run EXCEPT ![w].seen = StripeVersion, ![w].pc = "save"]
    /\ UNCHANGED <<delivery, inbox, job, books, faults>>

SaveSubscription(w) ==
    /\ Step(w, "save") /\ run[w].event \notin Poison
    /\ sub' = SavedPath(sub, run[w].was, run[w].seen)
    /\ Goto(w, "recompute")
    /\ UNCHANGED <<delivery, inbox, job, ent, applied, faults>>

(* recomputeWorkspaceEntitlement: read the subscription, write what        *)
(* follows from it.                                                        *)
ReadForEntitlement(w) ==
    /\ Step(w, "recompute")
    /\ run' = [run EXCEPT ![w].seen = sub, ![w].pc = "grant"]
    /\ UNCHANGED <<delivery, inbox, job, books, faults>>

WriteEntitlement(w) ==
    /\ Step(w, "grant")
    /\ ent' = run[w].seen
    /\ applied' = applied \cup {run[w].event}
    /\ Goto(w, "settle")
    /\ UNCHANGED <<delivery, inbox, job, sub, faults>>

Settle(w) ==
    /\ Step(w, "settle")
    /\ inbox' = [inbox EXCEPT ![run[w].event].status = "processed"]
    /\ RunEnds(w, FALSE)
    /\ UNCHANGED <<delivery, books, faults>>

(* The catch block.  The event could not be found: nothing is written.     *)
FindFails(w) ==
    /\ Step(w, "find") /\ Fault
    /\ RunEnds(w, TRUE)
    /\ UNCHANGED <<delivery, inbox, books>>

(* No local plan has the price, or a call fails for a while.               *)
RunFails(w) ==
    /\ run[w].pc \in {"open", "ask", "save", "recompute", "grant", "settle"}
    /\ \/ run[w].event \in Poison /\ Step(w, "save") /\ UNCHANGED faults
       \/ Fault
    /\ Goto(w, "fail")
    /\ UNCHANGED <<delivery, inbox, job, books>>

(* Mutant: the catch block saves the status the try block would have set.  *)
SettleFailed_Processed(w) ==
    /\ Step(w, "fail")
    /\ inbox' = [inbox EXCEPT ![run[w].event].status = "processed"]
    /\ RunEnds(w, TRUE)
    /\ UNCHANGED <<delivery, books, faults>>

SettleFailed(w) ==
    LET e == run[w].event
    IN  /\ Step(w, "fail")
        /\ inbox' = [inbox EXCEPT ![e].status = SavedPath(@, run[w].status, "failed")]
        /\ RunEnds(w, TRUE)
        /\ UNCHANGED <<delivery, books, faults>>

(* The process stops: BullMQ finds the job stalled and runs it again, or   *)
(* gives it up; the sweep is forgotten.                                    *)
WorkerStops(w) ==
    /\ run[w].pc # "idle" /\ Fault
    /\ run' = [run EXCEPT ![w] = IdleRun]
    /\ IF w \in Workers
       THEN \E state \in {"waiting", "failed"} : job' = [job EXCEPT ![run[w].event].state = state]
       ELSE UNCHANGED job
    /\ UNCHANGED <<delivery, inbox, books>>

----------------------------------------------------------------------------
Receive(q) == Persist(q) \/ Enqueue(q) \/ Mark(q)
Process(w) ==
    \/ Find(w) \/ OpenSubscription(w) \/ AskStripe(w) \/ SaveSubscription(w)
    \/ ReadForEntitlement(w) \/ WriteEntitlement(w) \/ Settle(w)
    \/ SettleFailed(w)
    \/ RunFails(w) /\ UNCHANGED faults

Next ==
    \/ StripeChanges
    \/ \E q \in Requests : \/ Receive(q) \/ EnqueueFails(q) \/ RequestLost(q)
                           \/ \E e \in Events : Deliver(q, e)
    \/ \E e \in Events : JobEvicted(e) \/ EventAges(e) \/ \E w \in Workers : TakeJob(w, e)
    \/ \E w \in Sweeper : Sweep(w)
    \/ \E w \in Runs : Process(w) \/ FindFails(w) \/ RunFails(w) \/ WorkerStops(w)

Spec == Init /\ [][Next]_vars

(* Stripe delivers an event until it is answered; requests and workers run *)
(* on; BullMQ starts a job that waits; time passes; the sweep is repeated  *)
(* every hour.  Nothing is assumed of faults.                              *)
Fairness ==
    /\ \A e \in Events : WF_vars(\E q \in Requests : answered[e] = 0 /\ Deliver(q, e))
    /\ \A q \in Requests : WF_vars(Receive(q))
    /\ \A e \in Events : WF_vars(EventAges(e)) /\ WF_vars(\E w \in Workers : TakeJob(w, e))
    /\ \A w \in Sweeper : WF_vars(Sweep(w))
    /\ \A w \in Runs : WF_vars(Process(w))

FairSpec == Spec /\ Fairness

----------------------------------------------------------------------------
(* Every variable has its type: the inbox, the jobs and the runs hold only *)
(* the values their schema and their code give them.                       *)
TypeOK ==
    /\ remote \in Version /\ sub \in Version /\ ent \in Version
    /\ answered \in [Events -> 0 .. MaxDuplicates + Cardinality(Requests)]
    /\ request \in [Requests -> Request]
    /\ inbox \in [Events -> InboxDoc]
    /\ arrived \in [Events -> Nat]
    /\ job \in [Events -> Job]
    /\ run \in [Runs -> Run]
    /\ applied \subseteq Events
    /\ faults \in 0 .. MaxFaults

(* A processed event of a type that is handled has gone through the        *)
(* entitlement: no failure, crash or overlap of the worker with the sweep  *)
(* settles an event whose effect was never written.                        *)
ProcessedWasApplied ==
    \A e \in Events \ Ignored : inbox[e].status = "processed" => e \in applied

(* An event leaves "processed" only by a run that had loaded it before it  *)
(* was settled, and fails afterwards.                                      *)
OnlyOverlapReopens ==
    [][\A e \in Events :
          inbox[e].status = "processed" /\ inbox'[e].status # "processed"
            => \E w \in Runs : run[w].event = e /\ run[w].pc = "fail"]_vars

(* With one run at a time an event is settled for good: the job, its       *)
(* retries and the replays of one event come to one settlement.            *)
ProcessedForGood ==
    [][\A e \in Events :
          inbox[e].status = "processed" => inbox'[e].status = "processed"]_vars

(* Nothing is in flight, and every event Stripe has made is processed.     *)
Settled ==
    /\ \A w \in Runs : run[w].pc = "idle"
    /\ \A e \in 1 .. remote : inbox[e].status = "processed"

(* Between runs, when every event is processed, the workspace has the      *)
(* subscription Stripe has, and the entitlement of that: also after runs   *)
(* that failed or stopped half way.                                        *)
WorkspaceFollowsStripe == Settled => sub = StripeVersion /\ ent = sub

(* The two together: every variable has its type, and once the events are  *)
(* processed the workspace and its entitlement are what Stripe has.        *)
WorkspaceAsStripe == TypeOK /\ WorkspaceFollowsStripe

(* Every event that reached the inbox is processed in the end, although    *)
(* the queue, a request, a job or a worker may fail on the way.            *)
EveryEventProcessed ==
    \A e \in Events \ Poison : inbox[e].status # "none" ~> inbox[e].status = "processed"
============================================================================
