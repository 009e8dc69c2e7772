----------------------- MODULE BillingWebhooks_proofs -----------------------
(***************************************************************************)
(* Theorems about BillingWebhooks, for any number of events, deliveries,   *)
(* workers and faults.  What is said of several runs at once needs only    *)
(* what each of them has done so far; what is said of a single run needs   *)
(* that nobody else writes between its awaits.                             *)
(* And about the subscription of WorkspaceBilling, for any number of       *)
(* requests, days, plans and checkout sessions.                            *)
(***************************************************************************)
EXTENDS BillingWebhooks, WorkspaceBilling, WellFoundedInduction, FiniteSetTheorems, TLAPS

Known(e) == inbox[e].status # "none"
InFlight(e) == {q \in Requests : request[q].pc # "idle" /\ request[q].event = e}

(* Only what Stripe has made is delivered; what is queued, run or replayed *)
(* has reached the inbox.                                                  *)
RequestsHold ==
    \A q \in Requests :
       /\ request[q].pc # "idle" => request[q].event \in 1 .. remote
       /\ request[q].pc \in {"enqueue", "mark"} => Known(request[q].event)
RunsHold ==
    \A w \in Runs :
       /\ run[w].pc # "idle" => run[w].event \in Events /\ Known(run[w].event)
       /\ \A e \in run[w].todo : Known(e)
JobsHold == \A e \in Events : job[e].state # "none" => Known(e)
KnownMade == \A e \in Events : Known(e) => e =< remote

(* An event is not delivered more often than it may be.                    *)
AnswersLeft ==
    \A e \in Events :
       answered[e] + Cardinality(InFlight(e)) =< MaxDuplicates + Cardinality(Requests)

TypeInv ==
    /\ remote \in Version /\ sub \in Version /\ ent \in Version
    /\ answered \in [Events -> Nat]
    /\ request \in [Requests -> Request]
    /\ inbox \in [Events -> InboxDoc]
    /\ arrived \in [Events -> Nat]
    /\ job \in [Events -> Job]
    /\ run \in [Runs -> Run]
    /\ applied \subseteq Events
    /\ faults \in 0 .. MaxFaults
    /\ RequestsHold /\ RunsHold /\ JobsHold /\ KnownMade

----------------------------------------------------------------------------
(* The numbers and the operators. *)

LEMMA EventNumbers ==
    /\ Cardinality(Events) \in Nat
    /\ \A e \in Events : e \in Nat /\ e >= 1
    /\ \A v \in Version : v \in Nat
    /\ \A v \in Version : 1 .. v \subseteq Events
  <1>1. Cardinality(Events) \in Nat
    BY BillingAssumption, FS_CardinalityType
  <1>2. \A e : e \in Events <=> e \in Nat /\ e >= 1 /\ e =< Cardinality(Events)
    BY <1>1, BillingAssumption
  <1>. QED
    BY <1>1, <1>2 DEF Version

Less == {m \in Nat \X Nat : m[1] < m[2]}

LEMMA LessWellFounded == IsWellFoundedOn(Less, Nat)
  BY NatLessThanWellFounded DEF OpToRel, Less

(* A non-empty set of numbers has a least one.                             *)
LEMMA LeastNumber ==
    ASSUME NEW N \in SUBSET Nat, N # {}
    PROVE  \E m \in N : \A n \in N : m =< n
  <1>1. PICK m \in N : \A n \in N : <<n, m>> \notin Less
    BY LessWellFounded, WFMin
  <1>2. ASSUME NEW n \in N PROVE m =< n
    <2>1. m \in Nat /\ n \in Nat /\ ~(n < m)
      BY <1>1 DEF Less
    <2>. QED
      BY <2>1
  <1>. QED
    BY <1>2

LEMMA EarliestExists ==
    ASSUME arrived \in [Events -> Nat], NEW events \in SUBSET Events, events # {}
    PROVE  Earliest(events) \in events
  <1>1. {arrived[e] : e \in events} \in SUBSET Nat /\ {arrived[e] : e \in events} # {}
    OBVIOUS
  <1>2. PICK m \in {arrived[e] : e \in events} : \A n \in {arrived[e] : e \in events} : m =< n
    BY <1>1, LeastNumber
  <1>3. PICK e \in events : m = arrived[e]
    BY <1>2
  <1>4. \A d \in events : arrived[e] =< arrived[d]
    BY <1>2, <1>3
  <1>. QED
    BY <1>3, <1>4 DEF Earliest

(* Stripe's version is the latest it has announced: the least number that  *)
(* none of them exceeds is one of them.                                    *)
LEMMA StripeVersionIsLatest ==
    ASSUME remote \in Version
    PROVE  /\ StripeVersion \in Announced /\ \A e \in Announced : e =< StripeVersion
           /\ Announced \subseteq Version
  <1>1. Announced \in SUBSET Nat /\ remote \in Nat /\ Announced \subseteq Version
    BY EventNumbers DEF Announced, Version
  <1>. DEFINE Above == {u \in Nat : \A e \in Announced : e =< u}
  <1>2. remote \in Above
    BY <1>1 DEF Announced
  <1>3. PICK u \in Above : \A v \in Above : u =< v
    BY <1>2, LeastNumber
  <1>4. u \in Announced
    <2>. SUFFICES ASSUME u \notin Announced PROVE FALSE
      OBVIOUS
    <2>1. u > 0 /\ u \in Nat
      BY <1>3 DEF Announced
    <2>2. ASSUME NEW e \in Announced PROVE e =< u - 1
      <3>1. e \in Nat /\ e =< u /\ e # u
        BY <1>1, <1>3
      <3>. QED
        BY <2>1, <3>1
    <2>3. u - 1 \in Above
      BY <2>1, <2>2
    <2>. QED
      BY <1>3, <2>1, <2>3
  <1>5. \A e \in Announced : e =< u
    BY <1>3
  <1>. QED
    BY <1>1, <1>4, <1>5 DEF StripeVersion

LEMMA IdleTypes == IdleRequest \in Request /\ IdleRun \in Run
  BY DEF IdleRequest, Request, IdleRun, Run, Version, NoEvent

(* A run starts on an event it was given, and has the others still to do.  *)
LEMMA ProcessingStarts ==
    ASSUME arrived \in [Events -> Nat], NEW events \in SUBSET Events
    PROVE  /\ Processing(events) \in Run
           /\ Processing(events).pc \in {"idle", "find"}
           /\ Processing(events).pc # "idle" => Processing(events).event \in events
           /\ Processing(events).todo \subseteq events
  <1>1. CASE events = {}
    BY <1>1, IdleTypes DEF Processing, IdleRun
  <1>2. CASE events # {}
    <2>1. PICK e \in events : e = Earliest(events)
      BY <1>2, EarliestExists
    <2>2. Processing(events) = [IdleRun EXCEPT !.pc = "find", !.event = e, !.todo = events \ {e}]
      BY <1>2, <2>1 DEF Processing
    <2>. QED
      BY <2>2, IdleTypes DEF Run, IdleRun
  <1>. QED
    BY <1>1, <1>2

----------------------------------------------------------------------------
(* Types *)

LEMMA InitType == Init => TypeInv
  <1>. SUFFICES ASSUME Init PROVE TypeInv
    OBVIOUS
  <1>1. /\ request \in [Requests -> Request] /\ run \in [Runs -> Run]
        /\ inbox \in [Events -> InboxDoc] /\ job \in [Events -> Job]
    BY IdleTypes DEF Init, InboxDoc, Job
  <1>2. \A e \in Events : ~Known(e) /\ job[e].state = "none"
    BY DEF Init, Known
  <1>3. \A q \in Requests : request[q].pc = "idle"
    BY DEF Init, IdleRequest
  <1>4. \A w \in Runs : run[w].pc = "idle" /\ run[w].todo = {}
    BY DEF Init, IdleRun
  <1>5. faults \in 0 .. MaxFaults
    BY BillingAssumption DEF Init
  <1>. QED
    BY <1>1, <1>2, <1>3, <1>4, <1>5
       DEF Init, TypeInv, RequestsHold, RunsHold, JobsHold, KnownMade, Version
(* How the status of an event changes: it arrives, a run settles it, or a  *)
(* run that did not load it as failed notes its failure.                   *)
StatusMoves(e) ==
    \/ inbox'[e].status = inbox[e].status
    \/ inbox[e].status = "none" /\ inbox'[e].status = "pending" /\ e =< remote
    \/ \E w \in Runs : /\ run[w].event = e /\ Settle(w) /\ inbox'[e].status = "processed"
    \/ \E w \in Runs : /\ run[w].event = e /\ SettleFailed(w) /\ inbox[e].status # "none"
                       /\ run[w].status # "failed" /\ inbox'[e].status = "failed"

LEMMA InboxMoves ==
    ASSUME TypeInv, Next
    PROVE  inbox' \in [Events -> InboxDoc] /\ \A e \in Events : StatusMoves(e)
  <1>0. inbox \in [Events -> InboxDoc] /\ \A e \in Events : inbox[e] \in InboxDoc
    BY DEF TypeInv
  <1>1. CASE inbox' = inbox
    BY <1>0, <1>1 DEF StatusMoves
  <1>2. ASSUME NEW d \in Events, NEW doc \in InboxDoc, inbox' = [inbox EXCEPT ![d] = doc]
        PROVE  /\ inbox' \in [Events -> InboxDoc] /\ inbox'[d] = doc
               /\ \A e \in Events \ {d} : StatusMoves(e)
    BY <1>0, <1>2 DEF StatusMoves
  <1>3. ASSUME NEW q \in Requests, Persist(q), inbox' # inbox
        PROVE  inbox' \in [Events -> InboxDoc] /\ \A e \in Events : StatusMoves(e)
    <2>1. PICK d : d = request[q].event
      OBVIOUS
    <2>2. d \in Events /\ d =< remote
      BY <1>3, <2>1, EventNumbers DEF Persist, TypeInv, RequestsHold
    <2>3. inbox[d].status = "none"
          /\ inbox' = [inbox EXCEPT ![d] = [inbox[d] EXCEPT !.status = "pending"]]
      BY <1>3, <2>1 DEF Persist
    <2>4. [inbox[d] EXCEPT !.status = "pending"] \in InboxDoc
          /\ [inbox[d] EXCEPT !.status = "pending"].status = "pending"
      BY <1>0, <2>2 DEF InboxDoc
    <2>. QED
      BY ZenonT(40), <1>2, <2>2, <2>3, <2>4 DEF StatusMoves
  <1>4. ASSUME NEW q \in Requests, Mark(q)
        PROVE  inbox' \in [Events -> InboxDoc] /\ \A e \in Events : StatusMoves(e)
    <2>1. PICK d : d = request[q].event
      OBVIOUS
    <2>2. d \in Events
      BY <1>4, <2>1, EventNumbers DEF Mark, TypeInv, RequestsHold
    <2>3. inbox' = [inbox EXCEPT ![d] = [inbox[d] EXCEPT !.queued = TRUE]]
      BY <1>4, <2>1 DEF Mark
    <2>4. [inbox[d] EXCEPT !.queued = TRUE] \in InboxDoc
          /\ [inbox[d] EXCEPT !.queued = TRUE].status = inbox[d].status
      BY <1>0, <2>2 DEF InboxDoc
    <2>. QED
      BY <1>2, <2>2, <2>3, <2>4 DEF StatusMoves
  <1>5. ASSUME NEW d \in Events, EventAges(d)
        PROVE  inbox' \in [Events -> InboxDoc] /\ \A e \in Events : StatusMoves(e)
    <2>1. inbox' = [inbox EXCEPT ![d] = [inbox[d] EXCEPT !.old = TRUE]]
      BY <1>5 DEF EventAges
    <2>2. [inbox[d] EXCEPT !.old = TRUE] \in InboxDoc
          /\ [inbox[d] EXCEPT !.old = TRUE].status = inbox[d].status
      BY <1>0 DEF InboxDoc
    <2>. QED
      BY <1>2, <2>1, <2>2 DEF StatusMoves
  <1>6. ASSUME NEW w \in Runs, Settle(w)
        PROVE  inbox' \in [Events -> InboxDoc] /\ \A e \in Events : StatusMoves(e)
    <2>1. PICK d : d = run[w].event
      OBVIOUS
    <2>2. d \in Events
      BY <1>6, <2>1 DEF Settle, Step, TypeInv, RunsHold
    <2>3. inbox' = [inbox EXCEPT ![d] = [inbox[d] EXCEPT !.status = "processed"]]
      BY <1>6, <2>1 DEF Settle
    <2>4. [inbox[d] EXCEPT !.status = "processed"] \in InboxDoc
          /\ [inbox[d] EXCEPT !.status = "processed"].status = "processed"
      BY <1>0, <2>2 DEF InboxDoc
    <2>5. inbox'[d].status = "processed" /\ inbox' \in [Events -> InboxDoc]
          /\ \A e \in Events \ {d} : StatusMoves(e)
      BY <1>2, <2>2, <2>3, <2>4
    <2>6. StatusMoves(d)
      BY <1>6, <2>1, <2>5 DEF StatusMoves
    <2>. QED
      BY <2>2, <2>5, <2>6
  <1>7. ASSUME NEW w \in Runs, SettleFailed(w)
        PROVE  inbox' \in [Events -> InboxDoc] /\ \A e \in Events : StatusMoves(e)
    <2>1. PICK d : d = run[w].event
      OBVIOUS
    <2>2. d \in Events /\ inbox[d].status # "none"
      BY <1>7, <2>1 DEF SettleFailed, Step, TypeInv, RunsHold, Known
    <2>3. PICK st : /\ inbox' = [inbox EXCEPT ![d] = [inbox[d] EXCEPT !.status = st]]
                    /\ st = SavedPath(inbox[d].status, run[w].status, "failed")
      BY <1>7, <2>1 DEF SettleFailed
    <2>4. st = inbox[d].status \/ (st = "failed" /\ run[w].status # "failed")
      BY <2>3 DEF SavedPath
    <2>5. [inbox[d] EXCEPT !.status = st] \in InboxDoc
          /\ [inbox[d] EXCEPT !.status = st].status = st
      BY <1>0, <2>2, <2>4 DEF InboxDoc
    <2>6. inbox'[d].status = st /\ inbox' \in [Events -> InboxDoc]
          /\ \A e \in Events \ {d} : StatusMoves(e)
      BY <1>2, <2>2, <2>3, <2>5
    <2>7. StatusMoves(d)
      BY <1>7, <2>1, <2>2, <2>4, <2>6 DEF StatusMoves
    <2>. QED
      BY <2>2, <2>6, <2>7
  <1>8. \/ inbox' = inbox
        \/ \E q \in Requests : Persist(q) \/ Mark(q)
        \/ \E e \in Events : EventAges(e)
        \/ \E w \in Runs : Settle(w) \/ SettleFailed(w)
    BY DEF Next, Receive, Process, StripeChanges, Deliver, Enqueue, EnqueueFails, RequestLost,
           JobEvicted, TakeJob, Sweep, Find, OpenSubscription, AskStripe, SaveSubscription,
           ReadForEntitlement, WriteEntitlement, RunFails, FindFails, WorkerStops
  <1>. QED
    BY <1>1, <1>3, <1>4, <1>5, <1>6, <1>7, <1>8

LEMMA RemoteGrows ==
    ASSUME TypeInv, Next
    PROVE  remote' \in Version /\ remote =< remote' /\ remote \in Nat /\ remote' \in Nat
  <1>1. remote' = remote \/ (remote' = remote + 1 /\ remote + 1 \in Events)
    BY DEF Next, Receive, Process, StripeChanges, Deliver, Persist, Enqueue, Mark, EnqueueFails,
           RequestLost, JobEvicted, EventAges, TakeJob, Sweep, Find, OpenSubscription,
           AskStripe, SaveSubscription, ReadForEntitlement, WriteEntitlement, Settle,
           SettleFailed, RunFails, FindFails, WorkerStops, delivery
  <1>. QED
    BY <1>1, EventNumbers DEF TypeInv, Version

LEMMA KnownStays ==
    ASSUME TypeInv, Next
    PROVE  (\A e \in Events : Known(e) => Known(e)') /\ KnownMade'
  <1>1. remote' \in Version /\ remote =< remote'
    BY RemoteGrows
  <1>2. ASSUME NEW e \in Events
        PROVE  (Known(e) => Known(e)') /\ (Known(e)' => e =< remote')
    <2>1. inbox[e].status # inbox'[e].status => inbox'[e].status # "none"
      BY InboxMoves DEF StatusMoves
    <2>2. Known(e)' => e =< remote
      <3>1. CASE Known(e)
        BY <3>1 DEF TypeInv, KnownMade
      <3>2. CASE ~Known(e) /\ Known(e)'
        <4>1. StatusMoves(e)
          BY InboxMoves
        <4>2. \A w \in Runs : Settle(w) => run[w].event # e
          BY <3>2 DEF Settle, Step, TypeInv, RunsHold
        <4>. QED
          BY <3>2, <4>1, <4>2 DEF StatusMoves, Known
      <3>. QED
        BY <3>1, <3>2
    <2>3. e \in Nat /\ remote \in Nat /\ remote' \in Nat
      BY <1>1, EventNumbers DEF TypeInv
    <2>. QED
      BY <1>1, <2>1, <2>2, <2>3 DEF Known
  <1>. QED
    BY <1>2 DEF KnownMade
LEMMA RequestsGoOn ==
    ASSUME TypeInv, Next
    PROVE  request' \in [Requests -> Request] /\ RequestsHold'
  <1>. DEFINE Good(r) == /\ r \in Request
                         /\ r.pc # "idle" => r.event \in 1 .. remote'
                         /\ r.pc \in {"enqueue", "mark"} => inbox'[r.event].status # "none"
  <1>0. /\ request \in [Requests -> Request] /\ 1 .. remote \subseteq Events
        /\ \A q \in Requests : Good(request[q])
    <2>1. 1 .. remote \subseteq Events /\ 1 .. remote \subseteq 1 .. remote'
      BY RemoteGrows, EventNumbers DEF TypeInv
    <2>2. ASSUME NEW q \in Requests PROVE Good(request[q])
      <3>1. /\ request[q] \in Request
            /\ request[q].pc # "idle" => request[q].event \in 1 .. remote
            /\ request[q].pc \in {"enqueue", "mark"} => Known(request[q].event)
        BY DEF TypeInv, RequestsHold
      <3>2. request[q].pc \in {"enqueue", "mark"} => inbox'[request[q].event].status # "none"
        BY <2>1, <3>1, KnownStays DEF Known
      <3>. QED
        BY <2>1, <3>1, <3>2
    <2>. QED
      BY <2>1, <2>2 DEF TypeInv
  <1>1. ASSUME NEW q \in Requests, NEW r, request' = [request EXCEPT ![q] = r], Good(r)
        PROVE  request' \in [Requests -> Request] /\ RequestsHold'
    <2>1. \A p \in Requests : Good(request'[p])
      BY <1>0, <1>1
    <2>2. r \in Request
      BY <1>1
    <2>. QED
      BY <1>0, <1>1, <2>1, <2>2 DEF RequestsHold, Known
  <1>2. CASE request' = request
    BY <1>0, <1>2 DEF RequestsHold, Known
  <1>3. ASSUME NEW q \in Requests, request' = [request EXCEPT ![q] = IdleRequest]
        PROVE  request' \in [Requests -> Request] /\ RequestsHold'
    <2>1. Good(IdleRequest)
      BY IdleTypes DEF IdleRequest
    <2>. QED
      BY <1>1, <1>3, <2>1
  <1>4. ASSUME NEW q \in Requests, NEW e \in Events, Deliver(q, e)
        PROVE  request' \in [Requests -> Request] /\ RequestsHold'
    <2>1. request' = [request EXCEPT ![q] = [pc |-> "persist", event |-> e]]
          /\ e =< remote /\ remote' = remote
      BY <1>4 DEF Deliver
    <2>2. Good([pc |-> "persist", event |-> e])
      BY <2>1, EventNumbers, RemoteGrows DEF Request
    <2>. QED
      BY <1>1, <2>1, <2>2
  <1>5. ASSUME NEW q \in Requests, Persist(q) \/ Enqueue(q)
        PROVE  request' \in [Requests -> Request] /\ RequestsHold'
    <2>1. CASE request' = [request EXCEPT ![q] = IdleRequest]
      BY <1>3, <2>1
    <2>2. CASE request' # [request EXCEPT ![q] = IdleRequest]
      <3>1. PICK pc \in {"enqueue", "mark"} :
               request' = [request EXCEPT ![q] = [request[q] EXCEPT !.pc = pc]]
        BY <1>5, <2>2 DEF Persist, Enqueue, Answer
      <3>2. PICK e \in Events : e = request[q].event
        BY <1>0, <1>5 DEF Persist, Enqueue, TypeInv, RequestsHold
      <3>3. inbox'[e].status # "none"
        <4>1. CASE Known(e)
          BY <4>1, KnownStays DEF Known
        <4>2. CASE ~Known(e)
          <5>1. Persist(q)
            BY <1>5, <3>2, <4>2 DEF Enqueue, TypeInv, RequestsHold
          <5>2. inbox' = [inbox EXCEPT ![e].status = "pending"]
            BY <3>2, <4>2, <5>1 DEF Persist, Known
          <5>. QED
            BY <5>2 DEF TypeInv, InboxDoc
        <4>. QED
          BY <4>1, <4>2
      <3>4. Good(request[q]) /\ request[q].pc # "idle"
        BY <1>0, <1>5 DEF Persist, Enqueue
      <3>5. Good([request[q] EXCEPT !.pc = pc])
        BY <3>2, <3>3, <3>4 DEF Request
      <3>. QED
        BY <1>1, <3>1, <3>5
    <2>. QED
      BY <2>1, <2>2
  <1>6. ASSUME NEW q \in Requests, Mark(q) \/ EnqueueFails(q) \/ RequestLost(q)
        PROVE  request' \in [Requests -> Request] /\ RequestsHold'
    BY <1>3, <1>6 DEF Mark, EnqueueFails, RequestLost, Answer
  <1>7. \/ request' = request
        \/ \E q \in Requests : \/ \E e \in Events : Deliver(q, e)
                               \/ Persist(q) \/ Enqueue(q)
                               \/ Mark(q) \/ EnqueueFails(q) \/ RequestLost(q)
    BY DEF Next, Receive, Process, StripeChanges, JobEvicted, EventAges, TakeJob, Sweep, Find,
           OpenSubscription, AskStripe, SaveSubscription, ReadForEntitlement, WriteEntitlement,
           Settle, SettleFailed, RunFails, FindFails, WorkerStops, delivery
  <1>. QED
    BY <1>2, <1>4, <1>5, <1>6, <1>7
LEMMA RunsGoOn ==
    ASSUME TypeInv, Next
    PROVE  run' \in [Runs -> Run] /\ RunsHold'
  <1>. DEFINE Good(r) == /\ r \in Run
                         /\ r.pc # "idle" => r.event \in Events /\ inbox'[r.event].status # "none"
                         /\ \A e \in r.todo : inbox'[e].status # "none"
  <1>0. /\ run \in [Runs -> Run]
        /\ \A e \in Events : inbox[e].status # "none" => inbox'[e].status # "none"
        /\ sub \in Version /\ StripeVersion \in Version /\ arrived \in [Events -> Nat]
    BY KnownStays, StripeVersionIsLatest DEF TypeInv, Known
  <1>1. ASSUME NEW w \in Runs
        PROVE  run[w] \in Run /\ Good(run[w])
    <2>1. /\ run[w] \in Run
          /\ run[w].pc # "idle" => run[w].event \in Events /\ inbox[run[w].event].status # "none"
          /\ \A e \in run[w].todo : inbox[e].status # "none"
      BY DEF TypeInv, RunsHold, Known
    <2>2. run[w].todo \subseteq Events
      BY <2>1 DEF Run
    <2>. QED
      BY <1>0, <2>1, <2>2
  <1>2. ASSUME NEW w \in Runs, NEW r, run' = [run EXCEPT ![w] = r], Good(r)
        PROVE  run' \in [Runs -> Run] /\ RunsHold'
    <2>1. \A v \in Runs : Good(run'[v])
      BY <1>0, <1>1, <1>2
    <2>2. r \in Run
      BY <1>2
    <2>. QED
      BY <1>0, <1>2, <2>1, <2>2 DEF RunsHold, Known
  <1>3. CASE run' = run
    BY <1>0, <1>1, <1>3 DEF RunsHold, Known
  <1>4. ASSUME NEW w \in Runs, NEW events \in SUBSET Events, \A e \in events : Known(e),
               run' = [run EXCEPT ![w] = Processing(events)]
        PROVE  run' \in [Runs -> Run] /\ RunsHold'
    <2>1. /\ Processing(events) \in Run
          /\ Processing(events).pc # "idle" => Processing(events).event \in events
          /\ Processing(events).todo \subseteq events
      BY <1>0, ProcessingStarts
    <2>2. \A e \in events : e \in Events /\ inbox'[e].status # "none"
      BY <1>0, <1>4 DEF Known
    <2>3. Good(Processing(events))
      BY <2>1, <2>2
    <2>. QED
      BY <1>2, <1>4, <2>3
  <1>5. ASSUME NEW w \in Runs, NEW failed \in BOOLEAN, RunEnds(w, failed)
        PROVE  run' \in [Runs -> Run] /\ RunsHold'
    <2>1. run[w].todo \in SUBSET Events /\ \A e \in run[w].todo : Known(e)
      BY <1>1 DEF Run, TypeInv, RunsHold
    <2>. QED
      BY <1>4, <1>5, <2>1 DEF RunEnds
  <1>6. CASE (\E w \in Workers, e \in Events : TakeJob(w, e)) \/ \E w \in Sweeper : Sweep(w)
    <2>1. \A e \in Replayed : Known(e)
      BY DEF Replayed, ToReplay, Known
    <2>2. \A e \in Events : job[e].state = "waiting" => Known(e)
      BY DEF TypeInv, JobsHold
    <2>3. \E w \in Runs, events \in SUBSET Events :
             /\ \A e \in events : Known(e)
             /\ run' = [run EXCEPT ![w] = Processing(events)]
      <3>1. CASE \E w \in Workers, e \in Events : TakeJob(w, e)
        BY <2>2, <3>1 DEF TakeJob, Runs
      <3>2. CASE \E w \in Sweeper : Sweep(w)
        <4>1. Replayed \in SUBSET Events
          BY DEF Replayed
        <4>. QED
          BY <2>1, <3>2, <4>1 DEF Sweep, Runs
      <3>. QED
        BY <1>6, <3>1, <3>2
    <2>. QED
      BY <1>4, <2>3
  <1>7. ASSUME NEW w \in Runs, \/ Find(w) \/ Settle(w) \/ SettleFailed(w) \/ FindFails(w)
        PROVE  run' \in [Runs -> Run] /\ RunsHold'
    <2>1. CASE \E failed \in BOOLEAN : RunEnds(w, failed)
      BY <1>5, <2>1
    <2>2. CASE ~\E failed \in BOOLEAN : RunEnds(w, failed)
      <3>1. /\ run[w].pc = "find" /\ inbox[run[w].event].status # "processed"
            /\ \E pc \in {"settle", "open"} :
                 run' = [run EXCEPT ![w] =
                           [run[w] EXCEPT !.status = inbox[run[w].event].status, !.pc = pc]]
        BY <1>0, <1>7, <2>2 DEF Find, Settle, SettleFailed, FindFails, Step
      <3>2. PICK pc \in {"settle", "open"}, st \in {"pending", "failed"} :
               run' = [run EXCEPT ![w] = [run[w] EXCEPT !.status = st, !.pc = pc]]
        BY <3>1 DEF TypeInv, RunsHold, Known, InboxDoc
      <3>3. Good([run[w] EXCEPT !.status = st, !.pc = pc])
        BY <1>1, <3>1 DEF Run
      <3>. QED
        BY <1>2, <3>2, <3>3
    <2>. QED
      BY <2>1, <2>2
  <1>8. ASSUME NEW w \in Runs, \/ OpenSubscription(w) \/ AskStripe(w) \/ ReadForEntitlement(w)
        PROVE  run' \in [Runs -> Run] /\ RunsHold'
    <2>1. run[w].pc # "idle" /\ run[w].event \in Events /\ run[w].event \in Version
          /\ run[w].was \in Version /\ run[w].seen \in Version
      BY <1>1, <1>8 DEF OpenSubscription, AskStripe, ReadForEntitlement, Step, Run, Version
    <2>2. \E pc \in {"ask", "save", "grant"}, was \in Version, seen \in Version :
             run' = [run EXCEPT ![w] = [run[w] EXCEPT !.was = was, !.seen = seen, !.pc = pc]]
      <3>1. CASE OpenSubscription(w)
        <4>1. \E pc \in {"ask", "save"}, seen \in Version :
                 run' = [run EXCEPT ![w] = [run[w] EXCEPT !.was = sub, !.seen = seen, !.pc = pc]]
          BY <1>0, <2>1, <3>1 DEF OpenSubscription
        <4>. QED
          BY <1>0, <4>1
      <3>2. CASE AskStripe(w)
        <4>1. run' = [run EXCEPT ![w] = [run[w] EXCEPT !.was = run[w].was, !.seen = StripeVersion,
                                                      !.pc = "save"]]
          BY <1>0, <1>1, <3>2 DEF AskStripe, Run
        <4>. QED
          BY <1>0, <2>1, <4>1
      <3>3. CASE ReadForEntitlement(w)
        <4>1. run' = [run EXCEPT ![w] = [run[w] EXCEPT !.was = run[w].was, !.seen = sub,
                                                      !.pc = "grant"]]
          BY <1>0, <1>1, <3>3 DEF ReadForEntitlement, Run
        <4>. QED
          BY <1>0, <2>1, <4>1
      <3>. QED
        BY <1>8, <3>1, <3>2, <3>3
    <2>3. PICK pc \in {"ask", "save", "grant"}, was \in Version, seen \in Version :
             run' = [run EXCEPT ![w] = [run[w] EXCEPT !.was = was, !.seen = seen, !.pc = pc]]
      BY <2>2
    <2>4. Good([run[w] EXCEPT !.was = was, !.seen = seen, !.pc = pc])
      BY <1>1, <2>1 DEF Run
    <2>. QED
      BY <1>2, <2>3, <2>4
  <1>9. ASSUME NEW w \in Runs, \/ SaveSubscription(w) \/ WriteEntitlement(w) \/ RunFails(w)
        PROVE  run' \in [Runs -> Run] /\ RunsHold'
    <2>1. run[w].pc # "idle" /\ \E pc \in {"recompute", "settle", "fail"} :
             run' = [run EXCEPT ![w] = [run[w] EXCEPT !.pc = pc]]
      BY <1>9 DEF SaveSubscription, WriteEntitlement, RunFails, Goto, Step
    <2>2. PICK pc \in {"recompute", "settle", "fail"} :
             run' = [run EXCEPT ![w] = [run[w] EXCEPT !.pc = pc]]
      BY <2>1
    <2>3. Good([run[w] EXCEPT !.pc = pc])
      BY <1>1, <2>1 DEF Run
    <2>. QED
      BY <1>2, <2>2, <2>3
  <1>10. ASSUME NEW w \in Runs, WorkerStops(w)
         PROVE  run' \in [Runs -> Run] /\ RunsHold'
    <2>1. Good(IdleRun)
      BY IdleTypes DEF IdleRun
    <2>. QED
      BY <1>2, <1>10, <2>1 DEF WorkerStops
  <1>11. \/ run' = run
         \/ (\E w \in Workers, e \in Events : TakeJob(w, e)) \/ \E w \in Sweeper : Sweep(w)
         \/ \E w \in Runs : \/ Find(w) \/ Settle(w) \/ SettleFailed(w) \/ FindFails(w)
                            \/ OpenSubscription(w) \/ AskStripe(w) \/ ReadForEntitlement(w)
                            \/ SaveSubscription(w) \/ WriteEntitlement(w) \/ RunFails(w)
                            \/ WorkerStops(w)
    BY DEF Next, Process, Receive, StripeChanges, Deliver, Persist, Enqueue, Mark, EnqueueFails,
           RequestLost, JobEvicted, EventAges
  <1>. QED
    BY <1>3, <1>6, <1>7, <1>8, <1>9, <1>10, <1>11
LEMMA JobsGoOn ==
    ASSUME TypeInv, Next
    PROVE  job' \in [Events -> Job] /\ JobsHold'
  <1>0. /\ job \in [Events -> Job]
        /\ \A e \in Events : inbox[e].status # "none" => inbox'[e].status # "none"
        /\ \A e \in Events : job[e].state # "none" => inbox[e].status # "none"
    BY KnownStays DEF TypeInv, JobsHold, Known
  <1>1. CASE job' = job
    BY <1>0, <1>1 DEF JobsHold, Known
  <1>2. ASSUME NEW e \in Events, NEW j \in Job, job' = [job EXCEPT ![e] = j],
               j.state # "none" => inbox[e].status # "none"
        PROVE  job' \in [Events -> Job] /\ JobsHold'
    <2>1. job' \in [Events -> Job]
      BY <1>0, <1>2
    <2>2. ASSUME NEW d \in Events, job'[d].state # "none" PROVE inbox'[d].status # "none"
      BY <1>0, <1>2, <2>2
    <2>. QED
      BY <2>1, <2>2 DEF JobsHold, Known
  <1>3. ASSUME NEW w \in Runs, NEW failed \in BOOLEAN, run[w].pc # "idle", JobEnds(w, failed)
        PROVE  job' \in [Events -> Job] /\ JobsHold'
    <2>1. PICK e \in Events : e = run[w].event /\ inbox[e].status # "none"
      BY <1>3 DEF TypeInv, RunsHold, Known
    <2>2. CASE w \in Workers /\ ~failed
      <3>1. job' = [job EXCEPT ![e] = [job[e] EXCEPT !.state = "completed"]]
        BY <1>3, <2>1, <2>2 DEF JobEnds
      <3>2. [job[e] EXCEPT !.state = "completed"] \in Job
        BY <1>0 DEF Job
      <3>. QED
        BY <1>2, <2>1, <3>1, <3>2
    <2>3. CASE w \in Workers /\ failed
      <3>1. PICK state \in {"waiting", "failed"} :
               job' = [job EXCEPT ![e] = [state |-> state, tries |-> job[e].tries + 1]]
        BY <1>3, <2>1, <2>3 DEF JobEnds
      <3>2. [state |-> state, tries |-> job[e].tries + 1] \in Job
        <4>1. job[e].tries \in Nat
          BY <1>0 DEF Job
        <4>2. job[e].tries + 1 \in Nat
          BY <4>1
        <4>. QED
          BY <4>2 DEF Job
      <3>. QED
        BY <1>2, <2>1, <3>1, <3>2
    <2>4. CASE w \notin Workers
      BY <1>1, <1>3, <2>4 DEF JobEnds
    <2>. QED
      BY <2>2, <2>3, <2>4
  <1>4. ASSUME NEW q \in Requests, Enqueue(q)
        PROVE  job' \in [Events -> Job] /\ JobsHold'
    <2>1. PICK e \in Events : e = request[q].event /\ inbox[e].status # "none"
      BY <1>4, EventNumbers DEF Enqueue, TypeInv, RequestsHold, Known
    <2>2. PICK j : /\ job' = [job EXCEPT ![e] = j]
                   /\ j = [state |-> "waiting", tries |-> 0] \/ j = job[e]
      BY <1>4, <2>1 DEF Enqueue
    <2>3. j \in Job
      BY <1>0, <2>2 DEF Job
    <2>. QED
      BY <1>2, <2>1, <2>2, <2>3
  <1>5. ASSUME NEW w \in Workers, NEW e \in Events, TakeJob(w, e)
        PROVE  job' \in [Events -> Job] /\ JobsHold'
    <2>1. job' = [job EXCEPT ![e] = [job[e] EXCEPT !.state = "active"]] /\ job[e].state = "waiting"
      BY <1>5 DEF TakeJob
    <2>2. [job[e] EXCEPT !.state = "active"] \in Job
      BY <1>0 DEF Job
    <2>. QED
      BY <1>0, <1>2, <2>1, <2>2
  <1>6. ASSUME NEW e \in Events, JobEvicted(e)
        PROVE  job' \in [Events -> Job] /\ JobsHold'
    <2>1. job' = [job EXCEPT ![e] = [state |-> "none", tries |-> 0]]
      BY <1>6 DEF JobEvicted
    <2>2. [state |-> "none", tries |-> 0] \in Job
      BY DEF Job
    <2>. QED
      BY <1>2, <2>1, <2>2
  <1>7. ASSUME NEW w \in Runs, WorkerStops(w)
        PROVE  job' \in [Events -> Job] /\ JobsHold'
    <2>1. CASE w \in Workers
      <3>1. PICK e \in Events : e = run[w].event /\ inbox[e].status # "none"
        BY <1>7 DEF WorkerStops, TypeInv, RunsHold, Known
      <3>2. PICK state \in {"waiting", "failed"} :
               job' = [job EXCEPT ![e] = [job[e] EXCEPT !.state = state]]
        BY <1>7, <2>1, <3>1 DEF WorkerStops
      <3>3. [job[e] EXCEPT !.state = state] \in Job
        BY <1>0 DEF Job
      <3>. QED
        BY <1>2, <3>1, <3>2, <3>3
    <2>2. CASE w \notin Workers
      BY <1>1, <1>7, <2>2 DEF WorkerStops
    <2>. QED
      BY <2>1, <2>2
  <1>8. \/ job' = job
        \/ \E q \in Requests : Enqueue(q)
        \/ \E e \in Events : JobEvicted(e) \/ \E w \in Workers : TakeJob(w, e)
        \/ \E w \in Runs, failed \in BOOLEAN : run[w].pc # "idle" /\ JobEnds(w, failed)
        \/ \E w \in Runs : WorkerStops(w)
    <2>1. ASSUME NEW w \in Runs,
                 \/ Find(w) \/ Settle(w) \/ SettleFailed(w) \/ FindFails(w)
          PROVE  job' = job \/ \E failed \in BOOLEAN : run[w].pc # "idle" /\ JobEnds(w, failed)
      BY <2>1 DEF Find, Settle, SettleFailed, FindFails, RunEnds, Step
    <2>2. ASSUME NEW w \in Runs,
                 \/ OpenSubscription(w) \/ AskStripe(w) \/ SaveSubscription(w)
                 \/ ReadForEntitlement(w) \/ WriteEntitlement(w) \/ RunFails(w)
          PROVE  job' = job
      BY <2>2 DEF OpenSubscription, AskStripe, SaveSubscription, ReadForEntitlement,
                  WriteEntitlement, RunFails
    <2>3. ASSUME NEW q \in Requests,
                 \/ Persist(q) \/ Mark(q) \/ EnqueueFails(q) \/ RequestLost(q)
                 \/ \E e \in Events : Deliver(q, e)
          PROVE  job' = job
      BY <2>3 DEF Persist, Mark, EnqueueFails, RequestLost, Deliver
    <2>4. (StripeChanges \/ (\E e \in Events : EventAges(e)) \/ \E w \in Sweeper : Sweep(w))
          => job' = job
      BY DEF StripeChanges, EventAges, Sweep
    <2>. QED
      BY <2>1, <2>2, <2>3, <2>4 DEF Next, Process, Receive
  <1>. QED
    BY <1>1, <1>3, <1>4, <1>5, <1>6, <1>7, <1>8

LEMMA BooksGoOn ==
    ASSUME TypeInv, Next
    PROVE  /\ sub' \in Version /\ ent' \in Version /\ applied' \subseteq Events
           /\ faults' \in 0 .. MaxFaults
           /\ answered' \in [Events -> Nat] /\ arrived' \in [Events -> Nat]
  <1>1. sub' \in Version
    <2>1. sub' = sub \/ \E w \in Runs : sub' = SavedPath(sub, run[w].was, run[w].seen)
      BY DEF Next, Receive, Process, StripeChanges, Deliver, Persist, Enqueue, Mark, EnqueueFails,
             RequestLost, JobEvicted, EventAges, TakeJob, Sweep, Find, OpenSubscription,
             AskStripe, SaveSubscription, ReadForEntitlement, WriteEntitlement, Settle,
             SettleFailed, RunFails, FindFails, WorkerStops, books
    <2>2. \A w \in Runs : run[w].seen \in Version
      BY DEF TypeInv, Run
    <2>. QED
      BY <2>1, <2>2 DEF SavedPath, TypeInv
  <1>2. ent' \in Version /\ applied' \subseteq Events
    <2>1. \/ ent' = ent /\ applied' = applied
          \/ \E w \in Runs : run[w].pc # "idle" /\ ent' = run[w].seen
                             /\ applied' = applied \cup {run[w].event}
      BY DEF Next, Receive, Process, StripeChanges, Deliver, Persist, Enqueue, Mark, EnqueueFails,
             RequestLost, JobEvicted, EventAges, TakeJob, Sweep, Find, OpenSubscription,
             AskStripe, SaveSubscription, ReadForEntitlement, WriteEntitlement, Settle,
             SettleFailed, RunFails, FindFails, WorkerStops, books, Step
    <2>2. \A w \in Runs : run[w].seen \in Version
                         /\ (run[w].pc # "idle" => run[w].event \in Events)
      BY DEF TypeInv, Run, RunsHold
    <2>. QED
      BY <2>1, <2>2 DEF TypeInv
  <1>3. faults' \in 0 .. MaxFaults
    <2>1. faults' = faults \/ Fault
      BY DEF Next, Receive, Process, StripeChanges, Deliver, Persist, Enqueue, Mark, EnqueueFails,
             RequestLost, JobEvicted, EventAges, TakeJob, Sweep, Find, OpenSubscription,
             AskStripe, SaveSubscription, ReadForEntitlement, WriteEntitlement, Settle,
             SettleFailed, RunFails, FindFails, WorkerStops
    <2>. QED
      BY <2>1, BillingAssumption DEF Fault, TypeInv
  <1>4. answered' \in [Events -> Nat]
    <2>1. \/ answered' = answered
          \/ \E q \in Requests : Answer(q) /\ request[q].pc # "idle"
      BY DEF Next, Receive, Process, StripeChanges, Deliver, Persist, Enqueue, Mark, EnqueueFails,
             RequestLost, JobEvicted, EventAges, TakeJob, Sweep, Find, OpenSubscription,
             AskStripe, SaveSubscription, ReadForEntitlement, WriteEntitlement, Settle,
             SettleFailed, RunFails, FindFails, WorkerStops, delivery
    <2>2. ASSUME NEW e \in Events, answered' = [answered EXCEPT ![e] = @ + 1]
          PROVE  answered' \in [Events -> Nat]
      BY <2>2 DEF TypeInv
    <2>3. \A q \in Requests : request[q].pc # "idle" => request[q].event \in Events
      BY EventNumbers DEF TypeInv, RequestsHold
    <2>. QED
      BY <2>1, <2>2, <2>3 DEF Answer, TypeInv
  <1>5. arrived' \in [Events -> Nat]
    <2>1. arrived' = arrived \/ \E e : arrived' = ArrivesNow(e)
      BY DEF Next, Receive, Process, StripeChanges, Deliver, Persist, Enqueue, Mark, EnqueueFails,
             RequestLost, JobEvicted, EventAges, TakeJob, Sweep, Find, OpenSubscription,
             AskStripe, SaveSubscription, ReadForEntitlement, WriteEntitlement, Settle,
             SettleFailed, RunFails, FindFails, WorkerStops, delivery
    <2>2. IsFiniteSet({d \in Events : arrived[d] # 0})
      BY BillingAssumption, FS_Subset
    <2>3. Cardinality({d \in Events : arrived[d] # 0}) \in Nat
      BY <2>2, FS_CardinalityType
    <2>4. ASSUME NEW e, NEW n \in Nat, arrived' = [arrived EXCEPT ![e] = n]
          PROVE  arrived' \in [Events -> Nat]
      BY <2>4 DEF TypeInv
    <2>. QED
      BY <2>1, <2>3, <2>4 DEF ArrivesNow, TypeInv
  <1>. QED
    BY <1>1, <1>2, <1>3, <1>4, <1>5

LEMMA NextType == TypeInv /\ [Next]_vars => TypeInv'
  <1>1. TypeInv /\ UNCHANGED vars => TypeInv'
    BY DEF TypeInv, RequestsHold, RunsHold, JobsHold, KnownMade, Known, vars
  <1>2. TypeInv /\ Next => TypeInv'
    BY InboxMoves, RemoteGrows, KnownStays, RequestsGoOn, RunsGoOn, JobsGoOn, BooksGoOn
       DEF TypeInv
  <1>. QED
    BY <1>1, <1>2

LEMMA Typed == Spec => []TypeInv
  BY InitType, NextType, PTL DEF Spec
----------------------------------------------------------------------------
(* What the runs do. *)

(* A run that is past loading its event goes through these steps, on the   *)
(* event it has loaded.                                                    *)
Advances(w) ==
    LET r == run[w]
        s == run'[w]
    IN  /\ s.event = r.event /\ r.pc # "idle"
        /\ \/ /\ Find(w) /\ inbox[r.event].status # "processed"
              /\ \/ s.pc = "settle" /\ r.event \in Ignored
                 \/ s.pc = "open" /\ r.event \notin Ignored
           \/ /\ OpenSubscription(w) /\ s.was = sub
              /\ s.pc = (IF r.event \in Lookups THEN "ask" ELSE "save")
           \/ AskStripe(w) /\ s.pc = "save" /\ s.was = r.was /\ s.seen = StripeVersion
           \/ SaveSubscription(w) /\ s.pc = "recompute"
           \/ ReadForEntitlement(w) /\ s.pc = "grant" /\ s.seen = sub
           \/ WriteEntitlement(w) /\ s.pc = "settle"
           \/ RunFails(w) /\ s.pc = "fail"

LEMMA RunAdvances ==
    ASSUME TypeInv, Next, NEW w \in Runs, run'[w].pc \notin {"idle", "find"}
    PROVE  run'[w] = run[w] \/ Advances(w)
  <1>0. run \in [Runs -> Run] /\ run[w] \in Run /\ arrived \in [Events -> Nat]
        /\ \A v \in Runs : run[v].todo \in SUBSET Events
    BY DEF TypeInv, Run
  <1>1. ASSUME NEW v \in Runs, NEW events \in SUBSET Events,
               run' = [run EXCEPT ![v] = Processing(events)]
        PROVE  run'[w] = run[w]
    <2>1. Processing(events).pc \in {"idle", "find"}
      BY <1>0, ProcessingStarts
    <2>. QED
      BY <1>0, <1>1, <2>1
  <1>2. ASSUME NEW v \in Runs, NEW r, run' = [run EXCEPT ![v] = r], v # w
        PROVE  run'[w] = run[w]
    BY <1>0, <1>2
  <1>3. ASSUME NEW v \in Runs, NEW failed \in BOOLEAN, RunEnds(v, failed)
        PROVE  run'[w] = run[w]
    BY <1>0, <1>1, <1>3 DEF RunEnds
  <1>4. ASSUME (\E v \in Workers, e \in Events : TakeJob(v, e)) \/ \E v \in Sweeper : Sweep(v)
        PROVE  run'[w] = run[w]
    <2>1. \E v \in Runs, events \in SUBSET Events : run' = [run EXCEPT ![v] = Processing(events)]
      <3>1. CASE \E v \in Workers, e \in Events : TakeJob(v, e)
        BY ZenonT(40), <3>1 DEF TakeJob, Runs
      <3>2. CASE \E v \in Sweeper : Sweep(v)
        <4>1. Replayed \in SUBSET Events
          BY DEF Replayed
        <4>. QED
          BY <3>2, <4>1 DEF Sweep, Runs
      <3>. QED
        BY <1>4, <3>1, <3>2
    <2>. QED
      BY <1>1, <2>1
  <1>5. ASSUME NEW v \in Runs, WorkerStops(v) PROVE run'[w] = run[w]
    BY <1>0, <1>5 DEF WorkerStops, IdleRun
  <1>6. ASSUME NEW v \in Runs, Find(v) \/ Settle(v) \/ SettleFailed(v) \/ FindFails(v)
        PROVE  run'[w] = run[w] \/ Advances(w)
    <2>1. CASE \E failed \in BOOLEAN : RunEnds(v, failed)
      BY <1>3, <2>1
    <2>2. CASE ~\E failed \in BOOLEAN : RunEnds(v, failed)
      <3>1. PICK pc, st :
               /\ Find(v) /\ run[v].pc = "find" /\ inbox[run[v].event].status # "processed"
               /\ pc = (IF run[v].event \in Ignored THEN "settle" ELSE "open")
               /\ run' = [run EXCEPT ![v] = [run[v] EXCEPT !.status = st, !.pc = pc]]
        BY <1>0, <1>6, <2>2 DEF Find, Settle, SettleFailed, FindFails, Step
      <3>2. CASE v = w
        <4>1. run'[w].pc = pc /\ run'[w].event = run[w].event
          BY <1>0, <3>1, <3>2 DEF Run
        <4>2. \/ pc = "settle" /\ run[w].event \in Ignored
              \/ pc = "open" /\ run[w].event \notin Ignored
          BY <3>1, <3>2
        <4>. QED
          BY <3>1, <3>2, <4>1, <4>2 DEF Advances
      <3>. QED
        BY <1>2, <3>1, <3>2
    <2>. QED
      BY <2>1, <2>2
  <1>7. ASSUME NEW v \in Runs,
               \/ OpenSubscription(v) \/ AskStripe(v) \/ SaveSubscription(v)
               \/ ReadForEntitlement(v) \/ WriteEntitlement(v) \/ RunFails(v)
        PROVE  run'[w] = run[w] \/ Advances(w)
    <2>1. CASE v # w
      BY <1>0, <1>7, <2>1 DEF OpenSubscription, AskStripe, SaveSubscription, ReadForEntitlement,
                              WriteEntitlement, RunFails, Goto
    <2>2. CASE v = w /\ OpenSubscription(w)
      BY <1>0, <2>2 DEF OpenSubscription, Advances, Run, Step
    <2>3. CASE v = w /\ AskStripe(w)
      BY <1>0, <2>3 DEF AskStripe, Advances, Run, Step
    <2>4. CASE v = w /\ SaveSubscription(w)
      BY <1>0, <2>4 DEF SaveSubscription, Advances, Run, Step, Goto
    <2>5. CASE v = w /\ ReadForEntitlement(w)
      BY <1>0, <2>5 DEF ReadForEntitlement, Advances, Run, Step
    <2>6. CASE v = w /\ WriteEntitlement(w)
      BY <1>0, <2>6 DEF WriteEntitlement, Advances, Run, Step, Goto
    <2>7. CASE v = w /\ RunFails(w)
      BY <1>0, <2>7 DEF RunFails, Advances, Run, Step, Goto
    <2>. QED
      BY <1>7, <2>1, <2>2, <2>3, <2>4, <2>5, <2>6, <2>7
  <1>8. \/ run' = run
        \/ (\E v \in Workers, e \in Events : TakeJob(v, e)) \/ \E v \in Sweeper : Sweep(v)
        \/ \E v \in Runs : \/ Find(v) \/ Settle(v) \/ SettleFailed(v) \/ FindFails(v)
                           \/ OpenSubscription(v) \/ AskStripe(v) \/ ReadForEntitlement(v)
                           \/ SaveSubscription(v) \/ WriteEntitlement(v) \/ RunFails(v)
                           \/ WorkerStops(v)
    BY DEF Next, Process, Receive, StripeChanges, Deliver, Persist, Enqueue, Mark, EnqueueFails,
           RequestLost, JobEvicted, EventAges
  <1>. QED
    BY <1>4, <1>5, <1>6, <1>7, <1>8

(* The subscription and the entitlement change by these two steps only.    *)
LEMMA BooksChange ==
    ASSUME Next
    PROVE  /\ sub' = sub \/ \E w \in Runs : SaveSubscription(w)
           /\ (ent' = ent /\ applied' = applied) \/ \E w \in Runs : WriteEntitlement(w)
  <1>1. sub' = sub \/ \E w \in Runs : SaveSubscription(w)
    BY DEF Next, Receive, Process, StripeChanges, Deliver, Persist, Enqueue, Mark, EnqueueFails,
           RequestLost, JobEvicted, EventAges, TakeJob, Sweep, Find, OpenSubscription, AskStripe,
           WriteEntitlement, ReadForEntitlement, Settle, SettleFailed, RunFails, FindFails,
           WorkerStops, books
  <1>2. (ent' = ent /\ applied' = applied) \/ \E w \in Runs : WriteEntitlement(w)
    BY DEF Next, Receive, Process, StripeChanges, Deliver, Persist, Enqueue, Mark, EnqueueFails,
           RequestLost, JobEvicted, EventAges, TakeJob, Sweep, Find, OpenSubscription, AskStripe,
           SaveSubscription, ReadForEntitlement, Settle, SettleFailed, RunFails, FindFails,
           WorkerStops, books
  <1>. QED
    BY <1>1, <1>2

----------------------------------------------------------------------------
(* Several runs at once *)

(* The code above settles an event as failed only after a run of its own   *)
(* on that event; so whoever takes "processed" from it has failed on it.   *)
THEOREM OnlyOverlapsReopen == Spec => OnlyOverlapReopens
  <1>1. TypeInv /\ [Next]_vars =>
          [\A e \in Events :
             inbox[e].status = "processed" /\ inbox'[e].status # "processed"
               => \E w \in Runs : run[w].event = e /\ run[w].pc = "fail"]_vars
    <2>1. ASSUME TypeInv, Next, NEW e \in Events,
                 inbox[e].status = "processed", inbox'[e].status # "processed"
          PROVE  \E w \in Runs : run[w].event = e /\ run[w].pc = "fail"
      BY <2>1, InboxMoves DEF StatusMoves, SettleFailed, Step
    <2>. QED
      BY <2>1
  <1>. QED
    BY <1>1, Typed, PTL DEF Spec, OnlyOverlapReopens

(* A run that is about to settle an event it handles has written the       *)
(* entitlement for it.                                                     *)
SettlesApplied ==
    \A w \in Runs : run[w].pc = "settle" /\ run[w].event \notin Ignored => run[w].event \in applied

(* No failure, crash, retry or overlap of the worker with the sweep marks  *)
(* an event as processed whose effect was never written.                   *)
THEOREM ProcessedEventsWereApplied == Spec => []ProcessedWasApplied
  <1>. DEFINE Inv == SettlesApplied /\ ProcessedWasApplied
  <1>1. Init => Inv
    <2>. SUFFICES ASSUME Init PROVE Inv
      OBVIOUS
    <2>1. \A e \in Events : inbox[e].status = "none"
      BY DEF Init
    <2>2. \A w \in Runs : run[w].pc = "idle"
      BY DEF Init, IdleRun
    <2>. QED
      BY <2>1, <2>2 DEF SettlesApplied, ProcessedWasApplied
  <1>2. TypeInv /\ Inv /\ [Next]_vars => Inv'
    <2>1. Inv /\ UNCHANGED vars => Inv'
      BY DEF SettlesApplied, ProcessedWasApplied, vars
    <2>2. ASSUME TypeInv, Inv, Next PROVE Inv'
      <3>1. applied \subseteq applied'
        BY <2>2, BooksChange DEF WriteEntitlement
      <3>2. ASSUME NEW w \in Runs, run'[w].pc = "settle", run'[w].event \notin Ignored
            PROVE  run'[w].event \in applied'
        <4>1. CASE run'[w] = run[w]
          BY <2>2, <3>1, <3>2, <4>1 DEF SettlesApplied
        <4>2. CASE run'[w] # run[w]
          <5>1. Advances(w)
            BY <2>2, <3>2, <4>2, RunAdvances
          <5>2. WriteEntitlement(w) /\ run'[w].event = run[w].event
            BY <3>2, <5>1 DEF Advances
          <5>. QED
            BY <5>2 DEF WriteEntitlement
        <4>. QED
          BY <4>1, <4>2
      <3>3. ASSUME NEW e \in Events \ Ignored, inbox'[e].status = "processed"
            PROVE  e \in applied'
        <4>1. StatusMoves(e)
          BY <2>2, InboxMoves
        <4>2. inbox[e].status = "processed"
              \/ \E w \in Runs : run[w].event = e /\ run[w].pc = "settle"
          BY <3>3, <4>1 DEF StatusMoves, Settle, Step
        <4>. QED
          BY <2>2, <3>1, <4>2 DEF SettlesApplied, ProcessedWasApplied
      <3>. QED
        BY <3>2, <3>3 DEF SettlesApplied, ProcessedWasApplied
    <2>. QED
      BY <2>1, <2>2
  <1>. QED
    BY <1>1, <1>2, Typed, PTL DEF Spec
----------------------------------------------------------------------------
(* A single run: one worker and no sweep *)

OneRun == \A v, w \in Runs : v = w

(* Nobody else settles the event of the run.                               *)
OwnEventOpen ==
    \A w \in Runs :
       run[w].pc \notin {"idle", "find"} => inbox[run[w].event].status # "processed"

LEMMA OwnEventStaysOpen ==
    ASSUME OneRun
    PROVE  Spec => []OwnEventOpen
  <1>1. Init => OwnEventOpen
    BY DEF Init, IdleRun, OwnEventOpen
  <1>2. TypeInv /\ OwnEventOpen /\ [Next]_vars => OwnEventOpen'
    <2>1. OwnEventOpen /\ UNCHANGED vars => OwnEventOpen'
      BY DEF OwnEventOpen, vars
    <2>2. ASSUME TypeInv, OwnEventOpen, Next, NEW w \in Runs, run'[w].pc \notin {"idle", "find"}
          PROVE  inbox'[run'[w].event].status # "processed"
      <3>1. run'[w] = run[w] \/ Advances(w)
        BY <2>2, RunAdvances
      <3>2. /\ run'[w].event = run[w].event /\ run[w].pc # "idle"
            /\ run[w].pc = "find" => Find(w) /\ inbox[run[w].event].status # "processed"
        BY <2>2, <3>1 DEF Advances, OpenSubscription, AskStripe, SaveSubscription,
                          ReadForEntitlement, WriteEntitlement, RunFails, Step
      <3>3. PICK e \in Events : e = run[w].event
        BY <2>2, <3>2 DEF TypeInv, RunsHold
      <3>4. inbox[e].status # "processed"
        BY <2>2, <3>2, <3>3 DEF OwnEventOpen
      <3>5. ~Settle(w)
        <4>1. CASE Settle(w)
          <5>1. run' = [run EXCEPT ![w] = Processing(run[w].todo)]
            BY <4>1 DEF Settle, RunEnds
          <5>2. Processing(run[w].todo).pc \in {"idle", "find"}
            BY <2>2, ProcessingStarts DEF TypeInv, Run
          <5>. QED
            BY <2>2, <5>1, <5>2 DEF TypeInv
        <4>. QED
          BY <4>1
      <3>6. \A v \in Runs : ~Settle(v)
        BY <3>5 DEF OneRun
      <3>7. StatusMoves(e)
        BY <2>2, InboxMoves
      <3>. QED
        BY <3>2, <3>3, <3>4, <3>6, <3>7 DEF StatusMoves
    <2>. QED
      BY <2>1, <2>2 DEF OwnEventOpen
  <1>. QED
    BY <1>1, <1>2, Typed, PTL DEF Spec

(* Where one run works at a time, an event is settled for good: whatever   *)
(* is delivered again, retried, evicted, replayed or stopped.              *)
THEOREM SettledForGood ==
    ASSUME OneRun
    PROVE  Spec => ProcessedForGood
  <1>1. TypeInv /\ OwnEventOpen /\ [Next]_vars =>
          [\A e \in Events :
             inbox[e].status = "processed" => inbox'[e].status = "processed"]_vars
    <2>1. ASSUME TypeInv, OwnEventOpen, Next, NEW e \in Events, inbox[e].status = "processed"
          PROVE  inbox'[e].status = "processed"
      <3>1. StatusMoves(e)
        BY <2>1, InboxMoves
      <3>2. ASSUME NEW w \in Runs, run[w].event = e PROVE ~SettleFailed(w)
        BY <2>1, <3>2 DEF OwnEventOpen, SettleFailed, Step
      <3>. QED
        BY <2>1, <3>1, <3>2 DEF StatusMoves
    <2>. QED
      BY <2>1
  <1>. QED
    BY <1>1, Typed, OwnEventStaysOpen, PTL DEF Spec, ProcessedForGood

(* What the run has read is still so, what it has written is there, and    *)
(* both the subscription and the entitlement are as new as the events that *)
(* have been processed.                                                    *)
Handled(w) == run[w].event \notin Ignored
KeepsUp(w) ==
    LET r == run[w]
    IN  /\ r.pc \in {"open", "ask", "save", "recompute", "grant"} => Handled(w)
        /\ r.pc \in {"ask", "save"} => r.was = sub
        /\ r.pc = "save" => r.seen \in Announced /\ sub =< r.seen /\ r.event =< r.seen
        /\ r.pc \in {"recompute", "grant"} => r.event =< sub
        /\ r.pc = "grant" => r.seen = sub
        /\ r.pc = "settle" /\ Handled(w) => r.event =< ent
BooksKeepUp ==
    /\ sub \in Announced /\ ent =< sub
    /\ \A e \in Events \ Ignored : inbox[e].status = "processed" => e =< ent
FollowInv == BooksKeepUp /\ \A w \in Runs : KeepsUp(w)

LEMMA AnnouncedStay ==
    ASSUME TypeInv, Next
    PROVE  Announced \subseteq Announced'
  BY RemoteGrows DEF Announced

LEMMA RunsKeepUp ==
    ASSUME OneRun, Events \subseteq Lookups \cup Ignored, TypeInv, FollowInv, Next
    PROVE  FollowInv'
  <1>0. /\ sub \in Nat /\ ent \in Nat /\ sub' \in Nat /\ ent' \in Nat
        /\ \A e \in Events : e \in Nat
        /\ \A v \in Runs : /\ run[v] \in Run /\ run[v].seen \in Nat
                           /\ run[v].pc # "idle" => run[v].event \in Events
    <2>1. sub' \in Version /\ ent' \in Version
      BY BooksGoOn
    <2>. QED
      BY <2>1, EventNumbers DEF TypeInv, Run, RunsHold
  <1>1. Announced \subseteq Announced'
    BY AnnouncedStay
  <1>2. ASSUME NEW w \in Runs, SaveSubscription(w)
        PROVE  sub' = run[w].seen /\ sub =< sub' /\ run[w].event =< sub' /\ sub' \in Announced
               /\ ent' = ent
    BY <1>0, <1>2 DEF SaveSubscription, Step, FollowInv, KeepsUp, SavedPath
  <1>3. ASSUME NEW w \in Runs, WriteEntitlement(w)
        PROVE  ent' = sub /\ sub' = sub /\ ent =< ent' /\ run[w].event =< ent'
    BY <1>0, <1>3 DEF WriteEntitlement, Step, FollowInv, KeepsUp, BooksKeepUp
  <1>4. sub =< sub' /\ sub' \in Announced /\ ent =< ent' /\ ent' =< sub'
    <2>1. CASE sub' = sub /\ ent' = ent
      BY <1>0, <2>1 DEF FollowInv, BooksKeepUp
    <2>2. CASE \E w \in Runs : SaveSubscription(w)
      BY <1>0, <1>2, <2>2 DEF FollowInv, BooksKeepUp
    <2>3. CASE \E w \in Runs : WriteEntitlement(w)
      BY <1>0, <1>3, <2>3 DEF FollowInv, BooksKeepUp
    <2>. QED
      BY <2>1, <2>2, <2>3, BooksChange
  <1>5. ASSUME NEW e \in Events \ Ignored, inbox'[e].status = "processed"
        PROVE  e =< ent'
    <2>1. StatusMoves(e)
      BY InboxMoves
    <2>2. inbox[e].status = "processed" \/ \E w \in Runs : run[w].event = e /\ run[w].pc = "settle"
      BY <1>5, <2>1 DEF StatusMoves, Settle, Step
    <2>3. e =< ent
      BY <2>2 DEF FollowInv, BooksKeepUp, KeepsUp, Handled
    <2>. QED
      BY <1>0, <1>4, <2>3
  <1>6. BooksKeepUp'
    BY <1>1, <1>4, <1>5 DEF BooksKeepUp
  <1>7. ASSUME NEW w \in Runs PROVE KeepsUp(w)'
    <2>1. CASE run'[w].pc \in {"idle", "find"}
      BY <2>1 DEF KeepsUp
    <2>2. CASE run'[w].pc \notin {"idle", "find"} /\ run'[w] = run[w]
      <3>1. KeepsUp(w)
        BY DEF FollowInv
      <3>2. ~SaveSubscription(w) /\ ~WriteEntitlement(w)
        BY <1>0, <2>2 DEF SaveSubscription, WriteEntitlement, Step, Goto, Run, TypeInv
      <3>3. sub' = sub /\ ent' = ent
        BY <3>2, BooksChange DEF OneRun
      <3>. QED
        BY <1>1, <2>2, <3>1, <3>3 DEF KeepsUp, Handled
    <2>3. CASE Advances(w)
      <3>0. /\ run'[w].event = run[w].event /\ run[w].event \in Events /\ KeepsUp(w)
            /\ run[w].event =< remote /\ remote \in Nat
        BY <1>0, <2>3, RemoteGrows DEF Advances, FollowInv, TypeInv, RunsHold, KnownMade
      <3>1. CASE /\ Find(w)
                 /\ \/ run'[w].pc = "settle" /\ run[w].event \in Ignored
                    \/ run'[w].pc = "open" /\ run[w].event \notin Ignored
        BY <3>0, <3>1 DEF KeepsUp, Handled
      <3>2. CASE /\ OpenSubscription(w) /\ run'[w].was = sub
                 /\ run'[w].pc = (IF run[w].event \in Lookups THEN "ask" ELSE "save")
        <4>1. run[w].pc = "open" /\ sub' = sub
          BY <3>2 DEF OpenSubscription, Step, books
        <4>2. run[w].event \notin Ignored
          BY <3>0, <4>1 DEF KeepsUp, Handled
        <4>3. run'[w].pc = "ask"
          BY <3>0, <3>2, <4>2
        <4>. QED
          BY <3>0, <3>2, <4>1, <4>2, <4>3 DEF KeepsUp, Handled
      <3>3. CASE /\ AskStripe(w) /\ run'[w].pc = "save"
                 /\ run'[w].was = run[w].was /\ run'[w].seen = StripeVersion
        <4>1. run[w].pc = "ask" /\ sub' = sub
          BY <3>3 DEF AskStripe, Step, books
        <4>2. run[w].event \notin Ignored /\ run[w].was = sub
          BY <3>0, <4>1 DEF KeepsUp, Handled
        <4>3. run[w].event \in Announced /\ sub \in Announced
          BY <3>0, <4>2, EventNumbers DEF Announced, FollowInv, BooksKeepUp
        <4>4. StripeVersion \in Announced' /\ sub =< StripeVersion /\ run[w].event =< StripeVersion
          BY <1>1, <4>3, StripeVersionIsLatest DEF TypeInv
        <4>. QED
          BY <3>0, <3>3, <4>1, <4>2, <4>4 DEF KeepsUp, Handled
      <3>4. CASE SaveSubscription(w) /\ run'[w].pc = "recompute"
        <4>1. run[w].event \notin Ignored
          BY <3>0, <3>4 DEF SaveSubscription, Step, KeepsUp, Handled
        <4>. QED
          BY <1>2, <3>0, <3>4, <4>1 DEF KeepsUp, Handled
      <3>5. CASE ReadForEntitlement(w) /\ run'[w].pc = "grant" /\ run'[w].seen = sub
        <4>1. run[w].pc = "recompute" /\ sub' = sub
          BY <3>5 DEF ReadForEntitlement, Step, books
        <4>. QED
          BY <3>0, <3>5, <4>1 DEF KeepsUp, Handled
      <3>6. CASE WriteEntitlement(w) /\ run'[w].pc = "settle"
        BY <1>3, <3>0, <3>6 DEF KeepsUp, Handled
      <3>7. CASE RunFails(w) /\ run'[w].pc = "fail"
        BY <3>7 DEF KeepsUp
      <3>. QED
        BY <2>3, <3>1, <3>2, <3>3, <3>4, <3>5, <3>6, <3>7 DEF Advances
    <2>. QED
      BY <2>1, <2>2, <2>3, RunAdvances
  <1>. QED
    BY <1>6, <1>7 DEF FollowInv

(* Deliveries in flight count against how often an event may be delivered. *)
LEMMA AnswersGoOn ==
    ASSUME TypeInv, AnswersLeft, Next
    PROVE  AnswersLeft'
  <1>0. /\ \A e \in Events : answered[e] \in Nat
        /\ \A q \in Requests : request[q].pc # "idle" => request[q].event \in Events
        /\ request \in [Requests -> Request] /\ answered \in [Events -> Nat]
        /\ MaxDuplicates \in Nat /\ Cardinality(Requests) \in Nat
    BY BillingAssumption, FS_CardinalityType, EventNumbers DEF TypeInv, RequestsHold
  <1>1. ASSUME NEW e \in Events
        PROVE  /\ IsFiniteSet(InFlight(e)) /\ Cardinality(InFlight(e)) \in Nat
               /\ Cardinality(InFlight(e)') \in Nat
               /\ Cardinality(InFlight(e)') =< Cardinality(Requests)
               /\ InFlight(e)' \subseteq InFlight(e)
                  => Cardinality(InFlight(e)') =< Cardinality(InFlight(e))
    <2>1. InFlight(e) \in SUBSET Requests /\ InFlight(e)' \in SUBSET Requests
      BY DEF InFlight
    <2>2. IsFiniteSet(InFlight(e)) /\ IsFiniteSet(InFlight(e)')
          /\ Cardinality(InFlight(e)') =< Cardinality(Requests)
      BY <2>1, FS_Subset, BillingAssumption
    <2>. QED
      BY <2>2, FS_Subset, FS_CardinalityType
  <1>2. ASSUME NEW e \in Events, answered'[e] = answered[e], InFlight(e)' \subseteq InFlight(e)
        PROVE  answered'[e] + Cardinality(InFlight(e)') =< MaxDuplicates + Cardinality(Requests)
    BY <1>0, <1>1, <1>2 DEF AnswersLeft
  <1>3. ASSUME NEW q \in Requests, NEW d \in Events, Deliver(q, d)
        PROVE  AnswersLeft'
    <2>1. /\ answered' = answered /\ answered[d] =< MaxDuplicates
          /\ request' = [request EXCEPT ![q] = [pc |-> "persist", event |-> d]]
      BY <1>3 DEF Deliver
    <2>2. \A e \in Events \ {d} : InFlight(e)' \subseteq InFlight(e)
      BY <1>0, <2>1 DEF InFlight
    <2>3. answered'[d] + Cardinality(InFlight(d)') =< MaxDuplicates + Cardinality(Requests)
      BY <1>0, <1>1, <2>1
    <2>. QED
      BY <1>2, <2>1, <2>2, <2>3 DEF AnswersLeft
  <1>4. ASSUME NEW q \in Requests, request[q].pc # "idle", Answer(q)
        PROVE  AnswersLeft'
    <2>1. PICK d \in Events : d = request[q].event
      BY <1>0, <1>4
    <2>2. /\ answered' = [answered EXCEPT ![d] = @ + 1]
          /\ request' = [request EXCEPT ![q] = IdleRequest]
      BY <1>4, <2>1 DEF Answer
    <2>3. \A e \in Events \ {d} : InFlight(e)' \subseteq InFlight(e) /\ answered'[e] = answered[e]
      BY <1>0, <2>2 DEF InFlight, IdleRequest
    <2>4. q \in InFlight(d) /\ InFlight(d)' = InFlight(d) \ {q}
      BY <1>0, <1>4, <2>1, <2>2 DEF InFlight, IdleRequest
    <2>5. Cardinality(InFlight(d)') = Cardinality(InFlight(d)) - 1
      BY <1>1, <2>4, FS_RemoveElement
    <2>6. answered'[d] = answered[d] + 1
      BY <1>0, <2>2
    <2>7. answered'[d] + Cardinality(InFlight(d)') =< MaxDuplicates + Cardinality(Requests)
      BY <1>0, <1>1, <2>5, <2>6 DEF AnswersLeft
    <2>. QED
      BY <1>2, <2>3, <2>7 DEF AnswersLeft
  <1>5. ASSUME NEW q \in Requests, NEW r, answered' = answered,
               request' = [request EXCEPT ![q] = r],
               r.pc = "idle" \/ (request[q].pc # "idle" /\ r.event = request[q].event)
        PROVE  AnswersLeft'
    <2>1. \A e \in Events : InFlight(e)' \subseteq InFlight(e)
      BY <1>0, <1>5 DEF InFlight
    <2>. QED
      BY <1>2, <1>5, <2>1 DEF AnswersLeft
  <1>6. ASSUME NEW q \in Requests, \/ Persist(q) \/ Enqueue(q) \/ Mark(q)
                                   \/ EnqueueFails(q) \/ RequestLost(q)
        PROVE  AnswersLeft'
    <2>1. CASE Answer(q)
      BY <1>4, <1>6, <2>1 DEF Persist, Enqueue, Mark, EnqueueFails, RequestLost
    <2>2. CASE RequestLost(q)
      <3>1. answered' = answered /\ request' = [request EXCEPT ![q] = IdleRequest]
        BY <2>2 DEF RequestLost
      <3>. QED
        BY <1>5, <3>1 DEF IdleRequest
    <2>3. CASE ~Answer(q) /\ ~RequestLost(q)
      <3>1. /\ answered' = answered /\ request[q].pc # "idle"
            /\ \E pc \in {"enqueue", "mark"} :
                 request' = [request EXCEPT ![q] = [request[q] EXCEPT !.pc = pc]]
        BY <1>6, <2>3 DEF Persist, Enqueue, Mark, EnqueueFails
      <3>2. \A pc : [request[q] EXCEPT !.pc = pc].event = request[q].event
        BY <1>0 DEF Request
      <3>. QED
        BY <1>5, <3>1, <3>2
    <2>. QED
      BY <2>1, <2>2, <2>3
  <1>7. CASE answered' = answered /\ request' = request
    BY <1>7 DEF AnswersLeft, InFlight
  <1>8. \/ answered' = answered /\ request' = request
        \/ \E q \in Requests : \/ \E e \in Events : Deliver(q, e)
                               \/ Persist(q) \/ Enqueue(q) \/ Mark(q)
                               \/ EnqueueFails(q) \/ RequestLost(q)
    BY DEF Next, Receive, Process, StripeChanges, JobEvicted, EventAges, TakeJob, Sweep, Find,
           OpenSubscription, AskStripe, SaveSubscription, ReadForEntitlement, WriteEntitlement,
           Settle, SettleFailed, RunFails, FindFails, WorkerStops, delivery
  <1>. QED
    BY <1>3, <1>6, <1>7, <1>8

LEMMA TypesHold == Spec => []TypeOK
  <1>1. Init => AnswersLeft
    <2>. SUFFICES ASSUME Init, NEW e \in Events
                  PROVE  answered[e] + Cardinality(InFlight(e)) =< MaxDuplicates + Cardinality(Requests)
      BY DEF AnswersLeft
    <2>1. InFlight(e) = {} /\ answered[e] = 0
      BY DEF Init, InFlight, IdleRequest
    <2>2. MaxDuplicates \in Nat /\ Cardinality(Requests) \in Nat
      BY BillingAssumption, FS_CardinalityType
    <2>. QED
      BY <2>1, <2>2, FS_EmptySet
  <1>2. TypeInv /\ AnswersLeft /\ [Next]_vars => AnswersLeft'
    <2>1. AnswersLeft /\ UNCHANGED vars => AnswersLeft'
      BY DEF AnswersLeft, InFlight, vars
    <2>. QED
      BY <2>1, AnswersGoOn
  <1>3. TypeInv /\ AnswersLeft => TypeOK
    <2>. SUFFICES ASSUME TypeInv, AnswersLeft, NEW e \in Events
                  PROVE  answered[e] \in 0 .. MaxDuplicates + Cardinality(Requests)
      BY DEF TypeInv, TypeOK
    <2>1. InFlight(e) \in SUBSET Requests
      BY DEF InFlight
    <2>2. Cardinality(InFlight(e)) \in Nat /\ Cardinality(Requests) \in Nat
      BY <2>1, BillingAssumption, FS_Subset, FS_CardinalityType
    <2>3. answered[e] \in Nat /\ MaxDuplicates \in Nat
      BY BillingAssumption DEF TypeInv
    <2>. QED
      BY <2>2, <2>3 DEF AnswersLeft
  <1>. QED
    BY <1>1, <1>2, <1>3, Typed, PTL DEF Spec

(* Where one run works at a time and every event that is handled makes the *)
(* code ask Stripe, a workspace whose events are processed has Stripe's    *)
(* subscription and the entitlement of it: whatever was lost, delivered    *)
(* twice or out of order, retried or stopped half way.                     *)
THEOREM WorkspaceEndsAsStripe ==
    ASSUME OneRun, Events \subseteq Lookups \cup Ignored
    PROVE  Spec => []WorkspaceAsStripe
  <1>1. Init => FollowInv
    <2>. SUFFICES ASSUME Init PROVE FollowInv
      OBVIOUS
    <2>1. \A w \in Runs : run[w].pc = "idle"
      BY DEF Init, IdleRun
    <2>2. \A e \in Events : inbox[e].status = "none"
      BY DEF Init
    <2>. QED
      BY <2>1, <2>2 DEF Init, FollowInv, BooksKeepUp, KeepsUp, Announced
  <1>2. TypeInv /\ FollowInv /\ [Next]_vars => FollowInv'
    <2>1. FollowInv /\ UNCHANGED vars => FollowInv'
      BY DEF FollowInv, BooksKeepUp, KeepsUp, Handled, Announced, vars
    <2>. QED
      BY <2>1, RunsKeepUp
  <1>3. TypeInv /\ FollowInv => WorkspaceFollowsStripe
    <2>. SUFFICES ASSUME TypeInv, FollowInv, Settled
                  PROVE  sub = StripeVersion /\ ent = sub
      BY DEF WorkspaceFollowsStripe
    <2>1. /\ sub \in Nat /\ ent \in Nat /\ StripeVersion \in Nat /\ ent =< sub
          /\ StripeVersion \in Announced /\ sub =< StripeVersion
      BY StripeVersionIsLatest, EventNumbers DEF TypeInv, FollowInv, BooksKeepUp
    <2>2. CASE StripeVersion = 0
      BY <2>1, <2>2
    <2>3. CASE StripeVersion # 0
      <3>1. StripeVersion \in 1 .. remote /\ StripeVersion \in Events \ Ignored
        BY <2>1, <2>3, EventNumbers DEF Announced, TypeInv
      <3>2. StripeVersion =< ent
        BY <3>1 DEF Settled, FollowInv, BooksKeepUp
      <3>. QED
        BY <2>1, <3>2
    <2>. QED
      BY <2>2, <2>3
  <1>. QED
    BY <1>1, <1>2, <1>3, Typed, TypesHold, PTL DEF Spec, WorkspaceAsStripe

----------------------------------------------------------------------------
(* The subscription. *)

(* What the module of the subscription takes from the library is the same. *)
LEMMA SameCount == \A S : Plan!Cardinality(S) = Cardinality(S)
  BY DEF Plan!Cardinality, Cardinality

LEMMA BoundTypes ==
    /\ TrialDays \in Nat /\ GraceDays \in Nat /\ ExtendDays \in Nat
    /\ MaxDay \in Nat /\ MaxDay > 0 /\ MaxSessions \in Nat /\ MaxBillingRequests \in Nat
    /\ FirstItems \in Items /\ BillingOps \subseteq Plan!AllOps
    /\ \A i \in Plan!Sessions : i \in Nat /\ i # 0
  BY BillingBounds DEF Plan!SubscriptionsAssumption, Plan!Sessions

LEMMA FirstTypes ==
    /\ Plan!FirstSub \in Plan!Subscription /\ Plan!NoRemote \in Plan!Remote
    /\ Plan!Idle \in Plan!Request
  <1>1. Plan!FirstSub \in Plan!Subscription /\ Plan!NoRemote \in Plan!Remote
    BY BoundTypes DEF Plan!FirstSub, Plan!Subscription, Plan!NoRemote, Plan!Remote, Plan!Never
  <1>. QED
    BY <1>1 DEF Plan!Idle, Plan!Request, Plan!AllOps

LEMMA SubscriptionFields ==
    ASSUME NEW s \in Plan!Subscription
    PROVE  /\ s.status \in {"trialing", "active", "past_due", "canceled"}
           /\ s.bound \in {0} \cup Plan!Sessions /\ s.bound \in Nat /\ s.items \in Items
           /\ s.trialEndsAt \in Nat /\ s.graceEndsAt \in Nat /\ s.partialBlockStartsAt \in Nat
           /\ DOMAIN s = {"status", "bound", "items", "trialEndsAt", "graceEndsAt",
                          "partialBlockStartsAt"}
  BY BoundTypes DEF Plan!Subscription

LEMMA AskedFields ==
    ASSUME NEW r \in Plan!Request
    PROVE  /\ r.pc \in {"idle"} \cup Plan!Steps /\ r.op \in Plan!AllOps
           /\ r.loaded \in Plan!Subscription /\ r.next \in Plan!Subscription
           /\ r.i \in {0} \cup Plan!Sessions /\ r.i \in Nat /\ r.seen \in Plan!Remote
           /\ r.seen.trialEndsAt \in Nat /\ r.seen.items \in Items
           /\ r.seen.status \in {"none", "open", "canceled"} \cup Plan!Live
  BY BoundTypes DEF Plan!Request, Plan!Remote

(* What save() leaves in the collection.                                   *)
LEMMA SavedFields ==
    ASSUME Plan!TypeInv, NEW h \in BillingHandlers
    PROVE  /\ Plan!Saved(h) \in Plan!Subscription
           /\ Plan!Saved(h).status =
                 Plan!SavedPath(subscription.status, asked[h].loaded.status, asked[h].next.status)
           /\ Plan!Saved(h).bound =
                 Plan!SavedPath(subscription.bound, asked[h].loaded.bound, asked[h].next.bound)
           /\ Plan!Saved(h).items =
                 Plan!SavedPath(subscription.items, asked[h].loaded.items, asked[h].next.items)
           /\ Plan!Saved(h).trialEndsAt =
                 Plan!SavedPath(subscription.trialEndsAt, asked[h].loaded.trialEndsAt,
                                asked[h].next.trialEndsAt)
           /\ ~Plan!Stale(h) => Plan!Saved(h) = asked[h].next
  <1>. DEFINE l == asked[h].loaded  n == asked[h].next
              path(k) == Plan!SavedPath(subscription[k], l[k], n[k])
  <1>1. subscription \in Plan!Subscription /\ l \in Plan!Subscription /\ n \in Plan!Subscription
    BY AskedFields DEF Plan!TypeInv, Plan!TypeOK
  <1>2. Plan!Saved(h) = [k \in {"status", "bound", "items", "trialEndsAt", "graceEndsAt",
                                "partialBlockStartsAt"} |-> path(k)]
    BY <1>1, SubscriptionFields DEF Plan!Saved
  <1>3. \A k : path(k) = subscription[k] \/ path(k) = n[k]
    BY DEF Plan!SavedPath
  <1>. HIDE DEF path
  <1>4. Plan!Saved(h) = [status |-> path("status"), bound |-> path("bound"), items |-> path("items"),
                         trialEndsAt |-> path("trialEndsAt"), graceEndsAt |-> path("graceEndsAt"),
                         partialBlockStartsAt |-> path("partialBlockStartsAt")]
    BY <1>2
  <1>5. Plan!Saved(h) \in Plan!Subscription
    <2>1. /\ path("status") \in {"trialing", "active", "past_due", "canceled"}
          /\ path("bound") \in {0} \cup Plan!Sessions /\ path("items") \in Items
          /\ path("trialEndsAt") \in Nat /\ path("graceEndsAt") \in Nat
          /\ path("partialBlockStartsAt") \in Nat
      <3>. HIDE DEF l, n
      <3>. QED
        BY <1>1, <1>3, SubscriptionFields
    <2>. QED
      BY <1>4, <2>1 DEF Plan!Subscription
  <1>6. ASSUME ~Plan!Stale(h) PROVE Plan!Saved(h) = n
    <2>1. l = subscription
      BY <1>6 DEF Plan!Stale
    <2>2. \A k : path(k) = n[k]
      BY <2>1 DEF path, Plan!SavedPath
    <2>3. n = [status |-> n.status, bound |-> n.bound, items |-> n.items,
               trialEndsAt |-> n.trialEndsAt, graceEndsAt |-> n.graceEndsAt,
               partialBlockStartsAt |-> n.partialBlockStartsAt]
      BY <1>1 DEF Plan!Subscription
    <2>. HIDE DEF n
    <2>. QED
      BY <1>4, <2>2, <2>3
  <1>. QED
    BY <1>4, <1>5, <1>6 DEF path

(* What a lifecycle patch makes of a document.                             *)
LEMMA PastDueFields ==
    ASSUME today \in Nat, today > 0, NEW s \in Plan!Subscription, NEW anchor \in Nat, anchor > 0
    PROVE  /\ Plan!PastDue(s, anchor) \in Plan!Subscription
           /\ Plan!PastDue(s, anchor).status = "past_due" /\ Plan!PastDue(s, anchor).bound = s.bound
           /\ Plan!PastDue(s, anchor).items = s.items
           /\ Plan!PastDue(s, anchor).trialEndsAt = s.trialEndsAt
           /\ Plan!PastDue(s, anchor).graceEndsAt # Plan!Never
           /\ s.graceEndsAt # Plan!Never => Plan!PastDue(s, anchor).graceEndsAt = s.graceEndsAt
           /\ Plan!Due(Plan!PastDue(s, anchor))
           /\ Plan!Dated(s) => Plan!Dated(Plan!PastDue(s, anchor))
  <1>. DEFINE ends == Plan!GraceEnds(s, anchor)
              block == IF s.partialBlockStartsAt # Plan!Never THEN s.partialBlockStartsAt ELSE ends
  <1>1. /\ s.status \in {"trialing", "active", "past_due", "canceled"}
        /\ s.graceEndsAt \in Nat /\ s.partialBlockStartsAt \in Nat
    BY SubscriptionFields
  <1>2. ends \in Nat /\ ends # Plan!Never /\ (s.graceEndsAt # Plan!Never => ends = s.graceEndsAt)
    BY <1>1, BoundTypes DEF Plan!GraceEnds, Plan!Never
  <1>3. block \in Nat /\ (Plan!Dated(s) => block = ends)
    BY <1>1, <1>2 DEF Plan!Dated
  <1>4. Plan!PastDue(s, anchor) = [s EXCEPT !.status = "past_due", !.graceEndsAt = ends,
                                     !.partialBlockStartsAt = IF ends < today THEN block ELSE Plan!Never]
    BY DEF Plan!PastDue
  <1>. DEFINE p == Plan!PastDue(s, anchor)
              starts == IF ends < today THEN block ELSE Plan!Never
  <1>5. starts \in Nat /\ (starts # Plan!Never => ends < today /\ starts = block)
    BY <1>3 DEF Plan!Never
  <1>6. p = [s EXCEPT !.status = "past_due", !.graceEndsAt = ends,
                      !.partialBlockStartsAt = starts]
    BY <1>4
  <1>. HIDE DEF ends, block, p, starts
  <1>7. /\ p \in Plan!Subscription /\ p.status = "past_due" /\ p.bound = s.bound
        /\ p.items = s.items /\ p.trialEndsAt = s.trialEndsAt /\ p.graceEndsAt = ends
        /\ p.partialBlockStartsAt = starts
    BY <1>2, <1>5, <1>6 DEF Plan!Subscription
  <1>8. Plan!Due(p) /\ (Plan!Dated(s) => Plan!Dated(p))
    BY <1>2, <1>3, <1>5, <1>7 DEF Plan!Due, Plan!Dated
  <1>. QED
    BY <1>2, <1>7, <1>8 DEF p

LEMMA FromStripeFields ==
    ASSUME today \in Nat, today > 0, NEW s \in Plan!Subscription, NEW r \in Plan!Remote,
           NEW i \in Plan!Sessions,
           r.status \in Plan!Live \cup {"canceled"}
    PROVE  /\ Plan!FromStripe(s, r, i) \in Plan!Subscription
           /\ Plan!FromStripe(s, r, i).status = Plan!Local(r.status)
           /\ Plan!FromStripe(s, r, i).bound = i /\ Plan!FromStripe(s, r, i).items = r.items
           /\ Plan!FromStripe(s, r, i).trialEndsAt \in {r.trialEndsAt, s.trialEndsAt}
           /\ Plan!FromStripe(s, r, i).trialEndsAt = 0 => s.trialEndsAt = 0
           /\ s.graceEndsAt # Plan!Never /\ Plan!FromStripe(s, r, i).status = "past_due" =>
                 Plan!FromStripe(s, r, i).graceEndsAt = s.graceEndsAt
           /\ Plan!Due(Plan!FromStripe(s, r, i))
           /\ Plan!Dated(s) => Plan!Dated(Plan!FromStripe(s, r, i))
  <1>. DEFINE base == [s EXCEPT !.status = Plan!Local(r.status), !.bound = i, !.items = r.items,
                                !.trialEndsAt = IF r.trialEndsAt # Plan!Never THEN r.trialEndsAt ELSE @]
              final == Plan!FromStripe(s, r, i)
  <1>1. Plan!Local(r.status) \in {"trialing", "active", "past_due", "canceled"}
    BY DEF Plan!Local, Plan!Live
  <1>2. r.trialEndsAt \in Nat /\ r.items \in Items
    BY DEF Plan!Remote
  <1>3. /\ base \in Plan!Subscription /\ base.status = Plan!Local(r.status) /\ base.bound = i
        /\ base.items = r.items /\ base.trialEndsAt \in {r.trialEndsAt, s.trialEndsAt}
        /\ base.trialEndsAt = 0 => s.trialEndsAt = 0
        /\ base.graceEndsAt = s.graceEndsAt
        /\ base.partialBlockStartsAt = s.partialBlockStartsAt
    BY <1>1, <1>2 DEF Plan!Subscription, Plan!Never
  <1>4. final = IF base.status = "past_due" THEN Plan!PastDue(base, today)
                ELSE [base EXCEPT !.graceEndsAt = Plan!Never, !.partialBlockStartsAt = Plan!Never]
    BY DEF Plan!FromStripe
  <1>5. Plan!Dated(s) => Plan!Dated(base)
    BY <1>3 DEF Plan!Dated
  <1>. HIDE DEF base, final
  <1>6. CASE base.status = "past_due"
    <2>1. final = Plan!PastDue(base, today)
      BY <1>4, <1>6
    <2>. QED
      BY <1>3, <1>5, <1>6, <2>1, PastDueFields DEF final
  <1>7. CASE base.status # "past_due"
    <2>1. final = [base EXCEPT !.graceEndsAt = Plan!Never, !.partialBlockStartsAt = Plan!Never]
      BY <1>4, <1>7
    <2>2. /\ final \in Plan!Subscription /\ final.status = base.status /\ final.bound = base.bound
          /\ final.items = base.items /\ final.trialEndsAt = base.trialEndsAt
          /\ final.graceEndsAt = Plan!Never /\ final.partialBlockStartsAt = Plan!Never
      BY <1>3, <2>1 DEF Plan!Subscription, Plan!Never
    <2>. QED
      BY <1>3, <1>7, <2>2 DEF final, Plan!Due, Plan!Dated
  <1>. QED
    BY <1>6, <1>7
----------------------------------------------------------------------------
(* The requests *)

GoodRequest(r) == /\ Plan!KnowsStripe(r) /\ Plan!AboutTrial(r) /\ Plan!Given(r) /\ Plan!Windowed(r)
                  /\ ~mixed => Plan!Truthful(r.next)

LEMMA RequestsGood ==
    ASSUME Plan!TypeInv, Plan!RequestsHold, NEW h \in BillingHandlers
    PROVE  asked[h] \in Plan!Request /\ GoodRequest(asked[h])
  BY DEF Plan!TypeInv, Plan!RequestsHold, GoodRequest

LEMMA IdleGood == ASSUME Plan!TypeInv, Plan!RemoteHolds PROVE GoodRequest(Plan!Idle)
  <1>1. /\ Plan!Idle.pc = "idle" /\ Plan!Idle.op = "use" /\ Plan!Idle.i = 0
        /\ Plan!Idle.loaded = Plan!FirstSub
        /\ Plan!Idle.next = Plan!FirstSub /\ Plan!Idle.seen = Plan!NoRemote
    BY DEF Plan!Idle
  <1>2. /\ Plan!FirstSub.trialEndsAt \in 1 .. granted /\ Plan!FirstSub.bound = 0
        /\ Plan!NoRemote.trialEndsAt = 0
    BY BoundTypes DEF Plan!RemoteHolds, Plan!TypeInv, Plan!FirstSub, Plan!NoRemote, Plan!Never
  <1>3. Plan!NoRemote.trialEndsAt <= granted
    BY <1>2 DEF Plan!TypeInv
  <1>4. granted + 0 = granted
    BY DEF Plan!TypeInv
  <1>. QED
    BY <1>1, <1>2, <1>3, <1>4
       DEF GoodRequest, Plan!KnowsStripe, Plan!AboutTrial, Plan!Given, Plan!Windowed,
           Plan!Truthful, Plan!AtStripe

(* A request that goes on with what it knows, to a step that saves nothing *)
(* it has not saved yet.                                                   *)
LEMMA GoesOnGood ==
    ASSUME Plan!TypeInv, NEW r \in Plan!Request, GoodRequest(r), r.pc # "extend", NEW pc,
           pc \in {"open", "ask", "update", "sync_load", "mark", "suspend", "resolve", "trial",
                  "active"},
           pc \in {"update", "sync_load"} => r.i # 0,
           pc \in {"resolve", "trial", "active"} => r.op = "reactivate"
    PROVE  [r EXCEPT !.pc = pc] \in Plan!Request /\ GoodRequest([r EXCEPT !.pc = pc])
  <1>. DEFINE n == [r EXCEPT !.pc = pc]
  <1>1. /\ n \in Plan!Request /\ n.pc = pc /\ n.op = r.op /\ n.i = r.i /\ n.loaded = r.loaded
        /\ n.next = r.next /\ n.seen = r.seen
    BY DEF Plan!Request, Plan!Steps
  <1>. HIDE DEF n
  <1>2. Plan!KnowsStripe(n)
    BY <1>1 DEF GoodRequest, Plan!KnowsStripe
  <1>3. Plan!AboutTrial(n)
    BY <1>1 DEF GoodRequest, Plan!AboutTrial
  <1>4. Plan!Given(n)
    BY <1>1 DEF GoodRequest, Plan!Given
  <1>5. Plan!Windowed(n) /\ (~mixed => Plan!Truthful(n.next))
    BY <1>1 DEF GoodRequest, Plan!Windowed
  <1>. QED
    BY <1>1, <1>2, <1>3, <1>4, <1>5 DEF GoodRequest, n

(* What a request becomes that goes on after the trial was looked at.      *)
LEMMA FoundedGood ==
    ASSUME Plan!TypeInv, Plan!RemoteHolds, NEW r \in Plan!Request, GoodRequest(r), r.pc # "extend",
           r.op \in {"use", "checkout", "change", "sync"}
    PROVE  LET n == IF Plan!Then(r.op) = "idle" THEN Plan!Idle ELSE [r EXCEPT !.pc = Plan!Then(r.op)]
           IN  n \in Plan!Request /\ GoodRequest(n)
  <1>1. CASE r.op = "use"
    BY <1>1, IdleGood, FirstTypes DEF Plan!Then
  <1>2. CASE r.op = "sync"
    <2>1. r.i # 0 /\ Plan!Then(r.op) = "sync_load"
      BY <1>2 DEF GoodRequest, Plan!KnowsStripe, Plan!Then
    <2>. QED
      BY <2>1, GoesOnGood
  <1>3. CASE r.op \in {"checkout", "change"}
    <2>1. Plan!Then(r.op) \in {"open", "ask"}
      BY <1>3 DEF Plan!Then
    <2>. QED
      BY <2>1, GoesOnGood
  <1>. QED
    BY <1>1, <1>2, <1>3

LEMMA BeginUseGood ==
    ASSUME Plan!IndInv, NEW h \in BillingHandlers, NEW op, Plan!BeginUse(h, op)
    PROVE  \E n \in Plan!Request : asked' = [asked EXCEPT ![h] = n] /\ GoodRequest(n)
  <1>. DEFINE n == [Plan!Idle EXCEPT !.op = op, !.pc = "load"]
  <1>1. asked' = [asked EXCEPT ![h] = n] /\ op \in {"use", "checkout", "change"}
    BY DEF Plan!BeginUse, Plan!Begin
  <1>2. /\ n \in Plan!Request /\ n.pc = "load" /\ n.op = op /\ n.i = Plan!Idle.i
        /\ n.loaded = Plan!Idle.loaded
        /\ n.next = Plan!Idle.next /\ n.seen = Plan!Idle.seen
    BY <1>1, FirstTypes DEF Plan!Request, Plan!Steps, Plan!AllOps
  <1>3. GoodRequest(Plan!Idle) /\ Plan!Idle.pc = "idle"
    BY IdleGood DEF Plan!IndInv, Plan!Idle
  <1>. HIDE DEF n
  <1>4. Plan!KnowsStripe(n)
    BY <1>1, <1>2, <1>3 DEF GoodRequest, Plan!KnowsStripe
  <1>5. Plan!AboutTrial(n)
    BY <1>1, <1>2 DEF Plan!AboutTrial
  <1>6. Plan!Given(n)
    BY <1>2, <1>3 DEF GoodRequest, Plan!Given
  <1>7. Plan!Windowed(n) /\ (~mixed => Plan!Truthful(n.next))
    BY <1>2, <1>3 DEF GoodRequest, Plan!Windowed
  <1>. QED
    BY <1>1, <1>2, <1>4, <1>5, <1>6, <1>7 DEF GoodRequest

LEMMA LoadGood ==
    ASSUME Plan!IndInv, NEW h \in BillingHandlers, Plan!Load(h)
    PROVE  \E n \in Plan!Request : asked' = [asked EXCEPT ![h] = n] /\ GoodRequest(n)
  <1>. DEFINE q == asked[h]  r == [q EXCEPT !.loaded = subscription, !.next = subscription]
              p == Plan!PastDue(subscription, subscription.trialEndsAt)
  <1>0. /\ Plan!TypeInv /\ Plan!SubHolds /\ Plan!RemoteHolds /\ q \in Plan!Request /\ GoodRequest(q)
        /\ subscription \in Plan!Subscription
        /\ q.pc = "load" /\ q.op \in {"use", "checkout", "change", "sync"}
        /\ today \in Nat /\ today > 0 /\ subscription.trialEndsAt \in 1 .. granted
        /\ granted \in Nat
    BY RequestsGood, BoundTypes
       DEF Plan!IndInv, Plan!Load, Plan!At, GoodRequest, Plan!AboutTrial, Plan!TypeInv,
           Plan!TypeOK, Plan!SubHolds
  <1>1. /\ r \in Plan!Request /\ r.pc = "load" /\ r.op = q.op /\ r.i = q.i /\ r.seen = q.seen
        /\ r.loaded = subscription /\ r.next = subscription
    BY <1>0 DEF Plan!Request
  <1>2. GoodRequest(r)
    <2>. HIDE DEF r
    <2>1. Plan!KnowsStripe(r)
      BY <1>0, <1>1 DEF GoodRequest, Plan!KnowsStripe, Plan!SubHolds
    <2>2. Plan!AboutTrial(r) /\ Plan!Windowed(r) /\ (~mixed => Plan!Truthful(r.next))
      BY <1>0, <1>1 DEF Plan!AboutTrial, Plan!Windowed, Plan!SubHolds
    <2>3. Plan!Given(r)
      BY <1>0, <1>1 DEF GoodRequest, Plan!Given
    <2>. QED
      BY <2>1, <2>2, <2>3 DEF GoodRequest
  <1>3. CASE Plan!TrialIsOver(subscription) /\ p # subscription
    <2>. DEFINE n == [r EXCEPT !.next = p, !.pc = "save"]
    <2>1. asked' = [asked EXCEPT ![h] = n]
      BY <1>3 DEF Plan!Load
    <2>2. /\ p \in Plan!Subscription /\ p.status = "past_due" /\ p.bound = subscription.bound
          /\ p.items = subscription.items /\ p.trialEndsAt = subscription.trialEndsAt
          /\ subscription.graceEndsAt # Plan!Never => p.graceEndsAt = subscription.graceEndsAt
          /\ Plan!Due(p) /\ (Plan!Dated(subscription) => Plan!Dated(p))
      BY SMTT(20), <1>0, PastDueFields
    <2>3. subscription.bound = 0 /\ (subscription.status = "past_due" \/ subscription.trialEndsAt <= today)
      BY <1>3 DEF Plan!TrialIsOver
    <2>. HIDE DEF p
    <2>4. /\ n \in Plan!Request /\ n.pc = "save" /\ n.op = q.op /\ n.i = q.i /\ n.seen = q.seen
          /\ n.loaded = subscription /\ n.next = p
      BY <1>1, <2>2 DEF Plan!Request, Plan!Steps
    <2>. HIDE DEF n, r
    <2>5. Plan!KnowsStripe(n)
      BY <1>0, <2>2, <2>4 DEF GoodRequest, Plan!KnowsStripe, Plan!SubHolds
    <2>6. Plan!AboutTrial(n)
      BY <1>0, <2>2, <2>3, <2>4 DEF Plan!AboutTrial
    <2>7. Plan!Given(n)
      BY <1>0, <2>2, <2>4 DEF GoodRequest, Plan!Given
    <2>8. Plan!Windowed(n) /\ (~mixed => Plan!Truthful(n.next))
      BY <2>2, <2>3, <2>4 DEF Plan!Windowed, Plan!TrialOver, Plan!Truthful
    <2>. QED
      BY <2>1, <2>4, <2>5, <2>6, <2>7, <2>8 DEF GoodRequest
  <1>4. CASE ~(Plan!TrialIsOver(subscription) /\ p # subscription)
    <2>. DEFINE n == IF Plan!Then(r.op) = "idle" THEN Plan!Idle ELSE [r EXCEPT !.pc = Plan!Then(r.op)]
    <2>1. Plan!GoOn(h, r)
      BY <1>4 DEF Plan!Load
    <2>2. asked' = [asked EXCEPT ![h] = n]
      BY <2>1 DEF Plan!GoOn
    <2>. HIDE DEF r
    <2>3. n \in Plan!Request /\ GoodRequest(n)
      BY <1>0, <1>1, <1>2, FoundedGood
    <2>. QED
      BY <2>2, <2>3
  <1>. QED
    BY <1>3, <1>4

LEMMA SyncLoadGood ==
    ASSUME Plan!IndInv, NEW h \in BillingHandlers, Plan!SyncLoad(h)
    PROVE  \E n \in Plan!Request : asked' = [asked EXCEPT ![h] = n] /\ GoodRequest(n)
  <1>. DEFINE q == asked[h]  p == Plan!FromStripe(subscription, q.seen, q.i)
              n == [q EXCEPT !.loaded = subscription, !.pc = "sync_save", !.next = p]
  <1>0. /\ Plan!TypeInv /\ Plan!SubHolds /\ q \in Plan!Request /\ GoodRequest(q)
        /\ subscription \in Plan!Subscription
        /\ q.pc = "sync_load" /\ today \in Nat /\ today > 0
        /\ subscription.trialEndsAt \in 1 .. granted /\ granted \in Nat
    BY RequestsGood, BoundTypes DEF Plan!IndInv, Plan!SyncLoad, Plan!At, Plan!TypeInv,
                                    Plan!TypeOK, Plan!SubHolds
  <1>1. /\ q.i # 0 /\ q.i \in Plan!Sessions /\ q.seen \in Plan!Remote /\ q.seen.trialEndsAt \in Nat
        /\ q.seen.status \in Plan!Live \cup {"canceled"}
    BY <1>0, AskedFields DEF GoodRequest, Plan!KnowsStripe
  <1>2. /\ p \in Plan!Subscription /\ p.status = Plan!Local(q.seen.status) /\ p.bound = q.i
        /\ p.items = q.seen.items
        /\ p.trialEndsAt \in {q.seen.trialEndsAt, subscription.trialEndsAt}
        /\ p.trialEndsAt = 0 => subscription.trialEndsAt = 0
        /\ subscription.graceEndsAt # Plan!Never /\ p.status = "past_due" =>
              p.graceEndsAt = subscription.graceEndsAt
        /\ Plan!Due(p) /\ (Plan!Dated(subscription) => Plan!Dated(p))
    BY <1>0, <1>1, FromStripeFields
  <1>3. asked' = [asked EXCEPT ![h] = n]
    BY DEF Plan!SyncLoad
  <1>. HIDE DEF p
  <1>4. /\ n \in Plan!Request /\ n.pc = "sync_save" /\ n.op = q.op /\ n.i = q.i /\ n.seen = q.seen
        /\ n.loaded = subscription /\ n.next = p
    BY <1>0, <1>2 DEF Plan!Request, Plan!Steps
  <1>. HIDE DEF n
  <1>5. Plan!KnowsStripe(n)
    BY <1>0, <1>1, <1>2, <1>4 DEF GoodRequest, Plan!KnowsStripe, Plan!SubHolds
  <1>6. Plan!AboutTrial(n)
    BY <1>4 DEF Plan!AboutTrial
  <1>7. Plan!Given(n)
    <2>1. q.seen.trialEndsAt <= granted
      BY <1>0 DEF GoodRequest, Plan!Given
    <2>2. p.trialEndsAt \in Nat /\ p.trialEndsAt # 0 /\ p.trialEndsAt <= granted
      BY <1>0, <1>1, <1>2, <2>1
    <2>. QED
      BY <1>0, <1>4, <2>1, <2>2 DEF Plan!Given
  <1>8. Plan!Windowed(n)
    BY <1>2, <1>4 DEF Plan!Windowed
  <1>9. Plan!Truthful(p)
    BY <1>0, <1>2 DEF Plan!Truthful, GoodRequest, Plan!KnowsStripe, Plan!Local
  <1>. QED
    BY <1>3, <1>4, <1>5, <1>6, <1>7, <1>8, <1>9 DEF GoodRequest

LEMMA BeginSyncGood ==
    ASSUME Plan!IndInv, NEW h \in BillingHandlers, NEW i \in Plan!Sessions, Plan!BeginSync(h, i)
    PROVE  \E n \in Plan!Request : asked' = [asked EXCEPT ![h] = n] /\ GoodRequest(n)
  <1>. DEFINE n == [Plan!Idle EXCEPT !.op = "sync", !.pc = "load", !.i = i, !.seen = atStripe[i]]
  <1>0. /\ Plan!TypeInv /\ Plan!RemoteHolds /\ GoodRequest(Plan!Idle) /\ i # 0
        /\ Plan!Idle.pc = "idle"
        /\ atStripe[i] \in Plan!Remote /\ atStripe[i].status \in Plan!Live \cup {"canceled"}
    BY IdleGood, BoundTypes DEF Plan!IndInv, Plan!BeginSync, Plan!TypeInv, Plan!TypeOK, Plan!Idle
  <1>1. asked' = [asked EXCEPT ![h] = n]
    BY DEF Plan!BeginSync, Plan!Begin
  <1>2. /\ n \in Plan!Request /\ n.pc = "load" /\ n.op = "sync" /\ n.i = i /\ n.seen = atStripe[i]
        /\ n.loaded = Plan!Idle.loaded /\ n.next = Plan!Idle.next
    BY <1>0, FirstTypes DEF Plan!Request, Plan!Steps, Plan!AllOps
  <1>. HIDE DEF n
  <1>3. Plan!KnowsStripe(n)
    BY <1>0, <1>2 DEF GoodRequest, Plan!KnowsStripe, Plan!AtStripe
  <1>4. Plan!AboutTrial(n) /\ Plan!Windowed(n) /\ (~mixed => Plan!Truthful(n.next))
    BY <1>0, <1>2 DEF GoodRequest, Plan!AboutTrial, Plan!Windowed
  <1>5. Plan!Given(n)
    BY <1>0, <1>2 DEF GoodRequest, Plan!Given, Plan!RemoteHolds
  <1>. QED
    BY <1>1, <1>2, <1>3, <1>4, <1>5 DEF GoodRequest

LEMMA AskStripeGood ==
    ASSUME Plan!IndInv, NEW h \in BillingHandlers, Plan!AskStripe(h)
    PROVE  \E n \in Plan!Request : asked' = [asked EXCEPT ![h] = n] /\ GoodRequest(n)
  <1>. DEFINE q == asked[h]  i == q.next.bound
              n == [q EXCEPT !.i = i, !.seen = atStripe[i], !.pc = "update"]
  <1>0. /\ Plan!TypeInv /\ Plan!RemoteHolds /\ q \in Plan!Request /\ GoodRequest(q) /\ q.pc = "ask"
        /\ i \in {0} \cup Plan!Sessions
    BY RequestsGood, AskedFields, SubscriptionFields DEF Plan!IndInv, Plan!AskStripe, Plan!At
  <1>1. CASE i = 0
    BY <1>0, <1>1, IdleGood, FirstTypes DEF Plan!AskStripe, Plan!Done
  <1>2. CASE i # 0
    <2>1. asked' = [asked EXCEPT ![h] = n]
      BY <1>2, <1>0 DEF Plan!AskStripe, Plan!TypeInv
    <2>2. /\ i \in Plan!Sessions /\ atStripe[i] \in Plan!Remote
          /\ atStripe[i].status \in Plan!Live \cup {"canceled"}
          /\ atStripe[i].trialEndsAt <= granted
      BY <1>0, <1>2 DEF Plan!TypeInv, Plan!TypeOK, GoodRequest, Plan!KnowsStripe, Plan!AtStripe,
                        Plan!RemoteHolds
    <2>3. /\ n \in Plan!Request /\ n.pc = "update" /\ n.op = q.op /\ n.i = i /\ n.seen = atStripe[i]
          /\ n.loaded = q.loaded /\ n.next = q.next
      BY <1>0, <2>2 DEF Plan!Request, Plan!Steps
    <2>. HIDE DEF n
    <2>4. Plan!KnowsStripe(n)
      BY <1>0, <1>2, <2>2, <2>3 DEF GoodRequest, Plan!KnowsStripe
    <2>5. Plan!AboutTrial(n) /\ Plan!Windowed(n) /\ (~mixed => Plan!Truthful(n.next))
      BY <1>0, <2>3 DEF GoodRequest, Plan!AboutTrial, Plan!Windowed
    <2>6. Plan!Given(n)
      BY <1>0, <2>2, <2>3 DEF GoodRequest, Plan!Given
    <2>. QED
      BY <2>1, <2>3, <2>4, <2>5, <2>6 DEF GoodRequest
  <1>. QED
    BY <1>1, <1>2

LEMMA UpdateRemoteGood ==
    ASSUME Plan!IndInv, NEW h \in BillingHandlers, Plan!UpdateRemote(h)
    PROVE  \E n \in Plan!Request : asked' = [asked EXCEPT ![h] = n] /\ GoodRequest(n)
  <1>. DEFINE q == asked[h]
  <1>0. /\ Plan!TypeInv /\ Plan!RemoteHolds /\ q \in Plan!Request /\ GoodRequest(q)
        /\ q.pc = "update"
        /\ q.i \in Plan!Sessions
    BY RequestsGood, AskedFields DEF Plan!IndInv, Plan!UpdateRemote, Plan!At, GoodRequest,
                                     Plan!KnowsStripe
  <1>1. CASE Plan!Goto(h, "sync_load")
    <2>1. q.i # 0
      BY <1>0 DEF GoodRequest, Plan!KnowsStripe
    <2>2. asked' = [asked EXCEPT ![h] = [q EXCEPT !.pc = "sync_load"]]
      BY <1>0, <1>1 DEF Plan!Goto, Plan!TypeInv
    <2>. QED
      BY <1>0, <2>1, <2>2, GoesOnGood
  <1>2. CASE Plan!Done(h)
    BY <1>0, <1>2, IdleGood, FirstTypes DEF Plan!Done
  <1>3. ASSUME NEW items \in Items, atStripe[q.i].status # "canceled",
               atStripe' = [atStripe EXCEPT ![q.i].items = items],
               asked' = [asked EXCEPT ![h].seen = atStripe'[q.i], ![h].pc = "sync_load"]
        PROVE  \E n \in Plan!Request : asked' = [asked EXCEPT ![h] = n] /\ GoodRequest(n)
    <2>. DEFINE m == [atStripe[q.i] EXCEPT !.items = items]
                n == [q EXCEPT !.seen = m, !.pc = "sync_load"]
    <2>1. atStripe'[q.i] = m
      BY <1>0, <1>3 DEF Plan!TypeInv, Plan!TypeOK
    <2>2. asked' = [asked EXCEPT ![h] = n]
      BY <1>0, <1>3, <2>1 DEF Plan!TypeInv
    <2>3. /\ m \in Plan!Remote /\ m.status = atStripe[q.i].status
          /\ m.trialEndsAt = atStripe[q.i].trialEndsAt
      BY <1>0 DEF Plan!TypeInv, Plan!TypeOK, Plan!Remote
    <2>4. m.status \in Plan!Live \cup {"canceled"} /\ m.trialEndsAt <= granted
      BY <1>0, <2>3 DEF GoodRequest, Plan!KnowsStripe, Plan!AtStripe, Plan!RemoteHolds
    <2>. HIDE DEF m
    <2>5. /\ n \in Plan!Request /\ n.pc = "sync_load" /\ n.op = q.op /\ n.i = q.i /\ n.seen = m
          /\ n.loaded = q.loaded /\ n.next = q.next
      BY <1>0, <2>3 DEF Plan!Request, Plan!Steps
    <2>. HIDE DEF n
    <2>6. Plan!KnowsStripe(n)
      BY <1>0, <1>3, <2>3, <2>4, <2>5 DEF GoodRequest, Plan!KnowsStripe
    <2>7. Plan!AboutTrial(n) /\ Plan!Windowed(n) /\ (~mixed => Plan!Truthful(n.next))
      BY <1>0, <2>5 DEF GoodRequest, Plan!AboutTrial, Plan!Windowed
    <2>8. Plan!Given(n)
      BY <1>0, <2>4, <2>5 DEF GoodRequest, Plan!Given
    <2>. QED
      BY <2>2, <2>5, <2>6, <2>7, <2>8 DEF GoodRequest
  <1>. QED
    BY <1>1, <1>2, <1>3 DEF Plan!UpdateRemote

LEMMA BeginExtendGood ==
    ASSUME Plan!IndInv, NEW h \in BillingHandlers, Plan!BeginExtend(h)
    PROVE  \E n \in Plan!Request : asked' = [asked EXCEPT ![h] = n] /\ GoodRequest(n)
  <1>. DEFINE p == [subscription EXCEPT !.trialEndsAt = @ + ExtendDays, !.graceEndsAt = Plan!Never,
                                        !.partialBlockStartsAt = Plan!Never]
              n == [Plan!Idle EXCEPT !.op = "extend", !.pc = "extend", !.loaded = subscription, !.next = p]
  <1>0. /\ Plan!TypeInv /\ Plan!SubHolds /\ GoodRequest(Plan!Idle)
        /\ subscription \in Plan!Subscription
        /\ subscription.status = "trialing" /\ subscription.bound = 0
        /\ subscription.trialEndsAt \in 1 .. granted /\ granted \in Nat /\ Plan!Idle.i = 0
    BY IdleGood DEF Plan!IndInv, Plan!BeginExtend, Plan!TypeInv, Plan!TypeOK, Plan!SubHolds,
                    Plan!Idle
  <1>1. asked' = [asked EXCEPT ![h] = n]
    BY DEF Plan!BeginExtend, Plan!Begin
  <1>2. /\ p \in Plan!Subscription /\ p.status = "trialing" /\ p.bound = 0
        /\ p.items = subscription.items
        /\ p.trialEndsAt = subscription.trialEndsAt + ExtendDays
        /\ p.graceEndsAt = Plan!Never /\ p.partialBlockStartsAt = Plan!Never
    <2>1. subscription.trialEndsAt + ExtendDays \in Nat
      BY <1>0, BoundTypes
    <2>. QED
      BY <1>0, <2>1 DEF Plan!Subscription, Plan!Never
  <1>. HIDE DEF p
  <1>3. /\ n \in Plan!Request /\ n.pc = "extend" /\ n.op = "extend" /\ n.i = Plan!Idle.i
        /\ n.seen = Plan!Idle.seen /\ n.loaded = subscription /\ n.next = p
    BY <1>0, <1>2, FirstTypes DEF Plan!Request, Plan!Steps, Plan!AllOps
  <1>. HIDE DEF n
  <1>4. Plan!KnowsStripe(n)
    BY <1>0, <1>2, <1>3 DEF GoodRequest, Plan!KnowsStripe, Plan!AtStripe
  <1>5. Plan!AboutTrial(n)
    BY <1>0, <1>2, <1>3 DEF Plan!AboutTrial
  <1>6. Plan!Given(n)
    <2>1. p.trialEndsAt \in 1 .. granted + ExtendDays
      BY <1>0, <1>2, BoundTypes
    <2>. QED
      BY <1>0, <1>3, <2>1 DEF GoodRequest, Plan!Given
  <1>7. Plan!Windowed(n) /\ (~mixed => Plan!Truthful(n.next))
    BY <1>2, <1>3 DEF Plan!Windowed, Plan!Truthful, Plan!Due, Plan!Dated
  <1>. QED
    BY <1>1, <1>3, <1>4, <1>5, <1>6, <1>7 DEF GoodRequest

LEMMA BeginAdminGood ==
    ASSUME Plan!IndInv, NEW h \in BillingHandlers, Plan!BeginSuspend(h) \/ Plan!BeginReactivate(h)
    PROVE  \E n \in Plan!Request : asked' = [asked EXCEPT ![h] = n] /\ GoodRequest(n)
  <1>. DEFINE new(op, pc) == [Plan!Idle EXCEPT !.op = op, !.pc = pc]
  <1>0. GoodRequest(Plan!Idle) /\ Plan!Idle.i = 0
    BY IdleGood DEF Plan!IndInv, Plan!Idle
  <1>1. ASSUME NEW op \in {"suspend", "reactivate"}, NEW pc \in {"suspend", "resolve"},
               pc = "resolve" => op = "reactivate"
        PROVE  new(op, pc) \in Plan!Request /\ GoodRequest(new(op, pc))
    <2>. DEFINE n == new(op, pc)
    <2>1. /\ n \in Plan!Request /\ n.pc = pc /\ n.op = op /\ n.i = Plan!Idle.i
          /\ n.loaded = Plan!Idle.loaded
          /\ n.next = Plan!Idle.next /\ n.seen = Plan!Idle.seen
      BY FirstTypes DEF Plan!Request, Plan!Steps, Plan!AllOps
    <2>. HIDE DEF n
    <2>2. Plan!KnowsStripe(n) /\ Plan!AboutTrial(n)
      BY <1>0, <1>1, <2>1 DEF GoodRequest, Plan!KnowsStripe, Plan!AboutTrial
    <2>3. Plan!Idle.pc = "idle"
      BY DEF Plan!Idle
    <2>4. Plan!Given(n) /\ Plan!Windowed(n) /\ (~mixed => Plan!Truthful(n.next))
      BY <1>0, <2>1, <2>3 DEF GoodRequest, Plan!Given, Plan!Windowed
    <2>. QED
      BY <2>1, <2>2, <2>4 DEF GoodRequest, n
  <1>2. \/ asked' = [asked EXCEPT ![h] = new("suspend", "suspend")]
        \/ asked' = [asked EXCEPT ![h] = new("reactivate", "resolve")]
    BY DEF Plan!BeginSuspend, Plan!BeginReactivate, Plan!Begin
  <1>. HIDE DEF new
  <1>. QED
    BY <1>1, <1>2

LEMMA SaveLocalGood ==
    ASSUME Plan!IndInv, NEW h \in BillingHandlers, Plan!SaveLocal(h)
    PROVE  \E n \in Plan!Request : asked' = [asked EXCEPT ![h] = n] /\ GoodRequest(n)
  <1>1. /\ Plan!TypeInv /\ Plan!RemoteHolds /\ asked[h] \in Plan!Request /\ GoodRequest(asked[h])
        /\ asked[h].pc = "save"
        /\ asked[h].op \in {"use", "checkout", "change", "sync"}
    BY RequestsGood DEF Plan!IndInv, Plan!SaveLocal, Plan!At, GoodRequest, Plan!AboutTrial
  <1>. DEFINE n == IF Plan!Then(asked[h].op) = "idle" THEN Plan!Idle
                   ELSE [asked[h] EXCEPT !.pc = Plan!Then(asked[h].op)]
  <1>2. asked' = [asked EXCEPT ![h] = n]
    BY DEF Plan!SaveLocal, Plan!GoOn
  <1>3. n \in Plan!Request /\ GoodRequest(n)
    BY <1>1, FoundedGood
  <1>. QED
    BY <1>2, <1>3

LEMMA ResolveGood ==
    ASSUME Plan!IndInv, NEW h \in BillingHandlers, Plan!ResolveActiveStatus(h)
    PROVE  \E n \in Plan!Request : asked' = [asked EXCEPT ![h] = n] /\ GoodRequest(n)
  <1>1. /\ Plan!TypeInv /\ asked[h] \in Plan!Request /\ GoodRequest(asked[h])
        /\ asked[h].pc = "resolve"
        /\ asked[h].op = "reactivate"
    BY RequestsGood DEF Plan!IndInv, Plan!ResolveActiveStatus, Plan!At, GoodRequest, Plan!AboutTrial
  <1>2. PICK pc \in {"trial", "active"} : asked' = [asked EXCEPT ![h] = [asked[h] EXCEPT !.pc = pc]]
    BY <1>1 DEF Plan!ResolveActiveStatus, Plan!Goto, Plan!TypeInv
  <1>. QED
    BY <1>1, <1>2, GoesOnGood

LEMMA EndingGood ==
    ASSUME Plan!IndInv, NEW h \in BillingHandlers, Plan!Done(h)
    PROVE  \E n \in Plan!Request : asked' = [asked EXCEPT ![h] = n] /\ GoodRequest(n)
  BY IdleGood, FirstTypes DEF Plan!IndInv, Plan!Done

(* What a request knows stays good: the days pass, trials are extended,    *)
(* and what is canceled at Stripe stays canceled.                          *)
DaysPass ==
      /\ granted \in Nat /\ granted' \in Nat /\ granted <= granted'
      /\ today \in Nat /\ today' \in Nat /\ today <= today'
      /\ mixed => mixed'
      /\ \A i \in Plan!Sessions :
            /\ atStripe[i].status \in Plan!Live \cup {"canceled"} =>
                  atStripe'[i].status \in Plan!Live \cup {"canceled"}
            /\ atStripe[i].status = "canceled" => atStripe'[i].status = "canceled"

LEMMA DocumentStays ==
    ASSUME DaysPass, NEW s \in Plan!Subscription
    PROVE  /\ Plan!AtStripe(s.bound) => Plan!AtStripe(s.bound)'
           /\ Plan!Due(s) => Plan!Due(s)'
           /\ Plan!TrialOver(s) => Plan!TrialOver(s)'
           /\ Plan!Truthful(s) => Plan!Truthful(s)'
  <1>1. s.bound \in {0} \cup Plan!Sessions /\ s.trialEndsAt \in Nat /\ s.graceEndsAt \in Nat
    BY SubscriptionFields
  <1>2. Plan!AtStripe(s.bound) => Plan!AtStripe(s.bound)'
    BY <1>1 DEF DaysPass, Plan!AtStripe
  <1>3. (Plan!Due(s) => Plan!Due(s)') /\ (Plan!TrialOver(s) => Plan!TrialOver(s)')
    BY <1>1 DEF DaysPass, Plan!Due, Plan!TrialOver
  <1>4. Plan!Truthful(s) => Plan!Truthful(s)'
    BY <1>1 DEF DaysPass, Plan!Truthful
  <1>. QED
    BY <1>2, <1>3, <1>4

LEMMA StaysGood ==
    ASSUME DaysPass, NEW r \in Plan!Request, GoodRequest(r)
    PROVE  GoodRequest(r)'
  <1>1. /\ r.loaded \in Plan!Subscription /\ r.next \in Plan!Subscription
        /\ r.i \in {0} \cup Plan!Sessions
        /\ r.loaded.trialEndsAt \in Nat /\ r.next.trialEndsAt \in Nat
        /\ r.seen.trialEndsAt \in Nat /\ r.pc \in {"idle"} \cup Plan!Steps
    BY AskedFields, SubscriptionFields
  <1>2. Plan!KnowsStripe(r)'
    <2>1. Plan!AtStripe(r.loaded.bound)' /\ Plan!AtStripe(r.next.bound)'
      BY <1>1, DocumentStays DEF GoodRequest, Plan!KnowsStripe
    <2>2. /\ Plan!AtStripe(r.i)'
          /\ r.i # 0 /\ r.seen.status = "canceled" => atStripe'[r.i].status = "canceled"
      BY <1>1 DEF GoodRequest, Plan!KnowsStripe, Plan!AtStripe, DaysPass
    <2>. QED
      BY <2>1, <2>2 DEF GoodRequest, Plan!KnowsStripe
  <1>3. Plan!AboutTrial(r)'
    BY DEF GoodRequest, Plan!AboutTrial
  <1>4. Plan!Given(r)'
    <2>. DEFINE more == IF r.pc = "extend" THEN ExtendDays ELSE 0
    <2>1. more \in Nat
      BY BoundTypes
    <2>2. /\ r.loaded.trialEndsAt \in 1 .. granted /\ r.seen.trialEndsAt <= granted
          /\ r.next.trialEndsAt \in 1 .. granted + more
      BY DEF GoodRequest, Plan!Given
    <2>. HIDE DEF more
    <2>3. /\ r.loaded.trialEndsAt \in 1 .. granted' /\ r.seen.trialEndsAt <= granted'
          /\ r.next.trialEndsAt \in 1 .. granted' + more
      BY <1>1, <2>1, <2>2 DEF DaysPass
    <2>. QED
      BY <2>3 DEF Plan!Given, more
  <1>5. Plan!Windowed(r)'
    <2>1. /\ Plan!Due(r.next) => Plan!Due(r.next)'
          /\ Plan!TrialOver(r.next) => Plan!TrialOver(r.next)'
      BY <1>1, DocumentStays
    <2>2. /\ Plan!Dated(r.loaded) <=> Plan!Dated(r.loaded)'
          /\ Plan!Dated(r.next) <=> Plan!Dated(r.next)'
      BY DEF Plan!Dated
    <2>. QED
      BY <2>1, <2>2 DEF GoodRequest, Plan!Windowed
  <1>6. ~mixed' => Plan!Truthful(r.next)'
    BY <1>1, DocumentStays DEF GoodRequest, DaysPass
  <1>. QED
    BY <1>2, <1>3, <1>4, <1>5, <1>6 DEF GoodRequest

----------------------------------------------------------------------------
(* The steps *)

(* What is at Stripe changes: a session is opened, is paid for, or its     *)
(* subscription changes; a canceled one stays canceled.                    *)
RemoteMoves(i) ==
    \/ atStripe'[i] = atStripe[i]
    \/ /\ atStripe[i].status = "none" /\ atStripe'[i].status = "open"
       /\ \E h \in BillingHandlers : Plan!OpenSession(h)
    \/ atStripe[i].status = "open" /\ atStripe'[i].status \in Plan!Live /\ UNCHANGED followed
    \/ /\ atStripe[i].status \in Plan!Live /\ atStripe'[i].status \in Plan!Live \cup {"canceled"}
       /\ Plan!Changed(i)

LEMMA RemoteChange ==
    ASSUME Plan!TypeInv, Plan!RemoteHolds, NEW k \in Plan!Sessions, NEW r \in Plan!Remote,
           atStripe' = [atStripe EXCEPT ![k] = r], r.trialEndsAt <= granted, granted' = granted,
           RemoteMoves(k)
    PROVE  /\ atStripe' \in [Plan!Sessions -> Plan!Remote]
           /\ \A i \in Plan!Sessions : RemoteMoves(i) /\ atStripe'[i].trialEndsAt <= granted'
  <1>1. atStripe' \in [Plan!Sessions -> Plan!Remote]
    BY DEF Plan!TypeInv, Plan!TypeOK
  <1>2. ASSUME NEW i \in Plan!Sessions PROVE RemoteMoves(i) /\ atStripe'[i].trialEndsAt <= granted'
    <2>1. CASE i = k
      BY <2>1 DEF Plan!TypeInv, Plan!TypeOK
    <2>2. CASE i # k
      BY <2>2 DEF Plan!TypeInv, Plan!TypeOK, Plan!RemoteHolds, RemoteMoves
    <2>. QED
      BY <2>1, <2>2
  <1>. QED
    BY <1>1, <1>2

LEMMA RemoteSteps ==
    ASSUME Plan!IndInv, Plan!Next
    PROVE  /\ atStripe' \in [Plan!Sessions -> Plan!Remote]
           /\ \A i \in Plan!Sessions : RemoteMoves(i) /\ atStripe'[i].trialEndsAt <= granted'
  <1>0. Plan!TypeInv /\ Plan!RemoteHolds /\ Plan!RequestsHold /\ granted \in Nat /\ today \in Nat
    BY BoundTypes DEF Plan!IndInv, Plan!TypeInv, Plan!TypeOK
  <1>1. ASSUME atStripe' = atStripe, granted' \in {granted, granted + ExtendDays}
        PROVE  /\ atStripe' \in [Plan!Sessions -> Plan!Remote]
               /\ \A i \in Plan!Sessions : RemoteMoves(i) /\ atStripe'[i].trialEndsAt <= granted'
    <2>1. granted' \in Nat /\ granted <= granted'
      BY <1>0, <1>1, BoundTypes
    <2>2. \A i \in Plan!Sessions : atStripe[i].trialEndsAt \in Nat /\ atStripe[i].trialEndsAt <= granted
      BY <1>0 DEF Plan!TypeInv, Plan!TypeOK, Plan!Remote, Plan!RemoteHolds
    <2>. QED
      BY <1>0, <1>1, <2>1, <2>2 DEF RemoteMoves, Plan!TypeInv, Plan!TypeOK
  <1>2. ASSUME NEW h \in BillingHandlers, Plan!OpenSession(h), atStripe' # atStripe
        PROVE  /\ atStripe' \in [Plan!Sessions -> Plan!Remote]
               /\ \A i \in Plan!Sessions : RemoteMoves(i) /\ atStripe'[i].trialEndsAt <= granted'
    <2>1. PICK k \in Plan!Sessions, items \in Items :
             /\ atStripe[k].status = "none"
             /\ atStripe' = [atStripe EXCEPT ![k] = [status |-> "open", items |-> items,
                                                     trialEndsAt |-> Plan!TrialLeft(asked[h].next)]]
      BY <1>2 DEF Plan!OpenSession
    <2>. DEFINE r == [status |-> "open", items |-> items, trialEndsAt |-> Plan!TrialLeft(asked[h].next)]
    <2>2. /\ asked[h] \in Plan!Request /\ GoodRequest(asked[h]) /\ asked[h].next.trialEndsAt \in Nat
          /\ asked[h].pc = "open"
      BY <1>0, <1>2, RequestsGood, AskedFields, SubscriptionFields DEF Plan!OpenSession, Plan!At
    <2>3. Plan!TrialLeft(asked[h].next) \in Nat /\ Plan!TrialLeft(asked[h].next) <= granted
      <3>1. asked[h].next.trialEndsAt \in 1 .. granted + 0
        BY <2>2 DEF GoodRequest, Plan!Given
      <3>. QED
        BY <1>0, <2>2, <3>1 DEF Plan!TrialLeft, Plan!Never
    <2>4. r \in Plan!Remote /\ r.status = "open" /\ r.trialEndsAt <= granted
      BY <2>3 DEF Plan!Remote
    <2>5. RemoteMoves(k)
      BY <1>0, <1>2, <2>1 DEF RemoteMoves, Plan!TypeInv, Plan!TypeOK
    <2>6. granted' = granted
      BY <1>2 DEF Plan!OpenSession
    <2>. QED
      BY <1>0, <2>1, <2>4, <2>5, <2>6, RemoteChange
  <1>3. ASSUME NEW k \in Plan!Sessions, Plan!Complete(k) \/ Plan!RemoteChanges(k)
        PROVE  /\ atStripe' \in [Plan!Sessions -> Plan!Remote]
               /\ \A i \in Plan!Sessions : RemoteMoves(i) /\ atStripe'[i].trialEndsAt <= granted'
    <2>1. PICK s \in Plan!Live \cup {"canceled"} :
             /\ atStripe' = [atStripe EXCEPT ![k].status = s]
             /\ \/ atStripe[k].status = "open" /\ s \in Plan!Live /\ UNCHANGED followed
                \/ atStripe[k].status \in Plan!Live /\ Plan!Changed(k)
      <3>1. CASE Plan!Complete(k)
        <4>. DEFINE s == IF atStripe[k].trialEndsAt > today THEN "trialing" ELSE "active"
        <4>1. s \in Plan!Live
          BY DEF Plan!Live
        <4>2. /\ atStripe' = [atStripe EXCEPT ![k].status = s] /\ atStripe[k].status = "open"
              /\ UNCHANGED followed
          BY <3>1 DEF Plan!Complete, Plan!history
        <4>. QED
          BY <4>1, <4>2
      <3>2. CASE Plan!RemoteChanges(k)
        BY <3>2 DEF Plan!RemoteChanges, Plan!Live
      <3>. QED
        BY <1>3, <3>1, <3>2
    <2>. DEFINE r == [atStripe[k] EXCEPT !.status = s]
    <2>2. /\ r \in Plan!Remote /\ r.status = s /\ r.trialEndsAt = atStripe[k].trialEndsAt
          /\ atStripe' = [atStripe EXCEPT ![k] = r]
      BY <1>0, <2>1 DEF Plan!TypeInv, Plan!TypeOK, Plan!Remote
    <2>3. r.trialEndsAt <= granted /\ granted' = granted
      BY <1>0, <1>3, <2>2 DEF Plan!RemoteHolds, Plan!Complete, Plan!RemoteChanges, Plan!history
    <2>. HIDE DEF r
    <2>4. RemoteMoves(k)
      BY <1>0, <2>1, <2>2 DEF RemoteMoves, Plan!TypeInv, Plan!TypeOK
    <2>. QED
      BY <1>0, <2>2, <2>3, <2>4, RemoteChange
  <1>4. ASSUME NEW h \in BillingHandlers, Plan!UpdateRemote(h), atStripe' # atStripe
        PROVE  /\ atStripe' \in [Plan!Sessions -> Plan!Remote]
               /\ \A i \in Plan!Sessions : RemoteMoves(i) /\ atStripe'[i].trialEndsAt <= granted'
    <2>. DEFINE k == asked[h].i
    <2>1. PICK items \in Items :
             /\ atStripe[k].status # "canceled" /\ Plan!Changed(k)
             /\ atStripe' = [atStripe EXCEPT ![k].items = items]
      BY <1>4, Zenon DEF Plan!UpdateRemote
    <2>2. k \in Plan!Sessions /\ atStripe[k].status \in Plan!Live
      BY <1>0, <1>4, <2>1, RequestsGood, AskedFields
         DEF Plan!UpdateRemote, Plan!At, GoodRequest, Plan!KnowsStripe, Plan!AtStripe
    <2>. DEFINE r == [atStripe[k] EXCEPT !.items = items]
    <2>3. /\ r \in Plan!Remote /\ r.status = atStripe[k].status
          /\ r.trialEndsAt = atStripe[k].trialEndsAt
          /\ atStripe' = [atStripe EXCEPT ![k] = r]
      BY <1>0, <2>1, <2>2 DEF Plan!TypeInv, Plan!TypeOK, Plan!Remote
    <2>4. r.trialEndsAt <= granted /\ granted' = granted
      BY <1>0, <1>4, <2>2, <2>3 DEF Plan!RemoteHolds, Plan!UpdateRemote
    <2>. HIDE DEF r
    <2>5. RemoteMoves(k)
      BY <1>0, <2>1, <2>2, <2>3 DEF RemoteMoves, Plan!TypeInv, Plan!TypeOK
    <2>. QED
      BY <1>0, <2>2, <2>3, <2>4, <2>5, RemoteChange
  <1>5. \/ atStripe' = atStripe /\ granted' \in {granted, granted + ExtendDays}
        \/ \E i \in Plan!Sessions : Plan!Complete(i) \/ Plan!RemoteChanges(i)
        \/ \E h \in BillingHandlers : (Plan!OpenSession(h) \/ Plan!UpdateRemote(h)) /\ granted' = granted
    BY ZenonT(40) DEF Plan!Next, Plan!Step, Plan!Tick, Plan!BeginUse, Plan!Load, Plan!SaveLocal,
           Plan!OpenSession, Plan!BeginSync, Plan!SyncLoad, Plan!SyncSave,
           Plan!AskStripe, Plan!UpdateRemote, Plan!BeginExtend, Plan!SaveExtended,
           Plan!MarkWorkspace, Plan!BeginSuspend,
           Plan!Suspend, Plan!BeginReactivate, Plan!ResolveActiveStatus, Plan!Reactivate,
           Plan!history
  <1>. QED
    BY <1>1, <1>2, <1>3, <1>4, <1>5

LEMMA DaysMoveOn ==
    ASSUME Plan!IndInv, Plan!Next
    PROVE  DaysPass /\ today' \in 1 .. MaxDay
  <1>0. /\ granted \in Nat /\ today \in 1 .. MaxDay /\ MaxDay \in Nat
        /\ mixed \in BOOLEAN
    BY BoundTypes DEF Plan!IndInv, Plan!TypeInv, Plan!TypeOK
  <1>1. /\ granted' \in {granted, granted + ExtendDays}
        /\ today' = today \/ (today < MaxDay /\ today' = today + 1)
        /\ mixed => mixed'
    <2>1. CASE Plan!Tick \/ \E i \in Plan!Sessions : Plan!Complete(i) \/ Plan!RemoteChanges(i)
      BY <2>1 DEF Plan!Tick, Plan!Complete, Plan!RemoteChanges, Plan!history
    <2>2. ASSUME NEW h \in BillingHandlers, Plan!Step(h)
          PROVE  today' = today /\ granted' \in {granted, granted + ExtendDays} /\ (mixed => mixed')
      <3>1. CASE Plan!SaveLocal(h) \/ Plan!SyncSave(h) \/ Plan!SaveExtended(h)
        <4>1. today' = today /\ granted' \in {granted, granted + ExtendDays}
          BY <3>1 DEF Plan!SaveLocal, Plan!SyncSave, Plan!SaveExtended
        <4>2. mixed' = (mixed \/ Plan!Stale(h))
          BY <3>1, Zenon DEF Plan!SaveLocal, Plan!SyncSave, Plan!SaveExtended
        <4>. QED
          BY <4>1, <4>2
      <3>2. CASE ~(Plan!SaveLocal(h) \/ Plan!SyncSave(h) \/ Plan!SaveExtended(h))
        <4>1. today' = today /\ granted' = granted /\ mixed' = mixed
          BY <2>2, <3>2, Zenon
             DEF Plan!Step, Plan!BeginUse, Plan!Load, Plan!OpenSession, Plan!BeginSync,
                 Plan!SyncLoad, Plan!AskStripe, Plan!UpdateRemote,
                 Plan!BeginExtend, Plan!MarkWorkspace, Plan!BeginSuspend, Plan!Suspend,
                 Plan!BeginReactivate,
                 Plan!ResolveActiveStatus, Plan!Reactivate, Plan!history
        <4>. QED
          BY <4>1
      <3>. QED
        BY <3>1, <3>2
    <2>. QED
      BY <2>1, <2>2 DEF Plan!Next
  <1>2. /\ granted' \in Nat /\ granted <= granted' /\ today' \in 1 .. MaxDay
        /\ today \in Nat /\ today' \in Nat /\ today <= today'
    BY <1>0, <1>1, BoundTypes
  <1>3. \A i \in Plan!Sessions :
          /\ atStripe[i].status \in Plan!Live \cup {"canceled"} =>
                atStripe'[i].status \in Plan!Live \cup {"canceled"}
          /\ atStripe[i].status = "canceled" => atStripe'[i].status = "canceled"
    <2>. SUFFICES ASSUME NEW i \in Plan!Sessions
                  PROVE /\ atStripe[i].status \in Plan!Live \cup {"canceled"} =>
                              atStripe'[i].status \in Plan!Live \cup {"canceled"}
                        /\ atStripe[i].status = "canceled" => atStripe'[i].status = "canceled"
      OBVIOUS
    <2>1. RemoteMoves(i)
      BY RemoteSteps
    <2>2. \A s \in Plan!Live : s \notin {"none", "open", "canceled"}
      BY DEF Plan!Live
    <2>. QED
      BY <2>1, <2>2 DEF RemoteMoves
  <1>. QED
    BY <1>0, <1>1, <1>2, <1>3 DEF DaysPass

(* The days that were added are given when they are saved.                 *)
LEMMA ExtendedGood ==
    ASSUME Plan!IndInv, DaysPass, NEW h \in BillingHandlers, Plan!SaveExtended(h)
    PROVE  \E n \in Plan!Request : asked' = [asked EXCEPT ![h] = n] /\ GoodRequest(n)'
  <1>. DEFINE q == asked[h]
  <1>0. /\ Plan!TypeInv /\ q \in Plan!Request /\ GoodRequest(q) /\ q.pc = "extend"
        /\ granted \in Nat
        /\ granted' = granted + ExtendDays /\ (mixed => mixed') /\ atStripe' = atStripe
    BY RequestsGood DEF Plan!IndInv, Plan!SaveExtended, Plan!At, Plan!TypeInv
  <1>1. PICK n \in Plan!Request :
           /\ n = [q EXCEPT !.pc = "mark"]
           /\ n.pc = "mark" /\ n.op = q.op /\ n.i = q.i /\ n.seen = q.seen
           /\ n.loaded = q.loaded /\ n.next = q.next
    <2>1. [q EXCEPT !.pc = "mark"] \in Plan!Request
      BY <1>0 DEF Plan!Request, Plan!Steps
    <2>. QED
      BY <1>0, <2>1 DEF Plan!Request
  <1>2. asked' = [asked EXCEPT ![h] = n]
    BY <1>0, <1>1 DEF Plan!SaveExtended, Plan!Goto, Plan!TypeInv
  <1>3. Plan!KnowsStripe(n)'
    BY <1>0, <1>1 DEF GoodRequest, Plan!KnowsStripe, Plan!AtStripe
  <1>4. Plan!AboutTrial(n)' /\ Plan!Windowed(n)' /\ (~mixed' => Plan!Truthful(n.next)')
    BY <1>0, <1>1 DEF GoodRequest, Plan!AboutTrial, Plan!Windowed, Plan!Truthful
  <1>5. Plan!Given(n)'
    <2>1. /\ q.loaded.trialEndsAt \in 1 .. granted /\ q.seen.trialEndsAt <= granted
          /\ q.next.trialEndsAt \in 1 .. granted + ExtendDays
      BY <1>0 DEF GoodRequest, Plan!Given
    <2>2. q.seen.trialEndsAt \in Nat /\ q.loaded.trialEndsAt \in Nat /\ q.next.trialEndsAt \in Nat
      BY <1>0, AskedFields, SubscriptionFields
    <2>3. /\ q.loaded.trialEndsAt \in 1 .. granted' /\ q.seen.trialEndsAt <= granted'
          /\ q.next.trialEndsAt \in 1 .. granted' + 0
      BY <1>0, <2>1, <2>2, BoundTypes
    <2>. QED
      BY <1>1, <2>3 DEF Plan!Given
  <1>. QED
    BY <1>1, <1>2, <1>3, <1>4, <1>5 DEF GoodRequest

LEMMA AskedSteps ==
    ASSUME Plan!IndInv, Plan!Next
    PROVE  asked' \in [BillingHandlers -> Plan!Request] /\ Plan!RequestsHold'
  <1>0. DaysPass /\ Plan!TypeInv /\ asked \in [BillingHandlers -> Plan!Request]
    BY DaysMoveOn DEF Plan!IndInv, Plan!TypeInv
  <1>1. ASSUME NEW g \in BillingHandlers, asked'[g] = asked[g] PROVE GoodRequest(asked[g])'
    <2>1. asked[g] \in Plan!Request /\ GoodRequest(asked[g])
      BY RequestsGood DEF Plan!IndInv
    <2>2. PICK r \in Plan!Request : r = asked[g]
      BY <2>1
    <2>3. GoodRequest(r)'
      BY <1>0, <2>1, <2>2, StaysGood
    <2>. QED
      BY <1>1, <2>2, <2>3 DEF GoodRequest, Plan!KnowsStripe, Plan!AtStripe, Plan!AboutTrial,
                              Plan!Given, Plan!Windowed, Plan!Due, Plan!Dated,
                              Plan!TrialOver, Plan!Truthful
  <1>2. CASE asked' = asked
    BY <1>0, <1>1, <1>2 DEF Plan!RequestsHold, GoodRequest
  <1>3. ASSUME NEW h \in BillingHandlers, NEW n \in Plan!Request,
               asked' = [asked EXCEPT ![h] = n], GoodRequest(n)'
        PROVE  asked' \in [BillingHandlers -> Plan!Request] /\ Plan!RequestsHold'
    <2>1. asked' \in [BillingHandlers -> Plan!Request] /\ asked'[h] = n
      BY <1>0, <1>3
    <2>2. ASSUME NEW g \in BillingHandlers PROVE GoodRequest(asked[g])'
      <3>1. CASE g = h
        BY <1>3, <2>1, <3>1 DEF GoodRequest, Plan!KnowsStripe, Plan!AtStripe, Plan!AboutTrial,
                                Plan!Given, Plan!Windowed, Plan!Due, Plan!Dated,
                              Plan!TrialOver, Plan!Truthful
      <3>2. CASE g # h
        BY <1>0, <1>1, <1>3, <3>2
      <3>. QED
        BY <3>1, <3>2
    <2>. QED
      BY <2>1, <2>2 DEF Plan!RequestsHold, GoodRequest
  <1>4. ASSUME NEW h \in BillingHandlers, NEW n \in Plan!Request,
               asked' = [asked EXCEPT ![h] = n], GoodRequest(n)
        PROVE  asked' \in [BillingHandlers -> Plan!Request] /\ Plan!RequestsHold'
    BY <1>0, <1>3, <1>4, StaysGood
  <1>5. ASSUME NEW h \in BillingHandlers, Plan!Step(h)
        PROVE  \E n \in Plan!Request : asked' = [asked EXCEPT ![h] = n] /\ (GoodRequest(n) \/ GoodRequest(n)')
    <2>1. ASSUME NEW op \in BillingOps, Plan!BeginUse(h, op)
          PROVE  \E n \in Plan!Request : asked' = [asked EXCEPT ![h] = n] /\ GoodRequest(n)
      BY <2>1, BeginUseGood
    <2>2. ASSUME NEW i \in Plan!Sessions, Plan!BeginSync(h, i)
          PROVE  \E n \in Plan!Request : asked' = [asked EXCEPT ![h] = n] /\ GoodRequest(n)
      BY <2>2, BeginSyncGood
    <2>3. ASSUME \/ Plan!Load(h) \/ Plan!SyncLoad(h) \/ Plan!AskStripe(h)
                 \/ Plan!UpdateRemote(h) \/ Plan!SaveLocal(h)
          PROVE  \E n \in Plan!Request : asked' = [asked EXCEPT ![h] = n] /\ GoodRequest(n)
      BY <2>3, LoadGood, SyncLoadGood, AskStripeGood, UpdateRemoteGood, SaveLocalGood
    <2>4. ASSUME \/ Plan!BeginExtend(h) \/ Plan!BeginSuspend(h)
                 \/ Plan!BeginReactivate(h) \/ Plan!ResolveActiveStatus(h)
          PROVE  \E n \in Plan!Request : asked' = [asked EXCEPT ![h] = n] /\ GoodRequest(n)
      BY <2>4, BeginExtendGood, BeginAdminGood, ResolveGood
    <2>5. ASSUME \/ Plan!OpenSession(h) \/ Plan!SyncSave(h) \/ Plan!MarkWorkspace(h)
                 \/ Plan!Suspend(h) \/ Plan!Reactivate(h)
          PROVE  \E n \in Plan!Request : asked' = [asked EXCEPT ![h] = n] /\ GoodRequest(n)
      <3>1. Plan!Done(h)
        BY <2>5 DEF Plan!OpenSession, Plan!SyncSave, Plan!MarkWorkspace, Plan!Suspend,
                    Plan!Reactivate
      <3>. QED
        BY <3>1, EndingGood
    <2>6. ASSUME Plan!SaveExtended(h)
          PROVE  \E n \in Plan!Request : asked' = [asked EXCEPT ![h] = n] /\ GoodRequest(n)'
      BY <1>0, <2>6, ExtendedGood
    <2>. QED
      BY <1>5, <2>1, <2>2, <2>3, <2>4, <2>5, <2>6 DEF Plan!Step
  <1>6. asked' = asked \/ \E h \in BillingHandlers : Plan!Step(h)
    BY DEF Plan!Next, Plan!Tick, Plan!Complete, Plan!RemoteChanges
  <1>. QED
    BY <1>2, <1>3, <1>4, <1>5, <1>6

(* The subscription changes by a save only.                                *)
LEMMA SubSteps ==
    ASSUME Plan!Next
    PROVE  \/ /\ subscription' = subscription /\ mixed' = mixed /\ outdated' = outdated
              /\ followed' = followed \/ followed' = 0
           \/ \E h \in BillingHandlers : Plan!SaveLocal(h) \/ Plan!SaveExtended(h) \/ Plan!SyncSave(h)
  <1>1. CASE Plan!Tick \/ \E i \in Plan!Sessions : Plan!Complete(i) \/ Plan!RemoteChanges(i)
    BY <1>1, Zenon DEF Plan!Tick, Plan!Complete, Plan!RemoteChanges, Plan!Changed, Plan!history
  <1>2. ASSUME NEW h \in BillingHandlers, Plan!Step(h),
               ~(Plan!SaveLocal(h) \/ Plan!SyncSave(h) \/ Plan!SaveExtended(h))
        PROVE  /\ subscription' = subscription /\ mixed' = mixed /\ outdated' = outdated
               /\ followed' = followed \/ followed' = 0
    BY <1>2, Zenon
       DEF Plan!Step, Plan!BeginUse, Plan!Load, Plan!OpenSession, Plan!BeginSync, Plan!SyncLoad,
           Plan!AskStripe, Plan!UpdateRemote,
           Plan!BeginExtend, Plan!MarkWorkspace, Plan!BeginSuspend, Plan!Suspend,
           Plan!BeginReactivate,
           Plan!ResolveActiveStatus, Plan!Reactivate, Plan!Changed, Plan!history
  <1>. QED
    BY <1>1, <1>2 DEF Plan!Next

LEMMA BillingTypeStep == ASSUME Plan!IndInv, Plan!Next PROVE Plan!TypeInv'
  <1>0. /\ Plan!TypeInv /\ begun \in Nat
        /\ standing \in {"trial", "active", "suspended"} /\ followed \in {0} \cup Plan!Sessions
        /\ mixed \in BOOLEAN /\ outdated \in BOOLEAN /\ doubled \in BOOLEAN
    BY DEF Plan!IndInv, Plan!TypeInv, Plan!TypeOK
  <1>1. /\ today' \in 1 .. MaxDay /\ granted' \in Nat
        /\ atStripe' \in [Plan!Sessions -> Plan!Remote]
        /\ asked' \in [BillingHandlers -> Plan!Request]
    BY DaysMoveOn, RemoteSteps, AskedSteps DEF DaysPass
  <1>2. subscription' \in Plan!Subscription /\ mixed' \in BOOLEAN /\ outdated' \in BOOLEAN
    <2>1. CASE subscription' = subscription /\ mixed' = mixed /\ outdated' = outdated
      BY <1>0, <2>1 DEF Plan!TypeInv, Plan!TypeOK
    <2>2. ASSUME NEW h \in BillingHandlers,
                 Plan!SaveLocal(h) \/ Plan!SaveExtended(h) \/ Plan!SyncSave(h)
          PROVE  subscription' \in Plan!Subscription /\ mixed' \in BOOLEAN /\ outdated' \in BOOLEAN
      <3>1. subscription' = Plan!Saved(h)
        BY <2>2 DEF Plan!SaveLocal, Plan!SaveExtended, Plan!SyncSave
      <3>2. mixed' \in BOOLEAN /\ outdated' \in BOOLEAN
        BY <2>2, Zenon DEF Plan!SaveLocal, Plan!SaveExtended, Plan!SyncSave, Plan!Stale
      <3>. QED
        BY <1>0, <3>1, <3>2, SavedFields
    <2>. QED
      BY <2>1, <2>2, SubSteps
  <1>3. /\ standing' \in {"trial", "active", "suspended"} /\ begun' \in Nat
        /\ followed' \in {0} \cup Plan!Sessions /\ doubled' \in BOOLEAN
    <2>1. CASE Plan!Tick
      BY <1>0, <2>1 DEF Plan!Tick, Plan!history
    <2>2. ASSUME NEW i \in Plan!Sessions, Plan!Complete(i) \/ Plan!RemoteChanges(i)
          PROVE  /\ standing' = standing /\ begun' = begun /\ doubled' = doubled
                 /\ followed' \in {0, followed}
      BY <2>2 DEF Plan!Complete, Plan!RemoteChanges, Plan!Changed, Plan!history
    <2>3. ASSUME NEW h \in BillingHandlers, Plan!Step(h)
          PROVE  /\ standing' \in {"trial", "active", "suspended"}
                 /\ begun' = begun \/ begun' = begun + 1
                 /\ followed' \in {0} \cup Plan!Sessions /\ doubled' \in BOOLEAN
      <3>1. standing' \in {standing, Plan!Marked(standing), "suspended", "trial", "active"}
        BY <2>3
           DEF Plan!Step, Plan!BeginUse, Plan!Load, Plan!SaveLocal, Plan!OpenSession,
               Plan!BeginSync, Plan!SyncLoad, Plan!SyncSave,
               Plan!AskStripe, Plan!UpdateRemote, Plan!BeginExtend, Plan!SaveExtended,
               Plan!MarkWorkspace, Plan!BeginSuspend,
               Plan!Suspend, Plan!BeginReactivate, Plan!ResolveActiveStatus, Plan!Reactivate
      <3>2. begun' = begun \/ begun' = begun + 1
        BY <2>3, Zenon
           DEF Plan!Step, Plan!BeginUse, Plan!Load, Plan!SaveLocal, Plan!OpenSession,
               Plan!BeginSync, Plan!SyncLoad, Plan!SyncSave,
               Plan!AskStripe, Plan!UpdateRemote, Plan!BeginExtend, Plan!SaveExtended,
               Plan!MarkWorkspace, Plan!BeginSuspend,
               Plan!Suspend, Plan!BeginReactivate, Plan!ResolveActiveStatus, Plan!Reactivate,
               Plan!Begin
      <3>3. asked[h].i \in {0} \cup Plan!Sessions
        BY <1>0, AskedFields DEF Plan!TypeInv
      <3>4. followed' \in {0, followed, asked[h].i}
        BY <2>3
           DEF Plan!Step, Plan!BeginUse, Plan!Load, Plan!SaveLocal, Plan!OpenSession,
               Plan!BeginSync, Plan!SyncLoad, Plan!SyncSave,
               Plan!AskStripe, Plan!UpdateRemote, Plan!BeginExtend, Plan!SaveExtended,
               Plan!MarkWorkspace, Plan!BeginSuspend,
               Plan!Suspend, Plan!BeginReactivate, Plan!ResolveActiveStatus, Plan!Reactivate,
               Plan!Changed, Plan!history
      <3>5. doubled' \in BOOLEAN
        <4>1. CASE Plan!OpenSession(h)
          BY <1>0, <4>1, Zenon DEF Plan!OpenSession
        <4>2. CASE ~Plan!OpenSession(h)
          BY <1>0, <2>3, <4>2, Zenon
             DEF Plan!Step, Plan!BeginUse, Plan!Load, Plan!SaveLocal, Plan!BeginSync,
                 Plan!SyncLoad, Plan!SyncSave,
                 Plan!AskStripe, Plan!UpdateRemote, Plan!BeginExtend, Plan!SaveExtended,
                 Plan!MarkWorkspace, Plan!BeginSuspend,
                 Plan!Suspend, Plan!BeginReactivate, Plan!ResolveActiveStatus, Plan!Reactivate,
                 Plan!history
        <4>. QED
          BY <4>1, <4>2
      <3>. QED
        BY <1>0, <3>1, <3>2, <3>3, <3>4, <3>5 DEF Plan!Marked
    <2>. QED
      BY <1>0, <2>1, <2>2, <2>3 DEF Plan!Next
  <1>. QED
    BY <1>1, <1>2, <1>3 DEF Plan!TypeInv, Plan!TypeOK

(* A document that is saved when it has not changed meanwhile.             *)
LEMMA SavesOver ==
    ASSUME Plan!IndInv, NEW h \in BillingHandlers,
           Plan!SaveLocal(h) \/ Plan!SaveExtended(h) \/ Plan!SyncSave(h), ~Plan!Stale(h)
    PROVE  subscription' = asked[h].next /\ asked[h].loaded = subscription
  <1>1. subscription' = Plan!Saved(h)
    BY DEF Plan!SaveLocal, Plan!SaveExtended, Plan!SyncSave
  <1>2. Plan!Saved(h) = asked[h].next
    BY SavedFields DEF Plan!IndInv
  <1>. QED
    BY <1>1, <1>2 DEF Plan!Stale

LEMMA SubStep == ASSUME Plan!IndInv, Plan!Next PROVE Plan!SubHolds'
  <1>0. DaysPass /\ Plan!TypeInv /\ Plan!SubHolds /\ subscription \in Plan!Subscription
    BY DaysMoveOn DEF Plan!IndInv, Plan!TypeInv, Plan!TypeOK
  <1>1. CASE subscription' = subscription /\ mixed' = mixed /\ outdated' = outdated
    <2>1. PICK s \in Plan!Subscription : s = subscription
      BY <1>0
    <2>2. /\ Plan!AtStripe(s.bound) => Plan!AtStripe(s.bound)'
          /\ Plan!Due(s) => Plan!Due(s)'
          /\ Plan!TrialOver(s) => Plan!TrialOver(s)'
          /\ Plan!Truthful(s) => Plan!Truthful(s)'
      BY <1>0, DocumentStays
    <2>3. /\ Plan!AtStripe(subscription.bound)'
          /\ ~outdated' => Plan!Due(subscription)' /\ Plan!TrialOver(subscription)'
      BY <1>0, <1>1, <2>1, <2>2 DEF Plan!SubHolds, Plan!AtStripe, Plan!Due, Plan!TrialOver
    <2>4. ~mixed' => Plan!Dated(subscription)' /\ Plan!Truthful(subscription)'
      BY <1>0, <1>1, <2>1, <2>2 DEF Plan!SubHolds, Plan!Dated, Plan!Truthful
    <2>5. subscription'.trialEndsAt \in 1 .. granted'
      BY <1>0, <1>1, SubscriptionFields DEF Plan!SubHolds, DaysPass
    <2>. QED
      BY <2>3, <2>4, <2>5 DEF Plan!SubHolds
  <1>2. ASSUME NEW h \in BillingHandlers,
               Plan!SaveLocal(h) \/ Plan!SaveExtended(h) \/ Plan!SyncSave(h)
        PROVE  Plan!SubHolds'
    <2>. DEFINE q == asked[h]
    <2>0. /\ q \in Plan!Request /\ GoodRequest(q) /\ subscription' = Plan!Saved(h)
          /\ atStripe' = atStripe /\ today' = today
          /\ granted \in Nat
      BY <1>2, RequestsGood DEF Plan!IndInv, Plan!SaveLocal, Plan!SaveExtended, Plan!SyncSave,
                                Plan!TypeInv
    <2>1. /\ subscription'.bound = subscription.bound \/ subscription'.bound = q.next.bound
          /\ \/ subscription'.trialEndsAt = subscription.trialEndsAt
             \/ subscription'.trialEndsAt = q.next.trialEndsAt
      BY <1>0, <2>0, SavedFields DEF Plan!SavedPath
    <2>2. Plan!AtStripe(subscription.bound)'
      BY <1>0, <2>0, <2>1 DEF Plan!SubHolds, Plan!AtStripe, GoodRequest, Plan!KnowsStripe
    <2>3. subscription'.trialEndsAt \in 1 .. granted'
      <3>1. CASE Plan!SaveExtended(h)
        <4>1. granted' = granted + ExtendDays /\ q.pc = "extend"
          BY <3>1 DEF Plan!SaveExtended, Plan!At
        <4>2. q.next.trialEndsAt \in 1 .. granted' /\ granted <= granted'
          BY <2>0, <4>1, BoundTypes DEF GoodRequest, Plan!Given
        <4>3. subscription.trialEndsAt \in 1 .. granted'
          BY <1>0, <2>0, <4>1, BoundTypes DEF Plan!SubHolds
        <4>. QED
          BY <2>1, <4>2, <4>3
      <3>2. CASE Plan!SaveLocal(h) \/ Plan!SyncSave(h)
        <4>1. granted' = granted /\ q.pc # "extend"
          BY <3>2 DEF Plan!SaveLocal, Plan!SyncSave, Plan!At
        <4>2. q.next.trialEndsAt \in 1 .. granted + 0
          BY <2>0, <4>1 DEF GoodRequest, Plan!Given
        <4>. QED
          BY <1>0, <2>0, <2>1, <4>1, <4>2 DEF Plan!SubHolds
      <3>. QED
        BY <1>2, <3>1, <3>2
    <2>4. ~outdated' => ~Plan!Stale(h) /\ (Plan!SyncSave(h) \/ ~outdated)
      BY <1>2, Zenon DEF Plan!SaveLocal, Plan!SaveExtended, Plan!SyncSave
    <2>5. ~mixed' => ~Plan!Stale(h) /\ ~mixed
      BY <1>2, Zenon DEF Plan!SaveLocal, Plan!SaveExtended, Plan!SyncSave
    <2>6. q.pc \in {"save", "extend", "sync_save"}
      BY <1>2 DEF Plan!SaveLocal, Plan!SaveExtended, Plan!SyncSave, Plan!At
    <2>7. ASSUME ~outdated' PROVE Plan!Due(subscription)' /\ Plan!TrialOver(subscription)'
      <3>1. subscription' = q.next /\ q.loaded = subscription
        BY <1>2, <2>4, <2>7, SavesOver
      <3>2. Plan!Due(q.next)
        BY <2>0, <2>6 DEF GoodRequest, Plan!Windowed
      <3>3. Plan!TrialOver(q.next)
        <4>1. CASE Plan!SaveLocal(h) /\ q.loaded.status = "past_due"
          <5>1. Plan!TrialOver(subscription)
            BY <1>0, <2>4, <2>7, <4>1 DEF Plan!SubHolds, Plan!SaveLocal, Plan!SyncSave, Plan!At
          <5>2. /\ q.loaded.bound = 0 /\ q.next.trialEndsAt = q.loaded.trialEndsAt
            BY <2>0, <4>1 DEF GoodRequest, Plan!AboutTrial, Plan!SaveLocal, Plan!At
          <5>. QED
            BY <3>1, <4>1, <5>1, <5>2 DEF Plan!TrialOver
        <4>2. CASE Plan!SaveLocal(h) /\ q.loaded.status # "past_due"
          BY <2>0, <4>2 DEF GoodRequest, Plan!Windowed, Plan!SaveLocal, Plan!At
        <4>3. CASE Plan!SaveExtended(h)
          BY <2>0, <4>3 DEF GoodRequest, Plan!AboutTrial, Plan!SaveExtended, Plan!At, Plan!TrialOver
        <4>4. CASE Plan!SyncSave(h)
          BY <2>0, <4>4 DEF GoodRequest, Plan!KnowsStripe, Plan!SyncSave, Plan!At, Plan!TrialOver
        <4>. QED
          BY <1>2, <4>1, <4>2, <4>3, <4>4
      <3>. QED
        BY <2>0, <3>1, <3>2, <3>3 DEF Plan!Due, Plan!TrialOver
    <2>8. ASSUME ~mixed' PROVE Plan!Dated(subscription)' /\ Plan!Truthful(subscription)'
      <3>1. subscription' = q.next /\ q.loaded = subscription /\ ~mixed
        BY <1>2, <2>5, <2>8, SavesOver
      <3>2. Plan!Dated(q.next)
        BY <1>0, <2>0, <2>6, <3>1 DEF GoodRequest, Plan!Windowed, Plan!SubHolds
      <3>3. Plan!Truthful(q.next)
        BY <2>0, <3>1 DEF GoodRequest
      <3>. QED
        BY <2>0, <3>1, <3>2, <3>3 DEF Plan!Dated, Plan!Truthful
    <2>. QED
      BY <2>2, <2>3, <2>7, <2>8 DEF Plan!SubHolds
  <1>. QED
    BY <1>1, <1>2, SubSteps

LEMMA FollowStep == ASSUME Plan!IndInv, Plan!Next PROVE Plan!StatusFollows'
  <1>0. Plan!TypeInv /\ Plan!StatusFollows /\ Plan!SubHolds /\ followed \in {0} \cup Plan!Sessions
    BY DEF Plan!IndInv, Plan!TypeInv
  <1>1. CASE subscription' = subscription /\ (followed' = followed \/ followed' = 0)
    <2>. SUFFICES ASSUME followed' # 0 PROVE atStripe'[followed] = atStripe[followed]
      BY <1>0, <1>1 DEF Plan!StatusFollows
    <2>1. followed \in Plan!Sessions /\ followed # 0 /\ followed' = followed
      BY <1>0, <1>1
    <2>2. atStripe[followed].status \in Plan!Live \cup {"canceled"}
      BY <1>0, <2>1 DEF Plan!StatusFollows, Plan!SubHolds, Plan!AtStripe
    <2>3. RemoteMoves(followed)
      BY <2>1, RemoteSteps
    <2>. QED
      BY <2>1, <2>2, <2>3 DEF RemoteMoves, Plan!Changed, Plan!Live
  <1>2. ASSUME NEW h \in BillingHandlers,
               Plan!SaveLocal(h) \/ Plan!SaveExtended(h) \/ Plan!SyncSave(h)
        PROVE  Plan!StatusFollows'
    <2>. DEFINE q == asked[h]
    <2>0. /\ q \in Plan!Request /\ GoodRequest(q) /\ subscription' = Plan!Saved(h)
          /\ atStripe' = atStripe
      BY <1>2, RequestsGood DEF Plan!IndInv, Plan!SaveLocal, Plan!SaveExtended, Plan!SyncSave
    <2>1. CASE Plan!SaveLocal(h)
      <3>1. ~Plan!Stale(h) => q.loaded = subscription
        BY DEF Plan!Stale
      <3>2. q.loaded.bound = 0
        BY <2>0, <2>1 DEF GoodRequest, Plan!AboutTrial, Plan!SaveLocal, Plan!At
      <3>3. followed' = 0
        BY <1>0, <2>1, <3>1, <3>2 DEF Plan!SaveLocal, Plan!StatusFollows
      <3>. QED
        BY <3>3 DEF Plan!StatusFollows
    <2>2. CASE Plan!SaveExtended(h)
      <3>1. /\ q.loaded.bound = 0 /\ q.next.bound = 0 /\ q.next.items = q.loaded.items
            /\ q.loaded.status = q.next.status
        BY <2>0, <2>2 DEF GoodRequest, Plan!AboutTrial, Plan!SaveExtended, Plan!At
      <3>2. /\ subscription'.bound = subscription.bound /\ subscription'.items = subscription.items
            /\ subscription'.status = subscription.status
        BY <1>0, <2>0, <3>1, SavedFields DEF Plan!SavedPath
      <3>. QED
        BY <1>0, <2>0, <2>2, <3>2 DEF Plan!SaveExtended, Plan!StatusFollows
    <2>3. CASE Plan!SyncSave(h)
      <3>. SUFFICES ASSUME followed' # 0 PROVE Plan!StatusFollows'
        BY DEF Plan!StatusFollows
      <3>1. ~Plan!Stale(h) /\ q.seen = atStripe[q.i] /\ followed' = q.i
        BY <2>3 DEF Plan!SyncSave
      <3>2. subscription' = q.next
        BY <2>3, <3>1, SavesOver
      <3>3. /\ q.next.status = Plan!Local(q.seen.status) /\ q.next.bound = q.i
            /\ q.next.items = q.seen.items
        BY <2>0, <2>3 DEF GoodRequest, Plan!KnowsStripe, Plan!SyncSave, Plan!At
      <3>. QED
        BY <2>0, <3>1, <3>2, <3>3 DEF Plan!StatusFollows
    <2>. QED
      BY <1>2, <2>1, <2>2, <2>3
  <1>. QED
    BY <1>1, <1>2, SubSteps

IsPaid(i) == atStripe[i].status \in Plan!Live \cup {"open"}

(* Where a session is opened, and none beside another, nothing is paid for *)
(* yet: a subscription that its document says is canceled is canceled.     *)
LEMMA OpenedAlone ==
    ASSUME Plan!IndInv, NEW h \in BillingHandlers, Plan!OpenSession(h), atStripe' # atStripe,
           ~mixed, ~doubled',
           NEW j \in Plan!Sessions
    PROVE  ~IsPaid(j)
  <1>. DEFINE s == asked[h].next
  <1>1. /\ ~(atStripe[j].status = "open") /\ (atStripe[j].status \in Plan!Live => s.bound = j)
        /\ ~Plan!Managed(s)
    BY Zenon DEF Plan!OpenSession
  <1>2. s \in Plan!Subscription /\ Plan!Truthful(s) /\ j # 0
    BY RequestsGood, AskedFields, BoundTypes DEF Plan!IndInv, GoodRequest
  <1>3. s.status \in {"trialing", "active", "past_due", "canceled"}
    BY <1>2, SubscriptionFields
  <1>4. atStripe[j].status \notin Plan!Live
    BY <1>1, <1>2, <1>3 DEF Plan!Managed, Plan!Truthful, Plan!Gone, Plan!Live
  <1>. QED
    BY <1>1, <1>4 DEF IsPaid

LEMMA RemoteStep == ASSUME Plan!IndInv, Plan!Next PROVE Plan!RemoteHolds'
  <1>0. DaysPass /\ Plan!TypeInv /\ Plan!RemoteHolds
    BY DaysMoveOn DEF Plan!IndInv
  <1>1. Plan!FirstSub.trialEndsAt \in Nat /\ Plan!FirstSub.trialEndsAt <= granted'
    BY <1>0, FirstTypes, SubscriptionFields DEF DaysPass, Plan!RemoteHolds
  <1>2. doubled => doubled'
    <2>1. CASE \E h \in BillingHandlers : Plan!OpenSession(h)
      BY <2>1, Zenon DEF Plan!OpenSession
    <2>2. CASE ~\E h \in BillingHandlers : Plan!OpenSession(h)
      <3>1. doubled' = doubled
        BY <2>2, Zenon
           DEF Plan!Next, Plan!Step, Plan!Tick, Plan!Complete, Plan!RemoteChanges, Plan!BeginUse,
               Plan!Load, Plan!SaveLocal, Plan!BeginSync,
               Plan!SyncLoad, Plan!SyncSave, Plan!AskStripe, Plan!UpdateRemote, Plan!BeginExtend,
               Plan!SaveExtended,
               Plan!MarkWorkspace, Plan!BeginSuspend, Plan!Suspend, Plan!BeginReactivate,
               Plan!ResolveActiveStatus,
               Plan!Reactivate, Plan!history
      <3>. QED
        BY <3>1
    <2>. QED
      BY <2>1, <2>2
  <1>3. ASSUME ~mixed', ~doubled', NEW i \in Plan!Sessions, NEW j \in Plan!Sessions, IsPaid(i)',
               IsPaid(j)'
        PROVE  i = j
    <2>1. ~mixed /\ ~doubled
      BY <1>0, <1>2, <1>3 DEF DaysPass
    <2>2. \A m, n \in Plan!Sessions : IsPaid(m) /\ IsPaid(n) => m = n
      BY <1>0, <2>1 DEF Plan!RemoteHolds, IsPaid
    <2>3. CASE \E h \in BillingHandlers : Plan!OpenSession(h) /\ atStripe' # atStripe
      <3>1. PICK h \in BillingHandlers : Plan!OpenSession(h) /\ atStripe' # atStripe
        BY <2>3
      <3>2. PICK k \in Plan!Sessions : \E r : atStripe' = [atStripe EXCEPT ![k] = r]
        BY <3>1 DEF Plan!OpenSession
      <3>3. \A m \in Plan!Sessions : ~IsPaid(m)
        BY <1>3, <2>1, <3>1, OpenedAlone
      <3>4. \A m \in Plan!Sessions \ {k} : atStripe'[m] = atStripe[m]
        BY <1>0, <3>2 DEF Plan!TypeInv, Plan!TypeOK
      <3>5. i = k /\ j = k
        BY <1>3, <3>3, <3>4 DEF IsPaid
      <3>. QED
        BY <3>5
    <2>4. CASE ~\E h \in BillingHandlers : Plan!OpenSession(h) /\ atStripe' # atStripe
      <3>1. ASSUME NEW m \in Plan!Sessions, IsPaid(m)' PROVE IsPaid(m)
        <4>1. RemoteMoves(m)
          BY RemoteSteps
        <4>2. CASE atStripe'[m] = atStripe[m]
          BY <3>1, <4>2 DEF IsPaid
        <4>3. CASE atStripe'[m] # atStripe[m]
          BY <2>4, <4>1, <4>3 DEF RemoteMoves, IsPaid
        <4>. QED
          BY <4>2, <4>3
      <3>. QED
        BY <1>3, <2>2, <3>1
    <2>. QED
      BY <2>3, <2>4
  <1>4. \A i \in Plan!Sessions : atStripe'[i].trialEndsAt <= granted'
    BY RemoteSteps
  <1>5. ~mixed' /\ ~doubled' => \A i, j \in Plan!Sessions :
           {atStripe'[i].status, atStripe'[j].status} \subseteq Plan!Live \cup {"open"} => i = j
    BY <1>3 DEF IsPaid
  <1>. QED
    BY <1>1, <1>4, <1>5 DEF Plan!RemoteHolds

----------------------------------------------------------------------------
(* The theorems *)

LEMMA BillingInit == Plan!Init => Plan!IndInv
  <1>. SUFFICES ASSUME Plan!Init PROVE Plan!IndInv
    OBVIOUS
  <1>1. /\ Plan!FirstSub \in Plan!Subscription /\ Plan!NoRemote \in Plan!Remote
        /\ Plan!Idle \in Plan!Request
        /\ Plan!FirstSub.trialEndsAt \in Nat
    BY FirstTypes, SubscriptionFields
  <1>2. Plan!TypeInv
    <2>1. today \in 1 .. MaxDay /\ granted \in Nat /\ begun \in Nat
      BY <1>1, BoundTypes DEF Plan!Init
    <2>2. Plan!TypeOK
      BY <1>1, <2>1 DEF Plan!Init, Plan!TypeOK
    <2>3. mixed \in BOOLEAN /\ outdated \in BOOLEAN /\ doubled \in BOOLEAN
      BY DEF Plan!Init
    <2>. QED
      BY <1>1, <2>1, <2>2, <2>3 DEF Plan!Init, Plan!TypeInv
  <1>3. /\ Plan!FirstSub.trialEndsAt >= 1 /\ Plan!FirstSub.status = "trialing"
        /\ Plan!FirstSub.bound = 0
        /\ Plan!FirstSub.partialBlockStartsAt = Plan!Never /\ Plan!NoRemote.trialEndsAt = 0
        /\ Plan!NoRemote.status = "none"
    BY BoundTypes DEF Plan!FirstSub, Plan!NoRemote, Plan!Never
  <1>4. Plan!RemoteHolds
    BY <1>1, <1>3 DEF Plan!Init, Plan!RemoteHolds, Plan!Live
  <1>5. Plan!SubHolds
    BY <1>1, <1>3 DEF Plan!Init, Plan!SubHolds, Plan!AtStripe, Plan!Due, Plan!TrialOver,
                      Plan!Dated, Plan!Truthful
  <1>6. Plan!RequestsHold
    BY <1>2, <1>4, IdleGood DEF Plan!Init, Plan!RequestsHold, GoodRequest
  <1>7. Plan!StatusFollows
    BY DEF Plan!Init, Plan!StatusFollows
  <1>. QED
    BY <1>2, <1>4, <1>5, <1>6, <1>7 DEF Plan!IndInv

LEMMA BillingStep == Plan!IndInv /\ [Plan!Next]_(Plan!vars) => Plan!IndInv'
  <1>1. ASSUME Plan!IndInv, Plan!Next PROVE Plan!IndInv'
    BY <1>1, BillingTypeStep, AskedSteps, SubStep, RemoteStep, FollowStep DEF Plan!IndInv
  <1>2. ASSUME Plan!IndInv, UNCHANGED Plan!vars PROVE Plan!IndInv'
    <2>1. Plan!TypeInv' /\ Plan!StatusFollows'
      BY <1>2 DEF Plan!IndInv, Plan!TypeInv, Plan!TypeOK, Plan!StatusFollows, Plan!vars,
                  Plan!history
    <2>2. Plan!RequestsHold'
      BY SMTT(20), <1>2 DEF Plan!IndInv, Plan!RequestsHold, Plan!KnowsStripe, Plan!AtStripe,
                  Plan!AboutTrial, Plan!Given, Plan!Windowed, Plan!Due, Plan!Dated,
                  Plan!TrialOver, Plan!Truthful, Plan!vars, Plan!history
    <2>3. Plan!SubHolds' /\ Plan!RemoteHolds'
      BY <1>2 DEF Plan!IndInv, Plan!SubHolds, Plan!RemoteHolds, Plan!AtStripe, Plan!Due,
                  Plan!Dated, Plan!TrialOver, Plan!Truthful, Plan!vars,
                  Plan!history
    <2>. QED
      BY <2>1, <2>2, <2>3 DEF Plan!IndInv
  <1>. QED
    BY <1>1, <1>2

LEMMA BillingPromised ==
    ASSUME Plan!IndInv
    PROVE  /\ Plan!TypeOK /\ Plan!BlockIsDue /\ Plan!TrialIsHonoured /\ Plan!StatusFollows
           /\ Plan!PaysOnce /\ Plan!TrialNeverGrows
  <1>0. Plan!TypeInv /\ Plan!SubHolds /\ Plan!RemoteHolds
    BY DEF Plan!IndInv
  <1>1. Plan!TypeOK /\ Plan!BlockIsDue /\ Plan!TrialIsHonoured /\ Plan!StatusFollows
    BY <1>0 DEF Plan!IndInv, Plan!TypeInv, Plan!BlockIsDue, Plan!TrialIsHonoured, Plan!SubHolds,
                Plan!Due, Plan!Dated, Plan!TrialOver
  <1>2. Plan!TrialNeverGrows
    BY <1>0 DEF Plan!TrialNeverGrows, Plan!SubHolds, Plan!RemoteHolds, Plan!TypeInv
  <1>3. ASSUME ~doubled, ~mixed
        PROVE  Cardinality({i \in Plan!Sessions : atStripe[i].status \in Plan!Live}) <= 1
    <2>. DEFINE P == {i \in Plan!Sessions : atStripe[i].status \in Plan!Live}
    <2>1. \A i, j \in P : i = j
      BY <1>0, <1>3 DEF Plan!RemoteHolds
    <2>2. P = {} \/ \E i \in P : P = {i}
      BY <2>1
    <2>. HIDE DEF P
    <2>3. Cardinality(P) \in {0, 1}
      BY <2>2, FS_EmptySet, FS_Singleton
    <2>. QED
      BY <2>3 DEF P
  <1>. QED
    BY <1>1, <1>2, <1>3, SameCount DEF Plan!PaysOnce

LEMMA BillingAllowed ==
    ASSUME Plan!IndInv, [Plan!Next]_(Plan!vars)
    PROVE  Plan!GraceStays /\ Plan!LiftedByAdmin
  <1>0. Plan!TypeInv /\ Plan!SubHolds /\ subscription \in Plan!Subscription
    BY DEF Plan!IndInv, Plan!TypeInv, Plan!TypeOK
  <1>1. CASE UNCHANGED Plan!vars
    BY <1>1 DEF Plan!vars, Plan!GraceStays, Plan!LiftedByAdmin
  <1>2. ASSUME Plan!Next PROVE Plan!GraceStays
    <2>1. CASE subscription' = subscription
      BY <2>1 DEF Plan!GraceStays
    <2>2. ASSUME NEW h \in BillingHandlers,
                 Plan!SaveLocal(h) \/ Plan!SaveExtended(h) \/ Plan!SyncSave(h)
          PROVE  Plan!GraceStays
      <3>. SUFFICES ASSUME ~outdated, ~outdated', subscription.status = "past_due",
                           subscription'.status = "past_due"
                    PROVE  subscription'.graceEndsAt = subscription.graceEndsAt
        BY DEF Plan!GraceStays
      <3>1. ~Plan!Stale(h)
        BY <2>2, Zenon DEF Plan!SaveLocal, Plan!SaveExtended, Plan!SyncSave
      <3>2. subscription' = asked[h].next /\ asked[h].loaded = subscription
        BY <2>2, <3>1, SavesOver
      <3>3. subscription.graceEndsAt # Plan!Never
        BY <1>0 DEF Plan!SubHolds, Plan!Due
      <3>4. Plan!Windowed(asked[h]) /\ asked[h].pc \in {"save", "extend", "sync_save"}
        BY <2>2, RequestsGood DEF Plan!IndInv, GoodRequest, Plan!SaveLocal, Plan!SaveExtended,
                                  Plan!SyncSave, Plan!At
      <3>. QED
        BY <3>2, <3>3, <3>4 DEF Plan!Windowed
    <2>. QED
      BY <1>2, <2>1, <2>2, SubSteps
  <1>3. ASSUME Plan!Next, standing = "suspended", standing' # standing
        PROVE  \E h \in BillingHandlers : asked[h].op = "reactivate" /\ asked'[h] = Plan!Idle
    <2>1. PICK h \in BillingHandlers : Plan!Reactivate(h) \/ Plan!MarkWorkspace(h) \/ Plan!Suspend(h)
      BY <1>3, Zenon
         DEF Plan!Next, Plan!Step, Plan!Tick, Plan!Complete, Plan!RemoteChanges, Plan!BeginUse,
             Plan!Load, Plan!SaveLocal, Plan!OpenSession,
             Plan!BeginSync, Plan!SyncLoad, Plan!SyncSave, Plan!AskStripe, Plan!UpdateRemote,
             Plan!BeginExtend, Plan!SaveExtended,
             Plan!BeginSuspend, Plan!BeginReactivate, Plan!ResolveActiveStatus
    <2>2. Plan!Reactivate(h)
      BY <1>3, <2>1 DEF Plan!MarkWorkspace, Plan!Suspend, Plan!Marked
    <2>3. asked[h].op = "reactivate"
      BY <2>2, RequestsGood DEF Plan!IndInv, GoodRequest, Plan!AboutTrial, Plan!Reactivate
    <2>4. asked'[h] = Plan!Idle
      BY <1>0, <2>2 DEF Plan!Reactivate, Plan!Done, Plan!TypeInv
    <2>. QED
      BY <2>3, <2>4
  <1>. QED
    BY <1>1, <1>2, <1>3 DEF Plan!LiftedByAdmin

(* The subscription of a workspace is what Stripe's was when it was saved  *)
(* last, its trial lasts as long as was given and no longer, the block     *)
(* comes with the end of the grace, and one subscription at Stripe is paid *)
(* for (billing-lifecycle.js, ensureWorkspaceSubscriptionFoundation,       *)
(* syncWorkspaceSubscriptionFromStripe, extendAdminWorkspaceTrial),        *)
(* whatever is asked for at the same time and whatever Stripe does; saves  *)
(* over a document that has changed meanwhile are left out where each part *)
(* says so.                                                                *)
THEOREM SubscriptionIsKept == Plan!Spec => []SubscriptionHolds
  <1>1. Plan!IndInv => SubscriptionHolds
    BY BillingPromised DEF SubscriptionHolds
  <1>. QED
    BY <1>1, BillingInit, BillingStep, PTL DEF Plan!Spec

(* The days of grace do not begin again while a payment stays due, and a   *)
(* suspended workspace is let in again by reactivateAdminWorkspace only,   *)
(* whoever extends its trial at the same time.                             *)
THEOREM OnlyAllowedAreTaken == Plan!Spec => OnlyAllowedSteps
  <1>1. Plan!IndInv /\ [Plan!Next]_(Plan!vars) => Plan!GraceStays /\ Plan!LiftedByAdmin
    BY BillingAllowed
  <1>. QED
    BY <1>1, BillingInit, BillingStep, PTL DEF Plan!Spec, OnlyAllowedSteps
=============================================================================
