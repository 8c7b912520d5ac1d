------------------------------ MODULE LiveHub ------------------------------
(***************************************************************************)
(* How a tab hears the end of its send: the send is answered as soon as its  *)
(* turn is accepted (respondAsyncSend.ts), the turn's answer is kept for the *)
(* tab (turnOutcomeRegistry.ts) and comes over the browser's one live stream *)
(* (sseLiveHub.ts on the server, hubCore.ts in the browser's worker), to     *)
(* which the tab's wait subscribes (sendRoutedClient.ts).  The stream breaks *)
(* and comes back as another hub, a change of the subscriptions is lost on   *)
(* its way or on its way back, tabs sleep, and the server starts again.  A   *)
(* tab and the worker talk over a port, in order: as one step here.          *)
(***************************************************************************)
EXTENDS Integers, FiniteSets

CONSTANTS
  Sends,            \* each from a tab of its own
  MaxResubscribes,  \* MAX_RESUBSCRIBES
  MaxFaults         \* bound of the instance: breaks, losses, restarts and naps

ASSUME HubAssumption == MaxResubscribes \in Nat /\ MaxFaults \in Nat

VARIABLES
  tab,        \* each send's wait, in its tab
  asks,       \* the number of its present subscription
  wanted,     \* the worker's view of that subscription
  worker,     \* its stream, the hub it knows, what it holds there, its retry
  pipe,       \* the stream: the hub at its far end, what is on its way
  patch,      \* the change under way (the worker sends one at a time)
  answer,     \* the turns, in the registry of outcomes
  hub,        \* the server's open hub, if any
  held,       \* the subscriptions it holds
  watching,   \* those that wait for their turn to end
  died,       \* the sends whose answer a restart took along
  slept,      \* the sends whose tab said bye while it waited
  faults

hubVars == << tab, asks, wanted, worker, pipe, patch, answer, hub, held, watching,
              died, slept, faults >>

NoHub == 0
Ids == Sends \X (1 .. MaxResubscribes + 1)
IdOf(s) == <<s, asks[s]>>
IdleWorker == [stream |-> "none", hub |-> NoHub, known |-> {}, retry |-> FALSE]
NoPatch == [place |-> "none", hub |-> NoHub, add |-> {}, remove |-> {}, added |-> {},
            refused |-> {}]
DryPipe == [hub |-> NoHub, greets |-> FALSE, over |-> {}]
Done == {"answered", "failed", "stopped"}

HubInit ==
  /\ tab = [s \in Sends |-> "idle"] /\ asks = [s \in Sends |-> 1]
  /\ wanted = [s \in Sends |-> "none"]
  /\ worker = IdleWorker /\ pipe = DryPipe /\ patch = NoPatch
  /\ answer = [s \in Sends |-> "none"]
  /\ hub = NoHub /\ held = {} /\ watching = {}
  /\ died = {} /\ slept = {} /\ faults = 0

Fault == faults < MaxFaults /\ faults' = faults + 1

serverVars == <<answer, hub, held, watching, died>>
tabVars == <<tab, asks>>

\* What the worker's next change of the hub's subscriptions would say.
ToAdd == {IdOf(s) : s \in {t \in Sends : wanted[t] = "pending"}} \ worker.known
ToRemove == worker.known \ {IdOf(s) : s \in {t \in Sends : wanted[t] # "none"}}

\* queueSync: a change that can be sent is sent before the worker's next event.
MustSync ==
  /\ worker.hub # NoHub /\ ~worker.retry /\ patch.place = "none"
  /\ ToAdd \cup ToRemove # {}

-----------------------------------------------------------------------------
(* The tabs, and what the worker does at their word.                        *)

\* reconcile: with nothing wanted the stream is closed, else it is opened.
Reconcile(nowWanted) ==
  IF \A s \in Sends : nowWanted[s] = "none"
  THEN worker' = IdleWorker /\ pipe' = DryPipe
  ELSE /\ worker' = IF worker.stream = "none" THEN [worker EXCEPT !.stream = "connecting"]
                                              ELSE worker
       /\ pipe' = pipe

Wants(s, state) ==
  /\ ~MustSync
  /\ wanted' = [wanted EXCEPT ![s] = state]
  /\ Reconcile(wanted')

\* The server takes the chat's lock and answers 202 with the turn's id.
Accepted(s) ==
  /\ tab[s] = "idle" /\ tab' = [tab EXCEPT ![s] = "accepted"]
  /\ answer' = [answer EXCEPT ![s] = "running"]
  /\ UNCHANGED <<asks, wanted, worker, pipe, patch, hub, held, watching, died, slept, faults>>

Subscribes(s) ==
  /\ tab[s] = "accepted" /\ tab' = [tab EXCEPT ![s] = "waiting"]
  /\ Wants(s, "pending")
  /\ UNCHANGED <<asks, patch, slept, faults>> /\ UNCHANGED serverVars

\* After a refusal the wait subscribes again, under a new id.
SubscribesAgain(s) ==
  /\ tab[s] = "retrying" /\ tab' = [tab EXCEPT ![s] = "waiting"]
  /\ asks' = [asks EXCEPT ![s] = @ + 1]
  /\ Wants(s, "pending")
  /\ UNCHANGED <<patch, slept, faults>> /\ UNCHANGED serverVars

\* The user's Stop ends the wait.
StopsWaiting(s) ==
  /\ tab[s] \in {"accepted", "waiting", "retrying"}
  /\ tab' = [tab EXCEPT ![s] = "stopped"]
  /\ Wants(s, "none")
  /\ UNCHANGED <<asks, patch, slept, faults>> /\ UNCHANGED serverVars

\* The tab says bye, or is silent past the limit, and loses its subscriptions ...
Naps(s) ==
  /\ Fault /\ wanted[s] # "none"
  /\ Wants(s, "none") /\ slept' = slept \cup {s}
  /\ UNCHANGED <<tabVars, patch>> /\ UNCHANGED serverVars

\* ... until it speaks again.
SpeaksAgain(s) ==
  /\ tab[s] = "waiting" /\ wanted[s] = "none"
  /\ Wants(s, "pending")
  /\ UNCHANGED <<tabVars, patch, slept, faults>> /\ UNCHANGED serverVars

-----------------------------------------------------------------------------
(* The worker.                                                              *)

\* A fresh id (randomUUID): the least that nobody knows.
IsFresh(h) == h \notin {NoHub, hub, worker.hub, patch.hub}

\* The hub of a stream before is closed by now: later it would change nothing, as a
\* change of it concerns nobody and what it writes is not read.
HubOpens ==
  /\ worker.stream = "connecting"
  /\ \E h \in 1 .. 4 :
       /\ IsFresh(h) /\ \A g \in 1 .. h - 1 : ~IsFresh(g)
       /\ hub' = h /\ held' = {} /\ watching' = {}
       /\ pipe' = [hub |-> h, greets |-> TRUE, over |-> {}]
  /\ worker' = [worker EXCEPT !.stream = "up"]
  /\ UNCHANGED <<tabVars, wanted, patch, answer, died, slept, faults>>

\* hub_connected.
GreetingArrives ==
  /\ ~MustSync
  /\ worker.stream = "up" /\ pipe.greets
  /\ pipe' = [pipe EXCEPT !.greets = FALSE]
  /\ worker' = [worker EXCEPT !.hub = pipe.hub, !.retry = FALSE]
  /\ UNCHANGED <<tabVars, wanted, patch, slept, faults>> /\ UNCHANGED serverVars

\* turn_over, for the subscription that wants it or for nobody.
OverArrives(id) ==
  LET s == id[1]
      heard == wanted[s] # "none" /\ id = IdOf(s)
  IN  /\ ~MustSync /\ worker.stream = "up" /\ ~pipe.greets /\ id \in pipe.over
      /\ IF heard
         THEN /\ tab' = [tab EXCEPT ![s] = "answered"]
              /\ wanted' = [wanted EXCEPT ![s] = "none"]
              /\ IF \A t \in Sends : wanted'[t] = "none"
                 THEN worker' = IdleWorker /\ pipe' = DryPipe
                 ELSE worker' = worker /\ pipe' = [pipe EXCEPT !.over = @ \ {id}]
         ELSE pipe' = [pipe EXCEPT !.over = @ \ {id}] /\ UNCHANGED <<tab, wanted, worker>>
      /\ UNCHANGED <<asks, patch, slept, faults>> /\ UNCHANGED serverVars

\* sync: one change at a time.
Syncs ==
  /\ MustSync
  /\ patch' = [NoPatch EXCEPT !.place = "sent", !.hub = worker.hub,
                              !.add = ToAdd, !.remove = ToRemove]
  /\ UNCHANGED <<tabVars, wanted, worker, pipe, slept, faults>> /\ UNCHANGED serverVars

\* A mistake: what the old hub held is believed of the next one.
LosesHubOnly(stream) ==
  /\ worker' = [worker EXCEPT !.stream = stream, !.hub = NoHub, !.retry = FALSE]
  /\ wanted' = wanted

\* loseHub: nothing is held, and what was open is pending again.
LosesHub(stream) ==
  /\ worker' = [IdleWorker EXCEPT !.stream = stream]
  /\ wanted' = [s \in Sends |-> IF wanted[s] = "open" THEN "pending" ELSE wanted[s]]

\* A change answered for a hub that has since been replaced is ignored.
StillConcerns == worker.hub = patch.hub

\* The wait whose subscription was refused: with the turn unknown, or once too
\* often, the send failed.
AfterRefusal(s) ==
  IF answer[s] = "unknown" \/ asks[s] > MaxResubscribes THEN "failed" ELSE "retrying"

\* applyAnswer.
AnswerArrives ==
  LET refused == {s \in Sends : wanted[s] = "pending" /\ IdOf(s) \in patch.refused}
      nowWanted == [s \in Sends |->
        IF s \in refused THEN "none"
        ELSE IF wanted[s] = "pending" /\ IdOf(s) \in patch.added THEN "open" ELSE wanted[s]]
  IN  /\ patch.place = "answered" /\ patch' = NoPatch
      /\ IF StillConcerns
         THEN /\ tab' = [s \in Sends |-> IF s \in refused THEN AfterRefusal(s) ELSE tab[s]]
              /\ wanted' = nowWanted
              /\ IF \A s \in Sends : nowWanted[s] = "none"
                 THEN worker' = IdleWorker /\ pipe' = DryPipe
                 ELSE /\ worker' = [worker EXCEPT
                           !.known = (@ \ patch.remove) \cup patch.added]
                      /\ pipe' = pipe
         ELSE UNCHANGED <<tab, wanted, worker, pipe>>
      /\ UNCHANGED <<asks, slept, faults>> /\ UNCHANGED serverVars

\* 404: the server does not know the hub (any more).  The stream starts again.
RefusalArrives ==
  /\ patch.place = "hub unknown" /\ patch' = NoPatch
  /\ IF StillConcerns THEN LosesHub("timer") /\ pipe' = DryPipe
                      ELSE UNCHANGED <<wanted, worker, pipe>>
  /\ UNCHANGED <<tabVars, slept, faults>> /\ UNCHANGED serverVars

\* The change, or its answer, was lost.
LossIsSeen ==
  /\ patch.place = "lost" /\ patch' = NoPatch
  /\ worker' = IF StillConcerns THEN [worker EXCEPT !.retry = TRUE] ELSE worker
  /\ UNCHANGED <<tabVars, wanted, pipe, slept, faults>> /\ UNCHANGED serverVars

RetryFires ==
  /\ ~MustSync
  /\ worker.retry /\ worker' = [worker EXCEPT !.retry = FALSE]
  /\ UNCHANGED <<tabVars, wanted, pipe, patch, slept, faults>> /\ UNCHANGED serverVars

\* A mistake: a stream the browser gave up is not opened again.
BreakIsTaken(stream) ==
  /\ ~MustSync
  /\ worker.stream = "broken" /\ stream \in {"connecting", "timer"}
  /\ LosesHub(IF stream = "timer" THEN "none" ELSE stream)
  /\ UNCHANGED <<tabVars, pipe, patch, slept, faults>> /\ UNCHANGED serverVars

\* The browser reconnects by itself, or gives the stream up.
BreakIsSeen(stream) ==
  /\ ~MustSync
  /\ worker.stream = "broken" /\ stream \in {"connecting", "timer"}
  /\ LosesHub(stream)
  /\ UNCHANGED <<tabVars, pipe, patch, slept, faults>> /\ UNCHANGED serverVars

ReopenFires ==
  /\ worker.stream = "timer"
  /\ worker' = [worker EXCEPT !.stream = "connecting"]
  /\ UNCHANGED <<tabVars, wanted, pipe, patch, slept, faults>> /\ UNCHANGED serverVars

-----------------------------------------------------------------------------
(* The server.                                                              *)

\* What the hub writes for these subscriptions reaches the stream that is its own.
Written(ids) ==
  pipe' = IF pipe.hub = hub THEN [pipe EXCEPT !.over = @ \cup ids] ELSE pipe

\* A mistake: an ended turn is forgotten once its watchers have heard.
SettlesForGood(s) ==
  /\ answer[s] = "running" /\ answer' = [answer EXCEPT ![s] = "unknown"]
  /\ Written({id \in watching : id[1] = s})
  /\ watching' = {id \in watching : id[1] # s}
  /\ UNCHANGED <<tabVars, wanted, worker, patch, hub, held, died, slept, faults>>

\* The turn ends: every watcher is told, once; the answer is kept.
Settles(s) ==
  /\ answer[s] = "running" /\ answer' = [answer EXCEPT ![s] = "ended"]
  /\ Written({id \in watching : id[1] = s})
  /\ watching' = {id \in watching : id[1] # s}
  /\ UNCHANGED <<tabVars, wanted, worker, patch, hub, held, died, slept, faults>>

\* change: the hub is looked up, and the change queued behind the hub's others.
PatchComes ==
  /\ patch.place = "sent"
  /\ patch' = [patch EXCEPT !.place = IF patch.hub = hub THEN "queued" ELSE "hub unknown"]
  /\ UNCHANGED <<tabVars, wanted, worker, pipe, slept, faults>> /\ UNCHANGED serverVars

PatchApplies ==
  LET fine == {id \in patch.add : patch.hub = hub /\ answer[id[1]] # "unknown"}
      kept == IF patch.hub = hub THEN held \ patch.remove ELSE held
      new == fine \ kept
  IN  /\ patch.place = "queued"
      /\ patch' = [patch EXCEPT !.place = "answered", !.added = fine,
                                !.refused = patch.add \ fine]
      /\ held' = kept \cup new
      /\ watching' = (watching \cap kept) \cup {id \in new : answer[id[1]] = "running"}
      /\ Written({id \in new : answer[id[1]] = "ended"})
      /\ UNCHANGED <<tabVars, wanted, worker, answer, hub, died, slept, faults>>

\* A mistake: what waited for turns of the closed hub is not detached.
HubClosesAttached ==
  /\ hub # NoHub /\ (worker.stream = "up" => pipe.hub # hub)
  /\ hub' = NoHub /\ held' = {}
  /\ UNCHANGED <<tabVars, wanted, worker, pipe, patch, answer, watching, died, slept, faults>>

\* The stream's end is noticed: the hub is closed and everything detached.
HubCloses ==
  /\ hub # NoHub /\ (worker.stream = "up" => pipe.hub # hub)
  /\ hub' = NoHub /\ held' = {} /\ watching' = {}
  /\ UNCHANGED <<tabVars, wanted, worker, pipe, patch, answer, died, slept, faults>>

-----------------------------------------------------------------------------
(* Faults.                                                                  *)

StreamBreaks ==
  /\ Fault /\ worker.stream = "up"
  /\ worker' = [worker EXCEPT !.stream = "broken"] /\ pipe' = DryPipe
  /\ UNCHANGED <<tabVars, wanted, patch, slept>> /\ UNCHANGED serverVars

PatchIsLost ==
  /\ Fault /\ patch.place \in {"sent", "answered", "hub unknown"}
  /\ patch' = [patch EXCEPT !.place = "lost"]
  /\ UNCHANGED <<tabVars, wanted, worker, pipe, slept>> /\ UNCHANGED serverVars

\* The server stops, without or with its wait for the running turns, and starts again.
ServerRestarts ==
  /\ Fault
  /\ answer' = [s \in Sends |-> IF answer[s] = "none" THEN "none" ELSE "unknown"]
  /\ died' = died \cup {s \in Sends : tab[s] \in {"accepted", "waiting", "retrying"}}
  /\ hub' = NoHub /\ held' = {} /\ watching' = {}
  /\ worker' = IF worker.stream = "up" THEN [worker EXCEPT !.stream = "broken"] ELSE worker
  /\ pipe' = DryPipe
  /\ patch' = IF patch.place = "none" THEN NoPatch ELSE [patch EXCEPT !.place = "lost"]
  /\ UNCHANGED <<tabVars, wanted, slept>>

-----------------------------------------------------------------------------
TabStep(s) ==
  \/ Accepted(s) \/ Subscribes(s) \/ SubscribesAgain(s) \/ StopsWaiting(s)
  \/ Naps(s) \/ SpeaksAgain(s)

WorkerStep ==
  \/ HubOpens \/ GreetingArrives \/ Syncs \/ AnswerArrives \/ RefusalArrives
  \/ LossIsSeen \/ RetryFires \/ ReopenFires
  \/ \E stream \in {"connecting", "timer"} : BreakIsSeen(stream)
  \/ \E id \in pipe.over : OverArrives(id)

ServerStep ==
  \/ PatchComes \/ PatchApplies \/ HubCloses
  \/ \E s \in Sends : Settles(s)

HubNext ==
  \/ \E s \in Sends : TabStep(s)
  \/ WorkerStep \/ ServerStep
  \/ StreamBreaks \/ PatchIsLost \/ ServerRestarts

HubSpec == HubInit /\ [][HubNext]_hubVars

\* The tab, the worker and the server go on, the turn ends (its own limits see to
\* that) and a tab that sleeps wakes; no fault, no Stop and no new send has to come.
HubFairness ==
  /\ WF_hubVars(WorkerStep)
  /\ WF_hubVars(PatchComes \/ PatchApplies)
  /\ \A s \in Sends :
       /\ WF_hubVars(Subscribes(s) \/ SubscribesAgain(s) \/ SpeaksAgain(s))
       /\ WF_hubVars(Settles(s))

-----------------------------------------------------------------------------
(* Properties.                                                              *)

HubTypeOK ==
  /\ tab \in [Sends -> {"idle", "accepted", "waiting", "retrying"} \cup Done]
  /\ asks \in [Sends -> 1 .. MaxResubscribes + 1]
  /\ wanted \in [Sends -> {"none", "pending", "open"}]
  /\ worker \in [ stream : {"none", "connecting", "up", "broken", "timer"}, hub : Nat,
                  known : SUBSET Ids, retry : BOOLEAN ]
  /\ pipe \in [hub : Nat, greets : BOOLEAN, over : SUBSET Ids]
  /\ patch \in [ place : {"none", "sent", "queued", "answered", "hub unknown", "lost"},
                 hub : Nat, add : SUBSET Ids, remove : SUBSET Ids, added : SUBSET Ids,
                 refused : SUBSET Ids ]
  /\ answer \in [Sends -> {"none", "running", "ended", "unknown"}]
  /\ hub \in Nat /\ held \subseteq Ids /\ watching \subseteq held
  /\ (hub = NoHub => held = {})
  /\ died \subseteq Sends /\ slept \subseteq Sends /\ faults \in 0 .. MaxFaults

\* Its turn has ended and its stream holds, and yet the answer is not on its way,
\* the worker will not ask for it (it counts the subscription among those the hub
\* holds) and is not having it removed.
Missed(s) ==
  /\ wanted[s] # "none" /\ answer[s] = "ended" /\ worker.stream = "up"
  /\ IdOf(s) \notin pipe.over /\ IdOf(s) \in worker.known
  /\ ~(patch.place # "none" /\ IdOf(s) \in patch.remove)

\* No tab that stays awake misses its answer, however its stream breaks, changes
\* are lost and applied twice, and other tabs come and go.
NoAnswerMissed == \A s \in Sends \ slept : ~Missed(s)

\* Nor does one that slept: a hub that dropped a silent tab "takes it back on the
\* next message without a handshake" (protocol.ts).  Not so, and no run checks it: a
\* tab that is dropped and speaks again while a change is on its way is still known
\* when the two sets are compared, and then removed (README, section 5).
SleepersAreTakenBack == \A s \in slept : ~Missed(s)

\* A send fails only when its turn is gone: the server started again before its
\* tab had heard; or when it was refused past the limit.
FailsOnlyWhenLost ==
  \A s \in Sends : tab[s] = "failed" => s \in died \/ asks[s] > MaxResubscribes

\* Every wait ends, but for an answer missed: again and again each send does not
\* wait, and one that has waited and does not any more is done.
WaitsEnd ==
  \A s \in Sends : []<>(tab[s] \in {"idle"} \cup Done \/ Missed(s))
=============================================================================
