----------------------------- MODULE SteerTurns -----------------------------
(***************************************************************************)
(* The steer inbox at work: the two doors a steer comes in by (the route of *)
(* messages/steer and deliverBySteer of dm/dmTools.ts), the runs of the     *)
(* requests of routes/api/messages/send-routed that hand it over or settle  *)
(* it, and Stop.  An action is what one handler does between two awaits.    *)
(* Who gets the chat's lock, and the messages that wait for it, are         *)
(* SessionTurns' business; here a request takes a free lock.                *)
(*                                                                          *)
(* A request's place (pc):                                                  *)
(*   idle        not begun                                                  *)
(*   setup       setting up a run, its stream not registered                *)
(*   streaming   its reply's stream is registered                           *)
(*   between     a run returned; what follows it is being decided           *)
(*   promoting   saving what was left as the user's next message            *)
(*   holding     saving it as words that wait for the reply's card          *)
(*   stranding   saving it past the bound on promotions, to go unanswered   *)
(*   leaving     the finally, up to the cleaning of the inbox               *)
(*   degrading   the finally: missed DMs are being stamped                  *)
(*   telling     the finally: missed messages are being reported            *)
(*   done                                                                   *)
(***************************************************************************)
EXTENDS SteerInbox

CONSTANTS
  Requests,          \* the requests of the chat
  Steerable,         \* the requests whose runs can be steered
  MaxRuns,           \* bounds the runs of one request in this instance
  MaxSteps,          \* bounds the model's steps in one run in this instance
  MaxPromotions,     \* MAX_STEER_PROMOTIONS
  MayStop,           \* the user may press Stop
  MayThrow,          \* the loop that reads the reply's stream may throw
  LockMayLapse,      \* a request may outlast the bounds of the chat's lock
  CleanupIsShort     \* a clean-up ends before another request's stream opens

ASSUME TurnsAssumption ==
  /\ Steerable \subseteq Requests
  /\ NoReply \notin Requests
  /\ {MaxRuns, MaxSteps} \subseteq Nat \ {0}
  /\ MaxPromotions \in Nat
  /\ {MayStop, MayThrow, LockMayLapse, CleanupIsShort} \subseteq BOOLEAN
  /\ Replies = Requests \X (1 .. MaxRuns)

VARIABLES
  box,      \* the chat's inbox
  stream,   \* the reply whose stream is registered
  lock,     \* the request that holds the chat, or none of them
  ended,    \* runEnded of the lock: a stream was cleared under it
  pc,       \* each request's place
  run,      \* the number of each request's last run
  result,   \* how each request's last run ended
  chances,  \* the promotions each request has made
  hand,     \* the steers each request has taken out of the inbox
  keep,     \* the reply each request's clean-up spares
  aborted,  \* the requests whose stream is aborted
  signalled,\* the requests whose turnStopSignal is aborted
  model,    \* each run on the SDK's side: steps made, one under way, finished
  loop,     \* the loop that writes it: steps finished, and inside one or not
  mark,     \* where the loop stood when a steer's marker was written
  stamp     \* what a DM's record says of its delivery

flow == <<pc, run, result, chances, hand, keep>>
run_ == <<model, loop, mark>>
halt == <<aborted, signalled>>
vars == <<box, stream, lock, ended, flow, halt, run_, stamp>>

None == NoReply   \* no request
Reply(r) == <<r, run[r]>>
Places == { "idle", "setup", "streaming", "between", "promoting", "holding",
            "stranding", "leaving", "degrading", "telling", "done" }
Runs == [made : 0 .. MaxSteps, under : BOOLEAN, over : BOOLEAN]
Positions == [done : 0 .. MaxSteps, inside : BOOLEAN]
Begun == [made |-> 0, under |-> TRUE, over |-> FALSE]
Nowhere == [done |-> 0, inside |-> FALSE]

Init ==
  /\ box = EmptyInbox
  /\ stream = NoReply /\ lock = None /\ ended = FALSE
  /\ pc = [r \in Requests |-> "idle"]
  /\ run = [r \in Requests |-> 0]
  /\ result = [r \in Requests |-> "none"]
  /\ chances = [r \in Requests |-> 0]
  /\ hand = [r \in Requests |-> {}]
  /\ keep = [r \in Requests |-> NoReply]
  /\ aborted = {} /\ signalled = {}
  /\ model = [r \in Requests |-> Begun]
  /\ loop = [r \in Requests |-> Nowhere]
  /\ mark = [s \in Steers |-> Nowhere]
  /\ stamp = [s \in Dms |-> "none"]

Goto(r, place) == pc' = [pc EXCEPT ![r] = place]

-----------------------------------------------------------------------------
(* The two doors.                                                           *)

\* The check and the enqueue of the route are one synchronous block: the tab's
\* reply must be the live one, and a queued message is refused while sends
\* wait in the chat's line (which may be so whenever a reply runs).
UserSteers(s, m) ==
  /\ s \in Steers \ Dms
  /\ box.at[s] = "idle"
  /\ LET live == stream = m /\ lock # None /\ m[1] \in Steerable
     IN  \/ live /\ HasRoom(box, s, m) /\ box' = EnqueueSteer(box, s, m)
         \/ /\ ~live \/ ~HasRoom(box, s, m) \/ s \in Held
            /\ box' = Move(box, {s}, "refused")
  /\ UNCHANGED <<stream, lock, ended, flow, halt, run_, stamp>>

\* deliverBySteer stamps the DM before it looks, an await before its check.
DmStamps(s) ==
  /\ s \in Dms
  /\ box.at[s] = "idle"
  /\ lock # None
  /\ box' = Move(box, {s}, "asking")
  /\ stamp' = [stamp EXCEPT ![s] = "steer"]
  /\ UNCHANGED <<stream, lock, ended, flow, halt, run_>>

DmEnters(s) ==
  /\ box.at[s] = "asking"
  /\ LET live == stream # NoReply /\ stream[1] \in Steerable
     IN  box' = IF live /\ HasRoom(box, s, stream) THEN EnqueueSteer(box, s, stream)
                                                   ELSE Move(box, {s}, "missed")
  /\ UNCHANGED <<stream, lock, ended, flow, halt, run_, stamp>>

DmStampedBack(s) ==
  /\ box.at[s] = "missed"
  /\ box' = Move(box, {s}, "waits")
  /\ stamp' = [stamp EXCEPT ![s] = "wait"]
  /\ UNCHANGED <<stream, lock, ended, flow, halt, run_>>

-----------------------------------------------------------------------------
(* A run.                                                                   *)

TurnBegins(r) ==
  /\ pc[r] = "idle" /\ lock = None
  /\ lock' = r /\ ended' = FALSE
  /\ Goto(r, "setup")
  /\ run' = [run EXCEPT ![r] = 1]
  /\ UNCHANGED <<box, stream, result, chances, hand, keep, halt, run_, stamp>>

OthersCleanUp(r) == \E q \in Requests \ {r} : pc[q] \in {"degrading", "telling"}

\* registerStreamAbort and registerSteerRun.
StreamOpens(r) ==
  /\ pc[r] = "setup"
  /\ ~(CleanupIsShort /\ OthersCleanUp(r))
  /\ stream' = Reply(r)
  /\ Goto(r, "streaming")
  /\ UNCHANGED <<box, lock, ended, run, result, chances, hand, keep,
                 halt, run_, stamp>>

\* A run that fails or is stopped before its stream opens: it returns a failed
\* response, or throws past everything but the finally.
SetupEnds(r) ==
  /\ pc[r] = "setup"
  /\ \/ /\ Goto(r, "between")
        /\ result' = [result EXCEPT ![r] = IF r \in signalled THEN "stopped" ELSE "failed"]
     \/ Goto(r, "leaving") /\ UNCHANGED result
  /\ UNCHANGED <<box, stream, lock, ended, run, chances, hand, keep,
                 halt, run_, stamp>>

\* The model ends a step.  After a tool call another step follows, and the hook
\* between the two (prepareStep) takes what waits.
ModelSteps(r) ==
  /\ pc[r] = "streaming" /\ model[r].under
  /\ LET k == model[r].made + 1
     IN  \/ /\ k < MaxSteps
            /\ model' = [model EXCEPT ![r].made = k]
            /\ box' = TakeForDelivery(box, Reply(r), k)
         \/ /\ model' = [model EXCEPT ![r].made = k, ![r].under = FALSE]
            /\ box' = box
  /\ UNCHANGED <<stream, lock, ended, flow, halt, loop, mark, stamp>>

\* drainSteersIntoTranscript
Drain(r, k) ==
  LET S == Ready(box, Reply(r), k)
  IN  /\ box' = Move(box, S, "written")
      /\ mark' = [s \in Steers |-> IF s \in S THEN loop[r] ELSE mark[s]]

\* The SDK's onFinish drains everything, whatever the loop has yet to write: it
\* may run several chunks ahead of it.
ModelFinishes(r) ==
  /\ pc[r] = "streaming" /\ ~model[r].under /\ ~model[r].over
  /\ model' = [model EXCEPT ![r].over = TRUE]
  /\ Drain(r, MaxSteps)
  /\ UNCHANGED <<stream, lock, ended, flow, halt, loop, stamp>>

\* One round of the loop: the drain first, then a chunk, which is part of the
\* next step or its finish.
LoopWrites(r) ==
  /\ pc[r] = "streaming"
  /\ loop[r].done < model[r].made \/ model[r].under
  /\ Drain(r, loop[r].done)
  /\ \/ loop' = [loop EXCEPT ![r].inside = TRUE]
     \/ /\ loop[r].done < model[r].made
        /\ loop' = [loop EXCEPT ![r] = [done |-> @.done + 1, inside |-> FALSE]]
  /\ UNCHANGED <<stream, lock, ended, flow, halt, model, stamp>>

\* clearStreamAbort and clearSteerRun, by the reply's own id; the lock that the
\* chat has now learns that a run ended.  The run's own state goes with it.
CloseStream(r) ==
  /\ model' = [model EXCEPT ![r] = Begun]
  /\ loop' = [loop EXCEPT ![r] = Nowhere]
  /\ aborted' = aborted \ {r}
  /\ stream' = IF stream = Reply(r) THEN NoReply ELSE stream
  /\ ended' = (ended \/ (stream = Reply(r) /\ lock # None))

\* An abort that the run's code can see: its stream's, or its request's.
Halted(r) == r \in signalled \cup aborted

\* The loop is through, at the reply's end, at a card, at a Stop or at an error
\* it met as a chunk: what is left of the delivered steers is written.
StreamEnds(r, how) ==
  /\ pc[r] = "streaming"
  /\ \/ how \in {"over", "card"} /\ model[r].over /\ loop[r].done = model[r].made
     \/ how \in {"failed", "exhausted"}
     \/ how = "stopped" /\ Halted(r)
  /\ Drain(r, MaxSteps)
  /\ CloseStream(r)
  /\ result' = [result EXCEPT ![r] = how]
  /\ Goto(r, "between")
  /\ UNCHANGED <<lock, run, chances, hand, keep, signalled, stamp>>

\* The loop throws, past the drain behind it: an error, or the abort (499).
StreamThrows(r) ==
  /\ MayThrow
  /\ pc[r] = "streaming"
  /\ CloseStream(r)
  /\ \E how \in {"failed", "stopped"} :
       /\ how = "stopped" => Halted(r)
       /\ result' = [result EXCEPT ![r] = how]
  /\ Goto(r, "between")
  /\ UNCHANGED <<box, lock, run, chances, hand, keep, signalled, mark, stamp>>

-----------------------------------------------------------------------------
(* What follows a run.                                                      *)

\* The next run of the same request, under a message id of its own.
NextRun(r) ==
  /\ run' = [run EXCEPT ![r] = @ + 1]
  /\ Goto(r, "setup")

\* A run that ran out of room goes on under a new id.
Continues(r) ==
  /\ pc[r] = "between" /\ result[r] = "exhausted"
  /\ run[r] < MaxRuns
  /\ ~(CleanupIsShort /\ OthersCleanUp(r))
  /\ box' = Refile(box, Reply(r), <<r, run[r] + 1>>)
  /\ NextRun(r)
  /\ UNCHANGED <<stream, lock, ended, result, chances, hand, keep, halt, run_, stamp>>

\* A mistake: one promotion too many.
PastBound(r) == chances[r] > MaxPromotions

AtBound(r) == chances[r] >= MaxPromotions

\* The promotion loop.  A stopped reply promotes nothing; at the bound on
\* promotions what is left is saved all the same, stopped or not.
TakesWhatIsLeft(r) ==
  /\ pc[r] = "between"
  /\ LET left == Undelivered(box, Reply(r))
     IN  IF left = {} \/ (result[r] = "stopped" /\ ~AtBound(r))
         THEN Goto(r, "leaving") /\ UNCHANGED <<box, chances, hand>>
         ELSE /\ box' = Move(box, left, "taken")
              /\ hand' = [hand EXCEPT ![r] = left]
              /\ IF result[r] = "card" THEN Goto(r, "holding") /\ UNCHANGED chances
                 ELSE IF AtBound(r) THEN Goto(r, "stranding") /\ UNCHANGED chances
                 ELSE Goto(r, "promoting") /\ chances' = [chances EXCEPT ![r] = @ + 1]
  /\ UNCHANGED <<stream, lock, ended, run, result, keep, halt, run_, stamp>>

Settle(r, outcome) ==
  /\ box' = Move(box, hand[r], outcome)
  /\ hand' = [hand EXCEPT ![r] = {}]

\* The message is saved and the next turn runs, or it is not and every tab is
\* told that no answer follows (by the failure itself, or by the catch).
PromotionEnds(r) ==
  /\ pc[r] = "promoting"
  /\ \/ /\ run[r] < MaxRuns
        /\ Settle(r, "promoted")
        /\ NextRun(r)
     \/ /\ Settle(r, "unanswered")
        /\ Goto(r, "leaving")
        /\ UNCHANGED run
  /\ UNCHANGED <<stream, lock, ended, result, chances, keep, halt, run_, stamp>>

SavesWithoutAnswer(r) ==
  /\ \/ pc[r] = "holding" /\ (Settle(r, "held") \/ Settle(r, "unanswered"))
     \/ pc[r] = "stranding" /\ Settle(r, "unanswered")
  /\ Goto(r, "leaving")
  /\ UNCHANGED <<stream, lock, ended, run, result, chances, keep, halt,
                 run_, stamp>>

-----------------------------------------------------------------------------
(* The end of the request.                                                  *)

\* clearSteerInbox and releaseSessionTurn, from the inbox b.
ClearAndRelease(r, b, spared) ==
  /\ box' = Clear(b, spared)
  /\ lock' = IF lock = r THEN None ELSE lock
  /\ Goto(r, "done")

\* The user's missed steers are taken; with any, reporting them is awaited.
TellOrClear(r, b, spared) ==
  LET missed == MissedUsers(b, spared)
  IN  IF missed = {}
      THEN /\ ClearAndRelease(r, b, spared)
           /\ hand' = [hand EXCEPT ![r] = {}]
      ELSE /\ box' = Move(b, missed, "taken")
           /\ hand' = [hand EXCEPT ![r] = missed]
           /\ Goto(r, "telling")
           /\ UNCHANGED lock

\* The reply that is live now is spared by all that follows.  Missed DMs are
\* taken first; with any, stamping them is awaited.
CleansUp(r) ==
  /\ pc[r] = "leaving"
  /\ keep' = [keep EXCEPT ![r] = stream]
  /\ LET missed == MissedDms(box, stream)
     IN  IF missed = {} THEN TellOrClear(r, box, stream)
         ELSE /\ box' = Move(box, missed, "taken")
              /\ hand' = [hand EXCEPT ![r] = missed]
              /\ Goto(r, "degrading")
              /\ UNCHANGED lock
  /\ UNCHANGED <<stream, ended, run, result, chances, halt, run_, stamp>>

\* degradeMissedDmSteers is through.
DmsDegraded(r) ==
  /\ pc[r] = "degrading"
  /\ stamp' = [s \in Dms |-> IF s \in hand[r] THEN "wait" ELSE stamp[s]]
  /\ TellOrClear(r, Move(box, hand[r], "waits"), keep[r])
  /\ UNCHANGED <<stream, ended, run, result, chances, keep, halt, run_>>

\* publishUnansweredSteers is through.
MissedTold(r) ==
  /\ pc[r] = "telling"
  /\ ClearAndRelease(r, Move(box, hand[r], "unanswered"), keep[r])
  /\ hand' = [hand EXCEPT ![r] = {}]
  /\ UNCHANGED <<stream, ended, run, result, chances, keep, halt, run_, stamp>>

-----------------------------------------------------------------------------
\* The interrupt route: a live stream is aborted, a first setup is stopped,
\* and a lock whose run has ended is cleared from under its request.
Stop ==
  /\ MayStop
  /\ \/ /\ stream # NoReply
        /\ aborted' = aborted \cup {stream[1]}
        /\ UNCHANGED <<lock, signalled>>
     \/ /\ stream = NoReply /\ lock # None
        /\ IF ended THEN lock' = None /\ UNCHANGED signalled
                    ELSE signalled' = signalled \cup {lock} /\ UNCHANGED lock
        /\ UNCHANGED aborted
  /\ UNCHANGED <<box, stream, ended, flow, run_, stamp>>

\* pruneStaleSessionTurns, run by whoever looks at the lock: it goes from a request
\* with no stream that was stopped or has been quiet too long, and from one
\* whose aborted stream outlives the grace, with that stream.  The rule of six
\* hours, which drops a stream that nobody aborted, is left out.
LockLapses ==
  /\ LockMayLapse
  /\ lock # None
  /\ stream # NoReply => stream[1] \in aborted
  /\ lock' = None /\ stream' = NoReply
  /\ UNCHANGED <<box, ended, flow, halt, run_, stamp>>

Endings == {"over", "card", "failed", "exhausted", "stopped"}

RunStep(r) ==
  \/ StreamOpens(r) \/ SetupEnds(r)
  \/ ModelSteps(r) \/ ModelFinishes(r) \/ LoopWrites(r)
  \/ \E how \in Endings : StreamEnds(r, how)
  \/ StreamThrows(r)

AfterRun(r) ==
  \/ Continues(r) \/ TakesWhatIsLeft(r) \/ PromotionEnds(r) \/ SavesWithoutAnswer(r)
  \/ CleansUp(r) \/ DmsDegraded(r) \/ MissedTold(r)

DoorStep(s) == DmStamps(s) \/ DmEnters(s) \/ DmStampedBack(s)

Next ==
  \/ \E r \in Requests : TurnBegins(r) \/ RunStep(r) \/ AfterRun(r)
  \/ \E s \in Steers, m \in Replies : UserSteers(s, m)
  \/ \E s \in Dms : DoorStep(s)
  \/ Stop \/ LockLapses

Spec == Init /\ [][Next]_vars

-----------------------------------------------------------------------------
(* Fairness: a request that runs goes on; a reply's stream ends, which is   *)
(* the provider's promise and not the code's; a DM's sender goes on.        *)

Proceeds(r) ==
  \/ StreamOpens(r) \/ SetupEnds(r) \/ AfterRun(r)
  \/ \E how \in Endings : StreamEnds(r, how)

FairSpec ==
  /\ Spec
  /\ \A r \in Requests : WF_vars(Proceeds(r))
  /\ \A s \in Dms : WF_vars(DmEnters(s) \/ DmStampedBack(s))

-----------------------------------------------------------------------------
(* Properties.                                                              *)

\* The variables' types; above all, never more promotions than their bound.
TypeOK ==
  /\ box \in Inboxes
  /\ stream \in Replies \cup {NoReply} /\ lock \in Requests \cup {None}
  /\ ended \in BOOLEAN /\ aborted \subseteq Requests /\ signalled \subseteq Requests
  /\ pc \in [Requests -> Places]
  /\ run \in [Requests -> 0 .. MaxRuns]
  /\ result \in [Requests -> Endings \cup {"none"}]
  /\ chances \in [Requests -> 0 .. MaxPromotions]
  /\ hand \in [Requests -> SUBSET Steers]
  /\ keep \in [Requests -> Replies \cup {NoReply}]
  /\ model \in [Requests -> Runs]
  /\ loop \in [Requests -> Positions] /\ mark \in [Steers -> Positions]
  /\ stamp \in [Dms -> {"none", "steer", "wait"}]

\* Nothing the server accepted is deleted with nobody told.
NoSteerDropped == At(box, "dropped") = {}

\* What is deleted with nobody told is at most what the model had read, never a
\* message that still waits, whichever request cleans up, whichever reply is
\* live and whatever threw.
OnlyReadSteersDropped == \A s \in At(box, "dropped") : box.step[s] > 0

\* A user's steer that waits is filed under the last run of a request that has
\* yet to settle what is left (a continuation takes its reply's steers along),
\* and what the model has read is filed under a reply that is still written.
FiledWithItsReply ==
  \A s \in Steers, r \in Requests :
    box.filed[s] \in {r} \X (1 .. MaxRuns) =>
      /\ box.at[s] = "pending" /\ s \notin Dms =>
           /\ box.filed[s] = Reply(r)
           /\ pc[r] \notin {"idle", "telling", "done"}
      /\ box.at[s] = "delivered" => box.filed[s] = Reply(r) /\ pc[r] = "streaming"

\* The user is never locked out by more than the cap, nor a reply flooded by
\* agents, also after a continuation took its reply's steers along.
WithinCap ==
  \A m \in Replies :
    /\ Cardinality(PendingFor(box, m)) <= SteerCap
    /\ Cardinality(PendingFor(box, m) \cap Dms) <= 1

\* The marker of a steer the model read after k steps stands after everything
\* of step k and before anything of the next step ("the marker can never land
\* inside the step the model read it after", drainSteersIntoTranscript).
MarkAtItsBoundary ==
  \A s \in At(box, "written"), r \in Requests :
    box.filed[s] = Reply(r) /\ pc[r] = "streaming" =>
      mark[s] = [done |-> box.step[s], inside |-> FALSE]

\* What the code keeps of it: no marker stands after anything of the next step,
\* and none before the end of its own while the loop alone writes them; only the
\* SDK's finish, running ahead of the loop, puts one earlier.
MarkIsNeverLate ==
  \A s \in At(box, "written"), r \in Requests :
    box.filed[s] = Reply(r) /\ pc[r] = "streaming" =>
      \/ mark[s] = [done |-> box.step[s], inside |-> FALSE]
      \/ mark[s].done < box.step[s] /\ model[r].over

\* A DM's record says that it landed inside a reply exactly while it may still
\* land there or once it has, never after the reply it missed.
DmStampHonest ==
  \A s \in Dms :
    stamp[s] = "steer" <=>
      box.at[s] \in {"asking", "missed", "pending", "delivered", "taken", "written"}

\* The clean-up of one request leaves the mail of the reply that is live now.
ClearSparesLiveTurn ==
  [][\A r \in Requests, s \in Steers :
       /\ CleansUp(r) \/ DmsDegraded(r) \/ MissedTold(r)
       /\ box.filed[s] = stream
       => box'.at[s] = box.at[s]]_vars

\* A steer's place as SteerPromise sees it.
Fate(spot) ==
  CASE spot \in {"idle", "asking", "missed"} -> "out"
    [] spot \in {"pending", "taken"} -> "waiting"
    [] spot = "delivered" -> "read"
    [] OTHER -> spot

Promise == INSTANCE SteerPromise WITH
  Messages <- Steers, AgentDms <- Dms, fate <- [s \in Steers |-> Fate(box.at[s])]

\* Every message the server accepted is read and shown, or settled another way
\* that somebody is told of, once (the header of steerInboxRegistry.ts).
KeepsPromise == Promise!Spec

\* Every steer that was sent is settled in the end.
EverySteerSettles ==
  \A s \in Steers :
    box.at[s] # "idle" ~>
      box.at[s] \in {"refused", "written", "promoted", "held", "unanswered", "waits"}
=============================================================================
