---------------------------- MODULE SessionTurns ----------------------------
(***************************************************************************)
(* The turns of one chat: the requests of routes/api/messages/send-routed,  *)
(* the Stop of routes/api/messages/interrupt, a chat delete                 *)
(* (sessionDeleteTurnStop.ts) and the timers, over the registry of          *)
(* TurnRegistry.  An action is what one handler does between two awaits.    *)
(*                                                                          *)
(* A request's place in its handler (pc):                                   *)
(*   idle       not arrived, or still in the reads before its decision      *)
(*   clickWait  a click in waitForCardReplyToFinish                         *)
(*   waiting    a send in the line, or handed the chat and not resumed      *)
(*   overflow   the same for a send over the cap, already answered          *)
(*   owner      registered; the reads under its lock                        *)
(*   recording  a click that read its card and found it unanswered          *)
(*   setup      setting up a run, before the setup checkpoint               *)
(*   checked    past the checkpoint, before registerStreamAbort             *)
(*   streaming  its reply's stream is registered                            *)
(*   ended      the stream is cleared; after-reply work                     *)
(*   sweeping   the finally: its run-end sandbox sweep is under way         *)
(*   leaving    the finally: past the sweep, before its release             *)
(*   keeping, kept         keepQueuedSendAtEnd, before and after the move   *)
(*   keepingOwn, keptOwn   the same, run by a turn whose agent is gone ...  *)
(*   ownReleased           ... and whose keeper has let the chat go         *)
(*   done                                                                   *)
(***************************************************************************)
EXTENDS TurnRegistry

CONSTANTS
  Approvals,     \* the approvals a reply may ask for
  CardOf,        \* the message whose card holds an approval
  ApprovalOf,    \* the approval a click answers
  ExpiryClicks,  \* the clicks that are the page's own Deny of an expired card
  Continues,     \* the requests whose run may be followed by another
  Elapsing,      \* the bounds that may pass in this instance
  MayDelete,     \* the user may delete the chat
  MayStop,       \* the user may press Stop
  MayDrain       \* a restore may drain, or the server shut down

ASSUME CardsAssumption ==
  /\ CardOf \in [Approvals -> Msgs]
  /\ ApprovalOf \in [Clicks -> Approvals]
  /\ \A c \in Clicks : CardOf[ApprovalOf[c]] = MsgOf[c]
  /\ ExpiryClicks \subseteq Clicks
  /\ Continues \subseteq Requests
  /\ Elapsing \subseteq Clocks \cup {"handover"}
  /\ {MayDelete, MayStop, MayDrain} \subseteq BOOLEAN

VARIABLES
  reg,        \* the chat's registry
  pc,         \* each request's place in its handler
  del,        \* the chat delete: none, stopping, sweeping, gone
  raised,     \* the approvals shown on a card
  recorded,   \* the clicks whose answer is recorded on the card's message
  ending      \* how each request's last run ended (streamResult, requestStopped)

vars == <<reg, pc, del, raised, recorded, ending>>

Places == { "idle", "clickWait", "waiting", "overflow", "owner", "recording",
            "setup", "checked", "streaming", "ended", "sweeping", "leaving",
            "keeping", "kept", "keepingOwn", "keptOwn", "ownReleased", "done" }

Init ==
  /\ reg = EmptyRegistry
  /\ pc = [r \in Requests |-> "idle"]
  /\ del = "none"
  /\ raised = {}
  /\ recorded = {}
  /\ ending = [r \in Requests |-> "none"]

Answered == {ApprovalOf[c] : c \in recorded}

Goto(r, place) == pc' = [pc EXCEPT ![r] = place]

CardUnchanged == UNCHANGED <<raised, recorded, ending>>

-----------------------------------------------------------------------------
(* Taking the chat.                                                         *)

\* The lock check and the registration, one synchronous block.
TakeOrRefuse(g, r) ==
  IF Refuses(g, r)
  THEN reg' = g /\ Goto(r, "done")
  ELSE reg' = Register(g, r) /\ Goto(r, "owner")

\* A page's send that names its saved message: free, queue or overflow
\* (decideQueuedSend), decided in the step that registers it or queues it.
SendArrives(s) ==
  /\ pc[s] = "idle"
  /\ LET g == Prune(reg)
         free == g.lock = None /\ g.line = <<>>
         overflow == Cardinality(Runnable(g)) >= Cap
     IN  IF reg.deleting THEN reg' = reg /\ Goto(s, "done")
         ELSE IF free THEN TakeOrRefuse(g, s)
         ELSE \/ /\ reg' = Enqueue(g, s, overflow)
                 /\ Goto(s, IF overflow THEN "overflow" ELSE "waiting")
              \/ /\ overflow /\ MayDrain   \* no hold on the restore gate
                 /\ reg' = g /\ Goto(s, "done")
  /\ UNCHANGED del
  /\ CardUnchanged

\* The same send, thrown out of its handler right after it joined the line.
SendThrowsInLine(s) ==
  /\ pc[s] = "idle"
  /\ LET g == Prune(reg)
     IN  /\ ~reg.deleting
         /\ ~(g.lock = None /\ g.line = <<>>)
         /\ Cardinality(Runnable(g)) < Cap
         /\ reg' = Abandon(Enqueue(g, s, FALSE), s)
  /\ Goto(s, "done")
  /\ UNCHANGED del
  /\ CardUnchanged

\* A turn that may not wait in the line.
WakeArrives(w) ==
  /\ pc[w] = "idle"
  /\ IF reg.deleting THEN reg' = reg /\ Goto(w, "done")
                     ELSE TakeOrRefuse(Prune(reg), w)
  /\ UNCHANGED del
  /\ CardUnchanged

\* A click on a shown card waits for the reply that raised it, holding the
\* line back meanwhile, or goes straight to the lock.
ClickArrives(c) ==
  /\ pc[c] = "idle"
  /\ ApprovalOf[c] \in raised
  /\ LET g == Prune(reg)
     IN  IF ClickWaitsForLock(g, c)
         THEN /\ reg' = [g EXCEPT !.clickHolds = @ \cup {c}]
              /\ Goto(c, "clickWait")
         ELSE TakeOrRefuse(g, c)
  /\ UNCHANGED del
  /\ CardUnchanged

\* The wait ends: the lock is no longer one to wait for, or the wait's bound
\* passed (the lock is then still held, and the click is refused).
ClickWaitEnds(c) ==
  /\ pc[c] = "clickWait"
  /\ LET g == Prune(reg)
     IN  TakeOrRefuse([g EXCEPT !.clickHolds = @ \ {c}], c)
  /\ UNCHANGED del
  /\ CardUnchanged

\* Send now on a send that waits in the line.
SendNow(s) ==
  /\ s \in Runnable(reg)
  /\ reg' = SendWaitingNow(reg)
  /\ UNCHANGED <<pc, del>>
  /\ CardUnchanged

\* A send resumes from its wait with what the line settled it with.  After its
\* claim of a "run", the check and the registration are the same step: the
\* check prunes, and a send that lost the lock to it is refused.
SendResumes(s) ==
  /\ pc[s] = "waiting"
  /\ reg.outcome[s] # "none"
  /\ CASE reg.outcome[s] = "cancelled" ->
            reg' = reg /\ Goto(s, "done")
       [] reg.outcome[s] = "keep" ->
            IF CanClaim(reg, s)
            THEN reg' = Claim(reg, s) /\ Goto(s, "keeping")
            ELSE reg' = Abandon(reg, s) /\ Goto(s, "done")
       [] reg.outcome[s] = "run" ->
            IF CanClaim(reg, s)
            THEN LET g == Prune(Claim(reg, s))
                 IN  reg' = g /\ Goto(s, IF g.lock = s THEN "owner" ELSE "done")
            ELSE LET g == Abandon(reg, s)
                 IN  IF g.deleting THEN reg' = g /\ Goto(s, "done")
                     ELSE TakeOrRefuse(Prune(g), s)
  /\ UNCHANGED del
  /\ CardUnchanged

\* The detached end of a send over the cap.
OverflowResumes(s) ==
  /\ pc[s] = "overflow"
  /\ reg.outcome[s] # "none"
  /\ IF reg.outcome[s] = "keep" /\ CanClaim(reg, s)
     THEN reg' = Claim(reg, s) /\ Goto(s, "keeping")
     ELSE reg' = Abandon(reg, s) /\ Goto(s, "done")
  /\ UNCHANGED del
  /\ CardUnchanged

-----------------------------------------------------------------------------
(* Running the turn.                                                        *)

Reveal(g, s) == [g EXCEPT !.hidden = @ \ {s}]

\* The chat and the agent are read again under the lock; a send of the line
\* moves its message to the end of the chat and shows it.
TurnBegins(r) ==
  /\ pc[r] = "owner"
  /\ r \notin Clicks
  /\ del # "gone"
  /\ reg' = Reveal(reg, r)
  /\ Goto(r, "setup")
  /\ UNCHANGED del
  /\ CardUnchanged

\* The agent is gone: a send of the line is kept at the end of the chat.
AgentGone(s) ==
  /\ pc[s] = "owner"
  /\ reg.outcome[s] = "run"
  /\ Goto(s, "keepingOwn")
  /\ UNCHANGED <<reg, del>>
  /\ CardUnchanged

\* answerApprovalsOnce reads the card, and refuses a click on an answered one
\* (which Leaves) ...
ClickReadsCard(c) ==
  /\ pc[c] = "owner"
  /\ del # "gone"
  /\ ApprovalOf[c] \notin Answered
  /\ Goto(c, "recording")
  /\ UNCHANGED <<reg, del>>
  /\ CardUnchanged

\* ... and writes its answer, before the resumed run starts.
ClickRecordsAnswer(c) ==
  /\ pc[c] = "recording"
  /\ recorded' = recorded \cup {c}
  /\ Goto(c, "setup")
  /\ UNCHANGED <<reg, del, raised, ending>>

\* The setup checkpoint: a turn stopped by now ends before its provider call.
Checkpoint(r) ==
  /\ pc[r] = "setup"
  /\ IF r \in reg.signalled
     THEN ending' = [ending EXCEPT ![r] = "stopped"] /\ Goto(r, "ended")
     ELSE ending' = [ending EXCEPT ![r] = "none"] /\ Goto(r, "checked")
  /\ UNCHANGED <<reg, del, raised, recorded>>

RunStarts(r) ==
  /\ pc[r] = "checked"
  /\ reg' = OpenStream(reg, MsgOf[r])
  /\ Goto(r, "streaming")
  /\ UNCHANGED del
  /\ CardUnchanged

\* The run asks for an approval: its card is on the screen before it ends.
RaisesCard(r) ==
  /\ pc[r] = "streaming"
  /\ \E a \in Approvals \ raised :
       CardOf[a] = MsgOf[r] /\ raised' = raised \cup {a}
  /\ ending' = [ending EXCEPT ![r] = "card"]
  /\ UNCHANGED <<reg, pc, del, recorded>>

\* The run ends: at its card, over, or cut short by a Stop or a delete.
RunEnds(r) ==
  /\ pc[r] = "streaming"
  /\ reg' = CloseStream(reg, MsgOf[r])
  /\ \/ ending' = [ending EXCEPT ![r] = IF @ = "card" THEN @ ELSE "over"]
     \/ /\ reg.aborted \/ r \in reg.signalled
        /\ ending' = [ending EXCEPT ![r] = "stopped"]
  /\ Goto(r, "ended")
  /\ UNCHANGED <<del, raised, recorded>>

\* A context continuation, a promoted steer or the answer to held words starts
\* another run under the same registration; only the last asks for the lock.
RunsAgain(r) ==
  /\ r \in Continues
  /\ pc[r] = "ended"
  /\ ending[r] = "over"
  /\ Goto(r, "setup")
  /\ UNCHANGED <<reg, del>>
  /\ CardUnchanged

\* Into the finally, after the reply or by an early return or a throw (which
\* forgets the card): the run-end sweep is skipped when another turn holds the
\* chat now.
Leaves(r) ==
  /\ pc[r] \in {"owner", "recording", "setup", "checked", "ended", "ownReleased"}
  /\ Goto(r, IF HeldByAnother(reg, r) THEN "leaving" ELSE "sweeping")
  /\ \/ UNCHANGED ending
     \/ ending' = [ending EXCEPT ![r] = "none"]
  /\ UNCHANGED <<reg, del, raised, recorded>>

EndOf(r) ==
  [ card   |-> IF ending[r] = "card" THEN MsgOf[r] ELSE None,
    answer |-> IF r \notin recorded THEN "none"
               ELSE IF r \in ExpiryClicks THEN "expiry" ELSE "user" ]

Releases(r) ==
  /\ pc[r] \in {"sweeping", "leaving"}
  /\ reg' = Release(reg, r, EndOf(r))
  /\ Goto(r, "done")
  /\ UNCHANGED del
  /\ CardUnchanged

\* keepQueuedSendAtEnd: the message is moved to the end and shown ...
KeeperMoves(s) ==
  /\ pc[s] \in {"keeping", "keepingOwn"}
  /\ reg' = Reveal(reg, s)
  /\ Goto(s, IF pc[s] = "keeping" THEN "kept" ELSE "keptOwn")
  /\ UNCHANGED del
  /\ CardUnchanged

\* ... and its finally shows it if the move failed, and lets the chat go.
KeeperReleases(s) ==
  /\ pc[s] \in {"keeping", "kept", "keepingOwn", "keptOwn"}
  /\ reg' = Release(Reveal(reg, s), s, NoEnd)
  /\ Goto(s, IF pc[s] \in {"keeping", "kept"} THEN "done" ELSE "ownReleased")
  /\ UNCHANGED del
  /\ CardUnchanged

-----------------------------------------------------------------------------
(* Stop.                                                                    *)

\* The interrupt route; all says that this Stop stops the waiting sends too.
Stop(m, all) ==
  /\ MayStop
  /\ LET g == Prune(IF all THEN KeepLine(reg) ELSE reg)
     IN  reg' = IF g.stream # None THEN AbortStream(g)
                ELSE IF g.lock # None /\ ~g.runEnded THEN StopTurn(g)
                ELSE ClearTurn(g, m)
  /\ UNCHANGED <<pc, del>>
  /\ CardUnchanged

\* Shutdown keeps every line; a restore that drains keeps the lines that hold
\* for a card with no turn running.
Shutdown ==
  /\ MayDrain
  /\ reg.line # <<>>
  /\ reg' = KeepLine(reg)
  /\ UNCHANGED <<pc, del>>
  /\ CardUnchanged

RestoreDrains ==
  /\ MayDrain
  /\ reg.hold # None /\ reg.lock = None
  /\ reg' = KeepLine(reg)
  /\ UNCHANGED <<pc, del>>
  /\ CardUnchanged

-----------------------------------------------------------------------------
(* Deleting the chat.                                                       *)

DeleteBegins ==
  /\ MayDelete
  /\ del = "none"
  /\ LET g == BeginDelete(reg)
     IN  IF g.running = {}
         THEN reg' = g /\ del' = "sweeping"
         ELSE reg' = StopWhatRuns(g) /\ del' = "stopping"
  /\ UNCHANGED pc
  /\ CardUnchanged

\* A mistake: a free chat is taken for one where nothing runs.
DeletePollsLock ==
  /\ del = "stopping"
  /\ IF reg.lock = None
     THEN del' = "sweeping" /\ UNCHANGED reg
     ELSE reg' = StopWhatRuns(reg) /\ UNCHANGED del
  /\ UNCHANGED pc
  /\ CardUnchanged

DeletePolls ==
  /\ del = "stopping"
  /\ IF reg.running = {}
     THEN del' = "sweeping" /\ UNCHANGED reg
     ELSE reg' = StopWhatRuns(reg) /\ UNCHANGED del
  /\ UNCHANGED pc
  /\ CardUnchanged

\* Refused at the bound, or a Claude run or the sweep failed: nothing deleted.
DeleteRefused ==
  /\ \/ del = "stopping" /\ reg.running # {}
     \/ del = "sweeping"
  /\ reg' = EndDelete(reg)
  /\ del' = "none"
  /\ UNCHANGED pc
  /\ CardUnchanged

DeleteSwept ==
  /\ del = "sweeping"
  /\ reg' = EndDelete(CancelLine(reg))
  /\ del' = "gone"
  /\ UNCHANGED pc
  /\ CardUnchanged

-----------------------------------------------------------------------------
(* Timers.                                                                  *)

BackstopFires ==
  /\ reg.backstop
  /\ reg' = BackstopTick(reg)
  /\ UNCHANGED <<pc, del>>
  /\ CardUnchanged

\* Any request of any chat prunes every chat's stale entries.
PrunedElsewhere ==
  /\ reg' = Prune(reg)
  /\ UNCHANGED <<pc, del>>
  /\ CardUnchanged

\* A send the line handed the chat resumes a microtask later: no time passes
\* before that.  Otherwise a clock runs once what it measures has begun.
Runs(clock) ==
  CASE clock \in {"turnStale", "quiet"} -> reg.lock # None
    [] clock = "stop" -> reg.stoppedAt
    [] clock = "streamStale" -> reg.stream # None
    [] clock = "abort" -> reg.aborted
    [] clock = "hold" -> reg.hold # None

BoundPasses(clock) ==
  /\ reg.handed = {}
  /\ clock \in Elapsing \ reg.overdue
  /\ Runs(clock)
  /\ reg' = [reg EXCEPT !.overdue = @ \cup {clock}]
  /\ UNCHANGED <<pc, del>>
  /\ CardUnchanged

HandoverWaitPasses(r) ==
  /\ reg.handed = {}
  /\ "handover" \in Elapsing
  /\ r \in (reg.running \cap reg.dropped) \ reg.waitedOut
  /\ reg' = [reg EXCEPT !.waitedOut = @ \cup {r}]
  /\ UNCHANGED <<pc, del>>
  /\ CardUnchanged

-----------------------------------------------------------------------------
(* The system.                                                              *)

RequestStep(r) ==
  \/ TurnBegins(r) \/ Checkpoint(r) \/ RunStarts(r) \/ RaisesCard(r)
  \/ RunEnds(r) \/ RunsAgain(r) \/ Leaves(r) \/ Releases(r)

SendStep(s) ==
  \/ SendArrives(s) \/ SendThrowsInLine(s) \/ SendNow(s) \/ SendResumes(s)
  \/ OverflowResumes(s) \/ AgentGone(s) \/ KeeperMoves(s) \/ KeeperReleases(s)

ClickStep(c) ==
  \/ ClickArrives(c) \/ ClickWaitEnds(c)
  \/ ClickReadsCard(c) \/ ClickRecordsAnswer(c)

DeleteStep == DeleteBegins \/ DeletePolls \/ DeleteRefused \/ DeleteSwept

TimeStep ==
  \/ BackstopFires \/ PrunedElsewhere
  \/ \E clock \in Clocks : BoundPasses(clock)
  \/ \E r \in Requests : HandoverWaitPasses(r)

Next ==
  \/ \E r \in Requests : RequestStep(r)
  \/ \E s \in Sends : SendStep(s)
  \/ \E c \in Clicks : ClickStep(c)
  \/ \E w \in Wakes : WakeArrives(w)
  \/ \E m \in Msgs \cup {None}, all \in BOOLEAN : Stop(m, all)
  \/ Shutdown \/ RestoreDrains
  \/ DeleteStep
  \/ TimeStep

Spec == Init /\ [][Next]_vars

-----------------------------------------------------------------------------
(* Properties.                                                              *)

\* Every variable has the type the source gives it.
TypeOK ==
  /\ reg \in RegistryType
  /\ pc \in [Requests -> Places]
  /\ del \in {"none", "stopping", "sweeping", "gone"}
  /\ raised \subseteq Approvals
  /\ recorded \subseteq Clicks
  /\ ending \in [Requests -> {"none", "card", "over", "stopped"}]

\* The places where a request may still write into the chat.
Writing == { "owner", "recording", "setup", "checked", "streaming", "ended",
             "keeping", "kept", "keepingOwn", "keptOwn" }

\* The places past the reads under the lock.
Running == {"recording", "setup", "checked", "streaming", "ended"}

\* The chat is swept only while no request of it can still write, whatever
\* became of its lock (a Stop's grace, the orphan rules), and nothing runs in
\* it once it is gone (BL-194, sessionDeleteTurnStop.ts).
DeleteSweepsAlone ==
  \A r \in Requests :
    /\ del = "sweeping" => pc[r] \notin Writing
    /\ del = "gone" => pc[r] \notin Running

\* The one registration that does outlive its request is a send's that lost the
\* chat it had just claimed: every other request that answers, returns early,
\* throws, loses its lock to a bound or to a Stop, or is let go by a delete
\* leaves none, so only that send can keep a delete from ever going through.
OnlyLostClaimsLeak ==
  \A r \in reg.running :
    \/ pc[r] \in Writing \cup {"sweeping", "leaving"}
    \/ r \in reg.handed
    \/ r \in reg.dropped /\ r \in Sends /\ reg.outcome[r] = "run" /\ pc[r] = "done"

\* A hidden message is owed: its send still waits in the line, or holds the
\* chat and has yet to move it.  No path hides a message for good.
HiddenIsOwed == reg.hidden \subseteq Waiting(reg) \cup {reg.lock}

\* A line that waits always has the timer that comes back for it.
LineHasBackstop == reg.line # <<>> => reg.backstop

\* A card hold only ever holds back a send that will still run: kept words are
\* never hidden behind a card for fifteen minutes (BL-903).
HoldHasRunnable == reg.hold # None => Runnable(reg) # {}

\* The line and the requests that wait in it agree: a send is in the line once,
\* exactly while its request waits for an outcome nobody has given it.
LineAgrees ==
  /\ IsInjective(reg.line)
  /\ \A s \in Sends : s \in Waiting(reg) <=>
       pc[s] \in {"waiting", "overflow"} /\ reg.outcome[s] = "none"

\* Two requests write into the chat at once only after a grace rule took the
\* lock from one of them.
OneTurnAtATime ==
  \A r, s \in Requests :
    r # s /\ pc[r] \in Writing /\ pc[s] \in Writing =>
      r \in reg.dropped \/ s \in reg.dropped

\* The line hands the chat on only when no other request of it runs, unless the
\* line has waited out the 30 seconds since that request's lock went.
HandedAlone ==
  [][\A s \in reg'.handed \ reg.handed : reg'.running \ {s} \subseteq reg'.waitedOut]_vars

\* A send a Stop, a shutdown, the cap or a card's bound kept is never answered.
KeptNeverRuns ==
  \A s \in reg.kept : pc[s] \notin Running \cup {"owner"}

\* An approval is answered once (approvalAnswerRecord.ts).
AnsweredOnce ==
  \A c, d \in recorded : ApprovalOf[c] = ApprovalOf[d] => c = d

\* A Stop that finds a turn setting up a run, before anything of it is
\* registered to abort, stops the turn itself.
StopReachesSetup ==
  [][\A m \in Msgs \cup {None}, all \in BOOLEAN :
       /\ Stop(m, all)
       /\ reg.stream = None /\ reg.overdue = {}
       /\ \E r \in Requests : reg.lock = r /\ pc[r] \in {"setup", "checked"}
       => reg.lock \in reg'.signalled]_vars

\* While a send can still run behind a card, only the user lets the line go:
\* a click on that card, a new message (its handler may throw once it has joined
\* the line) or Send now.  Otherwise what waited has been kept, cancelled or has
\* left, or the chat's next reply stopped at a card.
OnlyUserEndsHold ==
  [][ /\ reg.hold # None
      /\ reg'.hold # reg.hold
      /\ (Runnable(reg) \cap Waiting(reg')) \ reg'.kept # {}
      => \/ \E c \in Clicks : reg'.lock = c /\ MsgOf[c] = reg.hold
         \/ \E s \in Sends :
              \/ SendNow(s) \/ SendThrowsInLine(s)
              \/ SendArrives(s) /\ s \notin reg'.kept
         \/ reg'.hold # None ]_vars

\* A reply that lets go of the chat at a card leaves the line holding for it,
\* also when its lock went first and nobody has had the chat since (BL-906).
CardHoldsLine ==
  [][\A r \in Requests :
       /\ Releases(r) /\ EndOf(r).card # None /\ EndOf(r).answer # "expiry"
       /\ reg.lock = r \/ (reg.lock = None /\ reg.lastTurn = r)
       /\ Runnable(reg) # {}
       => reg'.hold = MsgOf[r] /\ reg'.lock = None]_vars

\* What a send has been told, as SendLine has it.
Fate ==
  [s \in Sends |-> IF s \in Waiting(reg) THEN "waiting"
                   ELSE IF reg.outcome[s] = "none" THEN "new" ELSE reg.outcome[s]]

Line == INSTANCE SendLine WITH line <- reg.line, kept <- reg.kept, fate <- Fate

\* Whatever the locks, holds, clocks and deletes of the chat do, its line is a
\* first-come line that tells each send one thing, and never runs a kept one.
LineServes == Line!Spec

-----------------------------------------------------------------------------
(* Liveness.                                                                *)

\* What the code's timers and microtasks do whatever the requests do: a run
\* may hang for ever, and no user need act.
Fairness ==
  /\ WF_vars(BackstopFires)
  /\ \A clock \in Clocks : WF_vars(BoundPasses(clock))
  /\ \A r \in Requests : WF_vars(HandoverWaitPasses(r))
  /\ \A s \in Sends : WF_vars(SendResumes(s)) /\ WF_vars(OverflowResumes(s))
  /\ \A c \in Clicks : WF_vars(ClickWaitEnds(c))
  /\ WF_vars(DeletePolls) /\ WF_vars(DeleteRefused \/ DeleteSwept)

FairSpec == Spec /\ Fairness

\* Every waiting send gets its outcome and goes on, even when every run before
\* it hangs, unless the user deletes the chat over and over.
WaitingSendGoesOn ==
  <>[]~reg.deleting =>
    \A s \in Sends : pc[s] = "waiting" ~> pc[s] # "waiting"
=============================================================================
