----------------------------- MODULE RunsProofs -----------------------------
(***************************************************************************)
(* The runs beside a chat's turns.  Nothing of a Subagent works while a     *)
(* delete removes it, nor after that; a Claude plan run has one keeper      *)
(* until it ends, and is gone when its chat is swept; and what a Compact    *)
(* writes may stand, beside Stops, turns and the delete of the chat.  And   *)
(* of the end of a turn no tab that stays awake fails to hear, over the     *)
(* live hub.  For any number of runs, calls, clicks, cards, Compacts,       *)
(* Stops, deletes, tabs, retries and faults.                                *)
(***************************************************************************)
EXTENDS SubagentRuns, PlanRuns, Compacts, LiveHub, FiniteSetTheorems, TLAPS

-----------------------------------------------------------------------------
(* The delegated runs of a Subagent.                                        *)

\* The verdicts that leave a run's registration standing.
Unsettled == {"pending", "unverified", "retrying"}

\* A call that may still start work is registered, and so is one whose work is not
\* known to be over; what works is not known to be over.
WorkIsRegistered ==
  \A r \in Runs :
    /\ run[r] \in {"reading", "starting", "calling"} => r \in registered
    /\ verdict[r] \in Unsettled => r \in registered
    /\ lane[r] = "working" => verdict[r] \in Unsettled

\* One delete at a time waits or removes, under the mark.
OneDelete ==
  \A d \in Deletes : delete[d] \in {"waiting", "removing"} =>
    /\ marked
    /\ \A e \in Deletes : delete[e] \in {"waiting", "removing"} => e = d

\* What is removed has nobody registered; what is gone has none that goes on.
GoneIsQuiet ==
  /\ \A d \in Deletes : delete[d] = "removing" => registered = {}
  /\ ~stored => \A r \in Runs : run[r] \notin {"starting", "calling"} /\ lane[r] # "working"

DeleteInv ==
  /\ SubagentTypeOK /\ WorkIsRegistered /\ OneDelete /\ GoneIsQuiet

LEMMA DeleteInvInit == SubagentInit => DeleteInv
<1> SUFFICES ASSUME SubagentInit PROVE DeleteInv
  OBVIOUS
<1>1. SubagentTypeOK
  BY DEF SubagentInit, SubagentTypeOK
<1>2. WorkIsRegistered
  BY DEF SubagentInit, WorkIsRegistered, Unsettled
<1>3. OneDelete /\ GoneIsQuiet
  BY DEF SubagentInit, OneDelete, GoneIsQuiet
<1> QED BY <1>1, <1>2, <1>3 DEF DeleteInv

\* A run's own step takes it off the registry only when it is settled, and registers
\* it only when nobody deletes the Subagent.
LEMMA RunStepKeeps ==
  ASSUME DeleteInv, NEW r \in Runs,
         \/ Begins(r) \/ Reads(r) \/ LaneStarts(r) \/ Answers(r) \/ LaneEnds(r)
         \/ WorkSettles(r) \/ BoundPasses(r)
  PROVE  DeleteInv'
<1> USE DEF DeleteInv, Unsettled
<1>1. CASE Begins(r)
  BY <1>1 DEF Begins, SubagentTypeOK, WorkIsRegistered, OneDelete, GoneIsQuiet
<1>2. CASE Reads(r)
  BY <1>2 DEF Reads, FinishIfSettled, IsSettled, SubagentTypeOK, WorkIsRegistered, OneDelete,
              GoneIsQuiet
<1>3. CASE LaneStarts(r)
  BY <1>3 DEF LaneStarts, SubagentTypeOK, WorkIsRegistered, OneDelete, GoneIsQuiet
<1>4. CASE Answers(r)
  BY <1>4 DEF Answers, FinishIfSettled, IsSettled, SubagentTypeOK, WorkIsRegistered, OneDelete,
              GoneIsQuiet
<1>5. CASE LaneEnds(r)
  BY <1>5 DEF LaneEnds, SubagentTypeOK, WorkIsRegistered, OneDelete, GoneIsQuiet
<1>6. CASE WorkSettles(r)
  BY <1>6 DEF WorkSettles, Judged, FinishIfSettled, IsSettled, SubagentTypeOK, WorkIsRegistered,
              OneDelete, GoneIsQuiet
<1>7. CASE BoundPasses(r)
  BY <1>7 DEF BoundPasses, Judged, FinishIfSettled, IsSettled, SubagentTypeOK, WorkIsRegistered,
              OneDelete, GoneIsQuiet
<1> QED BY <1>1, <1>2, <1>3, <1>4, <1>5, <1>6, <1>7

\* A delete goes past its wait only with nobody registered, and takes the mark off
\* only when it is the one that set it.
LEMMA DeleteStepKeeps ==
  ASSUME DeleteInv, NEW d \in Deletes,
         DeleteMarks(d) \/ DeleteRefuses(d) \/ DeleteProceeds(d) \/ DeleteEnds(d)
  PROVE  DeleteInv'
<1> USE DEF DeleteInv, Unsettled
<1>1. CASE DeleteMarks(d)
  <2> USE <1>1 DEF DeleteMarks
  <2>1. CASE marked
    BY <2>1 DEF SubagentTypeOK, WorkIsRegistered, OneDelete, GoneIsQuiet
  <2>2. CASE ~marked
    <3>1. \A r \in Runs : verdict'[r] = verdict[r]
                          \/ (verdict[r] = "unverified" /\ verdict'[r] = "retrying")
      BY <2>2 DEF SubagentTypeOK
    <3>2. SubagentTypeOK'
      BY <2>2, <3>1 DEF SubagentTypeOK
    <3>3. WorkIsRegistered'
      BY <3>1 DEF WorkIsRegistered
    <3>4. \A e \in Deletes : delete[e] \notin {"waiting", "removing"}
      BY <2>2 DEF OneDelete
    <3>5. OneDelete' /\ GoneIsQuiet'
      BY <2>2, <3>4 DEF SubagentTypeOK, OneDelete, GoneIsQuiet
    <3> QED BY <3>2, <3>3, <3>5
  <2> QED BY <2>1, <2>2
<1>2. CASE DeleteRefuses(d)
  BY ZenonT(60), <1>2 DEF DeleteRefuses, SubagentTypeOK, WorkIsRegistered, OneDelete, GoneIsQuiet
<1>3. CASE DeleteProceeds(d)
  BY <1>3 DEF DeleteProceeds, SubagentTypeOK, WorkIsRegistered, OneDelete, GoneIsQuiet
<1>4. CASE DeleteEnds(d)
  <2> USE <1>4 DEF DeleteEnds
  <2>1. \A e \in Deletes : delete'[e] \notin {"waiting", "removing"}
    BY DEF SubagentTypeOK, OneDelete
  <2>2. SubagentTypeOK' /\ WorkIsRegistered'
    BY DEF SubagentTypeOK, WorkIsRegistered
  <2>3. registered = {}
    BY DEF GoneIsQuiet
  <2>4. GoneIsQuiet'
    BY <2>1, <2>3 DEF GoneIsQuiet, WorkIsRegistered
  <2>5. OneDelete'
    BY <2>1 DEF OneDelete
  <2> QED BY <2>2, <2>4, <2>5
<1> QED BY <1>1, <1>2, <1>3, <1>4

LEMMA DeleteInvNext == DeleteInv /\ [SubagentNext]_subagentVars => DeleteInv'
<1> SUFFICES ASSUME DeleteInv, [SubagentNext]_subagentVars PROVE DeleteInv'
  OBVIOUS
<1>1. CASE SubagentNext
  BY <1>1, RunStepKeeps, DeleteStepKeeps DEF SubagentNext
<1>2. CASE UNCHANGED subagentVars
  BY <1>2 DEF subagentVars, DeleteInv, SubagentTypeOK, WorkIsRegistered, Unsettled, OneDelete,
              GoneIsQuiet
<1> QED BY <1>1, <1>2

\* The registry's agreement with the runs and the deletes holds in every behaviour
\* of subagentRunRegistry.ts.
THEOREM DeleteInvariant == SubagentSpec => []DeleteInv
BY DeleteInvInit, DeleteInvNext, PTL DEF SubagentSpec

\* However many calls and deletes meet, no lane works and none will start while a
\* delete removes what is the Subagent's, nor once it is gone
\* (stopSubagentRunsForDelete, beginSubagentRun).
THEOREM DeletedSubagentsRest == SubagentSpec => []NothingRunsOnDeleted
<1>1. DeleteInv => NothingRunsOnDeleted
  BY DEF DeleteInv, WorkIsRegistered, Unsettled, GoneIsQuiet, NothingRunsOnDeleted
<1> QED BY <1>1, DeleteInvariant, PTL

-----------------------------------------------------------------------------
(* The Claude plan runs of a chat.                                          *)

\* A run's start, its settlement and its cards go together: what is listed has not
\* settled, and what settled without a trace has neither a process nor a folder.
RunsInStep ==
  \A p \in Replies :
    /\ ask[p] \in {"idle", "setup"} => start[p] = "none"
    /\ start[p] \in {"none", "binding"} =>
         settled[p] = "no" /\ p \notin listed \cup waits /\ cards[p] = 0 /\ heldAt[p] = 0
    /\ p \in waits \/ heldAt[p] # 0 => cards[p] # 0
    /\ p \in listed => settled[p] = "no"
    /\ settled[p] = "no" /\ p \notin listed =>
         start[p] \in {"none", "binding", "over"} /\ proc[p] = "none" /\ p \notin folder
    /\ settled[p] # "no" => p \in ended /\ start[p] \in {"up", "over"}
    /\ settled[p] = "exited" => proc[p] # "alive" /\ p \notin folder
    /\ settled[p] = "unknown" => p \in unsettled \/ (proc[p] # "alive" /\ p \notin folder)

\* A click asks about a card that was raised; it goes on only with the run it
\* claimed, and only behind the answer it recorded itself.
ClicksInStep ==
  \A c \in Resumes :
    /\ ask[c] # "idle" => cards[RunOf(c)] # 0
    /\ c \in claims => ask[c] \in {"recording", "taking", "working", "after", "done"}
    /\ ask[c] \in {"taking", "working"} => c \in claims /\ CardOf[c] \in answered \ notRun

\* A click that has run p and has not let go of it.
Claims(c, p) ==
  c \in claims /\ RunOf(c) = p /\ ask[c] \in {"recording", "taking", "working"}

\* RunHasOneKeeper, taken apart: there is a keeper, and no two of them.
KeptByOne ==
  \A p \in listed \ ended :
    /\ ask[p] = "working" \/ heldAt[p] # 0 \/ \E c \in Resumes : Claims(c, p)
    /\ ~(ask[p] = "working" /\ heldAt[p] # 0)
    /\ \A c \in Resumes : Claims(c, p) =>
         /\ ask[p] # "working" /\ heldAt[p] = 0
         /\ \A d \in Resumes : Claims(d, p) => d = c

\* While an owner awaits the settlements no run joins those it ended, and it sweeps
\* only when all of them were seen to exit.
OwnersInStep ==
  \A o \in Sweepers :
    /\ closing[o] \in {"ending", "sweeping", "done"} => \A q \in Asks : ask[q] \in {"idle", "done"}
    /\ closing[o] = "ending" => listed \subseteq targets[o] \cap ended
    /\ closing[o] \in {"sweeping", "done"} => listed = {} /\ unsettled = {}

PlanInv == PlanTypeOK /\ RunsInStep /\ ClicksInStep /\ KeptByOne /\ OwnersInStep

\* The run a request is about is a reply's; a click's card has a number of its own.
LEMMA RunOfIsReply ==
  /\ \A q \in Asks : RunOf(q) \in Replies
  /\ \A r \in Replies : RunOf(r) = r /\ r \notin Resumes /\ r \in Asks
  /\ \A c \in Resumes :
       /\ RunOf(c) = CardOf[c][1] /\ CardOf[c] \in Replies \X (Nat \ {0}) /\ c \in Asks
       /\ c \notin Replies /\ CardOf[c][2] \in Nat /\ CardOf[c][2] # 0
BY CardsOfRuns, AsksDiffer DEF RunOf, Asks

LEMMA PlanInvInit == PlanInit => PlanInv
<1> SUFFICES ASSUME PlanInit PROVE PlanInv
  OBVIOUS
<1>1. PlanTypeOK
  BY CardsAreBounded DEF PlanInit, PlanTypeOK, Held
<1>2. RunsInStep
  BY RunOfIsReply DEF PlanInit, RunsInStep
<1>3. ClicksInStep
  BY RunOfIsReply DEF PlanInit, ClicksInStep
<1>4. KeptByOne
  BY DEF PlanInit, KeptByOne
<1>5. OwnersInStep
  BY DEF PlanInit, OwnersInStep
<1> QED BY <1>1, <1>2, <1>3, <1>4, <1>5 DEF PlanInv

\* A request that begins, and one that leaves with no run in hand.
LEMMA AskStepKeeps ==
  ASSUME PlanInv, NEW q \in Asks,
         (q \in Replies /\ (TurnBegins(q) \/ StreamStarts(q))) \/ RaisesCard(q) \/ LoopEnds(q)
           \/ LoopFails(q) \/ Leaves(q)
  PROVE  PlanInv'
<1> USE RunOfIsReply DEF PlanInv
<1>1. CASE q \in Replies /\ TurnBegins(q)
  <2> USE <1>1 DEF TurnBegins, In, Goes, EndHeld, End, Unheld, askVars, startVars, endVars,
                   ownerVars
  <2>1. PlanTypeOK'
    <3>1. ask' \in [Asks -> {"idle", "setup", "reading", "deciding", "recording", "taking",
                             "working", "after", "done"}]
      BY DEF PlanTypeOK
    <3>2. /\ ended' \subseteq Replies /\ heldAt' \in [Replies -> 0..MaxCards]
          /\ lapsed' \subseteq Held'
      BY CardsAreBounded DEF PlanTypeOK, Held
    <3> QED BY <3>1, <3>2 DEF PlanTypeOK
  <2>2. RunsInStep'
    BY DEF PlanTypeOK, RunsInStep, Held
  <2>3. ClicksInStep'
    BY DEF PlanTypeOK, ClicksInStep
  <2>4. KeptByOne'
    BY DEF PlanTypeOK, KeptByOne, Claims, Held
  <2>5. OwnersInStep'
    BY DEF PlanTypeOK, OwnersInStep, Admits, Held
  <2> QED BY <2>1, <2>2, <2>3, <2>4, <2>5
<1>2. CASE q \in Replies /\ StreamStarts(q)
  <2> USE <1>2 DEF StreamStarts, In, Goes, holdVars, endVars, ownerVars
  <2>1. PlanTypeOK'
    BY DEF PlanTypeOK, Held
  <2>2. RunsInStep'
    BY DEF PlanTypeOK, RunsInStep
  <2>3. ClicksInStep'
    BY DEF PlanTypeOK, ClicksInStep
  <2>4. KeptByOne'
    BY DEF PlanTypeOK, KeptByOne, Claims, RunsInStep
  <2>5. OwnersInStep'
    BY DEF PlanTypeOK, OwnersInStep
  <2> QED BY <2>1, <2>2, <2>3, <2>4, <2>5
<1>3. CASE RaisesCard(q)
  <2> USE <1>3 DEF RaisesCard, In, askVars, startVars, endVars, ownerVars
  <2>1. PlanTypeOK'
    BY CardsAreBounded DEF PlanTypeOK, Held
  <2>2. RunsInStep'
    BY CardsAreBounded DEF PlanTypeOK, RunsInStep
  <2>3. ClicksInStep'
    BY CardsAreBounded DEF PlanTypeOK, ClicksInStep
  <2>4. KeptByOne'
    BY DEF KeptByOne, Claims
  <2>5. OwnersInStep'
    BY DEF OwnersInStep
  <2> QED BY <2>1, <2>2, <2>3, <2>4, <2>5
<1>4. CASE LoopEnds(q)
  <2> USE <1>4 DEF LoopEnds, In, Goes, End, startVars, endVars, ownerVars
  <2>1. PlanTypeOK'
    BY CardsAreBounded DEF PlanTypeOK, Held, RunsInStep
  <2>2. RunsInStep'
    BY DEF PlanTypeOK, RunsInStep
  <2>3. ClicksInStep'
    BY DEF PlanTypeOK, ClicksInStep
  <2>4. KeptByOne'
    <3> DEFINE p == RunOf(q)
    <3>1. p \in listed' \ ended' => heldAt[p] = 0 /\ heldAt'[p] # 0
      BY CardsAreBounded DEF PlanTypeOK, KeptByOne, Claims, RunsInStep, ClicksInStep, Asks
    <3>2. p \in listed' \ ended' => ask'[p] # "working" /\ \A c \in Resumes : ~Claims(c, p)'
      BY DEF PlanTypeOK, KeptByOne, Claims, ClicksInStep, Asks
    <3>3. \A r \in Replies : r # p =>
            /\ ask'[r] = ask[r] /\ heldAt'[r] = heldAt[r]
            /\ r \in listed' \ ended' => r \in listed \ ended
            /\ \A c \in Resumes : Claims(c, r)' <=> Claims(c, r)
      BY DEF PlanTypeOK, Claims
    <3>4. listed' \subseteq Replies
      BY DEF PlanTypeOK
    <3> HIDE DEF p
    <3> QED BY <3>1, <3>2, <3>3, <3>4 DEF KeptByOne
  <2>5. OwnersInStep'
    BY DEF PlanTypeOK, OwnersInStep
  <2> QED BY <2>1, <2>2, <2>3, <2>4, <2>5
<1>5. CASE LoopFails(q)
  <2> USE <1>5 DEF LoopFails, In, Goes, End, startVars, holdVars, endVars, ownerVars
  <2>1. PlanTypeOK'
    BY DEF PlanTypeOK, Held
  <2>2. RunsInStep'
    BY DEF PlanTypeOK, RunsInStep
  <2>3. ClicksInStep'
    BY DEF PlanTypeOK, ClicksInStep
  <2>4. KeptByOne'
    BY DEF PlanTypeOK, KeptByOne, Claims, ClicksInStep
  <2>5. OwnersInStep'
    BY DEF PlanTypeOK, OwnersInStep
  <2> QED BY <2>1, <2>2, <2>3, <2>4, <2>5
<1>6. CASE Leaves(q)
  <2> USE <1>6 DEF Leaves, Goes, startVars, holdVars, endVars, ownerVars
  <2>1. PlanTypeOK'
    BY DEF PlanTypeOK, Held
  <2>2. RunsInStep'
    BY DEF PlanTypeOK, RunsInStep
  <2>3. ClicksInStep'
    BY DEF PlanTypeOK, ClicksInStep
  <2>4. KeptByOne'
    BY DEF PlanTypeOK, KeptByOne, Claims
  <2>5. OwnersInStep'
    BY DEF PlanTypeOK, OwnersInStep
  <2> QED BY <2>1, <2>2, <2>3, <2>4, <2>5
<1> QED BY <1>1, <1>2, <1>3, <1>4, <1>5, <1>6

\* A click: what it claims was held by nobody else, and is let go of only when it ends.
LEMMA ClickStepKeeps ==
  ASSUME PlanInv, NEW c \in Resumes,
         ClickBegins(c) \/ ClickReads(c) \/ ClickDecides(c) \/ ClickRecords(c)
           \/ StreamTakes(c) \/ ClickFails(c)
  PROVE  PlanInv'
<1> USE RunOfIsReply DEF PlanInv
<1>1. CASE ClickBegins(c)
  <2> USE <1>1 DEF ClickBegins, In, Goes, startVars, holdVars, endVars, ownerVars
  <2>1. PlanTypeOK'
    BY DEF PlanTypeOK, Held
  <2>2. RunsInStep'
    BY DEF PlanTypeOK, RunsInStep
  <2>3. ClicksInStep'
    BY DEF PlanTypeOK, ClicksInStep
  <2>4. KeptByOne'
    BY DEF PlanTypeOK, KeptByOne, Claims
  <2>5. OwnersInStep'
    BY DEF PlanTypeOK, OwnersInStep, Admits
  <2> QED BY <2>1, <2>2, <2>3, <2>4, <2>5
<1>2. CASE ClickReads(c)
  <2> USE <1>2 DEF ClickReads, In, Goes, startVars, holdVars, endVars, ownerVars
  <2>1. PlanTypeOK'
    BY DEF PlanTypeOK, Held
  <2>2. RunsInStep'
    BY DEF PlanTypeOK, RunsInStep
  <2>3. ClicksInStep'
    BY DEF PlanTypeOK, ClicksInStep
  <2>4. KeptByOne'
    BY DEF PlanTypeOK, KeptByOne, Claims
  <2>5. OwnersInStep'
    BY DEF PlanTypeOK, OwnersInStep
  <2> QED BY <2>1, <2>2, <2>3, <2>4, <2>5
<1>3. CASE ClickDecides(c)
  <2> USE <1>3 DEF ClickDecides, In, Goes, MayClaim, HoldTaken, EndHeld, End, Unheld, Held,
                   startVars, endVars, ownerVars
  <2>1. PlanTypeOK'
    <3>1. /\ ask' \in [Asks -> {"idle", "setup", "reading", "deciding", "recording", "taking",
                                "working", "after", "done"}]
          /\ claims' \subseteq Resumes
      BY DEF PlanTypeOK
    <3>2. /\ ended' \subseteq Replies /\ heldAt' \in [Replies -> 0..MaxCards]
          /\ lapsed' \subseteq Held'
      BY CardsAreBounded DEF PlanTypeOK, Held
    <3> QED BY <3>1, <3>2 DEF PlanTypeOK
  <2>2. RunsInStep'
    BY DEF PlanTypeOK, RunsInStep
  <2>3. ClicksInStep'
    BY DEF PlanTypeOK, ClicksInStep
  <2>4. KeptByOne'
    BY DEF PlanTypeOK, KeptByOne, Claims, ClicksInStep
  <2>5. OwnersInStep'
    BY DEF PlanTypeOK, OwnersInStep
  <2> QED BY <2>1, <2>2, <2>3, <2>4, <2>5
<1>4. CASE ClickRecords(c)
  <2> USE <1>4 DEF ClickRecords, GivesUp, In, Goes, End, startVars, holdVars, endVars, ownerVars
  <2>1. PlanTypeOK'
    BY DEF PlanTypeOK, Held
  <2>2. RunsInStep'
    BY DEF PlanTypeOK, RunsInStep
  <2>3. ClicksInStep'
    BY DEF PlanTypeOK, ClicksInStep
  <2>4. KeptByOne'
    BY DEF PlanTypeOK, KeptByOne, Claims, ClicksInStep
  <2>5. OwnersInStep'
    BY DEF PlanTypeOK, OwnersInStep
  <2> QED BY <2>1, <2>2, <2>3, <2>4, <2>5
<1>5. CASE StreamTakes(c)
  <2> USE <1>5 DEF StreamTakes, In, Goes, startVars, endVars, ownerVars
  <2>1. PlanTypeOK'
    BY DEF PlanTypeOK, Held
  <2>2. RunsInStep'
    BY DEF PlanTypeOK, RunsInStep
  <2>3. ClicksInStep'
    BY DEF PlanTypeOK, ClicksInStep
  <2>4. KeptByOne'
    BY DEF PlanTypeOK, KeptByOne, Claims, ClicksInStep
  <2>5. OwnersInStep'
    BY DEF PlanTypeOK, OwnersInStep
  <2> QED BY <2>1, <2>2, <2>3, <2>4, <2>5
<1>6. CASE ClickFails(c)
  <2> USE <1>6 DEF ClickFails, GivesUp, In, Goes, End, startVars, holdVars, endVars, ownerVars
  <2>1. PlanTypeOK'
    BY DEF PlanTypeOK, Held
  <2>2. RunsInStep'
    BY DEF PlanTypeOK, RunsInStep
  <2>3. ClicksInStep'
    BY DEF PlanTypeOK, ClicksInStep
  <2>4. KeptByOne'
    BY DEF PlanTypeOK, KeptByOne, Claims, ClicksInStep
  <2>5. OwnersInStep'
    BY DEF PlanTypeOK, OwnersInStep
  <2> QED BY <2>1, <2>2, <2>3, <2>4, <2>5
<1> QED BY <1>1, <1>2, <1>3, <1>4, <1>5, <1>6

\* A run's own step: it is listed by its start alone, and leaves the registry with its
\* settlement.
LEMMA PlanRunStepKeeps ==
  ASSUME PlanInv, NEW p \in Replies,
         Binds(p) \/ Checks(p) \/ FolderMade(p) \/ Spawns(p) \/ Opens(p) \/ StartUnwinds(p)
           \/ RunEnds(p) \/ ProcExits(p) \/ RunSettles(p) \/ SettlesUnknown(p) \/ ExitsLate(p)
           \/ ClockPasses(p) \/ DeadlineFires(p)
  PROVE  PlanInv'
<1> USE RunOfIsReply DEF PlanInv
<1>1. CASE Binds(p)
  <2> USE <1>1 DEF Binds, Asked, Closed, In, StartAt, askVars, holdVars, ownerVars
  <2>1. PlanTypeOK'
    BY DEF PlanTypeOK, Held
  <2>2. RunsInStep'
    BY DEF PlanTypeOK, RunsInStep
  <2>3. ClicksInStep'
    BY DEF PlanTypeOK, ClicksInStep
  <2>4. KeptByOne'
    BY DEF PlanTypeOK, KeptByOne, Claims, RunsInStep, ClicksInStep
  <2>5. OwnersInStep'
    BY DEF PlanTypeOK, OwnersInStep, Asks, Sweepers
  <2> QED BY <2>1, <2>2, <2>3, <2>4, <2>5
<1>2. CASE Checks(p)
  <2> USE <1>2 DEF Checks, StartAt, askVars, holdVars, endVars, ownerVars
  <2>1. PlanTypeOK'
    BY DEF PlanTypeOK, Held
  <2>2. RunsInStep'
    BY DEF PlanTypeOK, RunsInStep
  <2>3. ClicksInStep'
    BY DEF PlanTypeOK, ClicksInStep
  <2>4. KeptByOne'
    BY DEF PlanTypeOK, KeptByOne, Claims
  <2>5. OwnersInStep'
    BY DEF PlanTypeOK, OwnersInStep
  <2> QED BY <2>1, <2>2, <2>3, <2>4, <2>5
<1>3. CASE FolderMade(p)
  <2> USE <1>3 DEF FolderMade, askVars, holdVars, endVars, ownerVars
  <2>1. PlanTypeOK'
    BY DEF PlanTypeOK, Held
  <2>2. RunsInStep'
    BY DEF PlanTypeOK, RunsInStep
  <2>3. ClicksInStep'
    BY DEF PlanTypeOK, ClicksInStep
  <2>4. KeptByOne'
    BY DEF PlanTypeOK, KeptByOne, Claims
  <2>5. OwnersInStep'
    BY DEF PlanTypeOK, OwnersInStep
  <2> QED BY <2>1, <2>2, <2>3, <2>4, <2>5
<1>4. CASE Spawns(p)
  <2> USE <1>4 DEF Spawns, StartAt, askVars, holdVars, endVars, ownerVars
  <2>1. PlanTypeOK'
    BY DEF PlanTypeOK, Held
  <2>2. RunsInStep'
    BY DEF PlanTypeOK, RunsInStep
  <2>3. ClicksInStep'
    BY DEF PlanTypeOK, ClicksInStep
  <2>4. KeptByOne'
    BY DEF PlanTypeOK, KeptByOne, Claims
  <2>5. OwnersInStep'
    BY DEF PlanTypeOK, OwnersInStep
  <2> QED BY <2>1, <2>2, <2>3, <2>4, <2>5
<1>5. CASE Opens(p)
  <2> USE <1>5 DEF Opens, StartAt, askVars, holdVars, endVars, ownerVars
  <2>1. PlanTypeOK'
    BY DEF PlanTypeOK, Held
  <2>2. RunsInStep'
    BY DEF PlanTypeOK, RunsInStep
  <2>3. ClicksInStep'
    BY DEF PlanTypeOK, ClicksInStep
  <2>4. KeptByOne'
    BY DEF PlanTypeOK, KeptByOne, Claims
  <2>5. OwnersInStep'
    BY DEF PlanTypeOK, OwnersInStep
  <2> QED BY <2>1, <2>2, <2>3, <2>4, <2>5
<1>6. CASE StartUnwinds(p)
  <2> USE <1>6 DEF StartUnwinds, StartAt, askVars, holdVars, endVars, ownerVars
  <2>1. PlanTypeOK'
    BY DEF PlanTypeOK, Held
  <2>2. RunsInStep'
    BY DEF PlanTypeOK, RunsInStep
  <2>3. ClicksInStep'
    BY DEF PlanTypeOK, ClicksInStep
  <2>4. KeptByOne'
    BY DEF PlanTypeOK, KeptByOne, Claims
  <2>5. OwnersInStep'
    BY DEF PlanTypeOK, OwnersInStep
  <2> QED BY <2>1, <2>2, <2>3, <2>4, <2>5
<1>7. CASE RunEnds(p)
  <2> USE <1>7 DEF RunEnds, askVars, startVars, holdVars, endVars, ownerVars
  <2>1. PlanTypeOK'
    BY DEF PlanTypeOK, Held
  <2>2. RunsInStep'
    BY DEF PlanTypeOK, RunsInStep
  <2>3. ClicksInStep'
    BY DEF PlanTypeOK, ClicksInStep
  <2>4. KeptByOne'
    BY DEF PlanTypeOK, KeptByOne, Claims
  <2>5. OwnersInStep'
    BY DEF PlanTypeOK, OwnersInStep
  <2> QED BY <2>1, <2>2, <2>3, <2>4, <2>5
<1>8. CASE ProcExits(p)
  <2> USE <1>8 DEF ProcExits, askVars, holdVars, endVars, ownerVars
  <2>1. PlanTypeOK'
    BY DEF PlanTypeOK, Held
  <2>2. RunsInStep'
    BY DEF PlanTypeOK, RunsInStep
  <2>3. ClicksInStep'
    BY DEF PlanTypeOK, ClicksInStep
  <2>4. KeptByOne'
    BY DEF PlanTypeOK, KeptByOne, Claims
  <2>5. OwnersInStep'
    BY DEF PlanTypeOK, OwnersInStep
  <2> QED BY <2>1, <2>2, <2>3, <2>4, <2>5
<1>9. CASE RunSettles(p)
  <2> USE <1>9 DEF RunSettles, Settling, Unheld, askVars, ownerVars
  <2>1. PlanTypeOK'
    <3>1. /\ heldAt' \in [Replies -> 0..MaxCards] /\ lapsed' \subseteq Held'
      BY CardsAreBounded DEF PlanTypeOK, Held
    <3> QED BY <3>1 DEF PlanTypeOK
  <2>2. RunsInStep'
    BY DEF PlanTypeOK, RunsInStep
  <2>3. ClicksInStep'
    BY DEF PlanTypeOK, ClicksInStep
  <2>4. KeptByOne'
    BY DEF PlanTypeOK, KeptByOne, Claims
  <2>5. OwnersInStep'
    BY DEF PlanTypeOK, OwnersInStep
  <2> QED BY <2>1, <2>2, <2>3, <2>4, <2>5
<1>10. CASE SettlesUnknown(p)
  <2> USE <1>10 DEF SettlesUnknown, Settling, Unheld, askVars, startVars, ownerVars
  <2>1. PlanTypeOK'
    <3>1. /\ heldAt' \in [Replies -> 0..MaxCards] /\ lapsed' \subseteq Held'
      BY CardsAreBounded DEF PlanTypeOK, Held
    <3> QED BY <3>1 DEF PlanTypeOK
  <2>2. RunsInStep'
    BY DEF PlanTypeOK, RunsInStep
  <2>3. ClicksInStep'
    BY DEF PlanTypeOK, ClicksInStep
  <2>4. KeptByOne'
    BY DEF PlanTypeOK, KeptByOne, Claims
  <2>5. OwnersInStep'
    BY DEF PlanTypeOK, OwnersInStep
  <2> QED BY <2>1, <2>2, <2>3, <2>4, <2>5
<1>11. CASE ExitsLate(p)
  <2> USE <1>11 DEF ExitsLate, askVars, holdVars, ownerVars
  <2>1. PlanTypeOK'
    BY DEF PlanTypeOK, Held
  <2>2. RunsInStep'
    BY DEF PlanTypeOK, RunsInStep
  <2>3. ClicksInStep'
    BY DEF PlanTypeOK, ClicksInStep
  <2>4. KeptByOne'
    BY DEF PlanTypeOK, KeptByOne, Claims
  <2>5. OwnersInStep'
    BY DEF PlanTypeOK, OwnersInStep
  <2> QED BY <2>1, <2>2, <2>3, <2>4, <2>5
<1>12. CASE ClockPasses(p)
  <2> USE <1>12 DEF ClockPasses, askVars, startVars, endVars, ownerVars
  <2>1. PlanTypeOK'
    BY DEF PlanTypeOK, Held
  <2>2. RunsInStep'
    BY DEF PlanTypeOK, RunsInStep
  <2>3. ClicksInStep'
    BY DEF PlanTypeOK, ClicksInStep
  <2>4. KeptByOne'
    BY DEF PlanTypeOK, KeptByOne, Claims
  <2>5. OwnersInStep'
    BY DEF PlanTypeOK, OwnersInStep
  <2> QED BY <2>1, <2>2, <2>3, <2>4, <2>5
<1>13. CASE DeadlineFires(p)
  <2> USE <1>13 DEF DeadlineFires, Unheld, End, askVars, startVars, endVars, ownerVars
  <2>1. PlanTypeOK'
    <3>1. /\ heldAt' \in [Replies -> 0..MaxCards] /\ lapsed' \subseteq Held'
      BY CardsAreBounded DEF PlanTypeOK, Held
    <3> QED BY <3>1 DEF PlanTypeOK
  <2>2. RunsInStep'
    BY DEF PlanTypeOK, RunsInStep
  <2>3. ClicksInStep'
    BY DEF PlanTypeOK, ClicksInStep
  <2>4. KeptByOne'
    BY DEF PlanTypeOK, KeptByOne, Claims
  <2>5. OwnersInStep'
    BY DEF PlanTypeOK, OwnersInStep
  <2> QED BY <2>1, <2>2, <2>3, <2>4, <2>5
<1> QED BY <1>1, <1>2, <1>3, <1>4, <1>5, <1>6, <1>7, <1>8, <1>9, <1>10, <1>11, <1>12, <1>13

\* A delete or a restore: it passes its wait only with no request and no run left.
LEMMA OwnerStepKeeps ==
  ASSUME PlanInv, NEW o \in Sweepers,
         OwnerBegins(o) \/ OwnerEndsRuns(o) \/ OwnerGoesOn(o) \/ OwnerGivesUp(o) \/ OwnerDone(o)
  PROVE  PlanInv'
<1> USE RunOfIsReply DEF PlanInv
<1>1. CASE OwnerBegins(o)
  <2> USE <1>1 DEF OwnerBegins, OwnerAt, askVars, startVars, holdVars, endVars
  <2>1. PlanTypeOK'
    BY DEF PlanTypeOK, Held
  <2>2. RunsInStep'
    BY DEF PlanTypeOK, RunsInStep
  <2>3. ClicksInStep'
    BY DEF PlanTypeOK, ClicksInStep
  <2>4. KeptByOne'
    BY DEF PlanTypeOK, KeptByOne, Claims
  <2>5. OwnersInStep'
    BY DEF PlanTypeOK, OwnersInStep
  <2> QED BY <2>1, <2>2, <2>3, <2>4, <2>5
<1>2. CASE OwnerEndsRuns(o)
  <2> USE <1>2 DEF OwnerEndsRuns, OwnerAt, End, askVars, startVars, holdVars, endVars
  <2>1. PlanTypeOK'
    BY DEF PlanTypeOK, Held
  <2>2. RunsInStep'
    BY DEF PlanTypeOK, RunsInStep
  <2>3. ClicksInStep'
    BY DEF PlanTypeOK, ClicksInStep
  <2>4. KeptByOne'
    BY DEF PlanTypeOK, KeptByOne, Claims
  <2>5. OwnersInStep'
    BY DEF PlanTypeOK, OwnersInStep
  <2> QED BY <2>1, <2>2, <2>3, <2>4, <2>5
<1>3. CASE OwnerGoesOn(o)
  <2> USE <1>3 DEF OwnerGoesOn, OwnerAt, askVars, startVars, holdVars, endVars
  <2>1. PlanTypeOK'
    BY DEF PlanTypeOK, Held
  <2>2. RunsInStep'
    BY DEF PlanTypeOK, RunsInStep
  <2>3. ClicksInStep'
    BY DEF PlanTypeOK, ClicksInStep
  <2>4. KeptByOne'
    BY DEF PlanTypeOK, KeptByOne, Claims
  <2>5. OwnersInStep'
    BY DEF PlanTypeOK, OwnersInStep, RunsInStep
  <2> QED BY <2>1, <2>2, <2>3, <2>4, <2>5
<1>4. CASE OwnerGivesUp(o)
  <2> USE <1>4 DEF OwnerGivesUp, OwnerAt, askVars, startVars, holdVars, endVars
  <2>1. PlanTypeOK'
    BY DEF PlanTypeOK, Held
  <2>2. RunsInStep'
    BY DEF PlanTypeOK, RunsInStep
  <2>3. ClicksInStep'
    BY DEF PlanTypeOK, ClicksInStep
  <2>4. KeptByOne'
    BY DEF PlanTypeOK, KeptByOne, Claims
  <2>5. OwnersInStep'
    BY DEF PlanTypeOK, OwnersInStep
  <2> QED BY <2>1, <2>2, <2>3, <2>4, <2>5
<1>5. CASE OwnerDone(o)
  <2> USE <1>5 DEF OwnerDone, OwnerAt, askVars, startVars, holdVars, endVars
  <2>1. PlanTypeOK'
    BY DEF PlanTypeOK, Held
  <2>2. RunsInStep'
    BY DEF PlanTypeOK, RunsInStep
  <2>3. ClicksInStep'
    BY DEF PlanTypeOK, ClicksInStep
  <2>4. KeptByOne'
    BY DEF PlanTypeOK, KeptByOne, Claims
  <2>5. OwnersInStep'
    BY DEF PlanTypeOK, OwnersInStep
  <2> QED BY <2>1, <2>2, <2>3, <2>4, <2>5
<1> QED BY <1>1, <1>2, <1>3, <1>4, <1>5

\* What is held ends: another turn of the chat begins, or Stop finds no request.
LEMMA HeldEndsKeeps ==
  ASSUME PlanInv, OtherTurnBegins \/ StopsInGap
  PROVE  PlanInv'
<1> USE RunOfIsReply DEF PlanInv
<1>1. /\ EndHeld
      /\ UNCHANGED <<askVars, startVars, cards, waits, endVars, ownerVars>>
  BY DEF OtherTurnBegins, StopsInGap
<1> USE <1>1 DEF EndHeld, End, Unheld, Held, askVars, startVars, endVars, ownerVars
<1>2. PlanTypeOK'
  BY CardsAreBounded DEF PlanTypeOK
<1>3. RunsInStep'
  BY DEF PlanTypeOK, RunsInStep
<1>4. ClicksInStep'
  BY DEF PlanTypeOK, ClicksInStep
<1>5. KeptByOne'
  BY DEF PlanTypeOK, KeptByOne, Claims
<1>6. OwnersInStep'
  BY DEF PlanTypeOK, OwnersInStep
<1> QED BY <1>2, <1>3, <1>4, <1>5, <1>6

LEMMA PlanInvNext == PlanInv /\ [PlanNext]_planVars => PlanInv'
<1> SUFFICES ASSUME PlanInv, [PlanNext]_planVars PROVE PlanInv'
  OBVIOUS
<1>1. CASE PlanNext
  BY <1>1, AskStepKeeps, ClickStepKeeps, PlanRunStepKeeps, OwnerStepKeeps, HeldEndsKeeps
     DEF PlanNext, Asks
<1>2. CASE UNCHANGED planVars
  BY <1>2 DEF planVars, askVars, startVars, holdVars, endVars, ownerVars, PlanInv, PlanTypeOK,
              Held, RunsInStep, ClicksInStep, KeptByOne, Claims, OwnersInStep
<1> QED BY <1>1, <1>2

\* The plan runs, their clicks, their holds and the owners that end them stay in step
\* in every behaviour of claudePlanRunRegistry.ts and claudePlanRun.ts.
THEOREM PlanRunsInvariant == PlanSpec => []PlanInv
BY PlanInvInit, PlanInvNext, PTL DEF PlanSpec

\* However clicks, deadlines, Stops and ends of replies meet, a run that has not ended
\* has exactly one of them to end it (claimHeldClaudePlanRun, holdClaudePlanRun).
THEOREM PlanRunsHaveOneKeeper == PlanSpec => []RunHasOneKeeper
<1>1. PlanInv => RunHasOneKeeper
  <2> SUFFICES ASSUME PlanInv, NEW p \in listed \ ended
               PROVE  \E k \in Asks \cup {Hold} : Keepers(p) = {k}
    BY DEF RunHasOneKeeper
  <2> USE RunOfIsReply, AsksDiffer DEF PlanInv, KeptByOne
  <2>1. p \in Replies /\ p \in Asks /\ claims \subseteq Resumes
    BY DEF PlanTypeOK
  <2>2. CASE ask[p] = "working"
    <3>1. heldAt[p] = 0 /\ \A c \in Resumes : ~Claims(c, p)
      BY <2>2
    <3>2. Keepers(p) = {p}
      BY <2>1, <2>2, <3>1 DEF Keepers, Claims
    <3> QED BY <2>1, <3>2
  <2>3. CASE heldAt[p] # 0
    <3>1. ask[p] # "working" /\ \A c \in Resumes : ~Claims(c, p)
      BY <2>3
    <3>2. Keepers(p) = {Hold}
      BY <2>1, <2>3, <3>1 DEF Keepers, Claims
    <3> QED BY <3>2
  <2>4. CASE \E c \in Resumes : Claims(c, p)
    <3>1. PICK c \in Resumes : Claims(c, p)
      BY <2>4
    <3>2. /\ ask[p] # "working" /\ heldAt[p] = 0
          /\ \A d \in Resumes : Claims(d, p) => d = c
      BY <3>1
    <3>3. Keepers(p) = {c}
      BY <2>1, <3>1, <3>2 DEF Keepers, Claims
    <3> QED BY <3>3
  <2> QED BY <2>2, <2>3, <2>4
<1> QED BY <1>1, PlanRunsInvariant, PTL

\* Once a delete or a restore sweeps, no plan run's process is alive, no folder of one
\* is left, and no start goes on (endClaudePlanRuns,
\* closeClaudePlanRunAdmission).
THEOREM SweptChatsHaveNoRun == PlanSpec => []SweepsFindNoRun
<1>1. PlanInv => SweepsFindNoRun
  BY DEF PlanInv, PlanTypeOK, RunsInStep, OwnersInStep, SweepsFindNoRun
<1> QED BY <1>1, PlanRunsInvariant, PTL

\* What a continuation runs was never reported as not run (planClaudePlanClick,
\* answerApprovalsOnce).
THEOREM ReportedNotRunIsTrue == PlanSpec => []ToldNotRunNeverRuns
<1>1. PlanInv => ToldNotRunNeverRuns
  BY DEF PlanInv, PlanTypeOK, ClicksInStep, ToldNotRunNeverRuns
<1> QED BY <1>1, PlanRunsInvariant, PTL

-----------------------------------------------------------------------------
(* The Compacts of a chat.                                                  *)

\* The places of the page's first request.
Planning == {"plan sent", "planning", "previewing", "planned"}

\* The Compacts whose summary is written, or is about to be.
Standing == summarized \cup {c \in Compacts : compact[c] = "writing"}

\* Where a Stop that reached the server in time is kept: in the page while it plans, as
\* a pending one before the summary's run registers, and then in its signal.
StopIsKept ==
  /\ \A c \in pressed : compact[c] # "idle"
  /\ \A c \in heard \ overdue :
       /\ compact[c] # "idle" /\ c \notin Standing
       /\ compact[c] \in Planning => c \in pressed
       /\ compact[c] = "sent" => pending[c] = "waits"
       /\ compact[c] \in Unwritten => signal[c]

\* A turn that met a Compact has left a later start than the Compact has seen, or its
\* chat went, which aborted it.
MetIsSeen ==
  /\ \A c \in met :
       /\ c \notin Standing
       /\ compact[c] \in {"setup", "calling", "looking", "over"}
       /\ compact[c] # "over" => signal[c] \/ lastStart > seen[c].turn
  /\ lastStart <= Cardinality(begun)
  /\ \A c \in Compacts : seen[c].turn <= Cardinality(begun)

\* A summary's event follows another than every earlier one did.
EventsInTurn ==
  /\ chat.event \in summarized \cup {NoCompact}
  /\ \A c \in Compacts : seen[c].event \in summarized \cup {NoCompact}
  /\ \A c \in summarized : compact[c] = "over" /\ seen[c].event # chat.event
  /\ \A c, d \in summarized : c # d => seen[c].event # seen[d].event

\* A delete aborts what runs, and nothing gets past the session's read after it.
DeleteAborts ==
  /\ chat.deleting => \A c \in Compacts : compact[c] \in Unwritten => signal[c]
  /\ ~chat.stored =>
       \A c \in Compacts : compact[c] \in Unwritten \ {"reading"} => signal[c]

CompactInv ==
  /\ CompactTypeOK /\ StopIsKept /\ MetIsSeen /\ EventsInTurn /\ DeleteAborts

LEMMA CompactInvInit == CompactInit => CompactInv
<1> SUFFICES ASSUME CompactInit PROVE CompactInv
  OBVIOUS
<1>1. Cardinality(begun) = 0
  BY FS_EmptySet DEF CompactInit
<1>2. CompactTypeOK
  BY DEF CompactInit, CompactTypeOK, CompactPlaces
<1>3. StopIsKept
  BY DEF CompactInit, StopIsKept
<1>4. MetIsSeen
  BY <1>1 DEF CompactInit, MetIsSeen
<1>5. EventsInTurn /\ DeleteAborts
  BY DEF CompactInit, EventsInTurn, DeleteAborts, Unwritten
<1> QED BY <1>2, <1>3, <1>4, <1>5 DEF CompactInv

\* A step that only takes a Compact to its next place.
LEMMA PlaceStepKeeps ==
  ASSUME CompactInv, NEW c \in Compacts, NEW place \in CompactPlaces \ {"idle"},
         CompactGoes(c, place),
         UNCHANGED <<signal, chat, seen, summarized, stopVars, turnsVars>>,
         compact[c] # "over",
         place \in Planning => compact[c] \in Planning \cup {"idle"},
         place = "sent" => compact[c] = "planned" /\ c \notin pressed,
         place \in Unwritten => compact[c] \in {"setup", "calling"} /\ place \in {"calling", "looking"},
         place = "writing" => compact[c] = "looking" /\ ~(signal[c] \/ YieldsToTurn(c))
  PROVE  CompactInv'
<1> USE DEF CompactInv, CompactGoes, stopVars, turnsVars
<1>0. \A d \in Compacts : compact'[d] = IF d = c THEN place ELSE compact[d]
  BY DEF CompactTypeOK
<1>1. CompactTypeOK'
  BY DEF CompactTypeOK
<1>2. StopIsKept'
  <2>1. \A d \in Compacts \ {c} : d \in Standing' <=> d \in Standing
    BY <1>0 DEF Standing
  <2>2. c \in Standing' => place = "writing"
    BY <1>0 DEF Standing, EventsInTurn
  <2>3. c \in heard \ overdue => place # "writing" /\ place # "sent"
    BY DEF StopIsKept, Unwritten, Planning
  <2>4. c \in heard \ overdue /\ place \in Planning => c \in pressed
    BY DEF StopIsKept
  <2>5. c \in heard \ overdue /\ place \in Unwritten => signal[c]
    BY DEF StopIsKept, Unwritten
  <2>6. heard \subseteq Compacts /\ pressed \subseteq Compacts
    BY DEF CompactTypeOK
  <2> QED BY <1>0, <2>1, <2>2, <2>3, <2>4, <2>5, <2>6 DEF StopIsKept
<1>3. MetIsSeen'
  BY <1>0 DEF CompactTypeOK, MetIsSeen, Standing, Unwritten, CompactPlaces, Planning, YieldsToTurn
<1>4. EventsInTurn'
  BY <1>0 DEF CompactTypeOK, EventsInTurn
<1>5. DeleteAborts'
  BY <1>0 DEF CompactTypeOK, DeleteAborts, Unwritten
<1> QED BY <1>1, <1>2, <1>3, <1>4, <1>5

\* A step of a Compact, of its page or of a Stop for it.
LEMMA CompactStepKeeps ==
  ASSUME CompactInv, NEW c \in Compacts,
         \/ PlanIsSent(c) \/ PlanIsTaken(c) \/ PlanLooks(c) \/ PlanEnds(c) \/ CompactFails(c)
         \/ CallStarts(c) \/ CallAnswers(c) \/ LooksAgain(c)
         \/ StopIsPressed(c) \/ StopComes(c) \/ PendingLapses(c) \/ CompactRegisters(c)
         \/ SessionIsRead(c) \/ TurnIsLookedFor(c) \/ EventIsWritten(c)
  PROVE  CompactInv'
<1> USE DEF CompactInv, CompactGoes, stopVars, turnsVars
<1>1. CASE PlanIsSent(c)
  BY <1>1, PlaceStepKeeps
     DEF PlanIsSent, CompactPlaces, Planning, Unwritten
<1>2. CASE PlanIsTaken(c)
  BY <1>2, PlaceStepKeeps
     DEF PlanIsTaken, CompactPlaces, Planning, Unwritten
<1>3. CASE PlanLooks(c) \/ PlanEnds(c)
  BY <1>3, PlaceStepKeeps
     DEF PlanLooks, PlanEnds, CompactPlaces, Planning, Unwritten
<1>4. CASE CompactFails(c)
  BY <1>4, PlaceStepKeeps
     DEF CompactFails, CompactPlaces, Planning, Unwritten
<1>5. CASE CallStarts(c)
  BY <1>5, PlaceStepKeeps
     DEF CallStarts, CompactPlaces, Planning, Unwritten
<1>6. CASE CallAnswers(c)
  BY <1>6, PlaceStepKeeps
     DEF CallAnswers, CompactPlaces, Planning, Unwritten
<1>7. CASE LooksAgain(c)
  <2>1. CASE signal[c] \/ YieldsToTurn(c)
    BY <1>7, <2>1, PlaceStepKeeps DEF LooksAgain, CompactPlaces, Planning, Unwritten
  <2>2. CASE ~(signal[c] \/ YieldsToTurn(c))
    BY <1>7, <2>2, PlaceStepKeeps DEF LooksAgain, CompactPlaces, Planning, Unwritten
  <2> QED BY <2>1, <2>2
<1>8. CASE StopIsPressed(c)
  <2>1. CompactTypeOK'
    BY <1>8 DEF StopIsPressed, CompactTypeOK, CompactPlaces
  <2>2. StopIsKept'
    BY <1>8 DEF StopIsPressed, CompactTypeOK, StopIsKept, Standing, Planning, Unwritten
  <2>3. MetIsSeen'
    BY <1>8 DEF StopIsPressed, CompactTypeOK, MetIsSeen, Standing
  <2>4. EventsInTurn'
    BY <1>8 DEF StopIsPressed, CompactTypeOK, EventsInTurn
  <2>5. DeleteAborts'
    BY <1>8 DEF StopIsPressed, CompactTypeOK, DeleteAborts, Unwritten
  <2> QED BY <2>1, <2>2, <2>3, <2>4, <2>5
<1>9. CASE StopComes(c)
  <2>1. CompactTypeOK'
    BY <1>9 DEF StopComes, LeavesPending, Abort, CompactRegistered, CompactTypeOK, CompactPlaces
  <2>2. StopIsKept'
    <3>1. \A d \in pressed' : compact'[d] # "idle"
      BY <1>9 DEF StopComes, StopIsKept
    <3>2. ASSUME NEW d \in heard' \ overdue'
          PROVE  /\ compact[d] # "idle" /\ d \notin Standing
                 /\ compact[d] \in Planning => d \in pressed
                 /\ compact[d] = "sent" => pending'[d] = "waits"
                 /\ compact[d] \in Unwritten => signal'[d]
      <4>1. d \in Compacts
        BY <1>9 DEF StopComes, CompactTypeOK
      <4>2. compact[d] \in Unwritten => signal'[d]
        BY <1>9, <4>1 DEF StopComes, Abort, CompactRegistered
      <4>3. pending[d] = "waits" => pending'[d] = "waits"
        BY <1>9, <4>1 DEF StopComes, LeavesPending, CompactTypeOK
      <4>4. d = c /\ compact[d] = "sent" => pending'[d] = "waits"
        BY <1>9 DEF StopComes, LeavesPending, CompactRegistered, Unwritten, CompactTypeOK
      <4>5. CASE d \in heard
        BY <1>9, <4>2, <4>3, <4>5 DEF StopComes, StopIsKept
      <4>6. CASE d \notin heard
        <5>1. compact[d] \in Unwritten \/ (d = c /\ compact[d] \notin {"writing", "over"})
          BY <1>9, <4>6 DEF StopComes
        <5>2. d \notin Standing
          BY <5>1 DEF Standing, EventsInTurn, Unwritten
        <5>3. d = c => d \in pressed /\ compact[d] # "idle"
          BY <1>9 DEF StopComes, StopIsKept, CompactTypeOK
        <5> QED BY <4>2, <4>4, <5>1, <5>2, <5>3 DEF Unwritten, Planning
      <4> QED BY <4>5, <4>6
    <3> QED BY <1>9, <3>1, <3>2 DEF StopComes, StopIsKept, Standing
  <2>3. MetIsSeen'
    BY <1>9
       DEF StopComes, LeavesPending, Abort, CompactRegistered, CompactTypeOK, MetIsSeen,
           Standing
  <2>4. EventsInTurn'
    BY <1>9 DEF StopComes, LeavesPending, Abort, CompactRegistered, CompactTypeOK, EventsInTurn
  <2>5. DeleteAborts'
    BY <1>9
       DEF StopComes, LeavesPending, Abort, CompactRegistered, CompactTypeOK, DeleteAborts,
           Unwritten
  <2> QED BY <2>1, <2>2, <2>3, <2>4, <2>5
<1>10. CASE PendingLapses(c)
  <2>1. CompactTypeOK'
    BY <1>10 DEF PendingLapses, CompactTypeOK, CompactPlaces
  <2>2. StopIsKept'
    BY <1>10 DEF PendingLapses, CompactTypeOK, StopIsKept, Standing, Planning, Unwritten
  <2>3. MetIsSeen'
    BY <1>10 DEF PendingLapses, CompactTypeOK, MetIsSeen, Standing
  <2>4. EventsInTurn'
    BY <1>10 DEF PendingLapses, CompactTypeOK, EventsInTurn
  <2>5. DeleteAborts'
    BY <1>10 DEF PendingLapses, CompactTypeOK, DeleteAborts, Unwritten
  <2> QED BY <2>1, <2>2, <2>3, <2>4, <2>5
<1>11. CASE CompactRegisters(c)
  <2>0. /\ compact[c] \in {"plan sent", "sent"}
        /\ compact[c] = "plan sent" => compact'[c] \in {"planning", "over"}
        /\ compact[c] = "sent" => compact'[c] \in {"reading", "over"}
        /\ \A d \in Compacts \ {c} : compact'[d] = compact[d] /\ signal'[d] = signal[d]
        /\ signal'[c] = (pending[c] = "waits")
        /\ \A d \in Compacts \ {c} : pending'[d] = pending[d]
        /\ chat.deleting => compact'[c] = "over"
        /\ UNCHANGED <<pressed, posted, chat, seen, summarized, heard, overdue, turnsVars>>
    BY <1>11 DEF CompactRegisters, StartCompactRun, CompactTypeOK
  <2>1. CompactTypeOK'
    BY <1>11 DEF CompactRegisters, StartCompactRun, CompactTypeOK, CompactPlaces
  <2>2. StopIsKept'
    BY ZenonT(60), <2>0 DEF CompactTypeOK, StopIsKept, Standing, Planning, Unwritten
  <2>3. MetIsSeen'
    BY <2>0 DEF CompactTypeOK, MetIsSeen, Standing
  <2>4. EventsInTurn'
    BY ZenonT(60), <2>0 DEF CompactTypeOK, EventsInTurn
  <2>5. DeleteAborts'
    BY <2>0 DEF CompactTypeOK, DeleteAborts, Unwritten
  <2> QED BY <2>1, <2>2, <2>3, <2>4, <2>5
<1>12. CASE SessionIsRead(c)
  <2>0. /\ compact[c] = "reading" /\ compact'[c] \in {"checking", "over"}
        /\ \A d \in Compacts \ {c} : compact'[d] = compact[d] /\ seen'[d] = seen[d]
        /\ seen'[c].event = chat.event /\ seen'[c].turn = seen[c].turn
        /\ UNCHANGED <<signal, chat, summarized, stopVars, turnsVars>>
    BY <1>12 DEF SessionIsRead, CompactTypeOK
  <2>1. CompactTypeOK'
    BY ZenonT(60), <1>12 DEF SessionIsRead, CompactTypeOK, CompactPlaces
  <2>2. StopIsKept'
    BY <1>12 DEF SessionIsRead, CompactTypeOK, StopIsKept, Standing, Planning, Unwritten
  <2>3. MetIsSeen'
    BY <2>0 DEF CompactTypeOK, MetIsSeen, Standing
  <2>4. EventsInTurn'
    BY <2>0 DEF CompactTypeOK, EventsInTurn
  <2>5. DeleteAborts'
    BY <1>12 DEF SessionIsRead, CompactTypeOK, DeleteAborts, Unwritten
  <2> QED BY <2>1, <2>2, <2>3, <2>4, <2>5
<1>13. CASE TurnIsLookedFor(c)
  <2>0. /\ compact[c] = "checking" /\ compact'[c] \in {"setup", "over"}
        /\ \A d \in Compacts \ {c} : compact'[d] = compact[d] /\ seen'[d] = seen[d]
        /\ seen'[c].turn = lastStart /\ seen'[c].event = seen[c].event
        /\ UNCHANGED <<signal, chat, summarized, stopVars, turnsVars>>
    BY <1>13 DEF TurnIsLookedFor, CompactTypeOK
  <2>1. CompactTypeOK'
    BY ZenonT(60), <1>13 DEF TurnIsLookedFor, CompactTypeOK, CompactPlaces
  <2>2. StopIsKept'
    BY <1>13 DEF TurnIsLookedFor, CompactTypeOK, StopIsKept, Standing, Planning, Unwritten
  <2>3. MetIsSeen'
    BY <2>0 DEF CompactTypeOK, MetIsSeen, Standing
  <2>4. EventsInTurn'
    <3>1. \A d \in Compacts : seen'[d].event = seen[d].event
      BY <2>0
    <3> QED BY <2>0, <3>1 DEF CompactTypeOK, EventsInTurn
  <2>5. DeleteAborts'
    BY <1>13 DEF TurnIsLookedFor, CompactTypeOK, DeleteAborts, Unwritten
  <2> QED BY <2>1, <2>2, <2>3, <2>4, <2>5
<1>14. CASE EventIsWritten(c)
  <2>1. CompactTypeOK'
    BY <1>14, CompactsAssumption DEF EventIsWritten, CompactTypeOK, CompactPlaces
  <2>2. StopIsKept'
    BY <1>14, CompactsAssumption
       DEF EventIsWritten, CompactTypeOK, StopIsKept, Standing, Planning, Unwritten
  <2>3. MetIsSeen'
    BY <1>14, CompactsAssumption DEF EventIsWritten, CompactTypeOK, MetIsSeen, Standing
  <2>4. EventsInTurn'
    <3>1. c \notin summarized
      BY <1>14 DEF EventIsWritten, EventsInTurn
    <3>2. CASE chat.stored /\ chat.event = seen[c].event
      <4>1. chat'.event = c /\ summarized' = summarized \cup {c} /\ seen' = seen
        BY <1>14, <3>2 DEF EventIsWritten, CompactTypeOK
      <4>2. \A d \in Compacts : seen[d].event # c
        BY <3>1, CompactsAssumption DEF EventsInTurn
      <4>3. \A d \in summarized' : compact'[d] = "over"
        BY <1>14, <4>1 DEF EventIsWritten, EventsInTurn, CompactTypeOK
      <4>4. \A d \in summarized : seen[d].event # seen[c].event
        BY <3>2 DEF EventsInTurn
      <4> QED BY <4>1, <4>2, <4>3, <4>4 DEF EventsInTurn, CompactTypeOK
    <3>3. CASE ~(chat.stored /\ chat.event = seen[c].event)
      BY <1>14, <3>3 DEF EventIsWritten, EventsInTurn, CompactTypeOK
    <3> QED BY <3>2, <3>3
  <2>5. DeleteAborts'
    BY <1>14, CompactsAssumption DEF EventIsWritten, CompactTypeOK, DeleteAborts, Unwritten
  <2> QED BY <2>1, <2>2, <2>3, <2>4, <2>5
<1> QED
  BY <1>1, <1>2, <1>3, <1>4, <1>5, <1>6, <1>7, <1>8, <1>9, <1>10, <1>11, <1>12, <1>13, <1>14

\* A turn's step.
LEMMA ChatTurnKeeps ==
  ASSUME CompactInv, NEW t \in CompactTurns, ChatTurnStarts(t) \/ ChatTurnEnds(t)
  PROVE  CompactInv'
<1> USE DEF CompactInv, stopVars
<1>1. CASE ChatTurnStarts(t)
  <2>1. IsFiniteSet(begun)
    BY FS_Subset, CompactsAssumption DEF CompactTypeOK
  <2>2. Cardinality(begun) \in Nat /\ Cardinality(begun') = Cardinality(begun) + 1
    BY <1>1, <2>1, FS_AddElement, FS_CardinalityType DEF ChatTurnStarts
  <2>3. lastStart' = Cardinality(begun) + 1
    BY <1>1, <2>2 DEF ChatTurnStarts
  <2>4. CompactTypeOK'
    BY <1>1, <2>2, <2>3 DEF ChatTurnStarts, CompactTypeOK
  <2>5. MetIsSeen'
    <3>1. \A c \in Compacts : lastStart' > seen[c].turn
      BY <2>2, <2>3 DEF MetIsSeen, CompactTypeOK
    <3>2. \A c \in met' : c \in met \/ compact[c] \in {"setup", "calling", "looking"}
      BY <1>1 DEF ChatTurnStarts
    <3>3. \A c \in met' : /\ c \notin Standing
                          /\ compact[c] \in {"setup", "calling", "looking", "over"}
      BY <3>2 DEF MetIsSeen, EventsInTurn, Standing
    <3>4. \A c \in met' : c \in Compacts
      BY <2>4 DEF CompactTypeOK
    <3>5. \A c \in Compacts : seen[c].turn <= Cardinality(begun')
      BY <2>2 DEF MetIsSeen, CompactTypeOK
    <3>6. Standing' = Standing /\ compact' = compact /\ seen' = seen /\ signal' = signal
      BY <1>1 DEF ChatTurnStarts, Standing
    <3>7. lastStart' <= Cardinality(begun')
      BY <2>2, <2>3
    <3> QED BY <3>1, <3>3, <3>4, <3>5, <3>6, <3>7 DEF MetIsSeen
  <2>6. StopIsKept' /\ EventsInTurn' /\ DeleteAborts'
    BY <1>1 DEF ChatTurnStarts, StopIsKept, Standing, EventsInTurn, DeleteAborts
  <2> QED BY <2>4, <2>5, <2>6
<1>2. CASE ChatTurnEnds(t)
  BY <1>2 DEF ChatTurnEnds, CompactTypeOK, MetIsSeen, StopIsKept, Standing, EventsInTurn,
              DeleteAborts
<1> QED BY <1>1, <1>2

\* A step of the chat's delete.
LEMMA ChatDeleteKeeps ==
  ASSUME CompactInv, ChatDeleteBegins \/ ChatIsSwept \/ ChatDeleteEnds \/ ChatDeleteGivesUp
  PROVE  CompactInv'
<1> USE DEF CompactInv, stopVars, turnsVars
<1>1. CASE ChatDeleteBegins
  <2>1. \A c \in Compacts : (signal[c] => signal'[c]) /\ (compact[c] \in Unwritten => signal'[c])
    BY <1>1 DEF ChatDeleteBegins, Abort, CompactRegistered
  <2>2. signal' \in [Compacts -> BOOLEAN]
    BY <1>1 DEF ChatDeleteBegins, Abort, CompactRegistered, CompactTypeOK
  <2>3. CompactTypeOK' /\ EventsInTurn'
    BY <1>1, <2>2 DEF ChatDeleteBegins, CompactTypeOK, EventsInTurn
  <2>4. StopIsKept' /\ MetIsSeen'
    BY <1>1, <2>1 DEF ChatDeleteBegins, CompactTypeOK, StopIsKept, MetIsSeen, Standing
  <2>5. DeleteAborts'
    BY <1>1, <2>1 DEF ChatDeleteBegins, CompactTypeOK, DeleteAborts
  <2> QED BY <2>3, <2>4, <2>5
<1>2. CASE ChatDeleteEnds
  <2>1. \A c \in Compacts : compact[c] \in Unwritten => signal[c]
    BY <1>2 DEF ChatDeleteEnds, DeleteAborts
  <2>2. CompactTypeOK' /\ EventsInTurn' /\ StopIsKept'
    BY <1>2 DEF ChatDeleteEnds, CompactTypeOK, EventsInTurn, StopIsKept, Standing
  <2>3. Cardinality(begun) \in Nat
    BY FS_Subset, FS_CardinalityType, CompactsAssumption DEF CompactTypeOK
  <2>4. MetIsSeen'
    BY <1>2, <2>1, <2>3 DEF ChatDeleteEnds, CompactTypeOK, MetIsSeen, Standing, Unwritten
  <2>5. DeleteAborts'
    BY <1>2, <2>1 DEF ChatDeleteEnds, CompactTypeOK, DeleteAborts
  <2> QED BY <2>2, <2>4, <2>5
<1>3. CASE ChatDeleteGivesUp
  BY <1>3 DEF ChatDeleteGivesUp, CompactTypeOK, MetIsSeen, StopIsKept, Standing, EventsInTurn,
              DeleteAborts
<1>4. CASE ChatIsSwept
  BY <1>4 DEF ChatIsSwept, CompactTypeOK, MetIsSeen, StopIsKept, Standing, EventsInTurn,
              DeleteAborts
<1> QED BY <1>1, <1>2, <1>3, <1>4

LEMMA CompactInvNext == CompactInv /\ [CompactNext]_compactVars => CompactInv'
<1> SUFFICES ASSUME CompactInv, [CompactNext]_compactVars PROVE CompactInv'
  OBVIOUS
<1>1. CASE CompactNext
  BY <1>1, CompactStepKeeps, ChatTurnKeeps, ChatDeleteKeeps DEF CompactNext
<1>2. CASE UNCHANGED compactVars
  BY <1>2 DEF compactVars, CompactInv, CompactTypeOK, StopIsKept, Standing, MetIsSeen,
              EventsInTurn, DeleteAborts
<1> QED BY <1>1, <1>2

\* What a Stop, a turn and a delete leave behind for a Compact is where its next look
\* finds it, in every behaviour of compact/+server.ts and compactRunRegistry.ts.
THEOREM CompactInvariant == CompactSpec => []CompactInv
BY CompactInvInit, CompactInvNext, PTL DEF CompactSpec

\* However many Compacts, Stops and turns meet in a chat, no summary is written that a
\* Stop had reached in time, that a turn had met, or beside another of the same events;
\* and no call goes on unaborted on a chat that is gone (LooksAgain, EventIsWritten).
THEOREM WrittenMayStand == CompactSpec => []CompactsGiveWay
<1>1. CompactInv => CompactsGiveWay
  BY DEF CompactInv, StopIsKept, Standing, MetIsSeen, EventsInTurn, DeleteAborts, Unwritten,
         CompactsGiveWay
<1> QED BY <1>1, CompactInvariant, PTL

-----------------------------------------------------------------------------
(* The live hub: no tab that stays awake misses its answer, and a send      *)
(* fails only where its turn is gone or it was refused past the limit.      *)

Awake(s) == s \notin slept /\ wanted[s] # "none"

\* A wait and its turn.
WaitsFit ==
  \A s \in Sends :
    /\ tab[s] = "idle" <=> answer[s] = "none"
    /\ wanted[s] # "none" => tab[s] = "waiting"
    /\ s \notin slept /\ tab[s] = "waiting" => wanted[s] # "none"
    /\ answer[s] = "unknown" => s \in died \/ tab[s] \in Done
    /\ tab[s] = "retrying" => asks[s] <= MaxResubscribes

\* The worker holds something only of a hub that greeted it, and while the stream is
\* up that is the open one.
StreamFits ==
  /\ worker.stream \in {"none", "connecting", "timer"} => worker.hub = NoHub
  /\ worker.hub = NoHub => worker.known = {}
  /\ worker.stream = "up" =>
       /\ pipe.hub = hub /\ hub # NoHub
       /\ worker.hub # NoHub => worker.hub = hub
       /\ pipe.greets => worker.hub = NoHub

\* The subscriptions that anyone has heard of were asked for.
Heard == worker.known \cup held \cup patch.add \cup patch.remove \cup patch.added
AskedFor ==
  \A id \in Heard : /\ id[2] <= asks[id[1]]
                    /\ tab[id[1]] \in {"idle", "accepted"} => id # IdOf(id[1])

\* A change is of a hub, and never takes away what is wanted.
PatchFits ==
  /\ patch.place = "none" => patch = NoPatch
  /\ patch.place # "none" => patch.hub # NoHub
  /\ \A s \in Sends : Awake(s) => IdOf(s) \notin patch.remove
  /\ patch.place = "answered" /\ patch.hub = hub =>
       \A s \in Sends : Awake(s) /\ IdOf(s) \in patch.added => IdOf(s) \in held

\* What the worker counts on is held; and of what is held the turn is watched, or its
\* end is on its way.
HeldServes ==
  worker.stream = "up" =>
    \A s \in Sends : Awake(s) =>
      /\ IdOf(s) \in worker.known => IdOf(s) \in held
      /\ IdOf(s) \in held => \/ answer[s] = "running" /\ IdOf(s) \in watching
                             \/ answer[s] = "ended" /\ IdOf(s) \in pipe.over

HubInv ==
  /\ HubTypeOK /\ WaitsFit /\ StreamFits /\ AskedFor /\ PatchFits /\ HeldServes
  /\ FailsOnlyWhenLost

-----------------------------------------------------------------------------
(* The ids of subscriptions.                                                *)

LEMMA IdFacts ==
  ASSUME HubTypeOK
  PROVE  \A s \in Sends : /\ IdOf(s) \in Ids /\ IdOf(s)[1] = s /\ IdOf(s)[2] = asks[s]
                          /\ \A t \in Sends : IdOf(s) = IdOf(t) => s = t
BY DEF HubTypeOK, IdOf, Ids

LEMMA HeardAreIds ==
  ASSUME HubTypeOK, NEW id \in Heard
  PROVE  id \in Ids /\ id[1] \in Sends /\ id[2] \in Int
<1>1. id \in Ids
  BY DEF HubTypeOK, Heard
<1>2. id[1] \in Sends /\ id[2] \in 1 .. MaxResubscribes + 1
  BY <1>1 DEF Ids
<1> QED BY <1>1, <1>2

LEMMA IdsStay ==
  ASSUME asks' = asks
  PROVE  \A s : IdOf(s)' = IdOf(s)
BY DEF IdOf

LEMMA FaultsFit ==
  ASSUME HubTypeOK, faults' = faults \/ Fault
  PROVE  faults' \in 0 .. MaxFaults
<1>1. faults \in 0 .. MaxFaults
  BY DEF HubTypeOK
<1>2. faults' = faults \/ (faults < MaxFaults /\ faults' = faults + 1)
  BY DEF Fault
<1> QED BY <1>1, <1>2, HubAssumption

LEMMA HubInvInit ==
  ASSUME HubInit
  PROVE  HubInv
<1>1. HubTypeOK
  BY HubAssumption DEF HubInit, HubTypeOK, IdleWorker, NoPatch, DryPipe, NoHub, Done
<1>2. WaitsFit /\ FailsOnlyWhenLost
  BY DEF HubInit, WaitsFit, FailsOnlyWhenLost, Done
<1>3. StreamFits
  BY DEF HubInit, StreamFits, IdleWorker
<1>4. \A s \in Sends : ~Awake(s)
  BY DEF HubInit, Awake
<1>5. Heard = {}
  BY DEF HubInit, Heard, IdleWorker, NoPatch
<1>6. AskedFor
  BY <1>5 DEF AskedFor
<1>7. PatchFits
  BY <1>4 DEF HubInit, PatchFits, NoPatch
<1>8. HeldServes
  BY <1>4 DEF HeldServes
<1> QED BY <1>1, <1>2, <1>3, <1>6, <1>7, <1>8 DEF HubInv

-----------------------------------------------------------------------------
(* The tabs.                                                                *)

LEMMA AcceptedKeepsInv ==
  ASSUME HubInv, NEW s \in Sends, Accepted(s)
  PROVE  HubInv'
<1>1. /\ tab[s] = "idle" /\ tab' = [tab EXCEPT ![s] = "accepted"]
      /\ answer' = [answer EXCEPT ![s] = "running"]
      /\ UNCHANGED <<asks, wanted, worker, pipe, patch, hub, held, watching, died, slept, faults>>
  BY DEF Accepted
<1>2. HubTypeOK'
  BY <1>1 DEF HubInv, HubTypeOK
<1>3. /\ tab'[s] = "accepted" /\ answer'[s] = "running"
      /\ \A t \in Sends : t # s => tab'[t] = tab[t] /\ answer'[t] = answer[t]
  BY <1>1 DEF HubInv, HubTypeOK
<1>4. WaitsFit'
  BY <1>1, <1>3 DEF HubInv, WaitsFit
<1>5. FailsOnlyWhenLost'
  BY <1>1, <1>3 DEF HubInv, FailsOnlyWhenLost
<1>6. StreamFits'
  BY <1>1 DEF HubInv, StreamFits
<1>7. /\ \A t : IdOf(t)' = IdOf(t)
      /\ \A t : Awake(t)' = Awake(t)
      /\ Heard' = Heard /\ ~Awake(s)
  BY <1>1, IdsStay DEF Awake, Heard, HubInv, WaitsFit
<1>8. AskedFor'
  <2> SUFFICES ASSUME NEW id \in Heard
               PROVE  /\ id[2] <= asks[id[1]]
                      /\ tab'[id[1]] \in {"idle", "accepted"} => id # IdOf(id[1])
    BY <1>1, <1>7 DEF AskedFor
  <2>1. id[1] \in Sends
    BY DEF HubInv, HubTypeOK, Heard, Ids
  <2> QED BY <1>1, <1>3, <2>1 DEF HubInv, AskedFor
<1>9. PatchFits'
  BY <1>1, <1>7 DEF HubInv, PatchFits
<1>10. HeldServes'
  BY <1>1, <1>3, <1>7 DEF HubInv, HeldServes
<1> QED BY <1>2, <1>4, <1>5, <1>6, <1>8, <1>9, <1>10 DEF HubInv

\* What reconcile leaves of the stream.
LEMMA ReconcileFacts ==
  ASSUME HubInv, NEW nowWanted, Reconcile(nowWanted), hub' = hub
  PROVE  /\ worker' \in [ stream : {"none", "connecting", "up", "broken", "timer"}, hub : Nat,
                          known : SUBSET Ids, retry : BOOLEAN ]
         /\ pipe' \in [hub : Nat, greets : BOOLEAN, over : SUBSET Ids]
         /\ StreamFits' /\ worker'.known \subseteq worker.known
         /\ worker'.stream = "up" => worker' = worker /\ pipe' = pipe
<1>1. \/ worker' = IdleWorker /\ pipe' = DryPipe
      \/ worker' = [worker EXCEPT !.stream = "connecting"] /\ pipe' = pipe
         /\ worker.stream = "none"
      \/ worker' = worker /\ pipe' = pipe
  BY DEF Reconcile
<1>2. CASE worker' = IdleWorker /\ pipe' = DryPipe
  BY <1>2 DEF IdleWorker, DryPipe, NoHub, StreamFits
<1>3. CASE worker' = [worker EXCEPT !.stream = "connecting"] /\ pipe' = pipe
           /\ worker.stream = "none"
  <2>1. /\ worker'.stream = "connecting" /\ worker'.hub = worker.hub
        /\ worker'.known = worker.known /\ worker'.retry = worker.retry
    BY <1>3 DEF HubInv, HubTypeOK
  <2>2. StreamFits'
    BY <1>3, <2>1 DEF HubInv, StreamFits
  <2> QED BY <1>3, <2>1, <2>2 DEF HubInv, HubTypeOK
<1>4. CASE worker' = worker /\ pipe' = pipe
  BY <1>4 DEF HubInv, HubTypeOK, StreamFits
<1> QED BY <1>1, <1>2, <1>3, <1>4

\* A step of one tab's wait: it takes nothing from the others, and what it begins to
\* want is new.
LEMMA TabKeepsInv ==
  ASSUME HubInv, HubTypeOK', WaitsFit', FailsOnlyWhenLost', NEW s \in Sends,
         Reconcile(wanted'), patch' = patch, UNCHANGED serverVars, slept \subseteq slept',
         \A t \in Sends : t # s => /\ tab'[t] = tab[t] /\ asks'[t] = asks[t]
                                   /\ wanted'[t] = wanted[t],
         tab'[s] \notin {"idle", "accepted"}, asks'[s] >= asks[s],
         Awake(s)' => IdOf(s)' \notin Heard
  PROVE  HubInv'
<1>1. UNCHANGED <<answer, hub, held, watching, died>>
  BY DEF serverVars
<1>2. /\ StreamFits' /\ worker'.known \subseteq worker.known
      /\ worker'.stream = "up" => worker' = worker /\ pipe' = pipe
  BY <1>1, ReconcileFacts
<1>3. \A t \in Sends : t # s => IdOf(t)' = IdOf(t) /\ (Awake(t)' => Awake(t))
  BY DEF IdOf, Awake
<1>4. Heard' \subseteq Heard
  BY <1>1, <1>2 DEF Heard
<1>5. AskedFor'
  <2> SUFFICES ASSUME NEW id \in Heard'
               PROVE  /\ id[2] <= asks'[id[1]]
                      /\ tab'[id[1]] \in {"idle", "accepted"} => id # IdOf(id[1])'
    BY DEF AskedFor
  <2>1. id \in Heard /\ id[1] \in Sends /\ id[2] \in Int
    BY <1>4, HeardAreIds DEF HubInv
  <2>2. /\ id[2] <= asks[id[1]]
        /\ tab[id[1]] \in {"idle", "accepted"} => id # IdOf(id[1])
    BY <2>1 DEF HubInv, AskedFor
  <2>3. asks[id[1]] <= asks'[id[1]] /\ asks[id[1]] \in Int /\ asks'[id[1]] \in Int
    <3>1. \A t \in Sends : asks[t] \in Int /\ asks'[t] \in Int
      <4>1. \A t \in Sends : asks[t] \in 1 .. MaxResubscribes + 1
        BY DEF HubInv, HubTypeOK
      <4>2. \A t \in Sends : asks'[t] \in 1 .. MaxResubscribes + 1
        BY DEF HubTypeOK
      <4> QED BY <4>1, <4>2
    <3>2. asks[id[1]] \in Int /\ asks'[id[1]] \in Int
      BY <2>1, <3>1
    <3>3. CASE id[1] = s
      BY <3>2, <3>3
    <3>4. CASE id[1] # s
      <4>1. asks'[id[1]] = asks[id[1]]
        BY <2>1, <3>4
      <4> QED BY <3>2, <4>1
    <3> QED BY <3>3, <3>4
  <2>4. id[2] <= asks'[id[1]]
    BY <2>1, <2>2, <2>3
  <2> QED BY <1>3, <2>1, <2>2, <2>4
<1>6. \A t \in Sends : Awake(t)' /\ IdOf(t)' \in Heard => t # s /\ Awake(t) /\ IdOf(t)' = IdOf(t)
  BY <1>3
<1>7. PatchFits'
  BY <1>1, <1>6 DEF HubInv, PatchFits, Heard
<1>8. HeldServes'
  <2> SUFFICES ASSUME worker'.stream = "up", NEW t \in Sends, Awake(t)',
                      IdOf(t)' \in worker.known \cup held
               PROVE  /\ IdOf(t)' \in held
                      /\ \/ answer[t] = "running" /\ IdOf(t)' \in watching
                         \/ answer[t] = "ended" /\ IdOf(t)' \in pipe.over
    BY <1>1, <1>2 DEF HeldServes
  <2>1. Awake(t) /\ IdOf(t)' = IdOf(t)
    BY <1>6 DEF Heard
  <2>2. worker.stream = "up"
    BY <1>2
  <2> QED BY <2>1, <2>2 DEF HubInv, HeldServes
<1> QED BY <1>2, <1>5, <1>7, <1>8 DEF HubInv


LEMMA SubscribesKeepsInv ==
  ASSUME HubInv, NEW s \in Sends, Subscribes(s)
  PROVE  HubInv'
<1>1. /\ tab[s] = "accepted" /\ tab' = [tab EXCEPT ![s] = "waiting"]
      /\ wanted' = [wanted EXCEPT ![s] = "pending"] /\ Reconcile(wanted')
      /\ UNCHANGED <<asks, patch, slept, faults>> /\ UNCHANGED serverVars
  BY DEF Subscribes, Wants, tabVars
<1>2. UNCHANGED <<answer, hub, held, watching, died>>
  BY <1>1 DEF serverVars
<1>3. /\ wanted' \in [Sends -> {"none", "pending", "open"}]
      /\ \A t \in Sends : t # s => /\ tab'[t] = tab[t] /\ asks'[t] = asks[t]
                                   /\ wanted'[t] = wanted[t]
  BY <1>1 DEF HubInv, HubTypeOK
<1>4. tab'[s] = "waiting" /\ wanted'[s] = "pending"
  BY <1>1 DEF HubInv, HubTypeOK, WaitsFit
<1>5. asks' \in [Sends -> 1 .. MaxResubscribes + 1] /\ asks'[s] >= asks[s]
  <2>1. asks[s] \in 1 .. MaxResubscribes + 1 /\ asks \in [Sends -> 1 .. MaxResubscribes + 1]
    BY DEF HubInv, HubTypeOK
  <2> QED BY <1>1, <2>1, HubAssumption DEF HubInv, WaitsFit
<1>6. HubTypeOK'
  <2>1. /\ worker' \in [ stream : {"none", "connecting", "up", "broken", "timer"}, hub : Nat,
                         known : SUBSET Ids, retry : BOOLEAN ]
        /\ pipe' \in [hub : Nat, greets : BOOLEAN, over : SUBSET Ids]
    BY <1>1, <1>2, ReconcileFacts
  <2>2. tab' \in [Sends -> {"idle", "accepted", "waiting", "retrying"} \cup Done]
    BY <1>1 DEF HubInv, HubTypeOK, Done
  <2>3. slept' \subseteq Sends /\ faults' \in 0 .. MaxFaults
    <3>1. slept' \subseteq Sends
      BY <1>1 DEF HubInv, HubTypeOK
    <3> QED BY <1>1, <3>1, FaultsFit DEF HubInv
  <2> QED BY <1>1, <1>2, <1>3, <1>5, <2>1, <2>2, <2>3 DEF HubInv, HubTypeOK
<1>7. WaitsFit'
  BY <1>1, <1>2, <1>3, <1>4 DEF HubInv, WaitsFit, Done
<1>8. FailsOnlyWhenLost'
  BY <1>1, <1>2, <1>3, <1>4 DEF HubInv, FailsOnlyWhenLost
<1>9. IdOf(s)' \notin Heard
  <2>1. IdOf(s)' = IdOf(s) /\ IdOf(s)[1] = s
    BY <1>1, IdsStay, IdFacts DEF HubInv
  <2>2. tab[s] \in {"idle", "accepted"}
    BY <1>1
  <2> QED BY <2>1, <2>2 DEF HubInv, AskedFor
<1> QED BY <1>1, <1>2, <1>3, <1>4, <1>5, <1>6, <1>7, <1>8, <1>9, TabKeepsInv DEF serverVars

LEMMA SubscribesAgainKeepsInv ==
  ASSUME HubInv, NEW s \in Sends, SubscribesAgain(s)
  PROVE  HubInv'
<1>1. /\ tab[s] = "retrying" /\ tab' = [tab EXCEPT ![s] = "waiting"]
      /\ asks' = [asks EXCEPT ![s] = @ + 1]
      /\ wanted' = [wanted EXCEPT ![s] = "pending"] /\ Reconcile(wanted')
      /\ UNCHANGED <<patch, slept, faults>> /\ UNCHANGED serverVars
  BY DEF SubscribesAgain, Wants, tabVars
<1>2. UNCHANGED <<answer, hub, held, watching, died>>
  BY <1>1 DEF serverVars
<1>3. /\ wanted' \in [Sends -> {"none", "pending", "open"}]
      /\ \A t \in Sends : t # s => /\ tab'[t] = tab[t] /\ asks'[t] = asks[t]
                                   /\ wanted'[t] = wanted[t]
  BY <1>1 DEF HubInv, HubTypeOK
<1>4. tab'[s] = "waiting" /\ wanted'[s] = "pending"
  BY <1>1 DEF HubInv, HubTypeOK, WaitsFit
<1>5. asks' \in [Sends -> 1 .. MaxResubscribes + 1] /\ asks'[s] >= asks[s]
  <2>1. asks[s] \in 1 .. MaxResubscribes + 1 /\ asks \in [Sends -> 1 .. MaxResubscribes + 1]
    BY DEF HubInv, HubTypeOK
  <2> QED BY <1>1, <2>1, HubAssumption DEF HubInv, WaitsFit
<1>6. HubTypeOK'
  <2>1. /\ worker' \in [ stream : {"none", "connecting", "up", "broken", "timer"}, hub : Nat,
                         known : SUBSET Ids, retry : BOOLEAN ]
        /\ pipe' \in [hub : Nat, greets : BOOLEAN, over : SUBSET Ids]
    BY <1>1, <1>2, ReconcileFacts
  <2>2. tab' \in [Sends -> {"idle", "accepted", "waiting", "retrying"} \cup Done]
    BY <1>1 DEF HubInv, HubTypeOK, Done
  <2>3. slept' \subseteq Sends /\ faults' \in 0 .. MaxFaults
    <3>1. slept' \subseteq Sends
      BY <1>1 DEF HubInv, HubTypeOK
    <3> QED BY <1>1, <3>1, FaultsFit DEF HubInv
  <2> QED BY <1>1, <1>2, <1>3, <1>5, <2>1, <2>2, <2>3 DEF HubInv, HubTypeOK
<1>7. WaitsFit'
  BY <1>1, <1>2, <1>3, <1>4 DEF HubInv, WaitsFit, Done
<1>8. FailsOnlyWhenLost'
  BY <1>1, <1>2, <1>3, <1>4 DEF HubInv, FailsOnlyWhenLost
<1>9. IdOf(s)' \notin Heard
  <2>1. asks[s] \in Int /\ asks'[s] = asks[s] + 1
    <3>1. asks[s] \in 1 .. MaxResubscribes + 1 /\ asks'[s] = asks[s] + 1
      BY <1>1 DEF HubInv, HubTypeOK
    <3> QED BY <3>1
  <2>2. IdOf(s)'[1] = s /\ IdOf(s)'[2] = asks'[s]
    BY DEF IdOf
  <2>3. \A id \in Heard : id[2] <= asks[id[1]]
    BY DEF HubInv, AskedFor
  <2> QED BY <2>1, <2>2, <2>3
<1> QED BY <1>1, <1>2, <1>3, <1>4, <1>5, <1>6, <1>7, <1>8, <1>9, TabKeepsInv DEF serverVars

LEMMA StopsWaitingKeepsInv ==
  ASSUME HubInv, NEW s \in Sends, StopsWaiting(s)
  PROVE  HubInv'
<1>1. /\ tab[s] \in {"accepted", "waiting", "retrying"} /\ tab' = [tab EXCEPT ![s] = "stopped"]
      /\ wanted' = [wanted EXCEPT ![s] = "none"] /\ Reconcile(wanted')
      /\ UNCHANGED <<asks, patch, slept, faults>> /\ UNCHANGED serverVars
  BY DEF StopsWaiting, Wants, tabVars
<1>2. UNCHANGED <<answer, hub, held, watching, died>>
  BY <1>1 DEF serverVars
<1>3. /\ wanted' \in [Sends -> {"none", "pending", "open"}]
      /\ \A t \in Sends : t # s => /\ tab'[t] = tab[t] /\ asks'[t] = asks[t]
                                   /\ wanted'[t] = wanted[t]
  BY <1>1 DEF HubInv, HubTypeOK
<1>4. tab'[s] = "stopped" /\ wanted'[s] = "none" /\ tab[s] # "idle"
  BY <1>1 DEF HubInv, HubTypeOK, WaitsFit
<1>5. asks' \in [Sends -> 1 .. MaxResubscribes + 1] /\ asks'[s] >= asks[s]
  <2>1. asks[s] \in 1 .. MaxResubscribes + 1 /\ asks \in [Sends -> 1 .. MaxResubscribes + 1]
    BY DEF HubInv, HubTypeOK
  <2> QED BY <1>1, <2>1, HubAssumption DEF HubInv, WaitsFit
<1>6. HubTypeOK'
  <2>1. /\ worker' \in [ stream : {"none", "connecting", "up", "broken", "timer"}, hub : Nat,
                         known : SUBSET Ids, retry : BOOLEAN ]
        /\ pipe' \in [hub : Nat, greets : BOOLEAN, over : SUBSET Ids]
    BY <1>1, <1>2, ReconcileFacts
  <2>2. tab' \in [Sends -> {"idle", "accepted", "waiting", "retrying"} \cup Done]
    BY <1>1 DEF HubInv, HubTypeOK, Done
  <2>3. slept' \subseteq Sends /\ faults' \in 0 .. MaxFaults
    <3>1. slept' \subseteq Sends
      BY <1>1 DEF HubInv, HubTypeOK
    <3> QED BY <1>1, <3>1, FaultsFit DEF HubInv
  <2> QED BY <1>1, <1>2, <1>3, <1>5, <2>1, <2>2, <2>3 DEF HubInv, HubTypeOK
<1>7. WaitsFit'
  BY <1>1, <1>2, <1>3, <1>4 DEF HubInv, WaitsFit, Done
<1>8. FailsOnlyWhenLost'
  BY <1>1, <1>2, <1>3, <1>4 DEF HubInv, FailsOnlyWhenLost
<1>9. ~Awake(s)'
  BY <1>1, <1>4 DEF HubInv, WaitsFit, Awake
<1> QED BY <1>1, <1>2, <1>3, <1>4, <1>5, <1>6, <1>7, <1>8, <1>9, TabKeepsInv DEF serverVars

LEMMA NapsKeepsInv ==
  ASSUME HubInv, NEW s \in Sends, Naps(s)
  PROVE  HubInv'
<1>1. /\ Fault /\ wanted[s] # "none" /\ slept' = slept \cup {s}
      /\ wanted' = [wanted EXCEPT ![s] = "none"] /\ Reconcile(wanted')
      /\ UNCHANGED <<tab, asks, patch>> /\ UNCHANGED serverVars
  BY DEF Naps, Wants, tabVars
<1>2. UNCHANGED <<answer, hub, held, watching, died>>
  BY <1>1 DEF serverVars
<1>3. /\ wanted' \in [Sends -> {"none", "pending", "open"}]
      /\ \A t \in Sends : t # s => /\ tab'[t] = tab[t] /\ asks'[t] = asks[t]
                                   /\ wanted'[t] = wanted[t]
  BY <1>1 DEF HubInv, HubTypeOK
<1>4. tab[s] = "waiting" /\ tab'[s] = "waiting" /\ wanted'[s] = "none" /\ s \in slept'
  BY <1>1 DEF HubInv, HubTypeOK, WaitsFit
<1>5. asks' \in [Sends -> 1 .. MaxResubscribes + 1] /\ asks'[s] >= asks[s]
  <2>1. asks[s] \in 1 .. MaxResubscribes + 1 /\ asks \in [Sends -> 1 .. MaxResubscribes + 1]
    BY DEF HubInv, HubTypeOK
  <2> QED BY <1>1, <2>1, HubAssumption DEF HubInv, WaitsFit
<1>6. HubTypeOK'
  <2>1. /\ worker' \in [ stream : {"none", "connecting", "up", "broken", "timer"}, hub : Nat,
                         known : SUBSET Ids, retry : BOOLEAN ]
        /\ pipe' \in [hub : Nat, greets : BOOLEAN, over : SUBSET Ids]
    BY <1>1, <1>2, ReconcileFacts
  <2>2. tab' \in [Sends -> {"idle", "accepted", "waiting", "retrying"} \cup Done]
    BY <1>1 DEF HubInv, HubTypeOK, Done
  <2>3. slept' \subseteq Sends /\ faults' \in 0 .. MaxFaults
    <3>1. slept' \subseteq Sends
      BY <1>1 DEF HubInv, HubTypeOK
    <3> QED BY <1>1, <3>1, FaultsFit DEF HubInv
  <2> QED BY <1>1, <1>2, <1>3, <1>5, <2>1, <2>2, <2>3 DEF HubInv, HubTypeOK
<1>7. WaitsFit'
  BY <1>1, <1>2, <1>3, <1>4 DEF HubInv, WaitsFit, Done
<1>8. FailsOnlyWhenLost'
  BY <1>1, <1>2, <1>3, <1>4 DEF HubInv, FailsOnlyWhenLost
<1>9. ~Awake(s)'
  BY <1>1, <1>4 DEF HubInv, WaitsFit, Awake
<1> QED BY <1>1, <1>2, <1>3, <1>4, <1>5, <1>6, <1>7, <1>8, <1>9, TabKeepsInv DEF serverVars

\* Only a tab that slept speaks again.
LEMMA SpeaksAgainKeepsInv ==
  ASSUME HubInv, NEW s \in Sends, SpeaksAgain(s)
  PROVE  HubInv'
<1>1. /\ tab[s] = "waiting" /\ wanted[s] = "none"
      /\ wanted' = [wanted EXCEPT ![s] = "pending"] /\ Reconcile(wanted')
      /\ UNCHANGED <<tab, asks, patch, slept, faults>> /\ UNCHANGED serverVars
  BY DEF SpeaksAgain, Wants, tabVars
<1>2. UNCHANGED <<answer, hub, held, watching, died>>
  BY <1>1 DEF serverVars
<1>3. /\ wanted' \in [Sends -> {"none", "pending", "open"}]
      /\ \A t \in Sends : t # s => /\ tab'[t] = tab[t] /\ asks'[t] = asks[t]
                                   /\ wanted'[t] = wanted[t]
  BY <1>1 DEF HubInv, HubTypeOK
<1>4. tab'[s] = "waiting" /\ wanted'[s] = "pending" /\ s \in slept'
  BY <1>1 DEF HubInv, HubTypeOK, WaitsFit
<1>5. asks' \in [Sends -> 1 .. MaxResubscribes + 1] /\ asks'[s] >= asks[s]
  <2>1. asks[s] \in 1 .. MaxResubscribes + 1 /\ asks \in [Sends -> 1 .. MaxResubscribes + 1]
    BY DEF HubInv, HubTypeOK
  <2> QED BY <1>1, <2>1, HubAssumption DEF HubInv, WaitsFit
<1>6. HubTypeOK'
  <2>1. /\ worker' \in [ stream : {"none", "connecting", "up", "broken", "timer"}, hub : Nat,
                         known : SUBSET Ids, retry : BOOLEAN ]
        /\ pipe' \in [hub : Nat, greets : BOOLEAN, over : SUBSET Ids]
    BY <1>1, <1>2, ReconcileFacts
  <2>2. tab' \in [Sends -> {"idle", "accepted", "waiting", "retrying"} \cup Done]
    BY <1>1 DEF HubInv, HubTypeOK, Done
  <2>3. slept' \subseteq Sends /\ faults' \in 0 .. MaxFaults
    <3>1. slept' \subseteq Sends
      BY <1>1 DEF HubInv, HubTypeOK
    <3> QED BY <1>1, <3>1, FaultsFit DEF HubInv
  <2> QED BY <1>1, <1>2, <1>3, <1>5, <2>1, <2>2, <2>3 DEF HubInv, HubTypeOK
<1>7. WaitsFit'
  BY <1>1, <1>2, <1>3, <1>4 DEF HubInv, WaitsFit, Done
<1>8. FailsOnlyWhenLost'
  BY <1>1, <1>2, <1>3, <1>4 DEF HubInv, FailsOnlyWhenLost
<1>9. ~Awake(s)'
  BY <1>1, <1>4 DEF HubInv, WaitsFit, Awake
<1> QED BY <1>1, <1>2, <1>3, <1>4, <1>5, <1>6, <1>7, <1>8, <1>9, TabKeepsInv DEF serverVars

-----------------------------------------------------------------------------
(* The worker.                                                              *)

\* A step that tells the worker nothing new, and adds nothing to a change under way.
LEMMA QuietKeepsInv ==
  ASSUME HubInv, HubTypeOK', StreamFits', UNCHANGED <<tab, asks, slept>>, UNCHANGED serverVars,
         \A s \in Sends : wanted'[s] = wanted[s] \/ (wanted[s] = "open" /\ wanted'[s] = "pending"),
         worker'.known \subseteq worker.known,
         worker'.stream = "up" => worker.stream = "up" /\ pipe'.over = pipe.over,
         \/ patch' = patch
         \/ patch' = NoPatch
         \/ patch.place # "none" /\ \E place \in {"queued", "hub unknown", "lost"} :
                                      patch' = [patch EXCEPT !.place = place]
  PROVE  HubInv'
<1>1. UNCHANGED <<answer, hub, held, watching, died>>
  BY DEF serverVars
<1>2. \A s \in Sends : (Awake(s)' <=> Awake(s)) /\ IdOf(s)' = IdOf(s)
  BY IdsStay DEF Awake
<1>3. WaitsFit' /\ FailsOnlyWhenLost'
  <2>1. \A s \in Sends : wanted'[s] = "none" <=> wanted[s] = "none"
    OBVIOUS
  <2>2. WaitsFit'
    BY <1>1, <2>1 DEF HubInv, WaitsFit
  <2>3. FailsOnlyWhenLost'
    BY <1>1 DEF HubInv, FailsOnlyWhenLost
  <2> QED BY <2>2, <2>3
<1>4. /\ patch'.add \subseteq patch.add /\ patch'.remove \subseteq patch.remove
      /\ patch'.added \subseteq patch.added
      /\ patch'.place = "none" => patch' = NoPatch
      /\ patch'.place # "none" => patch'.hub = patch.hub /\ patch.place # "none"
      /\ patch'.place = "answered" => patch.place = "answered"
  <2>1. CASE patch' = patch
    BY <2>1 DEF HubInv, PatchFits
  <2>2. CASE patch' = NoPatch
    BY <2>2 DEF NoPatch
  <2>3. CASE patch.place # "none" /\ \E place \in {"queued", "hub unknown", "lost"} :
                                       patch' = [patch EXCEPT !.place = place]
    BY <2>3 DEF HubInv, HubTypeOK
  <2> QED BY <2>1, <2>2, <2>3
<1>5. Heard' \subseteq Heard
  BY <1>1, <1>4 DEF Heard
<1>6. AskedFor'
  <2> SUFFICES ASSUME NEW id \in Heard'
               PROVE  /\ id[2] <= asks[id[1]]
                      /\ tab[id[1]] \in {"idle", "accepted"} => id # IdOf(id[1])
    BY <1>2, HeardAreIds DEF AskedFor, IdOf
  <2> QED BY <1>5 DEF HubInv, AskedFor
<1>7. PatchFits'
  <2>1. \A s \in Sends : Awake(s) => IdOf(s) \notin patch'.remove
    BY <1>4 DEF HubInv, PatchFits
  <2>2. patch'.place = "answered" /\ patch'.hub = hub =>
          \A s \in Sends : Awake(s) /\ IdOf(s) \in patch'.added => IdOf(s) \in held
    BY <1>4 DEF HubInv, PatchFits
  <2>3. patch'.place # "none" => patch'.hub # NoHub
    BY <1>4 DEF HubInv, PatchFits
  <2> QED BY <1>1, <1>2, <1>4, <2>1, <2>2, <2>3 DEF PatchFits
<1>8. HeldServes'
  <2> SUFFICES ASSUME worker'.stream = "up", NEW s \in Sends, Awake(s)
               PROVE  /\ IdOf(s) \in worker.known => IdOf(s) \in held
                      /\ IdOf(s) \in held => \/ answer[s] = "running" /\ IdOf(s) \in watching
                                             \/ answer[s] = "ended" /\ IdOf(s) \in pipe.over
    BY <1>1, <1>2 DEF HeldServes
  <2> QED BY DEF HubInv, HeldServes
<1> QED BY <1>3, <1>6, <1>7, <1>8 DEF HubInv

LEMMA GreetingKeepsInv ==
  ASSUME HubInv, GreetingArrives
  PROVE  HubInv'
<1>1. /\ worker.stream = "up" /\ pipe.greets /\ pipe' = [pipe EXCEPT !.greets = FALSE]
      /\ worker' = [worker EXCEPT !.hub = pipe.hub, !.retry = FALSE]
      /\ UNCHANGED <<tab, asks, wanted, patch, slept, faults>> /\ UNCHANGED serverVars
  BY DEF GreetingArrives, tabVars
<1>2. UNCHANGED <<answer, hub, held, watching, died>>
  BY <1>1 DEF serverVars
<1>3. /\ worker'.stream = "up" /\ worker'.hub = pipe.hub /\ worker'.known = worker.known
      /\ ~pipe'.greets /\ pipe'.hub = pipe.hub /\ pipe'.over = pipe.over
  BY <1>1 DEF HubInv, HubTypeOK
<1>4. HubTypeOK'
  BY <1>1, <1>2 DEF HubInv, HubTypeOK
<1>5. StreamFits'
  BY <1>1, <1>2, <1>3 DEF HubInv, StreamFits
<1> QED BY <1>1, <1>3, <1>4, <1>5, QuietKeepsInv

\* What loseHub leaves.
LEMMA LosesHubFacts ==
  ASSUME HubInv, NEW stream \in {"connecting", "timer"}, LosesHub(stream), hub' = hub
  PROVE  /\ worker' \in [ stream : {"none", "connecting", "up", "broken", "timer"}, hub : Nat,
                          known : SUBSET Ids, retry : BOOLEAN ]
         /\ wanted' \in [Sends -> {"none", "pending", "open"}]
         /\ \A s \in Sends :
              wanted'[s] = wanted[s] \/ (wanted[s] = "open" /\ wanted'[s] = "pending")
         /\ StreamFits' /\ worker'.known = {} /\ worker'.stream # "up"
<1>1. /\ worker'.stream = stream /\ worker'.hub = NoHub /\ worker'.known = {}
      /\ worker' \in [ stream : {"none", "connecting", "up", "broken", "timer"}, hub : Nat,
                       known : SUBSET Ids, retry : BOOLEAN ]
  BY DEF LosesHub, IdleWorker, NoHub
<1>2. /\ wanted' \in [Sends -> {"none", "pending", "open"}]
      /\ \A s \in Sends :
           wanted'[s] = wanted[s] \/ (wanted[s] = "open" /\ wanted'[s] = "pending")
  BY DEF LosesHub, HubInv, HubTypeOK
<1>3. StreamFits'
  BY <1>1 DEF StreamFits
<1> QED BY <1>1, <1>2, <1>3

LEMMA RefusalKeepsInv ==
  ASSUME HubInv, RefusalArrives
  PROVE  HubInv'
<1>1. /\ patch.place = "hub unknown" /\ patch' = NoPatch
      /\ UNCHANGED <<tab, asks, slept, faults>> /\ UNCHANGED serverVars
      /\ \/ LosesHub("timer") /\ pipe' = DryPipe
         \/ UNCHANGED <<wanted, worker, pipe>>
  BY DEF RefusalArrives, tabVars
<1>2. UNCHANGED <<answer, hub, held, watching, died>>
  BY <1>1 DEF serverVars
<1>3. patch' \in [ place : {"none", "sent", "queued", "answered", "hub unknown", "lost"},
                   hub : Nat, add : SUBSET Ids, remove : SUBSET Ids, added : SUBSET Ids,
                   refused : SUBSET Ids ]
  BY <1>1 DEF NoPatch, NoHub
<1>4. CASE LosesHub("timer") /\ pipe' = DryPipe
  <2>1. pipe' \in [hub : Nat, greets : BOOLEAN, over : SUBSET Ids]
    BY <1>4 DEF DryPipe, NoHub
  <2>2. HubTypeOK'
    BY <1>1, <1>2, <1>3, <1>4, <2>1, LosesHubFacts DEF HubInv, HubTypeOK
  <2> QED BY <1>1, <1>2, <1>4, <2>2, LosesHubFacts, QuietKeepsInv
<1>5. CASE UNCHANGED <<wanted, worker, pipe>>
  <2>1. HubTypeOK' /\ StreamFits'
    BY <1>1, <1>2, <1>3, <1>5 DEF HubInv, HubTypeOK, StreamFits
  <2> QED BY <1>1, <1>5, <2>1, QuietKeepsInv
<1> QED BY <1>1, <1>4, <1>5

LEMMA BreakIsSeenKeepsInv ==
  ASSUME HubInv, NEW stream \in {"connecting", "timer"}, BreakIsSeen(stream)
  PROVE  HubInv'
<1>1. /\ LosesHub(stream)
      /\ UNCHANGED <<tab, asks, pipe, patch, slept, faults>> /\ UNCHANGED serverVars
  BY DEF BreakIsSeen, tabVars
<1>2. UNCHANGED <<answer, hub, held, watching, died>>
  BY <1>1 DEF serverVars
<1>3. HubTypeOK'
  BY <1>1, <1>2, LosesHubFacts DEF HubInv, HubTypeOK
<1> QED BY <1>1, <1>2, <1>3, LosesHubFacts, QuietKeepsInv

\* The worker's retries, and its timer.
LEMMA RetriesKeepInv ==
  ASSUME HubInv, LossIsSeen \/ RetryFires \/ ReopenFires
  PROVE  HubInv'
<1>1. /\ \/ worker' = worker
         \/ \E retry \in BOOLEAN : worker' = [worker EXCEPT !.retry = retry]
         \/ worker.stream = "timer" /\ worker' = [worker EXCEPT !.stream = "connecting"]
      /\ patch' = patch \/ patch' = NoPatch
      /\ UNCHANGED <<tab, asks, wanted, pipe, slept, faults>> /\ UNCHANGED serverVars
  BY DEF LossIsSeen, RetryFires, ReopenFires, tabVars
<1>2. UNCHANGED <<answer, hub, held, watching, died>>
  BY <1>1 DEF serverVars
<1>3. /\ worker' \in [ stream : {"none", "connecting", "up", "broken", "timer"}, hub : Nat,
                       known : SUBSET Ids, retry : BOOLEAN ]
      /\ worker'.hub = worker.hub /\ worker'.known = worker.known
      /\ worker'.stream = worker.stream
         \/ (worker.stream = "timer" /\ worker'.stream = "connecting")
  BY <1>1 DEF HubInv, HubTypeOK
<1>4. patch' \in [ place : {"none", "sent", "queued", "answered", "hub unknown", "lost"},
                   hub : Nat, add : SUBSET Ids, remove : SUBSET Ids, added : SUBSET Ids,
                   refused : SUBSET Ids ]
  <2>1. CASE patch' = NoPatch
    BY <2>1 DEF NoPatch, NoHub
  <2>2. CASE patch' = patch
    BY <2>2 DEF HubInv, HubTypeOK
  <2> QED BY <1>1, <2>1, <2>2
<1>5. HubTypeOK'
  BY <1>1, <1>2, <1>3, <1>4 DEF HubInv, HubTypeOK
<1>6. StreamFits'
  BY <1>1, <1>2, <1>3 DEF HubInv, StreamFits
<1> QED BY <1>1, <1>3, <1>5, <1>6, QuietKeepsInv

\* A change is sent: it takes away only what nobody wants.
LEMMA SyncsKeepsInv ==
  ASSUME HubInv, Syncs
  PROVE  HubInv'
<1>1. /\ worker.hub # NoHub
      /\ patch' = [NoPatch EXCEPT !.place = "sent", !.hub = worker.hub,
                                  !.add = ToAdd, !.remove = ToRemove]
      /\ UNCHANGED <<tab, asks, wanted, worker, pipe, slept, faults>> /\ UNCHANGED serverVars
  BY DEF Syncs, MustSync, tabVars
<1>2. UNCHANGED <<answer, hub, held, watching, died>>
  BY <1>1 DEF serverVars
<1>3. ToAdd \subseteq Ids /\ ToRemove \subseteq Ids
  <2>1. \A s \in Sends : IdOf(s) \in Ids
    BY IdFacts DEF HubInv
  <2>2. worker.known \subseteq Ids
    BY DEF HubInv, HubTypeOK
  <2> QED BY <2>1, <2>2 DEF ToAdd, ToRemove
<1>4. /\ patch'.place = "sent" /\ patch'.hub = worker.hub /\ patch'.add = ToAdd
      /\ patch'.remove = ToRemove /\ patch'.added = {}
      /\ patch' \in [ place : {"none", "sent", "queued", "answered", "hub unknown", "lost"},
                      hub : Nat, add : SUBSET Ids, remove : SUBSET Ids, added : SUBSET Ids,
                      refused : SUBSET Ids ]
  <2>1. patch' = [place |-> "sent", hub |-> worker.hub, add |-> ToAdd, remove |-> ToRemove,
                  added |-> {}, refused |-> {}]
    BY <1>1 DEF NoPatch
  <2>2. worker.hub \in Nat
    BY DEF HubInv, HubTypeOK
  <2> QED BY <1>3, <2>1, <2>2
<1>5. HubTypeOK'
  BY <1>1, <1>2, <1>4 DEF HubInv, HubTypeOK
<1>6. WaitsFit' /\ FailsOnlyWhenLost' /\ StreamFits' /\ HeldServes'
  <2>1. \A s : IdOf(s)' = IdOf(s) /\ Awake(s)' = Awake(s)
    BY <1>1, IdsStay DEF Awake
  <2>2. WaitsFit' /\ FailsOnlyWhenLost'
    BY <1>1, <1>2 DEF HubInv, WaitsFit, FailsOnlyWhenLost
  <2>3. StreamFits'
    BY <1>1, <1>2 DEF HubInv, StreamFits
  <2>4. HeldServes'
    BY <1>1, <1>2, <2>1 DEF HubInv, HeldServes
  <2> QED BY <2>2, <2>3, <2>4
<1>7. AskedFor'
  <2> SUFFICES ASSUME NEW id \in Heard'
               PROVE  /\ id[2] <= asks[id[1]]
                      /\ tab[id[1]] \in {"idle", "accepted"} => id # IdOf(id[1])
    BY <1>1, IdsStay DEF AskedFor
  <2>1. CASE id \in Heard
    BY <2>1 DEF HubInv, AskedFor
  <2>2. CASE id \notin Heard
    <3>1. id \in ToAdd
      BY <1>1, <1>2, <1>4, <2>2 DEF Heard, ToRemove
    <3>2. PICK s \in Sends : wanted[s] = "pending" /\ id = IdOf(s)
      BY <3>1 DEF ToAdd
    <3>3. id[1] = s /\ id[2] = asks[s] /\ tab[s] = "waiting" /\ asks[s] \in Int
      <4>1. asks[s] \in 1 .. MaxResubscribes + 1
        BY DEF HubInv, HubTypeOK
      <4> QED BY <3>2, <4>1, IdFacts DEF HubInv, WaitsFit
    <3> QED BY <3>3
  <2> QED BY <2>1, <2>2
<1>8. PatchFits'
  <2>1. \A s \in Sends : Awake(s) => IdOf(s) \notin ToRemove
    BY DEF Awake, ToRemove
  <2> QED BY ZenonT(60), <1>1, <1>4, <2>1, IdsStay DEF PatchFits, Awake
<1> QED BY <1>5, <1>6, <1>7, <1>8 DEF HubInv

\* turn_over is for the wait that wants it, or for nobody.
LEMMA OverKeepsInv ==
  ASSUME HubInv, NEW id \in pipe.over, OverArrives(id)
  PROVE  HubInv'
<1>0. PICK s \in Sends : s = id[1]
  BY DEF HubInv, HubTypeOK, Ids
<1>1. UNCHANGED <<asks, patch, slept, faults, answer, hub, held, watching, died>>
  BY DEF OverArrives, serverVars
<1>2. \A t : IdOf(t)' = IdOf(t)
  BY <1>1, IdsStay
<1>3. \/ worker' = IdleWorker /\ pipe' = DryPipe
      \/ worker' = worker /\ pipe' = [pipe EXCEPT !.over = @ \ {id}]
  BY DEF OverArrives
<1>4. \/ /\ wanted[s] # "none"
         /\ tab' = [tab EXCEPT ![s] = "answered"] /\ wanted' = [wanted EXCEPT ![s] = "none"]
      \/ /\ wanted[s] = "none" \/ id # IdOf(s)
         /\ UNCHANGED <<tab, wanted>>
  BY <1>0 DEF OverArrives
<1>5. /\ worker' \in [ stream : {"none", "connecting", "up", "broken", "timer"}, hub : Nat,
                       known : SUBSET Ids, retry : BOOLEAN ]
      /\ pipe' \in [hub : Nat, greets : BOOLEAN, over : SUBSET Ids]
      /\ worker'.known \subseteq worker.known
      /\ worker'.stream = "up" => worker' = worker /\ pipe'.over = pipe.over \ {id}
      /\ StreamFits'
  <2>1. CASE worker' = IdleWorker /\ pipe' = DryPipe
    BY <2>1 DEF IdleWorker, DryPipe, NoHub, StreamFits
  <2>2. CASE worker' = worker /\ pipe' = [pipe EXCEPT !.over = @ \ {id}]
    <3>1. pipe'.hub = pipe.hub /\ pipe'.greets = pipe.greets /\ pipe'.over = pipe.over \ {id}
      BY <2>2 DEF HubInv, HubTypeOK
    <3>2. pipe' \in [hub : Nat, greets : BOOLEAN, over : SUBSET Ids]
      BY <2>2 DEF HubInv, HubTypeOK
    <3> QED BY <1>1, <2>2, <3>1, <3>2 DEF HubInv, HubTypeOK, StreamFits
  <2> QED BY <1>3, <2>1, <2>2
<1>6. /\ \A t \in Sends : t # s => tab'[t] = tab[t] /\ wanted'[t] = wanted[t]
      /\ \/ tab'[s] = "answered" /\ wanted'[s] = "none" /\ tab[s] = "waiting"
         \/ tab'[s] = tab[s] /\ wanted'[s] = wanted[s]
            /\ (wanted[s] = "none" \/ id # IdOf(s))
      /\ tab' \in [Sends -> {"idle", "accepted", "waiting", "retrying"} \cup Done]
      /\ wanted' \in [Sends -> {"none", "pending", "open"}]
  BY ZenonT(60), <1>4 DEF HubInv, HubTypeOK, WaitsFit, Done
<1>7. HubTypeOK'
  BY <1>1, <1>5, <1>6 DEF HubInv, HubTypeOK
<1>8. WaitsFit' /\ FailsOnlyWhenLost'
  BY <1>1, <1>6 DEF HubInv, WaitsFit, FailsOnlyWhenLost, Done
<1>9. \A t \in Sends : Awake(t)' => Awake(t) /\ id # IdOf(t)
  <2> SUFFICES ASSUME NEW t \in Sends, Awake(t)' PROVE Awake(t) /\ id # IdOf(t)
    OBVIOUS
  <2>1. CASE t = s
    BY <1>1, <1>6, <2>1 DEF Awake
  <2>2. CASE t # s
    BY <1>0, <1>1, <1>6, <2>2, IdFacts DEF Awake, HubInv
  <2> QED BY <2>1, <2>2
<1>10. AskedFor'
  <2> SUFFICES ASSUME NEW i \in Heard'
               PROVE  /\ i[2] <= asks[i[1]]
                      /\ tab'[i[1]] \in {"idle", "accepted"} => i # IdOf(i[1])
    BY <1>1, <1>2 DEF AskedFor
  <2>1. i \in Heard /\ i[1] \in Sends
    BY <1>1, <1>5, HeardAreIds DEF Heard, HubInv
  <2>2. tab'[i[1]] \in {"idle", "accepted"} => tab[i[1]] \in {"idle", "accepted"}
    BY <1>6, <2>1
  <2> QED BY <2>1, <2>2 DEF HubInv, AskedFor
<1>11. PatchFits'
  BY <1>1, <1>2, <1>9 DEF HubInv, PatchFits
<1>12. HeldServes'
  <2> SUFFICES ASSUME worker'.stream = "up", NEW t \in Sends, Awake(t)'
               PROVE  /\ IdOf(t) \in worker.known => IdOf(t) \in held
                      /\ IdOf(t) \in held => \/ answer[t] = "running" /\ IdOf(t) \in watching
                                             \/ answer[t] = "ended" /\ IdOf(t) \in pipe'.over
    BY <1>1, <1>2, <1>5 DEF HeldServes
  <2>1. Awake(t) /\ id # IdOf(t) /\ worker.stream = "up" /\ pipe'.over = pipe.over \ {id}
    BY <1>5, <1>9
  <2> QED BY <2>1 DEF HubInv, HeldServes
<1> QED BY <1>5, <1>7, <1>8, <1>10, <1>11, <1>12 DEF HubInv

\* The answer to a change: what it took away nobody wants, and what it added is held.
LEMMA AnswerKeepsInv ==
  ASSUME HubInv, AnswerArrives
  PROVE  HubInv'
<1>1. /\ patch.place = "answered" /\ patch' = NoPatch
      /\ UNCHANGED <<asks, slept, faults>> /\ UNCHANGED serverVars
      /\ UNCHANGED <<answer, hub, held, watching, died>>
  BY DEF AnswerArrives, serverVars
<1>2. /\ \A s : IdOf(s)' = IdOf(s)
      /\ patch' \in [ place : {"none", "sent", "queued", "answered", "hub unknown", "lost"},
                      hub : Nat, add : SUBSET Ids, remove : SUBSET Ids, added : SUBSET Ids,
                      refused : SUBSET Ids ]
      /\ patch'.add = {} /\ patch'.remove = {} /\ patch'.added = {} /\ patch'.place = "none"
  BY <1>1, IdsStay DEF NoPatch, NoHub
<1>3. CASE ~StillConcerns
  <2>1. UNCHANGED <<tab, wanted, worker, pipe>>
    BY <1>3 DEF AnswerArrives
  <2>2. HubTypeOK' /\ StreamFits'
    BY <1>1, <1>2, <2>1 DEF HubInv, HubTypeOK, StreamFits
  <2> QED BY <1>1, <2>1, <2>2, QuietKeepsInv
<1>4. CASE StillConcerns
  <2>1. worker.hub = patch.hub /\ worker.hub # NoHub
    BY <1>1, <1>4 DEF StillConcerns, HubInv, PatchFits
  <2> DEFINE refused == {s \in Sends : wanted[s] = "pending" /\ IdOf(s) \in patch.refused}
  <2>2. /\ tab' = [s \in Sends |-> IF s \in refused THEN AfterRefusal(s) ELSE tab[s]]
        /\ wanted' = [s \in Sends |->
             IF s \in refused THEN "none"
             ELSE IF wanted[s] = "pending" /\ IdOf(s) \in patch.added THEN "open" ELSE wanted[s]]
    BY <1>4 DEF AnswerArrives
  <2>3. \/ worker' = IdleWorker /\ pipe' = DryPipe
        \/ /\ worker' = [worker EXCEPT !.known = (@ \ patch.remove) \cup patch.added]
           /\ pipe' = pipe
    BY <1>4, Zenon DEF AnswerArrives
  <2>4. \A s \in Sends :
          /\ s \in refused => /\ wanted[s] = "pending" /\ tab[s] = "waiting"
                              /\ tab'[s] = AfterRefusal(s) /\ wanted'[s] = "none"
          /\ s \notin refused => /\ tab'[s] = tab[s]
                                 /\ wanted'[s] = "none" <=> wanted[s] = "none"
                                 /\ wanted'[s] \in {"none", "pending", "open"}
    <3> SUFFICES ASSUME NEW s \in Sends
                 PROVE  /\ s \in refused => /\ wanted[s] = "pending" /\ tab[s] = "waiting"
                                            /\ tab'[s] = AfterRefusal(s) /\ wanted'[s] = "none"
                        /\ s \notin refused => /\ tab'[s] = tab[s]
                                               /\ wanted'[s] = "none" <=> wanted[s] = "none"
                                               /\ wanted'[s] \in {"none", "pending", "open"}
      OBVIOUS
    <3>1. wanted[s] \in {"none", "pending", "open"}
      BY DEF HubInv, HubTypeOK
    <3>2. CASE s \in refused
      BY <2>2, <3>2 DEF HubInv, WaitsFit
    <3>3. CASE s \notin refused
      BY <2>2, <3>1, <3>3
    <3> QED BY <3>2, <3>3
  <2>5. \A s \in Sends : asks[s] \in Int
    <3>1. \A s \in Sends : asks[s] \in 1 .. MaxResubscribes + 1
      BY DEF HubInv, HubTypeOK
    <3> QED BY <3>1
  <2>6. \A s \in refused :
          \/ tab'[s] = "failed" /\ (s \in died \/ asks[s] > MaxResubscribes)
          \/ tab'[s] = "retrying" /\ answer[s] # "unknown" /\ asks[s] <= MaxResubscribes
    <3> SUFFICES ASSUME NEW s \in refused
                 PROVE  \/ tab'[s] = "failed" /\ (s \in died \/ asks[s] > MaxResubscribes)
                        \/ /\ tab'[s] = "retrying" /\ answer[s] # "unknown"
                           /\ asks[s] <= MaxResubscribes
      OBVIOUS
    <3>1. s \in Sends /\ tab[s] = "waiting" /\ tab'[s] = AfterRefusal(s)
      BY <2>4
    <3>2. answer[s] = "unknown" => s \in died
      BY <3>1 DEF HubInv, WaitsFit, Done
    <3> QED BY <2>5, <3>1, <3>2, HubAssumption DEF AfterRefusal
  <2>7. /\ tab' \in [Sends -> {"idle", "accepted", "waiting", "retrying"} \cup Done]
        /\ wanted' \in [Sends -> {"none", "pending", "open"}]
    <3>1. /\ tab' = [s \in Sends |-> tab'[s]] /\ wanted' = [s \in Sends |-> wanted'[s]]
      BY <2>2
    <3>2. \A s \in Sends : /\ tab'[s] \in {"idle", "accepted", "waiting", "retrying"} \cup Done
                           /\ wanted'[s] \in {"none", "pending", "open"}
      <4>1. \A s \in Sends : tab[s] \in {"idle", "accepted", "waiting", "retrying"} \cup Done
        BY DEF HubInv, HubTypeOK
      <4> QED BY <2>4, <2>6, <4>1 DEF Done
    <3> HIDE DEF refused
    <3> QED BY <3>1, <3>2
  <2>8. WaitsFit'
    <3> SUFFICES ASSUME NEW s \in Sends
                 PROVE  /\ tab'[s] = "idle" <=> answer[s] = "none"
                        /\ wanted'[s] # "none" => tab'[s] = "waiting"
                        /\ s \notin slept /\ tab'[s] = "waiting" => wanted'[s] # "none"
                        /\ answer[s] = "unknown" => s \in died \/ tab'[s] \in Done
                        /\ tab'[s] = "retrying" => asks[s] <= MaxResubscribes
      BY <1>1 DEF WaitsFit
    <3>1. CASE s \in refused
      BY <2>4, <2>6, <3>1 DEF HubInv, WaitsFit, Done
    <3>2. CASE s \notin refused
      BY <2>4, <3>2 DEF HubInv, WaitsFit
    <3> QED BY <3>1, <3>2
  <2>9. FailsOnlyWhenLost'
    <3> SUFFICES ASSUME NEW s \in Sends, tab'[s] = "failed"
                 PROVE  s \in died \/ asks[s] > MaxResubscribes
      BY <1>1 DEF FailsOnlyWhenLost
    <3>1. CASE s \in refused
      BY <2>6, <3>1
    <3>2. CASE s \notin refused
      BY <2>4, <3>2 DEF HubInv, FailsOnlyWhenLost
    <3> QED BY <3>1, <3>2
  <2>10. \A s \in Sends : Awake(s)' => Awake(s)
    <3> SUFFICES ASSUME NEW s \in Sends, s \notin slept, wanted'[s] # "none"
                 PROVE  wanted[s] # "none"
      BY <1>1 DEF Awake
    <3> QED BY <2>4
  <2>11. /\ worker' \in [ stream : {"none", "connecting", "up", "broken", "timer"}, hub : Nat,
                          known : SUBSET Ids, retry : BOOLEAN ]
         /\ pipe' \in [hub : Nat, greets : BOOLEAN, over : SUBSET Ids]
         /\ worker'.known \subseteq worker.known \cup patch.added
         /\ worker'.stream = "up" => worker.stream = "up" /\ pipe' = pipe
         /\ StreamFits'
    <3>1. CASE worker' = IdleWorker /\ pipe' = DryPipe
      BY <3>1 DEF IdleWorker, DryPipe, NoHub, StreamFits
    <3>2. CASE /\ worker' = [worker EXCEPT !.known = (@ \ patch.remove) \cup patch.added]
               /\ pipe' = pipe
      <4>1. /\ worker'.stream = worker.stream /\ worker'.hub = worker.hub
            /\ worker'.known = (worker.known \ patch.remove) \cup patch.added
            /\ worker'.retry = worker.retry
        BY <3>2 DEF HubInv, HubTypeOK
      <4>2. worker' \in [ stream : {"none", "connecting", "up", "broken", "timer"}, hub : Nat,
                          known : SUBSET Ids, retry : BOOLEAN ]
        BY <3>2 DEF HubInv, HubTypeOK
      <4>3. StreamFits'
        BY <1>1, <2>1, <3>2, <4>1 DEF HubInv, StreamFits
      <4> QED BY <3>2, <4>1, <4>2, <4>3 DEF HubInv, HubTypeOK
    <3> QED BY <2>3, <3>1, <3>2
  <2>12. HubTypeOK'
    BY <1>1, <1>2, <2>7, <2>11 DEF HubInv, HubTypeOK
  <2>13. AskedFor'
    <3> SUFFICES ASSUME NEW id \in Heard'
                 PROVE  /\ id[2] <= asks[id[1]]
                        /\ tab'[id[1]] \in {"idle", "accepted"} => id # IdOf(id[1])
      BY <1>1, <1>2 DEF AskedFor
    <3>1. id \in Heard
      BY <1>1, <1>2, <2>11 DEF Heard
    <3>2. id[1] \in Sends
      BY <3>1, HeardAreIds DEF HubInv
    <3>3. tab'[id[1]] \in {"idle", "accepted"} => tab[id[1]] \in {"idle", "accepted"}
      BY <2>4, <2>6, <3>2
    <3> QED BY <3>1, <3>3 DEF HubInv, AskedFor
  <2>14. PatchFits'
    BY <1>1, <1>2 DEF PatchFits
  <2>15. HeldServes'
    <3> SUFFICES ASSUME worker'.stream = "up", NEW s \in Sends, Awake(s)'
                 PROVE  /\ IdOf(s) \in worker'.known => IdOf(s) \in held
                        /\ IdOf(s) \in held => \/ answer[s] = "running" /\ IdOf(s) \in watching
                                               \/ answer[s] = "ended" /\ IdOf(s) \in pipe.over
      BY <1>1, <1>2, <2>11 DEF HeldServes
    <3>1. worker.stream = "up" /\ patch.hub = hub /\ Awake(s)
      BY <2>1, <2>10, <2>11 DEF HubInv, StreamFits
    <3>2. IdOf(s) \in worker'.known => IdOf(s) \in held
      BY <1>1, <2>11, <3>1 DEF HubInv, HeldServes, PatchFits
    <3> QED BY <3>1, <3>2 DEF HubInv, HeldServes
  <2> QED BY <2>8, <2>9, <2>11, <2>12, <2>13, <2>14, <2>15 DEF HubInv
<1> QED BY <1>3, <1>4

-----------------------------------------------------------------------------
(* The server and the faults.                                               *)

\* A change that is looked up, or lost.
LEMMA PatchMovesKeepInv ==
  ASSUME HubInv, PatchComes \/ PatchIsLost
  PROVE  HubInv'
<1>1. /\ patch.place # "none"
      /\ \E place \in {"queued", "hub unknown", "lost"} : patch' = [patch EXCEPT !.place = place]
      /\ faults' = faults \/ Fault
      /\ UNCHANGED <<tab, asks, wanted, worker, pipe, slept>> /\ UNCHANGED serverVars
  BY DEF PatchComes, PatchIsLost, tabVars
<1>2. UNCHANGED <<answer, hub, held, watching, died>>
  BY <1>1 DEF serverVars
<1>3. patch' \in [ place : {"none", "sent", "queued", "answered", "hub unknown", "lost"},
                   hub : Nat, add : SUBSET Ids, remove : SUBSET Ids, added : SUBSET Ids,
                   refused : SUBSET Ids ]
  BY <1>1 DEF HubInv, HubTypeOK
<1>4. faults' \in 0 .. MaxFaults
  BY <1>1, FaultsFit DEF HubInv
<1>5. HubTypeOK' /\ StreamFits'
  BY <1>1, <1>2, <1>3, <1>4 DEF HubInv, HubTypeOK, StreamFits
<1> QED BY <1>1, <1>5, QuietKeepsInv

LEMMA StreamBreaksKeepsInv ==
  ASSUME HubInv, StreamBreaks
  PROVE  HubInv'
<1>1. /\ Fault /\ worker' = [worker EXCEPT !.stream = "broken"] /\ pipe' = DryPipe
      /\ UNCHANGED <<tab, asks, wanted, patch, slept>> /\ UNCHANGED serverVars
  BY DEF StreamBreaks, tabVars
<1>2. UNCHANGED <<answer, hub, held, watching, died>>
  BY <1>1 DEF serverVars
<1>3. /\ worker' \in [ stream : {"none", "connecting", "up", "broken", "timer"}, hub : Nat,
                       known : SUBSET Ids, retry : BOOLEAN ]
      /\ worker'.stream = "broken" /\ worker'.hub = worker.hub /\ worker'.known = worker.known
      /\ pipe' \in [hub : Nat, greets : BOOLEAN, over : SUBSET Ids]
  BY <1>1 DEF HubInv, HubTypeOK, DryPipe, NoHub
<1>4. faults' \in 0 .. MaxFaults
  BY <1>1, FaultsFit DEF HubInv
<1>5. HubTypeOK'
  BY <1>1, <1>2, <1>3, <1>4 DEF HubInv, HubTypeOK
<1>6. StreamFits'
  BY <1>1, <1>2, <1>3 DEF HubInv, StreamFits
<1> QED BY <1>1, <1>3, <1>5, <1>6, QuietKeepsInv

\* A hub that holds nothing: it opens, or closes, or goes with its server.
LEMMA EmptyHubKeepsInv ==
  ASSUME HubInv, HubTypeOK', StreamFits', WaitsFit', FailsOnlyWhenLost',
         UNCHANGED <<tab, asks, wanted, slept>>, held' = {},
         worker'.known \subseteq worker.known,
         worker'.stream = "up" => worker'.known = {},
         \/ patch' = patch /\ (patch.place # "none" => patch.hub # hub')
         \/ patch' = NoPatch
         \/ patch.place # "none" /\ patch' = [patch EXCEPT !.place = "lost"]
  PROVE  HubInv'
<1>1. \A s \in Sends : (Awake(s)' <=> Awake(s)) /\ IdOf(s)' = IdOf(s)
  BY IdsStay DEF Awake
<1>2. /\ patch'.add \subseteq patch.add /\ patch'.remove \subseteq patch.remove
      /\ patch'.added \subseteq patch.added
      /\ patch'.place = "none" => patch' = NoPatch
      /\ patch'.place # "none" => patch'.hub # NoHub
      /\ ~(patch'.place = "answered" /\ patch'.hub = hub')
  <2>1. CASE patch' = patch /\ (patch.place # "none" => patch.hub # hub')
    BY <2>1 DEF HubInv, PatchFits
  <2>2. CASE patch' = NoPatch
    BY <2>2 DEF NoPatch
  <2>3. CASE patch.place # "none" /\ patch' = [patch EXCEPT !.place = "lost"]
    BY <2>3 DEF HubInv, HubTypeOK, PatchFits
  <2> QED BY <2>1, <2>2, <2>3
<1>3. AskedFor'
  <2> SUFFICES ASSUME NEW id \in Heard'
               PROVE  /\ id[2] <= asks[id[1]]
                      /\ tab[id[1]] \in {"idle", "accepted"} => id # IdOf(id[1])
    BY <1>1, HeardAreIds DEF AskedFor, IdOf
  <2>1. id \in Heard
    BY <1>2 DEF Heard
  <2> QED BY <2>1 DEF HubInv, AskedFor
<1>4. PatchFits'
  <2>1. \A s \in Sends : Awake(s) => IdOf(s) \notin patch'.remove
    BY <1>2 DEF HubInv, PatchFits
  <2> QED BY <1>1, <1>2, <2>1 DEF PatchFits
<1>5. HeldServes'
  BY DEF HeldServes
<1> QED BY <1>3, <1>4, <1>5 DEF HubInv

LEMMA HubOpensKeepsInv ==
  ASSUME HubInv, HubOpens
  PROVE  HubInv'
<1>1. PICK h \in 1 .. 4 : /\ IsFresh(h) /\ hub' = h /\ held' = {} /\ watching' = {}
                          /\ pipe' = [hub |-> h, greets |-> TRUE, over |-> {}]
  BY DEF HubOpens
<1>2. /\ worker.stream = "connecting" /\ worker' = [worker EXCEPT !.stream = "up"]
      /\ UNCHANGED <<tab, asks, wanted, patch, answer, died, slept, faults>>
  BY DEF HubOpens, tabVars
<1>3. h \in Nat /\ h # NoHub /\ patch.hub # h
  BY <1>1 DEF IsFresh
<1>4. /\ worker'.stream = "up" /\ worker'.hub = NoHub /\ worker'.known = {}
      /\ worker' \in [ stream : {"none", "connecting", "up", "broken", "timer"}, hub : Nat,
                       known : SUBSET Ids, retry : BOOLEAN ]
  BY <1>2 DEF HubInv, HubTypeOK, StreamFits
<1>5. HubTypeOK'
  BY <1>1, <1>2, <1>3, <1>4 DEF HubInv, HubTypeOK
<1>6. StreamFits'
  BY <1>1, <1>3, <1>4 DEF StreamFits
<1>7. WaitsFit' /\ FailsOnlyWhenLost'
  BY <1>2 DEF HubInv, WaitsFit, FailsOnlyWhenLost
<1> QED BY <1>1, <1>2, <1>3, <1>4, <1>5, <1>6, <1>7, EmptyHubKeepsInv

LEMMA HubClosesKeepsInv ==
  ASSUME HubInv, HubCloses
  PROVE  HubInv'
<1>1. /\ hub # NoHub /\ (worker.stream = "up" => pipe.hub # hub)
      /\ hub' = NoHub /\ held' = {} /\ watching' = {}
      /\ UNCHANGED <<tab, asks, wanted, worker, pipe, patch, answer, died, slept, faults>>
  BY DEF HubCloses, tabVars
<1>2. worker.stream # "up"
  BY <1>1 DEF HubInv, StreamFits
<1>3. HubTypeOK'
  BY <1>1 DEF HubInv, HubTypeOK, NoHub
<1>4. StreamFits' /\ WaitsFit' /\ FailsOnlyWhenLost'
  <2>1. StreamFits'
    BY <1>1, <1>2 DEF HubInv, StreamFits
  <2> QED BY <1>1, <2>1 DEF HubInv, WaitsFit, FailsOnlyWhenLost
<1>5. patch.place # "none" => patch.hub # hub'
  BY <1>1 DEF HubInv, PatchFits
<1> QED BY <1>1, <1>2, <1>3, <1>4, <1>5, EmptyHubKeepsInv

LEMMA RestartKeepsInv ==
  ASSUME HubInv, ServerRestarts
  PROVE  HubInv'
<1>1. /\ Fault /\ hub' = NoHub /\ held' = {} /\ watching' = {} /\ pipe' = DryPipe
      /\ answer' = [s \in Sends |-> IF answer[s] = "none" THEN "none" ELSE "unknown"]
      /\ died' = died \cup {s \in Sends : tab[s] \in {"accepted", "waiting", "retrying"}}
      /\ worker' = worker \/ worker' = [worker EXCEPT !.stream = "broken"]
      /\ worker.stream = "up" => worker' = [worker EXCEPT !.stream = "broken"]
      /\ UNCHANGED <<tab, asks, wanted, slept>>
  BY DEF ServerRestarts, tabVars
<1>2. \/ patch' = NoPatch
      \/ patch.place # "none" /\ patch' = [patch EXCEPT !.place = "lost"]
  BY DEF ServerRestarts
<1>3. patch' \in [ place : {"none", "sent", "queued", "answered", "hub unknown", "lost"},
                   hub : Nat, add : SUBSET Ids, remove : SUBSET Ids, added : SUBSET Ids,
                   refused : SUBSET Ids ]
  <2>1. CASE patch' = NoPatch
    BY <2>1 DEF NoPatch, NoHub
  <2>2. CASE patch' = [patch EXCEPT !.place = "lost"]
    BY <2>2 DEF HubInv, HubTypeOK
  <2> QED BY <1>2, <2>1, <2>2
<1>4. /\ worker' \in [ stream : {"none", "connecting", "up", "broken", "timer"}, hub : Nat,
                       known : SUBSET Ids, retry : BOOLEAN ]
      /\ worker'.stream # "up" /\ worker'.hub = worker.hub /\ worker'.known = worker.known
      /\ worker'.stream = worker.stream \/ worker'.stream = "broken"
  <2>1. CASE worker' = [worker EXCEPT !.stream = "broken"]
    BY <2>1 DEF HubInv, HubTypeOK
  <2>2. CASE worker' = worker /\ worker.stream # "up"
    BY <2>2 DEF HubInv, HubTypeOK
  <2> QED BY <1>1, <2>1, <2>2
<1>5. /\ answer' \in [Sends -> {"none", "running", "ended", "unknown"}]
      /\ \A s \in Sends : answer'[s] = IF answer[s] = "none" THEN "none" ELSE "unknown"
      /\ died \subseteq died' /\ died' \subseteq Sends
      /\ \A s \in Sends : tab[s] \in {"accepted", "waiting", "retrying"} => s \in died'
  BY <1>1 DEF HubInv, HubTypeOK
<1>6. HubTypeOK'
  <2>1. faults' \in 0 .. MaxFaults
    BY <1>1, FaultsFit DEF HubInv
  <2>2. pipe' \in [hub : Nat, greets : BOOLEAN, over : SUBSET Ids]
    BY <1>1 DEF DryPipe, NoHub
  <2> QED BY <1>1, <1>3, <1>4, <1>5, <2>1, <2>2 DEF HubInv, HubTypeOK, NoHub
<1>7. StreamFits'
  BY <1>1, <1>4 DEF HubInv, StreamFits
<1>8. WaitsFit'
  <2> SUFFICES ASSUME NEW s \in Sends
               PROVE  /\ tab[s] = "idle" <=> answer'[s] = "none"
                      /\ wanted[s] # "none" => tab[s] = "waiting"
                      /\ s \notin slept /\ tab[s] = "waiting" => wanted[s] # "none"
                      /\ answer'[s] = "unknown" => s \in died' \/ tab[s] \in Done
                      /\ tab[s] = "retrying" => asks[s] <= MaxResubscribes
    BY <1>1 DEF WaitsFit
  <2>1. tab[s] \in {"idle", "accepted", "waiting", "retrying"} \cup Done
    BY DEF HubInv, HubTypeOK
  <2> QED BY <1>5, <2>1 DEF HubInv, WaitsFit
<1>9. FailsOnlyWhenLost'
  BY <1>1, <1>5 DEF HubInv, FailsOnlyWhenLost
<1> QED BY <1>1, <1>2, <1>4, <1>6, <1>7, <1>8, <1>9, EmptyHubKeepsInv

\* What the hub writes.
LEMMA WrittenFacts ==
  ASSUME HubInv, NEW ids, Written(ids), ids \subseteq Ids
  PROVE  /\ pipe' \in [hub : Nat, greets : BOOLEAN, over : SUBSET Ids]
         /\ pipe'.hub = pipe.hub /\ pipe'.greets = pipe.greets
         /\ worker.stream = "up" => pipe'.over = pipe.over \cup ids
<1>1. CASE pipe.hub = hub
  <2>1. pipe' = [pipe EXCEPT !.over = @ \cup ids]
    BY <1>1 DEF Written
  <2> QED BY <2>1 DEF HubInv, HubTypeOK
<1>2. CASE pipe.hub # hub
  <2>1. pipe' = pipe
    BY <1>2 DEF Written
  <2> QED BY <1>2, <2>1 DEF HubInv, HubTypeOK, StreamFits
<1> QED BY <1>1, <1>2

\* Every watcher hears of the end.
LEMMA SettlesKeepsInv ==
  ASSUME HubInv, NEW s \in Sends, Settles(s)
  PROVE  HubInv'
<1>1. /\ answer[s] = "running" /\ answer' = [answer EXCEPT ![s] = "ended"]
      /\ Written({id \in watching : id[1] = s})
      /\ watching' = {id \in watching : id[1] # s}
      /\ UNCHANGED <<tab, asks, wanted, worker, patch, hub, held, died, slept, faults>>
  BY DEF Settles, tabVars
<1>2. /\ pipe' \in [hub : Nat, greets : BOOLEAN, over : SUBSET Ids]
      /\ pipe'.hub = pipe.hub /\ pipe'.greets = pipe.greets
      /\ worker.stream = "up" => pipe'.over = pipe.over \cup {id \in watching : id[1] = s}
  <2>1. {id \in watching : id[1] = s} \subseteq Ids
    BY DEF HubInv, HubTypeOK
  <2> QED BY <1>1, <2>1, WrittenFacts
<1>3. HubTypeOK'
  BY <1>1, <1>2 DEF HubInv, HubTypeOK
<1>4. answer'[s] = "ended" /\ \A t \in Sends : t # s => answer'[t] = answer[t]
  BY <1>1 DEF HubInv, HubTypeOK
<1>5. WaitsFit' /\ FailsOnlyWhenLost' /\ StreamFits'
  <2>1. WaitsFit'
    BY <1>1, <1>4 DEF HubInv, WaitsFit
  <2> QED BY <1>1, <1>2, <2>1 DEF HubInv, FailsOnlyWhenLost, StreamFits
<1>6. /\ \A t : IdOf(t)' = IdOf(t) /\ Awake(t)' = Awake(t)
      /\ Heard' = Heard
  BY <1>1, IdsStay DEF Awake, Heard
<1>7. AskedFor' /\ PatchFits'
  BY <1>1, <1>6 DEF HubInv, AskedFor, PatchFits
<1>8. HeldServes'
  <2> SUFFICES ASSUME worker.stream = "up", NEW t \in Sends, Awake(t)
               PROVE  /\ IdOf(t) \in worker.known => IdOf(t) \in held
                      /\ IdOf(t) \in held => \/ answer'[t] = "running" /\ IdOf(t) \in watching'
                                             \/ answer'[t] = "ended" /\ IdOf(t) \in pipe'.over
    BY <1>1, <1>6 DEF HeldServes
  <2>1. /\ IdOf(t) \in worker.known => IdOf(t) \in held
        /\ IdOf(t) \in held => \/ answer[t] = "running" /\ IdOf(t) \in watching
                               \/ answer[t] = "ended" /\ IdOf(t) \in pipe.over
    BY DEF HubInv, HeldServes
  <2>2. IdOf(t)[1] = t
    BY DEF IdOf
  <2>3. CASE t = s
    BY <1>1, <1>2, <1>4, <2>1, <2>2, <2>3
  <2>4. CASE t # s
    BY <1>1, <1>2, <1>4, <2>1, <2>2, <2>4
  <2> QED BY <2>3, <2>4
<1> QED BY <1>3, <1>5, <1>7, <1>8 DEF HubInv

\* What a change adds is held, and watched or answered; what it takes away nobody wants.
LEMMA PatchAppliesKeepsInv ==
  ASSUME HubInv, PatchApplies
  PROVE  HubInv'
<1>1. PICK fine, kept, new :
        /\ fine = {id \in patch.add : patch.hub = hub /\ answer[id[1]] # "unknown"}
        /\ kept = IF patch.hub = hub THEN held \ patch.remove ELSE held
        /\ new = fine \ kept
        /\ patch' = [patch EXCEPT !.place = "answered", !.added = fine,
                                  !.refused = patch.add \ fine]
        /\ held' = kept \cup new
        /\ watching' = (watching \cap kept) \cup {id \in new : answer[id[1]] = "running"}
        /\ Written({id \in new : answer[id[1]] = "ended"})
  BY DEF PatchApplies
<1>2. /\ patch.place = "queued"
      /\ UNCHANGED <<tab, asks, wanted, worker, answer, hub, died, slept, faults>>
  BY DEF PatchApplies, tabVars
<1>3. /\ fine \subseteq patch.add /\ new \subseteq fine /\ kept \subseteq held
      /\ fine \subseteq held' /\ patch.add \subseteq Ids
      /\ patch.hub # hub => fine = {} /\ kept = held
  BY <1>1 DEF HubInv, HubTypeOK
<1>4. /\ patch'.place = "answered" /\ patch'.hub = patch.hub /\ patch'.add = patch.add
      /\ patch'.remove = patch.remove /\ patch'.added = fine
      /\ patch' \in [ place : {"none", "sent", "queued", "answered", "hub unknown", "lost"},
                      hub : Nat, add : SUBSET Ids, remove : SUBSET Ids, added : SUBSET Ids,
                      refused : SUBSET Ids ]
  <2>1. fine \in SUBSET Ids /\ patch.add \ fine \in SUBSET Ids
    BY <1>3
  <2> QED BY <1>1, <2>1 DEF HubInv, HubTypeOK
<1>5. /\ pipe' \in [hub : Nat, greets : BOOLEAN, over : SUBSET Ids]
      /\ pipe'.hub = pipe.hub /\ pipe'.greets = pipe.greets
      /\ worker.stream = "up" =>
           pipe'.over = pipe.over \cup {id \in new : answer[id[1]] = "ended"}
  <2>1. {id \in new : answer[id[1]] = "ended"} \subseteq Ids
    BY <1>3
  <2> QED BY <1>1, <2>1, WrittenFacts
<1>6. HubTypeOK'
  <2>1. held' \subseteq Ids /\ watching' \subseteq held'
    BY <1>1, <1>3 DEF HubInv, HubTypeOK
  <2>2. hub = NoHub => held' = {}
    BY <1>1, <1>2, <1>3 DEF HubInv, HubTypeOK, PatchFits
  <2> QED BY <1>2, <1>4, <1>5, <2>1, <2>2 DEF HubInv, HubTypeOK
<1>7. WaitsFit' /\ FailsOnlyWhenLost' /\ StreamFits'
  BY <1>2, <1>5 DEF HubInv, WaitsFit, FailsOnlyWhenLost, StreamFits
<1>8. \A t : IdOf(t)' = IdOf(t) /\ Awake(t)' = Awake(t)
  BY <1>2, IdsStay DEF Awake
<1>9. Heard' \subseteq Heard
  BY <1>1, <1>2, <1>3, <1>4 DEF Heard
<1>10. AskedFor'
  BY <1>2, <1>8, <1>9 DEF HubInv, AskedFor
<1>11. PatchFits'
  BY <1>2, <1>3, <1>4, <1>8 DEF HubInv, PatchFits
<1>12. HeldServes'
  <2> SUFFICES ASSUME worker.stream = "up", NEW t \in Sends, Awake(t)
               PROVE  /\ IdOf(t) \in worker.known => IdOf(t) \in held'
                      /\ IdOf(t) \in held' => \/ answer[t] = "running" /\ IdOf(t) \in watching'
                                              \/ answer[t] = "ended" /\ IdOf(t) \in pipe'.over
    BY <1>2, <1>8 DEF HeldServes
  <2>1. /\ IdOf(t) \in worker.known => IdOf(t) \in held
        /\ IdOf(t) \in held => \/ answer[t] = "running" /\ IdOf(t) \in watching
                               \/ answer[t] = "ended" /\ IdOf(t) \in pipe.over
        /\ IdOf(t) \notin patch.remove
    BY DEF HubInv, HeldServes, PatchFits
  <2>2. IdOf(t)[1] = t /\ answer[t] # "none"
    BY DEF IdOf, Awake, HubInv, WaitsFit
  <2>3. IdOf(t) \in held => IdOf(t) \in kept
    BY <1>1, <2>1
  <2>4. IdOf(t) \in new => answer[t] \in {"running", "ended"}
    <3>1. answer[t] \in {"none", "running", "ended", "unknown"}
      BY DEF HubInv, HubTypeOK
    <3> QED BY <1>1, <2>2, <3>1
  <2>5. CASE IdOf(t) \in new
    BY <1>1, <1>5, <2>2, <2>4, <2>5
  <2>6. CASE IdOf(t) \notin new
    BY <1>1, <1>3, <1>5, <2>1, <2>3, <2>6
  <2> QED BY <2>5, <2>6
<1> QED BY <1>6, <1>7, <1>10, <1>11, <1>12 DEF HubInv

-----------------------------------------------------------------------------
LEMMA HubInvNext ==
  ASSUME HubInv, [HubNext]_hubVars
  PROVE  HubInv'
<1>1. CASE \E s \in Sends : TabStep(s)
  BY <1>1, AcceptedKeepsInv, SubscribesKeepsInv, SubscribesAgainKeepsInv,
     StopsWaitingKeepsInv, NapsKeepsInv, SpeaksAgainKeepsInv DEF TabStep
<1>2. CASE WorkerStep
  BY <1>2, HubOpensKeepsInv, GreetingKeepsInv, SyncsKeepsInv, AnswerKeepsInv,
     RefusalKeepsInv, RetriesKeepInv, BreakIsSeenKeepsInv, OverKeepsInv DEF WorkerStep
<1>3. CASE ServerStep
  BY <1>3, PatchMovesKeepInv, PatchAppliesKeepsInv, HubClosesKeepsInv, SettlesKeepsInv
     DEF ServerStep
<1>4. CASE StreamBreaks \/ PatchIsLost \/ ServerRestarts
  BY <1>4, StreamBreaksKeepsInv, PatchMovesKeepInv, RestartKeepsInv
<1>5. CASE UNCHANGED hubVars
  <2>1. UNCHANGED << tab, asks, wanted, worker, pipe, patch, answer, hub, held, watching,
                     died, slept, faults >>
    BY <1>5 DEF hubVars
  <2>2. /\ \A t : IdOf(t)' = IdOf(t) /\ Awake(t)' = Awake(t)
        /\ Heard' = Heard
    BY <2>1, IdsStay DEF Awake, Heard
  <2>3. HubTypeOK' /\ WaitsFit' /\ StreamFits' /\ FailsOnlyWhenLost'
    BY <2>1 DEF HubInv, HubTypeOK, WaitsFit, StreamFits, FailsOnlyWhenLost
  <2>4. AskedFor' /\ PatchFits' /\ HeldServes'
    BY <2>1, <2>2 DEF HubInv, AskedFor, PatchFits, HeldServes
  <2> QED BY <2>3, <2>4 DEF HubInv
<1> QED BY <1>1, <1>2, <1>3, <1>4, <1>5 DEF HubNext

\* The stream, the hub, the change under way and the tabs' waits stay in step, through
\* every break, loss and restart (hubCore.ts, sseLiveHub.ts).
THEOREM HubInvariant == HubSpec => []HubInv
<1>1. HubInit => HubInv
  BY HubInvInit
<1>2. HubInv /\ [HubNext]_hubVars => HubInv'
  BY HubInvNext
<1> QED BY <1>1, <1>2, PTL DEF HubSpec

\* A tab that stays awake never misses the end of its turn: what the worker counts
\* among the hub's subscriptions the hub holds, and what it holds it answers.
THEOREM AwakeTabsHear == HubSpec => []NoAnswerMissed
<1>1. HubInv => NoAnswerMissed
  <2> SUFFICES ASSUME HubInv, NEW s \in Sends \ slept PROVE ~Missed(s)
    BY DEF NoAnswerMissed
  <2>1. CASE wanted[s] # "none" /\ worker.stream = "up"
    <3>1. Awake(s)
      BY <2>1 DEF Awake
    <3> QED BY <2>1, <3>1 DEF HubInv, HeldServes, Missed
  <2>2. CASE ~(wanted[s] # "none" /\ worker.stream = "up")
    BY <2>2 DEF Missed
  <2> QED BY <2>1, <2>2
<1> QED BY <1>1, HubInvariant, PTL

\* A send is told that it failed only where a restart took its answer along before
\* the tab had heard, or where its subscription was refused past MAX_RESUBSCRIBES.
THEOREM SendsFailOnlyWhenLost == HubSpec => []FailsOnlyWhenLost
<1>1. HubInv => FailsOnlyWhenLost
  BY DEF HubInv
<1> QED BY <1>1, HubInvariant, PTL

=============================================================================
