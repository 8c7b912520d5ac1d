------------------------------ MODULE PlanRuns ------------------------------
(***************************************************************************)
(* The Claude plan runs of one chat (claudePlanRunRegistry.ts,               *)
(* claudePlanRun.ts, claudePlanModel.ts): a reply starts a Claude Code       *)
(* process; where it ends at an approval card its run is held for the click, *)
(* under a deadline; a chat delete and a restore end what runs and wait for  *)
(* the processes to be gone. The chat's lock is left out: requests overlap   *)
(* freely, as they may after its time rules.                                 *)
(***************************************************************************)
EXTENDS Naturals, FiniteSets

CONSTANTS
  Replies,    \* requests of ordinary turns; a run goes by the name of its reply
  Resumes,    \* requests of approval clicks
  CardOf,     \* the card a click answers: its run, and which of that run's cards
  MaxCards,   \* bound of the instance: how often a run may stop at a card
  Hold        \* the registry, as the keeper of a held run

ASSUME CardsOfRuns == CardOf \in [Resumes -> Replies \X (Nat \ {0})]
ASSUME CardsAreBounded == MaxCards \in Nat
ASSUME AsksDiffer == Replies \cap Resumes = {} /\ Hold \notin Replies \cup Resumes

Asks == Replies \cup Resumes
Sweepers == {"delete", "restore"}
RunOf(q) == IF q \in Resumes THEN CardOf[q][1] ELSE q

VARIABLES
  ask,                  \* each request's place
  saw, claims,          \* clicks: whose card read as answered, who have its run
  answered, notRun,     \* cards answered; among them those told "nothing ran"
  start, proc, folder,  \* each run's start, its process, the runs with a folder
  ended, settled,       \* runs that ended; what their settlement found
  listed, unsettled,    \* the registry's sets
  heldAt, lapsed,       \* the card each run is held at, or 0; who is past the deadline
  cards, waits,         \* the cards a run has raised; the runs that wait at the last
  closing, targets      \* the place of the delete and of the restore, and whom it ended

askVars == <<ask, saw, claims, answered, notRun>>
startVars == <<start, proc, folder>>
holdVars == <<heldAt, lapsed, cards, waits>>
endVars == <<settled, listed, unsettled>>
ownerVars == <<closing, targets>>
planVars == <<askVars, startVars, holdVars, endVars, ended, ownerVars>>

PlanInit ==
  /\ ask = [q \in Asks |-> "idle"] /\ saw = {} /\ claims = {} /\ answered = {} /\ notRun = {}
  /\ start = [p \in Replies |-> "none"] /\ proc = [p \in Replies |-> "none"] /\ folder = {}
  /\ ended = {} /\ settled = [p \in Replies |-> "no"] /\ listed = {} /\ unsettled = {}
  /\ heldAt = [p \in Replies |-> 0] /\ lapsed = {} /\ cards = [p \in Replies |-> 0] /\ waits = {}
  /\ closing = [o \in Sweepers |-> "idle"] /\ targets = [o \in Sweepers |-> {}]

-----------------------------------------------------------------------------
(* The registry.                                                            *)

\* No new request: the chat is deleted or being deleted, or a restore is on.
Admits == \A o \in Sweepers : closing[o] = "idle"

\* Some owner has closed admission of runs (a delete does not: it has no requests).
Closed == closing["restore"] \in {"ending", "sweeping"}

\* claudePlanRun.stop, of any of these: what has ended stays as it ended.
End(ps) == ended' = ended \cup (ps \cap listed)

\* Their holds are gone, timers and all.
Unheld(ps) ==
  /\ heldAt' = [p \in Replies |-> IF p \in ps THEN 0 ELSE heldAt[p]]
  /\ lapsed' = lapsed \ ps

Held == {p \in Replies : heldAt[p] # 0}

\* endHeldClaudePlanRuns.
EndHeld == End(Held) /\ Unheld(Held)

\* claimHeldClaudePlanRun gives the click its run: held at this very card, alive,
\* in time.
MayClaim(c) ==
  LET p == RunOf(c) IN heldAt[p] = CardOf[c][2] /\ p \notin ended /\ p \notin lapsed

\* A mistake: a claim leaves the hold in the registry.
Peeked(p) == UNCHANGED <<heldAt, lapsed>>

\* A claim takes the hold, and its timer.
HoldTaken(p) == Unheld({p})

-----------------------------------------------------------------------------
(* A request.                                                               *)

Goes(q, place) == ask' = [ask EXCEPT ![q] = place]
In(q, place) == ask[q] = place

\* A user's turn or a woken one registers; the first ends what is held.
TurnBegins(r) ==
  /\ In(r, "idle") /\ Admits /\ Goes(r, "setup")
  /\ \/ EndHeld
     \/ UNCHANGED <<ended, heldAt, lapsed>>
  /\ UNCHANGED <<saw, claims, answered, notRun, startVars, cards, waits, endVars, ownerVars>>

\* A turn of the chat on another connection registers.
OtherTurnBegins ==
  /\ Admits /\ Held # {} /\ EndHeld
  /\ UNCHANGED <<askVars, startVars, cards, waits, endVars, ownerVars>>

\* Its stream asks for the first step: the executable is being bound.
StreamStarts(r) ==
  /\ In(r, "setup") /\ Goes(r, "working") /\ start' = [start EXCEPT ![r] = "binding"]
  /\ UNCHANGED <<saw, claims, answered, notRun, proc, folder, ended, holdVars, endVars,
                 ownerVars>>

\* It offers a step whose calls wait at a card.
RaisesCard(q) ==
  LET p == RunOf(q) IN
  /\ In(q, "working") /\ start[p] = "up" /\ p \notin ended \cup waits /\ cards[p] < MaxCards
  /\ cards' = [cards EXCEPT ![p] = @ + 1] /\ waits' = waits \cup {p}
  /\ UNCHANGED <<askVars, startVars, heldAt, lapsed, ended, endVars, ownerVars>>

\* endReplyAtLoopEnd: a run that waits at a card is held for it, with its timer.
LoopEnds(q) ==
  LET p == RunOf(q) IN
  /\ In(q, "working") /\ Goes(q, "after")
  /\ IF p \in waits /\ p \notin ended
     THEN heldAt' = [heldAt EXCEPT ![p] = cards[p]] /\ ended' = ended
     ELSE heldAt' = heldAt /\ End({p})
  /\ UNCHANGED <<saw, claims, answered, notRun, startVars, lapsed, cards, waits, endVars,
                 ownerVars>>

\* endReply: the loop failed, or was stopped, or its reader gave up.
LoopFails(q) ==
  /\ In(q, "working") /\ Goes(q, "after") /\ End({RunOf(q)})
  /\ UNCHANGED <<saw, claims, answered, notRun, startVars, holdVars, endVars, ownerVars>>

\* The finally, with no run in hand.
Leaves(q) ==
  /\ ask[q] \in {"setup", "reading", "deciding", "after"} /\ Goes(q, "done")
  /\ UNCHANGED <<saw, claims, answered, notRun, startVars, holdVars, ended, endVars, ownerVars>>

-----------------------------------------------------------------------------
(* A click.                                                                 *)

ClickBegins(c) ==
  /\ In(c, "idle") /\ Admits /\ CardOf[c][2] <= cards[RunOf(c)] /\ Goes(c, "reading")
  /\ UNCHANGED <<saw, claims, answered, notRun, startVars, holdVars, ended, endVars, ownerVars>>

ClickReads(c) ==
  /\ In(c, "reading") /\ Goes(c, "deciding")
  /\ saw' = IF CardOf[c] \in answered THEN saw \cup {c} ELSE saw
  /\ UNCHANGED <<claims, answered, notRun, startVars, holdVars, ended, endVars, ownerVars>>

\* planClaudePlanClick and the claim, in one step and before anything is recorded:
\* the card's run, or none. The agent may be on another connection by now, which
\* ends what is held; a deadline that passes between the two ends its run.
ClickDecides(c) ==
  LET p == RunOf(c) IN
  /\ In(c, "deciding") /\ Goes(c, "recording")
  /\ \/ c \in saw /\ claims' = claims /\ UNCHANGED <<ended, heldAt, lapsed>>
     \/ c \notin saw /\ MayClaim(c) /\ claims' = claims \cup {c} /\ HoldTaken(p) /\ ended' = ended
     \/ c \notin saw /\ ~MayClaim(c) /\ claims' = claims /\ UNCHANGED <<ended, heldAt, lapsed>>
     \/ c \notin saw /\ claims' = claims /\ EndHeld
     \/ /\ c \notin saw /\ heldAt[p] = CardOf[c][2] /\ p \in lapsed
        /\ claims' = claims /\ Unheld({p}) /\ End({p})
  /\ UNCHANGED <<saw, answered, notRun, startVars, cards, waits, endVars, ownerVars>>

\* A mistake: an answer that was not recorded leaves the claim where it is.
Keeps(c) == Goes(c, "taking") /\ UNCHANGED <<claims, ended>>

\* The claimed run, if any, ends with the click (and in its finally).
GivesUp(c) ==
  /\ Goes(c, "done") /\ claims' = claims \ {c}
  /\ End(IF c \in claims THEN {RunOf(c)} ELSE {})

\* answerApprovalsOnce: recorded, as "nothing ran" where no run was claimed; or
\* answered by another, or Redis failed.
ClickRecords(c) ==
  /\ In(c, "recording")
  /\ \/ /\ c \notin saw /\ CardOf[c] \notin answered /\ answered' = answered \cup {CardOf[c]}
        /\ notRun' = IF c \in claims THEN notRun ELSE notRun \cup {CardOf[c]}
        /\ Goes(c, IF c \in claims THEN "taking" ELSE "done")
        /\ UNCHANGED <<claims, ended>>
     \/ GivesUp(c) /\ UNCHANGED <<answered, notRun>>
  /\ UNCHANGED <<saw, startVars, holdVars, endVars, ownerVars>>

\* The continuation's model takes the run and goes on with it.
StreamTakes(c) ==
  /\ In(c, "taking") /\ Goes(c, "working") /\ waits' = waits \ {RunOf(c)}
  /\ UNCHANGED <<saw, claims, answered, notRun, startVars, heldAt, lapsed, cards, ended,
                 endVars, ownerVars>>

\* The continuation fails before that, or the agent's model was changed meanwhile.
ClickFails(c) ==
  /\ In(c, "taking") /\ GivesUp(c)
  /\ UNCHANGED <<saw, answered, notRun, startVars, holdVars, endVars, ownerVars>>

\* Stop in the gap, or while a request only finishes, ends what is held.
StopsInGap ==
  /\ \A q \in Asks : ask[q] \in {"idle", "after", "done"}
  /\ Held # {} /\ EndHeld
  /\ UNCHANGED <<askVars, startVars, cards, waits, endVars, ownerVars>>

-----------------------------------------------------------------------------
(* A run's start, its end and its settlement.                               *)

StartAt(p, place) == start' = [start EXCEPT ![p] = place]

\* The reply has not ended (`this.ended`).
Asked(p) == In(p, "working")

\* startRun goes on from its await: no run for a reply that ended, or where
\* admission is closed; else it registers. A Stop that came before is relayed at
\* once, and that run's start unwinds at its first check.
Binds(p) ==
  /\ start[p] = "binding"
  /\ \/ /\ ~Asked(p) \/ Closed
        /\ StartAt(p, "over") /\ UNCHANGED <<listed, ended>>
     \/ /\ Asked(p) /\ ~Closed /\ listed' = listed \cup {p}
        /\ \/ StartAt(p, "checking") /\ ended' = ended
           \/ StartAt(p, "over") /\ ended' = ended \cup {p}
  /\ UNCHANGED <<askVars, proc, folder, holdVars, settled, unsettled, ownerVars>>

\* The executable and its policy are checked.
Checks(p) ==
  /\ start[p] = "checking" /\ p \notin ended /\ StartAt(p, "preparing")
  /\ UNCHANGED <<askVars, proc, folder, holdVars, ended, endVars, ownerVars>>

\* The folder is made, be the run ended by then or not.
FolderMade(p) ==
  /\ start[p] = "preparing" /\ p \notin folder /\ folder' = folder \cup {p}
  /\ UNCHANGED <<askVars, start, proc, holdVars, ended, endVars, ownerVars>>

\* The folder is ready and the run has not ended: the process starts.
Spawns(p) ==
  /\ start[p] = "preparing" /\ p \in folder \ ended
  /\ StartAt(p, "opening") /\ proc' = [proc EXCEPT ![p] = "alive"]
  /\ UNCHANGED <<askVars, folder, holdVars, ended, endVars, ownerVars>>

\* Its first messages have gone back and forth.
Opens(p) ==
  /\ start[p] = "opening" /\ p \notin ended /\ StartAt(p, "up")
  /\ UNCHANGED <<askVars, proc, folder, holdVars, ended, endVars, ownerVars>>

\* A step of the start fails, or finds the run ended.
StartUnwinds(p) ==
  /\ start[p] \in {"checking", "preparing", "opening"}
  /\ StartAt(p, "over") /\ ended' = ended \cup {p}
  /\ UNCHANGED <<askVars, proc, folder, holdVars, endVars, ownerVars>>

\* Claude is done, or a Stop, a failure or the idle limit ends the run.
RunEnds(p) ==
  /\ p \in listed \ ended /\ ended' = ended \cup {p}
  /\ UNCHANGED <<askVars, startVars, holdVars, endVars, ownerVars>>

\* The process exits, by itself or by a signal.
ProcExits(p) ==
  /\ proc[p] = "alive" /\ proc' = [proc EXCEPT ![p] = "gone"] /\ ended' = ended \cup {p}
  /\ UNCHANGED <<askVars, start, folder, holdVars, endVars, ownerVars>>

\* A mistake: a settlement does not wait for the start to unwind.
AtOnce(p) == p \in listed \cap ended

\* settle: after the start has unwound.
Settling(p) == p \in listed \cap ended /\ start[p] \in {"up", "over"}

\* The exit is confirmed, or there was no process: what is left of it is removed.
RunSettles(p) ==
  /\ Settling(p) /\ proc[p] # "alive"
  /\ settled' = [settled EXCEPT ![p] = "exited"]
  /\ folder' = folder \ {p} /\ listed' = listed \ {p} /\ Unheld({p})
  /\ UNCHANGED <<askVars, start, proc, cards, waits, ended, unsettled, ownerVars>>

\* The bound passes first.
SettlesUnknown(p) ==
  /\ Settling(p) /\ proc[p] = "alive"
  /\ settled' = [settled EXCEPT ![p] = "unknown"]
  /\ listed' = listed \ {p} /\ unsettled' = unsettled \cup {p} /\ Unheld({p})
  /\ UNCHANGED <<askVars, startVars, cards, waits, ended, ownerVars>>

\* A later exit cleans up all the same.
ExitsLate(p) ==
  /\ p \in unsettled /\ proc[p] = "gone"
  /\ unsettled' = unsettled \ {p} /\ folder' = folder \ {p}
  /\ UNCHANGED <<askVars, start, proc, holdVars, ended, settled, listed, ownerVars>>

\* The card's clock runs out, and its timer fires.
ClockPasses(p) ==
  /\ heldAt[p] # 0 /\ p \notin lapsed /\ lapsed' = lapsed \cup {p}
  /\ UNCHANGED <<askVars, startVars, heldAt, cards, waits, ended, endVars, ownerVars>>

DeadlineFires(p) ==
  /\ p \in lapsed /\ Unheld({p}) /\ End({p})
  /\ UNCHANGED <<askVars, startVars, cards, waits, endVars, ownerVars>>

-----------------------------------------------------------------------------
(* The delete of the chat and a restore.                                    *)

OwnerAt(o, place) == closing' = [closing EXCEPT ![o] = place]

\* The delete's mark, or the restore's gate on requests, is up.
OwnerBegins(o) ==
  /\ closing[o] = "idle" /\ Admits /\ OwnerAt(o, "waiting")
  /\ UNCHANGED <<askVars, startVars, holdVars, ended, endVars, targets>>

\* No request is left: every run ends, and each settlement is awaited.
OwnerEndsRuns(o) ==
  /\ closing[o] = "waiting" /\ \A q \in Asks : ask[q] \in {"idle", "done"}
  /\ OwnerAt(o, "ending") /\ targets' = [targets EXCEPT ![o] = listed] /\ End(listed)
  /\ UNCHANGED <<askVars, startVars, holdVars, endVars>>

\* All have settled: the sweep goes on, or a process that was not seen to exit
\* refuses it.
OwnerGoesOn(o) ==
  /\ closing[o] = "ending" /\ \A p \in targets[o] : settled[p] # "no"
  /\ LET unseen == unsettled \cup {p \in targets[o] : settled[p] = "unknown"}
     IN  OwnerAt(o, IF unseen = {} THEN "sweeping" ELSE "idle")
  /\ UNCHANGED <<askVars, startVars, holdVars, ended, endVars, targets>>

\* The requests took too long, or the sweep failed.
OwnerGivesUp(o) ==
  /\ closing[o] \in {"waiting", "sweeping"} /\ OwnerAt(o, "idle")
  /\ UNCHANGED <<askVars, startVars, holdVars, ended, endVars, targets>>

\* The data is replaced, or the chat gone.
OwnerDone(o) ==
  /\ closing[o] = "sweeping" /\ OwnerAt(o, "done")
  /\ UNCHANGED <<askVars, startVars, holdVars, ended, endVars, targets>>

PlanNext ==
  \/ \E r \in Replies : TurnBegins(r) \/ StreamStarts(r)
  \/ \E q \in Asks : RaisesCard(q) \/ LoopEnds(q) \/ LoopFails(q) \/ Leaves(q)
  \/ \E c \in Resumes :
       \/ ClickBegins(c) \/ ClickReads(c) \/ ClickDecides(c) \/ ClickRecords(c)
       \/ StreamTakes(c) \/ ClickFails(c)
  \/ OtherTurnBegins \/ StopsInGap
  \/ \E p \in Replies :
       \/ Binds(p) \/ Checks(p) \/ FolderMade(p) \/ Spawns(p) \/ Opens(p) \/ StartUnwinds(p)
       \/ RunEnds(p) \/ ProcExits(p) \/ RunSettles(p) \/ SettlesUnknown(p) \/ ExitsLate(p)
       \/ ClockPasses(p) \/ DeadlineFires(p)
  \/ \E o \in Sweepers :
       \/ OwnerBegins(o) \/ OwnerEndsRuns(o) \/ OwnerGoesOn(o) \/ OwnerGivesUp(o)
       \/ OwnerDone(o)

PlanSpec == PlanInit /\ [][PlanNext]_planVars

-----------------------------------------------------------------------------
(* Properties.                                                              *)

PlanTypeOK ==
  /\ ask \in [Asks -> {"idle", "setup", "reading", "deciding", "recording", "taking", "working",
                       "after", "done"}]
  /\ saw \subseteq Resumes /\ claims \subseteq Resumes
  /\ answered \subseteq Replies \X (Nat \ {0}) /\ notRun \subseteq answered
  /\ start \in [Replies -> {"none", "binding", "checking", "preparing", "opening", "up", "over"}]
  /\ proc \in [Replies -> {"none", "alive", "gone"}] /\ folder \subseteq Replies
  /\ ended \subseteq Replies /\ settled \in [Replies -> {"no", "exited", "unknown"}]
  /\ listed \subseteq Replies /\ unsettled \subseteq Replies
  /\ heldAt \in [Replies -> 0..MaxCards] /\ lapsed \subseteq Held
  /\ cards \in [Replies -> 0..MaxCards] /\ waits \subseteq Replies
  /\ closing \in [Sweepers -> {"idle", "waiting", "ending", "sweeping", "done"}]
  /\ targets \in [Sweepers -> SUBSET Replies]

\* Who would end run p if nothing else did: the reply that works with it, a click
\* that has claimed it, the registry with its deadline.
Keepers(p) ==
  {q \in Replies : q = p /\ ask[q] = "working" /\ p \in listed}
    \cup {c \in claims : RunOf(c) = p /\ ask[c] \in {"recording", "taking", "working"}}
    \cup (IF heldAt[p] # 0 THEN {Hold} ELSE {})

\* A run that has not ended has exactly one keeper: no claim races the deadline, a
\* second click or the end of the reply for it, and none is left to itself.
RunHasOneKeeper == \A p \in listed \ ended : \E k \in Asks \cup {Hold} : Keepers(p) = {k}

\* While a delete or a restore sweeps, and once the chat is gone, no process of it
\* is alive, no folder of one is left, and none will start.
SweepsFindNoRun ==
  \A o \in Sweepers : closing[o] \in {"sweeping", "done"} =>
    \A p \in Replies :
      /\ proc[p] # "alive" /\ p \notin folder
      /\ start[p] \in {"checking", "preparing", "opening"} => p \in ended

\* Behind a card whose recorded answer says that nothing ran, nothing does.
ToldNotRunNeverRuns ==
  \A c \in claims : ask[c] = "working" => CardOf[c] \in answered \ notRun
=============================================================================
