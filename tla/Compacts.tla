------------------------------ MODULE Compacts ------------------------------
(***************************************************************************)
(* The Compacts of one chat: a page's two requests, its plan and its        *)
(* summary (+page.svelte, compactRuns.svelte.ts), the route that serves     *)
(* them (compact/+server.ts), the registry through which a Stop reaches     *)
(* them (compactRunRegistry.ts), and what they give way to: the chat's      *)
(* turns, the Compacts of other tabs, and the delete of the chat.           *)
(***************************************************************************)
EXTENDS Naturals, FiniteSets

CONSTANTS
  Compacts,      \* each pressed in a tab of its own
  CompactTurns,  \* turns of the chat
  NoCompact

ASSUME CompactsAssumption == NoCompact \notin Compacts /\ IsFiniteSet(CompactTurns)

VARIABLES
  compact,      \* each Compact's place
  pressed,      \* the Compacts whose page had its Stop pressed
  posted,       \* those whose Stop is on its way to the server
  pending,      \* pendingStops: of each Compact, whether one waits for it
  signal,       \* whether the signal of its registered run is aborted
  chat,         \* the chat: stored, being deleted, its last event
  begun,        \* the turns that have started
  answering,    \* those that run
  lastStart,    \* lastTurnIdByChat of the chat
  seen,         \* what each Compact read: the last turn, the last event
  summarized,   \* the Compacts whose event is written
  heard,        \* those that a Stop reached before their write was on its way
  overdue,      \* those whose pending Stop lapsed
  met           \* those that a turn met

compactVars == << compact, pressed, posted, pending, signal, chat, begun, answering,
                  lastStart, seen, summarized, heard, overdue, met >>
stopVars == <<pressed, posted, pending, heard, overdue>>
turnsVars == <<begun, answering, lastStart, met>>

CompactPlaces == { "idle", "plan sent", "planning", "previewing", "planned", "sent",
                   "reading", "checking", "setup", "calling", "looking", "writing", "over" }
\* The places of a summary's run up to its last look.
Unwritten == {"reading", "checking", "setup", "calling", "looking"}
CompactRegistered(c) == compact[c] \in {"planning", "previewing", "writing"} \cup Unwritten

CompactInit ==
  /\ compact = [c \in Compacts |-> "idle"]
  /\ pressed = {} /\ posted = {}
  /\ pending = [c \in Compacts |-> "none"]
  /\ signal = [c \in Compacts |-> FALSE]
  /\ chat = [stored |-> TRUE, deleting |-> FALSE, event |-> NoCompact]
  /\ begun = {} /\ answering = {} /\ lastStart = 0
  /\ seen = [c \in Compacts |-> [turn |-> 0, event |-> NoCompact]]
  /\ summarized = {} /\ heard = {} /\ overdue = {} /\ met = {}

CompactGoes(c, place) == compact' = [compact EXCEPT ![c] = place]

-----------------------------------------------------------------------------
(* The page.                                                                *)

PlanIsSent(c) ==
  /\ compact[c] = "idle" /\ CompactGoes(c, "plan sent")
  /\ UNCHANGED <<signal, chat, seen, summarized, stopVars, turnsVars>>

\* The plan's answer is there: a Stop pressed meanwhile ends the Compact here.
PlanIsTaken(c) ==
  /\ compact[c] = "planned"
  /\ CompactGoes(c, IF c \in pressed THEN "over" ELSE "sent")
  /\ UNCHANGED <<signal, chat, seen, summarized, stopVars, turnsVars>>

\* The Stop shows while a request of the Compact is under way.
StopIsPressed(c) ==
  /\ compact[c] \notin {"idle", "over"} /\ c \notin pressed
  /\ pressed' = pressed \cup {c} /\ posted' = posted \cup {c}
  /\ UNCHANGED << compact, pending, signal, chat, seen, summarized, heard, overdue, turnsVars >>

-----------------------------------------------------------------------------
(* The registry.                                                            *)

\* Every run of the chat is aborted.
Abort == signal' = [c \in Compacts |-> signal[c] \/ CompactRegistered(c)]

\* A mistake: only a Compact that is registered is stopped.
LeavesNothing(c) == pending' = pending

\* A Stop whose own Compact has not registered waits for it, and only for it.
LeavesPending(c) ==
  pending' = IF CompactRegistered(c) THEN pending
             ELSE [d \in Compacts |-> IF d = c THEN "waits"
                                      ELSE IF pending[d] = "lapsed" THEN "none" ELSE pending[d]]

\* stopCompactRuns, from the Stop's route.
StopComes(c) ==
  /\ c \in posted /\ posted' = posted \ {c}
  /\ LeavesPending(c) /\ Abort
  /\ heard' = heard \cup {d \in Compacts :
       compact[d] \in Unwritten \/ (d = c /\ compact[d] \notin {"writing", "over"})}
  /\ UNCHANGED <<compact, pressed, chat, seen, summarized, overdue, turnsVars>>

\* COMPACT_PENDING_STOP_MS pass.
PendingLapses(c) ==
  /\ pending[c] = "waits" /\ pending' = [pending EXCEPT ![c] = "lapsed"]
  /\ overdue' = overdue \cup {c}
  /\ UNCHANGED << compact, pressed, posted, signal, chat, seen, summarized, heard, turnsVars >>

\* The request is the chat's owner's: startCompactRun, and the look at a delete.
StartCompactRun(c, next) ==
  /\ pending' = [pending EXCEPT ![c] = "none"]
  /\ signal' = [signal EXCEPT ![c] = pending[c] = "waits"]
  /\ CompactGoes(c, IF chat.deleting THEN "over" ELSE next)
  /\ UNCHANGED <<pressed, posted, chat, seen, summarized, heard, overdue, turnsVars>>

CompactRegisters(c) ==
  \/ compact[c] = "plan sent" /\ StartCompactRun(c, "planning")
  \/ compact[c] = "sent" /\ StartCompactRun(c, "reading")

-----------------------------------------------------------------------------
(* The route, after that.                                                   *)

\* The plan does not go on beside a turn; one that starts later leaves it be.
PlanLooks(c) ==
  /\ compact[c] = "planning" /\ answering = {} /\ CompactGoes(c, "previewing")
  /\ UNCHANGED <<signal, chat, seen, summarized, stopVars, turnsVars>>

\* It never reads its signal; it may be refused, or throw, in any other way.
PlanEnds(c) ==
  /\ \/ compact[c] = "previewing" /\ CompactGoes(c, "planned")
     \/ compact[c] \in {"planning", "previewing"} /\ CompactGoes(c, "over")
  /\ UNCHANGED <<signal, chat, seen, summarized, stopVars, turnsVars>>

\* A request may be refused, or throw, at any of its awaits.
CompactFails(c) ==
  /\ compact[c] \in Unwritten /\ CompactGoes(c, "over")
  /\ UNCHANGED <<signal, chat, seen, summarized, stopVars, turnsVars>>

\* The session is read, and with it the events.
SessionIsRead(c) ==
  /\ compact[c] = "reading"
  /\ CompactGoes(c, IF chat.stored THEN "checking" ELSE "over")
  /\ seen' = [seen EXCEPT ![c].event = chat.event]
  /\ UNCHANGED <<signal, chat, summarized, stopVars, turnsVars>>

\* It does not start beside a turn; it keeps the id of the last one.
TurnIsLookedFor(c) ==
  /\ compact[c] = "checking"
  /\ CompactGoes(c, IF answering = {} THEN "setup" ELSE "over")
  /\ seen' = [seen EXCEPT ![c].turn = lastStart]
  /\ UNCHANGED <<signal, chat, summarized, stopVars, turnsVars>>

CallStarts(c) ==
  /\ compact[c] = "setup"
  /\ CompactGoes(c, IF signal[c] THEN "over" ELSE "calling")
  /\ UNCHANGED <<signal, chat, seen, summarized, stopVars, turnsVars>>

\* The summary is there: a Stop that came meanwhile still counts.
CallAnswers(c) ==
  /\ compact[c] = "calling"
  /\ CompactGoes(c, IF signal[c] THEN "over" ELSE "looking")
  /\ UNCHANGED <<signal, chat, seen, summarized, stopVars, turnsVars>>

\* A turn runs, or one has started since the Compact looked.
YieldsToTurn(c) == answering # {} \/ lastStart > seen[c].turn

\* The protections are read again; then, with no pause, the last look and the write.
LooksAgain(c) ==
  /\ compact[c] = "looking"
  /\ CompactGoes(c, IF signal[c] \/ YieldsToTurn(c) THEN "over" ELSE "writing")
  /\ UNCHANGED <<signal, chat, seen, summarized, stopVars, turnsVars>>

\* appendContextCompactionEvent: one script.
EventIsWritten(c) ==
  LET fits == chat.stored /\ chat.event = seen[c].event
  IN  /\ compact[c] = "writing" /\ CompactGoes(c, "over")
      /\ chat' = IF fits THEN [chat EXCEPT !.event = c] ELSE chat
      /\ summarized' = IF fits THEN summarized \cup {c} ELSE summarized
      /\ UNCHANGED <<signal, seen, stopVars, turnsVars>>

-----------------------------------------------------------------------------
(* The chat's turns and its delete.                                         *)

ChatTurnStarts(t) ==
  /\ t \notin begun /\ ~chat.deleting
  /\ begun' = begun \cup {t} /\ answering' = answering \cup {t}
  /\ lastStart' = Cardinality(begun')
  /\ met' = met \cup {c \in Compacts : compact[c] \in {"setup", "calling", "looking"}}
  /\ UNCHANGED <<compact, signal, chat, seen, summarized, stopVars>>

ChatTurnEnds(t) ==
  /\ t \in answering /\ answering' = answering \ {t}
  /\ UNCHANGED <<compact, signal, chat, seen, summarized, stopVars, begun, lastStart, met>>

\* deleteSessionAfterItsTurn: the Compacts first.
ChatDeleteBegins ==
  /\ chat.stored /\ ~chat.deleting /\ chat' = [chat EXCEPT !.deleting = TRUE]
  /\ Abort
  /\ UNCHANGED <<compact, seen, summarized, stopVars, turnsVars>>

\* No turn runs: the chat is swept.
ChatIsSwept ==
  /\ chat.deleting /\ chat.stored /\ answering = {}
  /\ chat' = [chat EXCEPT !.stored = FALSE]
  /\ UNCHANGED <<compact, signal, seen, summarized, stopVars, turnsVars>>

\* The sweep is done: the chat's last turn is forgotten, and the mark taken off.
ChatDeleteEnds ==
  /\ chat.deleting /\ ~chat.stored
  /\ chat' = [chat EXCEPT !.deleting = FALSE]
  /\ lastStart' = 0
  /\ UNCHANGED <<compact, signal, seen, summarized, stopVars, begun, answering, met>>

ChatDeleteGivesUp ==
  /\ chat.deleting /\ chat' = [chat EXCEPT !.deleting = FALSE]
  /\ UNCHANGED <<compact, signal, seen, summarized, stopVars, turnsVars>>

CompactNext ==
  \/ \E c \in Compacts :
       \/ PlanIsSent(c) \/ PlanIsTaken(c) \/ StopIsPressed(c) \/ StopComes(c)
       \/ PendingLapses(c) \/ CompactRegisters(c) \/ PlanLooks(c) \/ PlanEnds(c)
       \/ CompactFails(c) \/ SessionIsRead(c) \/ TurnIsLookedFor(c) \/ CallStarts(c)
       \/ CallAnswers(c) \/ LooksAgain(c) \/ EventIsWritten(c)
  \/ \E t \in CompactTurns : ChatTurnStarts(t) \/ ChatTurnEnds(t)
  \/ ChatDeleteBegins \/ ChatIsSwept \/ ChatDeleteEnds \/ ChatDeleteGivesUp

CompactSpec == CompactInit /\ [][CompactNext]_compactVars

-----------------------------------------------------------------------------
(* Properties.                                                              *)

CompactTypeOK ==
  /\ compact \in [Compacts -> CompactPlaces]
  /\ posted \subseteq pressed /\ pressed \subseteq Compacts
  /\ pending \in [Compacts -> {"none", "waits", "lapsed"}]
  /\ signal \in [Compacts -> BOOLEAN]
  /\ chat \in [stored : BOOLEAN, deleting : BOOLEAN, event : Compacts \cup {NoCompact}]
  /\ answering \subseteq begun /\ begun \subseteq CompactTurns /\ lastStart \in Nat
  /\ seen \in [Compacts -> [turn : Nat, event : Compacts \cup {NoCompact}]]
  /\ summarized \subseteq Compacts /\ heard \subseteq Compacts
  /\ overdue \subseteq Compacts /\ met \subseteq Compacts

\* A Compact writes only what may stand.  No Stop that reached the server before its
\* write was on its way failed to stop it, be it sent for its plan, in between, or
\* ahead of the request it was for (but for one that came more than the window
\* ahead).  No turn met it, one that has ended since included.  No two that wrote
\* summarized what the same list of events left.  On a chat that is gone no model
\* call goes on unaborted.
CompactsGiveWay ==
  /\ \A c \in summarized \cup {d \in Compacts : compact[d] = "writing"} :
       c \notin heard \ overdue /\ c \notin met
  /\ \A c, d \in summarized : c # d => seen[c].event # seen[d].event
  /\ ~chat.stored => \A c \in Compacts : compact[c] \in {"calling", "looking"} => signal[c]
=============================================================================
