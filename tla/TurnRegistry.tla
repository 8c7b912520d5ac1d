---------------------------- MODULE TurnRegistry ----------------------------
(***************************************************************************)
(* streamAbortRegistry.ts: the in-process registry that decides, for one    *)
(* chat, which request may start a turn, which requests still run, and      *)
(* which sends wait in the chat's line.                                     *)
(*                                                                          *)
(* The registry is a set of module-level maps keyed by chat.  A value of    *)
(* RegistryType is what those maps hold for ONE chat, and every operator    *)
(* below is one function of the file: it takes that value and returns the   *)
(* value the function leaves.  All of them are synchronous, so a request    *)
(* handler's step (everything between two awaits) is a composition of them. *)
(* The handlers, which are where steps interleave, are in SessionTurns.     *)
(*                                                                          *)
(* Time is the set of bounds that have passed: "overdue" for the bounds of  *)
(* the current lock, stream and card hold, and "waitedOut" for the requests *)
(* whose lock went more than QUEUED_HANDOVER_REQUEST_WAIT_MS ago.           *)
(*                                                                          *)
(* An operator commented "A mistake:" is used by no other definition.  It    *)
(* is the one after it with a bug the code could have had, kept to show      *)
(* that a property would notice (see the README).                           *)
(***************************************************************************)
EXTENDS Naturals, Sequences, FiniteSets, SequencesExt

CONSTANTS
  Sends,      \* the page's own sends: they may wait in the line
  Clicks,     \* Approve / Deny clicks on a card
  Wakes,      \* turns that never wait: woken turns, voice turns, ...
  Msgs,       \* assistant message ids
  MsgOf,      \* the message id a request registers its turn under
  Cap,        \* QUEUED_SEND_CAP
  None        \* no request, no message, no hold

Requests == Sends \cup Clicks \cup Wakes

ASSUME RequestsAssumption ==
  /\ Sends \cap Clicks = {}
  /\ Sends \cap Wakes = {}
  /\ Clicks \cap Wakes = {}
  /\ None \notin Requests
  /\ None \notin Msgs
  /\ MsgOf \in [Requests -> Msgs]
  /\ Cap \in Nat \ {0}

\* The bounds that can pass for the lock ("turnStale": SESSION_TURN_STALE_MS,
\* "quiet": ORPHANED_TURN_RELEASE_MS, "stop": ABORTED_TURN_RELEASE_MS after
\* stopSessionTurn), for the stream ("streamStale", "abort") and for the card
\* hold ("hold": QUEUE_CARD_HOLD_LIMIT_MS).
LockClocks == {"turnStale", "quiet", "stop"}
StreamClocks == {"streamStale", "abort"}
HoldClocks == {"hold"}
Clocks == LockClocks \cup StreamClocks \cup HoldClocks

Outcomes == {"none", "run", "keep", "cancelled"}

RegistryType ==
  [ lock : Requests \cup {None},      \* activeSessionTurns: who holds the chat
    runEnded : BOOLEAN,               \* the lock's entry.runEnded
    stoppedAt : BOOLEAN,              \* the lock's entry.stoppedAt is set
    running : SUBSET Requests,        \* runningRequests
    dropped : SUBSET Requests,        \* lockDroppedAt
    waitedOut : SUBSET Requests,      \* dropped, and the handover wait passed
    lastTurn : Requests \cup {None},  \* lastTurnIdByChat
    signalled : SUBSET Requests,      \* entry.stop is aborted
    line : Seq(Sends),                \* queuedSessionTurns, oldest first
    kept : SUBSET Sends,              \* the sends whose entry has keep set
    hidden : SUBSET Sends,            \* queuedSendHiddenIds
    outcome : [Sends -> Outcomes],    \* what queued.settle was called with
    handed : SUBSET Sends,            \* handedByQueueId
    unclaimed : SUBSET Sends,         \* unclaimedHandovers
    hold : Msgs \cup {None},          \* queueCardHolds
    endedHold : [Clicks -> Msgs \cup {None}],  \* cardHoldsEndedByClick
    clickHolds : SUBSET Clicks,       \* approvalClickHolds, by click
    backstop : BOOLEAN,               \* queueBackstops has the chat's timer
    deleting : BOOLEAN,               \* deletingSessions
    stream : Msgs \cup {None},        \* activeStreams
    aborted : BOOLEAN,                \* the stream entry's abortedAt is set
    overdue : SUBSET Clocks ]

EmptyRegistry ==
  [ lock |-> None, runEnded |-> FALSE, stoppedAt |-> FALSE,
    running |-> {}, dropped |-> {}, waitedOut |-> {}, lastTurn |-> None,
    signalled |-> {}, line |-> <<>>, kept |-> {}, hidden |-> {},
    outcome |-> [s \in Sends |-> "none"], handed |-> {}, unclaimed |-> {},
    hold |-> None, endedHold |-> [c \in Clicks |-> None], clickHolds |-> {},
    backstop |-> FALSE, deleting |-> FALSE,
    stream |-> None, aborted |-> FALSE, overdue |-> {} ]

\* How a request says its turn ended (SessionTurnEnd): the card its last run
\* stopped at, and whether this click's answer was recorded.
NoEnd == [card |-> None, answer |-> "none"]
Ends == [card : Msgs \cup {None}, answer : {"none", "user", "expiry"}]

-----------------------------------------------------------------------------
(* Reads.                                                                   *)

Waiting(g) == ToSet(g.line)

\* countRunnableQueuedSessionTurns > 0
Runnable(g) == Waiting(g) \ g.kept

\* isDroppedRequestStillWriting
DroppedStillWriting(g) == (g.running \cap g.dropped) \ g.waitedOut # {}

HeldByAnother(g, r) == g.lock # None /\ g.lock # r

\* approvalClickWaitsForTurn, for a lock of the single-agent lane.
ClickWaitsForLock(g, c) ==
  /\ g.lock # None
  /\ g.lock \notin Clicks
  /\ MsgOf[g.lock] = MsgOf[c]

-----------------------------------------------------------------------------
(* The lock and the handover.                                               *)

CreateEntry(g, r) ==
  [g EXCEPT !.lock = r, !.runEnded = FALSE, !.stoppedAt = FALSE,
            !.running = @ \cup {r}, !.lastTurn = r,
            !.dropped = @ \ {r}, !.waitedOut = @ \ {r},
            !.signalled = @ \ {r}, !.overdue = @ \ LockClocks]

EndHold(g) == [g EXCEPT !.hold = None, !.overdue = @ \ HoldClocks]

\* A mistake: the writer whose lock went is not waited for.
HeldBackByLockOnly(g) ==
  g.lock # None \/ g.deleting \/ g.clickHolds # {} \/ g.hold # None

\* What keeps the chat from the head of its line.
HeldBack(g) ==
  \/ g.lock # None
  \/ g.deleting
  \/ g.clickHolds # {}
  \/ g.hold # None
  \/ DroppedStillWriting(g)

\* What the line settles its head with.
HandedTo(g, s) == IF s \in g.kept THEN "keep" ELSE "run"

\* handOffSessionTurn: give the chat to the head of its line, if it is free.
HandOff(g) ==
  IF g.line = <<>>
  THEN [EndHold(g) EXCEPT !.backstop = FALSE]
  ELSE IF HeldBack(g) THEN g
  ELSE LET head == Head(g.line)
       IN  [CreateEntry(g, head) EXCEPT
              !.line = Tail(g.line),
              !.backstop = Tail(g.line) # <<>>,
              !.unclaimed = IF head \in g.kept THEN @ ELSE @ \cup {head},
              !.handed = @ \cup {head},
              !.outcome[head] = HandedTo(g, head)]

\* A mistake: the message of the send whose lock goes is not shown again.
DropLockInSilence(g) ==
  [g EXCEPT !.lock = None, !.runEnded = FALSE, !.stoppedAt = FALSE,
            !.dropped = @ \cup {g.lock}, !.overdue = @ \ LockClocks]

\* dropSessionTurnLock without the handover that follows it.  A lock handed to
\* a send of the line reveals that send's message; no other lock has one.
DropLock(g) ==
  [g EXCEPT !.lock = None, !.runEnded = FALSE, !.stoppedAt = FALSE,
            !.dropped = @ \cup {g.lock}, !.hidden = @ \ {g.lock},
            !.overdue = @ \ LockClocks]

\* The lock's request has outlived its bounds (the walk of
\* pruneStaleSessionTurns over activeSessionTurns).
LockIsStale(g) ==
  /\ g.lock # None
  /\ \/ "turnStale" \in g.overdue
     \/ g.stream # None /\ "abort" \in g.overdue
     \/ g.stream = None /\ {"stop", "quiet"} \cap g.overdue # {}

RemoveStream(g) ==
  [g EXCEPT !.stream = None, !.aborted = FALSE, !.overdue = @ \ StreamClocks]

PruneStream(g) == IF "streamStale" \in g.overdue THEN RemoveStream(g) ELSE g

PruneLock(g) ==
  IF ~LockIsStale(g) THEN g
  ELSE IF "turnStale" \notin g.overdue /\ g.stream # None
  THEN HandOff(DropLock(RemoveStream(g)))
  ELSE HandOff(DropLock(g))

\* pruneStaleSessionTurns
Prune(g) == PruneLock(PruneStream(g))

-----------------------------------------------------------------------------
(* Streams and stops.                                                       *)

\* registerStreamAbort
OpenStream(g, m) ==
  [g EXCEPT !.stream = m, !.aborted = FALSE, !.overdue = @ \ StreamClocks]

\* clearStreamAbort, with markSessionTurnRunEnded
CloseStream(g, m) ==
  IF g.stream # m THEN g
  ELSE [RemoveStream(g) EXCEPT !.runEnded = g.lock # None,
                               !.overdue = @ \ {"quiet"}]

\* abortStream
AbortStream(g) ==
  LET p == Prune(g)
  IN  IF p.stream = None THEN p
      ELSE [p EXCEPT !.aborted = TRUE, !.overdue = @ \ {"abort"}]

\* stopSessionTurn
StopTurn(g) ==
  IF g.lock = None THEN g
  ELSE [g EXCEPT !.stoppedAt = TRUE, !.signalled = @ \cup {g.lock}]

\* clearSessionTurn on behalf of the user; m = None when the Stop named no reply.
ClearTurn(g, m) ==
  IF \/ g.lock = None
     \/ m # None /\ MsgOf[g.lock] # m
     \/ m = None /\ "quiet" \notin g.overdue
  THEN g
  ELSE HandOff(DropLock(g))

-----------------------------------------------------------------------------
(* The line.                                                                *)

\* keepQueuedSessionTurns
KeepLine(g) == [EndHold(g) EXCEPT !.kept = @ \cup Waiting(g)]

\* keepSendsOfExpiredCardHold
KeepExpiredHold(g) ==
  IF g.hold # None /\ "hold" \in g.overdue THEN KeepLine(g) ELSE g

\* A mistake: the timer trusts others to drop a stale lock.
TickWithoutPrune(g) == HandOff(KeepExpiredHold(g))

\* One tick of the timer ensureQueueBackstop starts.
BackstopTick(g) == HandOff(KeepExpiredHold(Prune(g)))

\* A mistake: the newest send goes to the front.
EnqueueFirst(g, s, keep) ==
  HandOff([g EXCEPT !.line = <<s>> \o @, !.hidden = @ \cup {s},
                    !.kept = IF keep THEN @ \cup {s} ELSE @, !.backstop = TRUE])

\* A mistake: a send over the cap lets the line go past an unanswered card.
EnqueueEndsAnyHold(g, s, keep) ==
  HandOff(EndHold([g EXCEPT !.line = Append(@, s), !.hidden = @ \cup {s},
                            !.kept = IF keep THEN @ \cup {s} ELSE @,
                            !.backstop = TRUE]))

\* queueSessionTurn, for a chat that is not being deleted.
Enqueue(g, s, keep) ==
  LET joined == [g EXCEPT !.line = Append(@, s), !.hidden = @ \cup {s},
                          !.kept = IF keep THEN @ \cup {s} ELSE @,
                          !.backstop = TRUE]
  IN  HandOff(IF ~keep /\ g.lock = None THEN EndHold(joined) ELSE joined)

\* sendWaitingSendNow, for a send that waits and is not kept.
SendWaitingNow(g) == HandOff(IF g.lock = None THEN EndHold(g) ELSE g)

\* settleQueueCardHoldAtRelease
SettleHold(g, r, end) ==
  LET ended == IF r \in Clicks THEN g.endedHold[r] ELSE None
  IN  IF ended # None /\ end.answer = "expiry" THEN KeepLine(g)
      ELSE IF end.card # None
      THEN IF Runnable(g) = {} THEN g
           ELSE [EndHold(g) EXCEPT !.hold = end.card]
      ELSE IF /\ ended # None
              /\ end.answer = "none"
              /\ Runnable(g) # {}
              /\ g.hold = None
      THEN [g EXCEPT !.hold = ended]
      ELSE g

\* A mistake: whoever holds the chat loses it, also to a late release.
ReleaseUnowned(g, r, end) ==
  HandOff(DropLock(SettleHold([g EXCEPT !.running = @ \ {r}], r, end)))

\* A mistake: a reply whose lock went first says nothing of its card.
ReleaseWithoutLateCard(g, r, end) ==
  LET freed == [g EXCEPT !.running = @ \ {r}]
  IN  IF g.lock = r THEN HandOff(DropLock(SettleHold(freed, r, end)))
                    ELSE HandOff(freed)

\* A mistake: a request whose lock went stays counted as running.
ReleaseOfHolderOnly(g, r, end) ==
  IF g.lock # r THEN g
  ELSE HandOff(DropLock(SettleHold([g EXCEPT !.running = @ \ {r}], r, end)))

\* releaseSessionTurn: by registration, never by message id.
Release(g, r, end) ==
  LET freed == [g EXCEPT !.running = @ \ {r}]
  IN  IF g.lock = r THEN HandOff(DropLock(SettleHold(freed, r, end)))
      ELSE IF g.lock = None /\ r \in g.running /\ g.lastTurn = r
      THEN HandOff(SettleHold(freed, r, end))
      ELSE HandOff(freed)

\* claimQueuedSessionTurn: its guard and what it takes.
CanClaim(g, s) == ~g.deleting /\ g.lock = s
Claim(g, s) == [g EXCEPT !.unclaimed = @ \ {s}, !.handed = @ \ {s}]

\* queue.splice(index, 1)
WithoutSend(line, s) == RemoveAt(line, CHOOSE i \in DOMAIN line : line[i] = s)

\* abandonQueuedSessionTurn, of a send that waits.
LeaveLine(g, s) ==
  LET left == [g EXCEPT !.line = WithoutSend(@, s), !.hidden = @ \ {s}]
  IN  IF left.line = <<>> THEN [EndHold(left) EXCEPT !.backstop = FALSE]
      ELSE IF Runnable(left) = {} THEN EndHold(left)
      ELSE left

\* A mistake: the message is shown again, the place in the line is kept.
AbandonShowsOnly(g, s) == [g EXCEPT !.hidden = @ \ {s}]

\* abandonQueuedSessionTurn
Abandon(g, s) ==
  IF s \in Waiting(g) THEN LeaveLine(g, s)
  ELSE IF s \notin g.handed THEN g
  ELSE Release(Claim(g, s), s, NoEnd)

\* A mistake: a click may start while another turn holds the chat.
RefusesNoClick(g, r) ==
  g.deleting \/ (r \notin Clicks /\ (g.lock # None \/ g.line # <<>>))

\* registerSessionTurn without a claim: when it refuses ...
Refuses(g, r) ==
  \/ g.deleting
  \/ g.lock # None
  \/ g.line # <<>> /\ r \notin Clicks

\* ... and what it does otherwise.
Register(g, r) ==
  LET taken == CreateEntry(g, r)
  IN  IF r \in Clicks /\ g.hold = MsgOf[r]
      THEN [EndHold(taken) EXCEPT !.endedHold[r] = g.hold]
      ELSE taken

-----------------------------------------------------------------------------
(* Deleting the chat.                                                       *)

\* beginSessionDelete: a handover nobody has taken yet is let go.
BeginDelete(g) ==
  LET marked == [g EXCEPT !.deleting = TRUE]
  IN  IF g.lock \in g.unclaimed
      THEN Release([marked EXCEPT !.unclaimed = @ \ {g.lock}], g.lock, NoEnd)
      ELSE marked

\* stopWhatRuns: stopRunningRequests and abortStream.
StopWhatRuns(g) == AbortStream([g EXCEPT !.signalled = @ \cup g.running])

\* cancelQueuedSessionTurnsOfDeletedChat
CancelLine(g) ==
  [EndHold(g) EXCEPT
     !.line = <<>>, !.backstop = FALSE, !.lastTurn = None,
     !.hidden = @ \ Waiting(g),
     !.outcome = [s \in Sends |-> IF s \in Waiting(g) THEN "cancelled" ELSE @[s]]]

\* endSessionDelete
EndDelete(g) == HandOff([g EXCEPT !.deleting = FALSE])

=============================================================================
