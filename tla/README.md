# Batshit: a verification project for what runs in a chat

This directory holds TLA+ modules that model the parts of Batshit where requests,
timers and callbacks meet: *who may run a turn in a chat, who waits, and what becomes
of a message that is sent while a turn runs*, and the registries around a turn (the
sandboxes, woken turns, schedules, live events, delegated runs, Compacts, zip state and
Claude Code runs), and the restore of a backup; configurations that check them with TLC; and proofs checked by TLAPS.
Paths below are relative to `batshit-app/src/lib/server/services/` unless they
start with `routes/`, which is `batshit-app/src/routes/`.

Batshit is a local chat application for AI agents: a SvelteKit app (browser
client and Node server in one process), a Redis store, sidecars for voice,
sandboxes and rendering, and Mac, Docker and Pinokio launchers. One Node process
serves every tab. Nothing in it runs in parallel: every hazard comes from the
steps of different requests, timers and callbacks interleaving at `await`s, and
from state the process keeps in module-level maps between them.

## 1. The system

### 1.1 Components

| component | state it keeps | operations | talks to |
|---|---|---|---|
| **Session turn registry** `streamAbortRegistry.ts` | per chat: the lock, the streams, the running registrations, the line of waiting sends, the card hold, click holds, hidden message ids, unclaimed handovers, the delete mark, the line's timer | register, queue, claim, abandon, release, stop, clear, keep, hand off, prune, begin and end a delete | called synchronously by everything below |
| **Requests of a chat** `routes/api/messages/send-routed/+server.ts` | the request's own place, its registration, how its last run ended | take the chat or wait for it, read the chat, run, run again, sweep the sandboxes, release | registry, keeper, approvals, steer inbox, live events, Redis |
| **Queued sends** `queuedSendRules.ts`, `queuedSendKeeper.ts`, `queuedSendHiddenIds.ts`, `finishingTurnWait.ts` | the hidden message ids | decide (free / queue / overflow), keep at the end of the chat, reveal | registry, Redis |
| **Approval clicks** `approvalClickWait.ts`, `approvalAnswerRecord.ts` | the card's message in Redis, a two-minute claim | wait for the card's reply, read the card, write the answer | registry, Redis |
| **Stop** `routes/api/messages/interrupt/+server.ts` | none | abort the stream, stop the turn in setup, clear a finishing turn, keep the line | registry |
| **Chat delete** `sessionDeleteTurnStop.ts` | the delete mark | refuse new turns, stop what runs, poll, sweep, refuse at a bound | registry, Redis |
| **Steer inbox** `steerInboxRegistry.ts`, `steerPromotion.ts`, `steerSetupWait.ts`, `routes/api/messages/steer/+server.ts` | messages accepted while a reply runs: waiting, or read and not yet shown | enqueue, take at a tool boundary, drain, refile, promote, hold for a card, report, clear | requests, the SDK's step hook and finish callback, agent DMs, Stop |
| **Compact runs** `compactRunRegistry.ts`, `routes/api/messages/compact/+server.ts` | running Compacts by chat, Stops that came first | the page's plan and summary requests, register, stop, look for a turn, append the event | turns, Stop, delete, Redis |
| **Turn outcomes** `turnOutcomeRegistry.ts`, `respondAsyncSend.ts` | answers of accepted sends, who listens | settle, subscribe, tell that a turn is gone | live events |
| **Live events** `sseLiveHub.ts`, `ssePublisher.ts`, `../../services/liveHub/` | the server's hubs with what each holds; the browser worker's one stream, what is wanted and what it counts as known | greet, change the subscriptions, break, reconnect, replace a hub, drop a silent tab | all tabs |
| **Sandbox gate** `sandboxLifecycleGate.ts`, parts of `nativeTools.ts` | in-flight ensures, leases, queued removals; which turns of the chat are there | ensure, lease, remove, sweep at a turn's start and end, prune | tools, requests |
| **Woken turns** `wakeRunRegistry.ts`, `agentWakeups.ts`, `dm/` | reservations, running wakes by chat, starts of the last hour | reserve, register, post, end by answer, Stop or timer | requests, steer inbox |
| **Schedules** `schedules/` | records and the due cache in Redis | create, edit, delete, sweep, fire, record, collapse missed runs | woken turns |
| **Subagent runs** `subagentRunRegistry.ts`, `subagentRunSettle.ts` | registered runs, the verdict on their work, the delete mark | register, settle, stop for a delete, refuse | tools, Stop |
| **Claude plan runs** `claudePlanRunRegistry.ts`, `claudePlanRun.ts`, `claudePlanModel.ts`, `claudePlanApprovalClick.ts` | live runs, runs whose exit is unknown, runs held at a card with their deadline, who closed admission | start, hold, claim, end, settle, end all and wait | requests, clicks, Stop, delete, restore |
| **Zip state** `zipStateLock.ts`, `zipHolds.ts`, `routes/api/unzipping/` | a chat's zip fields in Redis, the tail of each chat's queue | a lock, re-entrant in one flow; clicks, agent holds, countdown, release at an agent's delete | requests, tools |
| Approval expiry and control approvals `approvalExpiry.ts`, `approvalExpiryCommit.ts`, `controlApprovals.ts` | approvals with deadlines in Redis | expire, commit, answer | approvals |
| Redis store `redis.ts`, `redisJsonCompareAndWrite.ts` | everything persisted | get, set, compare-and-write | all |
| Profile folders `agentProfileFolderQueue.ts`, `agentProfileFolderGate.ts` | queue per folder, generations | take in order, hold, retire | deletes, subject population |
| **Restore** `backupRestoreService.ts` | the journal with its phase and inventory, the folders beside what is replaced, the plan and rollback files | extract, move out and in, replace the records, undo, recover, clean up, sweep | Redis, uploads, skill and voice folders shared with other Batshits; registry (keeps held lines), Claude plan runs |
| Memory, agents, models, MCP gateway, tools, voice, Goons, artifacts, browser client, server image, launchers, skills and docs | data, media, processes | – | – |

`PROJECT.json` lists each with its status and the reason.

### 1.2 How a turn goes

A send is saved by the page and posted. Its request reads the chat (awaits),
waits for a turn that is only finishing, and then decides in one synchronous
block: the chat is *free* and it registers; it joins the *line*; or the line is
at its cap and it joins it to be *kept*, answered at once with a refusal. When
whoever holds the chat lets go, `handOffSessionTurn` gives the lock to the head
of the line in the same step, and that request resumes a microtask later. A
reply that ends at an approval card leaves the line *holding* for that card. A
click waits for the reply that raised its card, holding the line back meanwhile.
A Stop, a chat delete, a restore and a shutdown reach into all of this, and so
do the time bounds: a lock can be *taken* from a request that still runs (the
grace rules of `pruneStaleSessionTurns`), which is why a lock and a running
request are two different things throughout the code and the model.

### 1.3 What is hard, and what makes each component correct

*Modelled in this project*

- **Registry and requests.** A lock says who may start, `runningRequests` says
  who still writes; the two disagree after any grace rule. Correct: two requests
  write at once only after such a rule; the line hands the chat on only when
  nobody else runs, or 30 s after the lock went; no registration is left behind.
- **The line.** Correct: first come first served; each send is told one thing,
  once; a kept send never runs; the timer is there whenever something waits;
  what waits goes on in the end although every run hangs.
- **The card hold.** Set, moved and ended in a dozen functions. Correct: it holds only
  for an unanswered card, only while a send that will run waits, and only the
  user (or the bound, which keeps what waits) lets the line go.
- **Hidden messages.** A waiting send's message is hidden. Correct: whatever
  becomes of it, the message is shown again.
- **Delete.** Correct: the sweep never overlaps a request that can still write.
- **Clicks.** Correct: one approval, one answer.
- **Steer inbox.** A message sent into a running reply is taken by the model's side
  between two of its steps, shown by the loop that writes the reply, which lags
  behind, and settled by the request if neither came to it. It is filed under the
  reply's id, which changes when the reply continues. Correct: every accepted
  message is read and shown or settled another way that somebody is told of,
  once; its marker stands where the model read it; a request that unwinds late
  does not touch the mail of the reply that is live now.

- **Sandboxes.** Correct: a sandbox goes from under a command only by a sweep that was
  queued when the command was there, and a sweep takes it from the turn that holds
  the chat only if that turn came while the sweep was under way.
- **Woken turns.** Correct: the caps hold from the reservation on, however many set up
  at once; a woken turn that goes on has its time limit; every place is given back.
- **Schedules.** Correct: the due cache hides nothing that is due; a slot fires once,
  though its delivery fails, the process dies or the record is edited meanwhile.
- **Live events and outcomes.** A send is answered when its turn is accepted; its end
  comes over a stream that breaks, whose subscriptions change by requests that may be
  lost. Correct: a tab that stays awake hears the end; a send fails only when a restart
  took its answer; every wait ends.
- **Subagent deletes.** Correct: while one removes a Subagent's folder nothing of it works.
- **Compacts.** Correct: a Stop pressed for a Compact reaches it and no other, even ahead
  of the request it is for; a Compact writes nothing over a turn it met.
- **Claude plan runs.** Correct: a live run always has exactly one owner that will end it
  (the reply, one click, or the hold with its deadline); whoever waits for runs to end
  finds no process and no folder afterwards, also of a run that was starting; behind a
  card whose answer says "nothing ran", nothing runs.
- **Zip state.** Correct: the user's last word on an item governs it whatever agents and
  countdowns wrote; a deleted agent holds nothing.
- **Restore.** Files and records are replaced in dozens of steps, any of which may fail or
  be the last before a crash, and folders in it are other Batshits' too. Correct: all is
  replaced or nothing, whatever fails or dies, recovery included; no folder of somebody
  else is lost; Batshit always starts again.

## 2. The modules

| module | what it is |
|---|---|
| `TurnRegistry` | `streamAbortRegistry.ts`: the record of what its maps hold for one chat, and one operator per function |
| `SessionTurns` | the requests, Stop, the delete and the timers: one action per stretch between two awaits; the properties |
| `SendLine` | the abstract line: what a waiting send is promised |
| `MCSessionTurns` | the instances for TLC |
| `SteerInbox` | `steerInboxRegistry.ts`: one operator per function, on a record of where each message is |
| `SteerTurns` | both doors into the inbox, and the runs and the ends of requests that hand its messages over or settle them; the properties |
| `SteerPromise` | the abstract inbox: what becomes of an accepted message |
| `MCSteerTurns` | the instances of `SteerTurns` |
| `TurnRegistryProofs` | what each function of the registry keeps, and how it may move the registry |
| `SessionTurnsProofs` | the inductive invariant of `SessionTurns` and the theorems |
| `SteerTurnsProofs` | the theorems about `SteerTurns` |
| `SandboxGate` | the gate of one sandbox, the calls in it, the turns' sweeps and the prune |
| `Wakes` | `wakeRunRegistry.ts` and a wake from its reservation to its end |
| `Schedules` | the store's records and due cache, and the ticker's sweep |
| `LiveHub` | how a tab hears the end of its send: outcomes, the server's hub, the worker's stream |
| `SubagentRuns` | the delegated runs of one Subagent and its delete |
| `Compacts` | the Compacts of one chat, from the page's press to the event |
| `PlanRuns` | the Claude Code runs of one chat: start, hold, claim, end, settlement |
| `ZipHolds` | the lock of a chat's zip state and its writers |
| `Restore` | the restore of a backup: its steps, the undoing, recovery and cleanup |
| `MCServices` | the instance of these nine: in each behaviour one of them moves |
| `RunsProofs` | the theorems about `SubagentRuns`, `PlanRuns`, `Compacts` and `LiveHub` |
| `WakesProofs` | the theorems about `Wakes` and `Schedules` |
| `LocksProofs` | the theorems about `SandboxGate` and `ZipHolds` |
| `RestoreProofs` | the theorems about `Restore` |
| `ServicesProofs` | that `MCServices` is a behaviour of each of the nine, and its types |

### 2.1 From code to model

The registry's functions are synchronous, so a handler's step between two awaits
is a *composition* of them. `TurnRegistry` has them as functions from registry
to registry; `SessionTurns` composes them. `Prune` is inside every action whose
handler calls something that prunes; it is also an action of its own
(`PrunedElsewhere`), because any request of any chat prunes all chats.

State. `reg.lock`, `reg.line`, `reg.hold` … are the maps of the same purpose
(the comment on each field names the map). `pc[r]` is a request's place in its
handler; the header of `SessionTurns` lists the places. `reg.outcome[s]` is what
a waiting send's promise was settled with: the gap between `outcome[s] # "none"`
and `SendResumes(s)` is the microtask in which a Stop or a delete may land.
`ending[r]`, `raised` and `recorded` are how the last run ended, the approvals
on a card, and the clicks whose answer is written.

Time. A bound is a *flag*: `overdue` is the set of bounds that have passed for
the current lock, stream and hold, and `waitedOut` the requests whose lock went
more than 30 s ago. Bounds may pass in any order (the code's constants order
some of them; the model allows more). No bound passes between a handover and the
microtask that takes it (`reg.handed = {}` in `BoundPasses`).

Actions. `SendArrives`, `SendThrowsInLine`, `WakeArrives`, `ClickArrives`,
`ClickWaitEnds`, `SendNow`, `SendResumes`, `OverflowResumes` take the chat;
`TurnBegins` … `Releases` run and let go; `KeeperMoves` and `KeeperReleases` are
`keepQueuedSendAtEnd`, whose failure of the move is `KeeperReleases` from
`keeping`; `AgentGone` is the turn that finds its agent gone and keeps the send;
`Leaves` is every way into the `finally`: after the reply, by an early return, by
a throw. `Stop`, `Shutdown`, `RestoreDrains`, `Delete…`, `BackstopFires` are the
routes and timers of those names.

### 2.2 What is abstracted, and where the model allows more than the code

- One chat, and the single-agent lane: the group lane's keyed entries and the
  null message id are not modelled. A continuation's new message id is the old
  one (the registry does not look at it but for the Stop's match).
- A request registers under itself instead of a new `turnId`; a request arrives
  once. Keep reasons are the set `kept`.
- `waitForFinishingTurn` is the send's stay at `idle`.
- Of the run only its checkpoint, its stream, its card and its end are left.
  Whether it fails, times out or is empty is `ending`.
- The sandbox sweep at the *start* of a run, the Claude plan run, the notices to
  the tabs, the clear of the steer inbox in the `finally` and the P5 originals
  have no effect on the registry and are left out here (the first two are in
  `SandboxGate` and `PlanRuns`, the inbox in `SteerTurns`).
- `MayDrain` lets a restore drain, or the server shut down, at any moment, and go
  on: more than the code does.
- `PrunedElsewhere` is always enabled, so a check for deadlock says nothing here.
  That nobody waits for ever is the job of the two liveness properties.
- The claim in Redis that excludes a second click for two minutes is not there:
  in the model only the chat's lock excludes it.

### 2.3 The steer inbox

`SteerTurns` is a model of its own. The lock is the least of what it needs: a
request takes a free one, a Stop takes it away once a run has ended under it
(that is how a second request comes to run beside the end of the first), and who
waits for it is `SessionTurns`' business.

The registry keeps two lists per chat; `box.at[s]` says in which a message is, or
what became of it since, `box.filed[s]` the reply it is filed under and
`box.step[s]` how many steps the model had made when it was handed over. The
lists are sets here: a batch is always handed out in acceptance order, and no
property is about the order within one. Nothing is left out of the functions
but the six-hour prune.

A run has two sides which move apart. `model[r]` is the SDK's: the steps made,
whether one is under way, whether the finish callback ran. `loop[r]` is the
route's `for await`: how many finished steps it has consumed, and whether it has
written anything of the next. `ModelSteps` is the step hook's take,
`LoopWrites` a round of the loop with its drain, `ModelFinishes` the forced drain
of `onFinish`, `StreamEnds` the forced drain behind the loop and the closing of
the stream. `mark[s]` is where the loop stood when the marker of `s` was written.

The rest of a request is one action per stretch between two awaits: `Continues`
(refile), `TakesWhatIsLeft` with `PromotionEnds` and `SavesWithoutAnswer` (the
promotion loop, the words held for a card, the save past the bound; each may
fail), and the finally's `CleansUp`, `DmsDegraded`, `MissedTold`. Their awaits are
what the other request, the doors and Stop come in between.

A queued message (`Held`) is refused while sends wait in the chat's line; the line
is not here, so it may be refused whenever. A DM's sender goes through
`DmStamps`, `DmEnters`, `DmStampedBack`: the stamp is an await before the check.

### 2.4 The registries around a turn, and the restore

Nine modules, one each for a component that shares no state with the others. What
they have in common: an action is a stretch between two awaits; a request's place in
its handler is a string (`call`, `wake`, `compact`, `ask`, …); time is a flag that says
a bound has passed, but in `Schedules`, which is about a clock.

`SandboxGate`. `ops` is the gate's queue, whose head is the operation under way; an
ensure in flight is joined (`JoinOrEnsure`), a command holds a lease, and a removal, but a
sweep's, gives up if a lease is out when its turn comes. `turn[t]` is a turn of the chat between its sweep at the start and its sweep at
the end; how it holds or loses the chat is `SessionTurns`, here it may lose it whenever.
`late` records the turns that came while a sweep was under way: the answer to "does
another turn hold the chat" (`send-routed:11237`) was older than they are. One sandbox;
gates of different names share nothing. Docker's and Apple's paths and a sandbox of no
chat are told apart by `owner`.

`Wakes`. `slot` is the reservations, `runs` the registry by chat, `starts` the last
hour; `aged` and `overstayed` say that a reservation's minute is over. The end of a
woken turn (`endWokenTurn`) awaits the interrupt route between telling the turn to stop
and clearing the run, so `ender` is a place of its own.

`Schedules`. A record is written field by field, so an edit is a `job` of single writes
and a sweep reads between them. `cache` is `scheduleStore`'s due cache with its
invalidations; the sweep's walk reads one record per step. Delivery may fail, the
process may die (`MayCrash`), the next run may be impossible to compute (`BadZone`). A write
may fail between two fields or before its invalidation (`WriteFails`); where the ticker
collapses missed runs, the sweep's catch then switches the schedule off. `updatedAt` is not
a field here: it is the last write of a record, so a failure of it is one before the
invalidation. A restored record is there before the restore's end invalidates (`Restores`).
Not modelled: an edit that mends such a zone, Run now, the clearing of a missed run;
cadences are intervals, not calendar rules.

`LiveHub`. `tab` is a send's wait, `worker` the browser's shared worker with its one
stream and what it counts as `known`, `pipe` what is on its way down, `patch` the one
change of subscriptions that may be under way, `held` and `watching` the hub on the
server. `StreamBreaks`, `PatchIsLost`, `ServerRestarts` are the faults, `faults` their
bound. A tab talks to the worker over a port, in order: one step. The old hub is
closed when the next opens. Not modelled: the retention of outcomes, the limit on
hubs, the wait at a shutdown, a browser without shared workers.

`SubagentRuns`. `verdict` is what `settleSubagentRunWork` has made of a run's work; a
run leaves `registered` only when it answered and its work is clean.

`Compacts`. `pressed`, `posted` and `pending` follow a Stop from the page through the
registry's pending Stops; `seen` is what a Compact had looked at, `met` (history)
whether a turn began or ended in it. `CompactFails` covers every refusal and error. The
delete's sweep and what follows it (the last turn is forgotten, the mark goes) are two
steps: the sweep is an await.

`PlanRuns`. A run goes by the name of the reply that starts it. `start` is where
`startRun` and `start` stand between their awaits, `proc` and `folder` what has come to
be; `ended` and `settled` are `endWith` and the settlement; `heldAt` the registry's hold
(the card), `lapsed` a deadline that has passed; `claims` the clicks that have a run.
`closing` is the delete's and the restore's place. The chat's lock is left out: requests
overlap freely, which is more than the code allows but for its grace rules. A delete and
a restore are not both under way. Not modelled: tool admission inside a run, delegated
and Compact runs, the shutdown, the agent's delete, the boot sweep, a folder that
cannot be removed.

`ZipHolds`. `tails` is the lock's map, `writer[w].after` whom a writer waits for; each
write of a click or of a reply's end is a step of its own inside the lock. One zip per
chat: zips of a chat are written apart. A call nested in a flow that has the lock runs
as part of it. Not modelled: skill sessions, a hold that follows a newer read, Judge
Juice and nap writers, message deletes, a Redis failure between a click's writes.

`Restore`. `step` is where the restore or a recovery stands, `duty` which of the two it is,
`disk` all that survives a crash: the journal's phase (`journal`), where each upload is
(`live`, `aside` in `.restore-old-…`, `fresh` in `.restore-new-…`), the records, and the
folder. `memory` is `journal.phase` of the process, which is set before each save
(`SavesPhase`). `Attempt` is one file or Redis operation: it succeeds, or it fails before or
after its effect; then the steps of the `try` go to the undoing and every other step fails
the request, or the start. `Crashes` may come between any two steps. A skill's or voice's
folder is known by its identity (device, inode, creation time), as in the code; `OtherBatshit`
puts another there or deletes it. One restore at a time, as the lock file and the fence
enforce. Not modelled: those two, several folders at once, an *empty* folder of another
Batshit (a rename replaces it; the code looks first), the hashes that guard the rollback
files, what users do while a failed restore's journal is pending (its recovery removes
uploads made meanwhile), and the durability of Redis itself.

### 2.5 "A mistake:"

An operator whose comment starts with *A mistake:* is not part of the system and
no definition uses it. It is a neighbour with a bug the code could plausibly
have (a dropped guard, a missing reset, a release by the wrong owner). Putting
it in the neighbour's place must break the property `PROJECT.json` pairs it
with, which shows that the property depends on that line of the code.

## 3. The runs

`MCSessionTurns` has up to three sends `s1 s2 s3`, two clicks `c1 c2` on the card
of the reply to `s1` (so they register under its message id `m1`, as an in-place
resume does), and a turn `w1` that never waits. `Cap` is 1 everywhere: a second
waiting send is already over it, so the cap, which is a small constant in the
code, is reached with two sends. A constant a run's configuration sets to `{}` or
`FALSE` switches the behaviour off, so that each run can afford the ones its
question needs.

| run | instance | properties | shows |
|---|---|---|---|
| `cards` | 3 sends, a wake, 2 clicks (one an expired card's own Deny), `s1` continues, bounds `hold` and `streamStale`, drain, shutdown | `TypeOK`, `LineAgrees`, `AnsweredOnce`, `OnlyUserEndsHold`, `LineServes` | the line implements `SendLine` and agrees with the requests waiting in it: a send is handed the chat, kept (cap, restore, shutdown, bound) or abandoned by a throw; two tabs, one card; the hold's whole life |
| `stops` | 2 sends, 1 click, Stop at any moment, bounds `stop`, `abort`, `handover` | `HiddenIsOwed`, `OneTurnAtATime`, `OnlyLostClaimsLeak`, `HandedAlone`, `CardHoldsLine` | locks taken from running requests by a Stop and both its grace rules, also from a reply that then stops at a card; no registration is left behind but a send's that lost the chat it had just claimed |
| `live` | 2 sends, 1 click, the delete, bounds `hold`, `turnStale`, `handover`; `FairSpec` | `DeleteSweepsAlone`, `WaitingSendGoesOn` | a line moves although every run hangs; the delete's sweep overlaps no writer |
| `setup` | one send, Stop | `StopReachesSetup` | one of the findings (section 5): expected to be violated |

Of `MCSteerTurns`, with two steps a run, one promotion and a cap of two:

| run | instance | properties | shows |
|---|---|---|---|
| `steer` | 1 request of up to 3 runs, a steer, a queued message, an agent DM, Stop, a lock that may lapse; `FairSpec` | `TypeOK`, `FiledWithItsReply`, `MarkIsNeverLate`, `DmStampHonest`, `KeepsPromise`, `EverySteerSettles` | the inbox keeps `SteerPromise` across continuations, promotions (failing ones and the one past the bound too), cards and Stops, and nothing waits for ever; what waits is filed under the run somebody will ask for; no marker stands after its boundary, whenever the SDK finishes; a DM's record is honest |
| `overlap` | 2 requests of one run, a steer, a DM, Stop, a loop that may throw | `OnlyReadSteersDropped`, `ClearSparesLiveTurn` | a request that unwinds beside a live reply |
| `stale`, `thrown`, `ahead` | one or two requests | `ClearSparesLiveTurn`, `NoSteerDropped`, `MarkAtItsBoundary` | three more findings (section 5) |

Of `MCServices`, whose `part` chooses the one registry that moves in a behaviour (they
share no state, so nothing is lost; together they are one run):

| run | instance | properties |
|---|---|---|
| `services`, part `gate` | 2 calls of 2 turns | `OnlyLaterSweepsTake`, `SweepsSpareTheLiveTurn` |
| part `wakes` | 2 wakes of one agent in one chat, caps of 1, 2 starts an hour | `CapsHold`, `WokenTurnsEnd` |
| part `schedules` | 2 schedules, one with a zone that cannot be read, 2 edits, clock up to 2, crashes | `CacheHidesNothing`, `SlotFiresOnce` |
| part `hub` | 2 waiting sends, 2 faults, 1 asking again | `NoAnswerMissed`, `FailsOnlyWhenLost`, `WaitsEnd` |
| part `subagents` | 2 runs, 2 deletes | `NothingRunsOnDeleted` |
| part `compacts` | 2 Compacts, 1 turn, the delete | `CompactsGiveWay` |
| part `zips` | 2 writers of one chat and the agent's delete | `UsersWordStands`, `NoHoldOutlivesItsAgent` |
| part `plans` | 1 run with up to 2 cards, 2 clicks on the first and 1 on the second, a delete and a restore | `RunHasOneKeeper`, `SweepsFindNoRun`, `ToldNotRunNeverRuns` |
| part `restore` | 2 uploads and 2 records before and in the backup (one each the same), a folder or none, 3 mishaps, 1 act of another Batshit | `RestoreIsWhole`, `FoldersAreKept`, `Reopens` |
| all parts | | `ServicesTypeOK` |
| `edit` | 2 schedules, no crash, of `Schedules` alone | `EditGoverns`: a finding (section 5), expected to be violated |
| `mark` | 2 mishaps, `MarkMayBeLost`, of `Restore` alone | `RestoreIsWhole`: a finding (section 5), expected to be violated |

Why these bounds are enough to be interesting: each property is about at most
three parties (the one that lets go, the one that is handed the chat, and one
that comes in between), and each run has that many of the kinds its property
speaks of; two sends waiting at once, an over-cap send among them, and a
click between them all occur. They are not a proof for larger instances; for the
safety properties of section 4 the theorems are. Checking with more bounds at
once (`turnStale` with Stop and the delete, or three sends with the delete) goes
beyond what TLC does in minutes. So `LineServes` and `LineAgrees` are run without the
delete and the bounds that take a lock: with those, they rest on the theorems
`LineImplements` and `LineAndRequestsAgree`, which have no such limit.

The steer runs have named bounds of the instance (`MaxRuns`, `MaxSteps`: a run
that is one of several, and a step that is followed by another, both occur) and
three switches. `MaxPromotions` is a constant of the code, three there and one
here, so that the bound is met. `CleanupIsShort` says that a clean-up's awaits end
before another request's stream opens; the code only makes that likely (a set-up
compiles a prompt and takes seconds), and run `stale` shows what happens without
it. `MayThrow` lets the loop throw (runs `overlap` and `thrown`). `LockMayLapse` lets the
lock go from under a request by the prune (`LockLapses`): with no stream, or with one that
was aborted. It is on in `steer`; with two requests it would let both write at once,
which is the business of `SessionTurns`, and then the reply whose stream was written over
loses what its model had read. The rule of six hours, which drops a stream nobody aborted,
is left out here. That the SDK finishes ahead of the loop is no switch: `ModelFinishes`
may come any time after the model's last step, in every run.
`overlap` has requests of one run each: a request that continues after a Stop took
its chat opens a stream over the live one, which is the finding of run `setup`
over again.

The bounds of `services` are two of each party, which is what its properties compare;
the caps and the limits are met (`RunCap`, `HourCap`, `MaxResubscribes`, `MaxFaults`),
and so are the boundaries of the clock (`LateGrace = 0`, `CacheBound` reached within
`MaxTime`). `CapsHold` is under `SetupsInTime`, no set-up outlasting
the minute its reservation is kept, and leaves out the run that a late end took off the
registry (section 5). The zip part has one chat, so that an agent's delete goes chat by
chat past turns that end is shown for one chat by the run, and for any number by
`GoneAgentsHoldNothing`. Larger instances checked once and not kept as runs: three wakes
of two agents (2.3 million states), two Claude plan runs with one card each (1.2 million),
a restore with 4 mishaps and 3 acts of another Batshit (0.25 million).

A restore's three mishaps are an error, another in the undoing of it, and a crash in the
recovery of that. `MarkMayBeLost` is `FALSE` in `services`: the one save whose failure without
an effect is left out is the one of run `mark`. `FoldersAreKept` excepts a folder that another
Batshit put there in the instant between the restore's look and its removal of its own
folder, which no file system call of Node's can close.

`AnsweredOnce` is run without the rules that take a lock from a click: a click
whose lock goes between its read and its write of the card is beside a second
one, and what excludes that one in the code, for two minutes, is the claim in
Redis that is not modelled.

### 3.1 Fairness

The liveness properties are under assumptions the code's scheduling justifies,
and no others. No fairness is put on any run (a provider may never answer), on a
user, or on a request that has not arrived.

- `BackstopFires`: an unref'd `setInterval` in a process that serves requests.
- `BoundPasses`, `HandoverWaitPasses`: time passes. That the code *looks* at the
  clock is `BackstopFires`, not these.
- `SendResumes`, `OverflowResumes`: a settled promise's continuation runs.
- `ClickWaitEnds`: the wait polls and has a bound (`approvalClickWait.ts:75`).
- `DeletePolls`, and a delete that is `DeleteRefused` or `DeleteSwept` in the
  end: the delete has a bound and then answers one way or the other.
- `WakeFairness`: a set-up and an internal call end (both have time limits), and timers
  fire. No answer of a woken turn is forced: its time limit ends it.
- `HubFairness`: the tab, the worker and the server go on, a turn ends, and a tab that
  slept speaks again in the end. No fault, no Stop and no new send is forced; faults are
  bounded by `MaxFaults`, since a stream that breaks for ever tells nobody anything.
- `RestoreFairness`: a restore or a recovery that has begun goes on (file and Redis calls
  return), and Batshit is started again after it died or refused to start. No restore and
  no Inspect is forced; mishaps are bounded, since a disk that always fails is never done.
- `SteerTurns!FairSpec`: a request goes on (`Proceeds`), which includes that a reply's
  stream ends. That is the provider's doing, or the user's Stop, and not the
  code's: `EverySteerSettles` says that given it, the code leaves no message
  waiting. And the sender of a DM goes on after its stamp.

`WaitingSendGoesOn` is conditional on `<>[]~reg.deleting`: a user who begins a
delete again and again, each refused at its bound, holds every line back, and
that is what the code means to do.

## 4. The proofs

### 4.1 The turns of a chat

For every set of sends, clicks, wakes, messages and approvals, every cap, and
with every bound, Stop, drain, shutdown and delete, from `RequestsAssumption` (the
kinds of request are disjoint, each registers under a message id, the cap is
positive) and `CardsAssumption` (a click registers under the message whose card
it answers):

| theorem | says | checked by run |
|---|---|---|
| `TurnInvariant` | the inductive invariant `TurnInv` | – |
| `TypesOK` | `TypeOK` | `cards` |
| `LineAndRequestsAgree` | `LineAgrees` | `cards` |
| `LineKeepsItsTimer` | `LineHasBackstop`: a line that waits has its timer | – |
| `HiddenMessagesAreOwed` | `HiddenIsOwed` | `stops` |
| `HoldsForRunnable` | `HoldHasRunnable`: the line holds for a card only with a send behind it that will run | – |
| `KeptSendsNeverRun` | `KeptNeverRuns`: a kept send runs no turn | – |
| `OneTurnHoldsTheChat` | `OneTurnAtATime` | `stops` |
| `DeletesSweepAlone` | `DeleteSweepsAlone` | `live` |
| `LineImplements` | `LineServes`: the line implements `SendLine` | `cards` |
| `OnlyLostClaimsStay` | `OnlyLostClaimsLeak` | `stops` |
| `CardsHoldTheLine` | `CardHoldsLine` | `stops` |
| `OnlyTheUserEndsAHold` | `OnlyUserEndsHold` | `cards` |
| `HandsOnAlone` | `HandedAlone` | `stops` |
| `ApprovalsAnsweredOnce` | `AnsweredOnce`, where nothing takes a lock from a request that runs (`NothingSeizes`) | `cards` |

None of these is inductive. `KeptNeverRuns`, say, needs that a send in the line
is at a place where it waits, that one the line told *run* is no longer in the
line (so a later Stop does not keep it), and that one told *keep* is not let to
run; those need that the line has no duplicates, and so on. `TurnInv` says, of
each request, where its handler is *given* what the registry holds for it:

- `Sound(reg)`: the registry by itself. Types; the line has no duplicates; a line
  that waits has its timer; only waiting sends and the holder are hidden; the
  hold has something runnable behind it; who was handed the chat was told so.
- `HolderRuns(reg)`: the holder has a registration.
- `SendPlaced`: a send waits exactly while it has been told nothing, and a kept
  send is at no place that runs.
- `RequestPlaced`: a request that can write is registered, and holds the lock or
  has had it taken; nothing runs in a chat that is gone.
- `DeleteMarked`: while the delete polls or sweeps, the mark is up; it sweeps only
  when nothing is registered.

The argument has three layers. (1) `TurnRegistryProofs`: each function keeps
`Sound`, and `Moves(g, h, J, R)` bounds what it changes: only the sends `J` join
the line, only the requests `R` lose their registration, everyone else is told
nothing but the head's handover, or loses a lock only by being marked dropped.
Moves compose, so the handlers' compositions need no new work. (2) A move leaves
every request it is not *about* in its place (`SendStays`, `RequestStays`,
`MarksStay`, combined in `Step`). (3) One lemma per action places the one request
the action is about; `NextTurnInv` collects them.

`LineImplements` needs no new invariant, only a closer look at the steps. Each
registry function `Serves`: it hands the chat on at most once, to the head, and never
over a request that holds it. The compositions an action makes (prune, then keep or
cancel the line, then hand on, then take or let go) are shown to add up to one
of `LineMoves`: one send joins, the head is told, the line is kept or cancelled as
a whole, or nothing of the line changes (`Settles`). `LineMovesServe` maps each to
the step of `SendLine` it is.

`OnlyLostClaimsLeak` is inductive over `TurnInv`: `Owed` says it of one request, and each
registry function `Tracks`: only who is handed the chat, or registers, begins to run, and
nobody who was dropped stops counting as dropped. What is left for the actions is to show
that a request goes to a place it does not let go from only with its own release, but for
the send whose claim a prune took away.

`CardsHoldTheLine` rests on `CardsPlaced`: who has begun no run has stopped at no card, and
who is in its finally with a card is still registered. So at a release at a card the line
is asked while the request's registration has outlived its lock, and nothing between the
two can have dropped the hold.

`OnlyTheUserEndsAHold` needs no new invariant. Each registry function but the three the
user's own acts call `Stands`: it keeps the hold, or keeps what still waited behind it
(as a Stop and the bounds do). An action stands when each function it composes does. The
property excepts one act that looks like the system's own: a send that joins the line
releases the hold by its arrival, and it has done so even if its handler throws later.
It does not except a send over the cap, which is told *keep* and releases nothing.

`HandsOnAlone` is the one theorem about which bounds may have passed. The line asks, before
it hands the chat on, whether a request that was dropped from it still runs (`reg.running`),
so the theorem needs that whoever runs beside the holder is recorded as dropped, or is the
next in the line's hand (`Ordered`), and that nobody is counted as waited out who was not.
What can go wrong is a *late* handover: a send was handed the chat and has not taken it,
while an earlier run's stream is past its abort bound; the next prune takes the chat from
it again (the first item of the list at the end of section 5). `LateOrder` and `LateSettled` say that no card holds the
line then, no bound of the lock has passed, and that with the lock gone the line is empty
or held back by whoever still runs, and `LateEnds` that whoever holds the chat meanwhile
has run nothing, so its release starts no card hold. Each function `Keeps` these, and each
action is shown `HandsAlone`.

`ApprovalsAnsweredOnce` has a premise, the one its run has too: no Stop is pressed and
none of the bounds that take a lock elapses (the hold's and the stream's may). Then each
registry function `HoldsOn`: it takes the lock from nobody but the one who lets it go. So
whoever is at a place where it writes holds the chat (`WritersHold`), no second request
is at such a place, and what a click read of its card is still true when it writes its
answer (`ReadIsFresh`), which an answer written meanwhile would have made stale.

### 4.2 The steer inbox

For every set of requests, steers, DMs and queued messages, every cap and every
bound on runs, steps and promotions, from `InboxAssumption` and `TurnsAssumption`
(a DM is no queued message, a reply is a request and the number of its run). Some
theorems assume more; each names it, and section 5 has the run that shows why.

| theorem | says | assumes | checked by run |
|---|---|---|---|
| `TypeCorrect` | `TypeOK` | – | `steer` |
| `StaysWithinCap` | `WithinCap` | – | – |
| `MarkersNeverLate` | `MarkIsNeverLate` | – | `steer` |
| `FiledRight` | `FiledWithItsReply` | `MayThrow = FALSE` | `steer` |
| `OnlyReadDropped` | `OnlyReadSteersDropped` | `CleanupIsShort` | `overlap` |
| `LiveTurnSpared` | `ClearSparesLiveTurn` | `CleanupIsShort` | `overlap`; without it `stale` |
| `NothingDropped` | `NoSteerDropped` | `Safe` | without it `thrown` |
| `StampsHonest` | `DmStampHonest` | `Safe` | `steer` |
| `PromiseKept` | `KeepsPromise` | `Safe` | `steer` |

`Safe` is `CleanupIsShort`, no loop that throws, and `Alone`: replies are written one
at a time, because there is one request, or no lock lapses and either requests run once
or nobody presses Stop. Either way nobody else gets the chat while a request writes. Without
`Alone`, a prune takes the lock of a request that runs, or a Stop that of one that runs
again (the finding of run `setup`); a second reply opens its stream, and the first one's
read messages are no longer spared. `SessionTurns` says when that happens
(`OneTurnAtATime`).

The invariants, each resting on the ones before it:

- `SteerInv`: types and counters; what is in the inbox is filed, and under no run
  that is yet to come; a user's message that waits is filed under the last run of
  a request that will still settle it; the registered stream belongs to a request
  that writes; what a request has in hand is out of the inbox and in no other
  hand; the cap. A continuation keeps the cap because the new reply's id had
  nothing filed under it.
- `Boundaries`: the loop never passes the model, and a steer the model read at step
  *k* is written before the loop enters step *k*+1, since each round drains first; one
  written sooner was written by the SDK's finish (the finding of run `ahead`). So
  `MarkIsNeverLate` holds with no assumption.
- `Delivered`: what was read is filed under a reply still written, since every way
  out of a stream but a throw drains.
- `Spared` and `WasRead`: while a clean-up waits in its awaits, the reply it read as
  live is live still, or none is, and whatever waits and was not taken is that reply's.
  So the clear behind the awaits finds nothing waiting.
- `LockHeld` and `Registered`: whoever writes is the registered stream. With
  `Delivered`, what was read is the live reply's, so no clear takes it.
- `Honest` puts these together with `DmStampHonest`. Each action is then shown to be one
  *turn* (`Turned`): a batch goes from one place to another, what else moved was
  only taken in hand, and the pair of places is one the promise has a step for.

### 4.3 The registries around a turn

Each for every value of its module's constants, from the assumptions named there.

| theorem | says | module | checked by run |
|---|---|---|---|
| `DeleteInvariant`, `DeletedSubagentsRest` | `NothingRunsOnDeleted` | `RunsProofs` | `services` |
| `PlanRunsInvariant`, `PlanRunsHaveOneKeeper`, `SweptChatsHaveNoRun`, `ReportedNotRunIsTrue` | `RunHasOneKeeper`, `SweepsFindNoRun`, `ToldNotRunNeverRuns` | `RunsProofs` | `services` |
| `CompactInvariant`, `WrittenMayStand` | `CompactsGiveWay` | `RunsProofs` | `services` |
| `ZipInvariant`, `WordStands`, `GoneAgentsHoldNothing` | `UsersWordStands`, `NoHoldOutlivesItsAgent` | `LocksProofs` | `services` |
| `WakesInvariant`, `WokenTurnsAreTimed`, `WakesAreCapped` | `TimeLimitStays` (no run: a woken turn that goes on has its timer), `CapsHold` | `WakesProofs` | `services` |
| `ScheduleInvariant`, `CacheIsHonest`, `SlotsFireOnce` | `CacheHidesNothing`, `SlotFiresOnce` | `WakesProofs` | `services` |
| `HubInvariant`, `AwakeTabsHear`, `SendsFailOnlyWhenLost` | `NoAnswerMissed`, `FailsOnlyWhenLost` | `RunsProofs` | `services` |
| `GateInvariant`, `SweepsAloneTake`, `LiveTurnIsSpared` | `OnlyLaterSweepsTake`, `SweepsSpareTheLiveTurn` | `LocksProofs` | `services` |
| `RestoreTypes`, `RestoresAreWhole`, `FoldersStay` (under `~MarkMayBeLost`) | `RestoreIsWhole`, `FoldersAreKept` | `RestoreProofs` | `services` |
| `ServicesKeepToTheirSpecs`, `ServicesTypes` (under `~MarkMayBeLost`) | `ServicesTypeOK` | `ServicesProofs` | `services` |

The last row ties the others to the run: a behaviour of `MCServices` is, seen through the
variables of a component, a behaviour of that component's own specification (where another
part moves, it stutters), so each theorem above holds of it.

The first theorem of each of the other rows is, or comes with, the inductive invariant the others follow from:

- `DeleteInv`: whatever may still start work, or works, is registered
  (`WorkIsRegistered`); one delete at a time waits or removes, and holds the mark; what is
  removed has nobody registered.
- `PlanInv`: what is listed has not settled, and what settled without a trace has neither
  a process nor a folder (`RunsInStep`); a click is past its claim only with the run it
  claimed and its own answer (`ClicksInStep`); a run has a keeper and no two of them
  (`KeptByOne`); an owner past its wait has no request beside it, so no start can join
  what it ended (`OwnersInStep`). A start that is still binding has raised no card, which
  is why nobody else can be its keeper when it is listed.
- `CompactInv`: a Stop that reached the server before its Compact is kept as a pending
  one or has reached its signal (`StopIsKept`); a turn that met a Compact is seen by the
  comparison it makes before it writes (`MetIsSeen`); no two that write have looked at the
  same event (`EventsInTurn`); the delete aborts what runs, and what had looked at the chat before it
  was swept (`DeleteAborts`).
- `ZipInv`: a chat's queue is a line with no ring. That is said without counting: every
  non-empty set of waiting writers has one that waits for nobody in the set. Inside the
  lock, what the rest of a writer's writes leave behind is computed (`Final`) and is
  whole and obeys the user's word (`WritersObey`), so nothing needs to be said of the
  states between two of its writes.
- `WakeInv`: each wake's reservation, run, timer and abort fit its place; under
  `SetupsInTime`, who goes on is registered, an agent has one place, and what `CapsAllow`
  counts is at least what goes on.
- `HubInv`: for an awake tab, what the worker counts as known is held by the hub it
  thinks of, or the change that takes it off is under way (`HeldServes`); what is held is
  watched, or its end is on its way down (`StreamFits`). The rest fits each change of the
  subscriptions to the place it is at (`PatchFits`, `AskedFor`, `WaitsFit`).
- `ScheduleInv`: what the sweep's walk has passed over counts in the earliest time it
  would publish, unless an invalidation has made the walk stale (`CacheCounts`); a
  schedule is due once in a sweep (`DueOnce`); and a fired slot is past, or the ticker
  still has in hand the write that makes it so, or the schedule is off for good
  (`FiredIsPast`). That needs the writers' jobs: a job's next run lies ahead of the slot,
  and the ticker has a job only for the slot it has in hand (`TickerInStep`).
- `GateInv`: an ensure that may be joined is behind every removal (`OpenIsLast`), so a
  call's ensure stands behind every sweep queued before the call came, and nobody runs a
  command who came after a sweep still to be done (`CallsInLine`); a removal that asks
  for leases works only where nobody runs a command (`LeasesInStep`); a sweep's turn
  waits for it, and it alone (`RemovalsAwaited`); and a turn that holds the chat, or came,
  beside another's sweep is in `late` (`TurnsInStep`).

- `RestoreInv`: what the journal on disk says of the rest of the disk, at every moment, since
  a crash may come at any (`JournalTells`): with no journal all is old or all is new; up to
  "redis-replacing" every old upload is in its place or aside, and before that phase the
  records are old; a complete journal means all is new, an undone one all old. A process
  may trust its memory instead, as memory and journal agree on whether the records may
  have changed (`MarkAgrees`): there the theorem needs `~MarkMayBeLost`, and run `mark`
  shows what happens without. `Forward`, `Backward` and `Ending` say what each step finds;
  they bind a step that goes on, and one that fails has only to reach where it may fail
  to (`Attempts`). For the folders (`FoldersInv`): nothing is aside before the folder is
  moved or when the journal is about to go, and one is kept only of a restore that
  replaced all.

### 4.4 Not proved

Only checked by TLC: the liveness properties `WaitingSendGoesOn`, `EverySteerSettles`,
`WokenTurnsEnd`, `WaitsEnd` and `Reopens`, since liveness under fairness and `ENABLED` are
outside the prover's reach. Every safety invariant and every action property that a passing
run checks is proved, two of them under a premise: `AnsweredOnce` where nothing takes a lock
from a request that runs (4.1), and what depends on `~MarkMayBeLost` (4.3). The steer
theorems name theirs in 4.2. The premises are those of the runs.

## 5. What the runs found

Six disagreements between the code and what its comments say. Each is a run
that TLC ends with a counterexample.

- **`setup`** – `runEnded` is a fact about a run, kept on the request's lock. A
  request that runs again (a continuation, a promoted steer) carries it into the
  set-up of its next run, and a Stop in that window takes the branch for a
  finishing turn: it clears the lock instead of stopping the turn. The comment at
  `streamAbortRegistry.ts:1171` says such a request counts as running again.
- **`stale`** – the finally reads which reply is live before it awaits the stamps and
  the report of what was missed, and clears the inbox by that reading after them.
  A reply that opened its stream meanwhile loses its accepted messages, and nobody
  is told. The comment over the reading
  (`routes/api/messages/send-routed/+server.ts:11268`) promises the live turn's mail is
  kept. It takes an await as long as a set-up, so it will be rare.
- **`thrown`** – a loop that throws skips the drain behind it. A message the model has
  read, whose step the loop had not finished, is then neither in the transcript
  nor pending, and the clear deletes it. The comments
  (`steerInboxRegistry.ts:4`, `send-routed/+server.ts:11264`) say nothing accepted is lost
  and list what the clear can still find; this is not in the list.
- **`ahead`** – the SDK's `onFinish` begins with a forced drain
  (`send-routed/+server.ts:5813`), which does not wait for the loop to have consumed the step a
  message was read after. Where the callback runs before the loop has written the last steps,
  as the comments at 7686 and 7692 say it can, the marker lands before or inside that step.
  The comment at 5155 says it can never land there, and the one at 5811 that nothing is left
  to protect. `MarkIsNeverLate` (run `steer`, and proved) is what does hold: no marker is
  later than its boundary, and none earlier before the SDK has finished.
- **`edit`** – a fire computes its next run from the schedule as the sweep had read it, and
  writes it by field path when the delivery is done (`schedules/scheduleTicker.ts:218`,
  `schedules/scheduleStore.ts:554`). A cadence edited in between is kept, its next run is
  overwritten: a shorter period starts only after the old one. The comment at
  `scheduleStore.ts:456` says an edit governs the very next sweep.
- **`mark`** – before it replaces the records, a restore sets the journal's phase to
  `redis-replacing` in memory and saves it. If that save fails before its rename (a full
  disk), the undoing at once goes by the phase in memory (`backupRestoreService.ts:6046`) and
  deletes and rewrites records that had not changed. If it fails in turn, or the process
  dies, recovery goes by the phase on disk, `files-swapped`: it puts the files back, leaves
  the half-rewritten records as they are, and removes the rollback file that had the rest. The
  comment at 6067 avoids just this for the next marker ("recovery must use the actual
  persisted phase to finish or undo BOTH stores").

Seen in the code while modelling, and no run:

- A send that claims the chat it was handed asks once more whether the chat is free, and
  asking prunes (`send-routed:9966`). If an earlier request's aborted stream is past its
  bound by then, the prune takes the lock just claimed; the send answers 409 and nobody
  releases its registration. A later delete of the chat then waits for it until it gives up.
  `OnlyLostClaimsLeak` (run `stops`, where this happens) says that this is the *only* way a
  registration is left behind, and section 4.1 proves it.
- The `finally` asks whether another turn holds the chat and then awaits the sandbox
  sweep (`send-routed:11237`). A turn that starts in between may lose its sandbox:
  `SandboxGate!late`, which `SweepsSpareTheLiveTurn` excepts: no property counts it as right.
- A woken turn's timer awaits the interrupt route and then clears whatever run the chat
  has by then, which may be the next wake's: that one then goes on uncounted and
  untimed (`Wakes!Robbed`; `EndsOwnRun` does not hold).
- A tab that was dropped as silent and speaks again while a change of subscriptions is
  under way counts as known when the sets are compared, and is then removed: it misses
  its `turn_over` until the stream next drops (`LiveHub!SleepersAreTakenBack` does not
  hold; `protocol.ts` says a dropped tab is taken back on its next message).
- A user's click on a zip writes its fields one after the other and not in one `MULTI`
  (`routes/api/unzipping/+server.ts:108`): a Redis failure in between leaves half of it.
- `claudePlanRunRegistry.ts:12` says that the destructive owners, agent delete among them,
  close admission of runs. The agent's delete (`routes/api/agents/[id]/+server.ts:429`)
  ends the runs and closes nothing, so one started before the record goes (490) is not
  excluded. It is not modelled.

A limit the code documents, and no finding: a click stalled for more than two
minutes between its read and its write no longer excludes a second one.

## 6. What is not modelled

Left for later, by how much goes wrong for a user when it goes wrong:

1. The answer a click gives to the words held for its card, beside sends the line kept
   there (`SteerTurns`, `SessionTurns`).
2. The group lane of the session turn registry, and a turn's own rounds.
3. `ApprovalExpiry`: the Deny of an expired card against the click's record, with the
   claim's two minutes as a bound. A stall of two minutes between two Redis calls of one
   click is the one hazard listed in `PROJECT.json` that no property covers.
4. Run now, missed-run clearing and calendar cadences of `Schedules`; the retention and
   the limits of `LiveHub`; tool admission inside a Claude plan run.
5. The making of a backup; the hair import's job lifecycle.
6. `mergeQueuedSendHistory` (`queuedSendRules.ts:128`) as an operator against a
   reference definition over bounded histories.

The profile folder queue (`agentProfileFolderQueue.ts`) is a lock like the zip state's,
taken by deletes and population changes in one order; the preparations it also offers have
no caller outside its tests. It is left out for room.

Left out for good: provider calls, child processes, media, rendering, packaging
and the browser's own state (I/O and data with little control to check); Redis
itself, whose single calls are atomic and part of the step that makes them. These are
most of the repository's lines: the modules here cover the small part of it in which
several requests meet.

## 7. Running it

    tlc -config SessionTurns_cards.cfg MCSessionTurns.tla    # stops, live, setup likewise
    tlc -config SteerTurns_steer.cfg MCSteerTurns.tla        # overlap, stale, thrown, ahead likewise
    tlc -config Services_services.cfg MCServices.tla
    tlc -config Schedules_edit.cfg Schedules.tla
    tlc -config Restore_mark.cfg Restore.tla
    tlapm SessionTurnsProofs.tla       # and the other modules named ...Proofs

The largest run is `stops` (1.7 million states); it, `services` (1.1 million), `live`
(1.4 million, with liveness) and `steer` (0.5 million, with liveness) take up to three minutes
with two workers, the others less. The
proofs take some minutes from nothing.
