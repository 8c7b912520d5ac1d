------------------------------- MODULE Wakes -------------------------------
(***************************************************************************)
(* Turns that the server starts for an agent: wakeRunRegistry.ts, which     *)
(* keeps the running ones by chat, the reservations and the starts of the   *)
(* last hour, and agentWakeups.ts, which reserves, sets up, registers and   *)
(* posts a woken turn, and ends it: by its answer, by a Stop of its chat,   *)
(* or by its timer, which posts to the interrupt route in between.          *)
(***************************************************************************)
EXTENDS Naturals, FiniteSets

CONSTANTS
  Wakes,     \* the requests to wake an agent
  AgentOf,   \* the agent of each
  ChatOf,    \* the chat its turn runs in
  AgentCap,  \* MAX_RUNNING_WOKEN_TURNS_PER_AGENT
  RunCap,    \* MAX_RUNNING_WOKEN_TURNS
  AgentHour, \* MAX_WAKES_PER_AGENT_PER_HOUR
  HourCap,   \* MAX_WAKES_PER_INSTANCE_PER_HOUR
  NoWake

ASSUME WakesAssumption ==
  /\ NoWake \notin Wakes
  /\ DOMAIN AgentOf = Wakes /\ DOMAIN ChatOf = Wakes
  /\ IsFiniteSet(Wakes)
  /\ {AgentCap, RunCap, AgentHour, HourCap} \subseteq Nat

\* A chat belongs to one agent, and an agent runs one woken turn at a time.
ASSUME OneRunPerAgent ==
  AgentCap = 1 /\ \A w, v \in Wakes : ChatOf[w] = ChatOf[v] => AgentOf[w] = AgentOf[v]

Chats == {ChatOf[w] : w \in Wakes}

VARIABLES
  wake,      \* each wake's place
  slot,      \* the wakes that hold a reservation
  aged,      \* those of them that hold it for more than RESERVATION_MAX_AGE_MS
  runs,      \* the registered run of each chat (runsBySession)
  starts,    \* the wakes started in the last hour
  timer,     \* the wakes whose hard-stop timer is set
  aborted,   \* why each wake's request was aborted
  ender,     \* endWokenTurn of each wake's timer: its place
  endedBy,   \* the wake whose own end took each run off the registry
  overstayed \* the wakes whose reservation was pruned while they set up

wakeVars == <<wake, slot, aged, runs, starts, timer, aborted, ender, endedBy, overstayed>>

WakePlaces == {"idle", "refused", "setup", "posting", "fetching", "over"}

WakeInit ==
  /\ wake = [w \in Wakes |-> "idle"]
  /\ slot = {} /\ aged = {} /\ starts = {} /\ timer = {} /\ overstayed = {}
  /\ runs = [c \in Chats |-> NoWake]
  /\ aborted = [w \in Wakes |-> "no"]
  /\ ender = [w \in Wakes |-> "none"]
  /\ endedBy = [w \in Wakes |-> NoWake]

-----------------------------------------------------------------------------
(* The registry.                                                            *)

Running == {w \in Wakes : runs[ChatOf[w]] = w}
OfAgent(a, S) == {w \in S : AgentOf[w] = a}

\* A mistake: what is reserved is not counted as running.
CapsAllowRunning(a, held) ==
  /\ Cardinality(OfAgent(a, Running)) < AgentCap
  /\ Cardinality(Running) < RunCap
  /\ Cardinality(OfAgent(a, starts)) < AgentHour
  /\ Cardinality(starts) < HourCap

\* checkWakeCaps, with the reservations that are left after the prune.
CapsAllow(a, held) ==
  /\ Cardinality(OfAgent(a, Running)) + Cardinality(OfAgent(a, held)) < AgentCap
  /\ Cardinality(Running) + Cardinality(held) < RunCap
  /\ Cardinality(OfAgent(a, starts)) + Cardinality(OfAgent(a, held)) < AgentHour
  /\ Cardinality(starts) + Cardinality(held) < HourCap

\* finishWokenTurn of wake w: whatever run the chat has then is cleared.
FinishRun(w) ==
  LET ended == runs[ChatOf[w]]
  IN  /\ runs' = [runs EXCEPT ![ChatOf[w]] = NoWake]
      /\ timer' = timer \ {ended}
      /\ endedBy' = IF ended = NoWake THEN endedBy ELSE [endedBy EXCEPT ![ended] = w]

\* abortWakeRun: the first reason stands.  A request that is out rejects at once,
\* and that ends its run; of the timers, only those in on are left.
Aborts(chat, reason, on) ==
  LET w == runs[chat]
      first == w # NoWake /\ aborted[w] = "no"
  IN  /\ aborted' = IF first THEN [aborted EXCEPT ![w] = reason] ELSE aborted
      /\ IF first /\ wake[w] = "fetching"
         THEN /\ wake' = [wake EXCEPT ![w] = "over"]
              /\ runs' = [runs EXCEPT ![chat] = NoWake]
              /\ timer' = on \ {w}
              /\ endedBy' = [endedBy EXCEPT ![w] = w]
         ELSE timer' = on /\ UNCHANGED <<wake, runs, endedBy>>

-----------------------------------------------------------------------------
(* Starting.                                                                *)

\* reserveWakeSlot: the caps are checked and the slot taken in one step.
Reserves(w) ==
  LET held == slot \ aged
  IN  /\ wake[w] = "idle"
      /\ IF CapsAllow(AgentOf[w], held)
         THEN slot' = held \cup {w} /\ wake' = [wake EXCEPT ![w] = "setup"]
         ELSE slot' = held /\ wake' = [wake EXCEPT ![w] = "refused"]
      /\ aged' = {} /\ overstayed' = overstayed \cup (slot \cap aged)
      /\ UNCHANGED <<runs, starts, timer, aborted, ender, endedBy>>

\* A refusal or a throw before the registration gives the slot back.
SetupFails(w) ==
  /\ wake[w] = "setup"
  /\ wake' = [wake EXCEPT ![w] = "refused"]
  /\ slot' = slot \ {w} /\ aged' = aged \ {w}
  /\ UNCHANGED <<runs, starts, timer, aborted, ender, endedBy, overstayed>>

\* registerWakeRun, with its timer.
Registers(w) ==
  /\ wake[w] = "setup"
  /\ wake' = [wake EXCEPT ![w] = "posting"]
  /\ slot' = slot \ {w} /\ aged' = aged \ {w}
  /\ runs' = [runs EXCEPT ![ChatOf[w]] = w]
  /\ starts' = starts \cup {w} /\ timer' = timer \cup {w}
  /\ UNCHANGED <<aborted, ender, endedBy, overstayed>>

\* The events are published, the history read and the request posted, which
\* rejects if the run was aborted meanwhile.  Or one of them throws, and the run
\* stays registered.
Posts(w) ==
  /\ wake[w] = "posting"
  /\ \/ /\ aborted[w] = "no"
        /\ wake' = [wake EXCEPT ![w] = "fetching"]
        /\ UNCHANGED <<runs, timer, endedBy>>
     \/ /\ aborted[w] # "no"
        /\ wake' = [wake EXCEPT ![w] = "over"]
        /\ FinishRun(w)
     \/ /\ wake' = [wake EXCEPT ![w] = "over"]
        /\ UNCHANGED <<runs, timer, endedBy>>
  /\ UNCHANGED <<slot, aged, starts, aborted, ender, overstayed>>

-----------------------------------------------------------------------------
(* Ending.                                                                  *)

\* The request is answered (completed, failed, a busy chat), or fails.
TurnAnswers(w) ==
  /\ wake[w] = "fetching"
  /\ wake' = [wake EXCEPT ![w] = "over"]
  /\ FinishRun(w)
  /\ UNCHANGED <<slot, aged, starts, aborted, ender, overstayed>>

\* A mistake: the timer only aborts.
TimerFiresAborting(w) ==
  /\ w \in timer
  /\ Aborts(ChatOf[w], "timed_out", timer \ {w})
  /\ UNCHANGED <<slot, aged, starts, ender, overstayed>>

\* endWokenTurn of the timer: abort, then await the interrupt route ...
TimerFires(w) ==
  /\ w \in timer
  /\ Aborts(ChatOf[w], "timed_out", timer \ {w})
  /\ ender' = IF runs[ChatOf[w]] = NoWake THEN ender
              ELSE [ender EXCEPT ![w] = "interrupting"]
  /\ UNCHANGED <<slot, aged, starts, overstayed>>

\* ... which aborts the run the chat has by then ...
Interrupts(w) ==
  /\ ender[w] = "interrupting"
  /\ ender' = [ender EXCEPT ![w] = "answered"]
  /\ Aborts(ChatOf[w], "stopped", timer)
  /\ UNCHANGED <<slot, aged, starts, overstayed>>

\* ... and clear what is registered after that.
TimeoutFinishes(w) ==
  /\ ender[w] = "answered"
  /\ ender' = [ender EXCEPT ![w] = "done"]
  /\ FinishRun(w)
  /\ UNCHANGED <<wake, slot, aged, starts, aborted, overstayed>>

\* The user's Stop in the chat, or the chat's delete.
StopsWake(chat) ==
  /\ runs[chat] # NoWake
  /\ Aborts(chat, "stopped", timer)
  /\ UNCHANGED <<slot, aged, starts, ender, overstayed>>

WakeTimePasses ==
  /\ \/ \E w \in slot \ aged : aged' = aged \cup {w} /\ UNCHANGED starts
     \/ \E w \in starts : starts' = starts \ {w} /\ UNCHANGED aged
  /\ UNCHANGED <<wake, slot, runs, timer, aborted, ender, endedBy, overstayed>>

WakeGoesOn(w) ==
  \/ SetupFails(w) \/ Registers(w) \/ Posts(w)
  \/ TimerFires(w) \/ Interrupts(w) \/ TimeoutFinishes(w)

WakeNext ==
  \/ \E w \in Wakes : Reserves(w) \/ WakeGoesOn(w) \/ TurnAnswers(w)
  \/ \E chat \in Chats : StopsWake(chat)
  \/ WakeTimePasses

WakeSpec == WakeInit /\ [][WakeNext]_wakeVars

\* Set-ups and internal calls end; timers fire.
WakeFairness == \A w \in Wakes : WF_wakeVars(WakeGoesOn(w))

-----------------------------------------------------------------------------
(* Properties.                                                              *)

WakeTypeOK ==
  /\ wake \in [Wakes -> WakePlaces]
  /\ aged \subseteq slot /\ slot \subseteq Wakes
  /\ starts \subseteq Wakes /\ timer \subseteq Wakes /\ overstayed \subseteq Wakes
  /\ runs \in [Chats -> Wakes \cup {NoWake}]
  /\ aborted \in [Wakes -> {"no", "stopped", "timed_out"}]
  /\ ender \in [Wakes -> {"none", "interrupting", "answered", "done"}]
  /\ endedBy \in [Wakes -> Wakes \cup {NoWake}]

\* A woken turn that goes on: nothing answered it and nothing told it to stop.
Live == {w \in Wakes : wake[w] \in {"posting", "fetching"} /\ aborted[w] = "no"}

\* The runs that another wake's end took off the registry.
Robbed == {w \in Wakes : endedBy[w] \notin {w, NoWake}}

\* No set-up outlasts the minute its reservation is kept.
SetupsInTime == overstayed = {}

\* While no set-up outlasts the minute its reservation is kept (SetupsInTime), the
\* turns that go on, not only those the registry has, are within the caps, and so
\* are the starts of an hour, however many wakes set up at once; but for a turn
\* that another wake's late end took off the registry.
CapsHold ==
  LET counted == Live \ Robbed
  IN  SetupsInTime =>
        /\ Cardinality(counted) <= RunCap /\ Cardinality(starts) <= HourCap
        /\ \A a \in {AgentOf[w] : w \in Wakes} :
             /\ Cardinality(OfAgent(a, counted)) <= AgentCap
             /\ Cardinality(OfAgent(a, starts)) <= AgentHour

\* A woken turn that goes on has its time limit, unless its run was taken off the
\* registry by the late end of another wake in the chat.
TimeLimitStays == SetupsInTime => Live \subseteq timer \cup Robbed

\* No wake keeps its agent's place for ever, whatever throws or hangs.
WokenTurnsEnd == \A w \in Wakes : []<>(w \notin Running)

\* One wake's ends (its answer, a Stop, its timer) report that wake's end, once
\* (clearWakeRun, finishWokenTurn).  Not so, and no run checks it: the timer's end
\* awaits the interrupt route, and then clears the run that the chat has by then,
\* which may be the next wake's (README, section 5).
EndsOwnRun == SetupsInTime => Robbed = {}
=============================================================================
