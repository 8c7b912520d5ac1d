----------------------------- MODULE Schedules -----------------------------
(***************************************************************************)
(* Schedules that write to an agent: the records and the due cache of       *)
(* scheduleStore.ts, and the sweep of scheduleTicker.ts that fires what is  *)
(* due.  Every write of a record is field by field, so a sweep reads and    *)
(* writes between the writes of an edit.  Cadences are intervals.           *)
(***************************************************************************)
EXTENDS Integers, Sequences, FiniteSets

CONSTANTS
  Schedules,
  BadZone,      \* those whose next run cannot be computed on this computer
  Periods,      \* the intervals a user may choose
  LateGrace,    \* LATE_FIRE_GRACE_MS
  CacheBound,   \* SCHEDULE_DUE_CACHE_MAX_MS
  MaxTime,      \* bound of the instance: when its clock stops
  MaxEdits,     \* bound of the instance: how many creations, edits and deletes
  MayCrash,     \* the process may restart, and Redis refuse a write
  None

\* What a walk takes up: a schedule, the slot it is due at and its cadence, as read.
Dues == [of : Schedules, next : Nat, period : Nat \ {0}]

ASSUME SchedulesAssumption ==
  /\ BadZone \subseteq Schedules
  /\ Periods \subseteq Nat \ {0}
  /\ {LateGrace, CacheBound, MaxTime, MaxEdits} \subseteq Nat
  /\ MayCrash \in BOOLEAN
  /\ None \notin Int \cup Schedules \cup Dues

VARIABLES
  clock,
  record,      \* the stored schedules
  cache,       \* dueCache: at the time, the earliest next run
  job,         \* what the user's request, and the ticker, still have to write
  edits,
  sweep,       \* the sweep's place and what it goes by
  fired,       \* the slots that were delivered
  unheard,     \* the schedules written since an invalidation, or a walk, could tell
  leftOn       \* the schedules a failure, or an edit meanwhile, left on after a fire

scheduleVars == <<clock, record, cache, job, edits, sweep, fired, unheard, leftOn>>

Writers == {"user", "ticker"}
NoJob == [of |-> None, todo |-> <<>>]
NoCache == [at |-> None, earliest |-> None]
IdleSweep == [ place |-> "idle", now |-> 0, todo |-> {}, due |-> {}, earliest |-> None,
               stale |-> FALSE, one |-> None ]

ScheduleInit ==
  /\ clock = 0 /\ edits = 0
  /\ record = [s \in Schedules |-> [there |-> FALSE, enabled |-> FALSE, period |-> 1, next |-> 0]]
  /\ cache = NoCache
  /\ job = [a \in Writers |-> NoJob]
  /\ sweep = IdleSweep
  /\ fired = {} /\ unheard = {} /\ leftOn = {}

\* computeNextRunAt of an interval: the first point of the anchor's grid past from.
NextRun(period, from, anchor) == anchor + ((from - anchor) \div period + 1) * period

-----------------------------------------------------------------------------
(* Writers.                                                                 *)

StartsJob(a, s, todo) == job' = [job EXCEPT ![a] = [of |-> s, todo |-> todo]]

SwitchOff == <<[field |-> "enabled", value |-> FALSE]>>

\* Where the ticker goes when its job is over; that a record of a fire, or a stop,
\* failed changes nothing of it.
AfterJob(a) ==
  IF a = "ticker" THEN [sweep EXCEPT !.place = IF @ = "recording" THEN "recorded" ELSE "working"]
                  ELSE sweep

\* One field (or, of a creation and a delete, the record) is written.
WriteLands(a) ==
  LET s == job[a].of
      write == Head(job[a].todo)
  IN  /\ job[a].todo # <<>>
      /\ record[s].there \/ write.field = "there"
      /\ record' = [record EXCEPT ![s][write.field] = write.value]
      /\ job' = [job EXCEPT ![a].todo = Tail(@)]
      /\ unheard' = unheard \cup {s}
      /\ leftOn' = IF s \in BadZone /\ write.field = "enabled" /\ write.value
                      /\ ~record[s].enabled
                   THEN leftOn \cup {s} ELSE leftOn
      /\ UNCHANGED <<clock, cache, edits, sweep, fired>>

\* The record is gone, or Redis refuses: the rest is not written, nor is the
\* cache invalidated.  The last write of a collapse, and of a fire's record, is
\* updatedAt, so these fail with all else written too.  A failed collapse goes on
\* to switch the schedule off.
WriteFails(a) ==
  LET s == job[a].of
      collapse == a = "ticker" /\ sweep.place = "collapsing"
      fire == a = "ticker" /\ sweep.place = "recording"
  IN  /\ job[a].todo # <<>> \/ collapse \/ fire
      /\ MayCrash \/ ~record[s].there
      /\ job' = [job EXCEPT ![a] = IF collapse THEN [of |-> s, todo |-> SwitchOff] ELSE NoJob]
      /\ sweep' = IF collapse THEN [sweep EXCEPT !.place = "stopping"] ELSE AfterJob(a)
      /\ leftOn' = IF a = "ticker" /\ ~collapse /\ job[a].todo # <<>> THEN leftOn \cup {s}
                   ELSE leftOn
      /\ UNCHANGED <<clock, record, cache, edits, fired, unheard>>

Invalidates(a) ==
  LET s == job[a].of
      other == IF a = "user" THEN "ticker" ELSE "user"
  IN  /\ job[a] # NoJob /\ job[a].todo = <<>>
      /\ cache' = NoCache
      /\ sweep' = [AfterJob(a) EXCEPT !.stale = TRUE]
      /\ unheard' = IF job[other].of = s THEN unheard ELSE unheard \ {s}
      /\ job' = [job EXCEPT ![a] = NoJob]
      /\ UNCHANGED <<clock, record, edits, fired, leftOn>>

\* createSchedule writes the record whole, and then puts it in the index.
UserCreates(s, period) ==
  /\ job["user"] = NoJob /\ edits < MaxEdits /\ edits' = edits + 1
  /\ ~record[s].there /\ record[s].next = 0 /\ s \notin BadZone
  /\ record' = [record EXCEPT ![s] =
       [there |-> FALSE, enabled |-> TRUE, period |-> period,
        next |-> NextRun(period, clock, clock)]]
  /\ StartsJob("user", s, <<[field |-> "there", value |-> TRUE]>>)
  /\ UNCHANGED <<clock, cache, sweep, fired, unheard, leftOn>>

\* A backup's restore puts back a schedule of another computer; the cache is
\* invalidated when the whole restore is done.
Restores(s) ==
  /\ job["user"] = NoJob
  /\ s \in BadZone /\ ~record[s].there /\ record[s].next = 0
  /\ record' = [record EXCEPT ![s] =
       [there |-> FALSE, enabled |-> TRUE, period |-> 1, next |-> clock + 1]]
  /\ StartsJob("user", s, <<[field |-> "there", value |-> TRUE]>>)
  /\ UNCHANGED <<clock, cache, edits, sweep, fired, unheard, leftOn>>

\* orderScheduleFieldWrites: enabled last.
Ordered(period, enabled, next) ==
  <<[field |-> "period", value |-> period]>> \o next
    \o <<[field |-> "enabled", value |-> enabled]>>

\* patchSchedule, up to its first write.  A zone that cannot be resolved fails it
\* before that when the next run is to be computed.
UserEdits(s, period, enabled) ==
  LET r == record[s]
      whenChanged == period # r.period \/ (enabled /\ ~r.enabled)
  IN  /\ job["user"] = NoJob /\ edits < MaxEdits /\ edits' = edits + 1
      /\ r.there /\ (s \in BadZone => ~whenChanged)
      /\ StartsJob("user", s,
           Ordered(period, enabled,
             IF whenChanged THEN <<[field |-> "next", value |-> NextRun(period, clock, clock)]>>
                            ELSE <<>>))
      /\ UNCHANGED <<clock, record, cache, sweep, fired, unheard, leftOn>>

UserDeletes(s) ==
  /\ job["user"] = NoJob /\ edits < MaxEdits /\ edits' = edits + 1
  /\ record[s].there
  /\ StartsJob("user", s, <<[field |-> "there", value |-> FALSE]>>)
  /\ UNCHANGED <<clock, record, cache, sweep, fired, unheard, leftOn>>

-----------------------------------------------------------------------------
(* The sweep.                                                               *)

CacheSkips ==
  /\ cache # NoCache
  /\ clock - cache.at < CacheBound
  /\ cache.earliest = None \/ cache.earliest > clock

\* The ticker fires, and no sweep is under way.  Whoever is in the index is read.
SweepBegins ==
  /\ sweep.place = "idle" /\ ~CacheSkips
  /\ sweep' = [IdleSweep EXCEPT !.place = "walking", !.now = clock,
                                !.todo = {s \in Schedules : record[s].there}]
  /\ unheard' = {s \in unheard : \E a \in Writers : job[a].of = s}
  /\ UNCHANGED <<clock, record, cache, job, edits, fired, leftOn>>

Earlier(a, b) == IF a = None \/ b < a THEN b ELSE a

\* One record is read; it is due, or counts for the earliest next run, or neither.
WalkReads(s) ==
  LET r == record[s]
      counts == r.there /\ r.enabled
  IN  /\ sweep.place = "walking" /\ s \in sweep.todo
      /\ sweep' = [sweep EXCEPT
           !.todo = @ \ {s},
           !.earliest = IF counts THEN Earlier(@, r.next) ELSE @,
           !.due = IF counts /\ r.next <= sweep.now
                   THEN @ \cup {[of |-> s, next |-> r.next, period |-> r.period]} ELSE @]
      /\ UNCHANGED <<clock, record, cache, job, edits, fired, unheard, leftOn>>

\* A mistake: the walk publishes what it saw, whatever was written meanwhile.
PublishAnyway ==
  cache' = [at |-> sweep.now, earliest |-> sweep.earliest]

\* Only a walk during which nothing was invalidated publishes.
Publish ==
  cache' = IF sweep.stale THEN cache ELSE [at |-> sweep.now, earliest |-> sweep.earliest]

WalkEnds ==
  /\ sweep.place = "walking" /\ sweep.todo = {}
  /\ Publish
  /\ sweep' = [sweep EXCEPT !.place = "working"]
  /\ UNCHANGED <<clock, record, job, edits, fired, unheard, leftOn>>

\* The oldest due run is next.
TakesUp(d) ==
  /\ sweep.place = "working" /\ d \in sweep.due
  /\ \A e \in sweep.due : d.next <= e.next

\* More overdue than the grace: nothing fires, the run is recorded as missed and
\* the clock put at the next slot, or the schedule switched off that has none.
Collapses(d) ==
  /\ TakesUp(d) /\ sweep.now - d.next > LateGrace
  /\ sweep' = [sweep EXCEPT !.due = @ \ {d},
                            !.place = IF d.of \in BadZone THEN "stopping" ELSE "collapsing"]
  /\ StartsJob("ticker", d.of,
       IF d.of \in BadZone THEN SwitchOff
       ELSE <<[field |-> "next", value |-> NextRun(d.period, sweep.now, d.next)]>>)
  /\ UNCHANGED <<clock, record, cache, edits, fired, unheard, leftOn>>

\* fireSchedule, up to the end of its delivery, which takes a while; that it
\* throws changes nothing of what follows.
Fires(d) ==
  /\ TakesUp(d) /\ sweep.now - d.next <= LateGrace
  /\ sweep' = [sweep EXCEPT !.place = "delivering", !.due = @ \ {d}, !.one = d]
  /\ fired' = fired \cup {<<d.of, d.next>>}
  /\ UNCHANGED <<clock, record, cache, job, edits, unheard, leftOn>>

\* recordFire: the next slot is of what the sweep read, on the grid of the slot.
Records ==
  LET d == sweep.one
  IN  /\ sweep.place = "delivering"
      /\ sweep' = [sweep EXCEPT !.place = "recording"]
      /\ StartsJob("ticker", d.of,
           IF d.of \in BadZone THEN <<>>
           ELSE <<[field |-> "next", value |-> NextRun(d.period, sweep.now, d.next)]>>)
      /\ UNCHANGED <<clock, record, cache, edits, fired, unheard, leftOn>>

\* A mistake: a schedule that cannot advance is left on.
LeavesItOn ==
  /\ sweep.place = "recorded"
  /\ sweep' = [sweep EXCEPT !.place = "working", !.one = None]
  /\ UNCHANGED <<clock, record, cache, job, edits, fired, unheard, leftOn>>

\* stopScheduleThatCannotAdvance, or nothing more to do for this one.
StopsIfItMust ==
  /\ sweep.place = "recorded"
  /\ IF sweep.one.of \in BadZone
     THEN /\ StartsJob("ticker", sweep.one.of, SwitchOff)
          /\ sweep' = [sweep EXCEPT !.place = "stopping", !.one = None]
     ELSE sweep' = [sweep EXCEPT !.place = "working", !.one = None] /\ job' = job
  /\ UNCHANGED <<clock, record, cache, edits, fired, unheard, leftOn>>

SweepEnds ==
  /\ sweep.place = "working" /\ sweep.due = {}
  /\ sweep' = IdleSweep
  /\ UNCHANGED <<clock, record, cache, job, edits, fired, unheard, leftOn>>

SweepStep ==
  \/ SweepBegins \/ WalkEnds \/ Records \/ StopsIfItMust \/ SweepEnds
  \/ \E s \in Schedules : WalkReads(s)
  \/ \E d \in sweep.due : Collapses(d) \/ Fires(d)

\* No slot comes round while one request's fields are written.
ClockTicks ==
  /\ clock < MaxTime /\ job["user"] = NoJob
  /\ clock' = clock + 1
  /\ UNCHANGED <<record, cache, job, edits, sweep, fired, unheard, leftOn>>

\* The process starts again: what is in memory is gone, a fire is not recorded.
ProcessRestarts ==
  /\ MayCrash /\ sweep.place # "idle"
  /\ cache' = NoCache /\ sweep' = IdleSweep
  /\ job' = [a \in Writers |-> NoJob] /\ unheard' = {}
  /\ leftOn' = leftOn \cup {s \in Schedules :
       \/ job["ticker"].of = s
       \/ sweep.one # None /\ sweep.one.of = s}
  /\ UNCHANGED <<clock, record, edits, fired>>

ScheduleNext ==
  \/ \E a \in Writers : WriteLands(a) \/ WriteFails(a) \/ Invalidates(a)
  \/ \E s \in Schedules : Restores(s) \/ UserDeletes(s)
  \/ \E s \in Schedules, period \in Periods :
       \/ UserCreates(s, period)
       \/ \E enabled \in BOOLEAN : UserEdits(s, period, enabled)
  \/ SweepStep \/ ClockTicks \/ ProcessRestarts

ScheduleSpec == ScheduleInit /\ [][ScheduleNext]_scheduleVars

-----------------------------------------------------------------------------
(* Properties.                                                              *)

ScheduleTypeOK ==
  /\ clock \in 0 .. MaxTime /\ edits \in 0 .. MaxEdits
  /\ record \in [Schedules ->
       [there : BOOLEAN, enabled : BOOLEAN, period : Nat \ {0}, next : Nat]]
  /\ cache.at \in Nat \cup {None} /\ cache.earliest \in Nat \cup {None}
  /\ \A a \in Writers : job[a].of \in Schedules \cup {None}
  /\ sweep.todo \subseteq Schedules
  /\ unheard \subseteq Schedules /\ leftOn \subseteq Schedules
  /\ fired \subseteq Schedules \X Nat

\* A sweep that trusts the cache misses nothing: no schedule that is on is due,
\* whatever was created, edited or recorded while the walk that filled the cache
\* read; but for one whose writer has yet to invalidate, or failed before it could.
CacheHidesNothing ==
  CacheSkips =>
    \A s \in Schedules \ unheard :
      record[s].there /\ record[s].enabled => record[s].next > clock

\* A slot is delivered once, though the delivery fails, the next run cannot be
\* computed, or the schedule is edited meanwhile; twice only if Redis or the
\* process failed before the fire was on record, or an edit under way wrote
\* "enabled" over the stop of a schedule that cannot advance.
SlotFiresOnce ==
  [][\A d \in sweep.due :
       sweep'.one = d /\ sweep.one # d /\ d.of \notin leftOn =>
         <<d.of, d.next>> \notin fired]_scheduleVars

\* An edit of the cadence governs the next run: it is no further away than one
\* period, once nobody is writing (patchSchedule: "so an edit governs the very
\* next sweep with no reload").
EditGoverns ==
  \A s \in Schedules :
    record[s].there /\ (\A a \in Writers : job[a].of # s) =>
      record[s].next <= clock + record[s].period
=============================================================================
