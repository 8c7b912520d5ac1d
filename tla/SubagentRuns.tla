---------------------------- MODULE SubagentRuns ----------------------------
(***************************************************************************)
(* The delegated runs of one Subagent and its delete                         *)
(* (subagentRunRegistry.ts, subagentRunSettle.ts): a run is registered from  *)
(* before its first step until its call has answered and its lane is over;  *)
(* the delete stops what is registered and waits for it, or refuses.         *)
(***************************************************************************)
EXTENDS FiniteSets

CONSTANTS
  Runs,      \* calls of this Subagent
  Deletes    \* requests to delete it, of one user

VARIABLES
  stored,      \* the Subagent's record is there
  run,         \* each call's place
  lane,        \* the work it started
  verdict,     \* what settleSubagentRunWork has made of that work
  stopped,     \* the runs told to stop by a delete
  registered,
  marked,      \* the Subagent is being deleted
  delete       \* each delete's place

subagentVars == <<stored, run, lane, verdict, stopped, registered, marked, delete>>

SubagentInit ==
  /\ stored = TRUE
  /\ run = [r \in Runs |-> "idle"] /\ lane = [r \in Runs |-> "none"]
  /\ verdict = [r \in Runs |-> "none"]
  /\ stopped = {} /\ registered = {} /\ marked = FALSE
  /\ delete = [d \in Deletes |-> "idle"]

-----------------------------------------------------------------------------
(* A run.                                                                   *)

\* A mistake: a cleanup that could not be verified ends the registration.
OnceAnswered(r, place, judged) == place = "answered" /\ judged # "pending"

\* finishIfSettled: nothing pending, and no failure to be retried.
IsSettled(r, place, judged) == place = "answered" /\ judged \in {"none", "clean"}

FinishIfSettled(r, place, judged) ==
  registered' = IF IsSettled(r, place, judged) THEN registered \ {r} ELSE registered

\* beginSubagentRun: refused while the Subagent is being deleted; registered
\* before the record is read.
Begins(r) ==
  /\ run[r] = "idle"
  /\ IF marked THEN run' = [run EXCEPT ![r] = "answered"] /\ registered' = registered
               ELSE run' = [run EXCEPT ![r] = "reading"] /\ registered' = registered \cup {r}
  /\ UNCHANGED <<stored, lane, verdict, stopped, marked, delete>>

\* The record was read: it is gone, or a delete stopped the run meanwhile, and
\* the call is refused; or the run goes on (it waits for its thread, and more).
Reads(r) ==
  /\ run[r] = "reading"
  /\ LET place == IF stored /\ r \notin stopped THEN "starting" ELSE "answered"
     IN  run' = [run EXCEPT ![r] = place] /\ FinishIfSettled(r, place, verdict[r])
  /\ UNCHANGED <<stored, lane, verdict, stopped, marked, delete>>

\* The lane starts and is tracked, be the run stopped by then or not.
LaneStarts(r) ==
  /\ run[r] = "starting"
  /\ run' = [run EXCEPT ![r] = "calling"]
  /\ lane' = [lane EXCEPT ![r] = "working"] /\ verdict' = [verdict EXCEPT ![r] = "pending"]
  /\ UNCHANGED <<stored, stopped, registered, marked, delete>>

\* The call answers: its lane is over, or it was stopped or ran into a limit and
\* the lane unwinds behind it.
Answers(r) ==
  /\ run[r] \in {"starting", "calling"}
  /\ run' = [run EXCEPT ![r] = "answered"] /\ FinishIfSettled(r, "answered", verdict[r])
  /\ UNCHANGED <<stored, lane, verdict, stopped, marked, delete>>

LaneEnds(r) ==
  /\ lane[r] = "working" /\ lane' = [lane EXCEPT ![r] = "over"]
  /\ UNCHANGED <<stored, run, verdict, stopped, registered, marked, delete>>

Judged(r, judgement) ==
  /\ verdict' = [verdict EXCEPT ![r] = judgement]
  /\ FinishIfSettled(r, run[r], judgement)

\* The work has settled, at the first wait for it or at a later one.
WorkSettles(r) ==
  /\ verdict[r] \in {"pending", "retrying"} /\ lane[r] = "over"
  /\ Judged(r, "clean")
  /\ UNCHANGED <<stored, run, lane, stopped, marked, delete>>

\* 25 s after the stop (the call's own, or the delete's) it has not.
BoundPasses(r) ==
  /\ verdict[r] \in {"pending", "retrying"} /\ lane[r] = "working"
  /\ verdict[r] = "pending" => r \in stopped \/ run[r] = "answered"
  /\ Judged(r, "unverified")
  /\ UNCHANGED <<stored, run, lane, stopped, marked, delete>>

-----------------------------------------------------------------------------
(* A delete.                                                                *)

\* stopSubagentRunsForDelete: mark, stop, and try the old failures once more.  The
\* route saw the record some awaits ago: another delete may have removed it since.
DeleteMarks(d) ==
  /\ delete[d] = "idle" \/ (delete[d] = "refused" /\ stored)
  /\ IF marked THEN /\ delete' = [delete EXCEPT ![d] = "refused"]
                    /\ UNCHANGED <<marked, stopped, verdict>>
     ELSE LET failed == {r \in registered : verdict[r] = "unverified"}
          IN  /\ delete' = [delete EXCEPT ![d] = "waiting"] /\ marked' = TRUE
              /\ stopped' = stopped \cup registered
              /\ verdict' = [r \in Runs |-> IF r \in failed THEN "retrying" ELSE verdict[r]]
  /\ UNCHANGED <<stored, run, lane, registered>>

\* A poll of the wait finds a cleanup that failed, before or again, or the 30 s
\* are over: refused, the mark taken off.
DeleteRefuses(d) ==
  /\ delete[d] = "waiting" /\ registered # {}
  /\ delete' = [delete EXCEPT ![d] = "refused"] /\ marked' = FALSE
  /\ UNCHANGED <<stored, run, lane, verdict, stopped, registered>>

\* None is registered: the rest of the delete goes ahead.
DeleteProceeds(d) ==
  /\ delete[d] = "waiting" /\ registered = {}
  /\ delete' = [delete EXCEPT ![d] = "removing"]
  /\ UNCHANGED <<stored, run, lane, verdict, stopped, registered, marked>>

\* It ends: the record is gone, or a later step failed and nothing is.
DeleteEnds(d) ==
  /\ delete[d] = "removing" /\ marked' = FALSE
  /\ \/ stored' = FALSE /\ delete' = [delete EXCEPT ![d] = "done"]
     \/ stored' = stored /\ delete' = [delete EXCEPT ![d] = "refused"]
  /\ UNCHANGED <<run, lane, verdict, stopped, registered>>

SubagentNext ==
  \/ \E r \in Runs :
       \/ Begins(r) \/ Reads(r) \/ LaneStarts(r) \/ Answers(r) \/ LaneEnds(r)
       \/ WorkSettles(r) \/ BoundPasses(r)
  \/ \E d \in Deletes :
       DeleteMarks(d) \/ DeleteRefuses(d) \/ DeleteProceeds(d) \/ DeleteEnds(d)

SubagentSpec == SubagentInit /\ [][SubagentNext]_subagentVars

-----------------------------------------------------------------------------
(* Properties.                                                              *)

SubagentTypeOK ==
  /\ stored \in BOOLEAN /\ marked \in BOOLEAN
  /\ run \in [Runs -> {"idle", "reading", "starting", "calling", "answered"}]
  /\ lane \in [Runs -> {"none", "working", "over"}]
  /\ verdict \in [Runs -> {"none", "pending", "clean", "unverified", "retrying"}]
  /\ stopped \subseteq Runs /\ registered \subseteq Runs
  /\ delete \in [Deletes -> {"idle", "waiting", "refused", "removing", "done"}]

\* While a delete removes what is the Subagent's, and once it is gone, no lane of
\* it works and none will start: not of a call that loaded it before, nor of one
\* that had answered while its lane went on, nor where an earlier delete gave up.
NothingRunsOnDeleted ==
  (~stored \/ \E d \in Deletes : delete[d] = "removing") =>
    \A r \in Runs : lane[r] # "working" /\ run[r] # "starting"
=============================================================================
