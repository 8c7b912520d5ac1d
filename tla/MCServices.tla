----------------------------- MODULE MCServices -----------------------------
(***************************************************************************)
(* An instance of the components that share no state with each other: in    *)
(* each behaviour one of them moves, and the others stay as they begin.     *)
(***************************************************************************)
EXTENDS SandboxGate, Wakes, Schedules, LiveHub, SubagentRuns, Compacts, ZipHolds,
        PlanRuns, Restore, TLC

CONSTANTS k1, k2, t1, t2, w1, w2, g1, e1, e2, s1, s2, r1, r2, d1, d2, q1, q2, h1, z1, z2,
          p1, c1, c2, c3, u1, u2, u3

MCTurnOf == (k1 :> t1) @@ (k2 :> t2)
MCAgentOf == [w \in Wakes |-> g1]
MCChatOf == [w \in Wakes |-> h1]
MCCardOf == (c1 :> <<p1, 1>>) @@ (c2 :> <<p1, 1>>) @@ (c3 :> <<p1, 2>>)

VARIABLE part   \* the one that moves

serviceVars == << part, gateVars, wakeVars, scheduleVars, hubVars, subagentVars, compactVars,
                  zipVars, planVars, restoreVars >>

ServicesInit ==
  /\ part \in {"gate", "wakes", "schedules", "hub", "subagents", "compacts", "zips", "plans",
               "restore"}
  /\ GateInit /\ (part # "gate" => owner = "docker")
  /\ WakeInit /\ ScheduleInit /\ HubInit /\ SubagentInit /\ CompactInit /\ ZipInit /\ PlanInit
  /\ RestoreInit /\ (part # "restore" => disk.folder = NoFolder)

Rest(p) ==
  /\ (p # "gate" => UNCHANGED gateVars) /\ (p # "wakes" => UNCHANGED wakeVars)
  /\ (p # "schedules" => UNCHANGED scheduleVars) /\ (p # "hub" => UNCHANGED hubVars)
  /\ (p # "subagents" => UNCHANGED subagentVars) /\ (p # "compacts" => UNCHANGED compactVars)
  /\ (p # "zips" => UNCHANGED zipVars) /\ (p # "plans" => UNCHANGED planVars)
  /\ (p # "restore" => UNCHANGED restoreVars)

ServicesNext ==
  /\ \/ part = "gate" /\ GateNext
     \/ part = "wakes" /\ WakeNext
     \/ part = "schedules" /\ ScheduleNext
     \/ part = "hub" /\ HubNext
     \/ part = "subagents" /\ SubagentNext
     \/ part = "compacts" /\ CompactNext
     \/ part = "zips" /\ ZipNext
     \/ part = "plans" /\ PlanNext
     \/ part = "restore" /\ RestoreNext
  /\ UNCHANGED part
  /\ Rest(part)

ServicesSpec ==
  /\ ServicesInit /\ [][ServicesNext]_serviceVars
  /\ WakeFairness /\ HubFairness /\ RestoreFairness

\* The variables' types, of every component.
ServicesTypeOK ==
  /\ GateTypeOK /\ WakeTypeOK /\ ScheduleTypeOK /\ HubTypeOK /\ SubagentTypeOK
  /\ CompactTypeOK /\ ZipTypeOK /\ PlanTypeOK /\ RestoreTypeOK
=============================================================================
