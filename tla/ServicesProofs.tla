--------------------------- MODULE ServicesProofs ---------------------------
(***************************************************************************)
(* The components that share no state, side by side: each behaves there as  *)
(* its own specification lets it, so what is proved of a component holds in  *)
(* the instance TLC checks them in, and for all of its constants.            *)
(***************************************************************************)
EXTENDS MCServices, RunsProofs, WakesProofs, LocksProofs, RestoreProofs

\* Where a component rests it stutters, and where it moves it makes a step of its own.
THEOREM ServicesKeepToTheirSpecs ==
  ServicesSpec =>
    /\ GateSpec /\ WakeSpec /\ ScheduleSpec /\ HubSpec /\ SubagentSpec
    /\ CompactSpec /\ ZipSpec /\ PlanSpec /\ RestoreSpec
<1>1. ServicesInit =>
        /\ GateInit /\ WakeInit /\ ScheduleInit /\ HubInit /\ SubagentInit
        /\ CompactInit /\ ZipInit /\ PlanInit /\ RestoreInit
  BY DEF ServicesInit
<1>2. [ServicesNext]_serviceVars =>
        /\ [GateNext]_gateVars /\ [WakeNext]_wakeVars /\ [ScheduleNext]_scheduleVars
        /\ [HubNext]_hubVars /\ [SubagentNext]_subagentVars /\ [CompactNext]_compactVars
        /\ [ZipNext]_zipVars /\ [PlanNext]_planVars /\ [RestoreNext]_restoreVars
  BY DEF ServicesNext, Rest, serviceVars
<1> QED BY <1>1, <1>2, PTL DEF ServicesSpec, GateSpec, WakeSpec, ScheduleSpec, HubSpec,
           SubagentSpec, CompactSpec, ZipSpec, PlanSpec, RestoreSpec

\* The variables of every component keep their types.
THEOREM ServicesTypes ==
  ASSUME ~MarkMayBeLost
  PROVE  ServicesSpec => []ServicesTypeOK
<1>1. WakeInv => WakeTypeOK BY DEF WakeInv
<1>2. HubInv => HubTypeOK BY DEF HubInv
<1>3. DeleteInv => SubagentTypeOK BY DEF DeleteInv
<1>4. CompactInv => CompactTypeOK BY DEF CompactInv
<1>5. ZipInv => ZipTypeOK
  <2>1. ZipTypes => \A w \in Lockers : writer[w] \in Flows
    BY DEF ZipTypes
  <2>2. ASSUME NEW f \in Flows
        PROVE  /\ f.place \in {"idle", "waiting", "inside", "gone"}
               /\ f.chat \in ZipChats \cup {NoWriter} /\ f.after \in Lockers \cup {NoWriter}
               /\ f.kind \in Clicks \cup ReplySteps \cup {"none", "deletes"}
    BY DEF Flows, FlowKinds
  <2> QED BY <2>1, <2>2 DEF ZipInv, ZipTypes, ZipTypeOK, Zip
<1>6. PlanInv => PlanTypeOK BY DEF PlanInv
<1>7. RestoreSpec => []RestoreTypeOK BY RestoreTypes
<1> QED BY <1>1, <1>2, <1>3, <1>4, <1>5, <1>6, <1>7, ServicesKeepToTheirSpecs, GateTypes,
           WakesInvariant, ScheduleTypes, HubInvariant, DeleteInvariant, CompactInvariant,
           ZipInvariant, PlanRunsInvariant, PTL DEF ServicesTypeOK

=============================================================================
