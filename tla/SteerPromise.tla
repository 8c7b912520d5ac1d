---------------------------- MODULE SteerPromise ----------------------------
(***************************************************************************)
(* What steering promises for each message it accepted: the model reads it  *)
(* inside the running reply and the transcript shows it there, or it is     *)
(* settled some other way that somebody is told of; each exactly once, and  *)
(* nothing accepted is forgotten.                                           *)
(***************************************************************************)
CONSTANTS Messages, AgentDms

VARIABLE fate

Outcomes == {"promoted", "held", "unanswered", "waits"}

Init == fate = [s \in Messages |-> "out"]

Become(S, from, to) ==
  /\ S # {}
  /\ \A s \in S : fate[s] \in from
  /\ fate' = [s \in Messages |-> IF s \in S THEN to ELSE fate[s]]

Accept(s) == Become({s}, {"out"}, "waiting")

Refuse(s) == Become({s}, {"out"}, IF s \in AgentDms THEN "waits" ELSE "refused")

\* Handing over and settling are batches.
HandOver(S) == Become(S, {"waiting"}, "read")
Show(S) == Become(S, {"read"}, "written")

\* An agent's DM never becomes the user's message, and a user's never a DM.
Settle(S, outcome) ==
  /\ Become(S, {"waiting"}, outcome)
  /\ IF outcome = "waits" THEN S \subseteq AgentDms ELSE S \cap AgentDms = {}

Next ==
  \/ \E s \in Messages : Accept(s) \/ Refuse(s)
  \/ \E S \in SUBSET Messages : HandOver(S) \/ Show(S)
  \/ \E S \in SUBSET Messages, outcome \in Outcomes : Settle(S, outcome)

Spec == Init /\ [][Next]_fate
=============================================================================
